------------------------------ MODULE Delivery ------------------------------
(***************************************************************************)
(* Outbound traffic: Outbox.send_items hands the actions of a batch to     *)
(* NapCatGateway.send one by one, other tasks use call_api at the same     *)
(* time, and all of them wait for answers that _handle_connection matches  *)
(* by echo.  Connections come and go, answers come late or never.          *)
(*                                                                         *)
(* A task suspends while it prepares an action (rendering), while ws.send  *)
(* drains and while it waits for the answer; wait_for cancels the future   *)
(* one turn of the loop before the task removes its echo.                  *)
(*                                                                         *)
(* FAULT marks faulty variants of the definition that follows.             *)
(***************************************************************************)
EXTENDS Integers, Sequences, FiniteSets

CONSTANTS
    Items,     \* actions and API calls; an item also stands for its echo
    Batches,   \* calls of send_items and of call_api
    Plan,      \* batch -> the sequence of its items
    Messages,  \* items that send_items stores (SEND_TEXT, SEND_SEGMENTS)
    Queries,   \* batches that are a call_api
    MaxConns,  \* bound: how often NapCat connects
    None

ASSUME DeliveryAssumption ==
    /\ Plan \in [Batches -> Seq(Items)] /\ \A b \in Batches : Plan[b] # <<>>
    /\ \A b, c \in Batches : \A j \in DOMAIN Plan[b], k \in DOMAIN Plan[c] :
        Plan[b][j] = Plan[c][k] => b = c /\ j = k
    /\ Messages \subseteq Items /\ Queries \subseteq Batches
    /\ \A b \in Queries : Len(Plan[b]) = 1 /\ Plan[b][1] \notin Messages
    /\ MaxConns \in Nat /\ None \notin Nat

VARIABLES
    opened,     \* number of connections so far; the last one is the newest
    live,       \* connections whose _handle_connection runs
    ws,         \* self._ws
    pending,    \* keys of self._pending
    future,     \* item -> its future
    at,         \* batch -> position of its current item
    stage,      \* batch -> where its task is
    requests,   \* external: <<connection, item>> NapCat has not yet handled
    answers,    \* external: <<connection, item, success>> on the way
    done,       \* external: items NapCat has carried out, in that order
    delivered,  \* report.delivered_items, of all batches
    failed,     \* report.failed_action_ids, of all batches
    facts       \* rows of the message store

conns == <<opened, live, ws>>
platform == <<requests, answers, done>>
report == <<delivered, failed, facts>>
vars == <<conns, pending, future, at, stage, platform, report>>

Conns == 1..MaxConns
Elements(s) == {s[k] : k \in DOMAIN s}

TypeOK ==
    /\ opened \in 0..MaxConns /\ live \subseteq Conns /\ ws \in Conns \cup {None}
    /\ pending \subseteq Items
    /\ future \in [Items -> {"none", "waiting", "ok", "bad", "cancelled"}]
    /\ at \in [Batches -> Nat] /\ \A b \in Batches : at[b] \in 1..Len(Plan[b])
    /\ stage \in [Batches -> {"idle", "preparing", "sending", "waiting", "expired", "done"}]
    /\ requests \subseteq Conns \X Items /\ answers \subseteq Conns \X Items \X BOOLEAN
    /\ done \in Seq(Items)
    /\ delivered \subseteq Items /\ failed \subseteq Items /\ facts \subseteq Items

Init ==
    /\ opened = 0 /\ live = {} /\ ws = None
    /\ pending = {} /\ future = [i \in Items |-> "none"]
    /\ at = [b \in Batches |-> 1] /\ stage = [b \in Batches |-> "idle"]
    /\ requests = {} /\ answers = {} /\ done = <<>>
    /\ delivered = {} /\ failed = {} /\ facts = {}

Item(b) == Plan[b][at[b]]

-----------------------------------------------------------------------------
(* _handle_connection                                                       *)

Connect ==
    /\ opened < MaxConns
    /\ opened' = opened + 1 /\ live' = live \cup {opened + 1} /\ ws' = opened + 1
    /\ UNCHANGED <<pending, future, at, stage, platform, report>>

\* FAULT: the end of an old connection takes the new one away.
LeaveAlways(c) == live' = live \ {c} /\ ws' = None

\* The finally clause.
Leave(c) == live' = live \ {c} /\ ws' = IF ws = c THEN None ELSE ws

\* NapCat disconnects, the server is stopped, or a message cannot be decoded.
ConnectionEnds(c) ==
    /\ c \in live /\ Leave(c)
    /\ answers' = {a \in answers : a[1] # c}
    /\ UNCHANGED <<opened, pending, future, at, stage, requests, done, report>>

\* FAULT: an answer is given to whoever waits.
AnyWaiting(i) == {j \in pending : future[j] = "waiting"}

\* Whose future an answer to i resolves.
Awaiting(i) == {i} \cap pending

\* An answer nobody waits for is taken for an event and ignored.
\* set_result on a future that wait_for has just cancelled raises, which ends
\* the connection.
Receive(c, i, success) ==
    /\ c \in live /\ <<c, i, success>> \in answers
    /\ \/ /\ Awaiting(i) = {} /\ answers' = answers \ {<<c, i, success>>}
          /\ UNCHANGED <<conns, future>>
       \/ \E j \in Awaiting(i) :
          /\ future[j] = "waiting"
          /\ future' = [future EXCEPT ![j] = IF success THEN "ok" ELSE "bad"]
          /\ answers' = answers \ {<<c, i, success>>}
          /\ UNCHANGED conns
       \/ /\ \E j \in Awaiting(i) : future[j] # "waiting"
          /\ Leave(c) /\ answers' = {a \in answers : a[1] # c}
          /\ UNCHANGED <<opened, future>>
    /\ UNCHANGED <<pending, at, stage, requests, done, report>>

-----------------------------------------------------------------------------
(* NapCat.  It may carry out what it has received although the connection   *)
(* is gone; then nobody hears of it.                                        *)

CarryOut(c, i, success) ==
    /\ <<c, i>> \in requests /\ requests' = requests \ {<<c, i>>}
    /\ done' = IF success THEN Append(done, i) ELSE done
    /\ answers' = IF c \in live THEN answers \cup {<<c, i, success>>} ELSE answers
    /\ UNCHANGED <<conns, pending, future, at, stage, report>>

-----------------------------------------------------------------------------
(* send_items, and call_api as a batch of one.                              *)

\* The loop over the items goes on, or returns the report.
Advance(b) ==
    IF at[b] < Len(Plan[b])
    THEN at' = [at EXCEPT ![b] = @ + 1] /\ stage' = [stage EXCEPT ![b] = "preparing"]
    ELSE stage' = [stage EXCEPT ![b] = "done"] /\ UNCHANGED at

Dispatch(b) ==
    /\ stage[b] = "idle" /\ stage' = [stage EXCEPT ![b] = "preparing"]
    /\ UNCHANGED <<conns, pending, future, at, platform, report>>

\* Rendering, publishing a workspace file or building the payload raises.
PrepareFails(b) ==
    /\ stage[b] = "preparing" /\ b \notin Queries
    /\ failed' = failed \cup {Item(b)} /\ Advance(b)
    /\ UNCHANGED <<conns, pending, future, platform, delivered, facts>>

\* "No WS connection": send returns None, call_api a failure.
NoConnection(b) ==
    /\ stage[b] = "preparing" /\ ws = None
    /\ failed' = failed \cup {Item(b)} /\ Advance(b)
    /\ UNCHANGED <<conns, pending, future, platform, delivered, facts>>

Send(b) ==
    /\ stage[b] = "preparing" /\ ws # None
    /\ pending' = pending \cup {Item(b)}
    /\ future' = [future EXCEPT ![Item(b)] = "waiting"]
    /\ stage' = [stage EXCEPT ![b] = "sending"]
    /\ requests' = requests \cup {<<ws, Item(b)>>}
    /\ UNCHANGED <<conns, at, answers, done, report>>

Sent(b) ==
    /\ stage[b] = "sending" /\ stage' = [stage EXCEPT ![b] = "waiting"]
    /\ UNCHANGED <<conns, pending, future, at, platform, report>>

\* ConnectionClosed while the message drains.  The echo stays registered.
SendRaises(b) ==
    /\ stage[b] = "sending"
    /\ failed' = failed \cup {Item(b)} /\ Advance(b)
    /\ UNCHANGED <<conns, pending, future, platform, delivered, facts>>

\* FAULT: the answer is awaited without a timeout.
ExpireNever(b) == FALSE

\* wait_for gives up.
Expire(b) ==
    /\ stage[b] = "waiting" /\ future[Item(b)] = "waiting"
    /\ future' = [future EXCEPT ![Item(b)] = "cancelled"]
    /\ stage' = [stage EXCEPT ![b] = "expired"]
    /\ UNCHANGED <<conns, pending, at, platform, report>>

\* "no_ack"
TimedOut(b) ==
    /\ stage[b] = "expired"
    /\ pending' = pending \ {Item(b)}
    /\ failed' = failed \cup {Item(b)} /\ Advance(b)
    /\ UNCHANGED <<conns, future, platform, delivered, facts>>

\* FAULT: an exception of the store is only logged.
PersistLogged(i, saved) ==
    /\ delivered' = delivered \cup {i}
    /\ facts' = IF saved /\ i \in Messages THEN facts \cup {i} ELSE facts
    /\ UNCHANGED failed

\* The item is in the report before its message is stored: if that raises it
\* is in both lists.
Persist(i, saved) ==
    /\ delivered' = delivered \cup {i}
    /\ facts' = IF saved /\ i \in Messages THEN facts \cup {i} ELSE facts
    /\ failed' = IF ~ saved /\ i \in Messages THEN failed \cup {i} ELSE failed

Acked(b, saved) ==
    /\ stage[b] = "waiting" /\ future[Item(b)] \in {"ok", "bad"}
    /\ pending' = pending \ {Item(b)}
    /\ IF future[Item(b)] = "ok" THEN Persist(Item(b), saved)
       ELSE failed' = failed \cup {Item(b)} /\ UNCHANGED <<delivered, facts>>
    /\ Advance(b)
    /\ UNCHANGED <<conns, future, platform>>

-----------------------------------------------------------------------------
Running(b) ==
    \/ PrepareFails(b) \/ NoConnection(b) \/ Send(b) \/ Sent(b) \/ SendRaises(b)
    \/ Expire(b) \/ TimedOut(b) \/ \E saved \in BOOLEAN : Acked(b, saved)

Next ==
    \/ Connect \/ \E c \in Conns : ConnectionEnds(c)
    \/ \E c \in Conns, i \in Items, success \in BOOLEAN :
        Receive(c, i, success) \/ CarryOut(c, i, success)
    \/ \E b \in Batches : Dispatch(b) \/ Running(b)

Spec == Init /\ [][Next]_vars

\* The loop runs ready tasks, rendering ends, timers fire, and websockets'
\* keepalive closes a connection that does not drain.
FairSpec == Spec /\ \A b \in Batches : WF_vars(Running(b))

-----------------------------------------------------------------------------
(* Properties.                                                              *)

\* Outbox: what is reported as delivered or stored as a message was carried
\* out by the platform, although answers of several batches, old connections
\* and timed-out calls arrive in any order.
FactsWereSent == delivered \cup facts \subseteq Elements(done)

(* send_items: a message is stored iff it was delivered and not reported   *)
(* as failed, and every item a batch is past is in its report.              *)
ReportMatchesFacts ==
    /\ facts = Messages \cap (delivered \ failed)
    /\ \A b \in Batches : \A k \in DOMAIN Plan[b] :
        (k < at[b] \/ stage[b] = "done") => Plan[b][k] \in delivered \cup failed

(* The items of a batch that are reported as delivered were carried out in  *)
(* the order of the batch.                                                  *)
OrderKept ==
    \A b \in Batches : \A j, k \in DOMAIN Plan[b] :
        j < k /\ {Plan[b][j], Plan[b][k]} \subseteq delivered =>
            \E m, n \in DOMAIN done : m < n /\ done[m] = Plan[b][j] /\ done[n] = Plan[b][k]

InFlight(i) ==
    \E b \in Batches : Item(b) = i /\ stage[b] \in {"sending", "waiting", "expired"}

(* _pending: an echo is registered exactly while its call is under way, so  *)
(* that no answer of a call under way is dropped and a late answer meets    *)
(* either nobody or a future that can still be set.  An echo whose ws.send  *)
(* raised stays, its future unresolved or answered once.                    *)
PendingTidy ==
    \A i \in Items :
        /\ InFlight(i) => i \in pending
        /\ i \in pending => InFlight(i) \/ (i \in failed /\ future[i] # "cancelled")

\* Outbox and gateway account for every call: report, stored messages and
\* registered echoes agree with each other and with the order in which the
\* platform did things, while calls fail, time out and are answered late.
CallsAccountedFor == ReportMatchesFacts /\ OrderKept /\ PendingTidy

\* _handle_connection: the newest connection is used as long as it lasts,
\* whenever an older one ends; no other than a live one is used.
NewestServes ==
    /\ opened \in live => ws = opened
    /\ ws # None => ws \in live

\* send_items and call_api return, whatever NapCat does.
DispatchEnds == \A b \in Batches : stage[b] = "preparing" ~> stage[b] = "done"
=============================================================================
