--------------------------- MODULE DeliveryProofs ---------------------------
(***************************************************************************)
(* What the outbox reports and stores was carried out by the platform, the *)
(* newest connection serves, and every call is accounted for, for any      *)
(* batches and any number of connections.                                  *)
(***************************************************************************)
EXTENDS Delivery, TLAPS

\* A success on its way from NapCat to the report is always one of the item
\* it is recorded for.
Backed ==
    /\ \A c \in Conns, i \in Items : <<c, i, TRUE>> \in answers => i \in Elements(done)
    /\ \A i \in Items : future[i] = "ok" => i \in Elements(done)
    /\ delivered \subseteq Elements(done)
    /\ facts \subseteq delivered

\* Connections are numbered in the order of _handle_connection's calls.
Numbered == live \subseteq 1..opened

IInv == TypeOK /\ Backed /\ Numbered /\ NewestServes

\* Carrying out one more item forgets none.
LEMMA AppendElements ==
    ASSUME NEW s \in Seq(Items), NEW i \in Items
    PROVE  /\ Append(s, i) \in Seq(Items)
           /\ Elements(Append(s, i)) = Elements(s) \cup {i}
  <1>1. /\ Append(s, i) \in Seq(Items) /\ Len(Append(s, i)) = Len(s) + 1
        /\ \A k \in 1..Len(s) : Append(s, i)[k] = s[k]
        /\ Append(s, i)[Len(s) + 1] = i
    OBVIOUS
  <1>2. DOMAIN s = 1..Len(s) /\ DOMAIN Append(s, i) = 1..Len(s) + 1 /\ Len(s) \in Nat
    BY <1>1
  <1>3. ASSUME NEW x \in Elements(Append(s, i)) PROVE x \in Elements(s) \cup {i}
    <2>1. PICK k \in 1..Len(s) + 1 : x = Append(s, i)[k]
      BY <1>2, <1>3 DEF Elements
    <2>2. k \in 1..Len(s) \/ k = Len(s) + 1
      BY <1>2
    <2> QED
      BY <2>1, <2>2, <1>1, <1>2 DEF Elements
  <1>4. ASSUME NEW x \in Elements(s) \cup {i} PROVE x \in Elements(Append(s, i))
    <2>1. CASE x = i
      <3>1. Len(s) + 1 \in DOMAIN Append(s, i)
        BY <1>2
      <3> QED
        BY <2>1, <3>1, <1>1 DEF Elements
    <2>2. CASE x \in Elements(s)
      <3>1. PICK k \in 1..Len(s) : x = s[k]
        BY <1>2, <2>2 DEF Elements
      <3>2. k \in DOMAIN Append(s, i)
        BY <1>2
      <3> QED
        BY <3>1, <3>2, <1>1 DEF Elements
    <2> QED
      BY <1>4, <2>1, <2>2
  <1> QED
    BY <1>1, <1>3, <1>4

\* The current item of a batch is one, and so is the next.
LEMMA ItemType ==
    ASSUME TypeOK, NEW b \in Batches
    PROVE  Item(b) \in Items
  <1>1. at[b] \in 1..Len(Plan[b]) /\ Plan[b] \in Seq(Items)
    BY DeliveryAssumption DEF TypeOK
  <1> QED
    BY <1>1 DEF Item

\* The loop of send_items stays within the batch.
LEMMA AdvanceType ==
    ASSUME TypeOK, NEW b \in Batches, Advance(b)
    PROVE  /\ at' \in [Batches -> Nat] /\ \A c \in Batches : at'[c] \in 1..Len(Plan[c])
           /\ stage' \in [Batches -> {"idle", "preparing", "sending", "waiting", "expired", "done"}]
  <1>1. Len(Plan[b]) \in Nat
    BY DeliveryAssumption
  <1>2. CASE at[b] < Len(Plan[b])
    <2>1. at' = [at EXCEPT ![b] = at[b] + 1] /\ stage' = [stage EXCEPT ![b] = "preparing"]
      BY <1>2 DEF Advance
    <2>2. at[b] + 1 \in 1..Len(Plan[b]) /\ at[b] + 1 \in Nat
      BY <1>1, <1>2 DEF TypeOK
    <2> QED
      BY <2>1, <2>2 DEF TypeOK
  <1>3. CASE ~ (at[b] < Len(Plan[b]))
    BY <1>3 DEF Advance, TypeOK
  <1> QED
    BY <1>2, <1>3

\* Every step of a task, of NapCat and of a connection keeps the invariant.
LEMMA IInvStep ==
    ASSUME IInv, [Next]_vars
    PROVE  IInv'
  <1> USE DEF IInv
  <1>t. /\ done \in Seq(Items) /\ opened \in 0..MaxConns /\ MaxConns \in Nat /\ None \notin Nat
    BY DeliveryAssumption DEF TypeOK
  <1>1. CASE Connect
    <2>1. opened + 1 \in Conns /\ opened + 1 \in 0..MaxConns
      BY <1>1, <1>t DEF Connect, Conns
    <2>2. TypeOK'
      BY <1>1, <1>t, <2>1 DEF Connect, TypeOK, platform, report
    <2>3. Backed'
      BY <1>1 DEF Connect, Backed, platform, report
    <2>4. Numbered' /\ NewestServes'
      BY <1>1, <1>t, <2>1 DEF Connect, Numbered, NewestServes
    <2> QED
      BY <2>2, <2>3, <2>4
  <1>l. ASSUME NEW c \in Conns, c \in live, Leave(c), opened' = opened
        PROVE  /\ live' \subseteq Conns /\ ws' \in Conns \cup {None}
               /\ Numbered' /\ NewestServes'
    BY <1>l, <1>t DEF Leave, TypeOK, Numbered, NewestServes, Conns
  <1>2. ASSUME NEW c \in Conns, ConnectionEnds(c) PROVE IInv'
    <2>1. live' \subseteq Conns /\ ws' \in Conns \cup {None} /\ Numbered' /\ NewestServes'
      BY <1>2, <1>l DEF ConnectionEnds
    <2>2. answers' \subseteq answers
      BY <1>2 DEF ConnectionEnds
    <2>3. TypeOK'
      BY <1>2, <2>1, <2>2 DEF ConnectionEnds, TypeOK, report
    <2>4. Backed'
      BY <1>2, <2>2 DEF ConnectionEnds, Backed, report
    <2> QED
      BY <2>1, <2>3, <2>4
  <1>3. ASSUME NEW c \in Conns, NEW i \in Items, NEW success \in BOOLEAN, Receive(c, i, success)
        PROVE  IInv'
    <2>1. answers' \subseteq answers
      BY <1>3 DEF Receive
    <2>2. /\ future' \in [Items -> {"none", "waiting", "ok", "bad", "cancelled"}]
          /\ \A j \in Items : future'[j] = "ok" => j \in Elements(done)
      <3>1. CASE future' = future
        BY <3>1 DEF TypeOK, Backed
      <3>2. CASE \E j \in Awaiting(i) : future' = [future EXCEPT ![j] = IF success THEN "ok" ELSE "bad"]
        <4>1. future' = [future EXCEPT ![i] = IF success THEN "ok" ELSE "bad"]
          BY <3>2 DEF Awaiting
        <4>2. success => i \in Elements(done)
          BY <1>3 DEF Receive, Backed
        <4> QED
          BY <4>1, <4>2 DEF TypeOK, Backed
      <3> QED
        BY <1>3, <3>1, <3>2 DEF Receive
    <2>3. live' \subseteq Conns /\ ws' \in Conns \cup {None} /\ opened' = opened
          /\ Numbered' /\ NewestServes'
      <3>1. CASE UNCHANGED conns
        BY <3>1 DEF conns, TypeOK, Numbered, NewestServes
      <3>2. CASE Leave(c) /\ opened' = opened
        BY <1>3, <3>2, <1>l DEF Receive
      <3> QED
        BY <1>3, <3>1, <3>2 DEF Receive
    <2>4. pending' = pending /\ at' = at /\ stage' = stage /\ requests' = requests /\ done' = done
          /\ delivered' = delivered /\ failed' = failed /\ facts' = facts
      BY <1>3 DEF Receive, report
    <2>5. TypeOK'
      BY <2>1, <2>2, <2>3, <2>4 DEF TypeOK
    <2>6. Backed'
      BY <2>1, <2>2, <2>4 DEF Backed
    <2> QED
      BY <2>3, <2>5, <2>6
  <1>4. ASSUME NEW c \in Conns, NEW i \in Items, NEW success \in BOOLEAN, CarryOut(c, i, success)
        PROVE  IInv'
    <2>1. done' \in Seq(Items) /\ Elements(done) \subseteq Elements(done')
          /\ (success => i \in Elements(done'))
      BY <1>4, <1>t, AppendElements DEF CarryOut
    <2>2. answers' \subseteq answers \cup {<<c, i, success>>} /\ requests' \subseteq requests
      BY <1>4 DEF CarryOut
    <2>3. TypeOK'
      BY <1>4, <2>1, <2>2 DEF CarryOut, TypeOK, conns, report
    <2>4. Backed'
      BY <1>4, <2>1, <2>2 DEF CarryOut, Backed, report
    <2>5. Numbered' /\ NewestServes'
      BY <1>4 DEF CarryOut, conns, Numbered, NewestServes
    <2> QED
      BY <2>3, <2>4, <2>5
  <1>c. ASSUME UNCHANGED conns PROVE Numbered' /\ NewestServes'
    BY <1>c DEF conns, Numbered, NewestServes
  <1>5. ASSUME NEW b \in Batches, Dispatch(b) \/ Sent(b) \/ Expire(b) PROVE IInv'
    <2>1. TypeOK'
      BY <1>5, ItemType DEF Dispatch, Sent, Expire, TypeOK, conns, platform, report
    <2>2. Backed'
      BY <1>5, ItemType DEF Dispatch, Sent, Expire, TypeOK, Backed, platform, report
    <2> QED
      BY <1>5, <1>c, <2>1, <2>2 DEF Dispatch, Sent, Expire
  <1>6. ASSUME NEW b \in Batches, PrepareFails(b) \/ NoConnection(b) \/ SendRaises(b) \/ TimedOut(b) PROVE IInv'
    <2>1. Advance(b) /\ failed' = failed \cup {Item(b)} /\ pending' \subseteq pending
          /\ UNCHANGED <<conns, future, platform, delivered, facts>>
      BY <1>6 DEF PrepareFails, NoConnection, SendRaises, TimedOut
    <2>2. TypeOK'
      BY <2>1, ItemType, AdvanceType DEF TypeOK, conns, platform
    <2>3. Backed'
      BY <2>1 DEF Backed, platform
    <2> QED
      BY <2>1, <2>2, <2>3, <1>c
  <1>7. ASSUME NEW b \in Batches, Send(b) PROVE IInv'
    <2>1. ws \in Conns /\ Item(b) \in Items
      BY <1>7, ItemType DEF Send, TypeOK
    <2>2. TypeOK'
      BY <1>7, <2>1 DEF Send, TypeOK, conns, report
    <2>3. Backed'
      BY <1>7, <2>1 DEF Send, TypeOK, Backed, report
    <2> QED
      BY <1>7, <1>c, <2>2, <2>3 DEF Send
  <1>8. ASSUME NEW b \in Batches, NEW saved \in BOOLEAN, Acked(b, saved) PROVE IInv'
    <2>1. Item(b) \in Items
      BY ItemType
    <2>2. /\ delivered' \subseteq delivered \cup {Item(b)} /\ delivered \subseteq delivered'
          /\ facts' \subseteq facts \cup (delivered' \cap {Item(b)})
          /\ failed' \subseteq failed \cup {Item(b)}
          /\ delivered' # delivered => future[Item(b)] = "ok"
      BY <1>8 DEF Acked, Persist
    <2>3. Advance(b) /\ pending' \subseteq pending /\ UNCHANGED <<conns, future, platform>>
      BY <1>8 DEF Acked
    <2>4. TypeOK'
      BY <2>1, <2>2, <2>3, AdvanceType DEF TypeOK, conns, platform
    <2>5. Backed'
      <3>1. delivered' \subseteq Elements(done)
        BY <2>1, <2>2 DEF Backed
      <3> QED
        BY <2>2, <2>3, <3>1 DEF Backed, platform
    <2> QED
      BY <2>3, <2>4, <2>5, <1>c
  <1>9. CASE UNCHANGED vars
    BY <1>9 DEF vars, conns, platform, report, TypeOK, Backed, Numbered, NewestServes
  <1> QED
    BY <1>1, <1>2, <1>3, <1>4, <1>5, <1>6, <1>7, <1>8, <1>9 DEF Next, Running

\* The first state: nothing is connected, nothing was sent.
LEMMA IInvInit == Init => IInv
  BY DeliveryAssumption DEF Init, IInv, TypeOK, Backed, Numbered, NewestServes, Elements, Conns

\* For any batches, connections and order of answers, what the outbox reports
\* as delivered or stores as a message was carried out by the platform.
THEOREM FactsWereSentTheorem == Spec => []FactsWereSent
  <1>1. IInv => FactsWereSent
    BY DEF IInv, Backed, FactsWereSent
  <1> QED
    BY IInvInit, IInvStep, <1>1, PTL DEF Spec

\* However often NapCat reconnects and whenever old connections end, the
\* newest one is used as long as it lasts.
THEOREM NewestServesTheorem == Spec => []NewestServes
  <1>1. IInv => NewestServes
    BY DEF IInv
  <1> QED
    BY IInvInit, IInvStep, <1>1, PTL DEF Spec

-----------------------------------------------------------------------------
(* Every call is accounted for.                                             *)

\* Where the loop of send_items is with position k of batch b.
Past(b, k) == k < at[b] \/ stage[b] = "done"
Flies(b, k) == k = at[b] /\ stage[b] \in {"sending", "waiting", "expired"}
Ahead(b, k) ==
    /\ stage[b] # "done"
    /\ k > at[b] \/ (k = at[b] /\ stage[b] \in {"idle", "preparing"})

Untouched(i) ==
    /\ i \notin delivered \cup failed \cup pending \cup Elements(done)
    /\ \A c \in Conns : <<c, i>> \notin requests

\* What is known of an item from where the loop is.
Accounted(b, k) ==
    LET i == Plan[b][k] IN
    /\ Past(b, k) => i \in delivered \cup failed
    /\ Flies(b, k) => /\ i \in pending /\ i \notin delivered \cup failed
                      /\ stage[b] = "expired" \/ future[i] # "cancelled"
    /\ Ahead(b, k) => Untouched(i)
    /\ i \in pending => Flies(b, k) \/ (i \in failed /\ future[i] # "cancelled")

\* Nothing is carried out before what its batch has delivered earlier.
InOrder ==
    \A b \in Batches : \A j, k \in DOMAIN Plan[b] :
        j < k /\ Plan[b][j] \in delivered =>
            \A n \in DOMAIN done : done[n] = Plan[b][k] =>
                \E m \in DOMAIN done : m < n /\ done[m] = Plan[b][j]

Ledger ==
    /\ facts = Messages \cap (delivered \ failed)
    /\ \A i \in pending : \E b \in Batches : \E k \in DOMAIN Plan[b] : i = Plan[b][k]
    /\ \A b \in Batches : \A k \in DOMAIN Plan[b] : Accounted(b, k)
    /\ InOrder

\* The current item of a batch is at one position of one batch.
LEMMA OneItem ==
    ASSUME TypeOK, NEW b \in Batches
    PROVE  /\ at[b] \in DOMAIN Plan[b] /\ at[b] \in Nat /\ Item(b) \in Items
           /\ DOMAIN Plan[b] = 1..Len(Plan[b]) /\ Len(Plan[b]) \in Nat
           /\ \A c \in Batches : \A k \in DOMAIN Plan[c] :
                Plan[c][k] = Item(b) <=> c = b /\ k = at[b]
<1>1. at[b] \in 1..Len(Plan[b]) /\ Plan[b] \in Seq(Items) /\ at[b] \in Nat
  BY DeliveryAssumption DEF TypeOK
<1>2. DOMAIN Plan[b] = 1..Len(Plan[b]) /\ Len(Plan[b]) \in Nat
  BY <1>1
<1> QED
  BY <1>1, <1>2, ItemType, DeliveryAssumption DEF Item

\* The loop moves on: the current item is past, the others are where they were.
LEMMA AdvanceMoves ==
    ASSUME TypeOK, NEW b \in Batches, NEW n, n = at[b], Advance(b), stage[b] \notin {"idle", "done"}
    PROVE  /\ Past(b, n)' /\ ~ Flies(b, n)' /\ ~ Ahead(b, n)'
           /\ \A c \in Batches : \A k \in DOMAIN Plan[c] : c # b \/ k # n =>
                /\ Past(c, k)' <=> Past(c, k)
                /\ Flies(c, k)' <=> Flies(c, k)
                /\ Ahead(c, k)' <=> Ahead(c, k)
<1>1. n \in Nat /\ n \in DOMAIN Plan[b] /\ DOMAIN Plan[b] = 1..Len(Plan[b]) /\ Len(Plan[b]) \in Nat
  BY OneItem
<1>2. at \in [Batches -> Nat] /\ DOMAIN stage = Batches
  BY DEF TypeOK
<1>3. CASE n < Len(Plan[b])
  <2>1. /\ \A c \in Batches : at'[c] = IF c = b THEN n + 1 ELSE at[c]
        /\ \A c \in Batches : stage'[c] = IF c = b THEN "preparing" ELSE stage[c]
    BY <1>2, <1>3 DEF Advance
  <2>2. Past(b, n)' /\ ~ Flies(b, n)' /\ ~ Ahead(b, n)'
    BY <1>1, <2>1 DEF Past, Flies, Ahead
  <2>3. ASSUME NEW k \in DOMAIN Plan[b], k # n
        PROVE  (Past(b, k)' <=> Past(b, k)) /\ (Flies(b, k)' <=> Flies(b, k)) /\ (Ahead(b, k)' <=> Ahead(b, k))
    BY <1>1, <2>1, <2>3 DEF Past, Flies, Ahead
  <2> QED
    BY <2>1, <2>2, <2>3 DEF Past, Flies, Ahead
<1>4. CASE ~ (n < Len(Plan[b]))
  <2>1. /\ at' = at
        /\ \A c \in Batches : stage'[c] = IF c = b THEN "done" ELSE stage[c]
    BY <1>2, <1>4 DEF Advance
  <2>2. Past(b, n)' /\ ~ Flies(b, n)' /\ ~ Ahead(b, n)'
    BY <1>1, <2>1 DEF Past, Flies, Ahead
  <2>3. ASSUME NEW k \in DOMAIN Plan[b], k # n
        PROVE  (Past(b, k)' <=> Past(b, k)) /\ (Flies(b, k)' <=> Flies(b, k)) /\ (Ahead(b, k)' <=> Ahead(b, k))
    BY <1>1, <1>4, <2>1, <2>3 DEF Past, Flies, Ahead
  <2> QED
    BY <2>1, <2>2, <2>3 DEF Past, Flies, Ahead
<1> QED
  BY <1>3, <1>4

\* A step of a task that concerns its current item only, and accounts for it,
\* keeps the ledger.
LEMMA TaskStep ==
    ASSUME IInv, Ledger, NEW b \in Batches, NEW n, n = at[b], NEW i, i = Item(b),
           \A c \in Batches : \A k \in DOMAIN Plan[c] : c # b \/ k # n =>
                /\ Past(c, k)' <=> Past(c, k)
                /\ Flies(c, k)' <=> Flies(c, k)
                /\ Ahead(c, k)' <=> Ahead(c, k),
           \A c \in Batches : c # b => stage'[c] = stage[c], done' = done,
           \A x \in Items \ {i} :
                /\ x \in delivered' <=> x \in delivered
                /\ x \in failed' <=> x \in failed
                /\ x \in pending' <=> x \in pending
                /\ future'[x] = future[x]
                /\ \A c \in Conns : <<c, x>> \in requests' <=> <<c, x>> \in requests,
           i \in delivered' => i \in delivered \/ stage[b] = "waiting",
           TypeOK', Accounted(b, n)', facts' = Messages \cap (delivered' \ failed')
    PROVE  Ledger'
<1>t. TypeOK /\ n \in DOMAIN Plan[b] /\ i = Plan[b][n] /\ i \in Items /\ n \in Nat
  BY OneItem DEF IInv, Item
<1>1. \A c \in Batches : \A k \in DOMAIN Plan[c] : Accounted(c, k)'
  <2>1. \A c \in Batches : \A k \in DOMAIN Plan[c] : Accounted(c, k)
    BY DEF Ledger
  <2>2. ASSUME NEW c \in Batches, NEW k \in DOMAIN Plan[c], c # b \/ k # n
        PROVE  Accounted(c, k)'
    <3> DEFINE x == Plan[c][k]
    <3>1. x \in Items \ {i}
      BY <1>t, <2>2, OneItem, DeliveryAssumption
    <3>2. Past(c, k) => x \in delivered' \cup failed'
      BY <2>1, <3>1 DEF Accounted
    <3>3. Flies(c, k) => /\ x \in pending' /\ x \notin delivered' \cup failed'
                         /\ stage[c] = "expired" \/ future'[x] # "cancelled"
      BY <2>1, <3>1 DEF Accounted
    <3>4. Ahead(c, k) => Untouched(x)'
      BY <2>1, <3>1 DEF Accounted, Untouched
    <3>5. x \in pending' => Flies(c, k) \/ (x \in failed' /\ future'[x] # "cancelled")
      BY <2>1, <3>1 DEF Accounted
    <3>6. Flies(c, k) => stage'[c] = stage[c]
      BY <2>2 DEF Flies
    <3> QED
      BY <2>2, <3>2, <3>3, <3>4, <3>5, <3>6 DEF Accounted
  <2> QED
    BY <2>2
<1>2. \A x \in pending' : \E c \in Batches : \E k \in DOMAIN Plan[c] : x = Plan[c][k]
  BY <1>t DEF Ledger, TypeOK
<1>3. InOrder'
  <2> SUFFICES ASSUME NEW c \in Batches, NEW j \in DOMAIN Plan[c], NEW k \in DOMAIN Plan[c],
                      j < k, Plan[c][j] \in delivered',
                      NEW l \in DOMAIN done, done[l] = Plan[c][k]
               PROVE  \E m \in DOMAIN done : m < l /\ done[m] = Plan[c][j]
    BY DEF InOrder
  <2>1. CASE Plan[c][j] \in delivered
    BY <2>1 DEF Ledger, InOrder
  <2>2. CASE Plan[c][j] \notin delivered
    <3>1. Plan[c][j] = i
      BY <2>2, DeliveryAssumption
    <3>2. c = b /\ j = n
      BY <1>t, <3>1, OneItem
    <3>3. stage[b] = "waiting" /\ k \in Nat
      BY <2>2, <3>1, <1>t, OneItem, <3>2
    <3>4. Ahead(b, k)
      BY <3>2, <3>3 DEF Ahead
    <3>5. Plan[b][k] \notin Elements(done)
      BY <3>2, <3>4 DEF Ledger, Accounted, Untouched
    <3> QED
      BY <3>2, <3>5 DEF Elements
  <2> QED
    BY <2>1, <2>2
<1> QED
  BY <1>1, <1>2, <1>3 DEF Ledger

\* Every step keeps the ledger.
LEMMA LedgerNext == ASSUME IInv, Ledger, [Next]_vars PROVE Ledger'
<1>i. TypeOK /\ TypeOK' /\ IInv
  BY IInvStep DEF IInv
<1>a. /\ facts = Messages \cap (delivered \ failed)
      /\ \A b \in Batches : \A k \in DOMAIN Plan[b] : Accounted(b, k)
  BY DEF Ledger
<1>b. \A b \in Batches : /\ at[b] \in DOMAIN Plan[b] /\ Item(b) = Plan[b][at[b]] /\ Item(b) \in Items
                          /\ Accounted(b, at[b])
  BY <1>i, <1>a, OneItem DEF Item
\* A step after which no task has moved and no echo is registered or removed.
<1>f. ASSUME UNCHANGED <<at, stage, pending, report, done, requests>>,
             \A i \in Items : future'[i] = "cancelled" => future[i] = "cancelled"
      PROVE  Ledger'
  <2>1. \A c \in Batches : \A k \in DOMAIN Plan[c] : Plan[c][k] \in Items
    BY DeliveryAssumption
  <2>2. ASSUME NEW c \in Batches, NEW k \in DOMAIN Plan[c] PROVE Accounted(c, k)'
    BY <1>a, <1>f, <2>1 DEF Accounted, Past, Flies, Ahead, Untouched, report
  <2> QED
    BY <1>f, <2>2 DEF Ledger, InOrder, report
\* The current item of b fails.
<1>g. ASSUME NEW b \in Batches, stage[b] \in {"preparing", "sending", "expired"}, Advance(b),
             failed' = failed \cup {Item(b)},
             \/ stage[b] # "expired" /\ pending' = pending
             \/ pending' = pending \ {Item(b)},
             UNCHANGED <<conns, future, platform, delivered, facts>>
      PROVE  Ledger'
  <2>n. PICK n : n = at[b]
    OBVIOUS
  <2>i. PICK i : i = Item(b)
    OBVIOUS
  <2>1. i \notin delivered
    BY <1>b, <1>g, <2>i DEF Accounted, Flies, Ahead, Untouched
  <2>2. facts' = Messages \cap (delivered' \ failed')
    BY <1>a, <1>g, <2>1, <2>i
  <2>3. i \in pending' => future[i] # "cancelled"
    BY <1>b, <1>g, <2>i DEF Accounted, Flies, Ahead, Untouched
  <2>4. Past(b, n)' /\ ~ Flies(b, n)' /\ ~ Ahead(b, n)'
    BY <1>i, <1>g, <2>n, AdvanceMoves
  <2>5. Plan[b][n] = i
    BY <1>b, <2>n, <2>i
  <2>6. Accounted(b, n)'
    BY <1>g, <2>3, <2>4, <2>5, <2>i DEF Accounted
  <2>7. \A c \in Batches : \A k \in DOMAIN Plan[c] : c # b \/ k # n =>
           (Past(c, k)' <=> Past(c, k)) /\ (Flies(c, k)' <=> Flies(c, k)) /\ (Ahead(c, k)' <=> Ahead(c, k))
    BY <1>i, <1>g, <2>n, AdvanceMoves
  <2>8. (\A c \in Batches : c # b => stage'[c] = stage[c]) /\ done' = done
    BY <1>i, <1>g DEF Advance, TypeOK, platform
  <2>9. \A x \in Items \ {i} :
          /\ x \in delivered' <=> x \in delivered
          /\ x \in failed' <=> x \in failed
          /\ x \in pending' <=> x \in pending
          /\ future'[x] = future[x]
          /\ \A c \in Conns : <<c, x>> \in requests' <=> <<c, x>> \in requests
    BY <1>g, <2>i DEF platform
  <2> QED
    BY <1>i, <1>g, <2>n, <2>i, <2>1, <2>2, <2>6, <2>7, <2>8, <2>9, TaskStep
\* The task of b goes on to stage s with its current item.
<1>h. ASSUME NEW b \in Batches, NEW s, stage[b] # "done", s # "done", stage' = [stage EXCEPT ![b] = s],
             at' = at, done' = done, UNCHANGED report, TypeOK',
             \A x \in Items \ {Item(b)} :
                /\ x \in pending' <=> x \in pending
                /\ future'[x] = future[x]
                /\ \A c \in Conns : <<c, x>> \in requests' <=> <<c, x>> \in requests,
             Accounted(b, at[b])'
      PROVE  Ledger'
  <2> DEFINE n == at[b]
             i == Item(b)
  <2>1. \A c \in Batches : stage'[c] = IF c = b THEN s ELSE stage[c]
    BY <1>i, <1>h DEF TypeOK
  <2>2. at'[b] = n
    BY <1>h
  <2> HIDE DEF n, i
  <2>3. \A c \in Batches : \A k \in DOMAIN Plan[c] : c # b \/ k # n =>
           (Past(c, k)' <=> Past(c, k)) /\ (Flies(c, k)' <=> Flies(c, k)) /\ (Ahead(c, k)' <=> Ahead(c, k))
    BY <1>h, <2>1 DEF Past, Flies, Ahead, n
  <2>4. Accounted(b, n)'
    BY <1>h, <2>2 DEF n
  <2>5. delivered' = delivered /\ failed' = failed /\ facts' = facts
    BY <1>h DEF report
  <2> QED
    BY <1>i, <1>a, <1>h, <2>1, <2>3, <2>4, <2>5, TaskStep DEF n, i
<1>0. CASE UNCHANGED vars
  BY <1>0, <1>f DEF vars, platform
<1>1. CASE Connect
  BY <1>1, <1>f DEF Connect, platform
<1>2. ASSUME NEW c \in Conns, ConnectionEnds(c) PROVE Ledger'
  BY <1>2, <1>f DEF ConnectionEnds
<1>3. ASSUME NEW c \in Conns, NEW i \in Items, NEW success \in BOOLEAN, Receive(c, i, success)
      PROVE  Ledger'
  <2>1. UNCHANGED <<at, stage, pending, report, done, requests>>
    BY <1>3 DEF Receive
  <2>2. \A x \in Items : future'[x] = "cancelled" => future[x] = "cancelled"
    BY <1>3, <1>i DEF Receive, Awaiting, TypeOK
  <2> QED
    BY <2>1, <2>2, <1>f
<1>4. ASSUME NEW c \in Conns, NEW i \in Items, NEW success \in BOOLEAN, CarryOut(c, i, success)
      PROVE  Ledger'
  <2>1. /\ UNCHANGED <<at, stage, pending, report, future>> /\ requests' \subseteq requests
        /\ <<c, i>> \in requests /\ done' = IF success THEN Append(done, i) ELSE done
    BY <1>4 DEF CarryOut
  <2>2. Elements(done') \subseteq Elements(done) \cup {i}
    BY <2>1, <1>i, AppendElements DEF TypeOK
  <2>3. ASSUME NEW b \in Batches, NEW k \in DOMAIN Plan[b] PROVE Accounted(b, k)'
    <3>1. Ahead(b, k) => Untouched(Plan[b][k])'
      BY <1>a, <2>1, <2>2 DEF Accounted, Untouched, report
    <3> QED
      BY <1>a, <2>1, <3>1 DEF Accounted, Past, Flies, Ahead, report
  <2>4. InOrder'
    <3> SUFFICES ASSUME NEW b \in Batches, NEW j \in DOMAIN Plan[b], NEW k \in DOMAIN Plan[b],
                        j < k, Plan[b][j] \in delivered,
                        NEW l \in DOMAIN done', done'[l] = Plan[b][k]
                 PROVE  \E m \in DOMAIN done' : m < l /\ done'[m] = Plan[b][j]
      BY <2>1 DEF InOrder, report
    <3>1. done \in Seq(Items) /\ DOMAIN done = 1..Len(done) /\ Len(done) \in Nat
      BY <1>i DEF TypeOK
    <3>2. /\ DOMAIN done \subseteq DOMAIN done' /\ \A m \in DOMAIN done : done'[m] = done[m]
          /\ \A m \in DOMAIN done' \ DOMAIN done : m = Len(done) + 1
      BY <2>1, <3>1
    <3>3. CASE l \in DOMAIN done
      BY <3>2, <3>3 DEF Ledger, InOrder
    <3>4. CASE l \notin DOMAIN done
      <4>1. PICK m \in DOMAIN done : done[m] = Plan[b][j]
        BY DEF IInv, Backed, Elements
      <4> QED
        BY <3>1, <3>2, <3>4, <4>1
    <3> QED
      BY <3>3, <3>4
  <2> QED
    BY <2>1, <2>3, <2>4 DEF Ledger, report
<1>5. ASSUME NEW b \in Batches, Dispatch(b) PROVE Ledger'
  <2>1. Accounted(b, at[b])'
    BY <1>b, <1>i, <1>5 DEF Dispatch, Accounted, Past, Flies, Ahead, Untouched, TypeOK, platform, report
  <2> QED
    BY <1>i, <1>5, <1>h, <2>1 DEF Dispatch, platform
<1>6. ASSUME NEW b \in Batches, PrepareFails(b) \/ NoConnection(b) PROVE Ledger'
  BY <1>6, <1>g DEF PrepareFails, NoConnection
<1>7. ASSUME NEW b \in Batches, Send(b) PROVE Ledger'
  <2> DEFINE i == Item(b)
  <2>1. /\ stage[b] = "preparing" /\ pending' = pending \cup {i} /\ at' = at /\ done' = done
        /\ future' = [future EXCEPT ![i] = "waiting"] /\ stage' = [stage EXCEPT ![b] = "sending"]
        /\ requests' = requests \cup {<<ws, i>>} /\ UNCHANGED report
    BY <1>7 DEF Send
  <2>2. i \in Items /\ i = Plan[b][at[b]] /\ i \notin delivered \cup failed
    BY <1>b, <2>1 DEF Accounted, Ahead, Untouched
  <2> HIDE DEF i
  <2>3. stage'[b] = "sending" /\ future'[i] = "waiting"
    BY <1>i, <2>1, <2>2 DEF TypeOK
  <2>4. Accounted(b, at[b])'
    <3>1. at[b] \in Nat
      BY <1>i, OneItem
    <3> QED
      BY <2>1, <2>2, <2>3, <3>1 DEF Accounted, Past, Flies, Ahead, report
  <2>5. \A x \in Items \ {i} :
          /\ x \in pending' <=> x \in pending
          /\ future'[x] = future[x]
          /\ \A c \in Conns : <<c, x>> \in requests' <=> <<c, x>> \in requests
    BY <1>i, <2>1 DEF TypeOK
  <2> QED
    BY <1>i, <1>h, <2>1, <2>4, <2>5 DEF i
<1>8. ASSUME NEW b \in Batches, Sent(b) PROVE Ledger'
  <2>1. Accounted(b, at[b])'
    BY <1>b, <1>i, <1>8 DEF Sent, Accounted, Past, Flies, Ahead, Untouched, TypeOK, platform, report
  <2> QED
    BY <1>i, <1>8, <1>h, <2>1 DEF Sent, platform
<1>9. ASSUME NEW b \in Batches, SendRaises(b) PROVE Ledger'
  BY <1>9, <1>g DEF SendRaises
<1>10. ASSUME NEW b \in Batches, Expire(b) PROVE Ledger'
  <2>1. Accounted(b, at[b])'
    BY <1>b, <1>i, <1>10, OneItem DEF Expire, Accounted, Past, Flies, Ahead, TypeOK, platform, report
  <2>2. \A x \in Items \ {Item(b)} : future'[x] = future[x]
    BY <1>i, <1>10 DEF Expire, TypeOK
  <2> QED
    BY <1>i, <1>10, <1>h, <2>1, <2>2 DEF Expire, platform
<1>11. ASSUME NEW b \in Batches, TimedOut(b) PROVE Ledger'
  BY <1>11, <1>g DEF TimedOut
<1>12. ASSUME NEW b \in Batches, NEW saved \in BOOLEAN, Acked(b, saved) PROVE Ledger'
  <2>n. PICK n : n = at[b]
    OBVIOUS
  <2>i. PICK i : i = Item(b)
    OBVIOUS
  <2>1. /\ stage[b] = "waiting" /\ future[i] \in {"ok", "bad"} /\ pending' = pending \ {i}
        /\ Advance(b) /\ UNCHANGED <<conns, future, platform>>
        /\ IF future[i] = "ok" THEN Persist(i, saved)
           ELSE failed' = failed \cup {i} /\ UNCHANGED <<delivered, facts>>
    BY <1>12, <2>i DEF Acked
  <2>2. i \notin delivered \cup failed
    BY <1>b, <2>1, <2>i DEF Accounted, Flies
  <2>3. facts' = Messages \cap (delivered' \ failed')
    BY <1>a, <2>1, <2>2 DEF Persist
  <2>4. i \in delivered' \cup failed'
    BY <2>1 DEF Persist
  <2>5. Plan[b][n] = i
    BY <1>b, <2>n, <2>i
  <2>6. \A x \in Items \ {i} :
          /\ x \in delivered' <=> x \in delivered
          /\ x \in failed' <=> x \in failed
          /\ x \in pending' <=> x \in pending
          /\ future'[x] = future[x]
          /\ \A c \in Conns : <<c, x>> \in requests' <=> <<c, x>> \in requests
    BY <2>1 DEF Persist, platform
  <2>7. done' = done /\ \A c \in Batches : c # b => stage'[c] = stage[c]
    BY <1>i, <2>1 DEF Advance, TypeOK, platform
  <2>8. Past(b, n)' /\ ~ Flies(b, n)' /\ ~ Ahead(b, n)'
    BY <1>i, <2>1, <2>n, AdvanceMoves
  <2>9. Accounted(b, n)'
    BY <2>1, <2>4, <2>5, <2>8 DEF Accounted
  <2>10. \A c \in Batches : \A k \in DOMAIN Plan[c] : c # b \/ k # n =>
           (Past(c, k)' <=> Past(c, k)) /\ (Flies(c, k)' <=> Flies(c, k)) /\ (Ahead(c, k)' <=> Ahead(c, k))
    BY <1>i, <2>1, <2>n, AdvanceMoves
  <2> QED
    BY <1>i, <2>1, <2>3, <2>6, <2>7, <2>9, <2>10, <2>n, <2>i, TaskStep
<1> QED
  BY <1>0, <1>1, <1>2, <1>3, <1>4, <1>5, <1>6, <1>7, <1>8, <1>9, <1>10, <1>11, <1>12 DEF Next, Running

\* For any batches, connections and order of answers: the report, the stored
\* messages, the registered echoes and the order of what the platform did agree.
THEOREM CallsAccountedForTheorem == Spec => []CallsAccountedFor
<1>1. Init => Ledger
  <2> SUFFICES ASSUME Init PROVE Ledger
    OBVIOUS
  <2>1. Elements(done) = {}
    BY DEF Init, Elements
  <2>2. ASSUME NEW b \in Batches, NEW k \in DOMAIN Plan[b] PROVE Accounted(b, k)
    <3>1. k \in Nat /\ k >= 1
      BY DeliveryAssumption
    <3> QED
      BY <2>1, <3>1 DEF Init, Accounted, Past, Flies, Ahead, Untouched
  <2> QED
    BY <2>2 DEF Init, Ledger, InOrder
<1>2. IInv /\ Ledger => CallsAccountedFor
  <2> SUFFICES ASSUME IInv, Ledger PROVE ReportMatchesFacts /\ OrderKept /\ PendingTidy
    BY DEF CallsAccountedFor
  <2>1. ReportMatchesFacts
    BY DEF ReportMatchesFacts, Ledger, Accounted, Past
  <2>2. OrderKept
    <3> SUFFICES ASSUME NEW b \in Batches, NEW j \in DOMAIN Plan[b], NEW k \in DOMAIN Plan[b],
                        j < k, {Plan[b][j], Plan[b][k]} \subseteq delivered
                 PROVE  \E m, n \in DOMAIN done : m < n /\ done[m] = Plan[b][j] /\ done[n] = Plan[b][k]
      BY DEF OrderKept
    <3>1. PICK n \in DOMAIN done : done[n] = Plan[b][k]
      BY DEF IInv, Backed, Elements
    <3> QED
      BY <3>1 DEF Ledger, InOrder
  <2>3. ASSUME NEW i \in Items
        PROVE  /\ InFlight(i) => i \in pending
               /\ i \in pending => InFlight(i) \/ (i \in failed /\ future[i] # "cancelled")
    <3>1. InFlight(i) => i \in pending
      BY OneItem DEF InFlight, Item, Ledger, Accounted, Flies, IInv
    <3>2. ASSUME i \in pending PROVE InFlight(i) \/ (i \in failed /\ future[i] # "cancelled")
      <4>1. PICK b \in Batches : \E k \in DOMAIN Plan[b] : i = Plan[b][k] /\ Accounted(b, k)
        BY <3>2 DEF Ledger
      <4> QED
        BY <3>2, <4>1 DEF Accounted, Flies, InFlight, Item
    <3> QED
      BY <3>1, <3>2
  <2> QED
    BY <2>1, <2>2, <2>3 DEF PendingTidy
<1>3. IInv /\ Ledger /\ [Next]_vars => IInv' /\ Ledger'
  BY IInvStep, LedgerNext
<1> QED
  BY IInvInit, <1>1, <1>2, <1>3, PTL DEF Spec
=============================================================================
