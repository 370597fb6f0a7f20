-------------------------- MODULE AgentLoopProofs --------------------------
(***************************************************************************)
(* Proofs about AgentLoop: the transcript the model is shown is well       *)
(* formed, the result tells which calls were left open, and a handler that *)
(* ran was permitted, for any number of plugins, tools, rounds and calls.  *)
(***************************************************************************)
EXTENDS AgentLoop, FiniteSetTheorems, TLAPS

Sources == Plugins \cup {"builtin", None}
Message == [role : {"assistant", "tool"}, ids : Seq(Nat \X Nat)]
Call == [id : Nat \X Nat, name : Asked]
Statuses == {"started", "rejected", "failed", "completed", "waiting_approval"}
Record == [name : Asked, src : Sources, status : Statuses]

TypeOK ==
    /\ tools \in [Names -> Sources]
    /\ at \in {"idle", "llm", "call", "policy", "handler", "done"}
    /\ msgs \in Seq(Message)
    /\ rounds \in Nat
    /\ todo \in Seq(Call)
    /\ audit \in Seq(Record)

Answering == {"call", "policy", "handler"}

-----------------------------------------------------------------------------
(* The transcript.                                                          *)

\* The round in which a message asked.
RoundOf(m) == msgs[m].ids[1][1]

\* The calls of message m are all answered.
Whole(m) == m + Len(msgs[m].ids) <= Len(msgs)

\* A message has calls, numbered with its own round; rounds to come are unused.
Numbered ==
    \A m \in DOMAIN msgs : Asks(m) =>
       /\ Len(msgs[m].ids) \in Nat \ {0}
       /\ RoundOf(m) \in 0..rounds
       /\ at = "llm" => RoundOf(m) < rounds
       /\ \A i \in 1..Len(msgs[m].ids) : msgs[m].ids[i] = <<RoundOf(m), i>>
       /\ \A n \in DOMAIN msgs : Asks(n) /\ RoundOf(n) = RoundOf(m) => m = n

\* todo is what is left of the calls of the last message p that asked.
LeftOf(p) ==
    /\ Asks(p)
    /\ Len(todo) \in 1..Len(msgs[p].ids)
    /\ Len(msgs) + Len(todo) = p + Len(msgs[p].ids)
    /\ \A j \in 1..Len(todo) :
          todo[j].id = msgs[p].ids[Len(msgs[p].ids) - Len(todo) + j]
    /\ \A m \in DOMAIN msgs : Asks(m) /\ m # p => m + Len(msgs[m].ids) < p

Position ==
    /\ at = "idle" => msgs = <<>>
    /\ at = "llm" => \A m \in DOMAIN msgs : Asks(m) => Whole(m)
    /\ at \in Answering => \E p \in DOMAIN msgs : LeftOf(p)

Answered ==
    \A n \in DOMAIN msgs : Asks(n) \/ \E m \in 1..(n - 1) : Asks(m) /\ Answers(n, m)

NothingBetween ==
    \A m, n \in DOMAIN msgs :
       Asks(m) /\ n \in (m + 1)..(m + Len(msgs[m].ids)) => Answers(n, m)

Transcript == Numbered /\ Position /\ Answered /\ NothingBetween

-----------------------------------------------------------------------------
(* The audit.                                                               *)

SettledTo(n) == \A i \in 1..n : audit[i].status \in Final

\* Only the call at hand is open.
Books ==
    /\ at \in {"idle", "llm", "call"} => SettledTo(Len(audit))
    /\ at \in {"policy", "handler"} =>
          /\ Len(audit) > 0 /\ SettledTo(Len(audit) - 1)
          /\ audit[Len(audit)].status = "started"

Permitted(name, src) ==
    /\ name \in Builtin => src = "builtin"
    /\ name \in Enabled \cup {"Skill", "delegate_subagent"}
    /\ name = "Skill" => WorldSkills # {}
    /\ name = "delegate_subagent" => WorldAgents # {}
    /\ name \in ComputerTools => name \in Available

\* The builtin tools keep their names, so a call that was let in is permitted.
BuiltinStays == \A n \in Builtin : tools[n] = "builtin"
LetIn ==
    \A i \in 1..Len(audit) :
       audit[i].status # "rejected" => Permitted(audit[i].name, audit[i].src)

-----------------------------------------------------------------------------
(* The plans, and what of them the result carries.                          *)

PlansOK ==
    /\ planned \in Seq(Plan) /\ files \in Seq(Attachment)
    /\ at = "idle" => planned = <<>>
    /\ ResultCommitsPlans

IInv ==
    /\ TypeOK /\ Transcript /\ Books /\ ResultMatchesCalls
    /\ BuiltinStays /\ LetIn /\ PlansOK
-----------------------------------------------------------------------------

\* A response asks for at least one tool, each by a name.
LEMMA ResponseNames ==
    ASSUME rounds \in Nat, NEW names \in Responses
    PROVE  names \in Seq(Asked) /\ Len(names) \in Nat \ {0}
<1>1. PICK k \in 1..(IF rounds = 0 THEN MaxCalls ELSE 1) : names \in [1..k -> Asked]
    BY DEF Responses
<1>2. k \in Nat \ {0}
    BY <1>1, AgentLoopAssumption
<1>3. QED BY <1>1, <1>2

\* The calls a response leaves to be answered, and the message that asks.
LEMMA CallsType ==
    ASSUME TypeOK, NEW names \in Seq(Asked), AppendCalls(names)
    PROVE  /\ msgs' = Append(msgs, msgs'[Len(msgs) + 1])
           /\ msgs'[Len(msgs) + 1].role = "assistant"
           /\ msgs'[Len(msgs) + 1].ids = [i \in 1..Len(names) |-> <<rounds, i>>]
           /\ msgs'[Len(msgs) + 1] \in Message
           /\ msgs' \in Seq(Message)
           /\ todo' \in Seq(Call) /\ Len(todo') = Len(names)
           /\ \A i \in 1..Len(names) : todo'[i].id = <<rounds, i>>
           /\ at' = "call"
<1> DEFINE ids == [i \in 1..Len(names) |-> <<rounds, i>>]
           calls == [i \in 1..Len(names) |-> [id |-> <<rounds, i>>, name |-> names[i]]]
           new == [role |-> "assistant", ids |-> ids]
<1>1. Len(names) \in Nat /\ rounds \in Nat /\ msgs \in Seq(Message)
    BY DEF TypeOK
<1>2. ids \in Seq(Nat \X Nat)
    BY <1>1
<1>3. calls \in Seq(Call) /\ Len(calls) = Len(names)
    BY <1>1 DEF Call
<1>4. new \in Message
    BY <1>2 DEF Message
<1>5. msgs' = Append(msgs, new) /\ todo' = calls /\ at' = "call"
    BY DEF AppendCalls
<1>6. msgs'[Len(msgs) + 1] = new /\ msgs' \in Seq(Message)
    BY <1>1, <1>4, <1>5
<1>7. QED BY <1>3, <1>4, <1>5, <1>6

\* The answer to the call at hand, and where the run goes from there.
LEMMA AnswerType ==
    ASSUME TypeOK, Len(todo) > 0, NextCall
    PROVE  /\ msgs' = Append(msgs, [role |-> "tool", ids |-> <<todo[1].id>>])
           /\ [role |-> "tool", ids |-> <<todo[1].id>>] \in Message
           /\ msgs' \in Seq(Message)
           /\ rounds' \in {rounds, rounds + 1}
           /\ todo' \in Seq(Call)
           /\ \/ Len(todo) > 1 /\ at' = "call" /\ todo' = Tail(todo) /\ UNCHANGED <<rounds, result>>
              \/ Len(todo) = 1 /\ at' = "llm" /\ rounds' = rounds + 1 /\ UNCHANGED result
              \/ Len(todo) = 1 /\ at' = "done" /\ rounds' = rounds + 1 /\ result'.status = "failed"
<1>0. todo \in Seq(Call) /\ Len(todo) \in Nat /\ rounds \in Nat /\ msgs \in Seq(Message)
    BY DEF TypeOK
<1>1. Head(todo) = todo[1] /\ todo[1].id \in Nat \X Nat
  <2>1. Head(todo) = todo[1] /\ todo[1] \in Call
      BY <1>0
  <2>2. QED BY <2>1 DEF Call
<1>2. <<todo[1].id>> \in Seq(Nat \X Nat)
    BY <1>1
<1>3. [role |-> "tool", ids |-> <<todo[1].id>>] \in Message
    BY <1>2 DEF Message
<1>4. msgs' = Append(msgs, [role |-> "tool", ids |-> <<todo[1].id>>])
    BY <1>1 DEF NextCall
<1>5. msgs' \in Seq(Message)
    BY <1>0, <1>3, <1>4
<1>6. CASE Len(todo) > 1
  <2>1. Tail(todo) \in Seq(Call)
      BY <1>0, <1>6
  <2>2. todo' = Tail(todo) /\ at' = "call" /\ UNCHANGED <<rounds, result>>
      BY <1>6 DEF NextCall
  <2>3. QED BY <1>3, <1>4, <1>5, <1>6, <2>1, <2>2
<1>7. CASE Len(todo) = 1
  <2>1. CASE rounds < MaxRounds
      BY <1>3, <1>4, <1>5, <1>7, <2>1 DEF NextCall, TypeOK
  <2>2. CASE ~(rounds < MaxRounds)
      BY <1>3, <1>4, <1>5, <1>7, <2>2 DEF NextCall, TypeOK, End, Failed
  <2>3. QED BY <2>1, <2>2
<1>8. QED BY <1>0, <1>6, <1>7

\* A call is written down with the tool registered for its name.
LEMMA WrittenDown ==
    ASSUME TypeOK, NEW name \in Asked, NEW st \in Statuses,
           audit' = Append(audit, [name |-> name, src |-> tools[name], status |-> st])
    PROVE  /\ audit' \in Seq(Record) /\ Len(audit) \in Nat /\ Len(audit') = Len(audit) + 1
           /\ \A i \in 1..Len(audit) : audit'[i] = audit[i]
           /\ audit'[Len(audit) + 1] = [name |-> name, src |-> tools[name], status |-> st]
<1> DEFINE new == [name |-> name, src |-> tools[name], status |-> st]
<1>1. new \in Record
    BY DEF TypeOK, Names, Record
<1>2. audit \in Seq(Record) /\ audit' = Append(audit, new)
    BY DEF TypeOK
<1> HIDE DEF new
<1>3. audit' \in Seq(Record) /\ Len(audit) \in Nat /\ Len(audit') = Len(audit) + 1
      /\ (\A i \in 1..Len(audit) : audit'[i] = audit[i]) /\ audit'[Len(audit) + 1] = new
    BY <1>1, <1>2
<1>4. QED BY <1>3 DEF new

\* Only the last record is marked, and only its status.
LEMMA LastMarked ==
    ASSUME TypeOK, Len(audit) > 0, NEW st \in Statuses, SetLast(st)
    PROVE  /\ audit' \in Seq(Record) /\ Len(audit) \in Nat /\ Len(audit') = Len(audit)
           /\ \A i \in 1..(Len(audit) - 1) : audit'[i] = audit[i]
           /\ audit'[Len(audit)].status = st
           /\ audit'[Len(audit)].name = audit[Len(audit)].name
           /\ audit'[Len(audit)].src = audit[Len(audit)].src
<1>1. audit \in Seq(Record) /\ Len(audit) \in Nat
    BY DEF TypeOK
<1>2. PICK n \in 1..Len(audit) : n = Len(audit)
    BY <1>1
<1>3. audit' = [audit EXCEPT ![n] = [audit[n] EXCEPT !.status = st]]
    BY <1>2 DEF SetLast
<1>4. audit[n] \in Record
    BY <1>1
<1> DEFINE new == [audit[n] EXCEPT !.status = st]
<1>5. new \in Record /\ new.status = st /\ new.name = audit[n].name /\ new.src = audit[n].src
    BY <1>4 DEF Record
<1> HIDE DEF new
<1>6. audit' = [audit EXCEPT ![n] = new]
    BY <1>3 DEF new
<1>7. audit' \in Seq(Record) /\ Len(audit') = Len(audit) /\ audit'[n] = new
      /\ \A i \in 1..(n - 1) : audit'[i] = audit[i]
    BY <1>1, <1>5, <1>6
<1>8. QED BY <1>1, <1>2, <1>5, <1>7

\* A call in hand has a name, and one past the broker's checks has a record.
LEMMA CallInHand ==
    ASSUME TypeOK, Position, Books, at \in Answering
    PROVE  /\ Len(todo) \in Nat \ {0}
           /\ Head(todo) = todo[1] /\ Head(todo).name \in Asked
           /\ at # "call" => Len(audit) > 0
<1>1. PICK p \in DOMAIN msgs : LeftOf(p)
    BY DEF Position
<1>2. msgs[p] \in Message /\ todo \in Seq(Call)
    BY DEF TypeOK
<1>3. Len(msgs[p].ids) \in Nat
    BY <1>2 DEF Message
<1>4. Len(todo) \in Nat \ {0}
    BY <1>1, <1>2, <1>3 DEF LeftOf
<1>5. Head(todo) = todo[1] /\ todo[1] \in Call
    BY <1>2, <1>4
<1>6. QED BY <1>4, <1>5 DEF Call, Books, Answering

-----------------------------------------------------------------------------
(* What a step does to the transcript.                                      *)

Stays ==
    /\ UNCHANGED <<msgs, rounds>>
    /\ \/ UNCHANGED <<at, todo>>
       \/ at' = "done" /\ todo' = <<>>
       \/ at = "idle" /\ at' = "llm" /\ todo' = todo
       \/ at \in Answering /\ at' \in Answering /\ todo' = todo

AsksNow(names) == at = "llm" /\ rounds' = rounds /\ AppendCalls(names)

AnswersNow == at \in Answering /\ NextCall

\* A step leaves the transcript alone, asks, or answers the call at hand.
LEMMA StepKind ==
    ASSUME [Next]_vars
    PROVE  Stays \/ AnswersNow \/ \E names \in Responses : AsksNow(names)
<1> USE DEF Stays, Answering, End
<1>1. ASSUME NEW q \in Requests, Start(q) PROVE Stays
    BY <1>1 DEF Start
<1>2. CASE LlmFails
    BY <1>2 DEF LlmFails
<1>3. ASSUME NEW t \in BOOLEAN, LlmAnswers(t) PROVE Stays
    BY <1>3 DEF LlmAnswers
<1>4. ASSUME NEW names \in Responses, LlmCalls(names) PROVE Stays \/ AsksNow(names)
    BY <1>4 DEF LlmCalls, AsksNow
<1>5. CASE Execute
    BY <1>5 DEF Execute, AnswersNow
<1>6. CASE Deny
    BY <1>6 DEF Deny, AnswersNow
<1>7. CASE RequireApproval
    BY <1>7 DEF RequireApproval
<1>8. CASE Allow
    BY <1>8 DEF Allow
<1>9. CASE HandlerFails
    BY <1>9 DEF HandlerFails, AnswersNow
<1>10. CASE HandlerReturns
    BY <1>10 DEF HandlerReturns, AnswersNow
<1>11. CASE Cancel
    BY <1>11 DEF Cancel
<1>12. CASE PluginLoads \/ PluginUnloads \/ CatalogReloads
    BY <1>12 DEF PluginLoads, PluginUnloads, CatalogReloads
<1>13. CASE UNCHANGED vars
    BY <1>13 DEF vars
<1>14. CASE CallRaises
    BY <1>14 DEF CallRaises
<1>15. QED
    BY <1>1, <1>2, <1>3, <1>4, <1>5, <1>6, <1>7, <1>8, <1>9, <1>10, <1>11, <1>12, <1>13, <1>14
       DEF Next, Progress

\* The transcript's variables keep their types.
LEMMA TranscriptTypeStep ==
    ASSUME TypeOK, Position, Books, [Next]_vars
    PROVE  /\ at' \in {"idle", "llm", "call", "policy", "handler", "done"}
           /\ msgs' \in Seq(Message) /\ rounds' \in Nat /\ todo' \in Seq(Call)
<1>0. <<>> \in Seq(Call)
    OBVIOUS
<1>1. CASE Stays
  <2>1. todo' = todo \/ todo' = <<>>
      BY <1>1 DEF Stays
  <2>2. todo' \in Seq(Call)
      BY <1>0, <2>1 DEF TypeOK
  <2>3. QED BY <1>1, <2>2 DEF Stays, TypeOK, Answering
<1>2. CASE AnswersNow
    BY <1>2, CallInHand, AnswerType DEF AnswersNow, TypeOK
<1>3. ASSUME NEW names \in Responses, AsksNow(names)
      PROVE  /\ at' \in {"idle", "llm", "call", "policy", "handler", "done"}
             /\ msgs' \in Seq(Message) /\ rounds' \in Nat /\ todo' \in Seq(Call)
  <2>1. names \in Seq(Asked) /\ AppendCalls(names) /\ rounds' = rounds
      BY <1>3, ResponseNames DEF AsksNow, TypeOK
  <2>2. QED BY <2>1, CallsType DEF TypeOK
<1>4. QED BY <1>1, <1>2, <1>3, StepKind

\* The broker's table keeps its type, and the builtin tools their names.
LEMMA RegistryStep ==
    ASSUME TypeOK, BuiltinStays, [Next]_vars
    PROVE  tools' \in [Names -> Sources] /\ BuiltinStays'
<1> USE DEF TypeOK, BuiltinStays
<1>1. ASSUME NEW n \in PluginTools, NEW p \in Plugins, RegisterTool(n, p)
      PROVE  tools' \in [Names -> Sources] /\ BuiltinStays'
    BY <1>1, AgentLoopAssumption DEF RegisterTool, Names, Sources
<1>2. ASSUME NEW p \in Plugins, UnregisterSource(p)
      PROVE  tools' \in [Names -> Sources] /\ BuiltinStays'
    BY <1>2, AgentLoopAssumption DEF UnregisterSource, Names, Sources
<1>3. CASE tools' = tools
    BY <1>3
<1>4. CASE Progress \/ Cancel \/ CatalogReloads \/ UNCHANGED vars
    BY <1>4, <1>3 DEF Progress, Start, LlmFails, LlmAnswers, LlmCalls, Execute, Deny,
       RequireApproval, Allow, HandlerFails, HandlerReturns, CallRaises, Cancel, CatalogReloads,
       registry, vars
<1>5. QED BY <1>1, <1>2, <1>4 DEF Next, PluginLoads, PluginUnloads

-----------------------------------------------------------------------------
(* The transcript stays well formed.                                        *)

\* What the messages of a well-formed transcript are.
LEMMA MessageType ==
    ASSUME TypeOK, NEW m \in DOMAIN msgs
    PROVE  /\ m \in 1..Len(msgs) /\ Len(msgs) \in Nat
           /\ msgs[m] \in Message /\ Len(msgs[m].ids) \in Nat
           /\ DOMAIN msgs[m].ids = 1..Len(msgs[m].ids)
<1>1. msgs[m] \in Message /\ m \in 1..Len(msgs) /\ Len(msgs) \in Nat
    BY DEF TypeOK
<1>2. msgs[m].ids \in Seq(Nat \X Nat)
    BY <1>1 DEF Message
<1>3. QED BY <1>1, <1>2

\* A step that leaves the messages alone.
LEMMA StaysWellFormed ==
    ASSUME TypeOK, Transcript, Stays
    PROVE  Transcript'
<1> USE DEF Transcript, Stays
<1>1. msgs' = msgs /\ rounds' = rounds
    OBVIOUS
<1>2. Numbered'
  <2>1. at' = "llm" => at = "llm" \/ msgs = <<>>
      BY DEF Position, Answering
  <2>2. QED BY <1>1, <2>1 DEF Numbered, Asks, RoundOf
<1>3. Position'
  <2>1. CASE at' = at /\ todo' = todo
      BY <1>1, <2>1 DEF Position, LeftOf, Asks, Whole
  <2>2. CASE at' = "done"
      BY <2>2 DEF Position, Answering
  <2>3. CASE at = "idle" /\ at' = "llm"
      BY <1>1, <2>3 DEF Position, Answering
  <2>4. CASE at \in Answering /\ at' \in Answering /\ todo' = todo
      BY <1>1, <2>4 DEF Position, Answering, LeftOf, Asks
  <2>5. QED BY <2>1, <2>2, <2>3, <2>4
<1>4. Answered' /\ NothingBetween'
    BY <1>1 DEF Answered, NothingBetween, Asks, Answers
<1>5. QED BY <1>2, <1>3, <1>4

\* What is appended leaves the messages that were there, and whom they answer.
LEMMA Before ==
    ASSUME TypeOK, NEW x \in Message, msgs' = Append(msgs, x)
    PROVE  /\ Len(msgs) \in Nat /\ Len(msgs') = Len(msgs) + 1
           /\ DOMAIN msgs = 1..Len(msgs) /\ DOMAIN msgs' = 1..(Len(msgs) + 1)
           /\ \A m \in 1..Len(msgs) : msgs'[m] = msgs[m]
           /\ msgs'[Len(msgs) + 1] = x
           /\ \A m \in 1..Len(msgs) : Asks(m)' = Asks(m) /\ RoundOf(m)' = RoundOf(m)
           /\ \A m, n \in 1..Len(msgs) : Answers(n, m)' = Answers(n, m)
<1>1. /\ Len(msgs) \in Nat /\ Len(msgs') = Len(msgs) + 1
      /\ DOMAIN msgs = 1..Len(msgs) /\ DOMAIN msgs' = 1..(Len(msgs) + 1)
      /\ \A m \in 1..Len(msgs) : msgs'[m] = msgs[m]
      /\ msgs'[Len(msgs) + 1] = x
    BY DEF TypeOK
<1>2. \A m \in 1..Len(msgs) : Asks(m)' = Asks(m) /\ RoundOf(m)' = RoundOf(m)
    BY <1>1 DEF Asks, RoundOf
<1>3. \A m, n \in 1..Len(msgs) : Answers(n, m)' = Answers(n, m)
    BY <1>1 DEF Answers
<1>4. QED BY <1>1, <1>2, <1>3

\* A step that asks: everything before it was answered, so its calls are next.
LEMMA AsksWellFormed ==
    ASSUME TypeOK, Transcript, NEW names \in Responses, AsksNow(names)
    PROVE  Transcript'
<1>1. names \in Seq(Asked) /\ Len(names) \in Nat \ {0} /\ AppendCalls(names)
      /\ at = "llm" /\ rounds' = rounds /\ rounds \in Nat
    BY ResponseNames DEF AsksNow, TypeOK
<1>2. PICK k \in Nat \ {0} : k = Len(names)
    BY <1>1
<1>3. PICK x \in Message : /\ msgs' = Append(msgs, x) /\ x.role = "assistant"
                           /\ x.ids = [i \in 1..k |-> <<rounds, i>>]
    BY <1>1, <1>2, CallsType
<1>4. at' = "call" /\ Len(todo') = k /\ \A i \in 1..k : todo'[i].id = <<rounds, i>>
    BY <1>1, <1>2, CallsType
<1>5. PICK L \in Nat : L = Len(msgs)
    BY DEF TypeOK
<1>6. /\ Len(msgs') = L + 1 /\ DOMAIN msgs = 1..L /\ DOMAIN msgs' = 1..(L + 1)
      /\ \A m \in 1..L : msgs'[m] = msgs[m]
      /\ msgs'[L + 1] = x
      /\ \A m \in 1..L : Asks(m)' = Asks(m) /\ RoundOf(m)' = RoundOf(m)
      /\ \A m, n \in 1..L : Answers(n, m)' = Answers(n, m)
    BY <1>3, <1>5, Before
<1>7. \A m \in 1..L : Asks(m) => /\ m + Len(msgs[m].ids) <= L
                                 /\ Len(msgs[m].ids) \in Nat \ {0} /\ RoundOf(m) < rounds
                                 /\ RoundOf(m) \in Nat
    BY <1>1, <1>5, <1>6 DEF Transcript, Position, Numbered, Whole
<1>8. Len(x.ids) = k /\ \A i \in 1..k : x.ids[i] = <<rounds, i>>
    BY <1>3
<1>9. PICK n1 \in DOMAIN msgs' : n1 = L + 1
    BY <1>5, <1>6
<1>10. Asks(n1)' /\ RoundOf(n1)' = rounds
    BY <1>3, <1>6, <1>8, <1>9 DEF Asks, RoundOf
<1>11. Numbered'
  <2> SUFFICES ASSUME NEW m \in 1..(L + 1), Asks(m)'
               PROVE  /\ Len(msgs'[m].ids) \in Nat \ {0}
                      /\ RoundOf(m)' \in 0..rounds'
                      /\ \A i \in 1..Len(msgs'[m].ids) : msgs'[m].ids[i] = <<RoundOf(m)', i>>
                      /\ \A n \in 1..(L + 1) : Asks(n)' /\ RoundOf(n)' = RoundOf(m)' => m = n
      BY <1>4, <1>6 DEF Numbered
  <2>1. CASE m = n1
    <3>1. \A n \in 1..(L + 1) : Asks(n)' /\ RoundOf(n)' = rounds => n = n1
      <4> SUFFICES ASSUME NEW n \in 1..L PROVE ~(Asks(n)' /\ RoundOf(n)' = rounds)
          BY <1>5, <1>9
      <4>1. Asks(n)' = Asks(n) /\ RoundOf(n)' = RoundOf(n)
          BY <1>6
      <4>2. Asks(n) => RoundOf(n) < rounds /\ RoundOf(n) \in Nat
          BY <1>7
      <4>3. QED BY <1>1, <4>1, <4>2
    <3>2. msgs'[m].ids = x.ids /\ RoundOf(m)' = rounds
        BY <1>6, <1>9, <1>10, <2>1
    <3>3. QED BY <1>1, <1>2, <1>8, <2>1, <3>1, <3>2
  <2>2. CASE m # n1
    <3>1. m \in 1..L
        BY <1>5, <1>9, <2>2
    <3>2. Asks(m) /\ msgs'[m] = msgs[m] /\ RoundOf(m)' = RoundOf(m)
        BY <1>6, <3>1
    <3>3. \A n \in 1..(L + 1) : Asks(n)' /\ RoundOf(n)' = RoundOf(m) => m = n
      <4> SUFFICES ASSUME NEW n \in 1..(L + 1), Asks(n)', RoundOf(n)' = RoundOf(m)
                   PROVE  m = n
          OBVIOUS
      <4>1. n \in 1..L
          BY <1>1, <1>5, <1>7, <1>9, <1>10, <3>1, <3>2
      <4>2. Asks(n) /\ RoundOf(n) = RoundOf(m)
          BY <1>6, <4>1
      <4>3. QED BY <1>6, <3>1, <3>2, <4>1, <4>2 DEF Transcript, Numbered
    <3>4. QED BY <1>1, <1>6, <3>1, <3>2, <3>3 DEF Transcript, Numbered
  <2>3. QED BY <2>1, <2>2
<1>12. Position'
  <2>1. LeftOf(n1)'
    <3>0. msgs'[n1].ids = x.ids /\ Len(x.ids) = k /\ Len(todo') = k
        BY <1>4, <1>6, <1>8, <1>9
    <3>1. Asks(n1)' /\ Len(todo') \in 1..Len(msgs'[n1].ids)
          /\ Len(msgs') + Len(todo') = n1 + Len(msgs'[n1].ids)
      <4>1. k \in 1..k
          BY <1>2
      <4>2. QED BY <1>5, <1>6, <1>9, <1>10, <3>0, <4>1
    <3>2. \A j \in 1..Len(todo') :
             todo'[j].id = msgs'[n1].ids[Len(msgs'[n1].ids) - Len(todo') + j]
      <4> SUFFICES ASSUME NEW j \in 1..k PROVE todo'[j].id = x.ids[k - k + j]
          BY <3>0
      <4>1. k - k + j = j
          BY <1>2
      <4>2. QED BY <1>4, <1>8, <4>1
    <3>3. \A m \in DOMAIN msgs' : Asks(m)' /\ m # n1 => m + Len(msgs'[m].ids) < n1
        BY <1>5, <1>6, <1>7, <1>9
    <3>4. QED BY <3>1, <3>2, <3>3 DEF LeftOf
  <2>2. QED BY <1>4, <1>9, <2>1 DEF Position
<1>13. Answered'
  <2> SUFFICES ASSUME NEW n \in 1..(L + 1), ~ Asks(n)'
               PROVE  \E m \in 1..(n - 1) : Asks(m)' /\ Answers(n, m)'
      BY <1>6 DEF Answered
  <2>1. n \in 1..L /\ ~ Asks(n)
      BY <1>5, <1>6, <1>9, <1>10
  <2>2. PICK m \in 1..(n - 1) : Asks(m) /\ Answers(n, m)
      BY <1>6, <2>1 DEF Transcript, Answered
  <2>3. QED BY <1>5, <1>6, <2>1, <2>2
<1>14. NothingBetween'
  <2> SUFFICES ASSUME NEW m \in 1..(L + 1), NEW n \in 1..(L + 1), Asks(m)',
                      n \in (m + 1)..(m + Len(msgs'[m].ids))
               PROVE  Answers(n, m)'
      BY <1>6 DEF NothingBetween
  <2>1. m \in 1..L
      BY <1>5, <1>8, <1>6, <1>2, <1>9
  <2>2. Asks(m) /\ msgs'[m] = msgs[m] /\ n \in 1..L
      BY <1>5, <1>6, <1>7, <2>1
  <2>3. QED BY <1>6, <2>1, <2>2 DEF Transcript, NothingBetween
<1>15. QED BY <1>11, <1>12, <1>13, <1>14 DEF Transcript

\* A step that answers: the call at hand is the next one of the last message
\* that asked, and the model is called again only when it was the last call.
LEMMA AnswersWellFormed ==
    ASSUME TypeOK, Transcript, Books, AnswersNow
    PROVE  Transcript'
<1>1. NextCall /\ Len(todo) \in Nat \ {0}
    BY CallInHand DEF AnswersNow, Transcript
<1>2. PICK p \in DOMAIN msgs : LeftOf(p)
    BY DEF Transcript, Position, AnswersNow
<1>3. PICK k \in Nat : k = Len(msgs[p].ids)
    BY <1>2, MessageType
<1>4. PICK t \in 1..k : t = Len(todo)
    BY <1>2, <1>3 DEF LeftOf
<1>5. PICK L \in Nat : L = Len(msgs)
    BY DEF TypeOK
<1>6. PICK x \in Message : /\ msgs' = Append(msgs, x)
                           /\ x = [role |-> "tool", ids |-> <<todo[1].id>>]
    BY <1>1, AnswerType
<1>7. /\ Len(msgs') = L + 1 /\ DOMAIN msgs = 1..L /\ DOMAIN msgs' = 1..(L + 1)
      /\ \A m \in 1..L : msgs'[m] = msgs[m]
      /\ msgs'[L + 1] = x
      /\ \A m \in 1..L : Asks(m)' = Asks(m) /\ RoundOf(m)' = RoundOf(m)
      /\ \A m, n \in 1..L : Answers(n, m)' = Answers(n, m)
    BY <1>5, <1>6, Before
<1>8. /\ L + t = p + k /\ p \in 1..L /\ Asks(p)
      /\ \A j \in 1..t : todo[j].id = msgs[p].ids[k - t + j]
      /\ \A m \in 1..L : Asks(m) /\ m # p => m + Len(msgs[m].ids) < p
    BY <1>2, <1>3, <1>4, <1>5, <1>7 DEF LeftOf
<1>9. \/ t > 1 /\ at' = "call" /\ todo' = Tail(todo) /\ rounds' = rounds
      \/ t = 1 /\ at' \in {"llm", "done"} /\ rounds' = rounds + 1
    BY <1>1, <1>4, AnswerType
<1>10. PICK n1 \in DOMAIN msgs' : n1 = L + 1
    BY <1>5, <1>7
<1>11. ~ Asks(n1)'
    BY <1>6, <1>7, <1>10 DEF Asks
<1>12. Answers(n1, p)'
  <2>1. n1 - p = k - t + 1 /\ n1 - p \in 1..k
      BY <1>3, <1>4, <1>5, <1>8, <1>10
  <2>2. x.ids = <<msgs[p].ids[n1 - p]>>
      BY <1>4, <1>6, <1>8, <2>1
  <2>3. msgs'[p] = msgs[p] /\ DOMAIN msgs[p].ids = 1..k
      BY <1>2, <1>3, <1>7, <1>8, MessageType
  <2>4. msgs'[n1] = [role |-> "tool", ids |-> <<msgs[p].ids[n1 - p]>>]
      BY <1>6, <1>7, <1>10, <2>2
  <2>5. QED BY <2>1, <2>3, <2>4 DEF Answers
<1>13. Numbered'
  <2> SUFFICES ASSUME NEW m \in 1..(L + 1), Asks(m)'
               PROVE  /\ Len(msgs'[m].ids) \in Nat \ {0}
                      /\ RoundOf(m)' \in 0..rounds'
                      /\ at' = "llm" => RoundOf(m)' < rounds'
                      /\ \A i \in 1..Len(msgs'[m].ids) : msgs'[m].ids[i] = <<RoundOf(m)', i>>
                      /\ \A n \in 1..(L + 1) : Asks(n)' /\ RoundOf(n)' = RoundOf(m)' => m = n
      BY <1>7 DEF Numbered
  <2>1. m \in 1..L
      BY <1>5, <1>10, <1>11
  <2>2. Asks(m) /\ msgs'[m] = msgs[m] /\ RoundOf(m)' = RoundOf(m)
      BY <1>7, <2>1
  <2>3. /\ Len(msgs[m].ids) \in Nat \ {0} /\ RoundOf(m) \in 0..rounds
        /\ \A i \in 1..Len(msgs[m].ids) : msgs[m].ids[i] = <<RoundOf(m), i>>
        /\ \A n \in 1..L : Asks(n) /\ RoundOf(n) = RoundOf(m) => m = n
      BY <1>7, <2>1, <2>2 DEF Transcript, Numbered
  <2>4. \A n \in 1..(L + 1) : Asks(n)' /\ RoundOf(n)' = RoundOf(m)' => m = n
    <3> SUFFICES ASSUME NEW n \in 1..(L + 1), Asks(n)', RoundOf(n)' = RoundOf(m)'
                 PROVE  m = n
        OBVIOUS
    <3>1. n \in 1..L
        BY <1>5, <1>10, <1>11
    <3>2. QED BY <1>7, <2>2, <2>3, <3>1
  <2>5. rounds \in Nat
      BY DEF TypeOK
  <2>6. QED BY <1>9, <2>2, <2>3, <2>4, <2>5
<1>14. Position'
  <2>1. CASE t > 1
    <3>1. at' = "call" /\ todo' = Tail(todo)
        BY <1>9, <2>1
    <3>2. Len(todo') = t - 1 /\ \A j \in 1..(t - 1) : todo'[j] = todo[j + 1]
        BY <1>4, <2>1, <3>1 DEF TypeOK
    <3>3. msgs'[p] = msgs[p] /\ Len(msgs'[p].ids) = k
        BY <1>3, <1>7, <1>8
    <3>4. \A j \in 1..(t - 1) : todo'[j].id = msgs[p].ids[k - (t - 1) + j]
      <4> SUFFICES ASSUME NEW j \in 1..(t - 1)
                   PROVE  todo'[j].id = msgs[p].ids[k - (t - 1) + j]
          OBVIOUS
      <4>0. t \in Nat /\ k \in Nat /\ j \in Nat
          BY <1>3, <1>4
      <4>1. j + 1 \in 1..t /\ k - t + (j + 1) = k - (t - 1) + j
          BY <4>0
      <4>2. todo[j + 1].id = msgs[p].ids[k - t + (j + 1)]
          BY <1>8, <4>1
      <4>3. QED BY <3>2, <4>1, <4>2
    <3>5. Asks(p)' /\ Len(todo') \in 1..k /\ Len(msgs') + Len(todo') = p + k
        BY <1>3, <1>4, <1>5, <1>7, <1>8, <2>1, <3>2
    <3>6. \A m \in DOMAIN msgs' : Asks(m)' /\ m # p => m + Len(msgs'[m].ids) < p
      <4> SUFFICES ASSUME NEW m \in 1..(L + 1), Asks(m)', m # p
                   PROVE  m + Len(msgs'[m].ids) < p
          BY <1>7
      <4>1. m \in 1..L
          BY <1>5, <1>10, <1>11
      <4>2. QED BY <1>7, <1>8, <4>1
    <3>7. LeftOf(p)'
        BY <3>2, <3>3, <3>4, <3>5, <3>6 DEF LeftOf
    <3>8. p \in DOMAIN msgs'
        BY <1>5, <1>7, <1>8
    <3>9. QED BY <3>1, <3>7, <3>8 DEF Position
  <2>2. CASE t = 1
    <3>1. \A m \in DOMAIN msgs' : Asks(m)' => Whole(m)'
      <4> SUFFICES ASSUME NEW m \in 1..(L + 1), Asks(m)'
                   PROVE  m + Len(msgs'[m].ids) <= L + 1
          BY <1>7 DEF Whole
      <4>1. m \in 1..L /\ Asks(m) /\ msgs'[m] = msgs[m]
          BY <1>5, <1>7, <1>10, <1>11
      <4>2. CASE m = p
          BY <1>3, <1>5, <1>8, <2>2, <4>1, <4>2
      <4>3. CASE m # p
          BY <1>5, <1>7, <1>8, <4>1, <4>3, MessageType
      <4>4. QED BY <4>2, <4>3
    <3>2. at' \in {"llm", "done"}
        BY <1>9, <2>2
    <3>3. QED BY <3>1, <3>2 DEF Position, Answering
  <2>3. QED BY <1>4, <2>1, <2>2
<1>15. Answered'
  <2> SUFFICES ASSUME NEW n \in 1..(L + 1), ~ Asks(n)'
               PROVE  \E m \in 1..(n - 1) : Asks(m)' /\ Answers(n, m)'
      BY <1>7 DEF Answered
  <2>1. CASE n = n1
      BY <1>5, <1>7, <1>8, <1>10, <1>12, <2>1
  <2>2. CASE n # n1
    <3>1. n \in 1..L /\ ~ Asks(n)
        BY <1>5, <1>7, <1>10, <2>2
    <3>2. PICK m \in 1..(n - 1) : Asks(m) /\ Answers(n, m)
        BY <1>7, <3>1 DEF Transcript, Answered
    <3>3. QED BY <1>5, <1>7, <3>1, <3>2
  <2>3. QED BY <2>1, <2>2
<1>16. NothingBetween'
  <2> SUFFICES ASSUME NEW m \in 1..(L + 1), NEW n \in 1..(L + 1), Asks(m)',
                      n \in (m + 1)..(m + Len(msgs'[m].ids))
               PROVE  Answers(n, m)'
      BY <1>7 DEF NothingBetween
  <2>1. m \in 1..L /\ Asks(m) /\ msgs'[m] = msgs[m] /\ Len(msgs[m].ids) \in Nat
    <3>1. m \in 1..L
        BY <1>5, <1>10, <1>11
    <3>2. QED BY <1>7, <3>1, MessageType
  <2>2. CASE n = n1
      BY <1>5, <1>8, <1>10, <1>12, <2>1, <2>2
  <2>3. CASE n # n1
    <3>1. n \in 1..L
        BY <1>5, <1>10, <2>3
    <3>2. QED BY <1>7, <2>1, <3>1 DEF Transcript, NothingBetween
  <2>4. QED BY <2>2, <2>3
<1>17. QED BY <1>13, <1>14, <1>15, <1>16 DEF Transcript

LEMMA TranscriptStep ==
    ASSUME TypeOK, Transcript, Books, [Next]_vars
    PROVE  Transcript'
BY StepKind, StaysWellFormed, AsksWellFormed, AnswersWellFormed

-----------------------------------------------------------------------------
(* The audit tells which calls are open and that the others were permitted. *)

AuditOK == Books /\ ResultMatchesCalls /\ LetIn

\* What the broker's checks let in is permitted, whatever the catalogs and
\* the table hold at the moment.
LEMMA AllowedIsPermitted ==
    ASSUME TypeOK, BuiltinStays, NEW name \in BuildExecutionContext
    PROVE  Permitted(name, tools[name])
<1>1. name \in Builtin => tools[name] = "builtin"
    BY DEF BuiltinStays
<1>2. name \in ComputerTools => name \in Available
    BY DEF BuildExecutionContext, AllowedToolNames
<1>3. \/ name \in Enabled \ {"Skill", "delegate_subagent"}
      \/ name \in SpecialTool("Skill", VisibleSkills # {})
      \/ name \in SpecialTool("delegate_subagent", VisibleSubagents # {})
      \/ name = "ask_backend" /\ ExposeBackend
    BY DEF BuildExecutionContext, AllowedToolNames
<1>4. VisibleSkills # {} => WorldSkills # {}
    BY DEF VisibleSkills
<1>5. VisibleSubagents # {} => WorldAgents # {}
    BY DEF VisibleSubagents
<1>6. QED BY <1>1, <1>2, <1>3, <1>4, <1>5 DEF Permitted, SpecialTool, ExposeBackend

\* A step that leaves the audit alone and opens or closes no call.
LEMMA AuditStays ==
    ASSUME AuditOK, audit' = audit,
           at' \in {"idle", "llm", "call"} => at \in {"idle", "llm", "call"},
           at' \in {"policy", "handler"} => at \in {"policy", "handler"},
           at' = "done" => \/ at = "done" /\ result' = result
                           \/ result'.status \in {"raised", "cancelled"}
                           \/ at \in {"idle", "llm"} /\ result'.status # "waiting_approval"
    PROVE  AuditOK'
<1>1. Books'
    BY DEF AuditOK, Books, SettledTo
<1>2. LetIn'
    BY DEF AuditOK, LetIn
<1>3. ResultMatchesCalls'
    BY DEF AuditOK, Books, SettledTo, ResultMatchesCalls
<1>4. QED BY <1>1, <1>2, <1>3 DEF AuditOK

\* A step that answers a call leaves none open.
LEMMA AuditAnswered ==
    ASSUME TypeOK, Transcript, AuditOK, AnswersNow, LetIn',
           \A i \in 1..Len(audit') : audit'[i].status \in Final
    PROVE  AuditOK'
<1>1. \/ at' \in {"call", "llm"}
      \/ at' = "done" /\ result'.status = "failed"
    BY CallInHand, AnswerType DEF AnswersNow, Transcript, AuditOK
<1>2. QED BY <1>1 DEF AuditOK, Books, SettledTo, ResultMatchesCalls

\* A step that marks the record of the call at hand with a final status.
LEMMA AuditClosed ==
    ASSUME TypeOK, Transcript, AuditOK, at \in {"policy", "handler"}, NextCall,
           NEW st \in Final, SetLast(st)
    PROVE  AuditOK'
<1>1. PICK n \in Nat : n = Len(audit) /\ n > 0
    BY DEF TypeOK, AuditOK, Books
<1>2. st \in Statuses
    BY DEF Final, Statuses
<1>3. /\ Len(audit') = n /\ \A i \in 1..(n - 1) : audit'[i] = audit[i]
      /\ audit'[n].status = st /\ audit'[n].name = audit[n].name /\ audit'[n].src = audit[n].src
    BY <1>1, <1>2, LastMarked
<1>4. audit[n].status = "started" /\ \A i \in 1..(n - 1) : audit[i].status \in Final
    BY <1>1 DEF AuditOK, Books, SettledTo
<1>5. \A i \in 1..Len(audit') : audit'[i].status \in Final
    BY <1>1, <1>3, <1>4
<1>6. LetIn'
  <2> SUFFICES ASSUME NEW i \in 1..n, audit'[i].status # "rejected"
               PROVE  Permitted(audit'[i].name, audit'[i].src)
      BY <1>3 DEF LetIn, Permitted
  <2>1. audit'[i].name = audit[i].name /\ audit'[i].src = audit[i].src
        /\ audit[i].status # "rejected"
    <3>1. CASE i = n
        BY <1>3, <1>4, <3>1
    <3>2. CASE i # n
      <4>1. i \in 1..(n - 1)
          BY <1>1, <3>2
      <4>2. QED BY <1>3, <4>1
    <3>3. QED BY <3>1, <3>2
  <2>2. QED BY <1>1, <2>1 DEF AuditOK, LetIn
<1>7. AnswersNow
    BY DEF AnswersNow, Answering
<1>8. QED BY <1>5, <1>6, <1>7, AuditAnswered

\* The broker lets a call in or rejects it.
LEMMA AuditExecute ==
    ASSUME TypeOK, Transcript, AuditOK, BuiltinStays, Execute
    PROVE  AuditOK'
<1>1. PICK name \in Asked : name = Head(todo).name
    BY CallInHand DEF Execute, Answering, Transcript, AuditOK
<1>2. PICK n \in Nat : n = Len(audit)
    BY DEF TypeOK
<1>3. SettledTo(n) /\ at = "call"
    BY <1>2 DEF Execute, AuditOK, Books
<1>4. CASE name \in BuildExecutionContext /\ tools[name] # None
  <2>1. audit' = Append(audit, [name |-> name, src |-> tools[name], status |-> "started"])
        /\ at' = "policy"
      BY <1>1, <1>4 DEF Execute, Started
  <2>2. /\ Len(audit') = n + 1 /\ \A i \in 1..n : audit'[i] = audit[i]
        /\ audit'[n + 1] = [name |-> name, src |-> tools[name], status |-> "started"]
      BY <1>2, <2>1, WrittenDown DEF Statuses
  <2>3. Books' /\ ResultMatchesCalls'
      BY <1>2, <1>3, <2>1, <2>2 DEF Books, SettledTo, ResultMatchesCalls
  <2>4. Permitted(name, tools[name])
      BY <1>4, AllowedIsPermitted
  <2>5. LetIn'
    <3> SUFFICES ASSUME NEW i \in 1..(n + 1), audit'[i].status # "rejected"
                 PROVE  Permitted(audit'[i].name, audit'[i].src)
        BY <2>2 DEF LetIn, Permitted
    <3>1. CASE i = n + 1
        BY <2>2, <2>4, <3>1
    <3>2. CASE i # n + 1
        BY <1>2, <2>2, <3>2 DEF AuditOK, LetIn
    <3>3. QED BY <3>1, <3>2
  <2>6. QED BY <2>3, <2>5 DEF AuditOK
<1>5. CASE ~(name \in BuildExecutionContext /\ tools[name] # None)
  <2>1. audit' = Append(audit, [name |-> name, src |-> tools[name], status |-> "rejected"])
        /\ NextCall
      BY <1>1, <1>5 DEF Execute, Started
  <2>2. /\ Len(audit') = n + 1 /\ \A i \in 1..n : audit'[i] = audit[i]
        /\ audit'[n + 1] = [name |-> name, src |-> tools[name], status |-> "rejected"]
      BY <1>2, <2>1, WrittenDown DEF Statuses
  <2>3. \A i \in 1..Len(audit') : audit'[i].status \in Final
      BY <1>2, <1>3, <2>2 DEF SettledTo, Final
  <2>4. LetIn'
    <3> SUFFICES ASSUME NEW i \in 1..(n + 1), audit'[i].status # "rejected"
                 PROVE  Permitted(audit'[i].name, audit'[i].src)
        BY <2>2 DEF LetIn, Permitted
    <3>1. i # n + 1
        BY <2>2
    <3>2. QED BY <1>2, <2>2, <3>1 DEF AuditOK, LetIn
  <2>5. AnswersNow
      BY <1>3, <2>1 DEF AnswersNow, Answering
  <2>6. QED BY <2>3, <2>4, <2>5, AuditAnswered
<1>6. QED BY <1>4, <1>5

\* An approval leaves exactly the last call open.
LEMMA AuditWaits ==
    ASSUME TypeOK, AuditOK, RequireApproval
    PROVE  AuditOK'
<1>1. PICK n \in Nat : n = Len(audit) /\ n > 0
  <2>1. at = "policy" /\ Books
      BY DEF RequireApproval, AuditOK
  <2>2. Len(audit) \in Nat
      BY DEF TypeOK
  <2>3. Len(audit) > 0
      BY <2>1, <2>2 DEF Books
  <2>4. QED BY <2>2, <2>3
<1>2. /\ Len(audit') = n /\ \A i \in 1..(n - 1) : audit'[i] = audit[i]
      /\ audit'[n].status = "waiting_approval"
      /\ audit'[n].name = audit[n].name /\ audit'[n].src = audit[n].src
  <2>1. SetLast("waiting_approval") /\ "waiting_approval" \in Statuses
      BY DEF RequireApproval, Statuses
  <2>2. QED BY <1>1, <2>1, LastMarked
<1>3. audit[n].status = "started" /\ \A i \in 1..(n - 1) : audit[i].status \in Final
    BY <1>1 DEF AuditOK, Books, SettledTo, RequireApproval
<1>4. at' = "done" /\ result'.status = "waiting_approval" /\ result'.pending = n
    BY <1>1 DEF RequireApproval, End, WaitingApproval
<1>5. Books' /\ ResultMatchesCalls'
    BY <1>1, <1>2, <1>3, <1>4 DEF Books, ResultMatchesCalls
<1>6. LetIn'
  <2> SUFFICES ASSUME NEW i \in 1..n, audit'[i].status # "rejected"
               PROVE  Permitted(audit'[i].name, audit'[i].src)
      BY <1>2 DEF LetIn, Permitted
  <2>1. audit'[i].name = audit[i].name /\ audit'[i].src = audit[i].src
        /\ audit[i].status # "rejected"
    <3>1. CASE i = n
        BY <1>2, <1>3, <3>1
    <3>2. CASE i # n
      <4>1. i \in 1..(n - 1)
          BY <1>1, <3>2
      <4>2. QED BY <1>2, <4>1
    <3>3. QED BY <3>1, <3>2
  <2>2. QED BY <1>1, <2>1 DEF AuditOK, LetIn
<1>7. QED BY <1>5, <1>6 DEF AuditOK

LEMMA AuditStep ==
    ASSUME TypeOK, Transcript, AuditOK, BuiltinStays, [Next]_vars
    PROVE  AuditOK' /\ audit' \in Seq(Record)
<1> DEFINE Done == AuditOK' /\ audit' \in Seq(Record)
<1>0. audit' = audit => audit' \in Seq(Record)
    BY DEF TypeOK
<1>1. ASSUME NEW q \in Requests, Start(q) PROVE Done
    BY <1>1, <1>0, AuditStays DEF Start, End, Failed, Raised
<1>2. CASE LlmFails
    BY <1>2, <1>0, AuditStays DEF LlmFails, End, Failed
<1>3. ASSUME NEW t \in BOOLEAN, LlmAnswers(t) PROVE Done
    BY <1>3, <1>0, AuditStays DEF LlmAnswers, End, Completed
<1>4. ASSUME NEW names \in Responses, LlmCalls(names) PROVE Done
    BY <1>4, <1>0, AuditStays DEF LlmCalls, AppendCalls, End, Failed
<1>5. CASE Execute
  <2>1. PICK name \in Asked : name = Head(todo).name
      BY <1>5, CallInHand DEF Execute, Answering, Transcript, AuditOK
  <2>2. \E st \in Statuses :
           audit' = Append(audit, [name |-> name, src |-> tools[name], status |-> st])
      BY <1>5, <2>1 DEF Execute, Started, Statuses
  <2>3. QED BY <1>5, <2>2, WrittenDown, AuditExecute
<1>6. ASSUME at \in {"policy", "handler"}, NextCall, NEW st \in Final, SetLast(st) PROVE Done
    BY <1>6, AuditClosed, LastMarked DEF AuditOK, Books, Final, Statuses
<1>7. CASE Deny \/ HandlerFails \/ HandlerReturns
    BY <1>7, <1>6 DEF Deny, HandlerFails, HandlerReturns, Final
<1>8. CASE RequireApproval
    BY <1>8, AuditWaits, LastMarked DEF RequireApproval, AuditOK, Books, Statuses
<1>9. CASE Allow
    BY <1>9, <1>0, AuditStays DEF Allow
<1>10. CASE Cancel
    BY <1>10, <1>0, AuditStays DEF Cancel, End
<1>11. CASE PluginLoads \/ PluginUnloads \/ CatalogReloads
    BY <1>11, <1>0, AuditStays DEF PluginLoads, PluginUnloads, CatalogReloads
<1>12. CASE UNCHANGED vars
    BY <1>12, <1>0, AuditStays DEF vars
<1>13. CASE CallRaises
    BY <1>13, <1>0, AuditStays DEF CallRaises, End, Raised
<1>14. QED
    BY <1>1, <1>2, <1>3, <1>4, <1>5, <1>7, <1>8, <1>9, <1>10, <1>11, <1>12, <1>13
       DEF Next, Progress

-----------------------------------------------------------------------------
(* The selection of what is committed.                                      *)

\* A chosen place is found again by the number of chosen places up to it.
LEMMA RankOf ==
    ASSUME NEW n \in Nat, NEW c, c \subseteq 1..n, NEW i \in c
    PROVE  /\ Cardinality(c) \in Nat
           /\ Cardinality(c \cap 1..i) \in 1..Cardinality(c)
           /\ Nth(c, Cardinality(c \cap 1..i)) = i
<1>1. IsFiniteSet(c) /\ Cardinality(c) \in Nat
  <2>1. IsFiniteSet(1..n)
      BY FS_Interval
  <2>2. IsFiniteSet(c)
      BY <2>1, FS_Subset
  <2>3. QED BY <2>2, FS_CardinalityType
<1>2. \A j \in c : /\ IsFiniteSet(c \cap 1..j) /\ Cardinality(c \cap 1..j) \in Nat
                   /\ Cardinality(c \cap 1..j) <= Cardinality(c)
  <2>1. TAKE j \in c
  <2>2. c \cap 1..j \subseteq c
      OBVIOUS
  <2>3. QED BY <1>1, <2>2, FS_Subset, FS_CardinalityType
<1>3. \A j, k \in c : j < k => Cardinality(c \cap 1..j) < Cardinality(c \cap 1..k)
  <2>1. TAKE j, k \in c
  <2>2. HAVE j < k
  <2>3. c \cap 1..j \subseteq c \cap 1..k /\ k \in c \cap 1..k /\ k \notin c \cap 1..j
      BY <2>2
  <2>4. IsFiniteSet(c \cap 1..k) /\ c \cap 1..j # c \cap 1..k
      BY <1>2, <2>3
  <2>5. Cardinality(c \cap 1..j) <= Cardinality(c \cap 1..k)
        /\ Cardinality(c \cap 1..j) # Cardinality(c \cap 1..k)
      BY <2>3, <2>4, FS_Subset
  <2>6. QED BY <1>2, <2>5
<1>4. Cardinality(c \cap 1..i) # 0
  <2>1. i \in c \cap 1..i
      OBVIOUS
  <2>2. QED BY <1>2, <2>1, FS_EmptySet
<1>5. \A j \in c : Cardinality(c \cap 1..j) = Cardinality(c \cap 1..i) => j = i
  <2>1. TAKE j \in c
  <2>2. j \in Nat /\ i \in Nat
      OBVIOUS
  <2>3. QED BY <1>2, <1>3, <2>2
<1>6. Nth(c, Cardinality(c \cap 1..i)) = i
    BY <1>5 DEF Nth
<1>7. QED BY <1>1, <1>2, <1>4, <1>6

\* The places c of a sequence of n + m are the places due of its first n and all
\* of the m behind them: how many there are up to each of them.
Ranked(due, c, n, m) ==
    /\ Cardinality(due) \in Nat
    /\ Cardinality(c) = Cardinality(due) + m
    /\ \A i \in due : c \cap 1..i = due \cap 1..i
    /\ \A k \in 1..m : Cardinality(c \cap 1..(n + k)) = Cardinality(due) + k

\* Where the chosen places of a sequence with an appended one come to stand,
\* when all of the appended places are chosen.
LEMMA PlacesOfTail ==
    ASSUME NEW n \in Nat, NEW m \in Nat, NEW due, due \subseteq 1..n,
           NEW c, c = due \cup (n + 1)..(n + m)
    PROVE  Ranked(due, c, n, m)
<1>1. IsFiniteSet(due) /\ Cardinality(due) \in Nat
  <2>1. IsFiniteSet(1..n)
      BY FS_Interval
  <2>2. QED BY <2>1, FS_Subset, FS_CardinalityType
<1>2. \A k \in Nat : Cardinality(due \cup (n + 1)..(n + k)) = Cardinality(due) + k
  <2>1. TAKE k \in Nat
  <2>2. PICK b : b = (n + 1)..(n + k)
      OBVIOUS
  <2>3. IsFiniteSet(b) /\ Cardinality(b) = k
    <3>1. n + 1 \in Int /\ n + k \in Int
        OBVIOUS
    <3>2. IsFiniteSet((n + 1)..(n + k))
          /\ Cardinality((n + 1)..(n + k)) = IF n + 1 > n + k THEN 0 ELSE (n + k) - (n + 1) + 1
        BY <3>1, FS_Interval
    <3>3. QED BY <2>2, <3>2
  <2>4. due \cap b = {}
      BY <2>2
  <2>5. Cardinality(due \cup b) = Cardinality(due) + Cardinality(b) - Cardinality(due \cap b)
      BY <1>1, <2>3, FS_Union
  <2>6. Cardinality(due \cap b) = 0
      BY <2>4, FS_EmptySet
  <2>7. Cardinality(due \cup b) = Cardinality(due) + k
      BY <1>1, <2>3, <2>5, <2>6
  <2>8. QED BY <2>2, <2>7
<1>3. Cardinality(c) = Cardinality(due) + m
    BY <1>2
<1>4. \A i \in due : c \cap 1..i = due \cap 1..i
  <2>1. TAKE i \in due
  <2>2. i \in 1..n
      OBVIOUS
  <2>3. \A j \in 1..i : j \notin (n + 1)..(n + m)
      BY <2>2
  <2>4. QED BY <2>3
<1>5. \A k \in 1..m : Cardinality(c \cap 1..(n + k)) = Cardinality(due) + k
  <2>1. TAKE k \in 1..m
  <2>2. c \cap 1..(n + k) = due \cup (n + 1)..(n + k)
    <3>1. \A j \in due : j \in 1..(n + k)
      <4>1. TAKE j \in due
      <4>2. j \in 1..n
          OBVIOUS
      <4>3. QED BY <4>2
    <3>2. \A j \in (n + 1)..(n + k) : j \in (n + 1)..(n + m) /\ j \in 1..(n + k)
        OBVIOUS
    <3>3. \A j \in (n + 1)..(n + m) : j \in 1..(n + k) => j \in (n + 1)..(n + k)
        OBVIOUS
    <3>4. QED BY <3>1, <3>2, <3>3
  <2>3. k \in Nat
      OBVIOUS
  <2>4. QED BY <1>2, <2>2, <2>3
<1>6. QED BY <1>1, <1>3, <1>4, <1>5 DEF Ranked

\* The plans s and the appended t, of which the places due of s and all of t
\* make up the selection a.
Selected(s, t, status, due, a) ==
    /\ due = {i \in DOMAIN s : s[i].when \in CommittedWhen(status)}
    /\ a = SelectCommitted(s \o t, status)
    /\ Cardinality(due) \in Nat /\ Len(a) = Cardinality(due) + Len(t)
    /\ \A i \in due : a[Cardinality(due \cap 1..i)] = s[i]
    /\ \A k \in 1..Len(t) : a[Cardinality(due) + k] = t[k]

\* What is selected of a sequence of plans and of what is appended to it, when
\* all of the appended plans are committed.
LEMMA Selects ==
    ASSUME NEW s \in Seq(Plan), NEW t \in Seq(Plan), NEW status,
           \A k \in DOMAIN t : t[k].when \in CommittedWhen(status)
    PROVE  \E due, a : Selected(s, t, status, due, a)
<1>1. PICK n \in Nat, m \in Nat : n = Len(s) /\ m = Len(t)
    OBVIOUS
<1>2. PICK u : u = s \o t
    OBVIOUS
<1>3. PICK due, a : /\ due = {i \in DOMAIN s : s[i].when \in CommittedWhen(status)}
                    /\ a = SelectCommitted(s \o t, status)
    OBVIOUS
<1>4. DOMAIN u = 1..(n + m) /\ (\A i \in 1..n : u[i] = s[i]) /\ \A k \in 1..m : u[n + k] = t[k]
    BY <1>1, <1>2
<1>5. PICK c : c = {i \in DOMAIN u : u[i].when \in CommittedWhen(status)}
    OBVIOUS
<1>6. c = due \cup (n + 1)..(n + m) /\ due \subseteq 1..n
  <2>1. \A j \in (n + 1)..(n + m) : j - n \in DOMAIN t /\ u[j] = t[j - n]
    <3>1. TAKE j \in (n + 1)..(n + m)
    <3>2. j - n \in 1..m /\ n + (j - n) = j
        OBVIOUS
    <3>3. DOMAIN t = 1..m
        BY <1>1
    <3>4. u[n + (j - n)] = t[j - n]
        BY <1>4, <3>2
    <3>5. QED BY <3>2, <3>3, <3>4
  <2>2. \A j \in (n + 1)..(n + m) : j \in c
      BY <1>4, <1>5, <2>1
  <2>3. \A i \in 1..n : i \in c <=> i \in due
      BY <1>1, <1>3, <1>4, <1>5
  <2>4. c \subseteq 1..(n + m) /\ due \subseteq 1..n
      BY <1>1, <1>3, <1>4, <1>5
  <2>5. \A j \in 1..(n + m) : j \in 1..n \/ j \in (n + 1)..(n + m)
      OBVIOUS
  <2>6. QED BY <2>2, <2>3, <2>4, <2>5
<1>7. Ranked(due, c, n, m)
    BY <1>6, PlacesOfTail
<1>8. a = [k \in 1..Cardinality(c) |-> u[Nth(c, k)]]
    BY <1>2, <1>3, <1>5 DEF SelectCommitted, Chosen
<1>9. \A j \in c : a[Cardinality(c \cap 1..j)] = u[j]
  <2>1. TAKE j \in c
  <2>2. c \subseteq 1..(n + m) /\ n + m \in Nat
      BY <1>4, <1>5
  <2>3. Cardinality(c \cap 1..j) \in 1..Cardinality(c) /\ Nth(c, Cardinality(c \cap 1..j)) = j
      BY <2>2, RankOf
  <2>4. QED BY <1>8, <2>3
<1>10. Len(a) = Cardinality(due) + m
    BY <1>7, <1>8 DEF Ranked
<1>11. \A i \in due : a[Cardinality(due \cap 1..i)] = s[i]
  <2>1. TAKE i \in due
  <2>2. i \in c /\ i \in 1..n
      BY <1>6
  <2>3. QED BY <1>4, <1>7, <1>9, <2>2 DEF Ranked
<1>12. \A k \in 1..m : a[Cardinality(due) + k] = t[k]
  <2>1. TAKE k \in 1..m
  <2>2. n + k \in c
      BY <1>6
  <2>3. QED BY <1>4, <1>7, <1>9, <2>2 DEF Ranked
<1>13. Selected(s, t, status, due, a)
    BY <1>1, <1>3, <1>7, <1>10, <1>11, <1>12 DEF Selected, Ranked
<1>14. QED BY <1>13

\* A run that failed or waits carries the plans meant for that end.
LEMMA CarriesDue ==
    ASSUME planned' \in Seq(Plan), NEW status \in {"failed", "waiting_approval"},
           result'.status = status, result'.actions = SelectCommitted(planned', status)
    PROVE  ResultCommitsPlans'
<1>1. <<>> \in Seq(Plan) /\ planned' \o <<>> = planned'
    OBVIOUS
<1>2. PICK s : s = planned'
    OBVIOUS
<1>3. PICK due, a : Selected(s, <<>>, status, due, a)
  <2>1. \A k \in DOMAIN <<>> : <<>>[k].when \in CommittedWhen(status)
      OBVIOUS
  <2>2. s \in Seq(Plan) /\ <<>> \in Seq(Plan)
      BY <1>1, <1>2
  <2>3. QED BY <2>1, <2>2, Selects
<1>4. a = result'.actions /\ Len(a) = Cardinality(due)
    BY <1>1, <1>2, <1>3 DEF Selected
<1>5. Due(status)' = due
    BY <1>2, <1>3 DEF Due, CommittedWhen, Selected
<1>6. \A i \in due : a[Cardinality(due \cap 1..i)] = planned'[i]
    BY <1>2, <1>3 DEF Selected
<1>7. QED BY <1>4, <1>5, <1>6 DEF ResultCommitsPlans

\* A completed run carries the plans meant for it, the reply, if no tool sent a
\* message, and the attachments that can be shown.
LEMMA CarriesCompleted ==
    ASSUME PlansOK, NEW text \in BOOLEAN, UNCHANGED <<planned, files>>, result' = Completed(text)
    PROVE  ResultCommitsPlans'
<1>1. PICK reply \in {<<>>, <<Reply>>} :
         /\ reply = IF text /\ ~ SuppressesDefaultReply(planned) THEN <<Reply>> ELSE <<>>
         /\ reply # <<>> => ~ SuppressesDefaultReply(planned)
    OBVIOUS
<1>2. PICK shown \in Nat : shown = Cardinality({i \in DOMAIN files : files[i] # "blank"})
  <2>1. IsFiniteSet(DOMAIN files)
    <3>1. PICK n \in Nat : DOMAIN files = 1..n
        BY DEF PlansOK
    <3>2. QED BY <3>1, FS_Interval
  <2>2. {i \in DOMAIN files : files[i] # "blank"} \subseteq DOMAIN files
      OBVIOUS
  <2>3. QED BY <2>1, <2>2, FS_Subset, FS_CardinalityType
<1>3. Reply \in Plan /\ AttachmentAction \in Plan
    BY DEF Reply, AttachmentAction, Plan, CommitWhen
<1>4. PICK replies \in {0, 1} :
         /\ Len(reply) = replies /\ reply \in Seq(Plan)
         /\ replies = 1 => reply = <<Reply>>
  <2>1. CASE reply = <<>>
      BY <2>1
  <2>2. CASE reply = <<Reply>>
      BY <1>3, <2>2
  <2>3. QED BY <2>1, <2>2
<1>5. PICK b \in Seq(Plan) :
         /\ b = AttachmentActions /\ Len(b) = shown
         /\ \A k \in 1..shown : b[k] = AttachmentAction
  <2>1. AttachmentActions = [k \in 1..shown |-> AttachmentAction]
      BY <1>2 DEF AttachmentActions
  <2>2. [k \in 1..shown |-> AttachmentAction] \in Seq(Plan)
        /\ Len([k \in 1..shown |-> AttachmentAction]) = shown
      BY <1>3
  <2>3. QED BY <2>1, <2>2
<1>6. PICK t \in Seq(Plan) :
         /\ t = reply \o b /\ Len(t) = replies + shown
         /\ replies = 1 => t[1] = Reply
         /\ \A k \in 1..shown : t[replies + k] = AttachmentAction
  <2>1. reply \o b \in Seq(Plan) /\ Len(reply \o b) = replies + shown
        /\ \A k \in 1..(replies + shown) : (reply \o b)[k]
              = IF k <= replies THEN reply[k] ELSE b[k - replies]
      BY <1>4, <1>5
  <2>2. replies = 1 => (reply \o b)[1] = Reply
      BY <1>4, <2>1
  <2>3. \A k \in 1..shown : (reply \o b)[replies + k] = AttachmentAction
    <3>1. TAKE k \in 1..shown
    <3>2. replies + k \in 1..(replies + shown) /\ ~(replies + k <= replies)
          /\ (replies + k) - replies = k
        OBVIOUS
    <3>3. QED BY <1>5, <2>1, <3>2
  <2>4. QED BY <2>1, <2>2, <2>3
<1>7. \A k \in DOMAIN t : t[k].when \in CommittedWhen("completed")
  <2>1. TAKE k \in DOMAIN t
  <2>2. t[k] \in {Reply, AttachmentAction}
    <3>1. k \in 1..(replies + shown)
        BY <1>6
    <3>2. CASE k <= replies
        BY <1>6, <3>1, <3>2
    <3>3. CASE ~(k <= replies)
      <4>1. k - replies \in 1..shown /\ replies + (k - replies) = k
          BY <3>1, <3>3
      <4>2. QED BY <1>6, <4>1
    <3>4. QED BY <3>2, <3>3
  <2>3. Reply.when = "success" /\ AttachmentAction.when = "success"
      BY DEF Reply, AttachmentAction
  <2>4. "success" \in CommittedWhen("completed")
      BY DEF CommittedWhen
  <2>5. QED BY <2>2, <2>3, <2>4
<1>8. PICK due, a : Selected(planned, t, "completed", due, a)
    BY <1>7, Selects DEF PlansOK
<1>9. /\ due = {i \in DOMAIN planned : planned[i].when \in CommittedWhen("completed")}
      /\ a = SelectCommitted(planned \o t, "completed")
      /\ Cardinality(due) \in Nat /\ Len(a) = Cardinality(due) + Len(t)
      /\ \A i \in due : a[Cardinality(due \cap 1..i)] = planned[i]
      /\ \A k \in 1..Len(t) : a[Cardinality(due) + k] = t[k]
    BY <1>8 DEF Selected
<1>10. a = result'.actions /\ result'.status = "completed"
    BY <1>1, <1>5, <1>6, <1>9 DEF Completed
<1>11. Due("completed")' = due
    BY <1>9 DEF Due, CommittedWhen
<1>12. Cardinality({i \in DOMAIN files' : files'[i] # "blank"}) = shown
    BY <1>2
<1>13. Len(a) - Cardinality(due) - shown = replies
    BY <1>6, <1>9
<1>14. replies = 1 => a[Cardinality(due) + 1] = Reply
  <2>1. replies = 1 => 1 \in 1..Len(t)
      BY <1>6
  <2>2. QED BY <1>6, <1>9, <2>1
<1>15. \A k \in 1..shown : a[Cardinality(due) + replies + k] = AttachmentAction
  <2>1. TAKE k \in 1..shown
  <2>2. replies + k \in 1..Len(t)
      BY <1>6
  <2>3. a[Cardinality(due) + (replies + k)] = AttachmentAction
      BY <1>6, <1>9, <2>2
  <2>4. QED BY <1>9, <2>3
<1>16. replies = 1 => ~ SuppressesDefaultReply(planned)'
  <2>1. reply = <<>> => replies = 0
      BY <1>4
  <2>2. QED BY <1>1, <2>1 DEF SuppressesDefaultReply
<1>17. \A i \in due : a[Cardinality(due \cap 1..i)] = planned'[i]
    BY <1>9
<1>18. QED
    BY <1>10, <1>11, <1>12, <1>13, <1>14, <1>15, <1>16, <1>17 DEF ResultCommitsPlans

LEMMA PlansStep ==
    ASSUME PlansOK, [Next]_vars
    PROVE  PlansOK'
<1> USE DEF PlansOK
\* A step that plans nothing and does not end the run.
<1>1. ASSUME UNCHANGED <<planned, files>>, at # "done", at' # "done", at' # "idle" \/ at = "idle"
      PROVE  PlansOK'
    BY <1>1 DEF ResultCommitsPlans
\* A run that raises or is cancelled carries nothing.
<1>2. ASSUME UNCHANGED <<planned, files>>, at' = "done",
             result'.status \in {"raised", "cancelled"}, result'.actions = <<>>
      PROVE  PlansOK'
    BY <1>2 DEF ResultCommitsPlans
\* A run that fails carries the plans for a failure.
<1>3. ASSUME planned' \in Seq(Plan), files' \in Seq(Attachment), at' = "done",
             result' = Failed(planned')
      PROVE  PlansOK'
    BY <1>3, CarriesDue DEF Failed
\* A call that is answered leads on, or to that failure.
<1>4. ASSUME planned' \in Seq(Plan), files' \in Seq(Attachment), NextCall
      PROVE  PlansOK'
  <2>1. \/ at' \in {"call", "llm"}
        \/ at' = "done" /\ result' = Failed(planned')
      BY <1>4 DEF NextCall, End
  <2>2. QED BY <1>3, <1>4, <2>1 DEF ResultCommitsPlans
<1>5. ASSUME NEW q \in Requests, Start(q) PROVE PlansOK'
  <2>1. at = "idle" /\ planned = <<>> /\ UNCHANGED <<planned, files>>
      BY <1>5 DEF Start
  <2>2. \/ at' = "llm"
        \/ at' = "done" /\ result' = Failed(<<>>)
        \/ at' = "done" /\ result' = Raised
      BY <1>5 DEF Start, End
  <2>3. QED BY <1>1, <1>2, <1>3, <2>1, <2>2 DEF Raised
<1>6. CASE LlmFails
    BY <1>3, <1>6 DEF LlmFails, End
<1>7. ASSUME NEW text \in BOOLEAN, LlmAnswers(text) PROVE PlansOK'
    BY <1>7, CarriesCompleted DEF LlmAnswers, End
<1>8. ASSUME NEW names \in Responses, LlmCalls(names) PROVE PlansOK'
  <2>1. at = "llm" /\ UNCHANGED <<planned, files>>
        /\ (at' = "call" \/ (at' = "done" /\ result' = Failed(planned)))
      BY <1>8 DEF LlmCalls, AppendCalls, End
  <2>2. QED BY <1>1, <1>3, <2>1
<1>9. CASE Execute
  <2>1. at = "call" /\ UNCHANGED <<planned, files>> /\ (at' = "policy" \/ NextCall)
      BY <1>9 DEF Execute
  <2>2. QED BY <1>1, <1>4, <2>1
<1>10. CASE Deny \/ HandlerFails
    BY <1>4, <1>10 DEF Deny, HandlerFails
<1>11. CASE RequireApproval
  <2>1. planned' = Append(planned, Prompt) /\ files' = files /\ at' = "done"
        /\ result'.status = "waiting_approval"
        /\ result'.actions = SelectCommitted(planned', "waiting_approval")
      BY <1>11 DEF RequireApproval, End, WaitingApproval
  <2>2. planned' \in Seq(Plan)
      BY <2>1 DEF Prompt, Plan, CommitWhen
  <2>3. QED BY <2>1, <2>2, CarriesDue
<1>12. CASE HandlerReturns
  <2>1. PICK out \in Outcomes(Head(todo).name) \ {None} :
          planned' = planned \o out.acts /\ files' = files \o out.files
      BY <1>12 DEF HandlerReturns
  <2>2. NextCall
      BY <1>12 DEF HandlerReturns
  <2>3. out.acts \in Seq(Plan) /\ out.files \in Seq(Attachment)
    <3>1. CASE out \in Results
        BY <3>1, AgentLoopAssumption
    <3>2. ASSUME NEW kind \in {"send", "react", "recall"}, out = Plans(kind)
          PROVE  out.acts \in Seq(Plan) /\ out.files \in Seq(Attachment)
      <4>1. PICK act \in Plan : act = [kind |-> kind, when |-> "success"]
          BY DEF Plan, CommitWhen
      <4>2. out.files = <<>> /\ out.acts = <<act>>
          BY <3>2, <4>1 DEF Plans
      <4>3. QED BY <4>2
    <3>3. out \in Results \/ \E kind \in {"send", "react", "recall"} : out = Plans(kind)
        BY DEF Outcomes, HandleMessage, HandleSend, HandleReact, HandleRecall, MessageArgs
    <3>4. QED BY <3>1, <3>2, <3>3
  <2>4. PICK acts \in Seq(Plan), shown \in Seq(Attachment) : acts = out.acts /\ shown = out.files
      BY <2>3
  <2>5. planned \o acts \in Seq(Plan) /\ files \o shown \in Seq(Attachment)
      OBVIOUS
  <2>6. QED BY <1>4, <2>1, <2>2, <2>4, <2>5
<1>13. CASE Allow
    BY <1>1, <1>13 DEF Allow
<1>14. CASE Cancel \/ CallRaises
    BY <1>2, <1>14 DEF Cancel, CallRaises, End, Raised
<1>15. CASE PluginLoads \/ PluginUnloads \/ CatalogReloads
    BY <1>1, <1>15 DEF PluginLoads, PluginUnloads, CatalogReloads
<1>16. CASE UNCHANGED vars
    BY <1>16 DEF vars, ResultCommitsPlans, Due, SuppressesDefaultReply
<1>17. QED
    BY <1>5, <1>6, <1>7, <1>8, <1>9, <1>10, <1>11, <1>12, <1>13, <1>14, <1>15, <1>16
       DEF Next, Progress

-----------------------------------------------------------------------------

LEMMA InitInv == Init => IInv
<1> SUFFICES ASSUME Init PROVE IInv
    OBVIOUS
<1>1. TypeOK
    BY DEF Init, TypeOK, Sources
<1>2. Transcript
    BY DEF Init, Transcript, Numbered, Position, Answered, NothingBetween, Answering
<1>3. Books /\ ResultMatchesCalls /\ BuiltinStays /\ LetIn
    BY DEF Init, Books, SettledTo, ResultMatchesCalls, BuiltinStays, LetIn, Names
<1>4. PlansOK
    BY DEF Init, PlansOK, ResultCommitsPlans
<1>5. QED BY <1>1, <1>2, <1>3, <1>4 DEF IInv

LEMMA InvStep == IInv /\ [Next]_vars => IInv'
<1> SUFFICES ASSUME IInv, [Next]_vars PROVE IInv'
    OBVIOUS
<1>1. TypeOK /\ Transcript /\ Books /\ BuiltinStays /\ AuditOK /\ Position
    BY DEF IInv, AuditOK, Transcript
<1>2. Transcript' /\ AuditOK' /\ audit' \in Seq(Record)
    BY <1>1, TranscriptStep, AuditStep
<1>3. tools' \in [Names -> Sources] /\ BuiltinStays'
    BY <1>1, RegistryStep
<1>4. /\ at' \in {"idle", "llm", "call", "policy", "handler", "done"}
      /\ msgs' \in Seq(Message) /\ rounds' \in Nat /\ todo' \in Seq(Call)
    BY <1>1, TranscriptTypeStep
<1>5. TypeOK'
    BY <1>2, <1>3, <1>4 DEF TypeOK
<1>6. PlansOK'
    BY PlansStep DEF IInv
<1>7. QED BY <1>2, <1>3, <1>5, <1>6 DEF IInv, AuditOK

LEMMA Invariance == Spec => []IInv
<1>1. Init => IInv
    BY InitInv
<1>2. IInv /\ [Next]_vars => IInv'
    BY InvStep
<1>3. QED BY <1>1, <1>2, PTL DEF Spec

\* The numbers of the rounds tell calls, and so their answers, apart.
LEMMA NothingTwice ==
    ASSUME TypeOK, Transcript
    PROVE  \A m, n \in DOMAIN msgs : msgs[m] = msgs[n] => m = n
<1> SUFFICES ASSUME NEW m \in DOMAIN msgs, NEW n \in DOMAIN msgs, msgs[m] = msgs[n]
             PROVE  m = n
    OBVIOUS
<1>1. CASE Asks(m)
    BY <1>1 DEF Transcript, Numbered, Asks, RoundOf
<1>2. CASE ~ Asks(m)
  <2>1. ~ Asks(n)
      BY <1>2 DEF Asks
  <2>2. PICK a \in 1..(m - 1) : Asks(a) /\ Answers(m, a)
      BY <1>2 DEF Transcript, Answered
  <2>3. PICK b \in 1..(n - 1) : Asks(b) /\ Answers(n, b)
      BY <2>1 DEF Transcript, Answered
  <2>4. a \in DOMAIN msgs /\ b \in DOMAIN msgs /\ m \in Nat /\ n \in Nat
      BY <2>2, <2>3 DEF TypeOK
  <2>5. m - a \in 1..Len(msgs[a].ids) /\ n - b \in 1..Len(msgs[b].ids)
      BY <2>2, <2>3, <2>4, MessageType DEF Answers
  <2>6. msgs[a].ids[m - a] = <<RoundOf(a), m - a>> /\ msgs[b].ids[n - b] = <<RoundOf(b), n - b>>
      BY <2>2, <2>3, <2>4, <2>5 DEF Transcript, Numbered
  <2>7. msgs[a].ids[m - a] = msgs[b].ids[n - b]
    <3>1. msgs[m].ids = <<msgs[a].ids[m - a]>>
        BY <2>2 DEF Answers
    <3>2. msgs[n].ids = <<msgs[b].ids[n - b]>>
        BY <2>3 DEF Answers
    <3>3. msgs[m].ids = msgs[n].ids
        OBVIOUS
    <3>4. <<msgs[a].ids[m - a]>>[1] = <<msgs[b].ids[n - b]>>[1]
        BY <3>1, <3>2, <3>3
    <3>5. QED BY <3>4
  <2>8. RoundOf(a) = RoundOf(b) /\ m - a = n - b
      BY <2>6, <2>7
  <2>9. a = b
      BY <2>2, <2>3, <2>4, <2>8 DEF Transcript, Numbered
  <2>10. QED BY <2>4, <2>8, <2>9
<1>3. QED BY <1>1, <1>2

\* The loop of completions keeps its books, whatever plugins, tools, rounds and
\* calls there are: every call is answered once, in order, before the model is
\* called again, and the result says which call was left open and commits what
\* the tools planned (LitellmAgent.run, ToolBroker.execute,
\* _select_committed_actions).
THEOREM CallsSettledTheorem == Spec => []CallsSettled
<1>1. IInv => CallsSettled
  <2>1. IInv => CallsAnswered
      BY NothingTwice
         DEF IInv, Transcript, Position, Answered, NothingBetween, Whole, CallsAnswered
  <2>2. QED BY <2>1 DEF IInv, PlansOK, CallsSettled
<1>2. QED BY Invariance, <1>1, PTL

\* A handler that ran is the builtin one for a builtin name, and the run was
\* configured for it, whatever plugins and catalogs did since the offer
\* (ToolBroker.execute, register_tool).
THEOREM HandlersPermittedTheorem == Spec => []HandlersPermitted
<1>1. IInv => HandlersPermitted
    BY DEF IInv, LetIn, Permitted, HandlersPermitted
<1>2. QED BY Invariance, <1>1, PTL
=============================================================================
