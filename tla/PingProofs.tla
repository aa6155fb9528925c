------------------------------- MODULE PingProofs ------------------------------
(***************************************************************************)
(* Theorems about PingCheck, for any number of requests and whatever IDs   *)
(* the pingers of a target have drawn, equal ones included.                *)
(***************************************************************************)
EXTENDS PingCheck, FiniteSetTheorems, TLAPS

\* Slots and accepted answers correspond.
Booked == Answered = Received

\* An answer is accepted from this run's own target, or from one with the same ID.
AcceptedIsOurs == \A r \in read : r.owner = "self" \/ SharedId

\* There is no result before Run returns, so that nothing is booked after it was made.
Unfinished == run # "done" => result.state = "none"

IInv == TypeOK /\ SlotIsItsOwn /\ Booked /\ AcceptedIsOurs /\ Unfinished /\ CountsEveryAnswer

USE CountAssumption

\* The number of occupied slots, which Finish reports, is at most the number of requests.
LEMMA ReceivedBounded == Cardinality(Received) \in 0 .. count
<1>1. IsFiniteSet(Slot) /\ Cardinality(Slot) = count
  BY FS_Interval DEF Slot
<1>2. Received \subseteq Slot
  BY DEF Received
<1>3. IsFiniteSet(Received) /\ Cardinality(Received) <= Cardinality(Slot)
  BY <1>1, <1>2, FS_Subset
<1>4. Cardinality(Received) \in Nat
  BY <1>3, FS_CardinalityType
<1> QED
  BY <1>1, <1>3, <1>4

\* Before the first request no slot is occupied and nothing was counted.
LEMMA InitInv == Init => IInv
<1> SUFFICES ASSUME Init PROVE IInv
  OBVIOUS
<1>1. TypeOK
  <2>1. overall \in BOOLEAN /\ pingErr \in BOOLEAN
    BY Zenon DEF Init
  <2>2. responses \in [Slot -> Reply \cup {NoReply}]
    BY DEF Init
  <2>3. result \in Result
    BY DEF Init, Result, NoResult
  <2> QED
    BY <2>1, <2>2, <2>3 DEF Init, TypeOK
<1>2. Received = {}
  BY DEF Init, Received, Slot, NoReply
<1> QED
  BY <1>1, <1>2 DEF Init, IInv, SlotIsItsOwn, Booked, AcceptedIsOurs, Answered, AnsweredBy, Unfinished,
                   CountsEveryAnswer, NoResult

\* Save, on an answer that is accepted, occupies the slot of its number and no other.
LEMMA SaveBooks ==
  ASSUME TypeOK, SlotIsItsOwn, NEW reply \in Reply, IsOurs(reply), Save(reply), sent' = sent, ids' = ids,
         reply.owner = "self" => reply.seq \in sent
  PROVE  /\ responses' \in [Slot -> Reply \cup {NoReply}]
         /\ Received' = Received \cup ({reply.seq} \cap Slot)
         /\ SlotIsItsOwn'
<1>1. reply # NoReply /\ reply.owner \in Owner
  BY DEF Reply, NoReply, Owner
<1>2. reply.owner = "other" => SharedId
  BY DEF IsOurs, IdOf, SharedId
<1>3. CASE reply.seq \in Slot /\ responses[reply.seq] = NoReply
  <2>1. responses' = [responses EXCEPT ![reply.seq] = reply]
    BY <1>3 DEF Save
  <2>2. responses' \in [Slot -> Reply \cup {NoReply}]
    BY <2>1 DEF TypeOK
  <2>3. Received' = Received \cup {reply.seq}
    BY <1>1, <1>3, <2>1 DEF TypeOK, Received
  <2>4. SlotIsItsOwn'
    BY <1>2, <1>3, <2>1, <2>3 DEF SlotIsItsOwn, TypeOK, Received, SharedId
  <2> QED
    BY <1>3, <2>2, <2>3, <2>4
<1>4. CASE ~(reply.seq \in Slot /\ responses[reply.seq] = NoReply)
  <2>1. responses' = responses
    BY <1>4 DEF Save
  <2>2. Received' = Received /\ {reply.seq} \cap Slot \subseteq Received
    BY <1>4, <2>1 DEF Received
  <2>3. SlotIsItsOwn'
    BY <2>1, <2>2 DEF SlotIsItsOwn, SharedId
  <2> QED
    BY <2>1, <2>2, <2>3 DEF TypeOK
<1> QED
  BY <1>3, <1>4

\* An accepted answer is booked in the history as well.
LEMMA ReadBooks ==
  ASSUME NEW reply \in Reply, read' = read \cup {reply}
  PROVE  Answered' = Answered \cup ({reply.seq} \cap Slot)
<1>1. reply.owner \in {"self", "other"} /\ reply = [owner |-> reply.owner, seq |-> reply.seq]
  BY DEF Reply, Owner
<1>2. \A s \in Slot, o \in {"self", "other"} :
        [owner |-> o, seq |-> s] \in read' <=>
          [owner |-> o, seq |-> s] \in read \/ (reply.owner = o /\ reply.seq = s)
  BY <1>1
<1> QED
  BY <1>1, <1>2 DEF Answered, AnsweredBy

\* What the slots and the history say is not touched by a step that leaves both alone.
LEMMA OthersKeep ==
  ASSUME IInv, UNCHANGED <<ids, read, responses>>, sent \subseteq sent'
  PROVE  SlotIsItsOwn' /\ Booked' /\ AcceptedIsOurs'
  BY DEF IInv, SlotIsItsOwn, Booked, AcceptedIsOurs, Received, Answered, AnsweredBy, SharedId

\* The result that is there stays right while the history does.
LEMMA ResultKeeps ==
  ASSUME CountsEveryAnswer, UNCHANGED <<ids, read, result>>
  PROVE  CountsEveryAnswer'
  BY DEF CountsEveryAnswer, Answered, AnsweredBy, SharedId

\* Every step preserves the invariant.
LEMMA NextInv == IInv /\ [Next]_vars => IInv'
<1> SUFFICES ASSUME IInv, [Next]_vars PROVE IInv'
  OBVIOUS
<1>0. TypeOK /\ SlotIsItsOwn /\ Booked /\ AcceptedIsOurs /\ Unfinished /\ CountsEveryAnswer
  BY DEF IInv
<1>1. CASE CannotStart
  <2>1. TypeOK'
    BY <1>0, <1>1 DEF CannotStart, TypeOK, Result, NoResult
  <2>2. SlotIsItsOwn' /\ Booked' /\ AcceptedIsOurs'
    BY <1>1, OthersKeep DEF CannotStart
  <2>3. Unfinished' /\ CountsEveryAnswer'
    BY <1>1 DEF CannotStart, Unfinished, CountsEveryAnswer, NoResult
  <2> QED
    BY <2>1, <2>2, <2>3 DEF IInv
<1>2. CASE NewPinger
  <2>1. TypeOK'
    BY <1>0, <1>2 DEF NewPinger, TypeOK
  <2>2. SlotIsItsOwn' /\ Booked' /\ AcceptedIsOurs' /\ CountsEveryAnswer'
    BY <1>0, <1>2, OthersKeep, ResultKeeps DEF NewPinger
  <2> QED
    BY <1>0, <1>2, <2>1, <2>2 DEF NewPinger, Unfinished, IInv
<1>3. CASE OverallTimeout
  <2>1. TypeOK'
    BY <1>0, <1>3 DEF OverallTimeout, TypeOK
  <2>2. SlotIsItsOwn' /\ Booked' /\ AcceptedIsOurs' /\ CountsEveryAnswer'
    BY <1>0, <1>3, OthersKeep, ResultKeeps DEF OverallTimeout
  <2> QED
    BY <1>0, <1>3, <2>1, <2>2 DEF OverallTimeout, Unfinished, IInv
<1>4. CASE WriteRequest
  <2>1. TypeOK'
    BY <1>0, <1>4 DEF WriteRequest, TypeOK, Slot
  <2>2. SlotIsItsOwn' /\ Booked' /\ AcceptedIsOurs' /\ CountsEveryAnswer'
    BY <1>0, <1>4, OthersKeep, ResultKeeps DEF WriteRequest
  <2> QED
    BY <1>0, <1>4, <2>1, <2>2 DEF WriteRequest, Unfinished, IInv
<1>5. CASE WriteFails
  <2>1. TypeOK'
    <3>1. pingErr' \in BOOLEAN
      BY <1>0, <1>5, Zenon DEF WriteFails, TypeOK
    <3> QED
      BY <1>0, <1>5, <3>1 DEF WriteFails, NextRequest, TypeOK, Slot
  <2>2. SlotIsItsOwn' /\ Booked' /\ AcceptedIsOurs' /\ CountsEveryAnswer'
    BY <1>0, <1>5, OthersKeep, ResultKeeps DEF WriteFails
  <2> QED
    BY <1>0, <1>5, <2>1, <2>2 DEF WriteFails, NextRequest, Unfinished, IInv
<1>6. CASE \E reply \in Reply : ReadReply(reply)
  <2>1. PICK reply \in Reply : ReadReply(reply)
    BY <1>6
  <2>2. /\ IsOurs(reply) /\ Save(reply) /\ read' = read \cup {reply}
        /\ reply.owner = "self" => reply.seq \in sent
        /\ UNCHANGED <<ids, sent, result, packetConn, overall, pingErr>>
        /\ run = "receiving" /\ run' = "loop" /\ i' = i + 1
    BY <2>1 DEF ReadReply, NextRequest
  <2>3. /\ responses' \in [Slot -> Reply \cup {NoReply}]
        /\ Received' = Received \cup ({reply.seq} \cap Slot)
        /\ SlotIsItsOwn'
    BY <1>0, <2>2, SaveBooks
  <2>4. Booked'
    BY <1>0, <2>2, <2>3, ReadBooks DEF Booked
  <2>5. AcceptedIsOurs'
    BY <1>0, <2>2 DEF AcceptedIsOurs, IsOurs, IdOf, SharedId, Reply, Owner
  <2>6. TypeOK'
    <3>1. i \in Slot /\ sent \subseteq 1 .. i
      BY <1>0, <2>2 DEF TypeOK
    <3>2. i' \in 1 .. (count + 1) /\ 1 .. i \subseteq 1 .. i'
      BY <2>2, <3>1 DEF Slot
    <3>3. read' \subseteq Reply
      BY <1>0, <2>2 DEF TypeOK
    <3>4. sent' \subseteq 1 .. i'
      BY <2>2, <3>1, <3>2
    <3> QED
      BY <1>0, <2>2, <2>3, <3>2, <3>3, <3>4 DEF TypeOK
  <2>7. Unfinished' /\ CountsEveryAnswer'
    BY <1>0, <2>2 DEF CountsEveryAnswer, Unfinished
  <2> QED
    BY <2>3, <2>4, <2>5, <2>6, <2>7 DEF IInv
<1>7. CASE ReadDeadline
  <2>1. TypeOK'
    BY <1>0, <1>7 DEF ReadDeadline, NextRequest, TypeOK, Slot
  <2>2. SlotIsItsOwn' /\ Booked' /\ AcceptedIsOurs' /\ CountsEveryAnswer'
    BY <1>0, <1>7, OthersKeep, ResultKeeps DEF ReadDeadline
  <2> QED
    BY <1>0, <1>7, <2>1, <2>2 DEF ReadDeadline, NextRequest, Unfinished, IInv
<1>8. CASE ReadFails
  <2>1. TypeOK'
    BY <1>0, <1>8 DEF ReadFails, NextRequest, TypeOK, Slot
  <2>2. SlotIsItsOwn' /\ Booked' /\ AcceptedIsOurs' /\ CountsEveryAnswer'
    BY <1>0, <1>8, OthersKeep, ResultKeeps DEF ReadFails
  <2> QED
    BY <1>0, <1>8, <2>1, <2>2 DEF ReadFails, NextRequest, Unfinished, IInv
<1>9. CASE Finish
  <2>1. TypeOK'
    BY <1>0, <1>9, ReceivedBounded DEF Finish, TypeOK, Result
  <2>2. SlotIsItsOwn' /\ Booked' /\ AcceptedIsOurs'
    BY <1>9, OthersKeep DEF Finish
  <2>3. Answered' = Answered /\ result'.recv = Cardinality(Answered)
    BY <1>0, <1>9 DEF Finish, Booked, Answered, AnsweredBy
  <2>4. Answered = AnsweredBy("self") \/ SharedId
    BY <1>0 DEF AcceptedIsOurs, Answered, AnsweredBy
  <2>5. Unfinished' /\ CountsEveryAnswer'
    BY <1>9, <2>3, <2>4 DEF Finish, Unfinished, CountsEveryAnswer, AnsweredBy, SharedId
  <2> QED
    BY <2>1, <2>2, <2>5 DEF IInv
<1>10. CASE UNCHANGED vars
  <2>1. TypeOK' /\ Unfinished'
    BY <1>0, <1>10 DEF vars, TypeOK, Unfinished
  <2>2. SlotIsItsOwn' /\ Booked' /\ AcceptedIsOurs' /\ CountsEveryAnswer'
    BY <1>0, <1>10, OthersKeep, ResultKeeps DEF vars
  <2> QED
    BY <2>1, <2>2 DEF IInv
<1> QED
  BY <1>1, <1>2, <1>3, <1>4, <1>5, <1>6, <1>7, <1>8, <1>9, <1>10 DEF Next

\* The invariant in every reachable state.
LEMMA Invariance == Spec => []IInv
  BY InitInv, NextInv, PTL DEF Spec

\* The slot of a request holds an answer with its number, and one of this run's own unless
\* the other pinger has drawn the same ID, for any number of requests and any order, delay
\* and repetition of the answers (pinger.go, receive).
THEOREM PingSlotIsItsOwn == Spec => []SlotIsItsOwn
<1>1. IInv => SlotIsItsOwn
  BY DEF IInv
<1> QED
  BY <1>1, Invariance, PTL

\* The result of a run counts each answered request once, whatever the IDs (check_ping.go,
\* Run).
THEOREM PingCountsEveryAnswer == Spec => []CountsEveryAnswer
<1>1. IInv => CountsEveryAnswer
  BY DEF IInv
<1> QED
  BY <1>1, Invariance, PTL

=============================================================================
