-------------------------------- MODULE PingCheck ------------------------------
(***************************************************************************)
(* One run of a ping check: PingCheck.Run (check/check_ping.go) over the   *)
(* pinger (check/pinger.go).  The pinger writes one echo request at a time *)
(* and then reads what the socket delivers, which may be anything: replies *)
(* to earlier requests, the same reply twice, packets of other pingers.    *)
(* The round-trip time is computed from the send time in the payload, so a *)
(* reply is reduced to the request it answers: whose it is, and its        *)
(* sequence number.  Every pinger draws its 16-bit ICMP ID at random, and  *)
(* two that ping the same target may draw the same one.  The identifier in *)
(* the payload, which would tell them apart, is decoded and compared with  *)
(* nothing, so it is not part of a reply.                                  *)
(***************************************************************************)
EXTENDS Integers, FiniteSets

CONSTANTS
  count,     \* number of requests of the run
  ID         \* the ICMP IDs that rand.Intn may return

ASSUME CountAssumption == count \in Nat \ {0}

VARIABLES
  ids,         \* the ICMP IDs that this pinger and another one of the same target have drawn
  run,         \* where Run is
  i,           \* the request that it is at
  packetConn,  \* "none", "open" or "closed"
  overall,     \* TRUE once the check's timeout has passed
  sent,        \* sequence numbers written so far
  read,        \* history: the replies that were accepted
  responses,   \* sequence number -> the reply in its slot, or NoReply
  pingErr,     \* TRUE once an error that is no timeout was latched
  result       \* the check's result: "none" before Run returns, "error" if it returns none

vars == <<ids, run, i, packetConn, overall, sent, read, responses, pingErr, result>>

Slot == 1 .. count
Owner == {"self", "other"}
NoReply == [owner |-> "none", seq |-> 0]

\* An echo reply as the code sees it; another pinger's requests may have any number.
Reply == [owner : Owner, seq : 0 .. (count + 1)]
IdOf(reply) == ids[reply.owner]

Result == [state : {"none", "error", "available", "unavailable"}, recv : 0 .. count]
NoResult(why) == [state |-> why, recv |-> 0]

Init ==
  /\ ids \in [Owner -> ID]
  /\ run = "start" /\ i = 1
  /\ packetConn = "none"
  /\ overall = FALSE
  /\ sent = {} /\ read = {}
  /\ responses = [s \in Slot |-> NoReply]
  /\ pingErr = FALSE
  /\ result = NoResult("none")

-----------------------------------------------------------------------------

\* GetTargetIP, the factory or the listener fails; a socket that NewPinger has opened
\* before the address cannot be resolved stays open.
CannotStart ==
  /\ run = "start"
  /\ run' = "done" /\ result' = NoResult("error")
  /\ packetConn' \in {"none", "open"}
  /\ UNCHANGED <<ids, i, overall, sent, read, responses, pingErr>>

NewPinger ==
  /\ run = "start"
  /\ run' = "loop" /\ packetConn' = "open"
  /\ UNCHANGED <<ids, i, overall, sent, read, responses, pingErr, result>>

OverallTimeout ==
  /\ run \in {"loop", "receiving"} /\ ~overall
  /\ overall' = TRUE
  /\ UNCHANGED <<ids, run, i, packetConn, sent, read, responses, pingErr, result>>

\* Ping returns and the loop goes on with the next request.
NextRequest == run' = "loop" /\ i' = i + 1

\* The overall timeout is looked at before each request only.
WriteRequest ==
  /\ run = "loop" /\ i <= count /\ ~overall
  /\ packetConn = "open"
  /\ sent' = sent \cup {i}
  /\ run' = "receiving"
  /\ UNCHANGED <<ids, i, packetConn, overall, read, responses, pingErr, result>>

\* The write fails, by its deadline or, always on a closed socket, with an error.
WriteFails ==
  /\ run = "loop" /\ i <= count /\ ~overall
  /\ NextRequest
  /\ pingErr' \in IF packetConn = "closed" THEN {TRUE} ELSE {pingErr, TRUE}
  /\ UNCHANGED <<ids, packetConn, overall, sent, read, responses, result>>

-----------------------------------------------------------------------------
(***************************************************************************)
(* receive.                                                                *)
(***************************************************************************)

IsOurs(reply) == IdOf(reply) = ids["self"]

\* Mutant: a reply is booked on the request that was waiting for one.
SaveInOrder(reply) == responses' = [responses EXCEPT ![i] = reply]

\* A number that is out of range and a second reply with the same number are dropped.
Save(reply) ==
  responses' = IF reply.seq \in Slot /\ responses[reply.seq] = NoReply
               THEN [responses EXCEPT ![reply.seq] = reply] ELSE responses

\* A reply that is ours ends Ping, even if it answers an earlier request.
ReadReply(reply) ==
  /\ run = "receiving" /\ packetConn = "open"
  /\ reply.owner = "self" => reply.seq \in sent
  /\ IsOurs(reply)
  /\ Save(reply)
  /\ read' = read \cup {reply}
  /\ NextRequest
  /\ UNCHANGED <<ids, packetConn, overall, sent, pingErr, result>>

\* Mutant: the deadline is set again for each packet, and there is always another one.
ReadDeadlineMoves == run = "receiving" /\ UNCHANGED vars

\* Whatever else is read (another address, an ID that is not ours, a message that cannot
\* be decoded, destination unreachable) leaves the deadline where it is.
ReadDeadline ==
  /\ run = "receiving"
  /\ NextRequest
  /\ UNCHANGED <<ids, packetConn, overall, sent, read, responses, pingErr, result>>

\* A read error closes the socket; an error in setting the deadline does not.
ReadFails ==
  /\ run = "receiving"
  /\ NextRequest
  /\ pingErr' = TRUE
  /\ packetConn' \in {"open", "closed"}
  /\ UNCHANGED <<ids, overall, sent, read, responses, result>>

-----------------------------------------------------------------------------

\* Mutant: a missing last reply ends the count.
ReceivedUntilGap == {s \in Slot : \A t \in 1 .. s : responses[t] # NoReply}

Received == {s \in Slot : responses[s] # NoReply}

\* All requests were made, or the check's timeout cut the run short.
Finish ==
  /\ run = "loop" /\ (i > count \/ overall)
  /\ run' = "done"
  /\ packetConn' = "closed"
  /\ result' = [state |-> IF ~pingErr /\ Received # {} THEN "available" ELSE "unavailable",
                recv |-> Cardinality(Received)]
  /\ UNCHANGED <<ids, i, overall, sent, read, responses, pingErr>>

Next ==
  \/ CannotStart \/ NewPinger
  \/ OverallTimeout
  \/ WriteRequest \/ WriteFails
  \/ \E reply \in Reply : ReadReply(reply)
  \/ ReadDeadline \/ ReadFails
  \/ Finish

Spec == Init /\ [][Next]_vars

\* Run goes on, and a deadline passes: nothing is owed by the network.
FairSpec ==
  /\ Spec
  /\ WF_vars(NewPinger \/ CannotStart) /\ WF_vars(WriteRequest \/ WriteFails)
  /\ WF_vars(ReadDeadline) /\ WF_vars(Finish)

-----------------------------------------------------------------------------
(***************************************************************************)
(* Properties.                                                             *)
(***************************************************************************)

\* Every variable holds a value of its type, and only the first i requests were written.
TypeOK ==
  /\ ids \in [Owner -> ID]
  /\ run \in {"start", "loop", "receiving", "done"}
  /\ i \in 1 .. (count + 1) /\ (run = "receiving" => i \in sent)
  /\ packetConn \in {"none", "open", "closed"}
  /\ overall \in BOOLEAN /\ pingErr \in BOOLEAN
  /\ sent \subseteq 1 .. i /\ sent \subseteq Slot
  /\ read \subseteq Reply
  /\ responses \in [Slot -> Reply \cup {NoReply}]
  /\ result \in Result

\* Another pinger of the target has drawn this one's ID.
SharedId == ids["other"] = ids["self"]

\* The slot of a request holds an answer with the number of this very request, although
\* answers come late, out of order and repeatedly.  Whose answer it is depends on the
\* drawn IDs: while they differ, it answers a request that this run has sent; once they
\* are equal, it may be the other pinger's, and may even come before the request, because
\* receive does not compare the identifier of the payload.
SlotIsItsOwn ==
  \A s \in Received :
    /\ responses[s].seq = s
    /\ responses[s].owner = "self" => s \in sent
    /\ responses[s].owner = "other" => SharedId

\* The requests that answers of one owner, and of any, were accepted for.
AnsweredBy(owner) == {s \in Slot : [owner |-> owner, seq |-> s] \in read}
Answered == AnsweredBy("self") \cup AnsweredBy("other")

\* The result counts each request that was answered once: an answer that came late, while
\* a later request was waiting, is not lost, and one that came twice is not counted twice.
\* Unless the other pinger has the same ID, they are answers to this run's own requests.
CountsEveryAnswer ==
  result.state \in {"available", "unavailable"} =>
    /\ result.recv = Cardinality(Answered)
    /\ Answered = AnsweredBy("self") \/ SharedId

\* The run ends, however many packets of others arrive.
RunEnds == <>(run = "done")

=============================================================================
