------------------------ MODULE WfsConcurrentClient ------------------------
(***************************************************************************)
(* WfsIfaceConcurrentClient (gen-cpp/WfsIface.cpp): threads that share one *)
(* connection and are answered out of order.  A call sends under a write   *)
(* mutex (TConcurrentSendSentry) and receives under a read mutex           *)
(* (TConcurrentRecvSentry).  Whoever has the read mutex reads the header   *)
(* of the next message; if it is for another call, he leaves it to that    *)
(* call, whose body is then next in the stream, and waits.                 *)
(*                                                                         *)
(* The code of the seven methods is the same but for the names in it, so   *)
(* one call stands for a call of any of them.  Each call is made by a      *)
(* thread of its own: a thread that makes two is the case in which the     *)
(* second begins when the first has returned.                              *)
(*                                                                         *)
(* TConcurrentClientSyncInfo (the mutexes, one monitor for each call, the  *)
(* header that was left) belongs to Thrift: its operations are external    *)
(* and modelled as the stub uses them.  A monitor shares the read mutex;   *)
(* to wait on it releases the mutex.  A sentry that is destroyed without a *)
(* commit marks the connection bad.                                        *)
(***************************************************************************)
EXTENDS Naturals, Sequences

CONSTANTS
  MaxId,        \* bound: calls made over the connection, numbered from 1
  Kinds,        \* the messages a peer may send
  MaxRepeats,   \* bound: replies beyond the first to a request
  MaxSpurious   \* bound: wake-ups of a monitor that nobody notified

ASSUME IdsAssumption == MaxId \in Nat
ASSUME KindsAssumption ==
  Kinds \subseteq {"reply", "lacking", "broken", "exception", "othername",
                   "othertype"}
ASSUME FaultBoundsAssumption == MaxRepeats \in Nat /\ MaxSpurious \in Nat

Ids == 1 .. MaxId
Nobody == 0
None == [id |-> 0, kind |-> "none"]

(* A message: the sequence id in its header and what it is.  A reply is    *)
(* whole, lacks the success field or cannot be read to its end, which its  *)
(* header does not tell; an exception, another method's name and a type    *)
(* that is neither are in the header.                                      *)
Messages == [id : Ids, kind : Kinds]
Answers == {a \in Messages : a.kind \in {"reply", "exception"}}
(* The halves of a request, so that two can be mixed up on the wire. *)
Parts == [id : Ids, part : {"head", "tail"}]

VARIABLES
  pc,          \* where the thread of each call is in send_X or recv_X
  header,      \* fname, mtype, rseqid: the header it has in its hands
  returned,    \* the message whose body a call has returned, or None
  reader,      \* the call that holds the read mutex
  writer,      \* the call that holds the write mutex
  nextseqid,   \* the next sequence id
  monitors,    \* the ids that have a monitor
  pending,     \* the header left for the call it belongs to, or None
  wakeup,      \* wakeupSomeone_
  stop,        \* stop_: the connection is bad
  out,         \* halves on the wire that are no whole request for a server
  asked,       \* ids of the requests that are
  said,        \* the first message the server sent for each
  inbox,       \* the stream of messages to the client
  headRead,    \* the header of the first of them has been read
  desync,      \* the stream is no longer at the start of a message or a body
  repeats, spurious

syncVars == <<reader, writer, nextseqid, monitors, pending, wakeup, stop>>
netVars  == <<out, asked, said, inbox, headRead, desync, repeats>>
callVars == <<header, returned>>
vars == <<pc, syncVars, netVars, callVars, spurious>>

InSend == {"send", "write", "flush"}
Reading == {"get", "read", "match", "check", "wait"}   \* holds the read mutex
InRecv == Reading \cup {"recv", "waiting", "woken"}
Places == InSend \cup InRecv \cup {"unborn", "over"}

TypeOK ==
  /\ pc \in [Ids -> Places]
  /\ header \in [Ids -> Messages \cup {None}]
  /\ returned \in [Ids -> Answers \cup {None}]
  /\ reader \in Ids \cup {Nobody} /\ writer \in Ids \cup {Nobody}
  /\ nextseqid \in 1 .. MaxId + 1 /\ monitors \subseteq Ids
  /\ pending \in Messages \cup {None}
  /\ wakeup \in BOOLEAN /\ stop \in BOOLEAN
  /\ out \in Seq(Parts) /\ inbox \in Seq(Messages)
  /\ asked \subseteq Ids
  /\ said \in [Ids -> Messages \cup {None}]
  /\ headRead \in BOOLEAN /\ desync \in BOOLEAN
  /\ repeats \in 0 .. MaxRepeats /\ spurious \in 0 .. MaxSpurious

Init ==
  /\ pc = [i \in Ids |-> "unborn"]
  /\ header = [i \in Ids |-> None] /\ returned = [i \in Ids |-> None]
  /\ reader = Nobody /\ writer = Nobody
  /\ nextseqid = 1 /\ monitors = {} /\ pending = None
  /\ wakeup = FALSE /\ stop = FALSE
  /\ out = <<>> /\ inbox = <<>> /\ headRead = FALSE /\ desync = FALSE
  /\ asked = {} /\ said = [i \in Ids |-> None]
  /\ repeats = 0 /\ spurious = 0

-----------------------------------------------------------------------------
(***************************************************************************)
(* TConcurrentClientSyncInfo                                               *)
(***************************************************************************)

(* Call i goes on to p; who waits on a monitor of one of ids is notified. *)
MoveAndNotify(i, p, ids) ==
  pc' = [j \in Ids |->
           IF j = i THEN p
           ELSE IF pc[j] = "waiting" /\ j \in ids THEN "woken"
           ELSE pc[j]]
MoveTo(i, p) == MoveAndNotify(i, p, {})

(* Mutant of WakeupAnyone: the flag is set and nobody is notified. *)
WakeupNobody(i, ids) ==
  wakeup' = TRUE /\ UNCHANGED stop /\ MoveTo(i, "over")
(* wakeupAnyone_: the call that was made last is the one to look. *)
WakeupAnyone(i, ids) ==
  /\ wakeup' = TRUE /\ UNCHANGED stop
  /\ \/ ids = {} /\ MoveTo(i, "over")
     \/ \E last \in ids : /\ \A j \in ids : j <= last
                          /\ MoveAndNotify(i, "over", {last})

MarkBad(i, ids) ==
  /\ wakeup' = TRUE /\ stop' = TRUE
  /\ MoveAndNotify(i, "over", ids)

(* generateSeqId: a number and a monitor for the call.  On a connection    *)
(* that is bad it throws, and nothing has changed.  Thrift's numbers begin *)
(* close to where they wrap around; these are distinct as well.            *)
GenerateSeqId(i) ==
  /\ pc[i] = "unborn" /\ i = nextseqid /\ ~stop
  /\ nextseqid' = nextseqid + 1 /\ monitors' = monitors \cup {i}
  /\ MoveTo(i, "send")
  /\ UNCHANGED <<callVars, reader, writer, pending, wakeup, stop, netVars,
                 spurious>>

(* The sentry of recv_X is destroyed, with or without a commit.            *)
Leave(i, committed) ==
  /\ header' = [header EXCEPT ![i] = None]
  /\ monitors' = monitors \ {i}
  /\ IF committed THEN WakeupAnyone(i, monitors') ELSE MarkBad(i, monitors')
  /\ reader' = Nobody
  /\ UNCHANGED <<writer, nextseqid, spurious>>

-----------------------------------------------------------------------------
(***************************************************************************)
(* send_X                                                                  *)
(***************************************************************************)

(* Mutant of SendSentry: it does not wait for the mutex. *)
SendSentryAtOnce(i) ==
  /\ pc[i] = "send"
  /\ writer' = i /\ MoveTo(i, "write")
  /\ UNCHANGED <<reader, nextseqid, monitors, pending, wakeup, stop, netVars,
                 callVars, spurious>>
SendSentry(i) ==
  /\ pc[i] = "send" /\ writer = Nobody
  /\ writer' = i /\ MoveTo(i, "write")
  /\ UNCHANGED <<reader, nextseqid, monitors, pending, wakeup, stop, netVars,
                 callVars, spurious>>

Part(i, p) == [id |-> i, part |-> p]

WriteMessageBegin(i) ==
  /\ pc[i] = "write"
  /\ out' = Append(out, Part(i, "head")) /\ MoveTo(i, "flush")
  /\ UNCHANGED <<syncVars, asked, said, inbox, headRead, desync, repeats,
                 callVars, spurious>>

(* The rest of the request, flush, and the sentry's commit.  The server has*)
(* a request when there is nothing else on the wire before it or within it.*)
Flush(i) ==
  /\ pc[i] = "flush"
  /\ IF out = <<Part(i, "head")>>
     THEN out' = <<>> /\ asked' = asked \cup {i}
     ELSE out' = Append(out, Part(i, "tail")) /\ UNCHANGED asked
  /\ MoveTo(i, "recv") /\ writer' = Nobody
  /\ UNCHANGED <<reader, nextseqid, monitors, pending, wakeup, stop, said,
                 inbox, headRead, desync, repeats, callVars, spurious>>

(* A write throws.  The sentry marks the connection bad, without the read  *)
(* mutex; the call keeps its monitor for ever.                             *)
SendThrows(i) ==
  /\ pc[i] \in {"write", "flush"}
  /\ MarkBad(i, monitors) /\ writer' = Nobody
  /\ UNCHANGED <<reader, nextseqid, monitors, pending, netVars, callVars,
                 spurious>>

Send(i) ==
  SendSentry(i) \/ WriteMessageBegin(i) \/ Flush(i) \/ SendThrows(i)

-----------------------------------------------------------------------------
(***************************************************************************)
(* recv_X                                                                  *)
(***************************************************************************)

RecvSentry(i) ==
  /\ pc[i] = "recv" /\ reader = Nobody
  /\ reader' = i /\ MoveTo(i, "get")
  /\ UNCHANGED <<writer, nextseqid, monitors, pending, wakeup, stop, netVars,
                 callVars, spurious>>

(* Mutant of GetPending: recvPending_ stays set. *)
GetPendingAndKeep(i) ==
  /\ pc[i] = "get" /\ ~stop
  /\ wakeup' = FALSE
  /\ IF pending # None
     THEN header' = [header EXCEPT ![i] = pending] /\ MoveTo(i, "match")
     ELSE UNCHANGED header /\ MoveTo(i, "read")
  /\ UNCHANGED <<reader, writer, nextseqid, monitors, pending, stop, netVars,
                 returned, spurious>>
(* Mutant of GetPending: wakeupSomeone_ stays set. *)
GetPendingStillWoken(i) ==
  /\ pc[i] = "get" /\ ~stop
  /\ UNCHANGED wakeup
  /\ IF pending # None
     THEN /\ header' = [header EXCEPT ![i] = pending] /\ pending' = None
          /\ MoveTo(i, "match")
     ELSE UNCHANGED <<header, pending>> /\ MoveTo(i, "read")
  /\ UNCHANGED <<reader, writer, nextseqid, monitors, stop, netVars,
                 returned, spurious>>
(* A header that was left is taken up by whoever comes first, and it may   *)
(* not be for him.                                                         *)
GetPending(i) ==
  /\ pc[i] = "get" /\ ~stop
  /\ wakeup' = FALSE
  /\ IF pending # None
     THEN /\ header' = [header EXCEPT ![i] = pending] /\ pending' = None
          /\ MoveTo(i, "match")
     ELSE UNCHANGED <<header, pending>> /\ MoveTo(i, "read")
  /\ UNCHANGED <<reader, writer, nextseqid, monitors, stop, netVars,
                 returned, spurious>>

(* stop_ is set: getPending or waitForWork throws. *)
DeadConnection(i) ==
  /\ pc[i] \in {"get", "check"} /\ stop
  /\ Leave(i, FALSE)
  /\ UNCHANGED <<pending, netVars, returned>>

ReadMessageBegin(i) ==
  /\ pc[i] = "read" /\ inbox # <<>> /\ ~headRead /\ ~desync
  /\ header' = [header EXCEPT ![i] = Head(inbox)] /\ headRead' = TRUE
  /\ MoveTo(i, "match")
  /\ UNCHANGED <<syncVars, out, asked, said, inbox, desync, repeats, returned,
                 spurious>>

(* readMessageBegin throws: the timeout, the end of the stream, or bytes   *)
(* that begin no message.                                                  *)
ReadThrows(i) ==
  /\ pc[i] = "read"
  /\ Leave(i, FALSE)
  /\ desync' \in {desync, TRUE}
  /\ UNCHANGED <<pending, out, asked, said, inbox, headRead, repeats, returned>>

(* Mutant of IsMine: as in WfsIfaceClient, which compares no number. *)
AnyIsMine(i) == header[i] # None
IsMine(i) == header[i].id = i

(* The body in the stream is read to its end, or not. *)
ReadBody(whole) ==
  /\ IF whole THEN inbox # <<>> /\ headRead /\ inbox' = Tail(inbox)
              ELSE UNCHANGED inbox
  /\ headRead' = FALSE /\ desync' = (desync \/ ~whole)
  /\ UNCHANGED <<out, asked, said, repeats, pending>>

(* A reply with the success field, or an exception, is read and returned. *)
Returns(i) ==
  /\ pc[i] = "match" /\ IsMine(i)
  /\ Head(inbox) \in Answers
  /\ ReadBody(TRUE)
  /\ returned' = [returned EXCEPT ![i] = Head(inbox)]
  /\ Leave(i, TRUE)

(* The body is read to its end, or cannot be; an "othertype" is skipped,   *)
(* and the bytes of the next message are then read as its result.          *)
Readable(kind) == kind \notin {"broken", "othertype"}

(* Mutant of Fails: what could not be read is returned all the same. *)
FailsNever(i) ==
  /\ pc[i] = "match" /\ IsMine(i)
  /\ Head(inbox) \notin Answers
  /\ ReadBody(Readable(Head(inbox).kind))
  /\ returned' = [returned EXCEPT ![i] = Head(inbox)]
  /\ Leave(i, FALSE)
(* Mutant of Fails: the sentry is committed on the way out. *)
FailsCommitted(i) ==
  /\ pc[i] = "match" /\ IsMine(i)
  /\ Head(inbox) \notin Answers
  /\ ReadBody(Readable(Head(inbox).kind)) /\ UNCHANGED returned
  /\ Leave(i, TRUE)
(* Another method's name, a reply with no result in it, a body that cannot *)
(* be read, or what is neither a reply nor an exception: an exception is   *)
(* thrown and the sentry not committed.                                    *)
Fails(i) ==
  /\ pc[i] = "match" /\ IsMine(i)
  /\ Head(inbox) \notin Answers
  /\ ReadBody(Readable(Head(inbox).kind)) /\ UNCHANGED returned
  /\ Leave(i, FALSE)

(* updatePending: the header is left to its call, which is notified. *)
UpdatePending(i) ==
  /\ pc[i] = "match" /\ ~IsMine(i) /\ header[i].id \in monitors
  /\ pending' = header[i] /\ header' = [header EXCEPT ![i] = None]
  /\ MoveAndNotify(i, "check", {header[i].id})
  /\ UNCHANGED <<reader, writer, nextseqid, monitors, wakeup, stop, netVars,
                 returned, spurious>>

(* It belongs to no call: updatePending throws BAD_SEQUENCE_ID. *)
BadSeqId(i) ==
  /\ pc[i] = "match" /\ ~IsMine(i) /\ header[i].id \notin monitors
  /\ pending' = header[i]
  /\ Leave(i, FALSE)
  /\ UNCHANGED <<netVars, returned>>

(* waitForWork, in three steps: the test of what may have changed, the     *)
(* wait, which lets go of the read mutex, and the mutex taken again.  A    *)
(* sender may mark the connection bad between the first two.               *)
WaitForWork(i) ==
  /\ pc[i] = "check" /\ ~stop
  /\ MoveTo(i, IF wakeup \/ pending.id = i THEN "get" ELSE "wait")
  /\ UNCHANGED <<syncVars, netVars, callVars, spurious>>

Wait(i) ==
  /\ pc[i] = "wait"
  /\ reader' = Nobody /\ MoveTo(i, "waiting")
  /\ UNCHANGED <<writer, nextseqid, monitors, pending, wakeup, stop, netVars,
                 callVars, spurious>>

Awake(i) ==
  /\ pc[i] = "woken" /\ reader = Nobody
  /\ reader' = i /\ MoveTo(i, "check")
  /\ UNCHANGED <<writer, nextseqid, monitors, pending, wakeup, stop, netVars,
                 callVars, spurious>>

Recv(i) ==
  \/ RecvSentry(i) \/ GetPending(i) \/ DeadConnection(i)
  \/ ReadMessageBegin(i) \/ ReadThrows(i)
  \/ Returns(i) \/ Fails(i)
  \/ UpdatePending(i) \/ BadSeqId(i)
  \/ WaitForWork(i) \/ Wait(i) \/ Awake(i)

-----------------------------------------------------------------------------
(***************************************************************************)
(* A method, and what is around it                                         *)
(***************************************************************************)

(* send_X and then recv_X. *)
Method(i) == GenerateSeqId(i) \/ Send(i) \/ Recv(i)

(* A condition variable may wake up by itself. *)
SpuriousWakeup(i) ==
  /\ pc[i] = "waiting" /\ spurious < MaxSpurious
  /\ spurious' = spurious + 1 /\ pc' = [pc EXCEPT ![i] = "woken"]
  /\ UNCHANGED <<syncVars, netVars, callVars>>

(* A server answers the requests it has in any order, by the book or not.  *)
Say(a) ==
  /\ a.id \in asked
  /\ \/ said[a.id] = None /\ said' = [said EXCEPT ![a.id] = a]
        /\ UNCHANGED repeats
     \/ said[a.id] # None /\ repeats < MaxRepeats /\ repeats' = repeats + 1
        /\ UNCHANGED said
  /\ inbox' = Append(inbox, a)
  /\ UNCHANGED <<out, asked, headRead, desync, pc, syncVars, callVars,
                 spurious>>

InCall(i) == pc[i] \in InSend \cup InRecv

Terminated ==
  /\ stop \/ nextseqid \notin Ids
  /\ \A i \in Ids : ~InCall(i)
  /\ UNCHANGED vars

Next ==
  \/ \E i \in Ids : Method(i) \/ SpuriousWakeup(i)
  \/ \E a \in Messages : Say(a)
  \/ Terminated

Spec == Init /\ [][Next]_vars

(* A thread inside a call keeps running.  Nothing is assumed of the server:*)
(* a read ends by the receive timeout if by nothing else.                  *)
FairSpec == Spec /\ \A i \in Ids : WF_vars(Send(i) \/ Recv(i))

-----------------------------------------------------------------------------
(***************************************************************************)
(* The promise to the callers                                              *)
(***************************************************************************)

Outcome(i) ==
  IF pc[i] = "unborn" THEN "unborn"
  ELSE IF InCall(i) THEN "open"
  ELSE IF returned[i] = None THEN "failed"
  ELSE IF returned[i].id = i THEN returned[i].kind
  ELSE "another's"

CallStates == [i \in Ids |-> Outcome(i)]
FirstSaid == [i \in Ids |-> IF said[i] = None THEN "nothing" ELSE said[i].kind]

Mux == INSTANCE WfsMux WITH
  Ids <- Ids, Outcomes <- Kinds, call <- CallStates, given <- FirstSaid

(* The stub implements WfsMux: whatever the order of the replies, and      *)
(* whoever reads their headers, a call returns what the server said first  *)
(* to its own request, an exception as an exception, or it fails.          *)
Multiplexes == Mux!Spec

-----------------------------------------------------------------------------
(***************************************************************************)
(* Properties                                                              *)
(***************************************************************************)

(* A request reaches the wire in one piece: no second thread writes between*)
(* its halves, on a bad connection neither, where calls that already have  *)
(* their number still send.                                                *)
RequestsWhole ==
  \A k \in 1 .. Len(out) :
    out[k].part = "tail" =>
      k > 1 /\ out[k - 1] = [out[k] EXCEPT !.part = "head"]

(* A message whose header has been read and whose body has not is known to *)
(* exactly one place: the thread that read the header, or the header that  *)
(* was left.  So nobody takes a body for a header, or reads another's.     *)
InHand == {header[i] : i \in {j \in Ids : pc[j] = "match"}}
            \cup ({pending} \ {None})
BodyHasOneReader ==
  ~desync /\ ~stop => InHand = IF headRead THEN {Head(inbox)} ELSE {}

(* Nobody reads on after a message that was not read to its end: "in a bad *)
(* state, don't commit".                                                   *)
BrokenNotRead ==
  desync => \A i \in Ids : pc[i] \notin {"read", "match"}

(* As long as threads wait for their replies, another one is inside a call *)
(* and not waiting: it will look at the stream or notify somebody.  This   *)
(* is what every notify has to keep, also when it finds nobody waiting.    *)
SomebodyAwake ==
  (\E i \in Ids : pc[i] = "waiting")
    => \E i \in Ids : InCall(i) /\ pc[i] # "waiting"

(* Every call returns, in whatever order replies come and headers are      *)
(* left, and also when the connection goes bad under those who wait.       *)
EveryCallReturns == \A i \in Ids : InCall(i) ~> ~InCall(i)
=============================================================================
