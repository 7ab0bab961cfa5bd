------------------------ MODULE WfsConcurrentProofs ------------------------
(***************************************************************************)
(* Theorems about WfsIfaceConcurrentClient, for any number of calls, any   *)
(* set of messages from the peer and any number of repeated replies and    *)
(* spurious wake-ups.                                                      *)
(***************************************************************************)
EXTENDS WfsConcurrentClient, TLAPS

(* The two mutexes are held by exactly the threads that are where one      *)
(* holds them, numbers are given out in order, and a call has a monitor    *)
(* while it runs; one whose send failed keeps it, on a bad connection.     *)
Holders ==
  /\ \A i \in Ids : pc[i] \in Reading <=> reader = i
  /\ \A i \in Ids : pc[i] \in {"write", "flush"} <=> writer = i
  /\ \A i \in Ids : pc[i] = "unborn" <=> i >= nextseqid
  /\ \A i \in Ids : InCall(i) => i \in monitors
  /\ \A i \in monitors : InCall(i) \/ stop

(* What the writer has sent of its request is the last on the wire.        *)
LastIsHead ==
  \A i \in Ids : pc[i] = "flush" => out # <<>> /\ out[Len(out)] = Part(i, "head")

(* The header in the reader's hands, or left for its call, is that of the  *)
(* first message in the stream, and a header that was read is in one place.*)
FirstInHand ==
  /\ \A i \in Ids : pc[i] = "match" =>
       inbox # <<>> /\ headRead /\ header[i] = Head(inbox)
  /\ \A i \in Ids : pc[i] \in {"read", "match"} => pending = None /\ ~desync
  /\ ~stop => ~desync
  /\ ~stop /\ pending # None =>
       inbox # <<>> /\ headRead /\ pending = Head(inbox)
  /\ ~stop /\ headRead => pending # None \/ \E i \in Ids : pc[i] = "match"

(* The server says something only to requests that it has, and of what it  *)
(* said to a call that is not over, the first is still to be read.         *)
First(s, i, k) == s[k].id = i /\ \A j \in 1 .. k - 1 : s[j].id # i
Said ==
  /\ \A i \in asked : pc[i] \notin InSend \cup {"unborn"}
  /\ \A i \in Ids : said[i] # None => i \in asked /\ said[i].id = i
  /\ \A k \in 1 .. Len(inbox) : said[inbox[k].id] # None
  /\ \A i \in Ids : pc[i] # "over" =>
       /\ \A k \in 1 .. Len(inbox) : First(inbox, i, k) => inbox[k] = said[i]
       /\ said[i] # None => \E k \in 1 .. Len(inbox) : inbox[k].id = i
Given ==
  \A i \in Ids : /\ pc[i] # "over" => returned[i] = None
                 /\ returned[i] # None => returned[i] = said[i]

(* Who waits can rely on another.  While a thread that looks at what is    *)
(* left, or goes to wait, holds the read mutex, either the flag tells it   *)
(* to go on or a header was left for a call that has not returned.         *)
Receiving(i) == pc[i] \in {"recv", "woken"}
Handover ==
  /\ ~stop /\ pending # None =>
       pending.id \in Ids /\ pc[pending.id] \in InRecv \ {"wait", "waiting"}
  /\ ~stop /\ (reader = Nobody \/ \E r \in Ids : pc[r] \in {"check", "wait"})
     /\ (\E i \in Ids : pc[i] \in {"check", "wait", "waiting", "woken"})
       => wakeup \/ pending # None
  /\ \A i \in Ids : pc[i] = "wait" =>
       pending # None /\ pending.id # i /\ pending.id \in Ids
         /\ Receiving(pending.id)
  /\ stop => \A i, r \in Ids : pc[r] \in {"read", "match"} => pc[i] # "waiting"
Asleep(i) == pc[i] \in {"wait", "waiting"}
Awakened ==
  (\E i \in Ids : Asleep(i)) => \E i \in Ids : InCall(i) /\ ~Asleep(i)

ConcurrentInv ==
  /\ TypeOK /\ RequestsWhole /\ Holders /\ LastIsHead /\ FirstInHand
  /\ Said /\ Given /\ Handover /\ Awakened

-----------------------------------------------------------------------------
(***************************************************************************)
(* Moves                                                                   *)
(***************************************************************************)

LEMMA IdFacts == Ids \subseteq Nat /\ Nobody \notin Ids /\ None \notin Messages
BY IdsAssumption DEF Ids, Nobody, None, Messages

(* One call goes on, and of those who wait some are notified. *)
LEMMA MoveFacts ==
  ASSUME pc \in [Ids -> Places], NEW i \in Ids, NEW p \in Places, NEW ids,
         MoveAndNotify(i, p, ids)
  PROVE  /\ pc' \in [Ids -> Places]
         /\ pc'[i] = p
         /\ \A j \in Ids \ {i} :
              \/ pc'[j] = pc[j] /\ ~(pc[j] = "waiting" /\ j \in ids)
              \/ pc'[j] = "woken" /\ pc[j] = "waiting" /\ j \in ids
<1>1. "woken" \in Places
  BY DEF Places, InRecv
<1>2. QED
  BY <1>1 DEF MoveAndNotify

LEMMA MoveToFacts ==
  ASSUME pc \in [Ids -> Places], NEW i \in Ids, NEW p \in Places, MoveTo(i, p)
  PROVE  /\ pc' \in [Ids -> Places]
         /\ pc'[i] = p
         /\ \A j \in Ids \ {i} : pc'[j] = pc[j]
BY DEF MoveTo, MoveAndNotify

LEMMA WakeupFacts ==
  ASSUME pc \in [Ids -> Places], NEW i \in Ids, NEW ids, WakeupAnyone(i, ids)
  PROVE  /\ pc' \in [Ids -> Places] /\ pc'[i] = "over"
         /\ wakeup' = TRUE /\ stop' = stop
         /\ \A j \in Ids \ {i} : \/ pc'[j] = pc[j]
                                 \/ pc'[j] = "woken" /\ pc[j] = "waiting"
         /\ ids # {} => \E last \in ids :
              last \in Ids \ {i} /\ pc[last] = "waiting" => pc'[last] = "woken"
<1>1. "over" \in Places
  BY DEF Places
<1>2. CASE ids = {} /\ MoveTo(i, "over")
  BY <1>1, <1>2, MoveToFacts DEF WakeupAnyone
<1>3. CASE \E last \in ids : MoveAndNotify(i, "over", {last})
  <2>1. PICK last \in ids : MoveAndNotify(i, "over", {last})
    BY <1>3
  <2>2. QED
    BY <1>1, <2>1, MoveFacts DEF WakeupAnyone
<1>4. QED
  BY <1>2, <1>3 DEF WakeupAnyone

LEMMA MarkBadFacts ==
  ASSUME pc \in [Ids -> Places], NEW i \in Ids, NEW ids, MarkBad(i, ids)
  PROVE  /\ pc' \in [Ids -> Places] /\ pc'[i] = "over"
         /\ wakeup' = TRUE /\ stop' = TRUE
         /\ \A j \in Ids \ {i} : \/ pc'[j] = pc[j]
                                 \/ pc'[j] = "woken" /\ pc[j] = "waiting"
         /\ \A j \in ids : j \in Ids \ {i} => pc'[j] # "waiting"
<1>1. "over" \in Places
  BY DEF Places
<1>2. QED
  BY <1>1, MoveFacts DEF MarkBad

(* The sentry of recv_X is destroyed. *)
LEMMA LeaveFacts ==
  ASSUME TypeOK, NEW i \in Ids, NEW committed \in BOOLEAN, Leave(i, committed)
  PROVE  /\ pc' \in [Ids -> Places] /\ pc'[i] = "over"
         /\ \A j \in Ids \ {i} : \/ pc'[j] = pc[j]
                                 \/ pc'[j] = "woken" /\ pc[j] = "waiting"
         /\ header' \in [Ids -> Messages \cup {None}]
         /\ \A j \in Ids \ {i} : header'[j] = header[j]
         /\ monitors' = monitors \ {i} /\ reader' = Nobody /\ wakeup' = TRUE
         /\ writer' = writer /\ nextseqid' = nextseqid /\ spurious' = spurious
         /\ IF committed THEN stop' = stop ELSE stop' = TRUE
         /\ committed /\ monitors' # {} => \E last \in monitors' :
              last \in Ids \ {i} /\ pc[last] = "waiting" => pc'[last] = "woken"
         /\ ~committed =>
              \A j \in monitors' : j \in Ids \ {i} => pc'[j] # "waiting"
<1>1. pc \in [Ids -> Places] /\ header \in [Ids -> Messages \cup {None}]
  BY DEF TypeOK
<1>2. CASE committed
  <2>1. WakeupAnyone(i, monitors')
    BY <1>2 DEF Leave
  <2>2. QED
    BY <1>1, <1>2, <2>1, WakeupFacts DEF Leave
<1>3. CASE ~committed
  <2>1. MarkBad(i, monitors')
    BY <1>3 DEF Leave
  <2>2. QED
    BY <1>1, <1>3, <2>1, MarkBadFacts DEF Leave
<1>4. QED
  BY <1>2, <1>3

(* The body of the message in the stream is read. *)
LEMMA BodyFacts ==
  ASSUME TypeOK, NEW whole \in BOOLEAN, ReadBody(whole)
  PROVE  /\ inbox' \in Seq(Messages) /\ headRead' = FALSE
         /\ desync' \in BOOLEAN
         /\ IF whole
            THEN inbox # <<>> /\ headRead /\ inbox' = Tail(inbox)
                 /\ desync' = desync
            ELSE inbox' = inbox /\ desync' = TRUE
         /\ UNCHANGED <<out, asked, said, repeats, pending>>
<1>1. inbox \in Seq(Messages) /\ desync \in BOOLEAN
  BY DEF TypeOK
<1>2. headRead' = FALSE /\ UNCHANGED <<out, asked, said, repeats, pending>>
  BY DEF ReadBody
<1>3. CASE whole
  <2>1. inbox # <<>> /\ headRead /\ inbox' = Tail(inbox)
    BY <1>3 DEF ReadBody
  <2>2. Tail(inbox) \in Seq(Messages)
    BY <1>1, <2>1
  <2>3. desync' = desync
    BY <1>1, <1>3 DEF ReadBody
  <2>4. QED
    BY <1>1, <1>2, <1>3, <2>1, <2>2, <2>3
<1>4. CASE ~whole
  <2>1. inbox' = inbox /\ desync' = TRUE
    BY <1>4 DEF ReadBody
  <2>2. QED
    BY <1>1, <1>2, <1>4, <2>1
<1>5. QED
  BY <1>3, <1>4

-----------------------------------------------------------------------------
(***************************************************************************)
(* Types                                                                   *)
(***************************************************************************)

LEMMA FirstMessage ==
  ASSUME TypeOK, inbox # <<>>
  PROVE  Head(inbox) \in Messages
BY DEF TypeOK

(* A call that returns or fails with what it has read. *)
LEMMA MatchTypes ==
  ASSUME TypeOK, NEW i \in Ids, NEW whole \in BOOLEAN, NEW committed \in BOOLEAN,
         ReadBody(whole), Leave(i, committed),
         returned' \in [Ids -> Answers \cup {None}]
  PROVE  TypeOK'
<1>1. monitors' \subseteq Ids /\ reader' \in Ids \cup {Nobody}
      /\ stop' \in BOOLEAN
  BY LeaveFacts DEF TypeOK
<1>2. QED
  BY <1>1, LeaveFacts, BodyFacts DEF TypeOK

LEMMA TypeKept ==
  ASSUME TypeOK, Next
  PROVE  TypeOK'
<1>1. pc \in [Ids -> Places] /\ header \in [Ids -> Messages \cup {None}]
  BY DEF TypeOK
<1>2. /\ InSend \subseteq Places /\ InRecv \subseteq Places
      /\ "over" \in Places /\ "unborn" \in Places
      /\ {"send", "write", "flush"} \subseteq Places
      /\ {"get", "read", "match", "check", "wait"} \subseteq Places
      /\ {"recv", "waiting", "woken"} \subseteq Places
  BY DEF Places, InSend, InRecv, Reading
<1>3. ASSUME NEW i \in Ids, GenerateSeqId(i) PROVE TypeOK'
  <2>1. nextseqid' \in 1 .. MaxId + 1 /\ monitors' \subseteq Ids
    BY <1>3, IdsAssumption DEF GenerateSeqId, TypeOK, Ids
  <2>2. pc' \in [Ids -> Places]
    BY <1>1, <1>2, <1>3, MoveToFacts DEF GenerateSeqId
  <2>3. QED
    BY <1>3, <2>1, <2>2 DEF GenerateSeqId, TypeOK, netVars, callVars
<1>4. ASSUME NEW i \in Ids, Send(i) PROVE TypeOK'
  <2>1. CASE SendSentry(i)
    <3>1. pc' \in [Ids -> Places]
      BY <1>1, <1>2, <2>1, MoveToFacts DEF SendSentry
    <3>2. QED
      BY <2>1, <3>1 DEF SendSentry, TypeOK, netVars, callVars
  <2>2. CASE WriteMessageBegin(i)
    <3>1. pc' \in [Ids -> Places]
      BY <1>1, <1>2, <2>2, MoveToFacts DEF WriteMessageBegin
    <3>2. out' \in Seq(Parts)
      BY <2>2 DEF WriteMessageBegin, TypeOK, Part, Parts
    <3>3. QED
      BY <2>2, <3>1, <3>2 DEF WriteMessageBegin, TypeOK, syncVars, callVars
  <2>3. CASE Flush(i)
    <3>1. pc' \in [Ids -> Places]
      BY <1>1, <1>2, <2>3, MoveToFacts DEF Flush
    <3>2. Part(i, "tail") \in Parts
      BY DEF Part, Parts
    <3>4. CASE out = <<Part(i, "head")>>
      BY <1>4, <2>3, <3>1, <3>4 DEF Flush, TypeOK, callVars
    <3>5. CASE out # <<Part(i, "head")>>
      <4>1. out' = Append(out, Part(i, "tail")) /\ asked' = asked
        BY <2>3, <3>5 DEF Flush
      <4>2. out' \in Seq(Parts)
        BY <3>2, <4>1 DEF TypeOK
      <4>3. QED
        BY <2>3, <3>1, <4>1, <4>2 DEF Flush, TypeOK, callVars
    <3>3. QED
      BY <3>4, <3>5
  <2>4. CASE SendThrows(i)
    <3>1. pc' \in [Ids -> Places] /\ wakeup' = TRUE /\ stop' = TRUE
      BY <1>1, <2>4, MarkBadFacts DEF SendThrows
    <3>2. QED
      BY <2>4, <3>1 DEF SendThrows, TypeOK, netVars, callVars
  <2>5. QED
    BY <1>4, <2>1, <2>2, <2>3, <2>4 DEF Send
<1>5. ASSUME NEW i \in Ids, Recv(i) PROVE TypeOK'
  <2>1. CASE RecvSentry(i)
    <3>1. pc' \in [Ids -> Places]
      BY <1>1, <1>2, <2>1, MoveToFacts DEF RecvSentry
    <3>2. QED
      BY <2>1, <3>1 DEF RecvSentry, TypeOK, netVars, callVars
  <2>2. CASE GetPending(i)
    <3>1. pc' \in [Ids -> Places]
      BY <1>1, <1>2, <2>2, MoveToFacts DEF GetPending
    <3>2. /\ header' \in [Ids -> Messages \cup {None}]
          /\ pending' \in Messages \cup {None}
      BY <2>2 DEF GetPending, TypeOK
    <3>3. QED
      BY <2>2, <3>1, <3>2 DEF GetPending, TypeOK, netVars
  <2>3. CASE DeadConnection(i)
    BY <2>3, LeaveFacts DEF DeadConnection, TypeOK, netVars
  <2>4. CASE ReadMessageBegin(i)
    <3>1. pc' \in [Ids -> Places]
      BY <1>1, <1>2, <2>4, MoveToFacts DEF ReadMessageBegin
    <3>2. header' \in [Ids -> Messages \cup {None}]
      BY <1>1, <2>4, FirstMessage DEF ReadMessageBegin
    <3>3. QED
      BY <2>4, <3>1, <3>2 DEF ReadMessageBegin, TypeOK, syncVars
  <2>5. CASE ReadThrows(i)
    BY <2>5, LeaveFacts DEF ReadThrows, TypeOK
  <2>6. CASE Returns(i)
    <3>1. returned' \in [Ids -> Answers \cup {None}]
      BY <2>6 DEF Returns, TypeOK
    <3>2. QED
      BY <2>6, <3>1, MatchTypes DEF Returns
  <2>7. CASE Fails(i)
    <3>1. returned' \in [Ids -> Answers \cup {None}]
      BY <2>7 DEF Fails, TypeOK
    <3>2. Readable(Head(inbox).kind) \in BOOLEAN
      BY DEF Readable
    <3>3. QED
      BY <2>7, <3>1, <3>2, MatchTypes DEF Fails
  <2>8. CASE UpdatePending(i)
    <3>1. pc' \in [Ids -> Places]
      BY <1>1, <1>2, <2>8, MoveFacts DEF UpdatePending
    <3>2. /\ header' \in [Ids -> Messages \cup {None}]
          /\ pending' \in Messages \cup {None}
      BY <1>1, <2>8 DEF UpdatePending
    <3>3. QED
      BY <2>8, <3>1, <3>2 DEF UpdatePending, TypeOK, netVars
  <2>9. CASE BadSeqId(i)
    <3>1. pending' \in Messages \cup {None}
      BY <1>1, <2>9 DEF BadSeqId
    <3>2. QED
      BY <2>9, <3>1, LeaveFacts DEF BadSeqId, TypeOK, netVars
  <2>10. CASE WaitForWork(i)
    <3>1. pc' \in [Ids -> Places]
      BY <1>1, <1>2, <2>10, MoveToFacts DEF WaitForWork
    <3>2. QED
      BY <2>10, <3>1 DEF WaitForWork, TypeOK, syncVars, netVars, callVars
  <2>11. CASE Wait(i)
    <3>1. pc' \in [Ids -> Places]
      BY <1>1, <1>2, <2>11, MoveToFacts DEF Wait
    <3>2. QED
      BY <2>11, <3>1 DEF Wait, TypeOK, netVars, callVars
  <2>12. CASE Awake(i)
    <3>1. pc' \in [Ids -> Places]
      BY <1>1, <1>2, <2>12, MoveToFacts DEF Awake
    <3>2. QED
      BY <2>12, <3>1 DEF Awake, TypeOK, netVars, callVars
  <2>13. QED
    BY <1>5, <2>1, <2>2, <2>3, <2>4, <2>5, <2>6, <2>7, <2>8, <2>9, <2>10,
       <2>11, <2>12 DEF Recv
<1>6. ASSUME NEW i \in Ids, SpuriousWakeup(i) PROVE TypeOK'
  BY <1>1, <1>2, <1>6, FaultBoundsAssumption
     DEF SpuriousWakeup, TypeOK, syncVars, netVars, callVars
<1>7. ASSUME NEW a \in Messages, Say(a) PROVE TypeOK'
  <2>1. a.id \in Ids
    BY DEF Messages
  <2>2. said' \in [Ids -> Messages \cup {None}] /\ inbox' \in Seq(Messages)
    BY <1>7, <2>1 DEF Say, TypeOK
  <2>3. repeats' \in 0 .. MaxRepeats
    BY <1>7, FaultBoundsAssumption DEF Say, TypeOK
  <2>4. QED
    BY <1>7, <2>2, <2>3 DEF Say, TypeOK, syncVars, callVars
<1>8. ASSUME Terminated PROVE TypeOK'
  BY <1>8 DEF Terminated, TypeOK, vars, syncVars, netVars, callVars
<1>9. QED
  BY <1>3, <1>4, <1>5, <1>6, <1>7, <1>8 DEF Next, Method

-----------------------------------------------------------------------------
(***************************************************************************)
(* What keeps the parts of the invariant                                   *)
(***************************************************************************)

(* Nothing of the wire changes and nobody gets to writing. *)
LEMMA WireKept ==
  ASSUME RequestsWhole, LastIsHead, UNCHANGED out,
         \A j \in Ids : pc'[j] = "flush" => pc[j] = "flush"
  PROVE  RequestsWhole' /\ LastIsHead'
BY DEF RequestsWhole, LastIsHead

(* Nothing of the stream changes, nobody gets to reading or lets go of a   *)
(* header.                                                                 *)
LEMMA FirstKept ==
  ASSUME FirstInHand, UNCHANGED <<inbox, headRead, desync, pending>>,
         ~stop' => ~stop,
         \A j \in Ids : pc'[j] \in {"read", "match"} => pc'[j] = pc[j],
         \A j \in Ids : pc[j] = "match" => pc'[j] = "match" /\ header'[j] = header[j]
  PROVE  FirstInHand'
<1>1. \A j \in Ids : pc'[j] = "match" =>
        inbox # <<>> /\ headRead /\ header'[j] = Head(inbox)
  BY DEF FirstInHand
<1>2. \A j \in Ids : pc'[j] \in {"read", "match"} => pending = None /\ ~desync
  BY DEF FirstInHand
<1>3. ~stop' /\ headRead => pending # None \/ \E j \in Ids : pc'[j] = "match"
  BY DEF FirstInHand
<1>4. /\ ~stop' => ~desync
      /\ ~stop' /\ pending # None => inbox # <<>> /\ headRead /\ pending = Head(inbox)
  BY DEF FirstInHand
<1>5. QED
  BY <1>1, <1>2, <1>3, <1>4 DEF FirstInHand

(* Nothing is said, and calls go on or end. *)
LEMMA SaidKept ==
  ASSUME Said, Given, UNCHANGED <<said, inbox, asked, returned>>,
         \A j \in Ids : pc[j] = "over" => pc'[j] = "over",
         \A j \in asked : pc'[j] \in InSend \cup {"unborn"} =>
                            pc[j] \in InSend \cup {"unborn"}
  PROVE  Said' /\ Given'
<1>1. \A j \in Ids : pc'[j] # "over" => pc[j] # "over"
  OBVIOUS
<1>2. \A j \in asked : pc'[j] \notin InSend \cup {"unborn"}
  BY DEF Said
<1>3. Said'
  BY <1>1, <1>2 DEF Said, First
<1>4. Given'
  BY <1>1 DEF Given
<1>5. QED
  BY <1>3, <1>4

(* Nobody begins to wait or to look at what is left, and nobody is left    *)
(* alone by those he relies on.                                            *)
LEMMA HandoverKept ==
  ASSUME Handover, UNCHANGED <<pending, reader>>, wakeup => wakeup',
         ~stop' => ~stop,
         \A j \in Ids :
           /\ pc[j] \in InRecv => pc'[j] \in InRecv
           /\ pc'[j] = "wait" => pc[j] = "wait"
           /\ pc'[j] = "waiting" => pc[j] = "waiting"
           /\ pc'[j] = "check" => pc[j] = "check"
           /\ pc'[j] = "woken" => pc[j] \in {"woken", "waiting"}
           /\ pc[j] = "recv" => pc'[j] = "recv"
           /\ pc[j] = "woken" => pc'[j] = "woken"
           /\ pc'[j] \in {"read", "match"} => pc'[j] = pc[j],
         stop' => stop \/ \A j \in Ids : pc'[j] # "waiting"
  PROVE  Handover'
<1>1. ~stop' /\ pending # None =>
        pending.id \in Ids /\ pc'[pending.id] \in InRecv \ {"wait", "waiting"}
  BY DEF Handover
<1>2. ~stop' /\ (reader = Nobody \/ \E r \in Ids : pc'[r] \in {"check", "wait"})
       /\ (\E j \in Ids : pc'[j] \in {"check", "wait", "waiting", "woken"})
         => wakeup' \/ pending # None
  <2> SUFFICES ASSUME ~stop',
                      reader = Nobody \/ \E r \in Ids : pc'[r] \in {"check", "wait"},
                      NEW j \in Ids, pc'[j] \in {"check", "wait", "waiting", "woken"}
               PROVE  wakeup' \/ pending # None
    OBVIOUS
  <2>1. reader = Nobody \/ \E r \in Ids : pc[r] \in {"check", "wait"}
    OBVIOUS
  <2>2. pc[j] \in {"check", "wait", "waiting", "woken"}
    OBVIOUS
  <2>3. wakeup \/ pending # None
    BY <2>1, <2>2 DEF Handover
  <2>4. QED
    BY <2>3
<1>3. \A j \in Ids : pc'[j] = "wait" =>
        pending # None /\ pending.id # j /\ pending.id \in Ids
          /\ pc'[pending.id] \in {"recv", "woken"}
  BY DEF Handover, Receiving
<1>4. stop' => \A j, r \in Ids : pc'[r] \in {"read", "match"} => pc'[j] # "waiting"
  BY DEF Handover
<1>5. QED
  BY <1>1, <1>2, <1>3, <1>4 DEF Handover, Receiving

(* Nobody begins to wait and nobody who is awake leaves. *)
LEMMA AwakenedKept ==
  ASSUME Awakened,
         \A j \in Ids : Asleep(j)' => Asleep(j),
         \A j \in Ids : InCall(j) /\ ~Asleep(j) => InCall(j)' /\ ~Asleep(j)'
  PROVE  Awakened'
BY DEF Awakened

-----------------------------------------------------------------------------
(***************************************************************************)
(* A call is begun and sends                                               *)
(***************************************************************************)

LEMMA SeveralPlaces ==
  /\ {"send", "write", "flush", "get", "read", "match", "check", "wait", "recv",
      "waiting", "woken", "unborn", "over"} \subseteq Places
  /\ InSend = {"send", "write", "flush"}
  /\ Reading = {"get", "read", "match", "check", "wait"}
  /\ InRecv = {"get", "read", "match", "check", "wait", "recv", "waiting", "woken"}
BY DEF Places, InSend, InRecv, Reading

LEMMA GenerateSeqIdKeeps ==
  ASSUME ConcurrentInv, TypeOK', NEW i \in Ids, GenerateSeqId(i)
  PROVE  ConcurrentInv'
<1>1. /\ pc[i] = "unborn" /\ i = nextseqid /\ ~stop
      /\ nextseqid' = nextseqid + 1 /\ monitors' = monitors \cup {i}
      /\ UNCHANGED <<header, returned, reader, writer, pending, wakeup, stop,
                     out, asked, said, inbox, headRead, desync>>
  BY DEF GenerateSeqId, callVars, netVars
<1>2. /\ pc'[i] = "send" /\ \A j \in Ids \ {i} : pc'[j] = pc[j]
  BY SeveralPlaces, MoveToFacts DEF GenerateSeqId, ConcurrentInv, TypeOK
<1>3. Holders'
  <2>0. \A j \in Ids : (j >= nextseqid + 1) <=> (j >= nextseqid /\ j # i)
    BY <1>1, IdFacts DEF Ids
  <2>1. \A j \in Ids : pc'[j] \in Reading <=> reader' = j
    BY <1>1, <1>2, <2>0, SeveralPlaces DEF ConcurrentInv, Holders
  <2>2. \A j \in Ids : pc'[j] \in {"write", "flush"} <=> writer' = j
    BY <1>1, <1>2, <2>0, SeveralPlaces DEF ConcurrentInv, Holders
  <2>3. \A j \in Ids : pc'[j] = "unborn" <=> j >= nextseqid'
    BY <1>1, <1>2, <2>0, SeveralPlaces DEF ConcurrentInv, Holders
  <2>4. \A j \in Ids : InCall(j)' => j \in monitors'
    BY <1>1, <1>2, <2>0, SeveralPlaces DEF ConcurrentInv, Holders, InCall
  <2>5. \A j \in monitors' : InCall(j)' \/ stop'
    BY <1>1, <1>2, <2>0, SeveralPlaces DEF ConcurrentInv, Holders, InCall, TypeOK
  <2>6. QED
    BY <2>1, <2>2, <2>3, <2>4, <2>5 DEF Holders
<1>4. RequestsWhole' /\ LastIsHead'
  BY <1>1, <1>2, WireKept DEF ConcurrentInv
<1>5. FirstInHand'
  BY <1>1, <1>2, FirstKept DEF ConcurrentInv
<1>6. Said' /\ Given'
  <2>1. i \notin asked
    BY <1>1 DEF ConcurrentInv, Said
  <2>2. QED
    BY <1>1, <1>2, <2>1, SaidKept DEF ConcurrentInv, TypeOK
<1>7. Handover'
  BY <1>1, <1>2, HandoverKept, SeveralPlaces DEF ConcurrentInv
<1>8. Awakened'
  BY <1>1, <1>2, AwakenedKept, SeveralPlaces DEF ConcurrentInv, Asleep, InCall
<1>9. QED
  BY <1>3, <1>4, <1>5, <1>6, <1>7, <1>8 DEF ConcurrentInv

LEMMA SendSentryKeeps ==
  ASSUME ConcurrentInv, TypeOK', NEW i \in Ids, SendSentry(i)
  PROVE  ConcurrentInv'
<1>1. /\ pc[i] = "send" /\ writer = Nobody /\ writer' = i
      /\ UNCHANGED <<header, returned, reader, nextseqid, monitors, pending,
                     wakeup, stop, out, asked, said, inbox, headRead, desync>>
  BY DEF SendSentry, callVars, netVars
<1>2. /\ pc'[i] = "write" /\ \A j \in Ids \ {i} : pc'[j] = pc[j]
  BY SeveralPlaces, MoveToFacts DEF SendSentry, ConcurrentInv, TypeOK
<1>3. Holders'
  <2>1. \A j \in Ids : pc'[j] \in Reading <=> reader' = j
    BY <1>1, <1>2, IdFacts, SeveralPlaces DEF ConcurrentInv, Holders
  <2>2. \A j \in Ids : pc'[j] \in {"write", "flush"} <=> writer' = j
    BY <1>1, <1>2, IdFacts, SeveralPlaces DEF ConcurrentInv, Holders
  <2>3. \A j \in Ids : pc'[j] = "unborn" <=> j >= nextseqid'
    BY <1>1, <1>2, IdFacts, SeveralPlaces DEF ConcurrentInv, Holders
  <2>4. \A j \in Ids : InCall(j)' => j \in monitors'
    BY <1>1, <1>2, IdFacts, SeveralPlaces DEF ConcurrentInv, Holders, InCall
  <2>5. \A j \in monitors' : InCall(j)' \/ stop'
    BY <1>1, <1>2, IdFacts, SeveralPlaces DEF ConcurrentInv, Holders, InCall, TypeOK
  <2>6. QED
    BY <2>1, <2>2, <2>3, <2>4, <2>5 DEF Holders
<1>4. RequestsWhole' /\ LastIsHead'
  BY <1>1, <1>2, WireKept DEF ConcurrentInv
<1>5. FirstInHand'
  BY <1>1, <1>2, FirstKept DEF ConcurrentInv
<1>6. Said' /\ Given'
  BY <1>1, <1>2, SaidKept, SeveralPlaces DEF ConcurrentInv, TypeOK
<1>7. Handover'
  BY <1>1, <1>2, HandoverKept, SeveralPlaces DEF ConcurrentInv
<1>8. Awakened'
  BY <1>1, <1>2, AwakenedKept, SeveralPlaces DEF ConcurrentInv, Asleep, InCall
<1>9. QED
  BY <1>3, <1>4, <1>5, <1>6, <1>7, <1>8 DEF ConcurrentInv

LEMMA WriteMessageBeginKeeps ==
  ASSUME ConcurrentInv, TypeOK', NEW i \in Ids, WriteMessageBegin(i)
  PROVE  ConcurrentInv'
<1>1. /\ pc[i] = "write" /\ out' = Append(out, Part(i, "head"))
      /\ UNCHANGED <<header, returned, reader, writer, nextseqid, monitors,
                     pending, wakeup, stop, asked, said, inbox, headRead, desync>>
  BY DEF WriteMessageBegin, callVars, syncVars
<1>2. /\ pc'[i] = "flush" /\ \A j \in Ids \ {i} : pc'[j] = pc[j]
  BY SeveralPlaces, MoveToFacts DEF WriteMessageBegin, ConcurrentInv, TypeOK
<1>3. Holders'
  <2>1. \A j \in Ids : pc'[j] \in Reading <=> reader' = j
    BY <1>1, <1>2, IdFacts, SeveralPlaces DEF ConcurrentInv, Holders
  <2>2. \A j \in Ids : pc'[j] \in {"write", "flush"} <=> writer' = j
    BY <1>1, <1>2, IdFacts, SeveralPlaces DEF ConcurrentInv, Holders
  <2>3. \A j \in Ids : pc'[j] = "unborn" <=> j >= nextseqid'
    BY <1>1, <1>2, IdFacts, SeveralPlaces DEF ConcurrentInv, Holders
  <2>4. \A j \in Ids : InCall(j)' => j \in monitors'
    BY <1>1, <1>2, IdFacts, SeveralPlaces DEF ConcurrentInv, Holders, InCall
  <2>5. \A j \in monitors' : InCall(j)' \/ stop'
    BY <1>1, <1>2, IdFacts, SeveralPlaces DEF ConcurrentInv, Holders, InCall, TypeOK
  <2>6. QED
    BY <2>1, <2>2, <2>3, <2>4, <2>5 DEF Holders
<1>4. RequestsWhole' /\ LastIsHead'
  <2>1. out \in Seq(Parts) /\ Part(i, "head") \in Parts
    BY DEF ConcurrentInv, TypeOK, Part, Parts
  <2>2. /\ Len(out) \in Nat /\ Len(out') = Len(out) + 1
        /\ \A k \in 1 .. Len(out) : out'[k] = out[k]
        /\ out'[Len(out) + 1] = Part(i, "head")
    BY <1>1, <2>1
  <2>3. LastIsHead'
    <3>1. \A j \in Ids : pc'[j] = "flush" => j = i
      BY <1>1, <1>2 DEF ConcurrentInv, Holders
    <3>2. out' # <<>>
      BY <1>1, <2>1
    <3>3. QED
      BY <2>2, <3>1, <3>2 DEF LastIsHead
  <2>4. RequestsWhole'
    <3> SUFFICES ASSUME NEW k \in 1 .. Len(out) + 1, out'[k].part = "tail"
                 PROVE  k > 1 /\ out'[k - 1] = [out'[k] EXCEPT !.part = "head"]
      BY <2>2 DEF RequestsWhole
    <3>1. k \in 1 .. Len(out)
      BY <2>2 DEF Part
    <3>2. k > 1 /\ out[k - 1] = [out[k] EXCEPT !.part = "head"]
      BY <2>2, <3>1 DEF ConcurrentInv, RequestsWhole
    <3>3. k - 1 \in 1 .. Len(out)
      BY <2>2, <3>1, <3>2
    <3>4. QED
      BY <2>2, <3>1, <3>2, <3>3
  <2>5. QED
    BY <2>3, <2>4
<1>5. FirstInHand'
  BY <1>1, <1>2, FirstKept DEF ConcurrentInv
<1>6. Said' /\ Given'
  BY <1>1, <1>2, SaidKept, SeveralPlaces DEF ConcurrentInv, TypeOK
<1>7. Handover'
  BY <1>1, <1>2, HandoverKept, SeveralPlaces DEF ConcurrentInv
<1>8. Awakened'
  BY <1>1, <1>2, AwakenedKept, SeveralPlaces DEF ConcurrentInv, Asleep, InCall
<1>9. QED
  BY <1>3, <1>4, <1>5, <1>6, <1>7, <1>8 DEF ConcurrentInv

LEMMA FlushKeeps ==
  ASSUME ConcurrentInv, TypeOK', NEW i \in Ids, Flush(i)
  PROVE  ConcurrentInv'
<1>1. /\ pc[i] = "flush" /\ writer' = Nobody
      /\ UNCHANGED <<header, returned, reader, nextseqid, monitors, pending,
                     wakeup, stop, said, inbox, headRead, desync>>
  BY DEF Flush, callVars
<1>2. /\ pc'[i] = "recv" /\ \A j \in Ids \ {i} : pc'[j] = pc[j]
  BY SeveralPlaces, MoveToFacts DEF Flush, ConcurrentInv, TypeOK
<1>3. Holders'
  <2>1. \A j \in Ids : pc'[j] \in Reading <=> reader' = j
    BY <1>1, <1>2, IdFacts, SeveralPlaces DEF ConcurrentInv, Holders
  <2>2. \A j \in Ids : pc'[j] \in {"write", "flush"} <=> writer' = j
    BY <1>1, <1>2, IdFacts, SeveralPlaces DEF ConcurrentInv, Holders
  <2>3. \A j \in Ids : pc'[j] = "unborn" <=> j >= nextseqid'
    BY <1>1, <1>2, IdFacts, SeveralPlaces DEF ConcurrentInv, Holders
  <2>4. \A j \in Ids : InCall(j)' => j \in monitors'
    BY <1>1, <1>2, IdFacts, SeveralPlaces DEF ConcurrentInv, Holders, InCall
  <2>5. \A j \in monitors' : InCall(j)' \/ stop'
    BY <1>1, <1>2, IdFacts, SeveralPlaces DEF ConcurrentInv, Holders, InCall, TypeOK
  <2>6. QED
    BY <2>1, <2>2, <2>3, <2>4, <2>5 DEF Holders
<1>4. LastIsHead'
  <2>1. \A j \in Ids : pc'[j] # "flush"
    BY <1>1, <1>2 DEF ConcurrentInv, Holders
  <2>2. QED
    BY <2>1 DEF LastIsHead
<1>5. RequestsWhole'
  <2>1. CASE out = <<Part(i, "head")>>
    <3>1. out' = <<>>
      BY <2>1 DEF Flush
    <3>2. Len(out') = 0
      BY <3>1
    <3>3. QED
      BY <3>2 DEF RequestsWhole
  <2>2. CASE out # <<Part(i, "head")>>
    <3>1. out' = Append(out, Part(i, "tail"))
      BY <2>2 DEF Flush
    <3>2. out \in Seq(Parts) /\ Part(i, "tail") \in Parts
      BY DEF ConcurrentInv, TypeOK, Part, Parts
    <3>3. /\ Len(out) \in Nat /\ Len(out') = Len(out) + 1
          /\ \A k \in 1 .. Len(out) : out'[k] = out[k]
          /\ out'[Len(out) + 1] = Part(i, "tail")
      BY <3>1, <3>2
    <3>4. Len(out) >= 1 /\ out[Len(out)] = Part(i, "head")
      BY <1>1, <3>2 DEF ConcurrentInv, LastIsHead
    <3> SUFFICES ASSUME NEW k \in 1 .. Len(out) + 1, out'[k].part = "tail"
                 PROVE  k > 1 /\ out'[k - 1] = [out'[k] EXCEPT !.part = "head"]
      BY <3>3 DEF RequestsWhole
    <3>5. CASE k \in 1 .. Len(out)
      <4>1. k > 1 /\ out[k - 1] = [out[k] EXCEPT !.part = "head"]
        BY <3>3, <3>5 DEF ConcurrentInv, RequestsWhole
      <4>2. k - 1 \in 1 .. Len(out)
        BY <3>3, <3>5, <4>1
      <4>3. QED
        BY <3>3, <3>5, <4>1, <4>2
    <3>6. CASE k = Len(out) + 1
      <4>1. out'[k - 1] = Part(i, "head") /\ out'[k] = Part(i, "tail") /\ k > 1
        BY <3>3, <3>4, <3>6
      <4>2. Part(i, "head") = [Part(i, "tail") EXCEPT !.part = "head"]
        BY DEF Part
      <4>3. QED
        BY <4>1, <4>2
    <3>7. QED
      BY <3>3, <3>5, <3>6
  <2>3. QED
    BY <2>1, <2>2
<1>6. FirstInHand'
  BY <1>1, <1>2, FirstKept DEF ConcurrentInv
<1>7. Said' /\ Given'
  <2>1. asked' = asked \/ asked' = asked \cup {i}
    BY DEF Flush
  <2>2. \A j \in asked' : pc'[j] \notin InSend \cup {"unborn"}
    BY <1>1, <1>2, <2>1, SeveralPlaces DEF ConcurrentInv, Said, TypeOK
  <2>3. \A j \in Ids : pc'[j] # "over" => pc[j] # "over"
    BY <1>1, <1>2
  <2>4. QED
    BY <1>1, <2>1, <2>2, <2>3 DEF ConcurrentInv, Said, Given, First
<1>8. Handover'
  BY <1>1, <1>2, HandoverKept, SeveralPlaces DEF ConcurrentInv
<1>9. Awakened'
  BY <1>1, <1>2, AwakenedKept, SeveralPlaces DEF ConcurrentInv, Asleep, InCall
<1>10. QED
  BY <1>3, <1>4, <1>5, <1>6, <1>7, <1>8, <1>9 DEF ConcurrentInv

(* A write throws: all who wait are notified, and a thread about to wait   *)
(* has left a header to one who is still there.                            *)
LEMMA SendThrowsKeeps ==
  ASSUME ConcurrentInv, TypeOK', NEW i \in Ids, SendThrows(i)
  PROVE  ConcurrentInv'
<1>1. /\ pc[i] \in {"write", "flush"} /\ writer' = Nobody
      /\ UNCHANGED <<header, returned, reader, nextseqid, monitors, pending,
                     out, asked, said, inbox, headRead, desync>>
  BY DEF SendThrows, callVars, netVars
<1>2. /\ pc'[i] = "over" /\ wakeup' = TRUE /\ stop' = TRUE
      /\ \A j \in Ids \ {i} : \/ pc'[j] = pc[j]
                              \/ pc'[j] = "woken" /\ pc[j] = "waiting"
      /\ \A j \in monitors : j \in Ids \ {i} => pc'[j] # "waiting"
  BY MarkBadFacts DEF SendThrows, ConcurrentInv, TypeOK
<1>3. Holders'
  <2>1. \A j \in Ids : pc'[j] \in Reading <=> reader' = j
    BY <1>1, <1>2, IdFacts, SeveralPlaces DEF ConcurrentInv, Holders
  <2>2. \A j \in Ids : pc'[j] \in {"write", "flush"} <=> writer' = j
    BY <1>1, <1>2, IdFacts, SeveralPlaces DEF ConcurrentInv, Holders
  <2>3. \A j \in Ids : pc'[j] = "unborn" <=> j >= nextseqid'
    BY <1>1, <1>2, IdFacts, SeveralPlaces DEF ConcurrentInv, Holders
  <2>4. \A j \in Ids : InCall(j)' => j \in monitors'
    BY <1>1, <1>2, IdFacts, SeveralPlaces DEF ConcurrentInv, Holders, InCall
  <2>5. \A j \in monitors' : InCall(j)' \/ stop'
    BY <1>1, <1>2, IdFacts, SeveralPlaces DEF ConcurrentInv, Holders, InCall, TypeOK
  <2>6. QED
    BY <2>1, <2>2, <2>3, <2>4, <2>5 DEF Holders
<1>4. RequestsWhole' /\ LastIsHead'
  BY <1>1, <1>2, WireKept DEF ConcurrentInv
<1>5. FirstInHand'
  BY <1>1, <1>2, FirstKept DEF ConcurrentInv
<1>6. Said' /\ Given'
  BY <1>1, <1>2, SaidKept, SeveralPlaces DEF ConcurrentInv, TypeOK
<1>7. \A j \in Ids : pc'[j] # "waiting"
  <2>1. \A j \in Ids : pc[j] = "waiting" => j \in monitors
    BY SeveralPlaces DEF ConcurrentInv, Holders, InCall
  <2>2. QED
    BY <1>1, <1>2, <2>1
<1>8. Handover'
  BY <1>1, <1>2, <1>7, HandoverKept, SeveralPlaces DEF ConcurrentInv
<1>9. Awakened'
  <2> SUFFICES ASSUME NEW j \in Ids, Asleep(j)'
               PROVE  \E k \in Ids : InCall(k)' /\ ~Asleep(k)'
    BY DEF Awakened
  <2>1. pc[j] = "wait"
    BY <1>2, <1>7 DEF Asleep
  <2>2. pending.id \in Ids /\ pc[pending.id] \in {"recv", "woken"}
    BY <2>1 DEF ConcurrentInv, Handover, Receiving
  <2>3. pc'[pending.id] \in {"recv", "woken"}
    BY <1>1, <1>2, <2>2
  <2>4. QED
    BY <2>2, <2>3, SeveralPlaces DEF InCall, Asleep
<1>10. QED
  BY <1>3, <1>4, <1>5, <1>6, <1>8, <1>9 DEF ConcurrentInv

-----------------------------------------------------------------------------
(***************************************************************************)
(* A call receives                                                         *)
(***************************************************************************)

LEMMA RecvSentryKeeps ==
  ASSUME ConcurrentInv, TypeOK', NEW i \in Ids, RecvSentry(i)
  PROVE  ConcurrentInv'
<1>1. /\ pc[i] = "recv" /\ reader = Nobody /\ reader' = i
      /\ UNCHANGED <<header, returned, writer, nextseqid, monitors, pending,
                     wakeup, stop, out, asked, said, inbox, headRead, desync>>
  BY DEF RecvSentry, callVars, netVars
<1>2. /\ pc'[i] = "get" /\ \A j \in Ids \ {i} : pc'[j] = pc[j]
  BY SeveralPlaces, MoveToFacts DEF RecvSentry, ConcurrentInv, TypeOK
<1>3. \A j \in Ids : pc[j] \notin Reading
  BY <1>1, IdFacts DEF ConcurrentInv, Holders
<1>4. Holders'
  <2>1. \A j \in Ids : pc'[j] \in Reading <=> reader' = j
    BY <1>1, <1>2, <1>3, IdFacts, SeveralPlaces DEF ConcurrentInv, Holders
  <2>2. \A j \in Ids : pc'[j] \in {"write", "flush"} <=> writer' = j
    BY <1>1, <1>2, <1>3, IdFacts, SeveralPlaces DEF ConcurrentInv, Holders
  <2>3. \A j \in Ids : pc'[j] = "unborn" <=> j >= nextseqid'
    BY <1>1, <1>2, <1>3, IdFacts, SeveralPlaces DEF ConcurrentInv, Holders
  <2>4. \A j \in Ids : InCall(j)' => j \in monitors'
    BY <1>1, <1>2, <1>3, IdFacts, SeveralPlaces DEF ConcurrentInv, Holders, InCall
  <2>5. \A j \in monitors' : InCall(j)' \/ stop'
    BY <1>1, <1>2, <1>3, IdFacts, SeveralPlaces DEF ConcurrentInv, Holders, InCall, TypeOK
  <2>6. QED
    BY <2>1, <2>2, <2>3, <2>4, <2>5 DEF Holders
<1>5. RequestsWhole' /\ LastIsHead'
  BY <1>1, <1>2, WireKept DEF ConcurrentInv
<1>6. FirstInHand'
  BY <1>1, <1>2, FirstKept DEF ConcurrentInv
<1>7. Said' /\ Given'
  BY <1>1, <1>2, SaidKept, SeveralPlaces DEF ConcurrentInv, TypeOK
<1>8. Handover'
  <2>1. \A j \in Ids : pc'[j] \notin {"read", "match", "check", "wait"}
    BY <1>2, <1>3, SeveralPlaces
  <2>2. reader' # Nobody
    BY <1>1, IdFacts
  <2>3. ~stop /\ pending # None =>
          pending.id \in Ids /\ pc'[pending.id] \in InRecv \ {"wait", "waiting"}
    BY <1>1, <1>2, SeveralPlaces DEF ConcurrentInv, Handover
  <2>4. QED
    BY <1>1, <2>1, <2>2, <2>3 DEF Handover
<1>9. Awakened'
  BY <1>1, <1>2, AwakenedKept, SeveralPlaces DEF ConcurrentInv, Asleep, InCall
<1>10. QED
  BY <1>4, <1>5, <1>6, <1>7, <1>8, <1>9 DEF ConcurrentInv

LEMMA GetPendingKeeps ==
  ASSUME ConcurrentInv, TypeOK', NEW i \in Ids, GetPending(i)
  PROVE  ConcurrentInv'
<1>1. /\ pc[i] = "get" /\ ~stop /\ pending' = None
      /\ UNCHANGED <<returned, reader, writer, nextseqid, monitors,
                     stop, out, asked, said, inbox, headRead, desync>>
  BY DEF GetPending, netVars
<1>2. /\ pc'[i] = IF pending # None THEN "match" ELSE "read"
      /\ \A j \in Ids \ {i} : pc'[j] = pc[j]
  <2>1. pc \in [Ids -> Places]
    BY DEF ConcurrentInv, TypeOK
  <2>2. CASE pending # None
    BY <2>1, <2>2, SeveralPlaces, MoveToFacts DEF GetPending
  <2>3. CASE pending = None
    BY <2>1, <2>3, SeveralPlaces, MoveToFacts DEF GetPending
  <2>4. QED
    BY <2>2, <2>3
<1>3. reader = i /\ \A j \in Ids \ {i} : pc[j] \notin Reading
  BY <1>1, SeveralPlaces DEF ConcurrentInv, Holders
<1>4. Holders'
  <2>1. \A j \in Ids : pc'[j] \in Reading <=> reader' = j
    BY <1>1, <1>2, <1>3, IdFacts, SeveralPlaces DEF ConcurrentInv, Holders
  <2>2. \A j \in Ids : pc'[j] \in {"write", "flush"} <=> writer' = j
    BY <1>1, <1>2, <1>3, IdFacts, SeveralPlaces DEF ConcurrentInv, Holders
  <2>3. \A j \in Ids : pc'[j] = "unborn" <=> j >= nextseqid'
    BY <1>1, <1>2, <1>3, IdFacts, SeveralPlaces DEF ConcurrentInv, Holders
  <2>4. \A j \in Ids : InCall(j)' => j \in monitors'
    BY <1>1, <1>2, <1>3, IdFacts, SeveralPlaces DEF ConcurrentInv, Holders, InCall
  <2>5. \A j \in monitors' : InCall(j)' \/ stop'
    BY <1>1, <1>2, <1>3, IdFacts, SeveralPlaces DEF ConcurrentInv, Holders, InCall, TypeOK
  <2>6. QED
    BY <2>1, <2>2, <2>3, <2>4, <2>5 DEF Holders
<1>5. RequestsWhole' /\ LastIsHead'
  BY <1>1, <1>2, WireKept DEF ConcurrentInv
<1>6. FirstInHand'
  <2>1. \A j \in Ids \ {i} : pc'[j] \notin {"read", "match"}
    BY <1>2, <1>3, SeveralPlaces
  <2>2. ~desync
    BY <1>1 DEF ConcurrentInv, FirstInHand
  <2>3. CASE pending # None
    <3>1. header'[i] = pending
      BY <2>3 DEF GetPending, ConcurrentInv, TypeOK
    <3>2. inbox # <<>> /\ headRead /\ pending = Head(inbox)
      BY <1>1, <2>3 DEF ConcurrentInv, FirstInHand
    <3>3. QED
      BY <1>1, <1>2, <2>1, <2>2, <2>3, <3>1, <3>2 DEF FirstInHand
  <2>4. CASE pending = None
    <3>1. \A j \in Ids : pc[j] # "match"
      BY <1>1, <1>3, SeveralPlaces
    <3>2. ~headRead
      BY <1>1, <2>4, <3>1 DEF ConcurrentInv, FirstInHand
    <3>3. QED
      BY <1>1, <1>2, <2>1, <2>2, <2>4, <3>2 DEF FirstInHand
  <2>5. QED
    BY <2>3, <2>4
<1>7. Said' /\ Given'
  BY <1>1, <1>2, SaidKept, SeveralPlaces DEF ConcurrentInv, TypeOK
<1>8. Handover'
  <2>1. \A j \in Ids : pc'[j] \notin {"check", "wait"}
    BY <1>2, <1>3, SeveralPlaces
  <2>2. reader' # Nobody
    BY <1>1, <1>3, IdFacts
  <2>3. QED
    BY <1>1, <2>1, <2>2 DEF Handover
<1>9. Awakened'
  BY <1>1, <1>2, AwakenedKept, SeveralPlaces DEF ConcurrentInv, Asleep, InCall
<1>10. QED
  BY <1>4, <1>5, <1>6, <1>7, <1>8, <1>9 DEF ConcurrentInv

(* Whatever makes a call end without a commit, all who wait are notified   *)
(* and nobody reads on.                                                    *)
LEMMA LeftBad ==
  ASSUME ConcurrentInv, TypeOK', NEW i \in Ids, pc[i] \in Reading,
         Leave(i, FALSE), UNCHANGED out
  PROVE  /\ RequestsWhole' /\ Holders' /\ LastIsHead' /\ FirstInHand'
         /\ Handover' /\ Awakened'
<1>1. /\ pc'[i] = "over"
      /\ \A j \in Ids \ {i} : \/ pc'[j] = pc[j]
                              \/ pc'[j] = "woken" /\ pc[j] = "waiting"
      /\ monitors' = monitors \ {i} /\ reader' = Nobody /\ stop' = TRUE
      /\ writer' = writer /\ nextseqid' = nextseqid
      /\ \A j \in monitors' : j \in Ids \ {i} => pc'[j] # "waiting"
  BY LeaveFacts DEF ConcurrentInv
<1>2. reader = i /\ \A j \in Ids \ {i} : pc[j] \notin Reading
  BY DEF ConcurrentInv, Holders
<1>3. \A j \in Ids : pc'[j] \notin Reading
  BY <1>1, <1>2, SeveralPlaces
<1>4. Holders'
  <2>1. \A j \in Ids : pc'[j] \in Reading <=> reader' = j
    BY <1>1, <1>2, <1>3, IdFacts, SeveralPlaces DEF ConcurrentInv, Holders
  <2>2. \A j \in Ids : pc'[j] \in {"write", "flush"} <=> writer' = j
    BY <1>1, <1>2, <1>3, IdFacts, SeveralPlaces DEF ConcurrentInv, Holders
  <2>3. \A j \in Ids : pc'[j] = "unborn" <=> j >= nextseqid'
    BY <1>1, <1>2, <1>3, IdFacts, SeveralPlaces DEF ConcurrentInv, Holders
  <2>4. \A j \in Ids : InCall(j)' => j \in monitors'
    BY <1>1, <1>2, <1>3, IdFacts, SeveralPlaces DEF ConcurrentInv, Holders, InCall
  <2>5. \A j \in monitors' : InCall(j)' \/ stop'
    BY <1>1, <1>2, <1>3, IdFacts, SeveralPlaces DEF ConcurrentInv, Holders, InCall, TypeOK
  <2>6. QED
    BY <2>1, <2>2, <2>3, <2>4, <2>5 DEF Holders
<1>5. RequestsWhole' /\ LastIsHead'
  BY <1>1, WireKept DEF ConcurrentInv
<1>6. FirstInHand'
  BY <1>1, <1>3, SeveralPlaces DEF FirstInHand
<1>7. \A j \in Ids : pc'[j] # "waiting"
  <2>1. \A j \in Ids \ {i} : pc[j] = "waiting" => j \in monitors'
    BY <1>1, SeveralPlaces DEF ConcurrentInv, Holders, InCall
  <2>2. QED
    BY <1>1, <2>1
<1>8. Handover'
  BY <1>1, <1>3, SeveralPlaces DEF Handover
<1>9. Awakened'
  BY <1>3, <1>7, SeveralPlaces DEF Awakened, Asleep
<1>10. QED
  BY <1>4, <1>5, <1>6, <1>8, <1>9

LEMMA DeadConnectionKeeps ==
  ASSUME ConcurrentInv, TypeOK', NEW i \in Ids, DeadConnection(i)
  PROVE  ConcurrentInv'
<1>1. /\ pc[i] \in Reading /\ Leave(i, FALSE)
      /\ UNCHANGED <<out, asked, said, inbox, returned>>
  BY SeveralPlaces DEF DeadConnection, netVars
<1>2. Said' /\ Given'
  BY <1>1, LeaveFacts, SaidKept, SeveralPlaces DEF ConcurrentInv, TypeOK
<1>3. QED
  BY <1>1, <1>2, LeftBad DEF ConcurrentInv

LEMMA ReadThrowsKeeps ==
  ASSUME ConcurrentInv, TypeOK', NEW i \in Ids, ReadThrows(i)
  PROVE  ConcurrentInv'
<1>1. /\ pc[i] \in Reading /\ Leave(i, FALSE)
      /\ UNCHANGED <<out, asked, said, inbox, returned>>
  BY SeveralPlaces DEF ReadThrows
<1>2. Said' /\ Given'
  BY <1>1, LeaveFacts, SaidKept, SeveralPlaces DEF ConcurrentInv, TypeOK
<1>3. QED
  BY <1>1, <1>2, LeftBad DEF ConcurrentInv

LEMMA BadSeqIdKeeps ==
  ASSUME ConcurrentInv, TypeOK', NEW i \in Ids, BadSeqId(i)
  PROVE  ConcurrentInv'
<1>1. /\ pc[i] \in Reading /\ Leave(i, FALSE)
      /\ UNCHANGED <<out, asked, said, inbox, returned>>
  BY SeveralPlaces DEF BadSeqId, netVars
<1>2. Said' /\ Given'
  BY <1>1, LeaveFacts, SaidKept, SeveralPlaces DEF ConcurrentInv, TypeOK
<1>3. QED
  BY <1>1, <1>2, LeftBad DEF ConcurrentInv

LEMMA ReadMessageBeginKeeps ==
  ASSUME ConcurrentInv, TypeOK', NEW i \in Ids, ReadMessageBegin(i)
  PROVE  ConcurrentInv'
<1>1. /\ pc[i] = "read" /\ inbox # <<>> /\ ~desync /\ headRead' = TRUE
      /\ UNCHANGED <<returned, reader, writer, nextseqid, monitors, pending,
                     wakeup, stop, out, asked, said, inbox, desync>>
  BY DEF ReadMessageBegin, syncVars
<1>2. /\ pc'[i] = "match" /\ \A j \in Ids \ {i} : pc'[j] = pc[j]
  BY SeveralPlaces, MoveToFacts DEF ReadMessageBegin, ConcurrentInv, TypeOK
<1>3. reader = i /\ \A j \in Ids \ {i} : pc[j] \notin Reading
  BY <1>1, SeveralPlaces DEF ConcurrentInv, Holders
<1>4. Holders'
  <2>1. \A j \in Ids : pc'[j] \in Reading <=> reader' = j
    BY <1>1, <1>2, <1>3, IdFacts, SeveralPlaces DEF ConcurrentInv, Holders
  <2>2. \A j \in Ids : pc'[j] \in {"write", "flush"} <=> writer' = j
    BY <1>1, <1>2, <1>3, IdFacts, SeveralPlaces DEF ConcurrentInv, Holders
  <2>3. \A j \in Ids : pc'[j] = "unborn" <=> j >= nextseqid'
    BY <1>1, <1>2, <1>3, IdFacts, SeveralPlaces DEF ConcurrentInv, Holders
  <2>4. \A j \in Ids : InCall(j)' => j \in monitors'
    BY <1>1, <1>2, <1>3, IdFacts, SeveralPlaces DEF ConcurrentInv, Holders, InCall
  <2>5. \A j \in monitors' : InCall(j)' \/ stop'
    BY <1>1, <1>2, <1>3, IdFacts, SeveralPlaces DEF ConcurrentInv, Holders, InCall, TypeOK
  <2>6. QED
    BY <2>1, <2>2, <2>3, <2>4, <2>5 DEF Holders
<1>5. RequestsWhole' /\ LastIsHead'
  BY <1>1, <1>2, WireKept DEF ConcurrentInv
<1>6. FirstInHand'
  <2>1. \A j \in Ids \ {i} : pc'[j] \notin {"read", "match"}
    BY <1>2, <1>3, SeveralPlaces
  <2>2. header'[i] = Head(inbox)
    BY DEF ReadMessageBegin, ConcurrentInv, TypeOK
  <2>3. pending = None
    BY <1>1 DEF ConcurrentInv, FirstInHand
  <2>4. QED
    BY <1>1, <1>2, <2>1, <2>2, <2>3 DEF FirstInHand
<1>7. Said' /\ Given'
  BY <1>1, <1>2, SaidKept, SeveralPlaces DEF ConcurrentInv, TypeOK
<1>8. Handover'
  <2>1. \A j \in Ids : pc'[j] \notin {"check", "wait"}
    BY <1>2, <1>3, SeveralPlaces
  <2>2. reader' # Nobody /\ pending = None
    BY <1>1, <1>3, IdFacts DEF ConcurrentInv, FirstInHand
  <2>3. stop => \A j \in Ids : pc'[j] # "waiting"
    BY <1>1, <1>2 DEF ConcurrentInv, Handover
  <2>4. QED
    BY <1>1, <2>1, <2>2, <2>3 DEF Handover
<1>9. Awakened'
  BY <1>1, <1>2, AwakenedKept, SeveralPlaces DEF ConcurrentInv, Asleep, InCall
<1>10. QED
  BY <1>4, <1>5, <1>6, <1>7, <1>8, <1>9 DEF ConcurrentInv

(* What a call finds that has the header for itself: the message in the    *)
(* stream is what the server said first to its request.                    *)
LEMMA MineIsFirst ==
  ASSUME ConcurrentInv, NEW i \in Ids, pc[i] = "match", IsMine(i)
  PROVE  /\ inbox # <<>> /\ Head(inbox).id = i /\ Head(inbox) = said[i]
         /\ i \in asked /\ pending = None /\ ~desync
<1>1. inbox # <<>> /\ header[i] = Head(inbox) /\ pending = None /\ ~desync
  BY DEF ConcurrentInv, FirstInHand
<1>2. Head(inbox).id = i
  BY <1>1 DEF IsMine
<1>3. 1 \in 1 .. Len(inbox) /\ Head(inbox) = inbox[1]
  BY <1>1 DEF ConcurrentInv, TypeOK
<1>4. First(inbox, i, 1)
  BY <1>2, <1>3 DEF First
<1>5. inbox[1] = said[i]
  BY <1>3, <1>4 DEF ConcurrentInv, Said
<1>6. i \in asked
  BY <1>2, <1>3 DEF ConcurrentInv, Said
<1>7. QED
  BY <1>1, <1>2, <1>3, <1>5, <1>6

(* The message for i is taken from the stream, and i returns or fails.     *)
LEMMA TakenKeepsSaid ==
  ASSUME ConcurrentInv, TypeOK', NEW i \in Ids, pc[i] = "match", IsMine(i),
         NEW whole \in BOOLEAN, NEW committed \in BOOLEAN,
         ReadBody(whole), Leave(i, committed),
         \/ UNCHANGED returned
         \/ returned' = [returned EXCEPT ![i] = Head(inbox)]
  PROVE  Said' /\ Given'
<1>1. /\ pc'[i] = "over"
      /\ \A j \in Ids \ {i} : \/ pc'[j] = pc[j]
                              \/ pc'[j] = "woken" /\ pc[j] = "waiting"
  BY LeaveFacts DEF ConcurrentInv
<1>2. /\ UNCHANGED <<asked, said>>
      /\ inbox # <<>> /\ Head(inbox).id = i /\ Head(inbox) = said[i]
      /\ inbox' = inbox \/ inbox' = Tail(inbox)
      /\ inbox \in Seq(Messages)
  BY MineIsFirst, BodyFacts DEF ConcurrentInv, TypeOK
<1>3. \A j \in asked : pc'[j] \notin InSend \cup {"unborn"}
  BY <1>1, SeveralPlaces DEF ConcurrentInv, TypeOK, Said
<1>4. \A j \in Ids : pc'[j] # "over" => j # i /\ pc[j] # "over"
  BY <1>1
<1>5. Said'
  <2>1. CASE inbox' = inbox
    BY <1>2, <1>3, <1>4, <2>1 DEF ConcurrentInv, Said, First
  <2>2. CASE inbox' = Tail(inbox)
    <3>1. /\ Len(inbox) \in Nat /\ Len(inbox) >= 1 /\ Len(inbox') = Len(inbox) - 1
          /\ \A k \in 1 .. Len(inbox') : inbox'[k] = inbox[k + 1]
          /\ inbox[1] = Head(inbox)
      BY <1>2, <2>2
    <3>2. \A k \in 1 .. Len(inbox') : said[inbox'[k].id] # None
      BY <3>1 DEF ConcurrentInv, Said
    <3>3. ASSUME NEW j \in Ids, pc'[j] # "over"
          PROVE  /\ \A k \in 1 .. Len(inbox') :
                      First(inbox', j, k) => inbox'[k] = said[j]
                 /\ said[j] # None => \E k \in 1 .. Len(inbox') : inbox'[k].id = j
      <4>1. j # i /\ pc[j] # "over"
        BY <1>4, <3>3
      <4>2. ASSUME NEW k \in 1 .. Len(inbox'), First(inbox', j, k)
            PROVE  inbox'[k] = said[j]
        <5>1. k + 1 \in 1 .. Len(inbox) /\ inbox[k + 1].id = j
          BY <3>1, <4>2 DEF First
        <5>2. ASSUME NEW l \in 1 .. k + 1 - 1 PROVE inbox[l].id # j
          <6>1. CASE l = 1
            BY <1>2, <3>1, <4>1, <6>1
          <6>2. CASE l # 1
            <7>1. l - 1 \in 1 .. k - 1 /\ l - 1 \in 1 .. Len(inbox') /\ l - 1 + 1 = l
              BY <3>1, <6>2
            <7>2. inbox'[l - 1].id # j /\ inbox'[l - 1] = inbox[l - 1 + 1]
              BY <3>1, <4>2, <7>1 DEF First
            <7>3. QED
              BY <7>1, <7>2
          <6>3. QED
            BY <6>1, <6>2
        <5>3. First(inbox, j, k + 1)
          BY <5>1, <5>2 DEF First
        <5>4. inbox[k + 1] = said[j]
          BY <4>1, <5>1, <5>3 DEF ConcurrentInv, Said
        <5>5. QED
          BY <3>1, <5>4
      <4>3. ASSUME said[j] # None
            PROVE  \E k \in 1 .. Len(inbox') : inbox'[k].id = j
        <5>1. PICK k \in 1 .. Len(inbox) : inbox[k].id = j
          BY <4>1, <4>3 DEF ConcurrentInv, Said
        <5>2. k # 1
          BY <1>2, <3>1, <4>1, <5>1
        <5>3. k - 1 \in 1 .. Len(inbox') /\ k - 1 + 1 = k
          BY <3>1, <5>2
        <5>4. inbox'[k - 1].id = j
          BY <3>1, <5>1, <5>3
        <5>5. QED
          BY <5>3, <5>4
      <4>4. QED
        BY <4>2, <4>3
    <3>4. QED
      BY <1>2, <1>3, <3>2, <3>3 DEF ConcurrentInv, Said
  <2>3. QED
    BY <1>2, <2>1, <2>2
<1>6. Given'
  BY <1>2, <1>4 DEF ConcurrentInv, Given, TypeOK
<1>7. QED
  BY <1>5, <1>6

LEMMA FailsKeeps ==
  ASSUME ConcurrentInv, TypeOK', NEW i \in Ids, Fails(i)
  PROVE  ConcurrentInv'
<1>1. Readable(Head(inbox).kind) \in BOOLEAN
  BY DEF Readable
<1>2. Said' /\ Given'
  BY <1>1, TakenKeepsSaid DEF Fails
<1>3. pc[i] \in Reading /\ Leave(i, FALSE) /\ UNCHANGED out
  BY SeveralPlaces DEF Fails, ReadBody
<1>4. QED
  BY <1>2, <1>3, LeftBad DEF ConcurrentInv

(* A call returns: the one it notifies is there, unless the connection has *)
(* gone bad, and then nobody waits.                                        *)
LEMMA ReturnsKeeps ==
  ASSUME ConcurrentInv, TypeOK', NEW i \in Ids, Returns(i)
  PROVE  ConcurrentInv'
<1>1. /\ pc'[i] = "over"
      /\ \A j \in Ids \ {i} : \/ pc'[j] = pc[j]
                              \/ pc'[j] = "woken" /\ pc[j] = "waiting"
      /\ monitors' = monitors \ {i} /\ reader' = Nobody /\ wakeup' = TRUE
      /\ UNCHANGED <<writer, nextseqid, stop>>
      /\ monitors' # {} => \E last \in monitors' :
           last \in Ids \ {i} /\ pc[last] = "waiting" => pc'[last] = "woken"
  BY LeaveFacts DEF ConcurrentInv, Returns
<1>2. pc[i] = "match" /\ IsMine(i) /\ ReadBody(TRUE)
  BY DEF Returns
<1>3. reader = i /\ \A j \in Ids \ {i} : pc[j] \notin Reading
  BY <1>2, SeveralPlaces DEF ConcurrentInv, Holders
<1>4. \A j \in Ids : pc'[j] \notin Reading
  BY <1>1, <1>3, SeveralPlaces
<1>5. /\ pending' = None /\ headRead' = FALSE /\ ~desync'
      /\ UNCHANGED out
  BY <1>2, MineIsFirst, BodyFacts DEF ConcurrentInv
<1>6. Holders'
  <2>1. \A j \in Ids : pc'[j] \in Reading <=> reader' = j
    BY <1>1, <1>2, <1>3, <1>4, IdFacts, SeveralPlaces DEF ConcurrentInv, Holders
  <2>2. \A j \in Ids : pc'[j] \in {"write", "flush"} <=> writer' = j
    BY <1>1, <1>2, <1>3, <1>4, IdFacts, SeveralPlaces DEF ConcurrentInv, Holders
  <2>3. \A j \in Ids : pc'[j] = "unborn" <=> j >= nextseqid'
    BY <1>1, <1>2, <1>3, <1>4, IdFacts, SeveralPlaces DEF ConcurrentInv, Holders
  <2>4. \A j \in Ids : InCall(j)' => j \in monitors'
    BY <1>1, <1>2, <1>3, <1>4, IdFacts, SeveralPlaces DEF ConcurrentInv, Holders, InCall
  <2>5. \A j \in monitors' : InCall(j)' \/ stop'
    BY <1>1, <1>2, <1>3, <1>4, IdFacts, SeveralPlaces DEF ConcurrentInv, Holders, InCall, TypeOK
  <2>6. QED
    BY <2>1, <2>2, <2>3, <2>4, <2>5 DEF Holders
<1>7. RequestsWhole' /\ LastIsHead'
  BY <1>1, <1>5, WireKept DEF ConcurrentInv
<1>8. FirstInHand'
  BY <1>4, <1>5, SeveralPlaces DEF FirstInHand
<1>9. Said' /\ Given'
  BY <1>2, TakenKeepsSaid DEF Returns
<1>10. Handover'
  BY <1>1, <1>4, <1>5, SeveralPlaces DEF Handover
<1>11. Awakened'
  <2> SUFFICES ASSUME NEW k \in Ids, Asleep(k)'
               PROVE  \E j \in Ids : InCall(j)' /\ ~Asleep(j)'
    BY DEF Awakened
  <2>1. pc[k] = "waiting" /\ k # i
    BY <1>1, <1>4, SeveralPlaces DEF Asleep
  <2>2. ~stop
    BY <1>2, <2>1 DEF ConcurrentInv, Handover
  <2>3. k \in monitors'
    BY <1>1, <2>1, SeveralPlaces DEF ConcurrentInv, Holders, InCall
  <2>4. PICK last \in monitors' :
          last \in Ids \ {i} /\ pc[last] = "waiting" => pc'[last] = "woken"
    BY <1>1, <2>3
  <2>5. last \in Ids \ {i} /\ InCall(last)
    BY <1>1, <2>2 DEF ConcurrentInv, Holders, TypeOK
  <2>6. InCall(last)' /\ pc'[last] # "waiting"
    BY <1>1, <2>4, <2>5, SeveralPlaces DEF InCall
  <2>7. ~Asleep(last)'
    BY <1>4, <2>5, <2>6, SeveralPlaces DEF Asleep
  <2>8. QED
    BY <2>5, <2>6, <2>7
<1>12. QED
  BY <1>6, <1>7, <1>8, <1>9, <1>10, <1>11 DEF ConcurrentInv

LEMMA UpdatePendingKeeps ==
  ASSUME ConcurrentInv, TypeOK', NEW i \in Ids, UpdatePending(i)
  PROVE  ConcurrentInv'
<1> DEFINE k == header[i].id
<1>1. /\ pc[i] = "match" /\ k # i /\ k \in monitors /\ pending' = header[i]
      /\ UNCHANGED <<returned, reader, writer, nextseqid, monitors, wakeup,
                     stop, out, asked, said, inbox, headRead, desync>>
  BY DEF UpdatePending, IsMine, netVars
<1>2. /\ pc'[i] = "check"
      /\ \A j \in Ids \ {i} : \/ pc'[j] = pc[j]
                              \/ pc'[j] = "woken" /\ pc[j] = "waiting"
      /\ k \in Ids /\ pc[k] = "waiting" => pc'[k] = "woken"
  BY <1>1, SeveralPlaces, MoveFacts DEF UpdatePending, ConcurrentInv, TypeOK
<1>3. reader = i /\ \A j \in Ids \ {i} : pc[j] \notin Reading
  BY <1>1, SeveralPlaces DEF ConcurrentInv, Holders
<1>4. /\ inbox # <<>> /\ headRead /\ header[i] = Head(inbox) /\ ~desync
      /\ header[i] # None
  BY <1>1, FirstMessage, IdFacts DEF ConcurrentInv, FirstInHand
<1>5. k \in Ids /\ k \in asked
  <2>1. 1 \in 1 .. Len(inbox) /\ Head(inbox) = inbox[1]
    BY <1>4 DEF ConcurrentInv, TypeOK
  <2>2. k \in Ids
    BY <1>1 DEF ConcurrentInv, TypeOK
  <2>3. QED
    BY <1>4, <2>1, <2>2 DEF ConcurrentInv, Said
<1> HIDE DEF k
<1>6. Holders'
  <2>1. \A j \in Ids : pc'[j] \in Reading <=> reader' = j
    BY <1>1, <1>2, <1>3, IdFacts, SeveralPlaces DEF ConcurrentInv, Holders
  <2>2. \A j \in Ids : pc'[j] \in {"write", "flush"} <=> writer' = j
    BY <1>1, <1>2, <1>3, IdFacts, SeveralPlaces DEF ConcurrentInv, Holders
  <2>3. \A j \in Ids : pc'[j] = "unborn" <=> j >= nextseqid'
    BY <1>1, <1>2, <1>3, IdFacts, SeveralPlaces DEF ConcurrentInv, Holders
  <2>4. \A j \in Ids : InCall(j)' => j \in monitors'
    BY <1>1, <1>2, <1>3, IdFacts, SeveralPlaces DEF ConcurrentInv, Holders, InCall
  <2>5. \A j \in monitors' : InCall(j)' \/ stop'
    BY <1>1, <1>2, <1>3, IdFacts, SeveralPlaces DEF ConcurrentInv, Holders, InCall, TypeOK
  <2>6. QED
    BY <2>1, <2>2, <2>3, <2>4, <2>5 DEF Holders
<1>7. RequestsWhole' /\ LastIsHead'
  BY <1>1, <1>2, WireKept DEF ConcurrentInv
<1>8. FirstInHand'
  <2>1. \A j \in Ids : pc'[j] \notin {"read", "match"}
    BY <1>2, <1>3, SeveralPlaces
  <2>2. QED
    BY <1>1, <1>4, <2>1 DEF FirstInHand
<1>9. Said' /\ Given'
  BY <1>1, <1>2, SaidKept, SeveralPlaces DEF ConcurrentInv, TypeOK
<1>10. Handover'
  <2>1. \A j \in Ids : pc'[j] \notin {"read", "match", "wait"}
    BY <1>2, <1>3, SeveralPlaces
  <2>2. ~stop => pc'[k] \in InRecv \ {"wait", "waiting"}
    <3>1. ~stop => InCall(k)
      BY <1>1 DEF ConcurrentInv, Holders
    <3>2. pc[k] \notin InSend
      BY <1>5 DEF ConcurrentInv, Said
    <3>3. QED
      BY <1>1, <1>2, <1>5, <2>1, <3>1, <3>2, SeveralPlaces DEF InCall
  <2>3. pending' # None /\ pending'.id = k
    BY <1>1, <1>4 DEF k
  <2>4. QED
    BY <1>1, <1>5, <2>1, <2>2, <2>3 DEF Handover
<1>11. Awakened'
  BY <1>2, SeveralPlaces DEF Awakened, Asleep, InCall
<1>12. QED
  BY <1>6, <1>7, <1>8, <1>9, <1>10, <1>11 DEF ConcurrentInv

(* A thread goes to wait only when a header was left to one who is awake.  *)
LEMMA WaitForWorkKeeps ==
  ASSUME ConcurrentInv, TypeOK', NEW i \in Ids, WaitForWork(i)
  PROVE  ConcurrentInv'
<1>1. /\ pc[i] = "check" /\ ~stop
      /\ UNCHANGED <<header, returned, reader, writer, nextseqid, monitors,
                     pending, wakeup, stop, out, asked, said, inbox, headRead,
                     desync>>
  BY DEF WaitForWork, callVars, netVars, syncVars
<1>2. /\ \A j \in Ids \ {i} : pc'[j] = pc[j]
      /\ \/ pc'[i] = "get" 
         \/ pc'[i] = "wait" /\ ~wakeup /\ pending.id # i
  <2>1. pc \in [Ids -> Places]
    BY DEF ConcurrentInv, TypeOK
  <2>2. CASE wakeup \/ pending.id = i
    BY <2>1, <2>2, SeveralPlaces, MoveToFacts DEF WaitForWork
  <2>3. CASE ~(wakeup \/ pending.id = i)
    BY <2>1, <2>3, SeveralPlaces, MoveToFacts DEF WaitForWork
  <2>4. QED
    BY <2>2, <2>3
<1>3. reader = i /\ \A j \in Ids \ {i} : pc[j] \notin Reading
  BY <1>1, SeveralPlaces DEF ConcurrentInv, Holders
<1>4. Holders'
  <2>1. \A j \in Ids : pc'[j] \in Reading <=> reader' = j
    BY <1>1, <1>2, <1>3, IdFacts, SeveralPlaces DEF ConcurrentInv, Holders
  <2>2. \A j \in Ids : pc'[j] \in {"write", "flush"} <=> writer' = j
    BY <1>1, <1>2, <1>3, IdFacts, SeveralPlaces DEF ConcurrentInv, Holders
  <2>3. \A j \in Ids : pc'[j] = "unborn" <=> j >= nextseqid'
    BY <1>1, <1>2, <1>3, IdFacts, SeveralPlaces DEF ConcurrentInv, Holders
  <2>4. \A j \in Ids : InCall(j)' => j \in monitors'
    BY <1>1, <1>2, <1>3, IdFacts, SeveralPlaces DEF ConcurrentInv, Holders, InCall
  <2>5. \A j \in monitors' : InCall(j)' \/ stop'
    BY <1>1, <1>2, <1>3, IdFacts, SeveralPlaces DEF ConcurrentInv, Holders, InCall, TypeOK
  <2>6. QED
    BY <2>1, <2>2, <2>3, <2>4, <2>5 DEF Holders
<1>5. RequestsWhole' /\ LastIsHead'
  BY <1>1, <1>2, WireKept DEF ConcurrentInv
<1>6. FirstInHand'
  BY <1>1, <1>2, FirstKept DEF ConcurrentInv
<1>7. Said' /\ Given'
  BY <1>1, <1>2, SaidKept, SeveralPlaces DEF ConcurrentInv, TypeOK
<1>8. pc'[i] = "wait" =>
        pending # None /\ pending.id \in Ids /\ pending.id # i
          /\ pc[pending.id] \in {"recv", "woken"}
          /\ pc'[pending.id] \in {"recv", "woken"}
  <2> SUFFICES ASSUME pc'[i] = "wait"
               PROVE  pending # None /\ pending.id \in Ids /\ pending.id # i
                        /\ pc[pending.id] \in {"recv", "woken"}
                        /\ pc'[pending.id] \in {"recv", "woken"}
    OBVIOUS
  <2>1. pending # None
    BY <1>1, <1>2 DEF ConcurrentInv, Handover
  <2>2. pending.id \in Ids /\ pc[pending.id] \in InRecv \ {"wait", "waiting"}
    BY <1>1, <2>1 DEF ConcurrentInv, Handover
  <2>3. pending.id # i
    BY <1>2
  <2>4. QED
    BY <1>2, <1>3, <2>1, <2>2, <2>3, SeveralPlaces
<1>9. Handover'
  <2>1. \A j \in Ids \ {i} : pc'[j] \notin {"read", "match", "check", "wait"}
    BY <1>2, <1>3, SeveralPlaces
  <2>2. pending # None =>
          pending.id \in Ids /\ pc'[pending.id] \in InRecv \ {"wait", "waiting"}
    <3> SUFFICES ASSUME pending # None
                 PROVE  pending.id \in Ids
                          /\ pc'[pending.id] \in InRecv \ {"wait", "waiting"}
      OBVIOUS
    <3>1. pending.id \in Ids /\ pc[pending.id] \in InRecv \ {"wait", "waiting"}
      BY <1>1 DEF ConcurrentInv, Handover
    <3>2. CASE pending.id = i
      BY <1>2, <3>1, <3>2, SeveralPlaces
    <3>3. CASE pending.id # i
      BY <1>2, <3>1, <3>3
    <3>4. QED
      BY <3>2, <3>3
  <2>3. reader # Nobody
    BY <1>3, IdFacts
  <2>4. pc'[i] \notin {"read", "match", "check"}
    BY <1>2
  <2>5. (\E r \in Ids : pc'[r] \in {"check", "wait"}) => pending # None
    BY <1>8, <2>1, <2>4
  <2>6. \A j \in Ids : pc'[j] = "wait" => j = i
    BY <2>1
  <2>7. QED
    BY <1>1, <1>8, <2>1, <2>2, <2>3, <2>5, <2>6 DEF Handover, Receiving
<1>10. Awakened'
  <2>1. CASE pc'[i] = "get"
    BY <2>1, SeveralPlaces DEF Awakened, Asleep, InCall
  <2>2. CASE pc'[i] = "wait"
    BY <1>8, <2>2, SeveralPlaces DEF Awakened, Asleep, InCall
  <2>3. QED
    BY <1>2, <2>1, <2>2
<1>11. QED
  BY <1>4, <1>5, <1>6, <1>7, <1>9, <1>10 DEF ConcurrentInv

LEMMA WaitKeeps ==
  ASSUME ConcurrentInv, TypeOK', NEW i \in Ids, Wait(i)
  PROVE  ConcurrentInv'
<1>1. /\ pc[i] = "wait" /\ reader' = Nobody
      /\ UNCHANGED <<header, returned, writer, nextseqid, monitors, pending,
                     wakeup, stop, out, asked, said, inbox, headRead, desync>>
  BY DEF Wait, callVars, netVars
<1>2. /\ pc'[i] = "waiting" /\ \A j \in Ids \ {i} : pc'[j] = pc[j]
  BY SeveralPlaces, MoveToFacts DEF Wait, ConcurrentInv, TypeOK
<1>3. reader = i /\ \A j \in Ids \ {i} : pc[j] \notin Reading
  BY <1>1, SeveralPlaces DEF ConcurrentInv, Holders
<1>4. Holders'
  <2>1. \A j \in Ids : pc'[j] \in Reading <=> reader' = j
    BY <1>1, <1>2, <1>3, IdFacts, SeveralPlaces DEF ConcurrentInv, Holders
  <2>2. \A j \in Ids : pc'[j] \in {"write", "flush"} <=> writer' = j
    BY <1>1, <1>2, <1>3, IdFacts, SeveralPlaces DEF ConcurrentInv, Holders
  <2>3. \A j \in Ids : pc'[j] = "unborn" <=> j >= nextseqid'
    BY <1>1, <1>2, <1>3, IdFacts, SeveralPlaces DEF ConcurrentInv, Holders
  <2>4. \A j \in Ids : InCall(j)' => j \in monitors'
    BY <1>1, <1>2, <1>3, IdFacts, SeveralPlaces DEF ConcurrentInv, Holders, InCall
  <2>5. \A j \in monitors' : InCall(j)' \/ stop'
    BY <1>1, <1>2, <1>3, IdFacts, SeveralPlaces DEF ConcurrentInv, Holders, InCall, TypeOK
  <2>6. QED
    BY <2>1, <2>2, <2>3, <2>4, <2>5 DEF Holders
<1>5. RequestsWhole' /\ LastIsHead'
  BY <1>1, <1>2, WireKept DEF ConcurrentInv
<1>6. FirstInHand'
  BY <1>1, <1>2, FirstKept DEF ConcurrentInv
<1>7. Said' /\ Given'
  BY <1>1, <1>2, SaidKept, SeveralPlaces DEF ConcurrentInv, TypeOK
<1>8. pending # None /\ pending.id \in Ids /\ pc'[pending.id] \in {"recv", "woken"}
  BY <1>1, <1>2 DEF ConcurrentInv, Handover, Receiving
<1>9. Handover'
  <2>1. \A j \in Ids : pc'[j] \notin {"read", "match", "check", "wait"}
    BY <1>2, <1>3, SeveralPlaces
  <2>2. QED
    BY <1>1, <1>8, <2>1, SeveralPlaces DEF Handover
<1>10. Awakened'
  BY <1>8, SeveralPlaces DEF Awakened, Asleep, InCall
<1>11. QED
  BY <1>4, <1>5, <1>6, <1>7, <1>9, <1>10 DEF ConcurrentInv

LEMMA AwakeKeeps ==
  ASSUME ConcurrentInv, TypeOK', NEW i \in Ids, Awake(i)
  PROVE  ConcurrentInv'
<1>1. /\ pc[i] = "woken" /\ reader = Nobody /\ reader' = i
      /\ UNCHANGED <<header, returned, writer, nextseqid, monitors, pending,
                     wakeup, stop, out, asked, said, inbox, headRead, desync>>
  BY DEF Awake, callVars, netVars
<1>2. /\ pc'[i] = "check" /\ \A j \in Ids \ {i} : pc'[j] = pc[j]
  BY SeveralPlaces, MoveToFacts DEF Awake, ConcurrentInv, TypeOK
<1>3. \A j \in Ids : pc[j] \notin Reading
  BY <1>1, IdFacts DEF ConcurrentInv, Holders
<1>4. Holders'
  <2>1. \A j \in Ids : pc'[j] \in Reading <=> reader' = j
    BY <1>1, <1>2, <1>3, IdFacts, SeveralPlaces DEF ConcurrentInv, Holders
  <2>2. \A j \in Ids : pc'[j] \in {"write", "flush"} <=> writer' = j
    BY <1>1, <1>2, <1>3, IdFacts, SeveralPlaces DEF ConcurrentInv, Holders
  <2>3. \A j \in Ids : pc'[j] = "unborn" <=> j >= nextseqid'
    BY <1>1, <1>2, <1>3, IdFacts, SeveralPlaces DEF ConcurrentInv, Holders
  <2>4. \A j \in Ids : InCall(j)' => j \in monitors'
    BY <1>1, <1>2, <1>3, IdFacts, SeveralPlaces DEF ConcurrentInv, Holders, InCall
  <2>5. \A j \in monitors' : InCall(j)' \/ stop'
    BY <1>1, <1>2, <1>3, IdFacts, SeveralPlaces DEF ConcurrentInv, Holders, InCall, TypeOK
  <2>6. QED
    BY <2>1, <2>2, <2>3, <2>4, <2>5 DEF Holders
<1>5. RequestsWhole' /\ LastIsHead'
  BY <1>1, <1>2, WireKept DEF ConcurrentInv
<1>6. FirstInHand'
  BY <1>1, <1>2, FirstKept DEF ConcurrentInv
<1>7. Said' /\ Given'
  BY <1>1, <1>2, SaidKept, SeveralPlaces DEF ConcurrentInv, TypeOK
<1>8. Handover'
  <2>1. \A j \in Ids : pc'[j] \notin {"read", "match", "wait"}
    BY <1>2, <1>3, SeveralPlaces
  <2>2. ~stop => wakeup \/ pending # None
    BY <1>1 DEF ConcurrentInv, Handover
  <2>3. ~stop /\ pending # None =>
          pending.id \in Ids /\ pc'[pending.id] \in InRecv \ {"wait", "waiting"}
    BY <1>1, <1>2, SeveralPlaces DEF ConcurrentInv, Handover
  <2>4. QED
    BY <1>1, <2>1, <2>2, <2>3 DEF Handover
<1>9. Awakened'
  BY <1>2, SeveralPlaces DEF Awakened, Asleep, InCall
<1>10. QED
  BY <1>4, <1>5, <1>6, <1>7, <1>8, <1>9 DEF ConcurrentInv

-----------------------------------------------------------------------------
(***************************************************************************)
(* What is around the calls                                                *)
(***************************************************************************)

LEMMA SpuriousWakeupKeeps ==
  ASSUME ConcurrentInv, TypeOK', NEW i \in Ids, SpuriousWakeup(i)
  PROVE  ConcurrentInv'
<1>1. /\ pc[i] = "waiting"
      /\ UNCHANGED <<header, returned, reader, writer, nextseqid, monitors,
                     pending, wakeup, stop, out, asked, said, inbox, headRead,
                     desync>>
  BY DEF SpuriousWakeup, callVars, netVars, syncVars
<1>2. /\ pc'[i] = "woken" /\ \A j \in Ids \ {i} : pc'[j] = pc[j]
  BY DEF SpuriousWakeup, ConcurrentInv, TypeOK
<1>3. Holders'
  <2>1. \A j \in Ids : pc'[j] \in Reading <=> reader' = j
    BY <1>1, <1>2, IdFacts, SeveralPlaces DEF ConcurrentInv, Holders
  <2>2. \A j \in Ids : pc'[j] \in {"write", "flush"} <=> writer' = j
    BY <1>1, <1>2, IdFacts, SeveralPlaces DEF ConcurrentInv, Holders
  <2>3. \A j \in Ids : pc'[j] = "unborn" <=> j >= nextseqid'
    BY <1>1, <1>2, IdFacts, SeveralPlaces DEF ConcurrentInv, Holders
  <2>4. \A j \in Ids : InCall(j)' => j \in monitors'
    BY <1>1, <1>2, IdFacts, SeveralPlaces DEF ConcurrentInv, Holders, InCall
  <2>5. \A j \in monitors' : InCall(j)' \/ stop'
    BY <1>1, <1>2, IdFacts, SeveralPlaces DEF ConcurrentInv, Holders, InCall, TypeOK
  <2>6. QED
    BY <2>1, <2>2, <2>3, <2>4, <2>5 DEF Holders
<1>4. RequestsWhole' /\ LastIsHead'
  BY <1>1, <1>2, WireKept DEF ConcurrentInv
<1>5. FirstInHand'
  BY <1>1, <1>2, FirstKept DEF ConcurrentInv
<1>6. Said' /\ Given'
  BY <1>1, <1>2, SaidKept, SeveralPlaces DEF ConcurrentInv, TypeOK
<1>7. Handover'
  BY <1>1, <1>2, HandoverKept, SeveralPlaces DEF ConcurrentInv
<1>8. Awakened'
  BY <1>1, <1>2, AwakenedKept, SeveralPlaces DEF ConcurrentInv, Asleep, InCall
<1>9. QED
  BY <1>3, <1>4, <1>5, <1>6, <1>7, <1>8 DEF ConcurrentInv

(* The server answers, or answers once more: the first answer stays first. *)
LEMMA SayKeeps ==
  ASSUME ConcurrentInv, TypeOK', NEW a \in Messages, Say(a)
  PROVE  ConcurrentInv'
<1>1. /\ a.id \in asked /\ inbox' = Append(inbox, a)
      /\ UNCHANGED <<pc, header, returned, reader, writer, nextseqid, monitors,
                     pending, wakeup, stop, out, asked, headRead, desync>>
  BY DEF Say, callVars, syncVars
<1>2. Holders' /\ RequestsWhole' /\ LastIsHead' /\ Handover' /\ Awakened'
  BY <1>1 DEF ConcurrentInv, Holders, RequestsWhole, LastIsHead, Handover,
              Awakened, InCall, Asleep, Receiving
<1>3. /\ Len(inbox) \in Nat /\ Len(inbox') = Len(inbox) + 1
      /\ \A k \in 1 .. Len(inbox) : inbox'[k] = inbox[k]
      /\ inbox'[Len(inbox) + 1] = a
      /\ inbox' # <<>> /\ (inbox # <<>> => Head(inbox') = Head(inbox))
  BY <1>1 DEF ConcurrentInv, TypeOK
<1>4. FirstInHand'
  BY <1>1, <1>3 DEF ConcurrentInv, FirstInHand
<1>5. a.id \in Ids /\ a # None /\ said \in [Ids -> Messages \cup {None}]
  BY <1>1, IdFacts DEF ConcurrentInv, TypeOK
<1>6. /\ \A j \in Ids \ {a.id} : said'[j] = said[j]
      /\ said'[a.id] = IF said[a.id] = None THEN a ELSE said[a.id]
  BY <1>5 DEF Say
<1>7. Given'
  BY <1>1, <1>5, <1>6 DEF ConcurrentInv, Given
<1>8. Said'
  <2>1. \A i \in asked : pc[i] \notin InSend \cup {"unborn"}
    BY DEF ConcurrentInv, Said
  <2>2. \A i \in Ids : said'[i] # None => i \in asked /\ said'[i].id = i
    BY <1>1, <1>5, <1>6 DEF ConcurrentInv, Said
  <2>3. \A k \in 1 .. Len(inbox') : said'[inbox'[k].id] # None
    <3>1. said'[a.id] # None
      BY <1>5, <1>6
    <3>2. ASSUME NEW k \in 1 .. Len(inbox) PROVE said'[inbox[k].id] # None
      <4>1. inbox[k].id \in Ids /\ said[inbox[k].id] # None
        <5>1. inbox \in Seq(Messages)
          BY DEF ConcurrentInv, TypeOK
        <5>2. inbox[k] \in Messages
          BY <5>1
        <5>3. inbox[k].id \in Ids
          BY <5>2 DEF Messages
        <5>4. QED
          BY <5>3 DEF ConcurrentInv, Said
      <4>2. QED
        BY <1>6, <3>1, <4>1
    <3>3. QED
      BY <1>3, <3>1, <3>2
  <2>4. ASSUME NEW i \in Ids, pc[i] # "over"
        PROVE  /\ \A k \in 1 .. Len(inbox') :
                    First(inbox', i, k) => inbox'[k] = said'[i]
               /\ said'[i] # None => \E k \in 1 .. Len(inbox') : inbox'[k].id = i
    <3>1. ASSUME NEW k \in 1 .. Len(inbox'), First(inbox', i, k)
          PROVE  inbox'[k] = said'[i]
      <4>1. CASE k \in 1 .. Len(inbox)
        <5>1. First(inbox, i, k)
          BY <1>3, <3>1, <4>1 DEF First
        <5>2. inbox[k] = said[i] /\ inbox[k].id = i
          BY <2>4, <4>1, <5>1 DEF ConcurrentInv, Said, First
        <5>3. said[i] # None
          BY <4>1, <5>2 DEF ConcurrentInv, Said
        <5>4. said'[i] = said[i]
          BY <1>6, <5>3
        <5>5. QED
          BY <1>3, <4>1, <5>2, <5>4
      <4>2. CASE k = Len(inbox) + 1
        <5>1. a.id = i
          BY <1>3, <3>1, <4>2 DEF First
        <5>2. \A l \in 1 .. Len(inbox) : inbox[l].id # i
          BY <1>3, <3>1, <4>2 DEF First
        <5>3. said[i] = None
          BY <2>4, <5>2 DEF ConcurrentInv, Said
        <5>4. QED
          BY <1>3, <1>6, <4>2, <5>1, <5>3
      <4>3. QED
        BY <1>3, <4>1, <4>2
    <3>2. ASSUME said'[i] # None
          PROVE  \E k \in 1 .. Len(inbox') : inbox'[k].id = i
      <4>1. CASE i = a.id
        <5>1. Len(inbox) + 1 \in 1 .. Len(inbox')
          BY <1>3
        <5>2. QED
          BY <1>3, <4>1, <5>1
      <4>2. CASE i # a.id
        <5>1. PICK k \in 1 .. Len(inbox) : inbox[k].id = i
          BY <1>6, <2>4, <3>2, <4>2 DEF ConcurrentInv, Said
        <5>2. k \in 1 .. Len(inbox') /\ inbox'[k].id = i
          BY <1>3, <5>1
        <5>3. QED
          BY <5>2
      <4>3. QED
        BY <4>1, <4>2
    <3>3. QED
      BY <3>1, <3>2
  <2>5. QED
    BY <1>1, <2>1, <2>2, <2>3, <2>4 DEF Said
<1>9. QED
  BY <1>2, <1>4, <1>7, <1>8 DEF ConcurrentInv

LEMMA StutterKeeps ==
  ASSUME ConcurrentInv, UNCHANGED vars
  PROVE  ConcurrentInv'
<1>1. TypeOK' /\ RequestsWhole' /\ Holders' /\ LastIsHead'
  BY DEF ConcurrentInv, TypeOK, RequestsWhole, Holders, LastIsHead, InCall,
         vars, syncVars, netVars, callVars
<1>2. FirstInHand' /\ Said' /\ Given'
  BY DEF ConcurrentInv, FirstInHand, Said, First, Given,
         vars, syncVars, netVars, callVars
<1>3. Handover' /\ Awakened'
  BY DEF ConcurrentInv, Handover, Receiving, Awakened, Asleep, InCall,
         vars, syncVars, netVars, callVars
<1>4. QED
  BY <1>1, <1>2, <1>3 DEF ConcurrentInv

-----------------------------------------------------------------------------
(***************************************************************************)
(* The theorems                                                            *)
(***************************************************************************)

LEMMA InitHolds == Init => ConcurrentInv
<1> SUFFICES ASSUME Init PROVE ConcurrentInv
  OBVIOUS
<1>1. /\ \A i \in Ids : pc[i] = "unborn" /\ header[i] = None
                          /\ returned[i] = None /\ said[i] = None
      /\ reader = Nobody /\ writer = Nobody /\ nextseqid = 1 /\ monitors = {}
      /\ pending = None /\ ~wakeup /\ ~stop /\ ~headRead /\ ~desync
      /\ asked = {} /\ repeats = 0 /\ spurious = 0
      /\ out = <<>> /\ inbox = <<>> /\ Len(out) = 0 /\ Len(inbox) = 0
  BY DEF Init
<1>2. TypeOK
  <2>1. /\ pc \in [Ids -> Places]
        /\ header \in [Ids -> Messages \cup {None}]
        /\ returned \in [Ids -> Answers \cup {None}]
        /\ said \in [Ids -> Messages \cup {None}]
    BY SeveralPlaces DEF Init
  <2>2. nextseqid \in 1 .. MaxId + 1 /\ monitors \subseteq Ids
    BY <1>1, IdsAssumption
  <2>3. repeats \in 0 .. MaxRepeats /\ spurious \in 0 .. MaxSpurious
    BY <1>1, FaultBoundsAssumption
  <2>4. out \in Seq(Parts) /\ inbox \in Seq(Messages)
    BY <1>1
  <2>5. wakeup = FALSE /\ stop = FALSE /\ headRead = FALSE /\ desync = FALSE
    BY DEF Init
  <2>6. QED
    BY <1>1, <2>1, <2>2, <2>3, <2>4, <2>5 DEF TypeOK
<1>3. Holders
  <2>1. \A i \in Ids : i >= 1 /\ i # Nobody
    BY IdsAssumption DEF Ids, Nobody
  <2>2. QED
    BY <1>1, <2>1, SeveralPlaces DEF Holders, InCall
<1>4. RequestsWhole /\ LastIsHead /\ FirstInHand
  BY <1>1 DEF RequestsWhole, LastIsHead, FirstInHand
<1>5. Said /\ Given
  BY <1>1 DEF Said, Given
<1>6. Handover /\ Awakened
  BY <1>1 DEF Handover, Awakened, Asleep
<1>7. QED
  BY <1>2, <1>3, <1>4, <1>5, <1>6 DEF ConcurrentInv

(* Every step keeps the invariant. *)
THEOREM ConcurrentInvHolds == Spec => []ConcurrentInv
<1>1. ConcurrentInv /\ [Next]_vars => ConcurrentInv'
  <2> SUFFICES ASSUME ConcurrentInv, [Next]_vars PROVE ConcurrentInv'
    OBVIOUS
  <2>1. CASE UNCHANGED vars
    BY <2>1, StutterKeeps
  <2>2. CASE Next
    <3>1. TypeOK'
      BY <2>2, TypeKept DEF ConcurrentInv
    <3>2. ASSUME NEW i \in Ids, Method(i) PROVE ConcurrentInv'
      <4>1. CASE GenerateSeqId(i)
        BY <3>1, <4>1, GenerateSeqIdKeeps
      <4>2. CASE Send(i)
        BY <3>1, <4>2, SendSentryKeeps, WriteMessageBeginKeeps, FlushKeeps,
           SendThrowsKeeps DEF Send
      <4>3. CASE Recv(i)
        BY <3>1, <4>3, RecvSentryKeeps, GetPendingKeeps, DeadConnectionKeeps,
           ReadMessageBeginKeeps, ReadThrowsKeeps, ReturnsKeeps, FailsKeeps,
           UpdatePendingKeeps, BadSeqIdKeeps, WaitForWorkKeeps, WaitKeeps,
           AwakeKeeps DEF Recv
      <4>4. QED
        BY <3>2, <4>1, <4>2, <4>3 DEF Method
    <3>3. ASSUME NEW i \in Ids, SpuriousWakeup(i) PROVE ConcurrentInv'
      BY <3>1, <3>3, SpuriousWakeupKeeps
    <3>4. ASSUME NEW a \in Messages, Say(a) PROVE ConcurrentInv'
      BY <3>1, <3>4, SayKeeps
    <3>5. CASE Terminated
      BY <3>5, StutterKeeps DEF Terminated
    <3>6. QED
      BY <2>2, <3>2, <3>3, <3>4, <3>5 DEF Next
  <2>3. QED
    BY <2>1, <2>2
<1>2. QED
  BY <1>1, InitHolds, PTL DEF Spec

(* Every variable keeps its type: what is returned is a reply or an        *)
(* exception that could be read, and sequence ids stay in their range.     *)
THEOREM ConcurrentTypes == Spec => []TypeOK
<1>1. ConcurrentInv => TypeOK
  BY DEF ConcurrentInv
<1>2. QED
  BY <1>1, ConcurrentInvHolds, PTL

(* The halves of two requests are never mixed up on the wire. *)
THEOREM RequestsAreWhole == Spec => []RequestsWhole
<1>1. ConcurrentInv => RequestsWhole
  BY DEF ConcurrentInv
<1>2. QED
  BY <1>1, ConcurrentInvHolds, PTL

(* A message whose header was read is in the hands of exactly one thread,  *)
(* or was left for exactly one.                                            *)
THEOREM BodyIsReadOnce == Spec => []BodyHasOneReader
<1>1. ConcurrentInv => BodyHasOneReader
  <2> SUFFICES ASSUME ConcurrentInv, ~desync, ~stop
               PROVE  InHand = IF headRead THEN {Head(inbox)} ELSE {}
    BY DEF BodyHasOneReader
  <2>1. \A x \in InHand : headRead /\ x = Head(inbox)
    <3>1. \A i \in Ids : pc[i] = "match" => headRead /\ header[i] = Head(inbox)
      BY DEF ConcurrentInv, FirstInHand
    <3>2. pending # None => headRead /\ pending = Head(inbox)
      BY DEF ConcurrentInv, FirstInHand
    <3>3. QED
      BY <3>1, <3>2 DEF InHand
  <2>2. headRead => Head(inbox) \in InHand
    <3> SUFFICES ASSUME headRead PROVE Head(inbox) \in InHand
      OBVIOUS
    <3>1. CASE pending # None
      <4>1. pending = Head(inbox)
        BY <3>1 DEF ConcurrentInv, FirstInHand
      <4>2. QED
        BY <3>1, <4>1 DEF InHand
    <3>2. CASE pending = None
      <4>1. PICK i \in Ids : pc[i] = "match"
        BY <3>2 DEF ConcurrentInv, FirstInHand
      <4>2. header[i] = Head(inbox)
        BY <4>1 DEF ConcurrentInv, FirstInHand
      <4>3. QED
        BY <4>1, <4>2 DEF InHand
    <3>3. QED
      BY <3>1, <3>2
  <2>3. QED
    BY <2>1, <2>2
<1>2. QED
  BY <1>1, ConcurrentInvHolds, PTL

(* After a message that was not read to its end nobody reads. *)
THEOREM BrokenIsNotRead == Spec => []BrokenNotRead
<1>1. ConcurrentInv => BrokenNotRead
  BY DEF ConcurrentInv, FirstInHand, BrokenNotRead
<1>2. QED
  BY <1>1, ConcurrentInvHolds, PTL

(* Threads that wait are never left with nobody to wake them up, also when *)
(* a sender marks the connection bad between a test and the wait after it. *)
THEOREM SomebodyIsAwake == Spec => []SomebodyAwake
<1>1. ConcurrentInv => SomebodyAwake
  <2> SUFFICES ASSUME ConcurrentInv, NEW i \in Ids, pc[i] = "waiting"
               PROVE  \E j \in Ids : InCall(j) /\ pc[j] # "waiting"
    BY DEF SomebodyAwake
  <2>1. Asleep(i)
    BY DEF Asleep
  <2>2. PICK j \in Ids : InCall(j) /\ ~Asleep(j)
    BY <2>1 DEF ConcurrentInv, Awakened
  <2>3. QED
    BY <2>2 DEF Asleep
<1>2. QED
  BY <1>1, ConcurrentInvHolds, PTL

-----------------------------------------------------------------------------
(***************************************************************************)
(* The stub implements WfsMux                                              *)
(***************************************************************************)

(* What a call is to WfsMux depends on whether it has begun, is over, and  *)
(* on what it has returned.                                                *)
LEMMA SameOutcome ==
  ASSUME NEW j \in Ids, returned'[j] = returned[j],
         pc'[j] = pc[j] \/ (InCall(j) /\ InCall(j)')
  PROVE  Outcome(j)' = Outcome(j)
<1>1. CASE pc'[j] = pc[j]
  BY <1>1 DEF Outcome, InCall
<1>2. CASE InCall(j) /\ InCall(j)'
  BY <1>2, SeveralPlaces DEF Outcome, InCall
<1>3. QED
  BY <1>1, <1>2

LEMMA MapFacts ==
  /\ \A i \in Ids : CallStates[i] = Outcome(i)
  /\ \A i \in Ids : FirstSaid[i] =
       IF said[i] = None THEN "nothing" ELSE said[i].kind
BY DEF CallStates, FirstSaid

(* The calls go on, and nothing is said: a stutter. *)
LEMMA SilentMapped ==
  ASSUME UNCHANGED <<said, returned>>,
         \A j \in Ids : pc'[j] = pc[j] \/ (InCall(j) /\ InCall(j)')
  PROVE  UNCHANGED <<CallStates, FirstSaid>>
<1>1. \A j \in Ids : Outcome(j)' = Outcome(j)
  BY SameOutcome
<1>2. QED
  BY <1>1 DEF CallStates, FirstSaid

(* One call changes, and the others go on. *)
LEMMA OneChanges ==
  ASSUME NEW i \in Ids, NEW o, Outcome(i)' = o, UNCHANGED said,
         \A j \in Ids \ {i} :
           /\ returned'[j] = returned[j]
           /\ pc'[j] = pc[j] \/ (InCall(j) /\ InCall(j)')
  PROVE  /\ CallStates' = [CallStates EXCEPT ![i] = o]
         /\ UNCHANGED FirstSaid
<1>1. \A j \in Ids \ {i} : Outcome(j)' = Outcome(j)
  BY SameOutcome
<1>2. QED
  BY <1>1 DEF CallStates, FirstSaid

LEMMA BeginMapped ==
  ASSUME ConcurrentInv, NEW i \in Ids, GenerateSeqId(i)
  PROVE  Mux!Next
<1>1. pc[i] = "unborn" /\ UNCHANGED <<said, returned>>
  BY DEF GenerateSeqId, netVars, callVars
<1>2. pc'[i] = "send" /\ \A j \in Ids \ {i} : pc'[j] = pc[j]
  BY SeveralPlaces, MoveToFacts DEF GenerateSeqId, ConcurrentInv, TypeOK
<1>3. Outcome(i) = "unborn" /\ Outcome(i)' = "open"
  BY <1>1, <1>2, SeveralPlaces DEF Outcome, InCall
<1>4. Mux!Begin(i)
  BY <1>1, <1>2, <1>3, OneChanges, MapFacts DEF Mux!Begin
<1>5. QED
  BY <1>4 DEF Mux!Next

LEMMA FailMapped ==
  ASSUME ConcurrentInv, NEW i \in Ids, InCall(i), pc'[i] = "over",
         UNCHANGED <<said, returned>>,
         \A j \in Ids \ {i} : \/ pc'[j] = pc[j]
                              \/ pc'[j] = "woken" /\ pc[j] = "waiting"
  PROVE  Mux!Next
<1>1. returned[i] = None
  BY SeveralPlaces DEF ConcurrentInv, Given, InCall
<1>2. Outcome(i) = "open" /\ Outcome(i)' = "failed"
  BY <1>1, SeveralPlaces DEF Outcome, InCall
<1>3. \A j \in Ids \ {i} : pc'[j] = pc[j] \/ (InCall(j) /\ InCall(j)')
  BY SeveralPlaces DEF InCall
<1>4. Mux!Fail(i)
  BY <1>2, <1>3, OneChanges, MapFacts DEF Mux!Fail
<1>5. QED
  BY <1>4 DEF Mux!Next

LEMMA ReturnMapped ==
  ASSUME ConcurrentInv, NEW i \in Ids, Returns(i)
  PROVE  Mux!Next
<1>1. /\ pc[i] = "match" /\ IsMine(i) /\ ReadBody(TRUE)
      /\ returned' = [returned EXCEPT ![i] = Head(inbox)]
  BY DEF Returns
<1>2. /\ pc'[i] = "over"
      /\ \A j \in Ids \ {i} : \/ pc'[j] = pc[j]
                              \/ pc'[j] = "woken" /\ pc[j] = "waiting"
  BY LeaveFacts DEF ConcurrentInv, Returns
<1>3. /\ inbox # <<>> /\ Head(inbox).id = i /\ Head(inbox) = said[i]
      /\ Head(inbox) # None
  BY <1>1, MineIsFirst, FirstMessage, IdFacts DEF ConcurrentInv
<1>4. returned'[i] = said[i] /\ \A j \in Ids \ {i} : returned'[j] = returned[j]
  BY <1>1, <1>3 DEF ConcurrentInv, TypeOK
<1>5. Outcome(i) = "open" /\ Outcome(i)' = said[i].kind
  BY <1>1, <1>2, <1>3, <1>4, SeveralPlaces DEF Outcome, InCall
<1>6. UNCHANGED said
  BY <1>1 DEF ReadBody
<1>7. \A j \in Ids \ {i} : pc'[j] = pc[j] \/ (InCall(j) /\ InCall(j)')
  BY <1>2, SeveralPlaces DEF InCall
<1>8. /\ CallStates' = [CallStates EXCEPT ![i] = said[i].kind]
      /\ UNCHANGED FirstSaid
  BY <1>4, <1>5, <1>6, <1>7, OneChanges
<1>9. CallStates[i] = "open" /\ FirstSaid[i] = said[i].kind
  BY <1>3, <1>5, MapFacts
<1>10. said[i].kind # "nothing"
  <2>1. said[i] \in Messages
    BY <1>3, FirstMessage DEF ConcurrentInv
  <2>2. QED
    BY <2>1, KindsAssumption DEF Messages
<1>11. Mux!Return(i)
  BY <1>8, <1>9, <1>10 DEF Mux!Return
<1>12. QED
  BY <1>11 DEF Mux!Next

LEMMA SayMapped ==
  ASSUME ConcurrentInv, NEW a \in Messages, Say(a)
  PROVE  Mux!Next \/ UNCHANGED <<CallStates, FirstSaid>>
<1>1. a.id \in asked /\ UNCHANGED <<pc, returned>>
  BY DEF Say, callVars
<1>2. a.id \in Ids /\ a.kind \in Kinds /\ a # None
  BY IdFacts DEF Messages
<1>3. CallStates' = CallStates
  BY <1>1 DEF CallStates, Outcome, InCall
<1>4. CASE said[a.id] # None
  BY <1>1, <1>4, SilentMapped DEF Say
<1>5. CASE said[a.id] = None
  <2>1. said' = [said EXCEPT ![a.id] = a]
    BY <1>5 DEF Say
  <2>2. FirstSaid' = [FirstSaid EXCEPT ![a.id] = a.kind]
    BY <1>2, <2>1 DEF FirstSaid, ConcurrentInv, TypeOK
  <2>3. FirstSaid[a.id] = "nothing"
    BY <1>2, <1>5, MapFacts
  <2>4. pc[a.id] # "unborn"
    BY <1>1 DEF ConcurrentInv, Said
  <2>5. CallStates[a.id] # "unborn"
    <3>1. CallStates[a.id] = Outcome(a.id)
      BY <1>2, MapFacts
    <3>2. returned[a.id] # None => returned[a.id].kind # "unborn"
      <4>1. returned[a.id] \in Answers \cup {None}
        BY <1>2 DEF ConcurrentInv, TypeOK
      <4>2. QED
        BY <4>1 DEF Answers
    <3>3. QED
      BY <2>4, <3>1, <3>2 DEF Outcome
  <2>6. Mux!Give(a.id, a.kind)
    BY <1>2, <1>3, <2>2, <2>3, <2>5 DEF Mux!Give
  <2>7. QED
    BY <1>2, <2>6 DEF Mux!Next
<1>6. QED
  BY <1>4, <1>5

LEMMA SendMapped ==
  ASSUME ConcurrentInv, NEW i \in Ids, Send(i)
  PROVE  Mux!Next \/ UNCHANGED <<CallStates, FirstSaid>>
<1>1. pc \in [Ids -> Places]
  BY DEF ConcurrentInv, TypeOK
<1>2. CASE SendSentry(i)
  BY <1>1, <1>2, MoveToFacts, SilentMapped, SeveralPlaces
     DEF SendSentry, InCall, netVars, callVars
<1>3. CASE WriteMessageBegin(i)
  BY <1>1, <1>3, MoveToFacts, SilentMapped, SeveralPlaces
     DEF WriteMessageBegin, InCall, callVars
<1>4. CASE Flush(i)
  BY <1>1, <1>4, MoveToFacts, SilentMapped, SeveralPlaces
     DEF Flush, InCall, callVars
<1>5. CASE SendThrows(i)
  <2>1. InCall(i) /\ UNCHANGED <<said, returned>>
    BY <1>5, SeveralPlaces DEF SendThrows, InCall, netVars, callVars
  <2>2. /\ pc'[i] = "over"
        /\ \A j \in Ids \ {i} : \/ pc'[j] = pc[j]
                                \/ pc'[j] = "woken" /\ pc[j] = "waiting"
    BY <1>1, <1>5, MarkBadFacts DEF SendThrows
  <2>3. QED
    BY <2>1, <2>2, FailMapped
<1>6. QED
  BY <1>2, <1>3, <1>4, <1>5 DEF Send

(* The calls that end without a commit, in one. *)
LEMMA LeaveMapped ==
  ASSUME ConcurrentInv, NEW i \in Ids, pc[i] \in Reading, Leave(i, FALSE),
         UNCHANGED <<said, returned>>
  PROVE  Mux!Next
<1>1. InCall(i)
  BY SeveralPlaces DEF InCall
<1>2. /\ pc'[i] = "over"
      /\ \A j \in Ids \ {i} : \/ pc'[j] = pc[j]
                              \/ pc'[j] = "woken" /\ pc[j] = "waiting"
  BY LeaveFacts DEF ConcurrentInv
<1>3. QED
  BY <1>1, <1>2, FailMapped

LEMMA RecvMapped ==
  ASSUME ConcurrentInv, NEW i \in Ids, Recv(i)
  PROVE  Mux!Next \/ UNCHANGED <<CallStates, FirstSaid>>
<1>1. pc \in [Ids -> Places]
  BY DEF ConcurrentInv, TypeOK
<1>2. CASE RecvSentry(i)
  BY <1>1, <1>2, MoveToFacts, SilentMapped, SeveralPlaces
     DEF RecvSentry, InCall, netVars, callVars
<1>3. CASE GetPending(i)
  <2>1. pc[i] = "get" /\ UNCHANGED <<said, returned>>
    BY <1>3 DEF GetPending, netVars
  <2>2. pc'[i] \in {"match", "read"} /\ \A j \in Ids \ {i} : pc'[j] = pc[j]
    <3>1. PICK p \in {"match", "read"} : MoveTo(i, p)
      BY <1>3 DEF GetPending
    <3>2. QED
      BY <1>1, <3>1, MoveToFacts, SeveralPlaces
  <2>3. QED
    BY <2>1, <2>2, SilentMapped, SeveralPlaces DEF InCall
<1>4. CASE DeadConnection(i)
  BY <1>4, LeaveMapped, SeveralPlaces DEF DeadConnection, netVars
<1>5. CASE ReadMessageBegin(i)
  BY <1>1, <1>5, MoveToFacts, SilentMapped, SeveralPlaces
     DEF ReadMessageBegin, InCall
<1>6. CASE ReadThrows(i)
  BY <1>6, LeaveMapped, SeveralPlaces DEF ReadThrows
<1>7. CASE Returns(i)
  BY <1>7, ReturnMapped
<1>8. CASE Fails(i)
  BY <1>8, LeaveMapped, SeveralPlaces DEF Fails, ReadBody
<1>9. CASE UpdatePending(i)
  <2>1. pc[i] = "match" /\ UNCHANGED <<said, returned>>
    BY <1>9 DEF UpdatePending, netVars
  <2>2. /\ pc'[i] = "check"
        /\ \A j \in Ids \ {i} : \/ pc'[j] = pc[j]
                                \/ pc'[j] = "woken" /\ pc[j] = "waiting"
    BY <1>1, <1>9, MoveFacts, SeveralPlaces DEF UpdatePending
  <2>3. QED
    BY <2>1, <2>2, SilentMapped, SeveralPlaces DEF InCall
<1>10. CASE BadSeqId(i)
  BY <1>10, LeaveMapped, SeveralPlaces DEF BadSeqId, netVars
<1>11. CASE WaitForWork(i)
  <2>1. pc[i] = "check" /\ UNCHANGED <<said, returned>>
    BY <1>11 DEF WaitForWork, netVars, callVars
  <2>2. pc'[i] \in {"get", "wait"} /\ \A j \in Ids \ {i} : pc'[j] = pc[j]
    <3>1. PICK p \in {"get", "wait"} : MoveTo(i, p)
      BY <1>11 DEF WaitForWork
    <3>2. QED
      BY <1>1, <3>1, MoveToFacts, SeveralPlaces
  <2>3. QED
    BY <2>1, <2>2, SilentMapped, SeveralPlaces DEF InCall
<1>12. CASE Wait(i)
  BY <1>1, <1>12, MoveToFacts, SilentMapped, SeveralPlaces
     DEF Wait, InCall, netVars, callVars
<1>13. CASE Awake(i)
  BY <1>1, <1>13, MoveToFacts, SilentMapped, SeveralPlaces
     DEF Awake, InCall, netVars, callVars
<1>14. QED
  BY <1>2, <1>3, <1>4, <1>5, <1>6, <1>7, <1>8, <1>9, <1>10, <1>11, <1>12,
     <1>13 DEF Recv

(* WfsIfaceConcurrentClient implements WfsMux: whatever the order in which *)
(* the server answers and the threads read, a call returns what the server *)
(* said first to its own request, or fails.                                *)
THEOREM StubMultiplexes == Spec => Multiplexes
<1>1. Init => Mux!Init
  <2> SUFFICES ASSUME Init PROVE Mux!Init
    OBVIOUS
  <2>1. \A i \in Ids : pc[i] = "unborn" /\ said[i] = None
    BY DEF Init
  <2>2. \A i \in Ids : Outcome(i) = "unborn"
    BY <2>1 DEF Outcome
  <2>3. CallStates = [i \in Ids |-> "unborn"]
    BY <2>2 DEF CallStates
  <2>4. FirstSaid = [i \in Ids |-> "nothing"]
    BY <2>1 DEF FirstSaid
  <2>5. QED
    BY <2>3, <2>4 DEF Mux!Init
<1>2. ConcurrentInv /\ [Next]_vars => [Mux!Next]_<<CallStates, FirstSaid>>
  <2> SUFFICES ASSUME ConcurrentInv, [Next]_vars
               PROVE  Mux!Next \/ UNCHANGED <<CallStates, FirstSaid>>
    OBVIOUS
  <2>1. CASE UNCHANGED vars
    BY <2>1, SilentMapped DEF vars, netVars, callVars
  <2>2. ASSUME NEW i \in Ids, Method(i)
        PROVE  Mux!Next \/ UNCHANGED <<CallStates, FirstSaid>>
    BY <2>2, BeginMapped, SendMapped, RecvMapped DEF Method
  <2>3. ASSUME NEW i \in Ids, SpuriousWakeup(i)
        PROVE  Mux!Next \/ UNCHANGED <<CallStates, FirstSaid>>
    <3>1. /\ pc[i] = "waiting" /\ pc'[i] = "woken"
          /\ \A j \in Ids \ {i} : pc'[j] = pc[j]
          /\ UNCHANGED <<said, returned>>
      BY <2>3 DEF SpuriousWakeup, netVars, callVars, ConcurrentInv, TypeOK
    <3>2. QED
      BY <3>1, SilentMapped, SeveralPlaces DEF InCall
  <2>4. ASSUME NEW a \in Messages, Say(a)
        PROVE  Mux!Next \/ UNCHANGED <<CallStates, FirstSaid>>
    BY <2>4, SayMapped
  <2>5. CASE Terminated
    BY <2>5, SilentMapped DEF Terminated, vars, netVars, callVars
  <2>6. QED
    BY <2>1, <2>2, <2>3, <2>4, <2>5 DEF Next
<1>3. QED
  BY <1>1, <1>2, ConcurrentInvHolds, PTL DEF Spec, Multiplexes, Mux!Spec
=============================================================================
