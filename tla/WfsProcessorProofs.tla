------------------------- MODULE WfsProcessorProofs -------------------------
(***************************************************************************)
(* Theorems about WfsIfaceProcessor, for any connections, any number of    *)
(* handlers and any number of requests.                                    *)
(*                                                                         *)
(* The properties say what is so between two requests; the invariant says  *)
(* for each place in process_X what has been executed, answered and told   *)
(* so far, connection by connection.  A step of one connection leaves the  *)
(* others alone, so one lemma is enough for them.                          *)
(***************************************************************************)
EXTENDS WfsProcessor, SequenceTheorems, TLAPS

(* How many requests of a connection were taken up and not answered. *)
InHand(c) == IF pc[c] \in Busy THEN 1 ELSE 0

(* A connection's requests are among those that were sent. *)
Counted(c) == Len(answers[c]) + Len(stream[c]) + InHand(c) <= sent

(* A request is in hand only while its connection is open. *)
Attended(c) == pc[c] # "wait" => conn[c] = "open" /\ current[c] \in Requests

(* What has executed the request in hand, and nothing a later one.         *)
Executed(c) ==
  /\ pc[c] = "handle" => done[c] < Handlers
  /\ pc[c] \in {"preWrite", "reply"} => done[c] = Handlers
  /\ pc[c] \in {"context", "unknown", "preRead", "read", "postRead"} => done[c] = 0
  /\ conn[c] # "closed" =>
       \A h \in 1 .. Handlers, n \in 1 .. MaxRequests :
         /\ <<c, n>> \in trace[h] => n <= Number(c)
         /\ n = Number(c) =>
              (<<c, n>> \in trace[h] <=> pc[c] \in Busy /\ h <= done[c])

(* What the event handler was told, and how that agrees with the answer.   *)
LastKind(c) == answers[c][Len(answers[c])].kind
Agree(c) ==
  /\ Told(c, "handlerError") <=> LastKind(c) = "exception"
  /\ Told(c, "postWrite") <=> LastKind(c) = "reply"
Observed(c) ==
  /\ ~watched \/ pc[c] \in {"context", "unknown"} \/ conn[c] = "none"
       => events[c] = <<>>
  /\ pc[c] # "wait" => ~Told(c, "freeContext")
  /\ pc[c] = "wait" =>
       \A k \in 1 .. Len(events[c]) :
         events[c][k] = "freeContext" <=> k = Len(events[c])
  /\ pc[c] \in Busy \ {"exception"} => ~Told(c, "handlerError")
  /\ pc[c] \in Busy => ~Told(c, "postWrite")
  /\ pc[c] = "exception" /\ watched => Told(c, "handlerError")
  /\ pc[c] = "postWrite" =>
       /\ LastKind(c) = "reply"
       /\ ~Told(c, "handlerError") /\ ~Told(c, "postWrite")
  /\ pc[c] = "free" /\ watched => Agree(c)
  /\ pc[c] = "wait" /\ conn[c] = "open" /\ events[c] # <<>> => Agree(c)

ConnInv(c) == Counted(c) /\ Attended(c) /\ Executed(c) /\ Observed(c)

ProcInv == TypeOK /\ \A c \in Conns : ConnInv(c)

(* A step of c leaves the other connections as they are. *)
Untouched(c) ==
  /\ UNCHANGED watched /\ sent' \in Nat /\ sent' >= sent
  /\ \A d \in Conns \ {c} :
       /\ conn'[d] = conn[d] /\ stream'[d] = stream[d] /\ pc'[d] = pc[d]
       /\ events'[d] = events[d] /\ done'[d] = done[d]
       /\ answers'[d] = answers[d] /\ current'[d] = current[d]
       /\ \A h \in 1 .. Handlers, n \in 1 .. MaxRequests :
            <<d, n>> \in trace'[h] <=> <<d, n>> \in trace[h]

-----------------------------------------------------------------------------
(***************************************************************************)
(* What is used of the types                                               *)
(***************************************************************************)

AnswerRecords == [name : Names, kind : {"reply", "exception"}]
EventNames == Events \cup {"getContext", "freeContext"}

LEMMA StateFacts ==
  ASSUME TypeOK, NEW c \in Conns
  PROVE  /\ watched \in BOOLEAN /\ conn \in [Conns -> {"none", "open", "closed"}]
         /\ stream \in [Conns -> Seq(Requests)] /\ stream[c] \in Seq(Requests)
         /\ Len(stream[c]) \in Nat
         /\ pc \in [Conns -> Places]
         /\ events \in [Conns -> Seq(EventNames)] /\ events[c] \in Seq(EventNames)
         /\ Len(events[c]) \in Nat
         /\ done \in [Conns -> 0 .. Handlers] /\ done[c] \in Nat
         /\ answers \in [Conns -> Seq(AnswerRecords)]
         /\ answers[c] \in Seq(AnswerRecords)
         /\ Len(answers[c]) \in Nat /\ Number(c) \in Nat
         /\ current \in [Conns -> Requests \cup {NoRequest}]
         /\ sent \in Nat
         /\ trace \in [1 .. Handlers -> SUBSET (Conns \X (1 .. MaxRequests))]
<1>1. stream[c] \in Seq(Requests) /\ events[c] \in Seq(EventNames)
      /\ answers[c] \in Seq(AnswerRecords) /\ done[c] \in 0 .. Handlers
  BY DEF TypeOK, EventNames, AnswerRecords
<1>2. Len(stream[c]) \in Nat /\ Len(events[c]) \in Nat /\ Len(answers[c]) \in Nat
  BY <1>1, LenProperties
<1>3. sent \in Nat /\ done[c] \in Nat
  BY <1>1, RequestsAssumption, HandlersAssumption DEF TypeOK
<1>4. /\ watched \in BOOLEAN /\ conn \in [Conns -> {"none", "open", "closed"}]
      /\ stream \in [Conns -> Seq(Requests)] /\ pc \in [Conns -> Places]
      /\ current \in [Conns -> Requests \cup {NoRequest}]
  BY DEF TypeOK
<1>5. /\ events \in [Conns -> Seq(EventNames)] /\ done \in [Conns -> 0 .. Handlers]
      /\ answers \in [Conns -> Seq(AnswerRecords)]
      /\ trace \in [1 .. Handlers -> SUBSET (Conns \X (1 .. MaxRequests))]
  BY DEF TypeOK, EventNames, AnswerRecords
<1>6. Number(c) \in Nat
  BY <1>2 DEF Number
<1>7. QED
  BY <1>1, <1>2, <1>3, <1>4, <1>5, <1>6

LEMMA PlaceFacts ==
  /\ Events \subseteq Places
  /\ Busy \subseteq Places /\ "wait" \in Places /\ "free" \in Places
  /\ "postWrite" \in Places
  /\ Events = {"preRead", "postRead", "handlerError", "preWrite", "postWrite"}
  /\ Events \subseteq EventNames
  /\ "getContext" \in EventNames /\ "freeContext" \in EventNames
BY DEF Places, Events, Busy, EventNames

LEMMA InHandFacts ==
  ASSUME NEW c \in Conns
  PROVE  /\ InHand(c) \in Nat
         /\ pc[c] \in Busy => InHand(c) = 1
         /\ pc[c] \notin Busy => InHand(c) = 0
BY DEF InHand

(* A step of another connection does not matter. *)
LEMMA OthersKept ==
  ASSUME ProcInv, NEW c \in Conns, Untouched(c), NEW d \in Conns \ {c}
  PROVE  ConnInv(d)'
<1>1. /\ watched' = watched /\ conn'[d] = conn[d] /\ stream'[d] = stream[d]
      /\ pc'[d] = pc[d] /\ events'[d] = events[d] /\ done'[d] = done[d]
      /\ answers'[d] = answers[d] /\ current'[d] = current[d]
      /\ \A h \in 1 .. Handlers, n \in 1 .. MaxRequests :
           <<d, n>> \in trace'[h] <=> <<d, n>> \in trace[h]
  BY DEF Untouched
<1>2. ConnInv(d)
  BY DEF ProcInv
<1>3. Counted(d)'
  <2>1. sent' >= sent /\ sent' \in Nat
    BY DEF Untouched
  <2>2. /\ Len(answers[d]) \in Nat /\ Len(stream[d]) \in Nat
        /\ InHand(d) \in Nat /\ sent \in Nat
    BY StateFacts, InHandFacts DEF ProcInv
  <2>3. Len(answers[d]) + Len(stream[d]) + InHand(d) <= sent
    BY <1>2 DEF ConnInv, Counted
  <2>4. InHand(d)' = InHand(d)
    BY <1>1 DEF InHand
  <2> DEFINE n == Len(answers[d])
             m == Len(stream[d])
             b == InHand(d)
  <2> HIDE DEF n, m, b
  <2>5. n \in Nat /\ m \in Nat /\ b \in Nat /\ n + m + b <= sent
    BY <2>2, <2>3 DEF n, m, b
  <2>6. n + m + b <= sent'
    BY <2>1, <2>2, <2>5
  <2>7. Len(answers'[d]) = n /\ Len(stream'[d]) = m /\ InHand(d)' = b
    BY <1>1, <2>4 DEF n, m, b
  <2>8. QED
    BY <2>6, <2>7 DEF Counted
<1>4. Attended(d)'
  BY <1>1, <1>2 DEF ConnInv, Attended
<1>5. Executed(d)'
  BY <1>1, <1>2 DEF ConnInv, Executed, Number
<1>6. Observed(d)'
  BY <1>1, <1>2 DEF ConnInv, Observed, Told, Agree, LastKind
<1>7. QED
  BY <1>3, <1>4, <1>5, <1>6 DEF ConnInv

(* What is told is what was told before and the new event. *)
LEMMA LogFacts ==
  ASSUME TypeOK, NEW c \in Conns, NEW e \in EventNames, events'[c] = Log(c, e)
  PROVE  /\ events'[c] \in Seq(EventNames)
         /\ \A x : Told(c, x)' <=> Told(c, x) \/ (watched /\ x = e)
         /\ ~watched => events'[c] = events[c]
         /\ watched => /\ events'[c] # <<>> /\ Len(events'[c]) = Len(events[c]) + 1
                       /\ events'[c][Len(events[c]) + 1] = e
                       /\ \A k \in 1 .. Len(events[c]) :
                            events'[c][k] = events[c][k]
<1>1. events[c] \in Seq(EventNames) /\ Len(events[c]) \in Nat
  BY StateFacts
<1>2. CASE ~watched
  BY <1>1, <1>2 DEF Log, Told
<1>3. CASE watched
  <2>1. events'[c] = Append(events[c], e)
    BY <1>3 DEF Log
  <2>2. /\ events'[c] # <<>> /\ Len(events'[c]) = Len(events[c]) + 1
        /\ events'[c][Len(events[c]) + 1] = e
        /\ events'[c] \in Seq(EventNames)
        /\ \A k \in 1 .. Len(events[c]) : events'[c][k] = events[c][k]
    BY <1>1, <2>1, AppendProperties
  <2>3. ASSUME NEW x PROVE Told(c, x)' <=> Told(c, x) \/ x = e
    <3>1. CASE x = e
      <4>1. Len(events[c]) + 1 \in 1 .. Len(events'[c])
        BY <1>1, <2>2
      <4>2. QED
        BY <2>2, <3>1, <4>1 DEF Told
    <3>2. CASE x # e
      <4>1. \A k \in 1 .. Len(events'[c]) :
              k \in 1 .. Len(events[c]) \/ k = Len(events[c]) + 1
        BY <1>1, <2>2
      <4>2. \A k \in 1 .. Len(events[c]) : k \in 1 .. Len(events'[c])
        BY <1>1, <2>2
      <4>3. QED
        BY <2>2, <3>2, <4>1, <4>2 DEF Told
    <3>3. QED
      BY <3>1, <3>2
  <2>4. QED
    BY <1>3, <2>2, <2>3
<1>4. QED
  BY <1>2, <1>3

(* The answer that is written becomes the last one. *)
LEMMA AnswerFacts ==
  ASSUME TypeOK, NEW c \in Conns, NEW kind \in {"reply", "exception"},
         current[c] \in Requests, Answer(c, kind)
  PROVE  /\ answers' \in [Conns -> Seq(AnswerRecords)]
         /\ \A d \in Conns \ {c} : answers'[d] = answers[d]
         /\ Len(answers'[c]) = Len(answers[c]) + 1
         /\ \A n \in 1 .. Len(answers[c]) : answers'[c][n] = answers[c][n]
         /\ answers'[c][Len(answers[c]) + 1].kind = kind
         /\ LastKind(c)' = kind
<1> DEFINE a == [name |-> current[c].name, kind |-> kind]
<1>1. a \in AnswerRecords /\ a.kind = kind
  BY DEF AnswerRecords, Requests
<1>2. answers \in [Conns -> Seq(AnswerRecords)] /\ answers[c] \in Seq(AnswerRecords)
  BY StateFacts
<1>3. answers' = [answers EXCEPT ![c] = Append(answers[c], a)]
  BY DEF Answer, Put
<1> HIDE DEF a
<1>4. /\ Append(answers[c], a) \in Seq(AnswerRecords)
      /\ Len(Append(answers[c], a)) = Len(answers[c]) + 1
      /\ \A n \in 1 .. Len(answers[c]) : Append(answers[c], a)[n] = answers[c][n]
      /\ Append(answers[c], a)[Len(answers[c]) + 1] = a
  BY <1>1, <1>2, AppendProperties
<1>5. answers'[c] = Append(answers[c], a)
  BY <1>2, <1>3
<1>6. /\ answers' \in [Conns -> Seq(AnswerRecords)]
      /\ \A d \in Conns \ {c} : answers'[d] = answers[d]
  BY <1>2, <1>3, <1>4
<1>7. QED
  BY <1>1, <1>4, <1>5, <1>6 DEF LastKind

-----------------------------------------------------------------------------
(***************************************************************************)
(* The connection's thread and the client                                  *)
(***************************************************************************)

(* What a step of c has to keep. *)
Kept(c) == TypeOK' /\ Untouched(c) /\ ConnInv(c)'

LEMMA AcceptKeeps ==
  ASSUME ProcInv, NEW c \in Conns, Accept(c)
  PROVE  Kept(c)
<1>1. /\ conn[c] = "none"
      /\ UNCHANGED <<watched, stream, sent, current, pc, events, done, trace,
                     answers>>
      /\ \/ conn' = [conn EXCEPT ![c] = "open"]
         \/ conn' = [conn EXCEPT ![c] = "closed"]
  BY DEF Accept, Put
<1>2. /\ conn \in [Conns -> {"none", "open", "closed"}]
      /\ sent \in Nat
  BY StateFacts DEF ProcInv
<1>3. TypeOK'
  BY <1>1, <1>2 DEF ProcInv, TypeOK
<1>4. Untouched(c)
  BY <1>1, <1>2 DEF Untouched
<1>5. ConnInv(c) /\ pc[c] = "wait" /\ events[c] = <<>>
  BY <1>1 DEF ProcInv, ConnInv, Attended, Observed
<1>6. Counted(c)' /\ Executed(c)'
  BY <1>1, <1>2, <1>5 DEF ConnInv, Counted, InHand, Executed, Number
<1>7. Attended(c)'
  BY <1>1, <1>2, <1>5 DEF Attended
<1>8. Observed(c)'
  BY <1>1, <1>2, <1>5 DEF ConnInv, Observed, Told, Agree, LastKind, Busy
<1>9. QED
  BY <1>3, <1>4, <1>6, <1>7, <1>8 DEF Kept, ConnInv

LEMMA RequestKeeps ==
  ASSUME ProcInv, NEW c \in Conns, NEW r \in Requests, Request(c, r)
  PROVE  Kept(c)
<1>1. /\ conn[c] = "open" /\ sent < MaxRequests /\ sent' = sent + 1
      /\ stream' = [stream EXCEPT ![c] = Append(stream[c], r)]
      /\ UNCHANGED <<watched, conn, current, pc, events, done, trace,
                     answers>>
  BY DEF Request, Put
<1>2. /\ stream \in [Conns -> Seq(Requests)] /\ stream[c] \in Seq(Requests)
      /\ Len(stream[c]) \in Nat /\ Len(answers[c]) \in Nat /\ sent \in Nat
      /\ InHand(c) \in Nat
  BY StateFacts, InHandFacts DEF ProcInv
<1>3. /\ stream'[c] \in Seq(Requests) /\ Len(stream'[c]) = Len(stream[c]) + 1
      /\ stream' \in [Conns -> Seq(Requests)]
      /\ \A d \in Conns \ {c} : stream'[d] = stream[d]
  BY <1>1, <1>2, AppendProperties
<1>4. TypeOK'
  <2>1. sent' \in 0 .. MaxRequests
    BY <1>1, <1>2, RequestsAssumption
  <2>2. QED
    BY <1>1, <1>3, <2>1 DEF ProcInv, TypeOK
<1>5. Untouched(c)
  BY <1>1, <1>2, <1>3 DEF Untouched
<1>6. Counted(c)'
  <2>1. Len(answers[c]) + Len(stream[c]) + InHand(c) <= sent
    BY DEF ProcInv, ConnInv, Counted
  <2> DEFINE n == Len(answers[c])
             m == Len(stream[c])
             b == InHand(c)
  <2>2. n \in Nat /\ m \in Nat /\ b \in Nat /\ n + m + b <= sent
    BY <1>2, <2>1
  <2>3. InHand(c)' = b /\ Len(answers'[c]) = n /\ Len(stream'[c]) = m + 1
    BY <1>1, <1>3 DEF InHand
  <2> HIDE DEF n, m, b
  <2>4. n + (m + 1) + b <= sent'
    BY <1>1, <1>2, <2>2
  <2>5. QED
    BY <2>3, <2>4 DEF Counted
<1>7. Attended(c)' /\ Executed(c)' /\ Observed(c)'
  BY <1>1 DEF ProcInv, ConnInv, Attended, Executed, Number, Observed, Told,
              Agree, LastKind
<1>8. QED
  BY <1>4, <1>5, <1>6, <1>7 DEF Kept, ConnInv

(* The connection ends, whatever was in hand. *)
LEMMA CloseFacts ==
  ASSUME TypeOK, NEW c \in Conns, Close(c)
  PROVE  /\ conn' \in [Conns -> {"none", "open", "closed"}] /\ conn'[c] = "closed"
         /\ pc' \in [Conns -> Places] /\ pc'[c] = "wait"
         /\ stream' \in [Conns -> Seq(Requests)] /\ Len(stream'[c]) = 0
         /\ current' \in [Conns -> Requests \cup {NoRequest}]
         /\ \A d \in Conns \ {c} :
              conn'[d] = conn[d] /\ pc'[d] = pc[d] /\ stream'[d] = stream[d]
              /\ current'[d] = current[d]
<1>1. /\ conn' = [conn EXCEPT ![c] = "closed"]
      /\ pc' = [pc EXCEPT ![c] = "wait"] /\ stream' = [stream EXCEPT ![c] = <<>>]
      /\ current' = [current EXCEPT ![c] = NoRequest]
  BY DEF Close, Put, Goto
<1>2. /\ conn \in [Conns -> {"none", "open", "closed"}]
      /\ pc \in [Conns -> Places] /\ stream \in [Conns -> Seq(Requests)]
      /\ current \in [Conns -> Requests \cup {NoRequest}]
  BY StateFacts
<1>3. /\ "wait" \in Places /\ <<>> \in Seq(Requests) /\ Len(<<>>) = 0
  BY PlaceFacts, EmptySeq
<1>4. stream' \in [Conns -> Seq(Requests)] /\ stream'[c] = <<>>
  BY <1>1, <1>2, <1>3
<1>5. QED
  BY <1>1, <1>2, <1>3, <1>4

(* What is left to show when a connection ends is about what was told.     *)
LEMMA ClosedKeeps ==
  ASSUME ProcInv, NEW c \in Conns, Close(c),
         UNCHANGED <<watched, sent, done, trace, answers>>,
         events' \in [Conns -> Seq(EventNames)],
         \A d \in Conns \ {c} : events'[d] = events[d],
         ~watched => events'[c] = <<>>,
         \A k \in 1 .. Len(events'[c]) :
           events'[c][k] = "freeContext" <=> k = Len(events'[c])
  PROVE  Kept(c)
<1>1. /\ conn' \in [Conns -> {"none", "open", "closed"}] /\ conn'[c] = "closed"
      /\ pc' \in [Conns -> Places] /\ pc'[c] = "wait"
      /\ stream' \in [Conns -> Seq(Requests)] /\ Len(stream'[c]) = 0
      /\ current' \in [Conns -> Requests \cup {NoRequest}]
      /\ \A d \in Conns \ {c} :
           conn'[d] = conn[d] /\ pc'[d] = pc[d] /\ stream'[d] = stream[d]
              /\ current'[d] = current[d]
  BY CloseFacts DEF ProcInv
<1>2. sent \in Nat /\ Len(answers[c]) \in Nat /\ Len(stream[c]) \in Nat
  BY StateFacts DEF ProcInv
<1>3. TypeOK'
  BY <1>1 DEF ProcInv, TypeOK, EventNames
<1>4. Untouched(c)
  BY <1>1, <1>2 DEF Untouched
<1>5. Counted(c)'
  <2>1. Len(answers[c]) <= sent
    <3>1. Len(answers[c]) + Len(stream[c]) + InHand(c) <= sent
      BY DEF ProcInv, ConnInv, Counted
    <3>2. InHand(c) \in Nat
      BY InHandFacts
    <3> DEFINE n == Len(answers[c])
               m == Len(stream[c])
               b == InHand(c)
    <3>3. n \in Nat /\ m \in Nat /\ b \in Nat /\ n + m + b <= sent
      BY <1>2, <3>1, <3>2
    <3> HIDE DEF n, m, b
    <3>4. n <= sent
      BY <1>2, <3>3
    <3>5. QED
      BY <3>4 DEF n
  <2>2. InHand(c)' = 0
    BY <1>1 DEF InHand, Busy
  <2>3. QED
    BY <1>1, <1>2, <2>1, <2>2 DEF Counted
<1>6. Attended(c)' /\ Executed(c)'
  BY <1>1 DEF Attended, Executed
<1>7. Observed(c)'
  BY <1>1 DEF Observed, Busy
<1>8. QED
  BY <1>3, <1>4, <1>5, <1>6, <1>7 DEF Kept, ConnInv

LEMMA HangupKeeps ==
  ASSUME ProcInv, NEW c \in Conns, Hangup(c)
  PROVE  Kept(c)
<1>1. /\ pc[c] = "wait" /\ Close(c)
      /\ UNCHANGED <<watched, sent, events, done, trace, answers>>
  BY DEF Hangup
<1>2. /\ ~watched => events[c] = <<>>
      /\ \A k \in 1 .. Len(events[c]) :
           events[c][k] = "freeContext" <=> k = Len(events[c])
  BY <1>1 DEF ProcInv, ConnInv, Observed
<1>3. events \in [Conns -> Seq(EventNames)]
  BY StateFacts DEF ProcInv
<1>4. QED
  BY <1>1, <1>2, <1>3, ClosedKeeps

(* An exception leaves process_X: the context is freed, and only then.     *)
LEMMA EscapeKeeps ==
  ASSUME ProcInv, NEW c \in Conns, pc[c] # "wait", Escape(c)
  PROVE  Kept(c)
<1>1. /\ Close(c) /\ events' = [events EXCEPT ![c] = Log(c, "freeContext")]
      /\ UNCHANGED <<watched, sent, done, trace, answers>>
  BY DEF Escape, Freer, Put
<1>2. events \in [Conns -> Seq(EventNames)] /\ Len(events[c]) \in Nat
  BY StateFacts DEF ProcInv
<1>3. events'[c] = Log(c, "freeContext")
  BY <1>1, <1>2
<1>4. /\ events'[c] \in Seq(EventNames)
      /\ ~watched => events'[c] = events[c]
      /\ watched => /\ Len(events'[c]) = Len(events[c]) + 1
                    /\ events'[c][Len(events[c]) + 1] = "freeContext"
                    /\ \A k \in 1 .. Len(events[c]) : events'[c][k] = events[c][k]
  BY <1>3, LogFacts, PlaceFacts DEF ProcInv
<1>5. /\ events' \in [Conns -> Seq(EventNames)]
      /\ \A d \in Conns \ {c} : events'[d] = events[d]
  BY <1>1, <1>2, <1>4
<1>6. /\ \A k \in 1 .. Len(events[c]) : events[c][k] # "freeContext"
      /\ ~watched => events[c] = <<>>
  BY DEF ProcInv, ConnInv, Observed, Told
<1>7. \A k \in 1 .. Len(events'[c]) :
        events'[c][k] = "freeContext" <=> k = Len(events'[c])
  <2>1. CASE watched
    BY <1>2, <1>4, <1>6, <2>1
  <2>2. CASE ~watched
    <3>1. events'[c] = <<>> /\ Len(events'[c]) = 0
      BY <1>4, <1>6, <2>2
    <3>2. QED
      BY <3>1
  <2>3. QED
    BY <2>1, <2>2
<1>8. QED
  BY <1>1, <1>4, <1>5, <1>6, <1>7, ClosedKeeps

-----------------------------------------------------------------------------
(***************************************************************************)
(* dispatchCall and process_X                                              *)
(***************************************************************************)

LEMMA DispatchKeeps ==
  ASSUME ProcInv, NEW c \in Conns, DispatchCall(c)
  PROVE  Kept(c)
<1> DEFINE p == IF Head(stream[c]).name \in ProcessMap THEN "context" ELSE "unknown"
<1>1. /\ conn[c] = "open" /\ pc[c] = "wait" /\ stream[c] # <<>>
      /\ current' = [current EXCEPT ![c] = Head(stream[c])]
      /\ stream' = [stream EXCEPT ![c] = Tail(stream[c])]
      /\ pc' = [pc EXCEPT ![c] = p]
      /\ events' = [events EXCEPT ![c] = <<>>] /\ done' = [done EXCEPT ![c] = 0]
      /\ UNCHANGED <<watched, conn, sent, trace, answers>>
  BY DEF DispatchCall, Put, Goto
<1>2. p \in {"context", "unknown"}
  OBVIOUS
<1> HIDE DEF p
<1>3. /\ stream[c] \in Seq(Requests) /\ Len(stream[c]) \in Nat
      /\ Len(answers[c]) \in Nat /\ Number(c) \in Nat /\ sent \in Nat
  BY StateFacts DEF ProcInv
<1>4. /\ stream \in [Conns -> Seq(Requests)] /\ pc \in [Conns -> Places]
      /\ current \in [Conns -> Requests \cup {NoRequest}]
      /\ events \in [Conns -> Seq(EventNames)] /\ done \in [Conns -> 0 .. Handlers]
  BY StateFacts DEF ProcInv
<1>5. /\ Head(stream[c]) \in Requests /\ Tail(stream[c]) \in Seq(Requests)
      /\ Len(Tail(stream[c])) = Len(stream[c]) - 1 /\ Len(stream[c]) # 0
  BY <1>1, <1>3, EmptySeq, HeadTailProperties
<1>6. /\ stream' \in [Conns -> Seq(Requests)] /\ stream'[c] = Tail(stream[c])
      /\ current' \in [Conns -> Requests \cup {NoRequest}]
      /\ current'[c] \in Requests
  BY <1>1, <1>4, <1>5
<1>7. /\ events' \in [Conns -> Seq(EventNames)] /\ events'[c] = <<>>
      /\ done' \in [Conns -> 0 .. Handlers] /\ done'[c] = 0
      /\ pc' \in [Conns -> Places] /\ pc'[c] = p
  <2>1. <<>> \in Seq(EventNames) /\ p \in Places /\ 0 \in 0 .. Handlers
    BY <1>2, EmptySeq, PlaceFacts, HandlersAssumption DEF Busy
  <2>2. QED
    BY <1>1, <1>4, <2>1
<1>8. TypeOK'
  BY <1>1, <1>6, <1>7 DEF ProcInv, TypeOK, EventNames
<1>9. Untouched(c)
  BY <1>1, <1>3, <1>4 DEF Untouched
<1>10. Counted(c)'
  <2>1. InHand(c) = 0 /\ InHand(c)' = 1
    BY <1>1, <1>2, <1>7 DEF InHand, Busy
  <2>2. Len(answers[c]) + Len(stream[c]) + InHand(c) <= sent
    BY DEF ProcInv, ConnInv, Counted
  <2> DEFINE n == Len(answers[c])
             m == Len(stream[c])
  <2>3. n \in Nat /\ m \in Nat /\ n + m + 0 <= sent /\ m # 0
    BY <1>3, <1>5, <2>1, <2>2
  <2>4. Len(answers'[c]) = n /\ Len(stream'[c]) = m - 1
    BY <1>1, <1>5, <1>6
  <2> HIDE DEF n, m
  <2>5. n + (m - 1) + 1 <= sent
    BY <1>3, <2>3
  <2>6. QED
    BY <1>1, <2>1, <2>4, <2>5 DEF Counted
<1>11. Attended(c)'
  BY <1>1, <1>6 DEF ProcInv, ConnInv, Attended
<1>12. Executed(c)'
  <2>1. Number(c)' = Number(c)
    BY <1>1 DEF Number
  <2>2. \A h \in 1 .. Handlers, n \in 1 .. MaxRequests :
          /\ <<c, n>> \in trace[h] => n <= Number(c)
          /\ n = Number(c) => <<c, n>> \notin trace[h]
    BY <1>1 DEF ProcInv, ConnInv, Executed, Busy
  <2>3. \A h \in 1 .. Handlers : ~(h <= 0)
    BY HandlersAssumption
  <2>4. QED
    BY <1>1, <1>2, <1>7, <2>1, <2>2, <2>3 DEF Executed
<1>13. Observed(c)'
  <2>1. \A x : ~Told(c, x)'
    BY <1>7, EmptySeq DEF Told
  <2>2. QED
    BY <1>2, <1>7, <2>1 DEF Observed, Busy
<1>14. QED
  BY <1>8, <1>9, <1>10, <1>11, <1>12, <1>13 DEF Kept, ConnInv

(* A step that only tells the event handler something and goes on.         *)
LEMMA MoveKeeps ==
  ASSUME ProcInv, NEW c \in Conns, NEW p \in Places \ {"wait"},
         pc[c] # "wait", pc' = [pc EXCEPT ![c] = p],
         UNCHANGED <<watched, conn, stream, sent, current, done, trace,
                     answers>>,
         events' \in [Conns -> Seq(EventNames)],
         \A d \in Conns \ {c} : events'[d] = events[d],
         p \in Busy <=> pc[c] \in Busy,
         p = "handle" => done[c] < Handlers,
         p \in {"preWrite", "reply"} => done[c] = Handlers,
         p \in {"context", "unknown", "preRead", "read", "postRead"} => done[c] = 0,
         Observed(c)'
  PROVE  Kept(c)
<1>1. pc \in [Conns -> Places] /\ sent \in Nat
  BY StateFacts DEF ProcInv
<1>2. /\ pc' \in [Conns -> Places] /\ pc'[c] = p
      /\ \A d \in Conns \ {c} : pc'[d] = pc[d]
  BY <1>1
<1>3. TypeOK'
  BY <1>2 DEF ProcInv, TypeOK, EventNames
<1>4. Untouched(c)
  BY <1>1, <1>2 DEF Untouched
<1>5. Counted(c)'
  <2>1. InHand(c)' = InHand(c)
    BY <1>2 DEF InHand
  <2>2. QED
    BY <2>1 DEF ProcInv, ConnInv, Counted
<1>6. Attended(c)'
  BY <1>2 DEF ProcInv, ConnInv, Attended
<1>7. Executed(c)'
  <2>1. Number(c)' = Number(c) /\ done'[c] = done[c] /\ trace' = trace /\ conn' = conn
    BY DEF Number
  <2>2. Executed(c)
    BY DEF ProcInv, ConnInv
  <2>3. QED
    BY <1>2, <2>1, <2>2 DEF Executed
<1>8. QED
  BY <1>3, <1>4, <1>5, <1>6, <1>7 DEF Kept, ConnInv

(* A step that answers the request in hand.                                *)
LEMMA AnswerKeeps ==
  ASSUME ProcInv, NEW c \in Conns, NEW p \in Places \ Busy,
         NEW kind \in {"reply", "exception"},
         pc[c] \in Busy, pc' = [pc EXCEPT ![c] = p], Answer(c, kind),
         UNCHANGED <<watched, conn, stream, sent, events, done, trace>>,
         current' \in [Conns -> Requests \cup {NoRequest}],
         \A d \in Conns \ {c} : current'[d] = current[d],
         p # "wait" => current'[c] = current[c],
         Observed(c)'
  PROVE  Kept(c)
<1>1. /\ pc \in [Conns -> Places] /\ sent \in Nat /\ Len(answers[c]) \in Nat
      /\ Len(stream[c]) \in Nat
  BY StateFacts DEF ProcInv
<1>2. /\ pc' \in [Conns -> Places] /\ pc'[c] = p
      /\ \A d \in Conns \ {c} : pc'[d] = pc[d]
  BY <1>1
<1>3. pc[c] # "wait" /\ conn[c] = "open" /\ current[c] \in Requests
  BY DEF ProcInv, ConnInv, Attended, Busy
<1>4. /\ answers' \in [Conns -> Seq(AnswerRecords)]
      /\ \A d \in Conns \ {c} : answers'[d] = answers[d]
      /\ Len(answers'[c]) = Len(answers[c]) + 1
  BY <1>3, AnswerFacts DEF ProcInv
<1>5. TypeOK'
  BY <1>2, <1>4 DEF ProcInv, TypeOK, AnswerRecords
<1>6. Untouched(c)
  BY <1>1, <1>2, <1>4 DEF Untouched
<1>7. Counted(c)'
  <2>1. InHand(c) = 1 /\ InHand(c)' = 0
    BY <1>2 DEF InHand
  <2>2. Len(answers[c]) + Len(stream[c]) + InHand(c) <= sent
    BY DEF ProcInv, ConnInv, Counted
  <2> DEFINE n == Len(answers[c])
             m == Len(stream[c])
  <2>3. n \in Nat /\ m \in Nat /\ n + m + 1 <= sent
    BY <1>1, <2>1, <2>2
  <2>4. Len(answers'[c]) = n + 1 /\ Len(stream'[c]) = m
    BY <1>4
  <2> HIDE DEF n, m
  <2>5. (n + 1) + m + 0 <= sent
    BY <1>1, <2>3
  <2>6. QED
    BY <2>1, <2>4, <2>5 DEF Counted
<1>8. Attended(c)'
  BY <1>2, <1>3 DEF ProcInv, ConnInv, Attended
<1>9. Executed(c)'
  <2>1. Number(c) \in Nat /\ Number(c)' = Number(c) + 1
    BY <1>1, <1>4 DEF Number
  <2>2. \A h \in 1 .. Handlers, n \in 1 .. MaxRequests :
          <<c, n>> \in trace[h] => n <= Number(c)
    BY <1>3 DEF ProcInv, ConnInv, Executed
  <2>3. \A h \in 1 .. Handlers, n \in 1 .. MaxRequests :
          /\ <<c, n>> \in trace'[h] => n <= Number(c)'
          /\ n = Number(c)' => <<c, n>> \notin trace'[h]
    <3>1. SUFFICES ASSUME NEW h \in 1 .. Handlers, NEW n \in 1 .. MaxRequests,
                          <<c, n>> \in trace[h]
                   PROVE  n <= Number(c)' /\ n # Number(c)'
      OBVIOUS
    <3>2. n <= Number(c) /\ n \in Int
      BY <2>2, <3>1
    <3>3. QED
      BY <2>1, <3>2
  <2>4. pc'[c] \notin Busy
    BY <1>2
  <2>5. pc'[c] \notin {"handle", "preWrite", "reply", "context", "unknown",
                       "preRead", "read", "postRead"}
    BY <2>4 DEF Busy
  <2>6. QED
    BY <2>3, <2>4, <2>5 DEF Executed
<1>10. QED
  BY <1>5, <1>6, <1>7, <1>8, <1>9 DEF Kept, ConnInv

LEMMA UnknownKeeps ==
  ASSUME ProcInv, NEW c \in Conns, UnknownMethod(c)
  PROVE  Kept(c)
<1>1. pc[c] = "unknown" /\ events[c] = <<>> /\ Len(events[c]) = 0
  <2>1. pc[c] = "unknown"
    BY DEF UnknownMethod
  <2>2. QED
    BY <2>1, EmptySeq DEF ProcInv, ConnInv, Observed
<1>2. /\ events \in [Conns -> Seq(EventNames)] /\ pc \in [Conns -> Places]
      /\ current \in [Conns -> Requests \cup {NoRequest}]
  BY StateFacts DEF ProcInv
<1>3. CASE /\ Answer(c, "exception") /\ Goto(c, "wait")
           /\ Put(current, c, NoRequest)
           /\ UNCHANGED <<conn, stream>>
           /\ UNCHANGED <<watched, sent, events, done, trace>>
  <2>1. "wait" \in Places \ Busy /\ pc[c] \in Busy
    BY <1>1, PlaceFacts DEF Busy
  <2>2. /\ pc' = [pc EXCEPT ![c] = "wait"]
        /\ current' = [current EXCEPT ![c] = NoRequest]
    BY <1>3 DEF Goto, Put
  <2>3. pc'[c] = "wait"
    BY <1>2, <2>2
  <2>4. conn'[c] = "open"
    BY <1>1, <1>3 DEF ProcInv, ConnInv, Attended
  <2>5. Observed(c)'
    BY <1>1, <1>3, <2>3, <2>4 DEF Observed, Busy
  <2>6. QED
    BY <1>2, <1>3, <2>1, <2>2, <2>5, AnswerKeeps
<1>4. CASE /\ Close(c) /\ UNCHANGED answers
           /\ UNCHANGED <<watched, sent, events, done, trace>>
  BY <1>1, <1>2, <1>4, ClosedKeeps
<1>5. QED
  BY <1>3, <1>4 DEF UnknownMethod

LEMMA ContextKeeps ==
  ASSUME ProcInv, NEW c \in Conns, GetContext(c)
  PROVE  Kept(c)
<1>1. pc[c] = "context" /\ events[c] = <<>> /\ Len(events[c]) = 0
  <2>1. pc[c] = "context"
    BY DEF GetContext
  <2>2. QED
    BY <2>1, EmptySeq DEF ProcInv, ConnInv, Observed
<1>2. events \in [Conns -> Seq(EventNames)] /\ pc \in [Conns -> Places]
  BY StateFacts DEF ProcInv
<1>3. CASE /\ Put(events, c, Log(c, "getContext")) /\ Goto(c, "preRead")
           /\ UNCHANGED <<conn, stream, current>>
           /\ UNCHANGED <<watched, sent, done, trace, answers>>
  <2>1. /\ events' = [events EXCEPT ![c] = Log(c, "getContext")]
        /\ pc' = [pc EXCEPT ![c] = "preRead"]
    BY <1>3 DEF Put, Goto
  <2>2. events'[c] = Log(c, "getContext") /\ pc'[c] = "preRead"
    BY <1>2, <2>1
  <2>3. /\ events'[c] \in Seq(EventNames)
        /\ \A x : Told(c, x)' <=> Told(c, x) \/ (watched /\ x = "getContext")
        /\ ~watched => events'[c] = events[c]
    BY <2>2, LogFacts, PlaceFacts DEF ProcInv
  <2>4. \A x : ~Told(c, x)
    BY <1>1 DEF Told
  <2>5. conn[c] = "open" /\ conn' = conn
    BY <1>1, <1>3 DEF ProcInv, ConnInv, Attended
  <2>6. Observed(c)'
    BY <1>1, <1>3, <2>2, <2>3, <2>4, <2>5 DEF Observed, Busy
  <2>7. /\ events' \in [Conns -> Seq(EventNames)]
        /\ \A d \in Conns \ {c} : events'[d] = events[d]
    BY <1>2, <2>1, <2>2, <2>3
  <2>8. done[c] = 0
    BY <1>1 DEF ProcInv, ConnInv, Executed
  <2>9. "preRead" \in Places \ {"wait"} /\ "preRead" \in Busy /\ pc[c] \in Busy
    BY <1>1, PlaceFacts DEF Busy
  <2>10. QED
    BY <1>1, <1>3, <2>1, <2>6, <2>7, <2>8, <2>9, MoveKeeps
<1>4. CASE /\ Close(c) /\ UNCHANGED events
           /\ UNCHANGED <<watched, sent, done, trace, answers>>
  BY <1>1, <1>2, <1>4, ClosedKeeps
<1>5. QED
  BY <1>3, <1>4 DEF GetContext

(* The event handler is told where the processor is, or throws. *)
LEMMA ObserveKeeps ==
  ASSUME ProcInv, NEW c \in Conns, Observe(c)
  PROVE  Kept(c)
<1>1. /\ pc[c] \in Events /\ pc[c] # "wait"
      /\ pc[c] \in {"preRead", "postRead", "handlerError", "preWrite", "postWrite"}
  BY PlaceFacts DEF Observe
<1>2. /\ events \in [Conns -> Seq(EventNames)] /\ pc \in [Conns -> Places]
      /\ done[c] \in Nat
  BY StateFacts DEF ProcInv
<1>3. CASE /\ Put(events, c, Log(c, pc[c])) /\ Goto(c, AfterEvent[pc[c]])
           /\ UNCHANGED <<watched, conn, stream, sent, current, done,
                          trace, answers>>
  <2> DEFINE p == AfterEvent[pc[c]]
             e == pc[c]
  <2>1. /\ events' = [events EXCEPT ![c] = Log(c, e)] /\ pc' = [pc EXCEPT ![c] = p]
    BY <1>3 DEF Put, Goto
  <2>2. /\ e = "preRead" => p = "read"
        /\ e = "postRead" => p = "handle"
        /\ e = "handlerError" => p = "exception"
        /\ e = "preWrite" => p = "reply"
        /\ e = "postWrite" => p = "free"
    BY DEF AfterEvent
  <2>3. p \in {"read", "handle", "exception", "reply", "free"}
    BY <1>1, <2>2
  <2>4. p \in Places \ {"wait"} /\ e \in EventNames
    BY <1>1, <2>3, PlaceFacts DEF Busy
  <2> HIDE DEF p
  <2>5. events'[c] = Log(c, e) /\ pc'[c] = p
    BY <1>2, <2>1
  <2>6. /\ events'[c] \in Seq(EventNames)
        /\ \A x : Told(c, x)' <=> Told(c, x) \/ (watched /\ x = e)
        /\ ~watched => events'[c] = events[c]
    BY <2>4, <2>5, LogFacts DEF ProcInv
  <2>7. /\ events' \in [Conns -> Seq(EventNames)]
        /\ \A d \in Conns \ {c} : events'[d] = events[d]
    BY <1>2, <2>1, <2>5, <2>6
  <2>8. p \in Busy <=> pc[c] \in Busy
    BY <1>1, <2>2 DEF Busy
  <2>9. /\ p = "handle" => done[c] < Handlers
        /\ p \in {"preWrite", "reply"} => done[c] = Handlers
        /\ p \in {"context", "unknown", "preRead", "read", "postRead"} => done[c] = 0
    <3>1. /\ pc[c] = "preWrite" => done[c] = Handlers
          /\ pc[c] \in {"preRead", "postRead"} => done[c] = 0
      BY DEF ProcInv, ConnInv, Executed
    <3>2. 0 < Handlers
      BY HandlersAssumption
    <3>3. QED
      BY <1>1, <2>2, <3>1, <3>2
  <2>10. conn[c] = "open" /\ conn' = conn /\ watched' = watched /\ answers' = answers
    BY <1>1, <1>3 DEF ProcInv, ConnInv, Attended
  <2>11. Observed(c)
    BY DEF ProcInv, ConnInv
  <2>12. LastKind(c)' = LastKind(c)
    BY <2>10 DEF LastKind
  <2>13. Observed(c)'
    <3>1. /\ ~watched => events'[c] = <<>>
          /\ ~Told(c, "freeContext")'
      BY <1>1, <2>6, <2>11 DEF Observed
    <3>2. p \in Busy \ {"exception"} => ~Told(c, "handlerError")'
      BY <1>1, <2>2, <2>6, <2>11 DEF Observed, Busy
    <3>3. p \in Busy => ~Told(c, "postWrite")'
      BY <1>1, <2>2, <2>6, <2>11 DEF Observed, Busy
    <3>4. p = "exception" /\ watched => Told(c, "handlerError")'
      BY <1>1, <2>2, <2>6
    <3>5. p = "free" /\ watched => Agree(c)'
      <4>1. SUFFICES ASSUME p = "free", watched PROVE Agree(c)'
        OBVIOUS
      <4>2. pc[c] = "postWrite"
        BY <1>1, <2>2, <4>1
      <4>3. LastKind(c) = "reply" /\ ~Told(c, "handlerError")
        BY <2>11, <4>2 DEF Observed
      <4>4. ~Told(c, "handlerError")' /\ Told(c, "postWrite")'
        BY <2>6, <4>1, <4>2, <4>3
      <4>5. QED
        BY <2>12, <4>3, <4>4 DEF Agree
    <3>6. p \notin {"context", "unknown", "wait", "postWrite"}
      BY <2>3
    <3>7. QED
      BY <2>5, <2>10, <3>1, <3>2, <3>3, <3>4, <3>5, <3>6 DEF Observed
  <2>14. QED
    BY <1>1, <1>3, <2>1, <2>4, <2>7, <2>8, <2>9, <2>13, MoveKeeps
<1>4. CASE watched /\ Escape(c)
  BY <1>1, <1>4, EscapeKeeps
<1>5. QED
  BY <1>3, <1>4 DEF Observe

LEMMA ReadKeeps ==
  ASSUME ProcInv, NEW c \in Conns, ReadArgs(c)
  PROVE  Kept(c)
<1>1. pc[c] = "read"
  BY DEF ReadArgs
<1>2. CASE /\ Goto(c, "postRead")
           /\ UNCHANGED <<watched, conn, stream, sent, current, events,
                          done, trace, answers>>
  <2>1. /\ events \in [Conns -> Seq(EventNames)] /\ pc \in [Conns -> Places]
    BY StateFacts DEF ProcInv
  <2>2. pc' = [pc EXCEPT ![c] = "postRead"]
    BY <1>2 DEF Goto, Put
  <2>3. pc'[c] = "postRead"
    BY <2>1, <2>2
  <2>4. conn[c] = "open" /\ done[c] = 0 /\ Observed(c)
    BY <1>1 DEF ProcInv, ConnInv, Attended, Executed
  <2>5. Observed(c)'
    BY <1>1, <1>2, <2>3, <2>4 DEF Observed, Told, Busy
  <2>6. "postRead" \in Places \ {"wait"} /\ "postRead" \in Busy /\ pc[c] \in Busy
    BY <1>1, PlaceFacts DEF Busy
  <2>7. QED
    BY <1>1, <1>2, <2>1, <2>2, <2>4, <2>5, <2>6, MoveKeeps
<1>3. CASE Escape(c)
  BY <1>1, <1>3, EscapeKeeps
<1>4. QED
  BY <1>2, <1>3 DEF ReadArgs

(* The request in hand is one of those that were sent. *)
LEMMA NumberInBound ==
  ASSUME ProcInv, NEW c \in Conns, pc[c] \in Busy
  PROVE  Number(c) \in 1 .. MaxRequests
<1>1. /\ Len(answers[c]) \in Nat /\ Len(stream[c]) \in Nat /\ sent \in Nat
      /\ InHand(c) = 1
  BY StateFacts, InHandFacts DEF ProcInv
<1>2. Len(answers[c]) + Len(stream[c]) + InHand(c) <= sent
  BY DEF ProcInv, ConnInv, Counted
<1>3. sent <= MaxRequests
  BY RequestsAssumption DEF ProcInv, TypeOK
<1> DEFINE n == Len(answers[c])
           m == Len(stream[c])
<1>4. n \in Nat /\ m \in Nat /\ n + m + 1 <= sent
  BY <1>1, <1>2
<1> HIDE DEF n, m
<1>5. n + 1 \in 1 .. MaxRequests
  BY <1>1, <1>3, <1>4, RequestsAssumption
<1>6. QED
  BY <1>5 DEF n, Number

(* A handler has executed the request in hand, and it is the next one.     *)
LEMMA HandleKeeps ==
  ASSUME ProcInv, NEW c \in Conns, Handle(c)
  PROVE  Kept(c)
<1> DEFINE h == done[c] + 1
<1>1. /\ pc[c] = "handle"
      /\ trace' = [trace EXCEPT ![h] = @ \cup {<<c, Number(c)>>}]
      /\ done' = [done EXCEPT ![c] = h]
      /\ UNCHANGED <<watched, conn, stream, sent, current, events, answers>>
  BY DEF Handle, Put
<1>2. PICK p \in {"preWrite", "handle", "handlerError", "thrown"} :
        /\ pc' = [pc EXCEPT ![c] = p]
        /\ p = "preWrite" => h = Handlers
        /\ p = "handle" => h # Handlers
  <2>1. \/ pc' = [pc EXCEPT ![c] = IF h = Handlers THEN "preWrite" ELSE "handle"]
        \/ pc' = [pc EXCEPT ![c] = "handlerError"]
        \/ pc' = [pc EXCEPT ![c] = "thrown"]
    BY DEF Handle, Goto, Put
  <2>2. QED
    BY <2>1
<1>3. /\ pc \in [Conns -> Places] /\ done \in [Conns -> 0 .. Handlers]
      /\ done[c] \in Nat /\ sent \in Nat /\ Number(c) \in Nat
      /\ Len(answers[c]) \in Nat /\ Len(stream[c]) \in Nat
      /\ trace \in [1 .. Handlers -> SUBSET (Conns \X (1 .. MaxRequests))]
  BY StateFacts DEF ProcInv
<1>4. /\ done[c] < Handlers /\ conn[c] = "open" /\ Executed(c) /\ Observed(c)
      /\ Counted(c)
  BY <1>1 DEF ProcInv, ConnInv, Attended, Executed
<1>5. h \in 1 .. Handlers /\ h \in 0 .. Handlers
  BY <1>3, <1>4, HandlersAssumption
<1>6. Number(c) \in 1 .. MaxRequests
  BY <1>1, NumberInBound DEF Busy
<1> HIDE DEF h
<1>7. /\ pc' \in [Conns -> Places] /\ pc'[c] = p
      /\ \A d \in Conns \ {c} : pc'[d] = pc[d]
  <2>1. p \in Places
    BY PlaceFacts DEF Busy
  <2>2. QED
    BY <1>2, <1>3, <2>1
<1>8. /\ done' \in [Conns -> 0 .. Handlers] /\ done'[c] = h
      /\ \A d \in Conns \ {c} : done'[d] = done[d]
  BY <1>1, <1>3, <1>5
<1>9. /\ trace' \in [1 .. Handlers -> SUBSET (Conns \X (1 .. MaxRequests))]
      /\ \A g \in 1 .. Handlers :
           trace'[g] = IF g = h THEN trace[g] \cup {<<c, Number(c)>>} ELSE trace[g]
  <2> DEFINE r == <<c, Number(c)>>
             S == Conns \X (1 .. MaxRequests)
  <2>1. r \in S
    BY <1>6
  <2> HIDE DEF r, S
  <2>2. trace \in [1 .. Handlers -> SUBSET S]
    BY <1>3 DEF S
  <2>3. trace' = [trace EXCEPT ![h] = @ \cup {r}]
    BY <1>1 DEF r
  <2>4. trace[h] \cup {r} \in SUBSET S
    BY <1>5, <2>1, <2>2
  <2>5. trace' \in [1 .. Handlers -> SUBSET S]
    BY <1>5, <2>2, <2>3, <2>4
  <2>6. \A g \in 1 .. Handlers :
          trace'[g] = IF g = h THEN trace[g] \cup {r} ELSE trace[g]
    BY <1>5, <2>2, <2>3
  <2>7. QED
    BY <2>5, <2>6 DEF r, S
<1>10. TypeOK'
  BY <1>1, <1>7, <1>8, <1>9 DEF ProcInv, TypeOK
<1>11. Untouched(c)
  BY <1>1, <1>3, <1>7, <1>8, <1>9 DEF Untouched
<1>12. p \in Busy /\ p \notin {"wait", "free", "postWrite", "exception", "reply",
                              "context", "unknown", "preRead", "read", "postRead"}
  BY DEF Busy
<1>13. Counted(c)'
  <2>1. InHand(c)' = InHand(c)
    BY <1>1, <1>7, <1>12 DEF InHand, Busy
  <2>2. QED
    BY <1>1, <1>4, <2>1 DEF Counted
<1>14. Attended(c)'
  BY <1>1, <1>7 DEF ProcInv, ConnInv, Attended
<1>15. Executed(c)'
  <2>1. Number(c)' = Number(c) /\ h \in Nat /\ Handlers \in Nat /\ h <= Handlers
    BY <1>1, <1>5, HandlersAssumption DEF Number
  <2>2. \A g \in 1 .. Handlers, n \in 1 .. MaxRequests :
          /\ <<c, n>> \in trace[g] => n <= Number(c)
          /\ n = Number(c) => (<<c, n>> \in trace[g] <=> g <= done[c])
    BY <1>1, <1>4 DEF Executed, Busy
  <2>3. ASSUME NEW g \in 1 .. Handlers, NEW n \in 1 .. MaxRequests
        PROVE  /\ <<c, n>> \in trace'[g] => n <= Number(c)
               /\ n = Number(c) => (<<c, n>> \in trace'[g] <=> g <= h)
    <3>1. CASE g = h
      <4>1. <<c, n>> \in trace'[g] <=> <<c, n>> \in trace[g] \/ n = Number(c)
        BY <1>9, <3>1
      <4>2. g <= h /\ Number(c) <= Number(c)
        BY <1>3, <2>1, <3>1
      <4>3. QED
        BY <2>2, <4>1, <4>2
    <3>2. CASE g # h
      <4>1. trace'[g] = trace[g]
        BY <1>9, <3>2
      <4>2. g <= h <=> g <= done[c]
        BY <1>3, <3>2 DEF h
      <4>3. QED
        BY <2>2, <4>1, <4>2
    <3>3. QED
      BY <3>1, <3>2
  <2>4. /\ p = "handle" => h < Handlers
        /\ p = "preWrite" => h = Handlers
    BY <1>2, <2>1
  <2>5. QED
    BY <1>7, <1>8, <1>12, <2>1, <2>3, <2>4 DEF Executed
<1>16. Observed(c)'
  BY <1>1, <1>4, <1>7, <1>12 DEF Observed, Told, Busy
<1>17. QED
  BY <1>10, <1>11, <1>13, <1>14, <1>15, <1>16 DEF Kept, ConnInv

LEMMA ExceptionKeeps ==
  ASSUME ProcInv, NEW c \in Conns, WriteException(c)
  PROVE  Kept(c)
<1>1. pc[c] = "exception"
  BY DEF WriteException
<1>2. CASE /\ Answer(c, "exception") /\ Goto(c, "free")
           /\ UNCHANGED <<watched, conn, stream, sent, current, events,
                          done, trace>>
  <2>1. /\ pc \in [Conns -> Places]
        /\ current \in [Conns -> Requests \cup {NoRequest}]
    BY StateFacts DEF ProcInv
  <2>2. pc' = [pc EXCEPT ![c] = "free"] /\ pc'[c] = "free"
    BY <1>2, <2>1 DEF Goto, Put
  <2>3. current[c] \in Requests /\ conn[c] = "open" /\ Observed(c)
    BY <1>1 DEF ProcInv, ConnInv, Attended
  <2>4. LastKind(c)' = "exception"
    BY <1>2, <2>3, AnswerFacts DEF ProcInv
  <2>5. Observed(c)'
    <3>1. /\ \A x : Told(c, x)' <=> Told(c, x)
          /\ ~watched => events'[c] = <<>>
      BY <1>2, <2>3 DEF Observed, Told
    <3>2. ~Told(c, "freeContext")' /\ ~Told(c, "postWrite")'
      BY <1>1, <2>3, <3>1 DEF Observed, Busy
    <3>3. watched => Told(c, "handlerError")'
      BY <1>1, <2>3, <3>1 DEF Observed
    <3>4. watched => Agree(c)'
      BY <2>4, <3>2, <3>3 DEF Agree
    <3>5. QED
      BY <1>2, <2>2, <2>3, <3>1, <3>2, <3>4 DEF Observed, Busy
  <2>6. "free" \in Places \ Busy /\ pc[c] \in Busy
    BY <1>1, PlaceFacts DEF Busy
  <2>7. QED
    BY <1>2, <2>1, <2>2, <2>5, <2>6, AnswerKeeps
<1>3. CASE Escape(c)
  BY <1>1, <1>3, EscapeKeeps
<1>4. QED
  BY <1>2, <1>3 DEF WriteException

LEMMA ReplyKeeps ==
  ASSUME ProcInv, NEW c \in Conns, WriteReply(c)
  PROVE  Kept(c)
<1>1. pc[c] = "reply"
  BY DEF WriteReply
<1>2. CASE /\ Answer(c, "reply") /\ Goto(c, "postWrite")
           /\ UNCHANGED <<watched, conn, stream, sent, current, events,
                          done, trace>>
  <2>1. /\ pc \in [Conns -> Places]
        /\ current \in [Conns -> Requests \cup {NoRequest}]
    BY StateFacts DEF ProcInv
  <2>2. pc' = [pc EXCEPT ![c] = "postWrite"] /\ pc'[c] = "postWrite"
    BY <1>2, <2>1 DEF Goto, Put
  <2>3. current[c] \in Requests /\ conn[c] = "open" /\ Observed(c)
    BY <1>1 DEF ProcInv, ConnInv, Attended
  <2>4. LastKind(c)' = "reply"
    BY <1>2, <2>3, AnswerFacts DEF ProcInv
  <2>5. Observed(c)'
    <3>1. /\ \A x : Told(c, x)' <=> Told(c, x)
          /\ ~watched => events'[c] = <<>>
      BY <1>2, <2>3 DEF Observed, Told
    <3>2. /\ ~Told(c, "freeContext")' /\ ~Told(c, "postWrite")'
          /\ ~Told(c, "handlerError")'
      BY <1>1, <2>3, <3>1 DEF Observed, Busy
    <3>3. QED
      BY <1>2, <2>2, <2>3, <2>4, <3>1, <3>2 DEF Observed, Busy
  <2>6. "postWrite" \in Places \ Busy /\ pc[c] \in Busy
    BY <1>1, PlaceFacts DEF Busy
  <2>7. QED
    BY <1>2, <2>1, <2>2, <2>5, <2>6, AnswerKeeps
<1>3. CASE Escape(c)
  BY <1>1, <1>3, EscapeKeeps
<1>4. QED
  BY <1>2, <1>3 DEF WriteReply

(* The context is freed and the connection waits for the next request.     *)
LEMMA FreeKeeps ==
  ASSUME ProcInv, NEW c \in Conns, Free(c)
  PROVE  Kept(c)
<1>1. /\ pc[c] = "free" /\ events' = [events EXCEPT ![c] = Log(c, "freeContext")]
      /\ pc' = [pc EXCEPT ![c] = "wait"]
      /\ current' = [current EXCEPT ![c] = NoRequest]
      /\ UNCHANGED <<watched, conn, stream, sent, done, trace, answers>>
  BY DEF Free, Freer, Goto, Put
<1>2. /\ events \in [Conns -> Seq(EventNames)] /\ pc \in [Conns -> Places]
      /\ Len(events[c]) \in Nat /\ sent \in Nat
      /\ current \in [Conns -> Requests \cup {NoRequest}]
  BY StateFacts DEF ProcInv
<1>3. /\ events'[c] = Log(c, "freeContext") /\ pc'[c] = "wait"
      /\ pc' \in [Conns -> Places]
      /\ current' \in [Conns -> Requests \cup {NoRequest}]
      /\ \A d \in Conns \ {c} : pc'[d] = pc[d] /\ current'[d] = current[d]
  BY <1>1, <1>2, PlaceFacts
<1>4. /\ events'[c] \in Seq(EventNames)
      /\ \A x : Told(c, x)' <=> Told(c, x) \/ (watched /\ x = "freeContext")
      /\ ~watched => events'[c] = events[c]
      /\ watched => /\ Len(events'[c]) = Len(events[c]) + 1
                    /\ events'[c][Len(events[c]) + 1] = "freeContext"
                    /\ \A k \in 1 .. Len(events[c]) : events'[c][k] = events[c][k]
  BY <1>3, LogFacts, PlaceFacts DEF ProcInv
<1>5. /\ events' \in [Conns -> Seq(EventNames)]
      /\ \A d \in Conns \ {c} : events'[d] = events[d]
  BY <1>1, <1>2, <1>4
<1>6. conn[c] = "open" /\ Observed(c) /\ Executed(c) /\ Counted(c)
  BY <1>1 DEF ProcInv, ConnInv, Attended
<1>7. TypeOK'
  BY <1>1, <1>3, <1>5 DEF ProcInv, TypeOK, EventNames
<1>8. Untouched(c)
  BY <1>1, <1>2, <1>3, <1>5 DEF Untouched
<1>9. Counted(c)'
  <2>1. InHand(c) = 0 /\ InHand(c)' = 0
    BY <1>1, <1>3 DEF InHand, Busy
  <2>2. QED
    BY <1>1, <1>6, <2>1 DEF Counted
<1>10. Attended(c)'
  BY <1>1, <1>3 DEF ProcInv, ConnInv, Attended
<1>11. Executed(c)'
  BY <1>1, <1>3, <1>6 DEF Executed, Busy, Number
<1>12. Observed(c)'
  <2>1. /\ \A k \in 1 .. Len(events[c]) : events[c][k] # "freeContext"
        /\ ~watched => events[c] = <<>>
        /\ watched => Agree(c)
    BY <1>1, <1>6 DEF Observed, Told
  <2>2. \A k \in 1 .. Len(events'[c]) :
          events'[c][k] = "freeContext" <=> k = Len(events'[c])
    <3>1. CASE watched
      BY <1>2, <1>4, <2>1, <3>1
    <3>2. CASE ~watched
      <4>1. events'[c] = <<>> /\ Len(events'[c]) = 0
        BY <1>4, <2>1, <3>2
      <4>2. QED
        BY <4>1
    <3>3. QED
      BY <3>1, <3>2
  <2>3. watched => Agree(c)'
    <3>1. LastKind(c)' = LastKind(c)
      BY <1>1 DEF LastKind
    <3>2. /\ Told(c, "handlerError")' <=> Told(c, "handlerError")
          /\ Told(c, "postWrite")' <=> Told(c, "postWrite")
      BY <1>4
    <3>3. QED
      BY <2>1, <3>1, <3>2 DEF Agree
  <2>4. ~watched => events'[c] = <<>>
    BY <1>4, <2>1
  <2>5. QED
    BY <1>1, <1>3, <1>6, <2>2, <2>3, <2>4 DEF Observed, Busy
<1>13. QED
  BY <1>7, <1>8, <1>9, <1>10, <1>11, <1>12 DEF Kept, ConnInv

-----------------------------------------------------------------------------
(***************************************************************************)
(* The invariant and the properties                                        *)
(***************************************************************************)

LEMMA InitProcInv == Init => ProcInv
<1>1. SUFFICES ASSUME Init PROVE ProcInv
  OBVIOUS
<1>2. TypeOK
  <2>1. /\ 0 \in 0 .. MaxRequests /\ 0 \in 0 .. Handlers /\ "wait" \in Places
        /\ <<>> \in Seq(Requests) /\ <<>> \in Seq(EventNames)
        /\ <<>> \in Seq(AnswerRecords)
    BY RequestsAssumption, HandlersAssumption, PlaceFacts, EmptySeq
  <2>2. QED
    BY <1>1, <2>1 DEF Init, TypeOK, EventNames, AnswerRecords
<1>3. ASSUME NEW c \in Conns PROVE ConnInv(c)
  <2>1. /\ conn[c] = "none" /\ pc[c] = "wait" /\ sent = 0
        /\ stream[c] = <<>> /\ events[c] = <<>> /\ answers[c] = <<>>
        /\ \A h \in 1 .. Handlers : trace[h] = {}
    BY <1>1 DEF Init
  <2>2. Len(stream[c]) = 0 /\ Len(answers[c]) = 0 /\ Len(events[c]) = 0
    BY <2>1, EmptySeq
  <2>3. InHand(c) = 0
    BY <2>1 DEF InHand, Busy
  <2>4. Counted(c) /\ Attended(c)
    BY <2>1, <2>2, <2>3 DEF Counted, Attended
  <2>5. Executed(c)
    BY <2>1 DEF Executed, Busy
  <2>6. Observed(c)
    BY <2>1, <2>2 DEF Observed, Busy
  <2>7. QED
    BY <2>4, <2>5, <2>6 DEF ConnInv
<1>4. QED
  BY <1>2, <1>3 DEF ProcInv

LEMMA ServeKeeps ==
  ASSUME ProcInv, NEW c \in Conns, Serve(c)
  PROVE  Kept(c)
<1>1. DispatchCall(c) \/ UnknownMethod(c) \/ Process(c)
  BY DEF Serve, process_Append, process_Delete, process_Rename, process_Auth,
         process_Get, process_List, process_Ping
<1>2. CASE DispatchCall(c)
  BY <1>2, DispatchKeeps
<1>3. CASE UnknownMethod(c)
  BY <1>3, UnknownKeeps
<1>4. CASE GetContext(c)
  BY <1>4, ContextKeeps
<1>5. CASE Observe(c)
  BY <1>5, ObserveKeeps
<1>6. CASE ReadArgs(c)
  BY <1>6, ReadKeeps
<1>7. CASE Handle(c)
  BY <1>7, HandleKeeps
<1>8. CASE Thrown(c)
  BY <1>8, EscapeKeeps DEF Thrown
<1>9. CASE WriteException(c)
  BY <1>9, ExceptionKeeps
<1>10. CASE WriteReply(c)
  BY <1>10, ReplyKeeps
<1>11. CASE Free(c)
  BY <1>11, FreeKeeps
<1>12. QED
  BY <1>1, <1>2, <1>3, <1>4, <1>5, <1>6, <1>7, <1>8, <1>9, <1>10, <1>11
     DEF Process

LEMMA NextProcInv == ProcInv /\ [Next]_vars => ProcInv'
<1>1. SUFFICES ASSUME ProcInv, [Next]_vars PROVE ProcInv'
  OBVIOUS
<1>2. ASSUME NEW c \in Conns, Kept(c) PROVE ProcInv'
  <2>1. TypeOK' /\ Untouched(c) /\ ConnInv(c)'
    BY <1>2 DEF Kept
  <2>2. ASSUME NEW d \in Conns PROVE ConnInv(d)'
    BY <1>1, <2>1, OthersKept
  <2>3. QED
    BY <2>1, <2>2 DEF ProcInv
<1>3. CASE UNCHANGED vars
  <2>1. TypeOK'
    BY <1>1, <1>3 DEF vars, ProcInv, TypeOK
  <2>2. ASSUME NEW c \in Conns PROVE ConnInv(c)'
    <3>1. Counted(c)' /\ Attended(c)'
      BY <1>1, <1>3 DEF vars, ProcInv, ConnInv, Counted, InHand, Attended
    <3>2. Executed(c)'
      BY <1>1, <1>3 DEF vars, ProcInv, ConnInv, Executed, Number
    <3>3. Observed(c)'
      BY <1>1, <1>3 DEF vars, ProcInv, ConnInv, Observed, Told, Agree, LastKind
    <3>4. QED
      BY <3>1, <3>2, <3>3 DEF ConnInv
  <2>3. QED
    BY <2>1, <2>2 DEF ProcInv
<1>4. CASE Terminated
  BY <1>3, <1>4 DEF Terminated
<1>5. ASSUME NEW c \in Conns,
             Accept(c) \/ Hangup(c) \/ Serve(c) \/ \E r \in Requests : Request(c, r)
      PROVE  Kept(c)
  BY <1>1, <1>5, AcceptKeeps, HangupKeeps, ServeKeeps, RequestKeeps
<1>6. QED
  BY <1>1, <1>2, <1>3, <1>4, <1>5 DEF Next

(* At every place of process_X what was executed, answered and told about  *)
(* each connection's request is what the code before that place did.       *)
THEOREM ProcInvHolds == Spec => []ProcInv
<1>1. QED
  BY InitProcInv, NextProcInv, PTL DEF Spec

(* The variables keep their types; a request's number stays in its bound.  *)
THEOREM ProcessorTypes == Spec => []TypeOK
<1>1. ProcInv => TypeOK
  BY DEF ProcInv
<1>2. QED
  BY <1>1, ProcInvHolds, PTL

(* Whatever way process_X is left, its context is freed once, and last.    *)
THEOREM ContextIsFreedLast == Spec => []ContextFreedLast
<1>1. ProcInv => ContextFreedLast
  <2>1. SUFFICES ASSUME ProcInv, NEW c \in Conns
                 PROVE  /\ \A k \in 1 .. Len(events[c]) :
                             events[c][k] = "freeContext" =>
                               k = Len(events[c]) /\ pc[c] = "wait"
                        /\ pc[c] = "wait" /\ events[c] # <<>> =>
                             events[c][Len(events[c])] = "freeContext"
    BY DEF ContextFreedLast
  <2>2. events[c] \in Seq(EventNames) /\ Len(events[c]) \in Nat
    BY <2>1, StateFacts DEF ProcInv
  <2>3. Observed(c)
    BY <2>1 DEF ProcInv, ConnInv
  <2>4. CASE pc[c] = "wait"
    <3>1. \A k \in 1 .. Len(events[c]) :
            events[c][k] = "freeContext" <=> k = Len(events[c])
      BY <2>3, <2>4 DEF Observed
    <3>2. events[c] # <<>> => Len(events[c]) \in 1 .. Len(events[c])
      BY <2>2, EmptySeq
    <3>3. QED
      BY <2>4, <3>1, <3>2
  <2>5. CASE pc[c] # "wait"
    BY <2>3, <2>5 DEF Observed, Told
  <2>6. QED
    BY <2>4, <2>5
<1>2. QED
  BY <1>1, ProcInvHolds, PTL

(* What the event handler was told agrees with what the client got.        *)
THEOREM EventsAgree == Spec => []EventsMatchAnswer
<1>1. ProcInv => EventsMatchAnswer
  BY DEF ProcInv, ConnInv, Observed, Agree, LastKind, EventsMatchAnswer
<1>2. QED
  BY <1>1, ProcInvHolds, PTL

-----------------------------------------------------------------------------
(***************************************************************************)
(* The processor implements WfsServing                                     *)
(***************************************************************************)

AnswerKinds == {"reply", "exception"}

(* What a client was answered is as long as what was written to it.        *)
LEMMA KindsFacts ==
  ASSUME NEW s \in Seq(AnswerRecords)
  PROVE  /\ [n \in 1 .. Len(s) |-> s[n].kind] \in Seq(AnswerKinds)
         /\ Len([n \in 1 .. Len(s) |-> s[n].kind]) = Len(s)
<1> DEFINE k == [n \in 1 .. Len(s) |-> s[n].kind]
<1>1. Len(s) \in Nat
  BY LenProperties
<1>2. \A n \in 1 .. Len(s) : s[n].kind \in AnswerKinds
  <2>1. \A n \in 1 .. Len(s) : s[n] \in AnswerRecords
    BY ElementOfSeq
  <2>2. QED
    BY <2>1 DEF AnswerRecords, AnswerKinds
<1>3. k \in [1 .. Len(s) -> AnswerKinds] /\ DOMAIN k = 1 .. Len(s)
  BY <1>2
<1> HIDE DEF k
<1>4. k \in Seq(AnswerKinds)
  BY <1>1, <1>3, SeqDef
<1>5. Len(k) = Len(s)
  <2>1. Len(k) \in Nat /\ DOMAIN k = 1 .. Len(k)
    BY <1>4, LenProperties
  <2>2. QED
    BY <1>1, <1>3, <2>1
<1>6. QED
  BY <1>4, <1>5 DEF k

(* One more answer is one more kind of answer. *)
LEMMA KindsAppend ==
  ASSUME NEW s \in Seq(AnswerRecords), NEW t \in Seq(AnswerRecords),
         NEW kind \in AnswerKinds, Len(t) = Len(s) + 1,
         \A n \in 1 .. Len(s) : t[n] = s[n],
         t[Len(s) + 1].kind = kind
  PROVE  [n \in 1 .. Len(t) |-> t[n].kind] =
           Append([n \in 1 .. Len(s) |-> s[n].kind], kind)
<1> DEFINE k == [n \in 1 .. Len(s) |-> s[n].kind]
           l == [n \in 1 .. Len(t) |-> t[n].kind]
<1>1. /\ k \in Seq(AnswerKinds) /\ Len(k) = Len(s)
      /\ l \in Seq(AnswerKinds) /\ Len(l) = Len(t) /\ Len(s) \in Nat
  BY KindsFacts, LenProperties
<1>2. /\ \A n \in 1 .. Len(s) : k[n] = s[n].kind
      /\ \A n \in 1 .. Len(t) : l[n] = t[n].kind
  OBVIOUS
<1> HIDE DEF k, l
<1>3. /\ Append(k, kind) \in Seq(AnswerKinds) /\ Len(Append(k, kind)) = Len(k) + 1
      /\ \A n \in 1 .. Len(k) : Append(k, kind)[n] = k[n]
      /\ Append(k, kind)[Len(k) + 1] = kind
  BY <1>1, AppendProperties
<1>4. ASSUME NEW n \in 1 .. Len(l) PROVE l[n] = Append(k, kind)[n]
  <2>1. CASE n = Len(s) + 1
    BY <1>1, <1>2, <1>3, <2>1
  <2>2. CASE n # Len(s) + 1
    <3>1. n \in 1 .. Len(s)
      BY <1>1, <2>2
    <3>2. QED
      BY <1>1, <1>2, <1>3, <3>1
  <2>3. QED
    BY <2>1, <2>2
<1>5. Len(l) = Len(Append(k, kind))
  BY <1>1, <1>3
<1>6. l = Append(k, kind)
  BY <1>1, <1>3, <1>4, <1>5, SeqEqual
<1>7. QED
  BY <1>6 DEF k, l

ServingVars == <<Answered, trace, Open, Taken>>
ServingStep == Serving!Next \/ UNCHANGED ServingVars

(* A step within the processing of a request keeps it in hand. *)
LEMMA TakenKept ==
  ASSUME ProcInv, NEW c \in Conns, NEW p, Goto(c, p),
         pc[c] \in Busy <=> p \in Busy
  PROVE  Taken' = Taken
<1>1. pc \in [Conns -> Places] /\ pc' = [pc EXCEPT ![c] = p]
  BY StateFacts DEF ProcInv, Goto, Put
<1>2. \A d \in Conns : pc'[d] \in Busy <=> pc[d] \in Busy
  BY <1>1
<1>3. QED
  BY <1>2 DEF Taken

(* A step that answers a request or gives it up has it no longer in hand. *)
LEMMA TakenEnds ==
  ASSUME ProcInv, NEW c \in Conns, NEW p, Goto(c, p), p \notin Busy
  PROVE  Taken' = Taken \ {c}
<1>1. pc \in [Conns -> Places] /\ pc' = [pc EXCEPT ![c] = p]
  BY StateFacts DEF ProcInv, Goto, Put
<1>2. pc'[c] \notin Busy /\ \A d \in Conns \ {c} : pc'[d] = pc[d]
  BY <1>1
<1>3. QED
  BY <1>2 DEF Taken

(* A step of the processing that neither executes nor answers is nothing.  *)
LEMMA StayServes ==
  ASSUME UNCHANGED <<answers, trace, conn>>, Taken' = Taken
  PROVE  ServingStep
BY DEF ServingStep, ServingVars, Answered, Open

LEMMA AcceptServes ==
  ASSUME ProcInv, NEW c \in Conns, Accept(c)
  PROVE  ServingStep
<1>1. /\ UNCHANGED <<answers, trace, pc>> /\ conn[c] = "none"
      /\ conn' = [conn EXCEPT ![c] = "open"] \/ conn' = [conn EXCEPT ![c] = "closed"]
  BY DEF Accept, Put
<1>2. conn \in [Conns -> {"none", "open", "closed"}]
  BY StateFacts DEF ProcInv
<1>3. Answered' = Answered /\ Taken' = Taken
  BY <1>1 DEF Answered, Taken
<1>4. CASE conn' = [conn EXCEPT ![c] = "open"]
  <2>1. Open' = Open \cup {c}
    BY <1>2, <1>4 DEF Open
  <2>2. Serving!Open(c)
    BY <1>1, <1>3, <2>1 DEF Serving!Open
  <2>3. QED
    BY <2>2 DEF Serving!Next, ServingStep
<1>5. CASE conn' = [conn EXCEPT ![c] = "closed"]
  <2>1. Open' = Open
    BY <1>1, <1>2, <1>5 DEF Open
  <2>2. QED
    BY <1>1, <1>3, <2>1 DEF ServingStep, ServingVars
<1>6. QED
  BY <1>1, <1>4, <1>5

LEMMA CloseServes ==
  ASSUME ProcInv, NEW c \in Conns, Close(c), UNCHANGED <<answers, trace>>
  PROVE  ServingStep
<1>1. conn' = [conn EXCEPT ![c] = "closed"] /\ Goto(c, "wait")
  BY DEF Close, Put
<1>2. conn \in [Conns -> {"none", "open", "closed"}]
  BY StateFacts DEF ProcInv
<1>3. Answered' = Answered
  BY DEF Answered
<1>4. Open' = Open \ {c}
  BY <1>1, <1>2 DEF Open
<1>5. Taken' = Taken \ {c}
  BY <1>1, TakenEnds DEF Busy
<1>6. Serving!Close(c)
  BY <1>3, <1>4, <1>5 DEF Serving!Close
<1>7. QED
  BY <1>6 DEF Serving!Next, ServingStep

(* The next request is taken up when the one before it was answered. *)
LEMMA DispatchServes ==
  ASSUME ProcInv, NEW c \in Conns, DispatchCall(c)
  PROVE  ServingStep
<1> DEFINE p == IF Head(stream[c]).name \in ProcessMap THEN "context" ELSE "unknown"
<1>1. /\ conn[c] = "open" /\ pc[c] = "wait" /\ pc' = [pc EXCEPT ![c] = p]
      /\ UNCHANGED <<conn, answers, trace>>
  BY DEF DispatchCall, Goto, Put
<1>2. p \in Busy /\ pc[c] \notin Busy
  BY <1>1 DEF Busy
<1> HIDE DEF p
<1>3. pc \in [Conns -> Places]
  BY StateFacts DEF ProcInv
<1>4. pc'[c] \in Busy /\ \A d \in Conns \ {c} : pc'[d] = pc[d]
  BY <1>1, <1>2, <1>3
<1>5. c \in Open \ Taken /\ Taken' = Taken \cup {c}
  BY <1>1, <1>2, <1>4 DEF Open, Taken
<1>6. Answered' = Answered /\ Open' = Open
  BY <1>1 DEF Answered, Open
<1>7. Serving!Take(c)
  BY <1>1, <1>5, <1>6 DEF Serving!Take
<1>8. QED
  BY <1>7 DEF Serving!Next, ServingStep

(* An answer, a reply only when all handlers have executed the request.    *)
LEMMA AnswerServes ==
  ASSUME ProcInv, NEW c \in Conns, NEW kind \in AnswerKinds, Answer(c, kind),
         pc[c] \in Busy, kind = "reply" => pc[c] = "reply",
         NEW p, Goto(c, p), p \notin Busy,
         UNCHANGED <<conn, trace>>
  PROVE  ServingStep
<1>1. /\ answers \in [Conns -> Seq(AnswerRecords)]
      /\ answers[c] \in Seq(AnswerRecords) /\ Len(answers[c]) \in Nat
  BY StateFacts DEF ProcInv
<1>2. pc[c] # "wait" /\ conn[c] = "open" /\ current[c] \in Requests /\ Executed(c)
      /\ Counted(c)
  BY DEF ProcInv, ConnInv, Attended, Busy
<1>3. /\ answers' \in [Conns -> Seq(AnswerRecords)]
      /\ \A d \in Conns \ {c} : answers'[d] = answers[d]
      /\ Len(answers'[c]) = Len(answers[c]) + 1
      /\ \A n \in 1 .. Len(answers[c]) : answers'[c][n] = answers[c][n]
      /\ answers'[c][Len(answers[c]) + 1].kind = kind
  BY <1>2, AnswerFacts DEF ProcInv, AnswerKinds
<1>4. Answered[c] = [n \in 1 .. Len(answers[c]) |-> answers[c][n].kind]
      /\ Len(Answered[c]) = Len(answers[c])
  BY <1>1, KindsFacts DEF Answered
<1>5. Answered'[c] = Append(Answered[c], kind)
  <2>1. answers'[c] \in Seq(AnswerRecords)
    BY <1>3
  <2>2. [n \in 1 .. Len(answers'[c]) |-> answers'[c][n].kind] =
          Append([n \in 1 .. Len(answers[c]) |-> answers[c][n].kind], kind)
    BY <1>1, <1>3, <2>1, KindsAppend
  <2>3. QED
    BY <1>4, <2>2 DEF Answered
<1>6. Answered' = [Answered EXCEPT ![c] = Append(@, kind)]
  <2>1. /\ DOMAIN Answered = Conns /\ DOMAIN Answered' = Conns
        /\ Answered = [d \in Conns |-> Answered[d]]
        /\ Answered' = [d \in Conns |-> Answered'[d]]
    BY DEF Answered
  <2>2. \A d \in Conns \ {c} : Answered'[d] = Answered[d]
    BY <1>3 DEF Answered
  <2>3. QED
    BY <1>5, <2>1, <2>2
<1>7. kind = "reply" =>
        \A h \in 1 .. Handlers : <<c, Len(Answered[c]) + 1>> \in trace[h]
  <2>1. SUFFICES ASSUME pc[c] = "reply", NEW h \in 1 .. Handlers
                 PROVE  <<c, Number(c)>> \in trace[h]
    BY <1>4 DEF Number
  <2>2. done[c] = Handlers /\ h <= done[c]
    BY <1>2, <2>1, HandlersAssumption DEF Executed
  <2>3. Number(c) \in 1 .. MaxRequests
    BY <1>2, NumberInBound
  <2>4. QED
    BY <1>2, <2>1, <2>2, <2>3 DEF Executed
<1>8. c \in Open \cap Taken /\ Open' = Open /\ Taken' = Taken \ {c}
  BY <1>2, TakenEnds DEF Open, Taken
<1>9. Serving!Answer(c, kind)
  BY <1>6, <1>7, <1>8 DEF Serving!Answer, AnswerKinds
<1>10. QED
  BY <1>9 DEF Serving!Next, ServingStep, AnswerKinds

(* The next handler executes the request that is to be answered next.      *)
LEMMA HandleServes ==
  ASSUME ProcInv, NEW c \in Conns, Handle(c)
  PROVE  ServingStep
<1> DEFINE h == done[c] + 1
           r == <<c, Number(c)>>
<1>1. /\ pc[c] = "handle" /\ trace' = [trace EXCEPT ![h] = @ \cup {r}]
      /\ answers' = answers /\ conn' = conn
  BY DEF Handle
<1>2. /\ done[c] < Handlers /\ conn[c] = "open" /\ Executed(c)
  BY <1>1 DEF ProcInv, ConnInv, Attended, Executed
<1>3. done[c] \in Nat /\ answers[c] \in Seq(AnswerRecords)
  BY StateFacts DEF ProcInv
<1>4. h \in 1 .. Handlers
  BY <1>2, <1>3, HandlersAssumption
<1>5. Number(c) \in 1 .. MaxRequests
  BY <1>1, NumberInBound DEF Busy
<1>6. \A g \in 1 .. Handlers : r \in trace[g] <=> g <= done[c]
  BY <1>1, <1>2, <1>5 DEF Executed, Busy
<1>7. r \notin trace[h] /\ \A g \in 1 .. h - 1 : r \in trace[g]
  <2>1. ~(h <= done[c])
    BY <1>3
  <2>2. \A g \in 1 .. h - 1 : g \in 1 .. Handlers /\ g <= done[c]
    BY <1>2, <1>3, HandlersAssumption
  <2>3. QED
    BY <1>4, <1>6, <2>1, <2>2
<1>8. /\ Answered' = Answered /\ Open' = Open /\ c \in Open \cap Taken
      /\ Taken' = Taken
  <2>1. pc[c] \in Busy
    BY <1>1 DEF Busy
  <2>2. Taken' = Taken
    <3>1. \/ Goto(c, IF done[c] + 1 = Handlers THEN "preWrite" ELSE "handle")
          \/ Goto(c, "handlerError") \/ Goto(c, "thrown")
      BY DEF Handle
    <3>2. \/ Goto(c, "preWrite") \/ Goto(c, "handle")
          \/ Goto(c, "handlerError") \/ Goto(c, "thrown")
      BY <3>1 DEF Goto, Put
    <3>3. {"preWrite", "handle", "handlerError", "thrown"} \subseteq Busy
      BY DEF Busy
    <3>4. QED
      BY <2>1, <3>2, <3>3, TakenKept
  <2>3. QED
    BY <1>1, <1>2, <2>1, <2>2 DEF Answered, Open, Taken
<1>9. r = <<c, Len(Answered[c]) + 1>>
  BY <1>3, KindsFacts DEF Answered, Number
<1> HIDE DEF h, r
<1>10. Serving!Execute(c, h)
  BY <1>1, <1>7, <1>8, <1>9 DEF Serving!Execute
<1>11. QED
  BY <1>4, <1>10 DEF Serving!Next, ServingStep

LEMMA ServeServes ==
  ASSUME ProcInv, NEW c \in Conns, Serve(c)
  PROVE  ServingStep
<1>1. DispatchCall(c) \/ UnknownMethod(c) \/ Process(c)
  BY DEF Serve, process_Append, process_Delete, process_Rename, process_Auth,
         process_Get, process_List, process_Ping
<1>2. CASE Escape(c)
  BY <1>2, CloseServes DEF Escape
<1>3. CASE DispatchCall(c)
  BY <1>3, DispatchServes
<1>4. CASE UnknownMethod(c)
  <2>1. pc[c] \in Busy /\ "wait" \notin Busy /\ "exception" \in AnswerKinds
    BY <1>4 DEF UnknownMethod, Busy, AnswerKinds
  <2>2. QED
    BY <1>4, <2>1, AnswerServes, CloseServes DEF UnknownMethod
<1>5. CASE GetContext(c)
  <2>1. pc[c] \in Busy /\ "preRead" \in Busy
    BY <1>5 DEF GetContext, Busy
  <2>2. QED
    BY <1>5, <2>1, TakenKept, StayServes, CloseServes DEF GetContext
<1>6. CASE Observe(c)
  <2>1. CASE Goto(c, AfterEvent[pc[c]]) /\ UNCHANGED <<conn, trace, answers>>
    <3>1. pc[c] \in Events
      BY <1>6 DEF Observe
    <3>2. PICK p \in Places : p = AfterEvent[pc[c]] /\ (pc[c] \in Busy <=> p \in Busy)
      BY <3>1 DEF Events, AfterEvent, Places, Busy
    <3>3. Taken' = Taken
      <4>1. Goto(c, p)
        BY <2>1, <3>2 DEF Goto, Put
      <4>2. QED
        BY <3>2, <4>1, TakenKept
    <3>4. UNCHANGED <<answers, trace, conn>>
      BY <2>1
    <3>5. QED
      BY <3>3, <3>4, StayServes
  <2>2. QED
    BY <1>2, <1>6, <2>1 DEF Observe
<1>7. CASE ReadArgs(c)
  <2>1. pc[c] \in Busy /\ "postRead" \in Busy
    BY <1>7 DEF ReadArgs, Busy
  <2>2. QED
    BY <1>2, <1>7, <2>1, TakenKept, StayServes DEF ReadArgs
<1>8. CASE Handle(c)
  BY <1>8, HandleServes
<1>9. CASE Thrown(c)
  BY <1>2, <1>9 DEF Thrown
<1>10. CASE WriteException(c)
  <2>1. pc[c] \in Busy /\ "free" \notin Busy /\ "exception" \in AnswerKinds
    BY <1>10 DEF WriteException, Busy, AnswerKinds
  <2>2. QED
    BY <1>2, <1>10, <2>1, AnswerServes DEF WriteException
<1>11. CASE WriteReply(c)
  <2>1. /\ pc[c] = "reply" /\ pc[c] \in Busy /\ "postWrite" \notin Busy
        /\ "reply" \in AnswerKinds
    BY <1>11 DEF WriteReply, Busy, AnswerKinds
  <2>2. QED
    BY <1>2, <1>11, <2>1, AnswerServes DEF WriteReply
<1>12. CASE Free(c)
  <2>1. pc[c] \notin Busy /\ "wait" \notin Busy
    BY <1>12 DEF Free, Busy
  <2>2. QED
    BY <1>12, <2>1, TakenKept, StayServes DEF Free
<1>13. QED
  BY <1>1, <1>3, <1>4, <1>5, <1>6, <1>7, <1>8, <1>9, <1>10, <1>11, <1>12
     DEF Process

(* For any mixture of connections, requests, handlers that throw and event *)
(* handlers that throw, the processor implements WfsServing.               *)
THEOREM ProcessorServes == Spec => KeepsServing
<1>1. Init => Serving!Init
  <2>1. SUFFICES ASSUME Init PROVE Serving!Init
    OBVIOUS
  <2>2. Open = {} /\ Taken = {} /\ trace = [h \in 1 .. Handlers |-> {}]
    BY <2>1 DEF Init, Open, Taken, Busy
  <2>3. ASSUME NEW c \in Conns
        PROVE  [n \in 1 .. Len(answers[c]) |-> answers[c][n].kind] = <<>>
    <3>1. answers[c] = <<>> /\ <<>> \in Seq(AnswerRecords)
      BY <2>1, EmptySeq DEF Init
    <3>2. /\ [n \in 1 .. Len(answers[c]) |-> answers[c][n].kind] \in Seq(AnswerKinds)
          /\ Len([n \in 1 .. Len(answers[c]) |-> answers[c][n].kind]) = 0
      BY <3>1, KindsFacts, EmptySeq
    <3>3. QED
      BY <3>2, EmptySeq
  <2>4. Answered = [c \in Conns |-> <<>>]
    BY <2>3 DEF Answered
  <2>5. QED
    BY <2>2, <2>4 DEF Serving!Init
<1>2. ProcInv /\ [Next]_vars => [Serving!Next]_<<Answered, trace, Open, Taken>>
  <2>1. SUFFICES ASSUME ProcInv, [Next]_vars PROVE ServingStep
    BY DEF ServingStep, ServingVars
  <2>2. CASE UNCHANGED vars
    BY <2>2 DEF vars, ServingStep, ServingVars, Answered, Open, Taken
  <2>3. CASE Terminated
    BY <2>2, <2>3 DEF Terminated
  <2>4. ASSUME NEW c \in Conns, Accept(c) PROVE ServingStep
    BY <2>1, <2>4, AcceptServes
  <2>5. ASSUME NEW c \in Conns, Hangup(c) PROVE ServingStep
    BY <2>1, <2>5, CloseServes DEF Hangup
  <2>6. ASSUME NEW c \in Conns, NEW r \in Requests, Request(c, r)
        PROVE  ServingStep
    BY <2>6, StayServes DEF Request, Taken
  <2>7. ASSUME NEW c \in Conns, Serve(c) PROVE ServingStep
    BY <2>1, <2>7, ServeServes
  <2>8. QED
    BY <2>1, <2>2, <2>3, <2>4, <2>5, <2>6, <2>7 DEF Next
<1>3. QED
  BY <1>1, <1>2, ProcInvHolds, PTL DEF Spec, KeepsServing, Serving!Spec
=============================================================================
