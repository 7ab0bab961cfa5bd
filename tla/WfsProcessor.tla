---------------------------- MODULE WfsProcessor ----------------------------
(***************************************************************************)
(* WfsIfaceProcessor (gen-cpp/WfsIface.cpp): the server's side of the      *)
(* service.  Each connection has a thread that gives its requests to the   *)
(* processor, one after the other; the processor reads the arguments,      *)
(* calls the handler and writes the reply.  It tells an event handler, if  *)
(* there is one, of each of these, and frees the context it got from it    *)
(* on every way out (TProcessorContextFreer).                              *)
(*                                                                         *)
(* The handler may be a WfsIfaceMultiface, which passes a call on to       *)
(* several handlers in turn: Handlers of them.  What they do is not in the *)
(* repository: they answer, refuse or throw.  The thread of a connection   *)
(* is Thrift's: it ends the connection when an exception reaches it.       *)
(***************************************************************************)
EXTENDS Naturals, Sequences

CONSTANTS
  Conns,         \* connections
  Handlers,      \* the handlers behind one call
  Methods,       \* those of the seven methods of the service that are called
  MaxRequests    \* bound: requests the clients send, over all connections

ASSUME HandlersAssumption == Handlers \in Nat \ {0}
ASSUME RequestsAssumption == MaxRequests \in Nat

ProcessMap == {"Append", "Delete", "Rename", "Auth", "Get", "List", "Ping"}
Names == Methods \cup {"other"}
Requests == [name : Names, args : {"good", "bad"}]
NoRequest == [name |-> "none", args |-> "none"]

(* The places in process_X where the event handler is told, and where it   *)
(* goes on.                                                                *)
Events == {"preRead", "postRead", "handlerError", "preWrite", "postWrite"}
AfterEvent ==
  [ preRead |-> "read", postRead |-> "handle", handlerError |-> "exception",
    preWrite |-> "reply", postWrite |-> "free" ]
Places == Events \cup {"wait", "context", "unknown", "read", "handle",
                       "thrown", "exception", "reply", "free"}

VARIABLES
  watched,    \* there is an event handler
  conn,       \* each connection: "none", "open" or "closed"
  stream,     \* requests that have arrived and were not read
  sent,       \* how many the clients have sent
  current,    \* the request that is processed
  pc,         \* where
  events,     \* what the event handler was told about it
  done,       \* how many handlers have executed it
  trace,      \* by each handler: what it executed, <<connection, number>>
  answers     \* what was written to each client

vars == <<watched, conn, stream, sent, current, pc, events, done,
          trace, answers>>

(* The number of the request in hand: those before it were answered. *)
Number(c) == Len(answers[c]) + 1

TypeOK ==
  /\ watched \in BOOLEAN
  /\ conn \in [Conns -> {"none", "open", "closed"}]
  /\ stream \in [Conns -> Seq(Requests)]
  /\ sent \in 0 .. MaxRequests
  /\ current \in [Conns -> Requests \cup {NoRequest}]
  /\ pc \in [Conns -> Places]
  /\ events \in [Conns -> Seq(Events \cup {"getContext", "freeContext"})]
  /\ done \in [Conns -> 0 .. Handlers]
  /\ trace \in [1 .. Handlers -> SUBSET (Conns \X (1 .. MaxRequests))]
  /\ answers \in [Conns -> Seq([name : Names, kind : {"reply", "exception"}])]

Init ==
  /\ watched \in BOOLEAN
  /\ conn = [c \in Conns |-> "none"]
  /\ stream = [c \in Conns |-> <<>>] /\ sent = 0
  /\ current = [c \in Conns |-> NoRequest]
  /\ pc = [c \in Conns |-> "wait"]
  /\ events = [c \in Conns |-> <<>>]
  /\ done = [c \in Conns |-> 0]
  /\ trace = [h \in 1 .. Handlers |-> {}]
  /\ answers = [c \in Conns |-> <<>>]

-----------------------------------------------------------------------------
(***************************************************************************)
(* The connection's thread and the client                                  *)
(***************************************************************************)

Put(f, c, v) == f' = [f EXCEPT ![c] = v]
Goto(c, p) == Put(pc, c, p)
Log(c, e) == IF watched THEN Append(events[c], e) ELSE events[c]

(* getProcessor: a handler from the factory and a processor of its own for *)
(* the connection, or none, when the factory throws.  The handler is given *)
(* back by the deleter of its shared_ptr; when that runs is not modelled.  *)
Accept(c) ==
  /\ conn[c] = "none"
  /\ Put(conn, c, "open") \/ Put(conn, c, "closed")
  /\ UNCHANGED <<watched, stream, sent, current, pc, events, done, trace,
                 answers>>

Request(c, r) ==
  /\ conn[c] = "open" /\ sent < MaxRequests
  /\ sent' = sent + 1 /\ Put(stream, c, Append(stream[c], r))
  /\ UNCHANGED <<watched, conn, current, pc, events, done, trace,
                 answers>>

(* The connection ends, with whatever was sent on it and not read. *)
Close(c) ==
  /\ Put(conn, c, "closed")
  /\ Goto(c, "wait") /\ Put(stream, c, <<>>) /\ Put(current, c, NoRequest)

(* The client hangs up between two requests. *)
Hangup(c) ==
  /\ conn[c] = "open" /\ pc[c] = "wait" /\ stream[c] = <<>>
  /\ Close(c)
  /\ UNCHANGED <<watched, sent, events, done, trace, answers>>

-----------------------------------------------------------------------------
(***************************************************************************)
(* dispatchCall and process_X                                              *)
(***************************************************************************)

(* Mutant of Freer: the context is freed at the end of process_X only. *)
FreerForgets(c) == UNCHANGED events
(* ~TProcessorContextFreer *)
Freer(c) == Put(events, c, Log(c, "freeContext"))

(* An exception leaves process_X and reaches the connection's thread.      *)
Escape(c) ==
  /\ Freer(c) /\ Close(c)
  /\ UNCHANGED <<watched, sent, done, trace, answers>>

Answer(c, kind) ==
  Put(answers, c, Append(answers[c], [name |-> current[c].name, kind |-> kind]))

(* The processor is given the next request: it looks up its name. *)
DispatchCall(c) ==
  /\ conn[c] = "open" /\ pc[c] = "wait" /\ stream[c] # <<>>
  /\ Put(current, c, Head(stream[c])) /\ Put(stream, c, Tail(stream[c]))
  /\ Goto(c, IF Head(stream[c]).name \in ProcessMap THEN "context" ELSE "unknown")
  /\ Put(events, c, <<>>) /\ Put(done, c, 0)
  /\ UNCHANGED <<watched, conn, sent, trace, answers>>

(* A name nobody knows is answered with UNKNOWN_METHOD, unobserved. *)
UnknownMethod(c) ==
  /\ pc[c] = "unknown"
  /\ \/ /\ Answer(c, "exception") /\ Goto(c, "wait")
        /\ Put(current, c, NoRequest)
        /\ UNCHANGED <<conn, stream>>
     \/ /\ Close(c) /\ UNCHANGED answers
  /\ UNCHANGED <<watched, sent, events, done, trace>>

(* getContext, before there is anything to free. *)
GetContext(c) ==
  /\ pc[c] = "context"
  /\ \/ /\ Put(events, c, Log(c, "getContext")) /\ Goto(c, "preRead")
        /\ UNCHANGED <<conn, stream, current>>
     \/ /\ watched /\ Close(c) /\ UNCHANGED events
  /\ UNCHANGED <<watched, sent, done, trace, answers>>

(* The event handler is told where the processor is.  It may throw.        *)
Observe(c) ==
  /\ pc[c] \in Events
  /\ \/ /\ Put(events, c, Log(c, pc[c])) /\ Goto(c, AfterEvent[pc[c]])
        /\ UNCHANGED <<watched, conn, stream, sent, current, done, trace,
                       answers>>
     \/ watched /\ Escape(c)

(* args.read: a required field is missing, or the connection is gone. *)
ReadArgs(c) ==
  /\ pc[c] = "read"
  /\ \/ /\ current[c].args = "good" /\ Goto(c, "postRead")
        /\ UNCHANGED <<watched, conn, stream, sent, current, events, done,
                       trace, answers>>
     \/ Escape(c)

(* Mutant of Handle: one handler too many. *)
HandleOneMore(c) ==
  LET h == done[c] + 1 IN
  /\ pc[c] = "handle"
  /\ trace' = [trace EXCEPT ![h] = @ \cup {<<c, Number(c)>>}]
  /\ Put(done, c, h) /\ Goto(c, IF h > Handlers THEN "preWrite" ELSE "handle")
  /\ UNCHANGED <<watched, conn, stream, sent, current, events, answers>>
(* Mutant of Handle: the call starts again from the first handler when one *)
(* of them throws.                                                         *)
HandleAgain(c) ==
  LET h == done[c] + 1 IN
  /\ pc[c] = "handle"
  /\ trace' = [trace EXCEPT ![h] = @ \cup {<<c, Number(c)>>}]
  /\ \/ Put(done, c, h) /\ Goto(c, IF h = Handlers THEN "preWrite" ELSE "handle")
     \/ Put(done, c, 0) /\ UNCHANGED pc
  /\ UNCHANGED <<watched, conn, stream, sent, current, events, answers>>
(* iface_->X: the handlers in turn.  The first that throws ends it, and    *)
(* those before it have executed the request.                              *)
Handle(c) ==
  LET h == done[c] + 1 IN
  /\ pc[c] = "handle"
  /\ trace' = [trace EXCEPT ![h] = @ \cup {<<c, Number(c)>>}]
  /\ Put(done, c, h)
  /\ \/ Goto(c, IF h = Handlers THEN "preWrite" ELSE "handle")
     \/ Goto(c, "handlerError")
     \/ Goto(c, "thrown")
  /\ UNCHANGED <<watched, conn, stream, sent, current, events, answers>>

(* What is no std::exception is not caught. *)
Thrown(c) == pc[c] = "thrown" /\ Escape(c)

(* Mutant of WriteException: without the return after it. *)
WriteExceptionAndGoOn(c) ==
  /\ pc[c] = "exception"
  /\ Answer(c, "exception") /\ Goto(c, "preWrite")
  /\ UNCHANGED <<watched, conn, stream, sent, current, events, done,
                 trace>>
(* Mutant of WriteException: the event handler is told of a finished write.*)
WriteExceptionObserved(c) ==
  /\ pc[c] = "exception"
  /\ Answer(c, "exception") /\ Goto(c, "postWrite")
  /\ UNCHANGED <<watched, conn, stream, sent, current, events, done,
                 trace>>
(* The handler's exception becomes a T_EXCEPTION; no preWrite, postWrite. *)
WriteException(c) ==
  /\ pc[c] = "exception"
  /\ \/ /\ Answer(c, "exception") /\ Goto(c, "free")
        /\ UNCHANGED <<watched, conn, stream, sent, current, events, done,
                       trace>>
     \/ Escape(c)

WriteReply(c) ==
  /\ pc[c] = "reply"
  /\ \/ /\ Answer(c, "reply") /\ Goto(c, "postWrite")
        /\ UNCHANGED <<watched, conn, stream, sent, current, events, done,
                       trace>>
     \/ Escape(c)

Free(c) ==
  /\ pc[c] = "free"
  /\ Freer(c) /\ Goto(c, "wait") /\ Put(current, c, NoRequest)
  /\ UNCHANGED <<watched, conn, stream, sent, done, trace, answers>>

Process(c) ==
  \/ GetContext(c) \/ Observe(c) \/ ReadArgs(c) \/ Handle(c)
  \/ Thrown(c) \/ WriteException(c) \/ WriteReply(c) \/ Free(c)

(* The generated code is the same for every method but for its name. *)
process_Append(c) == current[c].name = "Append" /\ Process(c)
process_Delete(c) == current[c].name = "Delete" /\ Process(c)
process_Rename(c) == current[c].name = "Rename" /\ Process(c)
process_Auth(c)   == current[c].name = "Auth" /\ Process(c)
process_Get(c)    == current[c].name = "Get" /\ Process(c)
process_List(c)   == current[c].name = "List" /\ Process(c)
process_Ping(c)   == current[c].name = "Ping" /\ Process(c)

Serve(c) ==
  \/ DispatchCall(c) \/ UnknownMethod(c)
  \/ process_Append(c) \/ process_Delete(c) \/ process_Rename(c)
  \/ process_Auth(c) \/ process_Get(c) \/ process_List(c) \/ process_Ping(c)

Terminated ==
  /\ \A c \in Conns : conn[c] = "closed"
  /\ UNCHANGED vars

Next ==
  \/ \E c \in Conns :
       Accept(c) \/ Hangup(c) \/ Serve(c) \/ \E r \in Requests : Request(c, r)
  \/ Terminated

Spec == Init /\ [][Next]_vars

(* The thread of a connection runs, and the handlers return. *)
FairSpec == Spec /\ \A c \in Conns : WF_vars(Serve(c))

-----------------------------------------------------------------------------
(***************************************************************************)
(* Properties                                                              *)
(***************************************************************************)

Answered ==
  [c \in Conns |-> [n \in 1 .. Len(answers[c]) |-> answers[c][n].kind]]
Open == {c \in Conns : conn[c] = "open"}

(* A request is in hand that was not answered. *)
Busy == {"context", "unknown", "preRead", "read", "postRead", "handle",
         "thrown", "handlerError", "exception", "preWrite", "reply"}
Taken == {c \in Conns : pc[c] \in Busy}

Serving == INSTANCE WfsServing WITH
  answered <- Answered, executed <- trace, open <- Open, taken <- Taken

(* The processor implements WfsServing, on every mixture of connections:   *)
(* one answer for a request at most, be it a reply or an exception,        *)
(* replies only for what all handlers have executed, no request executed   *)
(* twice, none answered out of order.                                      *)
KeepsServing == Serving!Spec

(* A context is freed once and as the last of all that the event handler   *)
(* is told about a request, on every way out of process_X, exceptions of   *)
(* the event handler itself included.                                      *)
ContextFreedLast ==
  \A c \in Conns :
    /\ \A k \in 1 .. Len(events[c]) :
         events[c][k] = "freeContext" => k = Len(events[c]) /\ pc[c] = "wait"
    /\ pc[c] = "wait" /\ events[c] # <<>> =>
         events[c][Len(events[c])] = "freeContext"

(* What the event handler was told about a request that did not break its  *)
(* connection agrees with what the client was told: an error exactly for   *)
(* an exception of the handlers, a finished write exactly for a reply.     *)
Told(c, e) == \E k \in 1 .. Len(events[c]) : events[c][k] = e
EventsMatchAnswer ==
  \A c \in Conns :
    conn[c] = "open" /\ pc[c] = "wait" /\ events[c] # <<>> =>
      LET last == answers[c][Len(answers[c])].kind IN
      /\ Told(c, "handlerError") <=> last = "exception"
      /\ Told(c, "postWrite") <=> last = "reply"

(* Every request that was taken up is answered or ends its connection.     *)
EveryRequestEnds == \A c \in Conns : pc[c] # "wait" ~> pc[c] = "wait"
=============================================================================
