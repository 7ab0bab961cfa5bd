----------------------------- MODULE WfsClient -----------------------------
(***************************************************************************)
(* WfsClientImpl (src/wfs_client_impl.cpp): one client object shared by    *)
(* threads, its mutex, its two status flags, its last error and the        *)
(* connection below it (WfsLink).  The client is made by CreateWfsClient,  *)
(* whose thread connects and authenticates before anybody else sees it.    *)
(*                                                                         *)
(* A call is invoked (Call), waits for m_mutex, and holds it until it      *)
(* returns.  A method that talks to the server is split where it blocks:   *)
(* up to the request, on the answer, and in the sleep of a retry; the      *)
(* server and the network run in between, other callers wait.              *)
(***************************************************************************)
EXTENDS WfsLink

CONSTANTS
  Threads,        \* threads that use the client
  Creator,        \* the one that runs CreateWfsClient
  NoThread,       \* m_mutex is free
  UserOps,        \* the methods of IWfsClient that the threads may call
  RelockOutcomes  \* what locking a std::mutex its own thread holds may do

ASSUME ThreadsAssumption ==
  Creator \in Threads /\ NoThread \notin Threads /\ IsFiniteSet(Threads)
(* Undefined behaviour of std::mutex: the thread blocks for ever, or the   *)
(* library notices and throws std::system_error.                           *)
ASSUME RelockAssumption == RelockOutcomes \subseteq {"deadlock", "system_error"}

(* The file operations of IWfsClient and the service method each calls. *)
MethodOf ==
  [ UploadFile |-> "Append", DownloadFile |-> "Get", DeleteFile |-> "Delete",
    RenameFile |-> "Rename", ListDirectory |-> "List",
    Authenticate |-> "Auth", Ping |-> "Ping" ]
FileOps == {"UploadFile", "DownloadFile", "DeleteFile", "RenameFile",
            "ListDirectory"}
Ops == FileOps \cup {"Authenticate", "Ping", "Connect", "Reconnect",
                     "Disconnect", "Getter"}

ASSUME UserOpsAssumption == UserOps \subseteq Ops

(* m_lastError, by the text CreateErrorResult, Failure and Handle* give it. *)
Errors == {"not_connected", "not_authenticated", "transport", "thrift", "std",
           "server", "no_data", "auth_exception", "auth_limit"}
Outcomes == {"running", "ok", "minus1", "system_error"} \cup Errors

VARIABLES
  m_mutex,            \* the thread that holds it, or NoThread
  pc,                 \* where each thread is
  op,                 \* the method each thread is in
  retry,              \* the loop counter of AuthenticateInternal, else 0
  m_isConnected, m_isAuthenticated, m_lastError,
  m_client,           \* m_client is not null
  phase,              \* the life of the object
  calls               \* the calls in the order they took the mutex

clientVars == <<m_mutex, pc, op, retry, m_isConnected, m_isAuthenticated,
                m_lastError, m_client, phase, calls>>
vars == <<clientVars, linkVars>>

(* ans: the request whose answer this call returned; fresh: no exchange    *)
(* had failed on the connection it was read from.                          *)
NoAnswer == <<0, 0>>
CallRecords == [op : Ops, res : Outcomes, fresh : BOOLEAN,
                ans : (CallIds \X Attempts) \cup {NoAnswer}]
Entry(o, r, a) ==
  [op |-> o, res |-> r, ans |-> a, fresh |-> a # NoAnswer /\ clean]

TypeOK ==
  /\ LinkTypeOK
  /\ m_mutex \in Threads \cup {NoThread}
  /\ pc \in [Threads -> {"idle", "lock", "send", "recv", "sleep", "stuck"}]
  /\ op \in [Threads -> Ops \cup {"none"}]
  /\ retry \in 0 .. MaxRetries
  /\ m_isConnected \in BOOLEAN /\ m_isAuthenticated \in BOOLEAN
  /\ m_lastError \in Errors \cup {"none"}
  /\ m_client \in BOOLEAN
  /\ phase \in {"connect", "authenticate", "shared", "destroyed"}
  /\ calls \in Seq(CallRecords) /\ Len(calls) \in 0 .. MaxCalls

(* CreateWfsClient makes the object and calls Connect on it. *)
Init ==
  /\ LinkInit
  /\ m_mutex = NoThread
  /\ pc = [t \in Threads |-> IF t = Creator THEN "lock" ELSE "idle"]
  /\ op = [t \in Threads |-> IF t = Creator THEN "Connect" ELSE "none"]
  /\ retry = 0
  /\ m_isConnected = FALSE /\ m_isAuthenticated = FALSE
  /\ m_lastError = "none" /\ m_client = FALSE
  /\ phase = "connect" /\ calls = <<>>

-----------------------------------------------------------------------------
(***************************************************************************)
(* Calls                                                                   *)
(***************************************************************************)

Id == Len(calls)                       \* the call that holds the mutex
Waiting == {t \in Threads : pc[t] = "lock"}

(* A thread that has the client calls a method and goes for the mutex. *)
Call(t, o) ==
  /\ pc[t] = "idle"
  /\ Len(calls) + Cardinality(Waiting) < MaxCalls
  /\ pc' = [pc EXCEPT ![t] = "lock"] /\ op' = [op EXCEPT ![t] = o]
  /\ UNCHANGED <<m_mutex, retry, m_isConnected, m_isAuthenticated, m_lastError,
                 m_client, calls, linkVars>>

UserCall(t, o) ==
  /\ phase = "shared" /\ o \in UserOps
  /\ Call(t, o) /\ UNCHANGED phase

(* Mutant of Locks: a method without its lock_guard. *)
LocksNothing(t, o) == pc[t] = "lock" /\ op[t] = o
(* std::lock_guard<std::mutex> lock(m_mutex) in method o. *)
Locks(t, o) == pc[t] = "lock" /\ op[t] = o /\ m_mutex = NoThread

(* The method goes through in one step: it locks, returns r and unlocks. *)
ReturnAtOnce(t, r) ==
  /\ pc' = [pc EXCEPT ![t] = "idle"] /\ op' = [op EXCEPT ![t] = "none"]
  /\ calls' = Append(calls, Entry(op[t], r, NoAnswer))
  /\ UNCHANGED <<m_mutex, retry, phase>>

(* It keeps the lock and goes on at p. *)
HoldAt(t, p) ==
  /\ m_mutex' = t
  /\ pc' = [pc EXCEPT ![t] = p]
  /\ calls' = Append(calls, Entry(op[t], "running", NoAnswer))
  /\ UNCHANGED <<op, phase>>

(* The holder returns r, having read the answer to request a, and unlocks. *)
Return(t, r, a) ==
  /\ m_mutex' = NoThread
  /\ pc' = [pc EXCEPT ![t] = "idle"] /\ op' = [op EXCEPT ![t] = "none"]
  /\ retry' = 0
  /\ calls' = [calls EXCEPT ![Id] = Entry(op[t], r, a)]
  /\ UNCHANGED phase

(* HandleTransportException, HandleThriftException,                        *)
(* HandleStandardException.  Nothing here throws what catch (...) takes to *)
(* HandleUnknownException.                                                 *)
ErrorOf(e) == CASE e \in TransportExceptions -> "transport"
                [] e = "TException" -> "thrift"
                [] e = "std" -> "std"
(* Mutant of Breaks: a connection that is not open counts as alive. *)
BreaksOnlyAtEnd(e) == e = "END_OF_FILE"
Breaks(e) == e \in {"NOT_OPEN", "END_OF_FILE"}
(* Mutant of Handle: the connection is given up, its session is not. *)
HandleKeepsSession(e) ==
  /\ m_lastError' = ErrorOf(e)
  /\ m_isConnected' = (m_isConnected /\ ~Breaks(e))
  /\ UNCHANGED m_isAuthenticated
Handle(e) ==
  /\ m_lastError' = ErrorOf(e)
  /\ m_isConnected' = (m_isConnected /\ ~Breaks(e))
  /\ m_isAuthenticated' = (m_isAuthenticated /\ ~Breaks(e))

(* m_lastError is set and the flags stay as they are. *)
Record(r) ==
  m_lastError' = r /\ UNCHANGED <<m_isConnected, m_isAuthenticated>>
KeepFlags == UNCHANGED <<m_isConnected, m_isAuthenticated, m_lastError>>

-----------------------------------------------------------------------------
(***************************************************************************)
(* Connecting                                                              *)
(***************************************************************************)

(* ConnectInternal: new socket, transport, protocol and stub; open.  When  *)
(* it throws, the new stub stays, and the flags as the handler leaves them.*)
ConnectInternal(t) ==
  \E e \in {"none"} \cup Exceptions :
    /\ OpenFresh(e)
    /\ m_client' = TRUE
    /\ IF e = "none"
       THEN /\ m_isConnected' = TRUE
            /\ UNCHANGED <<m_isAuthenticated, m_lastError>>
            /\ ReturnAtOnce(t, "ok")
       ELSE Handle(e) /\ ReturnAtOnce(t, ErrorOf(e))

(* Connect and Reconnect on a connected client call Disconnect with the    *)
(* mutex held: its lock_guard locks m_mutex a second time.                 *)
RelockDeadlock(t) ==
  /\ "deadlock" \in RelockOutcomes /\ m_isConnected
  /\ HoldAt(t, "stuck")
  /\ UNCHANGED <<retry, m_isConnected, m_isAuthenticated, m_lastError,
                 m_client, linkVars>>
RelockThrows(t) ==
  /\ "system_error" \in RelockOutcomes /\ m_isConnected
  /\ ReturnAtOnce(t, "system_error")
  /\ KeepFlags /\ UNCHANGED <<m_client, linkVars>>

Connect(t) ==
  /\ Locks(t, "Connect")
  /\ RelockDeadlock(t) \/ RelockThrows(t) \/ (~m_isConnected /\ ConnectInternal(t))

Reconnect(t) ==
  /\ Locks(t, "Reconnect")
  /\ RelockDeadlock(t) \/ RelockThrows(t) \/ (~m_isConnected /\ ConnectInternal(t))

(* Disconnect closes the transport of a client that believes itself        *)
(* connected, swallowing what close throws, and drops the stub; m_socket   *)
(* and m_transport stay.                                                   *)
CloseAndReset ==
  /\ IF m_isConnected /\ m_client THEN CloseTransport ELSE UNCHANGED linkVars
  /\ m_isConnected' = FALSE /\ m_isAuthenticated' = FALSE
  /\ m_client' = FALSE

Disconnect(t) ==
  /\ Locks(t, "Disconnect")
  /\ CloseAndReset /\ UNCHANGED m_lastError
  /\ ReturnAtOnce(t, "ok")

(* IsConnected, IsAuthenticated and GetLastError: a copy under the lock. *)
Getter(t) ==
  /\ Locks(t, "Getter")
  /\ ReturnAtOnce(t, "ok")
  /\ KeepFlags /\ UNCHANGED <<m_client, linkVars>>

-----------------------------------------------------------------------------
(***************************************************************************)
(* File operations and Ping                                                *)
(***************************************************************************)

(* Mutant of Refuse: the reason is returned and not recorded. *)
RefuseSilently(t, r) ==
  /\ KeepFlags /\ ReturnAtOnce(t, r)
  /\ UNCHANGED <<m_client, linkVars>>
(* EnsureConnected and EnsureConnectedAndAuthenticated turn the call down. *)
Refuse(t, r) ==
  /\ Record(r) /\ ReturnAtOnce(t, r)
  /\ UNCHANGED <<m_client, linkVars>>
EnsureConnected(t) == ~m_isConnected /\ Refuse(t, "not_connected")
EnsureAuthenticated(t) ==
  m_isConnected /\ ~m_isAuthenticated /\ Refuse(t, "not_authenticated")

(* m_client->X(...) up to the blocking read. *)
SendRequest(t, m) ==
  /\ UNCHANGED m_client
  /\ \/ SendOk(m, Id + 1, retry) /\ HoldAt(t, "recv") /\ KeepFlags /\ UNCHANGED retry
     \/ \E e \in TransportExceptions :
          SendFails(m, e) /\ Handle(e) /\ ReturnAtOnce(t, ErrorOf(e))

FileOperation(t, o) ==
  /\ Locks(t, o)
  /\ \/ EnsureConnected(t) \/ EnsureAuthenticated(t)
     \/ m_isConnected /\ m_isAuthenticated /\ SendRequest(t, MethodOf[o])

UploadFile(t)    == FileOperation(t, "UploadFile")
DownloadFile(t)  == FileOperation(t, "DownloadFile")
DeleteFile(t)    == FileOperation(t, "DeleteFile")
RenameFile(t)    == FileOperation(t, "RenameFile")
ListDirectory(t) == FileOperation(t, "ListDirectory")

Ping(t) ==
  /\ Locks(t, "Ping")
  /\ EnsureConnected(t) \/ (m_isConnected /\ SendRequest(t, "Ping"))

(* What the method makes of the answer it was given. *)
AckVerdict(b)  == IF b = "ok" THEN "ok" ELSE "server"
DataVerdict(b) == IF b = "ok" THEN "ok" ELSE "no_data"
(* Only an error with a code is one: a DirList whose error has no code is  *)
(* returned as a listing.                                                  *)
ListVerdict(b) == IF b = "error" THEN "server" ELSE "ok"
Verdict(m, b) ==
  CASE m = "Get"  -> DataVerdict(b)
    [] m = "List" -> ListVerdict(b)
    [] m = "Ping" -> b
    [] OTHER      -> AckVerdict(b)

(* Mutant of Answered: instead of giving up, the request is sent again. *)
AnsweredOrSentAgain(t) ==
  /\ pc[t] = "recv" /\ op[t] \in FileOps \cup {"Ping"}
  /\ UNCHANGED m_client
  /\ LET m == MethodOf[op[t]] IN
     \/ \E a \in {inbox[k] : k \in 1 .. Len(inbox)} :
          /\ RecvOk(m, a)
          /\ Return(t, Verdict(m, a.body), Key(a))
          /\ KeepFlags
     \/ /\ SendOk(m, Id, retry)
        /\ KeepFlags /\ UNCHANGED <<m_mutex, pc, op, retry, phase, calls>>

(* The answer is there, or the read throws, in a file operation or Ping. *)
Answered(t) ==
  /\ pc[t] = "recv" /\ op[t] \in FileOps \cup {"Ping"}
  /\ UNCHANGED m_client
  /\ LET m == MethodOf[op[t]] IN
     \/ \E a \in {inbox[k] : k \in 1 .. Len(inbox)} :
          /\ RecvOk(m, a)
          /\ Return(t, Verdict(m, a.body), Key(a))
          /\ UNCHANGED <<m_isConnected, m_isAuthenticated>>
          /\ m_lastError' = IF Verdict(m, a.body) \in Errors
                            THEN Verdict(m, a.body) ELSE m_lastError
     \/ \E e \in Exceptions :
          RecvFails(m, e) /\ Handle(e) /\ Return(t, ErrorOf(e), NoAnswer)

-----------------------------------------------------------------------------
(***************************************************************************)
(* Authentication                                                          *)
(***************************************************************************)

(* Up to the first attempt; with maxRetries below 1 there is none. *)
Authenticate(t) ==
  /\ Locks(t, "Authenticate")
  /\ \/ EnsureConnected(t)
     \/ /\ m_isConnected /\ MaxRetries = 0
        /\ m_lastError' = "auth_limit" /\ m_isAuthenticated' = FALSE
        /\ ReturnAtOnce(t, "auth_limit")
        /\ UNCHANGED <<m_isConnected, m_client, linkVars>>
     \/ /\ m_isConnected /\ MaxRetries > 0
        /\ HoldAt(t, "send") /\ retry' = 1
        /\ KeepFlags /\ UNCHANGED <<m_client, linkVars>>

(* Mutant of AttemptFailed: giving up leaves the old session flag. *)
AttemptFailedKeepsSession(t) ==
  \/ /\ retry < MaxRetries
     /\ pc' = [pc EXCEPT ![t] = "sleep"]
     /\ KeepFlags /\ UNCHANGED <<m_mutex, op, retry, phase, calls>>
  \/ /\ retry = MaxRetries
     /\ UNCHANGED <<m_isConnected, m_isAuthenticated>>
     /\ m_lastError' = "auth_exception"
     /\ Return(t, "auth_exception", NoAnswer)

(* An attempt ended in a transport exception: sleep and try again, or give *)
(* up, leaving m_isConnected as it is.                                     *)
AttemptFailed(t) ==
  \/ /\ retry < MaxRetries
     /\ pc' = [pc EXCEPT ![t] = "sleep"]
     /\ KeepFlags /\ UNCHANGED <<m_mutex, op, retry, phase, calls>>
  \/ /\ retry = MaxRetries
     /\ m_isAuthenticated' = FALSE /\ UNCHANGED m_isConnected
     /\ m_lastError' = "auth_exception"
     /\ Return(t, "auth_exception", NoAnswer)

(* Mutant of AuthSend: a request that cannot be sent is sent again, and    *)
(* the attempt is not counted.                                             *)
AuthSendUntilSent(t) ==
  /\ pc[t] = "send" /\ op[t] = "Authenticate"
  /\ KeepFlags /\ UNCHANGED <<m_client, m_mutex, op, retry, phase, calls>>
  /\ \/ SendOk("Auth", Id, retry) /\ pc' = [pc EXCEPT ![t] = "recv"]
     \/ \E e \in TransportExceptions : SendFails("Auth", e) /\ UNCHANGED pc
(* send_Auth of one attempt. *)
AuthSend(t) ==
  /\ pc[t] = "send" /\ op[t] = "Authenticate"
  /\ UNCHANGED m_client
  /\ \/ /\ SendOk("Auth", Id, retry)
        /\ pc' = [pc EXCEPT ![t] = "recv"]
        /\ KeepFlags /\ UNCHANGED <<m_mutex, op, retry, phase, calls>>
     \/ \E e \in TransportExceptions : SendFails("Auth", e) /\ AttemptFailed(t)

(* Mutant of AuthAnswered: a login that was turned down is taken for one. *)
AuthAnsweredAnyway(t) ==
  /\ pc[t] = "recv" /\ op[t] = "Authenticate"
  /\ UNCHANGED m_client
  /\ \/ \E a \in {inbox[k] : k \in 1 .. Len(inbox)} :
          /\ RecvOk("Auth", a)
          /\ m_isAuthenticated' = TRUE /\ UNCHANGED m_isConnected
          /\ m_lastError' = IF a.body = "ok" THEN m_lastError ELSE "server"
          /\ Return(t, AckVerdict(a.body), Key(a))
     \/ \E e \in TransportExceptions : RecvFails("Auth", e) /\ AttemptFailed(t)
AuthAnswered(t) ==
  /\ pc[t] = "recv" /\ op[t] = "Authenticate"
  /\ UNCHANGED m_client
  /\ \/ \E a \in {inbox[k] : k \in 1 .. Len(inbox)} :
          /\ RecvOk("Auth", a)
          /\ m_isAuthenticated' = (a.body = "ok") /\ UNCHANGED m_isConnected
          /\ m_lastError' = IF a.body = "ok" THEN m_lastError ELSE "server"
          /\ Return(t, AckVerdict(a.body), Key(a))
     \/ \E e \in TransportExceptions : RecvFails("Auth", e) /\ AttemptFailed(t)
     \/ \E e \in Exceptions \ TransportExceptions :
          /\ RecvFails("Auth", e)
          /\ m_lastError' = ErrorOf(e) /\ m_isAuthenticated' = FALSE
          /\ UNCHANGED m_isConnected
          /\ Return(t, ErrorOf(e), NoAnswer)

(* After the sleep: close and open the same transport.  A failure clears   *)
(* m_isConnected and the loop goes on; a success does not set it.          *)
AuthRetry(t) ==
  /\ pc[t] = "sleep"
  /\ \E e \in {"none"} \cup TransportExceptions :
       ReopenSame(e) /\ m_isConnected' = (m_isConnected /\ e = "none")
  /\ pc' = [pc EXCEPT ![t] = "send"] /\ retry' = retry + 1
  /\ UNCHANGED <<m_mutex, op, m_isAuthenticated, m_lastError, m_client,
                 phase, calls>>

-----------------------------------------------------------------------------
(***************************************************************************)
(* The life of the object                                                  *)
(***************************************************************************)

(* CreateWfsClient after its Connect: Authenticate, or return false.  The  *)
(* out parameter holds the client either way.                              *)
CreateGoOn ==
  /\ phase = "connect" /\ pc[Creator] = "idle"
  /\ IF calls[1].res = "ok"
     THEN phase' = "authenticate" /\ Call(Creator, "Authenticate")
     ELSE /\ phase' = "shared"
          /\ UNCHANGED <<m_mutex, pc, op, retry, m_isConnected,
                         m_isAuthenticated, m_lastError, m_client, calls,
                         linkVars>>

CreateReturn ==
  /\ phase = "authenticate" /\ pc[Creator] = "idle"
  /\ phase' = "shared"
  /\ UNCHANGED <<m_mutex, pc, op, retry, m_isConnected, m_isAuthenticated,
                 m_lastError, m_client, calls, linkVars>>

(* The last shared_ptr goes: ~WfsClientImpl calls Disconnect, and the      *)
(* members take the socket with them.                                      *)
Destroy ==
  /\ phase = "shared" /\ \A t \in Threads : pc[t] = "idle"
  /\ phase' = "destroyed"
  /\ m_isConnected' = FALSE /\ m_isAuthenticated' = FALSE /\ m_client' = FALSE
  /\ sock' = "null" /\ unsent' = FALSE
  /\ UNCHANGED <<m_mutex, pc, op, retry, m_lastError, calls, gen, peer, wire,
                 inbox, rbuf, desync, clean, authed, executed>>

(* Nothing is left to do. *)
Terminated == phase = "destroyed" /\ wire = {} /\ UNCHANGED vars

Runs(t) ==
  \/ Connect(t) \/ Reconnect(t) \/ Disconnect(t) \/ Getter(t)
  \/ UploadFile(t) \/ DownloadFile(t) \/ DeleteFile(t) \/ RenameFile(t)
  \/ ListDirectory(t) \/ Ping(t) \/ Answered(t)
  \/ Authenticate(t) \/ AuthSend(t) \/ AuthAnswered(t) \/ AuthRetry(t)

Net == NetNext /\ UNCHANGED clientVars

Next ==
  \/ \E t \in Threads : Runs(t) \/ \E o \in Ops : UserCall(t, o)
  \/ CreateGoOn \/ CreateReturn \/ Destroy \/ Terminated
  \/ Net

Spec == Init /\ [][Next]_vars

(* A thread inside a call keeps running: every wait in it ends, the        *)
(* receive by its timeout, the sleep by itself.  Nothing is promised of    *)
(* the server and the network.                                             *)
FairSpec ==
  /\ Spec
  /\ \A t \in Threads : WF_vars(Runs(t))
  /\ WF_vars(CreateGoOn) /\ WF_vars(CreateReturn)

-----------------------------------------------------------------------------
(***************************************************************************)
(* The promise to the callers                                              *)
(***************************************************************************)

AbstractState(res) ==
  CASE res = "running" -> "open"
    [] res \in {"ok", "minus1"} -> "ok"
    [] res \in {"not_connected", "not_authenticated"} -> "refused"
    [] OTHER -> "failed"

AbstractLog ==
  [i \in 1 .. Len(calls) |->
     [ method |-> IF calls[i].op \in DOMAIN MethodOf
                  THEN MethodOf[calls[i].op] ELSE "none",
       st     |-> AbstractState(calls[i].res),
       ans    |-> calls[i].ans ]]

Promise == INSTANCE WfsCalls WITH log <- AbstractLog, Unanswered <- NoAnswer

(* The client implements WfsCalls: calls one at a time, requests executed  *)
(* at most once per attempt and never for a refused call, and answers that *)
(* the server gave to a request of the same method, none returned twice.   *)
KeepsPromise == Promise!Spec

-----------------------------------------------------------------------------
(***************************************************************************)
(* Properties                                                              *)
(***************************************************************************)

(* On a connection on which no exchange has failed, a call returns the     *)
(* answer to its own request, although recv_X compares no sequence number: *)
(* the mutex and the order of the stream are all that pair them.           *)
OwnAnswer ==
  \A i \in 1 .. Len(calls) : calls[i].fresh => calls[i].ans[1] = i

(* A request is executed at most once for each time it was sent: once for  *)
(* a file operation or Ping, once for each attempt of Authenticate, and    *)
(* never for a call the client turned down.  This survives lost answers,   *)
(* reconnections and requests that the server gets to late.                *)
AtMostOnce ==
  /\ \A r \in wire : Key(r) \notin executed
  /\ \A r, q \in wire : Key(r) = Key(q) => r = q
  /\ \A k \in executed :
       /\ k[1] \in 1 .. Len(calls)
       /\ calls[k[1]].res \notin {"not_connected", "not_authenticated"}
       /\ k[2] # 0 => calls[k[1]].op = "Authenticate"

(* No answer is returned twice, and each is one the server gave to a       *)
(* request of the same method: also when replies outlive their call in the *)
(* stream, and their connection in the read buffer.                        *)
AnswersOnce ==
  \A i, j \in 1 .. Len(calls) :
    calls[i].ans # NoAnswer =>
      /\ calls[j].ans = calls[i].ans => j = i
      /\ calls[i].ans \in executed
      /\ calls[calls[i].ans[1]].op = calls[i].op

(* The flags are as good as the checks that read them take them for: with  *)
(* m_isConnected, or inside the retry loop, there is a stub behind         *)
(* m_client; and a file operation that both flags let through has an open  *)
(* socket to write to.                                                     *)
ConnectedUsable ==
  /\ m_isConnected => m_client
  /\ \A t \in Threads : pc[t] \in {"send", "recv", "sleep"} => m_client
  /\ m_mutex = NoThread /\ m_isConnected /\ m_isAuthenticated => sock = "open"

(* Between calls an authenticated client is a connected one, so a call     *)
(* that finds itself disconnected never finds a session of a connection    *)
(* that is gone.  Up to two attempts the retry loop keeps this; see        *)
(* SessionAccepted and the run with three.                                 *)
AuthenticatedConnected ==
  m_mutex = NoThread /\ m_isAuthenticated => m_isConnected

(* m_isAuthenticated means that the server accepted an Auth on the current *)
(* connection: file operations go out on a session that exists.            *)
SessionAccepted == m_isAuthenticated => gen \in authed

(* A session is earned, for every maxRetries: before the flag is set, and  *)
(* before a file operation of the client is executed, the server accepted  *)
(* an Auth and executed one that an earlier call sent, by one of the       *)
(* attempts allowed to it.  With maxRetries 0 no attempt is, so there is   *)
(* never a session and no file operation is ever executed, whatever stale  *)
(* replies are read.                                                       *)
Earned(i) ==
  /\ authed # {}
  /\ \E k \in executed : k[1] < i /\ k[2] \in 1 .. MaxRetries
SessionEarned ==
  /\ m_isAuthenticated => Earned(Len(calls) + 1)
  /\ \A k \in executed : calls[k[1]].op \in FileOps => Earned(k[1])

(* m_lastError, shared by all threads, is the error of the call that, in   *)
(* the order of the mutex, failed last: no failing path of any method      *)
(* forgets it and none that succeeds touches it.                           *)
Failed == {i \in 1 .. Len(calls) : calls[i].res \in Errors}
LastErrorIsNewest ==
  m_lastError = IF Failed = {} THEN "none"
                ELSE calls[CHOOSE i \in Failed : \A j \in Failed : j <= i].res

(* Every call returns: a lost request, answer or connection, a server that *)
(* never replies and other callers in front of the mutex only delay it.    *)
EveryCallReturns == \A t \in Threads : pc[t] # "idle" ~> pc[t] = "idle"
=============================================================================
