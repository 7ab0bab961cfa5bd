--------------------------- MODULE WfsFlagProofs ---------------------------
(***************************************************************************)
(* The status flags of WfsClientImpl: what m_isConnected and               *)
(* m_isAuthenticated say of m_client, of the socket and of each other      *)
(* (ConnectedUsable, for every MaxRetries; AuthenticatedConnected, up to   *)
(* two attempts) and of the server's session (SessionAccepted, with one).  *)
(* With more attempts the last two are false, as the runs of WfsClaims     *)
(* show; the bounds are the hypotheses of the theorems.                    *)
(* Then the last error (LastErrorIsNewest): ErrorInv says that it is that  *)
(* of the last failed call, which every step of a call keeps.              *)
(***************************************************************************)
EXTENDS WfsClientProofs

(* The socket after a send or a receive that throws an exception which     *)
(* does not break the connection is open.                                  *)
LEMMA SendFailsSocket ==
  ASSUME NEW m, NEW e, SendFails(m, e), ~Breaks(e)
  PROVE  sock' = "open"
BY DEF SendFails, Breaks

LEMMA SendOkSocket ==
  ASSUME NEW m, NEW id, NEW try, SendOk(m, id, try)
  PROVE  sock = "open" /\ sock' = "open" /\ UNCHANGED <<gen, inbox, authed>>
BY DEF SendOk

LEMMA RecvSocket ==
  ASSUME TypeInv, NEW m, (\E a : RecvOk(m, a)) \/ (\E e : RecvFails(m, e))
  PROVE  sock = "open" /\ sock' = "open" /\ UNCHANGED <<gen, authed>>
BY RecvOkLeaves, RecvFailsLeaves DEF TypeInv, RecvOk, RecvFails

(* Where a thread may hold the mutex. *)
LEMMA FreeNobodyInside ==
  ASSUME TypeInv, m_mutex = NoThread
  PROVE  \A t \in Threads : pc[t] \notin {"send", "recv", "sleep", "stuck"}
BY FreeNoRetry DEF TypeInv, Holding

LEMMA InsideIsHolder ==
  ASSUME TypeInv, NEW t \in Threads, pc[t] \in {"send", "recv", "sleep", "stuck"}
  PROVE  /\ m_mutex = t /\ m_mutex # NoThread
         /\ \A u \in Threads :
              u # t => pc[u] \notin {"send", "recv", "sleep", "stuck"}
BY ThreadsAssumption DEF TypeInv, CallInv, HolderInside, Holding

(* What the ways of returning and holding do to pc and to the mutex. *)
LEMMA PcOfReturnAtOnce ==
  ASSUME TypeInv, NEW t \in Threads, NEW r, ReturnAtOnce(t, r)
  PROVE  /\ pc'[t] = "idle" /\ m_mutex' = m_mutex
         /\ \A u \in Threads : u # t => pc'[u] = pc[u]
BY DEF TypeInv, CallInv, CallsType, ReturnAtOnce

LEMMA PcOfHoldAt ==
  ASSUME TypeInv, NEW t \in Threads, NEW p, HoldAt(t, p)
  PROVE  /\ pc'[t] = p /\ m_mutex' = t /\ m_mutex' # NoThread /\ op' = op
         /\ \A u \in Threads : u # t => pc'[u] = pc[u]
BY ThreadsAssumption DEF TypeInv, CallInv, CallsType, HoldAt

LEMMA PcOfReturn ==
  ASSUME TypeInv, NEW t \in Threads, NEW r, NEW a, Return(t, r, a)
  PROVE  /\ pc'[t] = "idle" /\ m_mutex' = NoThread
         /\ \A u \in Threads : u # t => pc'[u] = pc[u]
BY DEF TypeInv, CallInv, CallsType, Return

-----------------------------------------------------------------------------
(***************************************************************************)
(* ConnectedUsable                                                         *)
(***************************************************************************)
LEMMA UsableInit == Init => ConnectedUsable
BY DEF Init, ConnectedUsable, LinkInit

(* Steps that leave the flags, the stub, the socket and the places inside  *)
(* the client alone.                                                       *)
LEMMA UsableUntouched ==
  ASSUME ConnectedUsable, UNCHANGED <<m_isConnected, m_isAuthenticated,
                                      m_client, sock>>,
         m_mutex' = m_mutex,
         \A t \in Threads : pc'[t] \in {"send", "recv", "sleep"} => pc[t] = pc'[t]
  PROVE  ConnectedUsable'
BY DEF ConnectedUsable

LEMMA UsableConnecting ==
  ASSUME TypeInv, ConnectedUsable, NEW t \in Threads, NEW o, Locks(t, o),
         RelockDeadlock(t) \/ RelockThrows(t)
           \/ (~m_isConnected /\ ConnectInternal(t))
  PROVE  ConnectedUsable'
<1>1. CASE RelockDeadlock(t)
  <2>1. HoldAt(t, "stuck") /\ UNCHANGED <<m_isConnected, m_client>>
    BY <1>1 DEF RelockDeadlock
  <2>2. QED
    BY <2>1, PcOfHoldAt DEF ConnectedUsable
<1>2. CASE RelockThrows(t)
  BY <1>2, PcOfReturnAtOnce, UsableUntouched
     DEF RelockThrows, KeepFlags, linkVars
<1>3. CASE ~m_isConnected /\ ConnectInternal(t)
  <2>1. PICK e \in {"none"} \cup Exceptions :
          /\ OpenFresh(e) /\ m_client' = TRUE
          /\ e = "none" => m_isConnected' = TRUE
          /\ e # "none" => Handle(e)
          /\ \E r : ReturnAtOnce(t, r)
    BY <1>3 DEF ConnectInternal
  <2>2. e = "none" => sock' = "open"
    BY <2>1 DEF OpenFresh
  <2>3. e # "none" => ~m_isConnected'
    BY <1>3, <2>1 DEF Handle
  <2>4. QED
    BY <2>1, <2>2, <2>3 DEF ConnectedUsable
<1>4. QED
  BY <1>1, <1>2, <1>3

LEMMA UsableLocal ==
  ASSUME TypeInv, ConnectedUsable, NEW t \in Threads,
         Disconnect(t) \/ Getter(t)
  PROVE  ConnectedUsable'
<1>1. CASE Disconnect(t)
  <2>1. /\ m_isConnected' = FALSE /\ m_mutex = NoThread
        /\ ReturnAtOnce(t, "ok")
    BY <1>1 DEF Disconnect, CloseAndReset, Locks
  <2>2. QED
    BY <2>1, FreeNobodyInside, PcOfReturnAtOnce DEF ConnectedUsable
<1>2. CASE Getter(t)
  BY <1>2, PcOfReturnAtOnce, UsableUntouched DEF Getter, KeepFlags, linkVars
<1>3. QED
  BY <1>1, <1>2

LEMMA UsableRefuse ==
  ASSUME TypeInv, ConnectedUsable, NEW t \in Threads, NEW r, Refuse(t, r)
  PROVE  ConnectedUsable'
BY PcOfReturnAtOnce, UsableUntouched DEF Refuse, Record, linkVars

LEMMA UsableSendRequest ==
  ASSUME TypeInv, ConnectedUsable, NEW t \in Threads, NEW m, m_isConnected,
         SendRequest(t, m)
  PROVE  ConnectedUsable'
<1>1. CASE HoldAt(t, "recv") /\ KeepFlags /\ UNCHANGED m_client
  BY <1>1, PcOfHoldAt DEF ConnectedUsable, KeepFlags
<1>2. ASSUME NEW e \in TransportExceptions, SendFails(m, e), Handle(e),
             ReturnAtOnce(t, ErrorOf(e)), UNCHANGED m_client
      PROVE  ConnectedUsable'
  <2>1. m_isConnected' => sock' = "open" /\ m_isConnected
    BY <1>2, SendFailsSocket DEF Handle
  <2>2. QED
    BY <1>2, <2>1, PcOfReturnAtOnce DEF ConnectedUsable
<1>3. QED
  BY <1>1, <1>2 DEF SendRequest

LEMMA UsableAnswered ==
  ASSUME TypeInv, ConnectedUsable, NEW t \in Threads, Answered(t)
  PROVE  ConnectedUsable'
<1>1. sock' = "open" /\ UNCHANGED m_client /\ \E r, a : Return(t, r, a)
  BY RecvSocket DEF Answered
<1>2. m_isConnected' => m_isConnected
  BY DEF Answered, Handle
<1>3. QED
  BY <1>1, <1>2, PcOfReturn DEF ConnectedUsable

LEMMA UsableAuthenticate ==
  ASSUME TypeInv, ConnectedUsable, NEW t \in Threads, Authenticate(t)
  PROVE  ConnectedUsable'
<1>1. CASE EnsureConnected(t)
  BY <1>1, UsableRefuse DEF EnsureConnected
<1>2. CASE /\ m_isAuthenticated' = FALSE /\ ReturnAtOnce(t, "auth_limit")
           /\ UNCHANGED <<m_isConnected, m_client, linkVars>>
  BY <1>2, PcOfReturnAtOnce DEF ConnectedUsable
<1>3. CASE m_isConnected /\ HoldAt(t, "send") /\ KeepFlags /\ UNCHANGED m_client
  BY <1>3, PcOfHoldAt DEF ConnectedUsable, KeepFlags
<1>4. QED
  BY <1>1, <1>2, <1>3 DEF Authenticate

(* Inside the loop the stub is there, and is left there. *)
LEMMA UsableAttempt ==
  ASSUME TypeInv, ConnectedUsable, NEW t \in Threads,
         AuthSend(t) \/ AuthAnswered(t) \/ AuthRetry(t)
  PROVE  ConnectedUsable'
<1>1. pc[t] \in {"send", "recv", "sleep"} /\ m_client /\ m_client' = m_client
  BY DEF AuthSend, AuthAnswered, AuthRetry, ConnectedUsable
<1>2. m_isConnected' => m_client'
  BY <1>1
<1>3. \A u \in Threads : pc'[u] \in {"send", "recv", "sleep"} => m_client'
  BY <1>1
<1>4. m_mutex' = NoThread /\ m_isAuthenticated' => sock' = "open"
  <2>1. m_mutex # NoThread
    BY <1>1, InsideIsHolder
  <2>2. CASE m_mutex' = m_mutex
    BY <2>1, <2>2
  <2>3. CASE AuthSend(t) /\ m_mutex' # m_mutex
    BY <2>3 DEF AuthSend, AttemptFailed
  <2>4. CASE AuthAnswered(t)
    BY <2>4, RecvSocket DEF AuthAnswered
  <2>5. QED
    BY <2>2, <2>3, <2>4 DEF AuthRetry
<1>5. QED
  BY <1>2, <1>3, <1>4 DEF ConnectedUsable

LEMMA UsableRuns ==
  ASSUME TypeInv, ConnectedUsable, NEW t \in Threads, Runs(t)
  PROVE  ConnectedUsable'
<1>1. ASSUME NEW o, FileOperation(t, o) PROVE ConnectedUsable'
  BY <1>1, UsableRefuse, UsableSendRequest
     DEF FileOperation, EnsureConnected, EnsureAuthenticated
<1>2. CASE Ping(t)
  BY <1>2, UsableRefuse, UsableSendRequest DEF Ping, EnsureConnected
<1>3. CASE Connect(t)
  BY <1>3, UsableConnecting DEF Connect
<1>4. CASE Reconnect(t)
  BY <1>4, UsableConnecting DEF Reconnect
<1>5. CASE UploadFile(t)
  BY <1>5, <1>1 DEF UploadFile
<1>6. CASE DownloadFile(t)
  BY <1>6, <1>1 DEF DownloadFile
<1>7. CASE DeleteFile(t)
  BY <1>7, <1>1 DEF DeleteFile
<1>8. CASE RenameFile(t)
  BY <1>8, <1>1 DEF RenameFile
<1>9. CASE ListDirectory(t)
  BY <1>9, <1>1 DEF ListDirectory
<1>10. QED
  BY <1>2, <1>3, <1>4, <1>5, <1>6, <1>7, <1>8, <1>9, UsableLocal,
     UsableAnswered, UsableAuthenticate, UsableAttempt DEF Runs

(* An invocation, on behalf of a caller or of the factory, changes neither *)
(* the flags nor the link.                                                 *)
LEMMA CallLeaves ==
  ASSUME TypeInv, NEW t \in Threads, NEW o, Call(t, o)
  PROVE  /\ UNCHANGED <<m_isConnected, m_isAuthenticated, m_client, linkVars>>
         /\ UNCHANGED <<m_mutex, retry, calls>>
         /\ pc[t] = "idle" /\ pc'[t] = "lock"
         /\ \A u \in Threads : u # t => pc'[u] = pc[u] /\ op'[u] = op[u]
BY DEF TypeInv, CallInv, CallsType, Call

LEMMA UsableNext == TypeInv /\ ConnectedUsable /\ [Next]_vars => ConnectedUsable'
<1> SUFFICES ASSUME TypeInv, ConnectedUsable, [Next]_vars
             PROVE  ConnectedUsable'
  OBVIOUS
<1>1. ASSUME NEW t \in Threads, Runs(t) PROVE ConnectedUsable'
  BY <1>1, UsableRuns
<1>2. ASSUME NEW t \in Threads, NEW o, Call(t, o) PROVE ConnectedUsable'
  BY <1>2, CallLeaves, UsableUntouched DEF linkVars
<1>3. CASE Net
  <2>1. sock' = sock
    BY <1>3 DEF Net, NetNext, Serve, LinkDrop
  <2>2. QED
    BY <1>3, <2>1, UsableUntouched DEF Net, clientVars
<1>4. CASE Destroy
  BY <1>4 DEF Destroy, ConnectedUsable
<1>5. CASE UNCHANGED <<m_mutex, pc, op, retry, m_isConnected,
                       m_isAuthenticated, m_lastError, m_client, calls,
                       linkVars>>
  BY <1>5, UsableUntouched DEF linkVars
<1>6. UNCHANGED vars => UNCHANGED <<m_mutex, pc, op, retry, m_isConnected,
                                   m_isAuthenticated, m_lastError, m_client,
                                   calls, linkVars>>
  BY DEF vars, clientVars
<1>7. QED
  BY <1>1, <1>2, <1>3, <1>4, <1>5, <1>6, ThreadsAssumption
     DEF Next, UserCall, CreateGoOn, CreateReturn, Terminated

(* The check of m_isConnected is enough to dereference m_client, and a     *)
(* file operation that both flags let through has an open socket: for any  *)
(* threads, calls and retries of WfsClientImpl.                            *)
THEOREM ConnectedIsUsable == Spec => []ConnectedUsable
<1>1. QED
  BY TypeCorrect, UsableInit, UsableNext, PTL DEF Spec

-----------------------------------------------------------------------------
(***************************************************************************)
(* AuthenticatedConnected, with at most two attempts                       *)
(***************************************************************************)

(* A method that waits for its answer, and the retry loop, is connected;   *)
(* unless the last attempt is to go out on a socket that did not reopen.   *)
InsideConnected(t) ==
  /\ pc[t] = "recv" => m_isConnected
  /\ pc[t] \in {"send", "sleep"} =>
       \/ m_isConnected
       \/ pc[t] = "send" /\ retry = MaxRetries /\ sock # "open"

FlagInv ==
  AuthenticatedConnected /\ \A t \in Threads : InsideConnected(t)

LEMMA FlagInit == Init => FlagInv
BY DEF Init, FlagInv, AuthenticatedConnected, InsideConnected

LEMMA FlagUntouched ==
  ASSUME FlagInv, UNCHANGED <<m_isConnected, m_isAuthenticated, sock, retry>>,
         m_mutex' = m_mutex,
         \A t \in Threads : pc'[t] \in {"send", "recv", "sleep"} => pc[t] = pc'[t]
  PROVE  FlagInv'
BY DEF FlagInv, AuthenticatedConnected, InsideConnected

(* A method that finds the mutex free and returns in the same step: nobody *)
(* is inside, so only the two flags count.                                 *)
LEMMA FlagReturnAtOnce ==
  ASSUME TypeInv, m_mutex = NoThread, NEW t \in Threads, NEW r,
         ReturnAtOnce(t, r), m_isAuthenticated' => m_isConnected'
  PROVE  FlagInv'
BY FreeNobodyInside, PcOfReturnAtOnce
   DEF FlagInv, AuthenticatedConnected, InsideConnected

LEMMA FlagReturn ==
  ASSUME TypeInv, NEW t \in Threads, NEW r, NEW a, Return(t, r, a),
         pc[t] \in {"send", "recv"}, m_isAuthenticated' => m_isConnected'
  PROVE  FlagInv'
BY InsideIsHolder, PcOfReturn
   DEF FlagInv, AuthenticatedConnected, InsideConnected

LEMMA FlagHoldAt ==
  ASSUME TypeInv, m_mutex = NoThread, NEW t \in Threads, NEW p, HoldAt(t, p),
         p = "stuck" \/ m_isConnected'
  PROVE  FlagInv'
BY FreeNobodyInside, PcOfHoldAt
   DEF FlagInv, AuthenticatedConnected, InsideConnected

LEMMA FlagConnecting ==
  ASSUME TypeInv, FlagInv, NEW t \in Threads, NEW o, Locks(t, o),
         RelockDeadlock(t) \/ RelockThrows(t)
           \/ (~m_isConnected /\ ConnectInternal(t))
  PROVE  FlagInv'
<1>1. m_mutex = NoThread
  BY DEF Locks
<1>2. CASE RelockDeadlock(t)
  BY <1>1, <1>2, FlagHoldAt DEF RelockDeadlock
<1>3. CASE RelockThrows(t)
  BY <1>1, <1>3, FlagReturnAtOnce
     DEF RelockThrows, KeepFlags, FlagInv, AuthenticatedConnected
<1>4. CASE ~m_isConnected /\ ConnectInternal(t)
  <2>1. ~m_isAuthenticated
    BY <1>1, <1>4 DEF FlagInv, AuthenticatedConnected
  <2>2. ~m_isAuthenticated' /\ \E r : ReturnAtOnce(t, r)
    BY <2>1, <1>4 DEF ConnectInternal, Handle
  <2>3. QED
    BY <1>1, <2>2, FlagReturnAtOnce
<1>5. QED
  BY <1>2, <1>3, <1>4

LEMMA FlagLocal ==
  ASSUME TypeInv, FlagInv, NEW t \in Threads, Disconnect(t) \/ Getter(t)
  PROVE  FlagInv'
BY FlagReturnAtOnce
   DEF Disconnect, CloseAndReset, Getter, Locks, KeepFlags, FlagInv,
       AuthenticatedConnected

LEMMA FlagRefuse ==
  ASSUME TypeInv, FlagInv, m_mutex = NoThread, NEW t \in Threads, NEW r,
         Refuse(t, r)
  PROVE  FlagInv'
BY FlagReturnAtOnce DEF Refuse, Record, FlagInv, AuthenticatedConnected

LEMMA FlagSendRequest ==
  ASSUME TypeInv, FlagInv, m_mutex = NoThread, NEW t \in Threads, NEW m,
         m_isConnected, SendRequest(t, m)
  PROVE  FlagInv'
<1>1. CASE HoldAt(t, "recv") /\ KeepFlags
  BY <1>1, FlagHoldAt DEF KeepFlags
<1>2. ASSUME NEW e, Handle(e), ReturnAtOnce(t, ErrorOf(e))
      PROVE  FlagInv'
  BY <1>2, FlagReturnAtOnce DEF Handle
<1>3. QED
  BY <1>1, <1>2 DEF SendRequest

LEMMA FlagAnswered ==
  ASSUME TypeInv, FlagInv, NEW t \in Threads, Answered(t)
  PROVE  FlagInv'
<1>1. pc[t] = "recv" /\ m_isConnected
  BY DEF Answered, FlagInv, InsideConnected
<1>2. m_isAuthenticated' => m_isConnected'
  BY <1>1 DEF Answered, Handle
<1>3. QED
  BY <1>1, <1>2, FlagReturn DEF Answered

LEMMA FlagAuthenticate ==
  ASSUME TypeInv, FlagInv, NEW t \in Threads, Authenticate(t)
  PROVE  FlagInv'
<1>1. m_mutex = NoThread
  BY DEF Authenticate, Locks
<1>2. CASE EnsureConnected(t)
  BY <1>1, <1>2, FlagRefuse DEF EnsureConnected
<1>3. CASE m_isAuthenticated' = FALSE /\ ReturnAtOnce(t, "auth_limit")
  BY <1>1, <1>3, FlagReturnAtOnce
<1>4. CASE m_isConnected /\ HoldAt(t, "send") /\ KeepFlags
  BY <1>1, <1>4, FlagHoldAt DEF KeepFlags
<1>5. QED
  BY <1>2, <1>3, <1>4 DEF Authenticate

(* An attempt that failed sleeps connected or gives up unauthenticated; a  *)
(* send on a socket that did not reopen was the last one.                  *)
LEMMA FlagAttemptFailed ==
  ASSUME TypeInv, NEW t \in Threads, pc[t] \in {"send", "recv"},
         m_isConnected \/ retry = MaxRetries, AttemptFailed(t)
  PROVE  FlagInv'
<1>1. CASE /\ retry < MaxRetries /\ pc' = [pc EXCEPT ![t] = "sleep"]
           /\ KeepFlags /\ UNCHANGED <<m_mutex, retry>>
  <2>1. m_isConnected' /\ m_mutex' # NoThread
    BY <1>1, InsideIsHolder, MaxRetriesAssumption
       DEF KeepFlags, TypeInv, CallInv, CallsType
  <2>2. QED
    BY <2>1 DEF FlagInv, AuthenticatedConnected, InsideConnected
<1>2. CASE m_isAuthenticated' = FALSE /\ Return(t, "auth_exception", NoAnswer)
  BY <1>2, FlagReturn
<1>3. QED
  BY <1>1, <1>2 DEF AttemptFailed

LEMMA FlagAuthSend ==
  ASSUME TypeInv, FlagInv, NEW t \in Threads, AuthSend(t)
  PROVE  FlagInv'
<1>1. /\ pc[t] = "send" /\ m_mutex # NoThread
      /\ m_isConnected \/ (retry = MaxRetries /\ sock # "open")
  BY InsideIsHolder DEF AuthSend, FlagInv, InsideConnected
<1>2. CASE SendOk("Auth", Id, retry) /\ KeepFlags /\ UNCHANGED m_mutex
  <2>1. m_isConnected'
    BY <1>1, <1>2, SendOkSocket DEF KeepFlags
  <2>2. QED
    BY <1>1, <1>2, <2>1 DEF FlagInv, AuthenticatedConnected, InsideConnected
<1>3. CASE AttemptFailed(t)
  BY <1>1, <1>3, FlagAttemptFailed
<1>4. QED
  BY <1>2, <1>3 DEF AuthSend

LEMMA FlagAuthAnswered ==
  ASSUME TypeInv, FlagInv, NEW t \in Threads, AuthAnswered(t)
  PROVE  FlagInv'
<1>1. pc[t] = "recv" /\ m_isConnected
  BY DEF AuthAnswered, FlagInv, InsideConnected
<1>2. CASE AttemptFailed(t)
  BY <1>1, <1>2, FlagAttemptFailed
<1>3. CASE UNCHANGED m_isConnected /\ \E r, a : Return(t, r, a)
  BY <1>1, <1>3, FlagReturn
<1>4. QED
  BY <1>2, <1>3 DEF AuthAnswered

(* With two attempts there is one reopening, and the attempt after it is   *)
(* the last one.                                                           *)
LEMMA FlagAuthRetry ==
  ASSUME MaxRetries <= 2, TypeInv, FlagInv, NEW t \in Threads, AuthRetry(t)
  PROVE  FlagInv'
<1>1. pc[t] = "sleep" /\ m_isConnected /\ m_mutex # NoThread /\ m_mutex = t
  BY InsideIsHolder DEF AuthRetry, FlagInv, InsideConnected
<1>2. retry' = MaxRetries
  BY <1>1, MaxRetriesAssumption
     DEF AuthRetry, TypeInv, CallInv, CallsType, Places, Place
<1>3. m_isConnected' \/ sock' # "open"
  BY <1>1 DEF AuthRetry, ReopenSame
<1>4. /\ pc'[t] = "send" /\ m_mutex' # NoThread
      /\ \A u \in Threads : u # t => pc'[u] = pc[u]
  BY <1>1 DEF AuthRetry, TypeInv, CallInv, CallsType
<1>5. \A u \in Threads : u # t => pc'[u] \notin {"send", "recv", "sleep"}
  BY <1>1, <1>4, InsideIsHolder
<1>6. QED
  BY <1>2, <1>3, <1>4, <1>5
     DEF FlagInv, AuthenticatedConnected, InsideConnected

LEMMA FlagRuns ==
  ASSUME MaxRetries <= 2, TypeInv, FlagInv, NEW t \in Threads, Runs(t)
  PROVE  FlagInv'
<1>1. ASSUME NEW o, FileOperation(t, o) PROVE FlagInv'
  BY <1>1, FlagRefuse, FlagSendRequest
     DEF FileOperation, EnsureConnected, EnsureAuthenticated, Locks
<1>2. CASE Ping(t)
  BY <1>2, FlagRefuse, FlagSendRequest DEF Ping, EnsureConnected, Locks
<1>3. CASE Connect(t)
  BY <1>3, FlagConnecting DEF Connect
<1>4. CASE Reconnect(t)
  BY <1>4, FlagConnecting DEF Reconnect
<1>5. CASE UploadFile(t)
  BY <1>5, <1>1 DEF UploadFile
<1>6. CASE DownloadFile(t)
  BY <1>6, <1>1 DEF DownloadFile
<1>7. CASE DeleteFile(t)
  BY <1>7, <1>1 DEF DeleteFile
<1>8. CASE RenameFile(t)
  BY <1>8, <1>1 DEF RenameFile
<1>9. CASE ListDirectory(t)
  BY <1>9, <1>1 DEF ListDirectory
<1>10. QED
  BY <1>2, <1>3, <1>4, <1>5, <1>6, <1>7, <1>8, <1>9, FlagLocal, FlagAnswered,
     FlagAuthenticate, FlagAuthSend, FlagAuthAnswered, FlagAuthRetry DEF Runs

LEMMA FlagNext ==
  ASSUME MaxRetries <= 2
  PROVE  TypeInv /\ FlagInv /\ [Next]_vars => FlagInv'
<1> SUFFICES ASSUME TypeInv, FlagInv, [Next]_vars
             PROVE  FlagInv'
  OBVIOUS
<1>1. ASSUME NEW t \in Threads, Runs(t) PROVE FlagInv'
  BY <1>1, FlagRuns
<1>2. ASSUME NEW t \in Threads, NEW o, Call(t, o) PROVE FlagInv'
  BY <1>2, CallLeaves, FlagUntouched DEF linkVars
<1>3. CASE Net
  <2>1. sock' = sock
    BY <1>3 DEF Net, NetNext, Serve, LinkDrop
  <2>2. QED
    BY <1>3, <2>1, FlagUntouched DEF Net, clientVars
<1>4. CASE Destroy
  BY <1>4 DEF Destroy, FlagInv, AuthenticatedConnected, InsideConnected
<1>5. CASE UNCHANGED <<m_mutex, pc, op, retry, m_isConnected,
                       m_isAuthenticated, m_lastError, m_client, calls,
                       linkVars>>
  BY <1>5, FlagUntouched DEF linkVars
<1>6. UNCHANGED vars => UNCHANGED <<m_mutex, pc, op, retry, m_isConnected,
                                   m_isAuthenticated, m_lastError, m_client,
                                   calls, linkVars>>
  BY DEF vars, clientVars
<1>7. QED
  BY <1>1, <1>2, <1>3, <1>4, <1>5, <1>6, ThreadsAssumption
     DEF Next, UserCall, CreateGoOn, CreateReturn, Terminated

(* Between calls an authenticated client is connected, when Authenticate   *)
(* makes at most two attempts: for any threads and calls.                  *)
THEOREM AuthenticatedIsConnected ==
  ASSUME MaxRetries <= 2
  PROVE  Spec => []AuthenticatedConnected
<1>1. Init => FlagInv
  BY FlagInit
<1>2. TypeInv /\ FlagInv /\ [Next]_vars => FlagInv'
  BY FlagNext
<1>3. FlagInv => AuthenticatedConnected
  BY DEF FlagInv
<1>4. QED
  BY <1>1, <1>2, <1>3, TypeCorrect, PTL DEF Spec

-----------------------------------------------------------------------------
(***************************************************************************)
(* SessionAccepted, with one attempt                                       *)
(***************************************************************************)

(* Without a reopening of the same transport every reply in the stream is  *)
(* of the current connection, and an accepted Auth among them was accepted *)
(* on it.                                                                  *)
OwnConnection(a) ==
  a.gen = gen /\ (a.method = "Auth" /\ a.body = "ok" => gen \in authed)
SessionInv ==
  SessionAccepted /\ \A i \in 1 .. Len(inbox) : OwnConnection(inbox[i])

LEMMA SessionInit == Init => SessionInv
BY EmptySeq DEF Init, LinkInit, SessionInv, SessionAccepted

(* The connection stays, replies are only taken away, and the session flag *)
(* is not set without a session.                                           *)
LEMMA SessionKept ==
  ASSUME SessionInv, LinkTypeOK, gen' = gen, authed \subseteq authed',
         NEW n \in Nat, n + Len(inbox') <= Len(inbox), Len(inbox') \in Nat,
         \A i \in 1 .. Len(inbox') : inbox'[i] = inbox[i + n],
         m_isAuthenticated' => m_isAuthenticated \/ gen \in authed
  PROVE  SessionInv'
<1>1. Len(inbox) \in Nat
  BY LenProperties DEF LinkTypeOK
<1>2. \A i \in 1 .. Len(inbox') : i + n \in 1 .. Len(inbox)
  BY <1>1
<1>3. \A i \in 1 .. Len(inbox') : OwnConnection(inbox[i + n])
  BY <1>2 DEF SessionInv
<1>4. \A i \in 1 .. Len(inbox') : OwnConnection(inbox[i])'
  BY <1>3 DEF OwnConnection
<1>5. SessionAccepted'
  BY DEF SessionInv, SessionAccepted
<1>6. QED
  BY <1>4, <1>5 DEF SessionInv

LEMMA SessionSameStream ==
  ASSUME SessionInv, LinkTypeOK, UNCHANGED <<gen, authed, inbox>>,
         m_isAuthenticated' => m_isAuthenticated \/ gen \in authed
  PROVE  SessionInv'
<1>1. SessionAccepted'
  BY DEF SessionInv, SessionAccepted
<1>2. \A i \in 1 .. Len(inbox') : OwnConnection(inbox[i])'
  BY DEF SessionInv, OwnConnection
<1>3. QED
  BY <1>1, <1>2 DEF SessionInv

(* Steps that do not read: the stream is as it was. *)
LEMMA SessionConnecting ==
  ASSUME TypeInv, FlagInv, SessionInv, NEW t \in Threads, NEW o, Locks(t, o),
         RelockDeadlock(t) \/ RelockThrows(t)
           \/ (~m_isConnected /\ ConnectInternal(t))
  PROVE  SessionInv'
<1>1. CASE RelockDeadlock(t) \/ RelockThrows(t)
  BY <1>1, SessionSameStream
     DEF RelockDeadlock, RelockThrows, KeepFlags, linkVars, TypeInv
<1>2. CASE ~m_isConnected /\ ConnectInternal(t)
  <2>1. ~m_isAuthenticated
    BY <1>2 DEF Locks, FlagInv, AuthenticatedConnected
  <2>2. ~m_isAuthenticated'
    BY <2>1, <1>2 DEF ConnectInternal, Handle
  <2>3. inbox' = <<>>
    BY <1>2 DEF ConnectInternal, OpenFresh
  <2>4. QED
    BY <2>2, <2>3, EmptySeq DEF SessionInv, SessionAccepted
<1>3. QED
  BY <1>1, <1>2

LEMMA SessionLocal ==
  ASSUME TypeInv, SessionInv, NEW t \in Threads, Disconnect(t) \/ Getter(t)
  PROVE  SessionInv'
<1>1. UNCHANGED <<gen, authed, inbox>>
  BY DEF Disconnect, CloseAndReset, CloseTransport, Getter, linkVars
<1>2. m_isAuthenticated' => m_isAuthenticated
  BY DEF Disconnect, CloseAndReset, Getter, KeepFlags
<1>3. QED
  BY <1>1, <1>2, SessionSameStream DEF TypeInv

LEMMA SessionRefuse ==
  ASSUME TypeInv, SessionInv, NEW t \in Threads, NEW r, Refuse(t, r)
  PROVE  SessionInv'
BY SessionSameStream DEF Refuse, Record, linkVars, TypeInv

LEMMA SendLeavesStream ==
  ASSUME NEW m, NEW e, SendFails(m, e)
  PROVE  UNCHANGED <<gen, authed, inbox>>
BY DEF SendFails

LEMMA SessionSendRequest ==
  ASSUME TypeInv, SessionInv, NEW t \in Threads, NEW m, SendRequest(t, m)
  PROVE  SessionInv'
<1>1. UNCHANGED <<gen, authed, inbox>>
  BY SendOkSocket, SendLeavesStream DEF SendRequest
<1>2. m_isAuthenticated' => m_isAuthenticated
  BY DEF SendRequest, KeepFlags, Handle
<1>3. QED
  BY <1>1, <1>2, SessionSameStream DEF TypeInv

LEMMA SessionAuthenticate ==
  ASSUME TypeInv, SessionInv, NEW t \in Threads, Authenticate(t)
  PROVE  SessionInv'
<1>1. UNCHANGED linkVars
  BY DEF Authenticate, EnsureConnected, Refuse
<1>2. m_isAuthenticated' => m_isAuthenticated
  BY DEF Authenticate, EnsureConnected, Refuse, Record, KeepFlags
<1>3. QED
  BY <1>1, <1>2, SessionSameStream DEF TypeInv, linkVars

LEMMA SessionAuthSend ==
  ASSUME TypeInv, SessionInv, NEW t \in Threads, AuthSend(t)
  PROVE  SessionInv'
<1>1. UNCHANGED <<gen, authed, inbox>>
  BY SendOkSocket, SendLeavesStream DEF AuthSend
<1>2. m_isAuthenticated' => m_isAuthenticated
  BY DEF AuthSend, AttemptFailed, KeepFlags
<1>3. QED
  BY <1>1, <1>2, SessionSameStream DEF TypeInv

(* Steps that read. *)
LEMMA RecvLeaves ==
  ASSUME TypeInv, NEW m, (\E a : RecvOk(m, a)) \/ (\E e : RecvFails(m, e))
  PROVE  /\ UNCHANGED <<gen, authed>>
         /\ \E n \in Nat :
              /\ n + Len(inbox') <= Len(inbox) /\ Len(inbox') \in Nat
              /\ \A i \in 1 .. Len(inbox') : inbox'[i] = inbox[i + n]
<1>1. LinkTypeOK /\ Len(inbox) \in Nat
  BY LenProperties DEF TypeInv, LinkTypeOK
<1>2. CASE \E a : RecvOk(m, a)
  <2>1. /\ Len(inbox) >= 1 /\ Len(inbox') = Len(inbox) - 1
        /\ \A i \in 1 .. Len(inbox') : inbox'[i] = inbox[i + 1]
    BY <1>1, <1>2, RecvOkLeaves
  <2>2. 1 \in Nat /\ 1 + Len(inbox') <= Len(inbox) /\ Len(inbox') \in Nat
    BY <1>1, <2>1
  <2>3. QED
    BY <2>1, <2>2, <1>2 DEF RecvOk
<1>3. CASE \E e : RecvFails(m, e)
  <2>1. PICK n \in 0 .. Len(inbox) :
          /\ Len(inbox') = Len(inbox) - n
          /\ \A i \in 1 .. Len(inbox') : inbox'[i] = inbox[i + n]
    BY <1>1, <1>3, RecvFailsLeaves
  <2>2. n \in Nat /\ n + Len(inbox') <= Len(inbox) /\ Len(inbox') \in Nat
    BY <1>1, <2>1
  <2>3. QED
    BY <2>1, <2>2, <1>3 DEF RecvFails
<1>4. QED
  BY <1>2, <1>3

LEMMA SessionAnswered ==
  ASSUME TypeInv, SessionInv, NEW t \in Threads, Answered(t)
  PROVE  SessionInv'
<1>1. m_isAuthenticated' => m_isAuthenticated
  BY DEF Answered, Handle
<1>2. \E m : (\E a : RecvOk(m, a)) \/ (\E e : RecvFails(m, e))
  BY DEF Answered
<1>3. QED
  BY <1>1, <1>2, RecvLeaves, SessionKept DEF TypeInv

LEMMA SessionAuthAnswered ==
  ASSUME TypeInv, SessionInv, NEW t \in Threads, AuthAnswered(t)
  PROVE  SessionInv'
<1>1. (\E a : RecvOk("Auth", a)) \/ (\E e : RecvFails("Auth", e))
  BY DEF AuthAnswered
<1>2. m_isAuthenticated' => m_isAuthenticated \/ gen \in authed
  <2>1. ASSUME NEW a, RecvOk("Auth", a), m_isAuthenticated' = (a.body = "ok"),
               m_isAuthenticated'
        PROVE  gen \in authed
    <3>1. a = inbox[1] /\ a.method = "Auth" /\ Len(inbox) >= 1
      BY <2>1, RecvOkLeaves DEF TypeInv
    <3>2. Len(inbox) \in Nat /\ a.body = "ok"
      BY <2>1, LenProperties DEF TypeInv, LinkTypeOK
    <3>3. OwnConnection(inbox[1])
      BY <3>1, <3>2 DEF SessionInv
    <3>4. QED
      BY <3>1, <3>2, <3>3 DEF OwnConnection
  <2>2. QED
    BY <2>1 DEF AuthAnswered, AttemptFailed, KeepFlags
<1>3. QED
  BY <1>1, <1>2, RecvLeaves, SessionKept DEF TypeInv

LEMMA SessionRuns ==
  ASSUME MaxRetries <= 1, TypeInv, FlagInv, SessionInv, NEW t \in Threads,
         Runs(t)
  PROVE  SessionInv'
<1>1. ASSUME NEW o, FileOperation(t, o) PROVE SessionInv'
  BY <1>1, SessionRefuse, SessionSendRequest
     DEF FileOperation, EnsureConnected, EnsureAuthenticated
<1>2. CASE Ping(t)
  BY <1>2, SessionRefuse, SessionSendRequest DEF Ping, EnsureConnected
<1>3. CASE Connect(t)
  BY <1>3, SessionConnecting DEF Connect
<1>4. CASE Reconnect(t)
  BY <1>4, SessionConnecting DEF Reconnect
<1>5. CASE UploadFile(t)
  BY <1>5, <1>1 DEF UploadFile
<1>6. CASE DownloadFile(t)
  BY <1>6, <1>1 DEF DownloadFile
<1>7. CASE DeleteFile(t)
  BY <1>7, <1>1 DEF DeleteFile
<1>8. CASE RenameFile(t)
  BY <1>8, <1>1 DEF RenameFile
<1>9. CASE ListDirectory(t)
  BY <1>9, <1>1 DEF ListDirectory
<1>10. ~AuthRetry(t)
  BY MaxRetriesAssumption
     DEF AuthRetry, TypeInv, CallInv, CallsType, Places, Place
<1>11. QED
  BY <1>2, <1>3, <1>4, <1>5, <1>6, <1>7, <1>8, <1>9, <1>10, SessionLocal,
     SessionAnswered, SessionAuthenticate, SessionAuthSend,
     SessionAuthAnswered DEF Runs

(* The server puts a reply of the current connection at the end of the     *)
(* stream; the network takes some away.                                    *)
LEMMA SessionNet ==
  ASSUME TypeInv, SessionInv, Net
  PROVE  SessionInv'
<1>1. LinkTypeOK /\ inbox \in Seq(Replies) /\ Len(inbox) \in Nat
  BY LenProperties DEF TypeInv, LinkTypeOK
<1>2. m_isAuthenticated' = m_isAuthenticated
  BY DEF Net, clientVars
<1>3. CASE LinkDrop
  <2>1. /\ Len(inbox') <= Len(inbox) /\ Len(inbox') \in Nat
        /\ \A i \in 1 .. Len(inbox') : inbox'[i] = inbox[i]
    BY <1>1, <1>3, LinkDropType, LenProperties DEF LinkTypeOK
  <2>2. \A i \in 1 .. Len(inbox') : inbox'[i] = inbox[i + 0]
    BY <2>1
  <2>3. 0 \in Nat /\ 0 + Len(inbox') <= Len(inbox)
    BY <1>1, <2>1
  <2>4. gen' = gen /\ authed' = authed
    BY <1>3 DEF LinkDrop
  <2>5. QED
    BY <1>1, <1>2, <2>1, <2>2, <2>3, <2>4, SessionKept
<1>4. ASSUME NEW r \in wire, NEW b \in AllBodies, Serve(r, b)
      PROVE  SessionInv'
  <2> DEFINE a == [gen |-> r.gen, id |-> r.id, try |-> r.try,
                   method |-> r.method, body |-> b]
  <2>1. gen' = gen /\ authed \subseteq authed'
    BY <1>4 DEF Serve
  <2>2. SessionAccepted'
    BY <1>2, <2>1 DEF SessionInv, SessionAccepted
  <2>3. CASE inbox' = inbox
    BY <2>1, <2>2, <2>3 DEF SessionInv, OwnConnection
  <2>4. CASE inbox' = Append(inbox, a) /\ r.gen = gen
    <3>1. a.gen = gen' /\ (a.method = "Auth" /\ a.body = "ok" => gen' \in authed')
      BY <1>4, <2>1, <2>4 DEF Serve
    <3> HIDE DEF a
    <3>2. \A i \in 1 .. Len(inbox') :
            inbox'[i] = IF i \in 1 .. Len(inbox) THEN inbox[i] ELSE a
      BY <1>1, <2>4
    <3>3. ASSUME NEW i \in 1 .. Len(inbox')
          PROVE  /\ inbox'[i].gen = gen'
                 /\ inbox'[i].method = "Auth" /\ inbox'[i].body = "ok"
                      => gen' \in authed'
      <4>1. CASE i \in 1 .. Len(inbox)
        BY <2>1, <3>2, <4>1 DEF SessionInv, OwnConnection
      <4>2. CASE i \notin 1 .. Len(inbox)
        BY <3>1, <3>2, <4>2
      <4>3. QED
        BY <4>1, <4>2
    <3>4. QED
      BY <2>2, <3>3 DEF SessionInv, OwnConnection
  <2>5. QED
    BY <1>4, <2>3, <2>4 DEF Serve
<1>5. QED
  BY <1>3, <1>4 DEF Net, NetNext

LEMMA SessionNext ==
  ASSUME MaxRetries <= 1
  PROVE  TypeInv /\ FlagInv /\ SessionInv /\ [Next]_vars => SessionInv'
<1> SUFFICES ASSUME TypeInv, FlagInv, SessionInv, [Next]_vars
             PROVE  SessionInv'
  OBVIOUS
<1>1. ASSUME NEW t \in Threads, Runs(t) PROVE SessionInv'
  BY <1>1, SessionRuns
<1>2. ASSUME NEW t \in Threads, NEW o, Call(t, o) PROVE SessionInv'
  BY <1>2, CallLeaves, SessionSameStream DEF linkVars, TypeInv
<1>3. CASE Net
  BY <1>3, SessionNet
<1>4. CASE Destroy
  BY <1>4, SessionSameStream DEF Destroy, TypeInv
<1>5. CASE UNCHANGED <<m_isAuthenticated, linkVars>>
  BY <1>5, SessionSameStream DEF linkVars, TypeInv
<1>6. UNCHANGED vars => UNCHANGED <<m_isAuthenticated, linkVars>>
  BY DEF vars, clientVars
<1>7. QED
  BY <1>1, <1>2, <1>3, <1>4, <1>5, <1>6, ThreadsAssumption
     DEF Next, UserCall, CreateGoOn, CreateReturn, Terminated

(* The session flag means a session the server accepted on the current     *)
(* connection, when Authenticate makes one attempt: stale replies of       *)
(* earlier calls, reconnections and late executions do not forge one.      *)
THEOREM SessionIsAccepted ==
  ASSUME MaxRetries <= 1
  PROVE  Spec => []SessionAccepted
<1>1. MaxRetries <= 2
  BY MaxRetriesAssumption
<1>2. Init => FlagInv /\ SessionInv
  BY FlagInit, SessionInit
<1>3. TypeInv /\ FlagInv /\ [Next]_vars => FlagInv'
  BY <1>1, FlagNext
<1>4. TypeInv /\ FlagInv /\ SessionInv /\ [Next]_vars => SessionInv'
  BY SessionNext
<1>5. SessionInv => SessionAccepted
  BY DEF SessionInv
<1>6. QED
  BY <1>2, <1>3, <1>4, <1>5, TypeCorrect, PTL DEF Spec

-----------------------------------------------------------------------------
(***************************************************************************)
(* LastErrorIsNewest                                                       *)
(***************************************************************************)

(* e is the error of the last call in s that failed. *)
FailedIn(s) == {i \in 1 .. Len(s) : s[i].res \in Errors}
ErrorIs(s, e) ==
  \/ FailedIn(s) = {} /\ e = "none"
  \/ \E i \in FailedIn(s) : (\A j \in FailedIn(s) : j <= i) /\ e = s[i].res
ErrorInv == ErrorIs(calls, m_lastError)

(* The last call has ended with r, which is recorded if it is an error. *)
Records(r) == m_lastError' = IF r \in Errors THEN r ELSE m_lastError

LEMMA NoErrors ==
  /\ "ok" \notin Errors /\ "system_error" \notin Errors
  /\ "running" \notin Errors /\ "none" \notin Errors
  /\ {"server", "not_connected", "not_authenticated", "auth_exception",
      "auth_limit"} \subseteq Errors
  /\ \A e \in Exceptions : ErrorOf(e) \in Errors
BY DEF Errors, ErrorOf, Exceptions, TransportExceptions

(* One more call, or another outcome of the last one: its error, if it is  *)
(* one, is now the newest, and else what was the newest still is.          *)
LEMMA ErrorOfLast ==
  ASSUME NEW n \in Nat, NEW s, NEW t, Len(s) \in Nat, Len(t) = n + 1,
         Len(s) \in {n, n + 1},
         \A i \in 1 .. n : t[i] = s[i],
         Len(s) = n + 1 => s[n + 1].res \notin Errors,
         NEW e, ErrorIs(s, e)
  PROVE  ErrorIs(t, IF t[n + 1].res \in Errors THEN t[n + 1].res ELSE e)
<1>1. \A i \in FailedIn(s) : i \in 1 .. n
  BY DEF FailedIn
<1>2. FailedIn(t) =
        FailedIn(s) \cup (IF t[n + 1].res \in Errors THEN {n + 1} ELSE {})
  <2>1. \A i \in 1 .. n + 1 : i \in 1 .. n \/ i = n + 1
    OBVIOUS
  <2>2. \A i \in 1 .. n : i \in 1 .. Len(s) /\ i \in 1 .. n + 1
    OBVIOUS
  <2>3. n + 1 \in 1 .. n + 1
    OBVIOUS
  <2>4. ASSUME NEW i PROVE i \in FailedIn(t) <=>
                           i \in FailedIn(s) \/ (i = n + 1 /\ t[n + 1].res \in Errors)
    BY <1>1, <2>1, <2>2, <2>3 DEF FailedIn
  <2>5. QED
    BY <2>4
<1>3. CASE t[n + 1].res \in Errors
  <2>1. n + 1 \in FailedIn(t) /\ \A j \in FailedIn(t) : j <= n + 1
    BY <1>1, <1>2, <1>3
  <2>2. QED
    BY <1>3, <2>1 DEF ErrorIs
<1>4. CASE t[n + 1].res \notin Errors
  <2>1. FailedIn(t) = FailedIn(s)
    BY <1>2, <1>4
  <2>2. \A i \in FailedIn(s) : t[i] = s[i]
    BY <1>1
  <2>3. QED
    BY <1>4, <2>1, <2>2 DEF ErrorIs
<1>5. QED
  BY <1>3, <1>4

LEMMA ErrorAppended ==
  ASSUME TypeInv, ErrorInv, NEW o, NEW r, NEW a,
         calls' = Append(calls, Entry(o, r, a)), Records(r)
  PROVE  ErrorInv'
<1> DEFINE c == Entry(o, r, a)
           S == CallRecords \cup {c}
<1>1. calls \in Seq(CallRecords) /\ c.res = r
  BY DEF TypeInv, CallInv, CallsType, Entry
<1>2. CallRecords \subseteq S /\ c \in S
  OBVIOUS
<1> HIDE DEF S, c
<1>3. calls \in Seq(S)
  BY <1>1, <1>2, SeqMonotonic
<1>4. /\ Len(calls) \in Nat /\ Len(Append(calls, c)) = Len(calls) + 1
      /\ \A i \in 1 .. Len(calls) : Append(calls, c)[i] = calls[i]
      /\ Append(calls, c)[Len(calls) + 1] = c
  BY <1>2, <1>3, AppendProperties, LenProperties
<1>5. calls' = Append(calls, c)
  BY DEF c
<1>6. calls'[Len(calls) + 1].res = r
  BY <1>1, <1>4, <1>5
<1>7. ErrorIs(calls', IF calls'[Len(calls) + 1].res \in Errors
                      THEN calls'[Len(calls) + 1].res ELSE m_lastError)
  <2> DEFINE n == Len(calls)
             u == calls'
  <2>1. /\ n \in Nat /\ Len(calls) = n /\ Len(u) = n + 1
        /\ \A i \in 1 .. n : u[i] = calls[i]
        /\ ErrorIs(calls, m_lastError)
    BY <1>4, <1>5 DEF ErrorInv
  <2> HIDE DEF n, u
  <2>2. ErrorIs(u, IF u[n + 1].res \in Errors
                   THEN u[n + 1].res ELSE m_lastError)
    BY <2>1, ErrorOfLast
  <2>3. QED
    BY <2>2 DEF n, u
<1>8. QED
  BY <1>6, <1>7 DEF ErrorInv, Records

LEMMA ErrorReturnAtOnce ==
  ASSUME TypeInv, ErrorInv, NEW t \in Threads, NEW r, ReturnAtOnce(t, r),
         Records(r)
  PROVE  ErrorInv'
BY ErrorAppended DEF ReturnAtOnce

LEMMA ErrorHoldAt ==
  ASSUME TypeInv, ErrorInv, NEW t \in Threads, NEW p, HoldAt(t, p),
         m_lastError' = m_lastError
  PROVE  ErrorInv'
<1>1. Records("running")
  BY NoErrors DEF Records
<1>2. QED
  BY <1>1, ErrorAppended DEF HoldAt

(* The call that returns was running. *)
LEMMA ErrorReturn ==
  ASSUME TypeInv, ErrorInv, NEW t \in Threads,
         pc[t] \in {"send", "recv", "sleep", "stuck"},
         NEW r, NEW a, Return(t, r, a), Records(r)
  PROVE  ErrorInv'
<1> DEFINE c == Entry(op[t], r, a)
           S == CallRecords \cup {c}
           n == Len(calls) - 1
<1>1. calls \in Seq(CallRecords) /\ c.res = r /\ calls # <<>>
      /\ calls' = [calls EXCEPT ![Len(calls)] = c]
  BY InsideIsHolder
     DEF TypeInv, CallInv, CallsType, LastRuns, Entry, Return, Id
<1>2. Len(calls) \in Nat \ {0}
  BY <1>1, EmptySeq
<1>3. calls[Len(calls)].res = "running"
  <2>1. m_mutex # NoThread /\ Len(calls) \in 1 .. Len(calls)
    BY <1>2, InsideIsHolder
  <2>2. QED
    BY <2>1 DEF TypeInv, CallInv, LastRuns
<1>4. CallRecords \subseteq S /\ c \in S
  OBVIOUS
<1> HIDE DEF S, c
<1>5. calls \in Seq(S)
  BY <1>1, <1>4, SeqMonotonic
<1>6. /\ Len(calls') = Len(calls)
      /\ \A j \in 1 .. Len(calls) :
           calls'[j] = IF j = Len(calls) THEN c ELSE calls[j]
  BY <1>1, <1>4, <1>5, LastReplaced
<1>7. /\ n \in Nat /\ n + 1 = Len(calls) /\ Len(calls') = n + 1
      /\ Len(calls) \in {n, n + 1}
      /\ \A i \in 1 .. n : calls'[i] = calls[i]
      /\ calls'[n + 1] = c
  <2>1. n \in Nat /\ n + 1 = Len(calls)
    BY <1>2
  <2>2. \A i \in 1 .. n : i \in 1 .. Len(calls) /\ i # Len(calls)
    BY <1>2
  <2>3. Len(calls) \in 1 .. Len(calls)
    BY <1>2
  <2>4. QED
    BY <1>6, <2>1, <2>2, <2>3
<1>8. Len(calls) = n + 1 => calls[n + 1].res \notin Errors
  BY <1>3, <1>7, NoErrors
<1> HIDE DEF n
<1>9. ErrorIs(calls', IF calls'[n + 1].res \in Errors
                      THEN calls'[n + 1].res ELSE m_lastError)
  BY <1>2, <1>7, <1>8, ErrorOfLast DEF ErrorInv
<1>10. QED
  BY <1>1, <1>7, <1>9 DEF ErrorInv, Records

LEMMA ErrorUntouched ==
  ASSUME ErrorInv, UNCHANGED <<calls, m_lastError>>
  PROVE  ErrorInv'
BY DEF ErrorInv, ErrorIs, FailedIn

LEMMA ErrorConnecting ==
  ASSUME TypeInv, ErrorInv, NEW t \in Threads,
         RelockDeadlock(t) \/ RelockThrows(t) \/ ConnectInternal(t)
  PROVE  ErrorInv'
<1>1. CASE RelockDeadlock(t)
  BY <1>1, ErrorHoldAt DEF RelockDeadlock
<1>2. CASE RelockThrows(t)
  BY <1>2, ErrorReturnAtOnce, NoErrors DEF RelockThrows, KeepFlags, Records
<1>3. CASE ConnectInternal(t)
  <2>1. PICK e \in {"none"} \cup Exceptions :
          IF e = "none"
          THEN m_lastError' = m_lastError /\ ReturnAtOnce(t, "ok")
          ELSE Handle(e) /\ ReturnAtOnce(t, ErrorOf(e))
    BY <1>3 DEF ConnectInternal
  <2>2. CASE e = "none"
    BY <2>1, <2>2, ErrorReturnAtOnce, NoErrors DEF Records
  <2>3. CASE e # "none"
    BY <2>1, <2>3, ErrorReturnAtOnce, NoErrors DEF Records, Handle
  <2>4. QED
    BY <2>2, <2>3
<1>4. QED
  BY <1>1, <1>2, <1>3

LEMMA ErrorRefuse ==
  ASSUME TypeInv, ErrorInv, NEW t \in Threads,
         NEW r \in {"not_connected", "not_authenticated"}, Refuse(t, r)
  PROVE  ErrorInv'
BY ErrorReturnAtOnce, NoErrors DEF Refuse, Record, Records

LEMMA ErrorSendRequest ==
  ASSUME TypeInv, ErrorInv, NEW t \in Threads, NEW m, SendRequest(t, m)
  PROVE  ErrorInv'
<1>1. CASE HoldAt(t, "recv") /\ KeepFlags
  BY <1>1, ErrorHoldAt DEF KeepFlags
<1>2. ASSUME NEW e \in TransportExceptions, Handle(e),
             ReturnAtOnce(t, ErrorOf(e))
      PROVE  ErrorInv'
  BY <1>2, ErrorReturnAtOnce, NoErrors DEF Handle, Records, Exceptions
<1>3. QED
  BY <1>1, <1>2 DEF SendRequest

LEMMA ErrorAnswered ==
  ASSUME TypeInv, ErrorInv, NEW t \in Threads, Answered(t)
  PROVE  ErrorInv'
<1>1. pc[t] = "recv"
  BY DEF Answered
<1>2. ASSUME NEW r, NEW a, Return(t, r, a),
             m_lastError' = IF r \in Errors THEN r ELSE m_lastError
      PROVE  ErrorInv'
  BY <1>1, <1>2, ErrorReturn DEF Records
<1>3. ASSUME NEW e \in Exceptions, Handle(e), Return(t, ErrorOf(e), NoAnswer)
      PROVE  ErrorInv'
  BY <1>1, <1>3, ErrorReturn, NoErrors DEF Records, Handle
<1>4. QED
  BY <1>2, <1>3 DEF Answered

LEMMA ErrorAuthenticate ==
  ASSUME TypeInv, ErrorInv, NEW t \in Threads, Authenticate(t)
  PROVE  ErrorInv'
<1>1. CASE EnsureConnected(t)
  BY <1>1, ErrorRefuse DEF EnsureConnected
<1>2. CASE m_lastError' = "auth_limit" /\ ReturnAtOnce(t, "auth_limit")
  BY <1>2, ErrorReturnAtOnce, NoErrors DEF Records
<1>3. CASE HoldAt(t, "send") /\ KeepFlags
  BY <1>3, ErrorHoldAt DEF KeepFlags
<1>4. QED
  BY <1>1, <1>2, <1>3 DEF Authenticate

LEMMA ErrorAttempt ==
  ASSUME TypeInv, ErrorInv, NEW t \in Threads,
         AuthSend(t) \/ AuthAnswered(t) \/ AuthRetry(t)
  PROVE  ErrorInv'
<1>1. pc[t] \in {"send", "recv", "sleep"}
  BY DEF AuthSend, AuthAnswered, AuthRetry
<1>2. CASE AttemptFailed(t)
  <2>1. CASE KeepFlags /\ UNCHANGED calls
    BY <2>1, ErrorUntouched DEF KeepFlags
  <2>2. CASE /\ m_lastError' = "auth_exception"
             /\ Return(t, "auth_exception", NoAnswer)
    BY <1>1, <2>2, ErrorReturn, NoErrors DEF Records
  <2>3. QED
    BY <1>2, <2>1, <2>2 DEF AttemptFailed
<1>3. CASE UNCHANGED <<calls, m_lastError>>
  BY <1>3, ErrorUntouched
<1>4. ASSUME NEW a,
             m_lastError' = (IF a.body = "ok" THEN m_lastError ELSE "server"),
             Return(t, AckVerdict(a.body), Key(a))
      PROVE  ErrorInv'
  <2>1. Records(AckVerdict(a.body))
    BY <1>4, NoErrors DEF Records, AckVerdict
  <2>2. QED
    BY <1>1, <1>4, <2>1, ErrorReturn
<1>5. ASSUME NEW e \in Exceptions, m_lastError' = ErrorOf(e),
             Return(t, ErrorOf(e), NoAnswer)
      PROVE  ErrorInv'
  BY <1>1, <1>5, ErrorReturn, NoErrors DEF Records
<1>6. CASE AuthSend(t)
  BY <1>2, <1>3, <1>6 DEF AuthSend, KeepFlags
<1>7. CASE AuthAnswered(t)
  BY <1>2, <1>4, <1>5, <1>7 DEF AuthAnswered
<1>8. CASE AuthRetry(t)
  BY <1>3, <1>8 DEF AuthRetry
<1>9. QED
  BY <1>6, <1>7, <1>8

LEMMA ErrorRuns ==
  ASSUME TypeInv, ErrorInv, NEW t \in Threads, Runs(t)
  PROVE  ErrorInv'
<1>1. ASSUME NEW o, FileOperation(t, o) PROVE ErrorInv'
  BY <1>1, ErrorRefuse, ErrorSendRequest
     DEF FileOperation, EnsureConnected, EnsureAuthenticated
<1>2. CASE Ping(t)
  BY <1>2, ErrorRefuse, ErrorSendRequest DEF Ping, EnsureConnected
<1>3. CASE Connect(t) \/ Reconnect(t)
  BY <1>3, ErrorConnecting DEF Connect, Reconnect
<1>4. CASE Disconnect(t)
  BY <1>4, ErrorReturnAtOnce, NoErrors DEF Disconnect, Records
<1>5. CASE Getter(t)
  BY <1>5, ErrorReturnAtOnce, NoErrors DEF Getter, KeepFlags, Records
<1>6. CASE UploadFile(t) \/ DownloadFile(t) \/ DeleteFile(t)
  BY <1>6, <1>1 DEF UploadFile, DownloadFile, DeleteFile
<1>7. CASE RenameFile(t) \/ ListDirectory(t)
  BY <1>7, <1>1 DEF RenameFile, ListDirectory
<1>8. QED
  BY <1>2, <1>3, <1>4, <1>5, <1>6, <1>7, ErrorAnswered, ErrorAuthenticate,
     ErrorAttempt DEF Runs

LEMMA ErrorNext == TypeInv /\ ErrorInv /\ [Next]_vars => ErrorInv'
<1> SUFFICES ASSUME TypeInv, ErrorInv, [Next]_vars PROVE ErrorInv'
  OBVIOUS
<1>1. ASSUME NEW t \in Threads, Runs(t) PROVE ErrorInv'
  BY <1>1, ErrorRuns
<1>2. CASE UNCHANGED <<calls, m_lastError>>
  BY <1>2, ErrorUntouched
<1>3. ASSUME NEW t \in Threads, NEW o, Call(t, o) PROVE ErrorInv'
  BY <1>2, <1>3 DEF Call
<1>4. CASE UNCHANGED vars
  BY <1>2, <1>4 DEF vars, clientVars
<1>5. CASE Net
  BY <1>2, <1>5 DEF Net, clientVars
<1>6. QED
  BY <1>1, <1>2, <1>3, <1>4, <1>5, ThreadsAssumption
     DEF Next, UserCall, CreateGoOn, CreateReturn, Destroy, Terminated

(* GetLastError tells of the newest failure, whichever thread it happened  *)
(* to and whatever succeeded since: for any threads, calls and retries.    *)
THEOREM LastErrorIsThatOfNewest == Spec => []LastErrorIsNewest
<1>1. Init => ErrorInv
  <2>1. SUFFICES ASSUME Init PROVE ErrorInv
    OBVIOUS
  <2>2. calls = <<>> /\ Len(calls) = 0 /\ m_lastError = "none"
    BY <2>1, EmptySeq DEF Init
  <2>3. QED
    BY <2>2 DEF ErrorInv, ErrorIs, FailedIn
<1>2. TypeInv /\ ErrorInv => LastErrorIsNewest
  <2>1. SUFFICES ASSUME TypeInv, ErrorInv PROVE LastErrorIsNewest
    OBVIOUS
  <2>2. Failed = FailedIn(calls) /\ Failed \subseteq Nat
    BY DEF Failed, FailedIn
  <2>3. CASE Failed = {}
    BY <2>1, <2>2, <2>3 DEF ErrorInv, ErrorIs, LastErrorIsNewest
  <2>4. CASE Failed # {}
    <3>1. PICK i \in Failed :
            (\A j \in Failed : j <= i) /\ m_lastError = calls[i].res
      BY <2>1, <2>2, <2>4 DEF ErrorInv, ErrorIs
    <3> DEFINE k == CHOOSE n \in Failed : \A j \in Failed : j <= n
    <3>2. k \in Failed /\ \A j \in Failed : j <= k
      BY <3>1
    <3>3. k = i
      BY <2>2, <3>1, <3>2
    <3>4. m_lastError = calls[k].res
      BY <3>1, <3>3
    <3>5. QED
      BY <2>4, <3>4 DEF LastErrorIsNewest
  <2>5. QED
    BY <2>3, <2>4
<1>3. QED
  BY <1>1, <1>2, ErrorNext, TypeCorrect, PTL DEF Spec
=============================================================================
