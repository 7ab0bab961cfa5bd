-------------------------- MODULE WfsClientProofs --------------------------
(***************************************************************************)
(* Theorems about WfsClientImpl, for any threads, number of calls and      *)
(* number of retries (where a bound on MaxRetries is needed, it is stated).*)
(*                                                                         *)
(* The inductive invariant is made of named parts.  CallInv is about the   *)
(* mutex, the threads and the list of calls only: whoever holds the mutex  *)
(* is inside a blocking method and its call is the last one.  Every action *)
(* changes these variables in one of a few ways (invoke, return at once,   *)
(* hold, move, return), each dealt with in a lemma of its own.             *)
(***************************************************************************)
EXTENDS WfsClient, SequenceTheorems, FiniteSetTheorems, TLAPS

-----------------------------------------------------------------------------
(***************************************************************************)
(* The connection.  What the operators of WfsLink keep: its type           *)
(* invariant, and, for every way a reply is taken from or put into the     *)
(* stream, which replies are left in it.  The proofs about the client cite *)
(* these lemmas and do not look inside the connection again.               *)
(***************************************************************************)

(* The first k elements of a sequence, and what is left without them. *)
LEMMA Prefix ==
  ASSUME NEW S, NEW s \in Seq(S), NEW k \in 0 .. Len(s)
  PROVE  /\ SubSeq(s, 1, k) \in Seq(S)
         /\ Len(SubSeq(s, 1, k)) = k
         /\ \A i \in 1 .. k : SubSeq(s, 1, k)[i] = s[i]
<1>1. Len(s) \in Nat /\ \A i \in 1 .. k : s[i] \in S
  BY LenProperties, ElementOfSeq
<1>2. /\ SubSeq(s, 1, k) \in Seq(S)
      /\ Len(SubSeq(s, 1, k)) = IF 1 <= k THEN k - 1 + 1 ELSE 0
      /\ \A i \in 1 .. k - 1 + 1 : SubSeq(s, 1, k)[i] = s[1 + i - 1]
  BY <1>1, SubSeqProperties
<1>3. QED
  BY <1>1, <1>2

LEMMA Suffix ==
  ASSUME NEW S, NEW s \in Seq(S), NEW n \in 0 .. Len(s)
  PROVE  /\ SubSeq(s, n + 1, Len(s)) \in Seq(S)
         /\ Len(SubSeq(s, n + 1, Len(s))) = Len(s) - n
         /\ \A i \in 1 .. Len(s) - n :
              SubSeq(s, n + 1, Len(s))[i] = s[i + n]
<1>1. Len(s) \in Nat /\ \A i \in n + 1 .. Len(s) : s[i] \in S
  BY LenProperties, ElementOfSeq
<1>2. /\ SubSeq(s, n + 1, Len(s)) \in Seq(S)
      /\ Len(SubSeq(s, n + 1, Len(s))) =
           IF n + 1 <= Len(s) THEN Len(s) - (n + 1) + 1 ELSE 0
      /\ \A i \in 1 .. Len(s) - (n + 1) + 1 :
           SubSeq(s, n + 1, Len(s))[i] = s[n + 1 + i - 1]
  BY <1>1, SubSeqProperties
<1>3. QED
  BY <1>1, <1>2

-----------------------------------------------------------------------------
(* Opening and closing keep the types. *)
LEMMA OpenFreshType ==
  ASSUME LinkTypeOK, NEW e, OpenFresh(e)
  PROVE  LinkTypeOK'
<1>1. inbox' \in Seq(Replies) /\ rbuf' \in 0 .. Len(inbox')
  BY EmptySeq DEF OpenFresh
<1>2. desync' \in BOOLEAN /\ clean' \in BOOLEAN
  <2>1. desync' = FALSE /\ clean' = (e = "none")
    BY DEF OpenFresh
  <2>2. QED
    BY <2>1, Zenon
<1>3. sock' \in {"null", "closed", "open"} /\ gen' \in Nat
  BY DEF LinkTypeOK, OpenFresh
<1>4. peer' \in {"up", "torn", "down"}
  BY DEF OpenFresh
<1>5. /\ unsent' \in BOOLEAN /\ wire' \subseteq Requests
      /\ authed' \subseteq Nat /\ executed' \subseteq CallIds \X Attempts
  BY DEF LinkTypeOK, OpenFresh
<1>6. QED
  BY <1>1, <1>2, <1>3, <1>4, <1>5 DEF LinkTypeOK

LEMMA ReopenSameType ==
  ASSUME LinkTypeOK, NEW e, ReopenSame(e)
  PROVE  LinkTypeOK'
<1>1. inbox' \in Seq(Replies) /\ Len(inbox') = rbuf
  BY Prefix DEF LinkTypeOK, ReopenSame
<1>2. rbuf' \in 0 .. Len(inbox')
  BY <1>1 DEF LinkTypeOK, ReopenSame
<1>3. desync' \in BOOLEAN /\ clean' \in BOOLEAN
  <2>1. desync' \in BOOLEAN
    BY DEF LinkTypeOK, ReopenSame
  <2>2. clean' = (e = "none" /\ rbuf = 0 /\ ~desync')
    BY DEF ReopenSame
  <2>3. QED
    BY <2>1, <2>2, Zenon
<1>4. sock' \in {"null", "closed", "open"} /\ gen' \in Nat
  BY DEF LinkTypeOK, ReopenSame
<1>5. peer' \in {"up", "torn", "down"}
  BY DEF ReopenSame
<1>6. /\ unsent' \in BOOLEAN /\ wire' \subseteq Requests
      /\ authed' \subseteq Nat /\ executed' \subseteq CallIds \X Attempts
  BY DEF LinkTypeOK, ReopenSame
<1>7. QED
  BY <1>1, <1>2, <1>3, <1>4, <1>5, <1>6 DEF LinkTypeOK

LEMMA CloseTransportType ==
  ASSUME LinkTypeOK, CloseTransport
  PROVE  LinkTypeOK'
BY DEF LinkTypeOK, CloseTransport

(* Sending keeps the types, for a request that is one of the service. *)
LEMMA SendOkType ==
  ASSUME LinkTypeOK, NEW m \in Methods, NEW id \in CallIds,
         NEW try \in Attempts, SendOk(m, id, try)
  PROVE  LinkTypeOK'
<1>1. [gen |-> gen, id |-> id, try |-> try, method |-> m] \in Requests
  BY DEF LinkTypeOK, Requests
<1>2. wire' \subseteq Requests
  BY <1>1 DEF LinkTypeOK, SendOk
<1>3. QED
  BY <1>2 DEF LinkTypeOK, SendOk

LEMMA SendFailsType ==
  ASSUME LinkTypeOK, NEW m, NEW e, SendFails(m, e)
  PROVE  LinkTypeOK'
BY DEF LinkTypeOK, SendFails

-----------------------------------------------------------------------------
(* What is left after n replies are taken off the stream was there before. *)
LEMMA ConsumeLeaves ==
  ASSUME inbox \in Seq(Replies), rbuf \in 0 .. Len(inbox),
         NEW n \in 0 .. Len(inbox), Consume(n)
  PROVE  /\ inbox' \in Seq(Replies) /\ rbuf' \in 0 .. Len(inbox')
         /\ Len(inbox') = Len(inbox) - n
         /\ \A i \in 1 .. Len(inbox') : inbox'[i] = inbox[i + n]
<1>1. Len(inbox) \in Nat
  BY LenProperties
<1>2. /\ inbox' \in Seq(Replies) /\ Len(inbox') = Len(inbox) - n
      /\ \A i \in 1 .. Len(inbox) - n : inbox'[i] = inbox[i + n]
  BY Suffix DEF Consume
<1>3. QED
  BY <1>1, <1>2 DEF Consume

(* A receive that returns takes the reply at the head, which has the name  *)
(* of the method called and is no exception, and leaves the others.        *)
LEMMA RecvOkLeaves ==
  ASSUME LinkTypeOK, NEW m, NEW a, RecvOk(m, a)
  PROVE  /\ LinkTypeOK'
         /\ sock = "open" /\ inbox # <<>> /\ Len(inbox) >= 1
         /\ a = inbox[1] /\ a \in Replies /\ a.method = m /\ a.body # "exc"
         /\ Len(inbox') = Len(inbox) - 1
         /\ \A i \in 1 .. Len(inbox') : inbox'[i] = inbox[i + 1]
<1>1. inbox \in Seq(Replies) /\ inbox # <<>> /\ rbuf \in 0 .. Len(inbox)
  BY DEF LinkTypeOK, RecvOk, RecvReply
<1>2. Len(inbox) \in Nat /\ Len(inbox) >= 1
  BY <1>1, EmptySeq
<1>3. a = inbox[1] /\ a \in Replies
  BY <1>1, <1>2, ElementOfSeq DEF RecvOk, RecvReply
<1>4. /\ inbox' \in Seq(Replies) /\ rbuf' \in 0 .. Len(inbox')
      /\ Len(inbox') = Len(inbox) - 1
      /\ \A i \in 1 .. Len(inbox') : inbox'[i] = inbox[i + 1]
  BY <1>1, <1>2, ConsumeLeaves DEF RecvOk, RecvReply
<1>5. LinkTypeOK'
  BY <1>4 DEF LinkTypeOK, RecvOk, RecvReply
<1>6. QED
  BY <1>1, <1>2, <1>3, <1>4, <1>5 DEF RecvOk, RecvReply

(* A receive that throws takes none, one or two replies off the stream. *)
LEMMA RecvFailsLeaves ==
  ASSUME LinkTypeOK, NEW m, NEW e, RecvFails(m, e)
  PROVE  /\ LinkTypeOK' /\ sock = "open"
         /\ \E n \in 0 .. Len(inbox) :
              /\ Len(inbox') = Len(inbox) - n
              /\ \A i \in 1 .. Len(inbox') : inbox'[i] = inbox[i + n]
<1>1. inbox \in Seq(Replies) /\ rbuf \in 0 .. Len(inbox)
  BY DEF LinkTypeOK
<1>2. /\ Len(inbox) \in Nat
      /\ inbox # <<>> => Len(inbox) >= 1
  BY <1>1, EmptySeq
<1>3. sock = "open" /\ sock' = sock
  BY DEF RecvFails, RecvApplicationException, RecvWrongName,
     RecvWrongNameOnly, RecvGarbage, RecvTimeout, RecvEnd, RecvBroken
<1>4. desync' \in BOOLEAN /\ clean' \in BOOLEAN
  BY DEF LinkTypeOK, RecvFails, RecvApplicationException, RecvWrongName,
     RecvWrongNameOnly, RecvGarbage, RecvTimeout, RecvEnd, RecvBroken
<1>5. \E n \in 0 .. Len(inbox) :
        /\ inbox' \in Seq(Replies) /\ rbuf' \in 0 .. Len(inbox')
        /\ Len(inbox') = Len(inbox) - n
        /\ \A i \in 1 .. Len(inbox') : inbox'[i] = inbox[i + n]
  <2>1. CASE RecvApplicationException(e) \/ RecvBroken(e)
             \/ RecvWrongNameOnly(m, e)
    <3>1. 1 \in 0 .. Len(inbox) /\ Consume(1)
      BY <2>1, <1>2 DEF RecvApplicationException, RecvBroken, RecvWrongNameOnly
    <3>2. /\ inbox' \in Seq(Replies) /\ rbuf' \in 0 .. Len(inbox')
          /\ Len(inbox') = Len(inbox) - 1
          /\ \A i \in 1 .. Len(inbox') : inbox'[i] = inbox[i + 1]
      BY <3>1, <1>1, ConsumeLeaves
    <3>3. QED
      BY <3>1, <3>2
  <2>2. CASE RecvWrongName(m, e)
    <3>1. 2 \in 0 .. Len(inbox) /\ Consume(2)
      BY <2>2, <1>2 DEF RecvWrongName
    <3>2. /\ inbox' \in Seq(Replies) /\ rbuf' \in 0 .. Len(inbox')
          /\ Len(inbox') = Len(inbox) - 2
          /\ \A i \in 1 .. Len(inbox') : inbox'[i] = inbox[i + 2]
      BY <3>1, <1>1, ConsumeLeaves
    <3>3. QED
      BY <3>1, <3>2
  <2>3. CASE UNCHANGED <<inbox, rbuf>>
    <3>1. Len(inbox') = Len(inbox) - 0
          /\ \A i \in 1 .. Len(inbox') : inbox'[i] = inbox[i + 0]
      BY <2>3, <1>2
    <3>2. /\ 0 \in 0 .. Len(inbox)
          /\ inbox' \in Seq(Replies) /\ rbuf' \in 0 .. Len(inbox')
      BY <2>3, <1>1, <1>2
    <3>3. QED
      BY <3>1, <3>2
  <2>4. CASE RecvTimeout(e) /\ inbox # <<>> /\ inbox' = Tail(inbox) /\ rbuf' = 0
    <3>1. inbox' = SubSeq(inbox, 1 + 1, Len(inbox))
      BY <2>4, <1>1, TailIsSubSeq
    <3>2. /\ inbox' \in Seq(Replies) /\ Len(inbox') = Len(inbox) - 1
          /\ \A i \in 1 .. Len(inbox) - 1 : inbox'[i] = inbox[i + 1]
      <4>1. 1 \in 0 .. Len(inbox)
        BY <2>4, <1>2
      <4>2. QED
        BY <3>1, <4>1, <1>1, Suffix
    <3>3. /\ 1 \in 0 .. Len(inbox) /\ rbuf' \in 0 .. Len(inbox')
          /\ \A i \in 1 .. Len(inbox') : inbox'[i] = inbox[i + 1]
      BY <3>2, <2>4, <1>2
    <3>4. QED
      BY <3>2, <3>3
  <2>5. QED
    BY <2>1, <2>2, <2>3, <2>4 DEF RecvFails, RecvGarbage, RecvTimeout, RecvEnd
<1>6. LinkTypeOK'
  BY <1>3, <1>4, <1>5 DEF LinkTypeOK, RecvFails
<1>7. QED
  BY <1>3, <1>5, <1>6

-----------------------------------------------------------------------------
(* The server and the network keep the types. *)
LEMMA ServeType ==
  ASSUME LinkTypeOK, NEW r \in wire, NEW b \in AllBodies, Serve(r, b)
  PROVE  LinkTypeOK'
<1> DEFINE a == [gen |-> r.gen, id |-> r.id, try |-> r.try,
                 method |-> r.method, body |-> b]
<1>1. r \in Requests /\ wire' \subseteq Requests
  BY DEF LinkTypeOK, Serve
<1>2. a \in Replies
  BY <1>1 DEF Serve, Requests, Replies
<1>3. inbox \in Seq(Replies) /\ Len(inbox) \in Nat /\ rbuf \in 0 .. Len(inbox)
  BY LenProperties DEF LinkTypeOK
<1>4. Append(inbox, a) \in Seq(Replies) /\ Len(Append(inbox, a)) = Len(inbox) + 1
  BY <1>2, <1>3
<1>5. inbox' \in Seq(Replies) /\ rbuf' \in 0 .. Len(inbox')
  BY <1>3, <1>4 DEF Serve
<1>6. r.gen \in Nat /\ Key(r) \in CallIds \X Attempts
  BY <1>1 DEF Requests, Key
<1>7. authed' \subseteq Nat /\ executed' \subseteq CallIds \X Attempts
  BY <1>6 DEF LinkTypeOK, Serve
<1>8. QED
  BY <1>1, <1>5, <1>7 DEF LinkTypeOK, Serve

LEMMA LinkDropType ==
  ASSUME LinkTypeOK, LinkDrop
  PROVE  /\ LinkTypeOK' /\ Len(inbox') <= Len(inbox)
         /\ \A i \in 1 .. Len(inbox') : inbox'[i] = inbox[i]
<1>1. inbox \in Seq(Replies) /\ Len(inbox) \in Nat /\ rbuf \in 0 .. Len(inbox)
  BY LenProperties DEF LinkTypeOK
<1>2. PICK k \in rbuf .. Len(inbox) : inbox' = SubSeq(inbox, 1, k)
  BY DEF LinkDrop
<1>3. k \in 0 .. Len(inbox)
  BY <1>1, <1>2
<1>4. /\ inbox' \in Seq(Replies) /\ Len(inbox') = k
      /\ \A i \in 1 .. k : inbox'[i] = inbox[i]
  BY <1>1, <1>2, <1>3, Prefix
<1>5. rbuf' \in 0 .. Len(inbox')
  BY <1>1, <1>2, <1>4 DEF LinkDrop
<1>6. QED
  BY <1>1, <1>3, <1>4, <1>5 DEF LinkTypeOK, LinkDrop

LEMMA NetNextType ==
  ASSUME LinkTypeOK, NetNext
  PROVE  LinkTypeOK'
BY ServeType, LinkDropType DEF NetNext

-----------------------------------------------------------------------------
(***************************************************************************)
(* The calls                                                               *)
(***************************************************************************)

Holding == {"send", "recv", "sleep", "stuck"}
Answers == (CallIds \X Attempts) \cup {NoAnswer}

CallsType ==
  /\ m_mutex \in Threads \cup {NoThread}
  /\ pc \in [Threads -> {"idle", "lock", "send", "recv", "sleep", "stuck"}]
  /\ op \in [Threads -> Ops \cup {"none"}]
  /\ retry \in 0 .. MaxRetries
  /\ calls \in Seq(CallRecords)

FlagsType ==
  /\ m_isConnected \in BOOLEAN /\ m_isAuthenticated \in BOOLEAN
  /\ m_lastError \in Errors \cup {"none"}
  /\ m_client \in BOOLEAN

PhaseType == phase \in {"connect", "authenticate", "shared", "destroyed"}

(* No call is invoked that could exceed the bound on their number. *)
Bounded == Len(calls) + Cardinality(Waiting) <= MaxCalls

(* The mutex is held by the one thread that is inside a blocking method. *)
HolderInside == \A t \in Threads : pc[t] \in Holding <=> m_mutex = t

(* Where a thread is determines the method it is in. *)
Place(t) ==
  /\ pc[t] = "lock" => op[t] \in Ops
  /\ pc[t] \in {"send", "sleep"} => op[t] = "Authenticate" /\ retry >= 1
  /\ pc[t] = "sleep" => retry < MaxRetries
  /\ pc[t] = "recv" => op[t] \in FileOps \cup {"Ping", "Authenticate"}
  /\ pc[t] = "recv" /\ op[t] = "Authenticate" => retry >= 1
Places == \A t \in Threads : Place(t)

(* The loop counter is only in use inside Authenticate. *)
RetryInUse ==
  retry # 0 => m_mutex \in Threads /\ op[m_mutex] = "Authenticate"

(* The last call is running exactly while the mutex is held, the others    *)
(* have returned.                                                          *)
LastRuns ==
  /\ m_mutex # NoThread => calls # <<>> /\ calls[Len(calls)].op = op[m_mutex]
  /\ \A i \in 1 .. Len(calls) :
       calls[i].res = "running" <=> i = Len(calls) /\ m_mutex # NoThread

CallInv ==
  CallsType /\ Bounded /\ HolderInside /\ Places /\ RetryInUse /\ LastRuns

callVars == <<m_mutex, pc, op, retry, calls>>

-----------------------------------------------------------------------------
(* Waiting threads are finitely many, one more or less counts one. *)
LEMMA WaitingCount ==
  /\ IsFiniteSet(Waiting) /\ Cardinality(Waiting) \in Nat
  /\ \A t \in Waiting : Cardinality(Waiting) >= 1
  /\ \A t \in Threads : 
       Cardinality(Waiting \cup {t}) =
         IF t \in Waiting THEN Cardinality(Waiting) ELSE Cardinality(Waiting) + 1
  /\ \A t \in Threads : 
       Cardinality(Waiting \ {t}) =
         IF t \in Waiting THEN Cardinality(Waiting) - 1 ELSE Cardinality(Waiting)
<1>1. Waiting \in SUBSET Threads /\ IsFiniteSet(Threads)
  BY ThreadsAssumption DEF Waiting
<1>2. IsFiniteSet(Waiting)
  BY <1>1, FS_Subset
<1>3. \A t \in Waiting : Cardinality(Waiting) >= 1
  BY <1>2, FS_CardinalityType, FS_EmptySet
<1>4. QED
  BY <1>2, <1>3, FS_CardinalityType, FS_AddElement, FS_RemoveElement

(* A call is appended to the list, or the last one is replaced. *)
LEMMA EntryType ==
  ASSUME NEW o \in Ops, NEW r \in Outcomes, NEW a \in Answers
  PROVE  /\ Entry(o, r, a) \in CallRecords
         /\ Entry(o, r, a).op = o /\ Entry(o, r, a).res = r
         /\ Entry(o, r, a).ans = a
<1>1. (a # NoAnswer /\ clean) \in BOOLEAN
  BY Zenon
<1>2. QED
  BY <1>1 DEF Entry, CallRecords, Answers

LEMMA CallAppended ==
  ASSUME calls \in Seq(CallRecords), NEW c \in CallRecords,
         calls' = Append(calls, c)
  PROVE  /\ calls' \in Seq(CallRecords) /\ calls' # <<>>
         /\ Len(calls) \in Nat /\ Len(calls') = Len(calls) + 1
         /\ \A i \in 1 .. Len(calls) : calls'[i] = calls[i]
         /\ calls'[Len(calls')] = c
<1>1. Len(calls) \in Nat
  BY LenProperties
<1>2. QED
  BY <1>1

LEMMA LastReplaced ==
  ASSUME NEW S, NEW s \in Seq(S), s # <<>>, NEW e \in S, NEW t,
         t = [s EXCEPT ![Len(s)] = e]
  PROVE  /\ t \in Seq(S) /\ Len(t) = Len(s)
         /\ \A j \in 1 .. Len(s) : t[j] = IF j = Len(s) THEN e ELSE s[j]
<1>1. Len(s) \in 1 .. Len(s)
  BY SMTT(30), EmptySeq
<1>2. QED
  BY <1>1, ExceptSeq

LEMMA LastCallReplaced ==
  ASSUME calls \in Seq(CallRecords), calls # <<>>, NEW c \in CallRecords,
         calls' = [calls EXCEPT ![Id] = c]
  PROVE  /\ calls' \in Seq(CallRecords) /\ calls' # <<>>
         /\ Len(calls) \in Nat \ {0} /\ Len(calls') = Len(calls)
         /\ \A i \in 1 .. Len(calls) : i # Len(calls) => calls'[i] = calls[i]
         /\ calls'[Len(calls)] = c
<1>1. Len(calls) \in Nat \ {0} /\ Len(calls) \in 1 .. Len(calls)
  BY EmptySeq
<1>2. calls' = [calls EXCEPT ![Len(calls)] = c]
  BY DEF Id
<1>3. calls' \in Seq(CallRecords)
  BY <1>2, LastReplaced
<1>4. Len(calls') = Len(calls)
  BY <1>2, LastReplaced
<1>5. \A j \in 1 .. Len(calls) :
        calls'[j] = IF j = Len(calls) THEN c ELSE calls[j]
  BY <1>2, LastReplaced
<1>6. calls' # <<>>
  BY <1>1, <1>3, <1>4, EmptySeq
<1>7. QED
  BY <1>1, <1>3, <1>4, <1>5, <1>6
-----------------------------------------------------------------------------
(* A thread that waits for the mutex has a number for its call; one that   *)
(* holds it is in its call.                                                *)
LEMMA NextCallHasRoom ==
  ASSUME CallInv, NEW t \in Threads, pc[t] = "lock"
  PROVE  Len(calls) \in Nat /\ Len(calls) + 1 \in CallIds /\ op[t] \in Ops
<1>1. Len(calls) \in Nat /\ MaxCalls \in Nat
  BY LenProperties, MaxCallsAssumption DEF CallInv, CallsType
<1>2. t \in Waiting
  BY DEF Waiting
<1>3. Len(calls) + 1 <= MaxCalls
  BY <1>1, <1>2, WaitingCount DEF CallInv, Bounded
<1>4. op[t] \in Ops
  BY DEF CallInv, Places, Place
<1>5. QED
  BY <1>1, <1>3, <1>4 DEF CallIds

LEMMA HolderHasCall ==
  ASSUME CallInv, NEW t \in Threads, pc[t] \in Holding
  PROVE  /\ m_mutex = t /\ calls # <<>> /\ Id \in CallIds
         /\ op[t] \in Ops /\ calls[Id].op = op[t] /\ calls[Id].res = "running"
<1>1. m_mutex = t /\ m_mutex # NoThread
  BY ThreadsAssumption DEF CallInv, HolderInside
<1>2. calls # <<>> /\ calls[Len(calls)].op = op[t]
  BY <1>1 DEF CallInv, LastRuns
<1>3. calls \in Seq(CallRecords)
  BY DEF CallInv, CallsType
<1>4. Len(calls) \in Nat \ {0} /\ MaxCalls \in Nat
  BY <1>2, <1>3, EmptySeq, MaxCallsAssumption
<1>5. Len(calls) <= MaxCalls
  BY <1>4, WaitingCount DEF CallInv, Bounded
<1>6. calls[Len(calls)] \in CallRecords
  BY <1>3, <1>4, ElementOfSeq
<1>7. calls[Len(calls)].op \in Ops
  BY <1>6 DEF CallRecords
<1>8. calls[Len(calls)].res = "running"
  BY <1>1, <1>4 DEF CallInv, LastRuns
<1>9. QED
  BY <1>1, <1>2, <1>4, <1>5, <1>7, <1>8 DEF Id, CallIds

(* While the mutex is free nobody is in the retry loop. *)
LEMMA FreeNoRetry ==
  ASSUME CallInv, m_mutex = NoThread
  PROVE  retry = 0 /\ \A t \in Threads : pc[t] \notin Holding
BY ThreadsAssumption DEF CallInv, RetryInUse, HolderInside

(* A call is invoked: its thread waits for the mutex. *)
LEMMA CallKeeps ==
  ASSUME CallInv, NEW t \in Threads, NEW o \in Ops, Call(t, o)
  PROVE  CallInv'
<1>1. /\ pc' \in [Threads -> {"idle", "lock", "send", "recv", "sleep", "stuck"}]
      /\ pc'[t] = "lock" /\ \A u \in Threads : u # t => pc'[u] = pc[u]
  BY DEF CallInv, CallsType, Call
<1>2. /\ op' \in [Threads -> Ops \cup {"none"}]
      /\ op'[t] = o /\ \A u \in Threads : u # t => op'[u] = op[u]
  BY DEF CallInv, CallsType, Call
<1>3. /\ UNCHANGED <<m_mutex, retry, calls>> /\ pc[t] = "idle"
      /\ Len(calls) + Cardinality(Waiting) < MaxCalls
  BY DEF Call
<1>4. m_mutex # t
  BY <1>3 DEF CallInv, HolderInside, Holding
<1>5. CallsType'
  BY <1>1, <1>2, <1>3 DEF CallInv, CallsType
<1>6. Bounded'
  <2>1. Waiting' = Waiting \cup {t} /\ t \notin Waiting
    BY <1>1, <1>3 DEF Waiting
  <2>2. Len(calls) \in Nat /\ MaxCalls \in Nat
    BY LenProperties, MaxCallsAssumption DEF CallInv, CallsType
  <2>3. QED
    BY <1>3, <2>1, <2>2, WaitingCount DEF Bounded
<1>7. HolderInside'
  BY <1>1, <1>3, <1>4 DEF CallInv, HolderInside, Holding
<1>8. Places'
  BY <1>1, <1>2, <1>3 DEF CallInv, Places, Place
<1>9. RetryInUse' /\ LastRuns'
  BY <1>2, <1>3, <1>4 DEF CallInv, CallsType, RetryInUse, LastRuns
<1>10. QED
  BY <1>5, <1>6, <1>7, <1>8, <1>9 DEF CallInv

(* A method that gets the mutex returns in the same step. *)
LEMMA ReturnAtOnceKeeps ==
  ASSUME CallInv, NEW t \in Threads, NEW o, Locks(t, o),
         NEW r \in Outcomes \ {"running"}, ReturnAtOnce(t, r)
  PROVE  CallInv'
<1>1. pc[t] = "lock" /\ m_mutex = NoThread /\ UNCHANGED <<m_mutex, retry>>
  BY DEF Locks, ReturnAtOnce
<1>2. /\ pc' \in [Threads -> {"idle", "lock", "send", "recv", "sleep", "stuck"}]
      /\ pc'[t] = "idle" /\ \A u \in Threads : u # t => pc'[u] = pc[u]
  BY DEF CallInv, CallsType, ReturnAtOnce
<1>3. /\ op' \in [Threads -> Ops \cup {"none"}]
      /\ \A u \in Threads : u # t => op'[u] = op[u]
  BY DEF CallInv, CallsType, ReturnAtOnce
<1> DEFINE c == Entry(op[t], r, NoAnswer)
<1>4. op[t] \in Ops /\ NoAnswer \in Answers /\ r \in Outcomes
  BY <1>1, NextCallHasRoom DEF Answers
<1>5. c \in CallRecords /\ c.res = r
  BY <1>4, EntryType
<1>6. calls \in Seq(CallRecords) /\ calls' = Append(calls, c)
  BY DEF CallInv, CallsType, ReturnAtOnce
<1> HIDE DEF c
<1>7. /\ calls' \in Seq(CallRecords) /\ calls' # <<>>
      /\ Len(calls) \in Nat /\ Len(calls') = Len(calls) + 1
      /\ \A i \in 1 .. Len(calls) : calls'[i] = calls[i]
      /\ calls'[Len(calls')] = c
  BY <1>5, <1>6, CallAppended
<1>8. CallsType'
  BY <1>1, <1>2, <1>3, <1>7 DEF CallInv, CallsType
<1>9. Bounded'
  <2>1. Waiting' = Waiting \ {t} /\ t \in Waiting
    BY <1>1, <1>2 DEF Waiting
  <2>2. MaxCalls \in Nat
    BY MaxCallsAssumption
  <2>3. QED
    BY <1>7, <2>1, <2>2, WaitingCount DEF CallInv, Bounded
<1>10. HolderInside'
  BY <1>1, <1>2, ThreadsAssumption DEF CallInv, HolderInside, Holding
<1>11. Places'
  BY <1>1, <1>2, <1>3 DEF CallInv, Places, Place
<1>12. RetryInUse'
  BY <1>1, ThreadsAssumption DEF CallInv, RetryInUse
<1>13. LastRuns'
  <2>1. \A i \in 1 .. Len(calls') : calls'[i].res # "running"
    BY <1>1, <1>5, <1>7 DEF CallInv, LastRuns
  <2>2. QED
    BY <1>1, <2>1 DEF LastRuns
<1>14. QED
  BY <1>8, <1>9, <1>10, <1>11, <1>12, <1>13 DEF CallInv

(* A method that gets the mutex goes on holding it. *)
LEMMA HoldAtKeeps ==
  ASSUME CallInv, NEW t \in Threads, NEW o, Locks(t, o),
         NEW p \in Holding \ {"sleep"}, HoldAt(t, p),
         retry' \in 0 .. MaxRetries,
         retry' # 0 => o = "Authenticate",
         p = "send" => o = "Authenticate" /\ retry' >= 1,
         p = "recv" => o \in FileOps \cup {"Ping"}
  PROVE  CallInv'
<1>1. /\ pc[t] = "lock" /\ op[t] = o /\ m_mutex = NoThread /\ m_mutex' = t
      /\ op' = op
  BY DEF Locks, HoldAt
<1>2. /\ pc' \in [Threads -> {"idle", "lock", "send", "recv", "sleep", "stuck"}]
      /\ pc'[t] = p /\ \A u \in Threads : u # t => pc'[u] = pc[u]
  BY DEF CallInv, CallsType, HoldAt, Holding
<1> DEFINE c == Entry(op[t], "running", NoAnswer)
<1>3. op[t] \in Ops /\ NoAnswer \in Answers /\ "running" \in Outcomes
  BY <1>1, NextCallHasRoom DEF Answers, Outcomes
<1>4. c \in CallRecords /\ c.res = "running" /\ c.op = op[t]
  BY <1>3, EntryType
<1>5. calls \in Seq(CallRecords) /\ calls' = Append(calls, c)
  BY DEF CallInv, CallsType, HoldAt
<1> HIDE DEF c
<1>6. /\ calls' \in Seq(CallRecords) /\ calls' # <<>>
      /\ Len(calls) \in Nat /\ Len(calls') = Len(calls) + 1
      /\ \A i \in 1 .. Len(calls) : calls'[i] = calls[i]
      /\ calls'[Len(calls')] = c
  BY <1>4, <1>5, CallAppended
<1>7. CallsType'
  BY <1>1, <1>2, <1>6 DEF CallInv, CallsType
<1>8. Bounded'
  <2>1. Waiting' = Waiting \ {t} /\ t \in Waiting
    BY <1>1, <1>2 DEF Waiting, Holding
  <2>2. MaxCalls \in Nat
    BY MaxCallsAssumption
  <2>3. QED
    BY <1>6, <2>1, <2>2, WaitingCount DEF CallInv, Bounded
<1>9. \A u \in Threads : pc[u] \notin Holding
  BY <1>1, ThreadsAssumption DEF CallInv, HolderInside
<1>10. HolderInside'
  BY <1>1, <1>2, <1>9 DEF HolderInside
<1>11. Places'
  BY <1>1, <1>2, <1>9 DEF CallInv, Places, Place, Holding, FileOps
<1>12. RetryInUse'
  BY <1>1 DEF RetryInUse
<1>13. LastRuns'
  <2>1. \A i \in 1 .. Len(calls) : calls[i].res # "running"
    BY <1>1 DEF CallInv, LastRuns
  <2>2. t # NoThread
    BY ThreadsAssumption
  <2>3. \A i \in 1 .. Len(calls') :
          calls'[i].res = "running" <=> i = Len(calls')
    BY <1>4, <1>6, <2>1
  <2>4. QED
    BY <1>1, <1>4, <1>6, <2>2, <2>3 DEF LastRuns
<1>14. QED
  BY <1>7, <1>8, <1>10, <1>11, <1>12, <1>13 DEF CallInv

(* The holder of the mutex returns. *)
LEMMA ReturnKeeps ==
  ASSUME CallInv, NEW t \in Threads, pc[t] \in Holding,
         NEW r \in Outcomes \ {"running"}, NEW a \in Answers, Return(t, r, a)
  PROVE  CallInv'
<1>1. m_mutex = t /\ m_mutex' = NoThread /\ retry' = 0
  BY HolderHasCall DEF Return
<1>2. /\ pc' \in [Threads -> {"idle", "lock", "send", "recv", "sleep", "stuck"}]
      /\ pc'[t] = "idle" /\ \A u \in Threads : u # t => pc'[u] = pc[u]
  BY DEF CallInv, CallsType, Return
<1>3. /\ op' \in [Threads -> Ops \cup {"none"}]
      /\ \A u \in Threads : u # t => op'[u] = op[u]
  BY DEF CallInv, CallsType, Return
<1> DEFINE c == Entry(op[t], r, a)
<1>4. op[t] \in Ops /\ calls # <<>> /\ calls \in Seq(CallRecords)
  BY HolderHasCall DEF CallInv, CallsType
<1>5. c \in CallRecords /\ c.res = r
  BY <1>4, EntryType
<1>6. calls' = [calls EXCEPT ![Id] = c]
  BY DEF Return
<1> HIDE DEF c
<1>7. /\ calls' \in Seq(CallRecords) /\ calls' # <<>>
      /\ Len(calls) \in Nat \ {0} /\ Len(calls') = Len(calls)
      /\ \A i \in 1 .. Len(calls) : i # Len(calls) => calls'[i] = calls[i]
      /\ calls'[Len(calls)] = c
  BY <1>4, <1>5, <1>6, LastCallReplaced
<1>8. CallsType'
  BY <1>1, <1>2, <1>3, <1>7, MaxRetriesAssumption DEF CallInv, CallsType
<1>9. Bounded'
  <2>1. Waiting' = Waiting
    BY <1>2 DEF Waiting, Holding
  <2>2. QED
    BY <1>7, <2>1 DEF CallInv, Bounded
<1>10. HolderInside'
  BY <1>1, <1>2, ThreadsAssumption DEF CallInv, HolderInside, Holding
<1>11. Places'
  BY <1>1, <1>2, <1>3 DEF CallInv, Places, Place, HolderInside, Holding
<1>12. RetryInUse'
  BY <1>1 DEF RetryInUse
<1>13. LastRuns'
  <2>1. \A i \in 1 .. Len(calls') : calls'[i].res # "running"
    BY <1>5, <1>7 DEF CallInv, LastRuns
  <2>2. QED
    BY <1>1, <2>1 DEF LastRuns
<1>14. QED
  BY <1>8, <1>9, <1>10, <1>11, <1>12, <1>13 DEF CallInv

(* Authenticate goes from one of its waits to another. *)
LEMMA MoveKeeps ==
  ASSUME CallInv, NEW t \in Threads, pc[t] \in Holding,
         op[t] = "Authenticate", NEW p \in {"send", "recv", "sleep"},
         pc' = [pc EXCEPT ![t] = p], UNCHANGED <<m_mutex, op, calls>>,
         retry' \in 1 .. MaxRetries, p = "sleep" => retry' < MaxRetries
  PROVE  CallInv'
<1>1. m_mutex = t
  BY HolderHasCall
<1>2. /\ pc' \in [Threads -> {"idle", "lock", "send", "recv", "sleep", "stuck"}]
      /\ pc'[t] = p /\ \A u \in Threads : u # t => pc'[u] = pc[u]
  BY DEF CallInv, CallsType
<1>3. CallsType' /\ RetryInUse'
  BY <1>1, <1>2, MaxRetriesAssumption DEF CallInv, CallsType, RetryInUse
<1>4. Bounded'
  <2>1. Waiting' = Waiting
    BY <1>2 DEF Waiting, Holding
  <2>2. QED
    BY <2>1 DEF CallInv, Bounded
<1>5. HolderInside'
  BY <1>1, <1>2 DEF CallInv, HolderInside, Holding
<1>6. Places'
  BY <1>1, <1>2 DEF CallInv, Places, Place, HolderInside, Holding
<1>7. LastRuns'
  BY DEF CallInv, LastRuns
<1>8. QED
  BY <1>3, <1>4, <1>5, <1>6, <1>7 DEF CallInv

-----------------------------------------------------------------------------
(***************************************************************************)
(* Type correctness                                                        *)
(***************************************************************************)
TypeInv == LinkTypeOK /\ CallInv /\ FlagsType /\ PhaseType

LEMMA TypeInvImpliesTypeOK == TypeInv => TypeOK
<1> SUFFICES ASSUME TypeInv PROVE TypeOK
  OBVIOUS
<1>1. Len(calls) \in Nat /\ MaxCalls \in Nat
  BY LenProperties, MaxCallsAssumption DEF TypeInv, CallInv, CallsType
<1>2. Len(calls) \in 0 .. MaxCalls
  BY <1>1, WaitingCount DEF TypeInv, CallInv, Bounded
<1>3. QED
  BY <1>2 DEF TypeInv, CallInv, CallsType, FlagsType, PhaseType, TypeOK

LEMMA TypeInvInit == Init => TypeInv
<1> SUFFICES ASSUME Init PROVE TypeInv
  OBVIOUS
<1>1. LinkTypeOK
  <2>1. inbox \in Seq(Replies) /\ rbuf \in 0 .. Len(inbox)
    BY EmptySeq DEF Init, LinkInit
  <2>2. /\ wire \subseteq Requests /\ authed \subseteq Nat
        /\ executed \subseteq CallIds \X Attempts
    BY DEF Init, LinkInit
  <2>3. QED
    BY <2>1, <2>2 DEF Init, LinkInit, LinkTypeOK
<1>2. CallsType
  BY EmptySeq, MaxRetriesAssumption DEF Init, CallsType, Ops
<1>3. Bounded
  <2>1. Waiting = {Creator}
    BY ThreadsAssumption DEF Init, Waiting
  <2>2. Cardinality(Waiting) = 1 /\ Len(calls) = 0
    BY <2>1, FS_Singleton DEF Init
  <2>3. QED
    BY <2>2, MaxCallsAssumption DEF Bounded
<1>4. HolderInside
  BY ThreadsAssumption DEF Init, HolderInside, Holding
<1>5. Places
  BY DEF Init, Places, Place, Ops
<1>6. RetryInUse /\ LastRuns
  BY DEF Init, RetryInUse, LastRuns
<1>7. FlagsType /\ PhaseType
  BY DEF Init, FlagsType, PhaseType
<1>8. QED
  BY <1>1, <1>2, <1>3, <1>4, <1>5, <1>6, <1>7 DEF TypeInv, CallInv

(* A thrown exception becomes an error; the flags stay Boolean. *)
LEMMA ErrorOfType ==
  ASSUME NEW e \in Exceptions
  PROVE  ErrorOf(e) \in Errors /\ ErrorOf(e) \in Outcomes \ {"running"}
BY DEF ErrorOf, Exceptions, TransportExceptions, Errors, Outcomes

LEMMA HandleType ==
  ASSUME FlagsType, NEW e \in Exceptions, Handle(e), m_client' \in BOOLEAN
  PROVE  FlagsType'
<1>1. m_lastError' \in Errors
  BY ErrorOfType DEF Handle
<1>2. /\ m_isConnected' = (m_isConnected /\ ~Breaks(e))
      /\ m_isAuthenticated' = (m_isAuthenticated /\ ~Breaks(e))
  BY DEF Handle
<1>3. m_isConnected' \in BOOLEAN /\ m_isAuthenticated' \in BOOLEAN
  BY <1>2, Zenon
<1>4. QED
  BY <1>1, <1>3 DEF FlagsType

LEMMA KeepFlagsType ==
  ASSUME FlagsType, KeepFlags, m_client' \in BOOLEAN
  PROVE  FlagsType'
BY DEF FlagsType, KeepFlags

LEMMA RecordType ==
  ASSUME FlagsType, NEW r \in Errors, Record(r), UNCHANGED m_client
  PROVE  FlagsType'
BY DEF FlagsType, Record

LEMMA CallInvUnchanged ==
  ASSUME CallInv, UNCHANGED callVars
  PROVE  CallInv'
BY DEF callVars, CallInv, CallsType, Bounded, Waiting, HolderInside, Places,
   Place, RetryInUse, LastRuns

LEMMA LinkUnchanged ==
  ASSUME LinkTypeOK, UNCHANGED linkVars
  PROVE  LinkTypeOK'
BY DEF linkVars, LinkTypeOK

-----------------------------------------------------------------------------
(* Connect and Reconnect. *)
LEMMA ConnectingKeepsTypes ==
  ASSUME TypeInv, NEW t \in Threads, NEW o, Locks(t, o),
         RelockDeadlock(t) \/ RelockThrows(t) \/ (~m_isConnected /\ ConnectInternal(t))
  PROVE  TypeInv'
<1> USE DEF TypeInv
<1>1. CASE RelockDeadlock(t)
  <2>1. HoldAt(t, "stuck") /\ retry' = retry /\ "stuck" \in Holding \ {"sleep"}
    BY <1>1 DEF RelockDeadlock, Holding
  <2>2. retry' = 0 /\ retry' \in 0 .. MaxRetries
    BY <2>1, FreeNoRetry DEF CallInv, CallsType, Locks
  <2>3. CallInv'
    BY <2>1, <2>2, HoldAtKeeps
  <2>4. QED
    BY <1>1, <2>3, LinkUnchanged DEF RelockDeadlock, HoldAt, FlagsType, PhaseType
<1>2. CASE RelockThrows(t)
  <2>1. CallInv'
    BY <1>2, ReturnAtOnceKeeps DEF RelockThrows, Outcomes, Errors
  <2>2. FlagsType'
    BY <1>2, KeepFlagsType DEF RelockThrows, FlagsType
  <2>3. QED
    BY <1>2, <2>1, <2>2, LinkUnchanged DEF RelockThrows, ReturnAtOnce, PhaseType
<1>3. CASE ~m_isConnected /\ ConnectInternal(t)
  <2>1. PICK e \in {"none"} \cup Exceptions :
          /\ OpenFresh(e) /\ m_client' = TRUE
          /\ IF e = "none"
             THEN /\ m_isConnected' = TRUE
                  /\ UNCHANGED <<m_isAuthenticated, m_lastError>>
                  /\ ReturnAtOnce(t, "ok")
             ELSE Handle(e) /\ ReturnAtOnce(t, ErrorOf(e))
    BY <1>3 DEF ConnectInternal
  <2>2. LinkTypeOK'
    BY <2>1, OpenFreshType
  <2>3. CASE e = "none"
    <3>1. CallInv'
      BY <2>1, <2>3, ReturnAtOnceKeeps DEF Outcomes, Errors
    <3>2. QED
      BY <2>1, <2>2, <2>3, <3>1 DEF FlagsType, PhaseType, ReturnAtOnce
  <2>4. CASE e # "none"
    <3>1. e \in Exceptions /\ ReturnAtOnce(t, ErrorOf(e))
      BY <2>1, <2>4
    <3>2. CallInv'
      BY <3>1, ErrorOfType, ReturnAtOnceKeeps
    <3>3. FlagsType'
      BY <2>1, <2>4, <3>1, HandleType
    <3>4. QED
      BY <2>2, <3>1, <3>2, <3>3 DEF PhaseType, ReturnAtOnce
  <2>5. QED
    BY <2>3, <2>4
<1>4. QED
  BY <1>1, <1>2, <1>3

(* Disconnect and the getters. *)
LEMMA DisconnectKeepsTypes ==
  ASSUME TypeInv, NEW t \in Threads, Disconnect(t)
  PROVE  TypeInv'
<1> USE DEF TypeInv
<1>1. CallInv'
  BY ReturnAtOnceKeeps DEF Disconnect, Outcomes, Errors
<1>2. LinkTypeOK'
  BY LinkUnchanged, CloseTransportType DEF Disconnect, CloseAndReset
<1>3. QED
  BY <1>1, <1>2 DEF Disconnect, CloseAndReset, ReturnAtOnce, FlagsType, PhaseType

LEMMA GetterKeepsTypes ==
  ASSUME TypeInv, NEW t \in Threads, Getter(t)
  PROVE  TypeInv'
<1> USE DEF TypeInv
<1>1. CallInv'
  BY ReturnAtOnceKeeps DEF Getter, Outcomes, Errors
<1>2. FlagsType'
  BY KeepFlagsType DEF Getter, FlagsType
<1>3. QED
  BY <1>1, <1>2, LinkUnchanged DEF Getter, ReturnAtOnce, PhaseType

(* File operations and Ping, up to the request. *)
LEMMA RefuseKeepsTypes ==
  ASSUME TypeInv, NEW t \in Threads, NEW o, Locks(t, o),
         NEW r \in Errors, Refuse(t, r)
  PROVE  TypeInv'
<1> USE DEF TypeInv
<1>1. r \in Outcomes \ {"running"}
  BY DEF Outcomes, Errors
<1>2. CallInv'
  BY <1>1, ReturnAtOnceKeeps DEF Refuse
<1>3. FlagsType'
  BY RecordType DEF Refuse
<1>4. QED
  BY <1>2, <1>3, LinkUnchanged DEF Refuse, ReturnAtOnce, PhaseType

LEMMA SendRequestKeepsTypes ==
  ASSUME TypeInv, NEW t \in Threads, NEW o \in FileOps \cup {"Ping"},
         Locks(t, o), NEW m \in Methods, SendRequest(t, m)
  PROVE  TypeInv'
<1> USE DEF TypeInv
<1>1. CASE /\ SendOk(m, Id + 1, retry) /\ HoldAt(t, "recv") /\ KeepFlags
           /\ UNCHANGED <<retry, m_client>>
  <2>1. retry = 0 /\ retry \in Attempts /\ Id + 1 \in CallIds
    BY FreeNoRetry, NextCallHasRoom, MaxRetriesAssumption
       DEF Locks, Attempts, Id
  <2>2. LinkTypeOK'
    BY <1>1, <2>1, SendOkType
  <2>3. retry' = 0 /\ retry' \in 0 .. MaxRetries /\ "recv" \in Holding \ {"sleep"}
    BY <1>1, <2>1 DEF Attempts, Holding
  <2>4. CallInv'
    BY <1>1, <2>3, HoldAtKeeps
  <2>5. FlagsType'
    BY <1>1, KeepFlagsType DEF FlagsType
  <2>6. QED
    BY <1>1, <2>2, <2>4, <2>5 DEF HoldAt, PhaseType
<1>2. ASSUME NEW e \in TransportExceptions, SendFails(m, e), Handle(e),
             ReturnAtOnce(t, ErrorOf(e)), UNCHANGED m_client
      PROVE  TypeInv'
  <2>1. e \in Exceptions
    BY DEF Exceptions
  <2>2. LinkTypeOK'
    BY <1>2, SendFailsType
  <2>3. CallInv'
    BY <1>2, <2>1, ErrorOfType, ReturnAtOnceKeeps
  <2>4. FlagsType'
    BY <1>2, <2>1, HandleType DEF FlagsType
  <2>5. QED
    BY <1>2, <2>2, <2>3, <2>4 DEF ReturnAtOnce, PhaseType
<1>3. QED
  BY <1>1, <1>2 DEF SendRequest

LEMMA FileOperationKeepsTypes ==
  ASSUME TypeInv, NEW t \in Threads, NEW o \in FileOps, FileOperation(t, o)
  PROVE  TypeInv'
<1>1. Locks(t, o) /\ MethodOf[o] \in Methods
  BY DEF FileOperation, MethodOf, FileOps, Methods, FileMethods
<1>2. {"not_connected", "not_authenticated"} \subseteq Errors
  BY DEF Errors
<1>3. QED
  BY <1>1, <1>2, RefuseKeepsTypes, SendRequestKeepsTypes
     DEF FileOperation, EnsureConnected, EnsureAuthenticated

LEMMA PingKeepsTypes ==
  ASSUME TypeInv, NEW t \in Threads, Ping(t)
  PROVE  TypeInv'
<1>1. Locks(t, "Ping") /\ "Ping" \in Methods /\ "not_connected" \in Errors
  BY DEF Ping, Methods, Errors
<1>2. QED
  BY <1>1, RefuseKeepsTypes, SendRequestKeepsTypes DEF Ping, EnsureConnected

(* The answer or the exception they wait for. *)
LEMMA VerdictType ==
  ASSUME NEW m \in Methods, NEW a \in Replies, a.body # "exc", a.method = m
  PROVE  Verdict(m, a.body) \in Outcomes \ {"running"}
<1>1. a.body \in Bodies(m)
  BY DEF Replies
<1>2. QED
  BY <1>1 DEF Bodies, Methods, FileMethods, Verdict, AckVerdict, DataVerdict,
     ListVerdict, Outcomes, Errors

LEMMA ReplyKey ==
  ASSUME NEW a \in Replies
  PROVE  Key(a) \in Answers
BY DEF Replies, Key, Answers

LEMMA AnsweredKeepsTypes ==
  ASSUME TypeInv, NEW t \in Threads, Answered(t)
  PROVE  TypeInv'
<1> USE DEF TypeInv
<1> DEFINE m == MethodOf[op[t]]
<1>1. pc[t] \in Holding /\ m \in Methods /\ UNCHANGED m_client
  BY DEF Answered, Holding, MethodOf, FileOps, Methods, FileMethods
<1> HIDE DEF m
<1>2. ASSUME NEW a, RecvOk(m, a), Return(t, Verdict(m, a.body), Key(a)),
             UNCHANGED <<m_isConnected, m_isAuthenticated>>,
             m_lastError' = IF Verdict(m, a.body) \in Errors
                            THEN Verdict(m, a.body) ELSE m_lastError
      PROVE  TypeInv'
  <2>1. LinkTypeOK' /\ a \in Replies /\ a.method = m /\ a.body # "exc"
    BY <1>2, RecvOkLeaves
  <2>2. Verdict(m, a.body) \in Outcomes \ {"running"} /\ Key(a) \in Answers
    BY <1>1, <2>1, VerdictType, ReplyKey
  <2>3. CallInv'
    BY <1>1, <1>2, <2>2, ReturnKeeps
  <2>4. FlagsType'
    BY <1>1, <1>2 DEF FlagsType
  <2>5. QED
    BY <1>2, <2>1, <2>3, <2>4 DEF Return, PhaseType
<1>3. ASSUME NEW e \in Exceptions, RecvFails(m, e), Handle(e),
             Return(t, ErrorOf(e), NoAnswer)
      PROVE  TypeInv'
  <2>1. LinkTypeOK'
    BY <1>3, RecvFailsLeaves
  <2>2. NoAnswer \in Answers
    BY DEF Answers
  <2>3. CallInv'
    BY <1>1, <1>3, <2>2, ErrorOfType, ReturnKeeps
  <2>4. FlagsType'
    BY <1>1, <1>3, HandleType DEF FlagsType
  <2>5. QED
    BY <1>3, <2>1, <2>3, <2>4 DEF Return, PhaseType
<1>4. QED
  BY <1>2, <1>3 DEF Answered, m

-----------------------------------------------------------------------------
(* Authenticate, up to its first attempt. *)
LEMMA AuthenticateKeepsTypes ==
  ASSUME TypeInv, NEW t \in Threads, Authenticate(t)
  PROVE  TypeInv'
<1> USE DEF TypeInv
<1>1. Locks(t, "Authenticate")
  BY DEF Authenticate
<1>2. CASE EnsureConnected(t)
  BY <1>1, <1>2, RefuseKeepsTypes DEF EnsureConnected, Errors
<1>3. CASE /\ m_lastError' = "auth_limit" /\ m_isAuthenticated' = FALSE
           /\ ReturnAtOnce(t, "auth_limit")
           /\ UNCHANGED <<m_isConnected, m_client, linkVars>>
  <2>1. CallInv'
    BY <1>1, <1>3, ReturnAtOnceKeeps DEF Outcomes, Errors
  <2>2. QED
    BY <1>3, <2>1, LinkUnchanged DEF FlagsType, PhaseType, ReturnAtOnce, Errors
<1>4. CASE /\ MaxRetries > 0 /\ HoldAt(t, "send") /\ retry' = 1
           /\ KeepFlags /\ UNCHANGED <<m_client, linkVars>>
  <2>1. retry' \in 0 .. MaxRetries /\ "send" \in Holding \ {"sleep"}
    BY <1>4, MaxRetriesAssumption DEF Holding
  <2>2. CallInv'
    BY <1>1, <1>4, <2>1, HoldAtKeeps
  <2>3. FlagsType'
    BY <1>4, KeepFlagsType DEF FlagsType
  <2>4. QED
    BY <1>4, <2>2, <2>3, LinkUnchanged DEF PhaseType, HoldAt
<1>5. QED
  BY <1>2, <1>3, <1>4 DEF Authenticate

LEMMA AttemptFailedKeepsTypes ==
  ASSUME TypeInv, LinkTypeOK', NEW t \in Threads, pc[t] \in {"send", "recv"},
         op[t] = "Authenticate", AttemptFailed(t), UNCHANGED m_client
  PROVE  TypeInv'
<1> USE DEF TypeInv
<1>1. pc[t] \in Holding /\ retry \in 1 .. MaxRetries /\ MaxRetries \in Nat
  BY MaxRetriesAssumption DEF CallInv, CallsType, Places, Place, Holding
<1>2. CASE /\ retry < MaxRetries
           /\ pc' = [pc EXCEPT ![t] = "sleep"]
           /\ KeepFlags /\ UNCHANGED <<m_mutex, op, retry, phase, calls>>
  <2>1. CallInv'
    BY <1>1, <1>2, MoveKeeps
  <2>2. QED
    BY <1>2, <2>1 DEF KeepFlags, FlagsType, PhaseType
<1>3. CASE /\ m_isAuthenticated' = FALSE /\ UNCHANGED m_isConnected
           /\ m_lastError' = "auth_exception"
           /\ Return(t, "auth_exception", NoAnswer)
  <2>1. CallInv'
    BY <1>1, <1>3, ReturnKeeps DEF Outcomes, Errors, Answers
  <2>2. QED
    BY <1>3, <2>1 DEF FlagsType, PhaseType, Return, Errors
<1>4. QED
  BY <1>2, <1>3 DEF AttemptFailed

(* One attempt: the request, the answer, the reopening before the next. *)
LEMMA AuthSendKeepsTypes ==
  ASSUME TypeInv, NEW t \in Threads, AuthSend(t)
  PROVE  TypeInv'
<1> USE DEF TypeInv
<1>1. /\ pc[t] \in {"send", "recv"} /\ pc[t] \in Holding
      /\ op[t] = "Authenticate" /\ UNCHANGED m_client
  BY DEF AuthSend, Holding
<1>2. retry \in 1 .. MaxRetries /\ retry \in Attempts
  BY <1>1, MaxRetriesAssumption
     DEF AuthSend, CallInv, CallsType, Places, Place, Attempts
<1>3. CASE /\ SendOk("Auth", Id, retry)
           /\ pc' = [pc EXCEPT ![t] = "recv"]
           /\ KeepFlags /\ UNCHANGED <<m_mutex, op, retry, phase, calls>>
  <2>1. LinkTypeOK'
    BY <1>1, <1>2, <1>3, HolderHasCall, SendOkType DEF Methods
  <2>2. CallInv'
    BY <1>1, <1>2, <1>3, MoveKeeps
  <2>3. QED
    BY <1>1, <1>3, <2>1, <2>2 DEF KeepFlags, FlagsType, PhaseType
<1>4. ASSUME NEW e, SendFails("Auth", e), AttemptFailed(t)
      PROVE  TypeInv'
  BY <1>1, <1>4, SendFailsType, AttemptFailedKeepsTypes
<1>5. QED
  BY <1>3, <1>4 DEF AuthSend

LEMMA AuthAnsweredKeepsTypes ==
  ASSUME TypeInv, NEW t \in Threads, AuthAnswered(t)
  PROVE  TypeInv'
<1> USE DEF TypeInv
<1>1. /\ pc[t] \in {"send", "recv"} /\ pc[t] \in Holding
      /\ op[t] = "Authenticate" /\ UNCHANGED m_client
  BY DEF AuthAnswered, Holding
<1>2. ASSUME NEW a, RecvOk("Auth", a), m_isAuthenticated' = (a.body = "ok"),
             UNCHANGED m_isConnected,
             m_lastError' = IF a.body = "ok" THEN m_lastError ELSE "server",
             Return(t, AckVerdict(a.body), Key(a))
      PROVE  TypeInv'
  <2>1. LinkTypeOK' /\ a \in Replies
    BY <1>2, RecvOkLeaves
  <2>2. AckVerdict(a.body) \in Outcomes \ {"running"} /\ Key(a) \in Answers
    BY <2>1, ReplyKey DEF AckVerdict, Outcomes, Errors
  <2>3. CallInv'
    BY <1>1, <1>2, <2>2, ReturnKeeps
  <2>4. m_isAuthenticated' \in BOOLEAN
    BY <1>2, Zenon
  <2>5. m_lastError' \in Errors \cup {"none"}
    BY <1>2 DEF FlagsType, Errors
  <2>6. FlagsType'
    BY <1>1, <1>2, <2>4, <2>5 DEF FlagsType
  <2>7. QED
    BY <1>2, <2>1, <2>3, <2>6 DEF Return, PhaseType
<1>3. ASSUME NEW e, RecvFails("Auth", e), AttemptFailed(t)
      PROVE  TypeInv'
  BY <1>1, <1>3, RecvFailsLeaves, AttemptFailedKeepsTypes
<1>4. ASSUME NEW e \in Exceptions, RecvFails("Auth", e),
             m_lastError' = ErrorOf(e), m_isAuthenticated' = FALSE,
             UNCHANGED m_isConnected, Return(t, ErrorOf(e), NoAnswer)
      PROVE  TypeInv'
  <2>1. LinkTypeOK' /\ NoAnswer \in Answers
    BY <1>4, RecvFailsLeaves DEF Answers
  <2>2. CallInv'
    BY <1>1, <1>4, <2>1, ErrorOfType, ReturnKeeps
  <2>3. FlagsType'
    BY <1>1, <1>4, ErrorOfType DEF FlagsType
  <2>4. QED
    BY <1>4, <2>1, <2>2, <2>3 DEF Return, PhaseType
<1>5. QED
  BY <1>2, <1>3, <1>4 DEF AuthAnswered

LEMMA AuthRetryKeepsTypes ==
  ASSUME TypeInv, NEW t \in Threads, AuthRetry(t)
  PROVE  TypeInv'
<1> USE DEF TypeInv
<1>1. /\ pc[t] \in Holding /\ op[t] = "Authenticate"
      /\ retry' \in 1 .. MaxRetries
  BY MaxRetriesAssumption
     DEF AuthRetry, CallInv, CallsType, Places, Place, Holding
<1>2. CallInv'
  BY <1>1, MoveKeeps DEF AuthRetry
<1>3. PICK e : ReopenSame(e) /\ m_isConnected' = (m_isConnected /\ e = "none")
  BY DEF AuthRetry
<1>4. LinkTypeOK'
  BY <1>3, ReopenSameType
<1>5. m_isConnected' \in BOOLEAN
  BY <1>3, Zenon
<1>6. FlagsType'
  BY <1>5 DEF FlagsType, AuthRetry
<1>7. QED
  BY <1>2, <1>4, <1>6 DEF AuthRetry, PhaseType

-----------------------------------------------------------------------------
(* Invocations, the factory, the destructor and the network. *)
LEMMA CallKeepsTypes ==
  ASSUME TypeInv, NEW t \in Threads, NEW o \in Ops, Call(t, o), PhaseType'
  PROVE  TypeInv'
BY CallKeeps, LinkUnchanged DEF TypeInv, Call, FlagsType

LEMMA LifeKeepsTypes ==
  ASSUME TypeInv, CreateGoOn \/ CreateReturn \/ Destroy
  PROVE  TypeInv'
<1>1. CASE CreateGoOn /\ phase' = "authenticate" /\ Call(Creator, "Authenticate")
  BY <1>1, CallKeepsTypes, ThreadsAssumption DEF PhaseType, Ops
<1>2. CASE /\ phase' = "shared"
           /\ UNCHANGED <<m_mutex, pc, op, retry, m_isConnected,
                          m_isAuthenticated, m_lastError, m_client, calls,
                          linkVars>>
  BY <1>2, CallInvUnchanged, LinkUnchanged
     DEF TypeInv, callVars, FlagsType, PhaseType
<1>3. CASE Destroy
  <2>1. CallInv'
    BY <1>3, CallInvUnchanged DEF TypeInv, callVars, Destroy
  <2>2. LinkTypeOK'
    BY <1>3 DEF TypeInv, Destroy, LinkTypeOK
  <2>3. QED
    BY <1>3, <2>1, <2>2 DEF TypeInv, Destroy, FlagsType, PhaseType
<1>4. QED
  BY <1>1, <1>2, <1>3 DEF CreateGoOn, CreateReturn

LEMMA NetKeepsTypes ==
  ASSUME TypeInv, Net
  PROVE  TypeInv'
<1>1. LinkTypeOK'
  BY NetNextType DEF TypeInv, Net
<1>2. CallInv'
  BY CallInvUnchanged DEF TypeInv, Net, callVars, clientVars
<1>3. QED
  BY <1>1, <1>2 DEF TypeInv, Net, clientVars, FlagsType, PhaseType

LEMMA StutterKeepsTypes ==
  ASSUME TypeInv, UNCHANGED vars
  PROVE  TypeInv'
BY CallInvUnchanged, LinkUnchanged
   DEF TypeInv, vars, clientVars, callVars, FlagsType, PhaseType

LEMMA RunsKeepsTypes ==
  ASSUME TypeInv, NEW t \in Threads, Runs(t)
  PROVE  TypeInv'
<1>1. CASE Connect(t)
  BY <1>1, ConnectingKeepsTypes DEF Connect
<1>2. CASE Reconnect(t)
  BY <1>2, ConnectingKeepsTypes DEF Reconnect
<1>3. CASE UploadFile(t)
  BY <1>3, FileOperationKeepsTypes DEF UploadFile, FileOps
<1>4. CASE DownloadFile(t)
  BY <1>4, FileOperationKeepsTypes DEF DownloadFile, FileOps
<1>5. CASE DeleteFile(t)
  BY <1>5, FileOperationKeepsTypes DEF DeleteFile, FileOps
<1>6. CASE RenameFile(t)
  BY <1>6, FileOperationKeepsTypes DEF RenameFile, FileOps
<1>7. CASE ListDirectory(t)
  BY <1>7, FileOperationKeepsTypes DEF ListDirectory, FileOps
<1>8. QED
  BY <1>1, <1>2, <1>3, <1>4, <1>5, <1>6, <1>7, DisconnectKeepsTypes,
     GetterKeepsTypes, PingKeepsTypes, AnsweredKeepsTypes,
     AuthenticateKeepsTypes, AuthSendKeepsTypes, AuthAnsweredKeepsTypes,
     AuthRetryKeepsTypes DEF Runs

LEMMA TypeInvNext == TypeInv /\ [Next]_vars => TypeInv'
<1> SUFFICES ASSUME TypeInv, [Next]_vars PROVE TypeInv'
  OBVIOUS
<1>1. ASSUME NEW t \in Threads, NEW o \in Ops, UserCall(t, o) PROVE TypeInv'
  BY <1>1, CallKeepsTypes DEF UserCall, TypeInv, PhaseType
<1>2. ASSUME NEW t \in Threads, Runs(t) PROVE TypeInv'
  BY <1>2, RunsKeepsTypes
<1>3. CASE CreateGoOn \/ CreateReturn \/ Destroy
  BY <1>3, LifeKeepsTypes
<1>4. CASE Net
  BY <1>4, NetKeepsTypes
<1>5. CASE UNCHANGED vars
  BY <1>5, StutterKeepsTypes
<1>6. QED
  BY <1>1, <1>2, <1>3, <1>4, <1>5 DEF Next, Terminated

(* Whatever the server and the network do, the client's variables keep     *)
(* their types, the mutex is held exactly by the thread inside a blocking  *)
(* method, and the running call is the last one in the list: WfsClientImpl *)
(* with any threads, calls and retries.                                    *)
THEOREM TypeCorrect == Spec => []TypeInv
<1>1. QED
  BY TypeInvInit, TypeInvNext, PTL DEF Spec

THEOREM TypesHold == Spec => []TypeOK
<1>1. QED
  BY TypeCorrect, TypeInvImpliesTypeOK, PTL
=============================================================================
