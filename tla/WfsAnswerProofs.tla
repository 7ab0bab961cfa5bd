-------------------------- MODULE WfsAnswerProofs --------------------------
(***************************************************************************)
(* Requests and answers: AtMostOnce, AnswersOnce and OwnAnswer, for every  *)
(* MaxRetries, and with the first two the refinement of WfsCalls           *)
(* (KeepsPromise).                                                         *)
(*                                                                         *)
(* Every key on the wire or executed was issued, by a call that was not    *)
(* refused, and an attempt that is about to be sent has a key that is not  *)
(* yet there: that is what makes a request's key unique.  Every reply in   *)
(* the stream has the key of an executed request of its method that no     *)
(* other reply has and no call has been given.  A clean connection holds   *)
(* at most one message, of the running call.                               *)
(***************************************************************************)
EXTENDS WfsFlagProofs

Refusals == {"not_connected", "not_authenticated"}
Inside == {"send", "recv", "sleep"}

Issued(k) ==
  /\ k[1] \in 1 .. Len(calls) /\ k[2] \in Nat
  /\ calls[k[1]].res \notin Refusals
  /\ k[2] # 0 => calls[k[1]].op = "Authenticate"
(* The keys of the running call are those of its attempts up to now. *)
Past(k) ==
  \A t \in Threads : pc[t] \in Inside /\ k[1] = Id =>
    k[2] <= retry /\ (pc[t] = "send" => k[2] < retry)
KeyOK(k) == Issued(k) /\ Past(k)
MethodOfCall(i) ==
  IF calls[i].op \in DOMAIN MethodOf THEN MethodOf[calls[i].op] ELSE "none"

WireInv ==
  /\ \A r \in wire : KeyOK(Key(r)) /\ MethodOfCall(r.id) = r.method
  /\ \A k \in executed : KeyOK(k)
  /\ \A r \in wire : Key(r) \notin executed
  /\ \A r, q \in wire : Key(r) = Key(q) => r = q

(* Calls are appended and change their result, never to a refusal. *)
Grows ==
  /\ Len(calls) \in Nat /\ Len(calls') \in Nat /\ Len(calls) <= Len(calls')
  /\ \A i \in 1 .. Len(calls) :
       /\ calls'[i].op = calls[i].op
       /\ calls[i].res \notin Refusals => calls'[i].res \notin Refusals

-----------------------------------------------------------------------------
(* What the ways of returning and holding do to the list of calls. *)
LEMMA CallsOfReturnAtOnce ==
  ASSUME TypeInv, NEW t \in Threads, NEW o, Locks(t, o),
         NEW r \in Outcomes \ {"running"}, ReturnAtOnce(t, r)
  PROVE  /\ Grows /\ Len(calls') = Len(calls) + 1
         /\ \A i \in 1 .. Len(calls) : calls'[i] = calls[i]
         /\ calls'[Len(calls')].ans = NoAnswer
<1> DEFINE c == Entry(op[t], r, NoAnswer)
<1>1. c \in CallRecords /\ c.ans = NoAnswer
  BY NextCallHasRoom, EntryType DEF TypeInv, Locks, Answers
<1>2. calls \in Seq(CallRecords) /\ calls' = Append(calls, c)
  BY DEF TypeInv, CallInv, CallsType, ReturnAtOnce
<1> HIDE DEF c
<1>3. /\ Len(calls) \in Nat /\ Len(calls') = Len(calls) + 1
      /\ \A i \in 1 .. Len(calls) : calls'[i] = calls[i]
      /\ calls'[Len(calls')] = c
  BY <1>1, <1>2, CallAppended
<1>4. Grows
  BY <1>3 DEF Grows
<1>5. QED
  BY <1>1, <1>3, <1>4

LEMMA CallsOfHoldAt ==
  ASSUME TypeInv, NEW t \in Threads, NEW o, Locks(t, o), NEW p, HoldAt(t, p)
  PROVE  /\ Grows /\ Len(calls') = Len(calls) + 1
         /\ \A i \in 1 .. Len(calls) : calls'[i] = calls[i]
         /\ calls'[Len(calls')].ans = NoAnswer
         /\ calls'[Len(calls')].op = o /\ calls'[Len(calls')].res = "running"
<1> DEFINE c == Entry(op[t], "running", NoAnswer)
<1>1. "running" \in Outcomes
  BY DEF Outcomes
<1>2. c \in CallRecords /\ c.ans = NoAnswer /\ c.op = o /\ c.res = "running"
  BY <1>1, NextCallHasRoom, EntryType DEF TypeInv, Locks, Answers
<1>3. calls \in Seq(CallRecords) /\ calls' = Append(calls, c)
  BY DEF TypeInv, CallInv, CallsType, HoldAt
<1> HIDE DEF c
<1>4. /\ Len(calls) \in Nat /\ Len(calls') = Len(calls) + 1
      /\ \A i \in 1 .. Len(calls) : calls'[i] = calls[i]
      /\ calls'[Len(calls')] = c
  BY <1>2, <1>3, CallAppended
<1>5. Grows
  BY <1>4 DEF Grows
<1>6. QED
  BY <1>2, <1>4, <1>5

LEMMA CallsOfReturn ==
  ASSUME TypeInv, NEW t \in Threads, pc[t] \in Holding,
         NEW r \in Outcomes \ Refusals, NEW a \in Answers, Return(t, r, a)
  PROVE  /\ Grows /\ Len(calls') = Len(calls) /\ Len(calls) \in 1 .. Len(calls)
         /\ \A i \in 1 .. Len(calls) : i # Len(calls) => calls'[i] = calls[i]
         /\ calls'[Len(calls)].ans = a
         /\ calls[Len(calls)].op = op[t]
<1> DEFINE c == Entry(op[t], r, a)
<1>1. /\ op[t] \in Ops /\ calls # <<>> /\ calls \in Seq(CallRecords)
      /\ calls[Len(calls)].op = op[t]
  BY HolderHasCall DEF TypeInv, CallInv, CallsType, Id
<1>2. c \in CallRecords /\ c.ans = a /\ c.res = r /\ c.op = op[t]
  BY <1>1, EntryType
<1>3. calls' = [calls EXCEPT ![Id] = c]
  BY DEF Return
<1> HIDE DEF c
<1>4. /\ Len(calls) \in Nat \ {0} /\ Len(calls') = Len(calls)
      /\ \A i \in 1 .. Len(calls) : i # Len(calls) => calls'[i] = calls[i]
      /\ calls'[Len(calls)] = c
  BY <1>1, <1>2, <1>3, LastCallReplaced
<1>5. Grows
  BY <1>1, <1>2, <1>4 DEF Grows
<1>6. QED
  BY <1>1, <1>2, <1>4, <1>5

LEMMA SameCallsGrow ==
  ASSUME TypeInv, calls' = calls
  PROVE  Grows
BY LenProperties DEF TypeInv, CallInv, CallsType, Grows

-----------------------------------------------------------------------------
(* A key that was issued stays so. *)
LEMMA IssuedStays ==
  ASSUME Grows, NEW k, Issued(k)
  PROVE  Issued(k)'
BY DEF Grows, Issued

(* It stays past when nobody is inside, when the running call is a new     *)
(* one, and when an attempt follows another.                               *)
LEMMA PastFree ==
  ASSUME \A t \in Threads : pc'[t] \notin Inside, NEW k
  PROVE  Past(k)'
BY DEF Past

LEMMA PastNewCall ==
  ASSUME Grows, Len(calls') = Len(calls) + 1, NEW k, Issued(k)
  PROVE  Past(k)'
BY DEF Past, Issued, Grows, Id

(* Requests leave the wire only; keys and calls stay. *)
LEMMA WireKept ==
  ASSUME TypeInv, WireInv, Grows, wire' \subseteq wire, executed' = executed,
         \A k : KeyOK(k) => Past(k)'
  PROVE  WireInv'
<1>1. \A k : KeyOK(k) => KeyOK(k)'
  BY IssuedStays DEF KeyOK
<1>2. \A r \in wire : r.id \in 1 .. Len(calls)
  BY DEF WireInv, KeyOK, Issued, Key
<1>3. \A r \in wire : MethodOfCall(r.id)' = r.method
  BY <1>2 DEF WireInv, Grows, MethodOfCall
<1>4. \A r \in wire' : KeyOK(Key(r))' /\ MethodOfCall(r.id)' = r.method
  BY <1>1, <1>3 DEF WireInv
<1>5. \A k \in executed' : KeyOK(k)'
  BY <1>1 DEF WireInv
<1>6. QED
  BY <1>4, <1>5 DEF WireInv

LEMMA WireUntouched ==
  ASSUME TypeInv, WireInv, UNCHANGED <<wire, executed, calls, retry>>,
         \A t \in Threads : pc'[t] \in Inside => pc'[t] = pc[t]
  PROVE  WireInv'
<1>1. \A k : KeyOK(k) => Past(k)'
  BY DEF KeyOK, Past, Id
<1>2. QED
  BY <1>1, SameCallsGrow, WireKept

(* A request with a new key enters the wire. *)
LEMMA WireSent ==
  ASSUME TypeInv, WireInv, Grows, NEW m, NEW id, NEW try,
         SendOk(m, id, try),
         \A k : KeyOK(k) => Past(k)' /\ k # <<id, try>>,
         KeyOK(<<id, try>>)', MethodOfCall(id)' = m
  PROVE  WireInv'
<1> DEFINE new == [gen |-> gen, id |-> id, try |-> try, method |-> m]
<1>1. wire' \subseteq wire \cup {new} /\ executed' = executed
  BY DEF SendOk
<1>2. Key(new) = <<id, try>> /\ new.id = id /\ new.method = m
  BY DEF Key
<1> HIDE DEF new
<1>3. \A k : KeyOK(k) => KeyOK(k)'
  BY IssuedStays DEF KeyOK
<1>4. \A r \in wire : MethodOfCall(r.id)' = r.method
  <2>1. \A r \in wire : r.id \in 1 .. Len(calls)
    BY DEF WireInv, KeyOK, Issued, Key
  <2>2. QED
    BY <2>1 DEF WireInv, Grows, MethodOfCall
<1>5. \A r \in wire' : KeyOK(Key(r))' /\ MethodOfCall(r.id)' = r.method
  BY <1>1, <1>2, <1>3, <1>4 DEF WireInv
<1>6. \A k \in executed' : KeyOK(k)'
  BY <1>1, <1>3 DEF WireInv
<1>7. \A r \in wire : KeyOK(Key(r)) /\ Key(r) # Key(new)
  BY <1>2 DEF WireInv
<1>8. Key(new) \notin executed
  BY <1>2 DEF WireInv
<1>9. \A r \in wire' : Key(r) \notin executed'
  BY <1>1, <1>8 DEF WireInv
<1>10. \A r, q \in wire' : Key(r) = Key(q) => r = q
  BY <1>1, <1>7 DEF WireInv
<1>11. QED
  BY <1>5, <1>6, <1>9, <1>10 DEF WireInv

-----------------------------------------------------------------------------
(* The ways a step goes on that does not send. *)
LEMMA WireReturnAtOnce ==
  ASSUME TypeInv, WireInv, NEW t \in Threads, NEW o, Locks(t, o),
         NEW r \in Outcomes \ {"running"}, ReturnAtOnce(t, r),
         UNCHANGED <<wire, executed>>
  PROVE  WireInv'
<1>1. m_mutex = NoThread /\ "idle" \notin Inside
  BY DEF Locks, Inside
<1>2. \A u \in Threads : pc'[u] \notin Inside
  BY <1>1, FreeNobodyInside, PcOfReturnAtOnce DEF Inside
<1>3. Grows
  BY CallsOfReturnAtOnce
<1>4. \A k : KeyOK(k) => Past(k)'
  BY <1>2, PastFree
<1>5. QED
  BY <1>3, <1>4, WireKept

LEMMA WireHoldAt ==
  ASSUME TypeInv, WireInv, NEW t \in Threads, NEW o, Locks(t, o),
         NEW p, HoldAt(t, p), UNCHANGED <<wire, executed>>
  PROVE  WireInv'
<1>1. Grows /\ Len(calls') = Len(calls) + 1
  BY CallsOfHoldAt
<1>2. \A k : KeyOK(k) => Past(k)'
  BY <1>1, PastNewCall DEF KeyOK
<1>3. QED
  BY <1>1, <1>2, WireKept

LEMMA WireReturn ==
  ASSUME TypeInv, WireInv, NEW t \in Threads, pc[t] \in Inside,
         NEW r \in Outcomes \ Refusals, NEW a \in Answers, Return(t, r, a),
         UNCHANGED <<wire, executed>>
  PROVE  WireInv'
<1>1. pc[t] \in Holding /\ pc[t] \in {"send", "recv", "sleep", "stuck"}
  BY DEF Inside, Holding
<1>2. \A u \in Threads : pc'[u] \notin Inside
  BY <1>1, InsideIsHolder, PcOfReturn DEF Inside
<1>3. Grows
  BY <1>1, CallsOfReturn
<1>4. \A k : KeyOK(k) => Past(k)'
  BY <1>2, PastFree
<1>5. QED
  BY <1>3, <1>4, WireKept

(* What each part of the client does to the wire. *)
LEMMA ErrorIsOutcome ==
  ASSUME NEW e \in Exceptions
  PROVE  ErrorOf(e) \in Outcomes \ (Refusals \cup {"running"})
BY DEF Exceptions, TransportExceptions, ErrorOf, Outcomes, Errors, Refusals

LEMMA OutcomesOf ==
  /\ {"ok", "system_error", "not_connected", "not_authenticated",
      "auth_limit"} \subseteq Outcomes \ {"running"}
  /\ "auth_exception" \in Outcomes \ Refusals
BY DEF Outcomes, Errors, Refusals

LEMMA WireConnecting ==
  ASSUME TypeInv, WireInv, NEW t \in Threads, NEW o, Locks(t, o),
         RelockDeadlock(t) \/ RelockThrows(t)
           \/ (~m_isConnected /\ ConnectInternal(t))
  PROVE  WireInv'
<1>1. CASE RelockDeadlock(t)
  BY <1>1, WireHoldAt DEF RelockDeadlock, linkVars
<1>2. CASE RelockThrows(t)
  BY <1>2, OutcomesOf, WireReturnAtOnce DEF RelockThrows, linkVars
<1>3. CASE ConnectInternal(t)
  <2>1. UNCHANGED <<wire, executed>>
    BY <1>3 DEF ConnectInternal, OpenFresh
  <2>2. \E r \in Outcomes \ {"running"} : ReturnAtOnce(t, r)
    BY <1>3, OutcomesOf, ErrorIsOutcome DEF ConnectInternal
  <2>3. QED
    BY <2>1, <2>2, WireReturnAtOnce
<1>4. QED
  BY <1>1, <1>2, <1>3

LEMMA WireLocal ==
  ASSUME TypeInv, WireInv, NEW t \in Threads, Disconnect(t) \/ Getter(t)
  PROVE  WireInv'
<1>1. UNCHANGED <<wire, executed>>
  BY DEF Disconnect, CloseAndReset, CloseTransport, Getter, linkVars
<1>2. (\E o : Locks(t, o)) /\ ReturnAtOnce(t, "ok")
  BY DEF Disconnect, Getter
<1>3. QED
  BY <1>1, <1>2, OutcomesOf, WireReturnAtOnce

LEMMA WireRefuse ==
  ASSUME TypeInv, WireInv, NEW t \in Threads, NEW o, Locks(t, o),
         EnsureConnected(t) \/ EnsureAuthenticated(t)
  PROVE  WireInv'
<1>1. \E r \in Outcomes \ {"running"} :
        ReturnAtOnce(t, r) /\ UNCHANGED linkVars
  BY OutcomesOf DEF EnsureConnected, EnsureAuthenticated, Refuse
<1>2. QED
  BY <1>1, WireReturnAtOnce DEF linkVars

LEMMA WireSendRequest ==
  ASSUME TypeInv, WireInv, NEW t \in Threads, NEW o \in DOMAIN MethodOf,
         Locks(t, o), SendRequest(t, MethodOf[o])
  PROVE  WireInv'
<1>1. CASE SendOk(MethodOf[o], Id + 1, retry) /\ HoldAt(t, "recv")
           /\ retry' = retry
  <2>1. PICK id, try : id = Id + 1 /\ try = retry
    OBVIOUS
  <2>2. SendOk(MethodOf[o], id, try)
    BY <1>1, <2>1
  <2>3. /\ Grows /\ Len(calls') = id /\ id \in 1 .. Len(calls')
        /\ calls'[id].op = o /\ calls'[id].res = "running"
    BY <1>1, <2>1, CallsOfHoldAt DEF Grows, Id
  <2>4. try = 0 /\ retry' = 0 /\ \A u \in Threads : pc[u] \notin Inside
    BY <1>1, <2>1, FreeNoRetry DEF Locks, TypeInv, Inside, Holding
  <2>5. \A k : KeyOK(k) => Past(k)' /\ k # <<id, try>>
    <3>1. id \notin 1 .. Len(calls) /\ Len(calls') = Len(calls) + 1
      BY <2>1, <2>3 DEF Grows, Id
    <3>2. \A k : Issued(k) => k[1] \in 1 .. Len(calls)
      BY DEF Issued
    <3>3. QED
      BY <2>3, <3>1, <3>2, PastNewCall DEF KeyOK
  <2>6. KeyOK(<<id, try>>)'
    <3>1. Issued(<<id, try>>)'
      BY <2>3, <2>4 DEF Issued, Refusals
    <3>2. pc'[t] = "recv" /\ \A u \in Threads : u # t => pc'[u] \notin Inside
      BY <1>1, <2>4, PcOfHoldAt
    <3>3. Past(<<id, try>>)'
      BY <2>4, <3>2 DEF Past
    <3>4. QED
      BY <3>1, <3>3 DEF KeyOK
  <2>7. MethodOfCall(id)' = MethodOf[o]
    BY <2>3 DEF MethodOfCall
  <2>8. PICK m : m = MethodOf[o]
    OBVIOUS
  <2>9. QED
    BY <2>2, <2>3, <2>5, <2>6, <2>7, <2>8, WireSent
<1>2. ASSUME NEW e \in TransportExceptions, SendFails(MethodOf[o], e),
             ReturnAtOnce(t, ErrorOf(e))
      PROVE  WireInv'
  <2>1. UNCHANGED <<wire, executed>>
    BY <1>2 DEF SendFails
  <2>2. ErrorOf(e) \in Outcomes \ {"running"}
    BY <1>2, ErrorIsOutcome DEF Exceptions
  <2>3. QED
    BY <1>2, <2>1, <2>2, WireReturnAtOnce
<1>3. QED
  BY <1>1, <1>2 DEF SendRequest

LEMMA VerdictNoRefusal ==
  ASSUME NEW m \in Methods, NEW b \in Bodies(m), b # "exc"
  PROVE  Verdict(m, b) \in Outcomes \ Refusals
BY DEF Methods, FileMethods, Bodies, Verdict, AckVerdict, DataVerdict,
       ListVerdict, Outcomes, Errors, Refusals

LEMMA ReplyVerdict ==
  ASSUME TypeInv, NEW m, NEW a, RecvOk(m, a)
  PROVE  Verdict(m, a.body) \in Outcomes \ Refusals /\ Key(a) \in Answers
<1>1. a \in Replies /\ a.method = m /\ a.body # "exc"
  BY RecvOkLeaves DEF TypeInv
<1>2. m \in Methods /\ a.body \in Bodies(m)
  BY <1>1 DEF Replies
<1>3. QED
  BY <1>1, <1>2, VerdictNoRefusal, ReplyKey

LEMMA WireAnswered ==
  ASSUME TypeInv, WireInv, NEW t \in Threads, Answered(t)
  PROVE  WireInv'
<1>1. pc[t] \in Inside
  BY DEF Answered, Inside
<1>2. UNCHANGED <<wire, executed>>
  BY DEF Answered, RecvOk, RecvFails
<1>3. \E r \in Outcomes \ Refusals, a \in Answers : Return(t, r, a)
  BY ReplyVerdict, ErrorIsOutcome DEF Answered, Answers
<1>4. QED
  BY <1>1, <1>2, <1>3, WireReturn

LEMMA WireAuthenticate ==
  ASSUME TypeInv, WireInv, NEW t \in Threads, Authenticate(t)
  PROVE  WireInv'
<1>1. Locks(t, "Authenticate")
  BY DEF Authenticate
<1>2. CASE EnsureConnected(t)
  BY <1>1, <1>2, WireRefuse
<1>3. CASE ReturnAtOnce(t, "auth_limit") /\ UNCHANGED linkVars
  BY <1>1, <1>3, OutcomesOf, WireReturnAtOnce DEF linkVars
<1>4. CASE HoldAt(t, "send") /\ UNCHANGED linkVars
  BY <1>1, <1>4, WireHoldAt DEF linkVars
<1>5. QED
  BY <1>2, <1>3, <1>4 DEF Authenticate

LEMMA WireAttemptFailed ==
  ASSUME TypeInv, WireInv, NEW t \in Threads, pc[t] \in Inside,
         AttemptFailed(t), UNCHANGED <<wire, executed>>
  PROVE  WireInv'
<1>1. CASE pc' = [pc EXCEPT ![t] = "sleep"] /\ UNCHANGED <<retry, calls>>
  <2>1. /\ pc'[t] = "sleep" /\ \A u \in Threads : u # t => pc'[u] = pc[u]
    BY <1>1 DEF TypeInv, CallInv, CallsType
  <2>2. \A k : KeyOK(k) => Past(k)'
    BY <1>1, <2>1 DEF KeyOK, Past, Id
  <2>3. QED
    BY <1>1, <2>2, SameCallsGrow, WireKept
<1>2. CASE Return(t, "auth_exception", NoAnswer)
  BY <1>2, OutcomesOf, WireReturn DEF Answers
<1>3. QED
  BY <1>1, <1>2 DEF AttemptFailed

(* An attempt is sent: its number is in no key before. *)
LEMMA WireAuthSend ==
  ASSUME TypeInv, WireInv, NEW t \in Threads, AuthSend(t)
  PROVE  WireInv'
<1>1. pc[t] = "send" /\ pc[t] \in Holding /\ pc[t] \in Inside
  BY DEF AuthSend, Holding, Inside
<1>2. CASE /\ SendOk("Auth", Id, retry) /\ pc' = [pc EXCEPT ![t] = "recv"]
           /\ UNCHANGED <<op, retry, calls>>
  <2>1. PICK id, try : id = Id /\ try = retry
    OBVIOUS
  <2>2. SendOk("Auth", id, try)
    BY <1>2, <2>1
  <2>3. /\ op[t] = "Authenticate" /\ calls # <<>>
        /\ calls[id].op = "Authenticate" /\ calls[id].res = "running"
    BY <1>1, <2>1, HolderHasCall DEF TypeInv, AuthSend
  <2>4. retry \in Nat /\ Len(calls) \in Nat /\ id \in 1 .. Len(calls)
    BY <2>1, <2>3, MaxRetriesAssumption, LenProperties, EmptySeq
       DEF TypeInv, CallInv, CallsType, Id
  <2>5. /\ pc'[t] = "recv" /\ \A u \in Threads : u # t => pc'[u] = pc[u]
    BY <1>2 DEF TypeInv, CallInv, CallsType
  <2>6. \A k : KeyOK(k) => Past(k)' /\ k # <<id, try>>
    <3>1. ASSUME NEW k, KeyOK(k)
          PROVE  Past(k)' /\ k # <<id, try>>
      <4>1. k[1] = id => k[2] < retry
        BY <1>1, <2>1, <3>1 DEF KeyOK, Past
      <4>2. k # <<id, try>>
        BY <2>1, <2>4, <4>1
      <4>3. Past(k)'
        BY <1>2, <2>5, <3>1, <4>1, <1>1 DEF KeyOK, Past, Id
      <4>4. QED
        BY <4>2, <4>3
    <3>2. QED
      BY <3>1
  <2>7. KeyOK(<<id, try>>)'
    <3>1. Issued(<<id, try>>)'
      BY <1>2, <2>1, <2>3, <2>4 DEF Issued, Refusals
    <3>2. Past(<<id, try>>)'
      <4>1. \A u \in Threads : u # t => pc'[u] # "send"
        BY <1>1, <2>5, InsideIsHolder
      <4>2. QED
        BY <1>2, <2>1, <2>4, <2>5, <4>1 DEF Past
    <3>3. QED
      BY <3>1, <3>2 DEF KeyOK
  <2>8. MethodOfCall(id)' = "Auth"
    BY <1>2, <2>3 DEF MethodOfCall, MethodOf
  <2>9. QED
    BY <1>2, <2>2, <2>6, <2>7, <2>8, SameCallsGrow, WireSent
<1>3. ASSUME NEW e, SendFails("Auth", e), AttemptFailed(t)
      PROVE  WireInv'
  <2>1. UNCHANGED <<wire, executed>>
    BY <1>3 DEF SendFails
  <2>2. QED
    BY <1>1, <1>3, <2>1, WireAttemptFailed
<1>4. QED
  BY <1>2, <1>3 DEF AuthSend

LEMMA WireAuthAnswered ==
  ASSUME TypeInv, WireInv, NEW t \in Threads, AuthAnswered(t)
  PROVE  WireInv'
<1>1. pc[t] \in Inside
  BY DEF AuthAnswered, Inside
<1>2. UNCHANGED <<wire, executed>>
  BY DEF AuthAnswered, RecvOk, RecvFails
<1>3. \/ \E r \in Outcomes \ Refusals, a \in Answers : Return(t, r, a)
      \/ AttemptFailed(t)
  <2>1. ASSUME NEW a, RecvOk("Auth", a)
        PROVE  AckVerdict(a.body) \in Outcomes \ Refusals /\ Key(a) \in Answers
    BY <2>1, ReplyVerdict DEF AckVerdict, Outcomes, Errors, Refusals
  <2>2. QED
    BY <2>1, ErrorIsOutcome DEF AuthAnswered, Answers
<1>4. QED
  BY <1>1, <1>2, <1>3, WireReturn, WireAttemptFailed

LEMMA WireAuthRetry ==
  ASSUME TypeInv, WireInv, NEW t \in Threads, AuthRetry(t)
  PROVE  WireInv'
<1>1. pc[t] = "sleep" /\ pc[t] \in Inside
  BY DEF AuthRetry, Inside
<1>2. wire' = wire /\ executed' = executed
  BY DEF AuthRetry, ReopenSame
<1>3. retry \in Nat /\ retry' = retry + 1 /\ calls' = calls
  BY MaxRetriesAssumption DEF AuthRetry, TypeInv, CallInv, CallsType
<1>4. \A u \in Threads : u # t => pc'[u] \notin Inside
  <2>1. \A u \in Threads : u # t => pc'[u] = pc[u]
    BY DEF AuthRetry, TypeInv, CallInv, CallsType
  <2>2. QED
    BY <1>1, <2>1, InsideIsHolder DEF Inside
<1>5. ASSUME NEW k, KeyOK(k)
      PROVE  Past(k)'
  <2>1. k[2] \in Nat /\ (k[1] = Id => k[2] <= retry)
    BY <1>1, <1>5 DEF KeyOK, Past, Issued
  <2>2. k[1] = Id' => k[2] < retry'
    BY <1>3, <2>1 DEF Id
  <2>3. retry' \in Nat
    BY <1>3
  <2>4. QED
    BY <1>4, <2>1, <2>2, <2>3 DEF Past
<1>6. QED
  BY <1>2, <1>3, <1>5, SameCallsGrow, WireKept

LEMMA WireRuns ==
  ASSUME TypeInv, WireInv, NEW t \in Threads, Runs(t)
  PROVE  WireInv'
<1>1. ASSUME NEW o \in FileOps, FileOperation(t, o) PROVE WireInv'
  <2>1. o \in DOMAIN MethodOf
    BY <1>1 DEF FileOps, MethodOf
  <2>2. QED
    BY <1>1, <2>1, WireRefuse, WireSendRequest DEF FileOperation
<1>2. CASE Ping(t)
  <2>1. /\ Locks(t, "Ping") /\ MethodOf["Ping"] = "Ping"
        /\ "Ping" \in DOMAIN MethodOf
    BY <1>2 DEF Ping, MethodOf
  <2>2. QED
    BY <1>2, <2>1, WireRefuse, WireSendRequest DEF Ping
<1>3. CASE Connect(t)
  BY <1>3, WireConnecting DEF Connect
<1>4. CASE Reconnect(t)
  BY <1>4, WireConnecting DEF Reconnect
<1>5. CASE UploadFile(t)
  BY <1>5, <1>1 DEF FileOps, UploadFile
<1>6. CASE DownloadFile(t)
  BY <1>6, <1>1 DEF FileOps, DownloadFile
<1>7. CASE DeleteFile(t)
  BY <1>7, <1>1 DEF FileOps, DeleteFile
<1>8. CASE RenameFile(t)
  BY <1>8, <1>1 DEF FileOps, RenameFile
<1>9. CASE ListDirectory(t)
  BY <1>9, <1>1 DEF FileOps, ListDirectory
<1>10. QED
  BY <1>2, <1>3, <1>4, <1>5, <1>6, <1>7, <1>8, <1>9, WireLocal, WireAnswered,
     WireAuthenticate, WireAuthSend, WireAuthAnswered, WireAuthRetry DEF Runs

(* The server executes a request: its key changes sides. *)
LEMMA WireNet ==
  ASSUME TypeInv, WireInv, Net
  PROVE  WireInv'
<1>1. UNCHANGED <<pc, retry, calls>>
  BY DEF Net, clientVars
<1>2. CASE LinkDrop
  <2>1. UNCHANGED <<wire, executed>>
    BY <1>2 DEF LinkDrop
  <2>2. QED
    BY <1>1, <2>1, WireUntouched
<1>3. ASSUME NEW r \in wire, NEW b, Serve(r, b)
      PROVE  WireInv'
  <2>1. wire' = wire \ {r} /\ executed' = executed \cup {Key(r)}
    BY <1>3 DEF Serve
  <2>2. \A k : KeyOK(k)' <=> KeyOK(k)
    BY <1>1 DEF KeyOK, Issued, Past, Id
  <2>3. \A i : MethodOfCall(i)' = MethodOfCall(i)
    BY <1>1 DEF MethodOfCall
  <2>4. \A q \in wire' : KeyOK(Key(q))' /\ MethodOfCall(q.id)' = q.method
    BY <2>1, <2>2, <2>3 DEF WireInv
  <2>5. \A k \in executed' : KeyOK(k)'
    BY <2>1, <2>2 DEF WireInv
  <2>6. \A q \in wire' : Key(q) \notin executed'
    BY <2>1 DEF WireInv
  <2>7. \A q, p \in wire' : Key(q) = Key(p) => q = p
    BY <2>1 DEF WireInv
  <2>8. QED
    BY <2>4, <2>5, <2>6, <2>7 DEF WireInv
<1>4. QED
  BY <1>2, <1>3 DEF Net, NetNext

LEMMA WireInit == Init => WireInv
BY DEF Init, LinkInit, WireInv

LEMMA WireNext == TypeInv /\ WireInv /\ [Next]_vars => WireInv'
<1> SUFFICES ASSUME TypeInv, WireInv, [Next]_vars
             PROVE  WireInv'
  OBVIOUS
<1>1. ASSUME NEW t \in Threads, Runs(t) PROVE WireInv'
  BY <1>1, WireRuns
<1>2. ASSUME NEW t \in Threads, NEW o, Call(t, o) PROVE WireInv'
  BY <1>2, CallLeaves, WireUntouched DEF linkVars, Inside
<1>3. CASE Net
  BY <1>3, WireNet
<1>4. CASE UNCHANGED <<pc, retry, calls, wire, executed>>
  BY <1>4, WireUntouched
<1>5. Destroy \/ CreateReturn \/ UNCHANGED vars =>
        UNCHANGED <<pc, retry, calls, wire, executed>>
  BY DEF Destroy, CreateReturn, vars, clientVars, linkVars
<1>6. CreateGoOn => Call(Creator, "Authenticate") \/
        UNCHANGED <<pc, retry, calls, wire, executed>>
  BY DEF CreateGoOn, linkVars
<1>7. QED
  BY <1>1, <1>2, <1>3, <1>4, <1>5, <1>6, ThreadsAssumption
     DEF Next, UserCall, Terminated

(* A request is executed at most once for each time it was sent, and never *)
(* for a call that was turned down, through lost answers, retries,         *)
(* reconnections and late executions.                                      *)
THEOREM ExecutedAtMostOnce == Spec => []AtMostOnce
<1>1. WireInv => AtMostOnce
  BY DEF WireInv, KeyOK, Issued, Refusals, AtMostOnce
<1>2. QED
  BY <1>1, WireInit, WireNext, TypeCorrect, PTL DEF Spec

-----------------------------------------------------------------------------
(***************************************************************************)
(* AnswersOnce                                                             *)
(***************************************************************************)

(* A reply in the stream is the answer to an executed request of its       *)
(* method, the only one, and no call has been given it.                    *)
Fresh(a) ==
  /\ Key(a) \in executed /\ MethodOfCall(a.id) = a.method
  /\ \A j \in 1 .. Len(calls) : calls[j].ans # Key(a)

StreamInv ==
  /\ \A i \in 1 .. Len(inbox) : Fresh(inbox[i])
  /\ \A i, j \in 1 .. Len(inbox) : Key(inbox[i]) = Key(inbox[j]) => i = j
AnswerInv == StreamInv /\ AnswersOnce

(* Calls keep the answers they were given and get no new one. *)
NoNewAnswer ==
  \A j \in 1 .. Len(calls') :
    \/ calls'[j].ans = NoAnswer
    \/ j \in 1 .. Len(calls) /\ calls'[j].ans = calls[j].ans

(* What is left in the stream is a part of what was there. *)
Window ==
  \E n \in Nat :
    /\ n + Len(inbox') <= Len(inbox) /\ Len(inbox') \in Nat
    /\ \A i \in 1 .. Len(inbox') : inbox'[i] = inbox[i + n]

LEMMA ExecutedKeys ==
  ASSUME WireInv, NEW k \in executed
  PROVE  k[1] \in 1 .. Len(calls) /\ k # NoAnswer
BY DEF WireInv, KeyOK, Issued, NoAnswer

LEMMA MethodStays ==
  ASSUME Grows, NEW i \in 1 .. Len(calls)
  PROVE  MethodOfCall(i)' = MethodOfCall(i)
BY DEF Grows, MethodOfCall

(* A reply that stays in the stream while no call is given one. *)
LEMMA FreshStays ==
  ASSUME WireInv, Grows, NoNewAnswer, executed \subseteq executed', 
         NEW a, Fresh(a)
  PROVE  Fresh(a)'
<1>1. Key(a) \in executed' /\ Key(a) # NoAnswer
  BY ExecutedKeys DEF Fresh
<1>2. a.id \in 1 .. Len(calls)
  BY ExecutedKeys DEF Fresh, Key
<1>3. MethodOfCall(a.id)' = a.method
  BY <1>2, MethodStays DEF Fresh
<1>4. \A j \in 1 .. Len(calls') : calls'[j].ans # Key(a)
  BY <1>1 DEF Fresh, NoNewAnswer
<1>5. QED
  BY <1>1, <1>3, <1>4 DEF Fresh

LEMMA AnswersOnceStays ==
  ASSUME WireInv, AnswersOnce, Grows, NoNewAnswer, executed \subseteq executed'
  PROVE  AnswersOnce'
<1> SUFFICES ASSUME NEW i \in 1 .. Len(calls'), NEW j \in 1 .. Len(calls'),
                    calls'[i].ans # NoAnswer
             PROVE  /\ calls'[j].ans = calls'[i].ans => j = i
                    /\ calls'[i].ans \in executed'
                    /\ calls'[calls'[i].ans[1]].op = calls'[i].op
  BY DEF AnswersOnce
<1>1. i \in 1 .. Len(calls) /\ calls'[i].ans = calls[i].ans
  BY DEF NoNewAnswer
<1>2. calls[i].ans \in executed /\ calls[calls[i].ans[1]].op = calls[i].op
  BY <1>1 DEF AnswersOnce
<1>3. calls[i].ans[1] \in 1 .. Len(calls)
  BY <1>2, ExecutedKeys
<1>4. calls'[calls[i].ans[1]].op = calls'[i].op
  BY <1>1, <1>2, <1>3 DEF Grows
<1>5. calls'[j].ans = calls'[i].ans => j = i
  BY <1>1 DEF NoNewAnswer, AnswersOnce
<1>6. QED
  BY <1>1, <1>2, <1>4, <1>5

LEMMA AnswerKept ==
  ASSUME TypeInv, WireInv, AnswerInv, Grows, NoNewAnswer, Window,
         executed' = executed
  PROVE  AnswerInv'
<1>1. PICK n \in Nat :
        /\ n + Len(inbox') <= Len(inbox) /\ Len(inbox') \in Nat
        /\ \A i \in 1 .. Len(inbox') : inbox'[i] = inbox[i + n]
  BY DEF Window
<1>2. Len(inbox) \in Nat
  BY LenProperties DEF TypeInv, LinkTypeOK
<1>3. \A i \in 1 .. Len(inbox') : i + n \in 1 .. Len(inbox)
  BY <1>1, <1>2
<1>4. ASSUME NEW i \in 1 .. Len(inbox')
      PROVE  Fresh(inbox[i])'
  <2>1. PICK a : a = inbox[i + n]
    OBVIOUS
  <2>2. Fresh(a)
    BY <1>3, <2>1 DEF AnswerInv, StreamInv
  <2>3. Fresh(a)'
    BY <2>2, FreshStays
  <2>4. inbox'[i] = a
    BY <1>1, <2>1
  <2>5. QED
    BY <2>3, <2>4 DEF Fresh
<1>5. \A i, j \in 1 .. Len(inbox') : Key(inbox'[i]) = Key(inbox'[j]) => i = j
  <2>1. ASSUME NEW i \in 1 .. Len(inbox'), NEW j \in 1 .. Len(inbox'),
               Key(inbox'[i]) = Key(inbox'[j])
        PROVE  i = j
    <3>1. i + n = j + n
      BY <1>1, <1>3, <2>1 DEF AnswerInv, StreamInv
    <3>2. QED
      BY <3>1, <1>1
  <2>2. QED
    BY <2>1
<1>6. AnswersOnce'
  BY AnswersOnceStays DEF AnswerInv
<1>7. QED
  BY <1>4, <1>5, <1>6 DEF AnswerInv, StreamInv

(* The ways a step gives no answer. *)
LEMMA NothingNew ==
  ASSUME TypeInv
  PROVE  /\ inbox' = inbox \/ inbox' = <<>> => Window
         /\ calls' = calls => NoNewAnswer
<1>1. Len(inbox) \in Nat /\ 0 \in Nat
  BY LenProperties DEF TypeInv, LinkTypeOK
<1>2. CASE inbox' = inbox
  <2>1. 0 + Len(inbox') <= Len(inbox) /\ Len(inbox') \in Nat
    BY <1>1, <1>2
  <2>2. \A i \in 1 .. Len(inbox') : inbox'[i] = inbox[i + 0]
    BY <1>1, <1>2
  <2>3. QED
    BY <1>1, <2>1, <2>2 DEF Window, NoNewAnswer
<1>3. CASE inbox' = <<>>
  <2>1. 0 + Len(inbox') <= Len(inbox) /\ Len(inbox') \in Nat
    BY <1>1, <1>3
  <2>2. \A i \in 1 .. Len(inbox') : inbox'[i] = inbox[i + 0]
    BY <1>1, <1>3
  <2>3. QED
    BY <1>1, <2>1, <2>2 DEF Window, NoNewAnswer
<1>4. QED
  BY <1>2, <1>3 DEF NoNewAnswer

LEMMA AnswerUntouched ==
  ASSUME TypeInv, WireInv, AnswerInv, UNCHANGED <<inbox, executed, calls>>
  PROVE  AnswerInv'
BY NothingNew, SameCallsGrow, AnswerKept

LEMMA AnswerReturnAtOnce ==
  ASSUME TypeInv, WireInv, AnswerInv, NEW t \in Threads, NEW o, Locks(t, o),
         NEW r \in Outcomes \ {"running"}, ReturnAtOnce(t, r),
         inbox' = inbox \/ inbox' = <<>>, executed' = executed
  PROVE  AnswerInv'
<1>1. /\ Grows /\ Len(calls') = Len(calls) + 1
      /\ \A i \in 1 .. Len(calls) : calls'[i] = calls[i]
      /\ calls'[Len(calls')].ans = NoAnswer
  BY CallsOfReturnAtOnce
<1>2. NoNewAnswer
  BY <1>1 DEF NoNewAnswer, Grows
<1>3. QED
  BY <1>1, <1>2, NothingNew, AnswerKept

LEMMA AnswerHoldAt ==
  ASSUME TypeInv, WireInv, AnswerInv, NEW t \in Threads, NEW o, Locks(t, o),
         NEW p, HoldAt(t, p), UNCHANGED <<inbox, executed>>
  PROVE  AnswerInv'
<1>1. /\ Grows /\ Len(calls') = Len(calls) + 1
      /\ \A i \in 1 .. Len(calls) : calls'[i] = calls[i]
      /\ calls'[Len(calls')].ans = NoAnswer
  BY CallsOfHoldAt
<1>2. NoNewAnswer
  BY <1>1 DEF NoNewAnswer, Grows
<1>3. QED
  BY <1>1, <1>2, NothingNew, AnswerKept

LEMMA AnswerGivenUp ==
  ASSUME TypeInv, WireInv, AnswerInv, NEW t \in Threads, pc[t] \in Inside,
         NEW r \in Outcomes \ Refusals, Return(t, r, NoAnswer),
         Window, executed' = executed
  PROVE  AnswerInv'
<1>1. /\ Grows /\ Len(calls') = Len(calls)
      /\ \A i \in 1 .. Len(calls) : i # Len(calls) => calls'[i] = calls[i]
      /\ calls'[Len(calls)].ans = NoAnswer
  BY CallsOfReturn DEF Inside, Holding, Answers
<1>2. NoNewAnswer
  BY <1>1 DEF NoNewAnswer
<1>3. QED
  BY <1>1, <1>2, AnswerKept

(* The holder is given the reply at the head of the stream. *)
LEMMA MethodDeterminesOp ==
  \A o, q \in DOMAIN MethodOf : MethodOf[o] = MethodOf[q] => o = q
BY DEF MethodOf

LEMMA AnswerTaken ==
  ASSUME TypeInv, WireInv, AnswerInv, NEW t \in Threads, pc[t] \in Inside,
         NEW m \in Methods, op[t] \in DOMAIN MethodOf, m = MethodOf[op[t]],
         NEW a, RecvOk(m, a), NEW r \in Outcomes \ Refusals,
         Return(t, r, Key(a))
  PROVE  AnswerInv'
<1>1. /\ a \in Replies /\ a = inbox[1] /\ a.method = m /\ Len(inbox) >= 1
      /\ Len(inbox') = Len(inbox) - 1 /\ Len(inbox) \in Nat
      /\ \A i \in 1 .. Len(inbox') : inbox'[i] = inbox[i + 1]
  BY RecvOkLeaves, LenProperties DEF TypeInv, LinkTypeOK
<1>2. executed' = executed
  BY DEF RecvOk
<1>3. PICK k : k = Key(a)
  OBVIOUS
<1>4. k \in Answers
  BY <1>1, <1>3, ReplyKey
<1>5. /\ Grows /\ Len(calls') = Len(calls) /\ Len(calls) \in 1 .. Len(calls)
      /\ \A i \in 1 .. Len(calls) : i # Len(calls) => calls'[i] = calls[i]
      /\ calls'[Len(calls)].ans = k /\ calls[Len(calls)].op = op[t]
  BY <1>3, <1>4, CallsOfReturn DEF Inside, Holding
<1>6. /\ k \in executed /\ MethodOfCall(a.id) = m
      /\ \A j \in 1 .. Len(calls) : calls[j].ans # k
  BY <1>1, <1>3 DEF AnswerInv, StreamInv, Fresh
<1>7. ASSUME NEW i \in 1 .. Len(inbox')
      PROVE  Fresh(inbox[i])'
  <2>1. i + 1 \in 1 .. Len(inbox) /\ i + 1 # 1 /\ 1 \in 1 .. Len(inbox)
    BY <1>1
  <2>2. PICK b : b = inbox[i + 1]
    OBVIOUS
  <2>3. Fresh(b) /\ Key(b) # k
    BY <1>1, <1>3, <2>1, <2>2 DEF AnswerInv, StreamInv
  <2>4. b.id \in 1 .. Len(calls)
    BY <2>3, ExecutedKeys DEF Fresh, Key
  <2>5. MethodOfCall(b.id)' = b.method
    BY <1>5, <2>3, <2>4, MethodStays DEF Fresh
  <2>6. \A j \in 1 .. Len(calls') : calls'[j].ans # Key(b)
    BY <1>5, <2>3 DEF Fresh
  <2>7. Fresh(b)'
    BY <1>2, <2>3, <2>5, <2>6 DEF Fresh
  <2>8. inbox'[i] = b
    BY <1>1, <2>2
  <2>9. QED
    BY <2>7, <2>8 DEF Fresh
<1>8. \A i, j \in 1 .. Len(inbox') : Key(inbox'[i]) = Key(inbox'[j]) => i = j
  <2>1. ASSUME NEW i \in 1 .. Len(inbox'), NEW j \in 1 .. Len(inbox'),
               Key(inbox'[i]) = Key(inbox'[j])
        PROVE  i = j
    <3>1. i + 1 \in 1 .. Len(inbox) /\ j + 1 \in 1 .. Len(inbox)
      BY <1>1
    <3>2. i + 1 = j + 1
      BY <1>1, <2>1, <3>1 DEF AnswerInv, StreamInv
    <3>3. QED
      BY <3>2
  <2>2. QED
    BY <2>1
<1>9. k[1] \in 1 .. Len(calls) /\ calls[k[1]].op = op[t]
  <2>1. k[1] = a.id /\ k[1] \in 1 .. Len(calls)
    BY <1>3, <1>6, ExecutedKeys DEF Key
  <2>2. MethodOfCall(k[1]) = m /\ m # "none"
    BY <1>6, <2>1 DEF Methods, FileMethods
  <2>3. /\ calls[k[1]].op \in DOMAIN MethodOf
        /\ MethodOf[calls[k[1]].op] = MethodOf[op[t]]
    BY <2>2 DEF MethodOfCall
  <2>4. QED
    BY <2>1, <2>3, MethodDeterminesOp
<1>10. ASSUME NEW i \in 1 .. Len(calls'), NEW j \in 1 .. Len(calls'),
              calls'[i].ans # NoAnswer
       PROVE  /\ calls'[j].ans = calls'[i].ans => j = i
              /\ calls'[i].ans \in executed'
              /\ calls'[calls'[i].ans[1]].op = calls'[i].op
  <2>1. \A l \in 1 .. Len(calls) : calls'[l].op = calls[l].op
    BY <1>5 DEF Grows
  <2>2. CASE i = Len(calls)
    <3>1. calls'[i].ans = k /\ calls'[i].op = op[t]
      BY <1>5, <2>1, <2>2
    <3>2. calls'[j].ans = k => j = i
      BY <1>5, <1>6, <2>2
    <3>3. calls'[k[1]].op = op[t]
      BY <1>9, <2>1
    <3>4. QED
      BY <1>2, <1>6, <3>1, <3>2, <3>3
  <2>3. CASE i # Len(calls)
    <3>1. i \in 1 .. Len(calls) /\ calls'[i] = calls[i]
      BY <1>5, <2>3
    <3>2. calls[i].ans \in executed /\ calls[calls[i].ans[1]].op = calls[i].op
      BY <1>10, <3>1 DEF AnswerInv, AnswersOnce
    <3>3. calls[i].ans[1] \in 1 .. Len(calls)
      BY <3>2, ExecutedKeys
    <3>4. calls'[calls[i].ans[1]].op = calls[i].op
      BY <2>1, <3>2, <3>3
    <3>5. calls'[j].ans = calls[i].ans => j = i
      <4>1. CASE j = Len(calls)
        BY <1>5, <1>6, <3>1, <4>1
      <4>2. CASE j # Len(calls)
        BY <1>5, <1>10, <3>1, <4>2 DEF AnswerInv, AnswersOnce
      <4>3. QED
        BY <4>1, <4>2
    <3>6. QED
      BY <1>2, <3>1, <3>2, <3>4, <3>5
  <2>4. QED
    BY <2>2, <2>3
<1>11. AnswersOnce'
  BY <1>10 DEF AnswersOnce
<1>12. QED
  BY <1>7, <1>8, <1>11 DEF AnswerInv, StreamInv

-----------------------------------------------------------------------------
LEMMA AnswerConnecting ==
  ASSUME TypeInv, WireInv, AnswerInv, NEW t \in Threads, NEW o, Locks(t, o),
         RelockDeadlock(t) \/ RelockThrows(t)
           \/ (~m_isConnected /\ ConnectInternal(t))
  PROVE  AnswerInv'
<1>1. CASE RelockDeadlock(t)
  BY <1>1, AnswerHoldAt DEF RelockDeadlock, linkVars
<1>2. CASE RelockThrows(t)
  BY <1>2, OutcomesOf, AnswerReturnAtOnce DEF RelockThrows, linkVars
<1>3. CASE ConnectInternal(t)
  <2>1. inbox' = <<>> /\ executed' = executed
    BY <1>3 DEF ConnectInternal, OpenFresh
  <2>2. \E r \in Outcomes \ {"running"} : ReturnAtOnce(t, r)
    BY <1>3, OutcomesOf, ErrorIsOutcome DEF ConnectInternal
  <2>3. QED
    BY <2>1, <2>2, AnswerReturnAtOnce
<1>4. QED
  BY <1>1, <1>2, <1>3

LEMMA AnswerLocal ==
  ASSUME TypeInv, WireInv, AnswerInv, NEW t \in Threads,
         Disconnect(t) \/ Getter(t)
  PROVE  AnswerInv'
<1>1. UNCHANGED <<inbox, executed>>
  BY DEF Disconnect, CloseAndReset, CloseTransport, Getter, linkVars
<1>2. (\E o : Locks(t, o)) /\ ReturnAtOnce(t, "ok")
  BY DEF Disconnect, Getter
<1>3. QED
  BY <1>1, <1>2, OutcomesOf, AnswerReturnAtOnce

LEMMA AnswerRefuse ==
  ASSUME TypeInv, WireInv, AnswerInv, NEW t \in Threads, NEW o, Locks(t, o),
         EnsureConnected(t) \/ EnsureAuthenticated(t)
  PROVE  AnswerInv'
<1>1. \E r \in Outcomes \ {"running"} :
        ReturnAtOnce(t, r) /\ UNCHANGED linkVars
  BY OutcomesOf DEF EnsureConnected, EnsureAuthenticated, Refuse
<1>2. QED
  BY <1>1, AnswerReturnAtOnce DEF linkVars

LEMMA AnswerSendRequest ==
  ASSUME TypeInv, WireInv, AnswerInv, NEW t \in Threads, NEW o, Locks(t, o),
         NEW m, SendRequest(t, m)
  PROVE  AnswerInv'
<1>1. UNCHANGED <<inbox, executed>>
  BY DEF SendRequest, SendOk, SendFails
<1>2. CASE HoldAt(t, "recv")
  BY <1>1, <1>2, AnswerHoldAt
<1>3. CASE \E e \in TransportExceptions : ReturnAtOnce(t, ErrorOf(e))
  <2>1. PICK e \in Exceptions : ReturnAtOnce(t, ErrorOf(e))
    BY <1>3 DEF Exceptions
  <2>2. QED
    BY <1>1, <2>1, ErrorIsOutcome, AnswerReturnAtOnce
<1>4. QED
  BY <1>2, <1>3 DEF SendRequest

LEMMA RecvFailsWindow ==
  ASSUME TypeInv, NEW m, NEW e, RecvFails(m, e)
  PROVE  Window /\ executed' = executed
<1>1. Window
  BY RecvLeaves DEF Window
<1>2. QED
  BY <1>1 DEF RecvFails

LEMMA AnswerAnswered ==
  ASSUME TypeInv, WireInv, AnswerInv, NEW t \in Threads, Answered(t)
  PROVE  AnswerInv'
<1>1. /\ pc[t] \in Inside /\ op[t] \in DOMAIN MethodOf
      /\ MethodOf[op[t]] \in Methods
  BY DEF Answered, Inside, FileOps, MethodOf, Methods, FileMethods
<1>2. PICK m \in Methods : m = MethodOf[op[t]]
  BY <1>1
<1>3. ASSUME NEW a, RecvOk(m, a), Return(t, Verdict(m, a.body), Key(a))
      PROVE  AnswerInv'
  <2>1. Verdict(m, a.body) \in Outcomes \ Refusals
    BY <1>3, ReplyVerdict
  <2>2. QED
    BY <1>1, <1>2, <1>3, <2>1, AnswerTaken
<1>4. ASSUME NEW e \in Exceptions, RecvFails(m, e),
             Return(t, ErrorOf(e), NoAnswer)
      PROVE  AnswerInv'
  BY <1>1, <1>4, ErrorIsOutcome, RecvFailsWindow, AnswerGivenUp
<1>5. QED
  BY <1>2, <1>3, <1>4 DEF Answered

LEMMA AnswerAuthenticate ==
  ASSUME TypeInv, WireInv, AnswerInv, NEW t \in Threads, Authenticate(t)
  PROVE  AnswerInv'
<1>1. Locks(t, "Authenticate")
  BY DEF Authenticate
<1>2. CASE EnsureConnected(t)
  BY <1>1, <1>2, AnswerRefuse
<1>3. CASE ReturnAtOnce(t, "auth_limit") /\ UNCHANGED linkVars
  BY <1>1, <1>3, OutcomesOf, AnswerReturnAtOnce DEF linkVars
<1>4. CASE HoldAt(t, "send") /\ UNCHANGED linkVars
  BY <1>1, <1>4, AnswerHoldAt DEF linkVars
<1>5. QED
  BY <1>2, <1>3, <1>4 DEF Authenticate

LEMMA AnswerAttemptFailed ==
  ASSUME TypeInv, WireInv, AnswerInv, NEW t \in Threads, pc[t] \in Inside,
         AttemptFailed(t), Window, executed' = executed
  PROVE  AnswerInv'
<1>1. CASE calls' = calls
  BY <1>1, NothingNew, SameCallsGrow, AnswerKept
<1>2. CASE Return(t, "auth_exception", NoAnswer)
  BY <1>2, OutcomesOf, AnswerGivenUp
<1>3. QED
  BY <1>1, <1>2 DEF AttemptFailed

LEMMA AnswerAuthSend ==
  ASSUME TypeInv, WireInv, AnswerInv, NEW t \in Threads, AuthSend(t)
  PROVE  AnswerInv'
<1>1. UNCHANGED <<inbox, executed>> /\ pc[t] \in Inside
  BY DEF AuthSend, SendOk, SendFails, Inside
<1>2. CASE calls' = calls
  BY <1>1, <1>2, AnswerUntouched
<1>3. CASE AttemptFailed(t)
  BY <1>1, <1>3, NothingNew, AnswerAttemptFailed
<1>4. QED
  BY <1>2, <1>3 DEF AuthSend

LEMMA AnswerAuthAnswered ==
  ASSUME TypeInv, WireInv, AnswerInv, NEW t \in Threads, AuthAnswered(t)
  PROVE  AnswerInv'
<1>1. /\ pc[t] \in Inside /\ op[t] \in DOMAIN MethodOf
      /\ MethodOf[op[t]] = "Auth" /\ "Auth" \in Methods
  BY DEF AuthAnswered, Inside, MethodOf, Methods
<1>2. ASSUME NEW a, RecvOk("Auth", a), Return(t, AckVerdict(a.body), Key(a))
      PROVE  AnswerInv'
  <2>1. AckVerdict(a.body) \in Outcomes \ Refusals
    BY DEF AckVerdict, Outcomes, Errors, Refusals
  <2>2. QED
    BY <1>1, <1>2, <2>1, AnswerTaken
<1>3. ASSUME NEW e, RecvFails("Auth", e), AttemptFailed(t)
      PROVE  AnswerInv'
  BY <1>1, <1>3, RecvFailsWindow, AnswerAttemptFailed
<1>4. ASSUME NEW e \in Exceptions, RecvFails("Auth", e),
             Return(t, ErrorOf(e), NoAnswer)
      PROVE  AnswerInv'
  BY <1>1, <1>4, ErrorIsOutcome, RecvFailsWindow, AnswerGivenUp
<1>5. QED
  BY <1>2, <1>3, <1>4 DEF AuthAnswered

LEMMA AnswerAuthRetry ==
  ASSUME TypeInv, WireInv, AnswerInv, NEW t \in Threads, AuthRetry(t)
  PROVE  AnswerInv'
<1>1. executed' = executed /\ calls' = calls
  BY DEF AuthRetry, ReopenSame
<1>2. /\ inbox' = SubSeq(inbox, 1, rbuf) /\ inbox \in Seq(Replies)
      /\ rbuf \in 0 .. Len(inbox)
  BY DEF AuthRetry, ReopenSame, TypeInv, LinkTypeOK
<1>3. /\ Len(inbox) \in Nat /\ Len(inbox') = rbuf
      /\ \A i \in 1 .. rbuf : inbox'[i] = inbox[i]
  BY <1>2, Prefix, LenProperties
<1>4. Window
  <2>1. 0 \in Nat /\ 0 + Len(inbox') <= Len(inbox) /\ Len(inbox') \in Nat
    BY <1>2, <1>3
  <2>2. \A i \in 1 .. Len(inbox') : inbox'[i] = inbox[i + 0]
    BY <1>3
  <2>3. QED
    BY <2>1, <2>2 DEF Window
<1>5. QED
  BY <1>1, <1>4, NothingNew, SameCallsGrow, AnswerKept

LEMMA AnswerRuns ==
  ASSUME TypeInv, WireInv, AnswerInv, NEW t \in Threads, Runs(t)
  PROVE  AnswerInv'
<1>1. ASSUME NEW o, FileOperation(t, o) PROVE AnswerInv'
  BY <1>1, AnswerRefuse, AnswerSendRequest DEF FileOperation
<1>2. CASE Ping(t)
  BY <1>2, AnswerRefuse, AnswerSendRequest DEF Ping
<1>3. CASE Connect(t)
  BY <1>3, AnswerConnecting DEF Connect
<1>4. CASE Reconnect(t)
  BY <1>4, AnswerConnecting DEF Reconnect
<1>5. CASE UploadFile(t)
  BY <1>5, <1>1 DEF UploadFile
<1>6. CASE DownloadFile(t)
  BY <1>6, <1>1 DEF DownloadFile
<1>7. CASE DeleteFile(t)
  BY <1>7, <1>1 DEF DeleteFile
<1>8. CASE RenameFile(t)
  BY <1>8, <1>1 DEF RenameFile
<1>9. CASE ListDirectory(t)
  BY <1>9, <1>1 DEF ListDirectory
<1>10. QED
  BY <1>2, <1>3, <1>4, <1>5, <1>6, <1>7, <1>8, <1>9, AnswerLocal,
     AnswerAnswered, AnswerAuthenticate, AnswerAuthSend, AnswerAuthAnswered,
     AnswerAuthRetry DEF Runs

(* The server's reply has a key that was not executed before, so no reply  *)
(* and no call has it; the network takes replies away.                     *)
LEMMA AnswerNet ==
  ASSUME TypeInv, WireInv, AnswerInv, Net
  PROVE  AnswerInv'
<1>1. calls' = calls /\ inbox \in Seq(Replies) /\ Len(inbox) \in Nat
  BY LenProperties DEF Net, clientVars, TypeInv, LinkTypeOK
<1>2. CASE LinkDrop
  <2>1. /\ Len(inbox') <= Len(inbox) /\ Len(inbox') \in Nat
        /\ \A i \in 1 .. Len(inbox') : inbox'[i] = inbox[i]
    BY <1>2, LinkDropType, LenProperties DEF TypeInv, LinkTypeOK
  <2>2. Window
    <3>1. 0 \in Nat /\ 0 + Len(inbox') <= Len(inbox)
      BY <1>1, <2>1
    <3>2. \A i \in 1 .. Len(inbox') : inbox'[i] = inbox[i + 0]
      BY <2>1
    <3>3. QED
      BY <2>1, <3>1, <3>2 DEF Window
  <2>3. executed' = executed
    BY <1>2 DEF LinkDrop
  <2>4. QED
    BY <1>1, <2>2, <2>3, NothingNew, SameCallsGrow, AnswerKept
<1>3. ASSUME NEW r \in wire, NEW b \in AllBodies, Serve(r, b)
      PROVE  AnswerInv'
  <2> DEFINE a == [gen |-> r.gen, id |-> r.id, try |-> r.try,
                   method |-> r.method, body |-> b]
  <2>1. Key(a) = Key(r) /\ a.id = r.id /\ a.method = r.method
    BY DEF Key
  <2>2. inbox' = inbox \/ inbox' = Append(inbox, a)
    BY <1>3 DEF Serve
  <2> HIDE DEF a
  <2>3. executed' = executed \cup {Key(r)} /\ executed \subseteq executed'
    BY <1>3 DEF Serve
  <2>4. Grows /\ NoNewAnswer
    BY <1>1, SameCallsGrow, NothingNew
  <2>5. Key(r) \notin executed /\ MethodOfCall(r.id) = r.method
    BY <1>3 DEF WireInv
  <2>6. Fresh(a)'
    <3>1. MethodOfCall(a.id)' = a.method
      BY <1>1, <2>1, <2>5 DEF MethodOfCall
    <3>2. \A j \in 1 .. Len(calls') : calls'[j].ans # Key(a)
      <4>1. Key(r)[1] \in 1 .. Len(calls)
        BY <1>3 DEF WireInv, KeyOK, Issued
      <4>2. Key(r) # NoAnswer
        BY <4>1 DEF NoAnswer
      <4>3. QED
        BY <1>1, <2>1, <2>5, <4>2 DEF AnswerInv, AnswersOnce
    <3>3. QED
      BY <2>1, <2>3, <3>1, <3>2 DEF Fresh
  <2>7. \A i \in 1 .. Len(inbox) : Key(inbox[i]) # Key(a)
    BY <2>1, <2>5 DEF AnswerInv, StreamInv, Fresh
  <2>8. ASSUME NEW c, Fresh(c) PROVE Fresh(c)'
    BY <2>3, <2>4, <2>8, FreshStays
  <2>9. StreamInv'
    <3>1. CASE inbox' = inbox
      <4>1. \A i \in 1 .. Len(inbox') : Fresh(inbox[i])'
        <5>1. ASSUME NEW i \in 1 .. Len(inbox') PROVE Fresh(inbox[i])'
          <6>1. PICK c : c = inbox[i]
            OBVIOUS
          <6>2. Fresh(c) /\ inbox'[i] = c
            BY <3>1, <6>1 DEF AnswerInv, StreamInv
          <6>3. Fresh(c)'
            BY <6>2, <2>8
          <6>4. QED
            BY <6>2, <6>3 DEF Fresh
        <5>2. QED
          BY <5>1
      <4>2. QED
        BY <3>1, <4>1 DEF AnswerInv, StreamInv
    <3>2. CASE inbox' = Append(inbox, a)
      <4>1. /\ Len(inbox') = Len(inbox) + 1
            /\ \A i \in 1 .. Len(inbox') :
                 inbox'[i] = IF i \in 1 .. Len(inbox) THEN inbox[i] ELSE a
        BY <1>1, <3>2
      <4>2. ASSUME NEW i \in 1 .. Len(inbox') PROVE Fresh(inbox[i])'
        <5>1. PICK c : c = inbox'[i]
          OBVIOUS
        <5>2. Fresh(c)'
          <6>1. CASE i \in 1 .. Len(inbox)
            BY <2>8, <4>1, <5>1, <6>1 DEF AnswerInv, StreamInv
          <6>2. CASE i \notin 1 .. Len(inbox)
            BY <2>6, <4>1, <5>1, <6>2 DEF Fresh
          <6>3. QED
            BY <6>1, <6>2
        <5>3. QED
          BY <5>1, <5>2 DEF Fresh
      <4>3. \A i, j \in 1 .. Len(inbox') :
              Key(inbox'[i]) = Key(inbox'[j]) => i = j
        BY <1>1, <2>7, <4>1 DEF AnswerInv, StreamInv
      <4>4. QED
        BY <4>2, <4>3 DEF StreamInv
    <3>3. QED
      BY <2>2, <3>1, <3>2
  <2>10. AnswersOnce'
    BY <2>3, <2>4, AnswersOnceStays DEF AnswerInv
  <2>11. QED
    BY <2>9, <2>10 DEF AnswerInv
<1>4. QED
  BY <1>2, <1>3 DEF Net, NetNext

LEMMA AnswerInit == Init => AnswerInv
BY EmptySeq DEF Init, LinkInit, AnswerInv, StreamInv, AnswersOnce

LEMMA AnswerNext == TypeInv /\ WireInv /\ AnswerInv /\ [Next]_vars => AnswerInv'
<1> SUFFICES ASSUME TypeInv, WireInv, AnswerInv, [Next]_vars
             PROVE  AnswerInv'
  OBVIOUS
<1>1. ASSUME NEW t \in Threads, Runs(t) PROVE AnswerInv'
  BY <1>1, AnswerRuns
<1>2. ASSUME NEW t \in Threads, NEW o, Call(t, o) PROVE AnswerInv'
  BY <1>2, CallLeaves, AnswerUntouched DEF linkVars
<1>3. CASE Net
  BY <1>3, AnswerNet
<1>4. CASE UNCHANGED <<inbox, executed, calls>>
  BY <1>4, AnswerUntouched
<1>5. Destroy \/ CreateReturn \/ UNCHANGED vars =>
        UNCHANGED <<inbox, executed, calls>>
  BY DEF Destroy, CreateReturn, vars, clientVars, linkVars
<1>6. CreateGoOn => Call(Creator, "Authenticate") \/
        UNCHANGED <<inbox, executed, calls>>
  BY DEF CreateGoOn, linkVars
<1>7. QED
  BY <1>1, <1>2, <1>3, <1>4, <1>5, <1>6, ThreadsAssumption
     DEF Next, UserCall, Terminated

(* No answer is returned twice, and each is one the server gave to a       *)
(* request of the same method: although a stream may hold replies of       *)
(* earlier calls and of earlier connections, and no seqid is compared.     *)
THEOREM AnswersReturnedOnce == Spec => []AnswersOnce
<1>1. AnswerInv => AnswersOnce
  BY DEF AnswerInv
<1>2. QED
  BY <1>1, WireInit, WireNext, AnswerInit, AnswerNext, TypeCorrect, PTL DEF Spec

-----------------------------------------------------------------------------
(***************************************************************************)
(* OwnAnswer                                                               *)
(***************************************************************************)

(* While no exchange has failed on the current connection, what there is   *)
(* on it is at most one message, the request or the reply of the running   *)
(* call; and there is none when no call waits for an answer.               *)
Requested == {r \in wire : r.gen = gen}
Asked == \E t \in Threads : pc[t] = "recv"
Quiet == Requested = {} /\ inbox = <<>>
Alone ==
  /\ \A r \in Requested : r.id = Len(calls) /\ inbox = <<>>
  /\ \A r, q \in Requested : r = q
  /\ Len(inbox) <= 1
  /\ \A k \in 1 .. Len(inbox) : inbox[k].id = Len(calls)
(* The server may still hold requests of connections before this one. *)
NoneLater == \A r \in wire : r.gen <= gen
OwnInv ==
  /\ NoneLater
  /\ clean => Alone /\ (Asked \/ Quiet)
  /\ OwnAnswer

(* No call gets an answer that is not its own. *)
OwnKept ==
  \A j \in 1 .. Len(calls') :
    calls'[j].fresh =>
      \/ j \in 1 .. Len(calls) /\ calls'[j] = calls[j]
      \/ calls'[j].ans[1] = j

LEMMA OwnStays ==
  ASSUME OwnAnswer, OwnKept
  PROVE  OwnAnswer'
BY DEF OwnAnswer, OwnKept

(* A step after which nothing is on the way on a clean connection. *)
LEMMA OwnQuiet ==
  ASSUME OwnInv, NoneLater', clean' => Quiet', OwnKept
  PROVE  OwnInv'
<1>1. Len(<<>>) = 0
  BY EmptySeq
<1>2. Quiet' => Alone'
  BY <1>1 DEF Quiet, Alone
<1>3. QED
  BY <1>2, OwnStays DEF OwnInv

(* A step that leaves the connection alone, or an unclean one. *)
LinkStill == UNCHANGED <<wire, gen, inbox>> /\ (clean' => clean)

LEMMA StillNoneLater ==
  ASSUME OwnInv, LinkStill
  PROVE  NoneLater' /\ (Quiet => Quiet')
BY DEF OwnInv, LinkStill, NoneLater, Quiet, Requested

LEMMA OwnUntouched ==
  ASSUME OwnInv, UNCHANGED <<wire, gen, inbox, clean, calls>>,
         \A t \in Threads : pc[t] = "recv" => pc'[t] = "recv"
  PROVE  OwnInv'
<1>1. OwnAnswer'
  BY DEF OwnInv, OwnAnswer
<1>2. clean => Alone' /\ (Asked' \/ Quiet')
  BY DEF OwnInv, Alone, Asked, Quiet, Requested
<1>3. QED
  BY <1>1, <1>2 DEF OwnInv, NoneLater

-----------------------------------------------------------------------------
(* The ways a call is closed or opened without an answer. *)
LEMMA UnansweredIsNotFresh ==
  \A o, r : Entry(o, r, NoAnswer).fresh = FALSE
BY DEF Entry

LEMMA OwnReturnAtOnce ==
  ASSUME TypeInv, NEW t \in Threads, NEW o, Locks(t, o),
         NEW r \in Outcomes \ {"running"}, ReturnAtOnce(t, r)
  PROVE  OwnKept /\ ~Asked
<1> DEFINE c == Entry(op[t], r, NoAnswer)
<1>1. c \in CallRecords /\ c.fresh = FALSE
  BY NextCallHasRoom, EntryType, UnansweredIsNotFresh
     DEF TypeInv, Locks, Answers
<1>2. calls \in Seq(CallRecords) /\ calls' = Append(calls, c)
  BY DEF TypeInv, CallInv, CallsType, ReturnAtOnce
<1> HIDE DEF c
<1>3. /\ Len(calls) \in Nat /\ Len(calls') = Len(calls) + 1
      /\ \A i \in 1 .. Len(calls) : calls'[i] = calls[i]
      /\ calls'[Len(calls')] = c
  BY <1>1, <1>2, CallAppended
<1>4. OwnKept
  BY <1>1, <1>3 DEF OwnKept
<1>5. ~Asked
  BY FreeNobodyInside DEF Asked, Locks
<1>6. QED
  BY <1>4, <1>5

LEMMA OwnHoldAt ==
  ASSUME TypeInv, NEW t \in Threads, NEW o, Locks(t, o), NEW p, HoldAt(t, p)
  PROVE  OwnKept /\ ~Asked
<1> DEFINE c == Entry(op[t], "running", NoAnswer)
<1>1. c \in CallRecords /\ c.fresh = FALSE
  <2>1. "running" \in Outcomes
    BY DEF Outcomes
  <2>2. QED
    BY <2>1, NextCallHasRoom, EntryType, UnansweredIsNotFresh
       DEF TypeInv, Locks, Answers
<1>2. calls \in Seq(CallRecords) /\ calls' = Append(calls, c)
  BY DEF TypeInv, CallInv, CallsType, HoldAt
<1> HIDE DEF c
<1>3. /\ Len(calls) \in Nat /\ Len(calls') = Len(calls) + 1
      /\ \A i \in 1 .. Len(calls) : calls'[i] = calls[i]
      /\ calls'[Len(calls')] = c
  BY <1>1, <1>2, CallAppended
<1>4. OwnKept
  BY <1>1, <1>3 DEF OwnKept
<1>5. ~Asked
  BY FreeNobodyInside DEF Asked, Locks
<1>6. QED
  BY <1>4, <1>5

(* The call that holds the mutex returns: without an answer, or with its   *)
(* own if the connection is clean.                                         *)
LEMMA OwnReturn ==
  ASSUME TypeInv, NEW t \in Threads, pc[t] \in Inside,
         NEW r \in Outcomes, NEW a \in Answers, Return(t, r, a),
         a # NoAnswer /\ clean => a[1] = Len(calls)
  PROVE  OwnKept
<1> DEFINE c == Entry(op[t], r, a)
<1>1. /\ op[t] \in Ops /\ calls # <<>> /\ calls \in Seq(CallRecords)
  BY HolderHasCall DEF TypeInv, CallInv, CallsType, Inside, Holding
<1>2. c \in CallRecords /\ c.ans = a
  BY <1>1, EntryType
<1>3. c.fresh => a # NoAnswer /\ clean
  BY DEF Entry
<1>4. calls' = [calls EXCEPT ![Id] = c]
  BY DEF Return
<1> HIDE DEF c
<1>5. /\ Len(calls) \in Nat \ {0} /\ Len(calls') = Len(calls)
      /\ \A i \in 1 .. Len(calls) : i # Len(calls) => calls'[i] = calls[i]
      /\ calls'[Len(calls)] = c
  BY <1>1, <1>2, <1>4, LastCallReplaced
<1>6. QED
  BY <1>2, <1>3, <1>5 DEF OwnKept

(* The same calls have the same answers. *)
LEMMA SameCallsOwn == calls' = calls => OwnKept
BY DEF OwnKept

(* A connection that is opened has nothing on it yet. *)
LEMMA OpenFreshQuiet ==
  ASSUME TypeInv, OwnInv, NEW e, OpenFresh(e)
  PROVE  NoneLater' /\ (clean' => Quiet')
<1>1. gen \in Nat /\ \A r \in wire : r.gen \in Nat /\ r.gen <= gen
  BY DEF TypeInv, LinkTypeOK, Requests, OwnInv, NoneLater
<1>2. wire' = wire /\ inbox' = <<>> /\ (clean' <=> e = "none")
  BY DEF OpenFresh
<1>3. gen' = IF e = "none" THEN gen + 1 ELSE gen
  BY DEF OpenFresh
<1>4. QED
  BY <1>1, <1>2, <1>3 DEF NoneLater, Quiet, Requested

LEMMA ReopenSameQuiet ==
  ASSUME TypeInv, OwnInv, NEW e, ReopenSame(e)
  PROVE  NoneLater' /\ (clean' => Quiet')
<1>1. gen \in Nat /\ \A r \in wire : r.gen \in Nat /\ r.gen <= gen
  BY DEF TypeInv, LinkTypeOK, Requests, OwnInv, NoneLater
<1>2. wire' = wire /\ inbox' = SubSeq(inbox, 1, rbuf)
      /\ (clean' => e = "none" /\ rbuf = 0)
  BY DEF ReopenSame
<1>3. gen' = IF e = "none" THEN gen + 1 ELSE gen
  BY DEF ReopenSame
<1>4. SubSeq(inbox, 1, 0) = <<>>
  BY SubSeqEmpty
<1>5. QED
  BY <1>1, <1>2, <1>3, <1>4 DEF NoneLater, Quiet, Requested

(* A request goes out on a quiet connection. *)
LEMMA OwnSendOk ==
  ASSUME TypeInv, OwnInv, ~Asked, NEW m, NEW try,
         SendOk(m, Len(calls'), try), OwnKept, Asked'
  PROVE  OwnInv'
<1> DEFINE new == [gen |-> gen, id |-> Len(calls'), try |-> try, method |-> m]
<1>1. /\ wire' \subseteq wire \cup {new} /\ UNCHANGED <<gen, inbox, clean>>
      /\ gen \in Nat
  BY DEF SendOk, TypeInv, LinkTypeOK
<1>2. new.gen = gen /\ new.id = Len(calls')
  OBVIOUS
<1> HIDE DEF new
<1>3. NoneLater'
  BY <1>1, <1>2 DEF NoneLater, OwnInv
<1>4. CASE ~clean
  BY <1>1, <1>3, <1>4, OwnStays DEF OwnInv
<1>5. CASE clean
  <2>1. Requested = {} /\ inbox = <<>> /\ Len(<<>>) = 0
    BY <1>5, EmptySeq DEF OwnInv, Quiet
  <2>2. \A r \in Requested' : r = new
    BY <1>1, <2>1 DEF Requested
  <2>3. Alone'
    BY <1>1, <1>2, <2>1, <2>2 DEF Alone
  <2>4. QED
    BY <1>3, <2>3, OwnStays DEF OwnInv
<1>6. QED
  BY <1>4, <1>5

(* The only reply is taken off a clean connection. *)
LEMMA OwnRecvOk ==
  ASSUME TypeInv, OwnInv, NEW m, NEW a, RecvOk(m, a)
  PROVE  /\ NoneLater' /\ (clean' => Quiet')
         /\ clean => a.id = Len(calls)
<1>1. UNCHANGED <<wire, gen, clean>>
  BY DEF RecvOk, RecvReply
<1>2. /\ inbox # <<>> /\ Len(inbox) >= 1 /\ a = inbox[1]
      /\ Len(inbox') = Len(inbox) - 1 /\ inbox' \in Seq(Replies)
      /\ Len(inbox) \in Nat
  BY RecvOkLeaves, LenProperties DEF TypeInv, LinkTypeOK
<1>3. ASSUME clean
      PROVE  Quiet' /\ a.id = Len(calls)
  <2>1. Requested = {} /\ Len(inbox) = 1
    BY <1>2, <1>3 DEF OwnInv, Alone
  <2>2. inbox' = <<>>
    BY <1>2, <2>1, EmptySeq
  <2>3. a.id = Len(calls)
    BY <1>2, <1>3, <2>1 DEF OwnInv, Alone
  <2>4. QED
    BY <1>1, <2>1, <2>2, <2>3 DEF Quiet, Requested
<1>4. QED
  BY <1>1, <1>3 DEF OwnInv, NoneLater

(* A receive that throws leaves an unclean connection or, having taken a   *)
(* whole exception off it, a quiet one.                                    *)
LEMMA OwnRecvFails ==
  ASSUME TypeInv, OwnInv, NEW m, NEW e, RecvFails(m, e)
  PROVE  /\ NoneLater' /\ (clean' => Quiet')
         /\ e \in TransportExceptions => clean' = FALSE
<1>1. UNCHANGED <<wire, gen>>
  BY DEF RecvFails
<1>2. CASE RecvApplicationException(e)
  <2>1. clean' = clean /\ inbox # <<>> /\ Consume(1) /\ e = "TException"
    BY <1>2 DEF RecvApplicationException
  <2>2. /\ Len(inbox) \in Nat \ {0} /\ inbox \in Seq(Replies)
        /\ rbuf \in 0 .. Len(inbox)
    BY <2>1, EmptySeq DEF TypeInv, LinkTypeOK
  <2>3. Len(inbox') = Len(inbox) - 1 /\ inbox' \in Seq(Replies)
    <3>1. 1 \in 0 .. Len(inbox)
      BY <2>2
    <3>2. QED
      BY <2>1, <2>2, <3>1, ConsumeLeaves
  <2>4. clean => Quiet'
    <3>1. ASSUME clean PROVE Requested = {} /\ Len(inbox) = 1
      <4>1. Alone
        BY <3>1 DEF OwnInv
      <4>2. Len(inbox) \in Nat /\ Len(inbox) >= 1
        BY <2>2
      <4>3. Requested = {}
        BY <2>1, <4>1 DEF Alone
      <4>4. Len(inbox) <= 1
        BY <4>1 DEF Alone
      <4>5. \A n \in Nat : n >= 1 /\ n <= 1 => n = 1
        OBVIOUS
      <4>6. QED
        BY <4>2, <4>3, <4>4, <4>5
    <3>2. clean => inbox' = <<>>
      BY <2>2, <2>3, <3>1, EmptySeq
    <3>3. QED
      BY <1>1, <3>1, <3>2 DEF Quiet, Requested
  <2>5. QED
    BY <1>1, <2>1, <2>4 DEF OwnInv, NoneLater, TransportExceptions
<1>3. CASE ~RecvApplicationException(e)
  <2>1. clean' = FALSE
    BY <1>3 DEF RecvFails, RecvWrongName, RecvWrongNameOnly, RecvGarbage,
                RecvTimeout, RecvEnd, RecvBroken
  <2>2. QED
    BY <1>1, <2>1 DEF OwnInv, NoneLater
<1>4. QED
  BY <1>2, <1>3

-----------------------------------------------------------------------------
(* What each part of the client does to the pairing. *)
LEMMA OwnClosed ==
  ASSUME TypeInv, OwnInv, OwnKept, ~Asked, LinkStill
  PROVE  OwnInv'
<1>1. clean' => Quiet'
  BY StillNoneLater DEF OwnInv, LinkStill
<1>2. QED
  BY <1>1, StillNoneLater, OwnQuiet

LEMMA LinkVarsStill == UNCHANGED linkVars => LinkStill
BY DEF linkVars, LinkStill

LEMMA OwnConnecting ==
  ASSUME TypeInv, OwnInv, NEW t \in Threads, NEW o, Locks(t, o),
         RelockDeadlock(t) \/ RelockThrows(t)
           \/ (~m_isConnected /\ ConnectInternal(t))
  PROVE  OwnInv'
<1>1. CASE RelockDeadlock(t)
  BY <1>1, OwnHoldAt, OwnClosed, LinkVarsStill DEF RelockDeadlock
<1>2. CASE RelockThrows(t)
  BY <1>2, OutcomesOf, OwnReturnAtOnce, OwnClosed, LinkVarsStill
     DEF RelockThrows
<1>3. CASE ConnectInternal(t)
  <2>1. \E e : OpenFresh(e)
    BY <1>3 DEF ConnectInternal
  <2>2. \E r \in Outcomes \ {"running"} : ReturnAtOnce(t, r)
    BY <1>3, OutcomesOf, ErrorIsOutcome DEF ConnectInternal
  <2>3. NoneLater' /\ (clean' => Quiet')
    BY <2>1, OpenFreshQuiet
  <2>4. QED
    BY <2>2, <2>3, OwnReturnAtOnce, OwnQuiet
<1>4. QED
  BY <1>1, <1>2, <1>3

LEMMA OwnLocal ==
  ASSUME TypeInv, OwnInv, NEW t \in Threads, Disconnect(t) \/ Getter(t)
  PROVE  OwnInv'
<1>1. LinkStill
  BY DEF Disconnect, CloseAndReset, CloseTransport, Getter, linkVars, LinkStill
<1>2. (\E o : Locks(t, o)) /\ ReturnAtOnce(t, "ok")
  BY DEF Disconnect, Getter
<1>3. QED
  BY <1>1, <1>2, OutcomesOf, OwnReturnAtOnce, OwnClosed

LEMMA OwnRefuse ==
  ASSUME TypeInv, OwnInv, NEW t \in Threads, NEW o, Locks(t, o),
         EnsureConnected(t) \/ EnsureAuthenticated(t)
  PROVE  OwnInv'
<1>1. \E r \in Outcomes \ {"running"} :
        ReturnAtOnce(t, r) /\ UNCHANGED linkVars
  BY OutcomesOf DEF EnsureConnected, EnsureAuthenticated, Refuse
<1>2. QED
  BY <1>1, OwnReturnAtOnce, OwnClosed, LinkVarsStill

LEMMA SendFailsStill ==
  ASSUME NEW m, NEW e, SendFails(m, e)
  PROVE  LinkStill
BY DEF SendFails, LinkStill

LEMMA OwnSendRequest ==
  ASSUME TypeInv, OwnInv, NEW t \in Threads, NEW o, Locks(t, o), NEW m,
         SendRequest(t, m)
  PROVE  OwnInv'
<1>1. CASE SendOk(m, Id + 1, retry) /\ HoldAt(t, "recv")
  <2>1. OwnKept /\ ~Asked /\ Len(calls') = Id + 1
    BY <1>1, OwnHoldAt, CallsOfHoldAt DEF Id
  <2>2. Asked'
    BY <1>1, PcOfHoldAt DEF Asked
  <2>3. SendOk(m, Len(calls'), retry)
    BY <1>1, <2>1
  <2>4. QED
    BY <2>1, <2>2, <2>3, OwnSendOk
<1>2. ASSUME NEW e \in TransportExceptions, SendFails(m, e),
             ReturnAtOnce(t, ErrorOf(e))
      PROVE  OwnInv'
  <2>1. ErrorOf(e) \in Outcomes \ {"running"}
    BY <1>2, ErrorIsOutcome DEF Exceptions
  <2>2. QED
    BY <1>2, <2>1, OwnReturnAtOnce, OwnClosed, SendFailsStill
<1>3. QED
  BY <1>1, <1>2 DEF SendRequest

(* The answer that is taken off the connection is returned. *)
LEMMA OwnReturnReply ==
  ASSUME TypeInv, OwnInv, NEW t \in Threads, pc[t] = "recv",
         NEW m, NEW a, RecvOk(m, a),
         NEW r \in Outcomes, Return(t, r, Key(a))
  PROVE  OwnInv'
<1>1. /\ NoneLater' /\ (clean' => Quiet')
      /\ clean => a.id = Len(calls)
  BY OwnRecvOk
<1>2. Key(a) \in Answers /\ Key(a)[1] = a.id
  BY ReplyVerdict DEF Key
<1>3. OwnKept
  BY <1>1, <1>2, OwnReturn DEF Inside
<1>4. QED
  BY <1>1, <1>3, OwnQuiet

LEMMA OwnReturnNoReply ==
  ASSUME TypeInv, OwnInv, NEW t \in Threads, pc[t] \in Inside,
         NEW r \in Outcomes, Return(t, r, NoAnswer)
  PROVE  OwnKept
BY OwnReturn DEF Answers

LEMMA OwnAnswered ==
  ASSUME TypeInv, OwnInv, NEW t \in Threads, Answered(t)
  PROVE  OwnInv'
<1>1. pc[t] = "recv" /\ pc[t] \in Inside
  BY DEF Answered, Inside
<1>2. \/ \E m, a : RecvOk(m, a) /\ Return(t, Verdict(m, a.body), Key(a))
      \/ \E m : \E e \in Exceptions :
           RecvFails(m, e) /\ Return(t, ErrorOf(e), NoAnswer)
  BY DEF Answered
<1>3. ASSUME NEW m, NEW a, RecvOk(m, a),
             Return(t, Verdict(m, a.body), Key(a))
      PROVE  OwnInv'
  <2>1. Verdict(m, a.body) \in Outcomes
    BY <1>3, ReplyVerdict
  <2>2. QED
    BY <1>1, <1>3, <2>1, OwnReturnReply
<1>4. ASSUME NEW m, NEW e \in Exceptions, RecvFails(m, e),
             Return(t, ErrorOf(e), NoAnswer)
      PROVE  OwnInv'
  <2>1. NoneLater' /\ (clean' => Quiet')
    BY <1>4, OwnRecvFails
  <2>2. OwnKept
    BY <1>1, <1>4, ErrorIsOutcome, OwnReturnNoReply
  <2>3. QED
    BY <2>1, <2>2, OwnQuiet
<1>5. QED
  BY <1>2, <1>3, <1>4

LEMMA OwnAuthenticate ==
  ASSUME TypeInv, OwnInv, NEW t \in Threads, Authenticate(t)
  PROVE  OwnInv'
<1>1. Locks(t, "Authenticate")
  BY DEF Authenticate
<1>2. CASE EnsureConnected(t)
  BY <1>1, <1>2, OwnRefuse
<1>3. CASE ReturnAtOnce(t, "auth_limit") /\ UNCHANGED linkVars
  BY <1>1, <1>3, OutcomesOf, OwnReturnAtOnce, OwnClosed, LinkVarsStill
<1>4. CASE HoldAt(t, "send") /\ UNCHANGED linkVars
  BY <1>1, <1>4, OwnHoldAt, OwnClosed, LinkVarsStill
<1>5. QED
  BY <1>2, <1>3, <1>4 DEF Authenticate

LEMMA OwnAttemptFailed ==
  ASSUME TypeInv, OwnInv, NEW t \in Threads, pc[t] \in Inside,
         AttemptFailed(t)
  PROVE  OwnKept
<1>1. CASE UNCHANGED calls
  BY <1>1, SameCallsOwn
<1>2. CASE Return(t, "auth_exception", NoAnswer)
  BY <1>2, OutcomesOf, OwnReturnNoReply
<1>3. QED
  BY <1>1, <1>2 DEF AttemptFailed

LEMMA OwnAuthSend ==
  ASSUME TypeInv, OwnInv, NEW t \in Threads, AuthSend(t)
  PROVE  OwnInv'
<1>1. pc[t] = "send" /\ pc[t] \in Inside
  BY DEF AuthSend, Inside
<1>2. ~Asked
  BY <1>1, InsideIsHolder DEF Asked
<1>3. CASE /\ SendOk("Auth", Id, retry) /\ pc' = [pc EXCEPT ![t] = "recv"]
           /\ UNCHANGED calls
  <2>1. SendOk("Auth", Len(calls'), retry)
    BY <1>3 DEF Id
  <2>2. Asked'
    BY <1>3 DEF Asked, TypeInv, CallInv, CallsType
  <2>3. PICK m : m = "Auth"
    OBVIOUS
  <2>4. QED
    BY <1>2, <1>3, <2>1, <2>2, <2>3, SameCallsOwn, OwnSendOk
<1>4. ASSUME NEW e, SendFails("Auth", e), AttemptFailed(t)
      PROVE  OwnInv'
  BY <1>1, <1>2, <1>4, OwnAttemptFailed, OwnClosed, SendFailsStill
<1>5. QED
  BY <1>3, <1>4 DEF AuthSend

LEMMA OwnAuthAnswered ==
  ASSUME TypeInv, OwnInv, NEW t \in Threads, AuthAnswered(t)
  PROVE  OwnInv'
<1>1. pc[t] = "recv" /\ pc[t] \in Inside
  BY DEF AuthAnswered, Inside
<1>2. \/ \E a : RecvOk("Auth", a) /\ Return(t, AckVerdict(a.body), Key(a))
      \/ \E e : RecvFails("Auth", e) /\ AttemptFailed(t)
      \/ \E e \in Exceptions :
           RecvFails("Auth", e) /\ Return(t, ErrorOf(e), NoAnswer)
  BY DEF AuthAnswered
<1>3. ASSUME NEW a, RecvOk("Auth", a), Return(t, AckVerdict(a.body), Key(a))
      PROVE  OwnInv'
  <2>1. AckVerdict(a.body) \in Outcomes
    BY DEF AckVerdict, Outcomes, Errors
  <2>2. PICK m : m = "Auth"
    OBVIOUS
  <2>3. QED
    BY <1>1, <1>3, <2>1, <2>2, OwnReturnReply
<1>4. ASSUME NEW e, RecvFails("Auth", e), OwnKept
      PROVE  OwnInv'
  BY <1>4, OwnRecvFails, OwnQuiet
<1>5. ASSUME NEW e \in Exceptions, Return(t, ErrorOf(e), NoAnswer)
      PROVE  OwnKept
  BY <1>1, <1>5, ErrorIsOutcome, OwnReturnNoReply
<1>6. QED
  BY <1>1, <1>2, <1>3, <1>4, <1>5, OwnAttemptFailed

LEMMA OwnAuthRetry ==
  ASSUME TypeInv, OwnInv, NEW t \in Threads, AuthRetry(t)
  PROVE  OwnInv'
<1>1. calls' = calls /\ \E e : ReopenSame(e)
  BY DEF AuthRetry
<1>2. QED
  BY <1>1, ReopenSameQuiet, SameCallsOwn, OwnQuiet

LEMMA OwnRuns ==
  ASSUME TypeInv, OwnInv, NEW t \in Threads, Runs(t)
  PROVE  OwnInv'
<1>1. ASSUME NEW o, FileOperation(t, o) PROVE OwnInv'
  BY <1>1, OwnRefuse, OwnSendRequest DEF FileOperation
<1>2. CASE Ping(t)
  BY <1>2, OwnRefuse, OwnSendRequest DEF Ping
<1>3. CASE Connect(t)
  BY <1>3, OwnConnecting DEF Connect
<1>4. CASE Reconnect(t)
  BY <1>4, OwnConnecting DEF Reconnect
<1>5. CASE \/ UploadFile(t) \/ DownloadFile(t) \/ DeleteFile(t)
           \/ RenameFile(t) \/ ListDirectory(t)
  BY <1>5, <1>1 DEF UploadFile, DownloadFile, DeleteFile, RenameFile,
                    ListDirectory
<1>6. QED
  BY <1>2, <1>3, <1>4, <1>5, OwnLocal, OwnAnswered, OwnAuthenticate,
     OwnAuthSend, OwnAuthAnswered, OwnAuthRetry DEF Runs

(* Replies are lost, or the server gives the one it was asked for. *)
LEMMA OwnLinkDrop ==
  ASSUME TypeInv, OwnInv, Net, LinkDrop
  PROVE  OwnInv'
<1>1. UNCHANGED <<wire, gen, clean, calls, pc>>
  BY DEF Net, clientVars, LinkDrop
<1>2. /\ Len(inbox') <= Len(inbox) /\ inbox' \in Seq(Replies)
      /\ \A i \in 1 .. Len(inbox') : inbox'[i] = inbox[i]
  BY LinkDropType DEF TypeInv, LinkTypeOK
<1>3. Len(inbox) \in Nat /\ Len(inbox') \in Nat
  BY <1>2, LenProperties DEF TypeInv, LinkTypeOK
<1>4. inbox = <<>> => inbox' = <<>>
  BY <1>2, <1>3, EmptySeq
<1>5. ASSUME clean PROVE Alone' /\ (Asked' \/ Quiet')
  <2>1. Alone /\ (Asked \/ Quiet)
    BY <1>5 DEF OwnInv
  <2>2. Requested' = Requested
    BY <1>1 DEF Requested
  <2>3. Asked' \/ Quiet'
    BY <1>1, <1>4, <2>1, <2>2 DEF Asked, Quiet
  <2>4. Len(inbox) <= 1
    BY <2>1 DEF Alone
  <2>5. Len(inbox') <= 1
    BY <1>2, <1>3, <2>4
  <2>6. \A k \in 1 .. Len(inbox') : inbox'[k].id = Len(calls)
    <3>1. \A k \in 1 .. Len(inbox') : k \in 1 .. Len(inbox)
      BY <1>2, <1>3
    <3>2. QED
      BY <1>2, <2>1, <3>1 DEF Alone
  <2>7. QED
    BY <1>1, <1>4, <2>1, <2>2, <2>3, <2>5, <2>6 DEF Alone
<1>6. NoneLater' /\ OwnAnswer'
  BY <1>1 DEF OwnInv, NoneLater, OwnAnswer
<1>7. QED
  BY <1>1, <1>5, <1>6 DEF OwnInv

LEMMA OwnServe ==
  ASSUME TypeInv, OwnInv, Net, NEW r \in wire, NEW b, Serve(r, b)
  PROVE  OwnInv'
<1> DEFINE a == [gen |-> r.gen, id |-> r.id, try |-> r.try,
                 method |-> r.method, body |-> b]
<1>1. /\ UNCHANGED <<gen, clean, calls, pc>> /\ wire' = wire \ {r}
      /\ inbox' = inbox \/ (r.gen = gen /\ inbox' = Append(inbox, a))
  BY DEF Net, clientVars, Serve
<1>2. a.id = r.id
  OBVIOUS
<1> HIDE DEF a
<1>3. NoneLater' /\ OwnAnswer'
  BY <1>1 DEF OwnInv, NoneLater, OwnAnswer
<1>4. Requested' = Requested \ {r} /\ (r \in Requested <=> r.gen = gen)
  BY <1>1 DEF Requested
<1>5. ASSUME clean PROVE Alone' /\ (Asked' \/ Quiet')
  <2>1. Alone /\ (Asked \/ Quiet)
    BY <1>5 DEF OwnInv
  <2>2. CASE inbox' = inbox
    BY <1>1, <1>4, <2>1, <2>2 DEF Alone, Asked, Quiet
  <2>3. CASE r.gen = gen /\ inbox' = Append(inbox, a)
    <3>1. r \in Requested
      BY <1>4, <2>3
    <3>2. inbox = <<>> /\ r.id = Len(calls) /\ Requested' = {}
      BY <1>4, <2>1, <3>1 DEF Alone
    <3>3. inbox' = <<a>> /\ Len(<<a>>) = 1 /\ <<a>>[1] = a
      BY <2>3, <3>2
    <3>4. Asked'
      BY <1>1, <2>1, <3>1 DEF Asked, Quiet
    <3>5. QED
      BY <1>1, <1>2, <3>2, <3>3, <3>4 DEF Alone
  <2>4. QED
    BY <1>1, <2>2, <2>3
<1>6. QED
  BY <1>1, <1>3, <1>5 DEF OwnInv

LEMMA OwnInit == Init => OwnInv
<1>1. Len(<<>>) = 0
  BY EmptySeq
<1>2. QED
  BY <1>1 DEF Init, LinkInit, OwnInv, NoneLater, OwnAnswer

LEMMA OwnNext == TypeInv /\ OwnInv /\ [Next]_vars => OwnInv'
<1> SUFFICES ASSUME TypeInv, OwnInv, [Next]_vars
             PROVE  OwnInv'
  OBVIOUS
<1>1. ASSUME NEW t \in Threads, Runs(t) PROVE OwnInv'
  BY <1>1, OwnRuns
<1>2. ASSUME NEW t \in Threads, NEW o, Call(t, o) PROVE OwnInv'
  <2>1. \A u \in Threads : pc[u] = "recv" => pc'[u] = "recv"
    BY <1>2, CallLeaves
  <2>2. QED
    BY <1>2, <2>1, CallLeaves, OwnUntouched DEF linkVars
<1>3. CASE Net
  BY <1>3, OwnLinkDrop, OwnServe DEF Net, NetNext
<1>4. CASE UNCHANGED <<pc, wire, gen, inbox, clean, calls>>
  BY <1>4, OwnUntouched
<1>5. Destroy \/ CreateReturn \/ UNCHANGED vars =>
        UNCHANGED <<pc, wire, gen, inbox, clean, calls>>
  BY DEF Destroy, CreateReturn, vars, clientVars, linkVars
<1>6. CreateGoOn => Call(Creator, "Authenticate") \/
        UNCHANGED <<pc, wire, gen, inbox, clean, calls>>
  BY DEF CreateGoOn, linkVars
<1>7. QED
  BY <1>1, <1>2, <1>3, <1>4, <1>5, <1>6, ThreadsAssumption
     DEF Next, UserCall, Terminated

(* On a connection on which no exchange has failed, a call returns the     *)
(* answer to its own request, although recv_X compares no sequence number. *)
THEOREM AnswersAreOwn == Spec => []OwnAnswer
<1>1. OwnInv => OwnAnswer
  BY DEF OwnInv
<1>2. QED
  BY <1>1, OwnInit, OwnNext, TypeCorrect, PTL DEF Spec

-----------------------------------------------------------------------------
(***************************************************************************)
(* The client keeps its promise: every step of WfsClient is a step of      *)
(* WfsCalls or changes nothing that WfsCalls sees, for any threads, calls  *)
(* and retries.                                                            *)
(*                                                                         *)
(* CallStep sorts the steps of the client by what they do to the calls and *)
(* to the executed requests; each sort is then mapped by itself.           *)
(***************************************************************************)

Abstract(c) ==
  [ method |-> IF c.op \in DOMAIN MethodOf THEN MethodOf[c.op] ELSE "none",
    st     |-> AbstractState(c.res),
    ans    |-> c.ans ]

LEMMA StatesOfOutcomes ==
  /\ \A r \in Outcomes : AbstractState(r) \in Promise!States
  /\ \A r \in Outcomes : AbstractState(r) = "open" <=> r = "running"
  /\ \A r \in Outcomes : AbstractState(r) = "refused" <=> r \in Refusals
BY DEF Outcomes, Errors, AbstractState, Promise!States, Refusals

LEMMA AbstractType ==
  ASSUME NEW c \in CallRecords
  PROVE  Abstract(c) \in Promise!LogRecords
<1>1. \A o \in DOMAIN MethodOf : MethodOf[o] \in Methods
  BY DEF MethodOf, Methods, FileMethods
<1>2. QED
  BY <1>1, StatesOfOutcomes
     DEF CallRecords, Abstract, Promise!LogRecords

LEMMA LogOf ==
  ASSUME calls \in Seq(CallRecords)
  PROVE  /\ AbstractLog \in Seq(Promise!LogRecords)
         /\ Len(AbstractLog) = Len(calls) /\ Len(calls) \in Nat
         /\ \A i \in 1 .. Len(calls) : AbstractLog[i] = Abstract(calls[i])
<1>1. Len(calls) \in Nat /\ \A i \in 1 .. Len(calls) : calls[i] \in CallRecords
  BY LenProperties, ElementOfSeq
<1>2. AbstractLog = [i \in 1 .. Len(calls) |-> Abstract(calls[i])]
  BY DEF AbstractLog, Abstract
<1>3. \A i \in 1 .. Len(calls) : Abstract(calls[i]) \in Promise!LogRecords
  BY <1>1, AbstractType
<1> HIDE DEF Abstract, AbstractLog, Promise!LogRecords
<1>4. AbstractLog \in [1 .. Len(calls) -> Promise!LogRecords]
  BY <1>2, <1>3
<1>5. AbstractLog \in Seq(Promise!LogRecords) /\ Len(AbstractLog) = Len(calls)
  BY <1>1, <1>4
<1>6. \A i \in 1 .. Len(calls) : AbstractLog[i] = Abstract(calls[i])
  BY <1>2
<1>7. QED
  BY <1>1, <1>5, <1>6

LEMMA LogOfNext ==
  ASSUME calls' \in Seq(CallRecords)
  PROVE  /\ AbstractLog' \in Seq(Promise!LogRecords)
         /\ Len(AbstractLog') = Len(calls') /\ Len(calls') \in Nat
         /\ \A i \in 1 .. Len(calls') : AbstractLog'[i] = Abstract(calls'[i])
<1>1. Len(calls') \in Nat /\ \A i \in 1 .. Len(calls') : calls'[i] \in CallRecords
  BY LenProperties, ElementOfSeq
<1>2. AbstractLog' = [i \in 1 .. Len(calls') |-> Abstract(calls'[i])]
  BY DEF AbstractLog, Abstract
<1>3. \A i \in 1 .. Len(calls') : Abstract(calls'[i]) \in Promise!LogRecords
  BY <1>1, AbstractType
<1>4. AbstractLog' \in [1 .. Len(calls') -> Promise!LogRecords]
  BY <1>2, <1>3
<1>5. AbstractLog' \in Seq(Promise!LogRecords) /\ Len(AbstractLog') = Len(calls')
  BY <1>1, <1>4
<1>6. \A i \in 1 .. Len(calls') : AbstractLog'[i] = Abstract(calls'[i])
  BY <1>2
<1>7. QED
  BY <1>1, <1>5, <1>6

LEMMA LogAppended ==
  ASSUME calls \in Seq(CallRecords), NEW c \in CallRecords,
         calls' = Append(calls, c)
  PROVE  AbstractLog' = Append(AbstractLog, Abstract(c))
<1>1. /\ calls' \in Seq(CallRecords) /\ Len(calls') = Len(calls) + 1
      /\ Len(calls) \in Nat
      /\ \A i \in 1 .. Len(calls) : calls'[i] = calls[i]
      /\ calls'[Len(calls')] = c
  BY CallAppended
<1>2. Abstract(c) \in Promise!LogRecords
  BY AbstractType
<1>3. PICK S, old, new, a :
        /\ S = Promise!LogRecords /\ a = Abstract(c)
        /\ old = AbstractLog /\ new = AbstractLog'
  OBVIOUS
<1>4. /\ old \in Seq(S) /\ new \in Seq(S) /\ a \in S
      /\ Len(old) = Len(calls) /\ Len(new) = Len(calls) + 1
  BY <1>1, <1>2, <1>3, LogOf, LogOfNext
<1>5. \A i \in 1 .. Len(old) : new[i] = old[i]
  BY <1>1, <1>3, <1>4, LogOf, LogOfNext
<1>6. new[Len(old) + 1] = a
  BY <1>1, <1>3, <1>4, LogOfNext
<1>7. /\ Append(old, a) \in Seq(S) /\ Len(Append(old, a)) = Len(old) + 1
      /\ \A i \in 1 .. Len(old) : Append(old, a)[i] = old[i]
      /\ Append(old, a)[Len(old) + 1] = a
  BY <1>4, AppendProperties
<1>8. Len(old) \in Nat
  BY <1>1, <1>4
<1>9. \A i \in 1 .. Len(new) : new[i] = Append(old, a)[i]
  BY <1>1, <1>4, <1>5, <1>6, <1>7, <1>8
<1>10. new = Append(old, a)
  BY <1>1, <1>4, <1>7, <1>9, SeqEqual
<1>11. QED
  BY <1>3, <1>10

(* The last call is replaced by one of the same method. *)
LEMMA LogReplaced ==
  ASSUME calls \in Seq(CallRecords), calls # <<>>, NEW c \in CallRecords,
         calls' = [calls EXCEPT ![Id] = c], NEW e,
         e = Abstract(c)
  PROVE  /\ AbstractLog # <<>> /\ Len(AbstractLog) = Len(calls)
         /\ AbstractLog[Len(AbstractLog)] = Abstract(calls[Id])
         /\ AbstractLog' = [AbstractLog EXCEPT ![Len(AbstractLog)] = e]
<1>1. /\ calls' \in Seq(CallRecords) /\ Len(calls') = Len(calls)
      /\ Len(calls) \in Nat \ {0}
      /\ \A i \in 1 .. Len(calls) : i # Len(calls) => calls'[i] = calls[i]
      /\ calls'[Len(calls)] = c
  BY LastCallReplaced
<1>2. PICK S, old, new, n :
        /\ S = Promise!LogRecords /\ n = Len(calls)
        /\ old = AbstractLog /\ new = AbstractLog'
  OBVIOUS
<1>3. /\ old \in Seq(S) /\ new \in Seq(S) /\ n \in Nat \ {0}
      /\ Len(old) = n /\ Len(new) = n
  BY <1>1, <1>2, LogOf, LogOfNext
<1>4. /\ \A i \in 1 .. n : i # n => new[i] = old[i]
      /\ new[n] = e /\ old[n] = Abstract(calls[n])
  <2>1. \A i \in 1 .. n : old[i] = Abstract(calls[i])
    BY <1>2, LogOf
  <2>2. \A i \in 1 .. n : new[i] = Abstract(calls'[i])
    BY <1>1, <1>2, LogOfNext
  <2>3. n \in 1 .. n
    BY SMTT(30), <1>3
  <2>4. \A i \in 1 .. n : i # n => new[i] = old[i]
    BY <1>1, <1>2, <2>1, <2>2
  <2>5. QED
    BY <1>1, <1>2, <2>1, <2>2, <2>3, <2>4
<1>5. e \in S
  BY <1>2, AbstractType
<1>6. n \in 1 .. Len(old)
  BY <1>3
<1>7. /\ [old EXCEPT ![n] = e] \in Seq(S) /\ Len([old EXCEPT ![n] = e]) = n
      /\ \A i \in 1 .. n : [old EXCEPT ![n] = e][i] = IF i = n THEN e ELSE old[i]
  BY <1>3, <1>5, <1>6, ExceptSeq
<1>8. new = [old EXCEPT ![n] = e]
  BY <1>3, <1>4, <1>5, <1>7, SeqEqual
<1>9. old # <<>>
  BY <1>3
<1>10. QED
  BY <1>2, <1>3, <1>4, <1>8, <1>9 DEF Id

-----------------------------------------------------------------------------
(***************************************************************************)
(* What a step does to the calls and to the executed requests              *)
(***************************************************************************)
Silent == calls' = calls /\ executed' = executed

ReturnsAtOnce ==
  \E t \in Threads, o \in Ops, r \in Outcomes \ {"running"} :
    /\ Locks(t, o) /\ ReturnAtOnce(t, r) /\ executed' = executed
    /\ o \in DOMAIN MethodOf => AbstractState(r) # "ok"

Begins ==
  \E t \in Threads, o \in Ops, p \in Holding :
    Locks(t, o) /\ HoldAt(t, p) /\ executed' = executed

GivesUp ==
  \E t \in Threads, r \in Outcomes :
    /\ pc[t] \in Inside /\ Return(t, r, NoAnswer) /\ executed' = executed
    /\ AbstractState(r) = "failed"

GivesAnswer ==
  \E t \in Threads, m \in Methods, r \in Outcomes, a \in Replies :
    /\ pc[t] \in Inside /\ op[t] \in DOMAIN MethodOf /\ m = MethodOf[op[t]]
    /\ RecvOk(m, a) /\ Return(t, r, Key(a))
    /\ AbstractState(r) \in {"ok", "failed"}

Executes ==
  \E r \in wire : executed' = executed \cup {Key(r)} /\ calls' = calls

CallStep ==
  \/ Silent \/ ReturnsAtOnce \/ Begins \/ GivesUp \/ GivesAnswer \/ Executes

LEMMA ErrorFails ==
  ASSUME NEW e \in Exceptions
  PROVE  ErrorOf(e) \in Outcomes \ {"running"} /\ AbstractState(ErrorOf(e)) = "failed"
BY DEF Exceptions, TransportExceptions, ErrorOf, Outcomes, Errors, AbstractState

LEMMA StatesOf ==
  /\ AbstractState("system_error") = "failed"
  /\ AbstractState("auth_limit") = "failed"
  /\ AbstractState("auth_exception") = "failed"
  /\ AbstractState("not_connected") = "refused"
  /\ AbstractState("not_authenticated") = "refused"
BY DEF AbstractState

LEMMA OpsWithoutMethod ==
  /\ {"Connect", "Reconnect", "Disconnect", "Getter"} \cap DOMAIN MethodOf = {}
  /\ FileOps \cup {"Ping", "Authenticate"} = DOMAIN MethodOf
  /\ {"Connect", "Reconnect", "Disconnect", "Getter"} \cup DOMAIN MethodOf = Ops
BY DEF MethodOf, Ops, FileOps

LEMMA ConnectingStep ==
  ASSUME TypeInv, NEW t \in Threads, NEW o \in Ops, Locks(t, o),
         o \notin DOMAIN MethodOf,
         RelockDeadlock(t) \/ RelockThrows(t)
           \/ (~m_isConnected /\ ConnectInternal(t))
  PROVE  CallStep
<1>1. CASE RelockDeadlock(t)
  <2>1. HoldAt(t, "stuck") /\ executed' = executed /\ "stuck" \in Holding
    BY <1>1 DEF RelockDeadlock, linkVars, Holding
  <2>2. QED
    BY <2>1 DEF CallStep, Begins
<1>2. CASE RelockThrows(t)
  <2>1. ReturnAtOnce(t, "system_error") /\ executed' = executed
    BY <1>2 DEF RelockThrows, linkVars
  <2>2. QED
    BY <2>1, OutcomesOf DEF CallStep, ReturnsAtOnce
<1>3. CASE ConnectInternal(t)
  <2>1. executed' = executed
    BY <1>3 DEF ConnectInternal, OpenFresh
  <2>2. \E r \in Outcomes \ {"running"} : ReturnAtOnce(t, r)
    BY <1>3, OutcomesOf, ErrorIsOutcome DEF ConnectInternal
  <2>3. QED
    BY <2>1, <2>2 DEF CallStep, ReturnsAtOnce
<1>4. QED
  BY <1>1, <1>2, <1>3

LEMMA LocalStep ==
  ASSUME TypeInv, NEW t \in Threads, Disconnect(t) \/ Getter(t)
  PROVE  CallStep
<1>1. executed' = executed
  BY DEF Disconnect, CloseAndReset, CloseTransport, Getter, linkVars
<1>2. \E o \in {"Disconnect", "Getter"} : Locks(t, o) /\ ReturnAtOnce(t, "ok")
  BY DEF Disconnect, Getter
<1>3. QED
  BY <1>1, <1>2, OutcomesOf, OpsWithoutMethod DEF CallStep, ReturnsAtOnce

LEMMA RefuseStep ==
  ASSUME NEW t \in Threads, NEW o \in Ops, Locks(t, o),
         EnsureConnected(t) \/ EnsureAuthenticated(t)
  PROVE  CallStep
<1>1. PICK r \in Outcomes \ {"running"} :
        /\ ReturnAtOnce(t, r) /\ UNCHANGED linkVars
        /\ AbstractState(r) = "refused"
  BY OutcomesOf, StatesOf DEF EnsureConnected, EnsureAuthenticated, Refuse
<1>2. executed' = executed
  BY <1>1 DEF linkVars
<1>3. QED
  BY <1>1, <1>2 DEF CallStep, ReturnsAtOnce

LEMMA SendRequestStep ==
  ASSUME NEW t \in Threads, NEW o \in Ops, Locks(t, o), NEW m,
         SendRequest(t, m)
  PROVE  CallStep
<1>1. executed' = executed
  BY DEF SendRequest, SendOk, SendFails
<1>2. CASE HoldAt(t, "recv")
  BY <1>1, <1>2 DEF CallStep, Begins, Holding
<1>3. CASE \E e \in TransportExceptions : ReturnAtOnce(t, ErrorOf(e))
  <2>1. PICK e \in Exceptions : ReturnAtOnce(t, ErrorOf(e))
    BY <1>3 DEF Exceptions
  <2>2. QED
    BY <1>1, <2>1, ErrorFails DEF CallStep, ReturnsAtOnce
<1>4. QED
  BY <1>2, <1>3 DEF SendRequest

LEMMA VerdictState ==
  ASSUME NEW m \in Methods, NEW b \in Bodies(m), b # "exc"
  PROVE  /\ Verdict(m, b) \in Outcomes
         /\ AbstractState(Verdict(m, b)) \in {"ok", "failed"}
BY DEF Methods, FileMethods, Bodies, Verdict, AckVerdict, DataVerdict,
       ListVerdict, Outcomes, Errors, AbstractState

LEMMA AnsweredStep ==
  ASSUME TypeInv, NEW t \in Threads, Answered(t)
  PROVE  CallStep
<1>1. /\ pc[t] \in Inside /\ op[t] \in DOMAIN MethodOf
      /\ MethodOf[op[t]] \in Methods
  BY DEF Answered, Inside, FileOps, MethodOf, Methods, FileMethods
<1>2. PICK m \in Methods : m = MethodOf[op[t]]
  BY <1>1
<1>3. ASSUME NEW a, RecvOk(m, a), Return(t, Verdict(m, a.body), Key(a))
      PROVE  CallStep
  <2>1. a \in Replies /\ a.method = m /\ a.body # "exc"
    BY <1>3, RecvOkLeaves DEF TypeInv
  <2>2. a.body \in Bodies(m)
    BY <2>1 DEF Replies
  <2>3. /\ Verdict(m, a.body) \in Outcomes
        /\ AbstractState(Verdict(m, a.body)) \in {"ok", "failed"}
    BY <2>1, <2>2, VerdictState
  <2>4. QED
    BY <1>1, <1>2, <1>3, <2>1, <2>3 DEF CallStep, GivesAnswer
<1>4. ASSUME NEW e \in Exceptions, RecvFails(m, e),
             Return(t, ErrorOf(e), NoAnswer)
      PROVE  CallStep
  BY <1>1, <1>4, ErrorFails DEF CallStep, GivesUp, RecvFails
<1>5. QED
  BY <1>2, <1>3, <1>4 DEF Answered

LEMMA AuthenticateStep ==
  ASSUME NEW t \in Threads, Authenticate(t)
  PROVE  CallStep
<1>1. Locks(t, "Authenticate") /\ "Authenticate" \in Ops
  BY DEF Authenticate, Ops
<1>2. CASE EnsureConnected(t)
  BY <1>1, <1>2, RefuseStep
<1>3. CASE ReturnAtOnce(t, "auth_limit") /\ UNCHANGED linkVars
  BY <1>1, <1>3, OutcomesOf, StatesOf DEF linkVars, CallStep, ReturnsAtOnce
<1>4. CASE HoldAt(t, "send") /\ UNCHANGED linkVars
  BY <1>1, <1>4 DEF linkVars, CallStep, Begins, Holding
<1>5. QED
  BY <1>2, <1>3, <1>4 DEF Authenticate

LEMMA AttemptFailedStep ==
  ASSUME NEW t \in Threads, pc[t] \in Inside, AttemptFailed(t),
         executed' = executed
  PROVE  CallStep
<1>1. CASE calls' = calls
  BY <1>1 DEF CallStep, Silent
<1>2. CASE Return(t, "auth_exception", NoAnswer)
  BY <1>2, OutcomesOf, StatesOf DEF CallStep, GivesUp
<1>3. QED
  BY <1>1, <1>2 DEF AttemptFailed

LEMMA AuthSendStep ==
  ASSUME NEW t \in Threads, AuthSend(t)
  PROVE  CallStep
<1>1. executed' = executed /\ pc[t] \in Inside
  BY DEF AuthSend, SendOk, SendFails, Inside
<1>2. CASE calls' = calls
  BY <1>1, <1>2 DEF CallStep, Silent
<1>3. CASE AttemptFailed(t)
  BY <1>1, <1>3, AttemptFailedStep
<1>4. QED
  BY <1>2, <1>3 DEF AuthSend

LEMMA AuthAnsweredStep ==
  ASSUME TypeInv, NEW t \in Threads, AuthAnswered(t)
  PROVE  CallStep
<1>1. /\ pc[t] \in Inside /\ op[t] \in DOMAIN MethodOf
      /\ MethodOf[op[t]] = "Auth" /\ "Auth" \in Methods
  BY DEF AuthAnswered, Inside, MethodOf, Methods
<1>2. ASSUME NEW a, RecvOk("Auth", a), Return(t, AckVerdict(a.body), Key(a))
      PROVE  CallStep
  <2>1. a \in Replies
    BY <1>2, RecvOkLeaves DEF TypeInv
  <2>2. /\ AckVerdict(a.body) \in Outcomes
        /\ AbstractState(AckVerdict(a.body)) \in {"ok", "failed"}
    BY DEF AckVerdict, Outcomes, Errors, AbstractState
  <2>3. QED
    BY <1>1, <1>2, <2>1, <2>2 DEF CallStep, GivesAnswer
<1>3. ASSUME NEW e, RecvFails("Auth", e), AttemptFailed(t)
      PROVE  CallStep
  BY <1>1, <1>3, AttemptFailedStep DEF RecvFails
<1>4. ASSUME NEW e \in Exceptions, RecvFails("Auth", e),
             Return(t, ErrorOf(e), NoAnswer)
      PROVE  CallStep
  BY <1>1, <1>4, ErrorFails DEF CallStep, GivesUp, RecvFails
<1>5. QED
  BY <1>2, <1>3, <1>4 DEF AuthAnswered

LEMMA RunsStep ==
  ASSUME TypeInv, NEW t \in Threads, Runs(t)
  PROVE  CallStep
<1>1. ASSUME NEW o \in FileOps, FileOperation(t, o) PROVE CallStep
  BY <1>1, RefuseStep, SendRequestStep, OpsWithoutMethod DEF FileOperation
<1>2. CASE Ping(t)
  BY <1>2, RefuseStep, SendRequestStep, OpsWithoutMethod DEF Ping
<1>3. CASE Connect(t)
  BY <1>3, ConnectingStep, OpsWithoutMethod DEF Connect
<1>4. CASE Reconnect(t)
  BY <1>4, ConnectingStep, OpsWithoutMethod DEF Reconnect
<1>5. CASE UploadFile(t)
  BY <1>5, <1>1 DEF FileOps, UploadFile
<1>6. CASE DownloadFile(t)
  BY <1>6, <1>1 DEF FileOps, DownloadFile
<1>7. CASE DeleteFile(t)
  BY <1>7, <1>1 DEF FileOps, DeleteFile
<1>8. CASE RenameFile(t)
  BY <1>8, <1>1 DEF FileOps, RenameFile
<1>9. CASE ListDirectory(t)
  BY <1>9, <1>1 DEF FileOps, ListDirectory
<1>10. CASE AuthRetry(t)
  BY <1>10 DEF AuthRetry, ReopenSame, CallStep, Silent
<1>11. QED
  BY <1>2, <1>3, <1>4, <1>5, <1>6, <1>7, <1>8, <1>9, <1>10, LocalStep,
     AnsweredStep, AuthenticateStep, AuthSendStep, AuthAnsweredStep DEF Runs

LEMMA NextIsCallStep == TypeInv /\ [Next]_vars => CallStep
<1> SUFFICES ASSUME TypeInv, [Next]_vars
             PROVE  CallStep
  OBVIOUS
<1>1. ASSUME NEW t \in Threads, Runs(t) PROVE CallStep
  BY <1>1, RunsStep
<1>2. ASSUME NEW t \in Threads, NEW o, Call(t, o) PROVE CallStep
  BY <1>2, CallLeaves DEF linkVars, CallStep, Silent
<1>3. CASE Net
  BY <1>3 DEF Net, NetNext, LinkDrop, Serve, clientVars, CallStep, Silent, Executes
<1>4. CASE UNCHANGED <<executed, calls>>
  BY <1>4 DEF CallStep, Silent
<1>5. Destroy \/ CreateReturn \/ UNCHANGED vars => UNCHANGED <<executed, calls>>
  BY DEF Destroy, CreateReturn, vars, clientVars, linkVars
<1>6. CreateGoOn => Call(Creator, "Authenticate") \/ UNCHANGED <<executed, calls>>
  BY DEF CreateGoOn, linkVars
<1>7. QED
  BY <1>1, <1>2, <1>3, <1>4, <1>5, <1>6, ThreadsAssumption
     DEF Next, UserCall, Terminated

-----------------------------------------------------------------------------
(***************************************************************************)
(* Each sort of step, mapped                                               *)
(***************************************************************************)

(* The call that runs has not been given an answer. *)
OpenUnanswered ==
  \A i \in 1 .. Len(calls) : calls[i].res = "running" => calls[i].ans = NoAnswer

LEMMA OpenNext ==
  ASSUME TypeInv, OpenUnanswered, CallStep
  PROVE  OpenUnanswered'
<1>1. CASE Silent \/ Executes
  BY <1>1 DEF Silent, Executes, OpenUnanswered
<1>2. ASSUME NEW t \in Threads, NEW o \in Ops, Locks(t, o),
             (\E r \in Outcomes \ {"running"} : ReturnAtOnce(t, r))
               \/ (\E p : HoldAt(t, p))
      PROVE  OpenUnanswered'
  <2>1. /\ Grows /\ Len(calls') = Len(calls) + 1
        /\ \A i \in 1 .. Len(calls) : calls'[i] = calls[i]
        /\ calls'[Len(calls')].ans = NoAnswer
    BY SMTT(30), <1>2, CallsOfReturnAtOnce, CallsOfHoldAt
  <2>2. QED
    BY <2>1 DEF OpenUnanswered, Grows
<1>3. ASSUME NEW t \in Threads, pc[t] \in Inside, NEW r \in Outcomes \ {"running"},
             NEW a \in Answers, Return(t, r, a)
      PROVE  OpenUnanswered'
  <2>1. op[t] \in Ops /\ calls # <<>> /\ calls \in Seq(CallRecords)
    BY <1>3, HolderHasCall DEF TypeInv, CallInv, CallsType, Inside, Holding
  <2>2. PICK c : c = Entry(op[t], r, a)
    OBVIOUS
  <2>3. c \in CallRecords /\ c.res = r /\ calls' = [calls EXCEPT ![Id] = c]
    BY <1>3, <2>1, <2>2, EntryType DEF Return
  <2>4. /\ Len(calls') = Len(calls)
        /\ \A i \in 1 .. Len(calls) : i # Len(calls) => calls'[i] = calls[i]
        /\ calls'[Len(calls)] = c
    BY <2>1, <2>3, LastCallReplaced
  <2>5. QED
    BY <2>3, <2>4 DEF OpenUnanswered
<1>4. CASE ReturnsAtOnce \/ Begins
  BY <1>2, <1>4 DEF ReturnsAtOnce, Begins
<1>5. CASE GivesUp
  <2>1. \A r \in Outcomes : AbstractState(r) = "failed" => r # "running"
    BY StatesOfOutcomes
  <2>2. QED
    BY <1>3, <1>5, <2>1 DEF GivesUp, Answers
<1>6. CASE GivesAnswer
  <2>1. \A r \in Outcomes : AbstractState(r) \in {"ok", "failed"} => r # "running"
    BY StatesOfOutcomes
  <2>2. QED
    BY <1>3, <1>6, <2>1, ReplyKey DEF GivesAnswer
<1>7. QED
  BY <1>1, <1>4, <1>5, <1>6 DEF CallStep

LEMMA OutcomeOfCall ==
  ASSUME calls \in Seq(CallRecords), NEW i \in 1 .. Len(calls)
  PROVE  calls[i].res \in Outcomes
<1>1. calls[i] \in CallRecords
  BY ElementOfSeq
<1>2. QED
  BY <1>1 DEF CallRecords

LEMMA NoneOpenWhenFree ==
  ASSUME TypeInv, m_mutex = NoThread
  PROVE  Promise!NoneOpen
<1>1. calls \in Seq(CallRecords) /\ \A i \in 1 .. Len(calls) : calls[i].res # "running"
  BY DEF TypeInv, CallInv, CallsType, LastRuns
<1>2. \A i \in 1 .. Len(calls) : calls[i].res \in Outcomes
  BY <1>1, OutcomeOfCall
<1>3. \A i \in 1 .. Len(calls) : Abstract(calls[i]).st # "open"
  BY <1>1, <1>2, StatesOfOutcomes DEF Abstract
<1>4. QED
  BY <1>1, <1>3, LogOf DEF Promise!NoneOpen

(* A call takes the mutex: it begins. *)
LEMMA BeginMapped ==
  ASSUME TypeInv, NEW t \in Threads, NEW o \in Ops, Locks(t, o),
         NEW r \in Outcomes, calls' = Append(calls, Entry(o, r, NoAnswer)),
         executed' = executed, o \in DOMAIN MethodOf => AbstractState(r) # "ok"
  PROVE  Promise!Next
<1>1. Promise!NoneOpen
  BY NoneOpenWhenFree DEF Locks
<1>2. calls \in Seq(CallRecords) /\ Len(calls) + 1 \in CallIds
  BY NextCallHasRoom DEF TypeInv, CallInv, CallsType, Locks
<1>3. Len(AbstractLog) + 1 \in CallIds
  BY <1>2, LogOf
<1>4. PICK c, m, s :
        /\ c = Entry(o, r, NoAnswer) /\ s = AbstractState(r)
        /\ m = IF o \in DOMAIN MethodOf THEN MethodOf[o] ELSE "none"
  OBVIOUS
<1>5. c \in CallRecords /\ c.op = o /\ c.res = r /\ c.ans = NoAnswer
  BY <1>4, EntryType DEF Answers
<1>6. Abstract(c) = Promise!Record(m, s)
  BY <1>4, <1>5 DEF Abstract, Promise!Record
<1>7. AbstractLog' = Append(AbstractLog, Promise!Record(m, s))
  BY <1>2, <1>4, <1>5, <1>6, LogAppended
<1>8. s \in Promise!States
  BY <1>4, StatesOfOutcomes
<1>9. CASE o \in DOMAIN MethodOf
  <2>1. m \in Methods
    BY <1>4, <1>9 DEF MethodOf, Methods, FileMethods
  <2>2. s \in {"open", "failed", "refused"}
    BY <1>4, <1>8, <1>9 DEF Promise!States
  <2>3. Promise!Begin(m, s)
    BY <1>1, <1>3, <1>7, <2>2 DEF Promise!Begin
  <2>4. QED
    BY <1>8, <2>1, <2>3 DEF Promise!Next
<1>10. CASE o \notin DOMAIN MethodOf
  <2>1. m = "none"
    BY <1>4, <1>10
  <2>2. Promise!Local(s)
    BY <1>1, <1>3, <1>7, <2>1 DEF Promise!Local
  <2>3. QED
    BY <1>8, <2>2 DEF Promise!Next
<1>11. QED
  BY <1>9, <1>10

LEMMA BeginsMapped ==
  ASSUME TypeInv, ReturnsAtOnce \/ Begins
  PROVE  Promise!Next
<1>1. CASE ReturnsAtOnce
  BY <1>1, BeginMapped DEF ReturnsAtOnce, ReturnAtOnce, Locks
<1>2. CASE Begins
  <2>1. "running" \in Outcomes /\ AbstractState("running") # "ok"
    BY DEF Outcomes, AbstractState
  <2>2. QED
    BY <1>2, <2>1, BeginMapped DEF Begins, HoldAt, Locks
<1>3. QED
  BY <1>1, <1>2

(* The running call ends: what its record becomes. *)
LEMMA EndMapped ==
  ASSUME TypeInv, OpenUnanswered, NEW t \in Threads, pc[t] \in Inside,
         NEW r \in Outcomes, NEW a \in Answers, Return(t, r, a)
  PROVE  /\ AbstractLog # <<>> /\ Len(AbstractLog) = Len(calls)
         /\ Len(calls) \in 1 .. Len(calls)
         /\ AbstractLog[Len(AbstractLog)].st = "open"
         /\ AbstractLog[Len(AbstractLog)].ans = NoAnswer
         /\ AbstractLog[Len(AbstractLog)].method
              = IF op[t] \in DOMAIN MethodOf THEN MethodOf[op[t]] ELSE "none"
         /\ AbstractLog' =
              [AbstractLog EXCEPT ![Len(AbstractLog)] =
                 [method |-> @.method, st |-> AbstractState(r), ans |-> a]]
<1>1. /\ op[t] \in Ops /\ calls # <<>> /\ calls \in Seq(CallRecords)
      /\ calls[Id].op = op[t] /\ calls[Id].res = "running"
  BY HolderHasCall DEF TypeInv, CallInv, CallsType, Inside, Holding
<1>2. Len(calls) \in 1 .. Len(calls)
  BY <1>1, EmptySeq
<1>3. calls[Id].ans = NoAnswer
  BY <1>1, <1>2 DEF OpenUnanswered, Id
<1>4. PICK c, e, m :
        /\ c = Entry(op[t], r, a) /\ e = Abstract(c)
        /\ m = IF op[t] \in DOMAIN MethodOf THEN MethodOf[op[t]] ELSE "none"
  OBVIOUS
<1>5. /\ c \in CallRecords /\ calls' = [calls EXCEPT ![Id] = c]
      /\ c.op = op[t] /\ c.res = r /\ c.ans = a
  BY <1>1, <1>4, EntryType DEF Return
<1>6. /\ AbstractLog # <<>> /\ Len(AbstractLog) = Len(calls)
      /\ AbstractLog[Len(AbstractLog)] = Abstract(calls[Id])
      /\ AbstractLog' = [AbstractLog EXCEPT ![Len(AbstractLog)] = e]
  BY <1>1, <1>4, <1>5, LogReplaced
<1>7. Abstract(calls[Id]) = [method |-> m, st |-> "open", ans |-> NoAnswer]
  BY <1>1, <1>3, <1>4 DEF Abstract, AbstractState
<1>8. e = [method |-> m, st |-> AbstractState(r), ans |-> a]
  BY <1>4, <1>5 DEF Abstract
<1>9. PICK x : x = AbstractLog[Len(AbstractLog)]
  OBVIOUS
<1>10. x.method = m /\ x.st = "open" /\ x.ans = NoAnswer
  BY <1>6, <1>7, <1>9
<1>11. e = [method |-> x.method, st |-> AbstractState(r), ans |-> a]
  BY <1>8, <1>10
<1>12. QED
  BY <1>2, <1>4, <1>6, <1>9, <1>10, <1>11

LEMMA GivesUpMapped ==
  ASSUME TypeInv, OpenUnanswered, GivesUp
  PROVE  Promise!Next
<1>1. PICK t \in Threads, r \in Outcomes :
        /\ pc[t] \in Inside /\ Return(t, r, NoAnswer) /\ executed' = executed
        /\ AbstractState(r) = "failed"
  BY DEF GivesUp
<1>2. PICK old, n : old = AbstractLog /\ n = Len(AbstractLog)
  OBVIOUS
<1>3. NoAnswer \in Answers
  BY DEF Answers
<1>4. /\ old # <<>> /\ old[n].st = "open" /\ old[n].ans = NoAnswer
      /\ n = Len(calls) /\ n \in 1 .. n
      /\ AbstractLog' =
           [old EXCEPT ![n] = [method |-> @.method, st |-> "failed",
                              ans |-> NoAnswer]]
  BY <1>1, <1>2, <1>3, EndMapped
<1>5. old[n] = Abstract(calls[n])
  BY <1>2, <1>4, LogOf DEF TypeInv, CallInv, CallsType
<1>6. PICK m, d, g : old[n] = [method |-> m, st |-> d, ans |-> g]
  BY <1>5 DEF Abstract
<1>7. [old[n] EXCEPT !.st = "failed"]
        = [method |-> old[n].method, st |-> "failed", ans |-> NoAnswer]
  BY <1>4, <1>6
<1>8. AbstractLog' = [old EXCEPT ![n] = [@ EXCEPT !.st = "failed"]]
  BY <1>4, <1>7
<1>9. Promise!Fail
  BY <1>1, <1>2, <1>4, <1>8 DEF Promise!Fail
<1>10. QED
  BY <1>9 DEF Promise!Next

(* The answer is one the server gave to a request of the method, and that  *)
(* no call has: AnswerInv.                                                 *)
LEMMA GivesAnswerMapped ==
  ASSUME TypeInv, WireInv, AnswerInv, OpenUnanswered, GivesAnswer
  PROVE  Promise!Next
<1>1. PICK t \in Threads, m \in Methods, r \in Outcomes, a \in Replies :
        /\ pc[t] \in Inside /\ op[t] \in DOMAIN MethodOf /\ m = MethodOf[op[t]]
        /\ RecvOk(m, a) /\ Return(t, r, Key(a))
        /\ AbstractState(r) \in {"ok", "failed"}
  BY DEF GivesAnswer
<1>2. PICK k, s : k = Key(a) /\ s = AbstractState(r)
  OBVIOUS
<1>3. k \in Answers
  BY <1>2, ReplyKey
<1>4. /\ AbstractLog # <<>> /\ Len(AbstractLog) = Len(calls)
      /\ AbstractLog[Len(AbstractLog)].st = "open"
      /\ AbstractLog[Len(AbstractLog)].method = m
      /\ AbstractLog' =
           [AbstractLog EXCEPT ![Len(AbstractLog)] =
              [method |-> @.method, st |-> s, ans |-> k]]
  BY <1>1, <1>2, <1>3, EndMapped
<1>5. calls \in Seq(CallRecords) /\ executed' = executed
  BY <1>1 DEF TypeInv, CallInv, CallsType, RecvOk
<1>6. Fresh(a) /\ a.method = m
  <2>1. a = inbox[1] /\ Len(inbox) >= 1 /\ a.method = m
    BY <1>1, RecvOkLeaves DEF TypeInv
  <2>2. 1 \in 1 .. Len(inbox)
    BY <2>1, LenProperties DEF TypeInv, LinkTypeOK
  <2>3. QED
    BY <2>1, <2>2 DEF AnswerInv, StreamInv
<1>7. k \in executed /\ k[1] \in 1 .. Len(calls) /\ k[1] = a.id
  BY <1>2, <1>6, ExecutedKeys DEF Fresh, Key
<1>8. k \notin Promise!Claimed
  <2>1. \A i \in 1 .. Len(AbstractLog) : AbstractLog[i].ans # k
    <3>1. \A i \in 1 .. Len(calls) : AbstractLog[i] = Abstract(calls[i])
      BY <1>5, LogOf
    <3>2. \A i \in 1 .. Len(calls) : calls[i].ans # k
      BY <1>2, <1>6 DEF Fresh
    <3>3. \A c : Abstract(c).ans = c.ans
      BY DEF Abstract
    <3>4. QED
      BY <1>4, <3>1, <3>2, <3>3
  <2>2. QED
    BY <2>1 DEF Promise!Claimed
<1>9. AbstractLog[k[1]].method = m
  <2>1. AbstractLog[k[1]] = Abstract(calls[k[1]])
    BY <1>5, <1>7, LogOf
  <2>2. MethodOfCall(k[1]) = m
    BY <1>6, <1>7 DEF Fresh
  <2>3. QED
    BY <2>1, <2>2 DEF MethodOfCall, Abstract
<1>10. Promise!Answer(k, s)
  BY <1>1, <1>2, <1>4, <1>5, <1>7, <1>8, <1>9 DEF Promise!Answer
<1>11. QED
  BY <1>1, <1>2, <1>7, <1>10 DEF Promise!Next

(* The request that the server executes was not executed before and is one *)
(* of a call that was not refused: WireInv.                                *)
LEMMA ExecutesMapped ==
  ASSUME TypeInv, WireInv, Executes
  PROVE  Promise!Next
<1>1. PICK r \in wire : executed' = executed \cup {Key(r)} /\ calls' = calls
  BY DEF Executes
<1>2. PICK i, k : i = r.id /\ k = r.try
  OBVIOUS
<1>3. r \in Requests /\ Key(r) = <<i, k>> /\ i \in CallIds /\ k \in Attempts
      /\ r.method \in Methods
  BY <1>1, <1>2 DEF TypeInv, LinkTypeOK, Requests, Key
<1>4. /\ <<i, k>> \notin executed /\ i \in 1 .. Len(calls)
      /\ calls[i].res \notin Refusals /\ MethodOfCall(i) = r.method
  BY <1>2, <1>3 DEF WireInv, KeyOK, Issued
<1>5. calls \in Seq(CallRecords) /\ calls[i].res \in Outcomes
  BY <1>4, OutcomeOfCall DEF TypeInv, CallInv, CallsType
<1>6. AbstractLog[i] = Abstract(calls[i]) /\ i \in 1 .. Len(AbstractLog)
  BY <1>4, <1>5, LogOf
<1>7. AbstractLog[i].method # "none"
  BY <1>3, <1>4, <1>6 DEF Abstract, MethodOfCall, Methods, FileMethods
<1>8. AbstractLog[i].st # "refused"
  BY <1>4, <1>5, <1>6, StatesOfOutcomes DEF Abstract
<1>9. AbstractLog' = AbstractLog
  BY <1>1 DEF AbstractLog
<1>10. Promise!Execute(i, k)
  BY <1>1, <1>3, <1>4, <1>6, <1>7, <1>8, <1>9 DEF Promise!Execute
<1>11. QED
  BY <1>3, <1>10 DEF Promise!Next

LEMMA StepMapped ==
  ASSUME TypeInv, WireInv, AnswerInv, OpenUnanswered, [Next]_vars
  PROVE  [Promise!Next]_<<AbstractLog, executed>>
<1>1. CallStep
  BY NextIsCallStep
<1>2. CASE Silent
  BY <1>2 DEF Silent, AbstractLog
<1>3. QED
  BY <1>1, <1>2, BeginsMapped, GivesUpMapped, GivesAnswerMapped,
     ExecutesMapped DEF CallStep

LEMMA InitMapped == Init => Promise!Init /\ OpenUnanswered
<1> SUFFICES ASSUME Init PROVE Promise!Init /\ OpenUnanswered
  OBVIOUS
<1>1. calls = <<>> /\ executed = {} /\ Len(calls) = 0
  BY DEF Init, LinkInit
<1>2. calls \in Seq(CallRecords)
  BY <1>1
<1>3. AbstractLog \in Seq(Promise!LogRecords) /\ Len(AbstractLog) = 0
  BY <1>1, <1>2, LogOf
<1>4. AbstractLog = <<>>
  BY <1>3, EmptySeq
<1>5. QED
  BY <1>1, <1>4 DEF Promise!Init, OpenUnanswered

(* WfsClientImpl implements WfsCalls: calls take effect one at a time, no  *)
(* request is executed more often than it was sent or for a refused call,  *)
(* and every answer is one to a request of the same method and returned    *)
(* once.                                                                   *)
THEOREM ClientKeepsPromise == Spec => KeepsPromise
<1>1. TypeInv /\ OpenUnanswered /\ [Next]_vars => OpenUnanswered'
  BY NextIsCallStep, OpenNext
<1>2. TypeInv /\ WireInv /\ AnswerInv /\ OpenUnanswered /\ [Next]_vars
        => [Promise!Next]_<<AbstractLog, executed>>
  BY StepMapped
<1>3. QED
  BY <1>1, <1>2, WireInit, WireNext, AnswerInit, AnswerNext, InitMapped,
     TypeCorrect, PTL DEF Spec, KeepsPromise, Promise!Spec

-----------------------------------------------------------------------------
(***************************************************************************)
(* SessionEarned                                                           *)
(***************************************************************************)

Accepts(a) == a.method = "Auth" /\ a.body = "ok"
(* File operations on the wire were let through by an earned session; an   *)
(* attempt on the wire or executed is one of those allowed; a reply that   *)
(* accepts an Auth comes from a server that has.                           *)
EarnedInv ==
  /\ SessionEarned
  /\ \A r \in wire :
       /\ r.method \in FileMethods => Earned(r.id)
       /\ r.method = "Auth" => r.try \in 1 .. MaxRetries
  /\ \A k \in executed : MethodOfCall(k[1]) = "Auth" => k[2] \in 1 .. MaxRetries
  /\ \A i \in 1 .. Len(inbox) : Accepts(inbox[i]) => authed # {}

(* What a step of a thread may write, and when it may set the flag.        *)
Writes ==
  \A r \in wire' :
    \/ r \in wire
    \/ r.method = "Ping"
    \/ r.method = "Auth" /\ r.try \in 1 .. MaxRetries
    \/ r.method \in FileMethods /\ m_isAuthenticated /\ r.id = Len(calls) + 1
Believes ==
  m_isAuthenticated' =>
    m_isAuthenticated \/ \E i \in 1 .. Len(inbox) : Accepts(inbox[i])
Earning == UNCHANGED <<authed, executed>> /\ Window /\ Writes /\ Believes

LEMMA EarningQuietly ==
  ASSUME TypeInv, UNCHANGED <<authed, executed, wire>>,
         inbox' = inbox \/ inbox' = <<>>,
         m_isAuthenticated' \in {FALSE, m_isAuthenticated}
  PROVE  Earning
<1>1. Window
  BY NothingNew
<1>2. Writes
  BY DEF Writes
<1>3. Believes
  BY DEF Believes
<1>4. QED
  BY <1>1, <1>2, <1>3 DEF Earning

LEMMA EarningRefuse ==
  ASSUME TypeInv, NEW t, EnsureConnected(t) \/ EnsureAuthenticated(t)
  PROVE  Earning
<1>1. UNCHANGED <<authed, executed, wire, inbox, m_isAuthenticated>>
  BY DEF EnsureConnected, EnsureAuthenticated, Refuse, Record, linkVars
<1>2. QED
  BY <1>1, EarningQuietly

LEMMA HandleBelieves ==
  ASSUME TypeInv, NEW e, Handle(e)
  PROVE  m_isAuthenticated' \in {FALSE, m_isAuthenticated}
BY DEF Handle, TypeInv, FlagsType

LEMMA EarningConnecting ==
  ASSUME TypeInv, NEW t,
         RelockDeadlock(t) \/ RelockThrows(t)
           \/ (~m_isConnected /\ ConnectInternal(t))
  PROVE  Earning
<1>1. CASE RelockDeadlock(t) \/ RelockThrows(t)
  BY <1>1, EarningQuietly
     DEF RelockDeadlock, RelockThrows, KeepFlags, linkVars
<1>2. CASE ConnectInternal(t)
  <2>1. UNCHANGED <<authed, executed, wire>> /\ inbox' = <<>>
    BY <1>2 DEF ConnectInternal, OpenFresh
  <2>2. m_isAuthenticated' \in {FALSE, m_isAuthenticated}
    BY <1>2, HandleBelieves DEF ConnectInternal
  <2>3. QED
    BY <2>1, <2>2, EarningQuietly
<1>3. QED
  BY <1>1, <1>2

LEMMA EarningSendRequest ==
  ASSUME TypeInv, NEW t, NEW m,
         m = "Ping" \/ (m \in FileMethods /\ m_isAuthenticated),
         SendRequest(t, m)
  PROVE  Earning
<1>1. CASE SendOk(m, Id + 1, retry) /\ KeepFlags
  <2>1. UNCHANGED <<authed, executed, inbox, m_isAuthenticated>>
    BY <1>1 DEF SendOk, KeepFlags
  <2>2. Writes
    BY <1>1 DEF SendOk, Writes, Id
  <2>3. QED
    BY <2>1, <2>2, NothingNew DEF Earning, Believes
<1>2. ASSUME NEW e, SendFails(m, e), Handle(e) PROVE Earning
  BY <1>2, HandleBelieves, EarningQuietly DEF SendFails
<1>3. QED
  BY <1>1, <1>2 DEF SendRequest

LEMMA EarningAnswered ==
  ASSUME TypeInv, NEW t, Answered(t)
  PROVE  Earning
<1>1. PICK m : \/ \E a : RecvOk(m, a) /\ UNCHANGED m_isAuthenticated
               \/ \E e : RecvFails(m, e) /\ Handle(e)
  BY DEF Answered
<1>2. UNCHANGED <<authed, executed, wire>>
  BY <1>1 DEF RecvOk, RecvFails
<1>3. Window
  BY <1>1, RecvLeaves DEF Window
<1>4. Believes
  BY <1>1, HandleBelieves DEF Believes
<1>5. QED
  BY <1>2, <1>3, <1>4 DEF Earning, Writes

LEMMA EarningAuthenticate ==
  ASSUME TypeInv, NEW t, Authenticate(t)
  PROVE  Earning
<1>1. CASE EnsureConnected(t)
  BY <1>1, EarningRefuse
<1>2. CASE UNCHANGED linkVars /\ (m_isAuthenticated' = FALSE \/ KeepFlags)
  BY <1>2, EarningQuietly DEF linkVars, KeepFlags
<1>3. QED
  BY <1>1, <1>2 DEF Authenticate

LEMMA EarningAuthSend ==
  ASSUME TypeInv, NEW t \in Threads, AuthSend(t)
  PROVE  Earning
<1>1. retry \in 1 .. MaxRetries
  BY MaxRetriesAssumption DEF AuthSend, TypeInv, CallInv, CallsType, Places, Place
<1>2. UNCHANGED <<authed, executed, inbox>>
  BY DEF AuthSend, SendOk, SendFails
<1>3. Writes
  <2>1. CASE SendOk("Auth", Id, retry)
    <3>1. \A r \in wire' : r \in wire \/ (r.method = "Auth" /\ r.try = retry)
      BY <2>1 DEF SendOk
    <3>2. QED
      BY <1>1, <3>1 DEF Writes
  <2>2. CASE \E e : SendFails("Auth", e)
    BY <2>2 DEF SendFails, Writes
  <2>3. QED
    BY <2>1, <2>2 DEF AuthSend
<1>4. Believes
  BY DEF AuthSend, AttemptFailed, KeepFlags, Believes
<1>5. QED
  BY <1>2, <1>3, <1>4, NothingNew DEF Earning

LEMMA EarningAuthAnswered ==
  ASSUME TypeInv, NEW t, AuthAnswered(t)
  PROVE  Earning
<1>1. \/ \E a : RecvOk("Auth", a) /\ m_isAuthenticated' = (a.body = "ok")
      \/ \E e : RecvFails("Auth", e)
                  /\ (AttemptFailed(t) \/ m_isAuthenticated' = FALSE)
  BY DEF AuthAnswered
<1>2. UNCHANGED <<authed, executed, wire>>
  BY <1>1 DEF RecvOk, RecvFails
<1>3. Window
  BY <1>1, RecvLeaves DEF Window
<1>4. ASSUME NEW a, RecvOk("Auth", a), m_isAuthenticated' = (a.body = "ok")
      PROVE  Believes
  <2>1. inbox \in Seq(Replies) /\ inbox # <<>> /\ a = inbox[1]
        /\ a.method = "Auth"
    BY <1>4 DEF RecvOk, RecvReply, TypeInv, LinkTypeOK
  <2>2. 1 \in 1 .. Len(inbox)
    BY <2>1, EmptySeq, LenProperties
  <2>3. QED
    BY <1>4, <2>1, <2>2 DEF Believes, Accepts
<1>5. ASSUME \E e : RecvFails("Auth", e)
                      /\ (AttemptFailed(t) \/ m_isAuthenticated' = FALSE)
      PROVE  Believes
  <2>1. AttemptFailed(t) => (m_isAuthenticated' => m_isAuthenticated)
    BY DEF AttemptFailed, KeepFlags
  <2>2. m_isAuthenticated' => m_isAuthenticated
    BY <1>5, <2>1
  <2>3. QED
    BY <2>2 DEF Believes
<1>6. QED
  BY <1>1, <1>2, <1>3, <1>4, <1>5 DEF Earning, Writes

LEMMA EarningAuthRetry ==
  ASSUME TypeInv, NEW t, AuthRetry(t)
  PROVE  Earning
<1>1. UNCHANGED <<authed, executed, wire, m_isAuthenticated>>
      /\ inbox' = SubSeq(inbox, 1, rbuf)
  BY DEF AuthRetry, ReopenSame
<1>2. inbox \in Seq(Replies) /\ rbuf \in 0 .. Len(inbox)
  BY DEF TypeInv, LinkTypeOK
<1>3. /\ Len(inbox) \in Nat /\ Len(inbox') = rbuf
      /\ \A i \in 1 .. rbuf : inbox'[i] = inbox[i]
  BY <1>1, <1>2, Prefix, LenProperties
<1>4. /\ 0 \in Nat /\ 0 + Len(inbox') <= Len(inbox) /\ Len(inbox') \in Nat
      /\ \A i \in 1 .. Len(inbox') : inbox'[i] = inbox[i + 0]
  BY <1>2, <1>3
<1>5. QED
  BY <1>1, <1>4 DEF Earning, Window, Writes, Believes

LEMMA EarningRuns ==
  ASSUME TypeInv, NEW t \in Threads, Runs(t)
  PROVE  Earning
<1>1. CASE Connect(t) \/ Reconnect(t)
  BY <1>1, EarningConnecting DEF Connect, Reconnect
<1>2. CASE Disconnect(t) \/ Getter(t)
  <2>1. UNCHANGED <<authed, executed, wire, inbox>>
        /\ m_isAuthenticated' \in {FALSE, m_isAuthenticated}
    BY <1>2 DEF Disconnect, CloseAndReset, CloseTransport, Getter, KeepFlags,
                linkVars
  <2>2. QED
    BY <2>1, EarningQuietly
<1>3. ASSUME NEW o \in FileOps, FileOperation(t, o) PROVE Earning
  <2>1. MethodOf[o] \in FileMethods
    BY DEF FileOps, MethodOf, FileMethods
  <2>2. QED
    BY <1>3, <2>1, EarningRefuse, EarningSendRequest DEF FileOperation
<1>4. CASE \/ UploadFile(t) \/ DownloadFile(t) \/ DeleteFile(t)
           \/ RenameFile(t) \/ ListDirectory(t)
  BY <1>4, <1>3 DEF UploadFile, DownloadFile, DeleteFile, RenameFile,
                    ListDirectory, FileOps
<1>5. CASE Ping(t)
  BY <1>5, EarningRefuse, EarningSendRequest DEF Ping
<1>6. QED
  BY <1>1, <1>2, <1>4, <1>5, EarningAnswered, EarningAuthenticate,
     EarningAuthSend, EarningAuthAnswered, EarningAuthRetry DEF Runs

LEMMA NextGrows == TypeInv /\ [Next]_vars => Grows
<1> SUFFICES ASSUME TypeInv, CallStep PROVE Grows
  BY NextIsCallStep
<1>1. CASE calls' = calls
  BY <1>1, SameCallsGrow
<1>2. CASE ReturnsAtOnce \/ Begins
  BY <1>2, CallsOfReturnAtOnce, CallsOfHoldAt DEF ReturnsAtOnce, Begins
<1>3. CASE GivesUp \/ GivesAnswer
  <2>1. PICK t \in Threads, r \in Outcomes, a \in Answers :
          /\ pc[t] \in Inside /\ Return(t, r, a)
          /\ AbstractState(r) \in {"ok", "failed"}
    BY <1>3, ReplyKey DEF GivesUp, GivesAnswer, Answers
  <2>2. r \in Outcomes \ Refusals /\ pc[t] \in Holding
    BY <2>1, StatesOfOutcomes DEF Inside, Holding
  <2>3. QED
    BY <2>1, <2>2, CallsOfReturn
<1>4. QED
  BY <1>1, <1>2, <1>3 DEF CallStep, Silent, Executes

LEMMA EarnedStays ==
  ASSUME authed \subseteq authed', executed \subseteq executed', NEW i, Earned(i)
  PROVE  Earned(i)'
BY DEF Earned

LEMMA EarnedKept ==
  ASSUME TypeInv, WireInv, AnswerInv, EarnedInv, Grows, Earning
  PROVE  EarnedInv'
<1>1. /\ authed' = authed /\ executed' = executed
      /\ Len(calls) \in Nat /\ Len(calls') \in Nat /\ Len(calls) <= Len(calls')
  BY DEF Earning, Grows
<1>2. \A i : Earned(i) => Earned(i)'
  BY <1>1, EarnedStays
<1>3. m_isAuthenticated' => Earned(Len(calls) + 1)
  <2>1. CASE m_isAuthenticated
    BY <2>1 DEF EarnedInv, SessionEarned
  <2>2. ASSUME NEW i \in 1 .. Len(inbox), Accepts(inbox[i])
        PROVE  Earned(Len(calls) + 1)
    <3>1. /\ Key(inbox[i]) \in executed /\ authed # {}
          /\ MethodOfCall(inbox[i].id) = "Auth"
      BY <2>2 DEF AnswerInv, StreamInv, Fresh, EarnedInv, Accepts
    <3>2. Key(inbox[i])[1] = inbox[i].id
      BY DEF Key
    <3>3. Key(inbox[i])[2] \in 1 .. MaxRetries
      BY <3>1, <3>2 DEF EarnedInv
    <3>4. Key(inbox[i])[1] < Len(calls) + 1
      BY <1>1, <3>1, ExecutedKeys
    <3>5. QED
      BY <3>1, <3>3, <3>4 DEF Earned
  <2>3. QED
    BY <2>1, <2>2 DEF Earning, Believes
<1>4. Earned(Len(calls) + 1) => Earned(Len(calls) + 1)'
  <2>1. ASSUME NEW k \in executed
        PROVE  k[1] < Len(calls') + 1
    <3>1. k[1] \in 1 .. Len(calls)
      BY <2>1, ExecutedKeys
    <3>2. QED
      BY <1>1, <3>1
  <2>2. SUFFICES ASSUME Earned(Len(calls) + 1)
                 PROVE  Earned(Len(calls) + 1)'
    OBVIOUS
  <2>3. PICK k \in executed : k[2] \in 1 .. MaxRetries
    BY <2>2 DEF Earned
  <2>4. authed' # {} /\ k \in executed' /\ k[1] < Len(calls') + 1
    BY <1>1, <2>1, <2>2 DEF Earned
  <2>5. QED
    BY <2>3, <2>4 DEF Earned
<1>5. \A k \in executed : k[1] \in 1 .. Len(calls)
  BY ExecutedKeys
<1>6. \A k \in executed' : calls'[k[1]].op = calls[k[1]].op
                          /\ MethodOfCall(k[1])' = MethodOfCall(k[1])
  BY <1>1, <1>5, MethodStays DEF Grows
<1>7. SessionEarned'
  <2>2. m_isAuthenticated' => Earned(Len(calls) + 1)'
    BY <1>3, <1>4
  <2>3. ASSUME NEW k \in executed', calls'[k[1]].op \in FileOps
        PROVE  Earned(k[1])'
    <3>1. k \in executed /\ calls[k[1]].op \in FileOps
      BY <1>1, <1>6, <2>3
    <3>2. QED
      BY <1>2, <3>1 DEF EarnedInv, SessionEarned
  <2>4. QED
    BY <2>2, <2>3 DEF SessionEarned
<1>8. ASSUME NEW r \in wire'
      PROVE  /\ r.method \in FileMethods => Earned(r.id)'
             /\ r.method = "Auth" => r.try \in 1 .. MaxRetries
  <2>1. CASE r \in wire
    BY <1>2, <2>1 DEF EarnedInv
  <2>2. CASE r.method = "Ping"
    BY <2>2 DEF FileMethods
  <2>3. CASE r.method = "Auth" /\ r.try \in 1 .. MaxRetries
    BY <2>3 DEF FileMethods
  <2>4. CASE r.method \in FileMethods /\ m_isAuthenticated /\ r.id = Len(calls) + 1
    BY <1>2, <2>4 DEF EarnedInv, SessionEarned, FileMethods
  <2>5. QED
    BY <2>1, <2>2, <2>3, <2>4 DEF Earning, Writes
<1>9. ASSUME NEW i \in 1 .. Len(inbox'), Accepts(inbox'[i])
      PROVE  authed' # {}
  <2>1. PICK n \in Nat : /\ n + Len(inbox') <= Len(inbox) /\ Len(inbox') \in Nat
                         /\ \A j \in 1 .. Len(inbox') : inbox'[j] = inbox[j + n]
    BY DEF Earning, Window
  <2>2. i + n \in 1 .. Len(inbox)
    BY <2>1, LenProperties DEF TypeInv, LinkTypeOK
  <2>3. QED
    BY <1>1, <1>9, <2>1, <2>2 DEF EarnedInv, Accepts
<1>10. QED
  BY <1>1, <1>6, <1>7, <1>8, <1>9 DEF EarnedInv

LEMMA EarnedLinkDrop ==
  ASSUME TypeInv, WireInv, AnswerInv, EarnedInv, Net, LinkDrop
  PROVE  EarnedInv'
<1>1. /\ UNCHANGED <<calls, authed, executed, wire, m_isAuthenticated>>
      /\ inbox \in Seq(Replies) /\ Len(inbox) \in Nat
  BY LenProperties DEF Net, clientVars, LinkDrop, TypeInv, LinkTypeOK
<1>2. /\ Len(inbox') <= Len(inbox) /\ inbox' \in Seq(Replies)
      /\ \A i \in 1 .. Len(inbox') : inbox'[i] = inbox[i]
  BY LinkDropType DEF TypeInv, LinkTypeOK
<1>3. /\ 0 \in Nat /\ 0 + Len(inbox') <= Len(inbox) /\ Len(inbox') \in Nat
      /\ \A i \in 1 .. Len(inbox') : inbox'[i] = inbox[i + 0]
  BY <1>1, <1>2, LenProperties
<1>4. Earning
  BY <1>1, <1>3 DEF Earning, Window, Writes, Believes
<1>5. QED
  BY <1>1, <1>4, SameCallsGrow, EarnedKept

LEMMA EarnedServe ==
  ASSUME TypeInv, WireInv, EarnedInv, Net, NEW r \in wire, NEW b, Serve(r, b)
  PROVE  EarnedInv'
<1> DEFINE a == [gen |-> r.gen, id |-> r.id, try |-> r.try,
                 method |-> r.method, body |-> b]
<1>1. /\ UNCHANGED <<calls, m_isAuthenticated>> /\ wire' = wire \ {r}
      /\ executed' = executed \cup {Key(r)}
      /\ authed' = IF r.method = "Auth" /\ b = "ok"
                   THEN authed \cup {r.gen} ELSE authed
      /\ inbox' = inbox \/ inbox' = Append(inbox, a)
  BY DEF Serve, Net, clientVars
<1>2. /\ Key(r)[1] = r.id /\ Key(r)[2] = r.try /\ MethodOfCall(r.id) = r.method
      /\ r.id \in 1 .. Len(calls)
  BY DEF Key, WireInv, KeyOK, Issued
<1>3. \A i : Earned(i) => Earned(i)'
  BY <1>1, EarnedStays
<1>4. calls[r.id].op \in FileOps => Earned(r.id)
  <2>1. calls[r.id].op \in FileOps => MethodOfCall(r.id) \in FileMethods
    BY DEF MethodOfCall, FileOps, MethodOf, FileMethods
  <2>2. QED
    BY <1>2, <2>1 DEF EarnedInv
<1>5. SessionEarned'
  BY <1>1, <1>2, <1>3, <1>4 DEF SessionEarned, EarnedInv
<1>6. \A k \in executed' : MethodOfCall(k[1])' = "Auth" => k[2] \in 1 .. MaxRetries
  BY <1>1, <1>2 DEF EarnedInv, MethodOfCall
<1>7. \A q \in wire' : /\ q.method \in FileMethods => Earned(q.id)'
                       /\ q.method = "Auth" => q.try \in 1 .. MaxRetries
  BY <1>1, <1>3 DEF EarnedInv
<1>8. ASSUME NEW i \in 1 .. Len(inbox'), Accepts(inbox'[i])
      PROVE  authed' # {}
  <2>1. inbox \in Seq(Replies) /\ Len(inbox) \in Nat
    BY LenProperties DEF TypeInv, LinkTypeOK
  <2>2. CASE inbox' = inbox
    BY <1>1, <1>8, <2>2 DEF EarnedInv
  <2>3. CASE inbox' = Append(inbox, a)
    <3>1. a.method = r.method /\ a.body = b
      OBVIOUS
    <3>2. CASE i \in 1 .. Len(inbox)
      <4>1. inbox'[i] = inbox[i]
        BY <2>1, <2>3, <3>2, AppendProperties
      <4>2. QED
        BY <1>1, <1>8, <3>2, <4>1 DEF EarnedInv
    <3>3. CASE i = Len(inbox) + 1
      <4>1. inbox'[i] = a
        BY <2>1, <2>3, <3>3, AppendProperties
      <4>2. QED
        BY <1>1, <1>8, <3>1, <4>1 DEF Accepts
    <3>4. Len(inbox') = Len(inbox) + 1
      BY <2>1, <2>3, AppendProperties
    <3>5. QED
      BY <1>8, <2>1, <3>2, <3>3, <3>4
  <2>4. QED
    BY <1>1, <2>2, <2>3
<1>9. QED
  BY <1>5, <1>6, <1>7, <1>8 DEF EarnedInv

LEMMA EarnedInit == Init => EarnedInv
<1>1. inbox = <<>> => Len(inbox) = 0
  BY EmptySeq
<1>2. QED
  BY <1>1 DEF Init, LinkInit, EarnedInv, SessionEarned

LEMMA EarnedNext ==
  TypeInv /\ WireInv /\ AnswerInv /\ EarnedInv /\ [Next]_vars => EarnedInv'
<1> SUFFICES ASSUME TypeInv, WireInv, AnswerInv, EarnedInv, [Next]_vars
             PROVE  EarnedInv'
  OBVIOUS
<1>1. Grows
  BY NextGrows
<1>2. ASSUME NEW t \in Threads, Runs(t) PROVE EarnedInv'
  BY <1>1, <1>2, EarningRuns, EarnedKept
<1>3. ASSUME NEW t \in Threads, NEW o, Call(t, o) PROVE EarnedInv'
  <2>1. Earning
    BY <1>3, CallLeaves, EarningQuietly DEF linkVars
  <2>2. QED
    BY <1>1, <2>1, EarnedKept
<1>4. CASE Net
  BY <1>4, EarnedLinkDrop, EarnedServe DEF Net, NetNext
<1>5. CASE /\ UNCHANGED <<inbox, wire, authed, executed>>
           /\ m_isAuthenticated' \in {FALSE, m_isAuthenticated}
  BY <1>1, <1>5, EarningQuietly, EarnedKept
<1>6. Destroy \/ CreateReturn \/ UNCHANGED vars =>
        /\ UNCHANGED <<inbox, wire, authed, executed>>
        /\ m_isAuthenticated' \in {FALSE, m_isAuthenticated}
  BY DEF Destroy, CreateReturn, vars, clientVars, linkVars
<1>7. CreateGoOn => Call(Creator, "Authenticate") \/
        UNCHANGED <<inbox, wire, authed, executed, m_isAuthenticated>>
  BY DEF CreateGoOn, linkVars
<1>8. QED
  BY <1>2, <1>3, <1>4, <1>5, <1>6, <1>7, ThreadsAssumption
     DEF Next, UserCall, Terminated

(* A session is earned, for every maxRetries; with 0 there is none, and no *)
(* file operation is ever executed.                                        *)
THEOREM SessionsAreEarned == Spec => []SessionEarned
<1>1. EarnedInv => SessionEarned
  BY DEF EarnedInv
<1>2. QED
  BY <1>1, EarnedInit, EarnedNext, WireInit, WireNext, AnswerInit, AnswerNext,
     TypeCorrect, PTL DEF Spec

(* WfsConnectionParams::maxRetries below 1: the loop of AuthenticateInternal *)
(* makes no attempt, and no path of the client stands in for one.            *)
COROLLARY NoSessionWithoutAttempts ==
  ASSUME MaxRetries = 0
  PROVE  Spec => [](~m_isAuthenticated
                    /\ \A k \in executed : calls[k[1]].op \notin FileOps)
<1>1. SessionEarned => ~m_isAuthenticated
        /\ \A k \in executed : calls[k[1]].op \notin FileOps
  <2>1. \A i : ~Earned(i)
    BY DEF Earned
  <2>2. QED
    BY <2>1 DEF SessionEarned
<1>2. QED
  BY <1>1, SessionsAreEarned, PTL
=============================================================================
