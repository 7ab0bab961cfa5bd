-------------------------- MODULE WfsSampleProofs --------------------------
(***************************************************************************)
(* The example program: what it makes of its client, for every command     *)
(* line, number of retries and file.  Its client is WfsClient, so what was *)
(* proved of that holds here as well; the invariant adds which call is     *)
(* made when, and that main only goes on with what the client returned.    *)
(***************************************************************************)
EXTENDS WfsSample, WfsAnswerProofs

Idle == pc[Creator] = "idle"
Pending == pc[Creator] = "lock"
(* Calls invoked so far: the one that waits for the mutex counts. *)
Made == Len(calls) + IF Pending THEN 1 ELSE 0
(* The calls of the program, in their order. *)
Nth(i) ==
  CASE i = 1 -> "Connect"
    [] i = 2 -> "Authenticate"
    [] OTHER -> MethodFor[command.operation]
InOrder ==
  /\ \A i \in 1 .. Len(calls) : calls[i].op = Nth(i)
  /\ Pending => op[Creator] = Nth(Made)

Creating ==
  stage \in {"start", "create"} =>
    /\ phase \in {"connect", "authenticate", "shared"}
    /\ phase = "connect" => Made = 1
    /\ phase = "authenticate" => Made = 2
    /\ phase = "shared" => Idle /\ Made \in {1, 2}
Ready ==
  /\ stage \in {"dispatch", "open", "measured"} =>
       phase = "shared" /\ Idle /\ Made = 2
  /\ stage \in {"open", "measured"} => command.operation = "upload"
Calling ==
  stage = "call" =>
    phase = "shared" /\ Made = 3 /\ command.operation \in Operations
(* The operation has returned, with an answer. *)
Answer3 ==
  Idle /\ Len(calls) = 3 /\ calls[3].res = "ok"
    /\ command.operation \in Operations
Finishing ==
  /\ stage \in {"print", "save", "write", "close"} => Answer3
  /\ stage \in {"save", "write", "close"} => command.operation = "download"
  /\ stage = "write" => local = 0
  /\ status = "success" => Answer3
  /\ status # "running" => stage \in {"exit", "gone"}

SampleVarsType ==
  /\ command \in Lines /\ stage \in Stages
  /\ local \in 0 .. MaxBytes /\ size \in 0 .. MaxBytes
  /\ whole \in BOOLEAN
  /\ status \in {"running", "success", "failure", "usage", "no_client",
                 "aborted"}
SampleInv ==
  SampleVarsType /\ InOrder /\ Creating /\ Ready /\ Calling /\ Finishing

(* A call of a service method that returns success has been given an       *)
(* answer.                                                                 *)
OkAnswered ==
  \A i \in 1 .. Len(calls) :
    calls[i].res = "ok" /\ calls[i].op \in DOMAIN MethodOf =>
      calls[i].ans # NoAnswer

-----------------------------------------------------------------------------
(***************************************************************************)
(* The program's client is a client                                        *)
(***************************************************************************)
LEMMA ProgramIsNext == [SampleNext]_allVars => [Next]_vars
<1> SUFFICES ASSUME [SampleNext]_allVars PROVE [Next]_vars
  OBVIOUS
<1>1. CASE UNCHANGED allVars
  BY <1>1 DEF allVars
<1>2. Creator \in Threads /\ UserOps \subseteq Ops
  BY ThreadsAssumption, UserOpsAssumption
<1>3. ASSUME NEW o, UserCall(Creator, o) PROVE Next
  <2>1. o \in Ops
    BY <1>2, <1>3 DEF UserCall
  <2>2. QED
    BY <1>2, <1>3, <2>1 DEF Next
<1>4. Runs(Creator) => Next
  BY <1>2 DEF Next
<1>5. CASE Program
  <2>1. CASE ClientStep
    BY <1>4, <2>1 DEF ClientStep, Next
  <2>2. CASE Dispatch \/ Read
    BY <1>3, <2>2 DEF Dispatch, Read, KeepClient
  <2>3. CASE Leave
    BY <2>3 DEF Leave, KeepClient, Next
  <2>4. CASE Start \/ Created \/ Measure \/ Reported \/ Pinged \/ Listed
    BY <2>4 DEF Start, Created, Measure, Reported, Pinged, Listed, KeepClient
  <2>5. CASE PrintList \/ Downloaded \/ CreateFile \/ WriteFile \/ CloseFile
    BY <2>5 DEF PrintList, Downloaded, CreateFile, WriteFile, CloseFile,
                KeepClient
  <2>6. QED
    BY <1>5, <2>1, <2>2, <2>3, <2>4, <2>5 DEF Program
<1>6. CASE OthersWrite \/ Gone \/ Net
  BY <1>6 DEF OthersWrite, Gone, Next, allVars
<1>7. QED
  BY <1>1, <1>5, <1>6 DEF SampleNext

(* The program uses its client as WfsClient lets a thread use it: what is  *)
(* proved of every client is true of this one.                             *)
THEOREM SampleIsClient == SampleSpec => Spec
<1>1. SampleInit => Init
  BY DEF SampleInit
<1>2. QED
  BY <1>1, ProgramIsNext, PTL DEF SampleSpec, Spec

-----------------------------------------------------------------------------
(***************************************************************************)
(* A success has an answer                                                 *)
(***************************************************************************)

(* One more call, or another last one: the calls before it stay. *)
LEMMA OkAppended ==
  ASSUME OkAnswered, calls \in Seq(CallRecords), NEW c \in CallRecords,
         calls' = Append(calls, c),
         c.res = "ok" => c.op \notin DOMAIN MethodOf
  PROVE  OkAnswered'
<1>1. /\ Len(calls) \in Nat /\ Len(calls') = Len(calls) + 1
      /\ \A i \in 1 .. Len(calls) : calls'[i] = calls[i]
      /\ calls'[Len(calls')] = c
  BY SMTT(30), CallAppended
<1>2. QED
  BY <1>1 DEF OkAnswered

LEMMA OkReplaced ==
  ASSUME OkAnswered, calls \in Seq(CallRecords), calls # <<>>,
         NEW c \in CallRecords, calls' = [calls EXCEPT ![Id] = c],
         c.res = "ok" => c.ans # NoAnswer
  PROVE  OkAnswered'
<1>1. /\ Len(calls) \in Nat \ {0} /\ Len(calls') = Len(calls)
      /\ \A i \in 1 .. Len(calls) : i # Len(calls) => calls'[i] = calls[i]
      /\ calls'[Len(calls)] = c
  BY LastCallReplaced
<1>2. QED
  BY <1>1 DEF OkAnswered

LEMMA OkStates ==
  /\ AbstractState("ok") = "ok"
  /\ "ok" # "failed"
BY DEF AbstractState

LEMMA OkNext == TypeInv /\ OkAnswered /\ [Next]_vars => OkAnswered'
<1> SUFFICES ASSUME TypeInv, OkAnswered, CallStep PROVE OkAnswered'
  BY NextIsCallStep
<1>1. calls \in Seq(CallRecords)
  BY DEF TypeInv, CallInv, CallsType
<1>2. CASE calls' = calls
  BY <1>2 DEF OkAnswered
<1>3. CASE ReturnsAtOnce
  <2>1. PICK t \in Threads, o \in Ops, r \in Outcomes \ {"running"} :
          /\ Locks(t, o) /\ ReturnAtOnce(t, r)
          /\ o \in DOMAIN MethodOf => AbstractState(r) # "ok"
    BY <1>3 DEF ReturnsAtOnce
  <2> DEFINE c == Entry(op[t], r, NoAnswer)
  <2>2. c \in CallRecords /\ c.op = o /\ c.res = r
    BY <2>1, EntryType DEF Locks, Answers
  <2>3. calls' = Append(calls, c)
    BY <2>1 DEF ReturnAtOnce
  <2> HIDE DEF c
  <2>4. QED
    BY <1>1, <2>1, <2>2, <2>3, OkStates, OkAppended
<1>4. CASE Begins
  <2>1. PICK t \in Threads, o \in Ops, p \in Holding :
          Locks(t, o) /\ HoldAt(t, p)
    BY <1>4 DEF Begins
  <2> DEFINE c == Entry(op[t], "running", NoAnswer)
  <2>2. c \in CallRecords /\ c.res = "running"
    BY <2>1, EntryType DEF Locks, Answers, Outcomes
  <2>3. calls' = Append(calls, c)
    BY <2>1 DEF HoldAt
  <2> HIDE DEF c
  <2>4. QED
    BY <1>1, <2>2, <2>3, OkAppended
<1>5. CASE GivesUp
  <2>1. PICK t \in Threads, r \in Outcomes :
          /\ pc[t] \in Inside /\ Return(t, r, NoAnswer)
          /\ AbstractState(r) = "failed"
    BY <1>5 DEF GivesUp
  <2> DEFINE c == Entry(op[t], r, NoAnswer)
  <2>2. op[t] \in Ops /\ calls # <<>>
    BY <2>1, HolderHasCall DEF TypeInv, Inside, Holding
  <2>3. c \in CallRecords /\ c.res = r
    BY <2>2, EntryType DEF Answers
  <2>4. calls' = [calls EXCEPT ![Id] = c]
    BY <2>1 DEF Return
  <2> HIDE DEF c
  <2>5. QED
    BY <1>1, <2>1, <2>2, <2>3, <2>4, OkStates, OkReplaced
<1>6. CASE GivesAnswer
  <2>1. PICK t \in Threads, r \in Outcomes, a \in Replies :
          pc[t] \in Inside /\ Return(t, r, Key(a))
    BY <1>6 DEF GivesAnswer
  <2> DEFINE c == Entry(op[t], r, Key(a))
  <2>2. op[t] \in Ops /\ calls # <<>>
    BY <2>1, HolderHasCall DEF TypeInv, Inside, Holding
  <2>3. Key(a) \in Answers /\ Key(a) # NoAnswer
    <3>1. a.id \in CallIds
      BY DEF Replies
    <3>2. a.id # 0
      BY <3>1, MaxCallsAssumption DEF CallIds
    <3>3. QED
      BY <3>2, ReplyKey DEF Key, NoAnswer
  <2>4. c \in CallRecords /\ c.ans = Key(a)
    BY <2>2, <2>3, EntryType
  <2>5. calls' = [calls EXCEPT ![Id] = c]
    BY <2>1 DEF Return
  <2> HIDE DEF c
  <2>6. QED
    BY <1>1, <2>2, <2>3, <2>4, <2>5, OkReplaced
<1>7. QED
  BY <1>2, <1>3, <1>4, <1>5, <1>6 DEF CallStep, Silent, Executes

-----------------------------------------------------------------------------
(***************************************************************************)
(* What a step of the client does to the calls of its only thread          *)
(***************************************************************************)
RunShape(t) ==
  \/ \E o, r : Locks(t, o) /\ ReturnAtOnce(t, r)
  \/ \E o : \E p \in Holding : Locks(t, o) /\ HoldAt(t, p)
  \/ pc[t] \in Inside /\ \E r, a : Return(t, r, a)
  \/ /\ pc[t] \in Inside /\ UNCHANGED <<calls, op, phase>>
     /\ \E p \in Inside : pc' = [pc EXCEPT ![t] = p]

LEMMA ConnectingShape ==
  ASSUME NEW t, NEW o, Locks(t, o),
         RelockDeadlock(t) \/ RelockThrows(t)
           \/ (~m_isConnected /\ ConnectInternal(t))
  PROVE  RunShape(t)
BY DEF RelockDeadlock, RelockThrows, ConnectInternal, RunShape, Holding

LEMMA RequestShape ==
  ASSUME NEW t, NEW o, Locks(t, o), NEW m,
         EnsureConnected(t) \/ EnsureAuthenticated(t) \/ SendRequest(t, m)
  PROVE  RunShape(t)
BY DEF EnsureConnected, EnsureAuthenticated, Refuse, SendRequest, RunShape,
       Holding

LEMMA AttemptShape ==
  ASSUME NEW t, pc[t] \in Inside, AttemptFailed(t)
  PROVE  RunShape(t)
BY DEF AttemptFailed, RunShape, Inside

LEMMA RunsShape ==
  ASSUME NEW t, Runs(t)
  PROVE  RunShape(t)
<1>1. ASSUME NEW o, FileOperation(t, o) PROVE RunShape(t)
  BY <1>1, RequestShape DEF FileOperation
<1>2. CASE \/ UploadFile(t) \/ DownloadFile(t) \/ DeleteFile(t)
           \/ RenameFile(t) \/ ListDirectory(t)
  BY <1>2, <1>1 DEF UploadFile, DownloadFile, DeleteFile, RenameFile,
                    ListDirectory
<1>3. CASE Ping(t)
  BY <1>3, RequestShape DEF Ping
<1>4. CASE Connect(t) \/ Reconnect(t)
  BY <1>4, ConnectingShape DEF Connect, Reconnect
<1>5. CASE Disconnect(t) \/ Getter(t)
  BY <1>5 DEF Disconnect, Getter, RunShape
<1>6. CASE Answered(t)
  BY <1>6 DEF Answered, RunShape, Inside
<1>7. CASE Authenticate(t)
  <2>1. Locks(t, "Authenticate")
    BY <1>7 DEF Authenticate
  <2>2. EnsureConnected(t) => RunShape(t)
    BY <2>1, RequestShape
  <2>3. QED
    BY <1>7, <2>1, <2>2 DEF Authenticate, RunShape, Holding
<1>8. CASE AuthSend(t)
  BY <1>8, AttemptShape DEF AuthSend, RunShape, Inside
<1>9. CASE AuthAnswered(t)
  BY <1>9, AttemptShape DEF AuthAnswered, RunShape, Inside
<1>10. CASE AuthRetry(t)
  BY <1>10 DEF AuthRetry, RunShape, Inside
<1>11. QED
  BY <1>2, <1>3, <1>4, <1>5, <1>6, <1>7, <1>8, <1>9, <1>10 DEF Runs

(* A call that is entered in the list or replaced there, of any type.      *)
LEMMA AnyAppended ==
  ASSUME calls \in Seq(CallRecords), NEW c, calls' = Append(calls, c)
  PROVE  /\ Len(calls) \in Nat /\ Len(calls') = Len(calls) + 1
         /\ \A i \in 1 .. Len(calls) : calls'[i] = calls[i]
         /\ calls'[Len(calls) + 1] = c
<1> DEFINE S == CallRecords \cup {c}
<1>1. calls \in Seq(S) /\ c \in S /\ Len(calls) \in Nat
  <2>1. CallRecords \subseteq S
    OBVIOUS
  <2> HIDE DEF S
  <2>2. calls \in Seq(S) /\ Len(calls) \in Nat
    BY <2>1, SeqMonotonic, LenProperties
  <2>3. QED
    BY <2>2 DEF S
<1> HIDE DEF S
<1>2. QED
  BY <1>1, AppendProperties

LEMMA AnyReplaced ==
  ASSUME calls \in Seq(CallRecords), calls # <<>>, NEW c,
         calls' = [calls EXCEPT ![Len(calls)] = c]
  PROVE  /\ Len(calls') = Len(calls)
         /\ \A i \in 1 .. Len(calls) : i # Len(calls) => calls'[i] = calls[i]
         /\ calls'[Len(calls)] = c
<1> DEFINE S == CallRecords \cup {c}
<1>1. Len(calls) \in 1 .. Len(calls)
  BY EmptySeq
<1>2. calls \in Seq(S) /\ c \in S
  <2>1. CallRecords \subseteq S
    OBVIOUS
  <2> HIDE DEF S
  <2>2. calls \in Seq(S)
    BY <2>1, SeqMonotonic
  <2>3. QED
    BY <2>2 DEF S
<1> HIDE DEF S
<1>3. QED
  BY <1>1, <1>2, ExceptSeq

LEMMA EntryOp == \A o, r, a : Entry(o, r, a).op = o
BY DEF Entry

(* The number of calls and their order stay while the client runs.         *)
LEMMA ClientMoves ==
  ASSUME TypeInv, InOrder, RunShape(Creator), command' = command
  PROVE  /\ phase' = phase /\ ~Idle /\ ~Pending'
         /\ Made' = Made /\ InOrder'
<1>1. calls \in Seq(CallRecords) /\ Creator \in Threads /\ Len(calls) \in Nat
  BY ThreadsAssumption, LenProperties DEF TypeInv, CallInv, CallsType
<1>2. \A i : Nth(i)' = Nth(i)
  BY DEF Nth
<1>3. ASSUME Pending, phase' = phase, ~Pending', NEW r, NEW a,
             calls' = Append(calls, Entry(op[Creator], r, a))
      PROVE  Made' = Made /\ InOrder'
  <2> DEFINE c == Entry(op[Creator], r, a)
  <2>1. c.op = op[Creator] /\ calls' = Append(calls, c)
    BY <1>3, EntryOp
  <2> HIDE DEF c
  <2>2. /\ Len(calls') = Len(calls) + 1
        /\ \A i \in 1 .. Len(calls) : calls'[i] = calls[i]
        /\ calls'[Len(calls) + 1] = c
    BY <1>1, <2>1, AnyAppended
  <2>3. Made' = Made /\ Made = Len(calls) + 1
    BY <1>1, <1>3, <2>2 DEF Made
  <2>4. c.op = Nth(Len(calls) + 1)
    BY <1>3, <2>1, <2>3 DEF InOrder
  <2>5. QED
    BY <1>1, <1>2, <1>3, <2>2, <2>3, <2>4 DEF InOrder
<1>4. CASE \E o, r : Locks(Creator, o) /\ ReturnAtOnce(Creator, r)
  <2>1. PICK r : pc[Creator] = "lock" /\ ReturnAtOnce(Creator, r)
    BY <1>4 DEF Locks
  <2>2. pc'[Creator] = "idle"
    BY <1>1, <2>1, PcOfReturnAtOnce
  <2>3. phase' = phase /\ calls' = Append(calls, Entry(op[Creator], r, NoAnswer))
    BY <2>1 DEF ReturnAtOnce
  <2>4. QED
    BY <1>3, <2>1, <2>2, <2>3 DEF Pending, Idle
<1>5. CASE \E o : \E p \in Holding : Locks(Creator, o) /\ HoldAt(Creator, p)
  <2>1. PICK p \in Holding : pc[Creator] = "lock" /\ HoldAt(Creator, p)
    BY <1>5 DEF Locks
  <2>2. pc'[Creator] = p
    BY <1>1, <2>1, PcOfHoldAt
  <2>3. phase' = phase
        /\ calls' = Append(calls, Entry(op[Creator], "running", NoAnswer))
    BY SMTT(30), <2>1 DEF HoldAt
  <2>4. QED
    BY <1>3, <2>1, <2>2, <2>3 DEF Pending, Idle, Holding
<1>6. CASE pc[Creator] \in Inside /\ \E r, a : Return(Creator, r, a)
  <2>1. PICK r, a : Return(Creator, r, a)
    BY <1>6
  <2>2. /\ calls # <<>> /\ calls[Len(calls)].op = op[Creator]
        /\ ~Pending /\ ~Idle
    BY <1>1, <1>6, HolderHasCall
       DEF TypeInv, Inside, Holding, Id, Pending, Idle
  <2> DEFINE c == Entry(op[Creator], r, a)
  <2>3. /\ c.op = op[Creator] /\ phase' = phase
        /\ calls' = [calls EXCEPT ![Len(calls)] = c]
    BY <2>1, EntryOp DEF Return, Id
  <2> HIDE DEF c
  <2>4. /\ Len(calls') = Len(calls)
        /\ \A i \in 1 .. Len(calls) : i # Len(calls) => calls'[i] = calls[i]
        /\ calls'[Len(calls)] = c
    BY <1>1, <2>2, <2>3, AnyReplaced
  <2>5. ~Pending'
    BY <1>1, <2>1, PcOfReturn DEF Pending
  <2>6. Made' = Made
    BY SMTT(30), <2>2, <2>4, <2>5 DEF Made
  <2>7. \A i \in 1 .. Len(calls) : calls'[i].op = calls[i].op
    BY <2>2, <2>3, <2>4
  <2>8. QED
    BY <1>2, <2>2, <2>3, <2>4, <2>5, <2>6, <2>7 DEF InOrder
<1>7. CASE /\ pc[Creator] \in Inside /\ UNCHANGED <<calls, op, phase>>
           /\ \E p \in Inside : pc' = [pc EXCEPT ![Creator] = p]
  <2>1. ~Pending /\ ~Idle
    BY <1>7 DEF Pending, Idle, Inside
  <2>2. pc'[Creator] \in Inside
    BY <1>1, <1>7 DEF TypeInv, CallInv, CallsType
  <2>3. ~Pending'
    BY <2>2 DEF Pending, Inside
  <2>4. QED
    BY <1>2, <1>7, <2>1, <2>3 DEF Made, InOrder
<1>8. QED
  BY <1>4, <1>5, <1>6, <1>7 DEF RunShape

(* A call is invoked: there is one more. *)
LEMMA InvokeMoves ==
  ASSUME TypeInv, InOrder, NEW o, Call(Creator, o), command' = command,
         Idle => o = Nth(Made + 1)
  PROVE  Idle /\ Pending' /\ Made' = Made + 1 /\ InOrder'
<1>1. Creator \in Threads /\ Len(calls) \in Nat
  BY ThreadsAssumption, LenProperties DEF TypeInv, CallInv, CallsType
<1>2. Idle /\ ~Pending /\ Pending' /\ calls' = calls /\ op'[Creator] = o
  BY <1>1 DEF Call, Idle, Pending, TypeInv, CallInv, CallsType
<1>3. Made' = Made + 1
  BY <1>1, <1>2 DEF Made
<1>4. \A i : Nth(i)' = Nth(i)
  BY DEF Nth
<1>5. QED
  BY <1>2, <1>3, <1>4 DEF InOrder

-----------------------------------------------------------------------------
(***************************************************************************)
(* SampleInv                                                               *)
(***************************************************************************)

LEMMA SampleInvInit == SampleInit => SampleInv
<1> SUFFICES ASSUME SampleInit PROVE SampleInv
  OBVIOUS
<1>1. pc[Creator] = "lock" /\ op[Creator] = "Connect"
      /\ calls = <<>> /\ Len(<<>>) = 0 /\ phase = "connect"
  BY ThreadsAssumption, EmptySeq DEF SampleInit, Init
<1>2. Made = 1 /\ Pending
  BY <1>1 DEF Made, Pending
<1>3. InOrder
  BY <1>1, <1>2 DEF InOrder, Nth
<1>4. SampleVarsType
  BY MaxBytesAssumption DEF SampleInit, SampleVarsType, Stages
<1>5. stage = "start" /\ status = "running"
  BY DEF SampleInit
<1>6. Creating /\ Ready /\ Calling /\ Finishing
  BY <1>1, <1>2, <1>5 DEF Creating, Ready, Calling, Finishing
<1>7. QED
  BY <1>3, <1>4, <1>6 DEF SampleInv

(* A step that leaves the client alone, or only its connection. *)
LEMMA ClientKept ==
  ASSUME UNCHANGED <<pc, op, calls, phase, command>>
  PROVE  /\ UNCHANGED <<Idle, Pending, Made, Answer3>>
         /\ InOrder => InOrder'
BY DEF Idle, Pending, Made, Answer3, InOrder, Nth

LEMMA ClientStepKeeps ==
  ASSUME TypeInv, SampleInv, ClientStep
  PROVE  SampleInv'
<1>1. UNCHANGED sampleVars /\ stage \in {"create", "call"}
  BY DEF ClientStep
<1>2. SampleVarsType' /\ Ready' /\ Finishing'
  BY <1>1 DEF SampleInv, SampleVarsType, Ready, Finishing, sampleVars
<1>3. CASE Runs(Creator)
  <2>1. phase' = phase /\ ~Idle /\ Made' = Made /\ InOrder'
    BY <1>1, <1>3, RunsShape, ClientMoves DEF SampleInv, sampleVars
  <2>2. Creating' /\ Calling'
    BY <1>1, <2>1 DEF SampleInv, sampleVars, Creating, Calling
  <2>3. QED
    BY <1>2, <2>1, <2>2 DEF SampleInv
<1>4. CASE CreateGoOn
  <2>1. phase = "connect" /\ Idle /\ Made = 1 /\ stage = "create"
    BY <1>1, <1>4 DEF CreateGoOn, SampleInv, Creating, Calling, Idle
  <2>2. CASE phase' = "authenticate" /\ Call(Creator, "Authenticate")
    <3>1. Nth(Made + 1) = "Authenticate"
      BY <2>1 DEF Nth
    <3>2. Made' = 2 /\ InOrder'
      BY <1>1, <2>1, <2>2, <3>1, InvokeMoves DEF SampleInv, sampleVars
    <3>3. Creating' /\ Calling'
      BY <1>1, <2>1, <2>2, <3>2 DEF Creating, Calling, sampleVars
    <3>4. QED
      BY <1>2, <3>2, <3>3 DEF SampleInv
  <2>3. CASE phase' = "shared" /\ UNCHANGED <<pc, op, calls>>
    <3>1. Idle' /\ Made' = 1
      BY <2>1, <2>3 DEF Idle, Made, Pending
    <3>2. InOrder'
      BY <1>1, <2>3 DEF SampleInv, sampleVars, InOrder, Nth, Pending, Made
    <3>3. Creating' /\ Calling'
      BY <1>1, <2>1, <2>3, <3>1 DEF Creating, Calling, sampleVars
    <3>4. QED
      BY <1>2, <3>2, <3>3 DEF SampleInv
  <2>4. QED
    BY <1>4, <2>2, <2>3 DEF CreateGoOn
<1>5. CASE CreateReturn
  <2>1. phase = "authenticate" /\ Idle /\ Made = 2 /\ stage = "create"
    BY <1>1, <1>5 DEF CreateReturn, SampleInv, Creating, Calling, Idle
  <2>2. phase' = "shared" /\ UNCHANGED <<pc, op, calls>>
    BY <1>5 DEF CreateReturn
  <2>3. Idle' /\ Made' = 2
    BY <2>1, <2>2 DEF Idle, Made, Pending
  <2>4. InOrder'
    BY <1>1, <2>2 DEF SampleInv, sampleVars, InOrder, Nth, Pending, Made
  <2>5. Creating' /\ Calling'
    BY <1>1, <2>1, <2>2, <2>3 DEF Creating, Calling, sampleVars
  <2>6. QED
    BY <1>2, <2>4, <2>5 DEF SampleInv
<1>6. QED
  BY <1>3, <1>4, <1>5 DEF ClientStep

(* The operation is invoked. *)
LEMMA OperationKeeps ==
  ASSUME TypeInv, SampleInv, stage \in {"dispatch", "measured"},
         command.operation \in Operations, command' = command,
         stage' = "call", status' = status, UNCHANGED <<local, size>>,
         whole' \in BOOLEAN,
         UserCall(Creator, MethodFor[command.operation])
  PROVE  SampleInv'
<1>1. phase = "shared" /\ Idle /\ Made = 2
  BY DEF SampleInv, Ready
<1>2. Nth(Made + 1) = MethodFor[command.operation]
  BY <1>1 DEF Nth
<1>3. PICK o : o = MethodFor[command.operation]
  OBVIOUS
<1>4. Call(Creator, o) /\ phase' = phase
  BY <1>3 DEF UserCall
<1>5. Made' = 3 /\ InOrder'
  BY <1>1, <1>2, <1>3, <1>4, InvokeMoves DEF SampleInv
<1>6. SampleVarsType'
  BY DEF SampleInv, SampleVarsType, Stages
<1>7. status = "running"
  BY DEF SampleInv, Finishing
<1>8. Creating' /\ Ready' /\ Calling' /\ Finishing'
  BY <1>1, <1>4, <1>5, <1>7 DEF Creating, Ready, Calling, Finishing
<1>9. QED
  BY <1>5, <1>6, <1>8 DEF SampleInv

(* The steps of main that leave the client alone. *)
LEMMA BeforeOperation ==
  ASSUME SampleInv, KeepClient,
         \/ Start \/ Created \/ Measure
         \/ (stage = "dispatch" /\ ~Complete /\ Exit("usage") /\ KeepFile)
         \/ (stage = "dispatch" /\ command.operation = "upload"
               /\ Goto("open") /\ KeepFile)
  PROVE  SampleInv'
<1>1. UNCHANGED <<pc, op, calls, phase, command>>
  BY DEF KeepClient, vars, clientVars, Start, Created, Measure, Exit, Goto
<1>2. UNCHANGED <<Idle, Pending, Made, Answer3>> /\ InOrder'
  BY <1>1, ClientKept DEF SampleInv
<1>3. SampleVarsType /\ Creating /\ Ready /\ Calling /\ Finishing
  BY DEF SampleInv
<1>4. CASE Start
  <2>1. SampleVarsType' /\ stage \in {"start"}
        /\ stage' \in {"create", "exit", "gone"} /\ status' # "success"
        /\ (status' # "running" => stage' \in {"exit", "gone"})
    BY <1>3, <1>4 DEF Start, Exit, Goto, KeepFile, SampleVarsType, Stages,
                      Finishing
  <2>2. Creating' /\ Ready' /\ Calling' /\ Finishing'
    BY <1>1, <1>2, <1>3, <2>1 DEF Creating, Ready, Calling, Finishing
  <2>3. QED
    BY <1>2, <2>1, <2>2 DEF SampleInv
<1>5. CASE Created
  <2>1. SampleVarsType' /\ stage = "create" /\ phase = "shared"
        /\ stage' \in {"dispatch", "exit"} /\ status' # "success"
        /\ (status' # "running" => stage' \in {"exit", "gone"})
        /\ (stage' = "dispatch" => Len(calls) = 2)
    BY <1>3, <1>5 DEF Created, CreateWfsClient, Exit, Goto, KeepFile,
                      SampleVarsType, Stages, Finishing
  <2>2. Idle /\ (stage' = "dispatch" => Made = 2)
    BY <1>3, <2>1 DEF Creating, Made, Idle, Pending
  <2>3. Creating' /\ Ready' /\ Calling' /\ Finishing'
    BY <1>1, <1>2, <1>3, <2>1, <2>2 DEF Creating, Ready, Calling, Finishing
  <2>4. QED
    BY <1>2, <2>1, <2>3 DEF SampleInv
<1>6. CASE Measure
  <2>1. SampleVarsType' /\ stage = "open" /\ status' # "success"
        /\ stage' \in {"measured", "exit"}
        /\ (status' # "running" => stage' \in {"exit", "gone"})
    BY <1>3, <1>6 DEF Measure, Exit, Goto, KeepFile, SampleVarsType, Stages,
                      Finishing
  <2>2. Creating' /\ Ready' /\ Calling' /\ Finishing'
    BY <1>1, <1>2, <1>3, <2>1 DEF Creating, Ready, Calling, Finishing
  <2>3. QED
    BY <1>2, <2>1, <2>2 DEF SampleInv
<1>7. CASE /\ stage = "dispatch" /\ KeepFile
           /\ Exit("usage") \/ (command.operation = "upload" /\ Goto("open"))
  <2>1. SampleVarsType' /\ status' # "success"
        /\ (stage' = "exit" \/ (stage' = "open" /\ command.operation = "upload"))
        /\ (status' # "running" => stage' \in {"exit", "gone"})
    BY <1>3, <1>7 DEF Exit, Goto, KeepFile, SampleVarsType, Stages, Finishing
  <2>2. Creating' /\ Ready' /\ Calling' /\ Finishing'
    BY <1>1, <1>2, <1>3, <1>7, <2>1 DEF Creating, Ready, Calling, Finishing
  <2>3. QED
    BY <1>2, <2>1, <2>2 DEF SampleInv
<1>8. QED
  BY <1>4, <1>5, <1>6, <1>7

(* The operation has returned: main goes on with what it returned. *)
LEMMA ReturnedIsThird ==
  ASSUME SampleInv, Returned
  PROVE  /\ Idle /\ Len(calls) = 3 /\ command.operation \in Operations
         /\ Result = "ok" => Answer3
<1>1. Idle /\ Made = 3 /\ command.operation \in Operations
  BY DEF SampleInv, Calling, Returned, Idle
<1>2. Len(calls) = 3
  BY <1>1 DEF Made, Idle, Pending
<1>3. QED
  BY <1>1, <1>2 DEF Result, Answer3

LEMMA AfterOperation ==
  ASSUME SampleInv, KeepClient,
         \/ Reported \/ Pinged \/ Listed \/ PrintList \/ Downloaded
         \/ CreateFile \/ WriteFile \/ CloseFile
  PROVE  SampleInv'
<1>1. UNCHANGED <<pc, op, calls, phase, command>>
  BY DEF KeepClient, vars, clientVars, Reported, Pinged, Listed, PrintList,
         Downloaded, CreateFile, WriteFile, CloseFile, Exit, Goto
<1>2. UNCHANGED <<Idle, Pending, Made, Answer3>> /\ InOrder'
  BY <1>1, ClientKept DEF SampleInv
<1>3. SampleVarsType /\ Finishing
  BY DEF SampleInv
<1>4. /\ stage' \in {"exit", "gone", "print", "save", "write", "close"}
      /\ status' = "success" \/ stage' \notin {"exit", "gone"} => Answer3
      /\ status' # "running" => stage' \in {"exit", "gone"}
      /\ status' \in {"running", "success", "failure", "aborted"}
  <2>1. CASE Reported \/ Pinged \/ Listed \/ Downloaded
    <3>1. Result = "ok" => Answer3
      BY <2>1, ReturnedIsThird DEF Reported, Pinged, Listed, Downloaded
    <3>2. status = "running"
      BY <1>3, <2>1
         DEF Reported, Pinged, Listed, Downloaded, Returned, Finishing
    <3>3. QED
      BY <2>1, <3>1, <3>2
         DEF Reported, Pinged, PingNotNegative, Listed, Downloaded, Exit, Goto
  <2>2. CASE PrintList \/ CreateFile \/ WriteFile \/ CloseFile
    <3>1. Answer3 /\ status = "running"
      BY <1>3, <2>2 DEF PrintList, CreateFile, WriteFile, CloseFile, Finishing
    <3>2. QED
      BY <2>2, <3>1 DEF PrintList, CreateFile, WriteFile, CloseFile, Exit, Goto
  <2>3. QED
    BY <2>1, <2>2
<1>5. /\ stage' \in {"save", "write", "close"} => command.operation = "download"
      /\ stage' = "write" => local' = 0
  <2>1. CASE Reported \/ Pinged \/ Listed \/ PrintList
    BY <2>1 DEF Reported, Pinged, Listed, PrintList, Exit, Goto
  <2>2. CASE Downloaded
    BY <2>2 DEF Downloaded, Exit, Goto
  <2>3. CASE CreateFile \/ WriteFile \/ CloseFile
    BY <1>3, <2>3 DEF CreateFile, WriteFile, CloseFile, Exit, Goto, Finishing
  <2>4. QED
    BY <2>1, <2>2, <2>3
<1>6. SampleVarsType'
  <2>1. /\ stage' \in Stages /\ command' \in Lines
        /\ status' \in {"running", "success", "failure", "usage", "no_client",
                        "aborted"}
    BY <1>1, <1>3, <1>4 DEF SampleVarsType, Stages
  <2>2. size' = size /\ whole' = whole
    BY DEF Reported, Pinged, Listed, PrintList, Downloaded, CreateFile,
           WriteFile, CloseFile, KeepFile
  <2>3. local' \in 0 .. MaxBytes
    <3>1. CASE Reported \/ Pinged \/ Listed \/ PrintList \/ Downloaded
      BY <1>3, <3>1 DEF Reported, Pinged, Listed, PrintList, Downloaded,
                        KeepFile, SampleVarsType
    <3>2. CASE CreateFile
      BY <1>3, <3>2, MaxBytesAssumption DEF CreateFile, SampleVarsType
    <3>3. CASE WriteFile
      <4>1. local = 0 /\ MaxBytes \in Nat
        BY <1>3, <3>3, MaxBytesAssumption DEF WriteFile, Finishing
      <4>2. QED
        BY <3>3, <4>1 DEF WriteFile
    <3>4. CASE CloseFile
      BY <1>3, <3>4, MaxBytesAssumption DEF CloseFile, SampleVarsType
    <3>5. QED
      BY <3>1, <3>2, <3>3, <3>4
  <2>4. QED
    BY <1>3, <2>1, <2>2, <2>3 DEF SampleVarsType
<1>7. Creating' /\ Ready' /\ Calling'
  BY <1>4 DEF Creating, Ready, Calling
<1>8. Finishing'
  BY <1>1, <1>2, <1>4, <1>5 DEF Finishing
<1>9. QED
  BY <1>2, <1>6, <1>7, <1>8 DEF SampleInv

(* A step in which main does not move, or ends. *)
LEMMA MainStays ==
  ASSUME SampleInv, UNCHANGED <<pc, op, calls, command, status, size, whole>>,
         local' \in 0 .. MaxBytes,
         \/ stage' = stage /\ phase' = phase /\ (local' = local \/ stage = "measured")
         \/ stage = "exit" /\ stage' = "gone"
  PROVE  SampleInv'
<1>1. UNCHANGED <<Idle, Pending, Made, Answer3>> /\ InOrder'
  BY DEF SampleInv, Idle, Pending, Made, Answer3, InOrder, Nth
<1>2. SampleVarsType'
  BY DEF SampleInv, SampleVarsType, Stages
<1>3. CASE stage' = stage /\ phase' = phase
  BY <1>1, <1>2, <1>3 DEF SampleInv, Creating, Ready, Calling, Finishing
<1>4. CASE stage = "exit" /\ stage' = "gone"
  BY <1>1, <1>2, <1>4 DEF SampleInv, Creating, Ready, Calling, Finishing
<1>5. QED
  BY <1>3, <1>4

LEMMA SampleInvNext == TypeInv /\ SampleInv /\ [SampleNext]_allVars => SampleInv'
<1> SUFFICES ASSUME TypeInv, SampleInv, [SampleNext]_allVars PROVE SampleInv'
  OBVIOUS
<1>1. local \in 0 .. MaxBytes
  BY DEF SampleInv, SampleVarsType
<1>2. CASE UNCHANGED allVars \/ Gone
  BY <1>1, <1>2, MainStays DEF Gone, allVars, vars, clientVars, sampleVars
<1>3. CASE OthersWrite
  BY <1>3, MainStays DEF OthersWrite, vars, clientVars
<1>4. CASE Net /\ UNCHANGED sampleVars
  BY <1>1, <1>4, MainStays DEF Net, clientVars, sampleVars
<1>5. CASE Leave
  <2>1. UNCHANGED <<pc, op, calls>>
    BY <1>5 DEF Leave, Destroy, KeepClient, vars, clientVars
  <2>2. QED
    BY <1>1, <1>5, <2>1, MainStays DEF Leave, Goto, KeepFile
<1>6. CASE ClientStep
  BY <1>6, ClientStepKeeps
<1>7. CASE Dispatch
  <2>1. stage = "dispatch" /\ KeepFile
    BY <1>7 DEF Dispatch
  <2>2. CASE ~Complete /\ Exit("usage") /\ KeepClient
    BY <2>1, <2>2, BeforeOperation
  <2>3. CASE command.operation = "upload" /\ Goto("open") /\ KeepClient
    BY <2>1, <2>3, BeforeOperation
  <2>4. CASE /\ Complete /\ Goto("call")
             /\ UserCall(Creator, MethodFor[command.operation])
    <3>1. command.operation \in Operations
      BY <2>4 DEF Complete
    <3>2. whole' \in BOOLEAN /\ local' = local /\ size' = size
      BY <2>1 DEF KeepFile, SampleInv, SampleVarsType
    <3>3. stage' = "call" /\ command' = command /\ status' = status
      BY <2>4 DEF Goto
    <3>4. QED
      BY <2>1, <2>4, <3>1, <3>2, <3>3, OperationKeeps
  <2>5. QED
    BY <1>7, <2>2, <2>3, <2>4 DEF Dispatch
<1>8. CASE Read
  <2>1. command.operation = "upload" /\ stage = "measured"
    BY <1>8 DEF Read, SampleInv, Ready
  <2>2. /\ MethodFor[command.operation] = "UploadFile"
        /\ command.operation \in Operations
    BY <2>1 DEF MethodFor, Operations
  <2>3. whole' \in BOOLEAN
    BY <1>8 DEF Read
  <2>4. QED
    BY <1>8, <2>1, <2>2, <2>3, OperationKeeps DEF Read, Goto
<1>9. CASE Start \/ Created \/ Measure
  BY <1>9, BeforeOperation DEF Start, Created, Measure
<1>10. CASE \/ Reported \/ Pinged \/ Listed \/ PrintList \/ Downloaded
            \/ CreateFile \/ WriteFile \/ CloseFile
  BY <1>10, AfterOperation DEF Reported, Pinged, Listed, PrintList, Downloaded,
                               CreateFile, WriteFile, CloseFile
<1>11. QED
  BY <1>2, <1>3, <1>4, <1>5, <1>6, <1>7, <1>8, <1>9, <1>10
     DEF SampleNext, Program

LEMMA OkInit == Init => OkAnswered
BY EmptySeq DEF Init, OkAnswered

LEMMA SampleCorrect ==
  SampleSpec => []TypeInv /\ []WireInv /\ []AnswerInv /\ []OkAnswered /\ []SampleInv
<1>1. SampleInit => Init
  BY DEF SampleInit
<1>2. SampleInit => TypeInv /\ WireInv /\ AnswerInv /\ OkAnswered /\ SampleInv
  BY <1>1, TypeInvInit, WireInit, AnswerInit, OkInit, SampleInvInit
<1>3. TypeInv /\ [SampleNext]_allVars => TypeInv'
  BY ProgramIsNext, TypeInvNext
<1>4. TypeInv /\ WireInv /\ [SampleNext]_allVars => WireInv'
  BY ProgramIsNext, WireNext
<1>5. TypeInv /\ WireInv /\ AnswerInv /\ [SampleNext]_allVars => AnswerInv'
  BY ProgramIsNext, AnswerNext
<1>6. TypeInv /\ OkAnswered /\ [SampleNext]_allVars => OkAnswered'
  BY ProgramIsNext, OkNext
<1>7. QED
  BY <1>2, <1>3, <1>4, <1>5, <1>6, SampleInvNext, PTL DEF SampleSpec

-----------------------------------------------------------------------------
(***************************************************************************)
(* Theorems                                                                *)
(***************************************************************************)

(* The program and its client are only ever in states of their types.      *)
THEOREM SampleTypes == SampleSpec => []SampleTypeOK
<1>1. TypeInv /\ SampleInv => SampleTypeOK
  BY TypeInvImpliesTypeOK DEF SampleInv, SampleVarsType, SampleTypeOK
<1>2. QED
  BY <1>1, SampleCorrect, PTL

(* The answer that the operation's call was given is its own: no request   *)
(* of another of the program's calls was for the operation's method.       *)
LEMMA AnswerIsTheOperations ==
  ASSUME TypeInv, WireInv, AnswerInv, OkAnswered, SampleInv, Answer3
  PROVE  <<3, 0>> \in executed /\ calls[3].ans = <<3, 0>>
<1> DEFINE k == calls[3].ans
<1>1. /\ 3 \in 1 .. Len(calls) /\ Len(calls) = 3 /\ calls[3].res = "ok"
      /\ command.operation \in Operations
  BY DEF Answer3
<1>2. /\ calls[1].op = "Connect" /\ calls[2].op = "Authenticate"
      /\ calls[3].op = MethodFor[command.operation]
  BY <1>1 DEF SampleInv, InOrder, Nth
<1>3. /\ calls[3].op \in DOMAIN MethodOf
      /\ calls[3].op \notin {"Connect", "Authenticate"}
  BY <1>1, <1>2 DEF MethodFor, Operations, MethodOf
<1>4. k # NoAnswer
  BY <1>1, <1>3 DEF OkAnswered
<1>5. k \in executed /\ calls[k[1]].op = calls[3].op
  BY <1>1, <1>4 DEF AnswerInv, AnswersOnce
<1>6. Issued(k)
  BY <1>5 DEF WireInv, KeyOK
<1>7. k[1] \in 1 .. 3 /\ (k[2] # 0 => calls[k[1]].op = "Authenticate")
  BY <1>1, <1>6 DEF Issued
<1>8. k[1] = 3 /\ k[2] = 0
  BY <1>2, <1>3, <1>5, <1>7
<1>9. k = <<k[1], k[2]>>
  BY <1>5 DEF TypeInv, LinkTypeOK
<1>10. QED
  BY <1>5, <1>8, <1>9

(* Exit code 0 means that the server executed the request of this command  *)
(* and that its answer was read, for any number of attempts to log in.     *)
THEOREM SuccessIsTrue == SampleSpec => []SuccessIsExecuted
<1>1. ASSUME TypeInv, WireInv, AnswerInv, OkAnswered, SampleInv
      PROVE  SuccessIsExecuted
  <2>1. status = "success" => Answer3
    BY <1>1 DEF SampleInv, Finishing
  <2>2. QED
    BY <1>1, <2>1, AnswerIsTheOperations DEF SuccessIsExecuted
<1>2. QED
  BY <1>1, SampleCorrect, PTL

(* The local file of a download is only touched with the answer at hand.   *)
THEOREM FileIsKept == SampleSpec => FileKeptUntilAnswer
<1> DEFINE Kept == local' # local /\ command.operation # "upload"
                     => Len(calls) = 3 /\ calls[3].res = "ok"
<1>1. ASSUME SampleInv, [SampleNext]_allVars PROVE Kept
  <2>1. CASE CreateFile \/ WriteFile \/ CloseFile
    BY <1>1, <2>1
       DEF CreateFile, WriteFile, CloseFile, SampleInv, Finishing, Answer3
  <2>2. CASE OthersWrite
    BY <1>1, <2>2 DEF OthersWrite, SampleInv, Ready
  <2>3. CASE UNCHANGED local
    BY <2>3
  <2>4. \/ CreateFile \/ WriteFile \/ CloseFile \/ OthersWrite
        \/ UNCHANGED local
    BY <1>1 DEF SampleNext, Program, Start, ClientStep, Created, Dispatch,
                Measure, Read, Reported, Pinged, Listed, PrintList,
                Downloaded, Leave, Gone, KeepFile, sampleVars, allVars
  <2>5. QED
    BY <2>1, <2>2, <2>3, <2>4
<1>2. SampleInv /\ [SampleNext]_allVars => [Kept]_allVars
  BY <1>1
<1>3. QED
  BY <1>2, SampleCorrect, PTL DEF SampleSpec, FileKeptUntilAnswer
=============================================================================
