----------------------------- MODULE WfsSample -----------------------------
(***************************************************************************)
(* The example program (examples/wfs_client_sample.cpp): one command line, *)
(* one client made by CreateWfsClient, one operation on it, an exit code.  *)
(* upload reads a local file first and download writes one afterwards      *)
(* (readFile and writeFile of utils.hpp); other programs may change the    *)
(* file that is being read.  The client is WfsClient with this program's   *)
(* only thread, its server and network included.                           *)
(***************************************************************************)
EXTENDS WfsClient

CONSTANTS
  Lines,       \* command lines the program may be started with
  MaxBytes     \* bound: length of a local file and of a downloaded one

ASSUME OneThread == Threads = {Creator} /\ MaxCalls >= 3
ASSUME MaxBytesAssumption == MaxBytes \in Nat

(* The operations, the method each calls, and the arguments it takes after *)
(* the five that every command line has.                                   *)
MethodFor ==
  [ upload |-> "UploadFile", download |-> "DownloadFile",
    delete |-> "DeleteFile", rename |-> "RenameFile",
    list |-> "ListDirectory", ping |-> "Ping" ]
Operations == DOMAIN MethodFor
Arguments ==
  [ upload |-> 2, download |-> 2, delete |-> 1, rename |-> 2, list |-> 1,
    ping |-> 0 ]

(* argc, the operation named, and whether std::stoi takes the port.        *)
CommandLines ==
  [argc : 5 .. 8, operation : Operations \cup {"other"}, port : BOOLEAN]
ASSUME LinesAssumption == Lines \subseteq CommandLines

VARIABLES
  command,     \* the command line
  stage,       \* where main is
  local,       \* bytes of the local file the operation names; 0: none, or empty
  size,        \* what readFile found it to have
  whole,       \* the data to be uploaded is what the file held at the read
  status       \* how the program ended

sampleVars == <<command, stage, local, size, whole, status>>
allVars == <<vars, sampleVars>>

Stages == {"start", "create", "dispatch", "open", "measured", "call", "print",
           "save", "write", "close", "exit", "gone"}

SampleTypeOK ==
  /\ TypeOK
  /\ command \in Lines /\ stage \in Stages
  /\ local \in 0 .. MaxBytes /\ size \in 0 .. MaxBytes
  /\ whole \in BOOLEAN
  /\ status \in {"running", "success", "failure", "usage", "no_client",
                 "aborted"}

SampleInit ==
  /\ Init
  /\ command \in Lines /\ stage = "start"
  /\ local \in 0 .. MaxBytes /\ size = 0 /\ whole = TRUE
  /\ status = "running"

Goto(s) == stage' = s /\ UNCHANGED <<command, status>>
(* main returns: 0 for success, -1 for no_client, else 1. *)
Exit(s) == stage' = "exit" /\ status' = s /\ UNCHANGED command
KeepFile == UNCHANGED <<local, size, whole>>
KeepClient == UNCHANGED vars

-----------------------------------------------------------------------------
(***************************************************************************)
(* main up to the operation                                                *)
(***************************************************************************)

(* std::stoi throws at a port that is no number, and nobody catches it. *)
Start ==
  /\ stage = "start"
  /\ \/ command.argc < 6 /\ Exit("usage")
     \/ command.argc >= 6 /\ command.port /\ Goto("create")
     \/ command.argc >= 6 /\ ~command.port
        /\ stage' = "gone" /\ status' = "aborted" /\ UNCHANGED command
  /\ KeepFile /\ KeepClient

(* The client's own steps: in CreateWfsClient and in the operation.        *)
ClientStep ==
  /\ stage \in {"create", "call"}
  /\ Runs(Creator) \/ CreateGoOn \/ CreateReturn
  /\ UNCHANGED sampleVars

(* What CreateWfsClient returns. *)
CreateWfsClient == Len(calls) = 2 /\ \A i \in 1 .. 2 : calls[i].res = "ok"

Created ==
  /\ stage = "create" /\ phase = "shared"
  /\ IF CreateWfsClient THEN Goto("dispatch") ELSE Exit("no_client")
  /\ KeepFile /\ KeepClient

(* The operation is looked at only now that there is a session. *)
Complete ==
  /\ command.operation \in Operations
  /\ command.argc >= 6 + Arguments[command.operation]

Dispatch ==
  /\ stage = "dispatch"
  /\ \/ ~Complete /\ Exit("usage") /\ KeepClient
     \/ Complete /\ command.operation = "upload" /\ Goto("open") /\ KeepClient
     \/ /\ Complete /\ command.operation # "upload"
        /\ UserCall(Creator, MethodFor[command.operation]) /\ Goto("call")
  /\ KeepFile

-----------------------------------------------------------------------------
(***************************************************************************)
(* readFile                                                                *)
(***************************************************************************)

(* Open, and ask for the length.  It throws when the file cannot be opened *)
(* or has no length that a string can have.                                *)
Measure ==
  /\ stage = "open"
  /\ \/ size' = local /\ Goto("measured") /\ UNCHANGED <<local, whole>>
     \/ Exit("failure") /\ KeepFile
  /\ KeepClient

(* Another program writes to the file. *)
OthersWrite ==
  /\ stage = "measured" /\ local' \in 0 .. MaxBytes
  /\ UNCHANGED <<command, stage, size, whole, status, vars>>

(* Mutant of Read: read until as many bytes as were counted are there. *)
ReadAll ==
  /\ stage = "measured"
  /\ IF local < size THEN UNCHANGED <<stage, command, status, whole, vars>>
     ELSE whole' = (local = size) /\ UserCall(Creator, "UploadFile") /\ Goto("call")
  /\ UNCHANGED <<local, size>>
(* That many bytes are read, or fewer, when the file has become shorter or *)
(* the read fails: nobody asks, and the rest of the data stays zero.       *)
Read ==
  /\ stage = "measured"
  /\ whole' \in {FALSE, local = size}
  /\ UserCall(Creator, "UploadFile") /\ Goto("call")
  /\ UNCHANGED <<local, size>>

-----------------------------------------------------------------------------
(***************************************************************************)
(* The operation and its result                                            *)
(***************************************************************************)

Result == calls[Len(calls)].res
Returned == stage = "call" /\ pc[Creator] = "idle"

(* uploadFile, deleteFile and renameFile report what the client returned. *)
Reported ==
  /\ Returned /\ command.operation \in {"upload", "delete", "rename"}
  /\ Exit(IF Result = "ok" THEN "success" ELSE "failure")
  /\ KeepFile /\ KeepClient

(* Mutant of PingNotNegative: any byte is a response. *)
PingAnything(r) == r \in {"ok", "transport", "thrift", "std", "minus1"}
(* response >= 0: Ping returns -1 for every error, and the server's byte.  *)
PingNotNegative(r) == r = "ok"
Pinged ==
  /\ Returned /\ command.operation = "ping"
  /\ Exit(IF PingNotNegative(Result) THEN "success" ELSE "failure")
  /\ KeepFile /\ KeepClient

Listed ==
  /\ Returned /\ command.operation = "list"
  /\ IF Result = "ok" THEN Goto("print") ELSE Exit("failure")
  /\ KeepFile /\ KeepClient

(* The entries are printed.  std::ctime gives a null pointer for a time it *)
(* cannot show, and no std::string can be made of that.                    *)
PrintList ==
  /\ stage = "print"
  /\ \/ Exit("success")
     \/ stage' = "gone" /\ status' = "aborted" /\ UNCHANGED command
  /\ KeepFile /\ KeepClient

(* Mutant of Downloaded: the file is opened before the result is looked at.*)
DownloadedAnyway ==
  /\ Returned /\ command.operation = "download" /\ Goto("save")
  /\ KeepFile /\ KeepClient
Downloaded ==
  /\ Returned /\ command.operation = "download"
  /\ IF Result = "ok" THEN Goto("save") ELSE Exit("failure")
  /\ KeepFile /\ KeepClient

(* Mutant of CreateFile: the old content stays, the new one comes after it.*)
CreateFileAppending ==
  /\ stage = "save"
  /\ \/ Goto("write") /\ UNCHANGED local
     \/ Exit("failure") /\ UNCHANGED local
  /\ UNCHANGED <<size, whole>> /\ KeepClient
(* writeFile: an ofstream throws the old content away when it opens.       *)
CreateFile ==
  /\ stage = "save"
  /\ \/ Goto("write") /\ local' = 0
     \/ Exit("failure") /\ UNCHANGED local
  /\ UNCHANGED <<size, whole>> /\ KeepClient

(* What has been written is in the file or still in the stream's buffer.   *)
(* A write that fails is noticed, and leaves a part of the data.           *)
WriteFile ==
  /\ stage = "write"
  /\ \/ local' \in local .. local + MaxBytes /\ Goto("close")
     \/ MaxBytes > 0 /\ local' \in local .. local + MaxBytes - 1
        /\ Exit("failure")
  /\ UNCHANGED <<size, whole>> /\ KeepClient

(* The stream's destructor writes the rest and tells nobody if it cannot.  *)
CloseFile ==
  /\ stage = "close"
  /\ local' \in local .. MaxBytes /\ Exit("success")
  /\ UNCHANGED <<size, whole>> /\ KeepClient

(* main has returned, and with it goes the client, if there is one. *)
Leave ==
  /\ stage = "exit" /\ Goto("gone") /\ KeepFile
  /\ IF phase = "shared" THEN Destroy ELSE KeepClient

-----------------------------------------------------------------------------
Program ==
  \/ Start \/ ClientStep \/ Created \/ Dispatch \/ Measure \/ Read
  \/ Reported \/ Pinged \/ Listed \/ PrintList
  \/ Downloaded \/ CreateFile \/ WriteFile \/ CloseFile \/ Leave

Gone == stage = "gone" /\ wire = {} /\ UNCHANGED allVars

SampleNext ==
  \/ Program \/ OthersWrite \/ (Net /\ UNCHANGED sampleVars) \/ Gone

SampleSpec == SampleInit /\ [][SampleNext]_allVars

(* The program runs; its waits for the server end by their timeouts. *)
SampleFairSpec == SampleSpec /\ WF_allVars(Program)

-----------------------------------------------------------------------------
(***************************************************************************)
(* Properties                                                              *)
(***************************************************************************)

(* The program's exit code 0 means that the server executed the request of *)
(* this command, whatever happened in the login's attempts before it and   *)
(* although a negative answer to a Ping and one that failed look the same. *)
SuccessIsExecuted ==
  status = "success" => <<3, 0>> \in executed /\ calls[3].ans = <<3, 0>>

(* Whatever goes wrong before the answer is there, the local file of a     *)
(* download is as it was.                                                  *)
FileKeptUntilAnswer ==
  [][ local' # local /\ command.operation # "upload"
        => Len(calls) = 3 /\ calls[3].res = "ok" ]_allVars

(* The program ends: every wait of the client does, and nothing it does    *)
(* with a file waits for another program.                                  *)
ProgramEnds == <>(stage = "gone")
=============================================================================
