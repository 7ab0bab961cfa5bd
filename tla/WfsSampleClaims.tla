-------------------------- MODULE WfsSampleClaims --------------------------
(***************************************************************************)
(* What the example program says of its operation when it is over, and the *)
(* code does not keep.                                                     *)
(***************************************************************************)
EXTENDS MCSample

(* "Client created successfully": the client says that it is connected. *)
ClientIsConnected == stage = "dispatch" => m_isConnected

(* "File downloaded successfully: {} -> {} ({} bytes)": the file has them. *)
DownloadIsSaved ==
  status = "success" /\ command.operation = "download" => local = MaxBytes

(* "Reading local file: {} ({} bytes)", "File uploaded successfully!": the *)
(* server was given what the file held.                                    *)
UploadIsTheFile ==
  status = "success" /\ command.operation = "upload" => whole

(* "Ping failed": the server has not answered. *)
PingFailedIsNoAnswer ==
  status = "failure" /\ command.operation = "ping" => calls[3].ans = NoAnswer

(* "Directory listing successful: {} (total {} items)": the answer that a  *)
(* ListDirectory returns success on says nothing of an error.              *)
ListingHasNoError ==
  \A i \in 1 .. Len(calls) :
    /\ calls[i].op = "ListDirectory" /\ calls[i].res = "running"
    /\ calls'[i].res = "ok"
    => Head(inbox).body \notin {"error", "error_nocode"}

(* Each report of the program is true: a client that was created is        *)
(* connected, a successful download has been saved, an upload was the      *)
(* file's content, a listing is no error, a failed ping was not answered.  *)
ReportIsTrue ==
  /\ [](ClientIsConnected /\ DownloadIsSaved /\ UploadIsTheFile
          /\ PingFailedIsNoAnswer)
  /\ [][ListingHasNoError]_vars
=============================================================================
