----------------------------- MODULE WfsClaims -----------------------------
(***************************************************************************)
(* What the repository says of the client in its comments, its messages    *)
(* and its interface, and the code does not keep.  Each is checked by a    *)
(* run of its own, which ends in a counterexample.                         *)
(***************************************************************************)
EXTENDS WfsClient

(* The last call, returned, on a client that still exists. *)
LastReturned(o, r) ==
  /\ m_mutex = NoThread /\ phase # "destroyed" /\ calls # <<>>
  /\ calls[Len(calls)].op = o /\ calls[Len(calls)].res = r

(* "Connect to server", "Reconnect to server" (iwfs_client.hpp): the call  *)
(* returns.  On a connected client it waits for the mutex it holds.        *)
ConnectReturns ==
  \A t \in Threads :
    pc[t] = "lock" /\ op[t] \in {"Connect", "Reconnect"} ~> pc[t] = "idle"

(* "Ensure connection and authentication status": a file operation that is *)
(* let through is sent on a connection the server has authenticated.       *)
FileRequestsAuthenticated ==
  \A r \in wire : r.method \in FileMethods => r.gen \in authed

(* "Disconnect from server": after it the socket is not open. *)
DisconnectCloses == LastReturned("Disconnect", "ok") => sock # "open"

(* "File upload successful: {name}": an UploadFile that returns success    *)
(* was executed by the server.                                             *)
UploadSuccessIsUpload ==
  \A i \in 1 .. Len(calls) :
    calls[i].op = "UploadFile" /\ calls[i].res = "ok" => <<i, 0>> \in executed
=============================================================================
