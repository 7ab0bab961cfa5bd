------------------------------ MODULE WfsCalls ------------------------------
(***************************************************************************)
(* What a client object promises about the calls made on it, whatever the  *)
(* network and the server do (IWfsClient, include/wfs_client).             *)
(*                                                                         *)
(*  - Calls take effect one at a time: one begins when none is open.       *)
(*  - A request is executed at most once per attempt; a call that was      *)
(*    refused is never executed.  A call that failed may have been         *)
(*    executed, or may still be: its caller cannot tell.                   *)
(*  - A call that returns an answer returns one that the server gave to a  *)
(*    request of the same method, and no answer is returned twice.         *)
(*                                                                         *)
(* That the answer is the one to the call's own request is not promised.   *)
(***************************************************************************)
EXTENDS Naturals, Sequences

CONSTANTS
  Methods,      \* the methods of the service
  CallIds,      \* numbers of the calls
  Attempts,     \* how often one call may send its request, numbered
  Unanswered    \* the answer of a call that was given none

VARIABLES
  log,          \* the calls in the order in which they take effect
  executed      \* requests, <<call, attempt>>, that the server has executed

States == {"open", "ok", "failed", "refused"}
LogRecords ==
  [method : Methods \cup {"none"}, st : States,
   ans : (CallIds \X Attempts) \cup {Unanswered}]

Claimed == {log[i].ans : i \in 1 .. Len(log)} \ {Unanswered}
NoneOpen == \A i \in 1 .. Len(log) : log[i].st # "open"
Record(m, s) == [method |-> m, st |-> s, ans |-> Unanswered]

Init == log = <<>> /\ executed = {}

(* A method of the service is called; it stays open, or fails on the spot. *)
Begin(m, s) ==
  /\ NoneOpen /\ Len(log) + 1 \in CallIds
  /\ s \in {"open", "failed", "refused"}
  /\ log' = Append(log, Record(m, s))
  /\ UNCHANGED executed

(* A method that makes no request is called. *)
Local(s) ==
  /\ NoneOpen /\ Len(log) + 1 \in CallIds
  /\ log' = Append(log, Record("none", s))
  /\ UNCHANGED executed

(* The server executes a request: during its call or at any time after it. *)
Execute(i, k) ==
  /\ i \in 1 .. Len(log) /\ log[i].method # "none" /\ log[i].st # "refused"
  /\ <<i, k>> \notin executed
  /\ executed' = executed \cup {<<i, k>>}
  /\ UNCHANGED log

(* The open call returns the answer to a. *)
Answer(a, s) ==
  /\ log # <<>> /\ log[Len(log)].st = "open"
  /\ a \in executed \ Claimed
  /\ log[a[1]].method = log[Len(log)].method
  /\ s \in {"ok", "failed"}
  /\ log' = [log EXCEPT ![Len(log)] = [method |-> @.method, st |-> s, ans |-> a]]
  /\ UNCHANGED executed

(* The open call fails without an answer. *)
Fail ==
  /\ log # <<>> /\ log[Len(log)].st = "open"
  /\ log' = [log EXCEPT ![Len(log)] = [@ EXCEPT !.st = "failed"]]
  /\ UNCHANGED executed

Next ==
  \/ \E m \in Methods, s \in States : Begin(m, s)
  \/ \E s \in States : Local(s)
  \/ \E i \in CallIds, k \in Attempts : Execute(i, k)
  \/ \E a \in executed, s \in {"ok", "failed"} : Answer(a, s)
  \/ Fail

Spec == Init /\ [][Next]_<<log, executed>>
=============================================================================
