------------------------------- MODULE WfsMux -------------------------------
(***************************************************************************)
(* What a client that many threads share over one connection promises,     *)
(* whatever the order in which the server answers: every call has a number *)
(* of its own, its request is taken up by the server at most once, and a   *)
(* call that returns a reply returns the one the server gave to it.        *)
(***************************************************************************)
CONSTANTS
  Ids,       \* numbers of the calls
  Outcomes   \* what the server may say to a request: a reply or an exception

VARIABLES
  call,      \* what has become of each call
  given      \* what the server has said to it, or "nothing"

Init == call = [i \in Ids |-> "unborn"] /\ given = [i \in Ids |-> "nothing"]

Begin(i) ==
  /\ call[i] = "unborn"
  /\ call' = [call EXCEPT ![i] = "open"]
  /\ UNCHANGED given

(* The server answers a request: its caller may have given up on it.       *)
Give(i, o) ==
  /\ call[i] # "unborn" /\ given[i] = "nothing" /\ o \in Outcomes
  /\ given' = [given EXCEPT ![i] = o]
  /\ UNCHANGED call

Return(i) ==
  /\ call[i] = "open" /\ given[i] # "nothing"
  /\ call' = [call EXCEPT ![i] = given[i]]
  /\ UNCHANGED given

Fail(i) ==
  /\ call[i] = "open"
  /\ call' = [call EXCEPT ![i] = "failed"]
  /\ UNCHANGED given

Next ==
  \E i \in Ids :
    Begin(i) \/ Return(i) \/ Fail(i) \/ \E o \in Outcomes : Give(i, o)

Spec == Init /\ [][Next]_<<call, given>>
=============================================================================
