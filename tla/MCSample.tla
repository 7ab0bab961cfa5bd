------------------------------ MODULE MCSample ------------------------------
EXTENDS WfsSample

(* Every operation with all of its arguments and with one too few, and the *)
(* lines that do not get as far.                                           *)
MCLines ==
  {l \in [argc : 5 .. 8, operation : Operations, port : {TRUE}] :
     l.argc \in {5 + Arguments[l.operation], 6 + Arguments[l.operation]}}
    \cup [argc : {8}, operation : {"other"}, port : BOOLEAN]
=============================================================================
