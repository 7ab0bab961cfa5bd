------------------------------ MODULE WfsPaths ------------------------------
(***************************************************************************)
(* getFileName, getDirectory and combinePath (include/wfs_client/          *)
(* utils.hpp).  A path is a sequence of characters of which only the two   *)
(* separators matter.                                                      *)
(***************************************************************************)
EXTENDS Integers, Sequences

CONSTANTS Slash, Backslash   \* the separators

ASSUME SeparatorsAssumption == Slash # Backslash

Separators == {Slash, Backslash}

(* The last separator in p; npos is 0. *)
IsLast(p, k) ==
  /\ k \in 0 .. Len(p)
  /\ k > 0 => p[k] \in Separators
  /\ \A j \in k + 1 .. Len(p) : p[j] \notin Separators
FindLast(p) == CHOOSE k \in 0 .. Len(p) : IsLast(p, k)

(* Mutant of getFileName: the position is not moved past the separator. *)
getFileNameWithIt(p) ==
  IF FindLast(p) = 0 THEN p ELSE SubSeq(p, FindLast(p), Len(p))
getFileName(p) ==
  IF FindLast(p) = 0 THEN p ELSE SubSeq(p, FindLast(p) + 1, Len(p))
getDirectory(p) ==
  IF FindLast(p) = 0 THEN <<>> ELSE SubSeq(p, 1, FindLast(p) - 1)

(* Mutant of Joiner: path1 is not searched for the separator it uses. *)
JoinerSlash(p) == Slash
(* The separator of p, if it has one. *)
Joiner(p) ==
  IF \E k \in 1 .. Len(p) : p[k] = Backslash THEN Backslash ELSE Slash

(* Mutant of combinePath: a separator is always put between. *)
combinePathAlways(p, q) ==
  IF p = <<>> THEN q ELSE Append(p, Joiner(p)) \o q
combinePath(p, q) ==
  IF p = <<>> THEN q
  ELSE IF p[Len(p)] \in Separators THEN p \o q
  ELSE Append(p, Joiner(p)) \o q

-----------------------------------------------------------------------------
(***************************************************************************)
(* What the three promise of each other, for a directory p and a name q    *)
(***************************************************************************)

Plain(p) == \A k \in 1 .. Len(p) : p[k] \notin Separators
Uses(p, s) == \E k \in 1 .. Len(p) : p[k] = s

(* p without the separator at its end, if there is one. *)
WithoutLast(p) ==
  IF p # <<>> /\ p[Len(p)] \in Separators THEN SubSeq(p, 1, Len(p) - 1) ELSE p

FindsName(p, q) == Plain(q) => getFileName(combinePath(p, q)) = q
FindsDirectory(p, q) ==
  Plain(q) => getDirectory(combinePath(p, q)) = WithoutLast(p)
KeepsSeparator(p, q) ==
  Plain(q) /\ ~Plain(p) =>
    \A s \in Separators : Uses(combinePath(p, q), s) => Uses(p, s)
=============================================================================
