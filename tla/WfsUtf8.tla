------------------------------ MODULE WfsUtf8 ------------------------------
(***************************************************************************)
(* safeUtf8 (include/wfs_client/utils.hpp): a string of bytes goes in, and *)
(* what comes out is meant to be safe to display as UTF-8.  One step is    *)
(* one turn of its loop.  The masks are divisions: (c & 0xE0) == 0xC0 says *)
(* that c \div 32 is 6.                                                    *)
(***************************************************************************)
EXTENDS Integers, Sequences

CONSTANTS
  Bytes,       \* the bytes a string is made of
  MaxLength    \* bound: its length

ASSUME BytesAssumption == Bytes \subseteq 0 .. 255
ASSUME LengthAssumption == MaxLength \in Nat

VARIABLES
  input,
  i,           \* bytes of it that have been looked at
  result

vars == <<input, i, result>>

Strings == UNION {[1 .. n -> Bytes] : n \in 0 .. MaxLength}
Question == 63    \* '?'

TypeOK ==
  /\ input \in Strings
  /\ i \in 0 .. Len(input)
  /\ result \in Seq(Bytes \cup {Question})

Init == input \in Strings /\ i = 0 /\ result = <<>>

Ascii(c)        == c < 128
Continuation(c) == c \div 64 = 2       \* (c & 0xC0) == 0x80
(* Bytes in the sequence that c begins, 0 if it begins none.               *)
Width(c) ==
  IF Ascii(c) THEN 1
  ELSE IF c \div 32 = 6 THEN 2
  ELSE IF c \div 16 = 14 THEN 3
  ELSE IF c \div 8 = 30 THEN 4
  ELSE 0

(* Mutant of Follows: the last byte is not looked at. *)
FollowsButLast(s, k, w) ==
  k + w - 1 <= Len(s) /\ \A j \in k + 1 .. k + w - 2 : Continuation(s[j])
(* s has the w - 1 continuation bytes that the byte at k calls for. *)
Follows(s, k, w) ==
  k + w - 1 <= Len(s) /\ \A j \in k + 1 .. k + w - 1 : Continuation(s[j])

(* Mutant of Copy: i is not moved past the continuation bytes. *)
CopyFirst(w) ==
  /\ Follows(input, i + 1, w)
  /\ result' = result \o SubSeq(input, i + 1, i + w)
  /\ i' = i + 1 /\ UNCHANGED input
(* A byte and those it calls for are copied. *)
Copy(w) ==
  /\ Follows(input, i + 1, w)
  /\ result' = result \o SubSeq(input, i + 1, i + w)
  /\ i' = i + w /\ UNCHANGED input

(* Mutant of Replace: what was to follow is skipped together with it. *)
ReplaceAll(w) ==
  /\ ~Follows(input, i + 1, w)
  /\ result' = Append(result, Question)
  /\ i' = i + w /\ UNCHANGED input
(* They are not there: this byte is replaced, the next one looked at anew. *)
Replace(w) ==
  /\ ~Follows(input, i + 1, w)
  /\ result' = Append(result, Question)
  /\ i' = i + 1 /\ UNCHANGED input

Turn(w) == i < Len(input) /\ Width(input[i + 1]) = w

AsciiCharacter == Turn(1) /\ Copy(1)
TwoBytes       == Turn(2) /\ (Copy(2) \/ Replace(2))
ThreeBytes     == Turn(3) /\ (Copy(3) \/ Replace(3))
FourBytes      == Turn(4) /\ (Copy(4) \/ Replace(4))
Invalid ==
  /\ Turn(0)
  /\ result' = Append(result, Question)
  /\ i' = i + 1 /\ UNCHANGED input

Return == i = Len(input) /\ UNCHANGED vars

Next ==
  AsciiCharacter \/ TwoBytes \/ ThreeBytes \/ FourBytes \/ Invalid \/ Return

Spec == Init /\ [][Next]_vars

-----------------------------------------------------------------------------
(***************************************************************************)
(* Properties                                                              *)
(***************************************************************************)

(* UTF-8 by its table and not by the masks: the bytes that begin a        *)
(* sequence of 1, 2, 3 and 4, and those that continue one.                 *)
Leads == <<0 .. 127, 192 .. 223, 224 .. 239, 240 .. 247>>
Tails == 128 .. 191

(* Position k of s is in the sequence of w bytes that begins at h. *)
Covers(s, h, w, k) ==
  /\ s[h] \in Leads[w]
  /\ k \in h .. h + w - 1 /\ h + w - 1 <= Len(s)
  /\ \A j \in h + 1 .. h + w - 1 : s[j] \in Tails
Covered(s, k) == \E h \in 1 .. k, w \in 1 .. 4 : Covers(s, h, w, k)

(* s is made of whole sequences. *)
WellFormed(s) == \A k \in 1 .. Len(s) : Covered(s, k)

(* Whatever bytes come in, what comes out is made of whole sequences.      *)
OutputWellFormed == WellFormed(result)

(* Bytes are replaced one for one, so columns and lengths stay; a          *)
(* truncated or broken sequence takes no byte after it along, and a byte   *)
(* is replaced only if it is not within a whole sequence.                  *)
OnlyBrokenReplaced ==
  /\ Len(result) = i
  /\ \A k \in 1 .. i :
       \/ result[k] = input[k]
       \/ result[k] = Question /\ ~Covered(input, k)
=============================================================================
