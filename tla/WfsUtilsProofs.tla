-------------------------- MODULE WfsUtilsProofs ---------------------------
(***************************************************************************)
(* Theorems about the functions of utils.hpp, for any set of bytes and     *)
(* strings of any length: first safeUtf8, then the paths.                  *)
(*                                                                         *)
(* The table of UTF-8 in the properties and the masks in the code are two  *)
(* descriptions of the same bytes (the lemmas about one byte).  That only  *)
(* broken bytes are replaced rests on a strengthening: no whole sequence   *)
(* that begins in what has been looked at reaches beyond it, so the next   *)
(* byte is never the rest of one.                                          *)
(***************************************************************************)
EXTENDS MCUtils, SequenceTheorems, TLAPS

Widths == 1 .. 4

(* A whole sequence of w bytes begins at h. *)
Whole(s, h, w) ==
  /\ s[h] \in Leads[w]
  /\ h + w - 1 <= Len(s)
  /\ \A j \in h + 1 .. h + w - 1 : s[j] \in Tails

NothingOpen ==
  \A h \in 1 .. i, w \in Widths : Whole(input, h, w) => h + w - 1 <= i

Utf8Inv == TypeOK /\ NothingOpen /\ OnlyBrokenReplaced /\ OutputWellFormed

-----------------------------------------------------------------------------
(***************************************************************************)
(* One byte                                                                *)
(***************************************************************************)

(* The masks take a byte for the lead of w bytes exactly when the table    *)
(* does.                                                                   *)
LEMMA WidthIsTable ==
  \A c \in 0 .. 255 : \A w \in Widths : Width(c) = w <=> c \in Leads[w]
<1> SUFFICES ASSUME NEW c \in 0 .. 255
             PROVE  \A w \in Widths : Width(c) = w <=> c \in Leads[w]
  OBVIOUS
<1>1. /\ Ascii(c) <=> c \in 0 .. 127
      /\ c \div 32 = 6 <=> c \in 192 .. 223
      /\ c \div 16 = 14 <=> c \in 224 .. 239
      /\ c \div 8 = 30 <=> c \in 240 .. 247
  BY DEF Ascii
<1>2. /\ Leads[1] = 0 .. 127 /\ Leads[2] = 192 .. 223
      /\ Leads[3] = 224 .. 239 /\ Leads[4] = 240 .. 247
  BY DEF Leads
<1>3. Width(c) = 1 <=> c \in Leads[1]
  BY <1>1, <1>2 DEF Width
<1>4. Width(c) = 2 <=> c \in Leads[2]
  BY <1>1, <1>2 DEF Width
<1>5. Width(c) = 3 <=> c \in Leads[3]
  BY <1>1, <1>2 DEF Width
<1>6. Width(c) = 4 <=> c \in Leads[4]
  BY <1>1, <1>2 DEF Width
<1>7. QED
  BY <1>3, <1>4, <1>5, <1>6 DEF Widths

(* The mask of the continuation bytes is the table's set of them. *)
LEMMA ContinuationIsTable ==
  \A c \in 0 .. 255 : Continuation(c) <=> c \in Tails
BY DEF Continuation, Tails

(* No byte both begins a sequence and continues one. *)
LEMMA TailsAreNoLeads ==
  \A c \in Tails : \A w \in Widths : c \notin Leads[w]
<1>1. /\ Leads[1] = 0 .. 127 /\ Leads[2] = 192 .. 223
      /\ Leads[3] = 224 .. 239 /\ Leads[4] = 240 .. 247
  BY DEF Leads
<1>2. QED
  BY <1>1 DEF Tails, Widths

(* The replacement is a character of one byte. *)
LEMMA QuestionIsLead == Question \in Leads[1]
BY DEF Question, Leads

-----------------------------------------------------------------------------
(***************************************************************************)
(* Strings                                                                 *)
(***************************************************************************)

LEMMA StringFacts ==
  ASSUME NEW s \in Strings
  PROVE  /\ s \in Seq(Bytes) /\ s \in Seq(0 .. 255)
         /\ Len(s) \in Nat /\ Len(s) <= MaxLength
<1>1. PICK n \in 0 .. MaxLength : s \in [1 .. n -> Bytes]
  BY DEF Strings
<1>2. n \in Nat /\ n <= MaxLength
  BY LengthAssumption
<1>3. s \in Seq(Bytes)
  BY <1>1, <1>2, SeqDef
<1>4. Len(s) = n
  BY <1>1, <1>2, <1>3, LenProperties
<1>5. s \in Seq(0 .. 255)
  <2>1. \A j \in 1 .. n : s[j] \in 0 .. 255
    BY <1>1, BytesAssumption
  <2>2. s \in [1 .. n -> 0 .. 255]
    BY <1>1, <2>1
  <2>3. QED
    BY <1>2, <2>2, SeqDef
<1>6. QED
  BY <1>2, <1>3, <1>4, <1>5

(* The second part of a concatenation. *)
LEMMA SecondPart ==
  ASSUME NEW S, NEW t \in Seq(S), NEW u \in Seq(S), NEW j \in 1 .. Len(u)
  PROVE  (t \o u)[Len(t) + j] = u[j]
<1>1. Len(t) \in Nat /\ Len(u) \in Nat
  BY LenProperties
<1>2. \A k \in 1 .. Len(t) + Len(u) :
        (t \o u)[k] = IF k <= Len(t) THEN t[k] ELSE u[k - Len(t)]
  BY ConcatProperties
<1>3. /\ Len(t) + j \in 1 .. Len(t) + Len(u)
      /\ ~(Len(t) + j <= Len(t)) /\ Len(t) + j - Len(t) = j
  BY <1>1
<1>4. QED
  BY <1>2, <1>3

(* The w elements after the m-th. *)
LEMMA Part ==
  ASSUME NEW S, NEW t \in Seq(S), NEW m \in Nat, NEW w \in Nat,
         w >= 1, m + w <= Len(t)
  PROVE  /\ SubSeq(t, m + 1, m + w) \in Seq(S)
         /\ Len(SubSeq(t, m + 1, m + w)) = w
         /\ \A j \in 1 .. w : SubSeq(t, m + 1, m + w)[j] = t[m + j]
<1> DEFINE a == m + 1
           b == m + w
<1>1. /\ a \in Int /\ b \in Int /\ a <= b /\ b - a + 1 = w
      /\ Len(t) \in Nat /\ \A j \in a .. b : j \in 1 .. Len(t)
      /\ \A j \in 1 .. w : a + j - 1 = m + j
  BY LenProperties
<1> HIDE DEF a, b
<1>2. \A j \in a .. b : t[j] \in S
  BY <1>1, ElementOfSeq
<1>3. SubSeq(t, a, b) \in Seq(S)
  BY <1>1, <1>2, SubSeqProperties
<1>4. Len(SubSeq(t, a, b)) = w
  BY <1>1, <1>2, SubSeqProperties
<1>5. \A j \in 1 .. b - a + 1 : SubSeq(t, a, b)[j] = t[a + j - 1]
  BY <1>1, <1>2, SubSeqProperties
<1>6. QED
  BY <1>1, <1>3, <1>4, <1>5 DEF a, b

(* Covered by a sequence is: within a whole one. *)
LEMMA CoveredIsWhole ==
  ASSUME NEW s, NEW k
  PROVE  Covered(s, k) <=>
           \E h \in 1 .. k, w \in Widths : Whole(s, h, w) /\ k \in h .. h + w - 1
BY DEF Covered, Covers, Whole, Widths

(* What safeUtf8 finds with its masks is a whole sequence. *)
LEMMA FollowsIsWhole ==
  ASSUME NEW s \in Seq(0 .. 255), NEW h \in 1 .. Len(s), NEW w \in Widths,
         Width(s[h]) = w
  PROVE  Follows(s, h, w) <=> Whole(s, h, w)
<1>0. \A j \in 1 .. Len(s) : s[j] \in 0 .. 255
  BY ElementOfSeq
<1>1. s[h] \in Leads[w]
  BY <1>0, WidthIsTable
<1>2. ASSUME h + w - 1 <= Len(s)
      PROVE  \A j \in h + 1 .. h + w - 1 : Continuation(s[j]) <=> s[j] \in Tails
  <2>1. \A j \in h + 1 .. h + w - 1 : j \in 1 .. Len(s)
    BY <1>2 DEF Widths
  <2>2. QED
    BY <1>0, <2>1, ContinuationIsTable
<1>3. QED
  BY <1>1, <1>2 DEF Follows, Whole

-----------------------------------------------------------------------------
(***************************************************************************)
(* What comes out                                                          *)
(***************************************************************************)

(* What is covered stays so when more is written after it. *)
LEMMA CoveredBefore ==
  ASSUME NEW t \in Seq(0 .. 255), NEW u \in Seq(0 .. 255),
         NEW k \in 1 .. Len(t), Covered(t, k)
  PROVE  Covered(t \o u, k)
<1>1. PICK h \in 1 .. k, w \in Widths : Whole(t, h, w) /\ k \in h .. h + w - 1
  BY CoveredIsWhole
<1>2. /\ Len(t \o u) = Len(t) + Len(u)
      /\ \A j \in 1 .. Len(t) : (t \o u)[j] = t[j]
  BY ConcatProperties
<1>3. Len(t) \in Nat /\ Len(u) \in Nat
  BY LenProperties
<1>4. h + w - 1 <= Len(t \o u)
  BY <1>1, <1>2, <1>3 DEF Whole, Widths
<1>5. \A j \in h .. h + w - 1 : j \in 1 .. Len(t)
  BY <1>1, <1>3 DEF Whole, Widths
<1>6. h \in h .. h + w - 1
  BY DEF Widths
<1>7. (t \o u)[h] \in Leads[w]
  BY <1>1, <1>2, <1>5, <1>6 DEF Whole
<1>8. \A j \in h + 1 .. h + w - 1 : (t \o u)[j] \in Tails
  BY <1>1, <1>2, <1>5 DEF Whole, Widths
<1>9. Whole(t \o u, h, w)
  BY <1>4, <1>7, <1>8 DEF Whole
<1>10. QED
  BY <1>1, <1>9, CoveredIsWhole

(* A whole sequence written at the end covers the positions it is in. *)
LEMMA CoveredAfter ==
  ASSUME NEW t \in Seq(0 .. 255), NEW u \in Seq(0 .. 255), NEW w \in Widths,
         Len(u) = w, Whole(u, 1, w),
         NEW k \in Len(t) + 1 .. Len(t) + w
  PROVE  Covered(t \o u, k)
<1> DEFINE h == Len(t) + 1
<1>1. Len(t) \in Nat
  BY LenProperties
<1>2. /\ Len(t \o u) = Len(t) + Len(u)
      /\ \A j \in 1 .. Len(u) : (t \o u)[Len(t) + j] = u[j]
  <2>1. Len(t \o u) = Len(t) + Len(u)
    BY ConcatProperties
  <2>2. \A j \in 1 .. Len(u) : (t \o u)[Len(t) + j] = u[j]
    BY SecondPart
  <2>3. QED
    BY <2>1, <2>2
<1>3. /\ h \in 1 .. k /\ k \in h .. h + w - 1
      /\ h + w - 1 <= Len(t \o u)
  BY <1>1, <1>2 DEF Widths
<1>4. (t \o u)[h] = u[1]
  BY <1>2 DEF Widths
<1>5. ASSUME NEW j \in h + 1 .. h + w - 1
      PROVE  (t \o u)[j] \in Tails
  <2>1. /\ j - Len(t) \in 1 .. Len(u) /\ j - Len(t) \in 2 .. w
        /\ Len(t) + (j - Len(t)) = j
    BY <1>1 DEF Widths
  <2>2. (t \o u)[j] = u[j - Len(t)]
    BY <1>2, <2>1
  <2>3. u[j - Len(t)] \in Tails
    BY <2>1 DEF Whole, Widths
  <2>4. QED
    BY <2>2, <2>3
<1>6. u[1] \in Leads[w]
  BY DEF Whole
<1>7. Whole(t \o u, h, w)
  BY <1>3, <1>4, <1>5, <1>6 DEF Whole
<1>8. QED
  BY <1>3, <1>7, CoveredIsWhole

(* So a whole sequence may be written after whole sequences. *)
LEMMA WellFormedGrows ==
  ASSUME NEW t \in Seq(0 .. 255), NEW u \in Seq(0 .. 255), NEW w \in Widths,
         WellFormed(t), Len(u) = w, Whole(u, 1, w)
  PROVE  WellFormed(t \o u)
<1>1. Len(t) \in Nat /\ Len(t \o u) = Len(t) + w
  <2>1. Len(t) \in Nat
    BY LenProperties
  <2>2. Len(t \o u) = Len(t) + Len(u)
    BY ConcatProperties
  <2>3. QED
    BY <2>1, <2>2
<1>2. SUFFICES ASSUME NEW k \in 1 .. Len(t) + w PROVE Covered(t \o u, k)
  BY <1>1 DEF WellFormed
<1>3. CASE k \in 1 .. Len(t)
  BY <1>3, CoveredBefore DEF WellFormed
<1>4. CASE k \in Len(t) + 1 .. Len(t) + w
  BY <1>4, CoveredAfter
<1>5. QED
  BY <1>1, <1>3, <1>4 DEF Widths

-----------------------------------------------------------------------------
(***************************************************************************)
(* The turns                                                               *)
(***************************************************************************)

(* What the invariant says of the types, with every byte a number. *)
LEMMA StateFacts ==
  ASSUME Utf8Inv
  PROVE  /\ input \in Strings /\ input \in Seq(0 .. 255)
         /\ result \in Seq(Bytes \cup {Question}) /\ result \in Seq(0 .. 255)
         /\ i \in 0 .. Len(input) /\ Len(input) \in Nat /\ i \in Nat
         /\ Len(result) = i
<1>1. /\ input \in Strings /\ i \in 0 .. Len(input)
      /\ result \in Seq(Bytes \cup {Question}) /\ Len(result) = i
  BY DEF Utf8Inv, TypeOK, OnlyBrokenReplaced
<1>2. input \in Seq(0 .. 255) /\ Len(input) \in Nat
  BY <1>1, StringFacts
<1>3. Bytes \cup {Question} \subseteq 0 .. 255
  BY BytesAssumption DEF Question
<1>4. result \in Seq(0 .. 255)
  <2> DEFINE S == Bytes \cup {Question}
             T == 0 .. 255
  <2>1. result \in Seq(S) /\ S \subseteq T
    BY <1>1, <1>3
  <2> HIDE DEF S, T
  <2>2. result \in Seq(T)
    BY <2>1, SeqMonotonic
  <2>3. QED
    BY <2>2 DEF T
<1>5. i \in Nat
  BY <1>1, <1>2
<1>6. QED
  BY <1>1, <1>2, <1>4, <1>5

(* A byte with which no whole sequence begins is in none: one that began   *)
(* before it would have been taken whole, and reach to it no more.         *)
LEMMA BrokenIsUncovered ==
  ASSUME Utf8Inv, i < Len(input),
         \A w \in Widths : ~Whole(input, i + 1, w)
  PROVE  ~Covered(input, i + 1)
<1>1. SUFFICES ASSUME NEW h \in 1 .. i + 1, NEW w \in Widths,
                      Whole(input, h, w), i + 1 \in h .. h + w - 1
               PROVE  FALSE
  BY CoveredIsWhole
<1>2. i \in Nat
  BY StateFacts
<1>3. h # i + 1
  BY <1>1
<1>4. h \in 1 .. i
  BY <1>2, <1>3
<1>5. h + w - 1 <= i
  BY <1>1, <1>4 DEF Utf8Inv, NothingOpen
<1>6. QED
  BY <1>1, <1>2, <1>5 DEF Widths

(* A byte is replaced: the invariant is kept if no whole sequence begins   *)
(* with it.                                                                *)
LEMMA ReplaceKeeps ==
  ASSUME Utf8Inv, i < Len(input),
         \A w \in Widths : ~Whole(input, i + 1, w),
         result' = Append(result, Question), i' = i + 1, UNCHANGED input
  PROVE  Utf8Inv'
<1>1. /\ input \in Strings /\ input \in Seq(0 .. 255)
      /\ result \in Seq(Bytes \cup {Question}) /\ result \in Seq(0 .. 255)
      /\ i \in 0 .. Len(input) /\ Len(input) \in Nat /\ i \in Nat
      /\ Len(result) = i
  BY StateFacts
<1>2. /\ Len(result') = i + 1
      /\ \A k \in 1 .. i : result'[k] = result[k]
      /\ result'[i + 1] = Question
      /\ result' \in Seq(Bytes \cup {Question})
  BY <1>1, AppendProperties
<1>3. TypeOK'
  BY <1>1, <1>2 DEF TypeOK
<1>4. NothingOpen'
  <2>1. SUFFICES ASSUME NEW h \in 1 .. i + 1, NEW w \in Widths, Whole(input, h, w)
                 PROVE  h + w - 1 <= i + 1
    BY DEF NothingOpen
  <2>2. h \in 1 .. i
    BY <1>1, <2>1
  <2>3. h + w - 1 <= i
    BY <2>1, <2>2 DEF Utf8Inv, NothingOpen
  <2>4. QED
    BY <1>1, <2>3 DEF Widths
<1>5. OnlyBrokenReplaced'
  <2>1. ~Covered(input, i + 1)
    BY BrokenIsUncovered
  <2>2. SUFFICES ASSUME NEW k \in 1 .. i + 1
                 PROVE  \/ result'[k] = input[k]
                        \/ result'[k] = Question /\ ~Covered(input, k)
    BY <1>2 DEF OnlyBrokenReplaced
  <2>3. CASE k \in 1 .. i
    BY <1>2, <2>3 DEF Utf8Inv, OnlyBrokenReplaced
  <2>4. CASE k = i + 1
    BY <1>2, <2>1, <2>4
  <2>5. QED
    BY <1>1, <2>3, <2>4
<1>6. OutputWellFormed'
  <2> DEFINE u == <<Question>>
  <2>1. u \in Seq(0 .. 255) /\ Len(u) = 1 /\ u[1] = Question
    BY DEF Question
  <2>2. Whole(u, 1, 1)
    BY <2>1, QuestionIsLead DEF Whole
  <2>3. 1 \in Widths
    BY DEF Widths
  <2>4. WellFormed(result)
    BY DEF Utf8Inv, OutputWellFormed
  <2> HIDE DEF u
  <2>5. WellFormed(result \o u)
    BY <1>1, <2>1, <2>2, <2>3, <2>4, WellFormedGrows
  <2>6. result' = result \o u
    BY <1>1, AppendIsConcat DEF u
  <2>7. QED
    BY <2>5, <2>6 DEF OutputWellFormed
<1>7. QED
  BY <1>3, <1>4, <1>5, <1>6 DEF Utf8Inv

(* A whole sequence is copied. *)
LEMMA CopyKeeps ==
  ASSUME Utf8Inv, NEW w \in Widths, Turn(w), Copy(w)
  PROVE  Utf8Inv'
<1> DEFINE u == SubSeq(input, i + 1, i + w)
<1>1. /\ input \in Strings /\ input \in Seq(0 .. 255)
      /\ result \in Seq(Bytes \cup {Question}) /\ result \in Seq(0 .. 255)
      /\ i \in 0 .. Len(input) /\ Len(input) \in Nat /\ i \in Nat
      /\ Len(result) = i
  BY StateFacts
<1>2. i + 1 \in 1 .. Len(input) /\ Width(input[i + 1]) = w
  BY <1>1 DEF Turn
<1>3. Whole(input, i + 1, w)
  BY <1>1, <1>2, FollowsIsWhole DEF Copy
<1>4. i' = i + w /\ result' = result \o u /\ input' = input
  BY DEF Copy
<1>5. i + w <= Len(input) /\ i + w \in Nat /\ w \in Nat /\ w >= 1
  BY <1>1, <1>3 DEF Whole, Widths
<1>6. /\ Len(u) = w
      /\ \A j \in 1 .. w : u[j] = input[i + j]
      /\ u \in Seq(0 .. 255) /\ u \in Seq(Bytes \cup {Question})
  <2>1. input \in Seq(Bytes)
    BY <1>1, StringFacts
  <2>2. input \in Seq(Bytes \cup {Question})
    BY <2>1, SeqMonotonic
  <2>3. SubSeq(input, i + 1, i + w) \in Seq(0 .. 255)
    BY <1>1, <1>5, Part
  <2>7. Len(SubSeq(input, i + 1, i + w)) = w
    BY <1>1, <1>5, Part
  <2>4. \A j \in 1 .. w : SubSeq(input, i + 1, i + w)[j] = input[i + j]
    BY <1>1, <1>5, Part
  <2>5. SubSeq(input, i + 1, i + w) \in Seq(Bytes \cup {Question})
    BY <1>1, <1>5, <2>2, Part
  <2>6. QED
    BY <2>3, <2>4, <2>5, <2>7
<1> HIDE DEF u
<1>7. /\ Len(result') = i + w
      /\ \A k \in 1 .. i : result'[k] = result[k]
      /\ \A j \in 1 .. w : result'[i + j] = input[i + j]
  <2>1. Len(result \o u) = i + w
    BY <1>1, <1>6, ConcatProperties
  <2>2. \A k \in 1 .. i : (result \o u)[k] = result[k]
    BY <1>1, <1>5, <1>6, ConcatProperties
  <2>3. \A j \in 1 .. w : (result \o u)[i + j] = u[j]
    BY <1>1, <1>6, SecondPart
  <2>4. QED
    BY <1>4, <1>6, <2>1, <2>2, <2>3
<1>8. TypeOK'
  <2>1. result' \in Seq(Bytes \cup {Question})
    BY <1>1, <1>4, <1>6, ConcatProperties
  <2>2. i' \in 0 .. Len(input')
    BY <1>1, <1>4, <1>5
  <2>3. QED
    BY <1>1, <1>4, <2>1, <2>2 DEF TypeOK
<1>9. NothingOpen'
  <2>1. SUFFICES ASSUME NEW h \in 1 .. i + w, NEW v \in Widths, Whole(input, h, v)
                 PROVE  h + v - 1 <= i + w
    BY <1>4 DEF NothingOpen
  <2>2. CASE h \in 1 .. i
    <3>1. h + v - 1 <= i
      BY <2>1, <2>2 DEF Utf8Inv, NothingOpen
    <3>2. QED
      BY <1>1, <1>5, <3>1 DEF Widths
  <2>3. CASE h = i + 1
    <3>1. input[h] \in 0 .. 255
      BY <1>1, <1>2, <2>3, ElementOfSeq
    <3>2. Width(input[h]) = v
      BY <2>1, <3>1, WidthIsTable DEF Whole
    <3>3. QED
      BY <1>1, <1>2, <1>5, <2>3, <3>2
  <2>4. CASE h \in i + 2 .. i + w
    <3>1. input[h] \in Tails
      BY <1>1, <1>3, <1>5, <2>4 DEF Whole
    <3>2. QED
      BY <2>1, <3>1, TailsAreNoLeads DEF Whole
  <2>5. QED
    BY <1>1, <1>5, <2>2, <2>3, <2>4
<1>10. OnlyBrokenReplaced'
  <2>1. SUFFICES ASSUME NEW k \in 1 .. i + w
                 PROVE  \/ result'[k] = input[k]
                        \/ result'[k] = Question /\ ~Covered(input, k)
    BY <1>4, <1>7 DEF OnlyBrokenReplaced
  <2>2. CASE k \in 1 .. i
    BY <1>7, <2>2 DEF Utf8Inv, OnlyBrokenReplaced
  <2>3. CASE k \in i + 1 .. i + w
    <3>1. k - i \in 1 .. w /\ i + (k - i) = k
      BY <1>1, <1>5, <2>3
    <3>2. QED
      BY <1>7, <3>1
  <2>4. QED
    BY <1>1, <1>5, <2>2, <2>3
<1>11. OutputWellFormed'
  <2>1. /\ 1 + w - 1 = w
        /\ 1 \in 1 .. w
        /\ \A j \in 2 .. w : j \in 1 .. w /\ i + j \in i + 2 .. i + w
    BY <1>1, <1>5
  <2>2. u[1] = input[i + 1]
    BY <1>6, <2>1
  <2>3. \A j \in 2 .. w : u[j] \in Tails
    <3>1. \A j \in 2 .. w : i + j \in i + 1 + 1 .. i + 1 + w - 1
      BY <1>1, <1>5
    <3>2. \A j \in 2 .. w : input[i + j] \in Tails
      BY <1>3, <3>1 DEF Whole
    <3>3. QED
      BY <1>6, <2>1, <3>2
  <2>4. Whole(u, 1, w)
    BY <1>3, <1>5, <1>6, <2>1, <2>2, <2>3 DEF Whole
  <2>5. WellFormed(result)
    BY DEF Utf8Inv, OutputWellFormed
  <2>6. QED
    BY <1>1, <1>4, <1>6, <2>4, <2>5, WellFormedGrows DEF OutputWellFormed
<1>12. QED
  BY <1>8, <1>9, <1>10, <1>11 DEF Utf8Inv

(* The masks see no sequence where the table sees none. *)
LEMMA ReplaceStep ==
  ASSUME Utf8Inv, NEW w \in Widths, Turn(w), Replace(w)
  PROVE  Utf8Inv'
<1>1. /\ input \in Seq(0 .. 255) /\ Len(input) \in Nat /\ i \in Nat
  BY StateFacts
<1>2. i + 1 \in 1 .. Len(input) /\ Width(input[i + 1]) = w
  BY <1>1 DEF Turn
<1>3. ~Whole(input, i + 1, w)
  BY <1>1, <1>2, FollowsIsWhole DEF Replace
<1>4. input[i + 1] \in 0 .. 255
  BY <1>1, <1>2, ElementOfSeq
<1>5. \A v \in Widths : ~Whole(input, i + 1, v)
  BY <1>2, <1>3, <1>4, WidthIsTable DEF Whole
<1>6. QED
  BY <1>5, ReplaceKeeps DEF Turn, Replace

LEMMA InvalidStep ==
  ASSUME Utf8Inv, Invalid
  PROVE  Utf8Inv'
<1>1. /\ input \in Seq(0 .. 255) /\ Len(input) \in Nat /\ i \in Nat
  BY StateFacts
<1>2. i + 1 \in 1 .. Len(input) /\ Width(input[i + 1]) = 0
  BY <1>1 DEF Invalid, Turn
<1>3. input[i + 1] \in 0 .. 255
  BY <1>1, <1>2, ElementOfSeq
<1>4. \A v \in Widths : Width(input[i + 1]) # v
  BY <1>2 DEF Widths
<1>5. \A v \in Widths : ~Whole(input, i + 1, v)
  BY <1>3, <1>4, WidthIsTable DEF Whole
<1>6. QED
  BY <1>5, ReplaceKeeps DEF Invalid, Turn

-----------------------------------------------------------------------------
(***************************************************************************)
(* The theorems                                                            *)
(***************************************************************************)

(* Every turn of safeUtf8's loop keeps the invariant. *)
THEOREM Utf8InvHolds == Spec => []Utf8Inv
<1>1. Init => Utf8Inv
  <2> SUFFICES ASSUME Init PROVE Utf8Inv
    OBVIOUS
  <2>1. input \in Strings /\ i = 0 /\ result = <<>>
    BY DEF Init
  <2>2. Len(input) \in Nat
    BY <2>1, StringFacts
  <2>3. TypeOK
    BY <2>1, <2>2 DEF TypeOK
  <2>4. NothingOpen
    BY <2>1 DEF NothingOpen
  <2>5. Len(result) = 0
    BY <2>1
  <2>6. OnlyBrokenReplaced
    BY <2>1, <2>5 DEF OnlyBrokenReplaced
  <2>7. OutputWellFormed
    BY <2>5 DEF OutputWellFormed, WellFormed
  <2>8. QED
    BY <2>3, <2>4, <2>6, <2>7 DEF Utf8Inv
<1>2. Utf8Inv /\ [Next]_vars => Utf8Inv'
  <2> SUFFICES ASSUME Utf8Inv, [Next]_vars PROVE Utf8Inv'
    OBVIOUS
  <2>0. 1 \in Widths /\ 2 \in Widths /\ 3 \in Widths /\ 4 \in Widths
    BY DEF Widths
  <2>1. CASE AsciiCharacter
    BY <2>0, <2>1, CopyKeeps DEF AsciiCharacter
  <2>2. CASE TwoBytes
    BY <2>0, <2>2, CopyKeeps, ReplaceStep DEF TwoBytes
  <2>3. CASE ThreeBytes
    BY <2>0, <2>3, CopyKeeps, ReplaceStep DEF ThreeBytes
  <2>4. CASE FourBytes
    BY <2>0, <2>4, CopyKeeps, ReplaceStep DEF FourBytes
  <2>5. CASE Invalid
    BY <2>5, InvalidStep
  <2>6. CASE UNCHANGED vars
    BY <2>6 DEF Utf8Inv, TypeOK, NothingOpen, Whole, OnlyBrokenReplaced,
                OutputWellFormed, WellFormed, Covered, Covers, vars
  <2>7. QED
    BY <2>1, <2>2, <2>3, <2>4, <2>5, <2>6 DEF Next, Return
<1>3. QED
  BY <1>1, <1>2, PTL DEF Spec

(* The output of safeUtf8 is made of whole sequences, for strings of any   *)
(* length over any set of bytes.                                           *)
THEOREM OutputIsWellFormed == Spec => []OutputWellFormed
<1>1. Utf8Inv => OutputWellFormed
  BY DEF Utf8Inv
<1>2. QED
  BY <1>1, Utf8InvHolds, PTL

(* Bytes are replaced one for one, and only those that are within no whole *)
(* sequence.                                                               *)
THEOREM BrokenReplacedOnly == Spec => []OnlyBrokenReplaced
<1>1. Utf8Inv => OnlyBrokenReplaced
  BY DEF Utf8Inv
<1>2. QED
  BY <1>1, Utf8InvHolds, PTL

-----------------------------------------------------------------------------
(***************************************************************************)
(* Paths.  A joined path is the directory, one separator and the name      *)
(* (JoinedIs), and that separator is the last one (LastOfJoined), which is *)
(* all that getFileName and getDirectory look for.                         *)
(***************************************************************************)

(* There is only one last separator, so find_last_of finds it. *)
LEMMA LastIsFound ==
  ASSUME NEW p, Len(p) \in Nat, NEW k, IsLast(p, k)
  PROVE  FindLast(p) = k
<1>1. k \in 0 .. Len(p)
  BY DEF IsLast
<1>2. ASSUME NEW j \in 0 .. Len(p), IsLast(p, j) PROVE j = k
  <2>1. CASE j < k
    BY <1>1, <1>2, <2>1 DEF IsLast
  <2>2. CASE k < j
    BY <1>1, <1>2, <2>2 DEF IsLast
  <2>3. QED
    BY <1>1, <2>1, <2>2
<1>3. IsLast(p, FindLast(p)) /\ FindLast(p) \in 0 .. Len(p)
  BY <1>1 DEF FindLast
<1>4. QED
  BY <1>2, <1>3

LEMMA PlainHasNone ==
  ASSUME NEW S, NEW q \in Seq(S), Plain(q)
  PROVE  FindLast(q) = 0
<1>1. Len(q) \in Nat
  BY LenProperties
<1>2. IsLast(q, 0)
  BY <1>1 DEF IsLast, Plain
<1>3. QED
  BY <1>1, <1>2, LastIsFound

(* The separator that a joined path has between its parts. *)
Between(p) == IF p[Len(p)] \in Separators THEN p[Len(p)] ELSE Joiner(p)

LEMMA BetweenIsSeparator == \A p : Between(p) \in Separators
BY DEF Between, Joiner, Separators

LEMMA WithoutLastType ==
  ASSUME NEW S, NEW p \in Seq(S), p # <<>>
  PROVE  /\ WithoutLast(p) \in Seq(S)
         /\ p[Len(p)] \in Separators => p = Append(WithoutLast(p), p[Len(p)])
         /\ p[Len(p)] \notin Separators => WithoutLast(p) = p
<1>1. Len(p) \in Nat \ {0} /\ \A k \in 1 .. Len(p) : p[k] \in S
  BY EmptySeq, ElementOfSeq
<1>2. CASE p[Len(p)] \notin Separators
  BY <1>2 DEF WithoutLast
<1>3. CASE p[Len(p)] \in Separators
  <2> DEFINE d == SubSeq(p, 1, Len(p) - 1)
  <2>1. /\ d \in Seq(S) /\ Len(d) = Len(p) - 1
        /\ \A k \in 1 .. Len(p) - 1 : d[k] = p[k]
    <3>1. /\ d \in Seq(S)
          /\ Len(d) = IF 1 <= Len(p) - 1 THEN Len(p) - 1 - 1 + 1 ELSE 0
          /\ \A k \in 1 .. Len(p) - 1 - 1 + 1 : d[k] = p[1 + k - 1]
      BY <1>1, SubSeqProperties
    <3> HIDE DEF d
    <3> DEFINE n == Len(p)
    <3>2. Len(d) = n - 1
      <4>1. n \in Nat /\ n >= 1 /\ Len(d) = IF 1 <= n - 1 THEN n - 1 - 1 + 1 ELSE 0
        BY <1>1, <3>1
      <4> HIDE DEF n
      <4>2. QED
        BY <4>1
    <3>3. \A k \in 1 .. Len(p) - 1 : d[k] = p[k]
      <4>1. ASSUME NEW k \in 1 .. Len(p) - 1 PROVE d[k] = p[k]
        <5>1. k \in 1 .. Len(p) - 1 - 1 + 1 /\ 1 + k - 1 = k
          BY <1>1
        <5>2. QED
          BY <3>1, <5>1
      <4>2. QED
        BY <4>1
    <3>4. QED
      BY <3>1, <3>2, <3>3
  <2>2. WithoutLast(p) = d
    BY <1>3 DEF WithoutLast
  <2> HIDE DEF d
  <2> DEFINE e == p[Len(p)]
             a == Append(d, e)
  <2>3. e \in S
    BY <1>1
  <2> HIDE DEF e
  <2>4. /\ a \in Seq(S) /\ Len(a) = Len(d) + 1
        /\ \A k \in 1 .. Len(d) : a[k] = d[k]
        /\ a[Len(d) + 1] = e
    BY <2>1, <2>3, AppendProperties
  <2> HIDE DEF a
  <2>5. Len(p) = Len(a) /\ \A k \in 1 .. Len(p) : p[k] = a[k]
    BY <1>1, <2>1, <2>4 DEF e
  <2>6. p = a
    BY <2>4, <2>5, SeqEqual
  <2>7. QED
    BY <1>3, <2>1, <2>2, <2>6 DEF a, e
<1>4. QED
  BY <1>2, <1>3

LEMMA JoinedIs ==
  ASSUME NEW S, NEW p \in Seq(S), p # <<>>, NEW q
  PROVE  combinePath(p, q) = Append(WithoutLast(p), Between(p)) \o q
BY WithoutLastType DEF combinePath, Between

(* d, the separator s and q, put together. *)
LEMMA Parts ==
  ASSUME NEW S, Separators \subseteq S, NEW d \in Seq(S),
         NEW s \in Separators, NEW q \in Seq(S)
  PROVE  LET c == Append(d, s) \o q IN
         /\ c \in Seq(S) /\ Len(c) = Len(d) + 1 + Len(q)
         /\ Len(d) \in Nat /\ Len(q) \in Nat
         /\ \A k \in 1 .. Len(d) : c[k] = d[k]
         /\ c[Len(d) + 1] = s
         /\ \A k \in 1 .. Len(q) : c[Len(d) + 1 + k] = q[k]
<1> DEFINE a == Append(d, s)
           c == a \o q
<1>1. /\ a \in Seq(S) /\ Len(a) = Len(d) + 1
      /\ \A k \in 1 .. Len(d) : a[k] = d[k]
      /\ a[Len(d) + 1] = s
  BY AppendProperties
<1>2. Len(d) \in Nat /\ Len(q) \in Nat
  BY LenProperties
<1> HIDE DEF a
<1>3. /\ c \in Seq(S) /\ Len(c) = Len(a) + Len(q)
      /\ \A k \in 1 .. Len(a) + Len(q) :
           c[k] = IF k <= Len(a) THEN a[k] ELSE q[k - Len(a)]
  BY <1>1, ConcatProperties
<1> HIDE DEF c
<1>4. \A k \in 1 .. Len(q) : c[Len(d) + 1 + k] = q[k]
  <2>1. ASSUME NEW k \in 1 .. Len(q) PROVE c[Len(d) + 1 + k] = q[k]
    <3>1. /\ Len(d) + 1 + k \in 1 .. Len(a) + Len(q)
          /\ ~(Len(d) + 1 + k <= Len(a))
          /\ Len(d) + 1 + k - Len(a) = k
      BY <1>1, <1>2
    <3>2. QED
      BY <1>3, <3>1
  <2>2. QED
    BY <2>1
<1>5. \A k \in 1 .. Len(d) : c[k] = d[k]
  BY <1>1, <1>2, <1>3
<1>6. c[Len(d) + 1] = s
  BY <1>1, <1>2, <1>3
<1>7. /\ c \in Seq(S) /\ Len(c) = Len(d) + 1 + Len(q)
  BY <1>1, <1>3
<1>8. QED
  BY <1>2, <1>4, <1>5, <1>6, <1>7 DEF a, c

LEMMA LastOfJoined ==
  ASSUME NEW S, Separators \subseteq S, NEW d \in Seq(S),
         NEW s \in Separators, NEW q \in Seq(S), Plain(q)
  PROVE  /\ FindLast(Append(d, s) \o q) = Len(d) + 1
         /\ getFileName(Append(d, s) \o q) = q
         /\ getDirectory(Append(d, s) \o q) = d
<1> DEFINE c == Append(d, s) \o q
           n == Len(d) + 1
<1>1. /\ c \in Seq(S) /\ Len(c) = n + Len(q)
      /\ n \in Nat \ {0} /\ Len(q) \in Nat /\ Len(d) = n - 1
      /\ \A k \in 1 .. n - 1 : c[k] = d[k]
      /\ c[n] = s
      /\ \A k \in 1 .. Len(q) : c[n + k] = q[k]
  BY Parts
<1> HIDE DEF c, n
<1>2. \A j \in n + 1 .. Len(c) : c[j] \notin Separators
  <2>1. ASSUME NEW j \in n + 1 .. Len(c) PROVE c[j] \notin Separators
    <3>1. j - n \in 1 .. Len(q) /\ n + (j - n) = j
      BY <1>1
    <3>2. QED
      BY <1>1, <3>1 DEF Plain
  <2>2. QED
    BY <2>1
<1>3. FindLast(c) = n
  <2>1. IsLast(c, n)
    BY <1>1, <1>2 DEF IsLast
  <2>2. QED
    BY <1>1, <2>1, LastIsFound
<1>4. \A k \in 1 .. Len(c) : c[k] \in S
  BY <1>1, ElementOfSeq
<1>5. getFileName(c) = q
  <2> DEFINE t == SubSeq(c, n + 1, Len(c))
  <2>1. /\ t \in Seq(S)
        /\ Len(t) = IF n + 1 <= Len(c) THEN Len(c) - (n + 1) + 1 ELSE 0
        /\ \A k \in 1 .. Len(c) - (n + 1) + 1 : t[k] = c[n + 1 + k - 1]
    BY SMTT(30), <1>1, <1>4, SubSeqProperties
  <2> HIDE DEF t
  <2>2. Len(t) = Len(q) /\ \A k \in 1 .. Len(t) : t[k] = c[n + k]
    BY <1>1, <2>1
  <2>3. t = q
    BY <1>1, <2>1, <2>2, SeqEqual
  <2>4. QED
    BY <1>1, <1>3, <2>3 DEF getFileName, t
<1>6. getDirectory(c) = d
  <2> DEFINE t == SubSeq(c, 1, n - 1)
  <2>1. /\ t \in Seq(S)
        /\ Len(t) = IF 1 <= n - 1 THEN n - 1 - 1 + 1 ELSE 0
        /\ \A k \in 1 .. n - 1 - 1 + 1 : t[k] = c[1 + k - 1]
    BY <1>1, <1>4, SubSeqProperties
  <2> HIDE DEF t
  <2>2. Len(t) = Len(d) /\ \A k \in 1 .. Len(t) : t[k] = d[k]
    BY <1>1, <2>1
  <2>3. t = d
    BY <2>1, <2>2, SeqEqual
  <2>4. QED
    BY <1>1, <1>3, <2>3 DEF getDirectory, t
<1>7. QED
  BY <1>3, <1>5, <1>6 DEF c, n

(* What is put together is found again, for paths of any length over any   *)
(* characters.                                                             *)
LEMMA PathsAgree ==
  ASSUME NEW S, NEW p \in Seq(S), NEW q \in Seq(S)
  PROVE  FindsName(p, q) /\ FindsDirectory(p, q)
<1>1. SUFFICES ASSUME Plain(q)
               PROVE  /\ getFileName(combinePath(p, q)) = q
                      /\ getDirectory(combinePath(p, q)) = WithoutLast(p)
  BY DEF FindsName, FindsDirectory
<1>2. CASE p = <<>>
  BY <1>1, <1>2, PlainHasNone
     DEF combinePath, getFileName, getDirectory, WithoutLast
<1>3. CASE p # <<>>
  <2> DEFINE C == S \cup Separators
             d == WithoutLast(p)
  <2>1. d \in Seq(C) /\ q \in Seq(C) /\ Separators \subseteq C
    BY <1>3, WithoutLastType, SeqMonotonic
  <2>2. combinePath(p, q) = Append(d, Between(p)) \o q
    BY <1>3, JoinedIs
  <2>3. Between(p) \in Separators
    BY BetweenIsSeparator
  <2> HIDE DEF C, d
  <2>4. /\ getFileName(Append(d, Between(p)) \o q) = q
        /\ getDirectory(Append(d, Between(p)) \o q) = d
    BY <1>1, <2>1, <2>3, LastOfJoined
  <2>5. QED
    BY <2>2, <2>4 DEF d
<1>4. QED
  BY <1>2, <1>3

(* The separator that is put between is one that the directory uses. *)
LEMMA BetweenIsUsed ==
  ASSUME NEW S, NEW p \in Seq(S), p # <<>>, ~Plain(p)
  PROVE  Uses(p, Between(p))
<1>1. Len(p) \in Nat \ {0}
  BY EmptySeq
<1>2. CASE p[Len(p)] \in Separators
  BY <1>1, <1>2 DEF Between, Uses
<1>3. CASE p[Len(p)] \notin Separators
  BY <1>3 DEF Between, Uses, Plain, Joiner, Separators
<1>4. QED
  BY <1>2, <1>3

LEMMA SeparatorKept ==
  ASSUME NEW S, NEW p \in Seq(S), NEW q \in Seq(S)
  PROVE  KeepsSeparator(p, q)
<1>1. SUFFICES ASSUME Plain(q), ~Plain(p), NEW s \in Separators,
                      Uses(combinePath(p, q), s)
               PROVE  Uses(p, s)
  BY DEF KeepsSeparator
<1>2. p # <<>>
  BY <1>1 DEF Plain
<1> DEFINE C == S \cup Separators
           d == WithoutLast(p)
           b == Between(p)
           c == Append(d, b) \o q
<1>3. d \in Seq(C) /\ q \in Seq(C) /\ Separators \subseteq C
  BY <1>2, WithoutLastType, SeqMonotonic
<1>4. c = combinePath(p, q) /\ b \in Separators
  BY <1>2, JoinedIs, BetweenIsSeparator
<1>5. \A k \in 1 .. Len(d) : k \in 1 .. Len(p) /\ d[k] = p[k]
  <2>1. Len(p) \in Nat \ {0}
    BY <1>2, EmptySeq
  <2>2. CASE p[Len(p)] \in Separators
    <3>1. d \in Seq(S) /\ p = Append(d, p[Len(p)]) /\ p[Len(p)] \in S
      BY <1>2, <2>1, <2>2, WithoutLastType, ElementOfSeq
    <3> HIDE DEF d
    <3>2. /\ Len(Append(d, p[Len(p)])) = Len(d) + 1 /\ Len(d) \in Nat
          /\ \A k \in 1 .. Len(d) : Append(d, p[Len(p)])[k] = d[k]
      BY <3>1, AppendProperties, LenProperties
    <3>3. QED
      BY <3>1, <3>2
  <2>3. CASE p[Len(p)] \notin Separators
    BY <1>2, <2>3, WithoutLastType
  <2>4. QED
    BY <2>2, <2>3
<1> HIDE DEF C, d, b
<1>6. /\ Len(c) = Len(d) + 1 + Len(q)
      /\ Len(d) \in Nat /\ Len(q) \in Nat
      /\ \A k \in 1 .. Len(d) : c[k] = d[k]
      /\ c[Len(d) + 1] = b
      /\ \A k \in 1 .. Len(q) : c[Len(d) + 1 + k] = q[k]
  BY SMTT(30), <1>3, <1>4, Parts
<1> HIDE DEF c
<1>7. PICK k \in 1 .. Len(c) : c[k] = s
  BY <1>1, <1>4 DEF Uses
<1>8. CASE k \in 1 .. Len(d)
  BY <1>5, <1>6, <1>7, <1>8 DEF Uses
<1>9. CASE k = Len(d) + 1
  BY <1>1, <1>2, <1>6, <1>7, <1>9, BetweenIsUsed DEF b
<1>10. CASE k > Len(d) + 1
  <2>1. /\ k - (Len(d) + 1) \in 1 .. Len(q)
        /\ Len(d) + 1 + (k - (Len(d) + 1)) = k
    BY <1>6, <1>10
  <2>2. s \notin Separators
    BY <1>1, <1>6, <1>7, <2>1 DEF Plain
  <2>3. QED
    BY <1>1, <2>2
<1>11. QED
  BY <1>6, <1>7, <1>8, <1>9, <1>10

LEMMA CutsAreStrings ==
  ASSUME TypeOK, NEW c \in Cuts
  PROVE  c[1] \in Seq(Bytes) /\ c[2] \in Seq(Bytes)
<1>1. input \in Seq(Bytes) /\ Len(input) \in Nat
  BY StringFacts DEF TypeOK
<1>2. PICK k \in 0 .. Len(input) :
        c = <<SubSeq(input, 1, k), SubSeq(input, k + 1, Len(input))>>
  BY DEF Cuts
<1>3. \A j \in 1 .. Len(input) : input[j] \in Bytes
  BY <1>1, ElementOfSeq
<1>4. SubSeq(input, 1, k) \in Seq(Bytes)
  <2>1. 1 \in Int /\ k \in Int /\ \A j \in 1 .. k : input[j] \in Bytes
    BY <1>1, <1>3
  <2>2. QED
    BY <2>1, SubSeqProperties
<1>5. SubSeq(input, k + 1, Len(input)) \in Seq(Bytes)
  <2>1. /\ k + 1 \in Int /\ Len(input) \in Int
        /\ \A j \in k + 1 .. Len(input) : input[j] \in Bytes
    BY <1>1, <1>3
  <2>2. QED
    BY <2>1, SubSeqProperties
<1>6. QED
  BY <1>2, <1>4, <1>5

(* The variables of safeUtf8 keep their types. *)
THEOREM Utf8Types == Spec => []TypeOK
<1>1. Utf8Inv => TypeOK
  BY DEF Utf8Inv
<1>2. QED
  BY <1>1, Utf8InvHolds, PTL

(* getFileName finds the name again that combinePath has put behind a      *)
(* directory, whatever string is cut in a directory and a name.            *)
THEOREM NameIsFound == Spec => []NameFound
<1>1. TypeOK => NameFound
  BY CutsAreStrings, PathsAgree DEF NameFound
<1>2. QED
  BY <1>1, Utf8Types, PTL

(* getDirectory finds the directory again, without a separator at its end. *)
THEOREM DirectoryIsFound == Spec => []DirectoryFound
<1>1. TypeOK => DirectoryFound
  BY CutsAreStrings, PathsAgree DEF DirectoryFound
<1>2. QED
  BY <1>1, Utf8Types, PTL

(* combinePath puts no separator into a path that the directory has not    *)
(* got already, if it has any.  (A directory with both kinds gets '\',     *)
(* whichever it uses last.)                                                *)
THEOREM SeparatorIsSame == Spec => []SameSeparator
<1>1. TypeOK => SameSeparator
  BY CutsAreStrings, SeparatorKept DEF SameSeparator
<1>2. QED
  BY <1>1, Utf8Types, PTL
=============================================================================
