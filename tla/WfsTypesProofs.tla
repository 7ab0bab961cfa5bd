--------------------------- MODULE WfsTypesProofs ---------------------------
(***************************************************************************)
(* Reading a message: the reader and the peer have the same structs open   *)
(* for as long as the reader reads, at any depth, whatever the peer        *)
(* writes, unless it writes values where DirList::read expects items.      *)
(* From that: an accepted message was read to exactly its end, it is       *)
(* refused if and only if it lacks a needed field or is nested too deep,   *)
(* its refusal leaves bytes behind, and what write() writes is read as it  *)
(* was written.                                                            *)
(*                                                                         *)
(* The proofs are inductions over the steps of the two, not over messages: *)
(* they hold for messages of every length, lists and structs in them, and  *)
(* for every limit of the nesting that the service's own structs meet.     *)
(***************************************************************************)
EXTENDS WfsRoundTrip, SequenceTheorems, TLAPS

(* While reading, what is open to the reader is what is open to the peer,  *)
(* and nothing was lacking or too deep yet.  The outermost struct is the   *)
(* message's.                                                              *)
Together ==
  ~astray =>
    /\ status = "reading" =>
         stack = sent /\ sent # <<>> /\ ~lacking /\ ~tooDeep
    /\ status = "done" =>
         stack = <<>> /\ sent = <<>> /\ ~lacking /\ ~tooDeep
    /\ status = "INVALID_DATA" => lacking /\ ~tooDeep
    /\ status = "DEPTH_LIMIT" => tooDeep /\ ~lacking
    /\ status # "OTHER"
Bottom == sent # <<>> => sent[1].s = root
(* A refused message has an open struct around the one that lacks a field, *)
(* if the message's own struct needs none.                                 *)
RestLeft ==
  status \in Refused /\ ~astray /\ Required(root) = {} => sent # <<>>
(* write() writes every field that read() needs, and lists of structs.     *)
NothingLacks == own => status \notin Refused /\ stack = sent /\ ~astray

(* How deep the structs of the interface are nested in each other.         *)
Height ==
  [s \in Structs |->
     IF s \in {"Append_result", "Delete_result", "Rename_result",
               "Auth_result", "List_result"} THEN 3
     ELSE IF s \in {"WfsAck", "DirList", "Append_args", "Auth_args",
                    "Get_result"} THEN 2 ELSE 1]

(* The open structs that a reader has got to: not too deep, in a message   *)
(* of the program itself with room for the structs that may be in them,    *)
(* and a DirList only in the reply to List.                                *)
Fitting ==
  {f \in Frames :
     /\ f.depth <= DepthLimit
     /\ own => f.s \in Structs /\ f.depth + Height[f.s] <= 4
     /\ f.s = "List_result" => root = "List_result"
     /\ f.s = "DirList" => root \in {"List_result", "DirList"}}
WithinLimits == status = "reading" => sent \in Seq(Fitting)
LostInList == astray => root \in {"List_result", "DirList"}

ReadInv ==
  /\ TypeOK /\ Together /\ Bottom /\ RestLeft /\ NothingLacks
  /\ WithinLimits /\ LostInList /\ own \in BOOLEAN

-----------------------------------------------------------------------------
(***************************************************************************)
(* The structs                                                             *)
(***************************************************************************)

(* The definitions of the interface's structs, by the names they are       *)
(* listed under in FieldsOf.                                               *)
LEMMA FieldsOne ==
  \A a, s : /\ DOMAIN From1(<<a>>) = {1} /\ From1(<<a>>)[1] = a
            /\ DOMAIN Success(s) = {0} /\ Success(s)[0] = s
            /\ DOMAIN NoFields = {}
<1> SUFFICES ASSUME NEW a, NEW s
             PROVE  /\ DOMAIN From1(<<a>>) = {1} /\ From1(<<a>>)[1] = a
                    /\ DOMAIN Success(s) = {0} /\ Success(s)[0] = s
                    /\ DOMAIN NoFields = {}
  OBVIOUS
<1>1. DOMAIN From1(<<a>>) = {1} /\ From1(<<a>>)[1] = a
  BY DEF From1
<1>2. DOMAIN Success(s) = {0} /\ Success(s)[0] = s /\ DOMAIN NoFields = {}
  BY DEF Success, NoFields
<1>3. QED
  BY <1>1, <1>2

LEMMA FieldsMore ==
  \A a, b, c, d :
    /\ DOMAIN From1(<<a, b>>) = {1, 2}
    /\ From1(<<a, b>>)[1] = a /\ From1(<<a, b>>)[2] = b
    /\ DOMAIN From1(<<a, b, c>>) = {1, 2, 3}
    /\ From1(<<a, b, c>>)[1] = a /\ From1(<<a, b, c>>)[2] = b
    /\ From1(<<a, b, c>>)[3] = c
    /\ DOMAIN From1(<<a, b, c, d>>) = {1, 2, 3, 4}
    /\ From1(<<a, b, c, d>>)[1] = a /\ From1(<<a, b, c, d>>)[2] = b
    /\ From1(<<a, b, c, d>>)[3] = c /\ From1(<<a, b, c, d>>)[4] = d
BY DEF From1

(* The structs that a message's body is, and those that are members.       *)
Messages ==
  {"Append_args", "Append_result", "Delete_args", "Delete_result",
   "Rename_args", "Rename_result", "Auth_args", "Auth_result", "Get_args",
   "Get_result", "List_args", "List_result", "Ping_args", "Ping_result"}
Members == {"WfsError", "WfsAck", "WfsReq", "WfsAuth", "WfsData", "WfsFile",
            "DirItem", "DirList"}

(* A field that is a struct, or a list of structs, holds one of them, with *)
(* less nested in it; only the reply to List has a DirList in it.          *)
LEMMA HeldIsStruct ==
  ASSUME NEW s \in Structs, NEW id \in DOMAIN FieldsOf[s],
         FieldsOf[s][id].type \in {"struct", "list"}
  PROVE  /\ Held(s, id) \in Structs /\ Height[Held(s, id)] < Height[s]
         /\ Height[Held(s, id)] \in Nat \ {0} /\ Height[s] \in Nat
         /\ Held(s, id) # "List_result"
         /\ Held(s, id) = "DirList" => s = "List_result"
<1>1. s \in Messages \cup Members
  BY DEF Structs, FieldsOf, Messages, Members
<1>2. CASE s \in Messages
  BY <1>2, FieldsOne, FieldsMore
     DEF Messages, Structs, FieldsOf, Held, Height, Scalar, StructOf,
         Append_args, Append_result, Delete_args, Delete_result, Rename_args,
         Rename_result, Auth_args, Auth_result, Get_args, Get_result,
         List_args, List_result, Ping_args, Ping_result
<1>3. CASE s \in {"WfsError", "WfsReq", "WfsAuth", "WfsData"}
  BY <1>3, FieldsOne, FieldsMore
     DEF Structs, FieldsOf, Held, Height, Scalar, WfsError, WfsReq, WfsAuth, WfsData
<1>4. CASE s = "WfsAck"
  BY <1>4, FieldsMore
     DEF Structs, FieldsOf, Held, Height, Needed, StructOf, WfsAck
<1>5. CASE s = "WfsFile"
  BY <1>5, FieldsMore
     DEF Structs, FieldsOf, Held, Height, Needed, Scalar, WfsFile
<1>6. CASE s = "DirItem"
  BY <1>6, FieldsMore DEF Structs, FieldsOf, Held, Height, Needed, DirItem
<1>7. CASE s = "DirList"
  BY <1>7, FieldsMore
     DEF Structs, FieldsOf, Held, Height, Needed, ListOf, StructOf, DirList
<1>8. QED
  BY <1>1, <1>2, <1>3, <1>4, <1>5, <1>6, <1>7 DEF Members

(* The one list of the interface is DirList's.                             *)
LEMMA ListsInDirList ==
  ASSUME NEW s \in Structs, NEW id \in DOMAIN FieldsOf[s],
         FieldsOf[s][id].type = "list"
  PROVE  s = "DirList"
<1>1. s \in Messages \cup Members
  BY DEF Structs, FieldsOf, Messages, Members
<1>2. s \notin Messages
  BY FieldsOne, FieldsMore
     DEF Messages, Structs, FieldsOf, Scalar, StructOf,
         Append_args, Append_result, Delete_args, Delete_result, Rename_args,
         Rename_result, Auth_args, Auth_result, Get_args, Get_result,
         List_args, List_result, Ping_args, Ping_result
<1>3. s \notin {"WfsError", "WfsReq", "WfsAuth", "WfsData"}
  BY FieldsOne, FieldsMore
     DEF Structs, FieldsOf, Scalar, WfsError, WfsReq, WfsAuth, WfsData
<1>4. s \notin {"WfsAck", "WfsFile", "DirItem"}
  BY FieldsMore
     DEF Structs, FieldsOf, Needed, Scalar, StructOf, WfsAck, WfsFile, DirItem
<1>5. QED
  BY <1>1, <1>2, <1>3, <1>4 DEF Members

(* What read() may not do without, write() writes without being asked.     *)
LEMMA NeededIsWritten ==
  ASSUME NEW s \in Structs
  PROVE  Required(s) \subseteq Always[s]
<1>1. s \in Messages \cup Members
  BY DEF Structs, FieldsOf, Messages, Members
<1>2. CASE s \in Messages
  BY <1>2, FieldsOne, FieldsMore
     DEF Messages, Structs, FieldsOf, Required, Always, Scalar, StructOf,
         Append_args, Append_result, Delete_args, Delete_result, Rename_args,
         Rename_result, Auth_args, Auth_result, Get_args, Get_result,
         List_args, List_result, Ping_args, Ping_result
<1>3. CASE s \in {"WfsError", "WfsReq", "WfsAuth", "WfsData"}
  BY <1>3, FieldsOne, FieldsMore
     DEF Structs, FieldsOf, Required, Always, Scalar, WfsError, WfsReq, WfsAuth, WfsData
<1>4. CASE s = "WfsAck"
  BY <1>4, FieldsMore
     DEF Structs, FieldsOf, Required, Always, WfsAck_write, Needed, StructOf, WfsAck
<1>5. CASE s = "WfsFile"
  BY <1>5, FieldsMore
     DEF Structs, FieldsOf, Required, Always, WfsFile_write, Needed, Scalar, WfsFile
<1>6. CASE s = "DirItem"
  BY <1>6, FieldsMore DEF Structs, FieldsOf, Required, Always, DirItem_write, Needed, DirItem
<1>7. CASE s = "DirList"
  BY <1>7, FieldsMore
     DEF Structs, FieldsOf, Required, Always, DirList_write, Needed, ListOf, StructOf, DirList
<1>8. QED
  BY <1>1, <1>2, <1>3, <1>4, <1>5, <1>6, <1>7 DEF Members

(* No struct that is a message's body has a needed field of its own.      *)
LEMMA MessagesNeedNothing ==
  ASSUME NEW s \in Messages
  PROVE  s \in Structs /\ Required(s) = {}
BY FieldsOne, FieldsMore
   DEF Messages, Structs, FieldsOf, Required, Scalar, StructOf,
       Append_args, Append_result, Delete_args, Delete_result, Rename_args,
       Rename_result, Auth_args, Auth_result, Get_args, Get_result,
       List_args, List_result, Ping_args, Ping_result

-----------------------------------------------------------------------------
(***************************************************************************)
(* Open structs                                                            *)
(***************************************************************************)

(* A sequence of frames that is one, above the struct of the message.      *)
Above(new, fs) == new # <<>> => new[1].s = fs[1].s

(* Frames that are told apart by their struct and their depth only.        *)
Alike(S) ==
  /\ S \subseteq Frames
  /\ \A f \in S, g \in Frames : g.s = f.s /\ g.depth = f.depth => g \in S

LEMMA AlikeSets ==
  ASSUME ReadInv
  PROVE  Alike(Frames) /\ Alike(Fitting) /\ Fitting \subseteq Frames
BY DEF Alike, Fitting

LEMMA TopIsFrame ==
  ASSUME NEW S, NEW fs \in Seq(S), fs # <<>>
  PROVE  /\ Len(fs) \in Nat /\ Len(fs) >= 1
         /\ Top(fs) \in S /\ fs[1] \in S
<1>1. Len(fs) \in Nat /\ Len(fs) >= 1
  BY EmptySeq, LenProperties
<1>2. 1 \in 1 .. Len(fs) /\ Len(fs) \in 1 .. Len(fs)
  BY <1>1
<1>3. QED
  BY <1>1, <1>2, ElementOfSeq DEF Top

LEMMA MarkType ==
  ASSUME NEW S, Alike(S), NEW fs \in Seq(S), fs # <<>>, NEW id \in FieldIds
  PROVE  Mark(fs, id) \in Seq(S) /\ Mark(fs, id) # <<>>
         /\ Above(Mark(fs, id), fs)
<1> DEFINE n == Len(fs)
           new == [fs[n] EXCEPT !.seen = @ \cup {id}]
<1>1. /\ n \in Nat /\ n >= 1 /\ n \in 1 .. n /\ 1 \in 1 .. n
      /\ fs[n] \in S /\ fs[n] \in Frames
  BY TopIsFrame DEF Top, Alike
<1>2. new \in Frames /\ new.s = fs[n].s /\ new.depth = fs[n].depth
  BY <1>1 DEF Frames
<1>3. Mark(fs, id) = [fs EXCEPT ![n] = new]
  BY DEF Mark
<1> HIDE DEF new
<1>4. new \in S
  BY <1>1, <1>2 DEF Alike
<1>5. /\ Mark(fs, id) \in Seq(S) /\ Len(Mark(fs, id)) = n
      /\ \A j \in 1 .. n : Mark(fs, id)[j] = IF j = n THEN new ELSE fs[j]
  BY <1>1, <1>3, <1>4, ExceptSeq
<1>6. Mark(fs, id) # <<>>
  BY <1>1, <1>5, EmptySeq
<1>7. Mark(fs, id)[1].s = fs[1].s
  BY <1>1, <1>2, <1>5
<1>8. QED
  BY <1>5, <1>6, <1>7 DEF Above

LEMMA PushType ==
  ASSUME NEW S, NEW fs \in Seq(S), NEW f \in S
  PROVE  /\ Push(fs, f) \in Seq(S) /\ Push(fs, f) # <<>>
         /\ fs # <<>> => Above(Push(fs, f), fs)
         /\ Push(fs, f)[Len(fs) + 1] = f
<1>1. /\ Append(fs, f) \in Seq(S) /\ Append(fs, f) # <<>>
      /\ \A i \in 1 .. Len(fs) : Append(fs, f)[i] = fs[i]
      /\ Append(fs, f)[Len(fs) + 1] = f
  BY AppendProperties
<1>2. fs # <<>> => 1 \in 1 .. Len(fs)
  BY TopIsFrame
<1>3. QED
  BY <1>1, <1>2 DEF Push, Above

LEMMA BelowType ==
  ASSUME NEW S, NEW fs \in Seq(S), fs # <<>>
  PROVE  /\ Below(fs) \in Seq(S) /\ Len(Below(fs)) = Len(fs) - 1
         /\ Above(Below(fs), fs)
<1> DEFINE n == Len(fs)
<1>1. n \in Nat /\ n >= 1 /\ \A i \in 1 .. n - 1 : fs[i] \in S
  BY TopIsFrame, ElementOfSeq
<1>2. Below(fs) = SubSeq(fs, 1, n - 1)
  BY DEF Below
<1> HIDE DEF n
<1>3. /\ Below(fs) \in Seq(S)
      /\ Len(Below(fs)) = n - 1
      /\ \A i \in 1 .. n - 1 : Below(fs)[i] = fs[i]
  <2>1. /\ SubSeq(fs, 1, n - 1) \in Seq(S)
        /\ Len(SubSeq(fs, 1, n - 1)) = IF 1 <= n - 1 THEN n - 1 - 1 + 1 ELSE 0
        /\ \A i \in 1 .. n - 1 - 1 + 1 :
             SubSeq(fs, 1, n - 1)[i] = fs[1 + i - 1]
    BY <1>1, SubSeqProperties
  <2>2. QED
    BY <1>1, <1>2, <2>1
<1>4. ASSUME Below(fs) # <<>> PROVE Below(fs)[1] = fs[1]
  <2>1. n - 1 >= 1
    BY <1>1, <1>3, <1>4, TopIsFrame
  <2>2. QED
    BY <1>1, <1>3, <2>1
<1>5. QED
  BY <1>3, <1>4 DEF Above, n

(* The struct that ends is the message's own, or one is left around it.    *)
LEMMA EndedType ==
  ASSUME NEW S, Alike(S), NEW fs \in Seq(S), fs # <<>>
  PROVE  /\ Ended(fs) \in Seq(S) /\ Above(Ended(fs), fs)
         /\ Ended(fs) = <<>> => Top(fs).s = fs[1].s
<1>1. /\ Len(fs) \in Nat /\ Len(fs) >= 1
      /\ Top(fs) \in S /\ Top(fs) \in Frames /\ fs[1] \in S
  BY TopIsFrame DEF Alike
<1>2. /\ Below(fs) \in Seq(S) /\ Len(Below(fs)) = Len(fs) - 1
      /\ Above(Below(fs), fs)
  BY BelowType
<1>3. CASE Top(fs).more = 0
  <2>1. Ended(fs) = Below(fs)
    BY <1>3 DEF Ended
  <2>2. ASSUME Below(fs) = <<>> PROVE Top(fs) = fs[1]
    <3>1. Len(fs) = 1
      BY <1>1, <1>2, <2>2, EmptySeq
    <3>2. QED
      BY <3>1 DEF Top
  <2>3. QED
    BY <1>2, <2>1, <2>2
<1>4. CASE Top(fs).more # 0
  <2> DEFINE f == NextItem(Top(fs))
  <2>1. f \in S /\ f.s = Top(fs).s
    <3>1. f \in Frames /\ f.s = Top(fs).s /\ f.depth = Top(fs).depth
      BY <1>1, <1>4, BoundsAssumption DEF NextItem, Frame, Frames
    <3>2. QED
      BY <1>1, <3>1 DEF Alike
  <2>2. Ended(fs) = Push(Below(fs), f)
    BY <1>4 DEF Ended
  <2> HIDE DEF f
  <2>3. Ended(fs) \in Seq(S) /\ Ended(fs) # <<>>
    BY <1>2, <2>1, <2>2, PushType
  <2>4. CASE Below(fs) # <<>>
    <3>1. Above(Ended(fs), Below(fs))
      BY <1>2, <2>1, <2>2, <2>4, PushType
    <3>2. QED
      BY <1>2, <2>3, <2>4, <3>1 DEF Above
  <2>5. CASE Below(fs) = <<>>
    <3>1. Len(fs) = 1 /\ Len(Below(fs)) = 0
      BY <1>1, <1>2, <2>5, EmptySeq
    <3>2. Push(Below(fs), f)[Len(Below(fs)) + 1] = f
      BY <1>2, <2>1, PushType
    <3>3. Ended(fs)[1].s = fs[1].s
      BY <2>1, <2>2, <3>1, <3>2 DEF Top
    <3>4. QED
      BY <2>3, <3>3 DEF Above
  <2>6. QED
    BY <2>4, <2>5
<1>5. QED
  BY <1>3, <1>4

(* What the peer's next field does to the structs it has open.             *)
LEMMA WroteType ==
  ASSUME ReadInv, InMessage, NEW id \in FieldIds, NEW type, NEW n \in Nat,
         n # 0 => type \in {"struct", "list"},
         n # 0 => n - 1 \in 0 .. MaxItems
  PROVE  /\ Wrote(id, type, n) \in Seq(Frames) /\ Wrote(id, type, n) # <<>>
         /\ Above(Wrote(id, type, n), sent)
         /\ /\ Depth(id, type, n) <= DepthLimit
            /\ own => Declared(Top(sent).s, id, type)
            => Wrote(id, type, n) \in Seq(Fitting)
<1> DEFINE s == Top(sent).s
           known == Declared(s, id, type)
           depth == Depth(id, type, n)
           open == IF known THEN Mark(sent, id) ELSE sent
           f == Frame(IF known THEN Held(s, id) ELSE "unknown", n - 1, depth)
<1>1. /\ sent \in Seq(Fitting) /\ sent \in Seq(Frames) /\ sent # <<>>
      /\ Alike(Fitting)
  BY AlikeSets DEF InMessage, ReadInv, TypeOK, WithinLimits
<1>2. /\ Top(sent) \in Fitting /\ Top(sent) \in Frames
      /\ s \in Structs \cup {"unknown"}
      /\ Top(sent).depth \in 1 .. DepthLimit
  BY <1>1, TopIsFrame, DepthAssumption DEF Frames, Fitting
<1>3. /\ open \in Seq(Fitting) /\ open # <<>> /\ Above(open, sent)
  BY <1>1, MarkType DEF Above
<1>4. /\ depth \in 1 .. DepthLimit + 2
      /\ known /\ n # 0 => depth = Top(sent).depth + 1
  BY <1>2, DepthAssumption DEF Depth, Levels
<1>5. ASSUME known, n # 0
      PROVE  /\ Held(s, id) \in Structs /\ s \in Structs
             /\ Height[Held(s, id)] < Height[s]
             /\ Height[Held(s, id)] \in Nat \ {0} /\ Height[s] \in Nat
             /\ Held(s, id) # "List_result"
             /\ Held(s, id) = "DirList" => s = "List_result"
  BY <1>2, <1>5, HeldIsStruct DEF Declared
<1>6. ASSUME n # 0 PROVE f \in Frames
  BY <1>4, <1>5, <1>6 DEF Frame, Frames
<1>7. ASSUME n # 0, depth <= DepthLimit, own => known PROVE f \in Fitting
  <2>1. f.depth = depth /\ f.s = IF known THEN Held(s, id) ELSE "unknown"
    BY DEF Frame
  <2>2. ASSUME own PROVE f.s \in Structs /\ f.depth + Height[f.s] <= 4
    <3>1. known /\ f.s = Held(s, id) /\ f.depth = Top(sent).depth + 1
      BY <1>4, <1>7, <2>1, <2>2
    <3>2. Top(sent).depth + Height[s] <= 4
      BY <1>2, <2>2 DEF Fitting
    <3>3. Top(sent).depth \in Nat
      BY <1>2, DepthAssumption
    <3>4. QED
      BY <1>5, <1>7, <3>1, <3>2, <3>3
  <2>3. f.s # "List_result"
    BY <1>5, <1>7, <2>1
  <2>4. ASSUME f.s = "DirList" PROVE root \in {"List_result", "DirList"}
    <3>1. s = "List_result"
      BY <1>5, <1>7, <2>1, <2>4
    <3>2. QED
      BY <1>2, <3>1 DEF Fitting
  <2>5. QED
    BY <1>6, <1>7, <2>1, <2>2, <2>3, <2>4 DEF Fitting
<1>8. Wrote(id, type, n) = IF n = 0 THEN open ELSE Push(open, f)
  BY DEF Wrote
<1> HIDE DEF open, f, depth, known, s
<1>9. CASE n = 0
  <2>1. open \in Seq(Frames)
    BY <1>3 DEF Fitting
  <2>2. QED
    BY <1>3, <1>8, <1>9, <2>1
<1>10. CASE n # 0
  <2>1. open \in Seq(Frames)
    BY <1>3 DEF Fitting
  <2>2. /\ Push(open, f) \in Seq(Frames) /\ Push(open, f) # <<>>
        /\ Above(Push(open, f), open)
    BY <1>3, <1>6, <1>10, <2>1, PushType
  <2>3. Above(Push(open, f), sent)
    BY <1>3, <2>2 DEF Above
  <2>4. depth <= DepthLimit /\ (own => known) => Push(open, f) \in Seq(Fitting)
    BY <1>3, <1>7, <1>10, PushType
  <2>5. QED
    BY <1>8, <1>10, <2>2, <2>3, <2>4 DEF depth, known, s
<1>11. QED
  BY <1>9, <1>10

LEMMA DepthIsNat ==
  ASSUME ReadInv, InMessage, NEW id, NEW type, NEW n
  PROVE  Depth(id, type, n) \in Nat
<1>1. sent \in Seq(Frames) /\ sent # <<>>
  BY DEF InMessage, ReadInv, TypeOK
<1>2. Top(sent) \in Frames
  BY <1>1, TopIsFrame
<1>3. Top(sent).depth \in Nat
  BY <1>2, DepthAssumption DEF Frames
<1>4. QED
  BY <1>3 DEF Depth, Levels

(* write() nests no object too deep to be read.                            *)
LEMMA OwnIsShallow ==
  ASSUME ReadInv, InMessage, own, NEW id \in FieldIds, NEW type, NEW n \in Nat,
         n # 0 => type \in {"struct", "list"},
         Declared(Top(sent).s, id, type)
  PROVE  Depth(id, type, n) <= DepthLimit
<1> DEFINE s == Top(sent).s
<1>1. sent \in Seq(Fitting) /\ sent # <<>>
  BY DEF InMessage, ReadInv, WithinLimits
<1>2. Top(sent) \in Fitting
  BY <1>1, TopIsFrame
<1>3. /\ Top(sent).depth \in Nat /\ Top(sent).depth <= DepthLimit
      /\ s \in Structs /\ Top(sent).depth + Height[s] <= 4
  BY <1>2, DepthAssumption DEF Fitting, Frames
<1>4. CASE n = 0
  BY <1>3, <1>4, DepthAssumption DEF Depth, Levels
<1>5. CASE n # 0
  <2>1. /\ Height[Held(s, id)] < Height[s] /\ Height[s] \in Nat
        /\ Height[Held(s, id)] \in Nat \ {0}
    BY <1>3, <1>5, HeldIsStruct DEF Declared
  <2>2. Depth(id, type, n) = Top(sent).depth + 1
    BY <1>5 DEF Depth, Levels
  <2>3. QED
    BY <1>3, <2>1, <2>2, DepthAssumption
<1>6. QED
  BY <1>4, <1>5

-----------------------------------------------------------------------------
(***************************************************************************)
(* Steps                                                                   *)
(***************************************************************************)
LEMMA ReadInit == EitherInit => ReadInv
<1> SUFFICES ASSUME EitherInit PROVE ReadInv
  OBVIOUS
<1> DEFINE f == Frame(root, 0, 1)
<1>1. f \in Frames /\ f.s = root /\ f.depth = 1 /\ root \in Structs
  BY RootsAssumption, BoundsAssumption, DepthAssumption
     DEF EitherInit, Init, Frame, Frames
<1>2. /\ sent = <<f>> /\ stack = <<f>> /\ status = "reading"
      /\ lacking = FALSE /\ tooDeep = FALSE /\ astray = FALSE
  BY DEF EitherInit, Init
<1>3. f \in Fitting
  BY <1>1, DepthAssumption DEF Fitting, Height
<1> HIDE DEF f
<1>4. <<f>> \in Seq(Frames) /\ <<f>> \in Seq(Fitting)
      /\ <<f>> # <<>> /\ <<f>>[1] = f
  BY <1>1, <1>3
<1>5. root \in Roots /\ fields \in 0 .. MaxFields /\ own \in BOOLEAN
  BY BoundsAssumption DEF EitherInit, Init
<1>6. TypeOK
  BY <1>2, <1>4, <1>5 DEF TypeOK
<1>7. QED
  BY <1>1, <1>2, <1>4, <1>5, <1>6
     DEF ReadInv, Together, Bottom, RestLeft, NothingLacks, WithinLimits,
         LostInList, Refused

(* A field that is too deep ends the reading; after any other, the reader  *)
(* has open what the peer has.                                             *)
LEMMA ReadFields ==
  ASSUME ReadInv, NEW id \in FieldIds, NEW type, NEW n \in Nat,
         n # 0 => type \in {"struct", "list"},
         n # 0 => n - 1 \in 0 .. MaxItems,
         own => Declared(Top(sent).s, id, type),
         Writes(id, type, n), UNCHANGED <<root, lacking, astray, own>>,
         IF Depth(id, type, n) > DepthLimit
         THEN status' = "DEPTH_LIMIT" /\ UNCHANGED stack
         ELSE stack' = sent' /\ UNCHANGED status
  PROVE  ReadInv'
<1>1. /\ InMessage /\ fields < MaxFields /\ fields' = fields + 1
      /\ sent' = Wrote(id, type, n)
      /\ tooDeep' = (Depth(id, type, n) > DepthLimit)
  BY DEF Writes
<1>2. /\ sent # <<>> /\ stack = sent /\ ~lacking /\ ~tooDeep /\ ~astray
      /\ status = "reading"
  BY <1>1 DEF InMessage, ReadInv, Together
<1>3. /\ sent' \in Seq(Frames) /\ sent' # <<>> /\ Above(sent', sent)
      /\ Depth(id, type, n) <= DepthLimit => sent' \in Seq(Fitting)
  BY <1>1, WroteType
<1>4. Bottom' /\ LostInList'
  BY <1>2, <1>3 DEF ReadInv, Bottom, Above, LostInList
<1>5. fields' \in 0 .. MaxFields /\ tooDeep' \in BOOLEAN
  BY <1>1, BoundsAssumption DEF ReadInv, TypeOK
<1>6. Fitting' = Fitting
  BY DEF Fitting
<1>7. Depth(id, type, n) \in Nat
  BY <1>1, DepthIsNat
<1>8. CASE Depth(id, type, n) > DepthLimit
  <2>1. status' = "DEPTH_LIMIT" /\ stack' = stack /\ tooDeep'
    BY <1>1, <1>8
  <2>2. ~own
    <3>1. ASSUME own PROVE Depth(id, type, n) <= DepthLimit
      BY <1>1, <3>1, OwnIsShallow
    <3>2. QED
      BY <1>8, <1>7, <3>1, DepthAssumption
  <2>3. TypeOK'
    BY <1>3, <1>5, <2>1 DEF ReadInv, TypeOK, Refused
  <2>4. QED
    BY <1>2, <1>3, <1>4, <2>1, <2>2, <2>3
       DEF ReadInv, Together, RestLeft, NothingLacks, WithinLimits
<1>9. CASE ~(Depth(id, type, n) > DepthLimit)
  <2>1. status' = "reading" /\ stack' = sent' /\ ~tooDeep'
    BY <1>1, <1>2, <1>9
  <2>2. sent' \in Seq(Fitting)'
    <3>1. Depth(id, type, n) <= DepthLimit
      BY <1>9, <1>7, DepthAssumption
    <3>2. QED
      BY <1>3, <1>6, <3>1
  <2>3. TypeOK'
    BY <1>3, <1>5, <2>1 DEF ReadInv, TypeOK
  <2>4. QED
    BY <1>2, <1>3, <1>4, <2>1, <2>2, <2>3
       DEF ReadInv, Together, RestLeft, NothingLacks, WithinLimits, Refused
<1>10. QED
  BY <1>8, <1>9

LEMMA ReadScalarField ==
  ASSUME ReadInv, NEW id \in FieldIds, NEW type, ScalarField(id, type),
         own' = own, own => Declared(Top(sent).s, id, type)
  PROVE  ReadInv'
<1>1. PICK n \in Nat : n = 0
  OBVIOUS
<1>2. stack = sent /\ sent' = Wrote(id, type, n) /\ Writes(id, type, n)
  BY <1>1 DEF ReadInv, Together, ScalarField, Writes, InMessage
<1>3. Known(Top(stack).s, id, type) = Declared(Top(sent).s, id, type)
  BY <1>2 DEF Known, Declared
<1>4. IF Depth(id, type, n) > DepthLimit
      THEN status' = "DEPTH_LIMIT" /\ UNCHANGED stack
      ELSE stack' = sent' /\ UNCHANGED status
  BY <1>1, <1>2, <1>3 DEF ScalarField, ReadScalar, Read, Wrote, Depth
<1>5. QED
  BY <1>1, <1>2, <1>4, ReadFields DEF ScalarField

LEMMA ReadStructField ==
  ASSUME ReadInv, NEW id \in FieldIds, NEW type \in {"struct", "list"},
         NEW n \in Nat, n # 0 => n - 1 \in 0 .. MaxItems,
         StructField(id, type, n), own' = own,
         own => Declared(Top(sent).s, id, type)
  PROVE  ReadInv'
<1>1. stack = sent /\ sent' = Wrote(id, type, n) /\ Writes(id, type, n)
  BY DEF ReadInv, Together, StructField, Writes, InMessage
<1>2. Known(Top(stack).s, id, type) = Declared(Top(sent).s, id, type)
  BY <1>1 DEF Known, Declared
<1>3. Entered(id, type, n) = Wrote(id, type, n)
  BY <1>1, <1>2 DEF Entered, Wrote, Depth
<1>4. IF Depth(id, type, n) > DepthLimit
      THEN status' = "DEPTH_LIMIT" /\ UNCHANGED stack
      ELSE stack' = sent' /\ UNCHANGED status
  BY <1>1, <1>2, <1>3 DEF StructField, ReadStructs, Read, Depth
<1>5. QED
  BY <1>1, <1>4, ReadFields DEF StructField

(* A list of values is skipped, or it leads the reader astray.             *)
LEMMA ReadValuesField ==
  ASSUME ReadInv, NEW id \in FieldIds, ValuesField(id), ~own, own' = own
  PROVE  ReadInv'
<1> DEFINE known == Declared(Top(sent).s, id, "list")
<1>1. /\ status = "reading" /\ ~astray /\ sent # <<>> /\ stack = sent
      /\ ~lacking /\ ~tooDeep /\ sent \in Seq(Fitting)
      /\ UNCHANGED <<root, sent, lacking>>
  BY DEF ReadInv, Together, WithinLimits, ValuesField, InMessage
<1>2. known = Known(Top(stack).s, id, "list")
  BY <1>1 DEF Known, Declared
<1>3. Fitting' = Fitting
  BY <1>1 DEF Fitting
<1>4. /\ fields' \in 0 .. MaxFields /\ tooDeep' \in BOOLEAN
      /\ sent' \in Seq(Fitting)' /\ Bottom'
  BY <1>1, <1>3, BoundsAssumption
     DEF ReadInv, TypeOK, Bottom, ValuesField
<1>5. CASE known
  <2>1. astray' /\ astray' \in BOOLEAN /\ stack' = stack /\ status' = status
    BY <1>2, <1>5 DEF ValuesField, ReadValues
  <2>2. Top(sent).s = "DirList"
    <3>1. Top(sent).s \in Structs /\ id \in DOMAIN FieldsOf[Top(sent).s]
          /\ FieldsOf[Top(sent).s][id].type = "list"
      <4>1. Top(sent) \in Fitting
        BY <1>1, TopIsFrame
      <4>2. QED
        BY <1>5, <4>1 DEF Declared, Fitting, Frames
    <3>2. QED
      BY <3>1, ListsInDirList
  <2>3. root \in {"List_result", "DirList"}
    <3>1. Top(sent) \in Fitting
      BY <1>1, TopIsFrame
    <3>2. QED
      BY <2>2, <3>1 DEF Fitting
  <2>4. QED
    BY <1>1, <1>4, <2>1, <2>3
       DEF ReadInv, TypeOK, Together, RestLeft, NothingLacks, WithinLimits,
           LostInList
<1>6. CASE ~known
  <2>1. /\ astray' = astray /\ stack' = stack
        /\ tooDeep' = (Depth(id, "list", 1) > DepthLimit)
        /\ IF tooDeep' THEN status' = "DEPTH_LIMIT" ELSE status' = status
    <3>1. PICK n : n = 1
      OBVIOUS
    <3>2. Read(id, "list", n, stack) /\ astray' = astray
      BY <1>2, <1>6, <3>1 DEF ValuesField, ReadValues
    <3>3. tooDeep' = (Depth(id, "list", n) > DepthLimit)
      BY <1>6, <3>1 DEF ValuesField
    <3>4. QED
      BY <1>1, <1>2, <1>6, <3>1, <3>2, <3>3 DEF Read, Depth
  <2>2. QED
    BY <1>1, <1>4, <2>1
       DEF ReadInv, TypeOK, Together, RestLeft, NothingLacks, WithinLimits,
           LostInList, Refused
<1>7. QED
  BY <1>5, <1>6

LEMMA ReadStop ==
  ASSUME ReadInv, StopField, own' = own, own => ~LacksRequired(Top(sent))
  PROVE  ReadInv'
<1>1. /\ status = "reading" /\ stack = sent /\ ~lacking /\ ~tooDeep /\ ~astray
      /\ sent \in Seq(Frames) /\ sent \in Seq(Fitting) /\ sent # <<>>
      /\ sent' = Ended(sent)
      /\ UNCHANGED <<root, fields, tooDeep, astray>>
      /\ lacking' = (lacking \/ LacksRequired(Top(sent)))
  BY DEF ReadInv, TypeOK, Together, WithinLimits, StopField, InMessage
<1>2. /\ sent' \in Seq(Fitting) /\ Above(sent', sent)
      /\ sent' = <<>> => Top(sent).s = sent[1].s
  BY <1>1, AlikeSets, EndedType
<1>3. sent' \in Seq(Frames) /\ sent' \in Seq(Fitting)'
  <2>1. Fitting' = Fitting
    BY <1>1 DEF Fitting
  <2>2. Seq(Fitting) \subseteq Seq(Frames)
    BY DEF Fitting
  <2>3. QED
    BY <1>2, <2>1, <2>2
<1>4. Bottom' /\ LostInList'
  BY <1>1, <1>2 DEF ReadInv, Bottom, Above, LostInList
<1>5. lacking' \in BOOLEAN
  BY <1>1 DEF LacksRequired
<1>6. CASE LacksRequired(Top(sent))
  <2>1. status' = "INVALID_DATA" /\ stack' = stack /\ lacking' /\ ~own
    BY <1>1, <1>6 DEF StopField, Finish
  <2>2. TypeOK'
    BY <1>1, <1>3, <1>5, <2>1 DEF ReadInv, TypeOK, Refused
  <2>3. RestLeft'
    <3>1. ASSUME Required(root) = {}, sent' = <<>> PROVE FALSE
      <4>1. Top(sent).s = root
        BY <1>1, <1>2, <3>1 DEF ReadInv, Bottom
      <4>2. QED
        BY <1>6, <3>1, <4>1 DEF LacksRequired
    <3>2. QED
      BY <1>1, <3>1 DEF RestLeft
  <2>4. QED
    BY <1>1, <1>4, <2>1, <2>2, <2>3
       DEF ReadInv, Together, NothingLacks, WithinLimits
<1>7. CASE ~LacksRequired(Top(sent))
  <2>1. /\ stack' = sent' /\ ~lacking'
        /\ status' = IF sent' = <<>> THEN "done" ELSE "reading"
    BY <1>1, <1>7 DEF StopField, Finish
  <2>2. TypeOK'
    BY <1>1, <1>3, <1>5, <2>1 DEF ReadInv, TypeOK
  <2>3. QED
    BY <1>1, <1>3, <1>4, <2>1, <2>2
       DEF ReadInv, Together, RestLeft, NothingLacks, WithinLimits, Refused
<1>8. QED
  BY <1>6, <1>7

LEMMA ReadStray ==
  ASSUME ReadInv, Stray, own' = own
  PROVE  ReadInv'
<1>1. Fitting' = Fitting
  BY DEF Fitting, Stray
<1>2. <<>> \in Seq(Frames)
  OBVIOUS
<1>3. TypeOK'
  BY <1>2 DEF ReadInv, TypeOK, Stray
<1>4. QED
  BY <1>1, <1>3
     DEF ReadInv, Together, Bottom, RestLeft, NothingLacks, WithinLimits,
         LostInList, Stray, Refused

(* write() ends a struct when all it writes unasked has been written.      *)
LEMMA WriteStopLacksNothing ==
  ASSUME ReadInv, WriteStop
  PROVE  ~LacksRequired(Top(sent))
<1>1. Top(sent) \in Frames
  BY TopIsFrame DEF WriteStop, ReadInv, TypeOK
<1>2. Top(sent).s \in Structs \cup {"unknown"}
  BY <1>1 DEF Frames
<1>3. QED
  BY <1>2, NeededIsWritten DEF WriteStop, LacksRequired

LEMMA ReadWritten ==
  ASSUME ReadInv, own, own' = own, Written
  PROVE  ReadInv'
<1>1. CASE WriteStop
  BY <1>1, WriteStopLacksNothing, ReadStop DEF WriteStop
<1>2. ASSUME NEW id \in FieldIds, WriteField(id)
      PROVE  ReadInv'
  <2>1. PICK type : type = FieldsOf[Top(sent).s][id].type
    OBVIOUS
  <2>6. Declared(Top(sent).s, id, type)
    <3>1. sent \in Seq(Fitting) /\ sent # <<>>
      BY <1>2
         DEF WriteField, ScalarField, StructField, Writes, InMessage, ReadInv,
             WithinLimits
    <3>2. Top(sent) \in Fitting
      BY <3>1, TopIsFrame
    <3>3. Top(sent).s \in Structs
      BY <3>2 DEF Fitting
    <3>4. "unknown" \notin Structs
      BY DEF Structs, FieldsOf
    <3>5. QED
      BY <1>2, <2>1, <3>3, <3>4 DEF WriteField, Declared
  <2>2. CASE ScalarField(id, type)
    BY <2>2, <2>6, ReadScalarField
  <2>3. CASE type = "struct" /\ StructField(id, type, 1)
    <3>1. PICK n \in Nat : n = 1
      OBVIOUS
    <3>2. n - 1 \in 0 .. MaxItems
      BY <3>1, BoundsAssumption
    <3>3. QED
      BY <2>3, <2>6, <3>1, <3>2, ReadStructField
  <2>4. ASSUME type = "list", NEW n \in 0 .. MaxItems, StructField(id, type, n)
        PROVE  ReadInv'
    <3>1. n \in Nat /\ (n # 0 => n - 1 \in 0 .. MaxItems)
      BY <2>4, BoundsAssumption
    <3>2. QED
      BY <2>4, <2>6, <3>1, ReadStructField
  <2>5. QED
    BY <1>2, <2>1, <2>2, <2>3, <2>4 DEF WriteField
<1>3. QED
  BY <1>1, <1>2 DEF Written

LEMMA ReadForeign ==
  ASSUME ReadInv, ~own, own' = own, Foreign
  PROVE  ReadInv'
<1>1. CASE StopField
  BY <1>1, ReadStop
<1>2. ASSUME NEW id \in FieldIds, NEW type, ScalarField(id, type)
      PROVE  ReadInv'
  BY <1>2, ReadScalarField
<1>3. ASSUME NEW id \in FieldIds, NEW type \in {"struct", "list"},
             NEW n \in 0 .. MaxItems, StructField(id, type, n)
      PROVE  ReadInv'
  <2>1. n \in Nat /\ (n # 0 => n - 1 \in 0 .. MaxItems)
    BY <1>3, BoundsAssumption
  <2>2. QED
    BY <1>3, <2>1, ReadStructField
<1>4. ASSUME NEW id \in FieldIds, ValuesField(id)
      PROVE  ReadInv'
  BY <1>4, ReadValuesField
<1>5. CASE Stray
  BY <1>5, ReadStray
<1>6. QED
  BY <1>1, <1>2, <1>3, <1>4, <1>5 DEF Foreign

LEMMA ReadNext == ReadInv /\ [EitherNext]_<<vars, own>> => ReadInv'
<1> SUFFICES ASSUME ReadInv, [EitherNext]_<<vars, own>> PROVE ReadInv'
  OBVIOUS
<1>1. CASE UNCHANGED <<vars, own>>
  BY <1>1
     DEF vars, ReadInv, TypeOK, Together, Bottom, RestLeft, NothingLacks,
         WithinLimits, LostInList, Fitting
<1>2. CASE own' = own /\ Over
  BY <1>1, <1>2 DEF Over
<1>3. QED
  BY <1>1, <1>2, ReadWritten, ReadForeign DEF EitherNext

LEMMA ReadCorrect == EitherSpec => []ReadInv
BY ReadInit, ReadNext, PTL DEF EitherSpec

-----------------------------------------------------------------------------
(***************************************************************************)
(* Theorems                                                                *)
(***************************************************************************)

(* What read() and write() keep while a message passes has its type.       *)
THEOREM ReadTypes == EitherSpec => []TypeOK
<1>1. ReadInv => TypeOK
  BY DEF ReadInv
<1>2. QED
  BY <1>1, ReadCorrect, PTL

(* A message of any peer that is accepted was read to exactly its end, so  *)
(* that the next message starts where the reader stops, unless it held a   *)
(* list of values that DirList::read took for DirItems.  That can happen   *)
(* within no message but a List's reply.                                   *)
THEOREM ReadToTheEnd == EitherSpec => []InStep
<1>1. ReadInv => InStep
  BY DEF ReadInv, TypeOK, Together, LostInList, Refused, InStep
<1>2. QED
  BY <1>1, ReadCorrect, PTL

(* A message without such a list is refused for INVALID_DATA if and only   *)
(* if a struct that its readers know lacks a field they need, for its      *)
(* depth if and only if it is nested deeper than the protocol's limit, and *)
(* for nothing else.                                                       *)
THEOREM RefusedIfAndOnlyIfLacking == EitherSpec => []RefusedIfLacking
<1>1. ReadInv => RefusedIfLacking
  BY DEF ReadInv, TypeOK, Together, Refused, RefusedIfLacking
<1>2. QED
  BY <1>1, ReadCorrect, PTL

(* A refused message has its end still in the stream, where the messages   *)
(* are structs that need no field of their own: all of this service are    *)
(* (MessagesNeedNothing).                                                  *)
THEOREM RefusalLeavesRest ==
  ASSUME \A r \in Roots : Required(r) = {}
  PROVE  EitherSpec => []RefusedLeavesRest
<1>1. ReadInv => RefusedLeavesRest
  BY DEF ReadInv, TypeOK, RestLeft, RefusedLeavesRest
<1>2. QED
  BY <1>1, ReadCorrect, PTL

(* What write() makes of an object is read without an exception, within    *)
(* any depth the protocol may be limited to, and exactly the fields that   *)
(* were written are set in the one that was read.                          *)
THEOREM WrittenIsRead == EitherSpec => []ReadAsWritten
<1>1. ReadInv => ReadAsWritten
  BY DEF ReadInv, NothingLacks, ReadAsWritten
<1>2. QED
  BY <1>1, ReadCorrect, PTL
=============================================================================
