------------------------------ MODULE WfsTypes ------------------------------
(***************************************************************************)
(* Reading one message body: the generated read() functions of the structs *)
(* of the service (gen-cpp/wfs_types.cpp) and of the argument and result   *)
(* structs of its methods (gen-cpp/WfsIface.cpp), on a stream of fields    *)
(* that a peer writes.  The peer may be of another version: it may leave   *)
(* fields out, send fields nobody knows, send a field with another type,   *)
(* or a list with other elements, and nest structs as deep as it likes.    *)
(*                                                                         *)
(* Every read() is the same loop over the fields of its own struct, so it  *)
(* is described by what it knows of each field, and one reader runs them   *)
(* all, a frame for every struct that is open.  Values are left out.       *)
(***************************************************************************)
EXTENDS Naturals, Sequences

CONSTANTS
  Roots,       \* the structs whose reading is checked
  MaxFields,   \* bound: fields in a message, at all depths
  MaxItems,    \* bound: elements in a list
  DepthLimit   \* calls of read() and skip() the protocol lets run at a time

ASSUME BoundsAssumption == MaxFields \in Nat /\ MaxItems \in Nat

(* Thrift's limit is 64 unless a program sets another, and this one sets   *)
(* none.  The service's own structs are nested in each other to depth 3.   *)
ASSUME DepthAssumption == DepthLimit \in Nat /\ DepthLimit >= 3

ScalarTypes == {"bool", "byte", "i32", "i64", "string"}
WireTypes == ScalarTypes \cup {"struct", "list"}
FieldIds == 0 .. 5

(* A field as read() knows it: its type, the struct it holds or the list   *)
(* is made of, and whether the struct may not come without it.             *)
Scalar(t)    == [type |-> t, of |-> "none", required |-> FALSE]
Needed(t)    == [type |-> t, of |-> "none", required |-> TRUE]
StructOf(s)  == [type |-> "struct", of |-> s, required |-> FALSE]
ListOf(s)    == [type |-> "list", of |-> s, required |-> FALSE]

(* A sequence of fields with the ids from 1. *)
From1(fs) == [n \in 1 .. Len(fs) |-> fs[n]]
(* Mutant of Success: a result may not come without its value. *)
SuccessNeeded(f) == [n \in {0} |-> [f EXCEPT !.required = TRUE]]
(* The struct of a result: field 0, which recv_X asks about afterwards. *)
Success(f) == [n \in {0} |-> f]
NoFields == [n \in {} |-> Scalar("bool")]

WfsError == From1(<<Scalar("i32"), Scalar("string")>>)
WfsAck   == From1(<<Needed("bool"), StructOf("WfsError")>>)
WfsReq   == From1(<<Scalar("string")>>)
WfsAuth  == From1(<<Scalar("string"), Scalar("string")>>)
WfsData  == From1(<<Scalar("string")>>)
WfsFile  == From1(<<Needed("string"), Needed("string"), Scalar("byte")>>)
DirItem  == From1(<<Needed("string"), Needed("i64"), Needed("i64"),
                    Needed("bool")>>)
DirList  == From1(<<Needed("string"), ListOf("DirItem"),
                    StructOf("WfsError")>>)

Append_args   == From1(<<StructOf("WfsFile")>>)
Append_result == Success(StructOf("WfsAck"))
Delete_args   == From1(<<Scalar("string")>>)
Delete_result == Success(StructOf("WfsAck"))
Rename_args   == From1(<<Scalar("string"), Scalar("string")>>)
Rename_result == Success(StructOf("WfsAck"))
Auth_args     == From1(<<StructOf("WfsAuth")>>)
Auth_result   == Success(StructOf("WfsAck"))
Get_args      == From1(<<Scalar("string")>>)
Get_result    == Success(StructOf("WfsData"))
List_args     == From1(<<Scalar("string")>>)
List_result   == Success(StructOf("DirList"))
Ping_args     == NoFields
Ping_result   == Success(Scalar("byte"))

FieldsOf ==
  [ WfsError |-> WfsError, WfsAck |-> WfsAck, WfsReq |-> WfsReq,
    WfsAuth |-> WfsAuth, WfsData |-> WfsData, WfsFile |-> WfsFile,
    DirItem |-> DirItem, DirList |-> DirList,
    Append_args |-> Append_args, Append_result |-> Append_result,
    Delete_args |-> Delete_args, Delete_result |-> Delete_result,
    Rename_args |-> Rename_args, Rename_result |-> Rename_result,
    Auth_args |-> Auth_args, Auth_result |-> Auth_result,
    Get_args |-> Get_args, Get_result |-> Get_result,
    List_args |-> List_args, List_result |-> List_result,
    Ping_args |-> Ping_args, Ping_result |-> Ping_result ]
Structs == DOMAIN FieldsOf
Required(s) == {f \in DOMAIN FieldsOf[s] : FieldsOf[s][f].required}

ASSUME RootsAssumption == Roots \subseteq Structs

VARIABLES
  root,      \* the struct that is read
  sent,      \* the structs the peer has begun and not ended, outermost first
  fields,    \* fields the peer has written
  lacking,   \* it ended a struct the reader has to know without a field it needs
  tooDeep,   \* it nested a field deeper than the reader goes
  stack,     \* the read() calls that are running, outermost first
  astray,    \* read() has taken bytes for a field that are none
  status     \* "reading", "done", or what was thrown

vars == <<root, sent, fields, lacking, tooDeep, stack, astray, status>>

(* What read() throws: two kinds of TProtocolException, and all the others *)
(* with those of the transport.                                            *)
Refused == {"INVALID_DATA", "DEPTH_LIMIT", "OTHER"}

(* An open struct: what it is to the one who has it open ("unknown" when   *)
(* it is being skipped), the fields of it that counted so far, how many    *)
(* elements of its list come after it, and how many calls of read() and    *)
(* skip() run while it is read.                                            *)
Frame(s, more, depth) ==
  [s |-> s, seen |-> {}, more |-> more, depth |-> depth]
Frames == [s : Structs \cup {"unknown"}, seen : SUBSET FieldIds,
           more : 0 .. MaxItems, depth : 1 .. DepthLimit + 2]

TypeOK ==
  /\ root \in Roots
  /\ sent \in Seq(Frames) /\ stack \in Seq(Frames)
  /\ fields \in 0 .. MaxFields
  /\ lacking \in BOOLEAN /\ tooDeep \in BOOLEAN /\ astray \in BOOLEAN
  /\ status \in {"reading", "done"} \cup Refused

Init ==
  /\ root \in Roots
  /\ sent = <<Frame(root, 0, 1)>> /\ stack = <<Frame(root, 0, 1)>>
  /\ fields = 0 /\ lacking = FALSE /\ tooDeep = FALSE
  /\ astray = FALSE /\ status = "reading"

Top(frames) == frames[Len(frames)]
Below(frames) == SubSeq(frames, 1, Len(frames) - 1)
Push(frames, f) == Append(frames, f)
Mark(frames, id) == [frames EXCEPT ![Len(frames)].seen = @ \cup {id}]
(* The frame of the next element of the same list. *)
NextItem(f) == Frame(f.s, f.more - 1, f.depth)
(* Mutant of Ended: one element too many is read. *)
EndedLate(frames) == Push(Below(frames), NextItem(Top(frames)))
(* The struct on top has ended: the next element of its list, or nothing. *)
Ended(frames) ==
  IF Top(frames).more = 0 THEN Below(frames)
  ELSE Push(Below(frames), NextItem(Top(frames)))

(* The calls that reading a field of n structs takes.  Each read() counts  *)
(* itself, and so does skip(), of scalars and lists as well.               *)
Levels(known, type, n) ==
  IF known THEN IF n = 0 THEN 0 ELSE 1
  ELSE IF type = "list" /\ n > 0 THEN 2 ELSE 1

-----------------------------------------------------------------------------
(***************************************************************************)
(* The peer.  A field is its struct's own when the interface declares its  *)
(* id with its type and, of a list, its elements; any other may come as    *)
(* well, and with a struct or a list of structs in it.                     *)
(***************************************************************************)
Declared(s, id, type) ==
  s # "unknown" /\ id \in DOMAIN FieldsOf[s] /\ FieldsOf[s][id].type = type

Held(s, id) == FieldsOf[s][id].of

(* How deep the field is nested for the one who reads it. *)
Depth(id, type, n) ==
  Top(sent).depth + Levels(Declared(Top(sent).s, id, type), type, n)

Wrote(id, type, n) ==
  LET s == Top(sent).s
      of == IF Declared(s, id, type) THEN Held(s, id) ELSE "unknown"
      open == IF Declared(s, id, type) THEN Mark(sent, id) ELSE sent
  IN IF n = 0 THEN open ELSE Push(open, Frame(of, n - 1, Depth(id, type, n)))

LacksRequired(frame) ==
  frame.s # "unknown" /\ ~(Required(frame.s) \subseteq frame.seen)

-----------------------------------------------------------------------------
(***************************************************************************)
(* read()                                                                  *)
(***************************************************************************)

(* switch (fid), and the test of ftype in its case. *)
Known(s, id, type) ==
  s # "unknown" /\ id \in DOMAIN FieldsOf[s] /\ FieldsOf[s][id].type = type

(* The constructor of TInputRecursionTracker throws before anything of the *)
(* field is read; otherwise the reading goes on with what is open now.     *)
Read(id, type, n, open) ==
  LET levels == Levels(Known(Top(stack).s, id, type), type, n) IN
  IF Top(stack).depth + levels > DepthLimit
  THEN status' = "DEPTH_LIMIT" /\ UNCHANGED stack
  ELSE stack' = open /\ UNCHANGED status

(* A scalar is read into its member, or skipped. *)
ReadScalar(id, type) ==
  Read(id, type, 0,
       IF Known(Top(stack).s, id, type) THEN Mark(stack, id) ELSE stack)

(* A struct, or n structs in a list, is read by the read() of its type, or *)
(* skipped, field by field, down to its end.                               *)
Entered(id, type, n) ==
  LET top == Top(stack)
      depth == top.depth + Levels(Known(top.s, id, type), type, n) IN
  IF Known(top.s, id, type)
  THEN IF n = 0 THEN Mark(stack, id)
       ELSE Push(Mark(stack, id), Frame(Held(top.s, id), n - 1, depth))
  ELSE IF n = 0 THEN stack ELSE Push(stack, Frame("unknown", n - 1, depth))

(* Mutant of ReadStructs: an unknown field is skipped without what is in it.*)
ReadStructsFlat(id, type, n) ==
  Read(id, type, n, IF Known(Top(stack).s, id, type) THEN Entered(id, type, n)
                    ELSE stack)
ReadStructs(id, type, n) == Read(id, type, n, Entered(id, type, n))

(* A list of values that are no structs is skipped by the type of its      *)
(* elements; but where read() expects a list it does not look at that type *)
(* (_etype17) and lets DirItem::read have the bytes of the values.         *)
ReadValues(id) ==
  IF Known(Top(stack).s, id, "list")
  THEN astray' = TRUE /\ UNCHANGED <<stack, status>>
  ELSE Read(id, "list", 1, stack) /\ UNCHANGED astray

(* Mutant of Finish: the isset_ tests behind readStructEnd are left out. *)
FinishUnchecked ==
  /\ stack' = Ended(stack)
  /\ status' = IF stack' = <<>> THEN "done" ELSE "reading"

(* T_STOP: the struct ends, and read() throws when a required field is     *)
(* missing, out of every read() around it.                                 *)
Finish ==
  IF LacksRequired(Top(stack))
  THEN status' = "INVALID_DATA" /\ UNCHANGED stack
  ELSE /\ stack' = Ended(stack)
       /\ status' = IF stack' = <<>> THEN "done" ELSE "reading"

(* The reader is in the message, at the same place as its peer. *)
InMessage == status = "reading" /\ ~astray /\ sent # <<>>

(* The peer's next field, with n structs in it. *)
Writes(id, type, n) ==
  /\ InMessage /\ fields < MaxFields
  /\ sent' = Wrote(id, type, n) /\ fields' = fields + 1
  /\ tooDeep' = (Depth(id, type, n) > DepthLimit)

ScalarField(id, type) ==
  /\ Writes(id, type, 0)
  /\ ReadScalar(id, type)
  /\ UNCHANGED <<root, lacking, astray>>

StructField(id, type, n) ==
  /\ type = "struct" => n = 1
  /\ Writes(id, type, n)
  /\ ReadStructs(id, type, n)
  /\ UNCHANGED <<root, lacking, astray>>

(* A list of values: no field the interface declares. *)
ValuesField(id) ==
  /\ InMessage /\ fields < MaxFields
  /\ fields' = fields + 1
  /\ tooDeep' = (~Declared(Top(sent).s, id, "list")
                   /\ Depth(id, "list", 1) > DepthLimit)
  /\ ReadValues(id)
  /\ UNCHANGED <<root, sent, lacking>>

StopField ==
  /\ InMessage
  /\ lacking' = (lacking \/ LacksRequired(Top(sent)))
  /\ sent' = Ended(sent)
  /\ Finish
  /\ UNCHANGED <<root, fields, tooDeep, astray>>

(* From where the reader has lost its peer it takes what comes for fields, *)
(* of this message or of what follows it, until it accepts or throws.      *)
Stray ==
  /\ status = "reading" /\ astray
  /\ \/ status' = "done" /\ stack' = <<>>
     \/ status' \in Refused /\ UNCHANGED stack
  /\ UNCHANGED <<root, sent, fields, lacking, tooDeep, astray>>

Over == status # "reading" /\ UNCHANGED vars

-----------------------------------------------------------------------------
(***************************************************************************)
(* Properties                                                              *)
(***************************************************************************)

(* Whatever fields a peer of another version adds, leaves out or retypes,  *)
(* at any depth, a body that is accepted was read to exactly its end: the  *)
(* next message starts where the reader stops.  The exception is a list of *)
(* values where DirList::read expects a list of DirItems: after it nothing *)
(* is certain.  No request and no reply but that of List can hold one that *)
(* is not skipped.                                                         *)
InStep ==
  /\ ~astray /\ status \notin Refused => (status = "done" <=> sent = <<>>)
  /\ astray => root \in {"List_result", "DirList"}

(* A body whose reader has not lost its way is refused for two reasons, and*)
(* always for them.  A struct its readers have to know lacks a field they  *)
(* need: an accepted WfsAck has its ok, an accepted DirItem all of its     *)
(* members, while structs inside unknown fields are not looked at.  Or it  *)
(* is nested too deep, unknown fields included.                            *)
RefusedIfLacking ==
  ~astray => /\ status = "INVALID_DATA" <=> lacking
             /\ status = "DEPTH_LIMIT" <=> tooDeep
             /\ status # "OTHER"

(* A reply that is refused is left in the stream with its end unread: no   *)
(* result struct has a needed field of its own, so it is always a struct   *)
(* inside it that throws.  recv_X does not clean up after it.              *)
RefusedLeavesRest == status \in Refused /\ ~astray => sent # <<>>
=============================================================================
