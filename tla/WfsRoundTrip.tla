---------------------------- MODULE WfsRoundTrip ----------------------------
(***************************************************************************)
(* write() of the same structs (gen-cpp/wfs_types.cpp, gen-cpp/            *)
(* WfsIface.cpp), as the peer that read() is made for: a struct's fields   *)
(* in the order of their ids, each when its __isset flag is set, some      *)
(* whether or not they have such a flag.  What read() does is WfsTypes,    *)
(* where the peer writes anything; here the peer is either that one or the *)
(* program itself, which writes what write() writes of some object.        *)
(***************************************************************************)
EXTENDS WfsTypes

CONSTANT
  MaxForeign   \* bound: fields in a message of another program

ASSUME MaxForeignAssumption == MaxForeign \in 0 .. MaxFields

VARIABLE own   \* the message is written by write()

(* Mutant of WfsFile_write: the name is written only when it is set. *)
WfsFile_writeDataOnly == {1}
(* The fields write() writes without asking __isset.  pargs and presult    *)
(* write and read as args and result do.                                   *)
WfsError_write == {}
WfsAck_write   == {1}
WfsReq_write   == {}
WfsAuth_write  == {}
WfsData_write  == {}
WfsFile_write  == {1, 2}
DirItem_write  == {1, 2, 3, 4}
DirList_write  == {1}
Append_args_write == {1}
Delete_args_write == {1}
Rename_args_write == {1, 2}
Auth_args_write   == {1}
Get_args_write    == {1}
List_args_write   == {1}
Ping_args_write   == {}
Result_write      == {}

Always ==
  [ WfsError |-> WfsError_write, WfsAck |-> WfsAck_write,
    WfsReq |-> WfsReq_write, WfsAuth |-> WfsAuth_write,
    WfsData |-> WfsData_write, WfsFile |-> WfsFile_write,
    DirItem |-> DirItem_write, DirList |-> DirList_write,
    Append_args |-> Append_args_write, Append_result |-> Result_write,
    Delete_args |-> Delete_args_write, Delete_result |-> Result_write,
    Rename_args |-> Rename_args_write, Rename_result |-> Result_write,
    Auth_args |-> Auth_args_write, Auth_result |-> Result_write,
    Get_args |-> Get_args_write, Get_result |-> Result_write,
    List_args |-> List_args_write, List_result |-> Result_write,
    Ping_args |-> Ping_args_write, Ping_result |-> Result_write ]

(* The struct on top has come to field id. *)
Comes(id) ==
  /\ \A f \in Top(sent).seen : f < id
  /\ \A f \in Always[Top(sent).s] : f < id => f \in Top(sent).seen

(* writeFieldBegin, the member and all that is in it, writeFieldEnd. *)
WriteField(id) ==
  /\ sent # <<>> /\ id \in DOMAIN FieldsOf[Top(sent).s] /\ Comes(id)
  /\ LET type == FieldsOf[Top(sent).s][id].type IN
     \/ type \in ScalarTypes /\ ScalarField(id, type)
     \/ type = "struct" /\ StructField(id, type, 1)
     \/ type = "list" /\ \E n \in 0 .. MaxItems : StructField(id, type, n)

(* writeFieldStop *)
WriteStop ==
  /\ sent # <<>> /\ Always[Top(sent).s] \subseteq Top(sent).seen
  /\ StopField

Written == (\E id \in FieldIds : WriteField(id)) \/ WriteStop

Foreign ==
  \/ fields < MaxForeign /\ \E id \in FieldIds :
       \/ \E type \in ScalarTypes : ScalarField(id, type)
       \/ \E type \in {"struct", "list"}, n \in 0 .. MaxItems :
            StructField(id, type, n)
       \/ ValuesField(id)
  \/ StopField
  \/ Stray

EitherInit == Init /\ own \in BOOLEAN
EitherNext ==
  /\ (own /\ Written) \/ (~own /\ Foreign) \/ Over
  /\ UNCHANGED own

EitherSpec == EitherInit /\ [][EitherNext]_<<vars, own>>

(* Whatever is set in an object, what write() makes of it is read without  *)
(* an exception, and exactly the fields that were written are set in the   *)
(* object that was read, at every depth: what one side may leave out the   *)
(* other does not need, and no object is nested too deep to be read.       *)
ReadAsWritten == own => stack = sent /\ status \notin Refused
=============================================================================
