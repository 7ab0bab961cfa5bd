------------------------------ MODULE WfsLink ------------------------------
(***************************************************************************)
(* The connection under one WFS client: the generated stub WfsIfaceClient  *)
(* (gen-cpp/WfsIface.cpp) on top of TCompactProtocol, TBufferedTransport   *)
(* and TSocket, the network, and the WFS server at the other end.          *)
(*                                                                         *)
(* The stub's send_X and recv_X are operators that the client module runs  *)
(* as part of its own steps; the network and the server take steps by      *)
(* themselves (NetNext).  Thrift's transports and the server are external: *)
(* they are modelled from what the stub and the client make of them.       *)
(***************************************************************************)
EXTENDS Naturals, Sequences, FiniteSets

CONSTANTS
  MaxCalls,     \* bound: calls a client instance receives in its life
  MaxRetries    \* WfsConnectionParams::maxRetries

ASSUME MaxCallsAssumption == MaxCalls \in Nat \ {0}
ASSUME MaxRetriesAssumption == MaxRetries \in Nat

(* The seven methods of the service, and those that act on files. *)
FileMethods == {"Append", "Get", "Delete", "Rename", "List"}
Methods == FileMethods \cup {"Auth", "Ping"}

(* What TSocket and TBufferedTransport throw (TTransportException with its *)
(* type), what the protocol and the stub throw (TException), and what the  *)
(* allocation of a received string throws (std).                           *)
TransportExceptions == {"NOT_OPEN", "END_OF_FILE", "TIMED_OUT", "UNKNOWN"}
Exceptions == TransportExceptions \cup {"TException", "std"}

(* What a reply says: the outcomes that some caller tells apart.  "exc" is *)
(* a T_EXCEPTION message; "refused" a WfsAck with ok = FALSE; "nodata" a   *)
(* WfsData without data; "error" and "error_nocode" a DirList whose error  *)
(* field is set, with and without a code; "minus1" the byte -1 of a Ping.  *)
Bodies(m) ==
  {"exc"} \cup
  CASE m \in {"Append", "Delete", "Rename", "Auth"} -> {"ok", "refused"}
    [] m = "Get"  -> {"ok", "nodata"}
    [] m = "List" -> {"ok", "error", "error_nocode"}
    [] m = "Ping" -> {"ok", "minus1"}

AllBodies ==
  {"exc", "ok", "refused", "nodata", "error", "error_nocode", "minus1"}

CallIds == 1 .. MaxCalls

Attempts == 0 .. MaxRetries    \* 0 for a call without the loop of Auth

(* Every message carries seqid 0.  The identity of a request, the call and *)
(* the attempt it was sent by, is not in it: it is kept to say whose       *)
(* answer a call is given.                                                 *)
Requests == [gen : Nat, id : CallIds, try : Attempts, method : Methods]
Replies  == {a \in [gen : Nat, id : CallIds, try : Attempts,
                    method : Methods, body : AllBodies] :
               a.body \in Bodies(a.method)}
Key(r) == <<r.id, r.try>>

VARIABLES
  sock,      \* m_socket: "null", "closed" or "open"
  gen,       \* connections opened so far; the number of the current one
  peer,      \* the other end: "up", "torn" (a request was cut short) or "down"
  wire,      \* requests on their way to a server or waiting in it
  inbox,     \* replies of the current connection the stub has not consumed
  rbuf,      \* how many of them are already in TBufferedTransport's read buffer
  desync,    \* the next byte to read is not the first of a message
  unsent,    \* the write buffer holds the head of a request that failed
  clean,     \* every exchange on this connection has been completed
  authed,    \* connections on which the server accepted an Auth
  executed   \* keys of the requests the server has executed

linkVars == <<sock, gen, peer, wire, inbox, rbuf, desync, unsent, clean,
              authed, executed>>

LinkTypeOK ==
  /\ sock \in {"null", "closed", "open"}
  /\ gen \in Nat
  /\ peer \in {"up", "torn", "down"}
  /\ wire \subseteq Requests
  /\ inbox \in Seq(Replies)
  /\ rbuf \in 0 .. Len(inbox)
  /\ desync \in BOOLEAN /\ unsent \in BOOLEAN /\ clean \in BOOLEAN
  /\ authed \subseteq Nat
  /\ executed \subseteq CallIds \X Attempts

LinkInit ==
  /\ sock = "null" /\ gen = 0 /\ peer = "down"
  /\ wire = {} /\ inbox = <<>> /\ rbuf = 0
  /\ desync = FALSE /\ unsent = FALSE /\ clean = FALSE
  /\ authed = {}
  /\ executed = {}

-----------------------------------------------------------------------------
(***************************************************************************)
(* Opening and closing                                                     *)
(***************************************************************************)

(* A new TSocket under a new TBufferedTransport is opened: nothing of the  *)
(* connection before it is left.  On failure the new socket is closed.     *)
OpenFresh(e) ==
  /\ e \in {"none", "NOT_OPEN", "UNKNOWN"}
  /\ sock' = IF e = "none" THEN "open" ELSE "closed"
  /\ gen' = IF e = "none" THEN gen + 1 ELSE gen
  /\ peer' = IF e = "none" THEN "up" ELSE "down"
  /\ inbox' = <<>> /\ rbuf' = 0
  /\ desync' = FALSE /\ unsent' = FALSE
  /\ clean' = (e = "none")
  /\ UNCHANGED <<wire, authed, executed>>

(* Mutant of ReopenSame: what the buffer holds is thrown away, its count   *)
(* of unread replies is not.                                               *)
ReopenForgetsBuffer(e) ==
  /\ e \in {"none", "NOT_OPEN", "UNKNOWN"}
  /\ sock' = IF e = "none" THEN "open" ELSE "closed"
  /\ gen' = IF e = "none" THEN gen + 1 ELSE gen
  /\ peer' = IF e = "none" THEN "up" ELSE "down"
  /\ inbox' = <<>> /\ desync' = FALSE /\ unsent' = FALSE
  /\ clean' = (e = "none")
  /\ UNCHANGED <<rbuf, wire, authed, executed>>

(* close() and open() on the same transport (retry in AuthenticateInternal)*)
(* replace the socket's connection and keep TBufferedTransport's buffers:  *)
(* replies that were already in the read buffer are still to be read.      *)
ReopenSame(e) ==
  /\ e \in {"none", "NOT_OPEN", "UNKNOWN"}
  /\ sock' = IF e = "none" THEN "open" ELSE "closed"
  /\ gen' = IF e = "none" THEN gen + 1 ELSE gen
  /\ peer' = IF e = "none" THEN "up" ELSE "down"
  /\ inbox' = SubSeq(inbox, 1, rbuf)
  /\ desync' \in {FALSE, desync}
  /\ unsent' = FALSE
  /\ clean' = (e = "none" /\ rbuf = 0 /\ ~desync')
  /\ UNCHANGED <<rbuf, wire, authed, executed>>

(* getTransport()->close(): flush() first, which throws when the residue   *)
(* of a failed request cannot be written; the socket then stays open.      *)
CloseTransport ==
  /\ sock' \in IF unsent THEN {sock, "closed"} ELSE {"closed"}
  /\ unsent' = FALSE
  /\ UNCHANGED <<gen, peer, wire, inbox, rbuf, desync, clean, authed, executed>>

-----------------------------------------------------------------------------
(***************************************************************************)
(* The stub: send_X and recv_X                                             *)
(***************************************************************************)

(* send_X: write the message and flush.  A request that follows a residue, *)
(* or goes to a server that is gone, is accepted and reaches nobody.  (Its *)
(* bytes might complete the torn request at the server, for contents that  *)
(* nobody sent; no property counts on either.)                             *)
SendOk(m, id, try) ==
  /\ sock = "open"
  /\ IF peer = "up" /\ ~unsent
     THEN /\ wire' = wire \cup {[gen |-> gen, id |-> id, try |-> try,
                                method |-> m]}
          /\ peer' = peer
     ELSE /\ wire' = wire
          /\ peer' = IF peer = "up" THEN "torn" ELSE peer
  /\ unsent' = FALSE
  /\ UNCHANGED <<sock, gen, inbox, rbuf, desync, clean, authed, executed>>

(* send_X throws: on a closed socket, on a connection whose other end is   *)
(* gone (when TSocket may close its own end as well), or when the send     *)
(* timeout expires, part of the request written or not.  Only Append       *)
(* writes past the buffer, and so leaves a residue.                        *)
SendFails(m, e) ==
  /\ \/ /\ sock # "open" /\ e = "NOT_OPEN"
        /\ UNCHANGED <<sock, peer>>
     \/ /\ sock = "open" /\ peer = "down"
        /\ \/ e = "NOT_OPEN" /\ sock' \in {"open", "closed"}
           \/ e = "UNKNOWN" /\ sock' = "open"
        /\ UNCHANGED peer
     \/ /\ sock = "open" /\ peer # "down" /\ e = "TIMED_OUT"
        /\ peer' \in {peer, "torn"}
        /\ UNCHANGED sock
  /\ unsent' \in IF m = "Append" /\ sock = "open" THEN BOOLEAN ELSE {FALSE}
  /\ clean' = FALSE
  /\ UNCHANGED <<gen, wire, inbox, rbuf, desync, authed, executed>>

(* Take the first n replies off the stream; a read that finds the buffer   *)
(* empty fetches whatever part of the stream has arrived.                  *)
Consume(n) ==
  /\ inbox' = SubSeq(inbox, n + 1, Len(inbox))
  /\ IF rbuf >= n THEN rbuf' = rbuf - n ELSE rbuf' \in 0 .. Len(inbox) - n

(* Mutant of RecvReply: the name is not compared either. *)
RecvReplyOfAnyName(m, a) ==
  /\ sock = "open" /\ ~desync /\ inbox # <<>>
  /\ m \in Methods /\ a = Head(inbox) /\ a.body # "exc"
  /\ Consume(1)
  /\ UNCHANGED <<desync, clean>>

(* Mutant of RecvReply: the reply is read and left in the stream. *)
RecvReplyPeeks(m, a) ==
  /\ sock = "open" /\ ~desync /\ inbox # <<>>
  /\ a = Head(inbox) /\ a.method = m /\ a.body # "exc"
  /\ UNCHANGED <<inbox, rbuf, desync, clean>>

(* The reply at the head carries the name this recv_X expects.  Its seqid  *)
(* is read and never compared, so it need not answer this call.            *)
RecvReply(m, a) ==
  /\ sock = "open" /\ ~desync /\ inbox # <<>>
  /\ a = Head(inbox) /\ a.method = m /\ a.body # "exc"
  /\ Consume(1)
  /\ UNCHANGED <<desync, clean>>

(* A T_EXCEPTION is read to its end and thrown, before the name is looked  *)
(* at.                                                                     *)
RecvApplicationException(e) ==
  /\ sock = "open" /\ ~desync /\ inbox # <<>>
  /\ Head(inbox).body = "exc" /\ e = "TException"
  /\ Consume(1)
  /\ UNCHANGED <<desync, clean>>

(* Another method's name: its struct is skipped, but recv_X reads on and   *)
(* takes the header of the next message for its result struct, which ends  *)
(* in MISSING_RESULT with the rest of that message still in the stream.    *)
RecvWrongName(m, e) ==
  /\ sock = "open" /\ ~desync /\ Len(inbox) >= 2
  /\ Head(inbox).body # "exc" /\ Head(inbox).method # m
  /\ e = "TException"
  /\ Consume(2)
  /\ desync' = TRUE /\ clean' = FALSE

(* The same with nothing behind it: the read for the struct blocks until   *)
(* the timeout, or meets the end of the stream.                            *)
RecvWrongNameOnly(m, e) ==
  /\ sock = "open" /\ ~desync /\ Len(inbox) = 1
  /\ Head(inbox).body # "exc" /\ Head(inbox).method # m
  /\ e \in IF peer = "down" THEN {"END_OF_FILE", "UNKNOWN"} ELSE {"TIMED_OUT"}
  /\ Consume(1)
  /\ UNCHANGED desync /\ clean' = FALSE

(* In the middle of a message no byte is a protocol id: readMessageBegin   *)
(* throws, one byte further, which may be the last of that message.        *)
RecvGarbage(e) ==
  /\ sock = "open" /\ desync /\ e = "TException"
  /\ desync' \in BOOLEAN /\ clean' = FALSE
  /\ UNCHANGED <<inbox, rbuf>>

(* The receive timeout expires: before a byte of the next message is read, *)
(* or within it, which leaves the rest of that message in the stream.      *)
RecvTimeout(e) ==
  /\ sock = "open" /\ rbuf = 0 /\ e = "TIMED_OUT"
  /\ \/ UNCHANGED <<inbox, rbuf, desync>>
     \/ inbox # <<>> /\ ~desync /\ inbox' = Tail(inbox) /\ rbuf' = 0
        /\ desync' = TRUE
  /\ clean' = FALSE

(* The server closed or reset the connection and nothing is left to read.  *)
RecvEnd(e) ==
  /\ sock = "open" /\ peer = "down" /\ inbox = <<>>
  /\ e \in {"END_OF_FILE", "UNKNOWN"}
  /\ clean' = FALSE
  /\ UNCHANGED <<inbox, rbuf, desync>>

(* Reading the reply fails within it: a required field is missing or the   *)
(* bytes are no struct (TProtocolException), or a string cannot be         *)
(* allocated.  What is left of the message stays in the stream.            *)
RecvBroken(e) ==
  /\ sock = "open" /\ ~desync /\ inbox # <<>> /\ Head(inbox).body # "exc"
  /\ e \in {"TException", "std"}
  /\ Consume(1)
  /\ desync' = TRUE /\ clean' = FALSE

(* recv_X with its outcome: the reply a, or the exception e.               *)
RecvOk(m, a) ==
  /\ RecvReply(m, a)
  /\ UNCHANGED <<sock, gen, peer, wire, unsent, authed, executed>>

RecvFails(m, e) ==
  /\ \/ RecvApplicationException(e)
     \/ RecvWrongName(m, e) \/ RecvWrongNameOnly(m, e)
     \/ RecvGarbage(e) \/ RecvTimeout(e) \/ RecvEnd(e) \/ RecvBroken(e)
  /\ UNCHANGED <<sock, gen, peer, wire, unsent, authed, executed>>

-----------------------------------------------------------------------------
(***************************************************************************)
(* The server and the network                                              *)
(***************************************************************************)

(* A server thread takes the oldest request of its connection, executes it *)
(* and replies, whether or not the client still waits for the answer or    *)
(* still has that connection.                                              *)
Serve(r, b) ==
  /\ r \in wire
  /\ \A q \in wire : q.gen = r.gen => q.id >= r.id
  /\ b \in Bodies(r.method)
  /\ wire' = wire \ {r}
  /\ executed' = executed \cup {Key(r)}
  /\ authed' = IF r.method = "Auth" /\ b = "ok"
               THEN authed \cup {r.gen} ELSE authed
  /\ inbox' = IF r.gen = gen /\ sock = "open" /\ peer # "down"
              THEN Append(inbox, [gen |-> r.gen, id |-> r.id, try |-> r.try,
                                  method |-> r.method, body |-> b])
              ELSE inbox
  /\ UNCHANGED <<sock, gen, peer, rbuf, desync, unsent, clean>>

(* The server's end of the connection closes or breaks; replies that were  *)
(* not delivered may be lost.                                              *)
LinkDrop ==
  /\ sock = "open" /\ peer # "down"
  /\ peer' = "down"
  /\ \E k \in rbuf .. Len(inbox) : inbox' = SubSeq(inbox, 1, k)
  /\ UNCHANGED <<sock, gen, wire, rbuf, desync, unsent, clean, authed, executed>>

NetNext == LinkDrop \/ \E r \in wire, b \in AllBodies : Serve(r, b)
=============================================================================
