----------------------------- MODULE WfsServing -----------------------------
(***************************************************************************)
(* What a server made of WfsIfaceProcessor promises a client: the requests *)
(* of a connection are handled one at a time and in their order, by every  *)
(* handler at most once and by a handler only after the ones before it; a  *)
(* request is answered at most once, by a reply or an exception, while its *)
(* connection is open and before the next one is taken up, and with a      *)
(* reply only when all handlers have executed it.                          *)
(***************************************************************************)
EXTENDS Naturals, Sequences

CONSTANTS
  Conns,       \* connections
  Handlers     \* how many handlers execute a request, one after the other

VARIABLES
  answered,    \* what each connection was answered, in order
  executed,    \* by each handler: <<connection, number of the request>>
  open,        \* connections that are open
  taken        \* connections with a request that was taken up, not answered

Init ==
  /\ answered = [c \in Conns |-> <<>>]
  /\ executed = [h \in 1 .. Handlers |-> {}]
  /\ open = {} /\ taken = {}

Open(c) == open' = open \cup {c} /\ UNCHANGED <<answered, executed, taken>>

Close(c) ==
  /\ open' = open \ {c} /\ taken' = taken \ {c}
  /\ UNCHANGED <<answered, executed>>

(* The next request is taken up when the one before it was answered. *)
Take(c) ==
  /\ c \in open \ taken /\ taken' = taken \cup {c}
  /\ UNCHANGED <<answered, executed, open>>

(* The next handler executes the request that was taken up. *)
Execute(c, h) ==
  LET r == <<c, Len(answered[c]) + 1>> IN
  /\ c \in open \cap taken /\ r \notin executed[h]
  /\ \A g \in 1 .. h - 1 : r \in executed[g]
  /\ executed' = [executed EXCEPT ![h] = @ \cup {r}]
  /\ UNCHANGED <<answered, open, taken>>

Answer(c, kind) ==
  /\ c \in open \cap taken /\ kind \in {"reply", "exception"}
  /\ kind = "reply" =>
       \A h \in 1 .. Handlers : <<c, Len(answered[c]) + 1>> \in executed[h]
  /\ answered' = [answered EXCEPT ![c] = Append(@, kind)]
  /\ taken' = taken \ {c}
  /\ UNCHANGED <<executed, open>>

Next ==
  \E c \in Conns :
    \/ Open(c) \/ Close(c) \/ Take(c)
    \/ \E h \in 1 .. Handlers : Execute(c, h)
    \/ \E kind \in {"reply", "exception"} : Answer(c, kind)

Spec == Init /\ [][Next]_<<answered, executed, open, taken>>
=============================================================================
