---------------------------- MODULE EchoService ----------------------------
(***************************************************************************)
(* What the echo server promises each of its clients: the connection is    *)
(* accepted once and closed once, and as long as it is open the client     *)
(* gets back what it sent, from the beginning, in order, each chunk once   *)
(* and never another client's.  Nothing comes back before a newline was    *)
(* sent.                                                                   *)
(***************************************************************************)
EXTENDS Integers, Sequences

CONSTANT Client

VARIABLES
  conn,    \* conn[c]: "new", "backlog", "open" or "closed"
  sent,    \* sent[c]: the chunks c has sent; TRUE for one with a newline
  echoed   \* echoed[c]: the chunks c got back

vars == <<conn, sent, echoed>>

Init ==
  /\ conn = [c \in Client |-> "new"]
  /\ sent = [c \in Client |-> << >>]
  /\ echoed = [c \in Client |-> << >>]

(* The life of a connection. *)
Moves(c, from, to) ==
  /\ conn[c] = from
  /\ conn' = [conn EXCEPT ![c] = to]
  /\ UNCHANGED <<sent, echoed>>

Connect(c) == Moves(c, "new", "backlog")
Accept(c) == Moves(c, "backlog", "open")
SeeOff(c) == Moves(c, "open", "closed")

Say(c, eol) ==
  /\ conn[c] \in {"backlog", "open"}
  /\ sent' = [sent EXCEPT ![c] = Append(@, eol)]
  /\ UNCHANGED <<conn, echoed>>

(* The next n chunks of what c sent, numbered. *)
NextChunks(c, n) == [k \in 1 .. n |-> [peer |-> c, seqn |-> Len(echoed[c]) + k]]

(* Some of the chunks not yet answered go back. *)
Echo(c, n) ==
  /\ conn[c] = "open"
  /\ n \in 1 .. Len(sent[c]) - Len(echoed[c])
  /\ \E k \in 1 .. Len(sent[c]) : sent[c][k]
  /\ echoed' = [echoed EXCEPT ![c] = @ \o NextChunks(c, n)]
  /\ UNCHANGED <<conn, sent>>

Next ==
  \E c \in Client :
    \/ Connect(c) \/ Accept(c) \/ SeeOff(c)
    \/ \E eol \in BOOLEAN : Say(c, eol)
    \/ \E n \in 1 .. Len(sent[c]) : Echo(c, n)

Spec == Init /\ [][Next]_vars

=============================================================================
