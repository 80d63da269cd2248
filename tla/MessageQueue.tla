---------------------------- MODULE MessageQueue ----------------------------
(***************************************************************************)
(* What the message buffer of the engine promises to the machines that put *)
(* messages and to the dispatcher that gets them: one unbounded FIFO queue.*)
(* Nothing is lost, repeated, reordered or invented.                       *)
(***************************************************************************)
EXTENDS Sequences

CONSTANTS
  Message,   \* the messages that may be put
  Nothing    \* what a get that finds the queue empty delivers

VARIABLES
  queue,     \* messages put and not yet got, oldest first
  got        \* what the last get delivered

vars == <<queue, got>>

Init ==
  /\ queue = << >>
  /\ got = Nothing

Put(m) ==
  /\ queue' = Append(queue, m)
  /\ UNCHANGED got

Get ==
  /\ queue # << >>
  /\ got' = Head(queue)
  /\ queue' = Tail(queue)

GetEmpty ==
  /\ queue = << >>
  /\ got' = Nothing
  /\ UNCHANGED queue

Next ==
  \/ \E m \in Message : Put(m)
  \/ Get
  \/ GetEmpty

Spec == Init /\ [][Next]_vars

=============================================================================
