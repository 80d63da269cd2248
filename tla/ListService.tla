----------------------------- MODULE ListService -----------------------------
(***************************************************************************)
(* What utils/list.c promises the queue and the stack that are made of it:  *)
(* each list head is a sequence of data of its own.                         *)
(***************************************************************************)
EXTENDS Sequences

CONSTANTS
  List,  \* the list heads of the program
  Data,  \* what callers keep in lists
  Null

VARIABLES
  contents,  \* the sequence behind each head
  got        \* what the last get_head delivered, Null from an empty list

vars == <<contents, got>>

Init ==
  /\ contents = [q \in List |-> << >>]
  /\ got = Null

AddTail(q, d) ==
  /\ contents' = [contents EXCEPT ![q] = Append(@, d)]
  /\ UNCHANGED got

AddHead(q, d) ==
  /\ contents' = [contents EXCEPT ![q] = <<d>> \o @]
  /\ UNCHANGED got

GetHead(q) ==
  IF contents[q] = << >>
  THEN got' = Null /\ UNCHANGED contents
  ELSE /\ got' = Head(contents[q])
       /\ contents' = [contents EXCEPT ![q] = Tail(@)]

Next ==
  \E q \in List :
    \/ \E d \in Data : AddTail(q, d) \/ AddHead(q, d)
    \/ GetHead(q)

Spec == Init /\ [][Next]_vars

=============================================================================
