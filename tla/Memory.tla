------------------------------- MODULE Memory -------------------------------
(***************************************************************************)
(* What the containers of utils/ share: pointers that lead nowhere, memory  *)
(* nobody has written yet, and the width of unsigned numbers.              *)
(***************************************************************************)

CONSTANTS
  Null,  \* NULL
  Junk,  \* what memory holds that malloc() or realloc() has given
  Wrap   \* 2^32: where unsigned numbers begin again

=============================================================================
