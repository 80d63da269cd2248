-------------------------- MODULE MCMessageBuffer --------------------------
(* The ring on a small instance: it starts with InitCapacity slots and may  *)
(* double until MaxCapacity.                                                *)
EXTENDS MessageBuffer

=============================================================================
