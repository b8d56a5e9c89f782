----------------------------- MODULE MCConsumer -----------------------------
(* Consumer on small instances; the configurations give every constant. *)
EXTENDS Consumer

=============================================================================
