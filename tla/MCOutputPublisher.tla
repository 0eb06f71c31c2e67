-------------------------- MODULE MCOutputPublisher --------------------------
(* OutputPublisher on small sets.                                            *)
EXTENDS OutputPublisher
=============================================================================
