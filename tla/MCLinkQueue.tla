----------------------------- MODULE MCLinkQueue -----------------------------
(* LinkQueue on small sets.                                                  *)
EXTENDS LinkQueue
Symmetry == Permutations(Copies) \cup Permutations(Handlers)
              \cup Permutations(Publishers) \cup Permutations(Values)
              \cup Permutations(Clients)
=============================================================================
