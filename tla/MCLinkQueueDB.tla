--------------------------- MODULE MCLinkQueueDB ---------------------------
(* Small instances of LinkQueueDB. *)
EXTENDS LinkQueueDB, TLC
CONSTANTS k1, l1, l2, v1, v2, v3, v4

OneCallEach(values) == [link : {l1}, value : values, attempt : {1}]
OneCall == OneCallEach({v1})
TwoCalls == OneCallEach({v1, v2})
FourCalls == OneCallEach({v1, v2, v3, v4})

OnePublisher == [link : {l1}, caller : {1}]

\* A task agent with one input, and one with inputs on two links.
OneInput == [client : {k1}, link : {l1}]
TwoInputs == [client : {k1}, link : {l1, l2}]

ValueSymmetry == Permutations(Values)
=============================================================================
