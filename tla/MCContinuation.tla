--------------------------- MODULE MCContinuation ---------------------------
(* Continuation chains for TLC: the values of its constants. *)
EXTENDS Continuation

CONSTANTS c1, c2, f1

OneChain == {c1}
TwoChains == {c1, c2}
NoFindings == {}
OneFinding == {f1}

=============================================================================
