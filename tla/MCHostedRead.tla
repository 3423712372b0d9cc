---------------------------- MODULE MCHostedRead ----------------------------
(* Small instances of HostedRead. *)
EXTENDS HostedRead, TLC

CONSTANTS w1, w2

EvenClocks == [w \in Workers |-> 0]
SkewedClocks == (w1 :> 0) @@ (w2 :> 1)

JobSymmetry == Permutations(Jobs) \cup Permutations(Outputs)
=============================================================================
