-------------------------------- MODULE Orders -------------------------------
(***************************************************************************)
(* The walks of the program that pick entries of a list, front to back,    *)
(* picture as the set of the positions picked and its only enumeration     *)
(* from the smallest to the largest.                                       *)
(***************************************************************************)
EXTENDS Integers, FiniteSets, Functions

InOrder(S) ==
    {w \in Bijection(1 .. Cardinality(S), S) : \A i, j \in DOMAIN w : i < j => w[i] < w[j]}
=============================================================================
