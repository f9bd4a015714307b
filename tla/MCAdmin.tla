------------------------------ MODULE MCAdmin ------------------------------
(***************************************************************************)
(* The access control on its own, with every role assignable.              *)
(***************************************************************************)
EXTENDS Admin, TLC

CONSTANTS a1, a2, a3

MCAddress == {a1, a2, a3}
MCSymmetry == Permutations(MCAddress)
=============================================================================
