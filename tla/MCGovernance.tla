---------------------------- MODULE MCGovernance ----------------------------
(***************************************************************************)
(* Proposals on both sides of each check: caps below zero, of no cap and   *)
(* at the largest amount, minimums below zero, batch sizes of zero.        *)
(***************************************************************************)
EXTENDS Governance, TLC

CONSTANTS a1, a2

MCAddress == {a1, a2}
MCSymmetry == Permutations(MCAddress)
MCCapArgs == -1..MaxAmount
MCConfigArgs == [min_transfer_amount : {-1, 1}, max_batch_size : {0, 1}]
MCView == <<adminVars, capVars, configVars>>
=============================================================================
