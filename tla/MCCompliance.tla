---------------------------- MODULE MCCompliance ----------------------------
(***************************************************************************)
(* The registry with two investors who can also be officers: every status, *)
(* every officer role, batches long enough to name one investor twice.     *)
(***************************************************************************)
EXTENDS Compliance, TLC

CONSTANTS a1, a2

MCAddress == {a1, a2}
MCSymmetry == Permutations(MCAddress)

\* Two states that differ only in what the last invocation published have the
\* same future; the action properties are evaluated on every step regardless.
MCView == <<adminVars, complianceVars>>
=============================================================================
