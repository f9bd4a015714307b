------------------------------ MODULE TwoStep -------------------------------
(***************************************************************************)
(* What the propose / accept / cancel flow promises of one governed        *)
(* parameter, whoever may drive it: a new value takes effect only by a     *)
(* step of its own, after it was put up, and one proposal takes effect at  *)
(* most once.                                                              *)
(***************************************************************************)
CONSTANTS
    Value,        \* the values the parameter may take
    Default,      \* the value in force before the first amendment
    NoProposal    \* nothing is put up; not a value

VARIABLES active, proposed

Init == active = Default /\ proposed = NoProposal

\* A later proposal replaces an earlier one that nobody has accepted.
Propose == proposed' \in Value /\ UNCHANGED active

Accept == proposed # NoProposal /\ active' = proposed /\ proposed' = NoProposal

Cancel == proposed # NoProposal /\ proposed' = NoProposal /\ UNCHANGED active

Next == Propose \/ Accept \/ Cancel

Spec == Init /\ [][Next]_<<active, proposed>>
=============================================================================
