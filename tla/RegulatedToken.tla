--------------------------- MODULE RegulatedToken ---------------------------
(***************************************************************************)
(* What the contract promises of the token it keeps, without saying how:   *)
(* units are created and moved only while trading is open and only between *)
(* cleared holders; supervision decides who is cleared and whether trading *)
(* is open, and never touches a unit; a closed-down token stays so.        *)
(***************************************************************************)
EXTENDS Naturals

CONSTANTS
    Holder,
    Amount        \* the sizes of an issue or a move

VARIABLES
    holdings,     \* what each holder has
    supply,       \* what exists
    cleared,      \* who may trade
    trading       \* "open", "suspended" or "ended"

ledger == <<holdings, supply>>
supervision == <<cleared, trading>>

Init ==
    /\ holdings = [h \in Holder |-> 0]
    /\ supply = 0
    /\ cleared = {}
    /\ trading = "suspended"

Issue(to, n) ==
    /\ trading = "open"
    /\ to \in cleared
    /\ holdings' = [holdings EXCEPT ![to] = @ + n]
    /\ supply' = supply + n
    /\ UNCHANGED supervision

Move(from, to, n) ==
    /\ trading = "open"
    /\ {from, to} \subseteq cleared
    /\ n <= holdings[from]
    /\ holdings' = IF from = to THEN holdings
                   ELSE [holdings EXCEPT ![from] = @ - n, ![to] = @ + n]
    /\ UNCHANGED <<supply, supervision>>

\* Clearances change and trading is suspended and resumed at will, but the end
\* of trading is final.
Supervise ==
    /\ cleared' \in SUBSET Holder
    /\ trading' \in {"open", "suspended", "ended"}
    /\ trading = "ended" => trading' = "ended"
    /\ UNCHANGED ledger

Next ==
    \/ \E to \in Holder, n \in Amount : Issue(to, n)
    \/ \E from, to \in Holder, n \in Amount : Move(from, to, n)
    \/ Supervise

Spec == Init /\ [][Next]_<<ledger, supervision>>
=============================================================================
