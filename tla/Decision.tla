------------------------------ MODULE Decision ------------------------------
(***************************************************************************)
(* What a verifier call promises, whatever it verifies: given one          *)
(* argument, one answer, which is "yes" exactly when the argument is Good, *)
(* and which does come.                                                    *)
(***************************************************************************)
CONSTANTS
    IsArgument(_),      \* what the call may be given
    Good(_)             \* what it should accept

VARIABLES argument, answer

vars == <<argument, answer>>

Init == IsArgument(argument) /\ answer = "pending"

Decide ==
    /\ answer = "pending"
    /\ answer' \in {"yes", "no"}
    /\ answer' = "yes" <=> Good(argument)
    /\ UNCHANGED argument

Spec == Init /\ [][Decide]_vars /\ <>(answer # "pending")
============================================================================
