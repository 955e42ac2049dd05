--------------------------- MODULE MCControlPlane ---------------------------
(* Small instances of ControlPlane.  `fresh' and `renew' are generic       *)
(* enrolment tokens, `rebind' is a re-enrolment token bound to p1.         *)
EXTENDS ControlPlaneInv, TLC

CONSTANTS p1, p2, fresh, renew, rebind

MCTokenBound == [t \in Tokens |-> IF t = rebind THEN p1 ELSE None]

AllTokens == Tokens \cup {None}

EverySetting == [token : AllTokens, force : BOOLEAN]
Unforced     == [token : AllTokens, force : {FALSE}]
Forced       == [token : Tokens, force : {TRUE}]
FreshOnly    == {[token |-> fresh, force |-> FALSE]}
RebindForced == {[token |-> fresh, force |-> FALSE],
                 [token |-> rebind, force |-> TRUE]}

KeySymmetry == Permutations(Keys)

(* `fresh' and `renew' differ in nothing but their names.                  *)
TokenSymmetry == {k @@ t : k \in KeySymmetry, t \in Permutations({fresh, renew})}
=============================================================================
