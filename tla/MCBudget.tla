------------------------------ MODULE MCBudget ------------------------------
(* Two single-call turns share one identity; a third turn of two calls has    *)
(* one of its own, with a skill that counts double; a fourth is of a user     *)
(* whose identity is unresolved, so no gate stands in front of it.            *)
EXTENDS Budget, TLC

CONSTANTS a1, a2, b1, c1, alice, bob

MCInvs == {a1, a2, b1, c1}
MCIdentities == {alice, bob}
MCConfigOf(i) == [exempt |-> FALSE, multiplier |-> IF i = b1 THEN 2 ELSE 1]
MCIdentityOf(i) == IF i = c1 THEN Absent ELSE IF i = b1 THEN bob ELSE alice
MCCallsOf(i) == IF i = b1 THEN 2 ELSE 1
\* Both are expected to cost two units, and cost one to three: an empty prompt
\* counts as a token, and so does an output limit that is not set.
MCRequests == {[input |-> 0, out |-> 1], [input |-> 1, out |-> Absent]}
MCSymmetry == Permutations({a1, a2})
=============================================================================
