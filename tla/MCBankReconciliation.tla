------------------------ MODULE MCBankReconciliation ------------------------
(* Two or three movements that compete for two payments. *)
EXTENDS BankReconciliation, TLC

CONSTANTS t1, t2, t3, p1, p2

\* t1 and t2 fit the same payment, t3 fits both.
TwoMovements == {t1, t3}
ThreeMovements == {t1, t2, t3}
TwoPayments == {p1, p2}
FitsOf == (t1 :> {p1}) @@ (t2 :> {p1}) @@ (t3 :> {p1, p2})
TwoFits == [t \in TwoMovements |-> FitsOf[t]]
ThreeFits == [t \in ThreeMovements |-> FitsOf[t]]

Symmetric == Permutations(Requests)
=============================================================================
