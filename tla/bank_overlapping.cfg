SPECIFICATION Spec
CONSTANTS
    t1 = t1
    t2 = t2
    t3 = t3
    p1 = p1
    p2 = p2
    Movements <- TwoMovements
    Payments <- TwoPayments
    Fits <- TwoFits
    Requests = {r1, r2}
    NoPayment = NoPayment
    NoMovement = NoMovement
SYMMETRY Symmetric
INVARIANTS
    PaymentReconciledOnce
PROPERTIES
    ImportsKeepDecisions
