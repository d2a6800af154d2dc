SPECIFICATION Spec
CONSTANTS
    t1 = t1
    t2 = t2
    t3 = t3
    p1 = p1
    p2 = p2
    Movements <- ThreeMovements
    Payments <- TwoPayments
    Fits <- ThreeFits
    Requests = {r1}
    NoPayment = NoPayment
    NoMovement = NoMovement
SYMMETRY Symmetric
INVARIANTS
    ReconciledIffMatched
    SuggestionsAreFree
PROPERTIES
    ReconciledOnlyReopens
