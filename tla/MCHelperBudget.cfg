SPECIFICATION Spec
CONSTANTS
    c1 = c1
    c2 = c2
    c3 = c3
    Calls <- MCCalls
    MaxWanted = 2
    MaxLimit = 3
    Limits <- MCLimits
SYMMETRY CallSymmetry
INVARIANTS
    Inv
PROPERTIES
    GrantRespectsLimit
    ImplementsBudget
