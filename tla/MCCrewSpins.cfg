SPECIFICATION Spec
CONSTANTS
    o1 = o1
    o2 = o2
    Operations <- OneOperation
    Addresses <- TwoAddresses
    Settings <- UpToOneHelper
    MaxHelpers = 1
    MaxStarts = 1
INVARIANTS
    NoneSpinsPastTheEnd
