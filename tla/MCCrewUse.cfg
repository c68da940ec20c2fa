SPECIFICATION Spec
CONSTANTS
    o1 = o1
    o2 = o2
    Operations <- TwoOperations
    Addresses <- TwoAddresses
    Settings <- UpToOneHelper
    MaxHelpers = 1
    MaxStarts = 2
INVARIANTS
    CallsFindTheCrew
