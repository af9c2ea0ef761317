\* Two creators, three files, a vendor, a default and a custom profile that
\* exist or not and are complete, consist of a README or are empty, and one
\* failed call or crash.
CONSTANTS
    a = a
    b = b
    template = template
    README = README
    REQUIREMENTS = REQUIREMENTS
    Creators = {a, b}
    Order <- MCOrder
    Requests <- MCRequests
    Existing = {"vendor", "default", "custom"}
    MaxFaults = 1
SYMMETRY Symmetric
SPECIFICATION Spec
CHECK_DEADLOCK FALSE
INVARIANTS
    TypeOK
    SuccessIsACopy
    FailureLeavesNothing
    ListedAreFound
PROPERTIES
    SettledStay
