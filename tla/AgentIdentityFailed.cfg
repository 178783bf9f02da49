\* One renewal whose writes may fail.
SPECIFICATION Spec
CONSTANTS
    Calls = {c1}
    Keys = {k0, k1}
    CAs = {a0}
    None = None
    MaxCrashes = 0
    MaxTokens = 1
INVARIANT FailedRenewalIsNoOp
