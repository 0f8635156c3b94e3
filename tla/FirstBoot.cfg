CONSTANTS
    Users = {"ann", "bob"}
    SystemUsers = {"root"}
    MaxFailures = 2
    MaxLosses = 2
SPECIFICATION Spec
INVARIANTS
    SystemAccountsUntouched
    CompleteMeansApplied
    NeverBothEnabled
    HandoffNeverRefused
PROPERTY SetupCompletes
