CONSTANTS
    Users = {"ann", "bob"}
    SystemUsers = {"root"}
    MaxFailures = 2
    MaxLosses = 2
SPECIFICATION Spec
INVARIANT HandsOverToSddm
