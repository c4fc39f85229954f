SPECIFICATION Spec
CONSTANTS
    Requests = {r1, r2}
    Users = {"1"}
    Organizations = {"acme", "other"}
    None = none
    RepeatableReads = FALSE
    Messages <- Few
INVARIANT AckedIsApplied
