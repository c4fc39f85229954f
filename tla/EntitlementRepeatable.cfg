SPECIFICATION Spec
CONSTANTS
    Requests = {r1, r2}
    Users = {"1"}
    Organizations = {"acme", "other"}
    None = none
    RepeatableReads = TRUE
    Messages <- OneSubject
INVARIANTS TypeOK AckedIsApplied RefusedStaysRefused
PROPERTIES NeverRollsBack ImplementsRegister
SYMMETRY RequestSymmetry
