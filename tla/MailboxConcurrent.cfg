SPECIFICATION FairSpec
CONSTANTS
    Requests = {r1, r2}
    Mailboxes = {m1, m2}
    UserIds = {1, 2}
    MaxAttempts = 2
    None = none
INVARIANTS TypeOK AnswersResolve
PROPERTIES BindingIsPermanent ImplementsRegister EveryCallEnds
