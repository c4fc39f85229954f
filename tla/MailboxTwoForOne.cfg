SPECIFICATION Spec
CONSTANTS
    Requests = {r1, r2}
    Mailboxes = {m1, m2}
    UserIds = {1, 2}
    MaxAttempts = 1
    None = none
INVARIANTS OneMailboxPerUser
SYMMETRY Symmetry
