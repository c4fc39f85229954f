SPECIFICATION Spec
CONSTANTS
    Browsers = {b1}
    Ones = {}
    Desktops = {}
    Requests = {r1, r2, r3}
    Overtaking = {"renew", "sign in"}
    MaxTokens = 4
    None = none
SYMMETRY RequestSymmetry
INVARIANTS TypeOK OneWinner
PROPERTIES DeadTokensStayDead
