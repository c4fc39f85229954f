SPECIFICATION Spec
CONSTANTS
    Browsers = {b1}
    Ones = {o1}
    Desktops = {}
    Requests = {r1, r2}
    Overtaking = {}
    MaxTokens = 5
    None = none
SYMMETRY RequestSymmetry
INVARIANTS LostReplyNeverSignsOut AppTokenIsFixed
