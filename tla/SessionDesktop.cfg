SPECIFICATION Spec
CONSTANTS
    Browsers = {}
    Ones = {}
    Desktops = {d1}
    Requests = {r1}
    Overtaking = {}
    MaxTokens = 3
    None = none
SYMMETRY RequestSymmetry
INVARIANTS LostReplyNeverSignsOut
