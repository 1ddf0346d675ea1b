SPECIFICATION Spec
CONSTANTS
    Writer = {w1, w2}
    Verdict = {alert, contain}
    NoVerdict = NoVerdict
    Torn = Torn
    AllowReset = TRUE
    Faults = {"open_fails", "partial_write", "torn_write", "unterminated", "lost_tail"}
    MaxLines = 4
    MaxDamage = 2
SYMMETRY WriterAndVerdictSymmetry
CHECK_DEADLOCK FALSE
INVARIANTS
    TypeOK
    AppendsToIntactChain
    VerifiedIsGenuine
    VerifiedIsPrefix
