CONSTANTS
    prose = prose
    credits = credits
    parser = parser
    reader = reader
    code = code
    page = page
    Proof = Proof
    File = {code, page}
    None = None
    Version = {1, 2}
    Minute = {1}
    Sources <- MCSources
    Check <- MCCheck
    Suite <- MCSuite
    Names <- MCNames
    Broken <- MCBroken
    Count <- MCCount
SPECIFICATION Spec
INVARIANTS GateTypeOK RememberedIsTrue VerdictIsRight HeldTreePassesChecks
PROPERTY PushedChecksPass
