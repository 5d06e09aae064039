SPECIFICATION FairSpec
CONSTANTS
    m1 = m1
    m2 = m2
    d = d
    h1 = h1
    Members = {m1, m2}
    Driver = d
    Handlers = {h1}
    MaxHead = 2
    MaxSessions = 1
    MaxMishaps = 0
INVARIANTS ResultsAgree
PROPERTIES JointIsComplete TransitionLandsInItsRound RoundOpensForNewHead FullRoundAsked
