SPECIFICATION Spec
CONSTANTS
    m1 = m1
    m2 = m2
    d = d
    h1 = h1
    Members = {}
    Driver = d
    Handlers = {h1}
    MaxHead = 2
    MaxSessions = 2
    MaxMishaps = 1
PROPERTIES CountedIsOfTheHead
