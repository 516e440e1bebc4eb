SPECIFICATION FairSpec
CONSTANTS
    Session = s1
    Messages = {m1, m2}
    Prompters = {p1}
    Entries = {e1, e2}
    Callers = {}
    None = None
    Steps = 2
PROPERTIES
    WokenPromptsAreServed
