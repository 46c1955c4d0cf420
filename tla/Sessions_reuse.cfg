\* Two tabs share a session; each presents the token it holds.
SPECIFICATION Spec
CONSTANTS
    Tabs = {t1, t2}
    Families = {f1}
    Calls = {c1, c2}
    MaxTokens = 3
    None = None
PROPERTY ReuseEndsTheSession
CHECK_DEADLOCK FALSE
