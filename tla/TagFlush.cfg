CONSTANTS
    TaggedKey = {k1, k2}
    Tag = {t1}
    TagChoice = {{t1}}
    TagUser = {u1, u2}
SPECIFICATION CalmTagSpec
INVARIANT FlushIsComplete
CHECK_DEADLOCK FALSE
