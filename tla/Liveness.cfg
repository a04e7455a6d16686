\* What must happen in the end, one component at a time; the bounds are in MCLiveness.
SPECIFICATION FairSpec
CONSTANTS
    None = None
    t1 = t1
    c1 = c1
    o1 = o1
    o2 = o2
    d1 = d1
    a1 = a1
    m1 = m1
    m2 = m2
    m3 = m3
    s1 = s1
    s2 = s2
    q1 = q1
    q2 = q2
PROPERTIES DisconnectAnswered EverythingIsIngested EveryQuestionEnds
CHECK_DEADLOCK FALSE
