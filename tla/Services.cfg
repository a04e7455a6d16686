\* The components of MCServices, one at a time.
SPECIFICATION Spec
CONSTANTS
    None = None
    Requests = {q1, q2, q3}
    Processes = {s1, s2}
    Subjects = {u1, u2}
    Messages = {m1, m2, m3}
    Relevant = {m1, m2, m3}
    Hostile = {m2}
    Malformed = {m3}
    PageSize = 2
    MaxFaults = 1
    Questions <- EachQuestion
    MaxConcurrent = 2
    Leases = {3, 4, 5, 6}
    Timeouts = {1, 2}
    Margin = 3
    MaxAttempts = 3
    Backoff = 2
    MaxBackoff = 2
    AiAttempts = 2
    AiBackoff = 1
    Stall = 1
    Gap = 2
    Replies <- EachAnswer
    MaxName = 3
    MaxPerson = 2
    DayLength = 4
    Offset = 2
    r1 = r1
    r2 = r2
    f1 = f1
    f2 = f2
    n1 = n1
    n2 = n2
    Documents <- AllDocuments
    LabelNames = {"a", "b", "c", "d"}
    MaxDescription = 2
    DescriptionCut = 1
    SubjectCut = 2
    MaxNote = 3
    MaxTag = 2
    MaxTags = 3
    MaxDeliveries = 3
SYMMETRY Symmetry
INVARIANTS TypeOK SyncsKeepAll QuestionsAreGuarded
PROPERTIES LoginsHold ExtractionsHold DeliveriesHold
CHECK_DEADLOCK FALSE
