\* Two messages and two workers, and either a lapsed lease or a retry by the visitor.
SPECIFICATION FairSpec
CONSTANTS
    w1 = w1  w2 = w2  a1 = a1  s1 = s1  m1 = m1  m2 = m2
    Worker = {w1, w2}
    Analyzer = {a1}
    Session = {s1}
    Msg = {m1, m2}
    SessionOf <- MCSessionOf
    Rank <- MCRank
    SameSecond = FALSE
    MaxAttempts = 2
    MaxEvents = 1
    None = None
ACTION_CONSTRAINT MCFirstIsM1
INVARIANTS OneReply
PROPERTIES ConversationKept EveryMessageSettles EveryRetryEnds
CHECK_DEADLOCK FALSE
