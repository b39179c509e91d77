\* Two concurrent requests, four messages of two sessions, a queue of one place.
SPECIFICATION FairSpec
CONSTANTS
    q1 = q1  q2 = q2
    s1 = s1  s2 = s2
    m1 = m1  m2 = m2  m3 = m3  m4 = m4
    Request = {q1, q2}
    Session = {s1, s2}
    Msg = {m1, m2, m3, m4}
    SessionOf <- MCSessionOf
    Refused = {m3}
    Capacity = 1
    Limit = 2
    MaxSends = 5
    NoMsg = NoMsg
    NoRequest = NoRequest
INVARIANTS OvershootBounded SessionWithinLimit
PROPERTIES RequeueWithinCapacity AnsweredIsFinal EveryRequestAnswers
CHECK_DEADLOCK FALSE
