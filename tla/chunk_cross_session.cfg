CONSTANTS
    c1 = c1
    c2 = c2
    s1 = s1
    s2 = s2
    None = None
    Jobs <- MCJobs2
    Contents <- MCContents
    Sessions = {s1, s2}
    FileOf <- MCFileOf2
    EditOf <- MCFileOf2
    LinkFails = {}
    CompOf <- MCCompLZ4_2
    EncryptOf <- MCEncryptAll2
    SessionOf <- MCTwoSessions2
    MayFailWrite = {}
    MayBusy = {}
SPECIFICATION Spec
CHECK_DEADLOCK FALSE
INVARIANT RoundTrip
