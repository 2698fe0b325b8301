CONSTANTS
    c1 = c1
    c2 = c2
    s1 = s1
    s2 = s2
    None = None
    Jobs <- MCJobs
    Contents <- MCContents
    Sessions = {s1}
    FileOf <- MCFileOf
    EditOf <- MCEditFirst
    LinkFails = {1}
    CompOf <- MCCompLZ4
    EncryptOf <- MCEncryptAll
    SessionOf <- MCOneSession
    MayFailWrite = {3}
    MayBusy = {2}
SPECIFICATION Spec
CHECK_DEADLOCK FALSE
INVARIANT TypeOK
INVARIANT RoundTrip
INVARIANT VerifiedIfCompleted
