CONSTANTS
    c1 = c1
    c2 = c2
    s1 = s1
    s2 = s2
    None = None
    Jobs <- MCJobs1
    Contents <- MCContents
    Sessions = {s1}
    FileOf <- MCFileOf1
    EditOf <- MCEditOf1
    LinkFails = {}
    CompOf <- MCCompLZ4_1
    EncryptOf <- MCEncrypt1
    SessionOf <- MCSession1
    MayFailWrite = {}
    MayBusy = {}
SPECIFICATION Spec
CHECK_DEADLOCK FALSE
INVARIANT RoundTrip
