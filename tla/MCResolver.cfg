SPECIFICATION FairSpec
CONSTANTS
    Tasks = {t1, t2}
    Nobody = Nobody
    Direct = Direct
    http1 = http1
    http2 = http2
    lan = lan
    h1 = h1
    h2 = h2
    hlan = hlan
    p1 = p1
    p2 = p2
    Proxies = {p1, p2}
    Urls <- MCUrls
    Hosts <- MCHosts
    HostOf <- MCHostOf
    NoProxy <- MCNoProxy
    AnswersFor <- MCAnswersFor
    CacheTtl = 2
    BlacklistTtl = 2
    LookupLimit = 1
    MarkLag = 1
    MaxTime = 4
INVARIANTS
    AnswersStayOnHost
    NeverEmptyHanded
    SkipsBad
    EveryDropHasCause
    Inv
PROPERTIES
    BlacklistHolds
    KeepsPromise
    FreshEnough
    Answered
