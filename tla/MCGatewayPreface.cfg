SPECIFICATION GSpec
CONSTANTS
    Windows = TRUE
    Threads = 2
    Requests <- MCRequests
    Tasks = {t1, t2}
    Nobody = Nobody
    Direct = Direct
    url1 = url1
    url2 = url2
    h1 = h1
    h2 = h2
    p1 = p1
    p2 = p2
    Proxies = {p1}
    Urls <- PacUrls
    Hosts <- PacHosts
    HostOf <- PacHostOf
    NoProxy <- PacNoProxy
    AnswersFor <- PacAnswersFor
    CacheTtl = 1
    BlacklistTtl = 1
    LookupLimit = 0
    MarkLag = 0
    MaxTime = 1
SYMMETRY TaskSymmetry
INVARIANTS
    PrefaceAfter200
