SPECIFICATION FairSpec
CONSTANTS
    proxy = proxy
    worker1 = worker1
    worker2 = worker2
    r1 = r1
    r2 = r2
    secret = secret
    Requests = {r1, r2}
    Hosts = {proxy, worker1, worker2}
    Endpoint = proxy
    Secrets = {secret}
    NoSecret = NoSecret
    NoHost = NoHost
    MaxRedirects = 3
    MaxDays = 2
INVARIANTS TypeOK KeyOfDate
PROPERTY RequestsEnd
