\* Three hosts compete for two sessions; a session expires after more than
\* two seconds of silence.  Two session ids, so that a stale id of the same host occurs.
SPECIFICATION FairSessionSpec
CONSTANTS
    Hosts = {h1, h2, h3}
    Services = {tftp, rmp}
    Sids = {s1, s2}
    SessionMax = 2
    SessionTimeout = 2
    NoSession = NoSession
INVARIANTS
    TypeOK
    CountExact
    SessionLimit
PROPERTIES
    PoolRefinement
    ServedUnlessOthersBusy
