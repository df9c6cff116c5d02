SPECIFICATION SetupSpec
CONSTANTS
    gm = gm
    sm = sm
    im = im
    os = os
    k1 = k1
    k2 = k2
    k3 = k3
    k4 = k4
    Key = {k1, k2, k3, k4}
    Worker = {w1, w2}
    Sweeper = {scheduler}
    Identity = {gm, sm, im, os}
    Content = {c1, c2}
    Address = {a1, a2}
    TransportOf <- MCTransportOf
    KeepsSentCopy <- MCKeepsSentCopy
    Route <- MCRoutes
    Recipients <- MCRecipients
    Threaded = {c2}
    MaxAttempts = 4
    NetBound = 2
    CallBound = 2
INVARIANTS
    TypeOK
    NoDuplicateEmail
    OneCallPerKey
    FailedIsNotOut
    SettledIsOut
    RecordMatchesMail
PROPERTIES
    NeverReopened
    KeepsThePromise
CHECK_DEADLOCK FALSE
SYMMETRY WorkerSymmetry
