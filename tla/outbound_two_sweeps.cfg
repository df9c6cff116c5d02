SPECIFICATION Spec
CONSTANTS
    gm = gm
    sm = sm
    im = im
    os = os
    k1 = k1
    k2 = k2
    k3 = k3
    k4 = k4
    Key = {k1}
    Worker = {w1, w2}
    Sweeper = {scheduler, cli}
    Identity = {gm}
    Content = {c1}
    Address = {a1}
    TransportOf <- MCTransportOf
    KeepsSentCopy <- MCKeepsSentCopy
    Route <- MCOneRoute
    Recipients <- MCAnyRecipient
    Threaded = {}
    MaxAttempts = 2
    NetBound = 2
    CallBound = 2
PROPERTIES
    NeverReopened
CHECK_DEADLOCK FALSE
SYMMETRY WorkerSymmetry
