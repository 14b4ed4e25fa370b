\* An ISBN without upstream record fills every sweep.
SPECIFICATION FairSpec
CONSTANTS
    Isbns = {1, 2}
    Metas = {m1}
    NoMeta = NoMeta
    Durable = TRUE
    Workers = {w1}
    Clients = {c1}
    Reconciler = reconciler
    QueueSize = 2
    SweepLimit = 1
    Missing = {1}
    MaxDisruptions = 1
PROPERTIES
    NothingPermanentlyLost
