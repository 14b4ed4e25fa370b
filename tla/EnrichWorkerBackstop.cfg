\* Liveness: one ISBN overfills the queue or the sweep; an error, a crash or a shutdown.
SPECIFICATION FairSpec
CONSTANTS
    Isbns = {1, 2}
    Metas = {m1}
    NoMeta = NoMeta
    Durable = TRUE
    Workers = {w1}
    Clients = {c1}
    Reconciler = reconciler
    QueueSize = 1
    SweepLimit = 1
    Missing = {2}
    MaxDisruptions = 1
PROPERTIES
    Backstop
