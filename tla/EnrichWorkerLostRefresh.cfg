\* A refresh that arrives between a Lookup and the save of its result.
SPECIFICATION Spec
CONSTANTS
    Isbns = {1}
    Metas = {m1}
    NoMeta = NoMeta
    Durable = TRUE
    Workers = {w1}
    Clients = {c1}
    Reconciler = reconciler
    QueueSize = 1
    SweepLimit = 1
    Missing = {}
    MaxDisruptions = 0
INVARIANTS
    RefreshRefetches
