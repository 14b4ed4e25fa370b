\* Two workers, one handler, a queue of one, a durable store, one failure
\* of any kind at any point.
SPECIFICATION Spec
CONSTANTS
    Isbns = {1, 2}
    Metas = {m1}
    NoMeta = NoMeta
    Durable = TRUE
    Workers = {w1, w2}
    Clients = {c1}
    Reconciler = reconciler
    QueueSize = 1
    SweepLimit = 2
    Missing = {}
    MaxDisruptions = 1
SYMMETRY Goroutines
INVARIANTS
    TypeOK
    OneFetchPerIsbn
    NoLeakedMark
    CoverBeforeEnriched
    QueuedHaveRow
    QuietRefreshStaysPending
PROPERTIES
    EnrichmentNeverErased
    ImplementsLifecycle
