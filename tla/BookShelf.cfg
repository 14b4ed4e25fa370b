\* Two users with overlapping requests over two shared editions, one fault.
SPECIFICATION ShelfSpec
CONSTANTS
    Isbns = {1, 2}
    Metas = {m1}
    NoMeta = NoMeta
    Durable = TRUE
    Handlers = {h1, h2}
    Users = {u1, u2}
    Ids = {b1}
    Titles = {t1}
    NoTitle = NoTitle
    Titled = {m1}
    Notes = {n1}
    Unset = Unset
    Patches <- EditionFields
    MaxFaults = 1
SYMMETRY Interchangeable
INVARIANTS
    ShelfTypeOK
    EveryBookHasEdition
PROPERTIES
    NoResurrection
    TenantIsolation
    CoverURLResolves
    UserTitleWins
