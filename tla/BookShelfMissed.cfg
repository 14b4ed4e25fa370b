\* A crash between storing a book and creating its edition.
SPECIFICATION ShelfSpec
CONSTANTS
    Isbns = {1}
    Metas = {m1}
    NoMeta = NoMeta
    Durable = TRUE
    Handlers = {h1}
    Users = {u1}
    Ids = {b1}
    Titles = {t1}
    NoTitle = NoTitle
    Titled = {m1}
    Notes = {n1}
    Unset = Unset
    Patches <- OneField
    MaxFaults = 1
PROPERTIES
    NothingMissed
