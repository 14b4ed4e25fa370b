\* A PATCH without a title, of a book the edition names.
SPECIFICATION ShelfSpec
CONSTANTS
    Isbns = {1}
    Metas = {m1}
    NoMeta = NoMeta
    Durable = TRUE
    Handlers = {h1}
    Users = {u1}
    Ids = {b1}
    Titles = {t1}
    NoTitle = NoTitle
    Titled = {m1}
    Notes = {n1, n2}
    Unset = Unset
    Patches <- OneField
    MaxFaults = 0
PROPERTIES
    PatchKeepsTitle
