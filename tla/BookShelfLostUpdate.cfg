\* Two overlapping PATCHes of different fields.
SPECIFICATION ShelfSpec
CONSTANTS
    Isbns = {1}
    Metas = {m1}
    NoMeta = NoMeta
    Durable = TRUE
    Handlers = {h1, h2}
    Users = {u1}
    Ids = {b1}
    Titles = {t1}
    NoTitle = NoTitle
    Titled = {m1}
    Notes = {n1, n2}
    Unset = Unset
    Patches <- OneField
    MaxFaults = 0
PROPERTIES
    PatchKeepsNotes
