\* One request; the catalogue lists ten bytes that are no ISBN.
SPECIFICATION SearchSpec
CONSTANTS
    c1 = c1
    c2 = c2
    Codes = {c1, c2}
    Searches = {s1}
    Queries <- SomeQueries
    Blank = ""
    Answers <- OddAnswers
    CacheMaxSize = 2
    CacheTTL = 1
    Timeout = 1
INVARIANTS
    HitsArePostable
