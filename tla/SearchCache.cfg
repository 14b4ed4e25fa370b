\* Two overlapping requests, three cache keys, room for two entries.
SPECIFICATION SearchSpec
CONSTANTS
    c1 = c1
    c2 = c2
    Codes = {c1, c2}
    Searches = {s1, s2}
    Queries <- SomeQueries
    Blank = ""
    Answers <- SomeAnswers
    CacheMaxSize = 2
    CacheTTL = 2
    Timeout = 1
SYMMETRY Interchangeable
INVARIANTS
    SearchTypeOK
    CacheBounded
    AnswersAreRecent
    LimitRespected
    HitsKeyTheirEdition
PROPERTIES
    EvictsOldestOnly
