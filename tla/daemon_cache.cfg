SPECIFICATION FairSpec
CONSTANTS
    c1 = c1
    c2 = c2
    o1 = o1
    p = p
    q = q
    x = x
    Clients = {c1, c2}
    Objects = {o1}
    Predicates = {p, q, x}
    Text <- MCText
    Endings <- MCEndings
    Names = {"a", "b"}
    Literals = {"1"}
    Chunks = 2
    Nobody = nobody
    MaxRequests = 3
    MaxUploads = 2
    MaxKills = 1
INVARIANTS ExpressionsAreSentences AnswersFromWholeFiles OneVersionPerObject AnswersAConcurrentQuestion
PROPERTIES MappedFilesAreStill RequestAnswered
CHECK_DEADLOCK FALSE
