SPECIFICATION Spec
CONSTANTS
    p = p
    q = q
    Callers = {c1, c2}
    Peers = {p, q}
    Locals = {l1}
    Fds = {1, 2, 3}
    Addresses <- TwoAddresses
    MaxAttempts = 2
    MaxCalls = 3
    Checkers = {c1, c2}
    Sources <- SomeSources
    Hosts <- SomeHosts
    Questions <- SomeQuestions
    Routings <- SomeRoutings
    MaxChanges = 1
    MaxClears = 1
    Consumers = {c1, c2}
    Sizes = {0, 1, 2}
    NsPerByte = 1
    MaxConsumes = 4
    MaxIdle = 2
INVARIANTS
    OwnedOnce
    LentToItsPeer
    AnswersAgree
    AnswersAreTrue
    SlotsDisjoint
CHECK_DEADLOCK FALSE
