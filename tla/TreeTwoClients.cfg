SPECIFICATION Spec
CONSTANTS
    Clients = {"c1", "c2"}
    Filters <- FiltersOverlap
    Searches <- SearchesAll
    RetainedTopics <- RetainedDeep
    Topics <- TopicsOverlap
    QoSLevels = {1}
INVARIANTS
    TypeOK
    ReceivesWhatItAsked
    ReceivesNothingElse
    RetainedFound
    QueuesWhatItAsked
    CleanLeavesNothing
