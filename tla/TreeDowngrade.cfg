SPECIFICATION Spec
CONSTANTS
    Clients = {"c1"}
    Filters <- FiltersNested
    Searches <- SearchesAll
    RetainedTopics <- TopicsNested
    Topics <- TopicsNested
    QoSLevels = {0, 1}
INVARIANTS
    DowngradesOnlyWhenNecessary
