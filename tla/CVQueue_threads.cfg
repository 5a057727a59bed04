\* When every consumer has gone and the queue is full, nothing more happens.
SPECIFICATION LiveSpec
CONSTANTS
    Producers = {p1, p2}
    Consumers = {c1, c2}
    MaxItems = 3
INVARIANTS
    NoItemForgotten
    NoStopForgotten
PROPERTIES
    ItemsAreTaken
    ConsumersFinish
CHECK_DEADLOCK FALSE
