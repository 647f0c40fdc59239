\* The queue of the language server: two producers of two events each; every wait
\* ends, under the fairness of threads and clocks.
SPECIFICATION FairSpec
CONSTANTS
    Producers <- TwoProducers
    Consumer = "main"
    MaxEvents = 2
    Nothing = none
INVARIANTS
    TypeOK
    NoLostWakeup
    InOrder
PROPERTIES
    ImplementsChannel
    WaitsEnd
\* Nobody has to push.
CHECK_DEADLOCK FALSE
