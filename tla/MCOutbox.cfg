CONSTANTS
    u1 = u1  u2 = u2  r1 = r1  r2 = r2
    e1 = e1  e2 = e2  e3 = e3  s1 = s1  s2 = s2
    Units <- TwoUnits
    Relays <- OneRelay
    Events <- ThreeEvents
    Subscribers <- TwoSubscribers
    EventsOf <- Recorded
    Subscribed <- Subscriptions
    Registered <- Known
    WellFormed <- Parsing
    FetchLimit = 2
    MaxCrashes = 1
    MaxFaults = 1
SPECIFICATION FairSpec
INVARIANTS TypeOK PublishedMeansRun OnceUnlessRecovered RecordedOrder
PROPERTIES MarksAreFinal SettledUnlessInterrupted ImplementsDelivery
CHECK_DEADLOCK FALSE
