CONSTANTS
    t1 = t1
    t2 = t2
    c1 = c1
    c2 = c2
    c3 = c3
    Tabs = {t1, t2}
    Calls = {c1, c2, c3}
    TabOf <- MCTabOf
    MaxToken = 2
SPECIFICATION FairSpec
INVARIANTS
    SingleFlight
    QueueHasRefresh
    ReuseNeedsMishap
PROPERTIES
    CallsSettle
