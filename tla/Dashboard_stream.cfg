\* A page that reconnects while the handlers of its earlier connections are still
\* at work: a ring that turns, buffers that overflow, a monitor that is full.
CONSTANTS
    Tabs = {t1}
    Connections = {c1, c2}
    NoConnection = none
    Capacity = 2
    SubscriberBuffer = 2
    StreamBuffer = 1
    MaxClients = 1
    MaxEvents = 3
SPECIFICATION FairSpec
INVARIANTS
    ExactlyOnce
PROPERTIES
    ImplementsLog
    Delivered
    PlaceFreed
