\* Node n0 and peer n1; codes 3 (block response), 7 (tx sync notify) and
\* 10 (no topic); three messages, so that two goroutines can be pending at
\* once and run in either order.
CONSTANTS
    Self = n0
    Peers = {n1}
    Codes <- MCCodes
    MaxMsgs = 3
SPECIFICATION Spec
\* The model stops after MaxMsgs messages; the node then waits for more.
CHECK_DEADLOCK FALSE
PROPERTY DeliveredPublished
INVARIANT PublishedOnce
