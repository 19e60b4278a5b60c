SPECIFICATION Spec
CONSTANTS
    a = a
    b = b
    None = None
    Thread <- Threads
    Ticker <- Tickers
    Char <- Chars
    Outbox <- Outboxes
    MaxTicks = 1
    MaxCloses = 2
INVARIANTS
    Delivery
    ServerCloseCancels
PROPERTIES
    Closing
    LossNoticed
CHECK_DEADLOCK FALSE
