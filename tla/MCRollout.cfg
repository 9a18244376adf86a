CONSTANTS
    Timeout = 6
    Grace = 2
    AddressTimeout = 2
    Threshold = 2
    Recent = 2
    MaxRead = 1
SPECIFICATION Spec
INVARIANTS
    QuotaIsPersistent
    HopelessEndsEarly
    ReadyIsNotMissed
    EndsInTime
