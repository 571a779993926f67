CONSTANTS
    Delays = TRUE
    Quiesced = TRUE
SPECIFICATION FairSpec
INVARIANTS MaskedPinIsOwed NoSoftirqLeft  
PROPERTIES DeviceIsServed
