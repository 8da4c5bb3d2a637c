CONSTANTS
    Addresses = {1}
    Malformed <- NotAnAddress
    Numbers = {4, 13}
    Texts = {"text"}
    ShortRange = 8
    FallbackIp = 2
    DefaultStart = 9
    MaxOptions = 2
    Descriptors = {3, 4, 5, 6}
    Stray = Stray
    Nowhere = Nowhere
    MirrorDestinations <- TwoPackets
SPECIFICATION DeliverySpec
INVARIANT ConsumeReturns
