SPECIFICATION FairSpec
CONSTANTS
    Conns = {c1, c2, c3}
    Resettable = {}
    MaxInput = 1
    max_pollables = 4
    MaxDescriptors = 2
    Listener = listener
    Signals = signals
PROPERTY ClientIsAccepted
