SPECIFICATION FairSpec
CONSTANTS
    Conns = {c1, c2, c3}
    Resettable = {c1}
    MaxInput = 1
    max_pollables = 4
    MaxDescriptors = 4
    Listener = listener
    Signals = signals
PROPERTY OnlyEndedRemoved
