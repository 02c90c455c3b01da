SPECIFICATION Spec
CONSTANTS
    BYTE = 8
    MAGIC <- MCMagic
    UUID_SIZE = 1
    HASH_SIZE = 1
    MAX_MSG_PAYLOAD_SIZE = 4
    Messages <- MCMessages
    MaxSent = 3
    SNDBUF = 28
INVARIANTS TypeOK FramingInv OnlyCutsBreak
PROPERTIES ImplementsChannel SentIsHandedOn
