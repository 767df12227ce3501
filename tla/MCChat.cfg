SPECIFICATION Spec
CONSTANTS
    a = a
    b = b
    c = c
    None = None
    Miss = Miss
    Chats <- MCChats
    Mentioning <- MCMentioning
    Writing <- MCWriting
    Keys <- MCKeys
    Modes <- MCModes
    Keep = 1
    Lookback = 2
    MaxOverlapping = 2
    MaxFaults = 1
    MaxTroubled = 2
INVARIANTS
    TypeOK
    TurnInOrder
    WholeTurns
    ToldIsRecorded
    CacheTellsOfTurns
    LockOrdersCache
    LocksAreShort
    CollisionsAreRaces
    AtMostOneForgotten
PROPERTIES
    TurnsAddUp
    KeepsConversation
