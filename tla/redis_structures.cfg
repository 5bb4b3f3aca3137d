SPECIFICATION Spec
VIEW View
CONSTANTS
    Kinds = {"ziplist", "list", "set", "hash", "zset", "dict", "rax", "hll", "string", "db", "query", "reply", "sds", "text", "migrate", "slot", "config", "scan", "ae"}
    MaxLength = 4
    Elements <- MCElements
    DictKeys = {0, 2, 4, 7}
    RaxKeys <- MCRaxKeys
    Fill = 2
    Depth = 1
    MinCompress = 2
    InitialSize = 2
    MinFill = 50
    ForceRatio = 1
    SetMaxEntries = 2
    HashMaxEntries = 2
    ZsetMaxEntries = 2
    MaxLevel = 2
    EmbstrSize = 44
    LzfSize = 4
    ItemsPerCmd = 2
    Strings <- MCStrings
    IoBuf = 3
    BigArg = 5
    InlineMax = 15
    MaxBulk = 9
    MaxArgs = 4
    Chunk = 4
    MaxWrites = 5
    MaxString = 7
INVARIANTS WellFormed Answers
PROPERTIES Implements
CHECK_DEADLOCK FALSE
