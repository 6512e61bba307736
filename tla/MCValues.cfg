SPECIFICATION Spec
CONSTANTS
    Damaged = Damaged
    SdsLen <- MCSdsLen
    IntSize <- MCIntSize
    IntBits <- MCBits
    ZIP_BIGLEN = 254
    LenMax = 3
    ZSKIPLIST_MAXLEVEL = 2
    NotIntegers = {100}
    list_max_ziplist_entries = 4
    list_max_ziplist_value = 512
    hash_max_ziplist_entries = 2
    hash_max_ziplist_value = 512
    set_max_intset_entries = 3
    zset_max_ziplist_entries = 2
    zset_max_ziplist_value = 512
    REDIS_AOF_REWRITE_ITEMS_PER_CMD = 2
    LLONG_MAX = 15
    REDIS_ENCODING_EMBSTR_SIZE_LIMIT = 2
    MaxStringLength = 4
    sizeof_long = 2
    BITOP_CHUNK = 2
    HLL_REGISTERS = 6
    HLL_REGISTER_MAX = 4
    HLL_HDR_SIZE = 1
    HLL_SPARSE_ZERO_MAX_LEN = 2
    HLL_SPARSE_XZERO_MAX_LEN = 6
    HLL_SPARSE_VAL_MAX_LEN = 2
    HLL_SPARSE_VAL_MAX_VALUE = 2
    hll_sparse_max_bytes = 6
    Invalid = Invalid
    MaxElements = 5
    MaxScore = 2
    Workloads <- MCWorkloads
INVARIANTS ReadsAgree EncodingOK
PROPERTY Refines
VIEW StateView
CHECK_DEADLOCK FALSE
