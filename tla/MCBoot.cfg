SPECIFICATION BootSpec
CONSTANTS
    PAGE_SIZE = 4
    U64_MAX = 191
    MAP_LIMIT = 160
    MAX_ALLOWED_RANGES = 8
    MAX_MEMORY_ACCESS_HANDLERS = 2
    Attributes = {Memory, Device}
    Handlers = {Filter}
    Unused = Unused
    Memory = Memory
    Device = Device
    Filter = Filter
    WORD = 2
    FILTERED_MMIO_BASE = 8
    DRAM_START = 32
    RITM_START = 40
    RITM_END = 56
    DRAM_MAPPED_END = 128
    ECAM_START = 132
    ECAM_END = 136
    HIGH_MMIO_START = 144
    HIGH_MMIO_END = 156
    SHARED_HEAP_SIZE = 8
    PAYLOAD_ADDRESS = 36
    GIB = 32
    DATA_OFFSET = 1
    Machines <- MCMachines
    Clobbered = Clobbered
INVARIANTS
    BootTypeOK
    DescribedExactly
    DescribedIsMapped
    ImageUnmapped
    PayloadEntered
PROPERTY
    SupportedBoots
