SPECIFICATION BuildSpec
CONSTANTS
    qemu = qemu
    qemu_bl33 = qemu_bl33
    board = board
    None = None
    Names <- MCNames
    Configs <- MCConfigs
    SHIPPED <- MCShipped
    Payloads <- MCPayloads
    WORD = 16
    PAYLOAD_SIZE_LIMIT = 8
    MAX_EDITS = 2
INVARIANTS
    BuildTypeOK
    ImageIsFresh
    OutputsAgree
    ValidBuildSucceeds
