\* The $FF00 trigger: does a transfer start only with EXECUTE set?
CONSTANTS
    ByteBits = 1
    BankBits = 3
    ChipSpan = 8
    RecOptions <- Set512k
    Commands <- TriggerCommands
    AddrRegs = {}
    AddrBytes = {}
    BankBytes = {}
    IntMasks = {}
    AddrControls = {}
    MaxCpuOps = 3
    VicGrace = 3
SPECIFICATION Spec
PROPERTY DmaStartsOnlyWithExecute
