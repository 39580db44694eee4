\* REU registers, transfers and the cycle-steal handshake, for a 512k and a 2048k REU.
CONSTANTS
    ByteBits = 1
    BankBits = 3
    ChipSpan = 8
    RecOptions <- SetBoth
    Commands <- AllCommands
    AddrRegs = {"base_computer", "base_reu", "transfer_length"}
    AddrBytes = {0, 1}
    BankBytes = {5}
    IntMasks = {{"ints", "eob", "verify"}, {"eob"}}
    AddrControls = {{}, {"fixRec"}}
    MaxCpuOps = 4
    VicGrace = 3
SPECIFICATION Spec
INVARIANT TypeOK
INVARIANT IrqConsistent BusFreeWhenAccessed
PROPERTY EndMatchesReference
