\* The REU's size and enable resources and its snapshot module, between CPU
\* instructions: does the interrupt line still follow the status register? (expected violation)
CONSTANTS
    ByteBits = 1
    BankBits = 3
    ChipSpan = 8
    RecOptions <- SetBoth
    Commands <- AllCommands
    AddrRegs = {"transfer_length"}
    AddrBytes = {0}
    BankBytes = {}
    IntMasks = {{"ints", "eob", "verify"}}
    AddrControls = {}
    MaxCpuOps = 4
    VicGrace = 3
SPECIFICATION FullSpec
INVARIANT IrqConsistent
