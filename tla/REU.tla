-------------------------------- MODULE REU --------------------------------
(***************************************************************************)
(* The RAM Expansion Unit of reu.c, as x64sc runs it (reu_ba.enabled).     *)
(*                                                                         *)
(* The REC register file, the $FF00 trigger of reu_dma, the four transfer *)
(* loops of reu_dma_start with the cycle-steal handshake of                *)
(* reu_clk_inc_post_read/_write, and reu_dma_update_regs.  One iteration   *)
(* of a transfer loop is one step: every iteration advances the shared     *)
(* clock and ticks the VIC-II, whose BA line is the environment here.      *)
(*                                                                         *)
(* Data is abstracted: RAM contents and the floating bus value are left   *)
(* out, and the outcome of each byte comparison of a VERIFY transfer is a  *)
(* nondeterministic input.  Register widths are scaled: a register byte   *)
(* has ByteBits bits (8 in the code), so a 16-bit register has            *)
(* 2*ByteBits.  Status, command, interrupt and address-control registers  *)
(* are kept as the sets of their meaningful bits.                          *)
(***************************************************************************)
EXTENDS Integers, Sequences, FiniteSets, Bitwise

CONSTANTS
    ByteBits,       \* bits of a register byte (8)
    BankBits,       \* bits of the bank register (8)
    ChipSpan,       \* the range the REC counts in: 0x80000
    RecOptions,     \* the rec_options of the REU sizes set_reu_size offers
    Commands,       \* command register values the CPU writes
    AddrRegs,       \* the 16-bit registers the CPU writes
    AddrBytes,      \* byte values the CPU writes to them
    BankBytes,      \* values the CPU writes to the bank register
    IntMasks,       \* values the CPU writes to the interrupt register
    AddrControls,   \* values the CPU writes to the address control register
    MaxCpuOps,      \* bound: CPU accesses to the REU between two resets
    VicGrace        \* BA-low cycles before the VIC-II takes the bus (3)

Half == 2 ^ ByteBits                 \* one register byte
Word == Half * Half                  \* one 16-bit register: 0x10000
BankRange == 2 ^ BankBits
BaRunCap == VicGrace + 1             \* BA-low runs are counted up to here

TransferTypes == 0 .. 3              \* TO_REU, FROM_REU, SWAP, VERIFY
CommandBits == {"exec", "load", "ff00dis"}
StatusBits == {"verr", "eob", "intp"}
IntBits == {"ints", "eob", "verify"}
FixBits == {"fixC64", "fixRec"}
Reg16 == {"base_computer", "base_reu", "transfer_length"}
Shadow(r) == r \o "_shadow"

ASSUME /\ ByteBits \in Nat \ {0} /\ BankBits \in Nat \ {0}
       /\ \A o \in RecOptions :
             /\ o.wrap_around <= ChipSpan
             /\ o.wrap_around_mask_when_storing < Word * BankRange
             /\ o.reg_bank_unused < BankRange
       /\ AddrRegs \subseteq Reg16 /\ AddrBytes \subseteq 0 .. Half - 1
       /\ BankBytes \subseteq 0 .. BankRange - 1
       /\ Commands \subseteq [type : TransferTypes, bits : SUBSET CommandBits]
       /\ IntMasks \subseteq SUBSET IntBits /\ AddrControls \subseteq SUBSET FixBits

VARIABLES
    rec,      \* struct rec_s: the REC registers and their shadows
    irq,      \* the REU's interrupt line (maincpu_set_irq(reu_int_num, .))
    armed,    \* the static 'delay' of reu_dma: armed for a $FF00 write
    cpuBa,    \* the REU bit of the CPU's BA-low flags (reu_ba.cpu_ba)
    dma,      \* reu_dma_active and the locals of the running transfer loop
    bus,      \* reu_ba.delay and .last_cycle, and the VIC-II's BA line
    cmp,      \* history: comparison outcomes of the current VERIFY
    ops,      \* history: CPU accesses to the REU since the last reset
    rec_options, \* the REU size's options (set_reu_size)
    reu_enabled, \* the resource REU
    io_items,    \* I/O sources registered for the REU registers at $DF00
    snap         \* the last REU snapshot module written: <<>> or <<module>>

cfgVars == <<rec_options, reu_enabled, io_items, snap>>
vars == <<rec, irq, armed, cpuBa, dma, bus, cmp, ops, cfgVars>>

(***************************************************************************)
(* Registers                                                              *)
(***************************************************************************)

\* reu_reset: memset to 0, then the non-zero reset values of the size's
\* options o.  The interrupt line is not touched.
reu_reset(o) ==
    [ status |-> {}, command |-> [type |-> 0, bits |-> {"ff00dis"}],
      base_computer |-> 0, base_computer_shadow |-> 0,
      base_reu |-> 0, base_reu_shadow |-> 0,
      bank_reu |-> o.reg_bank_unused,
      bank_reu_shadow |-> o.reg_bank_unused,
      transfer_length |-> Word - 1, transfer_length_shadow |-> Word - 1,
      int_mask_reg |-> {}, address_control_reg |-> {} ]

\* reu_store_without_sideeffects for the low and the high byte of a 16-bit
\* register: both the register and its shadow take the shadow with one byte
\* replaced (the "half-autoload" behaviour).
StoreLow(r, reg, byte) ==
    LET v == (r[Shadow(reg)] \div Half) * Half + byte
    IN [r EXCEPT ![reg] = v, ![Shadow(reg)] = v]

StoreHigh(r, reg, byte) ==
    LET v == (r[Shadow(reg)] % Half) + byte * Half
    IN [r EXCEPT ![reg] = v, ![Shadow(reg)] = v]

StoreBank(r, byte) ==
    LET v == byte - (byte & rec_options.reg_bank_unused)
    IN [r EXCEPT !.bank_reu = v, !.bank_reu_shadow = v]

\* The interrupt-register side effect of reu_io2_store: an end-of-block or
\* verify condition already in the status raises the interrupt at once.
IntWriteRaises(r) ==
    \/ {"ints", "eob"} \subseteq r.int_mask_reg /\ "eob" \in r.status
    \/ {"ints", "verify"} \subseteq r.int_mask_reg /\ "verr" \in r.status

(***************************************************************************)
(* The x64sc cycle-steal handshake.  bus.run counts consecutive BA-low     *)
(* ticks of the VIC-II; bus.worst is the longest run at which the REU     *)
(* used the bus in this transfer.                                          *)
(***************************************************************************)

\* A mem_dma_read or mem_dma_store at the current tick.
Access(b) == [b EXCEPT !.worst = IF b.run > @ THEN b.run ELSE @]

\* One tick: maincpu_clk++ and reu_ba.check(), i.e. vicii_cycle_reu.  The
\* VIC-II pulls BA low or not (ba); vicii_cycle_reu hides the first BA-low
\* tick when sprite 0 is being turned on (hide).
Seen(b, ba, hide) == ba /\ ~(hide /\ b.run = 0)

Tick(b, ba, hide) ==
    [b EXCEPT !.run = IF ba THEN IF @ < BaRunCap THEN @ + 1 ELSE @ ELSE 0]

\* reu_ba.steal, vicii_steal_cycles: tick until the VIC-II releases BA.
Steal(b) == [b EXCEPT !.run = 0]

\* Fault model: post_read ticks but never steals.
PostReadNoSteal(b, ba, hide) == Tick(b, ba, hide)

\* reu_clk_inc_post_read: one cycle, then steal while BA is low.
reu_clk_inc_post_read(b, ba, hide) ==
    IF Seen(b, ba, hide) THEN Steal(Tick(b, ba, hide)) ELSE Tick(b, ba, hide)

\* Fault model: post_write steals but leaves reu_ba.delay counting.
PostWriteNoDelayReset(b, ba, hide) ==
    LET t == Tick(b, ba, hide)
        d == IF Seen(b, ba, hide) THEN b.delay + 1 ELSE 0
    IN IF d > 1 THEN [Steal(t) EXCEPT !.delay = d, !.last_cycle = TRUE]
       ELSE [t EXCEPT !.delay = d, !.last_cycle = FALSE]

\* reu_clk_inc_post_write: one cycle; count BA-low checks in reu_ba.delay
\* and steal once it exceeds 1.
reu_clk_inc_post_write(b, ba, hide) ==
    LET t == Tick(b, ba, hide)
        d == IF Seen(b, ba, hide) THEN b.delay + 1 ELSE 0
    IN IF d > 1
       THEN [Steal(t) EXCEPT !.delay = 0, !.last_cycle = TRUE]
       ELSE [t EXCEPT !.delay = d, !.last_cycle = FALSE]

(***************************************************************************)
(* Addresses                                                              *)
(***************************************************************************)

\* Fault model: the REC address never wraps at wrap_around.
IncrementNoWrap(reu_addr, reu_step) ==
    (reu_addr - (reu_addr % ChipSpan)) | ((reu_addr % ChipSpan) + reu_step)

\* increment_reu_with_wrap_around
increment_reu_with_wrap_around(reu_addr, reu_step) ==
    LET next == (reu_addr % ChipSpan) + reu_step
    IN (reu_addr - (reu_addr % ChipSpan)) | (IF next = rec_options.wrap_around THEN 0 ELSE next)

\* One iteration's address and length bookkeeping.
Advance(d) ==
    [d EXCEPT !.host = (@ + d.host_step) % Word,
              !.reu = increment_reu_with_wrap_around(@, d.reu_step),
              !.len = @ - 1]

\* The interrupt checks of reu_dma_update_regs: an end of block or a verify
\* error whose interrupt is enabled.
UpdateRaises(r, mask) ==
    \/ "eob" \in mask /\ {"ints", "eob"} \subseteq r.int_mask_reg
    \/ "verr" \in mask /\ {"ints", "verify"} \subseteq r.int_mask_reg

\* reu_dma_update_regs
reu_dma_update_regs(r, host_addr, reu_addr0, len, mask) ==
    LET reu_addr == reu_addr0 % (rec_options.wrap_around_mask_when_storing + 1)
        noload ==
            [r EXCEPT
               !.base_computer = IF "fixC64" \in r.address_control_reg
                                 THEN @ ELSE host_addr,
               !.base_reu = IF "fixRec" \in r.address_control_reg
                            THEN @ ELSE reu_addr % Word,
               !.bank_reu = IF "fixRec" \in r.address_control_reg
                            THEN @ ELSE (reu_addr \div Word) % BankRange,
               !.transfer_length = len % Word]
        autoload ==
            [r EXCEPT !.base_computer = r.base_computer_shadow,
                      !.base_reu = r.base_reu_shadow,
                      !.bank_reu = r.bank_reu_shadow,
                      !.transfer_length = r.transfer_length_shadow]
        regs == IF "load" \in r.command.bits THEN autoload ELSE noload
    IN [regs EXCEPT !.status = r.status \cup mask \cup
                                 (IF UpdateRaises(r, mask) THEN {"intp"} ELSE {})]

(***************************************************************************)
(* Transfers                                                              *)
(***************************************************************************)

NoTransfer == [active |-> FALSE, type |-> 0, host |-> 0, reu |-> 0, len |-> 0,
               host_step |-> 0, reu_step |-> 0, mask |-> {}, broke |-> FALSE]

\* reu_dma: nothing while the REU is disabled (its I/O source can outlive
\* reu_enabled after a failed snapshot read); else a zero argument arms the
\* $FF00 trigger, a negative one starts the transfer only when armed; on
\* x64sc starting means pulling the CPU's BA low and clearing reu_ba.delay
\* and .last_cycle.
reu_dma(immediate) ==
    LET starts == reu_enabled /\ immediate # 0 /\ (armed \/ immediate > 0)
    IN /\ armed' = IF reu_enabled THEN immediate = 0 \/ (armed /\ ~starts)
                  ELSE armed
       /\ cpuBa' = (cpuBa \/ starts)
       /\ bus' = IF starts THEN [bus EXCEPT !.delay = 0, !.last_cycle = FALSE]
                ELSE bus

\* The CPU may access the REU: an I/O source maps its registers at $DF00,
\* and no transfer runs or is pending.
CpuAccess ==
    /\ io_items > 0
    /\ ~dma.active /\ ~cpuBa /\ ops < MaxCpuOps
    /\ ops' = ops + 1

\* reu_io2_store to the command register: store it and, with EXECUTE, call
\* reu_dma with the FF00-disabled bit as argument.
StoreCommand(c) ==
    /\ CpuAccess
    /\ rec' = [rec EXCEPT !.command = c]
    /\ IF "exec" \in c.bits
       THEN reu_dma(IF "ff00dis" \in c.bits THEN 1 ELSE 0)
       ELSE UNCHANGED <<armed, cpuBa, bus>>
    /\ UNCHANGED <<irq, dma, cmp>>

\* reu_io2_store to a byte of a 16-bit register.
StoreAddr(reg, high, byte) ==
    /\ CpuAccess
    /\ rec' = IF high THEN StoreHigh(rec, reg, byte) ELSE StoreLow(rec, reg, byte)
    /\ UNCHANGED <<irq, armed, cpuBa, dma, bus, cmp>>

\* reu_io2_store to the bank register.
StoreBankReg(byte) ==
    /\ CpuAccess
    /\ rec' = StoreBank(rec, byte)
    /\ UNCHANGED <<irq, armed, cpuBa, dma, bus, cmp>>

\* reu_io2_store to the interrupt register, with its side effect.
StoreInterrupt(m) ==
    /\ CpuAccess
    /\ LET r == [rec EXCEPT !.int_mask_reg = m]
       IN /\ rec' = IF IntWriteRaises(r) THEN [r EXCEPT !.status = @ \cup {"intp"}]
                    ELSE r
          /\ irq' = (irq \/ IntWriteRaises(r))
    /\ UNCHANGED <<armed, cpuBa, dma, bus, cmp>>

\* reu_io2_store to the address control register.
StoreAddrControl(a) ==
    /\ CpuAccess
    /\ rec' = [rec EXCEPT !.address_control_reg = a]
    /\ UNCHANGED <<irq, armed, cpuBa, dma, bus, cmp>>

\* Fault model: the status read clears the bits but not the interrupt line.
ReadStatusKeepsIrq ==
    /\ CpuAccess
    /\ rec' = [rec EXCEPT !.status = {}]
    /\ UNCHANGED <<irq, armed, cpuBa, dma, bus, cmp>>

\* reu_io2_read of the status register: bits 7-5 are cleared and the
\* interrupt is removed.
ReadStatus ==
    /\ CpuAccess
    /\ rec' = [rec EXCEPT !.status = {}]
    /\ irq' = FALSE
    /\ UNCHANGED <<armed, cpuBa, dma, bus, cmp>>

\* A CPU write to $FF00: reu_dma(-1).
StoreFF00 ==
    /\ CpuAccess
    /\ reu_dma(-1)
    /\ UNCHANGED <<rec, irq, dma, cmp>>

\* Machine reset: reu_reset, and the CPU's interrupt lines are cleared.
Reset ==
    /\ ~dma.active /\ ~cpuBa
    /\ rec' = reu_reset(rec_options)
    /\ irq' = FALSE
    /\ ops' = 0
    /\ UNCHANGED <<armed, cpuBa, dma, bus, cmp>>

\* reu_dma_start: the CPU core sees its REU BA flag, clears it and calls
\* reu_dma_start; the VIC-II's own BA steal has run first, so BA is high.
StartDma ==
    /\ cpuBa /\ ~dma.active
    /\ LET len == IF rec.transfer_length # 0 THEN rec.transfer_length ELSE Word
       IN dma' = [active |-> TRUE, type |-> rec.command.type,
                  host |-> rec.base_computer,
                  reu |-> rec.base_reu + rec.bank_reu * Word, len |-> len,
                  host_step |-> IF "fixC64" \in rec.address_control_reg THEN 0 ELSE 1,
                  reu_step |-> IF "fixRec" \in rec.address_control_reg THEN 0 ELSE 1,
                  mask |-> {}, broke |-> FALSE]
    /\ cpuBa' = FALSE
    /\ bus' = [bus EXCEPT !.run = 0, !.worst = 0]
    /\ cmp' = <<>>
    /\ UNCHANGED <<rec, irq, armed, ops>>

Looping(t) == dma.active /\ dma.type = t /\ dma.len > 0

\* One iteration of reu_dma_host_to_reu: read the C64, post_read.
HostToReuStep ==
    /\ Looping(0)
    /\ \E ba, hide \in BOOLEAN :
          bus' = reu_clk_inc_post_read(Access(bus), ba, hide)
    /\ dma' = Advance(dma)
    /\ UNCHANGED <<rec, irq, armed, cpuBa, cmp, ops>>

\* One iteration of reu_dma_reu_to_host: write the C64, post_write.
ReuToHostStep ==
    /\ Looping(1)
    /\ \E ba, hide \in BOOLEAN :
          bus' = reu_clk_inc_post_write(Access(bus), ba, hide)
    /\ dma' = Advance(dma)
    /\ UNCHANGED <<rec, irq, armed, cpuBa, cmp, ops>>

\* One iteration of reu_dma_swap: read the C64, post_read, write the C64,
\* post_write.
SwapStep ==
    /\ Looping(2)
    /\ \E ba1, hide1, ba2, hide2 \in BOOLEAN :
          bus' = reu_clk_inc_post_write(
                   Access(reu_clk_inc_post_read(Access(bus), ba1, hide1)),
                   ba2, hide2)
    /\ dma' = Advance(dma)
    /\ UNCHANGED <<rec, irq, armed, cpuBa, cmp, ops>>

\* One iteration of reu_dma_compare: read the C64, post_read, advance; on a
\* difference set VERIFY_ERROR, take one extra cycle unless it was the last
\* byte (weird behaviour no. 1), and leave the loop.
CompareStep ==
    /\ Looping(3) /\ ~dma.broke
    /\ \E equal, ba1, hide1, ba2, hide2 \in BOOLEAN :
          LET b1 == reu_clk_inc_post_read(Access(bus), ba1, hide1)
              d1 == Advance(dma)
          IN /\ cmp' = Append(cmp, equal)
             /\ IF equal
                THEN bus' = b1 /\ dma' = d1
                ELSE /\ dma' = [d1 EXCEPT !.mask = {"verr"}, !.broke = TRUE]
                     /\ bus' = IF d1.len >= 1
                               THEN reu_clk_inc_post_read(b1, ba2, hide2) ELSE b1
    /\ UNCHANGED <<rec, irq, armed, cpuBa, ops>>

\* The end of reu_dma_start after a transfer: reu_dma_update_regs, then
\* reu_dma_active = 0, EXECUTE cleared and the $FF00 trigger disabled.
Finish(host, reu_addr, len, mask) ==
    /\ rec' = [reu_dma_update_regs(rec, host, reu_addr, len, mask)
                 EXCEPT !.command.bits = (@ \ {"exec"}) \cup {"ff00dis"}]
    /\ irq' = (irq \/ UpdateRaises(rec, mask))
    /\ dma' = NoTransfer

\* After the loop of reu_dma_host_to_reu: update_regs with ++len.
EndHostToReu ==
    /\ dma.active /\ dma.type = 0 /\ dma.len = 0
    /\ Finish(dma.host, dma.reu, 1, {"eob"})
    /\ UNCHANGED <<armed, cpuBa, bus, cmp, ops>>

\* After the loop of reu_dma_reu_to_host or reu_dma_swap: one extra cycle
\* if the last post_write stole, then update_regs with ++len.
EndToHostOrSwap ==
    /\ dma.active /\ dma.type \in {1, 2} /\ dma.len = 0
    /\ \E ba, hide \in BOOLEAN :
          bus' = IF bus.last_cycle THEN reu_clk_inc_post_read(bus, ba, hide) ELSE bus
    /\ Finish(dma.host, dma.reu, 1, {"eob"})
    /\ UNCHANGED <<armed, cpuBa, cmp, ops>>

\* Fault model: no special case for a failure at the next-to-last byte.
EndCompareNoTail ==
    /\ dma.active /\ dma.type = 3 /\ (dma.len = 0 \/ dma.broke)
    /\ IF dma.len = 0
       THEN Finish(dma.host, dma.reu, 1, dma.mask \cup {"eob"})
       ELSE Finish(dma.host, dma.reu, dma.len, dma.mask)
    /\ UNCHANGED <<armed, cpuBa, bus, cmp, ops>>

\* After the loop of reu_dma_compare: all equal, or the last byte failed,
\* sets END_OF_BLOCK (no. 2); a failure at the next-to-last byte sets it
\* only if the last byte compares equal (no. 3), read without a cycle.
EndCompare ==
    /\ dma.active /\ dma.type = 3 /\ (dma.len = 0 \/ dma.broke)
    /\ \E equal \in BOOLEAN :
          CASE dma.len = 0 ->
                 /\ Finish(dma.host, dma.reu, 1, dma.mask \cup {"eob"})
                 /\ UNCHANGED <<bus, cmp>>
            [] dma.len = 1 ->
                 /\ Finish(dma.host, dma.reu, 1,
                           dma.mask \cup (IF equal THEN {"eob"} ELSE {}))
                 /\ bus' = Access(bus)
                 /\ cmp' = Append(cmp, equal)
            [] OTHER ->
                 /\ Finish(dma.host, dma.reu, dma.len, dma.mask)
                 /\ UNCHANGED <<bus, cmp>>
    /\ UNCHANGED <<armed, cpuBa, ops>>

(***************************************************************************)
(* Specification                                                          *)
(***************************************************************************)

Init ==
    /\ rec_options \in RecOptions
    /\ rec = reu_reset(rec_options)
    /\ irq = FALSE
    /\ armed = FALSE
    /\ cpuBa = FALSE
    /\ dma = NoTransfer
    /\ bus = [delay |-> 0, last_cycle |-> FALSE, run |-> 0, worst |-> 0]
    /\ cmp = <<>>
    /\ ops = 0
    /\ reu_enabled = TRUE /\ io_items = 1 /\ snap = <<>>

CpuStep ==
    \/ \E c \in Commands : StoreCommand(c)
    \/ \E reg \in AddrRegs, high \in BOOLEAN, byte \in AddrBytes :
          StoreAddr(reg, high, byte)
    \/ \E byte \in BankBytes : StoreBankReg(byte)
    \/ \E m \in IntMasks : StoreInterrupt(m)
    \/ \E a \in AddrControls : StoreAddrControl(a)
    \/ ReadStatus
    \/ StoreFF00
    \/ Reset

DmaStep ==
    \/ StartDma
    \/ HostToReuStep \/ ReuToHostStep \/ SwapStep \/ CompareStep
    \/ EndHostToReu \/ EndToHostOrSwap \/ EndCompare

Next == (CpuStep \/ DmaStep) /\ UNCHANGED cfgVars

Spec == Init /\ [][Next]_vars

(***************************************************************************)
(* The REU's resources and its snapshot module.  They are called between  *)
(* two CPU instructions (from the UI or the snapshot code), never while a *)
(* transfer runs.  RAM contents and the image file are data and are left  *)
(* out, so reu_deactivate changes nothing that is modelled.               *)
(***************************************************************************)

IoCap == 2       \* bound: I/O sources registered for the REU at once

Quiet == ~dma.active /\ ~cpuBa

\* set_reu_enabled: disabling deactivates and unregisters the I/O source;
\* enabling runs reu_activate, which ends with reu_reset, then export_add,
\* which fails when another cartridge holds the port: -1 is returned with
\* the registers reset and nothing registered.  Neither touches the
\* interrupt line.  (No REU image file is set, so reu_activate always
\* reaches reu_reset.)
set_reu_enabled(val) ==
    \/ /\ ~val /\ reu_enabled
       /\ io_items' = io_items - 1
       /\ reu_enabled' = FALSE
       /\ UNCHANGED rec
    \/ /\ val /\ ~reu_enabled /\ io_items < IoCap
       /\ rec' = reu_reset(rec_options)
       /\ \/ /\ io_items' = io_items + 1
             /\ reu_enabled' = TRUE
          \/ UNCHANGED <<io_items, reu_enabled>>

SetReuEnabled(val) ==
    /\ Quiet
    /\ set_reu_enabled(val)
    /\ UNCHANGED <<irq, rec_options, snap>>

\* set_reu_size to another size: with the REU enabled, reu_deactivate and
\* reu_activate around the new options, so the registers are reset.
SetReuSize(o) ==
    /\ Quiet /\ o # rec_options
    /\ rec_options' = o
    /\ rec' = IF reu_enabled THEN reu_reset(o) ELSE rec
    /\ UNCHANGED <<irq, reu_enabled, io_items, snap>>

\* reu_write_snapshot_module: the size and the register bytes as
\* reu_read_without_sideeffects returns them (the live registers, not their
\* shadows; the bank with its unused bits).
SnapshotOf(r) ==
    [size |-> rec_options, status |-> r.status, command |-> r.command,
     base_computer |-> r.base_computer, base_reu |-> r.base_reu,
     bank |-> (r.bank_reu | rec_options.reg_bank_unused),
     transfer_length |-> r.transfer_length, int_mask_reg |-> r.int_mask_reg,
     address_control_reg |-> r.address_control_reg]

SnapshotWrite ==
    /\ Quiet /\ reu_enabled
    /\ snap' = <<SnapshotOf(rec)>>
    /\ UNCHANGED <<rec, irq, rec_options, reu_enabled, io_items>>

\* The loop of reu_read_snapshot_module over the saved bytes:
\* reu_store_without_sideeffects of each, in address order.  The status
\* register is read-only there; the low byte of a 16-bit register goes in
\* before its high byte, so register and shadow both end at the saved value.
RestoreRegs(r, m, o) ==
    LET Put16(x, reg) == StoreHigh(StoreLow(x, reg, m[reg] % Half), reg, m[reg] \div Half)
        bank == m.bank - (m.bank & o.reg_bank_unused)
        r16 == Put16(Put16(Put16([r EXCEPT !.command = m.command],
                                 "base_computer"), "base_reu"), "transfer_length")
    IN [r16 EXCEPT !.bank_reu = bank, !.bank_reu_shadow = bank,
                   !.int_mask_reg = m.int_mask_reg,
                   !.address_control_reg = m.address_control_reg]

\* reu_read_snapshot_module: set_reu_size to the saved size, enable the
\* REU if it is off, then read the bytes (ok is FALSE when the module is
\* short), restore the interrupt line from the saved status bit 7, and
\* store the bytes.  The fail path only clears reu_enabled.
SnapshotRead(ok) ==
    /\ Quiet /\ snap # <<>>
    /\ LET m == snap[1]
           resized == m.size # rec_options /\ reu_enabled
           activated == ~reu_enabled
           r0 == IF resized \/ activated THEN reu_reset(m.size) ELSE rec
       IN /\ activated => io_items < IoCap
          /\ rec_options' = m.size
          /\ io_items' = IF activated THEN io_items + 1 ELSE io_items
          /\ reu_enabled' = ok
          /\ IF ok THEN /\ rec' = RestoreRegs(r0, m, m.size)
                        /\ irq' = ("intp" \in m.status)
                   ELSE /\ rec' = r0
                        /\ UNCHANGED irq
    /\ UNCHANGED snap

ConfigStep ==
    /\ \/ \E val \in BOOLEAN : SetReuEnabled(val)
       \/ \E o \in RecOptions : SetReuSize(o)
       \/ SnapshotWrite
       \/ \E ok \in BOOLEAN : SnapshotRead(ok)
    /\ UNCHANGED <<armed, cpuBa, dma, bus, cmp, ops>>

\* The REU with its resources changed and snapshots written and read
\* between CPU instructions.
FullSpec == Init /\ [][Next \/ ConfigStep]_vars

(***************************************************************************)
(* Properties                                                             *)
(***************************************************************************)

TypeOK ==
    /\ rec.status \subseteq StatusBits
    /\ rec.command \in [type : TransferTypes, bits : SUBSET CommandBits]
    /\ \A r \in Reg16 : rec[r] \in 0 .. Word - 1 /\ rec[Shadow(r)] \in 0 .. Word - 1
    /\ rec.bank_reu \in 0 .. BankRange - 1
    /\ rec.int_mask_reg \subseteq IntBits
    /\ rec.address_control_reg \subseteq FixBits
    /\ irq \in BOOLEAN /\ armed \in BOOLEAN /\ cpuBa \in BOOLEAN
    /\ dma.len \in 0 .. Word /\ dma.host \in 0 .. Word - 1
    /\ bus.run \in 0 .. BaRunCap /\ bus.delay \in 0 .. 1
    /\ ops \in 0 .. MaxCpuOps
    /\ reu_enabled \in BOOLEAN /\ io_items \in 0 .. IoCap

\* The REU's interrupt line is asserted exactly while the status register
\* shows INTERRUPT_PENDING, and a pending interrupt keeps its cause (END_OF_
\* BLOCK or VERIFY_ERROR) in the status: the status read of reu_io2_read,
\* the interrupt-register write and reu_dma_update_regs must move them
\* together.
IrqConsistent ==
    /\ irq <=> "intp" \in rec.status
    /\ "intp" \in rec.status => rec.status \cap {"eob", "verr"} # {}

\* The REU never uses the bus once the VIC-II has taken it: every
\* mem_dma_read and mem_dma_store of a transfer happens within the first
\* VicGrace BA-low cycles, before the VIC-II's phi2 accesses start.  This is
\* what the steals of reu_clk_inc_post_read/_write, with the cycle that
\* vicii_cycle_reu hides, must guarantee.
BusFreeWhenAccessed == bus.worst <= VicGrace

(***************************************************************************)
(* Reference for a finished transfer, from the comments of reu.c and the   *)
(* 17xx behaviour they describe: a transfer moves its length in bytes (0  *)
(* meaning 0x10000); a VERIFY stops after its first difference, and sets  *)
(* END_OF_BLOCK also when that was the last byte, or the next-to-last with *)
(* an equal last byte; the length register is left at 1, or at the bytes  *)
(* a VERIFY did not compare; the addresses have advanced by the bytes     *)
(* done, the REU address modulo wrap_around inside the REC's range; with   *)
(* autoload the registers are those last written.                         *)
(***************************************************************************)
RefLen(r) == IF r.transfer_length = 0 THEN Word ELSE r.transfer_length

RefFails(c) == {i \in 1 .. Len(c) : ~c[i]}

RefDone(r, c) ==
    IF r.command.type = 3 /\ RefFails(c) # {}
    THEN CHOOSE i \in RefFails(c) : \A j \in RefFails(c) : i <= j
    ELSE RefLen(r)

RefMask(r, c) ==
    LET k == RefDone(r, c)
        rest == RefLen(r) - k
    IN IF r.command.type # 3 \/ RefFails(c) = {} THEN {"eob"}
       ELSE {"verr"} \cup (IF rest = 0 \/ (rest = 1 /\ Len(c) > k /\ c[k + 1])
                           THEN {"eob"} ELSE {})

RefRegs(r, c) ==
    LET k == RefDone(r, c)
        rest == RefLen(r) - k
        start == r.base_reu + r.bank_reu * Word
        lo == start % ChipSpan
        reuEnd == ((start - lo) + ((lo + k) % rec_options.wrap_around))
                    % (rec_options.wrap_around_mask_when_storing + 1)
        fixC64 == "fixC64" \in r.address_control_reg
        fixRec == "fixRec" \in r.address_control_reg
    IN IF "load" \in r.command.bits
       THEN [base_computer |-> r.base_computer_shadow,
             base_reu |-> r.base_reu_shadow, bank_reu |-> r.bank_reu_shadow,
             transfer_length |-> r.transfer_length_shadow]
       ELSE [base_computer |-> IF fixC64 THEN r.base_computer
                               ELSE (r.base_computer + k) % Word,
             base_reu |-> IF fixRec THEN r.base_reu ELSE reuEnd % Word,
             bank_reu |-> IF fixRec THEN r.bank_reu
                          ELSE (reuEnd \div Word) % BankRange,
             transfer_length |-> IF rest = 0 THEN 1 ELSE rest]

\* Every transfer leaves the registers the reference gives, with the status
\* bits ORed in, the interrupt raised exactly when enabled for them, and
\* EXECUTE cleared; a VERIFY compares the bytes up to its first difference,
\* and the last byte after a difference at the next-to-last.  This is what
\* the four loops of reu_dma_start, the wrap of
\* increment_reu_with_wrap_around and reu_dma_update_regs must produce.
EndMatchesReference ==
    [][dma.active /\ ~dma'.active =>
         LET exp == RefRegs(rec, cmp')
             mask == RefMask(rec, cmp')
             done == RefDone(rec, cmp')
         IN /\ rec.command.type = 3 =>
                 Len(cmp') = done + (IF RefLen(rec) - done = 1 THEN 1 ELSE 0)
            /\ \A f \in DOMAIN exp : rec'[f] = exp[f]
            /\ rec'.status \ {"intp"} = (rec.status \ {"intp"}) \cup mask
            /\ ("intp" \in rec'.status <=>
                  \/ "intp" \in rec.status
                  \/ "eob" \in mask /\ {"ints", "eob"} \subseteq rec.int_mask_reg
                  \/ "verr" \in mask /\ {"ints", "verify"} \subseteq rec.int_mask_reg)
            /\ rec'.command.bits = (rec.command.bits \ {"exec"}) \cup {"ff00dis"}
    ]_vars

\* The command register's EXECUTE bit "specifies the operation should
\* start" (reu.c): a transfer is requested only while the command register
\* holds EXECUTE, whether by a command write or by $FF00 through reu_dma.
DmaStartsOnlyWithExecute ==
    [][~cpuBa /\ cpuBa' => "exec" \in rec'.command.bits]_vars
=============================================================================
