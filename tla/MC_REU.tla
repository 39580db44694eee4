------------------------------- MODULE MC_REU -------------------------------
(***************************************************************************)
(* A scaled REC for TLC.  A register byte has one bit, so a 16-bit        *)
(* register holds 0..3 and a transfer moves 1 to 4 bytes.  The bank       *)
(* register has three bits: one the REC counts in (the three bank bits of *)
(* a 512k REU), so the REC counts in 8 addresses (0x80000), and two bits   *)
(* above it: unused up to 512k (0xf8), a latch outside the REC above.      *)
(***************************************************************************)
EXTENDS REU

\* set_reu_size: up to 512k the unused bank bits read as 1 and the stored
\* address wraps at 512k; above, the bank bits are a latch and the stored
\* address wraps at the RAM size.
Rec512k == [reg_bank_unused |-> 6, wrap_around |-> 8,
            wrap_around_mask_when_storing |-> 7]

Rec2048k == [reg_bank_unused |-> 0, wrap_around |-> 8,
             wrap_around_mask_when_storing |-> 31]

Set512k == {Rec512k}

SetBoth == {Rec512k, Rec2048k}

\* Command writes: every transfer type started at once, or armed for $FF00,
\* with and without autoload; and a write without EXECUTE.
Cmd(t, b) == [type |-> t, bits |-> b]

AllCommands ==
    {Cmd(t, b) : t \in TransferTypes,
                 b \in {{"exec", "ff00dis"}, {"exec", "load", "ff00dis"}}}
    \cup {Cmd(0, {"exec"}), Cmd(2, {"load"})}

TriggerCommands ==
    {Cmd(1, {"exec"}), Cmd(1, {"exec", "ff00dis"}), Cmd(1, {})}

VerifyCommands == {Cmd(3, {"exec", "ff00dis"}), Cmd(3, {"exec", "load", "ff00dis"})}
=============================================================================
