------------------------------ MODULE Autostart ------------------------------
(***************************************************************************)
(* The autostart state machine of autostart.c: autostart_autodetect and   *)
(* the attempts it makes (disk, tape, tapecart, snapshot, cartridge,      *)
(* program file), the drive settings it saves, changes and restores       *)
(* through the resources registry, warp mode, the reset hook, the bus     *)
(* callbacks and autostart_advance, called once per frame, which reads    *)
(* the screen.                                                             *)
(*                                                                         *)
(* A screen check (check/check2) is an input YES, NO or NOT_YET; the      *)
(* program counter check_rom_area looks at is "rom" (>= $e000), "ram" or  *)
(* "other".  Outcomes of file and device operations outside src/          *)
(* (attaching images, injecting a program) are inputs.  Typed text (the   *)
(* keyboard buffer) and names are output and left out.                    *)
(***************************************************************************)
EXTENDS Resources

CONSTANTS
    TrapsRes,       \* "VirtualDevice8"
    Traps0Res,      \* "VirtualDevice0", a name nothing registers
    TdeRes,         \* "Drive8TrueEmulation"
    IecRes,         \* "IECDevice8"
    LongNamesRes,   \* "FSDeviceLongNames"
    WarpRes,        \* "AutostartWarp"
    MachineClass,   \* "c64" or "vic20"
    PrgMode         \* AutostartPrgMode: "vfs", "inject" or "disk"

NoOrig == [tde |-> -1, traps |-> -1, iec |-> -1, warp |-> -1, longnames |-> -1]

VARIABLES
    autostart,      \* the static state of autostart.c, as a record
    warp_mode,      \* vsync warp mode
    retro_warpmode, \* the frontend holds warp (libretro)
    start           \* history: settings when the current autostart began

asVars == <<autostart, warp_mode, retro_warpmode, start>>

InProgress(a) == a.mode \notin {"NONE", "DONE"}   \* autostart_in_progress

(* A step works on the state S = [r: the registry part, a: autostart, w:  *)
(* warp mode] with these helpers.                                          *)
Get(S, n) == S.r.value[n]
Set(S, n, v) == [S EXCEPT !.r = resources_set_int(@, n, v)]

get_true_drive_emulation_state(S) == Get(S, TdeRes)
get_device_traps_state(S) == Get(S, TrapsRes)
get_iec_device_state(S) == IF MachineClass = "c64" THEN Get(S, IecRes) ELSE 0
set_iec_device_state(S, on) ==
    IF MachineClass = "c64" THEN Set(S, IecRes, on) ELSE S

(* enable_warp_if_requested / disable_warp_if_was_requested                *)
enable_warp_if_requested(S) ==
    IF Get(S, WarpRes) # 0
    THEN [S EXCEPT !.a.orig.warp = S.w, !.w = IF S.w = 0 THEN 1 ELSE @]
    ELSE S

disable_warp_if_was_requested(S) ==
    IF Get(S, WarpRes) # 0 /\ S.a.orig.warp = 0 THEN [S EXCEPT !.w = 0] ELSE S

(* init_drive_emulation_state: save each setting not saved yet.            *)
init_drive_emulation_state(S) ==
    LET o == S.a.orig
        keep(x, v) == IF x = -1 THEN v ELSE x
    IN [S EXCEPT !.a.orig =
           [tde |-> keep(o.tde, get_true_drive_emulation_state(S)),
            traps |-> keep(o.traps, get_device_traps_state(S)),
            iec |-> keep(o.iec, get_iec_device_state(S)),
            warp |-> keep(o.warp, S.w),
            longnames |-> keep(o.longnames, Get(S, LongNamesRes))]]

(* restore_drive_emulation_state: put back each saved setting that        *)
(* differs, warp only when the frontend does not hold it, then forget the *)
(* saved values.                                                           *)
(* Fault model: orig_FSDeviceLongNames is not reset after the restore.   *)
RestoreKeepLongNames(S) ==
    LET o == S.a.orig
        s1 == IF o.traps # -1 /\ get_device_traps_state(S) # o.traps
              THEN Set(S, TrapsRes, o.traps) ELSE S
        s2 == IF o.iec # -1 /\ get_iec_device_state(s1) # o.iec
              THEN set_iec_device_state(s1, o.iec) ELSE s1
        s3 == IF o.tde # -1 /\ get_true_drive_emulation_state(s2) # o.tde
              THEN Set(s2, TdeRes, o.tde) ELSE s2
        s4 == IF o.warp # -1 /\ s3.w # o.warp /\ ~retro_warpmode
              THEN [s3 EXCEPT !.w = o.warp] ELSE s3
        s5 == IF o.longnames # -1 THEN Set(s4, LongNamesRes, o.longnames)
              ELSE s4
    IN [s5 EXCEPT !.a.orig = [NoOrig EXCEPT !.longnames = o.longnames],
                  !.a.type = "none"]

(* restore_drive_emulation_state                                           *)
restore_drive_emulation_state(S) ==
    LET o == S.a.orig
        s1 == IF o.traps # -1 /\ get_device_traps_state(S) # o.traps
              THEN Set(S, TrapsRes, o.traps) ELSE S
        s2 == IF o.iec # -1 /\ get_iec_device_state(s1) # o.iec
              THEN set_iec_device_state(s1, o.iec) ELSE s1
        s3 == IF o.tde # -1 /\ get_true_drive_emulation_state(s2) # o.tde
              THEN Set(s2, TdeRes, o.tde) ELSE s2
        s4 == IF o.warp # -1 /\ s3.w # o.warp /\ ~retro_warpmode
              THEN [s3 EXCEPT !.w = o.warp] ELSE s3
        s5 == IF o.longnames # -1 THEN Set(s4, LongNamesRes, o.longnames)
              ELSE s4
    IN [s5 EXCEPT !.a.orig = NoOrig, !.a.type = "none"]

autostart_disable(S) == [S EXCEPT !.a.mode = "ERROR"]

autostart_done(S) ==
    [restore_drive_emulation_state(S) EXCEPT !.a.mode = "DONE"]

(* check_rom_area: after the PC was in the KERNAL, a PC in RAM ends the   *)
(* autostart.                                                              *)
check_rom_area(S, pc) ==
    IF ~S.a.entered_rom
    THEN IF pc = "rom" THEN [S EXCEPT !.a.entered_rom = TRUE] ELSE S
    ELSE IF pc = "ram" THEN autostart_done(disable_warp_if_was_requested(S))
    ELSE S

(* disk_eof_callback (autostart_finish only types the run command).       *)
disk_eof_callback(S) ==
    disable_warp_if_was_requested([autostart_done(S) EXCEPT !.a.eof = FALSE])

disk_attention_callback(S) ==
    [S EXCEPT !.a.attention = FALSE, !.a.eof = TRUE]

(* setup_for_disk: without TDE handling, traps follow the saved TDE state. *)
setup_for_disk(S) ==
    LET o == S.a.orig IN
    IF S.a.handle_tde THEN S
    ELSE IF o.tde # 0 THEN IF o.traps # 0 THEN Set(S, TrapsRes, 0) ELSE S
    ELSE IF o.traps = 0 THEN Set(S, TrapsRes, 1) ELSE S

(* setup_for_disk_ready, at READY.  The traps are switched off through    *)
(* set_device_traps_state(0, unit): the name it builds is VirtualDevice0. *)
setup_for_disk_ready(S) ==
    LET o == S.a.orig
        s1 == Set(S, TdeRes, 0)
        s2 == IF o.tde = 0 THEN Set(S, TdeRes, 1) ELSE S
    IN IF ~S.a.handle_tde THEN S
       ELSE IF o.traps # 0 \/ o.iec # 0
       THEN IF o.traps # 0 /\ o.iec # 0 THEN Set(s1, Traps0Res, 1) ELSE s1
       ELSE IF get_true_drive_emulation_state(s2) = 0
            THEN Set(s2, TrapsRes, 1) ELSE s2

(* setup_for_prg_vfs                                                       *)
setup_for_prg_vfs(S) ==
    LET o == S.a.orig
        s1 == IF S.a.handle_tde /\ o.tde # 0 THEN Set(S, TdeRes, 0) ELSE S
        s2 == IF o.traps = 0 THEN Set(s1, TrapsRes, 1) ELSE s1
    IN Set(s2, LongNamesRes, 0)

(* reboot_for_autostart: the reset it triggers is MachineReset.           *)
reboot_for_autostart(S, mode) ==
    LET s1 == [S EXCEPT !.a.ignore_reset = TRUE, !.a.mode = mode,
                        !.a.wait_for_reset = TRUE]
    IN IF mode # "HASSNAPSHOT" THEN enable_warp_if_requested(s1) ELSE s1

(* After a saved TDE state, TDE is switched back on (autostart_disk and    *)
(* the disk branch of autostart_prg).                                      *)
RestoreTde(S) ==
    IF S.a.orig.tde # 0 /\ get_true_drive_emulation_state(S) = 0
    THEN Set(S, TdeRes, 1) ELSE S

(* autostart_disk: attached says the image attaches (both times).  After  *)
(* a successful attach file_system_get_image (attach.c, not in this        *)
(* repository) is taken to return the attached image, so the diskimg ==   *)
(* NULL branch, which skips the reattach and the TDE restore, is not       *)
(* modelled.                                                               *)
autostart_disk(S, attached) ==
    LET s0 == init_drive_emulation_state(S) IN
    IF ~attached THEN autostart_disable(s0)
    ELSE reboot_for_autostart(
            setup_for_disk([RestoreTde(s0) EXCEPT !.a.type = "disk"]),
            "HASDISK")

(* autostart_tape                                                          *)
autostart_tape(S, attached) ==
    LET s0 == init_drive_emulation_state(S) IN
    IF attached THEN reboot_for_autostart(s0, "HASTAPE")
    ELSE autostart_disable(s0)

(* autostart_tapecart, for a valid .tcrt file                              *)
autostart_tapecart(S, attached) ==
    LET s0 == init_drive_emulation_state(S) IN
    IF attached THEN reboot_for_autostart(s0, "HASTAPE") ELSE s0

(* autostart_snapshot                                                      *)
autostart_snapshot(S, opened) ==
    IF opened THEN reboot_for_autostart(S, "HASSNAPSHOT")
    ELSE autostart_disable(S)

(* autostart_prg, the file opened: result says the mode's loader worked.   *)
autostart_prg(S, result) ==
    LET s0 == init_drive_emulation_state(S) IN
    CASE PrgMode = "vfs" ->
            LET s1 == [setup_for_prg_vfs(s0) EXCEPT !.a.type = "prg_vfs"] IN
            IF result THEN reboot_for_autostart(s1, "HASDISK") ELSE s1
      [] PrgMode = "inject" ->
            LET s1 == [s0 EXCEPT !.a.type = "prg_inject"] IN
            IF result THEN reboot_for_autostart(s1, "INJECT") ELSE s1
      [] PrgMode = "disk" ->
            LET s1 == [RestoreTde(setup_for_disk(s0)) EXCEPT
                          !.a.type = "prg_disk"] IN
            IF result THEN reboot_for_autostart(s1, "HASDISK") ELSE s1

(* autostart_autodetect for an existing file of one kind ("none": a file *)
(* that cannot be opened): each attempt of another kind fails; ok says the *)
(* attempt of the file's kind succeeds.  The tapecart is tried on the C64  *)
(* only, a snapshot only for a .vsf name.  When no attempt succeeded,      *)
(* autostart_prg opens any existing file raw, and prg is its loader's      *)
(* result.  autostart_enabled is set by autostart_init with the machine's  *)
(* non-zero delay, so its checks always pass.                              *)
autostart_autodetect(S, kind, ok, prg) ==
    LET s0 == init_drive_emulation_state(S)
        d == autostart_disk(s0, kind = "disk" /\ ok)
        t == autostart_tape(d, kind = "tape" /\ ok)
        c == IF kind = "tapecart" /\ MachineClass = "c64"
             THEN autostart_tapecart(t, ok) ELSE t
        v == IF kind = "snapshot" THEN autostart_snapshot(c, ok) ELSE c
    IN CASE kind = "disk" /\ ok -> d
         [] kind = "tape" /\ ok -> t
         [] kind = "tapecart" /\ ok /\ MachineClass = "c64" -> c
         [] kind \in {"snapshot", "cart"} /\ ok -> v
         [] kind = "none" -> v
         [] OTHER -> autostart_prg(v, prg)

(* The loader results autostart_prg can have for a file of this kind: a   *)
(* program file's is ok; a file whose own attempt failed is loaded raw.   *)
PrgResults(kind, ok) == IF kind = "prg" THEN {ok}
                        ELSE IF ok \/ kind = "none" THEN {FALSE} ELSE BOOLEAN

-----------------------------------------------------------------------------
(* The advance_* helpers for screen check c and program counter pc.  A NO *)
(* turns warp off (if autostart turned it on) and disables the autostart. *)
Fail(S) == autostart_disable(disable_warp_if_was_requested(S))

Mode(S, m) == [S EXCEPT !.a.mode = m]

advance_hastape(S, c) ==
    CASE c = "YES" -> [Mode(S, "PRESSPLAYONTAPE") EXCEPT !.a.entered_rom = FALSE]
      [] c = "NO" -> Fail(S)
      [] OTHER -> S

advance_pressplayontape(S, c) ==
    CASE c = "YES" -> Mode(S, "LOADINGTAPE")
      [] c = "NO" -> Fail(S)
      [] OTHER -> S

(* advance_loadingtape, advance_waitloadready: READY ends the autostart.  *)
advance_loadingtape(S, c, pc) ==
    CASE c = "YES" -> autostart_done(disable_warp_if_was_requested(S))
      [] c = "NO" -> Fail(S)
      [] OTHER -> check_rom_area(S, pc)

(* advance_hasdisk.  On NO the saved drive settings are overwritten with  *)
(* the current ones before the autostart is disabled.                      *)
advance_hasdisk(S, c, pc) ==
    CASE c = "YES" ->
            LET s1 == setup_for_disk_ready(S) IN
            [Mode(s1, "WAITSEARCHINGFOR") EXCEPT
                !.a.attention = IF get_true_drive_emulation_state(s1) = 0
                                   /\ s1.a.type # "prg_vfs"
                                THEN TRUE ELSE @]
      [] c = "NO" ->
            Fail([S EXCEPT !.a.orig.tde = get_true_drive_emulation_state(S),
                           !.a.orig.traps = get_device_traps_state(S),
                           !.a.orig.iec = get_iec_device_state(S)])
      [] OTHER -> check_rom_area(S, pc)

advance_hassnapshot(S, c) ==
    CASE c = "YES" -> autostart_done(S)
      [] c = "NO" -> autostart_disable(S)
      [] OTHER -> S

advance_waitsearchingfor(S, c, pc) ==
    CASE c = "YES" -> Mode(S, "WAITLOADING")
      [] c = "NO" -> Fail(S)
      [] OTHER -> check_rom_area(S, pc)

advance_waitloading(S, c, pc) ==
    CASE c = "YES" -> [Mode(S, "WAITLOADREADY") EXCEPT !.a.entered_rom = FALSE]
      [] c = "NO" -> Fail(S)
      [] OTHER -> check_rom_area(S, pc)

advance_waitloadready(S, c, pc) == advance_loadingtape(S, c, pc)

advance_inject(S, ok) == IF ok THEN Mode(S, "WAITLOADREADY") ELSE Fail(S)

(* The switch of autostart_advance over the mode.                        *)
autostart_advance_modes(S, c, pc, ok) ==
    LET m == S.a.mode IN
    CASE m = "HASTAPE" -> advance_hastape(S, c)
      [] m = "PRESSPLAYONTAPE" -> advance_pressplayontape(S, c)
      [] m = "LOADINGTAPE" -> advance_loadingtape(S, c, pc)
      [] m = "WAITLOADREADY" -> advance_waitloadready(S, c, pc)
      [] m = "HASSNAPSHOT" -> advance_hassnapshot(S, c)
      [] m = "HASDISK" -> advance_hasdisk(S, c, pc)
      [] m = "WAITSEARCHINGFOR" -> advance_waitsearchingfor(S, c, pc)
      [] m = "WAITLOADING" -> advance_waitloading(S, c, pc)
      [] m = "INJECT" -> advance_inject(S, ok)
      [] m = "ERROR" -> Mode(restore_drive_emulation_state(S), "DONE")
      [] OTHER -> S

(* Fault model: the wait for the reset is tested before the initial       *)
(* delay, so nothing clears it.                                            *)
AdvanceWaitFirst(S, c, pc, ok) ==
    IF S.a.wait_for_reset THEN S
    ELSE IF S.a.before_delay THEN [S EXCEPT !.a.wait_for_reset = FALSE]
    ELSE autostart_advance_modes(S, c, pc, ok)

(* autostart_advance, once per frame.                                      *)
autostart_advance(S, c, pc, ok) ==
    IF S.a.before_delay THEN [S EXCEPT !.a.wait_for_reset = FALSE]
    ELSE IF S.a.wait_for_reset THEN S
    ELSE autostart_advance_modes(S, c, pc, ok)

(* autostart_reset, called by the machine's reset.                         *)
autostart_reset(S) ==
    LET m == S.a.mode
        s1 == IF m # "DONE" THEN disk_eof_callback(Mode(S, "NONE")) ELSE S
    IN IF ~S.a.ignore_reset /\ m \notin {"NONE", "ERROR"}
       THEN [s1 EXCEPT !.a.mode = "NONE", !.a.ignore_reset = FALSE]
       ELSE [S EXCEPT !.a.ignore_reset = FALSE]

-----------------------------------------------------------------------------
Sys == [r |-> Cur, a |-> autostart, w |-> warp_mode]

(* The settings an autostart saves and must put back.                      *)
Settings(S) == [traps |-> get_device_traps_state(S),
                tde |-> get_true_drive_emulation_state(S),
                iec |-> get_iec_device_state(S),
                longnames |-> Get(S, LongNamesRes),
                warp |-> S.w]

(* A step of autostart.c with effect S.                                    *)
AsStep(S) ==
    /\ value' = S.r.value
    /\ notified' = S.r.notified
    /\ events' = S.r.events
    /\ autostart' = S.a
    /\ warp_mode' = S.w
    /\ UNCHANGED <<order, hashTable, hashNext, factory, callbacks, net, file,
                   saved, disabled_resources_num, retro_warpmode>>

AsInit ==
    /\ autostart \in [mode: {"NONE"}, orig: {NoOrig}, wait_for_reset: {FALSE},
                      entered_rom: {FALSE}, ignore_reset: {FALSE}, type: {"none"},
                      attention: {FALSE}, eof: {FALSE}, before_delay: {FALSE},
                      handle_tde: BOOLEAN]
    /\ warp_mode = 0
    /\ retro_warpmode = FALSE
    /\ start = Settings([r |-> Cur, a |-> autostart, w |-> warp_mode])

(* autostart_autodetect, refused while netplay is connected; an autostart *)
(* that begins records the settings it must restore.                       *)
Autodetect(kind, ok) ==
    /\ net # "connected"
    /\ calls < MaxCalls
    /\ calls' = calls + 1
    /\ start' = IF InProgress(autostart) THEN start ELSE Settings(Sys)
    /\ \E prg \in PrgResults(kind, ok) :
          AsStep(autostart_autodetect(Sys, kind, ok, prg))

(* autostart_advance for the frame's inputs: the screen check, the        *)
(* program counter's area and the injection's result.  It runs in the     *)
(* frame's vsync hook, so never while the reset reboot_for_autostart       *)
(* triggered is still pending: the CPU takes that reset first.             *)
AdvanceWith(c, pc, ok) ==
    /\ ~autostart.ignore_reset
    /\ AsStep(autostart_advance(Sys, c, pc, ok))
    /\ UNCHANGED <<calls, start>>

(* Each input is offered only in the modes that read it.                  *)
Advance ==
    LET m == autostart.mode
        screens == IF m \in {"NONE", "DONE", "ERROR", "INJECT"}
                   THEN {"NOT_YET"} ELSE {"YES", "NO", "NOT_YET"}
        pcs == IF m \in {"LOADINGTAPE", "WAITLOADREADY", "HASDISK",
                         "WAITSEARCHINGFOR", "WAITLOADING"}
               THEN {"rom", "ram", "other"} ELSE {"other"}
        oks == IF m = "INJECT" THEN BOOLEAN ELSE {TRUE}
    IN \E c \in screens, pc \in pcs, ok \in oks : AdvanceWith(c, pc, ok)

(* A machine reset calls autostart_reset and starts the clock below the  *)
(* initial delay.  While ignore_reset is set it is the reset               *)
(* reboot_for_autostart triggered; any other is the user's, a call.        *)
MachineResetAs ==
    /\ autostart.ignore_reset \/ calls < MaxCalls
    /\ AsStep([autostart_reset(Sys) EXCEPT !.a.before_delay = TRUE])
    /\ calls' = IF autostart.ignore_reset THEN calls ELSE calls + 1
    /\ UNCHANGED start

(* maincpu_clk reaches autostart_initial_delay_cycles.  The delay is at  *)
(* least a second (AutostartDelay 0 means the machine's default, which is *)
(* non-zero while autostart is enabled), so the frames before it have run  *)
(* autostart_advance, which cleared autostart_wait_for_reset.              *)
DelayElapses ==
    /\ autostart.before_delay
    /\ ~autostart.wait_for_reset
    /\ ~autostart.ignore_reset
    /\ autostart' = [autostart EXCEPT !.before_delay = FALSE]
    /\ UNCHANGED <<resVars, warp_mode, retro_warpmode, start>>

(* The serial bus calls the callbacks autostart registered.                *)
AttentionTrap ==
    /\ autostart.attention
    /\ AsStep(disk_attention_callback(Sys))
    /\ UNCHANGED <<calls, start>>

EofTrap ==
    /\ autostart.eof
    /\ AsStep(disk_eof_callback(Sys))
    /\ UNCHANGED <<calls, start>>

(* The frontend holds or releases warp.                                    *)
FrontendWarp ==
    /\ calls < MaxCalls
    /\ \E on \in {0, 1} : retro_warpmode' = (on = 1) /\ warp_mode' = on
    /\ calls' = calls + 1
    /\ UNCHANGED <<order, hashTable, hashNext, value, factory, callbacks, net,
                   events, notified, file, saved, disabled_resources_num,
                   autostart, start>>

(* The registry's calls and the autostart steps, for a machine without    *)
(* cartridge hooks.                                                        *)
AsNext ==
    \/ ResNext /\ UNCHANGED asVars
    \/ \E kind \in {"disk", "tape", "tapecart", "snapshot", "cart", "prg", "none"},
          ok \in BOOLEAN : Autodetect(kind, ok)
    \/ MachineResetAs \/ Advance \/ DelayElapses \/ AttentionTrap \/ EofTrap
    \/ FrontendWarp

(* The reset reboot_for_autostart triggered with machine_trigger_reset.    *)
TriggeredReset == autostart.ignore_reset /\ MachineResetAs

(* A frame whose screen (or program counter, or injection) autostart acts *)
(* on: it leaves the mode it waited in.                                    *)
AdvanceMoves == Advance /\ autostart'.mode # autostart.mode

(* The machine keeps running: a triggered reset is taken, the clock passes *)
(* the start delay, the vsync hook calls autostart_advance every frame,    *)
(* and the emulated KERNAL eventually prints what autostart waits for (or  *)
(* something else).  The user's calls and resets are not fair.            *)
AsFairness ==
    /\ WF_<<resVars, asVars>>(TriggeredReset)
    /\ WF_<<resVars, asVars>>(DelayElapses)
    /\ WF_<<resVars, asVars>>(Advance)
    /\ WF_<<resVars, asVars>>(AdvanceMoves)

(* The registry and autostart.c as the emulator starts them. *)
AsSystemInit == ResInit /\ AsInit

AsSpec == AsSystemInit /\ [][AsNext]_<<resVars, asVars>> /\ AsFairness

-----------------------------------------------------------------------------
AsTypeOK ==
    /\ autostart.mode \in {"NONE", "ERROR", "HASTAPE", "PRESSPLAYONTAPE",
                            "LOADINGTAPE", "HASDISK", "LOADINGDISK",
                            "HASSNAPSHOT", "WAITLOADREADY", "WAITLOADING",
                            "WAITSEARCHINGFOR", "INJECT", "DONE"}
    /\ warp_mode \in {0, 1}
    /\ start \in [traps: Values, tde: Values, iec: Values \cup {0},
                   longnames: Values, warp: {0, 1}]

(* No autostart in progress holds saved settings: restore forgets them on *)
(* every path that ends one, so the next autostart saves fresh values.    *)
IdleMeansNoOriginals == ~InProgress(autostart) => autostart.orig = NoOrig

(* When an autostart ends, the settings it changed are back at their      *)
(* values from when it began (restore_drive_emulation_state: "restore the *)
(* state of all settings we changed during autostart").  Warp is exempt   *)
(* while the frontend holds it.                                            *)
SettingsRestored ==
    [][InProgress(autostart) /\ ~InProgress(autostart') =>
         LET now == Settings([r |-> Cur, a |-> autostart, w |-> warp_mode])'
         IN /\ now.traps = start.traps /\ now.tde = start.tde
            /\ now.iec = start.iec /\ now.longnames = start.longnames
            /\ (retro_warpmode' \/ now.warp = start.warp)]_<<resVars, asVars>>

(* Every autostart ends: whatever the user does in between (further       *)
(* autostarts, resets, settings changes), the reset/delay/wait_for_reset   *)
(* handshake of reboot_for_autostart and autostart_advance lets the mode   *)
(* reach DONE or NONE.                                                     *)
AutostartEnds == InProgress(autostart) ~> ~InProgress(autostart)

(* setup_for_disk_ready with TDE handling: "if both traps and iec device  *)
(* is enabled, disable traps" once the machine is at READY.                *)
TrapsOffForIecDevice ==
    [][/\ autostart.mode = "HASDISK" /\ autostart'.mode = "WAITSEARCHINGFOR"
       /\ autostart.handle_tde
       /\ autostart.orig.traps # 0 /\ autostart.orig.iec # 0
       => value'[TrapsRes] = 0]_<<resVars, asVars>>
=============================================================================
