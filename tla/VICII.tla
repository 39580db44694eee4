------------------------------- MODULE VICII -------------------------------
(***************************************************************************)
(* The cycle-exact VIC-II engine of src/vice/src/viciisc/vicii-cycle.c.     *)
(*                                                                         *)
(* The chip state is one record variable, vicii, like the C global of the  *)
(* same name.  Every static helper of vicii-cycle.c is an operator from    *)
(* chip state to chip state, and Cycle (vicii_cycle) composes them in the  *)
(* order the C function calls them, so one TLA+ step is one clock tick.    *)
(* Between two ticks the CPU may make one access to the chip's registers   *)
(* (the Store/Read actions) and the light-pen input may change.            *)
(*                                                                         *)
(* The cycle descriptor table (vicii-chip-model.c, not part of the         *)
(* sources) is the constant CycleTable; the fetch routines of              *)
(* vicii-fetch.c, the register handlers of vicii-mem.c and the IRQ and     *)
(* light-pen helpers are modelled from the specification, by their effect  *)
(* on the counters only: fetched bytes, pixels and log output are data     *)
(* the properties do not tell apart.                                       *)
(***************************************************************************)
EXTENDS Integers, FiniteSets

CONSTANTS
  CyclesPerLine,     \* vicii.cycles_per_line
  ScreenHeight,      \* vicii.screen_height
  FirstDmaLine,      \* VICII_FIRST_DMA_LINE
  LastDmaLine,       \* VICII_LAST_DMA_LINE
  Row25Start, Row24Start, Row25Stop, Row24Stop,  \* VICII_2xROW_START/STOP_LINE
  Sprites,           \* sprite channels modelled (a subset of 0..7)
  SpriteMcEnd,       \* the mcbase value that ends sprite DMA (63 in the code)
  CycleTable,        \* vicii.cycle_table: raster_cycle -> descriptor
  VspFirstCycle,     \* VICII_PAL_CYCLE(16): first cycle of the VSP window
  VspEndCycle,       \* VICII_PAL_CYCLE(55): first cycle after the window
  \* inputs the CPU and the outside world can give, kept small per run
  D011Values,        \* values written to $d011: [den, rsel, ysmooth]
  D016Values,        \* CSEL values written to $d016
  D012Values,        \* raster compare values written to $d012
  D015Values,        \* sprite enable masks written to $d015
  SpriteYValues,     \* sprite Y values written to $d001, $d003, ...
  InitYExp,          \* possible $d017 contents (fixed during a run)
  DrawCollisions,    \* <<sprite-sprite, sprite-background>> reported by draw
  LightPenDelays,    \* clock offsets a light-pen trigger can be scheduled at
  LightPenLevels,    \* levels the light-pen input is driven to
  EventsPerFrame     \* bound: CPU accesses and light-pen changes per frame

\* The two fixed cycles of vicii_cycle: VICII_PAL_CYCLE(1) and (2).
EolCycle == 0
SofCycle == 1

Cycles == 0 .. CyclesPerLine - 1
Lines  == 0 .. ScreenHeight - 1
Flags  == {"fetch_g", "sprite_ptr_dma0", "sprite_dma1_dma2", "refresh",
           "fetch_ba", "fetch_c", "update_vc", "update_rc", "update_mcbase",
           "check_spr_dma", "check_spr_exp", "check_spr_disp",
           "border_l0", "border_l1", "border_r0", "border_r1"}
NoSprite == -1
Descriptor == [flags : SUBSET Flags, spr : Sprites \cup {NoSprite},
               sprba : SUBSET Sprites]

ASSUME /\ CyclesPerLine > SofCycle /\ ScreenHeight > 1
       /\ 0 <= FirstDmaLine /\ FirstDmaLine <= LastDmaLine
       /\ LastDmaLine < ScreenHeight
       /\ Sprites \subseteq 0 .. 7
       /\ SpriteMcEnd \in 1 .. 63 /\ SpriteMcEnd % 3 = 0
       /\ CycleTable \in [Cycles -> Descriptor]
       /\ VspFirstCycle \in Cycles /\ VspEndCycle \in Cycles

IrqSources == {"raster", "sscoll", "sbcoll", "lightpen"}
NoTrigger == -1                   \* light_pen.trigger_cycle already passed
CpuAccesses == {"none", "d011", "d012", "d015", "d016", "d019", "spry",
                "d01e", "d01f"}

VARIABLES
  vicii,       \* the chip state (struct vicii_s)
  cpu,         \* the CPU access made since the last tick ("none" if none)
  clk,         \* ticks since the start, modulo one frame (history)
  frame,       \* per-frame history: raster IRQs, $d012 written, DEN seen,
               \* outside events so far
  dispLines,   \* RC updates in display state since the last bad line
  dmaLines,    \* per sprite: line starts since its DMA was turned on
  collIrqs     \* sprite-sprite collision IRQ edges since the last $d01e read

vars == <<vicii, cpu, clk, frame, dispLines, dmaLines, collIrqs>>

FrameLen == CyclesPerLine * ScreenHeight
\* dmaLines saturates one line past the longest (Y-expanded) DMA.
DmaLinesCap == 2 * (SpriteMcEnd \div 3) + 1

-----------------------------------------------------------------------------
(* Fetch routines (vicii-fetch.c), by their effect on the counters.        *)

\* vicii_fetch_graphics: a g-access advances the video counter (10 bits).
vicii_fetch_graphics(v) == [v EXCEPT !.vc = (@ + 1) % 1024]

\* vicii_fetch_refresh: a refresh access steps the 8-bit refresh counter.
vicii_fetch_refresh(v) == [v EXCEPT !.refresh_counter = (@ + 255) % 256]

\* A sprite data access advances the sprite's mc (6 bits) when under DMA.
SpriteDataFetch(v, s) ==
  IF s \in v.sprite_dma THEN [v EXCEPT !.mc[s] = (@ + 1) % 64] ELSE v

\* vicii_fetch_sprites: the phi2 half of a sprite access (dma0 or dma2).
vicii_fetch_sprites(v, d) ==
  IF d.flags \cap {"sprite_ptr_dma0", "sprite_dma1_dma2"} # {}
  THEN SpriteDataFetch(v, d.spr) ELSE v

\* vicii_check_sprite_ba: BA is low for a sprite whose window covers the cycle.
\* Fault model: sprite BA also requires the sprite's enable bit.
SpriteBaNeedsEnable(v, d) == d.sprba \cap v.sprite_dma \cap v.spr_en # {}

vicii_check_sprite_ba(v, d) == d.sprba \cap v.sprite_dma # {}

\* vicii_trigger_light_pen_internal: latches at most once per frame.
\* Fault model: the trigger does not consult the per-frame latch.
LightPenNoLatch(v) == [v EXCEPT !.lp_triggered = TRUE, !.irq = @ \cup {"lightpen"}]

vicii_trigger_light_pen_internal(v) ==
  IF v.lp_triggered THEN v
  ELSE [v EXCEPT !.lp_triggered = TRUE, !.irq = @ \cup {"lightpen"}]

-----------------------------------------------------------------------------
(* The static helpers of vicii-cycle.c.                                    *)

check_badline(v) ==
  IF v.raster_line % 8 = v.ysmooth
  THEN [v EXCEPT !.bad_line = TRUE, !.idle_state = FALSE]
  ELSE [v EXCEPT !.bad_line = FALSE]

YMatch(v, s) == s \in v.spr_en /\ v.spr_y[s] = v.raster_line % 256

check_sprite_display(v) ==
  [v EXCEPT !.mc = v.mcbase,
            !.sprite_display_bits =
               {s \in v.sprite_dma : s \in v.sprite_display_bits \/ YMatch(v, s)}]

\* Fault model: the end of DMA is tested on the flip-flop's other phase.
McbaseUpdateWrongPhase(v) ==
  LET mcbase == [s \in Sprites |-> IF s \in v.exp_flop THEN v.mc[s]
                                                       ELSE v.mcbase[s]]
  IN [v EXCEPT !.mcbase = mcbase,
               !.sprite_dma = @ \ {s \in Sprites \ v.exp_flop :
                                      mcbase[s] = SpriteMcEnd}]

\* Fault model: the take-over tests the $d017 bit instead of the flip-flop,
\* so an expanded sprite's mcbase never advances.
McbaseUpdateByYexp(v) ==
  LET mcbase == [s \in Sprites |-> IF s \notin v.spr_yexp THEN v.mc[s]
                                                         ELSE v.mcbase[s]]
  IN [v EXCEPT !.mcbase = mcbase,
               !.sprite_dma = @ \ {s \in Sprites \ v.spr_yexp :
                                      mcbase[s] = SpriteMcEnd}]

sprite_mcbase_update(v) ==
  LET mcbase == [s \in Sprites |-> IF s \in v.exp_flop THEN v.mc[s]
                                                       ELSE v.mcbase[s]]
  IN [v EXCEPT !.mcbase = mcbase,
               !.sprite_dma = @ \ {s \in v.exp_flop : mcbase[s] = SpriteMcEnd}]

check_exp(v) ==
  LET flip == v.sprite_dma \cap v.spr_yexp
  IN [v EXCEPT !.exp_flop = (@ \ flip) \cup (flip \ @)]

check_sprite_dma(v) ==
  LET on == {s \in Sprites : YMatch(v, s) /\ s \notin v.sprite_dma}
  IN [v EXCEPT !.sprite_dma = @ \cup on,                 \* turn_sprite_dma_on
               !.mcbase = [s \in Sprites |-> IF s \in on THEN 0 ELSE @[s]],
               !.exp_flop = @ \cup on]

cycle_phi1_fetch(v, d) ==
  CASE "fetch_g" \in d.flags ->
         IF ~v.idle_state THEN vicii_fetch_graphics(v) ELSE v
    [] "sprite_ptr_dma0" \in d.flags -> v
    [] "sprite_dma1_dma2" \in d.flags -> SpriteDataFetch(v, d.spr)
    [] "refresh" \in d.flags -> vicii_fetch_refresh(v)
    [] OTHER -> v

TopLine(v)    == IF v.rsel THEN Row25Start ELSE Row24Start
BottomLine(v) == IF v.rsel THEN Row25Stop ELSE Row24Stop

check_vborder_top(v) ==
  IF v.raster_line = TopLine(v) /\ v.den
  THEN [v EXCEPT !.vborder = FALSE, !.set_vborder = FALSE] ELSE v

\* Fault model: the bottom comparison one line late.
VBorderBottomLate(v) ==
  IF v.raster_line = BottomLine(v) + 1 THEN [v EXCEPT !.set_vborder = TRUE] ELSE v

check_vborder_bottom(v) ==
  IF v.raster_line = BottomLine(v) THEN [v EXCEPT !.set_vborder = TRUE] ELSE v

\* cycle_is_check_border_l/r(flags, csel)
BorderL(v, d) == (IF v.csel THEN "border_l1" ELSE "border_l0") \in d.flags
BorderR(v, d) == (IF v.csel THEN "border_r1" ELSE "border_r0") \in d.flags

check_hborder(v, d) ==
  LET l  == check_vborder_bottom(v)
      vl == IF BorderL(v, d)
            THEN [l EXCEPT !.vborder = l.set_vborder,
                           !.main_border = IF l.set_vborder THEN @ ELSE FALSE]
            ELSE v
  IN IF BorderR(v, d) THEN [vl EXCEPT !.main_border = TRUE] ELSE vl

vicii_cycle_start_of_frame(v) ==
  LET f == [v EXCEPT !.start_of_frame = FALSE, !.raster_line = 0,
                     !.refresh_counter = 255, !.allow_bad_lines = FALSE,
                     !.vcbase = 0, !.vc = 0, !.lp_triggered = FALSE]
  IN IF f.lp_state THEN vicii_trigger_light_pen_internal(f) ELSE f

\* Fault model: start_of_frame armed one line early.
EndOfLineEarly(v) ==
  IF v.raster_line = ScreenHeight - 2
  THEN [v EXCEPT !.start_of_frame = TRUE] ELSE v

vicii_cycle_end_of_line(v) ==
  IF v.raster_line = ScreenHeight - 1
  THEN [v EXCEPT !.start_of_frame = TRUE] ELSE v

vicii_cycle_start_of_line(v) ==
  [v EXCEPT !.allow_bad_lines =
              IF v.raster_line = LastDmaLine THEN FALSE
              ELSE @ \/ (v.raster_line = FirstDmaLine /\ v.den),
            !.bad_line = FALSE]

next_vicii_cycle(v) ==
  [v EXCEPT !.raster_cycle = (@ + 1) % CyclesPerLine]

-----------------------------------------------------------------------------
(* vicii_cycle: one clock tick, the composition of its steps in the order *)
(* the C function runs them; dss and dsb are the collisions                *)
(* vicii_draw_cycle reports.                                               *)

ClearCollisions(v) ==
  CASE v.clear_collisions = "d01e" ->
         [v EXCEPT !.ss_coll = FALSE, !.clear_collisions = "none"]
    [] v.clear_collisions = "d01f" ->
         [v EXCEPT !.sb_coll = FALSE, !.clear_collisions = "none"]
    [] OTHER -> v

\* Collision IRQs fire on the edge: only when the register was clear
\* before vicii_draw_cycle (can_sprite_sprite, can_sprite_background).
\* Fault model: level-triggered collision IRQs.
CollisionIrqLevel(v, can_ss, can_sb) ==
  [v EXCEPT !.irq = @ \cup (IF v.ss_coll THEN {"sscoll"} ELSE {})
                    \cup (IF v.sb_coll THEN {"sbcoll"} ELSE {})]

CollisionIrq(v, can_ss, can_sb) ==
  [v EXCEPT !.irq = @ \cup (IF can_ss /\ v.ss_coll THEN {"sscoll"} ELSE {})
                    \cup (IF can_sb /\ v.sb_coll THEN {"sbcoll"} ELSE {})]

\* The VSP-bug condition: a bad line that began on an idle line inside the
\* window VICII_PAL_CYCLE(16) .. VICII_PAL_CYCLE(55) - 1.
\* Fault model: the lower bound of the VSP window dropped.
VspNoWindowStart(v, vsp_may_crash) ==
  v.bad_line /\ vsp_may_crash /\ v.raster_cycle < VspEndCycle

VspCondition(v, vsp_may_crash) ==
  /\ v.bad_line /\ vsp_may_crash
  /\ v.raster_cycle >= VspFirstCycle /\ v.raster_cycle < VspEndCycle

\* BA low counts the prefetch cycles down to 0; BA high re-arms 3 + 1.
\* Fault model: the countdown without its floor at 0.
PrefetchNoFloor(p, ba_low) == IF ba_low THEN p - 1 ELSE 3 + 1

PrefetchCycles(p, ba_low) ==
  IF ba_low THEN IF p > 0 THEN p - 1 ELSE 0 ELSE 3 + 1

\* Fault model: raster_irq_triggered never re-armed.
RasterIrqNoRearm(v) ==
  IF v.raster_line = v.raster_irq_line /\ ~v.raster_irq_triggered
  THEN [v EXCEPT !.irq = @ \cup {"raster"}, !.raster_irq_triggered = TRUE]
  ELSE v

RasterIrqCheck(v) ==
  IF v.raster_line = v.raster_irq_line
  THEN IF v.raster_irq_triggered THEN v
       ELSE [v EXCEPT !.irq = @ \cup {"raster"}, !.raster_irq_triggered = TRUE]
  ELSE [v EXCEPT !.raster_irq_triggered = FALSE]

SpriteLogic(v, d) ==
  LET m  == IF "update_mcbase" \in d.flags THEN sprite_mcbase_update(v) ELSE v
      sd == IF "check_spr_dma" \in d.flags THEN check_sprite_dma(m) ELSE m
      se == IF "check_spr_exp" \in d.flags THEN check_exp(sd) ELSE sd
  IN IF "check_spr_disp" \in d.flags THEN check_sprite_display(se) ELSE se

UpdateVc(v, d) ==
  IF "update_vc" \in d.flags
  THEN [v EXCEPT !.vc = v.vcbase, !.rc = IF v.bad_line THEN 0 ELSE @]
  ELSE v

\* Fault model: rc = 7 reloads vcbase but does not go idle.
UpdateRcNoIdle(v, d) ==
  IF "update_rc" \in d.flags
  THEN LET r7 == IF v.rc = 7 THEN [v EXCEPT !.vcbase = v.vc] ELSE v
       IN IF ~r7.idle_state \/ r7.bad_line
          THEN [r7 EXCEPT !.rc = (@ + 1) % 8, !.idle_state = FALSE]
          ELSE r7
  ELSE v

UpdateRc(v, d) ==
  IF "update_rc" \in d.flags
  THEN LET r7 == IF v.rc = 7 THEN [v EXCEPT !.idle_state = TRUE, !.vcbase = v.vc]
                 ELSE v
       IN IF ~r7.idle_state \/ r7.bad_line
          THEN [r7 EXCEPT !.rc = (@ + 1) % 8, !.idle_state = FALSE]
          ELSE r7
  ELSE v

\* vicii.cycle_flags: the descriptor of the current cycle.
CycleFlags(v) == CycleTable[v.raster_cycle]

\* The phi2 sprite fetch of the cycle just ended, then the next cycle.
Phi2Fetch(v) == next_vicii_cycle(vicii_fetch_sprites(v, CycleFlags(v)))

\* The phi1 fetch and the horizontal border check of the new cycle.
Phi1(v) == check_hborder(cycle_phi1_fetch(v, CycleFlags(v)), CycleFlags(v))

\* can_sprite_* sampled, vicii_draw_cycle, the delayed clear, the IRQ edges.
DrawCycle(v, dss, dsb) ==
  CollisionIrq(ClearCollisions([v EXCEPT !.ss_coll = @ \/ dss,
                                         !.sb_coll = @ \/ dsb]),
               ~v.ss_coll, ~v.sb_coll)

\* End of line / start of line at cycle 1; start of frame at cycle 2, else
\* the line counter steps at cycle 1.
LineStep(v) ==
  LET el == IF v.raster_cycle = EolCycle
            THEN vicii_cycle_start_of_line(vicii_cycle_end_of_line(v)) ELSE v
  IN IF el.start_of_frame
     THEN IF el.raster_cycle = SofCycle THEN vicii_cycle_start_of_frame(el)
          ELSE el
     ELSE IF el.raster_cycle = EolCycle
          THEN [el EXCEPT !.raster_line = @ + 1] ELSE el

\* The vertical border checks, and vborder copied from set_vborder at cycle 1.
VBorderStep(v) ==
  LET b == check_vborder_bottom(check_vborder_top(v))
  IN IF b.raster_cycle = EolCycle THEN [b EXCEPT !.vborder = b.set_vborder]
     ELSE b

SpriteStep(v) == SpriteLogic(v, CycleFlags(v))

\* vsp_may_crash, the DEN check on the first DMA line, the bad-line check
\* and the VSP-bug condition.
GraphicsLogic(v) ==
  LET ab == IF v.raster_line = FirstDmaLine /\ ~v.allow_bad_lines
            THEN [v EXCEPT !.allow_bad_lines = v.den] ELSE v
      bl == IF ab.allow_bad_lines THEN check_badline(ab) ELSE ab
  IN [bl EXCEPT !.vsp_bug = VspCondition(bl, ~v.bad_line /\ v.idle_state)]

CounterStep(v) == UpdateRc(UpdateVc(v, CycleFlags(v)), CycleFlags(v))

\* BA for the matrix fetch and the sprite fetches, and prefetch_cycles.
BaLogic(v) ==
  LET ba == \/ v.bad_line /\ "fetch_ba" \in CycleFlags(v).flags
            \/ vicii_check_sprite_ba(v, CycleFlags(v))
  IN [v EXCEPT !.ba_low = ba, !.prefetch_cycles = PrefetchCycles(@, ba)]

\* A scheduled light-pen trigger whose cycle has come.
LightPenStep(v) ==
  IF v.lp_wait = 0 THEN vicii_trigger_light_pen_internal(v) ELSE v

vicii_cycle(v, dss, dsb) ==
  LightPenStep(BaLogic(CounterStep(GraphicsLogic(SpriteStep(VBorderStep(
    RasterIrqCheck(LineStep(DrawCycle(Phi1(Phi2Fetch(v)), dss, dsb)))))))))

-----------------------------------------------------------------------------
(* The specification.                                                      *)

Bool == BOOLEAN

\* End of a frame in which the display was blanked: the tick that enters
\* cycle VICII_PAL_CYCLE(1) of the last line has just armed start_of_frame.
Init ==
  /\ \E r11 \in D011Values, cs \in D016Values, cmp \in D012Values,
        en \in D015Values, sy \in [Sprites -> SpriteYValues], ye \in InitYExp :
       vicii = [raster_cycle |-> EolCycle, raster_line |-> ScreenHeight - 1,
                start_of_frame |-> TRUE, bad_line |-> FALSE,
                idle_state |-> TRUE, allow_bad_lines |-> FALSE,
                vc |-> 0, vcbase |-> 0, rc |-> 0, refresh_counter |-> 255,
                vborder |-> TRUE, set_vborder |-> TRUE, main_border |-> TRUE,
                mc |-> [s \in Sprites |-> 0], mcbase |-> [s \in Sprites |-> 0],
                exp_flop |-> Sprites, sprite_dma |-> {},
                sprite_display_bits |-> {}, prefetch_cycles |-> 3 + 1,
                ba_low |-> FALSE, vsp_bug |-> FALSE,
                raster_irq_line |-> cmp,
                raster_irq_triggered |-> cmp = ScreenHeight - 1,
                irq |-> {}, ss_coll |-> FALSE, sb_coll |-> FALSE,
                clear_collisions |-> "none",
                lp_state |-> FALSE, lp_triggered |-> TRUE, lp_wait |-> NoTrigger,
                den |-> r11.den, rsel |-> r11.rsel, ysmooth |-> r11.ysmooth,
                csel |-> cs, spr_en |-> en, spr_y |-> sy, spr_yexp |-> ye]
  /\ cpu = "none"
  /\ clk = 0
  /\ frame = [full |-> FALSE, irqs |-> 0, cmpWritten |-> FALSE, den |-> FALSE,
              events |-> 0, lpIrqs |-> 0, d011Written |-> FALSE,
              closedAtSof |-> TRUE]
  /\ dispLines = 0
  /\ dmaLines = [s \in Sprites |-> 0]
  /\ collIrqs = 0

(* One clock tick: the host's call of vicii_cycle, after maincpu_clk++.    *)
(* The drawing collaborator reports collisions only of displayed sprites.  *)
Cycle ==
  \E dc \in DrawCollisions :
    LET dss == dc[1] /\ Cardinality(vicii.sprite_display_bits) >= 2
        dsb == dc[2] /\ vicii.sprite_display_bits # {}
        n   == vicii_cycle(vicii, dss, dsb)
        sof == vicii.start_of_frame /\ n.raster_cycle = SofCycle
        fired == ~vicii.raster_irq_triggered /\ n.raster_irq_triggered
        \* DEN is sampled in every cycle of the first DMA line and in the
        \* first cycle of the next one, before raster_line is incremented
        denNow == vicii.den /\ FirstDmaLine \in {vicii.raster_line, n.raster_line}
        Raised(src) == src \in n.irq /\ src \notin vicii.irq
        lp == IF Raised("lightpen") THEN 1 ELSE 0
    IN
    /\ vicii' = [n EXCEPT !.lp_wait = IF @ > 0 THEN @ - 1 ELSE NoTrigger]
    /\ cpu' = "none"
    /\ clk' = (clk + 1) % FrameLen
    /\ frame' = IF sof
                THEN [full |-> TRUE, irqs |-> IF fired THEN 1 ELSE 0,
                      cmpWritten |-> cpu = "d012",
                      den |-> denNow, events |-> 0, lpIrqs |-> lp,
                      d011Written |-> cpu = "d011", closedAtSof |-> n.vborder]
                ELSE [frame EXCEPT
                        !.irqs = IF fired THEN (IF @ < 2 THEN @ + 1 ELSE 2) ELSE @,
                        !.den = @ \/ denNow,
                        !.lpIrqs = IF @ + lp < 2 THEN @ + lp ELSE 2]
    /\ dispLines' = IF n.bad_line THEN 0
                    ELSE IF "update_rc" \in CycleTable[n.raster_cycle].flags
                         THEN (IF dispLines < 9 THEN dispLines + 1 ELSE 9)
                         ELSE dispLines
    /\ dmaLines' = [s \in Sprites |->
                      IF s \notin n.sprite_dma \/ s \notin vicii.sprite_dma THEN 0
                      ELSE IF n.raster_cycle = EolCycle
                                /\ dmaLines[s] < DmaLinesCap
                           THEN dmaLines[s] + 1 ELSE dmaLines[s]]
    /\ collIrqs' = IF Raised("sscoll") /\ collIrqs < 2 THEN collIrqs + 1
                   ELSE collIrqs

(* Outside events (CPU accesses, light-pen input) are bounded per frame.  *)
EventAllowed == frame.events < EventsPerFrame
CountEvent == frame' = [frame EXCEPT !.events = @ + 1]

(* CPU accesses: at most one per cycle, and none while BA holds the bus.   *)
CpuMayAccess == cpu = "none" /\ ~vicii.ba_low /\ EventAllowed

\* d011_store: DEN, RSEL and YSCROLL (vicii.ysmooth).  Bit 7 (RST8) is the
\* high bit of the raster compare line; the scaled screen has no line 256,
\* so the compare lines StoreD012 enumerates stand for both registers.
StoreD011(r11) ==
  /\ CpuMayAccess
  /\ vicii' = [vicii EXCEPT !.den = r11.den, !.rsel = r11.rsel,
                            !.ysmooth = r11.ysmooth]
  /\ cpu' = "d011"
  /\ frame' = [frame EXCEPT !.d011Written = TRUE, !.events = @ + 1]
  /\ UNCHANGED <<clk, dispLines, dmaLines, collIrqs>>

\* d012_store: the raster compare value.
StoreD012(cmp) ==
  /\ CpuMayAccess
  /\ vicii' = [vicii EXCEPT !.raster_irq_line = cmp]
  /\ cpu' = "d012"
  /\ frame' = [frame EXCEPT !.cmpWritten = TRUE, !.events = @ + 1]
  /\ UNCHANGED <<clk, dispLines, dmaLines, collIrqs>>

\* d015_store: sprite enable bits.
StoreD015(en) ==
  /\ CpuMayAccess
  /\ vicii' = [vicii EXCEPT !.spr_en = en]
  /\ cpu' = "d015"
  /\ CountEvent
  /\ UNCHANGED <<clk, dispLines, dmaLines, collIrqs>>

\* d016_store: CSEL.
StoreD016(cs) ==
  /\ CpuMayAccess
  /\ vicii' = [vicii EXCEPT !.csel = cs]
  /\ cpu' = "d016"
  /\ CountEvent
  /\ UNCHANGED <<clk, dispLines, dmaLines, collIrqs>>

\* Sprite Y register store ($d001 + 2 * s).
StoreSpriteY(s, y) ==
  /\ CpuMayAccess
  /\ vicii' = [vicii EXCEPT !.spr_y[s] = y]
  /\ cpu' = "spry"
  /\ CountEvent
  /\ UNCHANGED <<clk, dispLines, dmaLines, collIrqs>>

\* d019_store: acknowledge the pending interrupt sources.
StoreD019 ==
  /\ CpuMayAccess
  /\ vicii' = [vicii EXCEPT !.irq = {}]
  /\ cpu' = "d019"
  /\ CountEvent
  /\ UNCHANGED <<clk, dispLines, dmaLines, collIrqs>>

\* d01e_read / d01f_read: return the collisions, clear them at the next tick.
ReadD01E ==
  /\ CpuMayAccess
  /\ vicii' = [vicii EXCEPT !.clear_collisions = "d01e"]
  /\ cpu' = "d01e"
  /\ collIrqs' = 0
  /\ CountEvent
  /\ UNCHANGED <<clk, dispLines, dmaLines>>

ReadD01F ==
  /\ CpuMayAccess
  /\ vicii' = [vicii EXCEPT !.clear_collisions = "d01f"]
  /\ cpu' = "d01f"
  /\ CountEvent
  /\ UNCHANGED <<clk, dispLines, dmaLines, collIrqs>>

(* The light-pen input: the line level and the trigger scheduler.          *)
SetLightPenState(b) ==
  /\ EventAllowed /\ vicii.lp_state # b
  /\ vicii' = [vicii EXCEPT !.lp_state = b]
  /\ CountEvent
  /\ UNCHANGED <<cpu, clk, dispLines, dmaLines, collIrqs>>

ScheduleLightPen(w) ==
  /\ EventAllowed /\ vicii.lp_wait = NoTrigger
  /\ vicii' = [vicii EXCEPT !.lp_wait = w]
  /\ CountEvent
  /\ UNCHANGED <<cpu, clk, dispLines, dmaLines, collIrqs>>

Next ==
  \/ Cycle
  \/ \E r11 \in D011Values : StoreD011(r11)
  \/ \E cmp \in D012Values : StoreD012(cmp)
  \/ \E en \in D015Values : StoreD015(en)
  \/ \E cs \in D016Values : StoreD016(cs)
  \/ \E s \in Sprites, y \in SpriteYValues : StoreSpriteY(s, y)
  \/ StoreD019
  \/ ReadD01E
  \/ ReadD01F
  \/ \E b \in LightPenLevels : SetLightPenState(b)
  \/ \E w \in LightPenDelays : ScheduleLightPen(w)

\* The host calls vicii_cycle once per clock, forever (spec section 5).
\* Cycle is enabled in every state, so its weak fairness WF_vars(Cycle) is
\* the same as infinitely many Cycle steps; that form is stated here.
Spec == Init /\ [][Next]_vars /\ []<><<Cycle>>_vars

-----------------------------------------------------------------------------
(* Invariants and properties.                                              *)

Tick == clk' # clk

TypeOK ==
  /\ vicii.raster_cycle \in Cycles /\ vicii.raster_line \in Lines
  /\ vicii.rc \in 0 .. 7 /\ vicii.vc \in 0 .. 1023 /\ vicii.vcbase \in 0 .. 1023
  /\ vicii.refresh_counter \in 0 .. 255 /\ vicii.prefetch_cycles \in 0 .. 4
  /\ vicii.mc \in [Sprites -> 0 .. 63] /\ vicii.mcbase \in [Sprites -> 0 .. 63]
  /\ vicii.sprite_dma \subseteq Sprites /\ vicii.exp_flop \subseteq Sprites
  /\ vicii.sprite_display_bits \subseteq Sprites
  /\ vicii.irq \subseteq IrqSources
  /\ \E w \in LightPenDelays \cup {NoTrigger} : vicii.lp_wait \in NoTrigger .. w
  /\ cpu \in CpuAccesses /\ clk \in 0 .. FrameLen - 1
  /\ frame.irqs \in 0 .. 2 /\ frame.events \in 0 .. EventsPerFrame
  /\ dispLines \in 0 .. 9 /\ frame.lpIrqs \in 0 .. 2 /\ collIrqs \in 0 .. 2

(* Frame wraparound (spec section 8): the raster position is a function of *)
(* the number of ticks.  The last line lasts one cycle longer and line 0   *)
(* one cycle shorter, because start_of_frame is armed at cycle 1 by        *)
(* vicii_cycle_end_of_line and acted on at cycle 2; the frame still has    *)
(* exactly cycles_per_line * screen_height ticks and begins with the       *)
(* start-of-frame reset values.                                            *)
RasterFollowsClock ==
  /\ vicii.raster_cycle = clk % CyclesPerLine
  /\ vicii.raster_line = IF clk = 0 THEN ScreenHeight - 1
                         ELSE clk \div CyclesPerLine
  /\ clk = SofCycle => /\ vicii.vcbase = 0 /\ vicii.vc = 0
                       /\ vicii.refresh_counter = 255

(* The raster IRQ is edge triggered through raster_irq_triggered: in every *)
(* complete frame in which $d012 is not written it fires exactly once if   *)
(* the compare line exists on the screen and never otherwise, also when    *)
(* the compare line is the last line or line 0, across the frame wrap.     *)
RasterIrqOncePerFrame ==
  [][ vicii.start_of_frame /\ ~vicii'.start_of_frame
      /\ frame.full /\ ~frame.cmpWritten
      => frame.irqs = IF vicii.raster_irq_line \in Lines THEN 1 ELSE 0 ]_vars

DisplayStateBounded ==
  ~vicii.idle_state => dispLines <= 7

(* The VSP bug routine only runs when a bad line starts in the middle of   *)
(* the fetch window of an idle line, which can only happen because the CPU *)
(* wrote $d011 (YSCROLL or DEN) in the cycle just before.                  *)
VspOnlyAfterD011Write ==
  [][Tick /\ vicii'.vsp_bug => cpu = "d011"]_vars

(* Sprite DMA lifecycle (spec section 8): once turned on, a sprite's DMA   *)
(* runs for SpriteMcEnd/3 lines (twice that when Y-expanded), as mcbase    *)
(* advances by the three data fetches of each line and is only taken over  *)
(* from mc when the expansion flip-flop is set.                            *)
SpriteDmaLength ==
  [][\A s \in Sprites :
       s \in vicii.sprite_dma /\ s \notin vicii'.sprite_dma =>
         dmaLines[s] = (SpriteMcEnd \div 3) *
                       (IF s \in vicii.spr_yexp THEN 2 ELSE 1)]_vars

(* Every sprite DMA eventually ends, whatever the CPU does.                 *)
SpriteDmaEnds ==
  \A s \in Sprites : s \in vicii.sprite_dma ~> s \notin vicii.sprite_dma

(* Bus exclusion: every phi2 access of the chip (a c-access of a bad line, *)
(* a sprite data access of a sprite under DMA) happens in a cycle for      *)
(* which vicii_cycle returned BA low, so the CPU is kept off the bus.      *)
PhiTwoAccessOnlyWithBaLow ==
  LET d == CycleTable[vicii.raster_cycle]
  IN /\ vicii.bad_line /\ "fetch_c" \in d.flags => vicii.ba_low
     /\ d.flags \cap {"sprite_ptr_dma0", "sprite_dma1_dma2"} # {}
        /\ d.spr \in vicii.sprite_dma => vicii.ba_low

(* Collision IRQs are edge triggered (can_sprite_sprite is sampled before *)
(* vicii_draw_cycle): however long sprites keep overlapping, and however   *)
(* often the CPU acknowledges in $d019, one read of $d01e is followed by   *)
(* at most one sprite-sprite collision interrupt.                          *)
CollisionIrqOncePerRead == collIrqs <= 1

(* The light pen latches at most once per frame, whether it is triggered  *)
(* by the input being held at the start of the frame or by a scheduled    *)
(* trigger, even when the CPU acknowledges the first interrupt.            *)
LightPenIrqOncePerFrame == frame.lpIrqs <= 1

(* The vertical border (check_vborder_top/bottom and the copy of          *)
(* set_vborder at cycle 1): in a frame that began with the border closed   *)
(* and in which $d011 is not written, the vertical border flip-flop is     *)
(* open only on the lines of the display window that RSEL selects, from    *)
(* the top line to the line before the bottom line.  Opening the border    *)
(* beyond the window needs a write of RSEL or DEN at the right time.       *)
VBorderOpenOnlyInWindow ==
  frame.full /\ frame.closedAtSof /\ ~frame.d011Written /\ ~vicii.vborder =>
    vicii.raster_line \in TopLine(vicii) .. BottomLine(vicii) - 1

=============================================================================
