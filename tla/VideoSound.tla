----------------------------- MODULE VideoSound -----------------------------
(***************************************************************************)
(* The video sound leak of video/video-sound.c: a sound chip whose samples *)
(* mix a fixed noise pattern with the average luma of the picture's lines. *)
(* Per video chip it walks two pointers at their own rates: sampleptr over *)
(* the 16 bytes of noise_sample, lumaptr over lumas[] between the visible  *)
(* lines firstline and lastline of the last rendered frame.                *)
(*                                                                         *)
(* The sample values (floats computed from the luma tables) are data and   *)
(* are left out; the pointers, the rate dividers and the visible lines,    *)
(* which decide what memory a sample reads, are kept exactly.  A pointer   *)
(* is its index into its array.                                            *)
(***************************************************************************)
EXTENDS Integers

CONSTANTS
    MAX_LUMALINES,  \* the size of lumas[] (512 in the code)
    NumChips,       \* numchips: 2 on the C128 (VIC-II and VDC), else 1
    Viewports,      \* <<first_line, last_line>> pairs the renderer passes
    SampleRates,    \* the speeds the sound device opens with
    SampleCounts    \* how many samples one calculate call asks for

NOISE_RATE == 44100
LUMALINES_RATE == 15000
NoiseLen == 16      \* sizeof(noise_sample)

(* The chip indices get_chip_num returns: the VDC is chip 1 of two.        *)
Chips == 0 .. NumChips - 1

VARIABLES
    chip,           \* chip[c]: the videosound_t fields that are not data
    sample_rate,
    chip_enabled    \* video_sound.chip_enabled

vars == <<chip, sample_rate, chip_enabled>>

(* video_sound_init after the static initialisers: the structs are zero,  *)
(* both pointers point at the start of their arrays.                       *)
video_sound_init ==
    /\ chip = [c \in Chips |-> [enabled |-> FALSE, firstline |-> 0,
                                lastline |-> 0, sampleptr |-> 0,
                                lumaptr |-> 0, div1 |-> 0, div2 |-> 0]]
    /\ sample_rate = 22050
    /\ chip_enabled = FALSE

(* video_sound_machine_init: the sound device (re)opens at a new speed.    *)
video_sound_machine_init ==
    /\ \E speed \in SampleRates : sample_rate' = speed
    /\ UNCHANGED <<chip, chip_enabled>>

(* check_enabled over the chips after chip c's flag became on.             *)
check_enabled(ch) == \E c \in Chips : ch[c].enabled

(* video_sound_update for chip c (get_chip_num), called with the frame the *)
(* renderer just drew: the audio-leak resource sets the chip's flag; when  *)
(* no chip is enabled the sound chip is switched off and the visible lines *)
(* are not taken; else they are, and lumas[firstline..lastline-1] and      *)
(* avglum are recomputed (data).                                           *)
video_sound_update ==
    \E c \in Chips, audioleak \in BOOLEAN, vp \in Viewports :
        LET ch == [chip EXCEPT ![c].enabled = audioleak] IN
        IF ~check_enabled(ch)
        THEN /\ chip' = ch
             /\ chip_enabled' = FALSE
             /\ UNCHANGED sample_rate
        ELSE /\ chip' = [ch EXCEPT ![c].firstline = vp[1],
                                   ![c].lastline = vp[2]]
             /\ chip_enabled' = TRUE
             /\ UNCHANGED sample_rate

(* A divider loop: d += rate, then while d >= sample_rate the pointer      *)
(* advances, returning the number of advances and the new divider.         *)
Advances(d, rate, sr) == (d + rate) \div sr
Divided(d, rate, sr) == (d + rate) % sr

(* k advances of sampleptr: it wraps at the end of noise_sample.          *)
NextSample(p, k) == (p + k) % NoiseLen

(* One advance of lumaptr: it wraps only when it reaches exactly           *)
(* &lumas[lastline + 1].                                                   *)
NextLuma(p, s) == IF p + 1 = s.lastline + 1 THEN s.firstline ELSE p + 1

(* k advances of lumaptr, one NextLuma each.                              *)
RECURSIVE LumaWalk(_, _, _)
LumaWalk(p, s, k) == IF k = 0 THEN p ELSE LumaWalk(NextLuma(p, s), s, k - 1)

(* The per-sample, per-chip body of video_sound_machine_calculate_samples: *)
(* read *sampleptr and *lumaptr, then run the two divider loops.           *)
SampleStep(s, sr) ==
    LET n1 == Advances(s.div1, NOISE_RATE, sr)
        n2 == Advances(s.div2, LUMALINES_RATE, sr)
    IN [s EXCEPT !.div1 = Divided(s.div1, NOISE_RATE, sr),
                 !.sampleptr = NextSample(s.sampleptr, n1),
                 !.div2 = Divided(s.div2, LUMALINES_RATE, sr),
                 !.lumaptr = LumaWalk(s.lumaptr, s, n2)]

RECURSIVE Samples(_, _, _)
Samples(ch, sr, nr) ==
    IF nr = 0 THEN ch
    ELSE Samples([c \in Chips |-> SampleStep(ch[c], sr)], sr, nr - 1)

(* The sound core calls a chip's calculate function only while its        *)
(* chip_enabled flag is set (sound.c, not in this repository).             *)
SoundChipActive == chip_enabled

(* A pointer at or past the end of lumas[] keeps moving away and is read  *)
(* every sample; the model stops a chip's walk at the first index past the *)
(* table (LumaBound), where LumaReadInBounds has already failed.           *)
LumaBound == MAX_LUMALINES

(* video_sound_machine_calculate_samples(nr) for every chip.              *)
video_sound_machine_calculate_samples ==
    /\ SoundChipActive
    /\ \A c \in Chips : chip[c].lumaptr < LumaBound
    /\ \E nr \in SampleCounts : chip' = Samples(chip, sample_rate, nr)
    /\ UNCHANGED <<sample_rate, chip_enabled>>

Next == video_sound_update \/ video_sound_machine_init
        \/ video_sound_machine_calculate_samples

Spec == video_sound_init /\ [][Next]_vars

-----------------------------------------------------------------------------
TypeOK ==
    /\ \A c \in Chips :
        /\ chip[c].sampleptr \in 0 .. NoiseLen - 1
        /\ chip[c].div1 \in Nat /\ chip[c].div2 \in Nat
        /\ chip[c].lumaptr \in Nat
    /\ sample_rate \in SampleRates \cup {22050}
    /\ chip_enabled \in BOOLEAN

(* Every sample reads *lumaptr: the pointer of every chip stays inside    *)
(* lumas[], however the visible lines of video_sound_update change between *)
(* calls of video_sound_machine_calculate_samples.                          *)
LumaReadInBounds == \A c \in Chips : chip[c].lumaptr < MAX_LUMALINES
=============================================================================
