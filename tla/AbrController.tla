---------------------------- MODULE AbrController ----------------------------
(***************************************************************************)
(* The adaptive quality of a stream (engine/src/abr_controller.c): once a  *)
(* second the share of slow media writes lowers the quality, or holds it,  *)
(* or after a long clean run raises it again.                              *)
(***************************************************************************)
EXTENDS Integers

CONSTANTS Warmup, Cooldown, CleanToRaise   \* LDAC_ABR_WARMUP_WINDOWS, ...

ASSUME AbrAssumption == {Warmup, Cooldown} \subseteq Nat /\ CleanToRaise \in Nat \ {0}

VARIABLE
    abr       \* ldac_abr_controller, with what it has seen since its last change

\* ldac_encoder_quality: HQ, SQ, MQ.
Lowest == 2

\* windows: since the last change; run: of them clean, one after the other.
NewAbr(quality) == [quality |-> quality, warm |-> Warmup, clean |-> 0, cool |-> 0,
                    changed |-> FALSE, windows |-> 0, run |-> 0]

AbrInit == abr \in {NewAbr(quality) : quality \in 0..Lowest}

\* ldac_abr_update for a window with this share of slow writes.
Loads == {"clean", "mild", "congested", "severe"}
\* Mutant: the windows of the cooldown count as clean.
AdaptedWarm(a, load) ==
    LET congested == load \in {"congested", "severe"}
        cooling == a.cool > 0
        rest == [a EXCEPT !.clean = 0, !.cool = IF cooling THEN @ - 1 ELSE @]
        changed == [rest EXCEPT !.cool = Cooldown, !.changed = TRUE, !.windows = 0, !.run = 0]
    IN  CASE a.warm > 0 -> [a EXCEPT !.warm = @ - 1, !.clean = 0]
          [] a.warm = 0 /\ congested /\ a.quality < Lowest /\ (~cooling \/ load = "severe") ->
               [changed EXCEPT !.quality = @ + 1]
          [] OTHER ->
               IF load # "clean" \/ a.quality = 0 THEN rest
               ELSE IF a.clean + 1 < CleanToRaise THEN [rest EXCEPT !.clean = a.clean + 1]
               ELSE [changed EXCEPT !.quality = @ - 1]
Adapted(a, load) ==
    LET congested == load \in {"congested", "severe"}
        cooling == a.cool > 0
        rest == [a EXCEPT !.clean = 0, !.cool = IF cooling THEN @ - 1 ELSE @]
        changed == [rest EXCEPT !.cool = Cooldown, !.changed = TRUE, !.windows = 0, !.run = 0]
    IN  CASE a.warm > 0 -> [a EXCEPT !.warm = @ - 1, !.clean = 0]
          [] a.warm = 0 /\ congested /\ a.quality < Lowest /\ (~cooling \/ load = "severe") ->
               [changed EXCEPT !.quality = @ + 1]
          [] OTHER ->
               IF cooling \/ load # "clean" \/ a.quality = 0 THEN rest
               ELSE IF a.clean + 1 < CleanToRaise THEN [rest EXCEPT !.clean = a.clean + 1]
               ELSE [changed EXCEPT !.quality = @ - 1]

\* The window is counted before it is judged.
Seen(a, load) ==
    LET enough == Cooldown + CleanToRaise
        one(n) == IF n < enough THEN n + 1 ELSE n
    IN  [a EXCEPT !.windows = one(@), !.run = IF load = "clean" THEN one(@) ELSE 0]

AbrNext == \E load \in Loads : abr' = Adapted(Seen(abr, load), load)

\* The bitrate does not flap: it is raised only after a whole cooldown and then enough
\* clean windows in a row, however the windows before went.
AdaptsSlowly ==
    [][abr'.quality < abr.quality =>
            /\ abr.run + 1 >= CleanToRaise
            /\ (abr.changed => abr.windows + 1 >= Cooldown + CleanToRaise)]_abr
=============================================================================
