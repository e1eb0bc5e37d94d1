----------------------------- MODULE RandomSpeed -----------------------------
(***************************************************************************)
(* One speed provider of bandwidth/random_speed.rs.  RandomSpeedProvider   *)
(* and DownloadSpeedProvider are the same machine: the download faker is   *)
(* off when both its rates are 0, and then the band holds 0 alone, which   *)
(* is what its shortcuts return.                                           *)
(***************************************************************************)
EXTENDS SpeedBand

CONSTANT Rate   \* the rates, in kB/s, the configuration may ask for

ASSUME RateAssumption == Rate \subseteq Nat

VARIABLES min, max,   \* min_kib_per_sec, max_kib_per_sec
          current     \* current_speed_bytes_per_sec

speedVars == <<min, max, current>>

Lowest  == Bytes(min)
Highest == Bytes(max)

SpeedTypeOK == min \in Rate /\ max \in Rate /\ current \in 0..MaxWord

\* AppConfiguration::validate lets no band through whose ends are swapped.
Valid(lo, hi) == lo \in Rate /\ hi \in Rate /\ lo <= hi

\* The constructor ends with a refresh.
SpeedInit ==
    /\ min \in Rate /\ max \in Rate /\ Valid(min, max)
    /\ current \in Sampled(Lowest, Highest)

Refresh ==
    /\ current' \in Sampled(Lowest, Highest)
    /\ UNCHANGED <<min, max>>

Step ==
    /\ current' \in Stepped(current, Lowest, Highest)
    /\ UNCHANGED <<min, max>>

\* Slip: the speed keeps the place it had in the old band.
UpdateSpeedLimitsOnly(lo, hi) ==
    /\ Valid(lo, hi)
    /\ min' = lo /\ max' = hi
    /\ current' = current

UpdateSpeedLimits(lo, hi) ==
    /\ Valid(lo, hi)
    /\ min' = lo /\ max' = hi
    /\ current' = Clamped(current, Bytes(lo), Bytes(hi))

SpeedNext == Refresh \/ Step \/ \E lo, hi \in Rate : UpdateSpeedLimits(lo, hi)

SpeedSpec == SpeedInit /\ [][SpeedNext]_speedVars
-----------------------------------------------------------------------------
\* "A random-walk step never escapes the configured band" (random_speed.rs
\* :66-68), nor does a sample or a change of the limits, saturated ones included.
InBand == Lowest <= current /\ current <= Highest

\* The definition in words: bounce off the walls until inside.
Bounced(lo, hi) ==
    LET inside[x \in Int] == IF x < lo THEN inside[2 * lo - x]
                             ELSE IF x > hi THEN inside[2 * hi - x]
                             ELSE x
    IN  inside

\* reflect() is "equivalent to repeatedly bouncing off the walls" (random_speed.rs
\* :66-68), on either side and further out than any step goes.
ReflectIsBouncing ==
    Lowest < Highest =>
        LET reach == 4 * (Highest - Lowest)
        IN  \A d \in -reach..reach :
                Reflect(current + d, Lowest, Highest) = Bounced(Lowest, Highest)[current + d]

\* "Speeds change slowly": a tick moves the speed by at most its step ceiling,
\* even when the walk bounces off a wall (random_speed.rs:19-25).
Gentle ==
    [][Step => LET bound == MaxStep(Lowest, Highest)
               IN  /\ current' - current <= bound
                   /\ current - current' <= bound]_speedVars
=============================================================================
