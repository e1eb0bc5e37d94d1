------------------------------ MODULE SpeedBand ------------------------------
(***************************************************************************)
(* The arithmetic of bandwidth/random_speed.rs: where one sample, one step *)
(* of the reflected random walk, or one change of the configuration may    *)
(* take a global speed.  u64 arithmetic saturates where the code says so;  *)
(* the walk itself is computed in i128, which never overflows.             *)
(***************************************************************************)
EXTENDS Integers

CONSTANTS
    MaxWord,    \* u64::MAX
    Unit,       \* bytes per second in one kB/s of the configuration (1000)
    StepRatio   \* a tick moves the speed by at most 1/StepRatio of the band (50)

ASSUME SpeedBandAssumption ==
    /\ MaxWord \in Nat
    /\ Unit \in Nat \ {0}
    /\ StepRatio \in Nat \ {0}

\* Saturating arithmetic ends here.
Saturated(n) == IF n > MaxWord THEN MaxWord ELSE n

Bytes(rate) == Saturated(rate * Unit)

\* Rust's %: the sign of the remainder is that of the dividend.
Rem(x, m) == IF x >= 0 THEN x % m ELSE -((-x) % m)

\* Slip the runs must notice: no second reduction, as for an unsigned x.
ReflectOnce(x, lo, hi) ==
    IF hi <= lo THEN lo
    ELSE LET span == hi - lo
             y    == Rem(x - lo, 2 * span)
         IN  lo + (IF y > span THEN 2 * span - y ELSE y)

\* Fold x into lo..hi along a triangular wave.
Reflect(x, lo, hi) ==
    IF hi <= lo THEN lo
    ELSE LET span == hi - lo
             y    == Rem(Rem(x - lo, 2 * span) + 2 * span, 2 * span)
         IN  lo + (IF y > span THEN 2 * span - y ELSE y)

MaxStep(lo, hi) ==
    LET share == (hi - lo) \div StepRatio
    IN  IF share < 1 THEN 1 ELSE share

\* The values refresh() may draw, and those step() may reach from speed.
Sampled(lo, hi) == IF lo = hi THEN {hi} ELSE lo..(hi - 1)

\* Slip: a step of one whole band.
SteppedFar(speed, lo, hi) ==
    IF lo >= hi THEN {hi}
    ELSE {Reflect(speed + d, lo, hi) : d \in (lo - hi)..(hi - lo)}

Stepped(speed, lo, hi) ==
    IF lo >= hi THEN {hi}
    ELSE {Reflect(speed + d, lo, hi) : d \in -MaxStep(lo, hi)..MaxStep(lo, hi)}

Clamped(speed, lo, hi) ==
    IF speed < lo THEN lo ELSE IF speed > hi THEN hi ELSE speed
=============================================================================
