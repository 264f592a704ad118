----------------------------- MODULE MCRounding -----------------------------
(***************************************************************************)
(* TimeManager with times in a binary floating-point format of Digits       *)
(* significant bits, rounded to nearest, ties to even: what double does     *)
(* with 53.  Ticks are integers, so values below 2^Digits are exact.        *)
(***************************************************************************)
EXTENDS TimeManager, TLC

CONSTANTS c1, c2, Digits, UnitStep, Sync1, Sync2

TwoClusters == {c1, c2}
TwoLinks == {<<c1, c2>>, <<c2, c1>>}
TwoRate == (c1 :> 1) @@ (c2 :> 2)
TwoMax == (c1 :> UnitStep) @@ (c2 :> 2 * UnitStep)
TwoSyncTimes == <<Sync1, Sync2>>

\* The number of binary digits of n.
Bits(n) == CHOOSE b \in 0..32 : n < 2 ^ b /\ (b = 0 \/ n >= 2 ^ (b - 1))

\* The multiple of 1/s nearest to a/b, times s.
Nearest(a, b, s) ==
    LET q == (a * s) \div b
        r == (a * s) % b
    IN  IF 2 * r > b \/ (2 * r = b /\ q % 2 = 1) THEN q + 1 ELSE q

Stored(x) ==
    IF Bits(x) <= Digits THEN x
    ELSE LET u == 2 ^ (Bits(x) - Digits) IN u * Nearest(x, u, 1)

Ceil(a, b) == (a + b - 1) \div b

StoredCeil(a, b) ==
    LET k == a \div b
    IN  IF k = 0 \/ Bits(k) >= Digits THEN Ceil(a, b)
        ELSE LET s == 2 ^ (Digits - Bits(k)) IN Ceil(Nearest(a, b, s), s)

\* Sums and differences of times, and Rate * difference.
Results == 0..2 * (Sync2 + 2 * UnitStep)

SmallRounded == [x \in {y \in Results : Stored(y) # y} |-> Stored(x)]

SmallRoundedCeil ==
    [q \in {p \in Results \X {UnitStep, 2 * UnitStep} :
               StoredCeil(p[1], p[2]) # Ceil(p[1], p[2])} |-> StoredCeil(q[1], q[2])]

=============================================================================
