------------------------------ MODULE Doubles ------------------------------
(***************************************************************************)
(* The double arithmetic on times, in integer ticks.  Rounded holds the     *)
(* results the format cannot represent and the value it stores in their     *)
(* place; RoundedCeil holds the quotients whose rounding moves their        *)
(* ceiling.  With both tables empty (<<>>) the arithmetic is exact; the MC  *)
(* modules also derive the tables of a binary format with few digits.       *)
(***************************************************************************)
EXTENDS Integers

CONSTANTS
    Rounded,        \* exact sum, difference or product |-> the stored value
    RoundedCeil     \* <<a, b>> |-> ceil(a / b) where rounding a / b changes it

ASSUME DoublesAssumption ==
    /\ Rounded \in [DOMAIN Rounded -> Int]
    /\ RoundedCeil \in [DOMAIN RoundedCeil -> Int]

Round(x) == IF x \in DOMAIN Rounded THEN Rounded[x] ELSE x

Plus(a, b) == Round(a + b)

Minus(a, b) == Round(a - b)

\* ceil(a / b) for b > 0, the quotient rounded before its ceiling is taken.
CeilDiv(a, b) ==
    LET n == Round(a)
    IN  IF <<n, b>> \in DOMAIN RoundedCeil THEN RoundedCeil[<<n, b>>]
        ELSE (n + b - 1) \div b

=============================================================================
