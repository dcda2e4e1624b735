------------------------------ MODULE Duration ------------------------------
(***************************************************************************)
(* The duration codes of src/src/wire.c, the one encoding of ttl and       *)
(* validity: an exponent in the high four bits, a mantissa in the low.     *)
(* Operators only.                                                         *)
(***************************************************************************)
EXTENDS Integers

Code == 0 .. 255
DURATION_MAX_SECONDS == 507904      \* MCL_WIRE_DURATION_MAX_SECONDS

\* A band is an exponent above zero; its codes are Step[e] seconds apart, which
\* is what the code's shift by e - 1 multiplies by.
Band == 1 .. 15
Step == <<1, 2, 4, 8, 16, 32, 64, 128, 256, 512, 1024, 2048, 4096, 8192, 16384>>

BandBottom(e) == 16 * Step[e]
BandTop(e)    == 31 * Step[e]

Exponent(code) == code \div 16
Mantissa(code) == code % 16

\* mcl_wire_duration_seconds: total, every code names a duration.
DurationSeconds(code) ==
    IF Exponent(code) = 0 THEN Mantissa(code)
    ELSE (16 + Mantissa(code)) * Step[Exponent(code)]

\* The loop of mcl_wire_duration_encode stops in the first band that the
\* duration is below, being in the gap under it, or within.
StopsIn(e, seconds) == seconds < BandBottom(e) \/ seconds <= BandTop(e)

FirstBand(seconds) ==
    CHOOSE e \in Band : /\ StopsIn(e, seconds)
                        /\ \A f \in Band : f < e => ~StopsIn(f, seconds)

InGapOrAtBottom(e, seconds) == seconds <= BandBottom(e)
InGapBelow(e, seconds) == seconds < BandBottom(e)

CodeInBandUnmasked(e, seconds) == e * 16 + (seconds \div Step[e])
CodeInBandAbove(e, seconds)    == e * 16 + (((seconds \div Step[e]) - 16) % 16)
CodeInBandShort(e, seconds) ==
    IF InGapBelow(e, seconds) THEN (e - 1) * 16 + 14
    ELSE e * 16 + (((seconds \div Step[e]) - 16) % 16)
CodeInBandBottom(e, seconds) ==
    IF InGapBelow(e, seconds) THEN (e - 1) * 16
    ELSE e * 16 + (((seconds \div Step[e]) - 16) % 16)

\* The octet written for a duration of 16 seconds or more.
CodeInBand(e, seconds) ==
    IF InGapBelow(e, seconds) THEN (e - 1) * 16 + 15
    ELSE e * 16 + (((seconds \div Step[e]) - 16) % 16)

\* mcl_wire_duration_encode: refused, never clamped, above the last code.
DurationRefused(seconds) == seconds > DURATION_MAX_SECONDS

DurationEncode(seconds) ==
    IF seconds < 16 THEN seconds
    ELSE CodeInBand(FirstBand(seconds), seconds)
=============================================================================
