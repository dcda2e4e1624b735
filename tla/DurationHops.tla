---------------------------- MODULE DurationHops ----------------------------
(***************************************************************************)
(* A bounded piece of information handed from receiver to receiver: the    *)
(* sender states how long it may be treated as current, every receiver     *)
(* decodes the code and counts its interval from its own receipt, and may  *)
(* send the object on with what is left of the interval, encoded again.    *)
(* Nobody counts the time an object is on the way: the interval restarts   *)
(* on decode at each receiver (src/spec/duration-v0.1.md:140-146).         *)
(* This is the use src/include/mcl/wire.h:266-272 names as the reason for  *)
(* rounding down; the encoder and the decoder are those of Duration, the   *)
(* machines around them are not part of the library.                       *)
(***************************************************************************)
EXTENDS Duration

CONSTANTS Lifetimes,    \* the durations a sender may ask for, in seconds
          Pauses,       \* the whole seconds that may pass at one receiver
          Transits,     \* the whole seconds that one transmission may take
          MaxHops       \* bound on how often the object is sent on

ASSUME DurationHopsAssumption ==
    Lifetimes \subseteq Nat /\ Pauses \subseteq Nat /\ Transits \subseteq Nat /\ MaxHops \in Nat

VARIABLES phase,        \* "unsent", "sent" (on the way), "current", "refused" or "expired"
          lifetime,     \* what the first sender asked for
          elapsed,      \* seconds since the first sender encoded it
          onTheWay,     \* those of them in which no receiver held it
          asked,        \* the seconds last given to the encoder
          code,         \* the octet sent last
          age,          \* seconds since its receiver decoded it
          hops          \* how often the object was sent on

vars == <<phase, lifetime, elapsed, onTheWay, asked, code, age, hops>>

\* What a receiver has left of the interval it counts, or will have on receipt.
Remaining == DurationSeconds(code) - age

Init ==
    /\ phase = "unsent"
    /\ lifetime = 0 /\ elapsed = 0 /\ onTheWay = 0 /\ asked = 0
    /\ code = 0 /\ age = 0 /\ hops = 0

\* The sender encodes its duration and puts the code on the wire.
Publish(seconds) ==
    /\ phase = "unsent"
    /\ lifetime' = seconds
    /\ asked' = seconds
    /\ IF DurationRefused(seconds)
         THEN phase' = "refused" /\ code' = code
         ELSE phase' = "sent" /\ code' = DurationEncode(seconds)
    /\ UNCHANGED <<elapsed, onTheWay, age, hops>>

\* The object arrives after some time on the way, and its receiver starts counting:
\* age is 0, as the sender left it.
Arrive(seconds) ==
    /\ phase = "sent"
    /\ phase' = "current"
    /\ elapsed' = elapsed + seconds
    /\ onTheWay' = onTheWay + seconds
    /\ UNCHANGED <<lifetime, asked, code, age, hops>>

\* Time passes at the receiver, up to the end of its interval; all of it in one
\* step, so one pause per receiver is enough.
Pause(seconds) ==
    /\ phase = "current"
    /\ age = 0
    /\ seconds <= Remaining
    /\ elapsed' = elapsed + seconds
    /\ age' = age + seconds
    /\ UNCHANGED <<phase, lifetime, onTheWay, asked, code, hops>>

\* The interval is over: the object is no longer treated as current.
Expire ==
    /\ phase = "current"
    /\ Remaining = 0
    /\ phase' = "expired"
    /\ UNCHANGED <<lifetime, elapsed, onTheWay, asked, code, age, hops>>

\* The receiver sends the object on with what is left of its interval.
Forward ==
    /\ phase = "current"
    /\ hops < MaxHops
    /\ phase' = "sent"
    /\ asked' = Remaining
    /\ code' = DurationEncode(Remaining)
    /\ age' = 0
    /\ hops' = hops + 1
    /\ UNCHANGED <<lifetime, elapsed, onTheWay>>

Next ==
    \/ \E seconds \in Lifetimes : Publish(seconds)
    \/ \E seconds \in Transits : Arrive(seconds)
    \/ \E seconds \in Pauses : Pause(seconds)
    \/ Expire
    \/ Forward

Spec == Init /\ [][Next]_vars

-----------------------------------------------------------------------------
\* The object is on its way, or current at a receiver.
UnderWay == phase \in {"sent", "current"}

\* The types; in particular what is encoded again never needs refusing.
TypeOK ==
    /\ phase \in {"unsent", "sent", "current", "refused", "expired"}
    /\ lifetime \in Nat /\ elapsed \in Nat /\ onTheWay \in Nat /\ asked \in Nat
    /\ code \in Code
    /\ age \in 0 .. DurationSeconds(code)
    /\ hops \in 0 .. MaxHops
    /\ UnderWay => asked <= DURATION_MAX_SECONDS

\* However often the object is sent on, it outlives what its first sender asked for
\* by no more than the time it spent on the way: the receivers together hold it as
\* current for at most the lifetime (wire.h:266-272: rounding up would extend it on
\* every hop; duration-v0.1.md:140-146: the interval restarts on decode, so nothing
\* better holds of an object that takes time to arrive).
OutlivesByTransitOnly == UnderWay => elapsed + Remaining <= lifetime + onTheWay

\* The encoder names the largest representable duration at or below what it was
\* given, in a gap between two bands too (wire.c:187-214), so also a
\* representable duration gets its own value back.
LargestAtOrBelow ==
    UnderWay =>
        /\ DurationSeconds(code) <= asked
        /\ \A c \in Code :
              DurationSeconds(c) <= asked => DurationSeconds(c) <= DurationSeconds(code)

\* Rounding costs nothing below 32 seconds and less than a sixteenth above
\* (test_duration.c:194-198 states the bound, for the durations it lists).
LossIsSmall ==
    UnderWay =>
        /\ asked < 32 => DurationSeconds(code) = asked
        /\ asked >= 32 => 16 * (asked - DurationSeconds(code)) < asked

\* Sending the object on at once changes nothing: one duration has one code, and
\* losses do not add up over receivers that hold it for no time.
ForwardedAtOnceIsUnchanged == [][Forward /\ age = 0 => code' = code]_vars
=============================================================================
