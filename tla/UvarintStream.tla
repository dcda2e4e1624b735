--------------------------- MODULE UvarintStream ---------------------------
(***************************************************************************)
(* A receiver with no outer framing: octets arrive one at a time, and      *)
(* after each one the receiver calls mcl_wire_uvarint_decode on all it has *)
(* so far, waiting while the answer is TRUNCATED.                          *)
(***************************************************************************)
EXTENDS Uvarint

CONSTANT MaxReceived    \* bound on the octets that arrive

ASSUME StreamAssumption == MaxReceived \in Nat

VARIABLES received,     \* the octets that have arrived
          verdict       \* the answer of the last decode call

vars == <<received, verdict>>

Init == /\ received = <<>>
        /\ verdict = UvarintDecode(<<>>, 0)

\* One more octet arrives and the whole buffer is decoded again.
Receive(octet) ==
    /\ Len(received) < MaxReceived
    /\ received' = Append(received, octet)
    /\ verdict' = UvarintDecode(received', 0)

Next == \E octet \in Octet : Receive(octet)

Spec == Init /\ [][Next]_vars

-----------------------------------------------------------------------------
\* Only the statuses the decoder can return, and a word for a value.
TypeOK == /\ received \in Seq(Octet)
          /\ verdict \in [status : {"OK", "TRUNCATED", "RANGE", "NONCANONICAL"},
                          value : Word, used : 0 .. MaxGroups]

\* The number a sequence of octets denotes, in unbounded arithmetic.
Denoted(octets) ==
    LET upTo[n \in 0 .. Len(octets)] ==
            IF n = 0 THEN 0 ELSE upTo[n - 1] * Group + Payload(octets[n])
    IN  upTo[Len(octets)]

\* Decoding succeeds exactly when the buffer begins with what the encoder
\* writes for some word, and returns that word and that many octets: no second
\* form of a number is accepted, no valid form is refused, and nothing is lost
\* to the width of the word (extension.c:75-90).
DecodesExactlyTheEncodings ==
    LET Prefix(n) == SubSeq(received, 1, n)
        Encoded(n) == /\ Denoted(Prefix(n)) \in Word
                      /\ Prefix(n) = UvarintEncode(Denoted(Prefix(n)))
    IN  IF verdict.status = "OK"
        THEN /\ verdict.used \in 1 .. Len(received)
             /\ Encoded(verdict.used)
             /\ verdict.value = Denoted(Prefix(verdict.used))
        ELSE \A n \in 1 .. Len(received) : ~Encoded(n)

\* Waiting is bounded: a receiver that holds five octets has its answer
\* (extension.c:92-95), so a sender can not keep it waiting for ever.
FiveOctetsDecide == Len(received) >= MaxGroups => verdict.status # "TRUNCATED"

\* An answer other than TRUNCATED never changes when more octets arrive: what
\* was accepted from a short buffer is accepted from a longer one with the same
\* value, and what was refused stays refused (the order of the range check, the
\* end-of-number check and the end-of-buffer check, extension.c:73-95).
AnswerIsFinal == [][verdict.status # "TRUNCATED" => verdict' = verdict]_vars
=============================================================================
