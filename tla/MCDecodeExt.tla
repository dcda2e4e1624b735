---------------------------- MODULE MCDecodeExt ----------------------------
(***************************************************************************)
(* Buffers for the extension-aware decoder: a ten-octet body that promises *)
(* a block, and what may stand behind it.                                  *)
(***************************************************************************)
EXTENDS DecodeExt

CONSTANT MaxTail    \* bound on the octets after a body with extension_present

\* DEGRADED_STATE at major 0 (six padding bits), priority 2.
Degraded == <<6 * 1, 8 + 4, 0, 0, 0, 7, 3, 255, 64, 64>>
WithBlock(body) == [body EXCEPT ![2] = @ + 1]

Alphabet == {0, 1, 2, 3, 5, 128}

Tails == UNION {[1 .. n -> Alphabet] : n \in 0 .. MaxTail}

\* Blocks of the largest size, and of one octet more.
LongTails == {<<BlockMax>> \o octets : octets \in [1 .. BlockMax -> {0, 1, 3, 5}]}
                 \cup {<<BlockMax + 1>> \o octets : octets \in [1 .. BlockMax + 1 -> {1, 2}]}

\* Blocks of four octets, which is what two critical extensions take at least.
PairTails == {<<4>> \o octets : octets \in [1 .. 4 -> {0, 1, 2, 3, 5}]}

OneCallInputs == {WithBlock(Degraded) \o tail : tail \in Tails \cup PairTails \cup LongTails}
=============================================================================
