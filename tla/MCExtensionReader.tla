------------------------- MODULE MCExtensionReader -------------------------
(***************************************************************************)
(* The reader on every block of at most MaxBlock octets over a few octets  *)
(* of the real alphabet: 0 to 4 and 6 are whole numbers (keys of the ids   *)
(* 0 to 3, critical and not, and lengths that fit, just fit and do not),   *)
(* 128 begins a padded number and 129 a two-octet one.  Longer blocks over *)
(* fewer octets hold two elements with values, or three.                   *)
(***************************************************************************)
EXTENDS ExtensionReader

CONSTANT MaxBlock   \* bound on the length of a block over all the octets

MCBlocks ==
    UNION {[1 .. n -> {0, 1, 2, 3, 4, 6, 128, 129}] : n \in 0 .. MaxBlock}
        \cup [1 .. MaxBlock + 1 -> {0, 1, 2, 4, 6}]
        \cup [1 .. MaxBlock + 2 -> {0, 2, 4, 6}]
=============================================================================
