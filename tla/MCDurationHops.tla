--------------------------- MODULE MCDurationHops ---------------------------
(***************************************************************************)
(* Durations around every place where the encoding changes: all of the     *)
(* first bands, and in every band its bottom, the next code above it, its  *)
(* top and the gap above that, each with its two neighbours.               *)
(***************************************************************************)
EXTENDS DurationHops

Near(n) == {n - 1, n, n + 1}

MCLifetimes ==
    0 .. 300
        \cup UNION {Near(BandBottom(e)) \cup Near(17 * Step[e]) \cup Near(BandTop(e))
                        \cup Near(32 * Step[e]) : e \in Band}

\* From a second to most of a day.
MCPauses == {1, 5, 17, 255, 8191, 70000}

\* At once, or longer than the shortest lifetimes.
MCTransits == {0, 5}
=============================================================================
