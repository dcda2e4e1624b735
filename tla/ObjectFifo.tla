----------------------------- MODULE ObjectFifo -----------------------------
(***************************************************************************)
(* What a stream of self-delimiting objects promises a receiver, without   *)
(* octets, buffers, lengths or decoders: the objects sent come out whole,  *)
(* once each and in order, up to the first that the receiver may not act   *)
(* on; there, and only there, it may give up.  WireStream implements it    *)
(* (include/mcl/extension.h: CANONICAL LAYOUT, CRITICALITY).               *)
(***************************************************************************)
EXTENDS Naturals, Sequences

CONSTANT Admissible(_)  \* the receiver may act on this object

VARIABLES sent,         \* what is sent, an immutable queue
          delivered,    \* what has been handed to the user, in order
          closed        \* the receiver has given up

vars == <<sent, delivered, closed>>

Pending == Len(delivered) < Len(sent)
Due     == sent[Len(delivered) + 1]

Deliver ==
    /\ ~closed /\ Pending /\ Admissible(Due)
    /\ delivered' = Append(delivered, Due)
    /\ UNCHANGED <<sent, closed>>

Close ==
    /\ ~closed /\ Pending /\ ~Admissible(Due)
    /\ closed' = TRUE
    /\ UNCHANGED <<sent, delivered>>

Init == delivered = <<>> /\ closed = FALSE

Next == Deliver \/ Close

Safety == Init /\ [][Next]_vars

\* An object that may be delivered is delivered.  A receiver that meets one it may
\* not act on is not promised to notice: it may be waiting for its end.
Spec == Safety /\ WF_vars(Deliver)
=============================================================================
