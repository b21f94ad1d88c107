------------------------------ MODULE Delivery ------------------------------
(***************************************************************************)
(* What a session promises its handler: the messages that were sent, each  *)
(* once, in the order of the sender, from the first one on and without a   *)
(* hole.  It does not promise to hand over all of them: it may stop.       *)
(***************************************************************************)
EXTENDS Sequences, SequencesExt

VARIABLES
  sent,       \* the messages sent so far
  delivered   \* those handed over

Init == delivered = <<>>

(* The sender goes on, the session hands over some of what it has sent, or *)
(* both.                                                                   *)
Next ==
  /\ IsPrefix(sent, sent')
  /\ IsPrefix(delivered, delivered')
  /\ IsPrefix(delivered', sent')

Spec == Init /\ [][Next]_<<sent, delivered>>

=============================================================================
