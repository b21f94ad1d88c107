------------------------------ MODULE EventLoop ------------------------------
(***************************************************************************)
(* What the event loops of the algorithms promise: "Messages from T0 are   *)
(* put on the event loop of the algorithm's thread and handled in T1"      *)
(* (bist_algo_base.h:26).  Each algorithm has its own and handles its      *)
(* events in the order in which they were raised, each once, and sees the  *)
(* book as the event's message left it, as if nothing ran in between.  An  *)
(* event is the number of that message.  It is not promised that every     *)
(* event is handled: an algorithm may be stopped.                          *)
(***************************************************************************)
EXTENDS Naturals, Sequences

CONSTANTS
  Algos,
  Messages   \* the numbers of the messages

VARIABLES
  raised,   \* the events raised for each algorithm
  ticked    \* the messages whose book the ticks of each algorithm have seen

Init ==
  /\ raised = [a \in Algos |-> <<>>]
  /\ ticked = [a \in Algos |-> <<>>]

Raise(a, m) ==
  /\ raised' = [raised EXCEPT ![a] = Append(@, m)]
  /\ UNCHANGED ticked

Tick(a) ==
  /\ Len(ticked[a]) < Len(raised[a])
  /\ ticked' = [ticked EXCEPT ![a] = Append(@, raised[a][Len(@) + 1])]
  /\ UNCHANGED raised

Next == \E a \in Algos : Tick(a) \/ \E m \in Messages : Raise(a, m)

Spec == Init /\ [][Next]_<<raised, ticked>>

=============================================================================
