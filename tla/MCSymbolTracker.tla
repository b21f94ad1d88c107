--------------------------- MODULE MCSymbolTracker ---------------------------
(* A tracker of two symbols, and one of the first of them only, as in the  *)
(* demo program, which tracks AKBNK.E twice.                               *)
EXTENDS SymbolTracker, TLC

CONSTANTS o1, o2, o3

MCInstruments == {"AKBNK.E", "GARAN.E"}
MCKeyOf       == [n \in MCInstruments |-> n]
MCDecimalsOf  == [n \in MCInstruments |-> 2]
MCAgents      == {1, 2, 3}
MCSymbolOf    == [a \in MCAgents |-> IF a = 2 THEN "GARAN.E" ELSE "AKBNK.E"]
MCTrackers    == {1, 2}
MCTrackerOf   == [a \in MCAgents |-> IF a = 3 THEN 2 ELSE 1]

MCTwo  == {1, 2}
MCOrderIds == {o1, o2, o3}
MCNone == {}

(* Nothing depends on which order has which id.                            *)
MCSymmetry == Permutations(MCOrderIds)

(* Order book 1 is AKBNK.E's.  As long as only this one is listed, it may  *)
(* have three orders; then the two have orders of the smallest quantity    *)
(* with two ids, and no trades.                                            *)
MCBounds ==
  /\ \A id \in DOMAIN listing : listing[id] = "AKBNK.E" <=> id = 1
  /\ \/ 2 \notin DOMAIN listing
     \/ /\ 2 \in DOMAIN listing /\ \A t \in Trackers : ts[t].trades = 0
        /\ Cardinality({o.id : o \in resting}) <= 2 /\ \A o \in resting : o.quantity = 1

=============================================================================
