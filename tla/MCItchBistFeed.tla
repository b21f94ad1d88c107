--------------------------- MODULE MCItchBistFeed ---------------------------
(***************************************************************************)
(* Instances of the feed.  Symbols are strings, as the empty one is the    *)
(* symbol of the system events.  A position is no order id: a position is  *)
(* a rank in the book, an order id a number of the exchange's own.         *)
(***************************************************************************)
EXTENDS ItchBistFeed

(* Instruments with a symbol each.                                         *)
MCInstruments == {"AKBNK.E", "GARAN.E"}
MCOwnKey      == [n \in MCInstruments |-> n]
MCThree       == {"AKBNK.E", "GARAN.E", "THYAO.E"}
MCThreeKeys   == [n \in MCThree |-> n]
MCOneKey      == [n \in {"AKBNK.E"} |-> n]
MCDecimalsOf  == [n \in MCThree |-> IF n = "AKBNK.E" THEN 2 ELSE 3]

(* Two agents of one symbol; the same and an agent of a second symbol.     *)
MCTwoReaders    == [a \in {1, 2} |-> "AKBNK.E"]
MCThreeAgents   == {1, 2, 3}
MCThreeReaders  == [a \in MCThreeAgents |-> IF a = 3 THEN "GARAN.E" ELSE "AKBNK.E"]
MCOneInstrument == {"AKBNK.E"}
MCOneReader     == [a \in {1} |-> "AKBNK.E"]

MCOne == {1}
MCTwo == {1, 2}
MCIdsAndPosition == {1, 2, 9}
MCIdAndPosition  == {1, 9}
MCPosition == {9}

=============================================================================
