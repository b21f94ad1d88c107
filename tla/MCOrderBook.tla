----------------------------- MODULE MCOrderBook -----------------------------
(* Three ids, two prices, quantities 1 and 2.  A word of five values makes *)
(* the contract's size bound bite: three orders of 2 do not fit one level. *)
EXTENDS OrderBook

MCIds        == 1 .. 3
MCPrices     == 1 .. 2
MCQuantities == 1 .. 2

=============================================================================
