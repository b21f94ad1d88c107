---------------------------- MODULE MCPmdHandler ----------------------------
(* Two instruments that may be subscribed at any time; two orders.         *)
EXTENDS PmdHandler

MCIds     == {1, 2}
MCPrices  == {1, 2}
MCSymbols == {"FOO     ", "BAR     "}
MCQuantities == {1, 2}

=============================================================================
