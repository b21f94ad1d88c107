--------------------------- MODULE MCAlgoPipeline ---------------------------
(* Two algorithms that share a symbol; the second also follows another.    *)
EXTENDS AlgoPipeline

MCAlgos     == {1, 2}
MCSymbols   == {"AKBNK.E", "GARAN.E"}
MCSymbolsOf == <<{"AKBNK.E"}, MCSymbols>>

MCDebug   == {TRUE}
MCBoth    == BOOLEAN

=============================================================================
