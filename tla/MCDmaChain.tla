----------------------------- MODULE MCDmaChain -----------------------------
(* Small instances of DmaChain.                                            *)
EXTENDS DmaChain

OneOrTwo == {<<"static">>, <<"dynamic", "static">>, <<"static", "dynamic">>}
=============================================================================
