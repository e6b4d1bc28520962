----------------------------- MODULE MCPricing -----------------------------
(* Two loops over a clock of a few hours; the source has no price for
   one of them. *)
EXTENDS Pricing, TLC

CONSTANTS mainnet, gnosis

MCChains == {mainnet, gnosis}
LoopSymmetry == Permutations(MCChains)
MCQuotes == (0..MaxTime) \ {2}
=============================================================================
