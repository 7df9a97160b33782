------------------------------ MODULE MCPriceFeed ------------------------------
(* PriceFeed for TLC: every agent watches every symbol.                     *)
EXTENDS PriceFeed

EveryoneWatchesAll == [a \in Agents |-> Symbols]
=============================================================================
