----------------------------- MODULE MCPlatform -----------------------------
(***************************************************************************)
(* A small instance of every component of Platform for TLC.                *)
(***************************************************************************)
EXTENDS Platform

\* Two keys of one exchange and one of another.
SmallExchanges == <<"bybit", "bybit", "okx">>

SmallOwners == [t \in {"strategy"} |-> "u"]

\* A text that starts with the codes of two channels.
SmallPrefixes == [t \in {"abcde"} |-> <<"abcd", "abc">>]
=============================================================================
