---------------------------- MODULE MCProxyCache ----------------------------
(***************************************************************************)
(* Values for model-checking ProxyCache.                                   *)
(***************************************************************************)
EXTENDS ProxyCache, TLC

Page(s, p) == [site |-> s, port |-> p]

ThreePages == {Page("home", 80), Page("tiny", 80), Page("log", 80)}
TwoServers == {Page("home", 15213), Page("home", 15215)}

Symmetry == Permutations(Workers)
=============================================================================
