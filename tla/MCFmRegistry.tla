---------------------------- MODULE MCFmRegistry ----------------------------
(* An instance of FmRegistry: the handlers are interchangeable.            *)
EXTENDS FmRegistry, TLC

CONSTANTS h1, h2, h3

ThreeHandlers == {h1, h2, h3}
HandlerSymmetry == Permutations(ThreeHandlers)
=============================================================================
