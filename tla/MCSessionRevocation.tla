------------------------ MODULE MCSessionRevocation ------------------------
(* Small instances of SessionRevocation. *)
EXTENDS SessionRevocation, TLC

CONSTANTS s1, s2, h1, h2

HookSymmetry == Permutations(Hooks)
=============================================================================
