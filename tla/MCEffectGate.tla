----------------------------- MODULE MCEffectGate -----------------------------
(***************************************************************************)
(* An instance of EffectGate with interchangeable effects.                 *)
(***************************************************************************)
EXTENDS EffectGate, TLC

CONSTANTS e1, e2

MCEffect == {e1, e2}

Symmetry == Permutations(MCEffect)

=============================================================================
