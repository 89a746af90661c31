----------------------------- MODULE MCListener -----------------------------
(* Two setups; the templates around the first one with unknown txid. *)
EXTENDS Listener
MCMined == {Proof, Challenge, ProofUncontested}
=============================================================================
