-------------------------- MODULE MCIdentityProvider --------------------------
(* Two codes that can be exchanged in either order, with either verifier.     *)
EXTENDS IdentityProvider

MCMaxGeneration == [n \in Names |-> 2]

MCLifetimes == {-1, 2}

\* A token that starts later, and lasts until then.
MCExtras == {[nbf |-> 2, exp |-> 3]}

=============================================================================
