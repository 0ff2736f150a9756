----------------------- MODULE MCProviderCredentials -----------------------
(* Small instances of ProviderCredentials for TLC. *)
EXTENDS ProviderCredentials, TLC

CONSTANTS d1, d2

TwoDestinations == {d1, d2}

DestinationSymmetry == Permutations(Destinations)
=============================================================================
