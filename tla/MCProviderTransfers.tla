------------------------ MODULE MCProviderTransfers ------------------------
(* Small instances of ProviderTransfers for TLC. *)
EXTENDS ProviderTransfers, TLC

CONSTANTS t1, t2, t3, a, b

TwoTransfers == {t1, t2}
ThreeTransfers == {t1, t2, t3}
OneContent == {a}
TwoContents == {a, b}

ValueSymmetry == Permutations(Transfers) \cup Permutations(Contents)
=============================================================================
