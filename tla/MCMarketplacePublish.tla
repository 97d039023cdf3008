------------------------ MODULE MCMarketplacePublish ------------------------
(* MarketplacePublish with few publishers, packages and edits.             *)
EXTENDS MarketplacePublish, TLC

CONSTANTS p1, p2

PublisherSymmetry == Permutations(Publishers)
=============================================================================
