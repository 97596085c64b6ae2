------------------------------- MODULE MCGeLazy -------------------------------
(* One thread feeds every list.                                            *)
EXTENDS GeLazy

CONSTANTS t, d1, d2

MCFeeds == [d \in List |-> t]
=============================================================================
