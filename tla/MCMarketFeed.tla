---------------------------- MODULE MCMarketFeed ----------------------------
(* Two markets, so that one is fetched while messages of the other wait.    *)
EXTENDS MarketFeed

MCMarketIds == <<"m1", "m2">>

=============================================================================
