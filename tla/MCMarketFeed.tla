---------------------------- MODULE MCMarketFeed ----------------------------
(***************************************************************************)
(* An instance of MarketFeed for TLC.                                      *)
(***************************************************************************)
EXTENDS MarketFeed

CONSTANTS niftyId, goldId  \* two security ids (model values)

McLists == {{niftyId}, {niftyId, goldId}}
=============================================================================
