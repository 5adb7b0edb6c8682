--------------------------- MODULE MCTradeScreens ---------------------------
(* An instance of TradeScreens for TLC.                                    *)
EXTENDS TradeScreens
=============================================================================
