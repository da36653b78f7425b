-------------------------- MODULE MCCapturePipeline ---------------------------
(* The venues to model; the .cfg files give the other constants: two or three *)
(* prices, and a level is there or not.                                       *)
EXTENDS CapturePipeline

MCBinance == {"Binance"}
MCKraken == {"Kraken"}
MCVenues == {"Binance", "Kraken"}
===============================================================================
