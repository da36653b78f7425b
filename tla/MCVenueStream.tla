---------------------------- MODULE MCVenueStream -----------------------------
(* Values for VenueStream's constants: all four adapters, source numbers of   *)
(* two bits.                                                                  *)
EXTENDS VenueStream

MCBinance == {"Binance"}
MCCoinbase == {"Coinbase"}
MCVenues == {"Binance", "Coinbase", "Kraken", "Okx"}
===============================================================================
