------------------------------ MODULE MCIngest ------------------------------
(* Values for Ingest's constants.                                          *)
EXTENDS Ingest

\* Slots 2 and 3 had no trade.
WithQuietSlots == {0, 1, 4, 5, 6}

EverySlot == 0..LastClock
=============================================================================
