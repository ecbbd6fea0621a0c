------------------------------ MODULE BackfillMC ------------------------------
(* Enough records for a full buffer, two files and a position in the middle of *)
(* each; one record per message.                                               *)
EXTENDS Backfill

MCMaxRecords == [s \in Streams |-> IF s = "temp" THEN 4 ELSE 1]
=============================================================================
