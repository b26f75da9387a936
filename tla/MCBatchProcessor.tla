--------------------------- MODULE MCBatchProcessor ---------------------------
(* Two sources, each with its reader, whose batches one sweep visits.           *)
EXTENDS BatchProcessor, TLC

CONSTANTS s1, s2, r1, r2

MCTwoSources == r1 :> s1 @@ r2 :> s2
===============================================================================
