----------------------------- MODULE MCCollector -----------------------------
(* Instances of Collector for TLC. *)
EXTENDS Collector

CONSTANTS c1, c2

TwoObjects == 1..2
TwoCollectors == {c1, c2}
Both == {"default", "team"}
Unset == {0}
=============================================================================
