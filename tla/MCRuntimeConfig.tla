--------------------------- MODULE MCRuntimeConfig ---------------------------
(* Instances of RuntimeConfig for TLC. *)
EXTENDS RuntimeConfig

CONSTANTS f1, f2

MCDefaults == [enabled |-> TRUE, excluded |-> "system"]
MCFeatures == {[excluded |-> "more"], [enabled |-> FALSE]}
MCFilters == {f1, f2}
AtStart == {"env", "filter"}
Edited == {"base", "filter"}
=============================================================================
