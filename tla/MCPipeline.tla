------------------------------ MODULE MCPipeline ------------------------------
(* An instance of Pipeline.  Two events of s1 differ in content but not in   *)
(* the fields s1 compares, so that they race through dedup; those of s2 have *)
(* nothing in common but exceed what the deduper takes of s2 at once.        *)
EXTENDS Pipeline, TLC

CONSTANTS e1, e2, e3, e4, k1, k2, k3, k4, s1, s2

MCSource == (e1 :> s1) @@ (e2 :> s1) @@ (e3 :> s2) @@ (e4 :> s2)
MCKey    == (e1 :> k1) @@ (e2 :> k2) @@ (e3 :> k3) @@ (e4 :> k4)
MCFields == (k1 :> k1) @@ (k2 :> k1) @@ (k3 :> k3) @@ (k4 :> k4)
MCFilters == {{}, {k1, k3, k4}}
MCGvr == (s1 :> "observations") @@ (s2 :> "alerts")
MCAllowedGVRs == {"observations", "alerts"}
MCDeniedGVRs == {"secrets"}
MCAllowedNamespaces == {"default"}
MCHookNamespaces == {[meta |-> "", resource |-> "other"]}

\* s1 filters first and is rate limited, s2 deduplicates first, by content and
\* with one event in a window.
MCConfigs ==
  (s1 :> [order |-> "filter_first", perMinute |-> 60, burst |-> 1,
          strategy |-> "key", maxEvents |-> 0]) @@
  (s2 :> [order |-> "dedup_first", perMinute |-> 0, burst |-> 0,
          strategy |-> "event-stream", maxEvents |-> 1])

\* The workers are interchangeable, and so are the two events of s2.
Swap == (e3 :> e4) @@ (e4 :> e3) @@ (k3 :> k4) @@ (k4 :> k3)
Symmetry == Permutations(Workers) \cup {Swap} \cup {Swap @@ p : p \in Permutations(Workers)}
===============================================================================
