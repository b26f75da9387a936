--------------------------- MODULE MCOrchestrator ---------------------------
(* Instances of Orchestrator for TLC. *)
EXTENDS Orchestrator, TLC

CONSTANTS i1, i2, p1, p2

MCIngesters == {i1, i2}
MCPaths == {p1, p2}

\* "a" and "b" are sources of the multi-source Ingester i1, "c" is one of
\* i2; "l" is a legacy identifier that both may use.
MCSources == {"a", "b", "c", "l"}
MCOwner == [s \in MCSources |-> CASE s \in {"a", "b"} -> i1 [] s = "c" -> i2
                                  [] OTHER -> None]

Informer(s) == [source |-> s, type |-> "informer", valid |-> TRUE,
                path |-> None, ver |-> 0]
Webhook(s, p) == [source |-> s, type |-> "webhook", valid |-> TRUE,
                  path |-> p, ver |-> 0]
Logs(s) == [source |-> s, type |-> "logs", valid |-> TRUE,
            path |-> None, ver |-> 0]
Invalid(s, t) == [source |-> s, type |-> t, valid |-> FALSE,
                  path |-> None, ver |-> 0]

\* Types and paths change, sources come, go and fail, two Ingesters may
\* claim one path, and the legacy Ingesters collide on a source.
SafetySpecs ==
    (i1 :> {{Informer("a"), Webhook("b", p1)}, {Webhook("a", p1)},
            {Invalid("a", "webhook"), Webhook("b", p1)},
            {Invalid("a", "webhook"), Informer("b")}, {Informer("l")}}
     @@ i2 :> {{Logs("c")}, {Webhook("c", p1)}, {Webhook("l", p2)},
            {Invalid("l", "unknown")}})

\* The path of a webhook is edited.
VersionSpecs ==
    (i1 :> {{Webhook("a", p1)}, {Webhook("a", p2)}}
     @@ i2 :> {{Logs("c")}})

NoSource == {}
SourceB == {"b"}
=============================================================================
