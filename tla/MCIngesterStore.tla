-------------------------- MODULE MCIngesterStore --------------------------
(* Values for the constants of IngesterStore. *)
EXTENDS IngesterStore

Dest(type, gvr, value) == [type |-> type, gvr |-> gvr, value |-> value]

Plain == [source |-> "s1", ingester |-> "informer", sources |-> <<>>,
          destinations |-> <<Dest("crd", "absent", "observations")>>,
          sections |-> {"informer"},
          processing |-> [order |-> Absent, dedup |-> Absent, filter |-> Absent],
          deduplication |-> Absent, filters |-> Absent]

\* Another destination, after one of another kind and one that is invalid.
Tickets == [Plain EXCEPT
  !.destinations = <<Dest("webhook", "absent", "hook"), Dest("crd", "invalid", "tickets"),
                     Dest("crd", "partial", "tickets")>>,
  !.processing = [order |-> "dedup_first", dedup |-> "unset", filter |-> "f"],
  !.deduplication = "false", !.filters = "g"]

\* The source renamed, older places of the settings.
Renamed == [Plain EXCEPT
  !.source = "s2", !.ingester = "logs", !.sections = {"logs"},
  !.destinations = <<Dest("crd", "alerts", "")>>,
  !.deduplication = "unset", !.filters = "g"]

\* No usable destination.
Broken == [Plain EXCEPT !.destinations = <<Dest("crd", "invalid", "tickets")>>]

Multi == [Plain EXCEPT
  !.source = "", !.ingester = "",
  !.sources = <<[name |-> "a", type |-> "informer", section |-> TRUE],
                [name |-> "b", type |-> "webhook", section |-> FALSE]>>]

MCSpecs == {Plain, Tickets, Renamed, Broken, Multi}
=============================================================================
