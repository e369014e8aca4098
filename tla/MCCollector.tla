---------------------------- MODULE MCCollector ----------------------------
(***************************************************************************)
(* Two signals with three exporters, and some configurations.           *)
(***************************************************************************)
EXTENDS Collector

Protocols(grpc, http, arrow, separate, mixed) ==
  [grpc |-> grpc, http |-> http, arrow |-> arrow, separate |-> separate, mixed |-> mixed]

MCConfig ==
  {Protocols(TRUE, TRUE, "enabled", TRUE, TRUE),
   Protocols(TRUE, FALSE, "disabled", TRUE, TRUE),
   Protocols(FALSE, TRUE, "absent", FALSE, FALSE)}

Item(weight, exporters) == [weight |-> weight, exporters |-> exporters]

\* A route without weight, one without exporters, a name that is no ID.
MCTables ==
  {<<Item(2, <<"a", "b">>), Item(0, <<"a">>), Item(1, <<"gone">>)>>,
   <<Item(1, <<"a", NoID>>)>>,
   <<>>}

MCSignals == <<"traces", "logs">>

MCExporter == {<<"traces", "a">>, <<"traces", "b">>, <<"logs", "b">>}
=============================================================================
