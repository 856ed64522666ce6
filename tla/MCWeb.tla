-------------------------------- MODULE MCWeb --------------------------------
(***************************************************************************)
(* Web on a small instance: two users and the jobs they are at at the same *)
(* time.                                                                   *)
(***************************************************************************)
EXTENDS Web, TLC

CONSTANTS b1, b2

Edit(g, v) == [group |-> g, values |-> v]

MCEdits ==
  [name    |-> Edit("general", [name |-> <<"letter", "dash", "digit">>]),
   noname  |-> Edit("general", [name |-> <<"dash", "letter">>]),
   protect |-> Edit("web", [protected |-> TRUE, username |-> "user", password |-> "secret"]),
   open    |-> Edit("web", [protected |-> TRUE, username |-> "user"]),
   station |-> Edit("wifi", [mode |-> "sta", sta_ssid |-> "home", sta_psk |-> "secret"]),
   mqtt    |-> Edit("mqtt", [enabled |-> TRUE, publish_format |-> "json", password |-> "",
                             server |-> Server("mqtt", <<"letter", "dot", "letter">>, 1883)])]

MCDocuments == {[k \in DOMAIN Defaults \ {"mqtt"} |-> Marshal(Defaults)[k]], Marshal(Defaults)}

Scenario(j1, j2, c, f) == [jobs |-> (b1 :> j1 @@ b2 :> j2), crashes |-> c, faults |-> f]

MCScenarios ==
  {Scenario(<<"save">>, <<"save">>, 0, 0),
   Scenario(<<"save", "save">>, <<>>, 1, 1),
   Scenario(<<"save">>, <<"upload">>, 0, 0),
   Scenario(<<"save">>, <<"pairings">>, 0, 0),
   Scenario(<<"script">>, <<"reset">>, 0, 1),
   Scenario(<<"upload">>, <<"upload", "upload">>, 0, 0),
   Scenario(<<"upload">>, <<"upload no firmware">>, 1, 1)}
=============================================================================
