------------------------------ MODULE MCFanout ------------------------------
(***************************************************************************)
(* A hub whose clients authenticate, are closed by the application or send  *)
(* too much, that is closed, that has more broadcasts than its channel      *)
(* holds; an SSE server that is closed, one that has topics and whose       *)
(* clients are closed by the application; a bus with and without room for   *)
(* "k".  Trackers with a topic, its consumer taking one message or a batch, *)
(* and without; log files by hour and by day, compressed and not.           *)
(***************************************************************************)
EXTENDS Fanout

HubConfig(kind, auth, direct, closes, kicks, oversized, messages) ==
  [kind |-> kind, auth |-> auth, direct |-> direct, closes |-> closes,
   kicks |-> kicks, oversized |-> oversized, messages |-> messages]

MCHubConfigs ==
  {HubConfig("ws", TRUE, FALSE, FALSE, FALSE, FALSE, 1),
   HubConfig("ws", FALSE, FALSE, FALSE, TRUE, TRUE, 1),
   HubConfig("ws", FALSE, FALSE, TRUE, FALSE, FALSE, 1),
   HubConfig("ws", FALSE, FALSE, FALSE, FALSE, FALSE, 2),
   HubConfig("sse", FALSE, TRUE, FALSE, TRUE, FALSE, 1),
   HubConfig("sse", FALSE, FALSE, TRUE, FALSE, FALSE, 1)}

BusConfig(name, star, later) == [named |-> name, all |-> star, later |-> later]

MCBusConfigs ==
  {BusConfig(<<"h", "i", "j">>, <<"k">>, {"l"}),
   BusConfig(<<"h">>, <<"k">>, {"i", "j"})}

VisitOf(i, user, path, door) ==
  [id |-> i, user |-> user, path |-> path, door |-> door]

V1 == VisitOf(1, "u", <<"/a">>, "http")
V2 == VisitOf(2, "u", <<"S", "A">>, "grpc")
V3 == VisitOf(3, "v", <<"/a">>, "http")
V4 == VisitOf(4, "", <<"/a">>, "http")
V5 == VisitOf(5, "v", <<"Health", "Check">>, "grpc")
MCSkipPaths == {<<"/health">>}
MCSkipMethods == {<<"Health", "*">>}
MCVisits == {V1, V2, V3, V4, V5}

ActivityConfig(async, batched, sampled, window, visits, failures) ==
  [async |-> async, batch |-> batched, sampled |-> sampled, window |-> window,
   visits |-> visits, slips |-> failures]

MCActivityConfigs ==
  {ActivityConfig(TRUE, FALSE, FALSE, 1, {V1, V2}, 1),
   ActivityConfig(TRUE, TRUE, FALSE, 1, {V1, V2, V3}, 0),
   ActivityConfig(TRUE, TRUE, FALSE, 1, {V1, V2}, 1),
   ActivityConfig(FALSE, FALSE, FALSE, 0, {V1, V3}, 1),
   ActivityConfig(FALSE, FALSE, TRUE, 1, {V1, V4, V5}, 0)}

LogConfig(hourly, compress, hours, lines, slides, failures) ==
  [hourly |-> hourly, keep |-> 1, compress |-> compress, hours |-> hours,
   lines |-> lines, slides |-> slides, mishaps |-> failures]

MCLogConfigs ==
  {LogConfig(TRUE, FALSE, 5, 3, 2, 0), LogConfig(FALSE, TRUE, 8, 3, 0, 1),
   LogConfig(TRUE, TRUE, 8, 3, 1, 0), LogConfig(FALSE, FALSE, 4, 2, 1, 1)}
=============================================================================
