------------------------------- MODULE Routing -------------------------------
(***************************************************************************)
(* From configuration to action: bind_worker_listeners groups the servers  *)
(* by address (run/slave/src/listener.rs), select_server picks one by the  *)
(* Host header of a request and route picks one of its locations           *)
(* (run/slave/src/router.rs).  Paths and targets are sequences of          *)
(* characters.                                                             *)
(***************************************************************************)
EXTENDS Configuration

CONSTANTS
  Names,       \* host names, as spelt in server_name and Host
  Lower        \* a name in lower case: eq_ignore_ascii_case compares these

ASSUME RoutingAssumption == None \notin Names /\ Lower \in [Names -> Names]

VARIABLES
  groups,      \* Vec<ListenerGroup>
  next,        \* the server bind_worker_listeners has reached
  request,     \* [group, ask]: the last request and the group its connection came through
  chosen       \* [server, location] it was given; location 0 is a 404

servers == config.servers

NoRequest == [group |-> 0]
NoChoice == [server |-> 0, location |-> 0]

routingVars == <<groups, next, request, chosen>>

-----------------------------------------------------------------------------
(* bind_worker_listeners.                                                    *)

\* Mutant: a server joins the group opened last.
GroupOf_last(address) == IF groups = <<>> THEN {} ELSE {Len(groups)}

GroupOf(address) == {g \in DOMAIN groups : groups[g].address = address}

\* One server joins the first group of its address, or opens one and is its default.
BindServer ==
  LET address == servers[next].listen
      joined == GroupOf(address)
  IN  /\ next \in DOMAIN servers
      /\ groups' =
           IF joined = {}
           THEN Append(groups, [address |-> address, default_server |-> next,
                                server_indices |-> <<next>>])
           ELSE [groups EXCEPT ![Min(joined)].server_indices = Append(@, next)]
      /\ next' = next + 1
      /\ UNCHANGED <<config, request, chosen>>

-----------------------------------------------------------------------------
(* A request on a connection of one listener group.                          *)

Same(a, b) == a # None /\ b # None /\ Lower[a] = Lower[b]

\* host is the Host header without its port.
select_server(group, host) ==
  LET indices == group.server_indices
      named == {k \in DOMAIN indices : Same(servers[indices[k]].server_name, host)}
  IN  IF named = {} THEN group.default_server ELSE indices[Min(named)]

starts_with(target, path) ==
  Len(path) <= Len(target) /\ \A i \in DOMAIN path : path[i] = target[i]

ExactMatches(locations, target) ==
  {i \in DOMAIN locations : locations[i].type = "exact" /\ locations[i].path = target}

PrefixMatches(locations, target) ==
  {i \in DOMAIN locations : locations[i].type = "prefix" /\ starts_with(target, locations[i].path)}

\* max_by_key: of the longest ones, the last.
Longest(locations, S) ==
  {i \in S : \A j \in S : Len(locations[j].path) <= Len(locations[i].path)}

\* The index of the location whose action is taken; 0 if there is none.
route(locations, target) ==
  LET exact == ExactMatches(locations, target)
      longest == Longest(locations, PrefixMatches(locations, target))
  IN  IF exact # {} THEN Min(exact) ELSE IF longest # {} THEN Max(longest) ELSE 0

RoutingInit == groups = <<>> /\ next = 1 /\ request = NoRequest /\ chosen = NoChoice

-----------------------------------------------------------------------------
\* The server that answers is, of those configured for the address the client
\* connected to, the first that has the name of the Host header, or else the first.
HostSelectsServer ==
  LET here == {i \in DOMAIN servers : servers[i].listen = groups[request.group].address}
      named == {i \in here : Same(servers[i].server_name, request.ask.host)}
  IN  chosen # NoChoice => chosen.server = Min(IF named = {} THEN here ELSE named)

\* The locations that match a target.
Matching(locations, t) ==
  {i \in DOMAIN locations : IF locations[i].type = "exact" THEN locations[i].path = t
                            ELSE starts_with(t, locations[i].path)}

\* An exact match wins, otherwise no matching prefix is longer than the i-th location.
Best(locations, t, i) ==
  LET m == Matching(locations, t)
  IN  IF m = {} THEN i = 0
      ELSE /\ i \in m
           /\ locations[i].type = "prefix" =>
                \A j \in m : /\ locations[j].type = "prefix"
                             /\ Len(locations[j].path) <= Len(locations[i].path)

ExactThenLongestPrefix ==
  chosen # NoChoice =>
    Best(servers[chosen.server].locations, request.ask.target, chosen.location)

\* However servers of several addresses are mixed in the configuration, a request goes
\* to the server and the location the configuration means: bind_worker_listeners,
\* select_server and route together lose no order.
RequestIsRouted == HostSelectsServer /\ ExactThenLongestPrefix

=============================================================================
