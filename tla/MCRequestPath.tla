---------------------------- MODULE MCRequestPath ----------------------------
(***************************************************************************)
(* Instances of RequestPath for TLC: families of configurations, each with *)
(* the requests that tell its members apart.                               *)
(***************************************************************************)
EXTENDS RequestPath, SequencesExt

\* Two spellings of a name.
MCNames == {"www", "WWW"}
MCLower == [n \in MCNames |-> "www"]

Response == [kind |-> "response"]
Location(type, p, action) == [type |-> type, path |-> p, action |-> action]
Prefix(p) == Location("prefix", p, Response)
ExactPath(p) == Location("exact", p, Response)
Server(locations) ==
  [listen |-> "A", server_name |-> None, ssl |-> {}, locations |-> locations]
OneServer(locations) == [servers |-> <<Server(locations)>>, upstreams |-> <<>>]

MCAsk(host, target, method, match, range, headers) ==
  [host |-> host, target |-> target, method |-> method, match |-> match,
   range |-> range, headers |-> headers]
Get(host, target) == MCAsk(host, target, "GET", FALSE, NoRange, <<>>)

\* Up to three servers on two addresses: nested prefixes in either order, and an exact
\* location behind and before them.
MCLocations ==
  { <<Prefix(<<>>), Prefix(<<"a">>), ExactPath(<<"a">>)>>,
    <<ExactPath(<<"a", "b">>), Prefix(<<"a">>), Prefix(<<>>), Prefix(<<"a">>)>>,
    <<Prefix(<<"a", "b">>), Prefix(<<"a">>)>> }

MCServers ==
  [listen : {"A", "B"}, server_name : {None} \cup MCNames, ssl : {{}}, locations : MCLocations]

Routed == {[servers |-> s, upstreams |-> <<>>] : s \in SeqOf(MCServers, 3)}
RoutedAsks ==
  {Get(h, t) : h \in {None} \cup MCNames,
               t \in {<<"b">>, <<"a">>, <<"a", "b">>, <<"a", "b", "?">>}}

\* Two proxy locations and a group.  Two pools pass from_toml and four do not: without
\* endpoints, with weights whose sum overflows, with a blank URL, with a zero weight.
Endpoint(url, weight) == [url |-> url, weight |-> weight]
MCPools ==
  { <<Endpoint("a", 3), Endpoint("b", 1), Endpoint("c", 2)>>,
    <<Endpoint("a", 1), Endpoint("b", 1)>>,
    <<>>, <<Endpoint("a", 5), Endpoint("b", 5)>>, <<Endpoint(Blank, 1)>>,
    <<Endpoint("a", 0)>> }

Proxies ==
  [kind : {"proxy"}, upstream : {None, Blank, "direct"}, upstream_group : {None, "api", "web"},
   upstreams : MCPools, policy : BalancePolicy]

Balancing ==
  {[servers |-> <<Server(<<Location("prefix", <<"a">>, p), Location("prefix", <<"b">>, q)>>)>>,
    upstreams |-> [g \in {"api"} |-> u]] :
     p \in Proxies, q \in {q \in Proxies : Configured(q) = 1 /\ q.upstream # Blank},
     u \in [policy : BalancePolicy, servers : MCPools]}
BalancingAsks == {Get(None, <<"a">>), Get(None, <<"b">>)}

\* One static location, and every Range header; numbers go past the end of the file.
Bytes == 0 .. MaxSize + 1
Ranges ==
  [form : {"dash"}, start : {Empty} \cup Bytes, end : {Empty} \cup Bytes]
    \cup {[form |-> "dash", start |-> s, end |-> e] : s \in {Empty, Junk, 0}, e \in {Junk, Empty}}
    \cup {[form |-> f] : f \in {"other", "list", "bare"}} \cup {NoRange}

Files == OneServer(<<Location("prefix", <<>>, [kind |-> "static"])>>)
FilesAsks ==
  {MCAsk(None, <<>>, "GET", FALSE, r, <<>>) : r \in Ranges}
    \cup {MCAsk(None, <<>>, m, b, NoRange, <<>>) : m \in {"GET", "HEAD", "POST"}, b \in BOOLEAN}

\* Up to three headers; a body that fits, one that does not, and one whose end wraps.
Headers ==
  [name : {"content-length"}, value : {Junk, 0, MaxRead - HeadLen, MaxRead, Modulus - 1}]
    \cup [name : {"transfer-encoding", "accept"}, value : {Junk}]

Framing == OneServer(<<Prefix(<<>>)>>)
FramingAsks == {MCAsk(None, <<>>, "POST", FALSE, NoRange, h) : h \in SeqOf(Headers, 3)}

MCConfigs == Routed \cup Balancing \cup {Files, Framing}

MCAsks(c) ==
  CASE Static(c) -> FilesAsks
    [] c = Framing -> FramingAsks
    [] Routes(c) # {} -> BalancingAsks
    [] OTHER -> RoutedAsks

\* Only the balancer keeps state from one request to the next.
MCRequests(c) == IF Routes(c) # {} THEN 10 ELSE 1

=============================================================================
