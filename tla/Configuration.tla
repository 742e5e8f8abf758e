---------------------------- MODULE Configuration ----------------------------
(***************************************************************************)
(* The configuration of a worker (crates/core/src/runtime/config.rs):      *)
(* servers with their locations, upstream groups, and Config::validate,    *)
(* which every configuration read by from_toml has passed.                 *)
(*                                                                         *)
(* A server is [listen, server_name, ssl, locations], where ssl is the set *)
(* of the parts given in its [ssl] table, {} without one; a location is    *)
(* [type, path, action].  An action has a kind; Action::Proxy also has     *)
(* upstream, upstream_group, upstreams and policy.                         *)
(***************************************************************************)
EXTENDS Integers, Sequences, FiniteSetsExt

CONSTANTS
  Modulus      \* 2^64: cursors and weight sums are u64

ASSUME ModulusAssumption == Modulus \in Nat \ {0}

VARIABLE
  config       \* [servers, upstreams]; upstreams is a function of the group's name

BalancePolicy == {"RoundRobin", "WeightedRoundRobin"}
UpstreamEndpoint == [url : STRING, weight : Nat]
UpstreamGroup == [policy : BalancePolicy, servers : Seq(UpstreamEndpoint)]
Proxy ==
  [kind : {"proxy"}, upstream : STRING, upstream_group : STRING,
   upstreams : Seq(UpstreamEndpoint), policy : BalancePolicy]

\* What serde makes of a file, before from_toml checks it.
IsConfig(c) ==
  /\ c.servers \in
       Seq([listen : STRING, server_name : STRING, ssl : SUBSET STRING,
            locations : Seq([type : {"exact", "prefix"}, path : Seq(STRING),
                             action : [kind : {"response", "static"}] \cup Proxy])])
  /\ \A g \in DOMAIN c.upstreams : c.upstreams[g] \in UpstreamGroup

None == "none"
Blank == "blank"  \* a string that trims to nothing

\* A route is the place of a proxy location: its server and its index there.
Action(c, r) == c.servers[r[1]].locations[r[2]].action

Routes(c) ==
  UNION {{<<s, l>> : l \in {l \in DOMAIN c.servers[s].locations :
                              c.servers[s].locations[l].action.kind = "proxy"}} :
           s \in DOMAIN c.servers}

\* The weights of the first n endpoints, added in order.
Weights(pool, n) ==
  LET sum[k \in 0 .. Len(pool)] == IF k = 0 THEN 0 ELSE sum[k - 1] + pool[k].weight
  IN  sum[n]
Total(pool) == Weights(pool, Len(pool))

Cardinal(b) == IF b THEN 1 ELSE 0
Configured(a) ==
  Cardinal(a.upstream # None) + Cardinal(a.upstream_group # None) + Cardinal(a.upstreams # <<>>)

\* deserialize_upstream_weight: no weight in a file is zero.
Weighted(pool) == \A i \in DOMAIN pool : pool[i].weight > 0

validate_endpoints(pool) ==
  (\A i \in DOMAIN pool : pool[i].url # Blank) /\ Total(pool) < Modulus

\* The parts an [ssl] table must not leave empty.
SslParts == {"certificate_path", "private_key_path", "protocols", "ciphers"}

\* Mutant: the group a route names is not looked up.
validate_without_lookup(c) ==
  /\ \A g \in DOMAIN c.upstreams :
       LET s == c.upstreams[g].servers IN g # Blank /\ s # <<>> /\ validate_endpoints(s)
  /\ \A s \in DOMAIN c.servers : c.servers[s].ssl \in {{}, SslParts}
  /\ \A r \in Routes(c) : LET a == Action(c, r) IN
       Configured(a) = 1 /\ a.upstream # Blank /\ validate_endpoints(a.upstreams)

validate(c) ==
  /\ \A g \in DOMAIN c.upstreams :
       LET s == c.upstreams[g].servers IN g # Blank /\ s # <<>> /\ validate_endpoints(s)
  /\ \A s \in DOMAIN c.servers : c.servers[s].ssl \in {{}, SslParts}
  /\ \A r \in Routes(c) : LET a == Action(c, r) IN
       /\ Configured(a) = 1 /\ a.upstream # Blank /\ validate_endpoints(a.upstreams)
       /\ a.upstream_group \in {None} \cup DOMAIN c.upstreams

\* The file is deserialized, weight by weight, and validated.
from_toml(c) ==
  /\ \A g \in DOMAIN c.upstreams : Weighted(c.upstreams[g].servers)
  /\ \A r \in Routes(c) : Weighted(Action(c, r).upstreams)
  /\ validate(c)

=============================================================================
