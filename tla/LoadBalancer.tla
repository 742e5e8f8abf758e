---------------------------- MODULE LoadBalancer ----------------------------
(***************************************************************************)
(* UpstreamBalancer (run/slave/src/load_balancer.rs): one cursor per group *)
(* of endpoints, shared by every route that uses the group.                *)
(* A worker owns its balancer, so selections are sequential, in the order  *)
(* in which the requests of the different routes arrive.                   *)
(***************************************************************************)
EXTENDS Configuration

VARIABLES
  cursors,    \* HashMap<String, u64>; a key that is absent counts as 0
  answers,    \* the last Result of each route: <<"Ok", url>> or <<"Err", error>>
  served      \* history: per key, selections of each endpoint since the cursor was 0

NoAnswer == <<>>

balancerVars == <<cursors, answers, served>>

-----------------------------------------------------------------------------
(* The endpoints a route chooses from, and the cursor it uses.               *)

Route(r) == Action(config, r)
Named(a) == a.upstream_group # None
Known(a) == Named(a) => a.upstream_group \in DOMAIN config.upstreams
Pool(a) == IF Named(a) THEN config.upstreams[a.upstream_group].servers ELSE a.upstreams
Policy(a) == IF Named(a) THEN config.upstreams[a.upstream_group].policy ELSE a.policy

\* The text group_key builds from the policy, the URLs and the weights, in order.  Two
\* pools are taken to have one key only if they are equal: no URL contains "#", digits
\* and "|", which separate the endpoints in that text.
group_key(a) == <<"inline", a.policy, a.upstreams>>
Key(a) == IF Named(a) THEN <<"named", a.upstream_group>> ELSE group_key(a)

\* Mutant: an endpoint keeps its turn one position too long.
Boundary_inclusive(pool, position, i) == position <= Weights(pool, i)

Boundary(pool, position, i) == position < Weights(pool, i)

\* The index of the endpoint at a cursor.
Selected(a, cursor) ==
  IF Policy(a) = "RoundRobin"
  THEN (cursor % Len(Pool(a))) + 1
  ELSE Min({i \in DOMAIN Pool(a) : Boundary(Pool(a), cursor % Total(Pool(a)), i)})

Failure(a) ==
  IF Configured(a) > 1 THEN "AmbiguousUpstream"
  ELSE IF a.upstream # None THEN None
  ELSE IF ~Known(a) THEN "UnknownGroup"
  ELSE IF Pool(a) = <<>> THEN "MissingUpstream"
  ELSE IF Policy(a) = "WeightedRoundRobin" /\ Total(Pool(a)) >= Modulus THEN "InvalidWeight"
  ELSE None

Balanced(a) == Failure(a) = None /\ a.upstream = None

BalancedRoutes == {r \in Routes(config) : Balanced(Route(r))}
Keys == {Key(Route(r)) : r \in BalancedRoutes}

-----------------------------------------------------------------------------
\* cursor.wrapping_add(1)
Advance(cursor) == (cursor + 1) % Modulus

\* A request of route r gets an endpoint of its group...
SelectEndpoint(r) ==
  LET a == Route(r)
      k == Key(a)
      i == Selected(a, cursors[k])
      n == served[k]
  IN  /\ Balanced(a)
      /\ cursors' = [cursors EXCEPT ![k] = Advance(@)]
      /\ answers' = [answers EXCEPT ![r] = <<"Ok", Pool(a)[i].url>>]
      /\ served' = [served EXCEPT ![k] =
                      IF cursors'[k] = 0 THEN [j \in DOMAIN n |-> 0]
                      ELSE [n EXCEPT ![i] = n[i] + 1]]

\* ... or its one upstream or an error, without a cursor.
SelectFixed(r) ==
  LET a == Route(r)
  IN  /\ ~Balanced(a)
      /\ answers' = [answers EXCEPT ![r] = IF Failure(a) = None THEN <<"Ok", a.upstream>>
                                          ELSE <<"Err", Failure(a)>>]
      /\ UNCHANGED <<cursors, served>>

select(r) == SelectEndpoint(r) \/ SelectFixed(r)

BalancerInit ==
  /\ cursors = [k \in Keys |-> 0]
  /\ answers = [r \in Routes(config) |-> NoAnswer]
  /\ served = [k \in Keys |->
                 LET r == CHOOSE r \in BalancedRoutes : Key(Route(r)) = k
                 IN  [i \in DOMAIN Pool(Route(r)) |-> 0]]

-----------------------------------------------------------------------------
\* For a configuration validate let through, no request ends in a BalanceError or
\* goes to a blank URL: each error select can return is excluded by a check there.
ValidatedRoutesGetAnUpstream ==
  \A r \in Routes(config) :
    answers[r] # NoAnswer => answers[r][1] = "Ok" /\ answers[r][2] # Blank

\* What one turn round the group gives endpoint i.
Share(a, i) == IF Policy(a) = "RoundRobin" THEN 1 ELSE Pool(a)[i].weight
Turn(a) == IF Policy(a) = "RoundRobin" THEN Len(Pool(a)) ELSE Total(Pool(a))

\* However the routes of a group interleave with each other and with the routes
\* of other groups, every full turn of its cursor has chosen each endpoint as often
\* as its weight says, and a turn under way has not exceeded it; the cursor is a u64.
GroupShareIsExact ==
  \A r \in BalancedRoutes :
    LET a == Route(r)
        turns == cursors[Key(a)] \div Turn(a)
        n == served[Key(a)]
    IN  cursors[Key(a)] < Modulus /\ \A i \in DOMAIN n :
          /\ n[i] \in turns * Share(a, i) .. (turns + 1) * Share(a, i)
          /\ cursors[Key(a)] % Turn(a) = 0 => n[i] = turns * Share(a, i)

=============================================================================
