----------------------------- MODULE Admission -----------------------------
(***************************************************************************)
(* What handleRequest decides before its only await: access control, the   *)
(* rate limit tier and its limiter, and the route, with the limiter        *)
(* registry those decisions build up, the tier entities an admin may       *)
(* replace between any two requests, and the metrics they are counted in.  *)
(*                                                                         *)
(* The decisions of one request run in one turn, so a request is one       *)
(* action, named for the way it ends.  The Cedar engine is external: its   *)
(* verdicts on a request are free, "deny" for a failure among them.  A     *)
(* limiter is what its own modules promise: it admits a key until its      *)
(* capacity is spent, and what was spent comes back with time.             *)
(*                                                                         *)
(* A string is here the sequence of what its colons separate, so that      *)
(* joining two with a colon is \o, and a:GET:/x may be put together in two *)
(* ways, just as in the code.                                              *)
(***************************************************************************)
EXTENDS Integers, Sequences, FiniteSets

CONSTANTS
  Tenants,     \* values of x-tenant-id
  Endpoints,   \* method and path, joined
  Configs,     \* the configurations tier entities may carry
  NoConfig,    \* no such entity, or no strategy and capacity in it
  NoLimiter,   \* the registry has none under this key
  MaxHandled   \* bound on the requests handled

Missing == -1  \* an attribute that is not a number
Strategies == {"token-bucket", "sliding-window"}
ConfigTypes == [strategy : Strategies, capacity : Nat,
                windowMs : Nat \cup {Missing}, refillRate : Nat \cup {Missing}]

NoTenant == <<>>        \* the header is missing or empty
Global == <<"global">>  \* what requests without a tenant are limited under

\* Tenants and paths may hold colons.
ASSUME NamesAssumption ==
  /\ Tenants \cup {Global} \subseteq Seq(STRING) /\ \A t \in Tenants : Len(t) >= 1
  /\ Endpoints \subseteq Seq(STRING) /\ \A e \in Endpoints : Len(e) >= 2
ASSUME ConfigsAssumption ==
  Configs \subseteq ConfigTypes /\ NoConfig \notin Configs /\ MaxHandled \in Nat

Tiers == 1..2                     \* standard, premium: the last that applies counts
Clients == Tenants \cup {NoTenant}

\* The operator ?? of the source.
Or(x, default) == IF x = Missing THEN default ELSE x

\* Mutant: the key leaves the window out.
Key_NoWindow(c) == <<c.strategy, c.capacity, 0, Or(c.refillRate, 0)>>

\* configKey: a missing number and 0 give the same key.
Key(c) == <<c.strategy, c.capacity, Or(c.windowMs, 0), Or(c.refillRate, 0)>>

Keys == {Key(c) : c \in Configs}

\* createLimiter: what the limiter made from a configuration enforces.
Limiter(c) ==
  [strategy |-> c.strategy, capacity |-> c.capacity,
   rate |-> IF c.strategy = "token-bucket"
            THEN Or(c.refillRate, (c.capacity + 59) \div 60)
            ELSE Or(c.windowMs, 60000)]

LimiterTypes == [strategy : Strategies, capacity : Nat, rate : Nat]

ASSUME LimiterAssumption == NoLimiter \notin LimiterTypes

\* The constructors throw unless both numbers are positive.
Constructible(c) == Limiter(c).capacity > 0 /\ Limiter(c).rate > 0

\* Mutant: one key for all tenants.
RateKey_PerEndpoint(t, e) == Global \o e

\* `${tenantId ?? "global"}:${method}:${path}`
RateKey(t, e) == (IF t = NoTenant THEN Global ELSE t) \o e

RateKeys == {RateKey(t, e) : t \in Clients, e \in Endpoints}

VARIABLES
  tierConfig,  \* the store's entities: the configuration of each tier
  limiters,    \* LimiterRegistry.limiters
  spent,       \* what each limiter remembers of each rate limit key
  evaluated,   \* gateway_policy_evaluation_seconds_count, by action
  counted,     \* gateway_requests_total, by status, of what is answered before the proxy
  limitHits,   \* gateway_rate_limit_hits_total
  proxied,     \* history: requests handed to the proxy
  granted,     \* history: what each client owes to each limiter, by endpoint
  refused      \* history: the request a limiter refused last, with that limiter;
               \* <<>> if the last one was allowed

registry == <<limiters, spent>>
metrics == <<evaluated, counted, limitHits>>
vars == <<tierConfig, registry, metrics, proxied, granted, refused>>

Actions == {"access", "ratelimit", "route"}
Statuses == {"403", "404", "500"}

\* Types: limiters are kept under the keys of configurations.
TypeOK ==
  /\ tierConfig \in [Tiers -> Configs \cup {NoConfig}]
  /\ limiters \in [Keys -> LimiterTypes \cup {NoLimiter}]
  /\ spent \in [Keys \X RateKeys -> Nat]
  /\ evaluated \in [Actions -> Nat] /\ counted \in [Statuses -> Nat]
  /\ limitHits \in Nat /\ proxied \in Nat
  /\ granted \in [Keys \X Clients \X Endpoints -> Nat]
  /\ refused \in Keys \X Clients \X Endpoints \/ refused = <<>>

Init ==
  /\ tierConfig \in [Tiers -> Configs \cup {NoConfig}]
  /\ limiters = [k \in Keys |-> NoLimiter]
  /\ spent = [x \in Keys \X RateKeys |-> 0]
  /\ evaluated = [a \in Actions |-> 0] /\ counted = [s \in Statuses |-> 0]
  /\ limitHits = 0 /\ proxied = 0
  /\ granted = [x \in Keys \X Clients \X Endpoints |-> 0]
  /\ refused = <<>>

-----------------------------------------------------------------------------
(* The rate limiter.                                                        *)

\* The tiers Cedar permits the request, and that have a configuration.
Applicable(permitted) == {i \in permitted : tierConfig[i] # NoConfig}

\* check() looks from the last tier to the first.
Matched(permitted) ==
  tierConfig[CHOOSE i \in Applicable(permitted) : \A j \in Applicable(permitted) : j <= i]

Usable(c) == limiters[Key(c)] # NoLimiter \/ Constructible(c)

\* get(): the limiter registered, or else a new one, registered now.
Registered(c) ==
  IF limiters[Key(c)] = NoLimiter THEN [limiters EXCEPT ![Key(c)] = Limiter(c)] ELSE limiters

\* Mutant: a new limiter for every request.
Spent_Fresh(c, t, e) == 0

\* What the limiter get() returns remembers of this request's key.
Spent(c, t, e) == IF limiters[Key(c)] = NoLimiter THEN 0 ELSE spent[<<Key(c), RateKey(t, e)>>]

\* consume() admits the request.
Admits(c, t, e) ==
  /\ Usable(c)
  /\ Spent(c, t, e) < Registered(c)[Key(c)].capacity
  /\ limiters' = Registered(c)
  /\ spent' = [spent EXCEPT ![<<Key(c), RateKey(t, e)>>] = Spent(c, t, e) + 1]
  /\ granted' = [granted EXCEPT ![<<Key(c), t, e>>] = @ + 1]
  /\ refused' = <<>>

\* A limiter remembers less and less of what it admitted.
Recover(k, t, e) ==
  /\ granted[<<k, t, e>>] > 0
  /\ granted' = [granted EXCEPT ![<<k, t, e>>] = @ - 1]
  /\ spent' = [spent EXCEPT ![<<k, RateKey(t, e)>>] = @ - 1]
  /\ UNCHANGED <<tierConfig, limiters, metrics, proxied, refused>>

-----------------------------------------------------------------------------
(* handleRequest, and the metrics it writes on the way.                     *)

Evaluated(actions) ==
  evaluated' = [a \in Actions |-> IF a \in actions THEN evaluated[a] + 1 ELSE evaluated[a]]

Count(status) == counted' = [counted EXCEPT ![status] = @ + 1]

Handled == evaluated["access"] < MaxHandled

\* Access is denied: nothing else is asked, and no allowance is spent.
Deny ==
  /\ Handled /\ Evaluated({"access"}) /\ Count("403")
  /\ UNCHANGED <<tierConfig, registry, limitHits, proxied, granted, refused>>

\* The tier's numbers are no limiter's: the constructor throws, nothing is
\* registered, and the catch block counts a 500.
LimiterThrows(permitted) ==
  /\ Handled /\ Applicable(permitted) # {} /\ ~Usable(Matched(permitted))
  /\ Evaluated({"access"}) /\ Count("500")
  /\ UNCHANGED <<tierConfig, registry, limitHits, proxied, granted, refused>>

\* Mutant: the evaluation is timed after the answer's return.
RateLimited_Untimed(t, e, permitted) ==
  /\ Handled /\ Applicable(permitted) # {}
  /\ LET c == Matched(permitted) IN
       /\ Usable(c) /\ Spent(c, t, e) >= Registered(c)[Key(c)].capacity
       /\ limiters' = Registered(c) /\ refused' = <<Key(c), t, e>>
  /\ limitHits' = limitHits + 1 /\ Evaluated({"access"})
  /\ UNCHANGED <<tierConfig, spent, counted, proxied, granted>>

\* The allowance is spent: 429, counted apart from the other answers.
RateLimited(t, e, permitted) ==
  /\ Handled /\ Applicable(permitted) # {}
  /\ LET c == Matched(permitted) IN
       /\ Usable(c) /\ Spent(c, t, e) >= Registered(c)[Key(c)].capacity
       /\ limiters' = Registered(c) /\ refused' = <<Key(c), t, e>>
  /\ limitHits' = limitHits + 1 /\ Evaluated({"access", "ratelimit"})
  /\ UNCHANGED <<tierConfig, spent, counted, proxied, granted>>

\* Within its limit, or under no tier at all, the request goes on to be routed:
\* not permitted or without a backend it is 404, and its allowance is spent all the same.
Route(t, e, permitted, found) ==
  /\ Handled
  /\ IF Applicable(permitted) = {} THEN UNCHANGED <<registry, granted, refused>>
     ELSE Admits(Matched(permitted), t, e)
  /\ Evaluated(Actions)
  /\ IF found THEN proxied' = proxied + 1 /\ UNCHANGED counted
     ELSE Count("404") /\ UNCHANGED proxied
  /\ UNCHANGED <<tierConfig, limitHits>>

\* PUT /admin/entities, or a load: limiters know nothing of it.
SetEntities(i, c) ==
  /\ tierConfig[i] # c
  /\ tierConfig' = [tierConfig EXCEPT ![i] = c]
  /\ UNCHANGED <<registry, metrics, proxied, granted, refused>>

Next ==
  \/ Deny
  \/ \E permitted \in SUBSET Tiers :
       \/ LimiterThrows(permitted)
       \/ \E t \in Clients, e \in Endpoints :
            \/ RateLimited(t, e, permitted)
            \/ \E found \in BOOLEAN : Route(t, e, permitted, found)
  \/ \E k \in Keys, t \in Clients, e \in Endpoints : Recover(k, t, e)
  \/ \E i \in Tiers, c \in Configs \cup {NoConfig} : SetEntities(i, c)

Spec == Init /\ [][Next]_vars

-----------------------------------------------------------------------------
(* Safety.                                                                  *)

\* Whatever order tiers are configured, asked and changed in, the limiter under
\* a key enforces what every sound configuration with that key says, a missing
\* number taken for its default.  (A 0 is not sound: it throws, or is served by
\* the limiter a missing number has made.)
LimitersFit ==
  \A c \in Configs :
    Constructible(c) /\ limiters[Key(c)] # NoLimiter => limiters[Key(c)] = Limiter(c)

\* No client is admitted beyond a limiter's capacity before the limiter forgets,
\* though its tier is reconfigured there and back: limiters outlive the change.
CapacityHolds ==
  \A c \in Configs, t \in Clients, e \in Endpoints : granted[<<Key(c), t, e>>] <= c.capacity

\* Nothing but a tenant's own request for this endpoint is limited under this key:
\* no part holds a colon, and the tenant is not the one called global.
Plain(t, e) == Len(t) = 1 /\ Len(e) = 2 /\ t # Global

\* A tenant is refused only for what it has itself been granted, as long as neither
\* its name nor the path holds a colon and it is not called global.  Without that
\* the README's "Each tenant gets its own rate limit counters" does not hold:
\* tenant a asking for /y:GET:/x and tenant a:GET:/y asking for /x spend one
\* allowance, and so do the tenant global and requests without a tenant.
RefusedForOwnSpending ==
  [][limitHits' # limitHits =>
       LET k == refused'[1]  t == refused'[2]  e == refused'[3] IN
         Plain(t, e) => granted[refused'] = limiters'[k].capacity]_vars

\* At every scrape the counts add up: who was evaluated for access was refused,
\* failed, or was evaluated for a tier, and so on to the proxy.  (What becomes of
\* a request there, and how it is counted then, is Gateway's CountedOnce.)
MetricsBalance ==
  /\ evaluated["access"] = counted["403"] + counted["500"] + evaluated["ratelimit"]
  /\ evaluated["ratelimit"] = limitHits + evaluated["route"]
  /\ evaluated["route"] = counted["404"] + proxied

-----------------------------------------------------------------------------
(* The inductive invariant behind them.                                     *)

\* A registered limiter was made from a sound configuration with its key, and
\* has admitted no key beyond its capacity; one not yet made remembers nothing.
RegistryInv ==
  \A k \in Keys :
    /\ limiters[k] # NoLimiter =>
         \E c \in Configs : Key(c) = k /\ Constructible(c) /\ limiters[k] = Limiter(c)
    /\ \A x \in RateKeys :
         IF limiters[k] = NoLimiter THEN spent[<<k, x>>] = 0
         ELSE spent[<<k, x>>] <= limiters[k].capacity

\* What a limiter has granted, by g, to all who share a key, unit by unit.
Sharing(x) == {r \in Clients \X Endpoints : RateKey(r[1], r[2]) = x}
Units(g, k, x) == UNION {{r} \X (1..g[<<k, r[1], r[2]>>]) : r \in Sharing(x)}

\* What a limiter remembers of a key is what the requests with that key owe it.
OwedInv ==
  \A k \in Keys, x \in RateKeys :
    /\ IsFiniteSet(Units(granted, k, x))
    /\ spent[<<k, x>>] = Cardinality(Units(granted, k, x))

\* The whole inductive invariant of the registry.
IInv == TypeOK /\ RegistryInv /\ OwedInv
=============================================================================
