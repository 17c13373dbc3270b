-------------------------- MODULE AdmissionProofs --------------------------
(***************************************************************************)
(* Theorems about Admission, for any tenants, endpoints and configurations.*)
(***************************************************************************)
EXTENDS Admission, FiniteSetTheorems, SequenceTheorems, TLAPS

\* The key decides the limiter: two sound configurations with one key enforce the same.
LEMMA KeyDecides ==
  ASSUME NEW c \in Configs, NEW d \in Configs,
         Constructible(c), Constructible(d), Key(c) = Key(d)
  PROVE  Limiter(c) = Limiter(d)
BY ConfigsAssumption DEF ConfigTypes, Strategies, Constructible, Limiter, Key, Or, Missing

\* A limiter made from a configuration has the configuration's capacity.
LEMMA LimiterTyped ==
  ASSUME NEW c \in Configs
  PROVE  /\ Key(c) \in Keys /\ c.capacity \in Nat
         /\ Limiter(c) \in LimiterTypes /\ Limiter(c) # NoLimiter
         /\ Limiter(c).capacity = c.capacity
<1>1. Key(c) \in Keys
  BY DEF Keys
<1>2. c.strategy \in Strategies /\ c.capacity \in Nat /\ Limiter(c).rate \in Nat
  BY ConfigsAssumption DEF ConfigTypes, Limiter, Or, Missing
<1>3. Limiter(c) \in LimiterTypes
  BY <1>2 DEF Limiter, LimiterTypes
<1> QED BY <1>1, <1>2, <1>3, LimiterAssumption DEF Limiter

\* Configurations with one key have one capacity.
LEMMA KeyHasCapacity ==
  ASSUME NEW c \in Configs, NEW d \in Configs, Key(c) = Key(d)
  PROVE  c.capacity = d.capacity
BY DEF Key

\* The tier that applies has a configuration.
LEMMA MatchedTyped ==
  ASSUME TypeOK, NEW permitted \in SUBSET Tiers, Applicable(permitted) # {}
  PROVE  Matched(permitted) \in Configs
<1>1. \A i \in Applicable(permitted) : i \in Tiers /\ i \in Int /\ (i = 1 \/ i = 2)
  BY DEF Applicable, Tiers
<1>2. \E i \in Applicable(permitted) : \A j \in Applicable(permitted) : j <= i
  <2>1. CASE 2 \in Applicable(permitted)
    BY <1>1, <2>1
  <2>2. CASE 2 \notin Applicable(permitted)
    <3>1. 1 \in Applicable(permitted) /\ \A j \in Applicable(permitted) : j = 1
      BY <1>1, <2>2
    <3> QED BY <3>1
  <2> QED BY <2>1, <2>2
<1>3. PICK i \in Applicable(permitted) : Matched(permitted) = tierConfig[i]
  BY <1>2 DEF Matched
<1> QED BY <1>3 DEF Applicable, TypeOK, Tiers

\* The key of a request is one of the limiter's.
LEMMA RateKeyTyped ==
  ASSUME NEW t \in Clients, NEW e \in Endpoints
  PROVE  RateKey(t, e) \in RateKeys
BY DEF RateKeys

-----------------------------------------------------------------------------
(* What the requests under one key owe.                                     *)

LEMMA UnitsPair ==
  ASSUME NEW g, NEW k, NEW x, NEW r \in Sharing(x), NEW i
  PROVE  <<r, i>> \in Units(g, k, x) <=> i \in 1..g[<<k, r[1], r[2]>>]
<1>1. ASSUME i \in 1..g[<<k, r[1], r[2]>>] PROVE <<r, i>> \in Units(g, k, x)
  BY <1>1 DEF Units
<1>2. ASSUME <<r, i>> \in Units(g, k, x) PROVE i \in 1..g[<<k, r[1], r[2]>>]
  <2>1. PICK s \in Sharing(x) : <<r, i>> \in {s} \X (1..g[<<k, s[1], s[2]>>])
    BY <1>2 DEF Units
  <2>2. r = s /\ i \in 1..g[<<k, s[1], s[2]>>]
    BY <2>1
  <2> QED BY <2>2
<1> QED BY <1>1, <1>2

LEMMA UnitsArePairs ==
  ASSUME NEW g, NEW k, NEW x, NEW u \in Units(g, k, x)
  PROVE  \E r \in Sharing(x), i \in Int : u = <<r, i>>
<1>1. PICK r \in Sharing(x) : u \in {r} \X (1..g[<<k, r[1], r[2]>>])
  BY DEF Units
<1>2. PICK i \in 1..g[<<k, r[1], r[2]>>] : u = <<r, i>>
  BY <1>1
<1> QED BY <1>2

LEMMA Shorter ==
  ASSUME NEW m \in Nat, m > 0
  PROVE  1..(m - 1) = (1..m) \ {m} /\ m \in 1..m
OBVIOUS

\* One request's share of them has as many elements as it was granted.
LEMMA ShareCounts ==
  ASSUME NEW r, NEW n \in Nat
  PROVE  IsFiniteSet({r} \X (1..n)) /\ Cardinality({r} \X (1..n)) = n
<1> DEFINE f == [i \in 1..n |-> <<r, i>>]
<1>1. f \in Bijection(1..n, {r} \X (1..n))
  <2>1. f \in Injection(1..n, {r} \X (1..n))
    BY DEF Injection, IsInjective
  <2>2. f \in Surjection(1..n, {r} \X (1..n))
    <3>1. f \in [1..n -> {r} \X (1..n)]
      OBVIOUS
    <3>2. ASSUME NEW u \in {r} \X (1..n) PROVE \E i \in 1..n : f[i] = u
      <4>1. PICK i \in 1..n : u = <<r, i>>
        OBVIOUS
      <4> QED BY <4>1
    <3> QED BY <3>1, <3>2 DEF Surjection
  <2> QED BY <2>1, <2>2 DEF Bijection
<1>2. ExistsBijection(1..n, {r} \X (1..n))
  BY <1>1 DEF ExistsBijection
<1>3. IsFiniteSet(1..n) /\ Cardinality(1..n) = n
  BY FS_Interval
<1> QED BY <1>2, <1>3, FS_Bijection

\* Nothing is registered, spent or owed at first.
LEMMA InitIInv == Init => IInv
<1> SUFFICES ASSUME Init PROVE IInv
  OBVIOUS
<1>1. TypeOK
  BY DEF Init, TypeOK
<1>2. RegistryInv
  BY DEF Init, RegistryInv
<1>3. OwedInv
  <2> SUFFICES ASSUME NEW k \in Keys, NEW x \in RateKeys
               PROVE  IsFiniteSet(Units(granted, k, x)) /\ spent[<<k, x>>] = Cardinality(Units(granted, k, x))
    BY DEF OwedInv
  <2>1. ASSUME NEW r \in Sharing(x) PROVE granted[<<k, r[1], r[2]>>] = 0
    BY DEF Init, Sharing
  <2>2. ASSUME NEW u \in Units(granted, k, x) PROVE FALSE
    <3>1. PICK r \in Sharing(x), i \in Int : u = <<r, i>>
      BY <2>2, UnitsArePairs
    <3>2. i \in 1..granted[<<k, r[1], r[2]>>]
      BY <3>1, UnitsPair
    <3> QED BY <2>1, <3>2
  <2>3. Units(granted, k, x) = {}
    BY <2>2
  <2> QED BY <2>3, FS_EmptySet DEF Init
<1> QED BY <1>1, <1>2, <1>3 DEF IInv

\* What get() returns: a limiter made from a sound configuration with this key,
\* that remembers no more of the request's key than its capacity.
LEMMA RegisteredCorrect ==
  ASSUME IInv, NEW c \in Configs, NEW t \in Clients, NEW e \in Endpoints, Usable(c)
  PROVE  /\ Registered(c) \in [Keys -> LimiterTypes \cup {NoLimiter}]
         /\ \A k \in Keys \ {Key(c)} : Registered(c)[k] = limiters[k]
         /\ limiters[Key(c)] # NoLimiter => Registered(c) = limiters
         /\ Registered(c)[Key(c)] # NoLimiter
         /\ \E d \in Configs : /\ Key(d) = Key(c) /\ Constructible(d)
                               /\ Registered(c)[Key(c)] = Limiter(d)
         /\ Registered(c)[Key(c)].capacity = c.capacity
         /\ Spent(c, t, e) = spent[<<Key(c), RateKey(t, e)>>]
         /\ Spent(c, t, e) <= c.capacity
<1>1. Key(c) \in Keys /\ Limiter(c) \in LimiterTypes /\ Limiter(c) # NoLimiter
      /\ Limiter(c).capacity = c.capacity /\ c.capacity \in Nat
  BY LimiterTyped
<1>2. RateKey(t, e) \in RateKeys
  BY RateKeyTyped
<1>3. CASE limiters[Key(c)] = NoLimiter
  <2>1. Constructible(c) /\ Registered(c) = [limiters EXCEPT ![Key(c)] = Limiter(c)]
    BY <1>3 DEF Usable, Registered
  <2>2. Spent(c, t, e) = 0 /\ spent[<<Key(c), RateKey(t, e)>>] = 0
    BY <1>1, <1>2, <1>3 DEF Spent, IInv, RegistryInv
  <2> QED BY <1>1, <1>3, <2>1, <2>2 DEF IInv, TypeOK
<1>4. CASE limiters[Key(c)] # NoLimiter
  <2>1. Registered(c) = limiters /\ Spent(c, t, e) = spent[<<Key(c), RateKey(t, e)>>]
    BY <1>4 DEF Registered, Spent
  <2>2. PICK d \in Configs : Key(d) = Key(c) /\ Constructible(d) /\ limiters[Key(c)] = Limiter(d)
    BY <1>1, <1>4 DEF IInv, RegistryInv
  <2>3. limiters[Key(c)].capacity = c.capacity
    BY <2>2, LimiterTyped, KeyHasCapacity
  <2>4. Spent(c, t, e) <= c.capacity
    BY <1>1, <1>2, <1>4, <2>1, <2>3 DEF IInv, RegistryInv
  <2> QED BY <1>4, <2>1, <2>2, <2>3, <2>4 DEF IInv, TypeOK
<1> QED BY <1>3, <1>4

\* Registering a limiter keeps the invariant.
LEMMA RegisterStep ==
  ASSUME IInv, NEW c \in Configs, NEW t \in Clients, NEW e \in Endpoints, Usable(c),
         limiters' = Registered(c), UNCHANGED <<spent, granted>>, TypeOK'
  PROVE  IInv'
<1>1. RegistryInv'
  <2> SUFFICES ASSUME NEW k \in Keys
               PROVE  /\ limiters'[k] # NoLimiter =>
                           \E d \in Configs : /\ Key(d) = k /\ Constructible(d)
                                              /\ limiters'[k] = Limiter(d)
                      /\ \A x \in RateKeys :
                           IF limiters'[k] = NoLimiter THEN spent[<<k, x>>] = 0
                           ELSE spent[<<k, x>>] <= limiters'[k].capacity
    BY DEF RegistryInv
  <2>1. CASE k # Key(c) \/ limiters[Key(c)] # NoLimiter
    <3>1. limiters'[k] = limiters[k]
      BY <2>1, RegisteredCorrect
    <3> QED BY <3>1 DEF IInv, RegistryInv
  <2>2. CASE k = Key(c) /\ limiters[Key(c)] = NoLimiter
    <3>1. \A x \in RateKeys : spent[<<k, x>>] = 0
      BY <2>2 DEF IInv, RegistryInv
    <3>2. limiters'[k] # NoLimiter /\ limiters'[k].capacity \in Nat
      BY <2>2, RegisteredCorrect, LimiterTyped
    <3>3. \E d \in Configs : Key(d) = k /\ Constructible(d) /\ limiters'[k] = Limiter(d)
      BY <2>2, RegisteredCorrect
    <3> QED BY <3>1, <3>2, <3>3
  <2> QED BY <2>1, <2>2
<1>2. OwedInv'
  BY DEF IInv, OwedInv
<1> QED BY <1>1, <1>2 DEF IInv

\* A limiter remembers of a key at least what any one client with it owes.
LEMMA OwesNoMore ==
  ASSUME IInv, NEW k \in Keys, NEW t \in Clients, NEW e \in Endpoints
  PROVE  granted[<<k, t, e>>] <= spent[<<k, RateKey(t, e)>>]
<1> DEFINE x == RateKey(t, e)  r == <<t, e>>  n == granted[<<k, t, e>>]
<1>1. x \in RateKeys /\ n \in Nat
  BY RateKeyTyped DEF IInv, TypeOK
<1>2. IsFiniteSet(Units(granted, k, x)) /\ spent[<<k, x>>] = Cardinality(Units(granted, k, x))
  BY <1>1 DEF IInv, OwedInv
<1>3. r \in Sharing(x) /\ r[1] = t /\ r[2] = e
  BY DEF Sharing
<1>4. {r} \X (1..n) \subseteq Units(granted, k, x)
  BY <1>3 DEF Units
<1>5. Cardinality({r} \X (1..n)) <= Cardinality(Units(granted, k, x))
  BY <1>2, <1>4, FS_Subset
<1> QED BY <1>1, <1>2, <1>5, ShareCounts

\* What is remembered of a request's key and what its client owes change together.
LEMMA OwedStep ==
  ASSUME OwedInv, NEW k \in Keys, NEW t \in Clients, NEW e \in Endpoints, NEW n \in {-1, 1},
         spent \in [Keys \X RateKeys -> Nat],
         granted \in [Keys \X Clients \X Endpoints -> Nat],
         granted[<<k, t, e>>] + n \in Nat,
         spent' = [spent EXCEPT ![<<k, RateKey(t, e)>>] = spent[<<k, RateKey(t, e)>>] + n],
         granted' = [granted EXCEPT ![<<k, t, e>>] = @ + n]
  PROVE  OwedInv'
<1> SUFFICES ASSUME NEW l \in Keys, NEW y \in RateKeys
             PROVE  /\ IsFiniteSet(Units(granted', l, y))
                    /\ spent'[<<l, y>>] = Cardinality(Units(granted', l, y))
  BY DEF OwedInv
<1> DEFINE r == <<t, e>>  g == granted[<<k, t, e>>]
           U == Units(granted, l, y)  V == Units(granted', l, y)
<1>1. g \in Nat /\ r \in Clients \X Endpoints /\ RateKey(t, e) \in RateKeys
  BY RateKeyTyped
<1>2. IsFiniteSet(U) /\ spent[<<l, y>>] = Cardinality(U) /\ spent[<<l, y>>] \in Nat
  BY DEF OwedInv
<1>3. ASSUME NEW s \in Sharing(y), <<l, s>> # <<k, r>>
      PROVE  granted'[<<l, s[1], s[2]>>] = granted[<<l, s[1], s[2]>>]
  <2>1. s \in Clients \X Endpoints
    BY DEF Sharing
  <2>2. PICK u \in Clients, f \in Endpoints : s = <<u, f>>
    BY <2>1
  <2> QED BY <1>3, <2>2
<1>4. granted'[<<k, t, e>>] = g + n
  OBVIOUS
<1>pairs. \A u \in U \cup V : \E s \in Sharing(y), i \in Int : u = <<s, i>>
  BY UnitsArePairs
<1>others. ASSUME NEW s \in Sharing(y), NEW i, <<l, s>> # <<k, r>>
           PROVE  <<s, i>> \in V <=> <<s, i>> \in U
  <2>1. <<s, i>> \in V <=> i \in 1..granted'[<<l, s[1], s[2]>>]
    BY UnitsPair
  <2>2. <<s, i>> \in U <=> i \in 1..granted[<<l, s[1], s[2]>>]
    BY UnitsPair
  <2> QED BY <1>3, <1>others, <2>1, <2>2
<1> HIDE DEF U, V
<1>5. CASE l = k /\ y = RateKey(t, e)
  <2>1. r \in Sharing(y) /\ r[1] = t /\ r[2] = e
    BY <1>1, <1>5 DEF Sharing
  <2>2. \A i : <<r, i>> \in U <=> i \in 1..g
    BY <1>5, <2>1, UnitsPair DEF U
  <2>3. CASE n = 1
    <3>1. 1..(g + 1) = (1..g) \cup {g + 1} /\ g + 1 \notin 1..g
      BY <1>1
    <3>2. V = U \cup {<<r, g + 1>>}
      <4>1. ASSUME NEW i PROVE <<r, i>> \in V <=> <<r, i>> \in U \/ i = g + 1
        <5>1. <<r, i>> \in V <=> i \in 1..(g + 1)
          BY <1>4, <1>5, <2>1, <2>3, UnitsPair DEF V
        <5> QED BY <2>2, <3>1, <5>1
      <4>2. ASSUME NEW s \in Sharing(y), NEW i
            PROVE  <<s, i>> \in V <=> <<s, i>> \in U \/ <<s, i>> = <<r, g + 1>>
        <5>1. CASE s = r
          BY <4>1, <5>1
        <5>2. CASE s # r
          BY <1>others, <5>2
        <5> QED BY <5>1, <5>2
      <4>3. ASSUME NEW u PROVE u \in V <=> u \in U \/ u = <<r, g + 1>>
        <5>1. CASE \E s \in Sharing(y), i \in Int : u = <<s, i>>
          BY <4>2, <5>1
        <5>2. CASE ~\E s \in Sharing(y), i \in Int : u = <<s, i>>
          <6>1. u \notin U /\ u \notin V
            BY <1>pairs, <5>2
          <6>2. u # <<r, g + 1>>
            BY <1>1, <2>1, <5>2
          <6> QED BY <6>1, <6>2
        <5> QED BY <5>1, <5>2
      <4> QED BY <4>3
    <3>3. <<r, g + 1>> \notin U
      BY <2>2, <3>1
    <3>4. IsFiniteSet(V) /\ Cardinality(V) = Cardinality(U) + 1
      BY <1>2, <3>2, <3>3, FS_AddElement
    <3>5. spent'[<<l, y>>] = spent[<<l, y>>] + 1
      BY <1>1, <1>5, <2>3
    <3> QED BY <1>2, <3>4, <3>5 DEF U, V
  <2>4. CASE n = -1
    <3>0. g > 0
      BY <1>1, <2>4
    <3>1. 1..(g - 1) = (1..g) \ {g} /\ g \in 1..g
      BY <1>1, <3>0, Shorter
    <3>2. V = U \ {<<r, g>>}
      <4>1. ASSUME NEW i PROVE <<r, i>> \in V <=> <<r, i>> \in U /\ i # g
        <5>1. granted'[<<k, t, e>>] = g - 1
          BY <1>1, <1>4, <2>4
        <5>2. <<r, i>> \in V <=> i \in 1..(g - 1)
          BY <1>5, <2>1, <5>1, UnitsPair DEF V
        <5> QED BY <2>2, <3>1, <5>2
      <4>2. ASSUME NEW s \in Sharing(y), NEW i
            PROVE  <<s, i>> \in V <=> <<s, i>> \in U /\ <<s, i>> # <<r, g>>
        <5>1. CASE s = r
          BY <4>1, <5>1
        <5>2. CASE s # r
          BY <1>others, <5>2
        <5> QED BY <5>1, <5>2
      <4>3. ASSUME NEW u PROVE u \in V <=> u \in U /\ u # <<r, g>>
        <5>1. CASE \E s \in Sharing(y), i \in Int : u = <<s, i>>
          BY <4>2, <5>1
        <5>2. CASE ~\E s \in Sharing(y), i \in Int : u = <<s, i>>
          <6>1. u \notin U /\ u \notin V
            BY <1>pairs, <5>2
          <6>2. u # <<r, g>>
            BY <1>1, <2>1, <5>2
          <6> QED BY <6>1, <6>2
        <5> QED BY <5>1, <5>2
      <4> QED BY <4>3
    <3>3. <<r, g>> \in U
      BY <2>2, <3>1
    <3>4. IsFiniteSet(V) /\ Cardinality(V) = Cardinality(U) - 1
      BY <1>2, <3>2, <3>3, FS_RemoveElement
    <3>5. spent'[<<l, y>>] = spent[<<l, y>>] - 1
      BY <1>1, <1>2, <1>5, <2>4
    <3> QED BY <1>2, <3>4, <3>5 DEF U, V
  <2> QED BY <2>3, <2>4
<1>6. CASE ~(l = k /\ y = RateKey(t, e))
  <2>1. ASSUME NEW s \in Sharing(y) PROVE <<l, s>> # <<k, r>>
    BY <1>6 DEF Sharing
  <2>2. V = U
    <3>1. ASSUME NEW s \in Sharing(y), NEW i PROVE <<s, i>> \in V <=> <<s, i>> \in U
      BY <1>others, <2>1
    <3>2. ASSUME NEW u PROVE u \in V <=> u \in U
      <4>1. CASE \E s \in Sharing(y), i \in Int : u = <<s, i>>
        BY <3>1, <4>1
      <4>2. CASE ~\E s \in Sharing(y), i \in Int : u = <<s, i>>
        BY <1>pairs, <4>2
      <4> QED BY <4>1, <4>2
    <3> QED BY <3>2
  <2>3. spent'[<<l, y>>] = spent[<<l, y>>]
    BY <1>1, <1>6
  <2> QED BY <1>2, <2>2, <2>3 DEF U, V
<1> QED BY <1>5, <1>6

\* An admitted request adds one to what the limiter remembers of its key and to
\* what its client owes, and stays within the capacity.
LEMMA AdmitStep ==
  ASSUME IInv, NEW c \in Configs, NEW t \in Clients, NEW e \in Endpoints,
         Admits(c, t, e), TypeOK'
  PROVE  IInv'
<1> DEFINE k == Key(c)  x == RateKey(t, e)
<1>1. /\ Usable(c) /\ k \in Keys /\ x \in RateKeys /\ c.capacity \in Nat
      /\ limiters' = Registered(c) /\ spent[<<k, x>>] < c.capacity
      /\ spent' = [spent EXCEPT ![<<k, x>>] = spent[<<k, x>>] + 1]
      /\ granted' = [granted EXCEPT ![<<k, t, e>>] = @ + 1]
  BY RegisteredCorrect, RateKeyTyped, LimiterTyped DEF Admits
<1>2. spent \in [Keys \X RateKeys -> Nat] /\ granted \in [Keys \X Clients \X Endpoints -> Nat]
  BY DEF IInv, TypeOK
<1>3. RegistryInv'
  <2> SUFFICES ASSUME NEW l \in Keys
               PROVE  /\ limiters'[l] # NoLimiter =>
                           \E d \in Configs : /\ Key(d) = l /\ Constructible(d)
                                              /\ limiters'[l] = Limiter(d)
                      /\ \A y \in RateKeys :
                           IF limiters'[l] = NoLimiter THEN spent'[<<l, y>>] = 0
                           ELSE spent'[<<l, y>>] <= limiters'[l].capacity
    BY DEF RegistryInv
  <2>1. CASE l # k
    <3>1. limiters'[l] = limiters[l]
      BY <1>1, <2>1, RegisteredCorrect
    <3>2. \A y \in RateKeys : spent'[<<l, y>>] = spent[<<l, y>>]
      BY <1>1, <1>2, <2>1
    <3> QED BY <3>1, <3>2 DEF IInv, RegistryInv
  <2>2. CASE l = k
    <3>1. /\ limiters'[k] # NoLimiter /\ limiters'[k].capacity = c.capacity
          /\ \E d \in Configs : Key(d) = k /\ Constructible(d) /\ limiters'[k] = Limiter(d)
      BY <1>1, RegisteredCorrect
    <3>2. ASSUME NEW y \in RateKeys PROVE spent[<<k, y>>] <= c.capacity
      <4>1. CASE limiters[k] = NoLimiter
        BY <1>1, <4>1 DEF IInv, RegistryInv
      <4>2. CASE limiters[k] # NoLimiter
        <5>1. limiters[k].capacity = c.capacity
          BY <1>1, <3>1, <4>2, RegisteredCorrect
        <5> QED BY <1>1, <4>2, <5>1 DEF IInv, RegistryInv
      <4> QED BY <4>1, <4>2
    <3>3. ASSUME NEW y \in RateKeys PROVE spent'[<<k, y>>] <= c.capacity
      <4>1. CASE y = x
        BY <1>1, <1>2, <4>1
      <4>2. CASE y # x
        BY <1>1, <1>2, <3>2, <4>2
      <4> QED BY <4>1, <4>2
    <3> QED BY <2>2, <3>1, <3>3
  <2> QED BY <2>1, <2>2
<1>4. OwedInv'
  <2>1. granted[<<k, t, e>>] + 1 \in Nat
    BY <1>1, <1>2
  <2> QED BY <1>1, <1>2, <2>1, OwedStep DEF IInv
<1> QED BY <1>3, <1>4 DEF IInv

\* What a limiter has forgotten, its client no longer owes.
LEMMA RecoverStep ==
  ASSUME IInv, NEW k \in Keys, NEW t \in Clients, NEW e \in Endpoints, Recover(k, t, e)
  PROVE  IInv'
<1> DEFINE x == RateKey(t, e)
<1>1. /\ x \in RateKeys /\ limiters' = limiters
      /\ spent' = [spent EXCEPT ![<<k, x>>] = spent[<<k, x>>] - 1]
      /\ granted' = [granted EXCEPT ![<<k, t, e>>] = @ - 1]
  BY RateKeyTyped DEF Recover, registry
<1>2. spent \in [Keys \X RateKeys -> Nat] /\ granted \in [Keys \X Clients \X Endpoints -> Nat]
  BY DEF IInv, TypeOK
<1>3. granted[<<k, t, e>>] > 0 /\ spent[<<k, x>>] > 0
  <2>1. granted[<<k, t, e>>] > 0 /\ granted[<<k, t, e>>] <= spent[<<k, x>>]
    BY OwesNoMore DEF Recover
  <2>2. granted[<<k, t, e>>] \in Nat /\ spent[<<k, x>>] \in Nat
    BY <1>1, <1>2
  <2> QED BY <2>1, <2>2
<1>4. TypeOK'
  BY <1>1, <1>2, <1>3 DEF IInv, TypeOK, Recover, metrics
<1>5. RegistryInv'
  <2>1. ASSUME NEW l \in Keys, NEW y \in RateKeys
        PROVE  spent'[<<l, y>>] <= spent[<<l, y>>] /\ spent'[<<l, y>>] \in Nat
    BY <1>1, <1>2, <1>3
  <2>2. ASSUME NEW l \in Keys, limiters[l] # NoLimiter PROVE limiters[l].capacity \in Nat
    BY <2>2 DEF IInv, TypeOK, LimiterTypes
  <2>3. ASSUME NEW l \in Keys, NEW y \in RateKeys
        PROVE  IF limiters[l] = NoLimiter THEN spent'[<<l, y>>] = 0
               ELSE spent'[<<l, y>>] <= limiters[l].capacity
    BY <1>2, <2>1, <2>2 DEF IInv, RegistryInv
  <2> QED BY <1>1, <2>3 DEF IInv, RegistryInv
<1>6. OwedInv'
  <2>1. granted[<<k, t, e>>] + (-1) \in Nat
    BY <1>2, <1>3
  <2>2. /\ spent' = [spent EXCEPT ![<<k, x>>] = spent[<<k, x>>] + (-1)]
        /\ granted' = [granted EXCEPT ![<<k, t, e>>] = @ + (-1)]
    BY <1>1, <1>2
  <2> QED BY <1>1, <1>2, <2>1, <2>2, OwedStep DEF IInv
<1> QED BY <1>4, <1>5, <1>6 DEF IInv

\* The rest of a request leaves the types alone.
LEMMA RequestTyped ==
  ASSUME IInv, NEW c \in Configs, NEW t \in Clients, NEW e \in Endpoints, Usable(c),
         limiters' = Registered(c), spent' \in [Keys \X RateKeys -> Nat],
         granted' \in [Keys \X Clients \X Endpoints -> Nat], UNCHANGED tierConfig,
         evaluated' \in [Actions -> Nat], counted' \in [Statuses -> Nat],
         limitHits' \in Nat, proxied' \in Nat,
         refused' \in Keys \X Clients \X Endpoints \/ refused' = <<>>
  PROVE  TypeOK'
BY RegisteredCorrect DEF IInv, TypeOK

\* The invariant is inductive.
LEMMA NextIInv == IInv /\ [Next]_vars => IInv'
<1> SUFFICES ASSUME IInv, [Next]_vars PROVE IInv'
  OBVIOUS
<1>0. /\ TypeOK
      /\ evaluated \in [Actions -> Nat] /\ counted \in [Statuses -> Nat]
      /\ limitHits \in Nat /\ proxied \in Nat
      /\ spent \in [Keys \X RateKeys -> Nat]
      /\ granted \in [Keys \X Clients \X Endpoints -> Nat]
  BY DEF IInv, TypeOK
<1>1. ASSUME NEW actions, Evaluated(actions) PROVE evaluated' \in [Actions -> Nat]
  BY <1>0, <1>1 DEF Evaluated
<1>2. ASSUME NEW s \in Statuses, Count(s) PROVE counted' \in [Statuses -> Nat]
  BY <1>0, <1>2 DEF Count
<1>3. ASSUME TypeOK', UNCHANGED <<registry, granted>> PROVE IInv'
  BY <1>3 DEF IInv, RegistryInv, OwedInv, registry
<1>4. CASE Deny
  <2>1. counted' \in [Statuses -> Nat] /\ evaluated' \in [Actions -> Nat]
    BY <1>1, <1>2, <1>4 DEF Deny, Statuses
  <2> QED BY <1>0, <1>3, <1>4, <2>1 DEF Deny, TypeOK, registry
<1>5. ASSUME NEW permitted \in SUBSET Tiers, LimiterThrows(permitted) PROVE IInv'
  <2>1. counted' \in [Statuses -> Nat] /\ evaluated' \in [Actions -> Nat]
    BY <1>1, <1>2, <1>5 DEF LimiterThrows, Statuses
  <2> QED BY <1>0, <1>3, <1>5, <2>1 DEF LimiterThrows, TypeOK, registry
<1>6. ASSUME NEW permitted \in SUBSET Tiers, NEW t \in Clients, NEW e \in Endpoints,
             RateLimited(t, e, permitted)
      PROVE  IInv'
  <2> DEFINE c == Matched(permitted)
  <2>1. c \in Configs /\ Usable(c) /\ limiters' = Registered(c) /\ refused' = <<Key(c), t, e>>
    BY <1>0, <1>6, MatchedTyped DEF RateLimited
  <2>2. evaluated' \in [Actions -> Nat] /\ limitHits' \in Nat
        /\ UNCHANGED <<tierConfig, spent, counted, proxied, granted>>
    BY <1>0, <1>1, <1>6 DEF RateLimited
  <2>3. Key(c) \in Keys
    BY <2>1, LimiterTyped
  <2>4. TypeOK'
    BY <1>0, <2>1, <2>2, <2>3, RequestTyped
  <2> QED BY <2>1, <2>2, <2>4, RegisterStep
<1>7. ASSUME NEW permitted \in SUBSET Tiers, NEW t \in Clients, NEW e \in Endpoints,
             NEW found \in BOOLEAN, Route(t, e, permitted, found)
      PROVE  IInv'
  <2>1. /\ evaluated' \in [Actions -> Nat] /\ counted' \in [Statuses -> Nat]
        /\ proxied' \in Nat /\ UNCHANGED <<tierConfig, limitHits>>
    BY <1>0, <1>1, <1>2, <1>7 DEF Route, Statuses
  <2>2. CASE Applicable(permitted) = {}
    <3>1. UNCHANGED <<registry, granted, refused>>
      BY <1>7, <2>2 DEF Route
    <3> QED BY <1>0, <1>3, <2>1, <3>1 DEF TypeOK, registry
  <2>3. CASE Applicable(permitted) # {}
    <3> DEFINE c == Matched(permitted)
    <3>1. c \in Configs /\ Admits(c, t, e)
      BY <1>0, <1>7, <2>3, MatchedTyped DEF Route
    <3>2. Key(c) \in Keys /\ RateKey(t, e) \in RateKeys /\ Spent(c, t, e) \in Nat
      <4>1. Key(c) \in Keys /\ RateKey(t, e) \in RateKeys
        BY <3>1, LimiterTyped, RateKeyTyped
      <4> QED BY <1>0, <4>1 DEF Spent
    <3>3. /\ spent' \in [Keys \X RateKeys -> Nat]
          /\ granted' \in [Keys \X Clients \X Endpoints -> Nat]
      <4>1. /\ spent' = [spent EXCEPT ![<<Key(c), RateKey(t, e)>>] = Spent(c, t, e) + 1]
            /\ granted' = [granted EXCEPT ![<<Key(c), t, e>>] = @ + 1]
        BY <3>1 DEF Admits
      <4> QED BY <1>0, <3>2, <4>1
    <3>4. Usable(c) /\ limiters' = Registered(c) /\ refused' = <<>>
      BY <3>1 DEF Admits
    <3>5. TypeOK'
      BY <1>0, <2>1, <3>1, <3>3, <3>4, RequestTyped
    <3> QED BY <3>1, <3>5, AdmitStep
  <2> QED BY <2>2, <2>3
<1>8. ASSUME NEW k \in Keys, NEW t \in Clients, NEW e \in Endpoints, Recover(k, t, e) PROVE IInv'
  BY <1>8, RecoverStep
<1>9. ASSUME NEW i \in Tiers, NEW c \in Configs \cup {NoConfig}, SetEntities(i, c) PROVE IInv'
  BY <1>0, <1>3, <1>9 DEF SetEntities, TypeOK, registry, metrics
<1>10. CASE UNCHANGED vars
  BY <1>0, <1>3, <1>10 DEF vars, TypeOK, registry, metrics
<1> QED BY <1>4, <1>5, <1>6, <1>7, <1>8, <1>9, <1>10 DEF Next

\* The invariant of the registry holds whatever is asked and configured.
THEOREM AdmissionInvariant == Spec => []IInv
BY InitIInv, NextIInv, PTL DEF Spec

\* The limiter under a key enforces every sound configuration with that key.
THEOREM LimitersFitTiers == Spec => []LimitersFit
<1>1. IInv => LimitersFit
  <2> SUFFICES ASSUME IInv, NEW c \in Configs, Constructible(c), limiters[Key(c)] # NoLimiter
               PROVE  limiters[Key(c)] = Limiter(c)
    BY DEF LimitersFit
  <2>1. Key(c) \in Keys
    BY LimiterTyped
  <2>2. PICK d \in Configs : Key(d) = Key(c) /\ Constructible(d) /\ limiters[Key(c)] = Limiter(d)
    BY <2>1 DEF IInv, RegistryInv
  <2> QED BY <2>2, KeyDecides
<1> QED BY <1>1, AdmissionInvariant, PTL

\* No client is granted more than the capacity before the limiter forgets.
THEOREM CapacityIsHeld == Spec => []CapacityHolds
<1>1. IInv => CapacityHolds
  <2> SUFFICES ASSUME IInv, NEW c \in Configs, NEW t \in Clients, NEW e \in Endpoints
               PROVE  granted[<<Key(c), t, e>>] <= c.capacity
    BY DEF CapacityHolds
  <2> DEFINE k == Key(c)  x == RateKey(t, e)
  <2>1. k \in Keys /\ x \in RateKeys /\ c.capacity \in Nat
    BY LimiterTyped, RateKeyTyped
  <2>2. granted[<<k, t, e>>] <= spent[<<k, x>>] /\ granted[<<k, t, e>>] \in Nat /\ spent[<<k, x>>] \in Nat
    BY <2>1, OwesNoMore DEF IInv, TypeOK
  <2>3. CASE limiters[k] = NoLimiter
    BY <2>1, <2>2, <2>3 DEF IInv, RegistryInv
  <2>4. CASE limiters[k] # NoLimiter
    <3>1. PICK d \in Configs : Key(d) = Key(c) /\ limiters[k] = Limiter(d)
      BY <2>1, <2>4 DEF IInv, RegistryInv
    <3>2. limiters[k].capacity = c.capacity
      BY <3>1, LimiterTyped, KeyHasCapacity
    <3> QED BY <2>1, <2>2, <2>4, <3>2 DEF IInv, RegistryInv
  <2> QED BY <2>3, <2>4
<1> QED BY <1>1, AdmissionInvariant, PTL

\* A single part followed by two comes apart in one way only.
LEMMA SplitsOnce ==
  ASSUME NEW S, NEW p \in Seq(S), NEW q \in Seq(S), NEW v \in Seq(S), NEW f \in Seq(S),
         Len(p) = 1, Len(q) = 2, Len(v) >= 1, Len(f) >= 2, v \o f = p \o q
  PROVE  v = p /\ f = q
<1>1. Len(v) \in Nat /\ Len(f) \in Nat
  BY LenProperties
<1>2. Len(v) + Len(f) = 3
  <2>1. Len(v \o f) = Len(v) + Len(f)
    BY ConcatProperties
  <2>2. Len(p \o q) = Len(p) + Len(q)
    BY ConcatProperties
  <2> QED BY <2>1, <2>2
<1>3. Len(v) = 1 /\ Len(f) = 2
  BY <1>1, <1>2
<1>4. \A i \in 1..3 : (v \o f)[i] = IF i <= 1 THEN v[i] ELSE f[i - 1]
  BY <1>3, ConcatProperties
<1>5. \A i \in 1..3 : (p \o q)[i] = IF i <= 1 THEN p[i] ELSE q[i - 1]
  BY ConcatProperties
<1>6. \A i \in 1..3 : (IF i <= 1 THEN v[i] ELSE f[i - 1]) = (IF i <= 1 THEN p[i] ELSE q[i - 1])
  BY <1>4, <1>5
<1>7. v[1] = p[1] /\ f[1] = q[1] /\ f[2] = q[2]
  BY <1>6
<1>8. v = p
  BY <1>3, <1>7, SeqEqual
<1>9. f = q
  BY <1>3, <1>7, SeqEqual
<1> QED BY <1>8, <1>9

LEMMA OnePart ==
  ASSUME NEW S, NEW a \in S
  PROVE  <<a>> \in Seq(S) /\ Len(<<a>>) = 1 /\ Len(<<a>>) >= 1
OBVIOUS

\* A plain request shares its key with no other.
LEMMA PlainIsAlone ==
  ASSUME NEW t \in Tenants, NEW e \in Endpoints, Plain(t, e)
  PROVE  Sharing(RateKey(t, e)) = {<<t, e>>}
<1>1. ASSUME NEW u \in Clients, NEW f \in Endpoints, RateKey(u, f) = RateKey(t, e)
      PROVE  u = t /\ f = e
  <2> DEFINE v == IF u = NoTenant THEN Global ELSE u
  <2>1. /\ t \in Seq(STRING) /\ Len(t) = 1 /\ t # NoTenant
        /\ e \in Seq(STRING) /\ Len(e) = 2
    BY NamesAssumption, EmptySeq DEF Plain, NoTenant
  <2>2. Global \in Seq(STRING) /\ Len(Global) = 1 /\ Len(Global) >= 1
    <3>1. Len(Global) = 1 /\ Len(Global) >= 1
      BY OnePart DEF Global
    <3> QED BY <3>1, NamesAssumption
  <2>3. v \in Seq(STRING) /\ Len(v) >= 1
    <3>1. CASE u = NoTenant
      BY <2>2, <3>1, Zenon
    <3>2. CASE u # NoTenant
      BY <3>2, NamesAssumption DEF Clients
    <3> QED BY <3>1, <3>2
  <2>4. f \in Seq(STRING) /\ Len(f) >= 2
    BY NamesAssumption
  <2>5. v \o f = t \o e
    BY <1>1, <2>1 DEF RateKey
  <2> HIDE DEF v
  <2>6. v = t /\ f = e
    BY <2>1, <2>3, <2>4, <2>5, SplitsOnce
  <2> QED BY <2>6 DEF v, Plain
<1>2. <<t, e>> \in Sharing(RateKey(t, e))
  BY DEF Sharing, Clients
<1>3. ASSUME NEW r \in Sharing(RateKey(t, e)) PROVE r = <<t, e>>
  BY <1>1 DEF Sharing
<1> QED BY <1>2, <1>3

\* Whoever is refused under a key no other request has has used up the limiter's
\* capacity by itself: without colons in its name and its path, and unless it is
\* the tenant called global.
THEOREM OwnSpending == Spec => RefusedForOwnSpending
<1> DEFINE P == limitHits' # limitHits =>
                  LET k == refused'[1]  t == refused'[2]  e == refused'[3] IN
                    Plain(t, e) => granted[refused'] = limiters'[k].capacity
<1>1. IInv /\ [Next]_vars => P
  <2> SUFFICES ASSUME IInv, [Next]_vars, limitHits' # limitHits PROVE P
    OBVIOUS
  <2>1. PICK permitted \in SUBSET Tiers, t \in Clients, e \in Endpoints : RateLimited(t, e, permitted)
    BY DEF Next, Deny, LimiterThrows, Route, Recover, SetEntities, metrics, vars
  <2> DEFINE c == Matched(permitted)
  <2>2. /\ c \in Configs /\ Usable(c) /\ limiters' = Registered(c)
        /\ refused' = <<Key(c), t, e>> /\ Spent(c, t, e) >= Registered(c)[Key(c)].capacity
    BY <2>1, MatchedTyped DEF RateLimited, IInv
  <2>3. /\ Key(c) \in Keys /\ c.capacity \in Nat /\ limiters'[Key(c)].capacity = c.capacity
        /\ spent[<<Key(c), RateKey(t, e)>>] \in Nat
        /\ spent[<<Key(c), RateKey(t, e)>>] = c.capacity
    <3>1. Key(c) \in Keys /\ c.capacity \in Nat /\ RateKey(t, e) \in RateKeys
      BY <2>2, LimiterTyped, RateKeyTyped
    <3>2. spent[<<Key(c), RateKey(t, e)>>] \in Nat
      BY <3>1 DEF IInv, TypeOK
    <3> QED BY <2>2, <3>1, <3>2, RegisteredCorrect
  <2>4. ASSUME Plain(t, e) PROVE granted[<<Key(c), t, e>>] = c.capacity
    <3> DEFINE n == granted[<<Key(c), t, e>>]
    <3>1. t \in Tenants
      BY <2>4, EmptySeq DEF Plain, Clients, NoTenant
    <3>2. Units(granted, Key(c), RateKey(t, e)) = {<<t, e>>} \X (1..n)
      <4>1. Sharing(RateKey(t, e)) = {<<t, e>>}
        BY <2>4, <3>1, PlainIsAlone
      <4> QED BY <4>1 DEF Units
    <3>3. n \in Nat /\ RateKey(t, e) \in RateKeys
      BY <2>3, RateKeyTyped DEF IInv, TypeOK
    <3>4. Cardinality(Units(granted, Key(c), RateKey(t, e))) = n
      BY <3>2, <3>3, ShareCounts
    <3> QED BY <2>3, <3>3, <3>4 DEF IInv, OwedInv
  <2> QED BY <2>2, <2>3, <2>4
<1>2. IInv /\ [Next]_vars => [P]_vars
  BY <1>1
<1> QED BY <1>2, AdmissionInvariant, PTL DEF Spec, RefusedForOwnSpending

\* The counts add up at every scrape.
THEOREM MetricsAddUp == Spec => []MetricsBalance
<1> DEFINE T == /\ evaluated \in [Actions -> Nat] /\ counted \in [Statuses -> Nat]
                /\ limitHits \in Nat /\ proxied \in Nat
<1>1. Init => MetricsBalance
  BY DEF Init, MetricsBalance, Actions, Statuses
<1>2. IInv => T
  BY DEF IInv, TypeOK
<1>3. T /\ MetricsBalance /\ [Next]_vars => MetricsBalance'
  <2> SUFFICES ASSUME T, MetricsBalance, [Next]_vars PROVE MetricsBalance'
    OBVIOUS
  <2> USE DEF MetricsBalance, Actions, Statuses
  <2>1. CASE Deny
    BY <2>1 DEF Deny, Evaluated, Count
  <2>2. ASSUME NEW permitted \in SUBSET Tiers, LimiterThrows(permitted) PROVE MetricsBalance'
    BY <2>2 DEF LimiterThrows, Evaluated, Count
  <2>3. ASSUME NEW permitted \in SUBSET Tiers, NEW t \in Clients, NEW e \in Endpoints,
               RateLimited(t, e, permitted)
        PROVE  MetricsBalance'
    BY <2>3 DEF RateLimited, Evaluated
  <2>4. ASSUME NEW permitted \in SUBSET Tiers, NEW t \in Clients, NEW e \in Endpoints,
               NEW found \in BOOLEAN, Route(t, e, permitted, found)
        PROVE  MetricsBalance'
    BY <2>4 DEF Route, Evaluated, Count
  <2>5. ASSUME UNCHANGED <<metrics, proxied>> PROVE MetricsBalance'
    BY <2>5 DEF metrics
  <2> QED BY <2>1, <2>2, <2>3, <2>4, <2>5 DEF Next, Recover, SetEntities, vars
<1> QED BY <1>1, <1>2, <1>3, AdmissionInvariant, PTL DEF Spec

=============================================================================
