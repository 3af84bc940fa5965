------------------------- MODULE RouteMatcher_proofs -------------------------
(***************************************************************************)
(* RouteMatcher for every configuration, every metadata and every order of *)
(* writes and questions.                                                   *)
(***************************************************************************)
EXTENDS RouteMatcher, FiniteSetTheorems, WellFoundedInduction, TLAPS

Accepts(route, hs) == \A m \in route.match : hs[m[1]] \in m[2]

\* What the matcher may answer about the headers hs.
GoodAnswer(answer, hs) ==
    \/ answer = NoRoute /\ \A i \in DOMAIN routes : ~Accepts(routes[i], hs)
    \/ /\ answer.route \in DOMAIN routes /\ Accepts(routes[answer.route], hs)
       /\ \A i \in 1..answer.route - 1 : ~Accepts(routes[i], hs)

\* While the matcher runs nobody writes, and no route before the one it looks at
\* accepts the headers.
Searching ==
    pc = "matcher" =>
        /\ cached_route = Unset
        /\ asked = headers
        /\ \A i \in 1..at - 1 : ~Accepts(routes[i], asked)

\* The first answer is kept: all answers are that one.
Cached ==
    /\ cached_route = Unset => answers = {}
    /\ cached_route # Unset => GoodAnswer(cached_route, asked) /\ answers \subseteq {cached_route}

RouteInv ==
    /\ TypeOK
    /\ Searching
    /\ Cached

----------------------------------------------------------------------------
\* The configuration is a sequence of routes, and the search counts along it.
LEMMA ConfigIsSequence ==
    ASSUME TypeOK
    PROVE  /\ routes \in Seq(Routes) /\ Len(routes) \in Nat /\ DOMAIN routes = 1..Len(routes)
           /\ at \in Nat /\ at >= 1
BY RouteAssumption DEF TypeOK

\* insert() stores a value.
LEMMA PutTypes ==
    ASSUME TypeOK, NEW key \in Keys, NEW value \in Values, Put(key, value)
    PROVE  properties' \in [Keys -> Values \cup {None}]
BY DEF TypeOK, Put

\* The code's test of a route, with its shortcut for a route without matchers.
LEMMA MatchIsAccepts == \A route, hs : HeadersMatch(route, hs) <=> Accepts(route, hs)
BY DEF HeadersMatch, Accepts

\* Nothing has been asked or written.
LEMMA InitInv == Init => RouteInv
<1>. SUFFICES ASSUME Init PROVE RouteInv
  OBVIOUS
<1>1. TypeOK
  <2>1. routes \in Seq(Routes)
    BY RouteAssumption DEF Init
  <2>2. 1 \in 1..Len(routes) + 1
    BY <2>1
  <2>. QED
    BY <2>2, RouteAssumption DEF Init, TypeOK
<1>. QED
  BY <1>1 DEF Init, RouteInv, Searching, Cached

\* A write to the metadata, by the codec or a filter.
LEMMA WriteInv ==
    ASSUME RouteInv, NEW key \in Keys, NEW value \in Values, Write(key, value), pc # "matcher"
    PROVE  RouteInv'
<1>1. TypeOK'
  <2>1. properties' \in [Keys -> Values \cup {None}]
    BY PutTypes DEF RouteInv, Write, PutString
  <2>2. key[1] \in Names
    BY DEF Keys
  <2>3. headers' \in [Names -> Values \cup {None}]
    BY <2>2 DEF RouteInv, TypeOK, Write, PutString
  <2>4. rewritten' \subseteq Names
    BY <2>2 DEF RouteInv, TypeOK, Write
  <2>5. puts' \in 0..MaxPuts
    BY RouteAssumption DEF RouteInv, TypeOK, Write
  <2>. QED
    BY <2>1, <2>3, <2>4, <2>5 DEF RouteInv, TypeOK, Write, searchVars
<1>2. Searching' /\ Cached'
  BY DEF RouteInv, Searching, Cached, GoodAnswer, Accepts, Write, searchVars
<1>. QED
  BY <1>1, <1>2 DEF RouteInv

\* The matcher returns a good answer.
LEMMA AnswerInv ==
    ASSUME RouteInv, pc = "matcher", NEW answer, Answer(answer), answer # Unset,
           GoodAnswer(answer, asked)
    PROVE  RouteInv'
<1>1. TypeOK'
  BY DEF RouteInv, TypeOK, Answer, Returned, store
<1>2. Searching'
  BY DEF Searching, Answer, Returned
<1>3. Cached'
  BY DEF RouteInv, Searching, Cached, GoodAnswer, Accepts, Answer
<1>. QED
  BY <1>1, <1>2, <1>3 DEF RouteInv

\* Every step keeps the invariant.
LEMMA NextInv == RouteInv /\ [Next]_vars => RouteInv'
<1>. SUFFICES ASSUME RouteInv, [Next]_vars PROVE RouteInv'
  OBVIOUS
<1>. USE ConfigIsSequence
<1>1. ASSUME NEW key \in Keys, NEW value \in Values,
             CodecWrites(key, value) \/ FilterWrites(key, value)
      PROVE  RouteInv'
  BY <1>1, WriteInv DEF CodecWrites, FilterWrites
<1>2. CASE Decoded \/ EnterRouter
  BY <1>2
  DEF Decoded, EnterRouter, RouteInv, TypeOK, Searching, Cached, GoodAnswer, Accepts, store,
      searchVars
<1>3. CASE AskCached
  <2>1. pc' \in {"done", "filters"}
    BY <1>3 DEF AskCached, Returned
  <2>2. TypeOK'
    BY <1>3, <2>1 DEF AskCached, RouteInv, TypeOK, store
  <2>3. Searching' /\ Cached'
    BY <1>3, <2>1 DEF AskCached, RouteInv, Searching, Cached, GoodAnswer, Accepts
  <2>. QED
    BY <2>2, <2>3 DEF RouteInv
<1>4. CASE AskMatcher
  <2>1. TypeOK'
    BY <1>4 DEF AskMatcher, RouteInv, TypeOK, store
  <2>2. Searching' /\ Cached'
    BY <1>4 DEF AskMatcher, RouteInv, Searching, Cached, store
  <2>. QED
    BY <2>1, <2>2 DEF RouteInv
<1>5. ASSUME NEW k, AtMatch, Answer([route |-> at, cluster |-> k]) PROVE RouteInv'
  <2>1. pc = "matcher" /\ at \in DOMAIN routes /\ Accepts(routes[at], asked)
    BY <1>5, MatchIsAccepts DEF AtMatch, RouteInv, Searching
  <2>2. GoodAnswer([route |-> at, cluster |-> k], asked)
    BY <2>1 DEF GoodAnswer, RouteInv, Searching
  <2>3. [route |-> at, cluster |-> k] # Unset
    BY DEF Unset, RouteInv
  <2>. QED
    BY <1>5, <2>1, <2>2, <2>3, AnswerInv
<1>6. CASE MatchOneCluster \/ MatchWeightedCluster
  BY <1>5, <1>6 DEF MatchOneCluster, MatchWeightedCluster
<1>7. CASE MatchNoWeight
  <2>1. pc' = "crashed"
    BY <1>7 DEF MatchNoWeight
  <2>. QED
    BY <1>7, <2>1
    DEF MatchNoWeight, RouteInv, TypeOK, Searching, Cached, GoodAnswer, Accepts, store, searchVars
<1>8. CASE MatchNext
  <2>1. ~Accepts(routes[at], asked) /\ pc = "matcher"
    BY <1>8, MatchIsAccepts DEF MatchNext, RouteInv, Searching
  <2>2. at' = at + 1 /\ at' \in 1..Len(routes) + 1
    BY <1>8 DEF MatchNext, RouteInv
  <2>3. TypeOK'
    BY <1>8, <2>2 DEF MatchNext, RouteInv, TypeOK, store
  <2>4. \A i \in 1..at' - 1 : ~Accepts(routes[i], asked)
    BY <2>1, <2>2 DEF RouteInv, Searching
  <2>5. Searching' /\ Cached'
    BY <1>8, <2>1, <2>4 DEF MatchNext, RouteInv, Searching, Cached, GoodAnswer, Accepts, store
  <2>. QED
    BY <2>3, <2>5 DEF RouteInv
<1>9. CASE MatchNone
  <2>1. pc = "matcher" /\ at = Len(routes) + 1
    BY <1>9 DEF MatchNone, RouteInv, TypeOK
  <2>2. GoodAnswer(NoRoute, asked)
    BY <2>1 DEF GoodAnswer, RouteInv, Searching
  <2>. QED
    BY <1>9, <2>1, <2>2, AnswerInv DEF MatchNone, NoRoute, Unset
<1>10. CASE UNCHANGED vars
  BY <1>10 DEF vars, store, RouteInv, TypeOK, Searching, Cached, GoodAnswer, Accepts
<1>. QED
  BY <1>1, <1>2, <1>3, <1>4, <1>6, <1>7, <1>8, <1>9, <1>10 DEF Next

----------------------------------------------------------------------------
\* The search has gone past routes that do not match, and its answer is kept.
THEOREM RouteInvariant == Spec => []RouteInv
BY InitInv, NextInv, PTL DEF Spec

\* Every variable of the message and of the matcher keeps its type.
THEOREM RouteTypeCorrect == Spec => []TypeOK
<1>1. RouteInv => TypeOK
  BY DEF RouteInv
<1>. QED
  BY <1>1, RouteInvariant, PTL

\* RouteMatcherImpl::route returns the first route that matches the headers of the
\* request at the time it is asked, for every configuration.
THEOREM FirstRouteWinsCorrect == Spec => []FirstRouteWins
<1>1. RouteInv => FirstRouteWins
  <2>. SUFFICES ASSUME RouteInv, NEW answer \in answers
                PROVE  LET before == IF answer = NoRoute THEN DOMAIN routes ELSE 1..answer.route - 1
                       IN  /\ answer # NoRoute =>
                                 /\ answer.route \in DOMAIN routes
                                 /\ \A m \in routes[answer.route].match : asked[m[1]] \in m[2]
                           /\ \A i \in before : \E m \in routes[i].match : asked[m[1]] \notin m[2]
    BY DEF FirstRouteWins
  <2>1. GoodAnswer(answer, asked)
    BY DEF RouteInv, Cached
  <2>2. NoRoute.route \notin DOMAIN routes
    BY ConfigIsSequence DEF NoRoute, RouteInv
  <2>. QED
    BY <2>1, <2>2 DEF GoodAnswer, Accepts
<1>. QED
  BY <1>1, RouteInvariant, PTL

\* ActiveMessage::route gives a message one route, whoever asks and whatever is written
\* in between.
THEOREM OneRouteCorrect == Spec => []OneRoute
<1>1. RouteInv => OneRoute
  BY DEF RouteInv, Cached, OneRoute
<1>. QED
  BY <1>1, RouteInvariant, PTL

\* A message has the route of the configuration, and no other.
THEOREM RoutedByConfigurationCorrect == Spec => []RoutedByConfiguration
BY FirstRouteWinsCorrect, OneRouteCorrect, PTL DEF RoutedByConfiguration

\* A value written once is the value the request is routed by.
THEOREM ReadsWhatRoutes == Spec => []ReadAsRouted
<1>1. Init => ReadAsRouted
  BY DEF Init, ReadAsRouted
<1>2. TypeOK /\ ReadAsRouted /\ [Next]_vars => ReadAsRouted'
  <2>. SUFFICES ASSUME TypeOK, ReadAsRouted, [Next]_vars PROVE ReadAsRouted'
    OBVIOUS
  <2>1. ASSUME NEW key \in Keys, NEW value \in Values, Write(key, value) PROVE ReadAsRouted'
    <3>. SUFFICES ASSUME NEW k \in Keys, k[1] \notin rewritten', properties'[k] # None
                  PROVE  headers'[k[1]] = properties'[k]
      BY DEF ReadAsRouted
    <3>. key[1] \in Names /\ k[1] \in Names
      BY DEF Keys
    <3>1. k # key => properties'[k] = properties[k]
      BY <2>1 DEF Write, PutString, Put, TypeOK
    <3>2. CASE k[1] = key[1]
      <4>1. /\ PutString(key, value)
            /\ \A q \in Named(key[1]) : properties[q] = None
        BY <2>1, <3>2 DEF Write
      <4>2. k \in Named(key[1]) /\ key \in Named(key[1])
        BY <3>2 DEF Named
      <4>3. k = key
        BY <3>1, <4>1, <4>2
      <4>4. properties'[key] = value /\ headers'[key[1]] = value
        BY <4>1, <4>2 DEF PutString, Put, TypeOK
      <4>. QED
        BY <4>3, <4>4
    <3>3. CASE k[1] # key[1]
      <4>1. headers'[k[1]] = headers[k[1]]
        BY <2>1, <3>3 DEF Write, PutString, TypeOK
      <4>2. k[1] \notin rewritten
        BY <2>1 DEF Write
      <4>. QED
        BY <3>1, <3>3, <4>1, <4>2 DEF ReadAsRouted
    <3>. QED
      BY <3>2, <3>3
  <2>2. CASE UNCHANGED <<store, rewritten>>
    BY <2>2 DEF store, ReadAsRouted
  <2>3. \/ \E key \in Keys, value \in Values : Write(key, value)
        \/ UNCHANGED <<store, rewritten>>
    BY DEF Next, vars, CodecWrites, FilterWrites, Decoded, EnterRouter, AskCached, AskMatcher,
           MatchOneCluster, MatchWeightedCluster, MatchNoWeight, MatchNext, MatchNone, Answer
  <2>. QED
    BY <2>1, <2>2, <2>3
<1>. QED
  BY <1>1, <1>2, RouteTypeCorrect, PTL DEF Spec

----------------------------------------------------------------------------
(* The weights.  The provers cannot instantiate the library's induction,   *)
(* which is about predicates; the least element of a set of numbers takes  *)
(* its place.                                                              *)

LessThan == OpToRel(<, Nat)

\* The relation by which the numbers are well founded.
LEMMA LessThanDef == \A x, y \in Nat : <<x, y>> \in LessThan <=> x < y
BY DEF LessThan, OpToRel

\* A set of numbers has a least element.
LEMMA LeastNumber ==
    ASSUME NEW T, T \subseteq Nat, T # {}
    PROVE  \E n \in T : \A m \in T : n <= m
<1>1. PICK n \in T : \A m \in T : ~(<<m, n>> \in LessThan)
  BY WFMin, NatLessThanWellFounded, Zenon DEF LessThan
<1>. SUFFICES ASSUME NEW m \in T PROVE n <= m
  OBVIOUS
<1>2. n \in Nat /\ m \in Nat
  OBVIOUS
<1>3. ~(m < n)
  BY <1>1, <1>2, LessThanDef
<1>. QED
  BY <1>2, <1>3

\* A set with 0 that is closed under successors up to n has all numbers up to n.
LEMMA InductionUpTo ==
    ASSUME NEW n \in Nat, NEW T, 0 \in T,
           \A k \in 1..n : k - 1 \in T => k \in T
    PROVE  0..n \subseteq T
<1>. DEFINE missing == {k \in 0..n : k \notin T}
<1>. SUFFICES ASSUME missing # {} PROVE FALSE
  OBVIOUS
<1>1. PICK least \in missing : \A k \in missing : least <= k
  <2>1. missing \subseteq Nat
    OBVIOUS
  <2>. HIDE DEF missing
  <2>. QED
    BY <2>1, LeastNumber
<1>2. least \in 1..n /\ least \notin T
  OBVIOUS
<1>3. least - 1 \in 0..n /\ least - 1 \notin missing
  BY <1>1, <1>2
<1>. QED
  BY <1>2, <1>3

\* A function that has the equation of the partial sums up to n.
Sums(weights, n, sum) ==
    sum = [k \in 0..n |-> IF k = 0 THEN 0 ELSE sum[k - 1] + weights[k]]

\* There is one, as each sum needs only the one before it.
LEMMA SumsExist ==
    ASSUME NEW weights \in Seq(Nat), NEW n \in 0..Len(weights)
    PROVE  \E sum : Sums(weights, n, sum)
<1>. DEFINE good == {k \in 0..Len(weights) : \E sum : Sums(weights, k, sum)}
<1>1. 0 \in good
  <2>1. Sums(weights, 0, [k \in {0} |-> 0])
    BY DEF Sums
  <2>. QED
    BY <2>1
<1>2. ASSUME NEW k \in 1..Len(weights), k - 1 \in good PROVE k \in good
  <2>1. PICK sum : Sums(weights, k - 1, sum)
    BY <1>2
  <2>. DEFINE more == [j \in 0..k |-> IF j = k THEN sum[k - 1] + weights[k] ELSE sum[j]]
  <2>2. \A j \in 0..k - 1 : sum[j] = IF j = 0 THEN 0 ELSE sum[j - 1] + weights[j]
    BY <2>1 DEF Sums
  <2>3. \A j \in 0..k : more[j] = IF j = 0 THEN 0 ELSE more[j - 1] + weights[j]
    BY <2>2
  <2>4. Sums(weights, k, more)
    BY <2>3 DEF Sums
  <2>. QED
    BY <2>4
<1>3. Len(weights) \in Nat
  OBVIOUS
<1>. HIDE DEF good
<1>4. 0..Len(weights) \subseteq good
  BY <1>1, <1>2, <1>3, InductionUpTo
<1>. QED
  BY <1>4 DEF good

\* So the recursive definition defines the partial sums.
LEMMA UpToDef ==
    ASSUME NEW weights \in Seq(Nat)
    PROVE  /\ DOMAIN UpTo(weights) = 0..Len(weights)
           /\ UpTo(weights)[0] = 0
           /\ \A k \in DOMAIN weights :
                 UpTo(weights)[k] = UpTo(weights)[k - 1] + weights[k]
<1>1. Len(weights) \in 0..Len(weights)
  OBVIOUS
<1>2. PICK sum : Sums(weights, Len(weights), sum)
  BY <1>1, SumsExist
<1>3. UpTo(weights) = CHOOSE f : Sums(weights, Len(weights), f)
  BY DEF UpTo, Sums
<1>4. Sums(weights, Len(weights), UpTo(weights))
  BY <1>2, <1>3
<1>. QED
  BY <1>4 DEF Sums

\* The partial sums are numbers and do not decrease.
LEMMA UpToGrows ==
    ASSUME NEW weights \in Seq(Nat)
    PROVE  /\ UpTo(weights) \in [0..Len(weights) -> Nat]
           /\ \A i, j \in 0..Len(weights) : i <= j => UpTo(weights)[i] <= UpTo(weights)[j]
<1>. DEFINE sum == UpTo(weights)
            numbers == {k \in 0..Len(weights) : sum[k] \in Nat}
<1>1. Len(weights) \in Nat /\ DOMAIN weights = 1..Len(weights)
  OBVIOUS
<1>2. /\ DOMAIN sum = 0..Len(weights) /\ sum[0] = 0
      /\ \A k \in 1..Len(weights) : sum[k] = sum[k - 1] + weights[k]
  BY <1>1, UpToDef
<1>3. \A k \in 1..Len(weights) : weights[k] \in Nat
  OBVIOUS
<1>. HIDE DEF sum
<1>4. \A k \in 0..Len(weights) : sum[k] \in Nat
  <2>1. 0 \in numbers
    BY <1>1, <1>2
  <2>2. \A k \in 1..Len(weights) : k - 1 \in numbers => k \in numbers
    BY <1>2, <1>3
  <2>. HIDE DEF numbers
  <2>3. 0..Len(weights) \subseteq numbers
    BY <1>1, <2>1, <2>2, InductionUpTo
  <2>. QED
    BY <2>3 DEF numbers
<1>5. sum \in [0..Len(weights) -> Nat]
  <2>1. sum = [k \in DOMAIN sum |-> sum[k]]
    BY UpToDef DEF sum, UpTo
  <2>. QED
    BY <1>2, <1>4, <2>1
<1>6. ASSUME NEW i \in 0..Len(weights), NEW j \in 0..Len(weights), i <= j
      PROVE  sum[i] <= sum[j]
  <2>. DEFINE above == {k \in 0..Len(weights) : k < i \/ sum[i] <= sum[k]}
  <2>1. 0 \in above
    BY <1>1, <1>4
  <2>2. ASSUME NEW k \in 1..Len(weights), k - 1 \in above PROVE k \in above
    <3>1. sum[k] = sum[k - 1] + weights[k] /\ sum[k - 1] \in Nat /\ weights[k] \in Nat
      BY <1>2, <1>3, <1>4
    <3>2. sum[i] \in Nat
      BY <1>4
    <3>. QED
      BY <2>2, <3>1, <3>2
  <2>. HIDE DEF above
  <2>3. 0..Len(weights) \subseteq above
    BY <1>1, <2>1, <2>2, InductionUpTo
  <2>. QED
    BY <1>6, <2>3 DEF above
<1>. QED
  BY <1>5, <1>6 DEF sum

\* Of clusters with some weight, pickCluster finds the one in whose interval the random
\* value falls, and there is no other.
LEMMA PickClusterDef ==
    ASSUME NEW weights \in Seq(Nat), TotalWeight(weights) > 0, NEW random \in Nat,
           NEW k \in DOMAIN weights
    PROVE  /\ PickCluster(weights, random) \in DOMAIN weights
           /\ PickCluster(weights, random) = k <=>
                /\ UpTo(weights)[k - 1] <= random % TotalWeight(weights)
                /\ random % TotalWeight(weights) < UpTo(weights)[k]
<1>. DEFINE sum == UpTo(weights)
            total == TotalWeight(weights)
            value == random % total
            Has(j) == sum[j - 1] <= value /\ value < sum[j]
<1>1. Len(weights) \in Nat /\ DOMAIN weights = 1..Len(weights)
  OBVIOUS
<1>2. /\ \A j \in 0..Len(weights) : sum[j] \in Nat
      /\ sum[0] = 0 /\ sum[Len(weights)] = total
      /\ \A i, j \in 0..Len(weights) : i <= j => sum[i] <= sum[j]
  BY UpToDef, UpToGrows DEF TotalWeight
<1>3. value \in Nat /\ value < total
  <2>1. total \in Nat \ {0}
    BY <1>1, <1>2
  <2>. HIDE DEF total
  <2>. QED
    BY <2>1
<1>4. PickCluster(weights, random) = CHOOSE j \in DOMAIN weights : Has(j)
  BY DEF PickCluster
<1>. HIDE DEF sum, total, value
<1>5. \E j \in DOMAIN weights : Has(j)
  <2>. DEFINE beyond == {j \in 0..Len(weights) : value < sum[j]}
  <2>1. beyond \subseteq Nat /\ Len(weights) \in beyond
    BY <1>1, <1>2, <1>3
  <2>2. PICK least \in beyond : \A j \in beyond : least <= j
    <3>. HIDE DEF beyond
    <3>. QED
      BY <2>1, LeastNumber
  <2>3. least \in 1..Len(weights) /\ least - 1 \notin beyond
    BY <1>2, <1>3, <2>2
  <2>4. ~(value < sum[least - 1]) /\ sum[least - 1] \in Nat
    BY <1>2, <2>3
  <2>. QED
    BY <1>1, <1>3, <2>2, <2>3, <2>4
<1>6. ASSUME NEW i \in DOMAIN weights, NEW j \in DOMAIN weights, Has(i), Has(j)
      PROVE  i = j
  <2>1. \A m, n \in DOMAIN weights : Has(m) /\ Has(n) => ~(m < n)
    <3>. SUFFICES ASSUME NEW m \in DOMAIN weights, NEW n \in DOMAIN weights,
                         Has(m), Has(n), m < n
                  PROVE  FALSE
      OBVIOUS
    <3>1. sum[m] <= sum[n - 1] /\ sum[m] \in Nat /\ sum[n - 1] \in Nat
      BY <1>1, <1>2
    <3>. QED
      BY <1>3, <3>1
  <2>. QED
    BY <1>1, <1>6, <2>1
<1>. HIDE DEF Has
<1>7. PickCluster(weights, random) \in DOMAIN weights /\ Has(PickCluster(weights, random))
  BY <1>4, <1>5
<1>8. PickCluster(weights, random) = k <=> Has(k)
  BY <1>6, <1>7
<1>. QED
  BY <1>7, <1>8 DEF Has, sum, total, value

\* Of the random values of one round, each cluster gets as many as it has weight.
THEOREM WeightsAreShares ==
    ASSUME NEW weights \in Seq(Nat), TotalWeight(weights) > 0, NEW k \in DOMAIN weights
    PROVE  Cardinality({random \in 0..TotalWeight(weights) - 1 :
                            PickCluster(weights, random) = k}) = weights[k]
<1>. DEFINE total == TotalWeight(weights)
            low == UpTo(weights)[k - 1]
            high == UpTo(weights)[k]
            share == {random \in 0..total - 1 : PickCluster(weights, random) = k}
<1>1. /\ total \in Nat /\ low \in Nat /\ high \in Nat /\ weights[k] \in Nat
      /\ high = low + weights[k] /\ high <= total
  <2>1. k \in 1..Len(weights) /\ Len(weights) \in Nat /\ weights[k] \in Nat
    OBVIOUS
  <2>2. k \in 0..Len(weights) /\ k - 1 \in 0..Len(weights) /\ Len(weights) \in 0..Len(weights)
    BY <2>1
  <2>. QED
    BY <2>1, <2>2, UpToDef, UpToGrows DEF TotalWeight
<1>2. share = low..high - 1
  <2>1. \A random \in 0..total - 1 :
           /\ random \in Nat
           /\ random % total = random
    <3>1. total \in Nat
      BY <1>1
    <3>. HIDE DEF total
    <3>. QED
      BY <3>1
  <2>2. \A random \in 0..total - 1 :
           PickCluster(weights, random) = k <=> low <= random /\ random < high
    BY <2>1, PickClusterDef
  <2>3. \A random \in 0..total - 1 : random \in share <=> random \in low..high - 1
    <3>. HIDE DEF total, low, high
    <3>. QED
      BY <1>1, <2>2
  <2>4. low..high - 1 \subseteq 0..total - 1
    BY <1>1
  <2>. QED
    BY <2>3, <2>4
<1>. HIDE DEF low, high, share, total
<1>3. Cardinality(low..high - 1) = IF low > high - 1 THEN 0 ELSE (high - 1) - low + 1
  <2>1. low \in Int /\ high - 1 \in Int
    BY <1>1
  <2>. QED
    BY <2>1, FS_Interval
<1>4. Cardinality(share) = weights[k]
  BY <1>1, <1>2, <1>3
<1>. QED
  BY <1>4 DEF share, total

\* What is known of a chosen cluster and of a division by zero; a cached answer has been
\* given.
WeightInv ==
    /\ WeightsRespected
    /\ cached_route # Unset => cached_route \in answers

\* An answer has a cluster of its route, if it has several, and of positive weight.
Weighs(answer) ==
    answer # NoRoute =>
        LET weights == routes[answer.route].weights
        IN  IF weights = <<>> THEN answer.cluster = 0
            ELSE answer.cluster \in DOMAIN weights /\ weights[answer.cluster] > 0

\* The matcher gives an answer that respects the weights.
LEMMA AnswerWeighs ==
    ASSUME WeightInv, pc = "matcher", NEW answer, Answer(answer), Weighs(answer)
    PROVE  WeightInv'
<1>1. pc' # "crashed" /\ answers' = answers \cup {answer} /\ routes' = routes
      /\ cached_route' = answer
  BY DEF Answer, Returned
<1>. QED
  BY <1>1 DEF WeightInv, WeightsRespected, Weighs

\* A cluster that pickCluster finds has some weight.
LEMMA PickedWeighs ==
    ASSUME NEW weights \in Seq(Nat), TotalWeight(weights) > 0, NEW random \in Nat
    PROVE  /\ PickCluster(weights, random) \in DOMAIN weights
           /\ weights[PickCluster(weights, random)] > 0
<1>. DEFINE k == PickCluster(weights, random)
<1>1. Len(weights) \in Nat /\ DOMAIN weights = 1..Len(weights)
  OBVIOUS
<1>2. DOMAIN weights # {}
  <2>1. Len(weights) # 0
    BY UpToDef DEF TotalWeight
  <2>. QED
    BY <1>1, <2>1
<1>3. k \in DOMAIN weights
  BY <1>2, PickClusterDef
<1>4. /\ UpTo(weights)[k - 1] <= random % TotalWeight(weights)
      /\ random % TotalWeight(weights) < UpTo(weights)[k]
  BY <1>3, PickClusterDef
<1>5. /\ UpTo(weights)[k - 1] \in Nat /\ UpTo(weights)[k] \in Nat /\ weights[k] \in Nat
      /\ UpTo(weights)[k] = UpTo(weights)[k - 1] + weights[k]
  <2>1. k \in 0..Len(weights) /\ k - 1 \in 0..Len(weights) /\ weights[k] \in Nat
    BY <1>1, <1>3
  <2>. HIDE DEF k
  <2>. QED
    BY <1>3, <2>1, UpToDef, UpToGrows
<1>6. random % TotalWeight(weights) \in Int
  <2>1. TotalWeight(weights) \in Nat \ {0}
    BY <1>1, UpToGrows DEF TotalWeight
  <2>. QED
    BY <2>1
<1>. HIDE DEF k
<1>7. weights[k] > 0
  BY <1>4, <1>5, <1>6
<1>. QED
  BY <1>3, <1>7 DEF k

\* Clusters that have no weight together have none.
LEMMA NoWeightAtAll ==
    ASSUME NEW weights \in Seq(Nat), TotalWeight(weights) = 0, NEW k \in DOMAIN weights
    PROVE  weights[k] = 0
<1>1. k \in 1..Len(weights) /\ Len(weights) \in Nat /\ weights[k] \in Nat
  OBVIOUS
<1>2. k \in 0..Len(weights) /\ k - 1 \in 0..Len(weights) /\ Len(weights) \in 0..Len(weights)
  BY <1>1
<1>. QED
  BY <1>1, <1>2, UpToDef, UpToGrows DEF TotalWeight

\* A route that is matched has its weights.
LEMMA MatchedWeights ==
    ASSUME TypeOK, AtMatch
    PROVE  at \in DOMAIN routes /\ routes[at].weights \in Seq(Nat)
<1>1. routes \in Seq(Routes) /\ at \in DOMAIN routes
  BY ConfigIsSequence DEF AtMatch
<1>2. routes[at] \in Routes
  BY <1>1
<1>. QED
  BY <1>1, <1>2 DEF Routes

\* pickCluster gives no request to a cluster of weight zero, and the matcher divides by
\* zero for nothing but a route without any weight.
THEOREM WeightsRespectedCorrect == Spec => []WeightsRespected
<1>1. Init => WeightInv
  BY DEF Init, WeightInv, WeightsRespected
<1>2. TypeOK /\ WeightInv /\ [Next]_vars => WeightInv'
  <2>. SUFFICES ASSUME TypeOK, WeightInv, [Next]_vars PROVE WeightInv'
    OBVIOUS
  <2>1. CASE MatchOneCluster
    <3>1. routes[at].weights = <<>>
      BY <2>1 DEF MatchOneCluster
    <3>2. Weighs([route |-> at, cluster |-> 0])
      BY <3>1 DEF Weighs
    <3>. QED
      BY <2>1, <3>2, AnswerWeighs DEF MatchOneCluster, AtMatch
  <2>2. CASE MatchWeightedCluster
    <3>. DEFINE weights == routes[at].weights
                answer == [route |-> at, cluster |-> PickCluster(weights, stream_id)]
    <3>1. /\ pc = "matcher" /\ Answer(answer)
          /\ weights # <<>> /\ TotalWeight(weights) > 0 /\ weights \in Seq(Nat)
      BY <2>2, MatchedWeights DEF MatchWeightedCluster, AtMatch
    <3>2. stream_id \in Nat
      BY RouteAssumption DEF TypeOK
    <3>3. Weighs(answer)
      BY <3>1, <3>2, PickedWeighs DEF Weighs
    <3>. QED
      BY <3>1, <3>3, AnswerWeighs
  <2>3. CASE MatchNoWeight
    <3>1. /\ TotalWeight(routes[at].weights) = 0 /\ routes[at].weights \in Seq(Nat)
          /\ UNCHANGED <<routes, at, cached_route, answers>>
      BY <2>3, MatchedWeights DEF MatchNoWeight, searchVars
    <3>2. \A k \in DOMAIN routes[at].weights : routes[at].weights[k] = 0
      BY <3>1, NoWeightAtAll
    <3>. QED
      BY <3>1, <3>2 DEF WeightInv, WeightsRespected
  <2>4. CASE MatchNone
    <3>1. Weighs(NoRoute)
      BY DEF Weighs
    <3>. QED
      BY <2>4, <3>1, AnswerWeighs DEF MatchNone
  <2>5. CASE AskCached
    <3>1. /\ answers' = answers /\ pc' # "crashed" /\ UNCHANGED <<routes, cached_route>>
      BY <2>5 DEF AskCached, Returned, WeightInv
    <3>. QED
      BY <3>1 DEF WeightInv, WeightsRespected
  <2>6. CASE UNCHANGED <<routes, cached_route, answers>> /\ pc' # "crashed"
    BY <2>6 DEF WeightInv, WeightsRespected
  <2>7. CASE UNCHANGED vars
    BY <2>7 DEF WeightInv, WeightsRespected, vars
  <2>8. ASSUME NEW key \in Keys, NEW value \in Values,
               CodecWrites(key, value) \/ FilterWrites(key, value)
        PROVE  UNCHANGED <<routes, cached_route, answers>> /\ pc' # "crashed"
    BY <2>8 DEF CodecWrites, FilterWrites, Write, searchVars
  <2>9. Decoded \/ EnterRouter \/ AskMatcher \/ MatchNext
            => UNCHANGED <<routes, cached_route, answers>> /\ pc' # "crashed"
    BY DEF Decoded, EnterRouter, AskMatcher, MatchNext, searchVars
  <2>. QED
    BY <2>1, <2>2, <2>3, <2>4, <2>5, <2>6, <2>7, <2>8, <2>9 DEF Next
<1>3. WeightInv => WeightsRespected
  BY DEF WeightInv
<1>. QED
  BY <1>1, <1>2, <1>3, RouteTypeCorrect, PTL DEF Spec
=============================================================================
