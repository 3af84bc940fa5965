---------------------------- MODULE RouteMatcher ----------------------------
(***************************************************************************)
(* RouteMatcher: from the metadata of a request to the cluster that gets   *)
(* it (MetadataImpl, RouteMatcherImpl, ActiveMessage::route and the        *)
(* beginning of Router::onMessageDecoded), for one message.                *)
(*                                                                         *)
(* The codec and the filters write the metadata through the interface of   *)
(* Properties.  A key is a name and a way to spell it: spellings that      *)
(* differ in case only are keys of their own in properties_, and one       *)
(* header.  Envoy's header matchers, its choice of a weighted cluster and  *)
(* the random numbers are external: a matcher accepts some values of one   *)
(* header, or its absence.                                                 *)
(***************************************************************************)
EXTENDS Integers, Sequences

CONSTANTS
    Names, Spellings,   \* of the keys
    Values, None,       \* what is stored under them; None: nothing
    RouteConfigs,       \* the configurations; each is a sequence of routes
    MaxPuts,            \* bound: writes to the metadata
    MaxRandom           \* bound: the stream id, drawn at random

Keys == Names \X Spellings

\* What a matcher looks at and accepts.
Matchers == Names \X SUBSET (Values \cup {None})

\* A route: its matchers, and the weights of its clusters if it has several.
Routes == [match : SUBSET Matchers, weights : Seq(Nat)]

ASSUME RouteAssumption ==
    /\ None \notin Values
    /\ RouteConfigs \subseteq Seq(Routes)
    /\ MaxPuts \in Nat /\ MaxRandom \in Nat

VARIABLES
    routes,         \* routes_ of the matcher; it does not change
    stream_id,      \* the random value of the message
    \* --- MetadataImpl
    properties,     \* properties_
    headers,        \* headers_, by lower-case name
    \* --- ActiveMessage
    cached_route,
    pc,             \* who runs: "codec", "filters", "router", the "matcher"; "done", "crashed"
    caller,         \* who waits for the matcher
    at,             \* the route the matcher looks at
    \* --- history
    puts,           \* writes so far
    rewritten,      \* names written again, or by put()
    asked,          \* the headers the matcher was asked about
    answers         \* what route() has returned

store == <<properties, headers>>
searchVars == <<cached_route, caller, at, asked, answers>>
vars == <<routes, stream_id, store, cached_route, pc, caller, at, puts, rewritten, asked, answers>>

\* A route and its cluster; cluster 0 is the one of a route that has no others.
NoRoute == [route |-> 0, cluster |-> 0]
Unset == [route |-> -1, cluster |-> 0]

Init ==
    /\ routes \in RouteConfigs
    /\ stream_id \in 0..MaxRandom
    /\ properties = [k \in Keys |-> None]
    /\ headers = [n \in Names |-> None]
    /\ cached_route = Unset
    /\ pc = "codec" /\ caller = "filters" /\ at = 1
    /\ puts = 0 /\ rewritten = {} /\ asked = headers /\ answers = {}

----------------------------------------------------------------------------
(* Metadata: properties_ is a map whose insert keeps the first value.      *)

Put(key, value) ==
    properties' = IF properties[key] = None THEN [properties EXCEPT ![key] = value]
                  ELSE properties

\* Fault: addCopy() without remove(): the header then has two values.
PutString_Adds(key, value) ==
    /\ Put(key, value)
    /\ headers' = [headers EXCEPT ![key[1]] = IF @ = None THEN value ELSE <<@, value>>]

\* Fault: no header, as in MutationImpl.
PutString_NoHeader(key, value) ==
    /\ Put(key, value)
    /\ UNCHANGED headers

\* remove() and addCopy() under the name in lower case.
PutString(key, value) ==
    /\ Put(key, value)
    /\ headers' = [headers EXCEPT ![key[1]] = value]

Named(name) == {k \in Keys : k[1] = name}

\* Some writer calls put() or putString().
Write(key, value) ==
    /\ puts < MaxPuts
    /\ puts' = puts + 1
    /\ \/ /\ PutString(key, value)
          /\ rewritten' = IF \A k \in Named(key[1]) : properties[k] = None THEN rewritten
                          ELSE rewritten \cup {key[1]}
       \/ /\ Put(key, value) /\ UNCHANGED headers
          /\ rewritten' = rewritten \cup {key[1]}
    /\ UNCHANGED <<routes, stream_id, pc, searchVars>>

\* The codec writes each key once while it decodes.
CodecWrites(key, value) ==
    /\ pc = "codec" /\ properties[key] = None
    /\ Write(key, value)

\* The message is decoded; the filters run.
Decoded ==
    /\ pc = "codec"
    /\ pc' = "filters"
    /\ UNCHANGED <<routes, stream_id, store, searchVars, puts, rewritten>>

FilterWrites(key, value) == pc = "filters" /\ Write(key, value)

\* The filters before the router are done.
EnterRouter ==
    /\ pc = "filters"
    /\ pc' = "router"
    /\ UNCHANGED <<routes, stream_id, store, searchVars, puts, rewritten>>

----------------------------------------------------------------------------
(* ActiveMessage::route, for a filter or for the router.                   *)

\* The router does no more with the metadata once it has its answer.
Returned(who) == IF who = "router" THEN "done" ELSE "filters"

AskCached ==
    /\ pc \in {"filters", "router"} /\ cached_route # Unset
    /\ answers' = answers \cup {cached_route}
    /\ pc' = Returned(pc)
    /\ UNCHANGED <<routes, stream_id, store, cached_route, caller, at, puts, rewritten, asked>>

AskMatcher ==
    /\ pc \in {"filters", "router"} /\ cached_route = Unset
    /\ caller' = pc
    /\ pc' = "matcher" /\ at' = 1
    /\ asked' = headers
    /\ UNCHANGED <<routes, stream_id, store, cached_route, puts, rewritten, answers>>

\* Fault: only a route is worth keeping.
Answer_ForgetsNoRoute(answer) ==
    /\ cached_route' = IF answer = NoRoute THEN Unset ELSE answer
    /\ answers' = answers \cup {answer}
    /\ pc' = Returned(caller)
    /\ UNCHANGED <<routes, stream_id, store, caller, at, puts, rewritten, asked>>

\* The matcher returns: its answer is kept, also when there is no route.
Answer(answer) ==
    /\ cached_route' = answer
    /\ answers' = answers \cup {answer}
    /\ pc' = Returned(caller)
    /\ UNCHANGED <<routes, stream_id, store, caller, at, puts, rewritten, asked>>

----------------------------------------------------------------------------
(* RouteMatcherImpl::route.                                                *)

\* headersMatch, and Envoy's matchHeaders.
HeadersMatch(route, hs) ==
    route.match = {} \/ \A m \in route.match : hs[m[1]] \in m[2]

\* The weights up to each cluster.
UpTo(weights) ==
    LET sum[k \in 0..Len(weights)] == IF k = 0 THEN 0 ELSE sum[k - 1] + weights[k] IN sum

\* Fault: the last weight instead of the sum.
TotalWeight_Last(weights) == weights[Len(weights)]

\* total_cluster_weight_
TotalWeight(weights) == UpTo(weights)[Len(weights)]

\* WeightedClusterUtil::pickCluster
PickCluster(weights, random) ==
    CHOOSE k \in DOMAIN weights :
        /\ UpTo(weights)[k - 1] <= random % TotalWeight(weights)
        /\ random % TotalWeight(weights) < UpTo(weights)[k]

\* The next route of the loop matches.
AtMatch == pc = "matcher" /\ at \in DOMAIN routes /\ HeadersMatch(routes[at], headers)

\* No cluster but its own: clusterEntry returns the route.
MatchOneCluster ==
    /\ AtMatch /\ routes[at].weights = <<>>
    /\ Answer([route |-> at, cluster |-> 0])

MatchWeightedCluster ==
    /\ AtMatch /\ routes[at].weights # <<>> /\ TotalWeight(routes[at].weights) > 0
    /\ Answer([route |-> at, cluster |-> PickCluster(routes[at].weights, stream_id)])

\* The random value is divided by zero.
MatchNoWeight ==
    /\ AtMatch /\ routes[at].weights # <<>> /\ TotalWeight(routes[at].weights) = 0
    /\ pc' = "crashed"
    /\ UNCHANGED <<routes, stream_id, store, searchVars, puts, rewritten>>

MatchNext ==
    /\ pc = "matcher" /\ at \in DOMAIN routes /\ ~HeadersMatch(routes[at], headers)
    /\ at' = at + 1
    /\ UNCHANGED <<routes, stream_id, store, cached_route, pc, caller, puts, rewritten, asked,
                   answers>>

MatchNone ==
    /\ pc = "matcher" /\ at \notin DOMAIN routes
    /\ Answer(NoRoute)

Next ==
    \/ \E key \in Keys, value \in Values : CodecWrites(key, value) \/ FilterWrites(key, value)
    \/ Decoded \/ EnterRouter
    \/ AskCached \/ AskMatcher
    \/ MatchOneCluster \/ MatchWeightedCluster \/ MatchNoWeight \/ MatchNext \/ MatchNone

Spec == Init /\ [][Next]_vars

----------------------------------------------------------------------------
(* Properties.                                                             *)

\* The type invariant: a header has one value, or none.
TypeOK ==
    /\ routes \in RouteConfigs
    /\ stream_id \in 0..MaxRandom
    /\ properties \in [Keys -> Values \cup {None}]
    /\ headers \in [Names -> Values \cup {None}]
    /\ asked \in [Names -> Values \cup {None}]
    /\ pc \in {"codec", "filters", "router", "matcher", "done", "crashed"}
    /\ caller \in {"filters", "router"}
    /\ at \in 1..Len(routes) + 1
    /\ puts \in 0..MaxPuts /\ rewritten \subseteq Names

\* The documented meaning of the configuration: the answer is the first route all of
\* whose matchers accept the headers; there is no answer but "none" when no route does.
FirstRouteWins ==
    \A answer \in answers :
        LET before == IF answer = NoRoute THEN DOMAIN routes ELSE 1..answer.route - 1
        IN  /\ answer # NoRoute =>
                  /\ answer.route \in DOMAIN routes
                  /\ \A m \in routes[answer.route].match : asked[m[1]] \in m[2]
            /\ \A i \in before : \E m \in routes[i].match : asked[m[1]] \notin m[2]

\* A route of several clusters gives the request to one of them, and not to one of
\* weight zero; nothing but a route without any weight makes the matcher divide by
\* zero.
WeightsRespected ==
    /\ \A answer \in answers \ {NoRoute} :
          LET weights == routes[answer.route].weights
          IN  IF weights = <<>> THEN answer.cluster = 0
              ELSE answer.cluster \in DOMAIN weights /\ weights[answer.cluster] > 0
    /\ pc = "crashed" => \A k \in DOMAIN routes[at].weights : routes[at].weights[k] = 0

\* Whoever asks, and whatever a filter writes between, a message has one route.
OneRoute == \A answer, other \in answers : answer = other

\* A message has the route of the configuration, and no other.
RoutedByConfiguration == FirstRouteWins /\ OneRoute

\* What filters and local replies read under a key is what the request is routed by,
\* unless the name was written again or by put().
ReadAsRouted ==
    \A key \in Keys :
        key[1] \notin rewritten /\ properties[key] # None => headers[key[1]] = properties[key]
=============================================================================
