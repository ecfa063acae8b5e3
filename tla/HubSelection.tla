---------------------------- MODULE HubSelection ----------------------------
(***************************************************************************)
(* How a client picks the hub of a call (hub.rs, link_route.rs,            *)
(* remote_dispatch.rs): the configured candidates are grouped into stores, *)
(* and the routes of one store are raced, or walked, before the next store *)
(* is tried.  The last good route is kept in a file that all processes     *)
(* share (hub_cache.rs); a process that serves MCP also keeps the last     *)
(* answer in memory.  Hubs come and go, addresses are reused by other      *)
(* hubs, and the machine moves between networks while a resolution is      *)
(* under way.                                                              *)
(*                                                                         *)
(* A candidate is its index in the configured list.  A network has the     *)
(* location of its name, except "away", which matches no rule.             *)
(***************************************************************************)
EXTENDS Integers, Sequences, FiniteSets

CONSTANTS
    RSessions,  \* calls that may run at a time, of any process
    RServers,   \* those of one process that serves MCP; others run and exit
    RNets,      \* networks the machine can be attached to
    RHubs,      \* what may answer at a URL
    RStarts     \* configurations: the candidates, who answers at first, and
                \* the bound: how often each of RBounded happens

RRoles == {"authoritative", "fallback", "cloud"}
RBounded == {"calls", "claims", "changes", "moves", "timeouts"}
\* hub: the identity a candidate names, or "any"; class: LinkClass, best first;
\* cred: its credential can be resolved.
RCandidates == [role : RRoles, hub : RHubs \cup {"any"}, class : 0 .. 3,
                sites : SUBSET RNets, cred : BOOLEAN]

ASSUME SelectionAssumption ==
    /\ "away" \in RNets /\ RServers \subseteq RSessions
    /\ {"any", "down"} \cap RHubs = {}
    /\ \A s \in RStarts :
           /\ s.cands \in Seq(RCandidates) /\ s.cands # <<>>
           /\ s.serves \in [DOMAIN s.cands -> RHubs \cup {"down"}]
           /\ s.left \in [RBounded -> Nat]

VARIABLES
    rcands,   \* the configured candidates
    rserves,  \* who answers at each of them
    rnet,     \* the network now
    rfile,    \* the cached route and the network it is for
    rmem,     \* what the serving process keeps: a route, or 0 for Offline
    rses,     \* the resolutions
    rnamed,   \* history: hubs that were taken for a named authority
    rleft     \* what is left of the budget

selectVars == <<rcands, rserves, rnet, rfile, rmem, rses, rnamed, rleft>>

NoRoute == [at |-> 0, net |-> "away"]
NoMemory == [held |-> FALSE, at |-> 0]
\* left: candidates that have not failed; steady (history): those that would
\* have been accepted at any time since the resolution began.
RIdle == [pc |-> "idle", claims |-> FALSE, races |-> FALSE,
          net |-> "away", cached |-> 0, left |-> {}, got |-> 0, steady |-> {}]

RIndexes == DOMAIN rcands

SelectionTypeOK ==
    /\ rcands \in Seq(RCandidates)
    /\ rserves \in [RIndexes -> RHubs \cup {"down"}]
    /\ rnet \in RNets
    /\ rfile \in [at : RIndexes \cup {0}, net : RNets]
    /\ rmem \in [held : BOOLEAN, at : RIndexes \cup {0}]
    /\ rses \in [RSessions ->
           [pc : {"idle", "probing", "won", "keep", "lost", "using"},
            claims : BOOLEAN, races : BOOLEAN, net : RNets, cached : RIndexes \cup {0}, left : SUBSET RIndexes,
            got : RIndexes \cup {0}, steady : SUBSET RIndexes]]
    /\ rnamed \subseteq RHubs
    /\ rleft \in [RBounded -> Nat]

SelectionInit ==
    /\ \E s \in RStarts :
           rcands = s.cands /\ rserves = s.serves /\ rleft = s.left
    /\ rnet = "away"
    /\ rfile = NoRoute /\ rmem = NoMemory
    /\ rses = [p \in RSessions |-> RIdle]
    /\ rnamed = {}

RSpend(what) ==
    /\ rleft[what] > 0
    /\ rleft' = [rleft EXCEPT ![what] = @ - 1]

-----------------------------------------------------------------------------
(* The plan.                                                               *)

RAuthorities == {i \in RIndexes : rcands[i].role = "authoritative"}

\* validate_candidates: several authorities are routes to one named hub.
RValid ==
    Cardinality(RAuthorities) > 1 =>
        \E h \in RHubs : \A i \in RAuthorities : rcands[i].hub = h

RRank(i) == CASE rcands[i].role = "authoritative" -> 0
              [] rcands[i].role = "fallback" -> 1
              [] rcands[i].role = "cloud" -> 2

RLeast(S) == CHOOSE i \in S : \A j \in S : i <= j

\* The first candidate of the store: same role and the same hub by name.
RStore(i) ==
    RLeast({i} \cup {j \in RIndexes : /\ rcands[i].hub # "any"
                                      /\ rcands[j].hub = rcands[i].hub
                                      /\ rcands[j].role = rcands[i].role})

RSiteMatch(i, net) == net # "away" /\ net \in rcands[i].sites

\* eligible: declared for no other location than this one.
REligible(i, net) ==
    \/ net = "away" \/ rcands[i].class \in {2, 3}
    \/ rcands[i].sites = {} \/ RSiteMatch(i, net)

\* Lexicographic order of tuples of numbers.
RBefore(a, b) ==
    \E k \in DOMAIN a : a[k] < b[k] /\ \A l \in 1 .. k - 1 : a[l] = b[l]
RFirstBy(S, key(_)) == {i \in S : ~ \E j \in S : RBefore(key(j), key(i))}
RBit(b) == IF b THEN 0 ELSE 1

\* Mutation: the store of the cached route is tried before all others.
RStage_CachedFirst(i, s) ==
    <<RBit(s.cached # 0 /\ RStore(i) = RStore(s.cached)),
      RRank(i), RStore(i), RBit(REligible(i, s.net))>>

\* grouped_route_plans: roles, then stores as configured, then the routes that
\* are for another location.
RStage(i, s) == <<RRank(i), RStore(i), RBit(REligible(i, s.net))>>

\* arrange: the order within a stage.
ROrder(i, s) == <<RBit(i = s.cached), rcands[i].class,
                  RBit(RSiteMatch(i, s.net)), i>>

\* The candidates whose probe may end next: in a race any of the stage (the
\* head starts bound nothing), in a walk the first.
RTurn(s) ==
    LET Stage(i) == RStage(i, s)
        Order(i) == ROrder(i, s)
        stage == RFirstBy(s.left, Stage)
    IN  IF s.races THEN stage ELSE RFirstBy(stage, Order)

-----------------------------------------------------------------------------
(* A resolution.                                                           *)

\* Mutation: the identity of the hub that answers is not compared.
RAccepts_AnyHub(i, h) == rcands[i].cred /\ h # "down"

\* identity_matches, for a healthy answer of h to an authenticated probe.
RAccepts(i, h) ==
    /\ rcands[i].cred /\ h # "down"
    /\ rcands[i].hub \in {"any", h}

\* Mutation: a claim operation goes where the last call went.
RRecalls_Claims(p, claims) == p \in RServers /\ rmem.held

\* resolve_backend, which claim operations do not use.
RRecalls(p, claims) == p \in RServers /\ rmem.held /\ ~claims

\* dispatch_tool with a backend in memory.
RRecall(p, claims) ==
    /\ rses[p].pc = "idle"
    /\ RRecalls(p, claims)
    /\ RSpend(IF claims THEN "claims" ELSE "calls")
    /\ rses' = [rses EXCEPT ![p] =
           [RIdle EXCEPT !.pc = IF rmem.at = 0 THEN "lost" ELSE "using",
                         !.claims = claims, !.got = rmem.at]]
    /\ UNCHANGED <<rcands, rserves, rnet, rfile, rmem, rnamed>>

\* A call, or a claim operation, that only asks the authority and does not
\* read the cache.  An invalid configuration is Offline without a probe.
RBegin(p, claims, races) ==
    LET asked == IF claims THEN RAuthorities ELSE RIndexes
        hit == ~claims /\ rfile.at # 0 /\ rfile.net = rnet
    IN  /\ rses[p].pc = "idle"
        /\ ~RRecalls(p, claims)
        /\ RSpend(IF claims THEN "claims" ELSE "calls")
        /\ RValid
        /\ rses' = [rses EXCEPT ![p] =
               [pc |-> "probing", claims |-> claims, races |-> races, net |-> rnet,
                cached |-> IF hit THEN rfile.at ELSE 0, left |-> asked, got |-> 0,
                steady |-> {i \in asked : RAccepts(i, rserves[i])}]]
        /\ UNCHANGED <<rcands, rserves, rnet, rfile, rmem, rnamed>>

RProbe(p, i) ==
    /\ rses[p].pc = "probing" /\ i \in RTurn(rses[p])
    /\ IF RAccepts(i, rserves[i])
       THEN /\ rses' = [rses EXCEPT ![p].pc = "won", ![p].got = i]
            /\ rnamed' = IF i \in RAuthorities /\ rcands[i].hub # "any"
                         THEN rnamed \cup {rserves[i]} ELSE rnamed
       ELSE /\ rses' = [rses EXCEPT ![p].left = @ \ {i}]
            /\ UNCHANGED rnamed
    /\ UNCHANGED <<rcands, rserves, rnet, rfile, rmem, rleft>>

\* The probe does not end within its budget, or its answer is lost.
RProbeFails(p, i) ==
    /\ rses[p].pc = "probing" /\ i \in RTurn(rses[p])
    /\ RSpend("timeouts")
    /\ rses' = [rses EXCEPT ![p].left = @ \ {i}, ![p].steady = @ \ {i}]
    /\ UNCHANGED <<rcands, rserves, rnet, rfile, rmem, rnamed>>

\* What the call does next: a serving process first keeps what it resolved.
RNextStep(p, then) == IF p \in RServers /\ ~rses[p].claims THEN "keep" ELSE then

\* succeed: the winner is cached for the network the resolution began on.
RSucceed(p) ==
    /\ rses[p].pc = "won"
    /\ rfile' = [at |-> rses[p].got, net |-> rses[p].net]
    /\ rses' = [rses EXCEPT ![p].pc = RNextStep(p, "using")]
    /\ UNCHANGED <<rcands, rserves, rnet, rmem, rnamed, rleft>>

RExhausted(p) ==
    /\ rses[p].pc = "probing" /\ rses[p].left = {}
    /\ rfile' = NoRoute
    /\ rses' = [rses EXCEPT ![p].pc = RNextStep(p, "lost")]
    /\ UNCHANGED <<rcands, rserves, rnet, rmem, rnamed, rleft>>

RKeep(p) ==
    /\ rses[p].pc = "keep"
    /\ rmem' = [held |-> TRUE, at |-> rses[p].got]
    /\ rses' = [rses EXCEPT ![p].pc = IF rses[p].got = 0 THEN "lost" ELSE "using"]
    /\ UNCHANGED <<rcands, rserves, rnet, rfile, rnamed, rleft>>

RCallDone(p) ==
    /\ \/ rses[p].pc = "using" /\ rserves[rses[p].got] # "down"
       \/ rses[p].pc = "lost"
    /\ rses' = [rses EXCEPT ![p] = RIdle]
    /\ UNCHANGED <<rcands, rserves, rnet, rfile, rmem, rnamed, rleft>>

\* invalidate_hub_cache and invalidate_configured_cache, after a call that
\* failed.
RCallFails(p) ==
    /\ rses[p].pc = "using" /\ rserves[rses[p].got] = "down"
    /\ rfile' = NoRoute
    /\ rmem' = IF p \in RServers THEN NoMemory ELSE rmem
    /\ rses' = [rses EXCEPT ![p] = RIdle]
    /\ UNCHANGED <<rcands, rserves, rnet, rnamed, rleft>>

\* An entry is older than its time to live.
RCacheExpires ==
    /\ \/ rfile # NoRoute /\ rfile' = NoRoute /\ UNCHANGED rmem
       \/ rmem # NoMemory /\ rmem' = NoMemory /\ UNCHANGED rfile
    /\ UNCHANGED <<rcands, rserves, rnet, rses, rnamed, rleft>>

-----------------------------------------------------------------------------
(* Around it.                                                              *)

\* Another hub, or nobody, answers at the URL of a candidate.
RChange(i, h) ==
    /\ rserves[i] # h
    /\ RSpend("changes")
    /\ rserves' = [rserves EXCEPT ![i] = h]
    /\ rses' = [p \in RSessions |-> [rses[p] EXCEPT !.steady = @ \ {i}]]
    /\ UNCHANGED <<rcands, rnet, rfile, rmem, rnamed>>

RMove(net) ==
    /\ rnet # net
    /\ RSpend("moves")
    /\ rnet' = net
    /\ UNCHANGED <<rcands, rserves, rfile, rmem, rses, rnamed>>

SelectionNext ==
    \/ \E p \in RSessions :
         \/ \E claims \in BOOLEAN :
              \/ RRecall(p, claims)
              \/ \E races \in BOOLEAN : RBegin(p, claims, races)
         \/ \E i \in RIndexes : RProbe(p, i) \/ RProbeFails(p, i)
         \/ RSucceed(p) \/ RExhausted(p) \/ RKeep(p) \/ RCallDone(p) \/ RCallFails(p)
    \/ RCacheExpires
    \/ \E i \in RIndexes, h \in RHubs \cup {"down"} : RChange(i, h)
    \/ \E net \in RNets : RMove(net)

SelectionSpec == SelectionInit /\ [][SelectionNext]_selectVars

-----------------------------------------------------------------------------
(* Whatever the caches hold and wherever the machine was, is or guesses to *)
(* be: a resolution does not choose a fallback or the cloud while a better *)
(* hub was there to answer all the time, does not give up while any was,   *)
(* a claim operation goes to the authority only, and all that ever pass    *)
(* for a named authority are one hub (Resolution, grouped_route_plans,     *)
(* validate_candidates, dispatch_tool; hub.rs, "neither may promote cloud  *)
(* above authority"; link_route.rs, "costs time but never reachability").  *)
AuthorityFirst ==
    /\ \A p \in RSessions :
         /\ rses[p].pc = "won" =>
                \A i \in rses[p].steady : RRank(i) >= RRank(rses[p].got)
         /\ (rses[p].pc \in {"lost", "keep"} /\ rses[p].got = 0)
                => rses[p].steady = {}
         /\ (rses[p].pc = "using" /\ rses[p].claims)
                => rses[p].got \in RAuthorities
    /\ Cardinality(rnamed) <= 1
=============================================================================
