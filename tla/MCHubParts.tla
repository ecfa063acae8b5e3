----------------------------- MODULE MCHubParts -----------------------------
(* Small instances of the parts: what each may do, and how often.          *)
EXTENDS HubParts

JBudget(submit, flush, rotate, status, ticks, faults) ==
    [x \in JBounded |-> CASE x = "submit" -> submit [] x = "flush" -> flush
                          [] x = "rotate" -> rotate [] x = "status" -> status
                          [] x = "ticks" -> ticks [] x = "faults" -> faults]
JournalBudgets == {JBudget(1, 0, 2, 0, 1, 1), JBudget(1, 1, 1, 0, 0, 0),
                   JBudget(2, 0, 0, 0, 0, 1), JBudget(2, 0, 0, 0, 1, 0),
                   JBudget(1, 1, 0, 0, 1, 2), JBudget(1, 0, 0, 1, 0, 1)}

WBudget(posts, presence, flushes, stops, outages, syncs) ==
    [x \in Bounded |-> CASE x = "posts" -> posts [] x = "presence" -> presence
                         [] x = "flushes" -> flushes [] x = "stops" -> stops
                         [] x = "outages" -> outages [] x = "syncs" -> syncs]
WStart(refused, left) == [refused |-> refused, left |-> left]
WriterStarts == {WStart({}, WBudget(3, 0, 0, 0, 1, 0)),
                 WStart({}, WBudget(2, 0, 1, 1, 0, 0)),
                 WStart({}, WBudget(2, 0, 0, 0, 1, 1)),
                 WStart({}, WBudget(2, 0, 1, 0, 1, 0)),
                 WStart({}, WBudget(2, 0, 0, 1, 1, 0)),
                 WStart({}, WBudget(2, 1, 0, 1, 0, 0)),
                 WStart({2}, WBudget(2, 0, 0, 0, 1, 1)),
                 WStart({1}, WBudget(3, 0, 0, 0, 0, 0))}

IStart(notes, lanes, more, resets, failures, expiries, summaries) ==
    [notes |-> notes, lanes |-> lanes,
     left |-> [x \in IBounded |->
         CASE x = "notes" -> more [] x = "resets" -> resets
           [] x = "failures" -> failures [] x = "expiries" -> expiries
           [] x = "summaries" -> summaries]]
FewRed == <<"blue", "blue", "blue", "red">>
OneRed == <<"blue", "red">>
InboxStarts == {IStart(<<>>, {}, 0, 0, 0, 0, 0),
                IStart(FewRed, {"red"}, 1, 0, 1, 0, 0),
                IStart(OneRed, {"all", "red"}, 0, 1, 0, 0, 0),
                IStart(OneRed, {"red"}, 1, 0, 0, 1, 0),
                IStart(OneRed, {"all"}, 1, 0, 1, 0, 2)}

ABudget(posts, failures, listings, acks) ==
    [x \in ABounded |-> CASE x = "posts" -> posts [] x = "failures" -> failures
                          [] x = "listings" -> listings [] x = "acks" -> acks]
AckBudgets == {ABudget(2, 0, 1, 1), ABudget(1, 1, 1, 1)}
AckWindow == [m \in AMsgs |-> 1]

PBudget(announce, push, pull, faults) ==
    [x \in PBounded |-> CASE x = "announce" -> announce [] x = "push" -> push
                          [] x = "pull" -> pull [] x = "faults" -> faults]
TwoHubs(first, second) == [h \in PHubs |-> IF h = 1 THEN first ELSE second]
TooLong(said) == said.ttl > 2
PresenceBudgets ==
    {TwoHubs(PBudget(1, 0, 1, 0), PBudget(1, 1, 0, 0)),
     TwoHubs(PBudget(2, 1, 1, 0), PBudget(0, 0, 0, 0)),
     TwoHubs(PBudget(2, 2, 0, 1), PBudget(0, 0, 0, 0))}

EBudget(posts, connects, faults) ==
    [x \in EBounded |-> CASE x = "posts" -> posts [] x = "connects" -> connects
                          [] x = "faults" -> faults]
EventBudgets == {EBudget(3, 2, 0), EBudget(2, 2, 1)}

VBudget(events, failures, leaves) ==
    [x \in VBounded |-> CASE x = "events" -> events [] x = "failures" -> failures
                          [] x = "leaves" -> leaves]
StopBudgets == {VBudget(1, 1, 0), VBudget(2, 0, 1)}

SItem(n, origin, key, to, ack) ==
    [n |-> n, origin |-> origin, key |-> key, to |-> to, ack |-> ack]
Asks == SItem(1, "cloud", 7, "b", TRUE)
Tells == SItem(2, "cloud", 8, "all", FALSE)
SameKey == SItem(3, "hub", 7, "b", FALSE)
Knock == SItem(4, "cloud", 0, "b", TRUE)
StoreItems == {Asks, Tells, SameKey, Knock}
StorePosts == {{Asks, Tells}, {SameKey}, {Knock}}
SBudget(sends, acks, faults, sweeps) ==
    [x \in SBounded |-> CASE x = "sends" -> sends [] x = "acks" -> acks
                          [] x = "faults" -> faults [] x = "sweeps" -> sweeps]
StoreBudgets == {SBudget(3, 0, 1, 0), SBudget(2, 0, 1, 1), SBudget(2, 1, 0, 0),
                 SBudget(1, 1, 1, 1)}

Roster == {"op", "hub", "me", "you"}
RosterRoles == [i \in Roster |-> CASE i = "op" -> "operator" [] i = "hub" -> "hub"
                                   [] OTHER -> "agent"]
TBudget(ops, evidence, faults) ==
    [x \in TBounded |-> CASE x = "evidence" -> evidence [] x = "faults" -> faults
                          [] OTHER -> IF x \in ops THEN 1 ELSE 0]
TStart(map, live, client, pending, left) ==
    [map |-> map, vault |-> map, live |-> live, client |-> client,
     pending |-> pending, left |-> left]
First == {<<i, 1>> : i \in Roster}
Me(k) == <<"me", k>>
WithMe == First \cup {Me(2)}
WithYou == First \cup {<<"you", 2>>}
\* Nothing yet; a deployed map the tool does not know; one it does; a rotation
\* that was uploaded; another identity with two tokens.
TokenStarts ==
    {TStart({}, {}, NoToken, NoToken,
            TBudget({"mint", "write", "upsert", "upload"}, 1, 1)),
     TStart({}, First, NoToken, NoToken,
            TBudget({"mint", "write", "upsert", "upload"}, 1, 0)),
     TStart(First, First, Me(1), NoToken,
            TBudget({"rotate", "upsert", "upload", "activate"}, 1, 1)),
     TStart(WithMe, WithMe, Me(1), Me(2),
            TBudget({"activate", "rotate", "revoke"}, 1, 1)),
     TStart(WithYou, WithYou, Me(1), NoToken,
            TBudget({"revoke", "upsert", "upload"}, 2, 1))}

Candidate(role, hub, class, sites, cred) ==
    [role |-> role, hub |-> hub, class |-> class, sites |-> sites, cred |-> cred]
HomeLan == Candidate("authoritative", "h", 1, {"home"}, TRUE)
Tailnet == Candidate("authoritative", "h", 2, {}, TRUE)
Unnamed == Candidate("authoritative", "any", 1, {"home"}, TRUE)
Rival == Candidate("authoritative", "c", 1, {}, TRUE)
Spare == Candidate("fallback", "any", 1, {"home"}, TRUE)
Cloud(cred) == Candidate("cloud", "c", 3, {}, cred)
RBudget(calls, claims, changes, moves, timeouts) ==
    [x \in RBounded |-> CASE x = "calls" -> calls [] x = "claims" -> claims
                          [] x = "changes" -> changes [] x = "moves" -> moves
                          [] x = "timeouts" -> timeouts]
\* Who each candidate means answers, except at those that are down.
RStart(cands, down, left) ==
    [cands |-> cands, left |-> left,
     serves |-> [i \in DOMAIN cands |-> IF i \in down THEN "down"
                    ELSE IF cands[i].hub = "any" THEN "h" ELSE cands[i].hub]]
Usual == <<HomeLan, Spare, Tailnet, Cloud(TRUE)>>
TwoAuthorities == <<HomeLan, Rival>>
Legacy == <<Cloud(FALSE), Spare, Unnamed, Spare>>
RouteStarts == {RStart(Usual, {1, 3}, RBudget(2, 0, 1, 0, 0)),
                RStart(Usual, {1, 3}, RBudget(1, 1, 0, 0, 0)),
                RStart(Usual, {3}, RBudget(2, 0, 0, 1, 0)),
                RStart(Usual, {}, RBudget(1, 1, 1, 0, 0)),
                RStart(Usual, {}, RBudget(0, 1, 0, 1, 1)),
                RStart(TwoAuthorities, {}, RBudget(0, 2, 1, 0, 0)),
                RStart(Legacy, {}, RBudget(1, 0, 1, 0, 1))}
=============================================================================
