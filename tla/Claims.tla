-------------------------------- MODULE Claims --------------------------------
(***************************************************************************)
(* Ownership claims of one resource: claim, renew, release, resolve and    *)
(* the reads (channels.rs, ops/claim.rs).  The claims are a Redis hash     *)
(* with one field per agent; every operation reads it, works in memory and *)
(* writes it back, one Redis command per step, so that operations of       *)
(* several processes interleave between any two commands.                  *)
(*                                                                         *)
(* Leases and TTLs are asked for in seconds; the clock runs in instants,   *)
(* Second of them to a second.                                             *)
(***************************************************************************)
EXTENDS Integers, FiniteSets

CONSTANTS
    Agents,        \* agents that claim
    Procs,         \* processes that may run an operation at the same time
    Modes,         \* lease modes of this instance
    TTLs,          \* lease_ttl_seconds asked for
    Second,        \* instants in a second
    ResolutionTTL, \* CLAIM_TTL_SECS of the resolution record, in instants
    Ops,           \* the operations of this instance
    MaxTime,       \* bound: the last instant
    MaxOps,        \* bound: operations started
    MaxCrashes,    \* bound: processes that die, and messages that fail
    Nobody         \* no winner recorded

\* A namespaced mode stands for shared_namespaced with that namespace; a
\* claim of this mode without a namespace is refused before anything is read.
LeaseModes == {"exclusive", "shared", "ns1", "ns2"}
Operations == {"claim", "renew", "release", "resolve", "read", "list"}

ASSUME ClaimsAssumption ==
    /\ Agents # {} /\ Procs # {} /\ Nobody \notin Agents
    /\ Modes \subseteq LeaseModes /\ Ops \subseteq Operations
    /\ TTLs \subseteq Nat \ {0} /\ Second \in Nat \ {0}
    /\ ResolutionTTL \in Nat /\ MaxTime \in Nat /\ MaxOps \in Nat
    /\ MaxCrashes \in Nat

VARIABLES
    now,        \* the clock
    hash,       \* bus:claims:<resource>, by agent
    due,        \* when Redis drops the hash; 0 is no TTL
    resolution, \* bus:claims:<resource>:resolution; due 0 is no TTL
    proc,       \* the operation each process is in
    told,       \* what each agent was last told about its claim
    started,    \* operations started
    crashes,    \* processes that died and messages that failed
    lost,       \* agents whose claim a process deleted, and died before it
                \* wrote it back
    missed      \* agents ruled against that were never told

vars == <<now, hash, due, resolution, proc, told, started, crashes, lost, missed>>

Statuses == {"granted", "contested", "review"}
Claim == [mode : LeaseModes, exp : Int, status : Statuses]
NoClaim == [mode |-> "none", exp |-> 0, status |-> "none"]
Claims == [Agents -> Claim \cup {NoClaim}]
NoClaims == [a \in Agents |-> NoClaim]

\* load..refresh are the commands of load_active_claims, write and expire
\* those of persist_claims, notify the messages of resolve_claim.
Pcs == {"idle", "load", "prune", "drop", "dropped", "refresh", "loaded",
        "write", "expire", "dropAll", "record", "recorded", "notify", "scan"}
Proc == [pc : Pcs, op : Operations \cup {"none", "notify"},
         agent : Agents \cup {Nobody}, mode : LeaseModes \cup {"none"},
         ttl : Int, at : Int, seen : Int, view : Claims, todo : SUBSET Agents]
Free == [pc |-> "idle", op |-> "none", agent |-> Nobody, mode |-> "none",
         ttl |-> 0, at |-> 0, seen |-> 0, view |-> NoClaims, todo |-> {}]

TypeOK ==
    /\ now \in 0 .. MaxTime
    /\ hash \in Claims
    /\ due \in Nat
    /\ resolution \in [winner : Agents \cup {Nobody}, due : Nat]
    /\ proc \in [Procs -> Proc]
    /\ told \in Claims
    /\ started \in 0 .. MaxOps /\ crashes \in 0 .. MaxCrashes
    /\ lost \subseteq Agents /\ missed \subseteq Agents

NoResolution == [winner |-> Nobody, due |-> 0]

Init ==
    /\ now = 0
    /\ hash = NoClaims /\ due = 0
    /\ resolution = NoResolution
    /\ proc = [p \in Procs |-> Free]
    /\ told = NoClaims
    /\ started = 0 /\ crashes = 0 /\ lost = {} /\ missed = {}

-----------------------------------------------------------------------------
(* Claims in memory.                                                       *)

Holders(v) == {a \in Agents : v[a] # NoClaim}
Unexpired(c, t) == c.exp > t

\* Mutation: an exclusive claim conflicts with exclusive claims only.
Conflicts_SameMode(l, r) ==
    \/ l.mode = "exclusive" /\ r.mode = "exclusive"
    \/ l.mode = r.mode /\ l.mode # "shared"

\* claim_conflicts: exclusive with everything, one namespace with itself.
Conflicts(l, r) ==
    \/ l.mode = "exclusive" \/ r.mode = "exclusive"
    \/ l.mode = r.mode /\ l.mode # "shared"

\* recompute_claim_statuses
Recomputed(v) ==
    [a \in Agents |->
        IF a \notin Holders(v) THEN NoClaim
        ELSE [v[a] EXCEPT !.status =
                IF \E b \in Holders(v) \ {a} : Conflicts(v[a], v[b])
                THEN "contested" ELSE "granted"]]

\* Mutation: the winner is entered whether it has a claim or not.
Ruled_AnyWinner(v, w) ==
    [a \in Agents |->
        IF a # w /\ a \notin Holders(v) THEN NoClaim
        ELSE [v[a] EXCEPT !.status = IF a = w THEN "granted" ELSE "review"]]

\* resolve_claim: the winner has it, everybody else reviews.
Ruled(v, w) ==
    [a \in Agents |->
        IF a \notin Holders(v) THEN NoClaim
        ELSE [v[a] EXCEPT !.status = IF a = w THEN "granted" ELSE "review"]]

\* Mutation: the hash lives as long as the shortest lease.
HashTTLs_Shortest(v, t) ==
    LET ends == {v[a].exp : a \in {b \in Holders(v) : Unexpired(v[b], t)}}
        e    == CHOOSE x \in ends : \A y \in ends : y >= x
    IN  IF ends = {} THEN {1} ELSE {(e - t) \div Second, (e - t - 1) \div Second}

\* claims_hash_ttl_seconds: what is left of the longest lease, in whole
\* seconds.  expires_at keeps microseconds while the clock does not stop
\* there, so a lease of exactly n seconds counts n - 1 as a rule.
HashTTLs(v, t) ==
    LET ends == {v[a].exp : a \in {b \in Holders(v) : Unexpired(v[b], t)}}
        e    == CHOOSE x \in ends : \A y \in ends : y <= x
    IN  IF ends = {} THEN {1} ELSE {(e - t) \div Second, (e - t - 1) \div Second}

-----------------------------------------------------------------------------
(* Redis commands on the hash.                                             *)

\* The TTL d of a key is over at time t; 0 is no TTL.
Over(d, t) == d # 0 /\ d <= t

DelKey == hash' = NoClaims /\ due' = 0

\* HDEL: a hash without fields is gone, and its TTL with it.
HDel(S) ==
    /\ hash' = [a \in Agents |-> IF a \in S THEN NoClaim ELSE hash[a]]
    /\ due' = IF Holders(hash) \subseteq S THEN 0 ELSE due

HSet(a, c) == hash' = [hash EXCEPT ![a] = c] /\ UNCHANGED due

\* EXPIRE: 0 seconds is a deletion, and a hash that is gone stays gone.
Expire(n) ==
    IF n = 0 \/ Holders(hash) = {} THEN DelKey
    ELSE due' = now + n * Second /\ UNCHANGED hash

-----------------------------------------------------------------------------
(* Processes.                                                              *)

Goto(p, pc) == proc' = [proc EXCEPT ![p].pc = pc]
Return(p) == proc' = [proc EXCEPT ![p] = Free]

\* at is the time stamp of a claim, taken before the hash is read.  An agent
\* that asks anew or gives up does not count on what it was told before, and
\* what it has not heard of no longer matters.
Begin(p, op, a, m, t) ==
    /\ proc[p].pc = "idle"
    /\ op \in Ops
    /\ started < MaxOps
    /\ started' = started + 1
    /\ proc' = [proc EXCEPT ![p] = [Free EXCEPT !.pc = "load", !.op = op,
                    !.agent = a, !.mode = m, !.ttl = t, !.at = now]]
    /\ IF op \in {"claim", "renew", "release"}
       THEN /\ told' = [told EXCEPT ![a] = NoClaim]
            /\ lost' = lost \ {a} /\ missed' = missed \ {a}
       ELSE UNCHANGED <<told, lost, missed>>
    /\ UNCHANGED <<now, hash, due, resolution, crashes>>

\* HGETALL, at the time seen.
Load(p) ==
    LET live == {a \in Holders(hash) : Unexpired(hash[a], now)}
    IN  /\ proc[p].pc = "load"
        /\ proc' = [proc EXCEPT
              ![p].pc = CASE Holders(hash) = {} -> "loaded"
                          [] live # Holders(hash) -> "prune"
                          [] OTHER -> "refresh",
              ![p].seen = now,
              ![p].todo = Holders(hash) \ live,
              ![p].view = [a \in Agents |-> IF a \in live THEN hash[a] ELSE NoClaim]]
        /\ UNCHANGED <<now, hash, due, resolution, told, started, crashes, lost, missed>>

\* HDEL of the claims that were found expired.
Prune(p) ==
    /\ proc[p].pc = "prune"
    /\ HDel(proc[p].todo)
    /\ proc' = [proc EXCEPT ![p].todo = {},
                  ![p].pc = IF Holders(proc[p].view) = {} THEN "drop" ELSE "refresh"]
    /\ UNCHANGED <<now, resolution, told, started, crashes, lost, missed>>

DropClaims(p) ==
    /\ proc[p].pc = "drop"
    /\ DelKey
    /\ Goto(p, "dropped")
    /\ UNCHANGED <<now, resolution, told, started, crashes, lost, missed>>

DropResolution(p) ==
    /\ proc[p].pc = "dropped"
    /\ resolution' = NoResolution
    /\ Goto(p, "loaded")
    /\ UNCHANGED <<now, hash, due, told, started, crashes, lost, missed>>

\* EXPIRE with what the claims had left when they were read.
Refresh(p) ==
    /\ proc[p].pc = "refresh"
    /\ \E n \in HashTTLs(proc[p].view, proc[p].seen) : Expire(n)
    /\ Goto(p, "loaded")
    /\ UNCHANGED <<now, resolution, told, started, crashes, lost, missed>>

-----------------------------------------------------------------------------
(* What an operation does with the claims it has loaded.                   *)

\* claim_resource_with_options: the agent's earlier claim is replaced.
Merged(p) ==
    Recomputed([proc[p].view EXCEPT ![proc[p].agent] =
        [mode |-> proc[p].mode, exp |-> proc[p].at + proc[p].ttl * Second,
         status |-> "none"]])

\* renew_claim takes its time after the load.
Renewed(p) ==
    Recomputed([proc[p].view EXCEPT ![proc[p].agent].exp =
                    now + proc[p].ttl * Second])

Without(p) == Recomputed([proc[p].view EXCEPT ![proc[p].agent] = NoClaim])

\* persist_claims starts: DEL, then one HSET for each claim of v.
Rewrite(p, v, t) ==
    /\ DelKey
    /\ proc' = [proc EXCEPT ![p].view = v, ![p].at = t, ![p].todo = Holders(v),
                    ![p].pc = IF Holders(v) = {} THEN "dropAll" ELSE "write"]

Mutate(p) ==
    LET a == proc[p].agent
        v == proc[p].view
    IN  /\ proc[p].pc = "loaded"
        /\ \/ proc[p].op = "claim" /\ Rewrite(p, Merged(p), proc[p].at)
           \/ proc[p].op = "renew" /\ a \in Holders(v) /\ Rewrite(p, Renewed(p), now)
           \/ proc[p].op = "release" /\ a \in Holders(v) /\ Rewrite(p, Without(p), now)
           \/ proc[p].op = "resolve" /\ Holders(v) # {} /\ Rewrite(p, Ruled(v, a), now)
        /\ UNCHANGED <<now, resolution, told, started, crashes, lost, missed>>

\* "no active claim found", "no claims found"
Refuse(p) ==
    /\ proc[p].pc = "loaded"
    /\ \/ proc[p].op \in {"renew", "release"} /\ proc[p].agent \notin Holders(proc[p].view)
       \/ proc[p].op = "resolve" /\ Holders(proc[p].view) = {}
    /\ Return(p)
    /\ UNCHANGED <<now, hash, due, resolution, told, started, crashes, lost, missed>>

\* The reads end here; list_claims goes on to the other keys of its SCAN, and
\* a resolution to a message for every claimant that it read back.
Answer(p) ==
    /\ proc[p].pc = "loaded"
    /\ \/ proc[p].op = "read" /\ Return(p)
       \/ proc[p].op = "list" /\ Goto(p, "scan")
       \/ /\ proc[p].op = "notify"
          /\ IF Holders(proc[p].view) = {} THEN Return(p)
             ELSE proc' = [proc EXCEPT ![p].pc = "notify",
                                       ![p].todo = Holders(proc[p].view)]
    /\ UNCHANGED <<now, hash, due, resolution, told, started, crashes, lost, missed>>

\* The message to a is behind it, and the operation with the last of them.
Posted(p, a) ==
    IF proc[p].todo = {a} THEN Return(p)
    ELSE proc' = [proc EXCEPT ![p].todo = @ \ {a}]

\* Mutation: the claimants that lost are not written to.
Tell_Winner(p, a) ==
    /\ proc[p].pc = "notify"
    /\ a \in proc[p].todo
    /\ told' = [told EXCEPT ![a] = IF a = proc[p].agent
                    THEN Ruled(proc[p].view, proc[p].agent)[a] ELSE @]
    /\ missed' = missed \ {a}
    /\ Posted(p, a)
    /\ UNCHANGED <<now, hash, due, resolution, started, crashes, lost>>

\* resolve_claim posts the outcome to one claimant.
Tell(p, a) ==
    /\ proc[p].pc = "notify"
    /\ a \in proc[p].todo
    /\ told' = [told EXCEPT ![a] = Ruled(proc[p].view, proc[p].agent)[a]]
    /\ missed' = missed \ {a}
    /\ Posted(p, a)
    /\ UNCHANGED <<now, hash, due, resolution, started, crashes, lost>>

\* The message to one claimant fails, which is logged; the next one follows.
TellFails(p, a) ==
    /\ proc[p].pc = "notify"
    /\ a \in proc[p].todo
    /\ crashes < MaxCrashes
    /\ crashes' = crashes + 1
    /\ missed' = missed \cup ({a} \ {proc[p].agent})
    /\ Posted(p, a)
    /\ UNCHANGED <<now, hash, due, resolution, told, started, lost>>

\* SCAN matches bus:claims:*, so it finds the resolution record too; no field
\* of it parses as a claim, and load_active_claims deletes the "empty" hash.
ScanResolution(p) ==
    /\ proc[p].pc = "scan"
    /\ resolution' = NoResolution
    /\ Return(p)
    /\ UNCHANGED <<now, hash, due, told, started, crashes, lost, missed>>

-----------------------------------------------------------------------------
(* The rest of persist_claims, and what comes after it.                    *)

WriteClaim(p, a) ==
    /\ proc[p].pc = "write"
    /\ a \in proc[p].todo
    /\ HSet(a, proc[p].view[a])
    /\ proc' = [proc EXCEPT ![p].todo = @ \ {a},
                    ![p].pc = IF proc[p].todo = {a} THEN "expire" ELSE @]
    /\ UNCHANGED <<now, resolution, told, started, crashes, lost, missed>>

\* EXPIRE, and the answer; release and resolve read the state back first.
ExpireClaims(p) ==
    LET a == proc[p].agent
    IN  /\ proc[p].pc = "expire"
        /\ \E n \in HashTTLs(proc[p].view, proc[p].at) : Expire(n)
        /\ \/ /\ proc[p].op \in {"claim", "renew"}
              /\ told' = [told EXCEPT ![a] = proc[p].view[a]]
              /\ Return(p)
           \/ /\ proc[p].op = "release"
              /\ proc' = [proc EXCEPT ![p].op = "read", ![p].pc = "load"]
              /\ UNCHANGED told
           \/ proc[p].op = "resolve" /\ Goto(p, "record") /\ UNCHANGED told
        /\ UNCHANGED <<now, resolution, started, crashes, lost, missed>>

\* The last claim was released: persist_claims deletes the resolution too.
ReleaseLast(p) ==
    /\ proc[p].pc = "dropAll"
    /\ resolution' = NoResolution
    /\ proc' = [proc EXCEPT ![p].op = "read", ![p].pc = "load"]
    /\ UNCHANGED <<now, hash, due, told, started, crashes, lost, missed>>

\* HSET keeps the TTL of a record that exists; EXPIRE renews it.
RecordResolution(p) ==
    /\ proc[p].pc = "record"
    /\ resolution' = [resolution EXCEPT !.winner = proc[p].agent]
    /\ Goto(p, "recorded")
    /\ UNCHANGED <<now, hash, due, told, started, crashes, lost, missed>>

ExpireResolution(p) ==
    /\ proc[p].pc = "recorded"
    /\ resolution' = IF resolution = NoResolution THEN NoResolution
                     ELSE [resolution EXCEPT !.due = now + ResolutionTTL]
    /\ proc' = [proc EXCEPT ![p].op = "notify", ![p].pc = "load"]
    /\ UNCHANGED <<now, hash, due, told, started, crashes, lost, missed>>

-----------------------------------------------------------------------------
Tick ==
    /\ now < MaxTime
    /\ now' = now + 1
    /\ IF Over(due, now + 1) THEN DelKey ELSE UNCHANGED <<hash, due>>
    /\ resolution' = IF Over(resolution.due, now + 1) THEN NoResolution ELSE resolution
    /\ UNCHANGED <<proc, told, started, crashes, lost, missed>>

\* A process dies, or a Redis command of it fails: the rest is not done.
Crash(p) ==
    /\ proc[p].pc # "idle"
    /\ crashes < MaxCrashes
    /\ crashes' = crashes + 1
    /\ lost' = IF proc[p].pc = "write" THEN lost \cup proc[p].todo ELSE lost
    /\ missed' = IF proc[p].pc = "notify"
                 THEN missed \cup (proc[p].todo \ {proc[p].agent}) ELSE missed
    /\ Return(p)
    /\ UNCHANGED <<now, hash, due, resolution, told, started>>

Start(p) ==
    \/ \E a \in Agents, m \in Modes, t \in TTLs : Begin(p, "claim", a, m, t)
    \/ \E a \in Agents, t \in TTLs : Begin(p, "renew", a, "none", t)
    \/ \E a \in Agents : Begin(p, "release", a, "none", 0)
    \/ \E a \in Agents : Begin(p, "resolve", a, "none", 0)
    \/ \E op \in {"read", "list"} : Begin(p, op, Nobody, "none", 0)

Step(p) ==
    \/ Load(p) \/ Prune(p) \/ DropClaims(p) \/ DropResolution(p) \/ Refresh(p)
    \/ Mutate(p) \/ Refuse(p) \/ Answer(p) \/ ScanResolution(p)
    \/ \E a \in Agents : WriteClaim(p, a) \/ Tell(p, a) \/ TellFails(p, a)
    \/ ExpireClaims(p) \/ ReleaseLast(p)
    \/ RecordResolution(p) \/ ExpireResolution(p)

Next == Tick \/ \E p \in Procs : Start(p) \/ Step(p) \/ Crash(p)

Spec == Init /\ [][Next]_vars

-----------------------------------------------------------------------------
(* Properties.                                                             *)

\* What ResourceLeaseMode lets two agents have at the same time: "Many agents
\* may use" a shared one, namespaced ones "only when each uses a unique
\* namespace", an exclusive one "Exactly one agent".
MayShare(l, r) ==
    /\ {l.mode, r.mode} \subseteq {"shared", "ns1", "ns2"}
    /\ l.mode = r.mode => l.mode = "shared"

(* No two claims in the hash that may not be shared are both granted while *)
(* they last, whatever sequence of claims, renewals, releases,             *)
(* resolutions, expiries and deaths of a process came before               *)
(* (recompute_claim_statuses and resolve_claim over a hash that is read    *)
(* and written whole).                                                     *)
NoConflictingGrants ==
    \A a, b \in Holders(hash) :
        /\ a # b /\ ~MayShare(hash[a], hash[b])
        /\ Unexpired(hash[a], now) /\ Unexpired(hash[b], now)
        => ~(hash[a].status = "granted" /\ hash[b].status = "granted")

\* a counts on its claim: it was told granted and has over a second of it left.
CountsOn(a) == told[a].status = "granted" /\ told[a].exp > now + Second

\* Agents a resolution has yet to write to.
Untold == UNION {proc[p].todo : p \in {q \in Procs : proc[q].pc = "notify"}}

\* Agents that have lost what they count on and cannot know it yet.
Unaware == lost \cup missed \cup Untold

(* Two agents never both count on claims they may not share: who is told   *)
(* granted has not been promised what another still counts on.  The only   *)
(* ones that may are those nobody reached: an agent whose claim was        *)
(* deleted by a process that died before writing it back (persist_claims), *)
(* and one that a resolution went against whose message failed, was never  *)
(* sent or is still to come (resolve_claim, best effort).  In its last     *)
(* second a lease is not protected (claims_hash_ttl_seconds).              *)
PromisesDoNotConflict ==
    \A a, b \in Agents :
        a # b /\ CountsOn(a) /\ CountsOn(b) /\ ~MayShare(told[a], told[b])
            => {a, b} \cap Unaware # {}

\* Some process has deleted the claims and not yet written them all.
Rewriting == \E p \in Procs : proc[p].pc = "write"

(* A claim stays in the hash until its last second: it is not dropped with *)
(* another agent's claim that is released, expires or is replaced, and no  *)
(* read drops it (persist_claims, load_active_claims, the hash's EXPIRE).  *)
(* A process that dies while it rewrites the claims takes with it the ones *)
(* it had still to write, and no other.                                    *)
LeaseKeptToLastSecond ==
    \A a \in Agents :
        CountsOn(a) /\ ~Rewriting /\ a \notin lost => a \in Holders(hash)

(* channels.rs says of ResourceLeaseMode::Exclusive: "Exactly one agent    *)
(* may hold the resource at a time."  Then no two agents have been told    *)
(* granted for exclusive claims that both still last.                      *)
ExclusiveHeldByOne ==
    \A a, b \in Agents :
        /\ told[a].status = "granted" /\ told[b].status = "granted"
        /\ told[a].mode = "exclusive" /\ told[b].mode = "exclusive"
        /\ Unexpired(told[a], now) /\ Unexpired(told[b], now)
        => a = b

(* channels.rs says of resolve_claim: "Stores resolution metadata for      *)
(* audit."  Then the record is not lost, before its own TTL is over, while *)
(* there still are claims on the resource that it was made for.            *)
ResolutionIsKept ==
    [][resolution.winner # Nobody /\ ~Over(resolution.due, now') /\ Holders(hash') # {}
        => resolution'.winner # Nobody]_vars
=============================================================================
