------------------------------ MODULE OutboxBase ------------------------------
(***************************************************************************)
(* What the two ends of the durable outbox share: the immutable requests,  *)
(* the clock, and the replay calls under way between a client and its hub. *)
(*                                                                         *)
(* A request is known by <<client, sequence>>: the journal's origin_id and *)
(* its sequence number (outbox.rs, ReplayRequest).  A client stands for    *)
(* one private journal; the processes that share it take turns under its   *)
(* file lock, so at most one of them is in a flush.                        *)
(***************************************************************************)
EXTENDS Integers, Sequences, FiniteSets

CONSTANTS
    Clients,      \* client journals (origins)
    Agents,       \* agent names that requests act for
    Slots,        \* bound: replay calls that can be under way at once
    MaxSeq,       \* bound: sequence numbers of a journal
    MaxRequests,  \* bound: requests submitted to all journals together
    MaxTime,      \* bound: the last instant of the hub's clock
    MaxFaults,    \* bound: crashes, losses, refusals and late answers
    Ops,          \* the operations of this instance, a subset of Operations
    TTLs,         \* lifetimes a presence or a claim request may ask for
    DirectTTLs,   \* lifetimes of presences and claims made without the outbox
    Skew,         \* client clock minus hub clock, per client
    Second,       \* instants in one second: leases are granted in seconds
    FutureLimit,  \* the tolerance for a request created in the future
    Retention,    \* what memo and marker keep beyond the expiry (24 h)
    RequestLimit, \* REQUEST_LIMIT: retained requests per journal
    FlushLimit,   \* requests one flush handles (16)
    Routes,       \* number of URLs of the one authoritative hub
    Postgres,     \* whether the hub has a database_url
    Aborts,       \* whether the replay script may fail half way
    Direct,       \* writer of a presence or a claim made without the outbox
    None          \* no writer: the Redis key or hash field does not exist

VARIABLES
    now,     \* the hub's clock (Redis TIME)
    req,     \* the requests queued so far
    call,    \* the replay calls under way
    faults   \* faults so far

Operations == {"send", "ack", "presence", "claim"}
Ids == Clients \X (1 .. MaxSeq)
AnyId == CHOOSE i \in Ids : TRUE
AnyAgent == CHOOSE a \in Agents : TRUE

ASSUME BaseAssumption ==
    /\ Clients # {} /\ Agents # {} /\ Slots # {} /\ Slots \subseteq Nat
    /\ MaxSeq \in Nat \ {0} /\ MaxTime \in Nat /\ MaxFaults \in Nat
    /\ MaxRequests \in Nat
    /\ Ops \subseteq Operations
    /\ Skew \in [Clients -> Int]
    /\ Second \in Nat \ {0} /\ FutureLimit \in Nat
    /\ RequestLimit \in Nat \ {0} /\ FlushLimit \in Nat \ {0}
    /\ Routes \in Nat \ {0}
    /\ Postgres \in BOOLEAN /\ Aborts \in BOOLEAN
    /\ Direct \notin Ids /\ None \notin Ids /\ Direct # None

\* lifetime_ms admits 1..86400 seconds, and the hub keeps memo and presence
\* marker 86400000 ms beyond the expiry: the retention covers every lifetime.
ASSUME LifetimeAssumption ==
    /\ TTLs \subseteq Nat \ {0} /\ DirectTTLs \subseteq Nat \ {0}
    /\ Retention \in Nat
    /\ \A t \in TTLs : t <= Retention

-----------------------------------------------------------------------------
(* Requests.  expires = 0 is the code's "does not expire by age".          *)

Request == [op : Operations, agent : Agents, created : Int, expires : Int,
            target : Ids]
NoRequest == [op |-> "send", agent |-> AnyAgent, created |-> 0, expires |-> 0,
              target |-> AnyId]

IsClaim(i) == req[i].op = "claim"
IsPresence(i) == req[i].op = "presence"

\* expires_ms # 0 /\ t >= expires_ms
Expired(i, t) == req[i].op \in {"presence", "claim"} /\ t >= req[i].expires

-----------------------------------------------------------------------------
(* Replay calls: one HTTP POST /replay each.  A call outlives the client's *)
(* interest in it: after a timeout the hub may still be working on it.     *)
(*   "sent"     on its way to the hub                                      *)
(*   "persist"  the script answered applied, PostgreSQL is to be written   *)
(*   "admit"    the script reserved a claim request                        *)
(*   "dispatch" the remaining lease time is computed                       *)
(*   "finish"   the ordinary claim code has answered                       *)
(*   "reply"    the answer is on its way back                              *)
CallPcs == {"free", "sent", "persist", "admit", "dispatch", "finish", "reply"}
AtHub == {"persist", "admit", "dispatch", "finish"}

\* "contested": an applied claim result that carries a reroute suggestion.
Answers == {"none", "applied", "contested", "superseded", "pending",
            "permanent", "transport"}

Call == [pc : CallPcs, id : Ids, answer : Answers, lease : Int]
FreeCall == [pc |-> "free", id |-> AnyId, answer |-> "none", lease |-> 0]

\* The call in slot s goes on its way back with answer w.
Answered(s, w) ==
    call' = [call EXCEPT ![s].pc = "reply", ![s].answer = w, ![s].lease = 0]

\* The call in slot s is at step p of the hub's handler.
Proceeds(s, p) == call' = [call EXCEPT ![s].pc = p]

\* One of the faults the bound allows.
Fault == faults < MaxFaults /\ faults' = faults + 1

BaseTypeOK ==
    /\ now \in Nat
    /\ req \in [Ids -> Request]
    /\ call \in [Slots -> Call]
    /\ faults \in Nat

BaseInit ==
    /\ now = 0
    /\ req = [i \in Ids |-> NoRequest]
    /\ call = [s \in Slots |-> FreeCall]
    /\ faults = 0
=============================================================================
