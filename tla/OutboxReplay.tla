----------------------------- MODULE OutboxReplay -----------------------------
(***************************************************************************)
(* The durable outbox end to end: client journals that submit, retry and   *)
(* crash, a network that loses and delays, and the hub that must apply     *)
(* each request at most once and answer truthfully about it.               *)
(***************************************************************************)
EXTENDS OutboxClient, OutboxHub

vars == <<now, req, call, faults, clientVars, hubVars>>

TypeOK == BaseTypeOK /\ ClientTypeOK /\ HubTypeOK

Init == BaseInit /\ ClientInit /\ HubInit

-----------------------------------------------------------------------------
\* Time passes, and takes the keys whose TTL is over with it.
Tick ==
    /\ now < MaxTime
    /\ now' = now + 1
    /\ live' = LiveAt(now + 1)
    /\ marker' = MarkersAt(now + 1)
    /\ lease' = LeasesAt(now + 1)
    /\ UNCHANGED <<req, call, faults, clientVars, memo, log, pgRows, ackDue>>

\* An answer nobody waits for is dropped; one that is awaited can be lost.
LoseReply(s) ==
    /\ call[s].pc = "reply"
    /\ IF Awaited(s) THEN Fault ELSE UNCHANGED faults
    /\ call' = [call EXCEPT ![s] = FreeCall]
    /\ UNCHANGED <<now, req, clientVars, hubVars>>

\* An ack is for a send that its sender has seen in the stream.
Delivered(m) == req[m].op = "send" /\ \E k \in 1 .. Len(log) : log[k] = m

Submit(c) ==
    /\ \/ SubmitSend(c)
       \/ \E m \in Ids : Delivered(m) /\ SubmitAck(c, m)
       \/ \E a \in Agents, t \in TTLs : SubmitPresence(c, a, t)
       \/ \E a \in Agents, t \in TTLs : SubmitClaim(c, a, t)
    /\ UNCHANGED hubVars

Flush(c) ==
    /\ \/ FlushPending(c)
       \/ \E n \in 1 .. MaxSeq : \/ ExpireLocally(c, n)
                                 \/ SupersedeLocally(c, n)
                                 \/ MarkAttempted(c, n)
                                 \/ Receive(c, n)
                                 \/ \E s \in Slots : CallRoute(c, n, s)
       \/ Timeout(c)
       \/ FinishFlush(c)
    /\ UNCHANGED hubVars

Crash(c) == ClientCrash(c) /\ UNCHANGED hubVars

Handler(s) ==
    /\ \/ ReplayKnown(s)    \/ ReplayLate(s)   \/ ReplayFuture(s)
       \/ ReplayMessage(s)  \/ ReplayPresence(s) \/ ReplayOutdated(s)
       \/ ReplayClaim(s)    \/ Persist(s)      \/ AdmitClaim(s)
       \/ DispatchClaim(s)  \/ FinishClaim(s)
    /\ UNCHANGED clientVars

HubFault ==
    /\ \/ \E s \in Slots : \/ Unavailable(s) \/ Refuse(s)
                           \/ ReplayAborts(s) \/ ClaimFails(s) \/ LoseCall(s)
       \/ HubCrash
    /\ UNCHANGED clientVars

Others ==
    /\ \/ \E a \in Agents, t \in DirectTTLs : DirectPresence(a, t) \/ DirectClaim(a, t)
       \/ \E a \in Agents : ReleaseClaim(a)
       \/ HashExpires
    /\ UNCHANGED clientVars

Next ==
    \/ Tick
    \/ \E c \in Clients : Submit(c) \/ Flush(c) \/ Crash(c)
    \/ \E s \in Slots : Handler(s) \/ LoseReply(s)
    \/ HubFault
    \/ Others

Spec == Init /\ [][Next]_vars

-----------------------------------------------------------------------------
(* Safety.                                                                 *)

HasEffect(i) == \E k \in 1 .. Len(log) : log[k] = i

(* Whatever is lost, repeated, late or restarted, no request takes effect  *)
(* twice: no second stream entry, presence write or lease for one request  *)
(* identity (the memo's reservation in outbox_replay.lua).                 *)
AtMostOnce == \A j, k \in 1 .. Len(log) : log[j] = log[k] => j = k

(* A request the journal settled as applied did take effect, and with a    *)
(* database configured its history row exists: PG failure answers Pending  *)
(* and the retry repairs it (accept, outbox_pg::persist).                  *)
AppliedIsDurable ==
    \A i \in Ids : status[i] = "applied" =>
        /\ HasEffect(i)
        /\ Postgres /\ ~IsClaim(i) => i \in pgRows

(* A request that was never attempted, and so one that expired locally,    *)
(* has left no trace on the hub: the Attempted record is synced before the *)
(* first byte is sent (Journal::flush).                                    *)
UnattemptedHasNoEffect ==
    \A i \in Ids : status[i] \in {"absent", "queued", "expired"} =>
        ~HasEffect(i) /\ memo[i] = NoMemo

(* The messages and presences of one client take effect in the order they  *)
(* were queued; only one the client gave up as rejected can still come     *)
(* late, from a call it no longer waits for (ordered flush).               *)
InSequence ==
    \A j, k \in 1 .. Len(log) :
        /\ j < k
        /\ log[j][1] = log[k][1] /\ log[j][2] > log[k][2]
        /\ ~IsClaim(log[k])
        => status[log[k]] = "rejected"

\* Between the effects j and k another client's presence of the same agent,
\* created in the same instant as j, took effect.
SameInstantBetween(j, k) ==
    \E m \in (j + 1) .. (k - 1) :
        /\ IsPresence(log[m]) /\ req[log[m]].agent = req[log[j]].agent
        /\ req[log[m]].created = req[log[j]].created
        /\ log[m][1] # log[j][1]

\* Effect k is not older than effect j.  Two of one client go by their sequence
\* numbers as long as the marker remembers one of this client.
InTime(j, k) ==
    /\ req[log[j]].created <= req[log[k]].created
    /\ log[j][1] = log[k][1] =>
           log[j][2] < log[k][2] \/ SameInstantBetween(j, k)

(* Replayed presence of an agent never goes back in time, not by a late    *)
(* call, not by another client, and not after the marker key has expired   *)
(* (outbox_replay.lua, the presence branch).  A script that failed half    *)
(* way (memo still pending) is not counted.                                *)
PresenceNeverRegresses ==
    \A j, k \in 1 .. Len(log) :
        LET p == log[j]
            q == log[k]
        IN  /\ j < k /\ IsPresence(p) /\ IsPresence(q)
            /\ req[p].agent = req[q].agent
            /\ memo[p].state = "applied" /\ memo[q].state = "applied"
            => InTime(j, k)

(* Once an ack of a message has taken effect its pending-ack and deadline  *)
(* keys stay deleted: no repeated replay of the message sets them again.   *)
AckStaysAcked ==
    \A i \in Ids : req[i].op = "ack" /\ memo[i].state = "applied"
                    => req[i].target \notin ackDue

(* A claim is answered applied only while the agent holds that very lease, *)
(* unexpired and uncontested: a cached grant is not revived after release, *)
(* replacement, contention or expiry.                                      *)
GrantIsCurrent ==
    [][\A s \in Slots :
          LET i == call[s].id
          IN  /\ call[s].pc \in {"sent", "finish"} /\ IsClaim(i)
              /\ call'[s].pc = "reply" /\ call'[s].answer = "applied"
              => /\ lease[req[i].agent].by = i
                 /\ lease[req[i].agent].status = "granted"
                 /\ now < lease[req[i].agent].exp
                 /\ now < req[i].expires]_vars

(* outbox.rs says of ReplayResponse::Superseded: "Already expired or       *)
(* superseded requests have no new side effect."  Then no claim request    *)
(* that was settled as superseded holds a granted, unexpired lease.        *)
SupersededHoldsNoGrant ==
    \A i \in Ids :
        LET a == req[i].agent
        IN  IsClaim(i) /\ status[i] = "superseded" =>
                ~ (/\ lease[a].by = i
                   /\ lease[a].status = "granted"
                   /\ now < lease[a].exp)

-----------------------------------------------------------------------------
(* The inductive invariant behind TypeOK and AtMostOnce.                   *)

\* A flush that has started on a request has some of its limit left.
LimitLeft ==
    \A c \in Clients : sess[c].pc \in {"call", "await"} => sess[c].left > 0

\* What the ordinary claim code can have answered.
FinishAnswers ==
    \A s \in Slots : call[s].pc = "finish" =>
        call[s].answer \in {"applied", "contested", "superseded"}

\* No effect without a memo.
EffectHasMemo == \A i \in Ids : HasEffect(i) => memo[i].state # "none"

\* The handler in slot s was admitted to ask for the lease of a claim request:
\* until it has finished the request stays reserved, and until it has
\* dispatched there is no lease.
Working(s) == call[s].pc \in {"admit", "dispatch", "finish"}
WorkIsReserved ==
    \A s \in Slots :
        /\ Working(s) => memo[call[s].id].state = "pending"
        /\ call[s].pc \in {"admit", "dispatch"} => ~HasEffect(call[s].id)

\* One handler at most is admitted for a request.
OneAdmission ==
    \A s, t \in Slots : Working(s) /\ Working(t) /\ call[s].id = call[t].id
                         => s = t

TypeInv == TypeOK /\ LimitLeft /\ FinishAnswers
OnceInv == EffectHasMemo /\ WorkIsReserved /\ OneAdmission /\ AtMostOnce

-----------------------------------------------------------------------------
(* The contract that this specification implements, for what is delivered: *)
(* the messages and the presences.                                         *)

Delivery(i) == ~IsClaim(i)

Outcome(i) ==
    IF ~Delivery(i) THEN "absent" ELSE IF IsPending(i) THEN "pending" ELSE status[i]

Promise == INSTANCE ReplayContract WITH
    Request <- Ids,
    outcome <- [i \in Ids |-> Outcome(i)],
    done <- {i \in Ids : Delivery(i) /\ HasEffect(i)}

(* Every behaviour of journals, network and hub is one the contract        *)
(* allows: accept, take effect at most once, settle once and truthfully    *)
(* (outbox.rs, Disposition: "Retained terminal evidence").                 *)
KeepsPromise == Promise!Contract

-----------------------------------------------------------------------------
(* Liveness.  The hub works on the calls it has, a client that waits gives *)
(* up in the end, a journal with retained requests is flushed again, and   *)
(* the clock runs; the faults are bounded by MaxFaults.                    *)

Fairness ==
    /\ WF_vars(Tick)
    /\ \A c \in Clients : WF_vars(Flush(c))
    /\ \A s \in Slots : WF_vars(Handler(s))
    /\ \A s \in Slots : WF_vars(LoseReply(s) /\ ~Awaited(s))

FairSpec == Spec /\ Fairness

(* Every retained request is settled in the end: no request blocks the     *)
(* journal for good, not one whose reply was lost, not a claim whose       *)
(* handler died after the reservation (it is superseded at its expiry).    *)
EverySubmissionSettles ==
    \A i \in Ids : IsPending(i) ~> status[i] \in Settled
=============================================================================
