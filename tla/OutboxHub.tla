------------------------------- MODULE OutboxHub -------------------------------
(***************************************************************************)
(* The hub end of the durable outbox: http_replay_handler, accept, the     *)
(* replay script and finish_claim (http.rs, outbox_hub.rs,                 *)
(* outbox_replay.lua, outbox_pg.rs).                                       *)
(*                                                                         *)
(* A Lua script runs in one step; between the scripts of one handler, and  *)
(* around the PostgreSQL write, the steps of other handlers interleave.    *)
(* Redis and PostgreSQL survive a crash of the hub process.  log is the    *)
(* history of effects in the order Redis performed them: a stream entry of *)
(* a send or an ack, a live presence, a lease.  One exclusive resource is  *)
(* enough for what the replay asks of the claims; the ordinary claim code  *)
(* is one step here.                                                       *)
(***************************************************************************)
EXTENDS OutboxBase

VARIABLES
    memo,    \* the replay memo of a request, agent_bus:outbox:<scope>:<id>
    log,     \* the effects, in order
    pgRows,  \* requests with a PostgreSQL history row
    live,    \* the live presence of an agent
    marker,  \* the newest replayed presence of an agent
    ackDue,  \* sends whose pending_ack and ack_deadline keys exist
    lease    \* the hash of claims of the resource, by agent

\* until is claim_expires_ms, lease the expiry in the cached claim result.
Memo == [state : {"none", "pending", "applied"},
         answer : {"none", "applied", "superseded"}, until : Int, lease : Int]
NoMemo == [state |-> "none", answer |-> "none", until |-> 0, lease |-> 0]

Presence == [by : Ids \cup {Direct, None}, ts : Int, exp : Int]
Marker == [by : Ids \cup {None}, created : Int, exp : Int]
NoPresence == [by |-> None, ts |-> 0, exp |-> 0]
NoMarker == [by |-> None, created |-> 0, exp |-> 0]
Lease == [by : Ids \cup {Direct, None}, exp : Int,
          status : {"granted", "contested"}]
NoLease == [by |-> None, exp |-> 0, status |-> "granted"]

hubVars == <<memo, log, pgRows, live, marker, ackDue, lease>>

HubTypeOK ==
    /\ memo \in [Ids -> Memo]
    /\ log \in Seq(Ids)
    /\ pgRows \in SUBSET Ids
    /\ live \in [Agents -> Presence]
    /\ marker \in [Agents -> Marker]
    /\ ackDue \in SUBSET Ids
    /\ lease \in [Agents -> Lease]

HubInit ==
    /\ memo = [i \in Ids |-> NoMemo]
    /\ log = << >>
    /\ pgRows = {}
    /\ live = [a \in Agents |-> NoPresence]
    /\ marker = [a \in Agents |-> NoMarker]
    /\ ackDue = {}
    /\ lease = [a \in Agents |-> NoLease]

-----------------------------------------------------------------------------
(* Redis drops a key when its TTL is over: the keys that are left at time  *)
(* t.  The hash of claims goes with its longest lease.                     *)

LiveAt(t) == [a \in Agents |-> IF live[a].exp <= t THEN NoPresence ELSE live[a]]
MarkersAt(t) == [a \in Agents |-> IF marker[a].exp <= t THEN NoMarker ELSE marker[a]]
LeasesAt(t) ==
    IF \A a \in Agents : lease[a].exp <= t THEN [a \in Agents |-> NoLease]
                                          ELSE lease

-----------------------------------------------------------------------------
(* What the script reads.                                                  *)

\* Mutation: a reservation that was never completed does not count.
HasMemo_IfApplied(i) == memo[i].state = "applied"

\* The memo of a claim request is set to expire Retention after the request.
HasMemo(i) ==
    /\ memo[i].state # "none"
    /\ IsClaim(i) => now < req[i].expires + Retention

IsLive(a) == live[a].by # None
HasMarker(a) == marker[a].by # None

InFuture(i) == req[i].created > now + FutureLimit

\* Mutation: only the times are compared, not the sequence numbers.
Newer_TimesOnly(i, a) ==
    \/ HasMarker(a) /\ marker[a].created > req[i].created
    \/ IsLive(a) /\ live[a].ts > req[i].created

\* marker or live presence say that a newer state of the agent is known.
Newer(i, a) ==
    \/ /\ HasMarker(a)
       /\ \/ marker[a].by[1] = i[1] /\ marker[a].by[2] >= i[2]
          \/ marker[a].created > req[i].created
    \/ /\ IsLive(a)
       /\ live[a].ts > req[i].created

\* same(current, cached.result): the hash still holds the very lease of the
\* cached result, unchanged in expiry and status.
HoldsLease(i, e) ==
    lease[req[i].agent] = [by |-> i, exp |-> e, status |-> "granted"]

\* HGET: agent a has a field in the hash of claims.
HasField(a) == lease[a].by # None

\* Mutation: the cached answer is given without another look at the lease.
KnownAnswer_Cached(i) ==
    IF IsClaim(i) /\ req[i].expires <= now THEN "superseded"
    ELSE IF memo[i].state = "pending"      THEN "pending"
    ELSE memo[i].answer

\* Mutation: a reserved claim stays pending after its expiry.
KnownAnswer_NoExpiry(i) ==
    IF memo[i].state = "pending" THEN "pending" ELSE memo[i].answer

\* The answer to a request whose memo exists.
KnownAnswer(i) ==
    IF IsClaim(i) /\ req[i].expires <= now THEN "superseded"
    ELSE IF memo[i].state = "pending"      THEN "pending"
    ELSE IF ~IsClaim(i)                    THEN memo[i].answer
    ELSE IF \/ memo[i].until <= now
            \/ ~HasField(req[i].agent)     THEN "superseded"
    ELSE IF memo[i].answer = "superseded"  THEN "pending"
    ELSE IF HoldsLease(i, memo[i].lease)   THEN "applied"
    ELSE "superseded"

\* Mutation: a cached answer is not followed by the PostgreSQL repair.
AnswerOrPersist_NoRepair(s, i, w) == Answered(s, w)

\* An applied message or presence still has its PostgreSQL row to be written.
AnswerOrPersist(s, i, w) ==
    IF w = "applied" /\ ~IsClaim(i) THEN Proceeds(s, "persist")
                                    ELSE Answered(s, w)

-----------------------------------------------------------------------------
(* http_replay_handler before accept: writes paused or the backend         *)
(* unavailable (503), or the request refused (400, 401, 403, 409).         *)

Unavailable(s) ==
    /\ call[s].pc = "sent"
    /\ Fault
    /\ Answered(s, "transport")
    /\ UNCHANGED <<now, req, hubVars>>

Refuse(s) ==
    /\ call[s].pc = "sent"
    /\ Fault
    /\ Answered(s, "permanent")
    /\ UNCHANGED <<now, req, hubVars>>

-----------------------------------------------------------------------------
(* The replay script.                                                      *)

ReplayKnown(s) ==
    LET i == call[s].id
    IN  /\ call[s].pc = "sent"
        /\ HasMemo(i)
        /\ AnswerOrPersist(s, i, KnownAnswer(i))
        /\ UNCHANGED <<now, req, faults, hubVars>>

\* A request first seen after its expiry leaves no memo.
ReplayLate(s) ==
    LET i == call[s].id
    IN  /\ call[s].pc = "sent"
        /\ ~HasMemo(i)
        /\ Expired(i, now)
        /\ Answered(s, "superseded")
        /\ UNCHANGED <<now, req, faults, hubVars>>

\* OUTBOX_FUTURE_REQUEST
ReplayFuture(s) ==
    LET i == call[s].id
    IN  /\ call[s].pc = "sent"
        /\ ~HasMemo(i)
        /\ ~Expired(i, now)
        /\ InFuture(i)
        /\ Answered(s, "permanent")
        /\ UNCHANGED <<now, req, faults, hubVars>>

\* Fresh(s): the script goes past its checks and reserves the memo.
Fresh(s) ==
    LET i == call[s].id
    IN  /\ call[s].pc = "sent"
        /\ ~HasMemo(i)
        /\ ~Expired(i, now)
        /\ ~InFuture(i)

\* Mutation: the memo is only written once the effect is complete.
Reserved_Late(i) == memo
Reserved(i) == [memo EXCEPT ![i] = [NoMemo EXCEPT !.state = "pending"]]
Completed(i, w) ==
    [memo EXCEPT ![i] = [state |-> "applied", answer |-> w, until |-> 0, lease |-> 0]]

\* A send sets its pending_ack and ack_deadline keys, an ack deletes those of
\* its target.
AckDueAfter(i) == IF req[i].op = "send" THEN ackDue \cup {i}
                                        ELSE ackDue \ {req[i].target}

ReplayMessage(s) ==
    LET i == call[s].id
    IN  /\ Fresh(s)
        /\ req[i].op \in {"send", "ack"}
        /\ log' = Append(log, i)
        /\ ackDue' = AckDueAfter(i)
        /\ memo' = Completed(i, "applied")
        /\ Proceeds(s, "persist")
        /\ UNCHANGED <<now, req, faults, pgRows, live, marker, lease>>

\* The live key lives to the request's expiry, the marker Retention longer.
LivePresence(i) == [by |-> i, ts |-> req[i].created, exp |-> req[i].expires]
\* Mutation: the marker goes with the live presence.
MarkerOf_Short(i) == [by |-> i, created |-> req[i].created, exp |-> req[i].expires]
MarkerOf(i) == [by |-> i, created |-> req[i].created,
                exp |-> req[i].expires + Retention]

ReplayPresence(s) ==
    LET i == call[s].id
        a == req[i].agent
    IN  /\ Fresh(s)
        /\ IsPresence(i)
        /\ ~Newer(i, a)
        /\ log' = Append(log, i)
        /\ live' = [live EXCEPT ![a] = LivePresence(i)]
        /\ marker' = [marker EXCEPT ![a] = MarkerOf(i)]
        /\ memo' = Completed(i, "applied")
        /\ Proceeds(s, "persist")
        /\ UNCHANGED <<now, req, faults, pgRows, ackDue, lease>>

ReplayOutdated(s) ==
    LET i == call[s].id
    IN  /\ Fresh(s)
        /\ IsPresence(i)
        /\ Newer(i, req[i].agent)
        /\ memo' = Completed(i, "superseded")
        /\ Answered(s, "superseded")
        /\ UNCHANGED <<now, req, faults, log, pgRows, live, marker, ackDue, lease>>

\* claim_admission: the reservation is durable before the lease authority acts.
ReplayClaim(s) ==
    LET i == call[s].id
    IN  /\ Fresh(s)
        /\ IsClaim(i)
        /\ memo' = Reserved(i)
        /\ Proceeds(s, "admit")
        /\ UNCHANGED <<now, req, faults, log, pgRows, live, marker, ackDue, lease>>

\* The script fails after the reservation: the writes it made so far stay, in
\* the order it makes them, and the memo stays pending.
ReplayAborts(s) ==
    LET i == call[s].id
        a == req[i].agent
    IN  /\ Aborts
        /\ Fresh(s)
        /\ ~IsClaim(i)
        /\ Fault
        /\ memo' = Reserved(i)
        /\ \/ UNCHANGED <<log, live, marker, ackDue>>
           \/ /\ ~IsPresence(i)
              /\ log' = Append(log, i)
              /\ ackDue' \in {ackDue, AckDueAfter(i)}
              /\ UNCHANGED <<live, marker>>
           \/ /\ IsPresence(i)
              /\ ~Newer(i, a)
              /\ log' = Append(log, i)
              /\ live' = [live EXCEPT ![a] = LivePresence(i)]
              /\ marker' \in {marker, [marker EXCEPT ![a] = MarkerOf(i)]}
              /\ UNCHANGED ackDue
        /\ Answered(s, "transport")
        /\ UNCHANGED <<now, req, pgRows, lease>>

-----------------------------------------------------------------------------
(* After the script.                                                       *)

\* outbox_pg::persist: idempotent, bounded to 2 s.  When it fails or times
\* out the row may or may not be there, and the answer is Pending.
Persist(s) ==
    /\ call[s].pc = "persist"
    /\ \/ /\ pgRows' = IF Postgres THEN pgRows \cup {call[s].id} ELSE pgRows
          /\ Answered(s, "applied")
          /\ UNCHANGED faults
       \/ /\ Postgres
          /\ Fault
          /\ pgRows' \in {pgRows, pgRows \cup {call[s].id}}
          /\ Answered(s, "pending")
    /\ UNCHANGED <<now, req, memo, log, live, marker, ackDue, lease>>

\* The lease time that is left, in whole seconds of the hub's clock, and never
\* more than the lifetime that was asked for.
Remaining(i) ==
    LET left == (req[i].expires - now) \div Second
        ttl  == (req[i].expires - req[i].created) \div Second
    IN  (IF left < ttl THEN left ELSE ttl) * Second

\* accept reads TIME.  With less than a second left nothing is granted.
AdmitClaim(s) ==
    LET i == call[s].id
    IN  /\ call[s].pc = "admit"
        /\ IF now < req[i].expires /\ Remaining(i) > 0
           THEN call' = [call EXCEPT ![s].pc = "dispatch", ![s].lease = Remaining(i)]
           ELSE call' = [call EXCEPT ![s].pc = "finish", ![s].answer = "superseded",
                                     ![s].lease = req[i].expires]
        /\ UNCHANGED <<now, req, faults, hubVars>>

\* Claims of other agents that have not expired.
Rivals(a) == {b \in Agents \ {a} : lease[b].by # None /\ now < lease[b].exp}

\* The hash after claim_resource by w for agent a until e: expired claims are
\* dropped, a's own is replaced, and the statuses are recomputed.
ClaimedBy(w, a, e) ==
    LET St(others) == IF others = {} THEN "granted" ELSE "contested"
    IN  [b \in Agents |->
            IF b = a THEN [by |-> w, exp |-> e, status |-> St(Rivals(a))]
            ELSE IF b \in Rivals(a) THEN [lease[b] EXCEPT !.status = "contested"]
            ELSE NoLease]

DispatchClaim(s) ==
    LET i == call[s].id
        a == req[i].agent
        e == now + call[s].lease
    IN  /\ call[s].pc = "dispatch"
        /\ lease' = ClaimedBy(i, a, e)
        /\ log' = Append(log, i)
        /\ \/ /\ call' = [call EXCEPT ![s].pc = "finish", ![s].lease = e,
                              ![s].answer = IF Rivals(a) = {} THEN "applied"
                                                              ELSE "contested"]
              /\ UNCHANGED faults
           \/ Fault /\ Answered(s, "pending")
        /\ UNCHANGED <<now, req, memo, pgRows, live, marker, ackDue>>

\* The ordinary claim code fails before it has written anything, or Redis does
\* not answer TIME or the script of finish_claim.
ClaimFails(s) ==
    /\ Fault
    /\ \/ call[s].pc = "dispatch" /\ Answered(s, "pending")
       \/ call[s].pc \in {"admit", "finish"} /\ Answered(s, "transport")
    /\ UNCHANGED <<now, req, hubVars>>

\* What the script of finish_claim answers to the result w, a lease until e.
FinishAnswer(i, w, e) ==
    LET until == IF e < req[i].expires THEN e ELSE req[i].expires
    IN  IF ~HasMemo(i) \/ memo[i].state # "pending" THEN "pending"
        ELSE IF \/ until <= now
                \/ w = "contested"
                \/ w = "applied" /\ ~HoldsLease(i, e)
        THEN "superseded"
        ELSE "saved"

FinishClaim(s) ==
    LET i == call[s].id
        w == call[s].answer
        e == call[s].lease
        f == FinishAnswer(i, w, e)
    IN  /\ call[s].pc = "finish"
        /\ IF f = "saved"
           THEN /\ memo' = [memo EXCEPT ![i] =
                              [state |-> "applied", answer |-> w, lease |-> e,
                               until |-> IF e < req[i].expires THEN e
                                                               ELSE req[i].expires]]
                /\ Answered(s, w)
           ELSE /\ Answered(s, f)
                /\ UNCHANGED memo
        /\ UNCHANGED <<now, req, faults, log, pgRows, live, marker, ackDue, lease>>

-----------------------------------------------------------------------------
(* The network and the hub's process.                                      *)

\* The request never reaches the hub.
LoseCall(s) ==
    /\ call[s].pc = "sent"
    /\ Fault
    /\ call' = [call EXCEPT ![s] = FreeCall]
    /\ UNCHANGED <<now, req, hubVars>>

\* The hub's process dies: every handler at work is gone, Redis is not.
HubCrash ==
    /\ \E s \in Slots : call[s].pc \in AtHub
    /\ Fault
    /\ call' = [s \in Slots |-> IF call[s].pc \in AtHub THEN FreeCall ELSE call[s]]
    /\ UNCHANGED <<now, req, hubVars>>

-----------------------------------------------------------------------------
(* Writers that do not use the outbox.                                     *)

\* bus_set_presence: the timestamp is the server's.  Bound: an agent does not
\* refresh an ordinary presence that is still live.
DirectPresence(a, t) ==
    /\ "presence" \in Ops
    /\ live[a].by # Direct
    /\ live' = [live EXCEPT ![a] = [by |-> Direct, ts |-> now, exp |-> now + t]]
    /\ UNCHANGED <<now, req, call, faults, memo, log, pgRows, marker, ackDue, lease>>

DirectClaim(a, t) ==
    /\ "claim" \in Ops
    /\ lease' = ClaimedBy(Direct, a, now + t)
    /\ UNCHANGED <<now, req, call, faults, memo, log, pgRows, live, marker, ackDue>>

\* EXPIRE of the hash is the longest lease in whole seconds, rounded down: Redis
\* drops all claims up to a second before the last one ends.
HashExpires ==
    /\ \E a \in Agents : HasField(a)
    /\ \A a \in Agents : lease[a].by # None => lease[a].exp - now <= Second
    /\ lease' = [a \in Agents |-> NoLease]
    /\ UNCHANGED <<now, req, call, faults, memo, log, pgRows, live, marker, ackDue>>

\* release_claim: without a, the rest is recomputed.
ReleaseClaim(a) ==
    LET rest == Rivals(a)
    IN  /\ lease[a].by # None /\ now < lease[a].exp
        /\ lease' = [b \in Agents |->
                        IF b \notin rest THEN NoLease
                        ELSE [lease[b] EXCEPT !.status =
                                IF rest = {b} THEN "granted" ELSE "contested"]]
        /\ UNCHANGED <<now, req, call, faults, memo, log, pgRows, live, marker, ackDue>>
=============================================================================
