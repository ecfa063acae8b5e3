---------------------------- MODULE PresenceSync ----------------------------
(***************************************************************************)
(* The presence of one agent name on several hubs and in the cloud         *)
(* (redis_bus.rs, sync_store.rs, cloud_sync.rs, do-buslog.ts): processes   *)
(* of a hub announce it, each announcement replaces the Redis key of the   *)
(* hub and becomes a row of its presence table; the sync engine of the hub *)
(* pushes rows by their serial id and merges the rows of the cloud into    *)
(* the key with a compare-and-set.                                         *)
(*                                                                         *)
(* An announcement is [n, ts, ttl, hub]: its number, which stands for the  *)
(* session and status it carries, its timestamp, its time to live and the  *)
(* hub it was made on.  All clocks agree.                                  *)
(***************************************************************************)
EXTENDS Integers, FiniteSets, Sequences

CONSTANTS
    PHubs,         \* hubs
    PProcs,        \* processes of a hub that announce
    PTtls,         \* times to live
    PBatch,        \* batch_size of a push
    PMaxAttempts,  \* PRESENCE_CAS_MAX_ATTEMPTS
    PRejects(_),   \* an announcement the Worker rejects: its time to live is
                   \* out of range, its metadata too large
    PMaxClock,     \* bound: the clock
    PMaxSaid,      \* bound: announcements
    PBudgets       \* bound: how often each of PBounded happens at a hub

PBounded == {"announce", "push", "pull", "faults"}

ASSUME PresenceAssumption ==
    /\ PTtls \subseteq Nat \ {0}
    /\ {PBatch, PMaxAttempts} \subseteq Nat \ {0}
    /\ {PMaxClock, PMaxSaid} \subseteq Nat
    /\ PBudgets \subseteq [PHubs -> [PBounded -> Nat]]

VARIABLES
    pnow,    \* the clock
    psaid,   \* announcements made
    pproc,   \* what a process of a hub is doing
    pkey,    \* the Redis key of a hub: a value and when it expires
    plast,   \* the last announcement a process of the hub has set, until the
             \* key is empty and a pulled row fills it (history)
    ptable,  \* the presence table of a hub, in the order of the commits
    pserial, \* its serial
    pcursor, \* presence_origin_id
    peng,    \* what the engine of a hub is doing
    pcloud,  \* the current row of each hub in the cloud
    psynced, \* presence_sync: the ids accepted from each hub
    pleft    \* what is left of the budget

presenceVars == <<pnow, psaid, pproc, pkey, plast, ptable, pserial, pcursor,
                  peng, pcloud, psynced, pleft>>

Said == [n : 1 .. PMaxSaid, ts : 0 .. PMaxClock, ttl : PTtls, hub : PHubs]
Nobody == [n |-> 0]
Row == [id : Nat, said : Said]
PIdle == [pc |-> "idle", rows |-> {}, todo |-> {}, try |-> 0, now |-> 0,
          row |-> Nobody, seen |-> Nobody]

PresenceTypeOK ==
    /\ pnow \in 0 .. PMaxClock
    /\ psaid \in 0 .. PMaxSaid
    /\ pproc \in [PHubs \X PProcs ->
                    [pc : {"idle", "stamped", "set", "insert"},
                     said : Said \cup {Nobody}, id : Nat]]
    /\ pkey \in [PHubs -> [val : Said \cup {Nobody}, until : Nat]]
    /\ plast \in [PHubs -> Said \cup {Nobody}]
    /\ ptable \in [PHubs -> Seq(Row)]
    /\ pserial \in [PHubs -> Nat]
    /\ pcursor \in [PHubs -> Nat]
    /\ peng \in [PHubs -> [pc : {"idle", "push", "pushed", "get", "cas"},
                           rows : SUBSET Row, todo : SUBSET Said,
                           try : 0 .. PMaxAttempts, now : 0 .. PMaxClock,
                           row : Said \cup {Nobody},
                           seen : Said \cup {Nobody}]]
    /\ pcloud \in [PHubs -> Said \cup {Nobody}]
    /\ psynced \in [PHubs -> SUBSET Nat]
    /\ pleft \in [PHubs -> [PBounded -> Nat]]

PresenceInit ==
    /\ pnow = 0 /\ psaid = 0
    /\ pproc = [c \in PHubs \X PProcs |->
                    [pc |-> "idle", said |-> Nobody, id |-> 0]]
    /\ pkey = [h \in PHubs |-> [val |-> Nobody, until |-> 0]]
    /\ plast = [h \in PHubs |-> Nobody]
    /\ ptable = [h \in PHubs |-> <<>>]
    /\ pserial = [h \in PHubs |-> 0]
    /\ pcursor = [h \in PHubs |-> 0]
    /\ peng = [h \in PHubs |-> PIdle]
    /\ pcloud = [h \in PHubs |-> Nobody]
    /\ psynced = [h \in PHubs |-> {}]
    /\ pleft \in PBudgets

PSpend(h, what) ==
    /\ pleft[h][what] > 0
    /\ pleft' = [pleft EXCEPT ![h][what] = @ - 1]
Expiry(s) == s.ts + s.ttl
LiveSaid(s) == s # Nobody /\ Expiry(s) > pnow
\* What GET returns.
PGet(h) == IF pkey[h].until > pnow THEN pkey[h].val ELSE Nobody

-----------------------------------------------------------------------------
(* bus_set_presence, one step per command.                                 *)

announcing == UNCHANGED <<pnow, pcursor, peng, pcloud, psynced>>

PAnnounce(h, p, ttl) ==
    /\ pproc[h, p].pc = "idle"
    /\ psaid < PMaxSaid
    /\ PSpend(h, "announce")
    /\ psaid' = psaid + 1
    /\ pproc' = [pproc EXCEPT ![<<h, p>>] =
           [pc |-> "stamped", id |-> 0,
            said |-> [n |-> psaid + 1, ts |-> pnow, ttl |-> ttl, hub |-> h]]]
    /\ UNCHANGED <<pkey, plast, ptable, pserial>>
    /\ announcing

\* SET EX: two processes may set in the other order than they stamped.
PSet(h, p) ==
    LET s == pproc[h, p].said
    IN  /\ pproc[h, p].pc = "stamped"
        /\ pproc' = [pproc EXCEPT ![<<h, p>>].pc = "set"]
        /\ pkey' = [pkey EXCEPT ![h] = [val |-> s, until |-> pnow + s.ttl]]
        /\ plast' = [plast EXCEPT ![h] = s]
        /\ UNCHANGED <<psaid, ptable, pserial, pleft>>
        /\ announcing

\* PUBLISH, then the insert takes its id; either may fail.
PInsert(h, p) ==
    /\ pproc[h, p].pc = "set"
    /\ \/ /\ pserial' = [pserial EXCEPT ![h] = @ + 1]
          /\ pproc' = [pproc EXCEPT ![<<h, p>>].pc = "insert",
                                    ![<<h, p>>].id = pserial[h] + 1]
          /\ UNCHANGED pleft
       \/ /\ PSpend(h, "faults")
          /\ pproc' = [pproc EXCEPT ![<<h, p>>].pc = "idle",
                                    ![<<h, p>>].said = Nobody]
          /\ UNCHANGED pserial
    /\ UNCHANGED <<psaid, pkey, plast, ptable>>
    /\ announcing

PCommit(h, p) ==
    /\ pproc[h, p].pc = "insert"
    /\ ptable' = [ptable EXCEPT ![h] =
           Append(@, [id |-> pproc[h, p].id, said |-> pproc[h, p].said])]
    /\ pproc' = [pproc EXCEPT ![<<h, p>>] = [pc |-> "idle", said |-> Nobody,
                                         id |-> 0]]
    /\ UNCHANGED <<psaid, pkey, plast, pserial, pleft>>
    /\ announcing

-----------------------------------------------------------------------------
(* push_presence.                                                          *)

syncing == UNCHANGED <<pnow, psaid, pproc, ptable, pserial>>

Ids(rows) == {r.id : r \in rows}
RowsOf(q) == {q[i] : i \in 1 .. Len(q)}

\* list_presence_events_after: the first ones by id, at most a batch.
RowsAfter(h, c) ==
    LET later == {r \in RowsOf(ptable[h]) : r.id > c}
    IN  {r \in later : Cardinality({x \in later : x.id <= r.id}) <= PBatch}

PPushRead(h) ==
    /\ peng[h].pc = "idle"
    /\ PSpend(h, "push")
    /\ RowsAfter(h, pcursor[h]) # {}
    /\ peng' = [peng EXCEPT ![h] = [PIdle EXCEPT
           !.pc = "push", !.rows = RowsAfter(h, pcursor[h])]]
    /\ UNCHANGED <<pkey, plast, pcursor, pcloud, psynced>>
    /\ syncing

\* Mutation: the Worker keeps the row that came last.
Newest_Last(h, rows) ==
    (CHOOSE r \in rows : \A x \in rows : x.id <= r.id).said

\* The current row after the rows are applied by id: an event replaces it
\* unless it is older.  Of equally new rows the last one stays.
Newest(h, rows) ==
    LET best == CHOOSE r \in rows :
                    \A x \in rows : \/ x.said.ts < r.said.ts
                                    \/ x.said.ts = r.said.ts /\ x.id <= r.id
    IN  IF pcloud[h] # Nobody /\ pcloud[h].ts > best.said.ts THEN pcloud[h]
        ELSE best.said

\* Mutation: the Worker drops the whole batch with a row it rejects.
Valid_All(rows) == {r \in rows : \A x \in rows : ~PRejects(x.said)}

\* POST /sync/presence rejects single rows.
Valid(rows) == {r \in rows : ~PRejects(r.said)}

\* syncPushPresence; its answer may be lost, which ends the pass.
PPushSend(h) ==
    LET sent == Valid(peng[h].rows)
        fresh == {r \in sent : r.id \notin psynced[h]}
    IN  /\ peng[h].pc = "push"
        /\ psynced' = [psynced EXCEPT ![h] = @ \cup Ids(sent)]
        /\ pcloud' = [pcloud EXCEPT ![h] = IF fresh = {} THEN @
                                           ELSE Newest(h, fresh)]
        /\ \/ peng' = [peng EXCEPT ![h].pc = "pushed"] /\ UNCHANGED pleft
           \/ peng' = [peng EXCEPT ![h] = PIdle] /\ PSpend(h, "faults")
        /\ UNCHANGED <<pkey, plast, pcursor>>
        /\ syncing

\* Mutation: the cursor moves to the end of the table.
MaxId_Tail(h) == pserial[h]

MaxId(h) == CHOOSE i \in Ids(peng[h].rows) :
                \A j \in Ids(peng[h].rows) : j <= i

\* What was rejected is logged and the cursor is saved; a full batch is followed
\* by another.
PPushDone(h) ==
    /\ peng[h].pc = "pushed"
    /\ pcursor' = [pcursor EXCEPT ![h] = MaxId(h)]
    /\ peng' = [peng EXCEPT ![h] = PIdle]
    /\ UNCHANGED <<pkey, plast, pcloud, psynced, pleft>>
    /\ syncing

-----------------------------------------------------------------------------
(* pull_presence and apply_synced_presence.                                *)

\* listPresence: the rows of all hubs that have not expired.
PPull(h) ==
    LET rows == {pcloud[g] : g \in {x \in PHubs : LiveSaid(pcloud[x])}}
    IN  /\ peng[h].pc = "idle"
        /\ PSpend(h, "pull")
        /\ rows # {}
        /\ peng' = [peng EXCEPT ![h] = [PIdle EXCEPT !.pc = "get",
                                                     !.todo = rows]]
        /\ UNCHANGED <<pkey, plast, pcursor, pcloud, psynced>>
        /\ syncing

\* Mutation: the hub does not recognise its own announcements.
IsEcho_Never(h, s) == FALSE

IsEcho(h, s) == s.hub = h

\* synced_presence_ttl gives a time to live.
Accepts(h, s, local, now) ==
    /\ ~IsEcho(h, s)
    /\ Expiry(s) > now
    /\ local = Nobody \/ local.ts < s.ts

Rest(h, s) ==
    IF peng[h].todo = {s} THEN PIdle
    ELSE [PIdle EXCEPT !.pc = "get", !.todo = peng[h].todo \ {s}]

\* The next row, or another attempt at the one in hand: GET and compare.
\* The clock is read once for a row.
PApplyGet(h, s) ==
    LET e == peng[h]
        now == IF e.try = 0 THEN pnow ELSE e.now
    IN  /\ e.pc = "get" /\ s \in e.todo
        /\ e.try > 0 => s = e.row
        /\ peng' = [peng EXCEPT ![h] =
               IF Accepts(h, s, PGet(h), now)
               THEN [e EXCEPT !.pc = "cas", !.now = now, !.seen = PGet(h),
                              !.row = s]
               ELSE Rest(h, s)]
        /\ UNCHANGED <<pkey, plast, pcursor, pcloud, psynced, pleft>>
        /\ syncing

\* Mutation: the value is set without comparing.
Unchanged_Assumed(h) == TRUE

\* PRESENCE_CAS_SCRIPT
Unchanged(h) == PGet(h) = peng[h].seen

\* After the last attempt the pass ends with an error.
PApplyCas(h) ==
    LET e == peng[h]
        s == e.row
    IN  /\ e.pc = "cas"
        /\ \/ /\ Unchanged(h)
              /\ pkey' = [pkey EXCEPT ![h] =
                     [val |-> s, until |-> pnow + Expiry(s) - e.now]]
              /\ plast' = [plast EXCEPT ![h] =
                     IF PGet(h) = Nobody THEN Nobody ELSE @]
              /\ peng' = [peng EXCEPT ![h] = Rest(h, s)]
           \/ /\ ~Unchanged(h)
              /\ peng' = [peng EXCEPT ![h] =
                     IF e.try + 1 < PMaxAttempts
                     THEN [e EXCEPT !.pc = "get", !.try = @ + 1]
                     ELSE PIdle]
              /\ UNCHANGED <<pkey, plast>>
        /\ UNCHANGED <<pcursor, pcloud, psynced, pleft>>
        /\ syncing

PTick ==
    /\ pnow < PMaxClock
    /\ pnow' = pnow + 1
    /\ UNCHANGED <<psaid, pproc, pkey, plast, ptable, pserial, pcursor, peng,
                   pcloud, psynced, pleft>>

-----------------------------------------------------------------------------
PresenceNext ==
    \/ \E h \in PHubs, p \in PProcs :
         \/ \E ttl \in PTtls : PAnnounce(h, p, ttl)
         \/ PSet(h, p) \/ PInsert(h, p) \/ PCommit(h, p)
    \/ \E h \in PHubs :
         \/ PPushRead(h) \/ PPushSend(h) \/ PPushDone(h) \/ PPull(h)
         \/ \E s \in peng[h].todo : PApplyGet(h, s)
         \/ PApplyCas(h)
    \/ PTick

PresenceSpec == PresenceInit /\ [][PresenceNext]_presenceVars

-----------------------------------------------------------------------------
(* A pulled row never hides a live local announcement behind an older or   *)
(* equally old one, and an announcement of this hub in the key is the last *)
(* one its processes set: the cloud cannot bring an earlier one back after *)
(* a later one has expired, although local processes announce between the  *)
(* GET and the SET of a merge.  If a live one is gone from an empty key, a *)
(* newer one that was pulled took its place and has expired since; from    *)
(* then on it counts no more (apply_synced_presence_with_cas).             *)
PulledIsNewer ==
    \A h \in PHubs :
        LET held == pkey[h].val
        IN  /\ (PGet(h) # Nobody /\ held.hub = h) => held = plast[h]
            /\ LiveSaid(plast[h]) =>
                   \/ held = plast[h] /\ PGet(h) = held
                   \/ held.hub # h /\ held.ts > plast[h].ts

(* A row of the presence table that the cursor has passed was accepted by  *)
(* the cloud, whatever answers were lost and whatever else was in the      *)
(* batch, unless the Worker rejects that row, which is only logged, or a   *)
(* row with a higher id was committed before it; and the current row of    *)
(* the hub in the cloud is as new as each accepted one (push_presence,     *)
(* syncPushPresence).                                                      *)
PushedRejectedOrLate ==
    \A h \in PHubs : \A i \in 1 .. Len(ptable[h]) :
        LET r == ptable[h][i]
        IN  /\ r.id <= pcursor[h] =>
                   \/ r.id \in psynced[h]
                   \/ PRejects(r.said)
                   \/ \E j \in 1 .. i - 1 : ptable[h][j].id > r.id
            /\ r.id \in psynced[h] =>
                   pcloud[h] # Nobody /\ pcloud[h].ts >= r.said.ts
=============================================================================
