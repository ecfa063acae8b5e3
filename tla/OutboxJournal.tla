---------------------------- MODULE OutboxJournal ----------------------------
(***************************************************************************)
(* The journal file under the durable outbox (outbox.rs, outbox_private.rs *)
(* and the open, rotate and flush entry points of outbox_client.rs).       *)
(* OutboxClient takes "the journal's synced records" as given; here they   *)
(* are written record by record by processes that share one path, may stop *)
(* between a write and its sync, and may retire the file by renaming it    *)
(* while another process has it open and waits for its lock.               *)
(*                                                                         *)
(* A file is its sequence of records.  A torn record stands for any bytes  *)
(* that load rejects: no final newline, no JSON, a wrong digest.           *)
(***************************************************************************)
EXTENDS Integers, FiniteSets, Sequences

CONSTANTS
    JProcs,         \* processes of one user
    MaxFiles,      \* bound: inodes, numbered as they are created
    Scopes,        \* candidate fingerprints a process may be configured with
    RequestKinds,  \* kinds of requests of this instance
    PendingLimit,  \* REQUEST_LIMIT
    PassLimit,     \* the limit given to flush
    JournalLimit,  \* JOURNAL_LIMIT, in records
    JBudgets       \* bound: how often each of JBounded happens

Files == 1 .. MaxFiles
NoFile == 0     \* nothing at the path
Requests == 1 .. JournalLimit
JOps == {"submit", "flush", "rotate", "status"}
\* The calls, the ticks of the clock, and the faults: a process or the
\* machine stops, a write or a sync fails.
JBounded == JOps \cup {"ticks", "faults"}
JournalKinds == {"send", "presence", "claim"}
Dispositions == {"applied", "expired", "superseded", "rejected"}

ASSUME JournalAssumption ==
    /\ RequestKinds \subseteq JournalKinds
    /\ {PendingLimit, PassLimit, JournalLimit} \subseteq Nat
    /\ MaxFiles \in Nat
    /\ JBudgets \subseteq [JBounded -> Nat]

VARIABLES
    jfile,    \* the records of an inode
    jdirty,   \* how many of the last ones no sync has covered
    jactive,  \* the inode the path names
    jretired, \* the inodes renamed to an archive
    jproc,    \* what a process is doing
    jclock,   \* wall clock
    jkept,    \* history: requests whose enqueue returned
    jsent,    \* history: requests given to the transport
    jbare,    \* history: those whose attempt was not on disk then or since
    jdone,    \* history: requests with a settlement that was written
    jleft     \* what is left of the budget

journalVars == <<jfile, jdirty, jactive, jretired, jproc, jclock, jkept,
                 jsent, jbare, jdone, jleft>>

JRec(e, n, what, exp) == [ev |-> e, n |-> n, of |-> what, exp |-> exp]
JHeader(s) == JRec("header", 0, s, 0)
JTorn == JRec("torn", 0, "torn", 0)
Records ==
    [ev : {"header", "queued", "attempted", "settled", "torn"}, n : Nat,
     of : Scopes \cup JournalKinds \cup Dispositions \cup {"torn", "sent"},
     exp : Nat]

\* stage 1 opens, 2 retires the previous scope, 3 opens again.
JIdle == [pc |-> "idle", op |-> "none", scope |-> "none", stage |-> 0,
          locked |-> FALSE, fd |-> NoFile, rec |-> JTorn, todo |-> {},
          at |-> 0]
JState ==
    [pc : {"idle", "open", "lock", "start", "write", "sync", "next", "call"},
     op : JOps \cup {"none"},
     scope : Scopes \cup {"none"}, stage : 0 .. 3, locked : BOOLEAN,
     fd : Files \cup {NoFile}, rec : Records, todo : SUBSET Requests,
     at : Nat]

JournalTypeOK ==
    /\ jfile \in [Files -> Seq(Records)]
    /\ jdirty \in [Files -> Nat]
    /\ jactive \in Files \cup {NoFile}
    /\ jretired \subseteq Files
    /\ jproc \in [JProcs -> JState]
    /\ jclock \in Nat
    /\ jkept \subseteq Files \X Requests
    /\ jsent \subseteq Files \X Requests
    /\ jbare \subseteq jsent
    /\ jdone \subseteq Files \X Requests
    /\ jleft \in [JBounded -> Nat]

JournalInit ==
    /\ jfile = [f \in Files |-> <<>>]
    /\ jdirty = [f \in Files |-> 0]
    /\ jactive = NoFile
    /\ jretired = {}
    /\ jproc = [p \in JProcs |-> JIdle]
    /\ jclock = 0
    /\ jkept = {} /\ jsent = {} /\ jbare = {} /\ jdone = {}
    /\ jleft \in JBudgets

-----------------------------------------------------------------------------
(* Reading a journal.                                                      *)

At(r, k, e) == {r[i].n : i \in {j \in 1 .. k : r[j].ev = e}}
PendingAt(r, k) == At(r, k, "queued") \ At(r, k, "settled")
JPending(r) == PendingAt(r, Len(r))
JAttempted(r) == At(r, Len(r), "attempted") \ At(r, Len(r), "settled")
QueuedRec(r, n) ==
    r[CHOOSE i \in 1 .. Len(r) : r[i].ev = "queued" /\ r[i].n = n]

\* Mutation: bytes after the last newline are skipped.
LoadOk_SkipTail(r) ==
    \A k \in 1 .. Len(r) - 1 : r[k].ev # "torn"

\* load validates the complete sequence before it accepts any state.
LoadOk(r) ==
    \A k \in 1 .. Len(r) :
        /\ r[k].ev # "torn"
        /\ (r[k].ev = "header") <=> (k = 1)
        /\ r[k].ev = "queued" =>
               r[k].n = Cardinality(At(r, k - 1, "queued")) + 1
        /\ r[k].ev = "attempted" =>
               r[k].n \in PendingAt(r, k - 1) \ At(r, k - 1, "attempted")
        /\ r[k].ev = "settled" => r[k].n \in PendingAt(r, k - 1)

JSpend(what) ==
    jleft[what] > 0 /\ jleft' = [jleft EXCEPT ![what] = @ - 1]

JHolds(p, f) == jproc[p].locked /\ jproc[p].fd = f
Records_(p) == jfile[jproc[p].fd]

Step(p, changes) == jproc' = [jproc EXCEPT ![p] = changes]
Goto(p, pc) == Step(p, [jproc[p] EXCEPT !.pc = pc])
\* The call returns and drops the journal, which unlocks it.
Return(p) == Step(p, JIdle)
AppendThen(p, r) == Step(p, [jproc[p] EXCEPT !.pc = "write", !.rec = r])

diskSame == UNCHANGED <<jfile, jdirty, jactive, jretired>>
historySame == UNCHANGED <<jkept, jsent, jbare, jdone>>
restSame == historySame /\ UNCHANGED <<jclock, jleft>>

-----------------------------------------------------------------------------
(* Opening, locking and loading.                                           *)

\* submit, flush_pending, rotate and status; only submit creates a journal.
JCall(p, op, s) ==
    /\ jproc[p].pc = "idle"
    /\ JSpend(op)
    /\ op = "submit" \/ jactive # NoFile
    /\ Step(p, [JIdle EXCEPT
            !.pc = "open", !.op = op, !.scope = s,
            !.stage = IF op \in {"submit", "flush"} THEN 1 ELSE 2])
    /\ diskSame /\ historySame /\ UNCHANGED jclock

\* outbox_private::open: the existing file, or a new one made exclusively.
JOpen(p) ==
    /\ jproc[p].pc = "open"
    /\ \/ /\ jactive # NoFile
          /\ Step(p, [jproc[p] EXCEPT !.pc = "lock", !.fd = jactive])
          /\ diskSame
       \/ /\ jactive = NoFile
          /\ \E f \in Files :
                 /\ f = Cardinality(jretired) + 1
                 /\ jactive' = f
                 /\ Step(p, [jproc[p] EXCEPT !.pc = "lock", !.fd = f])
          /\ UNCHANGED <<jfile, jdirty, jretired>>
    /\ restSame

\* open_journal_until tries again until its deadline; inspect does not.
JBusy(p) ==
    /\ jproc[p].pc = "lock"
    /\ \E q \in JProcs : JHolds(q, jproc[p].fd)
    /\ \/ jproc[p].stage # 2 /\ Goto(p, "open")
       \/ Return(p)
    /\ diskSame /\ restSame

\* Mutation: the path is not compared with the file once it is locked.
SameFile_Unchecked(p) == TRUE

\* The path still names the file that was locked.
SameFile(p) == jproc[p].fd = jactive

\* The lock is free; load reads the file under it.  Only the holder of the
\* lock writes or renames a file, so taking it and reading are one step.
Acquires(p) ==
    /\ jproc[p].pc = "lock"
    /\ \A q \in JProcs : ~JHolds(q, jproc[p].fd)

Loads(p) == Acquires(p) /\ SameFile(p) /\ LoadOk(Records_(p))

JLoadFails(p) ==
    /\ Acquires(p)
    /\ ~SameFile(p) \/ ~LoadOk(Records_(p))
    /\ Return(p)
    /\ diskSame /\ restSame

Foreign(p) == Records_(p) # <<>> /\ Records_(p)[1].of # jproc[p].scope

JLoad(p) ==
    /\ Loads(p) /\ jproc[p].stage # 2
    /\ \/ /\ Records_(p) = <<>>
          /\ Step(p, [jproc[p] EXCEPT !.pc = "write", !.locked = TRUE,
                                      !.rec = JHeader(jproc[p].scope)])
       \/ /\ Records_(p) # <<>> /\ ~Foreign(p)
          /\ Step(p, [jproc[p] EXCEPT !.pc = "start", !.locked = TRUE])
       \/ /\ Foreign(p) /\ jproc[p].stage = 1
          /\ Step(p, [jproc[p] EXCEPT !.pc = "open", !.stage = 2,
                                      !.fd = NoFile])
       \/ /\ Foreign(p) /\ jproc[p].stage = 3
          /\ Return(p)
    /\ diskSame /\ restSame

-----------------------------------------------------------------------------
(* append: the record is written, then synced; a failure of either leaves  *)
(* unknown bytes and every caller returns.                                 *)

HasRoom(p) == Len(Records_(p)) < JournalLimit

\* A journal at its limit takes no record, not even a settlement.
JFull(p) ==
    /\ jproc[p].pc = "write"
    /\ ~HasRoom(p)
    /\ Return(p)
    /\ diskSame /\ restSame

JWrite(p) ==
    LET f == jproc[p].fd
        id == <<f, jproc[p].rec.n>>
    IN  /\ jproc[p].pc = "write"
        /\ SameFile(p) /\ HasRoom(p)
        /\ jfile' = [jfile EXCEPT ![f] = Append(@, jproc[p].rec)]
        /\ jdirty' = [jdirty EXCEPT ![f] = @ + 1]
        /\ Goto(p, "sync")
        /\ jdone' = CASE jproc[p].rec.ev = "settled" -> jdone \cup {id}
                       [] jproc[p].rec.ev = "queued" -> jdone \ {id}
                       [] OTHER -> jdone
        /\ UNCHANGED <<jactive, jretired, jclock, jkept, jsent, jbare, jleft>>

\* The write fails, or the process stops in it, with or without part of the
\* record in the file.
JTornWrite(p) ==
    LET f == jproc[p].fd
    IN  /\ jproc[p].pc = "write"
        /\ SameFile(p) /\ HasRoom(p)
        /\ JSpend("faults")
        /\ jfile' = [jfile EXCEPT ![f] = Append(@, JTorn)]
        /\ jdirty' = [jdirty EXCEPT ![f] = @ + 1]
        /\ Return(p)
        /\ historySame /\ UNCHANGED <<jactive, jretired, jclock>>

\* Mutation: the call goes on before the record is on disk.
Synced_Skipped(p) == jdirty' = jdirty

Synced(p) == jdirty' = [jdirty EXCEPT ![jproc[p].fd] = 0]

\* The requests of a pass: the first pending ones when it starts.
PassOf(r) ==
    {n \in JPending(r) :
        Cardinality({m \in JPending(r) : m < n}) < PassLimit}

StartPass(p) ==
    Step(p, [jproc[p] EXCEPT !.pc = "next", !.todo = PassOf(Records_(p)),
                             !.rec = JTorn])

JSync(p) ==
    LET q == jproc[p]
        id == <<q.fd, q.rec.n>>
    IN  /\ q.pc = "sync"
        /\ Synced(p)
        /\ jbare' = jbare \ {<<q.fd, n>> : n \in JAttempted(jfile[q.fd])}
        /\ UNCHANGED <<jfile, jactive, jretired, jclock, jsent, jdone, jleft>>
        /\ \/ /\ q.rec.ev = "header"
              /\ Goto(p, "start")
              /\ UNCHANGED jkept
           \/ /\ q.rec.ev = "queued"
              /\ jkept' = jkept \cup {id}
              /\ StartPass(p)
           \/ /\ q.rec.ev = "attempted"
              /\ Goto(p, "call")
              /\ UNCHANGED jkept
           \/ /\ q.rec.ev = "settled"
              /\ IF q.rec.of = "rejected"
                 THEN Return(p)
                 ELSE Step(p, [q EXCEPT !.pc = "next", !.rec = JTorn,
                                        !.todo = @ \ {q.rec.n}])
              /\ UNCHANGED jkept

\* sync_all fails: the record may be in the file, and the caller is told that
\* it is not retained.
JSyncFails(p) ==
    /\ jproc[p].pc = "sync"
    /\ JSpend("faults")
    /\ Return(p)
    /\ diskSame /\ historySame /\ UNCHANGED jclock

-----------------------------------------------------------------------------
(* enqueue and flush, under the lock.                                      *)

JNextSeq(p) == Cardinality(At(Records_(p), Len(Records_(p)), "queued")) + 1

\* A presence or a claim request expires; its lifetime is one tick.
JStart(p) ==
    /\ jproc[p].pc = "start"
    /\ \/ /\ jproc[p].op = "submit"
          /\ Cardinality(JPending(Records_(p))) < PendingLimit
          /\ \E k \in RequestKinds :
                 Step(p, [jproc[p] EXCEPT
                     !.pc = "write", !.at = jclock,
                     !.rec = JRec("queued", JNextSeq(p), k,
                                 IF k = "send" THEN 0 ELSE jclock + 1)])
       \/ /\ jproc[p].op = "submit"
          /\ Cardinality(JPending(Records_(p))) >= PendingLimit
          /\ Return(p)
       \/ /\ jproc[p].op = "flush"
          /\ Step(p, [jproc[p] EXCEPT !.pc = "next", !.at = jclock,
                                      !.todo = PassOf(Records_(p))])
    /\ diskSame /\ restSame

JHead(p, n) == n \in jproc[p].todo /\ \A m \in jproc[p].todo : n <= m

\* Mutation: an attempted request expires like any other.
ExpiresAt_Attempted(r, n, t) ==
    QueuedRec(r, n).exp # 0 /\ t >= QueuedRec(r, n).exp

\* Only a request that was never attempted may be settled by its age.
ExpiresAt(r, n, t) ==
    /\ n \notin JAttempted(r)
    /\ QueuedRec(r, n).exp # 0 /\ t >= QueuedRec(r, n).exp

\* A presence that was never attempted is superseded by a newer pending one.
IsSuperseded(r, n) ==
    /\ n \notin JAttempted(r)
    /\ QueuedRec(r, n).of = "presence"
    /\ \E m \in JPending(r) : m > n /\ QueuedRec(r, m).of = "presence"

JNextRequest(p) ==
    LET r == Records_(p)
        t == jproc[p].at
    IN  /\ jproc[p].pc = "next"
        /\ \/ jproc[p].todo = {} /\ Return(p)
           \/ \E n \in Requests :
                /\ JHead(p, n)
                /\ \/ /\ ExpiresAt(r, n, t)
                      /\ AppendThen(p, JRec("settled", n, "expired", 0))
                   \/ /\ ~ExpiresAt(r, n, t) /\ IsSuperseded(r, n)
                      /\ AppendThen(p, JRec("settled", n, "superseded", 0))
                   \/ /\ ~ExpiresAt(r, n, t) /\ ~IsSuperseded(r, n)
                      /\ n \notin JAttempted(r)
                      /\ AppendThen(p, JRec("attempted", n, "sent", 0))
                   \/ /\ ~ExpiresAt(r, n, t) /\ n \in JAttempted(r)
                      /\ Goto(p, "call")
        /\ diskSame /\ restSame

\* The records that a stop of the machine cannot take.
SyncedPart(f) == SubSeq(jfile[f], 1, Len(jfile[f]) - jdirty[f])
Synced_(f, e) == At(SyncedPart(f), Len(SyncedPart(f)), e)

\* The call and the hub's answer; a pending one or none ends the pass.
JSend(p) ==
    /\ jproc[p].pc = "call"
    /\ \E n \in Requests :
           LET id == <<jproc[p].fd, n>>
           IN
           /\ JHead(p, n)
           /\ jsent' = jsent \cup {id}
           /\ jbare' = IF n \in Synced_(jproc[p].fd, "attempted")
                       THEN jbare \ {id} ELSE jbare \cup {id}
           /\ \/ \E d \in {"applied", "superseded", "rejected"} :
                     AppendThen(p, JRec("settled", n, d, 0))
              \/ Return(p)
    /\ diskSame
    /\ UNCHANGED <<jclock, jkept, jdone, jleft>>

-----------------------------------------------------------------------------
(* Rotation: a journal of another scope that owes nothing is renamed.      *)

\* SettledOnly blocks on every pending request, ExpiredOnly (rotate) on those
\* that have not expired or were attempted.
Blocks(p, n) == jproc[p].op # "rotate" \/ ~ExpiresAt(Records_(p), n, jclock)

JReopen(p) ==
    Step(p, [jproc[p] EXCEPT !.pc = "open", !.stage = 3, !.locked = FALSE,
                             !.fd = NoFile])

\* inspect, and for every operation but status the rename, under one lock.
JInspect(p) ==
    LET r == Records_(p)
        stays == r = <<>> \/ ~Foreign(p)
    IN  /\ Loads(p) /\ jproc[p].stage = 2
        /\ \/ /\ jproc[p].op = "status"
              /\ Return(p) /\ diskSame
           \/ /\ jproc[p].op # "status" /\ stays
              /\ IF jproc[p].op = "rotate" THEN Return(p) ELSE JReopen(p)
              /\ diskSame
           \/ /\ jproc[p].op # "status" /\ ~stays
              /\ \E n \in JPending(r) : Blocks(p, n)
              /\ Return(p) /\ diskSame
           \/ /\ jproc[p].op # "status" /\ ~stays
              /\ \A n \in JPending(r) : ~Blocks(p, n)
              /\ jactive' = NoFile
              /\ jretired' = jretired \cup {jproc[p].fd}
              /\ IF jproc[p].op = "submit" THEN JReopen(p) ELSE Return(p)
              /\ UNCHANGED <<jfile, jdirty>>
        /\ restSame

-----------------------------------------------------------------------------
(* Time and faults.                                                        *)

JTick ==
    /\ JSpend("ticks")
    /\ jclock' = jclock + 1
    /\ diskSame /\ historySame /\ UNCHANGED jproc

\* A process stops: the kernel closes its file and so drops the lock.
JProcessStops(p) ==
    /\ jproc[p].pc # "idle"
    /\ JSpend("faults")
    /\ Return(p)
    /\ diskSame /\ historySame /\ UNCHANGED jclock

\* What the disk may hold of r when its last d records were not synced.
Survives(r, d) ==
    {SubSeq(r, 1, k) : k \in Len(r) - d .. Len(r)}
        \cup {Append(SubSeq(r, 1, k), JTorn) : k \in Len(r) - d .. Len(r) - 1}

JMachineStops ==
    /\ JSpend("faults")
    /\ \E f \in Files :
           /\ jdirty[f] > 0
           /\ \E r \in Survives(jfile[f], jdirty[f]) :
                  jfile' = [jfile EXCEPT ![f] = r]
           /\ jdirty' = [jdirty EXCEPT ![f] = 0]
    /\ jproc' = [p \in JProcs |-> JIdle]
    /\ historySame /\ UNCHANGED <<jactive, jretired, jclock>>

JournalNext ==
    \/ JTick
    \/ JMachineStops
    \/ \E p \in JProcs :
         \/ \E op \in JOps, s \in Scopes :
                JCall(p, op, s)
         \/ JOpen(p) \/ JBusy(p) \/ JLoadFails(p) \/ JLoad(p)
         \/ JFull(p) \/ JWrite(p) \/ JTornWrite(p) \/ JSync(p) \/ JSyncFails(p)
         \/ JStart(p) \/ JNextRequest(p) \/ JSend(p) \/ JInspect(p) \/ JProcessStops(p)

JournalSpec == JournalInit /\ [][JournalNext]_journalVars

-----------------------------------------------------------------------------
\* What precedes a torn last record is a journal that load accepts.
Readable(f) ==
    LET r == jfile[f]
    IN  LoadOk(IF r # <<>> /\ r[Len(r)].ev = "torn"
               THEN SubSeq(r, 1, Len(r) - 1) ELSE r)

(* A request whose enqueue returned, or that was given to the transport,   *)
(* is in the synced part of its file: "Writes append and sync a stable     *)
(* request ID before attempting transport" (docs/durable-outbox.md), also  *)
(* when another process than the one that wrote it sends it.  The          *)
(* exception is a request whose attempt a process wrote and did not get to *)
(* sync: the next process sends it without a sync (flush).  And the file   *)
(* can be read: only its last record can be torn, because no process       *)
(* appends behind unknown bytes (load, append).                            *)
RetentionIsDurable ==
    /\ \A id \in jkept \cup (jsent \ jbare) : id[2] \in Synced_(id[1], "queued")
    /\ \A f \in Files : Readable(f)

(* A request that was given to the transport is never expired by its age   *)
(* (flush), nor rotated away before the hub's answer is recorded           *)
(* (can_retire_expired), whichever process and whichever fault comes in    *)
(* between, if its attempt got to the disk: "Never-attempted expired       *)
(* requests cannot introduce effects" (docs/durable-outbox.md).            *)
SentNeverExpires ==
    \A id \in jsent \ jbare :
        LET r == jfile[id[1]]
        IN  /\ \A k \in 1 .. Len(r) :
                   r[k].n = id[2] /\ r[k].ev = "settled" => r[k].of # "expired"
            /\ id[1] \in jretired => id \in jdone

(* A file that rotation renamed owes nothing: each request retained in it  *)
(* was settled, or had expired.  This is so even for a process that opened *)
(* the file before the rename and got its lock after it                    *)
(* (retire_previous_scope, validate_identity).                             *)
RetiredOwesNothing ==
    \A id \in jkept :
        id[1] \in jretired /\ id \notin jdone
            => QueuedRec(jfile[id[1]], id[2]).exp \in 1 .. jclock
=============================================================================
