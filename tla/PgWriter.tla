------------------------------ MODULE PgWriter ------------------------------
(***************************************************************************)
(* The write-behind path to PostgreSQL of one hub process: posting adds a  *)
(* message to the Redis stream and hands it to the PgWriter task, which    *)
(* collects batches, writes them behind a circuit breaker and counts what  *)
(* it could not write; the backfill monitor of the HTTP service and the    *)
(* `sync` and `reconcile` commands of other processes insert what is       *)
(* missing from the stream; a flush or a shutdown request travels through  *)
(* the same queue as the writes (postgres_store.rs, bootstrap.rs, http.rs, *)
(* reconcile.rs).                                                          *)
(*                                                                         *)
(* Messages are numbered in stream order.  A row of the message table is   *)
(* its message: every insert says ON CONFLICT DO NOTHING.                  *)
(***************************************************************************)
EXTENDS Integers, FiniteSets, Sequences

CONSTANTS
    WPosters,      \* threads of the hub that post
    WBatchSize,    \* PG_BATCH_SIZE
    WPage,         \* PG_BACKFILL_REPLAY_LIMIT
    WRetained,     \* stream_maxlen
    WMaxInsert,    \* max_insert of reconcile
    WFlushers,     \* callers of flush_and_wait_async
    WMaxPosts,     \* bound: messages
    WStarts        \* what PostgreSQL refuses and, a bound, how often each of
                   \* Bounded happens

Bounded == {"posts", "presence", "flushes", "stops", "outages", "syncs"}

ASSUME WriterAssumption ==
    /\ {WBatchSize, WPage, WRetained} \subseteq Nat \ {0}
    /\ {WMaxInsert, WMaxPosts} \subseteq Nat
    /\ WFlushers \subseteq Nat
    /\ WStarts \subseteq [left : [Bounded -> Nat],
                           refused : SUBSET (1 .. WMaxPosts)]

VARIABLES
    wlen,      \* entries ever added to the stream
    wpost,     \* messages a poster has added and not yet handed over
    wchan,     \* the channel to the task
    wbatch,    \* the batch of the task
    wtask,     \* where the task is, and what follows its flush
    wpending,  \* PgWriter.pending
    wdropped,  \* PgWriteMetrics.dropped_writes
    wcounted,  \* the messages that were ever counted in it
    wpg,       \* the rows of the message table
    wbreaker,  \* "open" while PostgreSQL is marked down
    wup,       \* PostgreSQL answers
    wrefused,  \* the messages it refuses: a NUL in a tag or the metadata
    wfill,     \* the backfill monitor
    wplan,     \* the plan of a reconcile command
    wflush,    \* the callers of flush_and_wait_async
    wstop,     \* whether shutdown was requested, and what was sent by then
    wleft      \* what is left of the budget

writerVars == <<wlen, wpost, wchan, wbatch, wtask, wpending, wdropped,
                wcounted, wpg, wbreaker, wup, wrefused, wfill, wplan, wflush,
                wstop, wleft>>

Posted == 1 .. WMaxPosts
May(what) == wleft[what] > 0
Spend(what, n) == wleft' = [wleft EXCEPT ![what] = @ - n]
WReq(k, i) == [kind |-> k, id |-> i]
WRequests == [kind : {"message", "presence", "flush", "shutdown"}, id : Nat]
IsData(r) == r.kind \in {"message", "presence"}

WTaskAt(pc, then, i) == [pc |-> pc, then |-> then, id |-> i]
WFillIdle == [pc |-> "idle", after |-> 0, todo |-> {}, last |-> 0,
              full |-> FALSE, inserted |-> 0]

WriterTypeOK ==
    /\ wlen \in 0 .. WMaxPosts
    /\ wpost \in [WPosters -> Seq(Posted)]
    /\ wchan \in Seq(WRequests) /\ wbatch \in Seq(WRequests)
    /\ wtask \in [pc : {"select", "flush", "drain", "gone"},
                  then : {"select", "answer", "drain", "drainAnswer", "gone"},
                  id : WFlushers \cup {0}]
    /\ {wpending, wdropped} \subseteq Nat
    /\ wcounted \subseteq Posted /\ wpg \subseteq Posted
    /\ wbreaker \in {"open", "closed"} /\ wup \in BOOLEAN
    /\ wrefused \subseteq Posted
    /\ wfill \in [pc : {"idle", "read", "insert", "check"}, after : Nat,
                  todo : SUBSET Posted, last : Nat, full : BOOLEAN,
                  inserted : Nat]
    /\ wplan \subseteq Posted
    /\ wflush \in [WFlushers -> [st : {"none", "waiting", "drained", "unread",
                                      "refused", "timeout"},
                                before : SUBSET Posted]]
    /\ wstop \in [asked : BOOLEAN, before : SUBSET Posted]
    /\ wleft \in [Bounded -> Nat]

WriterInit ==
    /\ wlen = 0
    /\ wpost = [p \in WPosters |-> <<>>]
    /\ wchan = <<>> /\ wbatch = <<>>
    /\ wtask = WTaskAt("select", "select", 0)
    /\ wpending = 0 /\ wdropped = 0
    /\ wcounted = {} /\ wpg = {}
    /\ wbreaker = "closed" /\ wup = TRUE
    /\ wfill = WFillIdle
    /\ wplan = {}
    /\ wflush = [i \in WFlushers |-> [st |-> "none", before |-> {}]]
    /\ wstop = [asked |-> FALSE, before |-> {}]
    /\ \E s \in WStarts : wleft = s.left /\ wrefused = s.refused

Gone == wtask.pc = "gone"
InStream == {m \in 1 .. wlen : m > wlen - WRetained}
Handed == 1 .. wlen \ UNION {{wpost[p][i] : i \in 1 .. Len(wpost[p])} :
                                p \in WPosters}
IdsOf(q) == {q[i].id : i \in {j \in 1 .. Len(q) : q[j].kind = "message"}}
\* Written, or counted as not written.
WSettled == wpg \cup wcounted

storesSame == UNCHANGED <<wpending, wdropped, wcounted, wpg, wbreaker>>
worldSame == UNCHANGED <<wup, wrefused, wfill, wplan, wleft>>
callersSame == UNCHANGED <<wflush, wstop>>

-----------------------------------------------------------------------------
(* Posting.                                                                *)

\* One XADD, or a pipeline of two.
WAdd(p, k) ==
    /\ wpost[p] = <<>>
    /\ k <= wleft["posts"] /\ wlen + k <= WMaxPosts
    /\ Spend("posts", k)
    /\ wlen' = wlen + k
    /\ wpost' = [wpost EXCEPT ![p] = [i \in 1 .. k |-> wlen + i]]
    /\ UNCHANGED <<wchan, wbatch, wtask, wup, wrefused, wfill, wplan>>
    /\ storesSame /\ callersSame

\* Mutation: a closed channel is ignored.
CountDrop_Silent(m) == UNCHANGED <<wdropped, wcounted>>

\* A message write that can no longer happen.
CountDrop(m) ==
    /\ wdropped' = wdropped + 1
    /\ wcounted' = wcounted \cup {m}

\* send_message, in the order of the XADDs.
WSend(p) ==
    /\ wpost[p] # <<>>
    /\ wpost' = [wpost EXCEPT ![p] = Tail(@)]
    /\ \/ /\ ~Gone
          /\ wchan' = Append(wchan, WReq("message", Head(wpost[p])))
          /\ wpending' = wpending + 1
          /\ UNCHANGED <<wdropped, wcounted>>
       \/ /\ Gone
          /\ CountDrop(Head(wpost[p]))
          /\ UNCHANGED <<wchan, wpending>>
    /\ UNCHANGED <<wlen, wbatch, wtask, wpg, wbreaker>>
    /\ worldSame /\ callersSame

\* send_presence; to a task that is gone it does nothing.
WSendPresence ==
    /\ May("presence") /\ Spend("presence", 1)
    /\ ~Gone
    /\ wchan' = Append(wchan, WReq("presence", 0))
    /\ wpending' = wpending + 1
    /\ UNCHANGED <<wlen, wpost, wbatch, wtask, wdropped, wcounted, wpg,
                   wbreaker, wup, wrefused, wfill, wplan>>
    /\ callersSame

-----------------------------------------------------------------------------
(* The task.                                                               *)

Answered(i) ==
    wflush' = [wflush EXCEPT
        ![i].st = IF @ = "waiting" THEN "drained" ELSE @]

\* Mutation: the flush timer does nothing.
TickFlushes_Never == FALSE

\* The timer flushes a batch that is not full.
TickFlushes == wbatch # <<>>

WTick ==
    /\ wtask.pc = "select"
    /\ TickFlushes
    /\ wtask' = WTaskAt("flush", "select", 0)
    /\ UNCHANGED <<wlen, wpost, wchan, wbatch>>
    /\ storesSame /\ worldSame /\ callersSame

\* A full batch is flushed at once.
Collects(r, at) ==
    /\ wbatch' = Append(wbatch, r)
    /\ wtask' = IF at = "select" /\ Len(wbatch) + 1 >= WBatchSize
                THEN WTaskAt("flush", "select", 0)
                ELSE WTaskAt(at, at, 0)

\* Mutation: the caller is answered before the batch is written.
AfterFlush_Early(i, at) == wtask' = WTaskAt(at, at, 0) /\ Answered(i)

\* A flush request: the batch is written, then the caller is answered.
AfterFlush(i, at) ==
    /\ wtask' = WTaskAt("flush", IF at = "select" THEN "answer"
                                 ELSE "drainAnswer", i)
    /\ UNCHANGED wflush

\* rx.recv in the select, try_recv in the drain after a shutdown request.
WRecv ==
    LET r == Head(wchan)
        at == wtask.pc
    IN  /\ at \in {"select", "drain"}
        /\ wchan # <<>>
        /\ wchan' = Tail(wchan)
        /\ \/ /\ IsData(r)
              /\ Collects(r, at)
              /\ UNCHANGED wflush
           \/ /\ r.kind = "flush"
              /\ AfterFlush(r.id, at)
              /\ UNCHANGED wbatch
           \/ /\ r.kind = "shutdown"
              /\ wtask' = WTaskAt("drain", "drain", 0)
              /\ UNCHANGED <<wbatch, wflush>>
        /\ UNCHANGED <<wlen, wpost, wstop>>
        /\ storesSame /\ worldSame

\* The queue is empty after a shutdown request: a last flush, then the end.
WDrained ==
    /\ wtask.pc = "drain" /\ wchan = <<>>
    /\ wtask' = WTaskAt("flush", "gone", 0)
    /\ UNCHANGED <<wlen, wpost, wchan, wbatch>>
    /\ storesSame /\ worldSame /\ callersSame

\* A presence row may be one that PostgreSQL refuses, too.
Refusals(r) == IF r.kind = "message" THEN {r.id \in wrefused} ELSE BOOLEAN

\* persist_message_postgres and persist_presence_postgres under with_pg_retry,
\* which takes a refused row for an outage.  The last attempt of an outage may
\* have been committed although it reports an error.
WPersist ==
    /\ wtask.pc = "flush" /\ wbatch # <<>>
    /\ \E refused \in Refusals(Head(wbatch)) :
       LET r == Head(wbatch)
           rows == IF r.kind = "message" THEN {r.id} ELSE {}
           failed == wbreaker = "open" \/ ~wup \/ refused
       IN  /\ \/ /\ ~failed
                 /\ wpg' = wpg \cup rows
                 /\ UNCHANGED wbreaker
              \/ /\ wbreaker = "open"
                 /\ UNCHANGED <<wpg, wbreaker>>
              \/ /\ wbreaker = "closed" /\ (~wup \/ refused)
                 /\ wbreaker' = "open"
                 /\ wpg' \in {wpg, IF refused THEN wpg ELSE wpg \cup rows}
           /\ IF failed /\ r.kind = "message"
              THEN CountDrop(r.id)
              ELSE UNCHANGED <<wdropped, wcounted>>
    /\ wbatch' = Tail(wbatch)
    /\ wpending' = wpending - 1
    /\ UNCHANGED <<wlen, wpost, wchan, wtask>>
    /\ worldSame /\ callersSame

\* The end of the task drops the channel: a caller whose flush request was
\* not read gets no answer, which its timeout takes for one.
WFlushed ==
    LET i == wtask.id
    IN  /\ wtask.pc = "flush" /\ wbatch = <<>>
        /\ \/ /\ wtask.then \in {"select", "drain"}
              /\ wtask' = WTaskAt(wtask.then, wtask.then, 0)
              /\ UNCHANGED wflush
           \/ /\ wtask.then = "answer"
              /\ wtask' = WTaskAt("select", "select", 0)
              /\ Answered(i)
           \/ /\ wtask.then = "drainAnswer"
              /\ wtask' = WTaskAt("drain", "drain", 0)
              /\ Answered(i)
           \/ /\ wtask.then = "gone"
              /\ wtask' = WTaskAt("gone", "gone", 0)
              /\ wflush' = [j \in WFlushers |->
                     IF wflush[j].st = "waiting"
                     THEN [wflush[j] EXCEPT !.st = "unread"] ELSE wflush[j]]
        /\ UNCHANGED <<wlen, wpost, wchan, wbatch, wstop>>
        /\ storesSame /\ worldSame

-----------------------------------------------------------------------------
(* Flush and shutdown requests.                                            *)

WFlushCall(i) ==
    /\ wflush[i].st = "none"
    /\ May("flushes") /\ Spend("flushes", 1)
    /\ \/ /\ ~Gone
          /\ wchan' = Append(wchan, WReq("flush", i))
          /\ wflush' = [wflush EXCEPT ![i] = [st |-> "waiting",
                                              before |-> Handed]]
       \/ /\ Gone
          /\ wflush' = [wflush EXCEPT ![i].st = "refused"]
          /\ UNCHANGED wchan
    /\ UNCHANGED <<wlen, wpost, wbatch, wtask, wstop, wup, wrefused, wfill,
                   wplan>>
    /\ storesSame

WFlushTimeout(i) ==
    /\ wflush[i].st = "waiting"
    /\ wflush' = [wflush EXCEPT ![i].st = "timeout"]
    /\ UNCHANGED <<wlen, wpost, wchan, wbatch, wtask, wstop>>
    /\ storesSame /\ worldSame

\* BootstrapGuard::drain takes its handle, so it asks once.
WShutdown ==
    /\ ~wstop.asked
    /\ May("stops") /\ Spend("stops", 1)
    /\ wstop' = [asked |-> TRUE, before |-> Handed]
    /\ wchan' = Append(wchan, WReq("shutdown", 0))
    /\ UNCHANGED <<wlen, wpost, wbatch, wtask, wflush, wup, wrefused, wfill,
                   wplan>>
    /\ storesSame

-----------------------------------------------------------------------------
(* PostgreSQL and the breaker.                                             *)

WPgDown ==
    /\ wup
    /\ May("outages") /\ Spend("outages", 1)
    /\ wup' = FALSE
    /\ UNCHANGED <<wlen, wpost, wchan, wbatch, wtask, wrefused, wfill, wplan>>
    /\ storesSame /\ callersSame

WPgUp ==
    /\ ~wup
    /\ wup' = TRUE
    /\ UNCHANGED <<wlen, wpost, wchan, wbatch, wtask, wrefused, wfill, wplan,
                   wleft>>
    /\ storesSame /\ callersSame

\* The health monitor's probe succeeds, or sixty seconds have passed.
WBreakerCloses(probed) ==
    /\ wbreaker = "open"
    /\ probed => wup
    /\ wbreaker' = "closed"
    /\ UNCHANGED <<wlen, wpost, wchan, wbatch, wtask, wpending, wdropped,
                   wcounted, wpg>>
    /\ worldSame /\ callersSame

-----------------------------------------------------------------------------
(* The backfill monitor.                                                   *)

fillOnly == UNCHANGED <<wlen, wpost, wchan, wbatch, wtask, wpending,
                        wcounted, wbreaker, wup, wrefused, wplan, wflush,
                        wstop, wleft>>

WFillStart ==
    /\ wfill.pc = "idle"
    /\ wdropped > 0 /\ wbreaker = "closed"
    /\ wfill' = [WFillIdle EXCEPT !.pc = "read"]
    /\ UNCHANGED <<wdropped, wpg>>
    /\ fillOnly

\* What sync_redis_to_postgres reaches of the messages it is given.
Reached(messages) == {m \in messages : \A n \in messages \cap wrefused : m < n}

PageAfter(a) ==
    LET later == {m \in InStream : m > a}
    IN  {m \in later : Cardinality({n \in later : n < m}) < WPage}

WFillRead ==
    LET page == PageAfter(wfill.after)
    IN  /\ wfill.pc = "read"
        /\ wfill' = IF page = {} THEN WFillIdle
                    ELSE [wfill EXCEPT
                             !.pc = "insert", !.todo = page, !.inserted = 0,
                             !.last = CHOOSE m \in page : \A n \in page : n <= m,
                             !.full = Cardinality(page) = WPage]
        /\ UNCHANGED <<wdropped, wpg>>
        /\ fillOnly

\* sync_redis_to_postgres, one row at a time and past the breaker; an error,
\* also of a row that is refused, leaves the rows that were inserted and ends
\* the pass.
WFillInsert ==
    /\ wfill.pc = "insert" /\ wfill.todo # {}
    /\ \E m \in wfill.todo :
           /\ \A n \in wfill.todo : m <= n
           /\ \/ /\ wup /\ m \notin wrefused
                 /\ wpg' = wpg \cup {m}
                 /\ wfill' = [wfill EXCEPT
                        !.todo = @ \ {m},
                        !.inserted = IF m \in wpg THEN @ ELSE @ + 1]
              \/ /\ ~wup \/ m \in wrefused
                 /\ wfill' = WFillIdle
                 /\ UNCHANGED wpg
    /\ UNCHANGED wdropped
    /\ fillOnly

WFillCount ==
    /\ wfill.pc = "insert" /\ wfill.todo = {}
    /\ wdropped' = IF wdropped > wfill.inserted
                   THEN wdropped - wfill.inserted ELSE 0
    /\ wfill' = [wfill EXCEPT !.pc = "check", !.inserted = 0]
    /\ UNCHANGED wpg
    /\ fillOnly

\* Mutation: every page is read from the start of the stream.
NextPage_Prefix == [wfill EXCEPT !.pc = "read"]

NextPage == [wfill EXCEPT !.pc = "read", !.after = wfill.last]

WFillCheck ==
    /\ wfill.pc = "check"
    /\ wfill' = IF wdropped = 0 \/ ~wfill.full \/ wfill.last = wfill.after
                THEN WFillIdle ELSE NextPage
    /\ UNCHANGED <<wdropped, wpg>>
    /\ fillOnly

-----------------------------------------------------------------------------
(* The commands of other processes, which have their own counters.         *)

otherOnly == UNCHANGED <<wlen, wpost, wchan, wbatch, wtask, wpending,
                         wdropped, wcounted, wbreaker, wup, wrefused, wfill,
                         wflush, wstop>>

\* cmd_sync: the first entries of the stream, up to a limit or an error.
WSync ==
    /\ May("syncs") /\ Spend("syncs", 1)
    /\ wup
    /\ \E n \in InStream : wpg' = wpg \cup Reached({m \in InStream : m <= n})
    /\ UNCHANGED wplan
    /\ otherOnly

\* reconcile: both stores are compared up to the settle time, ...
WReconcilePlan ==
    /\ May("syncs") /\ Spend("syncs", 1)
    /\ wup /\ wplan = {}
    /\ \E to \in InStream :
           wplan' = {m \in InStream : m <= to} \ wpg
    /\ UNCHANGED wpg
    /\ otherOnly

\* ... and what is planned and still in the stream is inserted.
WReconcileApply ==
    /\ wplan # {}
    /\ \/ /\ Cardinality(wplan) <= WMaxInsert /\ wup
          /\ wpg' = wpg \cup Reached(wplan \cap InStream)
       \/ /\ Cardinality(wplan) > WMaxInsert \/ ~wup
          /\ UNCHANGED wpg
    /\ wplan' = {}
    /\ UNCHANGED wleft
    /\ otherOnly

-----------------------------------------------------------------------------
WTask == WTick \/ WRecv \/ WDrained \/ WPersist \/ WFlushed
WFill == WFillStart \/ WFillRead \/ WFillInsert \/ WFillCount \/ WFillCheck

WriterNext ==
    \/ \E p \in WPosters : \/ \E k \in 1 .. 2 : WAdd(p, k)
                           \/ WSend(p)
    \/ WSendPresence \/ WShutdown \/ WTask \/ WFill
    \/ \E i \in WFlushers : WFlushCall(i) \/ WFlushTimeout(i)
    \/ WPgDown \/ WPgUp
    \/ \E probed \in BOOLEAN : WBreakerCloses(probed)
    \/ WSync \/ WReconcilePlan \/ WReconcileApply

WriterSpec == WriterInit /\ [][WriterNext]_writerVars

\* The runtime schedules the task, the monitors and the posting threads, and
\* an outage ends.
WriterFairness ==
    /\ WF_writerVars(\E p \in WPosters : WSend(p))
    /\ WF_writerVars(WTask)
    /\ WF_writerVars(WFill)
    /\ WF_writerVars(WPgUp)
    /\ WF_writerVars(WBreakerCloses(TRUE))

WriterFairSpec == WriterSpec /\ WriterFairness

-----------------------------------------------------------------------------
(* A message that was handed to the writer is in PostgreSQL, still in the  *)
(* queue, or was counted as a dropped write, and the pending count is the  *)
(* length of the queue: whatever order posts, failures, flushes and the    *)
(* end of the task come in (send_message, flush_pg_batch, agent-hub#194).  *)
NoSilentLoss ==
    /\ Handed \subseteq WSettled \cup IdsOf(wchan) \cup IdsOf(wbatch)
    /\ wpending = Cardinality({i \in 1 .. Len(wchan) : IsData(wchan[i])})
                      + Len(wbatch)

(* When flush_and_wait_async is answered by the task, each message handed  *)
(* over before the call is settled: the control handler pauses the service *)
(* on that answer.  When shutdown has ended the task, each message handed  *)
(* over before it was requested is settled (BootstrapGuard::drain), though *)
(* others may be left in the channel.                                      *)
FlushMeansSettled ==
    /\ \A i \in WFlushers :
           wflush[i].st = "drained" => wflush[i].before \subseteq WSettled
    /\ Gone => wstop.before \subseteq WSettled

(* Every message handed to the writer is in the end settled, or abandoned  *)
(* in the channel of a task that ended: a batch that never fills is        *)
(* flushed by the timer (pg_writer_task).  Posting ends in every instance, *)
(* so that one state is reached in which nothing is left to write.         *)
QueueDrains ==
    <>[](Handed \subseteq WSettled \cup (IF Gone THEN IdsOf(wchan) ELSE {}))

(* As long as dropped writes are counted and PostgreSQL comes back, the    *)
(* backfill monitor reaches each dropped message that the stream still     *)
(* has, also one behind pages that need nothing, unless the stream has a   *)
(* message before it that PostgreSQL refuses: each pass ends there         *)
(* (spawn_pg_backfill_monitor, sync_redis_to_postgres).                    *)
DebtIsRepaid ==
    []<>(wdropped = 0 \/ (wcounted \cap Reached(InStream)) \subseteq wpg)
=============================================================================
