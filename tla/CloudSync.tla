------------------------------ MODULE CloudSync ------------------------------
(***************************************************************************)
(* Replication of a hub's message stream to the cloud Worker and back      *)
(* (cloud_sync.rs, sync_store.rs, do-buslog.ts).  One engine per hub pushes *)
(* what may leave the hub, in batches, and pulls what other origins wrote. *)
(* Its progress is in a cursor file; it, the network and the file system   *)
(* may fail between any two steps, and the hub may stop anywhere.          *)
(*                                                                         *)
(* A stream id is a position of the stream, a cloud id is a seq of the     *)
(* Worker's table.  A queue, a batch or a page is a set of positions or    *)
(* seqs: all of them are ordered by id and taken from the front.           *)
(***************************************************************************)
EXTENDS Integers, FiniteSets, Sequences

CONSTANTS
    Batch,      \* batch_size of reads and pushes
    OutboxCap,  \* outbox_cap, at least a batch
    MaxChunks,  \* MAX_CHUNKS_PER_TICK
    PullPage,   \* PULL_PAGE
    LedgerCap,  \* MAX_REJECTION_RECEIPTS
    Retained,   \* stream_maxlen
    Backfill,   \* push the history on the first run
    Kinds,      \* kinds of local messages of this instance
    Origins,    \* origins, other than this hub, that write to the Worker
    MaxStream,  \* bound: entries of the stream
    MaxRows,    \* bound: rows of other origins
    MaxFaults,  \* bound: calls, writes and requests that fail
    MaxCrashes, \* bound: times the hub stops
    None        \* no cursor file

\* What may be posted here: an internal message, one that may not leave the
\* hub, and one that the Worker rejects for good.
LocalKinds == {"open", "private", "bad"}
\* A garbled row does not parse as a message on this hub.
OtherOrigins == {"other", "garbled"}

ASSUME SyncAssumption ==
    /\ {Batch, MaxChunks, PullPage, Retained} \subseteq Nat \ {0}
    /\ OutboxCap \in Nat /\ OutboxCap >= Batch
    /\ LedgerCap \in Nat
    /\ Backfill \in BOOLEAN
    /\ Kinds \subseteq LocalKinds /\ Origins \subseteq OtherOrigins
    /\ MaxStream \in Nat /\ MaxRows \in Nat
    /\ MaxFaults \in Nat /\ MaxCrashes \in Nat

VARIABLES
    stream,   \* every entry the message stream ever had
    trimmed,  \* how many of them MAXLEN has dropped
    gone,     \* those dropped before they were acknowledged
    seen,     \* dedup markers of the pulled messages, by seq
    notified, \* pulled messages whose recipients were notified
    rows,     \* the Worker's messages table
    top,      \* the last seq that it gave
    late,     \* batches given up by the engine that may still arrive
    eng,      \* the engine
    file,     \* the cursor file
    since,    \* where the first run began
    faults,   \* failures so far
    crashes   \* stops so far

hub == <<stream, trimmed, gone, seen, notified>>
worker == <<rows, top>>
vars == <<hub, worker, late, eng, file, since, faults, crashes>>

Entry == [kind : LocalKinds \cup {"pulled"}, of : Nat]
Row == [seq : Nat, origin : {"hub"} \cup OtherOrigins, of : Nat]

\* SyncCursors, without the presence cursor.
Cursors == [push : Nat, pull : Nat, receipts : SUBSET Nat]

ASSUME NoneAssumption == None \notin Cursors

\* disabled: the hub runs without the engine, which could not start.
Pcs == {"off", "disabled", "read", "flush", "sent", "acked", "pull", "ingest", "notify",
        "wait"}

\* chunks: reads left in this tick; full: the last one filled a batch;
\* rejected: rejected_ids of the answer; page, next and more: of the pull;
\* cur: the message whose recipients are to be notified.
Engine == [pc : Pcs, push : Nat, pull : Nat, receipts : SUBSET Nat,
           readTo : Nat, outbox : SUBSET Nat, chunks : Nat, full : BOOLEAN,
           rejected : SUBSET Nat, page : SUBSET Nat, next : Nat,
           more : BOOLEAN, cur : Nat]
Off == [pc |-> "off", push |-> 0, pull |-> 0, receipts |-> {},
        readTo |-> 0, outbox |-> {}, chunks |-> 0, full |-> FALSE,
        rejected |-> {}, page |-> {}, next |-> 0, more |-> FALSE, cur |-> 0]

Init ==
    /\ stream = <<>> /\ trimmed = 0 /\ gone = {}
    /\ seen = {} /\ notified = {}
    /\ rows = {} /\ top = 0
    /\ late = {}
    /\ eng = Off
    /\ file = None
    /\ since = 0
    /\ faults = 0 /\ crashes = 0

-----------------------------------------------------------------------------
(* Ids in order.                                                           *)

\* The first n of S.
First(S, n) == {p \in S : Cardinality({q \in S : q <= p}) <= n}
Last(S) == CHOOSE p \in S : \A q \in S : q <= p
UpTo(S, n) == {p \in S : p <= n}

Positions == 1 .. Len(stream)

\* Mutation: a message that came from the cloud is pushed too.
Pushable_AnyOrigin(p) == stream[p].kind # "private"

\* Mutation: what is marked no-offsite is pushed too.
Pushable_AnySensitivity(p) == stream[p].kind # "pulled"

\* pushable: of this hub and plainly internal.  Whether the Worker will take
\* a message is not known here.
Pushable(p) == stream[p].kind \in {"open", "bad"}

InCloud(p) == \E r \in rows : r.origin = "hub" /\ r.of = p
Replicated(p) == InCloud(p) \/ (file # None /\ p \in file.receipts)

\* The engine runs.
On == eng.pc \notin {"off", "disabled"}

\* The engine has acknowledged everything up to here, or the file has.
AckedTo == CASE On -> eng.push
             [] ~On /\ file # None -> file.push
             [] OTHER -> 0

-----------------------------------------------------------------------------
(* The stream of the hub.                                                  *)

\* XADD MAXLEN ~: any number of the oldest entries beyond the limit may go.
Add(e) ==
    /\ stream' = Append(stream, e)
    /\ \E t \in {trimmed} \cup (trimmed + 1 .. Len(stream) + 1 - Retained) :
          /\ trimmed' = t
          /\ gone' = gone \cup {p \in Positions :
                  /\ trimmed < p /\ p <= t /\ AckedTo < p
                  /\ Pushable(p) /\ ~InCloud(p)}

\* A message is posted on this hub.
Post(k) ==
    /\ Len(stream) < MaxStream
    /\ Add([kind |-> k, of |-> 0])
    /\ UNCHANGED <<seen, notified, worker, late, eng, file, since, faults, crashes>>

\* XRANGE (id +
Later(p) == {q \in Positions : q > p /\ q > trimmed}

-----------------------------------------------------------------------------
(* The Worker.                                                             *)

\* Mutation: insertMessage does not look for the id.
New_NoDedup(b) == {p \in b : stream[p].kind # "bad"}

\* The messages of b that insertMessage takes and does not have yet.
New(b) == {p \in b : stream[p].kind # "bad" /\ ~InCloud(p)}

\* syncPush of b: the new ones get the next seqs.
Insert(b) ==
    /\ rows' = rows \cup
          {[seq |-> top + Cardinality(UpTo(New(b), p)), origin |-> "hub", of |-> p] : p \in New(b)}
    /\ top' = top + Cardinality(New(b))

\* A message of another origin.
Elsewhere(o) ==
    /\ Cardinality({r \in rows : r.origin # "hub"}) < MaxRows
    /\ rows' = rows \cup {[seq |-> top + 1, origin |-> o, of |-> top + 1]}
    /\ top' = top + 1
    /\ UNCHANGED <<hub, late, eng, file, since, faults, crashes>>

\* A batch that the engine does not wait for any more is handled, wholly or
\* up to an error.
LatePush(b, n) ==
    /\ b \in late
    /\ late' = late \ {b}
    /\ Insert(UpTo(b, n))
    /\ UNCHANGED <<hub, eng, file, since, faults, crashes>>

-----------------------------------------------------------------------------
(* The engine.                                                             *)

Fault == faults < MaxFaults /\ faults' = faults + 1

\* Mutation: the page that was not stored counts as pulled.
Fail_PassesPage ==
    eng' = [eng EXCEPT !.pc = "wait", !.rejected = {}, !.page = {},
                !.next = 0, !.more = FALSE, !.cur = 0,
                !.pull = IF eng.next > @ THEN eng.next ELSE @]

\* An error ends the tick; queue and cursors stay.
Fail == eng' = [eng EXCEPT !.pc = "wait", !.rejected = {}, !.page = {},
                           !.next = 0, !.more = FALSE, !.cur = 0]

\* The engine's cursors, moved to these positions.
CursorsAt(push, pull) == [push |-> push, pull |-> pull, receipts |-> eng.receipts]

\* persist: an error is only logged.
Persist(c) ==
    \/ file' = c /\ UNCHANGED faults
    \/ Fault /\ UNCHANGED file

\* initial_cursors: what was saved, or on the first run the current tail.
Loaded ==
    IF file # None THEN file
    ELSE [push |-> IF Backfill THEN 0 ELSE Len(stream), pull |-> 0, receipts |-> {}]

\* Engine::new and the first tick.
Started(c) ==
    [pc |-> "read", push |-> c.push, pull |-> c.pull, receipts |-> c.receipts,
     readTo |-> c.push, outbox |-> {}, chunks |-> MaxChunks, full |-> FALSE,
     rejected |-> {}, page |-> {}, next |-> 0, more |-> FALSE, cur |-> 0]

Start ==
    /\ eng.pc = "off"
    /\ eng' = Started(Loaded)
    /\ file' = Loaded
    /\ since' = IF file = None THEN Loaded.push ELSE since
    /\ UNCHANGED <<hub, worker, late, faults, crashes>>

\* The client cannot be built, the cursor file cannot be read or first
\* written, or the tail cannot be read: the hub goes on without sync until it
\* is started again.
StartFails ==
    /\ eng.pc = "off"
    /\ Fault
    /\ eng' = [Off EXCEPT !.pc = "disabled"]
    /\ UNCHANGED <<hub, worker, late, file, since, crashes>>

\* Somebody starts the hub again; nothing does so by itself.
Restart ==
    /\ eng.pc = "disabled"
    /\ eng' = Off
    /\ UNCHANGED <<hub, worker, late, file, since, faults, crashes>>

\* The poll interval or the backoff is over.
Poll ==
    /\ eng.pc = "wait"
    /\ eng' = [eng EXCEPT !.pc = "read", !.chunks = MaxChunks]
    /\ UNCHANGED <<hub, worker, late, file, since, faults, crashes>>

Chunk == First(Later(eng.readTo), Batch)
Eligible == {p \in Chunk : Pushable(p)}

Overflows == Cardinality(eng.outbox) + Cardinality(Eligible) > OutboxCap

\* Mutation: reading goes on after a chunk that was dropped.
ReadTo_NotReset == IF Chunk # {} THEN Last(Chunk) ELSE eng.readTo

\* A chunk that would overflow the outbox drops it: reading starts over at
\* the cursor.
ReadTo == CASE Overflows -> eng.push
            [] ~Overflows /\ Chunk # {} -> Last(Chunk)
            [] ~Overflows /\ Chunk = {} -> eng.readTo

\* messages_after and enqueue.
Read ==
    /\ eng.pc = "read"
    /\ eng' = [eng EXCEPT !.pc = "flush", !.full = (Cardinality(Chunk) = Batch),
                  !.outbox = IF Overflows THEN {} ELSE @ \cup Eligible,
                  !.readTo = ReadTo]
    /\ UNCHANGED <<hub, worker, late, file, since, faults, crashes>>

Taken == First(eng.outbox, Batch)

\* flush_outbox posts the front of the outbox.
Push ==
    /\ eng.pc = "flush" /\ eng.outbox # {}
    /\ eng' = [eng EXCEPT !.pc = "sent"]
    /\ UNCHANGED <<hub, worker, late, file, since, faults, crashes>>

\* The Worker handles the batch and its answer arrives: every message is
\* accepted, a duplicate or rejected.
Answer ==
    /\ eng.pc = "sent"
    /\ Insert(Taken)
    /\ eng' = [eng EXCEPT !.pc = "acked",
                  !.rejected = {p \in Taken : stream[p].kind = "bad"}]
    /\ UNCHANGED <<hub, late, file, since, faults, crashes>>

\* Mutation: the cursor passes all that was read, not only what was sent.
Acked_AllRead ==
    [push |-> eng.readTo, pull |-> eng.pull, receipts |-> eng.receipts \cup eng.rejected]

\* The cursors that acknowledge the batch.
Acked ==
    [push |-> IF Taken = eng.outbox THEN eng.readTo ELSE Last(Taken),
     pull |-> eng.pull,
     receipts |-> eng.receipts \cup eng.rejected]

Advance ==
    eng' = [eng EXCEPT !.pc = "flush", !.push = Acked.push,
               !.receipts = Acked.receipts, !.outbox = @ \ Taken, !.rejected = {}]

\* A batch without rejections advances whether it can be saved or not, one
\* with rejections only once cursor and receipts are saved together.
Acknowledge ==
    /\ eng.pc = "acked"
    /\ \/ /\ eng.rejected = {}
          /\ Advance
          /\ Persist(Acked)
       \/ /\ eng.rejected # {}
          /\ Cardinality(Acked.receipts) <= LedgerCap
          /\ Advance
          /\ file' = Acked
          /\ UNCHANGED faults
    /\ UNCHANGED <<hub, worker, late, since, crashes>>

\* The ledger is full, or save_rejection_cursors fails, before or after the
\* rename: the batch is kept.
RetainBatch ==
    /\ eng.pc = "acked" /\ eng.rejected # {}
    /\ Fail
    /\ \/ Cardinality(Acked.receipts) > LedgerCap /\ UNCHANGED <<file, faults>>
       \/ Cardinality(Acked.receipts) <= LedgerCap /\ Fault /\ file' \in {file, Acked}
    /\ UNCHANGED <<hub, worker, late, since, crashes>>

\* Mutation: the tick reads on for as long as there is something.
ReadsOn_Always == eng.full

ReadsOn == eng.full /\ eng.chunks > 1

\* The outbox is empty: the cursor passes what may not leave, and the tick
\* goes on with the next chunk or with the pull.
CaughtUp ==
    /\ eng.pc = "flush" /\ eng.outbox = {}
    /\ eng' = [eng EXCEPT !.push = eng.readTo,
                  !.pc = IF ReadsOn THEN "read" ELSE "pull",
                  !.chunks = @ - 1]
    /\ IF eng.push = eng.readTo THEN UNCHANGED <<file, faults>>
       ELSE Persist(CursorsAt(eng.readTo, eng.pull))
    /\ UNCHANGED <<hub, worker, late, since, crashes>>

Foreign == {r \in rows : r.seq > eng.pull /\ r.origin # "hub"}
Page == First({r.seq : r \in Foreign}, PullPage)
HasMore == \E r \in Foreign : r.seq \notin Page

\* Mutation: the cursor passes the rows that did not fit on the page.
NextCursor_Top == IF top > eng.pull THEN top ELSE eng.pull

\* The last of the page if there is more, else the end of the table.
NextCursor ==
    CASE HasMore -> Last(Page)
      [] ~HasMore /\ top > eng.pull -> top
      [] OTHER -> eng.pull

\* syncPull: a page of the rows of other origins after the cursor.  What does
\* not parse is left out.
Pull ==
    /\ eng.pc = "pull"
    /\ eng' = [eng EXCEPT !.pc = "ingest", !.more = HasMore, !.next = NextCursor,
                  !.page = {r.seq : r \in {x \in Foreign :
                                  x.seq \in Page /\ x.origin = "other"}}]
    /\ UNCHANGED <<hub, worker, late, file, since, faults, crashes>>

\* Mutation: the entry is added although the marker is there.
Store_NoMarker(s) ==
    /\ seen' = seen \cup {s}
    /\ Add([kind |-> "pulled", of |-> s])
    /\ UNCHANGED notified

\* INGEST_SCRIPT: marker and entry at once, unless the marker is there.
Store(s) ==
    /\ s \notin seen
    /\ seen' = seen \cup {s}
    /\ Add([kind |-> "pulled", of |-> s])
    /\ UNCHANGED notified

Ingest(s) ==
    /\ eng.pc = "ingest"
    /\ s \in eng.page /\ \A q \in eng.page : s <= q
    /\ \/ /\ Store(s)
          /\ eng' = [eng EXCEPT !.page = @ \ {s}, !.pc = "notify", !.cur = s]
       \/ /\ s \in seen
          /\ eng' = [eng EXCEPT !.page = @ \ {s}]
          /\ UNCHANGED hub
    /\ UNCHANGED <<worker, late, file, since, faults, crashes>>

\* append_notifications_for_message: an error is only logged.
Notify ==
    /\ eng.pc = "notify"
    /\ \/ notified' = notified \cup {eng.cur} /\ UNCHANGED faults
       \/ Fault /\ UNCHANGED notified
    /\ eng' = [eng EXCEPT !.pc = "ingest", !.cur = 0]
    /\ UNCHANGED <<stream, trimmed, gone, seen, worker, late, file, since, crashes>>

PulledTo == IF eng.next > eng.pull THEN eng.next ELSE eng.pull

\* The page is done: the cursor moves and is saved.
PageDone ==
    /\ eng.pc = "ingest" /\ eng.page = {}
    /\ eng' = [eng EXCEPT !.pull = PulledTo, !.next = 0, !.more = FALSE,
                  !.pc = IF eng.more THEN "pull" ELSE "wait"]
    /\ Persist(CursorsAt(eng.push, PulledTo))
    /\ UNCHANGED <<hub, worker, late, since, crashes>>

-----------------------------------------------------------------------------
(* Failures.                                                               *)

\* A read of the stream, the presence push or the pull fails.
CallFails ==
    /\ eng.pc \in {"read", "pull"}
    /\ Fault
    /\ Fail
    /\ UNCHANGED <<hub, worker, late, file, since, crashes>>

\* The Worker is not reached, or gives up after the messages up to n.
PushFails(n) ==
    /\ eng.pc = "sent"
    /\ Fault
    /\ Insert(UpTo(Taken, n))
    /\ Fail
    /\ UNCHANGED <<hub, late, file, since, crashes>>

\* REQUEST_TIMEOUT: the request may be handled later, or was and its answer
\* is late.
PushTimesOut ==
    /\ eng.pc = "sent"
    /\ Fault
    /\ late' = late \cup {Taken}
    /\ Fail
    /\ UNCHANGED <<hub, worker, file, since, crashes>>

\* The ingest fails, before or after Redis ran the script.
IngestFails(s) ==
    /\ eng.pc = "ingest"
    /\ s \in eng.page /\ \A q \in eng.page : s <= q
    /\ Fault
    /\ Store(s) \/ UNCHANGED hub
    /\ Fail
    /\ UNCHANGED <<worker, late, file, since, crashes>>

\* The hub stops, in the middle of anything.
Crash ==
    /\ On
    /\ crashes < MaxCrashes
    /\ crashes' = crashes + 1
    /\ eng' = Off
    /\ late' = IF eng.pc = "sent" THEN late \cup {Taken} ELSE late
    /\ UNCHANGED <<hub, worker, file, since, faults>>

-----------------------------------------------------------------------------
Step ==
    \/ Start \/ Poll \/ Read \/ Push \/ Answer \/ Acknowledge \/ RetainBatch
    \/ CaughtUp \/ Pull \/ (\E s \in eng.page : Ingest(s)) \/ Notify \/ PageDone

Failure ==
    \/ CallFails \/ PushTimesOut \/ Crash
    \/ \E n \in 0 .. MaxStream : PushFails(n)
    \/ \E s \in eng.page : IngestFails(s)

Environment ==
    \/ \E k \in Kinds : Post(k)
    \/ \E o \in Origins : Elsewhere(o)
    \/ \E b \in late, n \in 0 .. MaxStream : LatePush(b, n)

\* Sync is disabled, and the hub is started anew.
Outage == StartFails \/ Restart

Next == Step \/ Failure \/ Environment \/ Outage

\* run loops for as long as the hub is up, and systemd starts a hub that
\* stopped; one that runs without sync is not started again.
Fairness == WF_vars(Step)

Spec == Init /\ [][Next]_vars
FairSpec == Spec /\ Fairness

-----------------------------------------------------------------------------
(* Properties.                                                             *)

(* The state is well formed; in particular a tick never reads more than    *)
(* MAX_CHUNKS_PER_TICK chunks (push_messages), and nobody is notified of a *)
(* pulled message that is not stored (ingest_synced_message).              *)
TypeOK ==
    /\ stream \in Seq(Entry) /\ trimmed \in 0 .. Len(stream)
    /\ gone \subseteq Positions
    /\ seen \subseteq Nat /\ notified \subseteq seen
    /\ rows \subseteq Row /\ top \in Nat
    /\ late \subseteq SUBSET Positions
    /\ eng \in Engine /\ eng.chunks <= MaxChunks
    /\ file \in Cursors \cup {None}
    /\ since \in 0 .. Len(stream)
    /\ faults \in 0 .. MaxFaults /\ crashes \in 0 .. MaxCrashes

(* The saved push cursor is an acknowledged position: each message after   *)
(* the first run's start and up to it that may leave the hub is at the     *)
(* Worker or has its receipt in the same file, whatever requests were      *)
(* lost, late or cut short, whatever could not be saved, and wherever the  *)
(* hub stopped.  Only a message that the stream dropped before it was      *)
(* acknowledged may be missing (SyncCursors, flush_outbox, enqueue).       *)
CursorMeansReplicated ==
    file # None =>
        \A p \in Positions : since < p /\ p <= file.push /\ Pushable(p)
            => InCloud(p) \/ p \in file.receipts \/ p \in gone

(* Nothing is sent that must stay: what the Worker has from this hub was   *)
(* posted here and is internal, so that no pulled message is echoed        *)
(* (pushable, and the origin_hub that INGEST_SCRIPT stores).               *)
OnlyOwnMessages ==
    \A r \in rows : r.origin = "hub" => stream[r.of].kind = "open"

(* The Worker has each message of this hub once, and in the order of the   *)
(* hub's stream, also when a batch that was given up arrives after the     *)
(* ones that were sent in its place; except that a message the stream has  *)
(* dropped meanwhile may come late (flush_outbox, insertMessage).          *)
CloudInStreamOrder ==
    \A r, s \in rows : r.origin = "hub" /\ s.origin = "hub" /\ r.seq < s.seq
        => r.of < s.of \/ (s.of < r.of /\ s.of \in gone)

(* The stream has each pulled message once and in the order of the         *)
(* Worker's table, and the saved pull cursor passes no message of another  *)
(* origin that is not in the stream, also when a page is pulled again      *)
(* after a failure or a restart (INGEST_SCRIPT, pull_messages, syncPull).  *)
PullCursorMeansStored ==
    /\ \A p, q \in Positions :
           (p < q /\ stream[p].kind = "pulled" /\ stream[q].kind = "pulled")
               => stream[p].of < stream[q].of
    /\ file # None => \A r \in rows : r.origin = "other" /\ r.seq <= file.pull
           => \E p \in Positions : stream[p] = [kind |-> "pulled", of |-> r.seq]

\* Sync is not left disabled for ever by a start that failed.
SyncComesBack == []<>(eng.pc # "disabled")

(* Every message that may leave reaches the Worker or gets a receipt, once *)
(* failures stop (run, tick; the backoff is over in the end), unless a     *)
(* start fails and nobody starts the hub again (start).                    *)
EveryMessageReplicates ==
    SyncComesBack =>
        \A p \in 1 .. MaxStream :
            (file # None /\ since < p /\ p \in Positions /\ Pushable(p))
                ~> (Replicated(p) \/ p \in gone)

(* Every message that another origin wrote to the Worker comes to the      *)
(* stream, once failures stop (pull_messages follows has_more), unless a   *)
(* start fails and nobody starts the hub again (start, initial_cursors).   *)
EveryRowArrives ==
    SyncComesBack =>
        \A n \in 1 .. MaxRows + MaxStream :
            (\E r \in rows : r.seq = n /\ r.origin = "other")
                ~> (\E p \in Positions : stream[p] = [kind |-> "pulled", of |-> n])

(* sync_store.rs says of a pulled message: "Per-recipient notifications    *)
(* are still appended so `check_inbox` sees the message."  Then each one   *)
(* that the saved cursor has passed was notified, even if the hub stopped  *)
(* between the script and the notification.                                *)
StoredIsNotified ==
    file # None => \A r \in rows : r.origin = "other" /\ r.seq <= file.pull
        => r.seq \in notified
=============================================================================
