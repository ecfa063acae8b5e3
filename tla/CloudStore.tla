----------------------------- MODULE CloudStore -----------------------------
(***************************************************************************)
(* Direct writes to the cloud Worker (index.ts, do-buslog.ts): agents that *)
(* have no hub post messages, batches and knocks, follow their             *)
(* notifications by a cursor and acknowledge messages.  Each call of the   *)
(* Durable Object is one step; a route makes several of them.  A client    *)
(* that gets no answer sends the same request again, and the first one may *)
(* still arrive.                                                           *)
(*                                                                         *)
(* A stored message is its seq; its id, which the Worker makes up anew for *)
(* each attempt, is taken for the same thing.                              *)
(***************************************************************************)
EXTENDS Integers, FiniteSets

CONSTANTS
    SAgents,    \* agents with a token of their own
    SVouching,  \* hub and operator tokens
    SItems,     \* messages: [n, origin, key, to, ack], key 0 without client_msg_id
    SPosts,     \* the requests: sets of items
    SLimit,     \* limit of a notification read
    SMaxSeq,    \* bound: rows
    SBudgets    \* bound: how often each of SBounded happens

SBounded == {"sends", "acks", "faults", "sweeps"}

ASSUME StoreAssumption ==
    /\ SPosts \subseteq SUBSET SItems
    /\ \A p \in SPosts : IsFiniteSet(p)
    \* Items are numbered, and the items of a batch are in that order.
    /\ \A i \in SItems : i.n \in Nat
    /\ \A i, j \in SItems : i.n = j.n => i = j
    /\ SLimit \in Nat \ {0} /\ SMaxSeq \in Nat
    /\ SBudgets \subseteq [SBounded -> Nat]
    \* A client_msg_id is used for one message only.
    /\ \A i, j \in SItems :
           (i.origin = j.origin /\ i.key = j.key /\ i.key # 0) => i = j

VARIABLES
    srows,    \* the messages table
    sseq,     \* the last seq it gave
    sowed,    \* pending_acks
    sflight,  \* copies of a request under way
    sdone,    \* requests whose client has an answer
    sroute,   \* the acknowledgement route of a caller
    sacked,   \* history: messages with a stored ack of a caller who may give it
    sever,    \* history: items that were stored
    sbook,    \* followers: first seq read, cursor, how often each seq was read
    sleft     \* what is left of the budget

storeVars == <<srows, sseq, sowed, sflight, sdone, sroute, sacked, sever,
               sbook, sleft>>

SSeqs == 1 .. SMaxSeq
SCallers == SAgents \cup SVouching
SAckItem == [n |-> 0, origin |-> "cloud", key |-> 0, to |-> "all", ack |-> FALSE]
SIdle == [pc |-> "idle", todo |-> {}, done |-> {}]

StoreTypeOK ==
    /\ srows \subseteq [seq : SSeqs, item : SItems \cup {SAckItem}]
    /\ sseq \in 0 .. SMaxSeq
    /\ sowed \subseteq SSeqs
    /\ sflight \in [SPosts -> Nat]
    /\ sdone \subseteq SPosts
    /\ sroute \in [SCallers -> [pc : {"idle", "check", "insert", "clear"},
                                todo : SUBSET SSeqs, done : SUBSET SSeqs]]
    /\ sacked \subseteq SSeqs /\ sever \subseteq SItems
    /\ sbook \in [SAgents -> [from : 0 .. SMaxSeq, cursor : 0 .. SMaxSeq,
                              reads : [SSeqs -> Nat]]]
    /\ sleft \in [SBounded -> Nat]

StoreInit ==
    /\ srows = {} /\ sseq = 0 /\ sowed = {}
    /\ sflight = [p \in SPosts |-> 0]
    /\ sdone = {}
    /\ sroute = [c \in SCallers |-> SIdle]
    /\ sacked = {} /\ sever = {}
    /\ sbook = [a \in SAgents |-> [from |-> 0, cursor |-> 0,
                                   reads |-> [s \in SSeqs |-> 0]]]
    /\ sleft \in SBudgets

SSpend(what) ==
    /\ sleft[what] > 0
    /\ sleft' = [sleft EXCEPT ![what] = @ - 1]
SSeqsOf(R) == {r.seq : r \in R}
SMaxOf(S) == CHOOSE x \in S : \A y \in S : y <= x

-----------------------------------------------------------------------------
(* POST /messages, /messages/batch and /knock.                             *)

\* A client sends a request, or sends it again while it has no answer.
SSend(p) ==
    /\ p \notin sdone
    /\ SSpend("sends")
    /\ sflight' = [sflight EXCEPT ![p] = @ + 1]
    /\ UNCHANGED <<srows, sseq, sowed, sdone, sroute, sacked, sever, sbook>>

\* Mutation: the table is not searched for the client_msg_id.
Fresh_Always(i) == TRUE

\* insertMessage: no row of the origin has the id or the client_msg_id.
Fresh(i) ==
    i.key = 0 \/ \A r \in srows : r.item.origin # i.origin \/ r.item.key # i.key

\* The items of a request that are inserted.
NewOf(p) == {i \in p : Fresh(i)}

\* The seq is an AUTOINCREMENT.  insertMessageBatch is one transaction: an
\* error undoes all of it.  An answer may be lost.
SHandle(p) ==
    LET fresh == NewOf(p)
        rank(i) == Cardinality({j \in fresh : j.n <= i.n})
        new == {[seq |-> sseq + rank(i), item |-> i] : i \in fresh}
    IN  /\ sflight[p] > 0
        /\ sflight' = [sflight EXCEPT ![p] = @ - 1]
        /\ sseq + Cardinality(fresh) <= SMaxSeq
        /\ srows' = srows \cup new
        /\ sseq' = sseq + Cardinality(fresh)
        /\ sowed' = sowed \cup SSeqsOf({r \in new : r.item.ack})
        /\ sever' = sever \cup fresh
        /\ \/ sdone' = sdone \cup {p} /\ UNCHANGED sleft
           \/ SSpend("faults") /\ UNCHANGED sdone
        /\ UNCHANGED <<sroute, sacked, sbook>>

SHandleFails(p) ==
    /\ sflight[p] > 0
    /\ SSpend("faults")
    /\ sflight' = [sflight EXCEPT ![p] = @ - 1]
    /\ UNCHANGED <<srows, sseq, sowed, sdone, sroute, sacked, sever, sbook>>

-----------------------------------------------------------------------------
(* GET /notifications/:agent.                                              *)

For(a, r) == r.item.to \in {a, "all"}

\* Mutation: a page after the cursor is the newest one.
PageOf_Newest(a, later) ==
    {s \in later : Cardinality({t \in later : t > s}) < SLimit}

\* listNotifications: newest first without a cursor, oldest first with one.
PageOf(a, later) ==
    IF sbook[a].cursor = 0
    THEN {s \in later : Cardinality({t \in later : t > s}) < SLimit}
    ELSE {s \in later : Cardinality({t \in later : t < s}) < SLimit}

\* The agent keeps the last id as its cursor.
SRead(a) ==
    LET b == sbook[a]
        later == SSeqsOf({r \in srows : For(a, r) /\ r.seq > b.cursor})
        page == PageOf(a, later)
    IN  /\ page # {}
        /\ sbook' = [sbook EXCEPT ![a] =
               [from |-> IF b.cursor = 0
                         THEN CHOOSE s \in page : \A t \in page : s <= t
                         ELSE b.from,
                cursor |-> SMaxOf(page),
                reads |-> [s \in SSeqs |-> IF s \in page THEN b.reads[s] + 1
                                           ELSE b.reads[s]]]]
        /\ UNCHANGED <<srows, sseq, sowed, sflight, sdone, sroute, sacked, sever, sleft>>

-----------------------------------------------------------------------------
(* POST /messages/:id/ack and /ack/batch: the recipients of all messages   *)
(* are looked up, then for each an ack message is stored and its pending   *)
(* row is deleted.                                                         *)

SAck(c, ids) ==
    /\ sroute[c].pc = "idle"
    /\ ids # {} /\ ids \subseteq 1 .. sseq
    /\ SSpend("acks")
    /\ sroute' = [sroute EXCEPT ![c] = [pc |-> "check", todo |-> ids,
                                        done |-> {}]]
    /\ UNCHANGED <<srows, sseq, sowed, sflight, sdone, sacked, sever, sbook>>

\* Mutation: anybody may acknowledge.
MayAck_Anybody(c, s) == TRUE

\* A message that is not found imposes nothing.
MayAck(c, s) ==
    \/ c \in SVouching
    \/ \A r \in srows : r.seq = s => For(c, r)

\* The recipient of a message does not change, so that the lookups of a batch
\* are one step.
SAckCheck(c) ==
    /\ sroute[c].pc = "check"
    /\ sroute' = [sroute EXCEPT ![c] =
           IF \A s \in sroute[c].todo : MayAck(c, s)
           THEN [sroute[c] EXCEPT !.pc = "insert"] ELSE SIdle]
    /\ UNCHANGED <<srows, sseq, sowed, sflight, sdone, sacked, sever, sbook, sleft>>

Next_(c) == CHOOSE s \in sroute[c].todo : \A t \in sroute[c].todo : s <= t

SAckInsert(c) ==
    LET s == Next_(c)
        entitled == c \in SVouching \/ \A r \in srows : r.seq = s => For(c, r)
    IN  /\ sroute[c].pc = "insert"
        /\ sseq < SMaxSeq
        /\ srows' = srows \cup {[seq |-> sseq + 1, item |-> SAckItem]}
        /\ sseq' = sseq + 1
        /\ sacked' = IF entitled THEN sacked \cup {s} ELSE sacked
        /\ sroute' = [sroute EXCEPT ![c].pc = "clear"]
        /\ UNCHANGED <<sowed, sflight, sdone, sever, sbook, sleft>>

\* clearPendingAck, then the next id or the answer.
SAckClear(c) ==
    LET s == Next_(c)
        rest == sroute[c].todo \ {s}
    IN  /\ sroute[c].pc = "clear"
        /\ sowed' = sowed \ {s}
        /\ sroute' = [sroute EXCEPT ![c] =
               [pc |-> IF rest = {} THEN "idle" ELSE "insert", todo |-> rest,
                done |-> sroute[c].done \cup {s}]]
        /\ UNCHANGED <<srows, sseq, sflight, sdone, sacked, sever, sbook, sleft>>

\* A call of the route fails: what was done stays.
SAckFails(c) ==
    /\ sroute[c].pc # "idle"
    /\ SSpend("faults")
    /\ sroute' = [sroute EXCEPT ![c].pc = "idle", ![c].todo = {}]
    /\ UNCHANGED <<srows, sseq, sowed, sflight, sdone, sacked, sever, sbook>>

-----------------------------------------------------------------------------
\* alarm: rows are deleted by the time they were stored.
SSweep ==
    /\ SSpend("sweeps")
    /\ \E s \in SSeqsOf(srows) : srows' = {r \in srows : r.seq > s}
    /\ UNCHANGED <<sseq, sowed, sflight, sdone, sroute, sacked, sever, sbook>>

StoreNext ==
    \/ \E p \in SPosts : SSend(p) \/ SHandle(p) \/ SHandleFails(p)
    \/ \E a \in SAgents : SRead(a)
    \/ \E c \in SCallers :
         \/ \E ids \in SUBSET (1 .. sseq) : SAck(c, ids)
         \/ SAckCheck(c) \/ SAckInsert(c) \/ SAckClear(c) \/ SAckFails(c)
    \/ SSweep

StoreSpec == StoreInit /\ [][StoreNext]_storeVars

-----------------------------------------------------------------------------
\* A message with a client_msg_id is in the table once, and it was stored
\* with all of a request that it is in.
StoredOnce ==
    /\ \A r, t \in srows :
           (r.item = t.item /\ r.item.key # 0) => r = t
    /\ \A i \in sever : \E p \in SPosts : i \in p /\ p \subseteq sever

\* What is retained between the first row a follower read and its cursor was
\* read once.
ReadOnce ==
    \A a \in SAgents : \A r \in srows :
        (For(a, r) /\ sbook[a].from # 0 /\ r.seq \in sbook[a].from .. sbook[a].cursor)
            => sbook[a].reads[r.seq] = 1

\* A pending row goes with an acknowledgement of somebody who may give it,
\* and does not come back.
OwedUntilAcked ==
    /\ \A r \in srows :
           (r.item.ack /\ r.seq \notin sowed) => r.seq \in sacked
    /\ \A c \in SCallers : sroute[c].done \cap sowed = {}

(* However often requests are repeated, answers lost and routes broken     *)
(* off: a direct write with a client_msg_id is stored once and wholly, an  *)
(* agent that follows its notifications by their ids reads each once and   *)
(* passes over none, and an acknowledgement is owed until the recipient or *)
(* a vouching token has given it (insertMessage, insertMessageBatch,       *)
(* listNotifications, the ack routes).                                     *)
CloudDelivery == StoredOnce /\ ReadOnce /\ OwedUntilAcked
=============================================================================
