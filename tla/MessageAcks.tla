---------------------------- MODULE MessageAcks ----------------------------
(***************************************************************************)
(* Messages that ask for an acknowledgement (redis_bus.rs,                 *)
(* ops/message.rs, ops/ack_deadline.rs): posting stores a pending-ack key  *)
(* and a deadline record, each with its expiry, after the message is in    *)
(* the stream; an acknowledgement deletes both, one command at a time; a   *)
(* listing scans the keys and then reads each of them.                     *)
(*                                                                         *)
(* A key is the time at which Redis removes it, or None.  The clock of the *)
(* hub and the one of Redis are the same.                                  *)
(***************************************************************************)
EXTENDS Integers, FiniteSets

CONSTANTS
    AMsgs,        \* messages that ask for an acknowledgement
    AWindow,      \* ack_deadline_seconds: the window of each message
    APendingTtl,  \* PENDING_ACK_TTL
    ARetention,   \* ACK_DEADLINE_RETENTION_SECS
    AMaxClock,    \* bound: the clock
    ABudgets      \* bound: how often each of ABounded happens

ABounded == {"posts", "failures", "listings", "acks"}
None == -1

ASSUME AcksAssumption ==
    /\ IsFiniteSet(AMsgs)
    /\ AWindow \in [AMsgs -> Nat \ {0}]
    /\ {APendingTtl, ARetention} \subseteq Nat \ {0}
    /\ AMaxClock \in Nat
    /\ ABudgets \subseteq [ABounded -> Nat]

VARIABLES
    anow,   \* the clock
    apost,  \* where the post of a message is
    apend,  \* the pending-ack keys
    adead,  \* the deadline records
    aack,   \* where the acknowledgement of a message is
    alist,  \* the listing of overdue acknowledgements
    aleft   \* what is left of the budget

ackVars == <<anow, apost, apend, adead, aack, alist, aleft>>

AKeys == Nat \cup {None}
NoRecord == [due |-> None, until |-> None]
NoListing == [pc |-> "idle", now |-> 0, todo |-> {}, got |-> {},
              owed |-> {}, over |-> {}]

AcksTypeOK ==
    /\ anow \in 0 .. AMaxClock
    /\ apost \in [AMsgs -> {"none", "added", "announced", "pending",
                            "tracked", "untracked", "failed"}]
    /\ apend \in [AMsgs -> AKeys]
    /\ adead \in [AMsgs -> [due : AKeys, until : AKeys]]
    /\ aack \in [AMsgs -> [pc : {"none", "posted", "cleared", "done"},
                          clean : BOOLEAN]]
    /\ alist \in [pc : {"idle", "scan", "read", "done"}, now : 0 .. AMaxClock,
                  todo : SUBSET AMsgs, got : SUBSET AMsgs,
                  owed : SUBSET AMsgs, over : SUBSET AMsgs]
    /\ aleft \in [ABounded -> Nat]

AcksInit ==
    /\ anow = 0
    /\ apost = [m \in AMsgs |-> "none"]
    /\ apend = [m \in AMsgs |-> None]
    /\ adead = [m \in AMsgs |-> NoRecord]
    /\ aack = [m \in AMsgs |-> [pc |-> "none", clean |-> FALSE]]
    /\ alist = NoListing
    /\ aleft \in ABudgets

ASpend(what) ==
    /\ aleft[what] > 0
    /\ aleft' = [aleft EXCEPT ![what] = @ - 1]
APosted(m, to) == apost' = [apost EXCEPT ![m] = to]
Returned(m) == apost[m] \in {"tracked", "untracked", "failed"}
HasRecord(m) == adead[m].until > anow
\* The last acknowledgement of m is complete.
Acked(m) == aack[m].pc = "done" /\ aack[m].clean

-----------------------------------------------------------------------------
(* Posting, one command at a time.  In a batch the same commands are       *)
(* pipelined per kind, for all its messages.                               *)

AAdd(S) ==
    /\ S # {} /\ \A m \in S : apost[m] = "none"
    /\ Cardinality(S) <= aleft["posts"]
    /\ aleft' = [aleft EXCEPT !["posts"] = @ - Cardinality(S)]
    /\ apost' = [m \in AMsgs |-> IF m \in S THEN "added" ELSE apost[m]]
    /\ UNCHANGED <<anow, apend, adead, aack, alist>>

\* A single post ends with an error when PUBLISH fails: it is not tracked.
APublish(m) ==
    /\ apost[m] = "added"
    /\ \/ APosted(m, "announced") /\ UNCHANGED aleft
       \/ ASpend("failures") /\ APosted(m, "failed")
    /\ UNCHANGED <<anow, apend, adead, aack, alist>>

\* track_pending_ack; a failure is logged.
ATrackPending(m) ==
    /\ apost[m] = "announced"
    /\ APosted(m, "pending")
    /\ \/ /\ apend' = [apend EXCEPT ![m] = anow + APendingTtl]
          /\ UNCHANGED aleft
       \/ ASpend("failures") /\ UNCHANGED apend
    /\ UNCHANGED <<anow, adead, aack, alist>>

\* Mutation: the record expires at its deadline (the state before #166).
KeyTtl_NoRetention(m) == AWindow[m]

\* ack_deadline_key_ttl
KeyTtl(m) == AWindow[m] + ARetention

\* store_ack_deadline; a failure is logged.
ATrackDeadline(m) ==
    /\ apost[m] = "pending"
    /\ \/ /\ adead' = [adead EXCEPT ![m] = [due |-> anow + AWindow[m],
                                            until |-> anow + KeyTtl(m)]]
          /\ APosted(m, "tracked")
          /\ UNCHANGED aleft
       \/ ASpend("failures") /\ APosted(m, "untracked") /\ UNCHANGED adead
    /\ UNCHANGED <<anow, apend, aack, alist>>

-----------------------------------------------------------------------------
(* post_ack: the recipient has read the message in the stream.  One whose  *)
(* post fails clears nothing.                                              *)

\* "clean" as long as it began after the post returned and no DEL failed.
AAckPost(m) ==
    /\ apost[m] # "none"
    /\ aack[m].pc \in {"none", "done"}
    /\ ASpend("acks")
    /\ aack' = [aack EXCEPT ![m] = [pc |-> "posted", clean |-> Returned(m)]]
    /\ UNCHANGED <<anow, apost, apend, adead, alist>>

\* clear_pending_ack; a failure is logged.
AClearPending(m) ==
    /\ aack[m].pc = "posted"
    /\ \/ /\ apend' = [apend EXCEPT ![m] = None]
          /\ aack' = [aack EXCEPT ![m].pc = "cleared"]
          /\ UNCHANGED aleft
       \/ /\ ASpend("failures")
          /\ aack' = [aack EXCEPT ![m] = [pc |-> "cleared", clean |-> FALSE]]
          /\ UNCHANGED apend
    /\ UNCHANGED <<anow, apost, adead, alist>>

\* Mutation: the acknowledgement leaves the deadline record.
ClearDeadline_Never(m) == UNCHANGED adead

ClearDeadline(m) == adead' = [adead EXCEPT ![m] = NoRecord]

\* clear_deadline; a failure is logged.
AClearDeadline(m) ==
    /\ aack[m].pc = "cleared"
    /\ \/ /\ ClearDeadline(m)
          /\ aack' = [aack EXCEPT ![m].pc = "done"]
          /\ UNCHANGED aleft
       \/ /\ ASpend("failures")
          /\ aack' = [aack EXCEPT ![m] = [pc |-> "done", clean |-> FALSE]]
          /\ UNCHANGED adead
    /\ UNCHANGED <<anow, apost, apend, alist>>

-----------------------------------------------------------------------------
(* check_overdue_acks: the clock is read, then the keys are scanned, then  *)
(* each key is read.                                                       *)

\* What is owed then, and what is settled, is kept for the property.
AListStart ==
    /\ alist.pc \in {"idle", "done"}
    /\ ASpend("listings")
    /\ alist' = [NoListing EXCEPT
           !.pc = "scan", !.now = anow,
           !.owed = {m \in AMsgs : apost[m] = "tracked" /\ adead[m].due # None
                                       /\ adead[m].due < anow},
           !.over = {m \in AMsgs : Acked(m)}]
    /\ UNCHANGED <<anow, apost, apend, adead, aack>>

AListScan ==
    /\ alist.pc = "scan"
    /\ alist' = [alist EXCEPT !.pc = "read",
                              !.todo = {m \in AMsgs : HasRecord(m)}]
    /\ UNCHANGED <<anow, apost, apend, adead, aack, aleft>>

AListRead(m) ==
    /\ alist.pc = "read" /\ m \in alist.todo
    /\ alist' = [alist EXCEPT
           !.todo = @ \ {m},
           !.got = IF HasRecord(m) /\ adead[m].due < alist.now
                   THEN @ \cup {m} ELSE @]
    /\ UNCHANGED <<anow, apost, apend, adead, aack, aleft>>

AListEnd ==
    /\ alist.pc = "read" /\ alist.todo = {}
    /\ alist' = [alist EXCEPT !.pc = "done"]
    /\ UNCHANGED <<anow, apost, apend, adead, aack, aleft>>

\* Redis removes a key at its time.
ATick ==
    /\ anow < AMaxClock
    /\ anow' = anow + 1
    /\ apend' = [m \in AMsgs |-> IF apend[m] <= anow' THEN None ELSE apend[m]]
    /\ UNCHANGED <<apost, adead, aack, alist, aleft>>

-----------------------------------------------------------------------------
AcksNext ==
    \/ \E S \in SUBSET AMsgs : AAdd(S)
    \/ \E m \in AMsgs :
         \/ APublish(m) \/ ATrackPending(m) \/ ATrackDeadline(m)
         \/ AAckPost(m) \/ AClearPending(m) \/ AClearDeadline(m)
         \/ AListRead(m)
    \/ AListStart \/ AListScan \/ AListEnd \/ ATick

AcksSpec == AcksInit /\ [][AcksNext]_ackVars

-----------------------------------------------------------------------------
(* What `overdue-acks` lists: every message that was overdue when the      *)
(* listing began and that nobody began to acknowledge, until the retention *)
(* window ends, and no message whose acknowledgement was complete by then, *)
(* although posts, acknowledgements and expiries go on while the keys are  *)
(* scanned and read (check_overdue_acks, agent-hub#166); nor is such a     *)
(* message still pending.                                                  *)
OverdueIsExact ==
    /\ alist.pc = "done" =>
           /\ alist.got \cap alist.over = {}
           /\ \A m \in alist.owed :
                  (aack[m].pc = "none" /\ anow < adead[m].due + ARetention)
                      => m \in alist.got
    /\ \A m \in AMsgs : Acked(m) => apend[m] = None
=============================================================================
