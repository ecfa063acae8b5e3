----------------------------- MODULE OutboxClient -----------------------------
(***************************************************************************)
(* The client end of the durable outbox: submit, flush and the transport   *)
(* (outbox.rs, outbox_client.rs, server_mode.rs).                          *)
(*                                                                         *)
(* status is what the journal's synced records say of a request; it        *)
(* survives a crash of the process.  sess is the process that holds the    *)
(* journal's lock, and is lost with it.  The file underneath (torn         *)
(* records, custody, rotation) is not in this module.                      *)
(***************************************************************************)
EXTENDS OutboxBase

VARIABLES
    last,    \* the last sequence number of a journal
    status,  \* the durable state of a request
    sess     \* the submit or flush under way on a journal

Settled == {"applied", "expired", "superseded", "rejected"}
Statuses == {"absent", "queued", "attempted"} \cup Settled

\* at is the now_ms the flush was given, left what remains of its limit.
Session == [pc : {"idle", "scan", "call", "await"}, at : Int, left : Nat,
            route : Nat, slot : Slots]
AnySlot == CHOOSE s \in Slots : TRUE
Idle == [pc |-> "idle", at |-> 0, left |-> 0, route |-> 0, slot |-> AnySlot]

clientVars == <<last, status, sess>>

ClientTypeOK ==
    /\ last \in [Clients -> 0 .. MaxSeq]
    /\ status \in [Ids -> Statuses]
    /\ sess \in [Clients -> Session]

ClientInit ==
    /\ last = [c \in Clients |-> 0]
    /\ status = [i \in Ids |-> "absent"]
    /\ sess = [c \in Clients |-> Idle]

-----------------------------------------------------------------------------
IsPending(i) == status[i] \in {"queued", "attempted"}
Pending(c) == {n \in 1 .. MaxSeq : IsPending(<<c, n>>)}

\* Mutation: any retained request may be next.
IsHead_AnyOrder(c, n) == n \in Pending(c)

\* The request the flush handles next: the first retained one in durable order.
IsHead(c, n) == n \in Pending(c) /\ \A m \in Pending(c) : n <= m

\* Awaited(s): some client still waits for the answer of slot s.
Awaited(s) == \E c \in Clients : sess[c].pc = "await" /\ sess[c].slot = s

ClientNow(c) == now + Skew[c]

\* The flush of journal c starts with now_ms = t.
StartFlush(c, t) ==
    sess' = [sess EXCEPT ![c] = [Idle EXCEPT !.pc = "scan", !.at = t,
                                             !.left = FlushLimit]]
EndFlush(c) == sess' = [sess EXCEPT ![c] = Idle]

\* After a request was settled the loop goes on to the next one.
NextRequest(c) ==
    sess' = [sess EXCEPT ![c] = [Idle EXCEPT !.pc = "scan", !.at = sess[c].at,
                                             !.left = sess[c].left - 1]]

-----------------------------------------------------------------------------
(* Submission: the request is appended to the journal and synced before    *)
(* anything leaves the process; then the same process flushes.             *)

Enqueue(c, r) ==
    LET i == <<c, last[c] + 1>>
    IN  /\ sess[c].pc = "idle"
        /\ r.op \in Ops
        /\ last[c] < MaxSeq
        /\ Cardinality({j \in Ids : status[j] # "absent"}) < MaxRequests
        /\ Cardinality(Pending(c)) < RequestLimit
        /\ r.expires <= MaxTime
        /\ last' = [last EXCEPT ![c] = @ + 1]
        /\ req' = [req EXCEPT ![i] = r]
        /\ status' = [status EXCEPT ![i] = "queued"]
        /\ StartFlush(c, ClientNow(c))
        /\ UNCHANGED <<now, call, faults>>

SubmitSend(c) ==
    Enqueue(c, [NoRequest EXCEPT !.op = "send", !.created = ClientNow(c)])

SubmitAck(c, m) ==
    Enqueue(c, [NoRequest EXCEPT !.op = "ack", !.created = ClientNow(c),
                                 !.target = m])

SubmitPresence(c, a, t) ==
    Enqueue(c, [NoRequest EXCEPT !.op = "presence", !.agent = a,
                                 !.created = ClientNow(c),
                                 !.expires = ClientNow(c) + t])

SubmitClaim(c, a, t) ==
    Enqueue(c, [NoRequest EXCEPT !.op = "claim", !.agent = a,
                                 !.created = ClientNow(c),
                                 !.expires = ClientNow(c) + t])

\* flush_pending: drain what is retained without a new submission.
FlushPending(c) ==
    /\ sess[c].pc = "idle"
    /\ Pending(c) # {}
    /\ StartFlush(c, ClientNow(c))
    /\ UNCHANGED <<now, req, call, faults, last, status>>

-----------------------------------------------------------------------------
(* The loop of Journal::flush.                                             *)

\* Mutation: an attempted request expires like any other.
MayExpire_Attempted(c, i) == IsPending(i) /\ Expired(i, sess[c].at)

\* Only a request that was never attempted may expire on the client.
MayExpire(c, i) == status[i] = "queued" /\ Expired(i, sess[c].at)

\* A newer presence of the same agent is waiting behind this one.
Outdated(c, n) ==
    /\ status[<<c, n>>] = "queued"
    /\ IsPresence(<<c, n>>)
    /\ \E m \in Pending(c) : /\ m > n
                             /\ IsPresence(<<c, m>>)
                             /\ req[<<c, m>>].agent = req[<<c, n>>].agent

\* Mutation: the flush does not look at its limit.
Scanning_NoLimit(c, n) == sess[c].pc = "scan" /\ IsHead(c, n)
Scanning(c, n) == sess[c].pc = "scan" /\ sess[c].left > 0 /\ IsHead(c, n)

Settle(i, d) == status' = [status EXCEPT ![i] = d]

ExpireLocally(c, n) ==
    /\ Scanning(c, n)
    /\ MayExpire(c, <<c, n>>)
    /\ Settle(<<c, n>>, "expired")
    /\ NextRequest(c)
    /\ UNCHANGED <<now, req, call, faults, last>>

SupersedeLocally(c, n) ==
    /\ Scanning(c, n)
    /\ ~MayExpire(c, <<c, n>>)
    /\ Outdated(c, n)
    /\ Settle(<<c, n>>, "superseded")
    /\ NextRequest(c)
    /\ UNCHANGED <<now, req, call, faults, last>>

\* Mutation: the attempt is not recorded.
MarkAttempted_Unrecorded(c, n) ==
    /\ Scanning(c, n)
    /\ ~MayExpire(c, <<c, n>>)
    /\ ~Outdated(c, n)
    /\ sess' = [sess EXCEPT ![c].pc = "call", ![c].route = 1]
    /\ UNCHANGED <<now, req, call, faults, last, status>>

\* The Attempted record is on disk before the first byte leaves.
MarkAttempted(c, n) ==
    /\ Scanning(c, n)
    /\ ~MayExpire(c, <<c, n>>)
    /\ ~Outdated(c, n)
    /\ status' = [status EXCEPT ![<<c, n>>] = "attempted"]
    /\ sess' = [sess EXCEPT ![c].pc = "call", ![c].route = 1]
    /\ UNCHANGED <<now, req, call, faults, last>>

\* Slots only name calls: a new call takes the first one that is not in use.
Usable(s) == call[s].pc = "free" /\ ~Awaited(s)
FirstUsable(s) == Usable(s) /\ \A t \in Slots : Usable(t) => s <= t

\* HubTransport::replay posts the request on the next route of the hub.
CallRoute(c, n, s) ==
    /\ sess[c].pc = "call"
    /\ IsHead(c, n)
    /\ FirstUsable(s)
    /\ call' = [call EXCEPT ![s] = [FreeCall EXCEPT !.pc = "sent",
                                                    !.id = <<c, n>>]]
    /\ sess' = [sess EXCEPT ![c].pc = "await", ![c].slot = s]
    /\ UNCHANGED <<now, req, faults, last, status>>

\* A transport failure: the next route, or the flush stops at this request.
NextRoute(c) ==
    IF sess[c].route < Routes
    THEN sess' = [sess EXCEPT ![c].pc = "call", ![c].route = @ + 1,
                              ![c].slot = AnySlot]
    ELSE EndFlush(c)

\* No answer within the deadline.  The answer may be lost for good (the slot
\* is free again) or only late, which counts as a fault.
Timeout(c) ==
    /\ sess[c].pc = "await"
    /\ IF call[sess[c].slot].pc = "free" THEN UNCHANGED faults ELSE Fault
    /\ NextRoute(c)
    /\ UNCHANGED <<now, req, call, last, status>>

\* The answer decides: only a transport failure or Pending keeps the request.
Receive(c, n) ==
    LET s == sess[c].slot
        w == call[s].answer
        i == <<c, n>>
    IN  /\ sess[c].pc = "await"
        /\ IsHead(c, n)
        /\ call[s].pc = "reply"
        /\ call' = [call EXCEPT ![s] = FreeCall]
        /\ \/ /\ w \in {"applied", "superseded"}
              /\ Settle(i, w)
              /\ NextRequest(c)
           \/ /\ w = "permanent"
              /\ Settle(i, "rejected")
              /\ EndFlush(c)
           \/ /\ w = "pending"
              /\ EndFlush(c)
              /\ UNCHANGED status
           \/ /\ w = "transport"
              /\ NextRoute(c)
              /\ UNCHANGED status
        /\ UNCHANGED <<now, req, faults, last>>

\* The snapshot or the limit is used up: the lock is released.
FinishFlush(c) ==
    /\ sess[c].pc = "scan"
    /\ Pending(c) = {} \/ sess[c].left = 0
    /\ EndFlush(c)
    /\ UNCHANGED <<now, req, call, faults, last, status>>

\* The process dies at any point; the operating system drops its lock.
ClientCrash(c) ==
    /\ sess[c].pc # "idle"
    /\ Fault
    /\ EndFlush(c)
    /\ UNCHANGED <<now, req, call, last, status>>
=============================================================================
