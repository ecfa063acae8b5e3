-------------------------- MODULE OutboxReplayProofs --------------------------
(***************************************************************************)
(* Proofs about OutboxReplay, for any number of clients, agents, calls,    *)
(* requests, instants and faults.  First its types, and that no request    *)
(* takes effect twice (TypeInv, OnceInv).  Then that what a journal says   *)
(* of a request is true of the hub, so journals, network and hub together  *)
(* keep ReplayContract; that a grant is answered only while it is held;    *)
(* and that presence does not go back.                                     *)
(*                                                                         *)
(* These need three more parts of the invariant.  JournalInv: the          *)
(* journal's order, and that a call is under way only for a request whose  *)
(* attempt is on disk.  ToldInv: calls and memos tell the truth, and a     *)
(* superseded message can take no effect any more (Closed).  PresenceInv:  *)
(* what the presence marker stands for.                                    *)
(***************************************************************************)
EXTENDS OutboxReplay, TLAPS

-----------------------------------------------------------------------------
(* Constants and helpers.                                                  *)

(* The arbitrary elements that fill unused fields exist: there is a        *)
(* request identity, an agent and a slot.                                  *)
LEMMA Defaults ==
    AnyId \in Ids /\ AnyAgent \in Agents /\ AnySlot \in Slots
<1>1. Ids # {}
  <2>1. PICK c \in Clients : TRUE
    BY BaseAssumption
  <2>2. 1 \in 1 .. MaxSeq
    BY BaseAssumption
  <2>3. <<c, 1>> \in Ids
    BY <2>1, <2>2 DEF Ids
  <2> QED BY <2>3
<1>2. Agents # {} /\ Slots # {}
  BY BaseAssumption
<1> QED BY <1>1, <1>2 DEF AnyId, AnyAgent, AnySlot

(* The records that stand for "nothing" have the type of the thing.        *)
LEMMA EmptyRecords ==
    /\ NoRequest \in Request /\ FreeCall \in Call /\ Idle \in Session
    /\ NoMemo \in Memo /\ NoPresence \in Presence /\ NoMarker \in Marker
    /\ NoLease \in Lease
<1>1. NoRequest \in Request
  BY Defaults DEF NoRequest, Request, Operations
<1>2. FreeCall \in Call
  BY Defaults DEF FreeCall, Call, CallPcs, Answers
<1>3. Idle \in Session
  BY Defaults DEF Idle, Session
<1>4. NoMemo \in Memo
  BY DEF NoMemo, Memo
<1>5. NoPresence \in Presence /\ NoMarker \in Marker /\ NoLease \in Lease
  BY DEF NoPresence, NoMarker, NoLease, Presence, Marker, Lease
<1> QED BY <1>1, <1>2, <1>3, <1>4, <1>5

(* The initial states are well typed.                                      *)
LEMMA InitTypes == Init => TypeInv
<1> SUFFICES ASSUME Init PROVE TypeInv
  OBVIOUS
<1> USE EmptyRecords DEF Init
<1>1. BaseTypeOK
  BY DEF BaseInit, BaseTypeOK
<1>2. ClientTypeOK
  BY BaseAssumption DEF ClientInit, ClientTypeOK, Statuses
<1>3. HubTypeOK
  BY DEF HubInit, HubTypeOK
<1>4. LimitLeft
  BY DEF ClientInit, LimitLeft, Idle
<1>5. FinishAnswers
  BY DEF BaseInit, FinishAnswers, FreeCall
<1> QED BY <1>1, <1>2, <1>3, <1>4, <1>5 DEF TypeInv, TypeOK

(* A call that is answered, moved on or freed stays a call, and only the   *)
(* ordinary claim code brings one to "finish".                             *)
LEMMA CallUpdates ==
    ASSUME BaseTypeOK, FinishAnswers, NEW s \in Slots
    PROVE  /\ \A w \in Answers : Answered(s, w) =>
                call' \in [Slots -> Call] /\ FinishAnswers'
           /\ \A p \in {"persist", "admit"} : Proceeds(s, p) =>
                call' \in [Slots -> Call] /\ FinishAnswers'
           /\ call' = [call EXCEPT ![s] = FreeCall] =>
                call' \in [Slots -> Call] /\ FinishAnswers'
<1> USE DEF BaseTypeOK, FinishAnswers, Call, CallPcs
<1>1. ASSUME NEW w \in Answers, Answered(s, w)
      PROVE  call' \in [Slots -> Call] /\ FinishAnswers'
  <2>1. call'[s] = [pc |-> "reply", id |-> call[s].id, answer |-> w, lease |-> 0]
    BY <1>1 DEF Answered
  <2>2. \A t \in Slots : t # s => call'[t] = call[t]
    BY <1>1 DEF Answered
  <2>3. call'[s] \in Call
    BY <2>1
  <2>4. call' \in [Slots -> Call]
    BY <1>1, <2>2, <2>3 DEF Answered
  <2> QED BY <2>1, <2>2, <2>4
<1>2. ASSUME NEW p \in {"persist", "admit"}, Proceeds(s, p)
      PROVE  call' \in [Slots -> Call] /\ FinishAnswers'
  BY <1>2 DEF Proceeds
<1>3. ASSUME call' = [call EXCEPT ![s] = FreeCall]
      PROVE  call' \in [Slots -> Call] /\ FinishAnswers'
  BY <1>3, EmptyRecords DEF FreeCall
<1> QED BY <1>1, <1>2, <1>3

(* The session that goes on to the next route.                             *)
LEMMA RouteSession ==
    ASSUME NEW y \in Session
    PROVE  LET x == [y EXCEPT !.pc = "call", !.route = @ + 1, !.slot = AnySlot]
           IN  x \in Session /\ x.left = y.left
<1> DEFINE x == [y EXCEPT !.pc = "call", !.route = @ + 1, !.slot = AnySlot]
<1>1. y.route + 1 \in Nat
  BY DEF Session
<1>3. x.left = y.left
  BY DEF Session
<1>4. x \in Session
  BY <1>1, Defaults DEF Session
<1> QED BY <1>3, <1>4

(* What a flush does to its session keeps the session's type, and a flush  *)
(* that is past the scan has some of its limit left.                       *)
LEMMA SessionUpdates ==
    ASSUME TypeInv, NEW c \in Clients
    PROVE  /\ \A t \in Int : StartFlush(c, t) =>
                sess' \in [Clients -> Session] /\ LimitLeft'
           /\ EndFlush(c) => sess' \in [Clients -> Session] /\ LimitLeft'
           /\ sess[c].left > 0 /\ NextRequest(c) =>
                sess' \in [Clients -> Session] /\ LimitLeft'
           /\ sess[c].left > 0 /\ NextRoute(c) =>
                sess' \in [Clients -> Session] /\ LimitLeft'
<1> USE DEF TypeInv, TypeOK, ClientTypeOK
<1>0. FlushLimit \in Nat
  BY BaseAssumption
<1>1. ASSUME NEW x \in Session, sess' = [sess EXCEPT ![c] = x],
             x.pc \in {"call", "await"} => x.left > 0
      PROVE  sess' \in [Clients -> Session] /\ LimitLeft'
  BY <1>1 DEF LimitLeft
<1>2. ASSUME NEW t \in Int, StartFlush(c, t)
      PROVE  sess' \in [Clients -> Session] /\ LimitLeft'
  <2> DEFINE x == [Idle EXCEPT !.pc = "scan", !.at = t, !.left = FlushLimit]
  <2>1. x \in Session /\ x.pc = "scan"
    BY <1>0, EmptyRecords, Defaults DEF Session, Idle
  <2>2. sess' = [sess EXCEPT ![c] = x]
    BY <1>2 DEF StartFlush
  <2> HIDE DEF x
  <2> QED BY <2>1, <2>2, <1>1
<1>3. ASSUME EndFlush(c)
      PROVE  sess' \in [Clients -> Session] /\ LimitLeft'
  BY <1>1, <1>3, EmptyRecords DEF EndFlush, Idle
<1>4. ASSUME sess[c].left > 0, NextRequest(c)
      PROVE  sess' \in [Clients -> Session] /\ LimitLeft'
  <2> DEFINE x == [Idle EXCEPT !.pc = "scan", !.at = sess[c].at,
                               !.left = sess[c].left - 1]
  <2>1. sess[c] \in Session
    OBVIOUS
  <2>2. sess[c].at \in Int /\ sess[c].left - 1 \in Nat
    BY <2>1, <1>4 DEF Session
  <2>3. x \in Session /\ x.pc = "scan"
    BY <2>2, Defaults DEF Session, Idle
  <2>4. sess' = [sess EXCEPT ![c] = x]
    BY <1>4 DEF NextRequest
  <2> HIDE DEF x
  <2> QED BY <2>3, <2>4, <1>1
<1>5. ASSUME sess[c].left > 0, NextRoute(c)
      PROVE  sess' \in [Clients -> Session] /\ LimitLeft'
  <2>1. CASE sess[c].route < Routes
    <3> DEFINE x == [sess[c] EXCEPT !.pc = "call", !.route = @ + 1,
                                    !.slot = AnySlot]
    <3>1. sess[c] \in Session
      OBVIOUS
    <3>2. x \in Session /\ x.left = sess[c].left
      BY <3>1, RouteSession
    <3>3. sess' = [sess EXCEPT ![c] = x]
      BY <1>5, <2>1 DEF NextRoute
    <3> HIDE DEF x
    <3> QED BY <3>2, <3>3, <1>1, <1>5
  <2>2. CASE ~(sess[c].route < Routes)
    BY <1>3, <1>5, <2>2 DEF NextRoute
  <2> QED BY <2>1, <2>2
<1> QED BY <1>2, <1>3, <1>4, <1>5

(* Submitting a request keeps the types.                                   *)
LEMMA EnqueueTypes ==
    ASSUME TypeInv, NEW c \in Clients, NEW r \in Request, Enqueue(c, r),
           UNCHANGED hubVars
    PROVE  TypeInv'
<1> USE DEF TypeInv, TypeOK
<1>1. last[c] \in 0 .. MaxSeq /\ last[c] < MaxSeq /\ MaxSeq \in Nat
  BY BaseAssumption DEF ClientTypeOK, Enqueue
<1>2. <<c, last[c] + 1>> \in Ids
  BY <1>1 DEF Ids
<1>3. ClientNow(c) \in Int
  BY BaseAssumption DEF BaseTypeOK, ClientNow
<1>4. BaseTypeOK'
  BY <1>2 DEF Enqueue, BaseTypeOK
<1>5. sess' \in [Clients -> Session] /\ LimitLeft'
  BY <1>3, SessionUpdates DEF Enqueue
<1>6. last' \in [Clients -> 0 .. MaxSeq] /\ status' \in [Ids -> Statuses]
  <2>1. last[c] + 1 \in 0 .. MaxSeq
    BY <1>1
  <2>2. last' \in [Clients -> 0 .. MaxSeq]
    BY <2>1 DEF Enqueue, ClientTypeOK
  <2>3. status' \in [Ids -> Statuses]
    BY <1>2 DEF Enqueue, ClientTypeOK, Statuses
  <2> QED BY <2>2, <2>3
<1>7. HubTypeOK'
  BY DEF hubVars, HubTypeOK
<1>8. FinishAnswers'
  BY DEF Enqueue, FinishAnswers
<1> QED BY <1>4, <1>5, <1>6, <1>7, <1>8 DEF ClientTypeOK

\* A client accepts a request.
LEMMA SubmitTypes ==
    ASSUME TypeInv, NEW c \in Clients, Submit(c)
    PROVE  TypeInv'
<1>1. ClientNow(c) \in Int
  BY BaseAssumption DEF TypeInv, TypeOK, BaseTypeOK, ClientNow
<1>2. \A t \in TTLs : ClientNow(c) + t \in Int
  BY <1>1, LifetimeAssumption
<1>3. UNCHANGED hubVars
  BY DEF Submit
<1> USE EmptyRecords DEF Request, Operations
<1>4. CASE SubmitSend(c)
  <2>1. [NoRequest EXCEPT !.op = "send", !.created = ClientNow(c)] \in Request
    BY <1>1
  <2> QED BY <1>3, <1>4, <2>1, EnqueueTypes DEF SubmitSend
<1>5. ASSUME NEW m \in Ids, SubmitAck(c, m) PROVE TypeInv'
  <2>1. [NoRequest EXCEPT !.op = "ack", !.created = ClientNow(c),
                          !.target = m] \in Request
    BY <1>1
  <2> QED BY <1>3, <1>5, <2>1, EnqueueTypes DEF SubmitAck
<1>6. ASSUME NEW a \in Agents, NEW t \in TTLs, SubmitPresence(c, a, t)
      PROVE  TypeInv'
  <2>1. [NoRequest EXCEPT !.op = "presence", !.agent = a,
                          !.created = ClientNow(c),
                          !.expires = ClientNow(c) + t] \in Request
    BY <1>1, <1>2
  <2> QED BY <1>3, <1>6, <2>1, EnqueueTypes DEF SubmitPresence
<1>7. ASSUME NEW a \in Agents, NEW t \in TTLs, SubmitClaim(c, a, t)
      PROVE  TypeInv'
  <2>1. [NoRequest EXCEPT !.op = "claim", !.agent = a,
                          !.created = ClientNow(c),
                          !.expires = ClientNow(c) + t] \in Request
    BY <1>1, <1>2
  <2> QED BY <1>3, <1>7, <2>1, EnqueueTypes DEF SubmitClaim
<1> QED BY <1>4, <1>5, <1>6, <1>7 DEF Submit

(* The steps of a flush, and the crash that ends one, keep the types.      *)
LEMMA FlushTypes ==
    ASSUME TypeInv, NEW c \in Clients, Flush(c) \/ Crash(c)
    PROVE  TypeInv'
<1> USE DEF TypeInv, TypeOK
<1> DEFINE SessOK == sess' \in [Clients -> Session] /\ LimitLeft'
<1>1. HubTypeOK'
  BY DEF Flush, Crash, hubVars, HubTypeOK
<1>2. ClientNow(c) \in Int
  BY BaseAssumption DEF BaseTypeOK, ClientNow
<1>3. ASSUME SessOK, status' \in [Ids -> Statuses],
             call' \in [Slots -> Call], FinishAnswers', faults' \in Nat,
             UNCHANGED <<now, req, last>>
      PROVE  TypeInv'
  BY <1>1, <1>3 DEF BaseTypeOK, ClientTypeOK
<1>4. faults \in Nat /\ (Fault => faults' \in Nat)
  BY DEF BaseTypeOK, Fault
<1>5. /\ UNCHANGED status => status' \in [Ids -> Statuses]
      /\ UNCHANGED call => call' \in [Slots -> Call] /\ FinishAnswers'
  BY DEF BaseTypeOK, ClientTypeOK, FinishAnswers
<1>6. ASSUME NEW n \in 1 .. MaxSeq, NEW d \in Statuses, Settle(<<c, n>>, d)
      PROVE  status' \in [Ids -> Statuses]
  BY <1>6 DEF Settle, ClientTypeOK, Ids
<1> HIDE DEF SessOK
<1>7. CASE FlushPending(c)
  <2>1. SessOK
    BY <1>2, <1>7, SessionUpdates DEF FlushPending, SessOK
  <2> QED BY <1>3, <1>4, <1>5, <1>7, <2>1 DEF FlushPending
<1>8. ASSUME NEW n \in 1 .. MaxSeq, ExpireLocally(c, n)
      PROVE  TypeInv'
  <2>1. SessOK
    BY <1>8, SessionUpdates DEF ExpireLocally, Scanning, SessOK
  <2>2. status' \in [Ids -> Statuses]
    BY <1>6, <1>8 DEF ExpireLocally, Statuses, Settled
  <2> QED BY <1>3, <1>4, <1>5, <1>8, <2>1, <2>2 DEF ExpireLocally
<1>9. ASSUME NEW n \in 1 .. MaxSeq, SupersedeLocally(c, n)
      PROVE  TypeInv'
  <2>1. SessOK
    BY <1>9, SessionUpdates DEF SupersedeLocally, Scanning, SessOK
  <2>2. status' \in [Ids -> Statuses]
    BY <1>6, <1>9 DEF SupersedeLocally, Statuses, Settled
  <2> QED BY <1>3, <1>4, <1>5, <1>9, <2>1, <2>2 DEF SupersedeLocally
<1>10. ASSUME NEW n \in 1 .. MaxSeq, MarkAttempted(c, n)
       PROVE  TypeInv'
  <2>1. SessOK
    BY <1>10 DEF MarkAttempted, Scanning, SessOK, ClientTypeOK, Session, LimitLeft
  <2>2. status' \in [Ids -> Statuses]
    BY <1>10 DEF MarkAttempted, Statuses, ClientTypeOK, Ids
  <2> QED BY <1>3, <1>4, <1>5, <1>10, <2>1, <2>2 DEF MarkAttempted
<1>11. ASSUME NEW n \in 1 .. MaxSeq, Receive(c, n)
       PROVE  TypeInv'
  <2>1. sess[c].left > 0 /\ sess[c].slot \in Slots
    BY <1>11 DEF Receive, LimitLeft, ClientTypeOK, Session
  <2>2. call' \in [Slots -> Call] /\ FinishAnswers'
    BY <1>11, <2>1, CallUpdates DEF Receive
  <2>3. SessOK
    BY <1>11, <2>1, SessionUpdates DEF Receive, SessOK
  <2>4. status' \in [Ids -> Statuses]
    BY <1>5, <1>6, <1>11 DEF Receive, Statuses, Settled
  <2> QED BY <1>3, <1>4, <1>11, <2>2, <2>3, <2>4 DEF Receive
<1>12. ASSUME NEW n \in 1 .. MaxSeq, NEW s \in Slots, CallRoute(c, n, s)
       PROVE  TypeInv'
  <2>1. SessOK
    BY <1>12 DEF CallRoute, SessOK, ClientTypeOK, Session, LimitLeft
  <2>2. <<c, n>> \in Ids
    BY DEF Ids
  <2>3. [FreeCall EXCEPT !.pc = "sent", !.id = <<c, n>>] \in Call
    BY <2>2, EmptyRecords DEF Call, CallPcs
  <2>4. call' \in [Slots -> Call]
    BY <1>12, <2>3 DEF CallRoute, BaseTypeOK
  <2>5. FinishAnswers'
    BY <1>12, EmptyRecords DEF CallRoute, FinishAnswers, BaseTypeOK, Call
  <2> QED BY <1>3, <1>4, <1>5, <1>12, <2>1, <2>4, <2>5 DEF CallRoute
<1>13. CASE Timeout(c)
  <2>1. SessOK
    BY <1>13, SessionUpdates DEF Timeout, LimitLeft, SessOK
  <2> QED BY <1>3, <1>4, <1>5, <1>13, <2>1 DEF Timeout
<1>14. CASE FinishFlush(c)
  <2>1. SessOK
    BY <1>14, SessionUpdates DEF FinishFlush, SessOK
  <2> QED BY <1>3, <1>4, <1>5, <1>14, <2>1 DEF FinishFlush
<1>15. CASE Crash(c)
  <2>1. SessOK
    BY <1>15, SessionUpdates DEF Crash, ClientCrash, SessOK
  <2> QED BY <1>3, <1>4, <1>5, <1>15, <2>1 DEF Crash, ClientCrash
<1> QED
  BY <1>7, <1>8, <1>9, <1>10, <1>11, <1>12, <1>13, <1>14, <1>15 DEF Flush

(* A call names a request that exists.                                     *)
LEMMA CallTypes ==
    ASSUME TypeInv, NEW s \in Slots
    PROVE  /\ call[s].id \in Ids /\ call[s].answer \in Answers
           /\ call[s].lease \in Int
           /\ req[call[s].id] \in Request
           /\ req[call[s].id].agent \in Agents
           /\ req[call[s].id].target \in Ids
           /\ req[call[s].id].created \in Int
           /\ req[call[s].id].expires \in Int
<1>1. call[s] \in Call
  BY DEF TypeInv, TypeOK, BaseTypeOK
<1>2. call[s].id \in Ids /\ call[s].answer \in Answers /\ call[s].lease \in Int
  BY <1>1 DEF Call
<1>3. req[call[s].id] \in Request
  BY <1>2 DEF TypeInv, TypeOK, BaseTypeOK
<1> QED BY <1>2, <1>3 DEF Request

(* Reserving and completing a request keep the type of the memos.          *)
LEMMA MemoTypes ==
    ASSUME memo \in [Ids -> Memo], NEW i \in Ids
    PROVE  /\ Reserved(i) \in [Ids -> Memo]
           /\ \A w \in {"applied", "superseded"} : Completed(i, w) \in [Ids -> Memo]
<1>1. [NoMemo EXCEPT !.state = "pending"] \in Memo
  BY DEF NoMemo, Memo
<1>2. \A w \in {"applied", "superseded"} :
        [state |-> "applied", answer |-> w, until |-> 0, lease |-> 0] \in Memo
  BY DEF Memo
<1> QED BY <1>1, <1>2 DEF Reserved, Completed

(* A claim leaves a well typed hash of claims.                             *)
LEMMA LeaseTypes ==
    ASSUME lease \in [Agents -> Lease], NEW w \in Ids \cup {Direct},
           NEW a \in Agents, NEW e \in Int
    PROVE  ClaimedBy(w, a, e) \in [Agents -> Lease]
<1> DEFINE St(others) == IF others = {} THEN "granted" ELSE "contested"
<1>1. St(Rivals(a)) \in {"granted", "contested"}
  OBVIOUS
<1>2. [by |-> w, exp |-> e, status |-> St(Rivals(a))] \in Lease
  BY <1>1 DEF Lease
<1>3. \A b \in Agents : [lease[b] EXCEPT !.status = "contested"] \in Lease
  BY DEF Lease
<1> HIDE DEF St
<1>4. ClaimedBy(w, a, e) =
        [b \in Agents |->
            IF b = a THEN [by |-> w, exp |-> e, status |-> St(Rivals(a))]
            ELSE IF b \in Rivals(a) THEN [lease[b] EXCEPT !.status = "contested"]
            ELSE NoLease]
  BY DEF ClaimedBy, St
<1> QED BY <1>2, <1>3, <1>4, EmptyRecords

(* The remaining lease time is a number of instants.                       *)
LEMMA RemainingType ==
    ASSUME TypeInv, NEW s \in Slots
    PROVE  Remaining(call[s].id) \in Int
<1> DEFINE i == call[s].id
<1>1. now \in Int /\ Second \in Nat \ {0}
  BY BaseAssumption DEF TypeInv, TypeOK, BaseTypeOK
<1>2. req[i].expires \in Int /\ req[i].created \in Int
  BY CallTypes
<1> HIDE DEF i
<1>3. /\ (req[i].expires - now) \div Second \in Int
      /\ (req[i].expires - req[i].created) \div Second \in Int
  BY <1>1, <1>2
<1>4. \A x, y \in Int : (IF x < y THEN x ELSE y) * Second \in Int
  BY <1>1
<1>5. Remaining(i) \in Int
  BY <1>3, <1>4 DEF Remaining
<1> QED BY <1>5 DEF i

(* The steps of the replay handler keep the types.                         *)
LEMMA HandlerTypes ==
    ASSUME TypeInv, NEW s \in Slots, Handler(s)
    PROVE  TypeInv'
<1> USE DEF TypeInv, TypeOK
<1> DEFINE i == call[s].id
           CallOK == call' \in [Slots -> Call] /\ FinishAnswers'
<1>1. ClientTypeOK' /\ LimitLeft'
  BY DEF Handler, clientVars, ClientTypeOK, LimitLeft
<1>2. ASSUME CallOK, faults' \in Nat, UNCHANGED <<now, req>>, HubTypeOK'
      PROVE  TypeInv'
  BY <1>1, <1>2 DEF BaseTypeOK
<1>3. faults \in Nat /\ (Fault => faults' \in Nat)
  BY DEF BaseTypeOK, Fault
<1>4. UNCHANGED hubVars => HubTypeOK'
  BY DEF hubVars, HubTypeOK
<1>5. /\ i \in Ids /\ req[i] \in Request /\ req[i].agent \in Agents
      /\ req[i].created \in Int /\ req[i].expires \in Int
      /\ call[s].lease \in Int
  BY CallTypes
<1>6. \A w \in Answers : Answered(s, w) => CallOK
  BY CallUpdates
<1>7. \A p \in {"persist", "admit"} : Proceeds(s, p) => CallOK
  BY CallUpdates
<1>8. now \in Int /\ Retention \in Int
  BY LifetimeAssumption DEF BaseTypeOK
<1> HIDE DEF CallOK
<1>9. {"applied", "superseded", "pending", "permanent"} \subseteq Answers
  BY DEF Answers
<1>10. Append(log, i) \in Seq(Ids)
  BY <1>5 DEF HubTypeOK
<1>11. CASE ReplayKnown(s)
  <2>1. memo[i].answer \in {"none", "applied", "superseded"}
    BY <1>5 DEF HubTypeOK, Memo
  <2>2. KnownAnswer(i) \in Answers
    BY <2>1 DEF KnownAnswer, Answers
  <2>3. CallOK
    BY <1>6, <1>7, <1>11, <2>2 DEF ReplayKnown, AnswerOrPersist
  <2> QED BY <1>2, <1>3, <1>4, <1>11, <2>3 DEF ReplayKnown
<1>12. CASE ReplayLate(s)
  BY <1>2, <1>3, <1>4, <1>6, <1>9, <1>12 DEF ReplayLate
<1>13. CASE ReplayFuture(s)
  BY <1>2, <1>3, <1>4, <1>6, <1>9, <1>13 DEF ReplayFuture
<1>14. CASE ReplayMessage(s)
  <2>1. CallOK
    BY <1>7, <1>14 DEF ReplayMessage
  <2>2. memo' \in [Ids -> Memo]
    BY <1>5, <1>14, MemoTypes DEF ReplayMessage, HubTypeOK
  <2>3. ackDue' \in SUBSET Ids
    BY <1>5, <1>14 DEF ReplayMessage, AckDueAfter, HubTypeOK
  <2>4. HubTypeOK'
    BY <1>10, <1>14, <2>2, <2>3 DEF ReplayMessage, HubTypeOK
  <2> QED BY <1>2, <1>3, <1>14, <2>1, <2>4 DEF ReplayMessage
<1>15. CASE ReplayPresence(s)
  <2>1. CallOK
    BY <1>7, <1>15 DEF ReplayPresence
  <2>2. memo' \in [Ids -> Memo]
    BY <1>5, <1>15, MemoTypes DEF ReplayPresence, HubTypeOK
  <2>3. LivePresence(i) \in Presence /\ MarkerOf(i) \in Marker
    BY <1>5, <1>8 DEF LivePresence, MarkerOf, Presence, Marker
  <2>4. HubTypeOK'
    BY <1>10, <1>15, <2>2, <2>3 DEF ReplayPresence, HubTypeOK
  <2> QED BY <1>2, <1>3, <1>15, <2>1, <2>4 DEF ReplayPresence
<1>16. CASE ReplayOutdated(s)
  <2>1. CallOK
    BY <1>6, <1>9, <1>16 DEF ReplayOutdated
  <2>2. memo' \in [Ids -> Memo]
    BY <1>5, <1>16, MemoTypes DEF ReplayOutdated, HubTypeOK
  <2> QED BY <1>2, <1>3, <1>16, <2>1, <2>2 DEF ReplayOutdated, HubTypeOK
<1>17. CASE ReplayClaim(s)
  <2>1. CallOK
    BY <1>7, <1>17 DEF ReplayClaim
  <2>2. memo' \in [Ids -> Memo]
    BY <1>5, <1>17, MemoTypes DEF ReplayClaim, HubTypeOK
  <2> QED BY <1>2, <1>3, <1>17, <2>1, <2>2 DEF ReplayClaim, HubTypeOK
<1>18. CASE Persist(s)
  <2>1. CallOK
    BY <1>6, <1>9, <1>18 DEF Persist
  <2>2. pgRows' \in SUBSET Ids
    BY <1>5, <1>18 DEF Persist, HubTypeOK
  <2>3. faults' \in Nat
    BY <1>3, <1>18 DEF Persist
  <2> QED BY <1>2, <1>18, <2>1, <2>2, <2>3 DEF Persist, HubTypeOK
<1>19. CASE AdmitClaim(s)
  <2>1. Remaining(i) \in Int
    BY RemainingType
  <2>2. CallOK
    BY <1>5, <1>19, <2>1
    DEF AdmitClaim, BaseTypeOK, Call, CallPcs, Answers, CallOK, FinishAnswers
  <2> QED BY <1>2, <1>3, <1>4, <1>19, <2>2 DEF AdmitClaim
<1>20. CASE DispatchClaim(s)
  <2>1. now + call[s].lease \in Int
    BY <1>5, <1>8
  <2>2. lease' \in [Agents -> Lease]
    BY <1>5, <1>20, <2>1, LeaseTypes DEF DispatchClaim, HubTypeOK
  <2>3. CallOK /\ faults' \in Nat
    <3>1. CASE Fault /\ Answered(s, "pending")
      BY <1>3, <1>6, <1>9, <3>1
    <3>2. ASSUME NEW w \in {"applied", "contested"},
                 call' = [call EXCEPT ![s].pc = "finish",
                            ![s].lease = now + call[s].lease, ![s].answer = w]
          PROVE  CallOK
      <4>1. w \in Answers
        BY DEF Answers
      <4>2. call'[s].pc = "finish" /\ call'[s].answer = w
        BY <3>2 DEF BaseTypeOK, Call
      <4>3. \A t \in Slots : t # s => call'[t] = call[t]
        BY <3>2 DEF BaseTypeOK
      <4>4. call' \in [Slots -> Call]
        BY <2>1, <3>2, <4>1 DEF BaseTypeOK, Call, CallPcs
      <4> QED BY <4>2, <4>3, <4>4 DEF CallOK, FinishAnswers
    <3> QED BY <1>3, <1>20, <3>1, <3>2 DEF DispatchClaim
  <2>4. HubTypeOK'
    BY <1>10, <1>20, <2>2 DEF DispatchClaim, HubTypeOK
  <2> QED BY <1>2, <1>20, <2>3, <2>4 DEF DispatchClaim
<1>21. CASE FinishClaim(s)
  <2>1. call[s].answer \in {"applied", "contested", "superseded"}
    BY <1>21 DEF FinishClaim, FinishAnswers
  <2>2. /\ FinishAnswer(i, call[s].answer, call[s].lease)
             \in {"pending", "superseded", "saved"}
        /\ FinishAnswer(i, call[s].answer, call[s].lease) = "saved"
             => call[s].answer \in {"applied", "superseded"}
    BY <2>1 DEF FinishAnswer
  <2>3. CallOK
    BY <1>6, <1>9, <1>21, <2>1, <2>2 DEF FinishClaim
  <2>4. memo' \in [Ids -> Memo]
    <3> DEFINE e == call[s].lease
               x == [state |-> "applied", answer |-> call[s].answer, lease |-> e,
                     until |-> IF e < req[i].expires THEN e ELSE req[i].expires]
    <3>1. CASE FinishAnswer(i, call[s].answer, e) = "saved"
      <4>1. CASE call[s].answer = "applied"
        <5>1. x \in Memo
          BY <1>5, <4>1 DEF Memo
        <5> QED BY <1>5, <1>21, <3>1, <5>1 DEF FinishClaim, HubTypeOK
      <4>2. CASE call[s].answer = "superseded"
        <5>1. x \in Memo
          BY <1>5, <4>2 DEF Memo
        <5> QED BY <1>5, <1>21, <3>1, <5>1 DEF FinishClaim, HubTypeOK
      <4> QED BY <2>2, <3>1, <4>1, <4>2
    <3>2. CASE FinishAnswer(i, call[s].answer, e) # "saved"
      BY <1>21, <3>2 DEF FinishClaim, HubTypeOK
    <3> QED BY <3>1, <3>2
  <2> QED BY <1>2, <1>3, <1>21, <2>3, <2>4 DEF FinishClaim, HubTypeOK
<1> QED
  BY <1>11, <1>12, <1>13, <1>14, <1>15, <1>16, <1>17, <1>18, <1>19, <1>20, <1>21
  DEF Handler

(* The faults, the clock and the writers without the outbox keep the types. *)
LEMMA EnvironmentTypes ==
    ASSUME TypeInv,
           HubFault \/ Others \/ Tick \/ \E s \in Slots : LoseReply(s)
    PROVE  TypeInv'
<1> USE DEF TypeInv, TypeOK
<1>1. UNCHANGED clientVars => ClientTypeOK' /\ LimitLeft'
  BY DEF clientVars, ClientTypeOK, LimitLeft
<1>2. UNCHANGED hubVars => HubTypeOK'
  BY DEF hubVars, HubTypeOK
<1>3. /\ faults \in Nat /\ (Fault => faults' \in Nat)
      /\ now \in Int
  BY DEF BaseTypeOK, Fault
<1>4. UNCHANGED call => call' \in [Slots -> Call] /\ FinishAnswers'
  BY DEF BaseTypeOK, FinishAnswers
<1>5. CASE HubFault
  <2> DEFINE CallOK == call' \in [Slots -> Call] /\ FinishAnswers'
  <2>0. ASSUME CallOK, faults' \in Nat, UNCHANGED <<now, req>>, HubTypeOK'
        PROVE  TypeInv'
    BY <1>1, <1>5, <2>0 DEF BaseTypeOK, HubFault
  <2>1. \A s \in Slots, w \in {"transport", "permanent", "pending"} :
            Answered(s, w) => CallOK
    BY CallUpdates DEF Answers
  <2>2. \A s \in Slots : call' = [call EXCEPT ![s] = FreeCall] => CallOK
    BY CallUpdates
  <2> HIDE DEF CallOK
  <2>3. ASSUME NEW s \in Slots, Unavailable(s) \/ Refuse(s) \/ ClaimFails(s)
        PROVE  TypeInv'
    BY <1>2, <1>3, <2>0, <2>1, <2>3 DEF Unavailable, Refuse, ClaimFails
  <2>4. ASSUME NEW s \in Slots, LoseCall(s)
        PROVE  TypeInv'
    BY <1>2, <1>3, <2>0, <2>2, <2>4 DEF LoseCall
  <2>5. ASSUME NEW s \in Slots, ReplayAborts(s)
        PROVE  TypeInv'
    <3> DEFINE i == call[s].id
    <3>1. /\ i \in Ids /\ req[i].agent \in Agents
          /\ req[i].created \in Int /\ req[i].expires \in Int
      BY CallTypes
    <3>2. memo' \in [Ids -> Memo]
      BY <2>5, <3>1, MemoTypes DEF ReplayAborts, HubTypeOK
    <3>3. LivePresence(i) \in Presence /\ MarkerOf(i) \in Marker
      BY <3>1, LifetimeAssumption DEF LivePresence, MarkerOf, Presence, Marker
    <3>4. Append(log, i) \in Seq(Ids)
      BY <3>1 DEF HubTypeOK
    <3>5. HubTypeOK'
      BY <2>5, <3>1, <3>2, <3>3, <3>4 DEF ReplayAborts, AckDueAfter, HubTypeOK
    <3> QED BY <1>3, <2>0, <2>1, <2>5, <3>5 DEF ReplayAborts
  <2>6. CASE HubCrash
    <3>1. CallOK
      BY <2>6, EmptyRecords
      DEF HubCrash, BaseTypeOK, FinishAnswers, FreeCall, AtHub, CallOK
    <3> QED BY <1>2, <1>3, <2>0, <2>6, <3>1 DEF HubCrash
  <2> QED BY <1>5, <2>3, <2>4, <2>5, <2>6 DEF HubFault
<1>6. CASE Others
  <2>1. \A t \in DirectTTLs : now + t \in Int
    BY <1>3, LifetimeAssumption
  <2>2. ASSUME NEW a \in Agents, NEW t \in DirectTTLs, DirectPresence(a, t)
        PROVE  TypeInv'
    <3>1. [by |-> Direct, ts |-> now, exp |-> now + t] \in Presence
      BY <1>3, <2>1 DEF Presence
    <3> QED BY <1>1, <1>4, <1>6, <2>2, <3>1
            DEF Others, DirectPresence, BaseTypeOK, HubTypeOK
  <2>3. ASSUME NEW a \in Agents, NEW t \in DirectTTLs, DirectClaim(a, t)
        PROVE  TypeInv'
    <3>1. ClaimedBy(Direct, a, now + t) \in [Agents -> Lease]
      BY <2>1, LeaseTypes DEF HubTypeOK
    <3> QED BY <1>1, <1>4, <1>6, <2>3, <3>1
            DEF Others, DirectClaim, BaseTypeOK, HubTypeOK
  <2>4. ASSUME NEW a \in Agents, ReleaseClaim(a)
        PROVE  TypeInv'
    <3>1. \A b \in Agents, x \in {"granted", "contested"} :
              [lease[b] EXCEPT !.status = x] \in Lease
      BY DEF HubTypeOK, Lease
    <3>2. lease' \in [Agents -> Lease]
      BY <2>4, <3>1, EmptyRecords DEF ReleaseClaim
    <3> QED BY <1>1, <1>4, <1>6, <2>4, <3>2
            DEF Others, ReleaseClaim, BaseTypeOK, HubTypeOK
  <2>5. CASE HashExpires
    BY <1>1, <1>4, <1>6, <2>5, EmptyRecords
    DEF Others, HashExpires, BaseTypeOK, HubTypeOK
  <2> QED BY <1>6, <2>2, <2>3, <2>4, <2>5 DEF Others
<1>7. CASE Tick
  <2>1. /\ LiveAt(now + 1) \in [Agents -> Presence]
        /\ MarkersAt(now + 1) \in [Agents -> Marker]
        /\ LeasesAt(now + 1) \in [Agents -> Lease]
    BY EmptyRecords DEF LiveAt, MarkersAt, LeasesAt, HubTypeOK
  <2>2. HubTypeOK'
    BY <1>7, <2>1 DEF Tick, HubTypeOK
  <2>3. BaseTypeOK'
    BY <1>7 DEF Tick, BaseTypeOK
  <2> QED BY <1>1, <1>4, <1>7, <2>2, <2>3 DEF Tick
<1>8. ASSUME NEW s \in Slots, LoseReply(s)
      PROVE  TypeInv'
  <2>1. call' \in [Slots -> Call] /\ FinishAnswers'
    BY <1>8, CallUpdates DEF LoseReply
  <2> QED BY <1>1, <1>2, <1>3, <1>8, <2>1 DEF LoseReply, BaseTypeOK
<1> QED BY <1>5, <1>6, <1>7, <1>8

(* Every step keeps the types.                                             *)
LEMMA TypeStep == TypeInv /\ [Next]_vars => TypeInv'
<1> SUFFICES ASSUME TypeInv, [Next]_vars PROVE TypeInv'
  OBVIOUS
<1>1. CASE UNCHANGED vars
  BY <1>1 DEF vars, clientVars, hubVars, TypeInv, TypeOK, BaseTypeOK,
              ClientTypeOK, HubTypeOK, LimitLeft, FinishAnswers
<1>2. CASE Next
  BY <1>2, SubmitTypes, FlushTypes, HandlerTypes, EnvironmentTypes DEF Next
<1> QED BY <1>1, <1>2

(* Every reachable state is well typed: no session counts below zero, no   *)
(* memo caches an answer the handler does not give, and every call, memo,  *)
(* presence and lease names a request that exists.                         *)
THEOREM TypeCorrect == Spec => []TypeOK
<1>1. TypeInv => TypeOK
  BY DEF TypeInv
<1> QED BY <1>1, InitTypes, TypeStep, PTL DEF Spec

-----------------------------------------------------------------------------
(* At most one effect per request.  The reason is the memo: a request with *)
(* an effect has one, and the script goes on to an effect only when there  *)
(* is none.  A claim takes its effect outside the script, so between       *)
(* admission and dispatch the reservation must belong to one handler only. *)

(* A request that passes the checks of the replay script was never         *)
(* reserved: the memo of a claim expires, but not before the request.      *)
LEMMA FreshHasNoMemo ==
    ASSUME TypeInv, NEW s \in Slots, Fresh(s)
    PROVE  memo[call[s].id].state = "none"
<1> DEFINE i == call[s].id
<1>1. ~HasMemo(i) /\ ~Expired(i, now)
  BY DEF Fresh
<1>2. SUFFICES ASSUME memo[i].state # "none" PROVE FALSE
  OBVIOUS
<1>3. IsClaim(i) /\ ~(now < req[i].expires + Retention)
  BY <1>1, <1>2 DEF HasMemo
<1>4. now \in Int /\ req[i].expires \in Int /\ Retention \in Nat
  BY CallTypes, LifetimeAssumption DEF TypeInv, TypeOK, BaseTypeOK
<1>5. Expired(i, now)
  BY <1>3, <1>4 DEF Expired, IsClaim
<1> QED BY <1>1, <1>5

(* Appending one effect adds that request to the ones with an effect, and  *)
(* repeats none if it had no effect before.                                *)
LEMMA AppendEffect ==
    ASSUME log \in Seq(Ids), NEW i \in Ids, log' = Append(log, i)
    PROVE  /\ \A j \in Ids : HasEffect(j)' <=> HasEffect(j) \/ j = i
           /\ AtMostOnce /\ ~HasEffect(i) => AtMostOnce'
<1>1. Len(log) \in Nat /\ Len(log') = Len(log) + 1
  OBVIOUS
<1>2. /\ \A k \in 1 .. Len(log) : log'[k] = log[k]
      /\ log'[Len(log) + 1] = i
  OBVIOUS
<1>3. ASSUME NEW j \in Ids
      PROVE  HasEffect(j)' <=> HasEffect(j) \/ j = i
  <2>1. ASSUME HasEffect(j)' PROVE HasEffect(j) \/ j = i
    <3>1. PICK k \in 1 .. Len(log') : log'[k] = j
      BY <2>1 DEF HasEffect
    <3>2. k \in 1 .. Len(log) \/ k = Len(log) + 1
      BY <1>1, <3>1
    <3> QED BY <1>2, <3>1, <3>2 DEF HasEffect
  <2>2. ASSUME HasEffect(j) PROVE HasEffect(j)'
    <3>1. PICK k \in 1 .. Len(log) : log[k] = j
      BY <2>2 DEF HasEffect
    <3>2. k \in 1 .. Len(log') /\ log'[k] = j
      BY <1>1, <1>2, <3>1
    <3> QED BY <3>2 DEF HasEffect
  <2>3. ASSUME j = i PROVE HasEffect(j)'
    <3>1. Len(log) + 1 \in 1 .. Len(log')
      BY <1>1
    <3> QED BY <1>2, <2>3, <3>1 DEF HasEffect
  <2> QED BY <2>1, <2>2, <2>3
<1>4. ASSUME AtMostOnce, ~HasEffect(i) PROVE AtMostOnce'
  <2> SUFFICES ASSUME NEW j \in 1 .. Len(log'), NEW k \in 1 .. Len(log'),
                      log'[j] = log'[k]
               PROVE  j = k
    BY DEF AtMostOnce
  <2>1. /\ j \in 1 .. Len(log) \/ j = Len(log) + 1
        /\ k \in 1 .. Len(log) \/ k = Len(log) + 1
    BY <1>1
  <2>2. \A m \in 1 .. Len(log) : log[m] # i
    BY <1>4 DEF HasEffect
  <2> QED BY <1>2, <1>4, <2>1, <2>2 DEF AtMostOnce
<1> QED BY <1>3, <1>4

(* A step that writes neither a memo nor an effect, and admits no handler, *)
(* keeps the invariant.                                                    *)
LEMMA NoNewWork ==
    ASSUME OnceInv, UNCHANGED <<memo, log>>,
           \A t \in Slots : Working(t)' =>
               /\ Working(t) /\ call'[t].id = call[t].id
               /\ call'[t].pc \in {"admit", "dispatch"} =>
                      call[t].pc \in {"admit", "dispatch"}
    PROVE  OnceInv'
<1> USE DEF OnceInv
<1>1. \A i \in Ids : HasEffect(i)' <=> HasEffect(i)
  BY DEF HasEffect
<1>2. EffectHasMemo' /\ AtMostOnce'
  BY <1>1 DEF EffectHasMemo, AtMostOnce
<1>3. WorkIsReserved'
  BY DEF WorkIsReserved, Working, HasEffect
<1>4. OneAdmission'
  BY DEF OneAdmission
<1> QED BY <1>2, <1>3, <1>4

(* A request without memo gets its memo and at most one effect in one step *)
(* of the script, and its handler is admitted only without an effect.      *)
LEMMA FirstEffect ==
    ASSUME TypeInv, OnceInv, NEW s \in Slots, NEW i \in Ids, call[s].id = i,
           memo[i].state = "none",
           NEW m \in Memo, m.state # "none",
           memo' = [memo EXCEPT ![i] = m],
           log' = log \/ log' = Append(log, i),
           \A t \in Slots : t # s => call'[t] = call[t],
           call'[s].id = i,
           Working(s)' => m.state = "pending" /\ log' = log
    PROVE  OnceInv'
<1> USE DEF OnceInv
<1>1. log \in Seq(Ids) /\ memo \in [Ids -> Memo]
  BY DEF TypeInv, TypeOK, HubTypeOK
<1>2. ~HasEffect(i)
  BY DEF EffectHasMemo
<1>3. \A j \in Ids : HasEffect(j)' => HasEffect(j) \/ (j = i /\ log' # log)
  <2>1. CASE log' = log
    BY <2>1 DEF HasEffect
  <2>2. CASE log' # log
    BY <1>1, <2>2, AppendEffect
  <2> QED BY <2>1, <2>2
<1>4. AtMostOnce'
  <2>1. CASE log' = log
    BY <2>1 DEF AtMostOnce
  <2>2. CASE log' # log
    BY <1>1, <1>2, <2>2, AppendEffect
  <2> QED BY <2>1, <2>2
<1>5. EffectHasMemo'
  BY <1>1, <1>3 DEF EffectHasMemo
<1>6. \A t \in Slots : Working(t) => call[t].id # i
  BY DEF WorkIsReserved
<1>7. WorkIsReserved'
  <2> SUFFICES ASSUME NEW t \in Slots
               PROVE  (/\ Working(t) => memo[call[t].id].state = "pending"
                       /\ call[t].pc \in {"admit", "dispatch"} =>
                              ~HasEffect(call[t].id))'
    BY DEF WorkIsReserved
  <2>1. PICK j \in Ids : call[t].id = j
    BY CallTypes
  <2>2. call'[t].id = j
    BY <2>1
  <2>3. Working(t)' => memo'[j].state = "pending"
    <3>1. CASE t = s
      BY <1>1, <2>1, <3>1
    <3>2. CASE t # s /\ Working(t)'
      <4>1. Working(t)
        BY <3>2 DEF Working
      <4> QED BY <1>1, <1>6, <2>1, <4>1 DEF WorkIsReserved
    <3> QED BY <3>1, <3>2
  <2>4. call'[t].pc \in {"admit", "dispatch"} => ~HasEffect(j)'
    <3>1. CASE t = s
      BY <1>2, <1>3, <2>1, <3>1 DEF Working
    <3>2. CASE t # s
      BY <1>3, <1>6, <2>1, <3>2 DEF WorkIsReserved, Working
    <3> QED BY <3>1, <3>2
  <2> QED BY <2>2, <2>3, <2>4 DEF HasEffect
<1>8. OneAdmission'
  BY <1>6 DEF OneAdmission, Working
<1> QED BY <1>4, <1>5, <1>7, <1>8

(* The lease authority acts for the one handler that was admitted.         *)
LEMMA DispatchOnce ==
    ASSUME TypeInv, OnceInv, NEW s \in Slots, DispatchClaim(s)
    PROVE  OnceInv'
<1> USE DEF OnceInv
<1>1. PICK i \in Ids : call[s].id = i
  BY CallTypes
<1>2. log \in Seq(Ids) /\ log' = Append(log, i) /\ memo' = memo
  BY <1>1 DEF TypeInv, TypeOK, HubTypeOK, DispatchClaim
<1>3. /\ call[s].pc = "dispatch" /\ call'[s].id = i
      /\ call'[s].pc \in {"finish", "reply"}
      /\ \A t \in Slots : t # s => call'[t] = call[t]
  BY <1>1 DEF DispatchClaim, Answered, TypeInv, TypeOK, BaseTypeOK, Call
<1>4. Working(s) /\ memo[i].state = "pending" /\ ~HasEffect(i)
  BY <1>1, <1>3 DEF WorkIsReserved, Working
<1>5. AtMostOnce'
  BY <1>2, <1>4, AppendEffect
<1>6. \A j \in Ids : HasEffect(j)' => HasEffect(j) \/ j = i
  BY <1>2, AppendEffect
<1>7. EffectHasMemo'
  BY <1>2, <1>4, <1>6 DEF EffectHasMemo
<1>8. \A t \in Slots : t # s /\ Working(t) => call[t].id # i
  BY <1>1, <1>4 DEF OneAdmission
<1>9. WorkIsReserved'
  <2> SUFFICES ASSUME NEW t \in Slots
               PROVE  (/\ Working(t) => memo[call[t].id].state = "pending"
                       /\ call[t].pc \in {"admit", "dispatch"} =>
                              ~HasEffect(call[t].id))'
    BY DEF WorkIsReserved
  <2>1. PICK j \in Ids : call[t].id = j
    BY CallTypes
  <2>2. call'[t].id = j
    BY <1>1, <1>3, <2>1
  <2>3. Working(t)' => memo'[j].state = "pending"
    BY <1>1, <1>2, <1>3, <1>4, <2>1 DEF WorkIsReserved, Working
  <2>4. call'[t].pc \in {"admit", "dispatch"} => ~HasEffect(j)'
    BY <1>3, <1>6, <1>8, <2>1 DEF WorkIsReserved, Working
  <2> QED BY <2>2, <2>3, <2>4 DEF HasEffect
<1>10. OneAdmission'
  BY <1>3, <1>4, <1>8 DEF OneAdmission, Working
<1> QED BY <1>5, <1>7, <1>9, <1>10

(* The result of a claim is saved by the handler that reserved it.         *)
LEMMA FinishOnce ==
    ASSUME TypeInv, OnceInv, NEW s \in Slots, FinishClaim(s)
    PROVE  OnceInv'
<1> USE DEF OnceInv
<1>1. PICK i \in Ids : call[s].id = i
  BY CallTypes
<1>2. /\ call[s].pc = "finish" /\ call'[s].id = i /\ call'[s].pc = "reply"
      /\ \A t \in Slots : t # s => call'[t] = call[t]
  BY <1>1 DEF FinishClaim, Answered, TypeInv, TypeOK, BaseTypeOK, Call
<1>3. \A t \in Slots : t # s /\ Working(t) => call[t].id # i
  BY <1>1, <1>2 DEF OneAdmission, Working
<1>4. /\ \A j \in Ids : j # i => memo'[j] = memo[j]
      /\ memo'[i] = memo[i] \/ memo'[i].state = "applied"
  BY <1>1 DEF FinishClaim, TypeInv, TypeOK, HubTypeOK
<1>5. \A j \in Ids : HasEffect(j)' <=> HasEffect(j)
  BY DEF FinishClaim, HasEffect
<1>6. EffectHasMemo' /\ AtMostOnce'
  BY <1>4, <1>5 DEF EffectHasMemo, AtMostOnce, FinishClaim
<1>7. WorkIsReserved'
  <2> SUFFICES ASSUME NEW t \in Slots
               PROVE  (/\ Working(t) => memo[call[t].id].state = "pending"
                       /\ call[t].pc \in {"admit", "dispatch"} =>
                              ~HasEffect(call[t].id))'
    BY DEF WorkIsReserved
  <2>1. PICK j \in Ids : call[t].id = j
    BY CallTypes
  <2>2. call'[t].id = j
    BY <1>1, <1>2, <2>1
  <2>3. Working(t)' => memo'[j].state = "pending"
    BY <1>2, <1>3, <1>4, <2>1 DEF WorkIsReserved, Working
  <2>4. call'[t].pc \in {"admit", "dispatch"} => ~HasEffect(j)'
    BY <1>2, <1>5, <2>1 DEF WorkIsReserved
  <2> QED BY <2>2, <2>3, <2>4 DEF HasEffect
<1>8. OneAdmission'
  BY <1>2 DEF OneAdmission, Working
<1> QED BY <1>6, <1>7, <1>8

(* Every step of the replay handler keeps the invariant.                   *)
LEMMA HandlerOnce ==
    ASSUME TypeInv, OnceInv, NEW s \in Slots, Handler(s)
    PROVE  OnceInv'
<1>1. PICK i \in Ids : call[s].id = i
  BY CallTypes
<1>2. call[s] \in Call /\ call \in [Slots -> Call]
  BY DEF TypeInv, TypeOK, BaseTypeOK
<1>3. \A w \in Answers : Answered(s, w) =>
          /\ call'[s].id = i /\ call'[s].pc = "reply"
          /\ \A t \in Slots : t # s => call'[t] = call[t]
  BY <1>1, <1>2 DEF Answered, Call
<1>4. \A p \in {"persist", "admit"} : Proceeds(s, p) =>
          /\ call'[s].id = i /\ call'[s].pc = p
          /\ \A t \in Slots : t # s => call'[t] = call[t]
  BY <1>1, <1>2 DEF Proceeds, Call
<1>5. {"applied", "superseded", "pending", "permanent"} \subseteq Answers
  BY DEF Answers
<1>6. ASSUME UNCHANGED <<memo, log>>,
             /\ call'[s].pc \in {"reply", "persist"}
             /\ \A t \in Slots : t # s => call'[t] = call[t]
      PROVE  OnceInv'
  BY <1>6, NoNewWork DEF Working
<1>7. memo \in [Ids -> Memo] /\ memo[i].answer \in {"none", "applied", "superseded"}
  BY DEF TypeInv, TypeOK, HubTypeOK, Memo
<1>8. CASE ReplayKnown(s)
  <2>1. KnownAnswer(i) \in Answers
    BY <1>7 DEF KnownAnswer, Answers
  <2>2. /\ call'[s].pc \in {"reply", "persist"}
        /\ \A t \in Slots : t # s => call'[t] = call[t]
    BY <1>1, <1>3, <1>4, <1>8, <2>1 DEF ReplayKnown, AnswerOrPersist
  <2> QED BY <1>6, <1>8, <2>2 DEF ReplayKnown, hubVars
<1>9. CASE ReplayLate(s) \/ ReplayFuture(s)
  BY <1>3, <1>5, <1>6, <1>9 DEF ReplayLate, ReplayFuture, hubVars
<1>10. CASE Persist(s)
  BY <1>3, <1>5, <1>6, <1>10 DEF Persist
<1>11. CASE AdmitClaim(s)
  <2>1. /\ call[s].pc = "admit"
        /\ call'[s].pc \in {"dispatch", "finish"} /\ call'[s].id = call[s].id
        /\ \A t \in Slots : t # s => call'[t] = call[t]
    BY <1>2, <1>11 DEF AdmitClaim, Call
  <2>2. UNCHANGED <<memo, log>>
    BY <1>11 DEF AdmitClaim, hubVars
  <2> QED BY <2>1, <2>2, NoNewWork DEF Working
<1>12. Fresh(s) => memo[i].state = "none"
  BY <1>1, FreshHasNoMemo
<1>13. ASSUME NEW w \in {"applied", "superseded"}, Fresh(s), memo' = Completed(i, w),
              log' = log \/ log' = Append(log, i),
              /\ call'[s].id = i /\ call'[s].pc \in {"reply", "persist"}
              /\ \A t \in Slots : t # s => call'[t] = call[t]
       PROVE  OnceInv'
  <2> DEFINE m == [state |-> "applied", answer |-> w, until |-> 0, lease |-> 0]
  <2>1. m \in Memo /\ m.state = "applied"
    BY DEF Memo
  <2>2. memo' = [memo EXCEPT ![i] = m]
    BY <1>13 DEF Completed
  <2>3. ~Working(s)'
    BY <1>13 DEF Working
  <2> HIDE DEF m
  <2> QED BY <1>1, <1>12, <1>13, <2>1, <2>2, <2>3, FirstEffect
<1>14. CASE ReplayMessage(s)
  BY <1>1, <1>4, <1>13, <1>14 DEF ReplayMessage
<1>15. CASE ReplayPresence(s)
  BY <1>1, <1>4, <1>13, <1>15 DEF ReplayPresence
<1>16. CASE ReplayOutdated(s)
  BY <1>1, <1>3, <1>5, <1>13, <1>16 DEF ReplayOutdated
<1>17. CASE ReplayClaim(s)
  <2> DEFINE m == [NoMemo EXCEPT !.state = "pending"]
  <2>1. m \in Memo /\ m.state = "pending"
    BY DEF NoMemo, Memo
  <2>2. memo' = [memo EXCEPT ![i] = m] /\ log' = log
    BY <1>1, <1>17 DEF ReplayClaim, Reserved
  <2>3. Fresh(s) /\ call'[s].id = i /\ \A t \in Slots : t # s => call'[t] = call[t]
    BY <1>4, <1>17 DEF ReplayClaim
  <2> HIDE DEF m
  <2> QED BY <1>1, <1>12, <2>1, <2>2, <2>3, FirstEffect
<1> QED
  BY <1>8, <1>9, <1>10, <1>11, <1>14, <1>15, <1>16, <1>17, DispatchOnce, FinishOnce
  DEF Handler

(* So does every step outside the handler: the clients change no memo, a   *)
(* script that aborts has reserved first, and a crash only ends work.      *)
LEMMA OtherOnce ==
    ASSUME TypeInv, OnceInv,
           \/ Tick \/ HubFault \/ Others
           \/ \E c \in Clients : Submit(c) \/ Flush(c) \/ Crash(c)
           \/ \E s \in Slots : LoseReply(s)
    PROVE  OnceInv'
<1>1. call \in [Slots -> Call]
  BY DEF TypeInv, TypeOK, BaseTypeOK
<1>2. ASSUME UNCHANGED <<memo, log, call>> PROVE OnceInv'
  BY <1>2, NoNewWork DEF Working
<1>3. ASSUME NEW s \in Slots, UNCHANGED <<memo, log>>,
             call'[s].pc \in {"free", "sent", "reply"},
             \A t \in Slots : t # s => call'[t] = call[t]
      PROVE  OnceInv'
  BY <1>3, NoNewWork DEF Working
<1>4. ASSUME NEW s \in Slots, UNCHANGED <<memo, log>>,
             \E w : Answered(s, w)
      PROVE  OnceInv'
  <2>1. call'[s].pc = "reply" /\ \A t \in Slots : t # s => call'[t] = call[t]
    BY <1>1, <1>4 DEF Answered, Call
  <2> QED BY <1>3, <1>4, <2>1
<1>5. ASSUME NEW s \in Slots, UNCHANGED <<memo, log>>,
             call' = [call EXCEPT ![s] = FreeCall]
      PROVE  OnceInv'
  BY <1>1, <1>3, <1>5 DEF FreeCall
<1>6. CASE Tick
  BY <1>2, <1>6 DEF Tick
<1>7. CASE Others
  BY <1>2, <1>7 DEF Others, DirectPresence, DirectClaim, ReleaseClaim, HashExpires
<1>8. ASSUME NEW s \in Slots, LoseReply(s) PROVE OnceInv'
  BY <1>5, <1>8 DEF LoseReply, hubVars
<1>9. ASSUME NEW c \in Clients, Submit(c) \/ Crash(c) PROVE OnceInv'
  BY <1>2, <1>9
  DEF Submit, SubmitSend, SubmitAck, SubmitPresence, SubmitClaim, Enqueue,
      Crash, ClientCrash, hubVars
<1>10. ASSUME NEW c \in Clients, Flush(c) PROVE OnceInv'
  <2>1. UNCHANGED <<memo, log>>
    BY <1>10 DEF Flush, hubVars
  <2>2. ASSUME NEW n \in 1 .. MaxSeq, Receive(c, n) PROVE OnceInv'
    <3>1. sess[c].slot \in Slots
      BY DEF TypeInv, TypeOK, ClientTypeOK, Session
    <3> QED BY <1>5, <2>1, <2>2, <3>1 DEF Receive
  <2>3. ASSUME NEW n \in 1 .. MaxSeq, NEW s \in Slots, CallRoute(c, n, s)
        PROVE  OnceInv'
    <3>1. call'[s].pc = "sent" /\ \A t \in Slots : t # s => call'[t] = call[t]
      BY <1>1, <2>3 DEF CallRoute, FreeCall
    <3> QED BY <1>3, <2>1, <3>1
  <2> QED BY <1>2, <1>10, <2>1, <2>2, <2>3
          DEF Flush, FlushPending, ExpireLocally, SupersedeLocally, MarkAttempted,
              Timeout, FinishFlush
<1>11. CASE HubFault
  <2>1. ASSUME NEW s \in Slots,
               Unavailable(s) \/ Refuse(s) \/ ClaimFails(s) \/ LoseCall(s)
        PROVE  OnceInv'
    BY <1>4, <1>5, <2>1 DEF Unavailable, Refuse, ClaimFails, LoseCall, hubVars
  <2>2. ASSUME NEW s \in Slots, ReplayAborts(s) PROVE OnceInv'
    <3> DEFINE m == [NoMemo EXCEPT !.state = "pending"]
    <3>1. PICK i \in Ids : call[s].id = i
      BY CallTypes
    <3>2. m \in Memo /\ m.state = "pending"
      BY DEF NoMemo, Memo
    <3>3. /\ memo' = [memo EXCEPT ![i] = m]
          /\ log' = log \/ log' = Append(log, i)
          /\ memo[i].state = "none"
      BY <2>2, <3>1, FreshHasNoMemo DEF ReplayAborts, Reserved
    <3>4. /\ call'[s].id = i /\ call'[s].pc = "reply"
          /\ \A t \in Slots : t # s => call'[t] = call[t]
      BY <1>1, <2>2, <3>1 DEF ReplayAborts, Answered, Call
    <3>5. ~Working(s)'
      BY <3>4 DEF Working
    <3> HIDE DEF m
    <3> QED BY <3>1, <3>2, <3>3, <3>4, <3>5, FirstEffect
  <2>3. CASE HubCrash
    <3>1. \A t \in Slots : Working(t)' => Working(t) /\ call'[t] = call[t]
      BY <2>3 DEF HubCrash, Working, AtHub, FreeCall
    <3>2. UNCHANGED <<memo, log>>
      BY <2>3 DEF HubCrash, hubVars
    <3> QED BY <3>1, <3>2, NoNewWork
  <2> QED BY <1>11, <2>1, <2>2, <2>3 DEF HubFault
<1> QED BY <1>6, <1>7, <1>8, <1>9, <1>10, <1>11

(* In the initial state nothing has happened.                              *)
LEMMA OnceStart == Init => OnceInv
<1> SUFFICES ASSUME Init PROVE OnceInv
  OBVIOUS
<1>1. log = << >> /\ Len(log) = 0
  BY DEF Init, HubInit
<1>2. \A s \in Slots : call[s].pc = "free"
  BY DEF Init, BaseInit, FreeCall
<1> QED BY <1>1, <1>2 DEF OnceInv, EffectHasMemo, WorkIsReserved, OneAdmission,
                         AtMostOnce, HasEffect, Working

(* Every step keeps the invariant.                                         *)
LEMMA OnceStep == TypeInv /\ OnceInv /\ [Next]_vars => OnceInv'
<1> SUFFICES ASSUME TypeInv, OnceInv, [Next]_vars PROVE OnceInv'
  OBVIOUS
<1>1. CASE UNCHANGED vars
  BY <1>1, NoNewWork DEF vars, hubVars, Working
<1>2. CASE Next
  BY <1>2, HandlerOnce, OtherOnce DEF Next
<1> QED BY <1>1, <1>2

(* No request takes effect twice: whatever is lost, repeated, delayed or   *)
(* restarted, one request identity has one stream entry, presence write or *)
(* lease at most.                                                          *)
THEOREM EffectsAtMostOnce == Spec => []AtMostOnce
<1>1. OnceInv => AtMostOnce
  BY DEF OnceInv
<1> QED BY <1>1, InitTypes, TypeStep, OnceStart, OnceStep, PTL DEF Spec

-----------------------------------------------------------------------------
(* The inductive invariant, journals first.                                *)

\* The journal recorded an attempt.
Sent(i) == status[i] \in {"attempted", "applied", "superseded", "rejected"}

\* Sequence numbers are given in order.
Numbered ==
    \A c \in Clients, n \in 1 .. MaxSeq : n > last[c] => status[<<c, n>>] = "absent"

\* A request is taken up when all before it are settled.
EarlierSettled ==
    \A c \in Clients, m, n \in 1 .. MaxSeq :
        n < m /\ status[<<c, m>>] \notin {"absent", "queued"} => ~IsPending(<<c, n>>)

\* A flush that calls the hub has recorded the attempt of the request it is at.
HeadIsAttempted ==
    \A c \in Clients, n \in 1 .. MaxSeq :
        sess[c].pc \in {"call", "await"} /\ IsHead(c, n) => status[<<c, n>>] = "attempted"

\* A call under way is of a request whose attempt is recorded.
CallsWereSent == \A s \in Slots : call[s].pc # "free" => Sent(call[s].id)

\* The answer that a flush waits for is about the request it is at.
AwaitsHead ==
    \A c \in Clients :
        sess[c].pc = "await" /\ call[sess[c].slot].pc # "free" =>
            \E n \in 1 .. MaxSeq : IsHead(c, n) /\ call[sess[c].slot].id = <<c, n>>

JournalInv ==
    /\ Numbered /\ EarlierSettled /\ HeadIsAttempted
    /\ CallsWereSent /\ AwaitsHead

-----------------------------------------------------------------------------
HubStep ==
    \/ Tick \/ HubFault \/ Others
    \/ \E s \in Slots : Handler(s) \/ LoseReply(s)

\* The steps of the hub and of the network change no journal; a call that they
\* leave under way was under way, and is of the same request.
LEMMA HubCalls ==
    ASSUME TypeInv, HubStep
    PROVE  /\ UNCHANGED <<req, last, status, sess>>
           /\ \A t \in Slots : call'[t].pc # "free" =>
                  call[t].pc # "free" /\ call'[t].id = call[t].id
<1>1. call \in [Slots -> Call]
  BY DEF TypeInv, TypeOK, BaseTypeOK
<1>2. UNCHANGED <<req, last, status, sess>>
  <2>1. CASE Tick BY <2>1 DEF Tick, clientVars
  <2>2. CASE HubFault
    BY <2>2 DEF HubFault, clientVars, Unavailable, Refuse, ReplayAborts, ClaimFails,
                LoseCall, HubCrash
  <2>3. CASE Others
    BY <2>3 DEF Others, clientVars, DirectPresence, DirectClaim, ReleaseClaim, HashExpires
  <2>4. ASSUME NEW s \in Slots, LoseReply(s) PROVE UNCHANGED <<req, last, status, sess>>
    BY <2>4 DEF LoseReply, clientVars
  <2>5. ASSUME NEW s \in Slots, Handler(s) PROVE UNCHANGED <<req, last, status, sess>>
    BY <2>5 DEF Handler, clientVars, ReplayKnown, ReplayLate, ReplayFuture, ReplayMessage,
                ReplayPresence, ReplayOutdated, ReplayClaim, Persist, AdmitClaim,
                DispatchClaim, FinishClaim
  <2> QED BY <2>1, <2>2, <2>3, <2>4, <2>5 DEF HubStep
<1> DEFINE P == \A t \in Slots : call'[t].pc # "free" =>
                    call[t].pc # "free" /\ call'[t].id = call[t].id
<1>3. ASSUME call' = call PROVE P BY <1>3
<1>4. ASSUME NEW s \in Slots, NEW w, call[s].pc # "free", Answered(s, w) PROVE P
  BY <1>1, <1>4 DEF Answered, Call
<1>5. ASSUME NEW s \in Slots, NEW p, call[s].pc # "free", Proceeds(s, p) PROVE P
  BY <1>1, <1>5 DEF Proceeds, Call
<1>6. ASSUME NEW s \in Slots, call' = [call EXCEPT ![s] = FreeCall] PROVE P
  BY <1>1, <1>6 DEF FreeCall
<1>7. ASSUME Tick PROVE P
  <2>1. call' = call BY <1>7 DEF Tick
  <2> QED BY <1>3, <2>1
<1>8. ASSUME Others PROVE P
  <2>1. call' = call
    BY <1>8 DEF Others, DirectPresence, DirectClaim, ReleaseClaim, HashExpires
  <2> QED BY <1>3, <2>1
<1>9. ASSUME NEW s \in Slots, LoseReply(s) PROVE P BY <1>6, <1>9 DEF LoseReply
<1>10. ASSUME HubFault PROVE P
  <2>1. ASSUME HubCrash PROVE P
    <3>1. FreeCall.pc = "free" BY DEF FreeCall
    <3>2. \A t \in Slots : call'[t] = FreeCall \/ call'[t] = call[t] BY <2>1 DEF HubCrash
    <3> QED BY <3>1, <3>2
  <2>2. ASSUME NEW s \in Slots, Unavailable(s) \/ Refuse(s) \/ ReplayAborts(s) \/ ClaimFails(s)
        PROVE  P
    BY <1>4, <2>2 DEF Unavailable, Refuse, ReplayAborts, Fresh, ClaimFails
  <2>3. ASSUME NEW s \in Slots, LoseCall(s) PROVE P BY <1>6, <2>3 DEF LoseCall
  <2>4. HubCrash \/ \E s \in Slots : \/ Unavailable(s) \/ Refuse(s) \/ ReplayAborts(s)
                                     \/ ClaimFails(s) \/ LoseCall(s)
    BY <1>10 DEF HubFault
  <2> QED BY <2>1, <2>2, <2>3, <2>4
<1>11. ASSUME NEW s \in Slots, Handler(s) PROVE P
  <2>1. CASE ReplayKnown(s) \/ ReplayLate(s) \/ ReplayFuture(s)
    BY <1>4, <1>5, <2>1 DEF ReplayKnown, AnswerOrPersist, ReplayLate, ReplayFuture
  <2>2. CASE ReplayMessage(s) \/ ReplayPresence(s) \/ ReplayOutdated(s) \/ ReplayClaim(s)
    BY <1>4, <1>5, <2>2 DEF ReplayMessage, ReplayPresence, ReplayOutdated, ReplayClaim, Fresh
  <2>3. CASE Persist(s) BY <1>4, <2>3 DEF Persist
  <2>4. CASE AdmitClaim(s) BY <1>1, <2>4 DEF AdmitClaim, Call, P
  <2>5. CASE DispatchClaim(s)
    <3>1. CASE Answered(s, "pending") BY <1>4, <2>5, <3>1 DEF DispatchClaim
    <3>2. CASE ~Answered(s, "pending") BY <1>1, <2>5, <3>2 DEF DispatchClaim, Call, P
    <3> QED BY <3>1, <3>2
  <2>6. CASE FinishClaim(s) BY <1>4, <2>6 DEF FinishClaim
  <2> QED BY <1>11, <2>1, <2>2, <2>3, <2>4, <2>5, <2>6 DEF Handler
<1>12. P BY <1>7, <1>8, <1>9, <1>10, <1>11 DEF HubStep
<1> QED BY <1>2, <1>12 DEF P

\* So they keep what holds of the journals.
LEMMA HubKeepsJournals ==
    ASSUME TypeInv, JournalInv, HubStep
    PROVE  JournalInv'
<1>1. UNCHANGED <<last, status, sess>> BY HubCalls
<1>2. \A t \in Slots : call'[t].pc # "free" =>
          call[t].pc # "free" /\ call'[t].id = call[t].id
  BY HubCalls
<1>3. \A c \in Clients : sess[c].slot \in Slots
  BY DEF TypeInv, TypeOK, ClientTypeOK, Session
<1>4. \A i : IsPending(i)' <=> IsPending(i) BY <1>1 DEF IsPending
<1>5. \A c, n : IsHead(c, n)' <=> IsHead(c, n) BY <1>1 DEF IsHead, Pending, IsPending
<1>6. Numbered' /\ EarlierSettled' BY <1>1, <1>4 DEF JournalInv, Numbered, EarlierSettled
<1>7. HeadIsAttempted' BY <1>1, <1>5 DEF JournalInv, HeadIsAttempted
<1>8. CallsWereSent' BY <1>1, <1>2 DEF JournalInv, CallsWereSent, Sent
<1>9. AwaitsHead'
  <2> SUFFICES ASSUME NEW c \in Clients, sess[c].pc = "await", call'[sess[c].slot].pc # "free"
               PROVE  \E n \in 1 .. MaxSeq : IsHead(c, n)' /\ call'[sess[c].slot].id = <<c, n>>
    BY <1>1 DEF AwaitsHead
  <2>1. PICK n \in 1 .. MaxSeq : IsHead(c, n) /\ call[sess[c].slot].id = <<c, n>>
    BY <1>2, <1>3 DEF JournalInv, AwaitsHead
  <2> QED BY <1>2, <1>3, <1>5, <2>1
<1> QED BY <1>6, <1>7, <1>8, <1>9 DEF JournalInv

\* There is one head, and pairs are told apart by their parts.
LEMMA OneHead ==
    ASSUME NEW c \in Clients, NEW m \in 1 .. MaxSeq, NEW n \in 1 .. MaxSeq,
           IsHead(c, m), IsHead(c, n)
    PROVE  m = n
BY BaseAssumption DEF IsHead

\* Whether a number is pending, and the head, depends on the statuses of its client.
LEMMA SameHead ==
    ASSUME NEW c \in Clients, \A n \in 1 .. MaxSeq : status'[<<c, n>>] = status[<<c, n>>]
    PROVE  /\ \A n \in 1 .. MaxSeq : IsPending(<<c, n>>)' <=> IsPending(<<c, n>>)
           /\ \A n \in 1 .. MaxSeq : IsHead(c, n)' <=> IsHead(c, n)
<1>1. \A n \in 1 .. MaxSeq : IsPending(<<c, n>>)' <=> IsPending(<<c, n>>) BY DEF IsPending
<1>2. Pending(c)' = Pending(c) BY <1>1 DEF Pending
<1> QED BY <1>1, <1>2 DEF IsHead

\* A request is submitted under the next number.
LEMMA EnqueueJournal ==
    ASSUME TypeInv, JournalInv, NEW c \in Clients, NEW r, Enqueue(c, r)
    PROVE  JournalInv'
<1> DEFINE l == last[c] + 1
<1>1. last[c] \in 0 .. MaxSeq /\ last[c] < MaxSeq /\ MaxSeq \in Nat
  BY BaseAssumption DEF TypeInv, TypeOK, ClientTypeOK, Enqueue
<1>2. l \in 1 .. MaxSeq /\ <<c, l>> \in Ids BY <1>1 DEF Ids
<1>3. /\ status \in [Ids -> Statuses] /\ last \in [Clients -> 0 .. MaxSeq]
      /\ sess \in [Clients -> Session]
  BY DEF TypeInv, TypeOK, ClientTypeOK
<1>4. /\ status' = [status EXCEPT ![<<c, l>>] = "queued"]
      /\ last' = [last EXCEPT ![c] = l] /\ call' = call
  BY DEF Enqueue
<1>5. sess'[c].pc = "scan" /\ \A d \in Clients : d # c => sess'[d] = sess[d]
  BY <1>3 DEF Enqueue, StartFlush, Idle
<1>6. status[<<c, l>>] = "absent"
  BY <1>1, <1>2 DEF JournalInv, Numbered
<1>7. \A d \in Clients, n \in 1 .. MaxSeq : <<d, n>> \in Ids BY DEF Ids
<1>8. \A d \in Clients, n \in 1 .. MaxSeq :
          (d # c \/ n # l) => status'[<<d, n>>] = status[<<d, n>>]
  BY <1>3, <1>4, <1>7
<1>9. status'[<<c, l>>] = "queued" BY <1>2, <1>3, <1>4
<1> HIDE DEF l
<1>10. Numbered'
  <2> SUFFICES ASSUME NEW d \in Clients, NEW n \in 1 .. MaxSeq, n > last'[d]
               PROVE  status'[<<d, n>>] = "absent"
    BY DEF Numbered
  <2>1. CASE d = c
    <3>1. n > l /\ n > last[c] BY <1>1, <1>3, <1>4, <2>1 DEF l
    <3> QED BY <1>1, <1>2, <1>8, <2>1, <3>1 DEF JournalInv, Numbered
  <2>2. CASE d # c BY <1>3, <1>4, <1>8, <2>2 DEF JournalInv, Numbered
  <2> QED BY <2>1, <2>2
<1>11. EarlierSettled'
  <2> SUFFICES ASSUME NEW d \in Clients, NEW m \in 1 .. MaxSeq, NEW n \in 1 .. MaxSeq,
                      n < m, status'[<<d, m>>] \notin {"absent", "queued"}
               PROVE  ~IsPending(<<d, n>>)'
    BY DEF EarlierSettled
  <2>1. d # c \/ m # l BY <1>9
  <2>2. status[<<d, m>>] \notin {"absent", "queued"} BY <1>8, <2>1
  <2>3. ~IsPending(<<d, n>>) BY <2>2 DEF JournalInv, EarlierSettled
  <2>4. d # c \/ n # l
    <3>1. d = c => ~(m > last[c]) BY <2>2 DEF JournalInv, Numbered
    <3> QED BY <1>1, <3>1 DEF l
  <2> QED BY <1>8, <2>3, <2>4 DEF IsPending
<1>12. \A d \in Clients, n \in 1 .. MaxSeq : d # c => (IsHead(d, n)' <=> IsHead(d, n))
  BY <1>8, SameHead
<1>13. HeadIsAttempted'
  BY <1>5, <1>8, <1>12 DEF JournalInv, HeadIsAttempted
<1>14. CallsWereSent'
  <2> SUFFICES ASSUME NEW s \in Slots, call[s].pc # "free" PROVE Sent(call[s].id)'
    BY <1>4 DEF CallsWereSent
  <2>1. Sent(call[s].id) /\ call[s].id \in Ids BY CallTypes DEF JournalInv, CallsWereSent
  <2>2. call[s].id # <<c, l>> BY <1>6, <2>1 DEF Sent
  <2>3. status'[call[s].id] = status[call[s].id] BY <1>3, <1>4, <2>1, <2>2
  <2> QED BY <1>4, <2>1, <2>3 DEF Sent
<1>15. AwaitsHead'
  <2> SUFFICES ASSUME NEW d \in Clients, sess'[d].pc = "await", call'[sess'[d].slot].pc # "free"
               PROVE  \E n \in 1 .. MaxSeq : IsHead(d, n)' /\ call'[sess'[d].slot].id = <<d, n>>
    BY DEF AwaitsHead
  <2>1. d # c /\ sess'[d] = sess[d] BY <1>5
  <2> QED BY <1>4, <1>12, <2>1 DEF JournalInv, AwaitsHead
<1> QED BY <1>10, <1>11, <1>13, <1>14, <1>15 DEF JournalInv

\* The status of the request that a flush is at changes.
LEMMA SettleJournal ==
    ASSUME TypeInv, JournalInv, NEW c \in Clients, NEW n \in 1 .. MaxSeq,
           NEW v \in {"attempted"} \cup Settled,
           IsHead(c, n), status' = [status EXCEPT ![<<c, n>>] = v], last' = last,
           status[<<c, n>>] = "attempted" => v # "expired",
           sess'[c].pc \in {"idle", "scan", "call"}, sess'[c].pc = "call" => v = "attempted",
           \A d \in Clients : d # c => sess'[d] = sess[d],
           \A t \in Slots : call'[t].pc # "free" => call'[t] = call[t]
    PROVE  JournalInv'
<1>1. /\ status \in [Ids -> Statuses] /\ sess \in [Clients -> Session] /\ MaxSeq \in Nat
  BY BaseAssumption DEF TypeInv, TypeOK, ClientTypeOK
<1>2. \A d \in Clients, k \in 1 .. MaxSeq : <<d, k>> \in Ids BY DEF Ids
<1>3. /\ status'[<<c, n>>] = v
      /\ \A d \in Clients, k \in 1 .. MaxSeq :
            (d # c \/ k # n) => status'[<<d, k>>] = status[<<d, k>>]
  BY <1>1, <1>2
<1>4. IsPending(<<c, n>>) /\ \A m \in 1 .. MaxSeq : m < n => ~IsPending(<<c, m>>)
  BY <1>1 DEF IsHead, Pending
<1>5. n <= last[c]
  <2>1. status[<<c, n>>] # "absent" BY <1>4 DEF IsPending
  <2> QED BY <1>1, <2>1 DEF JournalInv, Numbered, TypeInv, TypeOK, ClientTypeOK
<1>6. Numbered'
  <2> SUFFICES ASSUME NEW d \in Clients, NEW k \in 1 .. MaxSeq, k > last[d]
               PROVE  status'[<<d, k>>] = "absent"
    BY DEF Numbered
  <2>1. d # c \/ k # n
    <3>1. last[c] \in 0 .. MaxSeq BY DEF TypeInv, TypeOK, ClientTypeOK
    <3> QED BY <1>1, <1>5, <3>1
  <2> QED BY <1>3, <2>1 DEF JournalInv, Numbered
<1>7. EarlierSettled'
  <2> SUFFICES ASSUME NEW d \in Clients, NEW m \in 1 .. MaxSeq, NEW k \in 1 .. MaxSeq,
                      k < m, status'[<<d, m>>] \notin {"absent", "queued"}
               PROVE  ~IsPending(<<d, k>>)'
    BY DEF EarlierSettled
  <2>1. CASE d = c /\ m = n
    <3>1. k # n /\ ~IsPending(<<c, k>>) BY <1>1, <1>4, <2>1
    <3> QED BY <1>3, <2>1, <3>1 DEF IsPending
  <2>2. CASE d # c \/ m # n
    <3>1. ~IsPending(<<d, k>>) BY <1>3, <2>2 DEF JournalInv, EarlierSettled
    <3>2. d # c \/ k # n BY <1>4, <3>1
    <3> QED BY <1>3, <3>1, <3>2 DEF IsPending
  <2> QED BY <2>1, <2>2
<1>8. \A d \in Clients, k \in 1 .. MaxSeq : d # c => (IsHead(d, k)' <=> IsHead(d, k))
  BY <1>3, SameHead
<1>9. HeadIsAttempted'
  <2> SUFFICES ASSUME NEW d \in Clients, NEW k \in 1 .. MaxSeq,
                      sess'[d].pc \in {"call", "await"}, IsHead(d, k)'
               PROVE  status'[<<d, k>>] = "attempted"
    BY DEF HeadIsAttempted
  <2>1. CASE d = c
    <3>1. v = "attempted" BY <2>1
    <3>2. IsPending(<<c, n>>)' BY <1>3, <3>1 DEF IsPending
    <3>3. k <= n BY <2>1, <3>2 DEF IsHead, Pending
    <3>4. IsPending(<<c, k>>)' BY <2>1 DEF IsHead, Pending
    <3>5. k = n
      <4>1. k # n => IsPending(<<c, k>>) BY <1>3, <3>4 DEF IsPending
      <4> QED BY <1>1, <1>4, <3>3, <4>1
    <3> QED BY <1>3, <2>1, <3>1, <3>5
  <2>2. CASE d # c BY <1>3, <1>8, <2>2 DEF JournalInv, HeadIsAttempted
  <2> QED BY <2>1, <2>2
<1>10. CallsWereSent'
  <2> SUFFICES ASSUME NEW s \in Slots, call'[s].pc # "free" PROVE Sent(call[s].id)'
    BY DEF CallsWereSent, Sent
  <2>1. call'[s] = call[s] OBVIOUS
  <2>2. Sent(call[s].id) /\ call[s].id \in Ids BY <2>1, CallTypes DEF JournalInv, CallsWereSent
  <2>3. CASE call[s].id = <<c, n>>
    <3>1. status[<<c, n>>] = "attempted" BY <1>4, <2>2, <2>3 DEF IsPending, Sent
    <3>2. v \in {"attempted", "applied", "superseded", "rejected"} BY <3>1 DEF Settled
    <3> QED BY <1>3, <2>1, <2>3, <3>2 DEF Sent
  <2>4. CASE call[s].id # <<c, n>>
    <3>1. status'[call[s].id] = status[call[s].id] BY <1>1, <2>2, <2>4
    <3> QED BY <2>1, <2>2, <3>1 DEF Sent
  <2> QED BY <2>3, <2>4
<1>11. AwaitsHead'
  <2> SUFFICES ASSUME NEW d \in Clients, sess'[d].pc = "await", call'[sess'[d].slot].pc # "free"
               PROVE  \E k \in 1 .. MaxSeq : IsHead(d, k)' /\ call'[sess'[d].slot].id = <<d, k>>
    BY DEF AwaitsHead
  <2>1. d # c /\ sess'[d] = sess[d] OBVIOUS
  <2>2. sess[d].slot \in Slots BY <1>1 DEF Session
  <2>3. call'[sess[d].slot] = call[sess[d].slot] BY <2>1, <2>2
  <2> QED BY <1>8, <2>1, <2>3 DEF JournalInv, AwaitsHead
<1> QED BY <1>6, <1>7, <1>9, <1>10, <1>11 DEF JournalInv

\* A flush begins, goes on, or ends, and no status changes.
LEMMA SessionJournal ==
    ASSUME TypeInv, JournalInv, NEW c \in Clients, status' = status, last' = last,
           sess'[c].pc \in {"idle", "scan", "call"}, sess'[c].pc = "call" => sess[c].pc = "await",
           \A d \in Clients : d # c => sess'[d] = sess[d],
           \A t \in Slots : call'[t].pc # "free" => call'[t] = call[t]
    PROVE  JournalInv'
<1>1. \A d \in Clients, n \in 1 .. MaxSeq : /\ (IsHead(d, n)' <=> IsHead(d, n))
                                           /\ (IsPending(<<d, n>>)' <=> IsPending(<<d, n>>))
  BY SameHead
<1>2. Numbered' BY DEF JournalInv, Numbered
<1>3. EarlierSettled' BY <1>1 DEF JournalInv, EarlierSettled
<1>4. HeadIsAttempted' BY <1>1 DEF JournalInv, HeadIsAttempted
<1>5. CallsWereSent' BY DEF JournalInv, CallsWereSent, Sent
<1>6. AwaitsHead'
  <2> SUFFICES ASSUME NEW d \in Clients, sess'[d].pc = "await", call'[sess'[d].slot].pc # "free"
               PROVE  \E k \in 1 .. MaxSeq : IsHead(d, k)' /\ call'[sess'[d].slot].id = <<d, k>>
    BY DEF AwaitsHead
  <2>1. d # c /\ sess'[d] = sess[d] OBVIOUS
  <2>2. sess[d].slot \in Slots BY DEF TypeInv, TypeOK, ClientTypeOK, Session
  <2>3. call'[sess[d].slot] = call[sess[d].slot] BY <2>1, <2>2
  <2>4. PICK k \in 1 .. MaxSeq : IsHead(d, k) /\ call[sess[d].slot].id = <<d, k>>
    BY <2>1, <2>3 DEF JournalInv, AwaitsHead
  <2> QED BY <1>1, <2>1, <2>3, <2>4
<1> QED BY <1>2, <1>3, <1>4, <1>5, <1>6 DEF JournalInv

\* The attempt is recorded when the request is posted, in a slot of its own.
LEMMA CallJournal ==
    ASSUME TypeInv, JournalInv, NEW c \in Clients, NEW n \in 1 .. MaxSeq, NEW s \in Slots,
           CallRoute(c, n, s)
    PROVE  JournalInv'
<1>1. /\ status' = status /\ last' = last /\ sess[c].pc = "call" /\ IsHead(c, n)
      /\ ~Awaited(s)
  BY DEF CallRoute, FirstUsable, Usable
<1>2. call \in [Slots -> Call] /\ sess \in [Clients -> Session]
  BY DEF TypeInv, TypeOK, BaseTypeOK, ClientTypeOK
<1>3. call'[s].id = <<c, n>> /\ \A t \in Slots : t # s => call'[t] = call[t]
  BY <1>2 DEF CallRoute, FreeCall
<1>4. sess'[c].slot = s /\ \A d \in Clients : d # c => sess'[d] = sess[d]
  BY <1>2 DEF CallRoute, Session
<1>5. \A d \in Clients, k \in 1 .. MaxSeq : /\ (IsHead(d, k)' <=> IsHead(d, k))
                                           /\ (IsPending(<<d, k>>)' <=> IsPending(<<d, k>>))
  BY <1>1, SameHead
<1>6. Numbered' BY <1>1 DEF JournalInv, Numbered
<1>7. EarlierSettled' BY <1>1, <1>5 DEF JournalInv, EarlierSettled
<1>8. HeadIsAttempted' BY <1>1, <1>4, <1>5 DEF JournalInv, HeadIsAttempted
<1>9. CallsWereSent'
  <2>1. status[<<c, n>>] = "attempted" BY <1>1 DEF JournalInv, HeadIsAttempted
  <2> QED BY <1>1, <1>3, <2>1 DEF JournalInv, CallsWereSent, Sent
<1>10. AwaitsHead'
  <2> SUFFICES ASSUME NEW d \in Clients, sess'[d].pc = "await", call'[sess'[d].slot].pc # "free"
               PROVE  \E k \in 1 .. MaxSeq : IsHead(d, k)' /\ call'[sess'[d].slot].id = <<d, k>>
    BY DEF AwaitsHead
  <2>1. CASE d = c BY <1>1, <1>3, <1>4, <1>5, <2>1
  <2>2. CASE d # c
    <3>1. sess'[d] = sess[d] /\ sess[d].slot \in Slots BY <1>2, <1>4, <2>2 DEF Session
    <3>2. sess[d].slot # s BY <1>1, <3>1 DEF Awaited
    <3> QED BY <1>3, <1>5, <3>1, <3>2 DEF JournalInv, AwaitsHead
  <2> QED BY <2>1, <2>2
<1> QED BY <1>6, <1>7, <1>8, <1>9, <1>10 DEF JournalInv

\* What a step of a flush does to the sessions.
LEMMA SessionSteps ==
    ASSUME TypeInv, NEW c \in Clients
    PROVE  /\ \A t : StartFlush(c, t) =>
                  sess'[c].pc = "scan" /\ \A d \in Clients : d # c => sess'[d] = sess[d]
           /\ EndFlush(c) =>
                  sess'[c].pc = "idle" /\ \A d \in Clients : d # c => sess'[d] = sess[d]
           /\ NextRequest(c) =>
                  sess'[c].pc = "scan" /\ \A d \in Clients : d # c => sess'[d] = sess[d]
           /\ NextRoute(c) =>
                  /\ sess'[c].pc \in {"call", "idle"}
                  /\ \A d \in Clients : d # c => sess'[d] = sess[d]
<1>1. sess \in [Clients -> Session] /\ sess[c] \in Session
  BY DEF TypeInv, TypeOK, ClientTypeOK
<1>2. ASSUME NEW t, StartFlush(c, t)
      PROVE  sess'[c].pc = "scan" /\ \A d \in Clients : d # c => sess'[d] = sess[d]
  BY <1>1, <1>2 DEF StartFlush, Idle
<1>3. ASSUME EndFlush(c)
      PROVE  sess'[c].pc = "idle" /\ \A d \in Clients : d # c => sess'[d] = sess[d]
  BY <1>1, <1>3 DEF EndFlush, Idle
<1>4. ASSUME NextRequest(c)
      PROVE  sess'[c].pc = "scan" /\ \A d \in Clients : d # c => sess'[d] = sess[d]
  BY <1>1, <1>4 DEF NextRequest, Idle
<1>5. ASSUME NextRoute(c)
      PROVE  /\ sess'[c].pc \in {"call", "idle"}
             /\ \A d \in Clients : d # c => sess'[d] = sess[d]
  BY <1>1, <1>3, <1>5 DEF NextRoute, Session
<1> QED BY <1>2, <1>3, <1>4, <1>5

\* The answer a flush receives settles its request, or leaves it pending.
LEMMA ReceiveCases ==
    ASSUME TypeInv, JournalInv, NEW c \in Clients, NEW n \in 1 .. MaxSeq, Receive(c, n)
    PROVE  /\ call[sess[c].slot].id = <<c, n>> /\ status[<<c, n>>] = "attempted"
           /\ sess[c].slot \in Slots /\ call[sess[c].slot].pc = "reply" /\ IsHead(c, n)
           /\ \A t \in Slots : call'[t].pc # "free" => call'[t] = call[t]
           /\ \/ status' = status
              \/ /\ call[sess[c].slot].answer \in {"applied", "superseded"}
                 /\ status' = [status EXCEPT ![<<c, n>>] = call[sess[c].slot].answer]
              \/ status' = [status EXCEPT ![<<c, n>>] = "rejected"]
<1>1. /\ sess[c].pc = "await" /\ IsHead(c, n) /\ call[sess[c].slot].pc = "reply"
      /\ call' = [call EXCEPT ![sess[c].slot] = FreeCall]
  BY DEF Receive
<1>2. sess[c].slot \in Slots /\ call \in [Slots -> Call]
  BY DEF TypeInv, TypeOK, BaseTypeOK, ClientTypeOK, Session
<1>3. call[sess[c].slot].id = <<c, n>>
  <2>1. PICK k \in 1 .. MaxSeq : IsHead(c, k) /\ call[sess[c].slot].id = <<c, k>>
    BY <1>1 DEF JournalInv, AwaitsHead
  <2>2. k = n BY <1>1, <2>1, OneHead
  <2> QED BY <2>1, <2>2
<1>4. status[<<c, n>>] = "attempted" BY <1>1 DEF JournalInv, HeadIsAttempted
<1>5. \A t \in Slots : call'[t].pc # "free" => call'[t] = call[t]
  BY <1>1, <1>2 DEF FreeCall
<1>6. \/ status' = status
      \/ /\ call[sess[c].slot].answer \in {"applied", "superseded"}
         /\ status' = [status EXCEPT ![<<c, n>>] = call[sess[c].slot].answer]
      \/ status' = [status EXCEPT ![<<c, n>>] = "rejected"]
  BY DEF Receive, Settle
<1> QED BY <1>1, <1>2, <1>3, <1>4, <1>5, <1>6

\* The steps of the clients keep what holds of the journals.
LEMMA ClientKeepsJournals ==
    ASSUME TypeInv, JournalInv, NEW c \in Clients, Submit(c) \/ Flush(c) \/ Crash(c)
    PROVE  JournalInv'
<1>1. CASE Submit(c)
  <2>1. PICK r : Enqueue(c, r)
    BY <1>1 DEF Submit, SubmitSend, SubmitAck, SubmitPresence, SubmitClaim
  <2> QED BY <2>1, EnqueueJournal
<1>2. CASE Crash(c)
  <2>1. /\ status' = status /\ last' = last /\ call' = call /\ EndFlush(c)
    BY <1>2 DEF Crash, ClientCrash
  <2>2. sess'[c].pc = "idle" /\ \A d \in Clients : d # c => sess'[d] = sess[d]
    BY <2>1, SessionSteps
  <2> QED BY <2>1, <2>2, SessionJournal
<1>3. CASE FlushPending(c)
  <2>1. status' = status /\ last' = last /\ call' = call /\ StartFlush(c, ClientNow(c))
    BY <1>3 DEF FlushPending
  <2>2. sess'[c].pc = "scan" /\ \A d \in Clients : d # c => sess'[d] = sess[d]
    BY <2>1, SessionSteps
  <2> QED BY <2>1, <2>2, SessionJournal
<1>4. CASE FinishFlush(c)
  <2>1. status' = status /\ last' = last /\ call' = call /\ EndFlush(c)
    BY <1>4 DEF FinishFlush
  <2>2. sess'[c].pc = "idle" /\ \A d \in Clients : d # c => sess'[d] = sess[d]
    BY <2>1, SessionSteps
  <2> QED BY <2>1, <2>2, SessionJournal
<1>5. CASE Timeout(c)
  <2>1. /\ status' = status /\ last' = last /\ call' = call /\ NextRoute(c)
        /\ sess[c].pc = "await"
    BY <1>5 DEF Timeout
  <2>2. sess'[c].pc \in {"call", "idle"} /\ \A d \in Clients : d # c => sess'[d] = sess[d]
    BY <2>1, SessionSteps
  <2> QED BY <2>1, <2>2, SessionJournal
<1>6. ASSUME NEW n \in 1 .. MaxSeq, ExpireLocally(c, n) PROVE JournalInv'
  <2>1. /\ status' = [status EXCEPT ![<<c, n>>] = "expired"] /\ last' = last /\ call' = call
        /\ NextRequest(c) /\ IsHead(c, n) /\ status[<<c, n>>] = "queued"
    BY <1>6 DEF ExpireLocally, Settle, Scanning, MayExpire
  <2>2. sess'[c].pc = "scan" /\ \A d \in Clients : d # c => sess'[d] = sess[d]
    BY <2>1, SessionSteps
  <2>3. "expired" \in {"attempted"} \cup Settled BY DEF Settled
  <2> QED BY <2>1, <2>2, <2>3, SettleJournal
<1>7. ASSUME NEW n \in 1 .. MaxSeq, SupersedeLocally(c, n) PROVE JournalInv'
  <2>1. /\ status' = [status EXCEPT ![<<c, n>>] = "superseded"] /\ last' = last /\ call' = call
        /\ NextRequest(c) /\ IsHead(c, n)
    BY <1>7 DEF SupersedeLocally, Settle, Scanning
  <2>2. sess'[c].pc = "scan" /\ \A d \in Clients : d # c => sess'[d] = sess[d]
    BY <2>1, SessionSteps
  <2>3. "superseded" \in {"attempted"} \cup Settled BY DEF Settled
  <2> QED BY <2>1, <2>2, <2>3, SettleJournal
<1>8. ASSUME NEW n \in 1 .. MaxSeq, MarkAttempted(c, n) PROVE JournalInv'
  <2>1. /\ status' = [status EXCEPT ![<<c, n>>] = "attempted"] /\ last' = last /\ call' = call
        /\ IsHead(c, n)
    BY <1>8 DEF MarkAttempted, Scanning
  <2>2. sess'[c].pc = "call" /\ \A d \in Clients : d # c => sess'[d] = sess[d]
    BY <1>8 DEF MarkAttempted, TypeInv, TypeOK, ClientTypeOK, Session
  <2> QED BY <2>1, <2>2, SettleJournal
<1>9. ASSUME NEW n \in 1 .. MaxSeq, Receive(c, n) PROVE JournalInv'
  <2>1. /\ status[<<c, n>>] = "attempted" /\ IsHead(c, n)
        /\ \A t \in Slots : call'[t].pc # "free" => call'[t] = call[t]
    BY <1>9, ReceiveCases
  <2>2. /\ last' = last /\ sess[c].pc = "await"
        /\ \/ NextRequest(c) /\ \E v \in {"applied", "superseded"} :
                  status' = [status EXCEPT ![<<c, n>>] = v]
           \/ EndFlush(c) /\ status' = [status EXCEPT ![<<c, n>>] = "rejected"]
           \/ (EndFlush(c) \/ NextRoute(c)) /\ status' = status
    BY <1>9 DEF Receive, Settle
  <2>3. {"applied", "superseded", "rejected"} \subseteq {"attempted"} \cup Settled BY DEF Settled
  <2>4. ASSUME NextRequest(c), NEW v \in {"applied", "superseded"},
               status' = [status EXCEPT ![<<c, n>>] = v]
        PROVE  JournalInv'
    <3>1. sess'[c].pc = "scan" /\ \A d \in Clients : d # c => sess'[d] = sess[d]
      BY <2>4, SessionSteps
    <3> QED BY <2>1, <2>2, <2>3, <2>4, <3>1, SettleJournal
  <2>5. CASE EndFlush(c) /\ status' = [status EXCEPT ![<<c, n>>] = "rejected"]
    <3>1. sess'[c].pc = "idle" /\ \A d \in Clients : d # c => sess'[d] = sess[d]
      BY <2>5, SessionSteps
    <3> QED BY <2>1, <2>2, <2>3, <2>5, <3>1, SettleJournal
  <2>6. CASE (EndFlush(c) \/ NextRoute(c)) /\ status' = status
    <3>1. sess'[c].pc \in {"idle", "call"} /\ \A d \in Clients : d # c => sess'[d] = sess[d]
      BY <2>6, SessionSteps
    <3> QED BY <2>1, <2>2, <2>6, <3>1, SessionJournal
  <2> QED BY <2>2, <2>4, <2>5, <2>6
<1> QED BY <1>1, <1>2, <1>3, <1>4, <1>5, <1>6, <1>7, <1>8, <1>9, CallJournal DEF Flush

\* The journals are in order in every reachable state.
LEMMA JournalStep == TypeInv /\ JournalInv /\ [Next]_vars => JournalInv'
<1> SUFFICES ASSUME TypeInv, JournalInv, [Next]_vars PROVE JournalInv' OBVIOUS
<1>1. CASE UNCHANGED vars
  <2>1. status' = status /\ last' = last /\ sess' = sess /\ call' = call
    BY <1>1 DEF vars, clientVars
  <2>2. \A c \in Clients, n \in 1 .. MaxSeq : /\ (IsHead(c, n)' <=> IsHead(c, n))
                                             /\ (IsPending(<<c, n>>)' <=> IsPending(<<c, n>>))
    BY <2>1, SameHead
  <2>3. Numbered' BY <2>1 DEF JournalInv, Numbered
  <2>4. EarlierSettled' BY <2>1, <2>2 DEF JournalInv, EarlierSettled
  <2>5. HeadIsAttempted' BY <2>1, <2>2 DEF JournalInv, HeadIsAttempted
  <2>6. CallsWereSent' BY <2>1 DEF JournalInv, CallsWereSent, Sent
  <2>7. AwaitsHead' BY <2>1, <2>2 DEF JournalInv, AwaitsHead
  <2> QED BY <2>3, <2>4, <2>5, <2>6, <2>7 DEF JournalInv
<1>2. CASE HubStep BY <1>2, HubKeepsJournals
<1>3. ASSUME NEW c \in Clients, Submit(c) \/ Flush(c) \/ Crash(c) PROVE JournalInv'
  BY <1>3, ClientKeepsJournals
<1> QED BY <1>1, <1>2, <1>3 DEF Next, HubStep

\* At the start nothing is queued, called or waited for.
LEMMA JournalStart == Init => JournalInv
<1> SUFFICES ASSUME Init PROVE JournalInv OBVIOUS
<1>1. \A c \in Clients, n \in 1 .. MaxSeq : status[<<c, n>>] = "absent"
  <2>1. \A c \in Clients, n \in 1 .. MaxSeq : <<c, n>> \in Ids BY DEF Ids
  <2> QED BY <2>1 DEF Init, ClientInit
<1>2. (\A s \in Slots : call[s].pc = "free") /\ (\A c \in Clients : sess[c].pc = "idle")
  BY DEF Init, BaseInit, ClientInit, FreeCall, Idle
<1> QED BY <1>1, <1>2
        DEF JournalInv, Numbered, EarlierSettled, HeadIsAttempted, CallsWereSent, AwaitsHead

-----------------------------------------------------------------------------
(* What the hub has done, and what calls and memos say of it.              *)

\* No later call can give the request i its first effect.
Closed(i) == memo[i].state # "none" \/ Expired(i, now)

\* What the call k says of its request is true.
CallTold(k) ==
    LET i == k.id
    IN  /\ k.pc \in {"admit", "dispatch", "finish"} => IsClaim(i)
        /\ k.pc = "persist" => ~IsClaim(i) /\ HasEffect(i)
        /\ k.pc = "finish" /\ k.answer \in {"applied", "contested"} => HasEffect(i)
        /\ k.pc = "reply" /\ k.answer = "applied" =>
               HasEffect(i) /\ (Postgres /\ ~IsClaim(i) => i \in pgRows)
        /\ k.pc = "reply" /\ k.answer = "superseded" /\ ~IsClaim(i) =>
               ~HasEffect(i) /\ Closed(i)
        /\ k.pc = "sent" /\ status[i] = "superseded" /\ ~IsClaim(i) => Closed(i)
CallsTold == \A s \in Slots : CallTold(call[s])

\* What the memo says of its request is true.
MemoTold ==
    \A i \in Ids :
        /\ memo[i].state = "applied" <=> memo[i].answer # "none"
        /\ memo[i].answer = "applied" => HasEffect(i)
        /\ memo[i].answer = "superseded" /\ ~IsClaim(i) => ~HasEffect(i)
        /\ memo[i].answer = "applied" /\ IsClaim(i) => memo[i].until <= memo[i].lease

\* An ack names a message that was delivered.
AcksAreOfSent == \A i \in Ids : req[i].op = "ack" => HasEffect(req[i].target)

ToldInv ==
    /\ CallsTold /\ MemoTold /\ AcksAreOfSent
    /\ UnattemptedHasNoEffect /\ AppliedIsDurable /\ InSequence /\ AckStaysAcked

-----------------------------------------------------------------------------
(* The shapes of a step of the hub.                                        *)

\* No memo and no effect is written.
Quiet ==
    /\ memo' = memo /\ log' = log /\ ackDue' = ackDue /\ pgRows \subseteq pgRows'
    /\ now' \in {now, now + 1}

\* The script sees the request of slot s for the first time, and writes its
\* memo m.
FirstSight(s, m) ==
    LET i == call[s].id
    IN  /\ Fresh(s) /\ now' = now /\ pgRows' = pgRows
        /\ memo' = [memo EXCEPT ![i] = m]
        /\ \/ m.state = "applied" /\ m.answer = "applied" /\ log' = Append(log, i)
              /\ ~IsClaim(i) /\ (req[i].op = "ack" => ackDue' = AckDueAfter(i))
           \/ m.state = "applied" /\ m.answer = "superseded" /\ log' = log /\ IsPresence(i)
           \/ m.state = "pending" /\ m.answer = "none" /\ log' = log
           \/ m.state = "pending" /\ m.answer = "none" /\ log' = Append(log, i) /\ ~IsClaim(i)
        /\ \/ ackDue' = ackDue
           \/ req[i].op \in {"send", "ack"} /\ ackDue' = AckDueAfter(i)

\* A step of the hub writes nothing, or sees a request for the first time, or
\* takes or finishes a lease.
LEMMA HubShape ==
    ASSUME TypeInv, HubStep
    PROVE  \/ Quiet
           \/ \E s \in Slots, m \in Memo : FirstSight(s, m)
           \/ \E s \in Slots : DispatchClaim(s) \/ FinishClaim(s)
<1>1. now \in Nat /\ memo \in [Ids -> Memo] BY DEF TypeInv, TypeOK, BaseTypeOK, HubTypeOK
<1>2. CASE Tick BY <1>2 DEF Tick, Quiet
<1>3. CASE Others
  BY <1>3 DEF Others, DirectPresence, DirectClaim, ReleaseClaim, HashExpires, Quiet
<1>4. ASSUME NEW s \in Slots, LoseReply(s) PROVE Quiet BY <1>4 DEF LoseReply, hubVars, Quiet
<1>5. ASSUME NEW s \in Slots,
             \/ Unavailable(s) \/ Refuse(s) \/ ClaimFails(s) \/ LoseCall(s)
             \/ ReplayKnown(s) \/ ReplayLate(s) \/ ReplayFuture(s) \/ AdmitClaim(s)
      PROVE  Quiet
  BY <1>5 DEF Unavailable, Refuse, ClaimFails, LoseCall, ReplayKnown, ReplayLate,
              ReplayFuture, AdmitClaim, hubVars, Quiet
<1>6. ASSUME NEW s \in Slots, Persist(s) PROVE Quiet
  BY <1>6 DEF Persist, Quiet
<1>7. CASE HubCrash BY <1>7 DEF HubCrash, hubVars, Quiet
<1>8. ASSUME NEW s \in Slots,
             \/ ReplayMessage(s) \/ ReplayPresence(s) \/ ReplayOutdated(s)
             \/ ReplayClaim(s) \/ ReplayAborts(s)
      PROVE  \E m \in Memo : FirstSight(s, m)
  <2> DEFINE i == call[s].id
             done == [state |-> "applied", answer |-> "applied", until |-> 0, lease |-> 0]
             old == [state |-> "applied", answer |-> "superseded", until |-> 0, lease |-> 0]
             kept == [NoMemo EXCEPT !.state = "pending"]
  <2>1. /\ done \in Memo /\ done.state = "applied" /\ done.answer = "applied"
        /\ old \in Memo /\ old.state = "applied" /\ old.answer = "superseded"
        /\ kept \in Memo /\ kept.state = "pending" /\ kept.answer = "none"
    BY DEF Memo, NoMemo
  <2>2. /\ Completed(i, "applied") = [memo EXCEPT ![i] = done]
        /\ Completed(i, "superseded") = [memo EXCEPT ![i] = old]
        /\ Reserved(i) = [memo EXCEPT ![i] = kept]
    BY DEF Completed, Reserved
  <2> HIDE DEF done, old, kept
  <2>3. CASE ReplayMessage(s)
    BY <2>1, <2>2, <2>3 DEF ReplayMessage, FirstSight, IsClaim
  <2>4. CASE ReplayPresence(s)
    BY <2>1, <2>2, <2>4 DEF ReplayPresence, FirstSight, IsClaim, IsPresence
  <2>5. CASE ReplayOutdated(s) BY <2>1, <2>2, <2>5 DEF ReplayOutdated, FirstSight
  <2>6. CASE ReplayClaim(s) BY <2>1, <2>2, <2>6 DEF ReplayClaim, FirstSight
  <2>7. CASE ReplayAborts(s)
    <3>1. req[i].op \in Operations BY CallTypes DEF Request
    <3>2. ~IsPresence(i) /\ ~IsClaim(i) => req[i].op \in {"send", "ack"}
      BY <3>1 DEF Operations, IsPresence, IsClaim
    <3>3. FirstSight(s, kept)
      BY <2>1, <2>2, <2>7, <3>2 DEF ReplayAborts, FirstSight
    <3> QED BY <2>1, <3>3
  <2> QED BY <1>8, <2>3, <2>4, <2>5, <2>6, <2>7
<1>9. ASSUME NEW s \in Slots, Handler(s)
      PROVE  Quiet \/ (\E m \in Memo : FirstSight(s, m)) \/ DispatchClaim(s) \/ FinishClaim(s)
  BY <1>5, <1>6, <1>8, <1>9 DEF Handler
<1>10. CASE HubFault BY <1>5, <1>7, <1>8, <1>10 DEF HubFault
<1> QED BY <1>2, <1>3, <1>4, <1>9, <1>10 DEF HubStep

\* What has happened at the hub stays, and a message or presence that is closed
\* takes no effect any more.  What is written is written for a call under way.
LEMMA HubGrows ==
    ASSUME TypeInv, OnceInv, CallsTold, HubStep, NEW i \in Ids
    PROVE  /\ HasEffect(i) => HasEffect(i)'
           /\ i \in pgRows => i \in pgRows'
           /\ Closed(i) => Closed(i)'
           /\ HasEffect(i)' /\ ~HasEffect(i) => IsClaim(i) \/ ~Closed(i)
           /\ (HasEffect(i)' /\ ~HasEffect(i)) \/ memo'[i] # memo[i] =>
                  \E s \in Slots : call[s].id = i /\ call[s].pc # "free"
<1>1. /\ log \in Seq(Ids) /\ memo \in [Ids -> Memo] /\ now \in Nat
      /\ req[i].expires \in Int
  BY DEF TypeInv, TypeOK, BaseTypeOK, HubTypeOK, Request
<1>2. req' = req BY HubCalls
<1>3. \A t : t \in {now, now + 1} => (Expired(i, now) => Expired(i, t))
  BY <1>1 DEF Expired
<1>4. Expired(i, now)' <=> Expired(i, now') BY <1>2 DEF Expired
<1>5. CASE Quiet
  <2>1. HasEffect(i)' <=> HasEffect(i) BY <1>5 DEF Quiet, HasEffect
  <2>2. memo' = memo /\ (i \in pgRows => i \in pgRows') BY <1>5 DEF Quiet
  <2>3. now' \in {now, now + 1} BY <1>5 DEF Quiet
  <2>4. Closed(i) => Closed(i)' BY <1>3, <1>4, <2>2, <2>3 DEF Closed
  <2> QED BY <2>1, <2>2, <2>4
<1>6. ASSUME NEW s \in Slots, NEW m \in Memo, FirstSight(s, m)
      PROVE  /\ HasEffect(i) => HasEffect(i)'
             /\ i \in pgRows => i \in pgRows'
             /\ Closed(i) => Closed(i)'
             /\ HasEffect(i)' /\ ~HasEffect(i) => IsClaim(i) \/ ~Closed(i)
             /\ (HasEffect(i)' /\ ~HasEffect(i)) \/ memo'[i] # memo[i] =>
                    \E t \in Slots : call[t].id = i /\ call[t].pc # "free"
  <2>1. PICK j \in Ids : call[s].id = j BY CallTypes
  <2>2. /\ Fresh(s) /\ now' = now /\ pgRows' = pgRows /\ m.state # "none"
        /\ memo' = [memo EXCEPT ![j] = m] /\ (log' = log \/ log' = Append(log, j))
    BY <1>6, <2>1 DEF FirstSight
  <2>3. call[s].pc # "free" /\ ~Closed(j)
    BY <2>1, <2>2, FreshHasNoMemo DEF Fresh, Closed
  <2>4. (HasEffect(i) => HasEffect(i)') /\ (HasEffect(i)' /\ ~HasEffect(i) => i = j)
    <3>1. CASE log' = log BY <3>1 DEF HasEffect
    <3>2. CASE log' = Append(log, j) BY <1>1, <3>2, AppendEffect
    <3> QED BY <2>2, <3>1, <3>2
  <2>5. Closed(i) => Closed(i)'
    <3>1. memo'[i].state = "none" => memo[i].state = "none" BY <1>1, <2>2
    <3> QED BY <1>3, <1>4, <2>2, <3>1 DEF Closed
  <2>6. memo'[i] # memo[i] => i = j BY <1>1, <2>2
  <2> QED BY <2>1, <2>2, <2>3, <2>4, <2>5, <2>6
<1>7. ASSUME NEW s \in Slots, DispatchClaim(s)
      PROVE  /\ HasEffect(i) => HasEffect(i)'
             /\ i \in pgRows => i \in pgRows'
             /\ Closed(i) => Closed(i)'
             /\ HasEffect(i)' /\ ~HasEffect(i) => IsClaim(i) \/ ~Closed(i)
             /\ (HasEffect(i)' /\ ~HasEffect(i)) \/ memo'[i] # memo[i] =>
                    \E t \in Slots : call[t].id = i /\ call[t].pc # "free"
  <2>1. PICK j \in Ids : call[s].id = j BY CallTypes
  <2>2. /\ now' = now /\ pgRows' = pgRows /\ memo' = memo /\ log' = Append(log, j)
        /\ call[s].pc = "dispatch"
    BY <1>7, <2>1 DEF DispatchClaim
  <2>3. IsClaim(j) BY <2>1, <2>2 DEF CallsTold, CallTold
  <2>4. HasEffect(i)' <=> HasEffect(i) \/ i = j BY <1>1, <2>2, AppendEffect
  <2>5. Closed(i) => Closed(i)' BY <1>4, <2>2 DEF Closed
  <2> QED BY <2>1, <2>2, <2>3, <2>4, <2>5
<1>8. ASSUME NEW s \in Slots, FinishClaim(s)
      PROVE  /\ HasEffect(i) => HasEffect(i)'
             /\ i \in pgRows => i \in pgRows'
             /\ Closed(i) => Closed(i)'
             /\ HasEffect(i)' /\ ~HasEffect(i) => IsClaim(i) \/ ~Closed(i)
             /\ (HasEffect(i)' /\ ~HasEffect(i)) \/ memo'[i] # memo[i] =>
                    \E t \in Slots : call[t].id = i /\ call[t].pc # "free"
  <2>1. PICK j \in Ids : call[s].id = j BY CallTypes
  <2>2. /\ now' = now /\ pgRows' = pgRows /\ log' = log /\ call[s].pc = "finish"
    BY <1>8, <2>1 DEF FinishClaim
  <2>3. HasEffect(i)' <=> HasEffect(i) BY <2>2 DEF HasEffect
  <2>4. (memo'[i] # memo[i] => i = j) /\ (memo'[i].state = "none" => memo[i].state = "none")
    BY <1>1, <1>8, <2>1 DEF FinishClaim
  <2>5. Closed(i) => Closed(i)' BY <1>4, <2>2, <2>4 DEF Closed
  <2> QED BY <2>1, <2>2, <2>3, <2>4, <2>5
<1> QED BY <1>5, <1>6, <1>7, <1>8, HubShape

\* So what a call says stays true at every step of the hub.
LEMMA CallKept ==
    ASSUME TypeInv, OnceInv, CallsTold, HubStep, NEW k \in Call, CallTold(k)
    PROVE  CallTold(k)'
<1>1. k.id \in Ids BY DEF Call
<1>2. req' = req /\ status' = status BY HubCalls
<1>3. IsClaim(k.id)' <=> IsClaim(k.id) BY <1>2 DEF IsClaim
<1>4. /\ HasEffect(k.id) => HasEffect(k.id)'
      /\ k.id \in pgRows => k.id \in pgRows'
      /\ Closed(k.id) => Closed(k.id)'
      /\ HasEffect(k.id)' /\ ~HasEffect(k.id) => IsClaim(k.id) \/ ~Closed(k.id)
  BY <1>1, HubGrows
<1> QED BY <1>2, <1>3, <1>4 DEF CallTold

\* Every step of the replay handler goes on with a true word.
LEMMA HandlerTold ==
    ASSUME TypeInv, OnceInv, CallsTold, MemoTold, NEW s \in Slots, Handler(s)
    PROVE  CallTold(call[s])'
<1>1. PICK i \in Ids : call[s].id = i BY CallTypes
<1>2. call \in [Slots -> Call] /\ call[s] \in Call /\ log \in Seq(Ids)
      /\ memo \in [Ids -> Memo]
  BY DEF TypeInv, TypeOK, BaseTypeOK, HubTypeOK
<1>3. HubStep BY DEF HubStep
<1>4. req' = req /\ status' = status BY <1>3, HubCalls
<1>5. CallTold(call[s]) BY DEF CallsTold
<1>6. IsClaim(i)' <=> IsClaim(i) BY <1>4 DEF IsClaim
<1>7. ASSUME NEW w, Answered(s, w),
             w = "applied" => HasEffect(i)' /\ (Postgres /\ ~IsClaim(i) => i \in pgRows'),
             w = "superseded" /\ ~IsClaim(i) => ~HasEffect(i)' /\ Closed(i)'
      PROVE  CallTold(call[s])'
  <2>1. call'[s].pc = "reply" /\ call'[s].answer = w /\ call'[s].id = i
    BY <1>1, <1>2, <1>7 DEF Answered, Call
  <2> QED BY <1>6, <1>7, <2>1 DEF CallTold
<1>8. ASSUME Proceeds(s, "persist"), ~IsClaim(i), HasEffect(i)' PROVE CallTold(call[s])'
  <2>1. call'[s].pc = "persist" /\ call'[s].id = i
    BY <1>1, <1>2, <1>8 DEF Proceeds, Call
  <2> QED BY <1>6, <1>8, <2>1 DEF CallTold
<1>9. /\ HasEffect(i) => HasEffect(i)'
      /\ Closed(i) => Closed(i)'
      /\ HasEffect(i)' /\ ~HasEffect(i) => IsClaim(i) \/ ~Closed(i)
  BY <1>3, HubGrows
<1>10. CASE ReplayKnown(s)
  <2> DEFINE w == KnownAnswer(i)
  <2>1. AnswerOrPersist(s, i, w) /\ HasMemo(i) BY <1>1, <1>10 DEF ReplayKnown
  <2>2. memo[i].state # "none" BY <2>1 DEF HasMemo
  <2>3. w = "applied" => memo[i].answer = "applied"
    <3>1. memo[i].state \in {"pending", "applied"} /\ memo[i].answer \in {"none", "applied", "superseded"}
      BY <1>2, <2>2 DEF Memo
    <3> QED BY <3>1 DEF KnownAnswer, MemoTold
  <2>4. w = "superseded" /\ ~IsClaim(i) => memo[i].answer = "superseded"
    BY DEF KnownAnswer
  <2> HIDE DEF w
  <2>5. w = "applied" => HasEffect(i)' BY <1>9, <2>3 DEF MemoTold
  <2>6. Closed(i) BY <2>2 DEF Closed
  <2>7. w = "superseded" /\ ~IsClaim(i) => ~HasEffect(i)' /\ Closed(i)'
    BY <1>9, <2>4, <2>6 DEF MemoTold
  <2> QED BY <1>7, <1>8, <2>1, <2>5, <2>7 DEF AnswerOrPersist
<1>11. CASE ReplayLate(s)
  <2>1. Answered(s, "superseded") /\ ~HasMemo(i) /\ Closed(i)
    BY <1>1, <1>11 DEF ReplayLate, Closed
  <2>2. ~IsClaim(i) => ~HasEffect(i)
    BY <2>1 DEF HasMemo, OnceInv, EffectHasMemo
  <2> QED BY <1>7, <1>9, <2>1, <2>2
<1>12. CASE ReplayFuture(s) BY <1>7, <1>12 DEF ReplayFuture
<1>13. CASE ReplayMessage(s)
  <2>1. log' = Append(log, i) /\ Proceeds(s, "persist") /\ ~IsClaim(i)
    BY <1>1, <1>13 DEF ReplayMessage, IsClaim
  <2>2. HasEffect(i)' BY <1>2, <2>1, AppendEffect
  <2> QED BY <1>8, <2>1, <2>2
<1>14. CASE ReplayPresence(s)
  <2>1. log' = Append(log, i) /\ Proceeds(s, "persist") /\ ~IsClaim(i)
    BY <1>1, <1>14 DEF ReplayPresence, IsClaim, IsPresence
  <2>2. HasEffect(i)' BY <1>2, <2>1, AppendEffect
  <2> QED BY <1>8, <2>1, <2>2
<1>15. CASE ReplayOutdated(s)
  <2>1. log' = log /\ Answered(s, "superseded") /\ memo' = Completed(i, "superseded") /\ Fresh(s)
    BY <1>1, <1>15 DEF ReplayOutdated
  <2>2. ~HasEffect(i) BY <1>1, <2>1, FreshHasNoMemo DEF OnceInv, EffectHasMemo
  <2>3. ~HasEffect(i)' BY <2>1, <2>2 DEF HasEffect
  <2>4. memo'[i].state = "applied" BY <1>2, <2>1 DEF Completed
  <2>5. Closed(i)' BY <2>4 DEF Closed
  <2> QED BY <1>7, <2>1, <2>3, <2>5
<1>16. CASE ReplayClaim(s)
  <2>1. Proceeds(s, "admit") /\ IsClaim(i) BY <1>1, <1>16 DEF ReplayClaim
  <2>2. call'[s].pc = "admit" /\ call'[s].id = i BY <1>1, <1>2, <2>1 DEF Proceeds, Call
  <2> QED BY <1>6, <2>1, <2>2 DEF CallTold
<1>17. CASE Persist(s)
  <2>1. ~IsClaim(i) /\ HasEffect(i) BY <1>1, <1>5, <1>17 DEF Persist, CallTold
  <2>2. CASE Answered(s, "pending") BY <1>7, <2>2
  <2>3. CASE ~Answered(s, "pending")
    <3>1. Answered(s, "applied") /\ (Postgres => i \in pgRows')
      BY <1>1, <1>17, <2>3 DEF Persist
    <3> QED BY <1>7, <1>9, <2>1, <3>1
  <2> QED BY <2>2, <2>3
<1>18. CASE AdmitClaim(s)
  <2>1. IsClaim(i) BY <1>1, <1>5, <1>18 DEF AdmitClaim, CallTold
  <2>2. /\ call'[s].id = i
        /\ call'[s].pc = "dispatch" \/ (call'[s].pc = "finish" /\ call'[s].answer = "superseded")
    BY <1>1, <1>2, <1>18 DEF AdmitClaim, Call
  <2> QED BY <1>6, <2>1, <2>2 DEF CallTold
<1>19. CASE DispatchClaim(s)
  <2>1. IsClaim(i) /\ log' = Append(log, i) BY <1>1, <1>5, <1>19 DEF DispatchClaim, CallTold
  <2>2. HasEffect(i)' BY <1>2, <2>1, AppendEffect
  <2>3. CASE Answered(s, "pending") BY <1>7, <2>3
  <2>4. CASE ~Answered(s, "pending")
    <3>1. call'[s].id = i /\ call'[s].pc = "finish"
      BY <1>1, <1>2, <1>19, <2>4 DEF DispatchClaim, Call
    <3> QED BY <1>6, <2>1, <2>2, <3>1 DEF CallTold
  <2> QED BY <2>3, <2>4
<1>20. CASE FinishClaim(s)
  <2>1. IsClaim(i) /\ (call[s].answer = "applied" => HasEffect(i))
    BY <1>1, <1>5, <1>20 DEF FinishClaim, CallTold
  <2>2. \E w : Answered(s, w) /\ (w = "applied" => call[s].answer = "applied")
    BY <1>1, <1>20 DEF FinishClaim, FinishAnswer
  <2> QED BY <1>7, <1>9, <2>1, <2>2
<1> QED BY <1>10, <1>11, <1>12, <1>13, <1>14, <1>15, <1>16, <1>17, <1>18, <1>19, <1>20
        DEF Handler

\* A step of the hub touches the call it is about and no other.
LEMMA OneCall ==
    ASSUME TypeInv, NEW s \in Slots
    PROVE  /\ Handler(s) => \A t \in Slots : t # s => call'[t] = call[t]
           /\ LoseReply(s) => \A t \in Slots : t # s => call'[t] = call[t]
           /\ Unavailable(s) \/ Refuse(s) \/ ReplayAborts(s) \/ ClaimFails(s) \/ LoseCall(s) =>
                  \A t \in Slots : t # s => call'[t] = call[t]
<1>1. call \in [Slots -> Call] BY DEF TypeInv, TypeOK, BaseTypeOK
<1>2. Handler(s) => \A t \in Slots : t # s => call'[t] = call[t]
  BY <1>1 DEF Handler, ReplayKnown, AnswerOrPersist, ReplayLate, ReplayFuture, ReplayMessage,
         ReplayPresence, ReplayOutdated, ReplayClaim, Persist, AdmitClaim, DispatchClaim,
         FinishClaim, Answered, Proceeds
<1>3. LoseReply(s) => \A t \in Slots : t # s => call'[t] = call[t]
  BY <1>1 DEF LoseReply
<1>4. Unavailable(s) \/ Refuse(s) \/ ReplayAborts(s) \/ ClaimFails(s) \/ LoseCall(s) =>
          \A t \in Slots : t # s => call'[t] = call[t]
  BY <1>1 DEF Unavailable, Refuse, ReplayAborts, ClaimFails, LoseCall, Answered
<1> QED BY <1>2, <1>3, <1>4

\* What the calls say is true after every step of the hub.
LEMMA HubCallsTold ==
    ASSUME TypeInv, OnceInv, CallsTold, MemoTold, HubStep
    PROVE  CallsTold'
<1>1. call \in [Slots -> Call] BY DEF TypeInv, TypeOK, BaseTypeOK
<1>2. ASSUME NEW t \in Slots, call'[t] = call[t] PROVE CallTold(call[t])'
  <2>1. PICK k \in Call : call[t] = k /\ call'[t] = k BY <1>1, <1>2
  <2>2. CallTold(k) BY <2>1 DEF CallsTold
  <2>3. CallTold(k)' BY <2>2, CallKept
  <2> QED BY <2>1, <2>3 DEF CallTold
<1>3. ASSUME NEW t \in Slots, call'[t].pc = "free" PROVE CallTold(call[t])'
  BY <1>3 DEF CallTold
<1>4. ASSUME NEW t \in Slots, call'[t].pc = "reply",
             call'[t].answer \notin {"applied", "superseded"}
      PROVE  CallTold(call[t])'
  BY <1>4 DEF CallTold
<1>5. CASE call' = call BY <1>2, <1>5 DEF CallsTold
<1>6. ASSUME Tick \/ Others PROVE CallsTold'
  <2>1. call' = call
    BY <1>6 DEF Tick, Others, DirectPresence, DirectClaim, ReleaseClaim, HashExpires
  <2> QED BY <1>5, <2>1
<1>7. ASSUME NEW s \in Slots, Handler(s) PROVE CallsTold'
  BY <1>2, <1>7, OneCall, HandlerTold DEF CallsTold
<1>8. ASSUME NEW s \in Slots, LoseReply(s) PROVE CallsTold'
  <2>1. call'[s].pc = "free" BY <1>1, <1>8 DEF LoseReply, FreeCall
  <2> QED BY <1>2, <1>3, <1>8, <2>1, OneCall DEF CallsTold
<1>9. ASSUME NEW s \in Slots,
             Unavailable(s) \/ Refuse(s) \/ ReplayAborts(s) \/ ClaimFails(s) \/ LoseCall(s)
      PROVE  CallsTold'
  <2>1. \/ call'[s].pc = "free"
        \/ call'[s].pc = "reply" /\ call'[s].answer \notin {"applied", "superseded"}
    BY <1>1, <1>9 DEF Unavailable, Refuse, ReplayAborts, ClaimFails, LoseCall, Answered,
                      FreeCall, Call
  <2> QED BY <1>2, <1>3, <1>4, <1>9, <2>1, OneCall DEF CallsTold
<1>10. ASSUME HubCrash PROVE CallsTold'
  <2>1. FreeCall.pc = "free" BY DEF FreeCall
  <2>2. \A t \in Slots : call'[t].pc = "free" \/ call'[t] = call[t]
    BY <1>10, <2>1 DEF HubCrash
  <2> QED BY <1>2, <1>3, <2>2 DEF CallsTold
<1> QED BY <1>6, <1>7, <1>8, <1>9, <1>10 DEF HubStep, HubFault

\* The memos are true after every step of the hub.
LEMMA HubMemoTold ==
    ASSUME TypeInv, OnceInv, CallsTold, MemoTold, HubStep
    PROVE  MemoTold'
<1> SUFFICES ASSUME NEW j \in Ids
             PROVE  (/\ memo[j].state = "applied" <=> memo[j].answer # "none"
                     /\ memo[j].answer = "applied" => HasEffect(j)
                     /\ memo[j].answer = "superseded" /\ ~IsClaim(j) => ~HasEffect(j)
                     /\ memo[j].answer = "applied" /\ IsClaim(j) =>
                            memo[j].until <= memo[j].lease)'
  BY DEF MemoTold
<1>1. memo \in [Ids -> Memo] /\ log \in Seq(Ids)
  BY DEF TypeInv, TypeOK, HubTypeOK
<1>2. req' = req BY HubCalls
<1>3. IsClaim(j)' <=> IsClaim(j) BY <1>2 DEF IsClaim
<1>4. /\ memo[j].state = "applied" <=> memo[j].answer # "none"
      /\ memo[j].answer = "applied" => HasEffect(j)
      /\ memo[j].answer = "superseded" /\ ~IsClaim(j) => ~HasEffect(j)
      /\ memo[j].answer = "applied" /\ IsClaim(j) => memo[j].until <= memo[j].lease
  BY DEF MemoTold
<1> DEFINE Goal == /\ memo'[j].state = "applied" <=> memo'[j].answer # "none"
                   /\ memo'[j].answer = "applied" => HasEffect(j)'
                   /\ memo'[j].answer = "superseded" /\ ~IsClaim(j) => ~HasEffect(j)'
                   /\ memo'[j].answer = "applied" /\ IsClaim(j) =>
                          memo'[j].until <= memo'[j].lease
<1>5. ASSUME memo'[j] = memo[j], HasEffect(j)' <=> HasEffect(j) PROVE Goal
  BY <1>4, <1>5
<1>6. ASSUME Quiet PROVE Goal
  <2>1. HasEffect(j)' <=> HasEffect(j) BY <1>6 DEF Quiet, HasEffect
  <2> QED BY <1>5, <1>6, <2>1 DEF Quiet
<1>7. ASSUME NEW s \in Slots, NEW m \in Memo, FirstSight(s, m) PROVE Goal
  <2>1. PICK i \in Ids : call[s].id = i BY CallTypes
  <2>2. Fresh(s) /\ memo' = [memo EXCEPT ![i] = m] /\ (log' = log \/ log' = Append(log, i))
    BY <1>7, <2>1 DEF FirstSight
  <2>3. ~HasEffect(i) BY <2>1, <2>2, FreshHasNoMemo DEF OnceInv, EffectHasMemo
  <2>4. CASE i # j
    <3>1. memo'[j] = memo[j] BY <1>1, <2>2, <2>4
    <3>2. HasEffect(j)' <=> HasEffect(j)
      <4>1. CASE log' = log BY <4>1 DEF HasEffect
      <4>2. CASE log' = Append(log, i) BY <1>1, <2>4, <4>2, AppendEffect
      <4> QED BY <2>2, <4>1, <4>2
    <3> QED BY <1>5, <3>1, <3>2
  <2>5. CASE i = j
    <3>1. memo'[j] = m BY <1>1, <2>2, <2>5
    <3>2. log' = Append(log, i) => HasEffect(j)' BY <1>1, <2>5, AppendEffect
    <3>3. log' = log => ~HasEffect(j)' BY <2>3, <2>5 DEF HasEffect
    <3>4. \/ m.state = "applied" /\ m.answer = "applied" /\ log' = Append(log, i) /\ ~IsClaim(i)
          \/ m.state = "applied" /\ m.answer = "superseded" /\ log' = log
          \/ m.state = "pending" /\ m.answer = "none"
      BY <1>7, <2>1 DEF FirstSight
    <3> QED BY <2>5, <3>1, <3>2, <3>3, <3>4
  <2> QED BY <2>4, <2>5
<1>8. ASSUME NEW s \in Slots, DispatchClaim(s) PROVE Goal
  <2>1. PICK i \in Ids : call[s].id = i BY CallTypes
  <2>2. memo' = memo /\ log' = Append(log, i) BY <1>8, <2>1 DEF DispatchClaim
  <2>3. IsClaim(i) BY <1>8, <2>1 DEF DispatchClaim, CallsTold, CallTold
  <2>4. HasEffect(j)' <=> HasEffect(j) \/ j = i BY <1>1, <2>2, AppendEffect
  <2> QED BY <1>4, <2>2, <2>3, <2>4
<1>9. ASSUME NEW s \in Slots, FinishClaim(s) PROVE Goal
  <2>1. PICK i \in Ids : call[s].id = i BY CallTypes
  <2>2. log' = log /\ call[s].pc = "finish" BY <1>9 DEF FinishClaim
  <2>3. HasEffect(j)' <=> HasEffect(j) BY <2>2 DEF HasEffect
  <2>4. CASE memo'[j] = memo[j] BY <1>5, <2>3, <2>4
  <2>5. CASE memo'[j] # memo[j]
    <3> DEFINE w == call[s].answer
               e == call[s].lease
               u == IF e < req[i].expires THEN e ELSE req[i].expires
    <3>1. /\ memo' = [memo EXCEPT ![i] = [state |-> "applied", answer |-> w, lease |-> e,
                                         until |-> u]]
          /\ FinishAnswer(i, w, e) = "saved"
      BY <1>9, <2>1, <2>5 DEF FinishClaim
    <3>2. i = j BY <1>1, <2>5, <3>1
    <3>3. memo'[i].state = "applied" /\ memo'[i].answer = w /\ memo'[i].lease = e
          /\ memo'[i].until = u
      BY <1>1, <3>1
    <3>4. w \in {"applied", "contested", "superseded"}
      BY <2>2 DEF TypeInv, FinishAnswers
    <3>5. IsClaim(i) /\ (w = "applied" => HasEffect(i))
      BY <2>1, <2>2 DEF CallsTold, CallTold
    <3>6. u <= e
      <4>1. e \in Int /\ req[i].expires \in Int BY <2>1, CallTypes
      <4> QED BY <4>1
    <3> HIDE DEF w, e, u
    <3> QED BY <2>3, <3>2, <3>3, <3>4, <3>5, <3>6
  <2> QED BY <2>4, <2>5
<1>10. Goal BY <1>6, <1>7, <1>8, <1>9, HubShape
<1> QED BY <1>3, <1>10 DEF Goal

\* A journal is never wrong about what the hub has done.
LEMMA HubKeepsWord ==
    ASSUME TypeInv, OnceInv, JournalInv, ToldInv, HubStep
    PROVE  UnattemptedHasNoEffect' /\ AppliedIsDurable' /\ AcksAreOfSent'
<1> USE DEF ToldInv
<1>1. req' = req /\ status' = status BY HubCalls
<1>2. \A i \in Ids : req[i].target \in Ids
  BY DEF TypeInv, TypeOK, BaseTypeOK, Request
<1>3. \A i \in Ids : /\ HasEffect(i) => HasEffect(i)'
                     /\ i \in pgRows => i \in pgRows'
                     /\ (HasEffect(i)' /\ ~HasEffect(i)) \/ memo'[i] # memo[i] => Sent(i)
  BY HubGrows DEF JournalInv, CallsWereSent
<1>4. UnattemptedHasNoEffect'
  BY <1>1, <1>3 DEF UnattemptedHasNoEffect, Sent
<1>5. AppliedIsDurable' BY <1>1, <1>3 DEF AppliedIsDurable, IsClaim
<1>6. AcksAreOfSent'
  <2> SUFFICES ASSUME NEW i \in Ids, req[i].op = "ack" PROVE HasEffect(req[i].target)'
    BY <1>1 DEF AcksAreOfSent
  <2>1. PICK t \in Ids : req[i].target = t BY <1>2
  <2>2. HasEffect(t)' BY <1>3, <2>1 DEF AcksAreOfSent
  <2> QED BY <1>1, <2>1, <2>2
<1> QED BY <1>4, <1>5, <1>6

\* The first effect of a message or presence comes in sequence.
LEMMA EffectInSequence ==
    ASSUME TypeInv, OnceInv, JournalInv, ToldInv, NEW s \in Slots, Fresh(s),
           NEW i \in Ids, call[s].id = i, ~IsClaim(i),
           NEW m \in 1 .. MaxSeq, m > i[2], HasEffect(<<i[1], m>>)
    PROVE  status[i] = "rejected"
<1> USE DEF ToldInv
<1>1. PICK c \in Clients, n \in 1 .. MaxSeq : i = <<c, n>> BY DEF Ids
<1>2. i[1] = c /\ i[2] = n /\ <<c, m>> \in Ids BY <1>1 DEF Ids
<1>3. status[<<c, m>>] \notin {"absent", "queued"} BY <1>2 DEF UnattemptedHasNoEffect
<1>4. ~IsPending(i) BY <1>1, <1>2, <1>3 DEF JournalInv, EarlierSettled
<1>5. call[s].pc = "sent" /\ memo[i].state = "none" /\ ~Expired(i, now)
  BY FreshHasNoMemo DEF Fresh
<1>6. ~HasEffect(i) /\ ~Closed(i) BY <1>5 DEF OnceInv, EffectHasMemo, Closed
<1>7. status[i] # "applied" BY <1>6 DEF AppliedIsDurable
<1>8. status[i] # "superseded" BY <1>5, <1>6 DEF CallsTold, CallTold
<1>9. Sent(i) BY <1>5 DEF JournalInv, CallsWereSent
<1> QED BY <1>4, <1>7, <1>8, <1>9 DEF Sent, IsPending

\* The effects of one client stay in sequence.
LEMMA HubInSequence ==
    ASSUME TypeInv, OnceInv, JournalInv, ToldInv, HubStep
    PROVE  InSequence'
<1> USE DEF ToldInv
<1>1. log \in Seq(Ids) /\ req' = req /\ status' = status
  BY HubCalls DEF TypeInv, TypeOK, HubTypeOK
<1>2. ASSUME log' = log PROVE InSequence'
  BY <1>1, <1>2 DEF InSequence, IsClaim
<1>3. ASSUME NEW i \in Ids, log' = Append(log, i),
             \A m \in 1 .. MaxSeq : ~IsClaim(i) /\ m > i[2] /\ HasEffect(<<i[1], m>>) =>
                 status[i] = "rejected"
      PROVE  InSequence'
  <2> SUFFICES ASSUME NEW j \in 1 .. Len(log'), NEW k \in 1 .. Len(log'), j < k,
                      log'[j][1] = log'[k][1], log'[j][2] > log'[k][2], ~IsClaim(log'[k])
               PROVE  status[log'[k]] = "rejected"
    BY <1>1 DEF InSequence, IsClaim
  <2>1. Len(log) \in Nat /\ Len(log') = Len(log) + 1 BY <1>1, <1>3
  <2>2. (\A h \in 1 .. Len(log) : log'[h] = log[h]) /\ log'[Len(log) + 1] = i
    BY <1>1, <1>3
  <2>3. j \in 1 .. Len(log) /\ (k \in 1 .. Len(log) \/ k = Len(log) + 1) BY <2>1
  <2>4. CASE k \in 1 .. Len(log) BY <2>2, <2>3, <2>4 DEF InSequence
  <2>5. CASE k = Len(log) + 1
    <3>1. log[j] \in Ids BY <1>1, <2>3
    <3>2. PICK c \in Clients, m \in 1 .. MaxSeq : log[j] = <<c, m>> BY <3>1 DEF Ids
    <3>3. c = i[1] /\ m > i[2] BY <2>2, <2>3, <2>5, <3>2
    <3>4. HasEffect(<<i[1], m>>) BY <2>3, <3>2, <3>3 DEF HasEffect
    <3> QED BY <1>3, <2>2, <2>5, <3>3, <3>4
  <2> QED BY <2>3, <2>4, <2>5
<1>4. CASE Quiet BY <1>2, <1>4 DEF Quiet
<1>5. ASSUME NEW s \in Slots, NEW m \in Memo, FirstSight(s, m) PROVE InSequence'
  <2>1. PICK i \in Ids : call[s].id = i BY CallTypes
  <2>2. Fresh(s) /\ (log' = log \/ log' = Append(log, i)) BY <1>5, <2>1 DEF FirstSight
  <2>3. \A h \in 1 .. MaxSeq : ~IsClaim(i) /\ h > i[2] /\ HasEffect(<<i[1], h>>) =>
            status[i] = "rejected"
    BY <2>1, <2>2, EffectInSequence
  <2> QED BY <1>2, <1>3, <2>2, <2>3
<1>6. ASSUME NEW s \in Slots, DispatchClaim(s) PROVE InSequence'
  <2>1. PICK i \in Ids : call[s].id = i BY CallTypes
  <2>2. log' = Append(log, i) BY <1>6, <2>1 DEF DispatchClaim
  <2>3. IsClaim(i) BY <1>6, <2>1 DEF DispatchClaim, CallsTold, CallTold
  <2> QED BY <1>3, <2>2, <2>3
<1>7. ASSUME NEW s \in Slots, FinishClaim(s) PROVE InSequence'
  BY <1>2, <1>7 DEF FinishClaim
<1> QED BY <1>4, <1>5, <1>6, <1>7, HubShape

\* The keys of an acked message are not set again.
LEMMA HubAcked ==
    ASSUME TypeInv, OnceInv, JournalInv, ToldInv, HubStep
    PROVE  AckStaysAcked'
<1> USE DEF ToldInv
<1>1. memo \in [Ids -> Memo] /\ req' = req BY HubCalls DEF TypeInv, TypeOK, HubTypeOK
<1> SUFFICES ASSUME NEW j \in Ids, req[j].op = "ack", memo'[j].state = "applied"
             PROVE  req[j].target \notin ackDue'
  BY <1>1 DEF AckStaysAcked
<1>2. memo[j].state = "applied" => req[j].target \notin ackDue BY DEF AckStaysAcked
<1>3. CASE Quiet BY <1>2, <1>3 DEF Quiet
<1>4. ASSUME NEW s \in Slots, NEW m \in Memo, FirstSight(s, m) PROVE req[j].target \notin ackDue'
  <2>1. PICK i \in Ids : call[s].id = i BY CallTypes
  <2>2. /\ Fresh(s) /\ memo' = [memo EXCEPT ![i] = m]
        /\ ackDue' = ackDue \/ (req[i].op \in {"send", "ack"} /\ ackDue' = AckDueAfter(i))
    BY <1>4, <2>1 DEF FirstSight
  <2>3. ~HasEffect(i) BY <2>1, <2>2, FreshHasNoMemo DEF OnceInv, EffectHasMemo
  <2>4. req[j].target # i BY <2>3 DEF AcksAreOfSent
  <2>5. CASE i = j
    <3>1. m.state = "applied" BY <1>1, <2>2, <2>5
    <3>2. ackDue' = AckDueAfter(i)
      <4>1. ~IsPresence(i) BY <2>5 DEF IsPresence
      <4> QED BY <1>4, <2>1, <2>5, <3>1, <4>1 DEF FirstSight
    <3> QED BY <2>5, <3>2 DEF AckDueAfter
  <2>6. CASE i # j
    <3>1. memo[j].state = "applied" BY <1>1, <2>2, <2>6
    <3> QED BY <1>2, <2>2, <2>4, <3>1 DEF AckDueAfter
  <2> QED BY <2>5, <2>6
<1>5. ASSUME NEW s \in Slots, DispatchClaim(s) PROVE req[j].target \notin ackDue'
  BY <1>2, <1>5 DEF DispatchClaim
<1>6. ASSUME NEW s \in Slots, FinishClaim(s) PROVE req[j].target \notin ackDue'
  <2>1. PICK i \in Ids : call[s].id = i BY CallTypes
  <2>2. IsClaim(i) BY <1>6, <2>1 DEF FinishClaim, CallsTold, CallTold
  <2>3. i # j BY <2>2 DEF IsClaim
  <2>4. memo'[j] = memo[j] /\ ackDue' = ackDue BY <1>1, <1>6, <2>1, <2>3 DEF FinishClaim
  <2> QED BY <1>2, <2>4
<1> QED BY <1>3, <1>4, <1>5, <1>6, HubShape

\* The steps of the hub keep the word that was given.
LEMMA HubTold ==
    ASSUME TypeInv, OnceInv, JournalInv, ToldInv, HubStep
    PROVE  ToldInv'
BY HubCallsTold, HubMemoTold, HubKeepsWord, HubInSequence, HubAcked DEF ToldInv

\* A client posts, receives or gives up a call, or settles its request with what
\* it was told: what is said of the requests stays true.
LEMMA SettleTold ==
    ASSUME TypeInv, JournalInv, ToldInv, UNCHANGED <<now, req, memo, log, pgRows, ackDue>>,
           NEW i \in Ids, NEW v \in Statuses,
           status' = [status EXCEPT ![i] = v],
           v = status[i] \/ IsPending(i),
           v \in {"absent", "queued"} => v = status[i],
           v = "expired" => status[i] \in {"queued", "expired"},
           v = "applied" => HasEffect(i) /\ (Postgres /\ ~IsClaim(i) => i \in pgRows),
           v = "superseded" => status[i] \in {"queued", "superseded"} \/ IsClaim(i) \/ Closed(i),
           \A t \in Slots : \/ call'[t].pc = "free" \/ call'[t] = call[t]
                            \/ call'[t].pc = "sent" /\ status[call'[t].id] = "attempted"
                               /\ v = status[i]
    PROVE  ToldInv'
<1> USE DEF ToldInv
<1>1. status \in [Ids -> Statuses] /\ log \in Seq(Ids) BY DEF TypeInv, TypeOK, ClientTypeOK, HubTypeOK
<1>2. status'[i] = v /\ \A j \in Ids : j # i => status'[j] = status[j] BY <1>1
<1>3. \A j : /\ HasEffect(j)' <=> HasEffect(j)
             /\ IsClaim(j)' <=> IsClaim(j)
             /\ Closed(j)' <=> Closed(j)
  BY DEF HasEffect, IsClaim, Closed, Expired
<1>4. CallsTold'
  <2> SUFFICES ASSUME NEW t \in Slots PROVE CallTold(call[t])'
    BY DEF CallsTold
  <2>1. CASE call'[t].pc = "free" BY <2>1 DEF CallTold
  <2>2. CASE call'[t].pc = "sent" /\ status[call'[t].id] = "attempted" /\ v = status[i]
    <3>1. status' = status BY <1>1, <2>2
    <3> QED BY <2>2, <3>1 DEF CallTold
  <2>3. CASE call'[t] = call[t] /\ call[t].pc # "free"
    <3>1. PICK j \in Ids : call[t].id = j BY CallTypes
    <3>2. CallTold(call[t]) BY DEF CallsTold
    <3>3. call[t].pc = "sent" /\ status'[j] = "superseded" /\ ~IsClaim(j) => Closed(j)
      <4>1. CASE j # i BY <1>2, <3>1, <3>2, <4>1 DEF CallTold
      <4>2. CASE j = i /\ status[i] = "queued"
        BY <2>3, <3>1, <4>2 DEF JournalInv, CallsWereSent, Sent
      <4>3. CASE j = i /\ status[i] # "queued"
        BY <1>2, <3>1, <3>2, <4>3 DEF CallTold
      <4> QED BY <4>1, <4>2, <4>3
    <3>4. /\ HasEffect(j)' <=> HasEffect(j)
          /\ IsClaim(j)' <=> IsClaim(j)
          /\ Closed(j)' <=> Closed(j)
      BY <1>3
    <3>5. call'[t].id = j /\ call'[t].pc = call[t].pc /\ call'[t].answer = call[t].answer
      BY <2>3, <3>1
    <3> QED BY <3>1, <3>2, <3>3, <3>4, <3>5 DEF CallTold
  <2> QED BY <2>1, <2>2, <2>3
<1>5. MemoTold' BY <1>3 DEF MemoTold
<1>6. AcksAreOfSent' BY DEF AcksAreOfSent, HasEffect
<1>7. AckStaysAcked' BY DEF AckStaysAcked
<1>8. UnattemptedHasNoEffect'
  <2> SUFFICES ASSUME NEW j \in Ids, status'[j] \in {"absent", "queued", "expired"}
               PROVE  ~HasEffect(j) /\ memo[j] = NoMemo
    BY <1>3 DEF UnattemptedHasNoEffect
  <2>1. status[j] \in {"absent", "queued", "expired"} BY <1>2
  <2> QED BY <2>1 DEF UnattemptedHasNoEffect
<1>9. AppliedIsDurable'
  <2> SUFFICES ASSUME NEW j \in Ids, status'[j] = "applied"
               PROVE  HasEffect(j) /\ (Postgres /\ ~IsClaim(j) => j \in pgRows)
    BY <1>3 DEF AppliedIsDurable
  <2> QED BY <1>2 DEF AppliedIsDurable
<1>10. InSequence'
  <2> SUFFICES ASSUME NEW j \in 1 .. Len(log), NEW k \in 1 .. Len(log), j < k,
                      log[j][1] = log[k][1], log[j][2] > log[k][2], ~IsClaim(log[k])
               PROVE  status'[log[k]] = "rejected"
    BY <1>3 DEF InSequence
  <2>1. status[log[k]] = "rejected" /\ log[k] \in Ids BY <1>1 DEF InSequence
  <2> QED BY <1>2, <2>1 DEF IsPending
<1> QED BY <1>4, <1>5, <1>6, <1>7, <1>8, <1>9, <1>10

\* A new request is unknown to the hub.
LEMMA EnqueueTold ==
    ASSUME TypeInv, JournalInv, ToldInv, NEW c \in Clients, NEW r, Enqueue(c, r),
           r.op = "ack" => HasEffect(r.target), UNCHANGED hubVars
    PROVE  ToldInv'
<1> USE DEF ToldInv
<1>1. last[c] \in 0 .. MaxSeq /\ last[c] < MaxSeq /\ MaxSeq \in Nat
  BY BaseAssumption DEF TypeInv, TypeOK, ClientTypeOK, Enqueue
<1>2. PICK i \in Ids : i = <<c, last[c] + 1>>
  <2>1. last[c] + 1 \in 1 .. MaxSeq BY <1>1
  <2> QED BY <2>1 DEF Ids
<1>3. status[i] = "absent" BY <1>1, <1>2 DEF JournalInv, Numbered
<1>4. /\ status \in [Ids -> Statuses] /\ req \in [Ids -> Request] /\ log \in Seq(Ids)
  BY DEF TypeInv, TypeOK, ClientTypeOK, BaseTypeOK, HubTypeOK
<1>5. /\ status' = [status EXCEPT ![i] = "queued"] /\ req' = [req EXCEPT ![i] = r]
      /\ call' = call /\ now' = now /\ log' = log /\ memo' = memo /\ pgRows' = pgRows
      /\ ackDue' = ackDue
  BY <1>2 DEF Enqueue, hubVars
<1>6. /\ status'[i] = "queued" /\ req'[i] = r
      /\ \A j \in Ids : j # i => status'[j] = status[j] /\ req'[j] = req[j]
  BY <1>4, <1>5
<1>7. ~HasEffect(i) /\ memo[i] = NoMemo BY <1>3 DEF UnattemptedHasNoEffect
<1>8. \A j : HasEffect(j)' <=> HasEffect(j) BY <1>5 DEF HasEffect
<1>9. \A j \in Ids : j # i => /\ IsClaim(j)' <=> IsClaim(j)
                              /\ Closed(j)' <=> Closed(j)
  BY <1>5, <1>6 DEF IsClaim, Closed, Expired
<1>10. NoMemo.state = "none" /\ NoMemo.answer = "none" BY DEF NoMemo
<1>11. CallsTold'
  <2> SUFFICES ASSUME NEW t \in Slots, call[t].pc # "free" PROVE CallTold(call[t])'
    BY <1>5 DEF CallsTold, CallTold
  <2>1. PICK j \in Ids : call[t].id = j BY CallTypes
  <2>2. j # i BY <1>3, <2>1 DEF JournalInv, CallsWereSent, Sent
  <2>3. CallTold(call[t]) BY DEF CallsTold
  <2> QED BY <1>5, <1>6, <1>8, <1>9, <2>1, <2>2, <2>3 DEF CallTold
<1>12. MemoTold'
  <2> SUFFICES ASSUME NEW j \in Ids
               PROVE  (/\ memo[j].state = "applied" <=> memo[j].answer # "none"
                       /\ memo[j].answer = "applied" => HasEffect(j)
                       /\ memo[j].answer = "superseded" /\ ~IsClaim(j) => ~HasEffect(j)
                       /\ memo[j].answer = "applied" /\ IsClaim(j) =>
                              memo[j].until <= memo[j].lease)'
    BY DEF MemoTold
  <2>1. CASE j = i BY <1>5, <1>7, <1>10, <2>1
  <2>2. CASE j # i
    <3>1. /\ memo[j].state = "applied" <=> memo[j].answer # "none"
          /\ memo[j].answer = "applied" => HasEffect(j)
          /\ memo[j].answer = "superseded" /\ ~IsClaim(j) => ~HasEffect(j)
          /\ memo[j].answer = "applied" /\ IsClaim(j) => memo[j].until <= memo[j].lease
      BY DEF MemoTold
    <3> QED BY <1>5, <1>8, <1>9, <2>2, <3>1
  <2> QED BY <2>1, <2>2
<1>13. AcksAreOfSent' BY <1>5, <1>6 DEF AcksAreOfSent, HasEffect
<1>14. AckStaysAcked' BY <1>5, <1>6, <1>7, <1>10 DEF AckStaysAcked
<1>15. UnattemptedHasNoEffect' BY <1>5, <1>6, <1>7, <1>8 DEF UnattemptedHasNoEffect
<1>16. AppliedIsDurable' BY <1>5, <1>6, <1>8, <1>9 DEF AppliedIsDurable
<1>17. InSequence'
  <2> SUFFICES ASSUME NEW j \in 1 .. Len(log), NEW k \in 1 .. Len(log), j < k,
                      log[j][1] = log[k][1], log[j][2] > log[k][2], ~IsClaim(log[k])'
               PROVE  status'[log[k]] = "rejected"
    BY <1>5 DEF InSequence
  <2>1. log[k] \in Ids /\ log[k] # i BY <1>4, <1>7 DEF HasEffect
  <2> QED BY <1>5, <1>6, <1>9, <2>1 DEF InSequence, IsClaim
<1> QED BY <1>11, <1>12, <1>13, <1>14, <1>15, <1>16, <1>17

\* The steps of the clients keep the word that was given.
LEMMA ClientTold ==
    ASSUME TypeInv, JournalInv, ToldInv, NEW c \in Clients, Submit(c) \/ Flush(c) \/ Crash(c)
    PROVE  ToldInv'
<1>1. status \in [Ids -> Statuses] /\ call \in [Slots -> Call]
  BY DEF TypeInv, TypeOK, BaseTypeOK, ClientTypeOK
<1>2. CASE Submit(c)
  <2>1. PICK r : Enqueue(c, r) /\ (r.op = "ack" => HasEffect(r.target))
    <3>1. ASSUME NEW m \in Ids, Delivered(m), SubmitAck(c, m)
          PROVE  \E r : Enqueue(c, r) /\ (r.op = "ack" => HasEffect(r.target))
      <4> DEFINE r == [NoRequest EXCEPT !.op = "ack", !.created = ClientNow(c), !.target = m]
      <4>1. r.target = m BY DEF NoRequest
      <4>2. HasEffect(m) BY <3>1 DEF Delivered, HasEffect
      <4>3. Enqueue(c, r) BY <3>1 DEF SubmitAck
      <4> QED BY <4>1, <4>2, <4>3
    <3>2. ASSUME SubmitSend(c) PROVE \E r : Enqueue(c, r) /\ r.op # "ack"
      <4> DEFINE r == [NoRequest EXCEPT !.op = "send", !.created = ClientNow(c)]
      <4>1. r.op # "ack" BY DEF NoRequest
      <4>2. Enqueue(c, r) BY <3>2 DEF SubmitSend
      <4> QED BY <4>1, <4>2
    <3>3. ASSUME NEW a, NEW t, SubmitPresence(c, a, t) PROVE \E r : Enqueue(c, r) /\ r.op # "ack"
      <4> DEFINE r == [NoRequest EXCEPT !.op = "presence", !.agent = a, !.created = ClientNow(c),
                                        !.expires = ClientNow(c) + t]
      <4>1. r.op # "ack" BY DEF NoRequest
      <4>2. Enqueue(c, r) BY <3>3 DEF SubmitPresence
      <4> QED BY <4>1, <4>2
    <3>4. ASSUME NEW a, NEW t, SubmitClaim(c, a, t) PROVE \E r : Enqueue(c, r) /\ r.op # "ack"
      <4> DEFINE r == [NoRequest EXCEPT !.op = "claim", !.agent = a, !.created = ClientNow(c),
                                        !.expires = ClientNow(c) + t]
      <4>1. r.op # "ack" BY DEF NoRequest
      <4>2. Enqueue(c, r) BY <3>4 DEF SubmitClaim
      <4> QED BY <4>1, <4>2
    <3> QED BY <1>2, <3>1, <3>2, <3>3, <3>4 DEF Submit
  <2> QED BY <1>2, <2>1, EnqueueTold DEF Submit
<1>3. ASSUME ~Submit(c) PROVE UNCHANGED <<now, req, memo, log, pgRows, ackDue>>
  <2>1. UNCHANGED hubVars BY <1>3 DEF Flush, Crash
  <2>2. UNCHANGED <<now, req>>
    BY <1>3 DEF Flush, Crash, ClientCrash, FlushPending, ExpireLocally, SupersedeLocally,
                MarkAttempted, Receive, CallRoute, Timeout, FinishFlush
  <2> QED BY <2>1, <2>2 DEF hubVars
<1>4. ASSUME ~Submit(c), status' = status,
             \A t \in Slots : \/ call'[t].pc = "free" \/ call'[t] = call[t]
                              \/ call'[t].pc = "sent" /\ status[call'[t].id] = "attempted"
      PROVE  ToldInv'
  <2>1. PICK i \in Ids : i = AnyId BY Defaults
  <2>2. status' = [status EXCEPT ![i] = status[i]] BY <1>1, <1>4
  <2>3. status[i] \in Statuses BY <1>1
  <2>4. status[i] = "applied" => HasEffect(i) /\ (Postgres /\ ~IsClaim(i) => i \in pgRows)
    BY DEF ToldInv, AppliedIsDurable
  <2> QED BY <1>3, <1>4, <2>2, <2>3, <2>4, SettleTold
<1>5. ASSUME ~Submit(c), status' = status, call' = call PROVE ToldInv'
  BY <1>4, <1>5
<1>6. ASSUME ~Submit(c), Crash(c) \/ FlushPending(c) \/ FinishFlush(c) \/ Timeout(c) PROVE ToldInv'
  BY <1>5, <1>6 DEF Crash, ClientCrash, FlushPending, FinishFlush, Timeout
<1>7. ASSUME ~Submit(c), NEW n \in 1 .. MaxSeq, NEW s \in Slots, CallRoute(c, n, s) PROVE ToldInv'
  <2>1. status[<<c, n>>] = "attempted" BY <1>7 DEF CallRoute, JournalInv, HeadIsAttempted
  <2>2. status' = status /\ call'[s].pc = "sent" /\ call'[s].id = <<c, n>>
        /\ \A t \in Slots : t # s => call'[t] = call[t]
    BY <1>1, <1>7 DEF CallRoute, FreeCall
  <2> QED BY <1>4, <1>7, <2>1, <2>2
<1>8. ASSUME ~Submit(c), NEW n \in 1 .. MaxSeq,
             ExpireLocally(c, n) \/ SupersedeLocally(c, n) \/ MarkAttempted(c, n)
      PROVE  ToldInv'
  <2>1. PICK i \in Ids : i = <<c, n>> BY DEF Ids
  <2>2. PICK v \in {"expired", "superseded", "attempted"} :
            /\ status' = [status EXCEPT ![i] = v]
            /\ v # "attempted" => status[i] = "queued"
            /\ IsPending(i) /\ call' = call
    BY <1>8, <2>1 DEF ExpireLocally, SupersedeLocally, MarkAttempted, Settle, Scanning, IsHead,
                      Pending, MayExpire, Outdated
  <2>3. v \in Statuses BY <2>2 DEF Statuses, Settled
  <2> QED BY <1>3, <1>8, <2>2, <2>3, SettleTold
<1>9. ASSUME ~Submit(c), NEW n \in 1 .. MaxSeq, Receive(c, n) PROVE ToldInv'
  <2>1. PICK i \in Ids : i = <<c, n>> BY DEF Ids
  <2>2. PICK s \in Slots : s = sess[c].slot BY <1>9, ReceiveCases
  <2>3. /\ call[s].id = i /\ status[i] = "attempted" /\ call[s].pc = "reply"
        /\ \A t \in Slots : call'[t].pc # "free" => call'[t] = call[t]
    BY <1>9, <2>1, <2>2, ReceiveCases
  <2>4. CASE status' = status BY <1>4, <1>9, <2>3, <2>4
  <2>5. CASE status' # status
    <3>1. PICK v \in {"applied", "superseded", "rejected"} :
              /\ status' = [status EXCEPT ![i] = v]
              /\ v # "rejected" => v = call[s].answer
      BY <1>9, <2>1, <2>2, <2>5, ReceiveCases
    <3>2. v \in Statuses BY <3>1 DEF Statuses, Settled
    <3>3. CallTold(call[s]) BY DEF ToldInv, CallsTold
    <3>4. IsPending(i) BY <2>3 DEF IsPending
    <3>5. v = "applied" => HasEffect(i) /\ (Postgres /\ ~IsClaim(i) => i \in pgRows)
      BY <2>3, <3>1, <3>3 DEF CallTold
    <3>6. v = "superseded" => IsClaim(i) \/ Closed(i)
      BY <2>3, <3>1, <3>3 DEF CallTold
    <3> QED BY <1>3, <1>9, <2>3, <3>1, <3>2, <3>4, <3>5, <3>6, SettleTold
  <2> QED BY <2>4, <2>5
<1> QED BY <1>2, <1>6, <1>7, <1>8, <1>9 DEF Flush

\* At the start there is nothing to be told.
LEMMA ToldStart == Init => ToldInv
<1> SUFFICES ASSUME Init PROVE ToldInv OBVIOUS
<1>1. log = << >> /\ Len(log) = 0 BY DEF Init, HubInit
<1>2. \A s \in Slots : call[s].pc = "free" BY DEF Init, BaseInit, FreeCall
<1>3. \A i \in Ids : ~HasEffect(i) /\ memo[i] = NoMemo /\ status[i] = "absent"
                     /\ req[i].op = "send"
  BY <1>1 DEF HasEffect, Init, HubInit, ClientInit, BaseInit, NoRequest
<1>4. NoMemo.state = "none" /\ NoMemo.answer = "none" BY DEF NoMemo
<1>5. CallsTold BY <1>2 DEF CallsTold, CallTold
<1>6. MemoTold BY <1>3, <1>4 DEF MemoTold
<1>7. AcksAreOfSent /\ UnattemptedHasNoEffect /\ AppliedIsDurable /\ AckStaysAcked
  BY <1>3, <1>4 DEF AcksAreOfSent, UnattemptedHasNoEffect, AppliedIsDurable, AckStaysAcked
<1>8. InSequence BY <1>1 DEF InSequence
<1> QED BY <1>5, <1>6, <1>7, <1>8 DEF ToldInv

\* Every step keeps the word that was given.
LEMMA ToldStep == TypeInv /\ OnceInv /\ JournalInv /\ ToldInv /\ [Next]_vars => ToldInv'
<1> SUFFICES ASSUME TypeInv, OnceInv, JournalInv, ToldInv, [Next]_vars PROVE ToldInv' OBVIOUS
<1>1. CASE UNCHANGED vars
  <2>1. UNCHANGED <<now, req, memo, log, pgRows, ackDue>> /\ status' = status /\ call' = call
    BY <1>1 DEF vars, clientVars, hubVars
  <2>2. PICK i \in Ids : i = AnyId BY Defaults
  <2>3. status \in [Ids -> Statuses] BY DEF TypeInv, TypeOK, ClientTypeOK
  <2>4. status[i] \in Statuses /\ status' = [status EXCEPT ![i] = status[i]] BY <2>1, <2>3
  <2>5. status[i] = "applied" => HasEffect(i) /\ (Postgres /\ ~IsClaim(i) => i \in pgRows)
    BY DEF ToldInv, AppliedIsDurable
  <2> QED BY <2>1, <2>4, <2>5, SettleTold
<1>2. CASE HubStep BY <1>2, HubTold
<1>3. ASSUME NEW c \in Clients, Submit(c) \/ Flush(c) \/ Crash(c) PROVE ToldInv'
  BY <1>3, ClientTold
<1> QED BY <1>1, <1>2, <1>3 DEF Next, HubStep

ReplayInv == TypeInv /\ OnceInv /\ JournalInv /\ ToldInv

\* The four parts together are inductive.
LEMMA ReplayInvariant == Spec => []ReplayInv
<1>1. Init => ReplayInv BY InitTypes, OnceStart, JournalStart, ToldStart DEF ReplayInv
<1>2. ReplayInv /\ [Next]_vars => ReplayInv'
  BY TypeStep, OnceStep, JournalStep, ToldStep DEF ReplayInv
<1> QED BY <1>1, <1>2, PTL DEF Spec

-----------------------------------------------------------------------------
(* The theorems.                                                           *)

(* A request the journal settled as applied has its effect, and with a     *)
(* database its history row, for any number of faults.                     *)
THEOREM SettledAppliedIsDurable == Spec => []AppliedIsDurable
<1>1. ReplayInv => AppliedIsDurable BY DEF ReplayInv, ToldInv
<1> QED BY <1>1, ReplayInvariant, PTL

(* What was never attempted, and so what expired in the journal, has left  *)
(* neither effect nor memo at the hub.                                     *)
THEOREM NothingBeforeAttempt == Spec => []UnattemptedHasNoEffect
<1>1. ReplayInv => UnattemptedHasNoEffect BY DEF ReplayInv, ToldInv
<1> QED BY <1>1, ReplayInvariant, PTL

(* The messages and presences of a client take effect in the order they    *)
(* were queued; only a rejected one can come late.                         *)
THEOREM EffectsInSequence == Spec => []InSequence
<1>1. ReplayInv => InSequence BY DEF ReplayInv, ToldInv
<1> QED BY <1>1, ReplayInvariant, PTL

(* After an ack has taken effect no replay sets the pending-ack and the    *)
(* deadline keys of its message again.                                     *)
THEOREM AckedForGood == Spec => []AckStaysAcked
<1>1. ReplayInv => AckStaysAcked BY DEF ReplayInv, ToldInv
<1> QED BY <1>1, ReplayInvariant, PTL

\* A call that is answered applied while it was sent or being finished was
\* answered from its memo, or by the finishing script.
LEMMA GrantStep ==
    ASSUME ReplayInv, Next, NEW s \in Slots, NEW i \in Ids, call[s].id = i, IsClaim(i),
           call[s].pc \in {"sent", "finish"}, call'[s].pc = "reply", call'[s].answer = "applied"
    PROVE  \/ HasMemo(i) /\ KnownAnswer(i) = "applied"
           \/ /\ call[s].pc = "finish" /\ call[s].answer = "applied"
              /\ FinishAnswer(i, "applied", call[s].lease) = "saved"
<1>1. call \in [Slots -> Call] BY DEF ReplayInv, TypeInv, TypeOK, BaseTypeOK
<1>2. call'[s] # call[s] /\ call'[s].pc # "free" OBVIOUS
<1>3. FreeCall.pc = "free" BY DEF FreeCall
<1>4. ASSUME NEW c \in Clients, Submit(c) \/ Flush(c) \/ Crash(c) PROVE FALSE
  <2>1. ASSUME NEW n \in 1 .. MaxSeq, NEW t \in Slots, CallRoute(c, n, t) PROVE FALSE
    BY <1>1, <1>2, <2>1 DEF CallRoute, FreeCall
  <2>2. ASSUME NEW n \in 1 .. MaxSeq, Receive(c, n) PROVE FALSE
    BY <1>2, <2>2, ReceiveCases DEF ReplayInv
  <2>3. \A n : ~(ExpireLocally(c, n) \/ SupersedeLocally(c, n) \/ MarkAttempted(c, n))
    BY <1>2 DEF ExpireLocally, SupersedeLocally, MarkAttempted
  <2>4. ~(FlushPending(c) \/ Timeout(c) \/ FinishFlush(c) \/ Crash(c))
    BY <1>2 DEF FlushPending, Timeout, FinishFlush, Crash, ClientCrash
  <2>5. ~Submit(c)
    BY <1>2 DEF Submit, SubmitSend, SubmitAck, SubmitPresence, SubmitClaim, Enqueue
  <2> QED BY <1>4, <2>1, <2>2, <2>3, <2>4, <2>5 DEF Flush
<1>5. ~Tick /\ ~Others /\ ~HubCrash
  BY <1>2, <1>3 DEF Tick, Others, DirectPresence, DirectClaim, ReleaseClaim, HashExpires, HubCrash
<1>6. \A t \in Slots : ~LoseReply(t)
  BY <1>1, <1>2, <1>3 DEF LoseReply
<1>7. \A t \in Slots : ~(Unavailable(t) \/ Refuse(t) \/ ReplayAborts(t) \/ ClaimFails(t) \/ LoseCall(t))
  <2> SUFFICES ASSUME NEW t \in Slots,
                      Unavailable(t) \/ Refuse(t) \/ ReplayAborts(t) \/ ClaimFails(t) \/ LoseCall(t)
               PROVE  FALSE
    OBVIOUS
  <2>1. t = s BY <1>2, OneCall DEF ReplayInv
  <2> QED BY <1>1, <1>2, <1>3, <2>1
          DEF Unavailable, Refuse, ReplayAborts, ClaimFails, LoseCall, Answered, Call
<1>8. PICK t \in Slots : Handler(t) BY <1>4, <1>5, <1>6, <1>7 DEF Next, HubFault
<1>9. t = s BY <1>2, <1>8, OneCall DEF ReplayInv
<1>10. \A w : Answered(s, w) => call'[s].answer = w
  BY <1>1 DEF Answered, Call
<1>11. \A p : Proceeds(s, p) => call'[s].pc = p
  BY <1>1 DEF Proceeds, Call
<1>12. CASE ReplayKnown(s)
  <2>1. HasMemo(i) /\ AnswerOrPersist(s, i, KnownAnswer(i)) BY <1>12 DEF ReplayKnown
  <2> QED BY <1>10, <2>1 DEF AnswerOrPersist
<1>13. CASE FinishClaim(s)
  <2> DEFINE f == FinishAnswer(i, call[s].answer, call[s].lease)
  <2>1. /\ call[s].pc = "finish"
        /\ \/ f = "saved" /\ Answered(s, call[s].answer)
           \/ f # "saved" /\ Answered(s, f)
    BY <1>13 DEF FinishClaim
  <2>2. f \in {"pending", "superseded", "saved"} BY DEF FinishAnswer
  <2> HIDE DEF f
  <2>3. f = "saved" /\ call[s].answer = "applied" BY <1>10, <2>1, <2>2
  <2> QED BY <2>1, <2>3 DEF f
<1>14. ~(ReplayLate(s) \/ ReplayFuture(s) \/ ReplayOutdated(s))
  BY <1>10 DEF ReplayLate, ReplayFuture, ReplayOutdated
<1>15. ~(ReplayMessage(s) \/ ReplayPresence(s) \/ ReplayClaim(s))
  BY <1>11 DEF ReplayMessage, ReplayPresence, ReplayClaim
<1>16. ~(Persist(s) \/ AdmitClaim(s) \/ DispatchClaim(s))
  BY DEF Persist, AdmitClaim, DispatchClaim
<1> QED BY <1>8, <1>9, <1>12, <1>13, <1>14, <1>15, <1>16 DEF Handler

(* A claim is answered applied only while its agent holds that very lease, *)
(* unexpired and uncontested, and the request itself has not expired.      *)
THEOREM GrantsAreCurrent == Spec => GrantIsCurrent
<1> DEFINE Current(s) ==
             LET i == call[s].id
             IN  /\ call[s].pc \in {"sent", "finish"} /\ IsClaim(i)
                 /\ call'[s].pc = "reply" /\ call'[s].answer = "applied"
                 => /\ lease[req[i].agent].by = i
                    /\ lease[req[i].agent].status = "granted"
                    /\ now < lease[req[i].agent].exp
                    /\ now < req[i].expires
<1>1. ReplayInv /\ [Next]_vars => [\A s \in Slots : Current(s)]_vars
  <2> SUFFICES ASSUME ReplayInv, Next, NEW s \in Slots, NEW i \in Ids, call[s].id = i,
                      call[s].pc \in {"sent", "finish"}, IsClaim(i),
                      call'[s].pc = "reply", call'[s].answer = "applied"
               PROVE  /\ lease[req[i].agent].by = i
                      /\ lease[req[i].agent].status = "granted"
                      /\ now < lease[req[i].agent].exp
                      /\ now < req[i].expires
    <3>1. ReplayInv => \A s \in Slots : call[s].id \in Ids BY CallTypes DEF ReplayInv
    <3> QED BY <3>1
  <2>1. /\ now \in Int /\ req[i].expires \in Int /\ call[s].lease \in Int
        /\ memo[i] \in Memo /\ memo[i].until \in Int /\ memo[i].lease \in Int
    BY CallTypes DEF ReplayInv, TypeInv, TypeOK, BaseTypeOK, HubTypeOK, Memo
  <2>2. CASE HasMemo(i) /\ KnownAnswer(i) = "applied"
    <3>1. /\ ~(req[i].expires <= now) /\ memo[i].state # "pending" /\ ~(memo[i].until <= now)
          /\ memo[i].answer # "superseded" /\ HoldsLease(i, memo[i].lease)
      BY <2>2 DEF KnownAnswer
    <3>2. memo[i].answer = "applied"
      BY <2>1, <2>2, <3>1 DEF HasMemo, Memo, ReplayInv, ToldInv, MemoTold
    <3>3. memo[i].until <= memo[i].lease BY <3>2 DEF ReplayInv, ToldInv, MemoTold
    <3>4. lease[req[i].agent].by = i /\ lease[req[i].agent].status = "granted"
          /\ lease[req[i].agent].exp = memo[i].lease
      BY <3>1 DEF HoldsLease
    <3> QED BY <2>1, <3>1, <3>3, <3>4
  <2>3. CASE FinishAnswer(i, "applied", call[s].lease) = "saved"
    <3> DEFINE e == call[s].lease
               u == IF e < req[i].expires THEN e ELSE req[i].expires
    <3>1. ~(u <= now) /\ HoldsLease(i, e) BY <2>3 DEF FinishAnswer
    <3>2. now < e /\ now < req[i].expires BY <2>1, <3>1
    <3>3. lease[req[i].agent].by = i /\ lease[req[i].agent].status = "granted"
          /\ lease[req[i].agent].exp = e
      BY <3>1 DEF HoldsLease
    <3> QED BY <3>2, <3>3
  <2> QED BY <2>2, <2>3, GrantStep
<1> QED BY <1>1, ReplayInvariant, PTL DEF Spec, GrantIsCurrent

-----------------------------------------------------------------------------
(* The contract is kept: one step of the specification is one step of the  *)
(* contract, or none.                                                      *)

Outcomes == [i \in Ids |-> Outcome(i)]
Dones == {i \in Ids : Delivery(i) /\ HasEffect(i)}

\* A step of the hub is one request that takes effect, or none.
LEMMA HubPromise ==
    ASSUME ReplayInv, HubStep
    PROVE  \/ Outcomes' = Outcomes /\ Dones' = Dones
           \/ \E i \in Ids : /\ Outcomes[i] \in {"pending", "rejected"} /\ i \notin Dones
                             /\ Dones' = Dones \cup {i} /\ Outcomes' = Outcomes
<1> USE DEF ReplayInv
<1>1. req' = req /\ status' = status /\ log \in Seq(Ids) BY HubCalls DEF TypeInv, TypeOK, HubTypeOK
<1>2. Outcomes' = Outcomes BY <1>1 DEF Outcomes, Outcome, Delivery, IsClaim, IsPending
<1>3. \A j \in Ids : Delivery(j)' <=> Delivery(j) BY <1>1 DEF Delivery, IsClaim
<1>4. ASSUME log' = log PROVE Dones' = Dones BY <1>3, <1>4 DEF Dones, HasEffect
<1>5. ASSUME NEW i \in Ids, log' = Append(log, i)
      PROVE  Dones' = IF Delivery(i) THEN Dones \cup {i} ELSE Dones
  <2>1. \A j \in Ids : HasEffect(j)' <=> HasEffect(j) \/ j = i BY <1>1, <1>5, AppendEffect
  <2> QED BY <1>3, <2>1 DEF Dones
<1>6. CASE Quiet BY <1>2, <1>4, <1>6 DEF Quiet
<1>7. ASSUME NEW s \in Slots, NEW m \in Memo, FirstSight(s, m), log' # log
      PROVE  \E i \in Ids : /\ Outcomes[i] \in {"pending", "rejected"} /\ i \notin Dones
                            /\ Dones' = Dones \cup {i} /\ Outcomes' = Outcomes
  <2>1. PICK i \in Ids : call[s].id = i BY CallTypes
  <2>2. Fresh(s) /\ log' = Append(log, i) /\ ~IsClaim(i) BY <1>7, <2>1 DEF FirstSight
  <2>3. call[s].pc = "sent" /\ memo[i].state = "none" /\ ~Closed(i)
    BY <2>1, <2>2, FreshHasNoMemo DEF Fresh, Closed
  <2>4. ~HasEffect(i) BY <2>3 DEF OnceInv, EffectHasMemo
  <2>5. Sent(i) BY <2>1, <2>3 DEF JournalInv, CallsWereSent
  <2>6. status[i] # "applied" BY <2>4 DEF ToldInv, AppliedIsDurable
  <2>7. status[i] # "superseded" BY <2>1, <2>2, <2>3 DEF ToldInv, CallsTold, CallTold
  <2>8. Outcomes[i] \in {"pending", "rejected"}
    BY <2>2, <2>5, <2>6, <2>7 DEF Outcomes, Outcome, Delivery, IsPending, Sent
  <2>9. i \notin Dones /\ Dones' = Dones \cup {i} BY <1>5, <2>2, <2>4 DEF Dones, Delivery
  <2> QED BY <1>2, <2>8, <2>9
<1>8. ASSUME NEW s \in Slots, DispatchClaim(s) PROVE Dones' = Dones
  <2>1. PICK i \in Ids : call[s].id = i BY CallTypes
  <2>2. IsClaim(i) BY <1>8, <2>1 DEF DispatchClaim, ToldInv, CallsTold, CallTold
  <2>3. log' = Append(log, i) BY <1>8, <2>1 DEF DispatchClaim
  <2> QED BY <1>5, <2>2, <2>3 DEF Delivery
<1>9. ASSUME NEW s \in Slots, FinishClaim(s) PROVE Dones' = Dones
  BY <1>4, <1>9 DEF FinishClaim
<1> QED BY <1>2, <1>4, <1>6, <1>7, <1>8, <1>9, HubShape

\* A step of a client is a request accepted or settled, or none.
LEMMA ClientPromise ==
    ASSUME ReplayInv, NEW c \in Clients, Submit(c) \/ Flush(c) \/ Crash(c)
    PROVE  /\ Dones' = Dones
           /\ \/ Outcomes' = Outcomes
              \/ \E i \in Ids : Outcomes[i] = "absent" /\ Outcomes' = [Outcomes EXCEPT ![i] = "pending"]
              \/ \E i \in Ids, v \in {"applied", "expired", "superseded", "rejected"} :
                     /\ Outcomes[i] = "pending"
                     /\ v = "applied" => i \in Dones
                     /\ v \in {"expired", "superseded"} => i \notin Dones
                     /\ Outcomes' = [Outcomes EXCEPT ![i] = v]
<1> USE DEF ReplayInv
<1>1. /\ status \in [Ids -> Statuses] /\ req \in [Ids -> Request] /\ call \in [Slots -> Call]
  BY DEF TypeInv, TypeOK, BaseTypeOK, ClientTypeOK
<1>2. log' = log BY DEF Submit, Flush, Crash, hubVars
<1>3. \A j : HasEffect(j)' <=> HasEffect(j) BY <1>2 DEF HasEffect
<1> DEFINE Settles(i, v) ==
             /\ Outcomes[i] = "pending"
             /\ v = "applied" => i \in Dones
             /\ v \in {"expired", "superseded"} => i \notin Dones
             /\ Outcomes' = [Outcomes EXCEPT ![i] = v]
<1>4. ASSUME req' = req PROVE Dones' = Dones
  BY <1>3, <1>4 DEF Dones, Delivery, IsClaim
<1>5. ASSUME req' = req, status' = status PROVE Outcomes' = Outcomes
  BY <1>5 DEF Outcomes, Outcome, Delivery, IsClaim, IsPending
<1>6. ASSUME req' = req, NEW i \in Ids, NEW v \in {"applied", "expired", "superseded", "rejected"},
             IsPending(i), status' = [status EXCEPT ![i] = v],
             ~IsClaim(i) /\ v = "applied" => HasEffect(i),
             ~IsClaim(i) /\ v \in {"expired", "superseded"} => ~HasEffect(i)
      PROVE  Outcomes' = Outcomes \/ Settles(i, v)
  <2>1. status'[i] = v /\ \A j \in Ids : j # i => status'[j] = status[j] BY <1>1, <1>6
  <2>2. \A j \in Ids : j # i => Outcome(j)' = Outcome(j)
    BY <1>6, <2>1 DEF Outcome, Delivery, IsClaim, IsPending
  <2>3. CASE IsClaim(i)
    <3>1. Outcome(i)' = Outcome(i) BY <1>6, <2>3 DEF Outcome, Delivery, IsClaim
    <3> QED BY <2>2, <3>1 DEF Outcomes
  <2>4. CASE ~IsClaim(i)
    <3>1. Outcome(i) = "pending" /\ Outcome(i)' = v
      BY <1>6, <2>1, <2>4 DEF Outcome, Delivery, IsClaim, IsPending
    <3>2. Outcomes' = [Outcomes EXCEPT ![i] = v] BY <2>2, <3>1 DEF Outcomes
    <3>3. Outcomes[i] = "pending" BY <3>1 DEF Outcomes
    <3> QED BY <1>6, <2>4, <3>2, <3>3 DEF Dones, Delivery
  <2> QED BY <2>3, <2>4
<1>7. CASE Submit(c)
  <2>1. PICK r : Enqueue(c, r)
    BY <1>7 DEF Submit, SubmitSend, SubmitAck, SubmitPresence, SubmitClaim
  <2>2. last[c] \in 0 .. MaxSeq /\ last[c] < MaxSeq /\ MaxSeq \in Nat
    BY <2>1, BaseAssumption DEF TypeInv, TypeOK, ClientTypeOK, Enqueue
  <2>3. PICK i \in Ids : i = <<c, last[c] + 1>>
    <3>1. last[c] + 1 \in 1 .. MaxSeq BY <2>2
    <3> QED BY <3>1 DEF Ids
  <2>4. status[i] = "absent" BY <2>2, <2>3 DEF JournalInv, Numbered
  <2>5. /\ status'[i] = "queued"
        /\ \A j \in Ids : j # i => status'[j] = status[j] /\ req'[j] = req[j]
    BY <1>1, <2>1, <2>3 DEF Enqueue
  <2>6. ~HasEffect(i) BY <2>4 DEF ToldInv, UnattemptedHasNoEffect
  <2>7. Dones' = Dones
    <3>1. \A j \in Ids : j # i => (Delivery(j)' <=> Delivery(j)) BY <2>5 DEF Delivery, IsClaim
    <3> QED BY <1>3, <2>6, <3>1 DEF Dones
  <2>8. \A j \in Ids : j # i => Outcome(j)' = Outcome(j)
    BY <2>5 DEF Outcome, Delivery, IsClaim, IsPending
  <2>9. Outcome(i) = "absent" BY <2>4 DEF Outcome, IsPending
  <2>10. Outcome(i)' \in {"absent", "pending"} BY <2>5 DEF Outcome, IsPending
  <2>11. Outcomes[i] = "absent" BY <2>9 DEF Outcomes
  <2>12. Outcomes' = Outcomes \/ Outcomes' = [Outcomes EXCEPT ![i] = "pending"]
    BY <2>8, <2>9, <2>10 DEF Outcomes
  <2> QED BY <2>7, <2>11, <2>12
<1>8. ASSUME ~Submit(c) PROVE req' = req
  BY <1>8 DEF Flush, Crash, ClientCrash, FlushPending, ExpireLocally, SupersedeLocally,
              MarkAttempted, Receive, CallRoute, Timeout, FinishFlush
<1>9. ASSUME ~Submit(c), Crash(c) \/ FlushPending(c) \/ FinishFlush(c) \/ Timeout(c)
      PROVE  Outcomes' = Outcomes
  BY <1>5, <1>8, <1>9 DEF Crash, ClientCrash, FlushPending, FinishFlush, Timeout
<1>10. ASSUME ~Submit(c), NEW n \in 1 .. MaxSeq, NEW s \in Slots, CallRoute(c, n, s)
       PROVE  Outcomes' = Outcomes
  BY <1>5, <1>8, <1>10 DEF CallRoute
<1>11. ASSUME ~Submit(c), NEW n \in 1 .. MaxSeq, MarkAttempted(c, n) PROVE Outcomes' = Outcomes
  <2>1. PICK i \in Ids : i = <<c, n>> BY DEF Ids
  <2>2. IsPending(i) /\ status' = [status EXCEPT ![i] = "attempted"]
    BY <1>11, <2>1 DEF MarkAttempted, Scanning, IsHead, Pending
  <2>3. \A j \in Ids : (IsPending(j)' <=> IsPending(j)) /\ (~IsPending(j) => status'[j] = status[j])
    BY <1>1, <2>2 DEF IsPending
  <2> QED BY <1>8, <1>11, <2>3 DEF Outcomes, Outcome, Delivery, IsClaim
<1>12. ASSUME ~Submit(c), NEW n \in 1 .. MaxSeq, ExpireLocally(c, n) \/ SupersedeLocally(c, n)
       PROVE  \E i \in Ids, v \in {"applied", "expired", "superseded", "rejected"} :
                  Outcomes' = Outcomes \/ Settles(i, v)
  <2>1. PICK i \in Ids : i = <<c, n>> BY DEF Ids
  <2>2. PICK v \in {"expired", "superseded"} : /\ status' = [status EXCEPT ![i] = v]
                                              /\ status[i] = "queued"
    BY <1>12, <2>1 DEF ExpireLocally, SupersedeLocally, Settle, MayExpire, Outdated
  <2>3. IsPending(i) /\ ~HasEffect(i) BY <2>2 DEF IsPending, ToldInv, UnattemptedHasNoEffect
  <2>4. Outcomes' = Outcomes \/ Settles(i, v) BY <1>6, <1>8, <1>12, <2>2, <2>3
  <2> HIDE DEF Settles
  <2> QED BY <2>2, <2>4
<1>13. ASSUME ~Submit(c), NEW n \in 1 .. MaxSeq, Receive(c, n)
       PROVE  \E i \in Ids, v \in {"applied", "expired", "superseded", "rejected"} :
                  Outcomes' = Outcomes \/ Settles(i, v)
  <2>1. PICK i \in Ids : i = <<c, n>> BY DEF Ids
  <2>2. PICK s \in Slots : s = sess[c].slot BY <1>13, ReceiveCases
  <2>3. call[s].id = i /\ status[i] = "attempted" /\ call[s].pc = "reply"
    BY <1>13, <2>1, <2>2, ReceiveCases
  <2>4. CallTold(call[s]) BY DEF ToldInv, CallsTold
  <2>5. CASE status' = status BY <1>5, <1>8, <1>13, <2>5
  <2>6. CASE status' # status
    <3>1. PICK v \in {"applied", "superseded", "rejected"} :
              /\ status' = [status EXCEPT ![i] = v]
              /\ v # "rejected" => v = call[s].answer
      BY <1>13, <2>1, <2>2, <2>6, ReceiveCases
    <3>2. /\ v = "applied" => HasEffect(i)
          /\ ~IsClaim(i) /\ v = "superseded" => ~HasEffect(i)
      BY <2>3, <2>4, <3>1 DEF CallTold
    <3>3. IsPending(i) BY <2>3 DEF IsPending
    <3>4. Outcomes' = Outcomes \/ Settles(i, v) BY <1>6, <1>8, <1>13, <3>1, <3>2, <3>3
    <3> HIDE DEF Settles
    <3> QED BY <3>1, <3>4
  <2> QED BY <2>5, <2>6
<1>14. Flush(c) => \/ FlushPending(c) \/ FinishFlush(c) \/ Timeout(c)
                   \/ \E n \in 1 .. MaxSeq : \/ ExpireLocally(c, n) \/ SupersedeLocally(c, n)
                                             \/ MarkAttempted(c, n) \/ Receive(c, n)
                                             \/ \E s \in Slots : CallRoute(c, n, s)
  BY DEF Flush
<1>15. CASE ~Submit(c)
  <2>1. Dones' = Dones BY <1>4, <1>8, <1>15
  <2>2. Outcomes' = Outcomes \/
          \E i \in Ids, v \in {"applied", "expired", "superseded", "rejected"} : Settles(i, v)
    <3> HIDE DEF Settles
    <3> QED BY <1>9, <1>10, <1>11, <1>12, <1>13, <1>14, <1>15
  <2> QED BY <2>1, <2>2
<1> QED BY <1>7, <1>15

(* Journals, network and hub keep the promise of ReplayContract to every   *)
(* message and presence: accepted once, at most one effect, and a verdict  *)
(* that stays true.  Only a rejected one may still take effect.            *)
THEOREM PromiseIsKept == Spec => KeepsPromise
<1>1. Init => Promise!ContractInit
  <2> SUFFICES ASSUME Init PROVE Promise!ContractInit OBVIOUS
  <2>1. log = << >> /\ Len(log) = 0 BY DEF Init, HubInit
  <2>2. \A i \in Ids : ~HasEffect(i) /\ Outcome(i) = "absent"
    BY <2>1 DEF HasEffect, Init, ClientInit, Outcome, IsPending
  <2> QED BY <2>2 DEF Promise!ContractInit
<1>2. ReplayInv /\ [Next]_vars => [Promise!ContractNext]_<<Outcomes, Dones>>
  <2> SUFFICES ASSUME ReplayInv, [Next]_vars
               PROVE  Promise!ContractNext \/ (Outcomes' = Outcomes /\ Dones' = Dones)
    OBVIOUS
  <2>1. CASE UNCHANGED vars
    <3>1. req' = req /\ status' = status /\ log' = log BY <2>1 DEF vars, clientVars, hubVars
    <3> QED BY <3>1 DEF Outcomes, Outcome, Dones, Delivery, IsClaim, IsPending, HasEffect
  <2>2. CASE HubStep
    <3>1. ASSUME NEW i \in Ids, Outcomes[i] \in {"pending", "rejected"}, i \notin Dones,
                 Dones' = Dones \cup {i}, Outcomes' = Outcomes
          PROVE  Promise!ContractNext
      <4>1. Promise!TakeEffect(i) BY <3>1 DEF Promise!TakeEffect, Outcomes, Dones
      <4> QED BY <4>1 DEF Promise!ContractNext
    <3> QED BY <2>2, <3>1, HubPromise
  <2>3. ASSUME NEW c \in Clients, Submit(c) \/ Flush(c) \/ Crash(c)
        PROVE  Promise!ContractNext \/ (Outcomes' = Outcomes /\ Dones' = Dones)
    <3>1. Dones' = Dones BY <2>3, ClientPromise
    <3>2. ASSUME NEW i \in Ids, Outcomes[i] = "absent", Outcomes' = [Outcomes EXCEPT ![i] = "pending"]
          PROVE  Promise!ContractNext
      <4>1. Promise!Accept(i) BY <3>1, <3>2 DEF Promise!Accept, Outcomes, Dones
      <4> QED BY <4>1 DEF Promise!ContractNext
    <3>3. ASSUME NEW i \in Ids, NEW v \in {"applied", "expired", "superseded", "rejected"},
                 Outcomes[i] = "pending", v = "applied" => i \in Dones,
                 v \in {"expired", "superseded"} => i \notin Dones,
                 Outcomes' = [Outcomes EXCEPT ![i] = v]
          PROVE  Promise!ContractNext
      <4>1. Promise!Conclude(i, v) BY <3>1, <3>3 DEF Promise!Conclude, Outcomes, Dones
      <4>2. v \in Promise!Verdicts BY DEF Promise!Verdicts
      <4> QED BY <4>1, <4>2 DEF Promise!ContractNext
    <3> QED BY <2>3, <3>1, <3>2, <3>3, ClientPromise
  <2> QED BY <2>1, <2>2, <2>3 DEF Next, HubStep
<1> QED BY <1>1, <1>2, ReplayInvariant, PTL DEF Spec, KeepsPromise, Promise!Contract, Outcomes, Dones

-----------------------------------------------------------------------------
(* Presence.  The marker of an agent names a presence that took effect and *)
(* is not older than any that did, unless that one is so old that no       *)
(* request still valid can be older.                                       *)

\* Requests are numbered in the order of the client's clock, and a presence
\* does not live longer than the retention.
RequestTimes ==
    /\ \A i \in Ids : status[i] # "absent" => req[i].created <= ClientNow(i[1])
    /\ \A i \in Ids : status[i] # "absent" /\ IsPresence(i) =>
           req[i].created < req[i].expires /\ req[i].expires <= req[i].created + Retention
    /\ \A c \in Clients, n, m \in 1 .. MaxSeq :
           n < m /\ status[<<c, n>>] # "absent" /\ status[<<c, m>>] # "absent" =>
               req[<<c, n>>].created <= req[<<c, m>>].created

MarkerTrue ==
    \A a \in Agents : HasMarker(a) =>
        LET i == marker[a].by
        IN  /\ IsPresence(i) /\ req[i].agent = a /\ HasEffect(i)
            /\ marker[a].created = req[i].created
            /\ marker[a].exp = req[i].expires + Retention

\* A presence of that age is expired whoever created it later.
Faded(i) == req[i].created + Retention < now

Covers(k, j) == k = j \/ (j < k /\ InTime(j, k))

MarkerCovers ==
    \A j \in 1 .. Len(log) :
        LET a == req[log[j]].agent
        IN  IsPresence(log[j]) /\ memo[log[j]].state = "applied" =>
                \/ Faded(log[j])
                \/ HasMarker(a) /\ \E k \in 1 .. Len(log) : log[k] = marker[a].by /\ Covers(k, j)

PresenceInv == RequestTimes /\ MarkerTrue /\ MarkerCovers /\ PresenceNeverRegresses

\* How two effects compare does not change with what comes later.
LEMMA InTimeKept ==
    ASSUME log \in Seq(Ids),
           \A h \in 1 .. Len(log) : log'[h] = log[h] /\ req'[log[h]] = req[log[h]],
           NEW j \in 1 .. Len(log), NEW k \in 1 .. Len(log)
    PROVE  InTime(j, k)' <=> InTime(j, k)
<1>1. Len(log) \in Nat OBVIOUS
<1>2. (j + 1) .. (k - 1) \subseteq 1 .. Len(log) BY <1>1
<1>3. \A m \in (j + 1) .. (k - 1) :
          log'[m] = log[m] /\ req'[log[m]] = req[log[m]] /\ (IsPresence(log[m])' <=> IsPresence(log[m]))
  BY <1>2 DEF IsPresence
<1>4. SameInstantBetween(j, k)' <=> SameInstantBetween(j, k)
  BY <1>3 DEF SameInstantBetween, IsPresence
<1> QED BY <1>4 DEF InTime

\* A step that leaves the markers and applies no presence keeps the order.
LEMMA OrderKept ==
    ASSUME TypeInv, PresenceInv, Len(log) <= Len(log'), Len(log') \in Nat,
           now' = now, marker' = marker,
           \A h \in 1 .. Len(log) : log'[h] = log[h] /\ req'[log[h]] = req[log[h]],
           \A h \in 1 .. Len(log') : (IsPresence(log[h]) /\ memo[log[h]].state = "applied")' =>
               h \in 1 .. Len(log) /\ memo[log[h]].state = "applied"
    PROVE  MarkerTrue' /\ MarkerCovers' /\ PresenceNeverRegresses'
<1>1. log \in Seq(Ids) /\ Len(log) \in Nat BY DEF TypeInv, TypeOK, HubTypeOK
<1>2. \A h \in 1 .. Len(log) : h \in 1 .. Len(log') BY <1>1
<1>3. \A i : HasEffect(i) => HasEffect(i)' /\ req'[i] = req[i]
  BY <1>2 DEF HasEffect
<1>4. \A a : HasMarker(a)' <=> HasMarker(a) BY DEF HasMarker
<1>5. \A h \in 1 .. Len(log) : /\ (IsPresence(log[h])' <=> IsPresence(log[h]))
                               /\ (Faded(log[h])' <=> Faded(log[h]))
  BY DEF IsPresence, Faded
<1>6. MarkerTrue'
  <2> SUFFICES ASSUME NEW a \in Agents, HasMarker(a)
               PROVE  LET i == marker[a].by
                      IN  /\ req'[i].op = "presence" /\ req'[i].agent = a /\ HasEffect(i)'
                          /\ marker[a].created = req'[i].created
                          /\ marker[a].exp = req'[i].expires + Retention
    BY <1>4 DEF MarkerTrue, IsPresence, HasEffect
  <2> DEFINE i == marker[a].by
  <2>1. /\ IsPresence(i) /\ req[i].agent = a /\ HasEffect(i)
        /\ marker[a].created = req[i].created /\ marker[a].exp = req[i].expires + Retention
    BY DEF PresenceInv, MarkerTrue
  <2>2. req'[i] = req[i] /\ HasEffect(i)' BY <1>3, <2>1 DEF HasEffect
  <2> QED BY <2>1, <2>2 DEF IsPresence
<1>7. MarkerCovers'
  <2> SUFFICES ASSUME NEW j \in 1 .. Len(log'), IsPresence(log[j])', memo'[log'[j]].state = "applied",
                      ~Faded(log[j])'
               PROVE  /\ HasMarker(req[log[j]].agent)'
                      /\ \E k \in 1 .. Len(log') : /\ log'[k] = marker'[req'[log'[j]].agent].by
                                                   /\ Covers(k, j)'
    BY DEF MarkerCovers
  <2>1. j \in 1 .. Len(log) /\ memo[log[j]].state = "applied" /\ log'[j] = log[j]
        /\ req'[log[j]] = req[log[j]]
    OBVIOUS
  <2>2. IsPresence(log[j]) /\ ~Faded(log[j])
    BY <1>5, <2>1
  <2>3. PICK a : a = req[log[j]].agent OBVIOUS
  <2>4. PICK k \in 1 .. Len(log) : HasMarker(a) /\ log[k] = marker[a].by /\ Covers(k, j)
    BY <2>1, <2>2, <2>3 DEF PresenceInv, MarkerCovers
  <2>5. InTime(j, k)' <=> InTime(j, k) BY <1>1, <2>1, InTimeKept
  <2>6. Covers(k, j)' BY <2>4, <2>5 DEF Covers
  <2>7. HasMarker(req[log[j]].agent)' BY <1>4, <2>1, <2>3, <2>4 DEF HasMarker
  <2> QED BY <1>2, <2>1, <2>3, <2>4, <2>6, <2>7
<1>8. PresenceNeverRegresses'
  <2> SUFFICES ASSUME NEW j \in 1 .. Len(log'), NEW k \in 1 .. Len(log'), j < k,
                      IsPresence(log[j])', IsPresence(log[k])',
                      req'[log'[j]].agent = req'[log'[k]].agent,
                      memo'[log'[j]].state = "applied", memo'[log'[k]].state = "applied"
               PROVE  InTime(j, k)'
    BY DEF PresenceNeverRegresses
  <2>1. /\ j \in 1 .. Len(log) /\ memo[log[j]].state = "applied"
        /\ k \in 1 .. Len(log) /\ memo[log[k]].state = "applied"
    OBVIOUS
  <2>2. InTime(j, k)
    BY <1>5, <2>1 DEF PresenceInv, PresenceNeverRegresses
  <2> QED BY <1>1, <2>1, <2>2, InTimeKept
<1> QED BY <1>6, <1>7, <1>8

\* A presence that the script lets through is not older than any that took
\* effect: the marker says so, or the other one has faded.
LEMMA LetThrough ==
    ASSUME ReplayInv, PresenceInv, NEW s \in Slots, Fresh(s), NEW i \in Ids, call[s].id = i,
           IsPresence(i), ~Newer(i, req[i].agent), log' = Append(log, i), req' = req,
           NEW j \in 1 .. Len(log), IsPresence(log[j]), req[log[j]].agent = req[i].agent,
           memo[log[j]].state = "applied", NEW l, l = Len(log) + 1
    PROVE  InTime(j, l)'
<1> USE DEF ReplayInv
<1> DEFINE a == req[i].agent
           p == log[j]
<1>1. log \in Seq(Ids) /\ Len(log) \in Nat /\ p \in Ids /\ a \in Agents
  BY CallTypes DEF TypeInv, TypeOK, HubTypeOK
<1>2. log'[l] = i /\ \A h \in 1 .. Len(log) : log'[h] = log[h] BY <1>1
<1>3. \A h \in Ids : req[h].created \in Int /\ req[h].expires \in Int
  BY DEF TypeInv, TypeOK, BaseTypeOK, Request
<1>4. now \in Int /\ Retention \in Nat BY LifetimeAssumption DEF TypeInv, TypeOK, BaseTypeOK
<1>5. \A h \in Ids : HasEffect(h) => status[h] # "absent"
  BY DEF ToldInv, UnattemptedHasNoEffect
<1>6. HasEffect(p) /\ status[p] # "absent" BY <1>1, <1>5 DEF HasEffect
<1>7. ~HasEffect(i) BY FreshHasNoMemo DEF OnceInv, EffectHasMemo
<1>8. status[i] # "absent"
  <2>1. call[s].pc = "sent" BY DEF Fresh
  <2> QED BY <2>1 DEF JournalInv, CallsWereSent, Sent
<1>9. PICK c \in Clients, n \in 1 .. MaxSeq : i = <<c, n>> BY DEF Ids
<1>10. PICK d \in Clients, m \in 1 .. MaxSeq : p = <<d, m>> BY <1>1 DEF Ids
<1>11. i[1] = c /\ i[2] = n /\ p[1] = d /\ p[2] = m BY <1>9, <1>10
<1>12. MaxSeq \in Nat BY BaseAssumption
<1>13. d = c => m < n \/ req[i].created <= req[p].created
  <2>1. d = c => m # n BY <1>6, <1>7, <1>9, <1>10
  <2>2. d = c /\ n < m => req[i].created <= req[p].created
    BY <1>6, <1>8, <1>9, <1>10 DEF PresenceInv, RequestTimes
  <2> QED BY <1>12, <2>1, <2>2
<1>14. now < req[i].expires /\ req[i].expires <= req[i].created + Retention
  <2>1. ~Expired(i, now) BY DEF Fresh
  <2>2. ~(now >= req[i].expires) BY <2>1 DEF Expired, IsPresence
  <2>3. req[i].expires <= req[i].created + Retention
    BY <1>8 DEF PresenceInv, RequestTimes
  <2> QED BY <1>3, <1>4, <2>2, <2>3
<1> DEFINE Same == SameInstantBetween(j, l)'
<1>15. SUFFICES /\ req[p].created <= req[i].created
                /\ d = c => m < n \/ Same
  BY <1>2, <1>11 DEF InTime
<1>16. CASE Faded(p)
  <2>1. req[p].created < req[i].created
    BY <1>1, <1>3, <1>4, <1>14, <1>16 DEF Faded
  <2> QED BY <1>1, <1>3, <1>13, <2>1
<1>17. CASE ~Faded(p)
  <2>1. PICK k \in 1 .. Len(log) : HasMarker(a) /\ log[k] = marker[a].by /\ Covers(k, j)
    BY <1>17 DEF PresenceInv, MarkerCovers
  <2>2. PICK q \in Ids : q = log[k] BY <1>1
  <2>3. IsPresence(q) /\ req[q].agent = a /\ marker[a].created = req[q].created
    BY <1>1, <2>1, <2>2 DEF PresenceInv, MarkerTrue
  <2>4. /\ ~(q[1] = i[1] /\ q[2] >= i[2])
        /\ ~(req[q].created > req[i].created)
    BY <2>1, <2>2, <2>3 DEF Newer
  <2>5. req[q].created <= req[i].created BY <1>3, <2>4
  <2>6. PICK e \in Clients, h \in 1 .. MaxSeq : q = <<e, h>> BY DEF Ids
  <2>7. q[1] = e /\ q[2] = h /\ (e = c => h < n) BY <1>11, <1>12, <2>4, <2>6
  <2>8. CASE k = j
    <3>1. q = p BY <2>2, <2>8
    <3>2. d = e /\ m = h BY <1>11, <2>7, <3>1
    <3> QED BY <2>5, <2>7, <3>1, <3>2
  <2>9. CASE k # j
    <3>1. j < k /\ InTime(j, k) BY <2>1, <2>9 DEF Covers
    <3>2. req[p].created <= req[q].created BY <2>2, <3>1 DEF InTime
    <3>3. req[p].created <= req[i].created BY <1>1, <1>3, <2>5, <3>2
    <3>4. ASSUME d = c, ~(m < n) PROVE Same
      <4>1. req[i].created <= req[p].created BY <1>13, <3>4
      <4>2. req[q].created = req[p].created BY <1>1, <1>3, <2>5, <3>2, <4>1
      <4>3. CASE e = c
        <5>1. ~(m < h) BY <1>12, <2>7, <3>4, <4>3
        <5>2. SameInstantBetween(j, k)
          BY <1>11, <2>2, <2>7, <3>1, <3>4, <4>3, <5>1 DEF InTime
        <5>3. PICK g \in (j + 1) .. (k - 1) :
                  /\ IsPresence(log[g]) /\ req[log[g]].agent = req[log[j]].agent
                  /\ req[log[g]].created = req[log[j]].created
                  /\ log[g][1] # log[j][1]
          BY <5>2 DEF SameInstantBetween
        <5>4. g \in 1 .. Len(log) /\ g \in (j + 1) .. (l - 1) BY <1>1
        <5> QED BY <1>2, <5>3, <5>4 DEF SameInstantBetween, IsPresence
      <4>4. CASE e # c
        <5>1. k \in (j + 1) .. (l - 1) BY <1>1, <3>1
        <5>2. log[k][1] # log[j][1] BY <1>11, <2>2, <2>7, <3>4, <4>4
        <5> QED BY <1>2, <2>2, <2>3, <4>2, <5>1, <5>2 DEF SameInstantBetween, IsPresence
      <4> QED BY <4>3, <4>4
    <3> QED BY <3>3, <3>4
  <2> QED BY <2>8, <2>9
<1> QED BY <1>16, <1>17

\* A presence that is let through becomes the marker, applied or half way.
LEMMA MarkerSet ==
    ASSUME ReplayInv, PresenceInv, NEW s \in Slots, Fresh(s), NEW i \in Ids, call[s].id = i,
           IsPresence(i), ~Newer(i, req[i].agent), log' = Append(log, i), req' = req, now' = now,
           marker' = [marker EXCEPT ![req[i].agent] = MarkerOf(i)],
           \A h \in Ids : h # i => memo'[h] = memo[h]
    PROVE  MarkerTrue' /\ MarkerCovers' /\ PresenceNeverRegresses'
<1> USE DEF ReplayInv
<1>1. PICK b : b = req[i].agent OBVIOUS
<1>2. PICK l : l = Len(log) + 1 OBVIOUS
<1> USE <1>1, <1>2
<1>3. /\ log \in Seq(Ids) /\ Len(log) \in Nat /\ b \in Agents /\ marker \in [Agents -> Marker]
      /\ \A h \in 1 .. Len(log) : log[h] \in Ids
      /\ \A h \in Ids : req[h].agent \in Agents
  BY <1>1, CallTypes DEF TypeInv, TypeOK, BaseTypeOK, HubTypeOK, Request
<1>4. /\ log'[l] = i /\ Len(log') = l
      /\ \A h \in 1 .. Len(log) : log'[h] = log[h] /\ req'[log[h]] = req[log[h]]
  BY <1>3
<1>5. \A h \in 1 .. Len(log') : h \in 1 .. Len(log) \/ h = l BY <1>3, <1>4
<1>6. ~HasEffect(i) BY FreshHasNoMemo DEF OnceInv, EffectHasMemo
<1>7. \A h \in 1 .. Len(log) : log[h] # i BY <1>6 DEF HasEffect
<1>8. marker'[b].by = i /\ marker'[b].created = req[i].created
      /\ marker'[b].exp = req[i].expires + Retention
  BY <1>3 DEF MarkerOf
<1>9. \A a \in Agents : a # b => marker'[a] = marker[a] BY <1>3
<1>10. \A h \in Ids : HasEffect(h)' <=> HasEffect(h) \/ h = i BY <1>3, AppendEffect
<1>11. HasMarker(b)'
  BY <1>8, BaseAssumption DEF HasMarker
<1>12. ASSUME NEW j \in 1 .. Len(log), IsPresence(log[j]), req[log[j]].agent = b,
              memo[log[j]].state = "applied"
       PROVE  InTime(j, l)'
  BY <1>12, LetThrough
<1>13. \A h \in 1 .. Len(log) : /\ (IsPresence(log[h])' <=> IsPresence(log[h]))
                                /\ (Faded(log[h])' <=> Faded(log[h]))
                                /\ memo'[log'[h]] = memo[log[h]]
  BY <1>3, <1>4, <1>7 DEF IsPresence, Faded
<1>14. MarkerTrue'
  <2> SUFFICES ASSUME NEW a \in Agents, HasMarker(a)'
               PROVE  /\ req[marker'[a].by].op = "presence" /\ req[marker'[a].by].agent = a
                      /\ HasEffect(marker[a].by)'
                      /\ marker'[a].created = req[marker'[a].by].created
                      /\ marker'[a].exp = req[marker'[a].by].expires + Retention
    BY DEF MarkerTrue, IsPresence
  <2>1. CASE a = b
    <3>1. HasEffect(i)' BY <1>10
    <3>2. HasEffect(marker[b].by)' BY <1>8, <3>1 DEF HasEffect
    <3> QED BY <1>8, <2>1, <3>2 DEF IsPresence
  <2>2. CASE a # b
    <3>1. HasMarker(a) /\ marker'[a] = marker[a] BY <1>9, <2>2 DEF HasMarker
    <3>2. PICK h \in Ids : h = marker[a].by BY <1>3, <3>1 DEF HasMarker, Marker
    <3>3. /\ IsPresence(h) /\ req[h].agent = a /\ HasEffect(h)
          /\ marker[a].created = req[h].created /\ marker[a].exp = req[h].expires + Retention
      BY <3>1, <3>2 DEF PresenceInv, MarkerTrue
    <3>4. HasEffect(h)' BY <1>10, <3>3
    <3>5. HasEffect(marker[a].by)' BY <3>1, <3>2, <3>4 DEF HasEffect
    <3> QED BY <3>1, <3>2, <3>3, <3>5 DEF IsPresence
  <2> QED BY <2>1, <2>2
<1>15. MarkerCovers'
  <2> SUFFICES ASSUME NEW j \in 1 .. Len(log'), IsPresence(log[j])', memo'[log'[j]].state = "applied",
                      ~Faded(log[j])'
               PROVE  /\ HasMarker(req[log[j]].agent)'
                      /\ \E k \in 1 .. Len(log') : /\ log'[k] = marker'[req[log'[j]].agent].by
                                                   /\ Covers(k, j)'
    BY DEF MarkerCovers
  <2>1. l \in 1 .. Len(log') BY <1>3, <1>4
  <2>2. CASE j = l
    <3>1. req[log'[j]].agent = b /\ log'[l] = marker'[b].by BY <1>4, <1>8, <2>2
    <3>2. Covers(l, j)' BY <2>2 DEF Covers
    <3>3. HasMarker(req[log[j]].agent)' BY <1>11, <3>1 DEF HasMarker
    <3> QED BY <2>1, <3>1, <3>2, <3>3
  <2>3. CASE j \in 1 .. Len(log)
    <3>1. IsPresence(log[j]) /\ memo[log[j]].state = "applied" /\ ~Faded(log[j]) /\ log'[j] = log[j]
      BY <1>4, <1>13, <2>3
    <3>2. CASE req[log[j]].agent = b
      <4>1. InTime(j, l)' /\ j < l BY <1>3, <1>12, <2>3, <3>1, <3>2
      <4>2. Covers(l, j)' BY <4>1 DEF Covers
      <4>3. HasMarker(req[log[j]].agent)' BY <1>11, <3>1, <3>2 DEF HasMarker
      <4> QED BY <1>4, <1>8, <2>1, <3>1, <3>2, <4>2, <4>3
    <3>3. CASE req[log[j]].agent # b
      <4>1. PICK a \in Agents : a = req[log[j]].agent BY <1>3, <2>3
      <4>2. PICK k \in 1 .. Len(log) : HasMarker(a) /\ log[k] = marker[a].by /\ Covers(k, j)
        BY <2>3, <3>1, <4>1 DEF PresenceInv, MarkerCovers
      <4>3. InTime(j, k)' <=> InTime(j, k) BY <1>3, <1>4, <2>3, InTimeKept
      <4>4. Covers(k, j)' BY <4>2, <4>3 DEF Covers
      <4>5. marker'[a] = marker[a] BY <1>9, <3>3, <4>1
      <4>6. HasMarker(req[log[j]].agent)' BY <3>1, <4>1, <4>2, <4>5 DEF HasMarker
      <4>7. k \in 1 .. Len(log') /\ log'[k] = log[k] BY <1>3, <1>4
      <4> QED BY <3>1, <4>1, <4>2, <4>4, <4>5, <4>6, <4>7
    <3> QED BY <3>2, <3>3
  <2> QED BY <1>5, <2>2, <2>3
<1>16. PresenceNeverRegresses'
  <2> SUFFICES ASSUME NEW j \in 1 .. Len(log'), NEW k \in 1 .. Len(log'), j < k,
                      IsPresence(log[j])', IsPresence(log[k])',
                      req[log'[j]].agent = req[log'[k]].agent,
                      memo'[log'[j]].state = "applied", memo'[log'[k]].state = "applied"
               PROVE  InTime(j, k)'
    BY DEF PresenceNeverRegresses
  <2>1. j \in 1 .. Len(log) BY <1>3, <1>4
  <2>2. IsPresence(log[j]) /\ memo[log[j]].state = "applied" /\ log'[j] = log[j]
    BY <1>4, <1>13, <2>1
  <2>3. CASE k = l BY <1>4, <1>12, <2>1, <2>2, <2>3
  <2>4. CASE k \in 1 .. Len(log)
    <3>1. IsPresence(log[k]) /\ memo[log[k]].state = "applied" /\ log'[k] = log[k]
      BY <1>4, <1>13, <2>4
    <3>2. InTime(j, k) BY <2>1, <2>2, <2>4, <3>1 DEF PresenceInv, PresenceNeverRegresses
    <3> QED BY <1>3, <1>4, <2>1, <2>4, <3>2, InTimeKept
  <2> QED BY <1>5, <2>3, <2>4
<1> QED BY <1>14, <1>15, <1>16

\* A step that writes at most one memo and one effect, and no applied presence.
LEMMA NoPresenceApplied ==
    ASSUME ReplayInv, PresenceInv, req' = req, now' = now, marker' = marker, NEW i \in Ids,
           log' = log \/ log' = Append(log, i),
           \A h \in Ids : h # i => memo'[h] = memo[h],
           \/ ~IsPresence(i) \/ memo'[i].state # "applied"
           \/ (log' = log /\ ~HasEffect(i)) \/ (log' = log /\ memo'[i] = memo[i])
    PROVE  MarkerTrue' /\ MarkerCovers' /\ PresenceNeverRegresses'
<1>1. log \in Seq(Ids) /\ Len(log) \in Nat BY DEF ReplayInv, TypeInv, TypeOK, HubTypeOK
<1>2. /\ Len(log) <= Len(log') /\ Len(log') \in Nat
      /\ \A h \in 1 .. Len(log) : log'[h] = log[h] /\ log[h] \in Ids
      /\ \A h \in 1 .. Len(log') : h \in 1 .. Len(log) \/ (log' # log /\ log'[h] = i)
  <2>1. CASE log' = log BY <1>1, <2>1
  <2>2. CASE log' = Append(log, i) BY <1>1, <2>2
  <2> QED BY <2>1, <2>2
<1>3. ASSUME NEW h \in 1 .. Len(log'), IsPresence(log[h])', memo'[log'[h]].state = "applied"
      PROVE  h \in 1 .. Len(log) /\ memo[log[h]].state = "applied"
  <2>1. PICK p : p = log'[h] OBVIOUS
  <2>2. IsPresence(p) BY <1>3, <2>1 DEF IsPresence
  <2>3. CASE h \in 1 .. Len(log)
    <3>1. log[h] = p /\ p \in Ids BY <1>2, <2>1, <2>3
    <3>2. HasEffect(p) BY <2>3, <3>1 DEF HasEffect
    <3> QED BY <1>3, <2>1, <2>2, <2>3, <3>1, <3>2
  <2>4. CASE log' # log /\ p = i BY <1>3, <2>1, <2>2, <2>4
  <2> QED BY <1>2, <2>1, <2>3, <2>4
<1> QED BY <1>2, <1>3, OrderKept DEF ReplayInv

\* Time takes a marker only when all it covers have faded.
LEMMA TickPresence ==
    ASSUME ReplayInv, PresenceInv, Tick
    PROVE  PresenceInv'
<1> USE DEF ReplayInv
<1>1. /\ now' = now + 1 /\ req' = req /\ log' = log /\ memo' = memo /\ status' = status
      /\ marker' = MarkersAt(now + 1)
  BY DEF Tick, clientVars
<1>2. /\ now \in Nat /\ log \in Seq(Ids) /\ marker \in [Agents -> Marker] /\ Skew \in [Clients -> Int]
      /\ Retention \in Nat
  BY BaseAssumption, LifetimeAssumption DEF TypeInv, TypeOK, BaseTypeOK, HubTypeOK
<1>3. \A i \in Ids : /\ req[i].created \in Int /\ req[i].expires \in Int /\ req[i].agent \in Agents
                     /\ i[1] \in Clients
  BY DEF TypeInv, TypeOK, BaseTypeOK, Request, Ids
<1>4. \A i : /\ (IsPresence(i)' <=> IsPresence(i)) /\ (HasEffect(i)' <=> HasEffect(i))
  BY <1>1 DEF IsPresence, HasEffect
<1>5. RequestTimes'
  <2>1. ASSUME NEW i \in Ids, status[i] # "absent" PROVE req[i].created <= now + 1 + Skew[i[1]]
    <3>1. req[i].created <= now + Skew[i[1]]
      BY <2>1 DEF PresenceInv, RequestTimes, ClientNow
    <3>2. Skew[i[1]] \in Int BY <1>2, <1>3
    <3> QED BY <1>2, <1>3, <3>1, <3>2
  <2>2. \A i \in Ids : status'[i] # "absent" => req'[i].created <= now' + Skew[i[1]]
    BY <1>1, <2>1
  <2>3. \A i \in Ids : status'[i] # "absent" /\ IsPresence(i)' =>
           req'[i].created < req'[i].expires /\ req'[i].expires <= req'[i].created + Retention
    BY <1>1, <1>4 DEF PresenceInv, RequestTimes
  <2>4. \A c \in Clients, n, m \in 1 .. MaxSeq :
           n < m /\ status'[<<c, n>>] # "absent" /\ status'[<<c, m>>] # "absent" =>
               req'[<<c, n>>].created <= req'[<<c, m>>].created
    BY <1>1 DEF PresenceInv, RequestTimes
  <2> QED BY <2>2, <2>3, <2>4 DEF RequestTimes, ClientNow
<1>6. \A a \in Agents : \/ marker[a].exp <= now + 1 /\ marker'[a].by = None
                        \/ ~(marker[a].exp <= now + 1) /\ marker'[a] = marker[a]
  BY <1>1 DEF MarkersAt, NoMarker
<1>7. \A a \in Agents : HasMarker(a)' => HasMarker(a) /\ marker'[a] = marker[a]
  BY <1>6 DEF HasMarker
<1>8. MarkerTrue'
  <2> SUFFICES ASSUME NEW a \in Agents, HasMarker(a)'
               PROVE  /\ req[marker'[a].by].op = "presence" /\ req[marker'[a].by].agent = a
                      /\ HasEffect(marker[a].by)'
                      /\ marker'[a].created = req[marker'[a].by].created
                      /\ marker'[a].exp = req[marker'[a].by].expires + Retention
    BY <1>1 DEF MarkerTrue, IsPresence
  <2>1. HasMarker(a) /\ marker'[a] = marker[a] BY <1>7
  <2>2. /\ IsPresence(marker[a].by) /\ req[marker[a].by].agent = a /\ HasEffect(marker[a].by)
        /\ marker[a].created = req[marker[a].by].created
        /\ marker[a].exp = req[marker[a].by].expires + Retention
    BY <2>1 DEF PresenceInv, MarkerTrue
  <2>3. HasEffect(marker[a].by)' BY <1>1, <2>1, <2>2 DEF HasEffect
  <2> QED BY <2>1, <2>2, <2>3 DEF IsPresence
<1>9. \A h \in 1 .. Len(log) : log'[h] = log[h] /\ req'[log[h]] = req[log[h]] BY <1>1
<1>10. MarkerCovers'
  <2> SUFFICES ASSUME NEW j \in 1 .. Len(log), IsPresence(log[j]), memo[log[j]].state = "applied",
                      ~(req[log[j]].created + Retention < now + 1)
               PROVE  /\ HasMarker(req[log[j]].agent)'
                      /\ \E k \in 1 .. Len(log) : /\ log[k] = marker'[req[log[j]].agent].by
                                                  /\ Covers(k, j)'
    BY <1>1 DEF MarkerCovers, Faded, IsPresence
  <2>1. PICK a \in Agents, p \in Ids : p = log[j] /\ a = req[p].agent BY <1>2, <1>3
  <2>2. ~Faded(p) BY <1>2, <1>3, <2>1 DEF Faded
  <2>3. PICK k \in 1 .. Len(log) : HasMarker(a) /\ log[k] = marker[a].by /\ Covers(k, j)
    BY <2>1, <2>2 DEF PresenceInv, MarkerCovers
  <2>4. PICK q \in Ids : q = log[k] BY <1>2
  <2>5. /\ IsPresence(q) /\ HasEffect(q) /\ marker[a].exp = req[q].expires + Retention
    BY <2>3, <2>4 DEF PresenceInv, MarkerTrue
  <2>6. req[p].created <= req[q].created
    <3>1. CASE k = j BY <1>3, <2>1, <2>4, <3>1
    <3>2. CASE k # j BY <2>1, <2>3, <2>4, <3>2 DEF Covers, InTime
    <3> QED BY <3>1, <3>2
  <2>7. status[q] # "absent" BY <2>5 DEF ToldInv, UnattemptedHasNoEffect
  <2>8. req[q].created < req[q].expires BY <2>5, <2>7 DEF PresenceInv, RequestTimes
  <2>9. ~(marker[a].exp <= now + 1)
    <3>1. ~(req[p].created + Retention < now + 1) BY <2>1
    <3> QED BY <1>2, <1>3, <2>5, <2>6, <2>8, <3>1
  <2>10. marker'[a] = marker[a] BY <1>6, <2>9
  <2>11. InTime(j, k)' <=> InTime(j, k) BY <1>2, <1>9, InTimeKept
  <2>12. Covers(k, j)' BY <2>3, <2>11 DEF Covers
  <2>13. HasMarker(req[log[j]].agent)' BY <1>1, <2>1, <2>3, <2>10 DEF HasMarker
  <2> QED BY <2>1, <2>3, <2>10, <2>12, <2>13
<1>11. PresenceNeverRegresses'
  <2> SUFFICES ASSUME NEW j \in 1 .. Len(log), NEW k \in 1 .. Len(log), j < k,
                      IsPresence(log[j]), IsPresence(log[k]),
                      req[log[j]].agent = req[log[k]].agent,
                      memo[log[j]].state = "applied", memo[log[k]].state = "applied"
               PROVE  InTime(j, k)'
    BY <1>1 DEF PresenceNeverRegresses, IsPresence
  <2>1. InTime(j, k) BY DEF PresenceInv, PresenceNeverRegresses
  <2> QED BY <1>2, <1>9, <2>1, InTimeKept
<1> QED BY <1>5, <1>8, <1>10, <1>11 DEF PresenceInv

\* Every other step of the hub keeps the presences in order.
LEMMA HubPresence ==
    ASSUME ReplayInv, PresenceInv, HubStep, ~Tick
    PROVE  PresenceInv'
<1> USE DEF ReplayInv
<1>1. req' = req /\ status' = status BY HubCalls
<1>2. memo \in [Ids -> Memo] /\ marker \in [Agents -> Marker] /\ log \in Seq(Ids)
  BY DEF TypeInv, TypeOK, HubTypeOK
<1> DEFINE Goal == MarkerTrue' /\ MarkerCovers' /\ PresenceNeverRegresses'
<1>3. ASSUME now' = now, marker' = marker, log' = log, memo' = memo PROVE Goal
  <2>1. PICK i \in Ids : i = AnyId BY Defaults
  <2> QED BY <1>1, <1>3, <2>1, NoPresenceApplied
<1>4. ASSUME Others PROVE now' = now /\ Goal
  <2>1. now' = now /\ marker' = marker /\ log' = log /\ memo' = memo
    BY <1>4 DEF Others, DirectPresence, DirectClaim, ReleaseClaim, HashExpires
  <2> QED BY <1>3, <2>1
<1>5. ASSUME NEW s \in Slots,
             \/ LoseReply(s)
             \/ Unavailable(s) \/ Refuse(s) \/ ClaimFails(s) \/ LoseCall(s) \/ HubCrash
             \/ ReplayKnown(s) \/ ReplayLate(s) \/ ReplayFuture(s) \/ AdmitClaim(s)
             \/ Persist(s)
      PROVE  now' = now /\ Goal
  <2>1. now' = now /\ marker' = marker /\ log' = log /\ memo' = memo
    BY <1>5 DEF LoseReply, Unavailable, Refuse, ClaimFails, LoseCall, HubCrash, ReplayKnown,
                ReplayLate, ReplayFuture, AdmitClaim, Persist, hubVars
  <2> QED BY <1>3, <2>1
<1>6. ASSUME NEW s \in Slots, ReplayMessage(s) \/ ReplayClaim(s) \/ ReplayOutdated(s)
      PROVE  now' = now /\ Goal
  <2>1. PICK i \in Ids : call[s].id = i BY CallTypes
  <2>2. /\ now' = now /\ marker' = marker /\ Fresh(s)
        /\ \/ log' = Append(log, i) /\ ~IsPresence(i)
           \/ log' = log /\ ~IsPresence(i)
           \/ log' = log
    BY <1>6, <2>1 DEF ReplayMessage, ReplayClaim, ReplayOutdated, IsPresence, IsClaim
  <2>3. \A h \in Ids : h # i => memo'[h] = memo[h]
    BY <1>2, <1>6, <2>1 DEF ReplayMessage, ReplayClaim, ReplayOutdated, Completed, Reserved
  <2>4. ~HasEffect(i) BY <2>1, <2>2, FreshHasNoMemo DEF OnceInv, EffectHasMemo
  <2> QED BY <1>1, <2>2, <2>3, <2>4, NoPresenceApplied
<1>7. ASSUME NEW s \in Slots, DispatchClaim(s) \/ FinishClaim(s) PROVE now' = now /\ Goal
  <2>1. PICK i \in Ids : call[s].id = i BY CallTypes
  <2>2. /\ now' = now /\ marker' = marker /\ (log' = log \/ log' = Append(log, i))
        /\ call[s].pc \in {"dispatch", "finish"}
    BY <1>7, <2>1 DEF DispatchClaim, FinishClaim
  <2>3. \A h \in Ids : h # i => memo'[h] = memo[h]
    BY <1>2, <1>7, <2>1 DEF DispatchClaim, FinishClaim
  <2>4. ~IsPresence(i)
    BY <2>1, <2>2 DEF ToldInv, CallsTold, CallTold, IsClaim, IsPresence
  <2> QED BY <1>1, <2>2, <2>3, <2>4, NoPresenceApplied
<1>8. ASSUME NEW s \in Slots, ReplayPresence(s) PROVE now' = now /\ Goal
  <2>1. PICK i \in Ids : call[s].id = i BY CallTypes
  <2>2. /\ now' = now /\ Fresh(s) /\ IsPresence(i) /\ ~Newer(i, req[i].agent)
        /\ log' = Append(log, i)
        /\ marker' = [marker EXCEPT ![req[i].agent] = MarkerOf(i)]
    BY <1>8, <2>1 DEF ReplayPresence
  <2>3. \A h \in Ids : h # i => memo'[h] = memo[h]
    BY <1>2, <1>8, <2>1 DEF ReplayPresence, Completed
  <2> QED BY <1>1, <2>1, <2>2, <2>3, MarkerSet
<1>9. ASSUME NEW s \in Slots, ReplayAborts(s) PROVE now' = now /\ Goal
  <2>1. PICK i \in Ids : call[s].id = i BY CallTypes
  <2>2. now' = now /\ Fresh(s) /\ memo' = Reserved(i)
    BY <1>9, <2>1 DEF ReplayAborts
  <2>3. (\A h \in Ids : h # i => memo'[h] = memo[h]) /\ memo'[i].state = "pending"
    BY <1>2, <2>2 DEF Reserved, NoMemo
  <2>4. \/ marker' = marker /\ (log' = log \/ log' = Append(log, i))
        \/ /\ IsPresence(i) /\ ~Newer(i, req[i].agent) /\ log' = Append(log, i)
           /\ marker' = [marker EXCEPT ![req[i].agent] = MarkerOf(i)]
    BY <1>9, <2>1 DEF ReplayAborts
  <2>5. CASE marker' = marker /\ (log' = log \/ log' = Append(log, i))
    BY <1>1, <2>2, <2>3, <2>5, NoPresenceApplied
  <2>6. CASE /\ IsPresence(i) /\ ~Newer(i, req[i].agent) /\ log' = Append(log, i)
             /\ marker' = [marker EXCEPT ![req[i].agent] = MarkerOf(i)]
    BY <1>1, <2>1, <2>2, <2>3, <2>6, MarkerSet
  <2> QED BY <2>4, <2>5, <2>6
<1>10. now' = now /\ Goal
  <2>1. PICK s \in Slots : s = AnySlot BY Defaults
  <2>2. ASSUME HubFault PROVE now' = now /\ Goal
    BY <1>5, <1>9, <2>1, <2>2 DEF HubFault
  <2>3. ASSUME NEW t \in Slots, Handler(t) PROVE now' = now /\ Goal
    BY <1>5, <1>6, <1>7, <1>8, <2>3 DEF Handler
  <2> HIDE DEF Goal
  <2> QED BY <1>4, <1>5, <2>2, <2>3 DEF HubStep
<1>11. RequestTimes'
  BY <1>1, <1>10 DEF PresenceInv, RequestTimes, ClientNow, IsPresence
<1> QED BY <1>10, <1>11 DEF PresenceInv

\* A step of a client leaves the presences alone, and numbers its requests in
\* the order of its clock.
LEMMA ClientPresence ==
    ASSUME ReplayInv, PresenceInv, NEW c \in Clients, Submit(c) \/ Flush(c) \/ Crash(c)
    PROVE  PresenceInv'
<1> USE DEF ReplayInv
<1>1. /\ status \in [Ids -> Statuses] /\ req \in [Ids -> Request] /\ now \in Nat
      /\ Skew \in [Clients -> Int] /\ log \in Seq(Ids) /\ MaxSeq \in Nat /\ Retention \in Nat
  BY BaseAssumption, LifetimeAssumption
  DEF TypeInv, TypeOK, BaseTypeOK, ClientTypeOK, HubTypeOK
<1>2. UNCHANGED hubVars /\ now' = now
  BY DEF Submit, SubmitSend, SubmitAck, SubmitPresence, SubmitClaim, Enqueue, Flush, Crash,
         ClientCrash, FlushPending, ExpireLocally, SupersedeLocally, MarkAttempted, Receive,
         CallRoute, Timeout, FinishFlush
<1>3. log' = log /\ memo' = memo /\ marker' = marker BY <1>2 DEF hubVars
<1>4. ASSUME \A j \in Ids : HasEffect(j) => req'[j] = req[j]
      PROVE  MarkerTrue' /\ MarkerCovers' /\ PresenceNeverRegresses'
  <2>1. \A h \in 1 .. Len(log) : log'[h] = log[h] /\ req'[log[h]] = req[log[h]]
    BY <1>1, <1>3, <1>4 DEF HasEffect
  <2>2. Len(log) \in Nat /\ Len(log) <= Len(log') /\ Len(log') \in Nat BY <1>1, <1>3
  <2>3. \A h \in 1 .. Len(log') : (IsPresence(log[h]) /\ memo[log[h]].state = "applied")' =>
            h \in 1 .. Len(log) /\ memo[log[h]].state = "applied"
    BY <1>3
  <2> QED BY <1>2, <1>3, <2>1, <2>2, <2>3, OrderKept
<1>5. CASE Submit(c)
  <2>1. PICK r : /\ Enqueue(c, r) /\ r.created = ClientNow(c)
                 /\ r.op = "presence" => \E t \in TTLs : r.expires = ClientNow(c) + t
    <3>1. ASSUME NEW a, NEW t \in TTLs, SubmitPresence(c, a, t)
          PROVE  \E r : /\ Enqueue(c, r) /\ r.created = ClientNow(c)
                        /\ r.op = "presence" => \E u \in TTLs : r.expires = ClientNow(c) + u
      <4> DEFINE r == [NoRequest EXCEPT !.op = "presence", !.agent = a, !.created = ClientNow(c),
                                        !.expires = ClientNow(c) + t]
      <4>1. r.created = ClientNow(c) /\ r.expires = ClientNow(c) + t BY DEF NoRequest
      <4>2. Enqueue(c, r) BY <3>1 DEF SubmitPresence
      <4> QED BY <4>1, <4>2
    <3>2. ASSUME NEW a, NEW t, SubmitClaim(c, a, t)
          PROVE  \E r : Enqueue(c, r) /\ r.created = ClientNow(c) /\ r.op # "presence"
      <4> DEFINE r == [NoRequest EXCEPT !.op = "claim", !.agent = a, !.created = ClientNow(c),
                                        !.expires = ClientNow(c) + t]
      <4>1. r.created = ClientNow(c) /\ r.op = "claim" BY DEF NoRequest
      <4>2. Enqueue(c, r) BY <3>2 DEF SubmitClaim
      <4> QED BY <4>1, <4>2
    <3>3. ASSUME SubmitSend(c)
          PROVE  \E r : Enqueue(c, r) /\ r.created = ClientNow(c) /\ r.op # "presence"
      <4> DEFINE r == [NoRequest EXCEPT !.op = "send", !.created = ClientNow(c)]
      <4>1. r.created = ClientNow(c) /\ r.op = "send" BY DEF NoRequest
      <4>2. Enqueue(c, r) BY <3>3 DEF SubmitSend
      <4> QED BY <4>1, <4>2
    <3>4. ASSUME NEW m, SubmitAck(c, m)
          PROVE  \E r : Enqueue(c, r) /\ r.created = ClientNow(c) /\ r.op # "presence"
      <4> DEFINE r == [NoRequest EXCEPT !.op = "ack", !.created = ClientNow(c), !.target = m]
      <4>1. r.created = ClientNow(c) /\ r.op = "ack" BY DEF NoRequest
      <4>2. Enqueue(c, r) BY <3>4 DEF SubmitAck
      <4> QED BY <4>1, <4>2
    <3> QED BY <1>5, <3>1, <3>2, <3>3, <3>4 DEF Submit
  <2>2. last[c] \in 0 .. MaxSeq /\ last[c] < MaxSeq
    BY <2>1 DEF TypeInv, TypeOK, ClientTypeOK, Enqueue
  <2>3. PICK l \in 1 .. MaxSeq : l = last[c] + 1 BY <1>1, <2>2
  <2>4. PICK i \in Ids : i = <<c, l>> BY DEF Ids
  <2>5. status[i] = "absent" BY <1>1, <2>2, <2>3, <2>4 DEF JournalInv, Numbered
  <2>6. /\ req'[i] = r /\ \A j \in Ids : j # i => status'[j] = status[j] /\ req'[j] = req[j]
    BY <1>1, <2>1, <2>3, <2>4 DEF Enqueue
  <2>7. ~HasEffect(i) BY <2>5 DEF ToldInv, UnattemptedHasNoEffect
  <2>8. \A d \in Clients : ClientNow(d)' = ClientNow(d) /\ ClientNow(d) \in Int
    BY <1>1, <1>2 DEF ClientNow
  <2>9. \A j \in Ids : j[1] \in Clients BY DEF Ids
  <2>10. \A j \in Ids : status'[j] # "absent" => req'[j].created <= ClientNow(j[1])
    <3>1. i[1] = c BY <2>4
    <3>2. req'[i].created <= ClientNow(i[1]) BY <2>1, <2>6, <2>8, <3>1
    <3>3. \A j \in Ids : j # i /\ status'[j] # "absent" => req'[j].created <= ClientNow(j[1])
      BY <2>6 DEF PresenceInv, RequestTimes
    <3> QED BY <3>2, <3>3
  <2>11. \A j \in Ids : status'[j] # "absent" /\ req'[j].op = "presence" =>
             req'[j].created < req'[j].expires /\ req'[j].expires <= req'[j].created + Retention
    <3>1. ASSUME r.op = "presence"
          PROVE  r.created < r.expires /\ r.expires <= r.created + Retention
      <4>1. PICK t \in TTLs : r.expires = ClientNow(c) + t BY <2>1, <3>1
      <4>2. t \in Nat \ {0} /\ t <= Retention BY LifetimeAssumption
      <4> QED BY <1>1, <2>1, <2>8, <4>1, <4>2
    <3>2. \A j \in Ids : j # i /\ status'[j] # "absent" /\ req'[j].op = "presence" =>
              req'[j].created < req'[j].expires /\ req'[j].expires <= req'[j].created + Retention
      BY <2>6 DEF PresenceInv, RequestTimes, IsPresence
    <3> QED BY <2>6, <3>1, <3>2
  <2>12. ASSUME NEW d \in Clients, NEW n \in 1 .. MaxSeq, NEW m \in 1 .. MaxSeq, n < m,
                status'[<<d, n>>] # "absent", status'[<<d, m>>] # "absent"
         PROVE  req'[<<d, n>>].created <= req'[<<d, m>>].created
    <3>1. <<d, n>> \in Ids /\ <<d, m>> \in Ids BY DEF Ids
    <3>2. CASE <<d, m>> = i
      <4>1. d = c /\ m = l /\ <<d, n>> # i BY <2>4, <2>12, <3>2
      <4>2. status[<<d, n>>] # "absent" /\ req'[<<d, n>>] = req[<<d, n>>]
        BY <2>6, <2>12, <3>1, <4>1
      <4>3. <<d, n>>[1] = c BY <4>1
      <4>4. req[<<d, n>>].created <= ClientNow(c)
        BY <3>1, <4>2, <4>3 DEF PresenceInv, RequestTimes
      <4> QED BY <2>1, <2>6, <3>2, <4>2, <4>4
    <3>3. CASE <<d, m>> # i
      <4>1. status[<<d, m>>] # "absent" /\ req'[<<d, m>>] = req[<<d, m>>]
        BY <2>6, <2>12, <3>1, <3>3
      <4>2. <<d, n>> # i
        <5>1. d = c => ~(m > last[c]) BY <4>1 DEF JournalInv, Numbered
        <5> QED BY <1>1, <2>2, <2>3, <2>4, <2>12, <5>1
      <4>3. status[<<d, n>>] # "absent" /\ req'[<<d, n>>] = req[<<d, n>>]
        BY <2>6, <2>12, <3>1, <4>2
      <4> QED BY <2>12, <4>1, <4>3 DEF PresenceInv, RequestTimes
    <3> QED BY <3>2, <3>3
  <2>13. RequestTimes'
    <3>1. \A j \in Ids : status'[j] # "absent" => req'[j].created <= ClientNow(j[1])'
      BY <2>8, <2>9, <2>10 DEF ClientNow
    <3> QED BY <2>11, <2>12, <3>1 DEF RequestTimes, IsPresence, ClientNow
  <2>14. \A j \in Ids : HasEffect(j) => req'[j] = req[j] BY <2>6, <2>7
  <2> QED BY <1>4, <2>13, <2>14 DEF PresenceInv
<1>6. CASE ~Submit(c)
  <2>1. req' = req
    BY <1>6 DEF Flush, Crash, ClientCrash, FlushPending, ExpireLocally, SupersedeLocally,
                MarkAttempted, Receive, CallRoute, Timeout, FinishFlush
  <2>2. \A j \in Ids : status'[j] # "absent" => status[j] # "absent"
    <3>1. CASE status' = status BY <3>1
    <3>2. ASSUME NEW n \in 1 .. MaxSeq, NEW v, IsHead(c, n), status' = [status EXCEPT ![<<c, n>>] = v]
          PROVE  \A j \in Ids : status'[j] # "absent" => status[j] # "absent"
      BY <1>1, <3>2 DEF IsHead, Pending, IsPending
    <3>3. ASSUME status' # status
          PROVE  \E n \in 1 .. MaxSeq : IsHead(c, n) /\ \E v : status' = [status EXCEPT ![<<c, n>>] = v]
      BY <1>6, <3>3 DEF Flush, Crash, ClientCrash, FlushPending, ExpireLocally, SupersedeLocally,
              MarkAttempted, Receive, CallRoute, Timeout, FinishFlush, Settle, Scanning
    <3> QED BY <3>1, <3>2, <3>3
  <2>3. \A j \in Ids : j[1] \in Clients BY DEF Ids
  <2>4. \A d \in Clients, n \in 1 .. MaxSeq : <<d, n>> \in Ids BY DEF Ids
  <2>5. RequestTimes'
    BY <1>2, <2>1, <2>2, <2>4 DEF PresenceInv, RequestTimes, ClientNow, IsPresence
  <2> QED BY <1>4, <2>1, <2>5 DEF PresenceInv
<1> QED BY <1>5, <1>6

(* Replayed presence of an agent never goes back in time: for any number   *)
(* of clients, requests, clock skews and faults, and also after the marker *)
(* key is gone.                                                            *)
THEOREM PresenceInOrder == Spec => []PresenceNeverRegresses
<1>1. Init => PresenceInv
  <2> SUFFICES ASSUME Init PROVE PresenceInv OBVIOUS
  <2>1. log = << >> /\ Len(log) = 0 BY DEF Init, HubInit
  <2>2. \A a \in Agents : ~HasMarker(a) BY DEF Init, HubInit, HasMarker, NoMarker
  <2>3. \A i \in Ids : status[i] = "absent" BY DEF Init, ClientInit
  <2>4. \A c \in Clients, n \in 1 .. MaxSeq : <<c, n>> \in Ids BY DEF Ids
  <2> QED BY <2>1, <2>2, <2>3, <2>4
          DEF PresenceInv, RequestTimes, MarkerTrue, MarkerCovers, PresenceNeverRegresses
<1>2. ReplayInv /\ PresenceInv /\ [Next]_vars => PresenceInv'
  <2> SUFFICES ASSUME ReplayInv, PresenceInv, [Next]_vars PROVE PresenceInv' OBVIOUS
  <2>1. CASE UNCHANGED vars
    <3>1. UNCHANGED <<now, req, status, log, memo, marker>> BY <2>1 DEF vars, clientVars, hubVars
    <3>2. PICK i \in Ids : i = AnyId BY Defaults
    <3>3. MarkerTrue' /\ MarkerCovers' /\ PresenceNeverRegresses'
      BY <3>1, <3>2, NoPresenceApplied
    <3>4. RequestTimes' BY <3>1 DEF PresenceInv, RequestTimes, ClientNow, IsPresence
    <3> QED BY <3>3, <3>4 DEF PresenceInv
  <2>2. CASE HubStep BY <2>2, TickPresence, HubPresence
  <2>3. ASSUME NEW c \in Clients, Submit(c) \/ Flush(c) \/ Crash(c) PROVE PresenceInv'
    BY <2>3, ClientPresence
  <2> QED BY <2>1, <2>2, <2>3 DEF Next, HubStep
<1>3. PresenceInv => PresenceNeverRegresses BY DEF PresenceInv
<1> QED BY <1>1, <1>2, <1>3, ReplayInvariant, PTL DEF Spec
===============================================================================
