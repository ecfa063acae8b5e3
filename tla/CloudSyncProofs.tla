--------------------------- MODULE CloudSyncProofs ---------------------------
(***************************************************************************)
(* CloudSync, proved for every batch size, bound and history: the model is *)
(* type correct, the saved push and pull cursors mean what they say, and   *)
(* what the Worker has of this hub may leave it and is in the order of the *)
(* stream.                                                                 *)
(***************************************************************************)
EXTENDS CloudSync, FiniteSetTheorems, WellFoundedInduction, TLAPS

-----------------------------------------------------------------------------
(* Ids in order.                                                           *)

(* A non-empty set of numbers has a least one.                             *)
LEMMA LeastExists ==
    ASSUME NEW S \in SUBSET Nat, S # {}
    PROVE  \E x \in S : \A y \in S : x <= y
<1>1. PICK x \in S : \A y \in S : ~(<<y, x>> \in OpToRel(<, Nat))
  BY WFMin, NatLessThanWellFounded
<1>2. \A y \in S : ~(y < x)
  BY <1>1 DEF OpToRel
<1> QED
  BY <1>2

(* A non-empty set of numbers up to n has a greatest one, and Last is it.  *)
LEMMA LastIsGreatest ==
    ASSUME NEW n \in Nat, NEW S \in SUBSET Nat, S # {}, \A p \in S : p <= n
    PROVE  Last(S) \in S /\ \A p \in S : p <= Last(S)
<1> DEFINE B == {m \in Nat : \A p \in S : p <= m}
<1>1. PICK m \in B : \A k \in B : m <= k
  <2>1. n \in B
    OBVIOUS
  <2> QED
    BY <2>1, LeastExists
<1>2. m \in S
  <2>1. SUFFICES ASSUME m \notin S PROVE FALSE
    OBVIOUS
  <2>2. PICK p \in S : TRUE
    OBVIOUS
  <2>3. m - 1 \in Nat /\ \A q \in S : q <= m - 1
    BY <2>1, <2>2
  <2> QED
    BY <1>1, <2>3
<1>3. \A p \in S : p <= m
  BY <1>1
<1> QED
  BY <1>2, <1>3 DEF Last

(* First takes some of a set, and something of a set that is not empty.    *)
LEMMA FirstTakes ==
    ASSUME NEW S \in SUBSET Nat, S # {}, NEW k \in Nat \ {0}
    PROVE  First(S, k) # {}
<1>1. PICK x \in S : \A y \in S : x <= y
  BY LeastExists
<1>2. \A q \in S : q <= x <=> q = x
  BY <1>1
<1>3. {q \in S : q <= x} = {x}
  BY <1>2
<1>4. Cardinality({x}) = 1
  BY FS_Singleton
<1> QED
  BY <1>1, <1>3, <1>4 DEF First

(* What comes before something that First takes is taken too.              *)
LEMMA FirstIsPrefix ==
    ASSUME NEW S \in SUBSET Nat, IsFiniteSet(S), NEW k \in Nat,
           NEW p \in First(S, k), NEW q \in S, q <= p
    PROVE  q \in First(S, k)
<1> DEFINE P == {x \in S : x <= p}
           Q == {x \in S : x <= q}
<1>1. Q \subseteq P
  <2>1. p \in Nat /\ q \in Nat
    BY DEF First
  <2>2. \A x \in S : x <= q => x <= p
    BY <2>1
  <2> QED
    BY <2>2
<1>2. IsFiniteSet(P) /\ IsFiniteSet(Q)
  BY FS_Subset
<1>3. Cardinality(Q) <= Cardinality(P) /\ Cardinality(Q) \in Nat /\ Cardinality(P) \in Nat
  BY <1>1, <1>2, FS_Subset, FS_CardinalityType
<1>4. Cardinality(P) <= k
  BY DEF First
<1> HIDE DEF P, Q
<1>5. Cardinality(Q) <= k
  BY <1>3, <1>4
<1> QED
  BY <1>5 DEF First, Q

-----------------------------------------------------------------------------
(* Type correctness.                                                       *)

\* What type correctness needs besides.
ControlInv ==
    /\ \A r \in rows : r.seq <= top
    /\ eng.pc \in {"read", "flush", "sent", "acked"} => eng.chunks >= 1
    /\ eng.pc \in {"sent", "acked"} => eng.outbox # {}
    /\ eng.outbox \subseteq Positions
    /\ eng.page \subseteq Nat
    /\ eng.pc = "notify" => eng.cur \in seen

TypeInv == TypeOK /\ ControlInv

(* While sync is disabled, and when the hub is started anew, there is no   *)
(* engine and nothing moves.                                               *)
LEMMA OutageIs ==
    ASSUME TypeInv, Outage
    PROVE  /\ ~On /\ eng'.pc \in {"off", "disabled"} /\ ~On'
           /\ eng' \in Engine /\ eng'.chunks = 0 /\ eng'.outbox = {} /\ eng'.page = {}
           /\ eng'.receipts = {} /\ eng'.rejected = {}
           /\ UNCHANGED <<hub, worker, late, file, since, crashes>>
           /\ faults' \in 0 .. MaxFaults
<1>1. eng' = Off \/ eng' = [Off EXCEPT !.pc = "disabled"]
  BY DEF Outage, StartFails, Restart
<1>2. /\ Off \in Engine /\ [Off EXCEPT !.pc = "disabled"] \in Engine
  BY DEF Off, Engine, Pcs
<1>3. faults' \in 0 .. MaxFaults
  BY SyncAssumption DEF Outage, StartFails, Restart, Fault, TypeInv, TypeOK
<1>4. ~On /\ UNCHANGED <<hub, worker, late, file, since, crashes>>
  BY DEF Outage, StartFails, Restart, On
<1>5. /\ eng'.pc \in {"off", "disabled"} /\ eng'.chunks = 0 /\ eng'.outbox = {}
      /\ eng'.page = {} /\ eng'.receipts = {} /\ eng'.rejected = {}
  BY <1>1 DEF Off
<1> QED
  BY <1>1, <1>2, <1>3, <1>4, <1>5 DEF On

(* Sets of positions are finite.                                           *)
LEMMA FinitePositions ==
    ASSUME TypeOK, NEW S \in SUBSET Positions
    PROVE  /\ S \in SUBSET Nat
           /\ IsFiniteSet(S) /\ Cardinality(S) \in Nat
           /\ \A p \in S : p <= Len(stream)
<1>1. Len(stream) \in Nat
  BY DEF TypeOK
<1>2. IsFiniteSet(Positions)
  BY <1>1, FS_Interval DEF Positions
<1>3. IsFiniteSet(S) /\ Cardinality(S) \in Nat
  BY <1>2, FS_Subset, FS_CardinalityType
<1> QED
  BY <1>1, <1>3 DEF Positions

(* The Worker's table stays well formed, whatever it is sent.              *)
LEMMA InsertType ==
    ASSUME TypeInv, NEW b \in SUBSET Positions, Insert(b)
    PROVE  /\ rows' \subseteq Row /\ top' \in Nat
           /\ \A r \in rows' : r.seq <= top'
<1>1. New(b) \in SUBSET Positions
  BY DEF New
<1>2. Cardinality(New(b)) \in Nat /\ IsFiniteSet(New(b)) /\ top \in Nat
  BY <1>1, FinitePositions DEF TypeInv, TypeOK
<1>3. ASSUME NEW p \in New(b)
      PROVE  Cardinality(UpTo(New(b), p)) \in Nat
             /\ Cardinality(UpTo(New(b), p)) <= Cardinality(New(b))
  <2>1. UpTo(New(b), p) \subseteq New(b)
    BY DEF UpTo
  <2> QED
    BY <2>1, <1>2, FS_Subset, FS_CardinalityType
<1>4. ASSUME NEW r \in rows' PROVE r \in Row /\ r.seq <= top'
  <2>1. CASE r \in rows
    BY <2>1, <1>2 DEF TypeInv, TypeOK, ControlInv, Row, Insert
  <2>2. CASE r \notin rows
    <3>1. PICK p \in New(b) :
            r = [seq |-> top + Cardinality(UpTo(New(b), p)), origin |-> "hub", of |-> p]
      BY <2>2 DEF Insert
    <3>2. p \in Nat
      BY <1>1, FinitePositions DEF TypeInv
    <3> QED
      BY <3>1, <3>2, <1>2, <1>3 DEF Row, Insert
  <2> QED
    BY <2>1, <2>2
<1> QED
  BY <1>2, <1>4 DEF Insert

(* What XADD leaves: a longer stream, dropped at the front.                *)
LEMMA AddType ==
    ASSUME TypeOK, NEW e \in Entry, Add(e)
    PROVE  /\ stream' \in Seq(Entry) /\ Len(stream') = Len(stream) + 1
           /\ \A p \in Positions : p \in Positions' /\ stream'[p] = stream[p]
           /\ trimmed' \in 0 .. Len(stream) /\ trimmed <= trimmed'
           /\ gone' \subseteq Positions /\ gone \subseteq gone'
<1>1. stream \in Seq(Entry) /\ Len(stream) \in Nat /\ trimmed \in 0 .. Len(stream)
      /\ Retained \in Nat \ {0}
  BY SyncAssumption DEF TypeOK
<1>2. stream' \in Seq(Entry) /\ Len(stream') = Len(stream) + 1
      /\ \A p \in Positions : stream'[p] = stream[p]
  BY <1>1 DEF Add, Positions
<1>3. \A p \in Positions : p \in Positions'
  BY <1>1, <1>2 DEF Positions
<1>4. trimmed' \in 0 .. Len(stream) /\ trimmed <= trimmed'
  BY <1>1 DEF Add
<1>5. gone' \subseteq Positions /\ gone \subseteq gone'
  BY DEF Add, TypeOK
<1> QED
  BY <1>2, <1>3, <1>4, <1>5

(* Every step keeps the types, and the little about control they rest on.  *)
LEMMA TypeStep == TypeInv /\ [Next]_vars => TypeInv'
<1> SUFFICES ASSUME TypeInv, [Next]_vars PROVE TypeInv'
  OBVIOUS
<1> USE SyncAssumption
<1>0. /\ TypeOK /\ eng \in Engine /\ Len(stream) \in Nat
      /\ Taken \in SUBSET Positions
      /\ Taken \in SUBSET Nat /\ \A p \in Taken : p <= Len(stream)
  <2>1. Taken \in SUBSET Positions
    BY DEF Taken, First, TypeInv, ControlInv
  <2>2. TypeOK /\ eng \in Engine /\ Len(stream) \in Nat
    BY DEF TypeInv, TypeOK
  <2>3. Taken \in SUBSET Nat /\ \A p \in Taken : p <= Len(stream)
    BY <2>1, <2>2, FinitePositions
  <2> QED
    BY <2>1, <2>2, <2>3
<1>1. ASSUME Start PROVE TypeInv'
  <2>1. Loaded \in Cursors
    BY <1>0 DEF Loaded, TypeOK, Cursors
  <2>2. Loaded.push \in 0 .. Len(stream) \/ file # None
    BY <1>0 DEF Loaded
  <2>3. eng' \in Engine /\ eng'.chunks <= MaxChunks /\ eng'.chunks >= 1
        /\ eng'.pc = "read" /\ eng'.outbox = {} /\ eng'.page = {}
    BY <1>1, <2>1 DEF Start, Started, Engine, Pcs, Cursors
  <2> QED
    BY <1>1, <2>1, <2>2, <2>3
       DEF Start, TypeInv, TypeOK, ControlInv, Positions, hub, worker
<1>2. ASSUME Poll PROVE TypeInv'
  <2>1. eng' \in Engine /\ eng'.chunks = MaxChunks /\ eng'.pc = "read"
        /\ eng'.outbox = eng.outbox /\ eng'.page = eng.page
    BY <1>0, <1>2 DEF Poll, Engine, Pcs
  <2>2. MaxChunks \in Nat /\ MaxChunks >= 1 /\ MaxChunks <= MaxChunks
    OBVIOUS
  <2> QED
    BY <1>2, <2>1, <2>2 DEF Poll, TypeInv, TypeOK, ControlInv, Positions, hub, worker
<1>3. ASSUME Read PROVE TypeInv'
  <2>1. Chunk \in SUBSET Positions /\ Eligible \in SUBSET Positions
    BY DEF Chunk, Eligible, First, Later
  <2>2. ReadTo \in Nat
    <3>1. Chunk # {} => Last(Chunk) \in Chunk
      BY <1>0, <2>1, FinitePositions, LastIsGreatest
    <3> QED
      BY <1>0, <2>1, <3>1, FinitePositions DEF ReadTo, Engine
  <2>3. eng'.outbox \in SUBSET Positions /\ eng'.outbox \in SUBSET Nat
    BY <1>0, <1>3, <2>1, FinitePositions DEF Read, Engine, TypeInv, ControlInv
  <2>4. eng' \in Engine /\ eng'.chunks = eng.chunks /\ eng'.pc = "flush" /\ eng'.page = eng.page
    BY <1>0, <1>3, <2>2, <2>3 DEF Read, Engine, Pcs
  <2> QED
    BY <1>3, <2>3, <2>4 DEF Read, TypeInv, TypeOK, ControlInv, Positions, hub, worker
<1>4. ASSUME Push PROVE TypeInv'
  BY <1>0, <1>4 DEF Push, TypeInv, TypeOK, ControlInv, Positions, hub, worker, Engine, Pcs
<1>5. ASSUME Answer PROVE TypeInv'
  <2>1. rows' \subseteq Row /\ top' \in Nat /\ \A r \in rows' : r.seq <= top'
    BY <1>0, <1>5, InsertType DEF Answer
  <2>2. eng' \in Engine /\ eng'.pc = "acked" /\ eng'.chunks = eng.chunks
        /\ eng'.outbox = eng.outbox /\ eng'.page = eng.page
    BY <1>0, <1>5 DEF Answer, Engine, Pcs
  <2> QED
    BY <1>5, <2>1, <2>2 DEF Answer, TypeInv, TypeOK, ControlInv, Positions, hub, worker
<1>6. eng.pc = "acked" => Acked \in Cursors
  <2>1. SUFFICES ASSUME eng.pc = "acked" PROVE Acked \in Cursors
    OBVIOUS
  <2>2. eng.outbox # {} /\ eng.outbox \in SUBSET Nat
    BY <1>0, <2>1 DEF TypeInv, ControlInv, Engine
  <2>3. Taken # {}
    BY <2>2, FirstTakes DEF Taken
  <2>4. Last(Taken) \in Nat
    BY <1>0, <2>3, LastIsGreatest
  <2> QED
    BY <1>0, <2>4 DEF Acked, Cursors, Engine
<1>7. ASSUME Acknowledge PROVE TypeInv'
  <2>1. eng' \in Engine /\ eng'.pc = "flush" /\ eng'.chunks = eng.chunks
        /\ eng'.outbox \subseteq eng.outbox /\ eng'.page = eng.page
    <3>1. Advance /\ eng.pc = "acked"
      BY <1>7 DEF Acknowledge
    <3> QED
      BY <1>0, <1>6, <3>1 DEF Advance, Engine, Pcs, Cursors
  <2>2. file' \in Cursors \cup {None} /\ faults' \in 0 .. MaxFaults
    BY <1>0, <1>6, <1>7 DEF Acknowledge, Persist, Fault, TypeOK
  <2> QED
    BY <1>7, <2>1, <2>2 DEF Acknowledge, TypeInv, TypeOK, ControlInv, Positions, hub, worker
<1>8. ASSUME Fail PROVE /\ eng' \in Engine /\ eng'.chunks = eng.chunks /\ eng'.pc = "wait"
                        /\ eng'.outbox = eng.outbox /\ eng'.page = {}
  BY <1>0, <1>8 DEF Fail, Engine, Pcs
<1>9. ASSUME RetainBatch PROVE TypeInv'
  <2>1. file' \in Cursors \cup {None} /\ faults' \in 0 .. MaxFaults
    BY <1>0, <1>6, <1>9 DEF RetainBatch, Fault, TypeOK
  <2> QED
    BY <1>8, <1>9, <2>1 DEF RetainBatch, TypeInv, TypeOK, ControlInv, Positions, hub, worker
<1>10. ASSUME CaughtUp PROVE TypeInv'
  <2>1. eng' \in Engine /\ eng'.chunks = eng.chunks - 1 /\ eng'.outbox = eng.outbox
        /\ eng'.page = eng.page /\ eng'.pc \in {"read", "pull"}
        /\ (eng'.pc = "read" => eng.chunks > 1)
    <3>1. eng.chunks \in Nat /\ eng.chunks - 1 \in Nat /\ eng.readTo \in Nat
      BY <1>0, <1>10 DEF CaughtUp, Engine, TypeInv, ControlInv
    <3>2. CASE ReadsOn
      BY <1>0, <1>10, <3>1, <3>2 DEF CaughtUp, Engine, Pcs, ReadsOn
    <3>3. CASE ~ReadsOn
      BY <1>0, <1>10, <3>1, <3>3 DEF CaughtUp, Engine, Pcs
    <3> QED
      BY <3>2, <3>3
  <2>2. CursorsAt(eng.readTo, eng.pull) \in Cursors
    BY <1>0 DEF CursorsAt, Cursors, Engine
  <2>3. file' \in Cursors \cup {None} /\ faults' \in 0 .. MaxFaults
    BY <1>0, <1>10, <2>2 DEF CaughtUp, Persist, Fault, TypeOK
  <2>4. eng'.chunks <= MaxChunks /\ (eng'.pc = "read" => eng'.chunks >= 1)
    <3>1. eng.chunks \in Nat /\ eng.chunks <= MaxChunks /\ MaxChunks \in Nat
      BY <1>0 DEF TypeOK, Engine
    <3> QED
      BY <2>1, <3>1
  <2> QED
    BY <1>10, <2>1, <2>3, <2>4
       DEF CaughtUp, TypeInv, TypeOK, ControlInv, Positions, hub, worker
<1>11. ASSUME Pull PROVE TypeInv'
  <2>1. Foreign \subseteq Row /\ \A r \in Foreign : r.seq <= top
    BY DEF Foreign, TypeInv, TypeOK, ControlInv
  <2>2. {r.seq : r \in Foreign} \in SUBSET Nat /\ \A q \in {r.seq : r \in Foreign} : q <= top
    BY <2>1 DEF Row
  <2>3. Page \in SUBSET Nat /\ \A q \in Page : q <= top
    BY <2>2 DEF Page, First
  <2>4. HasMore => Last(Page) \in Nat
    <3>1. HasMore => Page # {}
      BY <2>2, FirstTakes DEF Page, HasMore
    <3> QED
      BY <1>0, <2>3, <3>1, LastIsGreatest DEF TypeOK
  <2>5. NextCursor \in Nat
    BY <1>0, <2>4 DEF NextCursor, Engine, TypeOK
  <2>6. eng'.page \in SUBSET Nat
    <3> DEFINE R == {x \in Foreign : x.seq \in Page /\ x.origin = "other"}
    <3>1. {r.seq : r \in R} \in SUBSET Nat
      BY <2>1 DEF Row
    <3>2. eng' = [eng EXCEPT !.pc = "ingest", !.more = HasMore, !.next = NextCursor,
                             !.page = {r.seq : r \in R}]
      BY <1>11 DEF Pull
    <3>3. eng \in Engine
      BY <1>0 DEF TypeOK
    <3> HIDE DEF R
    <3> QED
      BY <3>1, <3>2, <3>3 DEF Engine
  <2>7. HasMore \in BOOLEAN
    BY DEF HasMore
  <2>8. eng' \in Engine /\ eng'.chunks = eng.chunks /\ eng'.pc = "ingest" /\ eng'.outbox = eng.outbox
    BY <1>0, <1>11, <2>5, <2>6, <2>7 DEF Pull, Engine, Pcs
  <2> QED
    BY <1>11, <2>6, <2>8 DEF Pull, TypeInv, TypeOK, ControlInv, Positions, hub, worker
<1>12. ASSUME NEW s \in Nat, Store(s)
       PROVE  /\ stream' \in Seq(Entry) /\ trimmed' \in 0 .. Len(stream')
              /\ gone' \subseteq Positions' /\ Positions \subseteq Positions'
              /\ seen' \subseteq Nat /\ notified' \subseteq seen' /\ s \in seen'
              /\ since \in 0 .. Len(stream') /\ late \subseteq SUBSET Positions'
  <2>1. [kind |-> "pulled", of |-> s] \in Entry
    BY DEF Entry
  <2>2. /\ stream' \in Seq(Entry) /\ Len(stream') = Len(stream) + 1
        /\ Positions \subseteq Positions'
        /\ trimmed' \in 0 .. Len(stream) /\ gone' \subseteq Positions
    BY <1>0, <1>12, <2>1, AddType DEF Store
  <2>3. seen' \subseteq Nat /\ notified' \subseteq seen' /\ s \in seen'
    BY <1>0, <1>12 DEF Store, TypeOK
  <2>4. trimmed' \in 0 .. Len(stream') /\ since \in 0 .. Len(stream')
    BY <1>0, <2>2 DEF TypeOK
  <2>5. late \subseteq SUBSET Positions' /\ gone' \subseteq Positions'
    BY <1>0, <2>2 DEF TypeOK
  <2> QED
    BY <2>2, <2>3, <2>4, <2>5
<1>13. ASSUME NEW s \in eng.page, Ingest(s) PROVE TypeInv'
  <2>1. s \in Nat
    BY <1>13 DEF TypeInv, ControlInv
  <2>2. CASE Store(s) /\ eng' = [eng EXCEPT !.page = @ \ {s}, !.pc = "notify", !.cur = s]
    <3>1. eng' \in Engine /\ eng'.chunks = eng.chunks /\ eng'.pc = "notify" /\ eng'.cur = s
          /\ eng'.outbox = eng.outbox /\ eng'.page \subseteq eng.page
      BY <1>0, <2>1, <2>2 DEF Engine, Pcs
    <3> QED
      BY <1>12, <1>13, <2>1, <2>2, <3>1
         DEF Ingest, TypeInv, TypeOK, ControlInv, worker
  <2>3. CASE UNCHANGED hub /\ eng' = [eng EXCEPT !.page = @ \ {s}]
    <3>1. eng' \in Engine /\ eng'.chunks = eng.chunks /\ eng'.pc = eng.pc
          /\ eng'.outbox = eng.outbox /\ eng'.page \subseteq eng.page /\ eng'.cur = eng.cur
      BY <1>0, <2>1, <2>3 DEF Engine, Pcs
    <3> QED
      BY <1>0, <1>13, <2>3, <3>1 DEF Ingest, TypeInv, TypeOK, ControlInv, Positions, hub, worker
  <2> QED
    BY <1>13, <2>2, <2>3 DEF Ingest
<1>14. ASSUME Notify PROVE TypeInv'
  <2>1. eng' \in Engine /\ eng'.chunks = eng.chunks /\ eng'.pc = "ingest"
        /\ eng'.outbox = eng.outbox /\ eng'.page = eng.page
    BY <1>0, <1>14 DEF Notify, Engine, Pcs
  <2>2. notified' \subseteq seen
    BY <1>14 DEF Notify, TypeInv, TypeOK, ControlInv
  <2>3. faults' \in 0 .. MaxFaults
    BY <1>0, <1>14 DEF Notify, Fault, TypeOK
  <2> QED
    BY <1>14, <2>1, <2>2, <2>3 DEF Notify, TypeInv, TypeOK, ControlInv, Positions, worker
<1>15. ASSUME PageDone PROVE TypeInv'
  <2>1. PulledTo \in Nat
    BY <1>0 DEF PulledTo, Engine
  <2>2. eng' \in Engine /\ eng'.chunks = eng.chunks /\ eng'.pc \in {"pull", "wait"}
        /\ eng'.outbox = eng.outbox /\ eng'.page = eng.page
    BY <1>0, <1>15, <2>1 DEF PageDone, Engine, Pcs
  <2>3. CursorsAt(eng.push, PulledTo) \in Cursors
    BY <1>0, <2>1 DEF CursorsAt, Cursors, Engine
  <2>4. file' \in Cursors \cup {None} /\ faults' \in 0 .. MaxFaults
    BY <1>0, <1>15, <2>3 DEF PageDone, Persist, Fault, TypeOK
  <2> QED
    BY <1>15, <2>2, <2>4 DEF PageDone, TypeInv, TypeOK, ControlInv, Positions, hub, worker
<1>16. ASSUME CallFails PROVE TypeInv'
  BY <1>8, <1>16 DEF CallFails, Fault, TypeInv, TypeOK, ControlInv, Positions, hub, worker
<1>17. ASSUME PushTimesOut PROVE TypeInv'
  <2>1. late' \subseteq SUBSET Positions
    BY <1>0, <1>17 DEF PushTimesOut, TypeOK
  <2>2. faults' \in 0 .. MaxFaults
    BY <1>0, <1>17 DEF PushTimesOut, Fault, TypeOK
  <2> QED
    BY <1>8, <1>17, <2>1, <2>2
       DEF PushTimesOut, TypeInv, TypeOK, ControlInv, Positions, hub, worker
<1>18. ASSUME Crash PROVE TypeInv'
  <2>1. eng' \in Engine /\ eng'.chunks = 0 /\ eng'.pc = "off" /\ eng'.outbox = {} /\ eng'.page = {}
    BY <1>18 DEF Crash, Off, Engine, Pcs
  <2>2. late' \subseteq SUBSET Positions /\ crashes' \in 0 .. MaxCrashes
    BY <1>0, <1>18 DEF Crash, TypeOK
  <2>3. UNCHANGED <<hub, worker, file, since, faults>>
    BY <1>18 DEF Crash
  <2> QED
    BY <1>0, <2>1, <2>2, <2>3 DEF TypeInv, TypeOK, ControlInv, Positions, hub, worker
<1>19. ASSUME NEW n \in 0 .. MaxStream, PushFails(n) PROVE TypeInv'
  <2>1. UpTo(Taken, n) \in SUBSET Positions
    BY <1>0 DEF UpTo
  <2>2. rows' \subseteq Row /\ top' \in Nat /\ \A r \in rows' : r.seq <= top'
    BY <1>19, <2>1, InsertType DEF PushFails
  <2> QED
    BY <1>8, <1>19, <2>2 DEF PushFails, Fault, TypeInv, TypeOK, ControlInv, Positions, hub
<1>20. ASSUME NEW s \in eng.page, IngestFails(s) PROVE TypeInv'
  <2>1. s \in Nat
    BY <1>20 DEF TypeInv, ControlInv
  <2>2. faults' \in 0 .. MaxFaults
    BY <1>0, <1>20 DEF IngestFails, Fault, TypeOK
  <2>3. Fail
    BY <1>20 DEF IngestFails
  <2>4. CASE Store(s)
    BY <1>8, <1>12, <1>20, <2>1, <2>2, <2>3, <2>4
       DEF IngestFails, TypeInv, TypeOK, ControlInv, worker
  <2>5. CASE UNCHANGED hub
    BY <1>8, <1>20, <2>2, <2>3, <2>5
       DEF IngestFails, TypeInv, TypeOK, ControlInv, Positions, hub, worker
  <2> QED
    BY <1>20, <2>4, <2>5 DEF IngestFails
<1>21. ASSUME NEW k \in Kinds, Post(k) PROVE TypeInv'
  <2>1. [kind |-> k, of |-> 0] \in Entry
    BY DEF Entry
  <2>2. /\ stream' \in Seq(Entry) /\ Len(stream') = Len(stream) + 1
        /\ Positions \subseteq Positions'
        /\ trimmed' \in 0 .. Len(stream) /\ gone' \subseteq Positions
    BY <1>0, <1>21, <2>1, AddType DEF Post
  <2>3. trimmed' \in 0 .. Len(stream') /\ since \in 0 .. Len(stream')
    BY <1>0, <2>2 DEF TypeOK
  <2>4. late \subseteq SUBSET Positions' /\ gone' \subseteq Positions'
    BY <1>0, <2>2 DEF TypeOK
  <2> QED
    BY <1>21, <2>2, <2>3, <2>4 DEF Post, TypeInv, TypeOK, ControlInv, worker
<1>22. ASSUME NEW o \in Origins, Elsewhere(o) PROVE TypeInv'
  <2>1. rows' \subseteq Row /\ top' \in Nat /\ \A r \in rows' : r.seq <= top'
    <3>1. [seq |-> top + 1, origin |-> o, of |-> top + 1] \in Row
      BY <1>0 DEF Row, TypeOK
    <3> QED
      BY <1>0, <1>22, <3>1 DEF Elsewhere, TypeInv, TypeOK, ControlInv, Row
  <2> QED
    BY <1>22, <2>1 DEF Elsewhere, TypeInv, TypeOK, ControlInv, Positions, hub
<1>23. ASSUME NEW b \in late, NEW n \in 0 .. MaxStream, LatePush(b, n) PROVE TypeInv'
  <2>1. UpTo(b, n) \in SUBSET Positions
    BY <1>0, <1>23 DEF UpTo, TypeOK
  <2>2. rows' \subseteq Row /\ top' \in Nat /\ \A r \in rows' : r.seq <= top'
    BY <1>23, <2>1, InsertType DEF LatePush
  <2> QED
    BY <1>23, <2>2 DEF LatePush, TypeInv, TypeOK, ControlInv, Positions, hub
<1>24. ASSUME UNCHANGED vars PROVE TypeInv'
  BY <1>24 DEF vars, hub, worker, TypeInv, TypeOK, ControlInv, Positions
<1>25. ASSUME Outage PROVE TypeInv'
  <2>1. /\ eng' \in Engine /\ eng'.pc \in {"off", "disabled"} /\ eng'.chunks = 0
        /\ eng'.outbox = {} /\ eng'.page = {}
    BY <1>25, OutageIs
  <2>2. UNCHANGED <<hub, worker, late, file, since, crashes>> /\ faults' \in 0 .. MaxFaults
    BY <1>25, OutageIs
  <2> QED
    BY <1>0, <2>1, <2>2 DEF TypeInv, TypeOK, ControlInv, Positions, hub, worker
<1> QED
  BY <1>1, <1>2, <1>3, <1>4, <1>5, <1>7, <1>9, <1>10, <1>11, <1>13, <1>14, <1>15, <1>16,
     <1>17, <1>18, <1>19, <1>20, <1>21, <1>22, <1>23, <1>24, <1>25
     DEF Next, Step, Failure, Environment

(* The types hold at the start.                                            *)
LEMMA TypeInit == Init => TypeInv
<1>1. SUFFICES ASSUME Init PROVE TypeInv
  OBVIOUS
<1>2. eng \in Engine /\ eng.chunks = 0 /\ eng.pc = "off" /\ eng.outbox = {} /\ eng.page = {}
  BY <1>1 DEF Init, Off, Engine, Pcs
<1>3. stream \in Seq(Entry) /\ Len(stream) = 0 /\ Positions = {}
  BY <1>1 DEF Init, Positions
<1> QED
  BY <1>1, <1>2, <1>3, SyncAssumption DEF Init, TypeInv, TypeOK, ControlInv

(* The engine's state, the Worker's table, the stream and the cursor file  *)
(* keep their types in every behaviour: in particular a tick never reads   *)
(* more than its chunks, and only stored messages are notified.            *)
THEOREM SyncTypeCorrect == Spec => []TypeOK
<1>1. TypeInv => TypeOK
  BY DEF TypeInv
<1> QED
  BY <1>1, TypeInit, TypeStep, PTL DEF Spec

-----------------------------------------------------------------------------
(* The push cursor.                                                        *)

\* At the Worker, or lost by the stream.
Done(p) == InCloud(p) \/ p \in gone

\* Reading is never behind the cursor, and what is queued lies between them.
PositionsInv ==
    /\ file # None => since <= file.push /\ file.push <= Len(stream)
    /\ On => /\ file # None
             /\ since <= eng.push /\ eng.push <= eng.readTo /\ eng.readTo <= Len(stream)
             /\ \A p \in eng.outbox : eng.push < p /\ p <= eng.readTo

\* A receipt the engine knows is in the file, and never beyond the cursor.
LedgerInv ==
    /\ file # None => \A p \in file.receipts : p <= file.push
    /\ On => /\ eng.receipts \subseteq file.receipts
             /\ \A p \in eng.receipts : p <= eng.push

\* Nothing is lost on the way into the outbox.
QueueInv ==
    On => \A p \in Positions : eng.push < p /\ p <= eng.readTo /\ Pushable(p)
            => p \in eng.outbox \/ Done(p)

\* What the stream drops before the engine reads it is counted.
TrimInv ==
    \A p \in Positions : AckedTo < p /\ p <= trimmed /\ Pushable(p) => Done(p)

\* The cursor in memory means what the one in the file does.
EngineInv ==
    On => \A p \in Positions : since < p /\ p <= eng.push /\ Pushable(p)
            => Done(p) \/ p \in eng.receipts

\* An answer accounts for the whole batch.
AnswerInv ==
    eng.pc = "acked" =>
        /\ eng.rejected \subseteq Taken
        /\ \A p \in Taken : InCloud(p) \/ p \in eng.rejected

FileInv ==
    file # None => \A p \in Positions : since < p /\ p <= file.push /\ Pushable(p)
        => Done(p) \/ p \in file.receipts

CursorInv ==
    PositionsInv /\ LedgerInv /\ QueueInv /\ TrimInv /\ EngineInv /\ AnswerInv /\ FileInv

(* The numbers of the invariant.                                           *)
LEMMA Numbers ==
    ASSUME TypeInv
    PROVE  /\ Len(stream) \in Nat /\ Positions \in SUBSET Nat /\ since \in Nat /\ trimmed \in Nat
           /\ eng.push \in Nat /\ eng.readTo \in Nat /\ AckedTo \in Nat
           /\ eng.receipts \in SUBSET Nat /\ eng.outbox \in SUBSET Positions
           /\ file # None => file \in Cursors /\ file.push \in Nat /\ file.receipts \in SUBSET Nat
<1>1. Len(stream) \in Nat /\ Positions \in SUBSET Nat /\ since \in Nat /\ trimmed \in Nat
  BY DEF TypeInv, TypeOK, Positions
<1>2. eng.push \in Nat /\ eng.readTo \in Nat /\ eng.receipts \in SUBSET Nat
  BY DEF TypeInv, TypeOK, Engine
<1>3. file # None => file \in Cursors /\ file.push \in Nat /\ file.receipts \in SUBSET Nat
  BY DEF TypeInv, TypeOK, Cursors
<1>4. AckedTo \in Nat
  BY <1>2, <1>3 DEF AckedTo
<1>5. eng.outbox \in SUBSET Positions
  BY DEF TypeInv, ControlInv
<1> QED
  BY <1>1, <1>2, <1>3, <1>4, <1>5

(* What an answered batch acknowledges.                                    *)
LEMMA AckedMeans ==
    ASSUME TypeInv, CursorInv, eng.pc = "acked"
    PROVE  /\ Acked \in Cursors /\ Acked # None
           /\ eng.push <= Acked.push /\ Acked.push <= eng.readTo
           /\ \A p \in Acked.receipts : p <= Acked.push
           /\ \A p \in Positions : since < p /\ p <= Acked.push /\ Pushable(p)
                => Done(p) \/ p \in Acked.receipts
           /\ \A p \in eng.outbox \ Taken : Acked.push < p
<1> USE SyncAssumption
<1>0. /\ Len(stream) \in Nat /\ Positions \in SUBSET Nat /\ since \in Nat
      /\ eng.push \in Nat /\ eng.readTo \in Nat /\ eng.pull \in Nat
      /\ eng.receipts \in SUBSET Nat /\ eng.outbox \in SUBSET Positions /\ eng.outbox # {}
  <2>1. eng.pull \in Nat /\ eng.outbox # {}
    BY DEF TypeInv, TypeOK, ControlInv, Engine
  <2> QED
    BY <2>1, Numbers
<1>1. Taken \subseteq eng.outbox /\ Taken \in SUBSET Nat /\ \A p \in Taken : p <= Len(stream)
  BY <1>0 DEF Taken, First, Positions
<1>2. Taken # {}
  BY <1>0, FirstTakes DEF Taken
<1>3. Last(Taken) \in Taken /\ \A p \in Taken : p <= Last(Taken)
  BY <1>0, <1>1, <1>2, LastIsGreatest
<1>4. \A q \in eng.outbox : q <= Last(Taken) => q \in Taken
  <2>1. eng.outbox \in SUBSET Nat /\ IsFiniteSet(eng.outbox)
    BY <1>0, FinitePositions DEF TypeInv
  <2> QED
    BY <1>3, <2>1, FirstIsPrefix DEF Taken
<1>5. /\ since <= eng.push /\ eng.push <= eng.readTo
      /\ \A p \in eng.outbox : eng.push < p /\ p <= eng.readTo
      /\ eng.rejected \subseteq Taken
      /\ \A p \in Taken : InCloud(p) \/ p \in eng.rejected
      /\ \A p \in eng.receipts : p <= eng.push
  BY DEF CursorInv, PositionsInv, AnswerInv, LedgerInv, On
<1>6. eng.push <= Acked.push /\ Acked.push <= eng.readTo /\ Acked.push \in Nat
      /\ \A p \in Taken : p <= Acked.push
  <2>1. CASE Taken = eng.outbox
    BY <1>0, <1>1, <1>5, <2>1 DEF Acked
  <2>2. CASE Taken # eng.outbox
    <3>1. Acked.push = Last(Taken)
      BY <2>2 DEF Acked
    <3>2. Last(Taken) \in eng.outbox /\ Last(Taken) \in Nat
      BY <1>1, <1>3
    <3>3. eng.push < Last(Taken) /\ Last(Taken) <= eng.readTo
      BY <1>5, <3>2
    <3> QED
      BY <1>0, <1>3, <3>1, <3>2, <3>3
  <2> QED
    BY <2>1, <2>2
<1>7. \A p \in eng.outbox \ Taken : Acked.push < p
  <2>1. SUFFICES ASSUME NEW p \in eng.outbox, p \notin Taken PROVE Acked.push < p
    OBVIOUS
  <2>2. Acked.push = Last(Taken)
    BY <2>1 DEF Acked
  <2>3. p \in Nat /\ Last(Taken) \in Nat /\ ~(p <= Last(Taken))
    BY <1>0, <1>1, <1>3, <1>4, <2>1
  <2> QED
    BY <2>2, <2>3
<1>8. \A p \in eng.outbox : p <= Acked.push => p \in Taken
  <2>1. SUFFICES ASSUME NEW p \in eng.outbox, p <= Acked.push, p \notin Taken PROVE FALSE
    OBVIOUS
  <2>2. p \in Nat /\ Acked.push \in Nat /\ Acked.push < p
    BY <1>0, <1>6, <1>7, <2>1
  <2> QED
    BY <2>1, <2>2
<1>9. Acked.receipts = eng.receipts \cup eng.rejected
  BY DEF Acked
<1>10. Acked \in Cursors /\ Acked # None
  <2>1. Acked.receipts \in SUBSET Nat
    BY <1>0, <1>1, <1>5, <1>9
  <2>2. Acked = [push |-> Acked.push, pull |-> eng.pull, receipts |-> Acked.receipts]
    BY DEF Acked
  <2>3. Acked \in Cursors
    BY <1>0, <1>6, <2>1, <2>2 DEF Cursors
  <2> QED
    BY <2>3, NoneAssumption
<1>11. \A p \in Acked.receipts : p <= Acked.push
  <2>1. SUFFICES ASSUME NEW p \in Acked.receipts PROVE p <= Acked.push
    OBVIOUS
  <2>2. CASE p \in eng.receipts
    <3>1. p \in Nat /\ p <= eng.push
      BY <1>0, <1>5, <2>2
    <3> QED
      BY <1>0, <1>6, <3>1
  <2>3. CASE p \in eng.rejected
    BY <1>5, <1>6, <2>3
  <2> QED
    BY <1>9, <2>2, <2>3
<1>12. ASSUME NEW p \in Positions, since < p, p <= Acked.push, Pushable(p)
       PROVE  Done(p) \/ p \in Acked.receipts
  <2>1. CASE p <= eng.push
    BY <1>9, <1>12, <2>1 DEF CursorInv, EngineInv, On
  <2>2. CASE eng.push < p
    <3>1. p <= eng.readTo
      BY <1>0, <1>6, <1>12
    <3>2. p \in eng.outbox \/ Done(p)
      BY <1>12, <2>2, <3>1 DEF CursorInv, QueueInv, On
    <3> QED
      BY <1>5, <1>8, <1>9, <1>12, <3>2 DEF Done
  <2> QED
    BY <1>0, <2>1, <2>2
<1> QED
  BY <1>6, <1>7, <1>10, <1>11, <1>12

(* A step that leaves cursors, queue and file alone keeps the invariant,   *)
(* also when it adds to the stream, drops from it or adds to the table.    *)
LEMMA QuietStep ==
    ASSUME TypeInv, CursorInv, AnswerInv',
           (stream' = stream /\ trimmed' = trimmed /\ gone' = gone) \/ (\E e \in Entry : Add(e)),
           rows \subseteq rows', file' = file, since' = since,
           On' = On, eng'.push = eng.push, eng'.readTo = eng.readTo,
           eng'.outbox = eng.outbox, eng'.receipts = eng.receipts
    PROVE  CursorInv'
<1>1. /\ Len(stream) \in Nat /\ Len(stream') \in Nat /\ Len(stream) <= Len(stream')
      /\ \A p \in Positions : p \in Positions' /\ stream'[p] = stream[p]
      /\ \A p \in Positions' : p \notin Positions => Len(stream) < p
      /\ gone \subseteq gone' /\ trimmed' <= Len(stream) /\ trimmed' \in Nat
  <2>1. Len(stream) \in Nat /\ trimmed \in 0 .. Len(stream) /\ TypeOK
    BY DEF TypeInv, TypeOK
  <2>2. CASE stream' = stream /\ trimmed' = trimmed /\ gone' = gone
    BY <2>1, <2>2 DEF Positions
  <2>3. CASE \E e \in Entry : Add(e)
    <3>1. /\ Len(stream') = Len(stream) + 1
          /\ \A p \in Positions : p \in Positions' /\ stream'[p] = stream[p]
          /\ trimmed' \in 0 .. Len(stream) /\ gone \subseteq gone'
      BY <2>1, <2>3, AddType
    <3> QED
      BY <2>1, <3>1 DEF Positions
  <2> QED
    BY <2>2, <2>3
<1>2. ASSUME NEW p \in Positions
      PROVE  (Pushable(p)' <=> Pushable(p)) /\ (InCloud(p) => InCloud(p)') /\ (Done(p) => Done(p)')
  BY <1>1, <1>2 DEF Pushable, InCloud, Done
<1>3. AckedTo' = AckedTo
  BY DEF AckedTo, On
<1>4. PositionsInv'
  BY <1>1, Numbers DEF CursorInv, PositionsInv, On
<1>5. LedgerInv'
  BY DEF CursorInv, LedgerInv, On
<1>6. QueueInv'
  <2>1. SUFFICES ASSUME On, NEW p \in Positions', eng.push < p, p <= eng.readTo, Pushable(p)'
                 PROVE  p \in eng.outbox \/ Done(p)'
    BY DEF QueueInv
  <2>2. p \in Positions
    <3>1. eng.readTo <= Len(stream) /\ eng.readTo \in Nat /\ p \in Nat
      BY <1>1, <2>1, Numbers DEF CursorInv, PositionsInv, Positions
    <3> QED
      BY <1>1, <2>1, <3>1
  <2> QED
    BY <1>2, <2>1, <2>2 DEF CursorInv, QueueInv
<1>7. TrimInv'
  <2>1. SUFFICES ASSUME NEW p \in Positions', AckedTo < p, p <= trimmed', Pushable(p)'
                 PROVE  Done(p)'
    BY <1>3 DEF TrimInv
  <2>2. p \in Positions /\ p \in Nat /\ trimmed \in Nat
    <3>1. p \in Nat /\ trimmed \in Nat
      BY <1>1, <2>1, Numbers DEF Positions
    <3> QED
      BY <1>1, <2>1, <3>1
  <2>3. CASE p <= trimmed
    BY <1>2, <2>1, <2>2, <2>3 DEF CursorInv, TrimInv
  <2>4. CASE trimmed < p
    <3>1. \E e \in Entry : Add(e)
      BY <2>1, <2>2, <2>4
    <3>2. gone' = gone \cup {q \in Positions :
                  /\ trimmed < q /\ q <= trimmed' /\ AckedTo < q
                  /\ Pushable(q) /\ ~InCloud(q)}
      BY <3>1 DEF Add
    <3> QED
      BY <1>2, <2>1, <2>2, <2>4, <3>2 DEF Done
  <2> QED
    BY <2>2, <2>3, <2>4
<1>8. EngineInv'
  <2>1. SUFFICES ASSUME On, NEW p \in Positions', since < p, p <= eng.push, Pushable(p)'
                 PROVE  p \in eng.receipts \/ Done(p)'
    BY DEF EngineInv
  <2>2. p \in Positions
    <3>1. eng.push <= Len(stream) /\ eng.push \in Nat /\ p \in Nat
      BY <1>1, <2>1, Numbers DEF CursorInv, PositionsInv, Positions
    <3> QED
      BY <1>1, <2>1, <3>1
  <2> QED
    BY <1>2, <2>1, <2>2 DEF CursorInv, EngineInv
<1>9. FileInv'
  <2>1. SUFFICES ASSUME file # None, NEW p \in Positions', since < p, p <= file.push, Pushable(p)'
                 PROVE  p \in file.receipts \/ Done(p)'
    BY DEF FileInv
  <2>2. p \in Positions
    <3>1. file.push <= Len(stream) /\ file.push \in Nat /\ p \in Nat
      BY <1>1, <2>1, Numbers DEF CursorInv, PositionsInv, Positions
    <3> QED
      BY <1>1, <2>1, <3>1
  <2> QED
    BY <1>2, <2>1, <2>2 DEF CursorInv, FileInv
<1> QED
  BY <1>4, <1>5, <1>6, <1>7, <1>8, <1>9 DEF CursorInv

(* Every step keeps the invariant.  The steps that move a cursor, fill the *)
(* queue or write the file leave stream and table alone; the others are    *)
(* quiet.                                                                  *)
LEMMA CursorStep == TypeInv /\ CursorInv /\ [Next]_vars => CursorInv'
<1> SUFFICES ASSUME TypeInv, CursorInv, [Next]_vars PROVE CursorInv'
  OBVIOUS
<1> USE SyncAssumption
<1>n. /\ Len(stream) \in Nat /\ Positions \in SUBSET Nat /\ since \in Nat /\ trimmed \in Nat
      /\ eng.push \in Nat /\ eng.readTo \in Nat /\ AckedTo \in Nat
      /\ eng.receipts \in SUBSET Nat /\ eng.outbox \in SUBSET Positions
      /\ file # None => file \in Cursors /\ file.push \in Nat /\ file.receipts \in SUBSET Nat
  BY Numbers
<1>t. TypeOK /\ eng \in Engine
  BY DEF TypeInv, TypeOK
<1>s. ASSUME stream' = stream, rows' = rows, gone' = gone
      PROVE  /\ Positions' = Positions
             /\ \A p : (Pushable(p)' <=> Pushable(p)) /\ (InCloud(p)' <=> InCloud(p))
             /\ \A p : Done(p)' <=> Done(p)
  BY <1>s DEF Positions, Pushable, InCloud, Done
<1>1. ASSUME Start PROVE CursorInv'
  <2>1. /\ stream' = stream /\ rows' = rows /\ gone' = gone /\ trimmed' = trimmed
        /\ file' = Loaded /\ since' = IF file = None THEN Loaded.push ELSE since
        /\ ~On /\ eng'.pc = "read" /\ eng'.push = Loaded.push /\ eng'.readTo = Loaded.push
        /\ eng'.outbox = {} /\ eng'.receipts = Loaded.receipts
    BY <1>1 DEF Start, Started, On, hub, worker
  <2>2. Loaded \in Cursors /\ Loaded # None /\ Loaded.push \in Nat
    BY <1>n, NoneAssumption DEF Loaded, Cursors
  <2>3. file = None => Loaded.push <= Len(stream) /\ Loaded.receipts = {}
    BY <1>n DEF Loaded
  <2>4. file # None => Loaded = file /\ AckedTo = file.push
    BY <2>1 DEF Loaded, AckedTo, On
  <2>5. AckedTo' = Loaded.push /\ AckedTo <= Loaded.push
    BY <1>n, <2>1, <2>2, <2>4 DEF AckedTo, On
  <2>6. PositionsInv'
    BY <1>n, <2>1, <2>2, <2>3, <2>4 DEF CursorInv, PositionsInv, On
  <2>7. LedgerInv'
    BY <2>1, <2>3, <2>4 DEF CursorInv, LedgerInv, On
  <2>8. QueueInv'
    <3>1. SUFFICES ASSUME NEW p \in Positions, Loaded.push < p, p <= Loaded.push PROVE FALSE
      BY <1>s, <2>1 DEF QueueInv
    <3> QED
      BY <1>n, <2>2, <3>1
  <2>9. TrimInv'
    <3>1. SUFFICES ASSUME NEW p \in Positions, Loaded.push < p, p <= trimmed, Pushable(p)
                   PROVE  Done(p)
      BY <1>s, <2>1, <2>5 DEF TrimInv
    <3>2. AckedTo < p
      BY <1>n, <2>2, <2>5, <3>1
    <3> QED
      BY <3>1, <3>2 DEF CursorInv, TrimInv
  <2>10. FileInv'
    <3>1. SUFFICES ASSUME NEW p \in Positions, since' < p, p <= Loaded.push, Pushable(p)
                   PROVE  Done(p) \/ p \in Loaded.receipts
      BY <1>s, <2>1 DEF FileInv
    <3>2. CASE file = None
      BY <1>n, <2>1, <2>2, <3>1, <3>2
    <3>3. CASE file # None
      BY <2>1, <2>4, <3>1, <3>3 DEF CursorInv, FileInv
    <3> QED
      BY <3>2, <3>3
  <2>11. EngineInv'
    BY <2>1, <2>2, <2>10 DEF EngineInv, FileInv
  <2>12. AnswerInv'
    BY <2>1 DEF AnswerInv
  <2> QED
    BY <2>6, <2>7, <2>8, <2>9, <2>10, <2>11, <2>12 DEF CursorInv
<1>2. ASSUME Read PROVE CursorInv'
  <2>1. /\ stream' = stream /\ rows' = rows /\ gone' = gone /\ trimmed' = trimmed
        /\ file' = file /\ since' = since
        /\ On /\ On' /\ eng'.pc = "flush" /\ eng'.push = eng.push /\ eng'.readTo = ReadTo
        /\ eng'.outbox = (IF Overflows THEN {} ELSE eng.outbox \cup Eligible)
        /\ eng'.receipts = eng.receipts
    BY <1>2, <1>t DEF Read, On, hub, worker, Engine
  <2>2. /\ file # None /\ since <= eng.push /\ eng.push <= eng.readTo /\ eng.readTo <= Len(stream)
        /\ \A p \in eng.outbox : eng.push < p /\ p <= eng.readTo
    BY <2>1 DEF CursorInv, PositionsInv
  <2>3. /\ Chunk \in SUBSET Positions /\ Chunk \in SUBSET Nat
        /\ \A p \in Chunk : eng.readTo < p /\ p <= Len(stream)
    BY <1>n DEF Chunk, First, Later, Positions
  <2>4. Chunk # {} => Last(Chunk) \in Chunk /\ \A p \in Chunk : p <= Last(Chunk)
    BY <1>n, <2>3, LastIsGreatest
  <2>5. ASSUME NEW p \in Positions, eng.readTo < p, Chunk # {}, p <= Last(Chunk)
        PROVE  p \in Chunk \/ p <= trimmed
    <3>1. SUFFICES ASSUME ~(p <= trimmed) PROVE p \in Chunk
      OBVIOUS
    <3>2. p \in Later(eng.readTo)
      <4>1. p \in Nat /\ eng.readTo \in Nat /\ trimmed \in Nat
        BY <1>n, <2>5
      <4>2. p > eng.readTo
        BY <2>5, <4>1
      <4>3. p > trimmed
        BY <3>1, <4>1
      <4> QED
        BY <2>5, <4>2, <4>3 DEF Later
    <3>3. Later(eng.readTo) \in SUBSET Nat /\ IsFiniteSet(Later(eng.readTo))
      <4>1. Later(eng.readTo) \in SUBSET Positions
        BY DEF Later
      <4> QED
        BY <4>1, <1>t, FinitePositions
    <3> QED
      BY <2>4, <2>5, <3>2, <3>3, FirstIsPrefix DEF Chunk
  <2>6. /\ ReadTo \in Nat /\ eng.push <= ReadTo /\ ReadTo <= Len(stream)
        /\ \A p \in eng'.outbox : eng.push < p /\ p <= ReadTo
    <3>1. CASE Overflows
      BY <1>n, <2>1, <2>2, <3>1 DEF ReadTo
    <3>2. CASE ~Overflows /\ Chunk = {}
      BY <1>n, <2>1, <2>2, <3>2 DEF ReadTo, Eligible
    <3>3. CASE ~Overflows /\ Chunk # {}
      <4>1. ReadTo = Last(Chunk) /\ eng.readTo < ReadTo /\ ReadTo <= Len(stream) /\ ReadTo \in Nat
        BY <2>3, <2>4, <3>3 DEF ReadTo
      <4>2. \A p \in Eligible : p \in Nat /\ eng.readTo < p /\ p <= ReadTo
        BY <2>3, <2>4, <3>3, <4>1 DEF Eligible
      <4>3. eng'.outbox = eng.outbox \cup Eligible /\ eng.outbox \in SUBSET Nat
        BY <1>n, <2>1, <3>3
      <4>4. eng.push <= ReadTo
        BY <1>n, <2>2, <4>1
      <4>5. ASSUME NEW p \in eng'.outbox PROVE eng.push < p /\ p <= ReadTo
        <5>1. CASE p \in eng.outbox
          BY <1>n, <2>2, <4>1, <4>3, <5>1
        <5>2. CASE p \in Eligible
          BY <1>n, <2>2, <4>1, <4>2, <5>2
        <5> QED
          BY <4>3, <4>5, <5>1, <5>2
      <4> QED
        BY <4>1, <4>4, <4>5
    <3> QED
      BY <3>1, <3>2, <3>3
  <2>7. PositionsInv'
    BY <2>1, <2>2, <2>6 DEF CursorInv, PositionsInv
  <2>8. LedgerInv'
    BY <2>1 DEF CursorInv, LedgerInv
  <2>9. QueueInv'
    <3>1. SUFFICES ASSUME NEW p \in Positions, eng.push < p, p <= ReadTo, Pushable(p)
                   PROVE  p \in eng'.outbox \/ Done(p)
      BY <1>s, <2>1 DEF QueueInv
    <3>2. ~Overflows /\ p \in Nat
      BY <1>n, <3>1 DEF ReadTo
    <3>3. CASE p <= eng.readTo
      BY <2>1, <3>1, <3>2, <3>3 DEF CursorInv, QueueInv
    <3>4. CASE eng.readTo < p
      <4>1. Chunk # {} /\ p <= Last(Chunk)
        <5>1. Chunk = {} => ReadTo = eng.readTo
          BY <3>2 DEF ReadTo
        <5>2. Chunk # {}
          BY <1>n, <3>1, <3>2, <3>4, <5>1
        <5>3. ReadTo = Last(Chunk)
          BY <3>2, <5>2 DEF ReadTo
        <5> QED
          BY <3>1, <5>2, <5>3
      <4>2. CASE p \in Chunk
        BY <2>1, <3>1, <3>2, <4>2 DEF Eligible
      <4>3. CASE p <= trimmed
        BY <2>1, <3>1, <4>3 DEF CursorInv, TrimInv, AckedTo, On
      <4> QED
        BY <2>5, <3>4, <4>1, <4>2, <4>3
    <3> QED
      BY <1>n, <3>2, <3>3, <3>4
  <2>10. AckedTo' = AckedTo
    BY <2>1 DEF AckedTo, On
  <2>11. TrimInv'
    BY <1>s, <2>1, <2>10 DEF CursorInv, TrimInv
  <2>12. EngineInv' /\ FileInv' /\ AnswerInv'
    BY <1>s, <2>1 DEF CursorInv, EngineInv, FileInv, AnswerInv
  <2> QED
    BY <2>7, <2>8, <2>9, <2>11, <2>12 DEF CursorInv
<1>3. ASSUME Acknowledge PROVE CursorInv'
  <2>1. /\ stream' = stream /\ rows' = rows /\ gone' = gone /\ trimmed' = trimmed
        /\ since' = since /\ eng.pc = "acked" /\ Advance
        /\ file' = Acked \/ (file' = file /\ eng.rejected = {})
    BY <1>3 DEF Acknowledge, Persist, hub, worker
  <2>2. /\ On /\ On' /\ eng'.pc = "flush" /\ eng'.push = Acked.push /\ eng'.readTo = eng.readTo
        /\ eng'.outbox = eng.outbox \ Taken
        /\ eng'.receipts = Acked.receipts
    BY <1>t, <2>1 DEF Advance, On, Engine
  <2>3. /\ Acked \in Cursors /\ Acked # None /\ Acked.push \in Nat
        /\ eng.push <= Acked.push /\ Acked.push <= eng.readTo
        /\ \A p \in Acked.receipts : p <= Acked.push
        /\ \A p \in Positions : since < p /\ p <= Acked.push /\ Pushable(p)
                => Done(p) \/ p \in Acked.receipts
        /\ \A p \in eng.outbox \ Taken : Acked.push < p
    BY <2>1, AckedMeans DEF Cursors
  <2>4. /\ file # None /\ since <= eng.push /\ eng.readTo <= Len(stream)
        /\ \A p \in eng.outbox : p <= eng.readTo
    BY <2>2 DEF CursorInv, PositionsInv
  <2>5. file' # None
    BY <2>1, <2>3, <2>4
  <2>6. Acked.receipts = eng.receipts \cup eng.rejected
    BY DEF Acked
  <2>7. PositionsInv'
    <3>1. since <= Acked.push /\ Acked.push <= Len(stream)
      BY <1>n, <2>3, <2>4
    <3>2. since' <= file'.push /\ file'.push <= Len(stream')
      BY <2>1, <2>4, <3>1 DEF CursorInv, PositionsInv
    <3> QED
      BY <2>1, <2>2, <2>3, <2>4, <2>5, <3>1, <3>2 DEF PositionsInv
  <2>8. LedgerInv'
    <3>1. CASE file' = Acked
      BY <2>2, <2>3, <3>1 DEF LedgerInv
    <3>2. CASE file' = file /\ eng.rejected = {}
      BY <2>2, <2>3, <2>6, <3>2 DEF CursorInv, LedgerInv
    <3> QED
      BY <2>1, <3>1, <3>2
  <2>9. QueueInv'
    <3>1. SUFFICES ASSUME NEW p \in Positions, Acked.push < p, p <= eng.readTo, Pushable(p)
                   PROVE  p \in eng.outbox \ Taken \/ Done(p)
      BY <1>s, <2>1, <2>2 DEF QueueInv
    <3>2. p \in eng.outbox \/ Done(p)
      <4>1. eng.push < p
        BY <1>n, <2>3, <3>1
      <4> QED
        BY <2>2, <3>1, <4>1 DEF CursorInv, QueueInv
    <3>3. p \in Taken => Done(p)
      <4>1. p \in Taken => InCloud(p) \/ p \in eng.rejected
        BY <2>1 DEF CursorInv, AnswerInv
      <4>2. p \notin eng.rejected
        BY <1>n, <2>3, <2>6, <3>1
      <4> QED
        BY <4>1, <4>2 DEF Done
    <3> QED
      BY <3>2, <3>3
  <2>10. TrimInv'
    <3>1. AckedTo = eng.push /\ AckedTo' = Acked.push
      BY <2>2 DEF AckedTo, On
    <3>2. SUFFICES ASSUME NEW p \in Positions, Acked.push < p, p <= trimmed, Pushable(p)
                   PROVE  Done(p)
      BY <1>s, <2>1, <3>1 DEF TrimInv
    <3>3. AckedTo < p
      BY <1>n, <2>3, <3>1, <3>2
    <3> QED
      BY <3>2, <3>3 DEF CursorInv, TrimInv
  <2>11. EngineInv'
    BY <1>s, <2>1, <2>2, <2>3 DEF EngineInv
  <2>12. FileInv'
    <3>1. CASE file' = Acked
      BY <1>s, <2>1, <2>3, <3>1 DEF FileInv
    <3>2. CASE file' = file
      BY <1>s, <2>1, <3>2 DEF CursorInv, FileInv
    <3> QED
      BY <2>1, <3>1, <3>2
  <2>13. AnswerInv'
    BY <2>2 DEF AnswerInv
  <2> QED
    BY <2>7, <2>8, <2>9, <2>10, <2>11, <2>12, <2>13 DEF CursorInv
<1>4. ASSUME Fail, On
      PROVE  /\ On /\ On' /\ eng'.push = eng.push /\ eng'.readTo = eng.readTo
             /\ eng'.outbox = eng.outbox /\ eng'.receipts = eng.receipts /\ AnswerInv'
  <2>1. /\ eng'.push = eng.push /\ eng'.readTo = eng.readTo /\ eng'.pc = "wait"
        /\ eng'.outbox = eng.outbox /\ eng'.receipts = eng.receipts
    BY <1>t, <1>4 DEF Fail, Engine
  <2> QED
    BY <1>4, <2>1 DEF On, AnswerInv
<1>5. ASSUME RetainBatch PROVE CursorInv'
  <2>1. /\ stream' = stream /\ rows' = rows /\ gone' = gone /\ trimmed' = trimmed
        /\ since' = since /\ eng.pc = "acked" /\ Fail
        /\ file' = Acked \/ file' = file
    BY <1>5 DEF RetainBatch, hub, worker
  <2>2. /\ On /\ On' /\ eng'.push = eng.push /\ eng'.readTo = eng.readTo
        /\ eng'.outbox = eng.outbox /\ eng'.receipts = eng.receipts /\ AnswerInv'
    BY <1>4, <2>1 DEF On
  <2>3. CASE file' = file
    BY <2>1, <2>2, <2>3, QuietStep
  <2>4. CASE file' = Acked
    <3>1. /\ Acked \in Cursors /\ Acked # None /\ Acked.push \in Nat
          /\ eng.push <= Acked.push /\ Acked.push <= eng.readTo
          /\ \A p \in Acked.receipts : p <= Acked.push
          /\ \A p \in Positions : since < p /\ p <= Acked.push /\ Pushable(p)
                => Done(p) \/ p \in Acked.receipts
      BY <2>1, AckedMeans DEF Cursors
    <3>2. PositionsInv'
      <4>1. since <= eng.push /\ eng.readTo <= Len(stream)
        BY <2>2 DEF CursorInv, PositionsInv
      <4>2. since <= Acked.push /\ Acked.push <= Len(stream)
        BY <1>n, <3>1, <4>1
      <4> QED
        BY <2>1, <2>2, <2>4, <3>1, <4>2 DEF CursorInv, PositionsInv
    <3>3. LedgerInv'
      <4>1. eng.receipts \subseteq Acked.receipts
        BY DEF Acked
      <4> QED
        BY <2>2, <2>4, <3>1, <4>1 DEF CursorInv, LedgerInv
    <3>4. QueueInv' /\ EngineInv'
      BY <1>s, <2>1, <2>2 DEF CursorInv, QueueInv, EngineInv
    <3>5. AckedTo' = AckedTo
      BY <2>2 DEF AckedTo, On
    <3>6. TrimInv'
      BY <1>s, <2>1, <3>5 DEF CursorInv, TrimInv
    <3>7. FileInv'
      BY <1>s, <2>1, <2>4, <3>1 DEF FileInv
    <3> QED
      BY <2>2, <3>2, <3>3, <3>4, <3>6, <3>7 DEF CursorInv
  <2> QED
    BY <2>1, <2>3, <2>4
<1>6. ASSUME CaughtUp PROVE CursorInv'
  <2>1. /\ stream' = stream /\ rows' = rows /\ gone' = gone /\ trimmed' = trimmed
        /\ since' = since /\ eng.pc = "flush" /\ eng.outbox = {}
        /\ file' = CursorsAt(eng.readTo, eng.pull) \/ file' = file
    BY <1>6 DEF CaughtUp, Persist, hub, worker
  <2>2. /\ On /\ On' /\ eng'.pc # "acked" /\ eng'.push = eng.readTo /\ eng'.readTo = eng.readTo
        /\ eng'.outbox = {} /\ eng'.receipts = eng.receipts
    BY <1>t, <1>6 DEF CaughtUp, On, Engine
  <2>3. /\ file # None /\ since <= eng.push /\ eng.push <= eng.readTo /\ eng.readTo <= Len(stream)
        /\ eng.receipts \subseteq file.receipts /\ \A p \in eng.receipts : p <= eng.push
    BY <2>2 DEF CursorInv, PositionsInv, LedgerInv
  <2>4. since <= eng.readTo /\ \A p \in eng.receipts : p <= eng.readTo
    BY <1>n, <2>3
  <2>5. ASSUME NEW p \in Positions, since < p, p <= eng.readTo, Pushable(p)
        PROVE  Done(p) \/ p \in eng.receipts
    <3>1. CASE p <= eng.push
      BY <2>2, <2>5, <3>1 DEF CursorInv, EngineInv
    <3>2. CASE eng.push < p
      BY <2>1, <2>2, <2>5, <3>2 DEF CursorInv, QueueInv
    <3> QED
      BY <1>n, <3>1, <3>2
  <2>6. QueueInv' /\ EngineInv' /\ AnswerInv'
    <3>1. QueueInv'
      <4>1. SUFFICES ASSUME NEW p \in Positions, eng.readTo < p, p <= eng.readTo PROVE FALSE
        BY <1>s, <2>1, <2>2 DEF QueueInv
      <4> QED
        BY <1>n, <4>1
    <3>2. EngineInv'
      BY <1>s, <2>1, <2>2, <2>5 DEF EngineInv
    <3> QED
      BY <3>1, <3>2, <2>2 DEF AnswerInv
  <2>7. TrimInv'
    <3>1. AckedTo = eng.push /\ AckedTo' = eng.readTo
      BY <2>2 DEF AckedTo, On
    <3>2. SUFFICES ASSUME NEW p \in Positions, eng.readTo < p, p <= trimmed, Pushable(p)
                   PROVE  Done(p)
      BY <1>s, <2>1, <3>1 DEF TrimInv
    <3>3. AckedTo < p
      BY <1>n, <2>3, <3>1, <3>2
    <3> QED
      BY <3>2, <3>3 DEF CursorInv, TrimInv
  <2>8. CASE file' = file
    <3>1. PositionsInv'
      BY <1>n, <2>1, <2>2, <2>3, <2>4, <2>8 DEF CursorInv, PositionsInv
    <3>2. LedgerInv'
      BY <2>2, <2>3, <2>4, <2>8 DEF CursorInv, LedgerInv
    <3>3. FileInv'
      BY <1>s, <2>1, <2>8 DEF CursorInv, FileInv
    <3> QED
      BY <2>6, <2>7, <3>1, <3>2, <3>3 DEF CursorInv
  <2>9. CASE file' = CursorsAt(eng.readTo, eng.pull)
    <3>1. file' # None /\ file'.push = eng.readTo /\ file'.receipts = eng.receipts
      <4>1. file' \in Cursors
        BY <1>t, <2>9 DEF CursorsAt, Cursors, Engine
      <4> QED
        BY <2>9, <4>1, NoneAssumption DEF CursorsAt
    <3>2. PositionsInv'
      BY <1>n, <2>1, <2>2, <2>3, <2>4, <3>1 DEF PositionsInv
    <3>3. LedgerInv'
      BY <2>2, <2>4, <3>1 DEF LedgerInv
    <3>4. FileInv'
      BY <1>s, <2>1, <2>5, <3>1 DEF FileInv
    <3> QED
      BY <2>6, <2>7, <3>2, <3>3, <3>4 DEF CursorInv
  <2> QED
    BY <2>1, <2>8, <2>9
<1>7. ASSUME PageDone PROVE CursorInv'
  <2>1. /\ stream' = stream /\ rows' = rows /\ gone' = gone /\ trimmed' = trimmed
        /\ since' = since
        /\ file' = CursorsAt(eng.push, PulledTo) \/ file' = file
    BY <1>7 DEF PageDone, Persist, hub, worker
  <2>2. /\ On /\ On' /\ eng'.pc # "acked" /\ eng'.push = eng.push /\ eng'.readTo = eng.readTo
        /\ eng'.outbox = eng.outbox /\ eng'.receipts = eng.receipts
    BY <1>t, <1>7 DEF PageDone, On, Engine
  <2>3. AnswerInv'
    BY <2>2 DEF AnswerInv
  <2>4. CASE file' = file
    BY <2>1, <2>2, <2>3, <2>4, QuietStep
  <2>5. CASE file' = CursorsAt(eng.push, PulledTo)
    <3>1. file' # None /\ file'.push = eng.push /\ file'.receipts = eng.receipts
      <4>1. file' \in Cursors
        BY <1>t, <2>5 DEF CursorsAt, PulledTo, Cursors, Engine
      <4> QED
        BY <2>5, <4>1, NoneAssumption DEF CursorsAt
    <3>2. PositionsInv'
      BY <1>n, <2>1, <2>2, <3>1 DEF CursorInv, PositionsInv
    <3>3. LedgerInv'
      BY <2>2, <3>1 DEF CursorInv, LedgerInv
    <3>4. QueueInv' /\ EngineInv'
      BY <1>s, <2>1, <2>2 DEF CursorInv, QueueInv, EngineInv
    <3>5. AckedTo' = AckedTo
      BY <2>2 DEF AckedTo, On
    <3>6. TrimInv'
      BY <1>s, <2>1, <3>5 DEF CursorInv, TrimInv
    <3>7. FileInv'
      BY <1>s, <2>1, <2>2, <3>1 DEF CursorInv, FileInv, EngineInv
    <3> QED
      BY <2>3, <3>2, <3>3, <3>4, <3>6, <3>7 DEF CursorInv
  <2> QED
    BY <2>1, <2>4, <2>5
<1>8. ASSUME Crash PROVE CursorInv'
  <2>1. /\ stream' = stream /\ rows' = rows /\ gone' = gone /\ trimmed' = trimmed
        /\ since' = since /\ file' = file /\ On /\ eng'.pc = "off"
    BY <1>8 DEF Crash, Off, On, hub, worker
  <2>2. file # None /\ since <= file.push
    BY <2>1 DEF CursorInv, PositionsInv
  <2>3. AckedTo = eng.push /\ AckedTo' = file.push
    BY <2>1, <2>2 DEF AckedTo, On
  <2>4. TrimInv'
    <3>1. SUFFICES ASSUME NEW p \in Positions, file.push < p, p <= trimmed, Pushable(p)
                   PROVE  Done(p)
      BY <1>s, <2>1, <2>3 DEF TrimInv
    <3>2. CASE eng.push < p
      BY <2>3, <3>1, <3>2 DEF CursorInv, TrimInv
    <3>3. CASE p <= eng.push
      <4>1. since < p
        BY <1>n, <2>2, <3>1
      <4>2. p \notin eng.receipts
        <5>1. p \notin file.receipts
          BY <1>n, <2>2, <3>1 DEF CursorInv, LedgerInv
        <5> QED
          BY <2>1, <5>1 DEF CursorInv, LedgerInv
      <4> QED
        BY <2>1, <3>1, <3>3, <4>1, <4>2 DEF CursorInv, EngineInv
    <3> QED
      BY <1>n, <3>2, <3>3
  <2>5. PositionsInv' /\ LedgerInv'
    BY <2>1 DEF CursorInv, PositionsInv, LedgerInv, On
  <2>6. QueueInv' /\ EngineInv' /\ AnswerInv'
    BY <2>1 DEF QueueInv, EngineInv, AnswerInv, On
  <2>7. FileInv'
    BY <1>s, <2>1 DEF CursorInv, FileInv
  <2> QED
    BY <2>4, <2>5, <2>6, <2>7 DEF CursorInv
<1>9. ASSUME Poll \/ Push \/ Pull \/ Notify PROVE CursorInv'
  <2>1. /\ stream' = stream /\ trimmed' = trimmed /\ gone' = gone /\ rows' = rows
        /\ file' = file /\ since' = since
    BY <1>9 DEF Poll, Push, Pull, Notify, hub, worker
  <2>2. /\ On /\ On' /\ eng'.pc # "acked" /\ eng'.push = eng.push /\ eng'.readTo = eng.readTo
        /\ eng'.outbox = eng.outbox /\ eng'.receipts = eng.receipts
    BY <1>9, <1>t DEF Poll, Push, Pull, Notify, On, Engine
  <2>3. AnswerInv'
    BY <2>2 DEF AnswerInv
  <2> QED
    BY <2>1, <2>2, <2>3, QuietStep
<1>10. ASSUME Answer PROVE CursorInv'
  <2>1. /\ stream' = stream /\ trimmed' = trimmed /\ gone' = gone /\ rows \subseteq rows'
        /\ file' = file /\ since' = since
    BY <1>10 DEF Answer, Insert, hub
  <2>2. /\ On /\ On' /\ eng'.push = eng.push /\ eng'.readTo = eng.readTo
        /\ eng'.outbox = eng.outbox /\ eng'.receipts = eng.receipts
        /\ eng'.rejected = {p \in Taken : stream[p].kind = "bad"}
    BY <1>10, <1>t DEF Answer, On, Engine
  <2>3. Taken' = Taken
    BY <2>2 DEF Taken
  <2>4. ASSUME NEW p \in Taken, stream[p].kind # "bad" PROVE InCloud(p)'
    <3>1. CASE InCloud(p)
      BY <2>1, <3>1 DEF InCloud
    <3>2. CASE ~InCloud(p)
      <4>1. p \in New(Taken)
        BY <2>4, <3>2 DEF New
      <4>2. [seq |-> top + Cardinality(UpTo(New(Taken), p)), origin |-> "hub", of |-> p] \in rows'
        BY <1>10, <4>1 DEF Answer, Insert
      <4> QED
        BY <4>2 DEF InCloud
    <3> QED
      BY <3>1, <3>2
  <2>5. AnswerInv'
    BY <2>2, <2>3, <2>4 DEF AnswerInv
  <2> QED
    BY <2>1, <2>2, <2>5, QuietStep
<1>11. ASSUME CallFails \/ PushTimesOut \/ (\E n \in 0 .. MaxStream : PushFails(n)) PROVE CursorInv'
  <2>1. /\ stream' = stream /\ trimmed' = trimmed /\ gone' = gone /\ rows \subseteq rows'
        /\ file' = file /\ since' = since
    BY <1>11 DEF CallFails, PushTimesOut, PushFails, Insert, hub, worker
  <2>2. Fail /\ On
    BY <1>11 DEF CallFails, PushTimesOut, PushFails, On
  <2> QED
    BY <1>4, <2>1, <2>2, QuietStep
<1>12. ASSUME NEW s \in eng.page, Store(s) PROVE \E e \in Entry : Add(e)
  <2>1. [kind |-> "pulled", of |-> s] \in Entry
    BY DEF Entry, TypeInv, ControlInv
  <2> QED
    BY <1>12, <2>1 DEF Store
<1>13. ASSUME NEW s \in eng.page, Ingest(s) PROVE CursorInv'
  <2>1. /\ (stream' = stream /\ trimmed' = trimmed /\ gone' = gone) \/ (\E e \in Entry : Add(e))
        /\ rows' = rows /\ file' = file /\ since' = since
    BY <1>12, <1>13 DEF Ingest, hub, worker
  <2>2. /\ On /\ On' /\ eng'.pc # "acked" /\ eng'.push = eng.push /\ eng'.readTo = eng.readTo
        /\ eng'.outbox = eng.outbox /\ eng'.receipts = eng.receipts
    BY <1>13, <1>t DEF Ingest, On, Engine
  <2>3. AnswerInv'
    BY <2>2 DEF AnswerInv
  <2> QED
    BY <2>1, <2>2, <2>3, QuietStep
<1>14. ASSUME NEW s \in eng.page, IngestFails(s) PROVE CursorInv'
  <2>1. /\ (stream' = stream /\ trimmed' = trimmed /\ gone' = gone) \/ (\E e \in Entry : Add(e))
        /\ rows' = rows /\ file' = file /\ since' = since
    BY <1>12, <1>14 DEF IngestFails, hub, worker
  <2>2. Fail /\ On
    BY <1>14 DEF IngestFails, On
  <2> QED
    BY <1>4, <2>1, <2>2, QuietStep
<1>15. ASSUME eng' = eng, (\E k \in Kinds : Post(k)) \/ (\E o \in Origins : Elsewhere(o))
              \/ (\E b \in late, n \in 0 .. MaxStream : LatePush(b, n)) \/ UNCHANGED vars
       PROVE  CursorInv'
  <2>1. \A k \in Kinds : [kind |-> k, of |-> 0] \in Entry
    BY DEF Entry
  <2>2. /\ (stream' = stream /\ trimmed' = trimmed /\ gone' = gone) \/ (\E e \in Entry : Add(e))
        /\ rows \subseteq rows' /\ file' = file /\ since' = since
    <3>1. CASE \E k \in Kinds : Post(k)
      BY <2>1, <3>1 DEF Post, worker
    <3>2. CASE \E o \in Origins : Elsewhere(o)
      BY <3>2 DEF Elsewhere, hub
    <3>3. CASE \E b \in late, n \in 0 .. MaxStream : LatePush(b, n)
      BY <3>3 DEF LatePush, Insert, hub
    <3>4. CASE UNCHANGED vars
      BY <3>4 DEF vars, hub, worker
    <3> QED
      BY <1>15, <3>1, <3>2, <3>3, <3>4
  <2>3. AnswerInv'
    <3>1. Taken' = Taken /\ \A p : InCloud(p) => InCloud(p)'
      BY <1>15, <2>2 DEF Taken, InCloud
    <3> QED
      BY <1>15, <3>1 DEF CursorInv, AnswerInv
  <2>4. On' = On
    BY <1>15 DEF On
  <2> QED
    BY <1>15, <2>2, <2>3, <2>4, QuietStep
<1>16. (\E k \in Kinds : Post(k)) \/ (\E o \in Origins : Elsewhere(o))
       \/ (\E b \in late, n \in 0 .. MaxStream : LatePush(b, n)) \/ UNCHANGED vars => eng' = eng
  BY DEF Post, Elsewhere, LatePush, vars
<1>17. ASSUME Outage PROVE CursorInv'
  <2>1. /\ ~On /\ ~On' /\ eng'.pc # "acked" /\ stream' = stream /\ rows' = rows
        /\ gone' = gone /\ trimmed' = trimmed /\ since' = since /\ file' = file
    BY <1>17, OutageIs DEF hub, worker
  <2>2. AckedTo' = AckedTo
    BY <2>1 DEF AckedTo
  <2>3. TrimInv' /\ FileInv'
    BY <1>s, <2>1, <2>2 DEF CursorInv, TrimInv, FileInv
  <2>4. PositionsInv' /\ LedgerInv'
    BY <2>1 DEF CursorInv, PositionsInv, LedgerInv
  <2>5. QueueInv' /\ EngineInv' /\ AnswerInv'
    BY <2>1 DEF QueueInv, EngineInv, AnswerInv
  <2> QED
    BY <2>3, <2>4, <2>5 DEF CursorInv
<1> QED
  BY <1>1, <1>2, <1>3, <1>5, <1>6, <1>7, <1>8, <1>9, <1>10, <1>11, <1>13, <1>14, <1>15, <1>16, <1>17
     DEF Next, Step, Failure, Environment

(* The invariant holds at the start.                                       *)
LEMMA CursorInit == Init => CursorInv
<1>1. SUFFICES ASSUME Init PROVE CursorInv
  OBVIOUS
<1>2. ~On /\ file = None /\ Positions = {} /\ eng.pc # "acked"
  BY <1>1 DEF Init, Off, On, Positions
<1> QED
  BY <1>2 DEF CursorInv, PositionsInv, LedgerInv, QueueInv, TrimInv, EngineInv, AnswerInv, FileInv

(* Whatever fails, is late or is not saved, and wherever the hub stops, no *)
(* message that may leave lies behind the saved push cursor unless the     *)
(* Worker has it, its receipt is in the same file, or the stream dropped   *)
(* it before it could be acknowledged.                                     *)
THEOREM CursorIsHonest == Spec => []CursorMeansReplicated
<1>2. FileInv => CursorMeansReplicated
  BY DEF FileInv, CursorMeansReplicated, Done
<1>3. CursorInv => FileInv
  BY DEF CursorInv
<1>4. Spec => []TypeInv
  BY TypeInit, TypeStep, PTL DEF Spec
<1> QED
  BY <1>2, <1>3, <1>4, CursorInit, CursorStep, PTL DEF Spec

-----------------------------------------------------------------------------
(* What the Worker has of this hub, and in which order.                    *)

FromHub == {r \in rows : r.origin = "hub"}
BadAt(p) == p \in Positions /\ stream[p].kind = "bad"

(* Queues and batches under way hold only what may leave, from after the   *)
(* first run's start; receipts are of messages that the Worker rejects;    *)
(* before the first run nothing has left.                                  *)
OwnInv ==
    /\ \A r \in FromHub : r.of \in Positions /\ stream[r.of].kind = "open" /\ since < r.of
    /\ \A p \in eng.outbox : Pushable(p)
    /\ \A b \in late : \A p \in b : Pushable(p) /\ since < p
    /\ \A p \in eng.receipts \cup eng.rejected : BadAt(p)
    /\ file # None => \A p \in file.receipts : BadAt(p)
    /\ file = None => late = {} /\ FromHub = {}

\* Whatever should have left before q is in b, at the Worker or lost.
Preceded(q, b) ==
    \A p \in Positions : since < p /\ p < q /\ stream[p].kind = "open"
        => p \in b \/ Done(p)

(* A batch leaves nothing out, not even one that was given up: its front   *)
(* may arrive at any time.                                                 *)
OrderInv ==
    /\ \A r \in FromHub : Preceded(r.of, {})
    /\ \A b \in late : \A q \in b : Preceded(q, b)
    /\ CloudInStreamOrder

(* The stream only grows, and what it lost stays lost.                     *)
LEMMA StreamGrows ==
    ASSUME TypeInv, [Next]_vars
    PROVE  /\ Len(stream) \in Nat /\ Len(stream') \in Nat
           /\ \A p \in Positions : p \in Nat /\ p \in Positions' /\ stream'[p] = stream[p]
           /\ \A p \in Positions' : p \in Nat /\ (p \notin Positions => Len(stream) < p)
           /\ gone \subseteq gone'
<1>1. TypeOK /\ Len(stream) \in Nat /\ eng.page \subseteq Nat
  BY DEF TypeInv, TypeOK, ControlInv
<1>2. (stream' = stream /\ gone' = gone) \/ (\E e \in Entry : Add(e))
  <2>1. ASSUME NEW s \in Nat, Store(s) PROVE \E e \in Entry : Add(e)
    BY <2>1 DEF Store, Entry
  <2>2. ASSUME NEW k \in Kinds, Post(k) PROVE \E e \in Entry : Add(e)
    BY <2>2, SyncAssumption DEF Post, Entry
  <2>3. ASSUME NEW s \in eng.page, Ingest(s) \/ IngestFails(s)
        PROVE  UNCHANGED hub \/ \E e \in Entry : Add(e)
    BY <1>1, <2>1, <2>3 DEF Ingest, IngestFails
  <2> QED
    BY <2>2, <2>3 DEF hub, Next, Step, Failure, Environment, Start, Poll, Read, Push,
       Answer, Acknowledge, RetainBatch, CaughtUp, Pull, Notify, PageDone, CallFails,
       PushTimesOut, Crash, PushFails, Elsewhere, LatePush, Outage, StartFails, Restart, vars
<1>3. CASE stream' = stream /\ gone' = gone
  BY <1>1, <1>3 DEF Positions
<1>4. CASE \E e \in Entry : Add(e)
  <2>1. /\ Len(stream') = Len(stream) + 1
        /\ \A p \in Positions : p \in Positions' /\ stream'[p] = stream[p]
        /\ gone \subseteq gone'
    BY <1>1, <1>4, AddType
  <2> QED
    BY <1>1, <2>1 DEF Positions
<1> QED
  BY <1>2, <1>3, <1>4

\* A batch that the Worker may handle in this step, wholly or in part.
Arrives(b) ==
    /\ b \in late \/ (eng.pc = "sent" /\ b = Taken)
    /\ \E n \in Nat : Insert(UpTo(b, n))
    /\ stream' = stream /\ gone' = gone /\ since' = since /\ file' = file

(* How a step changes the table.                                           *)
LEMMA RowsChange ==
    ASSUME TypeInv, [Next]_vars
    PROVE  \/ rows' = rows /\ top' = top
           \/ \E o \in Origins : Elsewhere(o)
           \/ \E b \in SUBSET Positions : Arrives(b)
<1>0. Taken \in SUBSET Positions /\ late \subseteq SUBSET Positions /\ MaxStream \in Nat
      /\ Positions \in SUBSET Nat /\ Len(stream) \in Nat
  BY SyncAssumption DEF Taken, First, TypeInv, TypeOK, ControlInv, Positions
<1>1. ASSUME Answer PROVE Arrives(Taken)
  <2>1. UpTo(Taken, Len(stream)) = Taken
    <3>1. \A p \in Taken : p <= Len(stream)
      BY <1>0, FinitePositions DEF TypeInv
    <3> QED
      BY <3>1 DEF UpTo
  <2>2. Insert(UpTo(Taken, Len(stream)))
    BY <1>1, <2>1 DEF Answer
  <2> QED
    BY <1>0, <1>1, <2>2 DEF Answer, Arrives, hub
<1>2. ASSUME NEW n \in 0 .. MaxStream, PushFails(n) PROVE Arrives(Taken)
  BY <1>0, <1>2 DEF PushFails, Arrives, hub
<1>3. ASSUME NEW b \in late, NEW n \in 0 .. MaxStream, LatePush(b, n) PROVE Arrives(b)
  BY <1>0, <1>3 DEF LatePush, Arrives, hub
<1>4. \/ rows' = rows /\ top' = top
      \/ \E o \in Origins : Elsewhere(o)
      \/ Answer \/ (\E n \in 0 .. MaxStream : PushFails(n))
      \/ \E b \in late, n \in 0 .. MaxStream : LatePush(b, n)
  BY DEF worker, Next, Step, Failure, Environment, Start, Poll, Read, Push,
     Acknowledge, RetainBatch, CaughtUp, Pull, Ingest, Notify, PageDone, CallFails,
     PushTimesOut, Crash, IngestFails, Post, Outage, StartFails, Restart, vars
<1> QED
  BY <1>0, <1>1, <1>2, <1>3, <1>4

(* How a step changes queues, receipts and the file.                       *)
LEMMA QueuesChange ==
    ASSUME TypeInv, [Next]_vars
    PROVE  /\ late' \subseteq late \/ (eng.pc = "sent" /\ late' = late \cup {Taken})
           /\ eng'.outbox \subseteq eng.outbox \cup Eligible
           /\ \A p \in eng'.receipts : \/ p \in eng.receipts \cup eng.rejected
                                       \/ file # None /\ p \in file.receipts
           /\ \A p \in eng'.rejected : p \in eng.rejected \/ (p \in Taken /\ stream[p].kind = "bad")
           /\ file' # None => \A p \in file'.receipts :
                                  \/ p \in eng.receipts \cup eng.rejected
                                  \/ file # None /\ p \in file.receipts
           /\ file # None => since' = since
           /\ file' = None => file = None /\ (~On => late' \subseteq late)
<1> USE SyncAssumption
<1>t. eng \in Engine /\ (file = None \/ file \in Cursors)
  BY DEF TypeInv, TypeOK
<1>1. ASSUME Start PROVE /\ eng'.outbox = {} /\ eng'.rejected = {} /\ late' = late
                         /\ eng'.receipts = Loaded.receipts /\ file' = Loaded
                         /\ Loaded.receipts = (IF file = None THEN {} ELSE file.receipts)
                         /\ Loaded # None /\ (file # None => since' = since)
  <2>1. Loaded # None
    <3>1. CASE file # None
      BY <3>1 DEF Loaded
    <3>2. CASE file = None
      <4>1. Len(stream) \in Nat
        BY DEF TypeInv, TypeOK
      <4>2. Loaded \in Cursors
        BY <3>2, <4>1 DEF Loaded, Cursors
      <4> QED
        BY <4>2, NoneAssumption
    <3> QED
      BY <3>1, <3>2
  <2> QED
    BY <1>1, <2>1 DEF Start, Started, Loaded
<1>2. ASSUME Fail PROVE /\ eng'.outbox = eng.outbox /\ eng'.receipts = eng.receipts
                        /\ eng'.rejected = {}
  BY <1>2, <1>t DEF Fail, Engine
<1>3. ASSUME Poll \/ Read \/ Push \/ Answer
      PROVE  /\ eng'.outbox \subseteq eng.outbox \cup Eligible /\ eng'.receipts = eng.receipts
             /\ \A p \in eng'.rejected : p \in eng.rejected \/ (p \in Taken /\ stream[p].kind = "bad")
             /\ late' = late /\ file' = file /\ since' = since
  <2>1. CASE Poll \/ Push
    BY <1>t, <2>1 DEF Poll, Push, Engine
  <2>2. CASE Read
    BY <1>t, <2>2 DEF Read, Engine
  <2>3. CASE Answer
    BY <1>t, <2>3 DEF Answer, Engine
  <2> QED
    BY <1>3, <2>1, <2>2, <2>3
<1>4. ASSUME Acknowledge
      PROVE  /\ eng'.outbox \subseteq eng.outbox /\ eng'.receipts = eng.receipts \cup eng.rejected
             /\ eng'.rejected = {} /\ late' = late /\ since' = since
             /\ file' = file \/ file' = Acked
  <2>1. Advance
    BY <1>4 DEF Acknowledge
  <2>2. eng'.outbox \subseteq eng.outbox /\ eng'.receipts = eng.receipts \cup eng.rejected
        /\ eng'.rejected = {}
    BY <2>1, <1>t DEF Advance, Acked, Engine
  <2> QED
    BY <1>4, <2>2 DEF Acknowledge, Persist
<1>5. ASSUME RetainBatch
      PROVE  late' = late /\ since' = since /\ (file' = file \/ file' = Acked) /\ Fail
  BY <1>5 DEF RetainBatch
<1>6. ASSUME CaughtUp \/ PageDone
      PROVE  /\ eng'.outbox = eng.outbox /\ eng'.receipts = eng.receipts
             /\ eng'.rejected = eng.rejected /\ late' = late /\ since' = since
             /\ file' = file \/ (\E x, y \in Nat : file' = CursorsAt(x, y))
  <2>1. /\ eng'.outbox = eng.outbox /\ eng'.receipts = eng.receipts
        /\ eng'.rejected = eng.rejected /\ late' = late /\ since' = since
    BY <1>6, <1>t DEF CaughtUp, PageDone, Engine
  <2>2. eng.readTo \in Nat /\ eng.pull \in Nat /\ eng.push \in Nat /\ PulledTo \in Nat
    BY <1>t DEF Engine, PulledTo
  <2>3. file' = file \/ file' = CursorsAt(eng.readTo, eng.pull)
        \/ file' = CursorsAt(eng.push, PulledTo)
    BY <1>6 DEF CaughtUp, PageDone, Persist
  <2> QED
    BY <2>1, <2>2, <2>3
<1>7. ASSUME Pull \/ Notify \/ (\E s \in eng.page : Ingest(s))
      PROVE  /\ eng'.outbox = eng.outbox /\ eng'.receipts = eng.receipts
             /\ eng'.rejected = eng.rejected /\ late' = late /\ since' = since /\ file' = file
  BY <1>7, <1>t DEF Pull, Notify, Ingest, Engine
<1>8. ASSUME CallFails \/ PushTimesOut \/ (\E n \in 0 .. MaxStream : PushFails(n))
             \/ (\E s \in eng.page : IngestFails(s))
      PROVE  /\ Fail /\ since' = since /\ file' = file
             /\ late' = late \/ (eng.pc = "sent" /\ late' = late \cup {Taken})
  BY <1>8 DEF CallFails, PushTimesOut, PushFails, IngestFails
<1>9. ASSUME Crash
      PROVE  /\ eng'.outbox = {} /\ eng'.receipts = {} /\ eng'.rejected = {}
             /\ since' = since /\ file' = file
             /\ late' = late \/ (eng.pc = "sent" /\ late' = late \cup {Taken})
  BY <1>9 DEF Crash, Off
<1>10. ASSUME Environment \/ UNCHANGED vars
       PROVE  eng' = eng /\ file' = file /\ since' = since /\ late' \subseteq late
  BY <1>10 DEF Environment, Post, Elsewhere, LatePush, vars
<1>11. /\ Acked.receipts = eng.receipts \cup eng.rejected
       /\ Acked # None \/ eng.pc # "acked"
  <2>1. Acked.receipts = eng.receipts \cup eng.rejected
    BY DEF Acked
  <2>2. ASSUME eng.pc = "acked" PROVE Acked # None
    <3>1. Taken \in SUBSET Nat /\ Taken # {} /\ (\A p \in Taken : p <= Len(stream)) /\ Len(stream) \in Nat
      <4>1. eng.outbox # {} /\ eng.outbox \subseteq Positions /\ Len(stream) \in Nat
        BY <2>2 DEF TypeInv, TypeOK, ControlInv
      <4>2. eng.outbox \in SUBSET Nat
        BY <1>t DEF Engine
      <4>3. Taken # {}
        BY <4>1, <4>2, FirstTakes DEF Taken
      <4> QED
        BY <4>1, <4>3, FinitePositions DEF Taken, First, TypeInv
    <3>2. Last(Taken) \in Nat
      BY <3>1, LastIsGreatest
    <3>3. Acked \in Cursors
      BY <1>t, <3>2 DEF Acked, Cursors, Engine
    <3> QED
      BY <3>3, NoneAssumption
  <2> QED
    BY <2>1, <2>2
<1>12. \A x, y \in Nat : CursorsAt(x, y) # None /\ CursorsAt(x, y).receipts = eng.receipts
  <2>1. ASSUME NEW x \in Nat, NEW y \in Nat PROVE CursorsAt(x, y) \in Cursors
    BY <1>t DEF CursorsAt, Cursors, Engine
  <2> QED
    BY <2>1, NoneAssumption DEF CursorsAt
<1>13. Acknowledge \/ RetainBatch => eng.pc = "acked"
  BY DEF Acknowledge, RetainBatch
<1>14. CASE Acknowledge \/ RetainBatch
  BY <1>2, <1>4, <1>5, <1>11, <1>13, <1>14
<1>15. CASE CaughtUp \/ PageDone
  <2>1. /\ eng'.outbox = eng.outbox /\ eng'.receipts = eng.receipts
        /\ eng'.rejected = eng.rejected /\ late' = late /\ since' = since
    BY <1>6, <1>15
  <2>2. CASE file' = file
    BY <2>1, <2>2
  <2>3. CASE \E x, y \in Nat : file' = CursorsAt(x, y)
    <3>1. file' # None /\ file'.receipts = eng.receipts
      BY <1>12, <2>3
    <3> QED
      BY <2>1, <3>1
  <2> QED
    BY <1>6, <1>15, <2>2, <2>3
<1>16. CASE Start
  BY <1>1, <1>16
<1>17. CASE \/ Poll \/ Read \/ Push \/ Answer \/ Pull \/ Notify \/ (\E s \in eng.page : Ingest(s))
            \/ Environment \/ UNCHANGED vars
  BY <1>3, <1>7, <1>10, <1>17
<1>18. CASE Failure
  <2>1. eng.pc = "sent" => On
    BY DEF On
  <2> QED
    BY <1>2, <1>8, <1>9, <1>18, <2>1 DEF Failure
<1>19. CASE Outage
  BY <1>19, OutageIs
<1> QED
  BY <1>14, <1>15, <1>16, <1>17, <1>18, <1>19 DEF Next, Step

(* What the Worker's insertion adds: new messages of the batch, after all  *)
(* that it has, in the order of their ids.                                 *)
LEMMA InsertRows ==
    ASSUME TypeInv, NEW b \in SUBSET Positions, Insert(b)
    PROVE  /\ rows \subseteq rows'
           /\ \A r \in rows' \ rows : /\ r.origin = "hub" /\ r.of \in New(b)
                                      /\ top < r.seq
           /\ \A r, s \in rows' \ rows : r.seq < s.seq => r.of < s.of
           /\ \A p \in b : stream[p].kind # "bad" => InCloud(p)'
<1>1. New(b) \in SUBSET Positions
  BY DEF New
<1>2. IsFiniteSet(New(b)) /\ top \in Nat /\ New(b) \in SUBSET Nat
  BY <1>1, FinitePositions DEF TypeInv, TypeOK
<1>3. ASSUME NEW p \in New(b)
      PROVE  Cardinality(UpTo(New(b), p)) \in Nat /\ Cardinality(UpTo(New(b), p)) >= 1
  <2>1. UpTo(New(b), p) \subseteq New(b) /\ p \in UpTo(New(b), p)
    BY <1>2 DEF UpTo
  <2>2. IsFiniteSet(UpTo(New(b), p))
    BY <1>2, <2>1, FS_Subset
  <2>3. Cardinality(UpTo(New(b), p)) \in Nat /\ Cardinality(UpTo(New(b), p)) # 0
    BY <2>1, <2>2, FS_CardinalityType, FS_EmptySet
  <2> QED
    BY <2>3
<1>4. ASSUME NEW r \in rows', r \notin rows
      PROVE  /\ r.origin = "hub" /\ r.of \in New(b) /\ top < r.seq
             /\ r.seq = top + Cardinality(UpTo(New(b), r.of))
  <2>1. PICK p \in New(b) :
          r = [seq |-> top + Cardinality(UpTo(New(b), p)), origin |-> "hub", of |-> p]
    BY <1>4 DEF Insert
  <2> QED
    BY <1>2, <1>3, <2>1
<1>5. ASSUME NEW r \in rows', r \notin rows, NEW s \in rows', s \notin rows, r.seq < s.seq
      PROVE  r.of < s.of
  <2>1. /\ r.of \in New(b) /\ r.seq = top + Cardinality(UpTo(New(b), r.of))
        /\ s.of \in New(b) /\ s.seq = top + Cardinality(UpTo(New(b), s.of))
    BY <1>4, <1>5
  <2>2. SUFFICES ASSUME s.of <= r.of PROVE FALSE
    BY <1>2, <2>1
  <2>3. UpTo(New(b), s.of) \subseteq UpTo(New(b), r.of)
    BY <1>2, <2>1, <2>2 DEF UpTo
  <2>4. IsFiniteSet(UpTo(New(b), r.of))
    <3>1. UpTo(New(b), r.of) \subseteq New(b)
      BY DEF UpTo
    <3> QED
      BY <1>2, <3>1, FS_Subset
  <2>5. Cardinality(UpTo(New(b), s.of)) <= Cardinality(UpTo(New(b), r.of))
    BY <2>3, <2>4, FS_Subset
  <2> QED
    BY <1>2, <1>3, <1>5, <2>1, <2>5
<1>6. ASSUME NEW p \in b, stream[p].kind # "bad" PROVE InCloud(p)'
  <2>1. CASE InCloud(p)
    BY <2>1 DEF InCloud, Insert
  <2>2. CASE ~InCloud(p)
    <3>1. p \in New(b)
      BY <1>6, <2>2 DEF New
    <3>2. [seq |-> top + Cardinality(UpTo(New(b), p)), origin |-> "hub", of |-> p] \in rows'
      BY <3>1 DEF Insert
    <3> QED
      BY <3>2 DEF InCloud
  <2> QED
    BY <2>1, <2>2
<1>7. rows \subseteq rows'
  BY DEF Insert
<1> QED
  BY <1>4, <1>5, <1>6, <1>7

(* Other origins add nothing of this hub.                                  *)
LEMMA OthersAddNone ==
    ASSUME NEW o \in Origins, Elsewhere(o)
    PROVE  FromHub' = FromHub
<1>1. o # "hub"
  BY SyncAssumption DEF OtherOrigins
<1>2. rows' = rows \cup {[seq |-> top + 1, origin |-> o, of |-> top + 1]}
  BY DEF Elsewhere
<1>3. ASSUME NEW r \in rows', r \notin rows PROVE r.origin # "hub"
  BY <1>1, <1>2, <1>3
<1> QED
  BY <1>2, <1>3 DEF FromHub

(* A batch under way, waited for or not, holds only what may leave and     *)
(* leaves nothing out.                                                     *)
LEMMA BatchIsWhole ==
    ASSUME TypeInv, CursorInv, OwnInv, OrderInv, NEW b,
           b \in late \/ (eng.pc = "sent" /\ b = Taken)
    PROVE  /\ b \in SUBSET Positions
           /\ \A q \in b : Pushable(q) /\ since < q /\ Preceded(q, b)
<1> USE SyncAssumption
<1>1. CASE b \in late
  BY <1>1 DEF OwnInv, OrderInv, TypeInv, TypeOK
<1>2. CASE eng.pc = "sent" /\ b = Taken
  <2>0. /\ Positions \in SUBSET Nat /\ since \in Nat /\ eng.push \in Nat
        /\ eng.readTo \in Nat /\ eng.outbox \in SUBSET Positions
    BY Numbers
  <2>1. Taken \subseteq eng.outbox
    BY DEF Taken, First
  <2>2. On /\ since <= eng.push /\ \A p \in eng.outbox : eng.push < p /\ p <= eng.readTo
    BY <1>2 DEF CursorInv, PositionsInv, On
  <2>3. \A q \in Taken : Pushable(q) /\ q \in Nat /\ since < q /\ q <= eng.readTo
    <3>1. \A q \in Taken : Pushable(q)
      BY <2>1 DEF OwnInv
    <3>2. \A q \in Taken : q \in Nat /\ eng.push < q /\ q <= eng.readTo
      BY <2>0, <2>1, <2>2
    <3> QED
      BY <2>0, <2>2, <3>1, <3>2
  <2>4. ASSUME NEW q \in Taken, NEW p \in Positions, since < p, p < q, stream[p].kind = "open"
        PROVE  p \in Taken \/ Done(p)
    <3>0. p \in Nat /\ q \in Nat /\ p <= q /\ Pushable(p)
      BY <2>0, <2>3, <2>4 DEF Pushable
    <3>1. CASE p <= eng.push
      <4>1. Done(p) \/ p \in eng.receipts
        BY <2>2, <2>4, <3>0, <3>1 DEF CursorInv, EngineInv
      <4>2. p \notin eng.receipts
        BY <2>4 DEF OwnInv, BadAt
      <4> QED
        BY <4>1, <4>2
    <3>2. CASE eng.push < p
      <4>1. p <= eng.readTo
        BY <2>0, <2>3, <2>4, <3>0
      <4>2. p \in eng.outbox \/ Done(p)
        BY <2>2, <3>0, <3>2, <4>1 DEF CursorInv, QueueInv
      <4>3. p \in eng.outbox => p \in Taken
        <5>1. eng.outbox \in SUBSET Nat /\ IsFiniteSet(eng.outbox)
          BY <2>0, FinitePositions DEF TypeInv
        <5> QED
          BY <3>0, <5>1, <2>4, FirstIsPrefix DEF Taken
      <4> QED
        BY <4>2, <4>3
    <3> QED
      BY <2>0, <3>0, <3>1, <3>2
  <2> QED
    BY <1>2, <2>0, <2>1, <2>3, <2>4 DEF Preceded
<1> QED
  BY <1>1, <1>2

(* Every step keeps to what may leave.                                     *)
LEMMA OwnStep == TypeInv /\ CursorInv /\ OwnInv /\ OrderInv /\ [Next]_vars => OwnInv'
<1> SUFFICES ASSUME TypeInv, CursorInv, OwnInv, OrderInv, [Next]_vars PROVE OwnInv'
  OBVIOUS
<1> USE SyncAssumption
<1>g. /\ \A p \in Positions : p \in Positions' /\ stream'[p] = stream[p]
      /\ \A p \in Positions : (Pushable(p)' <=> Pushable(p)) /\ (BadAt(p) => BadAt(p)')
  BY StreamGrows DEF Pushable, BadAt
<1>q. /\ late' \subseteq late \/ (eng.pc = "sent" /\ late' = late \cup {Taken})
      /\ eng'.outbox \subseteq eng.outbox \cup Eligible
      /\ \A p \in eng'.receipts : \/ p \in eng.receipts \cup eng.rejected
                                  \/ file # None /\ p \in file.receipts
      /\ \A p \in eng'.rejected : p \in eng.rejected \/ (p \in Taken /\ stream[p].kind = "bad")
      /\ file' # None => \A p \in file'.receipts :
                             \/ p \in eng.receipts \cup eng.rejected
                             \/ file # None /\ p \in file.receipts
      /\ file # None => since' = since
      /\ file' = None => file = None /\ (~On => late' \subseteq late)
  BY QueuesChange
<1>p. eng.outbox \subseteq Positions /\ Taken \subseteq Positions /\ Eligible \subseteq Positions
      /\ late \subseteq SUBSET Positions
  <2>1. eng.outbox \subseteq Positions /\ late \subseteq SUBSET Positions
    BY DEF TypeInv, TypeOK, ControlInv
  <2> QED
    BY <2>1 DEF Taken, Eligible, Chunk, First, Later
<1>n. file = None => ~On
  BY DEF CursorInv, PositionsInv, On
<1>1. ASSUME NEW r \in FromHub'
      PROVE  r.of \in Positions' /\ stream'[r.of].kind = "open" /\ since' < r.of
  <2>1. r \in rows' /\ r.origin = "hub"
    BY <1>1 DEF FromHub
  <2>2. CASE r \in rows
    <3>1. r \in FromHub /\ file # None
      BY <2>1, <2>2 DEF FromHub, OwnInv
    <3> QED
      BY <1>g, <1>q, <3>1 DEF OwnInv
  <2>3. CASE r \notin rows
    <3>1. ~(\E o \in Origins : Elsewhere(o))
      BY <2>1, <2>3, OthersAddNone DEF FromHub
    <3>2. PICK b \in SUBSET Positions : Arrives(b)
      BY <2>1, <2>3, <3>1, RowsChange
    <3>3. PICK n \in Nat : Insert(UpTo(b, n))
      BY <3>2 DEF Arrives
    <3>4. UpTo(b, n) \in SUBSET Positions
      BY <3>2 DEF UpTo
    <3>5. r.of \in New(UpTo(b, n))
      BY <2>1, <2>3, <3>3, <3>4, InsertRows
    <3>6. r.of \in b /\ stream[r.of].kind # "bad"
      BY <3>5 DEF New, UpTo
    <3>7. Pushable(r.of) /\ since < r.of
      BY <3>2, <3>6, BatchIsWhole DEF Arrives
    <3>8. stream' = stream /\ since' = since
      BY <3>2 DEF Arrives
    <3> QED
      BY <3>2, <3>6, <3>7, <3>8, <1>g DEF Pushable
  <2> QED
    BY <2>2, <2>3
<1>2. \A p \in eng'.outbox : Pushable(p)'
  <2>1. \A p \in eng'.outbox : p \in Positions /\ Pushable(p)
    BY <1>p, <1>q DEF OwnInv, Eligible
  <2> QED
    BY <1>g, <2>1
<1>3. ASSUME NEW b \in late', NEW p \in b PROVE Pushable(p)' /\ since' < p
  <2>1. b \in late \/ (eng.pc = "sent" /\ b = Taken)
    BY <1>3, <1>q
  <2>2. b \in SUBSET Positions /\ Pushable(p) /\ since < p
    BY <1>3, <2>1, BatchIsWhole
  <2>3. file # None
    BY <1>n, <2>1 DEF OwnInv, On
  <2> QED
    BY <1>g, <1>q, <1>3, <2>2, <2>3
<1>4. \A p \in eng'.receipts \cup eng'.rejected : BadAt(p)'
  <2>1. \A p \in eng'.receipts \cup eng'.rejected : BadAt(p)
    BY <1>p, <1>q DEF OwnInv, BadAt
  <2> QED
    BY <1>g, <2>1 DEF BadAt
<1>5. file' # None => \A p \in file'.receipts : BadAt(p)'
  <2>1. file' # None => \A p \in file'.receipts : BadAt(p)
    BY <1>q DEF OwnInv
  <2> QED
    BY <1>g, <2>1 DEF BadAt
<1>6. ASSUME file' = None PROVE late' = {} /\ FromHub' = {}
  <2>1. file = None /\ ~On /\ late' \subseteq late /\ late = {} /\ FromHub = {}
    BY <1>6, <1>n, <1>q DEF OwnInv
  <2>2. ASSUME NEW r \in FromHub' PROVE FALSE
    <3>1. r \in rows' /\ r.origin = "hub" /\ r \notin rows
      BY <2>1, <2>2 DEF FromHub
    <3>2. ~(\E o \in Origins : Elsewhere(o))
      BY <3>1, OthersAddNone DEF FromHub
    <3>3. ~(\E b \in SUBSET Positions : Arrives(b))
      BY <2>1 DEF Arrives, On
    <3> QED
      BY <3>1, <3>2, <3>3, RowsChange
  <2> QED
    BY <2>1, <2>2
<1> QED
  BY <1>1, <1>2, <1>3, <1>4, <1>5, <1>6 DEF OwnInv

(* Every step keeps the order of the Worker's table.                       *)
LEMMA OrderStep == TypeInv /\ CursorInv /\ OwnInv /\ OrderInv /\ [Next]_vars => OrderInv'
<1> SUFFICES ASSUME TypeInv, CursorInv, OwnInv, OrderInv, [Next]_vars PROVE OrderInv'
  OBVIOUS
<1> USE SyncAssumption
<1>g. /\ Len(stream) \in Nat
      /\ \A p \in Positions : p \in Nat /\ p \in Positions' /\ stream'[p] = stream[p]
      /\ \A p \in Positions' : p \in Nat /\ (p \notin Positions => Len(stream) < p)
      /\ \A p \in Positions : p <= Len(stream)
      /\ gone \subseteq gone'
  BY StreamGrows DEF Positions
<1>r. rows \subseteq rows'
  BY RowsChange, InsertRows DEF Elsewhere, Arrives, UpTo
<1>d. \A p : Done(p) => Done(p)'
  BY <1>g, <1>r DEF Done, InCloud
<1>s. file # None => since' = since
  BY QueuesChange
<1>k. ASSUME NEW q \in Positions, NEW b, Preceded(q, b), file # None
      PROVE  \A p \in Positions' : since' < p /\ p < q /\ stream'[p].kind = "open"
                => p \in b \/ Done(p)'
  <2>1. SUFFICES ASSUME NEW p \in Positions', since < p, p < q, stream'[p].kind = "open"
                 PROVE  p \in b \/ Done(p)'
    BY <1>k, <1>s
  <2>2. p \in Positions
    BY <1>g, <2>1
  <2> QED
    BY <1>d, <1>g, <1>k, <2>1, <2>2 DEF Preceded
<1>1. ASSUME NEW b \in late', NEW q \in b
      PROVE  \A p \in Positions' : since' < p /\ p < q /\ stream'[p].kind = "open"
                => p \in b \/ Done(p)'
  <2>1. b \in late \/ (eng.pc = "sent" /\ b = Taken)
    BY <1>1, QueuesChange
  <2>2. b \in SUBSET Positions /\ Preceded(q, b)
    BY <1>1, <2>1, BatchIsWhole
  <2>3. file # None
    BY <2>1 DEF OwnInv, CursorInv, PositionsInv, On
  <2> QED
    BY <1>1, <1>k, <2>2, <2>3
<1>2. ASSUME NEW r \in FromHub, NEW s \in FromHub, r.seq < s.seq
      PROVE  r.of < s.of \/ (s.of < r.of /\ s.of \in gone')
  BY <1>2, <1>g DEF OrderInv, CloudInStreamOrder, FromHub
<1>3. ASSUME NEW r \in FromHub
      PROVE  \A p \in Positions' : since' < p /\ p < r.of /\ stream'[p].kind = "open"
                => Done(p)'
  <2>1. r.of \in Positions /\ Preceded(r.of, {}) /\ file # None
    BY <1>3 DEF OwnInv, OrderInv
  <2> QED
    BY <1>k, <2>1
<1>4. CASE FromHub' = FromHub
  <2>1. \A r \in FromHub' : \A p \in Positions' :
            since' < p /\ p < r.of /\ stream'[p].kind = "open" => p \in {} \/ Done(p)'
    BY <1>3, <1>4
  <2>2. \A r, s \in rows' : r.origin = "hub" /\ s.origin = "hub" /\ r.seq < s.seq
            => r.of < s.of \/ (s.of < r.of /\ s.of \in gone')
    BY <1>2, <1>4 DEF FromHub
  <2> QED
    BY <1>1, <2>1, <2>2 DEF OrderInv, Preceded, CloudInStreamOrder
<1>5. CASE \E b \in SUBSET Positions : Arrives(b)
  <2>1. PICK b \in SUBSET Positions : Arrives(b)
    BY <1>5
  <2>2. PICK n \in Nat : Insert(UpTo(b, n))
    BY <2>1 DEF Arrives
  <2>3. UpTo(b, n) \in SUBSET Positions /\ file # None
        /\ stream' = stream /\ gone' = gone /\ since' = since
    BY <2>1 DEF UpTo, Arrives, OwnInv, CursorInv, PositionsInv, On
  <2>4. \A q \in b : Pushable(q) /\ since < q /\ Preceded(q, b)
    BY <2>1, BatchIsWhole DEF Arrives
  <2>5. /\ \A r \in rows' \ rows : r.origin = "hub" /\ r.of \in New(UpTo(b, n)) /\ top < r.seq
        /\ \A r, s \in rows' \ rows : r.seq < s.seq => r.of < s.of
        /\ \A p \in UpTo(b, n) : stream[p].kind # "bad" => InCloud(p)'
    BY <2>2, <2>3, InsertRows
  <2>6. ASSUME NEW r \in FromHub', r \notin rows
        PROVE  /\ r.of \in UpTo(b, n) /\ r.of \in b /\ r.of \in Positions
               /\ stream[r.of].kind = "open" /\ since < r.of /\ ~InCloud(r.of)
               /\ r.of \in Nat /\ r.of <= n /\ top < r.seq
    BY <1>g, <2>4, <2>5, <2>6 DEF FromHub, New, UpTo, Pushable
  <2>7. ASSUME NEW r \in FromHub', NEW p \in Positions', since' < p, p < r.of,
               stream'[p].kind = "open"
        PROVE  Done(p)'
    <3>1. CASE r \in rows
      BY <1>3, <2>7, <3>1 DEF FromHub
    <3>2. CASE r \notin rows
      <4>1. p \in b \/ Done(p)
        BY <2>3, <2>4, <2>6, <2>7, <3>2, <1>g DEF Preceded, Positions
      <4>2. p \in b => p \in UpTo(b, n)
        BY <1>g, <2>3, <2>6, <2>7, <3>2 DEF UpTo
      <4>3. p \in UpTo(b, n) => InCloud(p)'
        BY <2>3, <2>5, <2>7
      <4> QED
        BY <1>d, <4>1, <4>2, <4>3 DEF Done
    <3> QED
      BY <3>1, <3>2
  <2>8. ASSUME NEW r \in FromHub', NEW s \in FromHub', r.seq < s.seq
        PROVE  r.of < s.of \/ (s.of < r.of /\ s.of \in gone')
    <3>1. CASE r \in rows /\ s \in rows
      BY <1>2, <2>8, <3>1 DEF FromHub
    <3>2. CASE r \notin rows /\ s \notin rows
      BY <2>5, <2>8, <3>2 DEF FromHub
    <3>3. CASE r \notin rows /\ s \in rows
      <4>1. s.seq <= top /\ s.seq \in Nat /\ top \in Nat /\ top < r.seq
        BY <2>6, <2>8, <3>3 DEF TypeInv, TypeOK, ControlInv, Row
      <4>2. r.seq \in Nat
        BY <2>8, <2>2, <2>3, InsertType DEF FromHub, Row
      <4> QED
        BY <2>8, <4>1, <4>2
    <3>4. CASE r \in rows /\ s \notin rows
      <4>1. r \in FromHub /\ r.of \in Positions /\ r.of \in Nat /\ Preceded(r.of, {})
        BY <1>g, <2>8, <3>4 DEF FromHub, OwnInv, OrderInv
      <4>2. /\ s.of \in Positions /\ stream[s.of].kind = "open" /\ since < s.of
            /\ ~InCloud(s.of) /\ s.of \in Nat
        BY <2>6, <2>8, <3>4
      <4>3. r.of # s.of
        BY <4>1, <4>2 DEF InCloud, FromHub
      <4>4. s.of < r.of => s.of \in gone
        BY <4>1, <4>2 DEF Preceded, Done
      <4> QED
        BY <2>3, <4>1, <4>2, <4>3, <4>4
    <3> QED
      BY <3>1, <3>2, <3>3, <3>4
  <2>9. \A r, s \in rows' : r.origin = "hub" /\ s.origin = "hub" /\ r.seq < s.seq
            => r.of < s.of \/ (s.of < r.of /\ s.of \in gone')
    BY <2>8 DEF FromHub
  <2>10. \A r \in FromHub' : \A p \in Positions' :
            since' < p /\ p < r.of /\ stream'[p].kind = "open" => p \in {} \/ Done(p)'
    BY <2>7
  <2> QED
    BY <1>1, <2>9, <2>10 DEF OrderInv, Preceded, CloudInStreamOrder
<1>6. (\E b \in SUBSET Positions : Arrives(b)) \/ FromHub' = FromHub
  BY RowsChange, OthersAddNone DEF FromHub
<1> QED
  BY <1>4, <1>5, <1>6

(* Types, cursor, contents and order together.                             *)
LEMMA SyncInvariant == Spec => [](TypeInv /\ CursorInv /\ OwnInv /\ OrderInv)
<1>1. Init => OwnInv /\ OrderInv
  <2>1. SUFFICES ASSUME Init PROVE OwnInv /\ OrderInv
    OBVIOUS
  <2>2. FromHub = {} /\ late = {} /\ file = None /\ rows = {}
        /\ eng.outbox = {} /\ eng.receipts = {} /\ eng.rejected = {}
    BY <2>1 DEF Init, Off, FromHub
  <2> QED
    BY <2>2 DEF OwnInv, OrderInv, CloudInStreamOrder
<1> QED
  BY <1>1, TypeInit, TypeStep, CursorInit, CursorStep, OwnStep, OrderStep, PTL DEF Spec

(* Only what was posted here and is internal leaves the hub: never a       *)
(* message that must stay, never one that came from the cloud, whatever is *)
(* repeated, late or restarted.                                            *)
THEOREM NothingElseLeaves == Spec => []OnlyOwnMessages
<1>1. OwnInv => OnlyOwnMessages
  BY DEF OwnInv, OnlyOwnMessages, FromHub
<1> QED
  BY <1>1, SyncInvariant, PTL

(* The Worker has each message once and in the order of the stream, also   *)
(* when batches that were given up arrive after those sent in their place; *)
(* only what the stream has dropped meanwhile may come late.               *)
THEOREM OrderIsKept == Spec => []CloudInStreamOrder
<1>1. OrderInv => CloudInStreamOrder
  BY DEF OrderInv
<1> QED
  BY <1>1, SyncInvariant, PTL

-----------------------------------------------------------------------------
(* What the hub has of the Worker's table.                                 *)

\* The seqs of the rows to be pulled, and the ones that are in the stream.
Others == {r.seq : r \in {x \in rows : x.origin = "other"}}
Stored(n) == \E p \in Positions : stream[p] = [kind |-> "pulled", of |-> n]

\* Everything up to c has been pulled.
CaughtUpTo(c) == c <= top /\ \A n \in Others : n <= c => n \in seen

\* The page and what was stored of it cover the table up to its end.
PageInv ==
    eng.pc \in {"ingest", "notify"} =>
        /\ eng.next <= top
        /\ eng.page \subseteq Others
        /\ \A n \in eng.page : n <= eng.next
        /\ \A n \in Others : eng.pull < n /\ n <= eng.next => n \in eng.page \/ n \in seen

(* Markers and entries agree, and what is marked is always a front of the  *)
(* table.                                                                  *)
StoredInv ==
    /\ \A n \in Others : n # 0
    /\ \A n \in seen : Stored(n) /\ n \in Others /\ CaughtUpTo(n)
    /\ \A p \in Positions : stream[p].kind = "pulled" => stream[p].of \in seen
    /\ On => CaughtUpTo(eng.pull)
    /\ file # None => CaughtUpTo(file.pull)
    /\ PageInv
    /\ PullCursorMeansStored

(* The table grows at its end.                                             *)
LEMMA OthersGrow ==
    ASSUME TypeInv, [Next]_vars
    PROVE  /\ top \in Nat /\ top' \in Nat /\ top <= top'
           /\ Others \subseteq Others'
           /\ \A n \in Others : n \in Nat /\ n <= top
           /\ \A n \in Others' : n \in Nat /\ (n \in Others \/ top < n)
<1>1. TypeInv'
  BY TypeStep
<1>2. top \in Nat /\ top' \in Nat /\ rows \subseteq Row /\ rows' \subseteq Row
      /\ \A r \in rows : r.seq <= top
  BY <1>1 DEF TypeInv, TypeOK, ControlInv
<1>3. \A n \in Others' : n \in Nat
  BY <1>2 DEF Others, Row
<1>4. \A n \in Others : n \in Nat /\ n <= top
  BY <1>2 DEF Others, Row
<1>5. CASE rows' = rows /\ top' = top
  BY <1>2, <1>3, <1>4, <1>5 DEF Others
<1>6. CASE \E o \in Origins : Elsewhere(o)
  <2>1. PICK o \in Origins :
          /\ rows' = rows \cup {[seq |-> top + 1, origin |-> o, of |-> top + 1]}
          /\ top' = top + 1
    BY <1>6 DEF Elsewhere
  <2>2. ASSUME NEW n \in Others' PROVE n \in Others \/ top < n
    <3>1. PICK r \in rows' : r.origin = "other" /\ n = r.seq
      BY <2>2 DEF Others
    <3> QED
      BY <1>2, <2>1, <3>1 DEF Others
  <2> QED
    BY <1>2, <1>3, <1>4, <2>1, <2>2 DEF Others
<1>7. CASE \E b \in SUBSET Positions : Arrives(b)
  <2>1. PICK b \in SUBSET Positions : Arrives(b)
    BY <1>7
  <2>2. PICK n \in Nat : Insert(UpTo(b, n))
    BY <2>1 DEF Arrives
  <2>3. UpTo(b, n) \in SUBSET Positions
    BY <2>1 DEF UpTo
  <2>4. rows \subseteq rows' /\ \A r \in rows' \ rows : r.origin = "hub"
    BY <2>2, <2>3, InsertRows
  <2>5. Others' = Others
    BY <2>4 DEF Others
  <2>6. Cardinality(New(UpTo(b, n))) \in Nat
    <3>1. New(UpTo(b, n)) \in SUBSET Positions
      BY <2>3 DEF New
    <3> QED
      BY <3>1, FinitePositions DEF TypeInv
  <2>7. top' = top + Cardinality(New(UpTo(b, n)))
    BY <2>2 DEF Insert
  <2> QED
    BY <1>2, <1>3, <1>4, <2>5, <2>6, <2>7
<1> QED
  BY <1>5, <1>6, <1>7, RowsChange

\* The least of the page is stored in this step.
Stores(s) == eng.pc = "ingest" /\ s \in eng.page /\ (\A q \in eng.page : s <= q) /\ Store(s)

(* Only the pull adds markers, each together with its entry.               *)
LEMMA SeenChange ==
    ASSUME TypeInv, [Next]_vars
    PROVE  \/ /\ seen' = seen
              /\ \A p \in Positions' : p \notin Positions => stream'[p].kind # "pulled"
           \/ \E s \in eng.page : Stores(s)
<1> USE SyncAssumption
<1>1. Len(stream) \in Nat /\ stream \in Seq(Entry)
  BY DEF TypeInv, TypeOK
<1>2. ASSUME NEW k \in Kinds, Post(k)
      PROVE  /\ seen' = seen
             /\ \A p \in Positions' : p \notin Positions => stream'[p].kind # "pulled"
  <2>1. stream' = Append(stream, [kind |-> k, of |-> 0]) /\ seen' = seen /\ k # "pulled"
    BY <1>2 DEF Post, Add, LocalKinds
  <2>2. \A p \in Positions' : p \notin Positions => stream'[p] = [kind |-> k, of |-> 0]
    BY <1>1, <2>1 DEF Positions
  <2>3. [kind |-> k, of |-> 0].kind = k
    OBVIOUS
  <2> QED
    BY <2>1, <2>2, <2>3
<1>3. ASSUME NEW s \in eng.page, Ingest(s) \/ IngestFails(s)
      PROVE  (seen' = seen /\ stream' = stream) \/ Stores(s)
  BY <1>3 DEF Ingest, IngestFails, Stores, hub
<1>4. \/ seen' = seen /\ stream' = stream
      \/ \E k \in Kinds : Post(k)
      \/ \E s \in eng.page : Ingest(s) \/ IngestFails(s)
  BY DEF hub, Next, Step, Failure, Environment, Start, Poll, Read, Push,
       Answer, Acknowledge, RetainBatch, CaughtUp, Pull, Notify, PageDone, CallFails,
       PushTimesOut, Crash, PushFails, Elsewhere, LatePush, Outage, StartFails, Restart, vars
<1>5. stream' = stream => Positions' = Positions
  BY DEF Positions
<1> QED
  BY <1>2, <1>3, <1>4, <1>5

\* A pull cursor that the engine or the file already has, or that this step
\* reaches.
Known(c) ==
    \/ c = 0
    \/ On /\ c = eng.pull
    \/ file # None /\ c = file.pull
    \/ PageDone /\ c = PulledTo

(* Where the pull cursors come from.                                       *)
LEMMA PullsChange ==
    ASSUME TypeInv, [Next]_vars
    PROVE  (On' => Known(eng'.pull)) /\ (file' # None => Known(file'.pull))
<1> USE SyncAssumption
<1>t. eng \in Engine
  BY DEF TypeInv, TypeOK
<1>1. CASE Start
  <2>1. eng'.pull = Loaded.pull /\ file' = Loaded
    BY <1>1 DEF Start, Started
  <2>2. Loaded.pull = IF file # None THEN file.pull ELSE 0
    BY DEF Loaded
  <2> QED
    BY <2>1, <2>2 DEF Known
<1>2. CASE PageDone
  <2>1. eng'.pull = PulledTo /\ (file' = file \/ file' = CursorsAt(eng.push, PulledTo))
    BY <1>2, <1>t DEF PageDone, Persist, Engine
  <2>2. CursorsAt(eng.push, PulledTo).pull = PulledTo
    BY DEF CursorsAt
  <2> QED
    BY <1>2, <2>1, <2>2 DEF Known
<1>3. CASE Acknowledge \/ RetainBatch
  <2>1. On /\ eng'.pull = eng.pull
    BY <1>3, <1>t DEF Acknowledge, RetainBatch, Advance, Fail, On, Engine
  <2>2. (file' = file \/ file' = Acked) /\ Acked.pull = eng.pull
    BY <1>3 DEF Acknowledge, RetainBatch, Persist, Acked
  <2> QED
    BY <2>1, <2>2 DEF Known
<1>4. CASE CaughtUp
  <2>1. On /\ eng'.pull = eng.pull
    BY <1>4, <1>t DEF CaughtUp, On, Engine
  <2>2. file' = file \/ file' = CursorsAt(eng.readTo, eng.pull)
    BY <1>4 DEF CaughtUp, Persist
  <2>3. CursorsAt(eng.readTo, eng.pull).pull = eng.pull
    BY DEF CursorsAt
  <2> QED
    BY <2>1, <2>2, <2>3 DEF Known
<1>5. CASE Poll \/ Read \/ Push \/ Answer \/ Pull \/ Notify \/ (\E s \in eng.page : Ingest(s))
  <2>1. On /\ file' = file
    BY <1>5 DEF Poll, Read, Push, Answer, Pull, Notify, Ingest, On
  <2>2. eng'.pull = eng.pull
    <3>1. CASE Poll \/ Push \/ Answer \/ Notify \/ (\E s \in eng.page : Ingest(s))
      BY <1>t, <3>1 DEF Poll, Push, Answer, Notify, Ingest, Engine
    <3>2. CASE Read
      BY <1>t, <3>2 DEF Read, Engine
    <3>3. CASE Pull
      BY <1>t, <3>3 DEF Pull, Engine
    <3> QED
      BY <1>5, <3>1, <3>2, <3>3
  <2> QED
    BY <2>1, <2>2 DEF Known
<1>6. CASE Failure
  <2>1. file' = file
    BY <1>6 DEF Failure, CallFails, PushTimesOut, Crash, PushFails, IngestFails
  <2>2. ~On' \/ (On /\ eng'.pull = eng.pull)
    <3>1. CASE Crash
      BY <3>1 DEF Crash, Off, On
    <3>2. CASE Fail
      <4>1. eng'.pull = eng.pull
        BY <3>2, <1>t DEF Fail, Engine
      <4>2. On
        BY <1>6 DEF Failure, CallFails, PushTimesOut, Crash, PushFails, IngestFails, On
      <4> QED
        BY <4>1, <4>2
    <3> QED
      BY <1>6, <3>1, <3>2 DEF Failure, CallFails, PushTimesOut, PushFails, IngestFails
  <2> QED
    BY <2>1, <2>2 DEF Known
<1>7. CASE Environment \/ UNCHANGED vars
  <2>1. eng' = eng /\ file' = file
    BY <1>7 DEF Environment, Post, Elsewhere, LatePush, vars
  <2> QED
    BY <2>1 DEF Known, On
<1>8. CASE Outage
  BY <1>8, OutageIs DEF Known
<1> QED
  BY <1>1, <1>2, <1>3, <1>4, <1>5, <1>6, <1>7, <1>8 DEF Next, Step

(* A page comes from a pull, and loses only what is marked.                *)
LEMMA PageChange ==
    ASSUME TypeInv, [Next]_vars, eng'.pc \in {"ingest", "notify"}
    PROVE  \/ Pull
           \/ /\ eng.pc \in {"ingest", "notify"}
              /\ eng'.pull = eng.pull /\ eng'.next = eng.next /\ eng'.page \subseteq eng.page
              /\ \A n \in eng.page : n \in eng'.page \/ n \in seen'
<1> USE SyncAssumption
<1>t. eng \in Engine
  BY DEF TypeInv, TypeOK
<1>1. ASSUME NEW s \in eng.page, Ingest(s)
      PROVE  /\ eng.pc \in {"ingest", "notify"}
             /\ eng'.pull = eng.pull /\ eng'.next = eng.next /\ eng'.page = eng.page \ {s}
             /\ s \in seen'
  <2>1. CASE Store(s) /\ eng' = [eng EXCEPT !.page = @ \ {s}, !.pc = "notify", !.cur = s]
    BY <1>1, <1>t, <2>1 DEF Ingest, Store, Engine
  <2>2. CASE s \in seen /\ UNCHANGED hub /\ eng' = [eng EXCEPT !.page = @ \ {s}]
    BY <1>1, <1>t, <2>2 DEF Ingest, hub, Engine
  <2> QED
    BY <1>1, <2>1, <2>2 DEF Ingest
<1>2. ASSUME Notify
      PROVE  /\ eng.pc \in {"ingest", "notify"}
             /\ eng'.pull = eng.pull /\ eng'.next = eng.next /\ eng'.page = eng.page
  BY <1>2, <1>t DEF Notify, Engine
<1>3. ASSUME Environment \/ UNCHANGED vars PROVE eng' = eng
  BY <1>3 DEF Environment, Post, Elsewhere, LatePush, vars
<1>4. ASSUME Fail PROVE FALSE
  BY <1>4, <1>t DEF Fail, Engine
<1>5. ~Failure
  BY <1>4 DEF Failure, CallFails, PushTimesOut, Crash, PushFails, IngestFails, Off
<1>6. ~(Start \/ Poll \/ Read \/ Push \/ Answer)
  <2>1. ~Read
    BY <1>t DEF Read, Engine
  <2>2. ~Start
    <3>1. Start => eng'.pc = "read"
      BY DEF Start, Started
    <3> QED
      BY <3>1
  <2>3. ~Poll /\ ~Push /\ ~Answer
    BY <1>t DEF Poll, Push, Answer, Engine
  <2> QED
    BY <2>1, <2>2, <2>3
<1>7. ~(Acknowledge \/ RetainBatch \/ CaughtUp \/ PageDone)
  BY <1>4, <1>t DEF Acknowledge, Advance, RetainBatch, CaughtUp, PageDone, Engine
<1>8. ~Outage
  BY OutageIs
<1> QED
  BY <1>1, <1>2, <1>3, <1>5, <1>6, <1>7, <1>8 DEF Next, Step

(* What was pulled stays pulled: the table grows behind it.                *)
LEMMA PulledStays ==
    ASSUME TypeInv, [Next]_vars, NEW c \in Nat, CaughtUpTo(c)
    PROVE  c <= top' /\ \A n \in Others' : n <= c => n \in seen'
<1>1. seen \subseteq seen'
  BY SeenChange DEF Stores, Store
<1> QED
  BY <1>1, OthersGrow DEF CaughtUpTo

(* A page with its answer covers the table up to its end (syncPull).       *)
LEMMA PulledPage ==
    ASSUME TypeInv, StoredInv, Pull
    PROVE  /\ eng'.next \in Nat /\ eng'.next <= top /\ eng'.pull = eng.pull
           /\ eng'.page \subseteq Others
           /\ \A n \in eng'.page : n <= eng'.next
           /\ \A n \in Others : eng.pull < n /\ n <= eng'.next => n \in eng'.page
<1> USE SyncAssumption
<1> DEFINE F == {r.seq : r \in Foreign}
<1>t. eng \in Engine /\ rows \subseteq Row /\ top \in Nat /\ eng.pull \in Nat
      /\ \A r \in rows : r.seq <= top /\ r.seq \in Nat
  BY DEF TypeInv, TypeOK, ControlInv, Engine, Row
<1>1. F \in SUBSET Nat /\ \A n \in F : n <= top
  BY <1>t DEF Foreign
<1>2. IsFiniteSet(F)
  <2>1. F \subseteq 0 .. top
    BY <1>1, <1>t
  <2>2. IsFiniteSet(0 .. top)
    BY <1>t, FS_Interval
  <2> QED
    BY <2>1, <2>2, FS_Subset
<1>3. Page = First(F, PullPage) /\ Page \subseteq F
  BY DEF Page, First
<1>4. /\ eng'.next = NextCursor /\ eng'.pull = eng.pull
      /\ eng'.page = {r.seq : r \in {x \in Foreign : x.seq \in Page /\ x.origin = "other"}}
  BY <1>t DEF Pull, Engine
<1>5. \A n \in Others : eng.pull < n => n \in F
  BY DEF Others, Foreign
<1>6. eng'.page \subseteq Page /\ eng'.page \subseteq Others
  BY <1>4 DEF Others, Foreign
<1>7. \A n \in Others : eng.pull < n /\ n \in Page => n \in eng'.page
  BY <1>4 DEF Others, Foreign
<1>8. HasMore <=> F \ Page # {}
  BY DEF HasMore
<1>9. CASE HasMore
  <2>1. Page # {} /\ Page \in SUBSET Nat /\ \A n \in Page : n <= top
    <3>1. F # {}
      BY <1>8, <1>9
    <3>2. Page # {}
      BY <1>1, <1>3, <3>1, FirstTakes
    <3> QED
      BY <1>1, <1>3, <3>2
  <2>2. Last(Page) \in Page /\ \A n \in Page : n <= Last(Page)
    BY <1>t, <2>1, LastIsGreatest
  <2>3. \A n \in F : n <= Last(Page) => n \in Page
    BY <1>1, <1>2, <1>3, <2>2, FirstIsPrefix
  <2>4. eng'.next = Last(Page)
    BY <1>4, <1>9 DEF NextCursor
  <2> QED
    BY <1>4, <1>5, <1>6, <1>7, <2>1, <2>2, <2>3, <2>4
<1>10. CASE ~HasMore
  <2>1. F \subseteq Page
    BY <1>8, <1>10
  <2>2. eng'.next = IF top > eng.pull THEN top ELSE eng.pull
    BY <1>4, <1>10 DEF NextCursor
  <2>3. eng.pull <= top
    BY DEF Pull, StoredInv, On, CaughtUpTo
  <2>4. eng'.next = top
    BY <1>t, <2>2, <2>3
  <2>5. \A n \in eng'.page : n <= top
    BY <1>1, <1>3, <1>6
  <2> QED
    BY <1>t, <1>4, <1>5, <1>6, <1>7, <2>1, <2>4, <2>5
<1> QED
  BY <1>9, <1>10

(* Every step keeps markers, entries and cursors together.                 *)
LEMMA StoredStep == TypeInv /\ CursorInv /\ StoredInv /\ [Next]_vars => StoredInv'
<1> SUFFICES ASSUME TypeInv, CursorInv, StoredInv, [Next]_vars PROVE StoredInv'
  OBVIOUS
<1> USE SyncAssumption
<1>t. /\ eng \in Engine /\ eng.pull \in Nat /\ eng.next \in Nat /\ eng.page \subseteq Nat
      /\ seen \subseteq Nat /\ stream \in Seq(Entry) /\ Len(stream) \in Nat
      /\ file # None => file.pull \in Nat
  <2>1. eng \in Engine /\ seen \subseteq Nat /\ stream \in Seq(Entry) /\ Len(stream) \in Nat
        /\ file \in Cursors \cup {None}
    BY DEF TypeInv, TypeOK
  <2> QED
    BY <2>1 DEF Engine, Cursors
<1>g. /\ \A p \in Positions : p \in Nat /\ p \in Positions' /\ stream'[p] = stream[p]
      /\ \A p \in Positions' : p \in Nat /\ (p \notin Positions => Len(stream) < p)
  BY StreamGrows
<1>o. /\ top \in Nat /\ top' \in Nat /\ top <= top' /\ Others \subseteq Others'
      /\ \A n \in Others : n \in Nat /\ n <= top
      /\ \A n \in Others' : n \in Nat /\ (n \in Others \/ top < n)
  BY OthersGrow
<1>c. \A c \in Nat : CaughtUpTo(c) => c <= top' /\ \A n \in Others' : n <= c => n \in seen'
  BY PulledStays
<1>z. CaughtUpTo(0)
  BY <1>o DEF CaughtUpTo, StoredInv
<1>1. ASSUME NEW s \in eng.page, Stores(s)
      PROVE  /\ s \in Nat /\ s \in Others /\ s \notin seen /\ seen' = seen \cup {s}
             /\ \A n \in Others : n < s => n \in seen
             /\ \A n \in seen : n < s
             /\ \A p \in Positions' : p \notin Positions => stream'[p].of = s
             /\ \E p \in Positions' : stream'[p] = [kind |-> "pulled", of |-> s]
  <2>1. eng.pc = "ingest" /\ (\A q \in eng.page : s <= q) /\ s \notin seen /\ seen' = seen \cup {s}
        /\ stream' = Append(stream, [kind |-> "pulled", of |-> s])
    BY <1>1 DEF Stores, Store, Add
  <2>2. /\ eng.next <= top /\ s \in Others /\ s <= eng.next /\ s \in Nat
        /\ \A n \in Others : eng.pull < n /\ n <= eng.next => n \in eng.page \/ n \in seen
        /\ \A n \in Others : n <= eng.pull => n \in seen
    BY <1>1, <1>t, <2>1 DEF StoredInv, PageInv, On, CaughtUpTo
  <2>3. ASSUME NEW n \in Others, n < s PROVE n \in seen
    <3>1. n \in Nat /\ n <= eng.next
      BY <1>o, <1>t, <2>2, <2>3
    <3>2. n \notin eng.page
      BY <2>1, <2>2, <2>3, <3>1
    <3> QED
      BY <1>t, <2>2, <3>1, <3>2
  <2>4. ASSUME NEW n \in seen PROVE n < s
    <3>1. n \in Nat /\ (s <= n => s \in seen)
      BY <1>t, <2>2, <2>4 DEF StoredInv, CaughtUpTo
    <3> QED
      BY <2>1, <2>2, <3>1
  <2>5. Len(stream') = Len(stream) + 1 /\ stream'[Len(stream) + 1] = [kind |-> "pulled", of |-> s]
    BY <1>t, <2>1
  <2>6. [kind |-> "pulled", of |-> s].of = s
    OBVIOUS
  <2>7. Len(stream) + 1 \in Positions'
        /\ \A p \in Positions' : p \notin Positions => p = Len(stream) + 1
    BY <1>t, <2>5 DEF Positions
  <2> QED
    BY <2>1, <2>2, <2>3, <2>4, <2>5, <2>6, <2>7
<1>2. \A n \in Others' : n # 0
  BY <1>o DEF StoredInv
<1>3. ASSUME NEW n \in seen'
      PROVE  /\ \E p \in Positions' : stream'[p] = [kind |-> "pulled", of |-> n]
             /\ n \in Others'
             /\ n <= top' /\ \A m \in Others' : m <= n => m \in seen'
  <2>1. CASE n \in seen
    <3>1. Stored(n) /\ n \in Others /\ CaughtUpTo(n) /\ n \in Nat
      BY <1>t, <2>1 DEF StoredInv
    <3> QED
      BY <1>c, <1>g, <1>o, <3>1 DEF Stored
  <2>2. CASE n \notin seen
    <3>1. PICK s \in eng.page : Stores(s)
      BY <1>3, <2>2, SeenChange
    <3>2. n = s
      <4>1. seen' = seen \cup {s}
        BY <3>1 DEF Stores, Store
      <4> QED
        BY <1>3, <2>2, <4>1
    <3>3. ASSUME NEW m \in Others', m <= n PROVE m \in seen'
      <4>1. /\ s \in Nat /\ s \in Others /\ s <= top /\ seen' = seen \cup {s}
            /\ \A k \in Others : k < s => k \in seen
        BY <1>1, <1>o, <3>1
      <4>2. m \in Nat /\ m <= s /\ m \in Others
        BY <1>o, <3>2, <3>3, <4>1
      <4> QED
        BY <4>1, <4>2
    <3>4. n \in Others /\ n <= top
      BY <1>1, <1>o, <3>1, <3>2
    <3> QED
      BY <1>1, <1>o, <3>1, <3>2, <3>3, <3>4
  <2> QED
    BY <2>1, <2>2
<1>4. ASSUME NEW p \in Positions', stream'[p].kind = "pulled" PROVE stream'[p].of \in seen'
  <2>1. CASE p \in Positions
    <3>1. stream[p].of \in seen /\ stream'[p] = stream[p]
      BY <1>4, <1>g, <2>1 DEF StoredInv
    <3>2. seen \subseteq seen'
      BY <1>1, SeenChange
    <3> QED
      BY <3>1, <3>2
  <2>2. CASE p \notin Positions
    <3>1. PICK s \in eng.page : Stores(s)
      BY <1>4, <2>2, SeenChange
    <3> QED
      BY <1>1, <1>4, <2>2, <3>1
  <2> QED
    BY <2>1, <2>2
<1>5. ASSUME NEW c, Known(c) PROVE c <= top' /\ \A n \in Others' : n <= c => n \in seen'
  <2>1. CASE c = 0 \/ (On /\ c = eng.pull) \/ (file # None /\ c = file.pull)
    <3>1. c \in Nat /\ CaughtUpTo(c)
      BY <1>t, <1>z, <2>1 DEF StoredInv
    <3> QED
      BY <1>c, <3>1
  <2>2. CASE PageDone /\ c = PulledTo
    <3>1. eng.pc = "ingest" /\ eng.page = {}
      BY <2>2 DEF PageDone
    <3>2. /\ CaughtUpTo(eng.pull) /\ eng.next <= top
          /\ \A n \in Others : eng.pull < n /\ n <= eng.next => n \in seen
      BY <3>1 DEF StoredInv, PageInv, On
    <3>3. c \in Nat /\ (c = eng.pull \/ (c = eng.next /\ eng.pull < c))
      BY <1>t, <2>2 DEF PulledTo
    <3>4. CaughtUpTo(c)
      BY <1>o, <1>t, <3>2, <3>3 DEF CaughtUpTo
    <3> QED
      BY <1>c, <3>3, <3>4
  <2> QED
    BY <1>5, <2>1, <2>2 DEF Known
<1>6. /\ On' => eng'.pull <= top' /\ \A n \in Others' : n <= eng'.pull => n \in seen'
      /\ file' # None => file'.pull <= top' /\ \A n \in Others' : n <= file'.pull => n \in seen'
  BY <1>5, PullsChange
<1>7. PageInv'
  <2>1. SUFFICES ASSUME eng'.pc \in {"ingest", "notify"}
                 PROVE  /\ eng'.next <= top'
                        /\ eng'.page \subseteq Others'
                        /\ \A n \in eng'.page : n <= eng'.next
                        /\ \A n \in Others' : eng'.pull < n /\ n <= eng'.next
                               => n \in eng'.page \/ n \in seen'
    BY DEF PageInv
  <2>2. CASE Pull
    <3>1. top' = top /\ Others' = Others
      BY <2>2 DEF Pull, worker, Others
    <3> QED
      BY <2>2, <3>1, PulledPage
  <2>3. CASE ~Pull
    <3>1. /\ eng.pc \in {"ingest", "notify"}
          /\ eng'.pull = eng.pull /\ eng'.next = eng.next /\ eng'.page \subseteq eng.page
          /\ \A n \in eng.page : n \in eng'.page \/ n \in seen'
      BY <2>1, <2>3, PageChange
    <3>2. /\ eng.next <= top
          /\ eng.page \subseteq Others
          /\ \A n \in eng.page : n <= eng.next
          /\ \A n \in Others : eng.pull < n /\ n <= eng.next => n \in eng.page \/ n \in seen
      BY <3>1 DEF StoredInv, PageInv
    <3>3. seen \subseteq seen'
      BY <1>1, SeenChange
    <3> QED
      BY <1>o, <1>t, <3>1, <3>2, <3>3
  <2> QED
    BY <2>2, <2>3
<1>8. ASSUME NEW p \in Positions', NEW q \in Positions', p < q,
             stream'[p].kind = "pulled", stream'[q].kind = "pulled"
      PROVE  stream'[p].of < stream'[q].of
  <2>1. CASE q \in Positions
    <3>1. p \in Positions
      BY <1>8, <1>g, <1>t, <2>1 DEF Positions
    <3> QED
      BY <1>8, <1>g, <2>1, <3>1 DEF StoredInv, PullCursorMeansStored
  <2>2. CASE q \notin Positions
    <3>1. PICK s \in eng.page : Stores(s)
      BY <1>8, <2>2, SeenChange
    <3>2. stream'[q].of = s
      BY <1>1, <1>8, <2>2, <3>1
    <3>3. p \in Positions
      <4>1. stream' = Append(stream, [kind |-> "pulled", of |-> s])
        BY <3>1 DEF Stores, Store, Add
      <4>2. Len(stream') = Len(stream) + 1
        BY <1>t, <4>1
      <4> QED
        BY <1>8, <1>t, <4>2 DEF Positions
    <3>4. stream[p].of \in seen /\ stream'[p] = stream[p]
      BY <1>8, <1>g, <3>3 DEF StoredInv
    <3> QED
      BY <1>1, <3>1, <3>2, <3>4
  <2> QED
    BY <2>1, <2>2
<1>9. ASSUME file' # None, NEW r \in rows', r.origin = "other", r.seq <= file'.pull
      PROVE  \E p \in Positions' : stream'[p] = [kind |-> "pulled", of |-> r.seq]
  <2>1. r.seq \in Others'
    BY <1>9 DEF Others
  <2>2. r.seq \in seen'
    BY <1>6, <1>9, <2>1
  <2> QED
    BY <1>3, <2>2
<1>10. PullCursorMeansStored'
  BY <1>8, <1>9 DEF PullCursorMeansStored
<1>11. \A n \in seen' : Stored(n)' /\ n \in Others' /\ CaughtUpTo(n)'
  BY <1>3 DEF Stored, CaughtUpTo
<1>12. (On' => CaughtUpTo(eng.pull)') /\ (file' # None => CaughtUpTo(file.pull)')
  BY <1>6 DEF CaughtUpTo
<1> QED
  BY <1>2, <1>4, <1>7, <1>10, <1>11, <1>12 DEF StoredInv

(* The stream has each pulled message once and in the Worker's order, and  *)
(* the saved pull cursor passes none that is not in the stream, however    *)
(* often a page is pulled again, for every page size.                      *)
THEOREM PulledIsStored == Spec => []PullCursorMeansStored
<1>1. Init => StoredInv
  <2>1. SUFFICES ASSUME Init PROVE StoredInv
    OBVIOUS
  <2>2. Others = {} /\ seen = {} /\ Positions = {} /\ ~On /\ file = None
        /\ eng.pc = "off"
    BY <2>1 DEF Init, Off, On, Others, Positions
  <2> QED
    BY <2>2 DEF StoredInv, PageInv, PullCursorMeansStored
<1>2. Spec => [](TypeInv /\ CursorInv)
  BY TypeInit, TypeStep, CursorInit, CursorStep, PTL DEF Spec
<1>3. StoredInv => PullCursorMeansStored
  BY DEF StoredInv
<1> QED
  BY <1>1, <1>2, <1>3, StoredStep, PTL DEF Spec
===============================================================================
