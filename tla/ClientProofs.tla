----------------------------- MODULE ClientProofs -----------------------------
(***************************************************************************)
(* The client's side.  The journal file, for any number of processes,      *)
(* scopes, files, requests and faults: what was acknowledged is on disk,   *)
(* and rotation loses nothing.  And the choice of a hub: a resolution      *)
(* keeps to the order of its plan, for every list of candidates, every set *)
(* of sessions and networks and every order of probes, failures, moves and *)
(* changes of hub.                                                         *)
(***************************************************************************)
EXTENDS OutboxJournal, HubSelection, FiniteSetTheorems, WellFoundedInduction,
        TLAPS

-----------------------------------------------------------------------------
(* The journal file.                                                       *)

\* What load asks of the record at k; and a request that expired was never
\* attempted.
RecOK(r, k) ==
    /\ (r[k].ev = "header") <=> (k = 1)
    /\ r[k].ev = "queued" => r[k].n = Cardinality(At(r, k - 1, "queued")) + 1
    /\ r[k].ev = "attempted" =>
           r[k].n \in PendingAt(r, k - 1) \ At(r, k - 1, "attempted")
    /\ r[k].ev = "settled" =>
           /\ r[k].n \in PendingAt(r, k - 1)
           /\ r[k].of = "expired" => r[k].n \notin At(r, k - 1, "attempted")

NoTorn(r) == \A k \in 1 .. Len(r) : r[k].ev # "torn"
FileOK(r) ==
    /\ Len(r) <= JournalLimit
    /\ \A k \in 1 .. Len(r) : IF r[k].ev = "torn" THEN k = Len(r) ELSE RecOK(r, k)
FilesOK == \A f \in Files : FileOK(jfile[f]) /\ jdirty[f] <= Len(jfile[f])

\* Files are numbered as they are created, and the path names the last one
\* or nothing.
PathOK == \E k \in Nat : jretired = 1 .. k /\ jactive \in {NoFile, k + 1}

\* The record that a process is about to append continues the journal; what
\* is left of its pass is pending, and a request it calls was attempted.
Heads(n, todo) == n \in todo /\ \A m \in todo : n <= m
Fits(r, rec, todo) ==
    \/ rec.ev = "header" /\ r = <<>>
    \/ /\ rec.ev = "queued" /\ r # <<>>
       /\ rec.n = Cardinality(At(r, Len(r), "queued")) + 1
    \/ /\ rec.ev = "attempted" /\ todo \subseteq JPending(r)
       /\ Heads(rec.n, todo) /\ rec.n \notin At(r, Len(r), "attempted")
    \/ /\ rec.ev = "settled" /\ todo \subseteq JPending(r) /\ rec.n \in todo
       /\ rec.of = "expired" => rec.n \notin At(r, Len(r), "attempted")
Written(r, rec, todo) ==
    /\ rec = r[Len(r)]
    /\ rec.ev \in {"header", "queued", "attempted", "settled"}
    /\ rec.ev = "attempted" => todo \subseteq JPending(r) /\ Heads(rec.n, todo)
    /\ rec.ev = "settled" => todo \ {rec.n} \subseteq JPending(r)
BusyOK(q, r) ==
    /\ NoTorn(r)
    /\ q.pc # "write" => r # <<>>
    /\ q.pc = "write" => Fits(r, q.rec, q.todo)
    /\ q.pc = "sync" => Written(r, q.rec, q.todo)
    /\ q.pc \in {"next", "call"} => q.todo \subseteq JPending(r)
    /\ q.pc = "call" => \E n \in JAttempted(r) : Heads(n, q.todo)

\* A process that works on the journal has the lock of the file at the path.
ProcOK(q) ==
    /\ q.pc # "idle" => q.scope \in Scopes
    /\ (q.pc \in {"start", "write", "sync", "next", "call"}) <=> q.locked
    /\ q.pc = "lock" => q.fd # NoFile
    /\ q.locked => q.fd = jactive /\ jactive # NoFile /\ BusyOK(q, jfile[jactive])
ProcsOK == \A p \in JProcs : ProcOK(jproc[p])
OneLock == \A p, q \in JProcs : jproc[p].locked /\ jproc[q].locked => p = q

\* What was promised is on disk, and what was settled is remembered.
KeptOK == \A id \in jkept : id[2] \in Synced_(id[1], "queued")
SentOK == \A id \in jsent \ jbare : id[2] \in Synced_(id[1], "attempted")
DoneOK ==
    \A f \in Files : \A n \in At(jfile[f], Len(jfile[f]), "settled") :
        <<f, n>> \in jdone
SentIsDone == \A id \in jsent \ jbare : id[1] \in jretired => id \in jdone

JournalInv ==
    /\ JournalTypeOK /\ FilesOK /\ PathOK /\ ProcsOK /\ OneLock
    /\ KeptOK /\ SentOK /\ DoneOK /\ SentIsDone /\ RetiredOwesNothing

-----------------------------------------------------------------------------
(* Which requests the first k records name.                                *)

LEMMA AtSame ==
    ASSUME NEW r, NEW s, NEW k, \A i \in 1 .. k : s[i] = r[i], NEW e
    PROVE  At(s, k, e) = At(r, k, e)
BY DEF At

LEMMA AtGrows ==
    ASSUME NEW r, NEW k \in Nat, NEW j \in Nat, j <= k, NEW e
    PROVE  At(r, j, e) \subseteq At(r, k, e)
<1>1. \A i \in 1 .. j : i \in 1 .. k
  OBVIOUS
<1> QED
  BY <1>1 DEF At

LEMMA AtNext ==
    ASSUME NEW r, NEW k \in Nat, NEW e
    PROVE  /\ r[k + 1].ev = e => At(r, k + 1, e) = At(r, k, e) \cup {r[k + 1].n}
           /\ r[k + 1].ev # e => At(r, k + 1, e) = At(r, k, e)
<1>1. \A i \in 1 .. k + 1 : i \in 1 .. k \/ i = k + 1
  OBVIOUS
<1>2. \A i \in 1 .. k : i \in 1 .. k + 1
  OBVIOUS
<1>3. k + 1 \in 1 .. k + 1
  OBVIOUS
<1> QED
  BY <1>1, <1>2, <1>3 DEF At

LEMMA AtIsFinite ==
    ASSUME NEW r, NEW k \in Nat, NEW e
    PROVE  IsFiniteSet(At(r, k, e)) /\ Cardinality(At(r, k, e)) \in 0 .. k
<1> DEFINE I == {j \in 1 .. k : r[j].ev = e}
           g == [i \in I |-> r[i].n]
<1>1. IsFiniteSet(1 .. k) /\ Cardinality(1 .. k) = k
  BY FS_Interval
<1>2. I \in SUBSET (1 .. k)
  OBVIOUS
<1>3. IsFiniteSet(I) /\ Cardinality(I) <= k
  BY <1>1, <1>2, FS_Subset
<1>4. g \in Surjection(I, At(r, k, e))
  BY DEF At, Surjection
<1> HIDE DEF I, g
<1>5. IsFiniteSet(At(r, k, e)) /\ Cardinality(At(r, k, e)) <= Cardinality(I)
  BY <1>3, <1>4, FS_Surjection
<1>6. Cardinality(At(r, k, e)) \in Nat /\ Cardinality(I) \in Nat
  BY <1>3, <1>5, FS_CardinalityType
<1> QED
  BY <1>3, <1>5, <1>6

(* The queued requests are numbered without a gap.                         *)
LEMMA QueuedAre ==
    ASSUME NEW r \in Seq(Records), FileOK(r), NEW m \in 0 .. Len(r)
    PROVE  At(r, m, "queued") = 1 .. Cardinality(At(r, m, "queued"))
<1> DEFINE Q(k) == At(r, k, "queued")
           Bad == {k \in 0 .. Len(r) : Q(k) # 1 .. Cardinality(Q(k))}
<1>1. SUFFICES ASSUME Bad # {} PROVE FALSE
  OBVIOUS
<1>2. Bad \subseteq Nat
  OBVIOUS
<1>3. PICK k \in Bad : \A j \in Bad : ~(<<j, k>> \in OpToRel(<, Nat))
  BY <1>1, <1>2, WFMin, NatLessThanWellFounded
<1>4. \A j \in Bad : ~(j < k)
  BY <1>2, <1>3 DEF OpToRel
<1>5. k \in 0 .. Len(r) /\ k \in Nat /\ Len(r) \in Nat /\ Q(k) # 1 .. Cardinality(Q(k))
  <2>1. Len(r) \in Nat
    OBVIOUS
  <2>2. k \in 0 .. Len(r) /\ Q(k) # 1 .. Cardinality(Q(k))
    BY <1>3
  <2> HIDE DEF Q
  <2> QED BY <2>1, <2>2
<1>6. Q(0) = {} /\ Cardinality(Q(0)) = 0
  <2>1. Q(0) = {}
    BY DEF At
  <2> QED BY <2>1, FS_EmptySet
<1>7. k # 0
  <2> HIDE DEF Q
  <2>1. 1 .. 0 = {}
    OBVIOUS
  <2> QED BY <1>5, <1>6, <2>1
<1>8. PICK j \in Nat : k = j + 1 /\ j \in 0 .. Len(r)
  <2>1. k - 1 \in Nat /\ k = (k - 1) + 1 /\ k - 1 \in 0 .. Len(r)
    BY <1>5, <1>7
  <2> QED BY <2>1
<1>9. PICK c \in Nat : c = Cardinality(Q(j)) /\ Q(j) = 1 .. c
  <2>1. j \notin Bad
    BY <1>4, <1>8
  <2>2. Cardinality(Q(j)) \in Nat
    BY AtIsFinite
  <2> QED BY <1>8, <2>1, <2>2
<1>10. CASE r[k].ev = "queued"
  <2>1. RecOK(r, k)
    <3>1. k \in 1 .. Len(r) /\ r[k].ev # "torn"
      BY <1>5, <1>7, <1>10
    <3> QED BY <3>1 DEF FileOK
  <2>2. k - 1 = j
    BY <1>8
  <2>3. r[k].n = c + 1
    BY <1>9, <1>10, <2>1, <2>2 DEF RecOK
  <2>4. Q(k) = (1 .. c) \cup {c + 1}
    <3>1. r[j + 1].ev = "queued" /\ r[j + 1].n = c + 1
      BY <1>8, <1>10, <2>3
    <3>2. Q(j + 1) = Q(j) \cup {r[j + 1].n}
      BY <3>1, AtNext
    <3> HIDE DEF Q
    <3> QED BY <1>8, <1>9, <3>1, <3>2
  <2>5. Q(k) = 1 .. c + 1
    <3> HIDE DEF Q
    <3>1. (1 .. c) \cup {c + 1} = 1 .. c + 1
      OBVIOUS
    <3> QED BY <2>4, <3>1
  <2>6. Cardinality(1 .. c + 1) = c + 1
    <3>1. c + 1 \in Int /\ 1 \in Int /\ c + 1 >= 1
      OBVIOUS
    <3>2. Cardinality(1 .. c + 1) = (IF 1 > c + 1 THEN 0 ELSE c + 1 - 1 + 1)
      BY <3>1, FS_Interval
    <3> QED BY <3>1, <3>2
  <2> HIDE DEF Q
  <2>7. Q(k) = 1 .. Cardinality(Q(k))
    BY <2>5, <2>6
  <2> QED BY <1>5, <2>7
<1>11. CASE r[k].ev # "queued"
  <2>1. Q(k) = Q(j)
    BY <1>8, <1>11, AtNext
  <2> HIDE DEF Q
  <2> QED BY <1>5, <1>9, <2>1
<1> QED
  BY <1>10, <1>11

LEMMA OnlyQueued ==
    ASSUME NEW r \in Seq(Records), FileOK(r), NEW m \in 0 .. Len(r),
           NEW e \in {"attempted", "settled"}
    PROVE  At(r, m, e) \subseteq At(r, m, "queued")
<1> SUFFICES ASSUME NEW n \in At(r, m, e) PROVE n \in At(r, m, "queued")
  OBVIOUS
<1>1. PICK i \in 1 .. m : r[i].ev = e /\ r[i].n = n
  BY DEF At
<1>2. i \in 1 .. Len(r) /\ i - 1 \in Nat /\ i - 1 <= m /\ m \in Nat
  OBVIOUS
<1>3. RecOK(r, i)
  BY <1>1, <1>2 DEF FileOK
<1>4. n \in At(r, i - 1, "queued")
  BY <1>1, <1>3 DEF RecOK, PendingAt
<1> QED
  BY <1>2, <1>4, AtGrows

LEMMA RequestNumbers ==
    ASSUME NEW r \in Seq(Records), FileOK(r), NEW e \in {"queued", "attempted", "settled"}
    PROVE  At(r, Len(r), e) \subseteq Requests
<1>1. Len(r) \in Nat /\ JournalLimit \in Nat /\ Len(r) <= JournalLimit /\ Len(r) \in 0 .. Len(r)
  BY JournalAssumption DEF FileOK
<1>2. Cardinality(At(r, Len(r), "queued")) \in 0 .. Len(r)
  BY <1>1, AtIsFinite
<1>3. At(r, Len(r), "queued") = 1 .. Cardinality(At(r, Len(r), "queued"))
  BY <1>1, QueuedAre
<1>4. At(r, Len(r), "queued") \subseteq Requests
  BY <1>1, <1>2, <1>3 DEF Requests
<1> QED
  BY <1>1, <1>4, OnlyQueued

(* A request is queued once.                                               *)
LEMMA QueuedOnce ==
    ASSUME NEW r \in Seq(Records), FileOK(r), NEW i \in 1 .. Len(r), NEW n,
           r[i].ev = "queued", r[i].n = n
    PROVE  QueuedRec(r, n) = r[i]
<1>1. ASSUME NEW j \in 1 .. Len(r), NEW k \in 1 .. Len(r), j < k,
             r[j].ev = "queued", r[k].ev = "queued", r[j].n = r[k].n
      PROVE  FALSE
  <2>1. RecOK(r, k)
    BY <1>1 DEF FileOK
  <2>2. k - 1 \in 0 .. Len(r) /\ k - 1 \in Nat /\ j \in 1 .. k - 1
    BY <1>1
  <2>3. PICK c \in Nat : c = Cardinality(At(r, k - 1, "queued"))
    BY <2>2, AtIsFinite
  <2>4. At(r, k - 1, "queued") = 1 .. c
    BY <2>2, <2>3, QueuedAre
  <2>5. r[j].n \in 1 .. c
    BY <1>1, <2>2, <2>4 DEF At
  <2>6. r[k].n = c + 1
    BY <1>1, <2>1, <2>3 DEF RecOK
  <2> QED BY <1>1, <2>5, <2>6
<1> DEFINE x == CHOOSE j \in 1 .. Len(r) : r[j].ev = "queued" /\ r[j].n = n
<1>2. x \in 1 .. Len(r) /\ r[x].ev = "queued" /\ r[x].n = n
  OBVIOUS
<1>3. QueuedRec(r, n) = r[x]
  BY DEF QueuedRec
<1> HIDE DEF x
<1>4. x = i
  <2>1. x < i \/ x = i \/ i < x
    BY <1>2
  <2> QED BY <1>1, <1>2, <2>1
<1> QED
  BY <1>3, <1>4

-----------------------------------------------------------------------------
(* A file that goes on as another one, and what is written to it.          *)

LEMMA FileGoesOn ==
    ASSUME NEW r \in Seq(Records), NEW s \in Seq(Records), NEW m \in Nat,
           FileOK(r), m <= Len(r), m <= Len(s), Len(s) <= JournalLimit,
           \A i \in 1 .. m : s[i] = r[i],
           NoTorn(r) \/ Len(s) = m \/ m < Len(r),
           \A k \in m + 1 .. Len(s) :
               IF s[k].ev = "torn" THEN k = Len(s) ELSE RecOK(s, k)
    PROVE  FileOK(s)
<1>1. Len(r) \in Nat /\ Len(s) \in Nat
  OBVIOUS
<1>2. ASSUME NEW k \in 1 .. Len(s)
      PROVE  IF s[k].ev = "torn" THEN k = Len(s) ELSE RecOK(s, k)
  <2>1. CASE k \in m + 1 .. Len(s)
    BY <2>1
  <2>2. CASE k \in 1 .. m
    <3>1. s[k] = r[k] /\ k \in 1 .. Len(r)
      BY <1>1, <2>2
    <3>2. IF r[k].ev = "torn" THEN k = Len(r) ELSE RecOK(r, k)
      BY <3>1 DEF FileOK
    <3>3. CASE s[k].ev = "torn"
      <4>1. k = Len(r) /\ ~NoTorn(r)
        BY <3>1, <3>2, <3>3 DEF NoTorn
      <4>2. m = Len(r) /\ k = m
        BY <1>1, <2>2, <4>1
      <4> QED BY <3>3, <4>1, <4>2
    <3>4. CASE s[k].ev # "torn"
      <4>1. RecOK(r, k)
        BY <3>1, <3>2, <3>4
      <4>2. \A i \in 1 .. k - 1 : s[i] = r[i]
        BY <2>2
      <4>3. \A e : At(s, k - 1, e) = At(r, k - 1, e)
        BY <4>2, AtSame
      <4>4. RecOK(s, k)
        BY <3>1, <4>1, <4>3 DEF RecOK, PendingAt
      <4> QED BY <3>4, <4>4
    <3> QED BY <3>3, <3>4
  <2>3. k \in 1 .. m \/ k \in m + 1 .. Len(s)
    BY <1>1
  <2> QED BY <2>1, <2>2, <2>3
<1> QED
  BY <1>2 DEF FileOK

LEMMA TornIsRecord == JTorn \in Records /\ JTorn.ev = "torn"
BY DEF JTorn, JRec, Records

LEMMA AppendedIs ==
    ASSUME NEW r \in Seq(Records), NEW rec \in Records
    PROVE  /\ Append(r, rec) \in Seq(Records) /\ Len(Append(r, rec)) = Len(r) + 1
           /\ Len(r) \in Nat
           /\ \A i \in 1 .. Len(r) : Append(r, rec)[i] = r[i]
           /\ Append(r, rec)[Len(r) + 1] = rec
           /\ \A e : At(Append(r, rec), Len(r), e) = At(r, Len(r), e)
<1>1. /\ Append(r, rec) \in Seq(Records) /\ Len(Append(r, rec)) = Len(r) + 1
      /\ Len(r) \in Nat
      /\ \A i \in 1 .. Len(r) : Append(r, rec)[i] = r[i]
      /\ Append(r, rec)[Len(r) + 1] = rec
  <2> HIDE DEF Records
  <2> QED OBVIOUS
<1>2. ASSUME NEW e PROVE At(Append(r, rec), Len(r), e) = At(r, Len(r), e)
  <2>1. PICK s, k : s = Append(r, rec) /\ k = Len(r)
    OBVIOUS
  <2>2. \A i \in 1 .. k : s[i] = r[i]
    BY <1>1, <2>1
  <2>3. At(s, k, e) = At(r, k, e)
    BY <2>2, AtSame
  <2> QED BY <2>1, <2>3
<1> QED
  BY <1>1, <1>2

(* A record that fits keeps the journal readable, and changes what is      *)
(* pending as it says.                                                     *)
LEMMA AppendKeepsFile ==
    ASSUME NEW r \in Seq(Records), NEW rec \in Records, NEW todo, FileOK(r), NoTorn(r),
           Len(r) < JournalLimit, Fits(r, rec, todo)
    PROVE  /\ FileOK(Append(r, rec)) /\ NoTorn(Append(r, rec))
           /\ Append(r, rec) # <<>> /\ Written(Append(r, rec), rec, todo)
<1> DEFINE s == Append(r, rec)
<1>1. /\ s \in Seq(Records) /\ Len(s) = Len(r) + 1 /\ Len(r) \in Nat
      /\ \A i \in 1 .. Len(r) : s[i] = r[i]
      /\ s[Len(r) + 1] = rec
      /\ \A e : At(s, Len(r), e) = At(r, Len(r), e)
  BY AppendedIs
<1>2. rec.ev \in {"header", "queued", "attempted", "settled"}
  BY DEF Fits
<1> HIDE DEF s
<1>3. PICK l \in Nat : l = Len(r) /\ Len(s) = l + 1
  BY <1>1
<1>4. RecOK(s, l + 1)
  <2>1. (l + 1) - 1 = l /\ s[l + 1] = rec
    BY <1>1, <1>3
  <2>2. \A e : At(s, (l + 1) - 1, e) = At(r, Len(r), e)
    BY <1>1, <1>3, <2>1
  <2>3. (l + 1 = 1) <=> (r = <<>>)
    BY <1>3
  <2>4. JPending(r) = At(r, Len(r), "queued") \ At(r, Len(r), "settled")
    BY DEF JPending, PendingAt
  <2>5. r # <<>> \/ JPending(r) = {}
    BY <2>4 DEF At
  <2>6. CASE rec.ev = "header" /\ r = <<>>
    BY <2>1, <2>3, <2>6 DEF RecOK
  <2>7. CASE /\ rec.ev = "queued" /\ r # <<>>
             /\ rec.n = Cardinality(At(r, Len(r), "queued")) + 1
    BY <2>1, <2>2, <2>3, <2>7 DEF RecOK
  <2>8. CASE /\ rec.ev = "attempted" /\ todo \subseteq JPending(r)
             /\ Heads(rec.n, todo) /\ rec.n \notin At(r, Len(r), "attempted")
    <3>1. rec.n \in JPending(r) /\ r # <<>>
      BY <2>5, <2>8 DEF Heads
    <3> QED BY <2>1, <2>2, <2>3, <2>4, <2>8, <3>1 DEF RecOK, PendingAt
  <2>9. CASE /\ rec.ev = "settled" /\ todo \subseteq JPending(r) /\ rec.n \in todo
             /\ rec.of = "expired" => rec.n \notin At(r, Len(r), "attempted")
    <3>1. rec.n \in JPending(r) /\ r # <<>>
      BY <2>5, <2>9
    <3> QED BY <2>1, <2>2, <2>3, <2>4, <2>9, <3>1 DEF RecOK, PendingAt
  <2> QED BY <2>6, <2>7, <2>8, <2>9 DEF Fits
<1>5. FileOK(s)
  <2>1. \A k \in l + 1 .. Len(s) : k = l + 1
    BY <1>3
  <2>2. s[l + 1].ev # "torn"
    BY <1>1, <1>2, <1>3
  <2>3. \A k \in l + 1 .. Len(s) : IF s[k].ev = "torn" THEN k = Len(s) ELSE RecOK(s, k)
    BY <1>4, <2>1, <2>2
  <2>4. l <= Len(r) /\ l <= Len(s) /\ Len(s) <= JournalLimit
    BY <1>3, JournalAssumption
  <2>5. \A i \in 1 .. l : s[i] = r[i]
    BY <1>1, <1>3
  <2> QED BY <1>1, <2>3, <2>4, <2>5, FileGoesOn
<1>6. NoTorn(s)
  BY <1>1, <1>2, <1>3 DEF NoTorn
<1>7. Written(s, rec, todo)
  <2>1. /\ rec.ev # "queued" => At(s, Len(s), "queued") = At(r, Len(r), "queued")
        /\ rec.ev = "settled" => At(s, Len(s), "settled") = At(r, Len(r), "settled") \cup {rec.n}
        /\ rec.ev # "settled" => At(s, Len(s), "settled") = At(r, Len(r), "settled")
    <3>1. s[l + 1] = rec /\ Len(s) = l + 1
      BY <1>1, <1>3
    <3>2. \A e : At(s, l, e) = At(r, Len(r), e)
      BY <1>1, <1>3
    <3>3. At(s, l, "queued") = At(r, Len(r), "queued") /\ At(s, l, "settled") = At(r, Len(r), "settled")
      BY <3>2
    <3>4. /\ rec.ev # "queued" => At(s, l + 1, "queued") = At(s, l, "queued")
          /\ rec.ev = "settled" => At(s, l + 1, "settled") = At(s, l, "settled") \cup {rec.n}
          /\ rec.ev # "settled" => At(s, l + 1, "settled") = At(s, l, "settled")
      BY <3>1, AtNext
    <3> QED BY <3>1, <3>3, <3>4
  <2>2. rec = s[Len(s)]
    BY <1>1, <1>3
  <2>3. ASSUME rec.ev = "attempted"
        PROVE  todo \subseteq JPending(s) /\ Heads(rec.n, todo)
    BY <2>1, <2>3 DEF Fits, JPending, PendingAt
  <2>4. ASSUME rec.ev = "settled" PROVE todo \ {rec.n} \subseteq JPending(s)
    BY <2>1, <2>4 DEF Fits, JPending, PendingAt
  <2> QED BY <1>2, <2>2, <2>3, <2>4 DEF Written
<1>8. s # <<>>
  BY <1>3
<1> QED
  BY <1>5, <1>6, <1>7, <1>8 DEF s

LEMMA AppendTornKeeps ==
    ASSUME NEW r \in Seq(Records), NEW k \in Nat, FileOK(r), k <= Len(r), k < JournalLimit,
           NoTorn(r) \/ k < Len(r), NEW s \in Seq(Records), Len(s) = k + 1,
           \A i \in 1 .. k : s[i] = r[i], s[k + 1] = JTorn
    PROVE  FileOK(s)
<1>1. \A j \in k + 1 .. Len(s) : j = k + 1
  OBVIOUS
<1>2. s[k + 1].ev = "torn"
  BY TornIsRecord
<1>3. \A j \in k + 1 .. Len(s) : IF s[j].ev = "torn" THEN j = Len(s) ELSE RecOK(s, j)
  BY <1>1, <1>2
<1>4. k <= Len(s) /\ Len(s) <= JournalLimit
  BY JournalAssumption
<1> QED
  BY <1>3, <1>4, FileGoesOn

(* What a stop of the machine leaves.                                      *)
LEMMA SurvivorIs ==
    ASSUME NEW r \in Seq(Records), NEW d \in Nat, d <= Len(r), FileOK(r),
           NEW s \in Survives(r, d)
    PROVE  /\ s \in Seq(Records) /\ FileOK(s) /\ Len(r) - d <= Len(s)
           /\ \E k \in Nat : /\ Len(r) - d <= k /\ k <= Len(r) /\ k <= Len(s)
                             /\ \A i \in 1 .. k : s[i] = r[i]
                             /\ \A i \in 1 .. Len(s) : i \in 1 .. k \/ s[i] = JTorn
<1>1. PICK k \in Len(r) - d .. Len(r) :
          \/ s = SubSeq(r, 1, k)
          \/ k # Len(r) /\ s = Append(SubSeq(r, 1, k), JTorn)
  <2>1. Len(r) \in Nat
    OBVIOUS
  <2>2. CASE s \in {SubSeq(r, 1, k) : k \in Len(r) - d .. Len(r)}
    BY <2>2
  <2>3. CASE s \in {Append(SubSeq(r, 1, k), JTorn) : k \in Len(r) - d .. Len(r) - 1}
    <3>1. PICK k \in Len(r) - d .. Len(r) - 1 : s = Append(SubSeq(r, 1, k), JTorn)
      BY <2>3
    <3>2. k \in Len(r) - d .. Len(r) /\ k # Len(r)
      BY <2>1
    <3> QED BY <3>1, <3>2
  <2> QED BY <2>2, <2>3 DEF Survives
<1>2. k \in Nat /\ k <= Len(r) /\ Len(r) - d <= k /\ Len(r) \in Nat /\ Len(r) <= JournalLimit
  BY DEF FileOK
<1> DEFINE t == SubSeq(r, 1, k)
<1>3. t \in Seq(Records) /\ Len(t) = k /\ \A i \in 1 .. k : t[i] = r[i]
  <2> HIDE DEF Records
  <2> QED BY <1>2
<1> HIDE DEF t
<1>4. CASE s = t
  <2>1. FileOK(s)
    <3>1. \A j \in k + 1 .. Len(t) : FALSE
      BY <1>2, <1>3
    <3>2. k <= Len(t) /\ Len(t) <= JournalLimit
      BY <1>2, <1>3, JournalAssumption
    <3> QED BY <1>2, <1>3, <1>4, <3>1, <3>2, FileGoesOn
  <2>2. \A i \in 1 .. Len(s) : i \in 1 .. k
    BY <1>3, <1>4
  <2> QED BY <1>2, <1>3, <1>4, <2>1, <2>2
<1>5. CASE k # Len(r) /\ s = Append(t, JTorn)
  <2>1. /\ s \in Seq(Records) /\ Len(s) = k + 1 /\ \A i \in 1 .. k : s[i] = r[i]
        /\ s[k + 1] = JTorn
    BY <1>3, <1>5, TornIsRecord, AppendedIs
  <2>2. FileOK(s)
    <3>1. k < Len(r) /\ k < JournalLimit
      BY <1>2, <1>5, JournalAssumption
    <3> QED BY <1>2, <2>1, <3>1, AppendTornKeeps
  <2>3. \A i \in 1 .. Len(s) : i \in 1 .. k \/ s[i] = JTorn
    BY <1>2, <2>1
  <2>4. Len(r) - d <= Len(s) /\ k <= Len(s)
    BY <1>2, <2>1
  <2> QED BY <1>2, <2>1, <2>2, <2>3, <2>4
<1> QED
  BY <1>1, <1>4, <1>5 DEF t

(* load and the invariant agree.                                           *)
LEMMA LoadedIsWhole ==
    ASSUME NEW r \in Seq(Records), LoadOk(r) PROVE NoTorn(r)
BY DEF LoadOk, NoTorn

LEMMA ReadableFile ==
    ASSUME NEW f, jfile[f] \in Seq(Records), FileOK(jfile[f])
    PROVE  Readable(f)
<1>1. PICK r \in Seq(Records) : r = jfile[f]
  OBVIOUS
<1> DEFINE s == IF r # <<>> /\ r[Len(r)].ev = "torn" THEN SubSeq(r, 1, Len(r) - 1) ELSE r
<1>2. Len(r) \in Nat /\ (r # <<>> => Len(r) > 0)
  OBVIOUS
<1>3. /\ s \in Seq(Records) /\ Len(s) <= Len(r) /\ Len(s) \in Nat
      /\ \A i \in 1 .. Len(s) : s[i] = r[i] /\ r[i].ev # "torn"
  <2>1. CASE r # <<>> /\ r[Len(r)].ev = "torn"
    <3>1. s = SubSeq(r, 1, Len(r) - 1)
      BY <2>1
    <3>2. s \in Seq(Records) /\ Len(s) = Len(r) - 1 /\ \A i \in 1 .. Len(r) - 1 : s[i] = r[i]
      <4>1. PICK k \in Nat : k = Len(r) - 1 /\ k <= Len(r)
        <5>1. Len(r) - 1 \in Nat /\ Len(r) - 1 <= Len(r)
          BY <1>2, <2>1
        <5> QED BY <5>1
      <4>2. s = SubSeq(r, 1, k)
        BY <3>1, <4>1
      <4> HIDE DEF Records, s
      <4>3. s \in Seq(Records) /\ Len(s) = k /\ \A i \in 1 .. k : s[i] = r[i]
        BY <4>1, <4>2
      <4> QED BY <4>1, <4>3
    <3> HIDE DEF s
    <3>3. \A i \in 1 .. Len(r) - 1 : i \in 1 .. Len(r) /\ i # Len(r)
      BY <1>2
    <3>4. \A i \in 1 .. Len(r) - 1 : r[i].ev # "torn"
      BY <1>1, <3>3 DEF FileOK
    <3> QED BY <1>2, <2>1, <3>2, <3>4
  <2>2. CASE ~(r # <<>> /\ r[Len(r)].ev = "torn")
    <3>1. s = r
      BY <2>2
    <3> HIDE DEF s
    <3>2. \A i \in 1 .. Len(r) : r[i].ev # "torn"
      BY <1>1, <1>2, <2>2 DEF FileOK
    <3> QED BY <1>2, <3>1, <3>2
  <2> HIDE DEF s
  <2> QED BY <2>1, <2>2
<1> HIDE DEF s
<1>4. ASSUME NEW k \in 1 .. Len(s)
      PROVE  /\ s[k].ev # "torn"
             /\ (s[k].ev = "header") <=> (k = 1)
             /\ s[k].ev = "queued" => s[k].n = Cardinality(At(s, k - 1, "queued")) + 1
             /\ s[k].ev = "attempted" => s[k].n \in PendingAt(s, k - 1) \ At(s, k - 1, "attempted")
             /\ s[k].ev = "settled" => s[k].n \in PendingAt(s, k - 1)
  <2>1. k \in 1 .. Len(r) /\ s[k] = r[k] /\ r[k].ev # "torn"
    BY <1>2, <1>3
  <2>2. RecOK(r, k)
    BY <1>1, <2>1 DEF FileOK
  <2>3. \A i \in 1 .. k - 1 : s[i] = r[i]
    BY <1>3
  <2>4. \A e : At(s, k - 1, e) = At(r, k - 1, e)
    BY <2>3, AtSame
  <2> QED BY <2>1, <2>2, <2>4 DEF RecOK, PendingAt
<1>5. LoadOk(s)
  BY <1>4 DEF LoadOk
<1> QED
  BY <1>1, <1>5 DEF Readable, s

(* The synced part.                                                        *)
LEMMA SyncedAt ==
    ASSUME NEW r \in Seq(Records), NEW d \in Nat, d <= Len(r), NEW e
    PROVE  /\ Len(r) - d \in Nat
           /\ At(SubSeq(r, 1, Len(r) - d), Len(SubSeq(r, 1, Len(r) - d)), e)
                  = At(r, Len(r) - d, e)
<1>1. PICK k \in Nat : k = Len(r) - d /\ k <= Len(r)
  <2>1. Len(r) - d \in Nat /\ Len(r) - d <= Len(r)
    OBVIOUS
  <2> QED BY <2>1
<1>2. PICK s : s = SubSeq(r, 1, k)
  OBVIOUS
<1>3. Len(s) = k /\ \A i \in 1 .. k : s[i] = r[i]
  <2> HIDE DEF Records
  <2> QED BY <1>1, <1>2
<1>4. At(s, k, e) = At(r, k, e)
  BY <1>3, AtSame
<1> QED
  BY <1>1, <1>2, <1>3, <1>4

LEMMA SyncedIs ==
    ASSUME NEW f, jfile[f] \in Seq(Records), jdirty[f] \in Nat, jdirty[f] <= Len(jfile[f]), NEW e
    PROVE  Synced_(f, e) = At(jfile[f], Len(jfile[f]) - jdirty[f], e)
BY SyncedAt DEF Synced_, SyncedPart

(* What was synced stays synced.                                           *)
LEMMA SyncedStays ==
    ASSUME NEW f, NEW e,
           jfile[f] \in Seq(Records), jdirty[f] \in Nat, jdirty[f] <= Len(jfile[f]),
           NEW s \in Seq(Records), s = jfile'[f], NEW d \in Nat, d = jdirty'[f], d <= Len(s),
           Len(jfile[f]) - jdirty[f] <= Len(s) - d,
           \A i \in 1 .. Len(jfile[f]) - jdirty[f] : s[i] = jfile[f][i]
    PROVE  /\ Synced_(f, e) \subseteq Synced_(f, e)'
           /\ Synced_(f, e)' = At(s, Len(s) - d, e)
<1>1. PICK k \in Nat : k = Len(jfile[f]) - jdirty[f] /\ Synced_(f, e) = At(jfile[f], k, e)
  BY SyncedAt, SyncedIs
<1>2. Synced_(f, e)' = At(s, Len(s) - d, e) /\ Len(s) - d \in Nat
  BY SyncedAt DEF Synced_, SyncedPart
<1>3. At(s, k, e) = At(jfile[f], k, e)
  <2>1. PICK r : r = jfile[f]
    OBVIOUS
  <2>2. \A i \in 1 .. k : s[i] = r[i]
    BY <1>1, <2>1
  <2>3. At(s, k, e) = At(r, k, e)
    BY <2>2, AtSame
  <2> QED BY <2>1, <2>3
<1>4. PICK m \in Nat : m = Len(s) - d /\ k <= m
  BY <1>1, <1>2
<1>5. At(s, k, e) \subseteq At(s, m, e)
  BY <1>4, AtGrows
<1> QED
  BY <1>1, <1>2, <1>3, <1>4, <1>5

-----------------------------------------------------------------------------
LEMMA IdleIs == JIdle \in JState /\ JIdle.locked = FALSE /\ JIdle.pc = "idle"
BY TornIsRecord DEF JIdle, JState

LEMMA JournalTypes ==
    ASSUME JournalTypeOK
    PROVE  /\ \A f \in Files : jfile[f] \in Seq(Records) /\ jdirty[f] \in Nat
           /\ \A p \in JProcs : jproc[p] \in JState
           /\ NoFile \notin Files
BY DEF JournalTypeOK, NoFile, Files

LEMMA JSpends ==
    ASSUME JournalTypeOK, NEW w \in JBounded, JSpend(w)
    PROVE  jleft' \in [JBounded -> Nat]
BY DEF JournalTypeOK, JSpend

LEMMA ActiveIs ==
    ASSUME PathOK PROVE jactive \notin jretired
BY DEF PathOK, NoFile

LEMMA JournalStart == JournalInit => JournalInv
<1> SUFFICES ASSUME JournalInit PROVE JournalInv
  OBVIOUS
<1>1. MaxFiles \in Nat /\ JournalLimit \in Nat /\ JBudgets \subseteq [JBounded -> Nat]
  BY JournalAssumption
<1>2. JournalTypeOK
  <2>1. <<>> \in Seq(Records)
    OBVIOUS
  <2> QED BY <1>1, <2>1, IdleIs DEF JournalInit, JournalTypeOK
<1>3. FilesOK
  BY <1>1 DEF JournalInit, FilesOK, FileOK
<1>4. PathOK
  <2>1. {} = 1 .. 0
    OBVIOUS
  <2> QED BY <2>1 DEF JournalInit, PathOK
<1>5. ProcsOK /\ OneLock
  BY IdleIs DEF JournalInit, ProcsOK, ProcOK, OneLock
<1>6. KeptOK /\ SentOK /\ SentIsDone /\ RetiredOwesNothing
  BY DEF JournalInit, KeptOK, SentOK, SentIsDone, RetiredOwesNothing
<1>7. DoneOK
  <2>1. ASSUME NEW f \in Files PROVE At(jfile[f], Len(jfile[f]), "settled") = {}
    BY DEF JournalInit, At
  <2> QED BY <2>1 DEF DoneOK
<1> QED
  BY <1>2, <1>3, <1>4, <1>5, <1>6, <1>7 DEF JournalInv

(* What the invariant says of one process when the others go on.           *)
LEMMA OthersStay ==
    ASSUME JournalInv, NEW p \in JProcs, NEW q \in JState,
           jproc' = [jproc EXCEPT ![p] = q], UNCHANGED <<jfile, jactive>>, ProcOK(q),
           q.locked => \A o \in JProcs : o # p => ~jproc[o].locked
    PROVE  ProcsOK' /\ OneLock' /\ jproc' \in [JProcs -> JState]
<1>1. jproc \in [JProcs -> JState]
  BY DEF JournalInv, JournalTypeOK
<1>2. /\ jproc'[p] = q /\ \A o \in JProcs : o # p => jproc'[o] = jproc[o]
      /\ jproc' \in [JProcs -> JState]
  BY <1>1
<1>3. ProcsOK'
  <2> SUFFICES ASSUME NEW o \in JProcs PROVE ProcOK(jproc[o])'
    BY DEF ProcsOK
  <2>1. PICK x : x = jproc'[o] /\ ProcOK(x)
    BY <1>2 DEF JournalInv, ProcsOK
  <2>2. ProcOK(x)'
    BY <2>1 DEF ProcOK
  <2> QED BY <2>1, <2>2 DEF ProcOK
<1>4. OneLock'
  <2> SUFFICES ASSUME NEW a \in JProcs, NEW b \in JProcs, jproc'[a].locked, jproc'[b].locked
               PROVE  a = b
    BY DEF OneLock
  <2>1. CASE a = p \/ b = p
    BY <1>2, <2>1
  <2>2. CASE a # p /\ b # p
    BY <1>2, <2>2 DEF JournalInv, OneLock
  <2> QED BY <2>1, <2>2
<1> QED
  BY <1>2, <1>3, <1>4

(* A step of one process that leaves disk and history alone.               *)
LEMMA ProcMoves ==
    ASSUME JournalInv, NEW p \in JProcs, NEW q \in JState,
           jproc' = [jproc EXCEPT ![p] = q], diskSame, historySame, UNCHANGED jclock,
           jleft' \in [JBounded -> Nat], ProcOK(q),
           q.locked => \A o \in JProcs : o # p => ~jproc[o].locked
    PROVE  JournalInv'
<1>1. UNCHANGED <<jfile, jdirty, jactive, jretired, jkept, jsent, jbare, jdone, jclock>>
  BY DEF diskSame, historySame
<1>2. ProcsOK' /\ OneLock' /\ jproc' \in [JProcs -> JState]
  BY <1>1, OthersStay
<1>3. JournalTypeOK'
  BY <1>1, <1>2 DEF JournalInv, JournalTypeOK
<1>4. FilesOK' /\ PathOK' /\ KeptOK' /\ SentOK'
  BY <1>1 DEF JournalInv, FilesOK, PathOK, KeptOK, SentOK, Synced_, SyncedPart
<1>5. DoneOK' /\ SentIsDone' /\ RetiredOwesNothing'
  BY <1>1 DEF JournalInv, DoneOK, SentIsDone, RetiredOwesNothing
<1> QED
  BY <1>2, <1>3, <1>4, <1>5 DEF JournalInv

(* A call returns.                                                         *)
LEMMA Returns ==
    ASSUME JournalInv, NEW p \in JProcs, Return(p), diskSame, historySame, UNCHANGED jclock,
           jleft' \in [JBounded -> Nat]
    PROVE  JournalInv'
<1>1. jproc' = [jproc EXCEPT ![p] = JIdle]
  BY DEF Return, Step
<1>2. ProcOK(JIdle)
  BY IdleIs DEF ProcOK
<1> QED
  BY <1>1, <1>2, IdleIs, ProcMoves

\* Nobody else has the lock that a process has or takes.
LEMMA LockIsMine ==
    ASSUME JournalInv, NEW p \in JProcs, jproc[p].locked
    PROVE  \A o \in JProcs : o # p => ~jproc[o].locked
BY DEF JournalInv, OneLock

LEMMA LockIsFree ==
    ASSUME JournalInv, NEW p \in JProcs, Acquires(p), SameFile(p)
    PROVE  /\ \A o \in JProcs : ~jproc[o].locked
           /\ jactive \in Files /\ jactive # NoFile /\ jproc[p].fd = jactive
<1>1. jproc[p].fd = jactive /\ jproc[p].pc = "lock"
  BY DEF Acquires, SameFile
<1>2. jproc[p].fd # NoFile
  BY <1>1 DEF JournalInv, ProcsOK, ProcOK
<1>3. jactive \in Files
  BY <1>1, <1>2 DEF JournalInv, JournalTypeOK
<1>4. ASSUME NEW o \in JProcs, jproc[o].locked PROVE FALSE
  <2>1. jproc[o].fd = jactive
    BY <1>4 DEF JournalInv, ProcsOK, ProcOK
  <2> QED BY <1>1, <1>4, <2>1 DEF Acquires, JHolds
<1> QED
  BY <1>1, <1>2, <1>3, <1>4

\* What holds of a process at work.
LEMMA AtWork ==
    ASSUME JournalInv, NEW p \in JProcs,
           jproc[p].pc \in {"start", "write", "sync", "next", "call"}
    PROVE  /\ jproc[p].locked /\ jproc[p].fd = jactive /\ jactive # NoFile
           /\ jactive \in Files /\ jactive \notin jretired
           /\ BusyOK(jproc[p], jfile[jactive])
           /\ jfile[jactive] \in Seq(Records) /\ FileOK(jfile[jactive])
           /\ jdirty[jactive] \in Nat /\ jdirty[jactive] <= Len(jfile[jactive])
           /\ \A o \in JProcs : o # p => ~jproc[o].locked
<1>1. ProcOK(jproc[p])
  BY DEF JournalInv, ProcsOK
<1>2. /\ jproc[p].locked /\ jproc[p].fd = jactive /\ jactive # NoFile
      /\ BusyOK(jproc[p], jfile[jactive])
  BY <1>1 DEF ProcOK
<1>3. jactive \in Files
  BY <1>2 DEF JournalInv, JournalTypeOK
<1>4. jactive \notin jretired
  BY ActiveIs DEF JournalInv
<1>5. /\ jfile[jactive] \in Seq(Records) /\ FileOK(jfile[jactive])
      /\ jdirty[jactive] \in Nat /\ jdirty[jactive] <= Len(jfile[jactive])
  BY <1>3, JournalTypes DEF JournalInv, FilesOK
<1> QED
  BY <1>2, <1>3, <1>4, <1>5, LockIsMine

-----------------------------------------------------------------------------
(* Opening, locking and loading.                                           *)

LEMMA RestSame ==
    ASSUME JournalInv, restSame
    PROVE  historySame /\ UNCHANGED jclock /\ jleft' \in [JBounded -> Nat]
BY DEF JournalInv, JournalTypeOK, restSame

LEMMA CallStep ==
    ASSUME JournalInv, NEW p \in JProcs, NEW op \in JOps, NEW s \in Scopes, JCall(p, op, s)
    PROVE  JournalInv'
<1>1. PICK q : q = [JIdle EXCEPT !.pc = "open", !.op = op, !.scope = s,
                        !.stage = IF op \in {"submit", "flush"} THEN 1 ELSE 2]
  OBVIOUS
<1>2. /\ jproc' = [jproc EXCEPT ![p] = q] /\ JSpend(op) /\ diskSame /\ historySame
      /\ UNCHANGED jclock
  BY <1>1 DEF JCall, Step
<1>3. q \in JState /\ q.pc = "open" /\ q.locked = FALSE /\ q.scope = s
  <2>1. PICK st \in 0 .. 3 : st = IF op \in {"submit", "flush"} THEN 1 ELSE 2
    OBVIOUS
  <2>2. q = [JIdle EXCEPT !.pc = "open", !.op = op, !.scope = s, !.stage = st]
    BY <1>1, <2>1
  <2> QED BY <2>2, IdleIs DEF JState, JIdle
<1>4. jleft' \in [JBounded -> Nat]
  BY <1>2, JSpends DEF JournalInv, JBounded
<1>5. ProcOK(q)
  BY <1>3 DEF ProcOK
<1> QED
  BY <1>2, <1>3, <1>4, <1>5, ProcMoves

LEMMA OpenStep ==
    ASSUME JournalInv, NEW p \in JProcs, JOpen(p)
    PROVE  JournalInv'
<1>1. jproc[p] \in JState /\ jproc[p].pc = "open" /\ ~jproc[p].locked /\ restSame
  BY JournalTypes DEF JournalInv, JOpen, ProcsOK, ProcOK
<1>2. historySame /\ UNCHANGED jclock /\ jleft' \in [JBounded -> Nat]
  BY <1>1, RestSame
<1>3. jactive \in Files \cup {NoFile}
  BY DEF JournalInv, JournalTypeOK
<1>4. ASSUME NEW f \in Files
      PROVE  /\ [jproc[p] EXCEPT !.pc = "lock", !.fd = f] \in JState
             /\ [jproc[p] EXCEPT !.pc = "lock", !.fd = f].locked = jproc[p].locked
             /\ [jproc[p] EXCEPT !.pc = "lock", !.fd = f].pc = "lock"
             /\ [jproc[p] EXCEPT !.pc = "lock", !.fd = f].fd = f
             /\ [jproc[p] EXCEPT !.pc = "lock", !.fd = f].scope \in Scopes
  BY <1>1 DEF JState, JournalInv, ProcsOK, ProcOK
<1>5. CASE /\ jactive # NoFile
           /\ Step(p, [jproc[p] EXCEPT !.pc = "lock", !.fd = jactive])
           /\ diskSame
  <2>1. PICK f \in Files : f = jactive
    BY <1>3, <1>5
  <2>2. PICK q : q = [jproc[p] EXCEPT !.pc = "lock", !.fd = f]
    OBVIOUS
  <2>3. jproc' = [jproc EXCEPT ![p] = q]
    BY <1>5, <2>1, <2>2 DEF Step
  <2>4. /\ q \in JState /\ ~q.locked /\ q.pc = "lock" /\ q.fd = f /\ f # NoFile
        /\ q.scope \in Scopes
    BY <1>1, <1>4, <1>5, <2>1, <2>2
  <2>5. ProcOK(q)
    BY <2>4 DEF ProcOK
  <2> QED BY <1>2, <1>5, <2>3, <2>4, <2>5, ProcMoves
<1>6. CASE /\ jactive = NoFile
           /\ \E f \in Files :
                  /\ f = Cardinality(jretired) + 1 /\ jactive' = f
                  /\ Step(p, [jproc[p] EXCEPT !.pc = "lock", !.fd = f])
           /\ UNCHANGED <<jfile, jdirty, jretired>>
  <2>1. PICK f \in Files :
            /\ f = Cardinality(jretired) + 1 /\ jactive' = f
            /\ Step(p, [jproc[p] EXCEPT !.pc = "lock", !.fd = f])
    BY <1>6
  <2>2. PICK q : q = [jproc[p] EXCEPT !.pc = "lock", !.fd = f]
    OBVIOUS
  <2>3. jproc' = [jproc EXCEPT ![p] = q]
    BY <2>1, <2>2 DEF Step
  <2>4. f # NoFile
    BY JournalTypes DEF JournalInv
  <2>5. q \in JState /\ ~q.locked /\ q.pc = "lock" /\ q.fd = f /\ q.scope \in Scopes
    BY <1>1, <1>4, <2>2
  <2>6. /\ UNCHANGED <<jfile, jdirty, jretired, jkept, jsent, jbare, jdone, jclock>>
        /\ jproc \in [JProcs -> JState]
    BY <1>2, <1>6 DEF historySame, JournalInv, JournalTypeOK
  <2>7. /\ jproc' \in [JProcs -> JState] /\ jproc'[p] = q
        /\ \A o \in JProcs : o # p => jproc'[o] = jproc[o]
    BY <2>3, <2>5, <2>6
  <2>8. \A o \in JProcs : ~jproc[o].locked
    BY <1>6 DEF JournalInv, ProcsOK, ProcOK
  <2>9. ProcsOK' /\ OneLock'
    <3>1. \A o \in JProcs : ~jproc'[o].locked
      BY <2>5, <2>7, <2>8
    <3>2. ASSUME NEW o \in JProcs PROVE ProcOK(jproc[o])'
      <4>1. /\ jproc[o].pc # "idle" => jproc[o].scope \in Scopes
            /\ jproc[o].pc \notin {"start", "write", "sync", "next", "call"}
            /\ jproc[o].pc = "lock" => jproc[o].fd # NoFile
        BY <2>8 DEF JournalInv, ProcsOK, ProcOK
      <4>2. /\ jproc'[o].pc # "idle" => jproc'[o].scope \in Scopes
            /\ jproc'[o].pc \notin {"start", "write", "sync", "next", "call"}
            /\ jproc'[o].pc = "lock" => jproc'[o].fd # NoFile
        BY <2>4, <2>5, <2>7, <4>1
      <4> QED BY <3>1, <4>2 DEF ProcOK
    <3> QED BY <3>1, <3>2 DEF ProcsOK, OneLock
  <2>10. PathOK'
    <3>1. PICK k \in Nat : jretired = 1 .. k
      BY DEF JournalInv, PathOK
    <3>2. Cardinality(1 .. k) = k
      <4>1. Cardinality(1 .. k) = (IF 1 > k THEN 0 ELSE k - 1 + 1)
        BY FS_Interval
      <4> QED BY <4>1
    <3> QED BY <2>1, <2>6, <3>1, <3>2 DEF PathOK
  <2>11. JournalTypeOK'
    BY <1>2, <2>1, <2>6, <2>7 DEF JournalInv, JournalTypeOK
  <2>12. FilesOK' /\ KeptOK' /\ SentOK'
    BY <2>6 DEF JournalInv, FilesOK, KeptOK, SentOK, Synced_, SyncedPart
  <2>13. DoneOK' /\ SentIsDone' /\ RetiredOwesNothing'
    BY <2>6 DEF JournalInv, DoneOK, SentIsDone, RetiredOwesNothing
  <2> QED BY <2>9, <2>10, <2>11, <2>12, <2>13 DEF JournalInv
<1> QED
  BY <1>5, <1>6 DEF JOpen

LEMMA BusyStep ==
    ASSUME JournalInv, NEW p \in JProcs, JBusy(p)
    PROVE  JournalInv'
<1>1. /\ jproc[p].pc = "lock" /\ diskSame /\ historySame /\ UNCHANGED jclock
      /\ jleft' \in [JBounded -> Nat] /\ jproc[p] \in JState /\ ~jproc[p].locked
      /\ jproc[p].scope \in Scopes
      /\ Goto(p, "open") \/ Return(p)
  BY RestSame, JournalTypes DEF JBusy, JournalInv, ProcsOK, ProcOK
<1>2. CASE Return(p)
  BY <1>1, <1>2, Returns
<1>3. CASE Goto(p, "open")
  <2>1. PICK q : q = [jproc[p] EXCEPT !.pc = "open"]
    OBVIOUS
  <2>2. q \in JState /\ q.pc = "open" /\ ~q.locked /\ q.scope \in Scopes
    BY <1>1, <2>1 DEF JState
  <2>3. jproc' = [jproc EXCEPT ![p] = q] /\ ProcOK(q)
    BY <1>3, <2>1, <2>2 DEF Goto, Step, ProcOK
  <2> QED BY <1>1, <2>2, <2>3, ProcMoves
<1> QED
  BY <1>1, <1>2, <1>3

LEMMA LoadStep ==
    ASSUME JournalInv, NEW p \in JProcs, JLoad(p)
    PROVE  JournalInv'
<1>1. /\ Acquires(p) /\ SameFile(p) /\ LoadOk(jfile[jactive]) /\ Records_(p) = jfile[jactive]
      /\ diskSame /\ historySame /\ UNCHANGED jclock /\ jleft' \in [JBounded -> Nat]
      /\ jproc[p] \in JState /\ jproc[p].scope \in Scopes
  <2>1. jproc[p].pc = "lock"
    BY DEF JLoad, Loads, Acquires
  <2>2. jproc[p].scope \in Scopes
    BY <2>1 DEF JournalInv, ProcsOK, ProcOK
  <2> QED BY <2>2, RestSame, JournalTypes DEF JLoad, Loads, SameFile, Records_, JournalInv
<1>2. /\ \A o \in JProcs : ~jproc[o].locked
      /\ jactive \in Files /\ jactive # NoFile /\ jproc[p].fd = jactive
  BY <1>1, LockIsFree
<1>3. jfile[jactive] \in Seq(Records) /\ NoTorn(jfile[jactive])
  BY <1>1, <1>2, LoadedIsWhole, JournalTypes DEF JournalInv
<1>4. CASE /\ Records_(p) = <<>>
           /\ Step(p, [jproc[p] EXCEPT !.pc = "write", !.locked = TRUE,
                                       !.rec = JHeader(jproc[p].scope)])
  <2>1. PICK q : q = [jproc[p] EXCEPT !.pc = "write", !.locked = TRUE,
                                      !.rec = JHeader(jproc[p].scope)]
    OBVIOUS
  <2>3. JHeader(jproc[p].scope) \in Records /\ JHeader(jproc[p].scope).ev = "header"
    BY <1>1 DEF JHeader, JRec, Records
  <2>4. /\ q \in JState /\ q.pc = "write" /\ q.locked /\ q.rec.ev = "header"
        /\ q.fd = jactive /\ q.scope \in Scopes
    BY <1>1, <1>2, <2>1, <2>3 DEF JState
  <2>5. BusyOK(q, jfile[jactive])
    BY <1>1, <1>3, <1>4, <2>4 DEF BusyOK, Fits
  <2>6. ProcOK(q) /\ jproc' = [jproc EXCEPT ![p] = q]
    BY <1>2, <1>4, <2>1, <2>4, <2>5 DEF ProcOK, Step
  <2> QED BY <1>1, <1>2, <2>4, <2>6, ProcMoves
<1>5. CASE /\ Records_(p) # <<>>
           /\ Step(p, [jproc[p] EXCEPT !.pc = "start", !.locked = TRUE])
  <2>1. PICK q : q = [jproc[p] EXCEPT !.pc = "start", !.locked = TRUE]
    OBVIOUS
  <2>2. q \in JState /\ q.pc = "start" /\ q.locked /\ q.fd = jactive /\ q.scope \in Scopes
    BY <1>1, <1>2, <2>1 DEF JState
  <2>3. BusyOK(q, jfile[jactive])
    BY <1>1, <1>3, <1>5, <2>2 DEF BusyOK
  <2>4. ProcOK(q) /\ jproc' = [jproc EXCEPT ![p] = q]
    BY <1>2, <1>5, <2>1, <2>2, <2>3 DEF ProcOK, Step
  <2> QED BY <1>1, <1>2, <2>2, <2>4, ProcMoves
<1>6. CASE Step(p, [jproc[p] EXCEPT !.pc = "open", !.stage = 2, !.fd = NoFile])
  <2>1. PICK q : q = [jproc[p] EXCEPT !.pc = "open", !.stage = 2, !.fd = NoFile]
    OBVIOUS
  <2>2. q \in JState /\ q.pc = "open" /\ q.locked = jproc[p].locked /\ q.scope \in Scopes
    <3>1. 2 \in 0 .. 3
      OBVIOUS
    <3> QED BY <1>1, <2>1, <3>1 DEF JState
  <2>3. ~q.locked
    BY <1>2, <2>2
  <2>4. ProcOK(q) /\ jproc' = [jproc EXCEPT ![p] = q]
    BY <1>6, <2>1, <2>2, <2>3 DEF ProcOK, Step
  <2> QED BY <1>1, <2>2, <2>3, <2>4, ProcMoves
<1>7. CASE Return(p)
  BY <1>1, <1>7, Returns
<1> QED
  BY <1>4, <1>5, <1>6, <1>7 DEF JLoad

LEMMA ReturnSteps ==
    ASSUME JournalInv, NEW p \in JProcs,
           JLoadFails(p) \/ JFull(p) \/ JSyncFails(p) \/ JProcessStops(p)
    PROVE  JournalInv'
<1>1. "faults" \in JBounded
  BY DEF JBounded
<1>2. /\ Return(p) /\ diskSame
      /\ restSame \/ (historySame /\ UNCHANGED jclock /\ JSpend("faults"))
  BY DEF JLoadFails, JFull, JSyncFails, JProcessStops
<1>3. historySame /\ UNCHANGED jclock /\ jleft' \in [JBounded -> Nat]
  BY <1>1, <1>2, RestSame, JSpends DEF JournalInv
<1> QED
  BY <1>2, <1>3, Returns

LEMMA TickStep ==
    ASSUME JournalInv, JTick
    PROVE  JournalInv'
<1>1. /\ JSpend("ticks") /\ jclock' = jclock + 1
      /\ UNCHANGED <<jfile, jdirty, jactive, jretired, jproc, jkept, jsent, jbare, jdone>>
  BY DEF JTick, diskSame, historySame
<1>2. jleft' \in [JBounded -> Nat]
  BY <1>1, JSpends DEF JournalInv, JBounded
<1>3. jclock \in Nat
  BY DEF JournalInv, JournalTypeOK
<1>4. JournalTypeOK'
  BY <1>1, <1>2, <1>3 DEF JournalInv, JournalTypeOK
<1>5. FilesOK' /\ PathOK' /\ KeptOK' /\ SentOK' /\ DoneOK' /\ SentIsDone' /\ OneLock'
  BY <1>1 DEF JournalInv, FilesOK, PathOK, KeptOK, SentOK, Synced_, SyncedPart, DoneOK,
              SentIsDone, OneLock
<1>6. ProcsOK'
  BY <1>1 DEF JournalInv, ProcsOK, ProcOK
<1>7. RetiredOwesNothing'
  <2>1. \A x \in 1 .. jclock : x \in 1 .. jclock'
    BY <1>1, <1>3
  <2> QED BY <1>1, <2>1 DEF JournalInv, RetiredOwesNothing
<1> QED
  BY <1>4, <1>5, <1>6, <1>7 DEF JournalInv

-----------------------------------------------------------------------------
(* append.                                                                 *)

(* What writing a record to the file at the path leaves as it is.          *)
LEMMA RecordWritten ==
    ASSUME JournalInv, NEW p \in JProcs, jproc[p].pc = "write", NEW rec \in Records,
           jfile' = [jfile EXCEPT ![jactive] = Append(@, rec)],
           jdirty' = [jdirty EXCEPT ![jactive] = @ + 1],
           UNCHANGED <<jactive, jretired, jkept, jsent, jbare, jclock>>,
           FileOK(Append(jfile[jactive], rec))
    PROVE  /\ jfile' \in [Files -> Seq(Records)] /\ jdirty' \in [Files -> Nat]
           /\ jfile'[jactive] = Append(jfile[jactive], rec)
           /\ \A f \in Files : f # jactive => jfile'[f] = jfile[f]
           /\ FilesOK' /\ PathOK' /\ KeptOK' /\ SentOK'
<1>1. /\ jactive \in Files /\ jfile[jactive] \in Seq(Records)
      /\ jdirty[jactive] \in Nat /\ jdirty[jactive] <= Len(jfile[jactive])
  BY AtWork
<1>2. jfile \in [Files -> Seq(Records)] /\ jdirty \in [Files -> Nat]
  BY DEF JournalInv, JournalTypeOK
<1>3. PICK r \in Seq(Records), d \in Nat : r = jfile[jactive] /\ d = jdirty[jactive]
  BY <1>1
<1>4. PICK s \in Seq(Records) : /\ s = Append(r, rec) /\ Len(s) = Len(r) + 1 /\ Len(r) \in Nat
                                /\ \A i \in 1 .. Len(r) : s[i] = r[i]
  BY AppendedIs
<1>5. /\ jfile' = [jfile EXCEPT ![jactive] = s] /\ jdirty' = [jdirty EXCEPT ![jactive] = d + 1]
  BY <1>3, <1>4
<1>6. /\ jfile' \in [Files -> Seq(Records)] /\ jdirty' \in [Files -> Nat]
      /\ jfile'[jactive] = s /\ jdirty'[jactive] = d + 1
      /\ \A f \in Files : f # jactive => jfile'[f] = jfile[f] /\ jdirty'[f] = jdirty[f]
  <2>1. d + 1 \in Nat
    OBVIOUS
  <2> HIDE DEF Records
  <2> QED BY <1>1, <1>2, <1>5, <2>1
<1>7. d + 1 <= Len(s) /\ d <= Len(r) /\ Len(s) - (d + 1) = Len(r) - d
  BY <1>1, <1>3, <1>4
<1>8. FilesOK'
  <2> SUFFICES ASSUME NEW f \in Files
               PROVE  FileOK(jfile'[f]) /\ jdirty'[f] <= Len(jfile'[f])
    BY DEF FilesOK, FileOK, RecOK
  <2>1. CASE f = jactive
    BY <1>3, <1>4, <1>6, <1>7, <2>1
  <2>2. CASE f # jactive
    BY <1>6, <2>2 DEF JournalInv, FilesOK
  <2> QED BY <2>1, <2>2
<1>9. \A f \in Files : \A e : Synced_(f, e) \subseteq Synced_(f, e)'
  <2> SUFFICES ASSUME NEW f \in Files, NEW e PROVE Synced_(f, e) \subseteq Synced_(f, e)'
    OBVIOUS
  <2>1. CASE f = jactive
    <3>1. /\ jfile[f] \in Seq(Records) /\ jdirty[f] \in Nat /\ jdirty[f] <= Len(jfile[f])
          /\ s = jfile'[f] /\ d + 1 = jdirty'[f] /\ d + 1 \in Nat /\ d + 1 <= Len(s)
          /\ Len(jfile[f]) - jdirty[f] <= Len(s) - (d + 1)
      BY <1>1, <1>3, <1>4, <1>6, <1>7, <2>1
    <3>2. \A i \in 1 .. Len(r) - d : s[i] = r[i]
      BY <1>4, <1>7
    <3>3. \A i \in 1 .. Len(jfile[f]) - jdirty[f] : s[i] = jfile[f][i]
      BY <1>3, <2>1, <3>2
    <3> QED BY <3>1, <3>3, SyncedStays
  <2>2. CASE f # jactive
    BY <1>6, <2>2 DEF Synced_, SyncedPart
  <2> QED BY <2>1, <2>2
<1>10. PathOK'
  BY DEF JournalInv, PathOK
<1>11. KeptOK' /\ SentOK'
  <2>1. \A id \in jkept \cup jsent : id[1] \in Files
    BY DEF JournalInv, JournalTypeOK
  <2>2. KeptOK'
    BY <1>9, <2>1 DEF JournalInv, KeptOK
  <2>3. SentOK'
    BY <1>9, <2>1 DEF JournalInv, SentOK
  <2> QED BY <2>2, <2>3
<1> QED
  BY <1>3, <1>4, <1>6, <1>8, <1>10, <1>11

LEMMA TornStep ==
    ASSUME JournalInv, NEW p \in JProcs, JTornWrite(p)
    PROVE  JournalInv'
<1>1. /\ jproc[p].pc = "write" /\ HasRoom(p) /\ JSpend("faults") /\ Return(p)
      /\ jproc[p].fd = jactive
      /\ UNCHANGED <<jactive, jretired, jkept, jsent, jbare, jdone, jclock>>
  BY DEF JTornWrite, historySame, SameFile
<1>2. /\ jfile' = [jfile EXCEPT ![jactive] = Append(@, JTorn)]
      /\ jdirty' = [jdirty EXCEPT ![jactive] = @ + 1]
  BY <1>1 DEF JTornWrite
<1>3. /\ jactive \in Files /\ jactive \notin jretired /\ jfile[jactive] \in Seq(Records)
      /\ FileOK(jfile[jactive]) /\ BusyOK(jproc[p], jfile[jactive])
      /\ \A o \in JProcs : o # p => ~jproc[o].locked
  BY <1>1, AtWork
<1>4. PICK r \in Seq(Records) : r = jfile[jactive]
  BY <1>3
<1>5. /\ Append(r, JTorn) \in Seq(Records) /\ Len(Append(r, JTorn)) = Len(r) + 1
      /\ Len(r) \in Nat
      /\ \A i \in 1 .. Len(r) : Append(r, JTorn)[i] = r[i]
      /\ Append(r, JTorn)[Len(r) + 1] = JTorn
  BY TornIsRecord, AppendedIs
<1>6. FileOK(Append(jfile[jactive], JTorn))
  <2>1. NoTorn(r) /\ FileOK(r) /\ Len(r) < JournalLimit
    BY <1>1, <1>3, <1>4 DEF BusyOK, HasRoom, Records_
  <2>2. FileOK(Append(r, JTorn))
    <3>1. PICK s \in Seq(Records), k \in Nat : s = Append(r, JTorn) /\ k = Len(r)
      BY <1>5
    <3>2. /\ k <= Len(r) /\ k < JournalLimit /\ Len(s) = k + 1
          /\ (\A i \in 1 .. k : s[i] = r[i]) /\ s[k + 1] = JTorn
      BY <1>5, <2>1, <3>1
    <3>3. FileOK(s)
      BY <2>1, <3>2, AppendTornKeeps
    <3> QED BY <3>1, <3>3
  <2> QED BY <1>4, <2>2
<1>7. /\ jfile' \in [Files -> Seq(Records)] /\ jdirty' \in [Files -> Nat]
      /\ jfile'[jactive] = Append(jfile[jactive], JTorn)
      /\ \A f \in Files : f # jactive => jfile'[f] = jfile[f]
      /\ FilesOK' /\ PathOK' /\ KeptOK' /\ SentOK'
  BY <1>1, <1>2, <1>6, TornIsRecord, RecordWritten
<1>8. jleft' \in [JBounded -> Nat]
  BY <1>1, JSpends DEF JournalInv, JBounded
<1>9. /\ jproc' \in [JProcs -> JState] /\ jproc'[p] = JIdle
      /\ \A o \in JProcs : o # p => jproc'[o] = jproc[o]
  BY <1>1, IdleIs DEF JournalInv, JournalTypeOK, Return, Step
<1>10. JournalTypeOK'
  BY <1>1, <1>7, <1>8, <1>9 DEF JournalInv, JournalTypeOK
<1>11. \A o \in JProcs : ~jproc'[o].locked
  BY <1>3, <1>9, IdleIs
<1>12. ProcsOK' /\ OneLock'
  <2>1. ASSUME NEW o \in JProcs PROVE ProcOK(jproc[o])'
    <3>1. CASE o = p
      BY <1>9, <3>1, IdleIs DEF ProcOK
    <3>2. CASE o # p
      <4>1. ProcOK(jproc[o]) /\ ~jproc[o].locked /\ jproc'[o] = jproc[o]
        BY <1>3, <1>9, <3>2 DEF JournalInv, ProcsOK
      <4> QED BY <4>1 DEF ProcOK
    <3> QED BY <3>1, <3>2
  <2> QED BY <1>11, <2>1 DEF ProcsOK, OneLock
<1>13. DoneOK'
  <2> SUFFICES ASSUME NEW f \in Files, NEW n \in At(jfile'[f], Len(jfile'[f]), "settled")
               PROVE  <<f, n>> \in jdone
    BY <1>1 DEF DoneOK
  <2>1. CASE f = jactive
    <3>1. PICK s, k : s = Append(r, JTorn) /\ k = Len(r) /\ k \in Nat /\ Len(s) = k + 1
      BY <1>5
    <3>2. s[k + 1].ev # "settled"
      BY <1>5, <3>1, TornIsRecord
    <3>3. At(s, k + 1, "settled") = At(s, k, "settled")
      BY <3>1, <3>2, AtNext
    <3>4. At(s, k, "settled") = At(r, k, "settled")
      <4>1. \A i \in 1 .. k : s[i] = r[i]
        BY <1>5, <3>1
      <4> QED BY <4>1, AtSame
    <3>5. n \in At(r, Len(r), "settled")
      BY <1>4, <1>7, <2>1, <3>1, <3>3, <3>4
    <3> QED BY <1>4, <2>1, <3>5 DEF JournalInv, DoneOK
  <2>2. CASE f # jactive
    BY <1>7, <2>2 DEF JournalInv, DoneOK
  <2> QED BY <2>1, <2>2
<1>14. SentIsDone'
  BY <1>1 DEF JournalInv, SentIsDone
<1>15. RetiredOwesNothing'
  <2> SUFFICES ASSUME NEW id \in jkept, id[1] \in jretired, id \notin jdone
               PROVE  QueuedRec(jfile'[id[1]], id[2]).exp \in 1 .. jclock
    BY <1>1 DEF RetiredOwesNothing, QueuedRec
  <2>1. id[1] \in Files /\ id[1] # jactive
    BY <1>3 DEF JournalInv, JournalTypeOK
  <2> QED BY <1>7, <2>1 DEF JournalInv, RetiredOwesNothing
<1> QED
  BY <1>7, <1>10, <1>12, <1>13, <1>14, <1>15 DEF JournalInv

(* The others keep their state, and have no lock, when the file changes.   *)
LEMMA OneWorks ==
    ASSUME JournalInv, NEW p \in JProcs, NEW q \in JState,
           jproc' = [jproc EXCEPT ![p] = q],
           \A o \in JProcs : o # p => ~jproc[o].locked, ProcOK(q)'
    PROVE  ProcsOK' /\ OneLock' /\ jproc' \in [JProcs -> JState]
<1>1. /\ jproc' \in [JProcs -> JState] /\ jproc'[p] = q
      /\ \A o \in JProcs : o # p => jproc'[o] = jproc[o]
  BY DEF JournalInv, JournalTypeOK
<1>2. ASSUME NEW o \in JProcs PROVE ProcOK(jproc[o])'
  <2>1. CASE o = p
    <3>1. jproc'[o] = q
      BY <1>1, <2>1
    <3> QED BY <3>1 DEF ProcOK
  <2>2. CASE o # p
    <3>1. ProcOK(jproc[o]) /\ ~jproc[o].locked /\ jproc'[o] = jproc[o]
      BY <1>1, <2>2 DEF JournalInv, ProcsOK
    <3> QED BY <3>1 DEF ProcOK
  <2> QED BY <2>1, <2>2
<1>3. OneLock'
  BY <1>1 DEF OneLock
<1> QED
  BY <1>1, <1>2, <1>3 DEF ProcsOK

LEMMA WriteStep ==
    ASSUME JournalInv, NEW p \in JProcs, JWrite(p)
    PROVE  JournalInv'
<1>1. /\ jproc[p].pc = "write" /\ HasRoom(p) /\ jproc[p].fd = jactive /\ Goto(p, "sync")
      /\ UNCHANGED <<jactive, jretired, jkept, jsent, jbare, jclock, jleft>>
  BY DEF JWrite, SameFile
<1>2. PICK w \in JState : w = jproc[p]
  BY JournalTypes DEF JournalInv
<1>3. PICK rec \in Records : rec = w.rec
  BY <1>2 DEF JState
<1>4. /\ jfile' = [jfile EXCEPT ![jactive] = Append(@, rec)]
      /\ jdirty' = [jdirty EXCEPT ![jactive] = @ + 1]
      /\ jdone' = CASE rec.ev = "settled" -> jdone \cup {<<jactive, rec.n>>}
                    [] rec.ev = "queued" -> jdone \ {<<jactive, rec.n>>}
                    [] OTHER -> jdone
  BY <1>1, <1>2, <1>3 DEF JWrite
<1>5. /\ jactive \in Files /\ jactive \notin jretired /\ jactive # NoFile
      /\ jfile[jactive] \in Seq(Records)
      /\ FileOK(jfile[jactive]) /\ BusyOK(w, jfile[jactive]) /\ w.fd = jactive /\ w.locked
      /\ \A o \in JProcs : o # p => ~jproc[o].locked
  BY <1>1, <1>2, AtWork
<1>6. PICK r \in Seq(Records) : r = jfile[jactive]
  BY <1>5
<1>7. NoTorn(r) /\ FileOK(r) /\ Len(r) < JournalLimit /\ Fits(r, rec, w.todo)
  BY <1>1, <1>2, <1>3, <1>5, <1>6 DEF BusyOK, HasRoom, Records_
<1>8. PICK s \in Seq(Records), k \in Nat :
          /\ s = Append(r, rec) /\ k = Len(r) /\ Len(s) = k + 1 /\ s[k + 1] = rec
          /\ \A e : At(s, k, e) = At(r, k, e)
  BY AppendedIs
<1>9. FileOK(s) /\ NoTorn(s) /\ s # <<>> /\ Written(s, rec, w.todo)
  BY <1>7, <1>8, AppendKeepsFile
<1>10. /\ jfile' \in [Files -> Seq(Records)] /\ jdirty' \in [Files -> Nat]
       /\ jfile'[jactive] = s
       /\ \A f \in Files : f # jactive => jfile'[f] = jfile[f]
       /\ FilesOK' /\ PathOK' /\ KeptOK' /\ SentOK'
  BY <1>1, <1>4, <1>6, <1>8, <1>9, RecordWritten
<1>11. PICK q : q = [w EXCEPT !.pc = "sync"]
  OBVIOUS
<1>12. /\ q \in JState /\ q.pc = "sync" /\ q.locked /\ q.fd = jactive /\ q.rec = rec
       /\ q.todo = w.todo /\ q.scope = w.scope
  BY <1>3, <1>5, <1>11 DEF JState
<1>13. jproc' = [jproc EXCEPT ![p] = q] /\ w.scope \in Scopes
  BY <1>1, <1>2, <1>11 DEF Goto, Step, JournalInv, ProcsOK, ProcOK
<1>14. ProcOK(q)'
  <2>1. BusyOK(q, s)
    BY <1>9, <1>12 DEF BusyOK
  <2>2. jactive' = jactive /\ jfile'[jactive'] = s
    BY <1>1, <1>10
  <2> HIDE DEF BusyOK
  <2>3. q.fd = jactive' /\ jactive' # NoFile /\ BusyOK(q, jfile'[jactive'])
    BY <1>5, <1>12, <2>1, <2>2
  <2> QED BY <1>12, <1>13, <2>3 DEF ProcOK, BusyOK
<1>15. ProcsOK' /\ OneLock' /\ jproc' \in [JProcs -> JState]
  BY <1>5, <1>12, <1>13, <1>14, OneWorks
<1>16. /\ \A n \in At(s, Len(s), "settled") : <<jactive, n>> \in jdone'
       /\ jdone' \subseteq Files \X Requests
       /\ \A id \in Files \X Requests : id[1] # jactive => (id \in jdone <=> id \in jdone')
  <2>1. \A n \in At(r, k, "settled") : <<jactive, n>> \in jdone
    BY <1>5, <1>6, <1>8 DEF JournalInv, DoneOK
  <2>2. jdone \subseteq Files \X Requests
    BY DEF JournalInv, JournalTypeOK
  <2>3. At(s, k, "settled") = At(r, k, "settled") /\ At(s, Len(s), "settled") \subseteq Requests
    BY <1>8, <1>9, RequestNumbers
  <2>4. CASE rec.ev = "settled"
    <3>1. jdone' = jdone \cup {<<jactive, rec.n>>}
      BY <1>4, <2>4
    <3>2. At(s, k + 1, "settled") = At(s, k, "settled") \cup {rec.n}
      <4>1. s[k + 1].ev = "settled" /\ s[k + 1].n = rec.n
        BY <1>8, <2>4
      <4> QED BY <4>1, AtNext
    <3> QED BY <1>5, <1>8, <2>1, <2>2, <2>3, <3>1, <3>2
  <2>5. CASE rec.ev = "queued"
    <3>1. jdone' = jdone \ {<<jactive, rec.n>>}
      BY <1>4, <2>5
    <3>2. At(s, k + 1, "settled") = At(s, k, "settled")
      BY <1>8, <2>5, AtNext
    <3>3. PICK c \in Nat : c = Cardinality(At(r, Len(r), "queued")) /\ rec.n = c + 1
      BY <1>7, <1>8, <2>5, AtIsFinite DEF Fits
    <3>4. k \in 0 .. Len(r)
      BY <1>8
    <3>5. At(r, k, "settled") \subseteq 1 .. c
      BY <1>7, <1>8, <3>3, <3>4, QueuedAre, OnlyQueued
    <3>6. rec.n \notin At(r, k, "settled")
      BY <3>3, <3>5
    <3> QED BY <1>5, <1>8, <2>1, <2>2, <2>3, <3>1, <3>2, <3>6
  <2>6. CASE rec.ev \notin {"settled", "queued"}
    <3>1. jdone' = jdone
      BY <1>4, <2>6
    <3>2. At(s, k + 1, "settled") = At(s, k, "settled")
      <4>1. s[k + 1].ev # "settled"
        BY <1>8, <2>6
      <4> QED BY <4>1, AtNext
    <3> QED BY <1>8, <2>1, <2>2, <2>3, <3>1, <3>2
  <2> QED BY <2>4, <2>5, <2>6
<1>17. JournalTypeOK'
  BY <1>1, <1>10, <1>15, <1>16 DEF JournalInv, JournalTypeOK
<1>18. DoneOK'
  <2> SUFFICES ASSUME NEW f \in Files, NEW n \in At(jfile'[f], Len(jfile'[f]), "settled")
               PROVE  <<f, n>> \in jdone'
    BY DEF DoneOK
  <2>1. CASE f = jactive
    BY <1>10, <1>16, <2>1
  <2>2. CASE f # jactive
    <3>1. <<f, n>> \in jdone /\ jdone \subseteq Files \X Requests
      BY <1>10, <2>2 DEF JournalInv, DoneOK, JournalTypeOK
    <3> QED BY <1>16, <2>2, <3>1
  <2> QED BY <2>1, <2>2
<1>19. \A id \in jkept \cup jsent : id \in Files \X Requests
  BY DEF JournalInv, JournalTypeOK
<1>20. SentIsDone'
  <2> SUFFICES ASSUME NEW id \in jsent \ jbare, id[1] \in jretired PROVE id \in jdone'
    BY <1>1 DEF SentIsDone
  <2> QED BY <1>5, <1>16, <1>19 DEF JournalInv, SentIsDone
<1>21. RetiredOwesNothing'
  <2> SUFFICES ASSUME NEW id \in jkept, id[1] \in jretired, id \notin jdone'
               PROVE  QueuedRec(jfile'[id[1]], id[2]).exp \in 1 .. jclock
    BY <1>1 DEF RetiredOwesNothing, QueuedRec
  <2>1. id[1] \in Files /\ id[1] # jactive /\ id \notin jdone
    BY <1>5, <1>16, <1>19
  <2> QED BY <1>10, <2>1 DEF JournalInv, RetiredOwesNothing
<1> QED
  BY <1>10, <1>15, <1>17, <1>18, <1>20, <1>21 DEF JournalInv

(* What a sync of the file at the path does to what was on disk.           *)
LEMMA FileSynced ==
    ASSUME JournalInv, NEW a \in Files, jfile' = jfile, jdirty' = [jdirty EXCEPT ![a] = 0]
    PROVE  /\ jdirty' \in [Files -> Nat] /\ FilesOK'
           /\ \A f \in Files : \A e : Synced_(f, e) \subseteq Synced_(f, e)'
           /\ \A e : Synced_(a, e)' = At(jfile[a], Len(jfile[a]), e)
<1>1. jdirty \in [Files -> Nat]
  BY DEF JournalInv, JournalTypeOK
<1>2. /\ jdirty' \in [Files -> Nat] /\ jdirty'[a] = 0
      /\ \A f \in Files : f # a => jdirty'[f] = jdirty[f]
  BY <1>1
<1>3. ASSUME NEW f \in Files
      PROVE  /\ jfile[f] \in Seq(Records) /\ jdirty[f] \in Nat /\ jdirty[f] <= Len(jfile[f])
             /\ FileOK(jfile[f]) /\ Len(jfile[f]) \in Nat
  BY JournalTypes DEF JournalInv, FilesOK
<1>4. FilesOK'
  <2> SUFFICES ASSUME NEW f \in Files
               PROVE  FileOK(jfile[f]) /\ jdirty'[f] <= Len(jfile[f])
    BY DEF FilesOK, FileOK, RecOK
  <2> QED BY <1>2, <1>3
<1>5. ASSUME NEW f \in Files, NEW e
      PROVE  /\ Synced_(f, e) \subseteq Synced_(f, e)'
             /\ f = a => Synced_(f, e)' = At(jfile[f], Len(jfile[f]), e)
  <2>1. PICK r \in Seq(Records), d \in Nat :
            /\ r = jfile[f] /\ d = jdirty'[f] /\ d <= Len(r) /\ Len(r) \in Nat
            /\ d <= jdirty[f] /\ (f = a => d = 0)
    BY <1>2, <1>3
  <2>2. /\ Len(jfile[f]) - jdirty[f] <= Len(r) - d /\ r = jfile'[f]
        /\ \A i \in 1 .. Len(jfile[f]) - jdirty[f] : r[i] = jfile[f][i]
        /\ jfile[f] \in Seq(Records) /\ jdirty[f] \in Nat /\ jdirty[f] <= Len(jfile[f])
    BY <1>3, <2>1
  <2>3. Synced_(f, e) \subseteq Synced_(f, e)' /\ Synced_(f, e)' = At(r, Len(r) - d, e)
    BY <2>1, <2>2, SyncedStays
  <2>4. f = a => Len(r) - d = Len(r)
    BY <2>1
  <2> QED BY <2>1, <2>3, <2>4
<1> QED
  BY <1>2, <1>4, <1>5

LEMMA SyncStep ==
    ASSUME JournalInv, NEW p \in JProcs, JSync(p)
    PROVE  JournalInv'
<1>1. PICK w \in JState : w = jproc[p]
  BY JournalTypes DEF JournalInv
<1>2. /\ w.pc = "sync" /\ Synced(p)
      /\ UNCHANGED <<jfile, jactive, jretired, jclock, jsent, jdone, jleft>>
  BY <1>1 DEF JSync
<1>3. /\ jactive \in Files /\ jactive \notin jretired /\ jactive # NoFile
      /\ jfile[jactive] \in Seq(Records)
      /\ FileOK(jfile[jactive]) /\ BusyOK(w, jfile[jactive]) /\ w.fd = jactive /\ w.locked
      /\ \A o \in JProcs : o # p => ~jproc[o].locked
  BY <1>1, <1>2, AtWork
<1>4. PICK r \in Seq(Records), rec \in Records, a \in Files :
          r = jfile[jactive] /\ rec = w.rec /\ a = jactive
  BY <1>1, <1>3 DEF JState
<1>5. PICK todo \in SUBSET Requests : todo = w.todo
  BY <1>1 DEF JState
<1>6. /\ NoTorn(r) /\ r # <<>> /\ Written(r, rec, todo) /\ FileOK(r)
  BY <1>2, <1>3, <1>4, <1>5 DEF BusyOK
<1>7. /\ jdirty' \in [Files -> Nat] /\ FilesOK'
      /\ \A f \in Files : \A e : Synced_(f, e) \subseteq Synced_(f, e)'
      /\ \A e : Synced_(a, e)' = At(r, Len(r), e)
  <2>1. jdirty' = [jdirty EXCEPT ![a] = 0]
    BY <1>1, <1>2, <1>3, <1>4 DEF Synced
  <2> QED BY <1>2, <1>3, <1>4, <2>1, FileSynced
<1>8. jbare' = jbare \ {<<jactive, n>> : n \in JAttempted(r)}
  BY <1>1, <1>3, <1>4 DEF JSync
<1>9. rec.n \in At(r, Len(r), rec.ev)
  <2>1. Len(r) \in 1 .. Len(r) /\ r[Len(r)] = rec
    BY <1>6 DEF Written
  <2> QED BY <2>1 DEF At
<1>10. /\ jkept' \subseteq jkept \cup {<<jactive, rec.n>>}
       /\ jkept' # jkept => rec.ev = "queued"
  BY <1>1, <1>3, <1>4 DEF JSync
<1>11. \A id \in jkept' : id \in jkept \/ (id = <<jactive, rec.n>> /\ rec.ev = "queued")
  BY <1>10
<1>12. JPending(r) \subseteq Requests
  <2>1. At(r, Len(r), "queued") \subseteq Requests
    BY <1>6, RequestNumbers
  <2> QED BY <2>1 DEF JPending, PendingAt
<1>13. PICK q \in JState : jproc' = [jproc EXCEPT ![p] = q] /\ ProcOK(q)'
  <2>1. /\ w.scope \in Scopes /\ JTorn \in Records
    BY <1>1, <1>2, TornIsRecord DEF JournalInv, ProcsOK, ProcOK
  <2>2. ASSUME NEW q \in JState, BusyOK(q, r), q.fd = jactive, q.locked, q.scope = w.scope,
               q.pc \in {"start", "next", "call"}
        PROVE  ProcOK(q)'
    <3>1. q.fd = jactive' /\ jactive' # NoFile /\ jfile'[jactive'] = r
      BY <1>2, <1>3, <1>4, <2>2
    <3> QED BY <2>1, <2>2, <3>1 DEF ProcOK, BusyOK
  <2>3. CASE rec.ev = "header" /\ Goto(p, "start")
    <3>1. PICK q : q = [w EXCEPT !.pc = "start"]
      OBVIOUS
    <3>2. q \in JState /\ q.pc = "start" /\ q.fd = jactive /\ q.locked /\ q.scope = w.scope
      BY <1>3, <3>1 DEF JState
    <3>3. BusyOK(q, r)
      BY <1>6, <3>2 DEF BusyOK
    <3>4. jproc' = [jproc EXCEPT ![p] = q]
      BY <1>1, <2>3, <3>1 DEF Goto, Step
    <3> QED BY <2>2, <3>2, <3>3, <3>4
  <2>4. CASE rec.ev = "queued" /\ StartPass(p)
    <3>1. PICK t \in SUBSET Requests : t = PassOf(r) /\ t \subseteq JPending(r)
      BY <1>12 DEF PassOf
    <3>2. PICK q : q = [w EXCEPT !.pc = "next", !.todo = t, !.rec = JTorn]
      OBVIOUS
    <3>3. /\ q \in JState /\ q.pc = "next" /\ q.fd = jactive /\ q.locked
          /\ q.scope = w.scope /\ q.todo = t
      BY <1>3, <2>1, <3>2 DEF JState
    <3>4. BusyOK(q, r)
      BY <1>6, <3>1, <3>3 DEF BusyOK
    <3>5. jproc' = [jproc EXCEPT ![p] = q]
      BY <1>1, <1>3, <1>4, <2>4, <3>1, <3>2 DEF StartPass, Step, Records_
    <3> QED BY <2>2, <3>3, <3>4, <3>5
  <2>5. CASE rec.ev = "attempted" /\ Goto(p, "call")
    <3>1. PICK q : q = [w EXCEPT !.pc = "call"]
      OBVIOUS
    <3>2. /\ q \in JState /\ q.pc = "call" /\ q.fd = jactive /\ q.locked
          /\ q.scope = w.scope /\ q.todo = todo
      BY <1>3, <1>5, <3>1 DEF JState
    <3>3. todo \subseteq JPending(r) /\ Heads(rec.n, todo)
      BY <1>6, <2>5 DEF Written
    <3>4. rec.n \in JAttempted(r)
      BY <1>9, <2>5, <3>3 DEF JAttempted, JPending, PendingAt, Heads
    <3>5. BusyOK(q, r)
      BY <1>6, <3>2, <3>3, <3>4 DEF BusyOK
    <3>6. jproc' = [jproc EXCEPT ![p] = q]
      BY <1>1, <2>5, <3>1 DEF Goto, Step
    <3> QED BY <2>2, <3>2, <3>5, <3>6
  <2>6. CASE Return(p)
    <3>1. ProcOK(JIdle)'
      BY IdleIs DEF ProcOK
    <3> QED BY <2>6, <3>1, IdleIs DEF Return, Step
  <2>7. CASE /\ rec.ev = "settled"
             /\ Step(p, [w EXCEPT !.pc = "next", !.rec = JTorn, !.todo = @ \ {rec.n}])
    <3>1. PICK t \in SUBSET Requests : t = todo \ {rec.n} /\ t \subseteq JPending(r)
      BY <1>6, <2>7 DEF Written
    <3>2. PICK q : q = [w EXCEPT !.pc = "next", !.rec = JTorn, !.todo = t]
      OBVIOUS
    <3>3. /\ q \in JState /\ q.pc = "next" /\ q.fd = jactive /\ q.locked
          /\ q.scope = w.scope /\ q.todo = t
      BY <1>3, <2>1, <3>2 DEF JState
    <3>4. BusyOK(q, r)
      BY <1>6, <3>1, <3>3 DEF BusyOK
    <3>5. jproc' = [jproc EXCEPT ![p] = q]
      BY <1>5, <2>7, <3>1, <3>2 DEF Step
    <3> QED BY <2>2, <3>3, <3>4, <3>5
  <2> QED BY <1>1, <1>4, <2>3, <2>4, <2>5, <2>6, <2>7 DEF JSync
<1>14. ProcsOK' /\ OneLock' /\ jproc' \in [JProcs -> JState]
  BY <1>3, <1>13, OneWorks
<1>15. jkept' \subseteq Files \X Requests
  <2>1. rec.ev = "queued" => rec.n \in Requests
    BY <1>6, <1>9, RequestNumbers
  <2> QED BY <1>3, <1>11, <2>1 DEF JournalInv, JournalTypeOK
<1>16. JournalTypeOK'
  BY <1>2, <1>7, <1>8, <1>14, <1>15 DEF JournalInv, JournalTypeOK
<1>17. KeptOK'
  <2> SUFFICES ASSUME NEW id \in jkept' PROVE id[2] \in Synced_(id[1], "queued")'
    BY DEF KeptOK
  <2>1. CASE id \in jkept
    <3>1. id[1] \in Files /\ id[2] \in Synced_(id[1], "queued")
      BY <2>1 DEF JournalInv, KeptOK, JournalTypeOK
    <3> QED BY <1>7, <3>1
  <2>2. CASE id = <<jactive, rec.n>> /\ rec.ev = "queued"
    BY <1>4, <1>7, <1>9, <2>2
  <2> QED BY <1>11, <2>1, <2>2
<1>18. SentOK'
  <2> SUFFICES ASSUME NEW id \in jsent \ jbare' PROVE id[2] \in Synced_(id[1], "attempted")'
    BY <1>2 DEF SentOK
  <2>1. CASE id \notin jbare
    <3>1. id[1] \in Files /\ id[2] \in Synced_(id[1], "attempted")
      BY <2>1 DEF JournalInv, SentOK, JournalTypeOK
    <3> QED BY <1>7, <3>1
  <2>2. CASE id \in jbare
    <3>1. PICK n \in JAttempted(r) : id = <<jactive, n>>
      BY <1>8, <2>2
    <3>2. n \in At(r, Len(r), "attempted")
      BY DEF JAttempted
    <3> QED BY <1>4, <1>7, <3>1, <3>2
  <2> QED BY <2>1, <2>2
<1>19. SentIsDone'
  <2> SUFFICES ASSUME NEW id \in jsent \ jbare', id[1] \in jretired PROVE id \in jdone
    BY <1>2 DEF SentIsDone
  <2>1. id \notin jbare
    BY <1>3, <1>8
  <2> QED BY <2>1 DEF JournalInv, SentIsDone
<1>20. RetiredOwesNothing'
  <2> SUFFICES ASSUME NEW id \in jkept', id[1] \in jretired, id \notin jdone
               PROVE  QueuedRec(jfile[id[1]], id[2]).exp \in 1 .. jclock
    BY <1>2 DEF RetiredOwesNothing, QueuedRec
  <2>1. id \in jkept
    BY <1>3, <1>11
  <2> QED BY <2>1 DEF JournalInv, RetiredOwesNothing
<1>21. PathOK' /\ DoneOK'
  BY <1>2 DEF JournalInv, PathOK, DoneOK
<1> QED
  BY <1>7, <1>14, <1>16, <1>17, <1>18, <1>19, <1>20, <1>21 DEF JournalInv

-----------------------------------------------------------------------------
(* enqueue and flush.                                                      *)

\* A step of a process at work that only chooses what comes next.
LEMMA WorkMoves ==
    ASSUME JournalInv, NEW p \in JProcs, NEW w, w = jproc[p],
           w.pc \in {"start", "write", "sync", "next", "call"},
           diskSame, restSame, NEW q \in JState, jproc' = [jproc EXCEPT ![p] = q],
           q.pc \in {"start", "write", "sync", "next", "call"},
           q.fd = w.fd, q.locked = w.locked, q.scope = w.scope, BusyOK(q, jfile[jactive])
    PROVE  JournalInv'
<1>1. /\ w.locked /\ w.fd = jactive /\ jactive # NoFile
      /\ \A o \in JProcs : o # p => ~jproc[o].locked
  BY AtWork
<1>2. w.scope \in Scopes
  BY DEF JournalInv, ProcsOK, ProcOK
<1>3. ProcOK(q)
  BY <1>1, <1>2 DEF ProcOK
<1> QED
  BY <1>1, <1>3, RestSame, ProcMoves

LEMMA PendingAreRequests ==
    ASSUME NEW r \in Seq(Records), FileOK(r)
    PROVE  JPending(r) \subseteq Requests /\ PassOf(r) \subseteq JPending(r)
<1>1. At(r, Len(r), "queued") \subseteq Requests
  BY RequestNumbers
<1> QED
  BY <1>1 DEF JPending, PendingAt, PassOf

LEMMA StartStep ==
    ASSUME JournalInv, NEW p \in JProcs, JStart(p)
    PROVE  JournalInv'
<1>1. PICK w \in JState : w = jproc[p]
  BY JournalTypes DEF JournalInv
<1>2. w.pc = "start" /\ diskSame /\ restSame
  BY <1>1 DEF JStart
<1>3. /\ jfile[jactive] \in Seq(Records)
      /\ FileOK(jfile[jactive]) /\ BusyOK(w, jfile[jactive]) /\ w.fd = jactive
  BY <1>1, <1>2, AtWork
<1>4. PICK r \in Seq(Records) : r = jfile[jactive] /\ r = Records_(p) /\ NoTorn(r) /\ r # <<>> /\ FileOK(r)
  BY <1>1, <1>2, <1>3 DEF BusyOK, Records_
<1>5. PICK t \in Nat : t = jclock
  BY DEF JournalInv, JournalTypeOK
<1>6. CASE \E k \in RequestKinds :
               Step(p, [w EXCEPT !.pc = "write", !.at = jclock,
                     !.rec = JRec("queued", JNextSeq(p), k, IF k = "send" THEN 0 ELSE jclock + 1)])
  <2>1. PICK k \in RequestKinds :
            Step(p, [w EXCEPT !.pc = "write", !.at = jclock,
                  !.rec = JRec("queued", JNextSeq(p), k, IF k = "send" THEN 0 ELSE jclock + 1)])
    BY <1>6
  <2>2. PICK c \in Nat : c = Cardinality(At(r, Len(r), "queued"))
    <3>1. Len(r) \in Nat
      OBVIOUS
    <3> QED BY <3>1, AtIsFinite
  <2>3. PICK x \in Nat : x = IF k = "send" THEN 0 ELSE t + 1
    OBVIOUS
  <2>4. PICK rec : rec = JRec("queued", c + 1, k, x)
    OBVIOUS
  <2>5. rec \in Records /\ rec.ev = "queued" /\ rec.n = c + 1
    <3>1. k \in JournalKinds /\ c + 1 \in Nat
      BY JournalAssumption
    <3> QED BY <2>4, <3>1 DEF JRec, Records
  <2>6. PICK q : q = [w EXCEPT !.pc = "write", !.at = t, !.rec = rec]
    OBVIOUS
  <2>7. /\ q \in JState /\ q.pc = "write" /\ q.fd = w.fd /\ q.locked = w.locked
        /\ q.scope = w.scope /\ q.rec = rec
    BY <2>5, <2>6 DEF JState
  <2>8. jproc' = [jproc EXCEPT ![p] = q]
    BY <1>4, <1>5, <2>1, <2>2, <2>3, <2>4, <2>6 DEF Step, JNextSeq
  <2>9. BusyOK(q, r)
    BY <1>4, <2>2, <2>5, <2>7 DEF BusyOK, Fits
  <2> QED BY <1>1, <1>2, <1>4, <2>7, <2>8, <2>9, WorkMoves
<1>7. CASE Return(p)
  BY <1>2, <1>7, RestSame, Returns
<1>8. CASE Step(p, [w EXCEPT !.pc = "next", !.at = jclock, !.todo = PassOf(r)])
  <2>1. PICK todo \in SUBSET Requests : todo = PassOf(r) /\ todo \subseteq JPending(r)
    BY <1>4, PendingAreRequests
  <2>2. PICK q : q = [w EXCEPT !.pc = "next", !.at = t, !.todo = todo]
    OBVIOUS
  <2>3. /\ q \in JState /\ q.pc = "next" /\ q.fd = w.fd /\ q.locked = w.locked
        /\ q.scope = w.scope /\ q.todo = todo
    BY <2>2 DEF JState
  <2>4. jproc' = [jproc EXCEPT ![p] = q]
    BY <1>5, <1>8, <2>1, <2>2 DEF Step
  <2>5. BusyOK(q, r)
    BY <1>4, <2>1, <2>3 DEF BusyOK
  <2> QED BY <1>1, <1>2, <1>4, <2>3, <2>4, <2>5, WorkMoves
<1> QED
  BY <1>1, <1>4, <1>6, <1>7, <1>8 DEF JStart

LEMMA NextRequestStep ==
    ASSUME JournalInv, NEW p \in JProcs, JNextRequest(p)
    PROVE  JournalInv'
<1>1. PICK w \in JState : w = jproc[p]
  BY JournalTypes DEF JournalInv
<1>2. w.pc = "next" /\ diskSame /\ restSame
  BY <1>1 DEF JNextRequest
<1>3. /\ jfile[jactive] \in Seq(Records)
      /\ FileOK(jfile[jactive]) /\ BusyOK(w, jfile[jactive]) /\ w.fd = jactive
  BY <1>1, <1>2, AtWork
<1>4. PICK r \in Seq(Records) : r = jfile[jactive] /\ r = Records_(p)
  BY <1>1, <1>3 DEF Records_
<1>5. PICK todo \in SUBSET Requests : todo = w.todo
  BY <1>1 DEF JState
<1>6. NoTorn(r) /\ r # <<>> /\ FileOK(r) /\ todo \subseteq JPending(r)
  BY <1>2, <1>3, <1>4, <1>5 DEF BusyOK
<1>7. CASE Return(p)
  BY <1>2, <1>7, RestSame, Returns
<1>8. ASSUME NEW n \in Requests, JHead(p, n), NEW rec \in Records, AppendThen(p, rec),
             rec.n = n,
             \/ rec.ev = "settled" /\ (rec.of = "expired" => n \notin JAttempted(r))
             \/ rec.ev = "attempted" /\ n \notin JAttempted(r)
      PROVE  JournalInv'
  <2>1. Heads(n, todo)
    BY <1>1, <1>5, <1>8 DEF JHead, Heads
  <2>2. n \in JPending(r)
    BY <1>6, <2>1 DEF Heads
  <2>3. n \notin JAttempted(r) => n \notin At(r, Len(r), "attempted")
    BY <2>2 DEF JAttempted, JPending, PendingAt
  <2>4. Fits(r, rec, todo)
    BY <1>6, <1>8, <2>1, <2>3 DEF Fits, Heads
  <2>5. PICK q : q = [w EXCEPT !.pc = "write", !.rec = rec]
    OBVIOUS
  <2>6. /\ q \in JState /\ q.pc = "write" /\ q.fd = w.fd /\ q.locked = w.locked
        /\ q.scope = w.scope /\ q.todo = todo /\ q.rec = rec
    BY <1>5, <2>5 DEF JState
  <2>7. jproc' = [jproc EXCEPT ![p] = q]
    BY <1>1, <1>8, <2>5 DEF AppendThen, Step
  <2>8. BusyOK(q, r)
    BY <1>6, <2>4, <2>6 DEF BusyOK
  <2> QED BY <1>1, <1>2, <1>4, <2>6, <2>7, <2>8, WorkMoves
<1>9. ASSUME NEW n \in Requests, JHead(p, n), n \in JAttempted(r), Goto(p, "call")
      PROVE  JournalInv'
  <2>1. Heads(n, todo)
    BY <1>1, <1>5, <1>9 DEF JHead, Heads
  <2>2. PICK q : q = [w EXCEPT !.pc = "call"]
    OBVIOUS
  <2>3. /\ q \in JState /\ q.pc = "call" /\ q.fd = w.fd /\ q.locked = w.locked
        /\ q.scope = w.scope /\ q.todo = todo
    BY <1>5, <2>2 DEF JState
  <2>4. jproc' = [jproc EXCEPT ![p] = q]
    BY <1>1, <1>9, <2>2 DEF Goto, Step
  <2>5. BusyOK(q, r)
    BY <1>6, <1>9, <2>1, <2>3 DEF BusyOK
  <2> QED BY <1>1, <1>2, <1>4, <2>3, <2>4, <2>5, WorkMoves
<1>10. CASE \E n \in Requests :
                /\ JHead(p, n)
                /\ \/ /\ ExpiresAt(r, n, w.at)
                      /\ AppendThen(p, JRec("settled", n, "expired", 0))
                   \/ AppendThen(p, JRec("settled", n, "superseded", 0))
                   \/ /\ n \notin JAttempted(r)
                      /\ AppendThen(p, JRec("attempted", n, "sent", 0))
                   \/ /\ n \in JAttempted(r)
                      /\ Goto(p, "call")
  <2>1. PICK n \in Requests :
                /\ JHead(p, n)
                /\ \/ /\ ExpiresAt(r, n, w.at)
                      /\ AppendThen(p, JRec("settled", n, "expired", 0))
                   \/ AppendThen(p, JRec("settled", n, "superseded", 0))
                   \/ /\ n \notin JAttempted(r)
                      /\ AppendThen(p, JRec("attempted", n, "sent", 0))
                   \/ /\ n \in JAttempted(r)
                      /\ Goto(p, "call")
    BY <1>10
  <2>2. n \in Nat
    BY DEF Requests
  <2>3. CASE ExpiresAt(r, n, w.at) /\ AppendThen(p, JRec("settled", n, "expired", 0))
    <3>1. PICK rec : rec = JRec("settled", n, "expired", 0)
      OBVIOUS
    <3>2. rec \in Records /\ rec.ev = "settled" /\ rec.n = n
      BY <2>2, <3>1 DEF JRec, Records, Dispositions
    <3>3. n \notin JAttempted(r)
      BY <2>3 DEF ExpiresAt
    <3> QED BY <1>8, <2>1, <2>3, <3>1, <3>2, <3>3
  <2>4. CASE AppendThen(p, JRec("settled", n, "superseded", 0))
    <3>1. PICK rec : rec = JRec("settled", n, "superseded", 0)
      OBVIOUS
    <3>2. rec \in Records /\ rec.ev = "settled" /\ rec.n = n /\ rec.of # "expired"
      BY <2>2, <3>1 DEF JRec, Records, Dispositions
    <3> QED BY <1>8, <2>1, <2>4, <3>1, <3>2
  <2>5. CASE n \notin JAttempted(r) /\ AppendThen(p, JRec("attempted", n, "sent", 0))
    <3>1. PICK rec : rec = JRec("attempted", n, "sent", 0)
      OBVIOUS
    <3>2. rec \in Records /\ rec.ev = "attempted" /\ rec.n = n
      BY <2>2, <3>1 DEF JRec, Records
    <3> QED BY <1>8, <2>1, <2>5, <3>1, <3>2
  <2>6. CASE n \in JAttempted(r) /\ Goto(p, "call")
    BY <1>9, <2>1, <2>6
  <2> QED BY <2>1, <2>3, <2>4, <2>5, <2>6
<1> QED
  <2>1. \/ Return(p)
        \/ \E n \in Requests :
                /\ JHead(p, n)
                /\ \/ /\ ExpiresAt(r, n, w.at)
                      /\ AppendThen(p, JRec("settled", n, "expired", 0))
                   \/ AppendThen(p, JRec("settled", n, "superseded", 0))
                   \/ /\ n \notin JAttempted(r)
                      /\ AppendThen(p, JRec("attempted", n, "sent", 0))
                   \/ /\ n \in JAttempted(r)
                      /\ Goto(p, "call")
    BY <1>1, <1>4 DEF JNextRequest
  <2> QED BY <1>7, <1>10, <2>1

LEMMA SendStep ==
    ASSUME JournalInv, NEW p \in JProcs, JSend(p)
    PROVE  JournalInv'
<1>1. PICK w \in JState : w = jproc[p]
  BY JournalTypes DEF JournalInv
<1>2. /\ w.pc = "call"
      /\ UNCHANGED <<jfile, jdirty, jactive, jretired, jclock, jkept, jdone, jleft>>
  BY <1>1 DEF JSend, diskSame
<1>3. /\ jactive \in Files /\ jactive \notin jretired /\ jactive # NoFile
      /\ jfile[jactive] \in Seq(Records)
      /\ FileOK(jfile[jactive]) /\ BusyOK(w, jfile[jactive]) /\ w.fd = jactive /\ w.locked
      /\ \A o \in JProcs : o # p => ~jproc[o].locked
  BY <1>1, <1>2, AtWork
<1>4. PICK r \in Seq(Records) : r = jfile[jactive]
  BY <1>3
<1>5. PICK todo \in SUBSET Requests : todo = w.todo
  BY <1>1 DEF JState
<1>6. NoTorn(r) /\ r # <<>> /\ todo \subseteq JPending(r)
  BY <1>2, <1>3, <1>4, <1>5 DEF BusyOK
<1>7. PICK n \in Requests :
          /\ JHead(p, n)
          /\ jsent' = jsent \cup {<<jactive, n>>}
          /\ jbare' = IF n \in Synced_(jactive, "attempted")
                      THEN jbare \ {<<jactive, n>>} ELSE jbare \cup {<<jactive, n>>}
          /\ \/ \E d \in {"applied", "superseded", "rejected"} :
                    AppendThen(p, JRec("settled", n, d, 0))
             \/ Return(p)
  BY <1>1, <1>3 DEF JSend
<1>8. PICK q \in JState : jproc' = [jproc EXCEPT ![p] = q] /\ ProcOK(q)
  <2>1. CASE Return(p)
    BY <2>1, IdleIs DEF Return, Step, ProcOK
  <2>2. CASE \E d \in {"applied", "superseded", "rejected"} :
                 AppendThen(p, JRec("settled", n, d, 0))
    <3>1. PICK d \in {"applied", "superseded", "rejected"} :
              AppendThen(p, JRec("settled", n, d, 0))
      BY <2>2
    <3>2. PICK rec : rec = JRec("settled", n, d, 0)
      OBVIOUS
    <3>3. rec \in Records /\ rec.ev = "settled" /\ rec.n = n /\ rec.of # "expired"
      <4>1. n \in Nat /\ d \in Dispositions /\ d # "expired"
        BY DEF Requests, Dispositions
      <4> QED BY <3>2, <4>1 DEF JRec, Records
    <3>4. Fits(r, rec, todo)
      BY <1>1, <1>5, <1>6, <1>7, <3>3 DEF Fits, JHead
    <3>5. PICK q : q = [w EXCEPT !.pc = "write", !.rec = rec]
      OBVIOUS
    <3>6. /\ q \in JState /\ q.pc = "write" /\ q.fd = jactive /\ q.locked
          /\ q.scope = w.scope /\ q.todo = todo /\ q.rec = rec
      BY <1>3, <1>5, <3>3, <3>5 DEF JState
    <3>7. BusyOK(q, r)
      BY <1>6, <3>4, <3>6 DEF BusyOK
    <3>8. w.scope \in Scopes
      BY <1>1, <1>2 DEF JournalInv, ProcsOK, ProcOK
    <3>9. ProcOK(q)
      BY <1>3, <1>4, <3>6, <3>7, <3>8 DEF ProcOK
    <3>10. jproc' = [jproc EXCEPT ![p] = q]
      BY <1>1, <3>1, <3>2, <3>5 DEF AppendThen, Step
    <3> QED BY <3>6, <3>9, <3>10
  <2> QED BY <1>7, <2>1, <2>2
<1>9. ProcsOK' /\ OneLock' /\ jproc' \in [JProcs -> JState]
  BY <1>2, <1>3, <1>8, OthersStay
<1>10. JournalTypeOK'
  <2>1. jbare \subseteq jsent /\ jsent \subseteq Files \X Requests
    BY DEF JournalInv, JournalTypeOK
  <2>2. jbare' \subseteq jsent' /\ jsent' \subseteq Files \X Requests
    BY <1>3, <1>7, <2>1
  <2> QED BY <1>2, <1>9, <2>2 DEF JournalInv, JournalTypeOK
<1>11. SentOK'
  <2> SUFFICES ASSUME NEW id \in jsent' \ jbare' PROVE id[2] \in Synced_(id[1], "attempted")
    BY <1>2 DEF SentOK, Synced_, SyncedPart
  <2>1. CASE id = <<jactive, n>>
    BY <1>7, <2>1
  <2>2. CASE id # <<jactive, n>>
    <3>1. id \in jsent \ jbare
      BY <1>7, <2>2
    <3> QED BY <3>1 DEF JournalInv, SentOK
  <2> QED BY <2>1, <2>2
<1>12. SentIsDone'
  <2> SUFFICES ASSUME NEW id \in jsent' \ jbare', id[1] \in jretired PROVE id \in jdone
    BY <1>2 DEF SentIsDone
  <2>1. id \in jsent \ jbare
    BY <1>3, <1>7
  <2> QED BY <2>1 DEF JournalInv, SentIsDone
<1>13. FilesOK' /\ PathOK' /\ KeptOK'
  BY <1>2 DEF JournalInv, FilesOK, PathOK, KeptOK, Synced_, SyncedPart
<1>14. DoneOK' /\ RetiredOwesNothing'
  BY <1>2 DEF JournalInv, DoneOK, RetiredOwesNothing
<1> QED
  BY <1>9, <1>10, <1>11, <1>12, <1>13, <1>14 DEF JournalInv

-----------------------------------------------------------------------------
(* Rotation and a stop of the machine.                                     *)

LEMMA SyncedIsWritten ==
    ASSUME JournalInv, NEW f \in Files, NEW e
    PROVE  Synced_(f, e) \subseteq At(jfile[f], Len(jfile[f]), e)
<1>1. /\ jfile[f] \in Seq(Records) /\ jdirty[f] \in Nat /\ jdirty[f] <= Len(jfile[f])
  BY JournalTypes DEF JournalInv, FilesOK
<1>2. PICK r \in Seq(Records), d \in Nat : r = jfile[f] /\ d = jdirty[f] /\ d <= Len(r)
  BY <1>1
<1>3. Len(r) \in Nat /\ Len(r) - d \in Nat /\ Len(r) - d <= Len(r)
  BY <1>2
<1>4. At(r, Len(r) - d, e) \subseteq At(r, Len(r), e)
  BY <1>3, AtGrows
<1> QED
  BY <1>1, <1>2, <1>4, SyncedIs

\* The queued record of a request that the file names.
LEMMA QueuedRecIs ==
    ASSUME NEW r \in Seq(Records), FileOK(r), NEW n \in At(r, Len(r), "queued")
    PROVE  QueuedRec(r, n) \in Records
<1>1. PICK i \in 1 .. Len(r) : r[i].ev = "queued" /\ r[i].n = n
  BY DEF At
<1>2. r[i] \in Records
  <2> HIDE DEF Records
  <2> QED OBVIOUS
<1> QED
  BY <1>1, <1>2, QueuedOnce

LEMMA RetireStep ==
    ASSUME JournalInv, NEW p \in JProcs, Loads(p),
           \A n \in JPending(Records_(p)) : ~Blocks(p, n),
           jactive' = NoFile, jretired' = jretired \cup {jproc[p].fd},
           NEW q \in JState, ProcOK(q), ~q.locked, jproc' = [jproc EXCEPT ![p] = q],
           UNCHANGED <<jfile, jdirty>>, restSame
    PROVE  JournalInv'
<1>1. /\ \A o \in JProcs : ~jproc[o].locked
      /\ jactive \in Files /\ jactive # NoFile /\ jproc[p].fd = jactive
  BY LockIsFree DEF Loads
<1>2. /\ UNCHANGED <<jfile, jdirty, jkept, jsent, jbare, jdone, jclock, jleft>>
      /\ jretired' = jretired \cup {jactive}
  BY <1>1 DEF restSame, historySame
<1>3. PICK f \in Files : f = jactive
  BY <1>1
<1>4. PICK r \in Seq(Records) : r = jfile[f] /\ r = Records_(p) /\ FileOK(r)
  BY <1>1, <1>3, JournalTypes DEF JournalInv, FilesOK, Records_
<1>5. ProcsOK' /\ OneLock' /\ jproc' \in [JProcs -> JState]
  <2>1. ProcOK(q)'
    BY DEF ProcOK
  <2> QED BY <1>1, <2>1, OneWorks
<1>6. JournalTypeOK'
  BY <1>1, <1>2, <1>5 DEF JournalInv, JournalTypeOK
<1>7. PathOK'
  <2>1. PICK k \in Nat : jretired = 1 .. k /\ jactive = k + 1
    BY <1>1 DEF JournalInv, PathOK
  <2>2. (1 .. k) \cup {k + 1} = 1 .. k + 1 /\ k + 1 \in Nat
    OBVIOUS
  <2> QED BY <1>2, <2>1, <2>2 DEF PathOK
<1>8. FilesOK' /\ KeptOK' /\ SentOK' /\ DoneOK'
  BY <1>2 DEF JournalInv, FilesOK, KeptOK, SentOK, DoneOK, Synced_, SyncedPart
<1>9. ASSUME NEW n \in At(r, Len(r), "queued"), <<f, n>> \notin jdone
      PROVE  n \in JPending(r) /\ ExpiresAt(r, n, jclock)
  <2>1. n \notin At(r, Len(r), "settled")
    BY <1>4, <1>9 DEF JournalInv, DoneOK
  <2>2. n \in JPending(r)
    BY <1>9, <2>1 DEF JPending, PendingAt
  <2> QED BY <1>4, <2>2 DEF Blocks
<1>10. SentIsDone'
  <2> SUFFICES ASSUME NEW id \in jsent \ jbare, id[1] \in jretired \cup {f} PROVE id \in jdone
    BY <1>2, <1>3 DEF SentIsDone
  <2>1. CASE id[1] \in jretired
    BY <2>1 DEF JournalInv, SentIsDone
  <2>2. CASE id[1] = f
    <3>1. PICK n : id = <<f, n>>
      BY <2>2 DEF JournalInv, JournalTypeOK
    <3>2. n \in Synced_(f, "attempted")
      BY <3>1 DEF JournalInv, SentOK
    <3>3. n \in At(r, Len(r), "attempted")
      BY <1>4, <3>2, SyncedIsWritten
    <3>4. n \in At(r, Len(r), "queued")
      <4>1. Len(r) \in 0 .. Len(r)
        OBVIOUS
      <4> QED BY <1>4, <3>3, <4>1, OnlyQueued
    <3>5. SUFFICES ASSUME <<f, n>> \notin jdone PROVE FALSE
      BY <3>1
    <3>6. n \in JPending(r) /\ ExpiresAt(r, n, jclock)
      BY <1>9, <3>4, <3>5
    <3>7. n \in JAttempted(r)
      BY <3>3, <3>6 DEF JAttempted, JPending, PendingAt
    <3> QED BY <3>6, <3>7 DEF ExpiresAt
  <2> QED BY <2>1, <2>2
<1>11. RetiredOwesNothing'
  <2> SUFFICES ASSUME NEW id \in jkept, id[1] \in jretired \cup {f}, id \notin jdone
               PROVE  QueuedRec(jfile'[id[1]], id[2]).exp \in 1 .. jclock
    BY <1>2, <1>3 DEF RetiredOwesNothing, QueuedRec
  <2>1. CASE id[1] \in jretired
    BY <1>2, <2>1 DEF JournalInv, RetiredOwesNothing
  <2>2. CASE id[1] = f
    <3>1. PICK n : id = <<f, n>>
      BY <2>2 DEF JournalInv, JournalTypeOK
    <3>2. n \in Synced_(f, "queued")
      BY <3>1 DEF JournalInv, KeptOK
    <3>3. n \in At(r, Len(r), "queued")
      BY <1>4, <3>2, SyncedIsWritten
    <3>4. ExpiresAt(r, n, jclock)
      BY <1>9, <3>1, <3>3
    <3>5. PICK x \in Nat, t \in Nat : x = QueuedRec(r, n).exp /\ t = jclock
      <4>1. QueuedRec(r, n) \in Records
        BY <1>4, <3>3, QueuedRecIs
      <4>2. QueuedRec(r, n).exp \in Nat /\ jclock \in Nat
        BY <4>1 DEF Records, JournalInv, JournalTypeOK
      <4> QED BY <4>2
    <3>6. x # 0 /\ t >= x
      BY <3>4, <3>5 DEF ExpiresAt
    <3>7. x \in 1 .. t
      BY <3>6
    <3> QED BY <1>2, <1>4, <3>1, <3>5, <3>7
  <2> QED BY <2>1, <2>2
<1> QED
  BY <1>5, <1>6, <1>7, <1>8, <1>10, <1>11 DEF JournalInv

LEMMA InspectStep ==
    ASSUME JournalInv, NEW p \in JProcs, JInspect(p)
    PROVE  JournalInv'
<1>1. Loads(p) /\ restSame
  BY DEF JInspect
<1>2. PICK w \in JState : w = jproc[p] /\ w.scope \in Scopes
  BY <1>1, JournalTypes DEF JournalInv, ProcsOK, ProcOK, Loads, Acquires
<1>3. PICK q : q = [w EXCEPT !.pc = "open", !.stage = 3, !.locked = FALSE, !.fd = NoFile]
  OBVIOUS
<1>4. q \in JState /\ q.pc = "open" /\ ~q.locked /\ q.scope = w.scope
  <2>1. 3 \in 0 .. 3
    OBVIOUS
  <2> QED BY <1>3, <2>1 DEF JState
<1>5. ProcOK(q) /\ ProcOK(JIdle) /\ JIdle \in JState /\ ~JIdle.locked
  BY <1>2, <1>4, IdleIs DEF ProcOK
<1>6. /\ JReopen(p) => jproc' = [jproc EXCEPT ![p] = q]
      /\ Return(p) => jproc' = [jproc EXCEPT ![p] = JIdle]
  BY <1>2, <1>3 DEF JReopen, Return, Step
<1>7. CASE diskSame /\ (Return(p) \/ JReopen(p))
  BY <1>1, <1>4, <1>5, <1>6, <1>7, RestSame, ProcMoves
<1>8. CASE /\ \A n \in JPending(Records_(p)) : ~Blocks(p, n)
           /\ jactive' = NoFile /\ jretired' = jretired \cup {jproc[p].fd}
           /\ Return(p) \/ JReopen(p)
           /\ UNCHANGED <<jfile, jdirty>>
  <2>1. CASE Return(p)
    BY <1>1, <1>5, <1>6, <1>8, <2>1, RetireStep
  <2>2. CASE JReopen(p)
    BY <1>1, <1>4, <1>5, <1>6, <1>8, <2>2, RetireStep
  <2> QED BY <1>8, <2>1, <2>2
<1> QED
  <2>1. \/ diskSame /\ (Return(p) \/ JReopen(p))
        \/ /\ \A n \in JPending(Records_(p)) : ~Blocks(p, n)
           /\ jactive' = NoFile /\ jretired' = jretired \cup {jproc[p].fd}
           /\ Return(p) \/ JReopen(p)
           /\ UNCHANGED <<jfile, jdirty>>
    BY DEF JInspect
  <2> QED BY <1>7, <1>8, <2>1

LEMMA MachineStep ==
    ASSUME JournalInv, JMachineStops
    PROVE  JournalInv'
<1>1. PICK f \in Files :
          /\ \E s \in Survives(jfile[f], jdirty[f]) : jfile' = [jfile EXCEPT ![f] = s]
          /\ jdirty' = [jdirty EXCEPT ![f] = 0]
  BY DEF JMachineStops
<1>2. /\ JSpend("faults") /\ jproc' = [p \in JProcs |-> JIdle]
      /\ UNCHANGED <<jactive, jretired, jclock, jkept, jsent, jbare, jdone>>
  BY DEF JMachineStops, historySame
<1>3. PICK r \in Seq(Records), d \in Nat :
          r = jfile[f] /\ d = jdirty[f] /\ d <= Len(r) /\ FileOK(r)
  BY JournalTypes DEF JournalInv, FilesOK
<1>4. PICK s \in Survives(r, d) : jfile' = [jfile EXCEPT ![f] = s]
  BY <1>1, <1>3
<1>5. s \in Seq(Records) /\ FileOK(s) /\ Len(r) - d <= Len(s)
  BY <1>3, SurvivorIs
<1>6. PICK k \in Nat : /\ Len(r) - d <= k /\ k <= Len(r) /\ k <= Len(s)
                       /\ \A i \in 1 .. k : s[i] = r[i]
                       /\ \A i \in 1 .. Len(s) : i \in 1 .. k \/ s[i] = JTorn
  <2>1. d <= Len(r) /\ FileOK(r)
    BY <1>3
  <2> QED BY <2>1, SurvivorIs, Zenon
<1>7. Len(r) \in Nat /\ Len(s) \in Nat
  BY <1>5
<1>8. /\ jfile' \in [Files -> Seq(Records)] /\ jdirty' \in [Files -> Nat]
      /\ jfile'[f] = s /\ jdirty'[f] = 0
      /\ \A g \in Files : g # f => jfile'[g] = jfile[g] /\ jdirty'[g] = jdirty[g]
  <2>1. jfile \in [Files -> Seq(Records)] /\ jdirty \in [Files -> Nat]
    BY DEF JournalInv, JournalTypeOK
  <2> HIDE DEF Records
  <2> QED BY <1>1, <1>4, <1>5, <2>1
<1>9. FilesOK'
  <2> SUFFICES ASSUME NEW g \in Files PROVE FileOK(jfile'[g]) /\ jdirty'[g] <= Len(jfile'[g])
    BY DEF FilesOK, FileOK, RecOK
  <2>1. CASE g = f
    BY <1>5, <1>7, <1>8, <2>1
  <2>2. CASE g # f
    BY <1>8, <2>2 DEF JournalInv, FilesOK
  <2> QED BY <2>1, <2>2
<1>10. \A g \in Files : \A e : Synced_(g, e) \subseteq Synced_(g, e)'
  <2> SUFFICES ASSUME NEW g \in Files, NEW e PROVE Synced_(g, e) \subseteq Synced_(g, e)'
    OBVIOUS
  <2>1. CASE g = f
    <3>1. /\ jfile[g] \in Seq(Records) /\ jdirty[g] \in Nat /\ jdirty[g] <= Len(jfile[g])
          /\ s = jfile'[g] /\ 0 = jdirty'[g] /\ 0 <= Len(s)
          /\ Len(jfile[g]) - jdirty[g] <= Len(s) - 0
      BY <1>3, <1>5, <1>7, <1>8, <2>1
    <3>2. \A i \in 1 .. Len(r) - d : s[i] = r[i]
      BY <1>6, <1>7
    <3>3. \A i \in 1 .. Len(jfile[g]) - jdirty[g] : s[i] = jfile[g][i]
      BY <1>3, <2>1, <3>2
    <3>4. 0 \in Nat
      OBVIOUS
    <3> QED BY <1>5, <3>1, <3>3, <3>4, SyncedStays
  <2>2. CASE g # f
    BY <1>8, <2>2 DEF Synced_, SyncedPart
  <2> QED BY <2>1, <2>2
<1>11. /\ \A p \in JProcs : jproc'[p] = JIdle
       /\ jproc' \in [JProcs -> JState] /\ ProcsOK' /\ OneLock'
  BY <1>2, IdleIs DEF ProcsOK, ProcOK, OneLock
<1>12. JournalTypeOK'
  <2>1. jleft' \in [JBounded -> Nat]
    BY <1>2, JSpends DEF JournalInv, JBounded
  <2> QED BY <1>2, <1>8, <1>11, <2>1 DEF JournalInv, JournalTypeOK
<1>13. KeptOK' /\ SentOK'
  <2>1. \A id \in jkept \cup jsent : id[1] \in Files
    BY DEF JournalInv, JournalTypeOK
  <2>2. KeptOK'
    BY <1>2, <1>10, <2>1 DEF JournalInv, KeptOK
  <2>3. SentOK'
    BY <1>2, <1>10, <2>1 DEF JournalInv, SentOK
  <2> QED BY <2>2, <2>3
<1>14. DoneOK'
  <2> SUFFICES ASSUME NEW g \in Files, NEW n \in At(jfile'[g], Len(jfile'[g]), "settled")
               PROVE  <<g, n>> \in jdone
    BY <1>2 DEF DoneOK
  <2>1. CASE g = f
    <3>1. PICK i \in 1 .. Len(s) : s[i].ev = "settled" /\ s[i].n = n
      BY <1>8, <2>1 DEF At
    <3>2. i \in 1 .. k
      BY <1>6, <3>1, TornIsRecord
    <3>3. i \in 1 .. Len(r) /\ r[i] = s[i]
      BY <1>6, <1>7, <3>2
    <3>4. n \in At(r, Len(r), "settled")
      BY <3>1, <3>3 DEF At
    <3> QED BY <1>3, <2>1, <3>4 DEF JournalInv, DoneOK
  <2>2. CASE g # f
    BY <1>8, <2>2 DEF JournalInv, DoneOK
  <2> QED BY <2>1, <2>2
<1>15. PathOK' /\ SentIsDone'
  BY <1>2 DEF JournalInv, PathOK, SentIsDone
<1>16. RetiredOwesNothing'
  <2> SUFFICES ASSUME NEW id \in jkept, id[1] \in jretired, id \notin jdone
               PROVE  QueuedRec(jfile'[id[1]], id[2]).exp \in 1 .. jclock
    BY <1>2 DEF RetiredOwesNothing, QueuedRec
  <2>1. id[1] \in Files /\ QueuedRec(jfile[id[1]], id[2]).exp \in 1 .. jclock
    BY DEF JournalInv, JournalTypeOK, RetiredOwesNothing
  <2>2. CASE id[1] = f
    <3>1. PICK n : n = id[2] /\ n \in Synced_(f, "queued")
      BY <2>2 DEF JournalInv, KeptOK
    <3>2. n \in At(r, Len(r) - d, "queued")
      BY <1>3, <3>1, SyncedIs
    <3>3. PICK i \in 1 .. Len(r) - d : r[i].ev = "queued" /\ r[i].n = n
      BY <3>2 DEF At
    <3>4. i \in 1 .. Len(r) /\ i \in 1 .. Len(s) /\ s[i] = r[i]
      BY <1>6, <1>7
    <3>5. QueuedRec(r, n) = r[i] /\ QueuedRec(s, n) = s[i]
      BY <1>3, <1>5, <3>3, <3>4, QueuedOnce
    <3> QED BY <1>3, <1>8, <2>1, <2>2, <3>1, <3>4, <3>5
  <2>3. CASE id[1] # f
    BY <1>8, <2>1, <2>3
  <2> QED BY <2>2, <2>3
<1> QED
  BY <1>9, <1>11, <1>12, <1>13, <1>14, <1>15, <1>16 DEF JournalInv

-----------------------------------------------------------------------------
LEMMA JournalStep == JournalInv /\ [JournalNext]_journalVars => JournalInv'
<1> SUFFICES ASSUME JournalInv, [JournalNext]_journalVars PROVE JournalInv'
  OBVIOUS
<1>1. CASE UNCHANGED journalVars
  <2>1. UNCHANGED <<jfile, jdirty, jactive, jretired, jproc, jclock, jkept, jsent, jbare,
                    jdone, jleft>>
    BY <1>1 DEF journalVars
  <2>2. JournalTypeOK' /\ FilesOK' /\ PathOK' /\ OneLock'
    BY <2>1 DEF JournalInv, JournalTypeOK, FilesOK, PathOK, OneLock
  <2>3. ProcsOK'
    BY <2>1 DEF JournalInv, ProcsOK, ProcOK
  <2>4. KeptOK' /\ SentOK' /\ DoneOK' /\ SentIsDone' /\ RetiredOwesNothing'
    BY <2>1 DEF JournalInv, KeptOK, SentOK, DoneOK, SentIsDone, RetiredOwesNothing,
                Synced_, SyncedPart
  <2> QED BY <2>2, <2>3, <2>4 DEF JournalInv
<1>2. CASE JTick
  BY <1>2, TickStep
<1>3. CASE JMachineStops
  BY <1>3, MachineStep
<1>4. ASSUME NEW p \in JProcs, NEW op \in JOps, NEW s \in Scopes, JCall(p, op, s)
      PROVE  JournalInv'
  BY <1>4, CallStep
<1>5. ASSUME NEW p \in JProcs, JOpen(p) \/ JBusy(p) \/ JLoad(p) \/ JInspect(p)
      PROVE  JournalInv'
  BY <1>5, OpenStep, BusyStep, LoadStep, InspectStep
<1>6. ASSUME NEW p \in JProcs, JWrite(p) \/ JTornWrite(p) \/ JSync(p)
      PROVE  JournalInv'
  BY <1>6, WriteStep, TornStep, SyncStep
<1>7. ASSUME NEW p \in JProcs, JStart(p) \/ JNextRequest(p) \/ JSend(p)
      PROVE  JournalInv'
  BY <1>7, StartStep, NextRequestStep, SendStep
<1>8. ASSUME NEW p \in JProcs, JLoadFails(p) \/ JFull(p) \/ JSyncFails(p) \/ JProcessStops(p)
      PROVE  JournalInv'
  BY <1>8, ReturnSteps
<1> QED
  BY <1>1, <1>2, <1>3, <1>4, <1>5, <1>6, <1>7, <1>8 DEF JournalNext

LEMMA JournalSound ==
    JournalInv => RetentionIsDurable /\ SentNeverExpires /\ RetiredOwesNothing
<1> SUFFICES ASSUME JournalInv PROVE RetentionIsDurable /\ SentNeverExpires
  BY DEF JournalInv
<1>1. \A f \in Files : jfile[f] \in Seq(Records) /\ FileOK(jfile[f])
  BY JournalTypes DEF JournalInv, FilesOK
<1>2. \A f \in Files : Readable(f)
  BY <1>1, ReadableFile
<1>3. ASSUME NEW id \in jsent \ jbare
      PROVE  /\ id[1] \in Files /\ id[2] \in Synced_(id[1], "attempted")
             /\ id[2] \in At(jfile[id[1]], Len(jfile[id[1]]), "attempted")
  <2>1. id[1] \in Files
    BY DEF JournalInv, JournalTypeOK
  <2>2. id[2] \in Synced_(id[1], "attempted")
    BY DEF JournalInv, SentOK
  <2> QED BY <2>1, <2>2, SyncedIsWritten
<1>4. ASSUME NEW id \in jsent \ jbare PROVE id[2] \in Synced_(id[1], "queued")
  <2>1. PICK f, n : f \in Files /\ f = id[1] /\ n = id[2] /\ n \in Synced_(f, "attempted")
    BY <1>3
  <2>2. PICK r \in Seq(Records), d \in Nat :
            r = jfile[f] /\ d = jdirty[f] /\ d <= Len(r) /\ FileOK(r)
    BY <1>1, <2>1, JournalTypes DEF JournalInv, FilesOK
  <2>3. Synced_(f, "attempted") = At(r, Len(r) - d, "attempted")
    BY <2>2, SyncedIs
  <2>4. Synced_(f, "queued") = At(r, Len(r) - d, "queued")
    BY <2>2, SyncedIs
  <2>5. Len(r) - d \in 0 .. Len(r)
    BY <2>2
  <2>6. At(r, Len(r) - d, "attempted") \subseteq At(r, Len(r) - d, "queued")
    BY <2>2, <2>5, OnlyQueued
  <2> QED BY <2>1, <2>3, <2>4, <2>6
<1>5. RetentionIsDurable
  <2>1. \A id \in jkept : id[2] \in Synced_(id[1], "queued")
    BY DEF JournalInv, KeptOK
  <2> QED BY <1>2, <1>4, <2>1 DEF RetentionIsDurable
<1>6. ASSUME NEW id \in jsent \ jbare, NEW k \in 1 .. Len(jfile[id[1]]),
             jfile[id[1]][k].n = id[2], jfile[id[1]][k].ev = "settled"
      PROVE  jfile[id[1]][k].of # "expired"
  <2>1. PICK r, n : r \in Seq(Records) /\ r = jfile[id[1]] /\ n = id[2] /\ FileOK(r)
    BY <1>1, <1>3
  <2>2. n \in At(r, Len(r), "attempted") /\ k \in 1 .. Len(r) /\ r[k].n = n /\ r[k].ev = "settled"
    BY <1>3, <1>6, <2>1
  <2>3. PICK i \in 1 .. Len(r) : r[i].ev = "attempted" /\ r[i].n = n
    BY <2>2 DEF At
  <2>4. RecOK(r, k) /\ RecOK(r, i)
    BY <2>1, <2>2, <2>3 DEF FileOK
  <2>5. i < k \/ i = k \/ k < i
    BY <2>2, <2>3
  <2>6. CASE i < k
    <3>1. i \in 1 .. k - 1
      BY <2>2, <2>3, <2>6
    <3>2. n \in At(r, k - 1, "attempted")
      BY <2>3, <3>1 DEF At
    <3> QED BY <2>1, <2>2, <2>4, <3>2 DEF RecOK
  <2>7. CASE k < i
    <3>1. k \in 1 .. i - 1
      BY <2>2, <2>3, <2>7
    <3>2. n \in At(r, i - 1, "settled")
      BY <2>2, <3>1 DEF At
    <3>3. n \notin At(r, i - 1, "settled")
      BY <2>3, <2>4 DEF RecOK, PendingAt
    <3> QED BY <3>2, <3>3
  <2>8. i # k
    BY <2>2, <2>3
  <2> QED BY <2>5, <2>6, <2>7, <2>8
<1>7. SentNeverExpires
  BY <1>6 DEF SentNeverExpires, JournalInv, SentIsDone
<1> QED
  BY <1>5, <1>7

LEMMA JournalAlways == JournalSpec => []JournalInv
BY JournalStart, JournalStep, PTL DEF JournalSpec

(* What enqueue acknowledged and what was given to the transport after a   *)
(* sync of its attempt is in the synced part of its file, and every file   *)
(* can be read but for a torn last record, for any number of processes,    *)
(* scopes, files and faults (OutboxJournal::append, load, flush).          *)
THEOREM RetainedIsDurable == JournalSpec => []RetentionIsDurable
BY JournalAlways, JournalSound, PTL

(* A request that was given to the transport, and whose attempt got to the *)
(* disk, is never settled as expired and never in a file that rotation     *)
(* retired before its settlement was written (flush, can_retire_expired).  *)
THEOREM SentIsNotExpired == JournalSpec => []SentNeverExpires
BY JournalAlways, JournalSound, PTL

(* A retired file owes nothing: each request retained in it had its        *)
(* settlement written, or had expired by the clock (retire_previous_scope, *)
(* validate_identity).                                                     *)
THEOREM RetiredIsSettled == JournalSpec => []RetiredOwesNothing
BY JournalAlways, JournalSound, PTL

-----------------------------------------------------------------------------
(* The choice of a hub.                                                    *)

(* What a resolution has not tried holds all that would have answered it:  *)
(* a candidate leaves `left` when it does not answer, and then it has left *)
(* `steady` as well.                                                       *)
SteadyIsLeft ==
    \A p \in RSessions :
        rses[p].pc = "probing" => /\ rses[p].steady \subseteq rses[p].left
                                  /\ \A i \in rses[p].steady :
                                         RAccepts(i, rserves[i])

\* A resolution that failed found nobody steady, and one that won has a route.
WonOrNobody ==
    \A p \in RSessions :
        /\ rses[p].pc \in {"won", "using"} => rses[p].got \in RIndexes
        /\ rses[p].pc = "won" =>
               \A i \in rses[p].steady : RRank(i) >= RRank(rses[p].got)
        /\ rses[p].pc \in {"probing", "lost", "idle"} => rses[p].got = 0
        /\ (rses[p].pc \in {"lost", "keep"} /\ rses[p].got = 0)
               => rses[p].steady = {}

\* A claim operation asks authorities only, and keeps nothing in memory.
ClaimsAskAuthority ==
    \A p \in RSessions : rses[p].claims =>
        /\ rses[p].pc # "keep"
        /\ rses[p].pc = "probing" => rses[p].left \subseteq RAuthorities
        /\ rses[p].pc \in {"won", "using"} => rses[p].got \in RAuthorities

\* Probes are sent for valid configurations only.
ProbesAreValid ==
    /\ \A p \in RSessions : rses[p].pc = "probing" => RValid
    /\ \A h \in rnamed : RValid /\ \E i \in RAuthorities : rcands[i].hub = h

SelectionInv ==
    /\ SelectionTypeOK /\ SteadyIsLeft /\ WonOrNobody
    /\ ClaimsAskAuthority /\ ProbesAreValid

-----------------------------------------------------------------------------
\* Ranks are numbers.
LEMMA RankType ==
    ASSUME SelectionTypeOK, NEW i \in RIndexes PROVE RRank(i) \in 0 .. 2
<1>1. rcands[i] \in RCandidates BY DEF SelectionTypeOK, RIndexes
<1>2. rcands[i].role \in RRoles BY <1>1 DEF RCandidates
<1> QED BY <1>2 DEF RRank, RRoles

\* Whoever's turn it is has not failed yet, and nobody left is of a better
\* role.
LEMMA TurnIsBest ==
    ASSUME SelectionTypeOK, NEW p \in RSessions, NEW i \in RTurn(rses[p])
    PROVE  /\ i \in rses[p].left
           /\ \A j \in rses[p].left : RRank(j) >= RRank(i)
<1> DEFINE s == rses[p]
           Stage(k) == RStage(k, s)
<1>1. i \in {k \in s.left : ~ \E j \in s.left : RBefore(Stage(j), Stage(k))}
  BY DEF RTurn, RFirstBy
<1>2. s.left \subseteq RIndexes BY DEF SelectionTypeOK
<1>3. ASSUME NEW j \in s.left, RRank(j) < RRank(i) PROVE FALSE
  <2>1. Stage(j)[1] < Stage(i)[1] /\ 1 \in DOMAIN Stage(j)
    BY <1>3 DEF RStage
  <2>2. RBefore(Stage(j), Stage(i)) BY <2>1 DEF RBefore
  <2> QED BY <1>1, <2>2
<1>4. \A j \in s.left : RRank(j) \in Int BY <1>2, RankType
<1> QED BY <1>1, <1>3, <1>4

\* Two authorities of a valid configuration name one hub.
LEMMA OneNamedHub ==
    ASSUME SelectionTypeOK, RValid, NEW i \in RAuthorities, NEW j \in RAuthorities
    PROVE  rcands[i].hub = rcands[j].hub
<1> SUFFICES ASSUME i # j PROVE rcands[i].hub = rcands[j].hub OBVIOUS
<1>1. IsFiniteSet(RAuthorities)
  <2>1. RIndexes = 1 .. Len(rcands) /\ Len(rcands) \in Nat
    BY DEF SelectionTypeOK, RIndexes
  <2>2. IsFiniteSet(1 .. Len(rcands)) BY <2>1, FS_Interval
  <2> QED BY <2>1, <2>2, FS_Subset DEF RAuthorities
<1>2. IsFiniteSet({i, j}) /\ Cardinality({i, j}) = 2
  <2>1. IsFiniteSet({i}) /\ Cardinality({i}) = 1 BY FS_Singleton
  <2>2. {i} \cup {j} = {i, j} OBVIOUS
  <2> QED BY <2>1, <2>2, FS_AddElement
<1>3. Cardinality(RAuthorities) > 1
  <2>1. Cardinality({i, j}) <= Cardinality(RAuthorities)
    BY <1>1, FS_Subset
  <2>2. Cardinality(RAuthorities) \in Nat BY <1>1, FS_CardinalityType
  <2> QED BY <1>2, <2>1, <2>2
<1> QED BY <1>3 DEF RValid

\* The invariant gives the property.
LEMMA SelectionSound == SelectionInv => AuthorityFirst
<1> SUFFICES ASSUME SelectionInv PROVE AuthorityFirst OBVIOUS
<1>1. \A a, b \in rnamed : a = b
  BY OneNamedHub DEF SelectionInv, ProbesAreValid
<1>2. Cardinality(rnamed) <= 1
  <2>1. CASE rnamed = {} BY <2>1, FS_EmptySet
  <2>2. CASE rnamed # {}
    <3>1. PICK a \in rnamed : TRUE BY <2>2
    <3>2. rnamed = {a} BY <1>1, <3>1
    <3>3. Cardinality({a}) = 1 BY FS_Singleton
    <3> QED BY <3>2, <3>3
  <2> QED BY <2>1, <2>2
<1>3. ASSUME NEW p \in RSessions
      PROVE  /\ rses[p].pc = "won" =>
                    \A i \in rses[p].steady : RRank(i) >= RRank(rses[p].got)
             /\ (rses[p].pc \in {"lost", "keep"} /\ rses[p].got = 0)
                    => rses[p].steady = {}
             /\ (rses[p].pc = "using" /\ rses[p].claims)
                    => rses[p].got \in RAuthorities
  BY DEF SelectionInv, WonOrNobody, ClaimsAskAuthority
<1> QED BY <1>2, <1>3 DEF AuthorityFirst

\* The first states.
LEMMA SelectionStart == SelectionInit => SelectionInv
<1> SUFFICES ASSUME SelectionInit PROVE SelectionInv OBVIOUS
<1> USE SelectionAssumption
<1>1. SelectionTypeOK
  <2>1. rcands \in Seq(RCandidates) BY DEF SelectionInit
  <2>2. rserves \in [RIndexes -> RHubs \cup {"down"}]
    BY DEF SelectionInit, RIndexes
  <2>3. rleft \in [RBounded -> Nat] BY DEF SelectionInit
  <2> QED BY <2>1, <2>2, <2>3 DEF SelectionInit, SelectionTypeOK, NoRoute,
                                  NoMemory, RIdle
<1>2. SteadyIsLeft BY DEF SelectionInit, SteadyIsLeft, RIdle
<1>3. WonOrNobody BY DEF SelectionInit, WonOrNobody, RIdle
<1>4. ClaimsAskAuthority BY DEF SelectionInit, ClaimsAskAuthority, RIdle
<1>5. ProbesAreValid BY DEF SelectionInit, ProbesAreValid, RIdle
<1> QED BY <1>1, <1>2, <1>3, <1>4, <1>5 DEF SelectionInv

\* What is left of the budget stays a number.
LEMMA RSpendTypes ==
    ASSUME SelectionTypeOK, NEW what \in RBounded, RSpend(what)
    PROVE  rleft' \in [RBounded -> Nat]
BY DEF SelectionTypeOK, RSpend

-----------------------------------------------------------------------------
\* The configuration never changes, so neither do the operators on it.
LEMMA SamePlan ==
    ASSUME rcands' = rcands
    PROVE  /\ RIndexes' = RIndexes /\ RAuthorities' = RAuthorities
           /\ RValid' = RValid
           /\ \A i : RRank(i)' = RRank(i)
           /\ \A i, h : RAccepts(i, h)' = RAccepts(i, h)
BY DEF RIndexes, RAuthorities, RValid, RRank, RAccepts

\* What the invariant asks of one resolution.
SessionOK(p) ==
    LET s == rses[p]
    IN  /\ s.pc = "probing" =>
               /\ s.steady \subseteq s.left
               /\ \A i \in s.steady : RAccepts(i, rserves[i])
               /\ RValid
        /\ s.pc \in {"won", "using"} => s.got \in RIndexes
        /\ s.pc = "won" => \A i \in s.steady : RRank(i) >= RRank(s.got)
        /\ s.pc \in {"probing", "lost", "idle"} => s.got = 0
        /\ (s.pc \in {"lost", "keep"} /\ s.got = 0) => s.steady = {}
        /\ s.claims =>
               /\ s.pc # "keep"
               /\ s.pc = "probing" => s.left \subseteq RAuthorities
               /\ s.pc \in {"won", "using"} => s.got \in RAuthorities

\* The invariant, one resolution at a time.
LEMMA InvBySession ==
    SelectionInv <=>
        /\ SelectionTypeOK
        /\ \A p \in RSessions : SessionOK(p)
        /\ \A h \in rnamed : RValid /\ \E i \in RAuthorities : rcands[i].hub = h
BY DEF SelectionInv, SteadyIsLeft, WonOrNobody, ClaimsAskAuthority,
       ProbesAreValid, SessionOK

\* The same of the next state.
LEMMA InvBySessionNext ==
    ASSUME SelectionTypeOK', \A p \in RSessions : SessionOK(p)',
           \A h \in rnamed' : RValid' /\ \E i \in RAuthorities' : rcands'[i].hub = h
    PROVE  SelectionInv'
BY DEF SelectionInv, SteadyIsLeft, WonOrNobody, ClaimsAskAuthority,
       ProbesAreValid, SessionOK

\* The states of one resolution.
RSessionStates ==
    [pc : {"idle", "probing", "won", "keep", "lost", "using"},
     claims : BOOLEAN, races : BOOLEAN, net : RNets,
     cached : RIndexes \cup {0}, left : SUBSET RIndexes,
     got : RIndexes \cup {0}, steady : SUBSET RIndexes]

\* A step of one resolution leaves the others as they are.
LEMMA OneSession ==
    ASSUME SelectionInv, rcands' = rcands, rserves' = rserves, rnet' = rnet,
           rfile' \in [at : RIndexes \cup {0}, net : RNets],
           rmem' \in [held : BOOLEAN, at : RIndexes \cup {0}],
           rnamed' \subseteq RHubs, rleft' \in [RBounded -> Nat],
           NEW p \in RSessions, NEW r \in RSessionStates,
           rses' = [rses EXCEPT ![p] = r],
           SessionOK(p)',
           \A h \in rnamed' : RValid /\ \E i \in RAuthorities : rcands[i].hub = h
    PROVE  SelectionInv'
<1>1. SelectionTypeOK BY DEF SelectionInv
<1>2. rses \in [RSessions -> RSessionStates]
  BY <1>1 DEF SelectionTypeOK, RSessionStates
<1>3. ASSUME NEW q \in RSessions \ {p} PROVE SessionOK(q)'
  <2>1. SessionOK(q) BY InvBySession
  <2>2. rses'[q] = rses[q] BY <1>2
  <2> QED BY <2>1, <2>2, SamePlan DEF SessionOK
<1>4. \A q \in RSessions : SessionOK(q)' BY <1>3
<1>5. SelectionTypeOK'
  <2>1. rses' \in [RSessions -> RSessionStates] BY <1>2
  <2>2. RIndexes' = RIndexes BY SamePlan
  <2> QED BY <1>1, <2>1, <2>2 DEF SelectionTypeOK, RSessionStates
<1> QED BY <1>4, <1>5, SamePlan, InvBySessionNext

\* The hubs that passed for a named authority, in a step that adds none.
LEMMA SameNamed ==
    ASSUME SelectionInv, rnamed' = rnamed
    PROVE  \A h \in rnamed' :
               RValid /\ \E i \in RAuthorities : rcands[i].hub = h
BY DEF SelectionInv, ProbesAreValid

\* The types of the variables that most steps leave alone.
LEMMA StateTypes ==
    ASSUME SelectionInv
    PROVE  /\ SelectionTypeOK
           /\ rfile \in [at : RIndexes \cup {0}, net : RNets]
           /\ rmem \in [held : BOOLEAN, at : RIndexes \cup {0}]
           /\ rnamed \subseteq RHubs /\ rleft \in [RBounded -> Nat]
           /\ rnet \in RNets
           /\ rses \in [RSessions -> RSessionStates]
           /\ NoRoute \in [at : RIndexes \cup {0}, net : RNets]
           /\ NoMemory \in [held : BOOLEAN, at : RIndexes \cup {0}]
           /\ RIdle \in RSessionStates
BY SelectionAssumption
DEF SelectionInv, SelectionTypeOK, RSessionStates, NoRoute, NoMemory, RIdle

-----------------------------------------------------------------------------
\* A call that uses what the process remembers asks nobody.
LEMMA RecallStep ==
    ASSUME SelectionInv, NEW p \in RSessions, NEW claims \in BOOLEAN,
           RRecall(p, claims)
    PROVE  SelectionInv'
<1>1. rleft' \in [RBounded -> Nat]
  BY StateTypes, RSpendTypes DEF RRecall, RBounded
<1>2. ~claims BY DEF RRecall, RRecalls
<1> DEFINE r == [RIdle EXCEPT
                    !.pc = IF rmem.at = 0 THEN "lost" ELSE "using",
                    !.claims = claims, !.got = rmem.at]
<1>3. rses' = [rses EXCEPT ![p] = r] BY DEF RRecall
<1>4. rmem.at \in RIndexes \cup {0} /\ RIndexes' = RIndexes
  BY StateTypes, SamePlan DEF RRecall
<1>5. r \in RSessionStates BY <1>4, StateTypes DEF RSessionStates
<1>6. rses'[p] = r BY <1>3, StateTypes
<1>7. SessionOK(p)'
  <2>1. /\ r.pc = IF rmem.at = 0 THEN "lost" ELSE "using"
        /\ r.claims = claims /\ r.got = rmem.at /\ r.steady = {}
    BY DEF RIdle
  <2> HIDE DEF r
  <2> QED BY <1>2, <1>4, <1>6, <2>1 DEF SessionOK
<1> HIDE DEF r
<1> QED BY <1>1, <1>3, <1>5, <1>7, StateTypes, SameNamed, OneSession DEF RRecall

\* A resolution begins with all it may ask, those that answer now included.
LEMMA BeginStep ==
    ASSUME SelectionInv, NEW p \in RSessions, NEW claims \in BOOLEAN,
           NEW races \in BOOLEAN, RBegin(p, claims, races)
    PROVE  SelectionInv'
<1> DEFINE asked == IF claims THEN RAuthorities ELSE RIndexes
           hit == ~claims /\ rfile.at # 0 /\ rfile.net = rnet
           r == [pc |-> "probing", claims |-> claims, races |-> races,
                 net |-> rnet, cached |-> IF hit THEN rfile.at ELSE 0,
                 left |-> asked, got |-> 0,
                 steady |-> {i \in asked : RAccepts(i, rserves[i])}]
<1>1. rleft' \in [RBounded -> Nat]
  BY StateTypes, RSpendTypes DEF RBegin, RBounded
<1>2. RIndexes' = RIndexes /\ RAuthorities' = RAuthorities /\ RValid' = RValid
  BY SamePlan DEF RBegin
<1>3. rses' = [rses EXCEPT ![p] = r] BY DEF RBegin
<1>4. asked \subseteq RIndexes BY DEF RAuthorities
<1>5. r \in RSessionStates BY <1>4, StateTypes DEF RSessionStates
<1>6. rses'[p] = r BY <1>3, StateTypes
<1>7. SessionOK(p)'
  <2>1. rserves' = rserves /\ RValid BY DEF RBegin
  <2>2. \A i \in rses'[p].steady : RAccepts(i, rserves[i])'
    BY <1>6, <2>1, SamePlan DEF RBegin
  <2> QED BY <1>2, <1>6, <2>1, <2>2 DEF SessionOK
<1> HIDE DEF r
<1> QED BY <1>1, <1>3, <1>5, <1>7, StateTypes, SameNamed, OneSession DEF RBegin

\* A probe that ends: who answers wins, who does not was not steady.
LEMMA ProbeStep ==
    ASSUME SelectionInv, NEW p \in RSessions, NEW i \in RIndexes, RProbe(p, i)
    PROVE  SelectionInv'
<1>1. SelectionTypeOK /\ SessionOK(p) BY InvBySession DEF SelectionInv
<1>2. /\ RIndexes' = RIndexes /\ RAuthorities' = RAuthorities
      /\ RValid' = RValid /\ rserves' = rserves
      /\ \A j : RRank(j)' = RRank(j)
      /\ \A j, h : RAccepts(j, h)' = RAccepts(j, h)
  BY SamePlan DEF RProbe
<1>3. /\ rses[p].pc = "probing" /\ i \in rses[p].left
      /\ \A j \in rses[p].left : RRank(j) >= RRank(i)
  BY <1>1, TurnIsBest DEF RProbe
<1>4. rses[p] \in RSessionStates BY StateTypes
<1>5. CASE RAccepts(i, rserves[i])
  <2> DEFINE r == [rses[p] EXCEPT !.pc = "won", !.got = i]
  <2>1. rses' = [rses EXCEPT ![p] = r] BY <1>4, <1>5, StateTypes DEF RProbe
  <2>2. r \in RSessionStates BY <1>4 DEF RSessionStates
  <2>3. rses'[p] = r BY <2>1, StateTypes
  <2>4. SessionOK(p)'
    BY <1>1, <1>2, <1>3, <1>4, <2>3 DEF SessionOK, RSessionStates
  <2>5. \A h \in rnamed' : RValid /\ \E j \in RAuthorities : rcands[j].hub = h
    <3>1. RValid BY <1>1, <1>3 DEF SessionOK
    <3> QED BY <1>5, <3>1 DEF RProbe, RAccepts, SelectionInv, ProbesAreValid
  <2>6. rserves[i] \in RHubs BY <1>1, <1>5 DEF SelectionTypeOK, RAccepts
  <2>7. rnamed' \subseteq RHubs BY <1>5, <2>6, StateTypes DEF RProbe
  <2> HIDE DEF r
  <2> QED BY <2>1, <2>2, <2>4, <2>5, <2>7, StateTypes, OneSession DEF RProbe
<1>6. CASE ~RAccepts(i, rserves[i])
  <2> DEFINE r == [rses[p] EXCEPT !.left = @ \ {i}]
  <2>1. rses' = [rses EXCEPT ![p] = r] BY <1>4, <1>6, StateTypes DEF RProbe
  <2>2. r \in RSessionStates BY <1>4 DEF RSessionStates
  <2>3. rses'[p] = r BY <2>1, StateTypes
  <2>4. SessionOK(p)'
    BY <1>1, <1>2, <1>3, <1>4, <1>6, <2>3 DEF SessionOK, RSessionStates
  <2>5. rnamed' = rnamed BY <1>6 DEF RProbe
  <2> HIDE DEF r
  <2> QED BY <2>1, <2>2, <2>4, <2>5, StateTypes, SameNamed, OneSession DEF RProbe
<1> QED BY <1>5, <1>6

\* A probe that is given up takes its candidate out of both sets.
LEMMA ProbeFailsStep ==
    ASSUME SelectionInv, NEW p \in RSessions, NEW i \in RIndexes,
           RProbeFails(p, i)
    PROVE  SelectionInv'
<1> DEFINE r == [rses[p] EXCEPT !.left = @ \ {i}, !.steady = @ \ {i}]
<1>1. SelectionTypeOK /\ SessionOK(p) BY InvBySession DEF SelectionInv
<1>2. rleft' \in [RBounded -> Nat]
  BY StateTypes, RSpendTypes DEF RProbeFails, RBounded
<1>3. rses[p] \in RSessionStates BY StateTypes
<1>4. rses' = [rses EXCEPT ![p] = r] BY <1>3, StateTypes DEF RProbeFails
<1>5. r \in RSessionStates BY <1>3 DEF RSessionStates
<1>6. rses'[p] = r BY <1>4, StateTypes
<1>7. SessionOK(p)'
  <2>1. /\ r.pc = "probing" /\ rses[p].pc = "probing" /\ r.got = rses[p].got
        /\ r.left = rses[p].left \ {i} /\ r.steady = rses[p].steady \ {i}
        /\ r.claims = rses[p].claims
    BY <1>3 DEF RSessionStates, RProbeFails
  <2>2. /\ rserves' = rserves /\ RValid' = RValid
        /\ RAuthorities' = RAuthorities
        /\ \A j, h : RAccepts(j, h)' = RAccepts(j, h)
    BY SamePlan DEF RProbeFails
  <2>3. \A j \in r.steady : RAccepts(j, rserves[j])'
    BY <1>1, <2>1, <2>2 DEF SessionOK
  <2> HIDE DEF r
  <2> QED BY <1>1, <1>6, <2>1, <2>2, <2>3 DEF SessionOK
<1> HIDE DEF r
<1> QED BY <1>2, <1>4, <1>5, <1>7, StateTypes, SameNamed, OneSession
        DEF RProbeFails

-----------------------------------------------------------------------------
\* The end of a resolution, and what the process keeps of it.
LEMMA EndStep ==
    ASSUME SelectionInv, NEW p \in RSessions,
           RSucceed(p) \/ RExhausted(p) \/ RKeep(p)
    PROVE  SelectionInv'
<1>1. SelectionTypeOK /\ SessionOK(p) BY InvBySession DEF SelectionInv
<1>2. /\ rcands' = rcands /\ rserves' = rserves /\ rnamed' = rnamed
      /\ rnet' = rnet /\ rleft' = rleft
  BY DEF RSucceed, RExhausted, RKeep
<1>3. PICK to \in {"using", "keep", "lost"} :
        /\ rses' = [rses EXCEPT ![p].pc = to]
        /\ to = "keep" => ~rses[p].claims
        /\ RSucceed(p) => to \in {"using", "keep"}
        /\ RExhausted(p) => to \in {"lost", "keep"}
        /\ RKeep(p) => to = IF rses[p].got = 0 THEN "lost" ELSE "using"
  BY DEF RSucceed, RExhausted, RKeep, RNextStep
<1> DEFINE r == [rses[p] EXCEPT !.pc = to]
<1>4. rses[p] \in RSessionStates BY StateTypes
<1>5. rses' = [rses EXCEPT ![p] = r] BY <1>3, StateTypes
<1>6. r \in RSessionStates BY <1>4 DEF RSessionStates
<1>7. rses'[p] = r BY <1>5, StateTypes
<1>8. rfile' \in [at : RIndexes \cup {0}, net : RNets]
  BY <1>4, StateTypes DEF RSucceed, RExhausted, RKeep, RSessionStates
<1>9. rmem' \in [held : BOOLEAN, at : RIndexes \cup {0}]
  <2>1. CASE RKeep(p) BY <1>4, <2>1 DEF RKeep, RSessionStates
  <2>2. CASE ~RKeep(p) BY <2>2, StateTypes DEF RSucceed, RExhausted
  <2> QED BY <2>1, <2>2
<1>10. SessionOK(p)'
  <2>0. /\ RIndexes' = RIndexes /\ RAuthorities' = RAuthorities
        /\ r.pc = to /\ r.got = rses[p].got /\ r.steady = rses[p].steady
        /\ r.claims = rses[p].claims
    BY <1>2, <1>4, SamePlan DEF RSessionStates
  <2>1. CASE RSucceed(p)
    <3>1. rses[p].pc = "won" /\ 0 \notin RIndexes
      BY <1>1, <2>1 DEF RSucceed, SelectionTypeOK, RIndexes
    <3>2. rses[p].got \in RIndexes
          /\ (rses[p].claims => rses[p].got \in RAuthorities)
      BY <1>1, <3>1 DEF SessionOK
    <3>3. to \in {"using", "keep"} /\ (to = "keep" => ~rses[p].claims)
      BY <1>3, <2>1
    <3> HIDE DEF r
    <3> QED BY <1>7, <2>0, <3>1, <3>2, <3>3 DEF SessionOK
  <2>2. CASE RExhausted(p)
    <3>1. rses[p].pc = "probing" /\ rses[p].left = {} BY <2>2 DEF RExhausted
    <3> QED BY <1>1, <1>3, <1>7, <2>0, <2>2, <3>1 DEF SessionOK
  <2>3. CASE RKeep(p)
    <3>1. rses[p].pc = "keep" BY <2>3 DEF RKeep
    <3> QED BY <1>1, <1>3, <1>4, <1>7, <2>0, <2>3, <3>1
            DEF SessionOK, RSessionStates
  <2> QED BY <2>1, <2>2, <2>3
<1> HIDE DEF r
<1> QED BY <1>2, <1>5, <1>6, <1>8, <1>9, <1>10, StateTypes, SameNamed, OneSession

\* The end of a call, whether it was answered or not.
LEMMA CallEndStep ==
    ASSUME SelectionInv, NEW p \in RSessions, RCallDone(p) \/ RCallFails(p)
    PROVE  SelectionInv'
<1>1. /\ rcands' = rcands /\ rserves' = rserves /\ rnamed' = rnamed
      /\ rnet' = rnet /\ rleft' = rleft
      /\ rses' = [rses EXCEPT ![p] = RIdle]
      /\ rfile' \in {rfile, NoRoute} /\ rmem' \in {rmem, NoMemory}
  BY DEF RCallDone, RCallFails
<1>2. rses'[p] = RIdle BY <1>1, StateTypes
<1>3. SessionOK(p)' BY <1>2 DEF SessionOK, RIdle
<1> QED BY <1>1, <1>3, StateTypes, SameNamed, OneSession

\* Another hub answers at a URL: nobody counts on it any more.
LEMMA ChangeStep ==
    ASSUME SelectionInv, NEW i \in RIndexes, NEW h \in RHubs \cup {"down"},
           RChange(i, h)
    PROVE  SelectionInv'
<1>1. SelectionTypeOK BY DEF SelectionInv
<1>2. rleft' \in [RBounded -> Nat] BY <1>1, RSpendTypes DEF RChange, RBounded
<1>3. SelectionTypeOK'
  <2>1. ASSUME NEW p \in RSessions
        PROVE  [rses[p] EXCEPT !.steady = @ \ {i}] \in RSessionStates
    <3>1. rses[p] \in RSessionStates BY StateTypes
    <3> QED BY <3>1 DEF RSessionStates
  <2>2. rses' \in [RSessions -> RSessionStates] BY <2>1 DEF RChange
  <2>3. RIndexes' = RIndexes BY SamePlan DEF RChange
  <2> QED BY <1>1, <1>2, <2>2, <2>3 DEF SelectionTypeOK, RSessionStates, RChange
<1>4. ASSUME NEW p \in RSessions PROVE SessionOK(p)'
  <2>1. SessionOK(p) BY InvBySession
  <2>2. rses'[p] = [rses[p] EXCEPT !.steady = @ \ {i}] BY DEF RChange
  <2>3. \A j \in RIndexes \ {i} : rserves'[j] = rserves[j]
    BY <1>1 DEF RChange, SelectionTypeOK
  <2> QED BY <1>1, <2>1, <2>2, <2>3, SamePlan
          DEF SessionOK, SelectionTypeOK, RChange
<1> QED BY <1>3, <1>4, SameNamed, SamePlan, InvBySessionNext DEF RChange

\* What moves no resolution.
LEMMA AroundStep ==
    ASSUME SelectionInv, \/ RCacheExpires
                         \/ \E net \in RNets : RMove(net)
                         \/ UNCHANGED selectVars
    PROVE  SelectionInv'
<1>1. SelectionTypeOK BY DEF SelectionInv
<1>2. /\ rcands' = rcands /\ rserves' = rserves /\ rnamed' = rnamed
      /\ rses' = rses /\ rnet' \in RNets
      /\ rfile' \in {rfile, NoRoute} /\ rmem' \in {rmem, NoMemory}
  BY StateTypes DEF RCacheExpires, RMove, selectVars
<1>3. rleft' \in [RBounded -> Nat]
  BY <1>1, RSpendTypes
  DEF RCacheExpires, RMove, selectVars, RBounded, SelectionTypeOK
<1>4. SelectionTypeOK'
  <2>1. RIndexes' = RIndexes BY <1>2, SamePlan
  <2>2. /\ rfile' \in [at : RIndexes \cup {0}, net : RNets]
        /\ rmem' \in [held : BOOLEAN, at : RIndexes \cup {0}]
    BY <1>2, StateTypes
  <2> QED BY <1>1, <1>2, <1>3, <2>1, <2>2 DEF SelectionTypeOK
<1>5. ASSUME NEW p \in RSessions PROVE SessionOK(p)'
  <2>1. SessionOK(p) BY InvBySession
  <2> QED BY <1>2, <2>1, SamePlan DEF SessionOK
<1> QED BY <1>2, <1>4, <1>5, SameNamed, SamePlan, InvBySessionNext

\* Every step.
LEMMA SelectionStep == SelectionInv /\ [SelectionNext]_selectVars => SelectionInv'
BY RecallStep, BeginStep, ProbeStep, ProbeFailsStep, EndStep, CallEndStep,
   ChangeStep, AroundStep
DEF SelectionNext

-----------------------------------------------------------------------------
(* Whatever is configured, remembered and cached, and whoever comes and    *)
(* goes: a resolution takes no hub of a lower role while a better one was  *)
(* there to answer all the time, gives up only when nobody was, sends a    *)
(* claim to the authority only, and takes one hub only for the named       *)
(* authority (Resolution, grouped_route_plans, validate_candidates).       *)
THEOREM AuthorityComesFirst == SelectionSpec => []AuthorityFirst
BY SelectionStart, SelectionStep, SelectionSound, PTL DEF SelectionSpec
===============================================================================
