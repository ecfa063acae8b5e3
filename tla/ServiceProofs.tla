---------------------------- MODULE ServiceProofs ---------------------------
(***************************************************************************)
(* The HTTP service, proved for any number of streams, clients, posters    *)
(* and messages, any history, capacity and retention, and any order of     *)
(* requests, failures and stops: no worker and no open stream outlives the *)
(* service, the id with which a client comes back to its event stream      *)
(* covers only what it was given, and behind the service the PostgreSQL    *)
(* writer loses no message in silence, counts what it holds exactly and    *)
(* answers a flush only when it is done.                                   *)
(***************************************************************************)
EXTENDS ServiceStop, EventStream, PgWriter, FiniteSetTheorems,
        SequenceTheorems, WellFoundedInduction, TLAPS

-----------------------------------------------------------------------------
(* Stopping the service.                                                   *)

\* The streams that SseSubscriberCount counts.
Counted == {s \in VStreams : s \in VRunning \/ vconn[s].pc = "handler"}

\* A worker is spawned by its handler, so before that there is none.
SpawnedByHandler ==
    \A s \in VStreams : vconn[s].pc \in {"none", "handler"} => vwork[s] = "none"

\* The stop flag is never taken back, and is set from the signal on.
StopIsKept == vphase \notin {"serving", "asked"} => vstop

\* A worker that runs is registered, and once shutdown has taken the workers
\* no other comes.
WorkersRegistered ==
    /\ VRunning \subseteq vtasks \cup vjoin
    /\ IF vphase \in {"joining", "ended"} THEN vtasks = {} ELSE vjoin = {}
    /\ vphase = "ended" => VRunning = {}

\* After a clearing no sender comes.
MapCleared == vphase \in {"draining", "cleared", "joining", "ended"} => vmap = {}

CountIsExact == vcount = Cardinality(Counted)

StopInv ==
    /\ StopTypeOK /\ SpawnedByHandler /\ StopIsKept
    /\ WorkersRegistered /\ MapCleared /\ CountIsExact

-----------------------------------------------------------------------------
\* The counted streams are finitely many.
LEMMA CountedFinite ==
    ASSUME NEW S \in SUBSET VStreams
    PROVE  /\ IsFiniteSet(S) /\ Cardinality(S) \in Nat
           /\ Cardinality(VStreams) \in Nat
           /\ Cardinality(S) \in 0 .. Cardinality(VStreams)
<1>1. IsFiniteSet(VStreams)
  BY StopAssumption
<1>2. /\ Cardinality(VStreams) \in Nat /\ IsFiniteSet(S)
      /\ Cardinality(S) <= Cardinality(VStreams)
  BY <1>1, FS_Subset, FS_CardinalityType
<1>3. Cardinality(S) \in Nat
  BY <1>2, FS_CardinalityType
<1> QED BY <1>2, <1>3

\* Nothing runs when the service starts.
LEMMA StopStart == StopInit => StopInv
<1> SUFFICES ASSUME StopInit PROVE StopInv
  OBVIOUS
<1>1. Counted = {}
  BY StopAssumption DEF StopInit, Counted, VRunning, VWorkers, VConns
<1>2. CountIsExact
  BY <1>1, FS_EmptySet DEF StopInit, CountIsExact
<1>3. StopTypeOK
  <2>1. 0 \in 0 .. Cardinality(VStreams)
    BY CountedFinite
  <2>2. vwork \in [VWorkers -> {"none", "queued", "open", "read", "send", "wait", "done"}]
    BY DEF StopInit
  <2>3. vconn \in [VConns -> [pc : {"none", "handler", "body", "closed"},
                              chan : 0 .. VCapacity, todo : 0 .. VHistory]]
    BY StopAssumption DEF StopInit
  <2>4. vleft \in [VBounded -> Nat]
    BY StopAssumption DEF StopInit
  <2> QED BY <2>1, <2>2, <2>3, <2>4 DEF StopInit, StopTypeOK, VWorkers
<1>4. SpawnedByHandler /\ StopIsKept /\ MapCleared
  BY StopAssumption DEF StopInit, SpawnedByHandler, StopIsKept, MapCleared, VWorkers
<1>5. WorkersRegistered
  BY DEF StopInit, WorkersRegistered, VRunning
<1> QED BY <1>2, <1>3, <1>4, <1>5 DEF StopInv
-----------------------------------------------------------------------------
\* What is left of the budget stays a number.
LEMMA VSpendTypes ==
    ASSUME StopTypeOK, NEW what \in VBounded, VSpend(what)
    PROVE  vleft' \in [VBounded -> Nat]
BY DEF StopTypeOK, VSpend

\* A step that moves neither worker nor connection counts nothing new.
LEMMA ServerStep ==
    ASSUME StopInv, VAsk \/ VSignal \/ VServer
    PROVE  StopInv'
<1> USE DEF StopInv
<1>1. vwork' = vwork /\ vconn' = vconn /\ vcount' = vcount
  BY DEF VAsk, VSignal, VServer, VClear, VReturn, VClearAgain, VShutdown, VEnd
<1>2. VRunning' = VRunning /\ Counted' = Counted
  BY <1>1 DEF VRunning, Counted
<1>3. CountIsExact' /\ SpawnedByHandler'
  BY <1>1, <1>2 DEF CountIsExact, SpawnedByHandler
<1>4. vleft' \in [VBounded -> Nat]
  BY VSpendTypes DEF VAsk, VSignal, VServer, VClear, VReturn, VClearAgain,
                     VShutdown, VEnd, VBounded, StopTypeOK
<1>5. StopTypeOK'
  BY <1>1, <1>4 DEF StopTypeOK, VAsk, VSignal, VServer, VClear, VReturn,
                    VClearAgain, VShutdown, VEnd
<1>6. StopIsKept' /\ MapCleared'
  BY DEF StopIsKept, MapCleared, VAsk, VSignal, VServer, VClear, VReturn,
         VClearAgain, VShutdown, VEnd
<1>7. WorkersRegistered'
  <2>1. CASE VEnd
    BY <1>2, <2>1 DEF VEnd, WorkersRegistered, VRunning, StopTypeOK
  <2>2. CASE VShutdown
    BY <1>2, <2>2 DEF VShutdown, WorkersRegistered
  <2> QED BY <1>2, <2>1, <2>2 DEF WorkersRegistered, VAsk, VSignal, VServer,
                                  VClear, VReturn, VClearAgain
<1> QED BY <1>3, <1>5, <1>6, <1>7

\* A connection is one more stream to count, or one of an agent.
LEMMA ConnectStep ==
    ASSUME StopInv, NEW c \in VConns, NEW n \in 0 .. VHistory, VConnect(c, n)
    PROVE  StopInv'
<1> USE DEF StopInv
<1>0. /\ vconn[c].pc = "none" /\ vconn'[c].pc = "handler"
      /\ \A d \in VConns \ {c} : vconn'[d] = vconn[d]
  BY DEF VConnect, StopTypeOK
<1>1. VRunning' = VRunning
  BY DEF VConnect, VRunning
<1>2. CountIsExact'
  <2>1. CASE c \in VStreams
    <3>1. c \notin Counted /\ Counted' = Counted \cup {c}
      BY <1>0, <1>1, <2>1 DEF Counted, VRunning, SpawnedByHandler, VConns
    <3>2. IsFiniteSet(Counted)
      BY CountedFinite DEF Counted
    <3> QED BY <2>1, <3>1, <3>2, FS_AddElement DEF CountIsExact, VConnect
  <2>2. CASE c \notin VStreams
    <3>1. Counted' = Counted
      BY <1>1, <2>2 DEF VConnect, Counted, StopTypeOK, VConns
    <3> QED BY <2>2, <3>1 DEF CountIsExact, VConnect
  <2> QED BY <2>1, <2>2
<1>3. vcount' \in 0 .. Cardinality(VStreams)
  <2>1. Counted' \in SUBSET VStreams
    BY DEF Counted
  <2> QED BY <1>2, <2>1, CountedFinite DEF CountIsExact
<1>4. vconn' \in [VConns -> [pc : {"none", "handler", "body", "closed"},
                             chan : 0 .. VCapacity, todo : 0 .. VHistory]]
  BY DEF VConnect, StopTypeOK
<1>5. StopTypeOK'
  BY <1>3, <1>4 DEF StopTypeOK, VConnect
<1>6. SpawnedByHandler'
  BY DEF SpawnedByHandler, VConnect, StopTypeOK, VConns
<1>7. StopIsKept' /\ MapCleared' /\ WorkersRegistered'
  BY <1>1 DEF StopIsKept, MapCleared, WorkersRegistered, VConnect
<1> QED BY <1>2, <1>5, <1>6, <1>7

\* A spawned worker is registered at once; one that is refused is no longer
\* counted.
LEMMA SpawnStep ==
    ASSUME StopInv, NEW s \in VStreams, VSpawn(s)
    PROVE  StopInv'
<1> USE DEF StopInv
<1>1. /\ vconn[s].pc = "handler" /\ vwork[s] = "none" /\ s \in VWorkers
      /\ s \in VConns
  BY DEF VSpawn, SpawnedByHandler, VWorkers, VConns
<1>2. /\ vconn' \in [VConns -> [pc : {"none", "handler", "body", "closed"},
                                chan : 0 .. VCapacity, todo : 0 .. VHistory]]
      /\ vconn'[s].pc = "body"
      /\ \A t \in VStreams \ {s} : vconn'[t] = vconn[t]
  BY <1>1 DEF VSpawn, StopTypeOK, VConns
<1>3. CASE VAdmits
  <2>1. /\ vtasks' = {w \in vtasks : vwork[w] # "done"} \cup {s}
        /\ vwork' = [vwork EXCEPT ![s] = "queued"] /\ vcount' = vcount
        /\ UNCHANGED <<vphase, vstop, vjoin, vmap, vleft>>
    BY <1>3 DEF VSpawn
  <2>2. VRunning' = VRunning \cup {s}
    BY <1>1, <2>1 DEF VRunning, StopTypeOK
  <2>3. Counted' = Counted
    BY <1>1, <1>2, <2>2 DEF Counted
  <2>4. CountIsExact' /\ SpawnedByHandler'
    BY <1>1, <1>2, <2>1, <2>3 DEF CountIsExact, SpawnedByHandler, StopTypeOK, VWorkers
  <2>5. vphase \in {"serving", "asked"}
    BY <1>3 DEF VAdmits, StopIsKept
  <2>6. WorkersRegistered'
    BY <2>1, <2>2, <2>5 DEF WorkersRegistered, VRunning
  <2>7. StopTypeOK'
    BY <1>1, <1>2, <2>1 DEF StopTypeOK
  <2> QED BY <2>1, <2>4, <2>6, <2>7 DEF StopIsKept, MapCleared
<1>4. CASE ~VAdmits
  <2>1. /\ vtasks' = {w \in vtasks : vwork[w] # "done"}
        /\ vwork' = vwork /\ vcount' = vcount - 1
        /\ UNCHANGED <<vphase, vstop, vjoin, vmap, vleft>>
    BY <1>4 DEF VSpawn, VUncount
  <2>2. VRunning' = VRunning
    BY <2>1 DEF VRunning
  <2>3. s \in Counted /\ Counted' = Counted \ {s}
    BY <1>1, <1>2, <2>2 DEF Counted, VRunning
  <2>4. CountIsExact'
    <3>1. IsFiniteSet(Counted)
      BY CountedFinite DEF Counted
    <3> QED BY <2>1, <2>3, <3>1, FS_RemoveElement DEF CountIsExact
  <2>5. vcount' \in 0 .. Cardinality(VStreams)
    <3>1. Counted' \in SUBSET VStreams
      BY DEF Counted
    <3> QED BY <2>4, <3>1, CountedFinite DEF CountIsExact
  <2>6. SpawnedByHandler'
    BY <1>2, <2>1 DEF SpawnedByHandler
  <2>7. WorkersRegistered'
    BY <2>1, <2>2 DEF WorkersRegistered, VRunning
  <2>8. StopTypeOK'
    BY <1>2, <2>1, <2>5 DEF StopTypeOK
  <2> QED BY <2>1, <2>4, <2>6, <2>7, <2>8 DEF StopIsKept, MapCleared
<1> QED BY <1>3, <1>4

\* A step that ends no worker and begins none.
SameWorkers ==
    /\ UNCHANGED <<vphase, vstop, vtasks, vjoin, vcount>>
    /\ VRunning' = VRunning
    /\ \A s \in VStreams :
          /\ (vconn'[s].pc = "handler") <=> (vconn[s].pc = "handler")
          /\ (vconn'[s].pc = "none") <=> (vconn[s].pc = "none")
          /\ (vwork'[s] = "none") <=> (vwork[s] = "none")

\* A step of a connection or of the server that starts and ends no worker: the
\* count stays exact, and the map of cancel handles only grows before the stop.
LEMMA SameWorkersStep ==
    ASSUME StopInv, SameWorkers, StopTypeOK',
           vmap' \subseteq vmap \/ (~vstop /\ vphase \in {"serving", "asked"})
    PROVE  StopInv'
<1> USE DEF StopInv, SameWorkers
<1>1. Counted' = Counted
  BY DEF Counted
<1>2. CountIsExact' /\ SpawnedByHandler'
  BY <1>1 DEF CountIsExact, SpawnedByHandler
<1>3. StopIsKept' /\ MapCleared' /\ WorkersRegistered'
  BY DEF StopIsKept, MapCleared, WorkersRegistered
<1> QED BY <1>2, <1>3

\* The end of a worker: it is registered still, and counted no longer.
LEMMA GiveUpStep ==
    ASSUME StopInv, NEW w \in VWorkers, VGiveUp(w),
           vwork[w] \notin {"none", "done"},
           vleft' \in [VBounded -> Nat],
           UNCHANGED <<vphase, vstop, vtasks, vjoin, vconn, vmap>>
    PROVE  StopInv'
<1> USE DEF StopInv
<1>1. CASE w = VBridge
  <2>1. vcount' = vcount /\ vwork' = [vwork EXCEPT ![w] = "wait"]
    BY <1>1 DEF VGiveUp
  <2>2. StopTypeOK'
    BY <2>1 DEF StopTypeOK
  <2>3. SameWorkers
    BY <1>1, <2>1, StopAssumption DEF SameWorkers, StopTypeOK, VRunning, VWorkers
  <2> QED BY <2>2, <2>3, SameWorkersStep
<1>2. CASE w # VBridge
  <2>1. /\ w \in VStreams /\ vcount' = vcount - 1
        /\ vwork' = [vwork EXCEPT ![w] = "done"]
    BY <1>2 DEF VGiveUp, VUncount, VWorkers
  <2>2. VRunning' = VRunning \ {w}
    BY <2>1 DEF VRunning, StopTypeOK
  <2>3. w \in Counted /\ Counted' = Counted \ {w}
    BY <2>1, <2>2 DEF Counted, VRunning, SpawnedByHandler, VWorkers
  <2>4. CountIsExact'
    <3>1. IsFiniteSet(Counted)
      BY CountedFinite DEF Counted
    <3> QED BY <2>1, <2>3, <3>1, FS_RemoveElement DEF CountIsExact
  <2>5. vcount' \in 0 .. Cardinality(VStreams)
    <3>1. Counted' \in SUBSET VStreams
      BY DEF Counted
    <3> QED BY <2>4, <3>1, CountedFinite DEF CountIsExact
  <2>6. SpawnedByHandler'
    BY <2>1 DEF SpawnedByHandler, StopTypeOK
  <2>7. WorkersRegistered'
    BY <2>2 DEF WorkersRegistered
  <2>8. StopTypeOK'
    BY <2>1, <2>5 DEF StopTypeOK
  <2> QED BY <2>4, <2>6, <2>7, <2>8 DEF StopIsKept, MapCleared
<1> QED BY <1>1, <1>2

\* A worker that goes on.
LEMMA GoOnStep ==
    ASSUME StopInv, NEW w \in VWorkers, NEW pc \in {"open", "read", "send"},
           vwork[w] \notin {"none", "done"},
           vwork' = [vwork EXCEPT ![w] = pc],
           vleft' \in [VBounded -> Nat],
           vconn' \in [VConns -> [pc : {"none", "handler", "body", "closed"},
                                  chan : 0 .. VCapacity, todo : 0 .. VHistory]],
           \A c \in VConns : vconn'[c].pc = vconn[c].pc,
           vmap' \subseteq vmap,
           UNCHANGED <<vphase, vstop, vtasks, vjoin, vcount>>
    PROVE  StopInv'
<1> USE DEF StopInv
<1>1. StopTypeOK'
  BY DEF StopTypeOK
<1>2. VRunning' = VRunning
  BY DEF VRunning, StopTypeOK
<1>3. SameWorkers
  BY <1>2 DEF SameWorkers, StopTypeOK, VWorkers, VConns
<1> QED BY <1>1, <1>3, SameWorkersStep

\* A worker that waits, reads, gives up or ends.
LEMMA WorkerStep ==
    ASSUME StopInv, NEW w \in VWorkers, VWorker(w)
    PROVE  StopInv'
<1> USE DEF StopInv
<1>0. vleft \in [VBounded -> Nat] /\ {"events", "failures"} \subseteq VBounded
  BY DEF StopTypeOK, VBounded
<1>t. vconn \in [VConns -> [pc : {"none", "handler", "body", "closed"},
                           chan : 0 .. VCapacity, todo : 0 .. VHistory]]
  BY DEF StopTypeOK
<1>1. CASE VBegin(w)
  <2>1. CASE w = VBridge /\ vstop
    <3>1. vwork' = [vwork EXCEPT ![w] = "done"] /\ vwork[w] = "queued"
      BY <1>1, <2>1 DEF VBegin
    <3>2. VRunning' \subseteq VRunning
      BY <3>1 DEF VRunning, StopTypeOK
    <3>3. Counted' = Counted
      BY <1>1, <2>1, <3>1, StopAssumption DEF VBegin, Counted, VRunning, StopTypeOK, VWorkers
    <3>4. StopTypeOK' /\ CountIsExact'
      BY <1>1, <3>1, <3>3 DEF StopTypeOK, CountIsExact, VBegin
    <3>5. SpawnedByHandler'
      BY <1>1, <2>1, <3>1, StopAssumption DEF SpawnedByHandler, VBegin, StopTypeOK
    <3> QED BY <1>1, <3>2, <3>4, <3>5
            DEF VBegin, WorkersRegistered, StopIsKept, MapCleared
  <2>2. CASE ~(w = VBridge /\ vstop)
    <3>1. vwork' = [vwork EXCEPT ![w] = "open"] /\ vwork[w] = "queued"
      BY <1>1, <2>2 DEF VBegin
    <3> QED BY <1>0, <1>t, <1>1, <3>1, GoOnStep DEF VBegin
  <2> QED BY <2>1, <2>2
<1>2. CASE VOpen(w)
  BY <1>0, <1>t, <1>2, GoOnStep DEF VOpen
<1>3. CASE VOpenFails(w)
  BY <1>0, <1>3, VSpendTypes, GiveUpStep DEF VOpenFails
<1>4. CASE VLoopEnds(w)
  BY <1>0, <1>4, GiveUpStep DEF VLoopEnds
<1>5. CASE VGetMessage(w)
  BY <1>0, <1>t, <1>5, VSpendTypes, GoOnStep DEF VGetMessage
<1>6. CASE VReadFails(w)
  BY <1>0, <1>6, VSpendTypes, GiveUpStep DEF VReadFails
<1> QED BY <1>1, <1>2, <1>3, <1>4, <1>5, <1>6 DEF VWorker

\* A stream hands one event to its response, or notices that it may not.
LEMMA VSendStep ==
    ASSUME StopInv, NEW s \in VStreams, VSend(s)
    PROVE  StopInv'
<1> USE DEF StopInv
<1>1. s \in VWorkers /\ s \in VConns /\ vleft \in [VBounded -> Nat]
  BY DEF VWorkers, VConns, StopTypeOK
<1>2. CASE VCancels \/ VClosed(s)
  BY <1>1, <1>2, GiveUpStep DEF VSend
<1>3. CASE ~(VCancels \/ VClosed(s))
  <2>1. /\ vconn' \in [VConns -> [pc : {"none", "handler", "body", "closed"},
                                  chan : 0 .. VCapacity, todo : 0 .. VHistory]]
        /\ \A c \in VConns : vconn'[c].pc = vconn[c].pc
    BY <1>1, <1>3, StopAssumption DEF VSend, StopTypeOK
  <2> QED BY <1>1, <1>3, <2>1, GoOnStep DEF VSend
<1> QED BY <1>2, <1>3

\* The bridge gives an event to the senders in the map.
LEMMA PushStep ==
    ASSUME StopInv, VPush
    PROVE  StopInv'
<1> USE DEF StopInv
<1>1. VBridge \in VWorkers /\ vleft \in [VBounded -> Nat]
  BY DEF VWorkers, StopTypeOK
<1>2. /\ vconn' \in [VConns -> [pc : {"none", "handler", "body", "closed"},
                                chan : 0 .. VCapacity, todo : 0 .. VHistory]]
      /\ \A c \in VConns : vconn'[c].pc = vconn[c].pc
      /\ vmap' \subseteq vmap
  BY StopAssumption DEF VPush, StopTypeOK
<1> QED BY <1>1, <1>2, GoOnStep DEF VPush

\* The bridge connects again after a failure, unless the service is stopping.
LEMMA RetryStep ==
    ASSUME StopInv, VRetry
    PROVE  StopInv'
<1> USE DEF StopInv
<1>1. /\ VBridge \in VWorkers /\ VBridge \notin VStreams
      /\ vleft \in [VBounded -> Nat]
  BY StopAssumption DEF VWorkers, StopTypeOK
<1>2. CASE vstop
  <2>1. VRunning' \subseteq VRunning /\ Counted' = Counted
    BY <1>1, <1>2 DEF VRetry, VRunning, Counted, StopTypeOK, VWorkers
  <2>2. StopTypeOK' /\ CountIsExact' /\ SpawnedByHandler'
    BY <1>1, <1>2, <2>1 DEF StopTypeOK, CountIsExact, SpawnedByHandler, VRetry
  <2> QED BY <2>1, <2>2 DEF VRetry, WorkersRegistered, StopIsKept, MapCleared
<1>3. CASE ~vstop
  BY <1>1, <1>3, GoOnStep DEF VRetry, StopTypeOK
<1> QED BY <1>2, <1>3

-----------------------------------------------------------------------------
\* Replay and registration of an agent's stream, and the responses.
LEMMA ReplayStep ==
    ASSUME StopInv, NEW a \in VAgents, VReplay(a) \/ VRegister(a)
    PROVE  StopInv'
<1> USE DEF StopInv
<1>1. a \in VConns /\ a \notin VStreams
  BY StopAssumption DEF VConns
<1>2. vconn' \in [VConns -> [pc : {"none", "handler", "body", "closed"},
                             chan : 0 .. VCapacity, todo : 0 .. VHistory]]
  BY <1>1, StopAssumption DEF VReplay, VRegister, StopTypeOK
<1>3. StopTypeOK'
  BY <1>2 DEF StopTypeOK, VReplay, VRegister, VJoins
<1>4. SameWorkers
  BY <1>1 DEF SameWorkers, VReplay, VRegister, VRunning, StopTypeOK, VConns
<1>5. vmap' \subseteq vmap \/ (~vstop /\ vphase \in {"serving", "asked"})
  BY DEF VReplay, VRegister, VJoins, StopIsKept
<1> QED BY <1>3, <1>4, <1>5, SameWorkersStep

\* A response takes an event, ends, or is left by its client.
LEMMA ResponseStep ==
    ASSUME StopInv, NEW c \in VConns, VTake(c) \/ VBodyEnds(c) \/ VLeave(c)
    PROVE  StopInv'
<1> USE DEF StopInv
<1>1. vleft' \in [VBounded -> Nat]
  BY VSpendTypes DEF VTake, VBodyEnds, VLeave, VBounded, StopTypeOK
<1>2. vconn' \in [VConns -> [pc : {"none", "handler", "body", "closed"},
                             chan : 0 .. VCapacity, todo : 0 .. VHistory]]
  BY StopAssumption DEF VTake, VBodyEnds, VLeave, StopTypeOK
<1>3. StopTypeOK'
  BY <1>1, <1>2 DEF StopTypeOK, VTake, VBodyEnds, VLeave
<1>4. SameWorkers
  BY StopAssumption DEF SameWorkers, VTake, VBodyEnds, VLeave, VRunning,
                        StopTypeOK, VConns
<1> QED BY <1>3, <1>4, SameWorkersStep DEF VTake, VBodyEnds, VLeave

-----------------------------------------------------------------------------
\* Every step of the service keeps the invariant.
LEMMA StopStep == StopInv /\ [StopNext]_stopVars => StopInv'
<1> SUFFICES ASSUME StopInv, [StopNext]_stopVars PROVE StopInv'
  OBVIOUS
<1>1. CASE UNCHANGED stopVars
  BY <1>1 DEF stopVars, StopInv, StopTypeOK, SpawnedByHandler, StopIsKept,
              WorkersRegistered, MapCleared, CountIsExact, Counted, VRunning
<1>2. CASE StopNext
  BY <1>2, ServerStep, ConnectStep, SpawnStep, WorkerStep, VSendStep, PushStep,
     RetryStep, ReplayStep, ResponseStep DEF StopNext, VHandler
<1> QED BY <1>1, <1>2

LEMMA StopSound == StopInv => NothingOutlivesService
BY DEF StopInv, NothingOutlivesService, WorkersRegistered, MapCleared,
       CountIsExact, Counted

\* Type correctness of the model of the service's end.
THEOREM StopTypeCorrect == StopSpec => []StopTypeOK
BY StopStart, StopStep, PTL DEF StopSpec, StopInv

(* In every state of every behaviour, however many streams there are and   *)
(* whenever the stop comes: a worker that runs is registered or waited     *)
(* for, /events is counted exactly, and nothing is left when the service   *)
(* has ended (PubSubWorkers, http_sse_agent_handler, start_http_server).   *)
THEOREM NothingOutlives == StopSpec => []NothingOutlivesService
BY StopStart, StopStep, StopSound, PTL DEF StopSpec

-----------------------------------------------------------------------------
(* Event streams.                                                          *)

EConns == [pc : {"closed", "replay", "send", "open"}, todo : Seq(EEvents),
           chan : Seq(EEvents), live : BOOLEAN]

\* A post is notified once.
Notified == {m \in EMsgs : epost[m] = "done"}
NotesCounted == Len(enotes) <= Cardinality(Notified)

\* The id of an event is the position of its notification.
IdsAreTrue(q) ==
    \A i \in 1 .. Len(q) : q[i].id # 0 =>
        q[i].id <= Len(enotes) /\ q[i].msg = enotes[q[i].id]

\* Events with an id come first, and their ids have no gap.
IdsInOrder(q) ==
    \A i, j \in 1 .. Len(q) : (j = i + 1 /\ q[j].id # 0) =>
        q[i].id # 0 /\ q[j].id = q[i].id + 1

\* q begins where a client with this last id is, or where the stream begins.
StartsAt(q, last) ==
    (q # <<>> /\ q[1].id # 0 /\ last > 0) => (q[1].id <= last + 1 \/ q[1].id <= EFirst)

(* What a connection holds: the rest of a replay behind the part of it     *)
(* that is in the channel, and live events only once it is registered.     *)
ConnOK(k, last) ==
    /\ IdsAreTrue(k.chan) /\ IdsAreTrue(k.todo)
    /\ IdsInOrder(k.chan) /\ IdsInOrder(k.todo)
    /\ StartsAt(k.chan, last)
    /\ k.chan = <<>> => StartsAt(k.todo, last)
    /\ (k.chan # <<>> /\ k.todo # <<>>) =>
           /\ k.chan[Len(k.chan)].id # 0
           /\ k.todo[1].id = k.chan[Len(k.chan)].id + 1
    /\ \A i \in 1 .. Len(k.todo) : k.todo[i].id # 0
    /\ k.pc # "send" => k.todo = <<>>
    /\ k.pc \in {"closed", "replay"} => k.chan = <<>>
    /\ k.live => k.pc = "open"

\* What a client remembers.
ClientOK(k) ==
    /\ k.last <= Len(enotes)
    /\ k.base = 0 <=> k.last = 0

EventsInv ==
    /\ EventsTypeOK /\ NotesCounted /\ LastIdMissesNothing
    /\ \A c \in EClients : ConnOK(econn[c], eclient[c].last) /\ ClientOK(eclient[c])

\* What holds of connections and clients stays when nothing they see changes.
LEMMA SeenSame ==
    ASSUME EFirst' = EFirst, enotes' = enotes, econn' = econn, eclient' = eclient,
           \A c \in EClients : ConnOK(econn[c], eclient[c].last) /\ ClientOK(eclient[c])
    PROVE  \A c \in EClients : ConnOK(econn[c], eclient[c].last)' /\ ClientOK(eclient[c])'
<1> SUFFICES ASSUME NEW c \in EClients
             PROVE  ConnOK(econn[c], eclient[c].last)' /\ ClientOK(eclient[c])'
  OBVIOUS
<1>1. ConnOK(econn'[c], eclient'[c].last) /\ ClientOK(eclient'[c])
  OBVIOUS
<1>2. ConnOK(econn[c], eclient[c].last)'
  BY <1>1 DEF ConnOK, IdsAreTrue, IdsInOrder, StartsAt
<1>3. ClientOK(eclient[c])'
  BY <1>1 DEF ClientOK
<1> QED BY <1>2, <1>3

\* Sequences of events, or of messages: one more, one less.
LEMMA AppendIs ==
    ASSUME NEW S, NEW q \in Seq(S), NEW e \in S
    PROVE  /\ Append(q, e) \in Seq(S) /\ Len(Append(q, e)) = Len(q) + 1
           /\ Len(q) \in Nat /\ Append(q, e) # <<>>
           /\ \A i \in 1 .. Len(q) : Append(q, e)[i] = q[i]
           /\ Append(q, e)[Len(q) + 1] = e
OBVIOUS

\* What is left of a sequence.
LEMMA TailIs ==
    ASSUME NEW S, NEW q \in Seq(S), q # <<>>
    PROVE  /\ Tail(q) \in Seq(S) /\ Len(Tail(q)) = Len(q) - 1
           /\ Len(q) \in Nat \ {0} /\ Head(q) = q[1] /\ q[1] \in S
           /\ \A i \in 1 .. Len(Tail(q)) : Tail(q)[i] = q[i + 1]
           /\ Tail(q) # <<>> => Len(q) >= 2
OBVIOUS

\* The notifications fit.
LEMMA NotesFit ==
    ASSUME EventsTypeOK, NotesCounted
    PROVE  Len(enotes) \in 0 .. EMaxMsgs /\ IsFiniteSet(Notified)
<1>1. EMaxMsgs \in Nat BY EventsAssumption
<1>2. IsFiniteSet(EMsgs) /\ Cardinality(EMsgs) = EMaxMsgs
  BY <1>1, FS_Interval DEF EMsgs
<1>3. Notified \subseteq EMsgs BY DEF Notified
<1>4. IsFiniteSet(Notified) /\ Cardinality(Notified) <= EMaxMsgs
  BY <1>2, <1>3, FS_Subset
<1>5. Cardinality(Notified) \in Nat /\ Len(enotes) \in Nat
  BY <1>4, FS_CardinalityType DEF EventsTypeOK
<1> QED BY <1>1, <1>4, <1>5 DEF NotesCounted

\* Nobody is connected and nothing is posted at first.
LEMMA EventsStart == EventsInit => EventsInv
<1> SUFFICES ASSUME EventsInit PROVE EventsInv OBVIOUS
<1>0. EMaxMsgs \in Nat /\ ECapacity \in Nat BY EventsAssumption
<1>1. EClosed \in EConns BY DEF EClosed, EConns
<1>2. EventsTypeOK
  <2>1. 0 \in EPositions BY <1>0 DEF EPositions
  <2>2. \A c \in EClients : Len(econn[c].chan) <= ECapacity
    <3>1. \A c \in EClients : econn[c].chan = <<>> BY DEF EventsInit, EClosed
    <3>2. Len(<<>>) = 0 OBVIOUS
    <3>3. Len(<<>>) <= ECapacity BY <1>0, <3>2
    <3> QED BY <3>1, <3>3
  <2>3. econn \in [EClients -> EConns] BY <1>1 DEF EventsInit
  <2>4. eclient \in [EClients -> [last : EPositions, base : EPositions, got : SUBSET EMsgs]]
    BY <2>1 DEF EventsInit
  <2>5. epub \in [up : BOOLEAN, queue : Seq(EMsgs)] BY DEF EventsInit, EBridge
  <2>6. eleft \in [EBounded -> Nat] BY EventsAssumption DEF EventsInit
  <2>7. epost \in [EMsgs -> {"none", "added", "published", "done"}] /\ enotes \in Seq(EMsgs)
    BY DEF EventsInit
  <2> QED BY <2>2, <2>3, <2>4, <2>5, <2>6, <2>7 DEF EventsTypeOK, EConns
<1>3. NotesCounted
  <2>1. Notified = {} BY DEF EventsInit, Notified
  <2> QED BY <2>1, FS_EmptySet DEF EventsInit, NotesCounted
<1>4. LastIdMissesNothing
  BY EventsAssumption DEF EventsInit, LastIdMissesNothing, EFirst
<1>5. ASSUME NEW c \in EClients
      PROVE  ConnOK(econn[c], eclient[c].last) /\ ClientOK(eclient[c])
  <2>1. /\ econn[c].chan = <<>> /\ econn[c].todo = <<>>
        /\ econn[c].pc = "closed" /\ econn[c].live = FALSE
    BY DEF EventsInit, EClosed
  <2>2. eclient[c].last = 0 /\ eclient[c].base = 0 /\ Len(enotes) = 0 BY DEF EventsInit
  <2>3. ConnOK(econn[c], eclient[c].last)
    BY <2>1 DEF ConnOK, IdsAreTrue, IdsInOrder, StartsAt
  <2> QED BY <2>2, <2>3 DEF ClientOK
<1> QED BY <1>2, <1>3, <1>4, <1>5 DEF EventsInv

\* A budget is never overspent.
LEMMA ESpendTypes ==
    ASSUME EventsTypeOK, NEW w \in EBounded, ESpend(w)
    PROVE  eleft' \in [EBounded -> Nat]
<1>1. eleft[w] - 1 \in Nat BY DEF ESpend, EventsTypeOK
<1> QED BY <1>1 DEF ESpend, EventsTypeOK

\* Posting, up to the notification.
LEMMA EPostStep ==
    ASSUME EventsInv, NEW m \in EMsgs, EAdd(m) \/ EPublish(m)
    PROVE  EventsInv'
<1> USE DEF EventsInv
<1>0. {"posts", "connects", "faults"} \subseteq EBounded BY DEF EBounded
<1>1. eleft' \in [EBounded -> Nat]
  BY <1>0, ESpendTypes DEF EAdd, EPublish, EventsTypeOK
<1>2. /\ enotes' = enotes /\ econn' = econn /\ eclient' = eclient
      /\ epost' \in [EMsgs -> {"none", "added", "published", "done"}]
      /\ \A n \in EMsgs : epost[n] = "done" <=> epost'[n] = "done"
  BY DEF EAdd, EPublish, EventsTypeOK
<1>3. epub' \in [up : BOOLEAN, queue : Seq(EMsgs)]
  <2>1. Append(epub.queue, m) \in Seq(EMsgs) BY AppendIs DEF EventsTypeOK
  <2> QED BY <2>1 DEF EAdd, EPublish, EventsTypeOK
<1>4. EventsTypeOK' BY <1>1, <1>2, <1>3 DEF EventsTypeOK
<1>5. NotesCounted'
  <2>1. Notified' = Notified BY <1>2 DEF Notified
  <2> QED BY <1>2, <2>1 DEF NotesCounted
<1>6. EFirst' = EFirst BY <1>2 DEF EFirst
<1>7. LastIdMissesNothing' BY <1>2, <1>6 DEF LastIdMissesNothing
<1>8. \A c \in EClients : ConnOK(econn[c], eclient[c].last)' /\ ClientOK(eclient[c])'
  BY <1>2, <1>6, SeenSame
<1> QED BY <1>4, <1>5, <1>7, <1>8

\* A notification is appended: what was in the stream stays where it was.
LEMMA ENotifyStep ==
    ASSUME EventsInv, NEW m \in EMsgs, ENotify(m)
    PROVE  EventsInv'
<1> USE DEF EventsInv
<1>0. {"posts", "connects", "faults"} \subseteq EBounded BY DEF EBounded
<1>1. eleft' \in [EBounded -> Nat]
  BY <1>0, ESpendTypes DEF ENotify, EventsTypeOK
<1>2. /\ econn' = econn /\ eclient' = eclient /\ epub' = epub
      /\ epost' = [epost EXCEPT ![m] = "done"] /\ epost[m] = "published"
      /\ epost' \in [EMsgs -> {"none", "added", "published", "done"}]
  BY DEF ENotify, EventsTypeOK
<1>3. /\ enotes' \in Seq(EMsgs) /\ Len(enotes) \in Nat
      /\ Len(enotes') \in {Len(enotes), Len(enotes) + 1}
      /\ \A p \in 1 .. Len(enotes) : enotes'[p] = enotes[p]
  <2>1. enotes \in Seq(EMsgs) BY DEF EventsTypeOK
  <2> QED BY <2>1, AppendIs DEF ENotify
<1>4. EventsTypeOK' BY <1>1, <1>2, <1>3 DEF EventsTypeOK
<1>5. NotesCounted'
  <2>1. Notified' = Notified \cup {m} /\ m \notin Notified
    BY <1>2 DEF Notified, EventsTypeOK
  <2>2. IsFiniteSet(Notified) BY NotesFit
  <2>3. Cardinality(Notified') = Cardinality(Notified) + 1
    BY <2>1, <2>2, FS_AddElement
  <2>4. Cardinality(Notified) \in Nat BY <2>2, FS_CardinalityType
  <2> QED BY <1>3, <2>3, <2>4 DEF NotesCounted
<1>6. EFirst' >= EFirst /\ EFirst \in Nat /\ EFirst' \in Nat /\ EFirst >= 1
  BY <1>3, EventsAssumption DEF EFirst
<1>7. LastIdMissesNothing'
  <2> SUFFICES ASSUME NEW c \in EClients, NEW p \in EFirst' .. eclient[c].last,
                      p >= eclient[c].base
               PROVE  enotes'[p] \in eclient[c].got
    BY <1>2 DEF LastIdMissesNothing
  <2>1. eclient[c].last \in Nat /\ eclient[c].last <= Len(enotes)
    BY DEF ClientOK, EventsTypeOK, EPositions
  <2>2. p \in EFirst .. eclient[c].last /\ p \in 1 .. Len(enotes) BY <1>3, <1>6, <2>1
  <2> QED BY <1>3, <2>2 DEF LastIdMissesNothing
<1>8. ASSUME NEW c \in EClients
      PROVE  ConnOK(econn[c], eclient[c].last)' /\ ClientOK(eclient[c])'
  <2> DEFINE k == econn[c]
             l == eclient[c].last
  <2>0. ConnOK(k, l) /\ ClientOK(eclient[c]) OBVIOUS
  <2>1. k \in EConns /\ l \in Nat
    BY DEF EventsTypeOK, EConns, EPositions
  <2>2. k.chan \in Seq(EEvents) /\ k.todo \in Seq(EEvents) BY <2>1 DEF EConns
  <2>3. \A q \in Seq(EEvents) : IdsAreTrue(q) => IdsAreTrue(q)'
    <3> SUFFICES ASSUME NEW q \in Seq(EEvents), IdsAreTrue(q),
                        NEW i \in 1 .. Len(q), q[i].id # 0
                 PROVE  q[i].id <= Len(enotes') /\ q[i].msg = enotes'[q[i].id]
      BY DEF IdsAreTrue
    <3>1. q[i] \in EEvents OBVIOUS
    <3>2. q[i].id \in Nat BY <3>1 DEF EEvents, EPositions
    <3>3. q[i].id <= Len(enotes) /\ q[i].msg = enotes[q[i].id] BY DEF IdsAreTrue
    <3> QED BY <1>3, <3>2, <3>3
  <2>4. \A q \in Seq(EEvents) : StartsAt(q, l) => StartsAt(q, l)'
    <3> SUFFICES ASSUME NEW q \in Seq(EEvents), StartsAt(q, l), q # <<>>, q[1].id # 0
                 PROVE  l > 0 => (q[1].id <= l + 1 \/ q[1].id <= EFirst')
      BY <1>2 DEF StartsAt
    <3>1. q[1] \in EEvents OBVIOUS
    <3>2. q[1].id \in Nat BY <3>1 DEF EEvents, EPositions
    <3> QED BY <1>6, <2>1, <3>2 DEF StartsAt
  <2>5. IdsAreTrue(k.chan)' /\ IdsAreTrue(k.todo)'
    BY <1>2, <2>0, <2>2, <2>3 DEF ConnOK, IdsAreTrue
  <2>6. StartsAt(k.chan, l)' /\ (k.chan = <<>> => StartsAt(k.todo, l)')
    BY <1>2, <2>0, <2>2, <2>4 DEF ConnOK, StartsAt
  <2>7. ConnOK(k, l)' BY <1>2, <2>0, <2>5, <2>6 DEF ConnOK, IdsInOrder
  <2>8. ClientOK(eclient[c])' BY <1>2, <1>3, <2>0, <2>1 DEF ClientOK
  <2> QED BY <2>7, <2>8
<1> QED BY <1>4, <1>5, <1>7, <1>8

\* A step that changes one connection, and nothing a connection is compared with.
LEMMA OneConnStep ==
    ASSUME EventsInv, NEW c \in EClients, NEW k \in EConns,
           econn' = [econn EXCEPT ![c] = k], Len(k.chan) <= ECapacity,
           ConnOK(k, eclient[c].last), eleft' \in [EBounded -> Nat],
           UNCHANGED <<epost, enotes, epub, eclient>>
    PROVE  EventsInv'
<1> USE DEF EventsInv
<1>0. econn \in [EClients -> EConns] BY DEF EventsTypeOK, EConns
<1>1. econn' \in [EClients -> EConns] BY <1>0
<1>2. \A d \in EClients : econn'[d] = IF d = c THEN k ELSE econn[d] BY <1>0
<1>3. \A d \in EClients : Len(econn'[d].chan) <= ECapacity BY <1>2 DEF EventsTypeOK
<1>4. EventsTypeOK' BY <1>1, <1>3 DEF EventsTypeOK, EConns
<1>5. NotesCounted' BY DEF NotesCounted, Notified
<1>6. EFirst' = EFirst BY DEF EFirst
<1>7. LastIdMissesNothing' BY <1>6 DEF LastIdMissesNothing
<1>8. ASSUME NEW d \in EClients
      PROVE  ConnOK(econn[d], eclient[d].last)' /\ ClientOK(eclient[d])'
  <2>1. ConnOK(econn'[d], eclient[d].last) BY <1>2
  <2>2. ConnOK(econn[d], eclient[d].last)'
    BY <1>6, <2>1 DEF ConnOK, IdsAreTrue, IdsInOrder, StartsAt
  <2> QED BY <2>2 DEF ClientOK
<1> QED BY <1>4, <1>5, <1>7, <1>8

\* The bridge pushes only behind what has an id.
LEMMA EPushStep ==
    ASSUME EventsInv, EPush
    PROVE  EventsInv'
<1> USE DEF EventsInv
<1> DEFINE m == Head(epub.queue)
           e == EEvent(m, LiveId(m))
<1>0. econn \in [EClients -> EConns] BY DEF EventsTypeOK, EConns
<1>1. /\ enotes' = enotes /\ epost' = epost /\ eclient' = eclient /\ eleft' = eleft
      /\ epub' = [epub EXCEPT !.queue = Tail(@)] /\ epub.queue # <<>>
  BY DEF EPush
<1>2. epub.queue \in Seq(EMsgs) /\ epub \in [up : BOOLEAN, queue : Seq(EMsgs)]
  BY DEF EventsTypeOK
<1>3. m \in EMsgs /\ Tail(epub.queue) \in Seq(EMsgs) BY <1>1, <1>2, TailIs
<1>4. epub' \in [up : BOOLEAN, queue : Seq(EMsgs)] BY <1>1, <1>2, <1>3
<1>5. e \in EEvents /\ e.id = 0
  BY <1>3, EventsAssumption DEF EEvent, EEvents, EPositions, LiveId
<1>6. \A c \in EClients :
         econn'[c] = CASE ~econn[c].live -> econn[c]
              [] econn[c].live /\ HasSpace(c) -> [econn[c] EXCEPT !.chan = Append(@, e)]
              [] OTHER -> [econn[c] EXCEPT !.live = FALSE]
  BY DEF EPush
<1>6a. econn' = [c \in EClients |-> econn'[c]] BY DEF EPush
<1>7. EFirst' = EFirst BY <1>1 DEF EFirst
<1> HIDE DEF m, e
<1>8. ASSUME NEW c \in EClients
      PROVE  /\ econn'[c] \in EConns /\ Len(econn'[c].chan) <= ECapacity
             /\ ConnOK(econn'[c], eclient[c].last)
  <2>0. /\ econn[c] \in EConns /\ ConnOK(econn[c], eclient[c].last)
        /\ Len(econn[c].chan) <= ECapacity /\ econn[c].live \in BOOLEAN
    BY <1>0 DEF EventsTypeOK, EConns
  <2>1. CASE ~econn[c].live
    <3>1. econn'[c] = econn[c] BY <1>6, <2>1
    <3> QED BY <2>0, <3>1
  <2>2. CASE econn[c].live /\ HasSpace(c)
    <3> DEFINE q == econn[c].chan
               k == [econn[c] EXCEPT !.chan = Append(q, e)]
    <3>1. econn'[c] = k BY <1>6, <2>2
    <3>2. q \in Seq(EEvents) BY <2>0 DEF EConns
    <3>3. /\ Append(q, e) \in Seq(EEvents) /\ Len(Append(q, e)) = Len(q) + 1
          /\ Len(q) \in Nat /\ Append(q, e) # <<>>
          /\ \A i \in 1 .. Len(q) : Append(q, e)[i] = q[i]
          /\ Append(q, e)[Len(q) + 1] = e
      BY <1>5, <3>2, AppendIs
    <3>4. /\ k.chan = Append(q, e) /\ k.pc = econn[c].pc /\ k.todo = econn[c].todo
          /\ k.live = econn[c].live /\ k \in EConns
      BY <2>0, <3>3 DEF EConns
    <3>5. Len(k.chan) <= ECapacity
      BY <2>2, <3>3, <3>4, EventsAssumption DEF HasSpace
    <3> HIDE DEF k
    <3>6. k.pc = "open" /\ k.todo = <<>> BY <2>0, <2>2, <3>4 DEF ConnOK
    <3>7. IdsAreTrue(k.chan)
      <4>1. IdsAreTrue(q) BY <2>0 DEF ConnOK
      <4> SUFFICES ASSUME NEW i \in 1 .. Len(Append(q, e)), Append(q, e)[i].id # 0
                   PROVE  /\ Append(q, e)[i].id <= Len(enotes)
                          /\ Append(q, e)[i].msg = enotes[Append(q, e)[i].id]
        BY <3>4 DEF IdsAreTrue
      <4>2. i \in 1 .. Len(q) BY <1>5, <3>3
      <4> QED BY <3>3, <4>1, <4>2 DEF IdsAreTrue
    <3>8. IdsInOrder(k.chan)
      <4>1. IdsInOrder(q) BY <2>0 DEF ConnOK
      <4> QED BY <1>5, <3>3, <3>4, <4>1 DEF IdsInOrder
    <3>9. StartsAt(k.chan, eclient[c].last)
      <4>1. StartsAt(q, eclient[c].last) BY <2>0 DEF ConnOK
      <4>2. CASE q = <<>> BY <1>5, <3>3, <3>4, <4>2 DEF StartsAt
      <4>3. CASE q # <<>>
        <5>1. 1 \in 1 .. Len(q) BY <3>2, <4>3
        <5> QED BY <3>3, <3>4, <4>1, <4>3, <5>1 DEF StartsAt
      <4> QED BY <4>2, <4>3
    <3>10. IdsAreTrue(k.todo) /\ IdsInOrder(k.todo)
      BY <2>0, <3>4 DEF ConnOK
    <3>11. ConnOK(k, eclient[c].last)
      BY <3>3, <3>4, <3>6, <3>7, <3>8, <3>9, <3>10 DEF ConnOK
    <3> QED BY <3>1, <3>4, <3>5, <3>11
  <2>3. CASE econn[c].live /\ ~HasSpace(c)
    <3> DEFINE k == [econn[c] EXCEPT !.live = FALSE]
    <3>1. econn'[c] = k BY <1>6, <2>3
    <3>2. /\ k.chan = econn[c].chan /\ k.pc = econn[c].pc /\ k.todo = econn[c].todo
          /\ k.live = FALSE /\ k \in EConns
      BY <2>0 DEF EConns
    <3> HIDE DEF k
    <3>3. ConnOK(k, eclient[c].last) BY <2>0, <3>2 DEF ConnOK
    <3> QED BY <2>0, <3>1, <3>2, <3>3
  <2> QED BY <2>0, <2>1, <2>2, <2>3
<1>9. EventsTypeOK'
  <2>1. econn' \in [EClients -> EConns] BY <1>6a, <1>8
  <2>2. \A c \in EClients : Len(econn'[c].chan) <= ECapacity BY <1>8
  <2> QED BY <1>1, <1>4, <2>1, <2>2 DEF EventsTypeOK, EConns
<1>10. NotesCounted' BY <1>1 DEF NotesCounted, Notified
<1>11. LastIdMissesNothing' BY <1>1, <1>7 DEF LastIdMissesNothing
<1>12. ASSUME NEW c \in EClients
       PROVE  ConnOK(econn[c], eclient[c].last)' /\ ClientOK(eclient[c])'
  <2>1. ConnOK(econn'[c], eclient[c].last) BY <1>8
  <2>2. ConnOK(econn[c], eclient[c].last)'
    BY <1>1, <1>7, <2>1 DEF ConnOK, IdsAreTrue, IdsInOrder, StartsAt
  <2> QED BY <1>1, <2>2 DEF ClientOK
<1> QED BY <1>9, <1>10, <1>11, <1>12

\* The subscription of the bridge is lost, or opened again.
LEMMA EBridgeStep ==
    ASSUME EventsInv, EBridgeFails \/ EBridgeReturns
    PROVE  EventsInv'
<1> USE DEF EventsInv
<1>0. {"posts", "connects", "faults"} \subseteq EBounded BY DEF EBounded
<1>1. eleft' \in [EBounded -> Nat]
  BY <1>0, ESpendTypes DEF EBridgeFails, EBridgeReturns, EventsTypeOK
<1>2. /\ enotes' = enotes /\ econn' = econn /\ eclient' = eclient /\ epost' = epost
      /\ epub' \in [up : BOOLEAN, queue : Seq(EMsgs)]
  <2>1. [up |-> TRUE, queue |-> <<>>] \in [up : BOOLEAN, queue : Seq(EMsgs)] OBVIOUS
  <2>2. [up |-> FALSE, queue |-> <<>>] \in [up : BOOLEAN, queue : Seq(EMsgs)] OBVIOUS
  <2>3. \/ epub' = [up |-> TRUE, queue |-> <<>>]
        \/ epub' = [up |-> FALSE, queue |-> <<>>]
    BY DEF EBridgeFails, EBridgeReturns, EBridge
  <2>4. /\ enotes' = enotes /\ econn' = econn /\ eclient' = eclient /\ epost' = epost
    BY DEF EBridgeFails, EBridgeReturns
  <2> QED BY <2>1, <2>2, <2>3, <2>4
<1>3. EFirst' = EFirst BY <1>2 DEF EFirst
<1>4. EventsTypeOK' BY <1>1, <1>2 DEF EventsTypeOK
<1>5. NotesCounted' BY <1>2 DEF NotesCounted, Notified
<1>6. LastIdMissesNothing' BY <1>2, <1>3 DEF LastIdMissesNothing
<1>7. \A c \in EClients : ConnOK(econn[c], eclient[c].last)' /\ ClientOK(eclient[c])'
  BY <1>2, <1>3 DEF ConnOK, ClientOK, IdsAreTrue, IdsInOrder, StartsAt
<1> QED BY <1>4, <1>5, <1>6, <1>7

\* A connection begins, or ends, empty.
LEMMA EmptyConn ==
    ASSUME EventsInv, NEW c \in EClients, NEW pc \in {"closed", "replay"}
    PROVE  LET k == [EClosed EXCEPT !.pc = pc]
           IN  k \in EConns /\ Len(k.chan) <= ECapacity /\ ConnOK(k, eclient[c].last)
<1> DEFINE k == [EClosed EXCEPT !.pc = pc]
<1>1. /\ k.chan = <<>> /\ k.todo = <<>> /\ k.pc = pc /\ k.live = FALSE
  BY DEF EClosed
<1>2. k \in EConns
  <2>1. EClosed \in EConns BY DEF EClosed, EConns
  <2> QED BY <2>1 DEF EConns
<1>3. Len(<<>>) = 0 OBVIOUS
<1>4. Len(k.chan) <= ECapacity
  <2>1. 0 <= ECapacity BY EventsAssumption
  <2> QED BY <1>1, <1>3, <2>1
<1> HIDE DEF k
<1>5. ConnOK(k, eclient[c].last)
  BY <1>1, <1>3 DEF ConnOK, IdsAreTrue, IdsInOrder, StartsAt
<1> QED BY <1>2, <1>4, <1>5 DEF k

\* A client connects, or its connection ends.
LEMMA EConnectStep ==
    ASSUME EventsInv, NEW c \in EClients, EConnect(c) \/ EDisconnect(c)
    PROVE  EventsInv'
<1>0. {"posts", "connects", "faults"} \subseteq EBounded /\ EventsTypeOK
  BY DEF EBounded, EventsInv
<1>1. eleft' \in [EBounded -> Nat]
  BY <1>0, ESpendTypes DEF EConnect, EDisconnect, EventsTypeOK
<1>2. UNCHANGED <<epost, enotes, epub, eclient>> BY DEF EConnect, EDisconnect
<1>3. CASE EConnect(c)
  <2>1. econn' = [econn EXCEPT ![c] = [EClosed EXCEPT !.pc = "replay"]]
    BY <1>3 DEF EConnect
  <2> QED BY <1>1, <1>2, <2>1, EmptyConn, OneConnStep
<1>4. CASE EDisconnect(c)
  <2>1. econn' = [econn EXCEPT ![c] = [EClosed EXCEPT !.pc = "closed"]]
    BY <1>4 DEF EDisconnect, EClosed
  <2> QED BY <1>1, <1>2, <2>1, EmptyConn, OneConnStep
<1> QED BY <1>3, <1>4

\* What a replay holds.
LEMMA ReplayIs ==
    ASSUME EventsInv, NEW last \in EPositions, last <= Len(enotes)
    PROVE  LET r == EReplayOf(last)
           IN  /\ r \in Seq(EEvents) /\ IdsAreTrue(r) /\ IdsInOrder(r)
               /\ StartsAt(r, last)
               /\ \A i \in 1 .. Len(r) : r[i].id # 0
<1> DEFINE from == IF ReplayFrom(last) < EFirst THEN EFirst ELSE ReplayFrom(last)
           n == IF Len(enotes) - from + 1 > EHistory THEN EHistory
                ELSE Len(enotes) - from + 1
           r == [i \in 1 .. n |-> EEvent(enotes[from + i - 1], from + i - 1)]
<1>1. r = EReplayOf(last) BY DEF EReplayOf
<1>2. EMaxMsgs \in Nat /\ EHistory \in Nat \ {0} /\ ERetained \in Nat \ {0}
  BY EventsAssumption
<1>3. enotes \in Seq(EMsgs) /\ Len(enotes) \in 0 .. EMaxMsgs
  BY NotesFit DEF EventsInv, EventsTypeOK
<1>4. EFirst \in 1 .. Len(enotes) + 1 BY <1>2, <1>3 DEF EFirst
<1>5. ReplayFrom(last) \in 1 .. Len(enotes) + 1
  BY <1>2, <1>3 DEF ReplayFrom, EPositions
<1>6. from \in 1 .. Len(enotes) + 1 /\ (last > 0 => (from = last + 1 \/ from = EFirst))
  BY <1>4, <1>5 DEF ReplayFrom
<1> HIDE DEF from
<1>7. n \in Nat /\ from + n - 1 <= Len(enotes) BY <1>2, <1>3, <1>6
<1> HIDE DEF n
<1>8. ASSUME NEW i \in 1 .. n
      PROVE  /\ from + i - 1 \in 1 .. Len(enotes)
             /\ r[i].id = from + i - 1 /\ r[i].msg = enotes[from + i - 1]
             /\ r[i] \in EEvents
  <2>1. from + i - 1 \in 1 .. Len(enotes) BY <1>3, <1>6, <1>7
  <2>2. r[i] = EEvent(enotes[from + i - 1], from + i - 1) OBVIOUS
  <2>3. enotes[from + i - 1] \in EMsgs BY <1>3, <2>1
  <2>4. from + i - 1 \in EPositions BY <1>2, <1>3, <2>1 DEF EPositions
  <2> QED BY <2>1, <2>2, <2>3, <2>4 DEF EEvent, EEvents
<1>9. r \in Seq(EEvents) /\ Len(r) = n BY <1>7, <1>8
<1> HIDE DEF r
<1>10. IdsAreTrue(r) BY <1>3, <1>8, <1>9 DEF IdsAreTrue
<1>11. IdsInOrder(r)
  <2> SUFFICES ASSUME NEW i \in 1 .. n, NEW j \in 1 .. n, j = i + 1
               PROVE  r[i].id # 0 /\ r[j].id = r[i].id + 1
    BY <1>9 DEF IdsInOrder
  <2>1. r[i].id = from + i - 1 /\ r[j].id = from + j - 1 BY <1>8
  <2> QED BY <1>6, <1>7, <2>1
<1>12. StartsAt(r, last)
  <2> SUFFICES ASSUME r # <<>>, last > 0
               PROVE  r[1].id <= last + 1 \/ r[1].id <= EFirst
    BY DEF StartsAt
  <2>1. 1 \in 1 .. n BY <1>7, <1>9
  <2>2. r[1].id = from + 1 - 1 BY <1>8, <2>1
  <2>3. r[1].id = from BY <1>6, <2>2
  <2> QED BY <1>4, <1>6, <2>3 DEF EPositions
<1>13. \A i \in 1 .. Len(r) : r[i].id # 0 BY <1>3, <1>8, <1>9
<1> QED BY <1>1, <1>9, <1>10, <1>11, <1>12, <1>13

\* The handler reads the notifications to replay, or fails to.
LEMMA EReplayStep ==
    ASSUME EventsInv, NEW c \in EClients, EReplay(c)
    PROVE  EventsInv'
<1>0. {"posts", "connects", "faults"} \subseteq EBounded /\ EventsTypeOK
  BY DEF EBounded, EventsInv
<1>1. eleft' \in [EBounded -> Nat] BY <1>0, ESpendTypes DEF EReplay, EventsTypeOK
<1>2. UNCHANGED <<epost, enotes, epub, eclient>> BY DEF EReplay
<1>3. /\ econn[c] \in EConns /\ econn \in [EClients -> EConns]
      /\ ConnOK(econn[c], eclient[c].last) /\ Len(econn[c].chan) <= ECapacity
  BY DEF EventsInv, EventsTypeOK, EConns
<1>4. econn[c].pc = "replay" /\ econn[c].chan = <<>> /\ econn[c].todo = <<>> /\ ~econn[c].live
  BY <1>3 DEF EReplay, ConnOK
<1>5. eclient[c].last \in EPositions /\ eclient[c].last <= Len(enotes)
  BY DEF EventsInv, EventsTypeOK, ClientOK
<1> DEFINE k(q) == [econn[c] EXCEPT !.pc = "send", !.todo = q]
<1>6. ASSUME NEW q \in Seq(EEvents), IdsAreTrue(q), IdsInOrder(q),
             StartsAt(q, eclient[c].last), \A i \in 1 .. Len(q) : q[i].id # 0
      PROVE  /\ k(q) \in EConns /\ Len(k(q).chan) <= ECapacity
             /\ ConnOK(k(q), eclient[c].last)
  <2> DEFINE s == k(q)
  <2>1. /\ s.chan = econn[c].chan /\ s.pc = "send" /\ s.todo = q
        /\ s.live = econn[c].live /\ s \in EConns
    BY <1>3 DEF EConns
  <2> HIDE DEF k, s
  <2>2. ConnOK(s, eclient[c].last) BY <1>3, <1>4, <1>6, <2>1 DEF ConnOK
  <2> QED BY <1>3, <2>1, <2>2 DEF s
<1>7. CASE econn' = [econn EXCEPT ![c].pc = "send", ![c].todo = EReplayOf(eclient[c].last)]
  <2> DEFINE q == EReplayOf(eclient[c].last)
  <2>1. /\ q \in Seq(EEvents) /\ IdsAreTrue(q) /\ IdsInOrder(q)
        /\ StartsAt(q, eclient[c].last) /\ \A i \in 1 .. Len(q) : q[i].id # 0
    BY <1>5, ReplayIs
  <2>2. econn' = [econn EXCEPT ![c] = k(q)] BY <1>3, <1>7
  <2> HIDE DEF q
  <2>3. k(q) \in EConns /\ Len(k(q).chan) <= ECapacity /\ ConnOK(k(q), eclient[c].last)
    BY <1>6, <2>1
  <2> HIDE DEF k
  <2> QED BY <1>1, <1>2, <2>2, <2>3, OneConnStep
<1>8. CASE econn' = [econn EXCEPT ![c].pc = "send"]
  <2>1. /\ <<>> \in Seq(EEvents) /\ IdsAreTrue(<<>>) /\ IdsInOrder(<<>>)
        /\ StartsAt(<<>>, eclient[c].last)
        /\ \A i \in 1 .. Len(<<>>) : <<>>[i].id # 0
    BY DEF IdsAreTrue, IdsInOrder, StartsAt
  <2>2. [econn[c] EXCEPT !.pc = "send"] = k(<<>>) BY <1>3, <1>4 DEF EConns
  <2>3. econn' = [econn EXCEPT ![c] = [econn[c] EXCEPT !.pc = "send"]] BY <1>3, <1>8
  <2>4. econn' = [econn EXCEPT ![c] = k(<<>>)] BY <2>2, <2>3
  <2>5. k(<<>>) \in EConns /\ Len(k(<<>>).chan) <= ECapacity /\ ConnOK(k(<<>>), eclient[c].last)
    BY <1>6, <2>1
  <2> HIDE DEF k
  <2> QED BY <1>1, <1>2, <2>4, <2>5, OneConnStep
<1> QED BY <1>7, <1>8 DEF EReplay

\* One more event of the replay is in the channel.
LEMMA ESendStep ==
    ASSUME EventsInv, NEW c \in EClients, ESend(c)
    PROVE  EventsInv'
<1>0. eleft' \in [EBounded -> Nat] BY DEF ESend, EventsInv, EventsTypeOK
<1>1. UNCHANGED <<epost, enotes, epub, eclient>> BY DEF ESend
<1>2. /\ econn[c] \in EConns /\ econn \in [EClients -> EConns]
      /\ ConnOK(econn[c], eclient[c].last) /\ Len(econn[c].chan) <= ECapacity
  BY DEF EventsInv, EventsTypeOK, EConns
<1> DEFINE q == econn[c].chan
           t == econn[c].todo
           l == eclient[c].last
           a == Append(q, Head(t))
           r == Tail(t)
           k == [econn[c] EXCEPT !.chan = a, !.todo = r]
<1>3. econn[c].pc = "send" /\ t # <<>> /\ HasSpace(c) BY DEF ESend
<1>4. econn' = [econn EXCEPT ![c] = k] BY <1>2 DEF ESend
<1>5. q \in Seq(EEvents) /\ t \in Seq(EEvents) BY <1>2 DEF EConns
<1>6. /\ r \in Seq(EEvents) /\ Len(r) = Len(t) - 1 /\ Len(t) \in Nat \ {0}
      /\ Head(t) = t[1] /\ t[1] \in EEvents
      /\ \A i \in 1 .. Len(r) : r[i] = t[i + 1]
      /\ r # <<>> => Len(t) >= 2
  BY <1>3, <1>5, TailIs
<1>7. /\ a \in Seq(EEvents) /\ Len(a) = Len(q) + 1 /\ Len(q) \in Nat /\ a # <<>>
      /\ \A i \in 1 .. Len(q) : a[i] = q[i]
      /\ a[Len(q) + 1] = t[1]
  <2>1. PICK e \in EEvents : e = Head(t) /\ e = t[1] BY <1>6
  <2>2. PICK x \in Seq(EEvents) : x = q BY <1>5
  <2> HIDE DEF q, t
  <2>3. a = Append(x, e) BY <2>1, <2>2
  <2>4. /\ Append(x, e) \in Seq(EEvents) /\ Len(Append(x, e)) = Len(x) + 1
        /\ Len(x) \in Nat /\ Append(x, e) # <<>>
        /\ \A i \in 1 .. Len(x) : Append(x, e)[i] = x[i]
        /\ Append(x, e)[Len(x) + 1] = e
    BY AppendIs
  <2> HIDE DEF a
  <2> QED BY <2>1, <2>2, <2>3, <2>4
<1> HIDE DEF a, r
<1>8. /\ k.chan = a /\ k.pc = "send" /\ k.todo = r
      /\ k.live = econn[c].live /\ k \in EConns
  BY <1>2, <1>3, <1>6, <1>7 DEF EConns
<1>9. Len(k.chan) <= ECapacity BY <1>3, <1>7, <1>8, EventsAssumption DEF HasSpace
<1>10. t[1].id \in Nat \ {0}
  <2>1. 1 \in 1 .. Len(t) BY <1>6
  <2>2. t[1].id # 0 BY <1>2, <2>1 DEF ConnOK
  <2> QED BY <1>6, <2>2 DEF EEvents, EPositions
<1>11. q # <<>> => q[Len(q)].id # 0 /\ t[1].id = q[Len(q)].id + 1
  BY <1>2, <1>3 DEF ConnOK
<1>12. /\ IdsAreTrue(q) /\ IdsAreTrue(t) /\ IdsInOrder(q) /\ IdsInOrder(t)
       /\ StartsAt(q, l) /\ (q = <<>> => StartsAt(t, l))
       /\ (\A i \in 1 .. Len(t) : t[i].id # 0) /\ ~econn[c].live
  BY <1>2, <1>3 DEF ConnOK
<1> HIDE DEF q, t, k, l
<1>13. IdsAreTrue(a)
  <2> SUFFICES ASSUME NEW i \in 1 .. Len(a), a[i].id # 0
               PROVE  a[i].id <= Len(enotes) /\ a[i].msg = enotes[a[i].id]
    BY DEF IdsAreTrue
  <2>1. CASE i \in 1 .. Len(q) BY <1>7, <1>12, <2>1 DEF IdsAreTrue
  <2>2. CASE i = Len(q) + 1
    <3>1. 1 \in 1 .. Len(t) BY <1>6
    <3> QED BY <1>7, <1>10, <1>12, <2>2, <3>1 DEF IdsAreTrue
  <2> QED BY <1>7, <2>1, <2>2
<1>14. IdsAreTrue(r)
  <2> SUFFICES ASSUME NEW i \in 1 .. Len(r), r[i].id # 0
               PROVE  r[i].id <= Len(enotes) /\ r[i].msg = enotes[r[i].id]
    BY DEF IdsAreTrue
  <2>1. i + 1 \in 1 .. Len(t) /\ r[i] = t[i + 1] BY <1>6
  <2> QED BY <1>12, <2>1 DEF IdsAreTrue
<1>15. IdsInOrder(a)
  <2> SUFFICES ASSUME NEW i \in 1 .. Len(a), NEW j \in 1 .. Len(a), j = i + 1, a[j].id # 0
               PROVE  a[i].id # 0 /\ a[j].id = a[i].id + 1
    BY DEF IdsInOrder
  <2>1. i \in 1 .. Len(q) /\ a[i] = q[i] BY <1>7
  <2>2. CASE j \in 1 .. Len(q) BY <1>7, <1>12, <2>1, <2>2 DEF IdsInOrder
  <2>3. CASE j = Len(q) + 1
    <3>1. i = Len(q) /\ q # <<>> BY <1>5, <1>7, <2>1, <2>3
    <3> QED BY <1>7, <1>11, <2>1, <2>3, <3>1
  <2> QED BY <1>7, <2>2, <2>3
<1>16. IdsInOrder(r)
  <2> SUFFICES ASSUME NEW i \in 1 .. Len(r), NEW j \in 1 .. Len(r), j = i + 1, r[j].id # 0
               PROVE  r[i].id # 0 /\ r[j].id = r[i].id + 1
    BY DEF IdsInOrder
  <2>1. /\ i + 1 \in 1 .. Len(t) /\ r[i] = t[i + 1]
        /\ j + 1 \in 1 .. Len(t) /\ r[j] = t[j + 1] /\ j + 1 = (i + 1) + 1
    BY <1>6
  <2> QED BY <1>12, <2>1 DEF IdsInOrder
<1>17. StartsAt(a, l)
  <2>1. CASE q = <<>>
    <3>1. Len(q) = 0 BY <2>1
    <3>2. a[1] = t[1] BY <1>7, <3>1
    <3> QED BY <1>3, <1>12, <2>1, <3>2 DEF StartsAt
  <2>2. CASE q # <<>>
    <3>1. 1 \in 1 .. Len(q) BY <1>5, <2>2
    <3> QED BY <1>7, <1>12, <2>2, <3>1 DEF StartsAt
  <2> QED BY <2>1, <2>2
<1>18. r # <<>> => a[Len(a)].id # 0 /\ r[1].id = a[Len(a)].id + 1
  <2> SUFFICES ASSUME r # <<>> PROVE a[Len(a)].id # 0 /\ r[1].id = a[Len(a)].id + 1 OBVIOUS
  <2>1. 1 \in 1 .. Len(r) /\ 1 \in 1 .. Len(t) /\ 2 \in 1 .. Len(t) BY <1>6
  <2>2. r[1] = t[2] /\ a[Len(a)] = t[1] BY <1>6, <1>7, <2>1
  <2>3. t[2].id # 0 BY <1>12, <2>1
  <2>4. t[2].id = t[1].id + 1 BY <1>12, <2>1, <2>3 DEF IdsInOrder
  <2> QED BY <1>10, <2>2, <2>4
<1>19. \A i \in 1 .. Len(r) : r[i].id # 0
  <2> SUFFICES ASSUME NEW i \in 1 .. Len(r) PROVE r[i].id # 0 OBVIOUS
  <2>1. i + 1 \in 1 .. Len(t) /\ r[i] = t[i + 1] BY <1>6
  <2> QED BY <1>12, <2>1
<1>20. ConnOK(k, l)
  BY <1>7, <1>8, <1>12, <1>13, <1>14, <1>15, <1>16, <1>17, <1>18, <1>19 DEF ConnOK
<1> QED BY <1>0, <1>1, <1>4, <1>8, <1>9, <1>20, OneConnStep DEF l

\* The channel is registered once the replay is in it.
LEMMA ERegisterStep ==
    ASSUME EventsInv, NEW c \in EClients, ERegister(c)
    PROVE  EventsInv'
<1>0. eleft' \in [EBounded -> Nat] BY DEF ERegister, EventsInv, EventsTypeOK
<1>1. UNCHANGED <<epost, enotes, epub, eclient>> BY DEF ERegister
<1>2. /\ econn[c] \in EConns /\ econn \in [EClients -> EConns]
      /\ ConnOK(econn[c], eclient[c].last) /\ Len(econn[c].chan) <= ECapacity
  BY DEF EventsInv, EventsTypeOK, EConns
<1> DEFINE k == [econn[c] EXCEPT !.pc = "open", !.live = TRUE]
<1>3. econn[c].pc = "send" /\ econn[c].todo = <<>> BY DEF ERegister
<1>4. econn' = [econn EXCEPT ![c] = k] BY <1>2 DEF ERegister
<1>5. /\ k.chan = econn[c].chan /\ k.pc = "open" /\ k.todo = econn[c].todo
      /\ k.live = TRUE /\ k \in EConns
  BY <1>2 DEF EConns
<1> HIDE DEF k
<1>6. ConnOK(k, eclient[c].last) BY <1>2, <1>3, <1>5 DEF ConnOK
<1> QED BY <1>0, <1>1, <1>2, <1>4, <1>5, <1>6, OneConnStep

\* The client takes the next event, and its id if it has one.
LEMMA EReceiveStep ==
    ASSUME EventsInv, NEW c \in EClients, EReceive(c)
    PROVE  EventsInv'
<1> DEFINE q == econn[c].chan
           r == Tail(q)
           e == Head(q)
           l == eclient[c].last
           b == eclient[c].base
           g == eclient[c].got
           k == [econn[c] EXCEPT !.chan = r]
           Clients == [last : EPositions, base : EPositions, got : SUBSET EMsgs]
           n == [got |-> g \cup {e.msg}, last |-> IF e.id = 0 THEN l ELSE e.id,
                 base |-> IF b = 0 THEN e.id ELSE b]
<1>1. UNCHANGED <<epost, enotes, epub, eleft>> BY DEF EReceive
<1>2. /\ econn[c] \in EConns /\ econn \in [EClients -> EConns]
      /\ ConnOK(econn[c], l) /\ Len(q) <= ECapacity /\ ClientOK(eclient[c])
      /\ eclient \in [EClients -> Clients] /\ eclient[c] \in Clients
  BY DEF EventsInv, EventsTypeOK, EConns
<1>3. econn[c].pc = "open" /\ q # <<>> BY DEF EReceive
<1>4. econn' = [econn EXCEPT ![c] = k] /\ eclient' = [eclient EXCEPT ![c] = n]
  BY <1>2 DEF EReceive
<1>5. q \in Seq(EEvents) /\ econn[c].todo \in Seq(EEvents) BY <1>2 DEF EConns
<1>6. /\ r \in Seq(EEvents) /\ Len(r) = Len(q) - 1 /\ Len(q) \in Nat \ {0}
      /\ e = q[1] /\ q[1] \in EEvents
      /\ \A i \in 1 .. Len(r) : r[i] = q[i + 1]
      /\ r # <<>> => Len(q) >= 2
  BY <1>3, <1>5, TailIs
<1>7. /\ IdsAreTrue(q) /\ IdsInOrder(q) /\ StartsAt(q, l)
      /\ econn[c].todo = <<>>
  BY <1>2, <1>3 DEF ConnOK
<1>8. e.id \in EPositions /\ e.msg \in EMsgs /\ EPositions \subseteq Nat
  BY <1>6, EventsAssumption DEF EEvents, EPositions
<1>9. l \in EPositions /\ b \in EPositions /\ g \subseteq EMsgs BY <1>2
<1>10. (b = 0 <=> l = 0) /\ l <= Len(enotes) /\ Len(enotes) \in Nat
  BY <1>2 DEF ClientOK, EventsInv, EventsTypeOK
<1>11. e.id # 0 => e.id <= Len(enotes) /\ e.msg = enotes[e.id]
  <2>1. 1 \in 1 .. Len(q) BY <1>6
  <2> QED BY <1>6, <1>7, <2>1 DEF IdsAreTrue
<1>12. /\ k.chan = r /\ k.pc = "open" /\ k.todo = <<>>
       /\ k.live = econn[c].live /\ k \in EConns
  BY <1>2, <1>3, <1>6, <1>7 DEF EConns
<1>13. /\ n.got = g \cup {e.msg} /\ n.last = IF e.id = 0 THEN l ELSE e.id
       /\ n.base = IF b = 0 THEN e.id ELSE b
  OBVIOUS
<1> HIDE DEF q, r, e, l, b, g, k, n, Clients
<1>14. n \in Clients /\ n.last \in Nat
  <2>1. n.last \in EPositions /\ n.base \in EPositions /\ n.got \in SUBSET EMsgs
    BY <1>8, <1>9, <1>13
  <2>2. n = [last |-> n.last, base |-> n.base, got |-> n.got] BY DEF n
  <2>3. [last |-> n.last, base |-> n.base, got |-> n.got] \in Clients BY <2>1 DEF Clients
  <2> QED BY <1>8, <2>1, <2>2, <2>3
<1>15. EFirst' = EFirst /\ EFirst \in Nat \ {0}
  BY <1>1, <1>10, EventsAssumption DEF EFirst
<1>16. ConnOK(k, n.last)
  <2>1. IdsAreTrue(r)
    <3> SUFFICES ASSUME NEW i \in 1 .. Len(r), r[i].id # 0
                 PROVE  r[i].id <= Len(enotes) /\ r[i].msg = enotes[r[i].id]
      BY DEF IdsAreTrue
    <3>1. i + 1 \in 1 .. Len(q) /\ r[i] = q[i + 1] BY <1>6
    <3> QED BY <1>7, <3>1 DEF IdsAreTrue
  <2>2. IdsInOrder(r)
    <3> SUFFICES ASSUME NEW i \in 1 .. Len(r), NEW j \in 1 .. Len(r), j = i + 1, r[j].id # 0
                 PROVE  r[i].id # 0 /\ r[j].id = r[i].id + 1
      BY DEF IdsInOrder
    <3>1. /\ i + 1 \in 1 .. Len(q) /\ r[i] = q[i + 1]
          /\ j + 1 \in 1 .. Len(q) /\ r[j] = q[j + 1] /\ j + 1 = (i + 1) + 1
      BY <1>6
    <3> QED BY <1>7, <3>1 DEF IdsInOrder
  <2>3. StartsAt(r, n.last)
    <3> SUFFICES ASSUME r # <<>>, r[1].id # 0 PROVE r[1].id <= n.last + 1
      BY DEF StartsAt
    <3>1. 1 \in 1 .. Len(r) /\ 1 \in 1 .. Len(q) /\ 2 \in 1 .. Len(q) BY <1>6
    <3>2. r[1] = q[2] BY <1>6, <3>1
    <3>3. q[1].id # 0 /\ q[2].id = q[1].id + 1 BY <1>7, <3>1, <3>2 DEF IdsInOrder
    <3>4. e.id \in Nat /\ n.last = e.id BY <1>6, <1>8, <1>13, <3>3
    <3> QED BY <1>6, <3>2, <3>3, <3>4
  <2>4. IdsAreTrue(<<>>) /\ IdsInOrder(<<>>) /\ StartsAt(<<>>, n.last)
        /\ \A i \in 1 .. Len(<<>>) : <<>>[i].id # 0
    BY DEF IdsAreTrue, IdsInOrder, StartsAt
  <2> QED BY <1>12, <2>1, <2>2, <2>3, <2>4 DEF ConnOK
<1>17. n.last <= Len(enotes) /\ (n.base = 0 <=> n.last = 0)
  BY <1>8, <1>9, <1>10, <1>11, <1>13
<1>18. \A p \in EFirst .. n.last : p >= n.base => enotes[p] \in n.got
  <2> SUFFICES ASSUME NEW p \in EFirst .. n.last, p >= n.base
               PROVE  enotes[p] \in n.got
    OBVIOUS
  <2>0. p \in Nat /\ p >= EFirst /\ p <= n.last /\ e.id \in Nat /\ l \in Nat /\ b \in Nat
    <3>1. p \in Nat /\ p >= EFirst /\ p <= n.last BY <1>14, <1>15
    <3>2. e.id \in Nat /\ l \in Nat /\ b \in Nat BY <1>8, <1>9
    <3> QED BY <3>1, <3>2
  <2>1. \A i \in EFirst .. l : i >= b => enotes[i] \in g
    BY DEF EventsInv, LastIdMissesNothing, l, b, g
  <2>2. CASE e.id = 0
    <3>1. n.last = l /\ n.base = b BY <1>9, <1>13, <2>2
    <3> QED BY <1>13, <2>1, <3>1
  <2>3. CASE e.id # 0 /\ p = e.id BY <1>11, <1>13, <2>3
  <2>4. CASE e.id # 0 /\ p # e.id
    <3>0. n.last = e.id BY <1>13, <2>4
    <3>1. p < e.id BY <2>0, <2>4, <3>0
    <3>2. b # 0
      <4>1. b = 0 => n.base = e.id BY <1>13
      <4> QED BY <2>0, <3>1, <4>1
    <3>3. l > 0 /\ n.base = b
      <4>1. l # 0 /\ n.base = b BY <1>10, <1>13, <3>2
      <4> QED BY <2>0, <4>1
    <3>4. e.id <= l + 1 \/ e.id <= EFirst
      <4>1. q[1].id # 0 /\ q # <<>> BY <1>3, <1>6, <2>4 DEF q
      <4> QED BY <1>6, <1>7, <3>3, <4>1 DEF StartsAt
    <3>5. p <= l BY <1>15, <2>0, <3>1, <3>4
    <3>6. enotes[p] \in g BY <1>15, <2>0, <2>1, <3>3, <3>5
    <3> QED BY <1>13, <3>6
  <2> QED BY <2>2, <2>3, <2>4
<1>19. /\ \A d \in EClients : econn'[d] = IF d = c THEN k ELSE econn[d]
       /\ \A d \in EClients : eclient'[d] = IF d = c THEN n ELSE eclient[d]
  BY <1>2, <1>4
<1>20. EventsTypeOK'
  <2>1. econn' \in [EClients -> EConns] BY <1>2, <1>4, <1>12
  <2>2. eclient' \in [EClients -> Clients] BY <1>2, <1>4, <1>14
  <2>3. Len(r) <= ECapacity BY <1>2, <1>6, EventsAssumption
  <2>4. \A d \in EClients : Len(econn'[d].chan) <= ECapacity
    BY <1>12, <1>19, <2>3 DEF EventsInv, EventsTypeOK
  <2> QED BY <1>1, <2>1, <2>2, <2>4 DEF EventsInv, EventsTypeOK, EConns, Clients
<1>21. NotesCounted' BY <1>1 DEF EventsInv, NotesCounted, Notified
<1>22. LastIdMissesNothing'
  <2> SUFFICES ASSUME NEW d \in EClients, NEW p \in EFirst .. eclient'[d].last,
                      p >= eclient'[d].base
               PROVE  enotes[p] \in eclient'[d].got
    BY <1>1, <1>15 DEF LastIdMissesNothing
  <2>1. CASE d = c BY <1>18, <1>19, <2>1
  <2>2. CASE d # c BY <1>19, <2>2 DEF EventsInv, LastIdMissesNothing
  <2> QED BY <2>1, <2>2
<1>23. ASSUME NEW d \in EClients
       PROVE  ConnOK(econn[d], eclient[d].last)' /\ ClientOK(eclient[d])'
  <2>1. ConnOK(econn'[d], eclient'[d].last) /\ ClientOK(eclient'[d])
    <3>1. CASE d = c
      <4>1. ClientOK(n) BY <1>17 DEF ClientOK
      <4> QED BY <1>16, <1>19, <3>1, <4>1
    <3>2. CASE d # c BY <1>19, <3>2 DEF EventsInv
    <3> QED BY <3>1, <3>2
  <2>2. ConnOK(econn[d], eclient[d].last)'
    BY <1>1, <1>15, <2>1 DEF ConnOK, IdsAreTrue, IdsInOrder, StartsAt
  <2>3. ClientOK(eclient[d])' BY <1>1, <2>1 DEF ClientOK
  <2> QED BY <2>2, <2>3
<1> QED BY <1>20, <1>21, <1>22, <1>23 DEF EventsInv

\* Every step keeps the invariant.
LEMMA EventsStep == EventsInv /\ [EventsNext]_eventVars => EventsInv'
<1> SUFFICES ASSUME EventsInv, [EventsNext]_eventVars PROVE EventsInv' OBVIOUS
<1>1. CASE UNCHANGED eventVars
  <2>1. EFirst' = EFirst BY <1>1 DEF eventVars, EFirst
  <2>2. EventsTypeOK' BY <1>1 DEF EventsInv, EventsTypeOK, eventVars
  <2>3. NotesCounted' BY <1>1 DEF EventsInv, NotesCounted, Notified, eventVars
  <2>4. LastIdMissesNothing' BY <1>1, <2>1 DEF EventsInv, LastIdMissesNothing, eventVars
  <2>5. \A c \in EClients : ConnOK(econn[c], eclient[c].last)' /\ ClientOK(eclient[c])'
    <3>1. enotes' = enotes /\ econn' = econn /\ eclient' = eclient BY <1>1 DEF eventVars
    <3>2. \A c \in EClients : ConnOK(econn[c], eclient[c].last) /\ ClientOK(eclient[c])
      BY DEF EventsInv
    <3> QED BY <2>1, <3>1, <3>2, SeenSame
  <2> QED BY <2>2, <2>3, <2>4, <2>5 DEF EventsInv
<1>2. ASSUME NEW m \in EMsgs, EAdd(m) \/ EPublish(m) \/ ENotify(m) PROVE EventsInv'
  BY <1>2, EPostStep, ENotifyStep
<1>3. CASE EPush BY <1>3, EPushStep
<1>4. CASE EBridgeFails \/ EBridgeReturns BY <1>4, EBridgeStep
<1>5. ASSUME NEW c \in EClients, EConnect(c) \/ EDisconnect(c) PROVE EventsInv'
  BY <1>5, EConnectStep
<1>6. ASSUME NEW c \in EClients, EReplay(c) \/ ESend(c) \/ ERegister(c) \/ EReceive(c)
      PROVE  EventsInv'
  BY <1>6, EReplayStep, ESendStep, ERegisterStep, EReceiveStep
<1> QED BY <1>1, <1>2, <1>3, <1>4, <1>5, <1>6 DEF EventsNext

(* The types, and the bound of the channels: the handler sends a replay    *)
(* into the channel only while it has space, and so does the bridge.       *)
THEOREM EventsTypeCorrect == EventsSpec => []EventsTypeOK
<1>1. EventsInv => EventsTypeOK BY DEF EventsInv
<1> QED BY <1>1, EventsStart, EventsStep, PTL DEF EventsSpec

(* The id with which a client of GET /events/:agent_id comes back covers   *)
(* only what it was given, however often it connects, whatever a full      *)
(* channel or a lost subscription dropped, and for any number of clients   *)
(* and messages, any history, capacity and retention.                      *)
THEOREM LastIdIsHonest == EventsSpec => []LastIdMissesNothing
<1>1. EventsInv => LastIdMissesNothing BY DEF EventsInv
<1> QED BY <1>1, EventsStart, EventsStep, PTL DEF EventsSpec

-----------------------------------------------------------------------------
(* The write-behind path to PostgreSQL.                                    *)

\* The messages in q before position k, and the places of writes in q.
IdsBefore(q, k) == {q[i].id : i \in {j \in 1 .. k - 1 : q[j].kind = "message"}}
DataAt(q) == {i \in 1 .. Len(q) : IsData(q[i])}

\* The task answers a caller after its flush; the task has read the shutdown
\* request.
Answering == wtask.pc = "flush" /\ wtask.then \in {"answer", "drainAnswer"}
Draining == \/ wtask.pc \in {"drain", "gone"}
            \/ wtask.pc = "flush" /\ wtask.then \in {"drain", "drainAnswer", "gone"}

\* Writes are of posted messages, flush requests of callers that have called,
\* and a shutdown request is there once it was asked for.
QueueShape ==
    /\ \A k \in 1 .. Len(wchan) :
           /\ wchan[k].kind = "message" => wchan[k].id \in Posted
           /\ wchan[k].kind = "flush" => /\ wchan[k].id \in WFlushers
                                         /\ wflush[wchan[k].id].st # "none"
           /\ wchan[k].kind = "shutdown" => wstop.asked
    /\ \A k \in 1 .. Len(wbatch) :
           /\ IsData(wbatch[k])
           /\ wbatch[k].kind = "message" => wbatch[k].id \in Posted

\* The task answers callers only, drains only when asked, and ends with
\* nothing in its batch.
TaskShape ==
    /\ Answering => wtask.id \in WFlushers /\ wflush[wtask.id].st # "none"
    /\ Draining => wstop.asked
    /\ Gone => wbatch = <<>>

(* The queue is in order: what a caller counts on is settled, in the batch *)
(* or in the channel before its request; once its request is read, it is   *)
(* settled or in the batch.                                                *)
FlushCovered ==
    \A i \in WFlushers : wflush[i].st = "waiting" =>
        /\ \A k \in 1 .. Len(wchan) :
               wchan[k].kind = "flush" /\ wchan[k].id = i =>
                   wflush[i].before \subseteq WSettled \cup IdsOf(wbatch)
                                                \cup IdsBefore(wchan, k)
        /\ Answering /\ wtask.id = i =>
               wflush[i].before \subseteq WSettled \cup IdsOf(wbatch)

\* The same of the shutdown request.
StopCovered ==
    /\ \A k \in 1 .. Len(wchan) :
           wchan[k].kind = "shutdown" =>
               wstop.before \subseteq WSettled \cup IdsOf(wbatch)
                                         \cup IdsBefore(wchan, k)
    /\ Draining => wstop.before \subseteq WSettled \cup IdsOf(wbatch)

DrainedIsSettled ==
    \A i \in WFlushers :
        wflush[i].st = "drained" => wflush[i].before \subseteq WSettled

WriterInv ==
    /\ WriterTypeOK /\ QueueShape /\ TaskShape
    /\ NoSilentLoss /\ FlushCovered /\ StopCovered /\ DrainedIsSettled

-----------------------------------------------------------------------------
(* Queues.                                                                 *)

\* What Append and Tail do to the messages of a queue.
LEMMA IdsOfAppend ==
    ASSUME NEW q \in Seq(WRequests), NEW r \in WRequests
    PROVE  /\ IdsOf(q) \subseteq IdsOf(Append(q, r))
           /\ r.kind = "message" => r.id \in IdsOf(Append(q, r))
           /\ IdsBefore(Append(q, r), Len(q) + 1) = IdsOf(q)
           /\ \A k \in 1 .. Len(q) : IdsBefore(Append(q, r), k) = IdsBefore(q, k)
<1>1. Len(Append(q, r)) = Len(q) + 1 /\ Len(q) \in Nat
      /\ Append(q, r)[Len(q) + 1] = r
      /\ \A i \in 1 .. Len(q) : Append(q, r)[i] = q[i]
  OBVIOUS
<1>2. IdsOf(q) \subseteq IdsOf(Append(q, r)) BY <1>1 DEF IdsOf
<1>3. r.kind = "message" => r.id \in IdsOf(Append(q, r)) BY <1>1 DEF IdsOf
<1>4. IdsBefore(Append(q, r), Len(q) + 1) = IdsOf(q)
  <2>1. 1 .. (Len(q) + 1) - 1 = 1 .. Len(q) BY <1>1
  <2> QED BY <1>1, <2>1 DEF IdsOf, IdsBefore
<1>5. ASSUME NEW k \in 1 .. Len(q)
      PROVE  IdsBefore(Append(q, r), k) = IdsBefore(q, k)
  <2>1. \A i \in 1 .. k - 1 : Append(q, r)[i] = q[i] BY <1>1
  <2> QED BY <2>1 DEF IdsBefore
<1> QED BY <1>2, <1>3, <1>4, <1>5

\* The head of a queue is its own message, or none.
HeadIds(q) == IF Head(q).kind = "message" THEN {Head(q).id} ELSE {}

\* Taking the head off a queue: what is left, and whose messages it holds.
LEMMA IdsOfTail ==
    ASSUME NEW q \in Seq(WRequests), q # <<>>
    PROVE  /\ Tail(q) \in Seq(WRequests) /\ Head(q) \in WRequests
           /\ Len(Tail(q)) = Len(q) - 1 /\ Len(q) \in Nat \ {0}
           /\ \A k \in 1 .. Len(Tail(q)) : Tail(q)[k] = q[k + 1]
           /\ Head(q) = q[1]
           /\ IdsOf(q) \subseteq HeadIds(q) \cup IdsOf(Tail(q))
           /\ \A k \in 1 .. Len(Tail(q)) :
                  IdsBefore(q, k + 1) \subseteq HeadIds(q) \cup IdsBefore(Tail(q), k)
           /\ IdsBefore(q, 1) = {}
<1>1. /\ Tail(q) \in Seq(WRequests) /\ Head(q) \in WRequests
      /\ Len(Tail(q)) = Len(q) - 1 /\ Len(q) \in Nat \ {0}
      /\ \A k \in 1 .. Len(Tail(q)) : Tail(q)[k] = q[k + 1]
      /\ Head(q) = q[1]
  OBVIOUS
<1>2. ASSUME NEW i \in 1 .. Len(q), q[i].kind = "message", i # 1
      PROVE  /\ i - 1 \in 1 .. Len(Tail(q)) /\ Tail(q)[i - 1] = q[i]
  BY <1>1, <1>2
<1>3. IdsOf(q) \subseteq HeadIds(q) \cup IdsOf(Tail(q))
  <2> SUFFICES ASSUME NEW i \in 1 .. Len(q), q[i].kind = "message"
               PROVE  q[i].id \in HeadIds(q) \cup IdsOf(Tail(q))
    BY DEF IdsOf
  <2>1. CASE i = 1 BY <1>1, <2>1 DEF HeadIds
  <2>2. CASE i # 1
    <3>1. i - 1 \in 1 .. Len(Tail(q)) /\ Tail(q)[i - 1] = q[i] BY <1>2, <2>2
    <3> QED BY <3>1 DEF IdsOf
  <2> QED BY <2>1, <2>2
<1>4. ASSUME NEW k \in 1 .. Len(Tail(q))
      PROVE  IdsBefore(q, k + 1) \subseteq HeadIds(q) \cup IdsBefore(Tail(q), k)
  <2> SUFFICES ASSUME NEW i \in 1 .. (k + 1) - 1, q[i].kind = "message"
               PROVE  q[i].id \in HeadIds(q) \cup IdsBefore(Tail(q), k)
    BY DEF IdsBefore
  <2>1. CASE i = 1 BY <1>1, <2>1 DEF HeadIds
  <2>2. CASE i # 1
    <3>1. i - 1 \in 1 .. k - 1 /\ i \in 1 .. Len(q) BY <1>1, <2>2
    <3>2. Tail(q)[i - 1] = q[i] BY <1>2, <2>2, <3>1
    <3> QED BY <3>1, <3>2 DEF IdsBefore
  <2> QED BY <2>1, <2>2
<1>5. IdsBefore(q, 1) = {} BY DEF IdsBefore
<1> QED BY <1>1, <1>3, <1>4, <1>5

\* The writes of a queue are finitely many, ...
LEMMA DataFinite ==
    ASSUME NEW q \in Seq(WRequests)
    PROVE  IsFiniteSet(DataAt(q)) /\ Cardinality(DataAt(q)) \in Nat
<1>1. Len(q) \in Nat OBVIOUS
<1>2. IsFiniteSet(1 .. Len(q)) BY <1>1, FS_Interval
<1>3. IsFiniteSet(DataAt(q)) BY <1>2, FS_Subset DEF DataAt
<1> QED BY <1>3, FS_CardinalityType

\* ... one more when one is appended, ...
LEMMA DataOfAppend ==
    ASSUME NEW q \in Seq(WRequests), NEW r \in WRequests
    PROVE  Cardinality(DataAt(Append(q, r)))
             = Cardinality(DataAt(q)) + (IF IsData(r) THEN 1 ELSE 0)
<1>1. Len(Append(q, r)) = Len(q) + 1 /\ Len(q) \in Nat
      /\ Append(q, r)[Len(q) + 1] = r
      /\ \A i \in 1 .. Len(q) : Append(q, r)[i] = q[i]
  OBVIOUS
<1>2. CASE IsData(r)
  <2>1. DataAt(Append(q, r)) = DataAt(q) \cup {Len(q) + 1}
    BY <1>1, <1>2 DEF DataAt
  <2>2. Len(q) + 1 \notin DataAt(q) BY <1>1 DEF DataAt
  <2> QED BY <1>2, <2>1, <2>2, DataFinite, FS_AddElement
<1>3. CASE ~IsData(r)
  <2>1. DataAt(Append(q, r)) = DataAt(q) BY <1>1, <1>3 DEF DataAt
  <2> QED BY <1>3, <2>1, DataFinite
<1> QED BY <1>2, <1>3

\* ... and one fewer when one is read.
LEMMA DataOfTail ==
    ASSUME NEW q \in Seq(WRequests), q # <<>>
    PROVE  Cardinality(DataAt(q))
             = Cardinality(DataAt(Tail(q))) + (IF IsData(Head(q)) THEN 1 ELSE 0)
<1> DEFINE R == DataAt(q) \ {1}
           S == DataAt(Tail(q))
           f == [i \in S |-> i + 1]
<1>1. /\ Len(Tail(q)) = Len(q) - 1 /\ Len(q) \in Nat \ {0}
      /\ \A k \in 1 .. Len(Tail(q)) : Tail(q)[k] = q[k + 1]
      /\ Head(q) = q[1] /\ Tail(q) \in Seq(WRequests)
  BY IdsOfTail
<1>2. \A i \in S : i \in Int /\ i + 1 \in R BY <1>1 DEF DataAt
<1>3. \A j \in R : j - 1 \in S /\ (j - 1) + 1 = j
  <2> SUFFICES ASSUME NEW j \in R PROVE j - 1 \in S /\ (j - 1) + 1 = j OBVIOUS
  <2>1. j \in 1 .. Len(q) /\ j # 1 /\ IsData(q[j]) BY DEF DataAt
  <2>2. j - 1 \in 1 .. Len(Tail(q)) /\ (j - 1) + 1 = j BY <1>1, <2>1
  <2>3. Tail(q)[j - 1] = q[j] BY <1>1, <2>2
  <2> QED BY <2>1, <2>2, <2>3 DEF DataAt
<1> HIDE DEF R, S
<1>4. f \in Bijection(S, R)
  <2>1. f \in [S -> R] BY <1>2
  <2>2. \A a, b \in S : f[a] = f[b] => a = b BY <1>2
  <2>3. \A t \in R : \E s \in S : f[s] = t BY <1>3
  <2>4. DOMAIN f = S OBVIOUS
  <2> HIDE DEF f
  <2> QED BY <2>1, <2>2, <2>3, <2>4 DEF Bijection, Injection, Surjection, IsInjective
<1>5. IsFiniteSet(S) BY <1>1, DataFinite DEF S
<1>6. Cardinality(R) = Cardinality(S)
  BY <1>4, <1>5, FS_Bijection DEF ExistsBijection
<1>7. IsFiniteSet(DataAt(q)) /\ Cardinality(DataAt(q)) \in Nat BY DataFinite
<1>8. Cardinality(R) = IF 1 \in DataAt(q) THEN Cardinality(DataAt(q)) - 1
                       ELSE Cardinality(DataAt(q))
  BY <1>7, FS_RemoveElement DEF R
<1>9. 1 \in DataAt(q) <=> IsData(Head(q)) BY <1>1 DEF DataAt
<1>10. Cardinality(S) \in Nat BY <1>5, FS_CardinalityType
<1> QED BY <1>6, <1>7, <1>8, <1>9, <1>10 DEF S

-----------------------------------------------------------------------------
\* The invariant gives both properties.
LEMMA WriterSound == WriterInv => NoSilentLoss /\ FlushMeansSettled
<1> SUFFICES ASSUME WriterInv PROVE NoSilentLoss /\ FlushMeansSettled OBVIOUS
<1>1. ASSUME Gone PROVE wstop.before \subseteq WSettled
  <2>1. wbatch = <<>> /\ Draining BY <1>1 DEF WriterInv, TaskShape, Gone, Draining
  <2>2. IdsOf(wbatch) = {} BY <2>1 DEF IdsOf
  <2> QED BY <2>1, <2>2 DEF WriterInv, StopCovered
<1> QED BY <1>1 DEF WriterInv, DrainedIsSettled, FlushMeansSettled

\* The first states: nothing posted, nothing asked.
LEMMA WriterStart == WriterInit => WriterInv
<1> SUFFICES ASSUME WriterInit PROVE WriterInv OBVIOUS
<1>1. WriterTypeOK
  <2>1. WFillIdle \in [pc : {"idle", "read", "insert", "check"}, after : Nat,
                       todo : SUBSET Posted, last : Nat, full : BOOLEAN,
                       inserted : Nat]
    BY DEF WFillIdle
  <2>2. wleft \in [Bounded -> Nat] /\ wrefused \subseteq Posted
    BY WriterAssumption DEF WriterInit, Posted
  <2>3. wpost \in [WPosters -> Seq(Posted)] BY DEF WriterInit
  <2>4. wlen \in 0 .. WMaxPosts BY WriterAssumption DEF WriterInit
  <2> QED BY <2>1, <2>2, <2>3, <2>4 DEF WriterInit, WriterTypeOK, WTaskAt
<1>2. QueueShape BY DEF WriterInit, QueueShape
<1>3. TaskShape BY DEF WriterInit, TaskShape, Answering, Draining, Gone, WTaskAt
<1>4. NoSilentLoss
  <2>1. Handed = {} BY DEF WriterInit, Handed
  <2>2. {i \in 1 .. Len(wchan) : IsData(wchan[i])} = {} BY DEF WriterInit
  <2>3. Cardinality({}) = 0 BY FS_EmptySet
  <2> QED BY <2>1, <2>2, <2>3 DEF WriterInit, NoSilentLoss
<1>5. FlushCovered BY DEF WriterInit, FlushCovered
<1>6. StopCovered
  BY DEF WriterInit, StopCovered, Draining, WTaskAt
<1>7. DrainedIsSettled BY DEF WriterInit, DrainedIsSettled
<1> QED BY <1>1, <1>2, <1>3, <1>4, <1>5, <1>6, <1>7 DEF WriterInv

\* The types of the queues and of the callers.
LEMMA WriterTypes ==
    ASSUME WriterInv
    PROVE  /\ WriterTypeOK
           /\ wchan \in Seq(WRequests) /\ wbatch \in Seq(WRequests)
           /\ Len(wchan) \in Nat /\ Len(wbatch) \in Nat
           /\ wlen \in Nat /\ WMaxPosts \in Nat /\ wpending \in Nat
           /\ wpost \in [WPosters -> Seq(Posted)]
           /\ wflush \in [WFlushers -> [st : {"none", "waiting", "drained",
                                             "unread", "refused", "timeout"},
                                       before : SUBSET Posted]]
           /\ wstop \in [asked : BOOLEAN, before : SUBSET Posted]
           /\ wleft \in [Bounded -> Nat]
           /\ Handed \subseteq Posted
<1>1. WriterTypeOK BY DEF WriterInv
<1>2. wlen \in Nat /\ WMaxPosts \in Nat /\ wlen <= WMaxPosts
  BY <1>1, WriterAssumption DEF WriterTypeOK
<1>3. Handed \subseteq Posted BY <1>2 DEF Handed, Posted
<1> QED BY <1>1, <1>2, <1>3 DEF WriterTypeOK

\* What the provers need to know of the pending count.
LEMMA PendingIs ==
    ASSUME WriterInv
    PROVE  wpending = Cardinality(DataAt(wchan)) + Len(wbatch)
BY DEF WriterInv, NoSilentLoss, DataAt

\* A caller stays as it is, or gives up.
CallersKept ==
    \A i \in WFlushers :
        /\ wflush'[i].before = wflush[i].before
        /\ \/ wflush'[i].st = wflush[i].st
           \/ wflush[i].st = "waiting" /\ wflush'[i].st = "timeout"

\* A step that leaves the queue alone, and settles more or the same.
LEMMA QuietStep ==
    ASSUME WriterInv, WriterTypeOK', wchan' = wchan, wbatch' = wbatch,
           wtask' = wtask, wstop' = wstop, wpending' = wpending,
           WSettled \subseteq WSettled',
           Handed' \subseteq Handed \cup WSettled', CallersKept
    PROVE  WriterInv'
<1> USE DEF CallersKept
<1>1. QueueShape'
  BY DEF WriterInv, QueueShape
<1>2. TaskShape'
  BY DEF WriterInv, TaskShape, Answering, Draining, Gone
<1>3. NoSilentLoss'
  <2>1. Handed' \subseteq WSettled' \cup IdsOf(wchan)' \cup IdsOf(wbatch)'
    <3>1. Handed \subseteq WSettled \cup IdsOf(wchan) \cup IdsOf(wbatch)
      BY DEF WriterInv, NoSilentLoss
    <3>2. IdsOf(wchan)' = IdsOf(wchan) /\ IdsOf(wbatch)' = IdsOf(wbatch)
      BY DEF IdsOf
    <3> QED BY <3>1, <3>2
  <2> QED BY <2>1 DEF WriterInv, NoSilentLoss
<1>4. FlushCovered'
  <2>1. Answering' = Answering BY DEF Answering
  <2>2. IdsOf(wbatch)' = IdsOf(wbatch) BY DEF IdsOf
  <2>3. \A k : IdsBefore(wchan, k)' = IdsBefore(wchan, k) BY DEF IdsBefore
  <2> QED BY <2>1, <2>2, <2>3 DEF WriterInv, FlushCovered
<1>5. StopCovered'
  <2>1. Draining' = Draining BY DEF Draining
  <2>2. IdsOf(wbatch)' = IdsOf(wbatch) BY DEF IdsOf
  <2>3. \A k : IdsBefore(wchan, k)' = IdsBefore(wchan, k) BY DEF IdsBefore
  <2> QED BY <2>1, <2>2, <2>3 DEF WriterInv, StopCovered
<1>6. DrainedIsSettled' BY DEF WriterInv, DrainedIsSettled
<1> QED BY <1>1, <1>2, <1>3, <1>4, <1>5, <1>6 DEF WriterInv

\* A request goes to the end of the queue: what it counts on is before it.
LEMMA WPushStep ==
    ASSUME WriterInv, WriterTypeOK', NEW r \in WRequests,
           wchan' = Append(wchan, r), wbatch' = wbatch, wtask' = wtask,
           wpending' = wpending + (IF IsData(r) THEN 1 ELSE 0),
           wpg' = wpg, wcounted' = wcounted,
           Handed' \subseteq Handed \cup
               (IF r.kind = "message" THEN {r.id} ELSE {}),
           r.kind = "message" => r.id \in Posted,
           \A i \in WFlushers :
               IF r.kind = "flush" /\ r.id = i
               THEN /\ wflush[i].st = "none" /\ wflush'[i].st = "waiting"
                    /\ wflush'[i].before = Handed
               ELSE wflush'[i] = wflush[i],
           r.kind = "flush" => r.id \in WFlushers,
           IF r.kind = "shutdown"
           THEN ~wstop.asked /\ wstop'.asked /\ wstop'.before = Handed
           ELSE wstop' = wstop
    PROVE  WriterInv'
<1>1. /\ Len(wchan') = Len(wchan) + 1 /\ Len(wchan) \in Nat
      /\ wchan'[Len(wchan) + 1] = r
      /\ \A k \in 1 .. Len(wchan) : wchan'[k] = wchan[k]
      /\ \A k \in 1 .. Len(wchan') : k \in 1 .. Len(wchan) \/ k = Len(wchan) + 1
  BY WriterTypes
<1>2. WSettled' = WSettled /\ IdsOf(wbatch)' = IdsOf(wbatch)
  BY DEF WSettled, IdsOf
<1>3. /\ IdsOf(wchan) \subseteq IdsOf(wchan)'
      /\ r.kind = "message" => r.id \in IdsOf(wchan)'
      /\ IdsBefore(wchan', Len(wchan) + 1) = IdsOf(wchan)
      /\ \A k \in 1 .. Len(wchan) : IdsBefore(wchan', k) = IdsBefore(wchan, k)
  BY WriterTypes, IdsOfAppend
<1>4. Handed \subseteq WSettled \cup IdsOf(wchan) \cup IdsOf(wbatch)
  BY DEF WriterInv, NoSilentLoss
<1>5. QueueShape'
  BY <1>1 DEF WriterInv, QueueShape
<1>6. TaskShape'
  BY DEF WriterInv, TaskShape, Answering, Draining, Gone
<1>7. NoSilentLoss'
  <2>1. wpending' = Cardinality(DataAt(wchan')) + Len(wbatch')
    <3>1. Cardinality(DataAt(wchan'))
            = Cardinality(DataAt(wchan)) + (IF IsData(r) THEN 1 ELSE 0)
      BY WriterTypes, DataOfAppend
    <3> QED BY <3>1, WriterTypes, PendingIs, DataFinite
  <2>2. Handed' \subseteq WSettled' \cup IdsOf(wchan)' \cup IdsOf(wbatch)'
    BY <1>2, <1>3, <1>4
  <2> QED BY <2>1, <2>2 DEF NoSilentLoss, DataAt
<1>8. FlushCovered'
  <2> SUFFICES ASSUME NEW i \in WFlushers, wflush'[i].st = "waiting"
               PROVE  /\ \A k \in 1 .. Len(wchan') :
                            wchan'[k].kind = "flush" /\ wchan'[k].id = i =>
                              wflush'[i].before \subseteq WSettled' \cup IdsOf(wbatch)'
                                                           \cup IdsBefore(wchan', k)
                      /\ Answering' /\ wtask'.id = i =>
                            wflush'[i].before \subseteq WSettled' \cup IdsOf(wbatch)'
    BY DEF FlushCovered
  <2>1. CASE r.kind = "flush" /\ r.id = i
    <3>1. ~Answering \/ wtask.id # i BY <2>1 DEF WriterInv, TaskShape
    <3>2. \A k \in 1 .. Len(wchan) : ~(wchan[k].kind = "flush" /\ wchan[k].id = i)
      BY <2>1 DEF WriterInv, QueueShape
    <3> QED BY <1>1, <1>2, <1>3, <1>4, <2>1, <3>1, <3>2 DEF Answering
  <2>2. CASE ~(r.kind = "flush" /\ r.id = i)
    BY <1>1, <1>2, <1>3, <2>2 DEF WriterInv, FlushCovered, Answering
  <2> QED BY <2>1, <2>2
<1>9. StopCovered'
  <2>1. CASE r.kind = "shutdown"
    <3>1. ~Draining BY <2>1 DEF WriterInv, TaskShape
    <3>2. \A k \in 1 .. Len(wchan) : wchan[k].kind # "shutdown"
      BY <2>1 DEF WriterInv, QueueShape
    <3>3. ~Draining' BY <3>1 DEF Draining
    <3> QED BY <1>1, <1>2, <1>3, <1>4, <2>1, <3>2, <3>3 DEF StopCovered
  <2>2. CASE r.kind # "shutdown"
    <3>1. Draining' = Draining BY DEF Draining
    <3> QED BY <1>1, <1>2, <1>3, <2>2, <3>1 DEF WriterInv, StopCovered
  <2> QED BY <2>1, <2>2
<1>10. DrainedIsSettled' BY <1>2 DEF WriterInv, DrainedIsSettled
<1> QED BY <1>5, <1>6, <1>7, <1>8, <1>9, <1>10 DEF WriterInv

-----------------------------------------------------------------------------
(* The task.                                                               *)

\* An answer goes to the caller, if it still waits.
LEMMA AnsweredIs ==
    ASSUME WriterInv, NEW i \in WFlushers, Answered(i)
    PROVE  /\ wflush' \in [WFlushers -> [st : {"none", "waiting", "drained",
                                             "unread", "refused", "timeout"},
                                       before : SUBSET Posted]]
           /\ \A j \in WFlushers :
                  /\ wflush'[j].before = wflush[j].before
                  /\ wflush'[j].st # wflush[j].st =>
                        j = i /\ wflush[j].st = "waiting" /\ wflush'[j].st = "drained"
<1> DEFINE st == IF wflush[i].st = "waiting" THEN "drained" ELSE wflush[i].st
           c == [wflush[i] EXCEPT !.st = st]
<1>1. wflush[i] \in [st : {"none", "waiting", "drained", "unread", "refused",
                           "timeout"}, before : SUBSET Posted]
  BY WriterTypes
<1>2. wflush' = [wflush EXCEPT ![i] = c] BY <1>1, WriterTypes DEF Answered
<1>3. c.before = wflush[i].before /\ c.st = st
      /\ c \in [st : {"none", "waiting", "drained", "unread", "refused",
                      "timeout"}, before : SUBSET Posted]
  BY <1>1
<1> HIDE DEF c
<1> QED BY <1>2, <1>3, WriterTypes

\* The task moves without reading or writing: it answers a caller only after
\* its flush, and ends only with an empty batch.
LEMMA TaskMoves ==
    ASSUME WriterInv, WriterTypeOK', wchan' = wchan, wbatch' = wbatch,
           wstop' = wstop, wpending' = wpending, wpg' = wpg,
           wcounted' = wcounted, wlen' = wlen, wpost' = wpost,
           ~Answering', Draining' => Draining, Gone' => wbatch = <<>>,
           \A i \in WFlushers :
               /\ wflush'[i].before = wflush[i].before
               /\ wflush'[i].st # "none" <=> wflush[i].st # "none"
               /\ wflush'[i].st = "waiting" => wflush[i].st = "waiting"
               /\ wflush'[i].st = "drained" =>
                     \/ wflush[i].st = "drained"
                     \/ /\ wflush[i].st = "waiting" /\ Answering
                        /\ wtask.id = i /\ wbatch = <<>>
    PROVE  WriterInv'
<1>1. /\ WSettled' = WSettled /\ Handed' = Handed
      /\ IdsOf(wbatch)' = IdsOf(wbatch) /\ IdsOf(wchan)' = IdsOf(wchan)
      /\ \A k : IdsBefore(wchan, k)' = IdsBefore(wchan, k)
  BY DEF WSettled, Handed, IdsOf, IdsBefore
<1>2. QueueShape' BY DEF WriterInv, QueueShape
<1>3. TaskShape' BY DEF WriterInv, TaskShape
<1>4. NoSilentLoss' BY <1>1 DEF WriterInv, NoSilentLoss
<1>5. FlushCovered' BY <1>1 DEF WriterInv, FlushCovered
<1>6. StopCovered' BY <1>1 DEF WriterInv, StopCovered
<1>7. DrainedIsSettled'
  <2>1. wbatch = <<>> => IdsOf(wbatch) = {} BY DEF IdsOf
  <2> QED BY <1>1, <2>1 DEF WriterInv, DrainedIsSettled, FlushCovered
<1> QED BY <1>2, <1>3, <1>4, <1>5, <1>6, <1>7 DEF WriterInv

\* The timer, and the last flush after the drain.
LEMMA WTickStep ==
    ASSUME WriterInv, WTick \/ WDrained PROVE WriterInv'
<1>1. /\ wchan' = wchan /\ wbatch' = wbatch /\ wstop' = wstop
      /\ wpending' = wpending /\ wpg' = wpg /\ wcounted' = wcounted
      /\ wlen' = wlen /\ wpost' = wpost /\ wflush' = wflush
      /\ wdropped' = wdropped /\ wbreaker' = wbreaker /\ wup' = wup
      /\ wfill' = wfill /\ wplan' = wplan /\ wrefused' = wrefused /\ wleft' = wleft
      /\ \/ wtask' = WTaskAt("flush", "select", 0)
         \/ wtask.pc = "drain" /\ wtask' = WTaskAt("flush", "gone", 0)
  BY DEF WTick, WDrained, storesSame, worldSame, callersSame
<1>2. WriterTypeOK' BY <1>1, WriterTypes DEF WriterTypeOK, WTaskAt
<1>3. ~Answering' /\ (Draining' => Draining) /\ ~Gone'
  BY <1>1 DEF Answering, Draining, Gone, WTaskAt
<1> QED BY <1>1, <1>2, <1>3, TaskMoves

\* The end of a flush.
LEMMA FlushedStep ==
    ASSUME WriterInv, WFlushed PROVE WriterInv'
<1>1. /\ wchan' = wchan /\ wbatch' = wbatch /\ wstop' = wstop
      /\ wpending' = wpending /\ wpg' = wpg /\ wcounted' = wcounted
      /\ wlen' = wlen /\ wpost' = wpost
      /\ wdropped' = wdropped /\ wbreaker' = wbreaker /\ wup' = wup
      /\ wfill' = wfill /\ wplan' = wplan /\ wrefused' = wrefused /\ wleft' = wleft
      /\ wtask.pc = "flush" /\ wbatch = <<>>
  BY DEF WFlushed, storesSame, worldSame
<1>2. CASE /\ wtask.then \in {"select", "drain"} /\ wflush' = wflush
           /\ wtask' = WTaskAt(wtask.then, wtask.then, 0)
  <2>1. WriterTypeOK' BY <1>1, <1>2, WriterTypes DEF WriterTypeOK, WTaskAt
  <2>2. ~Answering' /\ (Draining' => Draining)
    BY <1>1, <1>2 DEF Answering, Draining, WTaskAt
  <2> QED BY <1>1, <1>2, <2>1, <2>2, TaskMoves
<1>3. CASE /\ Answered(wtask.id)
           /\ \/ /\ wtask.then = "answer"
                 /\ wtask' = WTaskAt("select", "select", 0)
              \/ /\ wtask.then = "drainAnswer"
                 /\ wtask' = WTaskAt("drain", "drain", 0)
  <2>0. Answering /\ wtask.id \in WFlushers
    BY <1>1, <1>3 DEF Answering, WriterInv, TaskShape
  <2>1. /\ wflush' \in [WFlushers -> [st : {"none", "waiting", "drained",
                                           "unread", "refused", "timeout"},
                                     before : SUBSET Posted]]
        /\ \A j \in WFlushers :
               /\ wflush'[j].before = wflush[j].before
               /\ wflush'[j].st # wflush[j].st =>
                     /\ j = wtask.id /\ wflush[j].st = "waiting"
                     /\ wflush'[j].st = "drained"
    BY <1>3, <2>0, AnsweredIs
  <2>2. WriterTypeOK' BY <1>1, <1>3, <2>1, WriterTypes DEF WriterTypeOK, WTaskAt
  <2>3. ~Answering' /\ (Draining' => Draining)
    BY <1>1, <1>3 DEF Answering, Draining, WTaskAt
  <2> QED BY <1>1, <2>0, <2>1, <2>2, <2>3, TaskMoves
<1>4. CASE /\ wtask.then = "gone" /\ wtask' = WTaskAt("gone", "gone", 0)
           /\ wflush' = [j \in WFlushers |->
                 IF wflush[j].st = "waiting"
                 THEN [wflush[j] EXCEPT !.st = "unread"] ELSE wflush[j]]
  <2>1. ASSUME NEW j \in WFlushers
        PROVE  /\ wflush'[j] \in [st : {"none", "waiting", "drained", "unread",
                                        "refused", "timeout"},
                                  before : SUBSET Posted]
               /\ wflush'[j].before = wflush[j].before
               /\ wflush'[j].st # wflush[j].st =>
                     wflush[j].st = "waiting" /\ wflush'[j].st = "unread"
               /\ wflush'[j].st # "waiting"
    <3>1. wflush[j] \in [st : {"none", "waiting", "drained", "unread",
                               "refused", "timeout"}, before : SUBSET Posted]
      BY WriterTypes
    <3>2. CASE wflush[j].st = "waiting" BY <1>4, <3>1, <3>2
    <3>3. CASE wflush[j].st # "waiting" BY <1>4, <3>1, <3>3
    <3> QED BY <3>2, <3>3
  <2>2. wflush' \in [WFlushers -> [st : {"none", "waiting", "drained",
                                        "unread", "refused", "timeout"},
                                  before : SUBSET Posted]]
    BY <1>4, <2>1
  <2>3. WriterTypeOK' BY <1>1, <1>4, <2>2, WriterTypes DEF WriterTypeOK, WTaskAt
  <2>4. ~Answering' /\ (Draining' => Draining)
    BY <1>1, <1>4 DEF Answering, Draining, WTaskAt
  <2> QED BY <1>1, <2>1, <2>3, <2>4, TaskMoves
<1> QED BY <1>2, <1>3, <1>4 DEF WFlushed

\* The task reads a request: a write goes from the channel to the batch, so
\* that what later requests count on stays in front of them.
LEMMA WTakesStep ==
    ASSUME WriterInv, WriterTypeOK', wchan # <<>>, wchan' = Tail(wchan),
           wlen' = wlen, wpost' = wpost, wpg' = wpg, wcounted' = wcounted,
           wpending' = wpending, wstop' = wstop, wflush' = wflush,
           IF IsData(Head(wchan)) THEN wbatch' = Append(wbatch, Head(wchan))
                                  ELSE wbatch' = wbatch,
           Answering' => /\ Head(wchan).kind = "flush"
                         /\ wtask'.id = Head(wchan).id,
           Draining' => Draining \/ Head(wchan).kind = "shutdown",
           ~Gone'
    PROVE  WriterInv'
<1> DEFINE h == Head(wchan)
<1>1. /\ wchan' \in Seq(WRequests) /\ h \in WRequests
      /\ Len(wchan') = Len(wchan) - 1 /\ Len(wchan) \in Nat \ {0}
      /\ \A k \in 1 .. Len(wchan') :
            k + 1 \in 1 .. Len(wchan) /\ wchan'[k] = wchan[k + 1]
      /\ h = wchan[1] /\ 1 \in 1 .. Len(wchan)
      /\ IdsOf(wchan) \subseteq HeadIds(wchan) \cup IdsOf(wchan')
      /\ \A k \in 1 .. Len(wchan') :
            IdsBefore(wchan, k + 1) \subseteq HeadIds(wchan) \cup IdsBefore(wchan', k)
      /\ IdsBefore(wchan, 1) = {}
  BY WriterTypes, IdsOfTail
<1>2. HeadIds(wchan) \subseteq IdsOf(wbatch') /\ IdsOf(wbatch) \subseteq IdsOf(wbatch')
  <2>1. CASE IsData(h)
    <3>1. wbatch' = Append(wbatch, h) BY <2>1
    <3>2. /\ IdsOf(wbatch) \subseteq IdsOf(wbatch')
          /\ h.kind = "message" => h.id \in IdsOf(wbatch')
      BY <1>1, <3>1, WriterTypes, IdsOfAppend
    <3> QED BY <3>2 DEF HeadIds
  <2>2. CASE ~IsData(h)
    BY <2>2 DEF HeadIds, IsData
  <2> QED BY <2>1, <2>2
<1>3. /\ WSettled' = WSettled /\ Handed' = Handed
      /\ IdsOf(wbatch)' = IdsOf(wbatch') /\ IdsOf(wchan)' = IdsOf(wchan')
      /\ \A k : IdsBefore(wchan, k)' = IdsBefore(wchan', k)
  BY DEF WSettled, Handed, IdsOf, IdsBefore
<1>4. QueueShape'
  <2>1. ASSUME NEW k \in 1 .. Len(wbatch')
        PROVE  /\ IsData(wbatch'[k])
               /\ wbatch'[k].kind = "message" => wbatch'[k].id \in Posted
    <3>1. CASE IsData(h)
      <4>0. wbatch' = Append(wbatch, h) /\ h \in WRequests BY <1>1, <3>1
      <4> HIDE DEF h
      <4>1. /\ Len(wbatch') = Len(wbatch) + 1 /\ wbatch'[Len(wbatch) + 1] = h
            /\ \A j \in 1 .. Len(wbatch) : wbatch'[j] = wbatch[j]
            /\ k \in 1 .. Len(wbatch) \/ k = Len(wbatch) + 1
        BY <4>0, WriterTypes
      <4> QED BY <1>1, <3>1, <4>1 DEF WriterInv, QueueShape
    <3>2. CASE ~IsData(h) BY <3>2 DEF WriterInv, QueueShape
    <3> QED BY <3>1, <3>2
  <2>2. ASSUME NEW k \in 1 .. Len(wchan')
        PROVE  /\ wchan'[k].kind = "message" => wchan'[k].id \in Posted
               /\ wchan'[k].kind = "flush" => /\ wchan'[k].id \in WFlushers
                                              /\ wflush'[wchan'[k].id].st # "none"
               /\ wchan'[k].kind = "shutdown" => wstop'.asked
    BY <1>1 DEF WriterInv, QueueShape
  <2> QED BY <2>1, <2>2 DEF QueueShape
<1>5. TaskShape'
  BY <1>1 DEF WriterInv, TaskShape, QueueShape
<1>6. NoSilentLoss'
  <2>1. Handed' \subseteq WSettled' \cup IdsOf(wchan)' \cup IdsOf(wbatch)'
    BY <1>1, <1>2, <1>3 DEF WriterInv, NoSilentLoss
  <2>2. Cardinality(DataAt(wchan))
          = Cardinality(DataAt(wchan')) + (IF IsData(h) THEN 1 ELSE 0)
    BY WriterTypes, DataOfTail
  <2>3. Len(wbatch') = Len(wbatch) + (IF IsData(h) THEN 1 ELSE 0)
    BY <1>1, WriterTypes
  <2>4. Cardinality(DataAt(wchan')) \in Nat BY <1>1, DataFinite
  <2>5. wpending' = Cardinality(DataAt(wchan')) + Len(wbatch')
    <3> HIDE DEF h
    <3> QED BY <2>2, <2>3, <2>4, WriterTypes, PendingIs
  <2> QED BY <2>1, <2>5 DEF NoSilentLoss, DataAt
<1>7. FlushCovered'
  <2> SUFFICES ASSUME NEW i \in WFlushers, wflush[i].st = "waiting"
               PROVE  /\ \A k \in 1 .. Len(wchan') :
                            wchan'[k].kind = "flush" /\ wchan'[k].id = i =>
                              wflush[i].before \subseteq WSettled \cup IdsOf(wbatch')
                                                           \cup IdsBefore(wchan', k)
                      /\ Answering' /\ wtask'.id = i =>
                            wflush[i].before \subseteq WSettled \cup IdsOf(wbatch')
    BY <1>3 DEF FlushCovered
  <2>1. \A k \in 1 .. Len(wchan) :
            wchan[k].kind = "flush" /\ wchan[k].id = i =>
                wflush[i].before \subseteq WSettled \cup IdsOf(wbatch)
                                             \cup IdsBefore(wchan, k)
    BY DEF WriterInv, FlushCovered
  <2> QED BY <1>1, <1>2, <2>1
<1>8. StopCovered'
  <2>1. \A k \in 1 .. Len(wchan) :
            wchan[k].kind = "shutdown" =>
                wstop.before \subseteq WSettled \cup IdsOf(wbatch)
                                          \cup IdsBefore(wchan, k)
    BY DEF WriterInv, StopCovered
  <2>2. Draining' => wstop.before \subseteq WSettled \cup IdsOf(wbatch')
    BY <1>1, <1>2, <2>1 DEF WriterInv, StopCovered
  <2>3. \A k \in 1 .. Len(wchan') :
            wchan'[k].kind = "shutdown" =>
                wstop.before \subseteq WSettled \cup IdsOf(wbatch')
                                          \cup IdsBefore(wchan', k)
    BY <1>1, <1>2, <2>1
  <2> QED BY <1>3, <2>2, <2>3 DEF StopCovered
<1>9. DrainedIsSettled' BY <1>3 DEF WriterInv, DrainedIsSettled
<1> QED BY <1>4, <1>5, <1>6, <1>7, <1>8, <1>9 DEF WriterInv

\* rx.recv and try_recv.
LEMMA RecvStep ==
    ASSUME WriterInv, WRecv PROVE WriterInv'
<1> DEFINE h == Head(wchan)
           at == wtask.pc
<1>1. /\ wchan # <<>> /\ wchan' = Tail(wchan) /\ at \in {"select", "drain"}
      /\ wlen' = wlen /\ wpost' = wpost /\ wstop' = wstop
      /\ wpending' = wpending /\ wpg' = wpg /\ wcounted' = wcounted
      /\ wdropped' = wdropped /\ wbreaker' = wbreaker /\ wup' = wup
      /\ wfill' = wfill /\ wplan' = wplan /\ wrefused' = wrefused /\ wleft' = wleft
  BY DEF WRecv, storesSame, worldSame
<1>2. /\ wchan' \in Seq(WRequests) /\ h \in WRequests
      /\ h.kind = "flush" => h.id \in WFlushers
  <2>1. /\ wchan' \in Seq(WRequests) /\ h \in WRequests
        /\ h = wchan[1] /\ 1 \in 1 .. Len(wchan)
    BY <1>1, WriterTypes, IdsOfTail
  <2> QED BY <2>1 DEF WriterInv, QueueShape
<1>3. wflush' = wflush /\ (IF IsData(h) THEN wbatch' = Append(wbatch, h)
                                        ELSE wbatch' = wbatch)
  BY DEF WRecv, Collects, AfterFlush, IsData
<1>4. \/ /\ IsData(h)
         /\ wtask' \in {WTaskAt("flush", "select", 0), WTaskAt("select", "select", 0)}
         /\ at = "select"
      \/ IsData(h) /\ wtask' = WTaskAt("drain", "drain", 0) /\ at = "drain"
      \/ h.kind = "flush" /\ wtask' = WTaskAt("flush", "answer", h.id) /\ at = "select"
      \/ /\ h.kind = "flush" /\ wtask' = WTaskAt("flush", "drainAnswer", h.id)
         /\ at = "drain"
      \/ h.kind = "shutdown" /\ wtask' = WTaskAt("drain", "drain", 0)
  <2>1. CASE IsData(h) /\ Collects(h, at)
    <3>1. CASE at = "select" BY <2>1, <3>1 DEF Collects
    <3>2. CASE at = "drain" BY <2>1, <3>2 DEF Collects
    <3> QED BY <1>1, <2>1, <3>1, <3>2
  <2>2. CASE h.kind = "flush" /\ AfterFlush(h.id, at)
    <3>1. CASE at = "select" BY <2>2, <3>1 DEF AfterFlush
    <3>2. CASE at = "drain" BY <2>2, <3>2 DEF AfterFlush
    <3> QED BY <1>1, <3>1, <3>2
  <2>3. CASE h.kind = "shutdown" /\ wtask' = WTaskAt("drain", "drain", 0)
    BY <2>3
  <2> QED BY <2>1, <2>2, <2>3 DEF WRecv
<1> HIDE DEF h
<1>5. WriterTypeOK'
  <2>1. wtask' \in [pc : {"select", "flush", "drain", "gone"},
                    then : {"select", "answer", "drain", "drainAnswer", "gone"},
                    id : WFlushers \cup {0}]
    <3>1. \/ \E x \in {"flush", "select", "drain"}, y \in {"select", "drain"} :
                wtask' = [pc |-> x, then |-> y, id |-> 0]
          \/ /\ h.id \in WFlushers
             /\ \/ wtask' = [pc |-> "flush", then |-> "answer", id |-> h.id]
                \/ wtask' = [pc |-> "flush", then |-> "drainAnswer", id |-> h.id]
      BY <1>2, <1>4 DEF WTaskAt
    <3> QED BY <3>1
  <2>2. wbatch' \in Seq(WRequests)
    <3>1. CASE IsData(h)
      <4>1. wbatch' = Append(wbatch, h) BY <1>3, <3>1
      <4> QED BY <1>2, <4>1, WriterTypes
    <3>2. CASE ~IsData(h) BY <1>3, <3>2, WriterTypes
    <3> QED BY <3>1, <3>2
  <2> QED BY <1>1, <1>2, <1>3, <2>1, <2>2, WriterTypes DEF WriterTypeOK
<1>6. /\ Answering' => h.kind = "flush" /\ wtask'.id = h.id
      /\ Draining' => Draining \/ h.kind = "shutdown"
      /\ ~Gone'
  BY <1>1, <1>4 DEF Answering, Draining, Gone, WTaskAt
<1> QED BY <1>1, <1>3, <1>5, <1>6, WTakesStep DEF h

\* A write is attempted: it is a row, or it is counted.
LEMMA PersistStep ==
    ASSUME WriterInv, WPersist PROVE WriterInv'
<1> DEFINE h == Head(wbatch)
           rows == IF h.kind = "message" THEN {h.id} ELSE {}
<1>0. PICK refused \in Refusals(h) :
        /\ wpg' \in {wpg, wpg \cup rows} /\ wbreaker' \in {wbreaker, "open"}
        /\ wdropped' \in {wdropped, wdropped + 1}
        /\ wcounted' \in {wcounted, wcounted \cup rows}
        /\ wpg' = wpg \cup rows \/ wcounted' = wcounted \cup rows
  BY DEF WPersist, CountDrop
<1>1. /\ wtask.pc = "flush" /\ wbatch # <<>> /\ wbatch' = Tail(wbatch)
      /\ wpending' = wpending - 1
      /\ wlen' = wlen /\ wpost' = wpost /\ wchan' = wchan /\ wtask' = wtask
      /\ wflush' = wflush /\ wstop' = wstop /\ wrefused' = wrefused
      /\ wup' = wup /\ wfill' = wfill /\ wplan' = wplan /\ wleft' = wleft
      /\ wpg' \in {wpg, wpg \cup rows} /\ wbreaker' \in {"open", "closed"}
  BY <1>0, WriterTypes DEF WPersist, worldSame, callersSame, WriterTypeOK
<1>2. /\ wdropped' \in {wdropped, wdropped + 1}
      /\ wcounted' \in {wcounted, wcounted \cup rows}
      /\ wpg' = wpg \cup rows \/ wcounted' = wcounted \cup rows
  BY <1>0
<1>3. /\ Tail(wbatch) \in Seq(WRequests) /\ Len(Tail(wbatch)) = Len(wbatch) - 1
      /\ Len(wbatch) \in Nat \ {0} /\ h = wbatch[1] /\ 1 \in 1 .. Len(wbatch)
      /\ \A k \in 1 .. Len(Tail(wbatch)) :
             k + 1 \in 1 .. Len(wbatch) /\ Tail(wbatch)[k] = wbatch[k + 1]
      /\ IdsOf(wbatch) \subseteq rows \cup IdsOf(Tail(wbatch))
  BY <1>1, WriterTypes, IdsOfTail DEF HeadIds
<1>4. rows \subseteq Posted BY <1>3 DEF WriterInv, QueueShape
<1>5. wpending - 1 \in Nat /\ wpending' = Cardinality(DataAt(wchan)) + Len(wbatch')
  <2>1. Cardinality(DataAt(wchan)) \in Nat BY WriterTypes, DataFinite
  <2>2. Len(wbatch') = Len(wbatch) - 1 BY <1>1, <1>3
  <2> QED BY <1>1, <1>3, <2>1, <2>2, PendingIs
<1> HIDE DEF rows
<1>6. WSettled \cup rows \subseteq WSettled' BY <1>1, <1>2 DEF WSettled
<1>7. WSettled \cup IdsOf(wbatch) \subseteq WSettled' \cup IdsOf(wbatch')
  BY <1>1, <1>3, <1>6
<1>8. WriterTypeOK'
  <2>1. wpg' \subseteq Posted /\ wcounted' \subseteq Posted
    BY <1>1, <1>2, <1>4, WriterTypes DEF WriterTypeOK
  <2>2. {wpending', wdropped'} \subseteq Nat
    BY <1>1, <1>2, <1>5, WriterTypes DEF WriterTypeOK
  <2> QED BY <1>1, <1>3, <2>1, <2>2, WriterTypes DEF WriterTypeOK
<1>9. /\ Handed' = Handed /\ IdsOf(wchan)' = IdsOf(wchan)
      /\ IdsOf(wbatch)' = IdsOf(wbatch') /\ Answering' = Answering
      /\ Draining' = Draining
      /\ \A k : IdsBefore(wchan, k)' = IdsBefore(wchan, k)
  BY <1>1 DEF Handed, IdsOf, IdsBefore, Answering, Draining
<1>10. QueueShape'
  BY <1>1, <1>3 DEF WriterInv, QueueShape
<1>11. TaskShape' BY <1>1, <1>9 DEF WriterInv, TaskShape, Gone
<1>12. NoSilentLoss'
  <2>1. Handed' \subseteq WSettled' \cup IdsOf(wchan)' \cup IdsOf(wbatch)'
    BY <1>7, <1>9 DEF WriterInv, NoSilentLoss
  <2> QED BY <1>1, <1>5, <2>1 DEF NoSilentLoss, DataAt
<1>13. FlushCovered' BY <1>1, <1>7, <1>9 DEF WriterInv, FlushCovered
<1>14. StopCovered' BY <1>1, <1>7, <1>9 DEF WriterInv, StopCovered
<1>15. DrainedIsSettled' BY <1>1, <1>6 DEF WriterInv, DrainedIsSettled
<1> QED BY <1>8, <1>10, <1>11, <1>12, <1>13, <1>14, <1>15 DEF WriterInv

-----------------------------------------------------------------------------
(* The callers.                                                            *)

\* What is left of the budget stays a number.
LEMMA WSpendTypes ==
    ASSUME WriterInv, NEW what \in Bounded, NEW n \in Nat, n <= wleft[what],
           Spend(what, n)
    PROVE  wleft' \in [Bounded -> Nat]
<1>1. wleft \in [Bounded -> Nat] BY WriterTypes
<1>2. wleft[what] - n \in Nat BY <1>1
<1> QED BY <1>1, <1>2 DEF Spend

\* The stream gets new entries, which are not handed over yet.
LEMMA WAddStep ==
    ASSUME WriterInv, NEW p \in WPosters, NEW k \in 1 .. 2, WAdd(p, k)
    PROVE  WriterInv'
<1> DEFINE new == [i \in 1 .. k |-> wlen + i]
<1>1. /\ wpost[p] = <<>> /\ k <= wleft["posts"] /\ wlen + k <= WMaxPosts
      /\ wlen' = wlen + k /\ wpost' = [wpost EXCEPT ![p] = new]
      /\ wchan' = wchan /\ wbatch' = wbatch /\ wtask' = wtask /\ wup' = wup
      /\ wfill' = wfill /\ wplan' = wplan /\ wrefused' = wrefused /\ wpending' = wpending
      /\ wdropped' = wdropped /\ wcounted' = wcounted /\ wpg' = wpg
      /\ wbreaker' = wbreaker /\ wflush' = wflush /\ wstop' = wstop
  BY DEF WAdd, storesSame, callersSame
<1>2. wleft' \in [Bounded -> Nat]
  <2>1. k \in Nat /\ "posts" \in Bounded BY DEF Bounded
  <2> QED BY <1>1, <2>1, WSpendTypes DEF WAdd
<1>3. new \in Seq(Posted) /\ Len(new) = k
  <2>1. new \in [1 .. k -> Posted] BY <1>1, WriterTypes DEF Posted
  <2> QED BY <2>1, SeqDef
<1> HIDE DEF new
<1>4. WriterTypeOK' BY <1>1, <1>2, <1>3, WriterTypes DEF WriterTypeOK
<1>5. WSettled' = WSettled BY <1>1 DEF WSettled
<1>6. Handed' \subseteq Handed
  <2> SUFFICES ASSUME NEW m \in Handed' PROVE m \in Handed OBVIOUS
  <2>1. m \in 1 .. wlen + k
        /\ \A q \in WPosters : \A i \in 1 .. Len(wpost'[q]) : m # wpost'[q][i]
    BY <1>1 DEF Handed
  <2>2. wpost'[p] = new BY <1>1, WriterTypes
  <2>3. m \in 1 .. wlen
    <3>1. \A i \in 1 .. k : m # wlen + i BY <1>3, <2>1, <2>2 DEF new
    <3>2. CASE m > wlen
      <4>1. m - wlen \in 1 .. k /\ m = wlen + (m - wlen) BY <2>1, <3>2, WriterTypes
      <4> QED BY <3>1, <4>1
    <3> QED BY <2>1, <3>2, WriterTypes
  <2>4. \A q \in WPosters : \A i \in 1 .. Len(wpost[q]) : m # wpost[q][i]
    <3> SUFFICES ASSUME NEW q \in WPosters, NEW i \in 1 .. Len(wpost[q])
                 PROVE  m # wpost[q][i]
      OBVIOUS
    <3>1. q # p BY <1>1
    <3>2. wpost'[q] = wpost[q] BY <1>1, <3>1, WriterTypes
    <3> QED BY <2>1, <3>2
  <2> QED BY <2>3, <2>4 DEF Handed
<1>7. WSettled \subseteq WSettled' /\ Handed' \subseteq Handed \cup WSettled'
  BY <1>5, <1>6
<1>8. CallersKept BY <1>1 DEF CallersKept
<1> QED BY <1>1, <1>4, <1>7, <1>8, QuietStep

\* A message is handed over: to the channel, or to the count of those dropped.
LEMMA WSendStep ==
    ASSUME WriterInv, NEW p \in WPosters, WSend(p) PROVE WriterInv'
<1> DEFINE m == Head(wpost[p])
<1>1. /\ wpost[p] # <<>> /\ wpost' = [wpost EXCEPT ![p] = Tail(wpost[p])]
      /\ wlen' = wlen /\ wbatch' = wbatch /\ wtask' = wtask /\ wpg' = wpg
      /\ wbreaker' = wbreaker /\ wup' = wup /\ wfill' = wfill /\ wplan' = wplan /\ wrefused' = wrefused
      /\ wleft' = wleft /\ wflush' = wflush /\ wstop' = wstop
  BY DEF WSend, worldSame, callersSame
<1>2. /\ wpost[p] \in Seq(Posted) /\ m \in Posted /\ Tail(wpost[p]) \in Seq(Posted)
      /\ m = wpost[p][1] /\ Len(Tail(wpost[p])) = Len(wpost[p]) - 1
      /\ \A i \in 1 .. Len(Tail(wpost[p])) : Tail(wpost[p])[i] = wpost[p][i + 1]
  <2>1. wpost[p] \in Seq(Posted) BY WriterTypes
  <2> QED BY <1>1, <2>1
<1>3. wpost' \in [WPosters -> Seq(Posted)] BY <1>1, <1>2, WriterTypes
<1>4. Handed' \subseteq Handed \cup {m}
  <2> SUFFICES ASSUME NEW x \in Handed', x # m PROVE x \in Handed OBVIOUS
  <2>1. x \in 1 .. wlen
        /\ \A q \in WPosters : \A i \in 1 .. Len(wpost'[q]) : x # wpost'[q][i]
    BY <1>1 DEF Handed
  <2>2. ASSUME NEW q \in WPosters, NEW i \in 1 .. Len(wpost[q])
        PROVE  x # wpost[q][i]
    <3>1. CASE q # p
      <4>1. wpost'[q] = wpost[q] BY <1>1, <3>1, WriterTypes
      <4> QED BY <2>1, <4>1
    <3>2. CASE q = p /\ i = 1 BY <1>2, <3>2
    <3>3. CASE q = p /\ i # 1
      <4>1. wpost'[p] = Tail(wpost[p]) BY <1>1, WriterTypes
      <4>2. i - 1 \in 1 .. Len(Tail(wpost[p])) /\ (i - 1) + 1 = i
        BY <1>2, <3>3
      <4>3. Tail(wpost[p])[i - 1] = wpost[p][i] BY <1>2, <4>2
      <4> QED BY <2>1, <3>3, <4>1, <4>2, <4>3
    <3> QED BY <3>1, <3>2, <3>3
  <2> QED BY <2>1, <2>2 DEF Handed
<1>5. CASE ~Gone
  <2> DEFINE r == WReq("message", m)
  <2>1. /\ wchan' = Append(wchan, r) /\ wpending' = wpending + 1
        /\ wdropped' = wdropped /\ wcounted' = wcounted
    BY <1>5 DEF WSend
  <2>2. r \in WRequests /\ r.kind = "message" /\ r.id = m /\ IsData(r)
    BY <1>2, WriterTypes DEF WReq, WRequests, IsData, Posted
  <2> HIDE DEF r, m
  <2>3. wchan' \in Seq(WRequests) BY <2>1, <2>2, WriterTypes
  <2>4. WriterTypeOK' BY <1>1, <1>3, <2>1, <2>3, WriterTypes DEF WriterTypeOK
  <2>5. wpending' = wpending + (IF IsData(r) THEN 1 ELSE 0) BY <2>1, <2>2
  <2> QED BY <1>1, <1>2, <1>4, <2>1, <2>2, <2>4, <2>5, WPushStep
<1>6. CASE Gone
  <2>1. /\ wchan' = wchan /\ wpending' = wpending /\ wdropped' = wdropped + 1
        /\ wcounted' = wcounted \cup {m}
    BY <1>6 DEF WSend, CountDrop
  <2> HIDE DEF m
  <2>2. WriterTypeOK' BY <1>1, <1>2, <1>3, <2>1, WriterTypes DEF WriterTypeOK
  <2>3. WSettled \cup {m} \subseteq WSettled' BY <1>1, <2>1 DEF WSettled
  <2>4. WSettled \subseteq WSettled' /\ Handed' \subseteq Handed \cup WSettled'
    BY <1>4, <2>3
  <2>5. CallersKept BY <1>1 DEF CallersKept
  <2> QED BY <1>1, <2>1, <2>2, <2>4, <2>5, QuietStep
<1> QED BY <1>5, <1>6

\* A presence write, a flush request and a shutdown request.
LEMMA SendPresenceStep == ASSUME WriterInv, WSendPresence PROVE WriterInv'
<1> DEFINE r == WReq("presence", 0)
<1>1. /\ wchan' = Append(wchan, r) /\ wpending' = wpending + 1
      /\ wlen' = wlen /\ wpost' = wpost /\ wbatch' = wbatch /\ wtask' = wtask
      /\ wdropped' = wdropped /\ wcounted' = wcounted /\ wpg' = wpg
      /\ wbreaker' = wbreaker /\ wup' = wup /\ wfill' = wfill /\ wplan' = wplan /\ wrefused' = wrefused
      /\ wflush' = wflush /\ wstop' = wstop
  BY DEF WSendPresence, callersSame
<1>2. r \in WRequests /\ r.kind = "presence" /\ IsData(r)
  BY DEF WReq, WRequests, IsData
<1>3. wleft' \in [Bounded -> Nat]
  <2>1. "presence" \in Bounded /\ wleft["presence"] >= 1
    BY WriterTypes DEF Bounded, WSendPresence, May
  <2> QED BY <2>1, WSpendTypes DEF WSendPresence
<1> HIDE DEF r
<1>4. wchan' \in Seq(WRequests) BY <1>1, <1>2, WriterTypes
<1>5. WriterTypeOK' BY <1>1, <1>3, <1>4, WriterTypes DEF WriterTypeOK
<1>6. Handed' = Handed BY <1>1 DEF Handed
<1>7. wpending' = wpending + (IF IsData(r) THEN 1 ELSE 0) BY <1>1, <1>2
<1> QED BY <1>1, <1>2, <1>5, <1>6, <1>7, WPushStep

\* A caller asks for a flush.
LEMMA FlushCallStep ==
    ASSUME WriterInv, NEW i \in WFlushers, WFlushCall(i) PROVE WriterInv'
<1>1. /\ wlen' = wlen /\ wpost' = wpost /\ wbatch' = wbatch /\ wtask' = wtask
      /\ wstop' = wstop /\ wup' = wup /\ wfill' = wfill /\ wplan' = wplan /\ wrefused' = wrefused
      /\ wpending' = wpending /\ wdropped' = wdropped /\ wcounted' = wcounted
      /\ wpg' = wpg /\ wbreaker' = wbreaker /\ wflush[i].st = "none"
  BY DEF WFlushCall, storesSame
<1>2. wleft' \in [Bounded -> Nat]
  <2>1. "flushes" \in Bounded /\ wleft["flushes"] >= 1
    BY WriterTypes DEF Bounded, WFlushCall, May
  <2> QED BY <2>1, WSpendTypes DEF WFlushCall
<1>3. Handed' = Handed /\ WSettled' = WSettled BY <1>1 DEF Handed, WSettled
<1>4. CASE /\ ~Gone /\ wchan' = Append(wchan, WReq("flush", i))
           /\ wflush' = [wflush EXCEPT ![i] = [st |-> "waiting", before |-> Handed]]
  <2> DEFINE r == WReq("flush", i)
  <2>1. r \in WRequests /\ r.kind = "flush" /\ r.id = i /\ ~IsData(r)
    BY WriterAssumption DEF WReq, WRequests, IsData
  <2>2. wchan' = Append(wchan, r) BY <1>4
  <2> HIDE DEF r
  <2>3. wchan' \in Seq(WRequests) BY <2>1, <2>2, WriterTypes
  <2>4. WriterTypeOK' BY <1>1, <1>2, <1>4, <2>3, WriterTypes DEF WriterTypeOK
  <2>5. \A j \in WFlushers :
            IF r.kind = "flush" /\ r.id = j
            THEN /\ wflush[j].st = "none" /\ wflush'[j].st = "waiting"
                 /\ wflush'[j].before = Handed
            ELSE wflush'[j] = wflush[j]
    BY <1>1, <1>4, <2>1, WriterTypes
  <2>6. wpending' = wpending + (IF IsData(r) THEN 1 ELSE 0)
    BY <1>1, <2>1, WriterTypes
  <2> QED BY <1>1, <1>3, <2>1, <2>2, <2>4, <2>5, <2>6, WPushStep
<1>5. CASE /\ Gone /\ wflush' = [wflush EXCEPT ![i].st = "refused"]
           /\ wchan' = wchan
  <2>1. /\ wflush' \in [WFlushers -> [st : {"none", "waiting", "drained",
                                           "unread", "refused", "timeout"},
                                     before : SUBSET Posted]]
        /\ wflush'[i].st = "refused" /\ wflush'[i].before = wflush[i].before
        /\ \A j \in WFlushers \ {i} : wflush'[j] = wflush[j]
    <3>1. wflush[i] \in [st : {"none", "waiting", "drained", "unread", "refused",
                               "timeout"}, before : SUBSET Posted]
      BY WriterTypes
    <3> QED BY <1>5, <3>1, WriterTypes
  <2>2. WriterTypeOK' BY <1>1, <1>2, <1>5, <2>1, WriterTypes DEF WriterTypeOK
  <2>3. ~Answering' BY <1>1, <1>5 DEF Answering, Gone
  <2>4. Draining' => Draining BY <1>1 DEF Draining
  <2>5. Gone' => wbatch = <<>> BY <1>1 DEF WriterInv, TaskShape, Gone
  <2>6. QueueShape' BY <1>1, <1>5, <2>1 DEF WriterInv, QueueShape
  <2>7. TaskShape' BY <1>1, <2>3, <2>4, <2>5 DEF WriterInv, TaskShape
  <2>8. /\ IdsOf(wchan)' = IdsOf(wchan) /\ IdsOf(wbatch)' = IdsOf(wbatch)
        /\ \A k : IdsBefore(wchan, k)' = IdsBefore(wchan, k)
    BY <1>1, <1>5 DEF IdsOf, IdsBefore
  <2>9. NoSilentLoss' BY <1>1, <1>3, <1>5, <2>8 DEF WriterInv, NoSilentLoss
  <2>10. FlushCovered'
    BY <1>3, <1>5, <2>1, <2>3, <2>8 DEF WriterInv, FlushCovered
  <2>11. StopCovered' BY <1>1, <1>3, <1>5, <2>4, <2>8 DEF WriterInv, StopCovered
  <2>12. DrainedIsSettled' BY <1>3, <2>1 DEF WriterInv, DrainedIsSettled
  <2> QED BY <2>2, <2>6, <2>7, <2>9, <2>10, <2>11, <2>12 DEF WriterInv
<1> QED BY <1>4, <1>5 DEF WFlushCall

\* The shutdown request is queued behind everything else.
LEMMA ShutdownStep == ASSUME WriterInv, WShutdown PROVE WriterInv'
<1> DEFINE r == WReq("shutdown", 0)
<1>1. /\ wchan' = Append(wchan, r) /\ wpending' = wpending
      /\ wlen' = wlen /\ wpost' = wpost /\ wbatch' = wbatch /\ wtask' = wtask
      /\ wdropped' = wdropped /\ wcounted' = wcounted /\ wpg' = wpg
      /\ wbreaker' = wbreaker /\ wup' = wup /\ wfill' = wfill /\ wplan' = wplan /\ wrefused' = wrefused
      /\ wflush' = wflush
      /\ ~wstop.asked /\ wstop' = [asked |-> TRUE, before |-> Handed]
  BY DEF WShutdown, storesSame
<1>2. r \in WRequests /\ r.kind = "shutdown" /\ ~IsData(r)
  BY DEF WReq, WRequests, IsData
<1>3. wleft' \in [Bounded -> Nat]
  <2>1. "stops" \in Bounded /\ wleft["stops"] >= 1
    BY WriterTypes DEF Bounded, WShutdown, May
  <2> QED BY <2>1, WSpendTypes DEF WShutdown
<1> HIDE DEF r
<1>4. wchan' \in Seq(WRequests) BY <1>1, <1>2, WriterTypes
<1>5. WriterTypeOK' BY <1>1, <1>3, <1>4, WriterTypes DEF WriterTypeOK
<1>6. Handed' = Handed BY <1>1 DEF Handed
<1>7. wpending' = wpending + (IF IsData(r) THEN 1 ELSE 0)
  BY <1>1, <1>2, WriterTypes
<1> QED BY <1>1, <1>2, <1>5, <1>6, <1>7, WPushStep

\* The caller gives up.
LEMMA TimeoutStep ==
    ASSUME WriterInv, NEW i \in WFlushers, WFlushTimeout(i) PROVE WriterInv'
<1>1. /\ wlen' = wlen /\ wpost' = wpost /\ wchan' = wchan /\ wbatch' = wbatch
      /\ wtask' = wtask /\ wstop' = wstop /\ wpending' = wpending
      /\ wdropped' = wdropped /\ wcounted' = wcounted /\ wpg' = wpg
      /\ wbreaker' = wbreaker /\ wup' = wup /\ wfill' = wfill
      /\ wplan' = wplan /\ wleft' = wleft /\ wrefused' = wrefused
  BY DEF WFlushTimeout, storesSame, worldSame
<1>2. /\ wflush' \in [WFlushers -> [st : {"none", "waiting", "drained",
                                         "unread", "refused", "timeout"},
                                   before : SUBSET Posted]]
      /\ wflush[i].st = "waiting" /\ wflush'[i].st = "timeout"
      /\ wflush'[i].before = wflush[i].before
      /\ \A j \in WFlushers \ {i} : wflush'[j] = wflush[j]
  <2>1. wflush[i] \in [st : {"none", "waiting", "drained", "unread", "refused",
                             "timeout"}, before : SUBSET Posted]
    BY WriterTypes
  <2> QED BY <2>1, WriterTypes DEF WFlushTimeout
<1>3. WriterTypeOK' BY <1>1, <1>2, WriterTypes DEF WriterTypeOK
<1>4. WSettled' = WSettled /\ Handed' = Handed BY <1>1 DEF WSettled, Handed
<1>5. WSettled \subseteq WSettled' /\ Handed' \subseteq Handed \cup WSettled'
  BY <1>4
<1>6. CallersKept BY <1>2 DEF CallersKept
<1> QED BY <1>1, <1>3, <1>5, <1>6, QuietStep

-----------------------------------------------------------------------------
(* The rows that come another way.                                         *)

\* A step of PostgreSQL, of the monitors or of another process: it inserts
\* rows, or does nothing to them.
LEMMA RowsStep ==
    ASSUME WriterInv, wlen' = wlen, wpost' = wpost, wchan' = wchan,
           wbatch' = wbatch, wtask' = wtask, wpending' = wpending,
           wcounted' = wcounted, wflush' = wflush, wstop' = wstop,
           wpg \subseteq wpg', WriterTypeOK'
    PROVE  WriterInv'
<1>1. WSettled \subseteq WSettled' /\ Handed' = Handed BY DEF WSettled, Handed
<1>2. Handed' \subseteq Handed \cup WSettled' BY <1>1
<1>3. CallersKept BY DEF CallersKept
<1> QED BY <1>1, <1>2, <1>3, QuietStep

\* The stream has posted messages only.
LEMMA StreamIsPosted ==
    ASSUME WriterInv PROVE InStream \in SUBSET Posted
BY WriterTypes DEF InStream, Posted, WriterTypeOK

\* PostgreSQL and the breaker.
LEMMA WorldStep ==
    ASSUME WriterInv, \/ WPgDown \/ WPgUp
                      \/ \E probed \in BOOLEAN : WBreakerCloses(probed)
                      \/ UNCHANGED writerVars
    PROVE  WriterInv'
<1>1. /\ wlen' = wlen /\ wpost' = wpost /\ wchan' = wchan /\ wbatch' = wbatch
      /\ wtask' = wtask /\ wstop' = wstop /\ wpending' = wpending
      /\ wdropped' = wdropped /\ wcounted' = wcounted /\ wpg' = wpg
      /\ wfill' = wfill /\ wplan' = wplan /\ wrefused' = wrefused /\ wflush' = wflush
      /\ wbreaker' \in {"open", "closed"} /\ wup' \in BOOLEAN
  BY WriterTypes
  DEF WPgDown, WPgUp, WBreakerCloses, writerVars, storesSame, worldSame,
      callersSame, WriterTypeOK
<1>2. wleft' \in [Bounded -> Nat]
  <2>1. CASE WPgDown
    <3>1. "outages" \in Bounded /\ wleft["outages"] >= 1
      BY <2>1, WriterTypes DEF Bounded, WPgDown, May
    <3> QED BY <2>1, <3>1, WSpendTypes DEF WPgDown
  <2>2. CASE ~WPgDown
    BY <2>2, WriterTypes DEF WPgUp, WBreakerCloses, writerVars, worldSame
  <2> QED BY <2>1, <2>2
<1>3. WriterTypeOK' BY <1>1, <1>2, WriterTypes DEF WriterTypeOK
<1> QED BY <1>1, <1>3, RowsStep

\* The sync and reconcile commands.
LEMMA CommandStep ==
    ASSUME WriterInv, WSync \/ WReconcilePlan \/ WReconcileApply
    PROVE  WriterInv'
<1>1. /\ wlen' = wlen /\ wpost' = wpost /\ wchan' = wchan /\ wbatch' = wbatch
      /\ wtask' = wtask /\ wstop' = wstop /\ wpending' = wpending
      /\ wdropped' = wdropped /\ wcounted' = wcounted
      /\ wfill' = wfill /\ wflush' = wflush
      /\ wbreaker' = wbreaker /\ wup' = wup /\ wrefused' = wrefused
  BY DEF WSync, WReconcilePlan, WReconcileApply, otherOnly
<1>2. wleft' \in [Bounded -> Nat]
  <2>1. CASE WReconcileApply BY <2>1, WriterTypes DEF WReconcileApply
  <2>2. CASE WSync \/ WReconcilePlan
    <3>1. "syncs" \in Bounded /\ wleft["syncs"] >= 1
      BY <2>2, WriterTypes DEF Bounded, WSync, WReconcilePlan, May
    <3> QED BY <2>2, <3>1, WSpendTypes DEF WSync, WReconcilePlan
  <2> QED BY <2>1, <2>2
<1>3. wpg \subseteq wpg' /\ wpg' \subseteq Posted /\ wplan' \subseteq Posted
  BY WriterTypes, StreamIsPosted
  DEF WSync, WReconcilePlan, WReconcileApply, Reached, WriterTypeOK
<1>4. WriterTypeOK' BY <1>1, <1>2, <1>3, WriterTypes DEF WriterTypeOK
<1> QED BY <1>1, <1>3, <1>4, RowsStep

\* The states of the backfill monitor.
FillStates == [pc : {"idle", "read", "insert", "check"}, after : Nat,
               todo : SUBSET Posted, last : Nat, full : BOOLEAN,
               inserted : Nat]

\* A non-empty page has a last message.
LEMMA LastOfPage ==
    ASSUME WriterInv, NEW page \in SUBSET Posted, page # {}
    PROVE  (CHOOSE m \in page : \A n \in page : n <= m) \in Nat
<1> DEFINE B == {b \in Nat : \A n \in page : n <= b}
<1>1. WMaxPosts \in B BY WriterTypes DEF Posted
<1>2. PICK b \in B : \A c \in B : ~(<<c, b>> \in OpToRel(<, Nat))
  <2>1. B \subseteq Nat /\ B # {} BY <1>1
  <2> HIDE DEF B
  <2> QED BY <2>1, WFMin, NatLessThanWellFounded
<1>3. \A c \in B : ~(c < b) BY <1>2 DEF OpToRel
<1>4. b \in page
  <2>1. SUFFICES ASSUME b \notin page PROVE FALSE OBVIOUS
  <2>2. PICK n \in page : TRUE OBVIOUS
  <2>3. b - 1 \in Nat /\ \A m \in page : m <= b - 1 BY <2>1, <2>2 DEF Posted
  <2>4. b - 1 \in B /\ b - 1 < b BY <2>3
  <2> QED BY <1>3, <2>4
<1>5. \A n \in page : n <= b OBVIOUS
<1> HIDE DEF B
<1>6. (CHOOSE m \in page : \A n \in page : n <= m) \in page BY <1>4, <1>5
<1>7. \A x \in page : x \in Nat BY DEF Posted
<1> QED BY <1>6, <1>7

\* The monitor keeps its types, ...
LEMMA FillTypes ==
    ASSUME WriterInv, WFill PROVE wfill' \in FillStates
<1>1. wfill \in FillStates /\ WFillIdle \in FillStates
  BY WriterTypes DEF WriterTypeOK, FillStates, WFillIdle
<1>2. CASE WFillStart BY <1>1, <1>2 DEF WFillStart, FillStates
<1>3. CASE WFillRead
  <2> DEFINE page == PageAfter(wfill.after)
  <2>1. page \in SUBSET Posted BY StreamIsPosted DEF PageAfter
  <2>2. CASE page = {} BY <1>1, <1>3, <2>2 DEF WFillRead
  <2>3. CASE page # {}
    <3>1. PICK l \in Nat : l = CHOOSE m \in page : \A n \in page : n <= m
      BY <2>1, <2>3, LastOfPage
    <3>2. PICK full \in BOOLEAN : full <=> Cardinality(page) = WPage OBVIOUS
    <3>3. wfill' = [wfill EXCEPT !.pc = "insert", !.todo = page, !.inserted = 0,
                                 !.last = l, !.full = Cardinality(page) = WPage]
      BY <1>3, <2>3, <3>1 DEF WFillRead
    <3> HIDE DEF page
    <3> QED BY <1>1, <2>1, <3>3 DEF FillStates
  <2> QED BY <2>2, <2>3
<1>4. CASE WFillInsert
  <2>1. CASE wfill' = WFillIdle BY <1>1, <2>1
  <2>2. CASE wfill' # WFillIdle
    <3>1. PICK m \in wfill.todo :
            wfill' = [wfill EXCEPT !.todo = @ \ {m},
                                   !.inserted = IF m \in wpg THEN @ ELSE @ + 1]
      BY <1>4, <2>2 DEF WFillInsert
    <3>2. PICK n \in Nat : n = IF m \in wpg THEN wfill.inserted
                                           ELSE wfill.inserted + 1
      BY <1>1 DEF FillStates
    <3>3. wfill' = [wfill EXCEPT !.todo = @ \ {m}, !.inserted = n]
      BY <3>1, <3>2
    <3> QED BY <1>1, <3>3 DEF FillStates
  <2> QED BY <2>1, <2>2
<1>5. CASE WFillCount BY <1>1, <1>5 DEF WFillCount, FillStates
<1>6. CASE WFillCheck BY <1>1, <1>6 DEF WFillCheck, NextPage, FillStates
<1> QED BY <1>2, <1>3, <1>4, <1>5, <1>6 DEF WFill

\* ... and inserts rows of the stream.
LEMMA FillStep == ASSUME WriterInv, WFill PROVE WriterInv'
<1>1. /\ wlen' = wlen /\ wpost' = wpost /\ wchan' = wchan /\ wbatch' = wbatch
      /\ wtask' = wtask /\ wstop' = wstop /\ wpending' = wpending
      /\ wcounted' = wcounted /\ wflush' = wflush /\ wleft' = wleft
      /\ wbreaker' = wbreaker /\ wup' = wup /\ wplan' = wplan
      /\ wrefused' = wrefused
  BY DEF WFill, WFillStart, WFillRead, WFillInsert, WFillCount, WFillCheck, fillOnly
<1>2. wfill' \in FillStates /\ wfill \in FillStates
  BY FillTypes, WriterTypes DEF WriterTypeOK, FillStates
<1>3. wpg \subseteq wpg' /\ wpg' \subseteq Posted
  <2>1. wfill.todo \subseteq Posted BY <1>2 DEF FillStates
  <2> QED BY <2>1, WriterTypes
          DEF WFill, WFillStart, WFillRead, WFillInsert, WFillCount, WFillCheck,
              WriterTypeOK
<1>4. wdropped' \in Nat
  <2>1. wdropped \in Nat /\ wfill.inserted \in Nat
    BY <1>2, WriterTypes DEF WriterTypeOK, FillStates
  <2>2. CASE WFillCount BY <2>1, <2>2 DEF WFillCount
  <2>3. CASE ~WFillCount
    BY <2>1, <2>3 DEF WFill, WFillStart, WFillRead, WFillInsert, WFillCheck
  <2> QED BY <2>2, <2>3
<1>5. WriterTypeOK' BY <1>1, <1>2, <1>3, <1>4, WriterTypes DEF WriterTypeOK, FillStates
<1> QED BY <1>1, <1>3, <1>5, RowsStep

-----------------------------------------------------------------------------
\* Every step.
LEMMA WriterStep == WriterInv /\ [WriterNext]_writerVars => WriterInv'
BY WAddStep, WSendStep, SendPresenceStep, ShutdownStep, WTickStep, RecvStep,
   PersistStep, FlushedStep, FillStep, FlushCallStep, TimeoutStep, WorldStep,
   CommandStep
DEF WriterNext, WTask

\* Type correctness of the write-behind path.
THEOREM WriterTypeCorrect == WriterSpec => []WriterTypeOK
<1>1. WriterInv => WriterTypeOK BY DEF WriterInv
<1> QED BY <1>1, WriterStart, WriterStep, PTL DEF WriterSpec

(* Whatever order posts, failures, flushes and the end of the task come    *)
(* in, a message that was handed over is a row, in the queue or counted,   *)
(* and the pending count is the length of the queue (send_message,         *)
(* pg_writer_task, flush_pg_batch).                                        *)
THEOREM WriterLosesNothing == WriterSpec => []NoSilentLoss
BY WriterStart, WriterStep, WriterSound, PTL DEF WriterSpec

(* An answer to flush_and_wait_async, and the end of the task, settle all  *)
(* that was handed over before they were asked for: requests travel        *)
(* through the queue of the writes.                                        *)
THEOREM AnswerMeansSettled == WriterSpec => []FlushMeansSettled
BY WriterStart, WriterStep, WriterSound, PTL DEF WriterSpec
=============================================================================
