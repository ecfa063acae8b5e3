----------------------------- MODULE ServiceStop -----------------------------
(***************************************************************************)
(* The end of the HTTP service (http.rs): blocking workers that read Redis *)
(* Pub/Sub for the clients of GET /events and for the bridge to the agent  *)
(* streams, requests that open such streams while the service stops, and   *)
(* the graceful shutdown, which waits for the bodies of all responses and  *)
(* then for all workers.                                                   *)
(*                                                                         *)
(* A stream is one connection: of VStreams to /events, of VAgents to       *)
(* /events/:agent_id.  The events in a channel are counted, not told       *)
(* apart; EventStream is about what they say.                              *)
(***************************************************************************)
EXTENDS Integers, FiniteSets

CONSTANTS
    VStreams,   \* connections to /events
    VAgents,    \* connections to /events/:agent_id
    VCapacity,  \* capacity of a channel
    VHistory,   \* notifications an agent's stream begins with, at most
    VBudgets    \* bound: how often each of VBounded happens

VBridge == "bridge"
VWorkers == VStreams \cup {VBridge}
VConns == VStreams \cup VAgents
VBounded == {"events", "failures", "leaves"}

ASSUME StopAssumption ==
    /\ VStreams \cap VAgents = {} /\ VBridge \notin VStreams
    /\ IsFiniteSet(VStreams)
    /\ VCapacity \in Nat \ {0} /\ VHistory \in Nat
    /\ VBudgets \subseteq [VBounded -> Nat]

VARIABLES
    vphase,  \* where start_http_server is
    vstop,   \* PubSubControl: stopped
    vtasks,  \* the JoinSet of the workers
    vjoin,   \* the workers that shutdown waits for
    vwork,   \* where a worker is
    vconn,   \* a connection: its request, its channel, what is left to replay
    vmap,    \* agent_connections: the streams the map holds a sender of
    vcount,  \* SseSubscriberCount
    vleft    \* what is left of the budget

stopVars == <<vphase, vstop, vtasks, vjoin, vwork, vconn, vmap, vcount, vleft>>

StopTypeOK ==
    /\ vphase \in {"serving", "asked", "stopping", "draining", "returned",
                   "cleared", "joining", "ended"}
    /\ vstop \in BOOLEAN
    /\ vtasks \subseteq VWorkers /\ vjoin \subseteq VWorkers
    /\ vwork \in [VWorkers -> {"none", "queued", "open", "read", "send",
                               "wait", "done"}]
    /\ vconn \in [VConns -> [pc : {"none", "handler", "body", "closed"},
                             chan : 0 .. VCapacity, todo : 0 .. VHistory]]
    /\ vmap \subseteq VAgents
    /\ vcount \in 0 .. Cardinality(VStreams)
    /\ vleft \in [VBounded -> Nat]

StopInit ==
    /\ vphase = "serving" /\ vstop = FALSE
    /\ vtasks = {VBridge} /\ vjoin = {}
    /\ vwork = [w \in VWorkers |-> IF w = VBridge THEN "queued" ELSE "none"]
    /\ vconn = [c \in VConns |-> [pc |-> "none", chan |-> 0, todo |-> 0]]
    /\ vmap = {} /\ vcount = 0
    /\ vleft \in VBudgets

VSpend(what) ==
    /\ vleft[what] > 0
    /\ vleft' = [vleft EXCEPT ![what] = @ - 1]

-----------------------------------------------------------------------------
(* start_http_server from the signal on.                                   *)

\* The action "stop" of http_control_action_handler: the signal comes later.
VAsk ==
    /\ vphase = "serving"
    /\ vphase' = "asked"
    /\ UNCHANGED <<vstop, vtasks, vjoin, vwork, vconn, vmap, vcount, vleft>>

\* That signal, or one to the process.
VSignal ==
    /\ vphase \in {"serving", "asked"}
    /\ vphase' = "stopping" /\ vstop' = TRUE
    /\ UNCHANGED <<vtasks, vjoin, vwork, vconn, vmap, vcount, vleft>>

\* From here on no connection is accepted.
VClear ==
    /\ vphase = "stopping"
    /\ vphase' = "draining" /\ vmap' = {}
    /\ UNCHANGED <<vstop, vtasks, vjoin, vwork, vconn, vcount, vleft>>

\* serve returns when every response has ended, or with an error.
VReturn ==
    /\ \/ /\ vphase = "draining"
          /\ \A c \in VConns : vconn[c].pc \in {"none", "closed"}
          /\ UNCHANGED vleft
       \/ vphase \in {"serving", "asked"} /\ VSpend("failures")
    /\ vphase' = "returned" /\ vstop' = TRUE
    /\ UNCHANGED <<vtasks, vjoin, vwork, vconn, vmap, vcount>>

VClearAgain ==
    /\ vphase = "returned"
    /\ vphase' = "cleared" /\ vmap' = {}
    /\ UNCHANGED <<vstop, vtasks, vjoin, vwork, vconn, vcount, vleft>>

\* PubSubWorkers::shutdown to its first await: stop, then take the tasks.
VShutdown ==
    /\ vphase = "cleared"
    /\ vphase' = "joining" /\ vstop' = TRUE
    /\ vjoin' = vtasks /\ vtasks' = {}
    /\ UNCHANGED <<vwork, vconn, vmap, vcount, vleft>>

VEnd ==
    /\ vphase = "joining"
    /\ \A w \in vjoin : vwork[w] = "done"
    /\ vphase' = "ended"
    /\ UNCHANGED <<vstop, vtasks, vjoin, vwork, vconn, vmap, vcount, vleft>>

-----------------------------------------------------------------------------
(* The handlers.                                                           *)

\* A request reaches its handler; n notifications are there to replay.
VConnect(c, n) ==
    /\ vphase \in {"serving", "asked", "stopping"}
    /\ vconn[c].pc = "none"
    /\ c \in VStreams => n = 0
    /\ vconn' = [vconn EXCEPT ![c].pc = "handler", ![c].todo = n]
    /\ vcount' = IF c \in VStreams THEN vcount + 1 ELSE vcount
    /\ UNCHANGED <<vphase, vstop, vtasks, vjoin, vwork, vmap, vleft>>

\* Mutation: a worker is registered whether or not the service stops.
VAdmits_Always == TRUE

VAdmits == ~vstop

\* Mutation: the counter is given to the worker, not to its closure.
VUncount_Leaks == vcount

\* SseCountGuard is dropped with the worker, also with one that is refused.
VUncount == vcount - 1

\* http_sse_handler, PubSubWorkers::spawn: under the lock of the tasks.
VSpawn(s) ==
    LET reaped == {w \in vtasks : vwork[w] # "done"}
    IN  /\ vconn[s].pc = "handler"
        /\ vconn' = [vconn EXCEPT ![s].pc = "body"]
        /\ IF VAdmits
           THEN /\ vtasks' = reaped \cup {s}
                /\ vwork' = [vwork EXCEPT ![s] = "queued"]
                /\ UNCHANGED vcount
           ELSE vtasks' = reaped /\ vcount' = VUncount /\ UNCHANGED vwork
        /\ UNCHANGED <<vphase, vstop, vjoin, vmap, vleft>>

\* http_sse_agent_handler before it registers.  Nobody reads the channel until
\* the handler is done: a replay longer than the channel waits for the client
\* to go away.
VReplay(a) ==
    /\ vconn[a].pc = "handler" /\ vconn[a].todo > 0
    /\ vconn[a].chan < VCapacity
    /\ vconn' = [vconn EXCEPT ![a].todo = @ - 1, ![a].chan = @ + 1]
    /\ UNCHANGED <<vphase, vstop, vtasks, vjoin, vwork, vmap, vcount, vleft>>

\* Mutation: the handler registers without looking at the stop flag.
VJoins_Always(a) == vmap \cup {a}

\* Under the lock of the map, which clear takes too.
VJoins(a) == IF vstop THEN vmap ELSE vmap \cup {a}

VRegister(a) ==
    /\ vconn[a].pc = "handler" /\ vconn[a].todo = 0
    /\ vconn' = [vconn EXCEPT ![a].pc = "body"]
    /\ vmap' = VJoins(a)
    /\ UNCHANGED <<vphase, vstop, vtasks, vjoin, vwork, vcount, vleft>>

-----------------------------------------------------------------------------
(* The workers.                                                            *)

\* A worker of a stream ends and drops its sender and its guard; the bridge
\* waits and begins again.
VGiveUp(w) ==
    /\ vwork' = [vwork EXCEPT ![w] = IF w = VBridge THEN "wait" ELSE "done"]
    /\ vcount' = IF w = VBridge THEN vcount ELSE VUncount

VBegin(w) ==
    /\ vwork[w] = "queued"
    /\ vwork' = [vwork EXCEPT ![w] =
                     IF w = VBridge /\ vstop THEN "done" ELSE "open"]
    /\ UNCHANGED <<vphase, vstop, vtasks, vjoin, vconn, vmap, vcount, vleft>>

\* open_pubsub_connection and subscribe.  A connection that is being opened
\* when the service stops is either completed or not.
VOpen(w) ==
    /\ vwork[w] = "open"
    /\ vwork' = [vwork EXCEPT ![w] = "read"]
    /\ UNCHANGED <<vphase, vstop, vtasks, vjoin, vconn, vmap, vcount, vleft>>

VOpenFails(w) ==
    /\ vwork[w] = "open"
    /\ (vstop /\ UNCHANGED vleft) \/ VSpend("failures")
    /\ VGiveUp(w)
    /\ UNCHANGED <<vphase, vstop, vtasks, vjoin, vconn, vmap>>

\* tx.is_closed: nobody will read the channel any more.
VClosed(w) == w # VBridge /\ vconn[w].pc = "closed"

\* The head of the loop; a read that times out comes back to it.
VLoopEnds(w) ==
    /\ vwork[w] = "read" /\ (vstop \/ VClosed(w))
    /\ VGiveUp(w)
    /\ UNCHANGED <<vphase, vstop, vtasks, vjoin, vconn, vmap, vleft>>

\* A read that the stop overtakes still returns its message.
VGetMessage(w) ==
    /\ vwork[w] = "read" /\ VSpend("events")
    /\ vwork' = [vwork EXCEPT ![w] = "send"]
    /\ UNCHANGED <<vphase, vstop, vtasks, vjoin, vconn, vmap, vcount>>

VReadFails(w) ==
    /\ vwork[w] = "read" /\ VSpend("failures")
    /\ VGiveUp(w)
    /\ UNCHANGED <<vphase, vstop, vtasks, vjoin, vconn, vmap>>

\* Mutation: a worker that waits for space in its channel is not woken.
VCancels_Never == FALSE

\* The watch channel ends a pending send.
VCancels == vstop

\* send_pubsub_event.
VSend(s) ==
    /\ vwork[s] = "send"
    /\ IF VCancels \/ VClosed(s)
       THEN VGiveUp(s) /\ UNCHANGED vconn
       ELSE /\ vconn[s].chan < VCapacity
            /\ vconn' = [vconn EXCEPT ![s].chan = @ + 1]
            /\ vwork' = [vwork EXCEPT ![s] = "read"]
            /\ UNCHANGED vcount
    /\ UNCHANGED <<vphase, vstop, vtasks, vjoin, vmap, vleft>>

\* push_notifications_to_agent_connections: a sender whose channel is full or
\* closed leaves the map.
VPush ==
    LET taken == {a \in vmap : vconn[a].pc # "closed" /\ vconn[a].chan < VCapacity}
    IN  /\ vwork[VBridge] = "send"
        /\ vwork' = [vwork EXCEPT ![VBridge] = "read"]
        /\ \/ vstop /\ UNCHANGED <<vconn, vmap>>
           \/ /\ vmap' = taken
              /\ vconn' = [c \in VConns |-> IF c \in taken
                               THEN [vconn[c] EXCEPT !.chan = @ + 1] ELSE vconn[c]]
        /\ UNCHANGED <<vphase, vstop, vtasks, vjoin, vcount, vleft>>

\* wait_for_retry and the head of the bridge's outer loop.
VRetry ==
    /\ vwork[VBridge] = "wait"
    /\ vwork' = [vwork EXCEPT ![VBridge] = IF vstop THEN "done" ELSE "open"]
    /\ UNCHANGED <<vphase, vstop, vtasks, vjoin, vconn, vmap, vcount, vleft>>

-----------------------------------------------------------------------------
(* The responses.                                                          *)

\* Somebody may still write to the channel.
VHasSender(c) ==
    IF c \in VStreams THEN vwork[c] \notin {"none", "done"} ELSE c \in vmap

VTake(c) ==
    /\ vconn[c].pc = "body" /\ vconn[c].chan > 0
    /\ vconn' = [vconn EXCEPT ![c].chan = @ - 1]
    /\ UNCHANGED <<vphase, vstop, vtasks, vjoin, vwork, vmap, vcount, vleft>>

VBodyEnds(c) ==
    /\ vconn[c].pc = "body" /\ vconn[c].chan = 0 /\ ~VHasSender(c)
    /\ vconn' = [vconn EXCEPT ![c].pc = "closed"]
    /\ UNCHANGED <<vphase, vstop, vtasks, vjoin, vwork, vmap, vcount, vleft>>

\* The client goes away; a handler that waits is dropped with its channel.
VLeave(c) ==
    /\ \/ vconn[c].pc = "body"
       \/ c \in VAgents /\ vconn[c].pc = "handler"
    /\ VSpend("leaves")
    /\ vconn' = [vconn EXCEPT ![c] = [pc |-> "closed", chan |-> 0, todo |-> 0]]
    /\ UNCHANGED <<vphase, vstop, vtasks, vjoin, vwork, vmap, vcount>>

-----------------------------------------------------------------------------
VServer == VClear \/ VReturn \/ VClearAgain \/ VShutdown \/ VEnd
VWorker(w) ==
    VBegin(w) \/ VOpen(w) \/ VOpenFails(w) \/ VLoopEnds(w) \/ VGetMessage(w) \/ VReadFails(w)
VHandler == \/ \E s \in VStreams : VSpawn(s)
            \/ \E a \in VAgents : VReplay(a) \/ VRegister(a)

StopNext ==
    \/ VAsk \/ VSignal \/ VServer \/ VHandler
    \/ \E w \in VWorkers : VWorker(w)
    \/ \E s \in VStreams : VSend(s)
    \/ VPush \/ VRetry
    \/ \E c \in VConns :
         \/ \E n \in 0 .. VHistory : VConnect(c, n)
         \/ VTake(c) \/ VBodyEnds(c) \/ VLeave(c)

\* What the runtime or a thread of its blocking pool does on its own.
VGoesOn ==
    \/ vphase = "asked" /\ VSignal
    \/ vphase # "serving" /\ VServer
    \/ VHandler
    \/ \E c \in VConns : VBodyEnds(c)
    \/ \E w \in VWorkers : VBegin(w) \/ VOpen(w) \/ VLoopEnds(w)
    \/ \E s \in VStreams : VSend(s)
    \/ VPush \/ VRetry

StopSpec == StopInit /\ [][StopNext]_stopVars
\* As long as some of it is possible, some of it happens; every read and write
\* of Redis has a timeout.  Nothing is assumed of a client.
StopFairness == WF_stopVars(VGoesOn)
StopFairSpec == StopSpec /\ StopFairness

-----------------------------------------------------------------------------
VUnread == {c \in VConns : vconn[c].chan > 0}
VRunning == {w \in VWorkers : vwork[w] \notin {"none", "done"}}

(* No worker is forgotten and no stream is left open: a worker that runs   *)
(* is one that shutdown waits for or will take, /events is counted as long *)
(* as somebody listens and no longer, and when the service has ended there *)
(* is neither a worker nor a sender in the map, whatever requests and      *)
(* failures met the stop (http.rs, "a racing handler cannot register       *)
(* another worker", "never leave a blocking task for Runtime drop").       *)
NothingOutlivesService ==
    /\ VRunning \subseteq vtasks \cup vjoin
    /\ vcount = Cardinality({s \in VStreams : s \in VRunning \/ vconn[s].pc = "handler"})
    /\ vphase = "ended" => VRunning = {} /\ vmap = {}

(* Once a stop is asked for, no worker and no sender of an open stream     *)
(* holds the service up in the end, whether or not the clients read what   *)
(* they were sent; and unless something stays unread, by a client or by    *)
(* nobody when a replay fills the channel before there is a reader, the    *)
(* service ends (http.rs, "A full SSE queue must not hide shutdown or pin  *)
(* a blocking thread").                                                    *)
StopCompletes ==
    /\ <>[](vstop => VRunning = {} /\ vmap = {})
    /\ []<>(vphase # "asked" /\ (vstop => vphase = "ended" \/ VUnread # {}))
=============================================================================
