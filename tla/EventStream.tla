----------------------------- MODULE EventStream -----------------------------
(***************************************************************************)
(* The event stream of one agent over HTTP (http.rs, GET                   *)
(* /events/:agent_id): the handler replays notifications into a bounded    *)
(* channel and then registers it; a bridge thread reads the messages that  *)
(* posting has published and offers each to the registered channels; a     *)
(* client that loses its stream comes back with the id of the last event   *)
(* that had one.                                                           *)
(*                                                                         *)
(* A message is its number; a notification is its position in the stream   *)
(* of the agent.  The client follows the rules of server-sent events.      *)
(***************************************************************************)
EXTENDS Integers, Sequences

CONSTANTS
    EClients,   \* clients that follow the agent's stream
    EMaxMsgs,   \* bound: messages to the agent
    EHistory,   \* history: notifications replayed on connecting
    ECapacity,  \* capacity of the channel
    ERetained,  \* NOTIFICATION_STREAM_MAXLEN
    EBudgets    \* bound: how often each of EBounded happens

EMsgs == 1 .. EMaxMsgs
EBounded == {"posts", "connects", "faults"}

ASSUME EventsAssumption ==
    /\ EMaxMsgs \in Nat
    /\ {EHistory, ECapacity, ERetained} \subseteq Nat \ {0}
    /\ EBudgets \subseteq [EBounded -> Nat]

VARIABLES
    epost,    \* where the post of a message is
    enotes,   \* the notifications ever appended
    epub,     \* the bridge: its subscription and what it has still to read
    econn,    \* the connection of a client
    eclient,  \* what a client knows
    eleft     \* what is left of the budget

eventVars == <<epost, enotes, epub, econn, eclient, eleft>>

EPositions == 0 .. EMaxMsgs
\* The id is 0 when the event has none.
EEvents == [msg : EMsgs, id : EPositions]
EEvent(m, i) == [msg |-> m, id |-> i]
EClosed == [pc |-> "closed", todo |-> <<>>, chan |-> <<>>, live |-> FALSE]
EBridge == [up |-> TRUE, queue |-> <<>>]

EventsTypeOK ==
    /\ epost \in [EMsgs -> {"none", "added", "published", "done"}]
    /\ enotes \in Seq(EMsgs)
    /\ epub \in [up : BOOLEAN, queue : Seq(EMsgs)]
    /\ econn \in [EClients ->
           [pc : {"closed", "replay", "send", "open"}, todo : Seq(EEvents),
            chan : Seq(EEvents), live : BOOLEAN]]
    /\ \A c \in EClients : Len(econn[c].chan) <= ECapacity
    /\ eclient \in [EClients -> [last : EPositions, base : EPositions,
                                 got : SUBSET EMsgs]]
    /\ eleft \in [EBounded -> Nat]

EventsInit ==
    /\ epost = [m \in EMsgs |-> "none"]
    /\ enotes = <<>>
    /\ epub = EBridge
    /\ econn = [c \in EClients |-> EClosed]
    /\ eclient = [c \in EClients |-> [last |-> 0, base |-> 0, got |-> {}]]
    /\ eleft \in EBudgets

ESpend(what) ==
    /\ eleft[what] > 0
    /\ eleft' = [eleft EXCEPT ![what] = @ - 1]
EFirst == IF Len(enotes) > ERetained THEN Len(enotes) - ERetained + 1 ELSE 1

-----------------------------------------------------------------------------
(* Posting: PUBLISH comes before the notification is appended.             *)

\* Messages are numbered in the order of the message stream.
EAdd(m) ==
    /\ epost[m] = "none" /\ \A n \in EMsgs : n < m => epost[n] # "none"
    /\ ESpend("posts")
    /\ epost' = [epost EXCEPT ![m] = "added"]
    /\ UNCHANGED <<enotes, epub, econn, eclient>>

\* A message to an agent is published whoever listens.
EPublish(m) ==
    /\ epost[m] = "added"
    /\ epost' = [epost EXCEPT ![m] = "published"]
    /\ epub' = IF epub.up THEN [epub EXCEPT !.queue = Append(@, m)] ELSE epub
    /\ UNCHANGED <<enotes, econn, eclient, eleft>>

ENotify(m) ==
    /\ epost[m] = "published"
    /\ epost' = [epost EXCEPT ![m] = "done"]
    /\ \/ enotes' = Append(enotes, m) /\ UNCHANGED eleft
       \/ ESpend("faults") /\ UNCHANGED enotes
    /\ UNCHANGED <<epub, econn, eclient>>

-----------------------------------------------------------------------------
(* The bridge.                                                             *)

\* Mutation: a live event has the id of its notification.
LiveId_Stream(m) ==
    IF \E p \in 1 .. Len(enotes) : enotes[p] = m
    THEN CHOOSE p \in 1 .. Len(enotes) : enotes[p] = m ELSE 0

\* notification_from_message knows no stream id.
LiveId(m) == 0

\* Mutation: the channel is unbounded.
HasSpace_Always(c) == TRUE

HasSpace(c) == Len(econn[c].chan) < ECapacity

\* push_notifications_to_agent_connections: try_send; a full channel is taken
\* out of the map and ends once it is empty.
EPush ==
    LET m == Head(epub.queue)
        offered(c) ==
            CASE ~econn[c].live -> econn[c]
              [] econn[c].live /\ HasSpace(c) ->
                     [econn[c] EXCEPT !.chan = Append(@, EEvent(m, LiveId(m)))]
              [] OTHER -> [econn[c] EXCEPT !.live = FALSE]
    IN  /\ epub.queue # <<>>
        /\ epub' = [epub EXCEPT !.queue = Tail(@)]
        /\ econn' = [c \in EClients |-> offered(c)]
        /\ UNCHANGED <<epost, enotes, eclient, eleft>>

\* The subscription is lost with what it held, and opened again.
EBridgeFails ==
    /\ epub.up
    /\ ESpend("faults")
    /\ epub' = [up |-> FALSE, queue |-> <<>>]
    /\ UNCHANGED <<epost, enotes, econn, eclient>>

EBridgeReturns ==
    /\ ~epub.up
    /\ epub' = EBridge
    /\ UNCHANGED <<epost, enotes, econn, eclient, eleft>>

-----------------------------------------------------------------------------
(* http_sse_agent_handler.                                                 *)

EConnect(c) ==
    /\ econn[c].pc = "closed"
    /\ ESpend("connects")
    /\ econn' = [econn EXCEPT ![c] = [EClosed EXCEPT !.pc = "replay"]]
    /\ UNCHANGED <<epost, enotes, epub, eclient>>

\* list_notifications takes the newest, list_notifications_since_id the first
\* ones after the cursor.
ReplayFrom(last) ==
    IF last > 0 THEN last + 1
    ELSE IF Len(enotes) > EHistory THEN Len(enotes) - EHistory + 1 ELSE 1

EReplayOf(last) ==
    LET from == IF ReplayFrom(last) < EFirst THEN EFirst ELSE ReplayFrom(last)
        n == IF Len(enotes) - from + 1 > EHistory THEN EHistory
             ELSE Len(enotes) - from + 1
    IN  [i \in 1 .. n |-> EEvent(enotes[from + i - 1], from + i - 1)]

\* A read that fails is skipped.
EReplay(c) ==
    /\ econn[c].pc = "replay"
    /\ \/ /\ econn' = [econn EXCEPT ![c].pc = "send",
                          ![c].todo = EReplayOf(eclient[c].last)]
          /\ UNCHANGED eleft
       \/ /\ ESpend("faults")
          /\ econn' = [econn EXCEPT ![c].pc = "send"]
    /\ UNCHANGED <<epost, enotes, epub, eclient>>

\* Nobody reads the channel before the handler has returned, so that a replay
\* longer than its capacity waits until the client gives up.
ESend(c) ==
    /\ econn[c].pc = "send" /\ econn[c].todo # <<>>
    /\ HasSpace(c)
    /\ econn' = [econn EXCEPT ![c].chan = Append(@, Head(econn[c].todo)),
                              ![c].todo = Tail(@)]
    /\ UNCHANGED <<epost, enotes, epub, eclient, eleft>>

ERegister(c) ==
    /\ econn[c].pc = "send" /\ econn[c].todo = <<>>
    /\ econn' = [econn EXCEPT ![c].pc = "open", ![c].live = TRUE]
    /\ UNCHANGED <<epost, enotes, epub, eclient, eleft>>

-----------------------------------------------------------------------------
(* The client.                                                             *)

EReceive(c) ==
    LET e == Head(econn[c].chan)
        k == eclient[c]
    IN  /\ econn[c].pc = "open" /\ econn[c].chan # <<>>
        /\ econn' = [econn EXCEPT ![c].chan = Tail(@)]
        /\ eclient' = [eclient EXCEPT ![c] =
               [got |-> k.got \cup {e.msg},
                last |-> IF e.id = 0 THEN k.last ELSE e.id,
                base |-> IF k.base = 0 THEN e.id ELSE k.base]]
        /\ UNCHANGED <<epost, enotes, epub, eleft>>

\* The stream was ended by the hub, or the client goes away or gives up.
EDisconnect(c) ==
    /\ \/ econn[c].pc = "open" /\ ~econn[c].live /\ econn[c].chan = <<>>
            /\ UNCHANGED eleft
       \/ econn[c].pc # "closed" /\ ESpend("faults")
    /\ econn' = [econn EXCEPT ![c] = EClosed]
    /\ UNCHANGED <<epost, enotes, epub, eclient>>

-----------------------------------------------------------------------------
EventsNext ==
    \/ \E m \in EMsgs : EAdd(m) \/ EPublish(m) \/ ENotify(m)
    \/ EPush \/ EBridgeFails \/ EBridgeReturns
    \/ \E c \in EClients :
         \/ EConnect(c) \/ EReplay(c) \/ ESend(c) \/ ERegister(c)
         \/ EReceive(c) \/ EDisconnect(c)

EventsSpec == EventsInit /\ [][EventsNext]_eventVars

-----------------------------------------------------------------------------
(* The id with which a client comes back covers only what it was given:    *)
(* each retained notification from its first to that id was received.      *)
(* What fell between a replay and the registration, what a full channel    *)
(* or a lost subscription dropped, is therefore replayed later, because    *)
(* live events carry no id (notification_event, http_sse_agent_handler).   *)
LastIdMissesNothing ==
    \A c \in EClients :
        \A p \in EFirst .. eclient[c].last :
            p >= eclient[c].base => enotes[p] \in eclient[c].got
=============================================================================
