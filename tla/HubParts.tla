------------------------------ MODULE HubParts ------------------------------
(***************************************************************************)
(* The parts of the hub, the client and the Worker that are modelled on    *)
(* their own, next to each other: the journal file, the write-behind path  *)
(* to PostgreSQL, the inbox, acknowledgements, presence replication, event *)
(* streams, the end of the service, the Worker's own clients, the tool for *)
(* its tokens and the choice of a hub.  Their models share no variable, so *)
(* a behaviour of the system, seen by one model, is a behaviour of that    *)
(* part alone: a behaviour here is one of the part that Init chooses, and  *)
(* the others stay as they begin.                                          *)
(***************************************************************************)
EXTENDS OutboxJournal, PgWriter, Inbox, MessageAcks, PresenceSync,
        EventStream, ServiceStop, CloudStore, CloudTokens, HubSelection

VARIABLE part   \* the part whose behaviour this is

Parts == {"journal", "writer", "inbox", "acks", "presence", "events", "stop",
          "store", "tokens", "routes"}

hubVars == <<journalVars, writerVars, inboxVars, ackVars, presenceVars,
             eventVars, stopVars, storeVars, tokenVars, selectVars, part>>

HubTypeOK ==
    /\ part \in Parts
    /\ JournalTypeOK /\ WriterTypeOK /\ InboxTypeOK /\ AcksTypeOK
    /\ PresenceTypeOK /\ EventsTypeOK /\ StopTypeOK /\ StoreTypeOK
    /\ TokensTypeOK /\ SelectionTypeOK

\* The budget of a part that stays as it begins.
Parked(budgets) == CHOOSE b \in budgets : TRUE

HubInit ==
    /\ part \in Parts
    /\ JournalInit /\ (part = "journal" \/ jleft = Parked(JBudgets))
    /\ WriterInit
    /\ part = "writer" \/ [left |-> wleft, refused |-> wrefused] = Parked(WStarts)
    \* An inbox that stays as it begins is one that nobody polls.
    /\ InboxInit /\ ((part = "inbox") <=> (ipolled # {}))
    /\ AcksInit /\ (part = "acks" \/ aleft = Parked(ABudgets))
    /\ PresenceInit /\ (part = "presence" \/ pleft = Parked(PBudgets))
    /\ EventsInit /\ (part = "events" \/ eleft = Parked(EBudgets))
    /\ StopInit /\ (part = "stop" \/ vleft = Parked(VBudgets))
    /\ StoreInit /\ (part = "store" \/ sleft = Parked(SBudgets))
    /\ TokensInit /\ (part = "tokens" \/ tleft = Parked(TStarts).left)
    /\ SelectionInit /\ (part = "routes" \/ rleft = Parked(RStarts).left)

HubNext ==
    /\ UNCHANGED part
    /\ \/ /\ part = "journal" /\ JournalNext
          /\ UNCHANGED <<writerVars, inboxVars, ackVars, presenceVars,
                         eventVars, stopVars, storeVars, tokenVars,
                         selectVars>>
       \/ /\ part = "writer" /\ WriterNext
          /\ UNCHANGED <<journalVars, inboxVars, ackVars, presenceVars,
                         eventVars, stopVars, storeVars, tokenVars,
                         selectVars>>
       \/ /\ part = "inbox" /\ InboxNext
          /\ UNCHANGED <<journalVars, writerVars, ackVars, presenceVars,
                         eventVars, stopVars, storeVars, tokenVars,
                         selectVars>>
       \/ /\ part = "acks" /\ AcksNext
          /\ UNCHANGED <<journalVars, writerVars, inboxVars, presenceVars,
                         eventVars, stopVars, storeVars, tokenVars,
                         selectVars>>
       \/ /\ part = "presence" /\ PresenceNext
          /\ UNCHANGED <<journalVars, writerVars, inboxVars, ackVars,
                         eventVars, stopVars, storeVars, tokenVars,
                         selectVars>>
       \/ /\ part = "events" /\ EventsNext
          /\ UNCHANGED <<journalVars, writerVars, inboxVars, ackVars,
                         presenceVars, stopVars, storeVars, tokenVars,
                         selectVars>>
       \/ /\ part = "stop" /\ StopNext
          /\ UNCHANGED <<journalVars, writerVars, inboxVars, ackVars,
                         presenceVars, eventVars, storeVars, tokenVars,
                         selectVars>>
       \/ /\ part = "store" /\ StoreNext
          /\ UNCHANGED <<journalVars, writerVars, inboxVars, ackVars,
                         presenceVars, eventVars, stopVars, tokenVars,
                         selectVars>>
       \/ /\ part = "tokens" /\ TokensNext
          /\ UNCHANGED <<journalVars, writerVars, inboxVars, ackVars,
                         presenceVars, eventVars, stopVars, storeVars,
                         selectVars>>
       \/ /\ part = "routes" /\ SelectionNext
          /\ UNCHANGED <<journalVars, writerVars, inboxVars, ackVars,
                         presenceVars, eventVars, stopVars, storeVars,
                         tokenVars>>

\* A service that stays as it begins owes no step; a writer without messages
\* and an inbox that nobody polls owe none anyway.
HubFairness ==
    /\ WriterFairness /\ InboxFairness
    /\ WF_stopVars(part = "stop" /\ VGoesOn)

HubSpec == HubInit /\ [][HubNext]_hubVars /\ HubFairness
=============================================================================
