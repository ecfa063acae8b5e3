-------------------------------- MODULE Inbox --------------------------------
(***************************************************************************)
(* The inbox of one agent (ops/inbox.rs and the notification streams of    *)
(* redis_bus.rs): a stream of notifications that is trimmed and expires,   *)
(* one cursor per lane (the global one and one per filter), and sessions   *)
(* of the agent that read pages and save a cursor, one Redis command per   *)
(* step.                                                                   *)
(*                                                                         *)
(* A notification is its position in the stream and the tag its message    *)
(* has.  The lane "all" is the unfiltered inbox; another lane asks for the *)
(* tag it is named after.                                                  *)
(***************************************************************************)
EXTENDS Integers, FiniteSets, Sequences

CONSTANTS
    ISessions,    \* sessions of the agent
    ILanes,       \* filters
    ITags,        \* tags of messages
    ILimit,       \* messages asked for
    IPageSize,    \* INBOX_PAGE_SIZE
    IScanLimit,   \* INBOX_SCAN_LIMIT
    INoteMaxlen,  \* NOTIFICATION_STREAM_MAXLEN
    IMaxNotes,    \* bound: notifications
    IStarts       \* what the stream holds at first, the lanes the agent
                  \* polls, and the bound: how often each of IBounded happens

IBounded == {"notes", "resets", "failures", "expiries", "summaries"}

ASSUME InboxAssumption ==
    /\ {ILimit, IPageSize, IScanLimit, INoteMaxlen} \subseteq Nat \ {0}
    /\ IMaxNotes \in Nat
    /\ "all" \in ILanes
    /\ \A i \in IStarts : /\ i.notes \in Seq(ITags) /\ Len(i.notes) <= IMaxNotes
                         /\ i.lanes \subseteq ILanes
                         /\ i.left \in [IBounded -> Nat]

VARIABLES
    inotes,   \* the tags of all notifications ever appended
    ifirst,   \* position of the first one the stream still has
    ipolled,  \* the lanes the agent polls
    icursor,  \* the cursor of each lane; 0 when the key is absent
    isess,    \* what a session is doing
    iseen,    \* the positions a call on the lane has returned
    ilost,    \* those of a call that failed although its cursor was saved
    itold,    \* cursors that a summary has returned
    ileft     \* what is left of the budget

inboxVars == <<inotes, ifirst, ipolled, icursor, isess, iseen, ilost, itold,
               ileft>>

INotes == 1 .. IMaxNotes
IPositions == 0 .. IMaxNotes
IIdle == [pc |-> "idle", lane |-> "all", from |-> 0, at |-> 0, got |-> {},
          scanned |-> 0]

InboxTypeOK ==
    /\ inotes \in Seq(ITags) /\ Len(inotes) <= IMaxNotes
    /\ ifirst \in 1 .. IMaxNotes + 1
    /\ ipolled \subseteq ILanes
    /\ icursor \in [ILanes -> IPositions]
    /\ isess \in [ISessions ->
                    [pc : {"idle", "get", "page", "save", "summary"},
                     lane : ILanes, from : IPositions, at : IPositions,
                     got : SUBSET INotes, scanned : 0 .. IScanLimit]]
    /\ iseen \in [ILanes -> SUBSET INotes] /\ ilost \in [ILanes -> SUBSET INotes]
    /\ itold \subseteq IPositions
    /\ ileft \in [IBounded -> Nat]

InboxInit ==
    /\ \E i \in IStarts :
           inotes = i.notes /\ ipolled = i.lanes /\ ileft = i.left
    /\ ifirst = 1
    /\ icursor = [l \in ILanes |-> 0]
    /\ isess = [s \in ISessions |-> IIdle]
    /\ iseen = [l \in ILanes |-> {}] /\ ilost = [l \in ILanes |-> {}]
    /\ itold = {}

ISpend(what) ==
    /\ ileft[what] > 0
    /\ ileft' = [ileft EXCEPT ![what] = @ - 1]
IGoes(s, to) == isess' = [isess EXCEPT ![s] = to]

\* message_matches_filters
IMatches(p, l) == l = "all" \/ inotes[p] = l

-----------------------------------------------------------------------------
(* The notification stream.                                                *)

\* append_notifications_for_message: XADD with MAXLEN.
INotify(t) ==
    /\ ISpend("notes")
    /\ Len(inotes) < IMaxNotes
    /\ inotes' = Append(inotes, t)
    /\ ifirst' = IF Len(inotes) + 1 - ifirst >= INoteMaxlen
                 THEN ifirst + 1 ELSE ifirst
    /\ UNCHANGED <<ipolled, icursor, isess, iseen, ilost, itold>>

\* Three days without a notification: the stream is gone.
IStreamExpires ==
    /\ ISpend("expiries")
    /\ ifirst' = Len(inotes) + 1
    /\ UNCHANGED <<inotes, ipolled, icursor, isess, iseen, ilost, itold>>

\* Seven days without an advance: a filtered cursor is gone.
ICursorExpires(l) ==
    /\ l # "all" /\ icursor[l] # 0
    /\ ISpend("expiries")
    /\ icursor' = [icursor EXCEPT ![l] = 0]
    /\ UNCHANGED <<inotes, ipolled, ifirst, isess, iseen, ilost, itold>>

-----------------------------------------------------------------------------
(* check_inbox.                                                            *)

\* Without a reset the first command is the GET.
ICheck(s, l) ==
    /\ isess[s].pc = "idle"
    /\ IGoes(s, [IIdle EXCEPT !.pc = "page", !.lane = l,
                              !.from = icursor[l], !.at = icursor[l]])
    /\ UNCHANGED <<inotes, ipolled, ifirst, icursor, iseen, ilost, itold, ileft>>

IReset(s, l) ==
    /\ isess[s].pc = "idle"
    /\ ISpend("resets")
    /\ icursor' = [icursor EXCEPT ![l] = 0]
    /\ IGoes(s, [IIdle EXCEPT !.pc = "get", !.lane = l])
    /\ UNCHANGED <<inotes, ipolled, ifirst, iseen, ilost, itold>>

IGet(s) ==
    LET l == isess[s].lane
    IN  /\ isess[s].pc = "get"
        /\ IGoes(s, [isess[s] EXCEPT !.pc = "page", !.from = icursor[l],
                                     !.at = icursor[l]])
        /\ UNCHANGED <<inotes, ipolled, ifirst, icursor, iseen, ilost, itold, ileft>>

IMin(a, b) == IF a < b THEN a ELSE b
IMaxOf(S) == CHOOSE m \in S : \A n \in S : n <= m

\* list_notifications_since_id
IPageAfter(at, size) ==
    LET later == {p \in ifirst .. Len(inotes) : p > at}
    IN  {p \in later : Cardinality({q \in later : q < p}) < size}

\* A page is examined up to the message that fills the request.
IExamined(s, page) ==
    {p \in page :
        Cardinality({q \in page : q < p /\ IMatches(q, isess[s].lane)})
            < ILimit - Cardinality(isess[s].got)}

\* Mutation: the cursor passes the tail of the page.
ILast_Page(s, page) == IMaxOf(page)

\* The cursor goes to the last notification examined.
ILast(s, page) == IMaxOf(IExamined(s, page))

IPage(s) ==
    LET i == isess[s]
        size == IMin(IPageSize, IScanLimit - i.scanned)
        page == IPageAfter(i.at, size)
        seen == IExamined(s, page)
        got == i.got \cup {p \in seen : IMatches(p, i.lane)}
        scanned == i.scanned + Cardinality(seen)
        ends == \/ Cardinality(got) >= ILimit
                \/ scanned >= IScanLimit
                \/ Cardinality(page) < size
    IN  /\ i.pc = "page"
        /\ IGoes(s, [i EXCEPT !.pc = IF ends THEN "save" ELSE "page",
                              !.at = IF seen = {} THEN @ ELSE ILast(s, page),
                              !.got = got, !.scanned = scanned])
        /\ UNCHANGED <<inotes, ipolled, ifirst, icursor, iseen, ilost, itold, ileft>>

\* Mutation: the cursor is kept when nothing matched.
IAdvances_OnMatch(s) == isess[s].got # {}

IAdvances(s) == isess[s].at # isess[s].from

\* The cursor is saved once, and the messages are returned.
ISave(s) ==
    LET i == isess[s]
    IN  /\ i.pc = "save"
        /\ icursor' = IF IAdvances(s)
                      THEN [icursor EXCEPT ![i.lane] = i.at] ELSE icursor
        /\ iseen' = [iseen EXCEPT ![i.lane] = @ \cup i.got]
        /\ IGoes(s, IIdle)
        /\ UNCHANGED <<inotes, ipolled, ifirst, ilost, itold, ileft>>

\* A command fails: the call returns an error and saves nothing (a reset that
\* was carried out although it fails is one that fails after it).
IFails(s) ==
    /\ isess[s].pc # "idle"
    /\ ISpend("failures")
    /\ IGoes(s, IIdle)
    /\ UNCHANGED <<inotes, ipolled, ifirst, icursor, iseen, ilost, itold>>

-----------------------------------------------------------------------------
(* orchestrator_summary, from the stored cursor or from one it returned    *)
(* before.                                                                 *)

ISummary(s, c) ==
    /\ isess[s].pc = "idle"
    /\ c \in itold \cup {icursor["all"]}
    /\ ISpend("summaries")
    /\ LET got == {p \in ifirst .. Len(inotes) : p > c}
       IN  IGoes(s, [IIdle EXCEPT !.pc = "summary", !.from = c, !.got = got,
                                  !.at = IF got = {} THEN c ELSE IMaxOf(got)])
    /\ UNCHANGED <<inotes, ipolled, ifirst, icursor, iseen, ilost, itold>>

ISummarySave(s) ==
    LET i == isess[s]
    IN  /\ i.pc = "summary"
        /\ icursor' = IF i.at # i.from
                      THEN [icursor EXCEPT !["all"] = i.at] ELSE icursor
        /\ iseen' = [iseen EXCEPT !["all"] = @ \cup i.got]
        /\ itold' = itold \cup {i.at}
        /\ IGoes(s, IIdle)
        /\ UNCHANGED <<inotes, ipolled, ifirst, ilost, ileft>>

-----------------------------------------------------------------------------
(* The SET of a call or a summary is carried out and its reply is lost:    *)
(* the error is all that is returned.                                      *)
ISaveLost(s) ==
    LET i == isess[s]
    IN  /\ i.pc \in {"save", "summary"} /\ i.at # i.from
        /\ ISpend("failures")
        /\ icursor' = [icursor EXCEPT ![i.lane] = i.at]
        /\ ilost' = [ilost EXCEPT ![i.lane] = @ \cup i.got]
        /\ IGoes(s, IIdle)
        /\ UNCHANGED <<inotes, ipolled, ifirst, iseen, itold>>

-----------------------------------------------------------------------------
IStep(s) == IGet(s) \/ IPage(s) \/ ISave(s) \/ ISummarySave(s)

InboxNext ==
    \/ \E t \in ITags : INotify(t)
    \/ IStreamExpires
    \/ \E l \in ILanes : ICursorExpires(l)
    \/ \E s \in ISessions :
         \/ \E l \in ipolled : ICheck(s, l) \/ IReset(s, l)
         \/ \E c \in IPositions : ISummary(s, c)
         \/ IStep(s) \/ IFails(s) \/ ISaveLost(s)

InboxSpec == InboxInit /\ [][InboxNext]_inboxVars

-----------------------------------------------------------------------------
IGiven(l) == iseen[l] \cup ilost[l]

(* A cursor covers only what its lane was given: each retained, matching   *)
(* notification at or before it was returned by some call, or gathered by  *)
(* one whose cursor was saved although the SET reported an error, whatever *)
(* two sessions, failed commands, resets, expiries and summaries do in     *)
(* between ("never over an unexamined page tail", "a failed later page     *)
(* must not consume unreturned messages", check_inbox).                    *)
NothingSkipped ==
    \A l \in ILanes :
        \A p \in ifirst .. IMin(icursor[l], Len(inotes)) :
            IMatches(p, l) => p \in IGiven(l)

(* While the agent keeps polling its lanes, each notification of a lane is *)
(* in the end returned, lost with the reply to the SET of the call that    *)
(* gathered it, or falls out of the stream: a long run of notifications    *)
(* that do not match cannot stop the scan (check_inbox).  Notifications    *)
(* end in every instance, so that one state is reached in which nothing is *)
(* left to read.                                                           *)
EveryNotificationIsRead ==
    <>[](\A l \in ipolled, p \in ifirst .. Len(inotes) :
            IMatches(p, l) => p \in IGiven(l))

\* The agent polls its lanes again and again, and a call goes on.
InboxFairness ==
    /\ WF_inboxVars(\E s \in ISessions : IStep(s))
    /\ \A l \in ILanes :
           SF_inboxVars(l \in ipolled /\ \E s \in ISessions : ICheck(s, l))

InboxFairSpec == InboxSpec /\ InboxFairness
=============================================================================
