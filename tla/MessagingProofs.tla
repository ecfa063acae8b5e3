--------------------------- MODULE MessagingProofs --------------------------
(***************************************************************************)
(* Messages and presences, proved for every set of messages, lanes,        *)
(* sessions and hubs, every page size, limit, window, retention and        *)
(* lifetime, and every order of the calls: a call on the inbox stays       *)
(* within its scan limit and a cursor covers only what its lane was given; *)
(* a listing of overdue acknowledgements names what is owed and nothing    *)
(* that was settled before it began; the presences of other hubs never     *)
(* hide a live one behind an older one.                                    *)
(***************************************************************************)
EXTENDS Inbox, MessageAcks, PresenceSync, FiniteSetTheorems, WellFoundedInduction, TLAPS

-----------------------------------------------------------------------------
(* The inbox.                                                              *)

\* What lane l was given covers the stream up to c.
Covered(l, c) == \A p \in ifirst .. c : IMatches(p, l) => p \in IGiven(l)

\* Every position that is kept is one of a notification, or 0.
KeptInStream ==
    /\ ifirst <= Len(inotes) + 1
    /\ \A l \in ILanes : icursor[l] <= Len(inotes)
    /\ \A c \in itold : c <= Len(inotes)
    /\ \A s \in ISessions : /\ isess[s].from <= Len(inotes)
                            /\ isess[s].at <= Len(inotes)

(* Cursors cover, the stored ones, those that a summary returned and those *)
(* that a call began from; what the call has gathered covers the rest of   *)
(* the way to where it is.                                                 *)
SessionCovers(s) ==
    isess[s].pc \in {"page", "save", "summary"} =>
        /\ Covered(isess[s].lane, isess[s].from)
        /\ \A p \in ifirst .. isess[s].at :
               p > isess[s].from /\ IMatches(p, isess[s].lane)
                   => p \in isess[s].got
        /\ isess[s].pc = "summary" => isess[s].lane = "all"

KeptCover ==
    /\ \A l \in ILanes : Covered(l, icursor[l])
    /\ \A c \in itold : Covered("all", c)
    /\ \A s \in ISessions : SessionCovers(s)

InboxInv == InboxTypeOK /\ KeptInStream /\ KeptCover

-----------------------------------------------------------------------------
(* Pages.                                                                  *)

\* A non-empty set of numbers has a least one.
LEMMA MinExists ==
    ASSUME NEW S \in SUBSET Nat, S # {}
    PROVE  \E x \in S : \A y \in S : x <= y
<1>1. PICK x \in S : \A y \in S : ~(<<y, x>> \in OpToRel(<, Nat))
  BY WFMin, NatLessThanWellFounded
<1>2. \A y \in S : ~(y < x) BY <1>1 DEF OpToRel
<1> QED BY <1>2

\* One of numbers up to n has a greatest one, and IMaxOf is it.
LEMMA MaxIsGreatest ==
    ASSUME NEW n \in Nat, NEW S \in SUBSET (0 .. n), S # {}
    PROVE  IMaxOf(S) \in S /\ \A p \in S : p <= IMaxOf(S)
<1> DEFINE B == {m \in Nat : \A p \in S : p <= m}
<1>1. n \in B OBVIOUS
<1>2. PICK m \in B : \A k \in B : m <= k BY <1>1, MinExists
<1>3. m \in S
  <2>1. SUFFICES ASSUME m \notin S PROVE FALSE OBVIOUS
  <2>2. PICK p \in S : TRUE OBVIOUS
  <2>3. m - 1 \in Nat /\ \A q \in S : q <= m - 1 BY <2>1, <2>2
  <2> QED BY <1>2, <2>3
<1> QED BY <1>2, <1>3 DEF IMaxOf

\* The members of a set of numbers that fewer than k of T come before: with one
\* of them the set has each smaller one.
LEMMA FewBefore ==
    ASSUME NEW n \in Nat, NEW T \in SUBSET (0 .. n), NEW k \in Int,
           NEW p \in 0 .. n, NEW q \in 0 .. n, q <= p,
           Cardinality({r \in T : r < p}) < k
    PROVE  Cardinality({r \in T : r < q}) < k
<1>1. {r \in T : r < q} \subseteq {r \in T : r < p}
  <2>1. \A r \in T : r < q => r < p OBVIOUS
  <2> QED BY <2>1
<1>2. IsFiniteSet({r \in T : r < p})
  <2>1. IsFiniteSet(0 .. n) BY FS_Interval
  <2> QED BY <2>1, FS_Subset
<1>3. /\ Cardinality({r \in T : r < q}) <= Cardinality({r \in T : r < p})
      /\ IsFiniteSet({r \in T : r < q})
  BY <1>1, <1>2, FS_Subset
<1>4. /\ Cardinality({r \in T : r < q}) \in Nat
      /\ Cardinality({r \in T : r < p}) \in Nat
  BY <1>2, <1>3, FS_CardinalityType
<1> QED BY <1>3, <1>4

\* No more than k members of a set have fewer than k before them.
LEMMA AtMostFirst ==
    ASSUME NEW n \in Nat, NEW T \in SUBSET (0 .. n), NEW k \in Nat,
           NEW S \in SUBSET T,
           \A p \in S : Cardinality({r \in T : r < p}) < k
    PROVE  Cardinality(S) <= k /\ IsFiniteSet(S) /\ Cardinality(S) \in Nat
<1>1. IsFiniteSet(T)
  <2>1. IsFiniteSet(0 .. n) BY FS_Interval
  <2> QED BY <2>1, FS_Subset
<1>2. IsFiniteSet(S) /\ Cardinality(S) \in Nat
  BY <1>1, FS_Subset, FS_CardinalityType
<1>3. CASE S = {} BY <1>2, <1>3, FS_EmptySet
<1>4. CASE S # {}
  <2>1. PICK m \in S : \A p \in S : p <= m
    <3>1. S \in SUBSET (0 .. n) OBVIOUS
    <3> QED BY <1>4, <3>1, MaxIsGreatest
  <2> DEFINE B == {r \in T : r < m}
  <2>2. S \ {m} \subseteq B
    <3>1. \A x \in S \ {m} : x \in Int /\ m \in Int /\ x <= m /\ x # m
      BY <2>1
    <3> QED BY <3>1
  <2>3. IsFiniteSet(B) /\ Cardinality(B) \in Nat
    BY <1>1, FS_Subset, FS_CardinalityType
  <2>4. Cardinality(S \ {m}) <= Cardinality(B) BY <2>2, <2>3, FS_Subset
  <2>5. Cardinality(S \ {m}) = Cardinality(S) - 1
    BY <1>2, <2>1, FS_RemoveElement
  <2>6. Cardinality(B) < k BY <2>1
  <2> HIDE DEF B
  <2> QED BY <1>2, <2>3, <2>4, <2>5, <2>6
<1> QED BY <1>2, <1>3, <1>4

-----------------------------------------------------------------------------
\* The invariant gives the property.
LEMMA InboxSound == InboxInv => NothingSkipped
<1> SUFFICES ASSUME InboxInv, NEW l \in ILanes,
                    NEW p \in ifirst .. IMin(icursor[l], Len(inotes)),
                    IMatches(p, l)
             PROVE  p \in IGiven(l)
  BY DEF NothingSkipped
<1>1. icursor[l] \in Nat /\ icursor[l] <= Len(inotes) /\ Len(inotes) \in Nat
  BY DEF InboxInv, InboxTypeOK, KeptInStream, IPositions
<1>2. IMin(icursor[l], Len(inotes)) = icursor[l] BY <1>1 DEF IMin
<1> QED BY <1>2 DEF InboxInv, KeptCover, Covered

\* The first states: no cursor, nothing returned.
LEMMA InboxStart == InboxInit => InboxInv
<1> SUFFICES ASSUME InboxInit PROVE InboxInv OBVIOUS
<1> USE InboxAssumption
<1>1. inotes \in Seq(ITags) /\ Len(inotes) <= IMaxNotes /\ ipolled \subseteq ILanes
      /\ ileft \in [IBounded -> Nat]
  BY DEF InboxInit
<1>2. IIdle \in [pc : {"idle", "get", "page", "save", "summary"},
                 lane : ILanes, from : IPositions, at : IPositions,
                 got : SUBSET INotes, scanned : 0 .. IScanLimit]
  BY DEF IIdle, IPositions, INotes
<1>3. InboxTypeOK BY <1>1, <1>2 DEF InboxInit, InboxTypeOK, IPositions, INotes
<1>4. KeptInStream BY <1>1 DEF InboxInit, KeptInStream, IIdle
<1>5. KeptCover
  BY DEF InboxInit, KeptCover, Covered, SessionCovers, IIdle
<1> QED BY <1>3, <1>4, <1>5 DEF InboxInv

\* What is left of the budget stays a number.
LEMMA ISpendTypes ==
    ASSUME InboxTypeOK, NEW what \in IBounded, ISpend(what)
    PROVE  ileft' \in [IBounded -> Nat]
BY DEF InboxTypeOK, ISpend

-----------------------------------------------------------------------------
\* The states of a session.
SessionStates ==
    [pc : {"idle", "get", "page", "save", "summary"},
     lane : ILanes, from : IPositions, at : IPositions,
     got : SUBSET INotes, scanned : 0 .. IScanLimit]

\* The types of the state, and the idle session.
LEMMA InboxTypes ==
    ASSUME InboxInv
    PROVE  /\ InboxTypeOK
           /\ isess \in [ISessions -> SessionStates] /\ IIdle \in SessionStates
           /\ Len(inotes) \in Nat /\ Len(inotes) <= IMaxNotes /\ IMaxNotes \in Nat
           /\ ifirst \in Nat \ {0} /\ "all" \in ILanes
           /\ icursor \in [ILanes -> IPositions]
           /\ iseen \in [ILanes -> SUBSET INotes]
           /\ ilost \in [ILanes -> SUBSET INotes]
           /\ ileft \in [IBounded -> Nat]
<1>1. InboxTypeOK BY DEF InboxInv
<1>2. IIdle \in SessionStates
  BY InboxAssumption DEF IIdle, SessionStates, IPositions, INotes
<1>3. Len(inotes) \in Nat BY <1>1 DEF InboxTypeOK
<1> QED BY <1>1, <1>2, <1>3, InboxAssumption DEF InboxTypeOK, SessionStates

\* What covers goes on covering: the stream only grows at its end and shrinks
\* at its start, and what was returned stays returned.
LEMMA CoverGrows ==
    ASSUME InboxInv, NEW l \in ILanes, NEW c, c \in Nat, c <= Len(inotes),
           Covered(l, c),
           ifirst' \in Nat, ifirst <= ifirst', IGiven(l) \subseteq IGiven(l)',
           \A p \in 1 .. Len(inotes) : inotes'[p] = inotes[p]
    PROVE  \A p \in ifirst' .. c : IMatches(p, l)' => p \in IGiven(l)'
<1> SUFFICES ASSUME NEW p \in ifirst' .. c, l = "all" \/ inotes'[p] = l
             PROVE  p \in IGiven(l)'
  BY DEF IMatches
<1>1. p \in ifirst .. c /\ p \in 1 .. Len(inotes) BY InboxTypes
<1> QED BY <1>1 DEF Covered, IMatches

\* The same of a session.
LEMMA SessionGrows ==
    ASSUME InboxInv, NEW s \in ISessions, isess'[s] = isess[s],
           ifirst' \in Nat, ifirst <= ifirst',
           \A l \in ILanes : IGiven(l) \subseteq IGiven(l)',
           \A p \in 1 .. Len(inotes) : inotes'[p] = inotes[p]
    PROVE  SessionCovers(s)'
<1>1. isess[s] \in SessionStates /\ SessionCovers(s) BY InboxTypes DEF InboxInv, KeptCover
<1>2. /\ isess[s].lane \in ILanes
      /\ isess[s].from \in Nat /\ isess[s].from <= Len(inotes)
      /\ isess[s].at \in Nat /\ isess[s].at <= Len(inotes)
  BY <1>1 DEF SessionStates, IPositions, InboxInv, KeptInStream
<1> SUFFICES ASSUME isess[s].pc \in {"page", "save", "summary"}
             PROVE  /\ Covered(isess[s].lane, isess[s].from)'
                    /\ \A p \in ifirst' .. isess[s].at :
                           p > isess[s].from /\ IMatches(p, isess[s].lane)'
                               => p \in isess[s].got
                    /\ isess[s].pc = "summary" => isess[s].lane = "all"
  BY DEF SessionCovers
<1>3. Covered(isess[s].lane, isess[s].from) BY <1>1 DEF SessionCovers
<1>4. Covered(isess[s].lane, isess[s].from)'
  BY <1>2, <1>3, CoverGrows DEF Covered
<1>5. ASSUME NEW p \in ifirst' .. isess[s].at, p > isess[s].from,
             IMatches(p, isess[s].lane)'
      PROVE  p \in isess[s].got
  <2>1. p \in ifirst .. isess[s].at /\ p \in 1 .. Len(inotes)
    BY <1>2, InboxTypes
  <2>2. IMatches(p, isess[s].lane) BY <1>5, <2>1 DEF IMatches
  <2> QED BY <1>1, <1>5, <2>1, <2>2 DEF SessionCovers
<1>6. isess[s].pc = "summary" => isess[s].lane = "all" BY <1>1 DEF SessionCovers
<1> QED BY <1>4, <1>5, <1>6

\* A step of the stream, or of nobody.
LEMMA StreamStep ==
    ASSUME InboxInv, InboxTypeOK', ifirst <= ifirst',
           ifirst' <= Len(inotes') + 1, Len(inotes) <= Len(inotes'),
           \A p \in 1 .. Len(inotes) : inotes'[p] = inotes[p],
           isess' = isess, iseen' = iseen, ilost' = ilost, itold' = itold,
           \A l \in ILanes : icursor'[l] \in {icursor[l], 0}
    PROVE  InboxInv'
<1>1. ifirst' \in Nat \ {0} /\ Len(inotes') \in Nat
      /\ \A l \in ILanes : IGiven(l) \subseteq IGiven(l)'
  BY DEF InboxTypeOK, IGiven
<1>2. KeptInStream'
  <2>1. ASSUME NEW n \in Nat, n <= Len(inotes) PROVE n <= Len(inotes')
    BY <1>1, <2>1, InboxTypes
  <2>2. \A l \in ILanes : icursor'[l] \in Nat /\ icursor'[l] <= Len(inotes')
    <3>1. \A l \in ILanes : icursor[l] \in Nat /\ icursor[l] <= Len(inotes)
      BY InboxTypes DEF InboxInv, KeptInStream, IPositions
    <3> QED BY <1>1, <2>1, <3>1
  <2>3. \A c \in itold : c \in Nat /\ c <= Len(inotes)
    BY DEF InboxInv, InboxTypeOK, KeptInStream, IPositions
  <2>4. ASSUME NEW s \in ISessions
        PROVE  isess[s].from <= Len(inotes') /\ isess[s].at <= Len(inotes')
    <3>1. isess[s] \in SessionStates BY InboxTypes
    <3>2. isess[s].from \in Nat /\ isess[s].at \in Nat
      BY <3>1 DEF SessionStates, IPositions
    <3> QED BY <2>1, <3>2 DEF InboxInv, KeptInStream
  <2> QED BY <2>1, <2>2, <2>3, <2>4 DEF KeptInStream
<1>3. KeptCover'
  <2>1. ASSUME NEW l \in ILanes PROVE Covered(l, icursor[l])'
    <3>1. CASE icursor'[l] = 0 BY <1>1, <3>1 DEF Covered
    <3>2. CASE icursor'[l] = icursor[l]
      <4>1. /\ icursor[l] \in Nat /\ icursor[l] <= Len(inotes)
            /\ Covered(l, icursor[l])
        BY InboxTypes DEF InboxInv, KeptInStream, KeptCover, IPositions
      <4> QED BY <1>1, <3>2, <4>1, CoverGrows DEF Covered
    <3> QED BY <3>1, <3>2
  <2>2. ASSUME NEW c \in itold PROVE Covered("all", c)'
    <3>1. c \in Nat /\ c <= Len(inotes) /\ Covered("all", c)
      BY DEF InboxInv, InboxTypeOK, KeptInStream, KeptCover, IPositions
    <3> QED BY <1>1, <3>1, InboxTypes, CoverGrows DEF Covered
  <2>3. \A s \in ISessions : SessionCovers(s)' BY <1>1, SessionGrows
  <2> QED BY <2>1, <2>2, <2>3 DEF KeptCover
<1> QED BY <1>2, <1>3 DEF InboxInv

\* A step of one session.
LEMMA MoveStep ==
    ASSUME InboxInv, inotes' = inotes, ifirst' = ifirst, ipolled' = ipolled,
           ileft' \in [IBounded -> Nat], icursor' \in [ILanes -> IPositions],
           iseen' \in [ILanes -> SUBSET INotes],
           ilost' \in [ILanes -> SUBSET INotes], itold' \subseteq IPositions,
           \A l \in ILanes : /\ IGiven(l) \subseteq IGiven(l)'
                             /\ icursor'[l] <= Len(inotes)
                             /\ Covered(l, icursor[l])',
           \A c \in itold' : c <= Len(inotes) /\ Covered("all", c)',
           NEW s \in ISessions, NEW r \in SessionStates,
           isess' = [isess EXCEPT ![s] = r],
           r.from <= Len(inotes), r.at <= Len(inotes), SessionCovers(s)'
    PROVE  InboxInv'
<1>1. isess' \in [ISessions -> SessionStates] /\ isess'[s] = r
      /\ \A q \in ISessions \ {s} : isess'[q] = isess[q]
  BY InboxTypes
<1>2. InboxTypeOK' BY <1>1, InboxTypes DEF InboxTypeOK, SessionStates
<1>3. KeptInStream' BY <1>1 DEF InboxInv, KeptInStream
<1>4. ASSUME NEW q \in ISessions \ {s} PROVE SessionCovers(q)'
  <2>1. isess'[q] = isess[q] /\ q \in ISessions BY <1>1
  <2>2. ifirst' \in Nat /\ ifirst <= ifirst' BY InboxTypes
  <2> QED BY <2>1, <2>2, SessionGrows
<1>5. KeptCover' BY <1>4 DEF KeptCover
<1> QED BY <1>2, <1>3, <1>5 DEF InboxInv

-----------------------------------------------------------------------------
(* The stream.                                                             *)

\* A new notification is beyond every cursor.
LEMMA NotifyStep ==
    ASSUME InboxInv, NEW t \in ITags, INotify(t) PROVE InboxInv'
<1>1. ileft' \in [IBounded -> Nat]
  BY InboxTypes, ISpendTypes DEF INotify, IBounded
<1>2. /\ inotes' \in Seq(ITags) /\ Len(inotes') = Len(inotes) + 1
      /\ \A p \in 1 .. Len(inotes) : inotes'[p] = inotes[p]
  BY DEF INotify, InboxInv, InboxTypeOK
<1>3. /\ ifirst <= ifirst' /\ ifirst' \in 1 .. IMaxNotes + 1
      /\ ifirst' <= Len(inotes) + 2
  <2>1. /\ ifirst \in 1 .. IMaxNotes + 1 /\ Len(inotes) \in Nat
        /\ INoteMaxlen \in Nat \ {0} /\ Len(inotes) < IMaxNotes
        /\ IMaxNotes \in Nat /\ ifirst <= Len(inotes) + 1
    BY InboxTypes, InboxAssumption
    DEF InboxTypeOK, INotify, InboxInv, KeptInStream
  <2> QED BY <2>1 DEF INotify
<1>4. InboxTypeOK'
  BY <1>1, <1>2, <1>3, InboxTypes DEF InboxTypeOK, INotify
<1> QED BY <1>2, <1>3, <1>4, InboxTypes, StreamStep DEF INotify

\* What expires takes nothing back.
LEMMA ExpireStep ==
    ASSUME InboxInv, \/ IStreamExpires
                     \/ \E l \in ILanes : ICursorExpires(l)
                     \/ UNCHANGED inboxVars
    PROVE  InboxInv'
<1>1. ileft' \in [IBounded -> Nat]
  BY InboxTypes, ISpendTypes
  DEF IStreamExpires, ICursorExpires, inboxVars, IBounded
<1>2. /\ inotes' = inotes /\ ipolled' = ipolled /\ isess' = isess
      /\ iseen' = iseen /\ ilost' = ilost /\ itold' = itold
  BY DEF IStreamExpires, ICursorExpires, inboxVars
<1>3. /\ icursor' \in [ILanes -> IPositions]
      /\ \A l \in ILanes : icursor'[l] \in {icursor[l], 0}
  <2>1. icursor' = icursor \/ \E l \in ILanes : icursor' = [icursor EXCEPT ![l] = 0]
    BY DEF IStreamExpires, ICursorExpires, inboxVars
  <2> QED BY <2>1, InboxTypes DEF IPositions
<1>4. ifirst' = ifirst \/ ifirst' = Len(inotes) + 1
  BY DEF IStreamExpires, ICursorExpires, inboxVars
<1>5. InboxTypeOK'
  BY <1>1, <1>2, <1>3, <1>4, InboxTypes DEF InboxTypeOK
<1>6. ifirst <= ifirst' /\ ifirst' <= Len(inotes) + 1
  BY <1>4, InboxTypes DEF InboxInv, KeptInStream
<1> QED BY <1>2, <1>3, <1>5, <1>6, InboxTypes, StreamStep

-----------------------------------------------------------------------------
(* The calls.                                                              *)

\* A session that is idle, or about to read the cursor, promises nothing.
LEMMA IdleCovers ==
    ASSUME NEW s \in ISessions, isess'[s].pc \in {"idle", "get"}
    PROVE  SessionCovers(s)'
BY DEF SessionCovers

\* What the cursors promise, in a step that moves neither them nor the stream.
LEMMA SameCover ==
    ASSUME InboxInv, inotes' = inotes, ifirst' = ifirst, icursor' = icursor,
           iseen' = iseen, ilost' = ilost, itold' = itold
    PROVE  /\ icursor' \in [ILanes -> IPositions]
           /\ iseen' \in [ILanes -> SUBSET INotes]
           /\ ilost' \in [ILanes -> SUBSET INotes] /\ itold' \subseteq IPositions
           /\ \A l \in ILanes : /\ IGiven(l) \subseteq IGiven(l)'
                                /\ icursor'[l] <= Len(inotes)
                                /\ Covered(l, icursor[l])'
           /\ \A c \in itold' : c <= Len(inotes) /\ Covered("all", c)'
BY DEF InboxInv, InboxTypeOK, KeptInStream, KeptCover, Covered, IMatches, IGiven

\* A call begins from the cursor of its lane.
LEMMA ICheckStep ==
    ASSUME InboxInv, NEW s \in ISessions, NEW l \in ILanes,
           \/ ICheck(s, l)
           \/ IGet(s) /\ l = isess[s].lane
    PROVE  InboxInv'
<1>1. PICK b \in {IIdle, isess[s]} :
        isess' = [isess EXCEPT ![s] =
                    [b EXCEPT !.pc = "page", !.lane = l, !.from = icursor[l],
                              !.at = icursor[l]]]
  <2>1. CASE ICheck(s, l) BY <2>1 DEF ICheck, IGoes
  <2>2. CASE IGet(s) /\ l = isess[s].lane
    <3>1. isess[s] \in SessionStates BY InboxTypes
    <3>2. [isess[s] EXCEPT !.pc = "page", !.from = icursor[l], !.at = icursor[l]]
            = [isess[s] EXCEPT !.pc = "page", !.lane = l, !.from = icursor[l],
                               !.at = icursor[l]]
      BY <2>2, <3>1 DEF SessionStates
    <3> QED BY <2>2, <3>2 DEF IGet, IGoes
  <2> QED BY <2>1, <2>2
<1> DEFINE r == [b EXCEPT !.pc = "page", !.lane = l, !.from = icursor[l],
                          !.at = icursor[l]]
<1>2. b \in SessionStates /\ icursor[l] \in IPositions BY InboxTypes
<1>3. r \in SessionStates BY <1>2 DEF SessionStates
<1>4. /\ r.pc = "page" /\ r.lane = l /\ r.from = icursor[l] /\ r.at = icursor[l]
      /\ isess'[s] = r
  BY <1>1, <1>2, InboxTypes DEF SessionStates
<1>5. /\ inotes' = inotes /\ ifirst' = ifirst /\ icursor' = icursor
      /\ iseen' = iseen /\ ilost' = ilost /\ itold' = itold
      /\ ipolled' = ipolled /\ ileft' = ileft
  BY DEF ICheck, IGet
<1>6. Covered(l, icursor[l]) /\ icursor[l] <= Len(inotes)
  BY DEF InboxInv, KeptCover, KeptInStream
<1>7. SessionCovers(s)'
  <2>1. isess'[s].pc = "page" /\ isess'[s].lane = l
        /\ isess'[s].from = icursor[l] /\ isess'[s].at = icursor[l]
    BY <1>4
  <2>2. Covered(isess[s].lane, isess[s].from)'
    BY <1>5, <1>6, <2>1 DEF Covered, IMatches, IGiven
  <2>3. \A p \in ifirst' .. isess'[s].at : ~(p > isess'[s].from)
    BY <1>2, <1>5, <2>1, InboxTypes DEF IPositions
  <2> QED BY <2>1, <2>2, <2>3 DEF SessionCovers
<1> HIDE DEF r
<1> QED BY <1>1, <1>3, <1>4, <1>5, <1>6, <1>7, SameCover, InboxTypes, MoveStep DEF r

\* A reset covers nothing, which asks for nothing.
LEMMA ResetStep ==
    ASSUME InboxInv, NEW s \in ISessions, NEW l \in ILanes, IReset(s, l)
    PROVE  InboxInv'
<1> DEFINE r == [IIdle EXCEPT !.pc = "get", !.lane = l]
<1>1. ileft' \in [IBounded -> Nat]
  BY InboxTypes, ISpendTypes DEF IReset, IBounded
<1>2. isess' = [isess EXCEPT ![s] = r] BY DEF IReset, IGoes
<1>3. r \in SessionStates /\ r.pc = "get" /\ r.from = 0 /\ r.at = 0
  BY InboxTypes DEF SessionStates, IIdle
<1>4. /\ inotes' = inotes /\ ifirst' = ifirst /\ iseen' = iseen
      /\ ilost' = ilost /\ itold' = itold /\ ipolled' = ipolled
      /\ icursor' = [icursor EXCEPT ![l] = 0]
  BY DEF IReset
<1>5. icursor' \in [ILanes -> IPositions]
      /\ \A k \in ILanes : icursor'[k] \in {icursor[k], 0}
  BY <1>4, InboxTypes DEF IPositions
<1>6. \A k \in ILanes : icursor'[k] <= Len(inotes) /\ Covered(k, icursor[k])'
  BY <1>4, <1>5, InboxTypes
  DEF InboxInv, KeptInStream, KeptCover, Covered, IMatches, IGiven
<1>7. /\ \A c \in itold' : c <= Len(inotes) /\ Covered("all", c)'
      /\ \A k \in ILanes : IGiven(k) \subseteq IGiven(k)'
  BY <1>4 DEF InboxInv, KeptInStream, KeptCover, Covered, IMatches, IGiven
<1>8. SessionCovers(s)' BY <1>2, <1>3, InboxTypes, IdleCovers
<1>9. itold' \subseteq IPositions BY <1>4, InboxTypes DEF InboxTypeOK
<1> HIDE DEF r
<1> QED BY <1>1, <1>2, <1>3, <1>4, <1>5, <1>6, <1>7, <1>8, <1>9, InboxTypes, MoveStep

\* A call that fails saves nothing.
LEMMA FailsStep ==
    ASSUME InboxInv, NEW s \in ISessions, IFails(s) PROVE InboxInv'
<1>1. ileft' \in [IBounded -> Nat]
  BY InboxTypes, ISpendTypes DEF IFails, IBounded
<1>2. isess' = [isess EXCEPT ![s] = IIdle] BY DEF IFails, IGoes
<1>3. IIdle.pc = "idle" /\ IIdle.from = 0 /\ IIdle.at = 0 BY DEF IIdle
<1>4. SessionCovers(s)' BY <1>2, <1>3, InboxTypes, IdleCovers
<1>5. /\ inotes' = inotes /\ ifirst' = ifirst /\ icursor' = icursor
      /\ iseen' = iseen /\ ilost' = ilost /\ itold' = itold /\ ipolled' = ipolled
  BY DEF IFails
<1>6. IIdle.from <= Len(inotes) /\ IIdle.at <= Len(inotes) BY <1>3, InboxTypes
<1> QED BY <1>1, <1>2, <1>4, <1>5, <1>6, SameCover, InboxTypes, MoveStep

\* What a page examines is what comes next in the stream, without a gap, and
\* no more than was asked for.
LEMMA PageIsNext ==
    ASSUME InboxInv, NEW s \in ISessions, NEW at \in Nat, NEW size \in Nat
    PROVE  LET page == IPageAfter(at, size)
               seen == IExamined(s, page)
           IN  /\ seen \subseteq {p \in ifirst .. Len(inotes) : p > at}
               /\ \A p \in seen, q \in ifirst .. Len(inotes) :
                      q > at /\ q <= p => q \in seen
               /\ Cardinality(seen) \in Nat /\ Cardinality(seen) <= size
<1> DEFINE n == Len(inotes)
           later == {p \in ifirst .. n : p > at}
           page == IPageAfter(at, size)
           lane == isess[s].lane
           T == {q \in page : IMatches(q, lane)}
           k == ILimit - Cardinality(isess[s].got)
           seen == IExamined(s, page)
<1>1. n \in Nat /\ later \in SUBSET (0 .. n) BY InboxTypes
<1>2. page = {p \in later : Cardinality({q \in later : q < p}) < size}
  BY DEF IPageAfter
<1>3. k \in Int
  <2>1. isess[s] \in SessionStates BY InboxTypes
  <2>2. isess[s].got \in SUBSET (1 .. IMaxNotes) BY <2>1 DEF SessionStates, INotes
  <2>3. IsFiniteSet(1 .. IMaxNotes) BY InboxTypes, FS_Interval
  <2>4. Cardinality(isess[s].got) \in Nat
    BY <2>2, <2>3, FS_Subset, FS_CardinalityType
  <2> QED BY <2>4, InboxAssumption
<1>4. seen = {p \in page : Cardinality({r \in T : r < p}) < k}
  <2>1. \A p : {q \in page : q < p /\ IMatches(q, lane)} = {r \in T : r < p}
    OBVIOUS
  <2> QED BY <2>1 DEF IExamined
<1>5. T \in SUBSET (0 .. n) BY <1>1, <1>2
<1> HIDE DEF later, page, T, k, seen, lane, n
<1>6. seen \subseteq later BY <1>2, <1>4
<1>7. ASSUME NEW p \in seen, NEW q \in later, q <= p PROVE q \in seen
  <2>1. p \in 0 .. n /\ q \in 0 .. n BY <1>1, <1>6
  <2>2. q \in page
    <3>1. Cardinality({r \in later : r < p}) < size BY <1>2, <1>4
    <3> QED BY <1>1, <1>2, <1>7, <2>1, <3>1, FewBefore
  <2>3. Cardinality({r \in T : r < p}) < k BY <1>4
  <2>4. Cardinality({r \in T : r < q}) < k
    BY <1>1, <1>3, <1>5, <1>7, <2>1, <2>3, FewBefore
  <2> QED BY <1>4, <2>2, <2>4
<1>8. Cardinality(seen) \in Nat /\ Cardinality(seen) <= size
  <2>1. \A p \in seen : Cardinality({r \in later : r < p}) < size BY <1>2, <1>4
  <2> QED BY <1>1, <1>6, <2>1, AtMostFirst
<1>9. /\ seen \subseteq {p \in ifirst .. n : p > at}
      /\ \A p \in seen, q \in ifirst .. n : q > at /\ q <= p => q \in seen
  BY <1>6, <1>7 DEF later
<1> QED BY <1>8, <1>9 DEF seen, page, n

\* A page: the call has gathered all that matches up to where it is.
LEMMA PageStep ==
    ASSUME InboxInv, NEW s \in ISessions, IPage(s) PROVE InboxInv'
<1> DEFINE i == isess[s]
           size == IMin(IPageSize, IScanLimit - i.scanned)
           page == IPageAfter(i.at, size)
           seen == IExamined(s, page)
           got == i.got \cup {p \in seen : IMatches(p, i.lane)}
           scanned == i.scanned + Cardinality(seen)
           to == IF seen = {} THEN i.at ELSE ILast(s, page)
<1>1. i \in SessionStates /\ SessionCovers(s) /\ i.pc = "page"
  BY InboxTypes DEF InboxInv, KeptCover, IPage
<1>2. /\ i.at \in Nat /\ i.at <= Len(inotes) /\ i.from \in Nat
      /\ i.from <= Len(inotes) /\ i.scanned \in 0 .. IScanLimit
      /\ i.lane \in ILanes /\ i.got \subseteq INotes
  BY <1>1 DEF SessionStates, IPositions, InboxInv, KeptInStream
<1>3. size \in Nat /\ i.scanned + size <= IScanLimit
  BY <1>2, InboxAssumption DEF IMin
<1> HIDE DEF size
<1>4. /\ seen \subseteq {p \in ifirst .. Len(inotes) : p > i.at}
      /\ \A p \in seen, q \in ifirst .. Len(inotes) :
             q > i.at /\ q <= p => q \in seen
      /\ Cardinality(seen) \in Nat /\ Cardinality(seen) <= size
  BY <1>2, <1>3, PageIsNext
<1>5. /\ to \in Nat /\ to <= Len(inotes)
      /\ \A p \in ifirst .. to : p > i.at => p \in seen
  <2>1. CASE seen = {} BY <1>2, <2>1, InboxTypes
  <2>2. CASE seen # {}
    <3>1. seen \in SUBSET (0 .. Len(inotes)) BY <1>4, InboxTypes
    <3>2. IMaxOf(seen) \in seen BY <2>2, <3>1, InboxTypes, MaxIsGreatest
    <3>3. to = IMaxOf(seen) BY <2>2 DEF ILast
    <3> HIDE DEF to, seen
    <3>4. to \in seen BY <3>2, <3>3
    <3> QED BY <1>4, <3>4, InboxTypes
  <2> QED BY <2>1, <2>2
<1>6. PICK pc \in {"save", "page"} :
        isess' = [isess EXCEPT ![s] =
            [i EXCEPT !.pc = pc, !.at = to, !.got = got, !.scanned = scanned]]
  <2> HIDE DEF seen, got, scanned
  <2> QED BY DEF IPage, IGoes, seen, got, scanned, size
<1> HIDE DEF to, seen, page
<1> DEFINE r == [i EXCEPT !.pc = pc, !.at = to, !.got = got, !.scanned = scanned]
<1>7. got \subseteq INotes
  <2>1. seen \subseteq INotes BY <1>4, InboxTypes DEF INotes
  <2> QED BY <1>2, <2>1
<1>8. scanned \in 0 .. IScanLimit
  <2>1. /\ i.scanned \in Nat /\ Cardinality(seen) \in Nat /\ IScanLimit \in Nat
        /\ Cardinality(seen) <= size
    BY <1>2, <1>4, InboxAssumption
  <2>2. i.scanned + Cardinality(seen) <= IScanLimit BY <1>3, <2>1
  <2> QED BY <2>1, <2>2
<1>9. to \in IPositions BY <1>5, InboxTypes DEF IPositions
<1>10. /\ \A p \in ifirst .. to : p > i.from /\ IMatches(p, i.lane) => p \in got
  <2> SUFFICES ASSUME NEW p \in ifirst .. to, p > i.from, IMatches(p, i.lane)
               PROVE  p \in got
    OBVIOUS
  <2>1. CASE p > i.at BY <1>5, <2>1
  <2>2. CASE ~(p > i.at)
    <3>1. p \in ifirst .. i.at BY <1>2, <1>5, <2>2, InboxTypes
    <3> QED BY <1>1, <3>1 DEF SessionCovers
  <2> QED BY <2>1, <2>2
<1> HIDE DEF got, scanned
<1>11. r \in SessionStates BY <1>1, <1>7, <1>8, <1>9 DEF SessionStates
<1>12. /\ isess'[s] = r /\ r.pc = pc /\ r.lane = i.lane /\ r.from = i.from
       /\ r.at = to /\ r.got = got
  BY <1>1, <1>6, InboxTypes DEF SessionStates
<1>13. /\ inotes' = inotes /\ ifirst' = ifirst /\ icursor' = icursor
       /\ iseen' = iseen /\ ilost' = ilost /\ itold' = itold
       /\ ipolled' = ipolled /\ ileft' = ileft
  BY DEF IPage
<1> HIDE DEF r
<1>14. SessionCovers(s)'
  <2>1. Covered(i.lane, i.from) BY <1>1 DEF SessionCovers
  <2>2. Covered(isess[s].lane, isess[s].from)'
    BY <1>12, <1>13, <2>1 DEF Covered, IMatches, IGiven
  <2>3. \A p \in ifirst' .. isess'[s].at :
            p > isess'[s].from /\ IMatches(p, isess[s].lane)'
                => p \in isess'[s].got
    BY <1>10, <1>12, <1>13 DEF IMatches
  <2> QED BY <1>12, <2>2, <2>3 DEF SessionCovers
<1>15. isess' = [isess EXCEPT ![s] = r] BY <1>6 DEF r
<1> QED BY <1>2, <1>5, <1>11, <1>12, <1>13, <1>14, <1>15, SameCover, InboxTypes,
           MoveStep

\* A call, or a summary, that ends covers up to where it is: what it gathered
\* is returned or lost.
LEMMA SavedCovers ==
    ASSUME InboxInv, NEW s \in ISessions,
           isess[s].pc \in {"page", "save", "summary"},
           inotes' = inotes, ifirst' = ifirst,
           \/ /\ iseen' = [iseen EXCEPT ![isess[s].lane] = @ \cup isess[s].got]
              /\ ilost' = ilost
           \/ /\ ilost' = [ilost EXCEPT ![isess[s].lane] = @ \cup isess[s].got]
              /\ iseen' = iseen
    PROVE  /\ iseen' \in [ILanes -> SUBSET INotes]
           /\ ilost' \in [ILanes -> SUBSET INotes]
           /\ \A l \in ILanes : IGiven(l) \subseteq IGiven(l)'
           /\ \A l \in ILanes : l = isess[s].lane =>
                  \A p \in ifirst' .. isess[s].at :
                      IMatches(p, l) => p \in IGiven(l)'
<1>1. isess[s] \in SessionStates /\ SessionCovers(s)
  BY InboxTypes DEF InboxInv, KeptCover
<1>2. /\ isess[s].lane \in ILanes /\ isess[s].from \in Nat /\ isess[s].at \in Nat
      /\ isess[s].got \subseteq INotes
  BY <1>1 DEF SessionStates, IPositions
<1>3. /\ iseen' \in [ILanes -> SUBSET INotes]
      /\ ilost' \in [ILanes -> SUBSET INotes]
      /\ \A l \in ILanes : IGiven(l) \subseteq IGiven(l)'
      /\ \A l \in ILanes : l = isess[s].lane => isess[s].got \subseteq IGiven(l)'
  BY <1>2, InboxTypes DEF IGiven
<1>4. ASSUME NEW l \in ILanes, l = isess[s].lane,
             NEW p \in ifirst .. isess[s].at, IMatches(p, l)
      PROVE  p \in IGiven(l)'
  <2>1. CASE p > isess[s].from BY <1>1, <1>3, <1>4, <2>1 DEF SessionCovers
  <2>2. CASE ~(p > isess[s].from)
    <3>1. p \in ifirst .. isess[s].from BY <1>2, <2>2, InboxTypes
    <3>2. p \in IGiven(l)
      BY <1>1, <1>4, <3>1 DEF SessionCovers, Covered
    <3> QED BY <1>3, <3>2
  <2> QED BY <2>1, <2>2
<1> QED BY <1>3, <1>4

\* A cursor that is saved covers, and so does one that a summary returns.
LEMMA SaveStep ==
    ASSUME InboxInv, NEW s \in ISessions,
           ISave(s) \/ ISummarySave(s) \/ ISaveLost(s)
    PROVE  InboxInv'
<1> DEFINE i == isess[s]
<1>0. ileft' \in [IBounded -> Nat]
  BY InboxTypes, ISpendTypes DEF ISave, ISummarySave, ISaveLost, IBounded
<1>1. /\ inotes' = inotes /\ ifirst' = ifirst /\ ipolled' = ipolled
      /\ isess' = [isess EXCEPT ![s] = IIdle]
      /\ i.pc \in {"save", "summary"}
      /\ ISummarySave(s) => i.pc = "summary"
  BY DEF ISave, ISummarySave, ISaveLost, IGoes
<1>2. i \in SessionStates /\ SessionCovers(s)
  BY InboxTypes DEF InboxInv, KeptCover
<1>3. /\ i.lane \in ILanes /\ i.at \in IPositions /\ i.at <= Len(inotes)
      /\ ISummarySave(s) => i.lane = "all"
  BY <1>1, <1>2 DEF SessionStates, InboxInv, KeptInStream, SessionCovers
<1>4. /\ \/ /\ iseen' = [iseen EXCEPT ![i.lane] = @ \cup i.got]
            /\ ilost' = ilost
         \/ /\ ilost' = [ilost EXCEPT ![i.lane] = @ \cup i.got]
            /\ iseen' = iseen
      /\ icursor' = icursor \/ icursor' = [icursor EXCEPT ![i.lane] = i.at]
      /\ itold' = itold \/ (i.lane = "all" /\ itold' = itold \cup {i.at})
  BY <1>3 DEF ISave, ISummarySave, ISaveLost
<1>5. /\ iseen' \in [ILanes -> SUBSET INotes]
      /\ ilost' \in [ILanes -> SUBSET INotes]
      /\ \A l \in ILanes : IGiven(l) \subseteq IGiven(l)'
      /\ \A l \in ILanes : l = i.lane =>
             \A p \in ifirst' .. i.at : IMatches(p, l) => p \in IGiven(l)'
  BY <1>1, <1>4, SavedCovers
<1> HIDE DEF i
<1>6. ASSUME NEW l \in ILanes, NEW c, c \in Nat, c <= Len(inotes), Covered(l, c)
      PROVE  \A p \in ifirst' .. c : IMatches(p, l)' => p \in IGiven(l)'
  BY <1>1, <1>5, <1>6, InboxTypes, CoverGrows
<1>7. icursor' \in [ILanes -> IPositions] /\ itold' \subseteq IPositions
  BY <1>3, <1>4, InboxTypes DEF InboxTypeOK
<1>8. ASSUME NEW l \in ILanes
      PROVE  icursor'[l] <= Len(inotes) /\ Covered(l, icursor[l])'
  <2>1. CASE icursor'[l] = icursor[l]
    <3>1. /\ icursor[l] \in Nat /\ icursor[l] <= Len(inotes)
          /\ Covered(l, icursor[l])
      BY InboxTypes DEF InboxInv, KeptInStream, KeptCover, IPositions
    <3> QED BY <1>6, <2>1, <3>1 DEF Covered
  <2>2. CASE icursor'[l] # icursor[l]
    <3>1. l = i.lane /\ icursor'[l] = i.at BY <1>3, <1>4, <2>2, InboxTypes
    <3> QED BY <1>1, <1>3, <1>5, <3>1 DEF Covered, IMatches
  <2> QED BY <2>1, <2>2
<1>9. ASSUME NEW c \in itold' PROVE c <= Len(inotes) /\ Covered("all", c)'
  <2>1. CASE c \in itold
    <3>1. c \in Nat /\ c <= Len(inotes) /\ Covered("all", c)
      BY <2>1 DEF InboxInv, InboxTypeOK, KeptInStream, KeptCover, IPositions
    <3> QED BY <1>6, <3>1, InboxTypes DEF Covered
  <2>2. CASE c \notin itold
    <3>1. c = i.at /\ i.lane = "all" BY <1>4, <2>2
    <3> QED BY <1>1, <1>3, <1>5, <3>1 DEF Covered, IMatches
  <2> QED BY <2>1, <2>2
<1>10. /\ IIdle.pc = "idle" /\ IIdle.from <= Len(inotes)
       /\ IIdle.at <= Len(inotes)
  BY InboxTypes DEF IIdle
<1>11. SessionCovers(s)' BY <1>1, <1>10, InboxTypes, IdleCovers
<1> QED BY <1>0, <1>1, <1>5, <1>7, <1>8, <1>9, <1>10, <1>11, InboxTypes, MoveStep

\* A summary takes all that the stream has beyond its cursor.
LEMMA SummaryStep ==
    ASSUME InboxInv, NEW s \in ISessions, NEW c \in IPositions, ISummary(s, c)
    PROVE  InboxInv'
<1> DEFINE got == {p \in ifirst .. Len(inotes) : p > c}
           to == IF got = {} THEN c ELSE IMaxOf(got)
           r == [IIdle EXCEPT !.pc = "summary", !.from = c, !.got = got, !.at = to]
<1>1. ileft' \in [IBounded -> Nat]
  BY InboxTypes, ISpendTypes DEF ISummary, IBounded
<1>2. isess' = [isess EXCEPT ![s] = r] BY DEF ISummary, IGoes
<1>3. c \in Nat /\ c <= Len(inotes) /\ Covered("all", c)
  BY InboxTypes
  DEF ISummary, InboxInv, InboxTypeOK, KeptInStream, KeptCover, IPositions
<1>4. got \subseteq INotes BY InboxTypes DEF INotes
<1>5. to \in IPositions /\ to <= Len(inotes)
  <2>1. CASE got = {} BY <1>3, <2>1
  <2>2. CASE got # {}
    <3>1. got \in SUBSET (0 .. Len(inotes)) BY InboxTypes
    <3>2. IMaxOf(got) \in got BY <2>2, <3>1, InboxTypes, MaxIsGreatest
    <3>3. to \in got BY <2>2, <3>2
    <3> HIDE DEF to
    <3> QED BY <3>3, InboxTypes DEF IPositions
  <2> QED BY <2>1, <2>2
<1> HIDE DEF to
<1>6. \A p \in ifirst .. to : p > c => p \in got
  BY <1>3, <1>5, InboxTypes DEF IPositions
<1> HIDE DEF got
<1>7. r \in SessionStates BY <1>4, <1>5, InboxTypes DEF SessionStates
<1>8. /\ isess'[s] = r /\ r.pc = "summary" /\ r.lane = "all" /\ r.from = c
      /\ r.at = to /\ r.got = got
  BY <1>2, InboxTypes DEF IIdle
<1>9. /\ inotes' = inotes /\ ifirst' = ifirst /\ icursor' = icursor
      /\ iseen' = iseen /\ ilost' = ilost /\ itold' = itold /\ ipolled' = ipolled
  BY DEF ISummary
<1> HIDE DEF r
<1>10. SessionCovers(s)'
  <2>1. Covered(isess[s].lane, isess[s].from)'
    BY <1>3, <1>8, <1>9 DEF Covered, IMatches, IGiven
  <2> QED BY <1>6, <1>8, <1>9, <2>1 DEF SessionCovers
<1> QED BY <1>1, <1>2, <1>3, <1>5, <1>7, <1>8, <1>9, <1>10, SameCover, InboxTypes,
           MoveStep

\* Every step.
LEMMA InboxStep == InboxInv /\ [InboxNext]_inboxVars => InboxInv'
<1> SUFFICES ASSUME InboxInv, [InboxNext]_inboxVars PROVE InboxInv' OBVIOUS
<1>1. ipolled \subseteq ILanes /\ \A s \in ISessions : isess[s].lane \in ILanes
  BY InboxTypes DEF InboxTypeOK, SessionStates
<1>2. ASSUME NEW s \in ISessions, IStep(s) PROVE InboxInv'
  BY <1>1, <1>2, ICheckStep, PageStep, SaveStep DEF IStep
<1> QED
  BY <1>1, <1>2, NotifyStep, ExpireStep, ICheckStep, ResetStep, SummaryStep,
     FailsStep, SaveStep
  DEF InboxNext

-----------------------------------------------------------------------------
\* Type correctness of the inbox; a call examines no more than its scan limit.
THEOREM InboxTypeCorrect == InboxSpec => []InboxTypeOK
<1>1. InboxInv => InboxTypeOK BY DEF InboxInv
<1> QED BY <1>1, InboxStart, InboxStep, PTL DEF InboxSpec

(* A cursor covers only what its lane was given: whatever two sessions,    *)
(* failed commands, resets, expiries and summaries do in between, each     *)
(* retained notification at or before a cursor that matches its lane was   *)
(* returned by a call on it, or gathered by a call whose SET was carried   *)
(* out while its reply was lost (check_inbox, orchestrator_summary).       *)
THEOREM InboxSkipsNothing == InboxSpec => []NothingSkipped
BY InboxStart, InboxStep, InboxSound, PTL DEF InboxSpec

-----------------------------------------------------------------------------
(* Acknowledgements and their deadlines.                                   *)

\* A record is kept for the retention window after it is due.
RecordsLast ==
    \A m \in AMsgs : adead[m] # NoRecord => adead[m].until = adead[m].due + ARetention

(* A clean acknowledgement began after the post had returned, so that none *)
(* of the keys it deletes is written again.                                *)
CleanClears ==
    \A m \in AMsgs : aack[m].clean =>
        /\ aack[m].pc # "none" /\ Returned(m)
        /\ aack[m].pc \in {"cleared", "done"} => apend[m] = None
        /\ aack[m].pc = "done" => adead[m] = NoRecord

\* What was settled when the listing began stays settled.
OverStays ==
    \A m \in alist.over : Returned(m) /\ adead[m] = NoRecord /\ m \notin alist.got

(* What was overdue then is still recorded unless somebody acknowledges    *)
(* it, and the listing finds it while the record lasts.                    *)
OwedIsFound ==
    \A m \in alist.owed : aack[m].pc = "none" =>
        /\ alist.pc # "idle" /\ apost[m] = "tracked"
        /\ adead[m] # NoRecord /\ adead[m].due < alist.now
        /\ (alist.pc = "read" /\ HasRecord(m)) => m \in alist.todo \cup alist.got
        /\ (alist.pc = "done" /\ HasRecord(m)) => m \in alist.got

AcksInv ==
    AcksTypeOK /\ RecordsLast /\ CleanClears /\ OverStays /\ OwedIsFound

\* Nothing is posted at first.
LEMMA AcksStart == AcksInit => AcksInv
<1> SUFFICES ASSUME AcksInit PROVE AcksInv OBVIOUS
<1>1. AcksTypeOK
  <2>1. NoListing \in [pc : {"idle", "scan", "read", "done"}, now : 0 .. AMaxClock,
                  todo : SUBSET AMsgs, got : SUBSET AMsgs,
                  owed : SUBSET AMsgs, over : SUBSET AMsgs]
    BY AcksAssumption DEF NoListing
  <2> QED BY <2>1, AcksAssumption DEF AcksInit, AcksTypeOK, NoRecord, AKeys
<1> QED BY <1>1 DEF AcksInit, AcksInv, RecordsLast, CleanClears, OverStays,
                   OwedIsFound, NoListing

\* A budget that is spent.
LEMMA ASpendTypes ==
    ASSUME AcksTypeOK, NEW w \in ABounded, ASpend(w)
    PROVE  aleft' \in [ABounded -> Nat]
<1>1. aleft[w] - 1 \in Nat BY DEF ASpend, AcksTypeOK
<1> QED BY <1>1 DEF ASpend, AcksTypeOK

\* Nothing but the post of a message, and only forward.
LEMMA PostStep ==
    ASSUME AcksInv, NEW m \in AMsgs, APublish(m) \/ ATrackPending(m) \/ ATrackDeadline(m)
    PROVE  AcksInv'
<1> USE DEF AcksInv
<1>0. "failures" \in ABounded BY DEF ABounded
<1>1. aleft' \in [ABounded -> Nat]
  BY <1>0, ASpendTypes DEF APublish, ATrackPending, ATrackDeadline, AcksTypeOK
<1>2. /\ anow' = anow /\ aack' = aack /\ alist' = alist
      /\ ~Returned(m) /\ apost[m] # "tracked"
      /\ \A x \in AMsgs \ {m} : apost'[x] = apost[x] /\ apend'[x] = apend[x]
                                   /\ adead'[x] = adead[x]
  BY DEF APublish, ATrackPending, ATrackDeadline, APosted, Returned, AcksTypeOK
<1>3. /\ apost' \in [AMsgs -> {"none", "added", "announced", "pending",
                               "tracked", "untracked", "failed"}]
  BY DEF APublish, ATrackPending, ATrackDeadline, APosted, AcksTypeOK
<1>4. apend' \in [AMsgs -> AKeys]
  BY AcksAssumption DEF APublish, ATrackPending, ATrackDeadline, AcksTypeOK, AKeys
<1>5. /\ adead' \in [AMsgs -> [due : AKeys, until : AKeys]]
      /\ adead'[m] # NoRecord => adead'[m].until = adead'[m].due + ARetention
  <2>1. CASE adead' = adead BY <2>1 DEF AcksTypeOK, RecordsLast
  <2>2. CASE adead' = [adead EXCEPT ![m] = [due |-> anow + AWindow[m],
                                            until |-> anow + KeyTtl(m)]]
    <3>1. /\ anow \in Nat /\ AWindow[m] \in Nat /\ ARetention \in Nat
      BY AcksAssumption DEF AcksTypeOK
    <3>2. adead'[m] = [due |-> anow + AWindow[m], until |-> anow + KeyTtl(m)]
      BY <2>2 DEF AcksTypeOK
    <3> QED BY <2>2, <3>1, <3>2 DEF AcksTypeOK, KeyTtl, AKeys
  <2> QED BY <2>1, <2>2 DEF APublish, ATrackPending, ATrackDeadline
<1>6. AcksTypeOK' BY <1>1, <1>2, <1>3, <1>4, <1>5 DEF AcksTypeOK
<1>7. RecordsLast' BY <1>2, <1>5 DEF RecordsLast
<1>8. CleanClears' BY <1>2 DEF CleanClears, Returned
<1>9. OverStays' BY <1>2 DEF OverStays, Returned, AcksTypeOK
<1>10. OwedIsFound' BY <1>2 DEF OwedIsFound, HasRecord, AcksTypeOK
<1> QED BY <1>6, <1>7, <1>8, <1>9, <1>10

\* XADD of one message or of a batch.
LEMMA AAddStep ==
    ASSUME AcksInv, NEW S \in SUBSET AMsgs, AAdd(S)
    PROVE  AcksInv'
<1> USE DEF AcksInv
<1>1. Cardinality(S) \in Nat BY AcksAssumption, FS_Subset, FS_CardinalityType
<1>2. aleft' \in [ABounded -> Nat]
  <2>1. "posts" \in ABounded BY DEF ABounded
  <2>2. aleft["posts"] - Cardinality(S) \in Nat BY <1>1, <2>1 DEF AAdd, AcksTypeOK
  <2> QED BY <2>2 DEF AAdd, AcksTypeOK
<1>3. /\ anow' = anow /\ aack' = aack /\ alist' = alist /\ apend' = apend
      /\ adead' = adead
      /\ \A x \in AMsgs : apost[x] # "none" => apost'[x] = apost[x]
  BY DEF AAdd
<1>4. AcksTypeOK' BY <1>2, <1>3 DEF AcksTypeOK, AAdd
<1>5. RecordsLast' BY <1>3 DEF RecordsLast
<1>6. CleanClears' BY <1>3 DEF CleanClears, Returned
<1>7. OverStays' BY <1>3 DEF OverStays, Returned, AcksTypeOK
<1>8. OwedIsFound' BY <1>3 DEF OwedIsFound, HasRecord, AcksTypeOK
<1> QED BY <1>4, <1>5, <1>6, <1>7, <1>8

\* An acknowledgement begins, or deletes one of the two keys.
LEMMA AAckStep ==
    ASSUME AcksInv, NEW m \in AMsgs, AAckPost(m) \/ AClearPending(m) \/ AClearDeadline(m)
    PROVE  AcksInv'
<1> USE DEF AcksInv
<1>0. {"failures", "acks"} \subseteq ABounded BY DEF ABounded
<1>1. aleft' \in [ABounded -> Nat]
  BY <1>0, ASpendTypes DEF AAckPost, AClearPending, AClearDeadline, AcksTypeOK
<1>2. /\ anow' = anow /\ apost' = apost /\ alist' = alist
      /\ \A x \in AMsgs \ {m} : aack'[x] = aack[x] /\ apend'[x] = apend[x]
                                   /\ adead'[x] = adead[x]
      /\ aack'[m].pc # "none"
      /\ adead'[m] \in {NoRecord, adead[m]} /\ apend'[m] \in {None, apend[m]}
  BY DEF AAckPost, AClearPending, AClearDeadline, ClearDeadline, AcksTypeOK
<1>3. /\ aack' \in [AMsgs -> [pc : {"none", "posted", "cleared", "done"},
                          clean : BOOLEAN]]
  <2> DEFINE C == [pc : {"none", "posted", "cleared", "done"}, clean : BOOLEAN]
  <2>1. Returned(m) \in BOOLEAN BY DEF Returned
  <2>2. aack \in [AMsgs -> C] BY DEF AcksTypeOK
  <2>3. /\ [pc |-> "posted", clean |-> Returned(m)] \in C
        /\ [pc |-> "cleared", clean |-> FALSE] \in C
        /\ [pc |-> "done", clean |-> FALSE] \in C
        /\ [aack[m] EXCEPT !.pc = "cleared"] \in C
        /\ [aack[m] EXCEPT !.pc = "done"] \in C
    BY <2>1, <2>2
  <2> SUFFICES aack' \in [AMsgs -> C] OBVIOUS
  <2> HIDE DEF C
  <2> QED BY <2>2, <2>3 DEF AAckPost, AClearPending, AClearDeadline
<1>4. apend' \in [AMsgs -> AKeys] /\ adead' \in [AMsgs -> [due : AKeys, until : AKeys]]
  <2>1. None \in AKeys BY DEF AKeys
  <2>2. NoRecord \in [due : AKeys, until : AKeys] BY <2>1 DEF NoRecord
  <2>3. apend \in [AMsgs -> AKeys] /\ adead \in [AMsgs -> [due : AKeys, until : AKeys]]
    BY DEF AcksTypeOK
  <2> QED BY <2>1, <2>2, <2>3 DEF AAckPost, AClearPending, AClearDeadline, ClearDeadline
<1>5. AcksTypeOK' BY <1>1, <1>2, <1>3, <1>4 DEF AcksTypeOK
<1>6. RecordsLast' BY <1>2 DEF RecordsLast
<1>7. aack'[m].clean => /\ Returned(m)
                        /\ aack'[m].pc \in {"cleared", "done"} => apend'[m] = None
                        /\ aack'[m].pc = "done" => adead'[m] = NoRecord
  <2>1. CASE AAckPost(m) BY <2>1 DEF AAckPost, AcksTypeOK
  <2>2. CASE AClearPending(m) BY <2>2 DEF AClearPending, AcksTypeOK, CleanClears
  <2>3. CASE AClearDeadline(m)
    BY <2>3 DEF AClearDeadline, ClearDeadline, AcksTypeOK, CleanClears
  <2> QED BY <2>1, <2>2, <2>3
<1>8. CleanClears' BY <1>2, <1>7 DEF CleanClears, Returned
<1>9. OverStays' BY <1>2 DEF OverStays, Returned, AcksTypeOK
<1>10. OwedIsFound' BY <1>2 DEF OwedIsFound, HasRecord, AcksTypeOK
<1> QED BY <1>5, <1>6, <1>8, <1>9, <1>10

\* The listing of overdue acknowledgements.
LEMMA ListStep ==
    ASSUME AcksInv,
           AListStart \/ AListScan \/ AListEnd \/ \E m \in AMsgs : AListRead(m)
    PROVE  AcksInv'
<1> USE DEF AcksInv
<1>0. /\ anow' = anow /\ apost' = apost /\ apend' = apend /\ adead' = adead
      /\ aack' = aack
  BY DEF AListStart, AListScan, AListEnd, AListRead
<1>1. aleft' \in [ABounded -> Nat]
  BY ASpendTypes DEF AListStart, AListScan, AListEnd, AListRead, AcksTypeOK, ABounded
<1>2. RecordsLast' /\ CleanClears' BY <1>0 DEF RecordsLast, CleanClears, Returned
<1>3. CASE AListStart
  <2>1. /\ alist'.pc = "scan" /\ alist'.now = anow /\ alist'.todo = {}
        /\ alist'.got = {} /\ alist' = [pc |-> "scan", now |-> anow, todo |-> {},
              got |-> {}, owed |-> alist'.owed, over |-> alist'.over]
        /\ alist'.owed = {m \in AMsgs : apost[m] = "tracked" /\ adead[m].due # None
                                       /\ adead[m].due < anow}
        /\ alist'.over = {m \in AMsgs : Acked(m)}
    BY <1>3 DEF AListStart, NoListing
  <2>2. AcksTypeOK' BY <1>0, <1>1, <2>1 DEF AcksTypeOK
  <2>3. OverStays' BY <1>0, <2>1 DEF OverStays, CleanClears, Acked, Returned
  <2>4. OwedIsFound' BY <1>0, <2>1 DEF OwedIsFound, NoRecord
  <2> QED BY <1>2, <2>2, <2>3, <2>4
<1>4. CASE AListScan
  <2>1. /\ alist'.pc = "read" /\ alist'.now = alist.now
        /\ alist'.todo = {m \in AMsgs : HasRecord(m)}
        /\ alist'.got = alist.got /\ alist'.owed = alist.owed
        /\ alist'.over = alist.over
    BY <1>4 DEF AListScan, AcksTypeOK
  <2>2. AcksTypeOK' BY <1>0, <1>1, <1>4 DEF AcksTypeOK, AListScan
  <2>3. OverStays' BY <1>0, <2>1 DEF OverStays, Returned
  <2>4. OwedIsFound' BY <1>0, <1>4, <2>1 DEF OwedIsFound, HasRecord, AListScan, AcksTypeOK
  <2> QED BY <1>2, <2>2, <2>3, <2>4
<1>5. CASE \E m \in AMsgs : AListRead(m)
  <2>0. PICK m \in AMsgs : AListRead(m) BY <1>5
  <2>1. /\ alist'.pc = "read" /\ alist.pc = "read" /\ alist'.now = alist.now
        /\ alist'.todo = alist.todo \ {m}
        /\ alist'.got = IF HasRecord(m) /\ adead[m].due < alist.now
                        THEN alist.got \cup {m} ELSE alist.got
        /\ alist'.owed = alist.owed /\ alist'.over = alist.over
    BY <2>0 DEF AListRead, AcksTypeOK
  <2>2. AcksTypeOK' BY <1>0, <1>1, <2>0 DEF AcksTypeOK, AListRead
  <2>3. m \in alist.over => ~HasRecord(m)
    BY DEF OverStays, HasRecord, NoRecord, None, AcksTypeOK
  <2>4. OverStays' BY <1>0, <2>1, <2>3 DEF OverStays, Returned
  <2>5. OwedIsFound' BY <1>0, <2>1 DEF OwedIsFound, HasRecord
  <2> QED BY <1>2, <2>2, <2>4, <2>5
<1>6. CASE AListEnd
  <2>1. /\ alist'.pc = "done" /\ alist.pc = "read" /\ alist'.now = alist.now
        /\ alist.todo = {} /\ alist'.todo = {} /\ alist'.got = alist.got
        /\ alist'.owed = alist.owed /\ alist'.over = alist.over
    BY <1>6 DEF AListEnd, AcksTypeOK
  <2>2. AcksTypeOK' BY <1>0, <1>1, <1>6 DEF AcksTypeOK, AListEnd
  <2>3. OverStays' BY <1>0, <2>1 DEF OverStays, Returned
  <2>4. OwedIsFound' BY <1>0, <2>1 DEF OwedIsFound, HasRecord
  <2> QED BY <1>2, <2>2, <2>3, <2>4
<1> QED BY <1>3, <1>4, <1>5, <1>6

\* The clock advances; Redis drops pending-ack keys.
LEMMA ATickStep ==
    ASSUME AcksInv, ATick
    PROVE  AcksInv'
<1> USE DEF AcksInv
<1>0. /\ anow' = anow + 1 /\ anow' \in 0 .. AMaxClock /\ apost' = apost
      /\ adead' = adead /\ aack' = aack /\ alist' = alist /\ aleft' = aleft
      /\ \A m \in AMsgs : apend'[m] \in {None, apend[m]}
      /\ anow \in Nat
  BY AcksAssumption DEF ATick, AcksTypeOK
<1>1. apend' \in [AMsgs -> AKeys] BY DEF ATick, AcksTypeOK, AKeys
<1>2. AcksTypeOK' BY <1>0, <1>1 DEF AcksTypeOK
<1>3. RecordsLast' /\ OverStays' BY <1>0 DEF RecordsLast, OverStays, Returned
<1>4. CleanClears' BY <1>0 DEF CleanClears, Returned
<1>5. \A m \in AMsgs : HasRecord(m)' => HasRecord(m)
  BY <1>0 DEF HasRecord, AcksTypeOK, AKeys, None
<1>6. OwedIsFound' BY <1>0, <1>5 DEF OwedIsFound, AcksTypeOK
<1> QED BY <1>2, <1>3, <1>4, <1>6

\* Every step keeps the invariant.
LEMMA AcksStep == AcksInv /\ [AcksNext]_ackVars => AcksInv'
<1> SUFFICES ASSUME AcksInv, [AcksNext]_ackVars PROVE AcksInv' OBVIOUS
<1>1. CASE UNCHANGED ackVars
  BY <1>1 DEF ackVars, AcksInv, AcksTypeOK, RecordsLast, CleanClears, OverStays,
              OwedIsFound, Returned, HasRecord
<1>2. CASE AcksNext
  BY <1>2, PostStep, AAddStep, AAckStep, ListStep, ATickStep DEF AcksNext
<1> QED BY <1>1, <1>2

\* A listing that has ended is exact.
LEMMA AcksSound == AcksInv => OverdueIsExact
<1> SUFFICES ASSUME AcksInv PROVE OverdueIsExact OBVIOUS
<1> USE DEF AcksInv
<1>1. \A m \in AMsgs : Acked(m) => apend[m] = None BY DEF CleanClears, Acked
<1>2. alist.got \cap alist.over = {} BY DEF OverStays
<1>3. ASSUME alist.pc = "done", NEW m \in alist.owed, aack[m].pc = "none",
             anow < adead[m].due + ARetention
      PROVE  m \in alist.got
  <2>1. m \in AMsgs BY DEF AcksTypeOK
  <2>2. HasRecord(m) BY <1>3, <2>1 DEF OwedIsFound, RecordsLast, HasRecord, AcksTypeOK
  <2> QED BY <1>3, <2>2 DEF OwedIsFound
<1> QED BY <1>1, <1>2, <1>3 DEF OverdueIsExact

\* Type correctness of posting and acknowledging.
THEOREM AcksTypeCorrect == AcksSpec => []AcksTypeOK
<1>1. AcksInv => AcksTypeOK BY DEF AcksInv
<1> QED BY <1>1, AcksStart, AcksStep, PTL DEF AcksSpec

(* Whatever posts, acknowledgements, failed commands and expiries go on    *)
(* while the keys are scanned and read: the listing has every message that *)
(* was overdue when it began and that nobody acknowledges, until its       *)
(* retention window ends, and none whose acknowledgement was complete by   *)
(* then (check_overdue_acks, post_ack, ack_deadline_key_ttl).              *)
THEOREM ListingIsExact == AcksSpec => []OverdueIsExact
BY AcksStart, AcksStep, AcksSound, PTL DEF AcksSpec

-----------------------------------------------------------------------------
(* Presences of several hubs.                                              *)

\* What a process announces was stamped on its hub, not in the future.
Stamped(h) ==
    \A p \in PProcs : pproc[h, p].pc # "idle" =>
        /\ pproc[h, p].said \in Said /\ pproc[h, p].said.hub = h
        /\ pproc[h, p].said.ts <= pnow

(* The key outlives its value; an own announcement in it is the last one,  *)
(* and a live one gives way to a newer one only.                           *)
KeyOK(h) ==
    LET v == pkey[h].val
    IN  /\ v # Nobody => /\ pkey[h].until >= Expiry(v)
                         /\ v.hub = h => v = plast[h]
        /\ LiveSaid(plast[h]) => /\ v # Nobody
                                 /\ v = plast[h] \/ (v.hub # h /\ v.ts > plast[h].ts)

\* A merge between GET and SET is of another hub's row, newer than what it saw.
MergeOK(h) ==
    /\ peng[h].now <= pnow
    /\ peng[h].pc = "cas" =>
           /\ peng[h].row \in Said /\ peng[h].row.hub # h
           /\ peng[h].seen = Nobody \/ peng[h].seen.ts < peng[h].row.ts

\* No id is given twice.
NumbersOK(h) ==
    /\ \A i \in 1 .. Len(ptable[h]) : ptable[h][i].id \in 1 .. pserial[h]
    /\ \A i, j \in 1 .. Len(ptable[h]) : ptable[h][i].id = ptable[h][j].id => i = j
    /\ \A p \in PProcs : pproc[h, p].pc = "insert" =>
           /\ pproc[h, p].id \in 1 .. pserial[h]
           /\ \A i \in 1 .. Len(ptable[h]) : ptable[h][i].id # pproc[h, p].id
           /\ \A q \in PProcs :
                  pproc[h, q].pc = "insert" /\ pproc[h, q].id = pproc[h, p].id => q = p

(* A batch is of rows of the table, and a row of the table that it leaves  *)
(* out was committed after the ones of a higher id.                        *)
BatchOK(h) ==
    /\ peng[h].rows \subseteq RowsOf(ptable[h])
    /\ peng[h].pc \in {"push", "pushed"} =>
           /\ peng[h].rows # {}
           /\ \A r \in peng[h].rows : \A i \in 1 .. Len(ptable[h]) :
                  pcursor[h] < ptable[h][i].id /\ ptable[h][i].id <= r.id
                      => \/ ptable[h][i] \in peng[h].rows
                         \/ \E j \in 1 .. i - 1 : ptable[h][j] = r
    /\ peng[h].pc = "pushed" => Ids(Valid(peng[h].rows)) \subseteq psynced[h]

\* Cursor and accepted ids are of the table.
CursorOK(h) ==
    /\ psynced[h] \subseteq Ids(RowsOf(ptable[h]))
    /\ pcursor[h] \in {0} \cup Ids(RowsOf(ptable[h]))

\* PushedRejectedOrLate for one hub.
LateOK(h) ==
    \A i \in 1 .. Len(ptable[h]) :
        /\ ptable[h][i].id <= pcursor[h] =>
               \/ ptable[h][i].id \in psynced[h] \/ PRejects(ptable[h][i].said)
               \/ \E j \in 1 .. i - 1 : ptable[h][j].id > ptable[h][i].id
        /\ ptable[h][i].id \in psynced[h] =>
               pcloud[h] # Nobody /\ pcloud[h].ts >= ptable[h][i].said.ts

HubOK(h) ==
    /\ Stamped(h) /\ KeyOK(h) /\ MergeOK(h)
    /\ NumbersOK(h) /\ BatchOK(h) /\ CursorOK(h) /\ LateOK(h)

PresenceInv == PresenceTypeOK /\ \A h \in PHubs : HubOK(h)

LEMMA PresenceConstants ==
    /\ PTtls \subseteq Nat \ {0} /\ PBatch \in Nat \ {0} /\ PMaxAttempts \in Nat \ {0}
    /\ PMaxClock \in Nat /\ PMaxSaid \in Nat
<1>1. PTtls \subseteq Nat \ {0}
  BY PresenceAssumption
<1>2. PBatch \in Nat \ {0} /\ PMaxAttempts \in Nat \ {0}
  BY PresenceAssumption
<1>3. PMaxClock \in Nat /\ PMaxSaid \in Nat
  BY PresenceAssumption
<1> QED
  BY <1>1, <1>2, <1>3

(* No announcement is the empty one.                                       *)
LEMMA SomebodySaid ==
    \A s \in Said : /\ s # Nobody /\ s.ts \in Nat /\ s.ttl \in Nat \ {0} /\ s.hub \in PHubs
                    /\ Expiry(s) \in Nat
<1>1. SUFFICES ASSUME NEW s \in Said
               PROVE  /\ s # Nobody /\ s.ts \in Nat /\ s.ttl \in Nat \ {0} /\ s.hub \in PHubs
                      /\ Expiry(s) \in Nat
  OBVIOUS
<1>2. s.n \in 1 .. PMaxSaid /\ Nobody.n = 0
  BY DEF Said, Nobody
<1>3. s.ts \in Nat /\ s.ttl \in Nat \ {0} /\ s.hub \in PHubs
  <2>1. s.ts \in 0 .. PMaxClock
    BY DEF Said
  <2>2. s.ttl \in PTtls
    BY DEF Said
  <2>3. s.hub \in PHubs
    BY DEF Said
  <2>4. s.ts \in Nat
    BY <2>1, PresenceConstants
  <2>5. s.ttl \in Nat \ {0}
    BY <2>2, PresenceConstants
  <2> QED
    BY <2>3, <2>4, <2>5
<1>4. Expiry(s) \in Nat
  BY <1>3 DEF Expiry
<1> QED
  BY <1>2, <1>3, <1>4

(* The invariant gives the properties.                                     *)
LEMMA PresenceSound == PresenceInv => PulledIsNewer /\ PushedRejectedOrLate
<1> SUFFICES ASSUME PresenceInv PROVE PulledIsNewer /\ PushedRejectedOrLate
  OBVIOUS
<1>1. PushedRejectedOrLate
  BY DEF PresenceInv, HubOK, LateOK, PushedRejectedOrLate
<1>2. ASSUME NEW h \in PHubs
      PROVE  /\ (PGet(h) # Nobody /\ pkey[h].val.hub = h) => pkey[h].val = plast[h]
             /\ LiveSaid(plast[h]) =>
                  \/ pkey[h].val = plast[h] /\ PGet(h) = pkey[h].val
                  \/ pkey[h].val.hub # h /\ pkey[h].val.ts > plast[h].ts
  <2>1. KeyOK(h)
    BY DEF PresenceInv, HubOK
  <2>2. PGet(h) # Nobody => pkey[h].val # Nobody
    BY DEF PGet
  <2>3. pnow \in Nat /\ pkey[h].until \in Nat /\ plast[h] \in Said \cup {Nobody}
    BY PresenceConstants DEF PresenceInv, PresenceTypeOK
  <2>4. ASSUME LiveSaid(plast[h]), pkey[h].val = plast[h] PROVE PGet(h) = pkey[h].val
    <3>1. plast[h] \in Said /\ Expiry(plast[h]) \in Nat
      BY <2>3, <2>4, SomebodySaid DEF LiveSaid
    <3>2. pkey[h].until > pnow
      BY <2>1, <2>3, <2>4, <3>1 DEF KeyOK, LiveSaid
    <3> QED
      BY <3>2 DEF PGet
  <2> QED
    BY <2>1, <2>2, <2>4 DEF KeyOK
<1> QED
  BY <1>1, <1>2 DEF PulledIsNewer

(* It holds at the start.                                                  *)
LEMMA PresenceStart == PresenceInit => PresenceInv
<1> SUFFICES ASSUME PresenceInit PROVE PresenceInv
  OBVIOUS
<1>1. PIdle \in [pc : {"idle", "push", "pushed", "get", "cas"},
                rows : SUBSET Row, todo : SUBSET Said,
                try : 0 .. PMaxAttempts, now : 0 .. PMaxClock,
                row : Said \cup {Nobody}, seen : Said \cup {Nobody}]
  BY PresenceConstants DEF PIdle
<1>2. PresenceTypeOK
  BY <1>1, PresenceAssumption DEF PresenceInit, PresenceTypeOK
<1>3. ASSUME NEW h \in PHubs PROVE HubOK(h)
  <2>1. /\ \A p \in PProcs : pproc[h, p].pc = "idle"
        /\ pkey[h].val = Nobody /\ plast[h] = Nobody
    BY DEF PresenceInit
  <2>d. pcursor[h] = 0 /\ psynced[h] = {} /\ pnow = 0 /\ ptable[h] = <<>>
    BY DEF PresenceInit
  <2>2. peng[h].now = 0 /\ peng[h].pc = "idle" /\ peng[h].rows = {}
    BY DEF PresenceInit, PIdle
  <2>3. Len(ptable[h]) = 0
    BY <2>d
  <2>e. 1 .. Len(ptable[h]) = {}
    BY <2>3
  <2>a. Stamped(h)
    BY <2>1 DEF Stamped
  <2>b. KeyOK(h)
    BY <2>1 DEF KeyOK, LiveSaid
  <2>4. MergeOK(h)
    BY <2>d, <2>2 DEF MergeOK
  <2>c. NumbersOK(h)
    BY <2>1, <2>e DEF NumbersOK
  <2>5. LateOK(h)
    BY <2>e DEF LateOK
  <2>6. BatchOK(h) /\ CursorOK(h)
    BY <2>2, <2>d, <2>e DEF BatchOK, CursorOK
  <2> QED
    BY <2>a, <2>b, <2>c, <2>4, <2>5, <2>6 DEF HubOK
<1> QED
  BY <1>2, <1>3 DEF PresenceInv

(* What a step does not touch stays as it was.                             *)
LEMMA PartsKept ==
    ASSUME NEW h \in PHubs, HubOK(h), pnow' = pnow
    PROVE  /\ (\A p \in PProcs : pproc'[h, p] = pproc[h, p]) => Stamped(h)'
           /\ pkey'[h] = pkey[h] /\ plast'[h] = plast[h] => KeyOK(h)'
           /\ peng'[h] = peng[h] => MergeOK(h)'
           /\ /\ \A p \in PProcs : pproc'[h, p] = pproc[h, p]
              /\ ptable'[h] = ptable[h] /\ pserial'[h] = pserial[h]
              => NumbersOK(h)'
           /\ /\ peng'[h] = peng[h] /\ ptable'[h] = ptable[h]
              /\ pcursor'[h] = pcursor[h] /\ psynced'[h] = psynced[h]
              => BatchOK(h)'
           /\ /\ ptable'[h] = ptable[h] /\ pcursor'[h] = pcursor[h] /\ psynced'[h] = psynced[h]
              => CursorOK(h)'
           /\ /\ ptable'[h] = ptable[h] /\ pcursor'[h] = pcursor[h] /\ psynced'[h] = psynced[h]
              /\ pcloud'[h] = pcloud[h]
              => LateOK(h)'
<1>1. (\A p \in PProcs : pproc'[h, p] = pproc[h, p]) => Stamped(h)'
  BY DEF HubOK, Stamped
<1>2. pkey'[h] = pkey[h] /\ plast'[h] = plast[h] => KeyOK(h)'
  BY DEF HubOK, KeyOK, LiveSaid
<1>3. peng'[h] = peng[h] => MergeOK(h)'
  BY DEF HubOK, MergeOK
<1>4. /\ \A p \in PProcs : pproc'[h, p] = pproc[h, p]
      /\ ptable'[h] = ptable[h] /\ pserial'[h] = pserial[h]
      => NumbersOK(h)'
  BY DEF HubOK, NumbersOK
<1>5. /\ peng'[h] = peng[h] /\ ptable'[h] = ptable[h]
      /\ pcursor'[h] = pcursor[h] /\ psynced'[h] = psynced[h]
      => BatchOK(h)'
  BY DEF HubOK, BatchOK, Ids, RowsOf, Valid
<1>6. ptable'[h] = ptable[h] /\ pcursor'[h] = pcursor[h] /\ psynced'[h] = psynced[h]
      => CursorOK(h)'
  BY DEF HubOK, CursorOK, Ids, RowsOf
<1>7. /\ ptable'[h] = ptable[h] /\ pcursor'[h] = pcursor[h] /\ psynced'[h] = psynced[h]
      /\ pcloud'[h] = pcloud[h]
      => LateOK(h)'
  BY DEF HubOK, LateOK
<1> QED
  BY <1>1, <1>2, <1>3, <1>4, <1>5, <1>6, <1>7

LEMMA PSpendTypes ==
    ASSUME PresenceTypeOK, NEW h \in PHubs, NEW w \in PBounded, PSpend(h, w)
    PROVE  pleft' \in [PHubs -> [PBounded -> Nat]]
<1>1. pleft[h] \in [PBounded -> Nat] /\ pleft[h][w] - 1 \in Nat
  BY DEF PSpend, PresenceTypeOK
<1>2. [pleft[h] EXCEPT ![w] = @ - 1] \in [PBounded -> Nat]
  BY <1>1
<1> QED
  BY <1>2 DEF PSpend, PresenceTypeOK

\* What a process and an engine can be doing.
PProcess == [pc : {"idle", "stamped", "set", "insert"}, said : Said \cup {Nobody}, id : Nat]
PEngine == [pc : {"idle", "push", "pushed", "get", "cas"},
            rows : SUBSET Row, todo : SUBSET Said,
            try : 0 .. PMaxAttempts, now : 0 .. PMaxClock,
            row : Said \cup {Nobody}, seen : Said \cup {Nobody}]

(* A hub that a step leaves alone keeps its part of the invariant.         *)
LEMMA HubKept ==
    ASSUME NEW g \in PHubs, HubOK(g), pnow' = pnow,
           \A p \in PProcs : pproc'[g, p] = pproc[g, p],
           pkey'[g] = pkey[g], plast'[g] = plast[g], peng'[g] = peng[g],
           ptable'[g] = ptable[g], pserial'[g] = pserial[g], pcursor'[g] = pcursor[g],
           psynced'[g] = psynced[g], pcloud'[g] = pcloud[g]
    PROVE  HubOK(g)'
  BY PartsKept DEF HubOK

LEMMA ClockTypes ==
    ASSUME PresenceTypeOK
    PROVE  pnow \in Nat /\ pnow \in 0 .. PMaxClock /\ psaid \in Nat /\ psaid \in 0 .. PMaxSaid
<1>1. pnow \in 0 .. PMaxClock /\ psaid \in 0 .. PMaxSaid
  BY DEF PresenceTypeOK
<1> QED
  BY <1>1, PresenceConstants

(* What SET leaves in the key.                                             *)
LEMMA KeyFilled ==
    ASSUME NEW h \in PHubs, NEW v \in Said, NEW u \in Nat,
           pkey'[h] = [val |-> v, until |-> u], u >= v.ts + v.ttl,
           v.hub = h => plast'[h] = v,
           LiveSaid(plast[h])' => plast'[h] = v \/ (v.hub # h /\ v.ts > plast'[h].ts)
    PROVE  KeyOK(h)' /\ pkey'[h] \in [val : Said \cup {Nobody}, until : Nat]
<1>1. pkey'[h].val = v /\ pkey'[h].until = u
  OBVIOUS
<1>2. v # Nobody
  BY SomebodySaid
<1>3. pkey'[h] \in [val : Said \cup {Nobody}, until : Nat]
  OBVIOUS
<1> QED
  BY <1>1, <1>2, <1>3 DEF KeyOK, Expiry

(* Processes that change without being about to insert.                    *)
LEMMA FewerInserts ==
    ASSUME NEW h \in PHubs, NumbersOK(h), ptable'[h] = ptable[h], pserial'[h] = pserial[h],
           \A p \in PProcs : pproc'[h, p] = pproc[h, p] \/ pproc'[h, p].pc # "insert"
    PROVE  NumbersOK(h)'
<1>1. \A p \in PProcs : pproc'[h, p].pc = "insert" => pproc'[h, p] = pproc[h, p]
  OBVIOUS
<1> QED
  BY <1>1 DEF NumbersOK

(* bus_set_presence: the announcement is stamped.                          *)
LEMMA AnnounceKeeps ==
    ASSUME PresenceInv, NEW h \in PHubs, NEW p \in PProcs, NEW ttl \in PTtls, PAnnounce(h, p, ttl)
    PROVE  PresenceInv'
<1> DEFINE said == [n |-> psaid + 1, ts |-> pnow, ttl |-> ttl, hub |-> h]
           new == [pc |-> "stamped", id |-> 0, said |-> said]
<1>1. PresenceTypeOK /\ HubOK(h)
  BY DEF PresenceInv
<1>2. said \in Said /\ psaid + 1 \in 0 .. PMaxSaid
  <2>0. psaid < PMaxSaid
    BY DEF PAnnounce
  <2>1. psaid + 1 \in 1 .. PMaxSaid /\ psaid + 1 \in 0 .. PMaxSaid
    BY <1>1, <2>0, ClockTypes, PresenceConstants
  <2>2. pnow \in 0 .. PMaxClock
    BY <1>1, ClockTypes
  <2> QED
    BY <2>1, <2>2 DEF Said
<1>3. new \in PProcess
  BY <1>2 DEF PProcess
<1>4. pproc \in [PHubs \X PProcs -> PProcess]
  BY <1>1 DEF PresenceTypeOK, PProcess
<1>5. pproc' = [pproc EXCEPT ![<<h, p>>] = new]
  BY DEF PAnnounce
<1>6. pproc' \in [PHubs \X PProcs -> PProcess]
  BY <1>3, <1>4, <1>5
<1>7. pleft' \in [PHubs -> [PBounded -> Nat]]
  BY <1>1, PSpendTypes DEF PAnnounce, PBounded
<1>8. PresenceTypeOK'
  BY <1>1, <1>2, <1>6, <1>7 DEF PAnnounce, announcing, PresenceTypeOK, PProcess
<1>9. /\ pproc'[h, p] = new
      /\ \A g \in PHubs, q \in PProcs : g # h \/ q # p => pproc'[g, q] = pproc[g, q]
  BY <1>4, <1>5
<1>10. /\ pnow' = pnow /\ pkey' = pkey /\ plast' = plast /\ peng' = peng /\ ptable' = ptable
       /\ pserial' = pserial /\ pcursor' = pcursor /\ psynced' = psynced /\ pcloud' = pcloud
  BY DEF PAnnounce, announcing
<1>11. Stamped(h)'
  <2>1. new.pc = "stamped" /\ new.said = said /\ said.hub = h /\ said.ts = pnow
    OBVIOUS
  <2>2. pnow \in Nat
    BY <1>1, ClockTypes
  <2>3. new.pc # "idle" => new.said \in Said /\ new.said.hub = h /\ new.said.ts <= pnow
    BY <1>2, <2>1, <2>2
  <2>4. Stamped(h)
    BY <1>1 DEF HubOK
  <2> HIDE DEF new
  <2>5. \A q \in PProcs : q # p => pproc'[h, q] = pproc[h, q]
    BY <1>9
  <2> QED
    BY <1>9, <1>10, <2>3, <2>4, <2>5 DEF Stamped
<1>12. NumbersOK(h)'
  <2>1. new.pc # "insert"
    OBVIOUS
  <2>2. \A q \in PProcs : pproc'[h, q] = pproc[h, q] \/ pproc'[h, q].pc # "insert"
    BY <1>9, <2>1
  <2> QED
    BY <1>1, <1>10, <2>2, FewerInserts DEF HubOK
<1>13. HubOK(h)'
  BY <1>1, <1>10, <1>11, <1>12, PartsKept DEF HubOK
<1>14. ASSUME NEW g \in PHubs, g # h PROVE HubOK(g)'
  <2>1. HubOK(g)
    BY DEF PresenceInv
  <2> QED
    BY <1>9, <1>10, <1>14, <2>1, HubKept
<1> QED
  BY <1>8, <1>13, <1>14 DEF PresenceInv

(* SET EX: the key outlives the announcement, which is the last one.       *)
LEMMA SetKeeps ==
    ASSUME PresenceInv, NEW h \in PHubs, NEW p \in PProcs, PSet(h, p)
    PROVE  PresenceInv'
<1> DEFINE s == pproc[h, p].said
           new == [pproc[h, p] EXCEPT !.pc = "set"]
           cell == [val |-> s, until |-> pnow + s.ttl]
<1>1. PresenceTypeOK /\ HubOK(h) /\ pproc[h, p].pc = "stamped"
  BY DEF PresenceInv, PSet
<1>2. s \in Said /\ s.hub = h /\ s.ts <= pnow
  BY <1>1 DEF HubOK, Stamped
<1>3. pnow \in Nat /\ s.ttl \in Nat /\ s.ts \in Nat /\ s # Nobody
  BY <1>1, <1>2, SomebodySaid, ClockTypes
<1>4. pproc \in [PHubs \X PProcs -> PProcess] /\ pproc[h, p] \in PProcess
  BY <1>1 DEF PresenceTypeOK, PProcess
<1>5. new \in PProcess /\ new.pc = "set" /\ new.said = s
  BY <1>4 DEF PProcess
<1>6. pproc' = [pproc EXCEPT ![<<h, p>>] = new]
  BY DEF PSet
<1>7. pproc' \in [PHubs \X PProcs -> PProcess]
  BY <1>4, <1>5, <1>6
<1>8. pkey' = [pkey EXCEPT ![h] = cell] /\ plast' = [plast EXCEPT ![h] = s]
  BY DEF PSet
<1>11. /\ pproc'[h, p] = new
       /\ \A g \in PHubs, q \in PProcs : g # h \/ q # p => pproc'[g, q] = pproc[g, q]
  BY <1>4, <1>6
<1>12. /\ pkey'[h] = cell /\ plast'[h] = s
       /\ \A g \in PHubs : g # h => pkey'[g] = pkey[g] /\ plast'[g] = plast[g]
  BY <1>1, <1>8 DEF PresenceTypeOK
<1>13. /\ pnow' = pnow /\ peng' = peng /\ ptable' = ptable
       /\ pserial' = pserial /\ pcursor' = pcursor /\ psynced' = psynced /\ pcloud' = pcloud
  BY DEF PSet, announcing
<1>14. Stamped(h)'
  BY <1>1, <1>2, <1>5, <1>11, <1>13 DEF HubOK, Stamped
<1>15. NumbersOK(h)'
  <2>1. \A q \in PProcs : pproc'[h, q] = pproc[h, q] \/ pproc'[h, q].pc # "insert"
    BY <1>5, <1>11
  <2> QED
    BY <1>1, <1>13, <2>1, FewerInserts DEF HubOK
<1>16. KeyOK(h)' /\ pkey'[h] \in [val : Said \cup {Nobody}, until : Nat]
  <2>0. PICK v \in Said : v = s
    BY <1>2
  <2>1. PICK a \in Nat, b \in Nat : a = v.ts /\ b = v.ttl /\ a <= pnow
    BY <1>2, <1>3, <2>0
  <2>2. pkey'[h] = [val |-> v, until |-> pnow + b] /\ plast'[h] = v
    BY <1>12, <2>0, <2>1
  <2>n. pnow \in Nat
    BY <1>1, ClockTypes
  <2>m. a \in Nat /\ b \in Nat /\ a <= pnow
    BY <2>1
  <2>3. pnow + b \in Nat /\ pnow + b >= a + b
    BY <2>n, <2>m
  <2>4. pnow + b >= v.ts + v.ttl
    BY <2>1, <2>3
  <2> QED
    BY <2>2, <2>3, <2>4, KeyFilled
<1>10. PresenceTypeOK'
  <2>1. pkey' \in [PHubs -> [val : Said \cup {Nobody}, until : Nat]]
    BY <1>1, <1>8, <1>12, <1>16 DEF PresenceTypeOK
  <2>2. plast' \in [PHubs -> Said \cup {Nobody}]
    BY <1>1, <1>2, <1>8 DEF PresenceTypeOK
  <2> QED
    BY <1>1, <1>7, <2>1, <2>2 DEF PSet, announcing, PresenceTypeOK, PProcess
<1>17. HubOK(h)'
  BY <1>1, <1>13, <1>14, <1>15, <1>16, PartsKept DEF HubOK
<1>18. ASSUME NEW g \in PHubs, g # h PROVE HubOK(g)'
  <2>1. HubOK(g)
    BY DEF PresenceInv
  <2> QED
    BY <1>11, <1>12, <1>13, <1>18, <2>1, HubKept
<1> QED
  BY <1>10, <1>17, <1>18 DEF PresenceInv

(* PUBLISH and the insert: the id is a new one.                            *)
LEMMA InsertKeeps ==
    ASSUME PresenceInv, NEW h \in PHubs, NEW p \in PProcs, PInsert(h, p)
    PROVE  PresenceInv'
<1>1. PresenceTypeOK /\ HubOK(h) /\ pproc[h, p].pc = "set"
  BY DEF PresenceInv, PInsert
<1>2. pproc \in [PHubs \X PProcs -> PProcess] /\ pproc[h, p] \in PProcess
  BY <1>1 DEF PresenceTypeOK, PProcess
<1>3. pserial \in [PHubs -> Nat] /\ pserial[h] \in Nat
  BY <1>1 DEF PresenceTypeOK
<1>4. /\ pnow' = pnow /\ peng' = peng /\ ptable' = ptable /\ pkey' = pkey /\ plast' = plast
      /\ pcursor' = pcursor /\ psynced' = psynced /\ pcloud' = pcloud /\ psaid' = psaid
  BY DEF PInsert, announcing
<1>5. Stamped(h) /\ NumbersOK(h)
  BY <1>1 DEF HubOK
<1>6. PICK new \in PProcess :
           /\ pproc' = [pproc EXCEPT ![<<h, p>>] = new]
           /\ \/ /\ new.pc = "insert" /\ new.said = pproc[h, p].said /\ new.id = pserial[h] + 1
                 /\ pserial' = [pserial EXCEPT ![h] = @ + 1]
              \/ new.pc = "idle" /\ pserial' = pserial
  <2>1. CASE /\ pserial' = [pserial EXCEPT ![h] = @ + 1]
             /\ pproc' = [pproc EXCEPT ![<<h, p>>].pc = "insert", ![<<h, p>>].id = pserial[h] + 1]
    <3> DEFINE n == [[pproc[h, p] EXCEPT !.pc = "insert"] EXCEPT !.id = pserial[h] + 1]
    <3>0. pserial[h] + 1 \in Nat
      BY <1>3
    <3>1. n \in PProcess
      BY <1>2, <3>0 DEF PProcess
    <3>2. n.pc = "insert" /\ n.said = pproc[h, p].said /\ n.id = pserial[h] + 1
      BY <1>2, <1>3 DEF PProcess
    <3>3. pproc' = [pproc EXCEPT ![<<h, p>>] = n]
      BY <1>2, <2>1
    <3> QED
      BY <2>1, <3>1, <3>2, <3>3
  <2>2. CASE /\ pproc' = [pproc EXCEPT ![<<h, p>>].pc = "idle", ![<<h, p>>].said = Nobody]
             /\ UNCHANGED pserial
    <3> DEFINE n == [[pproc[h, p] EXCEPT !.pc = "idle"] EXCEPT !.said = Nobody]
    <3>1. n \in PProcess
      BY <1>2 DEF PProcess
    <3>2. n.pc = "idle"
      BY <1>2 DEF PProcess
    <3>3. pproc' = [pproc EXCEPT ![<<h, p>>] = n]
      BY <1>2, <2>2
    <3> QED
      BY <2>2, <3>1, <3>2, <3>3
  <2> QED
    BY <2>1, <2>2 DEF PInsert
<1>7. pleft' \in [PHubs -> [PBounded -> Nat]]
  <2>1. CASE UNCHANGED pleft
    BY <1>1, <2>1 DEF PresenceTypeOK
  <2>2. CASE PSpend(h, "faults")
    BY <1>1, <2>2, PSpendTypes DEF PBounded
  <2> QED
    BY <2>1, <2>2 DEF PInsert
<1>8. /\ pproc'[h, p] = new
      /\ \A q \in PProcs : q # p => pproc'[h, q] = pproc[h, q]
      /\ \A g \in PHubs, q \in PProcs : g # h => pproc'[g, q] = pproc[g, q]
  BY <1>2, <1>6
<1>9. /\ pserial'[h] = pserial[h] + 1 \/ pserial'[h] = pserial[h]
      /\ new.pc = "insert" => pserial'[h] = pserial[h] + 1
      /\ \A g \in PHubs : g # h => pserial'[g] = pserial[g]
  BY <1>3, <1>6
<1>10. PresenceTypeOK'
  <2>1. pproc' \in [PHubs \X PProcs -> PProcess]
    BY <1>2, <1>6
  <2>2. pserial' \in [PHubs -> Nat]
    <3>1. pserial' = pserial \/ pserial' = [pserial EXCEPT ![h] = @ + 1]
      BY <1>6
    <3>2. pserial[h] + 1 \in Nat
      BY <1>3
    <3> QED
      BY <1>3, <3>1, <3>2
  <2> QED
    BY <1>1, <1>7, <2>1, <2>2 DEF PInsert, announcing, PresenceTypeOK, PProcess
<1>11. Stamped(h)'
  <2>1. new.pc # "idle" => new.said = pproc[h, p].said
    BY <1>6
  <2> QED
    BY <1>1, <1>4, <1>5, <1>8, <2>1 DEF Stamped
<1>12. NumbersOK(h)'
  <2>1. CASE new.pc = "insert"
    <3>1. new.id = pserial[h] + 1 /\ pserial'[h] = pserial[h] + 1
      BY <1>6, <1>9, <2>1
    <3>2. \A i \in 1 .. Len(ptable[h]) : ptable[h][i].id \in 1 .. pserial'[h] /\ ptable[h][i].id # new.id
      <4>1. \A i \in 1 .. Len(ptable[h]) : ptable[h][i].id \in 1 .. pserial[h]
        BY <1>5 DEF NumbersOK
      <4> QED
        BY <1>3, <3>1, <4>1
    <3>3. \A q \in PProcs : q # p /\ pproc'[h, q].pc = "insert" =>
              pproc'[h, q].id \in 1 .. pserial'[h] /\ pproc'[h, q].id # new.id
      <4>1. \A q \in PProcs : q # p /\ pproc'[h, q].pc = "insert" => pproc'[h, q].id \in 1 .. pserial[h]
        BY <1>5, <1>8 DEF NumbersOK
      <4>2. \A x \in 1 .. pserial[h] : x \in 1 .. pserial'[h] /\ x # new.id
        BY <1>3, <3>1
      <4> QED
        BY <4>1, <4>2
    <3>4. new.id \in 1 .. pserial'[h]
      BY <1>3, <3>1
    <3>5. \A q \in PProcs : q # p /\ pproc'[h, q].pc = "insert" =>
              \A i \in 1 .. Len(ptable[h]) : ptable[h][i].id # pproc'[h, q].id
      BY <1>5, <1>8 DEF NumbersOK
    <3>6. \A q, t \in PProcs : q # p /\ t # p /\ pproc'[h, q].pc = "insert" /\ pproc'[h, t].pc = "insert"
                               /\ pproc'[h, q].id = pproc'[h, t].id => q = t
      BY <1>5, <1>8 DEF NumbersOK
    <3>7. \A i, j \in 1 .. Len(ptable[h]) : ptable[h][i].id = ptable[h][j].id => i = j
      BY <1>5 DEF NumbersOK
    <3> QED
      BY <1>4, <1>8, <3>2, <3>3, <3>4, <3>5, <3>6, <3>7 DEF NumbersOK
  <2>2. CASE new.pc # "insert"
    <3>1. \A q \in PProcs : pproc'[h, q] = pproc[h, q] \/ pproc'[h, q].pc # "insert"
      BY <1>8, <2>2
    <3>2. pserial'[h] = pserial[h]
      BY <1>6, <2>2
    <3> QED
      BY <1>4, <1>5, <3>1, <3>2, FewerInserts
  <2> QED
    BY <2>1, <2>2
<1>13. HubOK(h)'
  BY <1>1, <1>4, <1>11, <1>12, PartsKept DEF HubOK
<1>14. ASSUME NEW g \in PHubs, g # h PROVE HubOK(g)'
  <2>1. HubOK(g)
    BY DEF PresenceInv
  <2> QED
    BY <1>4, <1>8, <1>9, <1>14, <2>1, HubKept
<1> QED
  BY <1>10, <1>13, <1>14 DEF PresenceInv

(* A non-empty set of numbers up to n has a greatest one.                  *)
LEMMA GreatestRow ==
    ASSUME NEW S \in SUBSET Nat, S # {}, NEW n \in Nat, \A x \in S : x <= n
    PROVE  \E x \in S : \A y \in S : y <= x
<1> DEFINE B == {m \in Nat : \A x \in S : x <= m}
<1>1. n \in B
  OBVIOUS
<1>2. PICK m \in B : \A k \in B : ~(<<k, m>> \in OpToRel(<, Nat))
  BY <1>1, WFMin, NatLessThanWellFounded
<1>3. \A k \in B : ~(k < m)
  BY <1>2 DEF OpToRel
<1>4. m \in S
  <2>1. SUFFICES ASSUME m \notin S PROVE FALSE
    OBVIOUS
  <2>2. PICK x \in S : TRUE
    OBVIOUS
  <2>3. m - 1 \in B
    BY <2>1, <2>2
  <2> QED
    BY <1>3, <2>3
<1> QED
  BY <1>4

(* What is known of the table, the ids and the engine of a hub.            *)
LEMMA HubTypes ==
    ASSUME PresenceTypeOK, NEW h \in PHubs
    PROVE  /\ ptable[h] \in Seq(Row) /\ Len(ptable[h]) \in Nat
           /\ \A i \in 1 .. Len(ptable[h]) : ptable[h][i] \in Row /\ ptable[h][i].id \in Nat
           /\ pserial[h] \in Nat /\ pcursor[h] \in Nat /\ psynced[h] \in SUBSET Nat
           /\ peng \in [PHubs -> PEngine] /\ peng[h] \in PEngine
           /\ pcloud[h] \in Said \cup {Nobody}
<1>1. ptable[h] \in Seq(Row)
  BY DEF PresenceTypeOK
<1>2. Len(ptable[h]) \in Nat /\ \A i \in 1 .. Len(ptable[h]) : ptable[h][i] \in Row
  BY <1>1
<1>3. \A r \in Row : r.id \in Nat
  BY DEF Row
<1>4. /\ pserial[h] \in Nat /\ pcursor[h] \in Nat /\ psynced[h] \in SUBSET Nat
      /\ pcloud[h] \in Said \cup {Nobody}
  BY DEF PresenceTypeOK
<1>5. peng \in [PHubs -> PEngine]
  BY DEF PresenceTypeOK, PEngine
<1> QED
  BY <1>1, <1>2, <1>3, <1>4, <1>5

(* The insert is committed: its id is new in the table, and whatever is    *)
(* under way or behind the cursor came before it.                          *)
LEMMA CommitKeeps ==
    ASSUME PresenceInv, NEW h \in PHubs, NEW p \in PProcs, PCommit(h, p)
    PROVE  PresenceInv'
<1> DEFINE new == [pc |-> "idle", said |-> Nobody, id |-> 0]
<1>1. PresenceTypeOK /\ HubOK(h) /\ pproc[h, p].pc = "insert"
  BY DEF PresenceInv, PCommit
<1>2. pproc \in [PHubs \X PProcs -> PProcess] /\ new \in PProcess /\ new.pc = "idle"
  BY <1>1 DEF PresenceTypeOK, PProcess
<1>3. /\ pnow' = pnow /\ peng' = peng /\ pserial' = pserial /\ pkey' = pkey /\ plast' = plast
      /\ pcursor' = pcursor /\ psynced' = psynced /\ pcloud' = pcloud
  BY DEF PCommit, announcing
<1>4. Stamped(h) /\ NumbersOK(h) /\ BatchOK(h) /\ CursorOK(h) /\ LateOK(h)
  BY <1>1 DEF HubOK
<1>5. PICK r \in Row : r.id = pproc[h, p].id /\ ptable' = [ptable EXCEPT ![h] = Append(@, r)]
  <2> DEFINE r == [id |-> pproc[h, p].id, said |-> pproc[h, p].said]
  <2>1. pproc[h, p].said \in Said
    BY <1>1, <1>4 DEF Stamped
  <2>2. pproc[h, p].id \in Nat
    BY <1>1 DEF PresenceTypeOK
  <2>3. r \in Row /\ r.id = pproc[h, p].id
    BY <2>1, <2>2 DEF Row
  <2>4. ptable' = [ptable EXCEPT ![h] = Append(@, r)]
    BY DEF PCommit
  <2> QED
    BY <2>3, <2>4
<1>6. pproc' = [pproc EXCEPT ![<<h, p>>] = new]
  BY DEF PCommit
<1>7. /\ pproc'[h, p].pc = "idle"
      /\ \A q \in PProcs : q # p => pproc'[h, q] = pproc[h, q]
      /\ \A g \in PHubs, q \in PProcs : g # h => pproc'[g, q] = pproc[g, q]
  BY <1>2, <1>6
<1>8. ptable \in [PHubs -> Seq(Row)]
  BY <1>1 DEF PresenceTypeOK
<1>9. ptable'[h] = Append(ptable[h], r) /\ \A g \in PHubs : g # h => ptable'[g] = ptable[g]
  BY <1>5, <1>8
<1>10. PICK n \in Nat : n = Len(ptable[h])
  BY <1>1, HubTypes
<1>11. /\ Len(ptable'[h]) = n + 1 /\ ptable'[h][n + 1] = r
       /\ \A i \in 1 .. n : ptable'[h][i] = ptable[h][i]
  BY <1>8, <1>9, <1>10
<1>12. PresenceTypeOK'
  <2>1. pproc' \in [PHubs \X PProcs -> PProcess]
    BY <1>2, <1>6
  <2>2. ptable' \in [PHubs -> Seq(Row)]
    <3>1. Append(ptable[h], r) \in Seq(Row)
      BY <1>8
    <3> QED
      BY <1>5, <1>8, <3>1
  <2> QED
    BY <1>1, <2>1, <2>2 DEF PCommit, announcing, PresenceTypeOK, PProcess
<1>13. Stamped(h)'
  BY <1>3, <1>4, <1>7 DEF Stamped
<1>14. r.id \in 1 .. pserial[h] /\ \A i \in 1 .. n : ptable[h][i].id # r.id
  BY <1>1, <1>4, <1>5, <1>10 DEF NumbersOK
<1>15. \A i \in 1 .. n + 1 : i = n + 1 \/ i \in 1 .. n
  OBVIOUS
<1>16. NumbersOK(h)'
  <2>1. \A i \in 1 .. n : ptable[h][i].id \in 1 .. pserial[h]
    BY <1>4, <1>10 DEF NumbersOK
  <2>2. \A i, j \in 1 .. n : ptable[h][i].id = ptable[h][j].id => i = j
    BY <1>4, <1>10 DEF NumbersOK
  <2>3. \A q \in PProcs : pproc'[h, q].pc = "insert" =>
            /\ pproc'[h, q] = pproc[h, q] /\ q # p
            /\ pproc'[h, q].id \in 1 .. pserial[h] /\ pproc'[h, q].id # r.id
            /\ \A i \in 1 .. n : ptable[h][i].id # pproc'[h, q].id
    <3>1. SUFFICES ASSUME NEW q \in PProcs, pproc'[h, q].pc = "insert"
                   PROVE  /\ pproc'[h, q] = pproc[h, q] /\ q # p
                          /\ pproc[h, q].id \in 1 .. pserial[h] /\ pproc[h, q].id # r.id
                          /\ \A i \in 1 .. n : ptable[h][i].id # pproc[h, q].id
      OBVIOUS
    <3>2. q # p /\ pproc'[h, q] = pproc[h, q] /\ pproc[h, q].pc = "insert"
      BY <1>7, <3>1
    <3>3. pproc[h, q].id # r.id
      BY <1>1, <1>4, <1>5, <3>2 DEF NumbersOK
    <3> QED
      BY <1>4, <1>10, <3>2, <3>3 DEF NumbersOK
  <2>4. \A q, t \in PProcs : pproc'[h, q].pc = "insert" /\ pproc'[h, t].pc = "insert"
                             /\ pproc'[h, q].id = pproc'[h, t].id => q = t
    BY <1>4, <2>3 DEF NumbersOK
  <2>5. \A i \in 1 .. n + 1 : ptable'[h][i].id \in 1 .. pserial[h]
    BY <1>11, <1>14, <1>15, <2>1
  <2>6. \A i, j \in 1 .. n + 1 : ptable'[h][i].id = ptable'[h][j].id => i = j
    BY <1>11, <1>14, <1>15, <2>2
  <2>7. \A q \in PProcs : pproc'[h, q].pc = "insert" =>
            \A i \in 1 .. n + 1 : ptable'[h][i].id # pproc'[h, q].id
    BY <1>11, <1>15, <2>3
  <2> QED
    BY <1>3, <1>11, <2>3, <2>4, <2>5, <2>6, <2>7 DEF NumbersOK
<1>17. RowsOf(ptable[h]) \subseteq RowsOf(ptable[h])'
  BY <1>10, <1>11, <1>15 DEF RowsOf
<1>18. BatchOK(h)'
  <2>1. ASSUME peng[h].pc \in {"push", "pushed"}, NEW x \in peng[h].rows, NEW i \in 1 .. n + 1,
               pcursor[h] < ptable'[h][i].id, ptable'[h][i].id <= x.id
        PROVE  ptable'[h][i] \in peng[h].rows \/ \E j \in 1 .. i - 1 : ptable'[h][j] = x
    <3>1. CASE i \in 1 .. n
      <4>1. ptable[h][i] \in peng[h].rows \/ \E j \in 1 .. i - 1 : ptable[h][j] = x
        BY <1>4, <1>10, <1>11, <2>1, <3>1 DEF BatchOK
      <4>2. \A j \in 1 .. i - 1 : j \in 1 .. n
        BY <3>1
      <4> QED
        BY <1>11, <3>1, <4>1, <4>2
    <3>2. CASE i = n + 1
      <4>1. PICK j \in 1 .. n : ptable[h][j] = x
        BY <1>4, <1>10 DEF BatchOK, RowsOf
      <4>2. j \in 1 .. i - 1
        BY <3>2
      <4> QED
        BY <1>11, <4>1, <4>2
    <3> QED
      BY <1>15, <3>1, <3>2
  <2>2. peng[h].rows \subseteq RowsOf(ptable[h])'
    BY <1>4, <1>17 DEF BatchOK
  <2>3. peng[h].pc \in {"push", "pushed"} => peng[h].rows # {}
    BY <1>4 DEF BatchOK
  <2>4. peng[h].pc = "pushed" => Ids(Valid(peng[h].rows)) \subseteq psynced[h]
    BY <1>4 DEF BatchOK
  <2> QED
    BY <1>3, <1>11, <2>1, <2>2, <2>3, <2>4 DEF BatchOK, Ids
<1>19. CursorOK(h)'
  BY <1>3, <1>4, <1>17 DEF CursorOK, Ids
<1>20. LateOK(h)'
  <2>1. \A k \in Ids(RowsOf(ptable[h])) : \E j \in 1 .. n : ptable[h][j].id = k
    BY <1>10 DEF Ids, RowsOf
  <2>2. r.id \notin psynced[h]
    BY <1>4, <1>14, <2>1 DEF CursorOK
  <2>3. r.id <= pcursor[h] => \E j \in 1 .. n : ptable[h][j].id > r.id
    <3>1. r.id \in Nat /\ r.id > 0 /\ pcursor[h] \in Nat
      <4>1. pserial[h] \in Nat /\ pcursor[h] \in Nat
        BY <1>1, HubTypes
      <4> QED
        BY <1>14, <4>1
    <3>2. pcursor[h] = 0 \/ \E j \in 1 .. n : ptable[h][j].id = pcursor[h]
      BY <1>4, <2>1 DEF CursorOK
    <3> QED
      BY <1>14, <3>1, <3>2
  <2>4. ASSUME NEW i \in 1 .. n + 1
        PROVE  /\ ptable'[h][i].id <= pcursor[h] =>
                      \/ ptable'[h][i].id \in psynced[h] \/ PRejects(ptable'[h][i].said)
                      \/ \E j \in 1 .. i - 1 : ptable'[h][j].id > ptable'[h][i].id
               /\ ptable'[h][i].id \in psynced[h] =>
                      pcloud[h] # Nobody /\ pcloud[h].ts >= ptable'[h][i].said.ts
    <3>1. CASE i \in 1 .. n
      <4>1. \A j \in 1 .. i - 1 : j \in 1 .. n
        BY <3>1
      <4> QED
        BY <1>4, <1>10, <1>11, <3>1, <4>1 DEF LateOK
    <3>2. CASE i = n + 1
      <4>1. i - 1 = n
        BY <3>2
      <4> QED
        BY <1>11, <2>2, <2>3, <3>2, <4>1
    <3> QED
      BY <1>15, <3>1, <3>2
  <2> QED
    BY <1>3, <1>11, <2>4 DEF LateOK
<1>21. KeyOK(h)' /\ MergeOK(h)'
  BY <1>1, <1>3, PartsKept
<1>22. HubOK(h)'
  BY <1>13, <1>16, <1>18, <1>19, <1>20, <1>21 DEF HubOK
<1>23. ASSUME NEW g \in PHubs, g # h PROVE HubOK(g)'
  <2>1. HubOK(g)
    BY DEF PresenceInv
  <2> QED
    BY <1>3, <1>7, <1>9, <1>23, <2>1, HubKept
<1> QED
  BY <1>12, <1>22, <1>23 DEF PresenceInv

(* A step of the engine of a hub: what is left to show of that hub.        *)
LEMMA EngineStep ==
    ASSUME PresenceInv, NEW h \in PHubs, syncing,
           NEW e \in PEngine, peng' = [peng EXCEPT ![h] = e],
           pkey' \in [PHubs -> [val : Said \cup {Nobody}, until : Nat]],
           plast' \in [PHubs -> Said \cup {Nobody}],
           pcursor' \in [PHubs -> Nat], psynced' \in [PHubs -> SUBSET Nat],
           pcloud' \in [PHubs -> Said \cup {Nobody}], pleft' \in [PHubs -> [PBounded -> Nat]],
           \A g \in PHubs : g # h =>
               /\ pkey'[g] = pkey[g] /\ plast'[g] = plast[g] /\ pcursor'[g] = pcursor[g]
               /\ psynced'[g] = psynced[g] /\ pcloud'[g] = pcloud[g],
           KeyOK(h)', MergeOK(h)', BatchOK(h)', CursorOK(h)', LateOK(h)'
    PROVE  PresenceInv'
<1>1. PresenceTypeOK
  BY DEF PresenceInv
<1>2. peng \in [PHubs -> PEngine]
  BY <1>1 DEF PresenceTypeOK, PEngine
<1>3. peng' \in [PHubs -> PEngine] /\ \A g \in PHubs : g # h => peng'[g] = peng[g]
  BY <1>2
<1>4. pnow' = pnow /\ psaid' = psaid /\ pproc' = pproc /\ ptable' = ptable /\ pserial' = pserial
  BY DEF syncing
<1>5. PresenceTypeOK'
  BY <1>1, <1>3, <1>4 DEF PresenceTypeOK, PEngine
<1>6. HubOK(h)'
  <2>1. HubOK(h)
    BY DEF PresenceInv
  <2>2. Stamped(h)' /\ NumbersOK(h)'
    BY <1>4, <2>1, PartsKept
  <2> QED
    BY <2>2 DEF HubOK
<1>7. ASSUME NEW g \in PHubs, g # h PROVE HubOK(g)'
  <2>1. HubOK(g)
    BY DEF PresenceInv
  <2> QED
    BY <1>3, <1>4, <1>7, <2>1, HubKept
<1> QED
  BY <1>5, <1>6, <1>7 DEF PresenceInv

(* A hub's engine at rest, or about to look at some rows.                  *)
LEMMA AtRest ==
    /\ PIdle \in PEngine /\ PIdle.pc = "idle" /\ PIdle.rows = {} /\ PIdle.now = 0
    /\ \A T \in SUBSET Said :
           LET e == [PIdle EXCEPT !.pc = "get", !.todo = T]
           IN  e \in PEngine /\ e.pc = "get" /\ e.rows = {} /\ e.now = 0
<1>1. PIdle \in PEngine
  BY PresenceConstants DEF PIdle, PEngine
<1>2. PIdle.pc = "idle" /\ PIdle.rows = {} /\ PIdle.now = 0
  BY DEF PIdle
<1>3. ASSUME NEW T \in SUBSET Said
      PROVE  LET e == [PIdle EXCEPT !.pc = "get", !.todo = T]
             IN  e \in PEngine /\ e.pc = "get" /\ e.rows = {} /\ e.now = 0
  BY <1>1, <1>2 DEF PEngine
<1> QED
  BY <1>1, <1>2, <1>3

LEMMA RestIsPast ==
    ASSUME PresenceTypeOK PROVE PIdle.now <= pnow
<1>1. PIdle.now = 0
  BY AtRest
<1>2. pnow \in Nat
  BY ClockTypes
<1> QED
  BY <1>1, <1>2

(* An engine that is not pushing says nothing of a batch.                  *)
LEMMA NoBatch ==
    ASSUME NEW h \in PHubs, peng'[h].rows = {}, peng'[h].pc \notin {"push", "pushed"}
    PROVE  BatchOK(h)'
  BY DEF BatchOK

(* list_presence_events_after: the batch leaves out only what comes later. *)
LEMMA PushReadKeeps ==
    ASSUME PresenceInv, NEW h \in PHubs, PPushRead(h)
    PROVE  PresenceInv'
<1> DEFINE later == {r \in RowsOf(ptable[h]) : r.id > pcursor[h]}
<1>1. PresenceTypeOK /\ HubOK(h)
  BY DEF PresenceInv
<1>2. PICK R \in SUBSET Row : R = RowsAfter(h, pcursor[h])
  BY <1>1, HubTypes DEF RowsAfter, RowsOf
<1>3. PICK e \in PEngine : /\ peng' = [peng EXCEPT ![h] = e] /\ e.pc = "push" /\ e.rows = R /\ e.now = 0
  <2> DEFINE e == [PIdle EXCEPT !.pc = "push", !.rows = R]
  <2>1. e \in PEngine /\ e.pc = "push" /\ e.rows = R /\ e.now = 0
    BY AtRest DEF PEngine
  <2>2. peng' = [peng EXCEPT ![h] = e]
    BY <1>2 DEF PPushRead
  <2> QED
    BY <2>1, <2>2
<1>4. peng'[h] = e
  BY <1>1, <1>3, HubTypes
<1>5. /\ syncing /\ pkey' = pkey /\ plast' = plast /\ pcursor' = pcursor /\ pcloud' = pcloud
      /\ psynced' = psynced /\ ptable' = ptable /\ pnow' = pnow /\ R # {}
  BY <1>2 DEF PPushRead, syncing
<1>6. pleft' \in [PHubs -> [PBounded -> Nat]]
  BY <1>1, PSpendTypes DEF PPushRead, PBounded
<1>7. KeyOK(h)' /\ CursorOK(h)' /\ LateOK(h)'
  BY <1>1, <1>5, PartsKept
<1>8. MergeOK(h)'
  BY <1>1, <1>3, <1>4, <1>5, ClockTypes DEF MergeOK
<1>9. \A r \in R : r \in later /\ Cardinality({x \in later : x.id <= r.id}) <= PBatch
  BY <1>2 DEF RowsAfter
<1>10. IsFiniteSet(later)
  <2>1. IsFiniteSet(1 .. Len(ptable[h]))
    BY <1>1, HubTypes, FS_Interval
  <2> DEFINE f == [i \in 1 .. Len(ptable[h]) |-> ptable[h][i]]
  <2>2. f \in Surjection(1 .. Len(ptable[h]), RowsOf(ptable[h]))
    BY DEF Surjection, RowsOf
  <2>3. IsFiniteSet(RowsOf(ptable[h]))
    BY <2>1, <2>2, FS_Surjection
  <2> QED
    BY <2>3, FS_Subset
<1>11. ASSUME NEW r \in R, NEW x \in later, x.id <= r.id PROVE x \in R
  <2> DEFINE A == {y \in later : y.id <= x.id}
             B == {y \in later : y.id <= r.id}
  <2>1. \A y \in later : y.id \in Nat
    BY <1>1, HubTypes DEF RowsOf
  <2>7. r.id \in Nat /\ x.id \in Nat
    BY <1>9, <2>1
  <2>2. A \subseteq B
    <3>1. \A n \in Nat : n <= x.id => n <= r.id
      BY <1>11, <2>7
    <3> QED
      BY <2>1, <3>1
  <2>3. IsFiniteSet(B)
    BY <1>10, FS_Subset
  <2>4. Cardinality(A) <= Cardinality(B) /\ Cardinality(A) \in Nat /\ Cardinality(B) \in Nat
    BY <2>2, <2>3, FS_Subset, FS_CardinalityType
  <2>5. Cardinality(B) <= PBatch /\ PBatch \in Nat
    BY <1>9, PresenceConstants
  <2>6. Cardinality(A) <= PBatch
    BY <2>4, <2>5
  <2> QED
    BY <1>2, <2>6 DEF RowsAfter
<1>12. BatchOK(h)'
  <2>1. \A r \in R : \A i \in 1 .. Len(ptable[h]) :
            pcursor[h] < ptable[h][i].id /\ ptable[h][i].id <= r.id => ptable[h][i] \in R
    <3>1. SUFFICES ASSUME NEW r \in R, NEW i \in 1 .. Len(ptable[h]),
                          pcursor[h] < ptable[h][i].id, ptable[h][i].id <= r.id
                   PROVE  ptable[h][i] \in R
      OBVIOUS
    <3>2. ptable[h][i] \in later
      BY <1>1, <3>1, HubTypes DEF RowsOf
    <3> QED
      BY <1>11, <3>1, <3>2
  <2>2. R \subseteq RowsOf(ptable[h])
    BY <1>9
  <2> QED
    BY <1>3, <1>4, <1>5, <2>1, <2>2 DEF BatchOK, RowsOf
<1> QED
  <2>1. /\ pkey' \in [PHubs -> [val : Said \cup {Nobody}, until : Nat]]
        /\ plast' \in [PHubs -> Said \cup {Nobody}]
        /\ pcursor' \in [PHubs -> Nat] /\ psynced' \in [PHubs -> SUBSET Nat]
        /\ pcloud' \in [PHubs -> Said \cup {Nobody}]
    BY <1>1, <1>5 DEF PresenceTypeOK
  <2> QED
    BY <1>3, <1>5, <1>6, <1>7, <1>8, <1>12, <2>1, EngineStep

(* The Worker keeps a row as new as each one it is given and as the one it *)
(* had.                                                                    *)
LEMMA NewestIsNewest ==
    ASSUME PresenceTypeOK, NEW h \in PHubs, NEW F \in SUBSET Row, F # {},
           NEW n \in Nat, \A r \in F : r.id <= n
    PROVE  /\ Newest(h, F) \in Said
           /\ pcloud[h] # Nobody => Newest(h, F).ts >= pcloud[h].ts
           /\ \A x \in F : Newest(h, F).ts >= x.said.ts
<1>1. \A r \in Row : r.id \in Nat /\ r.said \in Said
  BY DEF Row
<1>2. \A s \in Said : s.ts \in Nat /\ s.ts <= PMaxClock
  <2>1. \A s \in Said : s.ts \in 0 .. PMaxClock
    BY DEF Said
  <2> QED
    BY <2>1, PresenceConstants
<1>3. \A r \in F : r.id \in Nat /\ r.said.ts \in Nat /\ r.said.ts <= PMaxClock
  BY <1>1, <1>2
<1>4. PICK t \in {r.said.ts : r \in F} : \A u \in {r.said.ts : r \in F} : u <= t
  <2> DEFINE T == {r.said.ts : r \in F}
  <2>1. T \in SUBSET Nat /\ T # {} /\ \A x \in T : x <= PMaxClock
    BY <1>3
  <2> QED
    BY <2>1, GreatestRow, PresenceConstants
<1>5. PICK k \in {r.id : r \in {x \in F : x.said.ts = t}} :
               \A j \in {r.id : r \in {x \in F : x.said.ts = t}} : j <= k
  <2> DEFINE K == {r.id : r \in {x \in F : x.said.ts = t}}
  <2>1. K \in SUBSET Nat /\ K # {} /\ \A x \in K : x <= n
    BY <1>3, <1>4
  <2> QED
    BY <2>1, GreatestRow
<1>6. PICK b \in F : b.said.ts = t /\ b.id = k
  BY <1>5
<1> DEFINE Best(r) == \A x \in F : x.said.ts < r.said.ts \/ (x.said.ts = r.said.ts /\ x.id <= r.id)
<1>7. Best(b)
  <2>1. \A x \in F : x.said.ts <= t /\ x.said.ts \in Nat
    BY <1>3, <1>4
  <2>2. \A x \in F : x.said.ts = t => x.id <= k
    BY <1>5
  <2>3. t \in Nat
    BY <1>3, <1>6
  <2>4. \A x \in F : x.said.ts < t \/ x.said.ts = t
    BY <2>1, <2>3
  <2> QED
    BY <1>6, <2>2, <2>4
<1> DEFINE c == CHOOSE r \in F : Best(r)
<1>8. c \in F /\ Best(c)
  BY <1>7
<1>9. Newest(h, F) = IF pcloud[h] # Nobody /\ pcloud[h].ts > c.said.ts THEN pcloud[h] ELSE c.said
  BY DEF Newest
<1> HIDE DEF c
<1>10. c.said \in Said /\ c.said.ts \in Nat /\ \A x \in F : x.said.ts <= c.said.ts
  BY <1>1, <1>3, <1>8
<1>11. pcloud[h] \in Said \cup {Nobody}
  BY HubTypes
<1>12. CASE pcloud[h] # Nobody /\ pcloud[h].ts > c.said.ts
  <2>1. pcloud[h] \in Said /\ pcloud[h].ts \in Nat /\ Newest(h, F) = pcloud[h]
    BY <1>2, <1>9, <1>11, <1>12
  <2>2. \A x \in F : pcloud[h].ts >= x.said.ts
    BY <1>3, <1>10, <1>12, <2>1
  <2>3. pcloud[h].ts >= pcloud[h].ts
    BY <2>1
  <2> QED
    BY <2>1, <2>2, <2>3
<1>13. CASE ~(pcloud[h] # Nobody /\ pcloud[h].ts > c.said.ts)
  <2>1. Newest(h, F) = c.said
    BY <1>9, <1>13
  <2>2. pcloud[h] # Nobody => c.said.ts >= pcloud[h].ts
    BY <1>2, <1>10, <1>11, <1>13
  <2>3. \A x \in F : c.said.ts >= x.said.ts
    BY <1>3, <1>10
  <2> QED
    BY <1>10, <2>1, <2>2, <2>3
<1> QED
  BY <1>12, <1>13

(* syncPushPresence: what is accepted is accepted whether the answer comes *)
(* back or not.                                                            *)
LEMMA PushSendKeeps ==
    ASSUME PresenceInv, NEW h \in PHubs, PPushSend(h)
    PROVE  PresenceInv'
<1>1. PresenceTypeOK /\ HubOK(h) /\ peng[h].pc = "push"
  BY DEF PresenceInv, PPushSend
<1>2. PICK R \in SUBSET Row : R = peng[h].rows
  BY <1>1, HubTypes DEF PEngine
<1>3. PICK V \in SUBSET Row, F \in SUBSET Row :
          V = Valid(R) /\ V \subseteq R /\ F = {r \in V : r.id \notin psynced[h]}
  BY <1>2 DEF Valid
<1>4. /\ psynced' = [psynced EXCEPT ![h] = @ \cup Ids(V)]
      /\ pcloud' = [pcloud EXCEPT ![h] = IF F = {} THEN @ ELSE Newest(h, F)]
  BY <1>2, <1>3 DEF PPushSend
<1>5. /\ syncing /\ pkey' = pkey /\ plast' = plast /\ pcursor' = pcursor
      /\ ptable' = ptable /\ pnow' = pnow
  BY DEF PPushSend, syncing
<1>6. BatchOK(h) /\ CursorOK(h) /\ LateOK(h) /\ NumbersOK(h) /\ MergeOK(h)
  BY <1>1 DEF HubOK
<1>7. \A r \in R : r \in Row /\ r.id \in Nat /\ r.id <= pserial[h]
  <2>1. pserial[h] \in Nat /\ \A i \in 1 .. Len(ptable[h]) : ptable[h][i].id \in 1 .. pserial[h]
    BY <1>1, <1>6, HubTypes DEF NumbersOK
  <2>2. \A r \in R : \E i \in 1 .. Len(ptable[h]) : ptable[h][i] = r
    BY <1>2, <1>6 DEF BatchOK, RowsOf
  <2>3. \A r \in R : r.id \in 1 .. pserial[h]
    BY <2>1, <2>2
  <2> QED
    BY <2>1, <2>3
<1>8. F # {} => /\ Newest(h, F) \in Said
                /\ pcloud[h] # Nobody => Newest(h, F).ts >= pcloud[h].ts
                /\ \A x \in F : Newest(h, F).ts >= x.said.ts
  <2>1. \A r \in F : r.id <= pserial[h]
    BY <1>3, <1>7
  <2>2. pserial[h] \in Nat
    BY <1>1, HubTypes
  <2> QED
    BY <1>1, <2>1, <2>2, NewestIsNewest
<1>9. PICK c \in Said \cup {Nobody} :
          /\ c = IF F = {} THEN pcloud[h] ELSE Newest(h, F)
          /\ pcloud[h] # Nobody => c # Nobody /\ c.ts >= pcloud[h].ts
          /\ \A x \in F : c # Nobody /\ c.ts >= x.said.ts
  <2>1. CASE F = {}
    <3>1. pcloud[h] \in Said \cup {Nobody} /\ \A s \in Said : s.ts \in Nat
      BY <1>1, HubTypes, SomebodySaid
    <3>2. pcloud[h] # Nobody => pcloud[h].ts \in Nat
      BY <3>1
    <3>3. pcloud[h] # Nobody => pcloud[h].ts >= pcloud[h].ts
      BY <3>2
    <3> QED
      BY <2>1, <3>1, <3>3
  <2>2. CASE F # {}
    <3>1. Newest(h, F) # Nobody
      BY <1>8, <2>2, SomebodySaid
    <3> QED
      BY <1>8, <2>2, <3>1
  <2> QED
    BY <2>1, <2>2
<1>10. pcloud' = [pcloud EXCEPT ![h] = c]
  BY <1>4, <1>9
<1>11. pcloud \in [PHubs -> Said \cup {Nobody}] /\ psynced \in [PHubs -> SUBSET Nat]
  BY <1>1 DEF PresenceTypeOK
<1>12. pcloud'[h] = c /\ pcloud' \in [PHubs -> Said \cup {Nobody}]
       /\ \A g \in PHubs : g # h => pcloud'[g] = pcloud[g]
  BY <1>10, <1>11
<1>13. psynced'[h] = psynced[h] \cup Ids(V) /\ psynced' \in [PHubs -> SUBSET Nat]
       /\ \A g \in PHubs : g # h => psynced'[g] = psynced[g]
  <2>1. Ids(V) \subseteq Nat
    BY <1>3, <1>7 DEF Ids
  <2> QED
    BY <1>4, <1>11, <2>1
<1>14. PICK e \in PEngine : /\ peng' = [peng EXCEPT ![h] = e] /\ e.now <= pnow /\ e.pc # "cas"
                            /\ \/ e.pc = "pushed" /\ e.rows = R
                               \/ e.pc = "idle" /\ e.rows = {}
  <2>0. peng[h] \in PEngine /\ peng \in [PHubs -> PEngine]
    BY <1>1, HubTypes
  <2>1. CASE peng' = [peng EXCEPT ![h].pc = "pushed"]
    <3> DEFINE e == [peng[h] EXCEPT !.pc = "pushed"]
    <3>1. e \in PEngine /\ e.pc = "pushed" /\ e.rows = R /\ e.now = peng[h].now
      BY <1>2, <2>0 DEF PEngine
    <3>2. peng' = [peng EXCEPT ![h] = e]
      BY <2>0, <2>1
    <3>3. e.now <= pnow
      BY <1>6, <3>1 DEF MergeOK
    <3> QED
      BY <3>1, <3>2, <3>3
  <2>2. CASE peng' = [peng EXCEPT ![h] = PIdle]
    <3>1. PIdle.now <= pnow
      BY <1>1, RestIsPast
    <3> QED
      BY <2>2, <3>1, AtRest
  <2> QED
    BY <2>1, <2>2 DEF PPushSend
<1>15. peng'[h] = e
  BY <1>1, <1>14, HubTypes
<1>16. pleft' \in [PHubs -> [PBounded -> Nat]]
  <2>1. CASE UNCHANGED pleft
    BY <1>1, <2>1 DEF PresenceTypeOK
  <2>2. CASE PSpend(h, "faults")
    BY <1>1, <2>2, PSpendTypes DEF PBounded
  <2> QED
    BY <2>1, <2>2 DEF PPushSend
<1>17. KeyOK(h)'
  BY <1>1, <1>5, PartsKept
<1>18. MergeOK(h)'
  BY <1>5, <1>14, <1>15 DEF MergeOK
<1>19. CursorOK(h)'
  <2>1. Ids(V) \subseteq Ids(RowsOf(ptable[h]))
    BY <1>2, <1>3, <1>6 DEF BatchOK, Ids
  <2>2. psynced'[h] \subseteq Ids(RowsOf(ptable[h]))
    BY <1>6, <1>13, <2>1 DEF CursorOK
  <2> QED
    BY <1>5, <1>6, <2>2 DEF CursorOK, Ids, RowsOf
<1>20. BatchOK(h)'
  <2>1. CASE e.pc = "pushed" /\ e.rows = R
    <3>1. R # {} /\ R \subseteq RowsOf(ptable[h])
      BY <1>1, <1>2, <1>6 DEF BatchOK
    <3>2. \A r \in R : \A i \in 1 .. Len(ptable[h]) :
              pcursor[h] < ptable[h][i].id /\ ptable[h][i].id <= r.id
                  => ptable[h][i] \in R \/ \E j \in 1 .. i - 1 : ptable[h][j] = r
      BY <1>1, <1>2, <1>6 DEF BatchOK
    <3> QED
      BY <1>3, <1>5, <1>13, <1>15, <2>1, <3>1, <3>2 DEF BatchOK, Ids, RowsOf, Valid
  <2>2. CASE e.pc = "idle" /\ e.rows = {}
    BY <1>15, <2>2, NoBatch
  <2> QED
    BY <1>14, <2>1, <2>2
<1>21. LateOK(h)'
  <2>1. ASSUME NEW i \in 1 .. Len(ptable[h]), ptable[h][i].id \in psynced'[h]
        PROVE  c # Nobody /\ c.ts >= ptable[h][i].said.ts
    <3>1. CASE ptable[h][i].id \in psynced[h]
      <4>1. pcloud[h] # Nobody /\ pcloud[h].ts >= ptable[h][i].said.ts
        BY <1>6, <3>1 DEF LateOK
      <4>2. c # Nobody /\ c.ts >= pcloud[h].ts
        BY <1>9, <4>1
      <4>3. c.ts \in Nat /\ pcloud[h].ts \in Nat /\ ptable[h][i].said.ts \in Nat
        <5>1. c \in Said /\ pcloud[h] \in Said
          BY <1>1, <4>1, <4>2, HubTypes
        <5>2. ptable[h][i].said \in Said
          BY <1>1, HubTypes DEF Row
        <5> QED
          BY <5>1, <5>2, SomebodySaid
      <4> QED
        BY <4>1, <4>2, <4>3
    <3>2. CASE ptable[h][i].id \notin psynced[h]
      <4>1. PICK r \in V : r.id = ptable[h][i].id
        BY <1>13, <2>1, <3>2 DEF Ids
      <4>2. PICK j \in 1 .. Len(ptable[h]) : ptable[h][j] = r
        BY <1>2, <1>3, <1>6 DEF BatchOK, RowsOf
      <4>3. j = i
        BY <1>6, <4>1, <4>2 DEF NumbersOK
      <4>4. ptable[h][i] \in F
        BY <1>3, <3>2, <4>2, <4>3
      <4> QED
        BY <1>9, <4>4
    <3> QED
      BY <3>1, <3>2
  <2>2. psynced[h] \subseteq psynced'[h]
    BY <1>13
  <2> QED
    BY <1>5, <1>6, <1>12, <2>1, <2>2 DEF LateOK
<1> QED
  <2>1. /\ pkey' \in [PHubs -> [val : Said \cup {Nobody}, until : Nat]]
        /\ plast' \in [PHubs -> Said \cup {Nobody}]
        /\ pcursor' \in [PHubs -> Nat]
    BY <1>1, <1>5 DEF PresenceTypeOK
  <2> QED
    BY <1>5, <1>12, <1>13, <1>14, <1>16, <1>17, <1>18, <1>19, <1>20, <1>21, <2>1, EngineStep

(* The cursor moves to the end of the batch: what it passes was accepted,  *)
(* rejected or came too late.                                              *)
LEMMA PushDoneKeeps ==
    ASSUME PresenceInv, NEW h \in PHubs, PPushDone(h)
    PROVE  PresenceInv'
<1>1. PresenceTypeOK /\ HubOK(h) /\ peng[h].pc = "pushed"
  BY DEF PresenceInv, PPushDone
<1>2. PICK R \in SUBSET Row : R = peng[h].rows
  BY <1>1, HubTypes DEF PEngine
<1>3. /\ syncing /\ pkey' = pkey /\ plast' = plast /\ pcloud' = pcloud /\ psynced' = psynced
      /\ ptable' = ptable /\ pnow' = pnow /\ pleft' = pleft
      /\ pcursor' = [pcursor EXCEPT ![h] = MaxId(h)] /\ peng' = [peng EXCEPT ![h] = PIdle]
  BY DEF PPushDone, syncing
<1>4. BatchOK(h) /\ CursorOK(h) /\ LateOK(h) /\ NumbersOK(h)
  BY <1>1 DEF HubOK
<1>5. R # {} /\ R \subseteq RowsOf(ptable[h]) /\ Ids(Valid(R)) \subseteq psynced[h]
  BY <1>1, <1>2, <1>4 DEF BatchOK
<1>6. PICK m \in Ids(R) : m = MaxId(h) /\ \A j \in Ids(R) : j <= m
  <2>1. pserial[h] \in Nat /\ \A i \in 1 .. Len(ptable[h]) : ptable[h][i].id \in 1 .. pserial[h]
    BY <1>1, <1>4, HubTypes DEF NumbersOK
  <2>2. \A x \in 1 .. pserial[h] : x \in Nat /\ x <= pserial[h]
    BY <2>1
  <2>3. Ids(R) \in SUBSET Nat /\ Ids(R) # {} /\ \A x \in Ids(R) : x <= pserial[h]
    BY <1>5, <2>1, <2>2 DEF Ids, RowsOf
  <2>4. \E x \in Ids(R) : \A y \in Ids(R) : y <= x
    BY <2>1, <2>3, GreatestRow
  <2>5. MaxId(h) = CHOOSE i \in Ids(R) : \A j \in Ids(R) : j <= i
    BY <1>2 DEF MaxId
  <2> QED
    BY <2>4, <2>5
<1>7. PICK r \in R : r.id = m
  BY <1>6 DEF Ids
<1>8. m \in Nat
  BY <1>7 DEF Row
<1>9. pcursor \in [PHubs -> Nat]
  BY <1>1 DEF PresenceTypeOK
<1>10. /\ pcursor' \in [PHubs -> Nat] /\ pcursor'[h] = m
       /\ \A g \in PHubs : g # h => pcursor'[g] = pcursor[g]
  BY <1>3, <1>6, <1>8, <1>9
<1>11. peng'[h] = PIdle
  BY <1>1, <1>3, HubTypes
<1>12. KeyOK(h)'
  BY <1>1, <1>3, PartsKept
<1>13. MergeOK(h)'
  <2>1. PIdle.now <= pnow
    BY <1>1, RestIsPast
  <2> QED
    BY <1>3, <1>11, <2>1, AtRest DEF MergeOK
<1>14. BatchOK(h)'
  BY <1>11, AtRest, NoBatch
<1>15. CursorOK(h)'
  <2>1. m \in Ids(RowsOf(ptable[h]))
    BY <1>5, <1>7 DEF Ids
  <2> QED
    BY <1>3, <1>4, <1>10, <2>1 DEF CursorOK, Ids, RowsOf
<1>16. LateOK(h)'
  <2>1. ASSUME NEW i \in 1 .. Len(ptable[h]), ptable[h][i].id <= m
        PROVE  \/ ptable[h][i].id \in psynced[h] \/ PRejects(ptable[h][i].said)
               \/ \E j \in 1 .. i - 1 : ptable[h][j].id > ptable[h][i].id
    <3>1. CASE ptable[h][i].id <= pcursor[h]
      BY <1>4, <3>1 DEF LateOK
    <3>2. CASE pcursor[h] < ptable[h][i].id
      <4>1. ptable[h][i] \in R \/ \E j \in 1 .. i - 1 : ptable[h][j] = r
        BY <1>1, <1>2, <1>4, <1>7, <2>1, <3>2 DEF BatchOK
      <4>2. CASE ptable[h][i] \in R
        BY <1>5, <4>2 DEF Ids, Valid
      <4>3. CASE \E j \in 1 .. i - 1 : ptable[h][j] = r
        <5>1. PICK j \in 1 .. i - 1 : ptable[h][j] = r
          BY <4>3
        <5>2. Len(ptable[h]) \in Nat
          BY <1>1, HubTypes
        <5>3. j \in 1 .. Len(ptable[h]) /\ j # i
          BY <5>2
        <5>4. ptable[h][j].id # ptable[h][i].id
          BY <1>4, <5>3 DEF NumbersOK
        <5>5. ptable[h][i].id \in Nat /\ ptable[h][j].id = m
          BY <1>1, <1>7, <5>1, HubTypes
        <5>6. ptable[h][j].id > ptable[h][i].id
          BY <1>8, <2>1, <5>4, <5>5
        <5> QED
          BY <5>1, <5>6
      <4> QED
        BY <4>1, <4>2, <4>3
    <3>3. pcursor[h] \in Nat /\ ptable[h][i].id \in Nat
      BY <1>1, HubTypes
    <3> QED
      BY <3>1, <3>2, <3>3
  <2> QED
    BY <1>3, <1>4, <1>10, <2>1 DEF LateOK
<1> QED
  <2>1. /\ pkey' \in [PHubs -> [val : Said \cup {Nobody}, until : Nat]]
        /\ plast' \in [PHubs -> Said \cup {Nobody}] /\ psynced' \in [PHubs -> SUBSET Nat]
        /\ pcloud' \in [PHubs -> Said \cup {Nobody}] /\ pleft' \in [PHubs -> [PBounded -> Nat]]
    BY <1>1, <1>3 DEF PresenceTypeOK
  <2> QED
    BY <1>3, <1>10, <1>12, <1>13, <1>14, <1>15, <1>16, <2>1, AtRest, EngineStep

(* An engine that is not pushing touches no batch, cursor or row.          *)
LEMMA PullStep ==
    ASSUME PresenceInv, NEW h \in PHubs, syncing,
           NEW e \in PEngine, peng' = [peng EXCEPT ![h] = e],
           e.pc \in {"idle", "get", "cas"}, e.rows \subseteq peng[h].rows, e.now <= pnow,
           e.pc = "cas" => /\ e.row \in Said /\ e.row.hub # h
                           /\ e.seen = Nobody \/ e.seen.ts < e.row.ts,
           pkey' \in [PHubs -> [val : Said \cup {Nobody}, until : Nat]],
           plast' \in [PHubs -> Said \cup {Nobody}],
           \A g \in PHubs : g # h => pkey'[g] = pkey[g] /\ plast'[g] = plast[g],
           UNCHANGED <<pcursor, pcloud, psynced>>,
           pleft' \in [PHubs -> [PBounded -> Nat]],
           KeyOK(h)'
    PROVE  PresenceInv'
<1>1. PresenceTypeOK /\ HubOK(h)
  BY DEF PresenceInv
<1>2. peng'[h] = e
  BY <1>1, HubTypes
<1>3. pnow' = pnow /\ ptable' = ptable
  BY DEF syncing
<1>4. MergeOK(h)'
  BY <1>2, <1>3 DEF MergeOK
<1>5. BatchOK(h)'
  <2>1. peng'[h].rows \subseteq RowsOf(ptable[h])'
    BY <1>1, <1>2, <1>3 DEF HubOK, BatchOK, RowsOf
  <2> QED
    BY <1>2, <2>1 DEF BatchOK
<1>6. CursorOK(h)' /\ LateOK(h)'
  BY <1>1, <1>3, PartsKept
<1>7. /\ pcursor' \in [PHubs -> Nat] /\ psynced' \in [PHubs -> SUBSET Nat]
      /\ pcloud' \in [PHubs -> Said \cup {Nobody}]
  BY <1>1 DEF PresenceTypeOK
<1> QED
  BY <1>4, <1>5, <1>6, <1>7, EngineStep

(* listPresence: the rows to look at.                                      *)
LEMMA PullKeeps ==
    ASSUME PresenceInv, NEW h \in PHubs, PPull(h)
    PROVE  PresenceInv'
<1>1. PresenceTypeOK /\ HubOK(h)
  BY DEF PresenceInv
<1>2. PICK T \in SUBSET Said :
          peng' = [peng EXCEPT ![h] = [PIdle EXCEPT !.pc = "get", !.todo = T]]
  <2> DEFINE T == {pcloud[g] : g \in {x \in PHubs : LiveSaid(pcloud[x])}}
  <2>1. T \in SUBSET Said
    BY <1>1 DEF PresenceTypeOK, LiveSaid
  <2>2. peng' = [peng EXCEPT ![h] = [PIdle EXCEPT !.pc = "get", !.todo = T]]
    BY DEF PPull
  <2> QED
    BY <2>1, <2>2
<1>3. PICK e \in PEngine : /\ peng' = [peng EXCEPT ![h] = e]
                           /\ e.pc = "get" /\ e.rows = {} /\ e.now = 0
  BY <1>2, AtRest
<1>4. /\ syncing /\ pkey' = pkey /\ plast' = plast /\ pcursor' = pcursor /\ pcloud' = pcloud
      /\ psynced' = psynced /\ pnow' = pnow
  BY DEF PPull, syncing
<1>5. pleft' \in [PHubs -> [PBounded -> Nat]]
  BY <1>1, PSpendTypes DEF PPull, PBounded
<1>6. KeyOK(h)'
  BY <1>1, <1>4, PartsKept
<1>7. e.now <= pnow
  <2>1. pnow \in Nat
    BY <1>1, ClockTypes
  <2> QED
    BY <1>3, <2>1
<1>8. /\ pkey' \in [PHubs -> [val : Said \cup {Nobody}, until : Nat]]
      /\ plast' \in [PHubs -> Said \cup {Nobody}]
  BY <1>1, <1>4 DEF PresenceTypeOK
<1> QED
  BY <1>3, <1>4, <1>5, <1>6, <1>7, <1>8, PullStep

(* What the engine goes on with after a row.                               *)
LEMMA RestTypes ==
    ASSUME PresenceTypeOK, NEW h \in PHubs, NEW s
    PROVE  /\ Rest(h, s) \in PEngine /\ Rest(h, s).pc \in {"idle", "get"}
           /\ Rest(h, s).rows = {} /\ Rest(h, s).now <= pnow
<1>1. peng[h].todo \ {s} \in SUBSET Said
  BY HubTypes DEF PEngine
<1>2. PIdle.now <= pnow
  BY RestIsPast
<1>3. CASE peng[h].todo = {s}
  BY <1>2, <1>3, AtRest DEF Rest
<1>4. CASE peng[h].todo # {s}
  <2>1. PICK T \in SUBSET Said : T = peng[h].todo \ {s}
    BY <1>1
  <2>2. Rest(h, s) = [PIdle EXCEPT !.pc = "get", !.todo = T]
    BY <1>4, <2>1 DEF Rest
  <2>3. /\ Rest(h, s) \in PEngine /\ Rest(h, s).pc = "get"
        /\ Rest(h, s).rows = {} /\ Rest(h, s).now = 0
    BY <2>2, AtRest
  <2>4. pnow \in Nat
    BY ClockTypes
  <2> QED
    BY <2>3, <2>4
<1> QED
  BY <1>3, <1>4

(* GET and compare: only a newer row of another hub goes on to the SET.    *)
LEMMA ApplyGetKeeps ==
    ASSUME PresenceInv, NEW h \in PHubs, NEW s \in peng[h].todo, PApplyGet(h, s)
    PROVE  PresenceInv'
<1> DEFINE now == IF peng[h].try = 0 THEN pnow ELSE peng[h].now
           new == [peng[h] EXCEPT !.pc = "cas", !.now = now, !.seen = PGet(h), !.row = s]
<1>1. PresenceTypeOK /\ HubOK(h)
  BY DEF PresenceInv
<1>2. peng[h] \in PEngine /\ s \in Said
  BY <1>1, HubTypes DEF PEngine
<1>3. now \in 0 .. PMaxClock /\ now <= pnow
  <2>1. peng[h].now \in 0 .. PMaxClock /\ peng[h].now <= pnow
    BY <1>1, <1>2 DEF HubOK, MergeOK, PEngine
  <2>2. pnow \in 0 .. PMaxClock /\ pnow <= pnow
    BY <1>1, ClockTypes
  <2> QED
    BY <2>1, <2>2
<1>4. PGet(h) \in Said \cup {Nobody}
  BY <1>1 DEF PGet, PresenceTypeOK
<1>5. new \in PEngine
  <2> HIDE DEF now
  <2> QED
    BY <1>2, <1>3, <1>4 DEF PEngine
<1>6. new.pc = "cas" /\ new.rows = peng[h].rows /\ new.now = now /\ new.row = s /\ new.seen = PGet(h)
  <2> HIDE DEF now
  <2> QED
    BY <1>2 DEF PEngine
<1>7. peng' = [peng EXCEPT ![h] = IF Accepts(h, s, PGet(h), now) THEN new ELSE Rest(h, s)]
  BY DEF PApplyGet
<1>8. PICK e \in PEngine :
          /\ peng' = [peng EXCEPT ![h] = e]
          /\ e.pc \in {"idle", "get", "cas"} /\ e.rows \subseteq peng[h].rows /\ e.now <= pnow
          /\ e.pc = "cas" => /\ e.row \in Said /\ e.row.hub # h
                             /\ e.seen = Nobody \/ e.seen.ts < e.row.ts
  <2>1. CASE Accepts(h, s, PGet(h), now)
    <3>1. s.hub # h /\ (PGet(h) = Nobody \/ PGet(h).ts < s.ts)
      BY <2>1 DEF Accepts, IsEcho
    <3>2. peng' = [peng EXCEPT ![h] = new]
      BY <1>7, <2>1
    <3> HIDE DEF new, now
    <3> QED
      BY <1>2, <1>3, <1>5, <1>6, <3>1, <3>2
  <2>2. CASE ~Accepts(h, s, PGet(h), now)
    <3>1. peng' = [peng EXCEPT ![h] = Rest(h, s)]
      BY <1>7, <2>2
    <3> QED
      BY <1>1, <3>1, RestTypes
  <2> QED
    BY <2>1, <2>2
<1>9. /\ syncing /\ pkey' = pkey /\ plast' = plast /\ UNCHANGED <<pcursor, pcloud, psynced>>
      /\ pleft' = pleft /\ pnow' = pnow
  BY DEF PApplyGet, syncing
<1>10. KeyOK(h)'
  BY <1>1, <1>9, PartsKept
<1>11. /\ pkey' \in [PHubs -> [val : Said \cup {Nobody}, until : Nat]]
       /\ plast' \in [PHubs -> Said \cup {Nobody}] /\ pleft' \in [PHubs -> [PBounded -> Nat]]
  BY <1>1, <1>9 DEF PresenceTypeOK
<1> QED
  BY <1>8, <1>9, <1>10, <1>11, PullStep

(* PRESENCE_CAS_SCRIPT: the row is set only over what was compared.        *)
LEMMA ApplyCasKeeps ==
    ASSUME PresenceInv, NEW h \in PHubs, PApplyCas(h)
    PROVE  PresenceInv'
<1>1. PresenceTypeOK /\ HubOK(h) /\ peng[h].pc = "cas"
  BY DEF PresenceInv, PApplyCas
<1>2. peng[h] \in PEngine /\ peng \in [PHubs -> PEngine]
  BY <1>1, HubTypes
<1>3. KeyOK(h) /\ MergeOK(h)
  BY <1>1 DEF HubOK
<1>4. PICK v \in Said : v = peng[h].row
  BY <1>1, <1>3 DEF MergeOK
<1>5. v.hub # h /\ (peng[h].seen = Nobody \/ peng[h].seen.ts < v.ts)
  BY <1>1, <1>3, <1>4 DEF MergeOK
<1>6. /\ syncing /\ UNCHANGED <<pcursor, pcloud, psynced>> /\ pleft' = pleft /\ pnow' = pnow
  BY DEF PApplyCas, syncing
<1>7. /\ pkey \in [PHubs -> [val : Said \cup {Nobody}, until : Nat]]
      /\ plast \in [PHubs -> Said \cup {Nobody}] /\ pleft' \in [PHubs -> [PBounded -> Nat]]
  BY <1>1, <1>6 DEF PresenceTypeOK
<1>8. CASE /\ Unchanged(h)
           /\ pkey' = [pkey EXCEPT ![h] = [val |-> v, until |-> pnow + Expiry(v) - peng[h].now]]
           /\ plast' = [plast EXCEPT ![h] = IF PGet(h) = Nobody THEN Nobody ELSE @]
           /\ peng' = [peng EXCEPT ![h] = Rest(h, v)]
  <2>1. PICK e \in PEngine : e = Rest(h, v) /\ e.pc \in {"idle", "get"} /\ e.rows = {} /\ e.now <= pnow
    BY <1>1, RestTypes
  <2>2. PICK k \in Nat : k = peng[h].now /\ k <= pnow
    <3>1. peng[h].now \in 0 .. PMaxClock
      BY <1>2 DEF PEngine
    <3>2. peng[h].now \in Nat
      BY <3>1, PresenceConstants
    <3> QED
      BY <1>3, <3>2 DEF MergeOK
  <2>3. PICK x \in Nat : x = v.ts + v.ttl /\ x = Expiry(v)
    <3>1. v.ts \in Nat /\ v.ttl \in Nat
      BY SomebodySaid
    <3> QED
      BY <3>1 DEF Expiry
  <2>4. PICK t \in Nat : t = pnow
    BY <1>1, ClockTypes
  <2>5. PICK u \in Nat : u = t + x - k /\ u >= x
    BY <2>2, <2>4
  <2>6. pkey' = [pkey EXCEPT ![h] = [val |-> v, until |-> u]]
    BY <1>8, <2>2, <2>3, <2>4, <2>5
  <2>7. pkey'[h] = [val |-> v, until |-> u] /\ \A g \in PHubs : g # h => pkey'[g] = pkey[g]
    BY <1>7, <2>6
  <2>8. /\ plast' \in [PHubs -> Said \cup {Nobody}]
        /\ plast'[h] = IF PGet(h) = Nobody THEN Nobody ELSE plast[h]
        /\ \A g \in PHubs : g # h => plast'[g] = plast[g]
    BY <1>7, <1>8
  <2>9. LiveSaid(plast[h])' => v.ts > plast'[h].ts
    <3>1. SUFFICES ASSUME plast'[h] # Nobody, Expiry(plast'[h]) > pnow PROVE v.ts > plast'[h].ts
      BY <1>6 DEF LiveSaid, Expiry
    <3>2. PGet(h) # Nobody /\ plast'[h] = plast[h]
      BY <2>8, <3>1
    <3>3. LiveSaid(plast[h])
      BY <3>1, <3>2 DEF LiveSaid
    <3>4. PGet(h) = pkey[h].val /\ peng[h].seen = pkey[h].val
      BY <1>8, <3>2 DEF PGet, Unchanged
    <3>5. pkey[h].val = plast[h] \/ pkey[h].val.ts > plast[h].ts
      BY <1>3, <3>3 DEF KeyOK
    <3>6. pkey[h].val.ts < v.ts
      BY <1>5, <3>2, <3>4
    <3>7. pkey[h].val \in Said /\ plast[h] \in Said
      BY <1>7, <3>1, <3>2, <3>4
    <3>8. pkey[h].val.ts \in Nat /\ plast[h].ts \in Nat /\ v.ts \in Nat
      BY <3>7, SomebodySaid
    <3> QED
      BY <3>2, <3>5, <3>6, <3>8
  <2>10. KeyOK(h)' /\ pkey'[h] \in [val : Said \cup {Nobody}, until : Nat]
    <3>1. u >= v.ts + v.ttl
      BY <2>3, <2>5
    <3> QED
      BY <1>5, <2>7, <2>9, <3>1, KeyFilled
  <2>11. pkey' \in [PHubs -> [val : Said \cup {Nobody}, until : Nat]]
    BY <1>7, <2>6, <2>7, <2>10
  <2>12. peng' = [peng EXCEPT ![h] = e]
    BY <1>8, <2>1
  <2> QED
    BY <1>6, <1>7, <2>1, <2>7, <2>8, <2>10, <2>11, <2>12, PullStep
<1>9. CASE /\ ~Unchanged(h) /\ UNCHANGED <<pkey, plast>>
           /\ peng' = [peng EXCEPT ![h] = IF peng[h].try + 1 < PMaxAttempts
                                          THEN [peng[h] EXCEPT !.pc = "get", !.try = @ + 1]
                                          ELSE PIdle]
  <2>1. PICK e \in PEngine : /\ peng' = [peng EXCEPT ![h] = e]
                             /\ e.pc \in {"idle", "get"} /\ e.rows \subseteq peng[h].rows /\ e.now <= pnow
    <3>1. CASE peng[h].try + 1 < PMaxAttempts
      <4> DEFINE e == [peng[h] EXCEPT !.pc = "get", !.try = @ + 1]
      <4>1. peng[h].try + 1 \in 0 .. PMaxAttempts
        <5>1. peng[h].try \in 0 .. PMaxAttempts
          BY <1>2 DEF PEngine
        <5> QED
          BY <3>1, <5>1, PresenceConstants
      <4>2. e \in PEngine /\ e.pc = "get" /\ e.rows = peng[h].rows /\ e.now = peng[h].now
        BY <1>2, <4>1 DEF PEngine
      <4>3. e.now <= pnow
        BY <1>3, <4>2 DEF MergeOK
      <4>4. peng' = [peng EXCEPT ![h] = e]
        BY <1>9, <3>1
      <4> QED
        BY <4>2, <4>3, <4>4
    <3>2. CASE ~(peng[h].try + 1 < PMaxAttempts)
      <4>1. peng' = [peng EXCEPT ![h] = PIdle]
        BY <1>9, <3>2
      <4>2. PIdle.now <= pnow
        BY <1>1, RestIsPast
      <4> QED
        BY <4>1, <4>2, AtRest
    <3> QED
      BY <3>1, <3>2
  <2>2. KeyOK(h)'
    BY <1>1, <1>6, <1>9, PartsKept
  <2>3. /\ pkey' \in [PHubs -> [val : Said \cup {Nobody}, until : Nat]]
        /\ plast' \in [PHubs -> Said \cup {Nobody}]
        /\ \A g \in PHubs : g # h => pkey'[g] = pkey[g] /\ plast'[g] = plast[g]
    BY <1>7, <1>9
  <2> QED
    BY <1>6, <1>7, <2>1, <2>2, <2>3, PullStep
<1> QED
  BY <1>4, <1>8, <1>9 DEF PApplyCas

(* As time passes a live announcement may cease to be live.                *)
LEMMA PTickKeeps ==
    ASSUME PresenceInv, PTick
    PROVE  PresenceInv'
<1>1. PresenceTypeOK
  BY DEF PresenceInv
<1>2. pnow \in Nat /\ pnow' = pnow + 1 /\ pnow' \in 0 .. PMaxClock
  <2>1. pnow < PMaxClock /\ pnow' = pnow + 1
    BY DEF PTick
  <2> QED
    BY <1>1, <2>1, ClockTypes, PresenceConstants
<1>3. /\ psaid' = psaid /\ pproc' = pproc /\ pkey' = pkey /\ plast' = plast /\ ptable' = ptable
      /\ pserial' = pserial /\ pcursor' = pcursor /\ peng' = peng /\ pcloud' = pcloud
      /\ psynced' = psynced /\ pleft' = pleft
  BY DEF PTick
<1>4. PresenceTypeOK'
  BY <1>1, <1>2, <1>3 DEF PresenceTypeOK
<1>5. ASSUME NEW h \in PHubs PROVE HubOK(h)'
  <2>1. HubOK(h)
    BY DEF PresenceInv
  <2>2. Stamped(h)'
    <3>1. ASSUME NEW p \in PProcs, pproc[h, p].pc # "idle"
          PROVE  /\ pproc[h, p].said \in Said /\ pproc[h, p].said.hub = h
                 /\ pproc[h, p].said.ts <= pnow + 1
      <4>1. PICK v \in Said : v = pproc[h, p].said /\ v.hub = h /\ v.ts <= pnow
        BY <2>1, <3>1 DEF HubOK, Stamped
      <4>2. v.ts \in Nat
        BY SomebodySaid
      <4>3. v.ts <= pnow + 1
        <5>1. PICK a \in Nat : a = v.ts /\ a <= pnow
          BY <4>1, <4>2
        <5>2. a <= pnow + 1
          BY <1>2, <5>1
        <5> QED
          BY <5>1, <5>2
      <4> QED
        BY <4>1, <4>3
    <3> QED
      BY <1>2, <1>3, <3>1 DEF Stamped
  <2>3. KeyOK(h)'
    <3>1. LiveSaid(plast[h])' => LiveSaid(plast[h])
      <4>1. SUFFICES ASSUME plast[h] # Nobody, Expiry(plast[h]) > pnow + 1
                     PROVE  Expiry(plast[h]) > pnow
        BY <1>2, <1>3 DEF LiveSaid, Expiry
      <4>2. plast[h] \in Said
        BY <1>1, <4>1 DEF PresenceTypeOK
      <4>3. Expiry(plast[h]) \in Nat
        BY <4>2, SomebodySaid
      <4> QED
        BY <1>2, <4>1, <4>3
    <3> QED
      BY <1>3, <2>1, <3>1 DEF HubOK, KeyOK, Expiry
  <2>4. MergeOK(h)'
    <3>1. PICK k \in Nat : k = peng[h].now
      <4>1. peng[h].now \in 0 .. PMaxClock
        BY <1>1, HubTypes DEF PEngine
      <4> QED
        BY <4>1, PresenceConstants
    <3>2. k <= pnow
      BY <2>1, <3>1 DEF HubOK, MergeOK
    <3>3. k <= pnow + 1
      BY <1>2, <3>2
    <3> QED
      BY <1>2, <1>3, <2>1, <3>1, <3>3 DEF HubOK, MergeOK
  <2>5. NumbersOK(h)' /\ BatchOK(h)' /\ CursorOK(h)' /\ LateOK(h)'
    <3>1. NumbersOK(h)'
      BY <1>3, <2>1 DEF HubOK, NumbersOK
    <3>2. BatchOK(h)'
      BY <1>3, <2>1 DEF HubOK, BatchOK, Ids, RowsOf
    <3>3. CursorOK(h)'
      BY <1>3, <2>1 DEF HubOK, CursorOK, Ids, RowsOf
    <3>4. LateOK(h)'
      BY <1>3, <2>1 DEF HubOK, LateOK
    <3> QED
      BY <3>1, <3>2, <3>3, <3>4
  <2> QED
    BY <2>2, <2>3, <2>4, <2>5 DEF HubOK
<1> QED
  BY <1>4, <1>5 DEF PresenceInv

(* One step per action.                                                    *)
LEMMA PresenceStep == PresenceInv /\ [PresenceNext]_presenceVars => PresenceInv'
<1> SUFFICES ASSUME PresenceInv, [PresenceNext]_presenceVars PROVE PresenceInv'
  OBVIOUS
<1>1. ASSUME NEW h \in PHubs, NEW p \in PProcs, NEW ttl \in PTtls, PAnnounce(h, p, ttl)
      PROVE  PresenceInv'
  BY <1>1, AnnounceKeeps
<1>2. ASSUME NEW h \in PHubs, NEW p \in PProcs, PSet(h, p) PROVE PresenceInv'
  BY <1>2, SetKeeps
<1>3. ASSUME NEW h \in PHubs, NEW p \in PProcs, PInsert(h, p) PROVE PresenceInv'
  BY <1>3, InsertKeeps
<1>4. ASSUME NEW h \in PHubs, NEW p \in PProcs, PCommit(h, p) PROVE PresenceInv'
  BY <1>4, CommitKeeps
<1>5. ASSUME NEW h \in PHubs, PPushRead(h) PROVE PresenceInv'
  BY <1>5, PushReadKeeps
<1>6. ASSUME NEW h \in PHubs, PPushSend(h) PROVE PresenceInv'
  BY <1>6, PushSendKeeps
<1>7. ASSUME NEW h \in PHubs, PPushDone(h) PROVE PresenceInv'
  BY <1>7, PushDoneKeeps
<1>8. ASSUME NEW h \in PHubs, PPull(h) PROVE PresenceInv'
  BY <1>8, PullKeeps
<1>9. ASSUME NEW h \in PHubs, NEW s \in peng[h].todo, PApplyGet(h, s) PROVE PresenceInv'
  BY <1>9, ApplyGetKeeps
<1>10. ASSUME NEW h \in PHubs, PApplyCas(h) PROVE PresenceInv'
  BY <1>10, ApplyCasKeeps
<1>11. ASSUME PTick PROVE PresenceInv'
  BY <1>11, PTickKeeps
<1>12. ASSUME UNCHANGED presenceVars PROVE PresenceInv'
  <2>1. /\ pnow' = pnow /\ psaid' = psaid /\ pproc' = pproc /\ pkey' = pkey /\ plast' = plast
        /\ ptable' = ptable /\ pserial' = pserial /\ pcursor' = pcursor /\ peng' = peng
        /\ pcloud' = pcloud /\ psynced' = psynced /\ pleft' = pleft
    BY <1>12 DEF presenceVars
  <2>2. PresenceTypeOK'
    BY <2>1 DEF PresenceInv, PresenceTypeOK
  <2>3. \A g \in PHubs : HubOK(g)'
    BY <2>1, HubKept DEF PresenceInv
  <2> QED
    BY <2>2, <2>3 DEF PresenceInv
<1> QED
  BY <1>1, <1>2, <1>3, <1>4, <1>5, <1>6, <1>7, <1>8, <1>9, <1>10, <1>11, <1>12 DEF PresenceNext

(* On any number of hubs, with any lifetimes, batches and attempts, and    *)
(* whatever announcements, pushes and merges are interleaved: an own       *)
(* announcement in the key is the last one, and a live one is hidden only  *)
(* by a newer pulled row (apply_synced_presence_with_cas).                 *)
THEOREM NothingOlderComesBack == PresenceSpec => []PulledIsNewer
<1>1. PresenceInit => PresenceInv
  BY PresenceStart
<1>2. PresenceInv /\ [PresenceNext]_presenceVars => PresenceInv'
  BY PresenceStep
<1>3. PresenceInv => PulledIsNewer
  BY PresenceSound
<1> QED
  BY <1>1, <1>2, <1>3, PTL DEF PresenceSpec

(* What the push cursor has passed was accepted by the cloud, is a row the *)
(* Worker rejects or was committed late, whichever rows the Worker rejects *)
(* and whatever batch they are in, and the cloud's row of a hub is as new  *)
(* as each accepted one (push_presence, syncPushPresence).                 *)
THEOREM OnlyRejectedOrLateRowsAreLost == PresenceSpec => []PushedRejectedOrLate
<1>1. PresenceInit => PresenceInv
  BY PresenceStart
<1>2. PresenceInv /\ [PresenceNext]_presenceVars => PresenceInv'
  BY PresenceStep
<1>3. PresenceInv => PushedRejectedOrLate
  BY PresenceSound
<1> QED
  BY <1>1, <1>2, <1>3, PTL DEF PresenceSpec
=============================================================================
