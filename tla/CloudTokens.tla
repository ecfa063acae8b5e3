----------------------------- MODULE CloudTokens -----------------------------
(***************************************************************************)
(* The operator tool for the credentials of the cloud Worker               *)
(* (cloud_tokens.rs).  A token is live when the deployed secret holds it.  *)
(* The tool keeps the same map of tokens in a local file, in a recovery    *)
(* item (Bitwarden) and in the secret, each replaced as a whole and none   *)
(* together with another; the client of this host uses one token of the    *)
(* map.  A process may stop, or a call may fail, between any two steps.    *)
(*                                                                         *)
(* A token is its identity and a number, a map is a set of tokens; a       *)
(* missing file or item is {} or NoToken.  One machine runs the tool: the  *)
(* lock beside the local map excludes its processes from each other.       *)
(***************************************************************************)
EXTENDS Integers, FiniteSets

CONSTANTS
    TProcs,      \* processes of the tool
    TIdents,     \* the roster of the manifest
    TRoleOf,     \* the role of an identity
    TSelected,   \* the identity of the client of this host
    TMaxTokens,  \* bound: tokens of an identity
    TStarts      \* what each store holds at first, and the bound: how often
                 \* each of TBounded happens

TTokens == TIdents \X (1 .. TMaxTokens)
TMaps == SUBSET TTokens
NoToken == <<"none", 0>>
TOps == {"mint", "rotate", "write", "activate", "upsert", "upload", "revoke"}
TBounded == TOps \cup {"evidence", "faults"}

ASSUME TokensAssumption ==
    /\ TMaxTokens \in Nat
    /\ TRoleOf \in [TIdents -> {"agent", "hub", "operator"}]
    /\ TSelected \in TIdents
    /\ \A s \in TStarts : /\ {s.map, s.vault, s.live} \subseteq TMaps
                          /\ {s.client, s.pending} \subseteq TTokens \cup {NoToken}
                          /\ s.left \in [TBounded -> Nat]

VARIABLES
    tmap,       \* the local map
    tclient,    \* the client's token file
    tpending,   \* the token staged by a rotation
    tvault,     \* the map in the recovery item
    tlive,      \* the deployed map
    tbackups,   \* the maps in the backup directory
    tmanifest,  \* the evidence and the selection in the manifest
    tproc,      \* what a process is doing
    tever,      \* history: tokens that were live
    tours,      \* history: the deployed map was uploaded by the tool
    tleft       \* what is left of the budget

tokenVars == <<tmap, tclient, tpending, tvault, tlive, tbackups, tmanifest,
               tproc, tever, tours, tleft>>

\* deployed_map_authority: a baseline and the candidate it is bound to;
\* revocation: pairs of a retired token and its replacement.
TManifests == [base : TMaps, cand : TMaps, sel : SUBSET (TTokens \X TTokens)]
TNoEvidence == [base |-> {}, cand |-> {}, sel |-> {}]
TIdle == [pc |-> "idle", op |-> "mint", man |-> TNoEvidence,
          client |-> NoToken, tok |-> NoToken]

TokensTypeOK ==
    /\ {tmap, tvault, tlive, tever} \subseteq TMaps
    /\ {tclient, tpending} \subseteq TTokens \cup {NoToken}
    /\ tbackups \subseteq TMaps
    /\ tmanifest \in TManifests
    /\ tproc \in [TProcs ->
           [pc : {"idle", "read", "lock", "backup", "store", "stage", "client",
                  "publish", "unstage", "rollback", "edit", "before", "upload",
                  "after", "local"},
            op : TOps, man : TManifests, client : TTokens \cup {NoToken},
            tok : TTokens \cup {NoToken}]]
    /\ tours \in BOOLEAN
    /\ tleft \in [TBounded -> Nat]

TokensInit ==
    /\ \E s \in TStarts :
           /\ tmap = s.map /\ tvault = s.vault /\ tlive = s.live
           /\ tclient = s.client /\ tpending = s.pending
           /\ tleft = s.left
    /\ tbackups = {}
    /\ tmanifest = TNoEvidence
    /\ tproc = [p \in TProcs |-> TIdle]
    /\ tever = tlive
    /\ tours = FALSE

TSpend(what) ==
    /\ tleft[what] > 0
    /\ tleft' = [tleft EXCEPT ![what] = @ - 1]
TGoes(p, to) == tproc' = [tproc EXCEPT ![p].pc = to]
TReturns(p) == tproc' = [tproc EXCEPT ![p] = TIdle]
TOf(i, map) == {t \in map : t[1] = i}

localSame == UNCHANGED <<tmap, tclient, tpending, tbackups>>
remoteSame == UNCHANGED <<tvault, tlive, tever, tours>>
askedSame == UNCHANGED <<tmanifest, tleft>>

-----------------------------------------------------------------------------
(* The operator writes evidence into the manifest; it is true when written *)
(* and may be stale when it is used.                                       *)

TPairs == {s \in tlive \X tlive : s[1] # s[2] /\ s[1][1] = s[2][1]}

\* A cutover receipt: the replacement authenticates, the client that used the
\* retired token does not any more.
TCutOver(s) == s[1] # tclient

TEvidence(cand, sel) ==
    /\ TSpend("evidence")
    /\ \A s \in sel : TCutOver(s)
    /\ tmanifest' = [base |-> tlive, cand |-> cand, sel |-> sel]
    /\ localSame /\ remoteSame
    /\ UNCHANGED tproc

-----------------------------------------------------------------------------
(* Starting a command.  The manifest is read once.                         *)

TBegin(p, op) ==
    /\ tproc[p].pc = "idle"
    /\ TSpend(op)
    /\ tproc' = [tproc EXCEPT ![p] =
           [TIdle EXCEPT !.op = op, !.man = tmanifest,
                         !.pc = IF op = "revoke" THEN "read" ELSE "lock"]]
    /\ localSame /\ remoteSame
    /\ UNCHANGED tmanifest

TRetired(sel) == {s[1] : s \in sel}
TReplacing(sel) == {s[2] : s \in sel}

\* revocation_candidate accepts the selection for this map and client.
TSelectable(map, client, sel) ==
    LET rest == map \ TRetired(sel)
    IN  /\ map # {} /\ sel # {} /\ client \in map
        /\ Cardinality(TRetired(sel)) = Cardinality(sel)
        /\ TRetired(sel) \cup TReplacing(sel) \subseteq map
        /\ \A s \in sel : s[1] \notin {client, s[2]} /\ s[1][1] = s[2][1]
        /\ \A r \in {"operator", "hub"} : \E t \in rest : TRoleOf[t[1]] = r
        \* A replacement is not itself retired.
        /\ TReplacing(sel) \subseteq rest

\* revoke looks at the local map, the client and the evidence before it takes
\* the lock.
TRead(p) ==
    LET m == tproc[p].man
        ok == /\ TSelectable(tmap, tclient, m.sel)
              /\ m.base = tmap
              /\ m.cand = tmap \ TRetired(m.sel)
    IN  /\ tproc[p].pc = "read"
        /\ IF ok
           THEN tproc' = [tproc EXCEPT ![p].pc = "lock", ![p].client = tclient]
           ELSE TReturns(p)
        /\ localSame /\ remoteSame /\ askedSame

-----------------------------------------------------------------------------
(* Under the lock.  Each check below reads what only a holder of the lock  *)
(* changes, so that it stands until the process returns.                   *)

THolds(q) == tproc[q].pc \notin {"idle", "read", "lock"}

\* The token that write-client puts into the client file.
TChosen ==
    LET mine == TOf(TSelected, tmap)
    IN  IF tclient \in mine THEN tclient
        ELSE IF Cardinality(mine) = 1 THEN CHOOSE t \in mine : TRUE
        ELSE NoToken

\* verify_recovery
TVerified(map) == tvault # {} /\ tvault = map

\* require_deployment_authority
TAuthority(m) == m.base # {} /\ m.cand = tmap /\ m.base \subseteq tmap

\* Mutation: what was read before the lock is not read again.
TSameAsRead_Assumed(p) == TRUE

TSameAsRead(p) ==
    tmap = tproc[p].man.base /\ tclient = tproc[p].client

\* Where a command goes once it has the lock and its checks pass.
TAdmitted(p) ==
    LET op == tproc[p].op
        m == tproc[p].man
        to(ok, pc) == IF ok THEN pc ELSE "idle"
    IN  CASE op \in {"mint", "rotate"} ->
                 IF tmap = {} THEN "store" ELSE "backup"
          [] op = "write" -> to(TChosen # NoToken, "client")
          [] op = "activate" ->
                 to(/\ tpending \in TOf(TSelected, tmap)
                    /\ TVerified(tmap)
                    /\ tpending \in tlive, "publish")
          [] op = "upsert" -> to(tmap # {} /\ tvault \subseteq tmap, "edit")
          [] op = "upload" ->
                 to(tmap # {} /\ TAuthority(m) /\ TVerified(tmap), "upload")
          [] op = "revoke" ->
                 to(TSameAsRead(p) /\ TVerified(m.base), "rollback")

\* try_lock does not wait.
TLock(p) ==
    /\ tproc[p].pc = "lock"
    /\ IF (\E q \in TProcs : THolds(q)) \/ TAdmitted(p) = "idle"
       THEN TReturns(p)
       ELSE TGoes(p, TAdmitted(p))
    /\ localSame /\ remoteSame /\ askedSame

-----------------------------------------------------------------------------
(* mint and rotate.                                                        *)

TBackup(p) ==
    /\ tproc[p].pc = "backup"
    /\ tbackups' = tbackups \cup {tmap}
    /\ TGoes(p, "store")
    /\ UNCHANGED <<tmap, tclient, tpending>>
    /\ remoteSame /\ askedSame

\* A number that the identity never had: the first one.
TFresh(i) ==
    LET free(n) == <<i, n>> \notin tmap \cup tvault \cup tever
    IN  <<i, CHOOSE n \in 1 .. TMaxTokens + 1 :
                 free(n) /\ \A m \in 1 .. n - 1 : ~free(m)>>

\* Each identity without a token gets one, and the client's one on rotate.
TStore(p) ==
    LET rotates == tproc[p].op = "rotate"
        lacking == {i \in TIdents : TOf(i, tmap) = {}}
        asked == lacking \cup (IF rotates THEN {TSelected} ELSE {})
        new == {TFresh(i) : i \in asked}
    IN  /\ tproc[p].pc = "store"
        /\ new \subseteq TTokens
        /\ tmap' = tmap \cup new
        /\ IF rotates
           THEN tproc' = [tproc EXCEPT ![p].pc = "stage",
                                       ![p].tok = TFresh(TSelected)]
           ELSE TReturns(p)
        /\ UNCHANGED <<tclient, tpending, tbackups>>
        /\ remoteSame /\ askedSame

TStage(p) ==
    /\ tproc[p].pc = "stage"
    /\ tpending' = tproc[p].tok
    /\ TReturns(p)
    /\ UNCHANGED <<tmap, tclient, tbackups>>
    /\ remoteSame /\ askedSame

-----------------------------------------------------------------------------
(* write-client and activate.                                              *)

TWriteClient(p) ==
    /\ tproc[p].pc = "client"
    /\ tclient' = TChosen
    /\ TReturns(p)
    /\ UNCHANGED <<tmap, tpending, tbackups>>
    /\ remoteSame /\ askedSame

TPublish(p) ==
    /\ tproc[p].pc = "publish"
    /\ tclient' = tpending
    /\ TGoes(p, "unstage")
    /\ UNCHANGED <<tmap, tpending, tbackups>>
    /\ remoteSame /\ askedSame

TUnstage(p) ==
    /\ tproc[p].pc = "unstage"
    /\ tpending' = NoToken
    /\ TReturns(p)
    /\ UNCHANGED <<tmap, tclient, tbackups>>
    /\ remoteSame /\ askedSame

-----------------------------------------------------------------------------
(* Recovery item and deployed secret.                                      *)

\* Mutation: the baseline is not kept before the recovery item is edited.
TRollback_Skipped(p) == tproc[p].pc = "rollback" /\ UNCHANGED tbackups

\* preserve_revocation_rollback
TRollback(p) ==
    /\ tproc[p].pc = "rollback"
    /\ tbackups' = tbackups \cup {tproc[p].man.base}

TKeepRollback(p) ==
    /\ TRollback(p)
    /\ TGoes(p, "edit")
    /\ UNCHANGED <<tmap, tclient, tpending>>
    /\ remoteSame /\ askedSame

\* bw create or edit; it is read back before the command goes on.
TEdit(p) ==
    /\ tproc[p].pc = "edit"
    /\ \/ /\ tproc[p].op = "upsert"
          /\ tvault' = tmap
          /\ TReturns(p)
       \/ /\ tproc[p].op = "revoke"
          /\ tvault' = tproc[p].man.cand
          /\ TGoes(p, "before")
    /\ localSame /\ askedSame
    /\ UNCHANGED <<tlive, tever, tours>>

\* Readback before the upload: the deployed map is the baseline.
TBefore(p) ==
    /\ tproc[p].pc = "before"
    /\ IF tlive = tproc[p].man.base /\ TSameAsRead(p)
       THEN TGoes(p, "upload") ELSE TReturns(p)
    /\ localSame /\ remoteSame /\ askedSame

\* wrangler secret put
TUpload(p) ==
    /\ tproc[p].pc = "upload"
    /\ \/ tproc[p].op = "upload" /\ tlive' = tmap /\ TReturns(p)
       \/ tproc[p].op = "revoke" /\ tlive' = tproc[p].man.cand
            /\ TGoes(p, "after")
    /\ tever' = tever \cup tlive'
    /\ tours' = TRUE
    /\ localSame /\ askedSame
    /\ UNCHANGED tvault

\* Readback after it: the deployed map is the candidate.
TAfter(p) ==
    /\ tproc[p].pc = "after"
    /\ IF tlive = tproc[p].man.cand THEN TGoes(p, "local") ELSE TReturns(p)
    /\ localSame /\ remoteSame /\ askedSame

TLocal(p) ==
    /\ tproc[p].pc = "local"
    /\ tmap' = tproc[p].man.cand
    /\ TReturns(p)
    /\ UNCHANGED <<tclient, tpending, tbackups>>
    /\ remoteSame /\ askedSame

\* The process stops, a call fails or times out, with or without the effect
\* of the step before, or the mutation lease has run out.
TFails(p) ==
    /\ tproc[p].pc # "idle"
    /\ TSpend("faults")
    /\ TReturns(p)
    /\ localSame /\ remoteSame
    /\ UNCHANGED tmanifest

-----------------------------------------------------------------------------
TokensNext ==
    \/ TEvidence(tmap, {})
    \/ \E sel \in SUBSET TPairs :
           sel # {} /\ TEvidence(tlive \ TRetired(sel), sel)
    \/ \E p \in TProcs :
         \/ \E op \in TOps : TBegin(p, op)
         \/ TRead(p) \/ TLock(p)
         \/ TBackup(p) \/ TStore(p) \/ TStage(p)
         \/ TWriteClient(p) \/ TPublish(p) \/ TUnstage(p)
         \/ TKeepRollback(p) \/ TEdit(p) \/ TBefore(p) \/ TUpload(p)
         \/ TAfter(p) \/ TLocal(p) \/ TFails(p)

TokensSpec == TokensInit /\ [][TokensNext]_tokenVars

-----------------------------------------------------------------------------
\* A client whose token the Worker has accepted keeps its access, an
\* identity that had a token has one, and a rotation publishes a live token.
NobodyLockedOut ==
    /\ tclient \in tever => tclient \in tlive
    /\ \A i \in TIdents : TOf(i, tever) # {} => TOf(i, tlive) # {}
    /\ \A p \in TProcs : tproc[p].pc = "unstage" => tclient \in tlive

\* A deployed map that the tool uploaded can be restored from one place.
DeploymentRecoverable ==
    tours => \E map \in tbackups \cup {tvault} : tlive \subseteq map

(* However minting, rotation, activation, uploads and revocations follow   *)
(* each other, on evidence that may be out of date and with any step       *)
(* failing: nobody who had access to the cloud loses it, and what is       *)
(* deployed is in the recovery item or in a backup (cmd_activate,          *)
(* require_deployment_authority, revocation_candidate, cmd_revoke;         *)
(* docs/cloud-token-operations.md, "Anti-lockout").                        *)
CloudAccessKept == NobodyLockedOut /\ DeploymentRecoverable
=============================================================================
