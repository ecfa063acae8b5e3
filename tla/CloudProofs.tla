----------------------------- MODULE CloudProofs -----------------------------
(***************************************************************************)
(* The cloud side.  The token tool, proved for every roster, every number  *)
(* of processes and tokens, every first state of the stores and every      *)
(* order of the steps: nobody loses access and what is deployed can be     *)
(* restored.  And the Worker's direct writes, for any agents, requests and *)
(* faults: each is stored once, read once and owed until acknowledged.     *)
(***************************************************************************)
EXTENDS CloudTokens, CloudStore, FiniteSetTheorems, WellFoundedInduction, TLAPS

-----------------------------------------------------------------------------
(* The token tool.                                                         *)

\* The lock: one process at a time changes the stores.
OneHolder == \A p, q \in TProcs : THolds(p) /\ THolds(q) => p = q

\* Until the tool uploads, evidence is about the map that is deployed.
EvidenceOK(m) == m.base = {} \/ m.base = tlive
FirstUpload ==
    ~tours => /\ tever = tlive /\ EvidenceOK(tmanifest)
              /\ \A p \in TProcs : EvidenceOK(tproc[p].man)

(* Who ever had access has it; after an upload, also in the local map.     *)
ClientKept == tclient \in tever => tclient \in tlive /\ (tours => tclient \in tmap)
IdentsKept ==
    \A i \in TIdents : TOf(i, tever) # {} =>
        TOf(i, tlive) # {} /\ (tours => TOf(i, tmap) # {})

\* A retired token that is still in the local map is not its only one.
RetiredNotAlone ==
    \A t \in tmap \cap tever : t \in tlive \/ \E u \in tmap : u # t /\ u[1] = t[1]

\* What a revocation has checked, and what it may rely on while it holds the lock.
RevokeRead(r) == TSelectable(r.man.base, r.client, r.man.sel)
                 /\ r.man.cand = r.man.base \ TRetired(r.man.sel)
RevokeHeld(r) ==
    /\ tmap = r.man.base /\ tclient = r.client
    /\ r.pc = "rollback" => tvault = r.man.base
    /\ r.pc = "edit" => tvault = r.man.base /\ r.man.base \in tbackups
    /\ r.pc \in {"before", "upload"} => tvault = r.man.cand
    /\ r.pc = "upload" => tlive = r.man.base
    /\ r.pc = "local" => tlive = r.man.cand

StageOK(r) ==
    /\ r.pc \in {"backup", "store", "stage"} => r.op \in {"mint", "rotate"}
    /\ r.pc = "client" => r.op = "write"
    /\ r.pc \in {"publish", "unstage"} => r.op = "activate"
    /\ r.pc \in {"rollback", "before", "after", "local"} => r.op = "revoke"
    /\ r.pc = "edit" => r.op \in {"upsert", "revoke"}
    /\ r.pc = "upload" => r.op \in {"upload", "revoke"}
    /\ r.pc = "publish" => tpending \in tmap /\ tpending \in tlive
    /\ r.pc = "unstage" => tclient \in tlive
    /\ r.pc = "edit" /\ r.op = "upsert" => tvault \subseteq tmap
    /\ r.pc = "upload" /\ r.op = "upload" => TAuthority(r.man) /\ tvault = tmap
    /\ r.op = "revoke" /\ r.pc \notin {"idle", "read"} => RevokeRead(r)
    /\ r.op = "revoke" /\ r.pc \notin {"idle", "read", "lock"} => RevokeHeld(r)

TokensInv ==
    /\ TokensTypeOK /\ OneHolder /\ FirstUpload
    /\ ClientKept /\ IdentsKept /\ RetiredNotAlone
    /\ DeploymentRecoverable
    /\ \A p \in TProcs : StageOK(tproc[p])

(* What the cutover evidence gives.                                        *)
LEMMA TokensSound == TokensInv => CloudAccessKept
  BY DEF TokensInv, CloudAccessKept, NobodyLockedOut, ClientKept, IdentsKept, StageOK

\* The fields of a process.
TProcess == [pc : {"idle", "read", "lock", "backup", "store", "stage", "client",
                   "publish", "unstage", "rollback", "edit", "before", "upload",
                   "after", "local"},
             op : TOps, man : TManifests, client : TTokens \cup {NoToken},
             tok : TTokens \cup {NoToken}]

LEMMA IdleTypes ==
    /\ TIdle \in TProcess /\ TIdle.pc = "idle" /\ TIdle.man = TNoEvidence
    /\ TNoEvidence \in TManifests /\ TNoEvidence.base = {}
<1>1. TNoEvidence \in TManifests /\ TNoEvidence.base = {}
  BY DEF TNoEvidence, TManifests, TMaps
<1> QED
  BY <1>1 DEF TIdle, TProcess, TOps

(* No token has the number 0.                                              *)
LEMMA NoTokenIsNone == NoToken \notin TTokens /\ \A t \in TTokens : t[1] \in TIdents
  BY TokensAssumption DEF NoToken, TTokens

LEMMA TokenTypes ==
    ASSUME TokensTypeOK
    PROVE  /\ tmap \in SUBSET TTokens /\ tvault \in SUBSET TTokens /\ tlive \in SUBSET TTokens
           /\ tever \in SUBSET TTokens /\ tclient \in TTokens \cup {NoToken}
           /\ tpending \in TTokens \cup {NoToken} /\ tbackups \in SUBSET TMaps
           /\ tmanifest \in TManifests /\ tproc \in [TProcs -> TProcess]
           /\ tours \in BOOLEAN /\ tleft \in [TBounded -> Nat]
<1>1. tproc \in [TProcs -> TProcess]
  BY DEF TokensTypeOK, TProcess
<1> QED
  BY <1>1 DEF TokensTypeOK, TMaps

(* It holds at the start.                                                  *)
LEMMA TokensStart == TokensInit => TokensInv
<1> SUFFICES ASSUME TokensInit PROVE TokensInv
  OBVIOUS
<1>1. PICK s \in TStarts : /\ tmap = s.map /\ tvault = s.vault /\ tlive = s.live
                           /\ tclient = s.client /\ tpending = s.pending /\ tleft = s.left
  BY DEF TokensInit
<1>2. /\ {s.map, s.vault, s.live} \subseteq TMaps
      /\ {s.client, s.pending} \subseteq TTokens \cup {NoToken} /\ s.left \in [TBounded -> Nat]
  BY TokensAssumption
<1>3. /\ tbackups = {} /\ tmanifest = TNoEvidence /\ tproc = [p \in TProcs |-> TIdle]
      /\ tever = tlive /\ tours = FALSE
  BY DEF TokensInit
<1>4. \A p \in TProcs : tproc[p] = TIdle
  BY <1>3
<1>5. TokensTypeOK
  <2>1. tproc \in [TProcs -> TProcess]
    BY <1>3, IdleTypes
  <2> QED
    BY <1>1, <1>2, <1>3, <2>1, IdleTypes DEF TokensTypeOK, TProcess
<1>6. OneHolder
  BY <1>4, IdleTypes DEF OneHolder, THolds
<1>7. FirstUpload
  BY <1>3, <1>4, IdleTypes DEF FirstUpload, EvidenceOK
<1>8. ClientKept /\ IdentsKept /\ RetiredNotAlone /\ DeploymentRecoverable
  BY <1>3 DEF ClientKept, IdentsKept, RetiredNotAlone, DeploymentRecoverable
<1>9. \A p \in TProcs : StageOK(tproc[p])
  BY <1>4, IdleTypes DEF StageOK
<1> QED
  BY <1>5, <1>6, <1>7, <1>8, <1>9 DEF TokensInv

LEMMA TSpendTypes ==
    ASSUME TokensTypeOK, NEW w \in TBounded, TSpend(w)
    PROVE  tleft' \in [TBounded -> Nat]
<1>1. tleft \in [TBounded -> Nat] /\ tleft[w] - 1 \in Nat
  BY TokenTypes DEF TSpend
<1> QED
  BY <1>1 DEF TSpend

(* The stores and what was uploaded, unchanged: what a step of p leaves to *)
(* show is about p.                                                        *)
LEMMA StoresKept ==
    ASSUME TokensInv, localSame, remoteSame, NEW p \in TProcs, NEW r \in TProcess,
           tproc' = [tproc EXCEPT ![p] = r], tmanifest' = tmanifest,
           tleft' \in [TBounded -> Nat],
           THolds(p)' => THolds(p) \/ ~\E q \in TProcs : THolds(q),
           ~tours => EvidenceOK(r.man),
           StageOK(r)
    PROVE  TokensInv'
<1>1. TokensTypeOK
  BY DEF TokensInv
<1>2. /\ tmap' = tmap /\ tclient' = tclient /\ tpending' = tpending /\ tbackups' = tbackups
      /\ tvault' = tvault /\ tlive' = tlive /\ tever' = tever /\ tours' = tours
  BY DEF localSame, remoteSame
<1>3. /\ tproc' \in [TProcs -> TProcess] /\ tproc'[p] = r
      /\ \A q \in TProcs : q # p => tproc'[q] = tproc[q]
  BY <1>1, TokenTypes
<1>4. TokensTypeOK'
  BY <1>1, <1>2, <1>3 DEF TokensTypeOK, TProcess
<1>5. OneHolder'
  <2>1. \A q \in TProcs : q # p => (THolds(q)' <=> THolds(q))
    BY <1>3 DEF THolds
  <2> QED
    BY <2>1 DEF OneHolder, TokensInv
<1>6. FirstUpload'
  <2>1. ~tours => tever = tlive /\ EvidenceOK(tmanifest) /\ \A q \in TProcs : EvidenceOK(tproc[q].man)
    BY DEF TokensInv, FirstUpload
  <2>2. ~tours => \A q \in TProcs : EvidenceOK(tproc'[q].man)
    BY <1>3, <2>1
  <2> QED
    BY <1>2, <2>1, <2>2 DEF FirstUpload, EvidenceOK
<1>7. ClientKept' /\ IdentsKept' /\ RetiredNotAlone' /\ DeploymentRecoverable'
  BY <1>2 DEF TokensInv, ClientKept, IdentsKept, RetiredNotAlone, DeploymentRecoverable, TOf
<1>8. \A q \in TProcs : StageOK(tproc[q])'
  <2>1. \A q \in TProcs : StageOK(tproc'[q])
    BY <1>3 DEF TokensInv
  <2> QED
    BY <1>2, <2>1 DEF StageOK, RevokeRead, RevokeHeld, TAuthority
<1> QED
  BY <1>4, <1>5, <1>6, <1>7, <1>8 DEF TokensInv

(* A process that does not hold the lock relies on no store.               *)
LEMMA OutsideStage ==
    ASSUME NEW r, StageOK(r), r.pc \in {"idle", "read", "lock"}
    PROVE  StageOK(r)'
  BY DEF StageOK, RevokeRead

(* A step of the holder of the lock: what is left to show.                 *)
LEMMA HolderStep ==
    ASSUME TokensInv, NEW p \in TProcs, THolds(p), NEW r \in TProcess,
           tproc' = [tproc EXCEPT ![p] = r], r.man \in {tproc[p].man, TNoEvidence},
           askedSame,
           tmap' \in TMaps, tvault' \in TMaps, tlive' \in TMaps, tever' \in TMaps,
           tclient' \in TTokens \cup {NoToken}, tpending' \in TTokens \cup {NoToken},
           tbackups' \in SUBSET TMaps, tours' \in BOOLEAN,
           ~tours' => ~tours /\ tlive' = tlive /\ tever' = tever,
           ClientKept', IdentsKept', RetiredNotAlone', DeploymentRecoverable',
           StageOK(r)'
    PROVE  TokensInv'
<1>1. TokensTypeOK /\ OneHolder
  BY DEF TokensInv
<1>2. tmanifest' = tmanifest /\ tleft' = tleft
  BY DEF askedSame
<1>3. /\ tproc' \in [TProcs -> TProcess] /\ tproc'[p] = r
      /\ \A q \in TProcs : q # p => tproc'[q] = tproc[q]
  BY <1>1, TokenTypes
<1>4. TokensTypeOK'
  BY <1>1, <1>2, <1>3 DEF TokensTypeOK, TProcess
<1>5. \A q \in TProcs : q # p => ~THolds(q)
  BY <1>1 DEF OneHolder
<1>6. OneHolder'
  BY <1>3, <1>5 DEF OneHolder, THolds
<1>7. FirstUpload'
  <2>1. SUFFICES ASSUME ~tours'
                 PROVE  /\ tever' = tlive' /\ EvidenceOK(tmanifest)'
                        /\ \A q \in TProcs : EvidenceOK(tproc[q].man)'
    BY DEF FirstUpload
  <2>2. ~tours /\ tlive' = tlive /\ tever' = tever
    BY <2>1
  <2>3. tever = tlive /\ EvidenceOK(tmanifest) /\ \A q \in TProcs : EvidenceOK(tproc[q].man)
    BY <2>2 DEF TokensInv, FirstUpload
  <2>4. EvidenceOK(r.man)
    BY <2>3, IdleTypes DEF EvidenceOK
  <2>5. \A q \in TProcs : EvidenceOK(tproc'[q].man)
    BY <1>3, <2>3, <2>4
  <2> QED
    BY <1>2, <2>2, <2>3, <2>5 DEF EvidenceOK
<1>8. ASSUME NEW q \in TProcs PROVE StageOK(tproc[q])'
  <2>1. CASE q = p
    BY <1>3, <2>1 DEF StageOK, RevokeRead, RevokeHeld, TAuthority
  <2>2. CASE q # p
    <3>1. PICK x \in TProcess : x = tproc[q]
      BY <1>1, TokenTypes
    <3>2. StageOK(x) /\ x.pc \in {"idle", "read", "lock"}
      BY <1>5, <2>2, <3>1 DEF TokensInv, THolds
    <3>3. StageOK(x)'
      BY <3>2, OutsideStage
    <3>4. tproc'[q] = x
      BY <1>3, <2>2, <3>1
    <3> QED
      BY <3>3, <3>4 DEF StageOK, RevokeRead, RevokeHeld, TAuthority
  <2> QED
    BY <2>1, <2>2
<1> QED
  BY <1>4, <1>6, <1>7, <1>8 DEF TokensInv

(* The operator's evidence is true when it is written.                     *)
LEMMA EvidenceKeeps ==
    ASSUME TokensInv, NEW c \in TMaps, NEW sel \in SUBSET (TTokens \X TTokens), TEvidence(c, sel)
    PROVE  TokensInv'
<1>1. TokensTypeOK
  BY DEF TokensInv
<1>2. /\ tmap' = tmap /\ tclient' = tclient /\ tpending' = tpending /\ tbackups' = tbackups
      /\ tvault' = tvault /\ tlive' = tlive /\ tever' = tever /\ tours' = tours /\ tproc' = tproc
  BY DEF TEvidence, localSame, remoteSame
<1>3. tleft' \in [TBounded -> Nat]
  BY <1>1, TSpendTypes DEF TEvidence, TBounded
<1>4. tmanifest' \in TManifests /\ tmanifest'.base = tlive
  <2>1. tmanifest' = [base |-> tlive, cand |-> c, sel |-> sel]
    BY DEF TEvidence
  <2>2. tlive \in TMaps
    BY <1>1 DEF TokensTypeOK
  <2> QED
    BY <2>1, <2>2 DEF TManifests
<1>5. TokensTypeOK'
  BY <1>1, <1>2, <1>3, <1>4 DEF TokensTypeOK
<1>6. OneHolder' /\ ClientKept' /\ IdentsKept' /\ RetiredNotAlone' /\ DeploymentRecoverable'
  BY <1>2 DEF TokensInv, OneHolder, THolds, ClientKept, IdentsKept, RetiredNotAlone,
              DeploymentRecoverable, TOf
<1>7. FirstUpload'
  BY <1>2, <1>4 DEF TokensInv, FirstUpload, EvidenceOK
<1>8. \A q \in TProcs : StageOK(tproc[q])'
  BY <1>2 DEF TokensInv, StageOK, RevokeRead, RevokeHeld, TAuthority
<1> QED
  BY <1>5, <1>6, <1>7, <1>8 DEF TokensInv

(* A command begins.                                                       *)
LEMMA BeginKeeps ==
    ASSUME TokensInv, NEW p \in TProcs, NEW op \in TOps, TBegin(p, op)
    PROVE  TokensInv'
<1>1. TokensTypeOK
  BY DEF TokensInv
<1>2. PICK r \in TProcess :
          /\ tproc' = [tproc EXCEPT ![p] = r] /\ r.op = op /\ r.man = tmanifest
          /\ r.pc = IF op = "revoke" THEN "read" ELSE "lock"
  <2> DEFINE r == [TIdle EXCEPT !.op = op, !.man = tmanifest,
                                !.pc = IF op = "revoke" THEN "read" ELSE "lock"]
  <2>1. r \in TProcess /\ r.op = op /\ r.man = tmanifest /\ r.pc = IF op = "revoke" THEN "read" ELSE "lock"
    BY <1>1, IdleTypes, TokenTypes DEF TProcess
  <2>2. tproc' = [tproc EXCEPT ![p] = r]
    BY DEF TBegin
  <2> QED
    BY <2>1, <2>2
<1>3. localSame /\ remoteSame /\ tmanifest' = tmanifest
  BY DEF TBegin
<1>4. tleft' \in [TBounded -> Nat]
  BY <1>1, TSpendTypes DEF TBegin, TBounded
<1>5. ~THolds(p)'
  <2>1. tproc'[p] = r
    BY <1>1, <1>2, TokenTypes
  <2> QED
    BY <1>2, <2>1 DEF THolds
<1>6. ~tours => EvidenceOK(r.man)
  BY <1>2 DEF TokensInv, FirstUpload
<1>7. StageOK(r)
  BY <1>2 DEF StageOK
<1> QED
  BY <1>2, <1>3, <1>4, <1>5, <1>6, <1>7, StoresKept

(* A process returns or fails and leaves the stores alone.                 *)
LEMMA ReturnKeeps ==
    ASSUME TokensInv, NEW p \in TProcs, TReturns(p), localSame, remoteSame, tmanifest' = tmanifest,
           tleft' \in [TBounded -> Nat]
    PROVE  TokensInv'
<1>1. TokensTypeOK
  BY DEF TokensInv
<1>2. tproc' = [tproc EXCEPT ![p] = TIdle]
  BY DEF TReturns
<1>3. tproc'[p] = TIdle
  BY <1>1, <1>2, TokenTypes
<1>4. ~THolds(p)'
  BY <1>3, IdleTypes DEF THolds
<1>5. StageOK(TIdle) /\ EvidenceOK(TIdle.man)
  BY IdleTypes DEF StageOK, EvidenceOK
<1> QED
  BY <1>2, <1>4, <1>5, IdleTypes, StoresKept

(* revoke reads the map, the client and the evidence.                      *)
LEMMA ReadKeeps ==
    ASSUME TokensInv, NEW p \in TProcs, TRead(p)
    PROVE  TokensInv'
<1>1. TokensTypeOK /\ tproc[p].pc = "read"
  BY DEF TokensInv, TRead
<1>2. localSame /\ remoteSame /\ tmanifest' = tmanifest /\ tleft' = tleft
  BY DEF TRead, askedSame
<1>3. tleft' \in [TBounded -> Nat]
  BY <1>1, <1>2, TokenTypes
<1>4. CASE TReturns(p)
  BY <1>2, <1>3, <1>4, ReturnKeeps
<1>5. CASE /\ TSelectable(tmap, tclient, tproc[p].man.sel)
           /\ tproc[p].man.base = tmap /\ tproc[p].man.cand = tmap \ TRetired(tproc[p].man.sel)
           /\ tproc' = [tproc EXCEPT ![p].pc = "lock", ![p].client = tclient]
  <2> DEFINE r == [[tproc[p] EXCEPT !.pc = "lock"] EXCEPT !.client = tclient]
  <2>1. tproc[p] \in TProcess /\ tproc \in [TProcs -> TProcess] /\ tclient \in TTokens \cup {NoToken}
    BY <1>1, TokenTypes
  <2>2. r \in TProcess /\ r.pc = "lock" /\ r.man = tproc[p].man /\ r.client = tclient
    BY <2>1 DEF TProcess
  <2>3. tproc' = [tproc EXCEPT ![p] = r] /\ tproc'[p] = r
    BY <1>5, <2>1
  <2> HIDE DEF r
  <2>4. ~THolds(p)'
    BY <2>2, <2>3 DEF THolds
  <2>5. ~tours => EvidenceOK(r.man)
    BY <2>2 DEF TokensInv, FirstUpload
  <2>6. StageOK(r)
    BY <1>5, <2>2 DEF StageOK, RevokeRead
  <2> QED
    BY <1>2, <1>3, <2>2, <2>3, <2>4, <2>5, <2>6, StoresKept
<1> QED
  BY <1>4, <1>5 DEF TRead

(* A process goes on: only its place changes.                              *)
LEMMA GoesOn ==
    ASSUME TokensTypeOK, NEW p \in TProcs, NEW to, TGoes(p, to),
           to \in {"lock", "backup", "store", "stage", "client", "publish", "unstage",
                   "rollback", "edit", "before", "upload", "after", "local"}
    PROVE  \E r \in TProcess :
               /\ tproc' = [tproc EXCEPT ![p] = r] /\ r.pc = to /\ r.op = tproc[p].op
               /\ r.man = tproc[p].man /\ r.client = tproc[p].client /\ r.tok = tproc[p].tok
<1> DEFINE r == [tproc[p] EXCEPT !.pc = to]
<1>1. tproc[p] \in TProcess /\ tproc \in [TProcs -> TProcess]
  BY TokenTypes
<1>2. /\ r \in TProcess /\ r.pc = to /\ r.op = tproc[p].op
      /\ r.man = tproc[p].man /\ r.client = tproc[p].client /\ r.tok = tproc[p].tok
  BY <1>1 DEF TProcess
<1>3. tproc' = [tproc EXCEPT ![p] = r]
  BY <1>1 DEF TGoes
<1> QED
  BY <1>2, <1>3

(* The lock is taken and the checks that need it are made.                 *)
LEMMA LockKeeps ==
    ASSUME TokensInv, NEW p \in TProcs, TLock(p)
    PROVE  TokensInv'
<1>1. TokensTypeOK /\ tproc[p].pc = "lock"
  BY DEF TokensInv, TLock
<1>2. localSame /\ remoteSame /\ tmanifest' = tmanifest /\ tleft' = tleft
  BY DEF TLock, askedSame
<1>3. tleft' \in [TBounded -> Nat]
  BY <1>1, <1>2, TokenTypes
<1>4. CASE TReturns(p)
  BY <1>2, <1>3, <1>4, ReturnKeeps
<1>5. CASE (~\E q \in TProcs : THolds(q)) /\ TAdmitted(p) # "idle" /\ TGoes(p, TAdmitted(p))
  <2>1. PICK o \in TOps : o = tproc[p].op
    BY <1>1, TokenTypes DEF TProcess
  <2>2. PICK m \in TManifests : m = tproc[p].man
    BY <1>1, TokenTypes DEF TProcess
  <2>3. o = "revoke" => RevokeRead(tproc[p])
    BY <1>1, <2>1 DEF TokensInv, StageOK
  <2>4. ~tours => EvidenceOK(m)
    BY <2>2 DEF TokensInv, FirstUpload
  <2>5. ASSUME NEW to, to = TAdmitted(p), NEW r \in TProcess, r.pc = to, r.op = o, r.man = m,
               r.client = tproc[p].client, tproc' = [tproc EXCEPT ![p] = r], StageOK(r)
        PROVE  TokensInv'
    BY <1>2, <1>3, <1>5, <2>4, <2>5, StoresKept
  <2>6. CASE o \in {"mint", "rotate"}
    <3>1. PICK to : to = TAdmitted(p) /\ to \in {"store", "backup"}
      BY <2>1, <2>6 DEF TAdmitted
    <3>2. PICK r \in TProcess : /\ tproc' = [tproc EXCEPT ![p] = r] /\ r.pc = to /\ r.op = o
                                /\ r.man = m /\ r.client = tproc[p].client
      BY <1>1, <1>5, <2>1, <2>2, <3>1, GoesOn
    <3>3. StageOK(r)
      BY <2>6, <3>1, <3>2 DEF StageOK
    <3> QED
      BY <2>5, <3>1, <3>2, <3>3
  <2>7. CASE o = "write"
    <3>1. PICK to : to = TAdmitted(p) /\ to = "client"
      BY <1>5, <2>1, <2>7 DEF TAdmitted
    <3>2. PICK r \in TProcess : /\ tproc' = [tproc EXCEPT ![p] = r] /\ r.pc = to /\ r.op = o
                                /\ r.man = m /\ r.client = tproc[p].client
      BY <1>1, <1>5, <2>1, <2>2, <3>1, GoesOn
    <3>3. StageOK(r)
      BY <2>7, <3>1, <3>2 DEF StageOK
    <3> QED
      BY <2>5, <3>1, <3>2, <3>3
  <2>8. CASE o = "activate"
    <3>1. PICK to : to = TAdmitted(p) /\ to = "publish"
      BY <1>5, <2>1, <2>8 DEF TAdmitted
    <3>4. tpending \in tmap /\ tpending \in tlive
      BY <1>5, <2>1, <2>8 DEF TAdmitted, TOf
    <3>2. PICK r \in TProcess : /\ tproc' = [tproc EXCEPT ![p] = r] /\ r.pc = to /\ r.op = o
                                /\ r.man = m /\ r.client = tproc[p].client
      BY <1>1, <1>5, <2>1, <2>2, <3>1, GoesOn
    <3>3. StageOK(r)
      BY <2>8, <3>1, <3>2, <3>4 DEF StageOK
    <3> QED
      BY <2>5, <3>1, <3>2, <3>3
  <2>9. CASE o = "upsert"
    <3>1. PICK to : to = TAdmitted(p) /\ to = "edit"
      BY <1>5, <2>1, <2>9 DEF TAdmitted
    <3>4. tvault \subseteq tmap
      BY <1>5, <2>1, <2>9 DEF TAdmitted
    <3>2. PICK r \in TProcess : /\ tproc' = [tproc EXCEPT ![p] = r] /\ r.pc = to /\ r.op = o
                                /\ r.man = m /\ r.client = tproc[p].client
      BY <1>1, <1>5, <2>1, <2>2, <3>1, GoesOn
    <3>3. StageOK(r)
      BY <2>9, <3>1, <3>2, <3>4 DEF StageOK
    <3> QED
      BY <2>5, <3>1, <3>2, <3>3
  <2>10. CASE o = "upload"
    <3>1. PICK to : to = TAdmitted(p) /\ to = "upload"
      BY <1>5, <2>1, <2>10 DEF TAdmitted
    <3>4. TAuthority(m) /\ tvault = tmap
      BY <1>5, <2>1, <2>2, <2>10 DEF TAdmitted, TVerified
    <3>2. PICK r \in TProcess : /\ tproc' = [tproc EXCEPT ![p] = r] /\ r.pc = to /\ r.op = o
                                /\ r.man = m /\ r.client = tproc[p].client
      BY <1>1, <1>5, <2>1, <2>2, <3>1, GoesOn
    <3>3. StageOK(r)
      BY <2>10, <3>1, <3>2, <3>4 DEF StageOK
    <3> QED
      BY <2>5, <3>1, <3>2, <3>3
  <2>11. CASE o = "revoke"
    <3>1. PICK to : to = TAdmitted(p) /\ to = "rollback"
      BY <1>5, <2>1, <2>11 DEF TAdmitted
    <3>4. tmap = m.base /\ tclient = tproc[p].client /\ tvault = m.base
      BY <1>5, <2>1, <2>2, <2>11 DEF TAdmitted, TVerified, TSameAsRead
    <3>2. PICK r \in TProcess : /\ tproc' = [tproc EXCEPT ![p] = r] /\ r.pc = to /\ r.op = o
                                /\ r.man = m /\ r.client = tproc[p].client
      BY <1>1, <1>5, <2>1, <2>2, <3>1, GoesOn
    <3>5. RevokeRead(r) /\ RevokeHeld(r)
      BY <2>2, <2>3, <2>11, <3>1, <3>2, <3>4 DEF RevokeRead, RevokeHeld
    <3>3. StageOK(r)
      BY <2>11, <3>1, <3>2, <3>5 DEF StageOK
    <3> QED
      BY <2>5, <3>1, <3>2, <3>3
  <2> QED
    BY <2>6, <2>7, <2>8, <2>9, <2>10, <2>11 DEF TOps
<1> QED
  BY <1>4, <1>5 DEF TLock

(* What a step of the holder leaves alone.                                 *)
LEMMA KeptParts ==
    ASSUME TokensInv
    PROVE  /\ UNCHANGED <<tmap, tclient, tlive, tever, tours>> => ClientKept'
           /\ UNCHANGED <<tmap, tlive, tever, tours>> => IdentsKept' /\ RetiredNotAlone'
           /\ UNCHANGED <<tlive, tvault, tours>> /\ tbackups \subseteq tbackups'
                  => DeploymentRecoverable'
<1>1. UNCHANGED <<tmap, tclient, tlive, tever, tours>> => ClientKept'
  BY DEF TokensInv, ClientKept
<1>2. UNCHANGED <<tmap, tlive, tever, tours>> => IdentsKept' /\ RetiredNotAlone'
  BY DEF TokensInv, IdentsKept, RetiredNotAlone, TOf
<1>3. UNCHANGED <<tlive, tvault, tours>> /\ tbackups \subseteq tbackups' => DeploymentRecoverable'
  BY DEF TokensInv, DeploymentRecoverable
<1> QED
  BY <1>1, <1>2, <1>3

(* The map is kept before it is replaced.                                  *)
LEMMA BackupKeeps ==
    ASSUME TokensInv, NEW p \in TProcs, TBackup(p)
    PROVE  TokensInv'
<1>1. TokensTypeOK /\ tproc[p].pc = "backup"
  BY DEF TokensInv, TBackup
<1>2. PICK r \in TProcess :
          /\ tproc' = [tproc EXCEPT ![p] = r] /\ r.pc = "store" /\ r.op = tproc[p].op /\ r.man = tproc[p].man
          /\ r.client = tproc[p].client
  BY <1>1, GoesOn DEF TBackup
<1>3. /\ UNCHANGED <<tmap, tclient, tpending, tvault, tlive, tever, tours>> /\ askedSame
      /\ tbackups' = tbackups \cup {tmap}
  BY DEF TBackup, remoteSame
<1>4. THolds(p)
  BY <1>1 DEF THolds
<1>5. /\ tmap \in TMaps /\ tvault \in TMaps /\ tlive \in TMaps /\ tever \in TMaps
      /\ tclient \in TTokens \cup {NoToken} /\ tpending \in TTokens \cup {NoToken}
      /\ tbackups \in SUBSET TMaps /\ tours \in BOOLEAN
  BY <1>1 DEF TokensTypeOK
<1>6. ClientKept' /\ IdentsKept' /\ RetiredNotAlone' /\ DeploymentRecoverable'
  BY <1>3, KeptParts
<1>7. r.op \in {"mint", "rotate"}
  BY <1>1, <1>2 DEF TokensInv, StageOK
<1>8. StageOK(r)'
  BY <1>2, <1>7 DEF StageOK
<1> QED
  BY <1>2, <1>3, <1>4, <1>5, <1>6, <1>8, HolderStep

(* A number from 1 to n has a first one with a property that n has.        *)
LEMMA FirstNumber ==
    ASSUME NEW n \in Nat, NEW S \in SUBSET (1 .. n), S # {}
    PROVE  \E x \in S : \A y \in 1 .. x - 1 : y \notin S
<1>1. S \subseteq Nat
  OBVIOUS
<1>2. PICK x \in S : \A y \in S : ~(<<y, x>> \in OpToRel(<, Nat))
  BY <1>1, WFMin, NatLessThanWellFounded
<1>3. \A y \in S : ~(y < x)
  BY <1>1, <1>2 DEF OpToRel
<1>4. \A y \in 1 .. x - 1 : y < x
  BY <1>1
<1> QED
  BY <1>3, <1>4

(* A new token was in no map.                                              *)
LEMMA FreshIsNew ==
    ASSUME TokensTypeOK, NEW i \in TIdents
    PROVE  TFresh(i)[1] = i /\ TFresh(i) \notin tmap \cup tvault \cup tever
<1> DEFINE U == tmap \cup tvault \cup tever
           free(n) == <<i, n>> \notin U
           S == {n \in 1 .. TMaxTokens + 1 : free(n)}
           k == CHOOSE n \in 1 .. TMaxTokens + 1 : free(n) /\ \A m \in 1 .. n - 1 : ~free(m)
<1>1. TMaxTokens \in Nat /\ TMaxTokens + 1 \in Nat
  BY TokensAssumption
<1>2. U \subseteq TTokens
  BY TokenTypes
<1>3. TMaxTokens + 1 \in S
  <2>1. <<i, TMaxTokens + 1>> \notin TTokens
    BY <1>1 DEF TTokens
  <2> QED
    BY <1>1, <1>2, <2>1
<1>4. \E x \in S : \A y \in 1 .. x - 1 : y \notin S
  BY <1>1, <1>3, FirstNumber
<1>5. \E x \in 1 .. TMaxTokens + 1 : free(x) /\ \A m \in 1 .. x - 1 : ~free(m)
  <2>1. PICK x \in S : \A y \in 1 .. x - 1 : y \notin S
    BY <1>4
  <2>2. \A m \in 1 .. x - 1 : m \in 1 .. TMaxTokens + 1
    BY <1>1, <2>1
  <2> QED
    BY <2>1, <2>2
<1>6. free(k)
  BY <1>5
<1>7. TFresh(i) = <<i, k>>
  BY DEF TFresh
<1> QED
  BY <1>6, <1>7

(* mint and rotate: nothing leaves the map, and what comes in is new.      *)
LEMMA StoreKeeps ==
    ASSUME TokensInv, NEW p \in TProcs, TStore(p)
    PROVE  TokensInv'
<1> DEFINE rotates == tproc[p].op = "rotate"
           lacking == {i \in TIdents : TOf(i, tmap) = {}}
           asked == lacking \cup (IF rotates THEN {TSelected} ELSE {})
           new == {TFresh(i) : i \in asked}
<1>1. TokensTypeOK /\ tproc[p].pc = "store"
  BY DEF TokensInv, TStore
<1>2. asked \subseteq TIdents
  BY TokensAssumption
<1>3. /\ new \subseteq TTokens /\ tmap' = tmap \cup new
      /\ UNCHANGED <<tclient, tpending, tbackups, tvault, tlive, tever, tours>> /\ askedSame
  BY DEF TStore, remoteSame
<1>4. \A t \in new : t \notin tever
  BY <1>1, <1>2, FreshIsNew
<1>5. PICK r \in TProcess :
          /\ tproc' = [tproc EXCEPT ![p] = r] /\ r.man \in {tproc[p].man, TNoEvidence}
          /\ r.pc = "idle" \/ (r.pc = "stage" /\ r.op = "rotate")
  <2>1. CASE rotates
    <3> DEFINE r == [[tproc[p] EXCEPT !.pc = "stage"] EXCEPT !.tok = TFresh(TSelected)]
    <3>1. TFresh(TSelected) \in TTokens
      BY <1>3, <2>1
    <3>2. tproc[p] \in TProcess /\ tproc \in [TProcs -> TProcess]
      BY <1>1, TokenTypes
    <3>3. r \in TProcess /\ r.pc = "stage" /\ r.op = tproc[p].op /\ r.man = tproc[p].man
      BY <3>1, <3>2 DEF TProcess
    <3>4. tproc' = [tproc EXCEPT ![p].pc = "stage", ![p].tok = TFresh(TSelected)]
      BY <2>1 DEF TStore
    <3>5. tproc' = [tproc EXCEPT ![p] = r]
      BY <3>2, <3>4
    <3> QED
      BY <2>1, <3>3, <3>5
  <2>2. CASE ~rotates
    BY <2>2, IdleTypes DEF TStore, TReturns
  <2> QED
    BY <2>1, <2>2
<1>6. THolds(p)
  BY <1>1 DEF THolds
<1>7. /\ tvault \in TMaps /\ tlive \in TMaps /\ tever \in TMaps /\ tmap \in TMaps
      /\ tclient \in TTokens \cup {NoToken} /\ tpending \in TTokens \cup {NoToken}
      /\ tbackups \in SUBSET TMaps /\ tours \in BOOLEAN
  BY <1>1 DEF TokensTypeOK
<1>8. tmap' \in TMaps
  BY <1>3, <1>7 DEF TMaps
<1> HIDE DEF new
<1>9. ClientKept'
  BY <1>3 DEF TokensInv, ClientKept
<1>10. IdentsKept'
  BY <1>3 DEF TokensInv, IdentsKept, TOf
<1>11. RetiredNotAlone'
  BY <1>3, <1>4 DEF TokensInv, RetiredNotAlone
<1>12. DeploymentRecoverable'
  BY <1>3, KeptParts
<1>13. StageOK(r)'
  BY <1>5 DEF StageOK
<1> QED
  BY <1>3, <1>5, <1>6, <1>7, <1>8, <1>9, <1>10, <1>11, <1>12, <1>13, HolderStep

(* The rotation's token is staged.                                         *)
LEMMA StageKeeps ==
    ASSUME TokensInv, NEW p \in TProcs, TStage(p)
    PROVE  TokensInv'
<1>1. TokensTypeOK /\ tproc[p].pc = "stage"
  BY DEF TokensInv, TStage
<1>2. /\ tpending' = tproc[p].tok /\ tproc' = [tproc EXCEPT ![p] = TIdle]
      /\ UNCHANGED <<tmap, tclient, tbackups, tvault, tlive, tever, tours>> /\ askedSame
  BY DEF TStage, TReturns, remoteSame
<1>3. tproc[p].tok \in TTokens \cup {NoToken}
  BY <1>1, TokenTypes DEF TProcess
<1>4. THolds(p)
  BY <1>1 DEF THolds
<1>5. /\ tvault \in TMaps /\ tlive \in TMaps /\ tever \in TMaps /\ tmap \in TMaps
      /\ tclient \in TTokens \cup {NoToken} /\ tbackups \in SUBSET TMaps /\ tours \in BOOLEAN
  BY <1>1 DEF TokensTypeOK
<1>6. ClientKept' /\ IdentsKept' /\ RetiredNotAlone' /\ DeploymentRecoverable'
  BY <1>2, KeptParts
<1>7. StageOK(TIdle)'
  BY IdleTypes DEF StageOK
<1> QED
  BY <1>2, <1>3, <1>4, <1>5, <1>6, <1>7, IdleTypes, HolderStep

LEMMA OneOfOne ==
    ASSUME TokensTypeOK, Cardinality(TOf(TSelected, tmap)) = 1
    PROVE  \E t : TOf(TSelected, tmap) = {t}
<1> DEFINE S == TOf(TSelected, tmap)
           f == [n \in 1 .. TMaxTokens |-> <<TSelected, n>>]
           T == {<<TSelected, n>> : n \in 1 .. TMaxTokens}
<1>1. IsFiniteSet(1 .. TMaxTokens)
  BY TokensAssumption, FS_Interval
<1>2. f \in Surjection(1 .. TMaxTokens, T)
  BY DEF Surjection
<1>3. IsFiniteSet(T)
  BY <1>1, <1>2, FS_Surjection
<1>4. S \subseteq T
  BY TokenTypes DEF TOf, TTokens
<1>5. IsFiniteSet(S)
  BY <1>3, <1>4, FS_Subset
<1> QED
  BY <1>5, FS_Singleton

(* write-client chooses a token that was not retired.                      *)
LEMMA WriteClientKeeps ==
    ASSUME TokensInv, NEW p \in TProcs, TWriteClient(p)
    PROVE  TokensInv'
<1>1. TokensTypeOK /\ tproc[p].pc = "client"
  BY DEF TokensInv, TWriteClient
<1>2. /\ tclient' = TChosen /\ tproc' = [tproc EXCEPT ![p] = TIdle]
      /\ UNCHANGED <<tmap, tpending, tbackups, tvault, tlive, tever, tours>> /\ askedSame
  BY DEF TWriteClient, TReturns, remoteSame
<1>3. \/ TChosen = tclient
      \/ TChosen \in tmap /\ TOf(TSelected, tmap) = {TChosen}
      \/ TChosen = NoToken
  <2>1. CASE Cardinality(TOf(TSelected, tmap)) = 1
    <3>1. PICK t : TOf(TSelected, tmap) = {t}
      BY <1>1, <2>1, OneOfOne
    <3>2. t \in tmap
      BY <3>1 DEF TOf
    <3>3. (CHOOSE x \in TOf(TSelected, tmap) : TRUE) = t
      BY <3>1
    <3> QED
      BY <2>1, <3>1, <3>2, <3>3 DEF TChosen
  <2>2. CASE Cardinality(TOf(TSelected, tmap)) # 1
    BY <2>2 DEF TChosen
  <2> QED
    BY <2>1, <2>2
<1>4. TChosen \in TTokens \cup {NoToken}
  BY <1>1, <1>3, TokenTypes
<1>5. THolds(p)
  BY <1>1 DEF THolds
<1>6. /\ tvault \in TMaps /\ tlive \in TMaps /\ tever \in TMaps /\ tmap \in TMaps
      /\ tpending \in TTokens \cup {NoToken} /\ tbackups \in SUBSET TMaps /\ tours \in BOOLEAN
  BY <1>1 DEF TokensTypeOK
<1>7. IdentsKept' /\ RetiredNotAlone' /\ DeploymentRecoverable'
  BY <1>2, KeptParts
<1>8. ClientKept'
  <2>1. ClientKept /\ RetiredNotAlone
    BY DEF TokensInv
  <2>2. CASE TChosen = tclient
    BY <1>2, <2>1, <2>2 DEF ClientKept
  <2>3. CASE TChosen = NoToken
    <3>1. NoToken \notin tever
      BY <1>1, TokenTypes, NoTokenIsNone
    <3> QED
      BY <1>2, <2>3, <3>1 DEF ClientKept
  <2>4. CASE TChosen \in tmap /\ TOf(TSelected, tmap) = {TChosen}
    <3>1. TChosen[1] = TSelected
      BY <2>4 DEF TOf
    <3>2. \A u \in tmap : u[1] = TChosen[1] => u = TChosen
      BY <2>4, <3>1 DEF TOf
    <3>3. TChosen \in tever => TChosen \in tlive
      BY <2>1, <2>4, <3>2 DEF RetiredNotAlone
    <3> QED
      BY <1>2, <2>4, <3>3 DEF ClientKept
  <2> QED
    BY <1>3, <2>2, <2>3, <2>4
<1>9. StageOK(TIdle)'
  BY IdleTypes DEF StageOK
<1> QED
  BY <1>2, <1>4, <1>5, <1>6, <1>7, <1>8, <1>9, IdleTypes, HolderStep

(* activate publishes the staged token, which is deployed.                 *)
LEMMA PublishKeeps ==
    ASSUME TokensInv, NEW p \in TProcs, TPublish(p)
    PROVE  TokensInv'
<1>1. TokensTypeOK /\ tproc[p].pc = "publish" /\ StageOK(tproc[p])
  BY DEF TokensInv, TPublish
<1>2. PICK r \in TProcess :
          /\ tproc' = [tproc EXCEPT ![p] = r] /\ r.pc = "unstage" /\ r.op = tproc[p].op /\ r.man = tproc[p].man
  BY <1>1, GoesOn DEF TPublish
<1>3. /\ tclient' = tpending
      /\ UNCHANGED <<tmap, tpending, tbackups, tvault, tlive, tever, tours>> /\ askedSame
  BY DEF TPublish, remoteSame
<1>4. tpending \in tmap /\ tpending \in tlive /\ r.op = "activate"
  BY <1>1, <1>2 DEF StageOK
<1>5. THolds(p)
  BY <1>1 DEF THolds
<1>6. /\ tvault \in TMaps /\ tlive \in TMaps /\ tever \in TMaps /\ tmap \in TMaps
      /\ tpending \in TTokens \cup {NoToken} /\ tbackups \in SUBSET TMaps /\ tours \in BOOLEAN
  BY <1>1 DEF TokensTypeOK
<1>7. IdentsKept' /\ RetiredNotAlone' /\ DeploymentRecoverable'
  BY <1>3, KeptParts
<1>8. ClientKept'
  BY <1>3, <1>4 DEF ClientKept
<1>9. StageOK(r)'
  BY <1>2, <1>3, <1>4 DEF StageOK
<1> QED
  BY <1>2, <1>3, <1>5, <1>6, <1>7, <1>8, <1>9, HolderStep

LEMMA UnstageKeeps ==
    ASSUME TokensInv, NEW p \in TProcs, TUnstage(p)
    PROVE  TokensInv'
<1>1. TokensTypeOK /\ tproc[p].pc = "unstage"
  BY DEF TokensInv, TUnstage
<1>2. /\ tpending' = NoToken /\ tproc' = [tproc EXCEPT ![p] = TIdle]
      /\ UNCHANGED <<tmap, tclient, tbackups, tvault, tlive, tever, tours>> /\ askedSame
  BY DEF TUnstage, TReturns, remoteSame
<1>3. THolds(p)
  BY <1>1 DEF THolds
<1>4. /\ tvault \in TMaps /\ tlive \in TMaps /\ tever \in TMaps /\ tmap \in TMaps
      /\ tclient \in TTokens \cup {NoToken} /\ tbackups \in SUBSET TMaps /\ tours \in BOOLEAN
  BY <1>1 DEF TokensTypeOK
<1>5. ClientKept' /\ IdentsKept' /\ RetiredNotAlone' /\ DeploymentRecoverable'
  BY <1>2, KeptParts
<1>6. StageOK(TIdle)'
  BY IdleTypes DEF StageOK
<1> QED
  BY <1>2, <1>3, <1>4, <1>5, <1>6, IdleTypes, HolderStep

(* revoke keeps the baseline before it edits the recovery item.            *)
LEMMA RollbackKeeps ==
    ASSUME TokensInv, NEW p \in TProcs, TKeepRollback(p)
    PROVE  TokensInv'
<1>1. TokensTypeOK /\ tproc[p].pc = "rollback" /\ StageOK(tproc[p])
  BY DEF TokensInv, TKeepRollback, TRollback
<1>2. PICK r \in TProcess :
          /\ tproc' = [tproc EXCEPT ![p] = r] /\ r.pc = "edit" /\ r.op = tproc[p].op /\ r.man = tproc[p].man
          /\ r.client = tproc[p].client
  BY <1>1, GoesOn DEF TKeepRollback
<1>3. /\ tbackups' = tbackups \cup {r.man.base}
      /\ UNCHANGED <<tmap, tclient, tpending, tvault, tlive, tever, tours>> /\ askedSame
  BY <1>2 DEF TKeepRollback, TRollback, remoteSame
<1>4. THolds(p)
  BY <1>1 DEF THolds
<1>5. /\ tvault \in TMaps /\ tlive \in TMaps /\ tever \in TMaps /\ tmap \in TMaps
      /\ tclient \in TTokens \cup {NoToken} /\ tpending \in TTokens \cup {NoToken}
      /\ tbackups \in SUBSET TMaps /\ tours \in BOOLEAN
  BY <1>1 DEF TokensTypeOK
<1>6. r.man.base \in TMaps
  BY DEF TProcess, TManifests
<1>7. ClientKept' /\ IdentsKept' /\ RetiredNotAlone' /\ DeploymentRecoverable'
  BY <1>3, KeptParts
<1>8. /\ r.op = "revoke" /\ RevokeRead(r) /\ tmap = r.man.base /\ tclient = r.client /\ tvault = r.man.base
  BY <1>1, <1>2 DEF StageOK, RevokeRead, RevokeHeld
<1>9. StageOK(r)'
  BY <1>2, <1>3, <1>8 DEF StageOK, RevokeRead, RevokeHeld
<1> QED
  BY <1>2, <1>3, <1>4, <1>5, <1>6, <1>7, <1>9, HolderStep

(* The recovery item is edited: upsert adds to it, revoke has kept it.     *)
LEMMA EditKeeps ==
    ASSUME TokensInv, NEW p \in TProcs, TEdit(p)
    PROVE  TokensInv'
<1>1. TokensTypeOK /\ tproc[p].pc = "edit" /\ StageOK(tproc[p])
  BY DEF TokensInv, TEdit
<1>2. UNCHANGED <<tmap, tclient, tpending, tbackups, tlive, tever, tours>> /\ askedSame
  BY DEF TEdit, localSame
<1>3. THolds(p)
  BY <1>1 DEF THolds
<1>4. /\ tlive \in TMaps /\ tever \in TMaps /\ tmap \in TMaps
      /\ tclient \in TTokens \cup {NoToken} /\ tpending \in TTokens \cup {NoToken}
      /\ tbackups \in SUBSET TMaps /\ tours \in BOOLEAN
  BY <1>1 DEF TokensTypeOK
<1>5. ClientKept' /\ IdentsKept' /\ RetiredNotAlone'
  BY <1>2, KeptParts
<1>6. CASE tproc[p].op = "upsert" /\ tvault' = tmap /\ TReturns(p)
  <2>1. tvault \subseteq tvault'
    BY <1>1, <1>6 DEF StageOK
  <2>2. DeploymentRecoverable'
    BY <1>2, <2>1 DEF TokensInv, DeploymentRecoverable
  <2>3. StageOK(TIdle)'
    BY IdleTypes DEF StageOK
  <2> QED
    BY <1>2, <1>3, <1>4, <1>5, <1>6, <2>2, <2>3, IdleTypes, HolderStep DEF TReturns
<1>7. CASE tproc[p].op = "revoke" /\ tvault' = tproc[p].man.cand /\ TGoes(p, "before")
  <2>1. PICK r \in TProcess :
            /\ tproc' = [tproc EXCEPT ![p] = r] /\ r.pc = "before" /\ r.op = tproc[p].op
            /\ r.man = tproc[p].man /\ r.client = tproc[p].client
    BY <1>1, <1>7, GoesOn
  <2>2. /\ RevokeRead(r) /\ tmap = r.man.base /\ tclient = r.client
        /\ tvault = r.man.base /\ r.man.base \in tbackups
    BY <1>1, <1>7, <2>1 DEF StageOK, RevokeRead, RevokeHeld
  <2>3. tvault' = r.man.cand /\ r.man.cand \in TMaps
    BY <1>7, <2>1 DEF TProcess, TManifests
  <2>4. DeploymentRecoverable'
    BY <1>2, <2>2 DEF TokensInv, DeploymentRecoverable
  <2>5. StageOK(r)'
    BY <1>2, <1>7, <2>1, <2>2, <2>3 DEF StageOK, RevokeRead, RevokeHeld
  <2> QED
    BY <1>2, <1>3, <1>4, <1>5, <2>1, <2>3, <2>4, <2>5, HolderStep
<1> QED
  BY <1>6, <1>7 DEF TEdit

(* The deployed map is read back before the upload and after it.           *)
LEMMA ReadBackKeeps ==
    ASSUME TokensInv, NEW p \in TProcs, TBefore(p) \/ TAfter(p)
    PROVE  TokensInv'
<1>1. TokensTypeOK /\ tproc[p].pc \in {"before", "after"} /\ StageOK(tproc[p])
  BY DEF TokensInv, TBefore, TAfter
<1>2. localSame /\ remoteSame /\ askedSame
  BY DEF TBefore, TAfter
<1>3. tmanifest' = tmanifest /\ tleft' \in [TBounded -> Nat]
  BY <1>1, <1>2, TokenTypes DEF askedSame
<1>4. CASE TReturns(p)
  BY <1>2, <1>3, <1>4, ReturnKeeps
<1>5. ASSUME NEW r \in TProcess, tproc' = [tproc EXCEPT ![p] = r],
             r.man = tproc[p].man, StageOK(r)
      PROVE  TokensInv'
  <2>1. THolds(p)
    BY <1>1 DEF THolds
  <2>2. ~tours => EvidenceOK(r.man)
    BY <1>5 DEF TokensInv, FirstUpload
  <2> QED
    BY <1>2, <1>3, <1>5, <2>1, <2>2, StoresKept
<1>6. CASE tproc[p].pc = "before" /\ tlive = tproc[p].man.base /\ TGoes(p, "upload")
  <2>1. PICK r \in TProcess :
            /\ tproc' = [tproc EXCEPT ![p] = r] /\ r.pc = "upload" /\ r.op = tproc[p].op
            /\ r.man = tproc[p].man /\ r.client = tproc[p].client
    BY <1>1, <1>6, GoesOn
  <2>2. /\ r.op = "revoke" /\ RevokeRead(r) /\ tmap = r.man.base /\ tclient = r.client
        /\ tvault = r.man.cand /\ tlive = r.man.base
    BY <1>1, <1>6, <2>1 DEF StageOK, RevokeRead, RevokeHeld
  <2>3. StageOK(r)
    BY <2>1, <2>2 DEF StageOK, RevokeHeld
  <2> QED
    BY <1>5, <2>1, <2>3
<1>7. CASE tproc[p].pc = "after" /\ tlive = tproc[p].man.cand /\ TGoes(p, "local")
  <2>1. PICK r \in TProcess :
            /\ tproc' = [tproc EXCEPT ![p] = r] /\ r.pc = "local" /\ r.op = tproc[p].op
            /\ r.man = tproc[p].man /\ r.client = tproc[p].client
    BY <1>1, <1>7, GoesOn
  <2>2. /\ r.op = "revoke" /\ RevokeRead(r) /\ tmap = r.man.base /\ tclient = r.client
        /\ tlive = r.man.cand
    BY <1>1, <1>7, <2>1 DEF StageOK, RevokeRead, RevokeHeld
  <2>3. StageOK(r)
    BY <2>1, <2>2 DEF StageOK, RevokeHeld
  <2> QED
    BY <1>5, <2>1, <2>3
<1> QED
  BY <1>4, <1>6, <1>7 DEF TBefore, TAfter

(* A selection leaves the client and every identity a token.               *)
LEMMA CandidateKeeps ==
    ASSUME NEW B \in TMaps, NEW C, NEW c, NEW s, TSelectable(B, c, s), C = B \ TRetired(s)
    PROVE  /\ C \in TMaps /\ C \subseteq B /\ c \in C /\ c \in B
           /\ \A t \in B : t \in C \/ \E u \in C : u # t /\ u[1] = t[1]
<1>1. C \in TMaps /\ C \subseteq B
  BY DEF TMaps
<1>2. c \in C /\ c \in B
  <2>1. c \in B /\ \A x \in s : x[1] # c
    BY DEF TSelectable
  <2> QED
    BY <2>1 DEF TRetired
<1>3. ASSUME NEW t \in B, t \notin C PROVE \E u \in C : u # t /\ u[1] = t[1]
  <2>1. PICK x \in s : x[1] = t
    BY <1>3 DEF TRetired
  <2>2. x[2] \in C /\ x[1] # x[2] /\ x[1][1] = x[2][1]
    BY DEF TSelectable, TReplacing
  <2> QED
    BY <2>1, <2>2
<1> QED
  BY <1>1, <1>2, <1>3

(* The secret is replaced: by the local map, which holds whatever was      *)
(* deployed, or by the candidate of the revocation.                        *)
LEMMA UploadKeeps ==
    ASSUME TokensInv, NEW p \in TProcs, TUpload(p)
    PROVE  TokensInv'
<1>1. TokensTypeOK /\ tproc[p].pc = "upload" /\ StageOK(tproc[p])
  BY DEF TokensInv, TUpload
<1>2. /\ UNCHANGED <<tmap, tclient, tpending, tbackups, tvault>> /\ askedSame
      /\ tever' = tever \cup tlive' /\ tours' = TRUE
  BY DEF TUpload, localSame
<1>3. THolds(p)
  BY <1>1 DEF THolds
<1>4. /\ tvault \in TMaps /\ tlive \in TMaps /\ tever \in TMaps /\ tmap \in TMaps
      /\ tclient \in TTokens \cup {NoToken} /\ tpending \in TTokens \cup {NoToken}
      /\ tbackups \in SUBSET TMaps
  BY <1>1 DEF TokensTypeOK
<1>5. ClientKept /\ IdentsKept /\ FirstUpload
  BY DEF TokensInv
<1>6. CASE tproc[p].op = "upload" /\ tlive' = tmap /\ TReturns(p)
  <2>1. TAuthority(tproc[p].man) /\ tvault = tmap
    BY <1>1, <1>6 DEF StageOK
  <2>2. ~tours => tever \subseteq tmap
    BY <1>5, <2>1 DEF FirstUpload, EvidenceOK, TAuthority
  <2>3. ClientKept'
    BY <1>2, <1>5, <1>6, <2>2 DEF ClientKept
  <2>4. IdentsKept'
    <3>1. ASSUME NEW i \in TIdents, TOf(i, tever \cup tmap) # {} PROVE TOf(i, tmap) # {}
      <4>1. CASE TOf(i, tever) # {} /\ tours
        BY <1>5, <4>1 DEF IdentsKept
      <4>2. CASE TOf(i, tever) # {} /\ ~tours
        BY <2>2, <4>2 DEF TOf
      <4>3. CASE TOf(i, tever) = {}
        BY <3>1, <4>3 DEF TOf
      <4> QED
        BY <4>1, <4>2, <4>3
    <3> QED
      BY <1>2, <1>6, <3>1 DEF IdentsKept, TOf
  <2>5. RetiredNotAlone'
    BY <1>2, <1>6 DEF RetiredNotAlone
  <2>6. DeploymentRecoverable'
    BY <1>2, <1>6, <2>1 DEF DeploymentRecoverable
  <2>7. StageOK(TIdle)'
    BY IdleTypes DEF StageOK
  <2>8. tever' \in TMaps
    BY <1>2, <1>4, <1>6 DEF TMaps
  <2> QED
    BY <1>2, <1>3, <1>4, <1>6, <2>3, <2>4, <2>5, <2>6, <2>7, <2>8, IdleTypes, HolderStep DEF TReturns
<1>7. CASE tproc[p].op = "revoke" /\ tlive' = tproc[p].man.cand /\ TGoes(p, "after")
  <2>1. PICK r \in TProcess :
            /\ tproc' = [tproc EXCEPT ![p] = r] /\ r.pc = "after" /\ r.op = tproc[p].op
            /\ r.man = tproc[p].man /\ r.client = tproc[p].client
    BY <1>1, <1>7, GoesOn
  <2>2. /\ RevokeRead(r) /\ tmap = r.man.base /\ tclient = r.client
        /\ tvault = r.man.cand /\ tlive = r.man.base
    BY <1>1, <1>7, <2>1 DEF StageOK, RevokeRead, RevokeHeld
  <2>3. PICK C : C = r.man.cand
    OBVIOUS
  <2>4. /\ C \in TMaps /\ C \subseteq tmap /\ tclient \in C /\ tclient \in tmap
        /\ \A t \in tmap : t \in C \/ \E u \in C : u # t /\ u[1] = t[1]
    <3>1. TSelectable(tmap, tclient, r.man.sel) /\ C = tmap \ TRetired(r.man.sel)
      BY <2>2, <2>3 DEF RevokeRead
    <3>2. PICK B \in TMaps : B = tmap
      BY <1>4
    <3>9. PICK s : s = r.man.sel
      OBVIOUS
    <3>3. TSelectable(B, tclient, s) /\ C = B \ TRetired(s)
      BY <3>1, <3>2, <3>9
    <3>4. /\ C \in TMaps /\ C \subseteq B /\ tclient \in C /\ tclient \in B
          /\ \A t \in B : t \in C \/ \E u \in C : u # t /\ u[1] = t[1]
      BY <3>3, CandidateKeeps
    <3> QED
      BY <3>2, <3>4
  <2>5. tlive' = C /\ tlive = tmap /\ tvault = C
    BY <1>7, <2>1, <2>2, <2>3
  <2>6. ClientKept'
    BY <1>2, <2>4, <2>5 DEF ClientKept
  <2>7. IdentsKept'
    <3>1. ASSUME NEW i \in TIdents, TOf(i, tever \cup C) # {} PROVE TOf(i, C) # {} /\ TOf(i, tmap) # {}
      <4>1. TOf(i, tmap) # {}
        <5>1. CASE TOf(i, tever) # {}
          BY <1>5, <2>5, <5>1 DEF IdentsKept
        <5>2. CASE TOf(i, tever) = {}
          BY <2>4, <3>1, <5>2 DEF TOf
        <5> QED
          BY <5>1, <5>2
      <4>2. PICK t \in tmap : t[1] = i
        BY <4>1 DEF TOf
      <4>3. \E u \in C : u[1] = i
        BY <2>4, <4>2
      <4> QED
        BY <4>1, <4>3 DEF TOf
    <3> QED
      BY <1>2, <2>5, <3>1 DEF IdentsKept, TOf
  <2>8. RetiredNotAlone'
    <3>1. \A t \in tmap : t \in C \/ \E u \in tmap : u # t /\ u[1] = t[1]
      BY <2>4
    <3> QED
      BY <1>2, <2>5, <3>1 DEF RetiredNotAlone
  <2>9. DeploymentRecoverable'
    BY <1>2, <2>5 DEF DeploymentRecoverable
  <2>10. StageOK(r)'
    BY <1>2, <1>7, <2>1, <2>2 DEF StageOK, RevokeRead, RevokeHeld
  <2>11. tever' \in TMaps /\ tlive' \in TMaps
    BY <1>2, <1>4, <2>4, <2>5 DEF TMaps
  <2> QED
    BY <1>2, <1>3, <1>4, <2>1, <2>6, <2>7, <2>8, <2>9, <2>10, <2>11, HolderStep
<1> QED
  BY <1>6, <1>7 DEF TUpload

(* The candidate is published locally once it is deployed.                 *)
LEMMA LocalKeeps ==
    ASSUME TokensInv, NEW p \in TProcs, TLocal(p)
    PROVE  TokensInv'
<1>1. TokensTypeOK /\ tproc[p].pc = "local" /\ StageOK(tproc[p])
  BY DEF TokensInv, TLocal
<1>2. /\ tmap' = tproc[p].man.cand /\ tproc' = [tproc EXCEPT ![p] = TIdle]
      /\ UNCHANGED <<tclient, tpending, tbackups, tvault, tlive, tever, tours>> /\ askedSame
  BY DEF TLocal, TReturns, remoteSame
<1>3. THolds(p)
  BY <1>1 DEF THolds
<1>4. /\ tvault \in TMaps /\ tlive \in TMaps /\ tever \in TMaps
      /\ tclient \in TTokens \cup {NoToken} /\ tpending \in TTokens \cup {NoToken}
      /\ tbackups \in SUBSET TMaps /\ tours \in BOOLEAN
  BY <1>1 DEF TokensTypeOK
<1>5. tmap' = tlive
  BY <1>1, <1>2 DEF StageOK, RevokeHeld
<1>6. ClientKept' /\ IdentsKept' /\ RetiredNotAlone'
  BY <1>2, <1>5 DEF TokensInv, ClientKept, IdentsKept, RetiredNotAlone, TOf
<1>7. DeploymentRecoverable'
  BY <1>2, KeptParts
<1>8. StageOK(TIdle)'
  BY IdleTypes DEF StageOK
<1> QED
  BY <1>2, <1>3, <1>4, <1>5, <1>6, <1>7, <1>8, IdleTypes, HolderStep

LEMMA FailsKeeps ==
    ASSUME TokensInv, NEW p \in TProcs, TFails(p)
    PROVE  TokensInv'
<1>1. TokensTypeOK
  BY DEF TokensInv
<1>2. tleft' \in [TBounded -> Nat]
  BY <1>1, TSpendTypes DEF TFails, TBounded
<1> QED
  BY <1>2, ReturnKeeps DEF TFails

(* One step per action.                                                    *)
LEMMA TokensStep == TokensInv /\ [TokensNext]_tokenVars => TokensInv'
<1> SUFFICES ASSUME TokensInv, [TokensNext]_tokenVars PROVE TokensInv'
  OBVIOUS
<1>0. TokensTypeOK
  BY DEF TokensInv
<1>1. ASSUME TEvidence(tmap, {}) PROVE TokensInv'
  <2>1. tmap \in TMaps /\ {} \in SUBSET (TTokens \X TTokens)
    BY <1>0 DEF TokensTypeOK
  <2>2. PICK c \in TMaps : c = tmap
    BY <2>1
  <2>3. TEvidence(c, {})
    BY <1>1, <2>2
  <2> QED
    BY <2>1, <2>3, EvidenceKeeps
<1>2. ASSUME NEW sel \in SUBSET TPairs, TEvidence(tlive \ TRetired(sel), sel) PROVE TokensInv'
  <2>1. tlive \ TRetired(sel) \in TMaps
    BY <1>0, TokenTypes DEF TMaps
  <2>2. PICK c \in TMaps : c = tlive \ TRetired(sel)
    BY <2>1
  <2>3. sel \in SUBSET (TTokens \X TTokens)
    BY <1>0, TokenTypes DEF TPairs
  <2>4. TEvidence(c, sel)
    BY <1>2, <2>2
  <2> QED
    BY <2>3, <2>4, EvidenceKeeps
<1>3. ASSUME NEW p \in TProcs, NEW op \in TOps, TBegin(p, op) PROVE TokensInv'
  BY <1>3, BeginKeeps
<1>4. ASSUME NEW p \in TProcs, TRead(p) PROVE TokensInv'
  BY <1>4, ReadKeeps
<1>5. ASSUME NEW p \in TProcs, TLock(p) PROVE TokensInv'
  BY <1>5, LockKeeps
<1>6. ASSUME NEW p \in TProcs, TBackup(p) PROVE TokensInv'
  BY <1>6, BackupKeeps
<1>7. ASSUME NEW p \in TProcs, TStore(p) PROVE TokensInv'
  BY <1>7, StoreKeeps
<1>8. ASSUME NEW p \in TProcs, TStage(p) PROVE TokensInv'
  BY <1>8, StageKeeps
<1>9. ASSUME NEW p \in TProcs, TWriteClient(p) PROVE TokensInv'
  BY <1>9, WriteClientKeeps
<1>10. ASSUME NEW p \in TProcs, TPublish(p) PROVE TokensInv'
  BY <1>10, PublishKeeps
<1>11. ASSUME NEW p \in TProcs, TUnstage(p) PROVE TokensInv'
  BY <1>11, UnstageKeeps
<1>12. ASSUME NEW p \in TProcs, TKeepRollback(p) PROVE TokensInv'
  BY <1>12, RollbackKeeps
<1>13. ASSUME NEW p \in TProcs, TEdit(p) PROVE TokensInv'
  BY <1>13, EditKeeps
<1>14. ASSUME NEW p \in TProcs, TBefore(p) \/ TAfter(p) PROVE TokensInv'
  BY <1>14, ReadBackKeeps
<1>15. ASSUME NEW p \in TProcs, TUpload(p) PROVE TokensInv'
  BY <1>15, UploadKeeps
<1>16. ASSUME NEW p \in TProcs, TLocal(p) PROVE TokensInv'
  BY <1>16, LocalKeeps
<1>17. ASSUME NEW p \in TProcs, TFails(p) PROVE TokensInv'
  BY <1>17, FailsKeeps
<1>18. ASSUME UNCHANGED tokenVars PROVE TokensInv'
  <2>1. /\ UNCHANGED <<tmap, tclient, tpending, tvault, tlive, tbackups>>
        /\ UNCHANGED <<tmanifest, tproc, tever, tours, tleft>>
    BY <1>18 DEF tokenVars
  <2>2. TokensTypeOK' /\ OneHolder' /\ FirstUpload'
    BY <2>1 DEF TokensInv, TokensTypeOK, OneHolder, THolds, FirstUpload, EvidenceOK
  <2>3. ClientKept' /\ IdentsKept' /\ RetiredNotAlone' /\ DeploymentRecoverable'
    BY <2>1, KeptParts
  <2>4. \A q \in TProcs : StageOK(tproc[q])'
    BY <2>1 DEF TokensInv, StageOK, RevokeRead, RevokeHeld, TAuthority
  <2> QED
    BY <2>2, <2>3, <2>4 DEF TokensInv
<1> QED
  BY <1>1, <1>2, <1>3, <1>4, <1>5, <1>6, <1>7, <1>8, <1>9, <1>10, <1>11, <1>12, <1>13, <1>14,
     <1>15, <1>16, <1>17, <1>18 DEF TokensNext

(* For every roster, every number of processes and tokens and whatever the *)
(* stores hold at first: however the commands follow each other, on        *)
(* evidence that may be out of date and with any step failing, a client    *)
(* the Worker has accepted and an identity that had access keep it, and    *)
(* what the tool deployed is in one recovery item or backup                *)
(* (cloud_tokens.rs).                                                      *)
THEOREM AccessIsKept == TokensSpec => []CloudAccessKept
<1>1. TokensInit => TokensInv
  BY TokensStart
<1>2. TokensInv /\ [TokensNext]_tokenVars => TokensInv'
  BY TokensStep
<1>3. TokensInv => CloudAccessKept
  BY TokensSound
<1> QED
  BY <1>1, <1>2, <1>3, PTL DEF TokensSpec
-----------------------------------------------------------------------------
(* Direct writes to the Worker.                                            *)

\* Rows are numbered up to sseq, and each is an acknowledgement or a message
\* that was sent.
RowsOK ==
    /\ \A r \in srows : r.seq <= sseq /\ (r.item = SAckItem \/ r.item \in sever)
    /\ sowed \subseteq 1 .. sseq

\* A follower's cursor is of a row, and what lies behind it was not read.
FollowOK(a) ==
    LET b == sbook[a]
    IN  /\ b.cursor <= sseq
        /\ \A s \in SSeqs : s > b.cursor => b.reads[s] = 0
        /\ b.cursor # 0 => b.from # 0

\* Once the lookups are done a caller may acknowledge what is left, and it
\* deletes no pending row before the acknowledgement is stored.
Entitled(c, s) == c \in SVouching \/ \A r \in srows : r.seq = s => For(c, r)
RouteOK(c) ==
    LET q == sroute[c]
    IN  /\ q.todo \subseteq 1 .. sseq /\ q.done \subseteq 1 .. sseq
        /\ q.pc # "idle" => q.todo # {}
        /\ q.pc \in {"insert", "clear"} => \A s \in q.todo : Entitled(c, s)
        /\ q.pc = "clear" => Next_(c) \in sacked

FollowersOK == \A a \in SAgents : FollowOK(a)
RoutesOK == \A c \in SCallers : RouteOK(c)

StoreInv ==
    /\ StoreTypeOK /\ RowsOK /\ FollowersOK /\ RoutesOK
    /\ StoredOnce /\ ReadOnce /\ OwedUntilAcked

-----------------------------------------------------------------------------
(* The least and the greatest of some numbers.                             *)
LEMMA LeastNumber ==
    ASSUME NEW n \in Nat, NEW S \in SUBSET (1 .. n), S # {}
    PROVE  \E x \in S : \A y \in S : x <= y
<1>1. PICK x \in S : \A y \in 1 .. x - 1 : y \notin S
  BY FirstNumber
<1>2. \A y \in S : y \in 1 .. n /\ x \in 1 .. n
  BY <1>1
<1>3. \A y \in S : ~(y \in 1 .. x - 1)
  BY <1>1
<1>4. \A y \in S : x <= y
  BY <1>2, <1>3
<1> QED
  BY <1>1, <1>4

LEMMA GreatestNumber ==
    ASSUME NEW n \in Nat, NEW S \in SUBSET (1 .. n), S # {}
    PROVE  \E x \in S : \A y \in S : y <= x
<1> DEFINE T == {n + 1 - y : y \in S}
<1>0. \A y \in S : n + 1 - y \in 1 .. n
  OBVIOUS
<1>1. T \in SUBSET (1 .. n) /\ T # {}
  BY <1>0
<1>2. PICK m \in T : \A k \in T : m <= k
  BY <1>1, LeastNumber
<1>3. PICK x \in S : m = n + 1 - x
  BY <1>2
<1>4. \A y \in S : m <= n + 1 - y
  BY <1>2
<1>5. \A y \in S : y <= x
  BY <1>3, <1>4
<1> QED
  BY <1>5

(* A page holds with a row every later one if there is no cursor, and      *)
(* every earlier one behind the cursor if there is.                        *)
LEMMA PageIsClosed ==
    ASSUME StoreTypeOK, NEW a \in SAgents, NEW later \in SUBSET SSeqs
    PROVE  /\ PageOf(a, later) \subseteq later
           /\ \A s \in PageOf(a, later) : \A t \in later :
                  (IF sbook[a].cursor = 0 THEN s <= t ELSE t <= s)
                      => t \in PageOf(a, later)
<1>1. IsFiniteSet(later)
  <2>1. IsFiniteSet(SSeqs)
    BY StoreAssumption, FS_Interval DEF SSeqs
  <2> QED BY <2>1, FS_Subset
<1>2. SLimit \in Nat
  BY StoreAssumption
<1> DEFINE Above(s) == {t \in later : t > s}
           Below(s) == {t \in later : t < s}
<1>3. ASSUME NEW s \in later, NEW t \in later, s <= t, Cardinality(Above(s)) < SLimit
      PROVE  Cardinality(Above(t)) < SLimit
  <2>1. s \in Int /\ t \in Int /\ \A u \in later : u \in Int
    BY DEF SSeqs
  <2>2. \A u \in Above(t) : u \in Above(s)
    BY <1>3, <2>1
  <2>3. IsFiniteSet(Above(s))
    BY <1>1, FS_Subset
  <2>4. Above(t) \in SUBSET Above(s)
    BY <2>2
  <2>5. Cardinality(Above(t)) <= Cardinality(Above(s))
    BY <2>3, <2>4, FS_Subset
  <2>6. Cardinality(Above(t)) \in Nat /\ Cardinality(Above(s)) \in Nat
    BY <2>3, <2>4, FS_Subset, FS_CardinalityType
  <2> HIDE DEF Above
  <2> QED BY <1>2, <1>3, <2>5, <2>6
<1>4. ASSUME NEW s \in later, NEW t \in later, t <= s, Cardinality(Below(s)) < SLimit
      PROVE  Cardinality(Below(t)) < SLimit
  <2>1. s \in Int /\ t \in Int /\ \A u \in later : u \in Int
    BY DEF SSeqs
  <2>2. \A u \in Below(t) : u \in Below(s)
    BY <1>4, <2>1
  <2>3. IsFiniteSet(Below(s))
    BY <1>1, FS_Subset
  <2>4. Below(t) \in SUBSET Below(s)
    BY <2>2
  <2>5. Cardinality(Below(t)) <= Cardinality(Below(s))
    BY <2>3, <2>4, FS_Subset
  <2>6. Cardinality(Below(t)) \in Nat /\ Cardinality(Below(s)) \in Nat
    BY <2>3, <2>4, FS_Subset, FS_CardinalityType
  <2> HIDE DEF Below
  <2> QED BY <1>2, <1>4, <2>5, <2>6
<1>5. CASE sbook[a].cursor = 0
  <2>1. PageOf(a, later) = {s \in later : Cardinality(Above(s)) < SLimit}
    BY <1>5 DEF PageOf
  <2> HIDE DEF Above
  <2> QED BY <1>3, <1>5, <2>1
<1>6. CASE sbook[a].cursor # 0
  <2>1. PageOf(a, later) = {s \in later : Cardinality(Below(s)) < SLimit}
    BY <1>6 DEF PageOf
  <2> HIDE DEF Below
  <2> QED BY <1>4, <1>6, <2>1
<1> QED
  BY <1>5, <1>6

-----------------------------------------------------------------------------
LEMMA StoreStart == StoreInit => StoreInv
<1> SUFFICES ASSUME StoreInit PROVE StoreInv
  OBVIOUS
<1>1. SMaxSeq \in Nat /\ SBudgets \subseteq [SBounded -> Nat]
  BY StoreAssumption
<1>2. StoreTypeOK
  BY <1>1 DEF StoreInit, StoreTypeOK, SIdle, SSeqs
<1>3. RowsOK /\ StoredOnce /\ ReadOnce /\ OwedUntilAcked
  BY DEF StoreInit, RowsOK, StoredOnce, ReadOnce, OwedUntilAcked, SIdle
<1>4. FollowersOK
  BY <1>1 DEF StoreInit, FollowersOK, FollowOK
<1>5. RoutesOK
  BY <1>1 DEF StoreInit, RoutesOK, RouteOK, SIdle
<1> QED
  BY <1>2, <1>3, <1>4, <1>5 DEF StoreInv

(* What a step that takes rows away, or none, leaves as it is.             *)
LEMMA FewerRows ==
    ASSUME StoreInv, srows' \subseteq srows, StoreTypeOK',
           UNCHANGED <<sseq, sowed, sroute, sacked, sever, sbook>>
    PROVE  StoreInv'
<1>1. RowsOK' /\ ReadOnce' /\ OwedUntilAcked'
  BY DEF StoreInv, RowsOK, ReadOnce, OwedUntilAcked, For
<1>2. StoredOnce'
  BY DEF StoreInv, StoredOnce
<1>3. FollowersOK'
  BY DEF StoreInv, FollowersOK, FollowOK
<1>4. RoutesOK'
  <2> SUFFICES ASSUME NEW c \in SCallers PROVE RouteOK(c)'
    BY DEF RoutesOK
  <2>1. RouteOK(c)
    BY DEF StoreInv, RoutesOK
  <2>2. \A s : Entitled(c, s) => Entitled(c, s)'
    BY DEF Entitled, For
  <2>3. Next_(c)' = Next_(c)
    BY DEF Next_
  <2> QED BY <2>1, <2>2, <2>3 DEF RouteOK
<1> QED
  BY <1>1, <1>2, <1>3, <1>4 DEF StoreInv

LEMMA StoreSpends ==
    ASSUME StoreTypeOK, NEW w \in SBounded, SSpend(w)
    PROVE  sleft' \in [SBounded -> Nat]
BY DEF StoreTypeOK, SSpend

(* What a step that numbers new rows leaves as it is.                      *)
LEMMA MoreRows ==
    ASSUME StoreInv, NEW N, srows' = srows \cup N, StoreTypeOK',
           sseq <= sseq', sever \subseteq sever', sbook' = sbook,
           \A r \in N : /\ sseq < r.seq /\ r.seq <= sseq'
                        /\ r.item = SAckItem \/ r.item \in sever',
           sowed' = sowed \cup SSeqsOf({r \in N : r.item.ack})
    PROVE  /\ RowsOK' /\ FollowersOK' /\ ReadOnce'
           /\ \A c \in SCallers : \A s \in 1 .. sseq : Entitled(c, s) => Entitled(c, s)'
           /\ \A s \in 1 .. sseq : s \in sowed' => s \in sowed
           /\ \A r \in N : r.item.ack => r.seq \in sowed'
<1>1. sseq \in Nat /\ sseq' \in Nat /\ SMaxSeq \in Nat
  BY StoreAssumption DEF StoreInv, StoreTypeOK
<1>2. /\ \A r \in srows : r.seq \in SSeqs /\ r.seq <= sseq
      /\ \A r \in srows' : r.seq \in SSeqs
  BY DEF StoreInv, StoreTypeOK, RowsOK
<1>3. \A r \in N : r.seq \in Nat /\ r.seq \in 1 .. sseq' /\ ~(r.seq \in 1 .. sseq)
  BY <1>1, <1>2 DEF SSeqs
<1>4. RowsOK'
  <2>1. \A r \in srows' : r.seq <= sseq' /\ (r.item = SAckItem \/ r.item \in sever')
    <3> SUFFICES ASSUME NEW r \in srows'
                 PROVE  r.seq <= sseq' /\ (r.item = SAckItem \/ r.item \in sever')
      OBVIOUS
    <3>1. CASE r \in srows
      BY <1>1, <1>2, <3>1 DEF StoreInv, RowsOK, SSeqs
    <3>2. CASE r \in N
      BY <3>2
    <3> QED BY <3>1, <3>2
  <2>2. \A s \in sowed : s \in 1 .. sseq'
    BY <1>1 DEF StoreInv, RowsOK
  <2>3. \A s \in SSeqsOf({r \in N : r.item.ack}) : s \in 1 .. sseq'
    BY <1>3 DEF SSeqsOf
  <2> QED BY <2>1, <2>2, <2>3 DEF RowsOK
<1>5. FollowersOK'
  <2> SUFFICES ASSUME NEW a \in SAgents PROVE FollowOK(a)'
    BY DEF FollowersOK
  <2>1. FollowOK(a) /\ sbook[a].cursor \in Nat
    BY DEF StoreInv, StoreTypeOK, FollowersOK
  <2> QED BY <1>1, <2>1 DEF FollowOK
<1>6. ReadOnce'
  <2> SUFFICES ASSUME NEW a \in SAgents, NEW r \in srows', For(a, r), sbook[a].from # 0,
                      r.seq \in sbook[a].from .. sbook[a].cursor
               PROVE  sbook[a].reads[r.seq] = 1
    BY DEF ReadOnce, For
  <2>1. sbook[a].cursor \in Nat /\ sbook[a].from \in Nat /\ sbook[a].cursor <= sseq
    BY DEF StoreInv, StoreTypeOK, FollowersOK, FollowOK
  <2>2. r.seq <= sseq /\ r.seq \in Nat
    BY <1>1, <1>2, <2>1 DEF SSeqs
  <2>3. r \in srows
    BY <1>1, <2>2
  <2> QED BY <2>3 DEF StoreInv, ReadOnce
<1>7. ASSUME NEW c \in SCallers, NEW s \in 1 .. sseq, Entitled(c, s)
      PROVE  Entitled(c, s)'
  BY <1>3, <1>7 DEF Entitled, For
<1>8. \A s \in 1 .. sseq : s \in sowed' => s \in sowed
  BY <1>3 DEF SSeqsOf
<1>9. \A r \in N : r.item.ack => r.seq \in sowed'
  BY DEF SSeqsOf
<1> QED
  BY <1>4, <1>5, <1>6, <1>7, <1>8, <1>9

\* What numbers a caller that does nothing else keeps.
LEMMA RoutesKept ==
    ASSUME StoreInv, NEW c \in SCallers, sroute'[c] = sroute[c],
           sseq \in Nat, sseq' \in Nat, sseq <= sseq', sacked \subseteq sacked',
           \A s \in 1 .. sseq : Entitled(c, s) => Entitled(c, s)'
    PROVE  RouteOK(c)'
<1>1. RouteOK(c)
  BY DEF StoreInv, RoutesOK
<1>2. Next_(c)' = Next_(c)
  BY DEF Next_
<1>3. \A s \in 1 .. sseq : s \in 1 .. sseq'
  OBVIOUS
<1> QED
  BY <1>1, <1>2, <1>3 DEF RouteOK

-----------------------------------------------------------------------------
(* The number of an item among the new ones of its request.                *)
LEMMA RankIs ==
    ASSUME NEW F, IsFiniteSet(F), \A i \in F : i.n \in Nat, NEW i \in F
    PROVE  Cardinality({j \in F : j.n <= i.n}) \in 1 .. Cardinality(F)
<1> DEFINE R == {j \in F : j.n <= i.n}
<1>1. R \in SUBSET F /\ IsFiniteSet(R)
  BY FS_Subset
<1>2. Cardinality(R) <= Cardinality(F) /\ Cardinality(R) \in Nat /\ Cardinality(F) \in Nat
  BY <1>1, FS_Subset, FS_CardinalityType
<1>3. i \in R
  OBVIOUS
<1>4. Cardinality(R) # 0
  BY <1>1, <1>3, FS_EmptySet
<1> HIDE DEF R
<1>5. Cardinality(R) \in 1 .. Cardinality(F)
  BY <1>2, <1>4
<1> QED
  BY <1>5 DEF R

(* What is not new in a request was stored.                                *)
LEMMA KnownWasStored ==
    ASSUME StoreInv, NEW p \in SPosts, NEW i \in p, ~Fresh(i)
    PROVE  i \in sever
<1>1. PICK r \in srows : r.item.origin = i.origin /\ r.item.key = i.key
  BY DEF Fresh
<1>2. i.key # 0 /\ i \in SItems
  BY StoreAssumption DEF Fresh
<1>3. SAckItem.key = 0
  BY DEF SAckItem
<1>4. r.item \in sever
  BY <1>1, <1>2, <1>3 DEF StoreInv, RowsOK
<1>5. r.item \in SItems
  BY <1>4 DEF StoreInv, StoreTypeOK
<1>6. r.item = i
  BY <1>1, <1>2, <1>5, StoreAssumption
<1> QED
  BY <1>4, <1>6

LEMMA HandleStep ==
    ASSUME StoreInv, NEW p \in SPosts, SHandle(p)
    PROVE  StoreInv'
<1> DEFINE fresh == NewOf(p)
           rank(i) == Cardinality({j \in fresh : j.n <= i.n})
           new == {[seq |-> sseq + rank(i), item |-> i] : i \in fresh}
           k == Cardinality(fresh)
<1>1. /\ sflight[p] > 0 /\ sflight' = [sflight EXCEPT ![p] = @ - 1]
      /\ sseq + k <= SMaxSeq /\ srows' = srows \cup new /\ sseq' = sseq + k
      /\ sowed' = sowed \cup SSeqsOf({r \in new : r.item.ack})
      /\ sever' = sever \cup fresh
      /\ \/ sdone' = sdone \cup {p} /\ UNCHANGED sleft
         \/ SSpend("faults") /\ UNCHANGED sdone
      /\ UNCHANGED <<sroute, sacked, sbook>>
  BY DEF SHandle
<1>2. p \subseteq SItems /\ IsFiniteSet(p) /\ \A i \in SItems : i.n \in Nat
  BY StoreAssumption
<1>3. fresh \in SUBSET p /\ IsFiniteSet(fresh)
  BY <1>2, FS_Subset DEF NewOf
<1>4. k \in Nat
  BY <1>3, FS_CardinalityType
<1>5. \A i \in fresh : rank(i) \in 1 .. k
  <2> SUFFICES ASSUME NEW i \in fresh PROVE rank(i) \in 1 .. k
    OBVIOUS
  <2>1. \A j \in fresh : j.n \in Nat
    BY <1>2, <1>3
  <2> HIDE DEF fresh
  <2> QED BY <1>3, <2>1, RankIs
<1> HIDE DEF fresh, rank, k
<1>6. StoreTypeOK /\ sseq \in Nat /\ SMaxSeq \in Nat
  BY StoreAssumption DEF StoreInv, StoreTypeOK
<1>7. \A r \in new : /\ r.item \in fresh /\ r.seq = sseq + rank(r.item)
                     /\ r = [seq |-> sseq + rank(r.item), item |-> r.item]
  OBVIOUS
<1>8. \A r \in new : /\ r.seq \in Nat /\ sseq < r.seq /\ r.seq <= sseq'
                     /\ r.seq \in SSeqs
  <2> SUFFICES ASSUME NEW r \in new
               PROVE  r.seq \in Nat /\ sseq < r.seq /\ r.seq <= sseq' /\ r.seq \in SSeqs
    OBVIOUS
  <2>1. r.seq = sseq + rank(r.item) /\ rank(r.item) \in 1 .. k
    BY <1>5, <1>7
  <2> QED BY <1>1, <1>4, <1>6, <2>1 DEF SSeqs
<1>9. fresh \subseteq SItems
  BY <1>2, <1>3
<1>10. new \subseteq [seq : SSeqs, item : SItems \cup {SAckItem}]
  BY <1>5, <1>7, <1>8, <1>9
<1>11. StoreTypeOK'
  <2>1. sleft' \in [SBounded -> Nat]
    <3>1. "faults" \in SBounded
      BY DEF SBounded
    <3>2. CASE UNCHANGED sleft
      BY <1>6, <3>2 DEF StoreTypeOK
    <3>3. CASE SSpend("faults")
      BY <1>6, <3>1, <3>3, StoreSpends
    <3> QED BY <1>1, <3>2, <3>3
  <2>2. sflight' \in [SPosts -> Nat] /\ sdone' \subseteq SPosts
    BY <1>1, <1>6 DEF StoreTypeOK
  <2>3. sowed' \subseteq SSeqs
    BY <1>1, <1>6, <1>8 DEF StoreTypeOK, SSeqsOf
  <2>4. sseq' \in 0 .. SMaxSeq
    BY <1>1, <1>4, <1>6
  <2>5. sever' \subseteq SItems
    BY <1>1, <1>6, <1>9 DEF StoreTypeOK
  <2>6. srows' \subseteq [seq : SSeqs, item : SItems \cup {SAckItem}]
    BY <1>1, <1>6, <1>10 DEF StoreTypeOK
  <2> QED BY <1>1, <1>6, <2>1, <2>2, <2>3, <2>4, <2>5, <2>6 DEF StoreTypeOK
<1>12. \A r \in new : r.item \in sever'
  BY <1>1, <1>7
<1> HIDE DEF new
<1>13. sseq <= sseq' /\ sseq' \in Nat /\ sever \subseteq sever'
  BY <1>1, <1>4, <1>6
<1>14. /\ RowsOK' /\ FollowersOK' /\ ReadOnce'
       /\ \A c \in SCallers : \A s \in 1 .. sseq : Entitled(c, s) => Entitled(c, s)'
       /\ \A s \in 1 .. sseq : s \in sowed' => s \in sowed
       /\ \A r \in new : r.item.ack => r.seq \in sowed'
  BY <1>1, <1>8, <1>11, <1>12, <1>13, MoreRows
<1>15. RoutesOK'
  BY <1>1, <1>6, <1>13, <1>14, RoutesKept DEF RoutesOK
<1>16. StoredOnce'
  <2>1. ASSUME NEW r \in srows', NEW t \in srows', r.item = t.item, r.item.key # 0
        PROVE  r = t
    <3>1. CASE r \in srows /\ t \in srows
      BY <2>1, <3>1 DEF StoreInv, StoredOnce
    <3>2. ASSUME NEW x \in new, NEW y \in srows, x.item = y.item, x.item.key # 0 PROVE FALSE
      <4>1. Fresh(x.item)
        BY <1>7 DEF fresh, NewOf, new
      <4> QED BY <3>2, <4>1 DEF Fresh
    <3>3. CASE r \in new /\ t \in new
      <4>1. /\ r = [seq |-> sseq + rank(r.item), item |-> r.item]
            /\ t = [seq |-> sseq + rank(t.item), item |-> t.item]
        BY <1>7, <3>3 DEF new
      <4> QED BY <2>1, <4>1
    <3>4. (r \in srows \/ r \in new) /\ (t \in srows \/ t \in new)
      BY <1>1
    <3> QED BY <2>1, <3>1, <3>2, <3>3, <3>4
  <2>2. p \subseteq sever'
    BY <1>1, KnownWasStored DEF fresh, NewOf
  <2>3. ASSUME NEW i \in sever' PROVE \E q \in SPosts : i \in q /\ q \subseteq sever'
    <3>1. CASE i \in sever
      BY <1>13, <3>1 DEF StoreInv, StoredOnce
    <3>2. CASE i \in fresh
      BY <1>3, <2>2, <3>2
    <3> QED BY <1>1, <3>1, <3>2
  <2> QED BY <2>1, <2>3 DEF StoredOnce
<1>17. OwedUntilAcked'
  <2>1. ASSUME NEW r \in srows', r.item.ack, r.seq \notin sowed' PROVE r.seq \in sacked'
    <3>1. r \in srows
      BY <1>1, <1>14, <2>1
    <3>2. r.seq \notin sowed
      BY <1>1, <2>1
    <3> QED BY <1>1, <2>1, <3>1, <3>2 DEF StoreInv, OwedUntilAcked
  <2>2. ASSUME NEW c \in SCallers PROVE sroute'[c].done \cap sowed' = {}
    <3>1. sroute[c].done \subseteq 1 .. sseq /\ sroute[c].done \cap sowed = {}
      BY DEF StoreInv, RoutesOK, RouteOK, OwedUntilAcked
    <3> QED BY <1>1, <1>14, <3>1
  <2> QED BY <2>1, <2>2 DEF OwedUntilAcked
<1> QED
  BY <1>11, <1>14, <1>15, <1>16, <1>17 DEF StoreInv

(* A follower reads each row of a page for the first time and passes over  *)
(* none.                                                                   *)
LEMMA ReadStep ==
    ASSUME StoreInv, NEW a \in SAgents, SRead(a)
    PROVE  StoreInv'
<1>1. PICK b : b = sbook[a]
  OBVIOUS
<1> DEFINE later == SSeqsOf({r \in srows : For(a, r) /\ r.seq > b.cursor})
           page == PageOf(a, later)
           first == CHOOSE s \in page : \A t \in page : s <= t
           next == [from |-> IF b.cursor = 0 THEN first ELSE b.from,
                    cursor |-> SMaxOf(page),
                    reads |-> [s \in SSeqs |-> IF s \in page THEN b.reads[s] + 1
                                               ELSE b.reads[s]]]
<1>2. /\ page # {} /\ sbook' = [sbook EXCEPT ![a] = next]
      /\ UNCHANGED <<srows, sseq, sowed, sflight, sdone, sroute, sacked, sever, sleft>>
  BY <1>1 DEF SRead
<1>3. StoreTypeOK /\ SMaxSeq \in Nat /\ sseq \in Nat
  BY StoreAssumption DEF StoreInv, StoreTypeOK
<1>4. b \in [from : 0 .. SMaxSeq, cursor : 0 .. SMaxSeq, reads : [SSeqs -> Nat]]
  BY <1>1, <1>3 DEF StoreTypeOK
<1>5. /\ b.from \in Nat /\ b.cursor \in Nat /\ b.reads \in [SSeqs -> Nat]
      /\ b.from \in 0 .. SMaxSeq
  BY <1>3, <1>4
<1>6. /\ b.cursor <= sseq /\ (b.cursor # 0 => b.from # 0)
      /\ \A s \in SSeqs : s > b.cursor => b.reads[s] = 0
  BY <1>1 DEF StoreInv, FollowersOK, FollowOK
<1>7. \A r \in srows : r.seq \in SSeqs /\ r.seq <= sseq /\ r.seq \in Nat /\ r.seq > 0
  BY <1>3 DEF StoreInv, StoreTypeOK, RowsOK, SSeqs
<1>8. later \in SUBSET SSeqs /\ \A s \in later : s > b.cursor /\ s <= sseq /\ s \in Nat
  BY <1>7 DEF SSeqsOf
<1>9. \A r \in srows : (For(a, r) /\ r.seq > b.cursor) => r.seq \in later
  BY DEF SSeqsOf
<1> HIDE DEF later
<1>10. /\ page \subseteq later
       /\ \A s \in page : \A t \in later :
              (IF b.cursor = 0 THEN s <= t ELSE t <= s) => t \in page
  BY <1>1, <1>3, <1>8, PageIsClosed
<1> HIDE DEF page
<1>11. page \in SUBSET (1 .. SMaxSeq) /\ \A s \in page : s \in SSeqs /\ s \in Nat
  BY <1>8, <1>10 DEF SSeqs
<1>12. first \in page /\ \A t \in page : first <= t
  <2>1. \E s \in page : \A t \in page : s <= t
    BY <1>2, <1>3, <1>11, LeastNumber
  <2> QED BY <2>1
<1>13. SMaxOf(page) \in page /\ \A t \in page : t <= SMaxOf(page)
  <2>1. \E s \in page : \A t \in page : t <= s
    BY <1>2, <1>3, <1>11, GreatestNumber
  <2> QED BY <2>1 DEF SMaxOf
<1> HIDE DEF first
<1>14. PICK lo \in page, hi \in page :
           /\ lo = first /\ hi = SMaxOf(page)
           /\ \A t \in page : lo <= t /\ t <= hi
  BY <1>12, <1>13
<1>15. lo \in Nat /\ hi \in Nat /\ hi > b.cursor /\ hi <= sseq /\ lo > 0
  BY <1>5, <1>8, <1>10, <1>14
<1>16. PICK x : x = next
  OBVIOUS
<1>17. /\ x.from = IF b.cursor = 0 THEN lo ELSE b.from
       /\ x.cursor = hi
       /\ x.reads = [s \in SSeqs |-> IF s \in page THEN b.reads[s] + 1 ELSE b.reads[s]]
  BY <1>14, <1>16
<1>18. /\ sbook' = [sbook EXCEPT ![a] = x] /\ sbook'[a] = x
       /\ \A c \in SAgents : c # a => sbook'[c] = sbook[c]
  BY <1>2, <1>3, <1>16 DEF StoreTypeOK
<1>19. x \in [from : 0 .. SMaxSeq, cursor : 0 .. SMaxSeq, reads : [SSeqs -> Nat]]
  <2>1. x.from \in 0 .. SMaxSeq /\ x.cursor \in 0 .. SMaxSeq
    BY <1>3, <1>5, <1>11, <1>14, <1>17
  <2>2. x.reads \in [SSeqs -> Nat]
    BY <1>5, <1>17
  <2>3. x = [from |-> x.from, cursor |-> x.cursor, reads |-> x.reads]
    BY <1>16
  <2> QED BY <2>1, <2>2, <2>3
<1>20. StoreTypeOK'
  BY <1>2, <1>3, <1>18, <1>19 DEF StoreTypeOK
<1>21. FollowersOK'
  <2> SUFFICES ASSUME NEW c \in SAgents PROVE FollowOK(c)'
    BY DEF FollowersOK
  <2>1. CASE c = a
    <3>1. x.cursor <= sseq' /\ (x.cursor # 0 => x.from # 0)
      <4>1. sseq' = sseq
        BY <1>2
      <4> QED BY <1>5, <1>6, <1>15, <1>17, <4>1
    <3>2. \A s \in SSeqs : s > x.cursor => x.reads[s] = 0
      <4> SUFFICES ASSUME NEW s \in SSeqs, s > hi PROVE x.reads[s] = 0
        BY <1>17
      <4>1. s \in Nat /\ s \notin page
        BY <1>14, <1>15 DEF SSeqs
      <4>2. b.reads[s] = 0
        BY <1>5, <1>6, <1>15, <4>1
      <4> QED BY <1>17, <4>1, <4>2
    <3> QED BY <1>18, <2>1, <3>1, <3>2 DEF FollowOK
  <2>2. CASE c # a
    BY <1>2, <1>18, <2>2 DEF StoreInv, FollowersOK, FollowOK
  <2> QED BY <2>1, <2>2
<1>22. ReadOnce'
  <2> SUFFICES ASSUME NEW c \in SAgents, NEW r \in srows, For(c, r),
                      sbook'[c].from # 0, r.seq \in sbook'[c].from .. sbook'[c].cursor
               PROVE  sbook'[c].reads[r.seq] = 1
    BY <1>2 DEF ReadOnce, For
  <2>1. CASE c = a
    <3>1. PICK s \in SSeqs : s = r.seq
      BY <1>7
    <3>2. s \in Nat /\ s \in x.from .. hi
      BY <1>7, <1>17, <1>18, <2>1, <3>1
    <3>3. CASE s \in page
      <4>1. b.reads[s] = 0
        BY <1>5, <1>6, <1>8, <1>10, <3>3
      <4> QED BY <1>17, <1>18, <2>1, <3>1, <3>3, <4>1
    <3>4. CASE s \notin page
      <4>1. ~(s > b.cursor)
        <5>1. SUFFICES ASSUME s > b.cursor PROVE FALSE
          OBVIOUS
        <5>2. s \in later
          BY <1>9, <2>1, <3>1, <5>1
        <5>3. CASE b.cursor = 0
          BY <1>10, <1>14, <1>15, <1>17, <3>2, <3>4, <5>2, <5>3
        <5>4. CASE b.cursor # 0
          <6>1. s <= hi
            BY <1>5, <1>15, <1>17, <3>2, <5>4
          <6> QED BY <1>10, <1>14, <3>4, <5>2, <5>4, <6>1
        <5> QED BY <5>3, <5>4
      <4>2. b.cursor # 0 /\ s \in b.from .. b.cursor /\ x.from = b.from
        BY <1>5, <1>7, <1>15, <1>17, <3>1, <3>2, <4>1
      <4>3. b.from # 0 /\ For(a, r) /\ r.seq \in sbook[a].from .. sbook[a].cursor
        BY <1>1, <1>6, <2>1, <3>1, <4>2
      <4>4. b.reads[s] = 1
        BY <1>1, <3>1, <4>3 DEF StoreInv, ReadOnce
      <4> QED BY <1>17, <1>18, <2>1, <3>1, <3>4, <4>4
    <3> QED BY <3>3, <3>4
  <2>2. CASE c # a
    BY <1>18, <2>2 DEF StoreInv, ReadOnce
  <2> QED BY <2>1, <2>2
<1>23. RowsOK' /\ StoredOnce' /\ OwedUntilAcked'
  BY <1>2 DEF StoreInv, RowsOK, StoredOnce, OwedUntilAcked
<1>24. RoutesOK'
  <2> SUFFICES ASSUME NEW c \in SCallers PROVE RouteOK(c)'
    BY DEF RoutesOK
  <2>1. \A s \in 1 .. sseq : Entitled(c, s) => Entitled(c, s)'
    BY <1>2 DEF Entitled, For
  <2> QED BY <1>2, <1>3, <2>1, RoutesKept
<1> QED
  BY <1>20, <1>21, <1>22, <1>23, <1>24 DEF StoreInv

-----------------------------------------------------------------------------
(* A step of one acknowledgement route that leaves the table as it is.     *)
LEMMA RouteMoves ==
    ASSUME StoreInv, NEW c \in SCallers, NEW q, StoreTypeOK',
           sroute' = [sroute EXCEPT ![c] = q], sowed' \subseteq sowed,
           UNCHANGED <<srows, sseq, sacked, sever, sbook>>,
           q.done \cap sowed' = {}, RouteOK(c)',
           \A s \in sowed : s \in sowed' \/ s \in sacked
    PROVE  StoreInv'
<1>1. /\ sroute'[c] = q /\ \A d \in SCallers : d # c => sroute'[d] = sroute[d]
      /\ sseq \in Nat /\ StoreTypeOK
  BY DEF StoreInv, StoreTypeOK
<1>2. RowsOK' /\ StoredOnce' /\ ReadOnce'
  BY DEF StoreInv, RowsOK, StoredOnce, ReadOnce, For
<1>3. FollowersOK'
  BY DEF StoreInv, FollowersOK, FollowOK
<1>4. OwedUntilAcked'
  <2>1. \A d \in SCallers : sroute'[d].done \cap sowed' = {}
    BY <1>1 DEF StoreInv, OwedUntilAcked
  <2>2. \A r \in srows' : (r.item.ack /\ r.seq \notin sowed') => r.seq \in sacked'
    BY DEF StoreInv, OwedUntilAcked
  <2> QED BY <2>1, <2>2 DEF OwedUntilAcked
<1>5. RoutesOK'
  <2> SUFFICES ASSUME NEW d \in SCallers, d # c PROVE RouteOK(d)'
    BY DEF RoutesOK
  <2>1. \A s \in 1 .. sseq : Entitled(d, s) => Entitled(d, s)'
    BY DEF Entitled, For
  <2> QED BY <1>1, <2>1, RoutesKept
<1> QED
  BY <1>2, <1>3, <1>4, <1>5 DEF StoreInv

LEMMA AckStep ==
    ASSUME StoreInv, NEW c \in SCallers, NEW ids \in SUBSET (1 .. sseq), SAck(c, ids)
    PROVE  StoreInv'
<1>1. PICK q : q = [pc |-> "check", todo |-> ids, done |-> {}]
  OBVIOUS
<1>2. /\ q.pc = "check" /\ q.todo = ids /\ q.done = {} /\ ids # {} /\ SSpend("acks")
      /\ sroute' = [sroute EXCEPT ![c] = q]
      /\ UNCHANGED <<srows, sseq, sowed, sflight, sdone, sacked, sever, sbook>>
  BY <1>1 DEF SAck
<1>3. StoreTypeOK /\ sseq \in Nat /\ SMaxSeq \in Nat /\ sseq <= SMaxSeq
  BY StoreAssumption DEF StoreInv, StoreTypeOK
<1>4. ids \in SUBSET SSeqs
  BY <1>3 DEF SSeqs
<1>5. sleft' \in [SBounded -> Nat]
  BY <1>2, <1>3, StoreSpends DEF SBounded
<1>6. StoreTypeOK'
  BY <1>1, <1>2, <1>3, <1>4, <1>5 DEF StoreTypeOK
<1>7. RouteOK(c)'
  <2>1. sroute'[c] = q
    BY <1>2, <1>3 DEF StoreTypeOK
  <2> QED BY <1>2, <2>1 DEF RouteOK
<1> QED
  BY <1>2, <1>6, <1>7, RouteMoves

LEMMA CheckStep ==
    ASSUME StoreInv, NEW c \in SCallers, SAckCheck(c)
    PROVE  StoreInv'
<1> DEFINE q == IF \A s \in sroute[c].todo : MayAck(c, s)
                THEN [sroute[c] EXCEPT !.pc = "insert"] ELSE SIdle
<1>1. /\ sroute[c].pc = "check" /\ sroute' = [sroute EXCEPT ![c] = q]
      /\ UNCHANGED <<srows, sseq, sowed, sflight, sdone, sacked, sever, sbook, sleft>>
  BY DEF SAckCheck
<1>2. StoreTypeOK /\ sseq \in Nat /\ RouteOK(c)
  BY DEF StoreInv, StoreTypeOK, RoutesOK
<1>3. sroute[c] \in [pc : {"idle", "check", "insert", "clear"},
                     todo : SUBSET SSeqs, done : SUBSET SSeqs]
  BY <1>2 DEF StoreTypeOK
<1>4. q \in [pc : {"idle", "check", "insert", "clear"},
             todo : SUBSET SSeqs, done : SUBSET SSeqs]
  BY <1>3 DEF SIdle
<1>5. /\ q.todo \subseteq 1 .. sseq /\ q.done \subseteq 1 .. sseq
      /\ q.done \cap sowed = {} /\ q.pc \in {"idle", "insert"}
      /\ q.pc # "idle" => q.todo # {}
      /\ q.pc = "insert" => \A s \in q.todo : Entitled(c, s)
  <2>1. sroute[c].done \cap sowed = {}
    BY DEF StoreInv, OwedUntilAcked
  <2>2. CASE \A s \in sroute[c].todo : MayAck(c, s)
    <3>1. q.pc = "insert" /\ q.todo = sroute[c].todo /\ q.done = sroute[c].done
      BY <1>3, <2>2
    <3> HIDE DEF q
    <3> QED BY <1>1, <1>2, <2>1, <2>2, <3>1 DEF RouteOK, MayAck, Entitled
  <2>3. CASE ~(\A s \in sroute[c].todo : MayAck(c, s))
    <3>1. q.pc = "idle" /\ q.todo = {} /\ q.done = {}
      BY <2>3 DEF SIdle
    <3> HIDE DEF q
    <3> QED BY <3>1
  <2> HIDE DEF q
  <2> QED BY <2>2, <2>3
<1> HIDE DEF q
<1>6. StoreTypeOK'
  BY <1>1, <1>2, <1>4 DEF StoreTypeOK
<1>7. RouteOK(c)'
  <2>1. sroute'[c] = q
    BY <1>1, <1>2 DEF StoreTypeOK
  <2>2. \A s : Entitled(c, s) => Entitled(c, s)'
    BY <1>1 DEF Entitled, For
  <2> QED BY <1>1, <1>5, <2>1, <2>2 DEF RouteOK
<1> QED
  BY <1>1, <1>5, <1>6, <1>7, RouteMoves

(* The id whose turn it is.                                                *)
LEMMA NextIsLeft ==
    ASSUME StoreInv, NEW c \in SCallers, sroute[c].pc # "idle"
    PROVE  Next_(c) \in sroute[c].todo
<1>1. sroute[c].todo \in SUBSET (1 .. sseq) /\ sroute[c].todo # {} /\ sseq \in Nat
  BY DEF StoreInv, StoreTypeOK, RoutesOK, RouteOK
<1>2. \E s \in sroute[c].todo : \A t \in sroute[c].todo : s <= t
  BY <1>1, LeastNumber
<1> QED
  BY <1>2 DEF Next_

LEMMA InsertStep ==
    ASSUME StoreInv, NEW c \in SCallers, SAckInsert(c)
    PROVE  StoreInv'
<1>1. PICK s : s = Next_(c)
  OBVIOUS
<1> DEFINE row == [seq |-> sseq + 1, item |-> SAckItem]
<1>2. /\ sroute[c].pc = "insert" /\ sseq < SMaxSeq
      /\ srows' = srows \cup {row} /\ sseq' = sseq + 1
      /\ sacked' = IF Entitled(c, s) THEN sacked \cup {s} ELSE sacked
      /\ sroute' = [sroute EXCEPT ![c].pc = "clear"]
      /\ UNCHANGED <<sowed, sflight, sdone, sever, sbook, sleft>>
  BY <1>1 DEF SAckInsert, Entitled
<1>3. /\ StoreTypeOK /\ sseq \in Nat /\ SMaxSeq \in Nat /\ RouteOK(c)
      /\ sroute[c] \in [pc : {"idle", "check", "insert", "clear"},
                        todo : SUBSET SSeqs, done : SUBSET SSeqs]
  BY StoreAssumption DEF StoreInv, StoreTypeOK, RoutesOK
<1>4. s \in sroute[c].todo /\ s \in 1 .. sseq /\ s \in SSeqs
  BY <1>1, <1>2, <1>3, NextIsLeft DEF RouteOK
<1>5. Entitled(c, s)
  BY <1>2, <1>3, <1>4 DEF RouteOK
<1>6. sacked' = sacked \cup {s}
  BY <1>2, <1>5
<1>7. PICK q : q = [sroute[c] EXCEPT !.pc = "clear"]
  OBVIOUS
<1>8. /\ q.pc = "clear" /\ q.todo = sroute[c].todo /\ q.done = sroute[c].done
      /\ q \in [pc : {"idle", "check", "insert", "clear"},
                todo : SUBSET SSeqs, done : SUBSET SSeqs]
  BY <1>3, <1>7
<1>9. /\ sroute' = [sroute EXCEPT ![c] = q] /\ sroute'[c] = q
      /\ \A d \in SCallers : d # c => sroute'[d] = sroute[d]
  BY <1>2, <1>3, <1>7 DEF StoreTypeOK
<1>10. row.seq = sseq + 1 /\ row.item = SAckItem /\ SAckItem.ack = FALSE /\ SAckItem.key = 0
  BY DEF SAckItem
<1>11. row \in [seq : SSeqs, item : SItems \cup {SAckItem}]
  BY <1>2, <1>3 DEF SSeqs
<1> HIDE DEF row
<1>12. StoreTypeOK'
  <2>1. srows' \subseteq [seq : SSeqs, item : SItems \cup {SAckItem}] /\ sseq' \in 0 .. SMaxSeq
    BY <1>2, <1>3, <1>11 DEF StoreTypeOK
  <2> QED BY <1>2, <1>3, <1>4, <1>6, <1>8, <1>9, <2>1 DEF StoreTypeOK
<1>13. sowed' = sowed \cup SSeqsOf({r \in {row} : r.item.ack})
  BY <1>2, <1>10 DEF SSeqsOf
<1>14. sseq <= sseq' /\ sseq' \in Nat /\ sseq < row.seq /\ row.seq <= sseq'
  BY <1>2, <1>3, <1>10
<1>15. /\ RowsOK' /\ FollowersOK' /\ ReadOnce'
       /\ \A d \in SCallers : \A t \in 1 .. sseq : Entitled(d, t) => Entitled(d, t)'
  <2>1. PICK N : N = {row}
    OBVIOUS
  <2>2. \A r \in N : /\ sseq < r.seq /\ r.seq <= sseq'
                     /\ r.item = SAckItem \/ r.item \in sever'
    BY <1>10, <1>14, <2>1
  <2>3. srows' = srows \cup N /\ sowed' = sowed \cup SSeqsOf({r \in N : r.item.ack})
    BY <1>2, <1>13, <2>1
  <2>4. sever \subseteq sever' /\ sbook' = sbook
    BY <1>2
  <2> QED BY <1>12, <1>14, <2>2, <2>3, <2>4, MoreRows
<1>16. StoredOnce'
  <2>1. ASSUME NEW r \in srows', NEW t \in srows', r.item = t.item, r.item.key # 0
        PROVE  r = t
    <3>1. r \in srows /\ t \in srows
      BY <1>2, <1>10, <2>1
    <3> QED BY <2>1, <3>1 DEF StoreInv, StoredOnce
  <2> QED BY <1>2, <2>1 DEF StoreInv, StoredOnce
<1>17. OwedUntilAcked'
  <2>1. ASSUME NEW r \in srows', r.item.ack, r.seq \notin sowed' PROVE r.seq \in sacked'
    <3>1. r \in srows
      BY <1>2, <1>10, <2>1
    <3> QED BY <1>2, <1>6, <2>1, <3>1 DEF StoreInv, OwedUntilAcked
  <2>2. \A d \in SCallers : sroute'[d].done \cap sowed' = {}
    BY <1>2, <1>8, <1>9 DEF StoreInv, OwedUntilAcked
  <2> QED BY <2>1, <2>2 DEF OwedUntilAcked
<1>18. RoutesOK'
  <2> SUFFICES ASSUME NEW d \in SCallers PROVE RouteOK(d)'
    BY DEF RoutesOK
  <2>1. CASE d = c
    <3>1. \A t \in 1 .. sseq : t \in 1 .. sseq'
      BY <1>3, <1>14
    <3>2. q.todo \subseteq 1 .. sseq' /\ q.done \subseteq 1 .. sseq' /\ q.todo # {}
      BY <1>3, <1>4, <1>8, <3>1 DEF RouteOK
    <3>3. \A t \in q.todo : Entitled(c, t)'
      BY <1>2, <1>3, <1>8, <1>15 DEF RouteOK
    <3>4. Next_(c)' = s
      BY <1>1, <1>8, <1>9 DEF Next_
    <3> QED BY <1>6, <1>9, <2>1, <3>2, <3>3, <3>4 DEF RouteOK
  <2>2. CASE d # c
    BY <1>3, <1>6, <1>9, <1>14, <1>15, <2>2, RoutesKept
  <2> QED BY <2>1, <2>2
<1> QED
  BY <1>12, <1>15, <1>16, <1>17, <1>18 DEF StoreInv

LEMMA ClearStep ==
    ASSUME StoreInv, NEW c \in SCallers, SAckClear(c)
    PROVE  StoreInv'
<1>1. PICK s : s = Next_(c)
  OBVIOUS
<1>2. PICK rest : rest = sroute[c].todo \ {s}
  OBVIOUS
<1>3. PICK q : q = [pc |-> IF rest = {} THEN "idle" ELSE "insert", todo |-> rest,
                    done |-> sroute[c].done \cup {s}]
  OBVIOUS
<1>4. /\ sroute[c].pc = "clear" /\ sowed' = sowed \ {s}
      /\ sroute' = [sroute EXCEPT ![c] = q]
      /\ UNCHANGED <<srows, sseq, sflight, sdone, sacked, sever, sbook, sleft>>
  BY <1>1, <1>2, <1>3 DEF SAckClear
<1>5. /\ StoreTypeOK /\ sseq \in Nat /\ RouteOK(c)
      /\ sroute[c] \in [pc : {"idle", "check", "insert", "clear"},
                        todo : SUBSET SSeqs, done : SUBSET SSeqs]
  BY DEF StoreInv, StoreTypeOK, RoutesOK
<1>6. s \in sroute[c].todo /\ s \in 1 .. sseq /\ s \in SSeqs
  BY <1>1, <1>4, <1>5, NextIsLeft DEF RouteOK
<1>7. s \in sacked
  BY <1>1, <1>4, <1>5 DEF RouteOK
<1>8. /\ q.pc = IF rest = {} THEN "idle" ELSE "insert"
      /\ q.todo = rest /\ q.done = sroute[c].done \cup {s}
  BY <1>3
<1>9. q \in [pc : {"idle", "check", "insert", "clear"},
             todo : SUBSET SSeqs, done : SUBSET SSeqs]
  BY <1>2, <1>3, <1>5, <1>6
<1>10. StoreTypeOK'
  BY <1>4, <1>5, <1>9 DEF StoreTypeOK
<1>11. RouteOK(c)'
  <2>1. sroute'[c] = q
    BY <1>4, <1>5 DEF StoreTypeOK
  <2>2. \A t : Entitled(c, t) => Entitled(c, t)'
    BY <1>4 DEF Entitled, For
  <2>3. q.todo \subseteq 1 .. sseq /\ q.done \subseteq 1 .. sseq
    BY <1>2, <1>5, <1>6, <1>8 DEF RouteOK
  <2>4. \A t \in q.todo : Entitled(c, t)
    BY <1>2, <1>4, <1>5, <1>8 DEF RouteOK
  <2> QED BY <1>4, <1>8, <2>1, <2>2, <2>3, <2>4 DEF RouteOK
<1>12. q.done \cap sowed' = {}
  <2>1. sroute[c].done \cap sowed = {}
    BY DEF StoreInv, OwedUntilAcked
  <2> QED BY <1>4, <1>8, <2>1
<1> QED
  BY <1>4, <1>7, <1>10, <1>11, <1>12, RouteMoves

LEMMA AckFailsStep ==
    ASSUME StoreInv, NEW c \in SCallers, SAckFails(c)
    PROVE  StoreInv'
<1>1. /\ StoreTypeOK /\ sseq \in Nat /\ RouteOK(c)
      /\ sroute[c] \in [pc : {"idle", "check", "insert", "clear"},
                        todo : SUBSET SSeqs, done : SUBSET SSeqs]
  BY DEF StoreInv, StoreTypeOK, RoutesOK
<1>2. PICK q : q = [sroute[c] EXCEPT !.pc = "idle", !.todo = {}]
  OBVIOUS
<1>3. /\ q.pc = "idle" /\ q.todo = {} /\ q.done = sroute[c].done
      /\ q \in [pc : {"idle", "check", "insert", "clear"},
                todo : SUBSET SSeqs, done : SUBSET SSeqs]
  BY <1>1, <1>2
<1>4. /\ SSpend("faults") /\ sroute' = [sroute EXCEPT ![c] = q]
      /\ UNCHANGED <<srows, sseq, sowed, sflight, sdone, sacked, sever, sbook>>
  BY <1>1, <1>2 DEF SAckFails, StoreTypeOK
<1>5. sleft' \in [SBounded -> Nat]
  BY <1>1, <1>4, StoreSpends DEF SBounded
<1>6. StoreTypeOK'
  BY <1>1, <1>3, <1>4, <1>5 DEF StoreTypeOK
<1>7. RouteOK(c)'
  <2>1. sroute'[c] = q
    BY <1>1, <1>4 DEF StoreTypeOK
  <2> QED BY <1>1, <1>3, <1>4, <2>1 DEF RouteOK
<1>8. q.done \cap sowed' = {}
  BY <1>3, <1>4 DEF StoreInv, OwedUntilAcked
<1> QED
  BY <1>4, <1>6, <1>7, <1>8, RouteMoves

LEMMA StoreStep == StoreInv /\ [StoreNext]_storeVars => StoreInv'
<1> SUFFICES ASSUME StoreInv, [StoreNext]_storeVars PROVE StoreInv'
  OBVIOUS
<1>1. StoreTypeOK
  BY DEF StoreInv
<1>2. CASE \E p \in SPosts : SSend(p)
  <2>1. PICK p \in SPosts : SSend(p)
    BY <1>2
  <2>2. sleft' \in [SBounded -> Nat]
    BY <1>1, <2>1, StoreSpends DEF SSend, SBounded
  <2>3. StoreTypeOK'
    BY <1>1, <2>1, <2>2 DEF SSend, StoreTypeOK
  <2> QED BY <2>1, <2>3, FewerRows DEF SSend
<1>3. CASE \E p \in SPosts : SHandle(p)
  BY <1>3, HandleStep
<1>4. CASE \E p \in SPosts : SHandleFails(p)
  <2>1. PICK p \in SPosts : SHandleFails(p)
    BY <1>4
  <2>2. sleft' \in [SBounded -> Nat]
    BY <1>1, <2>1, StoreSpends DEF SHandleFails, SBounded
  <2>3. StoreTypeOK'
    BY <1>1, <2>1, <2>2 DEF SHandleFails, StoreTypeOK
  <2> QED BY <2>1, <2>3, FewerRows DEF SHandleFails
<1>5. CASE \E a \in SAgents : SRead(a)
  BY <1>5, ReadStep
<1>6. CASE \E c \in SCallers : \E ids \in SUBSET (1 .. sseq) : SAck(c, ids)
  BY <1>6, AckStep
<1>7. CASE \E c \in SCallers : SAckCheck(c)
  BY <1>7, CheckStep
<1>8. CASE \E c \in SCallers : SAckInsert(c)
  BY <1>8, InsertStep
<1>9. CASE \E c \in SCallers : SAckClear(c)
  BY <1>9, ClearStep
<1>10. CASE \E c \in SCallers : SAckFails(c)
  BY <1>10, AckFailsStep
<1>11. CASE SSweep
  <2>1. /\ SSpend("sweeps") /\ srows' \subseteq srows
        /\ UNCHANGED <<sseq, sowed, sflight, sdone, sroute, sacked, sever, sbook>>
    BY <1>11 DEF SSweep
  <2>2. sleft' \in [SBounded -> Nat]
    BY <1>1, <2>1, StoreSpends DEF SBounded
  <2>3. StoreTypeOK'
    BY <1>1, <2>1, <2>2 DEF StoreTypeOK
  <2> QED BY <2>1, <2>3, FewerRows
<1>12. CASE UNCHANGED storeVars
  <2>1. /\ srows' \subseteq srows /\ StoreTypeOK'
        /\ UNCHANGED <<sseq, sowed, sroute, sacked, sever, sbook>>
    BY <1>1, <1>12 DEF storeVars, StoreTypeOK
  <2> QED BY <2>1, FewerRows
<1> QED
  BY <1>2, <1>3, <1>4, <1>5, <1>6, <1>7, <1>8, <1>9, <1>10, <1>11, <1>12 DEF StoreNext

(* However often requests are repeated, answers lost and routes broken     *)
(* off, for any agents, requests, page limit and number of faults and      *)
(* sweeps: a direct write with a client_msg_id is in the table once and    *)
(* with all of its request, a follower of its notifications reads each     *)
(* retained one once and passes over none, and a pending acknowledgement   *)
(* goes only with one of somebody who may give it (insertMessage,          *)
(* insertMessageBatch, listNotifications, the ack routes).                 *)
THEOREM DeliveryIsKept == StoreSpec => []CloudDelivery
<1>1. StoreInit => StoreInv
  BY StoreStart
<1>2. StoreInv /\ [StoreNext]_storeVars => StoreInv'
  BY StoreStep
<1>3. StoreInv => CloudDelivery
  BY DEF StoreInv, CloudDelivery
<1> QED
  BY <1>1, <1>2, <1>3, PTL DEF StoreSpec
===============================================================================
