---------------------------- MODULE ClaimsProofs ----------------------------
(***************************************************************************)
(* Claims, proved for any agents, modes, leases and bounds: the model is   *)
(* type correct however many processes there are, and where one process    *)
(* runs the operations, one after the other, the hash and the promises     *)
(* never conflict and a claim is kept to its last second.  Two processes   *)
(* break each of the three; ExclusiveHeldByOne shows how.                  *)
(***************************************************************************)
EXTENDS Claims, WellFoundedInduction, TLAPS

-----------------------------------------------------------------------------
(* Type correctness.                                                       *)

\* There is a longest lease.
Bounded(v) == \E n \in Nat : \A a \in Agents : v[a].exp <= n

\* What a call was asked, and when it began and read.
CallOK(r) ==
    /\ r \in Proc
    /\ r.at \in 0 .. now /\ r.seen \in 0 .. now /\ r.ttl \in Nat
    /\ r.op \in {"claim", "renew", "release", "resolve", "notify"} => r.agent \in Agents
    /\ r.op = "claim" => r.mode \in LeaseModes
    /\ r.pc \in {"record", "recorded"} => r.op = "resolve"
    /\ r.pc = "notify" => r.op = "notify"
    /\ Bounded(r.view)

TypeInv ==
    /\ TypeOK
    /\ Bounded(hash)
    /\ \A p \in Procs : CallOK(proc[p])

\* A non-empty set of numbers with a bound has a greatest one.
LEMMA GreatestExists ==
    ASSUME NEW S \in SUBSET Nat, S # {}, NEW n \in Nat, \A x \in S : x <= n
    PROVE  \E x \in S : \A y \in S : y <= x
<1> DEFINE B == {m \in Nat : \A x \in S : x <= m}
<1>1. n \in B OBVIOUS
<1>2. PICK m \in B : \A k \in B : ~(<<k, m>> \in OpToRel(<, Nat))
  BY <1>1, WFMin, NatLessThanWellFounded
<1>3. \A k \in B : ~(k < m) BY <1>2 DEF OpToRel
<1>4. m \in S
  <2>1. SUFFICES ASSUME m \notin S PROVE FALSE OBVIOUS
  <2>2. PICK x \in S : TRUE OBVIOUS
  <2>3. m - 1 \in B BY <2>1, <2>2
  <2> QED BY <1>3, <2>3
<1> QED BY <1>4

\* Whole seconds: n div Second seconds are n instants but for less than one.
LEMMA WholeSeconds ==
    ASSUME NEW n \in Nat
    PROVE  /\ n \div Second \in Nat
           /\ (n \div Second) * Second <= n
           /\ n - Second < (n \div Second) * Second
<1>1. Second \in Nat \ {0} BY ClaimsAssumption
<1> QED BY <1>1

\* The TTL of the hash reaches to the last second of every claim, and is 0
\* only when each claim is in its last second.
LEMMA HashTTLReaches ==
    ASSUME NEW v \in Claims, Bounded(v), NEW t \in Nat, NEW n \in HashTTLs(v, t)
    PROVE  /\ n \in Nat /\ n * Second \in Nat
           /\ \A a \in Holders(v) : v[a].exp - Second <= t + n * Second
           /\ n = 0 => \A a \in Holders(v) : v[a].exp <= t + Second
<1>0. Second \in Nat \ {0} BY ClaimsAssumption
<1> DEFINE ends == {v[a].exp : a \in {b \in Holders(v) : Unexpired(v[b], t)}}
           e == CHOOSE x \in ends : \A y \in ends : y <= x
<1>t. \A a \in Holders(v) : a \in Agents /\ v[a].exp \in Int
  BY DEF Holders, Claims, Claim, NoClaim
<1>c. ASSUME NEW a \in Holders(v), v[a].exp > t PROVE v[a].exp \in ends
  BY <1>c DEF Unexpired
<1>d. \A x \in ends : x \in Nat /\ x > t /\ \E a \in Holders(v) : x = v[a].exp
  BY <1>t DEF Unexpired
<1>h. HashTTLs(v, t) = IF ends = {} THEN {1}
                       ELSE {(e - t) \div Second, (e - t - 1) \div Second}
  BY DEF HashTTLs
<1> HIDE DEF ends
<1>1. CASE ends = {}
  <2>1. n = 1 BY <1>1, <1>h
  <2>2. ASSUME NEW a \in Holders(v) PROVE v[a].exp <= t
    BY <1>1, <1>t, <1>c, <2>2
  <2>4. n * Second = Second BY <2>1, <1>0
  <2> QED BY <2>1, <2>2, <2>4, <1>0, <1>t
<1>2. CASE ends # {}
  <2>2. PICK m \in Nat : \A a \in Agents : v[a].exp <= m BY DEF Bounded
  <2>3. \A x \in ends : x <= m BY <2>2, <1>d, <1>t
  <2>4. \E x \in ends : \A y \in ends : y <= x
    BY <1>2, <1>d, <2>3, GreatestExists
  <2>5. e \in ends /\ \A y \in ends : y <= e BY <2>4
  <2>6. e \in Nat /\ e > t BY <1>d, <2>5
  <2>7. n = (e - t) \div Second \/ n = (e - t - 1) \div Second BY <1>2, <1>h
  <2> HIDE DEF e
  <2>8. ASSUME NEW a \in Holders(v) PROVE v[a].exp <= e
    BY <1>t, <1>c, <2>5, <2>6
  <2>9. n \in Nat /\ n * Second \in Nat /\ e - Second <= t + n * Second
    <3>1. e - t \in Nat /\ e - t - 1 \in Nat BY <2>6
    <3>2. CASE n = (e - t) \div Second
      <4>1. n \in Nat /\ e - t - Second < n * Second BY <3>1, <3>2, WholeSeconds
      <4>2. n * Second \in Nat BY <4>1, <1>0
      <4> QED BY <4>1, <4>2, <1>0, <2>6
    <3>3. CASE n = (e - t - 1) \div Second
      <4>1. n \in Nat /\ e - t - 1 - Second < n * Second BY <3>1, <3>3, WholeSeconds
      <4>2. n * Second \in Nat BY <4>1, <1>0
      <4> QED BY <4>1, <4>2, <1>0, <2>6
    <3> QED BY <2>7, <3>2, <3>3
  <2>10. n = 0 => e <= t + Second
    <3>1. n = 0 => n * Second = 0 BY <1>0
    <3> QED BY <3>1, <1>0, <2>6, <2>9
  <2>11. ASSUME NEW a \in Holders(v)
         PROVE  /\ v[a].exp - Second <= t + n * Second
                /\ n = 0 => v[a].exp <= t + Second
    <3> DEFINE x == v[a].exp
               y == n * Second
    <3>1. x \in Int /\ x <= e /\ y \in Nat /\ e - Second <= t + y
      BY <1>t, <2>8, <2>9
    <3>2. n = 0 => e <= t + Second BY <2>10
    <3> HIDE DEF x, y
    <3>3. x - Second <= t + y /\ (n = 0 => x <= t + Second)
      BY <3>1, <3>2, <1>0, <2>6
    <3> QED BY <3>3 DEF x, y
  <2> QED BY <2>9, <2>11
<1> QED BY <1>1, <1>2

\* A claim before its status is computed.
Draft == [mode : LeaseModes, exp : Int, status : Statuses \cup {"none"}]

\* The two keep who claims what until when.
SameLeases(v, w) ==
    /\ Holders(v) = Holders(w)
    /\ \A a \in Agents : v[a].mode = w[a].mode /\ v[a].exp = w[a].exp

\* recompute_claim_statuses changes the status only, and grants a claim that
\* conflicts with no other.
LEMMA RecomputedIs ==
    ASSUME NEW v \in [Agents -> Draft \cup {NoClaim}]
    PROVE  /\ Recomputed(v) \in Claims
           /\ SameLeases(Recomputed(v), v)
           /\ \A a, b \in Holders(v) :
                  a # b /\ Recomputed(v)[a].status = "granted"
                      => ~Conflicts(Recomputed(v)[a], Recomputed(v)[b])
<1> DEFINE w == Recomputed(v)
           s(a) == IF \E b \in Holders(v) \ {a} : Conflicts(v[a], v[b])
                   THEN "contested" ELSE "granted"
<1>1. \A a \in Agents : w[a] = IF a \notin Holders(v) THEN NoClaim
                               ELSE [v[a] EXCEPT !.status = s(a)]
  BY DEF Recomputed
<1>2. \A a \in Agents : s(a) \in Statuses BY DEF Statuses
<1>3. ASSUME NEW a \in Holders(v)
      PROVE  /\ w[a] \in Claim /\ w[a] # NoClaim /\ w[a].mode = v[a].mode
             /\ w[a].exp = v[a].exp /\ w[a].status = s(a)
  <2>0. a \in Agents /\ v[a] \in Draft BY DEF Holders
  <2>1. w[a] = [v[a] EXCEPT !.status = s(a)] BY <2>0, <1>1, <1>3
  <2> HIDE DEF w, s
  <2> QED BY <2>0, <2>1, <1>2 DEF Draft, Claim, NoClaim, LeaseModes
<1>4. \A a \in Agents : a \notin Holders(v) => w[a] = NoClaim /\ v[a] = NoClaim
  BY <1>1 DEF Holders
<1>5. w = [a \in Agents |-> w[a]] BY DEF Recomputed
<1> HIDE DEF w
<1>6. w \in Claims
  <2>1. \A a \in Agents : w[a] \in Claim \cup {NoClaim} BY <1>3, <1>4
  <2> QED BY <2>1, <1>5 DEF Claims
<1>7. Holders(w) = Holders(v) BY <1>3, <1>4 DEF Holders
<1>8. \A a \in Agents : w[a].mode = v[a].mode /\ w[a].exp = v[a].exp
  BY <1>3, <1>4
<1>9. ASSUME NEW a \in Holders(v), NEW b \in Holders(v), a # b,
             w[a].status = "granted"
      PROVE  ~Conflicts(w[a], w[b])
  <2>1. s(a) = "granted" BY <1>3, <1>9
  <2>2. ~Conflicts(v[a], v[b]) BY <2>1, <1>9
  <2> QED BY <2>2, <1>3 DEF Conflicts
<1>10. \A a, b \in Holders(v) :
          a # b /\ w[a].status = "granted" => ~Conflicts(w[a], w[b])
  BY <1>9
<1> QED BY <1>6, <1>7, <1>8, <1>10 DEF SameLeases, w

\* resolve_claim keeps the claims and grants the winner's only.
LEMMA RuledIs ==
    ASSUME NEW v \in Claims, NEW w
    PROVE  /\ Ruled(v, w) \in Claims
           /\ SameLeases(Ruled(v, w), v)
           /\ \A a \in Agents : Ruled(v, w)[a].status = "granted" => a = w
<1> DEFINE u == Ruled(v, w)
<1>1. ASSUME NEW a \in Holders(v)
      PROVE  /\ u[a] \in Claim /\ u[a] # NoClaim /\ u[a].mode = v[a].mode
             /\ u[a].exp = v[a].exp /\ (u[a].status = "granted" => a = w)
  <2>0. a \in Agents /\ v[a] \in Claim BY DEF Holders, Claims
  <2>1. u[a] = [v[a] EXCEPT !.status = IF a = w THEN "granted" ELSE "review"]
    BY <2>0, <1>1 DEF Ruled
  <2> HIDE DEF u
  <2> QED BY <2>0, <2>1 DEF Claim, NoClaim, LeaseModes, Statuses
<1>2. \A a \in Agents : a \notin Holders(v) => u[a] = NoClaim /\ v[a] = NoClaim
  BY DEF Ruled, Holders
<1>3. u = [a \in Agents |-> u[a]] BY DEF Ruled
<1> HIDE DEF u
<1>4. u \in Claims
  <2>1. \A a \in Agents : u[a] \in Claim \cup {NoClaim} BY <1>1, <1>2
  <2> QED BY <2>1, <1>3 DEF Claims
<1>5. Holders(u) = Holders(v) BY <1>1, <1>2 DEF Holders
<1>6. \A a \in Agents : u[a].mode = v[a].mode /\ u[a].exp = v[a].exp
  BY <1>1, <1>2
<1>7. \A a \in Agents : u[a].status = "granted" => a = w
  BY <1>1, <1>2 DEF NoClaim
<1> QED BY <1>4, <1>5, <1>6, <1>7 DEF SameLeases, u

\* Claims that are the same leases have the same longest one.
LEMMA SameBound ==
    ASSUME NEW v, NEW w, SameLeases(v, w), Bounded(w)
    PROVE  Bounded(v)
BY DEF SameLeases, Bounded

\* One more lease, and there still is a longest one.
LEMMA OneMore ==
    ASSUME NEW v \in [Agents -> Draft \cup {NoClaim}], Bounded(v), NEW a \in Agents,
           NEW c \in Draft \cup {NoClaim}
    PROVE  Bounded([v EXCEPT ![a] = c])
<1>1. PICK n \in Nat : \A b \in Agents : v[b].exp <= n BY DEF Bounded
<1>2. \A b \in Agents : v[b].exp \in Int BY DEF Draft, NoClaim
<1>3. c.exp \in Int BY DEF Draft, NoClaim
<1>4. PICK m \in Nat : m >= n /\ m >= c.exp
  <2>1. CASE c.exp >= n BY <2>1, <1>3, <1>1
  <2>2. CASE ~(c.exp >= n) BY <2>2, <1>3, <1>1
  <2> QED BY <2>1, <2>2
<1> DEFINE w == [v EXCEPT ![a] = c]
<1>5. \A b \in Agents : w[b] = IF b = a THEN c ELSE v[b] OBVIOUS
<1> HIDE DEF w
<1>6. \A b \in Agents : w[b].exp <= m
  <2> SUFFICES ASSUME NEW b \in Agents PROVE w[b].exp <= m OBVIOUS
  <2>1. CASE b = a BY <1>3, <1>4, <1>5, <2>1
  <2>2. CASE b # a BY <1>1, <1>2, <1>4, <1>5, <2>2
  <2> QED BY <2>1, <2>2
<1>7. Bounded(w) BY <1>6 DEF Bounded
<1> QED BY <1>7 DEF w

\* Fewer leases, and there still is a longest one.
LEMMA Fewer ==
    ASSUME NEW v \in Claims, Bounded(v), NEW S
    PROVE  LET w == [a \in Agents |-> IF a \in S THEN v[a] ELSE NoClaim]
           IN  w \in Claims /\ Bounded(w)
<1> DEFINE w == [a \in Agents |-> IF a \in S THEN v[a] ELSE NoClaim]
<1>1. w \in Claims BY DEF Claims
<1>2. PICK n \in Nat : \A b \in Agents : v[b].exp <= n BY DEF Bounded
<1>3. \A b \in Agents : w[b].exp <= n BY <1>2 DEF NoClaim
<1> QED BY <1>1, <1>3 DEF Bounded

\* Everybody but a claims the same in v and in w.
OthersKept(v, w, a) ==
    \A b \in Agents \ {a} :
        /\ b \in Holders(v) <=> b \in Holders(w)
        /\ v[b].mode = w[b].mode /\ v[b].exp = w[b].exp

\* A claim that is granted in v conflicts with no other one there.
GrantsAlone(v) ==
    \A a, b \in Holders(v) :
        a # b /\ v[a].status = "granted" => ~Conflicts(v[a], v[b])

\* Recomputing after one agent's claim has changed.
LEMMA RecomputedOne ==
    ASSUME NEW v \in Claims, Bounded(v), NEW a \in Agents, NEW c \in Draft \cup {NoClaim}
    PROVE  LET w == Recomputed([v EXCEPT ![a] = c])
           IN  /\ w \in Claims /\ Bounded(w) /\ GrantsAlone(w) /\ OthersKept(w, v, a)
               /\ a \in Holders(w) <=> c # NoClaim
<1> DEFINE u == [v EXCEPT ![a] = c]
           w == Recomputed(u)
<1>0. v \in [Agents -> Draft \cup {NoClaim}] BY DEF Claims, Claim, Draft
<1>1. u \in [Agents -> Draft \cup {NoClaim}] BY <1>0
<1>2. Bounded(u) BY <1>0, OneMore
<1>3. \A b \in Agents : u[b] = IF b = a THEN c ELSE v[b] BY DEF Claims
<1> HIDE DEF u
<1>4. /\ w \in Claims /\ SameLeases(w, u)
      /\ \A x, y \in Holders(u) :
             x # y /\ w[x].status = "granted" => ~Conflicts(w[x], w[y])
  BY <1>1, RecomputedIs
<1> HIDE DEF w
<1>5. Bounded(w) BY <1>2, <1>4, SameBound
<1>6. GrantsAlone(w) BY <1>4 DEF GrantsAlone, SameLeases
<1>7. OthersKept(w, v, a) BY <1>3, <1>4 DEF OthersKept, SameLeases, Holders
<1>8. a \in Holders(w) <=> c # NoClaim BY <1>3, <1>4 DEF SameLeases, Holders
<1> QED BY <1>4, <1>5, <1>6, <1>7, <1>8 DEF w, u

\* What the operations write back, with the time the TTL is counted from.
Written(p, v, t) ==
    \/ proc[p].op = "claim" /\ v = Merged(p) /\ t = proc[p].at
    \/ proc[p].op = "renew" /\ proc[p].agent \in Holders(proc[p].view)
         /\ v = Renewed(p) /\ t = now
    \/ proc[p].op = "release" /\ proc[p].agent \in Holders(proc[p].view)
         /\ v = Without(p) /\ t = now
    \/ proc[p].op = "resolve" /\ Holders(proc[p].view) # {}
         /\ v = Ruled(proc[p].view, proc[p].agent) /\ t = now

\* The four operations that write, in one form.
LEMMA MutateWrites ==
    ASSUME NEW p \in Procs, Mutate(p)
    PROVE  \E v, t : Written(p, v, t) /\ Rewrite(p, v, t)
BY DEF Mutate, Written

\* What is written back keeps the claims of the others, and a resolution all.
LEMMA WrittenIs ==
    ASSUME TypeInv, NEW p \in Procs, NEW v, NEW t, Written(p, v, t)
    PROVE  /\ v \in Claims /\ Bounded(v) /\ t \in 0 .. now
           /\ proc[p].op \in {"claim", "renew", "release", "resolve"}
           /\ proc[p].agent \in Agents
           /\ proc[p].op # "resolve" =>
                  GrantsAlone(v) /\ OthersKept(v, proc[p].view, proc[p].agent)
           /\ proc[p].op = "resolve" =>
                  /\ SameLeases(v, proc[p].view)
                  /\ \A a \in Agents : v[a].status = "granted" => a = proc[p].agent
           /\ proc[p].op # "release" => Holders(v) # {}
<1> DEFINE r == proc[p]
<1>0. /\ r \in Proc /\ Bounded(r.view) /\ r.at \in 0 .. now /\ r.ttl \in Nat
      /\ now \in Nat /\ r.view \in Claims
      /\ r.op \in {"claim", "renew", "release", "resolve"} => r.agent \in Agents
      /\ r.op = "claim" => r.mode \in LeaseModes
  BY DEF TypeInv, TypeOK, CallOK, Proc
<1>s. Second \in Nat BY ClaimsAssumption
<1>m. r.ttl * Second \in Nat BY <1>0, <1>s
<1> DEFINE a == r.agent
<1>n. now \in 0 .. now BY <1>0
<1>1. CASE r.op = "claim"
  <2> DEFINE c == [mode |-> r.mode, exp |-> r.at + r.ttl * Second, status |-> "none"]
  <2>1. c \in Draft BY <1>0, <1>1, <1>m DEF Draft
  <2>2. c # NoClaim BY <1>0, <1>1 DEF NoClaim, LeaseModes
  <2>3. v = Recomputed([r.view EXCEPT ![a] = c]) /\ t = r.at
    BY <1>1 DEF Written, Merged
  <2> HIDE DEF c, r
  <2> QED BY <1>0, <1>1, <2>1, <2>2, <2>3, RecomputedOne DEF r
<1>2. CASE r.op = "renew"
  <2> DEFINE c == [r.view[a] EXCEPT !.exp = now + r.ttl * Second]
  <2>0. a \in Holders(r.view) BY <1>2 DEF Written
  <2>1. c \in Draft /\ c # NoClaim
    BY <1>0, <1>m, <2>0 DEF Draft, Claims, Claim, Holders, NoClaim, LeaseModes
  <2>3. v = Recomputed([r.view EXCEPT ![a] = c]) /\ t = now
    BY <1>2 DEF Written, Renewed
  <2> HIDE DEF c, r
  <2> QED BY <1>0, <1>n, <1>2, <2>1, <2>3, RecomputedOne DEF r
<1>3. CASE r.op = "release"
  <2>3. v = Recomputed([r.view EXCEPT ![a] = NoClaim]) /\ t = now
    BY <1>3 DEF Written, Without
  <2> HIDE DEF r
  <2> QED BY <1>0, <1>n, <1>3, <2>3, RecomputedOne DEF r
<1>4. CASE r.op = "resolve"
  <2>3. v = Ruled(r.view, a) /\ t = now /\ Holders(r.view) # {}
    BY <1>4 DEF Written
  <2> HIDE DEF r
  <2>4. SameLeases(v, r.view) BY <1>0, <2>3, RuledIs
  <2>5. Bounded(v) /\ Holders(v) # {} BY <1>0, <2>3, <2>4, SameBound DEF SameLeases
  <2> QED BY <1>0, <1>n, <1>4, <2>3, <2>4, <2>5, RuledIs DEF r
<1> QED BY <1>1, <1>2, <1>3, <1>4 DEF Written

-----------------------------------------------------------------------------
\* A step of p that leaves the clock, and what the others are in.
LEMMA OneCall ==
    ASSUME TypeInv, NEW p \in Procs, NEW r, CallOK(r),
           proc' = [proc EXCEPT ![p] = r], now' = now,
           hash' \in Claims, Bounded(hash'), due' \in Nat,
           resolution' \in [winner : Agents \cup {Nobody}, due : Nat],
           told' \in Claims, started' \in 0 .. MaxOps,
           crashes' \in 0 .. MaxCrashes, lost' \subseteq Agents, missed' \subseteq Agents
    PROVE  TypeInv'
<1>1. proc \in [Procs -> Proc] /\ now \in 0 .. MaxTime /\ r \in Proc
  BY DEF TypeInv, TypeOK, CallOK
<1>2. proc' \in [Procs -> Proc] BY <1>1
<1>3. TypeOK' BY <1>1, <1>2 DEF TypeOK
<1>4. ASSUME NEW q \in Procs PROVE CallOK(proc[q])'
  <2>1. proc'[q] = IF q = p THEN r ELSE proc[q] BY <1>1
  <2>2. CallOK(proc[q]) BY DEF TypeInv
  <2>3. CallOK(proc'[q]) BY <2>1, <2>2
  <2> QED BY <2>3 DEF CallOK
<1> QED BY <1>3, <1>4 DEF TypeInv

\* What TypeInv says of one process, field by field.
LEMMA CallFields ==
    ASSUME TypeInv, NEW p \in Procs
    PROVE  /\ proc[p] \in Proc /\ CallOK(proc[p]) /\ proc \in [Procs -> Proc]
           /\ now \in Nat /\ now \in 0 .. MaxTime
           /\ hash \in Claims /\ Bounded(hash) /\ due \in Nat /\ told \in Claims
           /\ resolution \in [winner : Agents \cup {Nobody}, due : Nat]
           /\ started \in 0 .. MaxOps /\ crashes \in 0 .. MaxCrashes
           /\ lost \subseteq Agents /\ missed \subseteq Agents
           /\ Second \in Nat \ {0} /\ ResolutionTTL \in Nat
           /\ NoClaims \in Claims /\ Bounded(NoClaims) /\ CallOK(Free)
           /\ NoResolution \in [winner : Agents \cup {Nobody}, due : Nat]
<1>1. /\ proc \in [Procs -> Proc] /\ now \in 0 .. MaxTime /\ CallOK(proc[p])
      /\ hash \in Claims /\ Bounded(hash) /\ due \in Nat /\ told \in Claims
      /\ resolution \in [winner : Agents \cup {Nobody}, due : Nat]
      /\ started \in 0 .. MaxOps /\ crashes \in 0 .. MaxCrashes
      /\ lost \subseteq Agents /\ missed \subseteq Agents
  BY DEF TypeInv, TypeOK
<1>2. now \in Nat /\ Second \in Nat \ {0} /\ ResolutionTTL \in Nat
  BY <1>1, ClaimsAssumption
<1>3. NoClaims \in Claims BY DEF NoClaims, Claims
<1>4. Bounded(NoClaims)
  <2>1. \A a \in Agents : NoClaims[a].exp <= 0 BY DEF NoClaims, NoClaim
  <2> QED BY <2>1 DEF Bounded
<1>5. Free \in Proc BY <1>3 DEF Free, Proc, Pcs, Operations
<1>6. CallOK(Free) BY <1>2, <1>4, <1>5 DEF CallOK, Free
<1>7. NoResolution \in [winner : Agents \cup {Nobody}, due : Nat]
  BY DEF NoResolution
<1> QED BY <1>1, <1>2, <1>3, <1>4, <1>6, <1>7

\* A process that goes on with the call it is in.
GoesOn(r, s) ==
    /\ s \in Proc /\ s.at = r.at /\ s.seen = r.seen /\ s.ttl = r.ttl
    /\ s.agent = r.agent /\ s.mode = r.mode /\ s.view = r.view
    /\ s.op \in {r.op, "read"} \/ (r.op = "resolve" /\ s.op = "notify")
    /\ s.pc \in {"record", "recorded"} => s.op = "resolve"
    /\ s.pc = "notify" => s.op = "notify"

\* It is still a call.
LEMMA GoesOnTypes ==
    ASSUME TypeInv, NEW p \in Procs, NEW s, GoesOn(proc[p], s)
    PROVE  CallOK(s)
BY CallFields DEF CallOK, GoesOn

\* EXPIRE keeps the types.
LEMMA ExpireTypes ==
    ASSUME TypeInv, NEW p \in Procs, NEW t \in {proc[p].at, proc[p].seen},
           NEW n \in HashTTLs(proc[p].view, t), Expire(n)
    PROVE  hash' \in Claims /\ Bounded(hash') /\ due' \in Nat
<1>1. proc[p].view \in Claims /\ Bounded(proc[p].view) /\ t \in Nat
  BY CallFields DEF CallOK, Proc
<1>2. n \in Nat /\ n * Second \in Nat BY <1>1, HashTTLReaches
<1>3. CASE hash' = NoClaims /\ due' = 0 BY <1>3, CallFields
<1>4. CASE due' = now + n * Second /\ hash' = hash
  BY <1>2, <1>4, CallFields
<1> QED BY <1>3, <1>4 DEF Expire, DelKey

\* An operation begins.
LEMMA BeginTypes ==
    ASSUME TypeInv, NEW p \in Procs, Start(p)
    PROVE  TypeInv'
<1>1. PICK op \in Operations, a \in Agents \cup {Nobody}, m \in LeaseModes \cup {"none"},
           x \in Nat :
        /\ Begin(p, op, a, m, x)
        /\ op \in {"claim", "renew", "release", "resolve"} => a \in Agents
        /\ op = "claim" => m \in LeaseModes
  BY ClaimsAssumption DEF Start, Operations
<1> DEFINE r == [Free EXCEPT !.pc = "load", !.op = op, !.agent = a, !.mode = m,
                             !.ttl = x, !.at = now]
<1>2. /\ r \in Proc /\ r.at = now /\ r.seen = 0 /\ r.ttl = x /\ r.op = op
      /\ r.agent = a /\ r.mode = m /\ r.view = NoClaims /\ r.pc = "load"
  <2>1. now \in Int /\ Free \in Proc BY CallFields DEF CallOK
  <2>2. Free.seen = 0 /\ Free.view = NoClaims BY DEF Free
  <2>3. "load" \in Pcs BY DEF Pcs
  <2>4. /\ r.at = now /\ r.seen = 0 /\ r.ttl = x /\ r.op = op /\ r.pc = "load"
        /\ r.agent = a /\ r.mode = m /\ r.view = NoClaims /\ r.todo = {}
    BY DEF Free
  <2> DEFINE f == [Free EXCEPT !.pc = "load", !.op = op, !.agent = a]
  <2>5. f \in Proc BY <1>1, <2>1, <2>3 DEF Proc
  <2>6. [f EXCEPT !.mode = m, !.ttl = x, !.at = now] \in Proc
    <3> HIDE DEF f
    <3>1. m \in LeaseModes \cup {"none"} BY <1>1
    <3>2. x \in Int BY <1>1
    <3>3. now \in Int BY <2>1
    <3>4. [f EXCEPT !.mode = m] \in Proc BY <3>1, <2>5 DEF Proc
    <3>5. [f EXCEPT !.mode = m, !.ttl = x] \in Proc BY <3>1, <3>2, <2>5 DEF Proc
    <3> QED BY <3>1, <3>2, <3>3, <2>5 DEF Proc
  <2>7. r = [f EXCEPT !.mode = m, !.ttl = x, !.at = now] OBVIOUS
  <2> HIDE DEF r, f
  <2> QED BY <2>4, <2>6, <2>7
<1>3. proc' = [proc EXCEPT ![p] = r] BY <1>1 DEF Begin
<1>4. CallOK(r)
  <2> HIDE DEF r
  <2> QED BY <1>1, <1>2, CallFields DEF CallOK, Operations
<1> HIDE DEF r
<1>5. started' \in 0 .. MaxOps BY <1>1, CallFields, ClaimsAssumption DEF Begin
<1>6. told' \in Claims BY <1>1, CallFields DEF Begin, Claims
<1>7. lost' \subseteq Agents /\ missed' \subseteq Agents BY <1>1, CallFields DEF Begin
<1> QED BY <1>1, <1>3, <1>4, <1>5, <1>6, <1>7, CallFields, OneCall DEF Begin

\* The commands of load_active_claims.
LEMMA LoadTypes ==
    ASSUME TypeInv, NEW p \in Procs, Load(p)
    PROVE  TypeInv'
<1> DEFINE live == {a \in Holders(hash) : Unexpired(hash[a], now)}
           w == [a \in Agents |-> IF a \in live THEN hash[a] ELSE NoClaim]
           x == CASE Holders(hash) = {} -> "loaded"
                  [] live # Holders(hash) -> "prune"
                  [] OTHER -> "refresh"
           r == [proc[p] EXCEPT !.pc = x, !.seen = now, !.todo = Holders(hash) \ live,
                                !.view = w]
<1>1. w \in Claims /\ Bounded(w) BY CallFields, Fewer
<1>2. x \in Pcs /\ x \notin {"record", "recorded", "notify"} BY DEF Pcs
<1>3. proc' = [proc EXCEPT ![p] = r] BY CallFields DEF Load
<1> HIDE DEF w, x
<1>4. /\ r \in Proc /\ r.at = proc[p].at /\ r.seen = now /\ r.ttl = proc[p].ttl
      /\ r.op = proc[p].op /\ r.agent = proc[p].agent /\ r.mode = proc[p].mode
      /\ r.view = w /\ r.pc = x
  <2>1. now \in Int /\ proc[p] \in Proc BY CallFields
  <2>2. Holders(hash) \ live \in SUBSET Agents BY DEF Holders
  <2> HIDE DEF live
  <2> QED BY <1>1, <1>2, <2>1, <2>2 DEF Proc
<1> HIDE DEF r
<1>5. CallOK(r) BY <1>1, <1>2, <1>4, CallFields DEF CallOK
<1> QED BY <1>3, <1>5, CallFields, OneCall DEF Load

\* HDEL of the claims found expired.
LEMMA PruneTypes ==
    ASSUME TypeInv, NEW p \in Procs, Prune(p)
    PROVE  TypeInv'
<1> DEFINE x == IF Holders(proc[p].view) = {} THEN "drop" ELSE "refresh"
           r == [proc[p] EXCEPT !.todo = {}, !.pc = x]
           w == [a \in Agents |-> IF a \in Agents \ proc[p].todo THEN hash[a] ELSE NoClaim]
<1>1. proc' = [proc EXCEPT ![p] = r] BY CallFields DEF Prune
<1>2. x \in Pcs /\ x \notin {"record", "recorded", "notify"} BY DEF Pcs
<1> HIDE DEF x
<1>3. GoesOn(proc[p], r)
  <2>1. proc[p] \in Proc BY CallFields
  <2>2. r \in Proc BY <1>2, <2>1 DEF Proc
  <2>3. /\ r.at = proc[p].at /\ r.seen = proc[p].seen /\ r.ttl = proc[p].ttl
        /\ r.agent = proc[p].agent /\ r.mode = proc[p].mode
        /\ r.view = proc[p].view /\ r.op = proc[p].op /\ r.pc = x
    BY <2>1 DEF Proc
  <2> HIDE DEF r
  <2> QED BY <1>2, <2>2, <2>3 DEF GoesOn
<1> HIDE DEF r
<1>4. hash' = w BY DEF Prune, HDel
<1>5. w \in Claims /\ Bounded(w) BY CallFields, Fewer
<1> HIDE DEF w
<1>6. due' \in Nat BY CallFields DEF Prune, HDel
<1> QED BY <1>1, <1>3, <1>4, <1>5, <1>6, GoesOnTypes, OneCall, CallFields DEF Prune

\* Going on to the next command.
LEMMA GotoTypes ==
    ASSUME TypeInv, NEW p \in Procs, NEW x \in Pcs, Goto(p, x),
           x # "notify", x \in {"record", "recorded"} => proc[p].op = "resolve"
    PROVE  \E r : GoesOn(proc[p], r) /\ CallOK(r) /\ proc' = [proc EXCEPT ![p] = r]
<1> DEFINE r == [proc[p] EXCEPT !.pc = x]
<1>1. GoesOn(proc[p], r)
  <2>1. proc[p] \in Proc BY CallFields
  <2>2. r \in Proc BY <2>1 DEF Proc
  <2>3. /\ r.at = proc[p].at /\ r.seen = proc[p].seen /\ r.ttl = proc[p].ttl
        /\ r.agent = proc[p].agent /\ r.mode = proc[p].mode
        /\ r.view = proc[p].view /\ r.op = proc[p].op /\ r.pc = x
    BY <2>1 DEF Proc
  <2> HIDE DEF r
  <2> QED BY <2>2, <2>3 DEF GoesOn
<1>2. proc' = [proc EXCEPT ![p] = r] BY CallFields DEF Goto
<1> QED BY <1>1, <1>2, GoesOnTypes

\* Going on to reading, as another operation.
LEMMA ReloadTypes ==
    ASSUME TypeInv, NEW p \in Procs,
           \/ proc' = [proc EXCEPT ![p].op = "read", ![p].pc = "load"]
           \/ /\ proc[p].op = "resolve"
              /\ proc' = [proc EXCEPT ![p].op = "notify", ![p].pc = "load"]
    PROVE  \E r : GoesOn(proc[p], r) /\ CallOK(r) /\ proc' = [proc EXCEPT ![p] = r]
<1>p. PICK op : /\ op = "read" \/ (op = "notify" /\ proc[p].op = "resolve")
                /\ proc' = [proc EXCEPT ![p].op = op, ![p].pc = "load"]
  OBVIOUS
<1> DEFINE r == [proc[p] EXCEPT !.op = op, !.pc = "load"]
<1>0. op \in Operations \cup {"none", "notify"} /\ "load" \in Pcs
  BY <1>p DEF Operations, Pcs
<1>1. GoesOn(proc[p], r)
  <2>1. proc[p] \in Proc BY CallFields
  <2>2. r \in Proc BY <1>0, <2>1 DEF Proc
  <2>3. /\ r.at = proc[p].at /\ r.seen = proc[p].seen /\ r.ttl = proc[p].ttl
        /\ r.agent = proc[p].agent /\ r.mode = proc[p].mode
        /\ r.view = proc[p].view /\ r.op = op /\ r.pc = "load"
    BY <2>1 DEF Proc
  <2> HIDE DEF r
  <2> QED BY <1>p, <2>2, <2>3 DEF GoesOn
<1>2. proc' = [proc EXCEPT ![p] = r] BY <1>p, CallFields
<1> QED BY <1>1, <1>2, GoesOnTypes

\* Going on to the messages of a resolution, or to the next of them.
LEMMA NotifyTypes ==
    ASSUME TypeInv, NEW p \in Procs, proc[p].op = "notify", NEW T \in SUBSET Agents,
           proc' = [proc EXCEPT ![p].pc = "notify", ![p].todo = T]
    PROVE  \E r : CallOK(r) /\ proc' = [proc EXCEPT ![p] = r]
<1> DEFINE r == [proc[p] EXCEPT !.pc = "notify", !.todo = T]
<1>0. "notify" \in Pcs BY DEF Pcs
<1>1. GoesOn(proc[p], r)
  <2>1. proc[p] \in Proc BY CallFields
  <2>2. r \in Proc BY <1>0, <2>1 DEF Proc
  <2>3. /\ r.at = proc[p].at /\ r.seen = proc[p].seen /\ r.ttl = proc[p].ttl
        /\ r.agent = proc[p].agent /\ r.mode = proc[p].mode
        /\ r.view = proc[p].view /\ r.op = proc[p].op /\ r.pc = "notify"
    BY <2>1 DEF Proc
  <2> HIDE DEF r
  <2> QED BY <2>2, <2>3 DEF GoesOn
<1>2. proc' = [proc EXCEPT ![p] = r] BY CallFields
<1> QED BY <1>1, <1>2, GoesOnTypes

\* The other commands of load_active_claims.
LEMMA ReadTypes ==
    ASSUME TypeInv, NEW p \in Procs,
           DropClaims(p) \/ DropResolution(p) \/ Refresh(p)
    PROVE  TypeInv'
<1>0. {"dropped", "loaded"} \subseteq Pcs BY DEF Pcs
<1>1. CASE DropClaims(p)
  <2>1. PICK r : CallOK(r) /\ proc' = [proc EXCEPT ![p] = r]
    BY <1>0, <1>1, GotoTypes DEF DropClaims
  <2> QED BY <1>1, <2>1, OneCall, CallFields DEF DropClaims, DelKey
<1>2. CASE DropResolution(p)
  <2>1. PICK r : CallOK(r) /\ proc' = [proc EXCEPT ![p] = r]
    BY <1>0, <1>2, GotoTypes DEF DropResolution
  <2> QED BY <1>2, <2>1, OneCall, CallFields DEF DropResolution
<1>3. CASE Refresh(p)
  <2>1. PICK r : CallOK(r) /\ proc' = [proc EXCEPT ![p] = r]
    BY <1>0, <1>3, GotoTypes DEF Refresh
  <2>2. hash' \in Claims /\ Bounded(hash') /\ due' \in Nat
    BY <1>3, ExpireTypes DEF Refresh
  <2> QED BY <1>3, <2>1, <2>2, OneCall, CallFields DEF Refresh
<1> QED BY <1>1, <1>2, <1>3

\* persist_claims begins.
LEMMA MutateTypes ==
    ASSUME TypeInv, NEW p \in Procs, Mutate(p)
    PROVE  TypeInv'
<1>1. PICK v, t : Written(p, v, t) /\ Rewrite(p, v, t) BY MutateWrites
<1>2. v \in Claims /\ Bounded(v) /\ t \in 0 .. now BY <1>1, WrittenIs
<1> DEFINE x == IF Holders(v) = {} THEN "dropAll" ELSE "write"
           r == [proc[p] EXCEPT !.view = v, !.at = t, !.todo = Holders(v), !.pc = x]
<1>3. proc' = [proc EXCEPT ![p] = r] BY <1>1, CallFields DEF Rewrite
<1>4. x \in Pcs /\ x \notin {"record", "recorded", "notify"} BY DEF Pcs
<1> HIDE DEF x
<1>5. /\ r \in Proc /\ r.at = t /\ r.seen = proc[p].seen /\ r.ttl = proc[p].ttl
      /\ r.op = proc[p].op /\ r.agent = proc[p].agent /\ r.mode = proc[p].mode
      /\ r.view = v /\ r.pc = x
  <2>1. Holders(v) \in SUBSET Agents /\ t \in Int /\ proc[p] \in Proc
    BY <1>2, CallFields DEF Holders
  <2> QED BY <1>2, <1>4, <2>1 DEF Proc
<1> HIDE DEF r
<1>6. CallOK(r) BY <1>2, <1>4, <1>5, CallFields DEF CallOK
<1>7. hash' = NoClaims /\ due' = 0 BY <1>1 DEF Rewrite, DelKey
<1> QED BY <1>3, <1>6, <1>7, OneCall, CallFields DEF Mutate

\* An operation that ends, or goes on to the next key of its SCAN.
LEMMA AnswerTypes ==
    ASSUME TypeInv, NEW p \in Procs, Refuse(p) \/ Answer(p) \/ ScanResolution(p)
    PROVE  TypeInv'
<1>1. CASE Refuse(p)
  BY <1>1, OneCall, CallFields DEF Refuse, Return
<1>2. CASE ScanResolution(p)
  BY <1>2, OneCall, CallFields DEF ScanResolution, Return
<1>3. CASE Answer(p)
  <2>1. PICK r : CallOK(r) /\ proc' = [proc EXCEPT ![p] = r]
    <3>0. "scan" \in Pcs BY DEF Pcs
    <3>1. CASE Return(p) BY <3>1, CallFields DEF Return
    <3>2. CASE Goto(p, "scan") BY <3>0, <3>2, GotoTypes
    <3>3. CASE /\ proc[p].op = "notify"
               /\ proc' = [proc EXCEPT ![p].pc = "notify",
                                       ![p].todo = Holders(proc[p].view)]
      <4>1. Holders(proc[p].view) \in SUBSET Agents BY DEF Holders
      <4> QED BY <3>3, <4>1, NotifyTypes
    <3> QED BY <1>3, <3>1, <3>2, <3>3 DEF Answer
  <2> QED BY <1>3, <2>1, OneCall, CallFields DEF Answer
<1> QED BY <1>1, <1>2, <1>3

\* A message to a claimant.
LEMMA TellTypes ==
    ASSUME TypeInv, NEW p \in Procs, NEW a \in Agents, Tell(p, a) \/ TellFails(p, a)
    PROVE  TypeInv'
<1>1. told' \in Claims
  <2>1. Ruled(proc[p].view, proc[p].agent) \in Claims /\ told \in Claims
    BY CallFields, RuledIs DEF Proc
  <2> QED BY <2>1 DEF Tell, TellFails, Claims
<1>2. PICK r : CallOK(r) /\ proc' = [proc EXCEPT ![p] = r]
  <2>1. CASE Return(p) BY <2>1, CallFields DEF Return
  <2>2. CASE proc' = [proc EXCEPT ![p].todo = @ \ {a}]
    <3> DEFINE T == proc[p].todo \ {a}
    <3>0. proc[p].pc = "notify" BY DEF Tell, TellFails
    <3>1. proc[p].op = "notify" /\ proc[p] \in Proc /\ proc \in [Procs -> Proc]
      BY <3>0, CallFields DEF CallOK
    <3>2. T \subseteq Agents BY <3>1 DEF Proc
    <3>3. proc' = [proc EXCEPT ![p].pc = "notify", ![p].todo = T]
      <4>1. [proc[p] EXCEPT !.todo = T] = [proc[p] EXCEPT !.pc = "notify", !.todo = T]
        BY <3>0, <3>1 DEF Proc
      <4> QED BY <2>2, <3>1, <4>1
    <3> QED BY <3>1, <3>2, <3>3, NotifyTypes
  <2> QED BY <2>1, <2>2 DEF Tell, TellFails, Posted
<1>3. crashes' \in 0 .. MaxCrashes
  BY CallFields, ClaimsAssumption DEF Tell, TellFails
<1>4. missed' \subseteq Agents BY CallFields DEF Tell, TellFails
<1> QED BY <1>1, <1>2, <1>3, <1>4, OneCall, CallFields DEF Tell, TellFails

\* HSET of one claim.
LEMMA WriteTypes ==
    ASSUME TypeInv, NEW p \in Procs, NEW a \in Agents, WriteClaim(p, a)
    PROVE  TypeInv'
<1> DEFINE x == IF proc[p].todo = {a} THEN "expire" ELSE proc[p].pc
           r == [proc[p] EXCEPT !.todo = @ \ {a}, !.pc = x]
           c == proc[p].view[a]
<1>1. proc' = [proc EXCEPT ![p] = r] BY CallFields DEF WriteClaim
<1>2. x \in Pcs /\ x \notin {"record", "recorded", "notify"} BY DEF Pcs, WriteClaim
<1> HIDE DEF x
<1>3. GoesOn(proc[p], r)
  <2>1. proc[p] \in Proc BY CallFields
  <2>2. r \in Proc BY <1>2, <2>1 DEF Proc
  <2>3. /\ r.at = proc[p].at /\ r.seen = proc[p].seen /\ r.ttl = proc[p].ttl
        /\ r.agent = proc[p].agent /\ r.mode = proc[p].mode
        /\ r.view = proc[p].view /\ r.op = proc[p].op /\ r.pc = x
    BY <2>1 DEF Proc
  <2> HIDE DEF r
  <2> QED BY <1>2, <2>2, <2>3 DEF GoesOn
<1> HIDE DEF r
<1>4. c \in Claim \cup {NoClaim} BY CallFields DEF Proc, Claims
<1>5. hash' = [hash EXCEPT ![a] = c] /\ due' = due BY DEF WriteClaim, HSet
<1> HIDE DEF c
<1>6. hash \in [Agents -> Draft \cup {NoClaim}] /\ c \in Draft \cup {NoClaim}
  BY <1>4, CallFields DEF Claims, Claim, Draft
<1>7. hash' \in Claims /\ Bounded(hash')
  BY <1>4, <1>5, <1>6, OneMore, CallFields DEF Claims
<1> QED BY <1>1, <1>3, <1>5, <1>7, GoesOnTypes, OneCall, CallFields DEF WriteClaim

\* EXPIRE of the hash that was written, and the answer.
LEMMA ExpireClaimsTypes ==
    ASSUME TypeInv, NEW p \in Procs, ExpireClaims(p)
    PROVE  TypeInv'
<1>1. hash' \in Claims /\ Bounded(hash') /\ due' \in Nat
  BY ExpireTypes DEF ExpireClaims
<1>2. PICK r : CallOK(r) /\ proc' = [proc EXCEPT ![p] = r]
  <2>1. "record" \in Pcs BY DEF Pcs
  <2>2. CASE proc[p].op \in {"claim", "renew"}
    BY <2>2, CallFields DEF ExpireClaims, Return
  <2>3. CASE proc[p].op = "release"
    <3>1. proc' = [proc EXCEPT ![p].op = "read", ![p].pc = "load"]
      BY <2>3 DEF ExpireClaims
    <3> QED BY <3>1, ReloadTypes
  <2>4. CASE proc[p].op = "resolve"
    BY <2>1, <2>4, GotoTypes DEF ExpireClaims
  <2> QED BY <2>2, <2>3, <2>4 DEF ExpireClaims
<1>3. told' \in Claims
  <2>1. proc[p].view \in Claims /\ told \in Claims BY CallFields DEF Proc
  <2> QED BY <2>1 DEF ExpireClaims, Claims
<1> QED BY <1>1, <1>2, <1>3, OneCall, CallFields DEF ExpireClaims

\* The resolution record: deleted, written, given its TTL.
LEMMA ResolutionTypes ==
    ASSUME TypeInv, NEW p \in Procs, 
           ReleaseLast(p) \/ RecordResolution(p) \/ ExpireResolution(p)
    PROVE  TypeInv'
<1>1. CASE ReleaseLast(p)
  <2>1. PICK r : CallOK(r) /\ proc' = [proc EXCEPT ![p] = r]
    <3>1. proc' = [proc EXCEPT ![p].op = "read", ![p].pc = "load"]
      BY <1>1 DEF ReleaseLast
    <3> QED BY <3>1, ReloadTypes
  <2> QED BY <1>1, <2>1, OneCall, CallFields DEF ReleaseLast
<1>2. CASE RecordResolution(p)
  <2>0. "recorded" \in Pcs BY DEF Pcs
  <2>1. PICK r : CallOK(r) /\ proc' = [proc EXCEPT ![p] = r]
    <3>1. proc[p].op = "resolve" BY <1>2, CallFields DEF CallOK, RecordResolution
    <3> QED BY <1>2, <2>0, <3>1, GotoTypes DEF RecordResolution
  <2>2. resolution' \in [winner : Agents \cup {Nobody}, due : Nat]
    <3>1. proc[p].agent \in Agents \cup {Nobody} BY CallFields DEF Proc
    <3>2. resolution \in [winner : Agents \cup {Nobody}, due : Nat] BY CallFields
    <3> QED BY <1>2, <3>1, <3>2 DEF RecordResolution
  <2> QED BY <1>2, <2>1, <2>2, OneCall, CallFields DEF RecordResolution
<1>3. CASE ExpireResolution(p)
  <2>1. PICK r : CallOK(r) /\ proc' = [proc EXCEPT ![p] = r]
    <3>1. proc[p].op = "resolve" BY <1>3, CallFields DEF CallOK, ExpireResolution
    <3> QED BY <1>3, <3>1, ReloadTypes DEF ExpireResolution
  <2>2. resolution' \in [winner : Agents \cup {Nobody}, due : Nat]
    BY <1>3, CallFields DEF ExpireResolution
  <2> QED BY <1>3, <2>1, <2>2, OneCall, CallFields DEF ExpireResolution
<1> QED BY <1>1, <1>2, <1>3

\* The clock advances.
LEMMA TickTypes ==
    ASSUME TypeInv, Tick
    PROVE  TypeInv'
<1>0. /\ now \in Nat /\ now' = now + 1 /\ now' \in 0 .. MaxTime /\ proc' = proc
      /\ told' = told /\ started' = started /\ crashes' = crashes /\ lost' = lost
      /\ missed' = missed
  BY ClaimsAssumption DEF Tick, TypeInv, TypeOK
<1>1. hash' \in Claims /\ Bounded(hash') /\ due' \in Nat
  <2>1. NoClaims \in Claims BY DEF NoClaims, Claims
  <2>2. \A a \in Agents : NoClaims[a].exp <= 0 BY DEF NoClaims, NoClaim
  <2>3. Bounded(NoClaims) BY <2>2 DEF Bounded
  <2>4. CASE hash' = NoClaims /\ due' = 0 BY <2>1, <2>3, <2>4
  <2>5. CASE hash' = hash /\ due' = due BY <2>5 DEF TypeInv, TypeOK
  <2> QED BY <2>4, <2>5 DEF Tick, DelKey
<1>2. resolution' \in [winner : Agents \cup {Nobody}, due : Nat]
  BY DEF Tick, TypeInv, TypeOK, NoResolution
<1>3. TypeOK' BY <1>0, <1>1, <1>2 DEF TypeInv, TypeOK
<1>4. ASSUME NEW p \in Procs PROVE CallOK(proc[p])'
  <2>1. CallOK(proc[p]) BY DEF TypeInv
  <2> QED BY <1>0, <2>1 DEF CallOK
<1> QED BY <1>1, <1>3, <1>4 DEF TypeInv

\* A process dies.
LEMMA CrashTypes ==
    ASSUME TypeInv, NEW p \in Procs, Crash(p)
    PROVE  TypeInv'
<1>1. crashes' \in 0 .. MaxCrashes BY CallFields, ClaimsAssumption DEF Crash
<1>2. lost' \subseteq Agents /\ missed' \subseteq Agents BY CallFields DEF Crash, Proc
<1> QED BY <1>1, <1>2, OneCall, CallFields DEF Crash, Return

\* No operation has begun.
LEMMA TypeStart == Init => TypeInv
<1> SUFFICES ASSUME Init PROVE TypeInv OBVIOUS
<1>1. NoClaims \in Claims BY DEF NoClaims, Claims
<1>2. \A a \in Agents : NoClaims[a].exp <= 0 BY DEF NoClaims, NoClaim
<1>3. Bounded(NoClaims) BY <1>2 DEF Bounded
<1>4. Free \in Proc BY <1>1 DEF Free, Proc, Pcs, Operations
<1>5. CallOK(Free) BY <1>3, <1>4 DEF CallOK, Free, Init
<1>6. TypeOK
  <2>1. 0 \in 0 .. MaxTime /\ 0 \in 0 .. MaxOps /\ 0 \in 0 .. MaxCrashes /\ 0 \in Nat
    BY ClaimsAssumption
  <2>2. NoResolution \in [winner : Agents \cup {Nobody}, due : Nat]
    BY DEF NoResolution
  <2>3. [p \in Procs |-> Free] \in [Procs -> Proc] BY <1>4
  <2> QED BY <1>1, <2>1, <2>2, <2>3 DEF Init, TypeOK
<1> QED BY <1>1, <1>3, <1>5, <1>6 DEF Init, TypeInv

\* Every step keeps the types.
LEMMA TypeStep == TypeInv /\ [Next]_vars => TypeInv'
<1> SUFFICES ASSUME TypeInv, [Next]_vars PROVE TypeInv' OBVIOUS
<1>1. CASE UNCHANGED vars
  BY <1>1 DEF vars, TypeInv, TypeOK, CallOK
<1>2. CASE Tick BY <1>2, TickTypes
<1>3. CASE \E p \in Procs : Start(p) \/ Step(p) \/ Crash(p)
  <2> SUFFICES ASSUME NEW p \in Procs, Start(p) \/ Step(p) \/ Crash(p)
               PROVE  TypeInv'
    BY <1>3
  <2> QED
    BY BeginTypes, LoadTypes, PruneTypes, ReadTypes, MutateTypes, AnswerTypes, TellTypes,
       WriteTypes, ExpireClaimsTypes, ResolutionTypes, CrashTypes
    DEF Step
<1> QED BY <1>1, <1>2, <1>3 DEF Next

(* Whatever operations any number of processes run at the same time, every *)
(* reachable state is type correct: in particular the hash never gets a    *)
(* TTL that is not a number of seconds (claims_hash_ttl_seconds), and a    *)
(* claim always has a status that recompute_claim_statuses or              *)
(* resolve_claim gives.                                                    *)
THEOREM ClaimsTypeCorrect == Spec => []TypeOK
<1>1. TypeInv => TypeOK BY DEF TypeInv
<1> QED BY <1>1, TypeStart, TypeStep, PTL DEF Spec

-----------------------------------------------------------------------------
(* One process at a time.                                                  *)

Serial == \A p, q \in Procs : p = q

\* No two claims of v that may not be shared are both granted.
Clean(v) ==
    \A a, b \in Holders(v) :
        a # b /\ ~MayShare(v[a], v[b])
            => ~(v[a].status = "granted" /\ v[b].status = "granted")

\* h has nothing that v has not.
Within(h, v) == \A a \in Agents : h[a] \in {NoClaim, v[a]}

\* a's claim in v is the one it was told of.
Kept(a, v) ==
    v[a] # NoClaim /\ v[a].mode = told[a].mode /\ v[a].exp = told[a].exp

\* Where the claims a call has read, or writes, stand to the hash.
Shape(r) ==
    /\ r.pc = "prune" =>
           /\ r.todo \cap Holders(r.view) = {}
           /\ \A a \in Agents \ r.todo : hash[a] \in {NoClaim, r.view[a]}
    /\ r.pc \in {"drop", "dropped", "refresh", "loaded", "write", "expire"} =>
           Within(hash, r.view)
    /\ r.pc \in {"drop", "dropped"} => Holders(r.view) = {}
    /\ r.pc \in {"prune", "refresh", "loaded", "notify"} =>
           \A a \in Holders(r.view) :
               r.view[a].exp > now + Second => hash[a] = r.view[a]
    /\ r.pc = "write" =>
           /\ Clean(r.view)
           /\ \A a \in Holders(r.view) : a \in r.todo \/ hash[a] = r.view[a]
    /\ r.pc = "expire" => \A a \in Agents : hash[a] = r.view[a]
    /\ r.pc \in {"write", "expire"} => due = 0
    /\ r.pc \in {"write", "expire"} /\ r.op \in {"claim", "renew"} =>
           GrantsAlone(r.view)

\* What an agent counts on is in the hash, or is about to be written there,
\* unless a process died before it had written it.
Promised(r) ==
    \A a \in Agents : a \notin lost /\ CountsOn(a) =>
        /\ r.pc # "write" => Kept(a, hash)
        /\ r.pc \in {"prune", "drop", "dropped", "refresh", "loaded", "write", "expire",
                     "notify"}
               => Kept(a, r.view)

\* Who is not yet told of a resolution, was not reached or has won it: nobody
\* else counts on a claim once the messages are on their way.
Told(r) ==
    r.pc = "notify" =>
        \A a \in Agents : CountsOn(a) => a \in r.todo \cup lost \cup missed \cup {r.agent}

\* Who asks does not count on what it was told before.
Asking(r) == r.op \in {"claim", "renew", "release"} => told[r.agent] = NoClaim

\* The hash outlives each of its claims but for its last second.
DueCovers == \A a \in Holders(hash) : due = 0 \/ due >= hash[a].exp - Second

SerialInv ==
    /\ Serial /\ TypeInv
    /\ Clean(hash) /\ DueCovers /\ PromisesDoNotConflict
    /\ \A p \in Procs :
           Shape(proc[p]) /\ Promised(proc[p]) /\ Told(proc[p]) /\ Asking(proc[p])

\* Conflicts is the opposite of what ResourceLeaseMode lets two agents have.
LEMMA ConflictsIs ==
    ASSUME NEW l, NEW r, l.mode \in LeaseModes, r.mode \in LeaseModes
    PROVE  Conflicts(l, r) <=> ~MayShare(l, r)
BY DEF Conflicts, MayShare, LeaseModes

\* Claims that are granted alone do not conflict.
LEMMA AloneIsClean ==
    ASSUME NEW v \in Claims, GrantsAlone(v)
    PROVE  Clean(v)
<1>1. \A a \in Holders(v) : v[a].mode \in LeaseModes
  BY DEF Claims, Claim, Holders
<1> QED BY <1>1, ConflictsIs DEF Clean, GrantsAlone

\* Fewer claims do not conflict either.
LEMMA WithinClean ==
    ASSUME NEW h, NEW v, Within(h, v), Clean(v)
    PROVE  Clean(h)
BY DEF Within, Clean, Holders

\* SerialInv, for the process at hand.
LEMMA OneProcess ==
    ASSUME SerialInv, TypeInv', NEW p \in Procs, Clean(hash)', DueCovers',
           PromisesDoNotConflict', Shape(proc[p])', Promised(proc[p])', Told(proc[p])',
           Asking(proc[p])'
    PROVE  SerialInv'
<1>1. \A q \in Procs : q = p BY DEF SerialInv, Serial
<1> QED BY <1>1 DEF SerialInv, Serial

\* Whom the one process has yet to write to.
LEMMA UntoldIs ==
    ASSUME Serial, NEW p \in Procs
    PROVE  /\ proc[p].pc # "notify" => Untold = {}
           /\ proc[p].pc = "notify" => Untold = proc[p].todo
<1>1. \A q \in Procs : q = p BY DEF Serial
<1>2. CASE proc[p].pc # "notify" BY <1>1, <1>2 DEF Untold
<1>3. CASE proc[p].pc = "notify"
  <2>1. {q \in Procs : proc[q].pc = "notify"} = {p} BY <1>1, <1>3
  <2>2. {proc[q].todo : q \in {p}} = {proc[p].todo} OBVIOUS
  <2>3. UNION {proc[p].todo} = proc[p].todo OBVIOUS
  <2> QED BY <1>3, <2>1, <2>2, <2>3 DEF Untold
<1> QED BY <1>2, <1>3

\* The same, after a step.
LEMMA UntoldPrimed ==
    ASSUME Serial', NEW p \in Procs
    PROVE  proc'[p].pc = "notify" => Untold' = proc'[p].todo
<1>1. \A q \in Procs : q = p BY DEF Serial
<1>2. ASSUME proc'[p].pc = "notify" PROVE Untold' = proc'[p].todo
  <2>1. {q \in Procs : proc'[q].pc = "notify"} = {p} BY <1>1, <1>2
  <2>2. {proc'[q].todo : q \in {p}} = {proc'[p].todo} OBVIOUS
  <2>3. UNION {proc'[p].todo} = proc'[p].todo OBVIOUS
  <2> QED BY <2>1, <2>2, <2>3 DEF Untold
<1> QED BY <1>2

\* As long as nobody is told anything new, promises do not begin to conflict.
LEMMA PromisesStay ==
    ASSUME TypeInv, PromisesDoNotConflict, now' \in Int, now' >= now,
           \A a \in Agents :
               \/ told'[a] = NoClaim
               \/ told'[a] = told[a] /\ (a \in Unaware => a \in Unaware')
    PROVE  /\ PromisesDoNotConflict'
           /\ \A a \in Agents : CountsOn(a)' => CountsOn(a) /\ told'[a] = told[a]
<1>1. \A a \in Agents : told[a].exp \in Int
  BY DEF TypeInv, TypeOK, Claims, Claim, NoClaim
<1>2. now \in Int /\ Second \in Int BY ClaimsAssumption DEF TypeInv, TypeOK
<1>3. ASSUME NEW a \in Agents, CountsOn(a)'
      PROVE  CountsOn(a) /\ told'[a] = told[a] /\ (a \in Unaware => a \in Unaware')
  <2>1. told'[a] = told[a] /\ (a \in Unaware => a \in Unaware')
    BY <1>3 DEF CountsOn, NoClaim
  <2> QED BY <1>1, <1>2, <1>3, <2>1 DEF CountsOn
<1>4. PromisesDoNotConflict'
  <2> SUFFICES ASSUME NEW a \in Agents, NEW b \in Agents, a # b, CountsOn(a)',
                      CountsOn(b)', ~MayShare(told[a], told[b])'
               PROVE  a \in Unaware' \/ b \in Unaware'
    BY DEF PromisesDoNotConflict
  <2>1. ~MayShare(told[a], told[b]) BY <1>3 DEF MayShare
  <2>2. a \in Unaware \/ b \in Unaware BY <1>3, <2>1 DEF PromisesDoNotConflict
  <2> QED BY <1>3, <2>2
<1> QED BY <1>3, <1>4

\* Nobody is told anything, and no messages are on their way.
LEMMA SamePromises ==
    ASSUME SerialInv, NEW p \in Procs, proc[p].pc # "notify",
           now' = now, told' = told, lost' = lost, missed' = missed
    PROVE  PromisesDoNotConflict'
<1>1. Untold = {} BY UntoldIs DEF SerialInv
<1>2. \A a \in Agents : a \in Unaware => a \in Unaware' BY <1>1 DEF Unaware
<1>3. now \in Int BY DEF SerialInv, TypeInv, TypeOK
<1> QED BY <1>2, <1>3, PromisesStay DEF SerialInv

\* Once the messages are behind it, or p has died, whoever counts on a claim
\* has won it or could not be reached.
LEMMA AllTold ==
    ASSUME NEW w, \A a \in Agents : CountsOn(a)' => a \in lost' \cup missed' \cup {w}
    PROVE  PromisesDoNotConflict'
BY DEF PromisesDoNotConflict, Unaware

\* EXPIRE, with what is left of the longest lease that was read or written.
LEMMA ExpireKeeps ==
    ASSUME TypeInv, NEW p \in Procs, NEW t \in {proc[p].at, proc[p].seen},
           NEW n \in HashTTLs(proc[p].view, t), Expire(n), now' = now,
           Within(hash, proc[p].view)
    PROVE  /\ DueCovers'
           /\ Within(hash', hash)
           /\ \A a \in Holders(proc[p].view) :
                  proc[p].view[a].exp > now + Second => hash'[a] = hash[a]
<1> DEFINE v == proc[p].view
           m == n * Second
<1>1. /\ v \in Claims /\ Bounded(v) /\ t \in Nat /\ t <= now /\ now \in Nat
      /\ Second \in Nat
  BY CallFields DEF CallOK, Proc
<1>2. /\ n \in Nat /\ m \in Nat
      /\ \A a \in Holders(v) : v[a].exp - Second <= t + m
      /\ n = 0 => \A a \in Holders(v) : v[a].exp <= t + Second
  BY <1>1, HashTTLReaches
<1>3. \A a \in Holders(v) : v[a].exp \in Int
  BY <1>1 DEF Claims, Claim, Holders
<1>w. Within(hash, v) OBVIOUS
<1>e. \/ n = 0 /\ hash' = NoClaims /\ due' = 0
      \/ Holders(hash) = {} /\ hash' = NoClaims /\ due' = 0
      \/ hash' = hash /\ due' = now + m
  BY DEF Expire, DelKey
<1> HIDE DEF v, m
<1>4. CASE hash' = NoClaims /\ due' = 0 /\ (n = 0 \/ Holders(hash) = {})
  <2>1. DueCovers' BY <1>4 DEF DueCovers
  <2>2. Within(hash', hash) BY <1>4 DEF Within, NoClaims
  <2>3. ASSUME NEW a \in Holders(v), v[a].exp > now + Second
        PROVE  hash'[a] = hash[a]
    <3>1. n # 0 BY <1>1, <1>2, <1>3, <2>3
    <3>2. a \in Agents /\ hash[a] = NoClaim BY <1>4, <3>1 DEF Holders
    <3> QED BY <1>4, <3>2 DEF NoClaims
  <2> QED BY <2>1, <2>2, <2>3 DEF v
<1>5. CASE hash' = hash /\ due' = now + m
  <2>1. ASSUME NEW a \in Holders(hash) PROVE now + m >= hash[a].exp - Second
    <3>1. hash[a] = v[a] /\ a \in Holders(v) BY <1>w DEF Within, Holders
    <3> QED BY <1>1, <1>2, <1>3, <3>1
  <2>2. DueCovers' BY <1>5, <2>1 DEF DueCovers
  <2>3. Within(hash', hash) BY <1>5 DEF Within
  <2> QED BY <1>5, <2>2, <2>3
<1> QED BY <1>e, <1>4, <1>5

-----------------------------------------------------------------------------
\* The hash stays, nobody is told more, and p goes where no claims are kept.
LEMMA IdleStep ==
    ASSUME SerialInv, TypeInv', NEW p \in Procs,
           hash' = hash, due' = due, now' = now,
           \A a \in Agents :
               \/ told'[a] = NoClaim
               \/ /\ told'[a] = told[a]
                  /\ (a \in lost => a \in lost') /\ (a \in missed => a \in missed'),
           proc[p].pc = "write" => proc[p].todo \subseteq lost',
           proc[p].pc = "notify" => proc[p].todo \ {proc[p].agent} \subseteq missed',
           proc'[p].pc \in {"idle", "load", "scan", "record", "recorded"},
           Asking(proc[p])'
    PROVE  SerialInv'
<1> DEFINE r == proc[p]
<1>1. Clean(hash)' BY DEF SerialInv, Clean, Holders
<1>2. DueCovers' BY DEF SerialInv, DueCovers, Holders
<1>3. Shape(proc[p])' /\ Told(proc[p])' BY DEF Shape, Told
<1>t. /\ now' \in Int /\ now' >= now
      /\ Shape(r) /\ Promised(r) /\ Told(r) /\ PromisesDoNotConflict
  BY DEF SerialInv, TypeInv, TypeOK
<1>n. \A a \in Agents : CountsOn(a)' =>
          /\ CountsOn(a) /\ told'[a] = told[a]
          /\ (a \in lost => a \in lost') /\ (a \in missed => a \in missed')
  BY DEF CountsOn, NoClaim
<1>4. PromisesDoNotConflict'
  <2>1. CASE r.pc = "notify"
    <3>1. \A a \in Agents : CountsOn(a)' => a \in lost' \cup missed' \cup {r.agent}
      BY <1>t, <1>n, <2>1 DEF Told
    <3> QED BY <3>1, AllTold
  <2>2. CASE r.pc # "notify"
    <3>1. Untold = {} BY <2>2, UntoldIs DEF SerialInv
    <3>2. \A a \in Agents :
              \/ told'[a] = NoClaim
              \/ told'[a] = told[a] /\ (a \in Unaware => a \in Unaware')
      BY <3>1 DEF Unaware
    <3> QED BY <1>t, <3>2, PromisesStay DEF SerialInv
  <2> QED BY <2>1, <2>2
<1>5. Promised(proc[p])'
  <2> SUFFICES ASSUME NEW a \in Agents, a \notin lost', CountsOn(a)'
               PROVE  Kept(a, hash)'
    BY DEF Promised
  <2>1. a \notin lost /\ CountsOn(a) /\ told'[a] = told[a] BY <1>n
  <2>2. Kept(a, hash)
    <3>1. CASE r.pc # "write" BY <1>t, <2>1, <3>1 DEF Promised
    <3>2. CASE r.pc = "write"
      <4>1. Kept(a, r.view) BY <1>t, <2>1, <3>2 DEF Promised
      <4>2. a \in Holders(r.view) /\ a \notin r.todo BY <3>2, <4>1 DEF Kept, Holders
      <4>3. hash[a] = r.view[a] BY <1>t, <3>2, <4>2 DEF Shape
      <4> QED BY <4>1, <4>3 DEF Kept
    <3> QED BY <3>1, <3>2
  <2> QED BY <2>1, <2>2 DEF Kept
<1> QED BY <1>1, <1>2, <1>3, <1>4, <1>5, OneProcess

\* An operation begins.
LEMMA BeginStep ==
    ASSUME SerialInv, TypeInv', NEW p \in Procs, Start(p)
    PROVE  SerialInv'
<1>1. PICK op \in Operations, a \in Agents \cup {Nobody},
           m \in LeaseModes \cup {"none"}, x \in TTLs \cup {0} :
        /\ Begin(p, op, a, m, x)
        /\ op \in {"claim", "renew", "release"} => a \in Agents
  BY ClaimsAssumption DEF Start, Operations
<1>0. told \in [Agents -> Claim \cup {NoClaim}] /\ proc \in [Procs -> Proc]
  BY DEF SerialInv, TypeInv, TypeOK, Claims
<1> DEFINE r == [Free EXCEPT !.pc = "load", !.op = op, !.agent = a, !.mode = m,
                             !.ttl = x, !.at = now]
<1>2. proc'[p] = r BY <1>0, <1>1 DEF Begin
<1>3. r.pc = "load" /\ r.op = op /\ r.agent = a BY DEF Free
<1> HIDE DEF r
<1>4. \A b \in Agents :
          \/ told'[b] = NoClaim
          \/ /\ told'[b] = told[b]
             /\ (b \in lost => b \in lost') /\ (b \in missed => b \in missed')
  BY <1>0, <1>1 DEF Begin
<1>5. op \in {"claim", "renew", "release"} => told'[a] = NoClaim
  BY <1>0, <1>1 DEF Begin
<1>6. Asking(proc[p])' BY <1>2, <1>3, <1>5 DEF Asking
<1>7. hash' = hash /\ due' = due /\ now' = now /\ proc[p].pc = "idle"
  BY <1>1 DEF Begin
<1> QED BY <1>2, <1>3, <1>4, <1>6, <1>7, IdleStep

\* HGETALL
LEMMA LoadStep ==
    ASSUME SerialInv, TypeInv', NEW p \in Procs, Load(p)
    PROVE  SerialInv'
<1> DEFINE live == {a \in Holders(hash) : Unexpired(hash[a], now)}
           w == [a \in Agents |-> IF a \in live THEN hash[a] ELSE NoClaim]
           x == CASE Holders(hash) = {} -> "loaded"
                  [] live # Holders(hash) -> "prune"
                  [] OTHER -> "refresh"
<1>0. /\ proc \in [Procs -> Proc] /\ proc[p] \in Proc /\ hash \in Claims
      /\ now \in Nat /\ Second \in Nat \ {0}
  BY CallFields DEF SerialInv
<1>1. /\ proc'[p].pc = x /\ proc'[p].view = w /\ proc'[p].todo = Holders(hash) \ live
      /\ proc'[p].op = proc[p].op /\ proc'[p].agent = proc[p].agent
  BY <1>0 DEF Load, Proc
<1>2. /\ hash' = hash /\ due' = due /\ now' = now /\ told' = told /\ lost' = lost
      /\ missed' = missed /\ proc[p].pc = "load"
  BY DEF Load
<1>3. /\ \A a \in live : a \in Agents /\ w[a] = hash[a] /\ hash[a] # NoClaim
      /\ \A a \in Agents : a \notin live => w[a] = NoClaim
      /\ Holders(w) = live /\ live \subseteq Holders(hash)
  BY DEF Holders
<1>4. /\ x = "loaded" => Holders(hash) = {}
      /\ x = "refresh" => live = Holders(hash)
      /\ x \in {"loaded", "prune", "refresh"}
  OBVIOUS
<1>5. \A a \in Agents : a \notin Holders(hash) => hash[a] = NoClaim BY DEF Holders
<1>l. \A a \in Agents : Kept(a, hash) /\ CountsOn(a) => a \in live
  <2> SUFFICES ASSUME NEW a \in Agents, Kept(a, hash), CountsOn(a)
               PROVE  a \in live
    OBVIOUS
  <2>1. hash[a].exp > now + Second /\ a \in Holders(hash) /\ hash[a].exp \in Int
    BY <1>0 DEF Kept, CountsOn, Holders, Claims, Claim
  <2> QED BY <1>0, <2>1 DEF Unexpired
<1> HIDE DEF x, w, live
<1>6. Shape(proc[p])'
  BY <1>1, <1>2, <1>3, <1>4, <1>5 DEF Shape, Within
<1>7. Promised(proc[p])'
  <2> SUFFICES ASSUME NEW a \in Agents, a \notin lost', CountsOn(a)'
               PROVE  Kept(a, hash)' /\ Kept(a, proc[p].view)'
    BY DEF Promised
  <2>1. CountsOn(a) BY <1>2 DEF CountsOn
  <2>2. Kept(a, hash) BY <1>2, <2>1 DEF SerialInv, Promised
  <2>3. a \in live BY <1>l, <2>1, <2>2
  <2>4. proc'[p].view[a] = hash[a] BY <1>1, <1>3, <2>3
  <2> QED BY <1>2, <2>2, <2>4 DEF Kept
<1>8. Asking(proc[p])' BY <1>1, <1>2 DEF Asking, SerialInv
<1>9. Clean(hash)' /\ DueCovers' BY <1>2 DEF SerialInv, Clean, DueCovers, Holders
<1>10. PromisesDoNotConflict' /\ Told(proc[p])'
  BY <1>1, <1>2, <1>4, SamePromises DEF Told
<1> QED BY <1>6, <1>7, <1>8, <1>9, <1>10, OneProcess

\* HDEL of the claims found expired.
LEMMA PruneStep ==
    ASSUME SerialInv, TypeInv', NEW p \in Procs, Prune(p)
    PROVE  SerialInv'
<1> DEFINE r == proc[p]
<1>0. proc \in [Procs -> Proc] /\ r \in Proc BY CallFields DEF SerialInv
<1>1. /\ proc'[p].pc = IF Holders(r.view) = {} THEN "drop" ELSE "refresh"
      /\ proc'[p].view = r.view /\ proc'[p].op = r.op /\ proc'[p].agent = r.agent
  BY <1>0 DEF Prune, Proc
<1>2. now' = now /\ told' = told /\ lost' = lost /\ missed' = missed /\ r.pc = "prune" BY DEF Prune
<1>3. \A a \in Agents : hash'[a] = IF a \in r.todo THEN NoClaim ELSE hash[a]
  BY DEF Prune, HDel
<1>4. due' \in {0, due} BY DEF Prune, HDel
<1>5. Shape(r) /\ Promised(r) /\ Asking(r) BY DEF SerialInv
<1> HIDE DEF r
<1>6. Within(hash', hash) BY <1>3 DEF Within
<1>7. Clean(hash)' BY <1>6, WithinClean DEF SerialInv
<1>8. DueCovers' BY <1>3, <1>4 DEF SerialInv, DueCovers, Holders
<1>9. Shape(proc[p])'
  <2>1. Within(hash', r.view) BY <1>2, <1>3, <1>5 DEF Shape, Within
  <2>2. \A a \in Holders(r.view) : a \in Agents /\ a \notin r.todo /\ hash'[a] = hash[a]
    BY <1>2, <1>3, <1>5 DEF Shape, Holders
  <2> QED BY <1>1, <1>2, <1>5, <2>1, <2>2 DEF Shape, Within
<1>10. Promised(proc[p])'
  <2> SUFFICES ASSUME NEW a \in Agents, a \notin lost', CountsOn(a)'
               PROVE  Kept(a, hash)' /\ Kept(a, proc[p].view)'
    BY DEF Promised
  <2>1. CountsOn(a) BY <1>2 DEF CountsOn
  <2>2. Kept(a, hash) /\ Kept(a, r.view) BY <1>2, <1>5, <2>1 DEF Promised
  <2>3. a \notin r.todo BY <1>2, <1>5, <2>2 DEF Shape, Kept, Holders
  <2>4. hash'[a] = hash[a] /\ proc'[p].view = r.view BY <1>1, <1>3, <2>3
  <2> QED BY <1>2, <2>2, <2>4 DEF Kept
<1>11. Asking(proc[p])' BY <1>1, <1>2, <1>5 DEF Asking
<1>12. PromisesDoNotConflict' /\ Told(proc[p])'
  BY <1>1, <1>2, SamePromises DEF r, Told
<1> QED BY <1>7, <1>8, <1>9, <1>10, <1>11, <1>12, OneProcess

\* DEL of a hash without claims, and of the resolution.
LEMMA DropStep ==
    ASSUME SerialInv, TypeInv', NEW p \in Procs, DropClaims(p) \/ DropResolution(p)
    PROVE  SerialInv'
<1> DEFINE r == proc[p]
<1>0. proc \in [Procs -> Proc] /\ r \in Proc BY CallFields DEF SerialInv
<1>1. /\ proc'[p].pc \in {"dropped", "loaded"} /\ proc'[p].view = r.view
      /\ proc'[p].op = r.op /\ proc'[p].agent = r.agent
  BY <1>0 DEF DropClaims, DropResolution, Goto, Proc
<1>2. /\ now' = now /\ told' = told /\ lost' = lost /\ missed' = missed /\ r.pc \in {"drop", "dropped"}
  BY DEF DropClaims, DropResolution
<1>3. (hash' = NoClaims /\ due' = 0) \/ (hash' = hash /\ due' = due)
  BY DEF DropClaims, DropResolution, DelKey
<1>4. Shape(r) /\ Promised(r) /\ Asking(r) BY DEF SerialInv
<1> HIDE DEF r
<1>5. Holders(r.view) = {} /\ Within(hash, r.view) BY <1>2, <1>4 DEF Shape
<1>6. Within(hash', hash) /\ Within(hash', r.view)
  BY <1>3, <1>5 DEF Within, NoClaims
<1>7. Clean(hash)' BY <1>6, WithinClean DEF SerialInv
<1>8. DueCovers' BY <1>3 DEF SerialInv, DueCovers, Holders, NoClaims
<1>9. Shape(proc[p])' BY <1>1, <1>2, <1>5, <1>6 DEF Shape, Within
<1>10. Promised(proc[p])'
  <2> SUFFICES ASSUME NEW a \in Agents, a \notin lost', CountsOn(a)' PROVE FALSE
    BY DEF Promised
  <2>1. CountsOn(a) BY <1>2 DEF CountsOn
  <2>2. Kept(a, r.view) BY <1>2, <1>4, <2>1 DEF Promised
  <2> QED BY <1>5, <2>2 DEF Kept, Holders
<1>11. Asking(proc[p])' BY <1>1, <1>2, <1>4 DEF Asking
<1>12. PromisesDoNotConflict' /\ Told(proc[p])'
  BY <1>1, <1>2, SamePromises DEF r, Told
<1> QED BY <1>7, <1>8, <1>9, <1>10, <1>11, <1>12, OneProcess

\* EXPIRE after the claims were read.
LEMMA RefreshStep ==
    ASSUME SerialInv, TypeInv', NEW p \in Procs, Refresh(p)
    PROVE  SerialInv'
<1> DEFINE r == proc[p]
<1>0. proc \in [Procs -> Proc] /\ r \in Proc BY CallFields DEF SerialInv
<1>1. /\ proc'[p].pc = "loaded" /\ proc'[p].view = r.view
      /\ proc'[p].op = r.op /\ proc'[p].agent = r.agent
  BY <1>0 DEF Refresh, Goto, Proc
<1>2. /\ now' = now /\ told' = told /\ lost' = lost /\ missed' = missed /\ r.pc = "refresh"
  BY DEF Refresh
<1>4. Shape(r) /\ Promised(r) /\ Asking(r) BY DEF SerialInv
<1>5. Within(hash, r.view) BY <1>2, <1>4 DEF Shape
<1>6. PICK n \in HashTTLs(proc[p].view, proc[p].seen) : Expire(n) BY DEF Refresh
<1>7. /\ DueCovers' /\ Within(hash', hash)
      /\ \A a \in Holders(r.view) :
             r.view[a].exp > now + Second => hash'[a] = hash[a]
  BY <1>2, <1>5, <1>6, ExpireKeeps DEF SerialInv
<1> HIDE DEF r
<1>8. Clean(hash)' BY <1>7, WithinClean DEF SerialInv
<1>9. Within(hash', r.view) BY <1>5, <1>7 DEF Within
<1>10. Shape(proc[p])' BY <1>1, <1>2, <1>4, <1>7, <1>9 DEF Shape, Within
<1>11. Promised(proc[p])'
  <2> SUFFICES ASSUME NEW a \in Agents, a \notin lost', CountsOn(a)'
               PROVE  Kept(a, hash)' /\ Kept(a, proc[p].view)'
    BY DEF Promised
  <2>1. CountsOn(a) BY <1>2 DEF CountsOn
  <2>2. Kept(a, hash) /\ Kept(a, r.view) BY <1>2, <1>4, <2>1 DEF Promised
  <2>3. a \in Holders(r.view) /\ r.view[a].exp > now + Second
    BY <2>1, <2>2 DEF Kept, Holders, CountsOn
  <2>4. hash'[a] = hash[a] /\ proc'[p].view = r.view BY <1>1, <1>7, <2>3
  <2> QED BY <1>2, <2>2, <2>4 DEF Kept
<1>12. Asking(proc[p])' BY <1>1, <1>2, <1>4 DEF Asking
<1>13. PromisesDoNotConflict' /\ Told(proc[p])'
  BY <1>1, <1>2, SamePromises DEF r, Told
<1> QED BY <1>7, <1>8, <1>10, <1>11, <1>12, <1>13, OneProcess

\* DEL, and the claims to write back.
LEMMA MutateStep ==
    ASSUME SerialInv, TypeInv', NEW p \in Procs, Mutate(p)
    PROVE  SerialInv'
<1> DEFINE r == proc[p]
<1>0. proc \in [Procs -> Proc] /\ r \in Proc BY CallFields DEF SerialInv
<1>a. PICK v, t : Written(p, v, t) /\ Rewrite(p, v, t) BY MutateWrites
<1>b. /\ v \in Claims
      /\ r.op \in {"claim", "renew", "release", "resolve"}
      /\ r.agent \in Agents
      /\ r.op # "resolve" => GrantsAlone(v) /\ OthersKept(v, r.view, r.agent)
      /\ r.op = "resolve" =>
             /\ SameLeases(v, r.view)
             /\ \A a \in Agents : v[a].status = "granted" => a = r.agent
  BY <1>a, WrittenIs DEF SerialInv
<1>1. /\ proc'[p].pc = IF Holders(v) = {} THEN "dropAll" ELSE "write"
      /\ proc'[p].view = v /\ proc'[p].todo = Holders(v)
      /\ proc'[p].op = r.op /\ proc'[p].agent = r.agent
  BY <1>0, <1>a DEF Rewrite, Proc
<1>2. /\ now' = now /\ told' = told /\ lost' = lost /\ missed' = missed /\ r.pc = "loaded"
      /\ hash' = NoClaims /\ due' = 0
  BY <1>a DEF Mutate, Rewrite, DelKey
<1>4. Shape(r) /\ Promised(r) /\ Asking(r) BY DEF SerialInv
<1> HIDE DEF r
<1>5. Clean(v)
  <2>1. CASE r.op = "resolve" BY <1>b, <2>1 DEF Clean, Holders
  <2>2. CASE r.op # "resolve" BY <1>b, <2>2, AloneIsClean
  <2> QED BY <2>1, <2>2
<1>6. \A a \in Agents : hash'[a] = NoClaim BY <1>2 DEF NoClaims
<1>7. Clean(hash)' /\ DueCovers' BY <1>6 DEF Clean, DueCovers, Holders
<1>8. Within(hash', v) BY <1>6 DEF Within
<1>9. Shape(proc[p])' BY <1>1, <1>2, <1>5, <1>8, <1>b DEF Shape, Within, Clean
<1>10. Promised(proc[p])'
  <2> SUFFICES ASSUME NEW a \in Agents, a \notin lost', CountsOn(a)'
               PROVE  Kept(a, proc[p].view)' /\ proc'[p].pc = "write"
    BY DEF Promised
  <2>1. CountsOn(a) BY <1>2 DEF CountsOn
  <2>2. Kept(a, r.view) BY <1>2, <1>4, <2>1 DEF Promised
  <2>3. Kept(a, v)
    <3>1. CASE r.op = "resolve" BY <1>b, <2>2, <3>1 DEF Kept, SameLeases, Holders
    <3>2. CASE r.op # "resolve"
      <4>1. a # r.agent BY <1>4, <1>b, <2>1, <3>2 DEF Asking, CountsOn, NoClaim
      <4> QED BY <1>b, <2>2, <3>2, <4>1 DEF Kept, OthersKept, Holders
    <3> QED BY <3>1, <3>2
  <2>4. a \in Holders(v) BY <2>3 DEF Kept, Holders
  <2> QED BY <1>1, <1>2, <2>3, <2>4 DEF Kept
<1>11. Asking(proc[p])' BY <1>1, <1>2, <1>4 DEF Asking
<1>12. PromisesDoNotConflict' /\ Told(proc[p])'
  BY <1>1, <1>2, SamePromises DEF r, Told
<1> QED BY <1>7, <1>9, <1>10, <1>11, <1>12, OneProcess

\* HSET of one claim.
LEMMA WriteStep ==
    ASSUME SerialInv, TypeInv', NEW p \in Procs, NEW x \in Agents, WriteClaim(p, x)
    PROVE  SerialInv'
<1> DEFINE r == proc[p]
<1>0. proc \in [Procs -> Proc] /\ r \in Proc /\ hash \in Claims
  BY CallFields DEF SerialInv
<1>1. /\ proc'[p].pc = IF r.todo = {x} THEN "expire" ELSE "write"
      /\ proc'[p].view = r.view /\ proc'[p].todo = r.todo \ {x}
      /\ proc'[p].op = r.op /\ proc'[p].agent = r.agent
  BY <1>0 DEF WriteClaim, Proc
<1>2. /\ now' = now /\ told' = told /\ lost' = lost /\ missed' = missed /\ r.pc = "write" /\ due' = due
      /\ \A a \in Agents : hash'[a] = IF a = x THEN r.view[x] ELSE hash[a]
  BY <1>0 DEF WriteClaim, HSet, Claims
<1>4. Shape(r) /\ Promised(r) /\ Asking(r) BY DEF SerialInv
<1> HIDE DEF r
<1>5. /\ Within(hash, r.view) /\ Clean(r.view) /\ due = 0
      /\ \A a \in Holders(r.view) : a \in r.todo \/ hash[a] = r.view[a]
  BY <1>2, <1>4 DEF Shape
<1>6. Within(hash', r.view) BY <1>2, <1>5 DEF Within
<1>7. Clean(hash)' BY <1>5, <1>6, WithinClean
<1>8. DueCovers' BY <1>2, <1>5 DEF DueCovers
<1>9. \A a \in Holders(r.view) : a \in r.todo \ {x} \/ hash'[a] = r.view[a]
  BY <1>2, <1>5 DEF Holders
<1>10. r.todo = {x} => \A a \in Agents : hash'[a] = r.view[a]
  BY <1>6, <1>9 DEF Within, Holders
<1>11. Shape(proc[p])'
  BY <1>1, <1>2, <1>4, <1>5, <1>6, <1>9, <1>10 DEF Shape, Within, Clean
<1>12. Promised(proc[p])'
  <2> SUFFICES ASSUME NEW a \in Agents, a \notin lost', CountsOn(a)'
               PROVE  /\ Kept(a, proc[p].view)'
                      /\ proc'[p].pc # "write" => Kept(a, hash)'
    BY DEF Promised
  <2>1. CountsOn(a) BY <1>2 DEF CountsOn
  <2>2. Kept(a, r.view) BY <1>2, <1>4, <2>1 DEF Promised
  <2> QED BY <1>1, <1>2, <1>10, <2>2 DEF Kept
<1>13. Asking(proc[p])' BY <1>1, <1>2, <1>4 DEF Asking
<1>14. PromisesDoNotConflict' /\ Told(proc[p])'
  BY <1>1, <1>2, SamePromises DEF r, Told
<1> QED BY <1>7, <1>8, <1>11, <1>12, <1>13, <1>14, OneProcess

\* EXPIRE after the claims were written, and what the agent is told.
LEMMA ExpireClaimsStep ==
    ASSUME SerialInv, TypeInv', NEW p \in Procs, ExpireClaims(p)
    PROVE  SerialInv'
<1> DEFINE r == proc[p]
           x == r.agent
           new == r.op \in {"claim", "renew"}
<1>0. /\ proc \in [Procs -> Proc] /\ r \in Proc /\ hash \in Claims
      /\ told \in Claims /\ r.view \in Claims
      /\ r.op \in {"claim", "renew"} => x \in Agents
  BY CallFields DEF SerialInv, CallOK, Proc
<1>1. /\ proc'[p].pc \in {"idle", "load", "record"}
      /\ proc'[p].op \notin {"claim", "renew", "release"}
  BY <1>0 DEF ExpireClaims, Return, Goto, Free, Proc
<1>2. /\ now' = now /\ lost' = lost /\ missed' = missed /\ r.pc = "expire"
      /\ new => \A a \in Agents : told'[a] = IF a = x THEN r.view[x] ELSE told[a]
      /\ ~new => told' = told
  BY <1>0 DEF ExpireClaims, Claims
<1>4. Shape(r) /\ Promised(r) BY DEF SerialInv
<1>5. /\ \A a \in Agents : hash[a] = r.view[a]
      /\ new => GrantsAlone(r.view)
      /\ Within(hash, r.view)
  BY <1>2, <1>4 DEF Shape
<1>6. PICK n \in HashTTLs(proc[p].view, proc[p].at) : Expire(n) BY DEF ExpireClaims
<1>7. /\ DueCovers' /\ Within(hash', hash)
      /\ \A a \in Holders(r.view) :
             r.view[a].exp > now + Second => hash'[a] = hash[a]
  BY <1>2, <1>5, <1>6, ExpireKeeps DEF SerialInv
<1> HIDE DEF r, x, new
<1>8. Clean(hash)' BY <1>7, WithinClean DEF SerialInv
<1>9. Shape(proc[p])' /\ Told(proc[p])' BY <1>1 DEF Shape, Told
<1>10. Asking(proc[p])' BY <1>1 DEF Asking
<1>11. ASSUME NEW a \in Agents, a \notin lost, CountsOn(a)'
       PROVE  /\ r.view[a] # NoClaim /\ r.view[a].mode = told'[a].mode
              /\ r.view[a].exp = told'[a].exp /\ a \in Holders(r.view)
              /\ told'[a] = r.view[a] \/ ~new \/ a # x
  <2>1. CASE new /\ a = x
    BY <1>2, <1>11, <2>1 DEF CountsOn, Holders, NoClaim
  <2>2. CASE ~(new /\ a = x)
    <3>1. CountsOn(a) /\ told'[a] = told[a] BY <1>2, <1>11, <2>2 DEF CountsOn
    <3>2. Kept(a, r.view) BY <1>2, <1>4, <1>11, <3>1 DEF Promised
    <3> QED BY <2>2, <3>1, <3>2 DEF Kept, Holders
  <2> QED BY <2>1, <2>2
<1>12. Promised(proc[p])'
  <2> SUFFICES ASSUME NEW a \in Agents, a \notin lost', CountsOn(a)'
               PROVE  Kept(a, hash)'
    BY <1>1 DEF Promised
  <2>1. /\ r.view[a] # NoClaim /\ r.view[a].mode = told'[a].mode
        /\ r.view[a].exp = told'[a].exp /\ a \in Holders(r.view)
    BY <1>2, <1>11
  <2>2. r.view[a].exp > now + Second BY <1>2, <2>1 DEF CountsOn
  <2>3. hash'[a] = r.view[a] BY <1>5, <1>7, <2>1, <2>2
  <2> QED BY <2>1, <2>3 DEF Kept
<1>13. PromisesDoNotConflict'
  <2> SUFFICES ASSUME NEW a \in Agents, NEW b \in Agents, a # b, CountsOn(a)',
                      CountsOn(b)', a \notin Unaware', b \notin Unaware'
               PROVE  MayShare(told[a], told[b])'
    BY DEF PromisesDoNotConflict
  <2>u. /\ a \notin lost /\ b \notin lost
        /\ a \notin Unaware /\ b \notin Unaware
    <3>1. Untold = {} BY <1>2, UntoldIs DEF SerialInv, r
    <3> QED BY <1>2, <3>1 DEF Unaware
  <2>0. /\ r.view[a].mode = told'[a].mode /\ a \in Holders(r.view)
        /\ r.view[b].mode = told'[b].mode /\ b \in Holders(r.view)
    BY <1>2, <1>11, <2>u
  <2>m. r.view[a].mode \in LeaseModes /\ r.view[b].mode \in LeaseModes
    BY <1>0, <2>0 DEF Claims, Claim, Holders
  <2>1. CASE new /\ a = x
    <3>1. r.view[a].status = "granted" BY <1>2, <2>1 DEF CountsOn
    <3>2. ~Conflicts(r.view[a], r.view[b])
      BY <1>5, <2>0, <2>1, <3>1 DEF GrantsAlone
    <3>3. MayShare(r.view[a], r.view[b]) BY <2>m, <3>2, ConflictsIs
    <3> QED BY <2>0, <3>3 DEF MayShare
  <2>2. CASE new /\ b = x
    <3>1. r.view[b].status = "granted" BY <1>2, <2>2 DEF CountsOn
    <3>2. ~Conflicts(r.view[b], r.view[a])
      BY <1>5, <2>0, <2>2, <3>1 DEF GrantsAlone
    <3>3. MayShare(r.view[b], r.view[a]) BY <2>m, <3>2, ConflictsIs
    <3> QED BY <2>0, <3>3 DEF MayShare
  <2>3. CASE ~new \/ (a # x /\ b # x)
    <3>1. told'[a] = told[a] /\ told'[b] = told[b] BY <1>2, <2>3
    <3>2. CountsOn(a) /\ CountsOn(b) BY <1>2, <3>1 DEF CountsOn
    <3>3. MayShare(told[a], told[b])
      BY <2>u, <3>2 DEF SerialInv, PromisesDoNotConflict
    <3> QED BY <3>1, <3>3 DEF MayShare
  <2> QED BY <2>1, <2>2, <2>3
<1> QED BY <1>7, <1>8, <1>9, <1>10, <1>12, <1>13, OneProcess

\* The messages of a resolution begin: who counts on a claim was read back.
LEMMA NotifyStep ==
    ASSUME SerialInv, TypeInv', NEW p \in Procs, Answer(p), proc'[p].pc = "notify"
    PROVE  SerialInv'
<1> DEFINE r == proc[p]
<1>0. proc \in [Procs -> Proc] /\ r \in Proc BY CallFields DEF SerialInv
<1>1. /\ proc'[p].view = r.view /\ proc'[p].todo = Holders(r.view)
      /\ proc'[p].op = r.op /\ proc'[p].agent = r.agent
  BY <1>0 DEF Answer, Return, Free, Goto, Proc
<1>2. /\ now' = now /\ told' = told /\ lost' = lost /\ missed' = missed
      /\ r.pc = "loaded" /\ hash' = hash /\ due' = due
  BY DEF Answer
<1>3. Shape(r) /\ Promised(r) /\ Asking(r) BY DEF SerialInv
<1>4. PromisesDoNotConflict' BY <1>2, SamePromises
<1> HIDE DEF r
<1>5. Clean(hash)' BY <1>2 DEF SerialInv, Clean, Holders
<1>6. DueCovers' BY <1>2 DEF SerialInv, DueCovers, Holders
<1>7. Shape(proc[p])' BY <1>1, <1>2, <1>3 DEF Shape
<1>8. \A a \in Agents : CountsOn(a)' <=> CountsOn(a) BY <1>2 DEF CountsOn
<1>9. Promised(proc[p])' BY <1>1, <1>2, <1>3, <1>8 DEF Promised, Kept
<1>10. Told(proc[p])'
  BY <1>1, <1>2, <1>3, <1>8 DEF Promised, Told, Kept, Holders
<1>11. Asking(proc[p])' BY <1>1, <1>2, <1>3 DEF Asking
<1> QED BY <1>4, <1>5, <1>6, <1>7, <1>9, <1>10, <1>11, OneProcess

\* One claimant is told how a resolution went, or its message fails.
LEMMA TellStep ==
    ASSUME SerialInv, TypeInv', NEW p \in Procs, NEW x \in Agents,
           Tell(p, x) \/ TellFails(p, x)
    PROVE  SerialInv'
<1> DEFINE r == proc[p]
           u == Ruled(r.view, r.agent)
<1>0. /\ proc \in [Procs -> Proc] /\ r \in Proc /\ hash \in Claims /\ r.view \in Claims
      /\ told \in Claims
  BY CallFields DEF SerialInv, Proc
<1>1. /\ now' = now /\ lost' = lost /\ r.pc = "notify" /\ hash' = hash /\ due' = due
      /\ x \in r.todo
  BY DEF Tell, TellFails
<1>2. \/ /\ missed' = missed \ {x}
         /\ \A a \in Agents : told'[a] = IF a = x THEN u[a] ELSE told[a]
      \/ /\ missed' = missed \cup ({x} \ {r.agent})
         /\ told' = told
  BY <1>0 DEF Tell, TellFails, Claims
<1>3. \/ r.todo = {x} /\ proc'[p].pc = "idle" /\ proc'[p].op = "none"
      \/ /\ proc'[p].pc = "notify" /\ proc'[p].view = r.view
         /\ proc'[p].todo = r.todo \ {x}
         /\ proc'[p].op = r.op /\ proc'[p].agent = r.agent
  BY <1>0, <1>1 DEF Tell, TellFails, Posted, Return, Free, Proc
<1>4. /\ SameLeases(u, r.view)
      /\ \A a \in Agents : u[a].status = "granted" => a = r.agent
      /\ \A a \in Agents : a \notin Holders(r.view) => u[a] = NoClaim
  BY <1>0, RuledIs DEF Ruled
<1>5. Shape(r) /\ Promised(r) /\ Told(r) BY DEF SerialInv
<1>o. r.op = "notify" BY <1>1, CallFields DEF SerialInv, CallOK
<1> HIDE DEF r, u
<1>6. Clean(hash)' BY <1>1 DEF SerialInv, Clean, Holders
<1>7. DueCovers' BY <1>1 DEF SerialInv, DueCovers, Holders
<1>8. Shape(proc[p])' BY <1>1, <1>3, <1>5 DEF Shape
\* Whoever counts on a claim now did before, or has just been told it won.
<1>9. ASSUME NEW a \in Agents, CountsOn(a)'
      PROVE  /\ a \in (r.todo \ {x}) \cup lost' \cup missed' \cup {r.agent}
             /\ \/ CountsOn(a) /\ told'[a] = told[a]
                \/ told'[a] = u[a] /\ a \in Holders(r.view)
  <2>1. CASE told'[a] = told[a] /\ (a = x => missed' = missed \cup ({x} \ {r.agent}))
    <3>1. CountsOn(a) BY <1>1, <1>9, <2>1 DEF CountsOn
    <3>2. a \in r.todo \cup lost \cup missed \cup {r.agent}
      BY <1>1, <1>5, <3>1 DEF Told
    <3>3. a # x => (a \in missed => a \in missed') BY <1>2
    <3> QED BY <1>1, <2>1, <3>1, <3>2, <3>3
  <2>2. CASE told'[a] = u[a] /\ a = x
    <3>1. a = r.agent /\ u[a] # NoClaim BY <1>4, <1>9, <2>2 DEF CountsOn, NoClaim
    <3> QED BY <1>4, <2>2, <3>1
  <2> QED BY <1>2, <2>1, <2>2
<1>10. ASSUME NEW a \in Agents, a \notin lost, CountsOn(a)'
       PROVE  /\ Kept(a, hash)'
              /\ r.view[a] # NoClaim /\ r.view[a].mode = told'[a].mode
              /\ r.view[a].exp = told'[a].exp
  <2>1. CASE CountsOn(a) /\ told'[a] = told[a]
    <3>1. Kept(a, hash) /\ Kept(a, r.view) BY <1>1, <1>5, <1>10, <2>1 DEF Promised
    <3>2. Kept(a, hash)' BY <1>1, <2>1, <3>1 DEF Kept
    <3>3. r.view[a] # NoClaim /\ r.view[a].mode = told'[a].mode
            /\ r.view[a].exp = told'[a].exp
      BY <2>1, <3>1 DEF Kept
    <3> QED BY <3>2, <3>3
  <2>2. CASE told'[a] = u[a] /\ a \in Holders(r.view)
    <3>1. u[a].mode = r.view[a].mode /\ u[a].exp = r.view[a].exp
      BY <1>4 DEF SameLeases
    <3>2. r.view[a].exp > now + Second BY <1>1, <1>10, <2>2, <3>1 DEF CountsOn
    <3>3. hash[a] = r.view[a] BY <1>1, <1>5, <2>2, <3>2 DEF Shape
    <3>4. r.view[a] # NoClaim BY <2>2 DEF Holders
    <3> QED BY <1>1, <2>2, <3>1, <3>3, <3>4 DEF Kept
  <2> QED BY <1>9, <1>10, <2>1, <2>2
<1>11. Promised(proc[p])' BY <1>1, <1>3, <1>10 DEF Promised, Kept
<1>12. Told(proc[p])' BY <1>3, <1>9 DEF Told
<1>13. Asking(proc[p])' BY <1>3, <1>o DEF Asking
<1>14. PromisesDoNotConflict'
  <2>1. CASE r.todo = {x}
    <3>1. \A a \in Agents : CountsOn(a)' => a \in lost' \cup missed' \cup {r.agent}
      BY <1>9, <2>1
    <3> QED BY <3>1, AllTold
  <2>2. CASE proc'[p].pc = "notify" /\ proc'[p].todo = r.todo \ {x}
    <3>1. Serial' BY DEF SerialInv, Serial
    <3>2. Untold' = r.todo \ {x}
      <4>1. proc'[p].pc = "notify" => Untold' = proc'[p].todo BY <3>1, UntoldPrimed
      <4> QED BY <2>2, <4>1
    <3>3. \A a \in Agents : CountsOn(a)' => a \in Unaware' \cup {r.agent}
      BY <1>9, <3>2 DEF Unaware
    <3> QED BY <3>3 DEF PromisesDoNotConflict
  <2> QED BY <1>3, <2>1, <2>2
<1> QED BY <1>6, <1>7, <1>8, <1>11, <1>12, <1>13, <1>14, OneProcess

\* Steps that leave the hash and tell nobody.
LEMMA QuietStep ==
    ASSUME SerialInv, TypeInv', NEW p \in Procs,
           \/ Refuse(p) \/ (Answer(p) /\ proc'[p].pc # "notify") \/ ScanResolution(p)
           \/ ReleaseLast(p) \/ RecordResolution(p) \/ ExpireResolution(p) \/ Crash(p)
    PROVE  SerialInv'
<1>0. proc \in [Procs -> Proc] /\ proc[p] \in Proc
  BY CallFields DEF SerialInv
<1>1. /\ proc'[p].pc \in {"idle", "load", "scan", "record", "recorded"}
      /\ proc'[p].op \in {"claim", "renew", "release"} =>
             proc'[p].op = proc[p].op /\ proc'[p].agent = proc[p].agent
  BY <1>0 DEF Refuse, Answer, ScanResolution, ReleaseLast, RecordResolution,
              ExpireResolution, Crash, Return, Goto, Free, Proc
<1>2. /\ hash' = hash /\ due' = due /\ now' = now /\ told' = told
  BY DEF Refuse, Answer, ScanResolution, ReleaseLast, RecordResolution,
         ExpireResolution, Crash
<1>3. /\ lost \subseteq lost' /\ missed \subseteq missed'
      /\ proc[p].pc = "write" => proc[p].todo \subseteq lost'
      /\ proc[p].pc = "notify" => proc[p].todo \ {proc[p].agent} \subseteq missed'
  BY DEF Refuse, Answer, ScanResolution, ReleaseLast, RecordResolution,
         ExpireResolution, Crash
<1>4. Asking(proc[p])' BY <1>1, <1>2 DEF Asking, SerialInv
<1> QED BY <1>1, <1>2, <1>3, <1>4, IdleStep

\* The clock advances; Redis may drop the hash.
LEMMA TickStep ==
    ASSUME SerialInv, TypeInv', Tick
    PROVE  SerialInv'
<1>0. /\ now \in Nat /\ due \in Nat /\ Second \in Nat /\ hash \in Claims
      /\ now' = now + 1 /\ proc' = proc /\ told' = told /\ lost' = lost
      /\ missed' = missed
  BY ClaimsAssumption DEF SerialInv, TypeInv, TypeOK, Tick
<1>1. \/ hash' = hash /\ due' = due
      \/ hash' = NoClaims /\ due' = 0 /\ due # 0 /\ due <= now + 1
  BY DEF Tick, Over, DelKey
<1>e. \A a \in Agents : hash[a].exp \in Int /\ told[a].exp \in Int
  BY <1>0 DEF SerialInv, TypeInv, TypeOK, Claims, Claim, NoClaim
\* A claim that has more than a second left is not dropped.
<1>2. \A a \in Agents : hash[a] # NoClaim /\ hash[a].exp > now' + Second
                            => hash'[a] = hash[a]
  <2> SUFFICES ASSUME NEW a \in Agents, hash[a] # NoClaim,
                      hash[a].exp > now' + Second, hash' # hash
               PROVE  FALSE
    OBVIOUS
  <2>1. due >= hash[a].exp - Second BY <1>1 DEF SerialInv, DueCovers, Holders
  <2> QED BY <1>0, <1>1, <1>e, <2>1
<1>3. Within(hash', hash) BY <1>1 DEF Within, NoClaims
<1>4. Clean(hash)' BY <1>3, WithinClean DEF SerialInv
<1>5. DueCovers' BY <1>1 DEF SerialInv, DueCovers, Holders
<1>6. /\ PromisesDoNotConflict'
      /\ \A a \in Agents : CountsOn(a)' => CountsOn(a) /\ told'[a] = told[a]
  BY <1>0, PromisesStay DEF SerialInv, Unaware, Untold
<1>7. ASSUME NEW p \in Procs
      PROVE  Shape(proc[p])' /\ Promised(proc[p])' /\ Told(proc[p])' /\ Asking(proc[p])'
  <2> DEFINE r == proc[p]
  <2>0. /\ Shape(r) /\ Promised(r) /\ Told(r) /\ Asking(r) /\ r.view \in Claims
    BY CallFields DEF SerialInv, Proc
  <2>1. proc'[p] = r BY <1>0
  <2>2. r.pc \in {"write", "expire"} => hash' = hash /\ due' = 0
    BY <1>1, <2>0 DEF Shape
  <2> HIDE DEF r
  <2>3. ASSUME NEW a \in Holders(r.view), r.view[a].exp > now' + Second,
               r.pc \in {"prune", "refresh", "loaded", "notify"}
        PROVE  hash'[a] = r.view[a]
    <3>1. a \in Agents /\ r.view[a] # NoClaim /\ r.view[a].exp \in Int
      BY <2>0 DEF Holders, Claims, Claim
    <3>2. r.view[a].exp > now + Second BY <1>0, <2>3, <3>1
    <3>3. hash[a] = r.view[a] BY <2>0, <2>3, <3>2 DEF Shape
    <3> QED BY <1>2, <2>3, <3>1, <3>3
  <2>4. \A v : Within(hash, v) => Within(hash', v) BY <1>3 DEF Within
  <2>5. \A a \in Agents : hash'[a] \in {NoClaim, hash[a]} BY <1>3 DEF Within
  <2>6. Shape(r)'
    BY <2>0, <2>1, <2>2, <2>3, <2>4, <2>5 DEF Shape, r
  <2>7. Promised(proc[p])'
    <3> SUFFICES ASSUME NEW a \in Agents, a \notin lost', CountsOn(a)'
                 PROVE  /\ r.pc # "write" => Kept(a, hash)'
                        /\ r.pc \in {"prune", "drop", "dropped", "refresh", "loaded",
                                     "write", "expire", "notify"}
                               => Kept(a, proc[p].view)'
      BY <2>1 DEF Promised
    <3>1. CountsOn(a) /\ told'[a] = told[a] BY <1>6
    <3>2. /\ r.pc # "write" => Kept(a, hash)
          /\ r.pc \in {"prune", "drop", "dropped", "refresh", "loaded", "write",
                       "expire", "notify"} => Kept(a, r.view)
      BY <1>0, <2>0, <3>1 DEF Promised
    <3>3. Kept(a, hash) => hash'[a] = hash[a]
      BY <1>2, <3>1 DEF Kept, CountsOn
    <3> QED BY <2>1, <3>1, <3>2, <3>3 DEF Kept
  <2>8. Asking(proc[p])' BY <1>0, <2>0, <2>1 DEF Asking
  <2>9. Told(proc[p])' BY <1>0, <1>6, <2>0, <2>1 DEF Told
  <2> QED BY <2>6, <2>7, <2>8, <2>9 DEF r
<1> QED BY <1>4, <1>5, <1>6, <1>7 DEF SerialInv, Serial

\* No operation has begun.
LEMMA SerialStart == Serial /\ Init => SerialInv
<1> SUFFICES ASSUME Serial, Init PROVE SerialInv OBVIOUS
<1>1. \A a \in Agents : hash[a] = NoClaim /\ told[a] = NoClaim
  BY DEF Init, NoClaims
<1>2. \A p \in Procs : proc[p].pc = "idle" /\ proc[p].op = "none"
  BY DEF Init, Free
<1>3. Clean(hash) /\ DueCovers BY <1>1 DEF Clean, DueCovers, Holders
<1>4. \A a \in Agents : ~CountsOn(a) BY <1>1 DEF CountsOn, NoClaim
<1>5. PromisesDoNotConflict BY <1>4 DEF PromisesDoNotConflict
<1>6. \A p \in Procs :
          Shape(proc[p]) /\ Promised(proc[p]) /\ Told(proc[p]) /\ Asking(proc[p])
  BY <1>2, <1>4 DEF Shape, Promised, Told, Asking
<1> QED BY <1>3, <1>5, <1>6, TypeStart DEF SerialInv

\* Every step keeps the invariant.
LEMMA SerialStep == SerialInv /\ [Next]_vars => SerialInv'
<1> SUFFICES ASSUME SerialInv, [Next]_vars PROVE SerialInv' OBVIOUS
<1>t. TypeInv' BY TypeStep DEF SerialInv
<1>1. CASE UNCHANGED vars
  <2>1. Unaware' = Unaware BY <1>1 DEF vars, Unaware, Untold
  <2>2. PromisesDoNotConflict'
    BY <1>1, <2>1 DEF vars, SerialInv, PromisesDoNotConflict, CountsOn
  <2> QED
    BY <1>1, <1>t, <2>2 DEF vars, SerialInv, Serial, Clean, DueCovers, CountsOn,
       Shape, Promised, Told, Asking, Within, Kept, Holders, GrantsAlone
<1>2. CASE Tick BY <1>t, <1>2, TickStep
<1>3. CASE \E p \in Procs : Start(p) \/ Step(p) \/ Crash(p)
  <2> SUFFICES ASSUME NEW p \in Procs, Start(p) \/ Step(p) \/ Crash(p)
               PROVE  SerialInv'
    BY <1>3
  <2> QED
    BY <1>t, BeginStep, LoadStep, PruneStep, DropStep, RefreshStep, MutateStep,
       NotifyStep, TellStep, QuietStep, WriteStep, ExpireClaimsStep
    DEF Step
<1> QED BY <1>1, <1>2, <1>3 DEF Next

\* The invariant gives the three properties.
LEMMA SerialSound ==
    SerialInv => NoConflictingGrants /\ PromisesDoNotConflict /\ LeaseKeptToLastSecond
<1> SUFFICES ASSUME SerialInv
             PROVE  NoConflictingGrants /\ PromisesDoNotConflict /\ LeaseKeptToLastSecond
  OBVIOUS
<1>1. NoConflictingGrants BY DEF SerialInv, Clean, NoConflictingGrants
<1>2. LeaseKeptToLastSecond
  <2>1. PICK p \in Procs : TRUE BY ClaimsAssumption
  <2> QED BY <2>1 DEF SerialInv, Promised, Kept, LeaseKeptToLastSecond, Rewriting, Holders
<1> QED BY <1>1, <1>2 DEF SerialInv

-----------------------------------------------------------------------------
(* Where operations come one after the other: whatever sequence of claims, *)
(* renewals, releases, resolutions, expiries and deaths came before, no    *)
(* two claims in the hash that may not be shared are both granted          *)
(* (recompute_claim_statuses, resolve_claim).                              *)
THEOREM SerialGrants == Serial /\ Spec => []NoConflictingGrants
BY SerialStart, SerialStep, SerialSound, PTL DEF Spec

(* Where operations come one after the other: two agents never both count  *)
(* on claims they may not share, but for one whose claim was deleted by a  *)
(* process that died before writing it back (persist_claims), and one that *)
(* lost an arbitration and was not told: its message failed, or is still   *)
(* to be sent, or its sender died (resolve_claim).                         *)
THEOREM SerialPromises == Serial /\ Spec => []PromisesDoNotConflict
BY SerialStart, SerialStep, SerialSound, PTL DEF Spec

(* Where operations come one after the other: a claim its agent counts on  *)
(* is in the hash until its last second, whatever the TTL of the hash,     *)
(* which follows the longest lease in whole seconds                        *)
(* (claims_hash_ttl_seconds, load_active_claims, persist_claims).          *)
THEOREM SerialLeases == Serial /\ Spec => []LeaseKeptToLastSecond
BY SerialStart, SerialStep, SerialSound, PTL DEF Spec
=============================================================================
