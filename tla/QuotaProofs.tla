----------------------------- MODULE QuotaProofs ------------------------------
(***************************************************************************)
(* Theorems about Quota for all bounds, limits, requests and handlers:     *)
(* nobody is charged for what was not carried, and no credit goes unseen.  *)
(*                                                                         *)
(* The usage of a user is a sum over rows that goroutines also hold copies *)
(* of and write back, even after the row has gone.  The invariant charges  *)
(* every byte credited to the id of a row, once: a table of prefix sums    *)
(* (Charges), whose steps bound what a row and each copy of it can say.    *)
(*                                                                         *)
(* Then about Upkeep, for any versions, pages and bounds: the types with   *)
(* what script and process leave behind, that no log is replayed into a    *)
(* database it does not belong to, and that what the script reports is so. *)
(***************************************************************************)
EXTENDS Quota, Upkeep, FiniteSetTheorems, WellFoundedInduction, TLAPS

(***************************************************************************)
(* The states                                                              *)
(***************************************************************************)
Row     == [at: Sources, on: BOOLEAN, used: Nat]
Table   == UNION {[S -> Row] : S \in SUBSET Ids}
Polls   == {"idle", "singbox", "xray", "credit", "write", "signal"}
Places  == {"idle", "list", "disable", "save", "reset", "members", "reconcile", "delete", "build", "push"}

\* What is still to be saved was read.
Read(t) == pc[t] \in {"save", "reset"} => todo[t] \subseteq DOMAIN copy[t]

AccountTypes == rows \in Table /\ nextId \in Nat \ {0}
EngineTypes  == served \subseteq Sources /\ count \in [Sources -> Nat] /\ moved \in Nat
PollerTypes  == /\ poll \in Polls /\ base \in [Sources -> Nat] /\ delta \in Nat
                /\ target \in Nat /\ (poll = "write" => target \in Ids)
SignalTypes  == trigger \in BOOLEAN /\ unseen \in BOOLEAN
ThreadTypes  == /\ pc \in [Threads -> Places] /\ copy \in [Threads -> Table]
                /\ todo \in [Threads -> SUBSET Ids] /\ adds \in [Threads -> SUBSET Sources]
                /\ req \in [Threads -> Request] /\ snap \in [Threads -> SUBSET Sources]
                /\ \A t \in Threads : Read(t)
BoundTypes   == ops \in 0..MaxOps /\ faults \in 0..MaxFaults

Types == /\ AccountTypes /\ EngineTypes /\ PollerTypes
         /\ SignalTypes /\ ThreadTypes /\ BoundTypes

(***************************************************************************)
(* The charges                                                             *)
(***************************************************************************)
\* What has been credited to the ids up to each: it starts at 0 and never falls.
Sums == {P \in [0..MaxIds -> Nat] : P[0] = 0 /\ \A id \in Ids : P[id - 1] <= P[id]}

\* The rows of a table say no more than what was credited to their ids.
Within(P, rs) == \A id \in DOMAIN rs : rs[id].used <= P[id] - P[id - 1]

\* What was credited, what is about to be, and what the counters still hold.
Accounted(P) == P[MaxIds] + delta + Growth("singbox") + Growth("xray") <= moved

Charges(P) == Within(P, rows) /\ (\A t \in Threads : Within(P, copy[t])) /\ Accounted(P)

ChargeInv == \E P \in Sums : Charges(P)

\* A credit is on its way to the runner until the runner reads.
SeenInv == /\ unseen => poll = "signal" \/ trigger \/ pc["runner"] = "list"
           /\ poll = "write" => delta > 0

IInv == Types /\ ChargeInv /\ SeenInv

(***************************************************************************)
(* Sums over the rows                                                      *)
(***************************************************************************)
LEMMA MinOfNat ==
  ASSUME NEW S \in SUBSET Nat, S # {}
  PROVE  Min(S) \in S /\ \A y \in S : Min(S) <= y
<1> DEFINE R == OpToRel(<, Nat)
<1>r. \A x, y \in Nat : x < y => <<x, y>> \in R
  BY DEF OpToRel
<1>w. IsWellFoundedOn(R, Nat)
  BY NatLessThanWellFounded
<1> HIDE DEF R
<1>1. PICK x \in S : \A y \in S : ~(<<y, x>> \in R)
  BY <1>w, WFMin
<1>2. \A y \in S : ~(y < x)
  BY <1>1, <1>r
<1>3. \A y \in S : x <= y
  BY <1>2
<1>4. QED
  BY <1>3 DEF Min

\* A set of naturals that holds 0 and the successor of each of its members is all.
LEMMA Upward ==
  ASSUME NEW S \in SUBSET Nat, 0 \in S, \A n \in S : n + 1 \in S
  PROVE  S = Nat
<1> SUFFICES ASSUME Nat \ S # {} PROVE FALSE
  OBVIOUS
<1> DEFINE M == Nat \ S
           m == Min(M)
<1> HIDE DEF M
<1>0. M \in SUBSET Nat /\ M # {} /\ \A x \in Nat : x \in S \/ x \in M
  BY DEF M
<1>1. m \in M /\ \A x \in M : m <= x
  BY <1>0, MinOfNat
<1>2. 0 \notin M /\ M \cap S = {}
  BY DEF M
<1> HIDE DEF m
<1>3. m # 0 /\ m \in Nat
  BY <1>0, <1>1, <1>2
<1>4. m - 1 \in Nat /\ m - 1 < m /\ (m - 1) + 1 = m
  BY <1>3
<1>5. m - 1 \in S
  BY <1>0, <1>1, <1>3, <1>4
<1>6. QED
  BY <1>1, <1>2, <1>4, <1>5

\* The element a fold takes next, and the sums a function of subsets holds when
\* each takes its own.
Pick(s) == CHOOSE x \in s : TRUE
Adds(u, C, g) == \A s \in C : g[s] = IF s = {} THEN 0 ELSE u[Pick(s)] + g[s \ {Pick(s)}]
Small(D, n) == {s \in SUBSET D : Cardinality(s) <= n}

LEMMA PickIs ==
  ASSUME NEW D, IsFiniteSet(D), NEW s \in SUBSET D, s # {}
  PROVE  /\ Pick(s) \in s /\ s \ {Pick(s)} \in SUBSET D
         /\ Cardinality(s) \in Nat /\ Cardinality(s) > 0
         /\ Cardinality(s \ {Pick(s)}) = Cardinality(s) - 1
<1>1. Pick(s) \in s
  BY DEF Pick
<1>2. IsFiniteSet(s)
  BY FS_Subset
<1>3. Cardinality(s) \in Nat /\ Cardinality(s) # 0
  BY <1>2, FS_CardinalityType, FS_EmptySet
<1>4. Cardinality(s \ {Pick(s)}) = Cardinality(s) - 1
  BY <1>1, <1>2, FS_RemoveElement
<1>5. QED
  BY <1>1, <1>3, <1>4

\* There are such sums for the subsets of every size.
LEMMA SumsExist ==
  ASSUME NEW D, IsFiniteSet(D), NEW u \in [D -> Nat]
  PROVE  \E g \in [SUBSET D -> Nat] : Adds(u, SUBSET D, g)
<1> DEFINE S == {n \in Nat : \E g \in [Small(D, n) -> Nat] : Adds(u, Small(D, n), g)}
<1>1. 0 \in S
  <2>1. \A s \in Small(D, 0) : s = {}
    <3> TAKE s \in Small(D, 0)
    <3>1. s \in SUBSET D /\ Cardinality(s) <= 0
      BY DEF Small
    <3>2. s # {} => Cardinality(s) \in Nat /\ Cardinality(s) > 0
      BY <3>1, PickIs
    <3>3. QED
      BY <3>1, <3>2
  <2> DEFINE g == [s \in Small(D, 0) |-> 0]
  <2>2. g \in [Small(D, 0) -> Nat] /\ Adds(u, Small(D, 0), g)
    BY <2>1 DEF Adds
  <2>3. QED
    BY <2>2
<1>2. \A n \in S : n + 1 \in S
  <2> TAKE n \in S
  <2>1. n \in Nat /\ n + 1 \in Nat
    OBVIOUS
  <2>2. PICK g \in [Small(D, n) -> Nat] : Adds(u, Small(D, n), g)
    OBVIOUS
  <2> DEFINE h == [s \in Small(D, n + 1) |-> IF s = {} THEN 0 ELSE u[Pick(s)] + g[s \ {Pick(s)}]]
  <2>3. \A s \in Small(D, n + 1) : s # {} => /\ s \ {Pick(s)} \in Small(D, n) /\ Pick(s) \in D
                                             /\ s \ {Pick(s)} \in Small(D, n + 1)
    <3> SUFFICES ASSUME NEW s \in Small(D, n + 1), s # {}
                 PROVE  /\ s \ {Pick(s)} \in Small(D, n) /\ Pick(s) \in D
                        /\ s \ {Pick(s)} \in Small(D, n + 1)
      OBVIOUS
    <3>1. s \in SUBSET D /\ Cardinality(s) <= n + 1
      BY DEF Small
    <3>2. /\ Pick(s) \in s /\ s \ {Pick(s)} \in SUBSET D /\ Cardinality(s) \in Nat
          /\ Cardinality(s \ {Pick(s)}) = Cardinality(s) - 1
      BY <3>1, PickIs
    <3>3. Cardinality(s \ {Pick(s)}) <= n /\ Cardinality(s \ {Pick(s)}) <= n + 1
      BY <2>1, <3>1, <3>2
    <3>4. QED
      BY <3>1, <3>2, <3>3 DEF Small
  <2>4. \A s \in Small(D, n + 1) : h[s] \in Nat
    <3> TAKE s \in Small(D, n + 1)
    <3>1. s # {} => u[Pick(s)] \in Nat /\ g[s \ {Pick(s)}] \in Nat
      BY <2>3
    <3>2. QED
      BY <3>1
  <2>5. \A s \in Small(D, n) : s \in Small(D, n + 1) /\ h[s] = g[s]
    <3> TAKE s \in Small(D, n)
    <3>1. s \in SUBSET D /\ Cardinality(s) <= n
      BY DEF Small
    <3>2. IsFiniteSet(s) /\ Cardinality(s) \in Nat
      BY <3>1, FS_Subset, FS_CardinalityType
    <3>3. Cardinality(s) <= n + 1
      BY <2>1, <3>1, <3>2
    <3>4. s \in Small(D, n + 1)
      BY <3>1, <3>3 DEF Small
    <3>5. g[s] = IF s = {} THEN 0 ELSE u[Pick(s)] + g[s \ {Pick(s)}]
      BY <2>2 DEF Adds
    <3>6. QED
      BY <3>4, <3>5
  <2>6. h \in [Small(D, n + 1) -> Nat]
    BY <2>4
  <2>7. Adds(u, Small(D, n + 1), h)
    <3>1. \A s \in Small(D, n + 1) : h[s] = IF s = {} THEN 0 ELSE u[Pick(s)] + g[s \ {Pick(s)}]
      OBVIOUS
    <3> HIDE DEF h
    <3>2. QED
      BY <2>3, <2>5, <3>1 DEF Adds
  <2> HIDE DEF h
  <2>8. QED
    BY <2>1, <2>6, <2>7
<1>3. S = Nat
  <2>1. S \in SUBSET Nat
    OBVIOUS
  <2> HIDE DEF S
  <2>2. QED
    BY <1>1, <1>2, <2>1, Upward
<1>4. Cardinality(D) \in Nat
  BY FS_CardinalityType
<1>5. Small(D, Cardinality(D)) = SUBSET D
  <2>1. \A s \in SUBSET D : Cardinality(s) <= Cardinality(D)
    BY FS_Subset
  <2>2. QED
    BY <2>1 DEF Small
<1>6. Cardinality(D) \in S
  BY <1>3, <1>4
<1>7. QED
  BY <1>5, <1>6

\* What the fold of Used over the rows is, wherever it starts.
LEMMA UsedIs ==
  ASSUME NEW rs \in Table, IsFiniteSet(DOMAIN rs)
  PROVE  \E g : /\ Adds([id \in DOMAIN rs |-> rs[id].used], SUBSET DOMAIN rs, g)
                /\ Used(rs) = g[DOMAIN rs]
<1> DEFINE D == DOMAIN rs
           u == [id \in D |-> rs[id].used]
           F(g) == [s \in SUBSET D |-> IF s = {} THEN 0 ELSE rs[CHOOSE x \in s : TRUE].used + g[s \ {CHOOSE x \in s : TRUE}]]
           iter == CHOOSE g : g = F(g)
<1>0. u \in [D -> Nat]
  BY DEF Table, Row
<1>1. PICK g \in [SUBSET D -> Nat] : Adds(u, SUBSET D, g)
  BY <1>0, SumsExist
<1>p. \A s \in SUBSET D : s # {} => u[Pick(s)] = rs[CHOOSE x \in s : TRUE].used
  BY DEF Pick
<1>2. g = F(g)
  BY <1>1, <1>p DEF Adds, Pick
<1>3. iter = F(iter)
  BY <1>2
<1>4. Adds(u, SUBSET D, iter)
  <2> HIDE DEF iter
  <2>1. \A s \in SUBSET D : iter[s] = IF s = {} THEN 0 ELSE rs[CHOOSE x \in s : TRUE].used + iter[s \ {CHOOSE x \in s : TRUE}]
    BY <1>3
  <2> HIDE DEF u, D
  <2>2. QED
    BY <1>p, <2>1 DEF Adds, Pick
<1>5. Used(rs) = iter[D]
  BY DEF Used, MapThenSumSet, MapThenFoldSet
<1>6. QED
  BY <1>4, <1>5

\* What the rows of a table add up to is at most what was credited to all ids.
LEMMA SumWithin ==
  ASSUME NEW D \in SUBSET Ids, IsFiniteSet(D), NEW u \in [D -> Nat], NEW g, Adds(u, SUBSET D, g),
         NEW P \in Sums, \A id \in D : u[id] <= P[id] - P[id - 1], MaxIds \in Nat
  PROVE  g[D] \in Nat /\ g[D] <= P[MaxIds]
<1> DEFINE Fits(Q, s) == \A id \in s : u[id] <= Q[id] - Q[id - 1]
           S == {n \in Nat : \A s \in SUBSET D, Q \in Sums :
                   Cardinality(s) = n /\ Fits(Q, s) => g[s] \in Nat /\ g[s] <= Q[MaxIds]}
<1>0. \A Q \in Sums : Q \in [0..MaxIds -> Nat] /\ Q[MaxIds] \in Nat
  BY DEF Sums
<1>1. 0 \in S
  <2> SUFFICES ASSUME NEW s \in SUBSET D, NEW Q \in Sums, Cardinality(s) = 0
               PROVE  g[s] \in Nat /\ g[s] <= Q[MaxIds]
    OBVIOUS
  <2>1. s = {}
    <3>1. s # {} => Cardinality(s) \in Nat /\ Cardinality(s) > 0
      BY PickIs
    <3>2. QED
      BY <3>1
  <2>2. g[s] = 0
    BY <2>1 DEF Adds
  <2>3. QED
    BY <1>0, <2>2
<1>2. \A n \in S : n + 1 \in S
  <2> SUFFICES ASSUME NEW n \in S, NEW s \in SUBSET D, NEW Q \in Sums, Cardinality(s) = n + 1, Fits(Q, s)
               PROVE  g[s] \in Nat /\ g[s] <= Q[MaxIds]
    OBVIOUS
  <2> DEFINE x == Pick(s)
             R == [i \in 0..MaxIds |-> IF i >= x THEN Q[i] - u[x] ELSE Q[i]]
  <2>1. n \in Nat /\ s # {}
    <3>1. n \in Nat /\ n + 1 # 0
      OBVIOUS
    <3>2. Cardinality({}) = 0
      BY FS_EmptySet
    <3>3. QED
      BY <3>1, <3>2
  <2>2. x \in s /\ s \ {x} \in SUBSET D /\ Cardinality(s \ {x}) = n /\ x \in Ids /\ u[x] \in Nat
    BY <2>1, PickIs
  <2>3. x \in 1..MaxIds /\ x - 1 \in 0..MaxIds /\ x \in 0..MaxIds /\ x > x - 1 /\ ~(0 >= x)
    BY <2>2 DEF Ids
  <2>4. u[x] <= Q[x] - Q[x - 1]
    BY <2>2
  <2>q. Q \in [0..MaxIds -> Nat] /\ Q[0] = 0 /\ \A id \in Ids : Q[id - 1] <= Q[id]
    BY DEF Sums
  <2> HIDE DEF x
  <2>5. \A i \in 0..MaxIds : i >= x => Q[i] >= u[x]
    <3> DEFINE T == {i \in Nat : i + x <= MaxIds => Q[i + x] >= Q[x]}
    <3>1. 0 \in T
      BY <2>3, <2>q
    <3>2. \A i \in T : i + 1 \in T
      <4> SUFFICES ASSUME NEW i \in T, (i + 1) + x <= MaxIds PROVE Q[(i + 1) + x] >= Q[x]
        OBVIOUS
      <4>1. i \in Nat /\ i + x <= MaxIds /\ (i + 1) + x \in Ids /\ ((i + 1) + x) - 1 = i + x /\ i + x \in 0..MaxIds
        BY <2>3 DEF Ids
      <4>2. Q[i + x] >= Q[x] /\ Q[i + x] <= Q[(i + 1) + x]
        BY <2>q, <4>1
      <4>3. Q[i + x] \in Nat /\ Q[(i + 1) + x] \in Nat /\ Q[x] \in Nat
        BY <2>3, <2>q, <4>1 DEF Ids
      <4>4. QED
        BY <4>2, <4>3
    <3>3. T = Nat
      <4>1. T \in SUBSET Nat
        OBVIOUS
      <4> HIDE DEF T
      <4>2. QED
        BY <3>1, <3>2, <4>1, Upward
    <3>4. Q[x] >= u[x]
      BY <2>2, <2>3, <2>4, <2>q
    <3> TAKE i \in 0..MaxIds
    <3> SUFFICES ASSUME i >= x PROVE Q[i] >= u[x]
      OBVIOUS
    <3>5. i - x \in Nat /\ (i - x) + x = i /\ i <= MaxIds
      BY <2>3
    <3>e. \A k \in T : k + x <= MaxIds => Q[k + x] >= Q[x]
      OBVIOUS
    <3> HIDE DEF T
    <3>6. Q[i] >= Q[x]
      BY <3>3, <3>5, <3>e
    <3>7. Q[i] \in Nat /\ Q[x] \in Nat
      BY <2>3, <2>q
    <3>8. QED
      BY <2>2, <3>4, <3>6, <3>7
  <2>6. \A i \in 0..MaxIds : R[i] \in Nat /\ R[i] = IF i >= x THEN Q[i] - u[x] ELSE Q[i]
    BY <2>2, <2>5, <2>q
  <2>7. R \in [0..MaxIds -> Nat]
    BY <2>6
  <2> HIDE DEF R
  <2>8. \A id \in Ids : R[id] - R[id - 1] = IF id = x THEN (Q[id] - Q[id - 1]) - u[x] ELSE Q[id] - Q[id - 1]
    <3> TAKE id \in Ids
    <3>1. id \in 0..MaxIds /\ id - 1 \in 0..MaxIds /\ id \in Int
      BY DEF Ids
    <3>2. Q[id] \in Nat /\ Q[id - 1] \in Nat
      BY <2>q, <3>1
    <3>3. QED
      BY <2>2, <2>3, <2>6, <3>1, <3>2
  <2>9. R \in Sums
    <3>1. R[0] = 0
      BY <2>3, <2>6, <2>q
    <3>2. \A id \in Ids : R[id - 1] <= R[id]
      <4> TAKE id \in Ids
      <4>0. id \in 0..MaxIds /\ id - 1 \in 0..MaxIds /\ id \in Int
        BY DEF Ids
      <4>1. R[id] \in Nat /\ R[id - 1] \in Nat /\ Q[id] \in Nat /\ Q[id - 1] \in Nat
        BY <2>6, <2>q, <4>0
      <4>2. Q[id - 1] <= Q[id]
        BY <2>q
      <4>3. QED
        BY <2>2, <2>4, <2>8, <4>1, <4>2
    <3>3. QED
      BY <2>7, <3>1, <3>2 DEF Sums
  <2>10. Fits(R, s \ {x})
    BY <2>2, <2>8
  <2>11. g[s \ {x}] \in Nat /\ g[s \ {x}] <= R[MaxIds]
    BY <2>2, <2>9, <2>10
  <2>12. g[s] = u[x] + g[s \ {x}]
    BY <2>1 DEF Adds, x
  <2>13. R[MaxIds] = Q[MaxIds] - u[x] /\ Q[MaxIds] \in Nat
    BY <1>0, <2>3, <2>6
  <2>14. QED
    BY <2>2, <2>11, <2>12, <2>13
<1>3. S = Nat
  <2>1. S \in SUBSET Nat
    OBVIOUS
  <2> HIDE DEF S
  <2>2. QED
    BY <1>1, <1>2, <2>1, Upward
<1>4. Cardinality(D) \in S
  BY <1>3, FS_CardinalityType
<1>5. QED
  BY <1>4

LEMMA IdsFinite ==
  ASSUME NEW S \in SUBSET Ids
  PROVE  IsFiniteSet(S)
<1>1. IsFiniteSet(Ids)
  BY QuotaAssumption, FS_Interval DEF Ids
<1>2. QED
  BY <1>1, FS_Subset

LEMMA TableOf ==
  ASSUME NEW rs \in Table
  PROVE  /\ DOMAIN rs \in SUBSET Ids /\ IsFiniteSet(DOMAIN rs)
         /\ \A id \in DOMAIN rs : rs[id] \in Row
<1>1. PICK S \in SUBSET Ids : rs \in [S -> Row]
  BY DEF Table
<1>2. QED
  BY <1>1, IdsFinite

LEMMA IntoTable ==
  ASSUME NEW S \in SUBSET Ids, NEW rs \in [S -> Row]
  PROVE  rs \in Table
BY DEF Table

LEMMA EmptyTable ==
  /\ <<>> \in Table /\ DOMAIN <<>> = {} /\ \A P : Within(P, <<>>)
<1>1. DOMAIN <<>> = {} /\ <<>> \in [{} -> Row]
  OBVIOUS
<1>2. QED
  BY <1>1 DEF Table, Within

\* The usage of a user whose rows are charged is at most all that was credited.
LEMMA UsedWithin ==
  ASSUME NEW rs \in Table, NEW P \in Sums, Within(P, rs)
  PROVE  Used(rs) \in Nat /\ Used(rs) <= P[MaxIds]
<1> DEFINE D == DOMAIN rs
           u == [id \in D |-> rs[id].used]
<1>1. D \in SUBSET Ids /\ IsFiniteSet(D) /\ u \in [D -> Nat]
  BY TableOf DEF Row
<1>2. PICK g : Adds(u, SUBSET D, g) /\ Used(rs) = g[D]
  BY <1>1, UsedIs
<1>3. \A id \in D : u[id] <= P[id] - P[id - 1]
  BY DEF Within
<1>4. MaxIds \in Nat
  BY QuotaAssumption
<1> HIDE DEF u
<1>5. g[D] \in Nat /\ g[D] <= P[MaxIds]
  BY <1>1, <1>2, <1>3, <1>4, SumWithin
<1>6. QED
  BY <1>2, <1>5

(***************************************************************************)
(* Types                                                                   *)
(***************************************************************************)
\* Tables stay tables when a row is put, altered or taken away.
LEMMA RowsStay ==
  ASSUME NEW rs \in Table, NEW id \in Ids
  PROVE  /\ \A r \in Row : [i \in DOMAIN rs \cup {id} |-> IF i = id THEN r ELSE rs[i]] \in Table
         /\ [i \in DOMAIN rs \ {id} |-> rs[i]] \in Table
         /\ id \in DOMAIN rs => /\ [rs EXCEPT ![id].on = FALSE] \in Table
                                /\ \A n \in Nat : [rs EXCEPT ![id].used = n] \in Table
<1>1. DOMAIN rs \in SUBSET Ids /\ (\A i \in DOMAIN rs : rs[i] \in Row) /\ rs = [i \in DOMAIN rs |-> rs[i]]
  BY TableOf DEF Table
<1>2. \A r \in Row : [i \in DOMAIN rs \cup {id} |-> IF i = id THEN r ELSE rs[i]] \in [DOMAIN rs \cup {id} -> Row]
  BY <1>1
<1>3. [i \in DOMAIN rs \ {id} |-> rs[i]] \in [DOMAIN rs \ {id} -> Row]
  BY <1>1
<1>4. \A q \in Row : [q EXCEPT !.on = FALSE] \in Row /\ \A n \in Nat : [q EXCEPT !.used = n] \in Row
  BY DEF Row
<1>5. ASSUME id \in DOMAIN rs
      PROVE  /\ [rs EXCEPT ![id].on = FALSE] \in [DOMAIN rs -> Row]
             /\ \A n \in Nat : [rs EXCEPT ![id].used = n] \in [DOMAIN rs -> Row]
  BY <1>1, <1>4, <1>5
<1>6. DOMAIN rs \cup {id} \in SUBSET Ids /\ DOMAIN rs \ {id} \in SUBSET Ids
  BY <1>1
<1>7. \A S \in SUBSET Ids : \A f \in [S -> Row] : f \in Table
  BY IntoTable
<1> HIDE DEF Table, Row
<1>8. QED
  BY <1>1, <1>2, <1>3, <1>5, <1>6, <1>7

LEMMA GoneTo ==
  ASSUME ThreadTypes, NEW t \in Threads, NEW next \in Places, Goto(t, next)
  PROVE  /\ pc' \in [Threads -> Places] /\ pc'[t] = next
         /\ \A u \in Threads : u # t => pc'[u] = pc[u]
BY DEF ThreadTypes, Goto

\* A thread that goes on with what it has, to a place that has nothing to save.
LEMMA GoesOn ==
  ASSUME ThreadTypes, NEW t \in Threads, NEW next \in Places \ {"save", "reset"}, Goto(t, next),
         copy' \in [Threads -> Table], todo' \in [Threads -> SUBSET Ids],
         \A u \in Threads : u # t => copy'[u] = copy[u] /\ todo'[u] = todo[u],
         adds' \in [Threads -> SUBSET Sources], req' \in [Threads -> Request], snap' \in [Threads -> SUBSET Sources]
  PROVE  ThreadTypes'
<1>1. pc' \in [Threads -> Places] /\ pc'[t] = next /\ \A u \in Threads : u # t => pc'[u] = pc[u]
  BY GoneTo
<1>2. \A u \in Threads : Read(u)'
  BY <1>1 DEF ThreadTypes, Read
<1>3. QED
  BY <1>1, <1>2 DEF ThreadTypes

LEMMA Left ==
  ASSUME ThreadTypes, NEW t \in Threads, Leave(t)
  PROVE  ThreadTypes' /\ pc'[t] = "idle" /\ \A u \in Threads : u # t => pc'[u] = pc[u]
<1>1. NoRequest \in Request /\ {} \in SUBSET Ids /\ {} \in SUBSET Sources /\ "idle" \in Places \ {"save", "reset"}
  BY DEF NoRequest, Request, Places
<1>2. Goto(t, "idle")
  BY DEF Leave
<1>3. /\ copy' \in [Threads -> Table] /\ todo' \in [Threads -> SUBSET Ids]
      /\ \A u \in Threads : u # t => copy'[u] = copy[u] /\ todo'[u] = todo[u]
      /\ adds' \in [Threads -> SUBSET Sources] /\ req' \in [Threads -> Request] /\ snap' \in [Threads -> SUBSET Sources]
  BY <1>1, EmptyTable DEF ThreadTypes, Leave
<1>4. QED
  BY <1>1, <1>2, <1>3, GoneTo, GoesOn

LEMMA GrowthIs ==
  ASSUME EngineTypes, PollerTypes, NEW s \in Sources
  PROVE  Growth(s) \in Nat
<1>1. count[s] \in Nat /\ base[s] \in Nat
  BY DEF EngineTypes, PollerTypes
<1>2. QED
  BY <1>1 DEF Growth

LEMMA BoundsStay ==
  ASSUME BoundTypes, NoFault \/ (Fault /\ UNCHANGED ops) \/ (NewOp /\ UNCHANGED faults)
  PROVE  BoundTypes'
<1>1. MaxOps \in Nat /\ MaxFaults \in Nat
  BY QuotaAssumption
<1>2. QED
  BY <1>1 DEF BoundTypes, NoFault, Fault, NewOp, bounds

\* The poller.
LEMMA PollTypes ==
  ASSUME Types, Poll
  PROVE  Types'
<1>1. CASE Tick
  <2>1. PollerTypes'
    BY <1>1 DEF Types, Tick, PollerTypes, Polls
  <2>2. QED
    BY <1>1, <2>1 DEF Types, Tick, AccountTypes, account, EngineTypes, engine, SignalTypes, signals,
                      ThreadTypes, Read, threads, BoundTypes, bounds
<1>2. ASSUME NEW s \in Sources, Sample(s)
      PROVE  Types'
  <2>1. Growth(s) \in Nat
    BY GrowthIs DEF Types
  <2>2. PollerTypes'
    BY <1>2, <2>1 DEF Types, Sample, PollerTypes, EngineTypes, Polls, Sources
  <2>3. BoundTypes'
    BY <1>2, BoundsStay DEF Types, Sample
  <2>4. QED
    BY <1>2, <2>2, <2>3 DEF Types, Sample, AccountTypes, account, EngineTypes, engine, SignalTypes, signals,
                            ThreadTypes, Read, threads
<1>3. CASE FindRow
  <2>1. DOMAIN rows \in SUBSET Ids /\ Ids \in SUBSET Nat
    BY TableOf DEF Types, AccountTypes, Ids
  <2>2. DOMAIN rows # {} => Min(DOMAIN rows) \in DOMAIN rows
    BY <2>1, MinOfNat
  <2>3. DOMAIN rows # {} => Min(DOMAIN rows) \in Ids /\ Min(DOMAIN rows) \in Nat
    BY <2>1, <2>2
  <2>4. PollerTypes'
    BY <1>3, <2>3 DEF Types, FindRow, CreditEnds, PollerTypes, Polls
  <2>5. BoundTypes'
    BY <1>3, BoundsStay DEF Types, FindRow
  <2>6. QED
    BY <1>3, <2>4, <2>5 DEF Types, FindRow, AccountTypes, account, EngineTypes, engine, SignalTypes, signals,
                            ThreadTypes, Read, threads
<1>4. CASE CreditRow
  <2>1. PollerTypes'
    BY <1>4 DEF Types, CreditRow, CreditEnds, PollerTypes, Polls
  <2>2. target \in DOMAIN rows => [rows EXCEPT ![target].used = @ + delta] \in Table
    <3> SUFFICES ASSUME target \in DOMAIN rows PROVE [rows EXCEPT ![target].used = @ + delta] \in Table
      OBVIOUS
    <3>1. rows \in Table /\ target \in Ids /\ rows[target] \in Row /\ delta \in Nat
      BY TableOf DEF Types, AccountTypes, PollerTypes
    <3>2. rows[target].used + delta \in Nat
      BY <3>1 DEF Row
    <3>3. [rows EXCEPT ![target].used = @ + delta] = [rows EXCEPT ![target].used = rows[target].used + delta]
      OBVIOUS
    <3>4. QED
      BY <3>1, <3>2, <3>3, RowsStay
  <2>3. AccountTypes'
    BY <1>4, <2>2 DEF Types, CreditRow, AccountTypes
  <2>4. BoundTypes'
    BY <1>4, BoundsStay DEF Types, CreditRow
  <2>5. SignalTypes'
    BY <1>4 DEF Types, CreditRow, SignalTypes
  <2>6. QED
    BY <1>4, <2>1, <2>3, <2>4, <2>5 DEF Types, CreditRow, EngineTypes, engine, ThreadTypes, Read, threads
<1>5. CASE OnCredited
  <2>1. PollerTypes' /\ SignalTypes'
    BY <1>5 DEF Types, OnCredited, Signal, PollerTypes, SignalTypes, Polls
  <2>2. QED
    BY <1>5, <2>1 DEF Types, OnCredited, AccountTypes, account, EngineTypes, engine,
                      ThreadTypes, Read, threads, BoundTypes, bounds
<1>6. QED
  BY <1>1, <1>2, <1>3, <1>4, <1>5 DEF Poll

\* The runner, and all who enforce.
LEMMA EnforceTypes ==
  ASSUME Types, NEW t \in Threads, Enforce(t)
  PROVE  Types'
<1>1. CASE ListClients(t)
  <2>1. Decisions(rows) \in SUBSET Ids
    BY TableOf DEF Types, AccountTypes, Decisions, On
  <2>2. PICK next \in {"idle", "disable"} : Goto(t, next)
    BY <1>1 DEF ListClients
  <2>3. ThreadTypes'
    <3>1. next \in Places \ {"save", "reset"}
      BY DEF Places
    <3>2. /\ todo' \in [Threads -> SUBSET Ids] /\ \A u \in Threads : u # t => todo'[u] = todo[u]
          /\ UNCHANGED <<copy, adds, req, snap>>
      BY <1>1, <2>1 DEF Types, ThreadTypes, ListClients
    <3>3. QED
      BY <2>2, <3>1, <3>2, GoesOn DEF Types, ThreadTypes
  <2>4. SignalTypes'
    BY <1>1 DEF Types, ListClients, SignalTypes
  <2>5. BoundTypes'
    BY <1>1, BoundsStay DEF Types, ListClients
  <2>6. QED
    BY <1>1, <2>3, <2>4, <2>5 DEF Types, ListClients, AccountTypes, account, EngineTypes, engine, PollerTypes, poller
<1>2. ASSUME NEW id \in Ids, DisableClient(t, id)
      PROVE  Types'
  <2>1. rows' \in Table
    BY <1>2, RowsStay DEF Types, AccountTypes, DisableClient
  <2>2. ThreadTypes'
    <3>1. CASE Leave(t)
      BY <3>1, Left DEF Types
    <3>2. CASE ~Leave(t)
      <4>1. PICK next \in {"build", "disable"} : Goto(t, next)
        BY <1>2, <3>2 DEF DisableClient
      <4>2. next \in Places \ {"save", "reset"}
        BY DEF Places
      <4>3. /\ todo' \in [Threads -> SUBSET Ids] /\ \A u \in Threads : u # t => todo'[u] = todo[u]
            /\ UNCHANGED <<copy, adds, req, snap>>
        BY <1>2, <3>2 DEF Types, ThreadTypes, DisableClient
      <4>4. QED
        BY <4>1, <4>2, <4>3, GoesOn DEF Types, ThreadTypes
    <3>3. QED
      BY <3>1, <3>2
  <2>3. BoundTypes'
    BY <1>2, BoundsStay DEF Types, DisableClient
  <2>4. QED
    BY <1>2, <2>1, <2>2, <2>3 DEF Types, DisableClient, AccountTypes, EngineTypes, engine, PollerTypes, poller,
                                  SignalTypes, signals
<1>3. QED
  BY <1>1, <1>2 DEF Enforce

\* Those who ask.
LEMMA AskTypes ==
  ASSUME Types, NEW t \in Admins, Ask(t)
  PROVE  Types'
<1>0. t \in Threads /\ DOMAIN rows \in SUBSET Ids /\ rows \in Table /\ Requests \subseteq Request
  BY TableOf, QuotaAssumption DEF Threads, Types, AccountTypes
<1>1. CASE StatsPage(t) \/ DeleteUser(t) \/ CreateUser(t)
  <2>1. PICK next \in {"list", "delete", "reconcile"} : Goto(t, next)
    BY <1>1 DEF StatsPage, QuotaEnforce, DeleteUser, CreateUser
  <2>2. next \in Places \ {"save", "reset"}
    BY DEF Places
  <2>3. /\ copy' \in [Threads -> Table] /\ todo' \in [Threads -> SUBSET Ids]
        /\ \A u \in Threads : u # t => copy'[u] = copy[u] /\ todo'[u] = todo[u]
        /\ adds' \in [Threads -> SUBSET Sources] /\ req' \in [Threads -> Request] /\ snap' \in [Threads -> SUBSET Sources]
    BY <1>0, <1>1 DEF Types, ThreadTypes, StatsPage, QuotaEnforce, DeleteUser, CreateUser
  <2>4. ThreadTypes'
    BY <1>0, <2>1, <2>2, <2>3, GoesOn DEF Types
  <2>5. BoundTypes'
    BY <1>1, BoundsStay DEF Types, StatsPage, QuotaEnforce, DeleteUser, CreateUser
  <2>6. QED
    BY <1>1, <2>4, <2>5 DEF Types, StatsPage, QuotaEnforce, DeleteUser, CreateUser, AccountTypes, account,
                            EngineTypes, engine, PollerTypes, poller, SignalTypes, signals
<1>2. ASSUME NEW r \in Requests, UpdateUser(t, r)
      PROVE  Types'
  <2>1. pc' \in [Threads -> Places] /\ \A u \in Threads : u # t => pc'[u] = pc[u]
    BY <1>0, <1>2, GoneTo DEF UpdateUser, Places, Types
  <2>2. /\ copy' \in [Threads -> Table] /\ todo' \in [Threads -> SUBSET Ids] /\ req' \in [Threads -> Request]
        /\ copy'[t] = rows /\ todo'[t] = DOMAIN rows
        /\ \A u \in Threads : u # t => copy'[u] = copy[u] /\ todo'[u] = todo[u]
    BY <1>0, <1>2 DEF Types, ThreadTypes, UpdateUser
  <2>3. \A u \in Threads : Read(u)'
    BY <2>1, <2>2 DEF Types, ThreadTypes, Read
  <2>4. ThreadTypes'
    BY <1>2, <2>1, <2>2, <2>3 DEF Types, ThreadTypes, UpdateUser
  <2>5. BoundTypes'
    BY <1>2, BoundsStay DEF Types, UpdateUser
  <2>6. QED
    BY <1>2, <2>4, <2>5 DEF Types, UpdateUser, AccountTypes, account,
                            EngineTypes, engine, PollerTypes, poller, SignalTypes, signals
<1>3. QED
  BY <1>1, <1>2 DEF Ask

\* What a handler writes is a row.
LEMMA PatchedIs ==
  ASSUME Types, NEW t \in Threads, NEW id \in DOMAIN copy[t]
  PROVE  Patched(copy[t][id], req[t]) \in Row /\ Patched(copy[t][id], req[t]).used = copy[t][id].used
<1>1. copy[t][id] \in Row
  BY TableOf DEF Types, ThreadTypes
<1>2. \A r \in Row, b \in BOOLEAN : [r EXCEPT !.on = b] \in Row /\ [r EXCEPT !.on = b].used = r.used
  BY DEF Row
<1>3. (IF req[t].on = "keep" THEN copy[t][id].on ELSE req[t].on = "on") \in BOOLEAN
  BY <1>1 DEF Row
<1>4. QED
  BY <1>1, <1>2, <1>3 DEF Patched

LEMMA NewRowIs ==
  ASSUME NEW t \in Threads, NEW s \in Sources
  PROVE  NewRow(t, s) \in Row /\ NewRow(t, s).used = 0
BY DEF NewRow, Row

\* The first of the rows still to be saved is one that was read.
LEMMA FirstIs ==
  ASSUME Types, NEW t \in Threads, todo[t] # {}
  PROVE  Min(todo[t]) \in todo[t] /\ Min(todo[t]) \in Ids
<1>1. todo[t] \in SUBSET Ids /\ Ids \in SUBSET Nat
  BY DEF Types, ThreadTypes, Ids
<1>2. QED
  BY <1>1, MinOfNat

\* The handlers.
LEMMA WrittenTypes ==
  ASSUME ThreadTypes, NEW t \in Threads, NEW id \in Ids, pc[t] \in {"save", "reset"}, Written(t, id),
         UNCHANGED <<copy, adds, req, snap>>
  PROVE  ThreadTypes'
<1>1. PICK next \in {"save", "members", "build"} : Goto(t, next)
  BY DEF Written
<1>2. next \in Places
  BY DEF Places
<1>3. pc' \in [Threads -> Places] /\ \A u \in Threads : u # t => pc'[u] = pc[u]
  BY <1>1, <1>2, GoneTo
<1>4. /\ todo' \in [Threads -> SUBSET Ids] /\ todo'[t] \subseteq todo[t]
      /\ \A u \in Threads : u # t => todo'[u] = todo[u]
  BY DEF ThreadTypes, Written
<1>5. \A u \in Threads : Read(u)'
  BY <1>3, <1>4 DEF ThreadTypes, Read
<1>6. QED
  BY <1>3, <1>4, <1>5 DEF ThreadTypes

LEMMA ServeTypes ==
  ASSUME Types, NEW t \in Threads, Serve(t)
  PROVE  Types'
<1>0. rows \in Table /\ DOMAIN rows \in SUBSET Ids
  BY TableOf DEF Types, AccountTypes
<1>1. ASSUME NEW id \in Ids, SaveClient(t, id)
      PROVE  Types'
  <2>1. id \in DOMAIN copy[t]
    BY <1>1, FirstIs DEF Types, ThreadTypes, Read, SaveClient
  <2>2. Patched(copy[t][id], req[t]) \in Row
    BY <2>1, PatchedIs
  <2>3. rows' \in Table
    <3>1. With(id, Patched(copy[t][id], req[t])) \in Table
      BY <1>0, <2>2, RowsStay DEF With
    <3>2. rows' = With(id, Patched(copy[t][id], req[t])) \/ rows' = rows
      BY <1>1 DEF SaveClient
    <3>3. QED
      BY <1>0, <3>1, <3>2
  <2>4. ThreadTypes'
    <3>1. CASE Leave(t)
      BY <3>1, Left DEF Types
    <3>2. CASE Written(t, id) /\ ~Leave(t)
      BY <1>1, <3>2, WrittenTypes DEF Types, SaveClient
    <3>3. CASE Goto(t, "reset") /\ UNCHANGED todo /\ ~Leave(t)
      <4>1. pc' \in [Threads -> Places] /\ pc'[t] = "reset" /\ \A u \in Threads : u # t => pc'[u] = pc[u]
        BY <3>3, GoneTo DEF Types, Places
      <4>2. UNCHANGED <<copy, adds, req, snap, todo>> /\ pc[t] = "save"
        BY <1>1, <3>3 DEF SaveClient
      <4>3. \A u \in Threads : Read(u)'
        BY <4>1, <4>2 DEF Types, ThreadTypes, Read
      <4>4. QED
        BY <4>1, <4>2, <4>3 DEF Types, ThreadTypes
    <3>4. QED
      BY <1>1, <3>1, <3>2, <3>3 DEF SaveClient
  <2>5. BoundTypes'
    BY <1>1, BoundsStay DEF Types, SaveClient
  <2>6. QED
    BY <1>1, <2>3, <2>4, <2>5 DEF Types, SaveClient, AccountTypes, EngineTypes, engine, PollerTypes, poller,
                                  SignalTypes, signals
<1>2. ASSUME NEW id \in Ids, ResetTraffic(t, id)
      PROVE  Types'
  <2>1. rows' \in Table
    <3>1. id \in DOMAIN rows => [rows EXCEPT ![id].used = 0] \in Table
      BY <1>0, RowsStay
    <3>2. (id \in DOMAIN rows /\ rows' = [rows EXCEPT ![id].used = 0]) \/ rows' = rows
      BY <1>2 DEF ResetTraffic
    <3>3. QED
      BY <1>0, <3>1, <3>2
  <2>2. ThreadTypes'
    BY <1>2, WrittenTypes DEF Types, ResetTraffic
  <2>3. BoundTypes'
    BY <1>2, BoundsStay DEF Types, ResetTraffic
  <2>4. QED
    BY <1>2, <2>1, <2>2, <2>3 DEF Types, ResetTraffic, AccountTypes, EngineTypes, engine, PollerTypes, poller,
                                  SignalTypes, signals
<1>3. ASSUME NEW id \in Ids, RemoveClient(t, id)
      PROVE  Types'
  <2>1. rows' \in Table
    BY <1>0, <1>3, RowsStay DEF RemoveClient, Without
  <2>2. ThreadTypes'
    <3>1. CASE Leave(t)
      BY <3>1, Left DEF Types
    <3>2. CASE ~Leave(t)
      <4>1. todo' = [todo EXCEPT ![t] = @ \ {id}] /\ UNCHANGED <<pc, copy, adds, req, snap>> /\ pc[t] \notin {"save", "reset"}
        BY <1>3, <3>2 DEF RemoveClient
      <4>2. \A u \in Threads : Read(u)'
        BY <4>1 DEF Types, ThreadTypes, Read
      <4>3. QED
        BY <4>1, <4>2 DEF Types, ThreadTypes
    <3>3. QED
      BY <3>1, <3>2
  <2>3. BoundTypes'
    BY <1>3, BoundsStay DEF Types, RemoveClient
  <2>4. QED
    BY <1>3, <2>1, <2>2, <2>3 DEF Types, RemoveClient, AccountTypes, EngineTypes, engine, PollerTypes, poller,
                                  SignalTypes, signals
<1>4. CASE Members(t)
  <2>1. "reconcile" \in Places \ {"save", "reset"} /\ Goto(t, "reconcile")
    BY <1>4 DEF Members, Places
  <2>2. /\ copy' \in [Threads -> Table] /\ todo' \in [Threads -> SUBSET Ids] /\ adds' \in [Threads -> SUBSET Sources]
        /\ \A u \in Threads : u # t => copy'[u] = copy[u] /\ todo'[u] = todo[u]
        /\ UNCHANGED <<req, snap>>
    <3>1. req[t].at \ At(rows) \in SUBSET Sources
      BY DEF Types, ThreadTypes, Request
    <3>2. {id \in DOMAIN rows : rows[id].at \notin req[t].at} \in SUBSET Ids
      BY <1>0
    <3>3. QED
      BY <1>0, <1>4, <3>1, <3>2 DEF Types, ThreadTypes, Members
  <2>3. ThreadTypes'
    BY <2>1, <2>2, GoesOn DEF Types, ThreadTypes
  <2>4. QED
    BY <1>4, <2>3 DEF Types, Members, AccountTypes, account, EngineTypes, engine, PollerTypes, poller,
                      SignalTypes, signals, BoundTypes, bounds
<1>5. ASSUME NEW s \in Sources, AddClient(t, s)
      PROVE  Types'
  <2>1. NewRow(t, s) \in Row
    BY NewRowIs
  <2>2. AccountTypes'
    <3>1. CASE nextId <= MaxIds
      <4>1. nextId \in Ids /\ nextId + 1 \in Nat \ {0}
        BY <3>1, QuotaAssumption DEF Types, AccountTypes, Ids
      <4>2. With(nextId, NewRow(t, s)) \in Table
        BY <1>0, <2>1, <4>1, RowsStay DEF With
      <4>3. QED
        BY <1>5, <4>1, <4>2 DEF Types, AccountTypes, AddClient
    <3>2. CASE ~(nextId <= MaxIds)
      BY <1>5, <3>2 DEF Types, AccountTypes, AddClient
    <3>3. QED
      BY <3>1, <3>2
  <2>3. ThreadTypes'
    <3>1. CASE Leave(t)
      BY <3>1, Left DEF Types
    <3>2. CASE ~Leave(t)
      <4>1. adds' = [adds EXCEPT ![t] = @ \ {s}] /\ UNCHANGED <<pc, copy, todo, req, snap>>
        BY <1>5, <3>2 DEF AddClient
      <4>2. QED
        BY <4>1 DEF Types, ThreadTypes, Read
    <3>3. QED
      BY <3>1, <3>2
  <2>4. BoundTypes'
    BY <1>5, BoundsStay DEF Types, AddClient
  <2>5. QED
    BY <1>5, <2>2, <2>3, <2>4 DEF Types, AddClient, EngineTypes, engine, PollerTypes, poller, SignalTypes, signals
<1>6. QED
  BY <1>1, <1>2, <1>3, <1>4, <1>5 DEF Serve

\* Apply, and the life of the panel.
LEMMA ApplyTypes ==
  ASSUME Types, NEW t \in Threads, Apply(t)
  PROVE  Types'
<1>0. \A S, new \in SUBSET Sources : Restarted(S, new) => EngineTypes'
  BY DEF Types, EngineTypes, Restarted
<1>1. CASE Build(t)
  <2>1. "push" \in Places \ {"save", "reset"} /\ Goto(t, "push")
    BY <1>1 DEF Build, Places
  <2>2. {rows[id].at : id \in On(rows)} \in SUBSET Sources
    BY TableOf DEF Types, AccountTypes, On, Row
  <2>3. ThreadTypes'
    <3>1. /\ UNCHANGED <<copy, todo, adds, req>> /\ snap' \in [Threads -> SUBSET Sources]
      BY <1>1, <2>2 DEF Types, ThreadTypes, Build
    <3>2. QED
      BY <2>1, <3>1, GoesOn DEF Types, ThreadTypes
  <2>4. QED
    BY <1>1, <2>3 DEF Types, Build, AccountTypes, account, EngineTypes, engine, PollerTypes, poller,
                      SignalTypes, signals, BoundTypes, bounds
<1>2. CASE Push(t)
  <2>1. ThreadTypes'
    BY <1>2, Left DEF Types, Push
  <2>2. EngineTypes'
    <3>1. snap[t] \in SUBSET Sources /\ Sources \in SUBSET Sources /\ {} \in SUBSET Sources /\ {"singbox"} \in SUBSET Sources
      BY DEF Types, ThreadTypes, Sources
    <3>2. QED
      BY <1>0, <1>2, <3>1 DEF Push
  <2>3. BoundTypes'
    BY <1>2, BoundsStay DEF Types, Push
  <2>4. QED
    BY <1>2, <2>1, <2>2, <2>3 DEF Types, Push, AccountTypes, account, PollerTypes, poller, SignalTypes, signals
<1>3. QED
  BY <1>1, <1>2 DEF Apply

\* Where every goroutine begins.
LEMMA Begun ==
  ASSUME pc = [t \in Threads |-> IF t = "boot" THEN "build" ELSE "idle"],
         copy = [t \in Threads |-> <<>>], req = [t \in Threads |-> NoRequest],
         todo = [t \in Threads |-> {}], adds = [t \in Threads |-> {}], snap = [t \in Threads |-> {}]
  PROVE  ThreadTypes
<1>1. NoRequest \in Request
  BY DEF NoRequest, Request
<1>2. "build" \in Places /\ "idle" \in Places /\ \A t \in Threads : pc[t] \notin {"save", "reset"}
  BY DEF Places
<1>3. QED
  BY <1>1, <1>2, EmptyTable DEF ThreadTypes, Read

\* Init makes every variable a value of its type.
LEMMA QuotaInitTypes == Init => Types
<1> SUFFICES ASSUME Init PROVE Types
  OBVIOUS
<1> DEFINE two == <<[at |-> "singbox", on |-> TRUE, used |-> 0], [at |-> "xray", on |-> TRUE, used |-> 0]>>
<1>1. 1 \in Ids /\ 2 \in Ids /\ 1..2 \in SUBSET Ids
  BY QuotaAssumption DEF Ids
<1>2. two \in Table
  <2>1. two \in [1..2 -> Row]
    <3>1. [at |-> "singbox", on |-> TRUE, used |-> 0] \in Row /\ [at |-> "xray", on |-> TRUE, used |-> 0] \in Row
      BY DEF Row, Sources
    <3>2. \A a, b \in Row : <<a, b>> \in [1..2 -> Row]
      OBVIOUS
    <3>3. QED
      BY <3>1, <3>2
  <2>2. QED
    BY <1>1, <2>1, IntoTable
<1>3. rows \in Table
  BY <1>2, EmptyTable DEF Init
<1>4. nextId \in Nat \ {0}
  <2>1. IsFiniteSet(DOMAIN rows)
    BY <1>3, TableOf
  <2>2. Cardinality(DOMAIN rows) \in Nat
    BY <2>1, FS_CardinalityType
  <2>3. QED
    BY <2>2 DEF Init
<1>5. ThreadTypes
  BY Begun DEF Init
<1>6. BoundTypes
  BY QuotaAssumption DEF Init, BoundTypes
<1>7. EngineTypes /\ PollerTypes /\ SignalTypes
  BY DEF Init, EngineTypes, PollerTypes, SignalTypes, Polls
<1>8. QED
  BY <1>3, <1>4, <1>5, <1>6, <1>7 DEF Types, AccountTypes

\* Every step keeps the types.
LEMMA QuotaStepTypes ==
  ASSUME Types, [Next]_vars
  PROVE  Types'
<1>1. ASSUME NEW s \in Sources, Carry(s)
      PROVE  Types'
  <2>1. EngineTypes'
    BY <1>1 DEF Types, EngineTypes, Carry
  <2>2. QED
    BY <1>1, <2>1 DEF Types, Carry, AccountTypes, account, PollerTypes, poller, SignalTypes, signals,
                      ThreadTypes, Read, threads, BoundTypes, bounds
<1>2. CASE Backstop
  BY <1>2 DEF Types, Backstop, Signal, AccountTypes, account, EngineTypes, engine, PollerTypes, poller, SignalTypes,
              ThreadTypes, Read, threads, BoundTypes, bounds
<1>3. CASE TakeTrigger
  <2>1. "runner" \in Threads /\ "list" \in Places \ {"save", "reset"} /\ Goto("runner", "list")
    BY <1>3 DEF TakeTrigger, Threads, Places
  <2>2. ThreadTypes'
    <3>1. UNCHANGED <<copy, todo, adds, req, snap>>
      BY <1>3 DEF TakeTrigger
    <3>2. QED
      BY <2>1, <3>1, GoesOn DEF Types, ThreadTypes
  <2>3. QED
    BY <1>3, <2>2 DEF Types, TakeTrigger, AccountTypes, account, EngineTypes, engine, PollerTypes, poller, SignalTypes,
                      BoundTypes, bounds
<1>4. CASE Restart
  <2>1. ThreadTypes'
    BY <1>4, EmptyTable DEF Restart, ThreadTypes, Read, NoRequest, Request, Places
  <2>2. EngineTypes'
    BY <1>4 DEF Types, Restart, EnginesDie, Restarted, EngineTypes
  <2>3. PollerTypes' /\ SignalTypes'
    BY <1>4 DEF Restart, PollerTypes, SignalTypes, Polls
  <2>4. BoundTypes'
    BY <1>4, BoundsStay DEF Types, Restart
  <2>5. QED
    BY <1>4, <2>1, <2>2, <2>3, <2>4 DEF Types, Restart, AccountTypes, account
<1>5. ASSUME NEW t \in Threads, Work(t)
      PROVE  Types'
  BY <1>5, EnforceTypes, ApplyTypes, ServeTypes DEF Work
<1>6. CASE UNCHANGED vars
  BY <1>6 DEF Types, vars, AccountTypes, account, EngineTypes, engine, PollerTypes, poller, SignalTypes, signals,
              ThreadTypes, Read, threads, BoundTypes, bounds
<1>7. QED
  BY <1>1, <1>2, <1>3, <1>4, <1>5, <1>6, PollTypes, AskTypes DEF Next

(***************************************************************************)
(* The charges are kept                                                    *)
(***************************************************************************)
\* What a charge bounds stays bounded when a row is put that is charged, or one is
\* taken away, switched off or forgotten.
LEMMA WithinStays ==
  ASSUME NEW P \in Sums, NEW rs \in Table, Within(P, rs), NEW id \in Ids
  PROVE  /\ \A r \in Row : r.used <= P[id] - P[id - 1]
              => Within(P, [i \in DOMAIN rs \cup {id} |-> IF i = id THEN r ELSE rs[i]])
         /\ Within(P, [i \in DOMAIN rs \ {id} |-> rs[i]])
         /\ Within(P, [rs EXCEPT ![id].on = FALSE])
         /\ Within(P, [rs EXCEPT ![id].used = 0])
         /\ 0 <= P[id] - P[id - 1]
<1>1. /\ \A i \in DOMAIN rs : rs[i] \in Row /\ rs[i].used <= P[i] - P[i - 1]
      /\ 0 <= P[id] - P[id - 1]
  <2>1. \A i \in Ids : P[i] \in Nat /\ P[i - 1] \in Nat /\ P[i - 1] <= P[i]
    BY QuotaAssumption DEF Sums, Ids
  <2>2. QED
    BY <2>1, TableOf DEF Within
<1>2. \A r \in Row : r.used <= P[id] - P[id - 1]
        => Within(P, [i \in DOMAIN rs \cup {id} |-> IF i = id THEN r ELSE rs[i]])
  BY <1>1 DEF Within
<1>3. Within(P, [i \in DOMAIN rs \ {id} |-> rs[i]])
  BY <1>1 DEF Within
<1>4. \A q \in Row : [q EXCEPT !.on = FALSE].used = q.used /\ [q EXCEPT !.used = 0].used = 0
  BY DEF Row
<1>5. Within(P, [rs EXCEPT ![id].on = FALSE])
  BY <1>1, <1>4 DEF Within
<1>6. Within(P, [rs EXCEPT ![id].used = 0])
  BY <1>1, <1>4 DEF Within
<1>7. QED
  BY <1>1, <1>2, <1>3, <1>5, <1>6

\* A step of the account or of a goroutine, while the poller and the engines rest.
LEMMA Rewritten ==
  ASSUME Types, NEW P \in Sums, Charges(P), Within(P, rows'),
         \A t \in Threads : copy'[t] \in {copy[t], <<>>, rows},
         UNCHANGED <<count, moved, base, delta>>
  PROVE  ChargeInv'
<1>1. \A t \in Threads : Within(P, copy'[t])
  BY EmptyTable DEF Charges
<1>2. Accounted(P)'
  BY DEF Charges, Accounted, Growth
<1>3. QED
  BY <1>1, <1>2 DEF ChargeInv, Charges

\* A goroutine that leaves forgets what it had read.
LEMMA Forgets ==
  ASSUME ThreadTypes, NEW t \in Threads, Leave(t)
  PROVE  \A u \in Threads : copy'[u] \in {copy[u], <<>>, rows}
BY DEF ThreadTypes, Leave

\* A row may be put that is charged.
LEMMA PutStays ==
  ASSUME NEW P \in Sums, rows \in Table, Within(P, rows), NEW id \in Ids,
         NEW r \in Row, r.used <= P[id] - P[id - 1]
  PROVE  Within(P, With(id, r))
BY DEF Within, With

LEMMA EnforceCharges ==
  ASSUME Types, ChargeInv, NEW t \in Threads, Enforce(t)
  PROVE  ChargeInv'
<1>1. PICK P \in Sums : Charges(P)
  BY DEF ChargeInv
<1>2. UNCHANGED <<count, moved, base, delta>>
  BY DEF Enforce, ListClients, DisableClient, engine, poller
<1>3. Within(P, rows')
  <2>1. CASE UNCHANGED rows
    BY <1>1, <2>1 DEF Charges
  <2>2. ASSUME NEW id \in Ids, rows' = [rows EXCEPT ![id].on = FALSE]
        PROVE  Within(P, rows')
    BY <1>1, <2>2, WithinStays DEF Charges, Types, AccountTypes
  <2>3. QED
    BY <2>1, <2>2 DEF Enforce, ListClients, DisableClient, account
<1>4. \A u \in Threads : copy'[u] \in {copy[u], <<>>, rows}
  BY Forgets DEF Types, Enforce, ListClients, DisableClient
<1>5. QED
  BY <1>1, <1>2, <1>3, <1>4, Rewritten

LEMMA AskCharges ==
  ASSUME Types, ChargeInv, NEW t \in Admins, Ask(t)
  PROVE  ChargeInv'
<1>1. PICK P \in Sums : Charges(P)
  BY DEF ChargeInv
<1>2. UNCHANGED <<count, moved, base, delta>> /\ UNCHANGED rows
  BY DEF Ask, StatsPage, QuotaEnforce, DeleteUser, CreateUser, UpdateUser, engine, poller, account
<1>3. \A u \in Threads : copy'[u] \in {copy[u], <<>>, rows}
  BY DEF Types, ThreadTypes, Ask, StatsPage, QuotaEnforce, DeleteUser, CreateUser, UpdateUser
<1>4. Within(P, rows')
  BY <1>1, <1>2 DEF Charges
<1>5. QED
  BY <1>1, <1>2, <1>3, <1>4, Rewritten

\* What a handler writes back is charged already: it was when it was read.
LEMMA ServeCharges ==
  ASSUME Types, ChargeInv, NEW t \in Threads, Serve(t)
  PROVE  ChargeInv'
<1>1. PICK P \in Sums : Charges(P)
  BY DEF ChargeInv
<1>2. rows \in Table /\ Within(P, rows) /\ copy[t] \in Table /\ Within(P, copy[t])
  BY <1>1 DEF Charges, Types, AccountTypes, ThreadTypes
<1>3. ASSUME NEW id \in Ids, SaveClient(t, id)
      PROVE  ChargeInv'
  <2>1. id \in DOMAIN copy[t]
    BY <1>3, FirstIs DEF Types, ThreadTypes, Read, SaveClient
  <2>2. /\ Patched(copy[t][id], req[t]) \in Row
        /\ Patched(copy[t][id], req[t]).used <= P[id] - P[id - 1]
    BY <1>2, <2>1, PatchedIs DEF Within
  <2>3. Within(P, With(id, Patched(copy[t][id], req[t])))
    BY <1>2, <2>2, PutStays
  <2>4. Within(P, rows')
    BY <1>2, <1>3, <2>3 DEF SaveClient
  <2>5. \A u \in Threads : copy'[u] \in {copy[u], <<>>, rows}
    BY <1>3, Forgets DEF Types, SaveClient
  <2>6. UNCHANGED <<count, moved, base, delta>>
    BY <1>3 DEF SaveClient, engine, poller
  <2>7. QED
    BY <1>1, <2>4, <2>5, <2>6, Rewritten
<1>4. ASSUME NEW id \in Ids, ResetTraffic(t, id)
      PROVE  ChargeInv'
  <2>1. Within(P, [rows EXCEPT ![id].used = 0])
    BY <1>2, WithinStays
  <2>2. Within(P, rows') /\ UNCHANGED <<count, moved, base, delta, copy>>
    BY <1>2, <1>4, <2>1 DEF ResetTraffic, engine, poller
  <2>3. QED
    BY <1>1, <2>2, Rewritten
<1>5. ASSUME NEW id \in Ids, RemoveClient(t, id)
      PROVE  ChargeInv'
  <2>1. Within(P, Without(id))
    BY <1>2, WithinStays DEF Without
  <2>2. Within(P, rows') /\ UNCHANGED <<count, moved, base, delta>>
    BY <1>2, <1>5, <2>1 DEF RemoveClient, engine, poller
  <2>3. \A u \in Threads : copy'[u] \in {copy[u], <<>>, rows}
    BY <1>5, Forgets DEF Types, RemoveClient
  <2>4. QED
    BY <1>1, <2>2, <2>3, Rewritten
<1>6. CASE Members(t)
  <2>1. Within(P, rows') /\ UNCHANGED <<count, moved, base, delta>>
    BY <1>2, <1>6 DEF Members, account, engine, poller
  <2>2. \A u \in Threads : copy'[u] \in {copy[u], <<>>, rows}
    BY <1>6 DEF Types, ThreadTypes, Members
  <2>3. QED
    BY <1>1, <2>1, <2>2, Rewritten
<1>7. ASSUME NEW s \in Sources, AddClient(t, s)
      PROVE  ChargeInv'
  <2>1. nextId <= MaxIds => Within(P, With(nextId, NewRow(t, s)))
    <3>1. nextId <= MaxIds => nextId \in Ids
      BY QuotaAssumption DEF Types, AccountTypes, Ids
    <3>2. NewRow(t, s) \in Row /\ NewRow(t, s).used = 0
      BY NewRowIs
    <3>3. nextId <= MaxIds => NewRow(t, s).used <= P[nextId] - P[nextId - 1]
      BY <1>2, <3>1, <3>2, WithinStays
    <3>4. QED
      BY <1>2, <3>1, <3>2, <3>3, PutStays
  <2>2. Within(P, rows') /\ UNCHANGED <<count, moved, base, delta>>
    BY <1>2, <1>7, <2>1 DEF AddClient, engine, poller
  <2>3. \A u \in Threads : copy'[u] \in {copy[u], <<>>, rows}
    BY <1>7, Forgets DEF Types, AddClient
  <2>4. QED
    BY <1>1, <2>2, <2>3, Rewritten
<1>8. QED
  BY <1>3, <1>4, <1>5, <1>6, <1>7 DEF Serve

\* The engines restart with their counters at zero: there is less to sample.
LEMMA Restarts ==
  ASSUME Types, NEW S, NEW new, Restarted(S, new), UNCHANGED base
  PROVE  \A s \in Sources : Growth(s)' \in Nat /\ Growth(s)' <= Growth(s)
<1> SUFFICES ASSUME NEW s \in Sources
             PROVE  Growth(s)' \in Nat /\ Growth(s)' <= Growth(s)
  OBVIOUS
<1>1. count[s] \in Nat /\ base[s] \in Nat /\ base'[s] = base[s]
  BY DEF Types, EngineTypes, PollerTypes
<1>2. count'[s] = 0 \/ count'[s] = count[s]
  BY DEF Restarted
<1>3. QED
  BY <1>1, <1>2 DEF Growth

LEMMA ApplyCharges ==
  ASSUME Types, ChargeInv, NEW t \in Threads, Apply(t)
  PROVE  ChargeInv'
<1>1. PICK P \in Sums : Charges(P)
  BY DEF ChargeInv
<1>2. CASE Build(t)
  <2>1. Within(P, rows') /\ UNCHANGED <<count, moved, base, delta, copy>>
    BY <1>1, <1>2 DEF Charges, Build, account, engine, poller
  <2>2. QED
    BY <1>1, <2>1, Rewritten
<1>3. CASE Push(t)
  <2>1. Within(P, rows') /\ UNCHANGED <<moved, base, delta>>
    BY <1>1, <1>3 DEF Charges, Push, Restarted, account, poller
  <2>2. \A u \in Threads : Within(P, copy'[u])
    <3>1. \A u \in Threads : copy'[u] \in {copy[u], <<>>, rows}
      BY <1>3, Forgets DEF Types, Push
    <3>2. QED
      BY <1>1, <3>1, EmptyTable DEF Charges
  <2>3. PICK S \in SUBSET Sources : Restarted(S, snap[t])
    BY <1>3 DEF Push, Sources
  <2>4. \A s \in Sources : Growth(s)' \in Nat /\ Growth(s)' <= Growth(s) /\ Growth(s) \in Nat
    BY <2>1, <2>3, Restarts, GrowthIs DEF Types
  <2>5. Accounted(P)'
    <3>1. P[MaxIds] \in Nat /\ delta \in Nat /\ moved \in Nat
      BY QuotaAssumption DEF Sums, Types, EngineTypes, PollerTypes
    <3>2. P[MaxIds] + delta + Growth("singbox") + Growth("xray") <= moved
      BY <1>1 DEF Charges, Accounted
    <3>3. P[MaxIds] + delta' + Growth("singbox")' + Growth("xray")' <= moved'
      BY <2>1, <2>4, <3>1, <3>2 DEF Sources
    <3>4. QED
      BY <3>3 DEF Accounted
  <2>6. QED
    BY <2>1, <2>2, <2>5 DEF ChargeInv, Charges
<1>4. QED
  BY <1>2, <1>3 DEF Apply

\* A byte carried is one more to sample; what is sampled is one more to credit.
LEMMA CarryCharges ==
  ASSUME Types, ChargeInv, NEW s \in Sources, Carry(s) \/ Sample(s)
  PROVE  ChargeInv'
<1>1. PICK P \in Sums : Charges(P)
  BY DEF ChargeInv
<1>2. UNCHANGED <<rows, copy>>
  BY DEF Carry, Sample, account, threads
<1>3. P[MaxIds] \in Nat /\ delta \in Nat /\ moved \in Nat
  BY QuotaAssumption DEF Sums, Types, EngineTypes, PollerTypes
<1>4. \A x \in Sources : /\ count[x] \in Nat /\ base[x] \in Nat
                         /\ Growth(x) = IF count[x] >= base[x] THEN count[x] - base[x] ELSE count[x]
                         /\ Growth(x)' = IF count'[x] >= base'[x] THEN count'[x] - base'[x] ELSE count'[x]
  BY DEF Types, EngineTypes, PollerTypes, Growth
<1>5. P[MaxIds] + delta + Growth("singbox") + Growth("xray") <= moved
  BY <1>1 DEF Charges, Accounted
<1>6. P[MaxIds] + delta' + Growth("singbox")' + Growth("xray")' <= moved'
  <2>1. PICK o \in Sources : o # s /\ Sources = {s, o}
    BY DEF Sources
  <2>2. P[MaxIds] + delta + Growth(s) + Growth(o) <= moved
    <3>1. Growth(s) \in Nat /\ Growth(o) \in Nat
      BY GrowthIs DEF Types
    <3>2. Growth(s) + Growth(o) = Growth("singbox") + Growth("xray")
      BY <2>1, <3>1 DEF Sources
    <3>3. Growth("singbox") \in Nat /\ Growth("xray") \in Nat
      BY GrowthIs DEF Types, Sources
    <3>4. QED
      BY <1>3, <1>5, <3>1, <3>2, <3>3
  <2>3. CASE Carry(s)
    <3>1. count'[s] = count[s] + 1 /\ count'[o] = count[o] /\ moved' = moved + 1 /\ UNCHANGED <<base, delta>>
      BY <2>1, <2>3 DEF Carry, poller, Types, EngineTypes
    <3>2. Growth(s)' \in Nat /\ Growth(s)' <= Growth(s) + 1 /\ Growth(o)' = Growth(o)
      BY <1>4, <2>1, <3>1
    <3>3. Growth(s) \in Nat /\ Growth(o) \in Nat
      BY GrowthIs DEF Types
    <3>4. P[MaxIds] + delta' + Growth(s)' + Growth(o)' <= moved'
      BY <1>3, <2>2, <3>1, <3>2, <3>3
    <3>5. QED
      BY <1>3, <2>1, <3>1, <3>2, <3>3, <3>4 DEF Sources
  <2>4. CASE Sample(s)
    <3>1. UNCHANGED <<count, moved>>
      BY <2>4 DEF Sample, engine
    <3>2. CASE UNCHANGED <<delta, base>>
      BY <1>4, <1>5, <3>1, <3>2 DEF Sources
    <3>3. CASE delta' = delta + Growth(s) /\ base' = [base EXCEPT ![s] = count[s]]
      <4>1. base'[s] = count[s] /\ base'[o] = base[o]
        BY <2>1, <3>3 DEF Types, PollerTypes
      <4>2. Growth(s)' = 0 /\ Growth(o)' = Growth(o)
        BY <1>4, <2>1, <3>1, <4>1
      <4>3. Growth(s) \in Nat /\ Growth(o) \in Nat
        BY GrowthIs DEF Types
      <4>4. P[MaxIds] + delta' + Growth(s)' + Growth(o)' <= moved'
        BY <1>3, <2>2, <3>1, <3>3, <4>2, <4>3
      <4>5. QED
        BY <1>3, <2>1, <3>1, <3>3, <4>2, <4>3, <4>4 DEF Sources
    <3>4. QED
      BY <2>4, <3>2, <3>3 DEF Sample
  <2>5. QED
    BY <2>3, <2>4
<1>7. QED
  BY <1>1, <1>2, <1>6 DEF ChargeInv, Charges, Accounted

\* The credit of a tick is charged to the row it goes to, from whose id on the
\* sums rise by it.
LEMMA CreditCharges ==
  ASSUME Types, ChargeInv, CreditRow
  PROVE  ChargeInv'
<1>1. PICK P \in Sums : Charges(P)
  BY DEF ChargeInv
<1>2. rows \in Table /\ delta \in Nat /\ target \in Ids /\ moved \in Nat
  BY DEF Types, AccountTypes, EngineTypes, PollerTypes, CreditRow
<1>p. /\ P \in [0..MaxIds -> Nat] /\ P[0] = 0 /\ \A id \in Ids : P[id - 1] <= P[id]
      /\ MaxIds \in Nat /\ MaxIds \in 0..MaxIds /\ target \in 1..MaxIds /\ P[MaxIds] \in Nat
  BY <1>2, QuotaAssumption DEF Sums, Ids
<1>3. UNCHANGED <<count, moved, base, copy>> /\ delta' = 0
  BY DEF CreditRow, CreditEnds, engine, threads
<1>4. Growth("singbox") \in Nat /\ Growth("xray") \in Nat /\ UNCHANGED <<Growth("singbox"), Growth("xray")>>
  <2>1. UNCHANGED <<Growth("singbox"), Growth("xray")>>
    BY <1>3 DEF Growth
  <2>2. QED
    BY <2>1, GrowthIs DEF Types, Sources
<1>5. P[MaxIds] + delta + Growth("singbox") + Growth("xray") <= moved
  BY <1>1 DEF Charges, Accounted
<1>6. CASE UNCHANGED rows
  <2>1. P[MaxIds] + 0 + Growth("singbox") + Growth("xray") <= moved
    BY <1>2, <1>p, <1>4, <1>5
  <2>2. Accounted(P)'
    BY <1>3, <1>4, <2>1 DEF Accounted
  <2>3. QED
    BY <1>1, <1>3, <1>6, <2>2 DEF ChargeInv, Charges
<1>7. CASE target \in DOMAIN rows /\ rows' = [rows EXCEPT ![target].used = @ + delta]
  <2>2. PICK R \in [0..MaxIds -> Nat] : \A i \in 0..MaxIds : R[i] = IF i >= target THEN P[i] + delta ELSE P[i]
    <3> DEFINE Q == [i \in 0..MaxIds |-> IF i >= target THEN P[i] + delta ELSE P[i]]
    <3>1. Q \in [0..MaxIds -> Nat]
      BY <1>2, <1>p
    <3>2. \A i \in 0..MaxIds : Q[i] = IF i >= target THEN P[i] + delta ELSE P[i]
      OBVIOUS
    <3> HIDE DEF Q
    <3>3. QED
      BY <3>1, <3>2
  <2>1. \A i \in 0..MaxIds : R[i] \in Nat /\ R[i] = IF i >= target THEN P[i] + delta ELSE P[i]
    BY <2>2
  <2>3. \A id \in Ids : R[id] - R[id - 1] = IF id = target THEN (P[id] - P[id - 1]) + delta ELSE P[id] - P[id - 1]
    <3> TAKE id \in Ids
    <3>1. id \in 0..MaxIds /\ id - 1 \in 0..MaxIds /\ id \in Int
      BY <1>p DEF Ids
    <3>2. P[id] \in Nat /\ P[id - 1] \in Nat
      BY <1>p, <3>1
    <3>3. /\ R[id] = IF id >= target THEN P[id] + delta ELSE P[id]
          /\ R[id - 1] = IF id - 1 >= target THEN P[id - 1] + delta ELSE P[id - 1]
      BY <2>1, <3>1
    <3>4. target \in Int
      BY <1>p
    <3>5. QED
      BY <1>2, <3>1, <3>2, <3>3, <3>4
  <2>4. R \in Sums
    <3>1. R[0] = 0
      BY <1>p, <2>1
    <3>2. \A id \in Ids : R[id - 1] <= R[id]
      <4> TAKE id \in Ids
      <4>1. R[id] \in Nat /\ R[id - 1] \in Nat /\ P[id] \in Nat /\ P[id - 1] \in Nat
        BY <1>p, <2>1 DEF Ids
      <4>2. P[id - 1] <= P[id]
        BY <1>p
      <4>3. QED
        BY <1>2, <2>3, <4>1, <4>2
    <3>3. QED
      BY <2>2, <3>1, <3>2 DEF Sums
  <2>5. \A id \in Ids : P[id] - P[id - 1] <= R[id] - R[id - 1] /\ P[id] - P[id - 1] \in Int /\ R[id] - R[id - 1] \in Int
    <3> TAKE id \in Ids
    <3>1. R[id] \in Nat /\ R[id - 1] \in Nat /\ P[id] \in Nat /\ P[id - 1] \in Nat
      BY <1>p, <2>1 DEF Ids
    <3>2. QED
      BY <1>2, <2>3, <3>1
  <2>6. \A rs \in Table : Within(P, rs) => Within(R, rs)
    <3> SUFFICES ASSUME NEW rs \in Table, Within(P, rs), NEW id \in DOMAIN rs
                 PROVE  rs[id].used <= R[id] - R[id - 1]
      BY DEF Within
    <3>1. id \in Ids /\ rs[id].used \in Nat
      BY TableOf DEF Row
    <3>2. rs[id].used <= P[id] - P[id - 1]
      BY DEF Within
    <3>3. QED
      BY <2>5, <3>1, <3>2
  <2>7. Within(R, rows')
    <3> SUFFICES ASSUME NEW id \in DOMAIN rows PROVE rows'[id].used <= R[id] - R[id - 1]
      BY <1>7 DEF Within
    <3>1. id \in Ids /\ rows[id] \in Row /\ rows[id].used \in Nat
      BY <1>2, TableOf DEF Row
    <3>2. rows[id].used <= P[id] - P[id - 1] /\ rows[id].used <= R[id] - R[id - 1]
      BY <1>1, <1>2, <2>6 DEF Charges, Within
    <3>3. CASE id # target
      BY <1>7, <3>2, <3>3
    <3>4. CASE id = target
      <4>1. rows'[id].used = rows[id].used + delta
        BY <1>7, <3>1, <3>4 DEF Row
      <4>2. R[id] - R[id - 1] = (P[id] - P[id - 1]) + delta
        BY <2>3, <3>1, <3>4
      <4>3. QED
        BY <1>2, <2>5, <3>1, <3>2, <4>1, <4>2
    <3>5. QED
      BY <3>3, <3>4
  <2>8. \A t \in Threads : Within(R, copy'[t])
    BY <1>1, <1>3, <2>6 DEF Charges, Types, ThreadTypes
  <2>9. Accounted(R)'
    <3>1. R[MaxIds] = P[MaxIds] + delta
      BY <1>p, <2>1
    <3>2. R[MaxIds] + 0 + Growth("singbox") + Growth("xray") <= moved
      BY <1>2, <1>p, <1>4, <1>5, <3>1
    <3>3. QED
      BY <1>3, <1>4, <3>2 DEF Accounted
  <2>10. QED
    BY <2>4, <2>7, <2>8, <2>9 DEF ChargeInv, Charges
<1>8. QED
  BY <1>6, <1>7 DEF CreditRow

\* The rest of the poller, and the deaths of the panel.
LEMMA PollCharges ==
  ASSUME Types, ChargeInv, Poll
  PROVE  ChargeInv'
<1>1. PICK P \in Sums : Charges(P)
  BY DEF ChargeInv
<1>2. CASE Tick \/ OnCredited
  <2>1. Within(P, rows') /\ UNCHANGED <<count, moved, base, delta, copy>>
    BY <1>1, <1>2 DEF Charges, Tick, OnCredited, account, engine, threads
  <2>2. QED
    BY <1>1, <2>1, Rewritten
<1>3. CASE FindRow
  <2>1. UNCHANGED <<count, moved, base, rows, copy>> /\ delta' \in {delta, 0}
    BY <1>3 DEF FindRow, CreditEnds, account, engine, threads
  <2>2. Growth("singbox") \in Nat /\ Growth("xray") \in Nat /\ UNCHANGED <<Growth("singbox"), Growth("xray")>>
    <3>1. UNCHANGED <<Growth("singbox"), Growth("xray")>>
      BY <2>1 DEF Growth
    <3>2. QED
      BY <3>1, GrowthIs DEF Types, Sources
  <2>3. P[MaxIds] \in Nat /\ delta \in Nat /\ moved \in Nat
    BY QuotaAssumption DEF Sums, Types, EngineTypes, PollerTypes
  <2>4. P[MaxIds] + delta + Growth("singbox") + Growth("xray") <= moved
    BY <1>1 DEF Charges, Accounted
  <2>5. P[MaxIds] + delta' + Growth("singbox") + Growth("xray") <= moved
    BY <2>1, <2>2, <2>3, <2>4
  <2>6. Accounted(P)'
    BY <2>1, <2>2, <2>5 DEF Accounted
  <2>7. QED
    BY <1>1, <2>1, <2>6 DEF ChargeInv, Charges
<1>4. QED
  BY <1>2, <1>3, CarryCharges, CreditCharges DEF Poll

LEMMA RestartCharges ==
  ASSUME Types, ChargeInv, Restart
  PROVE  ChargeInv'
<1>1. PICK P \in Sums : Charges(P)
  BY DEF ChargeInv
<1>2. /\ UNCHANGED <<rows, moved>> /\ delta' = 0 /\ (\A t \in Threads : copy'[t] = <<>>)
      /\ \A s \in Sources : count'[s] = 0 /\ base'[s] = 0
  BY DEF Restart, EnginesDie, Restarted, account
<1>3. Growth("singbox")' = 0 /\ Growth("xray")' = 0
  BY <1>2 DEF Growth, Sources
<1>4. P[MaxIds] <= moved /\ P[MaxIds] \in Nat
  <2>1. P[MaxIds] \in Nat /\ delta \in Nat /\ moved \in Nat
    BY QuotaAssumption DEF Sums, Types, EngineTypes, PollerTypes
  <2>2. Growth("singbox") \in Nat /\ Growth("xray") \in Nat
    BY GrowthIs DEF Types, Sources
  <2>3. QED
    BY <1>1, <2>1, <2>2 DEF Charges, Accounted
<1>5. Accounted(P)'
  BY <1>2, <1>3, <1>4 DEF Accounted
<1>6. QED
  BY <1>1, <1>2, <1>5, EmptyTable DEF ChargeInv, Charges

LEMMA QuotaInitCharges == Init => ChargeInv
<1> SUFFICES ASSUME Init PROVE ChargeInv
  OBVIOUS
<1> DEFINE P == [i \in 0..MaxIds |-> 0]
<1>1. P \in Sums /\ P[MaxIds] = 0 /\ \A id \in Ids : P[id] - P[id - 1] = 0
  <2>1. P \in [0..MaxIds -> Nat] /\ MaxIds \in Nat
    BY QuotaAssumption
  <2>2. \A i \in 0..MaxIds : P[i] = 0
    OBVIOUS
  <2> HIDE DEF P
  <2>3. \A id \in Ids : id \in 0..MaxIds /\ id - 1 \in 0..MaxIds
    BY <2>1 DEF Ids
  <2>4. QED
    BY <2>1, <2>2, <2>3 DEF Sums
<1> HIDE DEF P
<1>2. Within(P, rows)
  <2>1. \A id \in DOMAIN rows : id \in Ids /\ rows[id].used = 0
    BY QuotaAssumption DEF Init, Ids
  <2>2. QED
    BY <1>1, <2>1 DEF Within
<1>3. \A t \in Threads : Within(P, copy[t])
  BY EmptyTable DEF Init
<1>4. Accounted(P)
  <2>1. Growth("singbox") = 0 /\ Growth("xray") = 0
    BY DEF Init, Growth, Sources
  <2>2. QED
    BY <1>1, <2>1 DEF Init, Accounted
<1>5. QED
  BY <1>1, <1>2, <1>3, <1>4 DEF ChargeInv, Charges

LEMMA QuotaStepCharges ==
  ASSUME Types, ChargeInv, [Next]_vars
  PROVE  ChargeInv'
<1>1. PICK P \in Sums : Charges(P)
  BY DEF ChargeInv
<1>2. CASE Backstop \/ TakeTrigger \/ UNCHANGED vars
  <2>1. Within(P, rows') /\ UNCHANGED <<count, moved, base, delta, copy>>
    BY <1>1, <1>2 DEF Charges, Backstop, TakeTrigger, vars, account, engine, poller, threads
  <2>2. QED
    BY <1>1, <2>1, Rewritten
<1>3. ASSUME NEW t \in Threads, Work(t)
      PROVE  ChargeInv'
  BY <1>3, EnforceCharges, ApplyCharges, ServeCharges DEF Work
<1>4. QED
  BY <1>2, <1>3, CarryCharges, PollCharges, AskCharges, RestartCharges DEF Next

(***************************************************************************)
(* No credit goes unseen                                                   *)
(***************************************************************************)
LEMMA QuotaStepSeen ==
  ASSUME Types, SeenInv, [Next]_vars
  PROVE  SeenInv'
<1>0. "runner" \in Threads /\ "runner" \notin Admins
  BY QuotaAssumption DEF Threads
\* Whoever else moves leaves the runner where it is.
<1>a. ASSUME NEW t \in Threads, NEW next, Goto(t, next), pc[t] # "list" \/ t # "runner"
      PROVE  pc["runner"] = "list" => pc'["runner"] = "list"
  BY <1>0, <1>a DEF Types, ThreadTypes, Goto
<1>1. CASE Poll
  BY <1>1 DEF Types, PollerTypes, SeenInv, Poll, Tick, Sample, FindRow, CreditRow, CreditEnds, OnCredited, Signal,
              Sources, signals, threads
<1>2. CASE Backstop \/ (\E s \in Sources : Carry(s)) \/ UNCHANGED vars
  BY <1>2 DEF SeenInv, Backstop, Signal, Carry, vars, poller, signals, threads
<1>3. CASE TakeTrigger
  BY <1>0, <1>3 DEF Types, ThreadTypes, SeenInv, TakeTrigger, Goto, poller
<1>4. CASE Restart
  BY <1>4 DEF SeenInv, Restart
<1>5. ASSUME NEW t \in Admins, Ask(t)
      PROVE  SeenInv'
  <2>1. UNCHANGED <<poll, delta, trigger, unseen>> /\ t \in Threads /\ t # "runner"
    BY <1>0, <1>5 DEF Ask, StatsPage, QuotaEnforce, DeleteUser, CreateUser, UpdateUser, poller, signals, Threads
  <2>2. \E next : Goto(t, next)
    BY <1>5 DEF Ask, StatsPage, QuotaEnforce, DeleteUser, CreateUser, UpdateUser
  <2>3. QED
    BY <1>a, <2>1, <2>2 DEF SeenInv
<1>6. ASSUME NEW t \in Threads, Work(t)
      PROVE  SeenInv'
  <2>1. CASE ListClients(t)
    <3>1. UNCHANGED <<poll, delta, trigger>> /\ unseen' = IF t = "runner" THEN FALSE ELSE unseen
      BY <2>1 DEF ListClients, poller
    <3>2. \E next : Goto(t, next)
      BY <2>1 DEF ListClients
    <3>3. CASE t = "runner"
      BY <3>1, <3>3 DEF SeenInv
    <3>4. CASE t # "runner"
      BY <1>a, <3>1, <3>2, <3>4 DEF SeenInv
    <3>5. QED
      BY <3>3, <3>4
  <2>2. CASE ~ListClients(t)
    <3>1. UNCHANGED <<poll, delta, trigger, unseen>> /\ pc[t] # "list"
      BY <1>6, <2>2 DEF Work, Enforce, DisableClient, Apply, Build, Push, Serve, SaveClient, ResetTraffic,
                        RemoveClient, Members, AddClient, poller, signals
    <3>2. UNCHANGED pc \/ \E next : Goto(t, next)
      BY <1>6, <2>2 DEF Work, Enforce, DisableClient, Apply, Build, Push, Serve, SaveClient, ResetTraffic,
                        RemoveClient, Members, AddClient, Written, Leave
    <3>3. QED
      BY <1>a, <3>1, <3>2 DEF SeenInv
  <2>3. QED
    BY <2>1, <2>2
<1>7. QED
  BY <1>1, <1>2, <1>3, <1>4, <1>5, <1>6 DEF Next

(***************************************************************************)
(* The theorems                                                            *)
(***************************************************************************)
LEMMA QuotaInv == Spec => []IInv
<1>1. Init => IInv
  BY QuotaInitTypes, QuotaInitCharges DEF IInv, Init, SeenInv
<1>2. IInv /\ [Next]_vars => IInv'
  BY QuotaStepTypes, QuotaStepCharges, QuotaStepSeen DEF IInv
<1>3. QED
  BY <1>1, <1>2, PTL DEF Spec

\* Every variable keeps its type; in particular what a handler still has to save
\* it has read (Update walks the rows it listed).
THEOREM QuotaTypes == Spec => []Types
<1>1. IInv => Types
  BY DEF IInv
<1>2. QED
  BY <1>1, QuotaInv, PTL

\* The rows of a user, with what the poller is about to credit, never say more than
\* the engines carried, whatever restarts between two samples and however stale the
\* copies that are written back (AddUserTraffic, Update, EnforceAll).
THEOREM NobodyOvercharged == Spec => []NeverOvercharged
<1>1. IInv => NeverOvercharged
  <2> SUFFICES ASSUME IInv PROVE NeverOvercharged
    OBVIOUS
  <2>1. Types /\ rows \in Table
    BY DEF IInv, Types, AccountTypes
  <2>2. PICK P \in Sums : Charges(P)
    BY DEF IInv, ChargeInv
  <2>3. Used(rows) \in Nat /\ Used(rows) <= P[MaxIds]
    BY <2>1, <2>2, UsedWithin DEF Charges
  <2>4. Growth("singbox") \in Nat /\ Growth("xray") \in Nat
    BY <2>1, GrowthIs DEF Types, Sources
  <2>5. P[MaxIds] \in Nat /\ delta \in Nat /\ moved \in Nat
    BY <2>1, QuotaAssumption DEF Sums, Types, EngineTypes, PollerTypes
  <2>6. P[MaxIds] + delta + Growth("singbox") + Growth("xray") <= moved
    BY <2>2 DEF Charges, Accounted
  <2>7. QED
    BY <2>3, <2>4, <2>5, <2>6 DEF NeverOvercharged
<1>2. QED
  BY <1>1, QuotaInv, PTL

\* Between two ticks, bytes that were credited and that no enforcement run has
\* looked at always have a run that is on its way (the one-slot trigger channel).
THEOREM CreditsAreSeen == Spec => []CrossingIsSeen
<1>1. IInv => CrossingIsSeen
  BY DEF IInv, SeenInv, CrossingIsSeen
<1>2. QED
  BY <1>1, QuotaInv, PTL

(***************************************************************************)
(* Upkeep: the types, and what every step of script and process keeps      *)
(***************************************************************************)
Databases == [schema: Int, from: Int, notify: BOOLEAN, check: BOOLEAN, today: BOOLEAN]

Stages == {"idle", "main", "backup", "source", "install", "restart", "health",
           "rollback", "stop", "database", "again", "report"}

Procs   == [pc: {"down", "keep", "clear", "place", "open", "up", "stopped"}, ver: Nat, doomed: BOOLEAN]
Disks   == [bin: Nat, binKept: Nat, db: Databases, log: {"none", "own", "foreign", "mixed"},
            kept: Databases, pending: Databases]
Scripts == [pc: Stages, from: Nat, to: Nat, ok: BOOLEAN]
Files   == [state: {"idle", "running", "success", "rolledback", "manual"}, to: Nat]
Shows   == [ver: Nat, loading: BOOLEAN, told: Nat, offer: Nat, started: BOOLEAN, restarting: BOOLEAN]

UpkeepTypeOK ==
  /\ proc \in Procs /\ disk \in Disks /\ script \in Scripts /\ file \in Files
  /\ broken \subseteq {Latest}
  /\ page \in [Tabs -> Shows]
  /\ upload \in {"none", "writing"} /\ archive \in Databases
  /\ digest \in {"idle", "sending", "sent"}

Counted == got \in BOOLEAN /\ moves \in 0..MaxMoves

\* The database stands still while the script puts the copy back, and a process
\* that places the staged one has just removed the log.
LogInv ==
  /\ disk.log \in {"none", "own"}
  /\ proc.pc = "place" => disk.log = "none"
  /\ script.pc \in {"database", "again"} => proc.pc = "stopped"

\* What the script has in its hands at each stage.
ScriptInv ==
  /\ script.pc \in {"main", "backup"} => disk.bin = script.from
  /\ script.pc \in {"source", "install", "restart", "health", "rollback"} => disk.binKept = script.from
  /\ script.pc \in {"restart", "health"} => disk.bin = script.to
  /\ script.pc \in {"stop", "database", "again", "report"} => disk.bin = script.from
  /\ script.pc \notin {"idle", "main"} => file = [state |-> "running", to |-> script.to]

\* What is so of the process whoever started it, and of what is staged.
ProcInv ==
  /\ proc.pc = "up" => proc.ver \notin broken /\ disk.db.schema >= proc.ver
  /\ disk.pending.schema \in {disk.pending.from, Absent, Torn}

Reports(state) == script.pc = "idle" /\ file.state = state

Restored == \/ script.pc = "again"
            \/ script.pc = "report" /\ script.ok
            \/ Reports("rolledback")

\* From the moment that the outcome is settled to the next upgrade.
OutcomeInv ==
  /\ Reports("success") => disk.bin = file.to /\ file.to \notin broken
  /\ Reports("rolledback") => disk.bin = script.from
  /\ Restored \/ Reports("success") =>
       proc.pc \in {"down", "stopped"} \/ proc.ver = disk.bin
  /\ Restored /\ disk.kept # NoDB =>
       disk.db.schema <= disk.bin \/ disk.db.schema \in {disk.db.from, disk.kept.schema}

LEMMA EmptyFits == NoDB \in Databases /\ Half \in Databases
<1>1. NoDB \in Databases
  BY DEF NoDB, Databases, Absent
<1>2. Torn \in Int
  BY DEF Torn
<1>3. QED
  BY <1>1, <1>2 DEF Half, Databases

\* The types are kept by every step.
LEMMA UpkeepStepTypes == ASSUME UpkeepTypeOK, [UpkeepNext]_upkeepVars PROVE UpkeepTypeOK'
<1> USE UpkeepAssumption, EmptyFits DEF UpkeepAssumption, UpkeepTypeOK
<1>1. CASE Crash
  BY <1>1 DEF Crash, Ends, Procs
<1>2. CASE Exit
  BY <1>2 DEF Exit, Ends, Serving, Procs
<1>3. CASE RestartAlways
  BY <1>3 DEF RestartAlways, Serving, Procs, Disks
<1>4. CASE KeepCurrent
  BY <1>4 DEF KeepCurrent, Boot, Absent, Disks, Procs
<1>5. CASE ClearLog
  BY <1>5 DEF ClearLog, Boot, Disks, Procs
<1>6. CASE PlacePending
  BY <1>6 DEF PlacePending, Boot, Beside, Absent, Disks, Procs
<1>7. CASE Open
  <2> DEFINE opened == [disk EXCEPT !.db.schema = Newer(@, proc.ver), !.log = Opened(@)]
  <2>1. Newer(disk.db.schema, proc.ver) \in Int
    BY DEF Newer, Disks, Databases, Procs
  <2>2. [disk.db EXCEPT !.schema = Newer(@, proc.ver)] \in Databases
    BY <2>1 DEF Disks, Databases
  <2>3. opened \in Disks
    BY <2>2 DEF Disks, Opened
  <2>4. disk' \in Disks /\ proc' \in Procs
    BY <1>7, <2>3 DEF Open, Procs
  <2>5. QED
    BY <1>7, <2>4 DEF Open
<1>8. CASE main
  BY <1>8 DEF main, Undisturbed, Panel, To, Files, Scripts, Stages
<1>9. CASE backup
  BY <1>9 DEF backup, Undisturbed, Panel, To, Disks, Scripts, Stages
<1>10. CASE locate_source
  BY <1>10 DEF locate_source, Undisturbed, Panel, To, Scripts, Stages
<1>11. CASE install
  BY <1>11 DEF install, Undisturbed, Panel, To, Disks, Scripts, Stages
<1>12. CASE restart
  BY <1>12 DEF restart, Ends, To, Panel, Procs, Scripts, Stages
<1>13. CASE healthy
  BY <1>13 DEF healthy, health_ok, Answers, Serving, Undisturbed, Panel, To, Absent, Disks, Files, Scripts, Stages
<1>14. CASE unhealthy
  BY <1>14 DEF unhealthy, Undisturbed, Panel, To, Scripts, Stages
<1>15. CASE rollback
  BY <1>15 DEF rollback, Undisturbed, Panel, To, Disks, Scripts, Stages
<1>16. CASE stop
  BY <1>16 DEF stop, Ends, To, Panel, Procs, Scripts, Stages
<1>17. CASE database
  BY <1>17 DEF database, Undisturbed, Panel, To, Disks, Scripts, Stages
<1>18. CASE again
  BY <1>18 DEF again, Ends, To, Panel, Procs, Scripts, Stages
<1>19. CASE report
  BY <1>19 DEF report, Undisturbed, Panel, To, Files, Scripts, Stages
<1>20. CASE maybeSend
  BY <1>20 DEF maybeSend, Runner
<1>21. CASE SendTelegram
  BY <1>21 DEF SendTelegram, Runner
<1>22. CASE MarkSent
  <2>1. [disk.db EXCEPT !.today = TRUE] \in Databases
    BY DEF Disks, Databases
  <2>2. disk' \in Disks
    BY <1>22, <2>1 DEF MarkSent, Disks
  <2>3. QED
    BY <1>22, <2>2 DEF MarkSent, Runner
<1>23. CASE cmdUpgrade
  BY <1>23 DEF cmdUpgrade, Upgrade, Serving, Scripts, Stages, Disks
<1>24. ASSUME NEW t \in Tabs, Refresh(t) PROVE UpkeepTypeOK'
  BY <1>24 DEF Refresh, Set, Server, Reload, Shows
<1>25. ASSUME NEW t \in Tabs, AppearanceCard(t) PROVE UpkeepTypeOK'
  BY <1>25 DEF AppearanceCard, Stores, Databases, Disks
<1>26. ASSUME NEW t \in Tabs, NotifyCard(t) PROVE UpkeepTypeOK'
  <2>1. PICK notify, check, rearm \in BOOLEAN :
          disk' = [disk EXCEPT !.db.notify = notify, !.db.check = check, !.db.today = @ /\ ~rearm]
    BY <1>26 DEF NotifyCard
  <2>2. [disk.db EXCEPT !.notify = notify, !.check = check, !.today = @ /\ ~rearm] \in Databases
    BY DEF Disks, Databases
  <2>3. disk' \in Disks
    BY <2>1, <2>2 DEF Disks
  <2>4. QED
    BY <1>26, <2>3 DEF NotifyCard, Stores
<1>27. ASSUME NEW t \in Tabs, SystemBackup(t) PROVE UpkeepTypeOK'
  BY <1>27 DEF SystemBackup, Set, Shows, Disks
<1>28. ASSUME NEW t \in Tabs, BackupCard(t) PROVE UpkeepTypeOK'
  BY <1>28 DEF BackupCard, Absent, Disks
<1>29. ASSUME NEW t \in Tabs, RestartService(t) PROVE UpkeepTypeOK'
  BY <1>29 DEF RestartService, Exits, Set, Procs, Shows
<1>30. ASSUME NEW t \in Tabs, UpgradeSection(t) PROVE UpkeepTypeOK'
  BY <1>30 DEF UpgradeSection, Upgrade, Set, Serving, Scripts, Shows, Stages, Disks
<1>31. ASSUME NEW t \in Tabs, CheckNowButton(t) PROVE UpkeepTypeOK'
  BY <1>31 DEF CheckNowButton, Set, Server, Offer, Absent, Shows
<1>32. ASSUME NEW t \in Tabs, Load(t) PROVE UpkeepTypeOK'
  BY <1>32 DEF Load, Set, Server, Fresh, Absent, Serving, Shows, Procs
<1>33. ASSUME NEW t \in Tabs, RunningVersion(t) PROVE UpkeepTypeOK'
  BY <1>33 DEF RunningVersion, Set, Server, Reload, Shows, Procs
<1>34. ASSUME NEW t \in Tabs, UpgradeStatus(t) PROVE UpkeepTypeOK'
  BY <1>34 DEF UpgradeStatus, Set, Server, Reload, Shows
<1>35. ASSUME NEW t \in Tabs, Back(t) PROVE UpkeepTypeOK'
  BY <1>35 DEF Back, Set, Server, Offer, Absent, Shows
<1>36. ASSUME NEW t \in Tabs, SystemRestore(t) PROVE UpkeepTypeOK'
  <2>1. Staged \in Databases
    BY DEF Staged, Databases
  <2>2. disk' \in Disks
    BY <1>36, <2>1 DEF SystemRestore, Disks
  <2>3. proc' \in Procs
    BY <1>36 DEF SystemRestore, Exits, Procs
  <2>4. page' \in [Tabs -> Shows]
    <3>1. Reload(page[t]) \in Shows
      BY DEF Reload, Shows
    <3>2. QED
      BY <1>36, <3>1 DEF SystemRestore, Set
  <2>5. QED
    BY <1>36, <2>2, <2>3, <2>4 DEF SystemRestore
<1>37. CASE UNCHANGED upkeepVars
  BY <1>37 DEF upkeepVars
<1>38. QED
  BY <1>1, <1>2, <1>3, <1>4, <1>5, <1>6, <1>7, <1>8, <1>9, <1>10, <1>11, <1>12, <1>13, <1>14, <1>15, <1>16, <1>17, <1>18, <1>19, <1>20, <1>21, <1>22, <1>23, <1>24, <1>25, <1>26, <1>27, <1>28, <1>29, <1>30, <1>31, <1>32, <1>33, <1>34, <1>35, <1>36, <1>37
  DEF UpkeepNext, Process, ApplyPendingRestore, Steps, Digest, SettingsPage, Dashboard, AboutPage,
      Operate, Answer

\* The bound on what the operator does and what fails is kept.
LEMMA UpkeepStepCounts == ASSUME Counted, [UpkeepNext]_upkeepVars PROVE Counted'
<1> USE UpkeepAssumption DEF UpkeepAssumption, Counted, Move
<1>1. CASE Crash
  BY <1>1 DEF Crash
<1>2. CASE Exit
  BY <1>2 DEF Exit
<1>3. CASE RestartAlways
  BY <1>3 DEF RestartAlways
<1>4. CASE KeepCurrent
  BY <1>4 DEF KeepCurrent, Boot
<1>5. CASE ClearLog
  BY <1>5 DEF ClearLog, Boot
<1>6. CASE PlacePending
  BY <1>6 DEF PlacePending, Boot
<1>7. CASE Open
  BY <1>7 DEF Open
<1>8. CASE main
  BY <1>8 DEF main, Undisturbed, Panel
<1>9. CASE backup
  BY <1>9 DEF backup, Undisturbed, Panel
<1>10. CASE locate_source
  BY <1>10 DEF locate_source, Undisturbed, Panel
<1>11. CASE install
  BY <1>11 DEF install, Undisturbed, Panel
<1>12. CASE restart
  BY <1>12 DEF restart, Panel
<1>13. CASE healthy
  BY <1>13 DEF healthy, Undisturbed, Panel
<1>14. CASE unhealthy
  BY <1>14 DEF unhealthy, Undisturbed, Panel
<1>15. CASE rollback
  BY <1>15 DEF rollback, Undisturbed, Panel
<1>16. CASE stop
  BY <1>16 DEF stop, Panel
<1>17. CASE database
  BY <1>17 DEF database, Undisturbed, Panel
<1>18. CASE again
  BY <1>18 DEF again, Panel
<1>19. CASE report
  BY <1>19 DEF report, Undisturbed, Panel
<1>20. CASE maybeSend
  BY <1>20 DEF maybeSend, Runner
<1>21. CASE SendTelegram
  <2>1. got' \in BOOLEAN
    BY <1>21, Zenon DEF SendTelegram
  <2>2. moves' \in 0..MaxMoves
    BY <1>21 DEF SendTelegram
  <2>3. QED
    BY <2>1, <2>2
<1>22. CASE MarkSent
  BY <1>22 DEF MarkSent, Runner
<1>23. CASE cmdUpgrade
  BY <1>23 DEF cmdUpgrade
<1>24. ASSUME NEW t \in Tabs, Refresh(t) PROVE Counted'
  BY <1>24 DEF Refresh, Server
<1>25. ASSUME NEW t \in Tabs, AppearanceCard(t) PROVE Counted'
  BY <1>25 DEF AppearanceCard, Stores
<1>26. ASSUME NEW t \in Tabs, NotifyCard(t) PROVE Counted'
  BY <1>26 DEF NotifyCard, Stores
<1>27. ASSUME NEW t \in Tabs, SystemBackup(t) PROVE Counted'
  BY <1>27 DEF SystemBackup
<1>28. ASSUME NEW t \in Tabs, BackupCard(t) PROVE Counted'
  BY <1>28 DEF BackupCard
<1>29. ASSUME NEW t \in Tabs, RestartService(t) PROVE Counted'
  BY <1>29 DEF RestartService
<1>30. ASSUME NEW t \in Tabs, UpgradeSection(t) PROVE Counted'
  BY <1>30 DEF UpgradeSection
<1>31. ASSUME NEW t \in Tabs, CheckNowButton(t) PROVE Counted'
  BY <1>31 DEF CheckNowButton, Server
<1>32. ASSUME NEW t \in Tabs, Load(t) PROVE Counted'
  BY <1>32 DEF Load, Server
<1>33. ASSUME NEW t \in Tabs, RunningVersion(t) PROVE Counted'
  BY <1>33 DEF RunningVersion, Server
<1>34. ASSUME NEW t \in Tabs, UpgradeStatus(t) PROVE Counted'
  BY <1>34 DEF UpgradeStatus, Server
<1>35. ASSUME NEW t \in Tabs, Back(t) PROVE Counted'
  BY <1>35 DEF Back, Server
<1>36. ASSUME NEW t \in Tabs, SystemRestore(t) PROVE Counted'
  BY <1>36 DEF SystemRestore
<1>37. CASE UNCHANGED upkeepVars
  BY <1>37 DEF upkeepVars
<1>38. QED
  BY <1>1, <1>2, <1>3, <1>4, <1>5, <1>6, <1>7, <1>8, <1>9, <1>10, <1>11, <1>12, <1>13, <1>14, <1>15, <1>16, <1>17, <1>18, <1>19, <1>20, <1>21, <1>22, <1>23, <1>24, <1>25, <1>26, <1>27, <1>28, <1>29, <1>30, <1>31, <1>32, <1>33, <1>34, <1>35, <1>36, <1>37
  DEF UpkeepNext, Process, ApplyPendingRestore, Steps, Digest, SettingsPage, Dashboard, AboutPage,
      Operate, Answer

(***************************************************************************)
(* What the pages, the bot and the runner of the digest leave alone        *)
(***************************************************************************)
Bystander ==
  /\ proc'.pc = proc.pc /\ proc'.ver = proc.ver /\ UNCHANGED <<file, broken>>
  /\ UNCHANGED script \/ Upgrade
  /\ disk'.bin = disk.bin /\ disk'.binKept = disk.binKept /\ disk'.kept = disk.kept /\ disk'.log = disk.log
  /\ disk'.db.schema = disk.db.schema /\ disk'.db.from = disk.db.from
  /\ disk'.pending \in {disk.pending, Half, NoDB, Staged}

LEMMA OthersStandBy ==
  ASSUME UpkeepTypeOK, Digest \/ cmdUpgrade \/ \E t \in Tabs : Operate(t) \/ Answer(t)
  PROVE  Bystander
<1> USE DEF UpkeepTypeOK, Bystander
<1>1. CASE maybeSend
  BY <1>1 DEF maybeSend, Runner, Disks, Databases
<1>2. CASE SendTelegram
  BY <1>2 DEF SendTelegram, Runner, Move, Disks, Databases
<1>3. CASE MarkSent
  BY <1>3 DEF MarkSent, Runner, Disks, Databases
<1>4. CASE cmdUpgrade
  BY <1>4 DEF cmdUpgrade, Move, Disks, Databases
<1>5. ASSUME NEW t \in Tabs, Refresh(t) PROVE Bystander
  BY <1>5 DEF Refresh, Server
<1>6. ASSUME NEW t \in Tabs, AppearanceCard(t) PROVE Bystander
  BY <1>6 DEF AppearanceCard, Stores, Disks, Databases
<1>7. ASSUME NEW t \in Tabs, NotifyCard(t) PROVE Bystander
  <2>1. PICK notify, check, rearm \in BOOLEAN :
          disk' = [disk EXCEPT !.db.notify = notify, !.db.check = check, !.db.today = @ /\ ~rearm]
    BY <1>7 DEF NotifyCard
  <2>2. disk'.db = [disk.db EXCEPT !.notify = notify, !.check = check, !.today = @ /\ ~rearm]
    BY <2>1 DEF Disks
  <2>3. disk'.db.schema = disk.db.schema /\ disk'.db.from = disk.db.from
    BY <2>2 DEF Disks, Databases
  <2>4. QED
    BY <1>7, <2>1, <2>3 DEF NotifyCard, Stores, Disks
<1>8. ASSUME NEW t \in Tabs, SystemBackup(t) PROVE Bystander
  BY <1>8 DEF SystemBackup, Disks, Databases
<1>9. ASSUME NEW t \in Tabs, BackupCard(t) PROVE Bystander
  BY <1>9 DEF BackupCard, Disks, Databases
<1>10. ASSUME NEW t \in Tabs, RestartService(t) PROVE Bystander
  BY <1>10 DEF RestartService, Exits, Procs, Disks, Databases
<1>11. ASSUME NEW t \in Tabs, UpgradeSection(t) PROVE Bystander
  BY <1>11 DEF UpgradeSection, Disks, Databases
<1>12. ASSUME NEW t \in Tabs, CheckNowButton(t) PROVE Bystander
  BY <1>12 DEF CheckNowButton, Server
<1>13. ASSUME NEW t \in Tabs, Load(t) PROVE Bystander
  BY <1>13 DEF Load, Server
<1>14. ASSUME NEW t \in Tabs, RunningVersion(t) PROVE Bystander
  BY <1>14 DEF RunningVersion, Server
<1>15. ASSUME NEW t \in Tabs, UpgradeStatus(t) PROVE Bystander
  BY <1>15 DEF UpgradeStatus, Server
<1>16. ASSUME NEW t \in Tabs, Back(t) PROVE Bystander
  BY <1>16 DEF Back, Server
<1>17. ASSUME NEW t \in Tabs, SystemRestore(t) PROVE Bystander
  BY <1>17 DEF SystemRestore, Exits, Procs, Disks, Databases
<1>18. QED
  BY <1>1, <1>2, <1>3, <1>4, <1>5, <1>6, <1>7, <1>8, <1>9, <1>10, <1>11, <1>12, <1>13, <1>14, <1>15, <1>16, <1>17
  DEF Digest, SettingsPage, Dashboard, AboutPage, Operate, Answer

\* The migration raises the schema, and nothing else of the database moves.
LEMMA OpenMigrates ==
  ASSUME UpkeepTypeOK, Open
  PROVE  /\ disk'.db.schema \in {disk.db.schema, Newer(disk.db.schema, proc.ver)}
         /\ proc'.pc = "up" => disk'.db.schema = Newer(disk.db.schema, proc.ver)
         /\ disk'.db.from = disk.db.from /\ disk'.bin = disk.bin
         /\ disk'.kept = disk.kept /\ disk'.pending = disk.pending
<1> USE DEF UpkeepTypeOK
<1> DEFINE newer == [disk.db EXCEPT !.schema = Newer(disk.db.schema, proc.ver)]
           migrated == [disk EXCEPT !.db = newer, !.log = Opened(disk.log)]
<1>1. disk' \in {disk, migrated} /\ (proc'.pc = "up" => disk' = migrated)
  BY DEF Open, Procs, Disks
<1>2. newer.schema = Newer(disk.db.schema, proc.ver) /\ newer.from = disk.db.from
  BY DEF Disks, Databases
<1>3. /\ migrated.db = newer /\ migrated.bin = disk.bin
      /\ migrated.kept = disk.kept /\ migrated.pending = disk.pending
  BY DEF Disks
<1>4. QED
  BY <1>1, <1>2, <1>3

\* Every step leaves the log with its database.
LEMMA UpkeepStepLog ==
  ASSUME UpkeepTypeOK, LogInv, [UpkeepNext]_upkeepVars
  PROVE  LogInv'
<1> USE UpkeepAssumption DEF UpkeepAssumption, UpkeepTypeOK, LogInv
<1>1. CASE Crash
  BY <1>1 DEF Crash, Move, Ends, Procs
<1>2. CASE Exit
  BY <1>2 DEF Exit, Ends, Serving, Procs
<1>3. CASE RestartAlways
  BY <1>3 DEF RestartAlways, Serving, Procs
<1>4. CASE KeepCurrent
  BY <1>4 DEF KeepCurrent, Boot, NoDB, Disks, Procs
<1>5. CASE ClearLog
  BY <1>5 DEF ClearLog, Boot, Disks, Procs
<1>6. CASE PlacePending
  BY <1>6 DEF PlacePending, Boot, Beside, NoDB, Databases, Disks, Procs
<1>7. CASE Open
  BY <1>7 DEF Open, Newer, Opened, Half, NoDB, Databases, Disks, Procs
<1>8. CASE main
  BY <1>8 DEF main, Undisturbed, Panel, To, Files, Scripts
<1>9. CASE backup
  BY <1>9 DEF backup, Undisturbed, Panel, To, Databases, Disks, Scripts
<1>10. CASE locate_source
  BY <1>10 DEF locate_source, Undisturbed, Panel, To, Move, Scripts
<1>11. CASE install
  BY <1>11 DEF install, Undisturbed, Panel, To, Move, Disks, Scripts
<1>12. CASE restart
  BY <1>12 DEF restart, Ends, To, Panel, Procs, Scripts
<1>13. CASE healthy
  BY <1>13 DEF healthy, health_ok, Answers, Serving, Undisturbed, Panel, To, NoDB, Databases, Disks, Files, Scripts
<1>14. CASE unhealthy
  BY <1>14 DEF unhealthy, Undisturbed, Panel, To, Scripts
<1>15. CASE rollback
  BY <1>15 DEF rollback, Undisturbed, Panel, To, Disks, Scripts
<1>16. CASE stop
  BY <1>16 DEF stop, Ends, To, Panel, Procs, Scripts
<1>17. CASE database
  BY <1>17 DEF database, Undisturbed, Panel, To, Databases, Disks, Scripts
<1>18. CASE again
  BY <1>18 DEF again, Ends, To, Panel, Move, Procs, Scripts
<1>19. CASE report
  BY <1>19 DEF report, Undisturbed, Panel, To, Files, Scripts
<1>20. CASE Digest \/ cmdUpgrade \/ \E t \in Tabs : Operate(t) \/ Answer(t)
  BY <1>20, OthersStandBy DEF Bystander, Upgrade
<1>21. CASE UNCHANGED upkeepVars
  BY <1>21 DEF upkeepVars
<1>22. QED
  BY <1>1, <1>2, <1>3, <1>4, <1>5, <1>6, <1>7, <1>8, <1>9, <1>10, <1>11, <1>12, <1>13, <1>14, <1>15, <1>16, <1>17, <1>18, <1>19, <1>20, <1>21
  DEF UpkeepNext, Process, ApplyPendingRestore, Steps

\* Every step of the script finds what the one before left.
LEMMA UpkeepStepScript ==
  ASSUME UpkeepTypeOK, ScriptInv, [UpkeepNext]_upkeepVars
  PROVE  ScriptInv'
<1> USE UpkeepAssumption DEF UpkeepAssumption, UpkeepTypeOK, ScriptInv
<1>1. CASE Crash
  BY <1>1 DEF Crash, Move, Ends, Procs
<1>2. CASE Exit
  BY <1>2 DEF Exit, Ends, Serving, Procs
<1>3. CASE RestartAlways
  BY <1>3 DEF RestartAlways, Serving, Procs
<1>4. CASE KeepCurrent
  BY <1>4 DEF KeepCurrent, Boot, NoDB, Disks, Procs
<1>5. CASE ClearLog
  BY <1>5 DEF ClearLog, Boot, Disks, Procs
<1>6. CASE PlacePending
  BY <1>6 DEF PlacePending, Boot, Beside, NoDB, Databases, Disks, Procs
<1>7. CASE Open
  BY <1>7 DEF Open, Newer, Opened, Half, NoDB, Databases, Disks, Procs
<1>8. CASE main
  BY <1>8 DEF main, Undisturbed, Panel, To, Files, Scripts
<1>9. CASE backup
  BY <1>9 DEF backup, Undisturbed, Panel, To, Databases, Disks, Scripts
<1>10. CASE locate_source
  BY <1>10 DEF locate_source, Undisturbed, Panel, To, Move, Scripts
<1>11. CASE install
  BY <1>11 DEF install, Undisturbed, Panel, To, Move, Disks, Scripts
<1>12. CASE restart
  BY <1>12 DEF restart, Ends, To, Panel, Procs, Scripts
<1>13. CASE healthy
  BY <1>13 DEF healthy, health_ok, Answers, Serving, Undisturbed, Panel, To, NoDB, Databases, Disks, Files, Scripts
<1>14. CASE unhealthy
  BY <1>14 DEF unhealthy, Undisturbed, Panel, To, Scripts
<1>15. CASE rollback
  BY <1>15 DEF rollback, Undisturbed, Panel, To, Disks, Scripts
<1>16. CASE stop
  BY <1>16 DEF stop, Ends, To, Panel, Procs, Scripts
<1>17. CASE database
  BY <1>17 DEF database, Undisturbed, Panel, To, Databases, Disks, Scripts
<1>18. CASE again
  BY <1>18 DEF again, Ends, To, Panel, Move, Procs, Scripts
<1>19. CASE report
  BY <1>19 DEF report, Undisturbed, Panel, To, Files, Scripts
<1>20. CASE Digest \/ cmdUpgrade \/ \E t \in Tabs : Operate(t) \/ Answer(t)
  BY <1>20, OthersStandBy DEF Bystander, Upgrade
<1>21. CASE UNCHANGED upkeepVars
  BY <1>21 DEF upkeepVars
<1>22. QED
  BY <1>1, <1>2, <1>3, <1>4, <1>5, <1>6, <1>7, <1>8, <1>9, <1>10, <1>11, <1>12, <1>13, <1>14, <1>15, <1>16, <1>17, <1>18, <1>19, <1>20, <1>21
  DEF UpkeepNext, Process, ApplyPendingRestore, Steps

\* A process that is up has opened a database it can read.
LEMMA UpkeepStepProc ==
  ASSUME UpkeepTypeOK, LogInv, ProcInv, [UpkeepNext]_upkeepVars
  PROVE  ProcInv'
<1> USE UpkeepAssumption DEF UpkeepAssumption, UpkeepTypeOK, LogInv, ProcInv
<1>1. CASE Crash
  BY <1>1 DEF Crash, Move, Ends, Procs
<1>2. CASE Exit
  BY <1>2 DEF Exit, Ends, Serving, Procs
<1>3. CASE RestartAlways
  BY <1>3 DEF RestartAlways, Serving, Procs
<1>4. CASE KeepCurrent
  BY <1>4 DEF KeepCurrent, Boot, NoDB, Disks, Procs
<1>5. CASE ClearLog
  BY <1>5 DEF ClearLog, Boot, Disks, Procs
<1>6. CASE PlacePending
  BY <1>6 DEF PlacePending, Boot, Beside, NoDB, Databases, Disks, Procs
<1>7. CASE Open
  <2>1. proc'.pc = "up" => proc'.ver = proc.ver /\ proc'.ver \notin broken
    BY <1>7 DEF Open, Procs
  <2>2. Newer(disk.db.schema, proc.ver) >= proc.ver
    BY DEF Newer, Procs, Disks, Databases
  <2>3. UNCHANGED broken
    BY <1>7 DEF Open
  <2>4. QED
    BY <1>7, <2>1, <2>2, <2>3, OpenMigrates
<1>8. CASE main
  BY <1>8 DEF main, Undisturbed, Panel, To, Files, Scripts
<1>9. CASE backup
  BY <1>9 DEF backup, Undisturbed, Panel, To, Databases, Disks, Scripts
<1>10. CASE locate_source
  BY <1>10 DEF locate_source, Undisturbed, Panel, To, Move, Scripts
<1>11. CASE install
  BY <1>11 DEF install, Undisturbed, Panel, To, Move, Disks, Scripts
<1>12. CASE restart
  BY <1>12 DEF restart, Ends, To, Panel, Procs, Scripts
<1>13. CASE healthy
  BY <1>13 DEF healthy, health_ok, Answers, Serving, Undisturbed, Panel, To, NoDB, Databases, Disks, Files, Scripts
<1>14. CASE unhealthy
  BY <1>14 DEF unhealthy, Undisturbed, Panel, To, Scripts
<1>15. CASE rollback
  BY <1>15 DEF rollback, Undisturbed, Panel, To, Disks, Scripts
<1>16. CASE stop
  BY <1>16 DEF stop, Ends, To, Panel, Procs, Scripts
<1>17. CASE database
  BY <1>17 DEF database, Undisturbed, Panel, To, Databases, Disks, Scripts
<1>18. CASE again
  BY <1>18 DEF again, Ends, To, Panel, Move, Procs, Scripts
<1>19. CASE report
  BY <1>19 DEF report, Undisturbed, Panel, To, Files, Scripts
<1>20. CASE Digest \/ cmdUpgrade \/ \E t \in Tabs : Operate(t) \/ Answer(t)
  <2>1. Staged.schema = Staged.from /\ Half.schema = Torn /\ NoDB.schema = Absent
    BY DEF Staged, Half, NoDB, Databases
  <2>2. disk'.pending.schema \in {disk'.pending.from, Absent, Torn}
    BY <1>20, <2>1, OthersStandBy DEF Bystander
  <2>3. QED
    BY <1>20, <2>2, OthersStandBy DEF Bystander
<1>21. CASE UNCHANGED upkeepVars
  BY <1>21 DEF upkeepVars
<1>22. QED
  BY <1>1, <1>2, <1>3, <1>4, <1>5, <1>6, <1>7, <1>8, <1>9, <1>10, <1>11, <1>12, <1>13, <1>14, <1>15, <1>16, <1>17, <1>18, <1>19, <1>20, <1>21
  DEF UpkeepNext, Process, ApplyPendingRestore, Steps

\* The outcome stays what it was until the next upgrade.
LEMMA UpkeepStepOutcome ==
  ASSUME UpkeepTypeOK, LogInv, ScriptInv, ProcInv, OutcomeInv, [UpkeepNext]_upkeepVars
  PROVE  OutcomeInv'
<1> USE UpkeepAssumption DEF UpkeepAssumption, UpkeepTypeOK, LogInv, ScriptInv, ProcInv, OutcomeInv, Restored, Reports
<1>1. CASE Crash
  BY <1>1 DEF Crash, Move, Ends, Procs
<1>2. CASE Exit
  BY <1>2 DEF Exit, Ends, Serving, Procs
<1>3. CASE RestartAlways
  BY <1>3 DEF RestartAlways, Serving, Procs
<1>4. CASE KeepCurrent
  BY <1>4 DEF KeepCurrent, Boot, NoDB, Disks, Procs
<1>5. CASE ClearLog
  BY <1>5 DEF ClearLog, Boot, Disks, Procs
<1>6. CASE PlacePending
  <2>1. disk'.db = disk.pending /\ disk'.bin = disk.bin /\ disk'.kept = disk.kept
    BY <1>6 DEF PlacePending, Disks
  <2>2. proc'.ver = proc.ver /\ UNCHANGED <<script, file, broken>>
    BY <1>6 DEF PlacePending, Boot, Procs
  <2>3. disk.pending.schema \in {disk.pending.from, Absent, Torn} /\ Absent =< disk.bin /\ Torn =< disk.bin
    BY DEF Absent, Torn, Disks
  <2>4. QED
    BY <1>6, <2>1, <2>2, <2>3 DEF PlacePending, Boot, Procs
<1>7. CASE Open
  <2>1. proc'.ver = proc.ver /\ UNCHANGED <<script, file, broken>>
    BY <1>7 DEF Open, Procs
  <2>2. Newer(disk.db.schema, proc.ver) \in {disk.db.schema, proc.ver}
    BY DEF Newer
  <2>3. QED
    BY <1>7, <2>1, <2>2, OpenMigrates DEF Open, Procs, Disks, Databases
<1>8. CASE main
  BY <1>8 DEF main, Undisturbed, Panel, To, Files, Scripts
<1>9. CASE backup
  BY <1>9 DEF backup, Undisturbed, Panel, To, Databases, Disks, Scripts
<1>10. CASE locate_source
  BY <1>10 DEF locate_source, Undisturbed, Panel, To, Move, Scripts
<1>11. CASE install
  BY <1>11 DEF install, Undisturbed, Panel, To, Move, Disks, Scripts
<1>12. CASE restart
  BY <1>12 DEF restart, Ends, To, Panel, Procs, Scripts
<1>13. CASE healthy
  BY <1>13 DEF healthy, health_ok, Answers, Serving, Undisturbed, Panel, To, NoDB, Databases, Disks, Files, Scripts
<1>14. CASE unhealthy
  BY <1>14 DEF unhealthy, Undisturbed, Panel, To, Scripts
<1>15. CASE rollback
  BY <1>15 DEF rollback, Undisturbed, Panel, To, Disks, Scripts
<1>16. CASE stop
  BY <1>16 DEF stop, Ends, To, Panel, Procs, Scripts
<1>17. CASE database
  BY <1>17 DEF database, Undisturbed, Panel, To, Databases, Disks, Scripts
<1>18. CASE again
  BY <1>18 DEF again, Ends, To, Panel, Move, Procs, Scripts
<1>19. CASE report
  BY <1>19 DEF report, Undisturbed, Panel, To, Files, Scripts
<1>20. CASE Digest \/ cmdUpgrade \/ \E t \in Tabs : Operate(t) \/ Answer(t)
  BY <1>20, OthersStandBy DEF Bystander, Upgrade
<1>21. CASE UNCHANGED upkeepVars
  BY <1>21 DEF upkeepVars
<1>22. QED
  BY <1>1, <1>2, <1>3, <1>4, <1>5, <1>6, <1>7, <1>8, <1>9, <1>10, <1>11, <1>12, <1>13, <1>14, <1>15, <1>16, <1>17, <1>18, <1>19, <1>20, <1>21
  DEF UpkeepNext, Process, ApplyPendingRestore, Steps

-----------------------------------------------------------------------------
UpkeepInv == UpkeepTypeOK /\ Counted /\ LogInv /\ ScriptInv /\ ProcInv /\ OutcomeInv

LEMMA UpkeepStarts == UpkeepInit => UpkeepInv
<1> SUFFICES ASSUME UpkeepInit PROVE UpkeepInv
  OBVIOUS
<1> USE UpkeepAssumption DEF UpkeepAssumption, UpkeepInit
<1>1. Saved \in Databases /\ NoDB \in Databases
  BY EmptyFits DEF Saved, Databases, Absent
<1>2. UpkeepTypeOK
  BY <1>1 DEF UpkeepTypeOK, Procs, Disks, Scripts, Stages, Files, Shows, Fresh, Absent
<1>3. LogInv /\ ScriptInv
  BY DEF LogInv, ScriptInv
<1>4. ProcInv
  BY DEF ProcInv, Saved, NoDB, Absent
<1>5. OutcomeInv
  BY DEF OutcomeInv, Restored, Reports
<1>6. got \in BOOLEAN /\ moves \in 0..MaxMoves
  <2>1. got = FALSE /\ moves = 0
    OBVIOUS
  <2>2. 0 \in 0..MaxMoves
    OBVIOUS
  <2>3. QED
    BY <2>1, <2>2, Zenon
<1>7. QED
  BY <1>2, <1>3, <1>4, <1>5, <1>6 DEF UpkeepInv, Counted

\* The panel is never in a state outside these types, the log is with its
\* database, the script finds what it left, and an outcome stays true.
THEOREM UpkeepIsSafe == UpkeepSpec => []UpkeepInv
<1>1. UpkeepInv /\ [UpkeepNext]_upkeepVars => UpkeepInv'
  BY UpkeepStepTypes, UpkeepStepCounts, UpkeepStepLog, UpkeepStepScript, UpkeepStepProc, UpkeepStepOutcome
  DEF UpkeepInv
<1>2. QED
  BY UpkeepStarts, <1>1, PTL DEF UpkeepSpec

\* No log is ever replayed into a database that it does not belong to,
\* whatever dies at whichever step of a restore or a rollback
\* (ApplyPendingRestore; upgrade.sh rollback).
THEOREM LogsAreOwn == UpkeepSpec => []OwnLog
<1>1. UpkeepInv => OwnLog
  BY DEF UpkeepInv, LogInv, OwnLog
<1>2. QED
  BY UpkeepIsSafe, <1>1, PTL

\* What the script reported of an upgrade is so until the next one: after a
\* success the released version runs, after a rollback the one from before does,
\* on a database that no newer version has migrated (upgrade.sh; UpgradeStatus).
THEOREM TruthIsTold == UpkeepSpec => []TellsTheTruth
<1>1. ASSUME UpkeepInv PROVE TellsTheTruth
  <2> USE <1>1 DEF UpkeepInv, OutcomeInv, Restored, Reports
  <2>1. disk.bin \in Nat /\ disk.db.schema \in Int /\ proc.ver \in Nat
    BY DEF UpkeepTypeOK, Disks, Databases, Procs
  <2>2. ASSUME script.pc = "idle", file.state = "rolledback", disk.kept # NoDB, Serving
        PROVE  disk.db.schema \in {proc.ver, disk.db.from, disk.kept.schema}
    BY <2>1, <2>2 DEF ProcInv, Serving
  <2>3. QED
    BY <2>2 DEF TellsTheTruth, Serving
<1>2. QED
  BY UpkeepIsSafe, <1>1, PTL
===============================================================================
