------------------------- MODULE EscrowHistoryProofs -------------------------
(***************************************************************************)
(* That an indexer's history agrees with the accounts, and what a gap in   *)
(* it can and cannot do, for any number of agreements, transactions,       *)
(* milestones and proofs.                                                  *)
(***************************************************************************)
EXTENDS EscrowSeals, PpvEscrowSchedule, WellFoundedInduction

(* Induction, in the form the proofs use: a set of numbers has a least. *)
LEMMA NatMin ==
    ASSUME NEW T \in SUBSET Nat, T # {}
    PROVE  \E x \in T : \A y \in T : x <= y
  <1> DEFINE R == OpToRel(<, Nat)
  <1>1. IsWellFoundedOn(R, Nat)
    BY NatLessThanWellFounded
  <1>2. PICK x \in T : \A y \in T : ~(<<y, x>> \in R)
    <2> HIDE DEF R
    <2> QED
      BY <1>1, WFMin
  <1>3. \A y \in T : ~(y < x)
    BY <1>2 DEF OpToRel
  <1> QED
    BY <1>3

\* A set of numbers with a bound has a greatest.
LEMMA BoundedMax ==
    ASSUME NEW S \in SUBSET Nat, S # {}, NEW n \in Nat, \A x \in S : x <= n
    PROVE  Max(S) \in S /\ \A y \in S : y <= Max(S)
  <1> DEFINE T == {n - x : x \in S}
  <1>1. T \in SUBSET Nat /\ T # {}
    <2>1. \A x \in S : n - x \in Nat
      OBVIOUS
    <2> QED
      BY <2>1
  <1>2. PICK t \in T : \A u \in T : t <= u
    <2> HIDE DEF T
    <2> QED
      BY <1>1, NatMin
  <1>3. PICK x \in S : t = n - x
    OBVIOUS
  <1>4. \A y \in S : x >= y
    <2> TAKE y \in S
    <2>1. n - y \in T
      OBVIOUS
    <2>2. n - x <= n - y
      BY <1>2, <1>3, <2>1
    <2> QED
      BY <2>2
  <1>5. \E z \in S : \A y \in S : z >= y
    BY <1>4
  <1>6. Max(S) \in S /\ \A y \in S : Max(S) >= y
    BY <1>5 DEF Max
  <1> QED
    BY <1>6
-----------------------------------------------------------------------------
(* The sum of what a set of receipts says. *)
Worth(S) == Total(S, [r \in S |-> r.amount])

LEMMA WorthEmpty == Worth({}) = 0
  BY TotalEmpty DEF Worth

LEMMA WorthNat ==
    ASSUME NEW S, IsFiniteSet(S), \A r \in S : r.amount \in Nat
    PROVE  Worth(S) \in Nat
  BY TokensFinite DEF Worth

LEMMA WorthAdd ==
    ASSUME NEW S, IsFiniteSet(S), \A r \in S : r.amount \in Nat,
           NEW x, x \notin S, x.amount \in Nat
    PROVE  Worth(S \cup {x}) = Worth(S) + x.amount
  <1> DEFINE f == [r \in S \cup {x} |-> r.amount]
             g == [r \in S |-> r.amount]
  <1>1. /\ \A r \in S : f[r] = r.amount /\ g[r] = r.amount /\ f[r] \in Nat
        /\ f[x] = x.amount
    OBVIOUS
  <1> HIDE DEF f, g
  <1>2. Total(S \cup {x}, f) = Total(S, f) + x.amount
    BY <1>1, TotalAdd
  <1>3. Total(S, f) = Total(S, g)
    BY <1>1, TotalSame
  <1> QED
    BY <1>2, <1>3 DEF Worth, f, g

LEMMA WorthRemove ==
    ASSUME NEW S, IsFiniteSet(S), \A r \in S : r.amount \in Nat, NEW x \in S
    PROVE  Worth(S) = Worth(S \ {x}) + x.amount
  <1>1. IsFiniteSet(S \ {x}) /\ (S \ {x}) \cup {x} = S
    BY FS_RemoveElement
  <1> DEFINE T == S \ {x}
  <1>2. IsFiniteSet(T) /\ (\A r \in T : r.amount \in Nat) /\ x \notin T /\ T \cup {x} = S
    BY <1>1
  <1> HIDE DEF T
  <1>3. Worth(T \cup {x}) = Worth(T) + x.amount
    BY <1>2, WorthAdd
  <1> QED
    BY <1>2, <1>3 DEF T

LEMMA WorthSubset ==
    ASSUME NEW S, IsFiniteSet(S), \A r \in S : r.amount \in Nat, NEW T \in SUBSET S
    PROVE  Worth(T) <= Worth(S)
  <1> DEFINE f == [r \in S |-> r.amount]
             g == [r \in T |-> r.amount]
  <1>1. (\A r \in S : f[r] \in Nat) /\ \A r \in T : f[r] = g[r]
    OBVIOUS
  <1> HIDE DEF f, g
  <1>2. Total(T, f) <= Total(S, f) /\ Total(T, f) = Total(T, g)
    BY <1>1, TotalSubset, TotalSame
  <1> QED
    BY <1>2 DEF Worth, f, g

LEMMA WorthPositive ==
    ASSUME NEW S, IsFiniteSet(S), \A r \in S : r.amount \in Nat,
           NEW x \in S, x.amount > 0
    PROVE  Worth(S) > 0
  <1>1. Worth(S) = Worth(S \ {x}) + x.amount
    BY WorthRemove
  <1>2. Worth(S \ {x}) \in Nat
    BY FS_RemoveElement, WorthNat
  <1> QED
    BY <1>1, <1>2

\* The fold by which Paid adds up comes to the same, in whatever order it goes.
LEMMA FoldIsWorth ==
    ASSUME NEW S, IsFiniteSet(S), \A r \in S : r.amount \in Nat
    PROVE  MapThenSumSet(LAMBDA r : r.amount, S) = Worth(S)
  <1> DEFINE Pick(s) == CHOOSE x \in s : TRUE
             Folds(f) == f = [s \in SUBSET S |->
                                IF s = {} THEN 0 ELSE Pick(s).amount + f[s \ {Pick(s)}]]
             sums == [s \in SUBSET S |-> Worth(s)]
             iter == CHOOSE f : Folds(f)
  <1>1. MapThenSumSet(LAMBDA r : r.amount, S) = iter[S]
    BY DEF MapThenSumSet, MapThenFoldSet
  <1>2. \A s \in SUBSET S :
            /\ IsFiniteSet(s) /\ Cardinality(s) \in Nat
            /\ s # {} => /\ Pick(s) \in s /\ s \ {Pick(s)} \in SUBSET S
                         /\ Cardinality(s \ {Pick(s)}) = Cardinality(s) - 1
                         /\ Worth(s) = Pick(s).amount + Worth(s \ {Pick(s)})
    <2> TAKE s \in SUBSET S
    <2>1. IsFiniteSet(s) /\ \A r \in s : r.amount \in Nat
      BY FS_Subset
    <2>2. ASSUME s # {}
          PROVE  /\ Pick(s) \in s /\ s \ {Pick(s)} \in SUBSET S
                 /\ Cardinality(s \ {Pick(s)}) = Cardinality(s) - 1
                 /\ Worth(s) = Pick(s).amount + Worth(s \ {Pick(s)})
      <3>1. Pick(s) \in s
        BY <2>2
      <3> HIDE DEF Pick
      <3>2. Worth(s) = Worth(s \ {Pick(s)}) + Pick(s).amount
        BY <2>1, <3>1, WorthRemove
      <3>3. IsFiniteSet(s \ {Pick(s)}) /\ Cardinality(s \ {Pick(s)}) = Cardinality(s) - 1
        BY <2>1, <3>1, FS_RemoveElement
      <3>4. Worth(s \ {Pick(s)}) \in Nat /\ Pick(s).amount \in Nat
        BY <2>1, <3>1, <3>3, WorthNat
      <3> QED
        BY <3>1, <3>2, <3>3, <3>4
    <2> QED
      BY <2>1, <2>2, FS_CardinalityType
  <1>3. Folds(iter)
    <2>1. Folds(sums)
      <3>1. \A s \in SUBSET S :
                sums[s] = IF s = {} THEN 0 ELSE Pick(s).amount + sums[s \ {Pick(s)}]
        <4> HIDE DEF Pick
        <4> QED
          BY <1>2, WorthEmpty
      <3> HIDE DEF Pick
      <3> QED
        BY <3>1
    <2> HIDE DEF Folds, sums
    <2> QED
      BY <2>1
  <1> HIDE DEF Pick, iter
  <1>4. \A s \in SUBSET S :
            iter[s] = IF s = {} THEN 0 ELSE Pick(s).amount + iter[s \ {Pick(s)}]
    BY <1>3
  <1> DEFINE bad == {n \in Nat : \E s \in SUBSET S : Cardinality(s) = n /\ iter[s] # Worth(s)}
  <1>5. bad = {}
    <2> SUFFICES ASSUME bad # {} PROVE FALSE
      OBVIOUS
    <2>1. PICK n \in bad : \A m \in bad : n <= m
      <3>1. bad \in SUBSET Nat
        OBVIOUS
      <3> HIDE DEF bad
      <3> QED
        BY <3>1, NatMin
    <2>2. PICK s \in SUBSET S : Cardinality(s) = n /\ iter[s] # Worth(s)
      OBVIOUS
    <2>3. s # {}
      BY <1>4, <2>2, WorthEmpty
    <2>4. s \ {Pick(s)} \in SUBSET S /\ Cardinality(s \ {Pick(s)}) = n - 1
      BY <1>2, <2>2, <2>3
    <2>5. n - 1 \in Nat /\ n - 1 \notin bad
      <3>1. n - 1 \in Nat /\ n \in Nat
        BY <1>2, <2>4
      <3> QED
        BY <2>1, <3>1
    <2>6. iter[s \ {Pick(s)}] = Worth(s \ {Pick(s)})
      BY <2>4, <2>5
    <2> QED
      BY <1>2, <1>4, <2>2, <2>3, <2>6
  <1>6. iter[S] = Worth(S)
    BY <1>2, <1>5
  <1> QED
    BY <1>1, <1>6

LEMMA PaidIsWorth ==
    ASSUME NEW R, IsFiniteSet(R), \A r \in R : r.amount \in Nat, NEW name
    PROVE  /\ Paid(R, name) = Worth(Named(R, {name}))
           /\ Worth(Named(R, {name})) \in Nat
  <1>1. Named(R, {name}) \subseteq R
    BY DEF Named
  <1>2. IsFiniteSet(Named(R, {name})) /\ \A r \in Named(R, {name}) : r.amount \in Nat
    BY <1>1, FS_Subset
  <1> QED
    BY <1>2, FoldIsWorth, WorthNat DEF Paid
-----------------------------------------------------------------------------
(* The walk along the transitions. *)
Beginning(T) == <<CHOOSE r \in Roots(T) : TRUE>>
Onward(T, path) == {r \in T : r.before = path[Len(path)].after}
Longer(T, path) ==
    IF Onward(T, path) = {} THEN path
    ELSE Append(path, CHOOSE r \in Onward(T, path) : TRUE)

\* The recursion has a solution of every length, so its equation holds of the walk.
LEMMA WalkUnrolls ==
    ASSUME NEW T, IsFiniteSet(T)
    PROVE  \E walk :
                /\ Walk(T) = walk[Cardinality(T)]
                /\ walk[0] = Beginning(T)
                /\ \A n \in 1 .. Cardinality(T) : walk[n] = Longer(T, walk[n - 1])
  <1> DEFINE Solves(f, m) == f = [n \in 0 .. m |-> IF n = 0 THEN Beginning(T)
                                                   ELSE Longer(T, f[n - 1])]
             c == Cardinality(T)
             walk == CHOOSE f : Solves(f, c)
  <1>1. c \in Nat
    BY FS_CardinalityType
  <1>2. Walk(T) = walk[c]
    BY DEF Walk, Longer, Onward, Beginning
  <1>3. ASSUME NEW m \in Nat, NEW f, Solves(f, m)
        PROVE  /\ f[0] = Beginning(T)
               /\ \A n \in 1 .. m : f[n] = Longer(T, f[n - 1])
    BY <1>3
  <1>4. ASSUME NEW m \in Nat, NEW f, Solves(f, m) PROVE \E g : Solves(g, m + 1)
    <2> DEFINE g == [n \in 0 .. m + 1 |-> IF n = m + 1 THEN Longer(T, f[m]) ELSE f[n]]
    <2>1. /\ g[0] = Beginning(T)
          /\ \A n \in 1 .. m + 1 : g[n] = Longer(T, g[n - 1])
      <3>1. g[0] = Beginning(T)
        BY <1>3, <1>4
      <3>2. ASSUME NEW n \in 1 .. m PROVE g[n] = Longer(T, g[n - 1])
        <4>1. g[n] = f[n] /\ g[n - 1] = f[n - 1]
          OBVIOUS
        <4>2. f[n] = Longer(T, f[n - 1])
          BY <1>3, <1>4
        <4> QED
          BY <4>1, <4>2
      <3>3. g[m + 1] = Longer(T, g[m])
        OBVIOUS
      <3> HIDE DEF g
      <3>4. \A n \in 1 .. m + 1 : n \in 1 .. m \/ (n = m + 1 /\ n - 1 = m)
        OBVIOUS
      <3> QED
        BY <3>1, <3>2, <3>3, <3>4
    <2>2. g = [n \in 0 .. m + 1 |-> g[n]]
      OBVIOUS
    <2> HIDE DEF g
    <2>3. \A n \in 0 .. m + 1 : g[n] = IF n = 0 THEN Beginning(T) ELSE Longer(T, g[n - 1])
      BY <2>1
    <2>4. Solves(g, m + 1)
      BY <2>2, <2>3
    <2> QED
      BY <2>4
  <1>5. \E f : Solves(f, 0)
    <2> DEFINE f == [n \in 0 .. 0 |-> Beginning(T)]
    <2>1. Solves(f, 0)
      OBVIOUS
    <2> QED
      BY <2>1
  <1> HIDE DEF Solves
  <1> DEFINE bad == {m \in Nat : ~\E f : Solves(f, m)}
  <1>6. bad = {}
    <2> SUFFICES ASSUME bad # {} PROVE FALSE
      OBVIOUS
    <2>1. PICK n \in bad : \A m \in bad : n <= m
      <3>1. bad \in SUBSET Nat
        OBVIOUS
      <3> HIDE DEF bad
      <3> QED
        BY <3>1, NatMin
    <2>2. n # 0
      BY <1>5
    <2>3. n - 1 \in Nat /\ n - 1 \notin bad /\ (n - 1) + 1 = n
      BY <2>1, <2>2
    <2>4. \E f : Solves(f, n - 1)
      BY <2>3
    <2> QED
      BY <1>4, <2>3, <2>4
  <1>7. Solves(walk, c)
    BY <1>1, <1>6
  <1> HIDE DEF walk
  <1> QED
    BY <1>1, <1>2, <1>3, <1>7

\* Whatever the transitions, the walk stays among them.
LEMMA WalkWithin ==
    ASSUME NEW T, IsFiniteSet(T), Roots(T) # {}
    PROVE  Walk(T) \in Seq(T) /\ Len(Walk(T)) > 0
  <1> DEFINE c == Cardinality(T)
             Within(p) == p \in Seq(T) /\ Len(p) > 0
  <1>1. c \in Nat
    BY FS_CardinalityType
  <1>2. PICK walk : /\ Walk(T) = walk[c]
                    /\ walk[0] = Beginning(T)
                    /\ \A n \in 1 .. c : walk[n] = Longer(T, walk[n - 1])
    BY WalkUnrolls
  <1>3. Within(Beginning(T))
    <2>1. (CHOOSE r \in Roots(T) : TRUE) \in T
      BY DEF Roots
    <2> QED
      BY <2>1 DEF Beginning
  <1>4. ASSUME NEW p, Within(p) PROVE Within(Longer(T, p))
    <2>1. CASE Onward(T, p) = {}
      BY <1>4, <2>1 DEF Longer
    <2>2. CASE Onward(T, p) # {}
      <3>1. (CHOOSE r \in Onward(T, p) : TRUE) \in T
        BY <2>2 DEF Onward
      <3> QED
        BY <1>4, <2>2, <3>1 DEF Longer
    <2> QED
      BY <2>1, <2>2
  <1> DEFINE bad == {n \in 0 .. c : ~Within(walk[n])}
  <1>5. bad = {}
    <2> HIDE DEF Within
    <2> SUFFICES ASSUME bad # {} PROVE FALSE
      OBVIOUS
    <2>1. PICK n \in bad : \A m \in bad : n <= m
      <3>1. bad \in SUBSET Nat
        BY <1>1
      <3> HIDE DEF bad
      <3> QED
        BY <3>1, NatMin
    <2>2. n # 0
      BY <1>2, <1>3
    <2>3. n \in 1 .. c /\ n - 1 \in 0 .. c /\ n - 1 \notin bad
      BY <1>1, <2>1, <2>2
    <2> QED
      BY <1>2, <1>4, <2>3
  <1> QED
    BY <1>1, <1>2, <1>5

\* Transitions that make one path from a creation to a state nothing leaves are walked
\* along it from end to end.
LEMMA WalkIsPath ==
    ASSUME NEW T, NEW p \in Seq(T), Len(p) > 0,
           T = {p[k] : k \in DOMAIN p},
           p[1].before = "Absent",
           \A k \in 1 .. Len(p) - 1 : p[k + 1].before = p[k].after,
           \A j, k \in DOMAIN p : j # k => p[j].before # p[k].before,
           \A k \in DOMAIN p : p[k].before # p[Len(p)].after
    PROVE  /\ IsFiniteSet(T) /\ Cardinality(T) = Len(p)
           /\ Roots(T) = {p[1]}
           /\ Walk(T) = p
  <1> DEFINE c == Len(p)
             L == 1 .. c
  <1>1. c \in Nat /\ c > 0 /\ DOMAIN p = L /\ \A k \in L : p[k] \in T
    OBVIOUS
  <1>2. IsFiniteSet(T) /\ Cardinality(T) = c
    <2>1. p \in Bijection(L, T)
      <3>1. p \in [L -> T]
        OBVIOUS
      <3>2. \A j, k \in L : p[j] = p[k] => j = k
        BY <1>1
      <3>3. \A t \in T : \E k \in L : p[k] = t
        BY <1>1
      <3> HIDE DEF L
      <3> QED
        BY <1>1, <3>1, <3>2, <3>3 DEF Bijection, Injection, Surjection, IsInjective
    <2>2. ExistsBijection(L, T)
      BY <2>1 DEF ExistsBijection
    <2>3. IsFiniteSet(L) /\ Cardinality(L) = c
      BY <1>1, FS_Interval
    <2> HIDE DEF L
    <2> QED
      BY <2>2, <2>3, FS_Bijection
  <1>3. Roots(T) = {p[1]}
    BY <1>1 DEF Roots
  <1>4. PICK walk : /\ Walk(T) = walk[c]
                    /\ walk[0] = Beginning(T)
                    /\ \A n \in 1 .. c : walk[n] = Longer(T, walk[n - 1])
    BY <1>2, WalkUnrolls
  <1> DEFINE Along(n) == /\ walk[n] \in Seq(T) /\ Len(walk[n]) = n + 1
                         /\ \A k \in 1 .. n + 1 : walk[n][k] = p[k]
             bad == {n \in 0 .. c - 1 : ~Along(n)}
  <1>5. Along(0)
    <2>1. Beginning(T) = <<p[1]>>
      BY <1>3 DEF Beginning
    <2>2. p[1] \in T
      BY <1>1
    <2> QED
      BY <1>4, <2>1, <2>2
  <1>6. ASSUME NEW n \in 1 .. c - 1, Along(n - 1) PROVE Along(n)
    <2> DEFINE w == walk[n - 1]
    <2>1. /\ w \in Seq(T) /\ Len(w) = n /\ w[n] = p[n]
          /\ \A k \in 1 .. n : w[k] = p[k]
      <3>1. (n - 1) + 1 = n /\ n \in 1 .. n
        OBVIOUS
      <3> QED
        BY <1>6, <3>1
    <2>2. p[n + 1] \in T /\ p[n + 1].before = p[n].after /\ n + 1 \in L /\ n \in L
      BY <1>1
    <2>3. Onward(T, w) = {p[n + 1]}
      <3>1. \A r \in T : r.before = p[n + 1].before => r = p[n + 1]
        BY <1>1, <2>2
      <3> HIDE DEF w
      <3> QED
        BY <2>1, <2>2, <3>1 DEF Onward
    <2>4. walk[n] = Append(w, p[n + 1])
      <3>1. walk[n] = Longer(T, w)
        BY <1>4
      <3> HIDE DEF w
      <3> QED
        BY <2>3, <3>1 DEF Longer
    <2> HIDE DEF w
    <2> QED
      BY <2>1, <2>2, <2>4
  <1>7. bad = {}
    <2> HIDE DEF Along
    <2> SUFFICES ASSUME bad # {} PROVE FALSE
      OBVIOUS
    <2>1. PICK n \in bad : \A m \in bad : n <= m
      <3>1. bad \in SUBSET Nat
        BY <1>1
      <3> HIDE DEF bad
      <3> QED
        BY <3>1, NatMin
    <2>2. n # 0
      BY <1>5
    <2>3. n \in 1 .. c - 1 /\ n - 1 \in 0 .. c - 1 /\ n - 1 \notin bad
      BY <1>1, <2>1, <2>2
    <2> QED
      BY <1>6, <2>3
  <1>8. walk[c - 1] = p
    <2>1. Along(c - 1)
      <3>1. c - 1 \in 0 .. c - 1
        BY <1>1
      <3> HIDE DEF Along
      <3> QED
        BY <1>7, <3>1
    <2> DEFINE q == walk[c - 1]
    <2>2. q \in Seq(T) /\ Len(q) = c /\ \A k \in 1 .. c : q[k] = p[k]
      BY <1>1, <2>1
    <2> HIDE DEF q
    <2>3. q = [k \in 1 .. c |-> q[k]] /\ p = [k \in 1 .. c |-> p[k]]
      BY <2>2
    <2>4. [k \in 1 .. c |-> q[k]] = [k \in 1 .. c |-> p[k]]
      BY <2>2
    <2>5. q = p
      BY <2>3, <2>4
    <2> QED
      BY <2>5 DEF q
  <1>9. walk[c] = p
    <2>1. Onward(T, p) = {}
      BY <1>1 DEF Onward
    <2>2. walk[c] = Longer(T, walk[c - 1])
      BY <1>1, <1>4
    <2> QED
      BY <1>8, <2>1, <2>2 DEF Longer
  <1> QED
    BY <1>2, <1>3, <1>4, <1>9
-----------------------------------------------------------------------------
(* The invariant: what the receipts of one agreement say about its accounts. *)
All(a) == ReceiptsOf(a, DOMAIN committed)

EventNames == DOMAIN EventType \cup {"CounterpartyAssigned"}
States == AgreementState \cup {"Absent"}
EventRecords ==
    [name : EventNames, agreement : Agreements, before : States, after : States,
     seller : Owners, amount : Nat, index : Nat, proof : Citations]
ReceiptRecords ==
    [name : EventNames, agreement : Agreements, before : States, after : States,
     seller : Owners, amount : Nat, index : Nat, proof : Citations,
     slot : Nat, id : 1 .. 3, inner : 1 .. 3]
TransactionRecords == [slot : Nat, id : 1 .. 3, receipts : SUBSET ReceiptRecords]

\* Slots never run backwards, two transactions of one slot have different ids, and the
\* first of a slot has the id in the middle, so that the second can fall on either side.
Chain ==
    /\ committed \in Seq(TransactionRecords)
    /\ \A k \in DOMAIN committed :
            /\ \A r \in committed[k].receipts :
                    r.slot = committed[k].slot /\ r.id = committed[k].id
            /\ k = 1 \/ committed[k - 1].slot < committed[k].slot => committed[k].id = 2
    /\ \A j, k \in DOMAIN committed :
            j < k => /\ committed[j].slot <= committed[k].slot
                     /\ committed[j].slot = committed[k].slot => committed[j].id # committed[k].id

\* An agreement only ever moves to a state of a higher rank.
StateRank ==
    [Absent |-> 0, Open |-> 1, Funded |-> 2, Completed |-> 3, Disputed |-> 4,
     Settled |-> 5, Cancelled |-> 5, Refunded |-> 5]

\* Recorded while path[k] was the last transition, or in the slot of the next one.
RecordedAfter(r, path, k) ==
    /\ path[k].after = r.after
    /\ path[k].slot <= r.slot
    /\ k < Len(path) =>
            /\ r.slot <= path[k + 1].slot
            /\ r.slot = path[k + 1].slot => r.id # path[k + 1].id

\* The transitions make one path, from creation to the state of the account.
IsPathOf(a, path) ==
    /\ Transitions(All(a)) = {path[k] : k \in DOMAIN path}
    /\ Len(path) = 0 <=> State(a) = "Absent"
    /\ Len(path) > 0 => path[1].before = "Absent" /\ path[Len(path)].after = State(a)
    /\ \A k \in 1 .. Len(path) - 1 : path[k + 1].before = path[k].after
    /\ \A k \in DOMAIN path : StateRank[path[k].before] < StateRank[path[k].after]
    /\ \A j, k \in DOMAIN path :
            j < k => /\ StateRank[path[j].after] <= StateRank[path[k].before]
                     /\ path[j].slot <= path[k].slot
    /\ \A r \in Annotations(All(a)) : \E k \in DOMAIN path : RecordedAfter(r, path, k)
PathTold(a) == \E path \in Seq(All(a)) : IsPathOf(a, path)

\* Which event moves the agreement to each state, and which events always do.
MoveName ==
    [Open |-> "AgreementOpened", Funded |-> "AgreementFunded", Completed |-> "WorkCompleted",
     Disputed |-> "DisputeOpened", Settled |-> "SettlementExecuted",
     Cancelled |-> "AgreementAbandoned", Refunded |-> "RefundExecuted"]
AlwaysMove ==
    {"AgreementOpened", "AgreementFunded", "WorkCompleted", "DisputeOpened", "AgreementAbandoned",
     "RefundExecuted"}
FundedStates == LiveStates \cup {"Settled", "Refunded"}
MovesTold(a) ==
    /\ \A r \in All(a) :
            /\ IsTransition(r) => r.after # "Absent" /\ r.name = MoveName[r.after]
            /\ r.name \in AlwaysMove => IsTransition(r)
            /\ r.name = "AgreementFunded" => r.amount = agreement[a].amount
    /\ (\E r \in All(a) : r.name = "AgreementFunded") <=> State(a) \in FundedStates
    /\ agreement[a].milestoneCount > 0 => IsMilestoneContract(a)
    /\ IsMilestoneContract(a) /\ State(a) \in FundedStates =>
            agreement[a].milestoneTotal = agreement[a].amount

Settlements(a) == Named(All(a), {"SettlementExecuted"})
Refunds(a) == Named(All(a), {"RefundExecuted"})
MoneyTold(a) ==
    /\ Worth(Settlements(a)) + Worth(Refunds(a)) = agreement[a].settledTotal
    /\ \A r \in Settlements(a) \cup Refunds(a) : r.amount > 0
    /\ Settlements(a) \cup Refunds(a) # {} => State(a) \in FundedStates
    /\ Settlements(a) # {} =>
            State(a) = "Settled" \/ \E i \in MilestoneSlots : milestone[a][i].state = "Settled"
    /\ \A r \in Settlements(a) :
            r.proof # Default => \E q \in Named(All(a), {"ProofApproved"}) : q.proof = r.proof

PayeeTold(a) ==
    LET named == Named(All(a), {"CounterpartyAssigned"})
    IN  /\ \A r, q \in named : r = q
        /\ \A r \in named : r.seller = agreement[a].counterparty /\ HasCounterparty(a)
        /\ named = {} => \A r \in Roots(All(a)) : r.seller = agreement[a].counterparty

ProofsTold(a) ==
    /\ Indices(Named(All(a), {"ProofSubmitted"})) = 0 .. agreement[a].proofCount - 1
    /\ \A i \in ProofSlots :
            /\ Of(Named(All(a), {"ProofApproved"}), i) # {} <=> proof[a][i].status = "Approved"
            /\ Of(Named(All(a), {"ProofRejected"}), i) # {} <=> proof[a][i].status = "Rejected"
    /\ \A r \in Named(All(a), Decisions) : r.index \in ProofSlots /\ r.proof = <<a, r.index>>
    /\ \A r, q \in Named(All(a), Decisions) : r.index = q.index => r = q

\* The state each step of a tranche leaves it in.
StepState ==
    [MilestoneSubmitted |-> "Submitted", MilestoneApproved |-> "Approved",
     MilestoneRejected |-> "Pending", MilestoneSettled |-> "Settled"]
Steps(a) == Named(All(a), MilestoneSteps)
IsLastStep(a, i, r) ==
    /\ milestone[a][i].state = StepState[r.name]
    /\ \A q \in Of(Steps(a), i) \ {r} : q.slot <= r.slot /\ q.name # "MilestoneSettled"
StepsTold(a, i) ==
    /\ \/ Of(Steps(a), i) = {} /\ milestone[a][i].state \in {"Absent", "Pending"}
       \/ \E r \in Of(Steps(a), i) : IsLastStep(a, i, r)
    /\ (\E r \in Of(Steps(a), i) : r.name = "MilestoneApproved")
            <=> milestone[a][i].state \in {"Approved", "Settled"}
TranchesTold(a) ==
    /\ Indices(Named(All(a), {"MilestoneCreated"})) = 0 .. agreement[a].milestoneCount - 1
    /\ Worth(Named(All(a), {"MilestoneCreated"})) = agreement[a].milestoneTotal
    /\ \A i \in MilestoneSlots : StepsTold(a, i)
    /\ \A r \in Steps(a) : /\ r.index \in 0 .. agreement[a].milestoneCount - 1
                           /\ r.inner = IF r.name = "MilestoneSettled" THEN 2 ELSE 1
    /\ \A r, q \in Steps(a) : r # q => r.slot # q.slot \/ r.id # q.id
    /\ Named(All(a), {"MilestoneSettled"}) # {} => Settlements(a) # {}

DisputesTold(a) ==
    LET opened == Named(All(a), {"DisputeOpened"})
        resolved == Named(All(a), {"DisputeResolved"})
    IN  /\ State(a) = "Disputed" <=> opened # {} /\ resolved = {}
        /\ resolved # {} => State(a) \in {"Settled", "Refunded"}
        /\ \A o \in opened, r \in resolved : o.slot <= r.slot

Told(a) ==
    /\ IsFiniteSet(All(a))
    /\ PathTold(a) /\ MovesTold(a) /\ MoneyTold(a) /\ PayeeTold(a)
    /\ ProofsTold(a) /\ TranchesTold(a) /\ DisputesTold(a)

HistoryInv == ScheduleInv /\ Chain /\ \A a \in Agreements : Told(a)
-----------------------------------------------------------------------------
(* What a transaction adds to the history. *)
LEMMA ChainTyped ==
    ASSUME Chain
    PROVE  /\ Len(committed) \in Nat /\ DOMAIN committed = 1 .. Len(committed)
           /\ \A k \in DOMAIN committed :
                    /\ committed[k].slot \in Nat /\ committed[k].id \in 1 .. 3
                    /\ committed[k].receipts \subseteq ReceiptRecords
  <1>1. committed \in Seq(TransactionRecords)
    BY DEF Chain
  <1>2. /\ Len(committed) \in Nat /\ DOMAIN committed = 1 .. Len(committed)
        /\ \A k \in DOMAIN committed : committed[k] \in TransactionRecords
    BY <1>1
  <1> QED
    BY <1>2 DEF TransactionRecords

LEMMA AllTyped ==
    ASSUME Chain, NEW a \in Agreements
    PROVE  /\ All(a) \subseteq ReceiptRecords
           /\ \A r \in All(a) : r.agreement = a
           /\ \A r \in All(a) : \E k \in DOMAIN committed : r \in committed[k].receipts
  <1>1. \A k \in DOMAIN committed : committed[k].receipts \subseteq ReceiptRecords
    BY ChainTyped
  <1> QED
    BY <1>1 DEF All, ReceiptsOf, Receipts

\* Where the next transaction can go.
LEMMA PlaceIsFresh ==
    ASSUME Chain, NEW place \in Places
    PROVE  /\ place.slot \in Nat /\ place.id \in 1 .. 3
           /\ \A k \in DOMAIN committed :
                    /\ committed[k].slot <= place.slot
                    /\ committed[k].slot = place.slot => committed[k].id # place.id
           /\ \/ Len(committed) = 0
              \/ committed[Len(committed)].slot < place.slot
              => place.id = 2
  <1> DEFINE n == Len(committed)
             last == committed[n]
  <1>1. /\ n \in Nat /\ DOMAIN committed = 1 .. n
        /\ \A k \in 1 .. n : committed[k].slot \in Nat /\ committed[k].id \in 1 .. 3
    BY ChainTyped
  <1>2. CASE n = 0
    BY <1>1, <1>2 DEF Places
  <1>3. CASE n # 0
    <2>1. \A k \in 1 .. n : committed[k].slot <= last.slot
      BY <1>1, <1>3 DEF Chain
    <2>2. \/ place = [slot |-> last.slot + 1, id |-> 2]
          \/ /\ n = 1 \/ committed[n - 1].slot < last.slot
             /\ place \in {[slot |-> last.slot, id |-> 1], [slot |-> last.slot, id |-> 3]}
      BY <1>3 DEF Places
    <2>3. CASE place = [slot |-> last.slot + 1, id |-> 2]
      BY <1>1, <1>3, <2>1, <2>3
    <2>4. CASE /\ n = 1 \/ committed[n - 1].slot < last.slot
               /\ place \in {[slot |-> last.slot, id |-> 1], [slot |-> last.slot, id |-> 3]}
      <3>1. place.slot = last.slot /\ place.id \in {1, 3}
        BY <2>4
      <3>2. last.id = 2
        BY <1>1, <1>3, <2>4 DEF Chain
      <3>3. ASSUME NEW k \in 1 .. n PROVE k = n \/ committed[k].slot < last.slot
        <4>1. CASE n = 1
          BY <1>1, <4>1
        <4>2. CASE n # 1
          <5>1. n - 1 \in 1 .. n /\ (k = n \/ k = n - 1 \/ k < n - 1)
            BY <1>1, <1>3, <4>2
          <5>2. k < n - 1 => committed[k].slot <= committed[n - 1].slot
            BY <1>1, <5>1 DEF Chain
          <5>3. n \in 1 .. n
            BY <1>1, <1>3
          <5>4. /\ committed[k].slot \in Nat /\ committed[n - 1].slot \in Nat
                /\ last.slot \in Nat
            BY <1>1, <5>1, <5>3
          <5>5. committed[n - 1].slot < last.slot
            BY <2>4, <4>2
          <5> HIDE DEF last
          <5>6. CASE k < n - 1
            BY <5>2, <5>4, <5>5, <5>6
          <5> QED
            BY <5>1, <5>4, <5>5, <5>6
        <4> QED
          BY <4>1, <4>2
      <3>4. n \in 1 .. n /\ last.slot \in Nat
        BY <1>1, <1>3
      <3>5. \A k \in 1 .. n :
                committed[k].slot = place.slot => committed[k].id # place.id
        <4> TAKE k \in 1 .. n
        <4>1. CASE k = n
          BY <3>1, <3>2, <4>1
        <4>2. CASE committed[k].slot < last.slot
          BY <1>1, <3>1, <3>4, <4>2
        <4> QED
          BY <3>3, <4>1, <4>2
      <3>6. ~(n = 0 \/ last.slot < place.slot)
        BY <1>3, <3>1, <3>4
      <3>7. place.slot \in Nat /\ place.id \in 1 .. 3
        BY <3>1, <3>4
      <3> QED
        BY <1>1, <2>1, <3>1, <3>5, <3>6, <3>7
    <2> QED
      BY <2>2, <2>3, <2>4
  <1> QED
    BY <1>2, <1>3

\* The receipts N are new to agreement a, from one transaction, and to no other's.
Adds(a, N) ==
    /\ All(a)' = All(a) \cup N
    /\ \A b \in Agreements \ {a} : All(b)' = All(b)
    /\ IsFiniteSet(N) /\ N \subseteq ReceiptRecords /\ N \cap All(a) = {}
    /\ \E s \in Nat, d \in 1 .. 3 :
            /\ \A r \in N : r.slot = s /\ r.id = d
            /\ \A r \in All(a) : r.slot <= s /\ (r.slot = s => r.id # d)

LEMMA ChainGrows ==
    ASSUME Chain, NEW a \in Agreements, NEW place \in Places, NEW N \in SUBSET ReceiptRecords,
           IsFiniteSet(N),
           \A r \in N : r.slot = place.slot /\ r.id = place.id /\ r.agreement = a,
           committed' = Append(committed,
                            [slot |-> place.slot, id |-> place.id, receipts |-> N])
    PROVE  Chain' /\ Adds(a, N)
  <1> DEFINE n == Len(committed)
             new == [slot |-> place.slot, id |-> place.id, receipts |-> N]
  <1>1. /\ place.slot \in Nat /\ place.id \in 1 .. 3
        /\ \A k \in DOMAIN committed :
                /\ committed[k].slot <= place.slot
                /\ committed[k].slot = place.slot => committed[k].id # place.id
        /\ (n = 0 \/ committed[n].slot < place.slot) => place.id = 2
    BY PlaceIsFresh
  <1>2. new \in TransactionRecords
    BY <1>1 DEF TransactionRecords
  <1>3. new.slot = place.slot /\ new.id = place.id /\ new.receipts = N
    OBVIOUS
  <1>4. committed' = Append(committed, new) /\ committed \in Seq(TransactionRecords)
    BY DEF Chain
  <1> HIDE DEF new
  <1>5. /\ committed' \in Seq(TransactionRecords)
        /\ n \in Nat /\ DOMAIN committed = 1 .. n /\ DOMAIN committed' = 1 .. n + 1
        /\ \A k \in 1 .. n : committed'[k] = committed[k]
        /\ committed'[n + 1] = new
    BY <1>2, <1>4
  <1>6. \A k \in 1 .. n + 1 : k \in 1 .. n \/ k = n + 1
    BY <1>5
  <1>7. Chain'
    <2>1. \A k \in DOMAIN committed' : \A r \in committed'[k].receipts :
                r.slot = committed'[k].slot /\ r.id = committed'[k].id
      BY <1>3, <1>5, <1>6 DEF Chain
    <2>2. \A k \in DOMAIN committed' :
                k = 1 \/ committed'[k - 1].slot < committed'[k].slot => committed'[k].id = 2
      <3>1. ASSUME NEW k \in 1 .. n, k = 1 \/ committed'[k - 1].slot < committed'[k].slot
            PROVE  committed'[k].id = 2
        <4>1. k = 1 \/ k - 1 \in 1 .. n
          BY <1>5
        <4> QED
          BY <1>5, <3>1, <4>1 DEF Chain
      <3>2. ASSUME n + 1 = 1 \/ committed'[(n + 1) - 1].slot < committed'[n + 1].slot
            PROVE  committed'[n + 1].id = 2
        <4>1. (n + 1) - 1 = n /\ (n = 0 \/ n \in 1 .. n)
          BY <1>5
        <4>2. n = 0 \/ committed[n].slot < place.slot
          <5>1. committed'[(n + 1) - 1] = committed'[n]
            BY <4>1
          <5>2. n + 1 = 1 => n = 0
            BY <1>5
          <5>3. n \in 1 .. n => committed'[n] = committed[n]
            BY <1>5
          <5> QED
            BY <1>3, <1>5, <3>2, <4>1, <5>1, <5>2, <5>3
        <4>3. place.id = 2
          BY <1>1, <4>2
        <4> QED
          BY <1>3, <1>5, <4>3
      <3> QED
        BY <1>5, <1>6, <3>1, <3>2
    <2>3. \A j, k \in DOMAIN committed' :
            j < k => /\ committed'[j].slot <= committed'[k].slot
                     /\ committed'[j].slot = committed'[k].slot
                            => committed'[j].id # committed'[k].id
      <3>1. ASSUME NEW j \in 1 .. n + 1, NEW k \in 1 .. n + 1, j < k
            PROVE  /\ committed'[j].slot <= committed'[k].slot
                   /\ committed'[j].slot = committed'[k].slot
                            => committed'[j].id # committed'[k].id
        <4>1. j \in 1 .. n
          BY <1>5, <3>1
        <4>2. CASE k \in 1 .. n
          BY <1>5, <3>1, <4>1, <4>2 DEF Chain
        <4>3. CASE k = n + 1
          BY <1>1, <1>3, <1>5, <4>1, <4>3
        <4> QED
          BY <1>6, <4>2, <4>3
      <3> QED
        BY <1>5, <3>1
    <2> QED
      BY <1>5, <2>1, <2>2, <2>3 DEF Chain
  <1>8. \A b \in Agreements : All(b)' = All(b) \cup {r \in N : r.agreement = b}
    <2>1. Receipts(DOMAIN committed)' = Receipts(DOMAIN committed) \cup N
      BY <1>3, <1>5, <1>6 DEF Receipts
    <2> QED
      BY <2>1 DEF All, ReceiptsOf
  <1>9. All(a)' = All(a) \cup N /\ \A b \in Agreements \ {a} : All(b)' = All(b)
    BY <1>8
  <1>10. \A r \in All(a) : r.slot <= place.slot /\ (r.slot = place.slot => r.id # place.id)
    BY <1>1, AllTyped DEF Chain
  <1>11. N \cap All(a) = {}
    BY <1>10
  <1> QED
    BY <1>1, <1>7, <1>9, <1>10, <1>11 DEF Adds

\* A receipt says what its event says.
Carries(r, e, inner) ==
    /\ r.name = e.name /\ r.agreement = e.agreement
    /\ r.before = e.before /\ r.after = e.after /\ r.seller = e.seller
    /\ r.amount = e.amount /\ r.index = e.index /\ r.proof = e.proof
    /\ r.inner = inner

LEMMA ReceiptCarries ==
    ASSUME NEW e \in EventRecords, NEW place, place.slot \in Nat, place.id \in 1 .. 3,
           NEW n \in 1 .. 3
    PROVE  /\ Receipt(e, place, n) \in ReceiptRecords
           /\ Carries(Receipt(e, place, n), e, n)
           /\ Receipt(e, place, n).slot = place.slot
           /\ Receipt(e, place, n).id = place.id
  BY DEF EventRecords, ReceiptRecords, Receipt, Carries

LEMMA EmitsOne ==
    ASSUME Chain, NEW a \in Agreements, NEW e \in EventRecords, e.agreement = a,
           NEW cpis \in 0 .. 1, Emits(cpis, <<e>>)
    PROVE  Chain' /\ \E r : Adds(a, {r}) /\ Carries(r, e, cpis + 1)
  <1>1. PICK place \in Places :
            committed' = Append(committed,
                [slot |-> place.slot, id |-> place.id,
                 receipts |-> {Receipt(<<e>>[j], place, cpis + j) : j \in DOMAIN <<e>>}])
    BY DEF Emits
  <1> DEFINE r == Receipt(e, place, cpis + 1)
  <1>2. {Receipt(<<e>>[j], place, cpis + j) : j \in DOMAIN <<e>>} = {r}
    OBVIOUS
  <1>3. /\ r \in ReceiptRecords /\ Carries(r, e, cpis + 1)
        /\ r.slot = place.slot /\ r.id = place.id
    <2>1. cpis + 1 \in 1 .. 3
      OBVIOUS
    <2> QED
      BY <2>1, PlaceIsFresh, ReceiptCarries
  <1> HIDE DEF r
  <1>4. Chain' /\ Adds(a, {r})
    <2>1. IsFiniteSet({r}) /\ {r} \in SUBSET ReceiptRecords /\ r.agreement = a
      BY <1>3, FS_Singleton DEF Carries
    <2>2. committed' = Append(committed,
                            [slot |-> place.slot, id |-> place.id, receipts |-> {r}])
      BY <1>1, <1>2
    <2> QED
      BY <1>3, <2>1, <2>2, ChainGrows
  <1> QED
    BY <1>3, <1>4

LEMMA EmitsTwo ==
    ASSUME Chain, NEW a \in Agreements, NEW e \in EventRecords, e.agreement = a,
           NEW f \in EventRecords, f.agreement = a, Emits(1, <<e, f>>)
    PROVE  Chain' /\ \E r, q : Adds(a, {r, q}) /\ Carries(r, e, 2) /\ Carries(q, f, 3)
  <1>1. PICK place \in Places :
            committed' = Append(committed,
                [slot |-> place.slot, id |-> place.id,
                 receipts |-> {Receipt(<<e, f>>[j], place, 1 + j) : j \in DOMAIN <<e, f>>}])
    BY DEF Emits
  <1> DEFINE r == Receipt(e, place, 2)
             q == Receipt(f, place, 3)
  <1>2. {Receipt(<<e, f>>[j], place, 1 + j) : j \in DOMAIN <<e, f>>} = {r, q}
    <2>1. DOMAIN <<e, f>> = {1, 2}
      OBVIOUS
    <2>2. <<e, f>>[1] = e /\ <<e, f>>[2] = f /\ 1 + 1 = 2 /\ 1 + 2 = 3
      OBVIOUS
    <2> QED
      BY <2>1, <2>2
  <1>3. /\ r \in ReceiptRecords /\ Carries(r, e, 2)
        /\ r.slot = place.slot /\ r.id = place.id
        /\ q \in ReceiptRecords /\ Carries(q, f, 3)
        /\ q.slot = place.slot /\ q.id = place.id
    BY PlaceIsFresh, ReceiptCarries
  <1> HIDE DEF r, q
  <1>4. Chain' /\ Adds(a, {r, q})
    <2>1. IsFiniteSet({r, q})
      <3>1. IsFiniteSet({r}) /\ {r, q} = {r} \cup {q}
        BY FS_Singleton
      <3> QED
        BY <3>1, FS_AddElement
    <2>2. {r, q} \in SUBSET ReceiptRecords /\ r.agreement = a /\ q.agreement = a
      BY <1>3 DEF Carries
    <2>3. committed' = Append(committed,
                            [slot |-> place.slot, id |-> place.id, receipts |-> {r, q}])
      BY <1>1, <1>2
    <2> QED
      BY <1>3, <2>1, <2>2, <2>3, ChainGrows
  <1> QED
    BY <1>3, <1>4
-----------------------------------------------------------------------------
(* What each part of the invariant needs of the receipts that a step adds. *)
LEMMA NamedGrows ==
    ASSUME NEW a \in Agreements, NEW N, Adds(a, N), NEW names
    PROVE  /\ Named(All(a)', names) = Named(All(a), names) \cup Named(N, names)
           /\ Indices(Named(All(a)', names)) =
                    Indices(Named(All(a), names)) \cup Indices(Named(N, names))
           /\ \A i : Of(Named(All(a)', names), i) =
                        Of(Named(All(a), names), i) \cup Of(Named(N, names), i)
  <1>1. All(a)' = All(a) \cup N
    BY DEF Adds
  <1>2. Named(All(a)', names) = Named(All(a), names) \cup Named(N, names)
    BY <1>1 DEF Named
  <1> QED
    BY <1>2 DEF Indices, Of

\* Nothing is recorded of an agreement that does not exist.
LEMMA NothingYet ==
    ASSUME NEW a \in Agreements, PathTold(a), State(a) = "Absent"
    PROVE  All(a) = {}
  <1>1. PICK path \in Seq(All(a)) : IsPathOf(a, path)
    BY DEF PathTold
  <1>2. DOMAIN path = {}
    BY <1>1 DEF IsPathOf
  <1>3. Transitions(All(a)) = {} /\ Annotations(All(a)) = {}
    BY <1>1, <1>2 DEF IsPathOf
  <1> QED
    BY <1>3 DEF Annotations

\* A step that leaves the state alone adds annotations at the end of the path.
LEMMA PathKept ==
    ASSUME NEW a \in Agreements, NEW N, Adds(a, N), Chain, PathTold(a),
           State(a)' = State(a), State(a) # "Absent",
           \A r \in N : r.before = State(a) /\ r.after = State(a)
    PROVE  PathTold(a)'
  <1>1. PICK path \in Seq(All(a)) : IsPathOf(a, path)
    BY DEF PathTold
  <1>2. All(a)' = All(a) \cup N /\ path \in Seq(All(a)')
    BY DEF Adds
  <1>3. /\ Transitions(All(a)') = Transitions(All(a))
        /\ Annotations(All(a)') \subseteq Annotations(All(a)) \cup N
    BY <1>2 DEF Transitions, Annotations, IsTransition
  <1>4. PICK s \in Nat, d \in 1 .. 3 :
            /\ \A r \in N : r.slot = s /\ r.id = d
            /\ \A r \in All(a) : r.slot <= s /\ (r.slot = s => r.id # d)
    BY DEF Adds
  <1>5. /\ Len(path) \in Nat /\ Len(path) > 0 /\ Len(path) \in DOMAIN path
        /\ path[Len(path)] \in All(a) /\ path[Len(path)].after = State(a)
    BY <1>1 DEF IsPathOf
  <1>6. \A r \in N : RecordedAfter(r, path, Len(path))
    BY <1>4, <1>5 DEF RecordedAfter
  <1>7. \A r \in Annotations(All(a)') : \E k \in DOMAIN path : RecordedAfter(r, path, k)
    BY <1>1, <1>3, <1>5, <1>6 DEF IsPathOf
  <1>8. IsPathOf(a, path)'
    BY <1>1, <1>3, <1>7 DEF IsPathOf
  <1> QED
    BY <1>2, <1>8 DEF PathTold

\* A step that moves the agreement adds one transition, at the end of the path, and
\* every annotation of that transaction after it.
LEMMA PathGrows ==
    ASSUME NEW a \in Agreements, NEW N, Adds(a, N), Chain, PathTold(a),
           State(a) \in States, State(a)' \in States,
           StateRank[State(a)] < StateRank[State(a)'],
           NEW t \in N, t.before = State(a), t.after = State(a)',
           \A r \in N \ {t} : r.before = State(a)' /\ r.after = State(a)'
    PROVE  PathTold(a)'
  <1>1. PICK path \in Seq(All(a)) : IsPathOf(a, path)
    BY DEF PathTold
  <1> DEFINE longer == Append(path, t)
             c == Len(path)
  <1>2. /\ All(a)' = All(a) \cup N /\ N \subseteq ReceiptRecords
        /\ All(a) \subseteq ReceiptRecords
    BY AllTyped DEF Adds
  <1>3. /\ c \in Nat /\ DOMAIN path = 1 .. c /\ \A k \in 1 .. c : path[k] \in All(a)
        /\ longer \in Seq(All(a)') /\ Len(longer) = c + 1 /\ DOMAIN longer = 1 .. c + 1
        /\ \A k \in 1 .. c : longer[k] = path[k]
        /\ longer[c + 1] = t
    BY <1>1, <1>2
  <1> HIDE DEF longer
  <1>4. PICK s \in Nat, d \in 1 .. 3 :
            /\ \A r \in N : r.slot = s /\ r.id = d
            /\ \A r \in All(a) : r.slot <= s /\ (r.slot = s => r.id # d)
    BY DEF Adds
  <1>5. \A x \in States : StateRank[x] \in Nat
    BY DEF StateRank, States, AgreementState, LiveStates, TerminalStates
  <1>6. State(a) # State(a)' /\ State(a)' # "Absent"
    BY <1>5 DEF StateRank
  <1>7. /\ Transitions(All(a)') = Transitions(All(a)) \cup {t}
        /\ Annotations(All(a)') = Annotations(All(a)) \cup (N \ {t})
    <2>1. /\ IsTransition(t) /\ \A r \in N \ {t} : ~IsTransition(r)
          /\ t \notin All(a)
      BY <1>6 DEF IsTransition, Adds
    <2> QED
      BY <1>2, <2>1 DEF Transitions, Annotations
  <1>8. \A k \in 1 .. c + 1 : k \in 1 .. c \/ k = c + 1
    BY <1>3
  <1>9. Transitions(All(a)') = {longer[k] : k \in DOMAIN longer}
    <2>1. Transitions(All(a)) = {path[k] : k \in 1 .. c}
      BY <1>1, <1>3 DEF IsPathOf
    <2>2. {longer[k] : k \in 1 .. c + 1} = {path[k] : k \in 1 .. c} \cup {t}
      BY <1>3, <1>8
    <2> QED
      BY <1>3, <1>7, <2>1, <2>2
  <1>10. /\ longer[1].before = "Absent"
         /\ c > 0 => path[c].after = State(a)
    BY <1>1, <1>3 DEF IsPathOf
  <1>11. \A k \in 1 .. c : longer[k + 1].before = longer[k].after
    <2> TAKE k \in 1 .. c
    <2>1. CASE k = c
      BY <1>3, <1>10, <2>1
    <2>2. CASE k # c
      <3>1. k \in 1 .. c - 1 /\ k + 1 \in 1 .. c
        <4>1. c \in Nat
          BY <1>3
        <4> HIDE DEF c
        <4> QED
          BY <2>2, <4>1
      <3> QED
        BY <1>1, <1>3, <3>1 DEF IsPathOf
    <2> QED
      BY <2>1, <2>2
  <1>12. \A k \in 1 .. c + 1 : StateRank[longer[k].before] < StateRank[longer[k].after]
    BY <1>1, <1>3, <1>8 DEF IsPathOf
  <1>13. ASSUME NEW j \in 1 .. c + 1, NEW k \in 1 .. c + 1, j < k
         PROVE  /\ StateRank[longer[j].after] <= StateRank[longer[k].before]
                /\ longer[j].slot <= longer[k].slot
    <2>1. j \in 1 .. c
      BY <1>3, <1>13
    <2>2. CASE k \in 1 .. c
      BY <1>1, <1>3, <1>13, <2>1, <2>2 DEF IsPathOf
    <2>3. CASE k = c + 1
      <3>1. longer[j].slot <= t.slot
        BY <1>3, <1>4, <2>1
      <3>2. CASE j = c
        BY <1>3, <1>5, <1>10, <2>1, <2>3, <3>1, <3>2
      <3>3. CASE j # c
        <4>1. c \in 1 .. c /\ j < c
          <5>1. c \in Nat
            BY <1>3
          <5> HIDE DEF c
          <5> QED
            BY <2>1, <3>3, <5>1
        <4>2. /\ StateRank[path[j].after] <= StateRank[path[c].before]
              /\ StateRank[path[c].before] < StateRank[State(a)]
          BY <1>1, <1>3, <1>10, <2>1, <4>1 DEF IsPathOf
        <4>3. /\ StateRank[path[j].after] \in Nat /\ StateRank[path[c].before] \in Nat
              /\ StateRank[State(a)] \in Nat
          BY <1>2, <1>3, <1>5, <2>1, <4>1 DEF ReceiptRecords
        <4>4. StateRank[path[j].after] <= StateRank[State(a)]
          BY <4>2, <4>3
        <4> QED
          BY <1>3, <2>1, <2>3, <3>1, <4>4
      <3> QED
        BY <3>2, <3>3
    <2> QED
      BY <1>8, <2>2, <2>3
  <1>14. \A r \in Annotations(All(a)') : \E k \in DOMAIN longer : RecordedAfter(r, longer, k)
    <2>1. ASSUME NEW r \in Annotations(All(a))
          PROVE  \E k \in 1 .. c + 1 : RecordedAfter(r, longer, k)
      <3>1. PICK k \in 1 .. c : RecordedAfter(r, path, k)
        BY <1>1, <1>3 DEF IsPathOf
      <3>2. r \in All(a) /\ k \in 1 .. c + 1
        BY <1>3 DEF Annotations
      <3>3. CASE k < c
        <4>1. k + 1 \in 1 .. c /\ k < c + 1
          BY <1>3, <3>3
        <4> QED
          BY <1>3, <3>1, <3>2, <3>3, <4>1 DEF RecordedAfter
      <3>4. CASE k = c
        <4>1. r.slot <= t.slot /\ (r.slot = t.slot => r.id # t.id)
          BY <1>4, <3>2
        <4> QED
          BY <1>3, <3>1, <3>2, <3>4, <4>1 DEF RecordedAfter
      <3> QED
        BY <1>3, <3>3, <3>4
    <2>2. ASSUME NEW r \in N \ {t}
          PROVE  RecordedAfter(r, longer, c + 1)
      BY <1>3, <1>4, <2>2 DEF RecordedAfter
    <2>3. c + 1 \in 1 .. c + 1
      BY <1>3
    <2> QED
      BY <1>3, <1>7, <2>1, <2>2, <2>3
  <1>15. IsPathOf(a, longer)'
    <2>1. ~(Len(longer) = 0) /\ Len(longer) > 0 /\ Len(longer) - 1 = c
      BY <1>3
    <2>2. longer[Len(longer)].after = State(a)'
      BY <1>3
    <2>3. \A k \in 1 .. Len(longer) - 1 : longer[k + 1].before = longer[k].after
      BY <1>11, <2>1
    <2> QED
      BY <1>3, <1>6, <1>9, <1>10, <1>12, <1>13, <1>14, <2>1, <2>2, <2>3 DEF IsPathOf
  <1> QED
    BY <1>3, <1>15 DEF PathTold

LEMMA MovesGrow ==
    ASSUME NEW a \in Agreements, NEW N, Adds(a, N), MovesTold(a),
           KeepsDeal(a) \/ All(a) = {},
           \A r \in N :
                /\ IsTransition(r) => r.after # "Absent" /\ r.name = MoveName[r.after]
                /\ r.name \in AlwaysMove => IsTransition(r)
                /\ r.name = "AgreementFunded" => r.amount = agreement'[a].amount,
           State(a)' \in FundedStates
                <=> State(a) \in FundedStates \/ \E r \in N : r.name = "AgreementFunded",
           agreement'[a].milestoneCount > 0 => IsMilestoneContract(a)',
           IsMilestoneContract(a)' /\ State(a)' \in FundedStates =>
                agreement'[a].milestoneTotal = agreement'[a].amount
    PROVE  MovesTold(a)'
  <1>1. All(a)' = All(a) \cup N
    BY DEF Adds
  <1> QED
    BY <1>1 DEF MovesTold, KeepsDeal

\* What no step undoes: money that moved, and a tranche that was settled.
KeepsPaid(a) ==
    /\ State(a) # "Settled"
    /\ State(a) \in FundedStates => State(a)' \in FundedStates
    /\ \A i \in MilestoneSlots :
            milestone[a][i].state = "Settled" => milestone'[a][i].state = "Settled"

LEMMA MoneyKept ==
    ASSUME NEW a \in Agreements, NEW N, Adds(a, N), MoneyTold(a), KeepsPaid(a),
           \A r \in N : r.name \notin {"SettlementExecuted", "RefundExecuted"},
           agreement'[a].settledTotal = agreement[a].settledTotal
    PROVE  MoneyTold(a)'
  <1>1. /\ Named(All(a)', {"SettlementExecuted"}) = Named(All(a), {"SettlementExecuted"})
        /\ Named(All(a)', {"RefundExecuted"}) = Named(All(a), {"RefundExecuted"})
        /\ Named(All(a), {"ProofApproved"}) \subseteq Named(All(a)', {"ProofApproved"})
    BY DEF Adds, Named
  <1>2. Settlements(a)' = Settlements(a) /\ Refunds(a)' = Refunds(a)
    BY <1>1 DEF Settlements, Refunds
  <1>3. (Worth(Settlements(a)) + Worth(Refunds(a)))' = Worth(Settlements(a)) + Worth(Refunds(a))
    BY <1>2
  <1> QED
    BY <1>1, <1>2, <1>3 DEF MoneyTold, KeepsPaid

LEMMA MoneyGrows ==
    ASSUME NEW a \in Agreements, NEW N, Adds(a, N), Chain, IsFiniteSet(All(a)), MoneyTold(a),
           KeepsPaid(a), State(a)' \in FundedStates,
           agreement[a].settledTotal \in Nat, agreement'[a].settledTotal \in Nat,
           NEW q \in N, q.amount > 0,
           agreement'[a].settledTotal = agreement[a].settledTotal + q.amount,
           \A r \in N \ {q} : r.name \notin {"SettlementExecuted", "RefundExecuted"},
           \/ q.name = "RefundExecuted"
           \/ /\ q.name = "SettlementExecuted"
              /\ \/ State(a)' = "Settled"
                 \/ \E i \in MilestoneSlots : milestone'[a][i].state = "Settled"
              /\ q.proof # Default =>
                    \E p \in Named(All(a), {"ProofApproved"}) : p.proof = q.proof
    PROVE  MoneyTold(a)'
  <1> DEFINE S == Settlements(a)
             F == Refunds(a)
  <1>1. /\ All(a)' = All(a) \cup N /\ N \subseteq ReceiptRecords /\ q \notin All(a)
        /\ All(a) \subseteq ReceiptRecords
    BY AllTyped DEF Adds
  <1>2. /\ IsFiniteSet(S) /\ IsFiniteSet(F) /\ q \notin S /\ q \notin F
        /\ \A r \in S \cup F : r.amount \in Nat
        /\ q.amount \in Nat
    <2>1. S \subseteq All(a) /\ F \subseteq All(a)
      BY DEF Settlements, Refunds, Named
    <2> QED
      BY <1>1, <2>1, FS_Subset DEF ReceiptRecords
  <1>3. Named(All(a), {"ProofApproved"}) \subseteq Named(All(a)', {"ProofApproved"})
    BY <1>1 DEF Named
  <1>4. \/ S' = S \cup {q} /\ F' = F /\ q.name = "SettlementExecuted"
        \/ S' = S /\ F' = F \cup {q} /\ q.name = "RefundExecuted"
    BY <1>1 DEF Settlements, Refunds, Named
  <1>5. Worth(S) \in Nat /\ Worth(F) \in Nat
    BY <1>2, WorthNat
  <1>6. Worth(S)' + Worth(F)' = (Worth(S) + Worth(F)) + q.amount
    <2> DEFINE X == Settlements(a)'
               Y == Refunds(a)'
    <2>1. Worth(S)' = Worth(X) /\ Worth(F)' = Worth(Y)
      OBVIOUS
    <2>2. Worth(S \cup {q}) = Worth(S) + q.amount /\ Worth(F \cup {q}) = Worth(F) + q.amount
      <3> HIDE DEF S, F
      <3> QED
        BY <1>2, WorthAdd
    <2>3. CASE X = S \cup {q} /\ Y = F
      <3> HIDE DEF X, Y, S, F
      <3>1. Worth(X) = Worth(S) + q.amount /\ Worth(Y) = Worth(F)
        BY <2>2, <2>3
      <3>2. Worth(X) + Worth(Y) = (Worth(S) + Worth(F)) + q.amount
        BY <1>2, <1>5, <3>1
      <3> QED
        BY <3>2 DEF X, Y, S, F
    <2>4. CASE X = S /\ Y = F \cup {q}
      <3> HIDE DEF X, Y, S, F
      <3>1. Worth(X) = Worth(S) /\ Worth(Y) = Worth(F) + q.amount
        BY <2>2, <2>4
      <3>2. Worth(X) + Worth(Y) = (Worth(S) + Worth(F)) + q.amount
        BY <1>2, <1>5, <3>1
      <3> QED
        BY <3>2 DEF X, Y, S, F
    <2> QED
      BY <1>4, <2>3, <2>4
  <1>7. Worth(S)' + Worth(F)' = agreement'[a].settledTotal
    BY <1>6 DEF MoneyTold
  <1>8. \A r \in S' \cup F' : r.amount > 0
    BY <1>4 DEF MoneyTold
  <1>9. S' # {} => \/ State(a)' = "Settled"
                   \/ \E i \in MilestoneSlots : milestone'[a][i].state = "Settled"
    BY <1>4 DEF MoneyTold, KeepsPaid
  <1>10. \A r \in S' : r.proof # Default =>
            \E p \in Named(All(a)', {"ProofApproved"}) : p.proof = r.proof
    BY <1>3, <1>4 DEF MoneyTold
  <1> QED
    BY <1>7, <1>8, <1>9, <1>10 DEF MoneyTold

LEMMA PayeeKept ==
    ASSUME NEW a \in Agreements, NEW N, Adds(a, N), PayeeTold(a), KeepsPayee(a),
           \A r \in N : r.name # "CounterpartyAssigned" /\ r.before # "Absent"
    PROVE  PayeeTold(a)'
  <1>1. /\ Named(All(a)', {"CounterpartyAssigned"}) = Named(All(a), {"CounterpartyAssigned"})
        /\ Roots(All(a)') = Roots(All(a))
    BY DEF Adds, Named, Roots
  <1> QED
    BY <1>1 DEF PayeeTold, KeepsPayee, HasCounterparty

LEMMA PayeeOpened ==
    ASSUME NEW a \in Agreements, NEW N, Adds(a, N), All(a) = {},
           \A r \in N : r.name # "CounterpartyAssigned" /\ r.seller = agreement'[a].counterparty
    PROVE  PayeeTold(a)'
  <1>1. Named(All(a)', {"CounterpartyAssigned"}) = {} /\ Roots(All(a)') \subseteq N
    BY DEF Adds, Named, Roots
  <1> QED
    BY <1>1 DEF PayeeTold

LEMMA PayeeChosen ==
    ASSUME NEW a \in Agreements, NEW q, Adds(a, {q}), PayeeTold(a), ~HasCounterparty(a),
           HasCounterparty(a)', q.name = "CounterpartyAssigned",
           q.seller = agreement'[a].counterparty
    PROVE  PayeeTold(a)'
  <1>1. Named(All(a), {"CounterpartyAssigned"}) = {}
    BY DEF PayeeTold
  <1>2. Named(All(a)', {"CounterpartyAssigned"}) = {q}
    BY <1>1 DEF Adds, Named
  <1> QED
    BY <1>2 DEF PayeeTold

LEMMA ProofsKept ==
    ASSUME NEW a \in Agreements, NEW N, Adds(a, N), ProofsTold(a), KeepsProofs(a),
           proof'[a] = proof[a],
           \A r \in N : r.name \notin {"ProofSubmitted"} \cup Decisions
    PROVE  ProofsTold(a)'
  <1>1. /\ Named(All(a)', {"ProofSubmitted"}) = Named(All(a), {"ProofSubmitted"})
        /\ Named(All(a)', {"ProofApproved"}) = Named(All(a), {"ProofApproved"})
        /\ Named(All(a)', {"ProofRejected"}) = Named(All(a), {"ProofRejected"})
        /\ Named(All(a)', Decisions) = Named(All(a), Decisions)
    BY DEF Adds, Named, Decisions
  <1> QED
    BY <1>1 DEF ProofsTold, KeepsProofs

LEMMA ProofsSubmitted ==
    ASSUME NEW a \in Agreements, NEW q, Adds(a, {q}), ProofsTold(a),
           NEW i \in ProofSlots, i = agreement[a].proofCount,
           agreement'[a].proofCount = i + 1,
           proof[a][i].status = "Absent", proof'[a][i].status = "Submitted",
           \A j \in ProofSlots \ {i} : proof'[a][j] = proof[a][j],
           q.name = "ProofSubmitted", q.index = i
    PROVE  ProofsTold(a)'
  <1>1. /\ Named(All(a)', {"ProofSubmitted"}) = Named(All(a), {"ProofSubmitted"}) \cup {q}
        /\ Named(All(a)', {"ProofApproved"}) = Named(All(a), {"ProofApproved"})
        /\ Named(All(a)', {"ProofRejected"}) = Named(All(a), {"ProofRejected"})
        /\ Named(All(a)', Decisions) = Named(All(a), Decisions)
    BY DEF Adds, Named, Decisions
  <1>2. Indices(Named(All(a)', {"ProofSubmitted"})) = 0 .. agreement'[a].proofCount - 1
    <2>1. Indices(Named(All(a)', {"ProofSubmitted"})) =
                Indices(Named(All(a), {"ProofSubmitted"})) \cup {i}
      BY <1>1 DEF Indices
    <2>2. i \in Nat /\ 0 .. (i + 1) - 1 = (0 .. i - 1) \cup {i}
      BY LimitAssumption DEF ProofSlots
    <2> QED
      BY <2>1, <2>2 DEF ProofsTold
  <1> QED
    BY <1>1, <1>2 DEF ProofsTold

LEMMA ProofsDecided ==
    ASSUME NEW a \in Agreements, NEW q, Adds(a, {q}), ProofsTold(a), KeepsProofs(a),
           NEW i \in ProofSlots, proof[a][i].status = "Submitted",
           \A j \in ProofSlots \ {i} : proof'[a][j] = proof[a][j],
           q.index = i, q.proof = <<a, i>>,
           \/ q.name = "ProofApproved" /\ proof'[a][i].status = "Approved"
           \/ q.name = "ProofRejected" /\ proof'[a][i].status = "Rejected"
    PROVE  ProofsTold(a)'
  <1> USE DEF Decisions
  <1>1. /\ Named(All(a)', {"ProofSubmitted"}) = Named(All(a), {"ProofSubmitted"})
        /\ Named(All(a)', Decisions) = Named(All(a), Decisions) \cup {q}
        /\ q.name = "ProofApproved" =>
            /\ Named(All(a)', {"ProofApproved"}) = Named(All(a), {"ProofApproved"}) \cup {q}
            /\ Named(All(a)', {"ProofRejected"}) = Named(All(a), {"ProofRejected"})
        /\ q.name = "ProofRejected" =>
            /\ Named(All(a)', {"ProofRejected"}) = Named(All(a), {"ProofRejected"}) \cup {q}
            /\ Named(All(a)', {"ProofApproved"}) = Named(All(a), {"ProofApproved"})
    BY DEF Adds, Named
  <1>2. \A r \in Named(All(a), Decisions) : r.index # i
    <2>1. Of(Named(All(a), {"ProofApproved"}), i) = {} /\ Of(Named(All(a), {"ProofRejected"}), i) = {}
      BY DEF ProofsTold
    <2> QED
      BY <2>1 DEF Of, Named
  <1>3. Indices(Named(All(a)', {"ProofSubmitted"})) = 0 .. agreement'[a].proofCount - 1
    BY <1>1 DEF ProofsTold, KeepsProofs
  <1>4. \A j \in ProofSlots :
            /\ Of(Named(All(a)', {"ProofApproved"}), j) # {} <=> proof'[a][j].status = "Approved"
            /\ Of(Named(All(a)', {"ProofRejected"}), j) # {} <=> proof'[a][j].status = "Rejected"
    <2> TAKE j \in ProofSlots
    <2>1. /\ Of(Named(All(a), {"ProofApproved"}), j) # {} <=> proof[a][j].status = "Approved"
          /\ Of(Named(All(a), {"ProofRejected"}), j) # {} <=> proof[a][j].status = "Rejected"
      BY DEF ProofsTold
    <2>2. CASE j = i
      BY <1>1, <2>1, <2>2 DEF Of
    <2>3. CASE j # i
      BY <1>1, <2>1, <2>3 DEF Of
    <2> QED
      BY <2>2, <2>3
  <1>5. /\ \A r \in Named(All(a)', Decisions) : r.index \in ProofSlots /\ r.proof = <<a, r.index>>
        /\ \A r, p \in Named(All(a)', Decisions) : r.index = p.index => r = p
    <2>1. Named(All(a)', Decisions) = Named(All(a), Decisions) \cup {q}
      BY <1>1
    <2>2. /\ \A r \in Named(All(a), Decisions) : r.index \in ProofSlots /\ r.proof = <<a, r.index>>
          /\ \A r, p \in Named(All(a), Decisions) : r.index = p.index => r = p
      BY DEF ProofsTold
    <2> QED
      BY <1>2, <2>1, <2>2
  <1> QED
    BY <1>3, <1>4, <1>5 DEF ProofsTold

LEMMA TranchesKept ==
    ASSUME NEW a \in Agreements, NEW N, Adds(a, N), TranchesTold(a), KeepsSchedule(a),
           milestone'[a] = milestone[a],
           \A r \in N : r.name \notin {"MilestoneCreated"} \cup MilestoneSteps
    PROVE  TranchesTold(a)'
  <1>1. /\ Named(All(a)', {"MilestoneCreated"}) = Named(All(a), {"MilestoneCreated"})
        /\ Named(All(a)', {"MilestoneSettled"}) = Named(All(a), {"MilestoneSettled"})
        /\ Named(All(a)', MilestoneSteps) = Named(All(a), MilestoneSteps)
        /\ Named(All(a), {"SettlementExecuted"}) \subseteq Named(All(a)', {"SettlementExecuted"})
    BY DEF Adds, Named, MilestoneSteps
  <1>2. Steps(a)' = Steps(a) /\ Settlements(a) \subseteq Settlements(a)'
    BY <1>1 DEF Steps, Settlements
  <1>3. \A i \in MilestoneSlots : StepsTold(a, i)'
    BY <1>2 DEF TranchesTold, StepsTold, IsLastStep
  <1> QED
    BY <1>1, <1>2, <1>3 DEF TranchesTold, KeepsSchedule

LEMMA TranchesCreated ==
    ASSUME NEW a \in Agreements, NEW q, Adds(a, {q}), Chain, IsFiniteSet(All(a)),
           TranchesTold(a), NEW i \in MilestoneSlots, i = agreement[a].milestoneCount,
           agreement[a].milestoneTotal \in Nat,
           agreement'[a].milestoneCount = i + 1,
           agreement'[a].milestoneTotal = agreement[a].milestoneTotal + q.amount,
           milestone'[a][i].state = "Pending",
           \A j \in MilestoneSlots \ {i} : milestone'[a][j] = milestone[a][j],
           q.name = "MilestoneCreated", q.index = i
    PROVE  TranchesTold(a)'
  <1> DEFINE C == Named(All(a), {"MilestoneCreated"})
  <1>1. /\ Named(All(a)', {"MilestoneCreated"}) = C \cup {q}
        /\ Named(All(a)', {"MilestoneSettled"}) = Named(All(a), {"MilestoneSettled"})
        /\ Named(All(a)', MilestoneSteps) = Named(All(a), MilestoneSteps)
        /\ Named(All(a), {"SettlementExecuted"}) \subseteq Named(All(a)', {"SettlementExecuted"})
    BY DEF Adds, Named, MilestoneSteps
  <1>2. Steps(a)' = Steps(a) /\ Settlements(a) \subseteq Settlements(a)'
    BY <1>1 DEF Steps, Settlements
  <1>3. i \in Nat /\ 0 .. (i + 1) - 1 = (0 .. i - 1) \cup {i}
    BY LimitAssumption DEF MilestoneSlots
  <1>4. Indices(Named(All(a)', {"MilestoneCreated"})) = 0 .. agreement'[a].milestoneCount - 1
    <2>1. Indices(Named(All(a)', {"MilestoneCreated"})) = Indices(C) \cup {i}
      BY <1>1 DEF Indices
    <2> QED
      BY <1>3, <2>1 DEF TranchesTold
  <1>5. Worth(Named(All(a)', {"MilestoneCreated"})) = agreement'[a].milestoneTotal
    <2>1. All(a) \subseteq ReceiptRecords /\ q \in ReceiptRecords /\ q \notin All(a)
          /\ C \subseteq All(a)
      BY AllTyped DEF Adds, Named
    <2>2. /\ IsFiniteSet(C) /\ q \notin C /\ q.amount \in Nat
          /\ \A r \in C : r.amount \in Nat
      BY <2>1, FS_Subset DEF ReceiptRecords
    <2>3. Worth(C \cup {q}) = Worth(C) + q.amount
      <3> HIDE DEF C
      <3> QED
        BY <2>2, WorthAdd
    <2>4. Worth(C) = agreement[a].milestoneTotal
      BY DEF TranchesTold
    <2> QED
      BY <1>1, <2>3, <2>4
  <1>6. ASSUME NEW j \in MilestoneSlots PROVE StepsTold(a, j)'
    <2>1. CASE j = i
      <3>1. \A r \in Steps(a) : r.index \in 0 .. i - 1
        BY DEF TranchesTold
      <3>2. Of(Steps(a), i) = {}
        BY <1>3, <3>1 DEF Of
      <3> QED
        BY <1>2, <2>1, <3>2 DEF StepsTold
    <2>2. CASE j # i
      <3>1. StepsTold(a, j) /\ milestone'[a][j] = milestone[a][j]
        BY <2>2 DEF TranchesTold
      <3> QED
        BY <1>2, <3>1 DEF StepsTold, IsLastStep
    <2> QED
      BY <2>1, <2>2
  <1>7. \A r \in Steps(a) : r.index \in 0 .. (i + 1) - 1
    BY <1>3 DEF TranchesTold
  <1> QED
    BY <1>1, <1>2, <1>4, <1>5, <1>6, <1>7 DEF TranchesTold

\* A step of tranche i becomes its last.
LEMMA TranchesStepped ==
    ASSUME NEW a \in Agreements, NEW N, Adds(a, N), Chain, TranchesTold(a), KeepsSchedule(a),
           NEW i \in MilestoneSlots, i < agreement[a].milestoneCount,
           agreement[a].milestoneCount \in Nat,
           \A j \in MilestoneSlots \ {i} : milestone'[a][j] = milestone[a][j],
           NEW q \in N, q.name \in MilestoneSteps, q.index = i,
           milestone'[a][i].state = StepState[q.name],
           q.inner = IF q.name = "MilestoneSettled" THEN 2 ELSE 1,
           \A r \in N \ {q} : r.name \notin {"MilestoneCreated"} \cup MilestoneSteps,
           IF q.name = "MilestoneSettled"
           THEN /\ milestone[a][i].state = "Approved"
                /\ \E r \in N : r.name = "SettlementExecuted"
           ELSE milestone[a][i].state \in {"Pending", "Submitted"}
    PROVE  TranchesTold(a)'
  <1>1. /\ Named(All(a)', {"MilestoneCreated"}) = Named(All(a), {"MilestoneCreated"})
        /\ Named(All(a)', MilestoneSteps) = Named(All(a), MilestoneSteps) \cup {q}
        /\ Named(All(a), {"SettlementExecuted"}) \subseteq Named(All(a)', {"SettlementExecuted"})
        /\ q.name # "MilestoneSettled" =>
                Named(All(a)', {"MilestoneSettled"}) = Named(All(a), {"MilestoneSettled"})
        /\ q.name = "MilestoneSettled" => Named(All(a)', {"SettlementExecuted"}) # {}
    BY DEF Adds, Named, MilestoneSteps
  <1>2. Steps(a)' = Steps(a) \cup {q} /\ Settlements(a) \subseteq Settlements(a)'
        /\ (q.name = "MilestoneSettled" => Settlements(a)' # {})
    BY <1>1 DEF Steps, Settlements
  <1>3. PICK s \in Nat, d \in 1 .. 3 :
            /\ \A r \in N : r.slot = s /\ r.id = d
            /\ \A r \in All(a) : r.slot <= s /\ (r.slot = s => r.id # d)
    BY DEF Adds
  <1>4. Steps(a) \subseteq All(a)
    BY DEF Steps, Named
  <1>5. \A r \in Of(Steps(a), i) : r.name # "MilestoneSettled"
    <2>1. StepsTold(a, i)
      BY DEF TranchesTold
    <2>2. CASE Of(Steps(a), i) = {}
      BY <2>2
    <2>3. CASE Of(Steps(a), i) # {}
      <3>1. PICK r \in Of(Steps(a), i) : IsLastStep(a, i, r)
        BY <2>1, <2>3 DEF StepsTold
      <3>2. r.name # "MilestoneSettled"
        BY <3>1 DEF IsLastStep, StepState
      <3> QED
        BY <3>1, <3>2 DEF IsLastStep
    <2> QED
      BY <2>2, <2>3
  <1>6. StepsTold(a, i)'
    <2>1. Of(Steps(a), i)' = Of(Steps(a), i) \cup {q}
      BY <1>2 DEF Of
    <2>2. IsLastStep(a, i, q)'
      <3>1. \A r \in Of(Steps(a), i) : r.slot <= q.slot
        BY <1>3, <1>4 DEF Of
      <3> QED
        BY <1>5, <2>1, <3>1 DEF IsLastStep
    <2>3. (\E r \in Of(Steps(a), i) \cup {q} : r.name = "MilestoneApproved")
            <=> milestone'[a][i].state \in {"Approved", "Settled"}
      <3>1. (\E r \in Of(Steps(a), i) : r.name = "MilestoneApproved")
                <=> milestone[a][i].state \in {"Approved", "Settled"}
        BY DEF TranchesTold, StepsTold
      <3>2. CASE q.name = "MilestoneSettled"
        BY <3>1, <3>2 DEF StepState
      <3>3. CASE q.name # "MilestoneSettled"
        BY <3>1, <3>3 DEF StepState, MilestoneSteps
      <3> QED
        BY <3>2, <3>3
    <2> QED
      BY <2>1, <2>2, <2>3 DEF StepsTold
  <1>7. ASSUME NEW j \in MilestoneSlots, j # i PROVE StepsTold(a, j)'
    <2>1. Of(Steps(a), j)' = Of(Steps(a), j)
      BY <1>2, <1>7 DEF Of
    <2>2. milestone'[a][j] = milestone[a][j] /\ StepsTold(a, j)
      BY <1>7 DEF TranchesTold
    <2> QED
      BY <2>1, <2>2 DEF StepsTold, IsLastStep
  <1>8. \A j \in MilestoneSlots : StepsTold(a, j)'
    BY <1>6, <1>7
  <1>9. i \in 0 .. agreement[a].milestoneCount - 1
    BY LimitAssumption DEF MilestoneSlots
  <1>10. \A r \in Steps(a)' : /\ r.index \in 0 .. agreement'[a].milestoneCount - 1
                              /\ r.inner = IF r.name = "MilestoneSettled" THEN 2 ELSE 1
    BY <1>2, <1>9 DEF TranchesTold, KeepsSchedule
  <1>11. \A r \in Steps(a) : r.slot # q.slot \/ r.id # q.id
    BY <1>3, <1>4
  <1>12. \A r, p \in Steps(a)' : r # p => r.slot # p.slot \/ r.id # p.id
    BY <1>2, <1>11 DEF TranchesTold
  <1>13. Named(All(a)', {"MilestoneSettled"}) # {} => Settlements(a)' # {}
    BY <1>1, <1>2 DEF TranchesTold
  <1>14. /\ Indices(Named(All(a)', {"MilestoneCreated"})) = 0 .. agreement'[a].milestoneCount - 1
         /\ Worth(Named(All(a)', {"MilestoneCreated"})) = agreement'[a].milestoneTotal
    BY <1>1 DEF TranchesTold, KeepsSchedule
  <1> QED
    BY <1>8, <1>10, <1>12, <1>13, <1>14 DEF TranchesTold

LEMMA DisputesKept ==
    ASSUME NEW a \in Agreements, NEW N, Adds(a, N), DisputesTold(a),
           State(a) \notin {"Settled", "Refunded"},
           State(a) = "Disputed" <=> State(a)' = "Disputed",
           \A r \in N : r.name \notin {"DisputeOpened", "DisputeResolved"}
    PROVE  DisputesTold(a)'
  <1>1. /\ Named(All(a)', {"DisputeOpened"}) = Named(All(a), {"DisputeOpened"})
        /\ Named(All(a)', {"DisputeResolved"}) = Named(All(a), {"DisputeResolved"})
    BY DEF Adds, Named
  <1> QED
    BY <1>1 DEF DisputesTold

LEMMA DisputesOpened ==
    ASSUME NEW a \in Agreements, NEW q, Adds(a, {q}), DisputesTold(a),
           State(a) \notin {"Settled", "Refunded"}, State(a)' = "Disputed",
           q.name = "DisputeOpened"
    PROVE  DisputesTold(a)'
  <1>1. /\ Named(All(a)', {"DisputeOpened"}) = Named(All(a), {"DisputeOpened"}) \cup {q}
        /\ Named(All(a)', {"DisputeResolved"}) = Named(All(a), {"DisputeResolved"})
    BY DEF Adds, Named
  <1> QED
    BY <1>1 DEF DisputesTold

LEMMA DisputesResolved ==
    ASSUME NEW a \in Agreements, NEW N, Adds(a, N), DisputesTold(a),
           State(a) = "Disputed", State(a)' \in {"Settled", "Refunded"},
           NEW q \in N, q.name = "DisputeResolved",
           \A r \in N : r.name # "DisputeOpened"
    PROVE  DisputesTold(a)'
  <1>1. /\ Named(All(a)', {"DisputeOpened"}) = Named(All(a), {"DisputeOpened"})
        /\ Named(All(a)', {"DisputeResolved"}) = Named(N, {"DisputeResolved"})
    BY DEF Adds, Named, DisputesTold
  <1>2. \A o \in All(a), r \in N : o.slot <= r.slot
    BY DEF Adds
  <1>3. \A o \in Named(All(a), {"DisputeOpened"}), r \in Named(N, {"DisputeResolved"}) :
            o.slot <= r.slot
    BY <1>2 DEF Named
  <1>4. Named(N, {"DisputeResolved"}) # {}
    BY DEF Named
  <1> QED
    BY <1>1, <1>3, <1>4 DEF DisputesTold
-----------------------------------------------------------------------------
(* The transactions, one by one. *)

\* What may be used of agreement a before and after a transaction.
LEMMA BeforeAndAfter ==
    ASSUME HistoryInv, ScheduleInv', NEW a \in Agreements
    PROVE  /\ TypeOK /\ TypeOK' /\ Chain
           /\ Books(a) /\ Deal(a) /\ Anchored(a) /\ Cited(a) /\ Dense(a) /\ Tranches(a)
           /\ Books(a)' /\ Deal(a)' /\ Tranches(a)'
           /\ State(a) \in States /\ State(a)' \in States
           /\ agreement[a] \in AgreementRecords /\ agreement'[a] \in AgreementRecords
           /\ agreement[a].settledTotal \in Nat /\ agreement'[a].settledTotal \in Nat
           /\ agreement[a].amount \in Nat /\ agreement[a].milestoneTotal \in Nat
           /\ agreement[a].milestoneCount \in Nat
  <1>1. ScheduleInv /\ Chain
    BY DEF HistoryInv
  <1>2. /\ TypeOK /\ TypeOK'
        /\ Books(a) /\ Deal(a) /\ Anchored(a) /\ Cited(a) /\ Dense(a) /\ Tranches(a)
        /\ Books(a)' /\ Deal(a)' /\ Tranches(a)'
    BY <1>1 DEF ScheduleInv, EvidenceInv, CustodyInv
  <1>3. agreement[a] \in AgreementRecords /\ agreement'[a] \in AgreementRecords
    BY <1>2 DEF TypeOK
  <1>4. State(a) \in States /\ State(a)' \in States
    BY <1>3 DEF AgreementRecords, State, States
  <1>5. /\ agreement[a].settledTotal \in Nat /\ agreement'[a].settledTotal \in Nat
        /\ agreement[a].amount \in Nat /\ agreement[a].milestoneTotal \in Nat
        /\ agreement[a].milestoneCount \in Nat
    BY <1>3, LimitAssumption DEF AgreementRecords
  <1> QED
    BY <1>1, <1>2, <1>3, <1>4, <1>5

LEMMA EventTyped ==
    ASSUME TypeOK, TypeOK', NEW a \in Agreements, NEW name \in EventNames
    PROVE  Change(name, a) \in EventRecords /\ Note(name, a) \in EventRecords
  <1>1. agreement[a] \in AgreementRecords /\ agreement'[a] \in AgreementRecords
    BY DEF TypeOK
  <1>2. /\ State(a) \in States /\ State(a)' \in States
        /\ agreement'[a].counterparty \in Owners /\ Default \in Citations
    BY <1>1 DEF AgreementRecords, State, States, Owners, Citations
  <1> QED
    BY <1>2 DEF Change, Note, Event, EventRecords

\* The transaction took effect, and the history of agreement a tells of it.
Continued(a) == Chain' /\ OnlyAccountsOf(a) /\ Told(a)' /\ \E N : Adds(a, N)

LEMMA Continues ==
    ASSUME NEW a \in Agreements, Chain', OnlyAccountsOf(a), NEW N, Adds(a, N),
           IsFiniteSet(All(a)), PathTold(a)', MovesTold(a)', MoneyTold(a)', PayeeTold(a)',
           ProofsTold(a)', TranchesTold(a)', DisputesTold(a)'
    PROVE  Continued(a)
  <1>1. All(a)' = All(a) \cup N /\ IsFiniteSet(N)
    BY DEF Adds
  <1>2. IsFiniteSet(All(a)')
    BY <1>1, FS_Union
  <1> QED
    BY <1>2 DEF Continued, Told

\* Told of an agreement of which nothing changed.
LEMMA ToldUntouched ==
    ASSUME NEW b \in Agreements, Told(b), All(b)' = All(b), agreement'[b] = agreement[b],
           milestone'[b] = milestone[b], proof'[b] = proof[b]
    PROVE  Told(b)'
  <1>1. /\ All(b)' = All(b) /\ agreement'[b] = agreement[b]
        /\ milestone'[b] = milestone[b] /\ proof'[b] = proof[b]
    OBVIOUS
  <1>2. /\ State(b)' = State(b) /\ IsMilestoneContract(b)' = IsMilestoneContract(b)
        /\ HasCounterparty(b)' = HasCounterparty(b)
        /\ Settlements(b)' = Settlements(b) /\ Refunds(b)' = Refunds(b)
        /\ Steps(b)' = Steps(b)
    BY <1>1 DEF State, IsMilestoneContract, HasCounterparty, Settlements, Refunds, Steps
  <1>3. PathTold(b)'
    BY <1>1, <1>2 DEF Told, PathTold, IsPathOf
  <1>4. MovesTold(b)'
    BY <1>1, <1>2 DEF Told, MovesTold
  <1>5. MoneyTold(b)'
    <2>1. (Worth(Settlements(b)) + Worth(Refunds(b)))' = Worth(Settlements(b)) + Worth(Refunds(b))
      BY <1>2
    <2> QED
      BY <1>1, <1>2, <2>1 DEF Told, MoneyTold
  <1>6. PayeeTold(b)'
    BY <1>1, <1>2 DEF Told, PayeeTold
  <1>7. ProofsTold(b)'
    BY <1>1, <1>2 DEF Told, ProofsTold
  <1>8. TranchesTold(b)'
    <2>1. \A i \in MilestoneSlots : StepsTold(b, i)'
      BY <1>1, <1>2 DEF Told, TranchesTold, StepsTold, IsLastStep
    <2> QED
      BY <1>1, <1>2, <2>1 DEF Told, TranchesTold
  <1>9. DisputesTold(b)'
    BY <1>1, <1>2 DEF Told, DisputesTold
  <1>10. IsFiniteSet(All(b))'
    BY <1>1 DEF Told
  <1> QED
    BY <1>3, <1>4, <1>5, <1>6, <1>7, <1>8, <1>9, <1>10 DEF Told

LEMMA OpeningTold ==
    ASSUME HistoryInv, ScheduleInv', NEW w, NEW a \in Agreements, NEW p, NEW t, NEW n, NEW h,
           InitializeAgreementTx(w, a, p, t, n, h)
    PROVE  Continued(a)
  <1>1. /\ TypeOK /\ TypeOK' /\ Chain /\ Deal(a)
        /\ State(a) \in States /\ State(a)' \in States
    BY BeforeAndAfter
  <1>2. Opened(a, t, p, n) /\ OnlyAccountsOf(a)
    BY <1>1, OpensAgreement DEF InitializeAgreementTx
  <1>3. Told(a)
    BY DEF HistoryInv
  <1>4. PICK e \in EventRecords : e = Change("AgreementOpened", a)
    BY <1>1, EventTyped DEF EventNames, EventType
  <1>5. /\ e.name = "AgreementOpened" /\ e.agreement = a /\ e.before = State(a)
        /\ e.after = State(a)' /\ e.seller = agreement'[a].counterparty
    BY <1>4 DEF Change, Event
  <1>6. Emits(1, <<e>>)
    BY <1>4 DEF InitializeAgreementTx
  <1>7. Chain' /\ \E r : Adds(a, {r}) /\ Carries(r, e, 1 + 1)
    <2>1. 1 \in 0 .. 1
      OBVIOUS
    <2> QED
      BY <1>1, <1>5, <1>6, <2>1, EmitsOne
  <1>8. PICK r : Adds(a, {r}) /\ Carries(r, e, 1 + 1)
    BY <1>7
  <1>9. /\ r.name = "AgreementOpened" /\ r.before = "Absent" /\ r.after = "Open"
        /\ r.seller = agreement'[a].counterparty
        /\ State(a) = "Absent" /\ State(a)' = "Open"
    BY <1>2, <1>5, <1>8 DEF Carries, Opened, State, NewAgreement
  <1>10. /\ agreement[a] = AbsentAgreement /\ agreement'[a] = NewAgreement(t, p, n)
         /\ milestone'[a] = milestone[a] /\ proof'[a] = proof[a]
    BY <1>1, <1>2, <1>9 DEF Deal, Opened
  <1>11. /\ agreement'[a].settledTotal = agreement[a].settledTotal
         /\ KeepsSchedule(a) /\ KeepsProofs(a) /\ agreement'[a].milestoneCount = 0
    BY <1>10 DEF AbsentAgreement, NewAgreement, KeepsSchedule, KeepsProofs
  <1>12. All(a) = {}
    BY <1>3, <1>9, NothingYet DEF Told
  <1>13. PathTold(a)'
    <2>1. StateRank["Absent"] < StateRank["Open"]
      BY DEF StateRank
    <2> QED
      BY <1>1, <1>3, <1>8, <1>9, <2>1, PathGrows DEF Told
  <1>14. MovesTold(a)'
    <2>1. MoveName["Open"] = "AgreementOpened"
      BY DEF MoveName
    <2>2. State(a)' \notin FundedStates /\ State(a) \notin FundedStates
      BY <1>9 DEF FundedStates, LiveStates
    <2>3. MovesTold(a)
      BY <1>3 DEF Told
    <2> QED
      BY <1>8, <1>9, <1>11, <1>12, <2>1, <2>2, <2>3, MovesGrow DEF IsTransition
  <1>15. MoneyTold(a)'
    <2>1. KeepsPaid(a)
      BY <1>9, <1>10 DEF KeepsPaid, FundedStates, LiveStates
    <2> QED
      BY <1>3, <1>8, <1>9, <1>11, <2>1, MoneyKept DEF Told
  <1>16. PayeeTold(a)'
    BY <1>8, <1>9, <1>12, PayeeOpened
  <1>17. ProofsTold(a)'
    BY <1>3, <1>8, <1>9, <1>10, <1>11, ProofsKept DEF Told, Decisions
  <1>18. TranchesTold(a)'
    BY <1>3, <1>8, <1>9, <1>10, <1>11, TranchesKept DEF Told, MilestoneSteps
  <1>19. DisputesTold(a)'
    BY <1>3, <1>8, <1>9, DisputesKept DEF Told
  <1> QED
    BY <1>2, <1>3, <1>7, <1>8, <1>13, <1>14, <1>15, <1>16, <1>17, <1>18, <1>19, Continues
    DEF Told

LEMMA MovesKept ==
    ASSUME NEW a \in Agreements, NEW N, Adds(a, N), MovesTold(a), KeepsDeal(a), KeepsSchedule(a),
           \A r \in N :
                /\ IsTransition(r) => r.after # "Absent" /\ r.name = MoveName[r.after]
                /\ r.name \in AlwaysMove => IsTransition(r)
                /\ r.name # "AgreementFunded",
           State(a)' \in FundedStates <=> State(a) \in FundedStates
    PROVE  MovesTold(a)'
  <1>1. /\ IsMilestoneContract(a)' = IsMilestoneContract(a)
        /\ agreement'[a].milestoneCount = agreement[a].milestoneCount
        /\ agreement'[a].milestoneTotal = agreement[a].milestoneTotal
        /\ agreement'[a].amount = agreement[a].amount
    BY DEF KeepsDeal, KeepsSchedule, IsMilestoneContract
  <1>2. /\ agreement'[a].milestoneCount > 0 => IsMilestoneContract(a)'
        /\ IsMilestoneContract(a)' /\ State(a)' \in FundedStates =>
                agreement'[a].milestoneTotal = agreement'[a].amount
    BY <1>1 DEF MovesTold
  <1> QED
    BY <1>2, MovesGrow

LEMMA ChoosingTold ==
    ASSUME HistoryInv, ScheduleInv', NEW w, NEW a \in Agreements, NEW p,
           SelectCounterpartyTx(w, a, p)
    PROVE  Continued(a)
  <1>1. TypeOK /\ TypeOK' /\ Chain
    BY BeforeAndAfter
  <1>2. Chosen(a, p) /\ OnlyAccountsOf(a)
    BY <1>1, ChoosesCounterparty DEF SelectCounterpartyTx
  <1>3. Told(a)
    BY DEF HistoryInv
  <1>4. PICK e \in EventRecords : e = Note("CounterpartyAssigned", a)
    BY <1>1, EventTyped DEF EventNames
  <1>5. /\ e.name = "CounterpartyAssigned" /\ e.agreement = a /\ e.before = State(a)'
        /\ e.after = State(a)' /\ e.seller = agreement'[a].counterparty
    BY <1>4 DEF Note, Event
  <1>6. Chain' /\ \E r : Adds(a, {r}) /\ Carries(r, e, 0 + 1)
    <2>1. 0 \in 0 .. 1 /\ Emits(0, <<e>>)
      BY <1>4 DEF SelectCounterpartyTx
    <2> QED
      BY <1>1, <1>5, <2>1, EmitsOne
  <1>7. PICK r : Adds(a, {r}) /\ Carries(r, e, 0 + 1)
    BY <1>6
  <1>8. /\ State(a) \in {"Open", "Funded"} /\ State(a)' = State(a)
        /\ KeepsDeal(a) /\ KeepsSchedule(a) /\ KeepsProofs(a)
        /\ agreement'[a].settledTotal = agreement[a].settledTotal
        /\ milestone'[a] = milestone[a] /\ proof'[a] = proof[a]
        /\ ~HasCounterparty(a) /\ HasCounterparty(a)'
    BY <1>2 DEF Chosen, KeepsPayments, HasCounterparty
  <1>9. /\ r.name = "CounterpartyAssigned" /\ r.before = State(a) /\ r.after = State(a)
        /\ r.seller = agreement'[a].counterparty
    BY <1>5, <1>7, <1>8 DEF Carries
  <1>10. PathTold(a)'
    BY <1>1, <1>3, <1>7, <1>8, <1>9, PathKept DEF Told
  <1>11. MovesTold(a)'
    BY <1>3, <1>7, <1>8, <1>9, MovesKept DEF Told, IsTransition, AlwaysMove
  <1>12. MoneyTold(a)'
    <2>1. KeepsPaid(a)
      BY <1>8 DEF KeepsPaid
    <2> QED
      BY <1>3, <1>7, <1>8, <1>9, <2>1, MoneyKept DEF Told
  <1>13. PayeeTold(a)'
    BY <1>3, <1>7, <1>8, <1>9, PayeeChosen DEF Told
  <1>14. ProofsTold(a)'
    BY <1>3, <1>7, <1>8, <1>9, ProofsKept DEF Told, Decisions
  <1>15. TranchesTold(a)'
    BY <1>3, <1>7, <1>8, <1>9, TranchesKept DEF Told, MilestoneSteps
  <1>16. DisputesTold(a)'
    BY <1>3, <1>7, <1>8, <1>9, DisputesKept DEF Told
  <1> QED
    BY <1>2, <1>3, <1>6, <1>7, <1>10, <1>11, <1>12, <1>13, <1>14, <1>15, <1>16, Continues
    DEF Told

LEMMA FundingTold ==
    ASSUME HistoryInv, ScheduleInv', NEW w, NEW a \in Agreements, FundTx(w, a)
    PROVE  Continued(a)
  <1>1. /\ TypeOK /\ TypeOK' /\ Chain /\ agreement[a].amount \in Nat
        /\ State(a) \in States /\ State(a)' \in States
    BY BeforeAndAfter
  <1>2. Deposited(a) /\ OnlyAccountsOf(a)
    BY <1>1, DepositsAmount DEF FundTx
  <1>3. Told(a)
    BY DEF HistoryInv
  <1> DEFINE moved == Change("AgreementFunded", a)
  <1>4. PICK e \in EventRecords : e = [moved EXCEPT !.amount = agreement[a].amount]
    <2>1. moved \in EventRecords
      BY <1>1, EventTyped DEF EventNames, EventType
    <2> HIDE DEF moved
    <2> QED
      BY <1>1, <2>1 DEF EventRecords
  <1>5. /\ e.name = "AgreementFunded" /\ e.agreement = a /\ e.before = State(a)
        /\ e.after = State(a)' /\ e.amount = agreement[a].amount
    BY <1>4 DEF Change, Event
  <1>6. Chain' /\ \E r : Adds(a, {r}) /\ Carries(r, e, 1 + 1)
    <2>1. 1 \in 0 .. 1 /\ Emits(1, <<e>>)
      BY <1>4 DEF FundTx
    <2> QED
      BY <1>1, <1>5, <2>1, EmitsOne
  <1>7. PICK r : Adds(a, {r}) /\ Carries(r, e, 1 + 1)
    BY <1>6
  <1>8. /\ State(a) = "Open" /\ State(a)' = "Funded"
        /\ KeepsDeal(a) /\ KeepsPayee(a) /\ KeepsSchedule(a) /\ KeepsProofs(a)
        /\ IsMilestoneContract(a) => agreement[a].milestoneTotal = agreement[a].amount
        /\ agreement'[a].settledTotal = agreement[a].settledTotal
        /\ milestone'[a] = milestone[a] /\ proof'[a] = proof[a]
    BY <1>2 DEF Deposited, KeepsPayments
  <1>9. /\ r.name = "AgreementFunded" /\ r.before = "Open" /\ r.after = "Funded"
        /\ r.amount = agreement'[a].amount
    BY <1>5, <1>7, <1>8 DEF Carries, KeepsDeal
  <1>10. PathTold(a)'
    <2>1. StateRank["Open"] < StateRank["Funded"]
      BY DEF StateRank
    <2> QED
      BY <1>1, <1>3, <1>7, <1>8, <1>9, <2>1, PathGrows DEF Told
  <1>11. MovesTold(a)'
    <2>1. MoveName["Funded"] = "AgreementFunded" /\ "Funded" \in FundedStates
      BY DEF MoveName, FundedStates, LiveStates
    <2>2. /\ agreement'[a].milestoneCount > 0 => IsMilestoneContract(a)'
          /\ IsMilestoneContract(a)' => agreement'[a].milestoneTotal = agreement'[a].amount
      BY <1>3, <1>8 DEF Told, MovesTold, KeepsDeal, KeepsSchedule, IsMilestoneContract
    <2>3. MovesTold(a)
      BY <1>3 DEF Told
    <2> QED
      BY <1>7, <1>8, <1>9, <2>1, <2>2, <2>3, MovesGrow DEF IsTransition
  <1>12. MoneyTold(a)'
    <2>1. KeepsPaid(a)
      BY <1>8 DEF KeepsPaid, FundedStates, LiveStates
    <2> QED
      BY <1>3, <1>7, <1>8, <1>9, <2>1, MoneyKept DEF Told
  <1>13. PayeeTold(a)'
    BY <1>3, <1>7, <1>8, <1>9, PayeeKept DEF Told
  <1>14. ProofsTold(a)'
    BY <1>3, <1>7, <1>8, <1>9, ProofsKept DEF Told, Decisions
  <1>15. TranchesTold(a)'
    BY <1>3, <1>7, <1>8, <1>9, TranchesKept DEF Told, MilestoneSteps
  <1>16. DisputesTold(a)'
    BY <1>3, <1>7, <1>8, <1>9, DisputesKept DEF Told
  <1> QED
    BY <1>2, <1>3, <1>6, <1>7, <1>10, <1>11, <1>12, <1>13, <1>14, <1>15, <1>16, Continues
    DEF Told

\* cancel, mark_completed, open_dispute
LEMMA MovingTold ==
    ASSUME HistoryInv, ScheduleInv', NEW a \in Agreements, NEW name,
           Moved(a), OnlyAccountsOf(a), Emits(0, <<Change(name, a)>>),
           name = MoveName[State(a)'], name \in AlwaysMove
    PROVE  Continued(a)
  <1>1. TypeOK /\ TypeOK' /\ Chain /\ State(a) \in States /\ State(a)' \in States
    BY BeforeAndAfter
  <1>2. Told(a)
    BY DEF HistoryInv
  <1>3. /\ \/ State(a) = "Open" /\ State(a)' = "Cancelled"
           \/ State(a) = "Funded" /\ State(a)' = "Completed"
           \/ State(a) \in {"Funded", "Completed"} /\ State(a)' = "Disputed"
        /\ KeepsDeal(a) /\ KeepsPayee(a) /\ KeepsSchedule(a) /\ KeepsProofs(a)
        /\ agreement'[a].settledTotal = agreement[a].settledTotal
        /\ milestone'[a] = milestone[a] /\ proof'[a] = proof[a]
    BY DEF Moved, KeepsPayments
  <1>4. /\ name \in {"AgreementAbandoned", "WorkCompleted", "DisputeOpened"}
        /\ name = "DisputeOpened" <=> State(a)' = "Disputed"
    BY <1>3 DEF MoveName
  <1>5. PICK e \in EventRecords : e = Change(name, a)
    BY <1>1, <1>4, EventTyped DEF EventNames, EventType
  <1>6. /\ e.name = name /\ e.agreement = a /\ e.before = State(a) /\ e.after = State(a)'
    BY <1>5 DEF Change, Event
  <1>7. Chain' /\ \E r : Adds(a, {r}) /\ Carries(r, e, 0 + 1)
    <2>1. 0 \in 0 .. 1 /\ Emits(0, <<e>>)
      BY <1>5
    <2> QED
      BY <1>1, <1>6, <2>1, EmitsOne
  <1>8. PICK r : Adds(a, {r}) /\ Carries(r, e, 0 + 1)
    BY <1>7
  <1>9. r.name = name /\ r.before = State(a) /\ r.after = State(a)'
    BY <1>6, <1>8 DEF Carries
  <1>10. PathTold(a)'
    <2>1. StateRank[State(a)] < StateRank[State(a)']
      BY <1>3 DEF StateRank
    <2> QED
      BY <1>1, <1>2, <1>8, <1>9, <2>1, PathGrows DEF Told
  <1>11. MovesTold(a)'
    <2>1. State(a)' \in FundedStates <=> State(a) \in FundedStates
      BY <1>3 DEF FundedStates, LiveStates
    <2> QED
      BY <1>2, <1>3, <1>4, <1>8, <1>9, <2>1, MovesKept DEF Told, IsTransition
  <1>12. MoneyTold(a)'
    <2>1. KeepsPaid(a)
      BY <1>3 DEF KeepsPaid, FundedStates, LiveStates
    <2> QED
      BY <1>2, <1>3, <1>4, <1>8, <1>9, <2>1, MoneyKept DEF Told
  <1>13. PayeeTold(a)'
    BY <1>2, <1>3, <1>4, <1>8, <1>9, PayeeKept DEF Told
  <1>14. ProofsTold(a)'
    BY <1>2, <1>3, <1>4, <1>8, <1>9, ProofsKept DEF Told, Decisions
  <1>15. TranchesTold(a)'
    BY <1>2, <1>3, <1>4, <1>8, <1>9, TranchesKept DEF Told, MilestoneSteps
  <1>16. DisputesTold(a)'
    <2>1. CASE State(a)' = "Disputed"
      BY <1>2, <1>3, <1>4, <1>8, <1>9, <2>1, DisputesOpened DEF Told
    <2>2. CASE State(a)' # "Disputed"
      BY <1>2, <1>3, <1>4, <1>8, <1>9, <2>2, DisputesKept DEF Told
    <2> QED
      BY <2>1, <2>2
  <1> QED
    BY <1>2, <1>7, <1>8, <1>10, <1>11, <1>12, <1>13, <1>14, <1>15, <1>16, Continues
    DEF Told

\* Evidence that may be cited was seen approved.
LEMMA CitationTold ==
    ASSUME NEW a \in Agreements, ProofsTold(a), NEW c, c # Default, NEW core,
           CitedProofValid(a, c, core)
    PROVE  \E p \in Named(All(a), {"ProofApproved"}) : p.proof = c
  <1>1. PICK i \in ProofSlots : c = <<a, i>> /\ proof[a][i].status = "Approved"
    BY DEF CitedProofValid
  <1>2. Of(Named(All(a), {"ProofApproved"}), i) # {}
    BY <1>1 DEF ProofsTold
  <1>3. PICK p \in Named(All(a), {"ProofApproved"}) : p.index = i
    BY <1>2 DEF Of
  <1>4. p \in Named(All(a), Decisions)
    BY <1>3 DEF Named, Decisions
  <1> QED
    BY <1>1, <1>3, <1>4 DEF ProofsTold

LEMMA PaysTyped ==
    ASSUME TypeOK, TypeOK', NEW a \in Agreements, NEW name \in EventNames, NEW c \in Citations,
           agreement'[a].settledTotal - agreement[a].settledTotal \in Nat
    PROVE  /\ Pays(name, a, c) \in EventRecords
           /\ Pays(name, a, c).name = name /\ Pays(name, a, c).agreement = a
           /\ Pays(name, a, c).before = State(a) /\ Pays(name, a, c).after = State(a)'
           /\ Pays(name, a, c).amount = agreement'[a].settledTotal - agreement[a].settledTotal
           /\ Pays(name, a, c).proof = c
  <1> DEFINE moved == Change(name, a)
  <1>1. /\ moved \in EventRecords /\ moved.name = name /\ moved.agreement = a
        /\ moved.before = State(a) /\ moved.after = State(a)'
    BY EventTyped DEF Change, Event
  <1>2. Pays(name, a, c) =
            [moved EXCEPT !.amount = agreement'[a].settledTotal - agreement[a].settledTotal,
                          !.proof = c]
    BY DEF Pays
  <1> HIDE DEF moved
  <1> QED
    BY <1>1, <1>2 DEF EventRecords

\* A payment of all that is left is a payment of something.
LEMMA ClosingPays ==
    ASSUME HistoryInv, ScheduleInv', NEW a \in Agreements, NEW d, NEW c, Closed(a, d, c)
    PROVE  /\ agreement'[a].settledTotal - agreement[a].settledTotal \in Nat
           /\ agreement'[a].settledTotal - agreement[a].settledTotal > 0
  <1>1. /\ agreement[a].settledTotal \in Nat /\ agreement[a].amount \in Nat
        /\ agreement[a].settledTotal < agreement[a].amount
    BY BeforeAndAfter DEF Tranches, Closed
  <1>2. Remaining(a) = agreement[a].amount - agreement[a].settledTotal
    BY <1>1 DEF Remaining
  <1>3. agreement'[a].settledTotal = agreement[a].settledTotal + Remaining(a)
    BY DEF Closed
  <1> QED
    BY <1>1, <1>2, <1>3

\* settle, refund, resolve_dispute: a payment, which in a dispute follows a resolution.
LEMMA ClosingTold ==
    ASSUME HistoryInv, ScheduleInv', NEW a \in Agreements, NEW d, NEW c,
           Closed(a, d, c), OnlyAccountsOf(a), Chain', NEW N, Adds(a, N),
           NEW q \in N, q.before = State(a), q.after = State(a)',
           q.amount = agreement'[a].settledTotal - agreement[a].settledTotal,
           q.name = MoveName[State(a)'],
           q.name = "SettlementExecuted" /\ q.proof # Default =>
                \E p \in Named(All(a), {"ProofApproved"}) : p.proof = q.proof,
           \A r \in N \ {q} : /\ r.name = "DisputeResolved"
                              /\ r.before = State(a)' /\ r.after = State(a)',
           State(a) = "Disputed" <=> N \ {q} # {}
    PROVE  Continued(a)
  <1>1. /\ TypeOK /\ TypeOK' /\ Chain /\ State(a) \in States /\ State(a)' \in States
        /\ agreement[a].settledTotal \in Nat /\ agreement'[a].settledTotal \in Nat
    BY BeforeAndAfter
  <1>2. Told(a)
    BY DEF HistoryInv
  <1>3. /\ State(a) \in LiveStates /\ State(a)' \in {"Settled", "Refunded"}
        /\ KeepsDeal(a) /\ KeepsPayee(a) /\ KeepsSchedule(a) /\ KeepsProofs(a)
        /\ milestone'[a] = milestone[a] /\ proof'[a] = proof[a]
    BY DEF Closed, IsLive
  <1>4. /\ \/ q.name = "SettlementExecuted" /\ State(a)' = "Settled"
           \/ q.name = "RefundExecuted" /\ State(a)' = "Refunded"
        /\ q.before # "Absent" /\ q.before # q.after
    BY <1>3 DEF MoveName, LiveStates
  <1>5. \A r \in N : r = q \/ r.name = "DisputeResolved"
    OBVIOUS
  <1>6. PathTold(a)'
    <2>1. StateRank[State(a)] < StateRank[State(a)']
      BY <1>3 DEF StateRank, LiveStates
    <2> QED
      BY <1>1, <1>2, <2>1, PathGrows DEF Told
  <1>7. MovesTold(a)'
    <2>1. State(a)' \in FundedStates /\ State(a) \in FundedStates
      BY <1>3 DEF FundedStates, LiveStates
    <2>2. IsTransition(q) /\ \A r \in N \ {q} : ~IsTransition(r) /\ r.name \notin AlwaysMove
      BY <1>4 DEF IsTransition, AlwaysMove
    <2> QED
      BY <1>2, <1>3, <1>4, <1>5, <2>1, <2>2, MovesKept DEF Told
  <1>8. MoneyTold(a)'
    <2>1. KeepsPaid(a) /\ State(a)' \in FundedStates
      BY <1>3 DEF KeepsPaid, FundedStates, LiveStates
    <2>2. q.amount > 0 /\ agreement'[a].settledTotal = agreement[a].settledTotal + q.amount
      BY <1>1, ClosingPays
    <2> QED
      BY <1>1, <1>2, <1>4, <1>5, <2>1, <2>2, MoneyGrows DEF Told
  <1>9. PayeeTold(a)'
    BY <1>2, <1>3, <1>4, <1>5, PayeeKept DEF Told
  <1>10. ProofsTold(a)'
    BY <1>2, <1>3, <1>4, <1>5, ProofsKept DEF Told, Decisions
  <1>11. TranchesTold(a)'
    BY <1>2, <1>3, <1>4, <1>5, TranchesKept DEF Told, MilestoneSteps
  <1>12. DisputesTold(a)'
    <2>1. \A r \in N : r.name # "DisputeOpened"
      BY <1>4, <1>5
    <2>2. CASE State(a) = "Disputed"
      BY <1>2, <1>3, <2>1, <2>2, DisputesResolved DEF Told
    <2>3. CASE State(a) # "Disputed"
      <3>1. \A r \in N : r.name \notin {"DisputeOpened", "DisputeResolved"}
        BY <1>4, <2>3
      <3>2. State(a) \notin {"Settled", "Refunded"} /\ State(a)' # "Disputed"
        BY <1>3 DEF LiveStates
      <3> QED
        BY <1>2, <2>3, <3>1, <3>2, DisputesKept DEF Told
    <2> QED
      BY <2>2, <2>3
  <1> QED
    BY <1>2, <1>6, <1>7, <1>8, <1>9, <1>10, <1>11, <1>12, Continues DEF Told

LEMMA SettlingTold ==
    ASSUME HistoryInv, ScheduleInv', NEW w, NEW a \in Agreements, NEW d \in Owners,
           NEW c \in Citations, NEW core, SettleTx(w, a, d, c, core)
    PROVE  Continued(a)
  <1>1. TypeOK /\ TypeOK' /\ Chain
    BY BeforeAndAfter
  <1>2. /\ Closed(a, d, c) /\ OnlyAccountsOf(a)
        /\ State(a) = "Completed" /\ State(a)' = "Settled"
    BY <1>1, SettlesAgreement DEF SettleTx
  <1>3. PICK e \in EventRecords : e = Pays("SettlementExecuted", a, c)
    BY <1>1, <1>2, ClosingPays, PaysTyped DEF EventNames, EventType
  <1>4. /\ e.name = "SettlementExecuted" /\ e.agreement = a
        /\ e.before = State(a) /\ e.after = State(a)' /\ e.proof = c
        /\ e.amount = agreement'[a].settledTotal - agreement[a].settledTotal
    BY <1>1, <1>2, <1>3, ClosingPays, PaysTyped DEF EventNames, EventType
  <1>5. Chain' /\ \E r : Adds(a, {r}) /\ Carries(r, e, 1 + 1)
    <2>1. 1 \in 0 .. 1 /\ Emits(1, <<e>>)
      BY <1>3 DEF SettleTx
    <2> QED
      BY <1>1, <1>4, <2>1, EmitsOne
  <1>6. PICK r : Adds(a, {r}) /\ Carries(r, e, 1 + 1)
    BY <1>5
  <1>7. /\ r.name = MoveName[State(a)'] /\ r.before = State(a) /\ r.after = State(a)'
        /\ r.proof = c /\ r.amount = agreement'[a].settledTotal - agreement[a].settledTotal
    BY <1>2, <1>4, <1>6 DEF Carries, MoveName
  <1>8. c # Default => \E p \in Named(All(a), {"ProofApproved"}) : p.proof = c
    <2>1. CitedProofValid(a, c, core) /\ ProofsTold(a)
      BY DEF SettleTx, Settle, HistoryInv, Told
    <2> QED
      BY <2>1, CitationTold
  <1> QED
    BY <1>2, <1>5, <1>6, <1>7, <1>8, ClosingTold

LEMMA RefundingTold ==
    ASSUME HistoryInv, ScheduleInv', NEW w, NEW a \in Agreements, NEW d \in Owners,
           RefundTx(w, a, d)
    PROVE  Continued(a)
  <1>1. TypeOK /\ TypeOK' /\ Chain /\ Default \in Citations
    BY BeforeAndAfter DEF Citations
  <1>2. /\ Closed(a, d, agreement[a].settlementProof) /\ OnlyAccountsOf(a)
        /\ State(a) \in {"Funded", "Completed"} /\ State(a)' = "Refunded"
    BY <1>1, RefundsAgreement DEF RefundTx
  <1>3. PICK e \in EventRecords : e = Pays("RefundExecuted", a, Default)
    BY <1>1, <1>2, ClosingPays, PaysTyped DEF EventNames, EventType
  <1>4. /\ e.name = "RefundExecuted" /\ e.agreement = a
        /\ e.before = State(a) /\ e.after = State(a)'
        /\ e.amount = agreement'[a].settledTotal - agreement[a].settledTotal
    BY <1>1, <1>2, <1>3, ClosingPays, PaysTyped DEF EventNames, EventType
  <1>5. Chain' /\ \E r : Adds(a, {r}) /\ Carries(r, e, 1 + 1)
    <2>1. 1 \in 0 .. 1 /\ Emits(1, <<e>>)
      BY <1>3 DEF RefundTx
    <2> QED
      BY <1>1, <1>4, <2>1, EmitsOne
  <1>6. PICK r : Adds(a, {r}) /\ Carries(r, e, 1 + 1)
    BY <1>5
  <1>7. /\ r.name = MoveName[State(a)'] /\ r.name # "SettlementExecuted"
        /\ r.before = State(a) /\ r.after = State(a)'
        /\ r.amount = agreement'[a].settledTotal - agreement[a].settledTotal
    BY <1>2, <1>4, <1>6 DEF Carries, MoveName
  <1> QED
    BY <1>2, <1>5, <1>6, <1>7, ClosingTold

LEMMA ResolvingTold ==
    ASSUME HistoryInv, ScheduleInv', NEW w, NEW a \in Agreements, NEW d \in Owners,
           ResolveDisputeTx(w, a, d)
    PROVE  Continued(a)
  <1> DEFINE name == IF State(a)' = "Settled" THEN "SettlementExecuted" ELSE "RefundExecuted"
  <1>1. TypeOK /\ TypeOK' /\ Chain /\ Default \in Citations
    BY BeforeAndAfter DEF Citations
  <1>2. /\ Closed(a, d, agreement[a].settlementProof) /\ OnlyAccountsOf(a)
        /\ State(a) = "Disputed" /\ State(a)' \in {"Settled", "Refunded"}
    BY <1>1, ResolvesDispute DEF ResolveDisputeTx
  <1>3. name \in EventNames /\ name = MoveName[State(a)']
    BY <1>2 DEF EventNames, EventType, MoveName
  <1>4. PICK n : n = name
    OBVIOUS
  <1>5. PICK f \in EventRecords : f = Pays(n, a, Default)
    BY <1>1, <1>2, <1>3, <1>4, ClosingPays, PaysTyped
  <1>6. /\ f.name = n /\ f.agreement = a
        /\ f.before = State(a) /\ f.after = State(a)' /\ f.proof = Default
        /\ f.amount = agreement'[a].settledTotal - agreement[a].settledTotal
    BY <1>1, <1>2, <1>3, <1>4, <1>5, ClosingPays, PaysTyped
  <1>7. PICK e \in EventRecords : e = Note("DisputeResolved", a)
    BY <1>1, EventTyped DEF EventNames, EventType
  <1>8. /\ e.name = "DisputeResolved" /\ e.agreement = a
        /\ e.before = State(a)' /\ e.after = State(a)'
    BY <1>7 DEF Note, Event
  <1>9. Emits(1, <<e, f>>)
    BY <1>4, <1>5, <1>7 DEF ResolveDisputeTx
  <1>10. Chain' /\ \E r, q : Adds(a, {r, q}) /\ Carries(r, e, 2) /\ Carries(q, f, 3)
    BY <1>1, <1>6, <1>8, <1>9, EmitsTwo
  <1>11. PICK r, q : Adds(a, {r, q}) /\ Carries(r, e, 2) /\ Carries(q, f, 3)
    BY <1>10
  <1>12. /\ r.name = "DisputeResolved" /\ r.before = State(a)' /\ r.after = State(a)'
         /\ q.name = MoveName[State(a)'] /\ q.before = State(a) /\ q.after = State(a)'
         /\ q.proof = Default
         /\ q.amount = agreement'[a].settledTotal - agreement[a].settledTotal
         /\ r # q
    BY <1>2, <1>3, <1>4, <1>6, <1>8, <1>11 DEF Carries
  <1>13. /\ q \in {r, q} /\ {r, q} \ {q} # {}
         /\ \A p \in {r, q} \ {q} : /\ p.name = "DisputeResolved"
                                    /\ p.before = State(a)' /\ p.after = State(a)'
    BY <1>12
  <1> QED
    BY <1>2, <1>10, <1>11, <1>12, <1>13, ClosingTold

LEMMA MilestoneNoteTyped ==
    ASSUME TypeOK, TypeOK', NEW a \in Agreements, NEW name \in EventNames, NEW i \in Nat
    PROVE  \E e \in EventRecords :
                /\ e = MilestoneNote(name, a, i)
                /\ e.name = name /\ e.agreement = a /\ e.index = i
                /\ e.before = State(a)' /\ e.after = State(a)'
  <1> DEFINE note == Note(name, a)
  <1>1. /\ note \in EventRecords /\ note.name = name /\ note.agreement = a
        /\ note.before = State(a)' /\ note.after = State(a)'
    BY EventTyped DEF Note, Event
  <1>2. MilestoneNote(name, a, i) = [note EXCEPT !.index = i]
    BY DEF MilestoneNote
  <1> HIDE DEF note
  <1> QED
    BY <1>1, <1>2 DEF EventRecords

LEMMA ProofNoteTyped ==
    ASSUME TypeOK, TypeOK', NEW a \in Agreements, NEW name \in EventNames, NEW i \in Nat,
           <<a, i>> \in Citations
    PROVE  \E e \in EventRecords :
                /\ e = ProofNote(name, a, i)
                /\ e.name = name /\ e.agreement = a /\ e.index = i /\ e.proof = <<a, i>>
                /\ e.before = State(a)' /\ e.after = State(a)'
  <1> DEFINE note == Note(name, a)
  <1>1. /\ note \in EventRecords /\ note.name = name /\ note.agreement = a
        /\ note.before = State(a)' /\ note.after = State(a)'
    BY EventTyped DEF Note, Event
  <1>2. ProofNote(name, a, i) = [note EXCEPT !.index = i, !.proof = <<a, i>>]
    BY DEF ProofNote
  <1> HIDE DEF note
  <1> QED
    BY <1>1, <1>2 DEF EventRecords

LEMMA SchedulingTold ==
    ASSUME HistoryInv, ScheduleInv', NEW w, NEW a \in Agreements, NEW n \in Amounts, NEW h,
           CreateMilestoneTx(w, a, n, h)
    PROVE  Continued(a)
  <1> DEFINE i == agreement[a].milestoneCount
  <1>1. /\ TypeOK /\ TypeOK' /\ Chain /\ n \in Nat /\ i \in Nat
        /\ agreement[a].milestoneTotal \in Nat
    BY BeforeAndAfter, AmountAssumption
  <1>2. i \in MilestoneSlots /\ Scheduled(a, i, n) /\ OnlyAccountsOf(a)
    BY <1>1, SchedulesTranche DEF CreateMilestoneTx
  <1>3. Told(a)
    BY DEF HistoryInv
  <1>4. PICK note \in EventRecords :
            /\ note = MilestoneNote("MilestoneCreated", a, i)
            /\ note.name = "MilestoneCreated" /\ note.agreement = a /\ note.index = i
            /\ note.before = State(a)' /\ note.after = State(a)'
    <2>1. "MilestoneCreated" \in EventNames
      BY DEF EventNames, EventType
    <2> HIDE DEF i
    <2> QED
      BY <1>1, <2>1, MilestoneNoteTyped
  <1>5. PICK e \in EventRecords : e = [note EXCEPT !.amount = n]
    BY <1>1 DEF EventRecords
  <1>6. /\ e.name = "MilestoneCreated" /\ e.agreement = a /\ e.before = State(a)'
        /\ e.after = State(a)' /\ e.index = i /\ e.amount = n
    BY <1>4, <1>5 DEF EventRecords
  <1>7. Chain' /\ \E r : Adds(a, {r}) /\ Carries(r, e, 1 + 1)
    <2>1. 1 \in 0 .. 1 /\ Emits(1, <<e>>)
      BY <1>4, <1>5 DEF CreateMilestoneTx
    <2> QED
      BY <1>1, <1>6, <2>1, EmitsOne
  <1>8. PICK r : Adds(a, {r}) /\ Carries(r, e, 1 + 1)
    BY <1>7
  <1>9. /\ State(a) = "Open" /\ State(a)' = "Open"
        /\ KeepsDeal(a) /\ KeepsPayee(a) /\ KeepsProofs(a) /\ IsMilestoneContract(a)
        /\ agreement'[a].settledTotal = agreement[a].settledTotal
        /\ agreement'[a].milestoneCount = i + 1
        /\ agreement'[a].milestoneTotal = agreement[a].milestoneTotal + n
        /\ milestone'[a][i].state = "Pending"
        /\ \A j \in MilestoneSlots \ {i} : milestone'[a][j] = milestone[a][j]
        /\ proof'[a] = proof[a]
    BY <1>2 DEF Scheduled, KeepsPayments
  <1>10. /\ r.name = "MilestoneCreated" /\ r.before = State(a) /\ r.after = State(a)
         /\ r.index = i /\ r.amount = n
    BY <1>6, <1>8, <1>9 DEF Carries
  <1>11. milestone[a][i].state = "Absent"
    <2>1. Dense(a)
      BY BeforeAndAfter
    <2> QED
      BY <1>1, <1>2, <2>1 DEF Dense
  <1> HIDE DEF i
  <1>12. PathTold(a)'
    BY <1>1, <1>3, <1>8, <1>9, <1>10, PathKept DEF Told
  <1>13. MovesTold(a)'
    <2>1. State(a)' \notin FundedStates /\ State(a) \notin FundedStates
      BY <1>9 DEF FundedStates, LiveStates
    <2>2. IsMilestoneContract(a)'
      BY <1>9 DEF IsMilestoneContract, KeepsDeal
    <2> QED
      BY <1>3, <1>8, <1>9, <1>10, <2>1, <2>2, MovesGrow DEF Told, IsTransition, AlwaysMove
  <1>14. MoneyTold(a)'
    <2>1. KeepsPaid(a)
      BY <1>9, <1>11 DEF KeepsPaid, FundedStates, LiveStates
    <2> QED
      BY <1>3, <1>8, <1>9, <1>10, <2>1, MoneyKept DEF Told
  <1>15. PayeeTold(a)'
    BY <1>3, <1>8, <1>9, <1>10, PayeeKept DEF Told
  <1>16. ProofsTold(a)'
    BY <1>3, <1>8, <1>9, <1>10, ProofsKept DEF Told, Decisions
  <1>17. TranchesTold(a)'
    <2>1. i = agreement[a].milestoneCount
      BY DEF i
    <2> QED
      BY <1>1, <1>2, <1>3, <1>8, <1>9, <1>10, <2>1, TranchesCreated DEF Told
  <1>18. DisputesTold(a)'
    BY <1>3, <1>8, <1>9, <1>10, DisputesKept DEF Told
  <1> QED
    BY <1>2, <1>3, <1>7, <1>8, <1>12, <1>13, <1>14, <1>15, <1>16, <1>17, <1>18, Continues
    DEF Told

\* submit_milestone, approve_milestone, reject_milestone
LEMMA WorkingTold ==
    ASSUME HistoryInv, ScheduleInv', NEW a \in Agreements, NEW i \in MilestoneSlots,
           NEW from \in {"Pending", "Submitted"},
           NEW name \in {"MilestoneSubmitted", "MilestoneApproved", "MilestoneRejected"},
           MoveMilestone(a, i, from, StepState[name]),
           Emits(0, <<MilestoneNote(name, a, i)>>)
    PROVE  Continued(a)
  <1>1. /\ TypeOK /\ TypeOK' /\ Chain /\ i \in Nat /\ agreement[a].milestoneCount \in Nat
        /\ StepState[name] \in {"Pending", "Submitted", "Approved"}
    BY BeforeAndAfter, LimitAssumption DEF StepState, MilestoneSlots
  <1>2. /\ Worked(a, i) /\ OnlyAccountsOf(a)
        /\ milestone[a][i].state = from /\ milestone'[a][i].state = StepState[name]
    BY <1>1, WorksOnTranche
  <1>3. Told(a)
    BY DEF HistoryInv
  <1>4. name \in EventNames
    BY DEF EventNames, EventType
  <1>5. PICK e \in EventRecords : /\ e = MilestoneNote(name, a, i)
                                   /\ e.name = name /\ e.agreement = a /\ e.index = i
                                   /\ e.before = State(a)' /\ e.after = State(a)'
    BY <1>1, <1>4, MilestoneNoteTyped
  <1>6. /\ e.name = name /\ e.agreement = a /\ e.before = State(a)'
        /\ e.after = State(a)' /\ e.index = i
    BY <1>5
  <1>7. Chain' /\ \E r : Adds(a, {r}) /\ Carries(r, e, 0 + 1)
    <2>1. 0 \in 0 .. 1 /\ Emits(0, <<e>>)
      BY <1>5
    <2> QED
      BY <1>1, <1>6, <2>1, EmitsOne
  <1>8. PICK r : Adds(a, {r}) /\ Carries(r, e, 0 + 1)
    BY <1>7
  <1>9. /\ State(a) = "Funded" /\ State(a)' = "Funded"
        /\ KeepsDeal(a) /\ KeepsPayee(a) /\ KeepsSchedule(a) /\ KeepsProofs(a)
        /\ agreement'[a].settledTotal = agreement[a].settledTotal
        /\ \A j \in MilestoneSlots \ {i} : milestone'[a][j] = milestone[a][j]
        /\ proof'[a] = proof[a]
    BY <1>2 DEF Worked, State, KeepsDeal, KeepsPayee, KeepsSchedule, KeepsProofs
  <1>10. /\ r.name = name /\ r.before = State(a) /\ r.after = State(a)
         /\ r.index = i /\ r.inner = 1
    BY <1>6, <1>8, <1>9 DEF Carries
  <1>11. PathTold(a)'
    BY <1>1, <1>3, <1>8, <1>9, <1>10, PathKept DEF Told
  <1>12. MovesTold(a)'
    BY <1>3, <1>8, <1>9, <1>10, MovesKept DEF Told, IsTransition, AlwaysMove
  <1>13. MoneyTold(a)'
    <2>1. KeepsPaid(a)
      BY <1>2, <1>9 DEF KeepsPaid
    <2> QED
      BY <1>3, <1>8, <1>9, <1>10, <2>1, MoneyKept DEF Told
  <1>14. PayeeTold(a)'
    BY <1>3, <1>8, <1>9, <1>10, PayeeKept DEF Told
  <1>15. ProofsTold(a)'
    BY <1>3, <1>8, <1>9, <1>10, ProofsKept DEF Told, Decisions
  <1>16. TranchesTold(a)'
    <2>1. i < agreement[a].milestoneCount
      <3>1. Dense(a)
        BY BeforeAndAfter
      <3> QED
        BY <1>2, <3>1 DEF Dense
    <2>2. r.name \in MilestoneSteps /\ r.name # "MilestoneSettled"
      BY <1>10 DEF MilestoneSteps
    <2> QED
      BY <1>1, <1>2, <1>3, <1>8, <1>9, <1>10, <2>1, <2>2, TranchesStepped DEF Told
  <1>17. DisputesTold(a)'
    BY <1>3, <1>8, <1>9, <1>10, DisputesKept DEF Told
  <1> QED
    BY <1>2, <1>3, <1>7, <1>8, <1>11, <1>12, <1>13, <1>14, <1>15, <1>16, <1>17, Continues
    DEF Told

\* settle_milestone: the note, and a payment that may be the last.
LEMMA TranchePaymentTold ==
    ASSUME HistoryInv, ScheduleInv', NEW w, NEW a \in Agreements, NEW i \in MilestoneSlots,
           NEW d \in Owners, NEW c \in Citations, NEW core,
           SettleMilestoneTx(w, a, i, d, c, core)
    PROVE  Continued(a)
  <1> DEFINE n == milestone[a][i].amount
  <1>1. /\ TypeOK /\ TypeOK' /\ Chain /\ i \in Nat /\ agreement[a].milestoneCount \in Nat
        /\ State(a) \in States /\ State(a)' \in States
        /\ agreement[a].settledTotal \in Nat /\ agreement'[a].settledTotal \in Nat
    BY BeforeAndAfter, LimitAssumption DEF MilestoneSlots
  <1>2. n \in Nat /\ TranchePaid(a, i, n, c) /\ OnlyAccountsOf(a)
    BY <1>1, PaysTranche DEF SettleMilestoneTx
  <1>3. Told(a)
    BY DEF HistoryInv
  <1>4. /\ State(a) = "Funded" /\ State(a)' \in {"Settled", "Funded"}
        /\ KeepsDeal(a) /\ KeepsPayee(a) /\ KeepsSchedule(a) /\ KeepsProofs(a)
        /\ milestone[a][i].state = "Approved" /\ milestone'[a][i].state = "Settled"
        /\ agreement'[a].settledTotal = agreement[a].settledTotal + n
        /\ \A j \in MilestoneSlots \ {i} : milestone'[a][j] = milestone[a][j]
        /\ proof'[a] = proof[a]
    BY <1>2 DEF TranchePaid
  <1>5. n > 0 /\ i < agreement[a].milestoneCount
    <2>1. Tranches(a) /\ Dense(a)
      BY BeforeAndAfter
    <2> QED
      BY <1>4, <2>1 DEF Tranches, Dense
  <1>6. agreement'[a].settledTotal - agreement[a].settledTotal = n
    <2> HIDE DEF n
    <2> QED
      BY <1>1, <1>2, <1>4
  <1>7. PICK e \in EventRecords :
            /\ e = MilestoneNote("MilestoneSettled", a, i)
            /\ e.name = "MilestoneSettled" /\ e.agreement = a /\ e.index = i
            /\ e.before = State(a)' /\ e.after = State(a)'
    BY <1>1, MilestoneNoteTyped DEF EventNames, EventType
  <1>8. PICK f \in EventRecords : f = Pays("SettlementExecuted", a, c)
    BY <1>1, <1>2, <1>6, PaysTyped DEF EventNames, EventType
  <1>9. /\ f.name = "SettlementExecuted" /\ f.agreement = a
        /\ f.before = State(a) /\ f.after = State(a)' /\ f.proof = c /\ f.amount = n
    BY <1>1, <1>2, <1>6, <1>8, PaysTyped DEF EventNames, EventType
  <1>10. Chain' /\ \E r, q : Adds(a, {r, q}) /\ Carries(r, e, 2) /\ Carries(q, f, 3)
    <2>1. Emits(1, <<e, f>>)
      BY <1>7, <1>8 DEF SettleMilestoneTx
    <2> QED
      BY <1>1, <1>7, <1>9, <2>1, EmitsTwo
  <1>11. PICK r, q : Adds(a, {r, q}) /\ Carries(r, e, 2) /\ Carries(q, f, 3)
    BY <1>10
  <1>12. /\ r.name = "MilestoneSettled" /\ r.before = State(a)' /\ r.after = State(a)'
         /\ r.index = i /\ r.inner = 2
         /\ q.name = "SettlementExecuted" /\ q.before = State(a) /\ q.after = State(a)'
         /\ q.proof = c /\ q.amount = n
         /\ {r, q} \ {q} = {r} /\ {r, q} \ {r} = {q}
    BY <1>7, <1>9, <1>11 DEF Carries
  <1> HIDE DEF n
  <1>13. PathTold(a)'
    <2>1. CASE State(a)' = "Funded"
      BY <1>1, <1>3, <1>4, <1>11, <1>12, <2>1, PathKept DEF Told
    <2>2. CASE State(a)' = "Settled"
      <3>1. StateRank["Funded"] < StateRank["Settled"]
        BY DEF StateRank
      <3>2. PathTold(a) /\ q \in {r, q}
        BY <1>3 DEF Told
      <3> QED
        BY <1>1, <1>4, <1>11, <1>12, <2>2, <3>1, <3>2, PathGrows
    <2> QED
      BY <1>4, <2>1, <2>2
  <1>14. MovesTold(a)'
    <2>1. State(a)' \in FundedStates /\ State(a) \in FundedStates
      BY <1>4 DEF FundedStates, LiveStates
    <2>2. /\ IsTransition(q) => q.after = "Settled"
          /\ ~IsTransition(r) /\ MoveName["Settled"] = "SettlementExecuted"
          /\ r.name \notin AlwaysMove /\ q.name \notin AlwaysMove
      BY <1>4, <1>12 DEF IsTransition, AlwaysMove, MoveName
    <2> QED
      BY <1>3, <1>4, <1>11, <1>12, <2>1, <2>2, MovesKept DEF Told
  <1>15. MoneyTold(a)'
    <2>1. KeepsPaid(a) /\ State(a)' \in FundedStates
      BY <1>4 DEF KeepsPaid, FundedStates, LiveStates
    <2>2. q.proof # Default =>
                \E p \in Named(All(a), {"ProofApproved"}) : p.proof = q.proof
      <3>1. CitedProofValid(a, c, core) /\ ProofsTold(a)
        BY <1>3 DEF SettleMilestoneTx, SettleMilestone, Told
      <3> QED
        BY <1>12, <3>1, CitationTold
    <2>3. q \in {r, q} /\ MoneyTold(a) /\ IsFiniteSet(All(a))
      BY <1>3 DEF Told
    <2> QED
      BY <1>1, <1>4, <1>5, <1>11, <1>12, <2>1, <2>2, <2>3, MoneyGrows
  <1>16. PayeeTold(a)'
    BY <1>3, <1>4, <1>11, <1>12, PayeeKept DEF Told
  <1>17. ProofsTold(a)'
    BY <1>3, <1>4, <1>11, <1>12, ProofsKept DEF Told, Decisions
  <1>18. TranchesTold(a)'
    <2>1. /\ r \in {r, q} /\ r.name \in MilestoneSteps
          /\ q.name \notin {"MilestoneCreated"} \cup MilestoneSteps
          /\ StepState["MilestoneSettled"] = "Settled"
      BY <1>12 DEF MilestoneSteps, StepState
    <2>2. TranchesTold(a)
      BY <1>3 DEF Told
    <2> QED
      BY <1>1, <1>4, <1>5, <1>11, <1>12, <2>1, <2>2, TranchesStepped
  <1>19. DisputesTold(a)'
    BY <1>3, <1>4, <1>11, <1>12, DisputesKept DEF Told
  <1> QED
    BY <1>2, <1>3, <1>10, <1>11, <1>13, <1>14, <1>15, <1>16, <1>17, <1>18, <1>19, Continues
    DEF Told

\* submit_proof, approve_proof, reject_proof: the parts that no evidence changes.
LEMMA EvidenceTold ==
    ASSUME HistoryInv, ScheduleInv', NEW a \in Agreements, OnlyAccountsOf(a), Chain',
           NEW r, Adds(a, {r}), IsLive(a), State(a)' = State(a),
           KeepsDeal(a), KeepsPayee(a), KeepsSchedule(a),
           agreement'[a].settledTotal = agreement[a].settledTotal,
           milestone'[a] = milestone[a],
           r.name \in {"ProofSubmitted"} \cup Decisions,
           r.before = State(a), r.after = State(a), ProofsTold(a)'
    PROVE  Continued(a)
  <1>1. Chain /\ Told(a) /\ State(a) \in LiveStates
    BY DEF HistoryInv, IsLive
  <1>2. r.name \in {"ProofSubmitted", "ProofApproved", "ProofRejected"}
    BY DEF Decisions
  <1>3. State(a) # "Absent" /\ State(a) \notin {"Settled", "Refunded"}
    BY <1>1 DEF LiveStates
  <1>4. PathTold(a)'
    BY <1>1, <1>3, PathKept DEF Told
  <1>5. MovesTold(a)'
    BY <1>1, <1>2, MovesKept DEF Told, IsTransition, AlwaysMove
  <1>6. MoneyTold(a)'
    <2>1. KeepsPaid(a)
      BY <1>3 DEF KeepsPaid
    <2> QED
      BY <1>1, <1>2, <2>1, MoneyKept DEF Told
  <1>7. PayeeTold(a)'
    BY <1>1, <1>2, <1>3, PayeeKept DEF Told
  <1>8. TranchesTold(a)'
    BY <1>1, <1>2, TranchesKept DEF Told, MilestoneSteps
  <1>9. DisputesTold(a)'
    BY <1>1, <1>2, <1>3, DisputesKept DEF Told
  <1> QED
    BY <1>1, <1>4, <1>5, <1>6, <1>7, <1>8, <1>9, Continues DEF Told

LEMMA SubmittingTold ==
    ASSUME HistoryInv, ScheduleInv', NEW w \in Wallets, NEW a \in Agreements, NEW h,
           SubmitProofTx(w, a, h)
    PROVE  Continued(a)
  <1>1. TypeOK /\ TypeOK' /\ Chain /\ Anchored(a)
    BY BeforeAndAfter
  <1>2. PICK i \in ProofSlots : i = agreement[a].proofCount
    BY <1>1, SubmitsEvidence DEF SubmitProofTx
  <1>3. ProofSubmitted(a, i, w) /\ OnlyAccountsOf(a)
    BY <1>1, <1>2, SubmitsEvidence DEF SubmitProofTx
  <1>4. i \in Nat /\ <<a, i>> \in Citations
    BY LimitAssumption DEF ProofSlots, Citations
  <1>5. PICK e \in EventRecords :
            /\ e = ProofNote("ProofSubmitted", a, i)
            /\ e.name = "ProofSubmitted" /\ e.agreement = a /\ e.index = i
            /\ e.proof = <<a, i>> /\ e.before = State(a)' /\ e.after = State(a)'
    BY <1>1, <1>4, ProofNoteTyped DEF EventNames, EventType
  <1>6. Chain' /\ \E r : Adds(a, {r}) /\ Carries(r, e, 1 + 1)
    <2>1. 1 \in 0 .. 1 /\ Emits(1, <<e>>)
      BY <1>2, <1>5 DEF SubmitProofTx
    <2> QED
      BY <1>1, <1>5, <2>1, EmitsOne
  <1>7. PICK r : Adds(a, {r}) /\ Carries(r, e, 1 + 1)
    BY <1>6
  <1>8. /\ IsLive(a) /\ State(a)' = State(a)
        /\ KeepsDeal(a) /\ KeepsPayee(a) /\ KeepsSchedule(a)
        /\ agreement'[a].settledTotal = agreement[a].settledTotal
        /\ milestone'[a] = milestone[a]
        /\ agreement'[a].proofCount = i + 1 /\ proof'[a][i].status = "Submitted"
        /\ \A j \in ProofSlots \ {i} : proof'[a][j] = proof[a][j]
    BY <1>3 DEF ProofSubmitted, KeepsPayments
  <1>9. /\ r.name = "ProofSubmitted" /\ r.index = i
        /\ r.before = State(a) /\ r.after = State(a)
    BY <1>5, <1>7, <1>8 DEF Carries
  <1>10. proof[a][i].status = "Absent"
    BY <1>1, <1>2, <1>4 DEF Anchored
  <1>11. ProofsTold(a)'
    <2>1. ProofsTold(a)
      BY DEF HistoryInv, Told
    <2> QED
      BY <1>2, <1>7, <1>8, <1>9, <1>10, <2>1, ProofsSubmitted
  <1> QED
    BY <1>3, <1>6, <1>7, <1>8, <1>9, <1>11, EvidenceTold

LEMMA DecidingTold ==
    ASSUME HistoryInv, ScheduleInv', NEW w, NEW a \in Agreements, NEW i \in ProofSlots,
           NEW name, NEW decision,
           \/ name = "ProofApproved" /\ decision = "Approved"
           \/ name = "ProofRejected" /\ decision = "Rejected",
           DecideProof(w, a, i, decision), Emits(0, <<ProofNote(name, a, i)>>)
    PROVE  Continued(a)
  <1>1. TypeOK /\ TypeOK' /\ Chain
    BY BeforeAndAfter
  <1>2. /\ ProofDecided(a, i, w) /\ OnlyAccountsOf(a) /\ IsLive(a)
        /\ proof'[a][i].status = decision
    BY <1>1, DecidesEvidence
  <1>3. i \in Nat /\ <<a, i>> \in Citations /\ name \in EventNames
    BY LimitAssumption DEF ProofSlots, Citations, EventNames, EventType
  <1>4. PICK e \in EventRecords :
            /\ e = ProofNote(name, a, i)
            /\ e.name = name /\ e.agreement = a /\ e.index = i
            /\ e.proof = <<a, i>> /\ e.before = State(a)' /\ e.after = State(a)'
    BY <1>1, <1>3, ProofNoteTyped
  <1>5. Chain' /\ \E r : Adds(a, {r}) /\ Carries(r, e, 0 + 1)
    <2>1. 0 \in 0 .. 1 /\ Emits(0, <<e>>)
      BY <1>4
    <2> QED
      BY <1>1, <1>4, <2>1, EmitsOne
  <1>6. PICK r : Adds(a, {r}) /\ Carries(r, e, 0 + 1)
    BY <1>5
  <1>7. /\ State(a)' = State(a)
        /\ KeepsDeal(a) /\ KeepsPayee(a) /\ KeepsSchedule(a) /\ KeepsProofs(a)
        /\ agreement'[a].settledTotal = agreement[a].settledTotal
        /\ milestone'[a] = milestone[a]
        /\ proof[a][i].status = "Submitted"
        /\ \A j \in ProofSlots \ {i} : proof'[a][j] = proof[a][j]
    BY <1>2 DEF ProofDecided, State, KeepsDeal, KeepsPayee, KeepsSchedule, KeepsProofs
  <1>8. /\ r.name = name /\ r.index = i /\ r.proof = <<a, i>>
        /\ r.before = State(a) /\ r.after = State(a)
    BY <1>4, <1>6, <1>7 DEF Carries
  <1>9. ProofsTold(a)'
    <2>1. ProofsTold(a)
      BY DEF HistoryInv, Told
    <2> QED
      BY <1>2, <1>6, <1>7, <1>8, <2>1, ProofsDecided
  <1> QED
    BY <1>2, <1>5, <1>6, <1>7, <1>8, <1>9, EvidenceTold DEF Decisions
-----------------------------------------------------------------------------
(* Every step of the escrow with its history. *)

LEMMA LifecycleTold ==
    ASSUME HistoryInv, ScheduleInv', NEW w \in Wallets, NEW a \in Agreements,
           LifecycleEvents(w, a)
    PROVE  Continued(a)
  <1> USE DEF Owners
  <1>1. CASE \E p \in Owners, t \in AgreementType, n \in Amounts, h \in Hashes :
                InitializeAgreementTx(w, a, p, t, n, h)
    BY <1>1, OpeningTold
  <1>2. CASE \E p \in Owners : SelectCounterpartyTx(w, a, p)
    BY <1>2, ChoosingTold
  <1>3. CASE FundTx(w, a)
    BY <1>3, FundingTold
  <1>4. CASE CancelTx(w, a)
    <2>1. /\ Moved(a) /\ OnlyAccountsOf(a) /\ State(a)' = "Cancelled"
          /\ Emits(0, <<Change("AgreementAbandoned", a)>>)
      BY <1>4, BeforeAndAfter, MovesState DEF CancelTx
    <2> QED
      BY <2>1, MovingTold DEF MoveName, AlwaysMove
  <1>5. CASE MarkCompletedTx(w, a)
    <2>1. /\ Moved(a) /\ OnlyAccountsOf(a) /\ State(a)' = "Completed"
          /\ Emits(0, <<Change("WorkCompleted", a)>>)
      BY <1>5, BeforeAndAfter, MovesState DEF MarkCompletedTx
    <2> QED
      BY <2>1, MovingTold DEF MoveName, AlwaysMove
  <1>6. CASE \E h \in Hashes : OpenDisputeTx(w, a, h)
    <2>1. /\ Moved(a) /\ OnlyAccountsOf(a) /\ State(a)' = "Disputed"
          /\ Emits(0, <<Change("DisputeOpened", a)>>)
      BY <1>6, BeforeAndAfter, MovesState DEF OpenDisputeTx
    <2> QED
      BY <2>1, MovingTold DEF MoveName, AlwaysMove
  <1>7. CASE \E d \in Owners, c \in Citations, r \in Addresses \cup {Default} :
                SettleTx(w, a, d, c, r)
    BY <1>7, SettlingTold
  <1>8. CASE \E d \in Owners : RefundTx(w, a, d) \/ ResolveDisputeTx(w, a, d)
    BY <1>8, RefundingTold, ResolvingTold
  <1> QED
    BY <1>1, <1>2, <1>3, <1>4, <1>5, <1>6, <1>7, <1>8 DEF LifecycleEvents

LEMMA TrancheTold ==
    ASSUME HistoryInv, ScheduleInv', NEW w \in Wallets, NEW a \in Agreements,
           TrancheEvents(w, a)
    PROVE  Continued(a)
  <1>1. CASE \E n \in Amounts, h \in Hashes : CreateMilestoneTx(w, a, n, h)
    BY <1>1, SchedulingTold
  <1>2. CASE \E i \in MilestoneSlots : SubmitMilestoneTx(w, a, i)
    <2>1. PICK i \in MilestoneSlots :
                /\ MoveMilestone(a, i, "Pending", StepState["MilestoneSubmitted"])
                /\ Emits(0, <<MilestoneNote("MilestoneSubmitted", a, i)>>)
      BY <1>2 DEF SubmitMilestoneTx, SubmitMilestone, StepState
    <2> QED
      BY <2>1, WorkingTold
  <1>3. CASE \E i \in MilestoneSlots : ApproveMilestoneTx(w, a, i)
    <2>1. PICK i \in MilestoneSlots :
                /\ MoveMilestone(a, i, "Submitted", StepState["MilestoneApproved"])
                /\ Emits(0, <<MilestoneNote("MilestoneApproved", a, i)>>)
      BY <1>3 DEF ApproveMilestoneTx, ApproveMilestone, StepState
    <2> QED
      BY <2>1, WorkingTold
  <1>4. CASE \E i \in MilestoneSlots : RejectMilestoneTx(w, a, i)
    <2>1. PICK i \in MilestoneSlots :
                /\ MoveMilestone(a, i, "Submitted", StepState["MilestoneRejected"])
                /\ Emits(0, <<MilestoneNote("MilestoneRejected", a, i)>>)
      BY <1>4 DEF RejectMilestoneTx, RejectMilestone, StepState
    <2> QED
      BY <2>1, WorkingTold
  <1>5. CASE \E i \in MilestoneSlots, d \in Owners, c \in Citations,
                r \in Addresses \cup {Default} : SettleMilestoneTx(w, a, i, d, c, r)
    BY <1>5, TranchePaymentTold
  <1> QED
    BY <1>1, <1>2, <1>3, <1>4, <1>5 DEF TrancheEvents, Owners

LEMMA EvidenceEventsTold ==
    ASSUME HistoryInv, ScheduleInv', NEW w \in Wallets, NEW a \in Agreements,
           EvidenceEvents(w, a)
    PROVE  Continued(a)
  <1>1. CASE \E h \in Hashes : SubmitProofTx(w, a, h)
    BY <1>1, SubmittingTold
  <1>2. CASE \E i \in ProofSlots : ApproveProofTx(w, a, i) \/ RejectProofTx(w, a, i)
    BY <1>2, DecidingTold DEF ApproveProofTx, RejectProofTx, ApproveProof, RejectProof
  <1> QED
    BY <1>1, <1>2 DEF EvidenceEvents

LEMMA HistoryIsEscrow == HistoryNext => Next
  <1> SUFFICES ASSUME NEW w \in Wallets, NEW a \in Agreements,
                      LifecycleEvents(w, a) \/ TrancheEvents(w, a) \/ EvidenceEvents(w, a)
               PROVE  Lifecycle(w, a) \/ Tranche(w, a) \/ Evidence(w, a)
    BY DEF HistoryNext, Next, EscrowNext
  <1>1. CASE LifecycleEvents(w, a)
    BY <1>1
    DEF LifecycleEvents, Lifecycle, InitializeAgreementTx, SelectCounterpartyTx, FundTx,
        CancelTx, MarkCompletedTx, SettleTx, RefundTx, ResolveDisputeTx, OpenDisputeTx,
        InitializeAgreement, Settle
  <1>2. CASE TrancheEvents(w, a)
    BY <1>2
    DEF TrancheEvents, Tranche, CreateMilestoneTx, SubmitMilestoneTx, ApproveMilestoneTx,
        RejectMilestoneTx, SettleMilestoneTx, SettleMilestone
  <1>3. CASE EvidenceEvents(w, a)
    BY <1>3 DEF EvidenceEvents, Evidence, SubmitProofTx, ApproveProofTx, RejectProofTx
  <1> QED
    BY <1>1, <1>2, <1>3

LEMMA HistoryStep == HistoryInv /\ [HistoryNext]_historyVars => HistoryInv'
  <1> SUFFICES ASSUME HistoryInv, [HistoryNext]_historyVars PROVE HistoryInv'
    OBVIOUS
  <1>1. ScheduleInv'
    <2>1. [Next]_vars
      BY HistoryIsEscrow DEF historyVars
    <2> QED
      BY <2>1, ScheduleStep DEF HistoryInv
  <1>2. CASE HistoryNext
    <2>1. PICK w \in Wallets, a \in Agreements :
                LifecycleEvents(w, a) \/ TrancheEvents(w, a) \/ EvidenceEvents(w, a)
      BY <1>2 DEF HistoryNext
    <2>2. Continued(a)
      BY <1>1, <2>1, LifecycleTold, TrancheTold, EvidenceEventsTold
    <2>3. PICK N : Adds(a, N)
      BY <2>2 DEF Continued
    <2>4. ASSUME NEW b \in Agreements \ {a} PROVE Told(b)'
      <3>1. /\ All(b)' = All(b) /\ agreement'[b] = agreement[b]
            /\ milestone'[b] = milestone[b] /\ proof'[b] = proof[b]
        BY <2>2, <2>3 DEF Adds, Continued, OnlyAccountsOf
      <3>2. Told(b)
        BY DEF HistoryInv
      <3> QED
        BY <3>1, <3>2, ToldUntouched
    <2> QED
      BY <1>1, <2>2, <2>4 DEF HistoryInv, Continued
  <1>3. CASE UNCHANGED historyVars
    <2>1. /\ UNCHANGED <<agreement, milestone, proof, committed>>
      BY <1>3 DEF historyVars, vars
    <2>2. ASSUME NEW b \in Agreements PROVE Told(b)'
      <3>1. /\ All(b)' = All(b) /\ agreement'[b] = agreement[b]
            /\ milestone'[b] = milestone[b] /\ proof'[b] = proof[b]
        BY <2>1 DEF All, ReceiptsOf, Receipts
      <3>2. Told(b)
        BY DEF HistoryInv
      <3> QED
        BY <3>1, <3>2, ToldUntouched
    <2>3. Chain'
      BY <2>1 DEF HistoryInv, Chain
    <2> QED
      BY <1>1, <2>2, <2>3 DEF HistoryInv
  <1> QED
    BY <1>2, <1>3

LEMMA HistoryStarts == HistoryInit => HistoryInv
  <1> SUFFICES ASSUME HistoryInit PROVE HistoryInv
    OBVIOUS
  <1>1. ScheduleInv /\ committed = <<>>
    BY ScheduleInit DEF HistoryInit
  <1>2. Chain
    BY <1>1 DEF Chain
  <1>3. ASSUME NEW a \in Agreements PROVE Told(a)
    <2>1. All(a) = {}
      BY <1>1 DEF All, ReceiptsOf, Receipts
    <2>2. /\ agreement[a] = AbsentAgreement
          /\ \A i \in MilestoneSlots : milestone[a][i].state = "Absent"
          /\ \A i \in ProofSlots : proof[a][i].status = "Absent"
      BY DEF HistoryInit, Init, EscrowInit, AbsentMilestone, AbsentProof
    <2>3. /\ State(a) = "Absent" /\ ~IsMilestoneContract(a)
          /\ agreement[a].settledTotal = 0 /\ agreement[a].milestoneCount = 0
          /\ agreement[a].milestoneTotal = 0 /\ agreement[a].proofCount = 0
      BY <2>2 DEF AbsentAgreement, NewAgreement, State, IsMilestoneContract
    <2>4. \A names : Named(All(a), names) = {}
      BY <2>1 DEF Named
    <2>5. PathTold(a)
      <3>1. Transitions(All(a)) = {} /\ Annotations(All(a)) = {}
        BY <2>1 DEF Transitions, Annotations
      <3>2. <<>> \in Seq(All(a)) /\ Len(<<>>) = 0 /\ DOMAIN <<>> = {}
        OBVIOUS
      <3>3. IsPathOf(a, <<>>)
        BY <2>3, <3>1, <3>2 DEF IsPathOf
      <3> QED
        BY <3>2, <3>3 DEF PathTold
    <2>6. MovesTold(a)
      BY <2>1, <2>3 DEF MovesTold, FundedStates, LiveStates
    <2>7. MoneyTold(a)
      BY <2>3, <2>4, WorthEmpty DEF MoneyTold, Settlements, Refunds
    <2>8. PayeeTold(a)
      BY <2>1, <2>4 DEF PayeeTold, Roots
    <2>9. ProofsTold(a)
      BY <2>2, <2>3, <2>4 DEF ProofsTold, Indices, Of
    <2>10. TranchesTold(a)
      BY <2>2, <2>3, <2>4, WorthEmpty DEF TranchesTold, StepsTold, Steps, Indices, Of
    <2>11. DisputesTold(a)
      BY <2>3, <2>4 DEF DisputesTold
    <2> QED
      BY <2>1, <2>5, <2>6, <2>7, <2>8, <2>9, <2>10, <2>11, FS_EmptySet DEF Told
  <1> QED
    BY <1>1, <1>2, <1>3 DEF HistoryInv

LEMMA HistoryAlways == HistorySpec => []HistoryInv
  BY HistoryStarts, HistoryStep, PTL DEF HistorySpec

\* A history is a behaviour of the programs: emitting an event neither allows an instruction
\* nor changes what it does, so all that holds of the escrow holds of its histories.
THEOREM HistoriesAreTheEscrows == HistorySpec => Spec
  <1>1. HistoryInit => Init
    BY DEF HistoryInit
  <1>2. [HistoryNext]_historyVars => [Next]_vars
    BY HistoryIsEscrow DEF historyVars
  <1> QED
    BY <1>1, <1>2, PTL DEF HistorySpec, Spec
-----------------------------------------------------------------------------
(* What the whole history says. *)
LEMMA Ranked == \A x \in States : StateRank[x] \in 0 .. 5
  BY DEF StateRank, States, AgreementState, LiveStates, TerminalStates

\* Typed facts of one agreement and its receipts.
LEMMA Facts ==
    ASSUME HistoryInv, NEW a \in Agreements
    PROVE  /\ Chain /\ Told(a) /\ Tranches(a) /\ Anchored(a) /\ Dense(a) /\ Deal(a) /\ Books(a)
           /\ All(a) \subseteq ReceiptRecords /\ IsFiniteSet(All(a))
           /\ \A r \in All(a) : /\ r.agreement = a /\ r.slot \in Nat /\ r.id \in 1 .. 3
                                /\ r.inner \in 1 .. 3 /\ r.amount \in Nat
           /\ State(a) \in States
           /\ agreement[a].settledTotal \in Nat /\ agreement[a].amount \in Nat
           /\ agreement[a].milestoneCount \in 0 .. MaxMilestones
           /\ agreement[a].proofCount \in 0 .. MaxProofs
           /\ agreement[a].milestoneTotal \in Nat
  <1>1. Chain /\ Told(a) /\ ScheduleInv
    BY DEF HistoryInv
  <1>2. /\ TypeOK /\ Tranches(a) /\ Anchored(a) /\ Dense(a) /\ Deal(a) /\ Books(a)
    BY <1>1 DEF ScheduleInv, EvidenceInv, CustodyInv
  <1>3. agreement[a] \in AgreementRecords
    BY <1>2 DEF TypeOK
  <1>4. /\ State(a) \in States
        /\ agreement[a].settledTotal \in Nat /\ agreement[a].amount \in Nat
        /\ agreement[a].milestoneCount \in 0 .. MaxMilestones
        /\ agreement[a].proofCount \in 0 .. MaxProofs
        /\ agreement[a].milestoneTotal \in Nat
    BY <1>3 DEF AgreementRecords, State, States
  <1>5. All(a) \subseteq ReceiptRecords /\ \A r \in All(a) : r.agreement = a
    BY <1>1, AllTyped
  <1>6. \A r \in All(a) : /\ r.slot \in Nat /\ r.id \in 1 .. 3
                          /\ r.inner \in 1 .. 3 /\ r.amount \in Nat
    BY <1>5 DEF ReceiptRecords
  <1>7. IsFiniteSet(All(a))
    BY <1>1 DEF Told
  <1> QED
    BY <1>1, <1>2, <1>4, <1>5, <1>6, <1>7

\* The path of the transitions, with what its ranks imply.
IsWholePath(a, path) ==
    /\ IsPathOf(a, path)
    /\ Len(path) \in Nat /\ Len(path) > 0 /\ DOMAIN path = 1 .. Len(path)
    /\ \A k \in 1 .. Len(path) : /\ path[k] \in All(a) /\ IsTransition(path[k])
                                 /\ path[k].before \in States /\ path[k].after \in States
    /\ \A j, k \in 1 .. Len(path) :
            j < k => /\ path[j].before # path[k].before /\ path[j].after # path[k].after
                     /\ path[j].slot <= path[k].slot
                     /\ path[j].before # path[k].after
    /\ \A k \in 1 .. Len(path) : path[k].after \in TerminalStates => k = Len(path)

LEMMA WholePath ==
    ASSUME HistoryInv, NEW a \in Agreements, State(a) # "Absent"
    PROVE  \E path \in Seq(All(a)) : IsWholePath(a, path)
  <1>1. PICK path \in Seq(All(a)) : IsPathOf(a, path)
    BY Facts DEF Told, PathTold
  <1>2. /\ Len(path) \in Nat /\ DOMAIN path = 1 .. Len(path)
        /\ \A k \in 1 .. Len(path) : path[k] \in All(a)
    BY <1>1
  <1>3. Len(path) > 0
    BY <1>1, <1>2 DEF IsPathOf
  <1>4. \A k \in 1 .. Len(path) : /\ IsTransition(path[k])
                                  /\ path[k].before \in States /\ path[k].after \in States
    <2>1. \A k \in 1 .. Len(path) : path[k] \in Transitions(All(a))
      BY <1>1, <1>2 DEF IsPathOf
    <2>2. \A r \in All(a) : r.before \in States /\ r.after \in States
      <3>1. All(a) \subseteq ReceiptRecords
        BY Facts
      <3> QED
        BY <3>1 DEF ReceiptRecords
    <2> QED
      BY <1>2, <2>1, <2>2 DEF Transitions
  <1>5. \A k \in 1 .. Len(path) : /\ StateRank[path[k].before] \in 0 .. 5
                                  /\ StateRank[path[k].after] \in 0 .. 5
                                  /\ StateRank[path[k].before] < StateRank[path[k].after]
    BY <1>1, <1>2, <1>4, Ranked DEF IsPathOf
  <1>6. \A j, k \in 1 .. Len(path) : j < k =>
                /\ StateRank[path[j].after] <= StateRank[path[k].before]
                /\ path[j].slot <= path[k].slot
    BY <1>1, <1>2 DEF IsPathOf
  <1>7. ASSUME NEW j \in 1 .. Len(path), NEW k \in 1 .. Len(path), j < k
        PROVE  /\ path[j].before # path[k].before /\ path[j].after # path[k].after
               /\ path[j].before # path[k].after
    BY <1>5, <1>6, <1>7
  <1>8. ASSUME NEW k \in 1 .. Len(path), path[k].after \in TerminalStates PROVE k = Len(path)
    <2> SUFFICES ASSUME k # Len(path) PROVE FALSE
      OBVIOUS
    <2>1. Len(path) \in 1 .. Len(path) /\ k < Len(path)
      <3> DEFINE c == Len(path)
      <3>1. c \in Nat /\ c > 0 /\ k \in 1 .. c /\ k # c
        BY <1>2, <1>3
      <3> HIDE DEF c
      <3>2. c \in 1 .. c /\ k < c
        BY <3>1
      <3> QED
        BY <3>2 DEF c
    <2>2. StateRank[path[k].after] = 5
      BY <1>8 DEF StateRank, TerminalStates
    <2> QED
      BY <1>5, <1>6, <2>1, <2>2
  <1> QED
    BY <1>1, <1>2, <1>3, <1>4, <1>6, <1>7, <1>8 DEF IsWholePath

LEMMA WholeWalk ==
    ASSUME HistoryInv, NEW a \in Agreements, NEW path \in Seq(All(a)), IsWholePath(a, path)
    PROVE  /\ IsFiniteSet(Transitions(All(a))) /\ Cardinality(Transitions(All(a))) = Len(path)
           /\ Roots(Transitions(All(a))) = {path[1]}
           /\ Walk(Transitions(All(a))) = path
           /\ IsOnePath(Transitions(All(a)), path)
  <1> DEFINE T == Transitions(All(a))
             c == Len(path)
  <1>1. /\ c \in Nat /\ c > 0 /\ DOMAIN path = 1 .. c
        /\ T = {path[k] : k \in DOMAIN path}
        /\ path[1].before = "Absent"
        /\ \A k \in 1 .. c - 1 : path[k + 1].before = path[k].after
    BY DEF IsWholePath, IsPathOf
  <1>2. path \in Seq(T)
    BY <1>1
  <1>3. \A j, k \in DOMAIN path : j # k => path[j].before # path[k].before
    <2> TAKE j, k \in DOMAIN path
    <2>1. j \in 1 .. c /\ k \in 1 .. c
      BY <1>1
    <2>2. j # k => j < k \/ k < j
      BY <2>1
    <2> QED
      BY <2>1, <2>2 DEF IsWholePath
  <1>4. \A k \in DOMAIN path : path[k].before # path[c].after
    <2> TAKE k \in DOMAIN path
    <2>1. k \in 1 .. c /\ c \in 1 .. c /\ (k = c \/ k < c)
      BY <1>1
    <2> QED
      BY <2>1 DEF IsWholePath, IsTransition
  <1>5. /\ IsFiniteSet(T) /\ Cardinality(T) = c /\ Roots(T) = {path[1]} /\ Walk(T) = path
    <2>1. /\ Len(path) > 0 /\ T = {path[k] : k \in DOMAIN path} /\ path[1].before = "Absent"
          /\ \A k \in 1 .. Len(path) - 1 : path[k + 1].before = path[k].after
          /\ \A j, k \in DOMAIN path : j # k => path[j].before # path[k].before
          /\ \A k \in DOMAIN path : path[k].before # path[Len(path)].after
      BY <1>1, <1>3, <1>4
    <2> HIDE DEF T
    <2> QED
      BY <1>2, <2>1, WalkIsPath
  <1>6. IsOnePath(T, path)
    <2>1. Cardinality(Roots(T)) = 1
      BY <1>5, FS_Singleton
    <2>2. \A r, q \in T : r # q => r.before # q.before /\ r.agreement = q.agreement
      <3>1. \A r \in T : r.agreement = a
        BY Facts DEF Transitions
      <3>2. \A r, q \in T : r # q => r.before # q.before
        <4> HIDE DEF T
        <4> QED
          BY <1>1, <1>3
      <3> QED
        BY <3>1, <3>2
    <2>3. \A j, k \in DOMAIN path :
                j < k => path[j].after # path[k].after /\ path[j].slot <= path[k].slot
      BY <1>1 DEF IsWholePath
    <2> QED
      BY <1>5, <2>1, <2>2, <2>3 DEF IsOnePath
  <1> QED
    BY <1>5, <1>6

\* A transition is one of the path.
LEMMA OnPath ==
    ASSUME NEW a \in Agreements, NEW path \in Seq(All(a)), IsWholePath(a, path),
           NEW r \in All(a), IsTransition(r)
    PROVE  \E k \in 1 .. Len(path) : r = path[k]
  <1>1. r \in Transitions(All(a))
    BY DEF Transitions
  <1>2. Transitions(All(a)) = {path[k] : k \in DOMAIN path} /\ DOMAIN path = 1 .. Len(path)
    BY DEF IsWholePath, IsPathOf
  <1> QED
    BY <1>1, <1>2

\* The event that ends the agreement says how it ended.
LEMMA EndingIsState ==
    ASSUME HistoryInv, NEW a \in Agreements, NEW r \in All(a), IsTransition(r),
           r.name \in {"SettlementExecuted", "RefundExecuted"}
    PROVE  /\ r.name = "SettlementExecuted" => State(a) = "Settled"
           /\ r.name = "RefundExecuted" => State(a) = "Refunded"
           /\ r.after = State(a)
  <1>1. Told(a)
    BY Facts
  <1>2. State(a) # "Absent"
    BY <1>1, NothingYet DEF Told
  <1>3. PICK path \in Seq(All(a)) : IsWholePath(a, path)
    BY <1>2, WholePath
  <1>4. PICK k \in 1 .. Len(path) : r = path[k]
    BY <1>3, OnPath
  <1>5. r.after \in States \ {"Absent"} /\ r.name = MoveName[r.after]
    BY <1>1, <1>3, <1>4 DEF Told, MovesTold, IsWholePath
  <1>6. /\ r.name = "SettlementExecuted" => r.after = "Settled"
        /\ r.name = "RefundExecuted" => r.after = "Refunded"
    BY <1>5 DEF MoveName, States, AgreementState, LiveStates, TerminalStates
  <1>7. k = Len(path)
    BY <1>3, <1>4, <1>6 DEF IsWholePath, TerminalStates
  <1>8. r.after = State(a)
    BY <1>3, <1>4, <1>7 DEF IsWholePath, IsPathOf
  <1> QED
    BY <1>6, <1>8

LEMMA OneFunding ==
    ASSUME HistoryInv, NEW a \in Agreements, NEW r \in All(a), NEW q \in All(a),
           r.name = "AgreementFunded", q.name = "AgreementFunded"
    PROVE  r = q /\ IsTransition(r) /\ r.amount = agreement[a].amount
  <1>1. Told(a)
    BY Facts
  <1>2. /\ IsTransition(r) /\ IsTransition(q) /\ r.amount = agreement[a].amount
        /\ r.name = MoveName[r.after] /\ q.name = MoveName[q.after]
        /\ r.after # "Absent" /\ q.after # "Absent"
    BY <1>1 DEF Told, MovesTold, AlwaysMove
  <1>3. PICK path \in Seq(All(a)) : IsWholePath(a, path)
    <2>1. State(a) # "Absent"
      BY <1>1, NothingYet DEF Told
    <2> QED
      BY <2>1, WholePath
  <1>4. PICK j \in 1 .. Len(path) : r = path[j]
    BY <1>2, <1>3, OnPath
  <1>5. PICK k \in 1 .. Len(path) : q = path[k]
    BY <1>2, <1>3, OnPath
  <1>6. r.after = "Funded" /\ q.after = "Funded"
    <2>1. r.after \in States /\ q.after \in States
      BY <1>3, <1>4, <1>5 DEF IsWholePath
    <2> QED
      BY <1>2, <2>1 DEF MoveName, States, AgreementState, LiveStates, TerminalStates
  <1>7. j = k
    <2>1. j < k \/ k < j \/ j = k
      <3> DEFINE c == Len(path)
      <3>1. c \in Nat /\ j \in 1 .. c /\ k \in 1 .. c
        BY <1>3 DEF IsWholePath
      <3> HIDE DEF c
      <3> QED
        BY <3>1
    <2> QED
      BY <1>3, <1>4, <1>5, <1>6, <2>1 DEF IsWholePath
  <1> QED
    BY <1>2, <1>4, <1>5, <1>7

\* What any part of the receipts says of the money.
LEMMA PartPaid ==
    ASSUME HistoryInv, NEW a \in Agreements, NEW R, R \subseteq All(a)
    PROVE  /\ IsFiniteSet(R) /\ \A r \in R : r.amount \in Nat
           /\ \A name : /\ Paid(R, name) = Worth(Named(R, {name}))
                        /\ Paid(R, name) \in Nat
                        /\ Paid(R, name) <= Worth(Named(All(a), {name}))
                        /\ Named(R, {name}) # Named(All(a), {name}) /\
                           (\A r \in Named(All(a), {name}) : r.amount > 0) =>
                                Paid(R, name) < Worth(Named(All(a), {name}))
  <1>1. IsFiniteSet(All(a)) /\ \A r \in All(a) : r.amount \in Nat
    BY Facts
  <1>2. IsFiniteSet(R) /\ \A r \in R : r.amount \in Nat
    BY <1>1, FS_Subset
  <1>3. ASSUME NEW name
        PROVE  /\ Paid(R, name) = Worth(Named(R, {name}))
               /\ Paid(R, name) \in Nat
               /\ Paid(R, name) <= Worth(Named(All(a), {name}))
               /\ Named(R, {name}) # Named(All(a), {name}) /\
                  (\A r \in Named(All(a), {name}) : r.amount > 0) =>
                       Paid(R, name) < Worth(Named(All(a), {name}))
    <2> DEFINE P == Named(R, {name})
               W == Named(All(a), {name})
    <2>1. Paid(R, name) = Worth(P) /\ Worth(P) \in Nat
      BY <1>2, PaidIsWorth
    <2>2. P \subseteq W /\ W \subseteq All(a)
      BY DEF Named
    <2>3. IsFiniteSet(W) /\ \A r \in W : r.amount \in Nat
      BY <1>1, <2>2, FS_Subset
    <2>4. Worth(P) <= Worth(W) /\ Worth(W) \in Nat
      <3> HIDE DEF P, W
      <3> QED
        BY <2>2, <2>3, WorthSubset, WorthNat
    <2>5. ASSUME P # W, \A r \in W : r.amount > 0 PROVE Worth(P) < Worth(W)
      <3>1. PICK x \in W : x \notin P
        BY <2>2, <2>5
      <3> HIDE DEF P, W
      <3>2. Worth(W) = Worth(W \ {x}) + x.amount /\ x.amount > 0
        BY <2>3, <2>5, <3>1, WorthRemove
      <3>3. P \subseteq W \ {x} /\ IsFiniteSet(W \ {x})
        BY <2>2, <2>3, <3>1, FS_RemoveElement
      <3>4. Worth(P) <= Worth(W \ {x}) /\ Worth(W \ {x}) \in Nat
        BY <2>3, <3>3, WorthSubset, WorthNat
      <3>5. Worth(P) \in Nat /\ x.amount \in Nat
        BY <2>1, <2>3, <3>1
      <3> QED
        BY <3>2, <3>4, <3>5
    <2> QED
      BY <2>1, <2>4, <2>5
  <1> QED
    BY <1>2, <1>3

LEMMA PartFunded ==
    ASSUME HistoryInv, NEW a \in Agreements, NEW R, R \subseteq All(a)
    PROVE  Funded(R) = IF Named(Transitions(R), {"AgreementFunded"}) # {}
                       THEN agreement[a].amount ELSE 0
  <1> DEFINE F == Named(Transitions(R), {"AgreementFunded"})
  <1>1. Transitions(R) \subseteq All(a)
    BY DEF Transitions
  <1>2. Funded(R) = Worth(F)
    BY <1>1, PartPaid DEF Funded
  <1>3. CASE F = {}
    BY <1>2, <1>3, WorthEmpty
  <1>4. CASE F # {}
    <2>1. PICK r \in F : TRUE
      BY <1>4
    <2>2. r \in All(a) /\ r.name = "AgreementFunded" /\ r.amount = agreement[a].amount
      BY <1>1, OneFunding DEF Named
    <2>3. F = {r}
      <3>1. \A q \in F : q \in All(a) /\ q.name = "AgreementFunded"
        BY <1>1 DEF Named
      <3> QED
        BY <2>1, <2>2, <3>1, OneFunding
    <2>4. Worth({r}) = r.amount
      <3>1. r.amount \in Nat
        BY <2>2, Facts
      <3>2. Worth({} \cup {r}) = Worth({}) + r.amount
        BY <3>1, WorthAdd, FS_EmptySet
      <3> QED
        BY <3>1, <3>2, WorthEmpty
    <2> QED
      BY <1>2, <1>4, <2>2, <2>3, <2>4
  <1> QED
    BY <1>3, <1>4

\* The money of the whole history is the money of the account.
LEMMA WholeMoney ==
    ASSUME HistoryInv, NEW a \in Agreements
    PROVE  /\ Paid(All(a), "SettlementExecuted") = Worth(Settlements(a))
           /\ Paid(All(a), "RefundExecuted") = Worth(Refunds(a))
           /\ Worth(Settlements(a)) \in Nat /\ Worth(Refunds(a)) \in Nat
           /\ Worth(Settlements(a)) + Worth(Refunds(a)) = agreement[a].settledTotal
           /\ State(a) # "Refunded" => Refunds(a) = {} /\ Worth(Refunds(a)) = 0
           /\ \A r \in Refunds(a) : IsTransition(r)
           /\ State(a) \in FundedStates => Funded(All(a)) = agreement[a].amount
           /\ State(a) \in {"Settled", "Refunded"} =>
                    agreement[a].settledTotal = agreement[a].amount
  <1>1. Told(a) /\ Tranches(a)
    BY Facts
  <1>2. /\ Paid(All(a), "SettlementExecuted") = Worth(Settlements(a))
        /\ Paid(All(a), "RefundExecuted") = Worth(Refunds(a))
        /\ Worth(Settlements(a)) \in Nat /\ Worth(Refunds(a)) \in Nat
    BY PartPaid DEF Settlements, Refunds
  <1>3. \A r \in Refunds(a) : r \in All(a) /\ r.name = "RefundExecuted" /\ IsTransition(r)
    BY <1>1 DEF Refunds, Named, Told, MovesTold, AlwaysMove
  <1>4. State(a) # "Refunded" => Refunds(a) = {} /\ Worth(Refunds(a)) = 0
    BY <1>3, EndingIsState, WorthEmpty
  <1>5. ASSUME State(a) \in FundedStates PROVE Funded(All(a)) = agreement[a].amount
    <2>1. PICK r \in All(a) : r.name = "AgreementFunded"
      BY <1>1, <1>5 DEF Told, MovesTold
    <2>2. r \in Named(Transitions(All(a)), {"AgreementFunded"})
      BY <2>1, OneFunding DEF Named, Transitions
    <2> QED
      BY <2>2, PartFunded
  <1> QED
    BY <1>1, <1>2, <1>3, <1>4, <1>5 DEF Told, MoneyTold, Tranches

LEMMA WholeMoneyAddsUp ==
    ASSUME HistoryInv, NEW a \in Agreements
    PROVE  MoneyAddsUp(All(a))
  <1> DEFINE ending == Transitions(All(a))
  <1>1. Told(a)
    BY Facts
  <1>2. ASSUME Named(All(a), {"SettlementExecuted", "RefundExecuted"}) # {}
        PROVE  Named(ending, {"AgreementFunded"}) # {}
    <2>1. State(a) \in FundedStates
      BY <1>1, <1>2 DEF Told, MoneyTold, Settlements, Refunds, Named
    <2>2. PICK r \in All(a) : r.name = "AgreementFunded"
      BY <1>1, <2>1 DEF Told, MovesTold
    <2> QED
      BY <2>2, OneFunding DEF Named, Transitions
  <1>3. ASSUME Named(ending, {"SettlementExecuted"}) # {}
        PROVE  /\ Paid(All(a), "SettlementExecuted") = Funded(All(a))
               /\ Named(ending, {"RefundExecuted"}) = {}
    <2>1. State(a) = "Settled"
      BY <1>3, EndingIsState DEF Named, Transitions
    <2>2. Named(ending, {"RefundExecuted"}) = {}
      BY <2>1, EndingIsState DEF Named, Transitions
    <2>3. Worth(Settlements(a)) = agreement[a].amount
      BY <2>1, WholeMoney
    <2> QED
      BY <2>1, <2>2, <2>3, WholeMoney DEF FundedStates
  <1>4. ASSUME Named(ending, {"RefundExecuted"}) # {}
        PROVE  Paid(All(a), "RefundExecuted") + Paid(All(a), "SettlementExecuted")
                    = Funded(All(a))
    <2>1. State(a) = "Refunded"
      BY <1>4, EndingIsState DEF Named, Transitions
    <2>2. /\ Worth(Refunds(a)) \in Nat /\ Worth(Settlements(a)) \in Nat
          /\ Worth(Settlements(a)) + Worth(Refunds(a)) = agreement[a].amount
          /\ Funded(All(a)) = agreement[a].amount
      BY <2>1, WholeMoney DEF FundedStates
    <2>3. Worth(Refunds(a)) + Worth(Settlements(a)) = agreement[a].amount
      BY <2>2
    <2> QED
      BY <2>2, <2>3, WholeMoney
  <1> QED
    BY <1>2, <1>3, <1>4 DEF MoneyAddsUp

LEMMA OneMember ==
    ASSUME NEW S, \A x, y \in S : x = y
    PROVE  /\ IsFiniteSet(S) /\ Cardinality(S) <= 1
           /\ S # {} => Cardinality(S) = 1
  <1>1. CASE S = {}
    BY <1>1, FS_EmptySet
  <1>2. CASE S # {}
    <2>1. PICK x \in S : S = {x}
      BY <1>2
    <2>2. IsFiniteSet({x}) /\ Cardinality({x}) = 1
      BY FS_Singleton
    <2>3. IsFiniteSet(S) /\ Cardinality(S) = 1
      BY <2>1, <2>2
    <2> QED
      BY <2>3
  <1> QED
    BY <1>1, <1>2

LEMMA WholeIsConsistent ==
    ASSUME HistoryInv, NEW a \in Agreements, NEW path \in Seq(All(a)), IsWholePath(a, path)
    PROVE  Consistent(All(a), path)
  <1> DEFINE R == All(a)
  <1>1. Told(a) /\ Anchored(a)
    BY Facts
  <1>2. IsOnePath(Transitions(R), path) /\ Roots(Transitions(R)) = {path[1]}
    BY WholeWalk
  <1>3. \A r \in Annotations(R), root \in Roots(Transitions(R)) : root.slot <= r.slot
    <2> SUFFICES ASSUME NEW r \in Annotations(R) PROVE path[1].slot <= r.slot
      BY <1>2
    <2>1. PICK k \in 1 .. Len(path) : path[k].slot <= r.slot
      BY DEF IsWholePath, IsPathOf, RecordedAfter
    <2>2. r \in All(a) /\ path[1] \in All(a) /\ path[k] \in All(a) /\ 1 \in 1 .. Len(path)
      <3>1. Len(path) \in Nat /\ Len(path) > 0
        BY DEF IsWholePath
      <3>2. 1 \in 1 .. Len(path)
        BY <3>1
      <3> QED
        BY <3>2 DEF IsWholePath, Annotations
    <2>3. path[1].slot <= path[k].slot
      <3>1. k = 1 \/ 1 < k
        <4> DEFINE c == Len(path)
        <4>1. c \in Nat /\ k \in 1 .. c
          BY DEF IsWholePath
        <4> HIDE DEF c
        <4> QED
          BY <4>1
      <3>2. path[1].slot \in Nat
        BY <2>2, Facts
      <3>3. CASE 1 < k
        BY <2>2, <3>3 DEF IsWholePath
      <3>4. CASE k = 1
        BY <3>2, <3>4
      <3> QED
        BY <3>1, <3>3, <3>4
    <2>4. path[1].slot \in Nat /\ path[k].slot \in Nat /\ r.slot \in Nat
      BY <2>2, Facts
    <2> QED
      BY <2>1, <2>3, <2>4
  <1>4. MoneyAddsUp(R)
    BY WholeMoneyAddsUp
  <1>5. Cardinality(Named(R, {"CounterpartyAssigned"})) <= 1
    BY <1>1, OneMember DEF Told, PayeeTold
  <1>6. ProofsAddUp(R)
    <2> SUFFICES ASSUME NEW i \in Indices(Named(R, Decisions))
                 PROVE  /\ i \in Indices(Named(R, {"ProofSubmitted"}))
                        /\ Cardinality(Of(Named(R, Decisions), i)) = 1
      BY DEF ProofsAddUp
    <2>1. PICK r \in Named(R, Decisions) : r.index = i
      BY DEF Indices
    <2>2. ProofsTold(a) /\ i \in ProofSlots
      BY <1>1, <2>1 DEF Told, ProofsTold
    <2>3. \/ Of(Named(R, {"ProofApproved"}), i) # {}
          \/ Of(Named(R, {"ProofRejected"}), i) # {}
      BY <2>1 DEF Named, Of, Decisions
    <2>4. proof[a][i].status \in {"Approved", "Rejected"}
      BY <2>2, <2>3 DEF ProofsTold
    <2>5. i < agreement[a].proofCount
      BY <1>1, <2>2, <2>4 DEF Anchored
    <2>6. i \in 0 .. agreement[a].proofCount - 1
      <3> DEFINE n == agreement[a].proofCount
      <3>1. n \in 0 .. MaxProofs
        BY Facts
      <3>2. MaxProofs \in Nat
        BY LimitAssumption
      <3>3. i \in Nat /\ i < n
        BY <2>2, <2>5, <3>2 DEF ProofSlots
      <3> HIDE DEF n
      <3>4. i \in 0 .. n - 1
        BY <3>1, <3>2, <3>3
      <3> QED
        BY <3>4 DEF n
    <2>7. Of(Named(R, Decisions), i) # {}
          /\ \A x, y \in Of(Named(R, Decisions), i) : x = y
      BY <2>1, <2>2 DEF Of, ProofsTold
    <2> QED
      BY <2>2, <2>6, <2>7, OneMember DEF ProofsTold
  <1>7. MilestonesAddUp(R)
    <2>1. TranchesTold(a) /\ MovesTold(a)
      BY <1>1 DEF Told
    <2>2. Indices(Named(R, MilestoneSteps)) \subseteq Indices(Named(R, {"MilestoneCreated"}))
      BY <2>1 DEF TranchesTold, Indices, Steps
    <2>3. ASSUME Named(R, {"MilestoneCreated"}) # {},
                 Named(Transitions(R), {"AgreementFunded"}) # {}
          PROVE  Paid(R, "MilestoneCreated") = Funded(R)
      <3>1. agreement[a].milestoneCount > 0
        <4>1. Indices(Named(R, {"MilestoneCreated"})) # {}
          BY <2>3 DEF Indices
        <4>2. 0 .. agreement[a].milestoneCount - 1 # {}
          BY <2>1, <4>1 DEF TranchesTold
        <4>3. agreement[a].milestoneCount \in Nat
          BY Facts, LimitAssumption
        <4> QED
          BY <4>2, <4>3
      <3>2. State(a) \in FundedStates
        BY <2>1, <2>3 DEF MovesTold, Named, Transitions
      <3>3. agreement[a].milestoneTotal = agreement[a].amount
        BY <2>1, <3>1, <3>2 DEF MovesTold
      <3>4. Paid(R, "MilestoneCreated") = agreement[a].milestoneTotal
        BY <2>1, PartPaid DEF TranchesTold
      <3> QED
        BY <3>2, <3>3, <3>4, WholeMoney
    <2> QED
      BY <2>2, <2>3 DEF MilestonesAddUp
  <1>8. CitationAddsUp(R)
    BY <1>1 DEF CitationAddsUp, Told, MoneyTold, Settlements, Named, Transitions
  <1> QED
    BY <1>2, <1>3, <1>4, <1>5, <1>6, <1>7, <1>8 DEF Consistent
-----------------------------------------------------------------------------
(* The whole history against the accounts. *)

\* It is accepted, and its path ends where the agreement stands.
LEMMA WholeHistory ==
    ASSUME HistoryInv, NEW a \in Agreements, State(a) # "Absent"
    PROVE  /\ History(a) # Refused
           /\ History(a) =
                [state      |-> State(a),
                 seller     |-> SellerOf(All(a)),
                 funded     |-> Funded(All(a)),
                 settled    |-> Paid(All(a), "SettlementExecuted"),
                 refunded   |-> Paid(All(a), "RefundExecuted"),
                 proofs     |-> [i \in Indices(Named(All(a), {"ProofSubmitted"})) |->
                                    ProofStatusOf(All(a), i)],
                 milestones |-> [i \in Indices(Named(All(a), {"MilestoneCreated"})) |->
                                    MilestoneStateOf(All(a), i)]]
  <1>1. PICK path \in Seq(All(a)) : IsWholePath(a, path)
    BY WholePath
  <1>2. Walk(Transitions(All(a))) = path /\ Consistent(All(a), path)
    BY <1>1, WholeWalk, WholeIsConsistent
  <1>3. path[Len(path)].after = State(a)
    BY <1>1 DEF IsWholePath, IsPathOf
  <1>4. History(a) = Reconstruct(All(a))
    BY DEF History, Replay, All, ReceiptsOf
  <1>5. State(a) # "refused"
    BY Facts DEF States, AgreementState, LiveStates, TerminalStates
  <1> QED
    BY <1>2, <1>3, <1>4, <1>5 DEF Reconstruct, Refused

LEMMA WholeSeller ==
    ASSUME HistoryInv, NEW a \in Agreements, State(a) # "Absent"
    PROVE  SellerOf(All(a)) = agreement[a].counterparty
  <1> DEFINE named == Named(All(a), {"CounterpartyAssigned"})
  <1>1. PayeeTold(a)
    BY Facts DEF Told
  <1>2. CASE named # {}
    BY <1>1, <1>2 DEF PayeeTold, SellerOf
  <1>3. CASE named = {}
    <2>1. PICK path \in Seq(All(a)) : IsWholePath(a, path)
      BY WholePath
    <2>2. Roots(Transitions(All(a))) = {path[1]}
      BY <2>1, WholeWalk
    <2>3. path[1] \in Roots(All(a))
      BY <2>2 DEF Roots, Transitions
    <2>4. SellerOf(All(a)) = path[1].seller
      BY <1>3, <2>2 DEF SellerOf
    <2> QED
      BY <1>1, <1>3, <2>3, <2>4 DEF PayeeTold
  <1> QED
    BY <1>2, <1>3

LEMMA WholeProofs ==
    ASSUME HistoryInv, NEW a \in Agreements
    PROVE  /\ Indices(Named(All(a), {"ProofSubmitted"})) = 0 .. agreement[a].proofCount - 1
           /\ 0 .. agreement[a].proofCount - 1 \subseteq ProofSlots
           /\ \A i \in 0 .. agreement[a].proofCount - 1 :
                    ProofStatusOf(All(a), i) = proof[a][i].status
           /\ \A i \in ProofSlots :
                    proof[a][i].status = "Approved" => i \in 0 .. agreement[a].proofCount - 1
  <1> DEFINE n == agreement[a].proofCount
  <1>1. ProofsTold(a) /\ Anchored(a) /\ n \in 0 .. MaxProofs /\ MaxProofs \in Nat
    BY Facts, LimitAssumption DEF Told
  <1>2. Indices(Named(All(a), {"ProofSubmitted"})) = 0 .. n - 1
    BY <1>1 DEF ProofsTold
  <1>3. \A i \in ProofSlots : i \in Nat
    BY <1>1 DEF ProofSlots
  <1>4. \A i \in ProofSlots : i < n <=> proof[a][i].status # "Absent"
    BY <1>1 DEF Anchored
  <1>5. \A i \in ProofSlots : proof[a][i].status \in
            {"Absent", "Submitted", "Approved", "Rejected"}
    <2>1. TypeOK
      BY DEF HistoryInv, ScheduleInv, EvidenceInv, CustodyInv
    <2> QED
      BY <2>1 DEF TypeOK, ProofRecords, EvidenceStatus
  <1>6. \A i \in ProofSlots :
            /\ Of(Named(All(a), {"ProofApproved"}), i) # {} <=> proof[a][i].status = "Approved"
            /\ Of(Named(All(a), {"ProofRejected"}), i) # {} <=> proof[a][i].status = "Rejected"
    BY <1>1 DEF ProofsTold
  <1> HIDE DEF n
  <1>7. 0 .. n - 1 \subseteq ProofSlots /\ \A i \in 0 .. n - 1 : i < n
    BY <1>1 DEF ProofSlots
  <1>8. \A i \in ProofSlots : i < n => i \in 0 .. n - 1
    BY <1>1, <1>3
  <1>9. \A i \in 0 .. n - 1 : ProofStatusOf(All(a), i) = proof[a][i].status
    <2> TAKE i \in 0 .. n - 1
    <2>1. i \in ProofSlots /\ proof[a][i].status \in {"Submitted", "Approved", "Rejected"}
      BY <1>4, <1>5, <1>7
    <2> QED
      BY <1>6, <2>1 DEF ProofStatusOf
  <1> QED
    BY <1>2, <1>4, <1>7, <1>8, <1>9 DEF n

\* Receipts of different coordinates are ordered, one way only, and bounded ones have a
\* latest.
IsPlaced(r) == r.slot \in Nat /\ r.inner \in 1 .. 3 /\ r.id \in 1 .. 3

LEMMA LatestIs ==
    ASSUME NEW S, \A q \in S : IsPlaced(q), NEW r \in S, \A q \in S \ {r} : Precedes(q, r)
    PROVE  Latest(S) = r
  <1>1. \A q \in S \ {r} : ~Precedes(r, q)
    BY DEF Precedes, IsPlaced
  <1>2. \A q \in S : (\A t \in S \ {q} : Precedes(t, q)) => q = r
    BY <1>1
  <1> QED
    BY <1>2 DEF Latest

LEMMA LatestExists ==
    ASSUME NEW S, S # {}, \A q \in S : IsPlaced(q), NEW n \in Nat, \A q \in S : q.slot <= n,
           \A r, q \in S : r # q => r.slot # q.slot \/ r.inner # q.inner \/ r.id # q.id
    PROVE  Latest(S) \in S
  <1> DEFINE Key(r) == 16 * r.slot + 4 * r.inner + r.id
             keys == {Key(r) : r \in S}
  <1>1. \A r \in S : Key(r) \in Nat /\ Key(r) <= 16 * n + 15
    BY DEF IsPlaced
  <1>2. ASSUME NEW q \in S, NEW r \in S, Key(q) <= Key(r), q # r PROVE Precedes(q, r)
    <2>1. /\ q.slot \in Nat /\ q.inner \in 1 .. 3 /\ q.id \in 1 .. 3
          /\ r.slot \in Nat /\ r.inner \in 1 .. 3 /\ r.id \in 1 .. 3
          /\ 16 * q.slot + 4 * q.inner + q.id <= 16 * r.slot + 4 * r.inner + r.id
      BY <1>2 DEF IsPlaced
    <2>2. q.slot # r.slot \/ q.inner # r.inner \/ q.id # r.id
      BY <1>2
    <2> QED
      BY <2>1, <2>2 DEF Precedes
  <1> HIDE DEF Key
  <1>3. keys \in SUBSET Nat /\ keys # {} /\ \A x \in keys : x <= 16 * n + 15
    BY <1>1
  <1>4. Max(keys) \in keys /\ \A x \in keys : x <= Max(keys)
    <2>1. 16 * n + 15 \in Nat
      OBVIOUS
    <2> HIDE DEF keys
    <2> QED
      BY <1>3, <2>1, BoundedMax
  <1>5. PICK r \in S : Max(keys) = Key(r)
    BY <1>4
  <1>6. \A q \in S \ {r} : Precedes(q, r)
    BY <1>2, <1>4, <1>5
  <1> QED
    BY <1>6, LatestIs

\* The steps of a tranche in any part of the receipts have a latest.
LEMMA LatestStep ==
    ASSUME HistoryInv, NEW a \in Agreements, NEW S, S \subseteq Steps(a), S # {}
    PROVE  Latest(S) \in S
  <1>1. /\ \A r \in All(a) : IsPlaced(r)
        /\ \A r, q \in Steps(a) : r # q => r.slot # q.slot \/ r.id # q.id
    BY Facts DEF IsPlaced, Told, TranchesTold
  <1>2. Chain /\ Len(committed) \in Nat /\ DOMAIN committed = 1 .. Len(committed)
    BY ChainTyped DEF HistoryInv
  <1> DEFINE c == Len(committed)
             n == committed[c].slot
  <1>3. \A k \in 1 .. c : committed[k].slot \in Nat /\ committed[k].slot <= n
    <2> TAKE k \in 1 .. c
    <2>1. c \in Nat /\ DOMAIN committed = 1 .. c
      BY <1>2
    <2> HIDE DEF c
    <2>2. c \in 1 .. c /\ (k = c \/ k < c)
      BY <2>1
    <2>3. committed[k].slot \in Nat
      BY <1>2, <2>1, ChainTyped
    <2> QED
      BY <1>2, <2>1, <2>2, <2>3 DEF Chain
  <1>4. \A r \in All(a) : r.slot <= n /\ n \in Nat
    <2> TAKE r \in All(a)
    <2>1. PICK k \in 1 .. c : r \in committed[k].receipts
      BY <1>2, AllTyped
    <2>2. r.slot = committed[k].slot
      BY <1>2, <2>1 DEF Chain
    <2>3. c \in 1 .. c
      BY <1>2, <2>1
    <2> QED
      BY <1>3, <2>2, <2>3
  <1> HIDE DEF n
  <1>5. Steps(a) \subseteq All(a)
    BY DEF Steps, Named
  <1>6. n \in Nat
    BY <1>4, <1>5
  <1>7. /\ \A q \in S : IsPlaced(q) /\ q.slot <= n
        /\ \A r, q \in S : r # q => r.slot # q.slot \/ r.inner # q.inner \/ r.id # q.id
    BY <1>1, <1>4, <1>5
  <1> QED
    BY <1>6, <1>7, LatestExists

\* What a tranche's last step reports is its state, unless its steps are tied; paid it is
\* reported in any case, and so is a state no step has moved.
LEMMA WholeMilestones ==
    ASSUME HistoryInv, NEW a \in Agreements
    PROVE  /\ Indices(Named(All(a), {"MilestoneCreated"})) = 0 .. agreement[a].milestoneCount - 1
           /\ 0 .. agreement[a].milestoneCount - 1 \subseteq MilestoneSlots
           /\ \A i \in MilestoneSlots : milestone[a][i].state # "Absent" =>
                    i \in 0 .. agreement[a].milestoneCount - 1
           /\ \A i \in 0 .. agreement[a].milestoneCount - 1 :
                /\ MilestoneStateOf(All(a), i) = milestone[a][i].state \/ Tied(a, i)
                /\ MilestoneStateOf(All(a), i) = "Settled" <=> milestone[a][i].state = "Settled"
  <1> DEFINE n == agreement[a].milestoneCount
  <1>1. /\ TranchesTold(a) /\ Dense(a) /\ n \in 0 .. MaxMilestones /\ MaxMilestones \in Nat
        /\ \A r \in All(a) : IsPlaced(r)
    BY Facts, LimitAssumption DEF Told, IsPlaced
  <1>2. Indices(Named(All(a), {"MilestoneCreated"})) = 0 .. n - 1
    BY <1>1 DEF TranchesTold
  <1>3. \A i \in MilestoneSlots : i \in Nat /\ (i < n <=> milestone[a][i].state # "Absent")
    BY <1>1 DEF MilestoneSlots, Dense
  <1> HIDE DEF n
  <1>4. 0 .. n - 1 \subseteq MilestoneSlots /\ \A i \in 0 .. n - 1 : i < n
    BY <1>1 DEF MilestoneSlots
  <1>5. \A i \in MilestoneSlots : i < n => i \in 0 .. n - 1
    BY <1>1, <1>3
  <1>6. ASSUME NEW i \in 0 .. n - 1
        PROVE  /\ MilestoneStateOf(All(a), i) = milestone[a][i].state \/ Tied(a, i)
               /\ MilestoneStateOf(All(a), i) = "Settled" <=> milestone[a][i].state = "Settled"
    <2> DEFINE S == Of(Steps(a), i)
    <2>1. /\ i \in MilestoneSlots /\ milestone[a][i].state # "Absent" /\ StepsTold(a, i)
          /\ S = Of(Named(All(a), MilestoneSteps), i) /\ S \subseteq Steps(a)
          /\ \A r \in S : /\ r \in All(a) /\ r.name \in MilestoneSteps /\ r.index = i
                          /\ r.inner = IF r.name = "MilestoneSettled" THEN 2 ELSE 1
                          /\ IsPlaced(r)
          /\ \A r, q \in S : r # q => r.slot # q.slot \/ r.id # q.id
      BY <1>1, <1>3, <1>4 DEF TranchesTold, Steps, Of, Named
    <2>2. CASE S = {}
      <3>1. milestone[a][i].state = "Pending"
        BY <2>1, <2>2 DEF StepsTold
      <3>2. MilestoneStateOf(All(a), i) = "Pending"
        BY <2>1, <2>2 DEF MilestoneStateOf
      <3> QED
        BY <3>1, <3>2
    <2>3. CASE S # {}
      <3>1. PICK r \in S : IsLastStep(a, i, r)
        BY <2>1, <2>3 DEF StepsTold
      <3>2. /\ milestone[a][i].state = StepState[r.name]
            /\ \A q \in S \ {r} : q.slot <= r.slot /\ q.name # "MilestoneSettled"
        BY <3>1 DEF IsLastStep
      <3>3. MilestoneStateOf(All(a), i) = StepState[Latest(S).name]
        <4>1. Latest(S) \in S
          BY <2>1, <2>3, LatestStep
        <4>2. Latest(S).name \in MilestoneSteps
          BY <2>1, <4>1
        <4> QED
          BY <2>1, <2>3, <4>2 DEF MilestoneStateOf, StepState, MilestoneSteps
      <3>4. CASE r.name = "MilestoneSettled"
        <4>1. \A q \in S \ {r} : Precedes(q, r)
          <5> TAKE q \in S \ {r}
          <5>1. q.inner = 1 /\ r.inner = 2 /\ q.slot <= r.slot
            BY <2>1, <3>2, <3>4
          <5>2. q.slot \in Nat /\ r.slot \in Nat
            BY <2>1 DEF IsPlaced
          <5> QED
            BY <5>1, <5>2 DEF Precedes
        <4>2. Latest(S) = r
          <5> HIDE DEF S
          <5> QED
            BY <2>1, <4>1, LatestIs
        <4> QED
          BY <3>2, <3>3, <4>2
      <3>5. CASE r.name # "MilestoneSettled"
        <4>1. \A q \in S : q.name \in MilestoneSteps \ {"MilestoneSettled"}
          BY <2>1, <3>2, <3>5
        <4>2. Latest(S) \in S
          BY <2>1, <2>3, LatestStep
        <4>3. MilestoneStateOf(All(a), i) # "Settled" /\ milestone[a][i].state # "Settled"
          BY <3>2, <3>3, <4>1, <4>2 DEF StepState, MilestoneSteps
        <4>4. CASE Latest(S) = r
          BY <3>2, <3>3, <4>3, <4>4
        <4>5. CASE Latest(S) # r
          <5>1. PICK q \in S \ {r} : ~Precedes(q, r)
            <6>1. ~ \A q \in S \ {r} : Precedes(q, r)
              <7> HIDE DEF S
              <7> QED
                BY <2>1, <4>5, LatestIs
            <6> QED
              BY <6>1
          <5>2. q.slot = r.slot
            <6>1. q.slot <= r.slot /\ q.slot \in Nat /\ r.slot \in Nat
              BY <2>1, <3>2 DEF IsPlaced
            <6> QED
              BY <5>1, <6>1 DEF Precedes
          <5>3. All(a) = {t \in Receipts(DOMAIN committed) : t.agreement = a}
            BY DEF All, ReceiptsOf
          <5>4. \A t \in S : /\ t \in Receipts(DOMAIN committed) /\ t.agreement = a /\ t.index = i
                             /\ t.name \in MilestoneSteps \ {"MilestoneSettled"}
            BY <2>1, <4>1, <5>3
          <5>5. Tied(a, i)
            BY <5>1, <5>2, <5>4 DEF Tied
          <5> QED
            BY <4>3, <5>5
        <4> QED
          BY <4>4, <4>5
      <3> QED
        BY <3>4, <3>5
    <2> QED
      BY <2>2, <2>3
  <1> QED
    BY <1>2, <1>3, <1>4, <1>5, <1>6 DEF n

LEMMA HistoryMatches == HistoryInv => HistoryMatchesAccount
  <1> SUFFICES ASSUME HistoryInv, NEW a \in Agreements, State(a) # "Absent"
               PROVE  LET h == History(a)
                      IN  /\ h # Refused
                          /\ h.state = State(a)
                          /\ h.seller = agreement[a].counterparty
                          /\ h.settled + h.refunded = agreement[a].settledTotal
                          /\ IsLive(a) => h.funded = agreement[a].amount
                          /\ h.proofs = [i \in 0 .. agreement[a].proofCount - 1 |->
                                            proof[a][i].status]
                          /\ DOMAIN h.milestones = 0 .. agreement[a].milestoneCount - 1
                          /\ \A i \in DOMAIN h.milestones :
                                h.milestones[i] = milestone[a][i].state \/ Tied(a, i)
    BY DEF HistoryMatchesAccount
  <1> DEFINE h == History(a)
  <1>1. /\ h # Refused /\ h.state = State(a) /\ h.seller = SellerOf(All(a))
        /\ h.funded = Funded(All(a))
        /\ h.settled = Paid(All(a), "SettlementExecuted")
        /\ h.refunded = Paid(All(a), "RefundExecuted")
        /\ h.proofs = [i \in Indices(Named(All(a), {"ProofSubmitted"})) |->
                            ProofStatusOf(All(a), i)]
        /\ h.milestones = [i \in Indices(Named(All(a), {"MilestoneCreated"})) |->
                            MilestoneStateOf(All(a), i)]
    BY WholeHistory
  <1> HIDE DEF h
  <1>2. h.seller = agreement[a].counterparty
    BY <1>1, WholeSeller
  <1>3. h.settled + h.refunded = agreement[a].settledTotal
    BY <1>1, WholeMoney
  <1>4. IsLive(a) => h.funded = agreement[a].amount
    BY <1>1, WholeMoney DEF IsLive, FundedStates
  <1>5. h.proofs = [i \in 0 .. agreement[a].proofCount - 1 |-> proof[a][i].status]
    BY <1>1, WholeProofs
  <1>6. /\ DOMAIN h.milestones = 0 .. agreement[a].milestoneCount - 1
        /\ \A i \in DOMAIN h.milestones : h.milestones[i] = milestone[a][i].state \/ Tied(a, i)
    BY <1>1, WholeMilestones
  <1> QED
    BY <1>1, <1>2, <1>3, <1>4, <1>5, <1>6 DEF h

\* However slots and receipt ids fall, the history rebuilt from every receipt of an
\* agreement is accepted, and says of the agreement, its payee, its money, its evidence
\* and its tranches what the accounts say; of a tranche's state, only when no two of its
\* steps share a slot.  reconstructAgreementLifecycle of the receipts of parse.ts.
THEOREM HistoryAlwaysMatches == HistorySpec => []HistoryMatchesAccount
  BY HistoryAlways, HistoryMatches, PTL

\* An annotation is filed under the transition it was recorded after, or the next one of
\* its slot.
LEMMA AnnotationsFiled == HistoryInv => AnnotationsAreHome
  <1> SUFFICES ASSUME HistoryInv, NEW a \in Agreements, NEW r \in Annotations(All(a))
               PROVE  \/ Home(r, Walk(Transitions(All(a)))).after = r.after
                      \/ \E t \in Transitions(All(a)) : t.slot = r.slot /\ t.id # r.id
    <2>1. \A a \in Agreements : {r \in Receipts(DOMAIN committed) : r.agreement = a} = All(a)
      BY DEF All, ReceiptsOf
    <2> QED
      BY <2>1 DEF AnnotationsAreHome
  <1>1. State(a) # "Absent"
    BY Facts, NothingYet DEF Told, Annotations
  <1>2. PICK path \in Seq(All(a)) : IsWholePath(a, path)
    BY <1>1, WholePath
  <1>3. Walk(Transitions(All(a))) = path
    BY <1>2, WholeWalk
  <1> DEFINE c == Len(path)
             earlier == {k \in DOMAIN path : path[k].slot <= r.slot}
  <1>4. /\ c \in Nat /\ DOMAIN path = 1 .. c
        /\ \A k \in 1 .. c : path[k] \in Transitions(All(a)) /\ path[k].slot \in Nat
        /\ \A j, k \in 1 .. c : j < k => path[j].slot <= path[k].slot
    BY <1>2, Facts DEF IsWholePath, Transitions
  <1>5. PICK k \in 1 .. c : RecordedAfter(r, path, k)
    BY <1>2, <1>4 DEF IsWholePath, IsPathOf
  <1>6. /\ path[k].after = r.after /\ path[k].slot <= r.slot
        /\ k < c => /\ r.slot <= path[k + 1].slot
                    /\ r.slot = path[k + 1].slot => r.id # path[k + 1].id
    BY <1>5 DEF RecordedAfter
  <1>7. r.slot \in Nat
    BY Facts DEF Annotations
  <1>8. k \in earlier /\ earlier \in SUBSET Nat /\ \A x \in earlier : x <= c
    BY <1>4, <1>6
  <1> HIDE DEF c
  <1>9. Max(earlier) \in earlier /\ \A x \in earlier : x <= Max(earlier)
    <2> HIDE DEF earlier
    <2> QED
      BY <1>4, <1>8, BoundedMax
  <1>10. CASE Max(earlier) = k
    BY <1>3, <1>6, <1>10 DEF Home
  <1>11. CASE Max(earlier) # k
    <2> DEFINE m == Max(earlier)
    <2>1. m \in 1 .. c /\ path[m].slot <= r.slot /\ k < m
      <3>1. m \in earlier /\ k <= m /\ m # k
        BY <1>8, <1>9, <1>11
      <3> HIDE DEF m
      <3>2. m \in 1 .. c /\ path[m].slot <= r.slot
        BY <1>4, <3>1
      <3> QED
        BY <1>4, <3>1, <3>2
    <2> HIDE DEF m
    <2>2. k + 1 \in 1 .. c /\ k < c /\ (k + 1 = m \/ k + 1 < m)
      BY <1>4, <2>1
    <2>3. path[k + 1].slot <= path[m].slot
      BY <1>4, <2>1, <2>2
    <2>4. path[k + 1].slot \in Nat /\ path[m].slot \in Nat
      BY <1>4, <2>1, <2>2
    <2>5. path[k + 1].slot = r.slot /\ path[k + 1].id # r.id
      BY <1>6, <1>7, <2>1, <2>2, <2>3, <2>4
    <2> QED
      BY <1>4, <2>2, <2>5
  <1> QED
    BY <1>10, <1>11

\* An annotation is filed under the state it names, unless another transaction of its slot
\* moved the agreement: the placement in reconstructAgreementLifecycle, for any slots and ids.
THEOREM AnnotationsAlwaysHome == HistorySpec => []AnnotationsAreHome
  BY HistoryAlways, AnnotationsFiled, PTL
-----------------------------------------------------------------------------
(* What a history with a gap says. *)

\* An accepted part of the receipts ends on a state the agreement has been in.
LEMMA PartHistory ==
    ASSUME HistoryInv, NEW a \in Agreements, NEW R, R \subseteq All(a),
           Reconstruct(R) # Refused
    PROVE  /\ MoneyAddsUp(R)
           /\ \E r \in R : IsTransition(r) /\ Reconstruct(R).state = r.after
           /\ Reconstruct(R).settled = Paid(R, "SettlementExecuted")
           /\ Reconstruct(R).refunded = Paid(R, "RefundExecuted")
           /\ Reconstruct(R).proofs =
                    [i \in Indices(Named(R, {"ProofSubmitted"})) |-> ProofStatusOf(R, i)]
           /\ Reconstruct(R).milestones =
                    [i \in Indices(Named(R, {"MilestoneCreated"})) |-> MilestoneStateOf(R, i)]
  <1> DEFINE T == Transitions(R)
             path == Walk(T)
  <1>1. Consistent(R, path)
    BY DEF Reconstruct
  <1>2. /\ MoneyAddsUp(R)
        /\ Reconstruct(R).state = path[Len(path)].after
        /\ Reconstruct(R).settled = Paid(R, "SettlementExecuted")
        /\ Reconstruct(R).refunded = Paid(R, "RefundExecuted")
        /\ Reconstruct(R).proofs =
                [i \in Indices(Named(R, {"ProofSubmitted"})) |-> ProofStatusOf(R, i)]
        /\ Reconstruct(R).milestones =
                [i \in Indices(Named(R, {"MilestoneCreated"})) |-> MilestoneStateOf(R, i)]
    BY <1>1 DEF Reconstruct, Consistent
  <1>3. Roots(T) # {}
    <2>1. Cardinality(Roots(T)) = 1
      BY <1>1 DEF Consistent, IsOnePath
    <2> QED
      BY <2>1, FS_EmptySet
  <1>4. IsFiniteSet(T)
    <2>1. T \subseteq R /\ IsFiniteSet(R)
      BY PartPaid DEF Transitions
    <2> QED
      BY <2>1, FS_Subset
  <1> HIDE DEF T
  <1>5. path \in Seq(T) /\ Len(path) > 0
    BY <1>3, <1>4, WalkWithin
  <1> HIDE DEF path
  <1>6. path[Len(path)] \in T
    BY <1>5
  <1>7. path[Len(path)] \in R /\ IsTransition(path[Len(path)])
    BY <1>6 DEF T, Transitions
  <1> QED
    BY <1>2, <1>7

\* It says that the agreement ended, only if it did, and as it did.
LEMMA PartEnding ==
    ASSUME HistoryInv, NEW a \in Agreements, NEW R, R \subseteq All(a),
           Reconstruct(R) # Refused, Reconstruct(R).state \in {"Settled", "Refunded"}
    PROVE  /\ Reconstruct(R).state = State(a)
           /\ Named(Transitions(R), {MoveName[State(a)]}) # {}
  <1>1. PICK r \in R : IsTransition(r) /\ Reconstruct(R).state = r.after
    BY PartHistory
  <1>2. r \in All(a) /\ r.after \in {"Settled", "Refunded"} /\ r.name = MoveName[r.after]
    BY <1>1, Facts DEF Told, MovesTold
  <1>3. r.name \in {"SettlementExecuted", "RefundExecuted"}
    BY <1>2 DEF MoveName
  <1>4. r.after = State(a)
    BY <1>1, <1>2, <1>3, EndingIsState
  <1> QED
    BY <1>1, <1>2, <1>4 DEF Named, Transitions

LEMMA PartMoney ==
    ASSUME HistoryInv, NEW a \in Agreements, NEW R, R \subseteq All(a),
           Reconstruct(R) # Refused
    PROVE  LET h == Reconstruct(R)
           IN  /\ h.settled + h.refunded <= agreement[a].settledTotal
               /\ h.state \in {"Settled", "Refunded"} =>
                    /\ h.state = State(a)
                    /\ h.settled + h.refunded = agreement[a].settledTotal
  <1> DEFINE s == Paid(R, "SettlementExecuted")
             b == Paid(R, "RefundExecuted")
             h == Reconstruct(R)
  <1>1. h.settled = s /\ h.refunded = b /\ MoneyAddsUp(R)
    BY PartHistory
  <1>2. /\ s \in Nat /\ b \in Nat
        /\ s <= Worth(Settlements(a)) /\ b <= Worth(Refunds(a))
    BY PartPaid DEF Settlements, Refunds
  <1>3. /\ Worth(Settlements(a)) \in Nat /\ Worth(Refunds(a)) \in Nat
        /\ Worth(Settlements(a)) + Worth(Refunds(a)) = agreement[a].settledTotal
    BY WholeMoney
  <1> HIDE DEF s, b, h
  <1>4. h.settled + h.refunded <= agreement[a].settledTotal
    BY <1>1, <1>2, <1>3
  <1>5. ASSUME h.state \in {"Settled", "Refunded"}
        PROVE  h.state = State(a) /\ h.settled + h.refunded = agreement[a].settledTotal
    <2>1. h.state = State(a) /\ Named(Transitions(R), {MoveName[State(a)]}) # {}
      BY <1>5, PartEnding DEF h
    <2>2. agreement[a].settledTotal = agreement[a].amount
      BY <1>5, <2>1, WholeMoney
    <2>3. Funded(R) = agreement[a].amount
      <3>1. Named(R, {"SettlementExecuted", "RefundExecuted"}) # {}
        BY <1>5, <2>1 DEF MoveName, Named, Transitions
      <3>2. Named(Transitions(R), {"AgreementFunded"}) # {}
        BY <1>1, <3>1 DEF MoneyAddsUp
      <3> QED
        BY <3>2, PartFunded
    <2>4. CASE State(a) = "Settled"
      <3>1. Named(Transitions(R), {"SettlementExecuted"}) # {}
        BY <2>1, <2>4 DEF MoveName
      <3>2. s = Funded(R)
        BY <1>1, <3>1 DEF MoneyAddsUp, s
      <3>3. Worth(Refunds(a)) = 0
        BY <2>4, WholeMoney
      <3> QED
        BY <1>1, <1>2, <2>1, <2>2, <2>3, <3>2, <3>3
    <2>5. CASE State(a) = "Refunded"
      <3>1. Named(Transitions(R), {"RefundExecuted"}) # {}
        BY <2>1, <2>5 DEF MoveName
      <3>2. b + s = Funded(R)
        BY <1>1, <3>1 DEF MoneyAddsUp, s, b
      <3> QED
        BY <1>1, <1>2, <2>1, <2>2, <2>3, <3>2
    <2> QED
      BY <1>5, <2>1, <2>4, <2>5
  <1> QED
    BY <1>4, <1>5 DEF h

LEMMA PartIsPart ==
    ASSUME NEW a \in Agreements, NEW i \in DOMAIN committed
    PROVE  /\ ReceiptsOf(a, DOMAIN committed \ {i}) \subseteq All(a)
           /\ Replay(a, DOMAIN committed \ {i}) = Reconstruct(ReceiptsOf(a, DOMAIN committed \ {i}))
  BY DEF All, ReceiptsOf, Receipts, Replay

LEMMA GapsInvent == HistoryInv => GapsDoNotInvent
  <1> SUFFICES ASSUME HistoryInv, NEW a \in Agreements, NEW i \in DOMAIN committed,
                      Replay(a, DOMAIN committed \ {i}) # Refused
               PROVE  LET h == Replay(a, DOMAIN committed \ {i})
                      IN  /\ h.settled + h.refunded <= agreement[a].settledTotal
                          /\ h.state \in {"Settled", "Refunded"} =>
                                /\ h.state = State(a)
                                /\ h.settled + h.refunded = agreement[a].settledTotal
    BY DEF GapsDoNotInvent
  <1> DEFINE R == ReceiptsOf(a, DOMAIN committed \ {i})
  <1>1. R \subseteq All(a) /\ Replay(a, DOMAIN committed \ {i}) = Reconstruct(R)
    BY PartIsPart
  <1> HIDE DEF R
  <1> QED
    BY <1>1, PartMoney

\* Whichever transaction the endpoint does not return, a history that is accepted reports
\* no more money than has moved, and an ending by payment only if the agreement ended so
\* and no payment is missing: the refusals of reconstructAgreementLifecycle, as invariants
\* of every history.
THEOREM GapsNeverInvent == HistorySpec => []GapsDoNotInvent
  BY HistoryAlways, GapsInvent, PTL
-----------------------------------------------------------------------------
(* The seal, from the history and from the reputation events. *)
LEMMA EventTypesDiffer ==
    \A x, y \in DOMAIN EventType : EventType[x] = EventType[y] => x = y
  BY DEF EventType

\* When the events of a type occurred: the slots of the receipts of its one name.
LEMMA Seen ==
    ASSUME NEW R, NEW name \in DOMAIN EventType
    PROVE  {e.occurredAt : e \in {d \in NormalizeEscrowEvents(R) :
                                        d.eventType = EventType[name]}}
                = {r.slot : r \in Named(R, {name})}
  <1> DEFINE E == {d \in NormalizeEscrowEvents(R) : d.eventType = EventType[name]}
  <1>1. ASSUME NEW e \in E PROVE \E r \in Named(R, {name}) : e.occurredAt = r.slot
    <2>1. PICK q \in {q \in R : q.name \in DOMAIN EventType} :
                e = [eventType |-> EventType[q.name], occurredAt |-> q.slot]
      BY DEF NormalizeEscrowEvents
    <2>2. e.eventType = EventType[q.name] /\ e.occurredAt = q.slot
      BY <2>1
    <2>3. q.name = name
      BY <2>2, EventTypesDiffer
    <2> QED
      BY <2>2, <2>3 DEF Named
  <1>2. ASSUME NEW r \in Named(R, {name}) PROVE \E e \in E : e.occurredAt = r.slot
    <2> DEFINE e == [eventType |-> EventType[r.name], occurredAt |-> r.slot]
    <2>1. e \in NormalizeEscrowEvents(R)
      BY DEF NormalizeEscrowEvents, Named
    <2>2. e.eventType = EventType[name] /\ e.occurredAt = r.slot
      BY DEF Named
    <2> HIDE DEF e
    <2> QED
      BY <2>1, <2>2
  <1> QED
    BY <1>1, <1>2

\* What the reputation knows, in the names of the receipts.
Spoken(R, names) == Named(R, names) # {}
SpokenFacts(R, verified) == 
    [chainVerified   |-> verified,
     counterpartyConfirmed |-> Spoken(R, {"MilestoneApproved", "ProofApproved",
                                          "SettlementExecuted", "MilestoneSettled"}),
     settled         |-> Spoken(R, {"SettlementExecuted", "MilestoneSettled"}),
     refunded        |-> Spoken(R, {"RefundExecuted"}),
     disputeOpen     |->
        /\ Spoken(R, {"DisputeOpened"})
        /\ Spoken(R, {"DisputeResolved"}) =>
                Max({r.slot : r \in Named(R, {"DisputeOpened"})})
                    > Max({r.slot : r \in Named(R, {"DisputeResolved"})}),
     disputeResolved |-> Spoken(R, {"DisputeResolved"})]

LEMMA ReputationSpoken ==
    ASSUME NEW R, NEW verified
    PROVE  DeriveSealFacts(NormalizeEscrowEvents(R), verified) = SpokenFacts(R, verified)
  <1> DEFINE at(type) == {e.occurredAt : e \in {d \in NormalizeEscrowEvents(R) :
                                                    d.eventType = type}}
             slots(name) == {r.slot : r \in Named(R, {name})}
  <1>1. /\ at("milestone.approved") = slots("MilestoneApproved")
        /\ at("proof.approved") = slots("ProofApproved")
        /\ at("settlement.completed") = slots("SettlementExecuted")
        /\ at("milestone.settled") = slots("MilestoneSettled")
        /\ at("agreement.refunded") = slots("RefundExecuted")
        /\ at("dispute.opened") = slots("DisputeOpened")
        /\ at("dispute.resolved") = slots("DisputeResolved")
    <2>1. \A name \in DOMAIN EventType : at(EventType[name]) = slots(name)
      BY Seen
    <2> HIDE DEF at, slots
    <2> QED
      BY <2>1 DEF EventType
  <1>2. \A name : slots(name) # {} <=> Spoken(R, {name})
    BY DEF Spoken
  <1>3. /\ Spoken(R, {"MilestoneApproved", "ProofApproved", "SettlementExecuted",
                      "MilestoneSettled"})
            <=> \/ Spoken(R, {"MilestoneApproved"}) \/ Spoken(R, {"ProofApproved"})
                \/ Spoken(R, {"SettlementExecuted"}) \/ Spoken(R, {"MilestoneSettled"})
        /\ Spoken(R, {"SettlementExecuted", "MilestoneSettled"})
            <=> Spoken(R, {"SettlementExecuted"}) \/ Spoken(R, {"MilestoneSettled"})
    BY DEF Spoken, Named
  <1>4. DeriveSealFacts(NormalizeEscrowEvents(R), verified) =
            [chainVerified   |-> verified,
             counterpartyConfirmed |->
                \E t \in {"milestone.approved", "proof.approved", "settlement.completed",
                          "milestone.settled"} : at(t) # {},
             settled         |->
                \E t \in {"settlement.completed", "milestone.settled"} : at(t) # {},
             refunded        |-> \E t \in {"agreement.refunded"} : at(t) # {},
             disputeOpen     |-> /\ \E t \in {"dispute.opened"} : at(t) # {}
                                 /\ (\E t \in {"dispute.resolved"} : at(t) # {}) =>
                                        Max(at("dispute.opened")) > Max(at("dispute.resolved")),
             disputeResolved |-> \E t \in {"dispute.resolved"} : at(t) # {}]
    BY DEF DeriveSealFacts
  <1> HIDE DEF at
  <1>5. /\ (\E t \in {"milestone.approved", "proof.approved", "settlement.completed",
                      "milestone.settled"} : at(t) # {})
            = Spoken(R, {"MilestoneApproved", "ProofApproved", "SettlementExecuted",
                         "MilestoneSettled"})
        /\ (\E t \in {"settlement.completed", "milestone.settled"} : at(t) # {})
            = Spoken(R, {"SettlementExecuted", "MilestoneSettled"})
        /\ (\E t \in {"agreement.refunded"} : at(t) # {}) = Spoken(R, {"RefundExecuted"})
        /\ (\E t \in {"dispute.opened"} : at(t) # {}) = Spoken(R, {"DisputeOpened"})
        /\ (\E t \in {"dispute.resolved"} : at(t) # {}) = Spoken(R, {"DisputeResolved"})
    <2> HIDE DEF slots
    <2> SUFFICES /\ (\E t \in {"milestone.approved", "proof.approved", "settlement.completed",
                               "milestone.settled"} : at(t) # {})
                     <=> Spoken(R, {"MilestoneApproved", "ProofApproved", "SettlementExecuted",
                                    "MilestoneSettled"})
                 /\ (\E t \in {"settlement.completed", "milestone.settled"} : at(t) # {})
                     <=> Spoken(R, {"SettlementExecuted", "MilestoneSettled"})
                 /\ (\E t \in {"agreement.refunded"} : at(t) # {}) <=> Spoken(R, {"RefundExecuted"})
                 /\ (\E t \in {"dispute.opened"} : at(t) # {}) <=> Spoken(R, {"DisputeOpened"})
                 /\ (\E t \in {"dispute.resolved"} : at(t) # {}) <=> Spoken(R, {"DisputeResolved"})
      BY DEF Spoken
    <2> QED
      BY <1>1, <1>2, <1>3
  <1> QED
    BY <1>1, <1>4, <1>5 DEF slots, SpokenFacts

\* The largest slot of a set of receipts.
LEMMA MaxSlot ==
    ASSUME HistoryInv, NEW a \in Agreements, NEW S, S \subseteq All(a), S # {}
    PROVE  \E r \in S : Max({q.slot : q \in S}) = r.slot
  <1> DEFINE slots == {q.slot : q \in S}
  <1>1. \A k \in DOMAIN committed : committed[k].slot \in Nat
    BY ChainTyped DEF HistoryInv
  <1>2. slots \in SUBSET Nat /\ slots # {}
    BY Facts
  <1>3. \E n \in Nat : \A x \in slots : x <= n
    <2>1. Chain /\ Len(committed) \in Nat /\ DOMAIN committed = 1 .. Len(committed)
      BY ChainTyped DEF HistoryInv
    <2> DEFINE d == Len(committed)
    <2>2. d \in Nat /\ \A r \in S : \E k \in 1 .. d : r.slot = committed[k].slot
      BY <2>1, AllTyped DEF Chain
    <2>7. DOMAIN committed = 1 .. d
      BY <2>1
    <2> HIDE DEF d
    <2>3. \A k \in 1 .. d : k <= d /\ d \in 1 .. d
      BY <2>2
    <2>4. \A k \in 1 .. d : k = d \/ k < d
      BY <2>2
    <2>5. \A k \in 1 .. d : committed[k].slot <= committed[d].slot
      <3> TAKE k \in 1 .. d
      <3>1. CASE k = d
        BY <1>1, <2>3, <2>7, <3>1
      <3>2. CASE k < d
        BY <2>1, <2>3, <2>7, <3>2 DEF Chain
      <3> QED
        BY <2>4, <3>1, <3>2
    <2>6. committed[d].slot \in Nat
      BY <1>1, <1>2, <2>2, <2>3, <2>7
    <2>8. \A x \in slots : x <= committed[d].slot
      BY <2>2, <2>5
    <2> QED
      BY <2>6, <2>8
  <1>4. Max(slots) \in slots
    <2> HIDE DEF slots
    <2> QED
      BY <1>2, <1>3, BoundedMax
  <1> QED
    BY <1>4

\* What the receipts of a whole history have said, against the accounts.
LEMMA WholeWords ==
    ASSUME HistoryInv, NEW a \in Agreements, State(a) # "Absent"
    PROVE  /\ Spoken(All(a), {"SettlementExecuted", "MilestoneSettled"})
                <=> Paid(All(a), "SettlementExecuted") > 0
           /\ Spoken(All(a), {"RefundExecuted"}) <=> Paid(All(a), "RefundExecuted") > 0
           /\ Spoken(All(a), {"MilestoneApproved", "ProofApproved", "SettlementExecuted",
                              "MilestoneSettled"})
                <=> \/ \E i \in MilestoneSlots : milestone[a][i].state \in {"Approved", "Settled"}
                    \/ \E i \in ProofSlots : proof[a][i].status = "Approved"
                    \/ State(a) = "Settled"
           /\ /\ Spoken(All(a), {"DisputeOpened"})
              /\ Spoken(All(a), {"DisputeResolved"}) =>
                        Max({r.slot : r \in Named(All(a), {"DisputeOpened"})})
                            > Max({r.slot : r \in Named(All(a), {"DisputeResolved"})})
              <=> State(a) = "Disputed"
           /\ Spoken(All(a), {"DisputeResolved"}) => State(a) \in {"Settled", "Refunded"}
  <1> DEFINE R == All(a)
  <1>1. /\ MoneyTold(a) /\ MovesTold(a) /\ ProofsTold(a) /\ TranchesTold(a) /\ DisputesTold(a)
        /\ IsFiniteSet(R) /\ \A r \in R : r.amount \in Nat /\ r.slot \in Nat
    BY Facts DEF Told
  <1>2. ASSUME NEW S, S \subseteq R, \A r \in S : r.amount > 0
        PROVE  S # {} <=> Worth(S) > 0
    <2>1. IsFiniteSet(S) /\ \A r \in S : r.amount \in Nat
      BY <1>1, <1>2, FS_Subset
    <2>2. S = {} => Worth(S) = 0
      BY WorthEmpty
    <2>3. S # {} => Worth(S) > 0
      BY <1>2, <2>1, WorthPositive
    <2> QED
      BY <2>2, <2>3
  <1>3. /\ Settlements(a) # {} <=> Paid(R, "SettlementExecuted") > 0
        /\ Refunds(a) # {} <=> Paid(R, "RefundExecuted") > 0
    <2>1. /\ Settlements(a) \subseteq R /\ Refunds(a) \subseteq R
          /\ \A r \in Settlements(a) \cup Refunds(a) : r.amount > 0
      BY <1>1 DEF Settlements, Refunds, Named, MoneyTold
    <2>2. Worth(Settlements(a)) > 0 <=> Settlements(a) # {}
      BY <1>2, <2>1
    <2>3. Worth(Refunds(a)) > 0 <=> Refunds(a) # {}
      BY <1>2, <2>1
    <2> QED
      BY <2>2, <2>3, WholeMoney
  <1>4. Spoken(R, {"SettlementExecuted", "MilestoneSettled"}) <=> Settlements(a) # {}
    BY <1>1 DEF Spoken, Settlements, Named, TranchesTold
  <1>5. Spoken(R, {"RefundExecuted"}) <=> Refunds(a) # {}
    BY DEF Spoken, Refunds
  <1>6. State(a) = "Settled" => Settlements(a) # {}
    <2> SUFFICES ASSUME State(a) = "Settled" PROVE Settlements(a) # {}
      OBVIOUS
    <2>1. PICK path \in Seq(R) : IsWholePath(a, path)
      BY WholePath
    <2>2. Len(path) \in 1 .. Len(path) /\ path[Len(path)].after = State(a)
      <3> DEFINE c == Len(path)
      <3>1. c \in Nat /\ c > 0
        BY <2>1 DEF IsWholePath
      <3> HIDE DEF c
      <3>2. c \in 1 .. c
        BY <3>1
      <3> QED
        BY <2>1, <3>2 DEF c, IsWholePath, IsPathOf
    <2>3. path[Len(path)] \in R /\ path[Len(path)].name = MoveName[State(a)]
      BY <1>1, <2>1, <2>2 DEF IsWholePath, MovesTold
    <2> QED
      BY <2>3 DEF MoveName, Settlements, Named
  <1>7. (\E i \in ProofSlots : proof[a][i].status = "Approved") <=> Spoken(R, {"ProofApproved"})
    <2>1. \A i \in ProofSlots :
            Of(Named(R, {"ProofApproved"}), i) # {} <=> proof[a][i].status = "Approved"
      BY <1>1 DEF ProofsTold
    <2>2. \A r \in Named(R, {"ProofApproved"}) :
                r.index \in ProofSlots /\ r \in Of(Named(R, {"ProofApproved"}), r.index)
      BY <1>1 DEF ProofsTold, Named, Decisions, Of
    <2>3. \A i : Of(Named(R, {"ProofApproved"}), i) \subseteq Named(R, {"ProofApproved"})
      BY DEF Of
    <2> QED
      BY <2>1, <2>2, <2>3 DEF Spoken
  <1>8. /\ \A r \in R : r.name = "MilestoneApproved" =>
                r.index \in MilestoneSlots /\ milestone[a][r.index].state \in {"Approved", "Settled"}
        /\ \A i \in MilestoneSlots : milestone[a][i].state \in {"Approved", "Settled"} =>
                Spoken(R, {"MilestoneApproved"})
    <2>1. 0 .. agreement[a].milestoneCount - 1 \subseteq MilestoneSlots
      BY WholeMilestones
    <2>2. \A r \in R : r.name = "MilestoneApproved" =>
                r \in Steps(a) /\ r.index \in MilestoneSlots /\ r \in Of(Steps(a), r.index)
      BY <1>1, <2>1 DEF TranchesTold, Steps, Named, MilestoneSteps, Of
    <2>3. \A i \in MilestoneSlots :
                (\E r \in Of(Steps(a), i) : r.name = "MilestoneApproved")
                    <=> milestone[a][i].state \in {"Approved", "Settled"}
      BY <1>1 DEF TranchesTold, StepsTold
    <2>4. \A i : Of(Steps(a), i) \subseteq R
      BY DEF Of, Steps, Named
    <2> QED
      BY <2>2, <2>3, <2>4 DEF Spoken, Named
  <1>9. Settlements(a) # {} =>
            \/ State(a) = "Settled"
            \/ \E i \in MilestoneSlots : milestone[a][i].state = "Settled"
    BY <1>1 DEF MoneyTold
  <1>10. Spoken(R, {"MilestoneApproved", "ProofApproved", "SettlementExecuted",
                    "MilestoneSettled"})
            <=> \/ \E i \in MilestoneSlots : milestone[a][i].state \in {"Approved", "Settled"}
                \/ \E i \in ProofSlots : proof[a][i].status = "Approved"
                \/ State(a) = "Settled"
    <2>1. Spoken(R, {"MilestoneApproved", "ProofApproved", "SettlementExecuted",
                     "MilestoneSettled"})
            <=> \/ Spoken(R, {"MilestoneApproved"}) \/ Spoken(R, {"ProofApproved"})
                \/ Spoken(R, {"SettlementExecuted", "MilestoneSettled"})
      BY DEF Spoken, Named
    <2>2. Spoken(R, {"MilestoneApproved"}) <=>
            \E i \in MilestoneSlots : milestone[a][i].state \in {"Approved", "Settled"}
      <3>1. Spoken(R, {"MilestoneApproved"}) <=> \E r \in R : r.name = "MilestoneApproved"
        BY DEF Spoken, Named
      <3> HIDE DEF R
      <3> QED
        BY <1>8, <3>1
    <2> QED
      BY <1>4, <1>6, <1>7, <1>9, <2>1, <2>2
  <1>11. /\ State(a) = "Disputed" <=> /\ Named(R, {"DisputeOpened"}) # {}
                                      /\ Named(R, {"DisputeResolved"}) = {}
         /\ Named(R, {"DisputeResolved"}) # {} => State(a) \in {"Settled", "Refunded"}
         /\ \A o \in Named(R, {"DisputeOpened"}), r \in Named(R, {"DisputeResolved"}) :
                o.slot <= r.slot
    BY <1>1 DEF DisputesTold
  <1>12. ASSUME Named(R, {"DisputeOpened"}) # {}, Named(R, {"DisputeResolved"}) # {}
         PROVE  ~(Max({r.slot : r \in Named(R, {"DisputeOpened"})})
                    > Max({r.slot : r \in Named(R, {"DisputeResolved"})}))
    <2>1. \A names : Named(R, names) \subseteq R
      BY DEF Named
    <2>2. PICK o \in Named(R, {"DisputeOpened"}) :
                Max({r.slot : r \in Named(R, {"DisputeOpened"})}) = o.slot
      BY <1>12, <2>1, MaxSlot
    <2>3. PICK q \in Named(R, {"DisputeResolved"}) :
                Max({r.slot : r \in Named(R, {"DisputeResolved"})}) = q.slot
      BY <1>12, <2>1, MaxSlot
    <2>4. o.slot \in Nat /\ q.slot \in Nat /\ o.slot <= q.slot
      BY <1>1, <1>11, <2>1
    <2> QED
      BY <2>2, <2>3, <2>4
  <1>13. /\ Spoken(R, {"DisputeOpened"}) <=> Named(R, {"DisputeOpened"}) # {}
         /\ Spoken(R, {"DisputeResolved"}) <=> Named(R, {"DisputeResolved"}) # {}
    BY DEF Spoken
  <1> HIDE DEF R
  <1>14. (/\ Spoken(R, {"DisputeOpened"})
          /\ Spoken(R, {"DisputeResolved"}) =>
                Max({r.slot : r \in Named(R, {"DisputeOpened"})})
                    > Max({r.slot : r \in Named(R, {"DisputeResolved"})}))
         <=> State(a) = "Disputed"
    BY <1>11, <1>12, <1>13
  <1> QED
    BY <1>3, <1>4, <1>5, <1>10, <1>11, <1>13, <1>14 DEF R

\* The credential's facts of a whole history, against the accounts.
LEMMA WholeCredential ==
    ASSUME HistoryInv, NEW a \in Agreements, State(a) # "Absent"
    PROVE  LET h == History(a)
           IN  /\ h.state = State(a)
               /\ h.settled = Paid(All(a), "SettlementExecuted")
               /\ h.refunded = Paid(All(a), "RefundExecuted")
               /\ (\E i \in DOMAIN h.proofs : h.proofs[i] = "Approved")
                    <=> \E i \in ProofSlots : proof[a][i].status = "Approved"
               /\ (\E i \in DOMAIN h.milestones : h.milestones[i] = "Settled")
                    <=> \E i \in MilestoneSlots : milestone[a][i].state = "Settled"
  <1> DEFINE h == History(a)
  <1>1. /\ h.state = State(a)
        /\ h.settled = Paid(All(a), "SettlementExecuted")
        /\ h.refunded = Paid(All(a), "RefundExecuted")
        /\ h.proofs = [i \in Indices(Named(All(a), {"ProofSubmitted"})) |->
                            ProofStatusOf(All(a), i)]
        /\ h.milestones = [i \in Indices(Named(All(a), {"MilestoneCreated"})) |->
                            MilestoneStateOf(All(a), i)]
    BY WholeHistory
  <1> HIDE DEF h
  <1>2. (\E i \in DOMAIN h.proofs : h.proofs[i] = "Approved")
            <=> \E i \in ProofSlots : proof[a][i].status = "Approved"
    <2>1. /\ DOMAIN h.proofs = 0 .. agreement[a].proofCount - 1
          /\ \A i \in DOMAIN h.proofs :
                i \in ProofSlots /\ h.proofs[i] = proof[a][i].status
      BY <1>1, WholeProofs
    <2>2. ASSUME NEW i \in ProofSlots, proof[a][i].status = "Approved"
          PROVE  i \in DOMAIN h.proofs /\ h.proofs[i] = "Approved"
      BY <2>1, <2>2, WholeProofs
    <2> QED
      BY <2>1, <2>2
  <1>3. (\E i \in DOMAIN h.milestones : h.milestones[i] = "Settled")
            <=> \E i \in MilestoneSlots : milestone[a][i].state = "Settled"
    <2>1. /\ DOMAIN h.milestones = 0 .. agreement[a].milestoneCount - 1
          /\ \A i \in DOMAIN h.milestones :
                /\ i \in MilestoneSlots
                /\ h.milestones[i] = "Settled" <=> milestone[a][i].state = "Settled"
      BY <1>1, WholeMilestones
    <2>2. \A i \in MilestoneSlots : milestone[a][i].state # "Absent" => i \in DOMAIN h.milestones
      BY <2>1, WholeMilestones
    <2>3. ASSUME NEW i \in MilestoneSlots, milestone[a][i].state = "Settled"
          PROVE  i \in DOMAIN h.milestones /\ h.milestones[i] = "Settled"
      BY <2>1, <2>2, <2>3
    <2> QED
      BY <2>1, <2>3
  <1> QED
    BY <1>1, <1>2, <1>3 DEF h

\* Of a whole history, money was earned or returned exactly if the accounts say so.
LEMMA MoneyWords ==
    ASSUME HistoryInv, NEW a \in Agreements, State(a) # "Absent"
    PROVE  /\ Spoken(All(a), {"SettlementExecuted", "MilestoneSettled"}) <=> Earned(a)
           /\ Spoken(All(a), {"RefundExecuted"}) <=> State(a) = "Refunded"
  <1> DEFINE R == All(a)
  <1>1. MoneyTold(a) /\ MovesTold(a) /\ TranchesTold(a)
    BY Facts DEF Told
  <1>2. State(a) \in {"Settled", "Refunded"} => \E r \in R : r.name = MoveName[State(a)]
    <2>1. PICK path \in Seq(R) : IsWholePath(a, path)
      BY WholePath
    <2>2. Len(path) \in 1 .. Len(path) /\ path[Len(path)].after = State(a)
      <3> DEFINE c == Len(path)
      <3>1. c \in Nat /\ c > 0
        BY <2>1 DEF IsWholePath
      <3> HIDE DEF c
      <3>2. c \in 1 .. c
        BY <3>1
      <3> QED
        BY <2>1, <3>2 DEF c, IsWholePath, IsPathOf
    <2>3. path[Len(path)] \in R /\ path[Len(path)].name = MoveName[State(a)]
      BY <1>1, <2>1, <2>2 DEF IsWholePath, MovesTold
    <2> QED
      BY <2>3
  <1>3. Spoken(R, {"SettlementExecuted", "MilestoneSettled"}) <=> Settlements(a) # {}
    BY <1>1 DEF Spoken, Settlements, Named, TranchesTold
  <1>4. State(a) = "Settled" => Settlements(a) # {}
    BY <1>2 DEF MoveName, Settlements, Named
  <1>5. ASSUME NEW i \in MilestoneSlots, milestone[a][i].state = "Settled"
        PROVE  Settlements(a) # {}
    <2>1. PICK r \in Of(Steps(a), i) : r.name = "MilestoneApproved"
      BY <1>1, <1>5 DEF TranchesTold, StepsTold
    <2>2. PICK q \in Of(Steps(a), i) : IsLastStep(a, i, q)
      BY <1>1, <1>5 DEF TranchesTold, StepsTold
    <2>3. q \in R /\ q.name \in MilestoneSteps
      BY <2>2 DEF Of, Steps, Named
    <2>4. q.name = "MilestoneSettled"
      BY <1>5, <2>2, <2>3 DEF IsLastStep, StepState, MilestoneSteps
    <2> QED
      BY <1>1, <2>3, <2>4 DEF TranchesTold, Named
  <1>6. Settlements(a) # {} <=> Earned(a)
    BY <1>1, <1>4, <1>5 DEF MoneyTold, Earned
  <1>7. Refunds(a) # {} => State(a) = "Refunded"
    BY WholeMoney
  <1>8. State(a) = "Refunded" => Refunds(a) # {}
    BY <1>2 DEF MoveName, Refunds, Named
  <1> QED
    BY <1>3, <1>6, <1>7, <1>8 DEF Spoken, Refunds

LEMMA SealsTrue == HistoryInv => SealsAreTrue
  <1> SUFFICES ASSUME HistoryInv, NEW a \in Agreements, State(a) # "Absent"
               PROVE  IsTrueOf(a, CredentialFacts(a)) /\ IsTrueOf(a, ReputationFacts(a))
    BY DEF SealsAreTrue
  <1> DEFINE R == All(a)
             h == History(a)
  <1>1. /\ (\/ \E i \in MilestoneSlots : milestone[a][i].state \in {"Approved", "Settled"}
            \/ \E i \in ProofSlots : proof[a][i].status = "Approved"
            \/ State(a) = "Settled") <=> Accepted(a)
        /\ Earned(a) => Accepted(a)
    BY DEF Accepted, Earned
  <1>2. /\ Spoken(R, {"DisputeResolved"}) => State(a) \in {"Settled", "Refunded"}
        /\ Spoken(R, {"DisputeResolved"}) <=> Named(R, {"DisputeResolved"}) # {}
    BY WholeWords DEF Spoken
  <1>3. IsTrueOf(a, CredentialFacts(a))
    <2> DEFINE c == EscrowSealFacts(h, R, TRUE)
    <2>1. c = CredentialFacts(a)
      BY DEF CredentialFacts, All
    <2>2. /\ c.counterpartyConfirmed <=>
                \/ \E i \in DOMAIN h.proofs : h.proofs[i] = "Approved"
                \/ \E i \in DOMAIN h.milestones : h.milestones[i] = "Settled"
                \/ h.state = "Settled"
          /\ c.settled <=> h.settled > 0
          /\ c.refunded <=> h.refunded > 0
          /\ c.disputeOpen <=> h.state = "Disputed"
          /\ c.disputeResolved <=> Named(R, {"DisputeResolved"}) # {}
      BY DEF EscrowSealFacts
    <2> HIDE DEF c
    <2>3. /\ h.settled > 0 <=> Earned(a)
          /\ h.refunded > 0 <=> State(a) = "Refunded"
      BY MoneyWords, WholeWords, WholeCredential
    <2>4. c.counterpartyConfirmed => Accepted(a)
      BY <2>2, WholeCredential DEF Accepted, Earned
    <2>5. h.state = State(a)
      BY WholeCredential
    <2> HIDE DEF h
    <2> QED
      BY <1>2, <2>1, <2>2, <2>3, <2>4, <2>5 DEF IsTrueOf
  <1>4. IsTrueOf(a, ReputationFacts(a))
    <2> DEFINE e == SpokenFacts(R, TRUE)
    <2>1. e = ReputationFacts(a)
      BY ReputationSpoken DEF ReputationFacts, All
    <2>2. /\ e.counterpartyConfirmed <=>
                Spoken(R, {"MilestoneApproved", "ProofApproved", "SettlementExecuted",
                           "MilestoneSettled"})
          /\ e.settled <=> Spoken(R, {"SettlementExecuted", "MilestoneSettled"})
          /\ e.refunded <=> Spoken(R, {"RefundExecuted"})
          /\ e.disputeOpen <=>
                (/\ Spoken(R, {"DisputeOpened"})
                 /\ Spoken(R, {"DisputeResolved"}) =>
                        Max({r.slot : r \in Named(R, {"DisputeOpened"})})
                            > Max({r.slot : r \in Named(R, {"DisputeResolved"})}))
          /\ e.disputeResolved <=> Spoken(R, {"DisputeResolved"})
      BY DEF SpokenFacts
    <2> HIDE DEF e
    <2>3. e.counterpartyConfirmed => Accepted(a)
      BY <1>1, <2>2, WholeWords
    <2>4. e.disputeOpen <=> State(a) = "Disputed"
      BY <2>2, WholeWords
    <2>5. /\ e.settled <=> Earned(a)
          /\ e.refunded <=> State(a) = "Refunded"
      BY <2>2, MoneyWords
    <2> QED
      BY <1>2, <2>1, <2>2, <2>3, <2>4, <2>5 DEF IsTrueOf
  <1> QED
    BY <1>3, <1>4

\* Neither seal of a whole history says anything the accounts do not bear out:
\* escrowSealFacts and deriveSealFacts, of everything that was ever sent.
THEOREM SealsAreAlwaysTrue == HistorySpec => []SealsAreTrue
  BY HistoryAlways, SealsTrue, PTL

\* A tranche is approved, none was paid, and no proof was approved nor the whole settled.
OnlyApproved(a) ==
    /\ \E i \in MilestoneSlots : milestone[a][i].state = "Approved"
    /\ \A i \in MilestoneSlots : milestone[a][i].state # "Settled"
    /\ \A i \in ProofSlots : proof[a][i].status # "Approved"
    /\ State(a) # "Settled"
SealsDiffer ==
    \A a \in Agreements :
        State(a) # "Absent" =>
            /\ ReputationFacts(a) =
                    [CredentialFacts(a) EXCEPT !.counterpartyConfirmed = @ \/ OnlyApproved(a)]
            /\ OnlyApproved(a) => ~CredentialFacts(a).counterpartyConfirmed

LEMMA SealsApart == HistoryInv => SealsDiffer
  <1> DEFINE all(a) == ReceiptsOf(a, DOMAIN committed)
             credential(a) == CredentialFacts(a)
             reputation(a) == ReputationFacts(a)
             onlyApproved(a) == OnlyApproved(a)
  <1> SUFFICES ASSUME HistoryInv, NEW a \in Agreements, State(a) # "Absent"
               PROVE  /\ reputation(a) = [credential(a) EXCEPT !.counterpartyConfirmed =
                                            @ \/ onlyApproved(a)]
                      /\ onlyApproved(a) => ~credential(a).counterpartyConfirmed
    BY DEF SealsDiffer
  <1> DEFINE R == All(a)
             h == History(a)
  <1>1. all(a) = R
    BY DEF All
  <1>2. reputation(a) = SpokenFacts(R, TRUE)
    BY <1>1, ReputationSpoken DEF ReputationFacts
  <1> DEFINE consent == \/ \E i \in DOMAIN h.proofs : h.proofs[i] = "Approved"
                        \/ \E i \in DOMAIN h.milestones : h.milestones[i] = "Settled"
                        \/ h.state = "Settled"
  <1>3. credential(a) =
            [chainVerified   |-> TRUE,
             counterpartyConfirmed |-> consent,
             settled         |-> h.settled > 0,
             refunded        |-> h.refunded > 0,
             disputeOpen     |-> h.state = "Disputed",
             disputeResolved |-> Named(R, {"DisputeResolved"}) # {}]
    BY <1>1 DEF EscrowSealFacts, CredentialFacts
  <1>4. consent <=> \/ \E i \in ProofSlots : proof[a][i].status = "Approved"
                    \/ \E i \in MilestoneSlots : milestone[a][i].state = "Settled"
                    \/ State(a) = "Settled"
    BY WholeCredential
  <1>5. /\ Spoken(R, {"MilestoneApproved", "ProofApproved", "SettlementExecuted",
                      "MilestoneSettled"}) <=> consent \/ onlyApproved(a)
        /\ onlyApproved(a) => ~consent
    <2>1. Spoken(R, {"MilestoneApproved", "ProofApproved", "SettlementExecuted",
                     "MilestoneSettled"})
            <=> \/ \E i \in MilestoneSlots : milestone[a][i].state \in {"Approved", "Settled"}
                \/ \E i \in ProofSlots : proof[a][i].status = "Approved"
                \/ State(a) = "Settled"
      BY WholeWords
    <2> HIDE DEF consent, R
    <2> QED
      BY <1>4, <2>1 DEF OnlyApproved
  <1>6. /\ Spoken(R, {"SettlementExecuted", "MilestoneSettled"}) <=> h.settled > 0
        /\ Spoken(R, {"RefundExecuted"}) <=> h.refunded > 0
    BY WholeWords, WholeCredential
  <1>7. (/\ Spoken(R, {"DisputeOpened"})
         /\ Spoken(R, {"DisputeResolved"}) =>
                Max({r.slot : r \in Named(R, {"DisputeOpened"})})
                    > Max({r.slot : r \in Named(R, {"DisputeResolved"})}))
        <=> h.state = "Disputed"
    BY WholeWords, WholeCredential
  <1>8. Spoken(R, {"DisputeResolved"}) <=> Named(R, {"DisputeResolved"}) # {}
    BY DEF Spoken
  <1> DEFINE confirmed == Spoken(R, {"MilestoneApproved", "ProofApproved",
                                     "SettlementExecuted", "MilestoneSettled"})
             settled == Spoken(R, {"SettlementExecuted", "MilestoneSettled"})
             refunded == Spoken(R, {"RefundExecuted"})
             open == /\ Spoken(R, {"DisputeOpened"})
                     /\ Spoken(R, {"DisputeResolved"}) =>
                            Max({r.slot : r \in Named(R, {"DisputeOpened"})})
                                > Max({r.slot : r \in Named(R, {"DisputeResolved"})})
             resolved == Spoken(R, {"DisputeResolved"})
             only == onlyApproved(a)
             paid == h.settled > 0
             back == h.refunded > 0
             disputed == h.state = "Disputed"
             ruled == Named(R, {"DisputeResolved"}) # {}
  <1>9. /\ confirmed = (consent \/ only) /\ settled = paid /\ refunded = back
        /\ open = disputed /\ resolved = ruled
    <2>1. /\ confirmed \in BOOLEAN /\ consent \in BOOLEAN /\ only \in BOOLEAN
          /\ settled \in BOOLEAN /\ refunded \in BOOLEAN /\ open \in BOOLEAN
          /\ resolved \in BOOLEAN /\ ruled \in BOOLEAN /\ disputed \in BOOLEAN
          /\ paid \in BOOLEAN /\ back \in BOOLEAN
      BY DEF Spoken, OnlyApproved
    <2>2. /\ confirmed <=> consent \/ only
          /\ settled <=> paid
          /\ refunded <=> back
          /\ open <=> disputed
          /\ resolved <=> ruled
      BY <1>5, <1>6, <1>7, <1>8
    <2> HIDE DEF confirmed, consent, only, settled, paid, refunded, back, open, disputed,
                 resolved, ruled
    <2> QED
      BY <2>1, <2>2
  <1>10. /\ reputation(a) = [chainVerified |-> TRUE, counterpartyConfirmed |-> confirmed,
                             settled |-> settled, refunded |-> refunded, disputeOpen |-> open,
                             disputeResolved |-> resolved]
         /\ credential(a) = [chainVerified |-> TRUE, counterpartyConfirmed |-> consent,
                             settled |-> paid, refunded |-> back, disputeOpen |-> disputed,
                             disputeResolved |-> ruled]
    BY <1>2, <1>3 DEF SpokenFacts
  <1> HIDE DEF confirmed, consent, settled, paid, refunded, back, open, disputed, resolved,
               ruled, reputation, credential
  <1>11. reputation(a) = [credential(a) EXCEPT !.counterpartyConfirmed = @ \/ onlyApproved(a)]
    <2> HIDE DEF onlyApproved
    <2> DEFINE either == credential(a).counterpartyConfirmed \/ only
    <2>1. either = (consent \/ only)
      <3>1. credential(a).counterpartyConfirmed <=> consent
        BY <1>10
      <3> QED
        BY <3>1
    <2>2. [credential(a) EXCEPT !.counterpartyConfirmed = @ \/ only] =
            [credential(a) EXCEPT !.counterpartyConfirmed = either]
      OBVIOUS
    <2> HIDE DEF either
    <2> DEFINE verified == TRUE
    <2>3. /\ reputation(a) = [chainVerified |-> verified, counterpartyConfirmed |-> confirmed,
                              settled |-> settled, refunded |-> refunded, disputeOpen |-> open,
                              disputeResolved |-> resolved]
          /\ credential(a) = [chainVerified |-> verified, counterpartyConfirmed |-> consent,
                              settled |-> paid, refunded |-> back, disputeOpen |-> disputed,
                              disputeResolved |-> ruled]
      BY <1>10
    <2> HIDE DEF verified
    <2>5. [credential(a) EXCEPT !.counterpartyConfirmed = either] =
            [chainVerified |-> verified, counterpartyConfirmed |-> either,
             settled |-> paid, refunded |-> back, disputeOpen |-> disputed,
             disputeResolved |-> ruled]
      BY <2>3
    <2>4. either = confirmed
      BY <1>9, <2>1
    <2> QED
      BY <1>9, <2>2, <2>3, <2>4, <2>5 DEF only
  <1>12. onlyApproved(a) => ~credential(a).counterpartyConfirmed
    BY <1>5, <1>10
  <1> QED
    BY <1>11, <1>12

\* The credential and the reputation see the same money and the same disputes, and differ
\* about the other party's consent exactly while a tranche is approved and nothing else
\* says so: escrowSealFacts and deriveSealFacts of every whole history.
THEOREM SealsDifferOnApprovedTranches == HistorySpec => []SealsDiffer
  BY HistoryAlways, SealsApart, PTL

LEMMA SealRanks ==
    ASSUME NEW facts, facts.chainVerified = TRUE
    PROVE  /\ SealRank[ResolveSealState(facts)] \in 1 .. 4
           /\ facts.disputeResolved /\ ~facts.disputeOpen =>
                    SealRank[ResolveSealState(facts)] = 4
           /\ ~facts.disputeResolved =>
                    SealRank[ResolveSealState(facts)] =
                        IF facts.settled THEN 3 ELSE IF facts.counterpartyConfirmed THEN 2 ELSE 1
  BY DEF SealRank, ResolveSealState

\* Facts that say less, and of no ruling the others do not know of, make a lower seal.
LEMMA LessIsLower ==
    ASSUME NEW less, NEW more, less.chainVerified = TRUE, more.chainVerified = TRUE,
           less.settled => more.settled,
           less.counterpartyConfirmed => more.counterpartyConfirmed,
           less.disputeResolved => more.disputeResolved,
           more.disputeResolved => ~more.disputeOpen
    PROVE  SealRank[ResolveSealState(less)] <= SealRank[ResolveSealState(more)]
  <1>1. SealRank[ResolveSealState(less)] \in 1 .. 4
    BY SealRanks
  <1>2. CASE more.disputeResolved
    <2>1. SealRank[ResolveSealState(more)] = 4
      BY <1>2, SealRanks
    <2> QED
      BY <1>1, <2>1
  <1>3. CASE ~more.disputeResolved
    <2>1. /\ SealRank[ResolveSealState(less)] =
                IF less.settled THEN 3 ELSE IF less.counterpartyConfirmed THEN 2 ELSE 1
          /\ SealRank[ResolveSealState(more)] =
                IF more.settled THEN 3 ELSE IF more.counterpartyConfirmed THEN 2 ELSE 1
      BY <1>3, SealRanks
    <2> QED
      BY <2>1
  <1> QED
    BY <1>2, <1>3

\* What a part of the receipts says of the other party's consent, the whole says too.
LEMMA PartConsent ==
    ASSUME HistoryInv, NEW a \in Agreements, State(a) # "Absent", NEW R, R \subseteq All(a),
           Reconstruct(R) # Refused
    PROVE  LET h == Reconstruct(R)
           IN  \/ \E i \in DOMAIN h.proofs : h.proofs[i] = "Approved"
               \/ \E i \in DOMAIN h.milestones : h.milestones[i] = "Settled"
               \/ h.state = "Settled"
               => \/ \E i \in ProofSlots : proof[a][i].status = "Approved"
                  \/ \E i \in MilestoneSlots : milestone[a][i].state = "Settled"
                  \/ State(a) = "Settled"
  <1> DEFINE h == Reconstruct(R)
  <1>1. /\ h.proofs = [i \in Indices(Named(R, {"ProofSubmitted"})) |-> ProofStatusOf(R, i)]
        /\ h.milestones =
                [i \in Indices(Named(R, {"MilestoneCreated"})) |-> MilestoneStateOf(R, i)]
    BY PartHistory
  <1>2. h.state = "Settled" => State(a) = "Settled"
    BY PartEnding
  <1> HIDE DEF h
  <1>3. /\ ProofsTold(a) /\ TranchesTold(a)
        /\ 0 .. agreement[a].milestoneCount - 1 \subseteq MilestoneSlots
    BY Facts, WholeMilestones DEF Told
  <1>4. ASSUME NEW i \in DOMAIN h.proofs, h.proofs[i] = "Approved"
        PROVE  \E j \in ProofSlots : proof[a][j].status = "Approved"
    <2>1. Of(Named(R, {"ProofApproved"}), i) # {}
      BY <1>1, <1>4 DEF ProofStatusOf
    <2>2. PICK r \in All(a) : r.name = "ProofApproved" /\ r.index = i
      BY <2>1 DEF Of, Named
    <2>3. i \in ProofSlots /\ Of(Named(All(a), {"ProofApproved"}), i) # {}
      BY <1>3, <2>2 DEF ProofsTold, Named, Decisions, Of
    <2> QED
      BY <1>3, <2>3 DEF ProofsTold
  <1>5. ASSUME NEW i \in DOMAIN h.milestones, h.milestones[i] = "Settled"
        PROVE  \E j \in MilestoneSlots : milestone[a][j].state = "Settled"
    <2> DEFINE S == Of(Named(R, MilestoneSteps), i)
    <2>1. MilestoneStateOf(R, i) = "Settled"
      BY <1>1, <1>5
    <2>2. S # {}
      BY <2>1 DEF MilestoneStateOf
    <2>3. S \subseteq Steps(a) /\ \A r \in S : r.name \in MilestoneSteps
      BY DEF Of, Named, Steps
    <2>4. Latest(S) \in S
      <3> HIDE DEF S
      <3> QED
        BY <2>2, <2>3, LatestStep
    <2>5. Latest(S).name = "MilestoneSettled"
      <3>1. Latest(S).name \in MilestoneSteps
        BY <2>3, <2>4
      <3> QED
        BY <2>1, <2>2, <3>1 DEF MilestoneStateOf, MilestoneSteps
    <2>6. PICK r \in Steps(a) : r.name = "MilestoneSettled"
      BY <2>3, <2>4, <2>5
    <2>7. r.index \in MilestoneSlots /\ StepsTold(a, r.index) /\ r \in Of(Steps(a), r.index)
      BY <1>3, <2>6 DEF TranchesTold, Of
    <2>8. PICK q \in Of(Steps(a), r.index) : IsLastStep(a, r.index, q)
      BY <2>7 DEF StepsTold
    <2>9. q = r
      BY <2>6, <2>7, <2>8 DEF IsLastStep
    <2> QED
      BY <2>6, <2>7, <2>8, <2>9 DEF IsLastStep, StepState
  <1> QED
    BY <1>2, <1>4, <1>5 DEF h

\* Whatever part of the receipts a reader has, its seals are at most those of the whole.
LEMMA PartSeals ==
    ASSUME HistoryInv, NEW a \in Agreements, State(a) # "Absent", NEW R, R \subseteq All(a)
    PROVE  /\ SealRank[ReputationSeal(R, TRUE)] <= SealRank[ReputationSeal(All(a), TRUE)]
           /\ Reconstruct(R) # Refused =>
                SealRank[EscrowCredential(Reconstruct(R), R, TRUE)]
                    <= SealRank[EscrowCredential(History(a), All(a), TRUE)]
  <1>1. \A names : Named(R, names) \subseteq Named(All(a), names)
    BY DEF Named
  <1>2. SealRank[ReputationSeal(R, TRUE)] <= SealRank[ReputationSeal(All(a), TRUE)]
    <2> DEFINE less == DeriveSealFacts(NormalizeEscrowEvents(R), TRUE)
               more == DeriveSealFacts(NormalizeEscrowEvents(All(a)), TRUE)
    <2>1. less = SpokenFacts(R, TRUE) /\ more = SpokenFacts(All(a), TRUE)
      BY ReputationSpoken
    <2> HIDE DEF less, more
    <2>2. /\ less.chainVerified = TRUE /\ more.chainVerified = TRUE
          /\ less.settled => Spoken(R, {"SettlementExecuted", "MilestoneSettled"})
          /\ Spoken(All(a), {"SettlementExecuted", "MilestoneSettled"}) => more.settled
          /\ less.counterpartyConfirmed =>
                Spoken(R, {"MilestoneApproved", "ProofApproved", "SettlementExecuted",
                           "MilestoneSettled"})
          /\ Spoken(All(a), {"MilestoneApproved", "ProofApproved", "SettlementExecuted",
                             "MilestoneSettled"}) => more.counterpartyConfirmed
          /\ less.disputeResolved => Spoken(R, {"DisputeResolved"})
          /\ more.disputeResolved <=> Spoken(All(a), {"DisputeResolved"})
          /\ more.disputeOpen <=>
                (/\ Spoken(All(a), {"DisputeOpened"})
                 /\ Spoken(All(a), {"DisputeResolved"}) =>
                        Max({r.slot : r \in Named(All(a), {"DisputeOpened"})})
                            > Max({r.slot : r \in Named(All(a), {"DisputeResolved"})}))
      BY <2>1 DEF SpokenFacts
    <2>3. \A names : Spoken(R, names) => Spoken(All(a), names)
      BY <1>1 DEF Spoken
    <2>4. more.disputeResolved => ~more.disputeOpen
      BY <2>2, WholeWords
    <2>5. SealRank[ResolveSealState(less)] <= SealRank[ResolveSealState(more)]
      BY <2>2, <2>3, <2>4, LessIsLower
    <2> QED
      BY <2>5 DEF ReputationSeal, less, more
  <1>3. ASSUME Reconstruct(R) # Refused
        PROVE  SealRank[EscrowCredential(Reconstruct(R), R, TRUE)]
                    <= SealRank[EscrowCredential(History(a), All(a), TRUE)]
    <2> DEFINE h == Reconstruct(R)
               w == History(a)
               less == EscrowSealFacts(h, R, TRUE)
               more == EscrowSealFacts(w, All(a), TRUE)
    <2>1. less.settled => more.settled
      <3>1. /\ Paid(R, "SettlementExecuted") <= Worth(Settlements(a))
            /\ Paid(R, "SettlementExecuted") \in Nat
        BY PartPaid DEF Settlements
      <3>2. /\ h.settled = Paid(R, "SettlementExecuted")
            /\ w.settled = Worth(Settlements(a)) /\ Worth(Settlements(a)) \in Nat
        BY <1>3, PartHistory, WholeCredential, WholeMoney
      <3>3. /\ less.settled => h.settled > 0
            /\ w.settled > 0 => more.settled
        BY DEF EscrowSealFacts
      <3> HIDE DEF h, w, less, more
      <3> QED
        BY <3>1, <3>2, <3>3
    <2>2. less.counterpartyConfirmed => more.counterpartyConfirmed
      <3>1. less.counterpartyConfirmed =>
                \/ \E i \in ProofSlots : proof[a][i].status = "Approved"
                \/ \E i \in MilestoneSlots : milestone[a][i].state = "Settled"
                \/ State(a) = "Settled"
        BY <1>3, PartConsent DEF EscrowSealFacts
      <3>2. (\/ \E i \in ProofSlots : proof[a][i].status = "Approved"
             \/ \E i \in MilestoneSlots : milestone[a][i].state = "Settled"
             \/ State(a) = "Settled") => more.counterpartyConfirmed
        BY WholeCredential DEF EscrowSealFacts
      <3> HIDE DEF less, more
      <3> QED
        BY <3>1, <3>2
    <2>3. less.disputeResolved => more.disputeResolved
      BY <1>1 DEF EscrowSealFacts
    <2>4. more.disputeResolved => ~more.disputeOpen
      BY WholeWords, WholeCredential DEF EscrowSealFacts, Spoken
    <2>5. less.chainVerified = TRUE /\ more.chainVerified = TRUE
      BY DEF EscrowSealFacts
    <2> HIDE DEF less, more
    <2>6. SealRank[ResolveSealState(less)] <= SealRank[ResolveSealState(more)]
      BY <2>1, <2>2, <2>3, <2>4, <2>5, LessIsLower
    <2> QED
      BY <2>6 DEF EscrowCredential, less, more
  <1> QED
    BY <1>2, <1>3

LEMMA SealsRise == HistoryInv => SealsOnlyRise
  <1> SUFFICES ASSUME HistoryInv, NEW a \in Agreements, State(a) # "Absent",
                      NEW i \in DOMAIN committed
               PROVE  LET all == ReceiptsOf(a, DOMAIN committed)
                          R == ReceiptsOf(a, DOMAIN committed \ {i})
                          h == Reconstruct(R)
                      IN  /\ SealRank[ReputationSeal(R, TRUE)]
                                <= SealRank[ReputationSeal(all, TRUE)]
                          /\ h # Refused =>
                                SealRank[EscrowCredential(h, R, TRUE)]
                                    <= SealRank[EscrowCredential(History(a), all, TRUE)]
    BY DEF SealsOnlyRise
  <1> DEFINE R == ReceiptsOf(a, DOMAIN committed \ {i})
  <1>1. R \subseteq All(a) /\ ReceiptsOf(a, DOMAIN committed) = All(a)
    BY PartIsPart DEF All
  <1> HIDE DEF R
  <1>2. /\ SealRank[ReputationSeal(R, TRUE)] <= SealRank[ReputationSeal(All(a), TRUE)]
        /\ Reconstruct(R) # Refused =>
                SealRank[EscrowCredential(Reconstruct(R), R, TRUE)]
                    <= SealRank[EscrowCredential(History(a), All(a), TRUE)]
    BY <1>1, PartSeals
  <1> QED
    BY <1>1, <1>2 DEF R

\* A seal is never taken back and never comes too early: without any one transaction, the
\* newest or another, the credential and the reputation show at most the seal of the whole
\* history.  resolveSealState of escrowSealFacts and of deriveSealFacts.
THEOREM SealsAlwaysRise == HistorySpec => []SealsOnlyRise
  BY HistoryAlways, SealsRise, PTL

\* The same of any part of the transactions, however much of the history is missing.
NoReadingOverstates ==
    \A a \in Agreements : \A read \in SUBSET DOMAIN committed :
        LET R == ReceiptsOf(a, read)
            h == Reconstruct(R)
        IN  /\ h # Refused =>
                /\ h.settled + h.refunded <= agreement[a].settledTotal
                /\ h.state \in {"Settled", "Refunded"} =>
                    /\ h.state = State(a)
                    /\ h.settled + h.refunded = agreement[a].settledTotal
            /\ State(a) # "Absent" =>
                /\ SealRank[ReputationSeal(R, TRUE)] <= SealRank[ReputationSeal(All(a), TRUE)]
                /\ h # Refused =>
                        SealRank[EscrowCredential(h, R, TRUE)]
                            <= SealRank[EscrowCredential(History(a), All(a), TRUE)]

\* Whatever an indexer has read, it reports no more money than moved, no ending by payment but
\* the real one, and no seal above that of the whole history:
\* reconstructAgreementLifecycle, escrowCredential and the reputation over any
\* subset of the transactions, not only one that lacks a single transaction.
THEOREM NoReadingEverOverstates == HistorySpec => []NoReadingOverstates
  <1>1. HistoryInv => NoReadingOverstates
    <2> SUFFICES ASSUME HistoryInv, NEW a \in Agreements, NEW read \in SUBSET DOMAIN committed
                 PROVE  LET R == ReceiptsOf(a, read)
                            h == Reconstruct(R)
                        IN  /\ h # Refused =>
                                /\ h.settled + h.refunded <= agreement[a].settledTotal
                                /\ h.state \in {"Settled", "Refunded"} =>
                                    /\ h.state = State(a)
                                    /\ h.settled + h.refunded = agreement[a].settledTotal
                            /\ State(a) # "Absent" =>
                                /\ SealRank[ReputationSeal(R, TRUE)]
                                        <= SealRank[ReputationSeal(All(a), TRUE)]
                                /\ h # Refused =>
                                        SealRank[EscrowCredential(h, R, TRUE)]
                                            <= SealRank[EscrowCredential(History(a), All(a), TRUE)]
      BY DEF NoReadingOverstates
    <2> DEFINE R == ReceiptsOf(a, read)
    <2>1. R \subseteq All(a)
      BY DEF All, ReceiptsOf, Receipts
    <2> HIDE DEF R
    <2>2. LET h == Reconstruct(R)
          IN  h # Refused =>
                /\ h.settled + h.refunded <= agreement[a].settledTotal
                /\ h.state \in {"Settled", "Refunded"} =>
                    /\ h.state = State(a)
                    /\ h.settled + h.refunded = agreement[a].settledTotal
      BY <2>1, PartMoney
    <2>3. State(a) # "Absent" =>
            /\ SealRank[ReputationSeal(R, TRUE)] <= SealRank[ReputationSeal(All(a), TRUE)]
            /\ Reconstruct(R) # Refused =>
                    SealRank[EscrowCredential(Reconstruct(R), R, TRUE)]
                        <= SealRank[EscrowCredential(History(a), All(a), TRUE)]
      BY <2>1, PartSeals
    <2> QED
      BY <2>2, <2>3 DEF R
  <1> QED
    BY <1>1, HistoryAlways, PTL
=============================================================================
