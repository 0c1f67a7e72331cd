-------------------------- MODULE PpvEscrowSchedule --------------------------
(***************************************************************************)
(* The theorems about ppv_escrow that rest on adding up: the schedule of   *)
(* a milestone contract, paying in full, and the refinement of             *)
(* EscrowContract, which needs both.                                       *)
(***************************************************************************)
EXTENDS PpvEscrowGuarantees, FiniteSetTheorems

\* f[i] tokens for each i of S, as a set that can be counted.
Tokens(S, f) == UNION {{i} \X (1 .. f[i]) : i \in S}
Total(S, f) == Cardinality(Tokens(S, f))

LEMMA OnePile ==
    ASSUME NEW i, NEW n \in Nat
    PROVE  IsFiniteSet({i} \X (1 .. n)) /\ Cardinality({i} \X (1 .. n)) = n
  <1>1. IsFiniteSet(1 .. n) /\ Cardinality(1 .. n) = n
    BY FS_Interval
  <1>2. IsFiniteSet({i}) /\ Cardinality({i}) = 1
    BY FS_Singleton
  <1>3. /\ IsFiniteSet({i} \X (1 .. n))
        /\ Cardinality({i} \X (1 .. n)) = Cardinality({i}) * Cardinality(1 .. n)
    BY <1>1, <1>2, FS_Product
  <1> QED
    BY <1>1, <1>2, <1>3

LEMMA TokensFinite ==
    ASSUME NEW S, IsFiniteSet(S), NEW f, \A i \in S : f[i] \in Nat
    PROVE  IsFiniteSet(Tokens(S, f)) /\ Total(S, f) \in Nat
  <1> DEFINE piles == {{i} \X (1 .. f[i]) : i \in S}
             pile == [i \in S |-> {i} \X (1 .. f[i])]
  <1>1. pile \in Surjection(S, piles)
    <2>1. pile \in [S -> piles]
      OBVIOUS
    <2>2. \A p \in piles : \E i \in S : pile[i] = p
      OBVIOUS
    <2> QED
      BY <2>1, <2>2 DEF Surjection
  <1>2. IsFiniteSet(piles)
    <2> HIDE DEF pile, piles
    <2> QED
      BY <1>1, FS_Surjection
  <1>3. \A p \in piles : IsFiniteSet(p)
    <2>1. \A i \in S : IsFiniteSet({i} \X (1 .. f[i]))
      BY OnePile
    <2> QED
      BY <2>1
  <1>4. IsFiniteSet(UNION piles)
    BY <1>2, <1>3, FS_UNION
  <1> QED
    BY <1>4, FS_CardinalityType DEF Tokens, Total

LEMMA TotalEmpty == ASSUME NEW f PROVE Total({}, f) = 0
  BY FS_EmptySet DEF Total, Tokens

LEMMA TotalAdd ==
    ASSUME NEW S, IsFiniteSet(S), NEW f, \A j \in S : f[j] \in Nat,
           NEW i, i \notin S, f[i] \in Nat
    PROVE  Total(S \cup {i}, f) = Total(S, f) + f[i]
  <1> DEFINE pile == {i} \X (1 .. f[i])
  <1>1. Tokens(S \cup {i}, f) = Tokens(S, f) \cup pile
    BY DEF Tokens
  <1>2. Tokens(S, f) \cap pile = {}
    BY DEF Tokens
  <1>3. IsFiniteSet(Tokens(S, f)) /\ IsFiniteSet(pile) /\ Cardinality(pile) = f[i]
    BY TokensFinite, OnePile
  <1>4. Cardinality(Tokens(S, f) \cup pile)
            = Cardinality(Tokens(S, f)) + Cardinality(pile)
              - Cardinality(Tokens(S, f) \cap pile)
    BY <1>3, FS_Union
  <1>5. Cardinality(Tokens(S, f)) \in Nat
    BY <1>3, FS_CardinalityType
  <1>6. Cardinality(Tokens(S, f) \cap pile) = 0
    BY <1>2, FS_EmptySet
  <1>7. Cardinality(Tokens(S, f) \cup pile) = Cardinality(Tokens(S, f)) + f[i]
    BY <1>3, <1>4, <1>5, <1>6
  <1> QED
    BY <1>1, <1>7 DEF Total

\* Only the piles of S count, and empty ones do not.
LEMMA TotalSame ==
    ASSUME NEW S, NEW f, NEW g, \A i \in S : f[i] = g[i]
    PROVE  Total(S, f) = Total(S, g)
  <1>1. Tokens(S, f) = Tokens(S, g)
    BY DEF Tokens
  <1> QED
    BY <1>1 DEF Total

LEMMA TotalSkips ==
    ASSUME NEW S, NEW T \in SUBSET S, NEW f, \A i \in S \ T : f[i] = 0
    PROVE  Total(S, f) = Total(T, f)
  <1>1. \A i \in S \ T : {i} \X (1 .. f[i]) = {}
    OBVIOUS
  <1>2. Tokens(S, f) = Tokens(T, f)
    BY <1>1 DEF Tokens
  <1> QED
    BY <1>2 DEF Total

LEMMA TotalSubset ==
    ASSUME NEW S, IsFiniteSet(S), NEW f, \A i \in S : f[i] \in Nat, NEW T \in SUBSET S
    PROVE  Total(T, f) <= Total(S, f)
  <1>1. Tokens(T, f) \subseteq Tokens(S, f)
    BY DEF Tokens
  <1>2. IsFiniteSet(Tokens(S, f))
    BY TokensFinite
  <1> QED
    BY <1>1, <1>2, FS_Subset DEF Total

\* One pile changes.
LEMMA TotalUpdate ==
    ASSUME NEW S, IsFiniteSet(S), NEW f, NEW g, NEW i \in S,
           \A j \in S : f[j] \in Nat /\ g[j] \in Nat,
           \A j \in S \ {i} : g[j] = f[j]
    PROVE  Total(S, g) - g[i] = Total(S, f) - f[i] /\ Total(S, f) >= f[i]
  <1> DEFINE R == S \ {i}
  <1>1. IsFiniteSet(R) /\ S = R \cup {i} /\ i \notin R
    BY FS_RemoveElement
  <1>2. Total(S, f) = Total(R, f) + f[i]
    BY <1>1, TotalAdd
  <1>3. Total(S, g) = Total(R, g) + g[i]
    BY <1>1, TotalAdd
  <1>4. Total(R, g) = Total(R, f)
    BY TotalSame
  <1>5. Total(R, f) \in Nat /\ f[i] \in Nat /\ g[i] \in Nat
    BY <1>1, TokensFinite
  <1> QED
    BY <1>2, <1>3, <1>4, <1>5
-----------------------------------------------------------------------------
(* The schedule of a milestone contract. *)
TrancheAmounts(a) == [i \in MilestoneSlots |-> milestone[a][i].amount]

LEMMA TrancheSumIsTotal ==
    ASSUME NEW a \in Agreements, NEW S \in SUBSET MilestoneSlots
    PROVE  TrancheSum(a, S) = Total(S, TrancheAmounts(a))
  <1>1. \A i \in S : TrancheAmounts(a)[i] = milestone[a][i].amount
    BY DEF TrancheAmounts
  <1>2. UNION {{i} \X (1 .. milestone[a][i].amount) : i \in S} = Tokens(S, TrancheAmounts(a))
    BY <1>1 DEF Tokens
  <1> QED
    BY <1>2 DEF TrancheSum, Total

LEMMA SlotsFinite ==
    /\ IsFiniteSet(MilestoneSlots)
    /\ \A S \in SUBSET MilestoneSlots : IsFiniteSet(S) /\ Cardinality(S) \in Nat
  <1>1. IsFiniteSet(MilestoneSlots)
    BY LimitAssumption, FS_Interval DEF MilestoneSlots
  <1> QED
    BY <1>1, FS_Subset, FS_CardinalityType

LEMMA AmountsAreNat ==
    ASSUME TypeOK, NEW a \in Agreements, NEW i \in MilestoneSlots
    PROVE  TrancheAmounts(a)[i] = milestone[a][i].amount /\ TrancheAmounts(a)[i] \in Nat
  BY DEF TypeOK, MilestoneRecords, TrancheAmounts

\* ScheduleAddsUp and EndsPaidInFull for one agreement, with what makes them inductive:
\* a milestone that exists is worth something, one that does not is worth nothing, and
\* no tranche is settled before funding.
Tranches(a) ==
    /\ \A i \in MilestoneSlots :
            IF milestone[a][i].state = "Absent" THEN milestone[a][i].amount = 0
                                                ELSE milestone[a][i].amount > 0
    /\ agreement[a].milestoneTotal = Total(MilestoneSlots, TrancheAmounts(a))
    /\ agreement[a].milestonesSettled = Cardinality(SettledSlots(a))
    /\ State(a) \in {"Absent", "Open"} => SettledSlots(a) = {}
    /\ MilestoneActive(a) => agreement[a].milestoneTotal = agreement[a].amount
    /\ IsLive(a) =>
            /\ agreement[a].settledTotal = Total(SettledSlots(a), TrancheAmounts(a))
            /\ agreement[a].settledTotal < agreement[a].amount
    /\ State(a) \in {"Settled", "Refunded"} =>
            agreement[a].settledTotal = agreement[a].amount

ScheduleInv == EvidenceInv /\ \A a \in Agreements : Tranches(a)

LEMMA ScheduleInit == Init => ScheduleInv
  <1> SUFFICES ASSUME Init, NEW a \in Agreements PROVE Tranches(a)
    BY EvidenceInit DEF ScheduleInv
  <1>1. agreement[a] = AbsentAgreement /\ agreement[a].state = "Absent"
    BY DEF Init, EscrowInit, AbsentAgreement, NewAgreement
  <1>2. \A i \in MilestoneSlots :
            milestone[a][i].state = "Absent" /\ milestone[a][i].amount = 0
    BY DEF Init, EscrowInit, AbsentMilestone
  <1>3. SettledSlots(a) = {}
    BY <1>2 DEF SettledSlots
  <1>4. Total(MilestoneSlots, TrancheAmounts(a)) = 0
    <2>1. \A i \in MilestoneSlots \ {} : TrancheAmounts(a)[i] = 0
      BY <1>2 DEF TrancheAmounts
    <2>2. Total(MilestoneSlots, TrancheAmounts(a)) = Total({}, TrancheAmounts(a))
      BY <2>1, TotalSkips
    <2> QED
      BY <2>2, TotalEmpty
  <1> QED
    BY <1>1, <1>2, <1>3, <1>4, BlankFields, FS_EmptySet
    DEF Tranches, State, IsLive, LiveStates, MilestoneActive

\* A step that leaves the milestones of an agreement alone.
LEMMA TranchesUntouched ==
    ASSUME CustodyInv, NEW a \in Agreements, Tranches(a), Dense(a),
           milestone'[a] = milestone[a],
           \/ Touches(a)
           \/ agreement'[a] = agreement[a]
    PROVE  Tranches(a)'
  <1> USE DEF LiveStates, IsLive, State, MilestoneActive, IsMilestoneContract
  <1>1. TypeOK /\ Books(a) /\ Deal(a)
    BY DEF CustodyInv
  <1>2. TrancheAmounts(a)' = TrancheAmounts(a) /\ SettledSlots(a)' = SettledSlots(a)
    BY DEF TrancheAmounts, SettledSlots
  <1>3. /\ agreement[a].amount \in Nat /\ agreement[a].settledTotal \in Nat
        /\ Total({}, TrancheAmounts(a)) = 0
    BY <1>1, AccountFields, TotalEmpty
  <1>4. CASE agreement'[a] = agreement[a]
    BY <1>2, <1>4 DEF Tranches
  <1>5. ASSUME NEW t \in AgreementType, NEW p \in Owners, NEW n \in Nat, Opened(a, t, p, n)
        PROVE  Tranches(a)'
    <2>1. agreement[a].milestoneTotal = 0 /\ agreement[a].milestonesSettled = 0
          /\ agreement[a].state = "Absent"
      BY <1>1, <1>5, BlankFields DEF Deal, Opened
    <2>2. /\ agreement'[a].milestoneTotal = 0 /\ agreement'[a].milestonesSettled = 0
          /\ agreement'[a].state = "Open"
      BY <1>5 DEF Opened, NewAgreement
    <2> QED
      BY <1>2, <2>1, <2>2 DEF Tranches
  <1>6. CASE \E p \in Owners : Chosen(a, p)
    BY <1>2, <1>6 DEF Tranches, Chosen, KeepsDeal, KeepsSchedule, KeepsPayments
  <1>7. CASE Deposited(a)
    BY <1>1, <1>2, <1>3, <1>7
    DEF Tranches, Deposited, Books, Deal, KeepsDeal, KeepsSchedule, KeepsPayments
  <1>8. CASE Moved(a)
    BY <1>2, <1>8 DEF Tranches, Moved, KeepsDeal, KeepsSchedule, KeepsPayments
  <1>9. ASSUME NEW d \in Owners, NEW c \in Citations, Closed(a, d, c)
        PROVE  Tranches(a)'
    <2>1. agreement'[a].settledTotal = agreement'[a].amount
      BY <1>1, <1>3, <1>9 DEF Closed, Remaining, Books, KeepsDeal
    <2>2. agreement'[a].state \in {"Settled", "Refunded"}
      BY <1>9 DEF Closed
    <2> QED
      BY <1>2, <1>9, <2>1, <2>2 DEF Tranches, Closed, KeepsSchedule
  <1>10. CASE \E i \in MilestoneSlots, n \in Nat : Scheduled(a, i, n)
    <2>1. PICK i \in MilestoneSlots, n \in Nat : Scheduled(a, i, n)
      BY <1>10
    <2>2. milestone'[a][i].state = "Pending" /\ i = agreement[a].milestoneCount /\ i \in Nat
      BY <2>1, LimitAssumption DEF Scheduled, MilestoneSlots
    <2> QED
      BY <2>2 DEF Dense
  <1>11. CASE \E i \in MilestoneSlots : Worked(a, i)
    BY <1>4, <1>11 DEF Worked
  <1>12. CASE \E i \in MilestoneSlots, n \in Nat, c \in Citations : TranchePaid(a, i, n, c)
    BY <1>12 DEF TranchePaid
  <1>13. CASE \E i \in ProofSlots, w \in Wallets : ProofSubmitted(a, i, w)
    BY <1>2, <1>13 DEF Tranches, ProofSubmitted, KeepsDeal, KeepsSchedule, KeepsPayments
  <1>14. CASE \/ \E i \in ProofSlots, w \in Wallets : ProofDecided(a, i, w)
              \/ \E w \in Wallets, n \in Nat : Donated(a, w, n)
    BY <1>4, <1>14 DEF ProofDecided, Donated
  <1> QED
    BY <1>4, <1>5, <1>6, <1>7, <1>8, <1>9, <1>10, <1>11, <1>12, <1>13, <1>14 DEF Touches

\* create_milestone adds one tranche, to a schedule of which nothing is paid yet.
LEMMA TranchesScheduled ==
    ASSUME TypeOK, TypeOK', NEW a \in Agreements, Tranches(a), Dense(a),
           NEW k \in MilestoneSlots, NEW n \in Nat, Scheduled(a, k, n)
    PROVE  Tranches(a)'
  <1> DEFINE f == TrancheAmounts(a)
             g == TrancheAmounts(a)'
  <1>1. k = agreement[a].milestoneCount /\ k \in Nat
    BY LimitAssumption DEF Scheduled, MilestoneSlots
  <1>2. milestone[a][k].state = "Absent"
    BY <1>1 DEF Dense
  <1>3. /\ milestone'[a][k].state = "Pending" /\ milestone'[a][k].amount = n /\ n > 0
        /\ \A i \in MilestoneSlots \ {k} : milestone'[a][i] = milestone[a][i]
    BY DEF Scheduled
  <1>4. SettledSlots(a)' = SettledSlots(a)
    BY <1>2, <1>3 DEF SettledSlots
  <1>5. \A i \in MilestoneSlots : f[i] = milestone[a][i].amount /\ f[i] \in Nat
                                  /\ g[i] = milestone'[a][i].amount /\ g[i] \in Nat
    BY DEF TypeOK, MilestoneRecords, TrancheAmounts
  <1>6. f[k] = 0 /\ g[k] = n /\ \A i \in MilestoneSlots \ {k} : g[i] = f[i]
    BY <1>2, <1>3, <1>5 DEF Tranches
  <1>7. Total(MilestoneSlots, g) = Total(MilestoneSlots, f) + n
    <2> HIDE DEF f, g
    <2>1. Total(MilestoneSlots, g) - g[k] = Total(MilestoneSlots, f) - f[k]
      <3>1. /\ \A i \in MilestoneSlots : f[i] \in Nat /\ g[i] \in Nat
            /\ \A i \in MilestoneSlots \ {k} : g[i] = f[i]
            /\ IsFiniteSet(MilestoneSlots)
        BY <1>5, <1>6, SlotsFinite
      <3> QED
        BY <3>1, TotalUpdate
    <2>2. Total(MilestoneSlots, f) \in Nat /\ Total(MilestoneSlots, g) \in Nat
      BY <1>5, SlotsFinite, TokensFinite
    <2> QED
      BY <1>6, <2>1, <2>2
  <1>8. /\ State(a) = "Open" /\ State(a)' = "Open"
        /\ agreement'[a].milestoneTotal = agreement[a].milestoneTotal + n
        /\ agreement'[a].milestonesSettled = agreement[a].milestonesSettled
    BY DEF Scheduled, KeepsPayments
  <1>9. \A i \in MilestoneSlots :
            IF milestone'[a][i].state = "Absent" THEN milestone'[a][i].amount = 0
                                                 ELSE milestone'[a][i].amount > 0
    BY <1>3 DEF Tranches
  <1> QED
    BY <1>4, <1>7, <1>8, <1>9 DEF Tranches, IsLive, LiveStates, State, MilestoneActive

\* submit, approve and reject do not change what a tranche is worth, or settle one.
LEMMA TranchesWorked ==
    ASSUME TypeOK, NEW a \in Agreements, Tranches(a),
           NEW k \in MilestoneSlots, Worked(a, k)
    PROVE  Tranches(a)'
  <1>1. /\ agreement' = agreement
        /\ milestone[a][k].state \in {"Pending", "Submitted"}
        /\ milestone'[a][k].state \in {"Pending", "Submitted", "Approved"}
        /\ milestone'[a][k].amount = milestone[a][k].amount
        /\ \A i \in MilestoneSlots \ {k} : milestone'[a][i] = milestone[a][i]
    BY DEF Worked
  <1>2. SettledSlots(a)' = SettledSlots(a)
    BY <1>1 DEF SettledSlots
  <1>3. TrancheAmounts(a)' = TrancheAmounts(a)
    BY <1>1 DEF TrancheAmounts
  <1>4. \A i \in MilestoneSlots :
            IF milestone'[a][i].state = "Absent" THEN milestone'[a][i].amount = 0
                                                 ELSE milestone'[a][i].amount > 0
    BY <1>1 DEF Tranches
  <1> QED
    BY <1>1, <1>2, <1>3, <1>4
    DEF Tranches, IsLive, State, MilestoneActive, IsMilestoneContract

\* settle_milestone pays one more tranche.  The agreement ends exactly when that was the
\* last, and then all of it is paid: counting the tranches comes to the same as adding
\* them up.
LEMMA TranchesPaid ==
    ASSUME TypeOK, TypeOK', NEW a \in Agreements, Tranches(a), Dense(a),
           NEW k \in MilestoneSlots, NEW n \in Nat, NEW c \in Citations,
           TranchePaid(a, k, n, c)
    PROVE  Tranches(a)'
  <1> DEFINE f == TrancheAmounts(a)
             S == SettledSlots(a)
             T == S \cup {k}
             count == agreement[a].milestoneCount
             P == 0 .. count - 1
  <1>1. /\ milestone[a][k].state = "Approved" /\ milestone[a][k].amount = n
        /\ milestone'[a][k].state = "Settled" /\ milestone'[a][k].amount = n
        /\ \A i \in MilestoneSlots \ {k} : milestone'[a][i] = milestone[a][i]
    BY DEF TranchePaid
  <1>2. SettledSlots(a)' = T /\ k \notin S /\ S \subseteq MilestoneSlots
    BY <1>1 DEF SettledSlots
  <1>3. TrancheAmounts(a)' = f
    BY <1>1 DEF TrancheAmounts
  <1>4. \A i \in MilestoneSlots : f[i] = milestone[a][i].amount /\ f[i] \in Nat
    BY AmountsAreNat
  <1>5. count \in 0 .. MaxMilestones /\ agreement[a].amount \in Nat
        /\ agreement[a].milestonesSettled \in Nat
    BY AccountFields
  <1>6. P \subseteq MilestoneSlots /\ IsFiniteSet(P) /\ Cardinality(P) = count
    <2>1. count \in Nat /\ count - 1 \in Int /\ count <= MaxMilestones
      BY <1>5, LimitAssumption
    <2> HIDE DEF count
    <2>2. /\ IsFiniteSet(0 .. count - 1)
          /\ Cardinality(0 .. count - 1) = IF 0 > count - 1 THEN 0 ELSE count - 1 - 0 + 1
      BY <2>1, FS_Interval
    <2> QED
      BY <2>1, <2>2, LimitAssumption DEF MilestoneSlots
  <1>7. \A i \in MilestoneSlots : i \in P <=> milestone[a][i].state # "Absent"
    BY <1>5, LimitAssumption DEF Dense, MilestoneSlots
  <1>8. T \subseteq P
    BY <1>1, <1>2, <1>6, <1>7 DEF SettledSlots
  <1>9. /\ IsFiniteSet(S) /\ IsFiniteSet(T) /\ Cardinality(T) = Cardinality(S) + 1
    BY <1>2, <1>6, <1>8, SlotsFinite, FS_AddElement
  <1>10. /\ State(a) = "Funded" /\ MilestoneActive(a) /\ IsLive(a)
         /\ State(a)' = IF Finishes(a) THEN "Settled" ELSE "Funded"
         /\ agreement'[a].milestoneTotal = agreement[a].milestoneTotal
         /\ agreement'[a].amount = agreement[a].amount
         /\ agreement'[a].type = agreement[a].type
         /\ agreement'[a].settledTotal = agreement[a].settledTotal + n
         /\ agreement'[a].milestonesSettled = agreement[a].milestonesSettled + 1
    BY DEF TranchePaid, KeepsDeal, KeepsSchedule, MilestoneActive, IsLive, LiveStates
  <1>11. /\ agreement[a].milestonesSettled = Cardinality(S)
         /\ agreement[a].settledTotal = Total(S, f)
         /\ agreement[a].amount = Total(MilestoneSlots, f)
    BY <1>10 DEF Tranches
  <1>12. /\ \A i \in MilestoneSlots \ P : f[i] = 0
         /\ \A i \in P : f[i] > 0
    BY <1>4, <1>6, <1>7 DEF Tranches
  <1>13. \A i \in MilestoneSlots :
            IF milestone'[a][i].state = "Absent" THEN milestone'[a][i].amount = 0
                                                 ELSE milestone'[a][i].amount > 0
    BY <1>1 DEF Tranches
  <1> HIDE DEF f, S, P, count
  <1>14. agreement'[a].settledTotal = Total(T, f)
    <2>1. Total(T, f) = Total(S, f) + f[k]
      BY <1>2, <1>4, <1>9, TotalAdd
    <2> QED
      BY <1>1, <1>4, <1>10, <1>11, <2>1
  <1>15. agreement[a].amount = Total(P, f)
    BY <1>6, <1>11, <1>12, TotalSkips
  <1>16. agreement'[a].milestonesSettled = Cardinality(T)
    BY <1>9, <1>10, <1>11
  <1>17. CASE Finishes(a)
    <2>1. Cardinality(T) = Cardinality(P)
      BY <1>5, <1>6, <1>9, <1>11, <1>17 DEF Finishes, count
    <2>2. T = P
      BY <1>6, <1>8, <2>1, FS_Subset
    <2>3. agreement'[a].settledTotal = agreement'[a].amount
      BY <1>10, <1>14, <1>15, <2>2
    <2>4. agreement'[a].state = "Settled"
      BY <1>10, <1>17 DEF State
    <2> QED
      BY <1>2, <1>3, <1>10, <1>11, <1>13, <1>16, <2>3, <2>4
      DEF Tranches, State, IsLive, LiveStates, MilestoneActive, f, S
  <1>18. CASE ~Finishes(a)
    <2>1. Cardinality(T) # Cardinality(P)
      BY <1>5, <1>6, <1>9, <1>11, <1>18 DEF Finishes, count
    <2>2. PICK j \in P : j \notin T
      BY <1>8, <2>1
    <2>3. Total(T \cup {j}, f) = Total(T, f) + f[j]
      <3>1. (\A i \in T : f[i] \in Nat) /\ f[j] \in Nat
        BY <1>4, <1>6, <1>8, <2>2
      <3> HIDE DEF T
      <3> QED
        BY <1>9, <2>2, <3>1, TotalAdd
    <2>4. Total(T \cup {j}, f) <= Total(P, f)
      BY <1>4, <1>6, <1>8, <2>2, TotalSubset
    <2>5. Total(T, f) \in Nat /\ f[j] \in Nat /\ f[j] > 0
      BY <1>4, <1>6, <1>8, <1>9, <1>12, <2>2, TokensFinite
    <2>6. Total(T, f) < agreement[a].amount
      BY <1>5, <1>15, <2>3, <2>4, <2>5
    <2>7. agreement'[a].state = "Funded"
      BY <1>10, <1>18 DEF State
    <2>8. agreement'[a].milestoneTotal = agreement'[a].amount
      BY <1>10 DEF Tranches
    <2>9. agreement'[a].milestoneTotal = Total(MilestoneSlots, f)
      BY <1>10, <1>11, <2>8
    <2> QED
      BY <1>2, <1>3, <1>10, <1>13, <1>14, <1>16, <2>6, <2>7, <2>8, <2>9
      DEF Tranches, State, IsLive, LiveStates, f
  <1> QED
    BY <1>17, <1>18

LEMMA ScheduleStep == ScheduleInv /\ [Next]_vars => ScheduleInv'
  <1> SUFFICES ASSUME ScheduleInv, [Next]_vars PROVE ScheduleInv'
    OBVIOUS
  <1>1. EvidenceInv /\ EvidenceInv' /\ CustodyInv /\ TypeOK /\ TypeOK'
    BY EvidenceStep DEF ScheduleInv, EvidenceInv, CustodyInv
  <1>2. ASSUME NEW a \in Agreements PROVE Tranches(a)'
    <2>1. Tranches(a) /\ Dense(a)
      BY DEF ScheduleInv, EvidenceInv
    <2>2. CASE milestone'[a] = milestone[a] /\ agreement'[a] = agreement[a]
      BY <1>1, <2>1, <2>2, TranchesUntouched
    <2>3. CASE Touches(a)
      <3>1. CASE milestone'[a] = milestone[a]
        BY <1>1, <2>1, <2>3, <3>1, TranchesUntouched
      <3>2. CASE \E k \in MilestoneSlots, n \in Nat : Scheduled(a, k, n)
        BY <1>1, <2>1, <3>2, TranchesScheduled
      <3>3. CASE \E k \in MilestoneSlots : Worked(a, k)
        BY <1>1, <2>1, <3>3, TranchesWorked
      <3>4. CASE \E k \in MilestoneSlots, n \in Nat, c \in Citations : TranchePaid(a, k, n, c)
        BY <1>1, <2>1, <3>4, TranchesPaid
      <3> QED
        BY <2>3, <3>1, <3>2, <3>3, <3>4
        DEF Touches, Opened, Chosen, Deposited, Moved, Closed, ProofSubmitted, ProofDecided,
            Donated
    <2> QED
      BY <1>1, <2>2, <2>3, StepSeenFrom
  <1> QED
    BY <1>1, <1>2 DEF ScheduleInv

LEMMA ScheduleAlways == Spec => []ScheduleInv
  BY ScheduleInit, ScheduleStep, PTL DEF Spec

\* The counters and totals of an agreement account always agree with the milestone
\* accounts they summarise, and each tranche is counted once.
THEOREM ScheduleAlwaysAddsUp == Spec => []ScheduleAddsUp
  <1>1. ScheduleInv => ScheduleAddsUp
    <2> SUFFICES ASSUME ScheduleInv, NEW a \in Agreements
                 PROVE  /\ \A i \in MilestoneSlots :
                            i < agreement[a].milestoneCount <=> milestone[a][i].state # "Absent"
                        /\ agreement[a].milestoneTotal = TrancheSum(a, MilestoneSlots)
                        /\ MilestoneActive(a) =>
                            agreement[a].milestoneTotal = agreement[a].amount
                        /\ agreement[a].milestonesSettled = Cardinality(SettledSlots(a))
                        /\ IsLive(a) =>
                            agreement[a].settledTotal = TrancheSum(a, SettledSlots(a))
      BY DEF ScheduleAddsUp
    <2>1. Tranches(a) /\ Dense(a)
      BY DEF ScheduleInv, EvidenceInv
    <2>2. SettledSlots(a) \subseteq MilestoneSlots
      BY DEF SettledSlots
    <2>3. /\ TrancheSum(a, MilestoneSlots) = Total(MilestoneSlots, TrancheAmounts(a))
          /\ TrancheSum(a, SettledSlots(a)) = Total(SettledSlots(a), TrancheAmounts(a))
      BY <2>2, TrancheSumIsTotal
    <2> QED
      BY <2>1, <2>3 DEF Tranches, Dense
  <1> QED
    BY <1>1, ScheduleAlways, PTL

\* An agreement that ends Settled or Refunded has paid out all it ever held; before that
\* something is left, and without funding nothing is paid.
THEOREM AlwaysEndsPaidInFull == Spec => []EndsPaidInFull
  <1>1. ScheduleInv => EndsPaidInFull
    <2> SUFFICES ASSUME ScheduleInv, NEW a \in Agreements
                 PROVE  /\ State(a) \in {"Settled", "Refunded"} =>
                                agreement[a].settledTotal = agreement[a].amount
                        /\ State(a) \in {"Absent", "Open", "Cancelled"} =>
                                agreement[a].settledTotal = 0
                        /\ IsLive(a) => agreement[a].settledTotal < agreement[a].amount
      BY DEF EndsPaidInFull
    <2>1. Tranches(a) /\ Books(a)
      BY DEF ScheduleInv, EvidenceInv, CustodyInv
    <2> QED
      BY <2>1 DEF Tranches, Books
  <1> QED
    BY <1>1, ScheduleAlways, PTL

\* What the vault and the ledger must allow for all that remains to be paid out.
CanCloseOut(a) ==
    /\ Remaining(a) > 0
    /\ Remaining(a) <= vault[a]
    /\ PayoutFits(a, Remaining(a))

\* The guards of the instructions that LiveHasExit names, each for signers that exist.
ExitsAreOpen ==
    \A a \in Agreements :
        LET seller == agreement[a].counterparty
            buyer  == CreatorOf[a]
        IN  IsLive(a) =>
                /\ CanCloseOut(a)
                /\ ~HasCounterparty(a) => CounterpartyAssignable(a, buyer)
                /\ HasCounterparty(a) =>
                    /\ {buyer, seller} \subseteq Wallets /\ buyer # seller
                    /\ State(a) \in {"Funded", "Completed"} => Refundable(a, seller)
                    /\ State(a) = "Completed" => Settleable(a, buyer) /\ Settleable(a, seller)
                    /\ State(a) = "Disputed" =>
                        Resolvable(a, buyer, seller) /\ Resolvable(a, seller, buyer)

\* No agreement that holds money is stuck: in every live state the guards of an instruction
\* that pays out what is left hold (settle, refund or resolve_dispute), or, of an unclaimed
\* bounty, those of select_counterparty; and there is something left to pay.
THEOREM ExitsStayOpen == Spec => []ExitsAreOpen
  <1>1. ScheduleInv => ExitsAreOpen
    <2> SUFFICES ASSUME ScheduleInv, NEW a \in Agreements, IsLive(a)
                 PROVE  LET seller == agreement[a].counterparty
                            buyer  == CreatorOf[a]
                        IN  /\ CanCloseOut(a)
                            /\ ~HasCounterparty(a) => CounterpartyAssignable(a, buyer)
                            /\ HasCounterparty(a) =>
                                /\ {buyer, seller} \subseteq Wallets /\ buyer # seller
                                /\ State(a) \in {"Funded", "Completed"} => Refundable(a, seller)
                                /\ State(a) = "Completed" =>
                                        Settleable(a, buyer) /\ Settleable(a, seller)
                                /\ State(a) = "Disputed" =>
                                        Resolvable(a, buyer, seller) /\ Resolvable(a, seller, buyer)
      BY DEF ExitsAreOpen
    <2>1. TypeOK /\ Tranches(a) /\ Books(a) /\ Deal(a)
      BY DEF ScheduleInv, EvidenceInv, CustodyInv
    <2>2. /\ agreement[a].amount \in Nat /\ agreement[a].settledTotal \in Nat
          /\ vault[a] \in Nat
          /\ agreement[a].counterparty \in Owners /\ CreatorOf[a] \in Wallets
          /\ Default \notin Wallets
      BY <2>1, CreatorAssumption, DefaultAssumption DEF TypeOK, AgreementRecords, Owners
    <2>3. State(a) \in {"Funded", "Completed", "Disputed"} /\ State(a) # "Absent"
      BY DEF IsLive, LiveStates
    <2>4. CanCloseOut(a)
      <3>1. /\ agreement[a].settledTotal < agreement[a].amount
            /\ vault[a] >= agreement[a].amount - agreement[a].settledTotal
        BY <2>1 DEF Tranches, Books
      <3> QED
        BY <2>2, <3>1 DEF CanCloseOut, Remaining, PayoutFits
    <2>5. ~HasCounterparty(a) => CounterpartyAssignable(a, CreatorOf[a])
      BY <2>1, <2>3 DEF Deal, CounterpartyAssignable
    <2>6. CreatorOf[a] # Default /\ agreement[a].counterparty # CreatorOf[a]
      BY <2>1, <2>2 DEF Deal
    <2>7. ASSUME HasCounterparty(a)
          PROVE  /\ agreement[a].counterparty \in Wallets /\ CreatorOf[a] \in Wallets
                 /\ IsParty(a, CreatorOf[a]) /\ IsParty(a, agreement[a].counterparty)
      <3>1. agreement[a].counterparty # Default
        BY <2>7 DEF HasCounterparty
      <3> QED
        BY <2>2, <2>6, <3>1 DEF Owners, IsParty
    <2>8. ASSUME HasCounterparty(a), State(a) \in {"Funded", "Completed"}
          PROVE  Refundable(a, agreement[a].counterparty)
      BY <2>8 DEF Refundable
    <2>9. ASSUME HasCounterparty(a), State(a) = "Completed"
          PROVE  Settleable(a, CreatorOf[a]) /\ Settleable(a, agreement[a].counterparty)
      BY <2>7, <2>9 DEF Settleable
    <2>10. ASSUME HasCounterparty(a), State(a) = "Disputed"
           PROVE  /\ Resolvable(a, CreatorOf[a], agreement[a].counterparty)
                  /\ Resolvable(a, agreement[a].counterparty, CreatorOf[a])
      BY <2>6, <2>7, <2>10 DEF Resolvable
    <2> QED
      BY <2>4, <2>5, <2>6, <2>7, <2>8, <2>9, <2>10
  <1> QED
    BY <1>1, ScheduleAlways, PTL
-----------------------------------------------------------------------------
(* The refinement of EscrowContract. *)

\* The mapped variables, and how one agreement's step shows in them.
Stages == [b \in Agreements |-> Stage(b)]
Payees == [b \in Agreements |-> agreement[b].counterparty]
Held == [b \in Agreements |-> Owed(b)]

LEMMA SeenThroughMapping ==
    ASSUME NEW a \in Agreements, OnlyAccountsOf(a)
    PROVE  /\ Stages' = [Stages EXCEPT ![a] = Stage(a)']
           /\ Payees' = [Payees EXCEPT ![a] = agreement'[a].counterparty]
           /\ Held' = [Held EXCEPT ![a] = Owed(a)']
           /\ Stages[a] = Stage(a) /\ Payees[a] = agreement[a].counterparty
           /\ Held[a] = Owed(a)
           /\ Stage(a)' = Stage(a) => Stages' = Stages
           /\ agreement'[a].counterparty = agreement[a].counterparty => Payees' = Payees
           /\ Owed(a)' = Owed(a) => Held' = Held
  <1>1. \A b \in Agreements \ {a} : agreement'[b] = agreement[b]
    BY DEF OnlyAccountsOf
  <1>2. \A b \in Agreements \ {a} : Stage(b)' = Stage(b) /\ Owed(b)' = Owed(b)
    BY <1>1 DEF Stage, Owed, IsLive, State, Remaining
  <1> QED
    BY <1>1, <1>2 DEF Stages, Payees, Held

\* The actions of the contract, over the mapped variables.
LEMMA ContractSteps ==
    ASSUME NEW a \in Agreements
    PROVE  /\ \A p \in Wallets :
                /\ Stages[a] # "over" /\ Payees[a] = Default /\ p # CreatorOf[a]
                /\ Payees' = [Payees EXCEPT ![a] = p]
                /\ Stages' = Stages /\ Held' = Held /\ balance' = balance
                => Contract!ContractNext
           /\ \A n \in 1 .. balance[CreatorOf[a]] :
                /\ Stages[a] = "unfunded" /\ Stages' = [Stages EXCEPT ![a] = "holding"]
                /\ Held' = [Held EXCEPT ![a] = n]
                /\ balance' = [balance EXCEPT ![CreatorOf[a]] = @ - n]
                /\ Payees' = Payees
                => Contract!ContractNext
           /\ /\ Stages[a] = "unfunded" /\ Stages' = [Stages EXCEPT ![a] = "over"]
              /\ Payees' = Payees /\ Held' = Held /\ balance' = balance
              => Contract!ContractNext
           /\ \A n \in 1 .. Held[a] - 1 :
                /\ Stages[a] = "holding" /\ Payees[a] # Default
                /\ Held' = [Held EXCEPT ![a] = @ - n]
                /\ balance' = [balance EXCEPT ![Payees[a]] = @ + n]
                /\ Stages' = Stages /\ Payees' = Payees
                => Contract!ContractNext
           /\ \A w \in Wallets :
                /\ Stages[a] = "holding" /\ Payees[a] # Default
                /\ w \in {CreatorOf[a], Payees[a]}
                /\ Stages' = [Stages EXCEPT ![a] = "over"]
                /\ Held' = [Held EXCEPT ![a] = 0]
                /\ balance' = [balance EXCEPT ![w] = @ + Held[a]]
                /\ Payees' = Payees
                => Contract!ContractNext
           /\ \A w \in Wallets : \A n \in 1 .. balance[w] :
                /\ balance' = [balance EXCEPT ![w] = @ - n]
                /\ Stages' = Stages /\ Payees' = Payees /\ Held' = Held
                => Contract!ContractNext
  BY DEF Stages, Payees, Held, Contract!ContractNext, Contract!NamePayee, Contract!Deposit,
         Contract!Abandon, Contract!PayTranche, Contract!Conclude, Contract!Spend

LEMMA ContractStep ==
    ASSUME ScheduleInv, [Next]_vars
    PROVE  Contract!ContractNext
           \/ (Stages' = Stages /\ Payees' = Payees /\ Held' = Held /\ balance' = balance)
  <1> DEFINE Still == Stages' = Stages /\ Payees' = Payees /\ Held' = Held /\ balance' = balance
             Goal == Contract!ContractNext \/ Still
  <1> SUFFICES Goal
    OBVIOUS
  <1>1. TypeOK /\ CustodyInv /\ ScheduleInv'
    BY ScheduleStep DEF ScheduleInv, EvidenceInv, CustodyInv
  <1>2. CASE CoreOnly
    BY <1>2 DEF CoreOnly, Stages, Payees, Held, Stage, Owed, IsLive, State, Remaining
  <1>3. ASSUME NEW a \in Agreements, Touches(a) PROVE Goal
    <2> DEFINE before == agreement[a]
               after == agreement'[a]
    <2>1. /\ OnlyAccountsOf(a)
          /\ Books(a) /\ Deal(a) /\ Tranches(a) /\ Tranches(a)'
      BY <1>1, <1>3 DEF Touches, CustodyInv, ScheduleInv
    <2>2. /\ before.amount \in Nat /\ before.settledTotal \in Nat
          /\ before.counterparty \in Owners /\ CreatorOf[a] \in Wallets
          /\ before.settledTotal <= before.amount
          /\ before.counterparty # CreatorOf[a]
      BY <1>1, <2>1, AccountFields, CreatorAssumption DEF Books, Deal
    <2>3. /\ Stages[a] = Stage(a) /\ Payees[a] = before.counterparty /\ Held[a] = Owed(a)
          /\ Stages' = [Stages EXCEPT ![a] = Stage(a)']
          /\ Payees' = [Payees EXCEPT ![a] = after.counterparty]
          /\ Held' = [Held EXCEPT ![a] = Owed(a)']
          /\ Stage(a)' = Stage(a) => Stages' = Stages
          /\ after.counterparty = before.counterparty => Payees' = Payees
          /\ Owed(a)' = Owed(a) => Held' = Held
      BY <2>1, SeenThroughMapping
    <2>4. ASSUME UNCHANGED agreement PROVE Stages' = Stages /\ Payees' = Payees /\ Held' = Held
      BY <2>4 DEF Stages, Payees, Held, Stage, Owed, IsLive, State, Remaining
    <2>5. ASSUME NEW t \in AgreementType, NEW p \in Owners, NEW n \in Nat, Opened(a, t, p, n)
          PROVE  Goal
      <3>1. before.counterparty = Default /\ State(a) = "Absent"
        BY <2>1, <2>5, BlankFields DEF Opened, Deal
      <3>2. State(a)' = "Open" /\ after.counterparty = p /\ balance' = balance /\ p # CreatorOf[a]
        BY <2>5 DEF Opened, NewAgreement, State
      <3>3. /\ Stage(a) = "unfunded" /\ Stage(a)' = "unfunded"
            /\ Owed(a) = 0 /\ Owed(a)' = 0
        BY <3>1, <3>2 DEF Stage, Owed, IsLive, LiveStates
      <3>4. CASE p = Default
        BY <2>3, <3>1, <3>2, <3>3, <3>4
      <3>5. CASE p \in Wallets
        BY <2>3, <3>1, <3>2, <3>3, <3>5, ContractSteps
      <3> QED
        BY <3>4, <3>5 DEF Owners
    <2>6. ASSUME NEW p \in Owners, Chosen(a, p) PROVE Goal
      <3>1. /\ before.counterparty = Default /\ after.counterparty = p /\ balance' = balance
            /\ p \in Wallets /\ p # CreatorOf[a]
        BY <2>6 DEF Chosen, HasCounterparty, Owners
      <3>2. Stage(a)' = Stage(a) /\ Stage(a) # "over" /\ Owed(a)' = Owed(a)
        BY <2>6 DEF Chosen, Stage, Owed, IsLive, LiveStates, Remaining, KeepsDeal, KeepsPayments,
                    State
      <3> QED
        BY <2>3, <3>1, <3>2, ContractSteps
    <2>7. CASE Deposited(a)
      <3>1. /\ State(a) = "Open" /\ State(a)' = "Funded" /\ after.counterparty = before.counterparty
            /\ after.amount = before.amount /\ after.settledTotal = before.settledTotal
            /\ balance' = [balance EXCEPT ![CreatorOf[a]] = @ - before.amount]
            /\ before.amount <= balance[CreatorOf[a]]
        BY <2>7 DEF Deposited, KeepsDeal, KeepsPayee, KeepsPayments
      <3>2. before.settledTotal = 0 /\ before.amount > 0
        BY <2>1, <3>1 DEF Books, Deal
      <3>3. Stage(a) = "unfunded" /\ Stage(a)' = "holding" /\ Owed(a)' = before.amount
        BY <2>2, <3>1, <3>2 DEF Stage, Owed, IsLive, LiveStates, Remaining
      <3>4. balance[CreatorOf[a]] \in Nat
        BY <1>1, <2>2 DEF TypeOK
      <3>5. before.amount \in 1 .. balance[CreatorOf[a]]
        BY <2>2, <3>1, <3>2, <3>4
      <3> HIDE DEF before, after
      <3> QED
        BY <2>3, <3>1, <3>3, <3>5, ContractSteps
    <2>8. CASE Moved(a)
      <3>1. /\ after.counterparty = before.counterparty /\ balance' = balance
            /\ after.amount = before.amount /\ after.settledTotal = before.settledTotal
        BY <2>8 DEF Moved, KeepsDeal, KeepsPayee, KeepsPayments
      <3>2. Owed(a)' = Owed(a)
        BY <2>8, <3>1 DEF Moved, Owed, IsLive, LiveStates, Remaining
      <3>3. \/ Stage(a) = "unfunded" /\ Stage(a)' = "over"
            \/ Stage(a)' = Stage(a)
        BY <2>8 DEF Moved, Stage, IsLive, LiveStates
      <3> QED
        BY <2>3, <3>1, <3>2, <3>3, ContractSteps
    <2>9. ASSUME NEW d \in Owners, NEW c \in Citations, Closed(a, d, c) PROVE Goal
      <3>1. /\ IsLive(a) /\ State(a)' \in {"Settled", "Refunded"}
            /\ after.counterparty = before.counterparty /\ before.counterparty # Default
            /\ d \in {CreatorOf[a], before.counterparty}
            /\ balance' = [balance EXCEPT ![d] = @ + Remaining(a)]
        BY <2>9 DEF Closed, KeepsPayee, HasCounterparty
      <3>2. /\ Stage(a) = "holding" /\ Stage(a)' = "over"
            /\ Owed(a) = Remaining(a) /\ Owed(a)' = 0
        BY <3>1 DEF Stage, Owed, IsLive, LiveStates
      <3>3. d \in Wallets
        BY <2>2, <3>1 DEF Owners
      <3> QED
        BY <2>3, <3>1, <3>2, <3>3, ContractSteps
    <2>10. ASSUME NEW i \in MilestoneSlots, NEW n \in Nat, Scheduled(a, i, n) PROVE Goal
      <3>1. /\ after.counterparty = before.counterparty /\ balance' = balance
            /\ State(a) = "Open" /\ State(a)' = "Open"
        BY <2>10 DEF Scheduled, KeepsPayee
      <3>2. Stage(a)' = Stage(a) /\ Owed(a)' = Owed(a)
        BY <3>1 DEF Stage, Owed, IsLive, LiveStates
      <3> QED
        BY <2>3, <3>1, <3>2
    <2>11. ASSUME NEW i \in MilestoneSlots, NEW n \in Nat, NEW c \in Citations,
                  TranchePaid(a, i, n, c)
           PROVE  Goal
      <3>1. /\ State(a) = "Funded" /\ after.counterparty = before.counterparty
            /\ after.amount = before.amount
            /\ after.settledTotal = before.settledTotal + n
            /\ balance' = [balance EXCEPT ![before.counterparty] = @ + n]
            /\ State(a)' \in {"Settled", "Funded"}
        BY <2>11 DEF TranchePaid, KeepsDeal, KeepsPayee
      <3>2. before.counterparty # Default /\ before.counterparty \in Wallets
        BY <2>1, <2>2, <2>11 DEF TranchePaid, IsMilestoneContract, Deal, HasCounterparty, Owners
      <3>3. n > 0
        BY <2>1, <2>11 DEF TranchePaid, Tranches
      <3>4. /\ Stage(a) = "holding" /\ Owed(a) = before.amount - before.settledTotal
        BY <2>2, <3>1 DEF Stage, Owed, IsLive, LiveStates, Remaining
      <3>5. CASE State(a)' = "Settled"
        <4>1. after.settledTotal = after.amount
          BY <2>1, <3>5 DEF Tranches
        <4>2. n = Owed(a)
          BY <2>2, <3>1, <3>4, <4>1
        <4>3. Stage(a)' = "over" /\ Owed(a)' = 0
          BY <3>5 DEF Stage, Owed, IsLive, LiveStates
        <4> HIDE DEF before, after
        <4> QED
          BY <2>3, <3>1, <3>2, <3>4, <4>2, <4>3, ContractSteps
      <3>6. CASE State(a)' = "Funded"
        <4>1. after.settledTotal < after.amount
          BY <2>1, <3>6 DEF Tranches, IsLive, LiveStates
        <4>2. Stage(a)' = "holding" /\ Owed(a)' = after.amount - after.settledTotal
          BY <2>2, <3>1, <3>6, <4>1 DEF Stage, Owed, IsLive, LiveStates, Remaining
        <4>3. Owed(a)' = Owed(a) - n /\ n \in 1 .. Owed(a) - 1
          BY <2>2, <3>1, <3>3, <3>4, <4>1, <4>2
        <4>4. Held' = [Held EXCEPT ![a] = @ - n]
          BY <2>3, <4>3
        <4> HIDE DEF before, after
        <4>5. /\ n \in 1 .. Held[a] - 1
              /\ Stages[a] = "holding" /\ Payees[a] # Default
              /\ Held' = [Held EXCEPT ![a] = @ - n]
              /\ balance' = [balance EXCEPT ![Payees[a]] = @ + n]
              /\ Stages' = Stages /\ Payees' = Payees
          BY <2>3, <3>1, <3>2, <3>4, <4>2, <4>3, <4>4
        <4> QED
          BY <4>5, ContractSteps
      <3> QED
        BY <3>1, <3>5, <3>6
    <2>12. ASSUME NEW i \in ProofSlots, NEW w \in Wallets, ProofSubmitted(a, i, w) PROVE Goal
      <3>1. /\ after.counterparty = before.counterparty /\ balance' = balance
            /\ Stage(a)' = Stage(a) /\ Owed(a)' = Owed(a)
        BY <2>12 DEF ProofSubmitted, KeepsDeal, KeepsPayee, KeepsPayments, Stage, Owed, IsLive,
                     LiveStates, Remaining, State
      <3> QED
        BY <2>3, <3>1
    <2>13. ASSUME NEW w \in Wallets, NEW n \in Nat, Donated(a, w, n) PROVE Goal
      <3>1. n \in 1 .. balance[w]
        BY <1>1, <2>13 DEF Donated, TypeOK
      <3>2. /\ balance' = [balance EXCEPT ![w] = @ - n]
            /\ Stages' = Stages /\ Payees' = Payees /\ Held' = Held
        BY <2>4, <2>13 DEF Donated
      <3> QED
        BY <3>1, <3>2, ContractSteps
    <2>14. CASE UNCHANGED <<agreement, balance>>
      BY <2>4, <2>14
    <2> HIDE DEF Goal
    <2> QED
      BY <1>3, <2>5, <2>6, <2>7, <2>8, <2>9, <2>10, <2>11, <2>12, <2>13, <2>14
      DEF Touches, Worked, ProofDecided
  <1> QED
    BY <1>1, <1>2, <1>3, StepTouches

\* Every behaviour of the programs is, to the two parties, a behaviour of EscrowContract.
THEOREM AlwaysImplementsContract == Spec => ImplementsContract
  <1>1. Init => Contract!ContractInit
    <2> SUFFICES ASSUME Init PROVE Contract!ContractInit
      OBVIOUS
    <2>1. \A a \in Agreements :
            /\ State(a) = "Absent" /\ agreement[a].counterparty = Default
            /\ Stage(a) = "unfunded" /\ Owed(a) = 0
      BY DEF Init, EscrowInit, AbsentAgreement, NewAgreement, State, Stage, Owed, IsLive,
             LiveStates
    <2>2. balance \in [Wallets \cup {Default} -> Nat]
      BY TypeInit DEF TypeOK
    <2> QED
      BY <2>1, <2>2 DEF Contract!ContractInit
  <1>2. ScheduleInv /\ [Next]_vars => [Contract!ContractNext]_(Contract!contractVars)
    BY ContractStep DEF Stages, Payees, Held, Contract!contractVars
  <1> QED
    BY <1>1, <1>2, ScheduleAlways, PTL DEF Spec, ImplementsContract, Contract!ContractSpec
=============================================================================
