-------------------------- MODULE GovernanceProofs --------------------------
(***************************************************************************)
(* Proofs about the custody ceremony and its verifiers, for any number of  *)
(* runs, keys and people.                                                  *)
(***************************************************************************)
EXTENDS CustodyGovernance, FiniteSetTheorems, TLAPS

Runs ==
    [mode : {"none", "execute", "preflight"},
     pc : {"idle", "prove", "derive", "send", "confirm"}, key : CreateKeys \cup {None}]

CeremonyOK ==
    /\ run \in Runs
    /\ keyFile \in CreateKeys \cup {None}
    /\ sent \subseteq CreateKeys
    /\ DOMAIN live = Multisigs

\* The key file is written once, by a preflight, and everything after goes by it: what
\* a run is about to create, what may still land and what exists of the ceremony's own.
OneKey ==
    /\ keyFile # None => keyFile \in reviewed
    /\ run.pc \in {"send", "confirm"} => run.key = keyFile /\ keyFile # None
    /\ sent \subseteq {keyFile}
    /\ \A k \in CreateKeys : live[k] # None => k = keyFile

\* What the ceremony created has no config authority, and never will.
Autonomous == \A k \in CreateKeys : live[k] # None => live[k].configAuthority = None

CeremonyInv == CeremonyOK /\ OneKey /\ Autonomous

LEMMA CeremonyInit == Init => CeremonyInv
  BY DEF Init, CeremonyInv, CeremonyOK, OneKey, Autonomous, Multisigs, Runs, Idle

LEMMA IdleRun ==
    ASSUME CeremonyInv, run' = Idle, UNCHANGED <<keyFile, reviewed, sent, live>>
    PROVE  CeremonyInv'
  BY DEF CeremonyInv, CeremonyOK, OneKey, Autonomous, Runs, Idle

LEMMA DeriveStep ==
    ASSUME CeremonyInv, Derive
    PROVE  CeremonyInv'
  <1>1. PICK k \in ResolveCreateKey(run.mode) :
            /\ keyFile' = k
            /\ reviewed' = IF MayBroadcast(run.mode) THEN reviewed ELSE reviewed \cup {k}
            /\ run' = IF MayBroadcast(run.mode) /\ CheckSafety(CUSTODY_THRESHOLD, CUSTODY_MEMBERS)
                      THEN [run EXCEPT !.pc = "send", !.key = k] ELSE Idle
            /\ UNCHANGED <<sent, live>>
    BY DEF Derive
  <1>2. k \in CreateKeys /\ k # None
    BY <1>1, GovernanceAssumption DEF ResolveCreateKey, CeremonyInv, CeremonyOK, Multisigs
  <1>3. run' \in Runs /\ (run'.pc \in {"send", "confirm"} => run'.key = k)
    BY <1>1, <1>2 DEF CeremonyInv, CeremonyOK, Runs, Idle
  <1>4. k \in reviewed'
    BY <1>1 DEF ResolveCreateKey, CeremonyInv, OneKey
  <1>5. sent \subseteq {k} /\ \A j \in CreateKeys : live[j] # None => j = k
    <2>1. CASE keyFile # None
      BY <1>1, <2>1 DEF ResolveCreateKey, CeremonyInv, OneKey
    <2>2. CASE keyFile = None
      BY <2>2, GovernanceAssumption DEF CeremonyInv, CeremonyOK, OneKey, Multisigs
    <2> QED
      BY <2>1, <2>2
  <1> QED
    BY <1>1, <1>2, <1>3, <1>4, <1>5 DEF CeremonyInv, CeremonyOK, OneKey, Autonomous

LEMMA CeremonyStep == CeremonyInv /\ [Next]_vars => CeremonyInv'
  <1> SUFFICES ASSUME CeremonyInv, [Next]_vars PROVE CeremonyInv'
    OBVIOUS
  <1> USE DEF CeremonyInv, CeremonyOK, OneKey, Autonomous
  <1>1. ASSUME NEW flags \in Flags, Start(flags) PROVE CeremonyInv'
    <2>1. UNCHANGED <<keyFile, reviewed, sent, live>>
      BY <1>1 DEF Start
    <2>2. run' \in Runs /\ run'.pc \notin {"send", "confirm"}
      BY <1>1 DEF Start, ParseMode, Runs, Idle
    <2> QED
      BY <2>1, <2>2
  <1>2. CASE Prove
    <2>1. UNCHANGED <<keyFile, reviewed, sent, live>>
      BY <1>2 DEF Prove
    <2>2. run' \in Runs /\ run'.pc \notin {"send", "confirm"}
      BY <1>2 DEF Prove, Runs, Idle
    <2> QED
      BY <2>1, <2>2
  <1>3. CASE Derive
    BY <1>3, DeriveStep
  <1>4. CASE NoKey \/ Dies \/ ConfirmTransaction
    BY <1>4, IdleRun DEF NoKey, Dies, ConfirmTransaction
  <1>5. CASE SendTransaction
    <2>1. UNCHANGED <<keyFile, reviewed, live>> /\ run.key = keyFile /\ keyFile \in CreateKeys
      BY <1>5 DEF SendTransaction
    <2>2. CASE run' = Idle /\ sent' = sent
      BY <2>1, <2>2, IdleRun
    <2>3. CASE sent' = sent \cup {run.key} /\ run' = [run EXCEPT !.pc = "confirm"]
      <3>1. run' \in Runs /\ run'.key = run.key
        BY <2>3 DEF Runs
      <3> QED
        BY <1>5, <2>1, <2>3, <3>1 DEF SendTransaction
    <2> QED
      BY <1>5, <2>2, <2>3 DEF SendTransaction
  <1>6. ASSUME NEW k \in CreateKeys, CreationLands(k) PROVE CeremonyInv'
    <2>1. /\ k = keyFile /\ sent' \subseteq sent /\ UNCHANGED <<keyFile, reviewed, run>>
          /\ DOMAIN live' = Multisigs
          /\ \A j \in CreateKeys \ {k} : live'[j] = live[j]
          /\ live'[k] = IF live[k] = None THEN Created ELSE live[k]
      BY <1>6 DEF CreationLands, Multisigs
    <2>2. Created.configAuthority = None
      BY DEF Created
    <2> QED
      BY <2>1, <2>2
  <1>7. ASSUME NEW k \in CreateKeys, CreationExpires(k) PROVE CeremonyInv'
    BY <1>7 DEF CreationExpires
  <1>8. ASSUME NEW k \in Multisigs, Reconfigure(k) PROVE CeremonyInv'
    <2>1. PICK account \in Accounts :
                /\ live[k].configAuthority = None => account.configAuthority = None
                /\ live' = [live EXCEPT ![k] = account]
      BY <1>8 DEF Reconfigure
    <2>2. /\ sent' = sent /\ UNCHANGED <<keyFile, reviewed, run>> /\ live[k] # None
          /\ DOMAIN live' = Multisigs /\ live'[k] = account
          /\ \A j \in Multisigs \ {k} : live'[j] = live[j]
      BY <1>8, <2>1 DEF Reconfigure
    <2> QED
      BY <2>1, <2>2 DEF Multisigs
  <1>9. ASSUME NEW o \in Others, CreatedElsewhere(o) PROVE CeremonyInv'
    <2>1. /\ sent' = sent /\ UNCHANGED <<keyFile, reviewed, run>> /\ DOMAIN live' = Multisigs
          /\ \A j \in CreateKeys : live'[j] = live[j]
      BY <1>9, GovernanceAssumption DEF CreatedElsewhere, Multisigs
    <2> QED
      BY <2>1
  <1>10. CASE UNCHANGED <<keyFile, reviewed, run, sent, live>>
    BY <1>10
  <1> QED
    BY <1>1, <1>2, <1>3, <1>4, <1>5, <1>6, <1>7, <1>8, <1>9, <1>10
    DEF Next, Ceremony, Chain, Verify, Preflight, vars

LEMMA CeremonyAlways == Spec => []CeremonyInv
  BY CeremonyInit, CeremonyStep, PTL DEF Spec

\* Nothing is created, or can still be, at an address that no preflight has printed.
THEOREM AlwaysReviewedFirst == Spec => []CreatedWasReviewed
  <1>1. CeremonyInv => CreatedWasReviewed
    BY GovernanceAssumption DEF CeremonyInv, CeremonyOK, OneKey, CreatedWasReviewed, Multisigs
  <1> QED
    BY <1>1, CeremonyAlways, PTL

\* However often the ceremony is run, there is at most one custody multisig.
THEOREM AlwaysOneMultisig == Spec => []OneMultisig
  <1>1. CeremonyInv => OneMultisig
    <2> SUFFICES ASSUME CeremonyInv PROVE OneMultisig
      OBVIOUS
    <2> DEFINE all == {k \in CreateKeys : live[k] # None} \cup sent
    <2>1. all \subseteq {keyFile}
      BY DEF CeremonyInv, OneKey
    <2>2. IsFiniteSet({keyFile}) /\ Cardinality({keyFile}) = 1
      BY FS_Singleton
    <2>3. Cardinality(all) <= 1
      BY <2>1, <2>2, FS_Subset
    <2> QED
      BY <2>3 DEF OneMultisig, CeremonyInv, OneKey
  <1> QED
    BY <1>1, CeremonyAlways, PTL
-----------------------------------------------------------------------------
(* What the verifiers accept. *)

\* Three custody signers, one of whom also governs the other programs.
LEMMA OneShared ==
    /\ IsFiniteSet(NON_CUSTODY_MEMBERS)
    /\ Cardinality(Shared(ToSet(CUSTODY_MEMBERS))) = 1
  <1>1. ToSet(CUSTODY_MEMBERS) = {CUSTODY_MEMBERS[1], CUSTODY_MEMBERS[2], CUSTODY_MEMBERS[3]}
    BY DEF CUSTODY_MEMBERS, ToSet
  <1>2. Shared(ToSet(CUSTODY_MEMBERS)) = {CUSTODY_MEMBERS[3]}
    <2>1. /\ CUSTODY_MEMBERS[1] \notin NON_CUSTODY_MEMBERS
          /\ CUSTODY_MEMBERS[2] \notin NON_CUSTODY_MEMBERS
          /\ CUSTODY_MEMBERS[3] \in NON_CUSTODY_MEMBERS
      BY DEF CUSTODY_MEMBERS, NON_CUSTODY_MEMBERS
    <2> QED
      BY <1>1, <2>1 DEF Shared
  <1>3. Cardinality({CUSTODY_MEMBERS[3]}) = 1
    BY FS_Singleton
  <1>4. IsFiniteSet(NON_CUSTODY_MEMBERS)
    <2>1. \A x, y, z : IsFiniteSet({x, y, z})
      <3> TAKE x, y, z
      <3>1. IsFiniteSet({x})
        BY FS_Singleton
      <3>2. IsFiniteSet({x} \cup {y})
        BY <3>1, FS_AddElement
      <3>3. IsFiniteSet(({x} \cup {y}) \cup {z})
        BY <3>2, FS_AddElement
      <3>4. ({x} \cup {y}) \cup {z} = {x, y, z}
        OBVIOUS
      <3> QED
        BY <3>3, <3>4
    <2> QED
      BY <2>1 DEF NON_CUSTODY_MEMBERS
  <1> QED
    BY <1>2, <1>3, <1>4

\* An account with a threshold of two or more and at most one member in common with the
\* other programs.
LEMMA Separate ==
    ASSUME NEW account, account.threshold \in Nat, account.threshold >= 2,
           Cardinality(Shared(Members(account))) <= 1
    PROVE  ~CanPass(account, NON_CUSTODY_MEMBERS) /\ \A m \in People : ~CanPass(account, {m})
  <1> DEFINE votes == With("Vote", account)
  <1>1. votes \subseteq Members(account)
    BY DEF With
  <1> HIDE DEF votes
  <1>2. ~CanPass(account, NON_CUSTODY_MEMBERS)
    <2>1. votes \cap NON_CUSTODY_MEMBERS \subseteq Shared(Members(account))
      BY <1>1 DEF Shared
    <2>2. IsFiniteSet(Shared(Members(account)))
      BY OneShared, FS_Subset DEF Shared
    <2>3. /\ Cardinality(votes \cap NON_CUSTODY_MEMBERS) <= Cardinality(Shared(Members(account)))
          /\ IsFiniteSet(votes \cap NON_CUSTODY_MEMBERS)
      BY <2>1, <2>2, FS_Subset
    <2>4. Cardinality(votes \cap NON_CUSTODY_MEMBERS) \in Nat /\ Cardinality(Shared(Members(account))) \in Nat
      BY <2>2, <2>3, FS_CardinalityType
    <2>5. ~(Cardinality(votes \cap NON_CUSTODY_MEMBERS) >= account.threshold)
      BY <2>3, <2>4
    <2> QED
      BY <2>5 DEF CanPass, votes
  <1>3. ASSUME NEW m \in People PROVE ~CanPass(account, {m})
    <2>1. IsFiniteSet({m}) /\ Cardinality({m}) = 1
      BY FS_Singleton
    <2>2. Cardinality(votes \cap {m}) <= 1 /\ IsFiniteSet(votes \cap {m})
      BY <2>1, FS_Subset
    <2>3. Cardinality(votes \cap {m}) \in Nat
      BY <2>2, FS_CardinalityType
    <2>4. ~(Cardinality(votes \cap {m}) >= account.threshold)
      BY <2>2, <2>3
    <2> QED
      BY <2>4 DEF CanPass, votes
  <1> QED
    BY <1>2, <1>3

\* What is known of an account that was accepted, when it was read.
AcceptedInv ==
    approved # None =>
        /\ \A S \in {NON_CUSTODY_MEMBERS} \cup {{m} : m \in People} :
                ~CanPass(approved.account, S)
        /\ approved.at \in CreateKeys => approved.account.configAuthority = None

LEMMA AcceptedStep == CeremonyInv /\ AcceptedInv /\ [Next]_vars => AcceptedInv'
  <1> SUFFICES ASSUME CeremonyInv, AcceptedInv, [Next]_vars PROVE AcceptedInv'
    OBVIOUS
  <1>1. CASE approved' = approved
    BY <1>1 DEF AcceptedInv, CanPass, With, Members
  <1>2. ASSUME NEW k \in Multisigs, live[k] # None, approved' = Read(k),
               live[k].threshold \in Nat, live[k].threshold >= 2,
               Cardinality(Shared(Members(live[k]))) <= 1
        PROVE  AcceptedInv'
    <2>1. approved'.at = k /\ approved'.account = live[k]
      BY <1>2 DEF Read
    <2>2. \A S \in {NON_CUSTODY_MEMBERS} \cup {{m} : m \in People} : ~CanPass(live[k], S)
      BY <1>2, Separate
    <2>3. k \in CreateKeys => live[k].configAuthority = None
      BY <1>2 DEF CeremonyInv, Autonomous
    <2> QED
      BY <2>1, <2>2, <2>3 DEF AcceptedInv, CanPass, With, Members
  <1>3. CASE ConfirmTransaction
    <2>1. CASE VerifyOnChain(live[run.key])
      <3>1. /\ run.key \in Multisigs /\ live[run.key] # None /\ approved' = Read(run.key)
            /\ live[run.key].threshold = 2
            /\ Members(live[run.key]) = ToSet(CUSTODY_MEMBERS)
        BY <1>3, <2>1, GovernanceAssumption
        DEF ConfirmTransaction, VerifyOnChain, CUSTODY_THRESHOLD, CeremonyInv, CeremonyOK,
            OneKey, Multisigs
      <3> QED
        BY <1>2, <3>1, OneShared
    <2> QED
      BY <1>1, <1>3, <2>1 DEF ConfirmTransaction
  <1>4. ASSUME NEW k \in Multisigs, live[k] # None, NEW d \in Declarations(k), Verify(d)
        PROVE  AcceptedInv'
    <2>1. /\ d.multisig = k /\ approved' = Read(k) /\ live[k].threshold = d.threshold
          /\ Members(live[k]) = ToSet(d.members)
          /\ d.threshold >= 2 /\ Cardinality(Shared(ToSet(d.members))) <= 1
          /\ d.threshold \in Nat
      BY <1>4 DEF Declarations, Verify, Valid, CheckPolicy, CompareToPolicy,
                  MIN_SQUADS_THRESHOLD, MAX_APPROVED_SHARED_SIGNERS
    <2> QED
      BY <1>2, <1>4, <2>1
  <1>5. ASSUME NEW k \in Multisigs, Preflight(k) PROVE AcceptedInv'
    <2>1. /\ approved' = Read(k) /\ live[k] # None /\ live[k].threshold = 2
          /\ Cardinality(Shared(Members(live[k]))) = 1
      BY <1>5 DEF Preflight, PreflightPasses, CompareToPolicy, Expected, Shared,
                  NON_CUSTODY_MEMBERS
    <2> QED
      BY <1>2, <2>1
  <1> QED
    BY <1>1, <1>3, <1>4, <1>5
    DEF Next, Ceremony, Chain, Start, Prove, Derive, NoKey, SendTransaction, Dies,
        CreationLands, CreationExpires, CreatedElsewhere, Reconfigure, vars

\* In no account that the ceremony's read-back, the live verifier or the preflight accepted
\* can one key, or the signers of the other programs, pass anything; and in one that the
\* ceremony created, no config authority can act for them.
THEOREM CustodyIsAlwaysSeparate == Spec => []CustodyIsSeparate
  <1>1. Init => AcceptedInv
    BY DEF Init, AcceptedInv
  <1>2. AcceptedInv => CustodyIsSeparate
    <2> SUFFICES ASSUME AcceptedInv, approved # None,
                        NEW S \in {NON_CUSTODY_MEMBERS} \cup {{m} : m \in People}
                 PROVE  /\ ~CanPass(approved.account, S)
                        /\ approved.at \in CreateKeys => ~Controls(approved.account, S)
      BY DEF CustodyIsSeparate
    <2>1. ~CanPass(approved.account, S)
      BY DEF AcceptedInv
    <2>2. None \notin S
      BY GovernanceAssumption
    <2> QED
      BY <2>1, <2>2 DEF AcceptedInv, Controls
  <1> QED
    BY <1>1, <1>2, AcceptedStep, CeremonyAlways, PTL DEF Spec
=============================================================================
