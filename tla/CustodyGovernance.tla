------------------------- MODULE CustodyGovernance -------------------------
(***************************************************************************)
(* The multisig that holds the upgrade authority of ppv_escrow: the        *)
(* ceremony that creates it (create-escrow-custody-multisig.mjs), the      *)
(* policy it must meet (verify-custody-governance.mjs, lib/squads.mjs) and *)
(* the preflight of the custody run, which reads it again.                 *)
(*                                                                         *)
(* One operator runs the ceremony, again and again if need be: a process   *)
(* may die at any request, and its transaction may land after it died.     *)
(* The verifier is given whatever address its operator names, so multisigs *)
(* that other tools created are there too.  The Squads program is modelled *)
(* from how these scripts use it.                                          *)
(***************************************************************************)
EXTENDS Naturals, Sequences, FiniteSets, SequencesExt

CONSTANTS
    CreateKeys,         \* what `Keypair.generate` may return; a multisig is named by its key
    Others,             \* the multisigs that are not this ceremony's
    People,             \* the keys that may become members, or a config authority
    None,
    MaxRuns             \* bound on the runs of the ceremony

Multisigs == CreateKeys \cup Others

\* Each script has a roster of its own.
CUSTODY_MEMBERS ==
    <<"HDkMBufpYfm1LN6apVkeV3aA2dhMk57PmBujwJ4j4Ecx",
      "5y12g4GKbba3k6WDUyZT8eUfeBdboxxGrjkdjM4kX2Wo",
      "BJmFM4k7Q32CiCYSdoYkAhXdD5Sk3BegMh2cbEAsgSwJ">>
NON_CUSTODY_MEMBERS ==
    {"58kuGbxpvaamvYE44WYkyipBB6FVKt2qT9u3vAKtyKYV",
     "2FFVcm9xJmUHG6zfo15ktzuGQTXACPG42iquGHe6faTN",
     "BJmFM4k7Q32CiCYSdoYkAhXdD5Sk3BegMh2cbEAsgSwJ"}

CUSTODY_THRESHOLD == 2
MIN_SQUADS_THRESHOLD == 2
MAX_APPROVED_SHARED_SIGNERS == 1
PERMISSION_ALL == {"Initiate", "Vote", "Execute"}

ASSUME GovernanceAssumption ==
    /\ None \notin Multisigs \cup People \cup NON_CUSTODY_MEMBERS
    /\ CreateKeys \cap Others = {}
    /\ MaxRuns \in Nat

VARIABLES
    keyFile,    \* the file PPV_CUSTODY_CREATE_KEY names
    generated,  \* the keys generated so far
    reviewed,   \* the addresses a preflight has printed for the operator
    run,        \* the running ceremony
    runs,       \* how many have started
    sent,       \* the creation transactions that may still land
    live,       \* live[k]: the Multisig account that k derives
    approved    \* what the last successful verification read, and where

vars == <<keyFile, generated, reviewed, run, runs, sent, live, approved>>

Idle == [mode |-> "none", pc |-> "idle", key |-> None]

Init ==
    /\ keyFile = None
    /\ generated = {} /\ reviewed = {} /\ sent = {}
    /\ run = Idle /\ runs = 0
    /\ live = [k \in Multisigs |-> None]
    /\ approved = None
-----------------------------------------------------------------------------
(* Squads: a member votes, initiates and executes as its permissions allow. *)
Members(account) == DOMAIN account.mask
With(permission, account) == {m \in Members(account) : permission \in account.mask[m]}

CanPass(account, S) ==
    /\ Cardinality(With("Vote", account) \cap S) >= account.threshold
    /\ With("Initiate", account) \cap S # {}
    /\ With("Execute", account) \cap S # {}

Masks == {PERMISSION_ALL, {"Vote"}}

\* A config authority changes members and threshold by itself.
Controls(account, S) == CanPass(account, S) \/ account.configAuthority \in S

\* What the program lets a configuration be.  None: no config authority.
Accounts ==
    LET lists == UNION {[S -> Masks] : S \in {S \in SUBSET People : Cardinality(S) \in 1 .. 3}}
    IN  {account \in [threshold : 1 .. 3, mask : lists, configAuthority : People \cup {None}] :
            CanPass(account, Members(account))}

\* multisigCreateV2 with the ceremony's arguments.
Created ==
    [threshold |-> CUSTODY_THRESHOLD,
     mask |-> [m \in ToSet(CUSTODY_MEMBERS) |-> PERMISSION_ALL],
     configAuthority |-> None]

CreationLands(k) ==
    /\ k \in sent
    /\ sent' = sent \ {k}
    /\ live' = [live EXCEPT ![k] = IF @ = None THEN Created ELSE @]
    /\ UNCHANGED <<keyFile, generated, reviewed, run, runs, approved>>

CreationExpires(k) ==
    /\ k \in sent
    /\ sent' = sent \ {k}
    /\ UNCHANGED <<keyFile, generated, reviewed, run, runs, live, approved>>

\* Somebody else's multisig.
CreatedElsewhere(o) ==
    /\ live[o] = None
    /\ \E account \in Accounts : live' = [live EXCEPT ![o] = account]
    /\ UNCHANGED <<keyFile, generated, reviewed, run, runs, sent, approved>>

\* A change that the members pass, or the config authority makes.  The members cannot
\* give an authority to a multisig that has none.
Reconfigure(k) ==
    /\ live[k] # None
    /\ \E account \in Accounts :
        /\ live[k].configAuthority = None => account.configAuthority = None
        /\ live' = [live EXCEPT ![k] = account]
    /\ UNCHANGED <<keyFile, generated, reviewed, run, runs, sent, approved>>
-----------------------------------------------------------------------------
(* The ceremony. *)
ParseMode(flags) ==
    CASE flags = <<"--execute">> -> "execute"
      [] flags = <<"--preflight">> -> "preflight"
      [] flags = <<>> -> "none"
      [] OTHER -> "unknown"

MayBroadcast(mode) == mode = "execute"

\* With no mode, or an unknown one, `main` prints its usage and returns.
Start(flags) ==
    /\ run = Idle /\ runs < MaxRuns
    /\ runs' = runs + 1
    /\ run' = IF ParseMode(flags) \in {"none", "unknown"} THEN Idle
              ELSE [Idle EXCEPT !.mode = ParseMode(flags), !.pc = "prove"]
    /\ UNCHANGED <<keyFile, generated, reviewed, sent, live, approved>>

\* assertDevnet and assertSquadsProgram: another cluster, or none, stops it.
Prove ==
    /\ run.pc = "prove"
    /\ run' \in {Idle, [run EXCEPT !.pc = "derive"]}
    /\ UNCHANGED <<keyFile, generated, reviewed, runs, sent, live, approved>>

\* Broken: --execute makes a key when there is none.
ResolveCreateKey_Generates(mode) ==
    IF keyFile # None THEN {keyFile} ELSE CreateKeys \ generated

\* Broken: every preflight makes a key of its own.
ResolveCreateKey_Fresh(mode) ==
    IF MayBroadcast(mode) THEN {keyFile} \ {None} ELSE CreateKeys \ generated

\* The keys it may return; none when it throws.
ResolveCreateKey(mode) ==
    IF keyFile # None THEN {keyFile}
    ELSE IF MayBroadcast(mode) THEN {} ELSE CreateKeys \ generated

\* The multisig and the vault, as derived addresses, are nobody's keys.
CheckSafety(threshold, members) ==
    /\ threshold = CUSTODY_THRESHOLD /\ Len(members) = 3
    /\ threshold <= Len(members)
    /\ IsInjective(members)

\* From the key to the printed summary nothing is awaited.
Derive ==
    /\ run.pc = "derive"
    /\ \E k \in ResolveCreateKey(run.mode) :
        /\ keyFile' = k
        /\ generated' = generated \cup {k}
        /\ reviewed' = IF MayBroadcast(run.mode) THEN reviewed ELSE reviewed \cup {k}
        /\ run' = IF MayBroadcast(run.mode) /\ CheckSafety(CUSTODY_THRESHOLD, CUSTODY_MEMBERS)
                  THEN [run EXCEPT !.pc = "send", !.key = k] ELSE Idle
    /\ UNCHANGED <<runs, sent, live, approved>>

NoKey ==
    /\ run.pc = "derive" /\ ResolveCreateKey(run.mode) = {}
    /\ run' = Idle
    /\ UNCHANGED <<keyFile, generated, reviewed, runs, sent, live, approved>>

\* The node simulates it first: an account that exists cannot be created again.
SendTransaction ==
    /\ run.pc = "send"
    /\ IF live[run.key] = None
       THEN sent' = sent \cup {run.key} /\ run' = [run EXCEPT !.pc = "confirm"]
       ELSE UNCHANGED sent /\ run' = Idle
    /\ UNCHANGED <<keyFile, generated, reviewed, runs, live, approved>>

VerifyOnChain(account) ==
    /\ account.threshold = CUSTODY_THRESHOLD
    /\ Members(account) = ToSet(CUSTODY_MEMBERS)
    /\ \A m \in Members(account) : account.mask[m] = PERMISSION_ALL

Read(k) == [at |-> k, account |-> live[k]]

\* confirmTransaction, then the account is read back.
ConfirmTransaction ==
    /\ run.pc = "confirm" /\ live[run.key] # None
    /\ approved' = IF VerifyOnChain(live[run.key]) THEN Read(run.key) ELSE approved
    /\ run' = Idle
    /\ UNCHANGED <<keyFile, generated, reviewed, runs, sent, live>>

\* A request fails, the blockhash expires unconfirmed, or the process is killed.
Dies ==
    /\ run.pc # "idle"
    /\ run' = Idle
    /\ UNCHANGED <<keyFile, generated, reviewed, runs, sent, live, approved>>
-----------------------------------------------------------------------------
(* The verifiers. *)
Shared(members) == members \cap NON_CUSTODY_MEMBERS

\* Broken: --allow-shared-signers allows any overlap.
CheckPolicy_AnyOverlap(d) ==
    /\ d.threshold >= MIN_SQUADS_THRESHOLD
    /\ Len(d.members) >= d.threshold
    /\ d.vault = d.multisig
    /\ IsInjective(d.members)
    /\ Shared(ToSet(d.members)) = {} \/ d.allowShared

\* Of a declared configuration.  A vault is named by the multisig that derives it, and
\* is never a member or a wallet.
CheckPolicy(d) ==
    /\ d.threshold >= MIN_SQUADS_THRESHOLD
    /\ Len(d.members) >= d.threshold
    /\ d.vault = d.multisig
    /\ IsInjective(d.members)
    /\ Shared(ToSet(d.members)) = {} \/ d.allowShared
    /\ Cardinality(Shared(ToSet(d.members))) <= MAX_APPROVED_SHARED_SIGNERS

\* Of the declared configuration against the decoded account, whose config authority is
\* decoded and not compared.
CompareToPolicy(account, d) ==
    /\ account.threshold = d.threshold
    /\ Cardinality(Members(account)) = Len(d.members)
    /\ Members(account) = ToSet(d.members)
    /\ \A m \in Members(account) : account.mask[m] = PERMISSION_ALL
    /\ d.vault = d.multisig

Declarations(k) ==
    [multisig : {k}, vault : Multisigs, threshold : 1 .. 3,
     members : BoundedSeq(People, 3), allowShared : BOOLEAN]

\* verify --live-squads
Valid(d) ==
    /\ CheckPolicy(d)
    /\ live[d.multisig] # None
    /\ CompareToPolicy(live[d.multisig], d)

Verify(d) ==
    /\ Valid(d)
    /\ approved' = Read(d.multisig)
    /\ UNCHANGED <<keyFile, generated, reviewed, run, runs, sent, live>>

\* Broken: a signer was replaced here and not in the ceremony.
EXPECTED_MEMBERS_Replaced ==
    <<"HDkMBufpYfm1LN6apVkeV3aA2dhMk57PmBujwJ4j4Ecx",
      "5y12g4GKbba3k6WDUyZT8eUfeBdboxxGrjkdjM4kX2Wo",
      "58kuGbxpvaamvYE44WYkyipBB6FVKt2qT9u3vAKtyKYV">>

EXPECTED_MEMBERS ==
    <<"HDkMBufpYfm1LN6apVkeV3aA2dhMk57PmBujwJ4j4Ecx",
      "5y12g4GKbba3k6WDUyZT8eUfeBdboxxGrjkdjM4kX2Wo",
      "BJmFM4k7Q32CiCYSdoYkAhXdD5Sk3BegMh2cbEAsgSwJ">>

\* EXPECTED, which records the multisig k.
Expected(k) ==
    [multisig |-> k, vault |-> k, threshold |-> 2, members |-> EXPECTED_MEMBERS]

\* The custody run's preflight, of the multisig it expects.
PreflightPasses(k) ==
    LET nonCustody == {"58kuGbxpvaamvYE44WYkyipBB6FVKt2qT9u3vAKtyKYV",
                       "2FFVcm9xJmUHG6zfo15ktzuGQTXACPG42iquGHe6faTN",
                       "BJmFM4k7Q32CiCYSdoYkAhXdD5Sk3BegMh2cbEAsgSwJ"}
    IN  /\ live[k] # None
        /\ CompareToPolicy(live[k], Expected(k))
        /\ Cardinality(Members(live[k]) \cap nonCustody) = 1

Preflight(k) ==
    /\ PreflightPasses(k)
    /\ approved' = Read(k)
    /\ UNCHANGED <<keyFile, generated, reviewed, run, runs, sent, live>>
-----------------------------------------------------------------------------
Flags == {<<>>, <<"--preflight">>, <<"--execute">>, <<"--preflight", "--execute">>}

Ceremony ==
    \/ \E flags \in Flags : Start(flags)
    \/ Prove \/ Derive \/ NoKey \/ SendTransaction \/ ConfirmTransaction \/ Dies

Chain ==
    \/ \E k \in CreateKeys : CreationLands(k) \/ CreationExpires(k)
    \/ \E o \in Others : CreatedElsewhere(o)
    \/ \E k \in Multisigs : Reconfigure(k)

Next ==
    \/ Ceremony
    \/ Chain
    \/ \E k \in Multisigs :
        /\ live[k] # None
        /\ Preflight(k) \/ \E d \in Declarations(k) : Verify(d)

Spec == Init /\ [][Next]_vars
-----------------------------------------------------------------------------
\* "The whole point of stopping after --preflight is that an operator reviews the exact
\* address that --execute will create": however often the ceremony is rerun, and
\* wherever it dies, what is created, or may yet be, was printed by a preflight.
CreatedWasReviewed ==
    \A k \in CreateKeys : live[k] # None \/ k \in sent => k \in reviewed

\* A creation whose confirmation was lost is not repeated at another address: there
\* is one custody multisig, and a later preflight shows that one.
OneMultisig ==
    /\ Cardinality({k \in CreateKeys : live[k] # None} \cup sent) <= 1
    /\ \A k \in CreateKeys : live[k] # None => keyFile = k

\* Whatever account any of the verifiers accepted, neither one key alone nor all the
\* signers of the other programs together can pass anything in it; and they have no other
\* hold over it if it is one that the ceremony created, whoever has changed it since.
CustodyIsSeparate ==
    approved # None =>
        \A S \in {NON_CUSTODY_MEMBERS} \cup {{m} : m \in People} :
            /\ ~CanPass(approved.account, S)
            /\ approved.at \in CreateKeys => ~Controls(approved.account, S)

\* "The answers must agree": of the account that the ceremony created, changed or not,
\* its own read-back, the verifier with the recorded configuration and the custody run's
\* preflight, each with a roster of its own, say the same.
VerdictsAgree ==
    \A k \in CreateKeys :
        live[k] # None =>
            LET declared == [multisig |-> k, vault |-> k, threshold |-> CUSTODY_THRESHOLD,
                             members |-> CUSTODY_MEMBERS, allowShared |-> TRUE]
            IN  /\ VerifyOnChain(live[k]) <=> Valid(declared)
                /\ VerifyOnChain(live[k]) <=> PreflightPasses(k)
-----------------------------------------------------------------------------
(* A claim of the sources that does not hold. *)

\* "Compromising Core and Commerce's governance cannot reach the vault", nor can one key:
\* so of every account that was accepted, and not only by passing a proposal.
AcceptedIsSeparate ==
    approved # None =>
        \A S \in {NON_CUSTODY_MEMBERS} \cup {{m} : m \in People} :
            ~Controls(approved.account, S)
=============================================================================
