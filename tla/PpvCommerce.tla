---------------------------- MODULE PpvCommerce ----------------------------
(***************************************************************************)
(* ppv_commerce: two parties negotiate one document.  A revision takes the *)
(* version it replaces and clears both signatures; a signature restates    *)
(* the version and both hashes; both signatures together execute the       *)
(* agreement.  No instruction touches more than the one account, so one is *)
(* modelled.  A failed require is a disabled action.                       *)
(***************************************************************************)
EXTENDS Naturals

CONSTANTS
    Wallets,    \* the keys that can sign
    Nobody,     \* Pubkey::default(), and the None of an Option<SignatureRecord>
    Hashes,     \* SHA-256 values, the all-zero one included
    ZeroHash,   \* [0; 32]
    Ttl,        \* MAX_AGREEMENT_TTL_SECS
    MaxTime,    \* bound on the Clock sysvar
    MaxVersion  \* stands for u32::MAX

ASSUME CommerceAssumption ==
    /\ Nobody \notin Wallets
    /\ ZeroHash \in Hashes
    /\ Ttl \in Nat /\ MaxTime \in Nat /\ MaxVersion \in Nat \ {0}

VARIABLES
    contract,   \* the Agreement account
    clock       \* Clock::unix_timestamp

Times == 0 .. MaxTime
NonZero(hash) == hash # ZeroHash

Signatures ==
    [signer : Wallets, version : 1 .. MaxVersion, content : Hashes,
     terms : Hashes, signedAt : Times]
Contracts ==
    [state : {"Absent", "Pending", "Executed", "Cancelled"},
     partyA : Wallets \cup {Nobody}, partyB : Wallets \cup {Nobody},
     version : 0 .. MaxVersion, content : Hashes, terms : Hashes,
     sigA : Signatures \cup {Nobody}, sigB : Signatures \cup {Nobody},
     expiresAt : Nat, executedAt : Times]

\* None is no Some: an empty signature slot is told from a filled one.
ASSUME SlotAssumption == Nobody \notin Signatures

AbsentContract ==
    [state |-> "Absent", partyA |-> Nobody, partyB |-> Nobody, version |-> 0,
     content |-> ZeroHash, terms |-> ZeroHash, sigA |-> Nobody, sigB |-> Nobody,
     expiresAt |-> 0, executedAt |-> 0]

CommerceInit == contract = AbsentContract /\ clock = 0

IsParty(w) == w \in {contract.partyA, contract.partyB}

\* Broken: an expired agreement is still open.
PendingAndUnexpired_Late == contract.state = "Pending" /\ clock <= contract.expiresAt

PendingAndUnexpired == contract.state = "Pending" /\ clock < contract.expiresAt

CreateAgreement(a, b, content, terms, expiresAt) ==
    /\ contract.state = "Absent"
    /\ b \notin {Nobody, a}
    /\ NonZero(content) /\ NonZero(terms)
    /\ clock < expiresAt /\ expiresAt <= clock + Ttl
    /\ contract' = [AbsentContract EXCEPT
            !.state = "Pending", !.partyA = a, !.partyB = b, !.version = 1,
            !.content = content, !.terms = terms, !.expiresAt = expiresAt]
    /\ UNCHANGED clock

\* Broken: whatever version was read.
VersionLocked_Blind(version) == contract.version < MaxVersion

VersionLocked(version) == version = contract.version /\ contract.version < MaxVersion

\* Broken: party B's signature survives.
Replace_KeepsB(content, terms) ==
    contract' = [contract EXCEPT
        !.version = @ + 1, !.content = content, !.terms = terms, !.sigA = Nobody]

Replace(content, terms) ==
    contract' = [contract EXCEPT
        !.version = @ + 1, !.content = content, !.terms = terms,
        !.sigA = Nobody, !.sigB = Nobody]

ProposeRevision(w, version, content, terms) ==
    /\ IsParty(w)
    /\ PendingAndUnexpired
    /\ VersionLocked(version)
    /\ NonZero(content) /\ NonZero(terms)
    /\ content # contract.content \/ terms # contract.terms
    /\ Replace(content, terms)
    /\ UNCHANGED clock

Signature(w, version, content, terms) ==
    [signer |-> w, version |-> version, content |-> content, terms |-> terms,
     signedAt |-> clock]

\* The signer's own slot must be empty; filling the second one executes.
WithSignature(w, signature) ==
    LET signed == IF w = contract.partyA
                  THEN [contract EXCEPT !.sigA = signature]
                  ELSE [contract EXCEPT !.sigB = signature]
    IN  /\ w = contract.partyA => contract.sigA = Nobody
        /\ w # contract.partyA => contract.sigB = Nobody
        /\ contract' = IF Nobody \in {signed.sigA, signed.sigB} THEN signed
                       ELSE [signed EXCEPT !.state = "Executed", !.executedAt = clock]

\* Broken: the version is not compared, only the hashes.
SignAgreement_AnyVersion(w, version, content, terms) ==
    /\ IsParty(w)
    /\ PendingAndUnexpired
    /\ content = contract.content
    /\ terms = contract.terms
    /\ WithSignature(w, Signature(w, contract.version, content, terms))
    /\ UNCHANGED clock

SignAgreement(w, version, content, terms) ==
    /\ IsParty(w)
    /\ PendingAndUnexpired
    /\ version = contract.version
    /\ content = contract.content
    /\ terms = contract.terms
    /\ WithSignature(w, Signature(w, version, content, terms))
    /\ UNCHANGED clock

\* Allowed after expiry too; signatures already given stay on the account.
CancelAgreement(w) ==
    /\ IsParty(w)
    /\ contract.state = "Pending"
    /\ contract' = [contract EXCEPT !.state = "Cancelled"]
    /\ UNCHANGED clock

Tick == clock < MaxTime /\ clock' = clock + 1 /\ UNCHANGED contract
=============================================================================
