-------------------------- MODULE CommerceClients --------------------------
(***************************************************************************)
(* ppv_commerce with the wallets that use it.  A client reads the account, *)
(* builds an instruction from what it read and sends it; by the time the   *)
(* transaction lands, in any order with the others, the account may have   *)
(* moved on.  A transaction may also be refused or never land.             *)
(***************************************************************************)
EXTENDS PpvCommerce, FiniteSets

CONSTANTS
    Negotiators,    \* the wallets considered to be parties and to have calls in flight
    TermsHashes,    \* the hashes considered for the machine-readable terms
    MaxSent         \* bound on the transactions in flight

ASSUME ClientAssumption ==
    Negotiators \subseteq Wallets /\ TermsHashes \subseteq Hashes

VARIABLES
    sent,       \* the transactions in flight, each with the document its sender read
    approved    \* approved[w]: the documents w has read and agreed to sign

vars == <<contract, clock, sent, approved>>

\* What a wallet sees of the account: the version and the two hashes.
Document == <<contract.version, contract.content, contract.terms>>

Init ==
    /\ CommerceInit
    /\ sent = {}
    /\ approved = [w \in Wallets |-> {}]

Send(tx) ==
    /\ Cardinality(sent) < MaxSent
    /\ sent' = sent \cup {tx}

Create(a, b, content, terms, expiresAt) ==
    CreateAgreement(a, b, content, terms, expiresAt) /\ UNCHANGED <<sent, approved>>

\* The instruction builders refuse a zero hash; the expected version is the one read.
AskToRevise(w, content, terms) ==
    /\ contract.state # "Absent"
    /\ NonZero(content) /\ NonZero(terms)
    /\ Send([op |-> "revise", by |-> w, read |-> Document,
             content |-> content, terms |-> terms])
    /\ UNCHANGED <<contract, clock, approved>>

AskToSign(w) ==
    /\ contract.state # "Absent"
    /\ Send([op |-> "sign", by |-> w, read |-> Document,
             content |-> contract.content, terms |-> contract.terms])
    /\ approved' = [approved EXCEPT ![w] = @ \cup {Document}]
    /\ UNCHANGED <<contract, clock>>

\* The same in one go; also what a wallet that is no party can try.
SignNow(w) ==
    /\ SignAgreement(w, contract.version, contract.content, contract.terms)
    /\ approved' = [approved EXCEPT ![w] = @ \cup {Document}]
    /\ UNCHANGED sent

Cancel(w) == CancelAgreement(w) /\ UNCHANGED <<sent, approved>>

Land(tx) ==
    /\ \/ /\ tx.op = "revise"
          /\ ProposeRevision(tx.by, tx.read[1], tx.content, tx.terms)
       \/ /\ tx.op = "sign"
          /\ SignAgreement(tx.by, tx.read[1], tx.content, tx.terms)
    /\ sent' = sent \ {tx}
    /\ UNCHANGED approved

\* Refused by the program, or dropped by the network.
Lose(tx) == sent' = sent \ {tx} /\ UNCHANGED <<contract, clock, approved>>

Next ==
    \/ \E a \in Negotiators, b \in Negotiators \cup {Nobody}, c \in Hashes, t \in TermsHashes, e \in 0 .. MaxTime + 1 :
            Create(a, b, c, t, e)
    \/ \E w \in Negotiators, c \in Hashes, t \in TermsHashes : AskToRevise(w, c, t)
    \/ \E w \in Negotiators : AskToSign(w)
    \/ \E w \in Wallets : SignNow(w)
    \/ \E w \in Wallets : Cancel(w)
    \/ \E tx \in sent : Land(tx)
    \/ \E tx \in sent : Lose(tx)
    \/ Tick /\ UNCHANGED <<sent, approved>>

Spec == Init /\ [][Next]_vars
-----------------------------------------------------------------------------
\* The account holds what its Rust type allows.
TypeOK == contract \in Contracts /\ clock \in Times

\* docs/invariants.md, 19 and 20.  A signature on the account, whatever became of the agreement,
\* is its owner's, for the document that is on the account now, and was given
\* before expiry; an executed agreement has both, the later one at execution.
SignaturesAreCurrent ==
    LET Current(sig, party) ==
            /\ sig.signer = party
            /\ <<sig.version, sig.content, sig.terms>> = Document
            /\ sig.signedAt < contract.expiresAt
        given == {contract.sigA, contract.sigB} \ {Nobody}
    IN  /\ contract.sigA # Nobody => Current(contract.sigA, contract.partyA)
        /\ contract.sigB # Nobody => Current(contract.sigB, contract.partyB)
        /\ contract.state = "Executed" =>
            /\ Cardinality(given) = 2
            /\ \E sig \in given : sig.signedAt = contract.executedAt
            /\ \A sig \in given : sig.signedAt <= contract.executedAt
        /\ contract.state = "Pending" => Nobody \in {contract.sigA, contract.sigB}

\* "A stale screen produces a clean transaction failure" (README.md).  If the
\* agreement is executed, each party had read exactly this version of this document
\* when it decided to sign, however late or out of order its transaction landed.
NobodyIsBoundUnseen ==
    contract.state = "Executed" =>
        \A w \in {contract.partyA, contract.partyB} : Document \in approved[w]

\* The optimistic lock: a revision that takes effect replaces the document its
\* proposer was looking at, never one that arrived in between.
NoLostUpdate ==
    [][contract'.version > contract.version /\ contract.version > 0 =>
        \E tx \in sent \ sent' : tx.op = "revise" /\ tx.read = Document]_vars

\* Time and ending close the account: from expiry on a pending agreement can only be
\* cancelled, and one that is executed or cancelled never changes again.
ClosedStaysClosed ==
    [][/\ contract.state \in {"Executed", "Cancelled"} => UNCHANGED contract
       /\ contract.state = "Pending" /\ clock >= contract.expiresAt =>
            contract' \in {contract, [contract EXCEPT !.state = "Cancelled"]}]_vars
=============================================================================
