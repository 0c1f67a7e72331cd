--------------------------- MODULE CommerceProofs ---------------------------
(***************************************************************************)
(* Proofs about ppv_commerce, its clients and verifyTermsBinding, for any  *)
(* number of wallets, hashes, versions and transactions in flight.         *)
(***************************************************************************)
EXTENDS CommerceBinding, FiniteSetTheorems, TLAPS

Documents == (0 .. MaxVersion) \X Hashes \X Hashes
Transactions ==
    [op : {"revise", "sign"}, by : Wallets, read : Documents,
     content : Hashes, terms : Hashes]

\* The clients, as TypeOK is for the program.
ClientsOK ==
    /\ sent \in SUBSET Transactions
    /\ approved \in [Wallets -> SUBSET Documents]

\* A transaction in flight was built from what its sender read: nothing newer than the
\* account, and the account's own document if the version is still the same; and what
\* it asks to sign is what its sender read and approved.
InFlight(tx) ==
    /\ tx.read[1] <= contract.version
    /\ tx.read[1] = contract.version => tx.read = Document
    /\ tx.op = "sign" =>
        /\ tx.content = tx.read[2] /\ tx.terms = tx.read[3]
        /\ tx.read \in approved[tx.by]

\* A filled signature slot holds its party's signature for the present document, which
\* the party had read, given before expiry and not in the future.
Slot(sig, party) ==
    sig # Nobody =>
        /\ sig.signer = party
        /\ sig.version = contract.version
        /\ sig.content = contract.content /\ sig.terms = contract.terms
        /\ sig.signedAt < contract.expiresAt
        /\ sig.signedAt <= clock
        /\ Document \in approved[party]

\* What state the account is in, by its other fields.
Standing ==
    /\ contract.state = "Absent" =>
        /\ sent = {}
        /\ contract.version = 0 /\ contract.sigA = Nobody /\ contract.sigB = Nobody
    /\ contract.state # "Absent" =>
        /\ contract.partyA \in Wallets /\ contract.partyB \in Wallets
        /\ contract.partyA # contract.partyB
        /\ contract.version > 0
    /\ contract.state = "Pending" => Nobody \in {contract.sigA, contract.sigB}
    /\ contract.state = "Executed" =>
        /\ contract.sigA # Nobody /\ contract.sigB # Nobody
        /\ contract.sigA.signedAt <= contract.executedAt
        /\ contract.sigB.signedAt <= contract.executedAt
        /\ \/ contract.sigA.signedAt = contract.executedAt
           \/ contract.sigB.signedAt = contract.executedAt

NegotiationInv ==
    /\ TypeOK
    /\ ClientsOK
    /\ Standing
    /\ \A tx \in sent : InFlight(tx)
    /\ Slot(contract.sigA, contract.partyA)
    /\ Slot(contract.sigB, contract.partyB)
-----------------------------------------------------------------------------
(* The steps, field by field. *)

KeepsParties ==
    /\ contract'.partyA = contract.partyA
    /\ contract'.partyB = contract.partyB
    /\ contract'.expiresAt = contract.expiresAt
KeepsDocument ==
    /\ contract'.version = contract.version
    /\ contract'.content = contract.content
    /\ contract'.terms = contract.terms

\* create_agreement
Created ==
    /\ contract.state = "Absent" /\ contract'.state = "Pending"
    /\ contract'.partyA \in Wallets /\ contract'.partyB \in Wallets
    /\ contract'.partyA # contract'.partyB
    /\ contract'.version = 1
    /\ contract'.sigA = Nobody /\ contract'.sigB = Nobody
    /\ UNCHANGED <<clock, sent, approved>>

\* propose_revision
Revised(tx) ==
    /\ tx \in sent /\ tx.op = "revise" /\ sent' = sent \ {tx}
    /\ contract.state = "Pending" /\ contract'.state = "Pending"
    /\ clock < contract.expiresAt
    /\ tx.read[1] = contract.version
    /\ KeepsParties
    /\ contract'.version = contract.version + 1
    /\ contract'.sigA = Nobody /\ contract'.sigB = Nobody
    /\ UNCHANGED <<clock, approved>>

\* sign_agreement, by either party; the second signature executes.
Given(w) == Signature(w, contract.version, contract.content, contract.terms)
Signed(w) ==
    /\ contract.state = "Pending"
    /\ clock < contract.expiresAt
    /\ KeepsParties /\ KeepsDocument
    /\ \/ /\ w = contract.partyA
          /\ contract.sigA = Nobody /\ contract'.sigA = Given(w)
          /\ contract'.sigB = contract.sigB
          /\ contract'.state = IF contract.sigB = Nobody THEN "Pending" ELSE "Executed"
          /\ contract.sigB # Nobody => contract'.executedAt = clock
       \/ /\ w = contract.partyB
          /\ contract.sigB = Nobody /\ contract'.sigB = Given(w)
          /\ contract'.sigA = contract.sigA
          /\ contract'.state = IF contract.sigA = Nobody THEN "Pending" ELSE "Executed"
          /\ contract.sigA # Nobody => contract'.executedAt = clock
    /\ Document \in approved'[w]
    /\ \A v \in Wallets : approved[v] \subseteq approved'[v]
    /\ sent' \subseteq sent
    /\ UNCHANGED clock

\* cancel_agreement
Cancelled ==
    /\ contract.state = "Pending"
    /\ contract' = [contract EXCEPT !.state = "Cancelled"]
    /\ UNCHANGED <<clock, sent, approved>>

\* A client builds a transaction from the account as it is.
Asked(tx) ==
    /\ contract.state # "Absent"
    /\ tx.read = Document
    /\ tx.op = "sign" =>
        /\ tx.content = contract.content /\ tx.terms = contract.terms
        /\ Document \in approved'[tx.by]
    /\ sent' = sent \cup {tx}
    /\ \A v \in Wallets : approved[v] \subseteq approved'[v]
    /\ UNCHANGED <<contract, clock>>

\* A transaction is lost, or time passes.
Waited ==
    /\ sent' \subseteq sent
    /\ clock' >= clock
    /\ UNCHANGED <<contract, approved>>

Negotiated ==
    \/ Created
    \/ \E tx \in sent : Revised(tx)
    \/ \E w \in Wallets : Signed(w)
    \/ Cancelled
    \/ \E tx \in Transactions : Asked(tx)
    \/ Waited
-----------------------------------------------------------------------------
LEMMA DocumentType ==
    ASSUME TypeOK
    PROVE  Document \in Documents
  BY DEF TypeOK, Contracts, Document, Documents

LEMMA Fields ==
    ASSUME TypeOK
    PROVE  /\ contract.state \in {"Absent", "Pending", "Executed", "Cancelled"}
           /\ contract.partyA \in Wallets \cup {Nobody}
           /\ contract.partyB \in Wallets \cup {Nobody}
           /\ contract.version \in 0 .. MaxVersion
           /\ contract.content \in Hashes /\ contract.terms \in Hashes
           /\ contract.sigA \in Signatures \cup {Nobody}
           /\ contract.sigB \in Signatures \cup {Nobody}
           /\ contract.expiresAt \in Nat /\ contract.executedAt \in 0 .. MaxTime
           /\ clock \in 0 .. MaxTime
  BY DEF TypeOK, Contracts, Times

\* One EXCEPT of the program for both slots of a signature, seen field by field.
LEMMA SigningStep ==
    ASSUME TypeOK, ClientsOK, Standing, NEW w \in Wallets,
           NEW version, NEW content, NEW terms,
           SignAgreement(w, version, content, terms)
    PROVE  /\ contract' \in Contracts
           /\ version = contract.version /\ content = contract.content
           /\ terms = contract.terms
           /\ contract.state = "Pending" /\ clock < contract.expiresAt
           /\ KeepsParties /\ KeepsDocument /\ clock' = clock
           /\ \/ /\ w = contract.partyA
                 /\ contract.sigA = Nobody /\ contract'.sigA = Given(w)
                 /\ contract'.sigB = contract.sigB
                 /\ contract'.state = IF contract.sigB = Nobody THEN "Pending" ELSE "Executed"
                 /\ contract.sigB # Nobody => contract'.executedAt = clock
              \/ /\ w = contract.partyB
                 /\ contract.sigB = Nobody /\ contract'.sigB = Given(w)
                 /\ contract'.sigA = contract.sigA
                 /\ contract'.state = IF contract.sigA = Nobody THEN "Pending" ELSE "Executed"
                 /\ contract.sigA # Nobody => contract'.executedAt = clock
  <1>1. /\ IsParty(w) /\ contract.state = "Pending" /\ clock < contract.expiresAt
        /\ version = contract.version /\ content = contract.content
        /\ terms = contract.terms /\ clock' = clock
        /\ WithSignature(w, Given(w))
    BY DEF SignAgreement, PendingAndUnexpired, Given
  <1>2. contract.version > 0 /\ contract.partyA # contract.partyB
    BY <1>1 DEF Standing
  <1>3. Given(w) \in Signatures
    <2>1. contract.version \in 1 .. MaxVersion
      BY <1>2, Fields, CommerceAssumption
    <2> QED
      BY <2>1, Fields DEF Given, Signature, Signatures, Times
  <1>4. Given(w) # Nobody
    BY <1>3, SlotAssumption
  <1>5. contract \in Contracts /\ clock \in Times
    BY DEF TypeOK
  <1>6. CASE w = contract.partyA
    <2> DEFINE signed == [contract EXCEPT !.sigA = Given(w)]
    <2>1. /\ contract.sigA = Nobody
          /\ contract' = IF Nobody \in {signed.sigA, signed.sigB} THEN signed
                         ELSE [signed EXCEPT !.state = "Executed", !.executedAt = clock]
      BY <1>1, <1>6 DEF WithSignature
    <2>2. signed \in Contracts /\ signed.sigA = Given(w) /\ signed.sigB = contract.sigB
      BY <1>3, <1>5 DEF Contracts
    <2>3. CASE contract.sigB = Nobody
      <3>1. contract' = signed
        BY <2>1, <2>2, <2>3
      <3> QED
        BY <1>1, <1>5, <1>6, <2>1, <2>2, <2>3, <3>1 DEF Contracts, KeepsParties, KeepsDocument
    <2>4. CASE contract.sigB # Nobody
      <3>1. contract' = [signed EXCEPT !.state = "Executed", !.executedAt = clock]
        BY <1>4, <2>1, <2>2, <2>4
      <3>2. contract' \in Contracts
        BY <1>5, <2>2, <3>1 DEF Contracts
      <3> QED
        BY <1>1, <1>5, <1>6, <2>1, <2>4, <3>1, <3>2 DEF Contracts, KeepsParties, KeepsDocument
    <2> QED
      BY <2>3, <2>4
  <1>7. CASE w # contract.partyA
    <2> DEFINE signed == [contract EXCEPT !.sigB = Given(w)]
    <2>1. /\ contract.sigB = Nobody /\ w = contract.partyB
          /\ contract' = IF Nobody \in {signed.sigA, signed.sigB} THEN signed
                         ELSE [signed EXCEPT !.state = "Executed", !.executedAt = clock]
      BY <1>1, <1>7 DEF WithSignature, IsParty
    <2>2. signed \in Contracts /\ signed.sigB = Given(w) /\ signed.sigA = contract.sigA
      BY <1>3, <1>5 DEF Contracts
    <2>3. CASE contract.sigA = Nobody
      <3>1. contract' = signed
        BY <2>1, <2>2, <2>3
      <3> QED
        BY <1>1, <1>5, <1>7, <2>1, <2>2, <2>3, <3>1 DEF Contracts, KeepsParties, KeepsDocument
    <2>4. CASE contract.sigA # Nobody
      <3>1. contract' = [signed EXCEPT !.state = "Executed", !.executedAt = clock]
        BY <1>4, <2>1, <2>2, <2>4
      <3>2. contract' \in Contracts
        BY <1>5, <2>2, <3>1 DEF Contracts
      <3> QED
        BY <1>1, <1>5, <1>7, <2>1, <2>4, <3>1, <3>2 DEF Contracts, KeepsParties, KeepsDocument
    <2> QED
      BY <2>3, <2>4
  <1> QED
    BY <1>6, <1>7

\* There is no other step, and each keeps the types.
LEMMA StepNegotiates ==
    ASSUME TypeOK, ClientsOK, Standing, \A tx \in sent : InFlight(tx), [Next]_vars
    PROVE  Negotiated /\ TypeOK' /\ ClientsOK'
  <1> DEFINE Goal == Negotiated /\ TypeOK' /\ ClientsOK'
  <1> SUFFICES Goal
    OBVIOUS
  <1>1. contract \in Contracts /\ clock \in Times /\ Document \in Documents
    BY DocumentType DEF TypeOK
  <1>2. ASSUME NEW a \in Negotiators, NEW b \in Negotiators \cup {Nobody}, NEW c \in Hashes,
               NEW t \in TermsHashes, NEW e \in 0 .. MaxTime + 1, Create(a, b, c, t, e)
        PROVE  Goal
    <2>1. /\ contract.state = "Absent" /\ b \notin {Nobody, a}
          /\ contract' = [AbsentContract EXCEPT
                !.state = "Pending", !.partyA = a, !.partyB = b, !.version = 1,
                !.content = c, !.terms = t, !.expiresAt = e]
          /\ UNCHANGED <<clock, sent, approved>>
      BY <1>2 DEF Create, CreateAgreement
    <2>2. a \in Wallets /\ b \in Wallets /\ a # b /\ t \in Hashes /\ e \in Nat
      <3>1. b \notin {Nobody, a}
        BY <2>1
      <3> QED
        BY <3>1, ClientAssumption, CommerceAssumption
    <2>3. 1 \in 0 .. MaxVersion /\ 0 \in Times
      BY CommerceAssumption DEF Times
    <2>4. contract' \in Contracts
      <3>1. contract' = [state |-> "Pending", partyA |-> a, partyB |-> b, version |-> 1,
                         content |-> c, terms |-> t, sigA |-> Nobody, sigB |-> Nobody,
                         expiresAt |-> e, executedAt |-> 0]
        BY <2>1 DEF AbsentContract
      <3> QED
        BY <2>2, <2>3, <3>1 DEF Contracts
    <2>5. Created
      BY <2>1, <2>2 DEF Created, AbsentContract
    <2> QED
      BY <1>1, <2>1, <2>4, <2>5 DEF Negotiated, TypeOK, ClientsOK
  <1>3. ASSUME NEW w \in Negotiators, NEW c \in Hashes, NEW t \in TermsHashes,
               AskToRevise(w, c, t)
        PROVE  Goal
    <2> DEFINE tx == [op |-> "revise", by |-> w, read |-> Document, content |-> c, terms |-> t]
    <2>1. tx \in Transactions
      BY <1>1, ClientAssumption DEF Transactions
    <2>2. Asked(tx) /\ UNCHANGED approved
      BY <1>3 DEF AskToRevise, Send, Asked
    <2> HIDE DEF tx
    <2> QED
      BY <1>1, <2>1, <2>2 DEF Negotiated, TypeOK, ClientsOK, Asked
  <1>4. ASSUME NEW w \in Negotiators, AskToSign(w)
        PROVE  Goal
    <2> DEFINE tx == [op |-> "sign", by |-> w, read |-> Document,
                      content |-> contract.content, terms |-> contract.terms]
    <2>1. tx \in Transactions /\ w \in Wallets
      BY <1>1, ClientAssumption, Fields DEF Transactions
    <2>2. approved' = [approved EXCEPT ![w] = @ \cup {Document}]
      BY <1>4 DEF AskToSign
    <2>3. /\ approved' \in [Wallets -> SUBSET Documents] /\ Document \in approved'[w]
          /\ \A v \in Wallets : approved[v] \subseteq approved'[v]
      BY <1>1, <2>1, <2>2 DEF ClientsOK
    <2>4. Asked(tx)
      BY <1>4, <2>3 DEF AskToSign, Send, Asked
    <2> HIDE DEF tx
    <2> QED
      BY <1>1, <2>1, <2>3, <2>4 DEF Negotiated, TypeOK, ClientsOK, Asked
  <1>5. ASSUME NEW w \in Wallets, SignNow(w)
        PROVE  Goal
    <2>1. /\ SignAgreement(w, contract.version, contract.content, contract.terms)
          /\ approved' = [approved EXCEPT ![w] = @ \cup {Document}]
          /\ sent' = sent
      BY <1>5 DEF SignNow
    <2>2. /\ approved' \in [Wallets -> SUBSET Documents] /\ Document \in approved'[w]
          /\ \A v \in Wallets : approved[v] \subseteq approved'[v]
      BY <1>1, <2>1 DEF ClientsOK
    <2>3. Signed(w) /\ contract' \in Contracts /\ clock' = clock
      BY <2>1, <2>2, SigningStep DEF Signed
    <2> QED
      BY <1>1, <2>1, <2>2, <2>3 DEF Negotiated, TypeOK, ClientsOK
  <1>6. ASSUME NEW w \in Wallets, Cancel(w)
        PROVE  Goal
    <2>1. Cancelled
      BY <1>6 DEF Cancel, CancelAgreement, Cancelled
    <2>2. contract' \in Contracts
      BY <1>1, <2>1 DEF Cancelled, Contracts
    <2> QED
      BY <1>1, <2>1, <2>2 DEF Negotiated, TypeOK, ClientsOK, Cancelled
  <1>7. ASSUME NEW tx \in sent, Land(tx)
        PROVE  Goal
    <2>1. /\ tx \in Transactions /\ tx.by \in Wallets /\ tx.content \in Hashes
          /\ tx.terms \in Hashes /\ tx.read \in Documents
          /\ sent' = sent \ {tx} /\ approved' = approved
      BY <1>7 DEF ClientsOK, Transactions, Land
    <2>2. CASE tx.op = "revise" /\ ProposeRevision(tx.by, tx.read[1], tx.content, tx.terms)
      <3>1. /\ contract.state = "Pending" /\ clock < contract.expiresAt /\ clock' = clock
            /\ tx.read[1] = contract.version /\ contract.version < MaxVersion
            /\ contract' = [contract EXCEPT
                    !.version = @ + 1, !.content = tx.content, !.terms = tx.terms,
                    !.sigA = Nobody, !.sigB = Nobody]
        BY <2>2 DEF ProposeRevision, PendingAndUnexpired, VersionLocked, Replace
      <3>2. contract.version + 1 \in 0 .. MaxVersion
        BY <3>1, Fields, CommerceAssumption
      <3>3. contract' \in Contracts
        BY <1>1, <2>1, <3>1, <3>2 DEF Contracts
      <3>4. Revised(tx)
        BY <1>1, <2>1, <2>2, <3>1 DEF Revised, KeepsParties, Contracts
      <3> QED
        BY <1>1, <2>1, <3>1, <3>3, <3>4 DEF Negotiated, TypeOK, ClientsOK
    <2>3. CASE tx.op = "sign" /\ SignAgreement(tx.by, tx.read[1], tx.content, tx.terms)
      <3>1. InFlight(tx)
        OBVIOUS
      <3>2. tx.read[1] = contract.version /\ Document \in approved[tx.by]
        BY <2>1, <2>3, <3>1, SigningStep DEF InFlight
      <3>3. Signed(tx.by) /\ contract' \in Contracts /\ clock' = clock
        BY <2>1, <2>3, <3>2, SigningStep DEF Signed
      <3> QED
        BY <1>1, <2>1, <3>3 DEF Negotiated, TypeOK, ClientsOK
    <2> QED
      BY <1>7, <2>2, <2>3 DEF Land
  <1>8. ASSUME NEW tx \in sent, Lose(tx)
        PROVE  Goal
    <2>1. Waited
      BY <1>1, <1>8, CommerceAssumption DEF Lose, Waited, Times
    <2> QED
      BY <1>1, <1>8, <2>1 DEF Negotiated, TypeOK, ClientsOK, Lose
  <1>9. ASSUME Tick, UNCHANGED <<sent, approved>>
        PROVE  Goal
    <2>1. Waited /\ clock' \in Times
      BY <1>1, <1>9, CommerceAssumption DEF Tick, Waited, Times
    <2> QED
      BY <1>1, <1>9, <2>1 DEF Negotiated, TypeOK, ClientsOK, Tick
  <1>10. CASE UNCHANGED vars
    <2>1. Waited
      BY <1>1, <1>10, CommerceAssumption DEF vars, Waited, Times
    <2> QED
      BY <1>1, <1>10, <2>1 DEF Negotiated, TypeOK, ClientsOK, vars
  <1> HIDE DEF Goal
  <1> QED
    BY <1>2, <1>3, <1>4, <1>5, <1>6, <1>7, <1>8, <1>9, <1>10 DEF Next
-----------------------------------------------------------------------------
(* The invariant. *)

LEMMA NegotiationInit == Init => NegotiationInv
  <1> SUFFICES ASSUME Init PROVE NegotiationInv
    OBVIOUS
  <1>1. contract = AbsentContract /\ clock = 0 /\ sent = {} /\ approved = [w \in Wallets |-> {}]
    BY DEF Init, CommerceInit
  <1>2. 0 \in Times /\ 0 \in 0 .. MaxVersion
    BY CommerceAssumption DEF Times
  <1>3. TypeOK
    BY <1>1, <1>2, CommerceAssumption DEF TypeOK, AbsentContract, Contracts
  <1>4. ClientsOK
    BY <1>1 DEF ClientsOK
  <1>5. Standing /\ contract.sigA = Nobody /\ contract.sigB = Nobody
    BY <1>1 DEF Standing, AbsentContract
  <1> QED
    BY <1>1, <1>3, <1>4, <1>5 DEF NegotiationInv, Slot

\* A slot that is left alone, under a document that is left alone.
LEMMA SlotKept ==
    ASSUME TypeOK, TypeOK', NEW sig \in Signatures \cup {Nobody}, NEW party, Slot(sig, party),
           KeepsDocument, contract'.expiresAt = contract.expiresAt, clock' >= clock,
           party \in Wallets => approved[party] \subseteq approved'[party],
           sig # Nobody => party \in Wallets
    PROVE  sig # Nobody =>
              /\ sig.signer = party
              /\ sig.version = contract'.version
              /\ sig.content = contract'.content /\ sig.terms = contract'.terms
              /\ sig.signedAt < contract'.expiresAt
              /\ sig.signedAt <= clock'
              /\ Document' \in approved'[party]
  <1> SUFFICES ASSUME sig # Nobody
               PROVE  /\ sig.signer = party
                      /\ sig.version = contract'.version
                      /\ sig.content = contract'.content /\ sig.terms = contract'.terms
                      /\ sig.signedAt < contract'.expiresAt
                      /\ sig.signedAt <= clock'
                      /\ Document' \in approved'[party]
    OBVIOUS
  <1>1. Document' = Document
    BY DEF KeepsDocument, Document
  <1>2. sig.signedAt \in 0 .. MaxTime /\ clock \in 0 .. MaxTime /\ clock' \in 0 .. MaxTime
    BY Fields DEF Signatures, TypeOK, Times
  <1>3. sig.signedAt <= clock'
    BY <1>2, CommerceAssumption DEF Slot
  <1> QED
    BY <1>1, <1>3 DEF Slot, KeepsDocument

\* A transaction in flight, over a document that is left alone.
LEMMA FlightKept ==
    ASSUME NEW tx, InFlight(tx), KeepsDocument, tx.by \in Wallets,
           \A v \in Wallets : approved[v] \subseteq approved'[v]
    PROVE  /\ tx.read[1] <= contract'.version
           /\ tx.read[1] = contract'.version => tx.read = Document'
           /\ tx.op = "sign" =>
                /\ tx.content = tx.read[2] /\ tx.terms = tx.read[3]
                /\ tx.read \in approved'[tx.by]
  <1>1. Document' = Document /\ contract'.version = contract.version
    BY DEF KeepsDocument, Document
  <1> QED
    BY <1>1 DEF InFlight

LEMMA NegotiationStep == NegotiationInv /\ [Next]_vars => NegotiationInv'
  <1> SUFFICES ASSUME NegotiationInv, [Next]_vars PROVE NegotiationInv'
    OBVIOUS
  <1>1. /\ TypeOK /\ ClientsOK /\ Standing /\ \A tx \in sent : InFlight(tx)
        /\ Slot(contract.sigA, contract.partyA) /\ Slot(contract.sigB, contract.partyB)
    BY DEF NegotiationInv
  <1>2. Negotiated /\ TypeOK' /\ ClientsOK'
    BY <1>1, StepNegotiates
  <1> DEFINE Kept == /\ Standing' /\ \A tx \in sent' : InFlight(tx)'
                     /\ Slot(contract.sigA, contract.partyA)'
                     /\ Slot(contract.sigB, contract.partyB)'
  <1> SUFFICES Kept
    BY <1>2 DEF NegotiationInv
  <1>3. \A tx \in sent : tx.by \in Wallets /\ tx.read[1] \in Nat
    BY <1>1, CommerceAssumption DEF ClientsOK, Transactions, Documents
  <1>4. contract.version \in Nat /\ clock \in Nat
    BY <1>1, Fields, CommerceAssumption
  <1>5. /\ contract.sigA # Nobody => contract.partyA \in Wallets
        /\ contract.sigB # Nobody => contract.partyB \in Wallets
    BY <1>1, Fields DEF Standing
  <1>6. contract.sigA \in Signatures \cup {Nobody} /\ contract.sigB \in Signatures \cup {Nobody}
    BY <1>1, Fields
  <1>7. CASE Created
    BY <1>1, <1>7 DEF Created, Standing, Slot
  <1>8. ASSUME NEW tx \in sent, Revised(tx) PROVE Kept
    <2>1. Standing' /\ Slot(contract.sigA, contract.partyA)' /\ Slot(contract.sigB, contract.partyB)'
      BY <1>1, <1>4, <1>8 DEF Revised, Standing, Slot, KeepsParties
    <2>2. ASSUME NEW t \in sent' PROVE InFlight(t)'
      <3>1. t \in sent /\ InFlight(t) /\ t.read[1] \in Nat
        BY <1>1, <1>3, <1>8, <2>2 DEF Revised
      <3>2. t.read[1] < contract'.version
        BY <1>4, <1>8, <3>1 DEF Revised, InFlight
      <3> QED
        BY <1>4, <1>8, <3>1, <3>2 DEF Revised, InFlight
    <2> QED
      BY <2>1, <2>2
  <1>9. ASSUME KeepsDocument, KeepsParties, clock' >= clock,
               \A v \in Wallets : approved[v] \subseteq approved'[v]
        PROVE  /\ \A tx \in sent : InFlight(tx)'
               /\ contract'.sigA = contract.sigA => Slot(contract.sigA, contract.partyA)'
               /\ contract'.sigB = contract.sigB => Slot(contract.sigB, contract.partyB)'
    <2>1. \A tx \in sent : InFlight(tx)'
      BY <1>1, <1>3, <1>9, FlightKept DEF InFlight
    <2>2. contract'.sigA = contract.sigA => Slot(contract.sigA, contract.partyA)'
      BY <1>1, <1>2, <1>5, <1>6, <1>9, SlotKept DEF Slot, KeepsParties
    <2>3. contract'.sigB = contract.sigB => Slot(contract.sigB, contract.partyB)'
      BY <1>1, <1>2, <1>5, <1>6, <1>9, SlotKept DEF Slot, KeepsParties
    <2> QED
      BY <2>1, <2>2, <2>3
  <1>10. ASSUME NEW w \in Wallets, Signed(w) PROVE Kept
    <2>1. /\ KeepsDocument /\ KeepsParties /\ clock' = clock /\ clock' >= clock
          /\ \A v \in Wallets : approved[v] \subseteq approved'[v]
          /\ sent' \subseteq sent /\ contract.state = "Pending"
          /\ clock < contract.expiresAt /\ Document \in approved'[w]
      BY <1>4, <1>10 DEF Signed
    <2>2. /\ \A tx \in sent : InFlight(tx)'
          /\ contract'.sigA = contract.sigA => Slot(contract.sigA, contract.partyA)'
          /\ contract'.sigB = contract.sigB => Slot(contract.sigB, contract.partyB)'
      BY <1>9, <2>1
    <2>3. /\ Given(w).signer = w /\ Given(w).version = contract.version
          /\ Given(w).content = contract.content /\ Given(w).terms = contract.terms
          /\ Given(w).signedAt = clock
      BY DEF Given, Signature
    <2>4. Document' = Document
      BY <2>1 DEF Document, KeepsDocument
    <2>5. Given(w) # Nobody
      <3>1. contract.version \in 1 .. MaxVersion
        BY <1>1, <2>1, Fields, CommerceAssumption DEF Standing
      <3>2. Given(w) \in Signatures
        BY <1>1, <3>1, Fields DEF Given, Signature, Signatures, Times
      <3> QED
        BY <3>2, SlotAssumption
    <2>6. /\ contract'.sigA = Given(w) /\ w = contract.partyA =>
                Slot(contract.sigA, contract.partyA)'
          /\ contract'.sigB = Given(w) /\ w = contract.partyB =>
                Slot(contract.sigB, contract.partyB)'
      BY <1>4, <2>1, <2>3, <2>4 DEF Slot, KeepsDocument, KeepsParties
    <2>7. Slot(contract.sigA, contract.partyA)' /\ Slot(contract.sigB, contract.partyB)'
      BY <1>10, <2>2, <2>6 DEF Signed
    <2>8. Standing'
      <3>1. /\ contract'.partyA \in Wallets /\ contract'.partyB \in Wallets
            /\ contract'.partyA # contract'.partyB /\ contract'.version > 0
        BY <1>1, <2>1 DEF Standing, KeepsParties, KeepsDocument
      <3>2. CASE contract'.state = "Pending"
        BY <1>10, <3>1, <3>2 DEF Standing, Signed
      <3>3. CASE contract'.state = "Executed"
        <4>1. /\ contract'.sigA # Nobody /\ contract'.sigB # Nobody
              /\ contract'.executedAt = clock
              /\ contract'.sigA.signedAt = clock \/ contract'.sigB.signedAt = clock
          BY <1>10, <2>3, <2>5, <3>3 DEF Signed
        <4>2. contract'.sigA.signedAt <= clock /\ contract'.sigB.signedAt <= clock
          BY <2>1, <2>7, <4>1 DEF Slot
        <4> QED
          BY <3>1, <3>3, <4>1, <4>2 DEF Standing
      <3> QED
        BY <1>10, <3>2, <3>3 DEF Signed
    <2> QED
      BY <2>1, <2>2, <2>7, <2>8
  <1>11. CASE Cancelled
    <2>1. contract \in Contracts
      BY <1>1 DEF TypeOK
    <2>2. /\ KeepsDocument /\ KeepsParties /\ contract'.sigA = contract.sigA
          /\ contract'.sigB = contract.sigB /\ contract'.state = "Cancelled"
      BY <1>11, <2>1 DEF Cancelled, KeepsDocument, KeepsParties, Contracts
    <2>3. clock' >= clock /\ sent' = sent /\ approved' = approved /\ contract.state = "Pending"
      BY <1>4, <1>11 DEF Cancelled
    <2>4. Standing'
      BY <1>1, <2>2, <2>3 DEF Standing, KeepsParties, KeepsDocument
    <2> QED
      BY <1>9, <2>2, <2>3, <2>4
  <1>12. ASSUME NEW tx \in Transactions, Asked(tx) PROVE Kept
    <2>1. /\ KeepsDocument /\ KeepsParties /\ clock' >= clock /\ contract' = contract
          /\ \A v \in Wallets : approved[v] \subseteq approved'[v]
      BY <1>4, <1>12 DEF Asked, KeepsDocument, KeepsParties
    <2>2. InFlight(tx)'
      <3>1. /\ Document[1] = contract.version /\ Document[2] = contract.content
            /\ Document[3] = contract.terms /\ Document' = Document
        BY <2>1 DEF Document
      <3> QED
        BY <1>4, <1>12, <2>1, <3>1 DEF Asked, InFlight
    <2>3. Standing'
      BY <1>1, <1>12 DEF Standing, Asked
    <2> QED
      BY <1>9, <1>12, <2>1, <2>2, <2>3 DEF Asked
  <1>13. CASE Waited
    <2>1. /\ KeepsDocument /\ KeepsParties /\ clock' >= clock /\ contract' = contract
          /\ sent' \subseteq sent /\ approved' = approved
      BY <1>13 DEF Waited, KeepsDocument, KeepsParties
    <2>2. Standing'
      BY <1>1, <2>1 DEF Standing
    <2> QED
      BY <1>9, <2>1, <2>2
  <1> HIDE DEF Kept
  <1> QED
    BY <1>2, <1>7, <1>8, <1>10, <1>11, <1>12, <1>13 DEF Negotiated

LEMMA NegotiationAlways == Spec => []NegotiationInv
  BY NegotiationInit, NegotiationStep, PTL DEF Spec
-----------------------------------------------------------------------------
LEMMA BothSigned ==
    ASSUME NegotiationInv, contract.state = "Executed"
    PROVE  /\ contract.sigA # Nobody /\ contract.sigB # Nobody
           /\ contract.sigA.signer = contract.partyA
           /\ contract.sigB.signer = contract.partyB
           /\ contract.partyA # contract.partyB
           /\ Document \in approved[contract.partyA]
           /\ Document \in approved[contract.partyB]
  BY DEF NegotiationInv, Standing, Slot

\* The account and the clock have their types, whatever the clients send.
THEOREM AccountIsTyped == Spec => []TypeOK
  <1>1. NegotiationInv => TypeOK
    BY DEF NegotiationInv
  <1> QED
    BY <1>1, NegotiationAlways, PTL

\* docs/invariants.md, 19 and 20: signatures on the account are their owners', current and
\* in time, and execution is exactly the second one.
THEOREM SignaturesStayCurrent == Spec => []SignaturesAreCurrent
  <1>1. NegotiationInv => SignaturesAreCurrent
    <2> SUFFICES ASSUME NegotiationInv PROVE SignaturesAreCurrent
      OBVIOUS
    <2> DEFINE given == {contract.sigA, contract.sigB} \ {Nobody}
    <2>1. Standing /\ Slot(contract.sigA, contract.partyA) /\ Slot(contract.sigB, contract.partyB)
      BY DEF NegotiationInv
    <2>2. ASSUME contract.state = "Executed"
          PROVE  /\ Cardinality(given) = 2
                 /\ \E sig \in given : sig.signedAt = contract.executedAt
                 /\ \A sig \in given : sig.signedAt <= contract.executedAt
      <3>1. /\ contract.sigA # Nobody /\ contract.sigB # Nobody
            /\ contract.sigA # contract.sigB
        BY <2>2, BothSigned
      <3>2. given = {contract.sigA} \cup {contract.sigB}
        BY <3>1
      <3>3. IsFiniteSet({contract.sigA}) /\ Cardinality({contract.sigA}) = 1
        BY FS_Singleton
      <3>4. Cardinality({contract.sigA} \cup {contract.sigB}) = 1 + 1
        BY <3>1, <3>3, FS_AddElement
      <3> QED
        BY <2>1, <2>2, <3>2, <3>4 DEF Standing
    <2> QED
      BY <2>1, <2>2 DEF SignaturesAreCurrent, Standing, Slot, Document
  <1> QED
    BY <1>1, NegotiationAlways, PTL

\* Both parties to an executed agreement had read the very document that it executes.
THEOREM NobodyIsEverBoundUnseen == Spec => []NobodyIsBoundUnseen
  <1>1. NegotiationInv => NobodyIsBoundUnseen
    BY BothSigned DEF NobodyIsBoundUnseen
  <1> QED
    BY <1>1, NegotiationAlways, PTL

\* A revision that takes effect replaces the document that its proposer had read.
THEOREM UpdatesAreNeverLost == Spec => NoLostUpdate
  <1>1. ASSUME NegotiationInv, [Next]_vars, contract'.version > contract.version,
               contract.version > 0
        PROVE  \E tx \in sent \ sent' : tx.op = "revise" /\ tx.read = Document
    <2>1. /\ TypeOK /\ ClientsOK /\ Standing /\ \A tx \in sent : InFlight(tx)
      BY <1>1 DEF NegotiationInv
    <2>2. Negotiated
      BY <1>1, <2>1, StepNegotiates
    <2>3. contract.version \in Nat /\ contract \in Contracts
      BY <2>1, Fields, CommerceAssumption DEF TypeOK
    <2>4. ~ Created
      BY <1>1, <2>1, <2>3 DEF Created, Standing
    <2>5. ASSUME contract'.version = contract.version PROVE FALSE
      BY <1>1, <2>3, <2>5
    <2>6. ~ Cancelled
      <3>1. Cancelled => contract'.version = contract.version
        BY <2>3 DEF Cancelled, Contracts
      <3> QED
        BY <2>5, <3>1
    <2>7. PICK tx \in sent : Revised(tx)
      BY <2>2, <2>4, <2>5, <2>6 DEF Negotiated, Signed, KeepsDocument, Asked, Waited
    <2>8. tx \in sent \ sent' /\ tx.op = "revise" /\ tx.read = Document
      BY <2>1, <2>7 DEF Revised, InFlight
    <2> QED
      BY <2>8
  <1> QED
    BY <1>1, NegotiationAlways, PTL DEF Spec, NoLostUpdate

\* An executed or cancelled agreement never changes; an expired one can only be cancelled.
LEMMA ClosedStep ==
    ASSUME NegotiationInv, [Next]_vars
    PROVE  /\ contract.state \in {"Executed", "Cancelled"} => contract' = contract
           /\ contract.state = "Pending" /\ clock >= contract.expiresAt =>
                contract' \in {contract, [contract EXCEPT !.state = "Cancelled"]}
  <1>1. /\ TypeOK /\ ClientsOK /\ Standing /\ \A tx \in sent : InFlight(tx)
    BY DEF NegotiationInv
  <1>2. Negotiated
    BY <1>1, StepNegotiates
  <1>3. clock \in Nat /\ contract.expiresAt \in Nat
    BY <1>1, Fields, CommerceAssumption
  <1> QED
    BY <1>2, <1>3 DEF Negotiated, Created, Revised, Signed, Cancelled, Asked, Waited

THEOREM ClosedStaysClosedForever == Spec => ClosedStaysClosed
  <1>1. ASSUME NegotiationInv, [Next]_vars
        PROVE  /\ contract.state \in {"Executed", "Cancelled"} => UNCHANGED contract
               /\ contract.state = "Pending" /\ clock >= contract.expiresAt =>
                    contract' \in {contract, [contract EXCEPT !.state = "Cancelled"]}
    BY <1>1, ClosedStep
  <1> QED
    BY <1>1, NegotiationAlways, PTL DEF Spec, ClosedStaysClosed

\* What verifyTermsBinding finds bound stays bound, to a document both parties had read.
THEOREM BindingsAreForGood == Spec => BindingIsForGood
  <1>1. ASSUME NegotiationInv, [Next]_vars, NEW e \in Escrows, VerifyTermsBinding(e, contract)
        PROVE  /\ \A f \in EscrowMovesTo(e) : VerifyTermsBinding(f, contract')
               /\ Document' = Document
               /\ \A w \in {e.creator, e.counterparty} : Document \in approved[w]
    <2>1. contract.state = "Executed" /\ SameParties(e, contract)
      BY <1>1 DEF VerifyTermsBinding
    <2>2. contract' = contract
      BY <1>1, <2>1, ClosedStep
    <2>3. contract.partyA \in Wallets /\ contract.partyB \in Wallets
      BY <1>1, <2>1 DEF NegotiationInv, Standing
    <2>4. e.counterparty # Nobody
      BY <2>1, <2>3, CommerceAssumption DEF SameParties
    <2>5. \A f \in EscrowMovesTo(e) : f = e
      BY <2>4 DEF EscrowMovesTo
    <2>6. \A w \in {e.creator, e.counterparty} : Document \in approved[w]
      BY <1>1, <2>1, BothSigned DEF SameParties
    <2> QED
      BY <1>1, <2>2, <2>5, <2>6 DEF Document
  <1> DEFINE Stays(e) ==
                VerifyTermsBinding(e, contract) =>
                    /\ \A f \in EscrowMovesTo(e) : VerifyTermsBinding(f, contract')
                    /\ Document' = Document
                    /\ \A w \in {e.creator, e.counterparty} : Document \in approved[w]
  <1>2. NegotiationInv /\ [Next]_vars => \A e \in Escrows : Stays(e)
    BY <1>1
  <1> QED
    BY <1>2, NegotiationAlways, PTL DEF Spec, BindingIsForGood
=============================================================================
