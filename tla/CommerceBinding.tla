-------------------------- MODULE CommerceBinding --------------------------
(***************************************************************************)
(* verifyTermsBinding: is this escrow the one that funds that negotiated   *)
(* contract?  It reads two accounts of two programs, neither of which      *)
(* reads the other's, and its caller acts on the verdict later, when       *)
(* either account may have moved on: the contract as ppv_commerce lets it, *)
(* the escrow as ppv_escrow lets it.                                       *)
(***************************************************************************)
EXTENDS CommerceClients

\* Of an EscrowAgreementAccount: both parties and the terms.  An unclaimed bounty
\* has no counterparty.
Escrows ==
    {e \in [creator : Wallets, counterparty : Wallets \cup {Nobody}, termsHash : Hashes] :
        e.creator # e.counterparty /\ NonZero(e.termsHash)}

\* What one instruction of ppv_escrow can make of them: only select_counterparty
\* writes one, and only while there is none.
EscrowMovesTo(e) ==
    {e} \cup {f \in Escrows : /\ e.counterparty = Nobody
                              /\ f = [e EXCEPT !.counterparty = f.counterparty]}

\* Broken: one party in common will do.
SameParties_One(e, c) == {e.creator, e.counterparty} \cap {c.partyA, c.partyB} # {}

SameParties(e, c) == {e.creator, e.counterparty} \subseteq {c.partyA, c.partyB}

\* A signature for what the contract says now, by one of its parties.
SignsCurrent(signature, c) ==
    /\ signature # Nobody
    /\ signature.version = c.version
    /\ signature.terms = c.terms
    /\ signature.content = c.content
    /\ signature.signer \in {c.partyA, c.partyB}

VerifyTermsBinding(e, c) ==
    /\ c.terms = e.termsHash
    /\ c.state = "Executed"
    /\ SameParties(e, c)
    /\ e.creator # e.counterparty
    /\ SignsCurrent(c.sigA, c) /\ SignsCurrent(c.sigB, c)
    /\ c.sigA.signer # c.sigB.signer
-----------------------------------------------------------------------------
\* A verdict is worth acting on: an escrow that is found bound stays bound to the same
\* document whatever either program does next - so it makes no difference that the
\* two accounts were not read at one moment - and both its parties, the one who
\* pays and the one who is paid, had read that document and agreed to sign it.
BindingIsForGood ==
    [][\A e \in Escrows :
        VerifyTermsBinding(e, contract) =>
            /\ \A f \in EscrowMovesTo(e) : VerifyTermsBinding(f, contract')
            /\ Document' = Document
            /\ \A w \in {e.creator, e.counterparty} : Document \in approved[w]]_vars
=============================================================================
