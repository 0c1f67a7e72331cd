------------------------ MODULE MCCustodyGovernance ------------------------
(* Three custody signers, one of whom also governs the other programs, and another signer *)
(* of those.  Either the ceremony runs or a multisig of another make comes and goes: they *)
(* meet only in what is verified, which is read from one address at a time.               *)
EXTENDS CustodyGovernance

CONSTANTS k1, k2, o1

Treasury == "58kuGbxpvaamvYE44WYkyipBB6FVKt2qT9u3vAKtyKYV"
MCPeople == ToSet(CUSTODY_MEMBERS) \cup {Treasury}
KeySymmetry == Permutations(CreateKeys)

CeremonyOnly == \A o \in Others : live[o] = None
OtherOnly ==
    /\ runs = 0
    /\ \A o \in Others :
        live[o] # None => live[o].configAuthority \in {None, Treasury, CUSTODY_MEMBERS[1]}

MCSpec == Init /\ [][Next /\ (CeremonyOnly \/ OtherOnly)']_vars
=============================================================================
