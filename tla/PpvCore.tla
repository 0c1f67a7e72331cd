------------------------------ MODULE PpvCore ------------------------------
(***************************************************************************)
(* ppv_core: the protocol's only proof primitive.  A proof record lives at *)
(* an address derived from the wallet that made the commitment and a       *)
(* 16-byte id that the caller chooses; it is created once, may be revoked  *)
(* once by its author, and is never closed.                                *)
(*                                                                         *)
(* The address <<authority, id>> stands for the PDA derived from those     *)
(* seeds, so a record's `authority` and `proof_id` fields are its address. *)
(* Hashes are members of a small set; timestamps and the proof kind are    *)
(* left out.                                                               *)
(***************************************************************************)
EXTENDS Naturals

CONSTANTS
    Wallets,    \* the keys that can sign a transaction
    ProofIds,   \* the 16-byte ids
    Hashes,     \* SHA-256 values, the all-zero one included
    ZeroHash    \* [0; 32]

ASSUME ZeroHashAssumption == ZeroHash \in Hashes

VARIABLE record     \* record[addr]: the ProofRecord account at addr

Addresses == Wallets \X ProofIds

ProofStatus == {"Active", "Revoked"}

\* An account that was never initialised, and the accounts `init` can write.
AbsentRecord == [status |-> "Absent", content |-> ZeroHash]

Records ==
    [status : ProofStatus, content : Hashes \ {ZeroHash}] \cup {AbsentRecord}

NonZero(hash) == hash \in Hashes \ {ZeroHash}

Exists(addr) == record[addr].status # "Absent"

CoreInit == record = [addr \in Addresses |-> AbsentRecord]

\* create_proof: `init` fails on an address that already holds an account.
CreateProof(authority, id, content) ==
    /\ ~Exists(<<authority, id>>)
    /\ NonZero(content)
    /\ record' = [record EXCEPT ![<<authority, id>>] =
                    [status |-> "Active", content |-> content]]

\* revoke_proof: seeds and has_one pin the account to its own authority.
RevokeProof(signer, addr) ==
    /\ Exists(addr)
    /\ signer = addr[1]
    /\ record[addr].status = "Active"
    /\ record' = [record EXCEPT ![addr].status = "Revoked"]

CoreCall(w) ==
    \/ \E id \in ProofIds, h \in Hashes : CreateProof(w, id, h)
    \/ \E addr \in Addresses : RevokeProof(w, addr)

CoreTypeOK == record \in [Addresses -> Records]
=============================================================================
