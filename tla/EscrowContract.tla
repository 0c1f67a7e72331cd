--------------------------- MODULE EscrowContract ---------------------------
(***************************************************************************)
(* What the two parties to an agreement rely on, with no word of how       *)
(* agreements are typed, staged, disputed or evidenced.  Money that the    *)
(* buyer deposits leaves again only for the buyer's purse or that of the   *)
(* one payee ever named, and all of it does before the contract is over.   *)
(***************************************************************************)
EXTENDS Naturals

CONSTANTS Agreements, Wallets, CreatorOf, Default

VARIABLES
    stage,  \* stage[a]: "unfunded", "holding" or "over"
    payee,  \* payee[a]: who may be paid, Default until named
    held,   \* held[a]: what the contract still holds for the two
    purse   \* purse[w]: what each wallet has

contractVars == <<stage, payee, held, purse>>

ContractInit ==
    /\ stage = [a \in Agreements |-> "unfunded"]
    /\ payee = [a \in Agreements |-> Default]
    /\ held = [a \in Agreements |-> 0]
    /\ purse \in [Wallets \cup {Default} -> Nat]

NamePayee(a, w) ==
    /\ stage[a] # "over"
    /\ payee[a] = Default
    /\ w # CreatorOf[a]
    /\ payee' = [payee EXCEPT ![a] = w]
    /\ UNCHANGED <<stage, held, purse>>

Deposit(a, n) ==
    /\ stage[a] = "unfunded"
    /\ stage' = [stage EXCEPT ![a] = "holding"]
    /\ held' = [held EXCEPT ![a] = n]
    /\ purse' = [purse EXCEPT ![CreatorOf[a]] = @ - n]
    /\ UNCHANGED payee

Abandon(a) ==
    /\ stage[a] = "unfunded"
    /\ stage' = [stage EXCEPT ![a] = "over"]
    /\ UNCHANGED <<payee, held, purse>>

\* Part of what is held, always to the payee.
PayTranche(a, n) ==
    /\ stage[a] = "holding"
    /\ payee[a] # Default
    /\ held' = [held EXCEPT ![a] = @ - n]
    /\ purse' = [purse EXCEPT ![payee[a]] = @ + n]
    /\ UNCHANGED <<stage, payee>>

\* All that is left, to one of the two.
Conclude(a, w) ==
    /\ stage[a] = "holding"
    /\ payee[a] # Default
    /\ w \in {CreatorOf[a], payee[a]}
    /\ stage' = [stage EXCEPT ![a] = "over"]
    /\ held' = [held EXCEPT ![a] = 0]
    /\ purse' = [purse EXCEPT ![w] = @ + held[a]]
    /\ UNCHANGED payee

\* Wallets also spend on their own account.
Spend(w, n) ==
    /\ purse' = [purse EXCEPT ![w] = @ - n]
    /\ UNCHANGED <<stage, payee, held>>

ContractNext ==
    \/ \E a \in Agreements :
        \/ \E w \in Wallets : NamePayee(a, w)
        \/ \E n \in 1 .. purse[CreatorOf[a]] : Deposit(a, n)
        \/ Abandon(a)
        \/ \E n \in 1 .. held[a] - 1 : PayTranche(a, n)
        \/ \E w \in Wallets : Conclude(a, w)
    \/ \E w \in Wallets : \E n \in 1 .. purse[w] : Spend(w, n)

ContractSpec == ContractInit /\ [][ContractNext]_contractVars
=============================================================================
