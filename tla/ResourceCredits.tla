--------------------------- MODULE ResourceCredits ---------------------------
(***************************************************************************)
(* contracts/resource_credits: an internal credit that the administrator   *)
(* mints and members transfer and spend.  An action is an invocation that  *)
(* succeeds.                                                               *)
(***************************************************************************)
EXTENDS LedgerBase, UnitSums

CONSTANTS CreditAmounts, MaxSupply  \* MaxSupply is a bound

ASSUME CreditAmountsAssumption == CreditAmounts \subseteq Int

VARIABLES
    creditsAdmin,  \* DataKey Admin, None before initialize
    credit,        \* DataKey Balance
    supply         \* DataKey TotalSupply

creditVars == <<creditsAdmin, credit, supply>>

CreditsInit ==
    /\ creditsAdmin = None /\ supply = 0
    /\ credit = [a \in Accounts |-> 0]

Initialize(admin) ==
    /\ creditsAdmin = None
    /\ creditsAdmin' = admin /\ supply' = 0
    /\ UNCHANGED credit

MintCredits(a, amount) ==
    /\ creditsAdmin # None /\ amount > 0
    /\ supply + amount <= MaxSupply
    /\ credit' = [credit EXCEPT ![a] = @ + amount]
    /\ supply' = supply + amount
    /\ UNCHANGED creditsAdmin

\* The balance of the recipient is read after the sender's was written.
Credited(from, to, amount) ==
    LET debited == [credit EXCEPT ![from] = @ - amount] IN
    [debited EXCEPT ![to] = @ + amount]

TransferCredits(from, to, amount) ==
    /\ amount > 0 /\ credit[from] >= amount
    /\ credit' = Credited(from, to, amount)
    /\ UNCHANGED <<creditsAdmin, supply>>

SpendCredits(a, amount) ==
    /\ amount > 0 /\ credit[a] >= amount
    /\ credit' = [credit EXCEPT ![a] = @ - amount]
    /\ supply' = supply - amount
    /\ UNCHANGED creditsAdmin

CreditsNext ==
    \/ \E a \in Accounts : Initialize(a)
    \/ \E a, b \in Accounts, n \in CreditAmounts :
          MintCredits(a, n) \/ TransferCredits(a, b, n) \/ SpendCredits(a, n)

CreditsSpec == CreditsInit /\ [][CreditsNext]_creditVars

-----------------------------------------------------------------------------
\* Balances are never negative, and there are none before the contract is
\* initialised; the supply is the sum of the balances after any sequence of
\* mints, transfers (to oneself too) and spends.
SupplyIsSum ==
    /\ credit \in [Accounts -> Nat]
    /\ creditsAdmin = None => supply = 0
    /\ supply = Total(Accounts, credit)
=============================================================================
