----------------------------- MODULE EscrowClient ----------------------------
(***************************************************************************)
(* SorobanEscrowProvider: the calls by which the backend creates, releases *)
(* and refunds escrows of contracts/payment_escrow.  All of them sign with *)
(* the one account of the platform, whose sequence number orders its       *)
(* transactions on the ledger.  A call reads that number, simulates, sends *)
(* and asks for the outcome for thirty seconds; its transaction stays      *)
(* valid for ten minutes.  Ledger and contract are those of PaymentEscrow, *)
(* seen from here: amounts, fees and authorisations are left out, and only *)
(* the platform and the beneficiary act.                                   *)
(***************************************************************************)
EXTENDS Naturals, FiniteSets

CONSTANTS
    EscrowCallers,     \* requests of the backend that call the provider
    EscrowIds,         \* ids of bookings, which are the ids of their escrows
    StellarNetworks,   \* SUBSET {"unset", "public", "known"}, the configurations
    BuildTimes,        \* seconds in which transactions are built
    MaxEscrowCalls     \* bound on the calls of a request

VARIABLES
    stellarNetwork,    \* STELLAR_NETWORK and the three variables that go with it
    sequence,          \* of the platform's account on the ledger
    pool,              \* transactions the network accepted and has not applied
    applied,           \* transactions of the ledger, and whether they succeeded
    onChain,           \* EscrowIds -> status of the contract's record
    rpcCalls,          \* EscrowCallers -> the call under way or the last one
    escrowNoted,       \* bookings.sorobanEscrowId: the transaction, whose hash it is
    unsure             \* [fn, id] of the calls that failed after they had sent

escrowClientVars == <<stellarNetwork, sequence, pool, applied, onChain, rpcCalls,
                      escrowNoted, unsure>>
ledgerState == <<sequence, pool, applied, onChain>>
backendState == <<rpcCalls, escrowNoted, unsure>>

Mutations == {"create_escrow", "release", "refund"}
NoTransaction == [fn |-> "none", id |-> "none", seq |-> 0, at |-> 0]
NoRpc == [pc |-> "idle", fn |-> "none", id |-> "none", read |-> 0, tx |-> NoTransaction,
          answer |-> "none", made |-> 0]

\* validate accepts an alias or a passphrase of its own table.  The one it has
\* for PUBLIC is not the network's, and the network's is not in the table.
EscrowClientInit ==
    /\ stellarNetwork \in StellarNetworks
    /\ sequence = 0 /\ pool = {} /\ applied = {}
    /\ onChain = [id \in EscrowIds |-> "none"]
    /\ rpcCalls = [w \in EscrowCallers |-> NoRpc]
    /\ escrowNoted = [id \in EscrowIds |-> NoTransaction]
    /\ unsure = {}

-----------------------------------------------------------------------------
\* The ledger and the contract

\* The contract refuses an id that exists, and moves an escrow only once.
ContractAccepts(fn, id) ==
    CASE fn = "create_escrow" -> onChain[id] = "none"
      [] fn = "get_escrow" -> onChain[id] # "none"
      [] OTHER -> onChain[id] = "Pending"

AfterContract(fn, id) ==
    [onChain EXCEPT ![id] = CASE fn = "create_escrow" -> "Pending"
                              [] fn = "release" -> "Released"
                              [] fn = "refund" -> "Refunded"]

\* The next transaction of the account is applied and uses up its number, even
\* if the contract refuses it or the token cannot be transferred.
ApplyTransaction ==
    \E tx \in pool, transferred \in BOOLEAN :
        LET ok == ContractAccepts(tx.fn, tx.id) /\ transferred IN
        /\ tx.seq = sequence + 1
        /\ sequence' = tx.seq
        /\ pool' = {other \in pool : other.seq > tx.seq}
        /\ applied' = applied \cup {[tx |-> tx, ok |-> ok]}
        /\ onChain' = IF ok THEN AfterContract(tx.fn, tx.id) ELSE onChain
        /\ UNCHANGED <<stellarNetwork, backendState>>

\* Its ten minutes pass, or the network gives it up.
DropTransaction ==
    /\ \E tx \in pool : pool' = pool \ {tx}
    /\ UNCHANGED <<stellarNetwork, sequence, applied, onChain, backendState>>

\* claim, a day after the booking ended.
ClaimOnChain(id) ==
    /\ onChain[id] = "Pending"
    /\ onChain' = [onChain EXCEPT ![id] = "Released"]
    /\ UNCHANGED <<stellarNetwork, sequence, pool, applied, backendState>>

-----------------------------------------------------------------------------
\* The provider

Continues(w, c) == rpcCalls' = [rpcCalls EXCEPT ![w] = c]

\* Whatever is thrown becomes one BadGatewayException; recordSorobanEscrow
\* counts and swallows it.
Thrown(c) == [NoRpc EXCEPT !.answer = "error", !.made = c.made]
FailsUnsent(w, c) == Continues(w, Thrown(c)) /\ UNCHANGED unsure
FailsSent(w, c) ==
    /\ Continues(w, Thrown(c))
    /\ unsure' = unsure \cup {[fn |-> c.fn, id |-> c.id]}

\* Without any of its variables the provider is disabled and every call throws;
\* with some of them the server does not start.
Enabled == stellarNetwork # "unset"

\* createEscrow, releaseEscrow, refundEscrow and getEscrowStatus up to their
\* first await.
StartCall(w, fn, id, amountValid) ==
    LET c == [NoRpc EXCEPT !.fn = fn, !.id = id, !.made = rpcCalls[w].made + 1] IN
    /\ rpcCalls[w].pc = "idle" /\ rpcCalls[w].made < MaxEscrowCalls
    /\ IF Enabled /\ (fn = "create_escrow" => amountValid)
       THEN Continues(w, [c EXCEPT !.pc = "account"]) /\ UNCHANGED unsure
       ELSE FailsUnsent(w, c)
    /\ UNCHANGED <<stellarNetwork, ledgerState, escrowNoted>>

GetSourceAccount(w) ==
    LET c == rpcCalls[w] IN
    /\ c.pc = "account"
    /\ \/ Continues(w, [c EXCEPT !.pc = "prepare", !.read = sequence]) /\ UNCHANGED unsure
       \/ FailsUnsent(w, c)
    /\ UNCHANGED <<stellarNetwork, ledgerState, escrowNoted>>

\* prepareTransaction simulates the invocation and throws if it fails.
PrepareTransaction(w, second) ==
    LET c == rpcCalls[w]
        tx == [fn |-> c.fn, id |-> c.id, seq |-> c.read + 1, at |-> second]
    IN
    /\ c.pc = "prepare"
    /\ \/ /\ ContractAccepts(c.fn, c.id)
          /\ Continues(w, [c EXCEPT !.tx = tx, !.read = 0,
                                    !.pc = IF c.fn \in Mutations THEN "send" ELSE "map"])
          /\ UNCHANGED unsure
       \/ FailsUnsent(w, c)
    /\ UNCHANGED <<stellarNetwork, ledgerState, escrowNoted>>

\* getEscrowStatus maps the status twice, the second time a value that is no
\* ScVal any more: it throws for every escrow there is.
MapStatus(w) ==
    /\ rpcCalls[w].pc = "map"
    /\ FailsUnsent(w, rpcCalls[w])
    /\ UNCHANGED <<stellarNetwork, ledgerState, escrowNoted>>

Understood == stellarNetwork = "known"

\* The signature is of the passphrase configured.  The answer has a hash
\* whether the network accepts the transaction or not, and its status is not
\* looked at; it may also be lost.
SendTransaction(w) ==
    LET c == rpcCalls[w] IN
    /\ c.pc = "send"
    /\ \/ Understood /\ c.tx.seq > sequence /\ pool' = pool \cup {c.tx}
       \/ UNCHANGED pool
    /\ \/ Continues(w, [c EXCEPT !.pc = "poll"]) /\ UNCHANGED unsure
       \/ FailsSent(w, c)
    /\ UNCHANGED <<stellarNetwork, sequence, applied, onChain, escrowNoted>>

\* getTransaction, by hash
StatusOf(tx) ==
    CASE [tx |-> tx, ok |-> TRUE] \in applied -> "SUCCESS"
      [] [tx |-> tx, ok |-> FALSE] \in applied -> "FAILED"
      [] OTHER -> "NOT_FOUND"

Settled(tx) == StatusOf(tx) = "SUCCESS"

\* waitForSettlement: NOT_FOUND is asked again until the time is over, and
\* every other answer is final.
PollTransaction(w) ==
    LET c == rpcCalls[w] IN
    /\ c.pc = "poll"
    /\ IF Settled(c.tx)
       THEN /\ Continues(w, [c EXCEPT !.answer = "hash",
                                      !.pc = IF c.fn = "create_escrow" THEN "note" ELSE "idle"])
            /\ UNCHANGED unsure
       ELSE FailsSent(w, c)
    /\ UNCHANGED <<stellarNetwork, ledgerState, escrowNoted>>

\* recordSorobanEscrow keeps the hash with the booking; an error is counted.
NoteEscrow(w) ==
    LET c == rpcCalls[w] IN
    /\ c.pc = "note"
    /\ \/ /\ escrowNoted' = [escrowNoted EXCEPT ![c.id] = c.tx]
          /\ Continues(w, [c EXCEPT !.pc = "idle"])
          /\ UNCHANGED unsure
       \/ UNCHANGED escrowNoted /\ FailsSent(w, c)
    /\ UNCHANGED <<stellarNetwork, ledgerState>>

EscrowClientNext ==
    \/ ApplyTransaction \/ DropTransaction
    \/ \E id \in EscrowIds : ClaimOnChain(id)
    \/ \E w \in EscrowCallers :
          \/ \E fn \in Mutations \cup {"get_escrow"}, id \in EscrowIds, valid \in BOOLEAN :
                StartCall(w, fn, id, valid)
          \/ GetSourceAccount(w)
          \/ \E second \in BuildTimes : PrepareTransaction(w, second)
          \/ MapStatus(w) \/ SendTransaction(w) \/ PollTransaction(w) \/ NoteEscrow(w)

EscrowClientSpec == EscrowClientInit /\ [][EscrowClientNext]_escrowClientVars

-----------------------------------------------------------------------------
Succeeded(fns, id) == {e \in applied : e.ok /\ e.tx.fn \in fns /\ e.tx.id = id}

\* A call reports, and a booking notes, only what the ledger has applied, each
\* number of the account being used once.
ReportsAreTrue ==
    /\ \A w \in EscrowCallers :
          rpcCalls[w].answer = "hash" => [tx |-> rpcCalls[w].tx, ok |-> TRUE] \in applied
    /\ \A id \in EscrowIds :
          escrowNoted[id] # NoTransaction => /\ [tx |-> escrowNoted[id], ok |-> TRUE] \in applied
                                    /\ onChain[id] # "none"
    /\ Cardinality({e.tx.seq : e \in applied}) = sequence /\ Cardinality(applied) = sequence

\* However calls overlap and are repeated, an escrow is funded once and moved
\* once; of a release and a refund at most one is reported as done.
EscrowsMoveOnce ==
    /\ \A id \in EscrowIds :
          /\ Cardinality(Succeeded({"create_escrow"}, id)) = (IF onChain[id] = "none" THEN 0 ELSE 1)
          /\ Cardinality(Succeeded({"release", "refund"}, id)) <= 1
    /\ \A v, w \in EscrowCallers :
          ~ /\ rpcCalls[v].answer = "hash" /\ rpcCalls[v].fn = "release"
            /\ rpcCalls[w].answer = "hash" /\ rpcCalls[w].fn = "refund"
            /\ rpcCalls[v].id = rpcCalls[w].id

\* An escrow that no booking notes is one whose call is under way or failed
\* after it had sent; nothing is on the ledger without a configuration, nor
\* with the one for the public network.
LostEscrowsAreCounted ==
    /\ \A id \in EscrowIds : onChain[id] # "none" =>
          \/ escrowNoted[id] # NoTransaction
          \/ [fn |-> "create_escrow", id |-> id] \in unsure
          \/ \E w \in EscrowCallers : /\ rpcCalls[w].pc \in {"poll", "note"}
                                      /\ rpcCalls[w].fn = "create_escrow" /\ rpcCalls[w].id = id
    /\ stellarNetwork # "known" =>
          applied = {} /\ \A w \in EscrowCallers : rpcCalls[w].answer # "hash"

\* What the provider reports of escrows agrees with the ledger: see the three
\* parts.
EscrowCallsAgree == ReportsAreTrue /\ EscrowsMoveOnce /\ LostEscrowsAreCounted
=============================================================================
