------------------------- MODULE AccessControlProofs -------------------------
(***************************************************************************)
(* Proofs about AccessControl: in multisig mode nothing proposals govern   *)
(* changes without a proposal that has its approvals and is due; the list, *)
(* the count and the store of proposals agree; and the votes there can be   *)
(* suffice, unless somebody is installed twice or a time lock is closed.    *)
(***************************************************************************)
EXTENDS AccessControl, SequenceTheorems, FiniteSetTheorems, TLAPS

\* A configuration with the administrators s.
ConfigOf(s) == [admins : {s}, required_signatures : Nat, critical_threshold : Nat,
                emergency_threshold : Nat, time_lock_duration : Nat,
                max_pending_proposals : Nat, proposal_expiry_duration : Nat]

\* What the governance argument needs of the state: ids are handed out in
\* order, stored proposals are records and only exist in multisig mode, which
\* is entered once and never left.
GovInv ==
    /\ now \in Nat /\ counter \in Nat
    /\ proposal \in [Ids -> PendingProposal \cup {Absent}]
    /\ \A i \in Ids : i >= counter => proposal[i] = Absent
    /\ \E s : multisig \in ConfigOf(s)
    /\ MultisigEnabled => initialized /\ multisig.required_signatures > 0
    /\ ~MultisigEnabled => \A i \in Ids : proposal[i] = Absent

\* A vote or a creation: the proposal that is stored, before it is executed.
Votes(i, p, list, count) ==
    /\ i \in Ids /\ p \in PendingProposal /\ ~p.executed /\ now <= p.expiry
    /\ ~proposal[i].executed
    /\ StoreAndExecute(i, p, list, count)

\* The record a creation stores.
LEMMA CreateVotes ==
  ASSUME GovInv, NEW a \in Accounts, NEW act \in Actions, CreateProposal(a, act)
  PROVE  \E p, list, count : Votes(counter, p, list, count)
<1> DEFINE lock == IF RequiresTimeLock(act.kind)
                   THEN now + multisig.time_lock_duration ELSE None
           p == [action |-> act, proposer |-> a, approvals |-> <<a>>,
                 rejections |-> <<>>, executed |-> FALSE,
                 expiry |-> now + multisig.proposal_expiry_duration,
                 time_lock_until |-> lock,
                 required_signatures |-> RequiredSignatures(act.kind)]
<1>1. /\ now \in Nat /\ counter \in Ids /\ proposal[counter] = Absent
      /\ multisig.proposal_expiry_duration \in Nat
      /\ multisig.time_lock_duration \in Nat
      /\ multisig.required_signatures \in Nat
      /\ multisig.critical_threshold \in Nat
      /\ multisig.emergency_threshold \in Nat
  <2>1. PICK s : multisig \in ConfigOf(s)
    BY DEF GovInv
  <2>2. now \in Nat /\ counter \in Ids /\ counter \in Nat
    BY DEF GovInv, CreateProposal
  <2>3. proposal[counter] = Absent
    BY <2>2 DEF GovInv
  <2> QED
    BY <2>1, <2>2, <2>3 DEF ConfigOf
<1>2. RequiredSignatures(act.kind) \in Nat
  BY <1>1 DEF RequiredSignatures
<1>3. lock \in Nat \cup {None}
  BY <1>1
<1>4. now + multisig.proposal_expiry_duration \in Nat
      /\ now <= now + multisig.proposal_expiry_duration
  BY <1>1
<1>5. <<a>> \in Seq(Accounts) /\ <<>> \in Seq(Accounts)
  OBVIOUS
<1> HIDE DEF lock
<1>6. p \in PendingProposal /\ ~p.executed /\ now <= p.expiry
  BY <1>2, <1>3, <1>4, <1>5 DEF PendingProposal
<1>7. StoreAndExecute(counter, p, [pending EXCEPT ![counter] = @ + 1], stats.pending_count + 1)
  BY DEF CreateProposal, lock
<1>8. ~proposal[counter].executed
  BY <1>1 DEF Absent
<1> HIDE DEF p
<1> QED
  BY <1>1, <1>6, <1>7, <1>8 DEF Votes

\* One more vote on a stored proposal.
LEMMA OneMoreVote ==
  ASSUME NEW r \in PendingProposal, NEW a \in Accounts, ~r.executed
  PROVE  /\ [r EXCEPT !.approvals = Append(@, a)] \in PendingProposal
         /\ ~[r EXCEPT !.approvals = Append(@, a)].executed
         /\ [r EXCEPT !.approvals = Append(@, a)].expiry = r.expiry
         /\ [r EXCEPT !.rejections = Append(@, a)] \in PendingProposal
         /\ ~[r EXCEPT !.rejections = Append(@, a)].executed
<1>1. /\ r.approvals \in Seq(Accounts) /\ r.rejections \in Seq(Accounts)
  BY DEF PendingProposal
<1>2. /\ Append(r.approvals, a) \in Seq(Accounts)
      /\ Append(r.rejections, a) \in Seq(Accounts)
  BY <1>1
<1> QED
  BY <1>2 DEF PendingProposal

\* The record an approval stores.
LEMMA ApproveVotes ==
  ASSUME GovInv, NEW a \in Accounts, NEW i \in Ids, ApproveProposal(a, i)
  PROVE  \E p, list, count : Votes(i, p, list, count)
<1> DEFINE p == [proposal[i] EXCEPT !.approvals = Append(@, a)]
<1>1. /\ proposal[i] \in PendingProposal /\ ~proposal[i].executed /\ now <= proposal[i].expiry
  BY DEF GovInv, ApproveProposal, MayVote
<1>2. p \in PendingProposal /\ ~p.executed /\ now <= p.expiry
  BY <1>1, OneMoreVote
<1>3. StoreAndExecute(i, p, pending, stats.pending_count)
  BY DEF ApproveProposal
<1> HIDE DEF p
<1> QED
  BY <1>1, <1>2, <1>3 DEF Votes

\* A performed action leaves a configuration in force.
LEMMA PerformConfig ==
  ASSUME GovInv, MultisigEnabled, NEW act \in Actions, Perform(act)
  PROVE  MultisigEnabled' /\ \E s : multisig' \in ConfigOf(s) /\ multisig'.required_signatures > 0
<1>0. PICK s : multisig \in ConfigOf(s) /\ multisig.required_signatures > 0
  BY DEF GovInv
<1>1. CASE multisig' = multisig
  BY <1>0, <1>1 DEF MultisigEnabled
<1>2. CASE act.kind = "UpdateMultisigConfig" /\ Validate(act.multisig) /\ multisig' = act.multisig
  <2>1. act.multisig \in MultiSigConfig
    BY ActionsAssumption DEF ProposalAction
  <2>2. act.multisig \in ConfigOf(act.multisig.admins) /\ act.multisig.required_signatures > 0
    BY <1>2, <2>1 DEF MultiSigConfig, ConfigOf, Validate
  <2> QED
    BY <1>2, <2>2 DEF MultisigEnabled, NoMultisig
<1>3. ASSUME NEW t, multisig' = [multisig EXCEPT !.admins = t]
      PROVE  MultisigEnabled' /\ \E r : multisig' \in ConfigOf(r) /\ multisig'.required_signatures > 0
  <2>1. multisig' \in ConfigOf(t) /\ multisig'.required_signatures > 0
    BY <1>0, <1>3 DEF ConfigOf
  <2> QED
    BY <2>1 DEF MultisigEnabled, NoMultisig
<1> QED
  BY <1>1, <1>2, <1>3 DEF Perform

\* A vote either stores the proposal or executes it; in both cases every other
\* proposal stays as it is.
LEMMA VoteStep ==
  ASSUME GovInv, NEW i, NEW p, NEW list, NEW count, Votes(i, p, list, count)
  PROVE  /\ \A j \in Ids \ {i} : proposal'[j] = proposal[j]
         /\ proposal'[i] \in PendingProposal
         /\ \/ Executes(i) /\ \E act \in Actions : Perform(act)
            \/ ~proposal'[i].executed /\ UNCHANGED governed
<1>1. /\ i \in Ids /\ p \in PendingProposal /\ now <= p.expiry /\ ~proposal[i].executed
      /\ ~p.executed /\ proposal \in [Ids -> PendingProposal \cup {Absent}]
  BY DEF Votes, GovInv
<1>2. CASE Executable(p)
  <2> DEFINE q == [p EXCEPT !.executed = TRUE]
  <2>1. /\ q \in PendingProposal /\ q.executed /\ q.approvals = p.approvals
        /\ q.required_signatures = p.required_signatures /\ q.expiry = p.expiry
        /\ q.time_lock_until = p.time_lock_until /\ p.action \in Actions
    BY <1>1 DEF PendingProposal
  <2>2. proposal' = [proposal EXCEPT ![i] = q] /\ Perform(p.action)
    BY <1>2 DEF Votes, StoreAndExecute
  <2> HIDE DEF q
  <2>3. proposal'[i] = q /\ \A j \in Ids \ {i} : proposal'[j] = proposal[j]
    BY <1>1, <2>2
  <2>4. q # Absent
    BY <2>1 DEF Absent
  <2>5. Executes(i)
    BY <1>1, <1>2, <2>1, <2>3, <2>4 DEF Executes, Executable
  <2> QED
    BY <2>1, <2>2, <2>3, <2>5
<1>3. CASE ~Executable(p)
  <2>1. proposal' = [proposal EXCEPT ![i] = p] /\ UNCHANGED governed
    BY <1>3 DEF Votes, StoreAndExecute
  <2> QED
    BY <1>1, <2>1
<1> QED
  BY <1>2, <1>3

\* Every step but a vote: it decides no proposal and, in multisig mode, changes
\* nothing proposals govern.
Harmless ==
    /\ \A i \in Ids : proposal'[i] = proposal[i] \/ ~proposal'[i].executed
    /\ MultisigEnabled => UNCHANGED <<config, paused, emergency, multisig>>

\* Every step is a vote or harmless, and keeps the invariant.
LEMMA Steps ==
  ASSUME GovInv, [Next]_vars
  PROVE  /\ GovInv'
         /\ Harmless \/ \E i, p, list, count : Votes(i, p, list, count)
<1> USE DEF GovInv
<1>0. Absent.executed = FALSE
  BY DEF Absent
<1>1. ASSUME UNCHANGED <<proposal, counter>>, now' \in Nat,
             initialized' = initialized, multisig' = multisig,
             MultisigEnabled => UNCHANGED <<config, paused, emergency>>
      PROVE  GovInv' /\ Harmless
  BY <1>1 DEF Harmless, MultisigEnabled
<1>2. CASE UNCHANGED vars
  BY <1>1, <1>2 DEF vars, governed, votes
<1>3. CASE Tick
  BY <1>1, <1>3 DEF Tick, governed, votes
<1>4. ASSUME NEW a \in Accounts, Initialize(a)
      PROVE  GovInv' /\ Harmless
  BY <1>4 DEF Initialize, votes, Harmless, MultisigEnabled
<1>5. ASSUME NEW admins \in AdminLists, NEW required \in 1..Cardinality(admins),
             InitializeMultisig(admins, required)
      PROVE  GovInv' /\ Harmless
  <2>1. /\ DefaultConfig(admins, required) \in ConfigOf(admins)
        /\ DefaultConfig(admins, required).required_signatures > 0
    <3>1. Cardinality(admins) \in Nat /\ required \in Nat \ {0}
      BY ActionsAssumption, FS_CardinalityType DEF AdminVectors
    <3>2. /\ TimeLockDuration \in Nat /\ ProposalExpiry \in Nat /\ MaxPendingProposals \in Nat
      BY DurationsAssumption
    <3>3. Smaller(required + 1, Cardinality(admins)) \in Nat
      BY <3>1 DEF Smaller
    <3>4. Smaller(Smaller(required + 1, Cardinality(admins)) + 1, Cardinality(admins)) \in Nat
      BY <3>1, <3>3 DEF Smaller
    <3> QED
      BY <3>1, <3>2, <3>3, <3>4 DEF DefaultConfig, ConfigOf
  <2>2. /\ multisig' = DefaultConfig(admins, required) /\ ~MultisigEnabled /\ initialized'
        /\ UNCHANGED <<proposal, counter, now>>
    BY <1>5 DEF InitializeMultisig, votes
  <2>3. \A i \in Ids : proposal'[i] = Absent
    BY <2>2
  <2>4. \E s : multisig' \in ConfigOf(s)
    BY <2>1, <2>2
  <2>5. multisig'.required_signatures > 0
    BY <2>1, <2>2
  <2> HIDE DEF GovInv
  <2>6. Harmless
    BY <2>2 DEF Harmless
  <2> QED
    BY <2>2, <2>3, <2>4, <2>5, <2>6 DEF GovInv
<1>6. ASSUME NEW a \in Accounts,
             \/ \E u \in Targets, r \in Roles : SetRole(a, u, r)
             \/ \E u \in Targets :
                  RemoveRole(a, u) \/ BlacklistUser(a, u) \/ UnblacklistUser(a, u)
             \/ \E c \in Configs : UpdateConfig(a, c)
             \/ \E q \in BOOLEAN : SetPaused(a, q)
             \/ DeactivateEmergencyMode(a)
             \/ \E new \in Accounts : ProposeAdminTransfer(a, new)
             \/ AcceptAdminTransfer(a) \/ CancelAdminTransfer(a)
      PROVE  GovInv' /\ Harmless
  <2>1. /\ UNCHANGED <<proposal, counter, now, initialized, multisig>>
        /\ MultisigEnabled => UNCHANGED <<config, paused, emergency>>
    BY <1>6 DEF SetRole, RemoveRole, BlacklistUser, UnblacklistUser, Blacklist, UpdateConfig,
       SetPaused, DeactivateEmergencyMode, DecidesAlone, ProposeAdminTransfer,
       AcceptAdminTransfer, CancelAdminTransfer, governed, votes
  <2> QED
    BY <1>1, <2>1
<1>7. ASSUME NEW i, NEW p, NEW list, NEW count, Votes(i, p, list, count), MultisigEnabled,
             UNCHANGED <<now, initialized>>,
             (i < counter /\ counter' = counter) \/ (i = counter /\ counter' = counter + 1)
      PROVE  GovInv'
  <2>1. /\ \A j \in Ids \ {i} : proposal'[j] = proposal[j]
        /\ proposal'[i] \in PendingProposal /\ i \in Ids /\ i \in Nat
        /\ \/ \E act \in Actions : Perform(act)
           \/ UNCHANGED governed
    BY <1>7, VoteStep DEF Votes, Ids
  <2>2. proposal' \in [Ids -> PendingProposal \cup {Absent}]
    BY <1>7, <2>1 DEF Votes, StoreAndExecute
  <2>3. MultisigEnabled' /\ \E s : multisig' \in ConfigOf(s) /\ multisig'.required_signatures > 0
    <3>1. CASE \E act \in Actions : Perform(act)
      BY <1>7, <3>1, PerformConfig
    <3>2. CASE UNCHANGED governed
      BY <1>7, <3>2 DEF governed, MultisigEnabled
    <3> QED
      BY <2>1, <3>1, <3>2
  <2>4. counter' \in Nat /\ \A j \in Ids : j >= counter' => proposal'[j] = Absent
    BY <1>7, <2>1 DEF Ids
  <2>5. initialized' /\ now' \in Nat
    BY <1>7
  <2> HIDE DEF GovInv
  <2> QED
    BY <2>2, <2>3, <2>4, <2>5 DEF GovInv
<1>8. ASSUME NEW a \in Accounts, NEW act \in Actions, CreateProposal(a, act)
      PROVE  GovInv' /\ \E i, p, list, count : Votes(i, p, list, count)
  <2>1. PICK p, list, count : Votes(counter, p, list, count)
    BY <1>8, CreateVotes
  <2>2. /\ MultisigEnabled /\ counter' = counter + 1 /\ UNCHANGED <<now, initialized>>
    BY <1>8 DEF CreateProposal
  <2> HIDE DEF GovInv
  <2> QED
    BY <1>7, <2>1, <2>2
<1>9. ASSUME NEW a \in Accounts, NEW i \in Ids, ApproveProposal(a, i)
      PROVE  GovInv' /\ \E j, p, list, count : Votes(j, p, list, count)
  <2>1. PICK p, list, count : Votes(i, p, list, count)
    BY <1>9, ApproveVotes
  <2>2. proposal[i] # Absent /\ UNCHANGED <<now, initialized, counter>>
    BY <1>9 DEF ApproveProposal, MayVote
  <2>3. MultisigEnabled /\ i < counter
    BY <2>2 DEF Ids
  <2>4. /\ (i < counter /\ counter' = counter) \/ (i = counter /\ counter' = counter + 1)
        /\ UNCHANGED <<now, initialized>>
    BY <2>2, <2>3
  <2> HIDE DEF GovInv
  <2>5. GovInv'
    BY <1>7, <2>1, <2>3, <2>4
  <2> QED
    BY <2>1, <2>5
<1>10. ASSUME \A i \in Ids : \/ proposal'[i] = proposal[i]
                             \/ proposal'[i] = Absent
                             \/ /\ proposal[i] # Absent /\ proposal'[i] \in PendingProposal
                                /\ ~proposal'[i].executed,
              proposal' = [i \in Ids |-> proposal'[i]],
              UNCHANGED <<now, initialized, counter, governed>>
       PROVE  GovInv' /\ Harmless
  <2>1. UNCHANGED <<config, paused, emergency, multisig>>
    BY <1>10 DEF governed
  <2>2. proposal' \in [Ids -> PendingProposal \cup {Absent}]
    BY <1>10
  <2>3. \A i \in Ids : proposal[i] = Absent => proposal'[i] = Absent
    BY <1>10
  <2>4. Harmless
    BY <1>0, <1>10, <2>1 DEF Harmless
  <2> QED
    BY <1>10, <2>1, <2>2, <2>3, <2>4 DEF MultisigEnabled
<1>11. ASSUME NEW a \in Accounts, NEW i \in Ids, RejectProposal(a, i)
       PROVE  GovInv' /\ Harmless
  <2>1. /\ proposal[i] \in PendingProposal /\ ~proposal[i].executed /\ proposal[i] # Absent
    BY <1>11 DEF RejectProposal, MayVote
  <2> DEFINE p == [proposal[i] EXCEPT !.rejections = Append(@, a)]
  <2>2. p \in PendingProposal /\ ~p.executed
    BY <2>1, OneMoreVote
  <2>3. /\ proposal' = [proposal EXCEPT ![i] = p]
        /\ UNCHANGED <<now, initialized, counter, governed>>
    <3>1. proposal' = [proposal EXCEPT ![i] = p]
      BY <1>11 DEF RejectProposal
    <3>2. UNCHANGED <<now, initialized, counter, governed>>
      BY <1>11 DEF RejectProposal
    <3> QED
      BY <3>1, <3>2
  <2> HIDE DEF p
  <2>4. proposal' = [j \in Ids |-> proposal'[j]]
    BY <2>3
  <2>5. \A j \in Ids : proposal'[j] = IF j = i THEN p ELSE proposal[j]
    BY <2>3
  <2> QED
    BY <1>10, <2>1, <2>2, <2>3, <2>4, <2>5
<1>12. ASSUME NEW ids, NEW n, Discard(ids, n)
       PROVE  GovInv' /\ Harmless
  <2>1. /\ \A i \in Ids : proposal'[i] = proposal[i] \/ proposal'[i] = Absent
        /\ proposal' = [i \in Ids |-> proposal'[i]]
        /\ UNCHANGED <<now, initialized, counter, governed>>
    BY <1>12 DEF Discard
  <2> QED
    BY <1>10, <2>1
<1>13. ASSUME NEW a \in Accounts, NEW i \in Ids, CancelProposal(a, i)
       PROVE  GovInv' /\ Harmless
  BY <1>12, <1>13 DEF CancelProposal
<1>14. CASE CleanupExpiredProposals
  BY <1>12, <1>14 DEF CleanupExpiredProposals
<1> HIDE DEF GovInv
<1> QED
  BY <1>2, <1>3, <1>4, <1>5, <1>6, <1>8, <1>9, <1>11, <1>13, <1>14 DEF Next

\* No proposal exists before the contract is initialised.
LEMMA InitGov == Init => GovInv
<1> SUFFICES ASSUME Init PROVE GovInv
  OBVIOUS
<1>1. NoMultisig \in ConfigOf({})
  BY DEF NoMultisig, ConfigOf
<1> QED
  BY <1>1 DEF Init, GovInv, MultisigEnabled

\* The order of the proposals and the mode hold in every reachable state.
LEMMA GovAlways == Spec => []GovInv
<1>1. GovInv /\ [Next]_vars => GovInv'
  BY Steps
<1> QED
  BY InitGov, <1>1, PTL DEF Spec

\* In multisig mode the configuration, the pause, the emergency mode and the
\* multisig change only through a proposal that has its approvals, is past its
\* time lock and has not expired.
THEOREM ProposalsGovern == Spec => GovernedByProposals
<1> DEFINE Governed ==
      /\ (MultisigEnabled /\ <<config, paused, emergency, multisig>>'
                                # <<config, paused, emergency, multisig>>)
             => \E i \in Ids : Executes(i)
      /\ \A i \in Ids : (proposal'[i].executed /\ ~proposal[i].executed) => Executes(i)
<1>1. ASSUME GovInv, [Next]_vars PROVE Governed
  <2>1. CASE Harmless
    BY <2>1 DEF Harmless
  <2>2. ASSUME NEW i, NEW p, NEW list, NEW count, Votes(i, p, list, count)
        PROVE  Governed
    <3>1. /\ i \in Ids /\ \A j \in Ids \ {i} : proposal'[j] = proposal[j]
          /\ \/ Executes(i)
             \/ ~proposal'[i].executed /\ UNCHANGED governed
      BY <1>1, <2>2, VoteStep DEF Votes
    <3> QED
      BY <3>1 DEF governed
  <2> QED
    BY <1>1, <2>1, <2>2, Steps
<1>2. GovInv /\ [Next]_vars => [Governed]_vars
  BY <1>1
<1> QED
  BY <1>2, GovAlways, PTL DEF Spec, GovernedByProposals
-----------------------------------------------------------------------------
\* Lists of voters and of administrators.

\* A concatenation repeats nothing iff neither part does and they share nothing.
LEMMA InjectiveConcat ==
  ASSUME NEW T, NEW s \in Seq(T), NEW t \in Seq(T)
  PROVE  IsInjective(s \o t) <=>
           IsInjective(s) /\ IsInjective(t) /\ ToSet(s) \cap ToSet(t) = {}
<1>1. /\ Len(s) \in Nat /\ Len(t) \in Nat
      /\ DOMAIN s = 1..Len(s) /\ DOMAIN t = 1..Len(t)
      /\ DOMAIN (s \o t) = 1..(Len(s) + Len(t))
      /\ \A i \in 1..Len(s) : (s \o t)[i] = s[i]
      /\ \A i \in 1..Len(t) : (s \o t)[Len(s) + i] = t[i]
  <2>1. /\ s \o t \in Seq(T) /\ Len(s \o t) = Len(s) + Len(t)
        /\ \A i \in 1 .. Len(s) + Len(t) :
             (s \o t)[i] = IF i <= Len(s) THEN s[i] ELSE t[i - Len(s)]
    BY ConcatProperties
  <2>2. \A i \in 1..Len(t) : /\ Len(s) + i \in 1..(Len(s) + Len(t))
                             /\ ~(Len(s) + i <= Len(s)) /\ Len(s) + i - Len(s) = i
    OBVIOUS
  <2> QED
    BY <2>1, <2>2
<1> DEFINE u == s \o t  m == Len(s)  n == Len(t)
<1> HIDE DEF u, m, n
<1>2. /\ m \in Nat /\ n \in Nat /\ DOMAIN s = 1..m /\ DOMAIN t = 1..n
      /\ DOMAIN u = 1..(m + n)
      /\ \A i \in 1..m : u[i] = s[i]
      /\ \A i \in 1..n : u[m + i] = t[i]
  BY <1>1 DEF u, m, n
<1>3. ASSUME IsInjective(u)
      PROVE  IsInjective(s) /\ IsInjective(t) /\ ToSet(s) \cap ToSet(t) = {}
  <2>1. IsInjective(s)
    BY <1>2, <1>3 DEF IsInjective
  <2>2. ASSUME NEW i \in 1..n, NEW j \in 1..n, t[i] = t[j]
        PROVE  i = j
    <3>1. m + i \in 1..(m + n) /\ m + j \in 1..(m + n) /\ u[m + i] = u[m + j]
      BY <1>2, <2>2
    <3>2. m + i = m + j
      BY <1>2, <1>3, <3>1 DEF IsInjective
    <3> QED
      BY <1>2, <3>2
  <2>3. ASSUME NEW i \in 1..m, NEW j \in 1..n, s[i] = t[j]
        PROVE  FALSE
    <3>1. i \in 1..(m + n) /\ m + j \in 1..(m + n) /\ u[i] = u[m + j] /\ i # m + j
      BY <1>2, <2>3
    <3> QED
      BY <1>2, <1>3, <3>1 DEF IsInjective
  <2> QED
    BY <1>2, <2>1, <2>2, <2>3 DEF IsInjective, ToSet
<1>4. ASSUME IsInjective(s), IsInjective(t), ToSet(s) \cap ToSet(t) = {}
      PROVE  IsInjective(u)
  <2>1. SUFFICES ASSUME NEW i \in 1..(m + n), NEW j \in 1..(m + n), u[i] = u[j]
                 PROVE  i = j
    BY <1>2 DEF IsInjective
  <2>2. ASSUME NEW k \in 1..(m + n), k \notin 1..m
        PROVE  k - m \in 1..n /\ u[k] = t[k - m]
    <3>1. k - m \in 1..n /\ m + (k - m) = k
      BY <1>2, <2>2
    <3> QED
      BY <1>2, <3>1
  <2>3. CASE i \in 1..m /\ j \in 1..m
    BY <1>2, <1>4, <2>1, <2>3 DEF IsInjective
  <2>4. CASE i \notin 1..m /\ j \notin 1..m
    <3>1. /\ i - m \in 1..n /\ j - m \in 1..n /\ t[i - m] = t[j - m]
      BY <2>1, <2>2, <2>4
    <3>2. i - m = j - m
      BY <1>2, <1>4, <3>1 DEF IsInjective
    <3> QED
      BY <1>2, <3>2
  <2>5. ASSUME NEW k \in 1..m, NEW l \in 1..(m + n), l \notin 1..m
        PROVE  u[k] # u[l]
    <3>1. l - m \in 1..n /\ u[l] = t[l - m]
      BY <2>2, <2>5
    <3>2. u[l] \in ToSet(t)
      BY <3>1, <1>2 DEF ToSet
    <3>3. u[k] \in ToSet(s)
      BY <1>2, <2>5 DEF ToSet
    <3> QED
      BY <1>4, <3>2, <3>3
  <2> QED
    BY <2>1, <2>3, <2>4, <2>5
<1> QED
  BY <1>3, <1>4 DEF u

\* One more element.
LEMMA AppendOne ==
  ASSUME NEW T, NEW s \in Seq(T), NEW x \in T
  PROVE  /\ Append(s, x) \in Seq(T) /\ Len(Append(s, x)) = Len(s) + 1
         /\ ToSet(Append(s, x)) = ToSet(s) \cup {x}
         /\ IsInjective(s) /\ x \notin ToSet(s) => IsInjective(Append(s, x))
<1> DEFINE u == Append(s, x)  n == Len(s)
<1>1. /\ u \in Seq(T) /\ Len(u) = n + 1 /\ n \in Nat
      /\ DOMAIN s = 1..n /\ DOMAIN u = 1..(n + 1)
      /\ \A i \in 1..n : u[i] = s[i]
      /\ u[n + 1] = x
  OBVIOUS
<1> HIDE DEF u, n
<1>2. ToSet(u) = ToSet(s) \cup {x}
  <2>1. \A i \in 1..(n + 1) : i \in 1..n \/ i = n + 1
    BY <1>1
  <2>2. 1..n \subseteq 1..(n + 1) /\ n + 1 \in 1..(n + 1)
    BY <1>1
  <2> QED
    BY <1>1, <2>1, <2>2 DEF ToSet
<1>3. ASSUME IsInjective(s), x \notin ToSet(s)
      PROVE  IsInjective(u)
  BY <1>1, <1>3 DEF ToSet, IsInjective
<1> QED
  BY <1>1, <1>2, <1>3 DEF u, n

\* An administrator more is one entry more.
LEMMA AppointOne ==
  ASSUME NEW s \in AdminVectors, NEW a \in Accounts, a \notin Named(s)
  PROVE  /\ s \cup {<<a, 0>>} \in AdminVectors
         /\ Cardinality(s \cup {<<a, 0>>}) = Cardinality(s) + 1
         /\ NamedOnce(s) => NamedOnce(s \cup {<<a, 0>>})
<1>1. \A e \in s : e[1] # a
  BY DEF Named
<1>2. <<a, 0>> \notin s
  BY <1>1
<1>3. /\ s \cup {<<a, 0>>} \in AdminVectors
      /\ Cardinality(s \cup {<<a, 0>>}) = Cardinality(s) + 1
  BY <1>2, FS_AddElement DEF AdminVectors
<1> QED
  BY <1>1, <1>3 DEF NamedOnce

\* Dismissing somebody who is named once takes at most one entry.
LEMMA DismissOne ==
  ASSUME NEW s \in AdminVectors, NEW a
  PROVE  /\ Dismiss(s, a) \in AdminVectors
         /\ NamedOnce(s) => NamedOnce(Dismiss(s, a)) /\ Cardinality(Dismiss(s, a)) >= Cardinality(s) - 1
<1>1. Dismiss(s, a) \subseteq s /\ IsFiniteSet(s)
  BY DEF Dismiss, AdminVectors
<1>2. Dismiss(s, a) \in AdminVectors /\ IsFiniteSet(Dismiss(s, a))
  BY <1>1, FS_Subset DEF AdminVectors
<1>3. ASSUME NamedOnce(s)
      PROVE  NamedOnce(Dismiss(s, a)) /\ Cardinality(Dismiss(s, a)) >= Cardinality(s) - 1
  <2>1. CASE Dismiss(s, a) = s
    BY <1>1, <1>3, <2>1, FS_CardinalityType
  <2>2. CASE Dismiss(s, a) # s
    <3>1. PICK e \in s : e[1] = a
      BY <1>1, <2>2 DEF Dismiss
    <3>2. Dismiss(s, a) = s \ {e}
      BY <1>3, <3>1 DEF Dismiss, NamedOnce
    <3>3. Cardinality(s \ {e}) = Cardinality(s) - 1 /\ Cardinality(s) \in Nat
      BY <1>1, <3>1, FS_RemoveElement, FS_CardinalityType
    <3> QED
      BY <1>1, <1>3, <3>2, <3>3 DEF NamedOnce
  <2> QED
    BY <2>1, <2>2
<1> QED
  BY <1>2, <1>3

-----------------------------------------------------------------------------
\* The records of what is pending.

RecordInv ==
    /\ TypeOK /\ GovInv
    /\ PendingExact /\ VotesAreSingle

\* Proposals are numbered, so that there are finitely many.
LEMMA IdsFinite == IsFiniteSet(Ids)
<1>1. 0 \in Int /\ MaxProposals - 1 \in Int
  BY DurationsAssumption
<1> QED
  BY <1>1, FS_Interval DEF Ids

\* Initially there is nothing to disagree about.
LEMMA InitRecords == Init => RecordInv
<1> SUFFICES ASSUME Init PROVE RecordInv
  OBVIOUS
<1>1. TypeOK
  <2>1. NoMultisig \in MultiSigConfig
    BY FS_EmptySet DEF NoMultisig, MultiSigConfig, AdminVectors
  <2>2. 0 \in 0..MaxTime /\ 0 \in 0..MaxProposals
    BY DurationsAssumption
  <2>3. stats \in [total_executed : Nat, total_expired : Nat, pending_count : Nat]
    BY DEF Init
  <2> QED
    BY <2>1, <2>2, <2>3 DEF Init, TypeOK, Configs, Roles
<1>2. Stored = {} /\ Undecided = {}
  BY DEF Init, Stored, Undecided
<1>3. PendingExact
  <2>1. Stored \ Undecided = {} /\ Cardinality({}) = 0
    BY <1>2, FS_EmptySet
  <2> QED
    BY <1>2, <2>1 DEF Init, PendingExact
<1> QED
  BY <1>1, <1>2, <1>3, InitGov DEF RecordInv, VotesAreSingle

\* Performing an action keeps the types of what it governs.
LEMMA PerformKeeps ==
  ASSUME TypeOK, NEW act \in Actions, Perform(act)
  PROVE  /\ config' \in Configs /\ paused' \in BOOLEAN /\ emergency' \in BOOLEAN
         /\ role' \in [Accounts -> Roles] /\ blacklisted' \subseteq Accounts
         /\ multisig' \in MultiSigConfig
<1> USE DEF TypeOK
<1>1. /\ multisig \in MultiSigConfig /\ multisig.admins \in AdminVectors
      /\ act \in ProposalAction /\ act.users \subseteq Accounts /\ act.multisig \in MultiSigConfig
      /\ act.kind = "SetRole" => act.role \in Roles
      /\ act.kind = "UpdateConfig" => act.config \in Configs
  BY ActionsAssumption DEF ProposalAction, MultiSigConfig
<1>2. CASE /\ act.kind = "SetRole"
           /\ role' = [u \in Accounts |-> IF u \in act.users THEN act.role ELSE role[u]]
           /\ UNCHANGED <<config, paused, emergency, multisig, blacklisted>>
  BY <1>1, <1>2
<1>3. CASE /\ act.kind = "UpdateConfig" /\ config' = act.config
           /\ UNCHANGED <<paused, emergency, multisig, role, blacklisted>>
  BY <1>1, <1>3
<1>4. CASE /\ paused' = TRUE /\ emergency' = (emergency \/ act.kind = "EmergencyPause")
           /\ UNCHANGED <<config, multisig, role, blacklisted>>
  BY <1>1, <1>4
<1>5. CASE /\ paused' = FALSE
           /\ UNCHANGED <<config, emergency, multisig, role, blacklisted>>
  BY <1>1, <1>5
<1>6. CASE /\ act.kind = "UpdateMultisigConfig" /\ Validate(act.multisig)
           /\ multisig' = act.multisig
           /\ UNCHANGED <<config, paused, emergency, role, blacklisted>>
  BY <1>1, <1>6
<1>7. CASE /\ blacklisted' = blacklisted \cup act.users
           /\ UNCHANGED <<config, paused, emergency, multisig, role>>
  BY <1>1, <1>7
<1>8. ASSUME NEW s \in AdminVectors, NEW a \in act.users, NEW r \in Roles,
             multisig' = [multisig EXCEPT !.admins = s], role' = [role EXCEPT ![a] = r]
      PROVE  multisig' \in MultiSigConfig /\ role' \in [Accounts -> Roles]
  BY <1>1, <1>8 DEF MultiSigConfig
<1>9. ASSUME NEW a \in act.users, a \notin Named(multisig.admins),
             multisig' = [multisig EXCEPT !.admins = @ \cup {<<a, 0>>}],
             role' = [role EXCEPT ![a] = "Admin"]
      PROVE  multisig' \in MultiSigConfig /\ role' \in [Accounts -> Roles]
  <2>1. multisig.admins \cup {<<a, 0>>} \in AdminVectors
    BY <1>1, <1>9, AppointOne
  <2> QED
    BY <1>8, <1>9, <2>1 DEF Roles
<1>10. ASSUME NEW a \in act.users,
              multisig' = [multisig EXCEPT !.admins = Dismiss(@, a)],
              role' = [role EXCEPT ![a] = "Guest"]
      PROVE  multisig' \in MultiSigConfig /\ role' \in [Accounts -> Roles]
  <2>1. Dismiss(multisig.admins, a) \in AdminVectors
    BY <1>1, DismissOne
  <2> QED
    BY <1>8, <1>10, <2>1 DEF Roles
<1>11. /\ config \in Configs /\ paused \in BOOLEAN /\ emergency \in BOOLEAN
       /\ blacklisted \subseteq Accounts
  OBVIOUS
<1> HIDE DEF TypeOK
<1> QED
  BY <1>2, <1>3, <1>4, <1>5, <1>6, <1>7, <1>9, <1>10, <1>11 DEF Perform

\* What a vote leaves behind, decided or not, is stored once and counted once.
VoteRecorded(i, p, list, count) ==
    /\ Votes(i, p, list, count) /\ MultisigEnabled
    /\ list = [j \in Ids |-> IF j \in Undecided \cup {i} THEN 1 ELSE 0]
    /\ count = Cardinality(Undecided \cup {i})
    /\ IsInjective(p.approvals \o p.rejections)
    /\ UNCHANGED <<now, initialized, admin, transfer>>

\* A creation files its proposal.
LEMMA CreateRecorded ==
  ASSUME RecordInv, NEW a \in Accounts, NEW act \in Actions, CreateProposal(a, act)
  PROVE  \E p, list, count : VoteRecorded(counter, p, list, count)
<1> DEFINE lock == IF RequiresTimeLock(act.kind)
                   THEN now + multisig.time_lock_duration ELSE None
           p == [action |-> act, proposer |-> a, approvals |-> <<a>>,
                 rejections |-> <<>>, executed |-> FALSE,
                 expiry |-> now + multisig.proposal_expiry_duration,
                 time_lock_until |-> lock,
                 required_signatures |-> RequiredSignatures(act.kind)]
           list == [pending EXCEPT ![counter] = @ + 1]
           count == stats.pending_count + 1
<1>1. StoreAndExecute(counter, p, list, count) /\ counter \in Ids /\ MultisigEnabled
      /\ UNCHANGED <<now, initialized, admin, transfer>>
  BY DEF CreateProposal
<1>2. Votes(counter, p, list, count)
  <2>1. /\ now \in Nat /\ counter \in Nat /\ proposal[counter] = Absent
        /\ multisig \in MultiSigConfig
    BY <1>1 DEF RecordInv, GovInv, TypeOK
  <2>2. /\ multisig.proposal_expiry_duration \in Nat /\ multisig.time_lock_duration \in Nat
        /\ RequiredSignatures(act.kind) \in Nat
    BY <2>1 DEF MultiSigConfig, RequiredSignatures
  <2>3. lock \in Nat \cup {None}
    BY <2>1, <2>2
  <2>4. /\ now + multisig.proposal_expiry_duration \in Nat
        /\ now <= now + multisig.proposal_expiry_duration
    BY <2>1, <2>2
  <2>5. <<a>> \in Seq(Accounts) /\ <<>> \in Seq(Accounts)
    OBVIOUS
  <2> HIDE DEF lock
  <2>6. p \in PendingProposal /\ ~p.executed /\ now <= p.expiry
    BY <2>2, <2>3, <2>4, <2>5 DEF PendingProposal
  <2>7. ~proposal[counter].executed
    BY <2>1 DEF Absent
  <2> HIDE DEF p, list, count
  <2> QED
    BY <1>1, <2>6, <2>7 DEF Votes
<1>3. counter \notin Undecided /\ Undecided \subseteq Ids
  BY <1>1 DEF RecordInv, GovInv, Undecided, Stored, Ids
<1>4. list = [j \in Ids |-> IF j \in Undecided \cup {counter} THEN 1 ELSE 0]
  <2> DEFINE full == [j \in Ids |-> IF j \in Undecided \cup {counter} THEN 1 ELSE 0]
  <2>1. /\ pending \in [Ids -> Nat] /\ counter \in Ids
        /\ \A j \in Ids : pending[j] = IF j \in Undecided THEN 1 ELSE 0
    BY <1>1 DEF RecordInv, PendingExact, TypeOK
  <2> HIDE DEF p, lock, count
  <2>2. pending[counter] + 1 = 1
    BY <1>3, <2>1
  <2>3. \A j \in Ids : list[j] = full[j]
    BY <2>1, <2>2
  <2> QED
    BY <2>1, <2>3
<1>5. count = Cardinality(Undecided \cup {counter})
  <2>1. IsFiniteSet(Undecided)
    BY <1>3, IdsFinite, FS_Subset
  <2>2. Cardinality(Undecided \cup {counter}) = Cardinality(Undecided) + 1
    BY <1>3, <2>1, FS_AddElement
  <2> QED
    BY <2>2 DEF RecordInv, PendingExact
<1>6. IsInjective(p.approvals \o p.rejections)
  <2>1. p.approvals \o p.rejections = <<a>>
    <3>1. <<a>> \in Seq(Accounts)
      OBVIOUS
    <3>2. <<a>> \o <<>> = <<a>>
      BY <3>1, ConcatEmptySeq
    <3> QED
      BY <3>2
  <2> QED
    BY <2>1 DEF IsInjective
<1> HIDE DEF p, list, count
<1> QED
  BY <1>1, <1>2, <1>4, <1>5, <1>6 DEF VoteRecorded

\* A vote on a proposal is the only one of its voter.
LEMMA VoteOnce ==
  ASSUME NEW s \in Seq(Accounts), NEW t \in Seq(Accounts), IsInjective(s \o t),
         NEW a \in Accounts, a \notin ToSet(s) \cup ToSet(t)
  PROVE  IsInjective(Append(s, a) \o t) /\ IsInjective(s \o Append(t, a))
<1>1. IsInjective(s) /\ IsInjective(t) /\ ToSet(s) \cap ToSet(t) = {}
  BY InjectiveConcat
<1>2. /\ Append(s, a) \in Seq(Accounts) /\ ToSet(Append(s, a)) = ToSet(s) \cup {a}
      /\ IsInjective(Append(s, a))
      /\ Append(t, a) \in Seq(Accounts) /\ ToSet(Append(t, a)) = ToSet(t) \cup {a}
      /\ IsInjective(Append(t, a))
  BY <1>1, AppendOne
<1>3. ToSet(Append(s, a)) \cap ToSet(t) = {} /\ ToSet(s) \cap ToSet(Append(t, a)) = {}
  BY <1>1, <1>2
<1> QED
  BY <1>1, <1>2, <1>3, InjectiveConcat

\* An approval keeps its proposal filed.
LEMMA ApproveRecorded ==
  ASSUME RecordInv, NEW a \in Accounts, NEW i \in Ids, ApproveProposal(a, i)
  PROVE  /\ i \in Undecided /\ counter' = counter
         /\ \E p, list, count : VoteRecorded(i, p, list, count)
<1> DEFINE p == [proposal[i] EXCEPT !.approvals = Append(@, a)]
<1>1. /\ proposal[i] \in PendingProposal /\ ~proposal[i].executed /\ now <= proposal[i].expiry
      /\ i \in Undecided /\ i \in Stored /\ counter' = counter
      /\ UNCHANGED <<now, initialized, admin, transfer>>
      /\ StoreAndExecute(i, p, pending, stats.pending_count)
      /\ a \notin ToSet(proposal[i].approvals) \cup ToSet(proposal[i].rejections)
  BY DEF RecordInv, GovInv, ApproveProposal, MayVote, Undecided, Stored
<1>2. p \in PendingProposal /\ ~p.executed /\ now <= p.expiry
  BY <1>1, OneMoreVote
<1>3. /\ p.approvals = Append(proposal[i].approvals, a) /\ p.rejections = proposal[i].rejections
      /\ proposal[i].approvals \in Seq(Accounts) /\ proposal[i].rejections \in Seq(Accounts)
  BY <1>1 DEF PendingProposal
<1>4. IsInjective(p.approvals \o p.rejections)
  <2>1. IsInjective(proposal[i].approvals \o proposal[i].rejections)
    BY <1>1 DEF RecordInv, VotesAreSingle
  <2> HIDE DEF p
  <2> QED
    BY <1>1, <1>3, <2>1, VoteOnce
<1> HIDE DEF p
<1>5. Votes(i, p, pending, stats.pending_count)
  BY <1>1, <1>2 DEF Votes
<1>6. MultisigEnabled
  BY <1>1 DEF RecordInv, GovInv, Stored
<1>7. /\ Undecided \cup {i} = Undecided
      /\ pending = [j \in Ids |-> IF j \in Undecided THEN 1 ELSE 0]
      /\ stats.pending_count = Cardinality(Undecided)
  BY <1>1 DEF RecordInv, PendingExact, TypeOK
<1>8. VoteRecorded(i, p, pending, stats.pending_count)
  BY <1>1, <1>4, <1>5, <1>6, <1>7 DEF VoteRecorded
<1> QED
  BY <1>1, <1>8

\* Storing a record that is not decided yet, or no longer.
LEMMA OneStored ==
  ASSUME RecordInv, NEW i \in Ids, NEW r \in PendingProposal, ~proposal[i].executed,
         proposal' = [proposal EXCEPT ![i] = r]
  PROVE  /\ proposal' \in [Ids -> PendingProposal \cup {Absent}]
         /\ proposal'[i] = r /\ \A j \in Ids \ {i} : proposal'[j] = proposal[j]
         /\ Stored' = Stored \cup {i}
         /\ Undecided' = IF r.executed THEN Undecided \ {i} ELSE Undecided \cup {i}
         /\ r.executed => Cardinality(Stored' \ Undecided') = Cardinality(Stored \ Undecided) + 1
         /\ ~r.executed => Stored' \ Undecided' = Stored \ Undecided
<1>1. /\ proposal \in [Ids -> PendingProposal \cup {Absent}]
      /\ proposal' \in [Ids -> PendingProposal \cup {Absent}]
      /\ proposal'[i] = r /\ \A j \in Ids \ {i} : proposal'[j] = proposal[j]
  BY DEF RecordInv, TypeOK
<1>2. r # Absent
  BY AccessNoneAssumption DEF PendingProposal, Absent
<1>3. Stored' = Stored \cup {i}
  BY <1>1, <1>2 DEF Stored
<1>4. Undecided' = IF r.executed THEN Undecided \ {i} ELSE Undecided \cup {i}
  BY <1>1, <1>2, <1>3 DEF Undecided, Stored
<1>5. i \notin Stored \ Undecided /\ Undecided \subseteq Stored
  BY DEF Undecided
<1>6. ASSUME r.executed
      PROVE  Cardinality(Stored' \ Undecided') = Cardinality(Stored \ Undecided) + 1
  <2>1. Stored' \ Undecided' = (Stored \ Undecided) \cup {i}
    BY <1>3, <1>4, <1>5, <1>6
  <2>2. Stored \ Undecided \subseteq Ids
    BY DEF Stored
  <2>3. IsFiniteSet(Stored \ Undecided)
    BY <2>2, IdsFinite, FS_Subset
  <2> QED
    BY <1>5, <2>1, <2>3, FS_AddElement
<1>7. ASSUME ~r.executed
      PROVE  Stored' \ Undecided' = Stored \ Undecided
  BY <1>3, <1>4, <1>5, <1>7
<1> QED
  BY <1>1, <1>3, <1>4, <1>6, <1>7

\* A vote leaves the records in agreement, whether it decides or not.
LEMMA VoteKeeps ==
  ASSUME RecordInv, GovInv', NEW i, NEW p, NEW list, NEW count,
         VoteRecorded(i, p, list, count), counter' \in 0..MaxProposals
  PROVE  RecordInv'
<1>1. /\ i \in Ids /\ p \in PendingProposal /\ ~p.executed /\ ~proposal[i].executed
      /\ StoreAndExecute(i, p, list, count) /\ MultisigEnabled
      /\ list = [j \in Ids |-> IF j \in Undecided \cup {i} THEN 1 ELSE 0]
      /\ count = Cardinality(Undecided \cup {i})
      /\ IsInjective(p.approvals \o p.rejections)
      /\ now' = now /\ initialized' = initialized /\ admin' = admin /\ transfer' = transfer
  BY DEF VoteRecorded, Votes
<1>2. /\ IsFiniteSet(Undecided) /\ Undecided \subseteq Ids /\ Undecided \subseteq Stored
      /\ stats \in [total_executed : Nat, total_expired : Nat, pending_count : Nat]
      /\ stats.total_executed = Cardinality(Stored \ Undecided)
  <2>1. Undecided \subseteq Ids /\ Undecided \subseteq Stored
    BY DEF Undecided, Stored
  <2> QED
    BY <2>1, IdsFinite, FS_Subset DEF RecordInv, TypeOK, PendingExact
<1>3. VotesAreSingle /\ TypeOK
  BY DEF RecordInv
<1>4. CASE Executable(p)
  <2> DEFINE q == [p EXCEPT !.executed = TRUE]
  <2>1. /\ q \in PendingProposal /\ q.executed /\ q.approvals = p.approvals
        /\ q.rejections = p.rejections /\ p.action \in Actions
    BY <1>1 DEF PendingProposal
  <2>2. /\ Perform(p.action) /\ proposal' = [proposal EXCEPT ![i] = q]
        /\ pending' = Without(list, {i})
        /\ stats' = [stats EXCEPT !.total_executed = @ + 1, !.pending_count = Fewer(count, 1)]
    BY <1>1, <1>4 DEF StoreAndExecute
  <2> HIDE DEF q
  <2>3. /\ proposal' \in [Ids -> PendingProposal \cup {Absent}]
        /\ proposal'[i] = q /\ \A j \in Ids \ {i} : proposal'[j] = proposal[j]
        /\ Stored' = Stored \cup {i} /\ Undecided' = Undecided \ {i}
        /\ Cardinality(Stored' \ Undecided') = Cardinality(Stored \ Undecided) + 1
    BY <1>1, <2>1, <2>2, OneStored
  <2>4. Fewer(count, 1) = Cardinality(Undecided') /\ Cardinality(Undecided') \in Nat
    <3>1. IsFiniteSet(Undecided') /\ i \notin Undecided' /\ Undecided \cup {i} = Undecided' \cup {i}
      BY <1>2, <2>3, FS_Subset
    <3>2. count = Cardinality(Undecided') + 1 /\ Cardinality(Undecided') \in Nat
      BY <1>1, <3>1, FS_AddElement, FS_CardinalityType
    <3> QED
      BY <3>2 DEF Fewer, Larger
  <2>5. /\ stats'.total_executed = Cardinality(Stored' \ Undecided')
        /\ stats'.pending_count = Cardinality(Undecided')
        /\ stats' \in [total_executed : Nat, total_expired : Nat, pending_count : Nat]
    <3>1. /\ stats'.total_executed = stats.total_executed + 1
          /\ stats'.pending_count = Fewer(count, 1)
          /\ stats'.total_expired = stats.total_expired
          /\ DOMAIN stats' = {"total_executed", "total_expired", "pending_count"}
          /\ stats' = [f \in DOMAIN stats' |-> stats'[f]]
      BY <1>2, <2>2
    <3>2. stats.total_executed \in Nat /\ stats.total_expired \in Nat
      BY <1>2
    <3>3. stats'.total_executed = Cardinality(Stored' \ Undecided')
      BY <1>2, <2>3, <3>1
    <3>4. /\ stats'.total_executed \in Nat /\ stats'.total_expired \in Nat
          /\ stats'.pending_count \in Nat
      BY <2>4, <3>1, <3>2
    <3>5. stats' \in [total_executed : Nat, total_expired : Nat, pending_count : Nat]
      BY <3>1, <3>4
    <3> QED
      BY <2>4, <3>1, <3>3, <3>5
  <2>6. /\ pending' \in [Ids -> Nat]
        /\ \A j \in Ids : pending'[j] = IF j \in Undecided' THEN 1 ELSE 0
    BY <1>1, <2>2, <2>3 DEF Without
  <2>7. /\ config' \in Configs /\ paused' \in BOOLEAN /\ emergency' \in BOOLEAN
        /\ role' \in [Accounts -> Roles] /\ blacklisted' \subseteq Accounts
        /\ multisig' \in MultiSigConfig
    BY <1>3, <2>1, <2>2, PerformKeeps
  <2>8. TypeOK'
    BY <1>1, <1>3, <2>3, <2>5, <2>6, <2>7 DEF TypeOK
  <2>9. VotesAreSingle'
    <3>1. ASSUME NEW j \in Stored'
          PROVE  IsInjective(proposal'[j].approvals \o proposal'[j].rejections)
      <4>1. j \in Stored \/ j = i
        BY <2>3
      <4>2. CASE j = i
        BY <1>1, <2>1, <2>3, <4>2
      <4>3. CASE j \in Stored /\ j # i
        BY <1>3, <2>3, <4>3 DEF VotesAreSingle, Stored
      <4> QED
        BY <4>1, <4>2, <4>3
    <3> QED
      BY <3>1 DEF VotesAreSingle
  <2>10. PendingExact'
    BY <2>5, <2>6 DEF PendingExact
  <2> QED
    BY <2>8, <2>9, <2>10 DEF RecordInv
<1>5. CASE ~Executable(p)
  <2>1. /\ proposal' = [proposal EXCEPT ![i] = p] /\ pending' = list
        /\ stats' = [stats EXCEPT !.pending_count = count]
        /\ UNCHANGED governed
    BY <1>1, <1>5 DEF StoreAndExecute
  <2>2. /\ proposal' \in [Ids -> PendingProposal \cup {Absent}]
        /\ proposal'[i] = p /\ \A j \in Ids \ {i} : proposal'[j] = proposal[j]
        /\ Stored' = Stored \cup {i} /\ Undecided' = Undecided \cup {i}
        /\ Stored' \ Undecided' = Stored \ Undecided
    BY <1>1, <2>1, OneStored
  <2>3. IsFiniteSet(Undecided') /\ Cardinality(Undecided') \in Nat
    BY <1>2, <2>2, FS_AddElement, FS_CardinalityType
  <2>4. /\ stats'.total_executed = Cardinality(Stored' \ Undecided')
        /\ stats'.pending_count = Cardinality(Undecided')
        /\ stats' \in [total_executed : Nat, total_expired : Nat, pending_count : Nat]
    BY <1>1, <1>2, <2>1, <2>2, <2>3
  <2>5. /\ pending' \in [Ids -> Nat]
        /\ \A j \in Ids : pending'[j] = IF j \in Undecided' THEN 1 ELSE 0
    BY <1>1, <2>1, <2>2
  <2>6. TypeOK'
    BY <1>1, <1>3, <2>1, <2>2, <2>4, <2>5 DEF TypeOK, governed
  <2>7. VotesAreSingle'
    <3>1. ASSUME NEW j \in Stored'
          PROVE  IsInjective(proposal'[j].approvals \o proposal'[j].rejections)
      <4>1. j \in Stored \/ j = i
        BY <2>2
      <4>2. CASE j = i
        BY <1>1, <2>2, <4>2
      <4>3. CASE j \in Stored /\ j # i
        BY <1>3, <2>2, <4>3 DEF VotesAreSingle, Stored
      <4> QED
        BY <4>1, <4>2, <4>3
    <3> QED
      BY <3>1 DEF VotesAreSingle
  <2>8. PendingExact'
    BY <2>4, <2>5 DEF PendingExact
  <2> QED
    BY <2>6, <2>7, <2>8 DEF RecordInv
<1> QED
  BY <1>4, <1>5

\* A rejection is a vote too, and decides nothing.
LEMMA RejectKeeps ==
  ASSUME RecordInv, GovInv', NEW a \in Accounts, NEW i \in Ids, RejectProposal(a, i)
  PROVE  RecordInv'
<1> DEFINE p == [proposal[i] EXCEPT !.rejections = Append(@, a)]
<1>1. /\ proposal[i] \in PendingProposal /\ ~proposal[i].executed
      /\ i \in Undecided /\ i \in Stored
      /\ proposal' = [proposal EXCEPT ![i] = p]
      /\ UNCHANGED <<now, initialized, admin, transfer, governed, counter, pending, stats>>
      /\ a \notin ToSet(proposal[i].approvals) \cup ToSet(proposal[i].rejections)
  <2>1. proposal' = [proposal EXCEPT ![i] = p]
    BY DEF RejectProposal
  <2> HIDE DEF p
  <2> QED
    BY <2>1 DEF RecordInv, GovInv, RejectProposal, MayVote, Undecided, Stored
<1>2. /\ p \in PendingProposal /\ ~p.executed
      /\ p.approvals = proposal[i].approvals /\ p.rejections = Append(proposal[i].rejections, a)
      /\ p.time_lock_until = proposal[i].time_lock_until
      /\ p.required_signatures = proposal[i].required_signatures
      /\ proposal[i].approvals \in Seq(Accounts) /\ proposal[i].rejections \in Seq(Accounts)
  <2>1. p \in PendingProposal /\ ~p.executed
    BY <1>1, OneMoreVote
  <2> QED
    BY <1>1, <2>1 DEF PendingProposal
<1> HIDE DEF p
<1>3. IsInjective(p.approvals \o p.rejections)
  <2>1. IsInjective(proposal[i].approvals \o proposal[i].rejections)
    BY <1>1 DEF RecordInv, VotesAreSingle
  <2> QED
    BY <1>1, <1>2, <2>1, VoteOnce
<1>4. /\ proposal' \in [Ids -> PendingProposal \cup {Absent}]
      /\ proposal'[i] = p /\ \A j \in Ids \ {i} : proposal'[j] = proposal[j]
      /\ Stored' = Stored /\ Undecided' = Undecided
  <2>1. /\ proposal' \in [Ids -> PendingProposal \cup {Absent}]
        /\ proposal'[i] = p /\ \A j \in Ids \ {i} : proposal'[j] = proposal[j]
        /\ Stored' = Stored \cup {i} /\ Undecided' = Undecided \cup {i}
    BY <1>1, <1>2, OneStored
  <2>2. Stored \cup {i} = Stored /\ Undecided \cup {i} = Undecided
    BY <1>1
  <2> QED
    BY <2>1, <2>2
<1>5. TypeOK'
  BY <1>1, <1>4 DEF RecordInv, TypeOK, governed
<1>6. PendingExact'
  BY <1>1, <1>4 DEF RecordInv, PendingExact
<1>7. VotesAreSingle'
  <2>1. ASSUME NEW j \in Stored
        PROVE  IsInjective(proposal'[j].approvals \o proposal'[j].rejections)
    BY <1>3, <1>4 DEF RecordInv, VotesAreSingle, Stored
  <2> QED
    BY <1>4, <2>1 DEF VotesAreSingle
<1> QED
  BY <1>5, <1>6, <1>7 DEF RecordInv

\* Discarding undecided proposals takes each of them out of all three records.
LEMMA DiscardKeeps ==
  ASSUME RecordInv, GovInv', NEW ids, ids \subseteq Undecided, NEW n \in Nat, Discard(ids, n)
  PROVE  RecordInv'
<1>1. /\ proposal' = [i \in Ids |-> IF i \in ids THEN Absent ELSE proposal[i]]
      /\ pending' = Without(pending, ids)
      /\ stats' = [stats EXCEPT !.total_expired = @ + n,
                                !.pending_count = Fewer(@, Cardinality(ids))]
      /\ UNCHANGED <<now, initialized, admin, transfer, governed, counter>>
  BY DEF Discard
<1>2. /\ proposal \in [Ids -> PendingProposal \cup {Absent}]
      /\ stats \in [total_executed : Nat, total_expired : Nat, pending_count : Nat]
      /\ Undecided \subseteq Stored /\ Stored \subseteq Ids /\ IsFiniteSet(Undecided)
  <2>1. Undecided \subseteq Stored /\ Stored \subseteq Ids
    BY DEF Undecided, Stored
  <2> QED
    BY <2>1, IdsFinite, FS_Subset DEF RecordInv, TypeOK
<1>3. /\ proposal' \in [Ids -> PendingProposal \cup {Absent}]
      /\ \A j \in Ids \ ids : proposal'[j] = proposal[j]
      /\ Stored' = Stored \ ids /\ Undecided' = Undecided \ ids
      /\ Stored' \ Undecided' = Stored \ Undecided
  <2>1. Stored' = Stored \ ids
    BY <1>1 DEF Stored
  <2>2. Undecided' = Undecided \ ids
    BY <1>1, <2>1 DEF Undecided, Stored
  <2> QED
    BY <1>1, <1>2, <2>1, <2>2
<1>4. /\ Fewer(stats.pending_count, Cardinality(ids)) = Cardinality(Undecided')
      /\ Cardinality(Undecided') \in Nat
  <2>1. Cardinality(Undecided \ ids) = Cardinality(Undecided) - Cardinality(Undecided \cap ids)
    BY <1>2, FS_Difference
  <2>2. Undecided \cap ids = ids
    OBVIOUS
  <2>3. Cardinality(Undecided') \in Nat
    BY <1>2, <1>3, FS_Subset, FS_CardinalityType
  <2>4. stats.pending_count = Cardinality(Undecided)
    BY DEF RecordInv, PendingExact
  <2>5. Cardinality(Undecided') = stats.pending_count - Cardinality(ids)
    BY <1>3, <2>1, <2>2, <2>4
  <2> QED
    BY <2>3, <2>5 DEF Fewer, Larger
<1>5. /\ stats'.total_executed = Cardinality(Stored' \ Undecided')
      /\ stats'.pending_count = Cardinality(Undecided')
      /\ stats' \in [total_executed : Nat, total_expired : Nat, pending_count : Nat]
  <2>1. /\ stats'.total_executed = stats.total_executed
        /\ stats'.pending_count = Fewer(stats.pending_count, Cardinality(ids))
        /\ stats'.total_expired = stats.total_expired + n
        /\ DOMAIN stats' = {"total_executed", "total_expired", "pending_count"}
        /\ stats' = [f \in DOMAIN stats' |-> stats'[f]]
    BY <1>1, <1>2
  <2>2. /\ stats.total_executed \in Nat /\ stats.total_expired \in Nat
        /\ stats.total_executed = Cardinality(Stored \ Undecided)
    BY <1>2 DEF RecordInv, PendingExact
  <2>3. /\ stats'.total_executed \in Nat /\ stats'.total_expired \in Nat
        /\ stats'.pending_count \in Nat
    BY <1>4, <2>1, <2>2
  <2>4. stats' \in [total_executed : Nat, total_expired : Nat, pending_count : Nat]
    BY <2>1, <2>3
  <2> QED
    BY <1>3, <1>4, <2>1, <2>2, <2>4
<1>6. /\ pending' \in [Ids -> Nat]
      /\ \A j \in Ids : pending'[j] = IF j \in Undecided' THEN 1 ELSE 0
  <2>1. /\ pending \in [Ids -> Nat]
        /\ \A j \in Ids : pending[j] = IF j \in Undecided THEN 1 ELSE 0
    BY DEF RecordInv, TypeOK, PendingExact
  <2>2. pending' = [j \in Ids |-> IF j \in ids THEN 0 ELSE pending[j]]
    BY <1>1 DEF Without
  <2> QED
    BY <1>3, <2>1, <2>2
<1>7. TypeOK'
  BY <1>1, <1>3, <1>5, <1>6 DEF RecordInv, TypeOK, governed
<1>8. PendingExact'
  BY <1>5, <1>6 DEF PendingExact
<1>9. VotesAreSingle'
  <2>1. \A j \in Stored' : j \in Stored /\ proposal'[j] = proposal[j]
    BY <1>2, <1>3
  <2> QED
    BY <2>1 DEF RecordInv, VotesAreSingle
<1> QED
  BY <1>7, <1>8, <1>9 DEF RecordInv

\* The initial configuration has the types of a configuration.
LEMMA InitializeMultisigKeeps ==
  ASSUME RecordInv, GovInv', NEW admins \in AdminLists, NEW required \in 1..Cardinality(admins),
         InitializeMultisig(admins, required)
  PROVE  RecordInv'
<1> DEFINE m == DefaultConfig(admins, required)
<1>1. /\ multisig' = m /\ initialized'
      /\ role' = [a \in Accounts |-> IF a \in Named(admins) THEN "Admin" ELSE role[a]]
      /\ UNCHANGED <<now, admin, config, paused, blacklisted, transfer, emergency, votes>>
  BY DEF InitializeMultisig
<1>2. m \in MultiSigConfig /\ m.admins = admins
  <2>1. admins \in AdminVectors /\ Cardinality(admins) \in Nat /\ required \in Nat
    BY ActionsAssumption, FS_CardinalityType DEF AdminVectors
  <2>2. /\ TimeLockDuration \in Nat /\ ProposalExpiry \in Nat /\ MaxPendingProposals \in Nat
    BY DurationsAssumption
  <2>3. Smaller(required + 1, Cardinality(admins)) \in Nat
    BY <2>1 DEF Smaller
  <2>4. Smaller(Smaller(required + 1, Cardinality(admins)) + 1, Cardinality(admins)) \in Nat
    BY <2>1, <2>3 DEF Smaller
  <2> QED
    BY <2>1, <2>2, <2>3, <2>4 DEF DefaultConfig, MultiSigConfig
<1> HIDE DEF m
<1>3. role' \in [Accounts -> Roles]
  BY <1>1 DEF RecordInv, TypeOK, Roles
<1>4. TypeOK'
  <2>1. TypeOK /\ UNCHANGED <<proposal, counter, pending, stats>>
    BY <1>1 DEF RecordInv, votes
  <2> QED
    BY <1>1, <1>2, <1>3, <2>1 DEF TypeOK
<1>5. Stored' = Stored /\ Undecided' = Undecided
  BY <1>1 DEF Stored, Undecided, votes
<1>6. PendingExact' /\ VotesAreSingle'
  BY <1>1, <1>5 DEF RecordInv, PendingExact, VotesAreSingle, votes
<1> QED
  BY <1>4, <1>6 DEF RecordInv

\* What leaves proposals and the multisig alone only has types to keep.
LEMMA AloneKeeps ==
  ASSUME RecordInv, GovInv', UNCHANGED <<multisig, votes>>,
         now' \in 0..MaxTime, initialized' \in BOOLEAN, paused' \in BOOLEAN,
         emergency' \in BOOLEAN, admin' \in Accounts \cup {None}, config' \in Configs,
         role' \in [Accounts -> Roles], blacklisted' \subseteq Accounts,
         transfer' \in [proposed : Accounts, proposer : Accounts, expiry : Nat] \cup {None}
  PROVE  RecordInv'
<1>1. UNCHANGED <<multisig, proposal, counter, pending, stats>> /\ TypeOK
  BY DEF RecordInv, votes
<1>2. TypeOK'
  BY <1>1 DEF TypeOK
<1>3. Stored' = Stored /\ Undecided' = Undecided
  BY <1>1 DEF Stored, Undecided
<1>4. PendingExact' /\ VotesAreSingle'
  BY <1>1, <1>3 DEF RecordInv, PendingExact, VotesAreSingle
<1> QED
  BY <1>2, <1>4 DEF RecordInv

\* The operations of one administrator leave them alone.
LEMMA OneAdminKeeps ==
  ASSUME RecordInv, GovInv', NEW a \in Accounts,
         \/ Initialize(a)
         \/ \E u \in Targets, r \in Roles : SetRole(a, u, r)
         \/ \E u \in Targets :
              RemoveRole(a, u) \/ BlacklistUser(a, u) \/ UnblacklistUser(a, u)
         \/ \E c \in Configs : UpdateConfig(a, c)
         \/ \E p \in BOOLEAN : SetPaused(a, p)
         \/ DeactivateEmergencyMode(a)
         \/ \E new \in Accounts : ProposeAdminTransfer(a, new)
         \/ AcceptAdminTransfer(a) \/ CancelAdminTransfer(a)
  PROVE  RecordInv'
<1>1. /\ now \in 0..MaxTime /\ initialized \in BOOLEAN /\ paused \in BOOLEAN
      /\ emergency \in BOOLEAN /\ admin \in Accounts \cup {None} /\ config \in Configs
      /\ role \in [Accounts -> Roles] /\ blacklisted \subseteq Accounts
      /\ transfer \in [proposed : Accounts, proposer : Accounts, expiry : Nat] \cup {None}
  BY DEF RecordInv, TypeOK
<1>2. Targets \subseteq Accounts /\ {"Guest", "Admin"} \subseteq Roles
  BY TargetsAssumption DEF Roles
<1>3. CASE Initialize(a)
  BY <1>1, <1>2, <1>3, AloneKeeps DEF Initialize
<1>4. ASSUME NEW u \in Targets, NEW r \in Roles, SetRole(a, u, r)
      PROVE  RecordInv'
  BY <1>1, <1>2, <1>4, AloneKeeps DEF SetRole
<1>5. ASSUME NEW u \in Targets, RemoveRole(a, u)
      PROVE  RecordInv'
  BY <1>1, <1>2, <1>5, AloneKeeps DEF RemoveRole
<1>6. ASSUME NEW u \in Targets, BlacklistUser(a, u) \/ UnblacklistUser(a, u)
      PROVE  RecordInv'
  BY <1>1, <1>2, <1>6, AloneKeeps DEF BlacklistUser, UnblacklistUser, Blacklist
<1>7. ASSUME NEW c \in Configs, UpdateConfig(a, c)
      PROVE  RecordInv'
  BY <1>1, <1>7, AloneKeeps DEF UpdateConfig
<1>8. ASSUME NEW p \in BOOLEAN, SetPaused(a, p)
      PROVE  RecordInv'
  BY <1>1, <1>8, AloneKeeps DEF SetPaused
<1>9. CASE DeactivateEmergencyMode(a)
  BY <1>1, <1>9, AloneKeeps DEF DeactivateEmergencyMode
<1>10. ASSUME NEW new \in Accounts, ProposeAdminTransfer(a, new)
       PROVE  RecordInv'
  <2>1. now + TransferWindow \in Nat
    BY <1>1, DurationsAssumption
  <2>2. transfer' \in [proposed : Accounts, proposer : Accounts, expiry : Nat] \cup {None}
    BY <1>10, <2>1 DEF ProposeAdminTransfer
  <2> QED
    BY <1>1, <1>10, <2>2, AloneKeeps DEF ProposeAdminTransfer, governed
<1>11. CASE AcceptAdminTransfer(a)
  <2>1. /\ transfer' = None /\ admin' = a
        /\ UNCHANGED <<now, initialized, config, paused, blacklisted, multisig, emergency, votes>>
        /\ role' = [role EXCEPT ![a] = "Admin", ![admin] = "Guest"]
    BY <1>11 DEF AcceptAdminTransfer
  <2>2. role' \in [Accounts -> Roles]
    BY <1>1, <1>2, <2>1
  <2> QED
    BY <1>1, <2>1, <2>2, AloneKeeps
<1>12. CASE CancelAdminTransfer(a)
  BY <1>1, <1>12, AloneKeeps DEF CancelAdminTransfer, governed
<1> QED
  BY <1>3, <1>4, <1>5, <1>6, <1>7, <1>8, <1>9, <1>10, <1>11, <1>12

\* Every step keeps the records in agreement.
LEMMA NextRecords ==
  ASSUME RecordInv, [Next]_vars
  PROVE  RecordInv'
<1>1. GovInv'
  BY Steps DEF RecordInv
<1>2. CASE UNCHANGED vars
  <2>1. UNCHANGED <<multisig, votes>>
    BY <1>2 DEF vars, governed
  <2> QED
    BY <1>1, <1>2, <2>1, AloneKeeps DEF RecordInv, TypeOK, vars, governed
<1>3. ASSUME NEW a \in Accounts, NEW act \in Actions, CreateProposal(a, act)
      PROVE  RecordInv'
  <2>1. PICK p, list, count : VoteRecorded(counter, p, list, count)
    BY <1>3, CreateRecorded
  <2>2. counter' \in 0..MaxProposals
    <3>1. counter \in Ids /\ counter' = counter + 1
      BY <1>3 DEF CreateProposal
    <3> QED
      BY <3>1, DurationsAssumption DEF Ids
  <2> QED
    BY <1>1, <2>1, <2>2, VoteKeeps
<1>4. ASSUME NEW a \in Accounts, NEW i \in Ids, ApproveProposal(a, i)
      PROVE  RecordInv'
  <2>1. /\ counter' = counter
        /\ \E p, list, count : VoteRecorded(i, p, list, count)
    BY <1>4, ApproveRecorded
  <2>2. counter' \in 0..MaxProposals
    BY <2>1 DEF RecordInv, TypeOK
  <2> QED
    BY <1>1, <2>1, <2>2, VoteKeeps
<1>5. ASSUME NEW a \in Accounts, NEW i \in Ids, CancelProposal(a, i)
      PROVE  RecordInv'
  <2>1. proposal[i].proposer = a /\ ~proposal[i].executed /\ Discard({i}, 0)
    BY <1>5 DEF CancelProposal, Cancelable
  <2>2. proposal[i] # Absent
    BY <2>1, AccessNoneAssumption DEF Absent
  <2>3. {i} \subseteq Undecided
    BY <2>1, <2>2 DEF Undecided, Stored
  <2> QED
    BY <1>1, <2>1, <2>3, DiscardKeeps
<1>6. CASE CleanupExpiredProposals
  <2>1. Expired \subseteq Undecided
    BY DEF Expired, Undecided, Stored
  <2>2. Cardinality(Expired) \in Nat
    <3>1. Expired \subseteq Ids
      BY DEF Expired
    <3> QED
      BY <3>1, IdsFinite, FS_Subset, FS_CardinalityType
  <2> QED
    BY <1>1, <1>6, <2>1, <2>2, DiscardKeeps DEF CleanupExpiredProposals
<1>7. CASE Tick
  <2>1. /\ UNCHANGED <<initialized, admin, transfer, governed, votes>> /\ now' \in 0..MaxTime
    BY <1>7, DurationsAssumption DEF Tick, RecordInv, TypeOK
  <2>2. UNCHANGED <<multisig, votes>>
    BY <2>1 DEF governed
  <2> QED
    BY <1>1, <2>1, <2>2, AloneKeeps DEF RecordInv, TypeOK, governed
<1> QED
  BY <1>1, <1>2, <1>3, <1>4, <1>5, <1>6, <1>7, OneAdminKeeps, RejectKeeps,
     InitializeMultisigKeeps DEF Next

\* Types and the records of what is pending, in every reachable state.
LEMMA RecordsAlways == Spec => []RecordInv
<1>1. RecordInv /\ [Next]_vars => RecordInv'
  BY NextRecords
<1> QED
  BY InitRecords, <1>1, PTL DEF Spec

\* In every reachable state the pending list, the pending count and the stored
\* proposals name the same proposals, the executed ones are counted once each,
\* and no administrator has two votes on a proposal.
THEOREM RecordsAlwaysAgree == Spec => []RecordsAgree
<1>1. RecordInv => RecordsAgree
  BY DEF RecordInv, RecordsAgree
<1> QED
  BY RecordsAlways, <1>1, PTL

-----------------------------------------------------------------------------
\* The votes there can be.

\* Adding, removing and replacing administrators keeps the thresholds in reach:
\* nobody who is needed for them is removed.
LEMMA PerformReachable ==
  ASSUME TypeOK, MultisigEnabled, ThresholdsReachable, NEW act \in Actions, Perform(act),
         act.kind = "UpdateMultisigConfig" => NamedOnce(act.multisig.admins)
  PROVE  ThresholdsReachable'
<1>1. /\ multisig \in MultiSigConfig /\ multisig.admins \in AdminVectors
      /\ NamedOnce(multisig.admins) /\ Validate(multisig) /\ act.users \subseteq Accounts
  BY ActionsAssumption DEF ThresholdsReachable, TypeOK, MultiSigConfig, ProposalAction
<1>2. CASE multisig' = multisig
  BY <1>1, <1>2 DEF ThresholdsReachable, Validate
<1>3. CASE /\ act.kind = "UpdateMultisigConfig" /\ Validate(act.multisig)
           /\ multisig' = act.multisig
  BY <1>3 DEF ThresholdsReachable, Validate
<1>4. ASSUME NEW s \in AdminVectors, NamedOnce(s),
             Cardinality(s) >= multisig.emergency_threshold,
             multisig' = [multisig EXCEPT !.admins = s]
      PROVE  ThresholdsReachable'
  <2>1. /\ multisig'.admins = s
        /\ multisig'.required_signatures = multisig.required_signatures
        /\ multisig'.critical_threshold = multisig.critical_threshold
        /\ multisig'.emergency_threshold = multisig.emergency_threshold
        /\ multisig'.time_lock_duration = multisig.time_lock_duration
        /\ multisig'.max_pending_proposals = multisig.max_pending_proposals
        /\ multisig'.proposal_expiry_duration = multisig.proposal_expiry_duration
    BY <1>1, <1>4 DEF MultiSigConfig
  <2>2. /\ multisig.required_signatures \in Nat /\ multisig.critical_threshold \in Nat
        /\ multisig.emergency_threshold \in Nat
    BY <1>1 DEF MultiSigConfig
  <2>3. Cardinality(s) \in Nat /\ (Cardinality(s) > 0 => s # {})
    BY <1>4, FS_CardinalityType, FS_EmptySet DEF AdminVectors
  <2>4. multisig.required_signatures <= Cardinality(s) /\ s # {}
    BY <1>1, <1>4, <2>2, <2>3 DEF Validate
  <2> QED
    BY <1>1, <1>4, <2>1, <2>4 DEF ThresholdsReachable, Validate
<1>5. multisig.emergency_threshold \in Nat /\ Cardinality(multisig.admins) \in Nat
      /\ multisig.emergency_threshold <= Cardinality(multisig.admins)
  BY <1>1, FS_CardinalityType DEF MultiSigConfig, AdminVectors, Validate
<1>6. ASSUME NEW a \in act.users, a \notin Named(multisig.admins),
             multisig' = [multisig EXCEPT !.admins = @ \cup {<<a, 0>>}]
      PROVE  ThresholdsReachable'
  <2> DEFINE s == multisig.admins \cup {<<a, 0>>}
  <2>1. s \in AdminVectors /\ NamedOnce(s) /\ Cardinality(s) = Cardinality(multisig.admins) + 1
    BY <1>1, <1>6, AppointOne
  <2>2. multisig' = [multisig EXCEPT !.admins = s]
    BY <1>6
  <2> HIDE DEF s
  <2>3. Cardinality(s) >= multisig.emergency_threshold
    BY <1>5, <2>1
  <2> QED
    BY <1>4, <2>1, <2>2, <2>3
<1>7. ASSUME NEW a \in act.users, Removable, multisig' = [multisig EXCEPT !.admins = Dismiss(@, a)]
      PROVE  ThresholdsReachable'
  <2> DEFINE s == Dismiss(multisig.admins, a)
  <2>1. /\ s \in AdminVectors /\ NamedOnce(s)
        /\ Cardinality(s) >= Cardinality(multisig.admins) - 1
    BY <1>1, DismissOne
  <2>2. multisig' = [multisig EXCEPT !.admins = s]
    BY <1>7
  <2> HIDE DEF s
  <2>3. Cardinality(s) \in Nat
    BY <2>1, FS_CardinalityType DEF AdminVectors
  <2>4. Cardinality(s) >= multisig.emergency_threshold
    BY <1>5, <1>7, <2>1, <2>3 DEF Removable
  <2> QED
    BY <1>4, <2>1, <2>2, <2>4
<1> QED
  BY <1>2, <1>3, <1>6, <1>7 DEF Perform

\* A vote that does not execute its proposal leaves it short of approvals or
\* before the end of its time lock.
LEMMA VoteSuffices ==
  ASSUME RecordInv, NEW i, NEW p, NEW list, NEW count, Votes(i, p, list, count), MultisigEnabled
  PROVE  /\ ThresholdsReachable => ThresholdsReachable' \/ InstallsDuplicates
         /\ \A j \in Ids \ {i} : proposal'[j] = proposal[j]
         /\ i \in Undecided' => \/ Len(proposal'[i].approvals) < proposal'[i].required_signatures
                                \/ /\ proposal'[i].time_lock_until # None
                                   /\ now < proposal'[i].time_lock_until
<1>1. /\ i \in Ids /\ p \in PendingProposal /\ StoreAndExecute(i, p, list, count)
      /\ proposal \in [Ids -> PendingProposal \cup {Absent}] /\ now \in Nat
      /\ \A j \in Ids \ {i} : proposal'[j] = proposal[j]
  BY VoteStep DEF Votes, RecordInv, GovInv
<1>2. CASE Executable(p)
  <2> DEFINE q == [p EXCEPT !.executed = TRUE]
  <2>1. /\ proposal'[i] = q /\ q.executed /\ q.action = p.action /\ p.action \in Actions
        /\ Perform(p.action)
    BY <1>1, <1>2 DEF StoreAndExecute, PendingProposal
  <2> HIDE DEF q
  <2>2. i \notin Undecided'
    BY <2>1 DEF Undecided
  <2>3. Executes(i)
    BY <2>1, VoteStep DEF RecordInv
  <2>4. CASE p.action.kind = "UpdateMultisigConfig" /\ ~NamedOnce(p.action.multisig.admins)
    BY <1>1, <2>1, <2>2, <2>3, <2>4 DEF InstallsDuplicates
  <2>5. CASE p.action.kind = "UpdateMultisigConfig" => NamedOnce(p.action.multisig.admins)
    BY <1>1, <2>1, <2>2, <2>5, PerformReachable DEF RecordInv
  <2> QED
    BY <2>4, <2>5
<1>3. CASE ~Executable(p)
  <2>1. proposal'[i] = p /\ UNCHANGED multisig
    BY <1>1, <1>3 DEF StoreAndExecute, governed
  <2>2. Len(p.approvals) \in Nat /\ p.required_signatures \in Nat
        /\ p.time_lock_until \in Nat \cup {None}
    BY <1>1 DEF PendingProposal
  <2>3. \/ Len(p.approvals) < p.required_signatures
        \/ p.time_lock_until # None /\ now < p.time_lock_until
    BY <1>1, <1>3, <2>2 DEF Executable
  <2>4. ThresholdsReachable => ThresholdsReachable'
    BY <2>1 DEF ThresholdsReachable, MultisigEnabled, Validate
  <2> QED
    BY <1>1, <2>1, <2>3, <2>4
<1> QED
  BY <1>2, <1>3

\* Every other step leaves the approvals and the configuration as they are, or
\* sets up the first one, whose thresholds suit its administrators.
LEMMA OtherStepsSuffice ==
  ASSUME RecordInv, [Next]_vars,
         ~ \E a \in Accounts, act \in Actions : CreateProposal(a, act),
         ~ \E a \in Accounts, i \in Ids : ApproveProposal(a, i)
  PROVE  /\ ThresholdsReachable => ThresholdsReachable'
         /\ \A i \in Undecided' : proposal'[i].approvals = proposal[i].approvals
<1> DEFINE Same == \A i \in Undecided' : proposal'[i].approvals = proposal[i].approvals
<1>0. UNCHANGED multisig => (ThresholdsReachable => ThresholdsReachable')
  BY DEF ThresholdsReachable, MultisigEnabled, Validate
<1>1. UNCHANGED proposal => Same
  OBVIOUS
<1>2. CASE UNCHANGED vars \/ Tick \/ \E a \in Accounts : Initialize(a)
  BY <1>0, <1>1, <1>2 DEF vars, governed, votes, Tick, Initialize
<1>3. ASSUME NEW a \in Accounts,
             \/ \E u \in Targets, r \in Roles : SetRole(a, u, r)
             \/ \E u \in Targets :
                  RemoveRole(a, u) \/ BlacklistUser(a, u) \/ UnblacklistUser(a, u)
             \/ \E c \in Configs : UpdateConfig(a, c)
             \/ \E q \in BOOLEAN : SetPaused(a, q)
             \/ DeactivateEmergencyMode(a)
             \/ \E new \in Accounts : ProposeAdminTransfer(a, new)
             \/ AcceptAdminTransfer(a) \/ CancelAdminTransfer(a)
      PROVE  UNCHANGED <<multisig, proposal>>
  BY <1>3 DEF SetRole, RemoveRole, BlacklistUser, UnblacklistUser, Blacklist, UpdateConfig,
     SetPaused, DeactivateEmergencyMode, ProposeAdminTransfer,
     AcceptAdminTransfer, CancelAdminTransfer, governed, votes
<1>4. ASSUME NEW a \in Accounts, NEW i \in Ids, RejectProposal(a, i)
      PROVE  UNCHANGED multisig /\ Same
  <2>1. /\ proposal' = [proposal EXCEPT ![i].rejections = Append(@, a)]
        /\ proposal[i] \in PendingProposal /\ UNCHANGED multisig
        /\ proposal \in [Ids -> PendingProposal \cup {Absent}]
    BY <1>4 DEF RejectProposal, MayVote, RecordInv, TypeOK, governed
  <2>2. \A j \in Ids : proposal'[j].approvals = proposal[j].approvals
    BY <2>1 DEF PendingProposal
  <2> QED
    BY <2>1, <2>2 DEF Undecided, Stored
<1>5. ASSUME NEW ids, NEW n, Discard(ids, n)
      PROVE  UNCHANGED multisig /\ Same
  BY <1>5 DEF Discard, governed, Undecided, Stored
<1>6. ASSUME NEW admins \in AdminLists, NEW required \in 1..Cardinality(admins),
             InitializeMultisig(admins, required)
      PROVE  ThresholdsReachable' /\ Same
  <2>1. /\ multisig' = DefaultConfig(admins, required) /\ NamedOnce(admins)
        /\ Validate(DefaultConfig(admins, required)) /\ UNCHANGED proposal
    BY <1>6 DEF InitializeMultisig, votes
  <2>2. DefaultConfig(admins, required).admins = admins
    BY DEF DefaultConfig
  <2> HIDE DEF Same
  <2> QED
    BY <1>1, <2>1, <2>2 DEF ThresholdsReachable, Validate
<1> HIDE DEF Same
<1>7. ASSUME NEW a \in Accounts, NEW i \in Ids, CancelProposal(a, i)
      PROVE  UNCHANGED multisig /\ Same
  BY <1>5, <1>7 DEF CancelProposal
<1>8. CASE CleanupExpiredProposals
  BY <1>0, <1>5, <1>8 DEF CleanupExpiredProposals, Same
<1> QED
  BY <1>0, <1>1, <1>2, <1>3, <1>4, <1>6, <1>7, <1>8 DEF Next, Same

\* Nothing but the installation of a list that names somebody twice takes the
\* thresholds out of the administrators' reach, and a proposal with its approvals
\* waits only if its last one came while its time lock was closed.
THEOREM AdministratorsSuffice == Spec => VotesSuffice
<1> DEFINE Suffice ==
      /\ ThresholdsReachable => ThresholdsReachable' \/ InstallsDuplicates
      /\ \A i \in Undecided' :
           Len(proposal'[i].approvals) >= proposal'[i].required_signatures =>
               \/ proposal'[i].approvals = proposal[i].approvals
               \/ /\ proposal'[i].time_lock_until # None
                  /\ now < proposal'[i].time_lock_until
<1>1. ASSUME RecordInv, [Next]_vars PROVE Suffice
  <2>1. ASSUME NEW i, NEW p, NEW list, NEW count, Votes(i, p, list, count), MultisigEnabled
        PROVE  Suffice
    <3>1. /\ i \in Ids /\ proposal'[i] \in PendingProposal
          /\ \A j \in Ids \ {i} : proposal'[j] = proposal[j]
      BY <1>1, <2>1, VoteStep DEF Votes, RecordInv
    <3>2. Len(proposal'[i].approvals) \in Nat /\ proposal'[i].required_signatures \in Nat
      BY <3>1 DEF PendingProposal
    <3> QED
      BY <1>1, <2>1, <3>1, <3>2, VoteSuffices DEF Undecided, Stored
  <2>2. ASSUME NEW a \in Accounts, NEW act \in Actions, CreateProposal(a, act)
        PROVE  Suffice
    <3>1. MultisigEnabled
      BY <2>2 DEF CreateProposal
    <3> HIDE DEF Suffice
    <3> QED
      BY <1>1, <2>1, <2>2, <3>1, CreateVotes DEF RecordInv
  <2>3. ASSUME NEW a \in Accounts, NEW i \in Ids, ApproveProposal(a, i)
        PROVE  Suffice
    <3>1. MultisigEnabled
      BY <1>1, <2>3 DEF ApproveProposal, MayVote, RecordInv, GovInv
    <3> HIDE DEF Suffice
    <3> QED
      BY <1>1, <2>1, <2>3, <3>1, ApproveVotes DEF RecordInv
  <2> QED
    BY <1>1, <2>2, <2>3, OtherStepsSuffice
<1>2. RecordInv /\ [Next]_vars => [Suffice]_vars
  BY <1>1
<1> QED
  BY <1>2, RecordsAlways, PTL DEF Spec, VotesSuffice
=============================================================================
