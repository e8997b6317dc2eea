------------------------- MODULE UserSessionsProofs --------------------------
(***************************************************************************)
(* The safety of UserSessions for any users, families and workers, and of  *)
(* the parts of the platform that accounts go through, each for any        *)
(* instance: the browser's side of a session (AuthClient), the forgotten   *)
(* password (PasswordReset), registration (Registration) and the sign-in   *)
(* of staff (StaffSso); and of the services the backend calls: mail, for   *)
(* the newsletter and the contact form (Mailing), and the ledger, for      *)
(* escrows (EscrowClient).                                                 *)
(*                                                                         *)
(* OneLivePerFamily is not inductive: from a state with rows v1 (live) and *)
(* v3 missing, a rotation holding v2 would add a second live token.  Inv   *)
(* says that in a family that was not purged every version below a stored  *)
(* one is stored and consumed, and that a handler past its check holds a   *)
(* stored token, consumed by the time it inserts the successor.            *)
(* ClientAgrees needs that requests under way carry the token of the user  *)
(* they are about, which ClientInv keeps for whatever answer comes next.   *)
(* In the other parts, too, the invariant is about the requests under way: *)
(* which form or page sent them, what the rows they hold are worth when    *)
(* they are saved, and what their answers have achieved.                   *)
(***************************************************************************)
EXTENDS UserSessions, AuthClient, PasswordReset, Registration, StaffSso, Mailing,
        EscrowClient, FiniteSetTheorems, TLAPS

\* What a handler's locals are worth when it resumes.
CallOK(c) ==
    /\ c.pc # "idle" => c.user \in Users
    /\ c.pc \in {"mark", "rotate"} =>
          /\ c.token \in Tokens
          /\ Version(c.token) < MaxVersion
          /\ Family(c.token) \in minted
          /\ ~Purged(Family(c.token)) => c.token \in rows
    /\ c.pc = "rotate" /\ ~Purged(Family(c.token)) => c.token \in consumed

\* Every version below a stored one is stored and consumed.
Chain ==
    \A t \in rows : ~Purged(Family(t)) =>
        \A v \in 1..MaxVersion : v < Version(t) => <<Family(t), v>> \in consumed

Inv ==
    /\ TypeOK
    /\ Chain
    /\ \A w \in Workers : CallOK(call[w])

\* Chain leaves one live token per family.
LEMMA InvOneLive == ASSUME Inv PROVE OneLivePerFamily
<1> SUFFICES ASSUME NEW s \in Live, NEW t \in Live,
                    Family(s) = Family(t), ~Purged(Family(s))
             PROVE  s = t
  BY DEF OneLivePerFamily
<1>1. s \in Tokens /\ t \in Tokens /\ s \in rows /\ t \in rows
  BY DEF Inv, TypeOK, Live
<1>2. s = <<Family(s), Version(s)>> /\ t = <<Family(t), Version(t)>>
  BY <1>1 DEF Tokens, Family, Version
<1>3. /\ Version(s) \in 1..MaxVersion /\ Version(t) \in 1..MaxVersion
      /\ Version(s) \in Nat /\ Version(t) \in Nat
  BY <1>1, MaxVersionAssumption DEF Tokens, Version
<1>4. s \notin consumed /\ t \notin consumed
  BY DEF Live
<1>5. ~(Version(s) < Version(t))
  BY <1>1, <1>2, <1>3, <1>4 DEF Inv, Chain
<1>6. ~(Version(t) < Version(s))
  BY <1>1, <1>2, <1>3, <1>4 DEF Inv, Chain
<1>7. Version(s) = Version(t)
  BY <1>3, <1>5, <1>6
<1> QED
  BY <1>2, <1>7

\* The initial state satisfies the invariant.
LEMMA InitInv == ASSUME Init PROVE Inv
<1>1. TypeOK
  BY DEF Init, TypeOK, IdleCall, NoToken, Calls, Labels, AccountStatus, Tokens
<1>2. \A w \in Workers : CallOK(call[w])
  BY DEF Init, CallOK, IdleCall, NoToken
<1> QED
  BY <1>1, <1>2 DEF Init, Inv, Chain

\* What every step does to tokens, seen from a family that is still not purged
\* after it: nothing is lost.
Keeps ==
    /\ minted \subseteq minted'
    /\ \A f \in minted : ~Purged(f)' => ~Purged(f)
    /\ \A t \in rows : ~Purged(Family(t))' => t \in rows'
    /\ \A t \in consumed : ~Purged(Family(t))' => t \in consumed'

\* Handlers other than the one that moves keep their part of the invariant.
LEMMA OtherCalls ==
    ASSUME Inv, Keeps, NEW w,
           \A x \in Workers \ {w} : call'[x] = call[x]
    PROVE  \A x \in Workers \ {w} : CallOK(call[x])'
<1> SUFFICES ASSUME NEW x \in Workers \ {w} PROVE CallOK(call[x])'
  OBVIOUS
<1>1. CallOK(call[x]) /\ call'[x] = call[x]
  BY DEF Inv
<1>2. consumed \subseteq rows
  BY DEF Inv, TypeOK
<1> QED
  BY <1>1, <1>2 DEF CallOK, Keeps

\* When no row is added, what remains of a family that is not purged keeps the
\* consumed versions below it.
LEMMA ChainKept ==
    ASSUME Inv, Keeps, rows' \subseteq rows
    PROVE  Chain'
<1> SUFFICES ASSUME NEW t \in rows', ~Purged(Family(t))',
                    NEW v \in 1..MaxVersion, v < Version(t)
             PROVE  <<Family(t), v>> \in consumed'
  BY DEF Chain
<1>1. t \in rows /\ Family(t) \in minted
  BY DEF Inv, TypeOK
<1>2. <<Family(t), v>> \in consumed
  BY <1>1 DEF Inv, Chain, Keeps
<1>3. Family(<<Family(t), v>>) = Family(t)
  BY DEF Family
<1> QED
  BY <1>2, <1>3 DEF Keeps

\* Deleting all rows of some users purges families; it loses nothing of others.
LEMMA DeleteKeeps ==
    ASSUME Inv, NEW us, DeleteRows(RowsOf(us)), minted' = minted
    PROVE  Keeps /\ rows' \subseteq rows
<1>1. \A f \in minted : ~Purged(f)' => ~Purged(f) /\ UserOf[f] \notin us
  BY DEF DeleteRows, RowsOf, Purged, Family
<1>2. \A t \in rows : Family(t) \in minted
  BY DEF Inv, TypeOK
<1>3. consumed \subseteq rows
  BY DEF Inv, TypeOK
<1> QED
  BY <1>1, <1>2, <1>3 DEF DeleteRows, RowsOf, Keeps

\* Steps that add no row and open no family.
LEMMA QuietKeeps ==
    ASSUME Inv, rows' = rows, minted' = minted, consumed \subseteq consumed'
    PROVE  Keeps
  BY DEF Keeps, Purged, Family

\* Rows that leave take their flags along, which keeps the types.
LEMMA DeleteTypes ==
    ASSUME TypeOK, NEW us, DeleteRows(RowsOf(us)), minted' = minted
    PROVE  /\ rows' \subseteq Tokens /\ consumed' \subseteq rows'
           /\ revoked' \subseteq rows' /\ \A t \in rows' : Family(t) \in minted'
  BY DEF TypeOK, DeleteRows

\* Assembles the invariant after a step of worker w from the parts it can
\* disturb.
LEMMA Assemble ==
    ASSUME Inv, Keeps, TypeOK', Chain', NEW w \in Workers,
           \A x \in Workers \ {w} : call'[x] = call[x],
           CallOK(call[w])'
    PROVE  Inv'
<1>1. \A x \in Workers \ {w} : CallOK(call[x])'
  BY OtherCalls
<1> QED
  BY <1>1 DEF Inv

\* Handlers that only load a user or a token.
LEMMA LoadInv ==
    ASSUME Inv, NEW w \in Workers, NEW u \in Users,
           \/ Login(w, u) \/ VerifyOtp(w, u) \/ ResetPassword(w, u)
           \/ EditUser(w, u)
    PROVE  Inv'
<1>1. PICK l \in Labels : /\ LoadUser(w, u, l) /\ l \notin {"mark", "rotate"}
                          /\ UNCHANGED <<account, tokens>>
  BY DEF Login, VerifyOtp, ResetPassword, EditUser, Labels
<1>2. call \in [Workers -> Calls] /\ account[u] \in AccountStatus
  BY DEF Inv, TypeOK
<1>3. TypeOK'
  BY <1>1, <1>2 DEF Inv, TypeOK, LoadUser, tokens, Calls, NoToken
<1>4. Keeps
  BY <1>1, QuietKeeps DEF tokens
<1>5. Chain'
  BY <1>1, <1>4, ChainKept DEF tokens
<1>6. CallOK(call[w])'
  <2>1. call'[w] = [pc |-> l, user |-> u, token |-> NoToken]
    BY <1>1, <1>2 DEF LoadUser
  <2> QED
    BY <1>1, <2>1 DEF CallOK
<1>7. \A x \in Workers \ {w} : call'[x] = call[x]
  BY <1>1, <1>2 DEF LoadUser
<1> QED
  BY <1>3, <1>4, <1>5, <1>6, <1>7, Assemble

\* A refresh request up to its check.
LEMMA RefreshInv ==
    ASSUME Inv, NEW w \in Workers, NEW t \in Tokens, Refresh(w, t)
    PROVE  Inv'
<1>1. PICK l \in {"revokeFamily", "mark"} :
          /\ LoadToken(w, t, l) /\ (l = "mark" => Version(t) < MaxVersion)
          /\ t \in rows /\ UNCHANGED <<account, tokens>>
  BY DEF Refresh
<1> DEFINE u == UserOf[Family(t)]
<1>2. call \in [Workers -> Calls] /\ u \in Users /\ account[u] \in AccountStatus
  BY UserOfAssumption DEF Inv, TypeOK, Tokens, Family
<1>3. TypeOK'
  BY <1>1, <1>2 DEF Inv, TypeOK, LoadToken, tokens, Calls, Labels
<1>4. Keeps
  BY <1>1, QuietKeeps DEF tokens
<1>5. Chain'
  BY <1>1, <1>4, ChainKept DEF tokens
<1>6. CallOK(call[w])'
  <2>1. call'[w] = [pc |-> l, user |-> u, token |-> t]
    BY <1>1, <1>2 DEF LoadToken
  <2>2. Family(t) \in minted /\ minted' = minted /\ rows' = rows
    BY <1>1 DEF Inv, TypeOK, tokens
  <2> QED
    BY <1>1, <1>2, <2>1, <2>2 DEF CallOK
<1>7. \A x \in Workers \ {w} : call'[x] = call[x]
  BY <1>1, <1>2 DEF LoadToken
<1> QED
  BY <1>3, <1>4, <1>5, <1>6, <1>7, Assemble

\* A handler that returns holds nothing.
LEMMA ReturnOK ==
    ASSUME Inv, NEW w \in Workers, Return(w)
    PROVE  /\ call' \in [Workers -> Calls]
           /\ CallOK(call[w])'
           /\ \A x \in Workers \ {w} : call'[x] = call[x]
<1>1. call \in [Workers -> Calls]
  BY DEF Inv, TypeOK
<1>2. IdleCall \in Calls
  BY DEF IdleCall, Calls, Labels, AccountStatus, NoToken
<1> QED
  BY <1>1, <1>2 DEF Return, CallOK, IdleCall

\* A handler that goes on keeps its locals.
LEMMA ContinueOK ==
    ASSUME Inv, NEW w \in Workers, NEW l \in Labels, Continue(w, l)
    PROVE  /\ call' \in [Workers -> Calls]
           /\ call'[w].pc = l
           /\ call'[w].user = call[w].user
           /\ call'[w].token = call[w].token
           /\ \A x \in Workers \ {w} : call'[x] = call[x]
<1>1. call \in [Workers -> Calls]
  BY DEF Inv, TypeOK
<1> DEFINE c == [call[w] EXCEPT !.pc = l]
<1>2. call[w] = [pc |-> call[w].pc, user |-> call[w].user,
                 token |-> call[w].token]
  BY <1>1 DEF Calls
<1>3. c \in Calls /\ c.pc = l /\ c.user = call[w].user
      /\ c.token = call[w].token
  BY <1>1, <1>2 DEF Calls
<1>4. call' = [call EXCEPT ![w] = c]
  BY DEF Continue
<1> HIDE DEF c
<1> QED
  BY <1>1, <1>3, <1>4

\* Opening a family.
LEMMA OpenInv ==
    ASSUME Inv, NEW w \in Workers, Mint(w)
    PROVE  Inv'
<1>1. PICK fs \in SUBSET (Families \ minted) :
          minted' = minted \cup fs /\ rows' = rows \cup {<<f, 1>> : f \in fs}
  <2>1. CASE UNCHANGED <<rows, minted>>
    <3> WITNESS {} \in SUBSET (Families \ minted)
    <3> QED
      BY <2>1
  <2>2. CASE \E f \in Families \ minted :
                minted' = minted \cup {f} /\ rows' = rows \cup {<<f, 1>>}
    <3>1. PICK f \in Families \ minted :
                minted' = minted \cup {f} /\ rows' = rows \cup {<<f, 1>>}
      BY <2>2
    <3> WITNESS {f} \in SUBSET (Families \ minted)
    <3> QED
      BY <3>1
  <2> QED
    BY <2>1, <2>2 DEF Mint
<1>2. /\ Return(w) /\ UNCHANGED <<account, consumed, revoked>>
  BY DEF Mint
<1>3. \A f \in fs : <<f, 1>> \in Tokens /\ Family(<<f, 1>>) = f /\ Version(<<f, 1>>) = 1
  BY MaxVersionAssumption DEF Tokens, Family, Version
<1>4. TypeOK'
  BY <1>1, <1>2, <1>3, ReturnOK DEF Inv, TypeOK
<1>5. \A f \in minted : Purged(f)' <=> Purged(f)
  BY <1>1 DEF Purged
<1>6. Keeps
  BY <1>1, <1>2, <1>5 DEF Keeps
<1>7. Chain'
  <2> SUFFICES ASSUME NEW t \in rows', ~Purged(Family(t))',
                      NEW v \in 1..MaxVersion, v < Version(t)
               PROVE  <<Family(t), v>> \in consumed'
    BY DEF Chain
  <2>1. CASE t \in rows
    <3>1. Family(t) \in minted
      BY <2>1 DEF Inv, TypeOK
    <3> QED
      BY <2>1, <3>1, <1>2, <1>5 DEF Inv, Chain
  <2>2. CASE t \notin rows
    BY <2>2, <1>1, <1>3, MaxVersionAssumption
  <2> QED
    BY <2>1, <2>2
<1> QED
  BY <1>2, <1>4, <1>6, <1>7, ReturnOK, Assemble

\* Handlers that return without adding or removing a row.
LEMMA ReturnInv ==
    ASSUME Inv, NEW w \in Workers,
           \/ RevokeFamily(w) \/ RevokeAllRefreshTokens(w) \/ HandlerFails(w)
    PROVE  Inv'
<1>1. /\ Return(w) /\ UNCHANGED <<account, rows, minted>>
      /\ consumed \subseteq consumed' /\ consumed' \subseteq rows
      /\ revoked' \subseteq rows
  BY DEF RevokeFamily, RevokeAllRefreshTokens, HandlerFails, RowsOf, tokens,
         Inv, TypeOK
<1>2. TypeOK'
  BY <1>1, ReturnOK DEF Inv, TypeOK
<1>3. Keeps
  BY <1>1, QuietKeeps
<1>4. Chain'
  BY <1>1, <1>3, ChainKept
<1> QED
  BY <1>1, <1>2, <1>3, <1>4, ReturnOK, Assemble

\* The conditional-free UPDATE that consumes the presented token.
LEMMA MarkInv ==
    ASSUME Inv, NEW w \in Workers, MarkTokenConsumed(w)
    PROVE  Inv'
<1>1. /\ At(w, "mark") /\ Continue(w, "rotate")
      /\ consumed' = consumed \cup ({call[w].token} \cap rows)
      /\ UNCHANGED <<account, rows, revoked, minted>>
  BY DEF MarkTokenConsumed
<1>2. "rotate" \in Labels
  BY DEF Labels
<1>3. TypeOK'
  BY <1>1, <1>2, ContinueOK DEF Inv, TypeOK
<1>4. Keeps
  BY <1>1, QuietKeeps
<1>5. Chain'
  BY <1>1, <1>4, ChainKept
<1>6. CallOK(call[w])'
  <2>1. CallOK(call[w]) /\ call[w].pc = "mark"
    BY <1>1 DEF Inv, At
  <2>2. /\ call'[w].pc = "rotate" /\ call'[w].token = call[w].token
        /\ call'[w].user = call[w].user
    BY <1>1, <1>2, ContinueOK
  <2>3. \A f : Purged(f)' <=> Purged(f)
    BY <1>1 DEF Purged
  <2> QED
    BY <1>1, <2>1, <2>2, <2>3 DEF CallOK
<1> QED
  BY <1>1, <1>2, <1>3, <1>4, <1>5, <1>6, ContinueOK, Assemble

\* The insert of the successor: the token it follows is consumed, and so is
\* everything below that.
LEMMA RotateInv ==
    ASSUME Inv, NEW w \in Workers, Rotate(w)
    PROVE  Inv'
<1> DEFINE t == call[w].token
<1>1. /\ At(w, "rotate") /\ Return(w)
      /\ UNCHANGED <<account, consumed, revoked, minted>>
      /\ rows' = rows \/ rows' = rows \cup {Successor(t)}
  BY DEF Rotate
<1>2. /\ t \in Tokens /\ Version(t) < MaxVersion /\ Family(t) \in minted
      /\ ~Purged(Family(t)) => t \in consumed /\ t \in rows
  BY <1>1 DEF Inv, CallOK, At
<1>3. /\ Version(t) \in 1..MaxVersion /\ t = <<Family(t), Version(t)>>
      /\ Family(t) \in Families
  BY <1>2 DEF Tokens, Version, Family
<1>4. /\ Successor(t) \in Tokens /\ Family(Successor(t)) = Family(t)
      /\ Version(Successor(t)) = Version(t) + 1
  BY <1>2, <1>3, MaxVersionAssumption DEF Successor, Tokens, Version, Family
<1>5. TypeOK'
  BY <1>1, <1>2, <1>4, ReturnOK DEF Inv, TypeOK
<1>6. Successor(t)[2] # 1
  BY <1>3, <1>4, MaxVersionAssumption DEF Version
<1>7. \A f \in minted : Purged(f)' <=> Purged(f)
  BY <1>1, <1>6 DEF Purged
<1>8. Keeps
  BY <1>1, <1>7 DEF Keeps
<1>9. Chain'
  <2> SUFFICES ASSUME NEW s \in rows', ~Purged(Family(s))',
                      NEW v \in 1..MaxVersion, v < Version(s)
               PROVE  <<Family(s), v>> \in consumed
    BY <1>1 DEF Chain
  <2>1. Family(s) \in minted /\ ~Purged(Family(s))
    BY <1>1, <1>2, <1>4, <1>7 DEF Inv, TypeOK
  <2>2. CASE s \in rows
    BY <2>1, <2>2 DEF Inv, Chain
  <2>3. CASE s = Successor(t)
    <3>1. t \in consumed /\ t \in rows /\ Family(s) = Family(t)
      BY <1>2, <1>4, <2>1, <2>3
    <3>2. v < Version(t) \/ v = Version(t)
      BY <1>3, <1>4, <2>3, MaxVersionAssumption
    <3> QED
      BY <3>1, <3>2, <2>1, <1>3 DEF Inv, Chain
  <2> QED
    BY <2>2, <2>3, <1>1
<1> QED
  BY <1>1, <1>5, <1>8, <1>9, ReturnOK, Assemble

\* Saving a user touches no token.
LEMMA SaveInv ==
    ASSUME Inv, NEW w \in Workers, SaveUser(w)
    PROVE  Inv'
<1>1. /\ call[w].pc # "idle"
      /\ account' = [account EXCEPT ![call[w].user] = "active"]
      /\ UNCHANGED <<rows, consumed, revoked, minted>>
  BY DEF SaveUser, tokens
<1>2. \/ Return(w) \/ Continue(w, "mint") \/ Continue(w, "revokeAll")
  BY DEF SaveUser, At
<1>3. call[w] \in Calls /\ CallOK(call[w])
  BY DEF Inv, TypeOK
<1>4. "mint" \in Labels /\ "revokeAll" \in Labels
  BY DEF Labels
<1>5. call' \in [Workers -> Calls] /\ \A x \in Workers \ {w} : call'[x] = call[x]
  BY <1>2, <1>4, ReturnOK, ContinueOK
<1>6. TypeOK'
  BY <1>1, <1>3, <1>5 DEF Inv, TypeOK, Calls, AccountStatus
<1>7. Keeps
  BY <1>1, QuietKeeps
<1>8. Chain'
  BY <1>1, <1>7, ChainKept
<1>9. CallOK(call[w])'
  <2>1. CASE Return(w)
    BY <2>1, ReturnOK
  <2>2. ASSUME NEW l \in {"mint", "revokeAll"}, Continue(w, l)
        PROVE  CallOK(call[w])'
    <3>1. call'[w].pc = l /\ call'[w].user = call[w].user
      BY <1>4, <2>2, ContinueOK
    <3> QED
      BY <1>1, <1>3, <2>2, <3>1 DEF CallOK
  <2> QED
    BY <1>2, <2>1, <2>2
<1> QED
  BY <1>5, <1>6, <1>7, <1>8, <1>9, Assemble

\* Steps that no suspended handler takes part in.
LEMMA OutsideInv ==
    ASSUME Inv, DeleteRows({})
                \/ \E u \in Users : DeleteRows(RowsOf({u})),
           account' \in [Users -> AccountStatus],
           UNCHANGED <<minted, call>>
    PROVE  Inv'
<1>1. PICK us \in SUBSET Users : DeleteRows(RowsOf(us))
  <2>1. RowsOf({}) = {}
    BY DEF RowsOf
  <2> QED
    BY <2>1
<1>2. TypeOK'
  BY <1>1, DeleteTypes DEF Inv, TypeOK
<1>3. Keeps /\ Chain'
  BY <1>1, DeleteKeeps, ChainKept
<1>4. ASSUME NEW x \in Workers PROVE CallOK(call[x])'
  <2>2. CallOK(call[x]) /\ call'[x] = call[x] /\ consumed \subseteq rows
    BY DEF Inv, TypeOK
  <2> QED
    BY <1>3, <2>2 DEF CallOK, Keeps
<1> QED
  BY <1>2, <1>3, <1>4 DEF Inv

\* Every step preserves the invariant.
LEMMA NextInv == ASSUME Inv, [Next]_vars PROVE Inv'
<1>1. ASSUME NEW w \in Workers, NEW u \in Users, Register(w, u) PROVE Inv'
  <2>1. account' = [account EXCEPT ![u] = "active"] /\ UNCHANGED <<tokens, call>>
    BY <1>1 DEF Register
  <2>2. account' \in [Users -> AccountStatus]
    BY <2>1 DEF Inv, TypeOK, AccountStatus
  <2> QED
    BY <2>1, <2>2, OutsideInv DEF tokens, DeleteRows, Inv, TypeOK
<1>2. ASSUME NEW w \in Workers, NEW u \in Users, DeleteUser(w, u) PROVE Inv'
  <2>1. /\ account' = [account EXCEPT ![u] = "gone"] /\ DeleteRows(RowsOf({u}))
        /\ UNCHANGED <<minted, call>>
    BY <1>2 DEF DeleteUser
  <2>2. account' \in [Users -> AccountStatus]
    BY <2>1 DEF Inv, TypeOK, AccountStatus
  <2> QED
    BY <2>1, <2>2, OutsideInv
<1>3. ASSUME UNCHANGED vars PROVE Inv'
  BY <1>3, OutsideInv DEF vars, DeleteRows, Inv, TypeOK
<1>4. ASSUME NEW w \in Workers, Step(w) PROVE Inv'
  BY <1>1, <1>2, <1>4, LoadInv, RefreshInv, OpenInv, ReturnInv, MarkInv,
     RotateInv, SaveInv DEF Step
<1> QED
  BY <1>3, <1>4 DEF Next

\* The invariant holds in every reachable state.
LEMMA SpecInv == Spec => []Inv
  BY InitInv, NextInv, PTL DEF Spec

\* Type correctness of the session tables.
THEOREM SessionsTypeCorrect == Spec => []TypeOK
<1>1. Inv => TypeOK
  BY DEF Inv
<1> QED
  BY <1>1, SpecInv, PTL

\* One live token per family that was not purged, for any number of
\* concurrent refresh requests.
THEOREM RotationIsSingle == Spec => []OneLivePerFamily
  BY InvOneLive, SpecInv, PTL

\* What of a step matters to a closed family: whether a live token or a refresh
\* past its check appears in it.
LEMMA ClosedKept ==
    ASSUME NEW f, Closed(f), minted \subseteq minted',
           \A t \in Live' \ Live : Family(t) # f,
           \A w \in Workers : call'[w].pc \in {"mark", "rotate"}
               => \/ Family(call'[w].token) # f
                  \/ call[w].pc \in {"mark", "rotate"}
                     /\ call'[w].token = call[w].token
    PROVE  Closed(f)'
<1>1. \A t \in Live' : Family(t) # f
  BY DEF Closed
<1>2. ~Refreshing(f)'
  BY DEF Closed, Refreshing
<1> QED
  BY <1>1, <1>2 DEF Closed

\* A step opens a closed family neither by a row nor by a refresh.
LEMMA ClosedStep == ASSUME Inv, [Next]_vars, NEW f, Closed(f) PROVE Closed(f)'
<1> DEFINE Moves(w) == \A x \in Workers \ {w} : call'[x] = call[x]
<1> DEFINE Idles(w) == call'[w].pc \notin {"mark", "rotate"}
<1>1. call \in [Workers -> Calls] /\ consumed \subseteq rows
  BY DEF Inv, TypeOK
<1>2. ASSUME NEW us, DeleteRows(RowsOf(us)) PROVE Live' \subseteq Live
  BY <1>2 DEF DeleteRows, Live
<1>3. ASSUME rows' = rows, consumed \subseteq consumed', revoked \subseteq revoked'
      PROVE  Live' \subseteq Live
  BY <1>3 DEF Live
<1>4. ASSUME NEW w \in Workers, Return(w) PROVE Moves(w) /\ Idles(w)
  BY <1>1, <1>4 DEF Return, IdleCall
<1>5. ASSUME NEW w \in Workers, NEW l \in Labels, Continue(w, l)
      PROVE  Moves(w) /\ call'[w].pc = l /\ call'[w].token = call[w].token
  BY <1>5, ContinueOK
<1>6. ASSUME NEW w \in Workers, Moves(w), Idles(w), minted \subseteq minted',
             Live' \subseteq Live
      PROVE  Closed(f)'
  BY <1>6, ClosedKept
<1>7. ASSUME NEW w \in Workers, NEW u \in Users,
             \/ Register(w, u) \/ Login(w, u) \/ VerifyOtp(w, u)
             \/ ResetPassword(w, u) \/ EditUser(w, u)
      PROVE  Closed(f)'
  <2>1. UNCHANGED tokens
    BY <1>7 DEF Register, Login, VerifyOtp, ResetPassword, EditUser
  <2>2. Live' \subseteq Live
    BY <1>3, <2>1 DEF tokens
  <2>3. Moves(w) /\ Idles(w)
    BY <1>1, <1>7 DEF Register, Login, VerifyOtp, ResetPassword, EditUser, LoadUser, At
  <2> QED
    BY <1>6, <2>1, <2>2, <2>3 DEF tokens
<1>8. ASSUME NEW w \in Workers, NEW t \in Tokens, Refresh(w, t) PROVE Closed(f)'
  <2>1. UNCHANGED tokens
    BY <1>8 DEF Refresh
  <2>2. Live' \subseteq Live
    BY <1>3, <2>1 DEF tokens
  <2>3. CASE Spent(t) /\ LoadToken(w, t, "revokeFamily")
    <3>1. Moves(w) /\ Idles(w)
      BY <1>1, <2>3 DEF LoadToken
    <3> QED
      BY <1>6, <2>1, <2>2, <3>1 DEF tokens
  <2>4. CASE ~Spent(t) /\ LoadToken(w, t, "mark")
    <3>1. t \in Live /\ Family(t) # f
      BY <1>8, <2>4 DEF Refresh, Spent, Live, Closed
    <3>2. Moves(w) /\ call'[w].token = t
      BY <1>1, <2>4 DEF LoadToken
    <3> QED
      BY <2>1, <2>2, <3>1, <3>2, ClosedKept DEF tokens
  <2> QED
    BY <1>8, <2>3, <2>4 DEF Refresh
<1>9. ASSUME NEW w \in Workers, Mint(w) PROVE Closed(f)'
  <2>1. \A t \in rows' \ rows : Family(t) # f
    BY <1>9 DEF Mint, Family, Closed
  <2>2. Live' \subseteq Live \cup (rows' \ rows) /\ minted \subseteq minted'
    BY <1>9 DEF Mint, Live
  <2>3. Moves(w) /\ Idles(w)
    BY <1>4, <1>9 DEF Mint
  <2> QED
    BY <2>1, <2>2, <2>3, ClosedKept
<1>10. ASSUME NEW w \in Workers, MarkTokenConsumed(w) PROVE Closed(f)'
  <2>1. Live' \subseteq Live /\ minted' = minted
    BY <1>3, <1>10 DEF MarkTokenConsumed
  <2>2. call[w].pc = "mark" /\ Moves(w) /\ call'[w].token = call[w].token
    BY <1>5, <1>10 DEF MarkTokenConsumed, Labels, At
  <2> QED
    BY <2>1, <2>2, ClosedKept
<1>11. ASSUME NEW w \in Workers, Rotate(w) PROVE Closed(f)'
  <2>1. Live' \ Live \subseteq {Successor(call[w].token)} /\ minted' = minted
    BY <1>11 DEF Rotate, Live
  <2>2. Family(call[w].token) # f
    BY <1>11 DEF Rotate, At, Closed, Refreshing
  <2>3. Family(Successor(call[w].token)) # f
    BY <2>2 DEF Successor, Family
  <2>4. Moves(w) /\ Idles(w)
    BY <1>4, <1>11 DEF Rotate
  <2> QED
    BY <2>1, <2>3, <2>4, ClosedKept
<1>12. ASSUME NEW w \in Workers,
              RevokeFamily(w) \/ RevokeAllRefreshTokens(w) \/ HandlerFails(w)
       PROVE  Closed(f)'
  <2>1. /\ Return(w) /\ minted' = minted /\ rows' = rows
        /\ consumed \subseteq consumed' /\ revoked \subseteq revoked'
    BY <1>12 DEF RevokeFamily, RevokeAllRefreshTokens, HandlerFails, tokens
  <2> QED
    BY <1>3, <1>4, <1>6, <2>1
<1>13. ASSUME NEW w \in Workers, SaveUser(w) PROVE Closed(f)'
  <2>1. UNCHANGED tokens
    BY <1>13 DEF SaveUser
  <2>2. Return(w) \/ \E l \in Labels \ {"mark", "rotate"} : Continue(w, l)
    BY <1>13 DEF SaveUser, Labels
  <2>3. Moves(w) /\ Idles(w)
    BY <1>4, <1>5, <2>2
  <2> QED
    BY <1>3, <1>6, <2>1, <2>3 DEF tokens
<1>14. ASSUME UNCHANGED call, minted' = minted, Live' \subseteq Live
       PROVE  Closed(f)'
  BY <1>14, ClosedKept
<1>15. ASSUME NEW w \in Workers, NEW u \in Users, DeleteUser(w, u)
       PROVE  Closed(f)'
  BY <1>2, <1>14, <1>15 DEF DeleteUser
<1>16. ASSUME UNCHANGED vars PROVE Closed(f)'
  BY <1>3, <1>14, <1>16 DEF vars, tokens
<1>17. ASSUME NEW w \in Workers, Step(w) PROVE Closed(f)'
  BY <1>7, <1>8, <1>9, <1>10, <1>11, <1>12, <1>13, <1>15, <1>17 DEF Step
<1> QED
  BY <1>16, <1>17 DEF Next

\* Reuse detection: a closed family stays closed.
THEOREM ClosedIsFinal == Spec => ClosedStaysClosed
<1>1. Inv /\ [Next]_vars => [\A f \in Families : Closed(f) => Closed(f)']_vars
  BY ClosedStep
<1> QED
  BY <1>1, SpecInv, PTL DEF Spec, ClosedStaysClosed
-----------------------------------------------------------------------------
\* The browser's side

\* What a store may hold: nobody, or a visitor together with their token.
Sessions == {Guest} \cup {SignedInAs(u) : u \in Visitors}

\* A request about a user was sent with the token of that user or none.
RequestOK(r) ==
    /\ r.tab \in Tabs /\ r.user \in Visitors
    /\ r.op \in {"saveProfile", "password", "delete"} => r.bearer \in {NoUser, r.user}

\* The copies of who is signed in, each by itself and in pairs.
ClientInv ==
    /\ store \in [Tabs -> Sessions] /\ persisted \in Sessions
    /\ bearer \in [Tabs -> Visitors \cup {NoUser}]
    /\ \A t \in Tabs : bearer[t] \in {NoUser, store[t].token}
    /\ local.token = local.user /\ local.user \in Visitors \cup {NoUser}
    /\ \A r \in requests : RequestOK(r)

\* A session shows the user of its token, and is signed in if it has one.
LEMMA SessionFields ==
  ASSUME NEW s \in Sessions
  PROVE  /\ s.token = s.user
         /\ s.user \in Visitors \cup {NoUser}
         /\ s = Guest \/ \E u \in Visitors : s = SignedInAs(u)
BY DEF Sessions, Guest, SignedInAs

\* The invariant contains what the tabs are to agree on.
LEMMA ClientInvAgrees == ClientInv => ClientAgrees
<1> SUFFICES ASSUME ClientInv PROVE ClientAgrees
  OBVIOUS
<1>1. \A s \in {persisted} \cup {store[t] : t \in Tabs} :
         s = Guest \/ \E u \in Visitors : s = SignedInAs(u)
  BY SessionFields DEF ClientInv
<1>2. ASSUME NEW t \in Tabs, NEW role \in {"user", "admin"}, GateOpen(t, role)
      PROVE  CanAccess(t, IF role = "admin" THEN "admin" ELSE "any")
  BY <1>2 DEF GateOpen, CanAccess, RoleOf
<1>3. \A t \in Tabs : /\ GateOpen(t, "user") => CanAccess(t, "any")
                      /\ GateOpen(t, "admin") => CanAccess(t, "admin")
  BY <1>2
<1> QED
  BY <1>1, <1>3 DEF ClientInv, ClientAgrees, RequestOK

\* Every tab starts as a guest.
LEMMA ClientInitInv == ClientInit => ClientInv
BY DEF ClientInit, ClientInv, Sessions, Guest

\* A tab that takes over a session keeps or drops its token with it.
LEMMA SetKeeps ==
  ASSUME ClientInv, NEW t \in Tabs, NEW s \in Sessions, Set(t, s),
         bearer' = [bearer EXCEPT ![t] = s.token]
  PROVE  /\ store' \in [Tabs -> Sessions] /\ persisted' \in Sessions
         /\ bearer' \in [Tabs -> Visitors \cup {NoUser}]
         /\ \A x \in Tabs : bearer'[x] \in {NoUser, store'[x].token}
<1>1. store' = [store EXCEPT ![t] = s] /\ persisted' = s
  BY DEF Set
<1>2. s.token \in Visitors \cup {NoUser}
  BY SessionFields
<1>3. store'[t] = s /\ bearer'[t] = s.token
  BY <1>1 DEF ClientInv
<1>4. \A x \in Tabs \ {t} : store'[x] = store[x] /\ bearer'[x] = bearer[x]
  BY <1>1 DEF ClientInv
<1> QED
  BY <1>1, <1>2, <1>3, <1>4 DEF ClientInv

\* Setting isLoading leaves the tab as it is and stores its session.
LEMMA LoadingKeeps ==
  ASSUME ClientInv, NEW t \in Tabs, SetLoading(t), UNCHANGED bearer
  PROVE  /\ store' \in [Tabs -> Sessions] /\ persisted' \in Sessions
         /\ bearer' \in [Tabs -> Visitors \cup {NoUser}]
         /\ \A x \in Tabs : bearer'[x] \in {NoUser, store'[x].token}
<1>1. store' = store /\ persisted' = store[t]
  BY DEF ClientInv, SetLoading, Set
<1> QED
  BY <1>1 DEF ClientInv

\* initializeAuth restores a user together with their token.
LEMMA RestoredKeeps ==
  ASSUME ClientInv, NEW t \in Tabs, Restored(t)
  PROVE  /\ store' \in [Tabs -> Sessions] /\ persisted' \in Sessions
         /\ bearer' \in [Tabs -> Visitors \cup {NoUser}]
         /\ \A x \in Tabs : bearer'[x] \in {NoUser, store'[x].token}
<1> DEFINE s == [user |-> local.user, token |-> local.token, auth |-> TRUE]
<1>1. CASE local.token # NoUser /\ local.user # NoUser
  <2>1. s \in Sessions
    BY <1>1 DEF ClientInv, Sessions, SignedInAs
  <2>2. Set(t, s) /\ bearer' = [bearer EXCEPT ![t] = s.token]
    BY <1>1 DEF Restored
  <2> QED
    BY <2>1, <2>2, SetKeeps
<1>2. CASE ~(local.token # NoUser /\ local.user # NoUser)
  <2>1. UNCHANGED <<bearer, store, persisted>>
    BY <1>2 DEF Restored
  <2> QED
    BY <2>1 DEF ClientInv
<1> QED
  BY <1>1, <1>2

\* A request carries the token of its tab, which is that of the user shown.
LEMMA SendKeeps ==
  ASSUME ClientInv, NEW t \in Tabs, NEW op, NEW u \in Visitors, Send(t, op, u),
         op \in SignIns \/ u = store[t].user
  PROVE  \A r \in requests' : RequestOK(r)
<1> DEFINE sent == [op |-> op, tab |-> t, user |-> u,
                    bearer |-> IF op \in SignIns THEN NoUser ELSE bearer[t]]
<1>1. requests' = requests \cup {sent}
  BY DEF Send
<1>2. op \notin SignIns => bearer[t] \in {NoUser, u}
  BY SessionFields DEF ClientInv
<1>3. RequestOK(sent)
  BY <1>2 DEF RequestOK
<1> QED
  BY <1>1, <1>3 DEF ClientInv

\* Every step keeps the invariant.
LEMMA ClientStep == ClientInv /\ [ClientNext]_clientVars => ClientInv'
<1> SUFFICES ASSUME ClientInv, [ClientNext]_clientVars PROVE ClientInv'
  OBVIOUS
<1> DEFINE Copies ==
      /\ store' \in [Tabs -> Sessions] /\ persisted' \in Sessions
      /\ bearer' \in [Tabs -> Visitors \cup {NoUser}]
      /\ \A t \in Tabs : bearer'[t] \in {NoUser, store'[t].token}
    Entries == local'.token = local'.user /\ local'.user \in Visitors \cup {NoUser}
    Asking == \A r \in requests' : RequestOK(r)
<1>0. Copies /\ Entries /\ Asking => ClientInv'
  BY DEF ClientInv, RequestOK
<1>1. UNCHANGED local => Entries
  BY DEF ClientInv
<1>2. UNCHANGED <<store, persisted, bearer>> => Copies
  BY DEF ClientInv
<1>3. requests' \subseteq requests => Asking
  BY DEF ClientInv
<1>4. ASSUME NEW t \in Tabs, LoadPage(t)
      PROVE  ClientInv'
  <2>1. store' = [store EXCEPT ![t] = persisted] /\ bearer' = [bearer EXCEPT ![t] = NoUser]
        /\ UNCHANGED <<local, persisted>> /\ requests' \subseteq requests
    BY <1>4 DEF LoadPage
  <2>2. \A x \in Tabs \ {t} : store'[x] = store[x] /\ bearer'[x] = bearer[x]
    BY <2>1 DEF ClientInv
  <2>3. Copies
    BY <2>1, <2>2 DEF ClientInv
  <2> QED
    BY <1>0, <1>1, <1>3, <2>1, <2>3
<1>5. ASSUME NEW t \in Tabs, InitializeAuth(t)
      PROVE  ClientInv'
  BY <1>0, <1>1, <1>3, <1>5, RestoredKeeps DEF InitializeAuth
<1>6. ASSUME NEW t \in Tabs, NEW u \in Visitors,
             SubmitLogin(t, u) \/ SubmitRegistration(t, u) \/ SubmitOtp(t, u)
                \/ SubmitSecondFactor(t, u)
      PROVE  ClientInv'
  <2>1. PICK op \in SignIns : Send(t, op, u)
    BY <1>6 DEF SubmitLogin, SubmitRegistration, SubmitOtp, SubmitSecondFactor, SignIns
  <2>2. Asking
    BY <2>1, SendKeeps
  <2>3. UNCHANGED <<bearer, local>> /\ (SetLoading(t) \/ UNCHANGED <<store, persisted>>)
    BY <1>6 DEF SubmitLogin, SubmitRegistration, SubmitOtp, SubmitSecondFactor
  <2>4. Copies
    BY <1>2, <2>3, LoadingKeeps
  <2> QED
    BY <1>0, <1>1, <2>2, <2>3, <2>4
<1>7. ASSUME NEW t \in Tabs, SaveProfile(t) \/ ChangePassword(t) \/ DeleteAccount(t)
      PROVE  ClientInv'
  <2>1. store[t].user \in Visitors
    BY <1>7, SessionFields DEF ClientInv, SaveProfile, ChangePassword, DeleteAccount
  <2>2. PICK op : Send(t, op, store[t].user)
    BY <1>7 DEF SaveProfile, ChangePassword, DeleteAccount
  <2>3. Asking
    BY <2>1, <2>2, SendKeeps
  <2> QED
    BY <1>0, <1>1, <1>2, <1>7, <2>3 DEF SaveProfile, ChangePassword, DeleteAccount
<1>8. ASSUME NEW t \in Tabs, UploadPicture(t)
      PROVE  ClientInv'
  <2>1. store[t].user \in Visitors
    BY <1>8, SessionFields DEF ClientInv, UploadPicture
  <2>2. requests' = requests \cup
          {[op |-> "picture", tab |-> t, user |-> store[t].user, bearer |-> local.token]}
    BY <1>8 DEF UploadPicture
  <2>3. Asking
    BY <2>1, <2>2 DEF ClientInv, RequestOK
  <2> QED
    BY <1>0, <1>1, <1>2, <1>8, <2>3 DEF UploadPicture
<1>9. ASSUME NEW t \in Tabs, Logout(t)
      PROVE  ClientInv'
  <2>1. Guest \in Sessions /\ Guest.token = NoUser
    BY DEF Sessions, Guest
  <2>2. Copies
    BY <1>9, <2>1, SetKeeps DEF Logout, SignedOut
  <2>3. Entries
    BY <1>9 DEF Logout, SignedOut
  <2> QED
    BY <1>0, <1>3, <1>9, <2>2, <2>3 DEF Logout
<1>10. ASSUME NEW r \in requests, LoggedIn(r) \/ Registered(r) \/ OtpVerified(r)
                                     \/ SecondFactorVerified(r)
       PROVE  ClientInv'
  <2>1. SignedIn(r.tab, r.user) /\ requests' \subseteq requests
    BY <1>10 DEF LoggedIn, Registered, OtpVerified, SecondFactorVerified, Receive
  <2>2. r.tab \in Tabs /\ r.user \in Visitors
    BY DEF ClientInv, RequestOK
  <2>3. SignedInAs(r.user) \in Sessions /\ SignedInAs(r.user).token = r.user
    BY <2>2 DEF Sessions, SignedInAs
  <2>4. Copies
    BY <2>1, <2>2, <2>3, SetKeeps DEF SignedIn
  <2>5. Entries
    BY <2>1, <2>2 DEF SignedIn
  <2> QED
    BY <1>0, <1>3, <2>1, <2>4, <2>5
<1>11. ASSUME NEW r \in requests, SecondFactorRequired(r) \/ RequestFails(r)
       PROVE  ClientInv'
  <2>1. UNCHANGED <<bearer, local>> /\ requests' \subseteq requests
    BY <1>11 DEF SecondFactorRequired, RequestFails, Receive
  <2>2. SetLoading(r.tab) \/ UNCHANGED <<store, persisted>>
    BY <1>11 DEF SecondFactorRequired, RequestFails, LoadingReset
  <2>3. r.tab \in Tabs
    BY DEF ClientInv, RequestOK
  <2>4. Copies
    BY <1>2, <2>1, <2>2, <2>3, LoadingKeeps
  <2> QED
    BY <1>0, <1>1, <1>3, <2>1, <2>4
<1>12. ASSUME NEW r \in requests, ProfileSaved(r)
       PROVE  ClientInv'
  <2>1. r.tab \in Tabs
    BY DEF ClientInv, RequestOK
  <2> QED
    BY <1>0, <1>1, <1>3, <1>12, <2>1, RestoredKeeps DEF ProfileSaved, Receive
<1>13. CASE UNCHANGED clientVars
  BY <1>0, <1>1, <1>2, <1>3, <1>13 DEF clientVars
<1> QED
  BY <1>4, <1>5, <1>6, <1>7, <1>8, <1>9, <1>10, <1>11, <1>12, <1>13 DEF ClientNext

\* Whatever the order of answers and reloads, and whatever other tabs write,
\* a tab shows the user whose token it holds and sends.
THEOREM TabsAgree == ClientSpec => []ClientAgrees
<1>1. ClientInit => ClientInv
  BY ClientInitInv
<1>2. ClientInv /\ [ClientNext]_clientVars => ClientInv'
  BY ClientStep
<1>3. ClientInv => ClientAgrees
  BY ClientInvAgrees
<1> QED
  BY <1>1, <1>2, <1>3, PTL DEF ClientSpec

-----------------------------------------------------------------------------
\* The forgotten password

IssuesSoFar == DOMAIN issues
IssuedTo(i, o) == i \in IssuesSoFar /\ issues[i].owner = o

ResetRows == [code : Nat, password : Nat]
ResetForms == [step : {"email", "otp", "new-password", "success"},
               email : Owners \cup {"none"}, verifiedOtp : Digits \cup {NoDigits},
               otp : Digits \cup {NoDigits}, cooldown : BOOLEAN]
ResetRequests ==
    [by : Wizards \cup {"none"}, op : {"send", "verify", "reset", "link"},
     owner : Owners \cup {"none"}, arg : Digits \cup {NoDigits},
     at : {"sent", "loaded", "saved", "mailed", "refused"}, copy : ResetRows]

\* A row of a user, stored or held by a handler, has codes issued to the user.
RowEarned(o, row) ==
    /\ row.code # 0 => IssuedTo(row.code, o)
    /\ row.password # 0 => <<o, row.password>> \in resets /\ IssuedTo(row.password, o)

MailedTo(o) == \E i \in IssuesSoFar : <<i, o>> \in mailed
SavedWith(digits) == \E r \in resets : r[2] \in IssuesSoFar /\ issues[r[2]].digits = digits

\* What a request under way has achieved.
RequestEarned(c) ==
    /\ c.op # "link" => c.owner \in Owners
    /\ c.at = "loaded" => c.op # "link" /\ RowEarned(c.owner, c.copy)
    /\ c.at = "saved" => c.op # "link"
    /\ c.at = "mailed" => c.op = "send" /\ MailedTo(c.owner)
    /\ c.op = "send" /\ c.at = "saved" => IssuedTo(c.copy.code, c.owner)
    /\ c.op = "verify" /\ c.at \in {"loaded", "saved"} => <<c.owner, c.arg>> \in accepted
    /\ c.op = "reset" /\ c.at = "loaded" =>
          c.copy.code # 0 /\ c.copy.code \in IssuesSoFar /\ issues[c.copy.code].digits = c.arg
    /\ c.op = "reset" /\ c.at = "saved" => SavedWith(c.arg)

\* What the form a request belongs to looks like while it waits.
RequestFits(c) ==
    c.by \in Wizards =>
        /\ c.op = "verify" => wizard[c.by].step = "otp" /\ c.owner = wizard[c.by].email
        /\ c.op = "reset" => /\ wizard[c.by].step = "new-password"
                             /\ c.arg = wizard[c.by].verifiedOtp

FormEarned(f) ==
    /\ f.step # "email" => f.email \in Owners /\ MailedTo(f.email)
    /\ f.step \in {"new-password", "success"} => <<f.email, f.verifiedOtp>> \in accepted
    /\ f.step = "success" => SavedWith(f.verifiedOtp)

\* A form has one request of a kind.
OneOfAKind ==
    \A c, d \in resetCalls : c.by = d.by /\ c.by \in Wizards /\ c.op = d.op => c = d

ResetTypes ==
    /\ wizard \in [Wizards -> ResetForms]
    /\ resetRow \in [Owners -> ResetRows]
    /\ resetCalls \subseteq ResetRequests
    /\ issues \in Seq([owner : Owners, digits : Digits])

ResetInv ==
    /\ ResetTypes /\ OneOfAKind
    /\ \A o \in Owners : RowEarned(o, resetRow[o])
    /\ \A c \in resetCalls : RequestEarned(c) /\ RequestFits(c)
    /\ \A w \in Wizards : FormEarned(wizard[w])

\* Nothing that was issued, mailed, accepted or saved is taken back.
HistoryGrows ==
    /\ \A i \in IssuesSoFar : i \in IssuesSoFar' /\ issues'[i] = issues[i]
    /\ mailed \subseteq mailed' /\ accepted \subseteq accepted' /\ resets \subseteq resets'

\* What a row, a request or a form has earned it keeps.
LEMMA EarnedKept ==
  ASSUME HistoryGrows
  PROVE  /\ \A i, o : IssuedTo(i, o) => IssuedTo(i, o)'
         /\ \A o, row : RowEarned(o, row) => RowEarned(o, row)'
         /\ \A o : MailedTo(o) => MailedTo(o)'
         /\ \A digits : SavedWith(digits) => SavedWith(digits)'
         /\ \A c : RequestEarned(c) => RequestEarned(c)'
         /\ \A f : FormEarned(f) => FormEarned(f)'
<1>1. \A i, o : IssuedTo(i, o) => IssuedTo(i, o)'
  BY DEF HistoryGrows, IssuedTo
<1>2. \A o, row : RowEarned(o, row) => RowEarned(o, row)'
  BY <1>1 DEF HistoryGrows, RowEarned
<1>3. \A o : MailedTo(o) => MailedTo(o)'
  BY DEF HistoryGrows, MailedTo
<1>4. \A digits : SavedWith(digits) => SavedWith(digits)'
  BY DEF HistoryGrows, SavedWith
<1>5. \A c : RequestEarned(c) => RequestEarned(c)'
  <2> SUFFICES ASSUME NEW c, RequestEarned(c) PROVE RequestEarned(c)'
    OBVIOUS
  <2>1. c.op = "reset" /\ c.at = "loaded" =>
           c.copy.code # 0 /\ c.copy.code \in IssuesSoFar'
                /\ issues'[c.copy.code].digits = c.arg
    BY DEF HistoryGrows, RequestEarned
  <2> QED
    BY <1>1, <1>2, <1>3, <1>4, <2>1 DEF HistoryGrows, RequestEarned
<1>6. \A f : FormEarned(f) => FormEarned(f)'
  BY <1>3, <1>4 DEF HistoryGrows, FormEarned
<1> QED
  BY <1>1, <1>2, <1>3, <1>4, <1>5, <1>6

\* A handler that goes on keeps the request's form, kind and argument.
LEMMA ServerStep ==
  ASSUME ResetInv, NEW c \in resetCalls, NEW d \in ResetRequests, Move(c, d),
         d.by = c.by, d.op = c.op, d.arg = c.arg, d.op = "verify" => d.owner = c.owner,
         UNCHANGED wizard, HistoryGrows,
         issues' \in Seq([owner : Owners, digits : Digits]),
         resetRow' \in [Owners -> ResetRows],
         \A o \in Owners : RowEarned(o, resetRow[o])',
         RequestEarned(d)'
  PROVE  ResetInv'
<1>1. ResetTypes'
  BY DEF ResetInv, ResetTypes, Move
<1>2. OneOfAKind'
  BY DEF ResetInv, OneOfAKind, Move
<1>3. \A e \in resetCalls' : RequestEarned(e)' /\ RequestFits(e)'
  <2> SUFFICES ASSUME NEW e \in resetCalls' PROVE RequestEarned(e)' /\ RequestFits(e)'
    OBVIOUS
  <2>1. CASE e = d
    BY <2>1 DEF ResetInv, RequestFits
  <2>2. CASE e \in resetCalls
    BY <2>2, EarnedKept DEF ResetInv, RequestFits
  <2> QED
    BY <2>1, <2>2 DEF Move
<1>4. \A w \in Wizards : FormEarned(wizard[w])'
  BY EarnedKept DEF ResetInv
<1> QED
  BY <1>1, <1>2, <1>3, <1>4 DEF ResetInv

\* A form sends a request that it does not wait for yet.
LEMMA PostStep ==
  ASSUME ResetInv, NEW d \in ResetRequests, resetCalls' = resetCalls \cup {d},
         d.by \in Wizards, ~Pending(d.by, d.op), UNCHANGED <<wizard, formState>>,
         RequestEarned(d), RequestFits(d)
  PROVE  ResetInv'
<1>1. HistoryGrows
  BY DEF HistoryGrows, formState, IssuesSoFar
<1>2. ResetTypes'
  BY DEF ResetInv, ResetTypes, formState
<1>3. OneOfAKind'
  BY DEF ResetInv, OneOfAKind, Pending
<1>4. \A e \in resetCalls' : RequestEarned(e)' /\ RequestFits(e)'
  BY <1>1, EarnedKept DEF ResetInv, RequestFits
<1>5. \A o \in Owners : RowEarned(o, resetRow[o])'
  BY <1>1, EarnedKept DEF ResetInv, formState
<1>6. \A w \in Wizards : FormEarned(wizard[w])'
  BY <1>1, EarnedKept DEF ResetInv
<1> QED
  BY <1>2, <1>3, <1>4, <1>5, <1>6 DEF ResetInv

\* A step of one form, which takes an answer or none: the requests that are
\* left still fit their forms.
LEMMA FormStep ==
  ASSUME ResetInv, NEW w \in Wizards, NEW f \in ResetForms, wizard' = [wizard EXCEPT ![w] = f],
         resetCalls' \subseteq resetCalls, UNCHANGED formState, FormEarned(f),
         \A e \in resetCalls' : e.by = w =>
            /\ e.op = "verify" => f.step = "otp" /\ e.owner = f.email
            /\ e.op = "reset" => f.step = "new-password" /\ e.arg = f.verifiedOtp
  PROVE  ResetInv'
<1>1. HistoryGrows
  BY DEF HistoryGrows, formState, IssuesSoFar
<1>2. ResetTypes'
  BY DEF ResetInv, ResetTypes, formState
<1>3. OneOfAKind'
  BY DEF ResetInv, OneOfAKind
<1>4. wizard'[w] = f /\ \A x \in Wizards \ {w} : wizard'[x] = wizard[x]
  BY DEF ResetInv, ResetTypes
<1>5. \A e \in resetCalls' : RequestEarned(e)' /\ RequestFits(e)'
  BY <1>1, <1>4, EarnedKept DEF ResetInv, RequestFits
<1>6. \A o \in Owners : RowEarned(o, resetRow[o])'
  BY <1>1, EarnedKept DEF ResetInv, formState
<1>7. \A x \in Wizards : FormEarned(wizard[x])'
  <2> SUFFICES ASSUME NEW x \in Wizards PROVE FormEarned(wizard[x])'
    OBVIOUS
  <2>1. FormEarned(wizard[x]) \/ (x = w /\ FormEarned(f))
    BY DEF ResetInv
  <2>2. CASE x = w
    BY <1>1, <1>4, <2>2, EarnedKept DEF FormEarned
  <2>3. CASE x # w
    BY <1>1, <1>4, <2>3, EarnedKept DEF ResetInv, FormEarned
  <2> QED
    BY <2>2, <2>3
<1> QED
  BY <1>2, <1>3, <1>5, <1>6, <1>7 DEF ResetInv

\* The fields of requests and of forms.
LEMMA RequestFields ==
  ASSUME ResetInv, NEW c \in resetCalls
  PROVE  /\ c \in ResetRequests /\ c.by \in Wizards \cup {"none"}
         /\ c.op \in {"send", "verify", "reset", "link"} /\ c.arg \in Digits \cup {NoDigits}
         /\ c.owner \in Owners \cup {"none"} /\ c.copy \in ResetRows
         /\ RequestEarned(c) /\ RequestFits(c)
BY DEF ResetInv, ResetTypes, ResetRequests

LEMMA NobodysRowType == NobodysRow \in ResetRows
BY DEF NobodysRow, ResetRows

\* Every form starts empty.
LEMMA ResetInitInv == PasswordResetInit => ResetInv
<1> SUFFICES ASSUME PasswordResetInit PROVE ResetInv
  OBVIOUS
<1>1. EmptyForm \in ResetForms /\ EmptyForm.step = "email"
  BY DEF EmptyForm, ResetForms
<1>2. \A o \in Owners : RowEarned(o, resetRow[o])
  BY DEF PasswordResetInit, RowEarned, NobodysRow
<1>3. ResetTypes
  BY <1>1, NobodysRowType DEF PasswordResetInit, ResetTypes
<1>4. \A w \in Wizards : FormEarned(wizard[w])
  BY <1>1 DEF PasswordResetInit, FormEarned
<1> QED
  BY <1>2, <1>3, <1>4 DEF PasswordResetInit, ResetInv, OneOfAKind

\* A refusal needs nothing.
LEMMA RefuseStep ==
  ASSUME ResetInv, NEW c \in resetCalls, Refuse(c), c.at = "sent" \/ c.op = "send",
         UNCHANGED wizard, UNCHANGED <<resetRow, issues, accepted, resets>>, mailed \subseteq mailed'
  PROVE  ResetInv'
<1>1. PICK d : d = [c EXCEPT !.at = "refused", !.copy = NobodysRow]
  OBVIOUS
<1>2. d \in ResetRequests /\ d.by = c.by /\ d.op = c.op /\ d.arg = c.arg /\ d.owner = c.owner
      /\ d.at = "refused"
  BY <1>1, RequestFields, NobodysRowType DEF ResetRequests
<1>3. HistoryGrows
  BY DEF HistoryGrows, IssuesSoFar
<1>4. \A o \in Owners : RowEarned(o, resetRow[o])'
  BY <1>3, EarnedKept DEF ResetInv
<1>5. RequestEarned(d)'
  BY <1>2, RequestFields DEF RequestEarned
<1>6. Move(c, d)
  BY <1>1 DEF Refuse
<1> QED
  BY <1>2, <1>3, <1>4, <1>5, <1>6, ServerStep DEF ResetInv, ResetTypes

\* A handler that loads a row holds what the row has earned.
LEMMA LoadStep ==
  ASSUME ResetInv, NEW c \in resetCalls, NEW o \in Owners, Loaded(c, o), c.op # "link",
         c.op = "verify" => o = c.owner /\ <<o, c.arg>> \in accepted',
         c.op = "reset" => Matches(o, c.arg),
         UNCHANGED <<wizard, resetRow, issues, mailed, resets>>, accepted \subseteq accepted'
  PROVE  ResetInv'
<1>1. PICK d : d = [c EXCEPT !.at = "loaded", !.owner = o, !.copy = resetRow[o]]
  OBVIOUS
<1>2. resetRow[o] \in ResetRows
  BY DEF ResetInv, ResetTypes
<1>3. d \in ResetRequests /\ d.by = c.by /\ d.op = c.op /\ d.arg = c.arg /\ d.owner = o
      /\ d.at = "loaded" /\ d.copy = resetRow[o]
  BY <1>1, <1>2, RequestFields DEF ResetRequests
<1>4. HistoryGrows
  BY DEF HistoryGrows, IssuesSoFar
<1>5. \A p \in Owners : RowEarned(p, resetRow[p])'
  BY <1>4, EarnedKept DEF ResetInv
<1>6. RowEarned(o, d.copy)'
  BY <1>3, <1>4, EarnedKept DEF ResetInv
<1>7. c.op = "reset" => d.copy.code # 0 /\ d.copy.code \in IssuesSoFar
                        /\ issues[d.copy.code].digits = c.arg
  BY <1>3 DEF Matches, ResetInv, RowEarned, IssuedTo
<1>8. RequestEarned(d)'
  BY <1>3, <1>6, <1>7, RequestFields DEF RequestEarned, IssuesSoFar
<1>9. Move(c, d)
  BY <1>1 DEF Loaded
<1> QED
  BY <1>3, <1>4, <1>5, <1>8, <1>9, ServerStep DEF ResetInv, ResetTypes

\* What the form and the user's clock do.
LEMMA WizardInv ==
  ASSUME ResetInv, NEW w \in Wizards,
         \/ ResendOtp(w) \/ SubmitResetOtp(w) \/ SubmitPassword(w) \/ CooldownEnds(w)
         \/ LeaveForm(w) \/ SubmitLink(w)
         \/ \E o \in Owners : SubmitEmail(w, o)
         \/ \E d \in Digits : EnterResetOtp(w, d)
  PROVE  ResetInv'
<1>1. wizard[w] \in ResetForms /\ FormEarned(wizard[w])
  BY DEF ResetInv, ResetTypes
<1>2. ASSUME NEW op \in {"send", "verify", "reset", "link"}, NEW o, NEW arg,
             Post(w, op, o, arg), ~Pending(w, op), UNCHANGED <<wizard, formState>>,
             o \in Owners \/ (op = "link" /\ o = "none"), arg \in Digits \cup {NoDigits},
             op = "verify" => wizard[w].step = "otp" /\ o = wizard[w].email,
             op = "reset" => wizard[w].step = "new-password" /\ arg = wizard[w].verifiedOtp
      PROVE  ResetInv'
  <2>1. PICK d : d = [by |-> w, op |-> op, owner |-> o, arg |-> arg, at |-> "sent",
                      copy |-> NobodysRow]
    OBVIOUS
  <2>2. d \in ResetRequests
    BY <1>2, <2>1, NobodysRowType DEF ResetRequests
  <2>3. RequestEarned(d) /\ RequestFits(d)
    BY <1>2, <2>1 DEF RequestEarned, RequestFits
  <2>4. resetCalls' = resetCalls \cup {d}
    BY <1>2, <2>1 DEF Post
  <2> QED
    BY <1>2, <2>1, <2>2, <2>3, <2>4, PostStep
<1>3. CASE ResendOtp(w)
  <2>1. PICK o : o = wizard[w].email
    OBVIOUS
  <2>2. o \in Owners
    BY <1>1, <1>3, <2>1 DEF FormEarned, ResendOtp
  <2> QED
    BY <1>2, <1>3, <2>1, <2>2 DEF ResendOtp
<1>4. CASE SubmitResetOtp(w)
  <2>1. PICK o, arg : o = wizard[w].email /\ arg = wizard[w].otp
    OBVIOUS
  <2>2. o \in Owners /\ arg \in Digits \cup {NoDigits}
    BY <1>1, <1>4, <2>1 DEF FormEarned, SubmitResetOtp, ResetForms
  <2> QED
    BY <1>2, <1>4, <2>1, <2>2 DEF SubmitResetOtp
<1>5. CASE SubmitPassword(w)
  <2>1. PICK o, arg : o = wizard[w].email /\ arg = wizard[w].verifiedOtp
    OBVIOUS
  <2>2. o \in Owners /\ arg \in Digits \cup {NoDigits}
    BY <1>1, <1>5, <2>1 DEF FormEarned, SubmitPassword, ResetForms
  <2> QED
    BY <1>2, <1>5, <2>1, <2>2 DEF SubmitPassword
<1>6. CASE CooldownEnds(w)
  <2>1. PICK f : f = [wizard[w] EXCEPT !.cooldown = FALSE]
    OBVIOUS
  <2>2. f \in ResetForms /\ f.step = wizard[w].step /\ f.email = wizard[w].email
        /\ f.verifiedOtp = wizard[w].verifiedOtp
    BY <1>1, <2>1 DEF ResetForms
  <2>3. wizard' = [wizard EXCEPT ![w] = f]
    BY <1>6, <2>1 DEF CooldownEnds
  <2>4. FormEarned(f)
    BY <1>1, <2>2 DEF FormEarned
  <2>5. resetCalls' = resetCalls /\ UNCHANGED formState
    BY <1>6 DEF CooldownEnds
  <2>6. \A e \in resetCalls : e.by = w =>
           /\ e.op = "verify" => f.step = "otp" /\ e.owner = f.email
           /\ e.op = "reset" => f.step = "new-password" /\ e.arg = f.verifiedOtp
    BY <2>2, RequestFields DEF RequestFits
  <2> QED
    BY <2>2, <2>3, <2>4, <2>5, <2>6, FormStep
<1>7. CASE LeaveForm(w)
  <2>1. resetCalls' = {c \in resetCalls : c.by # w}
                         \cup {[c EXCEPT !.by = "none"] : c \in {c \in resetCalls : c.by = w}}
        /\ wizard' = [wizard EXCEPT ![w] = EmptyForm] /\ UNCHANGED formState
    BY <1>7 DEF LeaveForm
  <2>2. EmptyForm \in ResetForms /\ FormEarned(EmptyForm)'
    BY DEF EmptyForm, ResetForms, FormEarned
  <2>3. HistoryGrows
    BY <2>1 DEF HistoryGrows, formState, IssuesSoFar
  <2>4. wizard'[w] = EmptyForm /\ \A x \in Wizards \ {w} : wizard'[x] = wizard[x]
    BY <2>1 DEF ResetInv, ResetTypes
  <2>5. ASSUME NEW e \in resetCalls'
        PROVE  /\ e \in ResetRequests /\ RequestEarned(e)'
               /\ e.by \in Wizards => e \in resetCalls /\ e.by # w
    <3>1. CASE e \in resetCalls /\ e.by # w
      BY <2>3, <3>1, EarnedKept, RequestFields
    <3>2. CASE \E c \in resetCalls : c.by = w /\ e = [c EXCEPT !.by = "none"]
      <4>1. PICK c \in resetCalls : c.by = w /\ e = [c EXCEPT !.by = "none"]
        BY <3>2
      <4>2. e \in ResetRequests /\ e.by = "none" /\ e.op = c.op /\ e.at = c.at /\ e.arg = c.arg
            /\ e.owner = c.owner /\ e.copy = c.copy
        BY <4>1, RequestFields DEF ResetRequests
      <4>3. RequestEarned(c)'
        BY <2>3, EarnedKept, RequestFields
      <4>4. RequestEarned(e)'
        BY <4>2, <4>3 DEF RequestEarned
      <4> QED
        BY <4>2, <4>4, ResetFormsAssumption
    <3> QED
      BY <2>1, <3>1, <3>2
  <2>6. ResetTypes'
    BY <2>1, <2>2, <2>5 DEF ResetInv, ResetTypes, formState
  <2>7. OneOfAKind'
    BY <2>5 DEF ResetInv, OneOfAKind
  <2>8. \A e \in resetCalls' : RequestEarned(e)' /\ RequestFits(e)'
    BY <2>4, <2>5, RequestFields DEF RequestFits
  <2>9. \A o \in Owners : RowEarned(o, resetRow[o])'
    BY <2>1, <2>3, EarnedKept DEF ResetInv, formState
  <2>10. \A x \in Wizards : FormEarned(wizard[x])'
    <3> SUFFICES ASSUME NEW x \in Wizards PROVE FormEarned(wizard[x])'
      OBVIOUS
    <3>1. CASE x = w
      BY <2>2, <2>4, <3>1 DEF FormEarned
    <3>2. CASE x # w
      BY <2>3, <2>4, <3>2, EarnedKept DEF ResetInv, FormEarned
    <3> QED
      BY <3>1, <3>2
  <2> QED
    BY <2>6, <2>7, <2>8, <2>9, <2>10 DEF ResetInv
<1>8. CASE SubmitLink(w)
  BY <1>2, <1>8 DEF SubmitLink, LinkFormEnabled
<1>9. CASE \E o \in Owners : SubmitEmail(w, o)
  BY <1>2, <1>9 DEF SubmitEmail
<1>10. CASE \E d \in Digits : EnterResetOtp(w, d)
  <2>1. PICK digits \in Digits : EnterResetOtp(w, digits)
    BY <1>10
  <2>2. PICK f : f = [wizard[w] EXCEPT !.otp = digits]
    OBVIOUS
  <2>3. f \in ResetForms /\ f.step = wizard[w].step /\ f.email = wizard[w].email
        /\ f.verifiedOtp = wizard[w].verifiedOtp
    BY <1>1, <2>2 DEF ResetForms
  <2>4. wizard' = [wizard EXCEPT ![w] = f]
    BY <2>1, <2>2 DEF EnterResetOtp
  <2>5. FormEarned(f)
    BY <1>1, <2>3 DEF FormEarned
  <2>6. resetCalls' = resetCalls /\ UNCHANGED formState
    BY <2>1 DEF EnterResetOtp
  <2>7. \A e \in resetCalls : e.by = w =>
           /\ e.op = "verify" => f.step = "otp" /\ e.owner = f.email
           /\ e.op = "reset" => f.step = "new-password" /\ e.arg = f.verifiedOtp
    BY <2>3, RequestFields DEF RequestFits
  <2> QED
    BY <2>3, <2>4, <2>5, <2>6, <2>7, FormStep
<1> QED
  BY <1>3, <1>4, <1>5, <1>6, <1>7, <1>8, <1>9, <1>10

\* What the answers do, and the service.
LEMMA RequestInv ==
  ASSUME ResetInv, NEW c \in resetCalls,
         \/ c.by # "none" /\ \/ CodeSent(c) \/ OtpAccepted(c) \/ PasswordChanged(c)
                             \/ RefusalShown(c)
         \/ AnswerIsLost(c) \/ LinkRefused(c)
         \/ LoadToSend(c) \/ \E d \in Digits : SaveCode(c, d)
         \/ MailCode(c) \/ VerifyCode(c) \/ SaveAfterCheck(c)
         \/ FindByCode(c) \/ SavePassword(c)
  PROVE  ResetInv'
<1>1. /\ c \in ResetRequests /\ RequestEarned(c) /\ RequestFits(c)
      /\ c.by \in Wizards \cup {"none"} /\ c.owner \in Owners \cup {"none"}
      /\ c.arg \in Digits \cup {NoDigits} /\ c.copy \in ResetRows
  BY RequestFields
<1>2. ASSUME c.by # "none" PROVE wizard[c.by] \in ResetForms /\ FormEarned(wizard[c.by])
  BY <1>1, <1>2 DEF ResetInv, ResetTypes
<1>3. ASSUME UNCHANGED <<wizard, formState>>, resetCalls' \subseteq resetCalls
      PROVE  ResetInv'
  <2>1. HistoryGrows
    BY <1>3 DEF HistoryGrows, formState, IssuesSoFar
  <2>2. \A e \in resetCalls' : RequestEarned(e)' /\ RequestFits(e)'
    BY <1>3, <2>1, EarnedKept DEF ResetInv, RequestFits
  <2>3. \A o \in Owners : RowEarned(o, resetRow[o])'
    BY <1>3, <2>1, EarnedKept DEF ResetInv, formState
  <2>4. \A w \in Wizards : FormEarned(wizard[w])'
    BY <1>3, <2>1, EarnedKept DEF ResetInv
  <2> QED
    BY <1>3, <2>2, <2>3, <2>4 DEF ResetInv, ResetTypes, OneOfAKind, formState
<1>4. CASE c.by # "none" /\ CodeSent(c)
  <2>1. PICK w \in Wizards : w = c.by
    BY <1>1, <1>4
  <2>2. PICK f : f = IF wizard[w].step = "email"
                     THEN [wizard[w] EXCEPT !.step = "otp", !.email = c.owner, !.cooldown = TRUE]
                     ELSE [wizard[w] EXCEPT !.otp = NoDigits, !.cooldown = TRUE]
    OBVIOUS
  <2>3. wizard[w] \in ResetForms /\ FormEarned(wizard[w])
    BY <1>2, <1>4, <2>1
  <2>4. c.owner \in Owners /\ MailedTo(c.owner)
    BY <1>1, <1>4 DEF CodeSent, RequestEarned
  <2>7. resetCalls' = resetCalls \ {c} /\ UNCHANGED formState
    BY <1>4 DEF CodeSent, Take
  <2>8. wizard' = [wizard EXCEPT ![w] = f]
    BY <1>4, <2>1, <2>2 DEF CodeSent, ResetInv, ResetTypes
  <2>5. CASE wizard[w].step = "email"
    <3>1. f \in ResetForms /\ f.step = "otp" /\ f.email = c.owner
      BY <2>2, <2>3, <2>4, <2>5 DEF ResetForms
    <3>2. FormEarned(f)
      BY <2>4, <3>1 DEF FormEarned
    <3>3. \A e \in resetCalls : e.by = w => e.op \notin {"verify", "reset"}
      BY <2>5, RequestFields DEF RequestFits
    <3> QED
      BY <2>7, <2>8, <3>1, <3>2, <3>3, FormStep
  <2>6. CASE wizard[w].step # "email"
    <3>1. f \in ResetForms /\ f.step = wizard[w].step /\ f.email = wizard[w].email
          /\ f.verifiedOtp = wizard[w].verifiedOtp
      BY <2>2, <2>3, <2>6 DEF ResetForms
    <3>2. FormEarned(f)
      BY <2>3, <3>1 DEF FormEarned
    <3>3. \A e \in resetCalls : e.by = w =>
             /\ e.op = "verify" => f.step = "otp" /\ e.owner = f.email
             /\ e.op = "reset" => f.step = "new-password" /\ e.arg = f.verifiedOtp
      BY <3>1, RequestFields DEF RequestFits
    <3> QED
      BY <2>7, <2>8, <3>1, <3>2, <3>3, FormStep
  <2> QED
    BY <2>5, <2>6
<1>5. CASE c.by # "none" /\ OtpAccepted(c)
  <2>1. PICK w \in Wizards : w = c.by
    BY <1>1, <1>5
  <2>2. PICK f : f = [wizard[w] EXCEPT !.step = "new-password", !.verifiedOtp = c.arg]
    OBVIOUS
  <2>3. wizard[w] \in ResetForms /\ FormEarned(wizard[w])
    BY <1>2, <1>5, <2>1
  <2>4. f \in ResetForms /\ f.step = "new-password" /\ f.email = wizard[w].email
        /\ f.verifiedOtp = c.arg
    BY <1>1, <2>2, <2>3 DEF ResetForms
  <2>5. wizard[w].step = "otp" /\ c.owner = wizard[w].email /\ <<c.owner, c.arg>> \in accepted
    BY <1>1, <1>5, <2>1 DEF OtpAccepted, RequestFits, RequestEarned
  <2>6. FormEarned(f)
    BY <2>3, <2>4, <2>5 DEF FormEarned
  <2>7. \A e \in resetCalls : e.by = w => e.op # "reset" /\ (e.op = "verify" => e = c)
    BY <1>5, <2>1, <2>5, RequestFields DEF RequestFits, ResetInv, OneOfAKind, OtpAccepted
  <2>8. wizard' = [wizard EXCEPT ![w] = f]
    BY <1>5, <2>1, <2>2 DEF OtpAccepted, ResetInv, ResetTypes
  <2>9. resetCalls' = resetCalls \ {c} /\ UNCHANGED formState
    BY <1>5 DEF OtpAccepted, Take
  <2>10. \A e \in resetCalls' : e \in resetCalls /\ e # c
    BY <2>9
  <2>11. \A e \in resetCalls' : e.by = w =>
            /\ e.op = "verify" => f.step = "otp" /\ e.owner = f.email
            /\ e.op = "reset" => f.step = "new-password" /\ e.arg = f.verifiedOtp
    BY <2>7, <2>10
  <2>12. resetCalls' \subseteq resetCalls /\ UNCHANGED formState
    BY <2>9, <2>10
  <2>13. f \in ResetForms
    BY <2>4
  <2> QED
    BY <2>6, <2>8, <2>11, <2>12, <2>13, FormStep
<1>6. CASE c.by # "none" /\ PasswordChanged(c)
  <2>1. PICK w \in Wizards : w = c.by
    BY <1>1, <1>6
  <2>2. PICK f : f = [wizard[w] EXCEPT !.step = "success"]
    OBVIOUS
  <2>3. wizard[w] \in ResetForms /\ FormEarned(wizard[w])
    BY <1>2, <1>6, <2>1
  <2>4. f \in ResetForms /\ f.step = "success" /\ f.email = wizard[w].email
        /\ f.verifiedOtp = wizard[w].verifiedOtp
    BY <2>2, <2>3 DEF ResetForms
  <2>5. wizard[w].step = "new-password" /\ c.arg = wizard[w].verifiedOtp /\ SavedWith(c.arg)
    BY <1>1, <1>6, <2>1 DEF PasswordChanged, RequestFits, RequestEarned
  <2>6. FormEarned(f)
    BY <2>3, <2>4, <2>5 DEF FormEarned
  <2>7. \A e \in resetCalls : e.by = w => e.op # "verify" /\ (e.op = "reset" => e = c)
    BY <1>6, <2>1, <2>5, RequestFields DEF RequestFits, ResetInv, OneOfAKind, PasswordChanged
  <2>8. wizard' = [wizard EXCEPT ![w] = f]
    BY <1>6, <2>1, <2>2 DEF PasswordChanged, ResetInv, ResetTypes
  <2>9. resetCalls' = resetCalls \ {c} /\ UNCHANGED formState
    BY <1>6 DEF PasswordChanged, Take
  <2>10. \A e \in resetCalls' : e \in resetCalls /\ e # c
    BY <2>9
  <2>11. \A e \in resetCalls' : e.by = w =>
            /\ e.op = "verify" => f.step = "otp" /\ e.owner = f.email
            /\ e.op = "reset" => f.step = "new-password" /\ e.arg = f.verifiedOtp
    BY <2>7, <2>10
  <2>12. resetCalls' \subseteq resetCalls /\ UNCHANGED formState
    BY <2>9, <2>10
  <2>13. f \in ResetForms
    BY <2>4
  <2> QED
    BY <2>6, <2>8, <2>11, <2>12, <2>13, FormStep
<1>7. CASE RefusalShown(c) \/ AnswerIsLost(c)
  BY <1>3, <1>7 DEF RefusalShown, AnswerIsLost, Take
<1>8. CASE LinkRefused(c)
  BY <1>8, RefuseStep DEF LinkRefused, formState
<1>9. CASE LoadToSend(c)
  <2>1. c.owner \in Owners
    BY <1>1, <1>9 DEF LoadToSend, RequestEarned
  <2> QED
    BY <1>9, <2>1, LoadStep DEF LoadToSend, formState
<1>10. ASSUME NEW digits \in Digits, SaveCode(c, digits)
       PROVE  ResetInv'
  <2>1. PICK issue : issue = Len(issues) + 1
    OBVIOUS
  <2>2. PICK entry : entry = [owner |-> c.owner, digits |-> digits]
    OBVIOUS
  <2>3. PICK password \in {c.copy.password, resetRow[c.owner].password} :
            resetRow' = [resetRow EXCEPT ![c.owner] = [code |-> issue, password |-> password]]
    BY <1>10, <2>1 DEF SaveCode
  <2>17. PICK row : row = [code |-> issue, password |-> password]
    OBVIOUS
  <2>4. PICK d : d = [c EXCEPT !.at = "saved", !.copy = [NobodysRow EXCEPT !.code = issue]]
    OBVIOUS
  <2>5. /\ c.op = "send" /\ c.at = "loaded" /\ issues' = Append(issues, entry)
        /\ resetRow' = [resetRow EXCEPT ![c.owner] = row] /\ Move(c, d)
        /\ UNCHANGED <<wizard, stale, mailed, accepted, resets>>
    BY <1>10, <2>1, <2>2, <2>3, <2>4, <2>17 DEF SaveCode
  <2>6. /\ c.owner \in Owners /\ RowEarned(c.owner, c.copy)
        /\ RowEarned(c.owner, resetRow[c.owner]) /\ resetRow[c.owner] \in ResetRows
    BY <1>1, <2>5 DEF RequestEarned, ResetInv, ResetTypes
  <2>7. issues \in Seq([owner : Owners, digits : Digits])
        /\ entry \in [owner : Owners, digits : Digits] /\ entry.owner = c.owner
    BY <2>2, <2>6 DEF ResetInv, ResetTypes
  <2>8. /\ issues' \in Seq([owner : Owners, digits : Digits])
        /\ Len(issues) \in Nat /\ DOMAIN issues = 1..Len(issues)
        /\ DOMAIN issues' = 1..(Len(issues) + 1)
        /\ \A i \in 1..Len(issues) : issues'[i] = issues[i]
        /\ issues'[Len(issues) + 1] = entry
    BY <2>5, <2>7
  <2>9. HistoryGrows
    BY <2>5, <2>8 DEF HistoryGrows, IssuesSoFar
  <2>10. IssuedTo(issue, c.owner)' /\ issue \in Nat
    BY <2>1, <2>7, <2>8 DEF IssuedTo, IssuesSoFar
  <2>11. row \in ResetRows /\ row.code = issue /\ row.password = password
    <3>1. password \in Nat
      BY <1>1, <2>3, <2>5, <2>6 DEF ResetRequests, ResetRows
    <3> QED
      BY <2>10, <2>17, <3>1 DEF ResetRows
  <2>12. d \in ResetRequests /\ d.by = c.by /\ d.op = c.op /\ d.arg = c.arg
         /\ d.owner = c.owner /\ d.at = "saved" /\ d.copy.code = issue
    BY <1>1, <2>4, <2>10 DEF ResetRequests, NobodysRow, ResetRows
  <2>13. RowEarned(c.owner, row)'
    <3>1. PICK now : now = resetRow[c.owner]
      OBVIOUS
    <3>2. RowEarned(c.owner, c.copy)' /\ RowEarned(c.owner, now)'
      BY <2>6, <2>9, <3>1, EarnedKept
    <3>3. password \in {c.copy.password, now.password}
      BY <2>3, <3>1
    <3>4. password # 0 => <<c.owner, password>> \in resets' /\ IssuedTo(password, c.owner)'
      BY <3>2, <3>3 DEF RowEarned
    <3> QED
      BY <2>10, <2>11, <3>4 DEF RowEarned
  <2>14. \A o \in Owners : RowEarned(o, resetRow[o])'
    <3> SUFFICES ASSUME NEW o \in Owners PROVE RowEarned(o, resetRow[o])'
      OBVIOUS
    <3>1. CASE o = c.owner
      <4>1. resetRow'[o] = row
        BY <2>5, <2>6, <3>1 DEF ResetInv, ResetTypes
      <4> QED
        BY <2>13, <3>1, <4>1 DEF RowEarned
    <3>2. CASE o # c.owner
      <4>1. resetRow'[o] = resetRow[o]
        BY <2>5, <3>2 DEF ResetInv, ResetTypes
      <4> QED
        BY <2>9, <4>1, EarnedKept DEF ResetInv, RowEarned
    <3> QED
      BY <3>1, <3>2
  <2>15. resetRow' \in [Owners -> ResetRows]
    BY <2>5, <2>11 DEF ResetInv, ResetTypes
  <2>16. RequestEarned(d)'
    BY <2>5, <2>6, <2>10, <2>12 DEF RequestEarned
  <2> QED
    BY <2>5, <2>8, <2>9, <2>12, <2>14, <2>15, <2>16, ServerStep
<1>11. CASE MailCode(c)
  <2>1. c.op = "send" /\ c.at = "saved" /\ c.owner \in Owners /\ IssuedTo(c.copy.code, c.owner)
    BY <1>1, <1>11 DEF MailCode, RequestEarned
  <2>2. ASSUME mailed' = mailed \cup {<<c.copy.code, c.owner>>},
               Move(c, [c EXCEPT !.at = "mailed", !.copy = NobodysRow])
        PROVE  ResetInv'
    <3>1. PICK d : d = [c EXCEPT !.at = "mailed", !.copy = NobodysRow]
      OBVIOUS
    <3>2. d \in ResetRequests /\ d.by = c.by /\ d.op = c.op /\ d.arg = c.arg
          /\ d.owner = c.owner /\ d.at = "mailed"
      BY <1>1, <3>1, NobodysRowType DEF ResetRequests
    <3>3. HistoryGrows /\ UNCHANGED <<wizard, resetRow, issues>>
      BY <1>11, <2>2 DEF MailCode, HistoryGrows, IssuesSoFar
    <3>4. MailedTo(c.owner)'
      BY <2>1, <2>2, <3>3 DEF MailedTo, IssuedTo, IssuesSoFar
    <3>5. RequestEarned(d)'
      BY <2>1, <3>2, <3>4 DEF RequestEarned
    <3>6. \A o \in Owners : RowEarned(o, resetRow[o])'
      BY <3>3, EarnedKept DEF ResetInv
    <3> QED
      BY <2>2, <3>1, <3>2, <3>3, <3>5, <3>6, ServerStep DEF ResetInv, ResetTypes
  <2>3. ASSUME UNCHANGED mailed, Refuse(c)
        PROVE  ResetInv'
    BY <1>11, <2>1, <2>3, RefuseStep DEF MailCode
  <2> QED
    BY <1>11, <2>2, <2>3 DEF MailCode
<1>12. CASE VerifyCode(c)
  <2>1. c.op = "verify" /\ c.at = "sent" /\ c.owner \in Owners
    BY <1>1, <1>12 DEF VerifyCode, RequestEarned
  <2>2. CASE Loaded(c, c.owner) /\ accepted' = accepted \cup {<<c.owner, c.arg>>}
    BY <1>12, <2>1, <2>2, LoadStep DEF VerifyCode
  <2>3. CASE Refuse(c) /\ UNCHANGED accepted
    BY <1>12, <2>1, <2>3, RefuseStep DEF VerifyCode
  <2> QED
    BY <1>12, <2>2, <2>3 DEF VerifyCode
<1>13. ASSUME NEW row \in ResetRows, NEW d,
              resetRow' = [resetRow EXCEPT ![c.owner] = row], Move(c, d),
              UNCHANGED <<wizard, issues, stale, mailed, accepted>>, resets \subseteq resets',
              c.at = "loaded", c.op \in {"verify", "reset"},
              c.op = "reset" => resets' = resets \cup {<<c.owner, c.copy.code>>},
              d = [c EXCEPT !.at = "saved", !.copy = NobodysRow],
              c.owner \in Owners, RowEarned(c.owner, row)'
       PROVE  ResetInv'
  <2>1. /\ resetRow' = [resetRow EXCEPT ![c.owner] = row] /\ Move(c, d)
        /\ UNCHANGED <<wizard, issues, stale, mailed, accepted>> /\ resets \subseteq resets'
        /\ c.at = "loaded" /\ c.op \in {"verify", "reset"}
        /\ c.op = "reset" => resets' = resets \cup {<<c.owner, c.copy.code>>}
    BY <1>13
  <2>2. d \in ResetRequests /\ d.by = c.by /\ d.op = c.op /\ d.arg = c.arg /\ d.owner = c.owner
        /\ d.at = "saved"
    BY <1>1, <1>13, NobodysRowType DEF ResetRequests
  <2>3. HistoryGrows
    BY <2>1 DEF HistoryGrows, IssuesSoFar
  <2>4. resetRow' \in [Owners -> ResetRows]
    BY <1>13, <2>1 DEF ResetInv, ResetTypes
  <2>5. \A o \in Owners : RowEarned(o, resetRow[o])'
    <3> SUFFICES ASSUME NEW o \in Owners PROVE RowEarned(o, resetRow[o])'
      OBVIOUS
    <3>1. CASE o = c.owner
      <4>1. resetRow'[o] = row
        BY <2>1, <3>1 DEF ResetInv, ResetTypes
      <4> QED
        BY <1>13, <3>1, <4>1 DEF RowEarned
    <3>2. CASE o # c.owner
      <4>1. resetRow'[o] = resetRow[o]
        BY <2>1, <3>2 DEF ResetInv, ResetTypes
      <4> QED
        BY <2>3, <4>1, EarnedKept DEF ResetInv, RowEarned
    <3> QED
      BY <3>1, <3>2
  <2>6. c.op = "reset" => SavedWith(c.arg)'
    <3> SUFFICES ASSUME c.op = "reset" PROVE SavedWith(c.arg)'
      OBVIOUS
    <3>1. c.copy.code \in IssuesSoFar /\ issues[c.copy.code].digits = c.arg
      BY <1>1, <2>1 DEF RequestEarned
    <3>2. PICK r : r = <<c.owner, c.copy.code>>
      OBVIOUS
    <3>3. r \in resets' /\ r[2] = c.copy.code
      BY <2>1, <3>2
    <3> QED
      BY <2>1, <3>1, <3>3 DEF SavedWith, IssuesSoFar
  <2>7. RequestEarned(d)'
    BY <1>1, <2>1, <2>2, <2>6 DEF RequestEarned
  <2> QED
    BY <1>1, <2>1, <2>2, <2>3, <2>4, <2>5, <2>7, ServerStep DEF ResetInv, ResetTypes
<1>14. PICK saved : saved = [c EXCEPT !.at = "saved", !.copy = NobodysRow]
  OBVIOUS
<1>15. CASE SaveAfterCheck(c)
  <2>1. c.owner \in Owners /\ RowEarned(c.owner, c.copy)
    BY <1>1, <1>15 DEF SaveAfterCheck, RequestEarned
  <2>2. HistoryGrows
    BY <1>15 DEF SaveAfterCheck, HistoryGrows, IssuesSoFar
  <2>5. RowEarned(c.owner, resetRow[c.owner]) /\ resetRow[c.owner] \in ResetRows
        /\ c.copy \in ResetRows
    BY <1>1, <2>1 DEF ResetInv, ResetTypes, ResetRequests
  <2>3. PICK row \in [code : {c.copy.code, resetRow[c.owner].code},
                     password : {c.copy.password, resetRow[c.owner].password}] :
            resetRow' = [resetRow EXCEPT ![c.owner] = row]
    BY <1>15 DEF SaveAfterCheck
  <2>6. row \in ResetRows
    BY <2>3, <2>5 DEF ResetRows
  <2>7. RowEarned(c.owner, row)
    BY <2>1, <2>3, <2>5 DEF RowEarned
  <2>4. row \in ResetRows /\ RowEarned(c.owner, row)'
    BY <2>2, <2>6, <2>7, EarnedKept
  <2> QED
    BY <1>13, <1>14, <1>15, <2>1, <2>3, <2>4 DEF SaveAfterCheck
<1>16. CASE FindByCode(c)
  <2>1. ASSUME NEW o \in Owners, Matches(o, c.arg), Loaded(c, o)
        PROVE  ResetInv'
    BY <1>16, <2>1, LoadStep DEF FindByCode, formState
  <2>2. CASE Refuse(c)
    BY <1>16, <2>2, RefuseStep DEF FindByCode, formState
  <2> QED
    BY <1>16, <2>1, <2>2 DEF FindByCode
<1>17. CASE SavePassword(c)
  <2>1. /\ c.op = "reset" /\ c.at = "loaded" /\ resets' = resets \cup {<<c.owner, c.copy.code>>}
        /\ UNCHANGED <<issues, mailed, accepted>>
    BY <1>17 DEF SavePassword
  <2>2. c.owner \in Owners /\ RowEarned(c.owner, c.copy) /\ c.copy.code # 0
    BY <1>1, <2>1 DEF RequestEarned
  <2>3. PICK row : row = [resetRow[c.owner] EXCEPT !.password = c.copy.code]
    OBVIOUS
  <2>4. resetRow[c.owner] \in ResetRows /\ RowEarned(c.owner, resetRow[c.owner])
    BY <2>2 DEF ResetInv, ResetTypes
  <2>5. row \in ResetRows /\ row.code = resetRow[c.owner].code /\ row.password = c.copy.code
    BY <1>1, <2>3, <2>4 DEF ResetRows
  <2>6. RowEarned(c.owner, row)'
    BY <2>1, <2>2, <2>4, <2>5 DEF RowEarned, IssuedTo, IssuesSoFar
  <2>7. resetRow' = [resetRow EXCEPT ![c.owner] = row]
    BY <1>17, <2>3 DEF SavePassword, ResetInv, ResetTypes
  <2> QED
    BY <1>13, <1>14, <1>17, <2>2, <2>5, <2>6, <2>7 DEF SavePassword
<1> QED
  BY <1>4, <1>5, <1>6, <1>7, <1>8, <1>9, <1>10, <1>11, <1>12, <1>15, <1>16, <1>17

LEMMA ResetStep == ResetInv /\ [PasswordResetNext]_resetVars => ResetInv'
<1> SUFFICES ASSUME ResetInv, [PasswordResetNext]_resetVars PROVE ResetInv'
  OBVIOUS
<1>1. ASSUME UNCHANGED <<wizard, resetRow, resetCalls, issues, mailed, accepted, resets>>
      PROVE  ResetInv'
  <2>1. (ResetTypes /\ OneOfAKind)'
    BY <1>1 DEF ResetInv, ResetTypes, OneOfAKind
  <2>2. \A o \in Owners : RowEarned(o, resetRow[o])'
    BY <1>1 DEF ResetInv, RowEarned, IssuedTo, IssuesSoFar
  <2>3. \A c \in resetCalls' : RequestEarned(c)'
    BY <1>1 DEF ResetInv, RequestEarned, RowEarned, IssuedTo, IssuesSoFar, MailedTo, SavedWith
  <2>4. \A c \in resetCalls' : RequestFits(c)'
    BY <1>1 DEF ResetInv, RequestFits
  <2>5. \A w \in Wizards : FormEarned(wizard[w])'
    BY <1>1 DEF ResetInv, FormEarned, MailedTo, SavedWith, IssuesSoFar
  <2> QED
    BY <1>1, <2>1, <2>2, <2>3, <2>4, <2>5 DEF ResetInv
<1>2. CASE UNCHANGED resetVars
  BY <1>1, <1>2 DEF resetVars
<1>3. CASE \E i \in 1..MaxIssues : CodeExpires(i)
  BY <1>1, <1>3 DEF CodeExpires
<1> QED
  BY <1>2, <1>3, WizardInv, RequestInv DEF PasswordResetNext

\* The invariant contains what the forms and the rows are to have earned.
LEMMA ResetInvEarned == ResetInv => RecoveryEarned
<1> SUFFICES ASSUME ResetInv PROVE RecoveryEarned
  OBVIOUS
<1>1. ASSUME NEW w \in Wizards
      PROVE  /\ wizard[w].step # "email" => \E i \in DOMAIN issues : <<i, wizard[w].email>> \in mailed
             /\ wizard[w].step \in {"new-password", "success"}
                   => <<wizard[w].email, wizard[w].verifiedOtp>> \in accepted
             /\ wizard[w].step = "success"
                   => \E r \in resets : issues[r[2]].digits = wizard[w].verifiedOtp
  BY DEF ResetInv, FormEarned, MailedTo, SavedWith, IssuesSoFar
<1>2. ASSUME NEW w \in Wizards, NEW op
      PROVE  Cardinality({c \in resetCalls : c.by = w /\ c.op = op}) <= 1
  <2> DEFINE Own == {c \in resetCalls : c.by = w /\ c.op = op}
  <2>1. Own = {} \/ \E c : Own = {c}
    BY DEF ResetInv, OneOfAKind
  <2>2. CASE Own = {}
    BY <2>2, FS_EmptySet
  <2>3. ASSUME NEW c, Own = {c} PROVE Cardinality(Own) <= 1
    BY <2>3, FS_Singleton
  <2> QED
    BY <2>1, <2>2, <2>3
<1>3. ASSUME NEW o \in Owners
      PROVE  /\ resetRow[o].code # 0 => issues[resetRow[o].code].owner = o
             /\ resetRow[o].password # 0 => /\ <<o, resetRow[o].password>> \in resets
                                            /\ issues[resetRow[o].password].owner = o
  BY DEF ResetInv, RowEarned, IssuedTo
<1> QED
  BY <1>1, <1>2, <1>3 DEF RecoveryEarned

\* However resends, verifications and resets of many forms cross, and whatever
\* rows save back: forms, codes and passwords are earned.
THEOREM RecoveryIsEarned == PasswordResetSpec => []RecoveryEarned
<1>1. PasswordResetInit => ResetInv
  BY ResetInitInv
<1>2. ResetInv /\ [PasswordResetNext]_resetVars => ResetInv'
  BY ResetStep
<1>3. ResetInv => RecoveryEarned
  BY ResetInvEarned
<1> QED
  BY <1>1, <1>2, <1>3, PTL DEF PasswordResetSpec

-----------------------------------------------------------------------------
\* Registration

SignUpRows == [verified : BOOLEAN, code : Nat, stored : BOOLEAN]
SignUpForms == [page : {"personal-info", "account-setup", "verify-otp", "dashboard"},
                email : Emails \cup {"none"}, code : Nat, countdown : BOOLEAN]
SignUpStages == {"sent", "checked", "mail", "loaded", "selected", "done", "rejected"}
SignUpRequests == [tab : Forms, op : {"register", "verify", "resend", "login"}, email : Emails,
                   code : Nat, at : SignUpStages, copy : SignUpRows,
                   columns : SUBSET {"verified", "code"}]

CodeOf(i, e) == i \in DOMAIN codeOwner /\ codeOwner[i] = e

\* A form with an address, and at the end one with a verified address.
FilledIn(g) ==
    /\ g.page # "personal-info" => g.email \in Emails
    /\ g.page = "dashboard" => \E i \in spent : CodeOf(i, g.email)

\* The page a request was sent from.
SentFrom(c, g) ==
    /\ c.op = "register" => g.page \in {"personal-info", "account-setup"} /\ g.email \in Emails
    /\ c.op = "verify" => g.page = "verify-otp" /\ g.email = c.email

\* The page a request was sent from is still there, what was read was stored,
\* and a code that a save leaves in its row is not the one it verified with.
SignUpCallSound(c) ==
    /\ SentFrom(c, form[c.tab])
    /\ c.op = "verify" => /\ c.at # "mail"
                          /\ c.at \in {"loaded", "selected"} => CodeOf(c.code, c.email)
                          /\ c.at = "done" => c.code \in spent /\ CodeOf(c.code, c.email)
                          /\ c.at = "selected" =>
                                "code" \in c.columns \/ userRow[c.email].code # c.code
    /\ c.at \in {"loaded", "selected"} => c.copy.stored /\ userRow[c.email].stored

\* A tab waits for one registration or verification at a time.
OneAtATime ==
    \A c, d \in signUpCalls :
        c.tab = d.tab /\ c.op = d.op /\ c.op \in {"register", "verify"} => c = d

AccountSound(e) ==
    /\ userRow[e].stored <=> \E f \in Forms : <<f, e>> \in registered
    /\ \A f, g \in Forms : <<f, e>> \in registered /\ <<g, e>> \in registered => f = g
    /\ userRow[e].stored /\ ~userRow[e].verified => userRow[e].code # 0 \/ e \in undone
    /\ userRow[e].code # 0 => CodeOf(userRow[e].code, e) /\ userRow[e].code \notin spent

SignUpTypes ==
    /\ form \in [Forms -> SignUpForms] /\ userRow \in [Emails -> SignUpRows]
    /\ signUpCalls \subseteq SignUpRequests
    /\ codeOwner \in Seq(Emails) /\ registered \subseteq Forms \X Emails
    /\ spent \subseteq DOMAIN codeOwner

SignUpInv ==
    /\ SignUpTypes /\ OneAtATime
    /\ \A e \in Emails : AccountSound(e)
    /\ \A f \in Forms : FilledIn(form[f])
    /\ \A c \in signUpCalls : SignUpCallSound(c)

LEMMA SignUpInitInv == RegistrationInit => SignUpInv
<1> SUFFICES ASSUME RegistrationInit PROVE SignUpInv
  OBVIOUS
<1>1. NoRow \in SignUpRows /\ NoRow.code = 0 /\ ~NoRow.stored
  BY DEF NoRow, SignUpRows
<1>2. BlankForm \in SignUpForms /\ BlankForm.page = "personal-info"
  BY DEF BlankForm, SignUpForms
<1>3. codeOwner = << >> /\ codeOwner \in Seq(Emails) /\ signUpCalls = {} /\ registered = {}
      /\ spent = {} /\ form = [f \in Forms |-> BlankForm] /\ userRow = [e \in Emails |-> NoRow]
  BY DEF RegistrationInit
<1>4. SignUpTypes /\ OneAtATime
  BY <1>1, <1>2, <1>3 DEF SignUpTypes, OneAtATime
<1>5. \A e \in Emails : AccountSound(e)
  BY <1>1, <1>3 DEF AccountSound
<1>6. \A f \in Forms : FilledIn(form[f])
  BY <1>2, <1>3 DEF FilledIn
<1> QED
  BY <1>3, <1>4, <1>5, <1>6 DEF SignUpInv

LEMMA SignUpFields ==
  ASSUME NEW c \in SignUpRequests
  PROVE  /\ c.tab \in Forms /\ c.op \in {"register", "verify", "resend", "login"}
         /\ c.email \in Emails /\ c.code \in Nat /\ c.at \in SignUpStages /\ c.copy \in SignUpRows
BY DEF SignUpRequests

\* A request that proceeds takes its place among the others.
LEMMA ProceedKept ==
  ASSUME SignUpInv, NEW c \in signUpCalls, NEW at \in SignUpStages \ {"selected"},
         NEW copy \in SignUpRows, Proceed(c, at, copy), UNCHANGED form, spent \subseteq spent',
         DOMAIN codeOwner \subseteq DOMAIN codeOwner',
         \A i \in DOMAIN codeOwner : codeOwner'[i] = codeOwner[i],
         \A e \in Emails : userRow[e].stored => userRow'[e].stored,
         \A e \in Emails, i \in DOMAIN codeOwner : userRow'[e].code = i => userRow[e].code = i,
         at = "loaded" => copy.stored /\ userRow[c.email].stored,
         c.op = "verify" => /\ at # "mail"
                            /\ at \in {"loaded", "done"} => CodeOf(c.code, c.email)
                            /\ at = "done" => c.code \in spent'
  PROVE  /\ signUpCalls' \subseteq SignUpRequests /\ OneAtATime'
         /\ \A d \in signUpCalls' : SignUpCallSound(d)'
<1>1. PICK n : n = [c EXCEPT !.at = at, !.copy = copy, !.columns = {}]
  OBVIOUS
<1>2. c \in SignUpRequests /\ SignUpCallSound(c)
  BY DEF SignUpInv, SignUpTypes
<1>3. /\ n \in SignUpRequests /\ n.tab = c.tab /\ n.op = c.op /\ n.email = c.email
      /\ n.code = c.code /\ n.at = at /\ n.copy = copy
  BY <1>1, <1>2 DEF SignUpRequests
<1>4. signUpCalls' = (signUpCalls \ {c}) \cup {n}
  BY <1>1 DEF Proceed
<1>5. \A i, e : CodeOf(i, e) => CodeOf(i, e)'
  BY DEF CodeOf
<1>6. SignUpCallSound(n)'
  BY <1>2, <1>3, <1>5, SignUpFields DEF SignUpCallSound, SentFrom
<1>7. ASSUME NEW d \in signUpCalls PROVE SignUpCallSound(d)'
  <2>1. SignUpCallSound(d) /\ d.email \in Emails
    BY SignUpFields DEF SignUpInv, SignUpTypes
  <2>2. CodeOf(d.code, d.email) => d.code \in DOMAIN codeOwner
    BY DEF CodeOf
  <2> QED
    BY <1>5, <2>1, <2>2 DEF SignUpCallSound, SentFrom
<1>8. OneAtATime'
  BY <1>3, <1>4 DEF SignUpInv, OneAtATime
<1> QED
  BY <1>3, <1>4, <1>6, <1>7, <1>8 DEF SignUpInv, SignUpTypes

\* Steps of the pages alone.
LEMMA SignUpFormStep ==
  ASSUME SignUpInv, UNCHANGED serverState, form' \in [Forms -> SignUpForms],
         signUpCalls' \subseteq SignUpRequests, OneAtATime',
         \A f \in Forms : FilledIn(form[f])', \A d \in signUpCalls' : SignUpCallSound(d)'
  PROVE  SignUpInv'
<1>1. \A i, e : CodeOf(i, e)' <=> CodeOf(i, e)
  BY DEF CodeOf, serverState
<1>2. \A e \in Emails : AccountSound(e)'
  BY <1>1 DEF SignUpInv, AccountSound, serverState
<1> QED
  BY <1>2 DEF SignUpInv, SignUpTypes, serverState

\* A tab changes its form.
LEMMA FormInv ==
  ASSUME SignUpInv, UNCHANGED serverState, NEW f \in Forms, NEW g \in SignUpForms,
         form' = [form EXCEPT ![f] = g], signUpCalls' \subseteq signUpCalls,
         FilledIn(g), \A d \in signUpCalls' : d.tab = f => SentFrom(d, g)
  PROVE  SignUpInv'
<1>1. form' \in [Forms -> SignUpForms] /\ form'[f] = g
      /\ \A h \in Forms \ {f} : form'[h] = form[h]
  BY DEF SignUpInv, SignUpTypes
<1>2. \A i, e : CodeOf(i, e)' <=> CodeOf(i, e)
  BY DEF CodeOf, serverState
<1>3. UNCHANGED <<spent, userRow>>
  BY DEF serverState
<1>4. \A h \in Forms : FilledIn(form[h])'
  BY <1>1, <1>2, <1>3 DEF SignUpInv, FilledIn
<1>5. ASSUME NEW d \in signUpCalls' PROVE SignUpCallSound(d)'
  <2>1. d \in SignUpRequests /\ SignUpCallSound(d) /\ d.tab \in Forms
    BY SignUpFields DEF SignUpInv, SignUpTypes
  <2>2. CASE d.tab = f
    BY <1>1, <1>2, <1>3, <2>1, <2>2 DEF SignUpCallSound, SentFrom
  <2>3. CASE d.tab # f
    BY <1>1, <1>2, <1>3, <2>1, <2>3 DEF SignUpCallSound, SentFrom
  <2> QED
    BY <2>2, <2>3
<1>6. OneAtATime' /\ signUpCalls' \subseteq SignUpRequests
  BY DEF SignUpInv, SignUpTypes, OneAtATime
<1> QED
  BY <1>1, <1>4, <1>5, <1>6, SignUpFormStep

\* A tab sends a request, one of a kind where that matters.
LEMMA SendInv ==
  ASSUME SignUpInv, UNCHANGED serverState, UNCHANGED form, NEW f \in Forms,
         NEW op \in {"register", "verify", "resend", "login"}, NEW e \in Emails, NEW code \in Nat,
         Request(f, op, e, code), op \in {"register", "verify"} => ~Busy(f, op),
         op = "register" => form[f].page \in {"personal-info", "account-setup"} /\ form[f].email \in Emails,
         op = "verify" => form[f].page = "verify-otp" /\ form[f].email = e
  PROVE  SignUpInv'
<1>1. PICK n : n = [tab |-> f, op |-> op, email |-> e, code |-> code, at |-> "sent", copy |-> NoRow,
                  columns |-> {}]
  OBVIOUS
<1>2. /\ n \in SignUpRequests /\ n.tab = f /\ n.op = op /\ n.email = e /\ n.at = "sent"
  BY <1>1 DEF SignUpRequests, SignUpStages, SignUpRows, NoRow
<1>3. signUpCalls' = signUpCalls \cup {n}
  BY <1>1 DEF Request
<1>4. OneAtATime'
  BY <1>2, <1>3 DEF SignUpInv, OneAtATime, Busy
<1>5. \A i, x : CodeOf(i, x)' <=> CodeOf(i, x)
  BY DEF CodeOf, serverState
<1>6. SignUpCallSound(n)'
  BY <1>2 DEF SignUpCallSound, SentFrom
<1>7. \A d \in signUpCalls : SignUpCallSound(d)'
  BY <1>5 DEF SignUpInv, SignUpCallSound, SentFrom, serverState
<1>8. \A h \in Forms : FilledIn(form[h])'
  BY <1>5 DEF SignUpInv, FilledIn, serverState
<1> QED
  BY <1>2, <1>3, <1>4, <1>6, <1>7, <1>8, SignUpFormStep DEF SignUpInv, SignUpTypes

\* A handler that does not write.
LEMMA ReadInv ==
  ASSUME SignUpInv, NEW c \in signUpCalls, NEW at \in SignUpStages \ {"selected"},
         NEW copy \in SignUpRows, Proceed(c, at, copy), UNCHANGED form, UNCHANGED serverState,
         at = "loaded" => copy.stored /\ userRow[c.email].stored,
         c.op = "verify" => /\ at \notin {"mail", "done"}
                            /\ at = "loaded" => CodeOf(c.code, c.email)
  PROVE  SignUpInv'
<1>1. /\ signUpCalls' \subseteq SignUpRequests /\ OneAtATime'
      /\ \A d \in signUpCalls' : SignUpCallSound(d)'
  BY ProceedKept DEF serverState
<1>2. \A f \in Forms : FilledIn(form[f])'
  BY DEF SignUpInv, FilledIn, CodeOf, serverState
<1> QED
  BY <1>1, <1>2, SignUpFormStep DEF SignUpInv, SignUpTypes

\* The SELECT of a save.
LEMMA SelectRowInv ==
  ASSUME SignUpInv, NEW c \in signUpCalls, SelectRow(c) PROVE SignUpInv'
<1>1. /\ c \in SignUpRequests /\ SignUpCallSound(c) /\ c.email \in Emails /\ c.at = "loaded"
      /\ c.copy \in SignUpRows /\ UNCHANGED form /\ UNCHANGED serverState
  BY SignUpFields DEF SelectRow, SignUpInv, SignUpTypes
<1>2. PICK cols : cols = {x \in {"verified", "code"} : RowMade(c)[x] # userRow[c.email][x]}
  OBVIOUS
<1>3. PICK n : n = [c EXCEPT !.at = "selected", !.columns = cols]
  OBVIOUS
<1>4. /\ n \in SignUpRequests /\ n.tab = c.tab /\ n.op = c.op /\ n.email = c.email
      /\ n.code = c.code /\ n.at = "selected" /\ n.copy = c.copy /\ n.columns = cols
  BY <1>1, <1>2, <1>3 DEF SignUpRequests, SignUpStages
<1>5. signUpCalls' = (signUpCalls \ {c}) \cup {n}
  BY <1>2, <1>3 DEF SelectRow
<1>6. c.op = "verify" => "code" \in cols \/ userRow[c.email].code # c.code
  <2>1. ASSUME c.op = "verify", "code" \notin cols PROVE userRow[c.email].code # c.code
    <3>1. RowMade(c) = [c.copy EXCEPT !.verified = TRUE, !.code = 0]
      BY <2>1 DEF RowMade
    <3>2. RowMade(c).code = 0
      BY <1>1, <3>1 DEF SignUpRows
    <3>3. userRow[c.email].code = 0
      BY <1>2, <2>1, <3>2
    <3>4. c.code \in DOMAIN codeOwner /\ codeOwner \in Seq(Emails)
      BY <1>1, <2>1 DEF SignUpCallSound, CodeOf, SignUpInv, SignUpTypes
    <3> QED
      BY <3>3, <3>4
  <2> QED
    BY <2>1
<1>7. \A i, e : CodeOf(i, e) <=> CodeOf(i, e)'
  BY <1>1 DEF CodeOf, serverState
<1>8. SignUpCallSound(n)'
  BY <1>1, <1>4, <1>6, <1>7 DEF SignUpCallSound, SentFrom, serverState
<1>9. \A d \in signUpCalls : SignUpCallSound(d)'
  BY <1>1, <1>7 DEF SignUpInv, SignUpCallSound, SentFrom, serverState
<1>10. OneAtATime'
  BY <1>4, <1>5 DEF SignUpInv, OneAtATime
<1>11. \A f \in Forms : FilledIn(form[f])'
  BY <1>1, <1>7 DEF SignUpInv, FilledIn, serverState
<1> QED
  BY <1>1, <1>4, <1>5, <1>8, <1>9, <1>10, <1>11, SignUpFormStep DEF SignUpInv, SignUpTypes

\* A code is issued to an address whose row is written.
LEMMA IssueInv ==
  ASSUME SignUpInv, NEW c \in signUpCalls, c.op # "verify", Proceed(c, "mail", NoRow),
         UNCHANGED <<form, spent, undone>>, IssueTo(c.email), NEW new \in SignUpRows,
         userRow' = [userRow EXCEPT ![c.email] = new], new.stored, new.code = Issue,
         registered' \subseteq Forms \X Emails,
         \A e \in Emails \ {c.email}, f \in Forms : <<f, e>> \in registered' <=> <<f, e>> \in registered,
         \E f \in Forms : <<f, c.email>> \in registered',
         \A f, g \in Forms : <<f, c.email>> \in registered' /\ <<g, c.email>> \in registered' => f = g
  PROVE  SignUpInv'
<1>1. c.email \in Emails /\ codeOwner \in Seq(Emails)
  BY SignUpFields DEF SignUpInv, SignUpTypes
<1>2. /\ codeOwner' = Append(codeOwner, c.email) /\ Issue = Len(codeOwner) + 1
      /\ DOMAIN codeOwner = 1..Len(codeOwner) /\ Len(codeOwner) \in Nat
      /\ codeOwner' \in Seq(Emails) /\ DOMAIN codeOwner' = 1..(Len(codeOwner) + 1)
      /\ codeOwner'[Issue] = c.email
      /\ \A i \in DOMAIN codeOwner : codeOwner'[i] = codeOwner[i]
  BY <1>1 DEF IssueTo, Issue
<1>3. \A i, e : CodeOf(i, e) => CodeOf(i, e)'
  BY <1>2 DEF CodeOf
<1>4. NoRow \in SignUpRows /\ "mail" \in SignUpStages
  BY DEF NoRow, SignUpRows, SignUpStages
<1>5. /\ DOMAIN codeOwner \subseteq DOMAIN codeOwner'
      /\ \A e \in Emails : userRow[e].stored => userRow'[e].stored
      /\ \A e \in Emails, i \in DOMAIN codeOwner : userRow'[e].code = i => userRow[e].code = i
  BY <1>2 DEF SignUpInv, SignUpTypes
<1>6. /\ signUpCalls' \subseteq SignUpRequests /\ OneAtATime'
      /\ \A d \in signUpCalls' : SignUpCallSound(d)'
  BY <1>2, <1>4, <1>5, ProceedKept
<1>7. \A f \in Forms : FilledIn(form[f])'
  BY <1>3 DEF SignUpInv, FilledIn
<1>8. userRow' \in [Emails -> SignUpRows] /\ userRow'[c.email] = new
      /\ \A e \in Emails \ {c.email} : userRow'[e] = userRow[e]
  BY <1>1 DEF SignUpInv, SignUpTypes
<1>9. ASSUME NEW e \in Emails PROVE AccountSound(e)'
  <2>1. CASE e = c.email
    <3>1. CodeOf(new.code, e)' /\ new.code # 0 /\ new.code \notin spent
      BY <1>2, <2>1 DEF CodeOf, SignUpInv, SignUpTypes
    <3> QED
      BY <1>8, <2>1, <3>1 DEF AccountSound
  <2>2. CASE e # c.email
    <3>1. AccountSound(e) /\ userRow'[e] = userRow[e]
      BY <1>8, <2>2 DEF SignUpInv
    <3> QED
      BY <1>3, <2>2, <3>1 DEF AccountSound
  <2> QED
    BY <2>1, <2>2
<1> QED
  BY <1>2, <1>5, <1>6, <1>7, <1>8, <1>9 DEF SignUpInv, SignUpTypes

\* The pages
LEMMA SignUpPagesInv ==
  ASSUME SignUpInv, NEW f \in Forms,
         \/ BackToPersonalInfo(f) \/ SubmitAccountSetup(f) \/ HandleVerify(f)
         \/ HandleResend(f) \/ CountdownEnds(f)
         \/ \E e \in Emails : \/ SubmitPersonalInfo(f, e) \/ OpenVerifyPage(f, e)
                              \/ SubmitUnverifiedLogin(f, e)
         \/ \E i \in DOMAIN codeOwner : EnterCode(f, i)
  PROVE  SignUpInv'
<1>1. PICK s : s = form[f]
  OBVIOUS
<1>2. s \in SignUpForms /\ FilledIn(s) /\ s.code \in Nat
      /\ (s.page # "personal-info" => s.email \in Emails)
  BY <1>1 DEF SignUpInv, SignUpTypes, FilledIn, SignUpForms
<1>3. \A d \in signUpCalls : d.tab = f => SentFrom(d, s)
  BY <1>1 DEF SignUpInv, SignUpCallSound
<1>4. codeOwner \in Seq(Emails) /\ DOMAIN codeOwner \subseteq Nat
  BY DEF SignUpInv, SignUpTypes
<1>5. s = BlankForm => \A d \in signUpCalls : d.tab = f => d.op \notin {"register", "verify"}
  BY <1>3, SignUpFormsAssumption DEF BlankForm, SentFrom
<1>6. ASSUME NEW g \in SignUpForms, form' = [form EXCEPT ![f] = g],
             UNCHANGED <<signUpCalls, serverState>>,
             \/ g.page = s.page /\ g.email = s.email
             \/ g.page \in {"personal-info", "account-setup"} /\ g.email \in Emails
                   /\ s.page \in {"personal-info", "account-setup"}
             \/ g.page = "verify-otp" /\ g.email \in Emails /\ s = BlankForm
      PROVE  SignUpInv'
  <2>1. \A d \in signUpCalls' : d.tab = f => SentFrom(d, g)
    BY <1>3, <1>5, <1>6 DEF SentFrom
  <2>2. FilledIn(g)
    BY <1>2, <1>6 DEF FilledIn
  <2>3. signUpCalls' \subseteq signUpCalls /\ UNCHANGED serverState
    BY <1>6
  <2> QED
    BY <1>6, <2>1, <2>2, <2>3, FormInv
<1>7. CASE BackToPersonalInfo(f)
  <2>1. PICK g : g = [s EXCEPT !.page = "personal-info"]
    OBVIOUS
  <2>2. g \in SignUpForms /\ g.page = "personal-info" /\ g.email = s.email
    BY <1>2, <2>1 DEF SignUpForms
  <2>3. form' = [form EXCEPT ![f] = g]
    BY <1>1, <1>7, <2>1 DEF BackToPersonalInfo, SignUpInv, SignUpTypes
  <2> QED
    BY <1>1, <1>2, <1>6, <1>7, <2>2, <2>3 DEF BackToPersonalInfo
<1>8. CASE CountdownEnds(f)
  <2>1. PICK g : g = [s EXCEPT !.countdown = FALSE]
    OBVIOUS
  <2>2. g \in SignUpForms /\ g.page = s.page /\ g.email = s.email
    BY <1>2, <2>1 DEF SignUpForms
  <2>3. form' = [form EXCEPT ![f] = g]
    BY <1>1, <1>8, <2>1 DEF CountdownEnds, SignUpInv, SignUpTypes
  <2> QED
    BY <1>6, <1>8, <2>2, <2>3 DEF CountdownEnds
<1>9. ASSUME NEW i \in DOMAIN codeOwner, EnterCode(f, i) PROVE SignUpInv'
  <2>1. PICK g : g = [s EXCEPT !.code = i]
    OBVIOUS
  <2>2. g \in SignUpForms /\ g.page = s.page /\ g.email = s.email
    BY <1>2, <1>4, <2>1 DEF SignUpForms
  <2>3. form' = [form EXCEPT ![f] = g]
    BY <1>1, <1>9, <2>1 DEF EnterCode, SignUpInv, SignUpTypes
  <2> QED
    BY <1>6, <1>9, <2>2, <2>3 DEF EnterCode
<1>10. ASSUME NEW e \in Emails, SubmitPersonalInfo(f, e) PROVE SignUpInv'
  <2>1. PICK g : g = [s EXCEPT !.page = "account-setup", !.email = e]
    OBVIOUS
  <2>2. g \in SignUpForms /\ g.page = "account-setup" /\ g.email = e
    BY <1>2, <2>1 DEF SignUpForms
  <2>3. form' = [form EXCEPT ![f] = g]
    BY <1>1, <1>10, <2>1 DEF SubmitPersonalInfo, SignUpInv, SignUpTypes
  <2> QED
    BY <1>1, <1>6, <1>10, <2>2, <2>3 DEF SubmitPersonalInfo
<1>11. ASSUME NEW e \in Emails, OpenVerifyPage(f, e) PROVE SignUpInv'
  <2>1. PICK g : g = [s EXCEPT !.page = "verify-otp", !.email = e]
    OBVIOUS
  <2>2. g \in SignUpForms /\ g.page = "verify-otp" /\ g.email = e
    BY <1>2, <2>1 DEF SignUpForms
  <2>3. form' = [form EXCEPT ![f] = g]
    BY <1>1, <1>11, <2>1 DEF OpenVerifyPage, SignUpInv, SignUpTypes
  <2> QED
    BY <1>1, <1>6, <1>11, <2>2, <2>3 DEF OpenVerifyPage
<1>12. CASE SubmitAccountSetup(f)
  BY <1>1, <1>2, <1>12, SendInv DEF SubmitAccountSetup
<1>13. CASE HandleVerify(f)
  BY <1>1, <1>2, <1>13, SendInv DEF HandleVerify
<1>14. CASE HandleResend(f)
  BY <1>1, <1>2, <1>14, SendInv DEF HandleResend
<1>15. ASSUME NEW e \in Emails, SubmitUnverifiedLogin(f, e) PROVE SignUpInv'
  BY <1>15, SendInv DEF SubmitUnverifiedLogin
<1> QED
  BY <1>7, <1>8, <1>9, <1>10, <1>11, <1>12, <1>13, <1>14, <1>15

\* Answers that reach a page.
LEMMA SignUpAnsweredInv ==
  ASSUME SignUpInv, NEW c \in signUpCalls,
         RegistrationAnswered(c) \/ VerificationAnswered(c) \/ ResendAnswered(c) \/ MessageShown(c)
  PROVE  SignUpInv'
<1>1. c \in SignUpRequests /\ SignUpCallSound(c) /\ c.tab \in Forms /\ c.email \in Emails
  BY SignUpFields DEF SignUpInv, SignUpTypes
<1>2. PICK s : s = form[c.tab]
  OBVIOUS
<1>3. s \in SignUpForms /\ FilledIn(s)
  BY <1>1, <1>2 DEF SignUpInv, SignUpTypes
<1>4. \A d \in signUpCalls : d.tab = c.tab => SentFrom(d, s)
  BY <1>2 DEF SignUpInv, SignUpCallSound
<1>5. UNCHANGED serverState /\ signUpCalls' = signUpCalls \ {c}
  BY DEF RegistrationAnswered, VerificationAnswered, ResendAnswered, MessageShown, Answered
<1>6. PICK b : b = BlankForm
  OBVIOUS
<1>7. b \in SignUpForms
  BY <1>6 DEF BlankForm, SignUpForms
<1>8. CASE RegistrationAnswered(c)
  <2>1. PICK g : g = [b EXCEPT !.page = "verify-otp", !.email = c.email]
    OBVIOUS
  <2>2. g \in SignUpForms /\ g.page = "verify-otp" /\ g.email = c.email
    BY <1>1, <1>7, <2>1 DEF SignUpForms
  <2>3. form' = [form EXCEPT ![c.tab] = g] /\ c.op = "register"
    BY <1>6, <1>8, <2>1 DEF RegistrationAnswered
  <2>4. \A d \in signUpCalls' : d.tab = c.tab => SentFrom(d, g)
    BY <1>4, <1>5, <2>3 DEF SignUpInv, OneAtATime, SentFrom
  <2>5. FilledIn(g) /\ signUpCalls' \subseteq signUpCalls
    BY <1>1, <1>5, <2>2 DEF FilledIn
  <2> QED
    BY <1>1, <1>5, <2>2, <2>3, <2>4, <2>5, FormInv
<1>9. CASE VerificationAnswered(c)
  <2>1. PICK g : g = [b EXCEPT !.page = "dashboard", !.email = s.email]
    OBVIOUS
  <2>2. c.op = "verify" /\ c.at = "done" /\ form' = [form EXCEPT ![c.tab] = g]
    BY <1>2, <1>6, <1>9, <2>1 DEF VerificationAnswered
  <2>3. s.email = c.email /\ c.code \in spent /\ CodeOf(c.code, c.email)
    BY <1>1, <1>2, <2>2 DEF SignUpCallSound, SentFrom
  <2>4. g \in SignUpForms /\ g.page = "dashboard" /\ g.email = c.email
    BY <1>1, <1>7, <2>1, <2>3 DEF SignUpForms
  <2>5. \A d \in signUpCalls' : d.tab = c.tab => SentFrom(d, g)
    BY <1>4, <1>5, <2>2 DEF SignUpInv, OneAtATime, SentFrom
  <2>6. FilledIn(g) /\ signUpCalls' \subseteq signUpCalls
    BY <1>1, <1>5, <2>3, <2>4 DEF FilledIn
  <2> QED
    BY <1>1, <1>5, <2>2, <2>4, <2>5, <2>6, FormInv
<1>10. CASE ResendAnswered(c)
  <2>1. PICK g : g = [s EXCEPT !.countdown = TRUE, !.code = 0]
    OBVIOUS
  <2>2. g \in SignUpForms /\ g.page = s.page /\ g.email = s.email
    BY <1>3, <2>1 DEF SignUpForms
  <2>3. form' = [form EXCEPT ![c.tab] = g]
    BY <1>1, <1>2, <1>10, <2>1 DEF ResendAnswered, SignUpInv, SignUpTypes
  <2>4. FilledIn(g) /\ signUpCalls' \subseteq signUpCalls
    BY <1>3, <1>5, <2>2 DEF FilledIn
  <2>5. \A d \in signUpCalls' : d.tab = c.tab => SentFrom(d, g)
    BY <1>4, <1>5, <2>2 DEF SentFrom
  <2> QED
    BY <1>1, <1>5, <2>2, <2>3, <2>4, <2>5, FormInv
<1>11. CASE MessageShown(c)
  <2>1. UNCHANGED form
    BY <1>11 DEF MessageShown
  <2>2. form' = [form EXCEPT ![c.tab] = s]
    BY <1>1, <1>2, <2>1 DEF SignUpInv, SignUpTypes
  <2>3. signUpCalls' \subseteq signUpCalls
    BY <1>5
  <2>4. \A d \in signUpCalls' : d.tab = c.tab => SentFrom(d, s)
    BY <1>4, <1>5
  <2> QED
    BY <1>1, <1>3, <1>5, <2>2, <2>3, <2>4, FormInv
<1> QED
  BY <1>8, <1>9, <1>10, <1>11

\* The handlers
LEMMA SignUpHandlersInv ==
  ASSUME SignUpInv, NEW c \in signUpCalls,
         \/ CheckRegistration(c) \/ InsertUser(c) \/ SendVerificationEmail(c)
         \/ VerifySignUpCode(c) \/ SaveVerified(c) \/ LoadToResend(c) \/ ResendVerificationOtp(c)
         \/ SelectRow(c)
  PROVE  SignUpInv'
<1>1. /\ c \in SignUpRequests /\ SignUpCallSound(c) /\ c.tab \in Forms /\ c.email \in Emails
      /\ c.code \in Nat /\ c.copy \in SignUpRows
  BY SignUpFields DEF SignUpInv, SignUpTypes
<1>2. NoRow \in SignUpRows /\ {"checked", "rejected", "done", "loaded", "mail"} \subseteq SignUpStages
  BY DEF NoRow, SignUpRows, SignUpStages
<1>3. PICK row : row = userRow[c.email]
  OBVIOUS
<1>4. row \in SignUpRows /\ AccountSound(c.email) /\ row.code \in Nat
      /\ (row.stored => userRow[c.email].stored)
  BY <1>1, <1>3 DEF SignUpInv, SignUpTypes, SignUpRows
<1>5. ASSUME Reject(c), UNCHANGED form, UNCHANGED serverState PROVE SignUpInv'
  BY <1>2, <1>5, ReadInv DEF Reject
<1>6. CASE CheckRegistration(c)
  BY <1>2, <1>5, <1>6, ReadInv DEF CheckRegistration
<1>7. CASE InsertUser(c)
  <2>1. CASE userRow[c.email].stored
    BY <1>5, <1>7, <2>1 DEF InsertUser, serverState
  <2>2. CASE ~userRow[c.email].stored
    <3>1. PICK new : new = [verified |-> FALSE, code |-> Issue, stored |-> TRUE]
      OBVIOUS
    <3>2. Issue \in Nat
      BY DEF Issue, SignUpInv, SignUpTypes
    <3>3. new \in SignUpRows /\ new.stored /\ new.code = Issue
      BY <3>1, <3>2 DEF SignUpRows
    <3>4. /\ c.op = "register" /\ IssueTo(c.email) /\ userRow' = [userRow EXCEPT ![c.email] = new]
          /\ registered' = registered \cup {<<c.tab, c.email>>} /\ Proceed(c, "mail", NoRow)
          /\ UNCHANGED <<form, spent, undone>>
      BY <1>7, <2>2, <3>1 DEF InsertUser
    <3>5. \A f \in Forms : <<f, c.email>> \notin registered
      BY <1>4, <2>2 DEF AccountSound
    <3>6. registered' \subseteq Forms \X Emails
      BY <1>1, <3>4 DEF SignUpInv, SignUpTypes
    <3>7. /\ <<c.tab, c.email>> \in registered'
          /\ \A f \in Forms : <<f, c.email>> \in registered' => f = c.tab
          /\ \A e \in Emails \ {c.email}, f \in Forms :
                <<f, e>> \in registered' <=> <<f, e>> \in registered
      BY <3>4, <3>5
    <3>8. \A f, g \in Forms : <<f, c.email>> \in registered' /\ <<g, c.email>> \in registered' => f = g
      BY <3>7
    <3> QED
      BY <1>1, <3>3, <3>4, <3>6, <3>7, <3>8, IssueInv
  <2> QED
    BY <2>1, <2>2
<1>8. CASE SendVerificationEmail(c)
  <2>1. c.op # "verify" /\ UNCHANGED form /\ UNCHANGED serverState
    BY <1>1, <1>8 DEF SendVerificationEmail, SignUpCallSound
  <2>2. CASE Proceed(c, "done", NoRow)
    BY <1>2, <2>1, <2>2, ReadInv
  <2> QED
    BY <1>5, <1>8, <2>1, <2>2 DEF SendVerificationEmail
<1>9. CASE VerifySignUpCode(c)
  <2>1. UNCHANGED form /\ UNCHANGED serverState
    BY <1>9 DEF VerifySignUpCode
  <2>2. CASE Reject(c)
    BY <1>5, <2>1, <2>2
  <2>3. CASE row.stored /\ row.code = c.code /\ c.code # 0 /\ Proceed(c, "loaded", row)
    <3>1. CodeOf(c.code, c.email)
      BY <1>3, <1>4, <2>3 DEF AccountSound
    <3> QED
      BY <1>2, <1>4, <2>1, <2>3, <3>1, ReadInv
  <2> QED
    BY <1>3, <1>9, <2>2, <2>3 DEF VerifySignUpCode
<1>10. CASE SaveVerified(c)
  <2>11. PICK v : v = IF "verified" \in c.columns THEN TRUE ELSE row.verified
    OBVIOUS
  <2>12. PICK n : n = IF "code" \in c.columns THEN 0 ELSE row.code
    OBVIOUS
  <2>1. /\ v \in BOOLEAN /\ n \in Nat /\ (~v <=> "verified" \notin c.columns /\ ~row.verified)
    BY <1>4, <2>11, <2>12 DEF SignUpRows
  <2>13. PICK new : new = [row EXCEPT !.verified = v, !.code = n]
    OBVIOUS
  <2>2. new \in SignUpRows /\ new.verified = v /\ new.code = n /\ new.stored = row.stored
    BY <1>4, <2>1, <2>13 DEF SignUpRows
  <2>3. /\ c.op = "verify" /\ c.at = "selected" /\ userRow' = [userRow EXCEPT ![c.email] = new]
        /\ spent' = spent \cup {c.code} /\ Proceed(c, "done", NoRow)
        /\ undone \subseteq undone' /\ (~new.verified => c.email \in undone')
        /\ UNCHANGED <<form, codeOwner, lapsed, registered>>
    <3>1. userRow' = [userRow EXCEPT ![c.email] = new]
      <4>2. userRow' = [userRow EXCEPT ![c.email] =
               [row EXCEPT !.verified = IF "verified" \in c.columns THEN TRUE ELSE row.verified,
                           !.code = IF "code" \in c.columns THEN 0 ELSE row.code]]
        BY <1>3, <1>10, Zenon DEF SaveVerified
      <4> QED
        BY <2>11, <2>12, <2>13, <4>2
    <3>2. ~v => c.email \in undone'
      BY <1>3, <1>10, <2>1 DEF SaveVerified
    <3>3. undone \subseteq undone'
      BY <1>10 DEF SaveVerified
    <3> QED
      BY <1>10, <2>2, <3>1, <3>2, <3>3 DEF SaveVerified
  <2>4. CodeOf(c.code, c.email) /\ new.stored /\ new.code \in {0, row.code} /\ new.code # c.code
    <3>1. /\ CodeOf(c.code, c.email) /\ row.stored
          /\ "code" \in c.columns \/ row.code # c.code
      BY <1>1, <1>3, <2>3 DEF SignUpCallSound
    <3>2. c.code # 0
      BY <3>1 DEF CodeOf, SignUpInv, SignUpTypes
    <3> QED
      BY <2>2, <2>12, <3>1, <3>2
  <2>5. /\ signUpCalls' \subseteq SignUpRequests /\ OneAtATime'
        /\ \A d \in signUpCalls' : SignUpCallSound(d)'
    <3>1. \A e \in Emails : userRow[e].stored => userRow'[e].stored
      BY <1>1, <2>3, <2>4 DEF SignUpInv, SignUpTypes
    <3>4. \A e \in Emails, i \in DOMAIN codeOwner : userRow'[e].code = i => userRow[e].code = i
      <4>1. \A e \in Emails \ {c.email} : userRow'[e] = userRow[e]
        BY <2>3 DEF SignUpInv, SignUpTypes
      <4>2. userRow'[c.email] = new
        BY <1>1, <2>3 DEF SignUpInv, SignUpTypes
      <4>3. 0 \notin DOMAIN codeOwner
        BY DEF SignUpInv, SignUpTypes
      <4> QED
        BY <1>3, <2>4, <4>1, <4>2, <4>3
    <3>2. DOMAIN codeOwner \subseteq DOMAIN codeOwner' /\ spent \subseteq spent'
          /\ \A i \in DOMAIN codeOwner : codeOwner'[i] = codeOwner[i]
      BY <2>3
    <3>3. Proceed(c, "done", NoRow) /\ UNCHANGED form /\ c.code \in spent'
      BY <2>3
    <3> QED
      BY <1>2, <2>4, <3>1, <3>2, <3>3, <3>4, ProceedKept
  <2>6. \A i, e : CodeOf(i, e)' <=> CodeOf(i, e)
    BY <2>3 DEF CodeOf
  <2>7. userRow' \in [Emails -> SignUpRows] /\ userRow'[c.email] = new
        /\ \A e \in Emails \ {c.email} : userRow'[e] = userRow[e]
    BY <1>1, <2>2, <2>3 DEF SignUpInv, SignUpTypes
  <2>8. ASSUME NEW e \in Emails PROVE AccountSound(e)'
    <3>1. CASE e = c.email
      <4>1. \E f \in Forms : <<f, e>> \in registered
        <5>1. row.stored
          BY <1>1, <1>3, <2>3 DEF SignUpCallSound, SentFrom
        <5> QED
          BY <1>3, <1>4, <3>1, <5>1 DEF AccountSound
      <4> QED
        BY <1>3, <1>4, <2>3, <2>4, <2>6, <2>7, <3>1, <4>1 DEF AccountSound
    <3>2. CASE e # c.email
      <4>1. AccountSound(e) /\ userRow'[e] = userRow[e]
        BY <2>7, <3>2 DEF SignUpInv
      <4>2. ~CodeOf(c.code, e)
        BY <2>4, <3>2 DEF CodeOf
      <4> QED
        BY <2>3, <2>6, <4>1, <4>2 DEF AccountSound
    <3> QED
      BY <3>1, <3>2
  <2>9. \A f \in Forms : FilledIn(form[f])'
    BY <2>3, <2>6 DEF SignUpInv, FilledIn
  <2>10. SignUpTypes'
    BY <2>3, <2>4, <2>5, <2>7 DEF SignUpInv, SignUpTypes, CodeOf
  <2> QED
    BY <2>5, <2>8, <2>9, <2>10 DEF SignUpInv
<1>11. CASE LoadToResend(c)
  <2>1. UNCHANGED form /\ UNCHANGED serverState /\ c.op # "verify"
    BY <1>11 DEF LoadToResend
  <2>2. CASE row.stored /\ Proceed(c, "loaded", row)
    BY <1>2, <1>4, <2>1, <2>2, ReadInv
  <2> QED
    BY <1>3, <1>5, <1>11, <2>1, <2>2 DEF LoadToResend
<1>12. CASE ResendVerificationOtp(c)
  <2>11. PICK n \in Nat : n = Issue
    BY DEF Issue, SignUpInv, SignUpTypes
  <2>12. PICK v : v = IF "verified" \in c.columns THEN c.copy.verified ELSE row.verified
    OBVIOUS
  <2>1. v \in BOOLEAN
    BY <1>1, <1>4, <2>12 DEF SignUpRows
  <2>13. PICK new : new = [row EXCEPT !.verified = v, !.code = n]
    OBVIOUS
  <2>2. new \in SignUpRows /\ new.stored = row.stored /\ new.code = Issue
    BY <1>4, <2>1, <2>11, <2>13 DEF SignUpRows
  <2>3. userRow' = [userRow EXCEPT ![c.email] = new]
    <3>2. userRow' = [userRow EXCEPT ![c.email] =
             [row EXCEPT !.verified = IF "verified" \in c.columns THEN c.copy.verified ELSE row.verified,
                         !.code = Issue]]
      BY <1>3, <1>12, Zenon DEF ResendVerificationOtp
    <3> QED
      BY <2>11, <2>12, <2>13, <3>2
  <2>4. /\ c.op # "verify" /\ c.at = "selected" /\ IssueTo(c.email)
        /\ Proceed(c, "mail", NoRow) /\ UNCHANGED <<form, registered, spent, undone>>
    BY <1>12 DEF ResendVerificationOtp
  <2>5. new.stored /\ c.copy.stored /\ userRow[c.email].stored
    BY <1>1, <1>3, <2>2, <2>4 DEF SignUpCallSound
  <2>6. /\ \E f \in Forms : <<f, c.email>> \in registered'
        /\ \A f, g \in Forms : <<f, c.email>> \in registered' /\ <<g, c.email>> \in registered' => f = g
        /\ \A e \in Emails \ {c.email}, f \in Forms :
              <<f, e>> \in registered' <=> <<f, e>> \in registered
        /\ registered' \subseteq Forms \X Emails
    BY <1>4, <2>4, <2>5 DEF AccountSound, SignUpInv, SignUpTypes
  <2> QED
    BY <1>1, <2>2, <2>3, <2>4, <2>5, <2>6, IssueInv
<1> QED
  BY <1>6, <1>7, <1>8, <1>9, <1>10, <1>11, <1>12, SelectRowInv

LEMMA SignUpStep == SignUpInv /\ [RegistrationNext]_registrationVars => SignUpInv'
<1> SUFFICES ASSUME SignUpInv, [RegistrationNext]_registrationVars PROVE SignUpInv'
  OBVIOUS
<1>1. CASE \E f \in Forms :
              \/ BackToPersonalInfo(f) \/ SubmitAccountSetup(f) \/ HandleVerify(f)
              \/ HandleResend(f) \/ CountdownEnds(f)
              \/ \E e \in Emails : \/ SubmitPersonalInfo(f, e) \/ OpenVerifyPage(f, e)
                                   \/ SubmitUnverifiedLogin(f, e)
              \/ \E i \in DOMAIN codeOwner : EnterCode(f, i)
  BY <1>1, SignUpPagesInv
<1>2. CASE \E c \in signUpCalls :
              \/ RegistrationAnswered(c) \/ VerificationAnswered(c) \/ ResendAnswered(c)
              \/ MessageShown(c)
  BY <1>2, SignUpAnsweredInv
<1>3. CASE \E c \in signUpCalls :
              \/ CheckRegistration(c) \/ InsertUser(c) \/ SendVerificationEmail(c)
              \/ VerifySignUpCode(c) \/ SaveVerified(c) \/ LoadToResend(c)
              \/ ResendVerificationOtp(c) \/ SelectRow(c)
  BY <1>3, SignUpHandlersInv
<1>4. ASSUME UNCHANGED <<form, userRow, signUpCalls, codeOwner, registered, spent, undone>>
      PROVE  SignUpInv'
  BY <1>4 DEF SignUpInv, SignUpTypes, OneAtATime, AccountSound, FilledIn, SignUpCallSound, SentFrom,
              CodeOf
<1>5. CASE \E i \in 1..MaxVerifications : CodeLapses(i)
  BY <1>4, <1>5 DEF CodeLapses
<1>6. CASE UNCHANGED registrationVars
  BY <1>4, <1>6 DEF registrationVars
<1> QED
  BY <1>1, <1>2, <1>3, <1>5, <1>6 DEF RegistrationNext

\* The invariant says what the run checks.
LEMMA SignUpInvConsistent == SignUpInv => SignUpConsistent
<1> SUFFICES ASSUME SignUpInv PROVE SignUpConsistent
  OBVIOUS
<1>1. ASSUME NEW e \in Emails
      PROVE  /\ Cardinality({r \in registered : r[2] = e}) <= 1
             /\ userRow[e].stored <=> \E r \in registered : r[2] = e
  <2>1. \A r \in registered : r[1] \in Forms /\ r = <<r[1], r[2]>>
    BY DEF SignUpInv, SignUpTypes
  <2>2. AccountSound(e)
    BY DEF SignUpInv
  <2>3. userRow[e].stored <=> \E r \in registered : r[2] = e
    BY <2>1, <2>2 DEF AccountSound
  <2>4. PICK S : S = {r \in registered : r[2] = e}
    OBVIOUS
  <2>5. \A r, q \in S : r = q
    BY <2>1, <2>2, <2>4 DEF AccountSound
  <2>6. CASE S = {}
    <3>1. Cardinality(S) = 0
      BY <2>6, FS_EmptySet
    <3> QED
      BY <2>3, <2>4, <3>1
  <2>7. CASE S # {}
    <3>1. PICK r : r \in S
      BY <2>7
    <3>2. S = {r}
      BY <2>5, <3>1
    <3>3. Cardinality({r}) = 1
      BY FS_Singleton
    <3> QED
      BY <2>3, <2>4, <3>2, <3>3
  <2> QED
    BY <2>6, <2>7
<1>2. ASSUME NEW e \in Emails
      PROVE  /\ userRow[e].stored /\ ~userRow[e].verified => userRow[e].code # 0 \/ e \in undone
             /\ userRow[e].code # 0 => /\ codeOwner[userRow[e].code] = e
                                       /\ userRow[e].code \notin spent
  BY DEF SignUpInv, AccountSound, CodeOf
<1>3. ASSUME NEW f \in Forms, form[f].page = "dashboard"
      PROVE  \E i \in spent : codeOwner[i] = form[f].email
  BY <1>3 DEF SignUpInv, FilledIn, CodeOf
<1> QED
  BY <1>1, <1>2, <1>3 DEF SignUpConsistent

\* However registrations, verifications and resends overlap in whatever tabs, an
\* address is registered once, can be verified (unless its verification was
\* undone in the midst of a save), and leads on when it was.
THEOREM SignUpAgrees == RegistrationSpec => []SignUpConsistent
<1> QED
  BY SignUpInitInv, SignUpStep, SignUpInvConsistent, PTL DEF RegistrationSpec

-----------------------------------------------------------------------------
\* Sign-in of staff

StaffRows == [id : AccountIds \cup {0}, role : {"none", "user", "staff", "admin"},
              active : BOOLEAN, by : {"none", "form", "sso"}, ver : Nat]

\* A row that was read is one of an account.
ReadRow(row) == row \in StaffRows /\ row.id \in AccountIds /\ row.role # "none"

AssertionSound(x) ==
    /\ x.pc \in {"promote", "mint"} => ReadRow(x.held)
    /\ x.pc = "mint" => x.held.role = "staff"
    /\ ~Callable => x.pc \in {"none", "refused"}

SsoInv ==
    /\ staffRows \in [AccountIds -> StaffRows]
    /\ \A id \in Stored : staffRows[id].id = id
    /\ \A i, j \in Stored : i = j
    /\ DOMAIN assertion = Assertions /\ \A a \in Assertions : AssertionSound(assertion[a])
    /\ profileEdit # NoStaff => ReadRow(profileEdit)
    /\ \A s \in ssoSessions : s.role = "staff" /\ s.account \in Stored
    /\ ~Callable => /\ ~cookieSet /\ profileEdit.by # "sso"
                    /\ \A id \in Stored : staffRows[id].by # "sso"
    /\ roleAct \in {"none", "sso", "user", "admin"} /\ suspendAct \in BOOLEAN
    /\ staleSaves \in BOOLEAN /\ RoleIsLastAct /\ SsoOfferedWhenConfigured

LEMMA SsoInitInv == SsoInit => SsoInv
<1> SUFFICES ASSUME SsoInit PROVE SsoInv
  OBVIOUS
<1>1. NoStaff \in StaffRows /\ NoStaff.role = "none" /\ NoStaff.by = "none"
  BY DEF NoStaff, StaffRows
<1>2. PICK first \in {NoStaff} \cup [id : {1}, role : {"user", "staff", "admin"}, active : {TRUE},
                                     by : {"form"}, ver : {1}] :
          staffRows = [id \in AccountIds |-> IF id = 1 THEN first ELSE NoStaff]
  BY DEF SsoInit
<1>3. first = NoStaff \/ (first.id = 1 /\ first.by = "form")
  BY <1>2
<1>4. ASSUME 1 \in AccountIds PROVE first \in StaffRows
  <2>1. CASE first = NoStaff
    BY <1>1, <2>1
  <2>2. CASE first \in [id : {1}, role : {"user", "staff", "admin"}, active : {TRUE},
                       by : {"form"}, ver : {1}]
    <3>1. PICK role \in {"user", "staff", "admin"} :
             first = [id |-> 1, role |-> role, active |-> TRUE, by |-> "form", ver |-> 1]
      BY <2>2
    <3> QED
      BY <1>4, <3>1 DEF StaffRows
  <2> QED
    BY <1>2, <2>1, <2>2
<1>5. staffRows \in [AccountIds -> StaffRows]
  BY <1>1, <1>2, <1>4
<1>6. \A id \in Stored : id = 1 /\ staffRows[id] = first /\ first # NoStaff
  BY <1>1, <1>2 DEF Stored
<1>7. /\ \A id \in Stored : staffRows[id].id = id /\ staffRows[id].by # "sso"
      /\ \A i, j \in Stored : i = j
  BY <1>3, <1>6
<1>8. DOMAIN assertion = Assertions /\ \A a \in Assertions : AssertionSound(assertion[a])
  BY DEF SsoInit, AssertionSound, NoAssertion
<1>9. RoleIsLastAct /\ SsoOfferedWhenConfigured
  BY DEF SsoInit, RoleIsLastAct, SsoOfferedWhenConfigured
<1> QED
  BY <1>1, <1>5, <1>7, <1>8, <1>9 DEF SsoInit, SsoInv

\* What an assertion comes to hold.
LEMMA AssertionMoves ==
  ASSUME SsoInv, NEW a \in Assertions, NEW pc, NEW row, AssertionAt(a, pc, row), UNCHANGED ssoFixed,
         pc \in {"promote", "mint"} => ReadRow(row), pc = "mint" => row.role = "staff",
         ~Callable => pc \in {"none", "refused"}
  PROVE  /\ DOMAIN assertion' = Assertions
         /\ \A b \in Assertions : AssertionSound(assertion[b])'
<1>1. PICK x : x = [pc |-> pc, held |-> row]
  OBVIOUS
<1>2. AssertionSound(x)
  BY <1>1 DEF AssertionSound
<1>3. assertion' = [assertion EXCEPT ![a] = x]
  BY <1>1 DEF AssertionAt
<1>4. Callable' = Callable
  BY DEF Callable, ssoFixed
<1> QED
  BY <1>2, <1>3, <1>4 DEF SsoInv, AssertionSound

\* A save of a row that was read, which is the row there is unless the save is
\* stale.
LEMMA SavesRow ==
  ASSUME SsoInv, NEW read, ReadRow(read), NEW write, ReadRow(write), write.id = read.id,
         Saves(read, write), ~Callable => write.by # "sso"
  PROVE  /\ staffRows' \in [AccountIds -> StaffRows] /\ Stored \subseteq Stored'
         /\ \A i, j \in Stored' : i = j
         /\ \A id \in Stored' : staffRows'[id].id = id /\ (~Callable => staffRows'[id].by # "sso")
         /\ staleSaves' \in BOOLEAN
         /\ ~staleSaves' =>
               /\ ~staleSaves /\ staffRows[read.id] = read /\ Stored = {read.id}
               /\ \A id \in Stored' : staffRows'[id].role = write.role
                                      /\ staffRows'[id].active = write.active
<1>1. PICK now : now = staffRows[read.id]
  OBVIOUS
<1>2. /\ read.id \in AccountIds /\ now \in StaffRows
      /\ now.role # "none" <=> read.id \in Stored
  BY <1>1 DEF ReadRow, SsoInv, Stored
<1>3. staleSaves' = (staleSaves \/ now # read)
  BY <1>1 DEF Saves
<1>4. staleSaves' \in BOOLEAN
  BY <1>3 DEF SsoInv
<1>5. ~staleSaves' => ~staleSaves /\ now = read /\ Stored = {read.id}
  BY <1>2, <1>3 DEF ReadRow, SsoInv
\* The row is written, with a role and a state.
<1>6. ASSUME NEW row, ReadRow(row), row.id = read.id, row.by = write.by, Stored \subseteq {read.id},
             staffRows' = [staffRows EXCEPT ![read.id] = [row EXCEPT !.ver = @ + 1]],
             now = read => row.role = write.role /\ row.active = write.active
      PROVE  /\ staffRows' \in [AccountIds -> StaffRows] /\ Stored' = {read.id}
             /\ staffRows'[read.id].id = read.id /\ staffRows'[read.id].by = write.by
             /\ now = read => /\ staffRows'[read.id].role = write.role
                              /\ staffRows'[read.id].active = write.active
  <2>1. PICK new : new = [row EXCEPT !.ver = row.ver + 1]
    OBVIOUS
  <2>2. /\ new \in StaffRows /\ new.id = read.id /\ new.role = row.role
        /\ new.active = row.active /\ new.by = write.by /\ new.role # "none"
    BY <1>6, <2>1 DEF ReadRow, StaffRows
  <2>3. staffRows' = [staffRows EXCEPT ![read.id] = new]
    BY <1>6, <2>1
  <2>4. staffRows' \in [AccountIds -> StaffRows] /\ staffRows'[read.id] = new
        /\ \A id \in AccountIds \ {read.id} : staffRows'[id] = staffRows[id]
    BY <1>2, <2>2, <2>3 DEF SsoInv
  <2>5. Stored' = {read.id}
    BY <1>2, <1>6, <2>2, <2>4 DEF Stored
  <2> QED
    BY <1>6, <2>2, <2>4, <2>5
<1>7. CASE now.role = "none" /\ UNCHANGED staffRows
  <2>1. Stored' = Stored
    BY <1>7 DEF Stored
  <2> QED
    BY <1>1, <1>2, <1>4, <1>5, <1>7, <2>1 DEF SsoInv
<1>8. CASE /\ staffRows' = [staffRows EXCEPT ![read.id] = [write EXCEPT !.ver = @ + 1]]
           /\ now = read \/ Stored = {}
  <2>1. Stored \subseteq {read.id}
    BY <1>2, <1>8 DEF SsoInv, ReadRow
  <2>2. /\ staffRows' \in [AccountIds -> StaffRows] /\ Stored' = {read.id}
        /\ staffRows'[read.id].id = read.id /\ staffRows'[read.id].by = write.by
        /\ now = read => /\ staffRows'[read.id].role = write.role
                         /\ staffRows'[read.id].active = write.active
    BY <1>6, <1>8, <2>1
  <2> QED
    BY <1>1, <1>4, <1>5, <2>1, <2>2
<1>9. ASSUME now.role # "none", now # read,
             NEW role \in {write.role, now.role}, NEW active \in {write.active, now.active},
             staffRows' = [staffRows EXCEPT ![read.id] =
                 [[write EXCEPT !.role = role, !.active = active] EXCEPT !.ver = @ + 1]]
      PROVE  /\ staffRows' \in [AccountIds -> StaffRows] /\ Stored' = {read.id}
             /\ staffRows'[read.id].id = read.id /\ staffRows'[read.id].by = write.by
             /\ Stored \subseteq {read.id}
  <2>1. PICK row : row = [write EXCEPT !.role = role, !.active = active]
    OBVIOUS
  <2>4. role \in {"user", "staff", "admin"} /\ active \in BOOLEAN
    BY <1>2, <1>9 DEF ReadRow, StaffRows
  <2>5. row \in StaffRows /\ row.id = read.id /\ row.by = write.by /\ row.role = role
    BY <2>1, <2>4 DEF ReadRow, StaffRows
  <2>2. ReadRow(row) /\ row.id = read.id /\ row.by = write.by
    BY <1>2, <2>4, <2>5 DEF ReadRow
  <2>3. Stored \subseteq {read.id}
    BY <1>2, <1>9 DEF SsoInv
  <2> QED
    BY <1>6, <1>9, <2>1, <2>2, <2>3
<1>10. \/ now.role = "none" /\ UNCHANGED staffRows
       \/ /\ staffRows' = [staffRows EXCEPT ![read.id] = [write EXCEPT !.ver = @ + 1]]
          /\ now = read \/ Stored = {}
       \/ /\ now.role # "none" /\ now # read
          /\ \E role \in {write.role, now.role}, active \in {write.active, now.active} :
                staffRows' = [staffRows EXCEPT ![read.id] =
                    [[write EXCEPT !.role = role, !.active = active] EXCEPT !.ver = @ + 1]]
  BY <1>1 DEF Saves
<1> QED
  BY <1>1, <1>4, <1>5, <1>7, <1>8, <1>9, <1>10

\* A row an assertion or an edit comes to hold is that of an account.
LEMMA StoredRead ==
  ASSUME SsoInv, NEW id \in Stored
  PROVE  /\ ReadRow(staffRows[id]) /\ staffRows[id].id = id /\ id \in AccountIds
         /\ ~Callable => staffRows[id].by # "sso"
BY DEF SsoInv, Stored, ReadRow

LEMMA SsoStep == SsoInv /\ [SsoNext]_ssoVars => SsoInv'
<1> SUFFICES ASSUME SsoInv, [SsoNext]_ssoVars PROVE SsoInv'
  OBVIOUS
<1>1. UNCHANGED ssoFixed /\ Callable' = Callable
  <2>1. UNCHANGED ssoFixed
    <3>1. CASE OpenSsoPage \/ StatusAnswered \/ LeaveSsoPage \/ SaveEdit \/ UNCHANGED ssoVars
      BY <3>1 DEF ssoFixed, ssoVars, OpenSsoPage, StatusAnswered, LeaveSsoPage, SaveEdit, RowWritten
    <3>2. ASSUME NEW a \in Assertions,
                 \/ \E verified \in BOOLEAN : ReceiveAssertion(a, verified)
                 \/ FindStaff(a) \/ CreateStaff(a) \/ PromoteStaff(a) \/ MintSsoTokens(a)
          PROVE  UNCHANGED ssoFixed
      BY <3>2 DEF ReceiveAssertion, FindStaff, CreateStaff, PromoteStaff, MintSsoTokens,
                  OtherwiseIdle
    <3>3. ASSUME NEW id \in AccountIds,
                 \/ \E role \in {"user", "admin"} : GrantRole(id, role)
                 \/ \E active \in BOOLEAN : SuspendStaff(id, active)
                 \/ DeleteStaff(id) \/ ReadForEdit(id)
          PROVE  UNCHANGED ssoFixed
      BY <3>3 DEF GrantRole, SuspendStaff, DeleteStaff, ReadForEdit, RowWritten
    <3> QED
      BY <3>1, <3>2, <3>3 DEF SsoNext
  <2> QED
    BY <2>1 DEF ssoFixed, Callable
<1>2. UNCHANGED ssoPages => SsoOfferedWhenConfigured'
  BY <1>1 DEF SsoInv, SsoOfferedWhenConfigured, ssoPages, ssoFixed
<1>3. UNCHANGED staffRows => Stored' = Stored
  BY DEF Stored
<1>4. UNCHANGED rowState => RoleIsLastAct'
  BY <1>3 DEF SsoInv, RoleIsLastAct, rowState
<1>5. UNCHANGED assertion => \A a \in Assertions : AssertionSound(assertion[a])'
  BY <1>1 DEF SsoInv, AssertionSound
<1>6. NoStaff.by = "none" /\ NoStaff.role = "none"
  BY DEF NoStaff
<1>7. ASSUME OpenSsoPage \/ StatusAnswered \/ LeaveSsoPage PROVE SsoInv'
  <2>1. UNCHANGED <<rowState, assertion, ssoSessions, profileEdit, cookieSet>>
    BY <1>7 DEF OpenSsoPage, StatusAnswered, LeaveSsoPage
  <2>2. SsoOfferedWhenConfigured'
    BY <1>1, <1>7 DEF SsoInv, SsoOfferedWhenConfigured, ssoFixed, OpenSsoPage, StatusAnswered,
                      LeaveSsoPage
  <2> QED
    BY <1>1, <1>3, <1>4, <1>5, <2>1, <2>2 DEF SsoInv, rowState
<1>8. ASSUME NEW a \in Assertions, NEW verified \in BOOLEAN, ReceiveAssertion(a, verified)
      PROVE  SsoInv'
  <2>1. PICK pc : pc = IF Callable /\ verified THEN "find" ELSE "refused"
    OBVIOUS
  <2>2. AssertionAt(a, pc, NoStaff) /\ UNCHANGED <<rowState, ssoSessions, ssoPages, profileEdit>>
    BY <1>8, <2>1 DEF ReceiveAssertion, OtherwiseIdle
  <2>3. pc \notin {"promote", "mint"} /\ (~Callable => pc = "refused")
    BY <2>1
  <2>4. DOMAIN assertion' = Assertions /\ \A b \in Assertions : AssertionSound(assertion[b])'
    BY <1>1, <2>2, <2>3, AssertionMoves
  <2> QED
    BY <1>1, <1>2, <1>3, <1>4, <2>2, <2>4 DEF SsoInv, rowState, ssoPages
<1>9. ASSUME NEW a \in Assertions, FindStaff(a) PROVE SsoInv'
  <2>1. assertion[a].pc = "find" /\ UNCHANGED <<rowState, ssoSessions, ssoPages, profileEdit>>
    BY <1>9 DEF FindStaff, OtherwiseIdle
  <2>2. Callable
    BY <2>1 DEF SsoInv, AssertionSound
  <2>3. DOMAIN assertion' = Assertions /\ \A b \in Assertions : AssertionSound(assertion[b])'
    <3>1. CASE AssertionAt(a, "create", NoStaff) \/ AssertionAt(a, "refused", NoStaff)
      BY <1>1, <2>2, <3>1, AssertionMoves
    <3>2. CASE \E id \in Stored : AssertionAt(a, IF staffRows[id].role = "staff" THEN "mint"
                                                 ELSE "promote", staffRows[id])
      <4>1. PICK id \in Stored : AssertionAt(a, IF staffRows[id].role = "staff" THEN "mint"
                                                ELSE "promote", staffRows[id])
        BY <3>2
      <4>2. CASE staffRows[id].role = "staff"
        <5>1. AssertionAt(a, "mint", staffRows[id])
          BY <4>1, <4>2
        <5> QED
          BY <1>1, <2>2, <4>2, <5>1, StoredRead, AssertionMoves
      <4>3. CASE staffRows[id].role # "staff"
        <5>1. AssertionAt(a, "promote", staffRows[id])
          BY <4>1, <4>3
        <5> QED
          BY <1>1, <2>2, <4>3, <5>1, StoredRead, AssertionMoves
      <4> QED
        BY <4>2, <4>3
    <3> QED
      BY <1>9, <3>1, <3>2 DEF FindStaff
  <2> QED
    BY <1>1, <1>2, <1>3, <1>4, <2>1, <2>3 DEF SsoInv, rowState, ssoPages
<1>10. ASSUME NEW a \in Assertions, CreateStaff(a) PROVE SsoInv'
  <2>1. PICK id, row :
           /\ id \in AccountIds
           /\ row = [id |-> id, role |-> "staff", active |-> TRUE, by |-> "sso", ver |-> 1]
           /\ assertion[a].pc = "create"
           /\ \/ /\ Stored = {}
                 /\ staffRows' = [staffRows EXCEPT ![id] = row]
                 /\ roleAct' = "sso" /\ suspendAct' = FALSE
                 /\ AssertionAt(a, "mint", row)
                 /\ UNCHANGED staleSaves
              \/ AssertionAt(a, "refused", NoStaff) /\ UNCHANGED rowState
           /\ UNCHANGED <<ssoSessions, ssoPages, profileEdit>>
    BY <1>10 DEF CreateStaff, OtherwiseIdle
  <2>2. Callable
    BY <2>1 DEF SsoInv, AssertionSound
  <2>3. ReadRow(row) /\ row.role = "staff" /\ row.id = id /\ row.active
    BY <2>1 DEF ReadRow, StaffRows
  <2>4. DOMAIN assertion' = Assertions /\ \A b \in Assertions : AssertionSound(assertion[b])'
    BY <1>1, <2>1, <2>2, <2>3, AssertionMoves
  <2>5. CASE UNCHANGED rowState
    BY <1>1, <1>2, <1>3, <1>4, <2>1, <2>4, <2>5 DEF SsoInv, rowState, ssoPages
  <2>6. CASE /\ Stored = {} /\ staffRows' = [staffRows EXCEPT ![id] = row]
             /\ roleAct' = "sso" /\ suspendAct' = FALSE /\ UNCHANGED staleSaves
    <3>1. staffRows' \in [AccountIds -> StaffRows] /\ staffRows'[id] = row
          /\ \A i \in AccountIds \ {id} : staffRows'[i] = staffRows[i]
      BY <2>3, <2>6 DEF SsoInv, ReadRow
    <3>2. Stored' = {id} /\ ssoSessions = {}
      BY <2>3, <2>6, <3>1 DEF Stored, SsoInv
    <3>3. RoleIsLastAct'
      BY <2>3, <2>6, <3>1, <3>2 DEF RoleIsLastAct
    <3> QED
      BY <1>1, <1>2, <2>1, <2>2, <2>3, <2>4, <2>6, <3>1, <3>2, <3>3 DEF SsoInv, ssoPages
  <2> QED
    BY <2>1, <2>5, <2>6
<1>11. ASSUME NEW a \in Assertions, PromoteStaff(a) PROVE SsoInv'
  <2>1. PICK read : read = assertion[a].held
    OBVIOUS
  <2>2. PICK write : write = [read EXCEPT !.role = "staff"]
    OBVIOUS
  <2>3. /\ assertion[a].pc = "promote" /\ UNCHANGED <<ssoSessions, ssoPages, profileEdit>>
        /\ \/ /\ Saves(read, write) /\ roleAct' = "sso" /\ AssertionAt(a, "mint", write)
              /\ UNCHANGED suspendAct
           \/ AssertionAt(a, "refused", NoStaff) /\ UNCHANGED rowState
    BY <1>11, <2>1, <2>2 DEF PromoteStaff, OtherwiseIdle, Promotes
  <2>4. Callable /\ ReadRow(read)
    BY <2>1, <2>3 DEF SsoInv, AssertionSound
  <2>5. ReadRow(write) /\ write.role = "staff" /\ write.id = read.id /\ write.active = read.active
    BY <2>2, <2>4 DEF ReadRow, StaffRows
  <2>6. DOMAIN assertion' = Assertions /\ \A b \in Assertions : AssertionSound(assertion[b])'
    BY <1>1, <2>3, <2>4, <2>5, AssertionMoves
  <2>7. CASE UNCHANGED rowState
    BY <1>1, <1>2, <1>3, <1>4, <2>3, <2>6, <2>7 DEF SsoInv, rowState, ssoPages
  <2>8. CASE Saves(read, write) /\ roleAct' = "sso" /\ UNCHANGED suspendAct
    <3>1. RoleIsLastAct'
      BY <2>4, <2>5, <2>8, SavesRow DEF SsoInv, RoleIsLastAct
    <3> QED
      BY <1>1, <1>2, <2>3, <2>4, <2>5, <2>6, <2>8, <3>1, SavesRow DEF SsoInv, ssoPages
  <2> QED
    BY <2>3, <2>7, <2>8
<1>12. ASSUME NEW a \in Assertions, MintSsoTokens(a) PROVE SsoInv'
  <2>1. /\ assertion[a].pc = "mint" /\ UNCHANGED <<rowState, ssoPage, ssoLink, profileEdit>>
        /\ AssertionAt(a, "redirected", NoStaff) \/ AssertionAt(a, "refused", NoStaff)
    BY <1>12 DEF MintSsoTokens
  <2>2. Callable /\ assertion[a].held.role = "staff"
    BY <2>1 DEF SsoInv, AssertionSound
  <2>3. DOMAIN assertion' = Assertions /\ \A b \in Assertions : AssertionSound(assertion[b])'
    BY <1>1, <2>1, <2>2, AssertionMoves
  <2>4. \A s \in ssoSessions' : s.role = "staff" /\ s.account \in Stored
    BY <1>12, <2>2 DEF MintSsoTokens, MintAuthTokens, SsoInv
  <2>5. SsoOfferedWhenConfigured'
    BY <1>1, <2>1 DEF SsoInv, SsoOfferedWhenConfigured, ssoFixed
  <2> QED
    BY <1>1, <1>3, <1>4, <2>1, <2>2, <2>3, <2>4, <2>5 DEF SsoInv, rowState
<1>13. ASSUME NEW id \in AccountIds, NEW role \in {"user", "admin"}, GrantRole(id, role)
       PROVE  SsoInv'
  <2>1. PICK write : write = [staffRows[id] EXCEPT !.role = role]
    OBVIOUS
  <2>2. /\ id \in Stored /\ Saves(staffRows[id], write) /\ roleAct' = role
        /\ UNCHANGED <<suspendAct, ssoSessions, profileEdit, ssoPages, assertion>>
    BY <1>13, <2>1 DEF GrantRole, RowWritten
  <2>3. PICK read : read = staffRows[id]
    OBVIOUS
  <2>4. ReadRow(read) /\ read.id = id /\ (~Callable => read.by # "sso") /\ Saves(read, write)
    BY <2>2, <2>3, StoredRead
  <2>5. ReadRow(write) /\ write.role = role /\ write.id = read.id /\ write.active = read.active
        /\ write.by = read.by
    BY <2>1, <2>3, <2>4 DEF ReadRow, StaffRows
  <2>6. RoleIsLastAct'
    BY <2>2, <2>4, <2>5, SavesRow DEF SsoInv, RoleIsLastAct
  <2> QED
    BY <1>1, <1>2, <1>5, <2>2, <2>4, <2>5, <2>6, SavesRow DEF SsoInv, ssoPages
<1>14. ASSUME NEW id \in AccountIds, NEW active \in BOOLEAN, SuspendStaff(id, active)
       PROVE  SsoInv'
  <2>1. PICK write : write = [staffRows[id] EXCEPT !.active = active]
    OBVIOUS
  <2>2. /\ id \in Stored /\ Saves(staffRows[id], write) /\ suspendAct' = ~active
        /\ UNCHANGED <<roleAct, ssoSessions, profileEdit, ssoPages, assertion>>
    BY <1>14, <2>1 DEF SuspendStaff, RowWritten
  <2>3. PICK read : read = staffRows[id]
    OBVIOUS
  <2>4. ReadRow(read) /\ read.id = id /\ (~Callable => read.by # "sso") /\ Saves(read, write)
    BY <2>2, <2>3, StoredRead
  <2>5. ReadRow(write) /\ write.role = read.role /\ write.id = read.id /\ write.active = active
        /\ write.by = read.by
    BY <2>1, <2>3, <2>4 DEF ReadRow, StaffRows
  <2>6. RoleIsLastAct'
    BY <2>2, <2>4, <2>5, SavesRow DEF SsoInv, RoleIsLastAct
  <2> QED
    BY <1>1, <1>2, <1>5, <2>2, <2>4, <2>5, <2>6, SavesRow DEF SsoInv, ssoPages
<1>15. ASSUME NEW id \in AccountIds, DeleteStaff(id) PROVE SsoInv'
  <2>1. PICK gone : gone = Deleted(id)
    OBVIOUS
  <2>2. gone \in StaffRows /\ gone.role = "none"
    BY <2>1 DEF Deleted, NoStaff, StaffRows
  <2>3. /\ id \in Stored /\ staffRows' = [staffRows EXCEPT ![id] = gone]
        /\ ssoSessions' = {s \in ssoSessions : s.account # id}
        /\ roleAct' = "none" /\ suspendAct' = FALSE
        /\ UNCHANGED <<staleSaves, profileEdit, ssoPages, assertion>>
    BY <1>15, <2>1 DEF DeleteStaff, RowWritten
  <2>4. Stored' = {}
    BY <2>2, <2>3 DEF SsoInv, Stored
  <2>5. ssoSessions' = {}
    BY <2>3 DEF SsoInv
  <2>6. RoleIsLastAct'
    BY <2>4 DEF RoleIsLastAct
  <2> QED
    BY <1>1, <1>2, <1>5, <2>2, <2>3, <2>4, <2>5, <2>6 DEF SsoInv, ssoPages
<1>16. ASSUME NEW id \in AccountIds, ReadForEdit(id) PROVE SsoInv'
  <2>1. id \in Stored /\ profileEdit' = staffRows[id]
        /\ UNCHANGED <<rowState, ssoSessions, ssoPages, assertion>>
    BY <1>16 DEF ReadForEdit, RowWritten
  <2> QED
    BY <1>1, <1>2, <1>3, <1>4, <1>5, <2>1, StoredRead DEF SsoInv, rowState, ssoPages, ReadRow
<1>17. ASSUME SaveEdit PROVE SsoInv'
  <2>1. /\ profileEdit # NoStaff /\ profileEdit' = NoStaff
        /\ UNCHANGED <<ssoSessions, ssoPages, assertion>>
        /\ \/ Saves(profileEdit, profileEdit) /\ UNCHANGED <<roleAct, suspendAct>>
           \/ UNCHANGED rowState
    BY <1>17 DEF SaveEdit, RowWritten
  <2>2. CASE UNCHANGED rowState
    BY <1>1, <1>2, <1>3, <1>4, <1>5, <1>6, <2>1, <2>2 DEF SsoInv, rowState, ssoPages
  <2>3. CASE Saves(profileEdit, profileEdit) /\ UNCHANGED <<roleAct, suspendAct>>
    <3>1. PICK read : read = profileEdit
      OBVIOUS
    <3>2. ReadRow(read) /\ Saves(read, read) /\ (~Callable => read.by # "sso")
      BY <2>1, <2>3, <3>1 DEF SsoInv
    <3>3. RoleIsLastAct'
      BY <2>3, <3>2, SavesRow DEF SsoInv, RoleIsLastAct
    <3> QED
      BY <1>1, <1>2, <1>5, <1>6, <2>1, <2>3, <3>2, <3>3, SavesRow DEF SsoInv, ssoPages
  <2> QED
    BY <2>1, <2>2, <2>3
<1>18. CASE UNCHANGED ssoVars
  BY <1>1, <1>2, <1>3, <1>4, <1>5, <1>18 DEF SsoInv, ssoVars, rowState, ssoPages
<1> QED
  BY <1>7, <1>8, <1>9, <1>10, <1>11, <1>12, <1>13, <1>14, <1>15, <1>16, <1>17, <1>18 DEF SsoNext

\* The invariant says what the run checks.
LEMMA SsoInvConsistent == SsoInv => SsoConsistent
<1> SUFFICES ASSUME SsoInv PROVE SsoConsistent
  OBVIOUS
<1>1. Cardinality(Stored) <= 1
  <2>1. CASE Stored = {}
    BY <2>1, FS_EmptySet
  <2>2. CASE Stored # {}
    <3>1. PICK id : id \in Stored
      BY <2>2
    <3>2. Stored = {id}
      BY <3>1 DEF SsoInv
    <3>3. Cardinality({id}) = 1
      BY FS_Singleton
    <3> QED
      BY <3>2, <3>3
  <2> QED
    BY <2>1, <2>2
<1> QED
  BY <1>1 DEF SsoInv, SsoConsistent, SsoSessionsAreStaff

\* Whatever assertions, administrators and edits overlap, the sessions minted
\* are staff sessions of the one account, and the role is the last one given.
THEOREM StaffSignInAgrees == SsoSpec => []SsoConsistent
<1> QED
  BY SsoInitInv, SsoStep, SsoInvConsistent, PTL DEF SsoSpec

-----------------------------------------------------------------------------
\* The mailing list and the contact form

ListRows == [stored : BOOLEAN, verified : BOOLEAN, active : BOOLEAN, token : Nat, issued : Nat,
             deleted : BOOLEAN, ver : Nat]
ListCalls == [by : {"newsForm", "confirmPage", "client"},
              op : {"subscribe", "confirm", "unsubscribe"}, token : Nat,
              at : {"sent", "loaded", "reloaded", "saved", "done", "refused"}, copy : ListRows,
              columns : SUBSET ListColumns, seen : Nat]
FormCalls == [by : {"contactForm", "client"}, op : {"contact"}, token : Addresses \X Nat,
              at : {"sent", "stored", "confirmed", "done"}, copy : {Nobody},
              columns : {{}}, seen : {0}]
MailJobs == [kind : {"contact-confirmation", "contact-notification"}, token : Addresses \X Nat,
             tries : Nat, at : {"waiting", "dead"}]

\* While nobody saves, the columns compared are those in which the row differs.
ListCompared(c) ==
    /\ c.copy.ver <= c.seen /\ c.seen <= subscriber.ver
    /\ c.seen = subscriber.ver => Outdated(ListRow(c)) \subseteq c.columns

\* A request that read the row knows the row or a version before it; what
\* confirms presented its token, and what subscribes was given one since then.
ListCallSound(c) ==
    /\ c.by = "confirmPage" => c.op = "confirm"
    /\ c.op = "confirm" /\ c.at = "sent" => c.token # 0
    /\ c.op = "confirm" /\ c.at # "sent" => clicked # {}
    /\ c.at \in {"loaded", "reloaded"} =>
          /\ c.copy.ver <= subscriber.ver
          /\ c.copy.ver = subscriber.ver => c.copy = subscriber
    /\ c.at = "reloaded" => ListCompared(c)
    /\ c.op = "subscribe" /\ c.at \in {"loaded", "reloaded"} /\ c.copy.ver = subscriber.ver =>
          c.token > leftAt
    /\ c.op = "confirm" /\ c.at \in {"loaded", "reloaded"} =>
          /\ ~ c.copy.deleted
          /\ overwrote # "torn" => c.copy.issued \in clicked /\ c.copy.issued # 0

\* Who is on the list.
ListSound ==
    /\ subscriber \in ListRows
    /\ tokenCount \in Nat /\ leftAt \in Nat /\ leftAt <= tokenCount
    /\ overwrote \in {"no", "stale", "torn"}
    /\ clicked \subseteq Nat \ {0}
    /\ overwrote # "torn" => subscriber.token \in {0, subscriber.issued}
    /\ subscriber.verified => clicked # {}
    /\ overwrote # "torn" /\ subscriber.verified => subscriber.issued \in clicked
    /\ overwrote = "no" /\ ~ subscriber.deleted /\ subscriber.issued # 0 =>
          subscriber.issued > leftAt
    /\ confirmPage = "success" => clicked # {}

CallsOfList == {c \in mailCalls : c.op # "contact"}
CallsOfForm == {c \in mailCalls : c.op = "contact"}
Unstored == {c \in CallsOfForm : c.at = "sent"}

ListInv ==
    /\ ListSound
    /\ \A c \in CallsOfList : c \in ListCalls /\ ListCallSound(c)

\* The two halves do not meet.
SidesApart ==
    /\ CallsOfList # {} \/ inbox # {} => mailSide = "newsletter"
    /\ CallsOfForm # {} \/ contactForm.typed # "" => mailSide = "contact"

JobsSound == \A j \in jobs : j \in MailJobs /\ (j.tries < MaxAttempts \/ j.at = "dead")

Asked == contactForm.sent + contactForm.lost

\* One request of the form is under way while it is loading.
FormCallSound(c) ==
    /\ c \in FormCalls /\ c.token[2] <= Asked
    /\ c.by = "contactForm" <=> c.token[2] = Asked
    /\ c.by = "contactForm" =>
          /\ contactForm.loading
          /\ ~ contactForm.edited => contactForm.typed = c.token[1]
          /\ c.at # "sent" => contactForm.sent < Len(messages)
    /\ c.at # "sent" => c.token[1] \in ToSet(messages)

ContactForms == [shown : {"form", "sent"}, typed : Addresses \cup {""}, edited : BOOLEAN,
                 loading : BOOLEAN, sent : Nat, lost : Nat]

\* What the page says of messages and what is stored.
ContactFormInv ==
    /\ contactForm \in ContactForms /\ messages \in Seq(Addresses)
    /\ contactForm.loading => contactForm.shown = "form"
    /\ \A c \in CallsOfForm : FormCallSound(c)
    /\ \A c, d \in CallsOfForm : c.token[2] = d.token[2] => c = d
    /\ contactForm.sent <= Len(messages)
    /\ IsFiniteSet(Unstored)
    /\ Len(messages) + Cardinality(Unstored) <= Asked + (IF contactForm.loading THEN 1 ELSE 0)
    /\ contactForm.shown = "sent" /\ ~ contactForm.edited =>
          contactForm.typed \in ToSet(messages)

MailInv == ListInv /\ SidesApart /\ JobsSound /\ ContactFormInv

\* The invariant says what the runs check.
LEMMA MailInvConsistent == MailInv => MailConsistent
<1> SUFFICES ASSUME MailInv PROVE MailConsistent
  OBVIOUS
<1>1. /\ subscriber.verified => clicked # {}
      /\ overwrote # "torn" /\ subscriber.verified => subscriber.issued \in clicked
  BY DEF MailInv, ListInv, ListSound
<1>2. overwrote = "no" /\ Subscribed(subscriber) => subscriber.issued > leftAt
  <2>1. overwrote # "torn" /\ subscriber.verified => subscriber.issued # 0
    BY DEF MailInv, ListInv, ListSound
  <2> QED
    BY <2>1 DEF MailInv, ListInv, ListSound, Subscribed
<1>3. \A j \in jobs : j.tries < MaxAttempts \/ j.at = "dead"
  BY DEF MailInv, JobsSound
<1>4. confirmPage = "success" => clicked # {}
  BY DEF MailInv, ListInv, ListSound
<1>5. /\ contactForm.sent <= Len(messages)
      /\ contactForm.shown = "sent" /\ ~ contactForm.edited =>
            contactForm.typed \in ToSet(messages)
  BY DEF MailInv, ContactFormInv
<1>6. Len(messages) <= contactForm.sent + contactForm.lost
                       + (IF contactForm.loading THEN 1 ELSE 0)
  <2>1. contactForm \in ContactForms /\ messages \in Seq(Addresses) /\ IsFiniteSet(Unstored)
        /\ Len(messages) + Cardinality(Unstored) <= Asked + (IF contactForm.loading THEN 1 ELSE 0)
    BY DEF MailInv, ContactFormInv
  <2>2. contactForm.sent \in Nat /\ contactForm.lost \in Nat
    BY <2>1 DEF ContactForms
  <2>3. Len(messages) \in Nat /\ Cardinality(Unstored) \in Nat
    BY <2>1, FS_CardinalityType
  <2> QED
    BY <2>1, <2>2, <2>3 DEF Asked
<1> QED
  BY <1>1, <1>2, <1>3, <1>4, <1>5, <1>6 DEF MailConsistent

LEMMA MailInitInv == MailInit => MailInv
<1> SUFFICES ASSUME MailInit PROVE MailInv
  OBVIOUS
<1>1. /\ subscriber = Nobody /\ tokenCount = 0 /\ mailCalls = {} /\ jobs = {} /\ inbox = {}
      /\ clicked = {} /\ leftAt = 0 /\ overwrote = "no" /\ confirmPage = "none"
      /\ contactForm = EmptyContact /\ messages = << >>
  BY DEF MailInit
<1>2. CallsOfList = {} /\ CallsOfForm = {} /\ Unstored = {}
  BY <1>1 DEF CallsOfList, CallsOfForm, Unstored
<1>3. ListInv
  <2>1. subscriber \in ListRows /\ subscriber.token = 0 /\ subscriber.issued = 0
        /\ subscriber.verified = FALSE
    BY <1>1 DEF Nobody, ListRows
  <2>2. /\ tokenCount = 0 /\ leftAt = 0 /\ overwrote = "no" /\ clicked = {}
        /\ confirmPage # "success"
    BY <1>1
  <2>3. subscriber.verified => subscriber.issued \in clicked
    BY <2>1
  <2>4. subscriber.issued # 0 => subscriber.issued > leftAt
    BY <2>1
  <2>5. /\ clicked \subseteq Nat \ {0} /\ overwrote \in {"no", "stale", "torn"}
        /\ tokenCount \in Nat /\ leftAt \in Nat /\ leftAt <= tokenCount
    <3>1. overwrote \in {"no", "stale", "torn"}
      BY <2>2
    <3>2. clicked \subseteq Nat \ {0}
      BY <2>2
    <3>3. tokenCount \in Nat /\ leftAt \in Nat /\ leftAt <= tokenCount
      BY <2>2
    <3> QED
      BY <3>1, <3>2, <3>3
  <2>6. (confirmPage = "success" => clicked # {}) /\ subscriber.token \in {0, subscriber.issued}
    BY <2>1, <2>2
  <2>7. ListSound
    BY <2>1, <2>3, <2>4, <2>5, <2>6 DEF ListSound
  <2> QED
    BY <1>2, <2>7 DEF ListInv
<1>4. SidesApart
  BY <1>1, <1>2 DEF SidesApart, EmptyContact
<1>5. JobsSound
  BY <1>1 DEF JobsSound
<1>6. ContactFormInv
  <2>1. /\ contactForm \in ContactForms /\ contactForm.sent = 0 /\ contactForm.lost = 0
        /\ contactForm.shown = "form" /\ contactForm.loading = FALSE
    BY <1>1 DEF EmptyContact, ContactForms
  <2>2. messages \in Seq(Addresses) /\ Len(messages) = 0
    BY <1>1
  <2>3. IsFiniteSet(Unstored) /\ Cardinality(Unstored) = 0
    BY <1>2, FS_EmptySet
  <2> QED
    BY <1>2, <2>1, <2>2, <2>3 DEF ContactFormInv, Asked
<1> QED
  BY <1>3, <1>4, <1>5, <1>6 DEF MailInv

\* Steps of the newsletter

\* The form knows nothing of the list.
LEMMA FormKept ==
  ASSUME ContactFormInv, UNCHANGED contactState, CallsOfForm' = CallsOfForm
  PROVE  ContactFormInv'
<1>1. contactForm' = contactForm /\ messages' = messages
  BY DEF contactState
<1>2. Unstored' = Unstored /\ Asked' = Asked
  BY <1>1 DEF Unstored, Asked
<1>3. \A c : FormCallSound(c) => FormCallSound(c)'
  BY <1>1, <1>2 DEF FormCallSound
<1> QED
  BY <1>1, <1>2, <1>3 DEF ContactFormInv

\* What was compared depends on the row alone.
LEMMA ListComparedKept ==
  ASSUME NEW c, ListCompared(c), UNCHANGED subscriber
  PROVE  ListCompared(c)'
<1>1. ListRow(c)' = ListRow(c)
  BY DEF ListRow, PendingRow
<1>2. \A row : Outdated(row)' = Outdated(row)
  BY DEF Outdated
<1> QED
  BY <1>1, <1>2 DEF ListCompared, Outdated, ListRow, PendingRow

\* A step of the list: the row is as it was or has a new version, and tokens
\* once presented stay so.
LEMMA ListStep ==
  ASSUME MailInv, mailSide = "newsletter", mailSide' = mailSide, UNCHANGED contactState,
         CallsOfForm' = CallsOfForm, ListSound', jobs' = jobs, clicked \subseteq clicked',
         \/ subscriber' = subscriber /\ leftAt' = leftAt
         \/ subscriber'.ver = subscriber.ver + 1,
         overwrote = "torn" => overwrote' = "torn",
         \A e \in CallsOfList' : e \in CallsOfList \/ (e \in ListCalls /\ ListCallSound(e)')
  PROVE  MailInv'
<1>1. ASSUME NEW e \in CallsOfList PROVE e \in ListCalls /\ ListCallSound(e)'
  <2>1. /\ e \in ListCalls /\ ListCallSound(e) /\ e.copy.ver \in Nat /\ e.seen \in Nat
        /\ subscriber.ver \in Nat
    BY DEF MailInv, ListInv, ListSound, ListCalls, ListRows
  <2>2. CASE subscriber' = subscriber /\ leftAt' = leftAt
    <3>1. ListCompared(e) => ListCompared(e)'
      BY <2>2, ListComparedKept
    <3> QED
      BY <2>1, <2>2, <3>1 DEF ListCallSound
  <2>3. CASE subscriber'.ver = subscriber.ver + 1
    <3>1. ListCompared(e) => ListCompared(e)'
      BY <2>1, <2>3 DEF ListCompared
    <3> QED
      BY <2>1, <2>3, <3>1 DEF ListCallSound
  <2> QED
    BY <2>2, <2>3
<1>2. ListInv'
  BY <1>1 DEF ListInv
<1>3. SidesApart'
  <2>1. contactForm' = contactForm
    BY DEF contactState
  <2> QED
    BY <2>1 DEF MailInv, SidesApart
<1>4. JobsSound'
  BY DEF MailInv, JobsSound
<1>5. ContactFormInv'
  BY FormKept DEF MailInv
<1> QED
  BY <1>2, <1>3, <1>4, <1>5 DEF MailInv

\* A request of the list goes on.
LEMMA ListTurn ==
  ASSUME NEW c \in CallsOfList, NEW d \in ListCalls, MailTurn(c, d)
  PROVE  /\ CallsOfForm' = CallsOfForm
         /\ \A e \in CallsOfList' : e \in CallsOfList \/ e = d
<1>1. d.op # "contact"
  BY DEF ListCalls
<1> QED
  BY <1>1 DEF MailTurn, CallsOfForm, CallsOfList

\* Facts of a request of the list.
LEMMA ListCallFacts ==
  ASSUME MailInv, NEW c \in mailCalls, c.op # "contact"
  PROVE  /\ c \in CallsOfList /\ c \in ListCalls /\ ListCallSound(c)
         /\ mailSide = "newsletter"
<1>1. c \in CallsOfList
  BY DEF CallsOfList
<1> QED
  BY <1>1 DEF MailInv, ListInv, SidesApart

LEMMA NobodyType == Nobody \in ListRows
  BY DEF Nobody, ListRows

\* A request that holds no row any more.
LEMMA MailAtType ==
  ASSUME NEW c \in ListCalls, NEW at \in {"saved", "done", "refused"}
  PROVE  /\ MailAt(c, at) \in ListCalls /\ MailAt(c, at).at = at /\ MailAt(c, at).by = c.by
         /\ MailAt(c, at).op = c.op
<1>1. PICK d : d = [c EXCEPT !.at = at, !.copy = Nobody, !.columns = {}, !.seen = 0]
  OBVIOUS
<1>2. d \in ListCalls /\ d.at = at /\ d.by = c.by /\ d.op = c.op
  BY <1>1, NobodyType DEF ListCalls
<1> QED
  BY <1>1, <1>2 DEF MailAt

\* LoadSubscriber.
LEMMA LoadSubscriberStep ==
  ASSUME MailInv, NEW c \in mailCalls, LoadSubscriber(c) PROVE MailInv'
<1>1. /\ mailSide = "newsletter" /\ c.at = "sent"
      /\ UNCHANGED <<mailSide, subscriber, expiredLinks, leftAt, overwrote,
                     queueState, newsPages, contactState>>
  BY DEF LoadSubscriber
<1>2. c.op # "contact"
  BY <1>1 DEF MailInv, SidesApart, CallsOfForm
<1>3. c \in CallsOfList /\ c \in ListCalls /\ ListCallSound(c)
  BY <1>2, ListCallFacts
<1>4. /\ subscriber \in ListRows /\ subscriber.ver \in Nat /\ tokenCount \in Nat
      /\ leftAt \in Nat /\ leftAt <= tokenCount
  BY DEF MailInv, ListInv, ListSound, ListRows
<1>5. PICK t : t = MakeToken(c)
  OBVIOUS
<1>6. t \in Nat /\ (c.op = "subscribe" => t = tokenCount + 1) /\ (c.op # "subscribe" => t = c.token)
  BY <1>3, <1>4, <1>5 DEF MakeToken, ListCalls
<1>7. PICK d : d = [c EXCEPT !.at = "loaded", !.token = t, !.copy = subscriber]
  OBVIOUS
<1>8. /\ d \in ListCalls /\ d.at = "loaded" /\ d.copy = subscriber
      /\ d.by = c.by /\ d.op = c.op /\ d.token = t
  BY <1>3, <1>4, <1>6, <1>7 DEF ListCalls
<1>9. clicked' = IF c.op = "confirm" THEN clicked \cup {c.token} ELSE clicked
  BY DEF LoadSubscriber
<1>10. c.op = "confirm" => c.token \in Nat \ {0}
  BY <1>1, <1>3 DEF ListCalls, ListCallSound
<1>11. clicked \subseteq clicked' /\ clicked' \subseteq Nat \ {0}
       /\ (c.op = "confirm" => c.token \in clicked')
  BY <1>9, <1>10 DEF MailInv, ListInv, ListSound
<1>12. subscriber' = subscriber /\ jobs' = jobs /\ leftAt' = leftAt /\ overwrote' = overwrote
  BY <1>1 DEF queueState
<1>13. tokenCount' \in Nat /\ tokenCount' >= tokenCount
  BY <1>4 DEF LoadSubscriber
<1>14. ListSound'
  <2>1. confirmPage' = confirmPage
    BY <1>1 DEF newsPages
  <2>2. leftAt' \in Nat /\ leftAt' <= tokenCount'
    BY <1>4, <1>12, <1>13
  <2>3. /\ subscriber.verified => clicked' # {}
        /\ overwrote # "torn" /\ subscriber.verified => subscriber.issued \in clicked'
        /\ confirmPage' = "success" => clicked' # {}
    BY <1>11, <2>1 DEF MailInv, ListInv, ListSound
  <2> QED
    BY <1>11, <1>12, <1>13, <2>2, <2>3 DEF MailInv, ListInv, ListSound
<1>15. ASSUME NEW at \in {"refused", "done"}, MailDone(c, at) PROVE MailInv'
  <2>1. PICK f : f = MailAt(c, at)
    OBVIOUS
  <2>2. f \in ListCalls /\ f.at = at /\ f.by = c.by /\ f.op = c.op /\ MailTurn(c, f)
    BY <1>3, <1>15, <2>1, MailAtType DEF MailDone
  <2>3. ListCallSound(f)'
    BY <1>3, <1>11, <2>2 DEF ListCallSound
  <2> QED
    BY <1>1, <1>3, <1>11, <1>12, <1>14, <2>2, <2>3, ListTurn, ListStep
<1>16. CASE MailTurn(c, d) /\ Found(c)
  <2>1. c.op = "confirm" => c.token = subscriber.token /\ ~ subscriber.deleted
    BY <1>16 DEF Found
  <2>2. c.op = "confirm" /\ overwrote # "torn" => subscriber.issued = c.token
    BY <1>10, <2>1 DEF MailInv, ListInv, ListSound
  <2>3. ListCallSound(d)'
    BY <1>3, <1>4, <1>6, <1>8, <1>10, <1>11, <1>12, <2>1, <2>2 DEF ListCallSound
  <2> QED
    BY <1>1, <1>3, <1>8, <1>11, <1>12, <1>14, <1>16, <2>3, ListTurn, ListStep
<1> QED
  BY <1>5, <1>7, <1>15, <1>16 DEF LoadSubscriber

\* The row a request saves.
LEMMA ListRowType ==
  ASSUME NEW c \in ListCalls, c.op \in {"subscribe", "confirm"}, NEW row, row = ListRow(c)
  PROVE  /\ row \in ListRows
         /\ c.op = "subscribe" => /\ row.token = c.token /\ row.issued = c.token
                                  /\ row.verified = FALSE
         /\ c.op = "confirm" => /\ row.token = 0 /\ row.issued = c.copy.issued
                                /\ row.deleted = c.copy.deleted
<1>1. c.copy \in ListRows /\ c.token \in Nat
  BY DEF ListCalls
<1>2. CASE c.op = "subscribe"
  <2>1. PICK t : t = c.token
    OBVIOUS
  <2>2. row = PendingRow(c.copy, t) /\ t \in Nat
    BY <1>1, <1>2, <2>1 DEF ListRow
  <2>3. row \in ListRows /\ row.token = t /\ row.issued = t /\ row.verified = FALSE
    BY <1>1, <2>2 DEF PendingRow, ListRows
  <2> QED
    BY <1>2, <2>1, <2>3
<1>3. CASE c.op = "confirm"
  <2>1. row = [c.copy EXCEPT !.verified = TRUE, !.active = TRUE, !.token = 0]
    BY <1>3 DEF ListRow
  <2>2. PICK on \in BOOLEAN, z \in Nat : on = TRUE /\ z = 0
    OBVIOUS
  <2>3. row = [c.copy EXCEPT !.verified = on, !.active = on, !.token = z]
    BY <2>1, <2>2
  <2>4. row \in ListRows /\ row.token = z /\ row.issued = c.copy.issued
    BY <1>1, <2>3 DEF ListRows
  <2>5. row.deleted = c.copy.deleted
    BY <1>1, <2>3 DEF ListRows
  <2> QED
    BY <1>3, <2>2, <2>4, <2>5
<1> QED
  BY <1>2, <1>3

\* ReloadSubscriber.
LEMMA ReloadSubscriberStep ==
  ASSUME MailInv, NEW c \in mailCalls, ReloadSubscriber(c) PROVE MailInv'
<1>1. /\ c.op \in {"subscribe", "confirm"} /\ c.at = "loaded"
      /\ UNCHANGED <<listState, queueState, newsPages, contactState>>
  BY DEF ReloadSubscriber
<1>2. /\ c \in CallsOfList /\ c \in ListCalls /\ ListCallSound(c) /\ mailSide = "newsletter"
  BY <1>1, ListCallFacts
<1>3. subscriber \in ListRows /\ subscriber.ver \in Nat
  BY DEF MailInv, ListInv, ListSound, ListRows
<1>4. PICK columns : columns = Outdated(ListRow(c))
  OBVIOUS
<1>5. columns \subseteq ListColumns
  BY <1>4 DEF Outdated
<1>6. PICK d : d = [c EXCEPT !.at = "reloaded", !.seen = subscriber.ver, !.columns = columns]
  OBVIOUS
<1>7. MailTurn(c, d)
  BY <1>4, <1>6 DEF ReloadSubscriber
<1>8. /\ d \in ListCalls /\ d.at = "reloaded" /\ d.by = c.by /\ d.op = c.op /\ d.token = c.token
      /\ d.copy = c.copy /\ d.columns = columns /\ d.seen = subscriber.ver
  BY <1>2, <1>3, <1>5, <1>6 DEF ListCalls
<1>9. UNCHANGED <<mailSide, subscriber, tokenCount, clicked, leftAt, overwrote, jobs, confirmPage>>
  BY <1>1 DEF listState, queueState, newsPages
<1>10. ListRow(d) = ListRow(c)
  BY <1>8 DEF ListRow
<1>11. ListCompared(d)
  BY <1>1, <1>2, <1>3, <1>4, <1>8, <1>10 DEF ListCompared, ListCallSound
<1>12. ListCompared(d)'
  BY <1>9, <1>11, ListComparedKept
<1>13. ListCallSound(d)'
  BY <1>1, <1>2, <1>8, <1>9, <1>12 DEF ListCallSound
<1>14. ListSound'
  BY <1>9 DEF MailInv, ListInv, ListSound
<1> QED
  BY <1>1, <1>2, <1>7, <1>8, <1>9, <1>13, <1>14, ListTurn, ListStep

\* A save writes columns of the row its handler made: all that differ, unless
\* another save came after its SELECT.
LEMMA ListRowWritten ==
  ASSUME MailInv, NEW c \in mailCalls, c.op \in {"subscribe", "confirm"}, SaveRow(c),
         NEW row, row = ListRow(c)
  PROVE  /\ c.at \in {"loaded", "reloaded"}
         /\ subscriber' \in ListRows /\ subscriber'.ver = subscriber.ver + 1
         /\ subscriber'.verified \in {row.verified, subscriber.verified}
         /\ overwrote' \in {"no", "stale", "torn"}
         /\ overwrote' # "torn" => /\ overwrote # "torn" /\ subscriber'.verified = row.verified
                                   /\ subscriber'.token = row.token
                                   /\ subscriber'.issued = row.issued
                                   /\ subscriber'.deleted = row.deleted
         /\ overwrote' = "no" => overwrote = "no" /\ c.copy.ver = subscriber.ver
<1>1. /\ c \in ListCalls /\ ListCallSound(c) /\ row \in ListRows
  BY ListCallFacts, ListRowType
<1>2. /\ subscriber \in ListRows /\ subscriber.ver \in Nat /\ overwrote \in {"no", "stale", "torn"}
  BY DEF MailInv, ListInv, ListSound, ListRows
<1>3. c.at = IF c.copy.stored THEN "reloaded" ELSE "loaded"
  BY DEF SaveRow
<1>4. PICK written : written = IF c.copy.stored THEN c.columns ELSE ListColumns
  OBVIOUS
<1>5. PICK v, a, t, i, x, n :
         /\ v = IF "verified" \in written THEN row.verified ELSE subscriber.verified
         /\ a = IF "active" \in written THEN row.active ELSE subscriber.active
         /\ t = IF "token" \in written THEN row.token ELSE subscriber.token
         /\ i = IF "issued" \in written THEN row.issued ELSE subscriber.issued
         /\ x = IF "deleted" \in written THEN row.deleted ELSE subscriber.deleted
         /\ n = subscriber.ver + 1
  OBVIOUS
<1>6. subscriber' = [subscriber EXCEPT !.stored = TRUE, !.verified = v, !.active = a, !.token = t,
                                       !.issued = i, !.deleted = x, !.ver = n]
  BY <1>4, <1>5, Zenon DEF SaveRow
<1>7. /\ v \in BOOLEAN /\ a \in BOOLEAN /\ t \in Nat /\ i \in Nat /\ x \in BOOLEAN /\ n \in Nat
  BY <1>1, <1>2, <1>5 DEF ListRows
<1>8. /\ subscriber' \in ListRows /\ subscriber'.verified = v /\ subscriber'.token = t
      /\ subscriber'.issued = i /\ subscriber'.deleted = x /\ subscriber'.ver = n
  BY <1>2, <1>6, <1>7 DEF ListRows
<1>9. overwrote' = IF c.copy.stored /\ c.seen # subscriber.ver THEN "torn"
                   ELSE IF c.copy.ver # subscriber.ver /\ overwrote = "no" THEN "stale"
                   ELSE overwrote
  BY DEF SaveRow
<1>10. /\ overwrote' \in {"no", "stale", "torn"}
       /\ overwrote' # "torn" => overwrote # "torn" /\ (c.copy.stored => c.seen = subscriber.ver)
       /\ overwrote' = "no" => overwrote = "no" /\ c.copy.ver = subscriber.ver
  BY <1>2, <1>9
<1>11. ASSUME overwrote' # "torn"
       PROVE  v = row.verified /\ t = row.token /\ i = row.issued /\ x = row.deleted
  <2>1. Outdated(row) \subseteq written
    <3>1. CASE c.copy.stored
      BY <1>1, <1>3, <1>4, <1>10, <1>11, <3>1 DEF ListCallSound, ListCompared
    <3>2. CASE ~ c.copy.stored
      BY <1>4, <3>2 DEF Outdated
    <3> QED
      BY <3>1, <3>2
  <2>2. /\ row["verified"] # subscriber["verified"] => "verified" \in written
        /\ row["token"] # subscriber["token"] => "token" \in written
        /\ row["issued"] # subscriber["issued"] => "issued" \in written
        /\ row["deleted"] # subscriber["deleted"] => "deleted" \in written
    BY <2>1 DEF Outdated, ListColumns
  <2> QED
    BY <1>5, <2>2
<1>12. v \in {row.verified, subscriber.verified}
  BY <1>5
<1> QED
  BY <1>3, <1>5, <1>8, <1>10, <1>11, <1>12

\* SaveSubscription.
LEMMA SaveSubscriptionStep ==
  ASSUME MailInv, NEW c \in mailCalls, SaveSubscription(c) PROVE MailInv'
<1>1. /\ c.op = "subscribe"
      /\ UNCHANGED <<mailSide, tokenCount, expiredLinks, clicked, leftAt, queueState, newsPages,
                     contactState>>
  BY DEF SaveSubscription
<1>2. /\ c \in CallsOfList /\ c \in ListCalls /\ ListCallSound(c) /\ mailSide = "newsletter"
  BY <1>1, ListCallFacts
<1>3. ASSUME NEW at \in {"refused", "saved"}
      PROVE  /\ MailAt(c, at) \in ListCalls /\ ListCallSound(MailAt(c, at))'
             /\ MailAt(c, at).op = "subscribe"
  BY <1>1, <1>2, MailAtType DEF ListCallSound
<1>4. clicked \subseteq clicked' /\ clicked' = clicked /\ jobs' = jobs /\ confirmPage' = confirmPage
  BY <1>1 DEF queueState, newsPages
<1>5. CASE MailDone(c, "refused") /\ UNCHANGED <<subscriber, overwrote>>
  <2>1. ListSound'
    BY <1>1, <1>4, <1>5 DEF MailInv, ListInv, ListSound
  <2> QED
    BY <1>1, <1>2, <1>3, <1>4, <1>5, <2>1, ListTurn, ListStep DEF MailDone
<1>6. CASE SaveRow(c) /\ MailTurn(c, MailAt(c, "saved"))
  <2>1. PICK row : row = ListRow(c)
    OBVIOUS
  <2>2. row.token = c.token /\ row.issued = c.token /\ row.verified = FALSE /\ c.token \in Nat
    BY <1>1, <1>2, <2>1, ListRowType DEF ListCalls
  <2>3. /\ tokenCount \in Nat /\ leftAt \in Nat /\ leftAt <= tokenCount
    BY DEF MailInv, ListInv, ListSound
  <2>4. /\ subscriber' \in ListRows /\ subscriber'.ver = subscriber.ver + 1
        /\ subscriber'.verified => subscriber.verified
        /\ overwrote' \in {"no", "stale", "torn"}
        /\ overwrote' # "torn" => /\ overwrote # "torn" /\ ~ subscriber'.verified
                                  /\ subscriber'.token = c.token /\ subscriber'.issued = c.token
        /\ overwrote' = "no" => c.token > leftAt
    BY <1>1, <1>2, <1>6, <2>1, <2>2, ListRowWritten DEF ListCallSound
  <2>5. overwrote = "torn" => overwrote' = "torn"
    BY <2>4
  <2>6. ListSound'
    BY <1>1, <1>4, <2>3, <2>4 DEF MailInv, ListInv, ListSound
  <2> QED
    BY <1>1, <1>2, <1>3, <1>4, <1>6, <2>4, <2>5, <2>6, ListTurn, ListStep
<1> QED
  BY <1>5, <1>6 DEF SaveSubscription

\* SaveConfirmation.
LEMMA SaveConfirmationStep ==
  ASSUME MailInv, NEW c \in mailCalls, SaveConfirmation(c) PROVE MailInv'
<1>1. /\ c.op = "confirm" /\ SaveRow(c)
      /\ UNCHANGED <<mailSide, tokenCount, expiredLinks, clicked, leftAt, queueState, newsPages,
                     contactState>>
  BY DEF SaveConfirmation
<1>2. /\ c \in CallsOfList /\ c \in ListCalls /\ ListCallSound(c) /\ mailSide = "newsletter"
  BY <1>1, ListCallFacts
<1>3. PICK f : f = MailAt(c, "saved")
  OBVIOUS
<1>4. PICK d : d = [f EXCEPT !.token = c.copy.issued]
  OBVIOUS
<1>5. MailTurn(c, d)
  BY <1>3, <1>4 DEF SaveConfirmation
<1>6. c.copy \in ListRows /\ c.copy.issued \in Nat
  BY <1>2 DEF ListCalls, ListRows
<1>7. f \in ListCalls /\ f.at = "saved" /\ f.by = c.by /\ f.op = c.op
  BY <1>2, <1>3, MailAtType
<1>8. /\ d \in ListCalls /\ d.at = "saved" /\ d.by = c.by /\ d.op = c.op
  BY <1>4, <1>6, <1>7 DEF ListCalls
<1>9. PICK row : row = ListRow(c)
  OBVIOUS
<1>10. row.token = 0 /\ row.issued = c.copy.issued /\ row.deleted = c.copy.deleted
  BY <1>1, <1>2, <1>9, ListRowType
<1>11. /\ c.at \in {"loaded", "reloaded"}
       /\ subscriber' \in ListRows /\ subscriber'.ver = subscriber.ver + 1
       /\ overwrote' \in {"no", "stale", "torn"}
       /\ overwrote' # "torn" => /\ overwrote # "torn" /\ subscriber'.token = 0
                                 /\ subscriber'.issued = c.copy.issued
                                 /\ subscriber'.deleted = c.copy.deleted
       /\ overwrote' = "no" => overwrote = "no" /\ c.copy.ver = subscriber.ver
  BY <1>1, <1>9, <1>10, ListRowWritten
<1>12. clicked # {} /\ ~ c.copy.deleted /\ (overwrote # "torn" => c.copy.issued \in clicked)
  BY <1>1, <1>2, <1>11 DEF ListCallSound
<1>13. overwrote' = "no" => c.copy = subscriber
  BY <1>2, <1>11 DEF ListCallSound
<1>14. clicked' = clicked /\ jobs' = jobs /\ confirmPage' = confirmPage
  BY <1>1 DEF queueState, newsPages
<1>15. ListCallSound(d)'
  BY <1>1, <1>8, <1>12, <1>14 DEF ListCallSound
<1>16. overwrote' = "no" => subscriber.issued > leftAt
  BY <1>11, <1>12, <1>13 DEF MailInv, ListInv, ListSound
<1>17. ListSound'
  BY <1>1, <1>11, <1>12, <1>13, <1>14, <1>16 DEF MailInv, ListInv, ListSound
<1> QED
  BY <1>1, <1>2, <1>5, <1>8, <1>11, <1>14, <1>15, <1>17, ListTurn, ListStep

\* SoftRemove.
LEMMA SoftRemoveStep ==
  ASSUME MailInv, NEW c \in mailCalls, SoftRemove(c) PROVE MailInv'
<1>1. /\ c.op = "unsubscribe" /\ c.at = "loaded" /\ leftAt' = tokenCount
      /\ UNCHANGED <<mailSide, tokenCount, expiredLinks, clicked, overwrote, queueState,
                     newsPages, contactState>>
  BY DEF SoftRemove
<1>2. /\ c \in CallsOfList /\ c \in ListCalls /\ ListCallSound(c) /\ mailSide = "newsletter"
  BY <1>1, ListCallFacts
<1>3. PICK d : d = MailAt(c, "saved")
  OBVIOUS
<1>4. MailTurn(c, d) /\ subscriber' = [subscriber EXCEPT !.deleted = TRUE, !.ver = @ + 1]
  BY <1>3 DEF SoftRemove
<1>5. subscriber \in ListRows /\ subscriber.ver \in Nat
  BY DEF MailInv, ListInv, ListSound, ListRows
<1>6. d \in ListCalls /\ d.at = "saved" /\ d.by = c.by /\ d.op = c.op
  BY <1>2, <1>3, MailAtType
<1>7. ListCallSound(d)'
  BY <1>1, <1>2, <1>6 DEF ListCallSound
<1>8. clicked' = clicked /\ jobs' = jobs /\ confirmPage' = confirmPage
  BY <1>1 DEF queueState, newsPages
<1>9. /\ subscriber' \in ListRows /\ subscriber'.ver = subscriber.ver + 1
      /\ subscriber'.token = subscriber.token /\ subscriber'.issued = subscriber.issued
      /\ subscriber'.verified = subscriber.verified /\ subscriber'.deleted = TRUE
  <2>1. PICK v : v = subscriber.ver + 1
    OBVIOUS
  <2>2. subscriber' = [subscriber EXCEPT !.deleted = TRUE, !.ver = v] /\ v \in Nat
    BY <1>4, <1>5, <2>1
  <2> QED
    BY <1>5, <2>1, <2>2 DEF ListRows
<1>10. ListSound'
  BY <1>1, <1>8, <1>9 DEF MailInv, ListInv, ListSound
<1> QED
  BY <1>1, <1>2, <1>4, <1>6, <1>7, <1>8, <1>9, <1>10, ListTurn, ListStep

\* What is queued is a new job, and e-mails of the list arrive instead.
LEMMA Enqueued ==
  ASSUME JobsSound, NEW kind, NEW token, Enqueue(kind, token),
         mailSide = "contact" => /\ kind \in {"contact-confirmation", "contact-notification"}
                                 /\ token \in Addresses \X Nat
  PROVE  /\ JobsSound'
         /\ mailSide # "contact" => jobs' = jobs
         /\ mailSide # "newsletter" => inbox' = inbox
<1>1. CASE /\ mailSide = "contact" /\ UNCHANGED inbox
           /\ jobs' = jobs \cup {[kind |-> kind, token |-> token, tries |-> 0, at |-> "waiting"]}
  <2>1. PICK j : j = [kind |-> kind, token |-> token, tries |-> 0, at |-> "waiting"]
    OBVIOUS
  <2>2. j \in MailJobs /\ j.tries < MaxAttempts
    BY <1>1, <2>1, MailAttemptsAssumption DEF MailJobs
  <2>3. jobs' = jobs \cup {j}
    BY <1>1, <2>1
  <2> QED
    BY <1>1, <2>2, <2>3 DEF JobsSound
<1>2. CASE mailSide = "newsletter" /\ UNCHANGED jobs
  BY <1>2 DEF JobsSound
<1>3. CASE UNCHANGED <<inbox, jobs>>
  BY <1>3 DEF JobsSound
<1> QED
  BY <1>1, <1>2, <1>3 DEF Enqueue

\* SendTemplateEmail.
LEMMA SendTemplateEmailStep ==
  ASSUME MailInv, NEW c \in mailCalls, SendTemplateEmail(c) PROVE MailInv'
<1>1. c.at = "saved" /\ UNCHANGED <<listState, newsPages, contactState>>
  BY DEF SendTemplateEmail
<1>2. c.op # "contact"
  BY <1>1 DEF MailInv, ContactFormInv, FormCallSound, CallsOfForm, FormCalls
<1>3. /\ c \in CallsOfList /\ c \in ListCalls /\ ListCallSound(c) /\ mailSide = "newsletter"
  BY <1>2, ListCallFacts
<1>4. PICK d : d = MailAt(c, "done")
  OBVIOUS
<1>5. MailTurn(c, d) /\ Enqueue(KindOf(c.op), c.token)
  BY <1>4 DEF SendTemplateEmail, MailDone
<1>6. d \in ListCalls /\ d.at = "done" /\ d.by = c.by /\ d.op = c.op
  BY <1>3, <1>4, MailAtType
<1>7. UNCHANGED <<mailSide, subscriber, tokenCount, clicked, leftAt, overwrote, confirmPage>>
  BY <1>1 DEF listState, newsPages
<1>8. ListCallSound(d)'
  BY <1>1, <1>3, <1>6, <1>7 DEF ListCallSound
<1>9. ListSound'
  BY <1>7 DEF MailInv, ListInv, ListSound
<1>10. jobs' = jobs
  BY <1>3, <1>5, Enqueued DEF MailInv
<1> QED
  BY <1>1, <1>3, <1>5, <1>6, <1>7, <1>8, <1>9, <1>10, ListTurn, ListStep

\* NewsletterAnswered.
LEMMA NewsletterAnsweredStep ==
  ASSUME MailInv, NEW c \in mailCalls, NEW lost \in BOOLEAN, NewsletterAnswered(c, lost)
  PROVE  MailInv'
<1>1. mailSide = "newsletter" /\ UNCHANGED <<listState, queueState, contactState>>
  BY DEF NewsletterAnswered
<1>2. c.op # "contact"
  BY <1>1 DEF MailInv, SidesApart, CallsOfForm
<1>3. c \in CallsOfList /\ c \in ListCalls /\ ListCallSound(c)
  BY <1>2, ListCallFacts
<1>4. PICK d : d = [c EXCEPT !.by = "client"]
  OBVIOUS
<1>5. /\ MailTurn(c, d) \/ mailCalls' = mailCalls \ {c}
      /\ confirmPage' = IF c.by # "confirmPage" THEN confirmPage
                        ELSE IF c.at = "done" /\ ~lost THEN "success" ELSE "error"
  BY <1>4 DEF NewsletterAnswered
<1>6. /\ d \in ListCalls /\ d.by = "client" /\ d.op = c.op /\ d.at = c.at /\ d.token = c.token
      /\ d.copy = c.copy /\ d.columns = c.columns /\ d.seen = c.seen
  BY <1>3, <1>4 DEF ListCalls
<1>7. UNCHANGED <<mailSide, subscriber, tokenCount, clicked, leftAt, overwrote, jobs>>
  BY <1>1 DEF listState, queueState
<1>13. ListCompared(c) => ListCompared(d)
  BY <1>6 DEF ListCompared, ListRow
<1>14. ListCompared(d) => ListCompared(d)'
  BY <1>7, ListComparedKept
<1>8. ListCallSound(d)'
  BY <1>3, <1>6, <1>7, <1>13, <1>14 DEF ListCallSound
<1>9. confirmPage' = "success" => clicked # {}
  BY <1>3, <1>5 DEF ListCallSound, MailInv, ListInv, ListSound
<1>10. ListSound'
  BY <1>7, <1>9 DEF MailInv, ListInv, ListSound
<1>11. CASE MailTurn(c, d)
  BY <1>1, <1>3, <1>6, <1>7, <1>8, <1>10, <1>11, ListTurn, ListStep
<1>12. CASE mailCalls' = mailCalls \ {c}
  <2>1. CallsOfForm' = CallsOfForm /\ CallsOfList' \subseteq CallsOfList
    BY <1>2, <1>12 DEF CallsOfForm, CallsOfList
  <2> QED
    BY <1>1, <1>7, <1>10, <2>1, ListStep
<1> QED
  BY <1>5, <1>11, <1>12

\* A request to the newsletter is sent.
LEMMA ListPosted ==
  ASSUME MailInv, mailSide = "newsletter", NEW by \in {"newsForm", "confirmPage", "client"},
         NEW op \in {"subscribe", "confirm", "unsubscribe"}, NEW t \in Nat,
         by = "confirmPage" => op = "confirm", op = "confirm" => t # 0,
         PostMail(by, op, t), UNCHANGED <<listState, queueState, contactState>>,
         confirmPage' \in {confirmPage, "loading"}
  PROVE  MailInv'
<1>1. PICK d : d = [by |-> by, op |-> op, token |-> t, at |-> "sent", copy |-> Nobody,
                      columns |-> {}, seen |-> 0]
  OBVIOUS
<1>2. mailCalls' = mailCalls \cup {d}
  BY <1>1 DEF PostMail, MailCall
<1>3. d \in ListCalls /\ d.by = by /\ d.op = op /\ d.token = t /\ d.at = "sent"
  BY <1>1, NobodyType DEF ListCalls
<1>4. ListCallSound(d)'
  BY <1>3 DEF ListCallSound
<1>5. UNCHANGED <<mailSide, subscriber, tokenCount, clicked, leftAt, overwrote, jobs>>
  BY DEF listState, queueState
<1>6. ListSound'
  BY <1>5 DEF MailInv, ListInv, ListSound
<1>7. CallsOfForm' = CallsOfForm /\ CallsOfList' = CallsOfList \cup {d}
  BY <1>2, <1>3 DEF CallsOfForm, CallsOfList
<1> QED
  BY <1>3, <1>4, <1>5, <1>6, <1>7, ListStep

\* SubmitNewsletter, OpenConfirmLink and PostUnsubscribe.
LEMMA ListPostSteps ==
  ASSUME MailInv,
         \/ SubmitNewsletter
         \/ \E t \in 1..tokenCount : OpenConfirmLink(t) \/ PostUnsubscribe(t)
  PROVE  MailInv'
<1>1. CASE SubmitNewsletter
  <2>1. /\ mailSide = "newsletter" /\ PostMail("newsForm", "subscribe", 0)
        /\ UNCHANGED <<listState, queueState, confirmPage, contactState>>
    BY <1>1 DEF SubmitNewsletter
  <2> QED
    BY <2>1, ListPosted
<1>2. ASSUME NEW t \in 1..tokenCount, OpenConfirmLink(t) PROVE MailInv'
  <2>1. /\ inbox # {} /\ PostMail("confirmPage", "confirm", t) /\ confirmPage' = "loading"
        /\ UNCHANGED <<listState, queueState, contactState>>
    BY <1>2 DEF OpenConfirmLink
  <2>2. mailSide = "newsletter"
    BY <2>1 DEF MailInv, SidesApart
  <2>3. t \in Nat /\ t # 0
    BY DEF MailInv, ListInv, ListSound
  <2> QED
    BY <2>1, <2>2, <2>3, ListPosted
<1>3. ASSUME NEW t \in 1..tokenCount, PostUnsubscribe(t) PROVE MailInv'
  <2>1. /\ inbox # {} /\ PostMail("client", "unsubscribe", t)
        /\ UNCHANGED <<listState, queueState, newsPages, contactState>>
    BY <1>3 DEF PostUnsubscribe
  <2>2. mailSide = "newsletter" /\ confirmPage' = confirmPage
    BY <2>1 DEF MailInv, SidesApart, newsPages
  <2>3. t \in Nat
    BY DEF MailInv, ListInv, ListSound
  <2> QED
    BY <2>1, <2>2, <2>3, ListPosted
<1> QED
  BY <1>1, <1>2, <1>3

\* Steps of the queue

\* Only jobs, the age of links and the loading of a form change.
LEMMA AsideStep ==
  ASSUME MailInv, JobsSound',
         UNCHANGED <<mailSide, subscriber, tokenCount, mailCalls, inbox, clicked, leftAt,
                     overwrote, confirmPage, contactState>>
  PROVE  MailInv'
<1>1. CallsOfList' = CallsOfList /\ CallsOfForm' = CallsOfForm
  BY DEF CallsOfList, CallsOfForm
<1>2. \A c : ListCallSound(c) => ListCallSound(c)'
  <2>1. \A c : ListCompared(c) => ListCompared(c)'
    BY ListComparedKept
  <2> QED
    BY <2>1 DEF ListCallSound
<1>3. ListInv'
  BY <1>1, <1>2 DEF MailInv, ListInv, ListSound
<1>4. SidesApart'
  BY <1>1 DEF MailInv, SidesApart, contactState
<1>5. ContactFormInv'
  BY <1>1, FormKept DEF MailInv
<1> QED
  BY <1>3, <1>4, <1>5 DEF MailInv

\* Deliver and HandleFailure.
LEMMA JobSteps ==
  ASSUME MailInv, NEW j \in jobs, Deliver(j) \/ HandleFailure(j) PROVE MailInv'
<1>1. /\ j.at = "waiting" /\ j \in MailJobs /\ j.tries \in Nat
      /\ UNCHANGED <<listState, mailCalls, inbox, newsPages, contactState>>
  BY DEF Deliver, HandleFailure, MailInv, JobsSound, MailJobs
<1>2. UNCHANGED <<mailSide, subscriber, tokenCount, mailCalls, inbox, clicked, leftAt,
                  overwrote, confirmPage, contactState>>
  BY <1>1 DEF listState, newsPages
<1>3. CASE Deliver(j)
  <2>1. jobs' \subseteq jobs
    BY <1>3 DEF Deliver, Requeue
  <2>2. JobsSound'
    BY <2>1 DEF MailInv, JobsSound
  <2> QED
    BY <1>2, <2>2, AsideStep
<1>4. CASE HandleFailure(j)
  <2>1. PICK f : f = [j EXCEPT !.tries = @ + 1]
    OBVIOUS
  <2>2. PICK g : g = [f EXCEPT !.at = "dead"]
    OBVIOUS
  <2>3. jobs' = (jobs \ {j}) \cup {IF Exhausted(f) THEN g ELSE f}
    BY <1>4, <2>1, <2>2 DEF HandleFailure, Requeue
  <2>4. f \in MailJobs /\ f.tries \in Nat
    <3>1. PICK n : n = j.tries + 1
      OBVIOUS
    <3>2. f = [j EXCEPT !.tries = n] /\ n \in Nat
      BY <1>1, <2>1, <3>1
    <3> QED
      BY <1>1, <3>2 DEF MailJobs
  <2>5. g \in MailJobs /\ g.at = "dead"
    BY <2>2, <2>4 DEF MailJobs
  <2>6. Exhausted(f) \/ f.tries < MaxAttempts
    BY <2>4, MailAttemptsAssumption DEF Exhausted
  <2>7. JobsSound'
    <3>1. CASE Exhausted(f)
      BY <2>3, <2>5, <3>1 DEF MailInv, JobsSound
    <3>2. CASE ~ Exhausted(f)
      BY <2>3, <2>4, <2>6, <3>2 DEF MailInv, JobsSound
    <3> QED
      BY <3>1, <3>2
  <2> QED
    BY <1>2, <2>7, AsideStep
<1> QED
  BY <1>3, <1>4

\* LinkExpires.
LEMMA LinkExpiresStep ==
  ASSUME MailInv, NEW t, LinkExpires(t) PROVE MailInv'
<1>1. UNCHANGED <<mailSide, subscriber, tokenCount, mailCalls, inbox, clicked, leftAt,
                  overwrote, confirmPage, contactState, jobs>>
  BY DEF LinkExpires, queueState, newsPages
<1>2. JobsSound'
  BY <1>1 DEF MailInv, JobsSound
<1> QED
  BY <1>1, <1>2, AsideStep

\* Steps of the contact form

\* The list knows nothing of the form.
LEMMA ContactStep ==
  ASSUME MailInv, mailSide = "contact", UNCHANGED contactRest, inbox' = inbox,
         CallsOfList' = CallsOfList, JobsSound', ContactFormInv'
  PROVE  MailInv'
<1>1. UNCHANGED <<mailSide, subscriber, tokenCount, clicked, leftAt, overwrote, confirmPage>>
  BY DEF contactRest, listState, newsPages
<1>2. CallsOfList = {} /\ inbox = {}
  BY DEF MailInv, SidesApart
<1>3. ListInv'
  BY <1>1, <1>2 DEF MailInv, ListInv, ListSound
<1>4. SidesApart'
  BY <1>1, <1>2 DEF SidesApart
<1> QED
  BY <1>3, <1>4 DEF MailInv

\* Facts of a request of the form.
LEMMA FormCallFacts ==
  ASSUME MailInv, NEW c \in mailCalls, c.op = "contact"
  PROVE  /\ c \in CallsOfForm /\ c \in FormCalls /\ FormCallSound(c) /\ mailSide = "contact"
         /\ c.token[1] \in Addresses /\ c.token[2] \in Nat
<1>1. c \in CallsOfForm
  BY DEF CallsOfForm
<1>2. c \in FormCalls /\ FormCallSound(c) /\ mailSide = "contact"
  BY <1>1 DEF MailInv, ContactFormInv, FormCallSound, SidesApart
<1>3. c.token \in Addresses \X Nat
  BY <1>2 DEF FormCalls
<1> QED
  BY <1>1, <1>2, <1>3

\* A request of the form goes on.
LEMMA ContactTurn ==
  ASSUME NEW c \in CallsOfForm, NEW d \in FormCalls, MailTurn(c, d)
  PROVE  /\ CallsOfForm' = (CallsOfForm \ {c}) \cup (IF Forgotten(d) THEN {} ELSE {d})
         /\ CallsOfList' = CallsOfList
<1>1. d.op = "contact" /\ c.op = "contact"
  BY DEF FormCalls, CallsOfForm
<1> QED
  BY <1>1 DEF MailTurn, CallsOfForm, CallsOfList

\* The counts of the form.
LEMMA FormCounts ==
  ASSUME ContactFormInv
  PROVE  /\ contactForm.sent \in Nat /\ contactForm.lost \in Nat /\ Asked \in Nat
         /\ Len(messages) \in Nat /\ IsFiniteSet(Unstored) /\ Cardinality(Unstored) \in Nat
         /\ contactForm.loading \in BOOLEAN
         /\ \A c \in CallsOfForm : c.token[2] \in Nat /\ c.token[1] \in Addresses
<1>1. contactForm \in ContactForms /\ messages \in Seq(Addresses) /\ IsFiniteSet(Unstored)
  BY DEF ContactFormInv
<1>2. \A c \in CallsOfForm : c.token \in Addresses \X Nat
  BY DEF ContactFormInv, FormCallSound, FormCalls
<1>3. \A c \in CallsOfForm : c.token[2] \in Nat /\ c.token[1] \in Addresses
  BY <1>2
<1>4. /\ contactForm.sent \in Nat /\ contactForm.lost \in Nat /\ contactForm.loading \in BOOLEAN
  BY <1>1 DEF ContactForms
<1>5. Asked \in Nat
  BY <1>4 DEF Asked
<1>6. Len(messages) \in Nat /\ Cardinality(Unstored) \in Nat
  BY <1>1, FS_CardinalityType
<1> QED
  BY <1>1, <1>3, <1>4, <1>5, <1>6

\* A request whose message is stored goes on, or is forgotten.
LEMMA StoredTurn ==
  ASSUME ContactFormInv, UNCHANGED contactState, NEW c \in CallsOfForm, NEW d \in FormCalls,
         c.at # "sent", d.at # "sent", d.token = c.token, d.by = c.by,
         CallsOfForm' \in {(CallsOfForm \ {c}) \cup {d}, CallsOfForm \ {c}}
  PROVE  ContactFormInv'
<1>1. contactForm' = contactForm /\ messages' = messages /\ Asked' = Asked
  BY DEF contactState, Asked
<1>2. Unstored' = Unstored
  BY DEF Unstored
<1>3. FormCallSound(c) /\ \A e \in CallsOfForm : FormCallSound(e)
  BY DEF ContactFormInv
<1>4. FormCallSound(d)
  BY <1>3 DEF FormCallSound
<1>5. \A e : FormCallSound(e) => FormCallSound(e)'
  BY <1>1 DEF FormCallSound
<1>6. \A e \in CallsOfForm' : FormCallSound(e)'
  BY <1>3, <1>4, <1>5
<1>7. \A e, f \in CallsOfForm' : e.token[2] = f.token[2] => e = f
  BY DEF ContactFormInv
<1> QED
  BY <1>1, <1>2, <1>6, <1>7 DEF ContactFormInv

\* SendContactConfirmation and SendContactNotification.
LEMMA ContactMailSteps ==
  ASSUME MailInv, NEW c \in mailCalls,
         SendContactConfirmation(c) \/ SendContactNotification(c)
  PROVE  MailInv'
<1>1. c.op = "contact" /\ UNCHANGED <<contactRest, contactState>>
  BY DEF SendContactConfirmation, SendContactNotification
<1>2. /\ c \in CallsOfForm /\ c \in FormCalls /\ FormCallSound(c) /\ mailSide = "contact"
  BY <1>1, FormCallFacts
<1>3. PICK d : d = [c EXCEPT !.at = "confirmed"]
  OBVIOUS
<1>4. PICK f : f = MailAt(c, "done")
  OBVIOUS
<1>5. /\ c.at \in {"stored", "confirmed"}
      /\ \E kind \in {"contact-confirmation", "contact-notification"} : Enqueue(kind, c.token)
      /\ MailTurn(c, d) \/ MailTurn(c, f)
  BY <1>3, <1>4 DEF SendContactConfirmation, SendContactNotification, MailDone
<1>6. /\ d \in FormCalls /\ d.at = "confirmed" /\ d.by = c.by /\ d.token = c.token
      /\ f \in FormCalls /\ f.at = "done" /\ f.by = c.by /\ f.token = c.token
  BY <1>2, <1>3, <1>4 DEF FormCalls, MailAt
<1>7. c.token \in Addresses \X Nat
  BY <1>2 DEF FormCalls
<1>8. JobsSound' /\ inbox' = inbox
  BY <1>2, <1>5, <1>7, Enqueued DEF MailInv
<1>9. CASE MailTurn(c, d)
  <2>1. /\ CallsOfForm' \in {(CallsOfForm \ {c}) \cup {d}, CallsOfForm \ {c}}
        /\ CallsOfList' = CallsOfList
    BY <1>2, <1>6, <1>9, ContactTurn
  <2>2. ContactFormInv'
    BY <1>1, <1>2, <1>5, <1>6, <2>1, StoredTurn DEF MailInv
  <2> QED
    BY <1>1, <1>2, <1>8, <2>1, <2>2, ContactStep
<1>10. CASE MailTurn(c, f)
  <2>1. /\ CallsOfForm' \in {(CallsOfForm \ {c}) \cup {f}, CallsOfForm \ {c}}
        /\ CallsOfList' = CallsOfList
    BY <1>2, <1>6, <1>10, ContactTurn
  <2>2. ContactFormInv'
    BY <1>1, <1>2, <1>5, <1>6, <2>1, StoredTurn DEF MailInv
  <2> QED
    BY <1>1, <1>2, <1>8, <2>1, <2>2, ContactStep
<1> QED
  BY <1>5, <1>9, <1>10

\* HandleInputChange and SendAnother.
LEMMA ContactFieldSteps ==
  ASSUME MailInv, SendAnother \/ \E a \in Addresses : HandleInputChange(a) PROVE MailInv'
<1>0. ContactFormInv
  BY DEF MailInv
<1>1. UNCHANGED <<contactRest, mailCalls, queueState, messages>>
  BY DEF SendAnother, HandleInputChange
<1>2. CallsOfForm' = CallsOfForm /\ CallsOfList' = CallsOfList /\ Unstored' = Unstored
  BY <1>1 DEF CallsOfForm, CallsOfList, Unstored
<1>3. JobsSound' /\ inbox' = inbox
  BY <1>1 DEF queueState, MailInv, JobsSound
<1>4. CASE SendAnother
  <2>1. /\ contactForm.shown = "sent"
        /\ contactForm' = [contactForm EXCEPT !.shown = "form", !.typed = ""]
    BY <1>4 DEF SendAnother
  <2>2. /\ contactForm' \in ContactForms /\ contactForm'.shown = "form"
        /\ contactForm'.loading = contactForm.loading /\ contactForm'.sent = contactForm.sent
        /\ contactForm'.lost = contactForm.lost
    BY <1>0, <2>1 DEF ContactFormInv, ContactForms
  <2>3. Asked' = Asked /\ ~ contactForm.loading
    BY <1>0, <2>1, <2>2 DEF Asked, ContactFormInv
  <2>4. \A e \in CallsOfForm : FormCallSound(e)'
    BY <1>0, <1>1, <2>2, <2>3 DEF ContactFormInv, FormCallSound
  <2>5. ContactFormInv'
    BY <1>0, <1>1, <1>2, <2>2, <2>3, <2>4 DEF ContactFormInv
  <2>6. CASE mailSide = "contact"
    BY <1>1, <1>2, <1>3, <2>5, <2>6, ContactStep
  <2>7. CASE mailSide # "contact"
    <3>1. UNCHANGED <<mailSide, subscriber, tokenCount, clicked, leftAt, overwrote, confirmPage>>
      BY <1>1 DEF contactRest, listState, newsPages
    <3>2. \A c : ListCallSound(c) => ListCallSound(c)'
      <4>1. \A c : ListCompared(c) => ListCompared(c)'
        BY <3>1, ListComparedKept
      <4> QED
        BY <3>1, <4>1 DEF ListCallSound
    <3>3. ListInv'
      BY <1>2, <3>1, <3>2 DEF MailInv, ListInv, ListSound
    <3>4. contactForm'.typed = ""
      BY <1>0, <2>1 DEF ContactFormInv, ContactForms
    <3>5. SidesApart'
      BY <1>2, <1>3, <3>1, <3>4 DEF MailInv, SidesApart
    <3> QED
      BY <1>3, <2>5, <3>3, <3>5 DEF MailInv
  <2> QED
    BY <2>6, <2>7
<1>5. ASSUME NEW a \in Addresses, HandleInputChange(a) PROVE MailInv'
  <2>1. /\ mailSide = "contact" /\ contactForm.shown = "form"
        /\ contactForm' = [contactForm EXCEPT !.typed = a, !.edited = TRUE]
    BY <1>5 DEF HandleInputChange
  <2>2. /\ contactForm' \in ContactForms /\ contactForm'.shown = "form"
        /\ contactForm'.loading = contactForm.loading /\ contactForm'.sent = contactForm.sent
        /\ contactForm'.lost = contactForm.lost /\ contactForm'.edited
    BY <1>0, <2>1 DEF ContactFormInv, ContactForms
  <2>3. Asked' = Asked
    BY <2>2 DEF Asked
  <2>4. \A e \in CallsOfForm : FormCallSound(e)'
    BY <1>0, <1>1, <2>2, <2>3 DEF ContactFormInv, FormCallSound
  <2>5. ContactFormInv'
    BY <1>0, <1>1, <1>2, <2>2, <2>3, <2>4 DEF ContactFormInv
  <2> QED
    BY <1>1, <1>2, <1>3, <2>1, <2>5, ContactStep
<1> QED
  BY <1>4, <1>5

\* HandleSubmit: the message has a number of its own.
LEMMA HandleSubmitStep ==
  ASSUME MailInv, HandleSubmit PROVE MailInv'
<1>0. ContactFormInv
  BY DEF MailInv
<1>1. /\ mailSide = "contact" /\ contactForm.shown = "form" /\ ~ contactForm.loading
      /\ contactForm.typed # ""
      /\ contactForm' = [contactForm EXCEPT !.loading = TRUE, !.edited = FALSE]
      /\ UNCHANGED <<contactRest, queueState, messages>>
  BY DEF HandleSubmit, Submittable, ValidateForm
<1>2. PICK d : d = [by |-> "contactForm", op |-> "contact",
                    token |-> <<contactForm.typed, Asked>>, at |-> "sent", copy |-> Nobody,
                    columns |-> {}, seen |-> 0]
  OBVIOUS
<1>3. mailCalls' = mailCalls \cup {d}
  BY <1>2 DEF HandleSubmit, PostMail, MailCall, Asked
<1>4. contactForm.typed \in Addresses
  BY <1>0, <1>1 DEF ContactFormInv, ContactForms
<1>5. /\ d \in FormCalls /\ d.by = "contactForm" /\ d.op = "contact" /\ d.at = "sent"
      /\ d.token[1] = contactForm.typed /\ d.token[2] = Asked
  BY <1>0, <1>2, <1>4, FormCounts DEF FormCalls
<1>6. CallsOfForm' = CallsOfForm \cup {d} /\ CallsOfList' = CallsOfList
      /\ Unstored' = Unstored \cup {d}
  BY <1>3, <1>5 DEF CallsOfForm, CallsOfList, Unstored
<1>7. /\ contactForm' \in ContactForms /\ contactForm'.shown = "form" /\ contactForm'.loading
      /\ contactForm'.typed = contactForm.typed /\ contactForm'.sent = contactForm.sent
      /\ contactForm'.lost = contactForm.lost
  BY <1>0, <1>1 DEF ContactFormInv, ContactForms
<1>8. Asked' = Asked /\ Asked \in Nat
  BY <1>0, <1>7, FormCounts DEF Asked
<1>9. \A e \in CallsOfForm : e.by # "contactForm" /\ e.token[2] # Asked
  BY <1>0, <1>1 DEF ContactFormInv, FormCallSound
<1>10. \A e \in CallsOfForm : FormCallSound(e)'
  BY <1>0, <1>1, <1>8, <1>9 DEF ContactFormInv, FormCallSound
<1>11. FormCallSound(d)'
  BY <1>5, <1>7, <1>8 DEF FormCallSound
<1>12. \A e, f \in CallsOfForm' : e.token[2] = f.token[2] => e = f
  BY <1>0, <1>5, <1>6, <1>9 DEF ContactFormInv
<1>13. IsFiniteSet(Unstored') /\ Cardinality(Unstored') = Cardinality(Unstored) + 1
  <2>1. d \notin Unstored
    BY <1>5, <1>9 DEF Unstored
  <2> QED
    BY <1>0, <1>6, <2>1, FormCounts, FS_AddElement
<1>14. Len(messages') + Cardinality(Unstored') <= Asked' + 1
  <2>1. Len(messages) + Cardinality(Unstored) <= Asked + 0
    BY <1>0, <1>1 DEF ContactFormInv
  <2>2. messages' = messages
    BY <1>1
  <2>3. Len(messages) \in Nat /\ Cardinality(Unstored) \in Nat
    BY <1>0, FormCounts
  <2> QED
    BY <1>8, <1>13, <2>1, <2>2, <2>3
<1>15. ContactFormInv'
  BY <1>0, <1>1, <1>6, <1>7, <1>10, <1>11, <1>12, <1>13, <1>14 DEF ContactFormInv
<1>16. JobsSound' /\ inbox' = inbox
  BY <1>1 DEF queueState, MailInv, JobsSound
<1> QED
  BY <1>1, <1>6, <1>15, <1>16, ContactStep

\* The addresses of a sequence after one is appended.
LEMMA AppendedSet ==
  ASSUME NEW s \in Seq(Addresses), NEW a \in Addresses
  PROVE  /\ Append(s, a) \in Seq(Addresses) /\ Len(Append(s, a)) = Len(s) + 1
         /\ ToSet(s) \subseteq ToSet(Append(s, a)) /\ a \in ToSet(Append(s, a))
<1>1. /\ Append(s, a) \in Seq(Addresses) /\ Len(Append(s, a)) = Len(s) + 1
      /\ Append(s, a)[Len(s) + 1] = a /\ Len(s) \in Nat
      /\ \A i \in 1..Len(s) : Append(s, a)[i] = s[i]
  OBVIOUS
<1>2. DOMAIN s = 1..Len(s) /\ DOMAIN Append(s, a) = 1..(Len(s) + 1)
  BY <1>1
<1>3. \A i \in DOMAIN s : i \in DOMAIN Append(s, a) /\ Append(s, a)[i] = s[i]
  BY <1>1, <1>2
<1>4. Len(s) + 1 \in DOMAIN Append(s, a)
  BY <1>1, <1>2
<1> QED
  BY <1>1, <1>3, <1>4 DEF ToSet

\* SubmitContact.
LEMMA SubmitContactStep ==
  ASSUME MailInv, NEW c \in mailCalls, SubmitContact(c) PROVE MailInv'
<1>0. ContactFormInv
  BY DEF MailInv
<1>1. /\ c.op = "contact" /\ c.at = "sent" /\ messages' = Append(messages, c.token[1])
      /\ UNCHANGED <<contactRest, queueState, contactForm>>
  BY DEF SubmitContact
<1>2. /\ c \in CallsOfForm /\ c \in FormCalls /\ FormCallSound(c) /\ mailSide = "contact"
      /\ c.token[1] \in Addresses /\ c.token[2] \in Nat
  BY <1>1, FormCallFacts
<1>3. PICK d : d = [c EXCEPT !.at = "stored"]
  OBVIOUS
<1>4. MailTurn(c, d)
  BY <1>3 DEF SubmitContact
<1>5. d \in FormCalls /\ d.at = "stored" /\ d.by = c.by /\ d.token = c.token
  BY <1>2, <1>3 DEF FormCalls
<1>6. CallsOfForm' = (CallsOfForm \ {c}) \cup {d} /\ CallsOfList' = CallsOfList
  BY <1>2, <1>4, <1>5, ContactTurn DEF Forgotten
<1>7. /\ messages' \in Seq(Addresses) /\ Len(messages') = Len(messages) + 1
      /\ ToSet(messages) \subseteq ToSet(messages') /\ c.token[1] \in ToSet(messages')
  BY <1>0, <1>1, <1>2, AppendedSet DEF ContactFormInv
<1>8. Asked' = Asked /\ contactForm' = contactForm
  BY <1>1 DEF Asked
<1>9. contactForm.sent < Len(messages') /\ Len(messages) < Len(messages')
  BY <1>0, <1>7, FormCounts DEF ContactFormInv
<1>10. \A e \in CallsOfForm : FormCallSound(e)'
  <2>1. ASSUME NEW e \in CallsOfForm PROVE FormCallSound(e)'
    <3>1. FormCallSound(e)
      BY <1>0 DEF ContactFormInv
    <3> QED
      BY <1>7, <1>8, <1>9, <3>1 DEF FormCallSound
  <2> QED
    BY <2>1
<1>11. FormCallSound(d)'
  BY <1>2, <1>5, <1>7, <1>8, <1>9 DEF FormCallSound
<1>12. \A e, f \in CallsOfForm' : e.token[2] = f.token[2] => e = f
  BY <1>0, <1>2, <1>5, <1>6 DEF ContactFormInv
<1>13. Unstored' = Unstored \ {c} /\ c \in Unstored
  BY <1>1, <1>2, <1>5, <1>6 DEF Unstored
<1>14. IsFiniteSet(Unstored') /\ Cardinality(Unstored') = Cardinality(Unstored) - 1
  BY <1>0, <1>13, FormCounts, FS_RemoveElement
<1>15. Len(messages') + Cardinality(Unstored') = Len(messages) + Cardinality(Unstored)
  BY <1>0, <1>7, <1>14, FormCounts
<1>16. contactForm.sent <= Len(messages')
  BY <1>0, <1>9, FormCounts
<1>17. ContactFormInv'
  BY <1>0, <1>6, <1>7, <1>8, <1>10, <1>11, <1>12, <1>14, <1>15, <1>16 DEF ContactFormInv
<1>18. JobsSound' /\ inbox' = inbox
  BY <1>1 DEF queueState, MailInv, JobsSound
<1> QED
  BY <1>1, <1>2, <1>6, <1>17, <1>18, ContactStep

\* ContactAnswered.
LEMMA ContactAnsweredStep ==
  ASSUME MailInv, NEW c \in mailCalls, NEW lost \in BOOLEAN, ContactAnswered(c, lost)
  PROVE  MailInv'
<1>0. ContactFormInv
  BY DEF MailInv
<1>1. /\ c.op = "contact" /\ c.by = "contactForm" /\ (c.at = "done" \/ lost)
      /\ UNCHANGED <<contactRest, queueState, messages>>
  BY DEF ContactAnswered
<1>2. /\ c \in CallsOfForm /\ c \in FormCalls /\ FormCallSound(c) /\ mailSide = "contact"
  BY <1>1, FormCallFacts
<1>3. /\ c.token[2] = Asked /\ contactForm.loading /\ contactForm.shown = "form"
      /\ ~ contactForm.edited => contactForm.typed = c.token[1]
      /\ c.at # "sent" => contactForm.sent < Len(messages) /\ c.token[1] \in ToSet(messages)
  BY <1>0, <1>1, <1>2 DEF FormCallSound, ContactFormInv
<1>4. \A e \in CallsOfForm : e # c => e.by # "contactForm" /\ e.token[2] # Asked
  BY <1>0, <1>2, <1>3 DEF ContactFormInv, FormCallSound
<1>5. PICK d : d = [c EXCEPT !.by = "client"]
  OBVIOUS
<1>6. d \in FormCalls /\ d.by = "client" /\ d.token = c.token /\ d.at = c.at
  BY <1>2, <1>5 DEF FormCalls
<1>7. /\ CallsOfForm' = (CallsOfForm \ {c}) \cup (IF c.at = "done" THEN {} ELSE {d})
      /\ CallsOfList' = CallsOfList
  <2>1. CASE c.at = "done"
    <3>1. mailCalls' = mailCalls \ {c}
      BY <2>1 DEF ContactAnswered
    <3> QED
      BY <1>1, <2>1, <3>1 DEF CallsOfForm, CallsOfList
  <2>2. CASE c.at # "done"
    <3>1. MailTurn(c, d)
      BY <1>5, <2>2 DEF ContactAnswered
    <3>2. ~ Forgotten(d)
      BY <1>2, <1>6, <2>2 DEF Forgotten, FormCalls
    <3> QED
      BY <1>2, <1>6, <2>2, <3>1, <3>2, ContactTurn
  <2> QED
    BY <2>1, <2>2
<1>8. /\ contactForm' \in ContactForms /\ ~ contactForm'.loading
      /\ contactForm'.typed = contactForm.typed /\ contactForm'.edited = contactForm.edited
      /\ \/ lost /\ contactForm'.shown = "form" /\ contactForm'.sent = contactForm.sent
            /\ contactForm'.lost = contactForm.lost + 1
         \/ ~ lost /\ contactForm'.shown = "sent" /\ contactForm'.sent = contactForm.sent + 1
            /\ contactForm'.lost = contactForm.lost
  <2>0. contactForm \in ContactForms
    BY <1>0 DEF ContactFormInv
  <2>1. CASE lost
    <3>1. PICK n : n = contactForm.lost + 1
      OBVIOUS
    <3>2. contactForm' = [contactForm EXCEPT !.loading = FALSE, !.lost = n] /\ n \in Nat
      BY <1>0, <2>1, <3>1, FormCounts DEF ContactAnswered
    <3> QED
      BY <1>3, <2>0, <2>1, <3>1, <3>2 DEF ContactForms
  <2>2. CASE ~ lost
    <3>1. PICK n : n = contactForm.sent + 1
      OBVIOUS
    <3>2. contactForm' = [contactForm EXCEPT !.loading = FALSE, !.shown = "sent", !.sent = n]
          /\ n \in Nat
      BY <1>0, <2>2, <3>1, FormCounts DEF ContactAnswered
    <3> QED
      BY <2>0, <2>2, <3>1, <3>2 DEF ContactForms
  <2> QED
    BY <2>1, <2>2
<1>9. Asked' = Asked + 1 /\ Asked \in Nat
  BY <1>0, <1>8, FormCounts DEF Asked
<1>10. messages' = messages
  BY <1>1
<1>11. ASSUME NEW e \in CallsOfForm, e # c PROVE FormCallSound(e)'
  <2>1. FormCallSound(e) /\ e.token[2] \in Nat /\ e.by # "contactForm"
    BY <1>0, <1>4, <1>11, FormCounts DEF ContactFormInv
  <2>2. e.token[2] < Asked'
    BY <1>9, <2>1 DEF FormCallSound
  <2> QED
    BY <1>9, <1>10, <2>1, <2>2 DEF FormCallSound
<1>12. FormCallSound(d)'
  <2>1. d.token[2] = Asked /\ (d.at # "sent" => d.token[1] \in ToSet(messages))
    BY <1>3, <1>6
  <2>2. d.token[2] <= Asked' /\ d.token[2] # Asked'
    BY <1>9, <2>1
  <2> QED
    BY <1>6, <1>10, <2>1, <2>2 DEF FormCallSound
<1>13. \A e \in CallsOfForm' : FormCallSound(e)'
  BY <1>7, <1>11, <1>12
<1>14. \A e, f \in CallsOfForm' : e.token[2] = f.token[2] => e = f
  BY <1>0, <1>2, <1>6, <1>7 DEF ContactFormInv
<1>15. IsFiniteSet(Unstored') /\ Cardinality(Unstored') <= Cardinality(Unstored)
       /\ Cardinality(Unstored') \in Nat
  <2>0. IsFiniteSet(Unstored) /\ Cardinality(Unstored) \in Nat
    BY <1>0, FormCounts
  <2>1. CASE c.at = "sent"
    <3>1. Unstored' = (Unstored \ {c}) \cup {d} /\ c \in Unstored
      BY <1>2, <1>6, <1>7, <2>1 DEF Unstored
    <3>2. IsFiniteSet(Unstored \ {c}) /\ Cardinality(Unstored \ {c}) = Cardinality(Unstored) - 1
      BY <2>0, <3>1, FS_RemoveElement
    <3>3. IsFiniteSet(Unstored') /\ Cardinality(Unstored') \in
              {Cardinality(Unstored \ {c}), Cardinality(Unstored \ {c}) + 1}
      BY <3>1, <3>2, FS_AddElement
    <3>4. Cardinality(Unstored') \in Nat
      BY <3>3, FS_CardinalityType
    <3> QED
      BY <2>0, <3>2, <3>3, <3>4
  <2>2. CASE c.at # "sent"
    <3>1. Unstored' = Unstored
      BY <1>2, <1>6, <1>7, <2>2 DEF Unstored
    <3> QED
      BY <2>0, <3>1
  <2> QED
    BY <2>1, <2>2
<1>16. Len(messages) + Cardinality(Unstored') <= Asked'
  <2>1. Len(messages) + Cardinality(Unstored) <= Asked + 1
    BY <1>0, <1>3 DEF ContactFormInv
  <2>2. Len(messages) \in Nat /\ Cardinality(Unstored) \in Nat
    BY <1>0, FormCounts
  <2> QED
    BY <1>9, <1>15, <2>1, <2>2
<1>17. contactForm'.sent <= Len(messages)
  <2>1. /\ contactForm.sent \in Nat /\ Len(messages) \in Nat
        /\ contactForm.sent <= Len(messages)
    BY <1>0, FormCounts DEF ContactFormInv
  <2>2. CASE lost
    BY <1>8, <2>1, <2>2
  <2>3. CASE ~ lost
    BY <1>1, <1>3, <1>8, <2>1, <2>3
  <2> QED
    BY <2>2, <2>3
<1>18. contactForm'.shown = "sent" /\ ~ contactForm'.edited =>
           contactForm'.typed \in ToSet(messages)
  BY <1>1, <1>3, <1>8
<1>19. ContactFormInv'
  <2>1. Len(messages') + Cardinality(Unstored') <=
            Asked' + (IF contactForm'.loading THEN 1 ELSE 0)
    BY <1>8, <1>9, <1>10, <1>16
  <2> QED
    BY <1>0, <1>8, <1>10, <1>13, <1>14, <1>15, <1>17, <1>18, <2>1 DEF ContactFormInv
<1>20. JobsSound' /\ inbox' = inbox
  BY <1>1 DEF queueState, MailInv, JobsSound
<1> QED
  BY <1>1, <1>2, <1>7, <1>19, <1>20, ContactStep

\* The theorem

LEMMA MailStepInv == MailInv /\ [MailNext]_mailVars => MailInv'
<1> SUFFICES ASSUME MailInv, [MailNext]_mailVars PROVE MailInv'
  OBVIOUS
<1>1. ASSUME NEW j \in jobs, Deliver(j) \/ HandleFailure(j) PROVE MailInv'
  BY <1>1, JobSteps
<1>2. ASSUME NEW c \in mailCalls,
             \/ LoadSubscriber(c) \/ ReloadSubscriber(c) \/ SaveSubscription(c)
             \/ SaveConfirmation(c) \/ SoftRemove(c) \/ SendTemplateEmail(c)
      PROVE  MailInv'
  BY <1>2, LoadSubscriberStep, ReloadSubscriberStep, SaveSubscriptionStep, SaveConfirmationStep, SoftRemoveStep,
     SendTemplateEmailStep
<1>3. ASSUME NEW c \in mailCalls,
             SubmitContact(c) \/ SendContactConfirmation(c) \/ SendContactNotification(c)
      PROVE  MailInv'
  BY <1>3, SubmitContactStep, ContactMailSteps
<1>4. ASSUME NEW c \in mailCalls, NEW lost \in BOOLEAN,
             NewsletterAnswered(c, lost) \/ ContactAnswered(c, lost)
      PROVE  MailInv'
  BY <1>4, NewsletterAnsweredStep, ContactAnsweredStep
<1>5. ASSUME NEW t \in 1..tokenCount, OpenConfirmLink(t) \/ PostUnsubscribe(t) PROVE MailInv'
  BY <1>5, ListPostSteps
<1>6. ASSUME NEW t \in 1..tokenCount, LinkExpires(t) PROVE MailInv'
  BY <1>6, LinkExpiresStep
<1>7. ASSUME NEW a \in Addresses, HandleInputChange(a) PROVE MailInv'
  BY <1>7, ContactFieldSteps
<1>8. CASE SubmitNewsletter
  BY <1>8, ListPostSteps
<1>9. CASE HandleSubmit
  BY <1>9, HandleSubmitStep
<1>10. CASE SendAnother
  BY <1>10, ContactFieldSteps
<1>11. CASE UNCHANGED mailVars
  <2>1. UNCHANGED <<mailSide, subscriber, tokenCount, mailCalls, jobs, inbox, clicked, leftAt,
                    overwrote, confirmPage, contactState>>
    BY <1>11 DEF mailVars, contactState
  <2>2. JobsSound'
    BY <2>1 DEF MailInv, JobsSound
  <2> QED
    BY <2>1, <2>2, AsideStep
<1>12. CASE MailNext
  BY <1>1, <1>2, <1>3, <1>4, <1>5, <1>6, <1>7, <1>8, <1>9, <1>10, <1>12 DEF MailNext
<1> QED
  BY <1>11, <1>12

\* Who is on the list and what they presented (of saves that were not torn), what
\* a page says of a confirmation and which messages are stored agree, for any
\* number of requests, tokens and attempts.
THEOREM MailAgrees == MailSpec => []MailConsistent
<1> QED
  BY MailInitInv, MailStepInv, MailInvConsistent, PTL DEF MailSpec

-----------------------------------------------------------------------------
\* The calls of the backend

ProviderCalls == Mutations \cup {"get_escrow"}
Transactions == [fn : ProviderCalls, id : EscrowIds, seq : Nat, at : BuildTimes]
Rpcs == [pc : {"idle", "account", "prepare", "send", "map", "poll", "note"},
         fn : ProviderCalls \cup {"none"}, id : EscrowIds \cup {"none"}, read : Nat,
         tx : Transactions \cup {NoTransaction}, answer : {"none", "error", "hash"}, made : Nat]

\* Transactions that succeeded.
Did(fn, id, tx) == tx.fn = fn /\ tx.id = id /\ [tx |-> tx, ok |-> TRUE] \in applied

\* A call that has a transaction has its own, and reports one that succeeded.
RpcSound(c) ==
    /\ c.pc # "idle" => c.id \in EscrowIds /\ c.fn \in ProviderCalls
    /\ c.pc \in {"send", "poll", "note"} =>
          /\ c.fn \in Mutations /\ c.tx \in Transactions /\ c.tx.fn = c.fn /\ c.tx.id = c.id
    /\ c.pc = "note" => c.fn = "create_escrow" /\ c.answer = "hash"
    /\ c.pc \in {"account", "prepare", "map", "send", "poll"} => c.answer = "none"
    /\ c.answer = "hash" => c.tx \in Transactions /\ Did(c.fn, c.id, c.tx)

\* Calls that have sent the creation of an escrow.
Creating(c, id) == c.pc \in {"poll", "note"} /\ c.fn = "create_escrow" /\ c.id = id

\* The backend knows of the escrow, or counted a failure, or will do either.
Accounted(id) ==
    \/ escrowNoted[id] # NoTransaction
    \/ [fn |-> "create_escrow", id |-> id] \in unsure
    \/ \E w \in EscrowCallers : Creating(rpcCalls[w], id)

EscrowTypes ==
    /\ sequence \in Nat /\ pool \subseteq Transactions
    /\ applied \subseteq [tx : Transactions, ok : BOOLEAN]
    /\ onChain \in [EscrowIds -> {"none", "Pending", "Released", "Refunded"}]
    /\ rpcCalls \in [EscrowCallers -> Rpcs]
    /\ escrowNoted \in [EscrowIds -> Transactions \cup {NoTransaction}]

\* The ledger applies one transaction per number.
NumbersUsed ==
    /\ IsFiniteSet(applied) /\ Cardinality(applied) = sequence
    /\ {e.tx.seq : e \in applied} = 1..sequence

\* The state of an escrow comes from what succeeded.
ChainExplained ==
    /\ \A tx \in pool : tx.fn \in Mutations
    /\ \A e \in applied : e.ok =>
          /\ e.tx.fn = "create_escrow" => onChain[e.tx.id] # "none"
          /\ e.tx.fn = "release" => onChain[e.tx.id] = "Released"
          /\ e.tx.fn = "refund" => onChain[e.tx.id] = "Refunded"
    /\ \A id \in EscrowIds : onChain[id] # "none" =>
          \E e \in applied : e.ok /\ e.tx.fn = "create_escrow" /\ e.tx.id = id
    /\ \A e, f \in applied :
          /\ e.ok /\ f.ok /\ e.tx.id = f.tx.id
          /\ \/ e.tx.fn = "create_escrow" /\ f.tx.fn = "create_escrow"
             \/ e.tx.fn \in {"release", "refund"} /\ f.tx.fn \in {"release", "refund"}
          => e = f

BackendSound ==
    /\ \A w \in EscrowCallers : RpcSound(rpcCalls[w])
    /\ \A id \in EscrowIds : escrowNoted[id] # NoTransaction =>
          Did("create_escrow", id, escrowNoted[id])
    /\ \A tx \in pool : tx.fn = "create_escrow" => Accounted(tx.id)
    /\ \A id \in EscrowIds : onChain[id] # "none" => Accounted(id)
    /\ stellarNetwork # "known" => pool = {} /\ applied = {}

EscrowInv == EscrowTypes /\ NumbersUsed /\ ChainExplained /\ BackendSound

\* A call that was not made.
LEMMA NoRpcType == NoRpc \in Rpcs /\ NoRpc.pc = "idle" /\ NoRpc.answer = "none"
  BY DEF NoRpc, Rpcs

LEMMA EscrowInitInv == EscrowClientInit => EscrowInv
<1> SUFFICES ASSUME EscrowClientInit PROVE EscrowInv
  OBVIOUS
<1>1. /\ sequence = 0 /\ pool = {} /\ applied = {} /\ onChain = [id \in EscrowIds |-> "none"]
      /\ rpcCalls = [w \in EscrowCallers |-> NoRpc]
      /\ escrowNoted = [id \in EscrowIds |-> NoTransaction]
  BY DEF EscrowClientInit
<1>2. EscrowTypes
  BY <1>1, NoRpcType DEF EscrowTypes
<1>3. NumbersUsed
  BY <1>1, FS_EmptySet DEF NumbersUsed
<1>4. ChainExplained
  BY <1>1 DEF ChainExplained
<1>5. RpcSound(NoRpc)
  BY NoRpcType DEF RpcSound
<1>6. BackendSound
  BY <1>1, <1>5 DEF BackendSound
<1> QED
  BY <1>2, <1>3, <1>4, <1>6 DEF EscrowInv

\* Steps of the provider

\* A call goes on: what it creates stays accounted for, and what it sends is.
LEMMA CallStep ==
  ASSUME EscrowInv, NEW w \in EscrowCallers, NEW d \in Rpcs, RpcSound(d), Continues(w, d),
         UNCHANGED <<stellarNetwork, sequence, applied, onChain>>,
         unsure \subseteq unsure',
         escrowNoted' \in [EscrowIds -> Transactions \cup {NoTransaction}],
         \A id \in EscrowIds : 
             \/ escrowNoted'[id] = escrowNoted[id]
             \/ escrowNoted'[id] # NoTransaction /\ Did("create_escrow", id, escrowNoted'[id]),
         \A id \in EscrowIds : Creating(rpcCalls[w], id) => Accounted(id)',
         \/ pool' = pool
         \/ \E tx \in Transactions :
               /\ pool' = pool \cup {tx} /\ tx.fn \in Mutations /\ stellarNetwork = "known"
               /\ tx.fn = "create_escrow" => Accounted(tx.id)'
  PROVE  EscrowInv'
<1>1. /\ rpcCalls' \in [EscrowCallers -> Rpcs] /\ rpcCalls'[w] = d
      /\ \A v \in EscrowCallers \ {w} : rpcCalls'[v] = rpcCalls[v]
  BY DEF EscrowInv, EscrowTypes, Continues
<1>2. \A fn, id, tx : Did(fn, id, tx)' <=> Did(fn, id, tx)
  BY DEF Did
<1>3. pool' \subseteq Transactions /\ \A tx \in pool' : tx.fn \in Mutations
  BY DEF EscrowInv, EscrowTypes, ChainExplained
<1>4. EscrowTypes'
  BY <1>1, <1>3 DEF EscrowInv, EscrowTypes
<1>5. NumbersUsed'
  BY DEF EscrowInv, NumbersUsed
<1>6. ChainExplained'
  BY <1>3 DEF EscrowInv, ChainExplained
<1>7. ASSUME NEW id \in EscrowIds, Accounted(id) PROVE Accounted(id)'
  <2>1. CASE escrowNoted[id] # NoTransaction
    BY <2>1 DEF Accounted
  <2>2. CASE [fn |-> "create_escrow", id |-> id] \in unsure
    BY <2>2 DEF Accounted
  <2>3. CASE \E v \in EscrowCallers : Creating(rpcCalls[v], id)
    <3>1. PICK v \in EscrowCallers : Creating(rpcCalls[v], id)
      BY <2>3
    <3>2. CASE v = w
      BY <3>1, <3>2
    <3>3. CASE v # w
      <4>1. Creating(rpcCalls'[v], id)
        BY <1>1, <3>1, <3>3
      <4> QED
        BY <4>1 DEF Accounted, Creating
    <3> QED
      BY <3>2, <3>3
  <2> QED
    BY <1>7, <2>1, <2>2, <2>3 DEF Accounted
<1>8. \A v \in EscrowCallers : RpcSound(rpcCalls[v])'
  <2>1. \A c : RpcSound(c) => RpcSound(c)'
    BY <1>2 DEF RpcSound
  <2>2. \A v \in EscrowCallers : RpcSound(rpcCalls'[v])
    BY <1>1 DEF EscrowInv, BackendSound
  <2> QED
    BY <1>2, <2>2 DEF RpcSound
<1>9. \A id \in EscrowIds : escrowNoted'[id] # NoTransaction =>
          Did("create_escrow", id, escrowNoted[id])'
  BY <1>2 DEF EscrowInv, BackendSound, Did
<1>10. \A tx \in pool' : tx.fn = "create_escrow" => Accounted(tx.id)'
  <2>1. \A tx \in pool : tx.id \in EscrowIds
    BY DEF EscrowInv, EscrowTypes, Transactions
  <2>2. \A tx \in pool : tx.fn = "create_escrow" => Accounted(tx.id)'
    BY <1>7, <2>1 DEF EscrowInv, BackendSound
  <2> QED
    BY <2>2
<1>11. \A id \in EscrowIds : onChain'[id] # "none" => Accounted(id)'
  BY <1>7 DEF EscrowInv, BackendSound
<1>12. stellarNetwork' # "known" => pool' = {} /\ applied' = {}
  BY DEF EscrowInv, BackendSound
<1>13. BackendSound'
  BY <1>8, <1>9, <1>10, <1>11, <1>12 DEF BackendSound
<1> QED
  BY <1>4, <1>5, <1>6, <1>13 DEF EscrowInv

\* A call whose failure is thrown holds nothing.
LEMMA ThrownCall ==
  ASSUME NEW c, c.made \in Nat
  PROVE  Thrown(c) \in Rpcs /\ Thrown(c).pc = "idle" /\ RpcSound(Thrown(c))
<1>1. PICK d : d = [NoRpc EXCEPT !.answer = "error", !.made = c.made]
  OBVIOUS
<1>2. d \in Rpcs /\ d.pc = "idle" /\ d.answer = "error"
  BY <1>1 DEF NoRpc, Rpcs
<1> QED
  BY <1>1, <1>2 DEF Thrown, RpcSound

\* A call that goes on with nothing of its own on the network.
LEMMA QuietCallStep ==
  ASSUME EscrowInv, NEW w \in EscrowCallers, NEW d \in Rpcs, RpcSound(d), Continues(w, d),
         UNCHANGED <<stellarNetwork, ledgerState, escrowNoted, unsure>>,
         rpcCalls[w].pc \notin {"poll", "note"}
  PROVE  EscrowInv'
<1>1. /\ UNCHANGED <<stellarNetwork, sequence, applied, onChain>>
      /\ pool' = pool /\ unsure' = unsure /\ escrowNoted' = escrowNoted
  BY DEF ledgerState
<1>2. \A id \in EscrowIds : Creating(rpcCalls[w], id) => Accounted(id)'
  BY DEF Creating
<1>3. escrowNoted' \in [EscrowIds -> Transactions \cup {NoTransaction}]
  BY <1>1 DEF EscrowInv, EscrowTypes
<1>4. \A id \in EscrowIds : 
             \/ escrowNoted'[id] = escrowNoted[id]
             \/ escrowNoted'[id] # NoTransaction /\ Did("create_escrow", id, escrowNoted'[id])
  <2>1. escrowNoted' = escrowNoted
    BY <1>1
  <2>2. \A id \in EscrowIds : escrowNoted'[id] = escrowNoted[id]
    BY <2>1
  <2> QED
    BY <2>2
<1>5. unsure \subseteq unsure'
  BY <1>1
<1>6. \/ pool' = pool
      \/ \E tx \in Transactions :
               /\ pool' = pool \cup {tx} /\ tx.fn \in Mutations /\ stellarNetwork = "known"
               /\ tx.fn = "create_escrow" => Accounted(tx.id)'
  BY <1>1
<1> QED
  BY <1>1, <1>2, <1>3, <1>4, <1>5, <1>6, CallStep

\* A call that fails with nothing of its own on the network.
LEMMA FailsUnsentStep ==
  ASSUME EscrowInv, NEW w \in EscrowCallers, NEW c, c.made \in Nat, FailsUnsent(w, c),
         UNCHANGED <<stellarNetwork, ledgerState, escrowNoted>>,
         rpcCalls[w].pc \notin {"poll", "note"}
  PROVE  EscrowInv'
<1>1. PICK d : d = Thrown(c)
  OBVIOUS
<1>2. d \in Rpcs /\ RpcSound(d)
  BY <1>1, ThrownCall
<1>3. Continues(w, d) /\ UNCHANGED <<stellarNetwork, ledgerState, escrowNoted, unsure>>
  BY <1>1 DEF FailsUnsent
<1> QED
  BY <1>2, <1>3, QuietCallStep

\* StartCall.
LEMMA StartCallStep ==
  ASSUME EscrowInv, NEW w \in EscrowCallers, NEW fn \in ProviderCalls, NEW id \in EscrowIds,
         NEW valid \in BOOLEAN, StartCall(w, fn, id, valid)
  PROVE  EscrowInv'
<1>1. rpcCalls[w] \in Rpcs /\ rpcCalls[w].made \in Nat
  BY DEF EscrowInv, EscrowTypes, Rpcs
<1>0. PICK m : m = rpcCalls[w].made + 1
  OBVIOUS
<1>2. PICK c : c = [NoRpc EXCEPT !.fn = fn, !.id = id, !.made = m]
  OBVIOUS
<1>3. PICK d : d = [c EXCEPT !.pc = "account"]
  OBVIOUS
<1>4. /\ rpcCalls[w].pc = "idle"
      /\ \/ Continues(w, d) /\ UNCHANGED unsure
         \/ FailsUnsent(w, c)
      /\ UNCHANGED <<stellarNetwork, ledgerState, escrowNoted>>
  BY <1>0, <1>2, <1>3 DEF StartCall
<1>5. /\ c = [pc |-> "idle", fn |-> fn, id |-> id, read |-> 0, tx |-> NoTransaction,
               answer |-> "none", made |-> m]
      /\ c.made \in Nat
  <2>1. c = [pc |-> "idle", fn |-> fn, id |-> id, read |-> 0, tx |-> NoTransaction,
             answer |-> "none", made |-> m]
    BY <1>2 DEF NoRpc
  <2>2. m \in Nat
    BY <1>0, <1>1
  <2> QED
    BY <2>1, <2>2
<1>6. CASE Continues(w, d) /\ UNCHANGED unsure
  <2>1. d \in Rpcs /\ d.pc = "account" /\ d.fn = fn /\ d.id = id /\ d.answer = "none"
    BY <1>0, <1>1, <1>3, <1>5 DEF Rpcs
  <2>2. RpcSound(d)
    BY <2>1 DEF RpcSound
  <2> QED
    BY <1>4, <1>6, <2>1, <2>2, QuietCallStep
<1>7. CASE FailsUnsent(w, c)
  BY <1>4, <1>5, <1>7, FailsUnsentStep
<1> QED
  BY <1>4, <1>6, <1>7

\* GetSourceAccount.
LEMMA GetSourceAccountStep ==
  ASSUME EscrowInv, NEW w \in EscrowCallers, GetSourceAccount(w)
  PROVE  EscrowInv'
<1>1. PICK c : c = rpcCalls[w]
  OBVIOUS
<1>2. c \in Rpcs /\ RpcSound(c) /\ c.made \in Nat
  BY <1>1 DEF EscrowInv, EscrowTypes, BackendSound, Rpcs
<1>3. PICK d : d = [c EXCEPT !.pc = "prepare", !.read = sequence]
  OBVIOUS
<1>4. /\ c.pc = "account"
      /\ \/ Continues(w, d) /\ UNCHANGED unsure
         \/ FailsUnsent(w, c)
      /\ UNCHANGED <<stellarNetwork, ledgerState, escrowNoted>>
  BY <1>1, <1>3 DEF GetSourceAccount
<1>5. CASE Continues(w, d) /\ UNCHANGED unsure
  <2>1. d \in Rpcs
    BY <1>2, <1>3 DEF Rpcs, EscrowInv, EscrowTypes
  <2>2. /\ d.pc = "prepare" /\ d.fn = c.fn /\ d.id = c.id /\ d.answer = c.answer /\ d.tx = c.tx
    BY <1>2, <1>3 DEF Rpcs
  <2>3. RpcSound(d)
    BY <1>2, <1>4, <2>2 DEF RpcSound
  <2> QED
    BY <1>1, <1>4, <1>5, <2>1, <2>3, QuietCallStep
<1>6. CASE FailsUnsent(w, c)
  BY <1>1, <1>2, <1>4, <1>6, FailsUnsentStep
<1> QED
  BY <1>4, <1>5, <1>6

\* PrepareTransaction.
LEMMA PrepareTransactionStep ==
  ASSUME EscrowInv, NEW w \in EscrowCallers, NEW second \in BuildTimes,
         PrepareTransaction(w, second)
  PROVE  EscrowInv'
<1>1. PICK c : c = rpcCalls[w]
  OBVIOUS
<1>2. c \in Rpcs /\ RpcSound(c) /\ c.made \in Nat
  BY <1>1 DEF EscrowInv, EscrowTypes, BackendSound, Rpcs
<1>3. PICK tx : tx = [fn |-> c.fn, id |-> c.id, seq |-> c.read + 1, at |-> second]
  OBVIOUS
<1>4. PICK d : d = [c EXCEPT !.tx = tx, !.read = 0,
                             !.pc = IF c.fn \in Mutations THEN "send" ELSE "map"]
  OBVIOUS
<1>5. /\ c.pc = "prepare"
      /\ \/ Continues(w, d) /\ UNCHANGED unsure
         \/ FailsUnsent(w, c)
      /\ UNCHANGED <<stellarNetwork, ledgerState, escrowNoted>>
  BY <1>1, <1>3, <1>4 DEF PrepareTransaction
<1>6. c.fn \in ProviderCalls /\ c.id \in EscrowIds
  BY <1>2, <1>5 DEF RpcSound
<1>7. tx \in Transactions /\ tx.fn = c.fn /\ tx.id = c.id
  BY <1>2, <1>3, <1>6 DEF Transactions, Rpcs
<1>8. CASE Continues(w, d) /\ UNCHANGED unsure
  <2>1. d \in Rpcs
    BY <1>2, <1>4, <1>7 DEF Rpcs
  <2>2. /\ d.pc = (IF c.fn \in Mutations THEN "send" ELSE "map")
        /\ d.fn = c.fn /\ d.id = c.id /\ d.answer = c.answer /\ d.tx = tx
    BY <1>2, <1>4 DEF Rpcs
  <2>3. c.answer = "none"
    BY <1>2, <1>5 DEF RpcSound
  <2>4. RpcSound(d)
    BY <1>6, <1>7, <2>2, <2>3 DEF RpcSound
  <2> QED
    BY <1>1, <1>5, <1>8, <2>1, <2>4, QuietCallStep
<1>9. CASE FailsUnsent(w, c)
  BY <1>1, <1>2, <1>5, <1>9, FailsUnsentStep
<1> QED
  BY <1>5, <1>8, <1>9

\* MapStatus.
LEMMA MapStatusStep ==
  ASSUME EscrowInv, NEW w \in EscrowCallers, MapStatus(w)
  PROVE  EscrowInv'
<1>1. rpcCalls[w].made \in Nat
  BY DEF EscrowInv, EscrowTypes, Rpcs
<1> QED
  BY <1>1, FailsUnsentStep DEF MapStatus

\* A call that fails after it has sent is counted.
LEMMA FailsSentStep ==
  ASSUME EscrowInv, NEW w \in EscrowCallers, FailsSent(w, rpcCalls[w]),
         UNCHANGED <<stellarNetwork, sequence, applied, onChain, escrowNoted>>,
         \/ pool' = pool
         \/ /\ pool' = pool \cup {rpcCalls[w].tx} /\ stellarNetwork = "known"
            /\ rpcCalls[w].pc = "send"
  PROVE  EscrowInv'
<1>1. PICK c : c = rpcCalls[w]
  OBVIOUS
<1>2. c \in Rpcs /\ RpcSound(c) /\ c.made \in Nat
  BY <1>1 DEF EscrowInv, EscrowTypes, BackendSound, Rpcs
<1>3. PICK d : d = Thrown(c)
  OBVIOUS
<1>4. d \in Rpcs /\ RpcSound(d)
  BY <1>2, <1>3, ThrownCall
<1>5. Continues(w, d) /\ unsure' = unsure \cup {[fn |-> c.fn, id |-> c.id]}
  BY <1>1, <1>3 DEF FailsSent
<1>6. ASSUME NEW id \in EscrowIds, c.fn = "create_escrow", c.id = id PROVE Accounted(id)'
  BY <1>5, <1>6 DEF Accounted
<1>7. \A id \in EscrowIds : Creating(rpcCalls[w], id) => Accounted(id)'
  BY <1>1, <1>6 DEF Creating
<1>8. escrowNoted' = escrowNoted
  OBVIOUS
<1>9. /\ escrowNoted' \in [EscrowIds -> Transactions \cup {NoTransaction}]
      /\ \A id \in EscrowIds :
             \/ escrowNoted'[id] = escrowNoted[id]
             \/ escrowNoted'[id] # NoTransaction /\ Did("create_escrow", id, escrowNoted'[id])
  BY <1>8 DEF EscrowInv, EscrowTypes
<1>10. \/ pool' = pool
       \/ \E tx \in Transactions :
               /\ pool' = pool \cup {tx} /\ tx.fn \in Mutations /\ stellarNetwork = "known"
               /\ tx.fn = "create_escrow" => Accounted(tx.id)'
  <2>1. CASE pool' = pool \cup {c.tx} /\ stellarNetwork = "known" /\ c.pc = "send"
    <3>1. c.tx \in Transactions /\ c.tx.fn \in Mutations /\ c.tx.fn = c.fn /\ c.tx.id = c.id
      BY <1>2, <2>1 DEF RpcSound
    <3>2. c.id \in EscrowIds
      BY <1>2, <2>1 DEF RpcSound
    <3>3. c.tx.fn = "create_escrow" => Accounted(c.tx.id)'
      BY <1>6, <3>1, <3>2
    <3> QED
      BY <2>1, <3>1, <3>3
  <2> QED
    BY <1>1, <2>1
<1>11. unsure \subseteq unsure'
  BY <1>5
<1> QED
  BY <1>4, <1>5, <1>7, <1>9, <1>10, <1>11, CallStep

\* SendTransaction.
LEMMA SendTransactionStep ==
  ASSUME EscrowInv, NEW w \in EscrowCallers, SendTransaction(w)
  PROVE  EscrowInv'
<1>1. PICK c : c = rpcCalls[w]
  OBVIOUS
<1>2. c \in Rpcs /\ RpcSound(c)
  BY <1>1 DEF EscrowInv, EscrowTypes, BackendSound
<1>3. PICK d : d = [c EXCEPT !.pc = "poll"]
  OBVIOUS
<1>4. /\ c.pc = "send"
      /\ \/ stellarNetwork = "known" /\ pool' = pool \cup {c.tx}
         \/ pool' = pool
      /\ \/ Continues(w, d) /\ UNCHANGED unsure
         \/ FailsSent(w, c)
      /\ UNCHANGED <<stellarNetwork, sequence, applied, onChain, escrowNoted>>
  BY <1>1, <1>3 DEF SendTransaction, Understood
<1>5. CASE Continues(w, d) /\ UNCHANGED unsure
  <2>1. /\ c.fn \in Mutations /\ c.tx \in Transactions /\ c.tx.fn = c.fn /\ c.tx.id = c.id
        /\ c.id \in EscrowIds /\ c.fn \in ProviderCalls /\ c.answer = "none"
    BY <1>2, <1>4 DEF RpcSound
  <2>2. /\ d.pc = "poll" /\ d.fn = c.fn /\ d.id = c.id /\ d.tx = c.tx /\ d.answer = c.answer
        /\ d \in Rpcs
    BY <1>2, <1>3 DEF Rpcs
  <2>3. RpcSound(d)
    BY <2>1, <2>2 DEF RpcSound
  <2>4. rpcCalls'[w] = d
    BY <1>5 DEF Continues, EscrowInv, EscrowTypes
  <2>5. c.tx.fn = "create_escrow" => Accounted(c.tx.id)'
    BY <2>1, <2>2, <2>4 DEF Accounted, Creating
  <2>6. \A id \in EscrowIds : Creating(rpcCalls[w], id) => Accounted(id)'
    BY <1>1, <1>4 DEF Creating
  <2>7. escrowNoted' = escrowNoted /\ unsure \subseteq unsure'
    BY <1>4, <1>5
  <2>8. /\ escrowNoted' \in [EscrowIds -> Transactions \cup {NoTransaction}]
        /\ \A id \in EscrowIds :
             \/ escrowNoted'[id] = escrowNoted[id]
             \/ escrowNoted'[id] # NoTransaction /\ Did("create_escrow", id, escrowNoted'[id])
    BY <2>7 DEF EscrowInv, EscrowTypes
  <2>9. \/ pool' = pool
        \/ \E tx \in Transactions :
               /\ pool' = pool \cup {tx} /\ tx.fn \in Mutations /\ stellarNetwork = "known"
               /\ tx.fn = "create_escrow" => Accounted(tx.id)'
    BY <1>4, <2>1, <2>5
  <2>10. UNCHANGED <<stellarNetwork, sequence, applied, onChain>>
    BY <1>4
  <2> QED
    BY <1>5, <2>2, <2>3, <2>6, <2>7, <2>8, <2>9, <2>10, CallStep
<1>6. CASE FailsSent(w, c)
  BY <1>1, <1>4, <1>6, FailsSentStep
<1> QED
  BY <1>4, <1>5, <1>6

\* PollTransaction.
LEMMA PollTransactionStep ==
  ASSUME EscrowInv, NEW w \in EscrowCallers, PollTransaction(w)
  PROVE  EscrowInv'
<1>1. PICK c : c = rpcCalls[w]
  OBVIOUS
<1>2. c \in Rpcs /\ RpcSound(c)
  BY <1>1 DEF EscrowInv, EscrowTypes, BackendSound
<1>3. PICK d : d = [c EXCEPT !.answer = "hash",
                             !.pc = IF c.fn = "create_escrow" THEN "note" ELSE "idle"]
  OBVIOUS
<1>4. /\ c.pc = "poll"
      /\ \/ Settled(c.tx) /\ Continues(w, d) /\ UNCHANGED unsure
         \/ FailsSent(w, c)
      /\ UNCHANGED <<stellarNetwork, ledgerState, escrowNoted>>
  BY <1>1, <1>3 DEF PollTransaction
<1>5. CASE Settled(c.tx) /\ Continues(w, d) /\ UNCHANGED unsure
  <2>1. /\ c.fn \in Mutations /\ c.tx \in Transactions /\ c.tx.fn = c.fn /\ c.tx.id = c.id
        /\ c.id \in EscrowIds /\ c.fn \in ProviderCalls
    BY <1>2, <1>4 DEF RpcSound
  <2>2. [tx |-> c.tx, ok |-> TRUE] \in applied
    BY <1>5 DEF Settled, StatusOf
  <2>3. /\ d.pc = (IF c.fn = "create_escrow" THEN "note" ELSE "idle")
        /\ d.fn = c.fn /\ d.id = c.id /\ d.tx = c.tx /\ d.answer = "hash"
        /\ d \in Rpcs
    BY <1>2, <1>3 DEF Rpcs
  <2>4. RpcSound(d)
    BY <2>1, <2>2, <2>3 DEF RpcSound, Did
  <2>5. rpcCalls'[w] = d
    BY <1>5 DEF Continues, EscrowInv, EscrowTypes
  <2>6. \A id \in EscrowIds : Creating(rpcCalls[w], id) => Accounted(id)'
    BY <1>1, <2>3, <2>5 DEF Accounted, Creating
  <2>7. /\ escrowNoted' = escrowNoted /\ unsure \subseteq unsure' /\ pool' = pool
        /\ UNCHANGED <<stellarNetwork, sequence, applied, onChain>>
    BY <1>4, <1>5 DEF ledgerState
  <2>8. /\ escrowNoted' \in [EscrowIds -> Transactions \cup {NoTransaction}]
        /\ \A id \in EscrowIds :
             \/ escrowNoted'[id] = escrowNoted[id]
             \/ escrowNoted'[id] # NoTransaction /\ Did("create_escrow", id, escrowNoted'[id])
    BY <2>7 DEF EscrowInv, EscrowTypes
  <2> QED
    BY <1>5, <2>3, <2>4, <2>6, <2>7, <2>8, CallStep
<1>6. CASE FailsSent(w, c)
  <2>1. pool' = pool /\ UNCHANGED <<stellarNetwork, sequence, applied, onChain, escrowNoted>>
    BY <1>4 DEF ledgerState
  <2> QED
    BY <1>1, <1>6, <2>1, FailsSentStep
<1> QED
  BY <1>4, <1>5, <1>6

\* NoteEscrow.
LEMMA NoteEscrowStep ==
  ASSUME EscrowInv, NEW w \in EscrowCallers, NoteEscrow(w)
  PROVE  EscrowInv'
<1>1. PICK c : c = rpcCalls[w]
  OBVIOUS
<1>2. c \in Rpcs /\ RpcSound(c)
  BY <1>1 DEF EscrowInv, EscrowTypes, BackendSound
<1>3. PICK d : d = [c EXCEPT !.pc = "idle"]
  OBVIOUS
<1>4. /\ c.pc = "note"
      /\ \/ /\ escrowNoted' = [escrowNoted EXCEPT ![c.id] = c.tx]
            /\ Continues(w, d) /\ UNCHANGED unsure
         \/ escrowNoted' = escrowNoted /\ FailsSent(w, c)
      /\ UNCHANGED <<stellarNetwork, ledgerState>>
  BY <1>1, <1>3 DEF NoteEscrow
<1>5. /\ c.tx \in Transactions /\ Did(c.fn, c.id, c.tx) /\ c.fn = "create_escrow"
      /\ c.id \in EscrowIds /\ c.answer = "hash"
  BY <1>2, <1>4 DEF RpcSound
<1>6. c.tx # NoTransaction
  BY <1>5 DEF Transactions, NoTransaction, ProviderCalls, Mutations
<1>7. pool' = pool /\ UNCHANGED <<stellarNetwork, sequence, applied, onChain>>
  BY <1>4 DEF ledgerState
<1>8. CASE /\ escrowNoted' = [escrowNoted EXCEPT ![c.id] = c.tx]
           /\ Continues(w, d) /\ UNCHANGED unsure
  <2>1. d \in Rpcs /\ d.pc = "idle" /\ d.fn = c.fn /\ d.id = c.id /\ d.tx = c.tx
        /\ d.answer = c.answer
    BY <1>2, <1>3 DEF Rpcs
  <2>2. RpcSound(d)
    BY <1>5, <2>1 DEF RpcSound
  <2>3. /\ escrowNoted' \in [EscrowIds -> Transactions \cup {NoTransaction}]
        /\ escrowNoted'[c.id] = c.tx
        /\ \A id \in EscrowIds : id # c.id => escrowNoted'[id] = escrowNoted[id]
    BY <1>5, <1>8 DEF EscrowInv, EscrowTypes
  <2>4. \A id \in EscrowIds :
             \/ escrowNoted'[id] = escrowNoted[id]
             \/ escrowNoted'[id] # NoTransaction /\ Did("create_escrow", id, escrowNoted'[id])
    BY <1>5, <1>6, <2>3
  <2>5. \A id \in EscrowIds : Creating(rpcCalls[w], id) => Accounted(id)'
    BY <1>1, <1>5, <1>6, <2>3 DEF Accounted, Creating
  <2>6. unsure \subseteq unsure'
    BY <1>8
  <2> QED
    BY <1>7, <1>8, <2>1, <2>2, <2>3, <2>4, <2>5, <2>6, CallStep
<1>9. CASE escrowNoted' = escrowNoted /\ FailsSent(w, c)
  BY <1>1, <1>7, <1>9, FailsSentStep
<1> QED
  BY <1>4, <1>8, <1>9

\* Steps of the ledger

\* Where the backend waits, what it knows stays true as the ledger grows.
LEMMA LedgerStep ==
  ASSUME EscrowInv, UNCHANGED <<stellarNetwork, backendState>>,
         pool' \subseteq pool, applied \subseteq applied', EscrowTypes', NumbersUsed',
         ChainExplained', applied' # applied => stellarNetwork = "known",
         \A id \in EscrowIds : onChain'[id] # "none" =>
             onChain[id] # "none" \/ \E tx \in pool : tx.fn = "create_escrow" /\ tx.id = id
  PROVE  EscrowInv'
<1>1. rpcCalls' = rpcCalls /\ escrowNoted' = escrowNoted /\ unsure' = unsure
      /\ stellarNetwork' = stellarNetwork
  BY DEF backendState
<1>2. ASSUME NEW c, RpcSound(c) PROVE RpcSound(c)'
  BY <1>2 DEF RpcSound, Did
<1>3. \A w \in EscrowCallers : RpcSound(rpcCalls[w])'
  <2>1. \A w \in EscrowCallers : RpcSound(rpcCalls[w])
    BY DEF EscrowInv, BackendSound
  <2> QED
    BY <1>1, <2>1 DEF RpcSound, Did
<1>4. \A id \in EscrowIds : escrowNoted'[id] # NoTransaction =>
          Did("create_escrow", id, escrowNoted[id])'
  BY <1>1 DEF EscrowInv, BackendSound, Did
<1>5. \A id : Accounted(id)' <=> Accounted(id)
  BY <1>1 DEF Accounted, Creating
<1>6. \A tx \in pool' : tx.fn = "create_escrow" => Accounted(tx.id)'
  BY <1>5 DEF EscrowInv, BackendSound
<1>7. \A id \in EscrowIds : onChain'[id] # "none" => Accounted(id)'
  BY <1>5 DEF EscrowInv, BackendSound
<1>8. stellarNetwork' # "known" => pool' = {} /\ applied' = {}
  BY <1>1 DEF EscrowInv, BackendSound
<1>9. BackendSound'
  BY <1>3, <1>4, <1>6, <1>7, <1>8 DEF BackendSound
<1> QED
  BY <1>9 DEF EscrowInv

\* DropTransaction.
LEMMA DropTransactionStep ==
  ASSUME EscrowInv, DropTransaction PROVE EscrowInv'
<1>1. /\ pool' \subseteq pool /\ UNCHANGED <<stellarNetwork, backendState>>
      /\ UNCHANGED <<sequence, applied, onChain>>
  BY DEF DropTransaction
<1>2. rpcCalls' = rpcCalls /\ escrowNoted' = escrowNoted
  BY <1>1 DEF backendState
<1>3. EscrowTypes'
  BY <1>1, <1>2 DEF EscrowInv, EscrowTypes
<1>4. NumbersUsed'
  BY <1>1 DEF EscrowInv, NumbersUsed
<1>5. ChainExplained'
  BY <1>1 DEF EscrowInv, ChainExplained
<1> QED
  BY <1>1, <1>3, <1>4, <1>5, LedgerStep

\* ClaimOnChain.
LEMMA ClaimOnChainStep ==
  ASSUME EscrowInv, NEW id \in EscrowIds, ClaimOnChain(id) PROVE EscrowInv'
<1>1. /\ onChain[id] = "Pending" /\ onChain' = [onChain EXCEPT ![id] = "Released"]
      /\ UNCHANGED <<stellarNetwork, backendState>> /\ UNCHANGED <<sequence, pool, applied>>
  BY DEF ClaimOnChain
<1>2. rpcCalls' = rpcCalls /\ escrowNoted' = escrowNoted
  BY <1>1 DEF backendState
<1>3. /\ onChain' \in [EscrowIds -> {"none", "Pending", "Released", "Refunded"}]
      /\ onChain'[id] = "Released"
      /\ \A other \in EscrowIds : other # id => onChain'[other] = onChain[other]
  BY <1>1 DEF EscrowInv, EscrowTypes
<1>4. EscrowTypes'
  BY <1>1, <1>2, <1>3 DEF EscrowInv, EscrowTypes
<1>5. NumbersUsed'
  BY <1>1 DEF EscrowInv, NumbersUsed
<1>6. \A e \in applied : e.tx.id \in EscrowIds
  BY DEF EscrowInv, EscrowTypes, Transactions
<1>7. ChainExplained'
  <2>1. \A e \in applied' : e.ok =>
          /\ e.tx.fn = "create_escrow" => onChain'[e.tx.id] # "none"
          /\ e.tx.fn = "release" => onChain'[e.tx.id] = "Released"
          /\ e.tx.fn = "refund" => onChain'[e.tx.id] = "Refunded"
    BY <1>1, <1>3, <1>6 DEF EscrowInv, ChainExplained
  <2>2. \A other \in EscrowIds : onChain'[other] # "none" =>
          \E e \in applied' : e.ok /\ e.tx.fn = "create_escrow" /\ e.tx.id = other
    BY <1>1, <1>3 DEF EscrowInv, ChainExplained
  <2> QED
    BY <1>1, <2>1, <2>2 DEF EscrowInv, ChainExplained
<1>8. \A other \in EscrowIds : onChain'[other] # "none" => onChain[other] # "none"
  BY <1>1, <1>3
<1> QED
  BY <1>1, <1>4, <1>5, <1>7, <1>8, LedgerStep

\* ApplyTransaction.
LEMMA ApplyTransactionStep ==
  ASSUME EscrowInv, ApplyTransaction PROVE EscrowInv'
<1>1. PICK tx \in pool, ok \in BOOLEAN :
          /\ ok => ContractAccepts(tx.fn, tx.id)
          /\ tx.seq = sequence + 1 /\ sequence' = tx.seq
          /\ pool' = {other \in pool : other.seq > tx.seq}
          /\ applied' = applied \cup {[tx |-> tx, ok |-> ok]}
          /\ onChain' = IF ok THEN AfterContract(tx.fn, tx.id) ELSE onChain
          /\ UNCHANGED <<stellarNetwork, backendState>>
  <2>1. PICK tx \in pool, transferred \in BOOLEAN :
          LET ok == ContractAccepts(tx.fn, tx.id) /\ transferred IN
          /\ tx.seq = sequence + 1 /\ sequence' = tx.seq
          /\ pool' = {other \in pool : other.seq > tx.seq}
          /\ applied' = applied \cup {[tx |-> tx, ok |-> ok]}
          /\ onChain' = IF ok THEN AfterContract(tx.fn, tx.id) ELSE onChain
          /\ UNCHANGED <<stellarNetwork, backendState>>
    BY DEF ApplyTransaction
  <2>2. PICK ok \in BOOLEAN : ok = (ContractAccepts(tx.fn, tx.id) /\ transferred)
    OBVIOUS
  <2> QED
    BY <2>1, <2>2
<1>2. tx \in Transactions /\ tx.fn \in Mutations /\ tx.id \in EscrowIds
      /\ tx.seq = sequence + 1 /\ sequence \in Nat
  BY <1>1 DEF EscrowInv, EscrowTypes, ChainExplained, Transactions
<1>3. PICK e : e = [tx |-> tx, ok |-> ok]
  OBVIOUS
<1>4. e.tx = tx /\ e.ok = ok /\ e \in [tx : Transactions, ok : BOOLEAN]
      /\ applied' = applied \cup {e}
  BY <1>1, <1>2, <1>3
<1>5. pool' \subseteq pool /\ rpcCalls' = rpcCalls /\ escrowNoted' = escrowNoted
  BY <1>1 DEF backendState
<1>6. /\ onChain' \in [EscrowIds -> {"none", "Pending", "Released", "Refunded"}]
      /\ \A id \in EscrowIds : id # tx.id \/ ~ ok => onChain'[id] = onChain[id]
      /\ ok /\ tx.fn = "create_escrow" => onChain[tx.id] = "none" /\ onChain'[tx.id] = "Pending"
      /\ ok /\ tx.fn = "release" => onChain[tx.id] = "Pending" /\ onChain'[tx.id] = "Released"
      /\ ok /\ tx.fn = "refund" => onChain[tx.id] = "Pending" /\ onChain'[tx.id] = "Refunded"
  <2>0. onChain \in [EscrowIds -> {"none", "Pending", "Released", "Refunded"}]
    BY DEF EscrowInv, EscrowTypes
  <2>1. CASE ~ ok
    BY <1>1, <2>0, <2>1
  <2>2. CASE ok /\ tx.fn = "create_escrow"
    <3>1. onChain[tx.id] = "none" /\ onChain' = [onChain EXCEPT ![tx.id] = "Pending"]
      BY <1>1, <2>2 DEF ContractAccepts, AfterContract
    <3> QED
      BY <1>2, <2>0, <2>2, <3>1
  <2>3. CASE ok /\ tx.fn = "release"
    <3>1. onChain[tx.id] = "Pending" /\ onChain' = [onChain EXCEPT ![tx.id] = "Released"]
      BY <1>1, <2>3 DEF ContractAccepts, AfterContract
    <3> QED
      BY <1>2, <2>0, <2>3, <3>1
  <2>4. CASE ok /\ tx.fn = "refund"
    <3>1. onChain[tx.id] = "Pending" /\ onChain' = [onChain EXCEPT ![tx.id] = "Refunded"]
      BY <1>1, <2>4 DEF ContractAccepts, AfterContract
    <3> QED
      BY <1>2, <2>0, <2>4, <3>1
  <2> QED
    BY <1>1, <1>2, <2>1, <2>2, <2>3, <2>4 DEF Mutations
<1>7. EscrowTypes'
  BY <1>1, <1>2, <1>4, <1>5, <1>6 DEF EscrowInv, EscrowTypes, Transactions
<1>8. e \notin applied
  <2>1. {f.tx.seq : f \in applied} = 1..sequence
    BY DEF EscrowInv, NumbersUsed
  <2>2. SUFFICES ASSUME e \in applied PROVE FALSE
    OBVIOUS
  <2>3. e.tx.seq \in 1..sequence
    BY <2>1, <2>2
  <2> QED
    BY <1>2, <1>4, <2>3
<1>9. NumbersUsed'
  <2>1. IsFiniteSet(applied) /\ Cardinality(applied) = sequence
        /\ {f.tx.seq : f \in applied} = 1..sequence
    BY DEF EscrowInv, NumbersUsed
  <2>2. IsFiniteSet(applied') /\ Cardinality(applied') = sequence + 1
    BY <1>4, <1>8, <2>1, FS_AddElement
  <2>3. {f.tx.seq : f \in applied'} = {f.tx.seq : f \in applied} \cup {tx.seq}
    BY <1>4
  <2>4. 1..(sequence + 1) = (1..sequence) \cup {sequence + 1}
    BY <1>2
  <2>5. sequence' = sequence + 1 /\ {f.tx.seq : f \in applied'} = 1..(sequence + 1)
    BY <1>1, <2>1, <2>3, <2>4
  <2> QED
    BY <2>2, <2>5 DEF NumbersUsed
<1>10. \A f \in applied : f.tx.id \in EscrowIds /\ f.ok \in BOOLEAN
  BY DEF EscrowInv, EscrowTypes, Transactions
<1>11. /\ \A f \in applied : f.ok =>
          /\ f.tx.fn = "create_escrow" => onChain[f.tx.id] # "none"
          /\ f.tx.fn = "release" => onChain[f.tx.id] = "Released"
          /\ f.tx.fn = "refund" => onChain[f.tx.id] = "Refunded"
  BY DEF EscrowInv, ChainExplained
<1>12. ChainExplained'
  <2>1. \A f \in applied' : f.ok =>
          /\ f.tx.fn = "create_escrow" => onChain'[f.tx.id] # "none"
          /\ f.tx.fn = "release" => onChain'[f.tx.id] = "Released"
          /\ f.tx.fn = "refund" => onChain'[f.tx.id] = "Refunded"
    <3>1. ASSUME NEW f \in applied, f.ok
          PROVE  /\ f.tx.fn = "create_escrow" => onChain'[f.tx.id] # "none"
                 /\ f.tx.fn = "release" => onChain'[f.tx.id] = "Released"
                 /\ f.tx.fn = "refund" => onChain'[f.tx.id] = "Refunded"
      BY <1>2, <1>6, <1>10, <1>11, <3>1 DEF Mutations
    <3>2. e.ok =>
          /\ e.tx.fn = "create_escrow" => onChain'[e.tx.id] # "none"
          /\ e.tx.fn = "release" => onChain'[e.tx.id] = "Released"
          /\ e.tx.fn = "refund" => onChain'[e.tx.id] = "Refunded"
      BY <1>4, <1>6
    <3> QED
      BY <1>4, <3>1, <3>2
  <2>2. \A id \in EscrowIds : onChain'[id] # "none" =>
          \E f \in applied' : f.ok /\ f.tx.fn = "create_escrow" /\ f.tx.id = id
    <3>1. ASSUME NEW id \in EscrowIds, onChain'[id] # "none", onChain[id] # "none"
          PROVE  \E f \in applied' : f.ok /\ f.tx.fn = "create_escrow" /\ f.tx.id = id
      BY <1>4, <3>1 DEF EscrowInv, ChainExplained
    <3>2. ASSUME NEW id \in EscrowIds, onChain'[id] # "none", onChain[id] = "none"
          PROVE  \E f \in applied' : f.ok /\ f.tx.fn = "create_escrow" /\ f.tx.id = id
      <4>1. id = tx.id /\ ok /\ tx.fn = "create_escrow"
        BY <1>2, <1>6, <3>2 DEF Mutations
      <4> QED
        BY <1>4, <4>1
    <3> QED
      BY <3>1, <3>2
  <2>3. ASSUME NEW f \in applied, e.ok, f.ok, e.tx.id = f.tx.id,
               \/ e.tx.fn = "create_escrow" /\ f.tx.fn = "create_escrow"
               \/ e.tx.fn \in {"release", "refund"} /\ f.tx.fn \in {"release", "refund"}
        PROVE  FALSE
    BY <1>4, <1>6, <1>11, <2>3
  <2>4. \A f, g \in applied' :
          /\ f.ok /\ g.ok /\ f.tx.id = g.tx.id
          /\ \/ f.tx.fn = "create_escrow" /\ g.tx.fn = "create_escrow"
             \/ f.tx.fn \in {"release", "refund"} /\ g.tx.fn \in {"release", "refund"}
          => f = g
    <3>1. \A f, g \in applied :
          /\ f.ok /\ g.ok /\ f.tx.id = g.tx.id
          /\ \/ f.tx.fn = "create_escrow" /\ g.tx.fn = "create_escrow"
             \/ f.tx.fn \in {"release", "refund"} /\ g.tx.fn \in {"release", "refund"}
          => f = g
      BY DEF EscrowInv, ChainExplained
    <3> QED
      BY <1>4, <2>3, <3>1
  <2>5. \A other \in pool' : other.fn \in Mutations
    BY <1>5 DEF EscrowInv, ChainExplained
  <2> QED
    BY <2>1, <2>2, <2>4, <2>5 DEF ChainExplained
<1>13. stellarNetwork = "known"
  BY <1>1 DEF EscrowInv, BackendSound
<1>14. \A id \in EscrowIds : onChain'[id] # "none" =>
             onChain[id] # "none" \/ \E t \in pool : t.fn = "create_escrow" /\ t.id = id
  BY <1>1, <1>2, <1>6 DEF Mutations
<1> QED
  BY <1>1, <1>4, <1>5, <1>7, <1>9, <1>12, <1>13, <1>14, LedgerStep

\* The theorem

LEMMA EscrowStepInv == EscrowInv /\ [EscrowClientNext]_escrowClientVars => EscrowInv'
<1> SUFFICES ASSUME EscrowInv, [EscrowClientNext]_escrowClientVars PROVE EscrowInv'
  OBVIOUS
<1>1. CASE ApplyTransaction
  BY <1>1, ApplyTransactionStep
<1>2. CASE DropTransaction
  BY <1>2, DropTransactionStep
<1>3. ASSUME NEW id \in EscrowIds, ClaimOnChain(id) PROVE EscrowInv'
  BY <1>3, ClaimOnChainStep
<1>4. ASSUME NEW w \in EscrowCallers, NEW fn \in ProviderCalls, NEW id \in EscrowIds,
             NEW valid \in BOOLEAN, StartCall(w, fn, id, valid)
      PROVE  EscrowInv'
  BY <1>4, StartCallStep
<1>5. ASSUME NEW w \in EscrowCallers, GetSourceAccount(w) PROVE EscrowInv'
  BY <1>5, GetSourceAccountStep
<1>6. ASSUME NEW w \in EscrowCallers, NEW second \in BuildTimes, PrepareTransaction(w, second)
      PROVE  EscrowInv'
  BY <1>6, PrepareTransactionStep
<1>7. ASSUME NEW w \in EscrowCallers, MapStatus(w) PROVE EscrowInv'
  BY <1>7, MapStatusStep
<1>8. ASSUME NEW w \in EscrowCallers, SendTransaction(w) PROVE EscrowInv'
  BY <1>8, SendTransactionStep
<1>9. ASSUME NEW w \in EscrowCallers, PollTransaction(w) PROVE EscrowInv'
  BY <1>9, PollTransactionStep
<1>10. ASSUME NEW w \in EscrowCallers, NoteEscrow(w) PROVE EscrowInv'
  BY <1>10, NoteEscrowStep
<1>11. CASE UNCHANGED escrowClientVars
  <2>1. UNCHANGED <<stellarNetwork, sequence, pool, applied, onChain, rpcCalls, escrowNoted,
                    unsure>>
    BY <1>11 DEF escrowClientVars
  <2>2. EscrowTypes' /\ NumbersUsed' /\ ChainExplained'
    BY <2>1 DEF EscrowInv, EscrowTypes, NumbersUsed, ChainExplained
  <2>3. UNCHANGED <<stellarNetwork, backendState>> /\ pool' \subseteq pool
        /\ applied \subseteq applied' /\ applied' = applied /\ onChain' = onChain
    BY <2>1 DEF backendState
  <2> QED
    BY <2>2, <2>3, LedgerStep
<1> QED
  BY <1>1, <1>2, <1>3, <1>4, <1>5, <1>6, <1>7, <1>8, <1>9, <1>10, <1>11
  DEF EscrowClientNext, ProviderCalls

\* A set in which any two members are the same has at most one.
LEMMA AtMostOne ==
  ASSUME NEW S, \A a, b \in S : a = b
  PROVE  IsFiniteSet(S) /\ Cardinality(S) \in {0, 1} /\ (S # {} => Cardinality(S) = 1)
<1>1. CASE S = {}
  BY <1>1, FS_EmptySet
<1>2. CASE S # {}
  <2>1. PICK a : a \in S
    BY <1>2
  <2>2. S = {a}
    BY <2>1
  <2> QED
    BY <2>2, FS_Singleton
<1> QED
  BY <1>1, <1>2

LEMMA EscrowInvAgrees == EscrowInv => EscrowCallsAgree
<1> SUFFICES ASSUME EscrowInv PROVE EscrowCallsAgree
  OBVIOUS
<1>1. ReportsAreTrue
  <2>1. \A w \in EscrowCallers :
          rpcCalls[w].answer = "hash" => [tx |-> rpcCalls[w].tx, ok |-> TRUE] \in applied
    BY DEF EscrowInv, BackendSound, RpcSound, Did
  <2>2. \A id \in EscrowIds :
          escrowNoted[id] # NoTransaction => /\ [tx |-> escrowNoted[id], ok |-> TRUE] \in applied
                                             /\ onChain[id] # "none"
    <3>1. SUFFICES ASSUME NEW id \in EscrowIds, escrowNoted[id] # NoTransaction
                   PROVE  /\ [tx |-> escrowNoted[id], ok |-> TRUE] \in applied
                          /\ onChain[id] # "none"
      OBVIOUS
    <3>2. Did("create_escrow", id, escrowNoted[id])
      BY <3>1 DEF EscrowInv, BackendSound
    <3>3. PICK e : e = [tx |-> escrowNoted[id], ok |-> TRUE]
      OBVIOUS
    <3>4. e \in applied /\ e.ok /\ e.tx.fn = "create_escrow" /\ e.tx.id = id
      BY <3>2, <3>3 DEF Did
    <3> QED
      BY <3>3, <3>4 DEF EscrowInv, ChainExplained
  <2>3. Cardinality({e.tx.seq : e \in applied}) = sequence /\ Cardinality(applied) = sequence
    <3>1. {e.tx.seq : e \in applied} = 1..sequence /\ Cardinality(applied) = sequence
          /\ sequence \in Nat
      BY DEF EscrowInv, NumbersUsed, EscrowTypes
    <3>2. Cardinality(1..sequence) = sequence
      BY <3>1, FS_Interval
    <3> QED
      BY <3>1, <3>2
  <2> QED
    BY <2>1, <2>2, <2>3 DEF ReportsAreTrue
<1>2. EscrowsMoveOnce
  <2>1. ASSUME NEW id \in EscrowIds
        PROVE  Cardinality(Succeeded({"create_escrow"}, id)) =
                   (IF onChain[id] = "none" THEN 0 ELSE 1)
    <3>1. \A e, f \in Succeeded({"create_escrow"}, id) : e = f
      BY DEF Succeeded, EscrowInv, ChainExplained
    <3>2. onChain[id] # "none" <=> Succeeded({"create_escrow"}, id) # {}
      BY <2>1 DEF Succeeded, EscrowInv, ChainExplained
    <3>3. CASE onChain[id] = "none"
      BY <3>2, <3>3, FS_EmptySet
    <3>4. CASE onChain[id] # "none"
      BY <3>1, <3>2, <3>4, AtMostOne
    <3> QED
      BY <3>3, <3>4
  <2>2. ASSUME NEW id \in EscrowIds
        PROVE  Cardinality(Succeeded({"release", "refund"}, id)) <= 1
    <3>1. \A e, f \in Succeeded({"release", "refund"}, id) : e = f
      BY DEF Succeeded, EscrowInv, ChainExplained
    <3>2. Cardinality(Succeeded({"release", "refund"}, id)) \in {0, 1}
      BY <3>1, AtMostOne
    <3> QED
      BY <3>2
  <2>3. ASSUME NEW v \in EscrowCallers, NEW w \in EscrowCallers,
               rpcCalls[v].answer = "hash", rpcCalls[v].fn = "release",
               rpcCalls[w].answer = "hash", rpcCalls[w].fn = "refund",
               rpcCalls[v].id = rpcCalls[w].id
        PROVE  FALSE
    <3>1. /\ Did("release", rpcCalls[v].id, rpcCalls[v].tx)
          /\ Did("refund", rpcCalls[v].id, rpcCalls[w].tx)
      BY <2>3 DEF EscrowInv, BackendSound, RpcSound
    <3>2. PICK e, f : /\ e = [tx |-> rpcCalls[v].tx, ok |-> TRUE]
                      /\ f = [tx |-> rpcCalls[w].tx, ok |-> TRUE]
      OBVIOUS
    <3>3. /\ e \in applied /\ e.ok /\ e.tx.fn = "release" /\ e.tx.id = rpcCalls[v].id
          /\ f \in applied /\ f.ok /\ f.tx.fn = "refund" /\ f.tx.id = rpcCalls[v].id
      BY <3>1, <3>2 DEF Did
    <3> QED
      BY <3>3 DEF EscrowInv, ChainExplained
  <2> QED
    BY <2>1, <2>2, <2>3 DEF EscrowsMoveOnce
<1>3. LostEscrowsAreCounted
  <2>1. \A id \in EscrowIds : onChain[id] # "none" =>
          \/ escrowNoted[id] # NoTransaction
          \/ [fn |-> "create_escrow", id |-> id] \in unsure
          \/ \E w \in EscrowCallers : /\ rpcCalls[w].pc \in {"poll", "note"}
                                      /\ rpcCalls[w].fn = "create_escrow" /\ rpcCalls[w].id = id
    BY DEF EscrowInv, BackendSound, Accounted, Creating
  <2>2. stellarNetwork # "known" =>
          applied = {} /\ \A w \in EscrowCallers : rpcCalls[w].answer # "hash"
    BY DEF EscrowInv, BackendSound, RpcSound, Did
  <2> QED
    BY <2>1, <2>2 DEF LostEscrowsAreCounted
<1> QED
  BY <1>1, <1>2, <1>3 DEF EscrowCallsAgree

\* What the provider reports of the escrows agrees with the ledger, for any
\* number of calls that overlap, are repeated or lose their answers.
THEOREM EscrowCallsFollowLedger == EscrowClientSpec => []EscrowCallsAgree
<1> QED
  BY EscrowInitInv, EscrowStepInv, EscrowInvAgrees, PTL DEF EscrowClientSpec
==============================================================================
