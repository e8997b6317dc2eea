--------------------------- MODULE MCUserSessions ---------------------------
(***************************************************************************)
(* Sessions on small instances: the server's refresh tokens; the browser's *)
(* tabs, which keep who is signed in; the recovery of a password; and the  *)
(* second factor.  They share no state, so that a behaviour exercises one  *)
(* of them: part says which, and the others stay as they are.              *)
(*                                                                         *)
(* One user has two families, so that a login can race with the end of the *)
(* account while another session rotates; three versions are two rotations *)
(* of one family.                                                          *)
(***************************************************************************)
EXTENDS UserSessions, AuthClient, PasswordReset, SecondFactor, TLC

CONSTANTS u1, f1, f2, w1, w2, x1, x2, Parts

VARIABLE part

TwoSessionsOf == f1 :> u1 @@ f2 :> u1

\* A behaviour of one part needs no more than one initial state of the others.
SessionsInit ==
    /\ part \in Parts
    /\ Init /\ ClientInit /\ PasswordResetInit /\ SecondFactorInit
    /\ part # "second factor" => /\ apiShape = [envelope |-> "bare", ids |-> "none"]
                                 /\ factorRow = Unconfirmed

\* What the step of one part leaves alone.
Keep(other, variables) == IF part = other THEN TRUE ELSE UNCHANGED variables

SessionsNext ==
    /\ UNCHANGED part
    /\ Keep("server", vars)
    /\ Keep("client", clientVars)
    /\ Keep("reset", resetVars)
    /\ Keep("second factor", secondFactorVars)
    /\ \/ part = "server" /\ Next
       \/ part = "client" /\ ClientNext
       \/ part = "reset" /\ PasswordResetNext
       \/ part = "second factor" /\ SecondFactorNext

SessionsSpec ==
    SessionsInit /\ [][SessionsNext]_<<part, vars, clientVars, resetVars, secondFactorVars>>

\* The parts that rest keep their initial state.
PartView ==
    <<part, CASE part = "server" -> vars [] part = "client" -> clientVars
              [] part = "reset" -> resetVars [] part = "second factor" -> secondFactorVars>>
=============================================================================
