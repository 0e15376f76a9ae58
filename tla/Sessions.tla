------------------------------ MODULE Sessions ------------------------------
(***************************************************************************)
(* Sessions of users (SessionService).  Every operator is one query; all   *)
(* of them go to the primary.  A session lives for a week and for a day    *)
(* more with every request that shows it.                                  *)
(***************************************************************************)
EXTENDS Integers, FiniteSets, Sequences

CONSTANTS MaxSessions, MaxUsers

ASSUME SessionAssumption == MaxSessions \in Nat /\ MaxUsers \in Nat

VARIABLES
    session     \* the rows, in the order of creation

SessionRows == [user : 1..MaxUsers, expired : BOOLEAN, logout : BOOLEAN]

LatestOf(sessions) == CHOOSE s \in sessions : \A other \in sessions : other <= s

\* The latest of the user's sessions that is not logged out.
FindSessionByUserId(u) == {s \in DOMAIN session : session[s].user = u /\ ~session[s].logout}

IfSessionExist(u) ==
    /\ FindSessionByUserId(u) # {}
    /\ ~session[LatestOf(FindSessionByUserId(u))].expired

\* A log-out that is forgotten.
LogoutNobody(u) == UNCHANGED session
LogoutUser(u) ==
    session' = [s \in DOMAIN session |->
                  IF session[s].user = u THEN [session[s] EXCEPT !.logout = TRUE] ELSE session[s]]

CreateSession(u) ==
    /\ Len(session) < MaxSessions
    /\ session' = Append(session, [user |-> u, expired |-> FALSE, logout |-> FALSE])

\* The new expiry is a day after the one that was read, when the session had not expired.
UpdateLastLogin(s) == session' = [session EXCEPT ![s].expired = FALSE]

\* Days pass.
SessionTimesOut(s) ==
    /\ s \in DOMAIN session /\ ~session[s].expired
    /\ session' = [session EXCEPT ![s].expired = TRUE]

-----------------------------------------------------------------------------

SessionTypeOK == session \in Seq(SessionRows) /\ Len(session) <= MaxSessions

\* The sessions with which user u may still act.
LiveSessions(u) == {s \in FindSessionByUserId(u) : ~session[s].expired}
=============================================================================
