------------------------- MODULE VerificationTokens -------------------------
(***************************************************************************)
(* Codes that become one-time tokens (VerificationService).  A row is      *)
(* created for an e-mail with a code, which is mailed; whoever presents    *)
(* the code has the row verified, with fifteen minutes to live, and gets   *)
(* its id as a token; whoever presents the token has the row expire.       *)
(*                                                                         *)
(* Every operator is one query of the service.  Rows are looked up on the  *)
(* read replica and written on the primary, so a look-up and the write     *)
(* that follows it are two steps of whoever calls them (Accounts).         *)
(***************************************************************************)
EXTENDS Integers, FiniteSets, Sequences

CONSTANTS
    Emails,     \* addresses, lower case and trimmed
    MaxTokens   \* bound on rows

ASSUME TokenAssumption ==
    /\ IsFiniteSet(Emails)
    /\ MaxTokens \in Nat

VARIABLES
    verification,        \* the rows, in the order of creation
    behind,              \* whether the read replica is behind
    verificationReplica, \* if so, the rows as it has them
    mailed,              \* rows whose code its owner knows
    held,                \* rows whose token a client was given
    uses,                \* how often each token was accepted: history
    crossed              \* how often a look-up of its row missed a write: history

tokenRows == <<verification, behind, verificationReplica, mailed, held>>
tokenHistory == <<uses, crossed>>
tokenVars == <<tokenRows, tokenHistory>>
replicaVars == <<behind, verificationReplica>>

TokenIds == 1..MaxTokens
\* No expiry is set before the code is presented, and a code without one never expires.
Expiries == {"none", "later", "past"}
Rows == [email : Emails, verified : BOOLEAN, expiry : Expiries]

TokenInit(rows) ==
    /\ verification = rows
    /\ behind = FALSE /\ verificationReplica = << >>
    /\ mailed = {t \in DOMAIN rows : ~rows[t].verified}
    /\ held = {t \in DOMAIN rows : rows[t].verified}
    /\ uses = [t \in TokenIds |-> 0]
    /\ crossed = [t \in TokenIds |-> 0]

SeenRows == IF behind THEN verificationReplica ELSE verification

-----------------------------------------------------------------------------
(* Queries *)

FindVerificationByEmail(email) ==
    {t \in DOMAIN SeenRows : SeenRows[t].email = email /\ ~SeenRows[t].verified}

FindVerificationById(t) == {s \in DOMAIN SeenRows : s = t /\ SeenRows[s].verified}

\* A token that is good for ever.
IsCodeExpiredNot(t) == FALSE

IsCodeExpired(t) == SeenRows[t].expiry = "past"

\* A token of any e-mail.
VerifyTokenAnyEmail(t, email) == t \in FindVerificationById(t) /\ ~IsCodeExpired(t)

\* The type of the row is not compared; the e-mail is if the caller names one.
VerifyToken(t, email) ==
    /\ t \in FindVerificationById(t)
    /\ email \in Emails => SeenRows[t].email = email
    /\ ~IsCodeExpired(t)

\* The code a client presents is the one of row t; the row that is found must be the same.
VerifyCode(t, found) == found = t

-----------------------------------------------------------------------------
(* Updates *)

Count(history, t) == [history EXCEPT ![t] = @ + 1]

\* The row that is looked up is about to change, or has changed unknown to the replica.
Looked(t, misses) ==
    /\ crossed' = IF misses THEN Count(crossed, t) ELSE crossed
    /\ UNCHANGED <<tokenRows, uses>>

ExpireToken(t) ==
    /\ verification' = [verification EXCEPT ![t].expiry = "past"]
    /\ uses' = Count(uses, t)
    /\ UNCHANGED <<replicaVars, mailed, held, crossed>>

AddExpiryTime(t) ==
    /\ verification' = [verification EXCEPT ![t].expiry = "later"]
    /\ UNCHANGED <<replicaVars, mailed, held, tokenHistory>>

UpdateVerificationStatus(t) ==
    /\ verification' = [verification EXCEPT ![t].verified = TRUE]
    /\ UNCHANGED <<replicaVars, mailed, held, tokenHistory>>

\* The token is the encrypted id of the row: the client has it once it is returned.
GenerateToken(t) ==
    /\ held' = held \cup {t}
    /\ UNCHANGED <<verification, replicaVars, mailed, tokenHistory>>

CreateVerification(email) ==
    /\ Len(verification) < MaxTokens
    /\ verification' = Append(verification, [email |-> email, verified |-> FALSE, expiry |-> "none"])
    /\ UNCHANGED <<replicaVars, mailed, held, tokenHistory>>

MailCode(t) ==
    /\ mailed' = mailed \cup {t}
    /\ UNCHANGED <<verification, replicaVars, held, tokenHistory>>

\* Fifteen minutes pass.
TokenTimesOut(t) ==
    /\ t \in DOMAIN verification /\ verification[t].expiry = "later"
    /\ verification' = [verification EXCEPT ![t].expiry = "past"]
    /\ UNCHANGED <<replicaVars, mailed, held, tokenHistory>>

TokensFallBehind ==
    /\ ~behind /\ behind' = TRUE
    /\ verificationReplica' = verification
    /\ UNCHANGED <<verification, mailed, held, tokenHistory>>

TokensCatchUp ==
    /\ behind /\ behind' = FALSE
    /\ verificationReplica' = << >>
    /\ UNCHANGED <<verification, mailed, held, tokenHistory>>

-----------------------------------------------------------------------------
(* Properties *)

TokenTypeOK ==
    /\ verification \in Seq(Rows) /\ Len(verification) <= MaxTokens
    /\ behind \in BOOLEAN
    /\ verificationReplica \in Seq(Rows) /\ Len(verificationReplica) <= Len(verification)
    /\ mailed \subseteq DOMAIN verification
    /\ held \subseteq DOMAIN verification
    /\ uses \in [TokenIds -> Nat]
    /\ crossed \in [TokenIds -> Nat]

\* A token is accepted once, and once more at most for each look-up of it, or of its code,
\* that passed while another request that had looked it up was yet to write what it did
\* with it, or on a replica that had not heard that it was used or verified.
SpentOnce == \A t \in TokenIds : uses[t] <= 1 + crossed[t]
=============================================================================
