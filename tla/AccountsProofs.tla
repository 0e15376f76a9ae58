--------------------------- MODULE AccountsProofs ---------------------------
(***************************************************************************)
(* What holds of accounts for any numbers of e-mails, tokens, sessions,    *)
(* users and requests under way together.  Each property is about a write  *)
(* of one request after a look-up of the same request, with any others in  *)
(* between: so the invariants say, for each label a request can be at,     *)
(* what it has established and nobody can take back.                       *)
(***************************************************************************)
EXTENDS Accounts, FiniteSetTheorems, SequenceTheorems, TLAPS

(* What a request knows. *)

WithEmail == {"askEmail", "askPassword", "askAdmin", "login", "confirm", "signup", "recover",
              "askOwn", "move"}
WithToken == {"confirm", "spend", "reset", "signup", "recover", "move"}
WithUser == {"recover", "assign", "ban", "delete"}

\* The labels at which a request already has the user it works on.
UserLabels == {"touch", "session", "logOutFirst", "open", "logout", "adopt", "unprofile", "askOwn",
               "wallet", "profile", "settings", "currency", "load", "reward", "recover", "change",
               "assign", "password", "move", "takeEmail", "delete", "ban"}

\* The kinds of requests that are ever at a label.
KindsAt(label) ==
    CASE label \in {"authenticate", "touch"} -> Authenticated
      [] label \in {"session", "logOutFirst", "open"} -> {"signup", "login"}
      [] label \in {"login", "reward"} -> {"login"}
      [] label \in {"ask", "adopt", "unprofile"} -> {"askEmail", "askPassword"}
      [] label \in {"generate", "mail"} -> {"askEmail", "askPassword", "askAdmin", "askOwn"}
      [] label \in {"code", "prolong", "handOut"} -> {"confirm"}
      [] label = "verified" -> {"confirm", "move"}
      [] label \in {"token", "expire"} -> {"spend", "reset", "signup", "recover"}
      [] label \in {"check", "wallet", "profile", "settings", "currency", "load"} -> {"signup"}
      [] label = "create" -> {"signup", "recover"}
      [] label = "find" -> {"reset"}
      [] label = "password" -> {"change", "assign", "reset"}
      [] label \in {"move", "takeEmail"} -> {"move"}
      [] label = "delete" -> {"leave", "delete"}
      [] label = "rest" -> {"none"}
      [] OTHER -> {label}

\* A verified row of the e-mail: its code was presented.
Presented(rows, email) == \E t \in DOMAIN rows : rows[t].email = email /\ rows[t].verified

\* A request refers to rows that exist, to an e-mail and a code that belong together, and at
\* the labels after a look-up of a token it has one that is verified.
Sound(rows, accounts, n, l) ==
    /\ l \in Locals /\ l.kind \in KindsAt(l.pc)
    /\ l.token \in 0..Len(rows) /\ l.user \in 0..Len(accounts) /\ l.session \in 0..n
    /\ l.kind \in WithEmail => l.email \in Emails
    /\ l.kind \in WithToken \/ l.pc = "mail" => l.token # 0
    /\ l.kind \in {"confirm", "move"} => rows[l.token].email = l.email
    /\ l.kind \in WithUser \/ l.pc \in UserLabels => l.user # 0
    /\ l.kind \in Authenticated => l.session # 0
    /\ l.pc = "adopt" => l.email \in accounts[l.user].own
    /\ l.pc = "expire" =>
          rows[l.token].verified /\ (l.kind \in {"signup", "recover"} => rows[l.token].email = l.email)
    /\ l.pc = "create" => Presented(rows, l.email)

\* The replica has rows as they once were.
Earlier(old, rows) ==
    /\ Len(old) <= Len(rows)
    /\ \A t \in DOMAIN old : old[t].email = rows[t].email /\ (old[t].verified => rows[t].verified)

AccountsInv ==
    /\ TypeOK
    /\ Earlier(verificationReplica, verification)
    /\ \A u \in DOMAIN users : users[u].profileEmail \in users[u].own \cup {None}
    /\ \A u \in DOMAIN userReplica : userReplica[u].profileEmail \in users[u].own \cup {None}
    /\ \A r \in Requests : Sound(verification, users, Len(session), request[r])

\* How often the token of a row may yet be accepted: once while its row is alive or looked up by
\* requests about to use it, and once for each confirmation about to give the row a new life.
\* The code of a row not yet verified is good for one confirmation, and the look-ups of the
\* others were crossed.
Opened(t) == t \in DOMAIN verification /\ verification[t].verified
Doing(labels, t) == {r \in Requests : request[r].token = t /\ request[r].pc \in labels}
Doers(labels, t) == Cardinality(Doing(labels, t))
Alive(t) == IF verification[t].expiry = "past" THEN 0 ELSE 1
BeforeVerified == {"prolong", "takeEmail", "verified"}

SpendBound(t) ==
    IF Opened(t)
    THEN /\ uses[t] + Doers({"prolong"}, t) + Alive(t) <= 1 + crossed[t]
         /\ uses[t] + Doers({"prolong"}, t) + Doers({"expire"}, t) <= 1 + crossed[t]
    ELSE uses[t] = 0 /\ Doers(BeforeVerified, t) <= 1 + crossed[t]
SpendInv == \A t \in TokenIds : SpendBound(t)

\* The accounts whose e-mail nobody proved and nobody is about to.
Proven(u) == users[u].email \in users[u].own \cup {None} \/ Presented(verification, users[u].email)
Proving(r, u) == At(r, "verified") /\ request[r].user = u /\ request[r].email = users[u].email
Unclaimed == {u \in DOMAIN users : ~Proven(u) /\ ~\E r \in Requests : Proving(r, u)}

ProvenInv == Cardinality(Unclaimed) <= failures

\* What a sign-up has made so far.
PartsAt(label) ==
    CASE label = "wallet" -> {}
      [] label = "profile" -> {"wallet"}
      [] label = "settings" -> {"wallet", "profile"}
      [] label = "currency" -> {"wallet", "profile", "settings"}
      [] OTHER -> Parts
SigningUp(r, u) == Mine(r).kind = "signup" /\ Mine(r).user = u

PartsInv ==
    /\ \A r \in Requests :
          request[r].kind = "signup" =>
              /\ request[r].user # 0 <=> request[r].pc \in UserLabels
              /\ request[r].user # 0 => PartsAt(request[r].pc) \subseteq users[request[r].user].parts
    /\ Cardinality(Incomplete) <= failures + abandoned

\* The live sessions of a user together with others are at most one for each crossing, and
\* one more if the latest is among them, the one a log-in looks at.
Latest(u) == LatestOf(FindSessionByUserId(u))
Fits(set, n, latest) == Cardinality(set) <= n \/ (Cardinality(set) = n + 1 /\ latest \in set)
Room(u, set) == Fits(set, crossings[u], Latest(u))

RoomFor(r) ==
    LET u == request[r].user
        s == request[r].session
    IN  /\ At(r, "open") => Cardinality(LiveSessions(u)) <= crossings[u]
        /\ At(r, "touch") => /\ session[s].user = u
                             /\ ~session[s].logout => Room(u, LiveSessions(u) \cup {s})

SessionInv ==
    /\ \A u \in UserIds : Room(u, LiveSessions(u))
    /\ \A r \in Requests : RoomFor(r)

-----------------------------------------------------------------------------
(* The tables, one by one. *)

TokensOK == TokenTypeOK /\ Earlier(verificationReplica, verification)

UsersOK ==
    /\ users \in Seq(UserRows) /\ Len(users) <= MaxUsers
    /\ userReplica \in Seq(UserRows) /\ Len(userReplica) <= Len(users)
    /\ \A u \in DOMAIN users : users[u].profileEmail \in users[u].own \cup {None}
    /\ \A u \in DOMAIN userReplica : userReplica[u].profileEmail \in users[u].own \cup {None}

CacheOK ==
    /\ cache \in [UserIds -> Copies \cup {NotCached}]
    /\ \A u \in UserIds : IsCached(u) => u \in DOMAIN users

SessionsOK == SessionTypeOK /\ \A s \in DOMAIN session : session[s].user \in DOMAIN users

CountersOK ==
    /\ events \in 0..MaxEvents /\ failures \in 0..events /\ abandoned \in Nat
    /\ crossings \in [UserIds -> Nat]

Tables == TokensOK /\ UsersOK /\ CacheOK /\ SessionsOK /\ CountersOK

RequestsOK ==
    /\ request \in [Requests -> Locals]
    /\ \A r \in Requests : Sound(verification, users, Len(session), request[r])

\* Users are added, and keep the e-mails they began with.
Kept(accounts, later) ==
    /\ Len(accounts) <= Len(later)
    /\ \A u \in DOMAIN accounts : later[u].own = accounts[u].own

TablesKept ==
    /\ Tables'
    /\ Earlier(verification, verification') /\ Kept(users, users') /\ Len(session) <= Len(session')

LEMMA InvParts == AccountsInv <=> Tables /\ RequestsOK
<1>1. ASSUME AccountsInv PROVE Tables /\ RequestsOK
  BY <1>1 DEF AccountsInv, TypeOK, Tables, RequestsOK, TokensOK, UsersOK, CacheOK, SessionsOK, CountersOK
<1>2. ASSUME Tables, RequestsOK PROVE AccountsInv
  <2>1. ASSUME NEW r \in Requests
        PROVE  /\ request[r].token \in {0} \cup DOMAIN verification
               /\ request[r].user \in {0} \cup DOMAIN users
               /\ request[r].session \in {0} \cup DOMAIN session
    <3>1. /\ request[r].token \in 0..Len(verification) /\ request[r].user \in 0..Len(users)
          /\ request[r].session \in 0..Len(session)
      BY <1>2 DEF RequestsOK, Sound
    <3>2. /\ DOMAIN verification = 1..Len(verification) /\ Len(verification) \in Nat
          /\ DOMAIN users = 1..Len(users) /\ Len(users) \in Nat
          /\ DOMAIN session = 1..Len(session) /\ Len(session) \in Nat
      BY <1>2, LenProperties DEF Tables, TokensOK, TokenTypeOK, UsersOK, SessionsOK, SessionTypeOK
    <3> QED
      BY <3>1, <3>2
  <2> QED
    BY <1>2, <2>1 DEF AccountsInv, TypeOK, Tables, RequestsOK, TokensOK, UsersOK, CacheOK, SessionsOK, CountersOK
<1> QED
  BY <1>1, <1>2

LEMMA NumbersOfRows ==
  ASSUME Tables
  PROVE  /\ DOMAIN verification = 1..Len(verification) /\ Len(verification) \in Nat
         /\ DOMAIN users = 1..Len(users) /\ Len(users) \in Nat
         /\ DOMAIN session = 1..Len(session) /\ Len(session) \in Nat
         /\ MaxTokens \in Nat /\ MaxUsers \in Nat /\ MaxSessions \in Nat
         /\ DOMAIN verification \subseteq TokenIds /\ DOMAIN users \subseteq UserIds
         /\ DOMAIN session \subseteq 1..MaxSessions
<1>1. /\ DOMAIN verification = 1..Len(verification) /\ Len(verification) \in Nat
      /\ DOMAIN users = 1..Len(users) /\ Len(users) \in Nat
      /\ DOMAIN session = 1..Len(session) /\ Len(session) \in Nat
  BY LenProperties DEF Tables, TokensOK, TokenTypeOK, UsersOK, SessionsOK, SessionTypeOK
<1>2. MaxTokens \in Nat /\ MaxUsers \in Nat /\ MaxSessions \in Nat
  BY TokenAssumption, SessionAssumption
<1>3. Len(verification) <= MaxTokens /\ Len(users) <= MaxUsers /\ Len(session) <= MaxSessions
  BY DEF Tables, TokensOK, TokenTypeOK, UsersOK, SessionsOK, SessionTypeOK
<1> QED
  BY <1>1, <1>2, <1>3 DEF TokenIds, UserIds

LEMMA NothingNeeded ==
  ASSUME NEW rows, NEW accounts, NEW n \in Nat, Len(rows) \in Nat, Len(accounts) \in Nat
  PROVE  Sound(rows, accounts, n, Blank)
<1>1. MaxSessions \in Nat
  BY SessionAssumption
<1>2. Blank \in Locals /\ Blank.kind = "none" /\ Blank.pc = "rest"
  BY <1>1 DEF Blank, Locals, Labels
<1>3. Blank.token = 0 /\ Blank.user = 0 /\ Blank.session = 0
  BY DEF Blank
<1>4. KindsAt("rest") = {"none"}
  BY DEF KindsAt
<1> HIDE DEF Blank
<1> QED
  BY <1>2, <1>3, <1>4 DEF Sound, WithEmail, WithToken, WithUser, UserLabels, Authenticated

\* What a request knows nobody takes back.
LEMMA SoundStays ==
  ASSUME NEW rows \in Seq(Rows), NEW rows2 \in Seq(Rows), Earlier(rows, rows2),
         NEW accounts \in Seq(UserRows), NEW accounts2 \in Seq(UserRows), Kept(accounts, accounts2),
         NEW n \in Nat, NEW n2 \in Nat, n <= n2,
         NEW l, Sound(rows, accounts, n, l)
  PROVE  Sound(rows2, accounts2, n2, l)
<1>1. /\ DOMAIN rows = 1..Len(rows) /\ DOMAIN rows2 = 1..Len(rows2)
      /\ DOMAIN accounts = 1..Len(accounts) /\ DOMAIN accounts2 = 1..Len(accounts2)
      /\ {Len(rows), Len(rows2), Len(accounts), Len(accounts2)} \subseteq Nat
  BY LenProperties
<1>2. l.token \in 0..Len(rows2) /\ l.user \in 0..Len(accounts2) /\ l.session \in 0..n2
  BY <1>1 DEF Sound, Earlier, Kept
<1>3. Presented(rows, l.email) => Presented(rows2, l.email)
  <2> SUFFICES ASSUME NEW t \in DOMAIN rows, rows[t].email = l.email, rows[t].verified
               PROVE  Presented(rows2, l.email)
    BY DEF Presented
  <2>1. t \in DOMAIN rows2 /\ rows2[t].email = l.email /\ rows2[t].verified
    BY <1>1 DEF Earlier
  <2> QED
    BY <2>1 DEF Presented
<1>4. l.kind \in {"confirm", "move"} => l.token \in DOMAIN rows
  BY <1>1 DEF Sound, WithToken
<1>5. l.pc = "expire" => l.token \in DOMAIN rows
  <2>1. KindsAt("expire") \subseteq WithToken
    BY DEF KindsAt, WithToken
  <2> QED
    BY <1>1, <2>1 DEF Sound
<1>6. l.pc = "adopt" => l.user \in DOMAIN accounts
  BY <1>1 DEF Sound, UserLabels
<1> QED
  BY <1>2, <1>3, <1>4, <1>5, <1>6 DEF Sound, Earlier, Kept

\* A request that goes on to a label.
LEMMA Advance ==
  ASSUME NEW rows, NEW accounts, NEW n, NEW l, Sound(rows, accounts, n, l),
         NEW label \in Labels, l.kind \in KindsAt(label),
         label \in UserLabels => l.user # 0,
         label \notin {"adopt", "expire", "create", "mail"}
  PROVE  Sound(rows, accounts, n, [l EXCEPT !.pc = label])
<1> DEFINE next == [l EXCEPT !.pc = label]
<1>1. /\ next \in Locals /\ next.pc = label /\ next.kind = l.kind /\ next.email = l.email
      /\ next.token = l.token /\ next.user = l.user /\ next.session = l.session
  BY DEF Sound, Locals
<1> HIDE DEF next
<1>2. Sound(rows, accounts, n, next)
  BY <1>1 DEF Sound
<1> QED
  BY <1>2 DEF next

-----------------------------------------------------------------------------
(* What the operations on codes and tokens do to their table. *)

LEMMA EarlierTransitive ==
  ASSUME NEW a \in Seq(Rows), NEW b \in Seq(Rows), NEW c \in Seq(Rows), Earlier(a, b), Earlier(b, c)
  PROVE  Earlier(a, c)
<1>1. /\ DOMAIN a = 1..Len(a) /\ DOMAIN b = 1..Len(b) /\ DOMAIN c = 1..Len(c)
      /\ {Len(a), Len(b), Len(c)} \subseteq Nat
  BY LenProperties
<1> QED
  BY <1>1 DEF Earlier

LEMMA RowChanged ==
  ASSUME NEW rows \in Seq(Rows), NEW t \in DOMAIN rows, NEW row \in Rows,
         row.email = rows[t].email, rows[t].verified => row.verified
  PROVE  LET later == [rows EXCEPT ![t] = row]
         IN  later \in Seq(Rows) /\ Len(later) = Len(rows) /\ Earlier(rows, later)
<1> DEFINE later == [rows EXCEPT ![t] = row]
<1>1. DOMAIN rows = 1..Len(rows) /\ Len(rows) \in Nat
  BY LenProperties
<1>2. later \in Seq(Rows) /\ Len(later) = Len(rows)
  BY ExceptSeq
<1>3. \A s \in DOMAIN rows : later[s] = IF s = t THEN row ELSE rows[s]
  OBVIOUS
<1> HIDE DEF later
<1>4. Earlier(rows, later)
  BY <1>1, <1>2, <1>3 DEF Earlier
<1> QED
  BY <1>2, <1>4 DEF later

LEMMA RowsAdded ==
  ASSUME NEW rows \in Seq(Rows), NEW row \in Rows
  PROVE  /\ Append(rows, row) \in Seq(Rows) /\ Len(Append(rows, row)) = Len(rows) + 1
         /\ Earlier(rows, Append(rows, row))
<1>1. DOMAIN rows = 1..Len(rows) /\ Len(rows) \in Nat
  BY LenProperties
<1>2. /\ Append(rows, row) \in Seq(Rows) /\ Len(Append(rows, row)) = Len(rows) + 1
      /\ \A s \in 1..Len(rows) : Append(rows, row)[s] = rows[s]
  BY AppendProperties
<1> QED
  BY <1>1, <1>2 DEF Earlier

\* Rows are only changed for the better, so the replica stays a memory of them.
LEMMA TokensFrom ==
  ASSUME TokensOK,
         verification' \in Seq(Rows), Len(verification') <= MaxTokens,
         Earlier(verification, verification'), UNCHANGED replicaVars,
         mailed' \subseteq DOMAIN verification', held' \subseteq DOMAIN verification',
         uses' \in [TokenIds -> Nat], crossed' \in [TokenIds -> Nat]
  PROVE  TokensOK'
<1>1. verification \in Seq(Rows) /\ verificationReplica \in Seq(Rows)
  BY DEF TokensOK, TokenTypeOK
<1>2. Earlier(verificationReplica, verification')
  BY <1>1, EarlierTransitive DEF TokensOK
<1> QED
  BY <1>1, <1>2 DEF TokensOK, TokenTypeOK, replicaVars, Earlier

LEMMA DomainsGrow ==
  ASSUME NEW rows \in Seq(Rows), NEW later \in Seq(Rows), Earlier(rows, later)
  PROVE  DOMAIN rows \subseteq DOMAIN later
<1>1. DOMAIN rows = 1..Len(rows) /\ DOMAIN later = 1..Len(later) /\ Len(rows) \in Nat /\ Len(later) \in Nat
  BY LenProperties
<1> QED
  BY <1>1 DEF Earlier

LEMMA Counted ==
  ASSUME NEW history \in [TokenIds -> Nat], NEW t \in TokenIds
  PROVE  Count(history, t) \in [TokenIds -> Nat]
BY DEF Count

TokenOp(t) ==
    \/ ExpireToken(t) \/ AddExpiryTime(t) \/ UpdateVerificationStatus(t) \/ GenerateToken(t)
    \/ MailCode(t) \/ TokenTimesOut(t)

LEMMA TokenOpKeeps ==
  ASSUME Tables, NEW t \in DOMAIN verification, TokenOp(t)
  PROVE  TokensOK' /\ Earlier(verification, verification')
<1>1. /\ verification \in Seq(Rows) /\ verification[t] \in Rows /\ t \in TokenIds
      /\ Len(verification) <= MaxTokens
      /\ mailed \subseteq DOMAIN verification /\ held \subseteq DOMAIN verification
      /\ uses \in [TokenIds -> Nat] /\ crossed \in [TokenIds -> Nat]
  BY NumbersOfRows, ElementOfSeq DEF Tables, TokensOK, TokenTypeOK
<1>2. ASSUME NEW row \in Rows, verification' = [verification EXCEPT ![t] = row],
             row.email = verification[t].email, verification[t].verified => row.verified
      PROVE  /\ verification' \in Seq(Rows) /\ Len(verification') <= MaxTokens
             /\ Earlier(verification, verification')
             /\ mailed \subseteq DOMAIN verification' /\ held \subseteq DOMAIN verification'
  BY <1>1, <1>2, RowChanged, DomainsGrow
<1>3. UNCHANGED verification =>
             /\ verification' \in Seq(Rows) /\ Len(verification') <= MaxTokens
             /\ Earlier(verification, verification')
  BY <1>1, LenProperties DEF Earlier
<1>4. CASE ExpireToken(t) \/ AddExpiryTime(t) \/ TokenTimesOut(t)
  <2>1. \E expiry \in Expiries :
           verification' = [verification EXCEPT ![t] = [verification[t] EXCEPT !.expiry = expiry]]
    BY <1>4 DEF ExpireToken, AddExpiryTime, TokenTimesOut, Expiries
  <2>2. \A expiry \in Expiries :
           LET row == [verification[t] EXCEPT !.expiry = expiry]
           IN  row \in Rows /\ row.email = verification[t].email /\ row.verified = verification[t].verified
    BY <1>1 DEF Rows
  <2>3. uses' \in [TokenIds -> Nat] /\ crossed' \in [TokenIds -> Nat]
    <3>1. Count(uses, t) \in [TokenIds -> Nat]
      BY <1>1, Counted
    <3>2. uses' \in {uses, Count(uses, t)} /\ crossed' = crossed
      BY <1>4 DEF ExpireToken, AddExpiryTime, TokenTimesOut, tokenHistory
    <3> QED
      BY <1>1, <3>1, <3>2
  <2>4. UNCHANGED <<replicaVars, mailed, held>>
    BY <1>4 DEF ExpireToken, AddExpiryTime, TokenTimesOut
  <2>5. PICK expiry \in Expiries :
           verification' = [verification EXCEPT ![t] = [verification[t] EXCEPT !.expiry = expiry]]
    BY <2>1
  <2>6. /\ verification' \in Seq(Rows) /\ Len(verification') <= MaxTokens
        /\ Earlier(verification, verification')
        /\ mailed \subseteq DOMAIN verification' /\ held \subseteq DOMAIN verification'
    BY <1>2, <2>2, <2>5
  <2> QED
    BY <2>3, <2>4, <2>6, TokensFrom DEF Tables
<1>5. CASE UpdateVerificationStatus(t)
  <2>1. /\ verification' = [verification EXCEPT ![t] = [verification[t] EXCEPT !.verified = TRUE]]
        /\ UNCHANGED <<replicaVars, mailed, held, uses, crossed>>
    BY <1>5 DEF UpdateVerificationStatus, tokenHistory
  <2>2. LET row == [verification[t] EXCEPT !.verified = TRUE]
        IN  row \in Rows /\ row.email = verification[t].email /\ row.verified = TRUE
    BY <1>1 DEF Rows
  <2>3. /\ verification' \in Seq(Rows) /\ Len(verification') <= MaxTokens
        /\ Earlier(verification, verification')
        /\ mailed \subseteq DOMAIN verification' /\ held \subseteq DOMAIN verification'
    BY <1>2, <2>1, <2>2
  <2> QED
    BY <1>1, <2>1, <2>3, TokensFrom DEF Tables
<1>6. CASE GenerateToken(t) \/ MailCode(t)
  <2>1. /\ UNCHANGED <<verification, replicaVars, uses, crossed>>
        /\ mailed' \subseteq mailed \cup {t} /\ held' \subseteq held \cup {t}
    BY <1>6 DEF GenerateToken, MailCode, tokenHistory
  <2>2. mailed' \subseteq DOMAIN verification' /\ held' \subseteq DOMAIN verification'
    BY <1>1, <2>1
  <2> QED
    BY <1>1, <1>3, <2>1, <2>2, TokensFrom DEF Tables
<1> QED
  BY <1>4, <1>5, <1>6 DEF TokenOp

LEMMA CreateVerificationKeeps ==
  ASSUME Tables, NEW email \in Emails, CreateVerification(email)
  PROVE  /\ TokensOK' /\ Earlier(verification, verification')
         /\ Len(verification') = Len(verification) + 1
         /\ verification' \in Seq(Rows)
<1> DEFINE row == [email |-> email, verified |-> FALSE, expiry |-> "none"]
<1>1. row \in Rows
  BY DEF Rows, Expiries
<1>2. /\ Len(verification) < MaxTokens /\ verification' = Append(verification, row)
      /\ UNCHANGED <<replicaVars, mailed, held, uses, crossed>>
  BY DEF CreateVerification, tokenHistory
<1> HIDE DEF row
<1>3. /\ verification \in Seq(Rows)
      /\ mailed \subseteq DOMAIN verification /\ held \subseteq DOMAIN verification
      /\ uses \in [TokenIds -> Nat] /\ crossed \in [TokenIds -> Nat]
  BY DEF Tables, TokensOK, TokenTypeOK
<1>4. /\ verification' \in Seq(Rows) /\ Len(verification') = Len(verification) + 1
      /\ Earlier(verification, verification')
  BY <1>1, <1>2, <1>3, RowsAdded
<1>5. Len(verification') <= MaxTokens
  BY <1>2, <1>4, NumbersOfRows
<1>6. mailed' \subseteq DOMAIN verification' /\ held' \subseteq DOMAIN verification'
  BY <1>2, <1>3, <1>4, DomainsGrow
<1> QED
  BY <1>2, <1>3, <1>4, <1>5, <1>6, TokensFrom DEF Tables

LEMMA TokensSame ==
  ASSUME Tables, UNCHANGED tokenVars PROVE TokensOK' /\ Earlier(verification, verification')
<1>1. UNCHANGED <<verification, behind, verificationReplica, mailed, held, uses, crossed>>
  BY DEF tokenVars, tokenRows, tokenHistory
<1>2. Len(verification) \in Nat
  BY NumbersOfRows
<1> QED
  BY <1>1, <1>2 DEF Tables, TokensOK, TokenTypeOK, Earlier

\* A look-up changes no row.
LEMMA LookedKeeps ==
  ASSUME Tables, NEW t \in DOMAIN verification, NEW misses \in BOOLEAN, Looked(t, misses)
  PROVE  TokensOK' /\ Earlier(verification, verification')
<1>1. /\ UNCHANGED <<verification, behind, verificationReplica, mailed, held, uses>>
      /\ crossed' \in {crossed, Count(crossed, t)}
  BY DEF Looked, tokenRows
<1>2. Len(verification) \in Nat /\ t \in TokenIds /\ crossed \in [TokenIds -> Nat]
  BY NumbersOfRows DEF Tables, TokensOK, TokenTypeOK
<1>3. crossed' \in [TokenIds -> Nat]
  BY <1>1, <1>2, Counted
<1> QED
  BY <1>1, <1>2, <1>3 DEF Tables, TokensOK, TokenTypeOK, Earlier

-----------------------------------------------------------------------------
(* What requests do to the other tables. *)

LEMMA UserChanged ==
  ASSUME Tables, NEW u \in DOMAIN users, NEW row \in UserRows,
         row.own = users[u].own, row.profileEmail \in row.own \cup {None},
         users' = [users EXCEPT ![u] = row], UNCHANGED userReplica
  PROVE  UsersOK' /\ Kept(users, users') /\ Len(users') = Len(users)
<1>1. /\ DOMAIN users = 1..Len(users) /\ Len(users) \in Nat /\ users \in Seq(UserRows)
      /\ DOMAIN userReplica = 1..Len(userReplica) /\ Len(userReplica) \in Nat
      /\ Len(userReplica) <= Len(users)
  BY NumbersOfRows, LenProperties DEF Tables, UsersOK
<1>2. users' \in Seq(UserRows) /\ Len(users') = Len(users)
  BY <1>1, ExceptSeq
<1>3. DOMAIN users' = DOMAIN users /\ \A v \in DOMAIN users : users'[v] = IF v = u THEN row ELSE users[v]
  BY <1>1
<1>4. \A v \in DOMAIN users : users'[v].own = users[v].own /\ users'[v].profileEmail \in users'[v].own \cup {None}
  BY <1>3 DEF Tables, UsersOK
<1>5. DOMAIN userReplica \subseteq DOMAIN users
  BY <1>1
<1> QED
  BY <1>2, <1>3, <1>4, <1>5 DEF Tables, UsersOK, Kept

LEMMA UserAdded ==
  ASSUME Tables, NEW row \in UserRows, row.profileEmail = None, Len(users) < MaxUsers,
         users' = Append(users, row), UNCHANGED userReplica
  PROVE  UsersOK' /\ Kept(users, users') /\ Len(users') = Len(users) + 1
<1>1. /\ DOMAIN users = 1..Len(users) /\ Len(users) \in Nat /\ users \in Seq(UserRows)
      /\ DOMAIN userReplica = 1..Len(userReplica) /\ Len(userReplica) \in Nat
      /\ Len(userReplica) <= Len(users) /\ MaxUsers \in Nat
  BY NumbersOfRows, LenProperties DEF Tables, UsersOK
<1>2. /\ users' \in Seq(UserRows) /\ Len(users') = Len(users) + 1
      /\ \A v \in 1..Len(users) : users'[v] = users[v]
      /\ users'[Len(users) + 1] = row
  BY <1>1, AppendProperties
<1>3. DOMAIN users' = 1..(Len(users) + 1)
  BY <1>2, LenProperties
<1>4. \A v \in DOMAIN users' : users'[v].profileEmail \in users'[v].own \cup {None}
  <2> SUFFICES ASSUME NEW v \in DOMAIN users' PROVE users'[v].profileEmail \in users'[v].own \cup {None}
    OBVIOUS
  <2>1. v \in 1..Len(users) \/ v = Len(users) + 1
    BY <1>1, <1>3
  <2> QED
    BY <1>1, <1>2, <2>1 DEF Tables, UsersOK
<1>5. DOMAIN userReplica \subseteq 1..Len(users)
  BY <1>1
<1>6. Kept(users, users')
  BY <1>1, <1>2 DEF Kept
<1>7. Len(users') <= MaxUsers /\ Len(userReplica) <= Len(users')
  BY <1>1, <1>2
<1> QED
  BY <1>1, <1>2, <1>4, <1>5, <1>6, <1>7 DEF Tables, UsersOK

LEMMA UsersSame ==
  ASSUME Tables, UNCHANGED userVars PROVE UsersOK' /\ Kept(users, users')
<1>1. UNCHANGED <<users, userReplica>> /\ Len(users) \in Nat
  BY NumbersOfRows DEF userVars
<1> QED
  BY <1>1 DEF Tables, UsersOK, Kept

\* A log-in and every other look-up of a user by id may leave a copy of the row.
LEMMA CacheKept ==
  ASSUME Tables, Len(users) <= Len(users'), users' \in Seq(UserRows),
         UNCHANGED cache \/ \E u \in DOMAIN users : Keep(u)
  PROVE  CacheOK'
<1>1. DOMAIN users \subseteq DOMAIN users' /\ DOMAIN users \subseteq UserIds
  <2>1. DOMAIN users = 1..Len(users) /\ DOMAIN users' = 1..Len(users') /\ {Len(users), Len(users')} \subseteq Nat
    BY NumbersOfRows, LenProperties
  <2> QED
    BY <2>1, NumbersOfRows
<1>2. cache \in [UserIds -> Copies \cup {NotCached}] /\ \A u \in UserIds : IsCached(u) => u \in DOMAIN users
  BY DEF Tables, CacheOK
<1>3. CASE UNCHANGED cache
  BY <1>1, <1>2, <1>3 DEF CacheOK, IsCached
<1>4. ASSUME NEW u \in DOMAIN users, Keep(u) PROVE CacheOK'
  <2>1. users[u] \in UserRows
    BY NumbersOfRows, ElementOfSeq DEF Tables, UsersOK
  <2>2. Copy(u) \in Copies
    BY <2>1 DEF Copy, Copies, UserRows
  <2>3. FindUserById(u) \in Copies
    BY <1>1, <1>2, <2>2 DEF FindUserById, IsCached
  <2>4. cache' = cache \/ cache' = [cache EXCEPT ![u] = FindUserById(u)]
    BY <1>4 DEF Keep
  <2>5. cache' \in [UserIds -> Copies \cup {NotCached}] /\ \A v \in UserIds \ {u} : cache'[v] = cache[v]
    BY <1>1, <1>2, <2>3, <2>4
  <2> QED
    BY <1>1, <1>2, <2>5 DEF CacheOK, IsCached
<1> QED
  BY <1>3, <1>4

LEMMA UsersSeq == Tables => users \in Seq(UserRows)
BY DEF Tables, UsersOK

LEMMA SessionsKept ==
  ASSUME Tables, Len(users) <= Len(users'), users' \in Seq(UserRows),
         \/ UNCHANGED session
         \/ \E u \in DOMAIN users : LogoutUser(u) \/ CreateSession(u)
         \/ \E s \in DOMAIN session : UpdateLastLogin(s)
         \/ \E s \in 1..MaxSessions : SessionTimesOut(s)
  PROVE  SessionsOK' /\ Len(session) <= Len(session')
<1>1. DOMAIN users \subseteq DOMAIN users' /\ DOMAIN users \subseteq UserIds
  <2>1. DOMAIN users = 1..Len(users) /\ DOMAIN users' = 1..Len(users') /\ {Len(users), Len(users')} \subseteq Nat
    BY NumbersOfRows, LenProperties
  <2> QED
    BY <2>1, NumbersOfRows
<1>2. /\ session \in Seq(SessionRows) /\ Len(session) <= MaxSessions
      /\ DOMAIN session = 1..Len(session) /\ Len(session) \in Nat /\ MaxSessions \in Nat
      /\ \A s \in DOMAIN session : session[s].user \in DOMAIN users /\ session[s] \in SessionRows
  BY NumbersOfRows, ElementOfSeq DEF Tables, SessionsOK, SessionTypeOK
<1>3. CASE UNCHANGED session
  BY <1>1, <1>2, <1>3 DEF SessionsOK, SessionTypeOK
<1>4. ASSUME NEW s \in DOMAIN session, NEW row \in SessionRows, row.user = session[s].user,
             session' = [session EXCEPT ![s] = row]
      PROVE  SessionsOK' /\ Len(session) <= Len(session')
  <2>1. session' \in Seq(SessionRows) /\ Len(session') = Len(session)
    BY <1>2, <1>4, ExceptSeq
  <2>2. DOMAIN session' = DOMAIN session /\ \A i \in DOMAIN session : session'[i].user = session[i].user
    BY <1>4
  <2> QED
    BY <1>1, <1>2, <2>1, <2>2 DEF SessionsOK, SessionTypeOK
<1>5. ASSUME NEW u \in DOMAIN users, LogoutUser(u) PROVE SessionsOK' /\ Len(session) <= Len(session')
  <2> DEFINE row(s) == IF session[s].user = u THEN [session[s] EXCEPT !.logout = TRUE] ELSE session[s]
  <2>1. \A s \in DOMAIN session : row(s) \in SessionRows /\ row(s).user = session[s].user
    BY <1>2 DEF SessionRows
  <2>2. session' = [s \in 1..Len(session) |-> row(s)]
    BY <1>2, <1>5 DEF LogoutUser
  <2> HIDE DEF row
  <2>3. session' \in Seq(SessionRows) /\ Len(session') = Len(session) /\ DOMAIN session' = DOMAIN session
    <3>1. session' \in [1..Len(session) -> SessionRows]
      BY <1>2, <2>1, <2>2
    <3> QED
      BY <1>2, <3>1
  <2> QED
    BY <1>1, <1>2, <2>1, <2>2, <2>3 DEF SessionsOK, SessionTypeOK
<1>6. ASSUME NEW u \in DOMAIN users, CreateSession(u) PROVE SessionsOK' /\ Len(session) <= Len(session')
  <2> DEFINE row == [user |-> u, expired |-> FALSE, logout |-> FALSE]
  <2>1. row \in SessionRows /\ row.user = u
    BY <1>1 DEF SessionRows, UserIds
  <2>2. session' = Append(session, row) /\ Len(session) < MaxSessions
    BY <1>6 DEF CreateSession
  <2> HIDE DEF row
  <2>3. /\ session' \in Seq(SessionRows) /\ Len(session') = Len(session) + 1
        /\ \A s \in 1..Len(session) : session'[s] = session[s]
        /\ session'[Len(session) + 1] = row
    <3> DEFINE more == Append(session, row)
    <3>1. /\ more \in Seq(SessionRows) /\ Len(more) = Len(session) + 1
          /\ \A s \in 1..Len(session) : more[s] = session[s]
          /\ more[Len(session) + 1] = row
      BY <1>2, <2>1, AppendProperties
    <3>2. session' = more
      BY <2>2
    <3> HIDE DEF more
    <3> QED
      BY <3>1, <3>2
  <2>4. \A s \in DOMAIN session' : s \in 1..Len(session) \/ s = Len(session) + 1
    <3> DEFINE later == session'
    <3>1. later \in Seq(SessionRows) /\ Len(later) = Len(session) + 1
      BY <2>3
    <3> HIDE DEF later
    <3>2. DOMAIN later = 1..(Len(session) + 1)
      BY <3>1, LenProperties
    <3>3. \A s \in DOMAIN later : s \in 1..Len(session) \/ s = Len(session) + 1
      BY <1>2, <3>2
    <3> QED
      BY <3>3 DEF later
  <2>5. \A s \in DOMAIN session' : session'[s].user \in DOMAIN users'
    <3>1. \A s \in 1..Len(session) : session'[s].user \in DOMAIN users'
      BY <1>1, <1>2, <2>3
    <3>2. session'[Len(session) + 1].user \in DOMAIN users'
      BY <1>1, <2>1, <2>3
    <3> QED
      BY <2>4, <3>1, <3>2
  <2>6. Len(session') <= MaxSessions /\ Len(session) <= Len(session')
    <3>1. /\ Len(session) \in Nat /\ MaxSessions \in Nat /\ Len(session) < MaxSessions
          /\ Len(session') = Len(session) + 1
      BY <1>2, <2>2, <2>3
    <3> QED
      BY <3>1
  <2> QED
    BY <2>3, <2>5, <2>6 DEF SessionsOK, SessionTypeOK
<1>7. ASSUME NEW s \in DOMAIN session, UpdateLastLogin(s) \/ SessionTimesOut(s)
      PROVE  SessionsOK' /\ Len(session) <= Len(session')
  <2>1. PICK over \in BOOLEAN : session' = [session EXCEPT ![s] = [session[s] EXCEPT !.expired = over]]
    BY <1>7 DEF UpdateLastLogin, SessionTimesOut
  <2>2. LET row == [session[s] EXCEPT !.expired = over]
        IN  row \in SessionRows /\ row.user = session[s].user
    BY <1>2 DEF SessionRows
  <2> QED
    BY <1>4, <2>1, <2>2
<1>8. \A s \in 1..MaxSessions : SessionTimesOut(s) => s \in DOMAIN session
  BY DEF SessionTimesOut
<1> QED
  BY <1>3, <1>5, <1>6, <1>7, <1>8

LEMMA CountersKept ==
  ASSUME Tables,
         \/ UNCHANGED counters
         \/ UNCHANGED <<events, failures>> /\ abandoned' = abandoned + 1
         \/ events < MaxEvents /\ events' = events + 1 /\ failures' \in {failures, failures + 1}
            /\ UNCHANGED abandoned,
         UNCHANGED crossings \/ \E u \in UserIds : crossings' = [crossings EXCEPT ![u] = @ + 1]
  PROVE  CountersOK'
<1>1. events \in 0..MaxEvents /\ failures \in 0..events /\ abandoned \in Nat /\ MaxEvents \in Nat
  BY AccountAssumption DEF Tables, CountersOK
<1>2. crossings \in [UserIds -> Nat]
  BY DEF Tables, CountersOK
<1>3. crossings' \in [UserIds -> Nat]
  <2>1. ASSUME NEW u \in UserIds, crossings' = [crossings EXCEPT ![u] = @ + 1]
        PROVE  crossings' \in [UserIds -> Nat]
    BY <1>2, <2>1
  <2> QED
    BY <1>2, <2>1
<1>4. events' \in 0..MaxEvents /\ failures' \in 0..events' /\ abandoned' \in Nat
  BY <1>1 DEF counters
<1> QED
  BY <1>3, <1>4 DEF CountersOK

-----------------------------------------------------------------------------
(* The requests. *)

\* One request moves on over tables that keep what others know.
LEMMA Moves ==
  ASSUME AccountsInv, TablesKept, NEW r \in Requests, NEW l, Become(r, l),
         Sound(verification', users', Len(session'), l)
  PROVE  AccountsInv'
<1>1. Tables /\ RequestsOK /\ Tables'
  BY InvParts DEF TablesKept
<1>2. /\ verification \in Seq(Rows) /\ verification' \in Seq(Rows) /\ Earlier(verification, verification')
      /\ users \in Seq(UserRows) /\ users' \in Seq(UserRows) /\ Kept(users, users')
      /\ Len(session) \in Nat /\ Len(session') \in Nat /\ Len(session) <= Len(session')
  BY <1>1, NumbersOfRows, LenProperties
     DEF TablesKept, Tables, TokensOK, TokenTypeOK, UsersOK, SessionsOK, SessionTypeOK
<1>3. \A s \in Requests : Sound(verification', users', Len(session'), request[s])
  BY <1>1, <1>2, SoundStays DEF RequestsOK
<1>4. request' = [request EXCEPT ![r] = l] /\ l \in Locals
  BY DEF Become, Sound
<1>5. RequestsOK'
  BY <1>1, <1>3, <1>4 DEF RequestsOK
<1> QED
  BY <1>1, <1>5, InvParts, PTL

LEMMA Stands ==
  ASSUME AccountsInv, TablesKept, UNCHANGED request
  PROVE  AccountsInv'
<1>1. Tables /\ RequestsOK /\ Tables'
  BY InvParts DEF TablesKept
<1>2. /\ verification \in Seq(Rows) /\ verification' \in Seq(Rows) /\ Earlier(verification, verification')
      /\ users \in Seq(UserRows) /\ users' \in Seq(UserRows) /\ Kept(users, users')
      /\ Len(session) \in Nat /\ Len(session') \in Nat /\ Len(session) <= Len(session')
  BY <1>1, NumbersOfRows, LenProperties
     DEF TablesKept, Tables, TokensOK, TokenTypeOK, UsersOK, SessionsOK, SessionTypeOK
<1>3. RequestsOK'
  BY <1>1, <1>2, SoundStays DEF RequestsOK
<1> QED
  BY <1>1, <1>3, InvParts, PTL

-----------------------------------------------------------------------------
(* The invariant holds at first. *)

LEMMA InvInit == Init => AccountsInv
<1> SUFFICES ASSUME Init PROVE AccountsInv
  OBVIOUS
<1>0. MaxTokens \in Nat /\ MaxSessions \in Nat /\ MaxUsers \in Nat /\ MaxEvents \in Nat
  BY TokenAssumption, SessionAssumption, AccountAssumption
<1>1. TokensOK
  <2> DEFINE first == {<< >>} \cup {<<row>> : row \in FirstRows}
  <2>0. first \subseteq Seq(Rows)
    <3>1. << >> \in Seq(Rows)
      OBVIOUS
    <3>2. \A row \in FirstRows : <<row>> \in Seq(Rows)
      BY DEF FirstRows
    <3> QED
      BY <3>1, <3>2
  <2>1. \E rows \in first : Len(rows) <= MaxTokens /\ TokenInit(rows)
    BY Zenon DEF Init
  <2> HIDE DEF first
  <2>2. PICK rows \in Seq(Rows) : Len(rows) <= MaxTokens /\ TokenInit(rows)
    BY <2>0, <2>1
  <2>3. /\ verification = rows /\ behind = FALSE /\ verificationReplica = << >>
        /\ mailed \subseteq DOMAIN rows /\ held \subseteq DOMAIN rows
        /\ uses \in [TokenIds -> Nat] /\ crossed \in [TokenIds -> Nat]
    BY <2>2 DEF TokenInit
  <2>4. Len(rows) \in Nat
    BY <2>2, LenProperties
  <2>5. << >> \in Seq(Rows) /\ Len(<< >>) = 0 /\ DOMAIN << >> = {}
    BY EmptySeq
  <2>6. Earlier(verificationReplica, verification)
    BY <2>3, <2>4, <2>5 DEF Earlier
  <2>7. TokenTypeOK
    <3>1. verification \in Seq(Rows) /\ verificationReplica \in Seq(Rows) /\ Len(verification) <= MaxTokens
      BY <2>2, <2>3, <2>5
    <3>2. Len(verificationReplica) <= Len(verification)
      BY <2>6 DEF Earlier
    <3> QED
      BY <2>3, <3>1, <3>2 DEF TokenTypeOK
  <2> QED
    BY <2>6, <2>7 DEF TokensOK
<1>2. users \in Population /\ users \in Seq(UserRows) /\ Len(users) <= MaxUsers
  BY AccountAssumption DEF Init
<1>3. UsersOK
  <2>1. << >> \in Seq(UserRows) /\ Len(<< >>) = 0 /\ DOMAIN << >> = {}
    BY EmptySeq
  <2>2. Len(users) \in Nat /\ userReplica = << >>
    BY <1>2, LenProperties DEF Init
  <2>3. \A u \in DOMAIN users : users[u].profileEmail \in users[u].own \cup {None}
    BY <1>2, AccountAssumption
  <2> QED
    BY <1>2, <2>1, <2>2, <2>3 DEF UsersOK
<1>4. CacheOK
  BY DEF Init, CacheOK, IsCached
<1>5. SessionsOK
  <2>1. DOMAIN users = 1..Len(users) /\ Len(users) \in Nat
    BY <1>2, LenProperties
  <2>2. CASE session = << >>
    BY <1>0, <2>2, EmptySeq DEF SessionsOK, SessionTypeOK
  <2>3. ASSUME NEW u \in DOMAIN users, session = <<[user |-> u, expired |-> FALSE, logout |-> FALSE]>>
        PROVE  SessionsOK
    <3>1. [user |-> u, expired |-> FALSE, logout |-> FALSE] \in SessionRows
      BY <1>0, <1>2, <2>1 DEF SessionRows
    <3>2. session \in Seq(SessionRows) /\ DOMAIN session = {1} /\ session[1].user = u
      BY <2>3, <3>1
    <3>3. Len(session) <= MaxSessions
      BY DEF Init
    <3> QED
      BY <3>2, <3>3 DEF SessionsOK, SessionTypeOK
  <2> QED
    BY <2>2, <2>3 DEF Init
<1>6. CountersOK
  BY <1>0 DEF Init, CountersOK
<1>7. Tables
  BY <1>1, <1>3, <1>4, <1>5, <1>6 DEF Tables
<1>8. \A r \in Requests : Sound(verification, users, Len(session), request[r])
  BY <1>7, NumbersOfRows, NothingNeeded DEF Init
<1>9. request \in [Requests -> Locals]
  BY <1>8 DEF Init, Sound
<1> QED
  BY <1>7, <1>8, <1>9, InvParts DEF RequestsOK

-----------------------------------------------------------------------------
(* Every step keeps it: first what it does to the tables, then where the request is. *)

LEMMA TablesFrom ==
  ASSUME AccountsInv,
         \/ UNCHANGED tokenVars
         \/ \E t \in DOMAIN verification : TokenOp(t)
         \/ \E t \in DOMAIN verification, misses \in BOOLEAN : Looked(t, misses)
         \/ \E email \in Emails : CreateVerification(email),
         UsersOK', Kept(users, users'),
         UNCHANGED cache \/ \E u \in DOMAIN users : Keep(u),
         \/ UNCHANGED session
         \/ \E u \in DOMAIN users : LogoutUser(u) \/ CreateSession(u)
         \/ \E s \in DOMAIN session : UpdateLastLogin(s)
         \/ \E s \in 1..MaxSessions : SessionTimesOut(s),
         \/ UNCHANGED counters
         \/ UNCHANGED <<events, failures>> /\ abandoned' = abandoned + 1
         \/ events < MaxEvents /\ events' = events + 1 /\ failures' \in {failures, failures + 1}
            /\ UNCHANGED abandoned,
         UNCHANGED crossings \/ \E u \in UserIds : crossings' = [crossings EXCEPT ![u] = @ + 1]
  PROVE  TablesKept
<1>1. Tables
  BY InvParts
<1>2. TokensOK' /\ Earlier(verification, verification')
  BY <1>1, TokensSame, TokenOpKeeps, LookedKeeps, CreateVerificationKeeps
<1>3. Len(users) <= Len(users') /\ users' \in Seq(UserRows)
  BY DEF Kept, UsersOK
<1>4. CacheOK'
  BY <1>1, <1>3, CacheKept
<1>5. SessionsOK' /\ Len(session) <= Len(session')
  BY <1>1, <1>3, SessionsKept
<1>6. CountersOK'
  BY <1>1, CountersKept
<1> QED
  BY <1>2, <1>4, <1>5, <1>6 DEF TablesKept, Tables

LEMMA TablesSame ==
  ASSUME AccountsInv, UNCHANGED <<tokenVars, session, userVars, cache, counters, crossings>>
  PROVE  TablesKept
<1>1. UsersOK' /\ Kept(users, users')
  BY InvParts, UsersSame
<1> QED
  BY <1>1, TablesFrom

\* What may be said of a request by its label.
LEMMA AtLabel ==
  ASSUME AccountsInv, NEW r \in Requests
  PROVE  /\ Sound(verification, users, Len(session), request[r]) /\ request[r] \in Locals
         /\ request[r].kind \in KindsAt(request[r].pc)
         /\ request[r].pc \in UserLabels \/ request[r].kind \in WithUser =>
                request[r].user \in DOMAIN users /\ request[r].user \in UserIds
         /\ request[r].kind \in WithToken \/ request[r].pc = "mail" => request[r].token \in DOMAIN verification
         /\ request[r].kind \in Authenticated => request[r].session \in DOMAIN session
<1>1. Tables /\ Sound(verification, users, Len(session), request[r])
  BY InvParts DEF RequestsOK
<1> QED
  BY <1>1, NumbersOfRows DEF Sound

LEMMA Ends ==
  ASSUME AccountsInv, TablesKept, NEW r \in Requests, Refuse(r)
  PROVE  AccountsInv'
<1>1. Len(verification') \in Nat /\ Len(users') \in Nat /\ Len(session') \in Nat
  BY NumbersOfRows, LenProperties
     DEF TablesKept, Tables, TokensOK, TokenTypeOK, UsersOK, SessionsOK, SessionTypeOK
<1>2. Become(r, Blank)
  BY DEF Refuse, Goto
<1>3. Sound(verification', users', Len(session'), Blank)
  BY <1>1, NothingNeeded
<1> QED
  BY <1>2, <1>3, Moves

\* What a request knows is known of the tables after the step.
LEMMA StillSound ==
  ASSUME AccountsInv, TablesKept, NEW l, Sound(verification, users, Len(session), l)
  PROVE  Sound(verification', users', Len(session'), l)
<1>1. Tables
  BY InvParts
<1>2. /\ verification \in Seq(Rows) /\ verification' \in Seq(Rows) /\ Earlier(verification, verification')
      /\ users \in Seq(UserRows) /\ users' \in Seq(UserRows) /\ Kept(users, users')
      /\ Len(session) \in Nat /\ Len(session') \in Nat /\ Len(session) <= Len(session')
  BY <1>1, NumbersOfRows, LenProperties
     DEF TablesKept, Tables, TokensOK, TokenTypeOK, UsersOK, SessionsOK, SessionTypeOK
<1> QED
  BY <1>2, SoundStays

LEMMA GoesOn ==
  ASSUME AccountsInv, TablesKept, NEW r \in Requests, NEW label \in Labels, Goto(r, label),
         \/ label = "rest"
         \/ /\ request[r].kind \in KindsAt(label)
            /\ label \in UserLabels => request[r].user # 0
            /\ label \notin {"adopt", "expire", "create", "mail"}
  PROVE  AccountsInv'
<1>1. CASE label = "rest"
  BY <1>1, Ends DEF Refuse
<1>2. CASE label # "rest"
  <2> DEFINE l == [request[r] EXCEPT !.pc = label]
  <2>1. Become(r, l)
    BY <1>2 DEF Goto
  <2>2. Sound(verification, users, Len(session), l)
    BY <1>2, AtLabel, Advance
  <2> HIDE DEF l
  <2> QED
    BY <2>1, <2>2, StillSound, Moves
<1> QED
  BY <1>1, <1>2

\* A request that goes on with a user, a token or an e-mail it found.
LEMMA Continues ==
  ASSUME AccountsInv, TablesKept, NEW r \in Requests, NEW l \in Locals, Become(r, l),
         l.kind = request[r].kind, l.kind \in KindsAt(l.pc), l.email = request[r].email,
         l.session = request[r].session,
         l.token = request[r].token \/ l.token \in DOMAIN verification',
         l.kind \in {"confirm", "move"} => l.token = request[r].token,
         l.user = request[r].user \/ l.user \in DOMAIN users',
         l.kind \in WithUser \/ l.pc \in UserLabels => l.user # 0,
         l.pc \in {"adopt", "expire", "create", "mail"} =>
            Sound(verification', users', Len(session'), l)
  PROVE  AccountsInv'
<1>1. /\ DOMAIN verification' = 1..Len(verification') /\ Len(verification') \in Nat
      /\ DOMAIN users' = 1..Len(users') /\ Len(users') \in Nat
  BY LenProperties DEF TablesKept, Tables, TokensOK, TokenTypeOK, UsersOK
<1>2. Sound(verification', users', Len(session'), request[r])
  BY AtLabel, StillSound
<1>3. /\ l.token \in 0..Len(verification') /\ l.user \in 0..Len(users')
      /\ request[r].token # 0 => l.token # 0
  BY <1>1, <1>2 DEF Sound
<1>4. l.pc \notin {"adopt", "expire", "create", "mail"} => Sound(verification', users', Len(session'), l)
  BY <1>2, <1>3 DEF Sound
<1> QED
  BY <1>4, Moves

SeenWithin == DOMAIN SeenRows \subseteq DOMAIN verification /\ DOMAIN SeenUsers \subseteq DOMAIN users

LEMMA SeenRowsExist ==
  ASSUME AccountsInv
  PROVE  /\ SeenWithin
         /\ \A t \in DOMAIN SeenRows : /\ SeenRows[t].email = verification[t].email
                                       /\ SeenRows[t].verified => verification[t].verified
         /\ \A u \in DOMAIN SeenUsers : SeenUsers[u].profileEmail \in users[u].own \cup {None}
<1>1. Tables
  BY InvParts
<1>2. /\ verificationReplica \in Seq(Rows) /\ Len(verificationReplica) <= Len(verification)
      /\ userReplica \in Seq(UserRows) /\ Len(userReplica) <= Len(users)
  BY <1>1 DEF Tables, TokensOK, UsersOK, TokenTypeOK
<1>3. DOMAIN verificationReplica \subseteq DOMAIN verification /\ DOMAIN userReplica \subseteq DOMAIN users
  <2>1. /\ DOMAIN verificationReplica = 1..Len(verificationReplica) /\ Len(verificationReplica) \in Nat
        /\ DOMAIN userReplica = 1..Len(userReplica) /\ Len(userReplica) \in Nat
    BY <1>2, LenProperties
  <2> QED
    BY <1>1, <1>2, <2>1, NumbersOfRows
<1> QED
  BY <1>1, <1>3 DEF Tables, TokensOK, UsersOK, Earlier, SeenWithin, SeenRows, SeenUsers

\* The look-ups of codes and tokens.
LEMMA LooksUp ==
  ASSUME AccountsInv, NEW r \in Requests, CheckCode(r) \/ CheckToken(r) \/ CompleteEmailVerification(r)
  PROVE  LET t == request[r].token
         IN  /\ t \in DOMAIN verification
             /\ UNCHANGED tokenVars \/ \E misses \in BOOLEAN : Looked(t, misses)
<1> DEFINE t == request[r].token
<1>1. request[r].pc \in {"code", "token", "move"}
  BY DEF CheckCode, CheckToken, CompleteEmailVerification, At
<1>2. t \in DOMAIN verification
  <2>1. KindsAt("code") \cup KindsAt("token") \cup KindsAt("move") \subseteq WithToken
    BY DEF KindsAt, WithToken
  <2> QED
    BY <1>1, <2>1, AtLabel
<1>3. UNCHANGED tokenVars \/ \E misses \in BOOLEAN : Looked(t, misses)
  <2>1. CASE CheckCode(r)
    <3>1. UNCHANGED tokenVars \/ CodeLookedUp(r, t)
      BY <2>1 DEF CheckCode, Mine
    <3> QED
      BY <3>1 DEF CodeLookedUp
  <2>2. CASE CheckToken(r)
    BY <2>2 DEF CheckToken, Mine
  <2>3. CASE CompleteEmailVerification(r)
    <3>1. UNCHANGED tokenVars \/ CodeLookedUp(r, t)
      BY <2>3 DEF CompleteEmailVerification, Mine
    <3> QED
      BY <3>1 DEF CodeLookedUp
  <2> QED
    BY <2>1, <2>2, <2>3
<1> QED
  BY <1>2, <1>3

\* Steps that only look something up and go on or give up.
LEMMA LookUpsKeep ==
  ASSUME AccountsInv, NEW r \in Requests,
         FindSession(r) \/ CheckNewUser(r) \/ LoginReward(r) \/ CheckCode(r)
  PROVE  AccountsInv'
<1>1. TablesKept
  <2>1. CASE CheckCode(r)
    <3>1. UNCHANGED <<session, userVars, cache, counters, crossings>> /\ UsersOK' /\ Kept(users, users')
      BY <2>1, InvParts, UsersSame DEF CheckCode
    <3> QED
      BY <2>1, <3>1, LooksUp, TablesFrom
  <2> QED
    BY <2>1, TablesSame DEF FindSession, CheckNewUser, LoginReward
<1>2. PICK label \in Labels :
         /\ Goto(r, label)
         /\ label = "rest" \/ <<request[r].pc, label>> \in
              {<<"session", "open">>, <<"session", "logOutFirst">>, <<"check", "token">>,
               <<"reward", "session">>, <<"code", "prolong">>}
  BY DEF FindSession, CheckNewUser, LoginReward, CheckCode, GotoIf, Refuse, At, Labels
<1>3. CASE label = "rest"
  BY <1>1, <1>2, <1>3, GoesOn
<1>4. CASE label # "rest"
  <2>1. request[r].kind \in KindsAt(request[r].pc)
    BY AtLabel
  <2>2. request[r].kind \in KindsAt(label) /\ label \notin {"adopt", "expire", "create", "mail"}
    BY <1>2, <1>4, <2>1 DEF KindsAt
  <2>3. label \in UserLabels => request[r].pc \in UserLabels
    BY <1>2, <1>4 DEF UserLabels
  <2>4. request[r].pc \in UserLabels => request[r].user # 0
    BY AtLabel DEF Sound
  <2> QED
    BY <1>1, <1>2, <2>2, <2>3, <2>4, GoesOn
<1> QED
  BY <1>3, <1>4

\* Sessions.
LEMMA AuthKeeps ==
  ASSUME AccountsInv, NEW r \in Requests,
         VerifySession(r) \/ Touch(r) \/ LogoutFirst(r) \/ OpenSession(r) \/ Logout(r)
  PROVE  AccountsInv'
<1> DEFINE l == request[r]
<1>0. /\ UsersOK /\ users \in Seq(UserRows) /\ l \in Locals
      /\ (UNCHANGED userVars => UsersOK' /\ Kept(users, users'))
      /\ \A s \in DOMAIN session : session[s].user \in DOMAIN users
      /\ DOMAIN users \subseteq UserIds /\ 0 \notin DOMAIN users
  BY InvParts, AtLabel, UsersSame, NumbersOfRows DEF Tables, UsersOK, SessionsOK
<1>1. CASE VerifySession(r)
  <2> DEFINE s == l.session
             u == session[s].user
  <2>1. l.pc = "authenticate" /\ UNCHANGED <<tokenVars, userVars, cache, counters, crossings>>
    BY <1>1 DEF VerifySession, At
  <2>2. s \in DOMAIN session /\ l.kind \in Authenticated /\ u \in DOMAIN users
    <3>1. KindsAt("authenticate") = Authenticated
      BY DEF KindsAt
    <3> QED
      BY <1>0, <2>1, <3>1, AtLabel
  <2>3. LogoutUser(u) \/ UNCHANGED session
    BY <1>1 DEF VerifySession, Mine
  <2>4. TablesKept
    BY <1>0, <2>1, <2>2, <2>3, TablesFrom
  <2>5. Refuse(r) \/ Become(r, [l EXCEPT !.pc = "touch", !.user = u])
    BY <1>1 DEF VerifySession, Mine
  <2>6. CASE Become(r, [l EXCEPT !.pc = "touch", !.user = u])
    <3> DEFINE next == [l EXCEPT !.pc = "touch", !.user = u]
    <3>1. "touch" \in Labels /\ u \in UserIds /\ u # 0
      BY <1>0, <2>2 DEF Labels
    <3>2. /\ next \in Locals /\ next.pc = "touch" /\ next.user = u /\ next.kind = l.kind
          /\ next.email = l.email /\ next.token = l.token /\ next.session = l.session
      BY <1>0, <3>1 DEF Locals
    <3>3. KindsAt("touch") = Authenticated
      BY DEF KindsAt
    <3>4. u \in DOMAIN users'
      BY <2>1, <2>2 DEF userVars
    <3> HIDE DEF next, u
    <3>5. AccountsInv'
      BY <2>2, <2>4, <2>6, <3>1, <3>2, <3>3, <3>4, Continues DEF next
    <3> QED
      BY <3>5
  <2> QED
    BY <2>4, <2>5, <2>6, Ends
<1>2. CASE Touch(r)
  <2>1. /\ l.pc = "touch" /\ UpdateLastLogin(l.session) /\ Goto(r, Handler(l.kind))
        /\ UNCHANGED <<tokenVars, userVars, cache, counters>>
        /\ crossings' = crossings \/ crossings' = [crossings EXCEPT ![l.user] = @ + 1]
    BY <1>2 DEF Touch, At, Mine, Cross
  <2>2. l.kind \in Authenticated /\ l.session \in DOMAIN session /\ l.user \in UserIds /\ l.user # 0
    <3>1. KindsAt("touch") = Authenticated /\ "touch" \in UserLabels
      BY DEF KindsAt, UserLabels
    <3> QED
      BY <1>0, <2>1, <3>1, AtLabel
  <2>3. TablesKept
    BY <1>0, <2>1, <2>2, TablesFrom
  <2>4. /\ Handler(l.kind) \in Labels
        /\ \/ Handler(l.kind) = "rest"
           \/ /\ l.kind \in KindsAt(Handler(l.kind))
              /\ Handler(l.kind) \notin {"adopt", "expire", "create", "mail"}
    BY <2>2 DEF Authenticated, Handler, KindsAt, Labels
  <2> QED
    BY <2>1, <2>2, <2>3, <2>4, GoesOn
<1>3. CASE LogoutFirst(r) \/ OpenSession(r) \/ Logout(r)
  <2>1. /\ l.pc \in {"logOutFirst", "open", "logout"}
        /\ LogoutUser(l.user) \/ CreateSession(l.user) \/ UNCHANGED session
        /\ Keep(l.user) \/ UNCHANGED cache
        /\ UNCHANGED <<tokenVars, userVars, counters>>
        /\ crossings' = crossings \/ crossings' = [crossings EXCEPT ![l.user] = @ + 1]
    BY <1>3 DEF LogoutFirst, OpenSession, Logout, At, Mine, Cross
  <2>2. l.user \in DOMAIN users /\ l.user \in UserIds /\ l.user # 0
    <3>1. {"logOutFirst", "open", "logout"} \subseteq UserLabels
      BY DEF UserLabels
    <3> QED
      BY <1>0, <2>1, <3>1, AtLabel
  <2>3. TablesKept
    BY <1>0, <2>1, <2>2, TablesFrom
  <2>4. CASE LogoutFirst(r)
    <3>1. l.pc = "logOutFirst" /\ Goto(r, "open")
      BY <2>4 DEF LogoutFirst, At
    <3>2. KindsAt("logOutFirst") = KindsAt("open") /\ "open" \in Labels
      BY DEF KindsAt, Labels
    <3>3. l.kind \in KindsAt("open")
      BY <3>1, <3>2, AtLabel
    <3> QED
      BY <2>2, <2>3, <3>1, <3>2, <3>3, GoesOn
  <2>5. CASE OpenSession(r) \/ Logout(r)
    BY <2>3, <2>5, Ends DEF OpenSession, Logout
  <2> QED
    BY <1>3, <2>4, <2>5
<1> QED
  BY <1>1, <1>2, <1>3

\* A write to the row of one user: the e-mails it began with stay.
LEMMA UserWritten ==
  ASSUME AccountsInv, NEW u \in DOMAIN users, NEW row \in UserRows,
         row.own = users[u].own, row.profileEmail \in {users[u].profileEmail, None},
         users' = [users EXCEPT ![u] = row], UNCHANGED userReplica
  PROVE  UsersOK' /\ Kept(users, users')
<1>1. Tables
  BY InvParts
<1>2. row.profileEmail \in row.own \cup {None}
  BY <1>1 DEF Tables, UsersOK
<1> QED
  BY <1>1, <1>2, UserChanged

\* What StartVerification, AdoptProfileEmail and ClearProfileEmail find and write.
LEMMA AdoptionKeeps ==
  ASSUME AccountsInv, NEW r \in Requests,
         StartVerification(r) \/ AdoptProfileEmail(r) \/ ClearProfileEmail(r)
  PROVE  AccountsInv'
<1> DEFINE l == request[r]
<1>0. users \in Seq(UserRows) /\ l \in Locals /\ Sound(verification, users, Len(session), l)
  BY InvParts, AtLabel, UsersSeq
<1>1. CASE StartVerification(r)
  <2>1. /\ l.pc = "ask" /\ UNCHANGED <<tokenVars, session, userVars, cache, counters, crossings>>
        /\ \/ \E p \in FindProfileByEmail(l.email) : Become(r, [l EXCEPT !.pc = "adopt", !.user = p])
           \/ Goto(r, "generate") \/ Goto(r, "rest")
    BY <1>1 DEF StartVerification, At, Mine, GotoIf
  <2>2. TablesKept
    BY <2>1, TablesSame
  <2>3. l.kind \in {"askEmail", "askPassword"} /\ l.email \in Emails
    <3>1. KindsAt("ask") = {"askEmail", "askPassword"}
      BY DEF KindsAt
    <3> QED
      BY <1>0, <2>1, <3>1 DEF Sound, WithEmail
  <2>4. ASSUME NEW p \in FindProfileByEmail(l.email), Become(r, [l EXCEPT !.pc = "adopt", !.user = p])
        PROVE  AccountsInv'
    <3> DEFINE next == [l EXCEPT !.pc = "adopt", !.user = p]
    <3>1. p \in DOMAIN users /\ p \in UserIds /\ p # 0
      BY SeenRowsExist, InvParts, NumbersOfRows DEF FindProfileByEmail, SeenWithin
    <3>2. l.email \in users[p].own
      <4>1. l.email \in users[p].own \cup {None}
        BY SeenRowsExist DEF FindProfileByEmail
      <4> QED
        BY <2>3, <4>1, AccountAssumption
    <3>3. /\ next \in Locals /\ next.pc = "adopt" /\ next.user = p /\ next.kind = l.kind
          /\ next.email = l.email /\ next.token = l.token /\ next.session = l.session
      <4>1. next \in Locals
        BY <1>0, <3>1 DEF Locals, Labels
      <4>2. next.pc = "adopt" /\ next.user = p /\ next.kind = l.kind
        BY <1>0 DEF Locals
      <4>3. next.email = l.email /\ next.token = l.token /\ next.session = l.session
        BY <1>0 DEF Locals
      <4> QED
        BY <4>1, <4>2, <4>3
    <3>4. KindsAt("adopt") = {"askEmail", "askPassword"}
      BY DEF KindsAt
    <3>5. p \in 0..Len(users)
      BY <3>1, InvParts, NumbersOfRows
    <3> HIDE DEF next
    <3>6. Sound(verification, users, Len(session), next)
      BY <1>0, <2>1, <2>3, <3>1, <3>2, <3>3, <3>4, <3>5 DEF Sound
    <3> QED
      BY <2>2, <2>4, <3>6, StillSound, Moves DEF next
  <2>5. CASE Goto(r, "generate")
    <3>1. l.kind \in KindsAt("generate") /\ "generate" \in Labels /\ "generate" \notin UserLabels
      BY <2>3 DEF KindsAt, Labels, UserLabels
    <3> QED
      BY <2>2, <2>5, <3>1, GoesOn
  <2> QED
    BY <2>1, <2>2, <2>4, <2>5, Ends DEF Refuse
<1>2. CASE AdoptProfileEmail(r) \/ ClearProfileEmail(r)
  <2>1. /\ l.pc \in {"adopt", "unprofile"}
        /\ UNCHANGED <<tokenVars, session, userReplica, cache, counters, crossings>>
        /\ \/ l.pc = "adopt" /\ Goto(r, "unprofile")
           \/ l.pc = "unprofile" /\ (Goto(r, "generate") \/ Goto(r, "rest"))
        /\ \/ users' = [users EXCEPT ![l.user] = [users[l.user] EXCEPT !.email = l.email]]
           \/ users' = [users EXCEPT ![l.user] = [users[l.user] EXCEPT !.profileEmail = None]]
    BY <1>2 DEF AdoptProfileEmail, ClearProfileEmail, At, Mine, GotoIf
  <2>2. l.user \in DOMAIN users /\ l.user # 0 /\ l.email \in Emails /\ l.kind \in {"askEmail", "askPassword"}
    <3>1. KindsAt("adopt") = {"askEmail", "askPassword"} /\ KindsAt("unprofile") = {"askEmail", "askPassword"}
      BY DEF KindsAt
    <3>2. {"adopt", "unprofile"} \subseteq UserLabels
      BY DEF UserLabels
    <3> QED
      BY <1>0, <2>1, <3>1, <3>2, AtLabel DEF Sound, WithEmail
  <2>3. users[l.user] \in UserRows
    BY <1>0, <2>2, ElementOfSeq, LenProperties
  <2>4. PICK row \in UserRows : /\ row.own = users[l.user].own
                                /\ row.profileEmail \in {users[l.user].profileEmail, None}
                                /\ users' = [users EXCEPT ![l.user] = row]
    <3>1. [users[l.user] EXCEPT !.email = l.email] \in UserRows
      BY <2>2, <2>3 DEF UserRows
    <3>2. [users[l.user] EXCEPT !.profileEmail = None] \in UserRows
      BY <2>3 DEF UserRows
    <3>3. /\ [users[l.user] EXCEPT !.email = l.email].own = users[l.user].own
          /\ [users[l.user] EXCEPT !.email = l.email].profileEmail = users[l.user].profileEmail
          /\ [users[l.user] EXCEPT !.profileEmail = None].own = users[l.user].own
          /\ [users[l.user] EXCEPT !.profileEmail = None].profileEmail = None
      BY <2>3 DEF UserRows
    <3> QED
      BY <2>1, <3>1, <3>2, <3>3
  <2>5. UsersOK' /\ Kept(users, users')
    BY <2>1, <2>2, <2>4, UserWritten
  <2>6. TablesKept
    BY <2>1, <2>5, TablesFrom
  <2>7. /\ l.kind \in KindsAt("unprofile") /\ l.kind \in KindsAt("generate")
        /\ {"rest", "unprofile", "generate"} \subseteq Labels
    BY <2>2 DEF KindsAt, Labels
  <2> QED
    BY <2>1, <2>2, <2>6, <2>7, GoesOn
<1> QED
  BY <1>1, <1>2

LEMMA CodesKeep ==
  ASSUME AccountsInv, NEW r \in Requests,
         StartEmailVerification(r) \/ GenerateVerification(r) \/ Mail(r) \/ Prolong(r)
           \/ SetVerified(r) \/ HandOut(r)
  PROVE  AccountsInv'
<1> DEFINE l == request[r]
<1>0. /\ users \in Seq(UserRows) /\ l \in Locals /\ Sound(verification, users, Len(session), l)
      /\ (UNCHANGED userVars => UsersOK' /\ Kept(users, users')) /\ l.kind \in KindsAt(l.pc)
      /\ DOMAIN verification \subseteq TokenIds /\ 0 \notin DOMAIN verification
  BY InvParts, AtLabel, UsersSeq, UsersSame, NumbersOfRows
<1>1. CASE StartEmailVerification(r)
  <2>1. /\ l.pc = "askOwn" /\ Keep(l.user) /\ UNCHANGED <<tokenVars, session, userVars, counters, crossings>>
        /\ Goto(r, "generate") \/ Goto(r, "rest")
    BY <1>1 DEF StartEmailVerification, At, Mine, GotoIf
  <2>2. l.user \in DOMAIN users /\ l.kind \in KindsAt("generate") /\ {"rest", "generate"} \subseteq Labels
    <3>1. "askOwn" \in UserLabels /\ KindsAt("askOwn") \subseteq KindsAt("generate")
      BY DEF UserLabels, KindsAt
    <3> QED
      BY <1>0, <2>1, <3>1, AtLabel DEF Labels
  <2>3. TablesKept
    BY <1>0, <2>1, <2>2, TablesFrom
  <2>4. "generate" \notin UserLabels
    BY DEF UserLabels
  <2> QED
    BY <2>1, <2>2, <2>3, <2>4, GoesOn
<1>2. CASE GenerateVerification(r)
  <2>1. l.pc = "generate" /\ UNCHANGED <<session, userVars, cache, counters, crossings>>
    BY <1>2 DEF GenerateVerification, At
  <2>2. l.kind \in KindsAt("mail") /\ l.email \in Emails /\ l.kind \notin {"confirm", "move"} /\ l.kind \notin WithUser
    <3>1. KindsAt("generate") = {"askEmail", "askPassword", "askAdmin", "askOwn"} /\ KindsAt("mail") = KindsAt("generate")
      BY DEF KindsAt
    <3>2. l.kind \in {"askEmail", "askPassword", "askAdmin", "askOwn"}
      BY <1>0, <2>1, <3>1
    <3> QED
      BY <1>0, <3>1, <3>2 DEF Sound, WithEmail, WithUser
  <2>3. /\ UNCHANGED tokenVars \/ CreateVerification(l.email)
        /\ \E t : /\ Become(r, [l EXCEPT !.pc = "mail", !.token = t])
                  /\ \/ UNCHANGED tokenVars /\ t \in FindVerificationByEmail(l.email)
                     \/ CreateVerification(l.email) /\ t = Len(verification) + 1
    BY <1>2 DEF GenerateVerification, Mine
  <2>4. TablesKept
    BY <1>0, <2>1, <2>2, <2>3, TablesFrom
  <2>5. PICK t : /\ Become(r, [l EXCEPT !.pc = "mail", !.token = t])
                 /\ \/ UNCHANGED tokenVars /\ t \in FindVerificationByEmail(l.email)
                    \/ CreateVerification(l.email) /\ t = Len(verification) + 1
    BY <2>3
  <2>6. t \in DOMAIN verification' /\ t # 0 /\ t \in 0..Len(verification') /\ t \in TokenIds
    <3>1. /\ verification' \in Seq(Rows) /\ Len(verification') <= MaxTokens
          /\ Len(verification) \in Nat /\ MaxTokens \in Nat /\ DOMAIN verification = 1..Len(verification)
      BY <2>4, InvParts, NumbersOfRows DEF TablesKept, Tables, TokensOK, TokenTypeOK
    <3>2. CASE t \in FindVerificationByEmail(l.email)
      <4>1. t \in DOMAIN verification
        BY <3>2, SeenRowsExist DEF FindVerificationByEmail, SeenWithin
      <4>2. DOMAIN verification \subseteq DOMAIN verification'
        BY <2>4, <3>1, InvParts, DomainsGrow DEF TablesKept, Tables, TokensOK, TokenTypeOK
      <4>3. DOMAIN verification' = 1..Len(verification') /\ Len(verification') \in Nat
        BY <3>1, LenProperties
      <4> QED
        BY <1>0, <4>1, <4>2, <4>3
    <3>3. CASE CreateVerification(l.email) /\ t = Len(verification) + 1
      <4>1. Len(verification') = Len(verification) + 1
        BY <2>2, <3>3, InvParts, CreateVerificationKeeps
      <4>2. DOMAIN verification' = 1..Len(verification')
        BY <3>1, LenProperties
      <4> QED
        BY <3>1, <3>3, <4>1, <4>2 DEF TokenIds
    <3> QED
      BY <2>5, <3>2, <3>3
  <2> DEFINE next == [l EXCEPT !.pc = "mail", !.token = t]
  <2>7. /\ next \in Locals /\ next.pc = "mail" /\ next.user = l.user /\ next.kind = l.kind
        /\ next.email = l.email /\ next.token = t /\ next.session = l.session
    <3>1. next \in Locals
      BY <1>0, <2>6 DEF Locals, Labels
    <3>2. next.pc = "mail" /\ next.user = l.user /\ next.kind = l.kind
      BY <1>0 DEF Locals
    <3>3. next.email = l.email /\ next.token = t /\ next.session = l.session
      BY <1>0 DEF Locals
    <3> QED
      BY <3>1, <3>2, <3>3
  <2>8. Sound(verification', users', Len(session'), l)
    BY <1>0, <2>4, StillSound
  <2> HIDE DEF next
  <2>9. Sound(verification', users', Len(session'), next)
    <3>1. "mail" \notin UserLabels
      BY DEF UserLabels
    <3> QED
      BY <2>2, <2>6, <2>7, <2>8, <3>1 DEF Sound
  <2> QED
    BY <2>4, <2>5, <2>9, Moves DEF next
<1>3. CASE Mail(r) \/ HandOut(r) \/ Prolong(r) \/ SetVerified(r)
  <2>1. /\ l.pc \in {"mail", "handOut", "prolong", "verified"}
        /\ TokenOp(l.token) /\ UNCHANGED <<session, userVars, cache, counters, crossings>>
    BY <1>3 DEF Mail, HandOut, Prolong, SetVerified, TokenOp, At, Mine
  <2>2. l.token \in DOMAIN verification
    <3>1. KindsAt("handOut") \cup KindsAt("prolong") \cup KindsAt("verified") \subseteq WithToken
      BY DEF KindsAt, WithToken
    <3> QED
      BY <1>0, <2>1, <3>1, AtLabel
  <2>3. TablesKept
    BY <1>0, <2>1, <2>2, TablesFrom
  <2>4. CASE Mail(r) \/ HandOut(r)
    BY <2>3, <2>4, Ends DEF Mail, HandOut
  <2>5. CASE Prolong(r)
    <3>1. l.pc = "prolong" /\ Goto(r, "verified")
      BY <2>5 DEF Prolong, At
    <3>2. KindsAt("prolong") \subseteq KindsAt("verified") /\ "verified" \in Labels /\ "verified" \notin UserLabels
      BY DEF KindsAt, Labels, UserLabels
    <3> QED
      BY <1>0, <2>3, <3>1, <3>2, GoesOn
  <2>6. CASE SetVerified(r)
    <3>1. (l.kind = "confirm" /\ Goto(r, "handOut")) \/ Refuse(r)
      BY <2>6 DEF SetVerified, GotoIf, Refuse, Mine
    <3>2. "confirm" \in KindsAt("handOut") /\ "handOut" \in Labels /\ "handOut" \notin UserLabels
      BY DEF KindsAt, Labels, UserLabels
    <3> QED
      BY <2>3, <3>1, <3>2, GoesOn, Ends
  <2> QED
    BY <1>3, <2>4, <2>5, <2>6
<1> QED
  BY <1>1, <1>2, <1>3

\* A token that is accepted is one of a row that is verified, of the e-mail the caller named.
LEMMA TokensKeep ==
  ASSUME AccountsInv, NEW r \in Requests, CheckToken(r) \/ SpendToken(r)
  PROVE  AccountsInv'
<1> DEFINE l == request[r]
<1>0. /\ l \in Locals /\ Sound(verification, users, Len(session), l)
      /\ (UNCHANGED userVars => UsersOK' /\ Kept(users, users')) /\ l.kind \in KindsAt(l.pc)
  BY InvParts, AtLabel, UsersSame
<1>1. l.pc \in {"token", "expire"}
  BY DEF CheckToken, SpendToken, At
<1>2. /\ l.kind \in {"spend", "reset", "signup", "recover"} /\ l.token \in DOMAIN verification /\ l.token # 0
      /\ l.kind \in {"signup", "recover"} => l.email \in Emails
  <2>1. /\ KindsAt("token") = {"spend", "reset", "signup", "recover"}
        /\ KindsAt("expire") = {"spend", "reset", "signup", "recover"}
    BY DEF KindsAt
  <2>2. l.kind \in {"spend", "reset", "signup", "recover"}
    BY <1>0, <1>1, <2>1
  <2>3. {"spend", "reset", "signup", "recover"} \subseteq WithToken /\ {"signup", "recover"} \subseteq WithEmail
    BY DEF WithToken, WithEmail
  <2> QED
    BY <1>0, <2>2, <2>3, AtLabel DEF Sound
<1>3. CASE CheckToken(r)
  <2>1. /\ l.pc = "token" /\ UNCHANGED <<session, userVars, cache, counters, crossings>>
        /\ \/ Refuse(r)
           \/ VerifyToken(l.token, l.email) /\ Goto(r, "expire")
    BY <1>3 DEF CheckToken, At, Mine, GotoIf, Refuse
  <2>2. TablesKept
    BY <1>0, <1>3, <2>1, LooksUp, TablesFrom
  <2>3. CASE VerifyToken(l.token, l.email) /\ Goto(r, "expire")
    <3>1. /\ verification[l.token].verified
          /\ l.email \in Emails => verification[l.token].email = l.email
      BY <2>3, SeenRowsExist DEF VerifyToken, FindVerificationById
    <3> DEFINE next == [l EXCEPT !.pc = "expire"]
    <3>2. /\ next \in Locals /\ next.pc = "expire" /\ next.user = l.user /\ next.kind = l.kind
          /\ next.email = l.email /\ next.token = l.token /\ next.session = l.session
      BY <1>0 DEF Locals, Labels
    <3>3. l.kind \in KindsAt("expire") /\ "expire" \notin UserLabels
      BY <1>2 DEF KindsAt, UserLabels
    <3>4. Become(r, next)
      BY <2>3 DEF Goto
    <3> HIDE DEF next
    <3>5. Sound(verification, users, Len(session), next)
      BY <1>0, <1>2, <3>1, <3>2, <3>3 DEF Sound
    <3> QED
      BY <2>2, <3>4, <3>5, StillSound, Moves
  <2> QED
    BY <2>1, <2>2, <2>3, Ends
<1>4. CASE SpendToken(r)
  <2>1. /\ l.pc = "expire" /\ ExpireToken(l.token) /\ UNCHANGED <<session, userVars, cache, counters, crossings>>
        /\ \/ l.kind \in {"signup", "recover"} /\ Goto(r, "create")
           \/ l.kind = "reset" /\ Goto(r, "find")
           \/ Refuse(r)
    BY <1>4 DEF SpendToken, At, Mine, Refuse
  <2>2. TablesKept
    BY <1>0, <1>2, <2>1, TablesFrom DEF TokenOp
  <2>3. CASE l.kind = "reset" /\ Goto(r, "find")
    <3>1. l.kind \in KindsAt("find") /\ "find" \in Labels /\ "find" \notin UserLabels
      BY <2>3 DEF KindsAt, Labels, UserLabels
    <3> QED
      BY <2>2, <2>3, <3>1, GoesOn
  <2>4. CASE l.kind \in {"signup", "recover"} /\ Goto(r, "create")
    <3>1. Presented(verification, l.email)
      BY <1>0, <1>2, <2>1, <2>4 DEF Sound, Presented
    <3> DEFINE next == [l EXCEPT !.pc = "create"]
    <3>2. /\ next \in Locals /\ next.pc = "create" /\ next.user = l.user /\ next.kind = l.kind
          /\ next.email = l.email /\ next.token = l.token /\ next.session = l.session
      BY <1>0 DEF Locals, Labels
    <3>3. l.kind \in KindsAt("create") /\ "create" \notin UserLabels
      BY <2>4 DEF KindsAt, UserLabels
    <3>4. Become(r, next)
      BY <2>4 DEF Goto
    <3> HIDE DEF next
    <3>5. Sound(verification, users, Len(session), next)
      BY <1>0, <1>2, <3>1, <3>2, <3>3 DEF Sound
    <3> QED
      BY <2>2, <3>4, <3>5, StillSound, Moves
  <2> QED
    BY <2>1, <2>2, <2>3, <2>4, Ends
<1> QED
  BY <1>3, <1>4

\* A sign-up creates a row for an e-mail whose code was presented, then what belongs to it.
LEMMA SignUpKeeps ==
  ASSUME AccountsInv, NEW r \in Requests,
         CreateUser(r) \/ CreateWallet(r) \/ CreateProfile(r) \/ CreateNotificationSetting(r)
           \/ CreateCurrency(r) \/ LoadUser(r)
  PROVE  AccountsInv'
<1> DEFINE l == request[r]
<1>0. /\ users \in Seq(UserRows) /\ l \in Locals /\ Sound(verification, users, Len(session), l)
      /\ (UNCHANGED userVars => UsersOK' /\ Kept(users, users')) /\ l.kind \in KindsAt(l.pc)
  BY InvParts, AtLabel, UsersSeq, UsersSame
<1>1. CASE CreateUser(r)
  <2> DEFINE from == IF l.kind = "recover" THEN "recovery" ELSE "signup"
             row == NewUser(l.email, from)
  <2>1. /\ l.pc = "create" /\ Len(users) < MaxUsers /\ users' = Append(users, row)
        /\ UNCHANGED <<tokenVars, session, userReplica, cache, counters, crossings>>
        /\ \/ Become(r, Blank)
           \/ l.kind # "recover" /\ Become(r, [l EXCEPT !.pc = "wallet", !.user = Len(users) + 1])
    BY <1>1 DEF CreateUser, At, Mine
  <2>2. l.kind \in {"signup", "recover"} /\ l.email \in Emails
    <3>1. KindsAt("create") = {"signup", "recover"} /\ {"signup", "recover"} \subseteq WithEmail
      BY DEF KindsAt, WithEmail
    <3> QED
      BY <1>0, <2>1, <3>1 DEF Sound
  <2>3. row \in UserRows /\ row.profileEmail = None
    BY <2>2 DEF NewUser, UserRows, Parts
  <2> HIDE DEF row
  <2>4. UsersOK' /\ Kept(users, users') /\ Len(users') = Len(users) + 1
    BY <2>1, <2>3, InvParts, UserAdded
  <2>5. TablesKept
    BY <2>1, <2>4, TablesFrom
  <2>6. CASE l.kind # "recover" /\ Become(r, [l EXCEPT !.pc = "wallet", !.user = Len(users) + 1])
    <3> DEFINE u == Len(users) + 1
               next == [l EXCEPT !.pc = "wallet", !.user = u]
    <3>1. u \in UserIds /\ u # 0 /\ u \in DOMAIN users'
      <4>1. users' \in Seq(UserRows) /\ Len(users') = u
        BY <2>4 DEF UsersOK
      <4>2. Len(users) \in Nat /\ MaxUsers \in Nat
        BY InvParts, NumbersOfRows
      <4>3. DOMAIN users' = 1..u
        BY <4>1, LenProperties
      <4> QED
        BY <2>1, <4>2, <4>3 DEF UserIds
    <3> HIDE DEF u
    <3>2. /\ next \in Locals /\ next.pc = "wallet" /\ next.user = u /\ next.kind = l.kind
          /\ next.email = l.email /\ next.token = l.token /\ next.session = l.session
      <4>1. next \in Locals
        BY <1>0, <3>1 DEF Locals, Labels
      <4>2. next.pc = "wallet" /\ next.user = u /\ next.kind = l.kind
        BY <1>0 DEF Locals
      <4>3. next.email = l.email /\ next.token = l.token /\ next.session = l.session
        BY <1>0 DEF Locals
      <4> QED
        BY <4>1, <4>2, <4>3
    <3>3. l.kind \in KindsAt("wallet")
      BY <2>2, <2>6 DEF KindsAt
    <3>4. Become(r, next)
      BY <2>6 DEF u
    <3> HIDE DEF next
    <3> QED
      BY <2>5, <3>1, <3>2, <3>3, <3>4, Continues
  <2> QED
    BY <2>1, <2>5, <2>6, Ends DEF Refuse, Goto
<1>2. CASE CreateWallet(r) \/ CreateProfile(r) \/ CreateNotificationSetting(r) \/ CreateCurrency(r)
  <2>1. /\ l.pc \in {"wallet", "profile", "settings", "currency"}
        /\ UNCHANGED <<tokenVars, session, userReplica, cache, events, failures, crossings>>
        /\ abandoned' \in {abandoned, abandoned + 1}
    BY <1>2 DEF CreateWallet, CreateProfile, CreateNotificationSetting, CreateCurrency, At, Abandon, counters
  <2>2. l.kind = "signup" /\ l.user \in DOMAIN users
    <3>1. /\ KindsAt("wallet") = {"signup"} /\ KindsAt("profile") = {"signup"}
          /\ KindsAt("settings") = {"signup"} /\ KindsAt("currency") = {"signup"}
      BY DEF KindsAt
    <3>2. {"wallet", "profile", "settings", "currency"} \subseteq UserLabels
      BY DEF UserLabels
    <3> QED
      BY <1>0, <2>1, <3>1, <3>2, AtLabel
  <2>3. users[l.user] \in UserRows
    BY <1>0, <2>2, ElementOfSeq, LenProperties
  <2>4. UNCHANGED users \/ \E row \in UserRows :
           /\ row.own = users[l.user].own /\ row.profileEmail = users[l.user].profileEmail
           /\ users' = [users EXCEPT ![l.user] = row]
    <3>1. ASSUME NEW part \in Parts, AddPart(l.user, part)
          PROVE  \E row \in UserRows :
                   /\ row.own = users[l.user].own /\ row.profileEmail = users[l.user].profileEmail
                   /\ users' = [users EXCEPT ![l.user] = row]
      <4> DEFINE row == [users[l.user] EXCEPT !.parts = @ \cup {part}]
      <4>1. row \in UserRows /\ row.own = users[l.user].own /\ row.profileEmail = users[l.user].profileEmail
        BY <2>3 DEF UserRows
      <4>2. users' = [users EXCEPT ![l.user] = row]
        BY <3>1 DEF AddPart
      <4> QED
        BY <4>1, <4>2
    <3>2. ASSUME users' = [users EXCEPT ![Mine(r).user].parts = @ \cup {"profile"},
                                        ![Mine(r).user].name = Mine(r).name]
          PROVE  \E row \in UserRows :
                   /\ row.own = users[l.user].own /\ row.profileEmail = users[l.user].profileEmail
                   /\ users' = [users EXCEPT ![l.user] = row]
      <4> DEFINE row == [users[l.user] EXCEPT !.parts = @ \cup {"profile"}, !.name = l.name]
      <4>1. row \in UserRows /\ row.own = users[l.user].own /\ row.profileEmail = users[l.user].profileEmail
        BY <1>0, <2>3 DEF UserRows, Parts, Locals
      <4>2. users' = [users EXCEPT ![l.user] = row]
        BY <3>2, <2>2, <2>3, <1>0 DEF Mine, UserRows
      <4> QED
        BY <4>1, <4>2
    <3>3. {"wallet", "settings", "currency"} \subseteq Parts
      BY DEF Parts
    <3> QED
      BY <1>2, <3>1, <3>2, <3>3
         DEF CreateWallet, CreateProfile, CreateNotificationSetting, CreateCurrency, Mine
  <2>5. UsersOK' /\ Kept(users, users')
    BY <1>0, <2>1, <2>2, <2>4, UserWritten DEF userVars
  <2>6. TablesKept
    BY <2>1, <2>5, TablesFrom DEF counters
  <2>7. PICK label \in Labels : Goto(r, label) /\ label \in {"rest", "profile", "settings", "currency", "load"}
    BY <1>2 DEF CreateWallet, CreateProfile, CreateNotificationSetting, CreateCurrency, Abandon, Refuse, Labels
  <2>8. label # "rest" => l.kind \in KindsAt(label)
    BY <2>2, <2>7 DEF KindsAt
  <2>9. l.user # 0
    BY <2>2, InvParts, NumbersOfRows
  <2> QED
    BY <2>6, <2>7, <2>8, <2>9, GoesOn
<1>3. CASE LoadUser(r)
  <2>1. /\ l.pc = "load" /\ Keep(l.user) /\ UNCHANGED <<tokenVars, session, userVars, counters, crossings>>
        /\ Goto(r, "session") \/ Goto(r, "rest")
    BY <1>3 DEF LoadUser, At, Mine, GotoIf
  <2>2. l.user \in DOMAIN users /\ l.user # 0 /\ l.kind \in KindsAt("session") /\ {"rest", "session"} \subseteq Labels
    <3>1. "load" \in UserLabels /\ KindsAt("load") \subseteq KindsAt("session")
      BY DEF UserLabels, KindsAt
    <3> QED
      BY <1>0, <2>1, <3>1, AtLabel, InvParts, NumbersOfRows DEF Labels
  <2>3. TablesKept
    BY <1>0, <2>1, <2>2, TablesFrom
  <2> QED
    BY <2>1, <2>2, <2>3, GoesOn
<1> QED
  BY <1>1, <1>2, <1>3

\* Steps that find the user to work on.
LEMMA FindersKeep ==
  ASSUME AccountsInv, NEW r \in Requests,
         Login(r) \/ RecoverAccount(r) \/ ReadForPassword(r) \/ FindForReset(r)
  PROVE  AccountsInv'
<1> DEFINE l == request[r]
<1>0. /\ users \in Seq(UserRows) /\ l \in Locals /\ Sound(verification, users, Len(session), l)
      /\ (UNCHANGED userVars => UsersOK' /\ Kept(users, users')) /\ l.kind \in KindsAt(l.pc)
      /\ DOMAIN users \subseteq UserIds /\ 0 \notin DOMAIN users
  BY InvParts, AtLabel, UsersSeq, UsersSame, NumbersOfRows
<1>1. l.pc \in {"login", "recover", "change", "assign", "find"}
      /\ UNCHANGED <<tokenVars, session, userVars, counters, crossings>>
  BY DEF Login, RecoverAccount, ReadForPassword, FindForReset, At, Mine
<1>2. l.pc \in {"recover", "change", "assign"} => l.user \in DOMAIN users
  <2>1. {"recover", "change", "assign"} \subseteq UserLabels
    BY DEF UserLabels
  <2> QED
    BY <2>1, AtLabel
<1>3. UNCHANGED cache \/ (l.user \in DOMAIN users /\ Keep(l.user))
  BY <1>2 DEF Login, RecoverAccount, ReadForPassword, FindForReset, At, Mine
<1>4. TablesKept
  BY <1>0, <1>1, <1>3, TablesFrom
<1>5. \/ Refuse(r)
      \/ \E label \in {"reward", "token", "password"}, u \in {l.user} \cup DOMAIN users,
            old \in Emails \cup {None} :
            /\ Become(r, [l EXCEPT !.pc = label, !.user = u, !.old = old])
            /\ <<l.pc, label>> \in {<<"login", "reward">>, <<"recover", "token">>, <<"change", "password">>,
                                    <<"assign", "password">>, <<"find", "password">>}
            /\ l.pc \in {"login", "find"} => u # 0
  <2>1. \A u \in DOMAIN users : users[u].email \in Emails \cup {None}
    <3>1. \A u \in DOMAIN users : users[u] \in UserRows
      BY <1>0, ElementOfSeq, LenProperties
    <3> QED
      BY <3>1 DEF UserRows
  <2>2. l.pc \in {"recover", "change", "assign"} => FindUserById(l.user).email \in Emails \cup {None}
    <3>1. cache \in [UserIds -> Copies \cup {NotCached}]
      BY InvParts DEF Tables, CacheOK
    <3>2. ASSUME NEW u \in DOMAIN users PROVE FindUserById(u).email \in Emails \cup {None}
      <4>1. cache[u] \in Copies \cup {NotCached} /\ Copy(u).email = users[u].email
        BY <1>0, <3>1 DEF Copy
      <4>2. \A c \in Copies : c.email \in Emails \cup {None}
        BY DEF Copies
      <4> QED
        BY <2>1, <4>1, <4>2 DEF FindUserById, IsCached
    <3> QED
      BY <1>2, <3>2
  <2>3. ASSUME NEW u \in DOMAIN users, Become(r, [l EXCEPT !.pc = "reward", !.user = u]), l.pc = "login"
        PROVE  Become(r, [l EXCEPT !.pc = "reward", !.user = u, !.old = l.old]) /\ l.old \in Emails \cup {None}
    <3>1. [l EXCEPT !.pc = "reward", !.user = u] = [l EXCEPT !.pc = "reward", !.user = u, !.old = l.old]
      BY <1>0 DEF Locals
    <3> QED
      BY <1>0, <2>3, <3>1 DEF Locals
  <2>4. ASSUME NEW label, NEW old, Become(r, [l EXCEPT !.pc = label, !.old = old])
        PROVE  Become(r, [l EXCEPT !.pc = label, !.user = l.user, !.old = old])
    <3>1. [l EXCEPT !.pc = label, !.old = old] = [l EXCEPT !.pc = label, !.user = l.user, !.old = old]
      BY <1>0 DEF Locals
    <3> QED
      BY <2>4, <3>1
  <2>5. CASE Login(r)
    <3>1. l.pc = "login" /\ (Refuse(r) \/ \E u \in DOMAIN users : Become(r, [l EXCEPT !.pc = "reward", !.user = u]))
      BY <2>5 DEF Login, At, Mine, FindUserByEmail
    <3> QED
      BY <1>0, <2>3, <3>1
  <2>6. CASE RecoverAccount(r)
    <3>1. l.pc = "recover" /\ (Refuse(r) \/ Become(r, [l EXCEPT !.pc = "token", !.old = FindUserById(l.user).email]))
      BY <2>6 DEF RecoverAccount, At, Mine
    <3> QED
      BY <2>2, <2>4, <3>1
  <2>7. CASE ReadForPassword(r)
    <3>1. /\ l.pc \in {"change", "assign"}
          /\ Refuse(r) \/ Become(r, [l EXCEPT !.pc = "password", !.old = FindUserById(l.user).email])
      BY <2>7 DEF ReadForPassword, At, Mine
    <3> QED
      BY <2>2, <2>4, <3>1
  <2>8. CASE FindForReset(r)
    <3>1. /\ l.pc = "find"
          /\ \/ Refuse(r)
             \/ \E u \in DOMAIN users : Become(r, [l EXCEPT !.pc = "password", !.user = u, !.old = users[u].email])
      BY <2>8 DEF FindForReset, At, Mine, FindUserByEmail
    <3> QED
      BY <1>0, <2>1, <3>1
  <2> QED
    BY <2>5, <2>6, <2>7, <2>8
<1>6. ASSUME NEW label \in {"reward", "token", "password"}, NEW u \in {l.user} \cup DOMAIN users,
             NEW old \in Emails \cup {None},
             Become(r, [l EXCEPT !.pc = label, !.user = u, !.old = old]),
             <<l.pc, label>> \in {<<"login", "reward">>, <<"recover", "token">>, <<"change", "password">>,
                                  <<"assign", "password">>, <<"find", "password">>},
             l.pc \in {"login", "find"} => u # 0
      PROVE  AccountsInv'
  <2> DEFINE next == [l EXCEPT !.pc = label, !.user = u, !.old = old]
  <2>1. u \in {0} \cup UserIds
    BY <1>0 DEF Locals
  <2>2. /\ next \in Locals /\ next.pc = label /\ next.user = u /\ next.kind = l.kind
        /\ next.email = l.email /\ next.token = l.token /\ next.session = l.session
    <3>1. label \in Labels
      BY DEF Labels
    <3> QED
      BY <1>0, <2>1, <3>1 DEF Locals
  <2>3. l.kind \in KindsAt(label)
    <3>1. /\ KindsAt("login") \subseteq KindsAt("reward") /\ KindsAt("recover") \subseteq KindsAt("token")
          /\ KindsAt("change") \cup KindsAt("assign") \cup KindsAt("find") \subseteq KindsAt("password")
      BY DEF KindsAt
    <3> QED
      BY <1>0, <1>6, <3>1
  <2>4. u # 0
    BY <1>0, <1>2, <1>6
  <2>5. u = l.user \/ u \in DOMAIN users'
    BY <1>1 DEF userVars
  <2> HIDE DEF next
  <2>6. Become(r, next)
    BY <1>6 DEF next
  <2> QED
    BY <1>4, <2>2, <2>3, <2>4, <2>5, <2>6, Continues
<1> QED
  BY <1>4, <1>5, <1>6, Ends

\* Steps that write the row of a user.
LEMMA WritersKeep ==
  ASSUME AccountsInv, NEW r \in Requests,
         \/ WritePassword(r) \/ CompleteEmailVerification(r) \/ UpdateUserEmail(r)
         \/ DeleteUser(r) \/ UpdateUserStatus(r)
  PROVE  AccountsInv'
<1> DEFINE l == request[r]
<1>0. /\ users \in Seq(UserRows) /\ l \in Locals /\ Sound(verification, users, Len(session), l)
      /\ (UNCHANGED userVars => UsersOK' /\ Kept(users, users')) /\ l.kind \in KindsAt(l.pc)
      /\ DOMAIN users \subseteq UserIds /\ 0 \notin DOMAIN users
  BY InvParts, AtLabel, UsersSeq, UsersSame, NumbersOfRows
<1>1. /\ l.pc \in {"password", "move", "takeEmail", "delete", "ban"}
      /\ UNCHANGED <<session, userReplica, counters, crossings>>
      /\ UNCHANGED tokenVars \/ CompleteEmailVerification(r)
      /\ UNCHANGED cache \/ Keep(l.user)
      /\ \/ Refuse(r)
         \/ l.pc = "move" /\ Goto(r, "takeEmail")
         \/ l.pc = "takeEmail" /\ Goto(r, "verified")
  BY DEF WritePassword, CompleteEmailVerification, UpdateUserEmail, DeleteUser, UpdateUserStatus,
         At, Mine, GotoIf, Refuse, userVars
<1>2. l.user \in DOMAIN users /\ l.user # 0
  <2>1. {"password", "move", "takeEmail", "delete", "ban"} \subseteq UserLabels
    BY DEF UserLabels
  <2> QED
    BY <1>0, <1>1, <2>1, AtLabel
<1>3. users[l.user] \in UserRows
  BY <1>0, <1>2, ElementOfSeq, LenProperties
<1>4. UNCHANGED users \/ \E row \in UserRows :
         /\ row.own = users[l.user].own /\ row.profileEmail = users[l.user].profileEmail
         /\ users' = [users EXCEPT ![l.user] = row]
  <2> DEFINE u == users[l.user]
  <2>1. \/ UNCHANGED users
        \/ \E e \in Emails \cup {None} : users' = [users EXCEPT ![l.user] = [u EXCEPT !.salt = e]]
        \/ \E e \in Emails \cup {None} : users' = [users EXCEPT ![l.user] = [u EXCEPT !.email = e]]
        \/ \E b \in BOOLEAN : users' = [users EXCEPT ![l.user] = [u EXCEPT !.deleted = b]]
        \/ \E b \in BOOLEAN : users' = [users EXCEPT ![l.user] = [u EXCEPT !.active = b]]
    <3>1. CASE WritePassword(r) \/ CompleteEmailVerification(r) \/ UpdateUserEmail(r)
      BY <1>0, <3>1 DEF WritePassword, CompleteEmailVerification, UpdateUserEmail, Mine, Locals, userVars
    <3>2. CASE DeleteUser(r)
      <4>1. users' = [users EXCEPT ![l.user] = [u EXCEPT !.deleted = u.deleted \/ UserFound(l.user)]]
        BY <3>2 DEF DeleteUser, Mine
      <4>2. (u.deleted \/ UserFound(l.user)) \in BOOLEAN
        OBVIOUS
      <4> QED
        BY <4>1, <4>2
    <3>3. CASE UpdateUserStatus(r)
      <4>1. users' = [users EXCEPT ![l.user] = [u EXCEPT !.active = ~u.active]]
        BY <3>3 DEF UpdateUserStatus, Mine
      <4>2. (~u.active) \in BOOLEAN
        OBVIOUS
      <4> QED
        BY <4>1, <4>2
    <3> QED
      BY <3>1, <3>2, <3>3
  <2>2. ASSUME NEW e \in Emails \cup {None}
        PROVE  /\ [u EXCEPT !.salt = e] \in UserRows /\ [u EXCEPT !.email = e] \in UserRows
               /\ [u EXCEPT !.salt = e].own = u.own /\ [u EXCEPT !.email = e].own = u.own
               /\ [u EXCEPT !.salt = e].profileEmail = u.profileEmail
               /\ [u EXCEPT !.email = e].profileEmail = u.profileEmail
    BY <1>3 DEF UserRows
  <2>3. ASSUME NEW b \in BOOLEAN
        PROVE  /\ [u EXCEPT !.deleted = b] \in UserRows /\ [u EXCEPT !.active = b] \in UserRows
               /\ [u EXCEPT !.deleted = b].own = u.own /\ [u EXCEPT !.active = b].own = u.own
               /\ [u EXCEPT !.deleted = b].profileEmail = u.profileEmail
               /\ [u EXCEPT !.active = b].profileEmail = u.profileEmail
    BY <1>3 DEF UserRows
  <2> HIDE DEF u
  <2> QED
    BY <2>1, <2>2, <2>3 DEF u
<1>5. UsersOK' /\ Kept(users, users')
  BY <1>0, <1>1, <1>2, <1>4, UserWritten DEF userVars
<1>6. TablesKept
  <2>1. UNCHANGED tokenVars \/ \E t \in DOMAIN verification, misses \in BOOLEAN : Looked(t, misses)
    BY <1>1, LooksUp
  <2> QED
    BY <1>1, <1>2, <1>5, <2>1, TablesFrom
<1>7. CASE l.pc = "move" /\ Goto(r, "takeEmail")
  <2>1. KindsAt("move") = KindsAt("takeEmail") /\ "takeEmail" \in Labels
    BY DEF KindsAt, Labels
  <2> QED
    BY <1>0, <1>2, <1>6, <1>7, <2>1, GoesOn
<1>8. CASE l.pc = "takeEmail" /\ Goto(r, "verified")
  <2>1. KindsAt("takeEmail") \subseteq KindsAt("verified") /\ "verified" \in Labels
    BY DEF KindsAt, Labels
  <2> QED
    BY <1>0, <1>2, <1>6, <1>8, <2>1, GoesOn
<1> QED
  BY <1>1, <1>6, <1>7, <1>8, Ends

\* What a request brings: a code that was mailed, a token that was handed out, a session that
\* was opened, a user that exists.
LEMMA HandlerOfPublic ==
  ASSUME NEW kind \in Public
  PROVE  /\ Handler(kind) \in Labels \ {"adopt", "expire", "create", "mail"}
         /\ kind \in KindsAt(Handler(kind))
         /\ Handler(kind) \in UserLabels => kind \in WithUser
<1>1. CASE kind \in {"askEmail", "askPassword", "askAdmin", "confirm", "spend", "signup"}
  BY <1>1 DEF Handler, Labels, KindsAt, UserLabels, WithUser
<1>2. CASE kind \in {"login", "reset", "recover", "assign", "ban", "delete"}
  BY <1>2 DEF Handler, Labels, KindsAt, UserLabels, WithUser
<1> QED
  BY <1>1, <1>2 DEF Public

LEMMA ArgumentsSound ==
  ASSUME AccountsInv, NEW kind \in Public \cup Authenticated, NEW call \in Arguments(kind)
  PROVE  Sound(verification, users, Len(session), call)
<1>0. /\ DOMAIN verification = 1..Len(verification) /\ DOMAIN users = 1..Len(users)
      /\ DOMAIN session = 1..Len(session)
      /\ {Len(verification), Len(users), Len(session)} \subseteq Nat
      /\ DOMAIN verification \subseteq TokenIds /\ DOMAIN users \subseteq UserIds
      /\ DOMAIN session \subseteq 1..MaxSessions
      /\ mailed \subseteq DOMAIN verification /\ held \subseteq DOMAIN verification
      /\ \A t \in DOMAIN verification : verification[t].email \in Emails
  <2>1. Tables
    BY InvParts
  <2>2. \A t \in DOMAIN verification : verification[t] \in Rows
    BY <2>1, ElementOfSeq, LenProperties DEF Tables, TokensOK, TokenTypeOK
  <2> QED
    BY <2>1, <2>2, NumbersOfRows DEF Tables, TokensOK, TokenTypeOK, Rows
<1>1. /\ call.kind = kind /\ call.old = None /\ call.name \in Names \cup {None}
      /\ call.token \in 0..Len(verification) /\ call.token \in {0} \cup TokenIds
      /\ call.user \in 0..Len(users) /\ call.user \in {0} \cup UserIds
      /\ call.session \in 0..Len(session) /\ call.session \in 0..MaxSessions
      /\ call.email \in Emails \cup {None}
      /\ call = [kind |-> call.kind, pc |-> call.pc, email |-> call.email, name |-> call.name,
                 token |-> call.token, user |-> call.user, session |-> call.session, old |-> call.old]
      /\ kind \in WithEmail => call.email \in Emails
      /\ kind \in WithToken => call.token # 0
      /\ kind \in {"confirm", "move"} => verification[call.token].email = call.email
      /\ kind \in WithUser => call.user # 0
      /\ kind \in Authenticated => call.session # 0 /\ call.pc = "authenticate"
      /\ kind \in Public => call.pc = Handler(kind)
  <2>1. kind \in Authenticated <=> kind \notin Public
    BY DEF Authenticated, Public
  <2>2. MaxSessions \in Nat
    BY SessionAssumption
  <2>3. CASE kind \in {"askEmail", "askPassword", "askAdmin", "login"}
    <3>1. kind \in Public /\ kind \notin WithToken \cup WithUser \cup {"confirm", "move"}
      BY <2>3 DEF Public, WithToken, WithUser
    <3>2. Arguments(kind) = Calls(kind, Emails, {None}, {0}, {0}, {0})
      BY <2>3 DEF Arguments
    <3>3. call \in Calls(kind, Emails, {None}, {0}, {0}, {0})
      BY <3>2
    <3> QED
      BY <1>0, <2>1, <2>2, <3>1, <3>3 DEF Calls
  <2>4. CASE kind = "confirm"
    <3>1. kind \in Public /\ kind \notin WithUser
      BY <2>4 DEF Public, WithUser
    <3>2. Arguments(kind) = CallsWithCode(kind, {0})
      BY <2>4 DEF Arguments
    <3>3. PICK t \in mailed : call \in Calls(kind, {verification[t].email}, {None}, {t}, {0}, {0})
      BY <3>2 DEF CallsWithCode
    <3> QED
      BY <1>0, <2>1, <2>2, <3>1, <3>3 DEF Calls
  <2>5. CASE kind \in {"spend", "reset"}
    <3>1. kind \in Public /\ kind \notin WithUser \cup WithEmail \cup {"confirm", "move"}
      BY <2>5 DEF Public, WithEmail, WithUser
    <3>2. Arguments(kind) = Calls(kind, {None}, {None}, held, {0}, {0})
      BY <2>5 DEF Arguments
    <3>3. call \in Calls(kind, {None}, {None}, held, {0}, {0})
      BY <3>2
    <3> QED
      BY <1>0, <2>1, <2>2, <3>1, <3>3 DEF Calls
  <2>6. CASE kind = "signup"
    <3>1. kind \in Public /\ kind \notin WithUser \cup {"confirm", "move"}
      BY <2>6 DEF Public, WithUser
    <3>2. Arguments(kind) = Calls(kind, Emails, Names, held, {0}, {0})
      BY <2>6 DEF Arguments
    <3>3. call \in Calls(kind, Emails, Names, held, {0}, {0})
      BY <3>2
    <3> QED
      BY <1>0, <2>1, <2>2, <3>1, <3>3 DEF Calls
  <2>7. CASE kind = "recover"
    <3>1. kind \in Public /\ kind \notin {"confirm", "move"}
      BY <2>7 DEF Public
    <3>2. Arguments(kind) = Calls(kind, Emails, {None}, held, DOMAIN users, {0})
      BY <2>7 DEF Arguments
    <3>3. call \in Calls(kind, Emails, {None}, held, DOMAIN users, {0})
      BY <3>2
    <3> QED
      BY <1>0, <2>1, <2>2, <3>1, <3>3 DEF Calls
  <2>8. CASE kind \in {"assign", "ban", "delete"}
    <3>1. kind \in Public /\ kind \notin WithEmail \cup WithToken \cup {"confirm", "move"}
      BY <2>8 DEF Public, WithEmail, WithToken
    <3>2. Arguments(kind) = Calls(kind, {None}, {None}, {0}, DOMAIN users, {0})
      BY <2>8 DEF Arguments
    <3>3. call \in Calls(kind, {None}, {None}, {0}, DOMAIN users, {0})
      BY <3>2
    <3> QED
      BY <1>0, <2>1, <2>2, <3>1, <3>3 DEF Calls
  <2>9. CASE kind = "askOwn"
    <3>1. kind \in Authenticated /\ kind \notin WithToken \cup WithUser \cup {"confirm", "move"}
      BY <2>9 DEF Authenticated, WithToken, WithUser
    <3>2. Arguments(kind) = Calls(kind, Emails, {None}, {0}, {0}, DOMAIN session)
      BY <2>9 DEF Arguments
    <3>3. call \in Calls(kind, Emails, {None}, {0}, {0}, DOMAIN session)
      BY <3>2
    <3> QED
      BY <1>0, <2>1, <2>2, <3>1, <3>3 DEF Calls
  <2>10. CASE kind = "move"
    <3>1. kind \in Authenticated /\ kind \notin WithUser
      BY <2>10 DEF Authenticated, WithUser
    <3>2. Arguments(kind) = CallsWithCode(kind, DOMAIN session)
      BY <2>10 DEF Arguments
    <3>3. PICK t \in mailed : call \in Calls(kind, {verification[t].email}, {None}, {t}, {0}, DOMAIN session)
      BY <3>2 DEF CallsWithCode
    <3> QED
      BY <1>0, <2>1, <2>2, <3>1, <3>3 DEF Calls
  <2>11. CASE kind \in {"serve", "change", "leave", "logout"}
    <3>1. kind \in Authenticated /\ kind \notin WithEmail \cup WithToken \cup WithUser \cup {"confirm", "move"}
      BY <2>11 DEF Authenticated, WithEmail, WithToken, WithUser
    <3>2. Arguments(kind) = Calls(kind, {None}, {None}, {0}, {0}, DOMAIN session)
      BY <2>11 DEF Arguments
    <3>3. call \in Calls(kind, {None}, {None}, {0}, {0}, DOMAIN session)
      BY <3>2
    <3> QED
      BY <1>0, <2>1, <2>2, <3>1, <3>3 DEF Calls
  <2> QED
    BY <2>3, <2>4, <2>5, <2>6, <2>7, <2>8, <2>9, <2>10, <2>11 DEF Public, Authenticated
<1>2. /\ call.pc \in Labels \ {"adopt", "expire", "create", "mail"} /\ kind \in KindsAt(call.pc)
      /\ call.pc \in UserLabels => kind \in WithUser
  <2>1. "authenticate" \in Labels /\ "authenticate" \notin UserLabels /\ KindsAt("authenticate") = Authenticated
    BY DEF Labels, UserLabels, KindsAt
  <2> QED
    BY <1>1, <2>1, HandlerOfPublic
<1>3. call \in Locals
  BY <1>1, <1>2 DEF Locals
<1> QED
  BY <1>1, <1>2, <1>3 DEF Sound

LEMMA ArrivalsKeep ==
  ASSUME AccountsInv, NEW r \in Requests, Receive(r) \/ Fail(r)
  PROVE  AccountsInv'
<1>1. /\ UNCHANGED <<tokenVars, session, userVars, cache, abandoned, crossings>>
      /\ events < MaxEvents /\ events' = events + 1 /\ failures' \in {failures, failures + 1}
  BY DEF Receive, Fail
<1>2. UsersOK' /\ Kept(users, users')
  BY <1>1, InvParts, UsersSame
<1>3. TablesKept
  BY <1>1, <1>2, TablesFrom
<1>4. CASE Receive(r)
  <2>1. PICK kind \in Kinds : \E call \in Arguments(kind) : Become(r, call)
    BY <1>4 DEF Receive
  <2>2. PICK call \in Arguments(kind) : Become(r, call)
    BY <2>1
  <2>3. Sound(verification, users, Len(session), call)
    BY AccountAssumption, ArgumentsSound
  <2> QED
    BY <1>3, <2>2, <2>3, StillSound, Moves
<1>5. CASE Fail(r)
  BY <1>3, <1>5, Ends DEF Fail
<1> QED
  BY <1>4, <1>5

\* The replica is what the tables were when it fell behind.
LEMMA ReplicaKeeps == ASSUME AccountsInv, FallBehind \/ CatchUp PROVE AccountsInv'
<1>1. Tables
  BY InvParts
<1>2. /\ UNCHANGED <<session, users, cache, request, failures, abandoned, crossings>>
      /\ UNCHANGED <<verification, mailed, held, uses, crossed>>
      /\ events' = events \/ (events < MaxEvents /\ events' = events + 1)
  BY DEF FallBehind, CatchUp, TokensFallBehind, TokensCatchUp, tokenHistory, counters
<1>3. /\ behind' \in BOOLEAN
      /\ verificationReplica' \in {verification, << >>} /\ userReplica' \in {users, << >>}
  BY DEF FallBehind, CatchUp, TokensFallBehind, TokensCatchUp
<1>4. /\ Len(verification) \in Nat /\ Len(users) \in Nat /\ Len(session) \in Nat
      /\ verification \in Seq(Rows) /\ users \in Seq(UserRows)
  BY <1>1, NumbersOfRows DEF Tables, TokensOK, TokenTypeOK, UsersOK
<1>5. << >> \in Seq(Rows) /\ << >> \in Seq(UserRows) /\ Len(<< >>) = 0 /\ DOMAIN << >> = {}
  BY EmptySeq
<1>6. TokensOK'
  <2>1. Earlier(verification, verification) /\ Earlier(<< >>, verification)
    BY <1>4, <1>5 DEF Earlier
  <2>2. verificationReplica' \in Seq(Rows) /\ Earlier(verificationReplica', verification)
    BY <1>3, <1>4, <1>5, <2>1
  <2>3. Len(verificationReplica') <= Len(verification)
    BY <2>2 DEF Earlier
  <2> QED
    BY <1>1, <1>2, <1>3, <2>2, <2>3 DEF Tables, TokensOK, TokenTypeOK
<1>7. UsersOK'
  <2>1. userReplica' \in Seq(UserRows) /\ Len(userReplica') <= Len(users)
    <3>1. CASE userReplica' = users
      BY <1>4, <3>1
    <3>2. CASE userReplica' = << >>
      BY <1>4, <1>5, <3>2
    <3> QED
      BY <1>3, <3>1, <3>2
  <2>2. \A u \in DOMAIN userReplica' : userReplica'[u].profileEmail \in users[u].own \cup {None}
    BY <1>1, <1>3, <1>5 DEF Tables, UsersOK
  <2> QED
    BY <1>1, <1>2, <2>1, <2>2 DEF Tables, UsersOK
<1>8. CacheOK' /\ SessionsOK'
  BY <1>1, <1>2 DEF Tables, CacheOK, IsCached, SessionsOK, SessionTypeOK
<1>9. CountersOK'
  BY <1>1, <1>2, AccountAssumption DEF Tables, CountersOK
<1>10. Earlier(verification, verification') /\ Kept(users, users') /\ Len(session) <= Len(session')
  BY <1>2, <1>4 DEF Earlier, Kept
<1> QED
  BY <1>2, <1>6, <1>7, <1>8, <1>9, <1>10, Stands DEF TablesKept, Tables

LEMMA TimeKeeps == ASSUME AccountsInv, Time \/ UNCHANGED vars PROVE AccountsInv'
<1>1. CASE Time /\ ~\E u \in UserIds : CacheExpires(u)
  <2>1. UNCHANGED <<userVars, cache, request, counters, crossings>>
    BY <1>1 DEF Time
  <2>2. /\ UNCHANGED tokenVars \/ \E t \in DOMAIN verification : TokenOp(t)
        /\ UNCHANGED session \/ \E s \in 1..MaxSessions : SessionTimesOut(s)
    BY <1>1 DEF Time, TokenOp, TokenTimesOut
  <2>3. UsersOK' /\ Kept(users, users')
    BY <2>1, InvParts, UsersSame
  <2>4. TablesKept
    BY <2>1, <2>2, <2>3, TablesFrom
  <2> QED
    BY <2>1, <2>4, Stands
<1>2. ASSUME NEW u \in UserIds, CacheExpires(u) PROVE AccountsInv'
  <2>1. /\ UNCHANGED <<tokenVars, session, userVars, request, counters, crossings>>
        /\ cache' = [cache EXCEPT ![u] = NotCached]
    BY <1>2 DEF CacheExpires
  <2>2. Tables
    BY InvParts
  <2>3. UsersOK' /\ Kept(users, users') /\ TokensOK' /\ Earlier(verification, verification')
    BY <2>1, <2>2, UsersSame, TokensSame
  <2>4. SessionsOK' /\ Len(session) <= Len(session') /\ CountersOK'
    BY <2>1, <2>2, <2>3, SessionsKept, CountersKept DEF UsersOK, Kept
  <2>5. CacheOK'
    BY <2>1, <2>2 DEF Tables, CacheOK, IsCached, userVars
  <2> QED
    BY <2>1, <2>3, <2>4, <2>5, Stands DEF TablesKept, Tables
<1>3. CASE UNCHANGED vars
  <2>1. UNCHANGED <<tokenVars, session, userVars, cache, request, counters, crossings>>
    BY <1>3 DEF vars
  <2> QED
    BY <2>1, TablesSame, Stands
<1> QED
  BY <1>1, <1>2, <1>3

LEMMA InvNext == AccountsInv /\ [Next]_vars => AccountsInv'
<1> SUFFICES ASSUME AccountsInv, Next \/ UNCHANGED vars PROVE AccountsInv'
  OBVIOUS
<1>1. ASSUME NEW r \in Requests, AuthStep(r) PROVE AccountsInv'
  BY <1>1, LookUpsKeep, AuthKeeps DEF AuthStep
<1>2. ASSUME NEW r \in Requests, TokenStep(r) PROVE AccountsInv'
  BY <1>2, LookUpsKeep, AdoptionKeeps, CodesKeep, TokensKeep DEF TokenStep
<1>3. ASSUME NEW r \in Requests, AccountStep(r) PROVE AccountsInv'
  BY <1>3, LookUpsKeep, SignUpKeeps, FindersKeep, WritersKeep DEF AccountStep
<1> QED
  BY <1>1, <1>2, <1>3, ArrivalsKeep, ReplicaKeeps, TimeKeeps DEF Next

\* Whatever a request, a session or a copy refers to exists, and a request at a label knows
\* what the code on the way to it established (AuthenticationController, UserAuthMiddleware).
THEOREM AccountTypes == Spec => []TypeOK
<1>1. AccountsInv => TypeOK
  BY DEF AccountsInv
<1> QED
  BY <1>1, InvInit, InvNext, PTL DEF Spec

-----------------------------------------------------------------------------
(* Rows *)

\* What any step does to the rows.
RowsStep ==
    \/ UNCHANGED verification
    \/ \E t \in DOMAIN verification :
          ExpireToken(t) \/ AddExpiryTime(t) \/ UpdateVerificationStatus(t) \/ TokenTimesOut(t)
    \/ \E email \in Emails : CreateVerification(email)

LEMMA RowsSteps == ASSUME AccountsInv, Next \/ UNCHANGED vars PROVE RowsStep
<1>0. ASSUME NEW r \in Requests, CheckCode(r) \/ CheckToken(r) \/ CompleteEmailVerification(r) PROVE RowsStep
  BY <1>0, LooksUp DEF Looked, tokenVars, tokenRows, RowsStep
<1>1. ASSUME NEW r \in Requests, TokenStep(r) PROVE RowsStep
  <2> DEFINE l == request[r]
  <2>0. Sound(verification, users, Len(session), l) /\ l.kind \in KindsAt(l.pc)
    BY AtLabel
  <2>1. CASE GenerateVerification(r)
    <3>1. l.pc = "generate" /\ (UNCHANGED tokenVars \/ CreateVerification(l.email))
      BY <2>1 DEF GenerateVerification, At, Mine
    <3>2. KindsAt("generate") \subseteq WithEmail
      BY DEF KindsAt, WithEmail
    <3>3. l.email \in Emails
      BY <2>0, <3>1, <3>2 DEF Sound
    <3> QED
      BY <3>1, <3>3 DEF RowsStep, tokenVars, tokenRows
  <2>2. CASE Prolong(r) \/ SetVerified(r) \/ SpendToken(r)
    <3>1. /\ l.pc \in {"prolong", "verified", "expire"}
          /\ \/ AddExpiryTime(l.token) \/ UpdateVerificationStatus(l.token)
             \/ ExpireToken(l.token)
      BY <2>2 DEF Prolong, SetVerified, SpendToken, At, Mine
    <3>2. KindsAt("prolong") \cup KindsAt("verified") \cup KindsAt("expire") \subseteq WithToken
      BY DEF KindsAt, WithToken
    <3>3. l.token \in DOMAIN verification
      BY <2>0, <3>1, <3>2, AtLabel
    <3> QED
      BY <3>1, <3>3 DEF RowsStep
  <2>3. CASE StartVerification(r) \/ AdoptProfileEmail(r) \/ ClearProfileEmail(r)
               \/ StartEmailVerification(r) \/ Mail(r) \/ HandOut(r)
    BY <2>3 DEF StartVerification, AdoptProfileEmail, ClearProfileEmail, StartEmailVerification, Mail,
                HandOut, MailCode, GenerateToken, RowsStep, tokenVars, tokenRows, tokenHistory
  <2>4. CASE CheckCode(r) \/ CheckToken(r)
    BY <1>0, <2>4
  <2> QED
    BY <1>1, <2>1, <2>2, <2>3, <2>4 DEF TokenStep
<1>2. ASSUME NEW r \in Requests, AuthStep(r) PROVE RowsStep
  BY <1>2 DEF AuthStep, VerifySession, Touch, FindSession, LogoutFirst, OpenSession, Logout, RowsStep, tokenVars, tokenRows
<1>3. ASSUME NEW r \in Requests, AccountStep(r) PROVE RowsStep
  BY <1>0, <1>3 DEF AccountStep, CheckNewUser, CreateUser, CreateWallet, CreateProfile, CreateNotificationSetting,
              CreateCurrency, LoadUser, Login, LoginReward, RecoverAccount, ReadForPassword, FindForReset,
              WritePassword, UpdateUserEmail, DeleteUser, UpdateUserStatus, RowsStep, tokenVars, tokenRows
<1>4. ASSUME NEW r \in Requests, Receive(r) \/ Fail(r) PROVE RowsStep
  BY <1>4 DEF Receive, Fail, RowsStep, tokenVars, tokenRows
<1>5. CASE FallBehind \/ CatchUp \/ UNCHANGED vars
  BY <1>5 DEF FallBehind, CatchUp, TokensFallBehind, TokensCatchUp, vars, tokenVars, tokenRows, tokenHistory, RowsStep
<1>6. CASE Time
  BY <1>6 DEF Time, TokenTimesOut, CacheExpires, RowsStep, tokenVars, tokenRows
<1> QED
  BY <1>1, <1>2, <1>3, <1>4, <1>5, <1>6 DEF Next

-----------------------------------------------------------------------------
(* What a step of one request leaves alone. *)

\* Only request r goes on; users keep all they have, and get parts; nobody is added.
OnlyMoves(r) == \A other \in Requests \ {r} : request'[other] = request[other]
EmailsKept ==
    /\ DOMAIN users' = DOMAIN users
    /\ \A u \in DOMAIN users : users'[u].email = users[u].email
OriginsKept ==
    /\ DOMAIN users' = DOMAIN users
    /\ \A u \in DOMAIN users : /\ users'[u].origin = users[u].origin /\ users'[u].own = users[u].own
                                /\ users[u].parts \subseteq users'[u].parts

LEMMA OneMoves ==
  ASSUME AccountsInv, NEW r \in Requests,
         Receive(r) \/ AuthStep(r) \/ TokenStep(r) \/ AccountStep(r) \/ Fail(r)
  PROVE  OnlyMoves(r)
<1>1. ASSUME NEW l, Become(r, l) PROVE OnlyMoves(r)
  BY <1>1, InvParts DEF Become, OnlyMoves, RequestsOK
<1>2. \E l : Become(r, l)
  <2>1. CASE AuthStep(r)
    BY <2>1 DEF AuthStep, VerifySession, Touch, FindSession, LogoutFirst, OpenSession, Logout, Goto, Refuse
  <2>2. CASE TokenStep(r)
    BY <2>2 DEF TokenStep, StartVerification, AdoptProfileEmail, ClearProfileEmail, StartEmailVerification,
                GenerateVerification, Mail, CheckCode, Prolong, SetVerified, HandOut, CheckToken, SpendToken,
                Goto, GotoIf, Refuse
  <2>3. CASE AccountStep(r)
    BY <2>3 DEF AccountStep, CheckNewUser, CreateUser, CreateWallet, CreateProfile, CreateNotificationSetting,
                CreateCurrency, LoadUser, Login, LoginReward, RecoverAccount, ReadForPassword, FindForReset,
                WritePassword, CompleteEmailVerification, UpdateUserEmail, DeleteUser, UpdateUserStatus,
                Goto, GotoIf, Refuse, Abandon
  <2>4. CASE Receive(r) \/ Fail(r)
    BY <2>4 DEF Receive, Fail, Goto, Refuse
  <2> QED
    BY <2>1, <2>2, <2>3, <2>4
<1> QED
  BY <1>1, <1>2

LEMMA NoUserWritten == UNCHANGED users => EmailsKept /\ OriginsKept
  BY DEF EmailsKept, OriginsKept

\* The row a writer of the table of users writes.
LEMMA UserWrites ==
  ASSUME AccountsInv, NEW r \in Requests,
         \/ AdoptProfileEmail(r) \/ ClearProfileEmail(r) \/ CreateWallet(r) \/ CreateProfile(r)
         \/ CreateNotificationSetting(r) \/ CreateCurrency(r) \/ WritePassword(r)
         \/ UpdateUserEmail(r) \/ DeleteUser(r) \/ UpdateUserStatus(r)
  PROVE  /\ OriginsKept
         /\ EmailsKept \/ AdoptProfileEmail(r) \/ UpdateUserEmail(r)
<1> DEFINE u == request[r].user
           row == users[u]
<1>1. /\ request[r].pc \in {"adopt", "unprofile", "wallet", "profile", "settings", "currency", "password",
                            "takeEmail", "delete", "ban"}
      /\ request[r].kind \in KindsAt(request[r].pc)
  BY AtLabel DEF AdoptProfileEmail, ClearProfileEmail, CreateWallet, CreateProfile, CreateNotificationSetting,
                 CreateCurrency, WritePassword, UpdateUserEmail, DeleteUser, UpdateUserStatus, At
<1>2. u \in DOMAIN users
  <2>1. request[r].pc \in UserLabels
    BY <1>1 DEF UserLabels
  <2> QED
    BY <2>1, AtLabel
<1>3. row \in UserRows
  BY <1>2, UsersSeq, InvParts, ElementOfSeq, LenProperties
<1>4. CASE AdoptProfileEmail(r) \/ UpdateUserEmail(r)
  <2>1. users' = [users EXCEPT ![u] = [row EXCEPT !.email = request[r].email]]
    BY <1>4 DEF AdoptProfileEmail, UpdateUserEmail, Mine
  <2> QED
    BY <1>2, <1>3, <1>4, <2>1 DEF OriginsKept, UserRows
<1>5. CASE ClearProfileEmail(r) \/ WritePassword(r) \/ DeleteUser(r) \/ UpdateUserStatus(r)
  <2>1. \/ users' = [users EXCEPT ![u] = [row EXCEPT !.profileEmail = None]]
        \/ users' = [users EXCEPT ![u] = [row EXCEPT !.salt = request[r].old]]
        \/ users' = [users EXCEPT ![u] = [row EXCEPT !.deleted = row.deleted \/ UserFound(u)]]
        \/ users' = [users EXCEPT ![u] = [row EXCEPT !.active = ~row.active]]
    BY <1>5 DEF ClearProfileEmail, WritePassword, DeleteUser, UpdateUserStatus, Mine
  <2>2. PICK later : /\ users' = [users EXCEPT ![u] = later]
                     /\ later.email = row.email /\ later.own = row.own
                     /\ later.origin = row.origin /\ later.parts = row.parts
    BY <1>3, <2>1 DEF UserRows
  <2> QED
    BY <1>2, <2>2 DEF EmailsKept, OriginsKept
<1>6. CASE CreateWallet(r) \/ CreateProfile(r) \/ CreateNotificationSetting(r) \/ CreateCurrency(r)
  <2>1. \/ UNCHANGED users
        \/ \E part \in Parts : users' = [users EXCEPT ![u] = [row EXCEPT !.parts = row.parts \cup {part}]]
        \/ users' = [users EXCEPT ![u] = [row EXCEPT !.parts = row.parts \cup {"profile"}, !.name = request[r].name]]
    BY <1>2, <1>6 DEF CreateWallet, CreateProfile, CreateNotificationSetting, CreateCurrency, AddPart, Mine, Parts
  <2>2. ASSUME NEW later, users' = [users EXCEPT ![u] = later],
               later.email = row.email, later.own = row.own, later.origin = row.origin, row.parts \subseteq later.parts
        PROVE  EmailsKept /\ OriginsKept
    BY <1>2, <2>2 DEF EmailsKept, OriginsKept
  <2>3. ASSUME NEW part
        PROVE  LET later == [row EXCEPT !.parts = row.parts \cup {part}]
               IN  /\ later.email = row.email /\ later.own = row.own
                   /\ later.origin = row.origin /\ row.parts \subseteq later.parts
    BY <1>3 DEF UserRows
  <2>4. LET later == [row EXCEPT !.parts = row.parts \cup {"profile"}, !.name = request[r].name]
        IN  /\ later.email = row.email /\ later.own = row.own
                   /\ later.origin = row.origin /\ row.parts \subseteq later.parts
    BY <1>3 DEF UserRows
  <2> HIDE DEF row
  <2> QED
    BY <2>1, <2>2, <2>3, <2>4, NoUserWritten
<1> QED
  BY <1>4, <1>5, <1>6

\* Every step but a sign-up's or a recovery's leaves the users who they are.
LEMMA UserSteps ==
  ASSUME AccountsInv, NEW r \in Requests,
         Receive(r) \/ AuthStep(r) \/ TokenStep(r) \/ AccountStep(r) \/ Fail(r)
  PROVE  \/ OriginsKept /\ (EmailsKept \/ AdoptProfileEmail(r) \/ UpdateUserEmail(r))
         \/ CreateUser(r)
<1>1. CASE AuthStep(r)
  BY <1>1, NoUserWritten DEF AuthStep, VerifySession, Touch, FindSession, LogoutFirst, OpenSession, Logout, userVars
<1>2. CASE TokenStep(r)
  <2>1. CASE AdoptProfileEmail(r) \/ ClearProfileEmail(r)
    BY <2>1, UserWrites
  <2>2. CASE ~(AdoptProfileEmail(r) \/ ClearProfileEmail(r))
    <3>1. UNCHANGED users
      BY <1>2, <2>2 DEF TokenStep, StartVerification, StartEmailVerification,
                GenerateVerification, Mail, CheckCode, Prolong, SetVerified, HandOut, CheckToken, SpendToken, userVars
    <3> QED
      BY <3>1, NoUserWritten
  <2> QED
    BY <2>1, <2>2
<1>3. CASE AccountStep(r)
  <2>1. CASE CreateWallet(r) \/ CreateProfile(r) \/ CreateNotificationSetting(r) \/ CreateCurrency(r)
               \/ WritePassword(r) \/ UpdateUserEmail(r) \/ DeleteUser(r) \/ UpdateUserStatus(r)
    BY <2>1, UserWrites
  <2>2. CASE CheckNewUser(r) \/ LoadUser(r) \/ Login(r) \/ LoginReward(r) \/ RecoverAccount(r)
               \/ ReadForPassword(r) \/ FindForReset(r) \/ CompleteEmailVerification(r)
    BY <2>2, NoUserWritten DEF CheckNewUser, LoadUser, Login, LoginReward, RecoverAccount, ReadForPassword,
                FindForReset, CompleteEmailVerification, userVars
  <2> QED
    BY <1>3, <2>1, <2>2 DEF AccountStep
<1>4. CASE Receive(r) \/ Fail(r)
  BY <1>4, NoUserWritten DEF Receive, Fail, userVars
<1> QED
  BY <1>1, <1>2, <1>3, <1>4

LEMMA OthersWriteNoUser ==
  ASSUME AccountsInv, FallBehind \/ CatchUp \/ Time \/ UNCHANGED vars
  PROVE  UNCHANGED <<users, request, failures, abandoned>>
  BY DEF FallBehind, CatchUp, Time, CacheExpires, vars, userVars, counters

\* The tables after a step.
LEMMA StepKeepsTables ==
  ASSUME AccountsInv, AccountsInv', RowsStep
  PROVE  \A email \in Emails : Presented(verification, email) => Presented(verification, email)'
<1>0. /\ Tables /\ verification \in Seq(Rows) /\ DOMAIN verification = 1..Len(verification) /\ Len(verification) \in Nat
      /\ \A t \in DOMAIN verification : verification[t] \in Rows
  BY InvParts, NumbersOfRows, ElementOfSeq, LenProperties DEF Tables, TokensOK, TokenTypeOK
<1>1. \A t \in DOMAIN verification : /\ t \in DOMAIN verification' /\ verification'[t].email = verification[t].email
                                     /\ verification[t].verified => verification'[t].verified
  <2>1. CASE UNCHANGED verification
    BY <2>1
  <2>2. ASSUME NEW t \in DOMAIN verification, TokenOp(t)
        PROVE  Earlier(verification, verification') /\ verification' \in Seq(Rows)
    BY <1>0, <2>2, TokenOpKeeps DEF TokensOK, TokenTypeOK
  <2>3. ASSUME NEW email \in Emails, CreateVerification(email)
        PROVE  Earlier(verification, verification') /\ verification' \in Seq(Rows)
    BY <1>0, <2>3, CreateVerificationKeeps
  <2>4. CASE Earlier(verification, verification') /\ verification' \in Seq(Rows)
    BY <1>0, <2>4, DomainsGrow DEF Earlier
  <2> QED
    BY <2>1, <2>2, <2>3, <2>4 DEF RowsStep, TokenOp
<1> QED
  BY <1>1 DEF Presented

LEMMA FailuresCounted ==
  ASSUME AccountsInv, NEW r \in Requests,
         Receive(r) \/ AuthStep(r) \/ TokenStep(r) \/ AccountStep(r) \/ Fail(r)
  PROVE  \/ Fail(r) /\ failures' = failures + 1 /\ abandoned' = abandoned
         \/ /\ ~Fail(r) /\ failures' = failures
            /\ \/ abandoned' = abandoned
               \/ abandoned' = abandoned + 1 /\ (CreateProfile(r) \/ CreateCurrency(r))
<1>0. failures \in Nat /\ (Fail(r) => failures' = failures + 1 /\ abandoned' = abandoned)
  BY InvParts, AccountAssumption DEF Tables, CountersOK, Fail
<1>1. ASSUME failures' = failures PROVE ~Fail(r)
  BY <1>0, <1>1
<1>2. CASE AuthStep(r)
  <2>1. UNCHANGED counters
    BY <1>2 DEF AuthStep, VerifySession, Touch, FindSession, LogoutFirst, OpenSession, Logout
  <2> QED
    BY <1>1, <2>1 DEF counters
<1>3. CASE TokenStep(r)
  <2>1. UNCHANGED counters
    BY <1>3 DEF TokenStep, StartVerification, AdoptProfileEmail, ClearProfileEmail, StartEmailVerification,
                GenerateVerification, Mail, CheckCode, Prolong, SetVerified, HandOut, CheckToken, SpendToken
  <2> QED
    BY <1>1, <2>1 DEF counters
<1>4. CASE AccountStep(r)
  <2>1. CASE CreateProfile(r) \/ CreateCurrency(r)
    BY <1>1, <2>1 DEF CreateProfile, CreateCurrency, Abandon, counters
  <2>2. CASE ~(CreateProfile(r) \/ CreateCurrency(r))
    <3>1. UNCHANGED counters
      BY <1>4, <2>2 DEF AccountStep, CheckNewUser, CreateUser, CreateWallet, CreateNotificationSetting,
                LoadUser, Login, LoginReward, RecoverAccount, ReadForPassword, FindForReset,
                WritePassword, CompleteEmailVerification, UpdateUserEmail, DeleteUser, UpdateUserStatus
    <3> QED
      BY <1>1, <3>1 DEF counters
  <2> QED
    BY <2>1, <2>2
<1>5. CASE Receive(r)
  BY <1>1, <1>5 DEF Receive
<1> QED
  BY <1>0, <1>2, <1>3, <1>4, <1>5

-----------------------------------------------------------------------------
(* How often a token is used. *)

\* Between the look-up of a row and the write that follows it.
Looking == BeforeVerified \cup {"expire"}
Turns(r, from, to) ==
    request[r].pc = from /\ request'[r].pc = to /\ request'[r].token = request[r].token

\* What a step of request r does to the rows and to the requests that are about to write one.
Idle(r) ==
    /\ request'[r].pc \notin Looking /\ UNCHANGED <<uses, crossed>>
    /\ UNCHANGED verification \/ \E email \in Emails : CreateVerification(email)
FindsCode(r) ==
    LET t == request[r].token
    IN  /\ Turns(r, "code", "prolong") \/ Turns(r, "move", "takeEmail")
        /\ CodeLookedUp(r, t) /\ t \in DOMAIN SeenRows /\ ~SeenRows[t].verified
FindsToken(r) ==
    LET t == request[r].token
    IN  /\ Turns(r, "token", "expire")
        /\ Looked(t, Expiring(r, t) \/ (behind /\ verification[t].expiry = "past"))
        /\ t \in DOMAIN SeenRows /\ SeenRows[t].verified /\ SeenRows[t].expiry # "past"
WritesAddress(r) == Turns(r, "takeEmail", "verified") /\ UNCHANGED <<verification, uses, crossed>>
WritesExpiry(r) == Turns(r, "prolong", "verified") /\ AddExpiryTime(request[r].token)
WritesVerified(r) ==
    At(r, "verified") /\ request'[r].pc \notin Looking /\ UpdateVerificationStatus(request[r].token)
WritesUse(r) == At(r, "expire") /\ request'[r].pc \notin Looking /\ ExpireToken(request[r].token)
SpendStep(r) ==
    \/ Idle(r) \/ FindsCode(r) \/ FindsToken(r) \/ WritesAddress(r) \/ WritesExpiry(r)
    \/ WritesVerified(r) \/ WritesUse(r)

LEMMA GoesTo ==
  ASSUME AccountsInv, NEW r \in Requests, NEW label, label # "rest", Goto(r, label)
  PROVE  request'[r].pc = label /\ request'[r].token = request[r].token
<1> DEFINE next == [request[r] EXCEPT !.pc = label]
<1>1. request \in [Requests -> Locals] /\ request[r] \in Locals
  BY InvParts DEF RequestsOK
<1>2. Become(r, next) /\ next.pc = label /\ next.token = request[r].token
  BY <1>1 DEF Goto, Locals
<1> HIDE DEF next
<1> QED
  BY <1>1, <1>2 DEF Become

LEMMA Landing ==
  ASSUME AccountsInv, NEW r \in Requests, NEW label,
         \/ \E u : Become(r, [request[r] EXCEPT !.pc = label, !.user = u])
         \/ \E t : Become(r, [request[r] EXCEPT !.pc = label, !.token = t])
         \/ \E e : Become(r, [request[r] EXCEPT !.pc = label, !.old = e])
         \/ \E u, e : Become(r, [request[r] EXCEPT !.pc = label, !.user = u, !.old = e])
  PROVE  request'[r].pc = label
<1> DEFINE l == request[r]
<1>0. request \in [Requests -> Locals] /\ l \in Locals
  BY InvParts DEF RequestsOK
<1>1. ASSUME NEW next, Become(r, next), next.pc = label PROVE request'[r].pc = label
  BY <1>0, <1>1 DEF Become
<1>2. ASSUME NEW u, Become(r, [l EXCEPT !.pc = label, !.user = u]) PROVE request'[r].pc = label
  <2>1. [l EXCEPT !.pc = label, !.user = u].pc = label
    BY <1>0 DEF Locals
  <2> QED
    BY <1>1, <1>2, <2>1
<1>3. ASSUME NEW t, Become(r, [l EXCEPT !.pc = label, !.token = t]) PROVE request'[r].pc = label
  <2>1. [l EXCEPT !.pc = label, !.token = t].pc = label
    BY <1>0 DEF Locals
  <2> QED
    BY <1>1, <1>3, <2>1
<1>4. ASSUME NEW e, Become(r, [l EXCEPT !.pc = label, !.old = e]) PROVE request'[r].pc = label
  <2>1. [l EXCEPT !.pc = label, !.old = e].pc = label
    BY <1>0 DEF Locals
  <2> QED
    BY <1>1, <1>4, <2>1
<1>5. ASSUME NEW u, NEW e, Become(r, [l EXCEPT !.pc = label, !.user = u, !.old = e]) PROVE request'[r].pc = label
  <2> DEFINE next == [l EXCEPT !.pc = label, !.user = u, !.old = e]
  <2>1. Become(r, next) /\ next.pc = label
    BY <1>0, <1>5 DEF Locals
  <2> HIDE DEF next
  <2> QED
    BY <1>1, <2>1
<1> QED
  BY <1>2, <1>3, <1>4, <1>5, Zenon

LEMMA LandsAtRest == ASSUME AccountsInv, NEW r \in Requests, Refuse(r) \/ Become(r, Blank) PROVE request'[r].pc = "rest"
<1>1. Become(r, Blank) /\ Blank.pc = "rest"
  BY DEF Refuse, Goto, Blank
<1> QED
  BY <1>1, InvParts DEF Become, RequestsOK


\* What a step of one request is to the tokens.
LEMMA SpendSteps ==
  ASSUME AccountsInv, NEW r \in Requests,
         Receive(r) \/ AuthStep(r) \/ TokenStep(r) \/ AccountStep(r) \/ Fail(r)
  PROVE  SpendStep(r)
<1> DEFINE l == request[r]
           t == request[r].token
<1>1. ASSUME UNCHANGED tokenVars PROVE UNCHANGED <<verification, uses, crossed>>
  BY <1>1 DEF tokenVars, tokenRows, tokenHistory
<1>2. ASSUME UNCHANGED <<verification, uses, crossed>>, request'[r].pc \notin Looking PROVE SpendStep(r)
  BY <1>2 DEF SpendStep, Idle
<1>3. "rest" \notin Looking
  BY DEF Looking, BeforeVerified
<1>4. ASSUME Refuse(r) \/ Become(r, Blank), UNCHANGED tokenVars PROVE SpendStep(r)
  BY <1>1, <1>2, <1>3, <1>4, LandsAtRest
<1>5. ASSUME NEW label, label \notin Looking, UNCHANGED tokenVars,
             \/ Goto(r, label) /\ label # "rest"
             \/ \E u : Become(r, [l EXCEPT !.pc = label, !.user = u])
             \/ \E s : Become(r, [l EXCEPT !.pc = label, !.token = s])
             \/ \E e : Become(r, [l EXCEPT !.pc = label, !.old = e])
             \/ \E u, e : Become(r, [l EXCEPT !.pc = label, !.user = u, !.old = e])
      PROVE  SpendStep(r)
  BY <1>1, <1>2, <1>5, GoesTo, Landing
<1>6. CASE CheckCode(r)
  <2>1. CASE VerifyCode(t, t) /\ Goto(r, "prolong") /\ CodeLookedUp(r, t) /\ t \in FindVerificationByEmail(l.email)
    <3>1. Turns(r, "code", "prolong")
      BY <1>6, <2>1, GoesTo DEF Turns, CheckCode, At
    <3> QED
      BY <2>1, <3>1 DEF SpendStep, FindsCode, FindVerificationByEmail
  <2>2. ASSUME NEW s \in FindVerificationByEmail(l.email), VerifyCode(t, s) PROVE s = t
    BY <2>2 DEF VerifyCode
  <2> QED
    BY <1>4, <1>6, <2>1, <2>2 DEF CheckCode, Mine
<1>7. CASE CompleteEmailVerification(r)
  <2>1. CASE Goto(r, "takeEmail") /\ CodeLookedUp(r, t) /\ t \in FindVerificationByEmail(l.email)
    <3>1. Turns(r, "move", "takeEmail")
      BY <1>7, <2>1, GoesTo DEF Turns, CompleteEmailVerification, At
    <3> QED
      BY <2>1, <3>1 DEF SpendStep, FindsCode, FindVerificationByEmail
  <2>2. ASSUME NEW s \in FindVerificationByEmail(l.email), VerifyCode(t, s) PROVE s = t
    BY <2>2 DEF VerifyCode
  <2> QED
    BY <1>4, <1>7, <2>1, <2>2 DEF CompleteEmailVerification, Mine
<1>8. CASE CheckToken(r)
  <2>1. CASE /\ VerifyToken(t, l.email) /\ Goto(r, "expire")
             /\ Looked(t, Expiring(r, t) \/ (behind /\ verification[t].expiry = "past"))
    <3>1. Turns(r, "token", "expire")
      BY <1>8, <2>1, GoesTo DEF Turns, CheckToken, At
    <3> QED
      BY <2>1, <3>1 DEF SpendStep, FindsToken, VerifyToken, FindVerificationById, IsCodeExpired
  <2> QED
    BY <1>4, <1>8, <2>1 DEF CheckToken, Mine
<1>9. CASE UpdateUserEmail(r)
  <2>1. Turns(r, "takeEmail", "verified")
    BY <1>9, GoesTo DEF Turns, UpdateUserEmail, At
  <2> QED
    BY <1>1, <1>9, <2>1 DEF SpendStep, WritesAddress, UpdateUserEmail
<1>10. CASE Prolong(r)
  <2>1. Turns(r, "prolong", "verified")
    BY <1>10, GoesTo DEF Turns, Prolong, At
  <2> QED
    BY <1>10, <2>1 DEF SpendStep, WritesExpiry, Prolong, Mine
<1>11. CASE SetVerified(r)
  <2>1. request'[r].pc \in {"handOut", "rest"}
    BY <1>11, GoesTo, LandsAtRest DEF SetVerified, GotoIf, Refuse
  <2> QED
    BY <1>11, <2>1 DEF SpendStep, WritesVerified, SetVerified, Mine, Looking, BeforeVerified
<1>12. CASE SpendToken(r)
  <2>1. \E label \in {"create", "find", "rest"} : Goto(r, label)
    BY <1>12 DEF SpendToken
  <2>2. request'[r].pc \in {"create", "find", "rest"}
    BY <2>1, GoesTo, LandsAtRest DEF Refuse
  <2> QED
    BY <1>12, <2>2 DEF SpendStep, WritesUse, SpendToken, Mine, Looking, BeforeVerified
<1>13. CASE GenerateVerification(r)
  <2>1. /\ \E s : Become(r, [l EXCEPT !.pc = "mail", !.token = s])
        /\ UNCHANGED tokenVars \/ CreateVerification(l.email)
        /\ l.pc = "generate"
    BY <1>13 DEF GenerateVerification, Mine, At
  <2>2. request'[r].pc = "mail" /\ "mail" \notin Looking
    BY <2>1, Landing DEF Looking, BeforeVerified
  <2>3. l.email \in Emails
    <3>1. KindsAt("generate") \subseteq WithEmail
      BY DEF KindsAt, WithEmail
    <3> QED
      BY <2>1, <3>1, AtLabel DEF Sound
  <2>4. CreateVerification(l.email) => UNCHANGED <<uses, crossed>>
    BY DEF CreateVerification, tokenHistory
  <2> QED
    BY <1>1, <2>1, <2>2, <2>3, <2>4 DEF SpendStep, Idle
<1>14. CASE Mail(r) \/ HandOut(r)
  <2>1. Refuse(r) /\ UNCHANGED <<verification, uses, crossed>>
    BY <1>14 DEF Mail, HandOut, MailCode, GenerateToken, tokenHistory
  <2> QED
    BY <1>2, <1>3, <2>1, LandsAtRest
<1>15. CASE StartVerification(r) \/ AdoptProfileEmail(r) \/ ClearProfileEmail(r) \/ StartEmailVerification(r)
  <2>1. /\ UNCHANGED tokenVars
        /\ \/ Refuse(r) \/ \E label \in {"unprofile", "generate"} : Goto(r, label)
           \/ \E u : Become(r, [l EXCEPT !.pc = "adopt", !.user = u])
    BY <1>15 DEF StartVerification, AdoptProfileEmail, ClearProfileEmail, StartEmailVerification,
                 GotoIf, Refuse, Mine
  <2>2. {"unprofile", "generate", "adopt"} \cap Looking = {}
    BY DEF Looking, BeforeVerified
  <2> QED
    BY <1>4, <1>5, <2>1, <2>2
<1>16. CASE AuthStep(r)
  <2>1. /\ UNCHANGED tokenVars
        /\ \/ Refuse(r) \/ \E label \in {"logOutFirst", "open"} : Goto(r, label)
           \/ \E u : Become(r, [l EXCEPT !.pc = "touch", !.user = u])
           \/ l.kind \in Authenticated /\ Goto(r, Handler(l.kind))
    <3>1. l.pc = "touch" => l.kind \in Authenticated
      <4>1. KindsAt("touch") = Authenticated
        BY DEF KindsAt
      <4> QED
        BY <4>1, AtLabel
    <3> QED
      BY <1>16, <3>1 DEF AuthStep, VerifySession, Touch, FindSession, LogoutFirst, OpenSession, Logout,
                         Refuse, Mine, At
  <2>2. /\ {"logOutFirst", "open", "touch"} \cap Looking = {}
        /\ \A kind \in Authenticated : Handler(kind) \notin Looking
    BY DEF Looking, BeforeVerified, Authenticated, Handler
  <2> QED
    BY <1>4, <1>5, <2>1, <2>2 DEF Refuse
<1>17. CASE AccountStep(r) /\ ~CompleteEmailVerification(r) /\ ~UpdateUserEmail(r)
  <2>1. UNCHANGED tokenVars
    BY <1>17 DEF AccountStep, CheckNewUser, CreateUser, CreateWallet, CreateProfile, CreateNotificationSetting,
                CreateCurrency, LoadUser, Login, LoginReward, RecoverAccount, ReadForPassword, FindForReset,
                WritePassword, DeleteUser, UpdateUserStatus
  <2>2. \/ Refuse(r) \/ Become(r, Blank)
        \/ \E label \in {"token", "profile", "settings", "currency", "load", "session"} : Goto(r, label)
        \/ \E label \in {"wallet", "reward"} : \E u : Become(r, [l EXCEPT !.pc = label, !.user = u])
        \/ \E label \in {"token", "password"} : \E e : Become(r, [l EXCEPT !.pc = label, !.old = e])
        \/ \E u, e : Become(r, [l EXCEPT !.pc = "password", !.user = u, !.old = e])
    BY <1>17 DEF AccountStep, CheckNewUser, CreateUser, CreateWallet, CreateProfile, CreateNotificationSetting,
                CreateCurrency, LoadUser, Login, LoginReward, RecoverAccount, ReadForPassword, FindForReset,
                WritePassword, DeleteUser, UpdateUserStatus, GotoIf, Refuse, Abandon, Mine
  <2>3. {"token", "profile", "settings", "currency", "load", "session", "wallet", "reward", "password"} \cap Looking = {}
    BY DEF Looking, BeforeVerified
  <2> QED
    BY <1>4, <1>5, <2>1, <2>2, <2>3
<1>18. CASE Fail(r)
  BY <1>4, <1>18 DEF Fail
<1>19. CASE Receive(r)
  <2>1. PICK kind \in Kinds : \E call \in Arguments(kind) : Become(r, call)
    BY <1>19 DEF Receive
  <2>2. PICK call \in Arguments(kind) : Become(r, call)
    BY <2>1
  <2>3. request'[r] = call /\ kind \in Public \cup Authenticated
    BY <2>2, InvParts, AccountAssumption DEF Become, RequestsOK
  <2>4. \/ \E e, n, s, u, o : call \in Calls(kind, e, n, s, u, o)
        \/ \E o : call \in CallsWithCode(kind, o)
    BY <2>3 DEF Arguments, Public, Authenticated
  <2>5. call.pc \in {"authenticate", Handler(kind)} /\ (kind \in Authenticated => call.pc = "authenticate")
    BY <2>4 DEF Calls, CallsWithCode
  <2>6. "authenticate" \notin Looking /\ \A k \in Public : Handler(k) \notin Looking
    BY DEF Looking, BeforeVerified, Public, Handler
  <2> QED
    BY <1>1, <1>2, <1>19, <2>3, <2>5, <2>6 DEF Receive
<1> QED
  BY <1>6, <1>7, <1>8, <1>9, <1>10, <1>11, <1>12, <1>13, <1>14, <1>15, <1>16, <1>17, <1>18, <1>19 DEF TokenStep

\* The requests at some labels about a row, when only one request goes on.
LEMMA DoersMove ==
  ASSUME NEW r \in Requests, OnlyMoves(r), NEW labels, NEW t
  PROVE  LET b == request[r].token = t /\ request[r].pc \in labels
             a == request'[r].token = t /\ request'[r].pc \in labels
         IN  /\ Doers(labels, t) \in Nat /\ Doers(labels, t)' \in Nat
             /\ Doers(labels, t)' = Doers(labels, t) + (IF a THEN 1 ELSE 0) - (IF b THEN 1 ELSE 0)
             /\ b => Doers(labels, t) > 0
             /\ (~b /\ ~\E other \in Requests \ {r} : request[other].token = t /\ request[other].pc \in labels)
                   => Doers(labels, t) = 0
<1> DEFINE b == request[r].token = t /\ request[r].pc \in labels
           a == request'[r].token = t /\ request'[r].pc \in labels
           before == Doing(labels, t)
           after == Doing(labels, t)'
<1>1. /\ before \subseteq Requests /\ after \subseteq Requests
      /\ (r \in before <=> b) /\ (r \in after <=> a)
  BY DEF Doing
<1>2. before \ {r} = after \ {r}
  BY DEF Doing, OnlyMoves
<1>3. IsFiniteSet(before) /\ IsFiniteSet(after)
  BY <1>1, FS_Subset, AccountAssumption
<1>4. /\ Cardinality(before) \in Nat /\ Cardinality(after) \in Nat
      /\ Cardinality(before \ {r}) \in Nat
  BY <1>3, FS_CardinalityType, FS_RemoveElement
<1>5. /\ Cardinality(before \ {r}) = IF r \in before THEN Cardinality(before) - 1 ELSE Cardinality(before)
      /\ Cardinality(after \ {r}) = IF r \in after THEN Cardinality(after) - 1 ELSE Cardinality(after)
  BY <1>3, FS_RemoveElement
<1>6. (~b /\ ~\E other \in Requests \ {r} : request[other].token = t /\ request[other].pc \in labels)
         => Cardinality(before) = 0
  <2>1. (~b /\ ~\E other \in Requests \ {r} : request[other].token = t /\ request[other].pc \in labels)
           => before = {}
    BY DEF Doing
  <2> QED
    BY <2>1, FS_EmptySet
<1>7. Doers(labels, t) = Cardinality(before) /\ Doers(labels, t)' = Cardinality(after)
  BY DEF Doers
<1> HIDE DEF b, a, before, after
<1>8. /\ Doers(labels, t) \in Nat /\ Doers(labels, t)' \in Nat
      /\ Doers(labels, t)' = Doers(labels, t) + (IF a THEN 1 ELSE 0) - (IF b THEN 1 ELSE 0)
      /\ b => Doers(labels, t) > 0
  BY <1>1, <1>2, <1>4, <1>5, <1>7
<1> QED
  BY <1>6, <1>7, <1>8 DEF a, b

\* What the bound is about, after a step of one request.
LEMMA SpendNumbers ==
  ASSUME AccountsInv, AccountsInv', NEW r \in Requests, OnlyMoves(r), NEW t \in TokenIds
  PROVE  /\ uses[t] \in Nat /\ crossed[t] \in Nat /\ uses'[t] \in Nat /\ crossed'[t] \in Nat
         /\ Alive(t) \in {0, 1} /\ Alive(t)' \in {0, 1}
         /\ \A labels \in {{"prolong"}, {"expire"}, BeforeVerified} :
               Doers(labels, t) \in Nat /\ Doers(labels, t)' \in Nat
<1>1. /\ uses \in [TokenIds -> Nat] /\ crossed \in [TokenIds -> Nat]
      /\ uses' \in [TokenIds -> Nat] /\ crossed' \in [TokenIds -> Nat]
  BY DEF AccountsInv, TypeOK, TokenTypeOK
<1>2. Alive(t) \in {0, 1} /\ Alive(t)' \in {0, 1}
  BY DEF Alive
<1> QED
  BY <1>1, <1>2, DoersMove

\* Nothing about row t changes but that requests give up.
LEMMA BoundStands ==
  ASSUME AccountsInv, AccountsInv', SpendInv, NEW r \in Requests, OnlyMoves(r), NEW t \in TokenIds,
         uses'[t] = uses[t], crossed'[t] = crossed[t],
         Opened(t)' <=> Opened(t), Opened(t) => Alive(t)' <= Alive(t),
         \A labels \in {{"prolong"}, {"expire"}, BeforeVerified} : Doers(labels, t)' <= Doers(labels, t)
  PROVE  SpendBound(t)'
<1>1. SpendBound(t)
  BY DEF SpendInv
<1>2. /\ Doers({"prolong"}, t)' <= Doers({"prolong"}, t) /\ Doers({"expire"}, t)' <= Doers({"expire"}, t)
      /\ Doers(BeforeVerified, t)' <= Doers(BeforeVerified, t)
  OBVIOUS
<1>3. /\ uses[t] \in Nat /\ crossed[t] \in Nat /\ Alive(t) \in {0, 1} /\ Alive(t)' \in {0, 1}
      /\ Doers({"prolong"}, t) \in Nat /\ Doers({"prolong"}, t)' \in Nat
      /\ Doers({"expire"}, t) \in Nat /\ Doers({"expire"}, t)' \in Nat
      /\ Doers(BeforeVerified, t) \in Nat /\ Doers(BeforeVerified, t)' \in Nat
  BY SpendNumbers
<1>4. CASE Opened(t)
  <2>1. /\ uses[t] + Doers({"prolong"}, t) + Alive(t) <= 1 + crossed[t]
        /\ uses[t] + Doers({"prolong"}, t) + Doers({"expire"}, t) <= 1 + crossed[t]
    BY <1>1, <1>4 DEF SpendBound
  <2>2. /\ uses'[t] + Doers({"prolong"}, t)' + Alive(t)' <= 1 + crossed'[t]
        /\ uses'[t] + Doers({"prolong"}, t)' + Doers({"expire"}, t)' <= 1 + crossed'[t]
    BY <1>2, <1>3, <1>4, <2>1
  <2> QED
    BY <1>4, <2>2 DEF SpendBound
<1>5. CASE ~Opened(t)
  <2>1. uses[t] = 0 /\ Doers(BeforeVerified, t) <= 1 + crossed[t]
    BY <1>1, <1>5 DEF SpendBound
  <2>2. uses'[t] = 0 /\ Doers(BeforeVerified, t)' <= 1 + crossed'[t]
    BY <1>2, <1>3, <2>1
  <2> QED
    BY <1>5, <2>2 DEF SpendBound
<1> QED
  BY <1>4, <1>5

\* A step of a request about another row.
LEMMA OtherRow ==
  ASSUME AccountsInv, AccountsInv', SpendInv, NEW r \in Requests, OnlyMoves(r), SpendStep(r), ~Idle(r),
         NEW t \in TokenIds, t # request[r].token
  PROVE  SpendBound(t)'
<1> DEFINE s == request[r].token
<1>1. s \in DOMAIN verification /\ s \in TokenIds
  <2>1. request[r].pc \in {"code", "move", "token", "takeEmail", "prolong", "verified", "expire"}
    BY DEF SpendStep, FindsCode, FindsToken, WritesAddress, WritesExpiry, WritesVerified, WritesUse, Turns, At
  <2>2. KindsAt(request[r].pc) \subseteq WithToken
    BY <2>1 DEF KindsAt, WithToken
  <2> QED
    BY <2>2, AtLabel, InvParts, NumbersOfRows
<1>2. /\ uses \in [TokenIds -> Nat] /\ crossed \in [TokenIds -> Nat] /\ verification \in Seq(Rows)
  BY DEF AccountsInv, TypeOK, TokenTypeOK
<1>3. /\ uses' \in {uses, Count(uses, s)} /\ crossed' \in {crossed, Count(crossed, s)}
      /\ UNCHANGED verification \/ \E row : verification' = [verification EXCEPT ![s] = row]
  BY DEF SpendStep, FindsCode, FindsToken, WritesAddress, WritesExpiry, WritesVerified, WritesUse,
         CodeLookedUp, Looked, tokenRows, tokenHistory, AddExpiryTime, UpdateVerificationStatus, ExpireToken
<1>4. uses'[t] = uses[t] /\ crossed'[t] = crossed[t]
  BY <1>2, <1>3 DEF Count
<1>5. (Opened(t)' <=> Opened(t)) /\ (Opened(t) => Alive(t)' = Alive(t))
  <2>1. DOMAIN verification' = DOMAIN verification /\ (t \in DOMAIN verification => verification'[t] = verification[t])
    BY <1>1, <1>2, <1>3
  <2> QED
    BY <2>1 DEF Opened, Alive
<1>6. ASSUME NEW labels \in {{"prolong"}, {"expire"}, BeforeVerified} PROVE Doers(labels, t)' <= Doers(labels, t)
  <2>1. request'[r].token = s \/ request'[r].pc \notin labels
    BY DEF SpendStep, FindsCode, FindsToken, WritesAddress, WritesExpiry, WritesVerified, WritesUse, Turns,
           Looking, BeforeVerified
  <2> QED
    BY <2>1, DoersMove
<1>7. Opened(t) => Alive(t)' <= Alive(t)
  BY <1>5 DEF Alive
<1> QED
  BY <1>4, <1>5, <1>6, <1>7, BoundStands

LEMMA IdleKeeps ==
  ASSUME AccountsInv, AccountsInv', SpendInv, NEW r \in Requests, OnlyMoves(r), Idle(r), NEW t \in TokenIds
  PROVE  SpendBound(t)'
<1>1. uses'[t] = uses[t] /\ crossed'[t] = crossed[t]
  BY DEF Idle
<1>2. ASSUME NEW labels \in {{"prolong"}, {"expire"}, BeforeVerified} PROVE Doers(labels, t)' <= Doers(labels, t)
  <2>1. request'[r].pc \notin labels
    BY DEF Idle, Looking, BeforeVerified
  <2> QED
    BY <2>1, DoersMove
<1>3. (Opened(t)' <=> Opened(t)) /\ (Opened(t) => Alive(t)' = Alive(t))
  <2>1. CASE UNCHANGED verification
    BY <2>1 DEF Opened, Alive
  <2>2. ASSUME NEW email \in Emails, CreateVerification(email)
        PROVE  (Opened(t)' <=> Opened(t)) /\ (Opened(t) => Alive(t)' = Alive(t))
    <3> DEFINE row == [email |-> email, verified |-> FALSE, expiry |-> "none"]
    <3>1. row \in Rows /\ verification \in Seq(Rows) /\ verification' = Append(verification, row) /\ ~row.verified
      BY <2>2 DEF CreateVerification, Rows, Expiries, AccountsInv, TypeOK, TokenTypeOK
    <3> HIDE DEF row
    <3>2. /\ DOMAIN verification' = DOMAIN verification \cup {Len(verification) + 1}
          /\ Len(verification) + 1 \notin DOMAIN verification
          /\ verification'[Len(verification) + 1] = row
          /\ \A s \in DOMAIN verification : verification'[s] = verification[s]
      BY <3>1, AppendProperties, LenProperties
    <3> QED
      BY <3>1, <3>2 DEF Opened, Alive
  <2> QED
    BY <2>1, <2>2 DEF Idle
<1>4. Opened(t) => Alive(t)' <= Alive(t)
  BY <1>3 DEF Alive
<1> QED
  BY <1>1, <1>2, <1>3, <1>4, BoundStands

\* A code that is found good: of a row that is not verified, unless the replica does not know.
LEMMA FindsCodeKeeps ==
  ASSUME AccountsInv, AccountsInv', SpendInv, NEW r \in Requests, OnlyMoves(r), FindsCode(r),
         NEW t \in TokenIds, t = request[r].token
  PROVE  SpendBound(t)'
<1> DEFINE p == Doers({"prolong"}, t)
           b == Doers(BeforeVerified, t)
           e == Doers({"expire"}, t)
           misses == Verifying(r, t) \/ (behind /\ verification[t].verified)
<1>0. /\ uses[t] \in Nat /\ crossed[t] \in Nat /\ Alive(t) \in {0, 1}
      /\ p \in Nat /\ b \in Nat /\ e \in Nat /\ p' \in Nat /\ b' \in Nat /\ e' \in Nat
  BY SpendNumbers
<1>1. SpendBound(t)
  BY DEF SpendInv
<1>2. /\ UNCHANGED <<verification, uses>> /\ ~SeenRows[t].verified
      /\ request[r].pc \in {"code", "move"} /\ request'[r].pc \in {"prolong", "takeEmail"}
      /\ request'[r].token = t
      /\ crossed' = IF misses THEN Count(crossed, t) ELSE crossed
  BY DEF FindsCode, CodeLookedUp, Looked, tokenRows, Turns
<1>3. crossed'[t] = IF misses THEN crossed[t] + 1 ELSE crossed[t]
  BY <1>2 DEF Count, AccountsInv, TypeOK, TokenTypeOK
<1>4. p' <= p + 1 /\ b' <= b + 1 /\ e' <= e /\ (~Verifying(r, t) => b = 0)
  BY <1>2, DoersMove DEF BeforeVerified, Verifying
<1>5. Opened(t)' <=> Opened(t)
  BY <1>2 DEF Opened
<1>6. Alive(t)' = Alive(t)
  BY <1>2 DEF Alive
<1>7. CASE Opened(t)
  <2>1. misses
    BY <1>2, <1>7 DEF Opened, SeenRows
  <2>2. uses[t] + p + Alive(t) <= 1 + crossed[t] /\ uses[t] + p + e <= 1 + crossed[t]
    BY <1>1, <1>7 DEF SpendBound
  <2> HIDE DEF p, b, e, misses
  <2>3. uses'[t] + p' + Alive(t)' <= 1 + crossed'[t] /\ uses'[t] + p' + e' <= 1 + crossed'[t]
    BY <1>0, <1>2, <1>3, <1>4, <1>6, <2>1, <2>2
  <2> QED
    BY <1>5, <1>7, <2>3 DEF SpendBound, p, e
<1>8. CASE ~Opened(t)
  <2>1. uses[t] = 0 /\ b <= 1 + crossed[t]
    BY <1>1, <1>8 DEF SpendBound
  <2>2. misses \/ b = 0
    BY <1>4
  <2> HIDE DEF p, b, e, misses
  <2>3. uses'[t] = 0 /\ b' <= 1 + crossed'[t]
    BY <1>0, <1>2, <1>3, <1>4, <2>1, <2>2
  <2> QED
    BY <1>5, <1>8, <2>3 DEF SpendBound, b
<1> QED
  BY <1>7, <1>8

\* A token that is found good: it is alive, unless the replica does not know.
LEMMA FindsTokenKeeps ==
  ASSUME AccountsInv, AccountsInv', SpendInv, NEW r \in Requests, OnlyMoves(r), FindsToken(r),
         NEW t \in TokenIds, t = request[r].token
  PROVE  SpendBound(t)'
<1> DEFINE p == Doers({"prolong"}, t)
           e == Doers({"expire"}, t)
           misses == Expiring(r, t) \/ (behind /\ verification[t].expiry = "past")
<1>0. /\ uses[t] \in Nat /\ crossed[t] \in Nat /\ Alive(t) \in {0, 1}
      /\ p \in Nat /\ e \in Nat /\ p' \in Nat /\ e' \in Nat
  BY SpendNumbers
<1>1. SpendBound(t)
  BY DEF SpendInv
<1>2. /\ UNCHANGED <<verification, uses>> /\ SeenRows[t].expiry # "past"
      /\ request[r].pc = "token" /\ request'[r].pc = "expire" /\ request'[r].token = t
      /\ crossed' = IF misses THEN Count(crossed, t) ELSE crossed
  BY DEF FindsToken, Looked, tokenRows, Turns
<1>3. crossed'[t] = IF misses THEN crossed[t] + 1 ELSE crossed[t]
  BY <1>2 DEF Count, AccountsInv, TypeOK, TokenTypeOK
<1>4. p' <= p /\ e' <= e + 1 /\ (~Expiring(r, t) => e = 0)
  BY <1>2, DoersMove DEF Expiring, At
<1>5. Opened(t) /\ Opened(t)'
  <2>1. t \in DOMAIN verification /\ verification[t].verified
    BY SeenRowsExist DEF FindsToken, SeenWithin
  <2> QED
    BY <1>2, <2>1 DEF Opened
<1>6. Alive(t)' = Alive(t)
  BY <1>2 DEF Alive
<1>7. uses[t] + p + Alive(t) <= 1 + crossed[t] /\ uses[t] + p + e <= 1 + crossed[t]
  BY <1>1, <1>5 DEF SpendBound
<1>8. misses \/ (e = 0 /\ Alive(t) = 1)
  BY <1>2, <1>4 DEF Alive, SeenRows
<1> HIDE DEF p, e, misses
<1>9. uses'[t] + p' + Alive(t)' <= 1 + crossed'[t] /\ uses'[t] + p' + e' <= 1 + crossed'[t]
  BY <1>0, <1>2, <1>3, <1>4, <1>6, <1>7, <1>8
<1> QED
  BY <1>5, <1>9 DEF SpendBound, p, e

\* The writes that follow a look-up.
LEMMA WritesKeep ==
  ASSUME AccountsInv, AccountsInv', SpendInv, NEW r \in Requests, OnlyMoves(r),
         WritesAddress(r) \/ WritesExpiry(r) \/ WritesVerified(r) \/ WritesUse(r),
         NEW t \in TokenIds, t = request[r].token
  PROVE  SpendBound(t)'
<1> DEFINE p == Doers({"prolong"}, t)
           b == Doers(BeforeVerified, t)
           e == Doers({"expire"}, t)
<1>0. /\ uses[t] \in Nat /\ crossed[t] \in Nat /\ Alive(t) \in {0, 1} /\ Alive(t)' \in {0, 1}
      /\ p \in Nat /\ b \in Nat /\ e \in Nat /\ p' \in Nat /\ b' \in Nat /\ e' \in Nat
  BY SpendNumbers
<1>1. SpendBound(t) /\ uses \in [TokenIds -> Nat] /\ verification \in Seq(Rows)
  BY DEF SpendInv, AccountsInv, TypeOK, TokenTypeOK
<1>2. t \in DOMAIN verification /\ verification[t] \in Rows
  <2>1. request[r].pc \in {"takeEmail", "prolong", "verified", "expire"}
    BY DEF WritesAddress, WritesExpiry, WritesVerified, WritesUse, Turns, At
  <2>2. KindsAt(request[r].pc) \subseteq WithToken
    BY <2>1 DEF KindsAt, WithToken
  <2> QED
    BY <1>1, <2>2, AtLabel, ElementOfSeq, LenProperties
<1>3. CASE WritesAddress(r)
  <2>1. /\ UNCHANGED <<verification, uses, crossed>>
        /\ request[r].pc = "takeEmail" /\ request'[r].pc = "verified" /\ request'[r].token = t
    BY <1>3 DEF WritesAddress, Turns
  <2>2. p' <= p /\ e' <= e /\ b' <= b
    BY <2>1, DoersMove DEF BeforeVerified
  <2>3. (Opened(t)' <=> Opened(t)) /\ Alive(t)' <= Alive(t)
    BY <2>1 DEF Opened, Alive
  <2> QED
    BY <2>1, <2>2, <2>3, BoundStands
<1>4. CASE WritesExpiry(r)
  <2>1. /\ verification' = [verification EXCEPT ![t].expiry = "later"] /\ UNCHANGED <<uses, crossed>>
        /\ request[r].pc = "prolong" /\ request'[r].pc = "verified" /\ request'[r].token = t
    BY <1>4 DEF WritesExpiry, Turns, AddExpiryTime, tokenHistory
  <2>2. p' = p - 1 /\ e' <= e /\ b' <= b
    BY <2>1, DoersMove DEF BeforeVerified
  <2>3. Opened(t)' <=> Opened(t)
    BY <1>1, <1>2, <2>1 DEF Opened, Rows
  <2> HIDE DEF p, b, e
  <2>4. CASE Opened(t)
    <3>1. uses[t] + p + Alive(t) <= 1 + crossed[t] /\ uses[t] + p + e <= 1 + crossed[t]
      BY <1>1, <2>4 DEF SpendBound, p, e
    <3>2. uses'[t] + p' + Alive(t)' <= 1 + crossed'[t] /\ uses'[t] + p' + e' <= 1 + crossed'[t]
      BY <1>0, <2>1, <2>2, <3>1
    <3> QED
      BY <2>3, <2>4, <3>2 DEF SpendBound, p, e
  <2>5. CASE ~Opened(t)
    <3>1. uses[t] = 0 /\ b <= 1 + crossed[t]
      BY <1>1, <2>5 DEF SpendBound, b
    <3>2. uses'[t] = 0 /\ b' <= 1 + crossed'[t]
      BY <1>0, <2>1, <2>2, <3>1
    <3> QED
      BY <2>3, <2>5, <3>2 DEF SpendBound, b
  <2> QED
    BY <2>4, <2>5
<1>5. CASE WritesVerified(r)
  <2>1. /\ verification' = [verification EXCEPT ![t].verified = TRUE] /\ UNCHANGED <<uses, crossed>>
        /\ request[r].pc = "verified" /\ request'[r].pc \notin Looking
    BY <1>5 DEF WritesVerified, UpdateVerificationStatus, tokenHistory, At
  <2>2. p' = p /\ e' = e /\ b > 0
    BY <2>1, DoersMove DEF BeforeVerified, Looking
  <2>3. Opened(t)' /\ Alive(t)' = Alive(t)
    BY <1>1, <1>2, <2>1 DEF Opened, Alive, Rows
  <2>4. CASE Opened(t)
    <3> HIDE DEF p, b, e
    <3>1. uses[t] + p + Alive(t) <= 1 + crossed[t] /\ uses[t] + p + e <= 1 + crossed[t]
      BY <1>1, <2>4 DEF SpendBound, p, e
    <3> QED
      BY <2>1, <2>2, <2>3, <3>1 DEF SpendBound, p, e
  <2>5. CASE ~Opened(t)
    <3>1. uses[t] = 0 /\ b <= 1 + crossed[t]
      BY <1>1, <2>5 DEF SpendBound
    <3>2. e = 0
      <4>1. \A q \in Requests : request[q].pc = "expire" => verification[request[q].token].verified
        BY AtLabel DEF Sound
      <4>2. Doing({"expire"}, t) = {}
        BY <1>2, <2>5, <4>1 DEF Doing, Opened
      <4> QED
        BY <4>2, FS_EmptySet DEF Doers
    <3>3. p + 1 <= b
      <4>1. /\ Doing({"prolong"}, t) \subseteq Doing(BeforeVerified, t) \ {r} /\ r \in Doing(BeforeVerified, t)
            /\ Doing(BeforeVerified, t) \subseteq Requests
        BY <2>1 DEF Doing, BeforeVerified
      <4>2. IsFiniteSet(Doing(BeforeVerified, t)) /\ IsFiniteSet(Doing(BeforeVerified, t) \ {r})
        BY <4>1, FS_Subset, FS_RemoveElement, AccountAssumption
      <4>3. Cardinality(Doing(BeforeVerified, t) \ {r}) = b - 1
        BY <4>1, <4>2, FS_RemoveElement DEF Doers
      <4>4. p <= Cardinality(Doing(BeforeVerified, t) \ {r})
        BY <4>1, <4>2, FS_Subset DEF Doers
      <4> HIDE DEF p, b, e
      <4> QED
        BY <1>0, <4>3, <4>4
    <3> HIDE DEF p, b, e
    <3>4. uses'[t] + p' + Alive(t)' <= 1 + crossed'[t] /\ uses'[t] + p' + e' <= 1 + crossed'[t]
      BY <1>0, <2>1, <2>2, <2>3, <3>1, <3>2, <3>3
    <3> QED
      BY <2>3, <3>4 DEF SpendBound, p, e
  <2> QED
    BY <2>4, <2>5
<1>6. CASE WritesUse(r)
  <2>1. /\ verification' = [verification EXCEPT ![t].expiry = "past"]
        /\ uses' = Count(uses, t) /\ UNCHANGED crossed
        /\ request[r].pc = "expire" /\ request'[r].pc \notin Looking
    BY <1>6 DEF WritesUse, ExpireToken, At
  <2>2. p' = p /\ e' = e - 1
    BY <2>1, DoersMove DEF BeforeVerified, Looking
  <2>3. Opened(t)
    BY <1>2, <2>1, AtLabel DEF Sound, Opened
  <2>4. Opened(t)' /\ Alive(t)' = 0
    BY <1>1, <1>2, <2>1, <2>3 DEF Opened, Alive, Rows
  <2>5. uses'[t] = uses[t] + 1
    BY <1>1, <2>1 DEF Count
  <2> HIDE DEF p, b, e
  <2>6. uses[t] + p + e <= 1 + crossed[t]
    BY <1>1, <2>3 DEF SpendBound, p, e
  <2>7. uses'[t] + p' + Alive(t)' <= 1 + crossed'[t] /\ uses'[t] + p' + e' <= 1 + crossed'[t]
    BY <1>0, <2>1, <2>2, <2>4, <2>5, <2>6
  <2> QED
    BY <2>4, <2>7 DEF SpendBound, p, e
<1> QED
  BY <1>3, <1>4, <1>5, <1>6

\* Time and the replica.
LEMMA OthersSpend ==
  ASSUME AccountsInv, AccountsInv', SpendInv, FallBehind \/ CatchUp \/ Time \/ UNCHANGED vars
  PROVE  SpendInv'
<1> SUFFICES ASSUME NEW t \in TokenIds PROVE SpendBound(t)'
  BY DEF SpendInv
<1>1. UNCHANGED <<request, uses, crossed>>
  BY OthersWriteNoUser DEF FallBehind, CatchUp, Time, TokensFallBehind, TokensCatchUp, TokenTimesOut, CacheExpires,
     tokenHistory, tokenVars, vars
<1>3. \A s \in DOMAIN verification : verification[s] \in Rows
  BY ElementOfSeq, LenProperties DEF AccountsInv, TypeOK, TokenTypeOK
<1>2. Opened(t)' <=> Opened(t)
  <2>1. CASE UNCHANGED verification
    BY <2>1 DEF Opened
  <2>2. ASSUME NEW s \in TokenIds, TokenTimesOut(s) PROVE Opened(t)' <=> Opened(t)
    BY <1>3, <2>2 DEF TokenTimesOut, Opened, Rows
  <2> QED
    BY <2>1, <2>2 DEF FallBehind, CatchUp, Time, TokensFallBehind, TokensCatchUp, CacheExpires, tokenVars, tokenRows, vars
<1>4. Opened(t) => Alive(t)' <= Alive(t)
  <2>1. CASE UNCHANGED verification
    BY <2>1 DEF Alive
  <2>2. ASSUME NEW s \in TokenIds, TokenTimesOut(s), Opened(t) PROVE Alive(t)' <= Alive(t)
    BY <1>3, <2>2 DEF TokenTimesOut, Alive, Opened, Rows
  <2> QED
    BY <2>1, <2>2 DEF FallBehind, CatchUp, Time, TokensFallBehind, TokensCatchUp, CacheExpires, tokenVars, tokenRows, vars
<1>5. \A labels : Doers(labels, t)' = Doers(labels, t)
  BY <1>1 DEF Doers, Doing
<1>6. /\ uses[t] \in Nat /\ crossed[t] \in Nat /\ Alive(t) \in {0, 1} /\ Alive(t)' \in {0, 1}
      /\ Doers({"prolong"}, t) \in Nat
  <2>1. Doing({"prolong"}, t) \subseteq Requests
    BY DEF Doing
  <2>2. Doers({"prolong"}, t) \in Nat
    BY <2>1, FS_Subset, FS_CardinalityType, AccountAssumption DEF Doers
  <2> QED
    BY <2>2 DEF AccountsInv, TypeOK, TokenTypeOK, Alive
<1>7. SpendBound(t)
  BY DEF SpendInv
<1>8. CASE Opened(t)
  <2>1. uses[t] + Doers({"prolong"}, t) + Alive(t)' <= 1 + crossed[t]
    BY <1>4, <1>6, <1>7, <1>8 DEF SpendBound
  <2> QED
    BY <1>1, <1>2, <1>5, <1>7, <1>8, <2>1 DEF SpendBound
<1>9. CASE ~Opened(t)
  BY <1>1, <1>2, <1>5, <1>7, <1>9 DEF SpendBound
<1> QED
  BY <1>8, <1>9

LEMMA SpendKeeps == ASSUME AccountsInv, AccountsInv', SpendInv, [Next]_vars PROVE SpendInv'
<1>1. ASSUME NEW r \in Requests, Receive(r) \/ AuthStep(r) \/ TokenStep(r) \/ AccountStep(r) \/ Fail(r)
      PROVE  SpendInv'
  <2>1. OnlyMoves(r) /\ SpendStep(r)
    BY <1>1, OneMoves, SpendSteps
  <2>2. ASSUME NEW t \in TokenIds PROVE SpendBound(t)'
    BY <2>1, <2>2, IdleKeeps, OtherRow, FindsCodeKeeps, FindsTokenKeeps, WritesKeep DEF SpendStep
  <2> QED
    BY <2>2 DEF SpendInv
<1> QED
  BY <1>1, OthersSpend DEF Next

LEMMA SpendInit == Init => SpendInv
<1> SUFFICES ASSUME Init, NEW t \in TokenIds PROVE SpendBound(t)
  BY DEF SpendInv
<1>1. uses[t] = 0 /\ crossed[t] = 0
  BY DEF Init, TokenInit
<1>2. \A labels \in {{"prolong"}, {"expire"}, BeforeVerified} : Doers(labels, t) = 0
  <2>1. \A labels \in {{"prolong"}, {"expire"}, BeforeVerified} : Doing(labels, t) = {}
    BY DEF Doing, Init, Blank, BeforeVerified
  <2> QED
    BY <2>1, FS_EmptySet DEF Doers
<1>3. Alive(t) \in {0, 1}
  BY DEF Alive
<1> QED
  BY <1>1, <1>2, <1>3 DEF SpendBound

LEMMA SpentIsBounded == ASSUME AccountsInv, SpendInv PROVE SpentOnce
<1> SUFFICES ASSUME NEW t \in TokenIds PROVE uses[t] <= 1 + crossed[t]
  BY DEF SpentOnce
<1>1. SpendBound(t) /\ uses[t] \in Nat /\ crossed[t] \in Nat /\ Alive(t) \in {0, 1}
  BY DEF SpendInv, AccountsInv, TypeOK, TokenTypeOK, Alive
<1>2. Doers({"prolong"}, t) \in Nat
  <2>1. Doing({"prolong"}, t) \subseteq Requests
    BY DEF Doing
  <2> QED
    BY <2>1, FS_Subset, FS_CardinalityType, AccountAssumption DEF Doers
<1> QED
  BY <1>1, <1>2 DEF SpendBound

\* A token is accepted once, and once more at most for each look-up that missed a write of
\* another request, under way or unknown to the replica (VerificationService.verifyToken,
\* verifyCode and the writes that follow them).
THEOREM TokensSpentOnce == Spec => []SpentOnce
<1>1. Init => SpendInv
  BY SpendInit
<1>2. AccountsInv /\ AccountsInv' /\ SpendInv /\ [Next]_vars => SpendInv'
  BY SpendKeeps
<1>3. AccountsInv /\ SpendInv => SpentOnce
  BY SpentIsBounded
<1> QED
  BY InvInit, InvNext, <1>1, <1>2, <1>3, PTL DEF Spec

-----------------------------------------------------------------------------
(* Addresses *)

\* A step leaves "verified" by SetVerified or by a failure.
LEMMA LeavesVerified ==
  ASSUME AccountsInv, NEW r \in Requests, At(r, "verified"),
         Receive(r) \/ AuthStep(r) \/ TokenStep(r) \/ AccountStep(r) \/ Fail(r)
  PROVE  SetVerified(r) \/ Fail(r)
<1>1. ~AuthStep(r)
  BY DEF AuthStep, VerifySession, Touch, FindSession, LogoutFirst, OpenSession, Logout, At
<1>2. TokenStep(r) => SetVerified(r)
  BY DEF TokenStep, StartVerification, AdoptProfileEmail, ClearProfileEmail, StartEmailVerification,
         GenerateVerification, Mail, CheckCode, Prolong, HandOut, CheckToken, SpendToken, At
<1>3. ~AccountStep(r)
  BY DEF AccountStep, CheckNewUser, CreateUser, CreateWallet, CreateProfile, CreateNotificationSetting,
         CreateCurrency, LoadUser, Login, LoginReward, RecoverAccount, ReadForPassword, FindForReset,
         WritePassword, CompleteEmailVerification, UpdateUserEmail, DeleteUser, UpdateUserStatus, At, Mine
<1>4. ~Receive(r)
  BY DEF Receive, At
<1> QED
  BY <1>1, <1>2, <1>3, <1>4

\* An account whose address is as it was is no more unproven than it was.
LEMMA StaysClaimed ==
  ASSUME AccountsInv, AccountsInv', RowsStep, NEW r \in Requests,
         Receive(r) \/ AuthStep(r) \/ TokenStep(r) \/ AccountStep(r) \/ Fail(r),
         NEW u \in DOMAIN users, u \in DOMAIN users',
         users'[u].email = users[u].email, users'[u].own = users[u].own,
         u \notin Unclaimed, u # request[r].user \/ ~Fail(r)
  PROVE  u \notin Unclaimed'
<1>0. users[u] \in UserRows
  BY UsersSeq, InvParts, ElementOfSeq, LenProperties
<1>1. CASE Proven(u)
  <2>1. Proven(u)'
    BY <1>0, <1>1, StepKeepsTables DEF Proven, Presented, UserRows
  <2> QED
    BY <2>1 DEF Unclaimed
<1>2. ASSUME NEW other \in Requests, Proving(other, u), other # r PROVE u \notin Unclaimed'
  <2>1. Proving(other, u)'
    BY <1>2, OneMoves DEF Proving, OnlyMoves, At
  <2> QED
    BY <1>2, <2>1 DEF Unclaimed
<1>3. CASE Proving(r, u)
  <2>1. SetVerified(r)
    BY <1>3, LeavesVerified DEF Proving
  <2>2. request[r].kind \in {"confirm", "move"} /\ Sound(verification, users, Len(session), request[r])
    <3>1. KindsAt("verified") = {"confirm", "move"}
      BY DEF KindsAt
    <3> QED
      BY <1>3, <3>1, AtLabel DEF Proving, At
  <2>3. /\ request[r].token \in DOMAIN verification
        /\ verification[request[r].token].email = users[u].email
    BY <1>3, <2>2, AtLabel DEF Sound, Proving, WithToken
  <2>4. verification[request[r].token] \in Rows
    BY <2>3, InvParts, ElementOfSeq, LenProperties DEF Tables, TokensOK, TokenTypeOK
  <2>5. verification' = [verification EXCEPT ![request[r].token] = [verification[request[r].token] EXCEPT !.verified = TRUE]]
    BY <2>1 DEF SetVerified, UpdateVerificationStatus, Mine
  <2>6. /\ request[r].token \in DOMAIN verification'
        /\ verification'[request[r].token].email = users[u].email /\ verification'[request[r].token].verified
    BY <2>3, <2>4, <2>5 DEF Rows
  <2>7. Proven(u)'
    BY <2>6 DEF Proven, Presented
  <2> QED
    BY <2>7 DEF Unclaimed
<1> QED
  BY <1>1, <1>2, <1>3 DEF Unclaimed

\* Only a failure leaves an account with an address nobody proves.
LEMMA UnclaimedFewer ==
  ASSUME AccountsInv, AccountsInv', RowsStep, NEW r \in Requests,
         Receive(r) \/ AuthStep(r) \/ TokenStep(r) \/ AccountStep(r) \/ Fail(r)
  PROVE  \/ Unclaimed' \subseteq Unclaimed
         \/ Fail(r) /\ Unclaimed' \subseteq Unclaimed \cup {request[r].user}
<1> DEFINE l == request[r]
<1>0. /\ Sound(verification, users, Len(session), l) /\ l \in Locals
      /\ request \in [Requests -> Locals] /\ users \in Seq(UserRows)
  BY AtLabel, InvParts, UsersSeq DEF RequestsOK
<1>1. CASE OriginsKept /\ EmailsKept
  BY <1>1, StaysClaimed DEF OriginsKept, EmailsKept, Unclaimed
<1>2. CASE OriginsKept /\ (AdoptProfileEmail(r) \/ UpdateUserEmail(r))
  <2>1. /\ l.pc \in {"adopt", "takeEmail"}
        /\ users' = [users EXCEPT ![l.user] = [users[l.user] EXCEPT !.email = l.email]]
    BY <1>2 DEF AdoptProfileEmail, UpdateUserEmail, At, Mine
  <2>2. l.user \in DOMAIN users
    <3>1. {"adopt", "takeEmail"} \subseteq UserLabels
      BY DEF UserLabels
    <3> QED
      BY <2>1, <3>1, AtLabel
  <2>3. users[l.user] \in UserRows
    BY <1>0, <2>2, ElementOfSeq, LenProperties
  <2>4. users'[l.user].email = l.email /\ \A u \in DOMAIN users \ {l.user} : users'[u].email = users[u].email
    BY <2>1, <2>2, <2>3 DEF UserRows
  <2>5. PICK w : w = l.user
    OBVIOUS
  <2>6. w \notin Unclaimed'
    <3>1. CASE AdoptProfileEmail(r)
      <4>1. l.email \in users[l.user].own
        BY <1>0, <3>1 DEF Sound, AdoptProfileEmail, At
      <4>2. Proven(w)'
        BY <1>2, <2>2, <2>4, <2>5, <4>1 DEF Proven, OriginsKept
      <4> QED
        BY <4>2 DEF Unclaimed
    <3>2. CASE UpdateUserEmail(r)
      <4>1. request' = [request EXCEPT ![r] = [l EXCEPT !.pc = "verified"]]
        BY <3>2 DEF UpdateUserEmail, Goto, Become
      <4>2. request'[r].pc = "verified" /\ request'[r].user = l.user /\ request'[r].email = l.email
        BY <1>0, <4>1 DEF Locals
      <4>3. Proving(r, w)'
        BY <2>4, <2>5, <4>2 DEF Proving, At
      <4> QED
        BY <4>3 DEF Unclaimed
    <3> QED
      BY <1>2, <3>1, <3>2
  <2>7. ASSUME NEW u \in DOMAIN users, u # l.user, u \notin Unclaimed PROVE u \notin Unclaimed'
    BY <1>2, <2>4, <2>7, StaysClaimed DEF OriginsKept
  <2> QED
    BY <1>2, <2>5, <2>6, <2>7 DEF OriginsKept, Unclaimed
<1>3. CASE CreateUser(r)
  <2> DEFINE row == NewUser(l.email, IF l.kind = "recover" THEN "recovery" ELSE "signup")
  <2>1. l.pc = "create" /\ users' = Append(users, row) /\ ~Fail(r) /\ UNCHANGED tokenVars
    <3>1. UNCHANGED events /\ events \in Nat
      BY <1>3, InvParts, AccountAssumption DEF CreateUser, counters, Tables, CountersOK
    <3>2. ~Fail(r)
      BY <3>1 DEF Fail
    <3> QED
      BY <1>3, <3>2 DEF CreateUser, At, Mine
  <2>2. Presented(verification, l.email) /\ row.email = l.email
    BY <1>0, <2>1 DEF Sound, NewUser
  <2> HIDE DEF row
  <2>3. /\ DOMAIN users' = DOMAIN users \cup {Len(users) + 1} /\ Len(users) + 1 \notin DOMAIN users
        /\ users'[Len(users) + 1] = row /\ \A u \in DOMAIN users : users'[u] = users[u]
    <3>1. DOMAIN users = 1..Len(users) /\ Len(users) \in Nat
      BY <1>0, LenProperties
    <3>2. /\ \A u \in 1..Len(users) : Append(users, row)[u] = users[u]
          /\ Append(users, row)[Len(users) + 1] = row
          /\ DOMAIN Append(users, row) = 1..(Len(users) + 1)
      BY <3>1
    <3> QED
      BY <2>1, <3>1, <3>2
  <2>4. PICK new : new = Len(users) + 1
    OBVIOUS
  <2>6. new \notin Unclaimed'
    <3>1. users'[new].email = l.email
      BY <2>2, <2>3, <2>4
    <3>2. Proven(new)'
      BY <2>1, <2>2, <3>1 DEF Proven, Presented, tokenVars, tokenRows
    <3> QED
      BY <3>2 DEF Unclaimed
  <2>5. ASSUME NEW u \in DOMAIN users, u \notin Unclaimed PROVE u \notin Unclaimed'
    BY <2>1, <2>3, <2>5, StaysClaimed
  <2> QED
    BY <2>3, <2>4, <2>5, <2>6 DEF Unclaimed
<1> QED
  BY <1>1, <1>2, <1>3, UserSteps

LEMMA OneMore ==
  ASSUME NEW set, IsFiniteSet(set), NEW x
  PROVE  /\ IsFiniteSet(set \cup {x}) /\ Cardinality(set) \in Nat /\ Cardinality(set \cup {x}) \in Nat
         /\ Cardinality(set \cup {x}) <= Cardinality(set) + 1
<1>1. /\ IsFiniteSet(set \cup {x}) /\ Cardinality(set) \in Nat
      /\ Cardinality(set \cup {x}) = IF x \in set THEN Cardinality(set) ELSE Cardinality(set) + 1
  BY FS_AddElement, FS_CardinalityType
<1>2. CASE x \in set
  BY <1>1, <1>2
<1>3. CASE x \notin set
  BY <1>1, <1>3
<1> QED
  BY <1>2, <1>3

LEMMA ProvenKeeps ==
  ASSUME AccountsInv, AccountsInv', ProvenInv, Next \/ UNCHANGED vars
  PROVE  ProvenInv'
<1>0. /\ IsFiniteSet(Unclaimed) /\ failures \in Nat /\ RowsStep
      /\ Cardinality(Unclaimed) \in Nat
  <2>1. IsFiniteSet(DOMAIN users)
    BY InvParts, NumbersOfRows, FS_Interval
  <2>2. IsFiniteSet(Unclaimed)
    BY <2>1, FS_Subset DEF Unclaimed
  <2>3. failures \in Nat
    BY InvParts, AccountAssumption DEF Tables, CountersOK
  <2> QED
    BY <2>2, <2>3, FS_CardinalityType, RowsSteps
<1>1. ASSUME Unclaimed' \subseteq Unclaimed, failures' = failures \/ failures' = failures + 1 PROVE ProvenInv'
  <2>1. Cardinality(Unclaimed') <= Cardinality(Unclaimed) /\ Cardinality(Unclaimed') \in Nat
    BY <1>0, <1>1, FS_Subset, FS_CardinalityType
  <2> QED
    BY <1>0, <1>1, <2>1 DEF ProvenInv
<1>2. ASSUME NEW w, Unclaimed' \subseteq Unclaimed \cup {w}, failures' = failures + 1 PROVE ProvenInv'
  <2>1. IsFiniteSet(Unclaimed \cup {w}) /\ Cardinality(Unclaimed \cup {w}) <= Cardinality(Unclaimed) + 1
    BY <1>0, OneMore
  <2>2. Cardinality(Unclaimed') <= Cardinality(Unclaimed \cup {w}) /\ Cardinality(Unclaimed') \in Nat
    BY <1>2, <2>1, FS_Subset, FS_CardinalityType
  <2>3. Cardinality(Unclaimed \cup {w}) \in Nat
    BY <2>1, FS_CardinalityType
  <2> QED
    BY <1>0, <1>2, <2>1, <2>2, <2>3 DEF ProvenInv
<1>3. ASSUME NEW r \in Requests,
             Receive(r) \/ AuthStep(r) \/ TokenStep(r) \/ AccountStep(r) \/ Fail(r)
      PROVE  ProvenInv'
  <2>1. failures' = failures \/ failures' = failures + 1
    BY <1>3, FailuresCounted
  <2>2. Fail(r) => failures' = failures + 1
    BY DEF Fail
  <2> QED
    BY <1>0, <1>1, <1>2, <1>3, <2>1, <2>2, UnclaimedFewer
<1>4. ASSUME FallBehind \/ CatchUp \/ Time \/ UNCHANGED vars PROVE ProvenInv'
  <2>1. UNCHANGED <<users, request, failures>>
    BY <1>4, OthersWriteNoUser
  <2>2. \A u \in DOMAIN users : users[u] \in UserRows
    BY InvParts, UsersSeq, ElementOfSeq, LenProperties
  <2>3. \A u \in DOMAIN users : Proven(u) => Proven(u)'
    BY <1>0, <2>1, <2>2, StepKeepsTables DEF Proven, UserRows
  <2>4. \A u \in DOMAIN users, r \in Requests : Proving(r, u) => Proving(r, u)'
    BY <2>1 DEF Proving, At
  <2>5. Unclaimed' \subseteq Unclaimed
    BY <2>1, <2>3, <2>4 DEF Unclaimed
  <2> QED
    BY <1>1, <2>1, <2>5
<1> QED
  BY <1>3, <1>4 DEF Next

\* An account has an e-mail it began with or one whose code was presented; each failure between
\* the two writes of a change takes at most one account out of this (completeEmailVerification).
THEOREM AddressesProven == Spec => []UnprovenPerFailure
<1>1. Init => ProvenInv
  <2> SUFFICES ASSUME Init PROVE ProvenInv
    OBVIOUS
  <2>1. \A u \in DOMAIN users : users[u].email \in users[u].own \cup {None}
    BY AccountAssumption DEF Init
  <2>2. Unclaimed = {}
    BY <2>1 DEF Unclaimed, Proven
  <2>3. Cardinality(Unclaimed) = 0 /\ failures = 0
    BY <2>2, FS_EmptySet DEF Init
  <2> QED
    BY <2>3 DEF ProvenInv
<1>2. AccountsInv /\ AccountsInv' /\ ProvenInv /\ [Next]_vars => ProvenInv'
  BY ProvenKeeps
<1>3. AccountsInv /\ ProvenInv => UnprovenPerFailure
  <2> SUFFICES ASSUME AccountsInv, ProvenInv PROVE UnprovenPerFailure
    OBVIOUS
  <2>1. Unproven \subseteq Unclaimed
    BY DEF Unproven, Unclaimed, Proven, Presented, Proving
  <2>2. IsFiniteSet(Unclaimed)
    <3>1. IsFiniteSet(DOMAIN users)
      BY InvParts, NumbersOfRows, FS_Interval
    <3> QED
      BY <3>1, FS_Subset DEF Unclaimed
  <2>3. Cardinality(Unproven) <= Cardinality(Unclaimed) /\ IsFiniteSet(Unproven)
    BY <2>1, <2>2, FS_Subset
  <2>4. Cardinality(Unproven) \in Nat /\ Cardinality(Unclaimed) \in Nat /\ failures \in Nat
    BY <2>2, <2>3, FS_CardinalityType, InvParts, AccountAssumption DEF Tables, CountersOK
  <2> QED
    BY <2>3, <2>4 DEF ProvenInv, UnprovenPerFailure
<1> QED
  BY InvInit, InvNext, <1>1, <1>2, <1>3, PTL DEF Spec

-----------------------------------------------------------------------------
(* Sign-ups *)

\* A request stays of its kind until it ends.
LEMMA KindStays ==
  ASSUME AccountsInv, NEW r \in Requests, AuthStep(r) \/ TokenStep(r) \/ AccountStep(r) \/ Fail(r)
  PROVE  request'[r].kind \in {request[r].kind, "none"}
<1> DEFINE l == request[r]
<1>0. request \in [Requests -> Locals] /\ l \in Locals
  BY InvParts DEF RequestsOK
<1>1. ASSUME NEW next, Become(r, next), next.kind \in {l.kind, "none"} PROVE request'[r].kind \in {l.kind, "none"}
  BY <1>0, <1>1 DEF Become
<1>2. \A label : [l EXCEPT !.pc = label].kind = l.kind
  BY <1>0 DEF Locals
<1>3. \A label, u : [l EXCEPT !.pc = label, !.user = u].kind = l.kind
  BY <1>0 DEF Locals
<1>4. \A label, t : [l EXCEPT !.pc = label, !.token = t].kind = l.kind
  BY <1>0 DEF Locals
<1>5. \A label, e : [l EXCEPT !.pc = label, !.old = e].kind = l.kind
  BY <1>0 DEF Locals
<1>7. Blank.kind = "none"
  BY DEF Blank
<1>8. \/ \E label : Goto(r, label)
      \/ Become(r, Blank)
      \/ \E label, u : Become(r, [l EXCEPT !.pc = label, !.user = u])
      \/ \E label, t : Become(r, [l EXCEPT !.pc = label, !.token = t])
      \/ \E label, e : Become(r, [l EXCEPT !.pc = label, !.old = e])
      \/ \E label, u, e : Become(r, [l EXCEPT !.pc = label, !.user = u, !.old = e])
  <2>1. CASE AuthStep(r)
    BY <2>1 DEF AuthStep, VerifySession, Touch, FindSession, LogoutFirst, OpenSession, Logout, Refuse, Mine
  <2>2. CASE TokenStep(r)
    BY <2>2 DEF TokenStep, StartVerification, AdoptProfileEmail, ClearProfileEmail, StartEmailVerification,
                GenerateVerification, Mail, CheckCode, Prolong, SetVerified, HandOut, CheckToken, SpendToken,
                GotoIf, Refuse, Mine
  <2>3. CASE AccountStep(r)
    BY <2>3 DEF AccountStep, CheckNewUser, CreateUser, CreateWallet, CreateProfile, CreateNotificationSetting,
                CreateCurrency, LoadUser, Login, LoginReward, RecoverAccount, ReadForPassword, FindForReset,
                WritePassword, CompleteEmailVerification, UpdateUserEmail, DeleteUser, UpdateUserStatus,
                GotoIf, Refuse, Abandon, Mine
  <2>4. CASE Fail(r)
    BY <2>4 DEF Fail, Refuse
  <2> QED
    BY <2>1, <2>2, <2>3, <2>4
<1>9. ASSUME NEW label, Goto(r, label) PROVE request'[r].kind \in {l.kind, "none"}
  BY <1>1, <1>2, <1>7, <1>9 DEF Goto
<1>10. ASSUME NEW label, NEW u, Become(r, [l EXCEPT !.pc = label, !.user = u])
       PROVE  request'[r].kind \in {l.kind, "none"}
  BY <1>1, <1>3, <1>10
<1>11. ASSUME NEW label, NEW t, Become(r, [l EXCEPT !.pc = label, !.token = t])
       PROVE  request'[r].kind \in {l.kind, "none"}
  BY <1>1, <1>4, <1>11
<1>12. ASSUME NEW label, NEW e, Become(r, [l EXCEPT !.pc = label, !.old = e])
       PROVE  request'[r].kind \in {l.kind, "none"}
  BY <1>1, <1>5, <1>12
<1>13. ASSUME NEW label, NEW u, NEW e, Become(r, [l EXCEPT !.pc = label, !.user = u, !.old = e])
       PROVE  request'[r].kind \in {l.kind, "none"}
  <2> DEFINE next == [l EXCEPT !.pc = label, !.user = u, !.old = e]
  <2>1. Become(r, next) /\ next.kind = l.kind
    BY <1>0, <1>13 DEF Locals
  <2> HIDE DEF next
  <2> QED
    BY <1>1, <2>1
<1>14. ASSUME Become(r, Blank) PROVE request'[r].kind \in {l.kind, "none"}
  BY <1>1, <1>7, <1>14
<1> QED
  BY <1>8, <1>9, <1>10, <1>11, <1>12, <1>13, <1>14

LEMMA ReceivedSignUp ==
  ASSUME AccountsInv, NEW r \in Requests, Receive(r), request'[r].kind = "signup"
  PROVE  request'[r].user = 0 /\ request'[r].pc \notin UserLabels
<1>0. request \in [Requests -> Locals]
  BY InvParts DEF RequestsOK
<1>1. PICK kind \in Kinds : \E call \in Arguments(kind) : Become(r, call)
  BY DEF Receive
<1>2. PICK call \in Arguments(kind) : Become(r, call)
  BY <1>1
<1>3. request'[r] = call /\ kind \in Public \cup Authenticated
  BY <1>0, <1>2, AccountAssumption DEF Become
<1>4. Sound(verification, users, Len(session), call)
  BY <1>3, ArgumentsSound
<1>5. kind = "signup"
  <2>1. \/ \E e, n, t, u, s : call \in Calls(kind, e, n, t, u, s)
        \/ \E s : call \in CallsWithCode(kind, s)
    BY <1>3 DEF Arguments, Public, Authenticated
  <2>2. call.kind = kind
    BY <2>1 DEF Calls, CallsWithCode
  <2> QED
    BY <1>3, <2>2
<1>6. call \in Calls("signup", Emails, Names, held, {0}, {0})
  BY <1>2, <1>5 DEF Arguments
<1>7. call.user = 0 /\ call.pc = "check"
  <2>1. "signup" \notin Authenticated /\ Handler("signup") = "check"
    BY DEF Authenticated, Handler
  <2> QED
    BY <1>6, <2>1 DEF Calls
<1> QED
  BY <1>3, <1>7 DEF UserLabels

\* A sign-up either goes on and has made all that belongs to the label it is at, or it ends.
LEMMA SignUpSteps ==
  ASSUME AccountsInv, PartsInv, NEW r \in Requests, request[r].kind = "signup",
         AuthStep(r) \/ TokenStep(r) \/ AccountStep(r) \/ Fail(r)
  PROVE  \/ CreateUser(r) /\ request[r].user = 0
         \/ /\ OriginsKept /\ Become(r, Blank)
            /\ \/ Fail(r) \/ abandoned' = abandoned + 1
               \/ request[r].user = 0 \/ users[request[r].user].parts = Parts
         \/ /\ OriginsKept
            /\ \E label \in Labels : /\ Become(r, [request[r] EXCEPT !.pc = label])
                                     /\ label \in UserLabels <=> request[r].user # 0
                                     /\ request[r].user # 0 => PartsAt(label) \subseteq users'[request[r].user].parts
<1> DEFINE l == request[r]
           u == l.user
<1>0. /\ l.kind \in KindsAt(l.pc) /\ l \in Locals /\ users \in Seq(UserRows)
      /\ u # 0 <=> l.pc \in UserLabels
      /\ u # 0 => PartsAt(l.pc) \subseteq users[u].parts /\ u \in DOMAIN users
  BY AtLabel, InvParts, UsersSeq DEF PartsInv
<1>1. l.pc \in {"session", "logOutFirst", "open", "token", "expire", "create", "check", "wallet", "profile",
                "settings", "currency", "load"}
  BY <1>0 DEF KindsAt, Labels, Locals, Authenticated
<1>2. CASE UNCHANGED users /\ Become(r, Blank) /\ u = 0
  BY <1>2, NoUserWritten
<1>3. CASE l.pc \in {"check", "token", "expire"}
  <2>1. CheckNewUser(r) \/ CheckToken(r) \/ SpendToken(r) \/ Fail(r)
    BY <1>3
       DEF AuthStep, VerifySession, Touch, FindSession, LogoutFirst, OpenSession, Logout, At, Mine,
           TokenStep, StartVerification, AdoptProfileEmail, ClearProfileEmail, StartEmailVerification,
           GenerateVerification, Mail, CheckCode, Prolong, SetVerified, HandOut,
           AccountStep, CreateUser, CreateWallet, CreateProfile, CreateNotificationSetting,
           CreateCurrency, LoadUser, Login, LoginReward, RecoverAccount, ReadForPassword, FindForReset,
           WritePassword, CompleteEmailVerification, UpdateUserEmail, DeleteUser, UpdateUserStatus
  <2>2. UNCHANGED users /\ u = 0
    BY <1>0, <1>3, <2>1 DEF CheckNewUser, CheckToken, SpendToken, Fail, userVars, UserLabels
  <2>3. \E label \in {"rest", "token", "expire", "create"} : Goto(r, label)
    BY <2>1 DEF CheckNewUser, CheckToken, SpendToken, Fail, GotoIf, Refuse, Mine
  <2>4. {"token", "expire", "create"} \subseteq Labels \ UserLabels
    BY DEF Labels, UserLabels
  <2> QED
    BY <2>2, <2>3, <2>4, NoUserWritten DEF Goto
<1>4. CASE l.pc = "create"
  <2>1. CreateUser(r) \/ Fail(r)
    BY <1>4
       DEF AuthStep, VerifySession, Touch, FindSession, LogoutFirst, OpenSession, Logout, At, Mine,
           TokenStep, StartVerification, AdoptProfileEmail, ClearProfileEmail, StartEmailVerification,
           GenerateVerification, Mail, CheckCode, Prolong, SetVerified, HandOut, CheckToken, SpendToken,
           AccountStep, CheckNewUser, CreateWallet, CreateProfile, CreateNotificationSetting,
           CreateCurrency, LoadUser, Login, LoginReward, RecoverAccount, ReadForPassword, FindForReset,
           WritePassword, CompleteEmailVerification, UpdateUserEmail, DeleteUser, UpdateUserStatus
  <2>2. u = 0
    BY <1>0, <1>4 DEF UserLabels
  <2> QED
    BY <2>1, <2>2, NoUserWritten DEF Fail, userVars, Goto, Refuse
<1>5. CASE l.pc \in {"session", "logOutFirst", "open", "load"}
  <2>1. FindSession(r) \/ LogoutFirst(r) \/ OpenSession(r) \/ LoadUser(r) \/ Fail(r)
    BY <1>5
       DEF AuthStep, VerifySession, Touch, Logout, At, Mine,
           TokenStep, StartVerification, AdoptProfileEmail, ClearProfileEmail, StartEmailVerification,
           GenerateVerification, Mail, CheckCode, Prolong, SetVerified, HandOut, CheckToken, SpendToken,
           AccountStep, CheckNewUser, CreateUser, CreateWallet, CreateProfile, CreateNotificationSetting,
           CreateCurrency, Login, LoginReward, RecoverAccount, ReadForPassword, FindForReset,
           WritePassword, CompleteEmailVerification, UpdateUserEmail, DeleteUser, UpdateUserStatus
  <2>2. UNCHANGED users
    BY <2>1 DEF FindSession, LogoutFirst, OpenSession, LoadUser, Fail, userVars
  <2>3. \E label \in {"rest", "session", "logOutFirst", "open"} : Goto(r, label)
    BY <2>1 DEF FindSession, LogoutFirst, OpenSession, LoadUser, Fail, GotoIf, Refuse
  <2>4. {"session", "logOutFirst", "open"} \subseteq Labels \cap UserLabels
    BY DEF Labels, UserLabels
  <2>5. u # 0 /\ PartsAt(l.pc) = Parts
    BY <1>0, <1>5 DEF UserLabels, PartsAt
  <2>6. users[u].parts = Parts
    <3>1. users[u] \in UserRows
      BY <1>0, <2>5, ElementOfSeq, LenProperties
    <3> QED
      BY <1>0, <2>5, <3>1 DEF UserRows
  <2>7. PartsAt("session") = Parts /\ PartsAt("logOutFirst") = Parts /\ PartsAt("open") = Parts
    BY DEF PartsAt
  <2> QED
    BY <2>2, <2>3, <2>4, <2>5, <2>6, <2>7, NoUserWritten DEF Goto
<1>6. CASE l.pc \in {"wallet", "profile", "settings", "currency"}
  <2>1. CreateWallet(r) \/ CreateProfile(r) \/ CreateNotificationSetting(r) \/ CreateCurrency(r) \/ Fail(r)
    BY <1>6
       DEF AuthStep, VerifySession, Touch, FindSession, LogoutFirst, OpenSession, Logout, At, Mine,
           TokenStep, StartVerification, AdoptProfileEmail, ClearProfileEmail, StartEmailVerification,
           GenerateVerification, Mail, CheckCode, Prolong, SetVerified, HandOut, CheckToken, SpendToken,
           AccountStep, CheckNewUser, CreateUser, LoadUser, Login, LoginReward, RecoverAccount,
           ReadForPassword, FindForReset, WritePassword, CompleteEmailVerification, UpdateUserEmail,
           DeleteUser, UpdateUserStatus
  <2>2. CASE Fail(r)
    BY <2>2, NoUserWritten DEF Fail, userVars, Goto, Refuse
  <2>3. CASE Abandon(r) /\ UNCHANGED users
    BY <2>3, NoUserWritten DEF Abandon, Goto, Refuse
  <2>4. CASE ~Fail(r) /\ ~(Abandon(r) /\ UNCHANGED users)
    <3>1. OriginsKept
      BY <2>1, <2>4, UserWrites
    <3>2. u # 0 /\ users[u] \in UserRows /\ u \in DOMAIN users
      <4>1. u # 0
        BY <1>0, <1>6 DEF UserLabels
      <4> QED
        BY <1>0, <4>1, ElementOfSeq, LenProperties
    <3>3. PICK label \in {"profile", "settings", "currency", "load"}, part \in Parts :
             /\ Goto(r, label) /\ PartsAt(label) = PartsAt(l.pc) \cup {part}
             /\ \/ users' = [users EXCEPT ![u] = [users[u] EXCEPT !.parts = users[u].parts \cup {part}]]
                \/ users' = [users EXCEPT ![u] = [users[u] EXCEPT !.parts = users[u].parts \cup {part}, !.name = l.name]]
      <4>1. CASE CreateWallet(r)
        <5>1. PartsAt("profile") = PartsAt("wallet") \cup {"wallet"} /\ "wallet" \in Parts
          BY DEF PartsAt, Parts
        <5> QED
          BY <4>1, <5>1 DEF CreateWallet, AddPart, Mine, At
      <4>2. CASE CreateProfile(r)
        <5>1. PartsAt("settings") = PartsAt("profile") \cup {"profile"} /\ "profile" \in Parts
          BY DEF PartsAt, Parts
        <5>2. /\ l.pc = "profile" /\ Goto(r, "settings")
              /\ users' = [users EXCEPT ![u].parts = @ \cup {"profile"}, ![u].name = l.name]
          BY <2>4, <4>2 DEF CreateProfile, Mine, At
        <5>3. users' = [users EXCEPT ![u] = [users[u] EXCEPT !.parts = users[u].parts \cup {"profile"}, !.name = l.name]]
          BY <3>2, <5>2
        <5> QED
          BY <5>1, <5>2, <5>3
      <4>3. CASE CreateNotificationSetting(r)
        <5>1. PartsAt("currency") = PartsAt("settings") \cup {"settings"} /\ "settings" \in Parts
          BY DEF PartsAt, Parts
        <5> QED
          BY <4>3, <5>1 DEF CreateNotificationSetting, AddPart, Mine, At
      <4>4. CASE CreateCurrency(r)
        <5>1. PartsAt("load") = PartsAt("currency") \cup {"currency"} /\ "currency" \in Parts
          BY DEF PartsAt, Parts
        <5> QED
          BY <2>4, <4>4, <5>1 DEF CreateCurrency, AddPart, Mine, At
      <4> QED
        BY <2>1, <2>4, <4>1, <4>2, <4>3, <4>4
    <3>4. users'[u].parts = users[u].parts \cup {part}
      BY <3>2, <3>3 DEF UserRows
    <3>5. PartsAt(label) \subseteq users'[u].parts
      BY <1>0, <3>2, <3>3, <3>4
    <3>6. {"profile", "settings", "currency", "load"} \subseteq Labels \cap UserLabels
      BY DEF Labels, UserLabels
    <3> QED
      BY <3>1, <3>2, <3>3, <3>5, <3>6 DEF Goto
  <2> QED
    BY <2>2, <2>3, <2>4
<1> QED
  BY <1>1, <1>3, <1>4, <1>5, <1>6

\* The row a sign-up or a recovery adds.
LEMMA UserCreated ==
  ASSUME AccountsInv, NEW r \in Requests, CreateUser(r)
  PROVE  LET row == NewUser(request[r].email, IF request[r].kind = "recover" THEN "recovery" ELSE "signup")
             next == IF request[r].kind = "recover" THEN Blank
                     ELSE [request[r] EXCEPT !.pc = "wallet", !.user = Len(users) + 1]
         IN  /\ DOMAIN users' = DOMAIN users \cup {Len(users) + 1} /\ Len(users) + 1 \notin DOMAIN users
             /\ users'[Len(users) + 1] = row /\ \A u \in DOMAIN users : users'[u] = users[u]
             /\ request'[r] = next
             /\ request[r].kind \in {"signup", "recover"}
             /\ Len(users) + 1 # 0
<1> DEFINE row == NewUser(request[r].email, IF request[r].kind = "recover" THEN "recovery" ELSE "signup")
           next == IF request[r].kind = "recover" THEN Blank
                   ELSE [request[r] EXCEPT !.pc = "wallet", !.user = Len(users) + 1]
<1>1. request[r].pc = "create" /\ users' = Append(users, row) /\ Become(r, next)
  BY DEF CreateUser, At, Mine
<1>2. request[r].kind \in {"signup", "recover"}
  <2>1. KindsAt("create") = {"signup", "recover"}
    BY DEF KindsAt
  <2> QED
    BY <1>1, <2>1, AtLabel
<1>3. request \in [Requests -> Locals] /\ users \in Seq(UserRows)
  BY InvParts, UsersSeq DEF RequestsOK
<1> HIDE DEF row, next
<1>4. request'[r] = next
  BY <1>1, <1>3 DEF Become
<1>5. DOMAIN users = 1..Len(users) /\ Len(users) \in Nat
  BY <1>3, LenProperties
<1>6. /\ \A u \in 1..Len(users) : Append(users, row)[u] = users[u]
      /\ Append(users, row)[Len(users) + 1] = row
      /\ DOMAIN Append(users, row) = 1..(Len(users) + 1)
  BY <1>5
<1>7. /\ DOMAIN users' = DOMAIN users \cup {Len(users) + 1} /\ Len(users) + 1 \notin DOMAIN users
      /\ users'[Len(users) + 1] = row /\ \A u \in DOMAIN users : users'[u] = users[u]
  BY <1>1, <1>5, <1>6
<1> QED
  BY <1>2, <1>4, <1>5, <1>7 DEF row, next

MadeItsParts(r) ==
    request[r].kind = "signup" =>
        /\ request[r].user # 0 <=> request[r].pc \in UserLabels
        /\ request[r].user # 0 => PartsAt(request[r].pc) \subseteq users[request[r].user].parts

\* Parts are never taken from an account.
LEMMA PartsStay ==
  ASSUME AccountsInv, OriginsKept \/ \E r \in Requests : CreateUser(r)
  PROVE  \A u \in DOMAIN users : /\ u \in DOMAIN users' /\ users'[u].origin = users[u].origin
                                 /\ users[u].parts \subseteq users'[u].parts
<1>1. CASE OriginsKept
  BY <1>1 DEF OriginsKept
<1>2. ASSUME NEW r \in Requests, CreateUser(r)
      PROVE  DOMAIN users \subseteq DOMAIN users' /\ \A u \in DOMAIN users : users'[u] = users[u]
  BY <1>2, UserCreated
<1> QED
  BY <1>1, <1>2

LEMMA PartsMade ==
  ASSUME AccountsInv, AccountsInv', PartsInv, NEW r \in Requests,
         Receive(r) \/ AuthStep(r) \/ TokenStep(r) \/ AccountStep(r) \/ Fail(r)
  PROVE  \A other \in Requests : MadeItsParts(other)'
<1> DEFINE l == request[r]
<1>0. request \in [Requests -> Locals] /\ l \in Locals
  BY InvParts DEF RequestsOK
<1>1. ASSUME NEW other \in Requests, other # r PROVE MadeItsParts(other)'
  <2>1. request'[other] = request[other]
    BY <1>1, OneMoves DEF OnlyMoves
  <2>2. request[other].user # 0 => request[other].user \in DOMAIN users
    BY InvParts, NumbersOfRows DEF RequestsOK, Sound
  <2>3. MadeItsParts(other)
    BY DEF PartsInv, MadeItsParts
  <2> QED
    BY <2>1, <2>2, <2>3, PartsStay, UserSteps DEF MadeItsParts
<1>2. MadeItsParts(r)'
  <2>1. CASE Receive(r)
    BY <2>1, ReceivedSignUp DEF MadeItsParts
  <2>2. CASE ~Receive(r) /\ l.kind # "signup"
    <3>1. request'[r].kind # "signup"
      BY <2>2, KindStays
    <3> QED
      BY <3>1 DEF MadeItsParts
  <2>3. CASE ~Receive(r) /\ l.kind = "signup"
    <3>1. CASE CreateUser(r)
      <4>1. request'[r].pc = "wallet" /\ request'[r].user # 0
        <5>1. request'[r] = [l EXCEPT !.pc = "wallet", !.user = Len(users) + 1] /\ Len(users) + 1 # 0
          BY <2>3, <3>1, UserCreated
        <5> QED
          BY <1>0, <5>1 DEF Locals
      <4>2. PartsAt("wallet") = {} /\ "wallet" \in UserLabels
        BY DEF PartsAt, UserLabels
      <4> QED
        BY <4>1, <4>2 DEF MadeItsParts
    <3>2. CASE Become(r, Blank)
      <4>1. request'[r] = Blank
        BY <1>0, <3>2 DEF Become
      <4>2. request'[r].kind # "signup"
        BY <4>1 DEF Blank
      <4> QED
        BY <4>2 DEF MadeItsParts
    <3>3. ASSUME NEW label \in Labels, Become(r, [l EXCEPT !.pc = label]),
                 label \in UserLabels <=> l.user # 0,
                 l.user # 0 => PartsAt(label) \subseteq users'[l.user].parts
          PROVE  MadeItsParts(r)'
      <4>1. request'[r].pc = label /\ request'[r].user = l.user
        BY <1>0, <3>3 DEF Become, Locals
      <4> QED
        BY <3>3, <4>1 DEF MadeItsParts
    <3> QED
      BY <2>3, <3>1, <3>2, <3>3, SignUpSteps
  <2> QED
    BY <2>1, <2>2, <2>3
<1> QED
  BY <1>1, <1>2

\* Only a step that is counted leaves a sign-up incomplete.
LEMMA IncompleteFewer ==
  ASSUME AccountsInv, AccountsInv', PartsInv, NEW r \in Requests,
         Receive(r) \/ AuthStep(r) \/ TokenStep(r) \/ AccountStep(r) \/ Fail(r)
  PROVE  \/ Incomplete' \subseteq Incomplete
         \/ /\ Incomplete' \subseteq Incomplete \cup {request[r].user}
            /\ Fail(r) \/ abandoned' = abandoned + 1
<1> DEFINE l == request[r]
           counted == Fail(r) \/ abandoned' = abandoned + 1
<1>0. request \in [Requests -> Locals] /\ l \in Locals
  BY InvParts DEF RequestsOK
<1>1. ASSUME NEW u \in DOMAIN users, u \in Incomplete', u \notin Incomplete
      PROVE  u = l.user /\ counted
  <2>1. /\ u \in DOMAIN users' /\ users'[u].origin = users[u].origin
        /\ users[u].parts \subseteq users'[u].parts
    BY PartsStay, UserSteps
  <2>2. users'[u].parts \subseteq Parts
    <3>1. users' \in Seq(UserRows)
      BY DEF AccountsInv, TypeOK
    <3>2. users'[u] \in UserRows
      BY <2>1, <3>1, ElementOfSeq, LenProperties
    <3> QED
      BY <3>2 DEF UserRows
  <2>3. /\ users'[u].origin = "signup" /\ users'[u].parts # Parts
        /\ ~\E other \in Requests : request'[other].kind = "signup" /\ request'[other].user = u
    BY <1>1 DEF Incomplete, Mine
  <2>4. users[u].origin = "signup" /\ users[u].parts # Parts
    BY <2>1, <2>2, <2>3
  <2>5. PICK other \in Requests : request[other].kind = "signup" /\ request[other].user = u
    BY <1>1, <2>4 DEF Incomplete, Mine
  <2>6. other = r
    BY <2>3, <2>5, OneMoves DEF OnlyMoves
  <2>7. ~Receive(r) /\ u # 0
    <3>1. KindsAt("rest") = {"none"}
      BY DEF KindsAt
    <3>2. l.kind \in KindsAt(l.pc) /\ 0 \notin DOMAIN users
      BY AtLabel, InvParts, NumbersOfRows
    <3> QED
      BY <2>5, <2>6, <3>1, <3>2 DEF Receive, At
  <2>8. CASE CreateUser(r) /\ l.user = 0
    BY <2>5, <2>6, <2>7, <2>8
  <2>9. CASE Become(r, Blank) /\ (counted \/ l.user = 0 \/ users[l.user].parts = Parts)
    BY <2>4, <2>5, <2>6, <2>7, <2>9
  <2>10. ASSUME NEW label \in Labels, Become(r, [l EXCEPT !.pc = label]) PROVE FALSE
    <3>1. request'[r].kind = "signup" /\ request'[r].user = u
      BY <1>0, <2>5, <2>6, <2>10 DEF Become, Locals
    <3> QED
      BY <2>3, <3>1
  <2> QED
    BY <2>5, <2>6, <2>7, <2>8, <2>9, <2>10, SignUpSteps
<1>2. CASE OriginsKept
  <2>1. Incomplete' \subseteq DOMAIN users
    BY <1>2 DEF OriginsKept, Incomplete
  <2> QED
    BY <1>1, <2>1
<1>3. CASE CreateUser(r)
  <2>1. PICK new : new = Len(users) + 1
    OBVIOUS
  <2>2. new \notin Incomplete'
    <3>1. CASE l.kind = "recover"
      <4>1. users'[new] = NewUser(l.email, "recovery")
        BY <1>3, <2>1, <3>1, UserCreated
      <4>2. users'[new].origin = "recovery"
        BY <4>1 DEF NewUser
      <4> QED
        BY <4>2 DEF Incomplete
    <3>2. CASE l.kind = "signup"
      <4>1. request'[r] = [l EXCEPT !.pc = "wallet", !.user = new]
        BY <1>3, <2>1, <3>2, UserCreated
      <4>2. request'[r].kind = "signup" /\ request'[r].user = new
        BY <1>0, <3>2, <4>1 DEF Locals
      <4> QED
        BY <4>2 DEF Incomplete, Mine
    <3> QED
      BY <1>3, <3>1, <3>2, UserCreated
  <2>3. DOMAIN users' = DOMAIN users \cup {new}
    BY <1>3, <2>1, UserCreated
  <2>4. Incomplete' \subseteq DOMAIN users
    BY <2>2, <2>3 DEF Incomplete
  <2> QED
    BY <1>1, <2>4
<1> QED
  BY <1>2, <1>3, UserSteps

LEMMA PartsKeep ==
  ASSUME AccountsInv, AccountsInv', PartsInv, Next \/ UNCHANGED vars
  PROVE  PartsInv'
<1>0. /\ IsFiniteSet(Incomplete) /\ failures \in Nat /\ abandoned \in Nat /\ Cardinality(Incomplete) \in Nat
  <2>1. IsFiniteSet(DOMAIN users)
    BY InvParts, NumbersOfRows, FS_Interval
  <2>2. IsFiniteSet(Incomplete)
    BY <2>1, FS_Subset DEF Incomplete
  <2>3. failures \in Nat /\ abandoned \in Nat
    BY InvParts, AccountAssumption DEF Tables, CountersOK
  <2> QED
    BY <2>2, <2>3, FS_CardinalityType
<1>1. ASSUME NEW r \in Requests,
             Receive(r) \/ AuthStep(r) \/ TokenStep(r) \/ AccountStep(r) \/ Fail(r)
      PROVE  PartsInv'
  <2>1. \A other \in Requests : MadeItsParts(other)'
    BY <1>1, PartsMade
  <2>2. /\ failures' = failures \/ failures' = failures + 1
        /\ abandoned' = abandoned \/ abandoned' = abandoned + 1
        /\ Fail(r) => failures' = failures + 1
    BY <1>1, FailuresCounted
  <2>3. CASE Incomplete' \subseteq Incomplete
    <3>1. Cardinality(Incomplete') <= Cardinality(Incomplete) /\ Cardinality(Incomplete') \in Nat
      BY <1>0, <2>3, FS_Subset, FS_CardinalityType
    <3>2. Cardinality(Incomplete') <= failures' + abandoned'
      BY <1>0, <2>2, <3>1 DEF PartsInv
    <3> QED
      BY <2>1, <3>2 DEF PartsInv, MadeItsParts
  <2>4. ASSUME NEW w, Incomplete' \subseteq Incomplete \cup {w}, Fail(r) \/ abandoned' = abandoned + 1
        PROVE  PartsInv'
    <3>1. IsFiniteSet(Incomplete \cup {w}) /\ Cardinality(Incomplete \cup {w}) <= Cardinality(Incomplete) + 1
      BY <1>0, OneMore
    <3>2. Cardinality(Incomplete') <= Cardinality(Incomplete \cup {w}) /\ Cardinality(Incomplete') \in Nat
      BY <2>4, <3>1, FS_Subset, FS_CardinalityType
    <3>3. Cardinality(Incomplete \cup {w}) \in Nat
      BY <3>1, FS_CardinalityType
    <3>4. Cardinality(Incomplete') <= failures' + abandoned'
      BY <1>0, <2>2, <2>4, <3>1, <3>2, <3>3 DEF PartsInv
    <3> QED
      BY <2>1, <3>4 DEF PartsInv, MadeItsParts
  <2> QED
    BY <1>1, <2>3, <2>4, IncompleteFewer
<1>2. ASSUME FallBehind \/ CatchUp \/ Time \/ UNCHANGED vars PROVE PartsInv'
  <2>1. UNCHANGED <<users, request, failures, abandoned>>
    BY <1>2, OthersWriteNoUser
  <2> QED
    BY <2>1 DEF PartsInv, Incomplete, Mine
<1> QED
  BY <1>1, <1>2 DEF Next

\* A sign-up that has ended left a complete account, up to one exception for each call that
\* failed and each sign-up the code gave up itself (AuthenticationController.signUpUser).
THEOREM SignUpsComplete == Spec => []IncompletePerFailure
<1>1. Init => PartsInv
  <2> SUFFICES ASSUME Init PROVE PartsInv
    OBVIOUS
  <2>1. \A u \in DOMAIN users : users[u].origin = "before"
    BY AccountAssumption DEF Init
  <2>2. Incomplete = {}
    BY <2>1 DEF Incomplete
  <2>3. Cardinality(Incomplete) = 0 /\ failures = 0 /\ abandoned = 0
    BY <2>2, FS_EmptySet DEF Init
  <2>4. \A r \in Requests : request[r].kind = "none"
    BY DEF Init, Blank
  <2> QED
    BY <2>3, <2>4 DEF PartsInv
<1>2. AccountsInv /\ AccountsInv' /\ PartsInv /\ [Next]_vars => PartsInv'
  BY PartsKeep
<1>3. PartsInv => IncompletePerFailure
  BY DEF PartsInv, IncompletePerFailure
<1> QED
  BY InvInit, InvNext, <1>1, <1>2, <1>3, PTL DEF Spec

-----------------------------------------------------------------------------
(* Sessions *)

LEMMA FitsLess ==
  ASSUME NEW set, IsFiniteSet(set), NEW sub, sub \subseteq set, NEW n \in Nat, NEW latest, Fits(set, n, latest)
  PROVE  Fits(sub, n, latest)
<1>1. /\ Cardinality(sub) <= Cardinality(set) /\ Cardinality(sub) \in Nat /\ Cardinality(set) \in Nat
      /\ Cardinality(sub) = Cardinality(set) => sub = set
  BY FS_Subset, FS_CardinalityType
<1> QED
  BY <1>1 DEF Fits

LEMMA FitsMore ==
  ASSUME NEW set, IsFiniteSet(set), NEW n \in Nat, NEW latest, Fits(set, n, latest), NEW s
  PROVE  /\ Fits(set \cup {s}, n + 1, latest) /\ Fits(set \cup {s}, n + 1, s)
         /\ \A any : Fits(set, n + 1, any)
<1>1. Cardinality(set \cup {s}) <= Cardinality(set) + 1 /\ Cardinality(set) \in Nat /\ Cardinality(set \cup {s}) \in Nat
  BY OneMore
<1> QED
  BY <1>1 DEF Fits

LEMMA SessionFacts ==
  ASSUME AccountsInv
  PROVE  /\ session \in Seq(SessionRows) /\ DOMAIN session = 1..Len(session) /\ Len(session) \in Nat
         /\ \A s \in DOMAIN session : session[s] \in SessionRows
         /\ \A u : IsFiniteSet(LiveSessions(u)) /\ Cardinality(LiveSessions(u)) \in Nat
         /\ crossings \in [UserIds -> Nat]
<1>1. /\ session \in Seq(SessionRows) /\ DOMAIN session = 1..Len(session) /\ Len(session) \in Nat
      /\ crossings \in [UserIds -> Nat]
  BY InvParts, NumbersOfRows DEF Tables, SessionsOK, SessionTypeOK, CountersOK
<1>2. ASSUME NEW u PROVE IsFiniteSet(LiveSessions(u))
  <2>1. IsFiniteSet(DOMAIN session)
    BY <1>1, FS_Interval
  <2>2. LiveSessions(u) \subseteq DOMAIN session
    BY DEF LiveSessions, FindSessionByUserId
  <2> QED
    BY <2>1, <2>2, FS_Subset
<1> QED
  BY <1>1, <1>2, ElementOfSeq, FS_CardinalityType

\* Whoever is about to open or to prolong a session knows whose it is.
LEMMA AboutToWrite ==
  ASSUME AccountsInv, NEW r \in Requests, request[r].pc \in {"open", "touch"}
  PROVE  /\ request[r].user \in UserIds
         /\ request[r].pc = "touch" => request[r].session \in DOMAIN session
<1>1. {"open", "touch"} \subseteq UserLabels /\ KindsAt("touch") = Authenticated
  BY DEF UserLabels, KindsAt
<1> QED
  BY <1>1, AtLabel

\* Every other step leaves the sessions alone and does not lead to a label before a write.
LEMMA NoSessionWritten ==
  ASSUME AccountsInv, NEW r \in Requests, Receive(r) \/ TokenStep(r) \/ AccountStep(r) \/ Fail(r)
  PROVE  UNCHANGED <<session, crossings>> /\ request'[r].pc \notin {"open", "touch"}
<1> DEFINE l == request[r]
           other == Labels \ {"open", "touch"}
<1>0. request \in [Requests -> Locals] /\ l \in Locals /\ Blank.pc = "rest"
  BY InvParts DEF RequestsOK, Blank
<1>1. UNCHANGED <<session, crossings>>
  <2>1. CASE TokenStep(r)
    BY <2>1 DEF TokenStep, StartVerification, AdoptProfileEmail, ClearProfileEmail, StartEmailVerification,
                GenerateVerification, Mail, CheckCode, Prolong, SetVerified, HandOut, CheckToken, SpendToken
  <2>2. CASE AccountStep(r)
    BY <2>2 DEF AccountStep, CheckNewUser, CreateUser, CreateWallet, CreateProfile, CreateNotificationSetting,
                CreateCurrency, LoadUser, Login, LoginReward, RecoverAccount, ReadForPassword, FindForReset,
                WritePassword, CompleteEmailVerification, UpdateUserEmail, DeleteUser, UpdateUserStatus
  <2> QED
    BY <2>1, <2>2 DEF Receive, Fail
<1>2. ASSUME NEW next, Become(r, next), next.pc \in other PROVE request'[r].pc \notin {"open", "touch"}
  BY <1>0, <1>2 DEF Become
<1>3. ASSUME NEW label \in other, Goto(r, label) PROVE request'[r].pc \notin {"open", "touch"}
  <2>1. [l EXCEPT !.pc = label].pc = label
    BY <1>0 DEF Locals
  <2>2. "rest" \in other
    BY DEF Labels
  <2> QED
    BY <1>0, <1>2, <1>3, <2>1, <2>2 DEF Goto
<1>4. ASSUME NEW label \in other, NEW u, Become(r, [l EXCEPT !.pc = label, !.user = u])
      PROVE  request'[r].pc \notin {"open", "touch"}
  <2>1. [l EXCEPT !.pc = label, !.user = u].pc = label
    BY <1>0 DEF Locals
  <2> QED
    BY <1>2, <1>4, <2>1
<1>5. ASSUME NEW label \in other, NEW t, Become(r, [l EXCEPT !.pc = label, !.token = t])
      PROVE  request'[r].pc \notin {"open", "touch"}
  <2>1. [l EXCEPT !.pc = label, !.token = t].pc = label
    BY <1>0 DEF Locals
  <2> QED
    BY <1>2, <1>5, <2>1
<1>6. ASSUME NEW label \in other, NEW e, Become(r, [l EXCEPT !.pc = label, !.old = e])
      PROVE  request'[r].pc \notin {"open", "touch"}
  <2>1. [l EXCEPT !.pc = label, !.old = e].pc = label
    BY <1>0 DEF Locals
  <2> QED
    BY <1>2, <1>6, <2>1
<1>7. ASSUME NEW label \in other, NEW u, NEW e, Become(r, [l EXCEPT !.pc = label, !.user = u, !.old = e])
      PROVE  request'[r].pc \notin {"open", "touch"}
  <2> DEFINE next == [l EXCEPT !.pc = label, !.user = u, !.old = e]
  <2>1. Become(r, next) /\ next.pc = label
    BY <1>0, <1>7 DEF Locals
  <2> HIDE DEF next
  <2> QED
    BY <1>2, <2>1
<1>8. ASSUME Become(r, Blank) PROVE request'[r].pc \notin {"open", "touch"}
  BY <1>0, <1>2, <1>8 DEF Labels
<1>9. CASE TokenStep(r)
  <2>1. \/ \E label \in {"rest", "unprofile", "generate", "prolong", "verified", "handOut", "expire",
                         "create", "find"} : Goto(r, label)
        \/ \E u : Become(r, [l EXCEPT !.pc = "adopt", !.user = u])
        \/ \E t : Become(r, [l EXCEPT !.pc = "mail", !.token = t])
    BY <1>9 DEF TokenStep, StartVerification, AdoptProfileEmail, ClearProfileEmail, StartEmailVerification,
                GenerateVerification, Mail, CheckCode, Prolong, SetVerified, HandOut, CheckToken, SpendToken,
                GotoIf, Refuse, Mine
  <2>2. {"rest", "unprofile", "generate", "prolong", "verified", "handOut", "expire", "create", "find",
         "adopt", "mail"} \subseteq other
    BY DEF Labels
  <2> HIDE DEF other
  <2> QED
    BY <1>1, <1>3, <1>4, <1>5, <2>1, <2>2
<1>10. CASE AccountStep(r)
  <2>1. \/ Become(r, Blank)
        \/ \E label \in {"rest", "token", "profile", "settings", "currency", "load", "session", "takeEmail",
                         "verified"} : Goto(r, label)
        \/ \E label \in {"wallet", "reward"} : \E u : Become(r, [l EXCEPT !.pc = label, !.user = u])
        \/ \E label \in {"token", "password"} : \E e : Become(r, [l EXCEPT !.pc = label, !.old = e])
        \/ \E u, e : Become(r, [l EXCEPT !.pc = "password", !.user = u, !.old = e])
    BY <1>10 DEF AccountStep, CheckNewUser, CreateUser, CreateWallet, CreateProfile, CreateNotificationSetting,
                CreateCurrency, LoadUser, Login, LoginReward, RecoverAccount, ReadForPassword, FindForReset,
                WritePassword, CompleteEmailVerification, UpdateUserEmail, DeleteUser, UpdateUserStatus,
                GotoIf, Refuse, Abandon, Mine
  <2>2. {"rest", "token", "profile", "settings", "currency", "load", "session", "takeEmail", "verified",
         "wallet", "reward", "password"} \subseteq other
    BY DEF Labels
  <2> HIDE DEF other
  <2> QED
    BY <1>1, <1>3, <1>4, <1>6, <1>7, <1>8, <2>1, <2>2
<1>11. CASE Fail(r)
  <2>1. "rest" \in other
    BY DEF Labels
  <2> QED
    BY <1>1, <1>3, <1>11, <2>1 DEF Fail, Refuse
<1>12. CASE Receive(r)
  <2>1. PICK kind \in Kinds : \E call \in Arguments(kind) : Become(r, call)
    BY <1>12 DEF Receive
  <2>2. PICK call \in Arguments(kind) : Become(r, call)
    BY <2>1
  <2>3. kind \in Public \cup Authenticated
    BY AccountAssumption
  <2>4. \/ \E e, n, t, u, s : call \in Calls(kind, e, n, t, u, s)
        \/ \E s : call \in CallsWithCode(kind, s)
    BY <2>3 DEF Arguments, Public, Authenticated
  <2>5. call.pc = IF kind \in Authenticated THEN "authenticate" ELSE Handler(kind)
    BY <2>4 DEF Calls, CallsWithCode
  <2>6. kind \notin Authenticated => Handler(kind) \in other
    <3>1. CASE kind \in {"askEmail", "askPassword", "askAdmin", "confirm", "spend", "signup"}
      BY <3>1 DEF Handler, Labels
    <3>2. CASE kind \in {"login", "reset", "recover", "assign", "ban", "delete"}
      BY <3>2 DEF Handler, Labels
    <3> QED
      BY <2>3, <3>1, <3>2 DEF Public
  <2>7. "authenticate" \in other
    BY DEF Labels
  <2> QED
    BY <1>1, <1>2, <2>2, <2>5, <2>6, <2>7
<1> QED
  BY <1>1, <1>9, <1>10, <1>11, <1>12

\* A step that writes no session and leads r to no label before a write.
LEMMA SessionsStand ==
  ASSUME AccountsInv, SessionInv, UNCHANGED <<session, crossings>>,
         \A r \in Requests : request'[r].pc \in {"open", "touch"} => RoomFor(r)' \/ request'[r] = request[r]
  PROVE  SessionInv'
<1>1. \A u : LiveSessions(u)' = LiveSessions(u) /\ Latest(u)' = Latest(u)
  BY DEF LiveSessions, FindSessionByUserId, Latest
<1>2. \A u \in UserIds : Room(u, LiveSessions(u))'
  BY <1>1 DEF SessionInv, Room
<1>3. ASSUME NEW r \in Requests PROVE RoomFor(r)'
  <2>1. RoomFor(r)
    BY DEF SessionInv
  <2>2. CASE request'[r] = request[r]
    BY <1>1, <2>1, <2>2 DEF RoomFor, Room, At
  <2>3. CASE request'[r].pc \notin {"open", "touch"}
    BY <2>3 DEF RoomFor, At
  <2> QED
    BY <2>2, <2>3
<1> QED
  BY <1>2, <1>3 DEF SessionInv

\* The session is shown to be live before it is prolonged.
LEMMA LooksAtSessions ==
  ASSUME AccountsInv, SessionInv, NEW r \in Requests, VerifySession(r), UNCHANGED session
  PROVE  SessionInv'
<1> DEFINE l == request[r]
           s == l.session
<1>0. request \in [Requests -> Locals] /\ l \in Locals /\ s \in DOMAIN session
  <2>1. KindsAt("authenticate") = Authenticated
    BY DEF KindsAt
  <2> QED
    BY <2>1, AtLabel, InvParts DEF RequestsOK, VerifySession, At
<1>1. OnlyMoves(r) /\ UNCHANGED crossings
  BY OneMoves DEF AuthStep, VerifySession
<1>2. CASE Refuse(r)
  <2>1. request'[r].pc = "rest"
    BY <1>0, <1>2 DEF Refuse, Goto, Become, Blank
  <2> QED
    BY <1>1, <2>1, SessionsStand DEF OnlyMoves
<1>3. CASE ~Refuse(r)
  <2>1. /\ ~session[s].logout /\ ~session[s].expired
        /\ Become(r, [l EXCEPT !.pc = "touch", !.user = session[s].user])
    BY <1>3 DEF VerifySession, Mine
  <2>2. PICK u, t : u = session[s].user /\ t = s
    OBVIOUS
  <2>3. request'[r].pc = "touch" /\ request'[r].user = u /\ request'[r].session = t
    BY <1>0, <2>1, <2>2 DEF Become, Locals
  <2>4. t \in LiveSessions(u) /\ u \in UserIds
    <3>1. session[s] \in SessionRows
      BY <1>0, SessionFacts
    <3> QED
      BY <1>0, <2>1, <2>2, <3>1 DEF LiveSessions, FindSessionByUserId, SessionRows, UserIds
  <2>5. LiveSessions(u)' = LiveSessions(u) /\ Latest(u)' = Latest(u)
    BY DEF LiveSessions, FindSessionByUserId, Latest
  <2>6. LiveSessions(u) \cup {t} = LiveSessions(u)
    BY <2>4
  <2>7. Room(u, LiveSessions(u) \cup {t})'
    BY <1>1, <2>4, <2>5, <2>6 DEF SessionInv, Room
  <2>8. session'[t].user = u
    BY <2>2
  <2>9. RoomFor(r)'
    BY <2>3, <2>7, <2>8 DEF RoomFor, At
  <2> QED
    BY <1>1, <2>9, SessionsStand DEF OnlyMoves
<1> QED
  BY <1>2, <1>3

\* A log-in opens a session if the latest one is not live.
LEMMA LooksForSession ==
  ASSUME AccountsInv, SessionInv, NEW r \in Requests, FindSession(r)
  PROVE  SessionInv'
<1> DEFINE l == request[r]
<1>0. request \in [Requests -> Locals] /\ l \in Locals /\ l.user \in UserIds
  <2>1. "session" \in UserLabels
    BY DEF UserLabels
  <2> QED
    BY <2>1, AtLabel, InvParts DEF RequestsOK, FindSession, At
<1>1. OnlyMoves(r) /\ UNCHANGED <<session, crossings>>
  BY OneMoves DEF AuthStep, FindSession
<1>2. CASE IfSessionExist(l.user)
  <2>1. request'[r].pc = "logOutFirst"
    BY <1>0, <1>2 DEF FindSession, Goto, Become, Mine, Locals
  <2> QED
    BY <1>1, <2>1, SessionsStand DEF OnlyMoves
<1>3. CASE ~IfSessionExist(l.user)
  <2>1. PICK u : u = l.user
    OBVIOUS
  <2>2. request'[r].pc = "open" /\ request'[r].user = u
    BY <1>0, <1>3, <2>1 DEF FindSession, Goto, Become, Mine, Locals
  <2>3. Cardinality(LiveSessions(u)) <= crossings[u]
    <3>1. CASE FindSessionByUserId(u) = {}
      <4>1. LiveSessions(u) = {}
        BY <3>1 DEF LiveSessions
      <4> QED
        BY <1>0, <2>1, <4>1, FS_EmptySet, SessionFacts
    <3>2. CASE session[Latest(u)].expired
      <4>1. Latest(u) \notin LiveSessions(u)
        BY <3>2 DEF LiveSessions
      <4> QED
        BY <1>0, <2>1, <4>1 DEF SessionInv, Room, Fits
    <3> QED
      BY <1>3, <2>1, <3>1, <3>2 DEF IfSessionExist, Latest
  <2>4. Cardinality(LiveSessions(u)') <= crossings'[u]
    BY <1>1, <2>3 DEF LiveSessions, FindSessionByUserId
  <2>5. RoomFor(r)'
    BY <2>2, <2>4 DEF RoomFor, At
  <2> QED
    BY <1>1, <2>5, SessionsStand DEF OnlyMoves
<1> QED
  BY <1>2, <1>3

\* What a write to the sessions of u leaves alone: the sessions of the others.
LEMMA OthersSessions ==
  ASSUME AccountsInv, NEW u, NEW v, v # u,
         \A s \in DOMAIN session :
            /\ s \in DOMAIN session' /\ session'[s].user = session[s].user
            /\ session[s].user # u => session'[s] = session[s],
         \A s \in DOMAIN session' : s \notin DOMAIN session => session'[s].user = u
  PROVE  LiveSessions(v)' = LiveSessions(v) /\ Latest(v)' = Latest(v)
<1>1. FindSessionByUserId(v)' = FindSessionByUserId(v)
  BY DEF FindSessionByUserId
<1>2. LiveSessions(v)' = LiveSessions(v)
  BY <1>1 DEF LiveSessions, FindSessionByUserId
<1> QED
  BY <1>1, <1>2 DEF Latest

\* A log-out leaves its user without a session.
LEMMA LogsOut ==
  ASSUME AccountsInv, SessionInv, NEW w \in UserIds, LogoutUser(w), UNCHANGED crossings,
         \A r \in Requests : request'[r].pc \in {"open", "touch"} =>
            request'[r] = request[r] \/ (request'[r].pc = "open" /\ request'[r].user = w)
  PROVE  SessionInv'
<1>0. /\ crossings \in [UserIds -> Nat] /\ crossings' = crossings
      /\ \A s \in DOMAIN session : session[s] \in SessionRows
  BY SessionFacts
<1>1. /\ DOMAIN session' = DOMAIN session
      /\ \A s \in DOMAIN session : /\ session'[s].user = session[s].user
                                   /\ session[s].user # w => session'[s] = session[s]
                                   /\ session[s].user = w => session'[s].logout
  BY <1>0 DEF LogoutUser, SessionRows
<1>2. LiveSessions(w)' = {} /\ Cardinality(LiveSessions(w)') = 0
  <2>1. LiveSessions(w)' = {}
    BY <1>1 DEF LiveSessions, FindSessionByUserId
  <2> QED
    BY <2>1, FS_EmptySet
<1>3. ASSUME NEW v, v # w PROVE LiveSessions(v)' = LiveSessions(v) /\ Latest(v)' = Latest(v)
  BY <1>1, <1>3, OthersSessions
<1>4. ASSUME NEW v \in UserIds PROVE Room(v, LiveSessions(v))'
  <2>1. CASE v = w
    BY <1>0, <1>2, <2>1 DEF Room, Fits
  <2>2. CASE v # w
    BY <1>0, <1>3, <2>2 DEF SessionInv, Room
  <2> QED
    BY <2>1, <2>2
<1>5. ASSUME NEW r \in Requests PROVE RoomFor(r)'
  <2>1. CASE request'[r].pc = "open" /\ request'[r].user = w
    BY <1>0, <1>2, <2>1 DEF RoomFor, At
  <2>2. CASE request'[r] = request[r] /\ request[r].pc \in {"open", "touch"}
    <3>1. RoomFor(r)
      BY DEF SessionInv
    <3>2. PICK v, s : v = request[r].user /\ s = request[r].session
      OBVIOUS
    <3>3. CASE v = w
      <4>1. request[r].pc = "touch" => s \in DOMAIN session /\ session[s].user = w
        BY <2>2, <3>1, <3>2, <3>3, AboutToWrite DEF RoomFor, At
      <4>2. request[r].pc = "touch" => session'[s].user = w /\ session'[s].logout
        BY <1>1, <4>1
      <4>3. Cardinality(LiveSessions(w)') <= crossings'[w]
        BY <1>0, <1>2
      <4>4. CASE request[r].pc = "open"
        BY <2>2, <3>2, <3>3, <4>3, <4>4 DEF RoomFor, At
      <4>5. CASE request[r].pc = "touch"
        BY <2>2, <3>2, <3>3, <4>2, <4>5 DEF RoomFor, At
      <4> QED
        BY <2>2, <4>4, <4>5
    <3>4. CASE v # w
      <4>1. LiveSessions(v)' = LiveSessions(v) /\ Latest(v)' = Latest(v)
        BY <1>3, <3>4
      <4>2. request[r].pc = "touch" => s \in DOMAIN session /\ session[s].user = v
        BY <2>2, <3>1, <3>2, AboutToWrite DEF RoomFor, At
      <4>3. request[r].pc = "touch" => session'[s] = session[s]
        BY <1>1, <3>4, <4>2
      <4> QED
        BY <1>0, <2>2, <3>1, <3>2, <4>1, <4>3 DEF RoomFor, Room, At
    <3> QED
      BY <3>3, <3>4
  <2>3. CASE request'[r].pc \notin {"open", "touch"}
    BY <2>3 DEF RoomFor, At
  <2> QED
    BY <2>1, <2>2, <2>3
<1> QED
  BY <1>4, <1>5 DEF SessionInv

\* A session gets too old: whoever was to prolong it still may.
LEMMA SessionEnds ==
  ASSUME AccountsInv, SessionInv, NEW t \in 1..MaxSessions, SessionTimesOut(t), UNCHANGED <<request, crossings>>
  PROVE  SessionInv'
<1>0. /\ crossings \in [UserIds -> Nat] /\ crossings' = crossings /\ request' = request
      /\ t \in DOMAIN session /\ session[t] \in SessionRows
      /\ \A v : IsFiniteSet(LiveSessions(v))
  BY SessionFacts DEF SessionTimesOut
<1>1. /\ DOMAIN session' = DOMAIN session
      /\ \A s \in DOMAIN session : /\ session'[s].user = session[s].user
                                   /\ session'[s].logout = session[s].logout
                                   /\ session'[s].expired <=> (s = t \/ session[s].expired)
  BY <1>0 DEF SessionTimesOut, SessionRows
<1>2. ASSUME NEW v PROVE LiveSessions(v)' = LiveSessions(v) \ {t} /\ Latest(v)' = Latest(v)
  <2>1. FindSessionByUserId(v)' = FindSessionByUserId(v)
    BY <1>1 DEF FindSessionByUserId
  <2>2. LiveSessions(v)' = LiveSessions(v) \ {t}
    BY <1>1 DEF LiveSessions, FindSessionByUserId
  <2> QED
    BY <2>1, <2>2 DEF Latest
<1>3. ASSUME NEW v \in UserIds PROVE Room(v, LiveSessions(v))'
  <2>1. Fits(LiveSessions(v), crossings[v], Latest(v)) /\ crossings[v] \in Nat
    BY <1>0 DEF SessionInv, Room
  <2>2. Fits(LiveSessions(v) \ {t}, crossings[v], Latest(v))
    BY <1>0, <2>1, FitsLess
  <2> QED
    BY <1>0, <1>2, <2>2 DEF Room
<1>4. ASSUME NEW r \in Requests PROVE RoomFor(r)'
  <2>1. PICK v, s : v = request[r].user /\ s = request[r].session
    OBVIOUS
  <2>2. RoomFor(r)
    BY DEF SessionInv
  <2>3. CASE request[r].pc = "open"
    <3>1. v \in UserIds /\ Cardinality(LiveSessions(v)) <= crossings[v]
      BY <2>1, <2>2, <2>3, AboutToWrite DEF RoomFor, At
    <3>2. Cardinality(LiveSessions(v) \ {t}) <= Cardinality(LiveSessions(v))
      BY <1>0, FS_Subset
    <3>3. Cardinality(LiveSessions(v)) \in Nat /\ Cardinality(LiveSessions(v) \ {t}) \in Nat /\ crossings[v] \in Nat
      BY <1>0, <3>1, FS_Subset, FS_CardinalityType
    <3>4. Cardinality(LiveSessions(v)') <= crossings'[v]
      BY <1>0, <1>2, <3>1, <3>2, <3>3
    <3> QED
      BY <1>0, <2>1, <2>3, <3>4 DEF RoomFor, At
  <2>4. CASE request[r].pc = "touch"
    <3>1. v \in UserIds /\ s \in DOMAIN session /\ session[s].user = v
      BY <2>1, <2>2, <2>4, AboutToWrite DEF RoomFor, At
    <3>2. ASSUME ~session[s].logout
          PROVE  Fits((LiveSessions(v) \ {t}) \cup {s}, crossings[v], Latest(v))
      <4>1. Fits(LiveSessions(v) \cup {s}, crossings[v], Latest(v)) /\ crossings[v] \in Nat
        BY <1>0, <2>1, <2>2, <2>4, <3>1, <3>2 DEF RoomFor, Room, At
      <4>2. IsFiniteSet(LiveSessions(v) \cup {s})
        BY <1>0, FS_AddElement
      <4>3. (LiveSessions(v) \ {t}) \cup {s} \subseteq LiveSessions(v) \cup {s}
        OBVIOUS
      <4> QED
        BY <4>1, <4>2, <4>3, FitsLess
    <3>3. ~session'[s].logout => Room(v, LiveSessions(v) \cup {s})'
      BY <1>0, <1>1, <1>2, <3>1, <3>2 DEF Room
    <3> QED
      BY <1>0, <1>1, <2>1, <2>4, <3>1, <3>3 DEF RoomFor, At
  <2>5. CASE request[r].pc \notin {"open", "touch"}
    BY <1>0, <2>5 DEF RoomFor, At
  <2> QED
    BY <2>3, <2>4, <2>5
<1> QED
  BY <1>3, <1>4 DEF SessionInv

\* A session of u is opened or prolonged: it is counted if another request of u is beside.
LEMMA SessionWritten ==
  ASSUME AccountsInv, SessionInv, NEW r \in Requests, NEW u \in UserIds, NEW t,
         OnlyMoves(r), request'[r].pc \notin {"open", "touch"}, Cross(r, u),
         \A v : v # u => LiveSessions(v)' = LiveSessions(v) /\ Latest(v)' = Latest(v),
         LiveSessions(u)' = LiveSessions(u) \cup {t},
         Beside(r, u) \/ Fits(LiveSessions(u) \cup {t}, crossings[u], Latest(u)'),
         Latest(u)' \in {t, Latest(u)},
         \A s \in DOMAIN session : /\ session'[s].user = session[s].user
                                   /\ session'[s].logout = session[s].logout
  PROVE  SessionInv'
<1>0. /\ crossings \in [UserIds -> Nat] /\ crossings[u] \in Nat
      /\ \A v : IsFiniteSet(LiveSessions(v)) /\ Cardinality(LiveSessions(v)) \in Nat
  BY SessionFacts
<1>1. /\ crossings'[u] = IF Beside(r, u) THEN crossings[u] + 1 ELSE crossings[u]
      /\ \A v \in UserIds \ {u} : crossings'[v] = crossings[v]
  BY <1>0 DEF Cross
<1>2. ASSUME NEW v \in UserIds PROVE Room(v, LiveSessions(v))'
  <2>1. CASE v # u
    BY <1>1, <2>1 DEF SessionInv, Room
  <2>2. CASE v = u
    <3>1. Fits(LiveSessions(u), crossings[u], Latest(u))
      BY DEF SessionInv, Room
    <3>2. /\ Fits(LiveSessions(u) \cup {t}, crossings[u] + 1, Latest(u))
          /\ Fits(LiveSessions(u) \cup {t}, crossings[u] + 1, t)
      BY <1>0, <3>1, FitsMore
    <3>3. Fits(LiveSessions(u) \cup {t}, crossings[u] + 1, Latest(u)')
      BY <3>2
    <3>4. Fits(LiveSessions(u) \cup {t}, crossings'[u], Latest(u)')
      BY <1>1, <3>3
    <3> QED
      BY <2>2, <3>4 DEF Room
  <2> QED
    BY <2>1, <2>2
<1>3. ASSUME NEW other \in Requests PROVE RoomFor(other)'
  <2>1. CASE other = r \/ request[other].pc \notin {"open", "touch"}
    <3>1. request'[other].pc \notin {"open", "touch"}
      BY <2>1 DEF OnlyMoves
    <3> QED
      BY <3>1 DEF RoomFor, At
  <2>2. CASE other # r /\ request[other].pc \in {"open", "touch"}
    <3>1. request'[other] = request[other] /\ RoomFor(other)
      BY <2>2 DEF OnlyMoves, SessionInv
    <3>2. PICK v, s : v = request[other].user /\ s = request[other].session
      OBVIOUS
    <3>3. v \in UserIds /\ (request[other].pc = "touch" => s \in DOMAIN session /\ session[s].user = v)
      BY <2>2, <3>1, <3>2, AboutToWrite DEF RoomFor, At
    <3>4. CASE v # u
      <4>1. LiveSessions(v)' = LiveSessions(v) /\ Latest(v)' = Latest(v) /\ crossings'[v] = crossings[v]
        BY <1>1, <3>3, <3>4
      <4> QED
        BY <3>1, <3>2, <3>3, <4>1 DEF RoomFor, Room, At
    <3>5. CASE v = u
      <4>1. Beside(r, u) /\ crossings'[u] = crossings[u] + 1
        BY <1>1, <2>2, <3>2, <3>5 DEF Beside
      <4>2. CASE request[other].pc = "open"
        <5>1. Cardinality(LiveSessions(u)) <= crossings[u]
          BY <3>1, <3>2, <3>5, <4>2 DEF RoomFor, At
        <5>2. IsFiniteSet(LiveSessions(u)) /\ Cardinality(LiveSessions(u)) \in Nat
          BY <1>0
        <5>3. /\ Cardinality(LiveSessions(u) \cup {t}) <= Cardinality(LiveSessions(u)) + 1
              /\ Cardinality(LiveSessions(u) \cup {t}) \in Nat
          BY <5>2, OneMore
        <5>4. Cardinality(LiveSessions(u)') <= crossings'[u]
          BY <1>0, <4>1, <5>1, <5>2, <5>3
        <5> QED
          BY <3>1, <3>2, <3>5, <4>2, <5>4 DEF RoomFor, At
      <4>3. CASE request[other].pc = "touch"
        <5>1. ASSUME ~session[s].logout PROVE Room(u, LiveSessions(u) \cup {s})'
          <6>1. Fits(LiveSessions(u) \cup {s}, crossings[u], Latest(u))
            BY <3>1, <3>2, <3>5, <4>3, <5>1 DEF RoomFor, Room, At
          <6>2. IsFiniteSet(LiveSessions(u) \cup {s})
            BY <1>0, FS_AddElement
          <6>3. /\ Fits((LiveSessions(u) \cup {s}) \cup {t}, crossings[u] + 1, Latest(u))
                /\ Fits((LiveSessions(u) \cup {s}) \cup {t}, crossings[u] + 1, t)
            BY <1>0, <6>1, <6>2, FitsMore
          <6>4. (LiveSessions(u) \cup {s}) \cup {t} = LiveSessions(u)' \cup {s}
            OBVIOUS
          <6>5. Fits(LiveSessions(u)' \cup {s}, crossings'[u], Latest(u)')
            BY <4>1, <6>3, <6>4
          <6> QED
            BY <6>5 DEF Room
        <5> QED
          BY <3>1, <3>2, <3>3, <3>5, <4>3, <5>1 DEF RoomFor, At
      <4> QED
        BY <2>2, <4>2, <4>3
    <3> QED
      BY <3>4, <3>5
  <2> QED
    BY <2>1, <2>2
<1> QED
  BY <1>2, <1>3 DEF SessionInv

\* A session that is logged out already is prolonged, or nobody's: only the count may grow.
LEMMA OnlyCounted ==
  ASSUME AccountsInv, SessionInv, NEW r \in Requests, NEW u \in UserIds,
         OnlyMoves(r), request'[r].pc \notin {"open", "touch"}, Cross(r, u),
         \A v : LiveSessions(v)' = LiveSessions(v) /\ Latest(v)' = Latest(v),
         \A s \in DOMAIN session : /\ session'[s].user = session[s].user
                                   /\ session'[s].logout = session[s].logout
  PROVE  SessionInv'
<1>0. /\ crossings \in [UserIds -> Nat]
      /\ \A v : IsFiniteSet(LiveSessions(v)) /\ Cardinality(LiveSessions(v)) \in Nat
  BY SessionFacts
<1>1. \A v \in UserIds : crossings[v] \in Nat /\ crossings'[v] \in {crossings[v], crossings[v] + 1}
  BY <1>0 DEF Cross
<1>2. ASSUME NEW v \in UserIds, NEW set, IsFiniteSet(set), Room(v, set)
      PROVE  Fits(set, crossings'[v], Latest(v)')
  <2>1. crossings[v] \in Nat /\ Fits(set, crossings[v], Latest(v))
    BY <1>1, <1>2 DEF Room
  <2>2. Fits(set, crossings[v] + 1, Latest(v))
    BY <1>2, <2>1, FitsMore
  <2> QED
    BY <1>1, <2>1, <2>2
<1>3. ASSUME NEW v \in UserIds PROVE Room(v, LiveSessions(v))'
  BY <1>0, <1>2 DEF SessionInv, Room
<1>4. ASSUME NEW other \in Requests PROVE RoomFor(other)'
  <2>1. CASE other = r \/ request[other].pc \notin {"open", "touch"}
    <3>1. request'[other].pc \notin {"open", "touch"}
      BY <2>1 DEF OnlyMoves
    <3> QED
      BY <3>1 DEF RoomFor, At
  <2>2. CASE other # r /\ request[other].pc \in {"open", "touch"}
    <3>1. request'[other] = request[other] /\ RoomFor(other)
      BY <2>2 DEF OnlyMoves, SessionInv
    <3>2. PICK v, s : v = request[other].user /\ s = request[other].session
      OBVIOUS
    <3>3. v \in UserIds /\ (request[other].pc = "touch" => s \in DOMAIN session /\ session[s].user = v)
      BY <2>2, <3>1, <3>2, AboutToWrite DEF RoomFor, At
    <3>4. CASE request[other].pc = "open"
      <4>1. Cardinality(LiveSessions(v)) <= crossings[v]
        BY <3>1, <3>2, <3>4 DEF RoomFor, At
      <4>2. Cardinality(LiveSessions(v)) \in Nat /\ LiveSessions(v)' = LiveSessions(v)
        BY <1>0
      <4>3. Cardinality(LiveSessions(v)') <= crossings'[v]
        BY <1>1, <3>3, <4>1, <4>2
      <4> QED
        BY <3>1, <3>2, <3>4, <4>3 DEF RoomFor, At
    <3>5. CASE request[other].pc = "touch"
      <4>1. ASSUME ~session[s].logout PROVE Room(v, LiveSessions(v) \cup {s})'
        <5>1. Room(v, LiveSessions(v) \cup {s})
          BY <3>1, <3>2, <3>5, <4>1 DEF RoomFor, At
        <5>2. IsFiniteSet(LiveSessions(v) \cup {s})
          BY <1>0, FS_AddElement
        <5>3. Fits(LiveSessions(v) \cup {s}, crossings'[v], Latest(v)')
          BY <1>2, <3>3, <5>1, <5>2
        <5> QED
          BY <5>3 DEF Room
      <4> QED
        BY <3>1, <3>2, <3>3, <3>5, <4>1 DEF RoomFor, At
    <3> QED
      BY <2>2, <3>4, <3>5
  <2> QED
    BY <2>1, <2>2
<1> QED
  BY <1>3, <1>4 DEF SessionInv

\* The session a request showed is prolonged by a day, even if it was logged out meanwhile.
LEMMA TouchKeeps ==
  ASSUME AccountsInv, SessionInv, NEW r \in Requests, Touch(r)
  PROVE  SessionInv'
<1>0. /\ request \in [Requests -> Locals] /\ request[r] \in Locals /\ request[r].pc = "touch"
      /\ request[r].kind \in Authenticated
  <2>1. KindsAt("touch") = Authenticated
    BY DEF KindsAt
  <2> QED
    BY <2>1, AtLabel, InvParts DEF RequestsOK, Touch, At
<1>1. PICK u, t : u = request[r].user /\ t = request[r].session
  OBVIOUS
<1>2. u \in UserIds /\ t \in DOMAIN session /\ RoomFor(r)
  BY <1>0, <1>1, AboutToWrite DEF SessionInv
<1>3. /\ session[t].user = u
      /\ ~session[t].logout => Room(u, LiveSessions(u) \cup {t})
  BY <1>0, <1>1, <1>2 DEF RoomFor, At
<1>4. /\ DOMAIN session' = DOMAIN session
      /\ \A s \in DOMAIN session : /\ session'[s].user = session[s].user
                                   /\ session'[s].logout = session[s].logout
                                   /\ session'[s].expired <=> (session[s].expired /\ s # t)
                                   /\ s # t => session'[s] = session[s]
  <2>1. session' = [session EXCEPT ![t].expired = FALSE]
    BY <1>1 DEF Touch, UpdateLastLogin, Mine
  <2>2. \A s \in DOMAIN session : session[s] \in SessionRows
    BY SessionFacts
  <2> QED
    BY <1>2, <2>1, <2>2 DEF SessionRows
<1>5. OnlyMoves(r) /\ Cross(r, u)
  BY <1>1, OneMoves DEF AuthStep, Touch, Mine
<1>6. request'[r].pc \notin {"open", "touch"}
  <2>1. Handler(request[r].kind) \notin {"open", "touch"}
    <3>1. CASE request[r].kind \in {"serve", "change", "move"}
      BY <3>1 DEF Handler
    <3>2. CASE request[r].kind \in {"leave", "logout", "askOwn"}
      BY <3>2 DEF Handler
    <3> QED
      BY <1>0, <3>1, <3>2 DEF Authenticated
  <2>2. PICK label : label = Handler(request[r].kind)
    OBVIOUS
  <2>3. Goto(r, label)
    BY <2>2 DEF Touch, Mine
  <2>4. request'[r].pc = label
    <3>1. Blank.pc = "rest"
      BY DEF Blank
    <3> QED
      BY <1>0, <2>3, <3>1 DEF Goto, Become, Locals
  <2> QED
    BY <2>1, <2>2, <2>4
<1>7. \A v : FindSessionByUserId(v)' = FindSessionByUserId(v) /\ Latest(v)' = Latest(v)
  <2>1. \A v : FindSessionByUserId(v)' = FindSessionByUserId(v)
    BY <1>4 DEF FindSessionByUserId
  <2> QED
    BY <2>1 DEF Latest
<1>8. \A v : v # u => LiveSessions(v)' = LiveSessions(v)
  BY <1>3, <1>4, <1>7 DEF LiveSessions, FindSessionByUserId
<1>9. CASE session[t].logout
  <2>1. LiveSessions(u)' = LiveSessions(u)
    BY <1>4, <1>7, <1>9 DEF LiveSessions, FindSessionByUserId
  <2>2. \A v : LiveSessions(v)' = LiveSessions(v)
    BY <1>8, <2>1
  <2> QED
    BY <1>2, <1>4, <1>5, <1>6, <1>7, <2>2, OnlyCounted
<1>10. CASE ~session[t].logout
  <2>1. LiveSessions(u)' = LiveSessions(u) \cup {t}
    BY <1>2, <1>3, <1>4, <1>7, <1>10 DEF LiveSessions, FindSessionByUserId
  <2>2. Fits(LiveSessions(u) \cup {t}, crossings[u], Latest(u)')
    BY <1>3, <1>7, <1>10 DEF Room
  <2> QED
    BY <1>2, <1>4, <1>5, <1>6, <1>7, <1>8, <2>1, <2>2, SessionWritten
<1> QED
  BY <1>9, <1>10

\* A session is opened.
LEMMA OpenKeeps ==
  ASSUME AccountsInv, SessionInv, NEW r \in Requests, OpenSession(r)
  PROVE  SessionInv'
<1>0. request \in [Requests -> Locals] /\ request[r].pc = "open"
  BY InvParts DEF RequestsOK, OpenSession, At
<1>1. PICK u, n : u = request[r].user /\ n = Len(session) + 1
  OBVIOUS
<1>2. u \in UserIds /\ Cardinality(LiveSessions(u)) <= crossings[u]
  BY <1>0, <1>1, AboutToWrite DEF SessionInv, RoomFor, At
<1>3. /\ crossings \in [UserIds -> Nat]
      /\ IsFiniteSet(LiveSessions(u)) /\ Cardinality(LiveSessions(u)) \in Nat
      /\ session \in Seq(SessionRows) /\ DOMAIN session = 1..Len(session) /\ Len(session) \in Nat
  BY SessionFacts
<1>4. /\ DOMAIN session' = DOMAIN session \cup {n} /\ n \notin DOMAIN session
      /\ session'[n] = [user |-> u, expired |-> FALSE, logout |-> FALSE]
      /\ \A s \in DOMAIN session : session'[s] = session[s] /\ s < n
  <2>1. session' = Append(session, [user |-> u, expired |-> FALSE, logout |-> FALSE])
    BY <1>1 DEF OpenSession, CreateSession, Mine
  <2>2. [user |-> u, expired |-> FALSE, logout |-> FALSE] \in SessionRows
    BY <1>2 DEF SessionRows, UserIds
  <2> QED
    BY <1>1, <1>3, <2>1, <2>2, AppendProperties
<1>5. OnlyMoves(r) /\ Cross(r, u)
  BY <1>1, OneMoves DEF AuthStep, OpenSession, Mine
<1>6. request'[r].pc \notin {"open", "touch"}
  BY <1>0 DEF OpenSession, Refuse, Goto, Become, Blank
<1>7. /\ FindSessionByUserId(u)' = FindSessionByUserId(u) \cup {n}
      /\ LiveSessions(u)' = LiveSessions(u) \cup {n}
  BY <1>4 DEF LiveSessions, FindSessionByUserId
<1>8. Latest(u)' = n
  <2>1. FindSessionByUserId(u) \subseteq 1..Len(session)
    BY <1>3 DEF FindSessionByUserId
  <2>2. \A s \in 1..Len(session) : s \in Nat /\ s <= n
    BY <1>1, <1>3
  <2>3. PICK set : set = FindSessionByUserId(u)'
    OBVIOUS
  <2>4. n \in set /\ \A s \in set : s \in Nat /\ s <= n
    BY <1>1, <1>3, <1>7, <2>1, <2>2, <2>3
  <2>5. LatestOf(set) = n
    BY <2>4 DEF LatestOf
  <2>6. Latest(u)' = LatestOf(set)
    BY <2>3 DEF Latest
  <2> QED
    BY <2>5, <2>6
<1>9. \A v : v # u => LiveSessions(v)' = LiveSessions(v) /\ Latest(v)' = Latest(v)
  BY <1>4, OthersSessions
<1>10. Fits(LiveSessions(u) \cup {n}, crossings[u], Latest(u)')
  <2>1. n \notin LiveSessions(u)
    BY <1>4 DEF LiveSessions, FindSessionByUserId
  <2>2. Cardinality(LiveSessions(u) \cup {n}) = Cardinality(LiveSessions(u)) + 1
    BY <1>3, <2>1, FS_AddElement
  <2>3. crossings[u] \in Nat
    BY <1>2, <1>3
  <2> QED
    BY <1>2, <1>3, <1>8, <2>2, <2>3 DEF Fits
<1> QED
  BY <1>2, <1>4, <1>5, <1>6, <1>7, <1>8, <1>9, <1>10, SessionWritten

LEMMA AuthStepKeeps ==
  ASSUME AccountsInv, SessionInv, NEW r \in Requests, AuthStep(r)
  PROVE  SessionInv'
<1> DEFINE l == request[r]
<1>0. request \in [Requests -> Locals] /\ l \in Locals /\ OnlyMoves(r) /\ Blank.pc = "rest"
  BY AtLabel, InvParts, OneMoves DEF RequestsOK, Blank
<1>1. ASSUME Refuse(r) PROVE request'[r].pc = "rest"
  BY <1>0, <1>1 DEF Refuse, Goto, Become
<1>2. CASE VerifySession(r)
  <2>1. CASE UNCHANGED session
    BY <1>2, <2>1, LooksAtSessions
  <2>2. CASE Refuse(r) /\ LogoutUser(session[l.session].user)
    <3>1. PICK w : w = session[l.session].user
      OBVIOUS
    <3>2. w \in UserIds
      <4>1. KindsAt("authenticate") = Authenticated
        BY DEF KindsAt
      <4>2. l.session \in DOMAIN session
        BY <1>2, <4>1, AtLabel DEF VerifySession, At
      <4>3. session[l.session] \in SessionRows
        BY <4>2, SessionFacts
      <4> QED
        BY <3>1, <4>3 DEF SessionRows, UserIds
    <3>3. LogoutUser(w) /\ UNCHANGED crossings
      BY <1>2, <2>2, <3>1 DEF VerifySession
    <3> QED
      BY <1>0, <1>1, <2>2, <3>2, <3>3, LogsOut DEF OnlyMoves
  <2> QED
    BY <1>2, <2>1, <2>2 DEF VerifySession, Mine
<1>3. CASE Touch(r)
  BY <1>3, TouchKeeps
<1>4. CASE FindSession(r)
  BY <1>4, LooksForSession
<1>5. CASE OpenSession(r)
  BY <1>5, OpenKeeps
<1>6. CASE LogoutFirst(r) \/ Logout(r)
  <2>1. PICK w : w = l.user
    OBVIOUS
  <2>2. w \in UserIds
    <3>1. {"logout", "logOutFirst"} \subseteq UserLabels
      BY DEF UserLabels
    <3> QED
      BY <1>6, <2>1, <3>1, AtLabel DEF LogoutFirst, Logout, At
  <2>3. UNCHANGED crossings /\ (LogoutUser(w) \/ UNCHANGED session)
    BY <1>6, <2>1 DEF LogoutFirst, Logout, Mine
  <2>4. CASE Logout(r)
    <3>1. request'[r].pc = "rest"
      BY <1>1, <2>4 DEF Logout
    <3>2. CASE LogoutUser(w)
      BY <1>0, <2>2, <2>3, <3>1, <3>2, LogsOut DEF OnlyMoves
    <3>3. CASE UNCHANGED session
      BY <1>0, <2>3, <3>1, <3>3, SessionsStand DEF OnlyMoves
    <3> QED
      BY <2>3, <3>2, <3>3
  <2>5. CASE LogoutFirst(r)
    <3>1. LogoutUser(w)
      BY <2>1, <2>5 DEF LogoutFirst, Mine
    <3>2. request'[r].pc = "open" /\ request'[r].user = w
      BY <1>0, <2>1, <2>5 DEF LogoutFirst, Goto, Become, Locals
    <3> QED
      BY <1>0, <2>2, <2>3, <3>1, <3>2, LogsOut DEF OnlyMoves
  <2> QED
    BY <1>6, <2>4, <2>5
<1> QED
  BY <1>2, <1>3, <1>4, <1>5, <1>6 DEF AuthStep

LEMMA SessionKeeps ==
  ASSUME AccountsInv, SessionInv, Next \/ UNCHANGED vars
  PROVE  SessionInv'
<1>1. ASSUME NEW r \in Requests, Receive(r) \/ TokenStep(r) \/ AccountStep(r) \/ Fail(r)
      PROVE  SessionInv'
  BY <1>1, NoSessionWritten, OneMoves, SessionsStand DEF OnlyMoves
<1>2. ASSUME UNCHANGED <<session, request, crossings>> PROVE SessionInv'
  BY <1>2, SessionsStand
<1>3. ASSUME FallBehind \/ CatchUp \/ UNCHANGED vars PROVE SessionInv'
  BY <1>2, <1>3 DEF FallBehind, CatchUp, vars
<1>4. CASE Time
  <2>1. CASE UNCHANGED session
    <3>1. UNCHANGED <<request, crossings>>
      BY <1>4 DEF Time, CacheExpires
    <3> QED
      BY <1>2, <2>1, <3>1
  <2>2. ASSUME NEW t \in 1..MaxSessions, SessionTimesOut(t), UNCHANGED <<request, crossings>>
        PROVE  SessionInv'
    BY <2>2, SessionEnds
  <2> QED
    BY <1>4, <2>1, <2>2 DEF Time, CacheExpires
<1> QED
  BY <1>1, <1>3, <1>4, AuthStepKeeps DEF Next

\* A user has one live session, and one more for each time two of its requests looked at the
\* sessions before the other wrote (SessionService.initSession, updateLastLogin).
THEOREM SessionsAreBounded == Spec => []SessionsBounded
<1>1. Init => SessionInv
  <2> SUFFICES ASSUME Init PROVE SessionInv
    OBVIOUS
  <2>1. \A r \in Requests : RoomFor(r)
    BY DEF Init, Blank, RoomFor, At
  <2>2. \A u \in UserIds : crossings[u] = 0
    BY DEF Init
  <2>3. ASSUME NEW u \in UserIds PROVE Room(u, LiveSessions(u))
    <3>1. CASE session = << >>
      <4>1. LiveSessions(u) = {}
        BY <3>1 DEF LiveSessions, FindSessionByUserId
      <4> QED
        BY <2>2, <4>1, FS_EmptySet DEF Room, Fits
    <3>2. ASSUME NEW w, session = <<[user |-> w, expired |-> FALSE, logout |-> FALSE]>>
          PROVE  Room(u, LiveSessions(u))
      <4>1. /\ DOMAIN session = {1}
            /\ session[1].user = w /\ ~session[1].expired /\ ~session[1].logout
        BY <3>2
      <4>2. CASE u = w
        <5>1. FindSessionByUserId(u) = {1} /\ LiveSessions(u) = {1}
          BY <4>1, <4>2 DEF LiveSessions, FindSessionByUserId
        <5>2. Latest(u) = 1
          BY <5>1 DEF Latest, LatestOf
        <5>3. Cardinality(LiveSessions(u)) = 1
          BY <5>1, FS_Singleton
        <5> QED
          BY <2>2, <5>1, <5>2, <5>3 DEF Room, Fits
      <4>3. CASE u # w
        <5>1. LiveSessions(u) = {}
          BY <4>1, <4>3 DEF LiveSessions, FindSessionByUserId
        <5> QED
          BY <2>2, <5>1, FS_EmptySet DEF Room, Fits
      <4> QED
        BY <4>2, <4>3
    <3> QED
      BY <3>1, <3>2 DEF Init
  <2> QED
    BY <2>1, <2>3 DEF SessionInv
<1>2. AccountsInv /\ SessionInv /\ [Next]_vars => SessionInv'
  BY SessionKeeps
<1>3. AccountsInv /\ SessionInv => SessionsBounded
  <2> SUFFICES ASSUME AccountsInv, SessionInv, NEW u \in UserIds
               PROVE  Cardinality(LiveSessions(u)) <= 1 + crossings[u]
    BY DEF SessionsBounded
  <2>1. crossings[u] \in Nat /\ Cardinality(LiveSessions(u)) \in Nat
    BY SessionFacts
  <2> QED
    BY <2>1 DEF SessionInv, Room, Fits
<1> QED
  BY InvInit, InvNext, <1>1, <1>2, <1>3, PTL DEF Spec

=============================================================================
