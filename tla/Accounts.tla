------------------------------ MODULE Accounts ------------------------------
(***************************************************************************)
(* Accounts of users: codes and tokens, sign-up, log-in, passwords, e-mail *)
(* addresses and what every authenticated request does to a session        *)
(* (AuthenticationController, UserAuthMiddleware and the parts of          *)
(* UserController and UserService that write accounts).  It composes       *)
(* VerificationTokens and Sessions with the table of users, the cache of   *)
(* users and the requests that work on all of them; a request is at one    *)
(* awaited call at a time and other requests run in between.               *)
(*                                                                         *)
(* Passwords are represented by what the code mixes into their hash, the   *)
(* e-mail of the account: a log-in succeeds if that is still the e-mail    *)
(* typed.  Firebase, which keeps the administrators, is left out.          *)
(***************************************************************************)
EXTENDS VerificationTokens, Sessions

CONSTANTS
    Names,          \* user names
    None,           \* no e-mail, no name
    Requests,       \* requests under way together
    Kinds,          \* the kinds of requests that arrive
    Population,     \* the tables of users to begin with
    MaxEvents       \* bound on requests, failures and lags of the replica, together

\* What sign-up creates after the row of the user.
Parts == {"wallet", "profile", "settings", "currency"}
UserRows == [email : Emails \cup {None}, salt : Emails \cup {None},
             profileEmail : Emails \cup {None}, name : Names \cup {None},
             active : BOOLEAN, deleted : BOOLEAN, parts : SUBSET Parts,
             origin : {"before", "signup", "recovery"}, own : SUBSET Emails]

\* Requests that show a session, and those that do not.
Authenticated == {"serve", "change", "move", "leave", "logout", "askOwn"}
Public == {"askEmail", "askPassword", "askAdmin", "confirm", "spend", "signup", "login",
           "reset", "recover", "assign", "ban", "delete"}

ASSUME AccountAssumption ==
    /\ None \notin Emails \cup Names
    /\ IsFiniteSet(Requests) /\ Kinds \subseteq Public \cup Authenticated
    /\ Population \subseteq {p \in Seq(UserRows) : Len(p) <= MaxUsers}
    /\ \A p \in Population : \A u \in DOMAIN p :
          /\ {p[u].email, p[u].profileEmail} \subseteq p[u].own \cup {None}
          /\ p[u].origin = "before"
    /\ MaxEvents \in Nat

VARIABLES
    users,          \* the rows with their profile; own: e-mails they began with (history)
    userReplica,    \* the rows as a replica that is behind has them
    cache,          \* the copies findUserById keeps
    request,        \* the requests
    events,         \* how many requests, failures and lags there were
    failures,       \* calls that rejected, processes that died
    abandoned,      \* sign-ups the code gave up after the row was created: history
    crossings       \* sessions opened or prolonged beside another one: history

userVars == <<users, userReplica>>
counters == <<events, failures, abandoned>>
vars == <<tokenVars, session, userVars, cache, request, counters, crossings>>

UserIds == 1..MaxUsers
Copies == [email : Emails \cup {None}, salt : Emails \cup {None}]
NotCached == [email |-> None, salt |-> None, cached |-> FALSE]
Copy(u) == [email |-> users[u].email, salt |-> users[u].salt]

Blank == [kind |-> "none", pc |-> "rest", email |-> None, name |-> None,
          token |-> 0, user |-> 0, session |-> 0, old |-> None]

\* A row before its code was presented, or after.
FirstRows == {row \in Rows : row.expiry = IF row.verified THEN "later" ELSE "none"}

Init ==
    /\ users \in Population
    /\ userReplica = << >>
    /\ \E rows \in {<< >>} \cup {<<row>> : row \in FirstRows} :
          Len(rows) <= MaxTokens /\ TokenInit(rows)
    /\ session \in {<< >>} \cup {<<[user |-> u, expired |-> FALSE, logout |-> FALSE]>> : u \in DOMAIN users}
    /\ Len(session) <= MaxSessions
    /\ cache = [u \in UserIds |-> NotCached]
    /\ request = [r \in Requests |-> Blank]
    /\ events = 0 /\ failures = 0 /\ abandoned = 0
    /\ crossings = [u \in UserIds |-> 0]

SeenUsers == IF behind THEN userReplica ELSE users

\* The replica stands still, and then has everything.
FallBehind ==
    /\ events < MaxEvents /\ events' = events + 1
    /\ TokensFallBehind
    /\ userReplica' = users
    /\ UNCHANGED <<session, users, cache, request, failures, abandoned, crossings>>

CatchUp ==
    /\ TokensCatchUp
    /\ userReplica' = << >>
    /\ UNCHANGED <<session, users, cache, request, counters, crossings>>

-----------------------------------------------------------------------------
(* Look-ups *)

FindUserByEmail(email) == {u \in DOMAIN users : users[u].email = email /\ ~users[u].deleted}
FindProfileByEmail(email) == {u \in DOMAIN SeenUsers : SeenUsers[u].profileEmail = email}
FindProfileByUsername(name) == {u \in DOMAIN SeenUsers : SeenUsers[u].name = name}
SeenWallet(u) == u \in DOMAIN SeenUsers /\ "wallet" \in SeenUsers[u].parts

\* findUserById: a copy stays up to ten minutes, whatever happens to the row.
IsCached(u) == cache[u] # NotCached
UserFound(u) == IsCached(u) \/ ~users[u].deleted
FindUserById(u) == IF IsCached(u) THEN cache[u] ELSE Copy(u)
Keep(u) == cache' = IF UserFound(u) THEN [cache EXCEPT ![u] = FindUserById(u)] ELSE cache

CacheExpires(u) ==
    /\ IsCached(u)
    /\ cache' = [cache EXCEPT ![u] = NotCached]
    /\ UNCHANGED <<tokenVars, session, userVars, request, counters, crossings>>

-----------------------------------------------------------------------------
(* Requests *)

At(r, label) == request[r].pc = label
Mine(r) == request[r]
Become(r, local) == request' = [request EXCEPT ![r] = local]
Goto(r, label) == Become(r, IF label = "rest" THEN Blank ELSE [request[r] EXCEPT !.pc = label])
Refuse(r) == Goto(r, "rest")
GotoIf(r, passed, label) == Goto(r, IF passed THEN label ELSE "rest")

\* The first call of a handler.
Handler(kind) ==
    CASE kind = "serve" -> "rest"
      [] kind \in {"askEmail", "askPassword"} -> "ask"
      [] kind = "askAdmin" -> "generate"
      [] kind = "confirm" -> "code"
      [] kind = "signup" -> "check"
      [] kind \in {"spend", "reset"} -> "token"
      [] kind = "leave" -> "delete"
      [] OTHER -> kind

\* What a client can send: codes it was mailed, tokens it was given, sessions it opened.
Calls(kind, emails, names, tokens, accounts, sessions) ==
    [kind : {kind}, pc : {IF kind \in Authenticated THEN "authenticate" ELSE Handler(kind)},
     email : emails, name : names, token : tokens, user : accounts, session : sessions, old : {None}]
CallsWithCode(kind, sessions) ==
    UNION {Calls(kind, {verification[t].email}, {None}, {t}, {0}, sessions) : t \in mailed}

Arguments(kind) ==
    CASE kind \in {"askEmail", "askPassword", "askAdmin", "login"} ->
            Calls(kind, Emails, {None}, {0}, {0}, {0})
      [] kind = "confirm" -> CallsWithCode(kind, {0})
      [] kind \in {"spend", "reset"} -> Calls(kind, {None}, {None}, held, {0}, {0})
      [] kind = "signup" -> Calls(kind, Emails, Names, held, {0}, {0})
      [] kind = "recover" -> Calls(kind, Emails, {None}, held, DOMAIN users, {0})
      [] kind \in {"assign", "ban", "delete"} -> Calls(kind, {None}, {None}, {0}, DOMAIN users, {0})
      [] kind = "askOwn" -> Calls(kind, Emails, {None}, {0}, {0}, DOMAIN session)
      [] kind = "move" -> CallsWithCode(kind, DOMAIN session)
      [] OTHER -> Calls(kind, {None}, {None}, {0}, {0}, DOMAIN session)

Receive(r) ==
    /\ At(r, "rest") /\ events < MaxEvents
    /\ \E kind \in Kinds : \E call \in Arguments(kind) : Become(r, call)
    /\ events' = events + 1
    /\ UNCHANGED <<tokenVars, session, userVars, cache, failures, abandoned, crossings>>

\* A call rejects or the process dies: what was written stays.
Fail(r) ==
    /\ ~At(r, "rest") /\ events < MaxEvents
    /\ Refuse(r)
    /\ events' = events + 1 /\ failures' = failures + 1
    /\ UNCHANGED <<tokenVars, session, userVars, cache, abandoned, crossings>>

-----------------------------------------------------------------------------
(* Sessions (UserAuthMiddleware, SessionService) *)

\* An expired session that is shown logs out all sessions of its user.
VerifySession(r) ==
    LET s == Mine(r).session
        u == session[s].user
    IN  /\ At(r, "authenticate")
        /\ \/ /\ ~session[s].logout /\ session[s].expired
              /\ LogoutUser(u) /\ Refuse(r)
           \/ /\ session[s].logout \/ (~session[s].expired /\ (users[u].deleted \/ ~users[u].active))
              /\ Refuse(r) /\ UNCHANGED session
           \/ /\ ~session[s].logout /\ ~session[s].expired
              /\ ~users[u].deleted /\ users[u].active
              /\ Become(r, [Mine(r) EXCEPT !.pc = "touch", !.user = u])
              /\ UNCHANGED session
        /\ UNCHANGED <<tokenVars, userVars, cache, counters, crossings>>

\* Another request that has looked at the sessions of u and is about to write one.
Beside(r, u) ==
    \E other \in Requests \ {r} : request[other].user = u /\ request[other].pc \in {"open", "touch"}
Cross(r, u) == crossings' = IF Beside(r, u) THEN [crossings EXCEPT ![u] = @ + 1] ELSE crossings

Touch(r) ==
    /\ At(r, "touch")
    /\ UpdateLastLogin(Mine(r).session)
    /\ Cross(r, Mine(r).user)
    /\ Goto(r, Handler(Mine(r).kind))
    /\ UNCHANGED <<tokenVars, userVars, cache, counters>>

\* initSession, three calls.
FindSession(r) ==
    /\ At(r, "session")
    /\ Goto(r, IF IfSessionExist(Mine(r).user) THEN "logOutFirst" ELSE "open")
    /\ UNCHANGED <<tokenVars, session, userVars, cache, counters, crossings>>

LogoutFirst(r) ==
    /\ At(r, "logOutFirst")
    /\ LogoutUser(Mine(r).user)
    /\ Goto(r, "open")
    /\ UNCHANGED <<tokenVars, userVars, cache, counters, crossings>>

OpenSession(r) ==
    /\ At(r, "open")
    /\ CreateSession(Mine(r).user)
    /\ Cross(r, Mine(r).user)
    /\ Refuse(r)
    /\ UNCHANGED <<tokenVars, userVars, cache, counters>>

Logout(r) ==
    /\ At(r, "logout")
    /\ IF UserFound(Mine(r).user) THEN LogoutUser(Mine(r).user) ELSE UNCHANGED session
    /\ Keep(Mine(r).user)
    /\ Refuse(r)
    /\ UNCHANGED <<tokenVars, userVars, counters, crossings>>

-----------------------------------------------------------------------------
(* Codes and tokens *)

\* startVerification: an e-mail that only a profile has is moved to its user, and the user
\* counts as not found for this request.
StartVerification(r) ==
    LET email == Mine(r).email
        known == FindUserByEmail(email) # {}
    IN  /\ At(r, "ask")
        /\ \/ /\ ~known
              /\ \E p \in FindProfileByEmail(email) : Become(r, [Mine(r) EXCEPT !.pc = "adopt", !.user = p])
           \/ /\ known \/ FindProfileByEmail(email) = {}
              /\ GotoIf(r, known <=> Mine(r).kind = "askPassword", "generate")
        /\ UNCHANGED <<tokenVars, session, userVars, cache, counters, crossings>>

AdoptProfileEmail(r) ==
    /\ At(r, "adopt")
    /\ users' = [users EXCEPT ![Mine(r).user].email = Mine(r).email]
    /\ Goto(r, "unprofile")
    /\ UNCHANGED <<tokenVars, session, userReplica, cache, counters, crossings>>

ClearProfileEmail(r) ==
    /\ At(r, "unprofile")
    /\ users' = [users EXCEPT ![Mine(r).user].profileEmail = None]
    /\ GotoIf(r, Mine(r).kind = "askEmail", "generate")
    /\ UNCHANGED <<tokenVars, session, userReplica, cache, counters, crossings>>

StartEmailVerification(r) ==
    /\ At(r, "askOwn")
    /\ GotoIf(r, /\ FindUserByEmail(Mine(r).email) = {} /\ FindProfileByEmail(Mine(r).email) = {}
                 /\ UserFound(Mine(r).user), "generate")
    /\ Keep(Mine(r).user)
    /\ UNCHANGED <<tokenVars, session, userVars, counters, crossings>>

\* A code that is mailed without a row.
GenerateUncreated(r) ==
    LET found == FindVerificationByEmail(Mine(r).email)
    IN  /\ At(r, "generate")
        /\ \/ \E t \in found : Become(r, [Mine(r) EXCEPT !.pc = "mail", !.token = t])
           \/ found = {} /\ Become(r, [Mine(r) EXCEPT !.pc = "mail", !.token = Len(verification) + 1])
        /\ UNCHANGED <<tokenVars, session, userVars, cache, counters, crossings>>

\* An unverified row of the e-mail is used again, else one is created.
GenerateVerification(r) ==
    LET found == FindVerificationByEmail(Mine(r).email)
    IN  /\ At(r, "generate")
        /\ \/ /\ \E t \in found : Become(r, [Mine(r) EXCEPT !.pc = "mail", !.token = t])
              /\ UNCHANGED tokenVars
           \/ /\ found = {}
              /\ CreateVerification(Mine(r).email)
              /\ Become(r, [Mine(r) EXCEPT !.pc = "mail", !.token = Len(verification) + 1])
        /\ UNCHANGED <<session, userVars, cache, counters, crossings>>

Mail(r) ==
    /\ At(r, "mail")
    /\ MailCode(Mine(r).token)
    /\ Refuse(r)
    /\ UNCHANGED <<session, userVars, cache, counters, crossings>>

\* Another request has found the code of t good, or the token, and has yet to write so.
Verifying(r, t) ==
    \E other \in Requests \ {r} : request[other].token = t /\ request[other].pc \in {"prolong", "takeEmail", "verified"}
Expiring(r, t) == \E other \in Requests \ {r} : request[other].token = t /\ At(other, "expire")

\* The code of a row was presented and found good.
CodeLookedUp(r, t) == Looked(t, Verifying(r, t) \/ (behind /\ verification[t].verified))

\* The row that is found need not be the one of the code.
CheckCode(r) ==
    LET t == Mine(r).token
        found == FindVerificationByEmail(Mine(r).email)
    IN  /\ At(r, "code")
        /\ \/ \E s \in found : VerifyCode(t, s) /\ Goto(r, "prolong") /\ CodeLookedUp(r, t)
           \/ /\ found = {} \/ \E s \in found : ~VerifyCode(t, s)
              /\ Refuse(r) /\ UNCHANGED tokenVars
        /\ UNCHANGED <<session, userVars, cache, counters, crossings>>

Prolong(r) ==
    /\ At(r, "prolong")
    /\ AddExpiryTime(Mine(r).token)
    /\ Goto(r, "verified")
    /\ UNCHANGED <<session, userVars, cache, counters, crossings>>

SetVerified(r) ==
    /\ At(r, "verified")
    /\ UpdateVerificationStatus(Mine(r).token)
    /\ GotoIf(r, Mine(r).kind = "confirm", "handOut")
    /\ UNCHANGED <<session, userVars, cache, counters, crossings>>

HandOut(r) ==
    /\ At(r, "handOut")
    /\ GenerateToken(Mine(r).token)
    /\ Refuse(r)
    /\ UNCHANGED <<session, userVars, cache, counters, crossings>>

CheckToken(r) ==
    LET t == Mine(r).token
        good == VerifyToken(t, Mine(r).email)
    IN  /\ At(r, "token")
        /\ \/ /\ good /\ Goto(r, "expire")
              /\ Looked(t, Expiring(r, t) \/ (behind /\ verification[t].expiry = "past"))
           \/ ~good /\ Refuse(r) /\ UNCHANGED tokenVars
        /\ UNCHANGED <<session, userVars, cache, counters, crossings>>

\* The token is used; what it was asked for comes next.
SpendToken(r) ==
    LET next == CASE Mine(r).kind = "signup" -> "create"
                  [] Mine(r).kind = "recover" /\ Mine(r).old = None -> "create"
                  [] Mine(r).kind = "reset" -> "find"
                  [] OTHER -> "rest"
    IN  /\ At(r, "expire")
        /\ ExpireToken(Mine(r).token)
        /\ Goto(r, next)
        /\ UNCHANGED <<session, userVars, cache, counters, crossings>>

-----------------------------------------------------------------------------
(* Sign-up and log-in *)

CheckNewUser(r) ==
    /\ At(r, "check")
    /\ GotoIf(r, FindUserByEmail(Mine(r).email) = {} /\ FindProfileByUsername(Mine(r).name) = {}, "token")
    /\ UNCHANGED <<tokenVars, session, userVars, cache, counters, crossings>>

NewUser(email, from) ==
    [email |-> email, salt |-> email, profileEmail |-> None, name |-> None, active |-> TRUE,
     deleted |-> FALSE, parts |-> {}, origin |-> from, own |-> {}]

\* A recovery, too, creates a row: it leaves the account that asked for it as it was, and
\* the new one without a wallet.
CreateUser(r) ==
    LET recovery == Mine(r).kind = "recover"
        row == NewUser(Mine(r).email, IF recovery THEN "recovery" ELSE "signup")
    IN  /\ At(r, "create") /\ Len(users) < MaxUsers
        /\ users' = Append(users, row)
        /\ Become(r, IF recovery THEN Blank
                     ELSE [Mine(r) EXCEPT !.pc = "wallet", !.user = Len(users) + 1])
        /\ UNCHANGED <<tokenVars, session, userReplica, cache, counters, crossings>>

AddPart(u, part) == users' = [users EXCEPT ![u].parts = @ \cup {part}]
Abandon(r) == Refuse(r) /\ abandoned' = abandoned + 1

CreateWallet(r) ==
    /\ At(r, "wallet")
    /\ AddPart(Mine(r).user, "wallet")
    /\ Goto(r, "profile")
    /\ UNCHANGED <<tokenVars, session, userReplica, cache, counters, crossings>>

\* A profile after which the settings are forgotten.
CreateProfileOnly(r) ==
    /\ At(r, "profile")
    /\ \A u \in DOMAIN users : users[u].name # Mine(r).name
    /\ users' = [users EXCEPT ![Mine(r).user].parts = @ \cup {"profile"},
                              ![Mine(r).user].name = Mine(r).name]
    /\ Goto(r, "currency")
    /\ UNCHANGED <<tokenVars, session, userReplica, cache, counters, crossings>>

\* The table has a unique index on the name.
CreateProfile(r) ==
    /\ At(r, "profile")
    /\ \/ /\ \A u \in DOMAIN users : users[u].name # Mine(r).name
          /\ users' = [users EXCEPT ![Mine(r).user].parts = @ \cup {"profile"},
                                    ![Mine(r).user].name = Mine(r).name]
          /\ Goto(r, "settings")
          /\ UNCHANGED abandoned
       \/ /\ \E u \in DOMAIN users : users[u].name = Mine(r).name
          /\ Abandon(r)
          /\ UNCHANGED users
    /\ UNCHANGED <<tokenVars, session, userReplica, cache, events, failures, crossings>>

CreateNotificationSetting(r) ==
    /\ At(r, "settings")
    /\ AddPart(Mine(r).user, "settings")
    /\ Goto(r, "currency")
    /\ UNCHANGED <<tokenVars, session, userReplica, cache, counters, crossings>>

\* findOrCreateCurrency looks the wallet up again, on the replica.
CreateCurrency(r) ==
    /\ At(r, "currency")
    /\ \/ /\ SeenWallet(Mine(r).user)
          /\ AddPart(Mine(r).user, "currency")
          /\ Goto(r, "load")
          /\ UNCHANGED abandoned
       \/ /\ ~SeenWallet(Mine(r).user)
          /\ Abandon(r)
          /\ UNCHANGED users
    /\ UNCHANGED <<tokenVars, session, userReplica, cache, events, failures, crossings>>

LoadUser(r) ==
    /\ At(r, "load")
    /\ Keep(Mine(r).user)
    /\ GotoIf(r, UserFound(Mine(r).user), "session")
    /\ UNCHANGED <<tokenVars, session, userVars, counters, crossings>>

Login(r) ==
    LET found == FindUserByEmail(Mine(r).email)
    IN  /\ At(r, "login")
        /\ \/ \E u \in found :
                IF users[u].active /\ users[u].salt = Mine(r).email
                THEN Become(r, [Mine(r) EXCEPT !.pc = "reward", !.user = u])
                ELSE Refuse(r)
           \/ found = {} /\ Refuse(r)
        /\ UNCHANGED <<tokenVars, session, userVars, cache, counters, crossings>>

\* The reward of a log-in needs the wallet; without one the log-in fails.
LoginReward(r) ==
    /\ At(r, "reward")
    /\ GotoIf(r, SeenWallet(Mine(r).user), "session")
    /\ UNCHANGED <<tokenVars, session, userVars, cache, counters, crossings>>

-----------------------------------------------------------------------------
(* Passwords, addresses, accounts *)

\* recoverUserAccountStep2 looks the user up before it takes the token.
RecoverAccount(r) ==
    LET u == Mine(r).user
    IN  /\ At(r, "recover")
        /\ Keep(u)
        /\ IF UserFound(u)
           THEN Become(r, [Mine(r) EXCEPT !.pc = "token", !.old = FindUserById(u).email])
           ELSE Refuse(r)
        /\ UNCHANGED <<tokenVars, session, userVars, counters, crossings>>

\* The user who changes the password shows the old one; an administrator does not.
ReadForPassword(r) ==
    LET u == Mine(r).user
        known == FindUserById(u).salt = FindUserById(u).email
    IN  /\ Mine(r).pc \in {"change", "assign"}
        /\ Keep(u)
        /\ IF UserFound(u) /\ (Mine(r).kind = "change" => known)
           THEN Become(r, [Mine(r) EXCEPT !.pc = "password", !.old = FindUserById(u).email])
           ELSE Refuse(r)
        /\ UNCHANGED <<tokenVars, session, userVars, counters, crossings>>

FindForReset(r) ==
    LET found == FindUserByEmail(verification[Mine(r).token].email)
    IN  /\ At(r, "find")
        /\ \/ \E u \in found :
                Become(r, [Mine(r) EXCEPT !.pc = "password", !.user = u, !.old = users[u].email])
           \/ found = {} /\ Refuse(r)
        /\ UNCHANGED <<tokenVars, session, userVars, cache, counters, crossings>>

WritePassword(r) ==
    /\ At(r, "password")
    /\ users' = [users EXCEPT ![Mine(r).user].salt = Mine(r).old]
    /\ Refuse(r)
    /\ UNCHANGED <<tokenVars, session, userReplica, cache, counters, crossings>>

\* completeEmailVerification: the address is written before its code is used up.
CompleteEmailVerification(r) ==
    LET t == Mine(r).token
        email == Mine(r).email
        free == FindUserByEmail(email) = {} /\ FindProfileByEmail(email) = {}
        found == FindVerificationByEmail(email)
        Good(s) == UserFound(Mine(r).user) /\ free /\ VerifyCode(t, s)
    IN  /\ At(r, "move")
        /\ Keep(Mine(r).user)
        /\ \/ \E s \in found : Good(s) /\ Goto(r, "takeEmail") /\ CodeLookedUp(r, t)
           \/ /\ found = {} \/ \E s \in found : ~Good(s)
              /\ Refuse(r) /\ UNCHANGED tokenVars
        /\ UNCHANGED <<session, userVars, counters, crossings>>

UpdateUserEmail(r) ==
    /\ At(r, "takeEmail")
    /\ users' = [users EXCEPT ![Mine(r).user].email = Mine(r).email]
    /\ Goto(r, "verified")
    /\ UNCHANGED <<tokenVars, session, userReplica, cache, counters, crossings>>

DeleteUser(r) ==
    /\ At(r, "delete")
    /\ Keep(Mine(r).user)
    /\ users' = [users EXCEPT ![Mine(r).user].deleted = @ \/ UserFound(Mine(r).user)]
    /\ Refuse(r)
    /\ UNCHANGED <<tokenVars, session, userReplica, counters, crossings>>

\* The reset of the cache before the update names the arguments [id], the copies are kept
\* under [id, relations]: it finds none.
UpdateUserStatus(r) ==
    /\ At(r, "ban")
    /\ users' = [users EXCEPT ![Mine(r).user].active = ~@]
    /\ Refuse(r)
    /\ UNCHANGED <<tokenVars, session, userReplica, cache, counters, crossings>>

-----------------------------------------------------------------------------

Time ==
    \/ \E t \in TokenIds : TokenTimesOut(t) /\ UNCHANGED <<session, userVars, cache, request, counters, crossings>>
    \/ \E s \in 1..MaxSessions :
          SessionTimesOut(s) /\ UNCHANGED <<tokenVars, userVars, cache, request, counters, crossings>>
    \/ \E u \in UserIds : CacheExpires(u)

AuthStep(r) == VerifySession(r) \/ Touch(r) \/ FindSession(r) \/ LogoutFirst(r) \/ OpenSession(r) \/ Logout(r)

TokenStep(r) ==
    \/ StartVerification(r) \/ AdoptProfileEmail(r) \/ ClearProfileEmail(r)
    \/ StartEmailVerification(r) \/ GenerateVerification(r) \/ Mail(r)
    \/ CheckCode(r) \/ Prolong(r) \/ SetVerified(r) \/ HandOut(r)
    \/ CheckToken(r) \/ SpendToken(r)

AccountStep(r) ==
    \/ CheckNewUser(r) \/ CreateUser(r) \/ CreateWallet(r) \/ CreateProfile(r)
    \/ CreateNotificationSetting(r) \/ CreateCurrency(r) \/ LoadUser(r)
    \/ Login(r) \/ LoginReward(r)
    \/ RecoverAccount(r) \/ ReadForPassword(r) \/ FindForReset(r) \/ WritePassword(r)
    \/ CompleteEmailVerification(r) \/ UpdateUserEmail(r) \/ DeleteUser(r) \/ UpdateUserStatus(r)

Next ==
    \/ \E r \in Requests : Receive(r) \/ AuthStep(r) \/ TokenStep(r) \/ AccountStep(r) \/ Fail(r)
    \/ FallBehind \/ CatchUp
    \/ Time

Spec == Init /\ [][Next]_vars

-----------------------------------------------------------------------------
(* Properties *)

Labels == {"rest", "authenticate", "touch", "session", "logOutFirst", "open", "logout", "ask", "adopt",
           "unprofile", "askOwn", "generate", "mail", "code", "prolong", "verified", "handOut",
           "token", "expire", "check", "create", "wallet", "profile", "settings", "currency", "load",
           "login", "reward", "recover", "change", "assign", "find", "password", "move",
           "takeEmail", "delete", "ban"}
Locals == [kind : Public \cup Authenticated \cup {"none"}, pc : Labels, email : Emails \cup {None},
           name : Names \cup {None}, token : {0} \cup TokenIds, user : {0} \cup UserIds,
           session : 0..MaxSessions, old : Emails \cup {None}]

\* Types; what a request, a session or the cache refers to exists.
TypeOK ==
    /\ TokenTypeOK /\ SessionTypeOK
    /\ users \in Seq(UserRows) /\ Len(users) <= MaxUsers
    /\ userReplica \in Seq(UserRows) /\ Len(userReplica) <= Len(users)
    /\ cache \in [UserIds -> Copies \cup {NotCached}]
    /\ \A u \in UserIds : IsCached(u) => u \in DOMAIN users
    /\ \A s \in DOMAIN session : session[s].user \in DOMAIN users
    /\ request \in [Requests -> Locals]
    /\ \A r \in Requests :
          /\ request[r].token \in {0} \cup DOMAIN verification
          /\ request[r].user \in {0} \cup DOMAIN users
          /\ request[r].session \in {0} \cup DOMAIN session
    /\ events \in 0..MaxEvents /\ failures \in 0..events /\ abandoned \in Nat
    /\ crossings \in [UserIds -> Nat]

\* An account has an e-mail it began with or one whose code was presented.  The exception
\* is a change of the address between its two writes, which a failure makes permanent.
Unproven ==
    {u \in DOMAIN users :
        /\ users[u].email \notin users[u].own \cup {None}
        /\ ~\E t \in DOMAIN verification : verification[t].email = users[u].email /\ verification[t].verified
        /\ ~\E r \in Requests : At(r, "verified") /\ request[r].user = u}
UnprovenPerFailure == Cardinality(Unproven) <= failures

\* A sign-up that has ended left a complete account, unless a call failed, another user
\* took the name meanwhile or the replica had not heard of the wallet: whatever else is
\* refused is refused before the row is created.
Incomplete ==
    {u \in DOMAIN users :
        /\ users[u].origin = "signup" /\ users[u].parts # Parts
        /\ ~\E r \in Requests : Mine(r).kind = "signup" /\ Mine(r).user = u}
IncompletePerFailure == Cardinality(Incomplete) <= failures + abandoned

\* A user has one live session, and one more for each time two of its requests each looked
\* at the sessions before the other wrote.
SessionsBounded == \A u \in UserIds : Cardinality(LiveSessions(u)) <= 1 + crossings[u]
=============================================================================
