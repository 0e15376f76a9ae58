-------------------------------- MODULE Kyc --------------------------------
(***************************************************************************)
(* Identity verification (KycController, VerificationApplicationService):  *)
(* applications of two levels that are submitted to Acuant, whose verdict  *)
(* is polled when somebody registers again and arrives in webhooks, late,  *)
(* more than once or never.  A row keeps the last application of a user    *)
(* and level.  Reads go to the replica, writes to the primary.             *)
(*                                                                         *)
(* The route of the webhooks asks for no credentials and the body no       *)
(* signature: the code takes its word for the application and the verdict  *)
(* on it.  So a webhook may say what Acuant did not (or not yet) say;      *)
(* `unfounded' remembers of which applications, and the properties state   *)
(* what holds of the others.                                               *)
(*                                                                         *)
(* Left out: reasons, profiles and the documents on S3, which nothing      *)
(* decides by, and User.kycStatus, which an admin sets and nobody reads.   *)
(* An update and a delete that are not awaited (getApplication,            *)
(* clearApplication) never reach the database: Prisma's promises are lazy. *)
(***************************************************************************)
EXTENDS Integers, FiniteSets, Sequences

CONSTANTS
    Users,
    Admins,             \* they apply for the second level only
    Handlers,           \* requests and webhooks that may be under way together
    MaxApplications,    \* bound on applications
    MaxOverlaps,        \* bound on reads beside another handler or on a stale replica
    MaxUnfounded        \* bound on applications of which a webhook says what Acuant does not

ASSUME KycAssumption ==
    /\ IsFiniteSet(Users) /\ IsFiniteSet(Admins) /\ IsFiniteSet(Handlers)
    /\ Users \cap Admins = {}
    /\ {MaxApplications, MaxOverlaps, MaxUnfounded} \subseteq Nat

VARIABLES
    verdict,        \* the applications at Acuant: whose, for what, and what it says
    record,         \* the rows of verification_application
    recordReplica,  \* the same, as the reader sees them
    handler,        \* the requests and webhooks
    overlaps,       \* reads beside another handler or on a stale replica: history
    unfounded       \* applications of which a webhook said what Acuant did not: history

kycVars == <<verdict, record, recordReplica, handler, overlaps, unfounded>>

Applicants == Users \cup Admins
Resting == [pc |-> "rest", of |-> 0, level |-> 0, row |-> 0, read |-> << >>, app |-> 0, status |-> ""]

KycInit ==
    /\ verdict = << >> /\ record = << >> /\ recordReplica = << >>
    /\ handler = [h \in Handlers |-> Resting]
    /\ overlaps = 0 /\ unfounded = {}

\* getApplicationStatus: "R" is under review.
ApplicationStatus(state) ==
    CASE state = "A" -> "APPROVED" [] state = "D" -> "REJECTED" [] OTHER -> "PENDING"

RowsOf(rows, of, level) == {i \in DOMAIN rows : rows[i].of = of /\ rows[i].level = level}

\* findFirst has no order: one of the rows.
MaybeApproved(of, level) ==
    \E i \in RowsOf(recordReplica, of, level) : recordReplica[i].status = "APPROVED"

Handle(h, local) == handler' = [handler EXCEPT ![h] = local]
HandlerAt(h, label) == handler[h].pc = label

\* A read that others may invalidate before it is used.
CountOverlap(h, of, level) ==
    IF \/ record # recordReplica
       \/ \E g \in Handlers \ {h} : ~HandlerAt(g, "rest") /\ handler[g].of = of /\ handler[g].level = level
    THEN overlaps < MaxOverlaps /\ overlaps' = overlaps + 1
    ELSE UNCHANGED overlaps

-----------------------------------------------------------------------------
(* A registration *)

\* The second level asks whether a first one was filed.
VerifyKycFiled(h) ==
    /\ HandlerAt(h, "rest")
    /\ \E of \in Applicants, level \in 1..2 :
          /\ of \in Admins => level = 2
          /\ of \in Users /\ level = 2 => RowsOf(recordReplica, of, 1) # {}
          /\ Handle(h, [Resting EXCEPT !.pc = "find", !.of = of, !.level = level])
    /\ UNCHANGED <<verdict, record, recordReplica, overlaps, unfounded>>

\* The second level of a user takes an approved first one; otherwise nothing happens.
VerifyKyc(h) ==
    /\ HandlerAt(h, "rest")
    /\ \E of \in Applicants, level \in 1..2 :
          /\ of \in Admins => level = 2
          /\ of \in Users /\ level = 2 => MaybeApproved(of, 1)
          /\ Handle(h, [Resting EXCEPT !.pc = "find", !.of = of, !.level = level])
    /\ UNCHANGED <<verdict, record, recordReplica, overlaps, unfounded>>

\* Nothing is submitted while an application is open or approved; the caller is told
\* the status that was read even if the poll finds another.
FindKycApplication(h) ==
    LET l == handler[h]
        rows == RowsOf(recordReplica, l.of, l.level)
    IN  /\ HandlerAt(h, "find")
        /\ \/ /\ rows = {}
              /\ Handle(h, [l EXCEPT !.pc = "submit"])
           \/ \E i \in rows :
                 LET found == [l EXCEPT !.row = i, !.read = recordReplica[i]]
                 IN  CASE found.read.status = "APPROVED" -> Handle(h, Resting)
                       [] found.read.status = "PENDING" -> Handle(h, [found EXCEPT !.pc = "poll"])
                       [] OTHER -> Handle(h, [found EXCEPT !.pc = "submit"])
        /\ CountOverlap(h, l.of, l.level)
        /\ UNCHANGED <<verdict, record, recordReplica, unfounded>>

PollAcuant(h) ==
    LET l == handler[h]
        status == ApplicationStatus(verdict[l.read.app].state)
    IN  /\ HandlerAt(h, "poll")
        /\ Handle(h, IF status = "PENDING" THEN Resting ELSE [l EXCEPT !.pc = "status", !.status = status])
        /\ UNCHANGED <<verdict, record, recordReplica, overlaps, unfounded>>

SubmitApplication(h) ==
    LET l == handler[h]
    IN  /\ HandlerAt(h, "submit") /\ Len(verdict) < MaxApplications
        /\ \E state \in {"R", "A", "D"} :
              /\ verdict' = Append(verdict, [of |-> l.of, level |-> l.level, state |-> state])
              /\ Handle(h, [l EXCEPT !.pc = "upsert", !.app = Len(verdict) + 1,
                                     !.status = ApplicationStatus(state)])
        /\ UNCHANGED <<record, recordReplica, overlaps, unfounded>>

\* A row that was not found is created.
Upsert(h) ==
    LET l == handler[h]
        row == [of |-> l.of, level |-> l.level, app |-> l.app, status |-> l.status]
    IN  /\ HandlerAt(h, "upsert")
        /\ record' = IF l.row = 0 THEN Append(record, row) ELSE [record EXCEPT ![l.row] = row]
        /\ Handle(h, Resting)
        /\ UNCHANGED <<verdict, recordReplica, overlaps, unfounded>>

-----------------------------------------------------------------------------
(* A webhook *)

\* What a webhook says of application a, to the row i that was found for it.
Notify(h, a, i, state) ==
    LET status == ApplicationStatus(state)
        read == recordReplica[i]
    IN  /\ HandlerAt(h, "rest")
        /\ status # "PENDING"
        /\ read.status \notin {status, "APPROVED"}
        /\ Handle(h, [Resting EXCEPT !.pc = "status", !.of = read.of, !.level = read.level,
                                     !.row = i, !.read = read, !.status = status])
        /\ CountOverlap(h, read.of, read.level)
        /\ unfounded' = unfounded \cup (IF state = verdict[a].state THEN {} ELSE {a})
        /\ Cardinality(unfounded') <= MaxUnfounded
        /\ UNCHANGED <<verdict, record, recordReplica>>

\* One that looks for a row of the user instead of the application.
WebhookByOwner(h) ==
    \E a \in DOMAIN verdict, i \in DOMAIN recordReplica, state \in {"R", "A", "D"} :
        recordReplica[i].of = verdict[a].of /\ Notify(h, a, i, state)

\* The row is found by the application, and an approved one is left alone.  A webhook
\* without a row, or with nothing new, changes nothing.
KycWebhook(h) ==
    \E a \in DOMAIN verdict, i \in DOMAIN recordReplica, state \in {"R", "A", "D"} :
        recordReplica[i].app = a /\ Notify(h, a, i, state)

\* By the id of the row, whatever application it holds by now.
UpdateStatus(h) ==
    LET l == handler[h]
    IN  /\ HandlerAt(h, "status")
        /\ record' = [record EXCEPT ![l.row].status = l.status]
        /\ Handle(h, Resting)
        /\ UNCHANGED <<verdict, recordReplica, overlaps, unfounded>>

\* A call rejects or the process dies.
Abandon(h) ==
    /\ ~HandlerAt(h, "rest")
    /\ Handle(h, Resting)
    /\ UNCHANGED <<verdict, record, recordReplica, overlaps, unfounded>>

Decide ==
    /\ \E a \in DOMAIN verdict, state \in {"A", "D"} :
          verdict[a].state = "R" /\ verdict' = [verdict EXCEPT ![a].state = state]
    /\ UNCHANGED <<record, recordReplica, handler, overlaps, unfounded>>

ReplicateRecords ==
    /\ recordReplica # record
    /\ recordReplica' = record
    /\ UNCHANGED <<verdict, record, handler, overlaps, unfounded>>

KycNext ==
    \/ \E h \in Handlers :
          \/ VerifyKyc(h) \/ FindKycApplication(h) \/ PollAcuant(h) \/ SubmitApplication(h) \/ Upsert(h)
          \/ KycWebhook(h) \/ UpdateStatus(h) \/ Abandon(h)
    \/ Decide \/ ReplicateRecords

KycSpec == KycInit /\ [][KycNext]_kycVars

-----------------------------------------------------------------------------
(* Properties *)

Superfluous ==
    {i \in DOMAIN record : \E k \in RowsOf(record, record[i].of, record[i].level) : k < i}
Wrong ==
    {i \in DOMAIN record : record[i].app \notin unfounded
        /\ record[i].status \notin {"PENDING", ApplicationStatus(verdict[record[i].app].state)}}

\* A user has one row for a level, and its status is Acuant's verdict on the application
\* in the row or not yet known.  A second row, and a verdict on the row's earlier
\* application, each take a read beside another handler or before the replica caught up.
\* Rows of an application of which a webhook said what Acuant did not are left out
\* (KycController 174-191).
RecordsPerOverlap == Cardinality(Superfluous) + Cardinality(Wrong) <= overlaps
=============================================================================
