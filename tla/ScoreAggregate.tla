--------------------------- MODULE ScoreAggregate ---------------------------
(***************************************************************************)
(* cron/scoreAggregate: a job that gives every user a metric of the day,   *)
(* the sum of its scores, and sends a push message to those who take part  *)
(* in an open campaign.  The metrics of a page are written after its       *)
(* messages.  The message about a crypto campaign is sent in a return      *)
(* statement: it ends the whole run, before the metrics of its page.       *)
(***************************************************************************)
EXTENDS ScoreTables

CONSTANTS
    TallyJobs,
    Crypto,         \* whether the campaign pays in crypto
    Notified        \* users who want updates on their campaigns

ASSUME AggregateAssumption == Crypto \in BOOLEAN /\ Notified \subseteq Participants

VARIABLES
    tally,      \* the jobs
    metric,     \* how many rows of twenty_four_hour_metric each user has
    jumbled,    \* jobs since whose start a user row moved in the table
    completed,  \* runs that reached their end: history
    cut         \* runs that a message ended: history

aggregateVars == <<tally, metric, jumbled, completed, cut>>

NotTallying == [pc |-> "rest", page |-> 0, read |-> {}, todo |-> {}, toSave |-> {}]

AggregateInit ==
    /\ tally = [j \in TallyJobs |-> NotTallying]
    /\ metric = [p \in Participants |-> 0]
    /\ jumbled = {}
    /\ completed = 0 /\ cut = 0

Tally(j, local) == tally' = [tally EXCEPT ![j] = local]

StartTally(j) ==
    /\ tally[j].pc = "rest"
    /\ Tally(j, [NotTallying EXCEPT !.pc = "page"])
    /\ jumbled' = jumbled \ {j}
    /\ UNCHANGED <<metric, completed, cut>>

ReadUsers(j) ==
    LET l == tally[j]
        n == Cardinality(Participants)
        rows == IF j \in jumbled THEN Participants ELSE Participants \ l.read
    IN  /\ l.pc = "page"
        /\ \/ /\ l.page = PageCount(n, RowsPerPage)
              /\ Tally(j, NotTallying)
              /\ completed' = completed + 1
           \/ /\ l.page < PageCount(n, RowsPerPage)
              /\ \E page \in PagesOf(rows, n, RowsPerPage, l.page) :
                    Tally(j, [l EXCEPT !.pc = "users", !.page = @ + 1, !.read = @ \cup page, !.todo = page])
              /\ UNCHANGED completed
        /\ UNCHANGED <<metric, jumbled, cut>>

\* A message about a campaign is due if some daily row has points; any one is looked at.
MayUpdate(u) ==
    /\ u \in Notified \cap Present(Seen)
    /\ \E i \in DOMAIN Seen.daily[u] : Seen.daily[u][i] > 0
MustUpdate(u) == MayUpdate(u) /\ \A i \in DOMAIN Seen.daily[u] : Seen.daily[u][i] > 0

\* Other messages change nothing, and an error is caught.
SumScores(j) ==
    LET l == tally[j]
    IN  /\ l.pc = "users"
        /\ \E u \in l.todo :
              \/ /\ ~(Crypto /\ MustUpdate(u))
                 /\ Tally(j, [l EXCEPT !.todo = @ \ {u}, !.toSave = @ \cup {u}])
                 /\ UNCHANGED cut
              \/ /\ Crypto /\ MayUpdate(u)
                 /\ Tally(j, NotTallying)
                 /\ cut' = cut + 1
        /\ UNCHANGED <<metric, jumbled, completed>>

\* The list of metrics is not begun anew for the next page.
SaveMetricsAgain(j) ==
    LET l == tally[j]
    IN  /\ l.pc = "users" /\ l.todo = {}
        /\ metric' = [u \in Participants |-> IF u \in l.toSave THEN metric[u] + 1 ELSE metric[u]]
        /\ Tally(j, [l EXCEPT !.pc = "page"])
        /\ UNCHANGED <<jumbled, completed, cut>>
SaveMetrics(j) ==
    LET l == tally[j]
    IN  /\ l.pc = "users" /\ l.todo = {}
        /\ metric' = [u \in Participants |-> IF u \in l.toSave THEN metric[u] + 1 ELSE metric[u]]
        /\ Tally(j, [l EXCEPT !.pc = "page", !.toSave = {}])
        /\ UNCHANGED <<jumbled, completed, cut>>

TallyDies(j) ==
    /\ tally[j].pc # "rest"
    /\ Tally(j, NotTallying)
    /\ UNCHANGED <<metric, jumbled, completed, cut>>

AggregateStep(j) == ReadUsers(j) \/ SumScores(j) \/ SaveMetrics(j)

=============================================================================
