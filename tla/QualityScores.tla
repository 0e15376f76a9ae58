---------------------------- MODULE QualityScores ----------------------------
(***************************************************************************)
(* cron/qualityScore: a job that rates every participant of the campaign   *)
(* and sorts the rates into tiers by their distance from the mean.  The    *)
(* rates of all pages so far stay in memory: each page writes the tiers of *)
(* everybody read up to then, so only those of the last page are measured  *)
(* against the whole campaign.                                             *)
(*                                                                         *)
(* Rates and tiers are numbers nothing else depends on.  A row stands for  *)
(* them by the participants whose rates made up its mean.                  *)
(***************************************************************************)
EXTENDS ScoreTables

CONSTANTS QualityJobs

VARIABLES
    judge,      \* the jobs
    shuffled    \* jobs since whose start a participant row moved in the table

qualityVars == <<judge, shuffled>>

NotJudging == [pc |-> "rest", n |-> 0, page |-> 0, rated |-> << >>, found |-> << >>]

QualityInit ==
    /\ judge = [j \in QualityJobs |-> NotJudging]
    /\ shuffled = {}

Judge(j, local) == judge' = [judge EXCEPT ![j] = local]

StartJudge(j) ==
    /\ judge[j].pc = "rest"
    /\ Judge(j, [NotJudging EXCEPT !.pc = "page", !.n = Cardinality(Present(Seen))])
    /\ shuffled' = shuffled \ {j}
    /\ UNCHANGED tables

\* A job that forgets the rates of earlier pages.
RatePageAlone(j) ==
    LET l == judge[j]
        here == Present(Seen)
        rows == IF j \in shuffled THEN here ELSE here \ Range(l.rated)
    IN  /\ l.pc = "page"
        /\ \/ /\ l.page = PageCount(l.n, RowsPerPage)
              /\ Judge(j, NotJudging)
           \/ /\ l.page < PageCount(l.n, RowsPerPage)
              /\ \E page \in PagesOf(rows, Cardinality(here), RowsPerPage, l.page) :
                    Judge(j, [l EXCEPT !.pc = "lookUp", !.page = @ + 1, !.rated = SetToSeq(page)])
        /\ UNCHANGED <<tables, shuffled>>

\* Pages are disjoint as long as no row moves.
RateParticipants(j) ==
    LET l == judge[j]
        here == Present(Seen)
        rows == IF j \in shuffled THEN here ELSE here \ Range(l.rated)
    IN  /\ l.pc = "page"
        /\ \/ /\ l.page = PageCount(l.n, RowsPerPage)
              /\ Judge(j, NotJudging)
           \/ /\ l.page < PageCount(l.n, RowsPerPage)
              /\ \E page \in PagesOf(rows, Cardinality(here), RowsPerPage, l.page) :
                    Judge(j, [l EXCEPT !.pc = "lookUp", !.page = @ + 1, !.rated = @ \o SetToSeq(page)])
        /\ UNCHANGED <<tables, shuffled>>

\* Any row of each participant, none if the replica has none.
LookUpQuality(j) ==
    LET l == judge[j]
        Rows(p) == IF Seen.quality[p] = << >> THEN {0} ELSE DOMAIN Seen.quality[p]
    IN  /\ l.pc = "lookUp"
        /\ \E found \in [DOMAIN l.rated -> UNION {Rows(p) : p \in Range(l.rated)}] :
              /\ \A i \in DOMAIN found : found[i] \in Rows(l.rated[i])
              /\ Judge(j, [l EXCEPT !.pc = "upsert", !.found = found])
        /\ UNCHANGED <<tables, shuffled>>

\* One transaction; a row that was not found is created.
UpsertQuality(j) ==
    LET l == judge[j]
        At(p) == {i \in DOMAIN l.rated : l.rated[i] = p}
        New(p) == {i \in At(p) : l.found[i] = 0}
        Upserted(p) ==
            [n \in 1..(Len(quality[p]) + Cardinality(New(p))) |->
                IF n > Len(quality[p]) \/ \E i \in At(p) : l.found[i] = n
                THEN Range(l.rated) ELSE quality[p][n]]
    IN  /\ l.pc = "upsert"
        /\ quality' = [p \in Participants |-> Upserted(p)]
        /\ Judge(j, [l EXCEPT !.pc = "page", !.found = << >>])
        /\ UNCHANGED <<score, total, daily, post, shuffled>>

JudgeDies(j) ==
    /\ judge[j].pc # "rest"
    /\ Judge(j, NotJudging)
    /\ UNCHANGED <<tables, shuffled>>

QualityStep(j) == RateParticipants(j) \/ LookUpQuality(j) \/ UpsertQuality(j)

=============================================================================
