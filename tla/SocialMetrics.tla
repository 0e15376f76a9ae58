--------------------------- MODULE SocialMetrics ---------------------------
(***************************************************************************)
(* cron/social: a job that asks Twitter for the likes and shares of every  *)
(* post of the campaign and adds the points of what is new to the score of *)
(* the author, the total of the campaign and the author's day.  New is     *)
(* what exceeds the counts in the row of the post, and those rows are      *)
(* written in one transaction at the end of a page, after all additions.   *)
(* Every addition writes an absolute value computed from an earlier read.  *)
(***************************************************************************)
EXTENDS ScoreTables

CONSTANTS SocialJobs    \* runs of the job that may overlap

ASSUME SocialAssumption == IsFiniteSet(SocialJobs)

VARIABLES
    twitter,    \* what Twitter counts
    social,     \* the jobs
    credit      \* points written to a score for each post: history

socialVars == <<twitter, social, credit>>

AtPost == [q |-> CHOOSE q \in Posts : TRUE, kind |-> "likes", score |-> 0, total |-> 0,
           id |-> 0, day |-> 0, left |-> {}]
Idle == [pc |-> "rest", page |-> 0, todo |-> {}, saved |-> {},
         had |-> [q \in Posts |-> NoCounts], got |-> [q \in Posts |-> NoCounts], at |-> AtPost]

SocialInit ==
    /\ twitter \in [Posts -> {[k \in Kinds |-> MaxCount]}]
    /\ social = [j \in SocialJobs |-> Idle]
    /\ credit = [q \in Posts |-> 0]

Run(j, local) == social' = [social EXCEPT ![j] = local]
Goto(j, label) == Run(j, [social[j] EXCEPT !.pc = label])
SocialAt(j, label) == social[j].pc = label

\* The points of what is new of a kind, and of both kinds.
Adjusted(j, k) == LET l == social[j] IN (l.got[l.at.q][k] - l.had[l.at.q][k]) * Points[k]
AdjustedScore(j) == Adjusted(j, "likes") + Adjusted(j, "shares")
Whose(j) == Author[social[j].at.q]

StartSocial(j) ==
    /\ SocialAt(j, "rest")
    /\ Goto(j, "page")
    /\ UNCHANGED <<tables, twitter, credit>>

\* Rows move when they are updated, so a page may hold any posts.
ReadPosts(j) ==
    LET l == social[j]
        n == Cardinality(Posts)
    IN  /\ SocialAt(j, "page")
        /\ \/ /\ l.page = PageCount(n, PostsPerPage)
              /\ Run(j, Idle)
           \/ /\ l.page < PageCount(n, PostsPerPage)
              /\ \E rows \in PagesOf(Posts, n, PostsPerPage, l.page) :
                    Run(j, [l EXCEPT !.pc = "fetch", !.page = @ + 1, !.todo = rows, !.saved = {},
                                     !.had = [q \in Posts |-> IF q \in rows THEN Seen.post[q] ELSE NoCounts]])
        /\ UNCHANGED <<tables, twitter, credit>>

\* All requests to Twitter are awaited together.  One that rejects, or that was not made
\* because the author has no link, is passed over.
GetPosts(j) ==
    LET l == social[j]
    IN  /\ SocialAt(j, "fetch")
        /\ \E answered \in SUBSET l.todo :
              Run(j, [l EXCEPT !.pc = "post", !.todo = answered,
                               !.got = [q \in Posts |-> IF q \in answered THEN twitter[q] ELSE NoCounts]])
        /\ UNCHANGED <<tables, twitter, credit>>

\* updatePostMetrics throws if the participant left: the rest of the page is passed over.
ReadAuthor(j) ==
    LET l == social[j]
    IN  /\ SocialAt(j, "post")
        /\ \E q \in l.todo :
              IF Author[q] \in Present(Seen)
              THEN Run(j, [l EXCEPT !.pc = "campaign", !.at.q = q, !.at.score = Seen.score[Author[q]]])
              ELSE Run(j, [l EXCEPT !.todo = {}])
        /\ UNCHANGED <<tables, twitter, credit>>

ReadTotal(j) ==
    /\ SocialAt(j, "campaign")
    /\ Run(j, [social[j] EXCEPT !.pc = "quality", !.at.total = Seen.total])
    /\ UNCHANGED <<tables, twitter, credit>>

\* findByParticipantOrCreate, on the primary.  The tier it returns changes nothing: the
\* multiplier is one for every tier.
FindQuality(j) ==
    /\ SocialAt(j, "quality")
    /\ Goto(j, IF quality[Whose(j)] = << >> THEN "newQuality" ELSE "findDay")
    /\ UNCHANGED <<tables, twitter, credit>>

CreateQuality(j) ==
    /\ SocialAt(j, "newQuality")
    /\ quality' = [quality EXCEPT ![Whose(j)] = Append(@, Blank)]
    /\ Goto(j, "findDay")
    /\ UNCHANGED <<score, total, daily, post, twitter, credit>>

FindDay(j) ==
    LET l == social[j]
        rows == Seen.daily[Whose(j)]
    IN  /\ SocialAt(j, "findDay")
        /\ \/ rows = << >> /\ Goto(j, "createDay")
           \/ \E i \in DOMAIN rows :
                 Run(j, [l EXCEPT !.pc = "writeDay", !.at.id = i, !.at.day = rows[i]])
        /\ UNCHANGED <<tables, twitter, credit>>

CreateDay(j) ==
    LET p == Whose(j)
    IN  /\ SocialAt(j, "createDay")
        /\ daily' = [daily EXCEPT ![p] = Append(@, 0)]
        /\ Run(j, [social[j] EXCEPT !.pc = "writeDay", !.at.id = Len(daily[p]) + 1, !.at.day = 0])
        /\ UNCHANGED <<score, total, post, quality, twitter, credit>>

\* The likes are written, then the row is looked up again for the shares.
WriteDay(j) ==
    LET l == social[j]
    IN  /\ SocialAt(j, "writeDay")
        /\ daily' = [daily EXCEPT ![Whose(j)][l.at.id] = l.at.day + Adjusted(j, l.at.kind)]
        /\ Run(j, IF l.at.kind = "likes"
                  THEN [l EXCEPT !.pc = "findDay", !.at.kind = "shares", !.at.id = 0, !.at.day = 0]
                  ELSE [l EXCEPT !.pc = "update", !.at.id = 0, !.at.day = 0, !.at.left = {"score", "total"}])
        /\ UNCHANGED <<score, total, post, quality, twitter, credit>>

\* Score and total are written in one Promise.all, in any order.
Written(j, what) ==
    LET l == social[j]
    IN  Run(j, IF l.at.left = {what}
               THEN [l EXCEPT !.pc = "list", !.at.left = {}]
               ELSE [l EXCEPT !.at.left = @ \ {what}])

UpdateScore(j) ==
    LET l == social[j]
    IN  /\ SocialAt(j, "update") /\ "score" \in l.at.left
        /\ score[Whose(j)] # Gone
        /\ score' = [score EXCEPT ![Whose(j)] = l.at.score + AdjustedScore(j)]
        /\ credit' = [credit EXCEPT ![l.at.q] = @ + AdjustedScore(j)]
        /\ Written(j, "score")
        /\ UNCHANGED <<total, daily, post, quality, twitter>>

\* A total computed from the score.
UpdateTotalFromScore(j) ==
    /\ SocialAt(j, "update") /\ "total" \in social[j].at.left
    /\ total' = social[j].at.score + AdjustedScore(j)
    /\ Written(j, "total")
    /\ UNCHANGED <<score, daily, post, quality, twitter, credit>>
UpdateTotal(j) ==
    /\ SocialAt(j, "update") /\ "total" \in social[j].at.left
    /\ total' = social[j].at.total + AdjustedScore(j)
    /\ Written(j, "total")
    /\ UNCHANGED <<score, daily, post, quality, twitter, credit>>

\* The participant is read once more, for the chains; then the row is listed for the transaction.
ListPost(j) ==
    LET l == social[j]
    IN  /\ SocialAt(j, "list")
        /\ Run(j, [l EXCEPT !.pc = "post", !.todo = @ \ {l.at.q}, !.saved = @ \cup {l.at.q}, !.at = AtPost])
        /\ UNCHANGED <<tables, twitter, credit>>

\* Rows that are not written.
SaveNothing(j) ==
    /\ SocialAt(j, "post") /\ social[j].todo = {}
    /\ Run(j, [Idle EXCEPT !.pc = "page", !.page = social[j].page])
    /\ UNCHANGED <<tables, twitter, credit>>
\* The transaction of the page.  The lists for the chains stay empty: updatePostMetrics
\* returns the post it was given, so old and new counts are the same when they are compared.
SavePosts(j) ==
    LET l == social[j]
    IN  /\ SocialAt(j, "post") /\ l.todo = {}
        /\ post' = [q \in Posts |-> IF q \in l.saved THEN l.got[q] ELSE post[q]]
        /\ Run(j, [Idle EXCEPT !.pc = "page", !.page = l.page])
        /\ UNCHANGED <<score, total, daily, quality, twitter, credit>>

\* A call rejects.  While a post is worked on the error is caught and the page ends with
\* the posts before it; the other write of the pair may still come through.
Throw(j) ==
    LET l == social[j]
    IN  /\ l.pc \in {"post", "campaign", "quality", "newQuality", "findDay", "createDay",
                     "writeDay", "update", "list"}
        /\ l.todo # {}
        /\ \/ UNCHANGED total
           \/ "total" \in l.at.left /\ total' = l.at.total + AdjustedScore(j)
        /\ Run(j, [l EXCEPT !.pc = "post", !.todo = {}, !.at = AtPost])
        /\ UNCHANGED <<score, daily, post, quality, twitter, credit>>

\* A row that is gone cannot be updated.
RejectScore(j) ==
    /\ SocialAt(j, "update") /\ "score" \in social[j].at.left
    /\ score[Whose(j)] = Gone
    /\ Throw(j)

\* The process dies, or a call outside of the posts rejects.
SocialDies(j) ==
    /\ ~SocialAt(j, "rest")
    /\ Run(j, Idle)
    /\ UNCHANGED <<tables, twitter, credit>>

\* Somebody likes or shares a post, or no longer does.
TwitterCounts ==
    /\ \E q \in Posts, k \in Kinds, n \in 0..MaxCount :
          /\ n # twitter[q][k]
          /\ twitter' = [twitter EXCEPT ![q][k] = n]
    /\ UNCHANGED <<tables, social, credit>>

\* Without the steps that a composition looks at: the start, the reading of a page, the
\* write of a score and what fails.
SocialStep(j) ==
    \/ GetPosts(j) \/ ReadAuthor(j) \/ ReadTotal(j)
    \/ FindQuality(j) \/ CreateQuality(j) \/ FindDay(j) \/ CreateDay(j) \/ WriteDay(j)
    \/ UpdateTotal(j) \/ ListPost(j) \/ SavePosts(j)
=============================================================================
