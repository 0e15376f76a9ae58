----------------------- MODULE CampaignApprovalProofs -----------------------
(***************************************************************************)
(* An approved campaign knows the blockage the audit has to release, and   *)
(* what is blocked for a campaign with one decision is what its row refers *)
(* to: proved for any number of campaigns and of decisions that overlap,   *)
(* fail or work on stale copies.                                           *)
(***************************************************************************)
EXTENDS CampaignApproval, SequenceTheorems, TLAPS

\* A copy of a campaign that would be approved without the id the audit needs is not
\* sound.
Sound(rec, c) ==
    c \in Blocking \ Coiin /\ rec.status = "APPROVED" => rec.blockageId # None

\* The id in a copy of a campaign is one of the blockages made for it.
IdIn(rec, c, made) ==
    rec.blockageId # None => rec.blockageId \in DOMAIN made /\ made[rec.blockageId].for = c

CopyOK(rec, c, made) ==
    rec # None => rec \in Record /\ IdIn(rec, c, made) /\ Sound(rec, c)

TableOK(rows, made) ==
    /\ rows \in [Campaigns -> Record \cup {None}]
    /\ \A c \in Campaigns : CopyOK(rows[c], c, made)

\* A decision still works on a copy that need not be sound; what it is about to write
\* is.
DecisionOK(l, made) ==
    /\ l \in Local
    /\ l.pc # "rest" => l.c \in Campaigns /\ IdIn(l.copy, l.c, made)
    /\ l.pc = "write" => Sound(l.copy, l.c)

Made == Seq([for : Campaigns, state : {"held", "released"}])

\* The inductive invariant: the rows, the cache, and every copy under way refer to
\* blockages of their own campaign, and are sound where they can be read or written.
ApprovalInv ==
    /\ TableOK(campaign, blockage) /\ TableOK(cached, blockage)
    /\ available \in Nat /\ blockage \in Made
    /\ decision \in [Decisions -> Local]
    /\ \A d \in Decisions : DecisionOK(decision[d], blockage)
    /\ redecided \subseteq Campaigns /\ created \subseteq Campaigns

LEMMA Element ==
  ASSUME NEW S, NEW seq \in Seq(S), NEW i \in DOMAIN seq
  PROVE  seq[i] \in S
OBVIOUS

-----------------------------------------------------------------------------
LEMMA InvTypes == ApprovalInv => TypeOK
<1> SUFFICES ASSUME ApprovalInv PROVE TypeOK
  OBVIOUS
<1>1. \A c \in Campaigns : \A rec \in {campaign[c], cached[c]} \ {None} : IdOf(rec, c)
  BY DEF ApprovalInv, TableOK, CopyOK, IdIn, IdOf
<1>2. \A d \in Decisions :
        ~At(d, "rest") => decision[d].c \in Campaigns /\ IdOf(decision[d].copy, decision[d].c)
  BY DEF ApprovalInv, DecisionOK, At, IdIn, IdOf
<1> QED
  BY <1>1, <1>2 DEF ApprovalInv, TypeOK, TableOK, Made

LEMMA InvBlocked == ApprovalInv => ApprovedIsBlocked
BY DEF ApprovalInv, ApprovedIsBlocked, TableOK, CopyOK, Sound, Blocking

\* A new campaign refers to no blockage and is not approved.
LEMMA NewCampaignOK ==
  ASSUME NEW c, NEW made
  PROVE  /\ NewCampaign \in Record
         /\ IdIn(NewCampaign, c, made) /\ Sound(NewCampaign, c)
         /\ CopyOK(NewCampaign, c, made)
BY DEF NewCampaign, Record, Statuses, IdIn, Sound, CopyOK

LEMMA RestOK == \A made : DecisionOK(Rest, made)
<1>1. Rest \in Local /\ Rest.pc = "rest"
  BY NewCampaignOK DEF Rest, Local
<1> QED
  BY <1>1 DEF DecisionOK

\* One decision takes on a good local state; Tatum makes no blockage.
LEMMA OneDecision ==
  ASSUME ApprovalInv, NEW d \in Decisions, NEW local, Become(d, local),
         DecisionOK(local, blockage),
         TableOK(campaign', blockage), TableOK(cached', blockage),
         redecided' \subseteq Campaigns, UNCHANGED <<tatum, created>>
  PROVE  ApprovalInv'
<1>1. local \in Local
  BY DEF DecisionOK
<1>2. /\ decision' \in [Decisions -> Local]
      /\ \A e \in Decisions : decision'[e] = IF e = d THEN local ELSE decision[e]
  BY <1>1 DEF ApprovalInv, Become
<1>3. \A e \in Decisions : DecisionOK(decision'[e], blockage)
  BY <1>2 DEF ApprovalInv
<1> QED
  BY <1>2, <1>3 DEF ApprovalInv, tatum

\* The decisions stay as they are, and so do Tatum's blockages.
LEMMA OnlyTables ==
  ASSUME ApprovalInv, TableOK(campaign', blockage), TableOK(cached', blockage),
         redecided' \subseteq Campaigns, created' \subseteq Campaigns,
         UNCHANGED <<tatum, decision>>
  PROVE  ApprovalInv'
BY DEF ApprovalInv, tatum

\* An empty cache, and a table with one new row, are good.
LEMMA EmptyTable == \A made : TableOK([c \in Campaigns |-> None], made)
BY DEF TableOK, CopyOK

LEMMA RowReplaced ==
  ASSUME NEW made, NEW rows, TableOK(rows, made), NEW c \in Campaigns,
         NEW rec \in Record \cup {None}, CopyOK(rec, c, made)
  PROVE  TableOK([rows EXCEPT ![c] = rec], made)
BY DEF TableOK

\* Blockages that are added or released leave the copies of campaigns good.
LEMMA MoreBlockages ==
  ASSUME NEW made, NEW more, DOMAIN made \subseteq DOMAIN more,
         \A i \in DOMAIN made : more[i].for = made[i].for
  PROVE  /\ \A rows : TableOK(rows, made) => TableOK(rows, more)
         /\ \A l : DecisionOK(l, made) => DecisionOK(l, more)
BY DEF TableOK, CopyOK, DecisionOK, IdIn

\* A decision that goes on, to a label where nothing need be sound.
LEMMA GoesOn ==
  ASSUME NEW made, NEW l, DecisionOK(l, made), l.pc # "rest",
         NEW label \in {"read", "decide", "block"}, NEW rec \in Record, IdIn(rec, l.c, made)
  PROVE  DecisionOK([l EXCEPT !.pc = label, !.copy = rec], made)
BY DEF DecisionOK, Local

\* A decision that is ready to write, with another status and id in its copy.
LEMMA GoesToWrite ==
  ASSUME NEW made, NEW l, DecisionOK(l, made), l.pc # "rest",
         NEW rec \in Record, IdIn(rec, l.c, made), Sound(rec, l.c)
  PROVE  DecisionOK([l EXCEPT !.pc = "write", !.copy = rec], made)
BY DEF DecisionOK, Local

-----------------------------------------------------------------------------
LEMMA ApprovalInit == Init => ApprovalInv
<1> SUFFICES ASSUME Init PROVE ApprovalInv
  OBVIOUS
<1>1. TableOK(campaign, blockage) /\ TableOK(cached, blockage)
  BY EmptyTable DEF Init
<1>2. decision \in [Decisions -> Local] /\ \A d \in Decisions : DecisionOK(decision[d], blockage)
  BY RestOK DEF Init, DecisionOK
<1>3. available \in Nat /\ blockage \in Made
  BY ApprovalAssumption DEF Init, Made
<1> QED
  BY <1>1, <1>2, <1>3 DEF Init, ApprovalInv

LEMMA ApprovalNext == ApprovalInv /\ [Next]_vars => ApprovalInv'
<1> SUFFICES ASSUME ApprovalInv, [Next]_vars PROVE ApprovalInv'
  OBVIOUS
<1>a. /\ TableOK(campaign, blockage) /\ TableOK(cached, blockage)
      /\ redecided \subseteq Campaigns /\ created \subseteq Campaigns
      /\ blockage \in Made /\ available \in Nat
  BY DEF ApprovalInv
<1>b. \A d \in Decisions :
        /\ decision[d] \in Local /\ DecisionOK(decision[d], blockage)
        /\ ~At(d, "rest") => /\ decision[d].c \in Campaigns /\ decision[d].copy \in Record
                             /\ IdIn(decision[d].copy, decision[d].c, blockage)
  BY DEF ApprovalInv, DecisionOK, At, Local
<1>1. ASSUME NEW c \in Campaigns, CreateCampaign(c) PROVE ApprovalInv'
  <2>1. NewCampaign \in Record /\ CopyOK(NewCampaign, c, blockage)
    BY NewCampaignOK
  <2>2. TableOK(campaign', blockage)
    BY <1>1, <1>a, <2>1, RowReplaced DEF CreateCampaign
  <2> QED
    BY <1>1, <1>a, <2>2, EmptyTable, OnlyTables DEF CreateCampaign, tatum
<1>2. ASSUME NEW c \in Campaigns, DeleteCampaign(c) PROVE ApprovalInv'
  <2>1. CopyOK(None, c, blockage)
    BY DEF CopyOK
  <2>2. TableOK(campaign', blockage)
    BY <1>2, <1>a, <2>1, RowReplaced DEF DeleteCampaign
  <2>3. TableOK([x \in Campaigns |-> IF x = c THEN campaign[c] ELSE None], blockage)
    BY <1>a DEF TableOK, CopyOK
  <2>4. TableOK(cached', blockage)
    BY <1>2, <2>3, EmptyTable DEF DeleteCampaign
  <2> QED
    BY <1>2, <1>a, <2>2, <2>4, OnlyTables DEF DeleteCampaign, tatum
<1>3. CASE ResetCache
  BY <1>3, <1>a, EmptyTable, OnlyTables DEF ResetCache, tatum
<1>4. ASSUME NEW d \in Decisions, ReceiveDecision(d) PROVE ApprovalInv'
  <2> PICK c \in created, verdict \in {"APPROVED", "DENIED"} :
        /\ Become(d, [pc |-> "read", c |-> c, verdict |-> verdict, copy |-> NewCampaign])
        /\ redecided' \subseteq redecided \cup {c}
    BY <1>4 DEF ReceiveDecision
  <2> DEFINE local == [pc |-> "read", c |-> c, verdict |-> verdict, copy |-> NewCampaign]
  <2>1. c \in Campaigns
    BY <1>a
  <2>2. local \in Local
    BY <2>1, NewCampaignOK DEF Local
  <2>3. DecisionOK(local, blockage)
    BY <2>1, <2>2, NewCampaignOK DEF DecisionOK
  <2>4. Become(d, local)
    OBVIOUS
  <2> HIDE DEF local
  <2> QED
    BY <1>4, <1>a, <2>1, <2>3, <2>4, OneDecision DEF ReceiveDecision, tatum
<1>5. ASSUME NEW d \in Decisions, ReadCached(d) \/ ReadCampaign(d) PROVE ApprovalInv'
  <2> DEFINE c == decision[d].c
  <2>1. c \in Campaigns /\ decision[d].pc = "read" /\ DecisionOK(decision[d], blockage)
    BY <1>5, <1>b DEF ReadCached, ReadCampaign, At
  <2>2. PICK rec : /\ rec \in {campaign[c], cached[c]} \ {None}
                   /\ AfterRead(d, rec)
                   /\ cached' \in {cached, [cached EXCEPT ![c] = campaign[c]]}
                   /\ UNCHANGED <<campaign, tatum, redecided, created>>
    BY <1>5 DEF ReadCached, ReadCampaign
  <2>3. rec \in Record /\ IdIn(rec, c, blockage)
    BY <1>a, <2>1, <2>2 DEF TableOK, CopyOK
  <2>4. DecisionOK([decision[d] EXCEPT !.pc = "decide", !.copy = rec], blockage)
    BY <2>1, <2>3, GoesOn
  <2>5. TableOK(cached', blockage)
    <3>1. campaign[c] \in Record \cup {None} /\ CopyOK(campaign[c], c, blockage)
      BY <1>a, <2>1 DEF TableOK
    <3> QED
      BY <1>a, <2>1, <2>2, <3>1, RowReplaced
  <2> QED
    BY <1>a, <2>2, <2>4, <2>5, OneDecision DEF AfterRead
<1>6. ASSUME NEW d \in Decisions, DecideWithoutFunds(d) PROVE ApprovalInv'
  <2> DEFINE l == decision[d]
             rec == [l.copy EXCEPT !.status = l.verdict]
  <2>1. /\ l.pc = "decide" /\ l.c \in Campaigns /\ l.copy \in Record
        /\ DecisionOK(l, blockage) /\ IdIn(l.copy, l.c, blockage) /\ l \in Local
    BY <1>6, <1>b DEF DecideWithoutFunds, At
  <2>2. rec \in Record /\ IdIn(rec, l.c, blockage) /\ rec.status = l.verdict
    BY <2>1 DEF Record, Statuses, IdIn, Local
  <2>3. Sound(rec, l.c)
    BY <1>6, <2>2 DEF DecideWithoutFunds, Sound, Blocking
  <2>4. Become(d, [l EXCEPT !.pc = "write", !.copy = rec])
    BY <1>6 DEF DecideWithoutFunds
  <2> HIDE DEF rec
  <2>5. DecisionOK([l EXCEPT !.pc = "write", !.copy = rec], blockage)
    BY <2>1, <2>2, <2>3, GoesToWrite
  <2> QED
    BY <1>6, <1>a, <2>4, <2>5, OneDecision DEF DecideWithoutFunds, tatum
<1>7. ASSUME NEW d \in Decisions, CheckBalance(d) PROVE ApprovalInv'
  <2> DEFINE l == decision[d]
             short == [l.copy EXCEPT !.status = "INSUFFICIENT_FUNDS"]
             enough == [l.copy EXCEPT !.status = "APPROVED"]
  <2>1. /\ l.pc = "decide" /\ l.c \in Campaigns /\ l.copy \in Record
        /\ DecisionOK(l, blockage) /\ IdIn(l.copy, l.c, blockage)
    BY <1>7, <1>b DEF CheckBalance, At
  <2>2. short \in Record /\ IdIn(short, l.c, blockage) /\ Sound(short, l.c)
    BY <2>1 DEF Record, Statuses, IdIn, Sound
  <2>3. enough \in Record /\ IdIn(enough, l.c, blockage)
    BY <2>1 DEF Record, Statuses, IdIn
  <2>4. \/ Become(d, [l EXCEPT !.pc = "write", !.copy = short])
        \/ Become(d, [l EXCEPT !.pc = "block", !.copy = enough])
    BY <1>7 DEF CheckBalance
  <2> HIDE DEF short, enough
  <2>5. /\ DecisionOK([l EXCEPT !.pc = "write", !.copy = short], blockage)
        /\ DecisionOK([l EXCEPT !.pc = "block", !.copy = enough], blockage)
    BY <2>1, <2>2, <2>3, GoesToWrite, GoesOn
  <2>6. UNCHANGED <<campaign, cached, tatum, redecided, created>>
    BY <1>7 DEF CheckBalance
  <2> QED
    BY <1>a, <2>4, <2>5, <2>6, OneDecision
<1>8. ASSUME NEW d \in Decisions, BlockCampaignAmount(d) PROVE ApprovalInv'
  <2> DEFINE l == decision[d]
             id == IF l.c \in Coiin THEN l.copy.blockageId ELSE Len(blockage) + 1
             rec == [l.copy EXCEPT !.blockageId = id]
             more == Append(blockage, Blockage(l.c))
  <2>1. /\ l.pc = "block" /\ l.c \in Campaigns /\ l.copy \in Record
        /\ DecisionOK(l, blockage) /\ IdIn(l.copy, l.c, blockage)
    BY <1>8, <1>b DEF BlockCampaignAmount, At
  <2>2. /\ more \in Made /\ DOMAIN blockage \subseteq DOMAIN more
        /\ Len(blockage) + 1 \in DOMAIN more /\ Len(blockage) + 1 \in Nat
        /\ more[Len(blockage) + 1].for = l.c
        /\ \A i \in DOMAIN blockage : more[i] = blockage[i]
    <3>1. Blockage(l.c) \in [for : Campaigns, state : {"held", "released"}] /\ Blockage(l.c).for = l.c
      BY <2>1 DEF Blockage
    <3> QED
      BY <1>a, <3>1 DEF Made
  <2>3. rec \in Record /\ IdIn(rec, l.c, more) /\ Sound(rec, l.c)
    <3>1. rec \in Record /\ rec.blockageId = id
      BY <2>1, <2>2 DEF Record
    <3>2. IdIn(rec, l.c, more)
      BY <2>1, <2>2, <3>1 DEF IdIn
    <3>3. Sound(rec, l.c)
      BY <2>2, <3>1, ApprovalAssumption DEF Sound
    <3> QED
      BY <3>1, <3>2, <3>3
  <2>4. /\ blockage' = more /\ UNCHANGED <<campaign, cached, redecided, created>>
        /\ Become(d, [l EXCEPT !.pc = "write", !.copy = rec])
        /\ available' \in Nat
    <3>1. available' = available - Budget[l.c] /\ Budget[l.c] <= available /\ Budget[l.c] \in Nat
      BY <1>8, <2>1, ApprovalAssumption DEF BlockCampaignAmount
    <3> QED
      BY <1>8, <1>a, <3>1 DEF BlockCampaignAmount
  <2> HIDE DEF rec, more
  <2>5. /\ TableOK(campaign, more) /\ TableOK(cached, more)
        /\ \A e \in Decisions : DecisionOK(decision[e], more)
    BY <1>a, <1>b, <2>2, MoreBlockages
  <2>6. DecisionOK([l EXCEPT !.pc = "write", !.copy = rec], more)
    BY <2>1, <2>3, <2>5, GoesToWrite
  <2>7. /\ decision' \in [Decisions -> Local]
        /\ \A e \in Decisions : DecisionOK(decision'[e], more)
    <3> DEFINE local == [l EXCEPT !.pc = "write", !.copy = rec]
    <3>1. DecisionOK(local, more) /\ Become(d, local)
      BY <2>4, <2>6
    <3> HIDE DEF local
    <3>2. local \in Local
      BY <3>1 DEF DecisionOK
    <3>3. \A e \in Decisions : decision'[e] = IF e = d THEN local ELSE decision[e]
      BY <3>1 DEF Become, ApprovalInv
    <3>4. decision' \in [Decisions -> Local]
      BY <3>1, <3>2 DEF Become, ApprovalInv
    <3> QED
      BY <2>5, <3>1, <3>3, <3>4
  <2> QED
    BY <1>a, <2>2, <2>4, <2>5, <2>7 DEF ApprovalInv
<1>9. ASSUME NEW d \in Decisions, AdminUpdateCampaignStatus(d) PROVE ApprovalInv'
  <2> DEFINE l == decision[d]
  <2>1. /\ l.c \in Campaigns /\ l.copy \in Record
        /\ IdIn(l.copy, l.c, blockage) /\ Sound(l.copy, l.c)
    BY <1>9, <1>b DEF AdminUpdateCampaignStatus, At, DecisionOK
  <2>2. TableOK(campaign', blockage)
    <3>1. CopyOK(l.copy, l.c, blockage)
      BY <2>1 DEF CopyOK
    <3>2. campaign' = [campaign EXCEPT ![l.c] = l.copy]
      BY <1>9 DEF AdminUpdateCampaignStatus
    <3> QED
      BY <1>a, <2>1, <3>1, <3>2, RowReplaced
  <2> QED
    BY <1>9, <1>a, <2>2, RestOK, OneDecision DEF AdminUpdateCampaignStatus, tatum
<1>10. ASSUME NEW d \in Decisions, Reject(d) PROVE ApprovalInv'
  <2>1. decision[d].c \in Campaigns
    BY <1>10, <1>b DEF Reject
  <2>2. /\ UNCHANGED <<campaign, cached, tatum, created>> /\ Become(d, Rest)
        /\ redecided' \subseteq Campaigns
    BY <1>10, <1>a, <2>1 DEF Reject
  <2> QED
    BY <1>a, <2>2, RestOK, OneDecision
<1>11. ASSUME NEW c \in Campaigns, Audit(c) PROVE ApprovalInv'
  <2> DEFINE i == campaign[c].blockageId
  <2>1. /\ blockage' = [blockage EXCEPT ![i].state = "released"]
        /\ available' \in {available, available + Budget[c]}
        /\ UNCHANGED <<campaign, cached, decision, redecided, created>>
    BY <1>11 DEF Audit
  <2>2. i \in DOMAIN blockage
    BY <1>11, <1>a DEF Audit, TableOK, CopyOK, IdIn
  <2>3. /\ blockage' \in Made /\ DOMAIN blockage' = DOMAIN blockage
        /\ \A k \in DOMAIN blockage : blockage'[k].for = blockage[k].for
    <3> DEFINE freed == [blockage[i] EXCEPT !.state = "released"]
    <3>1. blockage[i] \in [for : Campaigns, state : {"held", "released"}]
      BY <1>a, <2>2, Element DEF Made
    <3>2. freed \in [for : Campaigns, state : {"held", "released"}] /\ freed.for = blockage[i].for
      BY <3>1
    <3>3. blockage' = [blockage EXCEPT ![i] = freed]
      BY <2>1
    <3> HIDE DEF freed
    <3> QED
      BY <1>a, <2>2, <3>2, <3>3 DEF Made
  <2>4. available' \in Nat
    BY <1>a, <2>1, ApprovalAssumption
  <2>5. /\ TableOK(campaign, blockage') /\ TableOK(cached, blockage')
        /\ \A e \in Decisions : DecisionOK(decision[e], blockage')
    BY <1>a, <1>b, <2>3, MoreBlockages
  <2> QED
    BY <2>1, <2>3, <2>4, <2>5 DEF ApprovalInv
<1>12. CASE UNCHANGED vars
  BY <1>12 DEF vars, tatum, ApprovalInv
<1> QED
  BY <1>1, <1>2, <1>3, <1>4, <1>5, <1>6, <1>7, <1>8, <1>9, <1>10, <1>11, <1>12 DEF Next, Decide

\* Types; and no copy of a campaign ever refers to another campaign's blockage.
THEOREM ApprovalTypes == Spec => []TypeOK
BY InvTypes, ApprovalInit, ApprovalNext, PTL DEF Spec

\* However decisions overlap, fail or work on stale copies, an approved campaign whose
\* money is blocked knows the blockage the audit has to release.
THEOREM ApprovedKnowsBlockage == Spec => []ApprovedIsBlocked
BY InvBlocked, ApprovalInit, ApprovalNext, PTL DEF Spec

-----------------------------------------------------------------------------
(* Money that is blocked and referred to. *)

\* What the first decision on a campaign knows at each label.
Way(l, c) ==
    /\ l.pc # "rest"
    /\ l.pc \in {"read", "decide"} => l.copy = NewCampaign
    /\ l.pc = "block" => l.copy.status = "APPROVED" /\ c \in Blocking
    /\ l.pc = "write" => l.copy.status # "PENDING"

\* The blockages that a decision will leave behind, and those a row refers to.
Taken(l, c) ==
    IF l.pc = "write" /\ l.copy.status = "APPROVED" /\ c \in Blocking THEN {l.copy.blockageId} ELSE {}
Referred(rec, c, held) ==
    IF rec.status = "APPROVED" /\ c \in Blocking THEN {rec.blockageId} \cap held ELSE {}

\* A campaign that was decided on once at most: while that goes on, row and cache are as at
\* its creation, and what is held for it is what the decision has taken.
Clean(c) ==
    /\ campaign[c] # None
    /\ campaign[c].status = "PENDING" => campaign[c] = NewCampaign /\ cached[c] \in {None, NewCampaign}
    /\ \A d \in Decisions : On(d, c) =>
          /\ campaign[c].status = "PENDING"
          /\ Way(decision[d], c) /\ Holds(c) = Taken(decision[d], c)
          /\ \A e \in Decisions : On(e, c) => e = d
    /\ (\A d \in Decisions : ~On(d, c)) => Holds(c) = Referred(campaign[c], c, Holds(c))

Unborn(c) ==
    /\ campaign[c] = None /\ cached[c] = None /\ Holds(c) = {}
    /\ \A d \in Decisions : ~On(d, c)

AccountInv ==
    /\ \A d \in Decisions : At(d, "rest") => decision[d].c = None
    /\ \A c \in Campaigns \ created : Unborn(c)
    /\ \A c \in created \ (redecided \cup Coiin) : Clean(c)

LEMMA CleanIsAccounted == ApprovalInv /\ AccountInv => BlockageAccounted
<1> SUFFICES ASSUME ApprovalInv, AccountInv, NEW c \in created \ (redecided \cup Coiin),
                    \A d \in Decisions : ~On(d, c)
             PROVE  Holds(c) = IF campaign[c].status = "APPROVED" /\ c \in Blocking
                               THEN {i \in {campaign[c].blockageId} \ {None} : blockage[i].state = "held"}
                               ELSE {}
  BY DEF BlockageAccounted
<1>1. Clean(c) /\ c \in Campaigns
  BY DEF AccountInv, ApprovalInv
<1>2. Holds(c) = Referred(campaign[c], c, Holds(c)) /\ campaign[c] # None
  BY <1>1 DEF Clean
<1>3. IdIn(campaign[c], c, blockage) /\ blockage \in Made
  BY <1>1, <1>2 DEF ApprovalInv, TableOK, CopyOK
<1>4. CASE campaign[c].status = "APPROVED" /\ c \in Blocking
  <2>1. ASSUME NEW i PROVE i \in Holds(c) <=> i = campaign[c].blockageId /\ i # None /\ blockage[i].state = "held"
    <3>1. ASSUME i \in Holds(c) PROVE i = campaign[c].blockageId /\ i # None /\ blockage[i].state = "held"
      <4>1. i = campaign[c].blockageId /\ i \in DOMAIN blockage /\ blockage[i] = Blockage(c)
        BY <1>2, <1>4, <3>1 DEF Referred, Holds
      <4>2. i # None
        BY <1>3, <4>1, ApprovalAssumption DEF Made
      <4> QED
        BY <4>1, <4>2 DEF Blockage
    <3>2. ASSUME i = campaign[c].blockageId, i # None, blockage[i].state = "held" PROVE i \in Holds(c)
      <4>1. i \in DOMAIN blockage /\ blockage[i].for = c
        BY <1>3, <3>2 DEF IdIn
      <4>2. blockage[i] \in [for : Campaigns, state : {"held", "released"}]
        BY <1>3, <4>1, Element DEF Made
      <4>3. blockage[i] = Blockage(c)
        BY <3>2, <4>1, <4>2 DEF Blockage
      <4> QED
        BY <4>1, <4>3 DEF Holds
    <3> QED
      BY <3>1, <3>2
  <2> QED
    BY <1>4, <2>1
<1>5. CASE ~(campaign[c].status = "APPROVED" /\ c \in Blocking)
  BY <1>2, <1>5 DEF Referred
<1> QED
  BY <1>4, <1>5

\* A campaign of which a step changes nothing stays as it is.
LEMMA Untouched ==
  ASSUME NEW c \in Campaigns,
         campaign'[c] = campaign[c], cached'[c] \in {None, cached[c]}, Holds(c)' = Holds(c),
         \A d \in Decisions : /\ On(d, c)' <=> On(d, c)
                              /\ On(d, c) => decision'[d] = decision[d]
  PROVE  (Clean(c) => Clean(c)') /\ (Unborn(c) => Unborn(c)')
BY DEF Clean, Unborn

\* A step of one decision, on the campaign x, leaves the others as they are.
LEMMA OthersUntouched ==
  ASSUME ApprovalInv, NEW d \in Decisions, NEW local, Become(d, local), NEW x,
         decision[d].c \in {x, None}, local.c \in {x, None},
         \A c \in Campaigns \ {x} : /\ campaign'[c] = campaign[c] /\ cached'[c] = cached[c]
                                    /\ Holds(c)' = Holds(c)
  PROVE  \A c \in Campaigns \ {x} : (Clean(c) => Clean(c)') /\ (Unborn(c) => Unborn(c)')
<1>1. \A e \in Decisions : decision'[e] = IF e = d THEN local ELSE decision[e]
  BY DEF ApprovalInv, Become
<1>2. ASSUME NEW c \in Campaigns \ {x}, NEW e \in Decisions
      PROVE  /\ On(e, c)' <=> On(e, c)
             /\ On(e, c) => decision'[e] = decision[e]
  BY <1>1, ApprovalAssumption DEF On
<1> QED
  BY <1>2, Untouched

\* After a step of one decision it is enough to look at the campaign it is about.
LEMMA OneAccounted ==
  ASSUME ApprovalInv, AccountInv, NEW d \in Decisions, NEW local, Become(d, local),
         NEW x \in Campaigns, x \in created, decision[d].c \in {x, None}, local.c \in {x, None},
         local.pc = "rest" => local.c = None,
         \A c \in Campaigns \ {x} : /\ campaign'[c] = campaign[c] /\ cached'[c] = cached[c]
                                    /\ Holds(c)' = Holds(c),
         created' = created, redecided \subseteq redecided',
         x \notin redecided' \cup Coiin => Clean(x)'
  PROVE  AccountInv'
<1>1. \A e \in Decisions : decision'[e] = IF e = d THEN local ELSE decision[e]
  BY DEF ApprovalInv, Become
<1>2. \A e \in Decisions : At(e, "rest")' => decision'[e].c = None
  BY <1>1 DEF AccountInv, At
<1>3. \A c \in Campaigns \ {x} : (Clean(c) => Clean(c)') /\ (Unborn(c) => Unborn(c)')
  BY OthersUntouched
<1>4. created \subseteq Campaigns
  BY DEF ApprovalInv
<1>5. \A c \in Campaigns \ created' : Unborn(c)'
  BY <1>3 DEF AccountInv
<1>6. \A c \in created' \ (redecided' \cup Coiin) : Clean(c)'
  BY <1>3, <1>4 DEF AccountInv
<1> QED
  BY <1>2, <1>5, <1>6 DEF AccountInv

\* What is held after each kind of step.
LEMMA HeldAfter ==
  ASSUME ApprovalInv
  PROVE  /\ UNCHANGED blockage => \A c : Holds(c)' = Holds(c)
         /\ \A x \in Campaigns : blockage' = Append(blockage, Blockage(x)) =>
               /\ \A c : c # x => Holds(c)' = Holds(c)
               /\ Holds(x)' = Holds(x) \cup {Len(blockage) + 1}
         /\ \A i \in DOMAIN blockage : blockage' = [blockage EXCEPT ![i].state = "released"] =>
               /\ \A c : c # blockage[i].for => Holds(c)' = Holds(c)
               /\ \A c : Holds(c)' = Holds(c) \ {i}
<1>0. blockage \in Made /\ DOMAIN blockage = 1..Len(blockage) /\ Len(blockage) \in Nat
  BY LenProperties DEF ApprovalInv, Made
<1>1. UNCHANGED blockage => \A c : Holds(c)' = Holds(c)
  BY DEF Holds
<1>2. ASSUME NEW x \in Campaigns, blockage' = Append(blockage, Blockage(x))
      PROVE  /\ \A c : c # x => Holds(c)' = Holds(c)
             /\ Holds(x)' = Holds(x) \cup {Len(blockage) + 1}
  <2>1. Blockage(x) \in [for : Campaigns, state : {"held", "released"}]
    BY DEF Blockage
  <2>2. /\ DOMAIN blockage' = 1..Len(blockage) + 1 /\ blockage'[Len(blockage) + 1] = Blockage(x)
        /\ \A i \in 1..Len(blockage) : blockage'[i] = blockage[i]
    BY <1>0, <1>2, <2>1, AppendProperties DEF Made
  <2>3. DOMAIN blockage' = DOMAIN blockage \cup {Len(blockage) + 1}
    BY <1>0, <2>2
  <2>4. \A c : c # x => Blockage(c) # Blockage(x)
    BY DEF Blockage
  <2> QED
    BY <1>0, <2>2, <2>3, <2>4 DEF Holds
<1>3. ASSUME NEW i \in DOMAIN blockage, blockage' = [blockage EXCEPT ![i].state = "released"]
      PROVE  /\ \A c : c # blockage[i].for => Holds(c)' = Holds(c)
             /\ \A c : Holds(c)' = Holds(c) \ {i}
  <2>1. blockage[i] \in [for : Campaigns, state : {"held", "released"}]
    BY <1>0, Element DEF Made
  <2>2. /\ DOMAIN blockage' = DOMAIN blockage /\ blockage'[i].state = "released"
        /\ \A k \in DOMAIN blockage : k # i => blockage'[k] = blockage[k]
    BY <1>0, <1>3, <2>1 DEF Made
  <2>3. \A c : blockage'[i] # Blockage(c) /\ (c # blockage[i].for => blockage[i] # Blockage(c))
    BY <2>2 DEF Blockage
  <2> QED
    BY <2>2, <2>3 DEF Holds
<1> QED
  BY <1>1, <1>2, <1>3

LEMMA AccountInit == Init => AccountInv
<1> SUFFICES ASSUME Init PROVE AccountInv
  OBVIOUS
<1>1. \A d \in Decisions : decision[d].c = None
  BY DEF Init, Rest
<1>2. \A c \in Campaigns : Holds(c) = {}
  BY DEF Init, Holds
<1> QED
  BY <1>1, <1>2, ApprovalAssumption DEF Init, AccountInv, Unborn, On

\* The steps of a decision.
LEMMA DecisionAccounted ==
  ASSUME ApprovalInv, AccountInv, NEW d \in Decisions, Decide(d)
  PROVE  AccountInv'
<1> DEFINE l == decision[d]
<1> PICK x : x = l.c
  OBVIOUS
<1>0. /\ decision \in [Decisions -> Local] /\ l \in Local /\ created \subseteq Campaigns
      /\ DecisionOK(l, blockage)
      /\ \A c \in Campaigns : campaign[c] # None => campaign[c] \in Record
      /\ None \notin Campaigns
  BY ApprovalAssumption DEF ApprovalInv, TableOK
<1>1. ASSUME ~At(d, "rest")
      PROVE  /\ x \in Campaigns /\ x \in created
             /\ x \notin redecided \cup Coiin =>
                   /\ Clean(x) /\ Way(l, x) /\ Holds(x) = Taken(l, x)
                   /\ campaign[x] = NewCampaign /\ cached[x] \in {None, NewCampaign}
                   /\ \A e \in Decisions : On(e, x) => e = d
  <2>1. x \in Campaigns
    BY <1>0, <1>1 DEF DecisionOK, At
  <2>2. x \in created
    BY <2>1 DEF AccountInv, Unborn, On
  <2> QED
    BY <2>1, <2>2 DEF AccountInv, Clean, On
<1>2. ASSUME ~At(d, "rest"), NEW local, Become(d, local), local.c = x, UNCHANGED <<campaign, redecided, created>>,
             cached' = cached \/ cached' = [cached EXCEPT ![x] = campaign[x]],
             \A c \in Campaigns \ {x} : Holds(c)' = Holds(c), local.pc # "rest",
             x \notin redecided \cup Coiin => Way(local, x) /\ Holds(x)' = Taken(local, x)
      PROVE  AccountInv'
  <2>1. x \in Campaigns /\ x \in created
    BY <1>1, <1>2
  <2>2. \A e \in Decisions : decision'[e] = IF e = d THEN local ELSE decision[e]
    BY <1>0, <1>2 DEF Become
  <2>3. cached \in [Campaigns -> Record \cup {None}]
    BY DEF ApprovalInv, TableOK
  <2>4. ASSUME x \notin redecided \cup Coiin PROVE Clean(x)'
    <3>1. /\ campaign'[x] = NewCampaign /\ cached'[x] \in {None, NewCampaign}
          /\ \A e \in Decisions : On(e, x)' => e = d
      BY <1>1, <1>2, <2>1, <2>2, <2>3, <2>4 DEF On
    <3>2. On(d, x)' /\ Way(decision'[d], x) /\ Holds(x)' = Taken(decision'[d], x)
      BY <1>2, <2>2, <2>4 DEF On
    <3>3. NewCampaign # None /\ NewCampaign.status = "PENDING"
      BY <1>1, <1>2, <2>4 DEF NewCampaign, Clean
    <3>4. \A e \in Decisions : On(e, x)' => Way(decision'[e], x) /\ Holds(x)' = Taken(decision'[e], x)
      BY <3>1, <3>2
    <3> QED
      BY <3>1, <3>2, <3>3, <3>4 DEF Clean
  <2>5. \A c \in Campaigns \ {x} : campaign'[c] = campaign[c] /\ cached'[c] = cached[c] /\ Holds(c)' = Holds(c)
    BY <1>2, <2>3
  <2> QED
    BY <1>2, <2>1, <2>4, <2>5, OneAccounted
<1>3. CASE ReceiveDecision(d)
  <2>1. PICK c \in created, verdict \in {"APPROVED", "DENIED"} :
          /\ Become(d, [pc |-> "read", c |-> c, verdict |-> verdict, copy |-> NewCampaign])
          /\ redecided' = IF Decided(c) \/ \E e \in Decisions : On(e, c) THEN redecided \cup {c} ELSE redecided
    BY <1>3 DEF ReceiveDecision
  <2> DEFINE local == [pc |-> "read", c |-> c, verdict |-> verdict, copy |-> NewCampaign]
  <2>2. /\ Become(d, local) /\ local.c = c /\ local.pc = "read" /\ local.copy = NewCampaign
        /\ UNCHANGED <<campaign, cached, created, blockage>> /\ x = None
    BY <1>3, <2>1 DEF ReceiveDecision, tatum, AccountInv
  <2> HIDE DEF local
  <2>3. \A e \in Decisions : decision'[e] = IF e = d THEN local ELSE decision[e]
    BY <1>0, <2>2 DEF Become
  <2>4. \A any : Holds(any)' = Holds(any)
    BY <2>2, HeldAfter
  <2>5. ASSUME c \notin redecided' \cup Coiin PROVE Clean(c)'
    <3>1. Clean(c) /\ ~Decided(c) /\ \A e \in Decisions : ~On(e, c)
      BY <2>1, <2>5 DEF AccountInv
    <3>2. campaign[c] = NewCampaign /\ cached[c] \in {None, NewCampaign} /\ campaign[c] # None
      BY <3>1 DEF Clean, Decided
    <3>3. Holds(c) = {} /\ campaign[c].status = "PENDING"
      BY <3>1, <3>2 DEF Clean, Referred, NewCampaign
    <3>4. Way(local, c) /\ Taken(local, c) = {}
      BY <2>2 DEF Way, Taken
    <3>5. \A e \in Decisions : On(e, c)' <=> e = d
      BY <2>2, <2>3, <3>1 DEF On
    <3> QED
      BY <2>2, <2>3, <2>4, <3>2, <3>3, <3>4, <3>5 DEF Clean
  <2>6. redecided \subseteq redecided'
    BY <2>1
  <2> QED
    BY <1>0, <2>2, <2>4, <2>5, <2>6, OneAccounted
<1>4. CASE ReadCached(d) \/ ReadCampaign(d)
  <2>1. PICK rec : /\ rec \in {cached[x], campaign[x]} \ {None} /\ AfterRead(d, rec)
                   /\ cached' = cached \/ cached' = [cached EXCEPT ![x] = campaign[x]]
                   /\ UNCHANGED <<campaign, blockage, redecided, created>> /\ l.pc = "read"
    BY <1>4 DEF ReadCached, ReadCampaign, At, tatum
  <2> DEFINE local == [l EXCEPT !.pc = "decide", !.copy = rec]
  <2>2. Become(d, local) /\ local.c = x /\ local.pc = "decide" /\ local.copy = rec
    BY <1>0, <2>1 DEF AfterRead, Local
  <2> HIDE DEF local
  <2>3. \A c : Holds(c)' = Holds(c)
    BY <2>1, HeldAfter
  <2>4. ASSUME x \notin redecided \cup Coiin PROVE Way(local, x) /\ Holds(x)' = Taken(local, x)
    <3>1. rec = NewCampaign /\ Holds(x) = {}
      BY <1>1, <2>1, <2>4 DEF At, Taken
    <3> QED
      BY <2>2, <2>3, <3>1 DEF Way, Taken
  <2> QED
    BY <1>2, <2>1, <2>2, <2>3, <2>4 DEF At
<1>5. CASE DecideWithoutFunds(d) \/ CheckBalance(d)
  <2> DEFINE judged == [l.copy EXCEPT !.status = l.verdict]
             short == [l.copy EXCEPT !.status = "INSUFFICIENT_FUNDS"]
             enough == [l.copy EXCEPT !.status = "APPROVED"]
  <2>1. /\ UNCHANGED <<campaign, cached, blockage, redecided, created>> /\ l.pc = "decide"
        /\ l.copy \in Record /\ l.verdict \in {"APPROVED", "DENIED"} /\ x \in Campaigns
    BY <1>0, <1>1, <1>5 DEF DecideWithoutFunds, CheckBalance, At, tatum, Local
  <2>2. judged.status = l.verdict /\ short.status = "INSUFFICIENT_FUNDS" /\ enough.status = "APPROVED"
    BY <2>1 DEF Record
  <2>3. \/ Become(d, [l EXCEPT !.pc = "write", !.copy = judged]) /\ (l.verdict = "DENIED" \/ x \in Raffles)
        \/ Become(d, [l EXCEPT !.pc = "write", !.copy = short])
        \/ Become(d, [l EXCEPT !.pc = "block", !.copy = enough]) /\ x \notin Raffles
    <3>1. CASE DecideWithoutFunds(d)
      BY <3>1 DEF DecideWithoutFunds
    <3>2. CASE CheckBalance(d)
      BY <3>2 DEF CheckBalance
    <3> QED
      BY <1>5, <3>1, <3>2
  <2> HIDE DEF judged, short, enough
  <2>4. PICK local : /\ Become(d, local) /\ local.c = x /\ local.pc \in {"write", "block"}
                     /\ local.pc = "write" => local.copy.status # "PENDING"
                     /\ local.pc = "write" /\ local.copy.status = "APPROVED" => x \in Raffles
                     /\ local.pc = "block" => local.copy.status = "APPROVED" /\ x \notin Raffles
    <3>1. CASE Become(d, [l EXCEPT !.pc = "write", !.copy = judged]) /\ (l.verdict = "DENIED" \/ x \in Raffles)
      <4> DEFINE local == [l EXCEPT !.pc = "write", !.copy = judged]
      <4>1. local.c = x /\ local.pc = "write" /\ local.copy = judged
        BY <1>0 DEF Local
      <4> QED
        BY <2>1, <2>2, <3>1, <4>1
    <3>2. CASE Become(d, [l EXCEPT !.pc = "write", !.copy = short])
      <4> DEFINE local == [l EXCEPT !.pc = "write", !.copy = short]
      <4>1. local.c = x /\ local.pc = "write" /\ local.copy = short
        BY <1>0 DEF Local
      <4> QED
        BY <2>2, <3>2, <4>1
    <3>3. CASE Become(d, [l EXCEPT !.pc = "block", !.copy = enough]) /\ x \notin Raffles
      <4> DEFINE local == [l EXCEPT !.pc = "block", !.copy = enough]
      <4>1. local.c = x /\ local.pc = "block" /\ local.copy = enough
        BY <1>0 DEF Local
      <4> QED
        BY <2>2, <3>3, <4>1
    <3> QED
      BY <2>3, <3>1, <3>2, <3>3
  <2>5. \A any : Holds(any)' = Holds(any)
    BY <2>1, HeldAfter
  <2>6. ASSUME x \notin redecided \cup Coiin PROVE Way(local, x) /\ Holds(x)' = Taken(local, x)
    <3>1. Holds(x) = {}
      BY <1>1, <2>1, <2>6 DEF At, Taken
    <3> QED
      BY <2>1, <2>4, <2>5, <3>1 DEF Way, Taken, Blocking
  <2> QED
    BY <1>2, <2>1, <2>4, <2>5, <2>6 DEF At
<1>6. CASE BlockCampaignAmount(d)
  <2> DEFINE id == IF x \in Coiin THEN l.copy.blockageId ELSE Len(blockage) + 1
             rec == [l.copy EXCEPT !.blockageId = id]
             local == [l EXCEPT !.pc = "write", !.copy = rec]
  <2>1. /\ Become(d, local) /\ blockage' = Append(blockage, Blockage(x)) /\ l.pc = "block"
        /\ UNCHANGED <<campaign, cached, redecided, created>>
    BY <1>6 DEF BlockCampaignAmount, At
  <2>2. rec.status = l.copy.status /\ rec.blockageId = id
    BY <1>0 DEF Local, Record
  <2> HIDE DEF rec
  <2>3. local.c = x /\ local.pc = "write" /\ local.copy = rec
    BY <1>0 DEF Local
  <2> HIDE DEF local
  <2>4. /\ x \in Campaigns /\ Holds(x)' = Holds(x) \cup {Len(blockage) + 1}
        /\ \A c : c # x => Holds(c)' = Holds(c)
    BY <1>1, <2>1, HeldAfter DEF At
  <2>5. ASSUME x \notin redecided \cup Coiin PROVE Way(local, x) /\ Holds(x)' = Taken(local, x)
    <3>1. Holds(x) = {} /\ l.copy.status = "APPROVED" /\ x \in Blocking
      BY <1>1, <2>1, <2>5 DEF At, Taken, Way
    <3> QED
      BY <2>2, <2>3, <2>4, <2>5, <3>1 DEF Way, Taken
  <2> QED
    BY <1>2, <2>1, <2>3, <2>4, <2>5 DEF At
<1>7. CASE AdminUpdateCampaignStatus(d)
  <2>1. /\ Become(d, Rest) /\ campaign' = [campaign EXCEPT ![x] = l.copy] /\ l.pc = "write"
        /\ UNCHANGED <<cached, blockage, redecided, created>> /\ campaign[x] # None
    BY <1>7 DEF AdminUpdateCampaignStatus, At, tatum
  <2>2. x \in Campaigns /\ x \in created /\ Rest.c = None /\ Rest.pc = "rest"
    BY <1>1, <2>1 DEF At, Rest
  <2>3. \A c : Holds(c)' = Holds(c)
    BY <2>1, HeldAfter
  <2>4. /\ \A e \in Decisions : decision'[e] = IF e = d THEN Rest ELSE decision[e]
        /\ campaign'[x] = l.copy /\ \A c \in Campaigns \ {x} : campaign'[c] = campaign[c]
    BY <1>0, <2>1, <2>2 DEF Become, ApprovalInv, TableOK
  <2>5. ASSUME x \notin redecided' \cup Coiin PROVE Clean(x)'
    <3>1. /\ Way(l, x) /\ Holds(x) = Taken(l, x)
          /\ \A e \in Decisions : On(e, x) => e = d
      BY <1>1, <2>1, <2>5 DEF At
    <3>2. l.copy.status # "PENDING" /\ Holds(x) = Referred(l.copy, x, Holds(x))
      BY <2>1, <3>1 DEF Way, Taken, Referred
    <3>3. \A e \in Decisions : ~On(e, x)'
      BY <1>0, <2>2, <2>4, <3>1 DEF On
    <3>4. l.copy # None
      BY <1>0, ApprovalAssumption DEF Local
    <3> QED
      BY <2>3, <2>4, <3>2, <3>3, <3>4 DEF Clean
  <2> QED
    BY <2>1, <2>2, <2>3, <2>4, <2>5, OneAccounted
<1>8. CASE Reject(d)
  <2>1. /\ Become(d, Rest) /\ redecided' = redecided \cup {x} /\ ~At(d, "rest")
        /\ UNCHANGED <<campaign, cached, blockage, created>>
    BY <1>8 DEF Reject, tatum
  <2>2. x \in Campaigns /\ x \in created /\ Rest.c = None
    BY <1>1, <2>1 DEF Rest
  <2>3. \A c : Holds(c)' = Holds(c)
    BY <2>1, HeldAfter
  <2> QED
    BY <2>1, <2>2, <2>3, OneAccounted
<1> QED
  BY <1>3, <1>4, <1>5, <1>6, <1>7, <1>8 DEF Decide

\* The other steps: the decisions under way stay as they are.
LEMMA CreationAccounted ==
  ASSUME ApprovalInv, AccountInv, NEW c \in Campaigns, CreateCampaign(c)
  PROVE  AccountInv'
<1>1. /\ Unborn(c) /\ created' = created \cup {c}
      /\ UNCHANGED <<blockage, decision, redecided>>
      /\ cached' = [x \in Campaigns |-> None]
      /\ campaign'[c] = NewCampaign /\ \A x \in Campaigns \ {c} : campaign'[x] = campaign[x]
  BY DEF CreateCampaign, AccountInv, ApprovalInv, TableOK, tatum
<1>2. \A any : Holds(any)' = Holds(any)
  BY <1>1, HeldAfter
<1>3. \A x \in Campaigns \ {c} : (Clean(x) => Clean(x)') /\ (Unborn(x) => Unborn(x)')
  BY <1>1, <1>2, Untouched DEF On
<1>4. Clean(c)'
  <2>1. Holds(c)' = {} /\ cached'[c] = None /\ \A d \in Decisions : ~On(d, c)'
    BY <1>1, <1>2 DEF Unborn, On
  <2>2. NewCampaign # None /\ NewCampaign.status = "PENDING"
    BY NewCampaignOK, ApprovalAssumption DEF NewCampaign
  <2> QED
    BY <1>1, <2>1, <2>2 DEF Clean, Referred
<1> QED
  BY <1>1, <1>3, <1>4 DEF AccountInv, At, ApprovalInv

LEMMA AuditAccounted ==
  ASSUME ApprovalInv, AccountInv, NEW c \in Campaigns, Audit(c)
  PROVE  AccountInv'
<1> DEFINE i == campaign[c].blockageId
<1>1. /\ campaign[c] # None /\ campaign[c].status = "APPROVED" /\ i # None
      /\ blockage' = [blockage EXCEPT ![i].state = "released"]
      /\ UNCHANGED <<campaign, cached, decision, redecided, created>>
  BY DEF Audit
<1>2. i \in DOMAIN blockage /\ blockage[i].for = c
  BY <1>1 DEF ApprovalInv, TableOK, CopyOK, IdIn
<1>3. /\ \A x : x # c => Holds(x)' = Holds(x)
      /\ Holds(c)' = Holds(c) \ {i}
  BY <1>1, <1>2, HeldAfter
<1>4. \A x \in Campaigns \ {c} : (Clean(x) => Clean(x)') /\ (Unborn(x) => Unborn(x)')
  BY <1>1, <1>3, Untouched DEF On
<1>5. ASSUME Clean(c) PROVE Clean(c)'
  <2>1. (\A d \in Decisions : ~On(d, c)) /\ Holds(c) = Referred(campaign[c], c, Holds(c))
    BY <1>1, <1>5 DEF Clean
  <2>2. Holds(c)' = Referred(campaign[c], c, Holds(c)')
    BY <1>3, <2>1 DEF Referred
  <2> QED
    BY <1>1, <2>1, <2>2 DEF Clean, On
<1>6. c \in created /\ created \subseteq Campaigns
  BY <1>1 DEF AccountInv, Unborn, ApprovalInv
<1> QED
  BY <1>1, <1>4, <1>5, <1>6 DEF AccountInv, At

\* Rows are deleted and caches reset; the money stays blocked.
LEMMA ResetAccounted ==
  ASSUME ApprovalInv, AccountInv, NEW gone, gone \subseteq created,
         UNCHANGED <<blockage, decision, created>>, redecided \cup gone \subseteq redecided',
         \A x \in Campaigns : x \notin gone => campaign'[x] = campaign[x] /\ cached'[x] \in {None, cached[x]}
  PROVE  AccountInv'
<1>1. \A any : Holds(any)' = Holds(any)
  BY HeldAfter
<1>2. \A x \in Campaigns : x \notin gone => (Clean(x) => Clean(x)') /\ (Unborn(x) => Unborn(x)')
  BY <1>1, Untouched DEF On
<1>3. created \subseteq Campaigns
  BY DEF ApprovalInv
<1>4. \A d \in Decisions : At(d, "rest")' => decision'[d].c = None
  BY DEF AccountInv, At
<1>5. \A x \in Campaigns \ created' : Unborn(x)'
  BY <1>2 DEF AccountInv
<1>6. \A x \in created' \ (redecided' \cup Coiin) : Clean(x)'
  BY <1>2, <1>3 DEF AccountInv
<1> QED
  BY <1>4, <1>5, <1>6 DEF AccountInv

LEMMA AccountNext == ApprovalInv /\ AccountInv /\ [Next]_vars => AccountInv'
<1> SUFFICES ASSUME ApprovalInv, AccountInv, [Next]_vars PROVE AccountInv'
  OBVIOUS
<1>1. ASSUME NEW c \in Campaigns, DeleteCampaign(c) PROVE AccountInv'
  <2>1. /\ UNCHANGED <<blockage, decision, created>> /\ redecided' = redecided \cup {c}
        /\ \A x \in Campaigns \ {c} : campaign'[x] = campaign[x] /\ cached'[x] = None
    BY <1>1 DEF DeleteCampaign, tatum, ApprovalInv, TableOK
  <2> DEFINE gone == {c}
  <2>2. /\ gone \subseteq created /\ redecided \cup gone \subseteq redecided'
        /\ \A x \in Campaigns : x \notin gone => campaign'[x] = campaign[x] /\ cached'[x] \in {None, cached[x]}
    BY <1>1, <2>1 DEF DeleteCampaign, AccountInv, Unborn
  <2> HIDE DEF gone
  <2> QED
    BY <2>1, <2>2, ResetAccounted
<1>2. CASE ResetCache \/ UNCHANGED vars
  <2> DEFINE gone == {}
  <2>1. /\ UNCHANGED <<blockage, decision, created>>
        /\ gone \subseteq created /\ redecided \cup gone \subseteq redecided'
        /\ \A x \in Campaigns : x \notin gone => campaign'[x] = campaign[x] /\ cached'[x] \in {None, cached[x]}
    BY <1>2 DEF ResetCache, vars, tatum
  <2> HIDE DEF gone
  <2> QED
    BY <2>1, ResetAccounted
<1> QED
  BY <1>1, <1>2, CreationAccounted, AuditAccounted, DecisionAccounted DEF Next

\* A campaign that was decided on once and without a failure holds the blockage its row
\* refers to while it is approved and not audited, and nothing otherwise, whatever
\* copies the decision worked on and whatever happened to the caches meanwhile
\* (CampaignController 742-763, auditFunctions 54).
THEOREM BlockagesAreAccounted == Spec => []BlockageAccounted
BY CleanIsAccounted, ApprovalInit, ApprovalNext, AccountInit, AccountNext, PTL DEF Spec

=============================================================================
