-------------------------- MODULE CampaignApproval --------------------------
(***************************************************************************)
(* A campaign from its creation to the audit: admins of the platform       *)
(* approve or deny it (CampaignController.updatePendingCampaignStatus),    *)
(* and an approval blocks the campaign's budget on the organisation's      *)
(* account in Tatum.  The id of the blockage is stored with the campaign:  *)
(* it is all the audit has to release the money again.                     *)
(*                                                                         *)
(* The decision works on a campaign that may come from a cache that a      *)
(* decision does not reset, it writes the status and the blockage id of    *)
(* that copy back, and it never asks which status the campaign has.        *)
(* Several decisions may overlap and any awaited call may reject.          *)
(***************************************************************************)
EXTENDS Naturals, FiniteSets, Sequences

CONSTANTS
    Campaigns,
    Raffles,        \* those of type "raffle": nothing is blocked for them
    Coiin,          \* those whose symbol is "coiin"
    Budget,         \* coiinTotal of each campaign
    Funds,          \* what the organisation's account holds at first
    Decisions,      \* requests that may be under way together
    None,           \* no campaign, no blockage id
    MaxDecisions,   \* bound on decisions
    MaxFailures     \* bound on calls that reject

Statuses == {"PENDING", "APPROVED", "DENIED", "INSUFFICIENT_FUNDS"}
Blocking == Campaigns \ Raffles     \* campaigns whose approval blocks money
Record == [status : Statuses, blockageId : Nat \cup {None}]

ASSUME ApprovalAssumption ==
    /\ IsFiniteSet(Campaigns)
    /\ Raffles \subseteq Campaigns /\ Coiin \subseteq Campaigns
    /\ Budget \in [Campaigns -> Nat \ {0}]
    /\ Funds \in Nat /\ MaxDecisions \in Nat /\ MaxFailures \in Nat
    /\ None \notin Nat /\ None \notin Campaigns /\ None \notin Record

VARIABLES
    campaign,   \* the campaign rows, None if there is none
    cached,     \* the campaigns as findCampaignById(id, {org, currency}) cached them
    available,  \* what the organisation's account can spend
    blockage,   \* the blockages Tatum made, in order: for which campaign, "held" or "released"
    decision,   \* the requests under way
    \* -- history
    redecided,  \* campaigns decided on more than once, deleted, or with a failed decision
    created,    \* campaigns that were created
    \* -- bounds
    decisions, failures

tatum == <<available, blockage>>
vars == <<campaign, cached, tatum, decision, redecided, created, decisions, failures>>

NewCampaign == [status |-> "PENDING", blockageId |-> None]
Rest == [pc |-> "rest", c |-> None, verdict |-> "DENIED", copy |-> NewCampaign]

Init ==
    /\ campaign = [c \in Campaigns |-> None]
    /\ cached = [c \in Campaigns |-> None]
    /\ available = Funds
    /\ blockage = << >>
    /\ decision = [d \in Decisions |-> Rest]
    /\ redecided = {}
    /\ created = {}
    /\ decisions = 0
    /\ failures = 0

At(d, label) == decision[d].pc = label
On(d, c) == decision[d].c = c
Become(d, local) == decision' = [decision EXCEPT ![d] = local]
Goto(d, label) == Become(d, [decision[d] EXCEPT !.pc = label])
Blockage(c) == [for |-> c, state |-> "held"]
Holds(c) == {i \in DOMAIN blockage : blockage[i] = Blockage(c)}
Decided(c) == campaign[c] # None /\ campaign[c].status # "PENDING"

-----------------------------------------------------------------------------
\* createCampaign drops the cached campaigns and inserts the row.
CreateCampaign(c) ==
    /\ c \notin created
    /\ campaign' = [campaign EXCEPT ![c] = NewCampaign]
    /\ cached' = [x \in Campaigns |-> None]
    /\ created' = created \cup {c}
    /\ UNCHANGED <<tatum, decision, redecided, decisions, failures>>

\* deleteCampaign removes the row, whatever its status, and releases no blockage.  The
\* cache is reset first: a read in between puts the campaign back into it.
DeleteCampaign(c) ==
    /\ campaign[c] # None
    /\ campaign' = [campaign EXCEPT ![c] = None]
    /\ \/ cached' = [x \in Campaigns |-> None]
       \/ cached' = [x \in Campaigns |-> IF x = c THEN campaign[c] ELSE None]
    /\ redecided' = redecided \cup {c}
    /\ UNCHANGED <<tatum, decision, created, decisions, failures>>

\* The time to live ends, or an admin changes some campaign.
ResetCache ==
    /\ cached' = [x \in Campaigns |-> None]
    /\ UNCHANGED <<campaign, tatum, decision, redecided, created, decisions, failures>>

\* A decision comes in.  It is the first for its campaign if the row is PENDING and
\* no other one is under way.
ReceiveDecision(d) ==
    /\ At(d, "rest")
    /\ decisions < MaxDecisions
    /\ decisions' = decisions + 1
    /\ \E c \in created, verdict \in {"APPROVED", "DENIED"} :
          /\ Become(d, [pc |-> "read", c |-> c, verdict |-> verdict, copy |-> NewCampaign])
          /\ redecided' = IF Decided(c) \/ \E e \in Decisions : On(e, c)
                          THEN redecided \cup {c} ELSE redecided
    /\ UNCHANGED <<campaign, cached, tatum, created, failures>>

AfterRead(d, copy) == Become(d, [decision[d] EXCEPT !.pc = "decide", !.copy = copy])

\* A cache whose key leaves out the arguments returns any campaign.
ReadCachedOfAny(d) ==
    /\ At(d, "read")
    /\ \E c \in Campaigns : cached[c] # None /\ AfterRead(d, cached[c])
    /\ UNCHANGED <<campaign, cached, tatum, redecided, created, decisions, failures>>

ReadCached(d) ==
    /\ At(d, "read")
    /\ cached[decision[d].c] # None
    /\ AfterRead(d, cached[decision[d].c])
    /\ UNCHANGED <<campaign, cached, tatum, redecided, created, decisions, failures>>

\* A campaign that is not cached is read and goes into the cache.
ReadCampaign(d) ==
    LET c == decision[d].c
    IN  /\ At(d, "read")
        /\ cached[c] = None /\ campaign[c] # None
        /\ AfterRead(d, campaign[c])
        /\ cached' = [cached EXCEPT ![c] = campaign[c]]
        /\ UNCHANGED <<campaign, tatum, redecided, created, decisions, failures>>

\* A raffle is approved, and anything denied, without a look at the account.
DecideWithoutFunds(d) ==
    LET l == decision[d]
    IN  /\ At(d, "decide")
        /\ l.verdict = "DENIED" \/ l.c \in Raffles
        /\ Become(d, [l EXCEPT !.pc = "write", !.copy.status = l.verdict])
        /\ UNCHANGED <<campaign, cached, tatum, redecided, created, decisions, failures>>

\* A balance check that still marks the campaign approved when the funds are short.
CheckBalanceApprovingAll(d) ==
    LET l == decision[d]
    IN  /\ At(d, "decide")
        /\ l.verdict = "APPROVED" /\ l.c \notin Raffles
        /\ Become(d, IF available < Budget[l.c]
                     THEN [l EXCEPT !.pc = "write", !.copy.status = "APPROVED"]
                     ELSE [l EXCEPT !.pc = "block", !.copy.status = "APPROVED"])
        /\ UNCHANGED <<campaign, cached, tatum, redecided, created, decisions, failures>>

CheckBalance(d) ==
    LET l == decision[d]
    IN  /\ At(d, "decide")
        /\ l.verdict = "APPROVED" /\ l.c \notin Raffles
        /\ Become(d, IF available < Budget[l.c]
                     THEN [l EXCEPT !.pc = "write", !.copy.status = "INSUFFICIENT_FUNDS"]
                     ELSE [l EXCEPT !.pc = "block", !.copy.status = "APPROVED"])
        /\ UNCHANGED <<campaign, cached, tatum, redecided, created, decisions, failures>>

\* Tatum blocks what is available; otherwise the call rejects (see Reject).  The id
\* is kept unless the symbol is "coiin".
BlockCampaignAmount(d) ==
    LET l == decision[d]
    IN  /\ At(d, "block")
        /\ available >= Budget[l.c]
        /\ available' = available - Budget[l.c]
        /\ blockage' = Append(blockage, Blockage(l.c))
        /\ Become(d, [l EXCEPT !.pc = "write",
                               !.copy.blockageId = IF l.c \in Coiin THEN @ ELSE Len(blockage) + 1])
        /\ UNCHANGED <<campaign, cached, redecided, created, decisions, failures>>

\* An update that leaves the blockage id as it is in the row.
UpdateStatusOnly(d) ==
    LET l == decision[d]
    IN  /\ At(d, "write")
        /\ campaign[l.c] # None
        /\ campaign' = [campaign EXCEPT ![l.c].status = l.copy.status]
        /\ Become(d, Rest)
        /\ UNCHANGED <<cached, tatum, redecided, created, decisions, failures>>

\* Status and blockage id of the copy are written, and the cache is not reset.
AdminUpdateCampaignStatus(d) ==
    LET l == decision[d]
    IN  /\ At(d, "write")
        /\ campaign[l.c] # None
        /\ campaign' = [campaign EXCEPT ![l.c] = l.copy]
        /\ Become(d, Rest)
        /\ UNCHANGED <<cached, tatum, redecided, created, decisions, failures>>

\* A call rejects or its process dies: at any step; but also when the row is gone (to
\* block, the campaign is read once more, from another cache) or the funds are.
Reject(d) ==
    LET l == decision[d]
    IN  /\ ~At(d, "rest")
        /\ \/ /\ \/ At(d, "read") /\ campaign[l.c] = None /\ cached[l.c] = None
                 \/ At(d, "write") /\ campaign[l.c] = None
                 \/ At(d, "block") /\ (campaign[l.c] = None \/ available < Budget[l.c])
              /\ UNCHANGED failures
           \/ failures < MaxFailures /\ failures' = failures + 1
        /\ Become(d, Rest)
        /\ redecided' = redecided \cup {l.c}
        /\ UNCHANGED <<campaign, cached, tatum, created, decisions>>

\* What the audit does first (see CampaignAudit): it releases the stored blockage, and
\* pays out some of the money.
Audit(c) ==
    LET i == campaign[c].blockageId
    IN  /\ campaign[c] # None
        /\ campaign[c].status = "APPROVED" /\ i # None
        /\ blockage[i].state = "held"
        /\ blockage' = [blockage EXCEPT ![i].state = "released"]
        /\ available' \in {available, available + Budget[c]}
        /\ UNCHANGED <<campaign, cached, decision, redecided, created, decisions, failures>>

Decide(d) ==
    \/ ReceiveDecision(d) \/ ReadCached(d) \/ ReadCampaign(d)
    \/ DecideWithoutFunds(d) \/ CheckBalance(d) \/ BlockCampaignAmount(d)
    \/ AdminUpdateCampaignStatus(d) \/ Reject(d)

Next ==
    \/ ResetCache
    \/ \E c \in Campaigns : CreateCampaign(c) \/ DeleteCampaign(c) \/ Audit(c)
    \/ \E d \in Decisions : Decide(d)

Spec == Init /\ [][Next]_vars

-----------------------------------------------------------------------------
(* Properties *)

Local == [pc : {"rest", "read", "decide", "block", "write"}, c : Campaigns \cup {None},
          verdict : {"APPROVED", "DENIED"}, copy : Record]

\* The id that is stored in a copy of a campaign is one Tatum gave for it.
IdOf(rec, c) ==
    rec.blockageId # None =>
        rec.blockageId \in DOMAIN blockage /\ blockage[rec.blockageId].for = c

\* Types; every id that is stored, cached or about to be stored is one Tatum gave for
\* that very campaign.
TypeOK ==
    /\ campaign \in [Campaigns -> Record \cup {None}]
    /\ cached \in [Campaigns -> Record \cup {None}]
    /\ available \in Nat
    /\ blockage \in Seq([for : Campaigns, state : {"held", "released"}])
    /\ decision \in [Decisions -> Local]
    /\ redecided \subseteq Campaigns /\ created \subseteq Campaigns
    /\ \A c \in Campaigns : \A rec \in {campaign[c], cached[c]} \ {None} : IdOf(rec, c)
    /\ \A d \in Decisions :
          ~At(d, "rest") => decision[d].c \in Campaigns /\ IdOf(decision[d].copy, decision[d].c)

\* An approved campaign for which money is blocked knows the id the audit needs,
\* whatever decisions overlapped and however stale the copies were
\* (CampaignController 752, auditFunctions 54).
ApprovedIsBlocked ==
    \A c \in Blocking \ Coiin :
        campaign[c] # None /\ campaign[c].status = "APPROVED" => campaign[c].blockageId # None

\* A campaign that was decided on once and without a failure holds exactly what its
\* status says: the blockage that is stored while it is approved and not audited,
\* nothing otherwise.  A second decision, a failure after the money was blocked and a
\* deletion each leave money blocked that nothing refers to.
BlockageAccounted ==
    \A c \in created \ (redecided \cup Coiin) :
        (\A d \in Decisions : ~On(d, c)) =>
            Holds(c) = IF campaign[c].status = "APPROVED" /\ c \in Blocking
                       THEN {i \in {campaign[c].blockageId} \ {None} : blockage[i].state = "held"}
                       ELSE {}

\* auditFunctions.ts:54: the audit of an approved campaign finds a blockage id.
AuditFindsBlockage ==
    \A c \in Blocking :
        campaign[c] # None /\ campaign[c].status = "APPROVED" => campaign[c].blockageId # None

=============================================================================
