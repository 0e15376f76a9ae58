--------------------------- MODULE CoiinPurchases ---------------------------
(***************************************************************************)
(* Organisations buy coiin with a card (StripeController).  The purchase   *)
(* writes a transfer of dollars and charges the card; Stripe tells the     *)
(* outcome in a webhook, which it repeats until it is answered and may     *)
(* deliver twice.  The webhook moves the coiin out of Raiinmaker's account *)
(* if that holds more, and writes two transfers which are PENDING if not:  *)
(* then the settling job of CoiinRewards pays them.                        *)
(*                                                                         *)
(* A purchase is worth one coin.  The dollars booked to Raiinmaker are     *)
(* left out: nothing reads that row.                                       *)
(***************************************************************************)
EXTENDS CoiinRewards, FiniteSetsExt

CONSTANTS
    Webhooks,       \* deliveries that may be handled together
    Scenarios       \* bounds: purchases, deliveries of each, requests for rewards,
                    \* transfers and webhooks that fail

ASSUME PurchaseAssumption ==
    /\ IsFiniteSet(Webhooks)
    /\ Scenarios \subseteq [purchases : Nat, deliveries : Nat, requests : SUBSET Requests,
                            transfers : 0..MaxTransfers, failures : 0..MaxFailures]

VARIABLES
    purchase,   \* the transfers of dollars, with what became of the charge and the coiin
    webhook,    \* the deliveries under way
    scenario

purchaseVars == <<purchase, webhook, scenario>>

\* deliveries, unrecorded (coins moved without a transfer) and credits (the transfers that
\* credit the buyer) are history.
NewPurchase == [status |-> "PENDING", card |-> "open", deliveries |-> 0, unrecorded |-> 0, credits |-> {}]
NoWebhook == [pc |-> "rest", of |-> 0, moved |-> FALSE]

PurchaseInit ==
    /\ Init
    /\ purchase = << >>
    /\ webhook = [w \in Webhooks |-> NoWebhook]
    /\ scenario \in Scenarios

Handle(w, local) == webhook' = [webhook EXCEPT ![w] = local]
HandleNext(w, label) == Handle(w, [webhook[w] EXCEPT !.pc = label])
WebhookAt(w, label) == webhook[w].pc = label
Of(w) == webhook[w].of

-----------------------------------------------------------------------------
PurchaseCoiin ==
    /\ Len(purchase) < scenario.purchases
    /\ purchase' = Append(purchase, NewPurchase)
    /\ UNCHANGED <<vars, webhook, scenario>>

\* The card is charged at once or declined; a request that dies before never charges it.
ChargePaymentMethod(p) ==
    /\ purchase[p].card = "open"
    /\ \E outcome \in {"paid", "declined"} : purchase' = [purchase EXCEPT ![p].card = outcome]
    /\ UNCHANGED <<vars, webhook, scenario>>

\* Stripe sends the event, again if it was not answered, or twice.
StripeWebhook(w) ==
    /\ WebhookAt(w, "rest")
    /\ \E p \in DOMAIN purchase :
          /\ purchase[p].card # "open" /\ purchase[p].deliveries < scenario.deliveries
          /\ purchase' = [purchase EXCEPT ![p].deliveries = @ + 1]
          /\ Handle(w, [NoWebhook EXCEPT !.pc = "status", !.of = p])
    /\ UNCHANGED <<vars, scenario>>

\* The status that the transfer had is not looked at.
UpdateTransferStatus(w) ==
    LET p == Of(w)
    IN  /\ WebhookAt(w, "status")
        /\ \/ /\ purchase[p].card = "paid"
              /\ purchase' = [purchase EXCEPT ![p].status = "SUCCEEDED"]
              /\ HandleNext(w, "balance")
           \/ /\ purchase[p].card = "declined"
              /\ purchase' = [purchase EXCEPT ![p].status = "FAILED"]
              /\ Handle(w, NoWebhook)
        /\ UNCHANGED <<vars, scenario>>

CheckBalance(w) ==
    /\ WebhookAt(w, "balance")
    /\ HandleNext(w, IF funds > 1 THEN "pay" ELSE "credit")
    /\ UNCHANGED <<vars, purchase, scenario>>

\* Tatum refuses what the account does not hold any more, and the webhook throws.
TransferFunds(w) ==
    /\ WebhookAt(w, "pay")
    /\ \/ /\ funds > 0
          /\ funds' = funds - 1
          /\ purchase' = [purchase EXCEPT ![Of(w)].unrecorded = @ + 1]
          /\ Handle(w, [webhook[w] EXCEPT !.pc = "credit", !.moved = TRUE])
       \/ /\ funds = 0
          /\ Handle(w, NoWebhook)
          /\ UNCHANGED <<purchase, funds>>
    /\ UNCHANGED <<table, replica, request, job, aborted, others, scenario>>

Purchased(w, to, type, status) ==
    /\ Len(transfer) < scenario.transfers
    /\ transfer' = Append(transfer, NewTransfer(to, "COIIN_PURCHASE", type, status))
    /\ paid' = Append(paid, IF type = "CREDIT" /\ webhook[w].moved THEN 1 ELSE 0)
    /\ UNCHANGED <<replica, request, job, funds, aborted, others, scenario>>

Recorded(w) ==
    purchase' = [purchase EXCEPT ![Of(w)].credits = @ \cup {Len(transfer) + 1},
                                 ![Of(w)].unrecorded = IF webhook[w].moved THEN @ - 1 ELSE @]

\* A transfer that is left to the settling job although the coiin moved.
CreditStillPending(w) ==
    /\ WebhookAt(w, "credit")
    /\ Purchased(w, Org, "CREDIT", "PENDING") /\ Recorded(w)
    /\ HandleNext(w, "debit")

CreditBuyer(w) ==
    /\ WebhookAt(w, "credit")
    /\ Purchased(w, Org, "CREDIT", IF webhook[w].moved THEN "SUCCEEDED" ELSE "PENDING") /\ Recorded(w)
    /\ HandleNext(w, "debit")

DebitRaiinmaker(w) ==
    /\ WebhookAt(w, "debit")
    /\ Purchased(w, Raiinmaker, "DEBIT", IF webhook[w].moved THEN "SUCCEEDED" ELSE "PENDING")
    /\ Handle(w, NoWebhook)
    /\ UNCHANGED purchase

\* A call that rejects, a transfer of dollars that the replica does not show, or a process
\* that dies: the event is not answered.
WebhookFails(w) ==
    /\ ~WebhookAt(w, "rest") /\ failures < scenario.failures
    /\ failures' = failures + 1
    /\ Handle(w, NoWebhook)
    /\ UNCHANGED <<table, replica, request, job, funds, aborted, admin, topUps, purchase, scenario>>

WebhookStep(w) ==
    \/ StripeWebhook(w) \/ UpdateTransferStatus(w) \/ CheckBalance(w) \/ TransferFunds(w)
    \/ CreditBuyer(w) \/ DebitRaiinmaker(w) \/ WebhookFails(w)

-----------------------------------------------------------------------------
\* What goes on in CoiinRewards at the same time, but for an admin's moves.
Besides ==
    /\ Len(transfer') <= scenario.transfers
    /\ UNCHANGED <<purchaseVars, failures>>

PurchaseNext ==
    \/ PurchaseCoiin
    \/ \E p \in DOMAIN purchase : ChargePaymentMethod(p)
    \/ \E w \in Webhooks : WebhookStep(w)
    \/ (Replicate \/ WindowEnds \/ TopUp) /\ Besides
    \/ \E r \in scenario.requests : Reward(r) /\ Besides
    \/ \E j \in Jobs : Settle(j) /\ Besides

PurchaseSpec == PurchaseInit /\ [][PurchaseNext]_<<vars, purchaseVars>>

\* As in CoiinRewards: the job and the replica.  Nothing is asked of buyers and of Stripe.
FairPurchaseSpec ==
    /\ PurchaseSpec
    /\ WF_<<vars, purchaseVars>>(Replicate /\ Besides)
    /\ \A j \in Jobs : WF_<<vars, purchaseVars>>(Settle(j) /\ Besides)

-----------------------------------------------------------------------------
\* However the webhook and the settling job meet and wherever a call fails, the buyer is
\* credited no more often than Stripe delivered the event, and never unless the card paid.
Received(p) == purchase[p].unrecorded + MapThenSumSet(LAMBDA i : paid[i], purchase[p].credits)
CreditedPerDelivery ==
    \A p \in DOMAIN purchase :
        Received(p) <= IF purchase[p].card = "paid" THEN purchase[p].deliveries ELSE 0
=============================================================================
