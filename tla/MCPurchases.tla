---------------------------- MODULE MCPurchases ----------------------------
(***************************************************************************)
(* Two scenarios: two requests for rewards that overlap, or a purchase     *)
(* whose event is delivered three times with two webhooks that fail. Pages *)
(* of one transfer, a limit of one of each kind of reward.                 *)
(***************************************************************************)
EXTENDS CoiinPurchases, TLC

CONSTANTS r1, r2

Limits == [a \in Rewards |-> 1]
SomeScenarios == {
    [purchases |-> 0, deliveries |-> 0, requests |-> {r1, r2}, transfers |-> 3, failures |-> 0],
    [purchases |-> 1, deliveries |-> 3, requests |-> {}, transfers |-> 4, failures |-> 2]}
=============================================================================
