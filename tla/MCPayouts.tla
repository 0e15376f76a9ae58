----------------------------- MODULE MCPayouts -----------------------------
(***************************************************************************)
(* Five scenarios.  Of an identified user with an account of six, two      *)
(* requests for three coins each, one of the three being the fee, with two *)
(* failures or with a third withdrawal.  Of a new user, three applications *)
(* in which two registrations or webhooks may meet once, three of which    *)
(* one is subject to webhooks that say what Acuant does not, and two with  *)
(* both; then one withdrawal without a failure.                            *)
(***************************************************************************)
EXTENDS Payouts, TLC

CONSTANTS r1, r2

Withdraws(requests, most, failing) ==
    [applications |-> 0, overlaps |-> 0, unfounded |-> 0,
     withdraws |-> requests, withdrawals |-> most, failures |-> failing]

Registers(applications, overlapped, bogus) ==
    [applications |-> applications, overlaps |-> overlapped, unfounded |-> bogus,
     withdraws |-> {r1}, withdrawals |-> 1, failures |-> 0]

SomeScenarios == {
    Withdraws({r1, r2}, 2, 2), Withdraws({r1, r2}, 3, 0),
    Registers(3, 1, 0), Registers(3, 0, 1), Registers(2, 1, 1)}
=============================================================================
