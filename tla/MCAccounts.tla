----------------------------- MODULE MCAccounts -----------------------------
(***************************************************************************)
(* An ordinary account and one of before e-mails were asked for, whose     *)
(* address is in its profile only.                                         *)
(***************************************************************************)
EXTENDS Accounts, TLC

CONSTANTS mail1, mail2, ann, bob

\* Without the kinds whose steps are all taken by another kind.
SomeKinds == (Public \cup Authenticated) \ {"serve", "askAdmin", "delete"}

Ordinary == [email |-> mail1, salt |-> mail1, profileEmail |-> None, name |-> ann, active |-> TRUE,
             deleted |-> FALSE, parts |-> Parts, origin |-> "before", own |-> {mail1}]
WithoutEmail == [email |-> None, salt |-> None, profileEmail |-> mail2, name |-> bob, active |-> TRUE,
                 deleted |-> FALSE, parts |-> Parts, origin |-> "before", own |-> {mail2}]
Populations == {<<Ordinary>>, <<WithoutEmail>>}

Symmetry == Permutations(Requests)
=============================================================================
