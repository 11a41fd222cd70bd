------------------------------- MODULE MCAccounts -------------------------------
(* A small instance of Accounts: the updates of an address, a demotion, a      *)
(* deactivation and one that carries two fields.                              *)
EXTENDS Accounts, TLC

CONSTANTS e1, e2

MCEmail == {e1, e2}

MCChange ==
  { "email" :> e2,
    "role" :> "user",
    "active" :> FALSE,
    ("email" :> e1) @@ ("active" :> TRUE) }
================================================================================
