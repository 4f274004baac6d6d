---------------------------- MODULE MCDeployProc ----------------------------
(* Finite instances of DeployProc. *)
EXTENDS DeployProc

System == [name |-> "system", user |-> "root"]
HomeOf(user) == [name |-> "home", user |-> user]

SomeProfiles == { System, HomeOf("other") }

Request(user, select, override, seed, sudo) ==
  [ profiles |-> << System, HomeOf(user) >>, select |-> select, known |-> TRUE,
    override |-> override, seed |-> seed, sudo |-> sudo ]

(* One child without an override and without discovery, a seeded one, one  *)
(* whose override fits nothing, and the split in two with and without      *)
(* sudo passwords.                                                         *)
SomeRequests ==
  { [Request("other", "all", TRUE, FALSE, FALSE) EXCEPT !.known = FALSE],
    Request("other", "all", FALSE, TRUE, FALSE),
    Request("other", "home", TRUE, FALSE, FALSE),
    Request("other", "all", TRUE, FALSE, FALSE),
    Request("other", "all", TRUE, FALSE, TRUE) }

SplitRequest == { Request("other", "all", TRUE, FALSE, FALSE) }
=============================================================================
