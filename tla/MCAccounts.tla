----------------------------- MODULE MCAccounts -----------------------------
(* Instances of Accounts for model checking.                               *)
EXTENDS Accounts, TLC

CONSTANTS e1, e2, i1, i2, a1, r1, r2

(* Emails, identities and requests are interchangeable.                    *)
Alike == Permutations(Emails) \cup Permutations(Identities) \cup Permutations(Requests)
=============================================================================
