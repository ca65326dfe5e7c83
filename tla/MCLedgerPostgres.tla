-------------------------- MODULE MCLedgerPostgres --------------------------
(* Small postings for the Postgres ledger: opposite transfers that lock the  *)
(* same rows in opposite order, a retry under a fresh id, an id used again,   *)
(* amounts that are not whole cents.                                         *)
EXTENDS LedgerPostgres, TLC

CONSTANTS alice, bob, cash

MCAccounts == {alice, bob, cash}

Debit(a, n) == [account |-> a, direction |-> "DEBIT", amount |-> n]
Credit(a, n) == [account |-> a, direction |-> "CREDIT", amount |-> n]

Posting(id, key, entries) ==
    [id |-> id, canonical |-> TRUE, key |-> key, entries |-> entries]

\* Two units make a cent: an odd amount is rounded by the balance it is added to.
There == Posting(1, "there", <<Debit(alice, 1), Credit(bob, 1)>>)
ThereAgain == [There EXCEPT !.id = 2]
Back == Posting(3, "back", <<Debit(bob, 3), Credit(alice, 3)>>)
Deposit == Posting(4, "deposit", <<Debit(cash, 6), Credit(alice, 6)>>)
Withdraw == Posting(5, "withdraw", <<Debit(bob, 2), Credit(cash, 2)>>)
\* the same request again with its id in upper case
BackUpper == [Back EXCEPT !.canonical = FALSE]
\* an id that is taken, under another key
IdTaken == Posting(3, "other", <<Debit(cash, 2), Credit(bob, 2)>>)
\* one row updated twice, rounded each time
Split == Posting(6, "split", <<Debit(cash, 4), Credit(bob, 1), Credit(alice, 2), Credit(bob, 1)>>)
Unbalanced == Posting(7, "unbalanced", <<Debit(alice, 4), Credit(bob, 2)>>)

\* Every caller takes a fresh id, as the services do; three rows, three writers.
OwnIds == {There, ThereAgain, Withdraw, Deposit, Split, Unbalanced}
\* Ids chosen by the caller, as the REST endpoint allows.
CallerIds == {There, Back, BackUpper, IdTaken}

SessionSymmetry == Permutations(Sessions)
=============================================================================
