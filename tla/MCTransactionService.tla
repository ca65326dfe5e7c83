------------------------ MODULE MCTransactionService ------------------------
(* Two customers who deposit, withdraw and transfer the same small amounts,  *)
(* counted in half cents.                                                    *)
EXTENDS TransactionService

CONSTANTS alice, bob, cash

MCAccounts == {alice, bob, cash}

Request(key, type, from, to, amount) ==
    [key |-> key, type |-> type, from |-> from, to |-> to, amount |-> amount]

Deposit == Request("deposit", "DEPOSIT", cash, alice, 4)
Withdraw == Request("withdraw", "WITHDRAWAL", alice, cash, 4)
Transfer == Request("transfer", "TRANSFER", alice, bob, 3)

AllKinds == {Deposit, Withdraw, Transfer}
OneWithdrawal == {Deposit, Withdraw}

AliceOpen == {alice}
=============================================================================
