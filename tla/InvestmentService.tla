------------------------- MODULE InvestmentService -------------------------
(* investment-service over Postgres: the units an owner holds of a symbol, by *)
(* owner and symbol.  The code computes exactly and the column rounds.  The   *)
(* average price is left out.  Ids stand for symbols.                         *)
EXTENDS Rows, Decimals

\* What the column can hold: no units too, after a purchase or a remainder below half
\* a step.
Holdings == [owner : Customers, units : {n \in Nat : Whole(n, Unit)}]

Request(r) ==
    \E u \in Customers :
        \/ Receive(r, "portfolio", u, None, None)
        \/ \E op \in {"buy", "sell"}, symbol \in Ids, n \in Asked :
              Receive(r, op, u, <<u, symbol>>, [units |-> n])

Holding(r, n) == [owner |-> User(r), units |-> n]

\* MaxCount bounds the holding.
Buy(r) ==
    LET held == IF Exists(Key(r)) THEN rows[Key(r)].units ELSE 0
    IN  /\ At(r, "buy")
        /\ held + Row(r).units <= Unit * MaxCount
        /\ Goto(r, "upsert", Holding(r, held + Row(r).units))
        /\ Same

\* Bug variant of Enough: any holding will do.
EnoughIfHeld(r) == Exists(Key(r))

Enough(r) == Exists(Key(r)) /\ Row(r).units <= rows[Key(r)].units
Left(r) == rows[Key(r)].units - Row(r).units

\* Selling exactly what there is deletes the row.
Sell(r) ==
    /\ At(r, "sell")
    /\ \/ ~Enough(r) /\ Refuse(r)
       \/ Enough(r) /\ Left(r) # 0 /\ Goto(r, "upsert", Holding(r, Left(r)))
       \/ Enough(r) /\ Left(r) = 0 /\ Goto(r, "delete", None)
    /\ Same

\* The statement rounds; the answer is the holding as it was computed.
UpsertHolding(r) ==
    /\ At(r, "upsert")
    /\ rows' = Put(Key(r), Holding(r, Stored(Row(r).units, Unit)))
    /\ Answer(r, {Row(r)})
    /\ OnlyRows

\* Every call of the repository.
Repository(r) ==
    \/ Buy(r) \/ Sell(r)
    \/ UpsertHolding(r)
    \/ At(r, "delete") /\ Delete(r)
    \/ At(r, "portfolio") /\ SelectOwn(r)

Next(r) == Request(r) \/ Repository(r)
=============================================================================
