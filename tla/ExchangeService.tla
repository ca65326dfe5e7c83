-------------------------- MODULE ExchangeService --------------------------
(* currency-exchange-service: a rate for each currency, which Seed writes when *)
(* a replica starts.  Ids stand for currencies; the result of a conversion is  *)
(* the pair of rates it is computed from.                                      *)
EXTENDS Rows

PerUSD == 1

Rates == [perUSD : {PerUSD}]

Request(r) ==
    \/ Routes(r, {"list"}, {})
    \/ \E u \in Customers, from, to \in Ids : Receive(r, "from", u, from, [to |-> to])

\* The same rates each time, one upsert after the other.
Seed ==
    /\ \E code \in Ids : rows' = Put(code, [perUSD |-> PerUSD])
    /\ UNCHANGED <<service, outside, call>>

\* Get of both rates.
Convert(r) ==
    \/ /\ At(r, "from")
       /\ IF Exists(Key(r))
          THEN call' = [call EXCEPT ![r].pc = "to", ![r].key = Row(r).to, ![r].row = rows[Key(r)]]
          ELSE Refuse(r)
       /\ Same
    \/ /\ At(r, "to")
       /\ IF Exists(Key(r)) THEN Answer(r, {<<Row(r), rows[Key(r)]>>}) ELSE Refuse(r)
       /\ Same

\* Every call of the repository.
Repository(r) ==
    \/ Convert(r)
    \/ At(r, "list") /\ Select(r, Anyone)

Next(r) == Request(r) \/ Repository(r) \/ Seed
=============================================================================
