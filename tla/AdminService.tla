---------------------------- MODULE AdminService ----------------------------
(* admin-service: settings by key, which staff sets and everyone reads.  Ids  *)
(* stand for keys.                                                            *)
EXTENDS Rows

Values == 1..MaxCount

Settings == [value : Values]

Request(r) ==
    \/ Routes(r, {"list"}, {"get"})
    \/ \E k \in Ids, v \in Values : Receive(r, "set", Staff, k, [value |-> v])

Default == 1

\* A replica that starts upserts every default setting, one after the other, over what
\* staff has set.
Seed ==
    /\ \E k \in Ids : rows' = Put(k, [value |-> Default])
    /\ UNCHANGED <<service, outside, call>>

\* The value answered is read in a second statement: another's, by then.
Set(r) ==
    \/ /\ At(r, "set")
       /\ rows' = Put(Key(r), Row(r))
       /\ Goto(r, "get", None)
       /\ OnlyRows
    \/ At(r, "get") /\ Get(r, Anyone)

\* Every call of the repository.
Repository(r) ==
    \/ Set(r)
    \/ At(r, "list") /\ Select(r, Anyone)

Next(r) == Request(r) \/ Repository(r) \/ Seed
=============================================================================
