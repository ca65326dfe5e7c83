---------------------------- MODULE MoneyMovement ----------------------------
(***************************************************************************)
(* What a service that moves money promises for one idempotency key: money *)
(* moves at most once, and the movement is recorded at most once and never *)
(* before the money has moved.  Attempts carry the same key when they are  *)
(* retries of one request; which attempt moves the money and which one     *)
(* records it is left open.                                                *)
(***************************************************************************)
CONSTANTS
    Keys,
    Attempts

VARIABLES
    moved,      \* [key, by]: the attempt that moved the money of a key
    recorded    \* [key, by]: the attempt whose record stands for a key

vars == <<moved, recorded>>

HasKey(S, k) == \E m \in S : m.key = k

Init == moved = {} /\ recorded = {}

Move(k, a) ==
    /\ ~HasKey(moved, k)
    /\ moved' = moved \cup {[key |-> k, by |-> a]}
    /\ UNCHANGED recorded

Record(k, a) ==
    /\ HasKey(moved, k)
    /\ ~HasKey(recorded, k)
    /\ recorded' = recorded \cup {[key |-> k, by |-> a]}
    /\ UNCHANGED moved

Next == \E k \in Keys, a \in Attempts : Move(k, a) \/ Record(k, a)

Spec == Init /\ [][Next]_vars
=============================================================================
