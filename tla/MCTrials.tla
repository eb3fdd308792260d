------------------------------ MODULE MCTrials ------------------------------
(* Constants of the TLC instance of Trials: what each interaction asks and *)
(* which of the bounds each scenario leaves.                               *)
EXTENDS Trials, TLC

CONSTANTS u1, grant, extend, revoke, until, open, close, reopen

Asks(op, u, n) == [op |-> op, user |-> u, amount |-> n]
PayloadOf == [i \in Interactions |->
    CASE i = grant  -> Asks("grant", u1, 2)
      [] i = until  -> Asks("until", u1, 3)
      [] i = extend -> Asks("extend", u1, 2)
      [] i = revoke -> Asks("revoke", u1, 0)
      [] i = open   -> Asks("open", u1, 0)
      [] i = close  -> Asks("close", u1, 0)
      [] i = reopen -> Asks("open", u1, 0)]

Left(deliveries) == [i \in Interactions |-> MAX_DELIVERIES - deliveries[i]]
Commands == {grant, until, extend, revoke}
(* Commands about a member, delivered twice in any order.                  *)
Repeated == [now |-> 1, faults |-> MAX_FAULTS, changes |-> MAX_CHANGES,
             delivered |-> Left([i \in Interactions |-> IF i \in Commands THEN 2 ELSE 0])]
(* The offer's commands, while the member comes, pays and goes; a call     *)
(* fails or not.                                                           *)
Offered  == [now |-> 1, faults |-> MAX_FAULTS - 1, changes |-> 0,
             delivered |-> Left([i \in Interactions |-> IF i \in Commands THEN 0 ELSE 1])]
(* A trial is granted and extended while calls fail and the server changes *)
(* once.                                                                   *)
Failing  == [now |-> 2, faults |-> 0, changes |-> 1,
             delivered |-> Left([i \in Interactions |-> IF i \in {grant, extend} THEN 1 ELSE 0])]
Scenarios == {Repeated, Offered, Failing}
=============================================================================
