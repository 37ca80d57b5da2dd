----------------------------- MODULE Allowance -----------------------------
(***************************************************************************)
(* What the daily counter of rate_limit.py promises, with no requests, no  *)
(* tables and no cache: a subject spends at most Limit units a day, units  *)
(* are spent and given back on the current day only, and the counters of   *)
(* past days never change again.                                           *)
(***************************************************************************)
EXTENDS Integers

CONSTANTS Subjects, LastDay, Limit

VARIABLES spent, today

vars == <<spent, today>>
Days == 1..LastDay

TypeOK ==
  /\ spent \in [Subjects -> [Days -> 0..Limit]]
  /\ today \in Days

Init ==
  /\ spent = [s \in Subjects |-> [d \in Days |-> 0]]
  /\ today = 1

Spend(s) ==
  /\ spent[s][today] < Limit
  /\ spent' = [spent EXCEPT ![s][today] = @ + 1]
  /\ today' = today

GiveBack(s) ==
  /\ spent[s][today] > 0
  /\ spent' = [spent EXCEPT ![s][today] = @ - 1]
  /\ today' = today

Midnight ==
  /\ today < LastDay
  /\ today' = today + 1
  /\ spent' = spent

Next == (\E s \in Subjects : Spend(s) \/ GiveBack(s)) \/ Midnight

Spec == Init /\ [][Next]_vars
=============================================================================
