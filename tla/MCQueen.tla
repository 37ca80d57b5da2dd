------------------------------ MODULE MCQueen ------------------------------
(* Small instances of Queen for TLC. *)
EXTENDS Queen, TLC

CONSTANTS account, visitor1, visitor2, q1, en, pt, r1, r2, r3

(* Two visitors of one demo account: two counters, one cache. *)
SharedAccount == [s \in Subjects |-> account]
SlotSymmetry == Permutations(Requests)

(* Two kinds of behaviour in one state space (a bound): one visitor and    *)
(* three workers over two days, or two visitors and two workers on the     *)
(* first day while a sync moves the treasury.                              *)
Untouched(s) == usage[s] = [d \in Days |-> NoRow]
OneVisitor ==
  /\ treasury[account] = 1 /\ Untouched(visitor2)
  /\ \A r \in Requests : req[r].subject # visitor2
OneDay == today = 1 /\ \E r \in Requests : req[r].pc = "idle"
RushSpec == Init /\ [][Next /\ (OneVisitor \/ OneDay)']_vars
=============================================================================
