--------------------------- MODULE MCMovementMerge ---------------------------
(* Small instances of MovementMerge and of Migrations for TLC, the two     *)
(* places that tell copies from transactions.  They share nothing, so a    *)
(* behaviour has the steps of one of them.                                 *)
EXTENDS MovementMerge, Migrations, TLC

CONSTANTS t1, t2, t3, desc, amt, q1, q2, p1, p2, A, B, w1

Quota(id, key, count) == [id |-> id, key |-> key, count |-> count]
(* Two rows of one key and one of another, and three rows of one key. *)
SomeUsage == {{Quota(1, q1, 1), Quota(2, q2, 2), Quota(3, q1, 2)},
              {Quota(1, q1, 1), Quota(2, q1, 0), Quota(3, q1, 2)}}
Tx(id) == [id : {id}, account : Accounts, pid : Pids, mv : Movements]
UpToThree == {{}} \cup UNION {{{x, y, z} : x \in Tx(1), y \in Tx(2)} : z \in Tx(3)}
IdSymmetry == Permutations(Tids) \cup Permutations(Pids) \cup Permutations(Movements)

Merging == usage = {} /\ txs = {}
Upgrading == stored = {} /\ feed = <<>>
EitherInit ==
  \/ UpgradeInit /\ Merging /\ Init
  \/ Upgrading /\ UpgradeInit /\ Init
EitherNext ==
  \/ Merging /\ Next /\ UNCHANGED upgradeVars
  \/ Upgrading /\ round = 0 /\ UpgradeNext /\ UNCHANGED vars
EitherSpec == EitherInit /\ [][EitherNext]_<<vars, upgradeVars>>
=============================================================================
