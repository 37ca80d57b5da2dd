------------------------------- MODULE MCSync -------------------------------
(* Small instances of Sync for TLC. *)
EXTENDS Sync, TLC

CONSTANTS u1, u2, i1, i2, i3, a1, a2, t1, t2, t3, desc, amt, r1, r2, r3

Mv(d, a) == desc :> d @@ amt :> a
Tx(t, d, a) == [tid |-> t, mv |-> Mv(d, a)]

(* One field is enough where only the identity of a movement matters.      *)
Mv1(d) == desc :> d
Tx1(t, d) == [tid |-> t, mv |-> Mv1(d)]

(* Who Pluggy says owns each item. *)
OwnerOne == [i \in Items |-> u1]

OneAccount == [i \in Items |-> <<a1>>]
BigAndEmptyBanks == [i \in Items |-> IF i = i1 THEN <<a1, a2>> ELSE <<>>]
BankAndEmptyBanks == [i \in Items |-> IF i = i1 THEN <<a1>> ELSE <<>>]
AccountEach == [i \in Items |-> IF i = i1 THEN <<a1>> ELSE <<a2>>]

(* The bank changes t1 and adds t2; the second page overlaps the first.    *)
RacingFeed ==
  [a \in RemoteAccounts |->
     [v \in 1..LastVersion |->
        IF v = 1 THEN <<Tx1(t1, 1)>> ELSE <<Tx1(t1, 2), Tx1(t2, 1), Tx1(t2, 2)>>]]

(* Only a1 lists a transaction.                                            *)
SplitFeed ==
  [a \in RemoteAccounts |->
     [v \in 1..LastVersion |-> IF a = a1 THEN <<Tx1(t1, 1)>> ELSE <<>>]]

(* One transaction a fetch brings back under another id.                   *)
FreshIdFeed ==
  [a \in RemoteAccounts |->
     [v \in 1..LastVersion |-> IF v = 1 THEN <<Tx1(t1, 1)>> ELSE <<Tx1(t2, 1)>>]]

(* The pending t1 settles under another description while a second         *)
(* purchase appears with the description t1 had.                           *)
SettledFeed ==
  [a \in RemoteAccounts |->
     [v \in 1..LastVersion |->
        IF v = 1 THEN <<Tx1(t1, 1)>> ELSE <<Tx1(t1, 2), Tx1(t2, 1)>>]]

(* Two columns, changed one at a time.  The fresh id t3 first repeats the  *)
(* stored t2; later it is new, and listed before t1 takes its movement.    *)
SerialFeed ==
  [a \in RemoteAccounts |->
     [v \in 1..LastVersion |->
        CASE a = a2 /\ v = 1 -> <<Tx(t1, 1, 1)>>
          [] a = a2 /\ v # 1 -> <<Tx(t1, 1, 2)>>
          [] a # a2 /\ v = 1 -> <<Tx(t1, 1, 1), Tx(t2, 1, 2), Tx(t2, 2, 2)>>
          [] a # a2 /\ v = 2 -> <<Tx(t2, 1, 2), Tx(t3, 1, 2), Tx(t1, 2, 1)>>
          [] OTHER -> <<Tx(t3, 2, 2), Tx(t1, 2, 2)>>]]

(* Two kinds of behaviour in one state space (a bound): one link of the    *)
(* bank with an account, or any links of the empty ones.                   *)
Asked == {req[r].item : r \in Requests} \ {None}
Held == {c.item : c \in connections}
OneLink ==
  linked + Cardinality({r \in Requests : req[r].pc \in {"quota", "claim"}}) <= 1
Apart == (Asked \cup Held \subseteq {i1} /\ OneLink) \/ i1 \notin Asked \cup Held
OverlapSpec == Init /\ [][Next /\ Apart']_vars /\ Fairness

SlotSymmetry == Permutations(Requests)
=============================================================================
