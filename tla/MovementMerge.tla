--------------------------- MODULE MovementMerge ---------------------------
(***************************************************************************)
(* One account, one feed that the bank keeps serving, and the loop of      *)
(* sync_item run over it again and again from any stored rows.  The loop   *)
(* is copied statement by statement as a fold over the feed and compared   *)
(* with the sets of module Movements, which the Sync module uses.          *)
(***************************************************************************)
EXTENDS Movements, SequencesExt

CONSTANTS
  Account,      \* the one account
  MaxFeed,      \* bound: the longest feed
  MaxRounds     \* bound: how often it is synced

ASSUME MergeAssumption == MaxFeed \in Nat /\ MaxRounds \in Nat

VARIABLES stored, feed, round

vars == <<stored, feed, round>>

Rows == Entry({Account})

(* What the database can hold: one row per id.  Two rows may share a       *)
(* movement, since refreshing a stored id does not look at the others.     *)
OneRowPerId(rows) == \A x, y \in rows : x.tid = y.tid => x = y

Init ==
  /\ stored \in {rows \in SUBSET Rows : OneRowPerId(rows)}
  /\ feed \in BoundedSeq(RemoteTx, MaxFeed)
  /\ round = 0

(* One iteration: ids already seen in this fetch are dropped; a known id   *)
(* has its changed columns written and its new movement remembered; an     *)
(* unknown one is kept unless its movement was seen.                       *)
LoopStart(known) ==
  [ids |-> {}, movements |-> {row.mv : row \in known}, writes |-> {}, new |-> {}]

ColumnsOf(tx, row) ==
  {[account |-> Account, tid |-> tx.tid, field |-> f, value |-> tx.mv[f]] :
     f \in {g \in Fields : row.mv[g] # tx.mv[g]}}

(* Bugs in the loop: a repeated id is merged again, a stored row is never  *)
(* refreshed.                                                              *)
RepeatingBody(known, loop, tx) ==
  LET match == {row \in known : row.tid = tx.tid}
  IN  IF match # {}
      THEN [loop EXCEPT !.writes = @ \cup ColumnsOf(tx, CHOOSE x \in match : TRUE)]
      ELSE [loop EXCEPT !.new = @ \cup {[account |-> Account, tid |-> tx.tid,
                                         mv |-> tx.mv]}]

FrozenBody(known, loop, tx) ==
  IF tx.mv \in loop.movements \/ \E row \in known : row.tid = tx.tid THEN loop
  ELSE [loop EXCEPT !.movements = @ \cup {tx.mv},
                    !.new = @ \cup {[account |-> Account, tid |-> tx.tid, mv |-> tx.mv]}]

LoopBody(known, loop, tx) ==
  LET next == [loop EXCEPT !.ids = @ \cup {tx.tid}]
      match == {row \in known : row.tid = tx.tid}
  IN  IF tx.tid \in loop.ids THEN loop
      ELSE IF match # {}
      THEN LET row == CHOOSE x \in match : TRUE
           IN  IF row.mv = tx.mv THEN next
               ELSE [next EXCEPT !.writes = @ \cup ColumnsOf(tx, row),
                                 !.movements = @ \cup {tx.mv}]
      ELSE IF tx.mv \in loop.movements THEN next
      ELSE [next EXCEPT !.movements = @ \cup {tx.mv},
                        !.new = @ \cup {[account |-> Account, tid |-> tx.tid,
                                         mv |-> tx.mv]}]

Loop(known, fetched) ==
  FoldLeft(LAMBDA loop, tx : LoopBody(known, loop, tx), LoopStart(known), fetched)

(* One sync of the account: read, fetch, merge, commit.                    *)
Resync ==
  /\ round < MaxRounds
  /\ round' = round + 1
  /\ LET loop == Loop(stored, feed)
     IN  stored' = RefreshedAll(stored, loop.writes) \cup loop.new
  /\ feed' = feed

Next == Resync
Spec == Init /\ [][Next]_vars

-----------------------------------------------------------------------------
(* The sets the Sync module uses are what the loop computes, whatever is   *)
(* stored and whatever order and repetitions the feed has.                 *)
LoopIsTheSets ==
  LET loop == Loop(stored, feed)
  IN  /\ loop.writes = WritesOf(Account, stored, feed)
      /\ loop.new = NewEntries(Account, stored, feed)

(* One sync can skip a purchase whose movement an updated row just gave    *)
(* up.  A second sync of the same data picks it up: after two, every       *)
(* transaction of the feed is on a stored row.                             *)
TwoSyncsCoverTheFeed ==
  round >= 2 => \A i \in FirstCopies(feed) : \E row \in stored : row.mv = feed[i].mv

(* From the third sync of unchanged data on nothing is written: a repeat   *)
(* sync reports no new transaction and changes no stored one.              *)
ThirdSyncIsQuiet == [][round >= 2 => stored' = stored]_vars
=============================================================================
