----------------------------- MODULE Movements -----------------------------
(***************************************************************************)
(* The merge at the heart of a bank sync: what one fetched feed of one     *)
(* remote account does to the rows already stored for that account.        *)
(* The loop of sync_item is stated here as two sets, the column writes it  *)
(* queues on stored rows and the entries it decides to insert; module      *)
(* MovementMerge checks these sets against a literal copy of the loop.     *)
(*                                                                         *)
(* A movement is the part of a transaction that identifies it when the     *)
(* bank mints a fresh id: description, amount in cents and date.  Amounts  *)
(* are exact cents here.  A feed is a sequence of [tid, mv] records.       *)
(***************************************************************************)
EXTENDS Integers, Sequences

CONSTANTS
  Tids,       \* Pluggy transaction ids
  Fields,     \* the columns a fetch may refresh
  Values      \* the values of those columns

Movement == [Fields -> Values]
RemoteTx == [tid : Tids, mv : Movement]

(* A stored row, and the two things a fetch leaves in the session: a new   *)
(* row that has no category yet, and the assignment of one column.         *)
Entry(Ids) == [account : Ids, tid : Tids, mv : Movement]
Write(Ids) == [account : Ids, tid : Tids, field : Fields, value : Values]

SameKey(x, y) == x.account = y.account /\ x.tid = y.tid

(* Plausible bugs, each kept beside the definition it would change; the    *)
(* runs show that they break a property.                                   *)
LastCopies(feed) ==
  {i \in DOMAIN feed : \A j \in (i + 1)..Len(feed) : feed[j].tid # feed[i].tid}

(* Positions of the first copy of each transaction id in one fetch.        *)
FirstCopies(feed) ==
  {i \in DOMAIN feed : \A j \in 1..(i - 1) : feed[j].tid # feed[i].tid}

(* Column writes on stored rows whose id the feed repeats with new values. *)
WritesOf(account, known, feed) ==
  {w \in Write({account}) :
     \E i \in FirstCopies(feed), row \in known :
        /\ feed[i].tid = w.tid
        /\ row.tid = w.tid
        /\ w.value = feed[i].mv[w.field]
        /\ w.value # row.mv[w.field]}

(* Bug: only the Pluggy id decides whether a transaction is new.           *)
IsNewById(i, known, feed) ==
  \A row \in known : row.tid # feed[i].tid

(* An unknown id is new unless its movement is one the rows held when they *)
(* were read, or one an earlier entry of this fetch already carries.       *)
IsNew(i, known, feed) ==
  /\ \A row \in known : row.tid # feed[i].tid /\ row.mv # feed[i].mv
  /\ \A j \in FirstCopies(feed) : j < i => feed[j].mv # feed[i].mv

NewEntries(account, known, feed) ==
  {[account |-> account, tid |-> feed[i].tid, mv |-> feed[i].mv] :
     i \in {k \in FirstCopies(feed) : IsNew(k, known, feed)}}

(* A row after queued column writes reach it.                              *)
Refreshed(row, writes) ==
  [row EXCEPT !.mv =
     [f \in Fields |->
        IF \E w \in writes : SameKey(w, row) /\ w.field = f
        THEN (CHOOSE w \in writes : SameKey(w, row) /\ w.field = f).value
        ELSE row.mv[f]]]

RefreshedAll(rows, writes) == {Refreshed(row, writes) : row \in rows}
=============================================================================
