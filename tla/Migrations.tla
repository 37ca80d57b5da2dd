----------------------------- MODULE Migrations -----------------------------
(***************************************************************************)
(* The data migrations on Postgres: c7a1b5e0d942 sums duplicate quota rows *)
(* into the oldest one, d4e7a2b81c05 deletes copies of transactions; each  *)
(* then adds its unique key.  `alembic upgrade head` is one transaction of *)
(* several statements, each of which sees what is committed when it runs,  *)
(* while the release before it and syncs go on.                            *)
(*                                                                         *)
(* key names a row of chat_usage or demo_chat_usage by its key columns; mv *)
(* is a description, a cent amount and a date.                             *)
(***************************************************************************)
EXTENDS Integers, FiniteSets, FiniteSetsExt

CONSTANTS
  Keys, Accounts, Pids, Movements,
  Syncs,                \* worker slots
  StoredUsage,          \* sets of quota rows an upgrade may find
  StoredTransactions,   \* sets of transactions it may find
  Units, Inserts        \* bounds: units taken and rows inserted meanwhile

ASSUME MigrationsAssumption ==
  /\ Units \in Nat /\ Inserts \in Nat
  /\ \A S \in StoredUsage : S \subseteq [id : Nat, key : Keys, count : Nat]
  /\ \A S \in StoredTransactions :
       S \subseteq [id : Nat, account : Accounts, pid : Pids, mv : Movements]
  /\ \A S \in StoredUsage \cup StoredTransactions :
       IsFiniteSet(S) /\ \A r, s \in S : r.id = s.id => r = s

VARIABLES
  usage, txs,   \* the tables as committed
  unique,       \* tables that have their unique key
  revision,     \* alembic_version
  up,           \* the upgrade: its step, what it read, and its own writes
  sync,         \* syncs in flight: the account's rows they have read
  taken, lost,  \* history: units taken of a key, and those a merge lost
  touched       \* history: transactions written since the upgrade's SELECT

tables == <<usage, txs, unique, revision>>
upgradeVars == <<tables, up, sync, taken, lost, touched>>

(* seen: rows of the last SELECT; gone: ids deleted; sums: ids and counts  *)
(* updated; late: units taken of a group between its SELECT and its merge. *)
NoUpgrade == [pc |-> "idle", target |-> "none", seen |-> {}, gone |-> {}, sums |-> {},
              late |-> [k \in Keys |-> 0]]
NoSync == [pc |-> "idle", account |-> 0, known |-> {}]
NextId(S) == IF S = {} THEN 1 ELSE Max({r.id : r \in S}) + 1
Oldest(S) == CHOOSE r \in S : \A s \in S : r.id <= s.id
Total(S, k) == MapThenSumSet(LAMBDA r : r.count, {r \in S : r.key = k})

UpgradeInit ==
  /\ \/ usage \in StoredUsage /\ txs = {}
     \/ usage = {} /\ txs \in StoredTransactions
  /\ unique = {} /\ revision = "a6" /\ up = NoUpgrade
  /\ sync = [w \in Syncs |-> NoSync]
  /\ taken = [k \in Keys |-> Total(usage, k)] /\ lost = [k \in Keys |-> 0]
  /\ touched = {}

-----------------------------------------------------------------------------
(* The upgrade, statement by statement.                                    *)
Goes(from, to) == up.pc = from /\ up' = [up EXCEPT !.pc = to]
Elsewhere == <<tables, sync, taken, lost>>

Start ==
  /\ up.pc = "idle" /\ revision # "d4"
  /\ \E target \in {"c7", "d4"} \ {revision} :
       up' = [NoUpgrade EXCEPT !.target = target,
                !.pc = IF revision = "a6" THEN "usage" ELSE "ids"]
  /\ UNCHANGED <<Elsewhere, touched>>

ReadUsage ==
  /\ up.pc = "usage"
  /\ up' = [up EXCEPT !.pc = "merge", !.seen = usage]
  /\ UNCHANGED <<Elsewhere, touched>>

Group(k) == {r \in up.seen : r.key = k}
Duplicated(k) == Cardinality(Group(k)) > 1

(* Bug: the keeper is left with its own count.                             *)
MergeWithoutSum ==
  /\ up.pc = "merge"
  /\ \E k \in Keys :
       /\ Duplicated(k)
       /\ up' = [up EXCEPT !.seen = @ \ Group(k),
            !.gone = @ \cup {r.id : r \in Group(k) \ {Oldest(Group(k))}}]
  /\ UNCHANGED <<Elsewhere, touched>>

(* The sum is that of the rows read; UPDATE and DELETE name them by id.    *)
MergeGroup ==
  /\ up.pc = "merge"
  /\ \E k \in Keys :
       /\ Duplicated(k)
       /\ up' = [up EXCEPT !.seen = @ \ Group(k),
            !.gone = @ \cup {r.id : r \in Group(k) \ {Oldest(Group(k))}},
            !.sums = @ \cup {[id |-> Oldest(Group(k)).id, count |-> Total(Group(k), k)]}]
  /\ UNCHANGED <<Elsewhere, touched>>

(* The usage table as the upgrade sees it and as its commit leaves it.     *)
Merged ==
  {r \in usage : r.id \notin up.gone /\ \A s \in up.sums : s.id # r.id}
  \cup UNION {{[r EXCEPT !.count = s.count] : s \in {x \in up.sums : x.id = r.id}} :
               r \in usage}

(* ADD CONSTRAINT takes the table until the commit; it fails on rows the   *)
(* release before has inserted since the SELECT.                           *)
UniqueUsage ==
  /\ up.pc = "merge" /\ \A k \in Keys : ~Duplicated(k)
  /\ \A r, s \in Merged : r.key = s.key => r = s
  /\ up' = [up EXCEPT !.pc = IF up.target = "c7" THEN "commit" ELSE "ids", !.seen = {}]
  /\ UNCHANGED <<Elsewhere, touched>>

(* The upgrade's quota rows and transactions never meet in one behaviour,  *)
(* so gone serves for both.                                                *)
Left(S) == {r \in S : r.id \notin up.gone}
ExtraIds(S, key) == {r.id : r \in {x \in S : \E k \in S : k.id < x.id /\ key[k] = key[x]}}
PidKey(S) == [r \in S |-> <<r.account, r.pid>>]
SamePid(r, s) == r.account = s.account /\ r.pid = s.pid
(* Bug: the account is left out of the key.                                *)
MovementKeyAnywhere(S) == [r \in S |-> r.mv]
MovementKey(S) == [r \in S |-> <<r.account, r.mv>>]

Deleting == {"delete ids", "delete movements"}

ReadTransactions ==
  /\ up.pc \in {"ids", "movements"}
  /\ up' = [up EXCEPT !.pc = IF @ = "ids" THEN "delete ids" ELSE "delete movements",
                      !.seen = Left(txs)]
  /\ UNCHANGED <<Elsewhere, touched>>

DeleteExtras ==
  /\ \/ /\ up.pc = "delete ids"
        /\ up' = [up EXCEPT !.pc = "movements", !.seen = {},
                            !.gone = @ \cup ExtraIds(up.seen, PidKey(up.seen))]
     \/ /\ up.pc = "delete movements"
        /\ up' = [up EXCEPT !.pc = "lock", !.seen = {},
                            !.gone = @ \cup ExtraIds(up.seen, MovementKey(up.seen))]
  /\ touched' = {}
  /\ UNCHANGED Elsewhere

(* The lock waits for every sync that has read the table.                  *)
UniqueTransactions ==
  /\ up.pc = "lock" /\ \A w \in Syncs : sync[w].pc = "idle"
  /\ \A r, s \in Left(txs) : SamePid(r, s) => r = s
  /\ Goes("lock", "commit")
  /\ UNCHANGED <<Elsewhere, touched>>

Commit ==
  /\ up.pc = "commit"
  /\ usage' = Merged /\ txs' = Left(txs)
  /\ unique' = IF up.target = "d4" THEN {"usage", "txs"} ELSE {"usage"}
  /\ revision' = up.target
  /\ lost' = [k \in Keys |-> lost[k] + up.late[k]]
  /\ up' = NoUpgrade
  /\ UNCHANGED <<sync, taken, touched>>

(* A duplicate the key refuses, a lost connection, a deadlock: the whole   *)
(* upgrade is undone and may be run again.                                 *)
RollBack ==
  /\ up.pc # "idle" /\ up' = NoUpgrade /\ touched' = {}
  /\ UNCHANGED Elsewhere

(* Rows stay merged and copies stay deleted.                               *)
Downgrade ==
  /\ up.pc = "idle" /\ revision # "a6"
  /\ revision' = IF revision = "d4" THEN "c7" ELSE "a6"
  /\ unique' = unique \ {IF revision = "d4" THEN "txs" ELSE "usage"}
  /\ UNCHANGED <<usage, txs, up, sync, taken, lost, touched>>

-----------------------------------------------------------------------------
(* The release before c7a1b5e0d942 adds a unit to a row of its key, or     *)
(* inserts another when two of its requests race.  It waits for rows the   *)
(* upgrade has written and for the table it has taken.                     *)
UsageHeld == up.pc \notin {"idle", "usage", "merge"}
OldReleaseTakes(k) ==
  /\ "usage" \notin unique /\ ~UsageHeld
  /\ usage # {} /\ taken[k] < Units
  /\ \/ \E r \in usage :
          /\ r.key = k /\ r.id \notin up.gone /\ \A s \in up.sums : s.id # r.id
          /\ usage' = (usage \ {r}) \cup {[r EXCEPT !.count = @ + 1]}
          /\ up' = IF up.pc = "merge" /\ Duplicated(k) /\ \E s \in Group(k) : s.id = r.id
                   THEN [up EXCEPT !.late[k] = @ + 1] ELSE up
     \/ /\ usage' = usage \cup {[id |-> NextId(usage), key |-> k, count |-> 1]}
        /\ UNCHANGED up
  /\ taken' = [taken EXCEPT ![k] = @ + 1]
  /\ UNCHANGED <<txs, unique, revision, sync, lost, touched>>

(* A sync of one account, with one entry (a bound), cut down to what it    *)
(* reads and writes of the table.                                          *)
TableTaken == up.pc \in {"lock", "commit"}
ReadKnown(w, a) ==
  /\ sync[w].pc = "idle" /\ ~TableTaken /\ txs # {}
  /\ sync' = [sync EXCEPT ![w] = [pc |-> "read", account |-> a,
                                  known |-> {r \in txs : r.account = a}]]
  /\ UNCHANGED <<tables, up, taken, lost, touched>>

Ends(w) == sync' = [sync EXCEPT ![w] = NoSync]
Writes(S, id) ==
  /\ txs' = S
  /\ touched' = IF up.pc \in Deleting THEN touched \cup {id} ELSE touched
Rewrite(r, mv) == Writes((txs \ {r}) \cup {[r EXCEPT !.mv = mv]}, r.id)
Known(w, pid) == {r \in sync[w].known : r.pid = pid}

(* The oldest row of an id is written when it is there; one the upgrade    *)
(* has deleted but not committed makes the sync wait, one that is gone     *)
(* makes it fail.                                                          *)
Refresh(w, pid, mv) ==
  /\ sync[w].pc = "read" /\ Known(w, pid) # {}
  /\ LET k == Oldest(Known(w, pid))
     IN  /\ k.mv # mv
         /\ \/ k.id \notin up.gone /\ \E r \in txs : r.id = k.id /\ Rewrite(r, mv)
            \/ (\A r \in txs : r.id # k.id) /\ UNCHANGED <<txs, touched>>
  /\ Ends(w)
  /\ UNCHANGED <<usage, unique, revision, up, taken, lost>>

InsertNovel(w, pid, mv) ==
  /\ sync[w].pc = "read" /\ Known(w, pid) = {}
  /\ \A r \in sync[w].known : r.mv # mv
  /\ LET a == sync[w].account
         row == [id |-> NextId(txs), account |-> a, pid |-> pid, mv |-> mv]
         rivals == {r \in txs : SamePid(r, row)}
     IN  IF "txs" \in unique /\ rivals # {}
         THEN \E r \in rivals : r.mv # mv /\ Rewrite(r, mv)
         ELSE row.id <= Inserts /\ Writes(txs \cup {row}, row.id)
  /\ Ends(w)
  /\ UNCHANGED <<usage, unique, revision, up, taken, lost>>

(* Nothing to write, a failed call, or the victim of a deadlock.           *)
SyncEnds(w) ==
  /\ sync[w].pc = "read" /\ Ends(w)
  /\ UNCHANGED <<tables, up, taken, lost, touched>>

UpgradeNext ==
  \/ Start \/ ReadUsage \/ MergeGroup \/ UniqueUsage
  \/ ReadTransactions \/ DeleteExtras \/ UniqueTransactions
  \/ Commit \/ RollBack \/ Downgrade
  \/ \E k \in Keys : OldReleaseTakes(k)
  \/ \E w \in Syncs :
       \/ \E a \in Accounts : ReadKnown(w, a)
       \/ \E pid \in Pids, mv \in Movements : Refresh(w, pid, mv) \/ InsertNovel(w, pid, mv)
       \/ SyncEnds(w)

UpgradeSpec == UpgradeInit /\ [][UpgradeNext]_upgradeVars
-----------------------------------------------------------------------------
(* Properties.                                                             *)

(* Over any number of upgrades, failed ones and downgrades, the quota rows *)
(* of a key add up to the units taken of it, but for those the release     *)
(* before added to a duplicate between the upgrade's SELECT and its merge. *)
UsageIsAccounted ==
  \A k \in Keys : Total(usage, k) = taken[k] - lost[k]

(* The upgrade deletes a transaction only where an older one of the same   *)
(* account stays that has its Pluggy id or its movement, unless a sync has *)
(* written one of the two since the SELECT the DELETE goes by.             *)
OnlyCopiesGo ==
  [][\A x \in txs : x.id \in up'.gone \ up.gone =>
       \/ x.id \in touched
       \/ \E k \in txs :
            /\ k.id < x.id /\ k.id \notin up'.gone /\ k.account = x.account
            /\ k.pid = x.pid \/ k.mv = x.mv \/ k.id \in touched]_upgradeVars
=============================================================================
