-------------------------------- MODULE Sync --------------------------------
(***************************************************************************)
(* Bank connections: POST /v1/connections/sync and                         *)
(* DELETE /v1/connections/{id}, run by a pool of worker threads over one   *)
(* database.  Every request is a slot with a program counter; an action is *)
(* the code between two points where another request may come in (a        *)
(* committed statement, a select, a call to Pluggy or to the model).       *)
(*                                                                         *)
(* Postgres = TRUE is production: foreign keys hold and ids come from a    *)
(* sequence.  Postgres = FALSE is the SQLite quick-start, whose engine     *)
(* sets no PRAGMA foreign_keys and whose ids are the highest one plus 1.   *)
(***************************************************************************)
EXTENDS Movements, FiniteSets

CONSTANTS
  Requests,            \* worker slots; a slot serves any number of requests
  Users, Items,
  RemoteAccounts,      \* accounts as Pluggy knows them
  None,                \* the user and item of an idle slot
  Owner,               \* the clientUserId Pluggy stored on each item
  AccountsOf,          \* the accounts Pluggy lists under an item
  Feed,                \* what Pluggy returns for an account, per version
  LastVersion,         \* bound: how often the bank's data changes
  MaxBankConnections,  \* the plan limit
  LinkBudget,          \* bound: how many connections are ever inserted
  PluggyEnabled,       \* FALSE: the offline simulator answers
  Postgres

ASSUME SyncAssumption ==
  /\ IsFiniteSet(Requests) /\ Requests # {}
  /\ None \notin Users /\ None \notin Items
  /\ Owner \in [Items -> Users]
  /\ AccountsOf \in [Items -> Seq(RemoteAccounts)]
  /\ LastVersion \in Nat \ {0}
  /\ Feed \in [RemoteAccounts -> [1..LastVersion -> Seq(RemoteTx)]]
  /\ MaxBankConnections \in Nat
  /\ LinkBudget \in Nat
  /\ PluggyEnabled \in BOOLEAN
  /\ Postgres \in BOOLEAN

VARIABLES
  connections,   \* rows of bank_connections
  accounts,      \* rows of accounts; the balance is the version it came from
  ledger,        \* rows of transactions
  linked,        \* connections inserted so far (the Postgres sequence)
  opened,        \* accounts inserted so far (the Postgres sequence)
  version,       \* the version of its data the bank now serves
  req            \* what each worker slot is doing

db == <<connections, accounts, ledger, linked, opened>>
vars == <<connections, accounts, ledger, linked, opened, version, req>>

Id == Nat \ {0}
Steps == {"idle", "quota", "claim", "accounts", "account", "upsert", "rows",
          "fetch", "persist", "finish", "unlink"}

Connection == [id : Id, user : Users, item : Items, synced : BOOLEAN]
Account == [id : Id, connection : Id, remote : RemoteAccounts,
            balance : 1..LastVersion]
Row == [account : Id, tid : Tids, mv : Movement,
        category : {"model", "keyword"}, guarded : BOOLEAN]

(* The locals of a handler.  Ids are 0 when the local is unset.            *)
Slot == [pc : Steps, user : Users \cup {None}, item : Items \cup {None},
         conn : Nat, todo : Seq(RemoteAccounts), balance : 0..LastVersion,
         acct : Nat, known : SUBSET Row, dirty : SUBSET Write(Id),
         new : SUBSET Entry(Id), doomed : SUBSET Id]

Idle == [pc |-> "idle", user |-> None, item |-> None, conn |-> 0,
         todo |-> <<>>, balance |-> 0, acct |-> 0, known |-> {},
         dirty |-> {}, new |-> {}, doomed |-> {}]

TypeOK ==
  /\ connections \subseteq Connection
  /\ accounts \subseteq Account
  /\ ledger \subseteq Row
  /\ linked \in Nat
  /\ opened \in Nat
  /\ version \in 1..LastVersion
  /\ req \in [Requests -> Slot]

Init ==
  /\ connections = {}
  /\ accounts = {}
  /\ ledger = {}
  /\ linked = 0
  /\ opened = 0
  /\ version = 1
  /\ req = [r \in Requests |-> Idle]

-----------------------------------------------------------------------------
ConnectionsOf(u) == {c \in connections : c.user = u}
ConnectionExists(id) == \E c \in connections : c.id = id
AccountExists(id) == \E a \in accounts : a.id = id

(* Plausible bugs stand before the definition they would change; the runs  *)
(* show that each breaks a property.  Here: the highest id is handed out   *)
(* again once its row is deleted, and ids that start at zero.              *)
ReusedIds(stored, issued) ==
  {n \in 1..(issued + 1) : /\ \A id \in stored : id < n
                           /\ n = 1 \/ n - 1 \in stored}
IdsFromZero(stored, issued) == {issued}

(* The id an inserted row gets: the next of the sequence, or on SQLite one *)
(* more than the highest id stored.                                        *)
NextIds(stored, issued) ==
  IF Postgres THEN {issued + 1}
  ELSE {n \in 1..(issued + 1) : /\ \A id \in stored : id < n
                                /\ n = 1 \/ n - 1 \in stored}

(* The session closes: whatever it had not committed is rolled back.       *)
Close(r) == req' = [req EXCEPT ![r] = Idle]

(* An UPDATE of a row that is gone matches nothing and raises.             *)
WritesLand(writes) == \A w \in writes : \E row \in ledger : SameKey(w, row)

-----------------------------------------------------------------------------
(* Bug: a connection left by a sync that did not finish is not found.      *)
StartSyncIgnoringUnfinished(r, u, i) ==
  /\ req[r].pc = "idle"
  /\ LET rows == {c \in connections : c.item = i /\ c.synced}
         start == [Idle EXCEPT !.user = u, !.item = i]
     IN  \/ /\ linked < LinkBudget
            /\ rows = {}
            /\ req' = [req EXCEPT ![r] = [start EXCEPT !.pc = "quota"]]
         \/ \E c \in rows :
              /\ c.user = u
              /\ req' = [req EXCEPT ![r] =
                           [start EXCEPT !.pc = "accounts", !.conn = c.id]]
  /\ UNCHANGED <<db, version>>

(* The first select of sync_item.  An item stored only for somebody else   *)
(* answers 404 and changes nothing.  The first conjunct of the first       *)
(* disjunct is the bound on links.                                         *)
StartSync(r, u, i) ==
  /\ req[r].pc = "idle"
  /\ LET rows == {c \in connections : c.item = i}
         start == [Idle EXCEPT !.user = u, !.item = i]
     IN  \/ /\ linked + Cardinality({q \in Requests : req[q].pc \in {"quota", "claim"}})
                 < LinkBudget
            /\ rows = {}
            /\ req' = [req EXCEPT ![r] = [start EXCEPT !.pc = "quota"]]
         \/ \E c \in rows :
              /\ c.user = u
              /\ req' = [req EXCEPT ![r] =
                           [start EXCEPT !.pc = "accounts", !.conn = c.id]]
  /\ UNCHANGED <<db, version>>

(* Bug: off by one at the limit.                                           *)
CheckQuotaTooLate(r) ==
  /\ req[r].pc = "quota"
  /\ IF Cardinality(ConnectionsOf(req[r].user)) > MaxBankConnections
     THEN Close(r)
     ELSE req' = [req EXCEPT ![r].pc = "claim"]
  /\ UNCHANGED <<db, version>>

(* ensure_connection_quota: 403 at the limit.                              *)
CheckQuota(r) ==
  /\ req[r].pc = "quota"
  /\ IF Cardinality(ConnectionsOf(req[r].user)) >= MaxBankConnections
     THEN Close(r)
     ELSE req' = [req EXCEPT ![r].pc = "claim"]
  /\ UNCHANGED <<db, version>>

(* Bug: the item needs some owner, not this one.                           *)
OwnerNamed(r) == PluggyEnabled => Owner[req[r].item] \in Users

(* fetch_item, _ensure_pluggy_item_owner, and the insert of the row.       *)
OwnerConfirmed(r) == PluggyEnabled => Owner[req[r].item] = req[r].user

RefuseItem(r) ==
  /\ req[r].pc = "claim"
  /\ ~OwnerConfirmed(r)
  /\ Close(r)
  /\ UNCHANGED <<db, version>>

ClaimItem(r) ==
  /\ req[r].pc = "claim"
  /\ OwnerConfirmed(r)
  /\ \E id \in NextIds({c.id : c \in connections}, linked) :
       /\ connections' = connections \cup
            {[id |-> id, user |-> req[r].user, item |-> req[r].item,
              synced |-> FALSE]}
       /\ req' = [req EXCEPT ![r].pc = "accounts", ![r].conn = id]
  /\ linked' = linked + 1
  /\ UNCHANGED <<accounts, ledger, opened, version>>

(* fetch_accounts: every balance is as of this call.                       *)
FetchAccounts(r) ==
  /\ req[r].pc = "accounts"
  /\ req' = [req EXCEPT ![r].pc = "account",
                        ![r].todo = AccountsOf[req[r].item],
                        ![r].balance = version]
  /\ UNCHANGED <<db, version>>

(* Bug: the account is inserted without looking for a stored one.          *)
SelectNoAccount(r) ==
  /\ req[r].pc = "account"
  /\ req[r].todo # <<>>
  /\ req' = [req EXCEPT ![r].pc = "upsert", ![r].acct = 0]
  /\ UNCHANGED <<db, version>>

(* The head of the loop over accounts: select one stored row, if any.      *)
SelectAccount(r) ==
  /\ req[r].pc = "account"
  /\ req[r].todo # <<>>
  /\ LET stored == {a \in accounts : /\ a.connection = req[r].conn
                                     /\ a.remote = Head(req[r].todo)}
         found == IF stored = {} THEN {0} ELSE {a.id : a \in stored}
     IN  \E id \in found :
           req' = [req EXCEPT ![r].pc = "upsert", ![r].acct = id]
  /\ UNCHANGED <<db, version>>

LeaveLoop(r) ==
  /\ req[r].pc = "account"
  /\ req[r].todo = <<>>
  /\ req' = [req EXCEPT ![r].pc = IF req[r].new = {} THEN "finish" ELSE "persist"]
  /\ UNCHANGED <<db, version>>

(* Insert the account or refresh its balance.  The commit also carries the *)
(* column writes the previous account left in the session.                 *)
UpsertLands(r) ==
  /\ WritesLand(req[r].dirty)
  /\ req[r].acct = 0 => (Postgres => ConnectionExists(req[r].conn))
  /\ req[r].acct # 0 => AccountExists(req[r].acct)

OpenAccount(r) ==
  /\ \E id \in NextIds({a.id : a \in accounts}, opened) :
       /\ accounts' = accounts \cup
            {[id |-> id, connection |-> req[r].conn,
              remote |-> Head(req[r].todo), balance |-> req[r].balance]}
       /\ req' = [req EXCEPT ![r].pc = "rows", ![r].acct = id, ![r].dirty = {}]
  /\ opened' = opened + 1

RefreshBalance(r) ==
  /\ accounts' = {IF a.id = req[r].acct
                  THEN [a EXCEPT !.balance = req[r].balance] ELSE a : a \in accounts}
  /\ opened' = opened
  /\ req' = [req EXCEPT ![r].pc = "rows", ![r].dirty = {}]

UpsertAccount(r) ==
  /\ req[r].pc = "upsert"
  /\ UpsertLands(r)
  /\ IF req[r].acct = 0 THEN OpenAccount(r) ELSE RefreshBalance(r)
  /\ ledger' = RefreshedAll(ledger, req[r].dirty)
  /\ UNCHANGED <<connections, linked, version>>

(* stored_rows, from which known ids and seen movements are taken.         *)
ReadRows(r) ==
  /\ req[r].pc = "rows"
  /\ req' = [req EXCEPT ![r].pc = "fetch",
               ![r].known = {row \in ledger : row.account = req[r].acct}]
  /\ UNCHANGED <<db, version>>

(* fetch_transactions and the merge, against the rows read before it.  A   *)
(* key met twice in one sync is inserted once, with its later movement.    *)
Accumulate(new, fresh) ==
  {x \in new : \A e \in fresh : ~SameKey(x, e)} \cup fresh

(* Bug: the loop does not move on to the next account.                     *)
FetchTransactionsAgain(r) ==
  /\ req[r].pc = "fetch"
  /\ req' = [req EXCEPT ![r].pc = "account", ![r].acct = 0, ![r].known = {}]
  /\ UNCHANGED <<db, version>>

FetchTransactions(r) ==
  /\ req[r].pc = "fetch"
  /\ LET feed == Feed[Head(req[r].todo)][version]
         known == req[r].known
     IN  req' = [req EXCEPT
           ![r].pc = "account",
           ![r].todo = Tail(req[r].todo),
           ![r].acct = 0,
           ![r].known = {},
           ![r].dirty = WritesOf(req[r].acct, known, feed),
           ![r].new = Accumulate(@, NewEntries(req[r].acct, known, feed))]
  /\ UNCHANGED <<db, version>>

-----------------------------------------------------------------------------
(* categorize: the model labels the ids in "labelled", the keyword map the *)
(* others.  The batch is guarded when the labels are as many as the rows.  *)
Guarded(labelled, new) == Cardinality(labelled) = Cardinality(new)

Inserted(e, labelled, new) ==
  [account |-> e.account, tid |-> e.tid, mv |-> e.mv,
   category |-> IF e.tid \in labelled THEN "model" ELSE "keyword",
   guarded |-> Guarded(labelled, new)]

(* Bug: the unique key is not there, so no insert ever conflicts.          *)
NeverConflict(e) == FALSE

(* _persist_new_transaction for every new row.  A row whose key was stored *)
(* meanwhile is not inserted: the stored one takes its movement and keeps  *)
(* its category.                                                           *)
Conflict(e) == \E row \in ledger : SameKey(e, row)

(* Bug: the row that lost the race brings its category along.              *)
OverwrittenWithCategory(row, new) ==
  IF \E e \in new : SameKey(e, row)
  THEN [row EXCEPT !.mv = (CHOOSE e \in new : SameKey(e, row)).mv,
                   !.category = "keyword", !.guarded = FALSE]
  ELSE row

Overwritten(row, new) ==
  IF \E e \in new : SameKey(e, row)
  THEN [row EXCEPT !.mv = (CHOOSE e \in new : SameKey(e, row)).mv]
  ELSE row

PersistLands(r) ==
  /\ WritesLand(req[r].dirty)
  /\ Postgres => \A e \in req[r].new : Conflict(e) \/ AccountExists(e.account)

(* Bug: without the savepoint one conflict drops the whole batch.          *)
PersistWithoutSavepoint(r) ==
  /\ req[r].pc = "persist"
  /\ PersistLands(r)
  /\ LET new == req[r].new
     IN  ledger' = RefreshedAll(ledger, req[r].dirty) \cup
           {Inserted(e, {}, new) : e \in {x \in new : \A y \in new : ~Conflict(y)}}
  /\ req' = [req EXCEPT ![r].pc = "finish", ![r].dirty = {}]
  /\ UNCHANGED <<connections, accounts, linked, opened, version>>

Persist(r) ==
  /\ req[r].pc = "persist"
  /\ PersistLands(r)
  /\ LET new == req[r].new
         kept == {Overwritten(row, new) : row \in RefreshedAll(ledger, req[r].dirty)}
     IN  \E labelled \in SUBSET {e.tid : e \in new} :
           ledger' = kept \cup {Inserted(e, labelled, new) :
                                  e \in {x \in new : ~Conflict(x)}}
  /\ req' = [req EXCEPT ![r].pc = "finish", ![r].dirty = {}]
  /\ UNCHANGED <<connections, accounts, linked, opened, version>>

(* last_synced_at and status, committed with any column writes left.       *)
FinishLands(r) == WritesLand(req[r].dirty) /\ ConnectionExists(req[r].conn)

(* Bug: the last account's column writes are dropped with the session.     *)
FinishUnflushed(r) ==
  /\ req[r].pc = "finish"
  /\ FinishLands(r)
  /\ connections' = {IF c.id = req[r].conn THEN [c EXCEPT !.synced = TRUE] ELSE c :
                       c \in connections}
  /\ Close(r)
  /\ UNCHANGED <<accounts, ledger, linked, opened, version>>

Finish(r) ==
  /\ req[r].pc = "finish"
  /\ FinishLands(r)
  /\ connections' = {IF c.id = req[r].conn THEN [c EXCEPT !.synced = TRUE] ELSE c :
                       c \in connections}
  /\ ledger' = RefreshedAll(ledger, req[r].dirty)
  /\ Close(r)
  /\ UNCHANGED <<accounts, linked, opened, version>>

-----------------------------------------------------------------------------
(* delete_connection: the rows are read, then erased child first in one    *)
(* transaction.  An account it did not read stops it on Postgres.          *)
StartDelete(r, c) ==
  /\ req[r].pc = "idle"
  /\ req' = [req EXCEPT ![r] =
       [Idle EXCEPT !.pc = "unlink", !.user = c.user, !.conn = c.id,
          !.doomed = {a.id : a \in {x \in accounts : x.connection = c.id}}]]
  /\ UNCHANGED <<db, version>>

(* Bug: nothing stops an unlink that did not read every account.           *)
UnlinkUnchecked(r) == req[r].pc = "unlink"

UnlinkLands(r) ==
  Postgres => \A a \in accounts : a.connection = req[r].conn => a.id \in req[r].doomed

CommitDelete(r) ==
  /\ req[r].pc = "unlink"
  /\ UnlinkLands(r)
  /\ ledger' = {row \in ledger : row.account \notin req[r].doomed}
  /\ accounts' = {a \in accounts : a.id \notin req[r].doomed}
  /\ connections' = {c \in connections : c.id # req[r].conn}
  /\ Close(r)
  /\ UNCHANGED <<linked, opened, version>>

(* The database refuses the statement: 500, and nothing of it is kept.     *)
DatabaseError(r) ==
  /\ \/ req[r].pc = "upsert" /\ ~UpsertLands(r)
     \/ req[r].pc = "persist" /\ ~PersistLands(r)
     \/ req[r].pc = "finish" /\ ~FinishLands(r)
     \/ req[r].pc = "unlink" /\ ~UnlinkLands(r)
  /\ Close(r)
  /\ UNCHANGED <<db, version>>

(* Pluggy answers an error, the database is unreachable, or the process    *)
(* dies: the request ends wherever it was.                                 *)
Fail(r) ==
  /\ req[r].pc # "idle"
  /\ Close(r)
  /\ UNCHANGED <<db, version>>

(* The bank's data changes under everybody.                                *)
BankMoves ==
  /\ version < LastVersion
  /\ version' = version + 1
  /\ UNCHANGED <<db, req>>

-----------------------------------------------------------------------------
Begin(r) == (\E u \in Users, i \in Items : StartSync(r, u, i))
            \/ (\E c \in connections : StartDelete(r, c))

Proceed(r) ==
  \/ CheckQuota(r) \/ RefuseItem(r) \/ ClaimItem(r)
  \/ FetchAccounts(r) \/ SelectAccount(r) \/ LeaveLoop(r)
  \/ UpsertAccount(r) \/ ReadRows(r) \/ FetchTransactions(r)
  \/ Persist(r) \/ Finish(r) \/ CommitDelete(r) \/ DatabaseError(r)

Next ==
  \/ \E r \in Requests : Begin(r) \/ Proceed(r) \/ Fail(r)
  \/ BankMoves

Spec == Init /\ [][Next]_vars

(* A worker thread that holds a request keeps running it.                  *)
Fairness == \A r \in Requests : WF_vars(Proceed(r))

-----------------------------------------------------------------------------
(* Properties.                                                             *)

(* The plan limit is checked in one transaction and the row is inserted in *)
(* a later one, with a call to Pluggy between.  Racing first syncs exceed  *)
(* MaxBankConnections by at most the other worker slots.                   *)
OverrunIsBounded ==
  \A u \in Users :
    Cardinality(ConnectionsOf(u)) <= MaxBankConnections + Cardinality(Requests) - 1

(* The plan limit as RF01 states it.                                       *)
WithinPlan == \A u \in Users : Cardinality(ConnectionsOf(u)) <= MaxBankConnections

(* Select and insert are separate, and no unique key stops the second of   *)
(* two racing first syncs.  Only requests that were between the two when   *)
(* the first copy came can add another: an item has at most one connection *)
(* per worker slot, a connection one row of each remote account per slot,  *)
(* whatever is unlinked, cut short or retried meanwhile.                   *)
OneCopyPerSlot ==
  /\ \A i \in Items :
       Cardinality({c \in connections : c.item = i}) <= Cardinality(Requests)
  /\ \A id \in {a.connection : a \in accounts}, m \in RemoteAccounts :
       Cardinality({a \in accounts : a.connection = id /\ a.remote = m})
         <= Cardinality(Requests)

(* With live Pluggy, a stored connection belongs to the user Pluggy names, *)
(* whoever posts the item id and however requests overlap.                 *)
OnlyOwnersAreLinked == PluggyEnabled => \A c \in connections : Owner[c.item] = c.user

(* Unlinking erases everything derived from a bank: no account without its *)
(* connection, no transaction without its account, also when a sync of     *)
(* that bank is between two of its steps.                                  *)
NoOrphans ==
  /\ \A a \in accounts : ConnectionExists(a.connection)
  /\ \A row \in ledger : AccountExists(row.account)

(* A handler carries ids across commits.  Whatever was unlinked meanwhile, *)
(* an account hangs under a connection of its own bank item, and a         *)
(* transaction under an account that Pluggy lists it for.                  *)
RowsHangUnderTheirBank ==
  /\ \A a \in accounts, c \in connections :
       a.connection = c.id => \E k \in DOMAIN AccountsOf[c.item] :
                                AccountsOf[c.item][k] = a.remote
  /\ \A row \in ledger, a \in accounts :
       row.account = a.id => \E v \in 1..LastVersion :
          \E i \in DOMAIN Feed[a.remote][v] : Feed[a.remote][v][i].tid = row.tid

(* uq_transactions_account_pluggy_id as the program keeps it: racing syncs *)
(* of one account end with one row per Pluggy id.                          *)
OneRowPerPluggyId ==
  \A x, y \in ledger : SameKey(x, y) => x = y

(* "The stored category stays put": no refresh, and no second sync that    *)
(* loses the insert race, changes the category of a stored transaction or  *)
(* whether the guardrail vouched for it.                                   *)
CategoryStays ==
  [][\A x \in ledger, y \in ledger' :
       SameKey(x, y) => x.category = y.category /\ x.guarded = y.guarded]_vars

(* A sync that answers 200 reports transactions it merged: each of them is *)
(* stored when the answer is sent, even if another request raced it.       *)
ReportedRowsAreStored ==
  [][\A r \in Requests : Finish(r) =>
       \A e \in req[r].new : \E row \in ledger' : SameKey(e, row)]_vars

(* An inserted transaction never repeats a stored one: a fresh Pluggy id   *)
(* for a stored movement is skipped.  Two rows come to share a movement    *)
(* only when this sync found the new one listed first, and the stored one  *)
(* taking the movement further down or in a later answer.                  *)
ListedBefore(r, y, x) ==
  \E a \in accounts, v, w \in req[r].balance..version :
    /\ a.id = y.account
    /\ \E i \in FirstCopies(Feed[a.remote][v]), j \in FirstCopies(Feed[a.remote][w]) :
         /\ v < w \/ (v = w /\ i < j)
         /\ Feed[a.remote][v][i] = [tid |-> y.tid, mv |-> y.mv]
         /\ Feed[a.remote][w][j] = [tid |-> x.tid, mv |-> x.mv]
InsertedRowsAreNovel ==
  [][\A x, y \in ledger' :
       /\ \E z \in ledger : SameKey(z, x)
       /\ \A z \in ledger : ~SameKey(z, y)
       /\ x.account = y.account /\ x.mv = y.mv
       => \E r \in Requests : ListedBefore(r, y, x)]_vars

(* A fetch loses nothing: each transaction in it is on a stored row, as    *)
(* refreshed by this fetch, or among the rows about to be inserted.        *)
NothingFetchedIsLost ==
  [][\A r \in Requests : FetchTransactions(r) =>
       \A i \in FirstCopies(Feed[Head(req[r].todo)][version]) :
         \E x \in RefreshedAll(req[r].known, req'[r].dirty) \cup req'[r].new :
            /\ x.account = req[r].acct
            /\ x.mv = Feed[Head(req[r].todo)][version][i].mv]_vars

(* One sync after another, some of them cut short: one connection per item *)
(* and user, one account row per remote account of a connection.           *)
OneConnectionPerItem ==
  \A c, d \in connections : c.user = d.user /\ c.item = d.item => c = d
OneAccountPerRemote ==
  \A a, b \in accounts : a.connection = b.connection /\ a.remote = b.remote => a = b

(* The column writes a fetch queues survive until a later commit takes     *)
(* them.  A sync that ends while the bank still serves what it fetched     *)
(* leaves no stored row with an older movement under an id in the feed.    *)
FinishedSyncIsFresh ==
  [][\A r \in Requests : Finish(r) /\ req[r].balance = version =>
       \A a \in {x \in accounts : x.connection = req[r].conn}, row \in ledger' :
         \A i \in FirstCopies(Feed[a.remote][version]) :
           (row.account = a.id /\ row.tid = Feed[a.remote][version][i].tid) =>
              row.mv = Feed[a.remote][version][i].mv]_vars

(* Every request ends: no step waits for what another request may never do.*)
RequestsEnd == \A r \in Requests : req[r].pc # "idle" ~> req[r].pc = "idle"
=============================================================================
