----------------------------- MODULE SyncProofs -----------------------------
(***************************************************************************)
(* Theorems about Sync, for every number of worker slots, users, items and *)
(* feeds.                                                                  *)
(***************************************************************************)
EXTENDS Sync, FiniteSetTheorems, TLAPS

(* Which locals are set at which step.                                     *)
InSync == {"quota", "claim", "accounts", "account", "upsert", "rows", "fetch",
           "persist", "finish"}
SlotShape(r) ==
  /\ req[r].pc \in InSync => req[r].user \in Users /\ req[r].item \in Items
  /\ req[r].pc \in InSync \ {"quota", "claim"} => req[r].conn \in Id
  /\ req[r].pc \in InSync \ {"quota", "claim", "accounts"}
       => req[r].balance \in 1..LastVersion
  /\ req[r].pc \in {"upsert", "rows", "fetch"} => req[r].todo # <<>>
  /\ req[r].pc \in {"rows", "fetch"} => req[r].acct \in Id

TypeInv == TypeOK /\ \A r \in Requests : SlotShape(r)

-----------------------------------------------------------------------------
(* Ids handed to inserted rows are positive.                               *)
LEMMA NextIdsAreIds ==
  ASSUME NEW stored, NEW issued \in Nat, NEW id \in NextIds(stored, issued)
  PROVE  id \in Id
BY DEF NextIds, Id

(* A refreshed row keeps everything but its movement.                      *)
LEMMA RefreshedRow ==
  ASSUME NEW row \in Row, NEW writes \in SUBSET Write(Id)
  PROVE  /\ Refreshed(row, writes) \in Row
         /\ Refreshed(row, writes).account = row.account
         /\ Refreshed(row, writes).tid = row.tid
         /\ Refreshed(row, writes).category = row.category
         /\ Refreshed(row, writes).guarded = row.guarded
<1> DEFINE Hit(f) == \E w \in writes : SameKey(w, row) /\ w.field = f
           Pick(f) == CHOOSE w \in writes : SameKey(w, row) /\ w.field = f
           mv == [f \in Fields |-> IF Hit(f) THEN Pick(f).value ELSE row.mv[f]]
<1>1. ASSUME NEW f \in Fields, Hit(f)
      PROVE  Pick(f).value \in Values
  <2>1. Pick(f) \in writes
    BY <1>1
  <2> QED
    BY <2>1 DEF Write
<1>2. row.mv \in [Fields -> Values]
  BY DEF Row, Movement
<1>3. mv \in Movement
  BY <1>1, <1>2 DEF Movement
<1>4. Refreshed(row, writes) = [row EXCEPT !.mv = mv]
  BY DEF Refreshed
<1> HIDE DEF mv
<1> QED
  BY <1>3, <1>4 DEF Row

LEMMA RefreshedRows ==
  ASSUME NEW rows \in SUBSET Row, NEW writes \in SUBSET Write(Id)
  PROVE  RefreshedAll(rows, writes) \in SUBSET Row
BY RefreshedRow DEF RefreshedAll

(* What the merge of one fetch puts into the session.                      *)
LEMMA FeedType ==
  ASSUME NEW a \in RemoteAccounts, NEW v \in 1..LastVersion
  PROVE  /\ Feed[a][v] \in Seq(RemoteTx)
         /\ \A i \in FirstCopies(Feed[a][v]) : Feed[a][v][i] \in RemoteTx
<1>1. Feed[a][v] \in Seq(RemoteTx)
  BY SyncAssumption
<1> QED
  BY <1>1 DEF FirstCopies

LEMMA MergeType ==
  ASSUME NEW a \in RemoteAccounts, NEW v \in 1..LastVersion,
         NEW id \in Id, NEW known
  PROVE  /\ WritesOf(id, known, Feed[a][v]) \in SUBSET Write(Id)
         /\ NewEntries(id, known, Feed[a][v]) \in SUBSET Entry(Id)
<1>1. WritesOf(id, known, Feed[a][v]) \in SUBSET Write(Id)
  BY DEF WritesOf, Write
<1>2. NewEntries(id, known, Feed[a][v]) \in SUBSET Entry(Id)
  BY FeedType DEF NewEntries, Entry, RemoteTx
<1> QED
  BY <1>1, <1>2

LEMMA AccumulateType ==
  ASSUME NEW new \in SUBSET Entry(Id), NEW fresh \in SUBSET Entry(Id)
  PROVE  Accumulate(new, fresh) \in SUBSET Entry(Id)
BY DEF Accumulate

LEMMA InsertedRow ==
  ASSUME NEW e \in Entry(Id), NEW labelled, NEW new
  PROVE  Inserted(e, labelled, new) \in Row
BY DEF Inserted, Guarded, Row, Entry

LEMMA OverwrittenRow ==
  ASSUME NEW row \in Row, NEW new \in SUBSET Entry(Id)
  PROVE  /\ Overwritten(row, new) \in Row
         /\ Overwritten(row, new).account = row.account
         /\ Overwritten(row, new).tid = row.tid
         /\ Overwritten(row, new).category = row.category
         /\ Overwritten(row, new).guarded = row.guarded
<1>1. CASE \E e \in new : SameKey(e, row)
  <2> DEFINE e == CHOOSE x \in new : SameKey(x, row)
  <2>1. e \in new
    BY <1>1
  <2>2. e.mv \in Movement
    BY <2>1 DEF Entry
  <2>3. Overwritten(row, new) = [row EXCEPT !.mv = e.mv]
    BY <1>1 DEF Overwritten
  <2> HIDE DEF e
  <2> QED
    BY <2>2, <2>3 DEF Row
<1>2. CASE ~\E e \in new : SameKey(e, row)
  BY <1>2 DEF Overwritten
<1> QED
  BY <1>1, <1>2

-----------------------------------------------------------------------------
(* Replacing one slot by a well-formed one keeps every slot well formed.   *)
SlotOK(s) ==
  /\ s \in Slot
  /\ s.pc \in InSync => s.user \in Users /\ s.item \in Items
  /\ s.pc \in InSync \ {"quota", "claim"} => s.conn \in Id
  /\ s.pc \in InSync \ {"quota", "claim", "accounts"} => s.balance \in 1..LastVersion
  /\ s.pc \in {"upsert", "rows", "fetch"} => s.todo # <<>>
  /\ s.pc \in {"rows", "fetch"} => s.acct \in Id

SlotsOK == req \in [Requests -> Slot] /\ \A r \in Requests : SlotShape(r)

LEMMA SlotOf ==
  ASSUME SlotsOK, NEW r \in Requests
  PROVE  SlotOK(req[r])
BY DEF SlotsOK, SlotOK, SlotShape

LEMMA SlotUpdate ==
  ASSUME SlotsOK, NEW r \in Requests, NEW s, SlotOK(s),
         req' = [req EXCEPT ![r] = s]
  PROVE  SlotsOK'
<1>1. req' \in [Requests -> Slot]
  BY DEF SlotsOK, SlotOK
<1>2. ASSUME NEW q \in Requests PROVE SlotShape(q)'
  <2>1. CASE q = r
    <3>1. req'[q] = s
      BY <2>1 DEF SlotsOK
    <3> QED
      BY <3>1 DEF SlotOK, SlotShape
  <2>2. CASE q # r
    <3>1. req'[q] = req[q]
      BY <2>2 DEF SlotsOK
    <3> QED
      BY <3>1 DEF SlotsOK, SlotShape
  <2> QED
    BY <2>1, <2>2
<1> QED
  BY <1>1, <1>2 DEF SlotsOK

LEMMA IdleOK == SlotOK(Idle)
BY SyncAssumption DEF SlotOK, Idle, Slot, Steps, InSync

LEMMA CloseKeepsSlots ==
  ASSUME SlotsOK, NEW r \in Requests, Close(r)
  PROVE  SlotsOK'
BY SlotUpdate, IdleOK DEF Close

(* The tables.                                                             *)
TablesOK ==
  /\ connections \subseteq Connection
  /\ accounts \subseteq Account
  /\ ledger \subseteq Row
  /\ linked \in Nat
  /\ opened \in Nat
  /\ version \in 1..LastVersion

LEMMA TypeInvParts == TypeInv => TablesOK /\ SlotsOK
BY DEF TypeInv, TypeOK, TablesOK, SlotsOK

LEMMA TypeInvNext == TablesOK' /\ SlotsOK' => TypeInv'
BY DEF TypeInv, TypeOK, TablesOK, SlotsOK

(* One lemma per action of a request.                                      *)
LEMMA StartSyncType ==
  ASSUME TypeInv, NEW r \in Requests, NEW u \in Users, NEW i \in Items,
         StartSync(r, u, i)
  PROVE  TypeInv'
<1> DEFINE start == [Idle EXCEPT !.user = u, !.item = i]
<1>1. TablesOK'
  BY TypeInvParts DEF TablesOK, StartSync, db
<1>2. SlotsOK
  BY TypeInvParts
<1>3. CASE req' = [req EXCEPT ![r] = [start EXCEPT !.pc = "quota"]]
  <2>1. SlotOK([start EXCEPT !.pc = "quota"])
    BY IdleOK DEF SlotOK, Idle, Slot, Steps, InSync
  <2> QED
    BY <1>1, <1>2, <1>3, <2>1, SlotUpdate, TypeInvNext
<1>4. ASSUME NEW c \in connections,
             req' = [req EXCEPT ![r] = [start EXCEPT !.pc = "accounts", !.conn = c.id]]
      PROVE  TypeInv'
  <2>1. c.id \in Id
    BY TypeInvParts DEF TablesOK, Connection
  <2>2. SlotOK([start EXCEPT !.pc = "accounts", !.conn = c.id])
    BY <2>1, IdleOK DEF SlotOK, Idle, Slot, Steps, InSync, Id
  <2> QED
    BY <1>1, <1>2, <1>4, <2>2, SlotUpdate, TypeInvNext
<1> QED
  BY <1>3, <1>4 DEF StartSync

LEMMA CheckQuotaType ==
  ASSUME TypeInv, NEW r \in Requests, CheckQuota(r)
  PROVE  TypeInv'
<1>1. TablesOK'
  BY TypeInvParts DEF TablesOK, CheckQuota, db
<1>2. SlotsOK /\ SlotOK(req[r])
  BY TypeInvParts, SlotOf
<1>3. CASE Close(r)
  BY <1>1, <1>2, <1>3, CloseKeepsSlots, TypeInvNext
<1>4. CASE req' = [req EXCEPT ![r].pc = "claim"]
  <2>1. SlotOK([req[r] EXCEPT !.pc = "claim"])
    BY <1>2 DEF SlotOK, Slot, Steps, InSync, CheckQuota
  <2> QED
    BY <1>1, <1>2, <1>4, <2>1, SlotUpdate, TypeInvNext
<1> QED
  BY <1>3, <1>4 DEF CheckQuota

LEMMA ClaimItemType ==
  ASSUME TypeInv, NEW r \in Requests, ClaimItem(r)
  PROVE  TypeInv'
<1>1. SlotsOK /\ SlotOK(req[r]) /\ TablesOK
  BY TypeInvParts, SlotOf
<1>2. PICK id \in NextIds({c.id : c \in connections}, linked) :
        /\ connections' = connections \cup
             {[id |-> id, user |-> req[r].user, item |-> req[r].item, synced |-> FALSE]}
        /\ req' = [req EXCEPT ![r].pc = "accounts", ![r].conn = id]
  BY DEF ClaimItem
<1>3. id \in Id
  BY <1>1, NextIdsAreIds DEF TablesOK
<1>4. req[r].user \in Users /\ req[r].item \in Items
  BY <1>1 DEF SlotOK, InSync, ClaimItem
<1>5. TablesOK'
  <2>1. UNCHANGED <<accounts, ledger, opened, version>> /\ linked' = linked + 1
    BY DEF ClaimItem
  <2>2. [id |-> id, user |-> req[r].user, item |-> req[r].item, synced |-> FALSE]
          \in Connection
    BY <1>3, <1>4 DEF Connection
  <2>3. connections' \subseteq Connection
    BY <1>1, <1>2, <2>2 DEF TablesOK
  <2> QED
    BY <1>1, <2>1, <2>3 DEF TablesOK
<1>6. SlotOK([[req[r] EXCEPT !.pc = "accounts"] EXCEPT !.conn = id])
  BY <1>1, <1>3, <1>4 DEF SlotOK, Slot, Steps, InSync, Id
<1>7. req' = [req EXCEPT ![r] = [[req[r] EXCEPT !.pc = "accounts"] EXCEPT !.conn = id]]
  BY <1>1, <1>2 DEF SlotsOK
<1> QED
  BY <1>1, <1>5, <1>6, <1>7, SlotUpdate, TypeInvNext

LEMMA FetchAccountsType ==
  ASSUME TypeInv, NEW r \in Requests, FetchAccounts(r)
  PROVE  TypeInv'
<1> DEFINE s == [[[req[r] EXCEPT !.pc = "account"]
                    EXCEPT !.todo = AccountsOf[req[r].item]] EXCEPT !.balance = version]
<1>1. SlotsOK /\ SlotOK(req[r]) /\ TablesOK
  BY TypeInvParts, SlotOf
<1>2. TablesOK'
  BY <1>1 DEF TablesOK, FetchAccounts, db
<1>3. AccountsOf[req[r].item] \in Seq(RemoteAccounts) /\ version \in 1..LastVersion
  BY <1>1, SyncAssumption DEF SlotOK, InSync, FetchAccounts, TablesOK
<1> DEFINE listed == AccountsOf[req[r].item]
<1>4. /\ req[r] \in Slot
      /\ req[r].user \in Users /\ req[r].item \in Items /\ req[r].conn \in Id
  BY <1>1 DEF SlotOK, InSync, FetchAccounts
<1>5. req' = [req EXCEPT ![r] = s]
  BY <1>1 DEF SlotsOK, FetchAccounts
<1> HIDE DEF listed
<1>6. s = [[[req[r] EXCEPT !.pc = "account"] EXCEPT !.todo = listed]
             EXCEPT !.balance = version]
  BY DEF listed
<1>7. SlotOK(s)
  <2>1. listed \in Seq(RemoteAccounts) /\ version \in 1..LastVersion
    BY <1>3 DEF listed
  <2> HIDE DEF s
  <2>2. /\ s.pc = "account" /\ s.todo = listed /\ s.balance = version
        /\ s.user = req[r].user /\ s.item = req[r].item /\ s.conn = req[r].conn
    BY <1>4, <1>6 DEF Slot
  <2>3. version \in 0..LastVersion
    BY <2>1
  <2>4. s \in Slot
    BY <1>4, <1>6, <2>1, <2>3 DEF Slot, Steps
  <2> QED
    BY <1>4, <2>1, <2>2, <2>4 DEF SlotOK, InSync
<1> HIDE DEF s
<1> QED
  BY <1>1, <1>2, <1>5, <1>7, SlotUpdate, TypeInvNext

LEMMA SelectAccountType ==
  ASSUME TypeInv, NEW r \in Requests, SelectAccount(r)
  PROVE  TypeInv'
<1>1. SlotsOK /\ SlotOK(req[r]) /\ TablesOK
  BY TypeInvParts, SlotOf
<1>2. TablesOK'
  BY <1>1 DEF TablesOK, SelectAccount, db
<1> DEFINE stored == {a \in accounts : /\ a.connection = req[r].conn
                                       /\ a.remote = Head(req[r].todo)}
           found == IF stored = {} THEN {0} ELSE {a.id : a \in stored}
<1>a. \A a \in stored : a.id \in Nat
  BY <1>1 DEF TablesOK, Account, Id
<1>b. found \subseteq Nat
  BY <1>a
<1>c. \E id \in found : req' = [req EXCEPT ![r].pc = "upsert", ![r].acct = id]
  BY DEF SelectAccount
<1> HIDE DEF found
<1>3. PICK id \in Nat : req' = [req EXCEPT ![r].pc = "upsert", ![r].acct = id]
  BY <1>b, <1>c
<1>4. SlotOK([[req[r] EXCEPT !.pc = "upsert"] EXCEPT !.acct = id])
  BY <1>1 DEF SlotOK, Slot, Steps, InSync, SelectAccount
<1>5. req' = [req EXCEPT ![r] = [[req[r] EXCEPT !.pc = "upsert"] EXCEPT !.acct = id]]
  BY <1>1, <1>3 DEF SlotsOK
<1> QED
  BY <1>1, <1>2, <1>4, <1>5, SlotUpdate, TypeInvNext

LEMMA LeaveLoopType ==
  ASSUME TypeInv, NEW r \in Requests, LeaveLoop(r)
  PROVE  TypeInv'
<1>1. SlotsOK /\ SlotOK(req[r]) /\ TablesOK
  BY TypeInvParts, SlotOf
<1>2. TablesOK'
  BY <1>1 DEF TablesOK, LeaveLoop, db
<1>3. PICK step \in {"finish", "persist"} : req' = [req EXCEPT ![r].pc = step]
  BY DEF LeaveLoop
<1>4. SlotOK([req[r] EXCEPT !.pc = step])
  BY <1>1 DEF SlotOK, Slot, Steps, InSync, LeaveLoop
<1> QED
  BY <1>1, <1>2, <1>3, <1>4, SlotUpdate, TypeInvNext

LEMMA UpsertAccountType ==
  ASSUME TypeInv, NEW r \in Requests, UpsertAccount(r)
  PROVE  TypeInv'
<1>1. SlotsOK /\ SlotOK(req[r]) /\ TablesOK
  BY TypeInvParts, SlotOf
<1>2. /\ req[r].conn \in Id /\ req[r].balance \in 1..LastVersion
      /\ req[r].todo \in Seq(RemoteAccounts) /\ req[r].todo # <<>>
      /\ req[r].acct \in Nat /\ req[r].dirty \in SUBSET Write(Id)
  BY <1>1 DEF SlotOK, Slot, InSync, UpsertAccount
<1>3. Head(req[r].todo) \in RemoteAccounts
  BY <1>2
<1>4. ledger' \subseteq Row
  BY <1>1, <1>2, RefreshedRows DEF TablesOK, UpsertAccount
<1>5. CASE req[r].acct = 0
  <2>1. PICK id \in NextIds({a.id : a \in accounts}, opened) :
          /\ accounts' = accounts \cup
               {[id |-> id, connection |-> req[r].conn,
                 remote |-> Head(req[r].todo), balance |-> req[r].balance]}
          /\ req' = [req EXCEPT ![r].pc = "rows", ![r].acct = id, ![r].dirty = {}]
    BY <1>5 DEF UpsertAccount, OpenAccount
  <2>2. id \in Id
    BY <1>1, NextIdsAreIds DEF TablesOK
  <2>3. [id |-> id, connection |-> req[r].conn, remote |-> Head(req[r].todo),
         balance |-> req[r].balance] \in Account
    BY <1>2, <1>3, <2>2 DEF Account
  <2>4. accounts' \subseteq Account
    BY <1>1, <2>1, <2>3 DEF TablesOK
  <2>u. UNCHANGED <<connections, linked, version>> /\ opened' = opened + 1
    BY <1>5 DEF UpsertAccount, OpenAccount
  <2>5. TablesOK'
    BY <1>1, <1>4, <2>u, <2>4 DEF TablesOK
  <2> DEFINE s == [[[req[r] EXCEPT !.pc = "rows"] EXCEPT !.acct = id]
                     EXCEPT !.dirty = {}]
  <2>6. SlotOK(s)
    BY <1>1, <1>2, <2>2 DEF SlotOK, Slot, Steps, InSync, UpsertAccount, Id
  <2>7. req' = [req EXCEPT ![r] = s]
    BY <1>1, <2>1 DEF SlotsOK
  <2> HIDE DEF s
  <2> QED
    BY <1>1, <2>5, <2>6, <2>7, SlotUpdate, TypeInvNext
<1>6. CASE req[r].acct # 0
  <2>1. /\ accounts' = {IF a.id = req[r].acct
                        THEN [a EXCEPT !.balance = req[r].balance] ELSE a : a \in accounts}
        /\ opened' = opened
        /\ req' = [req EXCEPT ![r].pc = "rows", ![r].dirty = {}]
    BY <1>6 DEF UpsertAccount, RefreshBalance
  <2>2. accounts' \subseteq Account
    BY <1>1, <1>2, <2>1 DEF TablesOK, Account
  <2>3. TablesOK'
    BY <1>1, <1>4, <2>1, <2>2 DEF TablesOK, UpsertAccount
  <2> DEFINE s == [[req[r] EXCEPT !.pc = "rows"] EXCEPT !.dirty = {}]
  <2>4. SlotOK(s)
    BY <1>1, <1>2, <1>6 DEF SlotOK, Slot, Steps, InSync, UpsertAccount, Id
  <2>5. req' = [req EXCEPT ![r] = s]
    BY <1>1, <2>1 DEF SlotsOK
  <2> HIDE DEF s
  <2> QED
    BY <1>1, <2>3, <2>4, <2>5, SlotUpdate, TypeInvNext
<1> QED
  BY <1>5, <1>6

LEMMA ReadRowsType ==
  ASSUME TypeInv, NEW r \in Requests, ReadRows(r)
  PROVE  TypeInv'
<1> DEFINE rows == {row \in ledger : row.account = req[r].acct}
           s == [[req[r] EXCEPT !.pc = "fetch"] EXCEPT !.known = rows]
<1>1. SlotsOK /\ SlotOK(req[r]) /\ TablesOK
  BY TypeInvParts, SlotOf
<1>2. TablesOK'
  BY <1>1 DEF TablesOK, ReadRows, db
<1>3. rows \in SUBSET Row
  BY <1>1 DEF TablesOK
<1>4. req' = [req EXCEPT ![r] = s]
  BY <1>1 DEF SlotsOK, ReadRows
<1> HIDE DEF rows
<1>5. SlotOK(s)
  BY <1>1, <1>3 DEF SlotOK, Slot, Steps, InSync, ReadRows
<1> HIDE DEF s
<1> QED
  BY <1>1, <1>2, <1>4, <1>5, SlotUpdate, TypeInvNext

LEMMA FetchTransactionsType ==
  ASSUME TypeInv, NEW r \in Requests, FetchTransactions(r)
  PROVE  TypeInv'
<1> DEFINE feed == Feed[Head(req[r].todo)][version]
           dirty == WritesOf(req[r].acct, req[r].known, feed)
           new == Accumulate(req[r].new, NewEntries(req[r].acct, req[r].known, feed))
           s == [[[[[[req[r] EXCEPT !.pc = "account"]
                       EXCEPT !.todo = Tail(req[r].todo)] EXCEPT !.acct = 0]
                       EXCEPT !.known = {}] EXCEPT !.dirty = dirty] EXCEPT !.new = new]
<1>1. SlotsOK /\ SlotOK(req[r]) /\ TablesOK
  BY TypeInvParts, SlotOf
<1>2. TablesOK'
  BY <1>1 DEF TablesOK, FetchTransactions, db
<1>3. /\ req[r].todo \in Seq(RemoteAccounts) /\ req[r].todo # <<>>
      /\ req[r].acct \in Id /\ req[r].new \in SUBSET Entry(Id)
      /\ version \in 1..LastVersion
  BY <1>1 DEF SlotOK, Slot, FetchTransactions, TablesOK
<1>4. Head(req[r].todo) \in RemoteAccounts /\ Tail(req[r].todo) \in Seq(RemoteAccounts)
  BY <1>3
<1>5. dirty \in SUBSET Write(Id) /\ new \in SUBSET Entry(Id)
  BY <1>3, <1>4, MergeType, AccumulateType
<1>6. req' = [req EXCEPT ![r] = s]
  BY <1>1 DEF SlotsOK, FetchTransactions
<1> HIDE DEF dirty, new
<1>7. SlotOK(s)
  BY <1>1, <1>4, <1>5 DEF SlotOK, Slot, Steps, InSync, FetchTransactions
<1> HIDE DEF s
<1> QED
  BY <1>1, <1>2, <1>6, <1>7, SlotUpdate, TypeInvNext

LEMMA PersistType ==
  ASSUME TypeInv, NEW r \in Requests, Persist(r)
  PROVE  TypeInv'
<1> DEFINE new == req[r].new
           kept == {Overwritten(row, new) : row \in RefreshedAll(ledger, req[r].dirty)}
           s == [[req[r] EXCEPT !.pc = "finish"] EXCEPT !.dirty = {}]
<1>1. SlotsOK /\ SlotOK(req[r]) /\ TablesOK
  BY TypeInvParts, SlotOf
<1>2. new \in SUBSET Entry(Id) /\ req[r].dirty \in SUBSET Write(Id)
  BY <1>1 DEF SlotOK, Slot
<1>3. kept \subseteq Row
  BY <1>1, <1>2, RefreshedRows, OverwrittenRow DEF TablesOK
<1>4. PICK labelled \in SUBSET {e.tid : e \in new} :
        ledger' = kept \cup {Inserted(e, labelled, new) : e \in {x \in new : ~Conflict(x)}}
  BY DEF Persist
<1>5. ledger' \subseteq Row
  <2> HIDE DEF kept, new
  <2> QED
    BY <1>2, <1>3, <1>4, InsertedRow
<1>6. UNCHANGED <<connections, accounts, linked, opened, version>>
  BY DEF Persist
<1>7. TablesOK'
  BY <1>1, <1>5, <1>6 DEF TablesOK
<1>8. SlotOK(s)
  BY <1>1 DEF SlotOK, Slot, Steps, InSync, Persist
<1>9. req' = [req EXCEPT ![r] = s]
  BY <1>1 DEF SlotsOK, Persist
<1> HIDE DEF s
<1> QED
  BY <1>1, <1>7, <1>8, <1>9, SlotUpdate, TypeInvNext

LEMMA FinishType ==
  ASSUME TypeInv, NEW r \in Requests, Finish(r)
  PROVE  TypeInv'
<1>1. SlotsOK /\ SlotOK(req[r]) /\ TablesOK
  BY TypeInvParts, SlotOf
<1>2. connections' = {IF c.id = req[r].conn THEN [c EXCEPT !.synced = TRUE] ELSE c :
                        c \in connections}
      /\ ledger' = RefreshedAll(ledger, req[r].dirty)
      /\ Close(r) /\ UNCHANGED <<accounts, linked, opened, version>>
  BY DEF Finish
<1>3. connections' \subseteq Connection
  BY <1>1, <1>2 DEF TablesOK, Connection
<1>4. ledger' \subseteq Row
  BY <1>1, <1>2, RefreshedRows DEF TablesOK, SlotOK, Slot
<1>5. TablesOK'
  BY <1>1, <1>2, <1>3, <1>4 DEF TablesOK
<1> QED
  BY <1>1, <1>2, <1>5, CloseKeepsSlots, TypeInvNext

LEMMA StartDeleteType ==
  ASSUME TypeInv, NEW r \in Requests, NEW c \in connections, StartDelete(r, c)
  PROVE  TypeInv'
<1> DEFINE ids == {a.id : a \in {x \in accounts : x.connection = c.id}}
           s == [Idle EXCEPT !.pc = "unlink", !.user = c.user, !.conn = c.id,
                             !.doomed = ids]
<1>1. SlotsOK /\ TablesOK
  BY TypeInvParts
<1>2. TablesOK'
  BY <1>1 DEF TablesOK, StartDelete, db
<1>3. c.user \in Users /\ c.id \in Id
  BY <1>1 DEF TablesOK, Connection
<1>4. ids \subseteq Id
  BY <1>1 DEF TablesOK, Account
<1>5. req' = [req EXCEPT ![r] = s]
  BY DEF StartDelete
<1> HIDE DEF ids
<1>6. SlotOK(s)
  BY <1>3, <1>4, IdleOK DEF SlotOK, Idle, Slot, Steps, InSync, Id
<1> HIDE DEF s
<1> QED
  BY <1>1, <1>2, <1>5, <1>6, SlotUpdate, TypeInvNext

LEMMA CommitDeleteType ==
  ASSUME TypeInv, NEW r \in Requests, CommitDelete(r)
  PROVE  TypeInv'
<1>1. SlotsOK /\ TablesOK
  BY TypeInvParts
<1>2. TablesOK'
  BY <1>1 DEF TablesOK, CommitDelete
<1>3. Close(r)
  BY DEF CommitDelete
<1> QED
  BY <1>1, <1>2, <1>3, CloseKeepsSlots, TypeInvNext

(* Requests that end without touching the tables.                          *)
LEMMA CloseType ==
  ASSUME TypeInv, NEW r \in Requests, Close(r), UNCHANGED <<db, version>>
  PROVE  TypeInv'
<1>1. SlotsOK /\ TablesOK
  BY TypeInvParts
<1>2. TablesOK'
  BY <1>1 DEF TablesOK, db
<1> QED
  BY <1>1, <1>2, CloseKeepsSlots, TypeInvNext

LEMMA BankMovesType ==
  ASSUME TypeInv, BankMoves
  PROVE  TypeInv'
<1>1. SlotsOK /\ TablesOK
  BY TypeInvParts
<1>2. UNCHANGED <<db, req>> /\ version < LastVersion /\ version' = version + 1
  BY DEF BankMoves
<1>3. TablesOK'
  BY <1>1, <1>2, SyncAssumption DEF TablesOK, db
<1>4. SlotsOK'
  BY <1>1, <1>2 DEF SlotsOK, SlotShape
<1> QED
  BY <1>3, <1>4, TypeInvNext

LEMMA TypeInvStep == TypeInv /\ [Next]_vars => TypeInv'
<1> SUFFICES ASSUME TypeInv, [Next]_vars PROVE TypeInv'
  OBVIOUS
<1>1. ASSUME NEW r \in Requests, Begin(r) PROVE TypeInv'
  BY <1>1, StartSyncType, StartDeleteType DEF Begin
<1>2. ASSUME NEW r \in Requests, Proceed(r) PROVE TypeInv'
  <2>1. CASE RefuseItem(r) \/ DatabaseError(r)
    BY <2>1, CloseType DEF RefuseItem, DatabaseError
  <2> QED
    BY <1>2, <2>1, CheckQuotaType, ClaimItemType, FetchAccountsType,
       SelectAccountType, LeaveLoopType, UpsertAccountType, ReadRowsType,
       FetchTransactionsType, PersistType, FinishType, CommitDeleteType
       DEF Proceed
<1>3. ASSUME NEW r \in Requests, Fail(r) PROVE TypeInv'
  BY <1>3, CloseType DEF Fail
<1>4. CASE BankMoves
  BY <1>4, BankMovesType
<1>5. CASE UNCHANGED vars
  BY <1>5 DEF vars, TypeInv, TypeOK, SlotShape
<1> QED
  BY <1>1, <1>2, <1>3, <1>4, <1>5 DEF Next

LEMMA TypeInvInit == Init => TypeInv
<1> SUFFICES ASSUME Init PROVE TypeInv
  OBVIOUS
<1>1. Idle \in Slot /\ Idle.pc = "idle"
  BY IdleOK DEF SlotOK, Idle
<1>2. TypeOK
  BY <1>1, SyncAssumption DEF Init, TypeOK
<1>3. \A r \in Requests : req[r] = Idle
  BY DEF Init
<1> QED
  BY <1>1, <1>2, <1>3 DEF TypeInv, SlotShape, InSync

(* Every table and every local keeps its type, and a handler that reaches  *)
(* the loop over accounts has a user, an item, a connection id and an      *)
(* account id when the code uses them.                                     *)
THEOREM TypeAlways == Spec => []TypeInv
<1>1. Init => TypeInv
  BY TypeInvInit
<1>2. TypeInv /\ [Next]_vars => TypeInv'
  BY TypeInvStep
<1> QED
  BY <1>1, <1>2, PTL DEF Spec

(* TypeOK, which the runs check, holds for every instance of the model.    *)
THEOREM TypeCorrect == Spec => []TypeOK
<1>1. TypeInv => TypeOK
  BY DEF TypeInv
<1> QED
  BY <1>1, TypeAlways, PTL

-----------------------------------------------------------------------------
(* What each kind of step does to the tables.                              *)

(* Steps that leave the three tables alone.                                *)
LEMMA QuietSteps ==
  ASSUME NEW r \in Requests
  PROVE  /\ Begin(r) => UNCHANGED db
         /\ CheckQuota(r) \/ RefuseItem(r) \/ FetchAccounts(r) \/ SelectAccount(r)
              \/ LeaveLoop(r) \/ ReadRows(r) \/ FetchTransactions(r)
              \/ DatabaseError(r) \/ Fail(r) => UNCHANGED db
BY DEF Begin, StartSync, StartDelete, CheckQuota, RefuseItem, FetchAccounts,
       SelectAccount, LeaveLoop, ReadRows, FetchTransactions, DatabaseError, Fail

LEMMA StepCases ==
  ASSUME [Next]_vars
  PROVE  \/ UNCHANGED db
         \/ \E r \in Requests : \/ ClaimItem(r) \/ UpsertAccount(r) \/ Persist(r)
                                \/ Finish(r) \/ CommitDelete(r)
<1>1. CASE UNCHANGED vars
  BY <1>1 DEF vars, db
<1>2. CASE BankMoves
  BY <1>2 DEF BankMoves
<1>3. ASSUME NEW r \in Requests, Begin(r) \/ Fail(r)
      PROVE  UNCHANGED db
  BY <1>3, QuietSteps
<1>4. ASSUME NEW r \in Requests, Proceed(r)
      PROVE  \/ UNCHANGED db
             \/ ClaimItem(r) \/ UpsertAccount(r) \/ Persist(r) \/ Finish(r)
             \/ CommitDelete(r)
  BY <1>4, QuietSteps DEF Proceed
<1> QED
  BY <1>1, <1>2, <1>3, <1>4 DEF Next

-----------------------------------------------------------------------------
(* Only owners are linked.                                                 *)
LEMMA OwnersStep ==
  ASSUME TypeInv, OnlyOwnersAreLinked, [Next]_vars
  PROVE  OnlyOwnersAreLinked'
<1> SUFFICES ASSUME PluggyEnabled, NEW d \in connections'
             PROVE  Owner[d.item] = d.user
  BY DEF OnlyOwnersAreLinked
<1>1. \A c \in connections : Owner[c.item] = c.user
  BY DEF OnlyOwnersAreLinked
<1>2. ASSUME NEW r \in Requests, ClaimItem(r) PROVE Owner[d.item] = d.user
  <2>1. Owner[req[r].item] = req[r].user
    BY <1>2 DEF ClaimItem, OwnerConfirmed
  <2>2. d \in connections \/ (d.item = req[r].item /\ d.user = req[r].user)
    BY <1>2 DEF ClaimItem
  <2> QED
    BY <1>1, <2>1, <2>2
<1>3. ASSUME NEW r \in Requests, Finish(r) PROVE Owner[d.item] = d.user
  <2>1. PICK c \in connections :
          d = IF c.id = req[r].conn THEN [c EXCEPT !.synced = TRUE] ELSE c
    BY <1>3 DEF Finish
  <2>2. c \in Connection
    BY DEF TypeInv, TypeOK
  <2>3. d.item = c.item /\ d.user = c.user
    BY <2>1, <2>2 DEF Connection
  <2> QED
    BY <1>1, <2>3
<1>4. CASE UNCHANGED connections
  BY <1>1, <1>4
<1>5. ASSUME NEW r \in Requests, CommitDelete(r) PROVE Owner[d.item] = d.user
  BY <1>1, <1>5 DEF CommitDelete
<1>6. ASSUME NEW r \in Requests, UpsertAccount(r) \/ Persist(r)
      PROVE  UNCHANGED connections
  BY <1>6 DEF UpsertAccount, Persist
<1> QED
  BY <1>2, <1>3, <1>4, <1>5, <1>6, StepCases DEF db

(* With live Pluggy every stored connection belongs to the user that       *)
(* Pluggy names as the item's clientUserId, for any number of overlapping  *)
(* syncs, unlinks and failures.                                            *)
THEOREM OwnersAlways == Spec => []OnlyOwnersAreLinked
<1>1. Init => OnlyOwnersAreLinked
  BY DEF Init, OnlyOwnersAreLinked
<1>2. TypeInv /\ OnlyOwnersAreLinked /\ [Next]_vars => OnlyOwnersAreLinked'
  BY OwnersStep
<1> QED
  BY <1>1, <1>2, TypeAlways, PTL DEF Spec

-----------------------------------------------------------------------------
(* No orphans, where foreign keys hold.                                    *)

(* Refreshing or overwriting rows moves none of them to another account.   *)
LEMMA RefreshKeepsKeys ==
  ASSUME NEW rows \in SUBSET Row, NEW writes \in SUBSET Write(Id),
         NEW y \in RefreshedAll(rows, writes)
  PROVE  \E x \in rows : /\ y = Refreshed(x, writes)
                         /\ SameKey(x, y)
                         /\ x.category = y.category /\ x.guarded = y.guarded
BY RefreshedRow DEF RefreshedAll, SameKey

LEMMA LedgerAfter ==
  ASSUME TypeInv, NEW r \in Requests, NEW y \in ledger',
         UpsertAccount(r) \/ Finish(r) \/ CommitDelete(r) \/ Persist(r)
  PROVE  \/ \E x \in ledger : /\ SameKey(x, y)
                              /\ x.category = y.category /\ x.guarded = y.guarded
         \/ /\ Persist(r)
            /\ \E e \in req[r].new : SameKey(e, y) /\ ~Conflict(e)
<1>1. ledger \in SUBSET Row /\ req[r].dirty \in SUBSET Write(Id)
      /\ req[r].new \in SUBSET Entry(Id)
  BY DEF TypeInv, TypeOK, Slot
<1>2. CASE UpsertAccount(r) \/ Finish(r)
  <2>1. y \in RefreshedAll(ledger, req[r].dirty)
    BY <1>2 DEF UpsertAccount, Finish
  <2> QED
    BY <1>1, <2>1, RefreshKeepsKeys
<1>3. CASE CommitDelete(r)
  BY <1>3 DEF CommitDelete, SameKey
<1>4. CASE Persist(r)
  <2> DEFINE new == req[r].new
             old == RefreshedAll(ledger, req[r].dirty)
  <2>1. PICK labelled \in SUBSET {e.tid : e \in new} :
          ledger' = {Overwritten(row, new) : row \in old} \cup
                    {Inserted(e, labelled, new) : e \in {x \in new : ~Conflict(x)}}
    BY <1>4 DEF Persist
  <2>2. CASE y \in {Overwritten(row, new) : row \in old}
    <3>1. PICK row \in old : y = Overwritten(row, new)
      BY <2>2
    <3>2. row \in Row
      BY <1>1, RefreshedRows
    <3>3. /\ y.account = row.account /\ y.tid = row.tid
          /\ y.category = row.category /\ y.guarded = row.guarded
      BY <1>1, <3>1, <3>2, OverwrittenRow
    <3>4. PICK x \in ledger : /\ SameKey(x, row)
                              /\ x.category = row.category /\ x.guarded = row.guarded
      BY <1>1, RefreshKeepsKeys
    <3> QED
      BY <3>3, <3>4 DEF SameKey
  <2>3. CASE y \in {Inserted(e, labelled, new) : e \in {x \in new : ~Conflict(x)}}
    <3>1. PICK e \in new : ~Conflict(e) /\ y = Inserted(e, labelled, new)
      BY <2>3
    <3>2. SameKey(e, y)
      BY <3>1 DEF Inserted, SameKey
    <3> QED
      BY <1>4, <3>1, <3>2
  <2> QED
    BY <2>1, <2>2, <2>3
<1> QED
  BY <1>2, <1>3, <1>4

LEMMA AccountsAfterUpsert ==
  ASSUME TypeInv, NEW r \in Requests, UpsertAccount(r)
  PROVE  /\ \A a \in accounts : \E b \in accounts' :
               b.id = a.id /\ b.connection = a.connection /\ b.remote = a.remote
         /\ \A b \in accounts' :
               \/ \E a \in accounts :
                    b.id = a.id /\ b.connection = a.connection /\ b.remote = a.remote
               \/ /\ req[r].acct = 0 /\ b.connection = req[r].conn
                  /\ b.remote = Head(req[r].todo)
<1>1. accounts \subseteq Account
  BY DEF TypeInv, TypeOK
<1>2. CASE req[r].acct = 0
  <2>1. PICK id \in NextIds({a.id : a \in accounts}, opened) :
          accounts' = accounts \cup
            {[id |-> id, connection |-> req[r].conn,
              remote |-> Head(req[r].todo), balance |-> req[r].balance]}
    BY <1>2 DEF UpsertAccount, OpenAccount
  <2> QED
    BY <1>2, <2>1
<1>3. CASE req[r].acct # 0
  <2> DEFINE after(a) == IF a.id = req[r].acct
                         THEN [a EXCEPT !.balance = req[r].balance] ELSE a
  <2>1. accounts' = {after(a) : a \in accounts}
    BY <1>3 DEF UpsertAccount, RefreshBalance
  <2>2. \A a \in accounts : /\ after(a).id = a.id
                            /\ after(a).connection = a.connection
                            /\ after(a).remote = a.remote
    BY <1>1 DEF Account
  <2> HIDE DEF after
  <2> QED
    BY <2>1, <2>2
<1> QED
  BY <1>2, <1>3

LEMMA NoOrphansStep ==
  ASSUME Postgres, TypeInv, NoOrphans, [Next]_vars
  PROVE  NoOrphans'
<1>1. CASE UNCHANGED db
  BY <1>1 DEF db, NoOrphans, ConnectionExists, AccountExists
<1>2. ASSUME NEW r \in Requests, ClaimItem(r) PROVE NoOrphans'
  BY <1>2 DEF ClaimItem, NoOrphans, ConnectionExists, AccountExists
<1>3. ASSUME NEW r \in Requests, UpsertAccount(r) PROVE NoOrphans'
  <2>1. UNCHANGED connections
    BY <1>3 DEF UpsertAccount
  <2>2. req[r].acct = 0 => ConnectionExists(req[r].conn)
    BY <1>3 DEF UpsertAccount, UpsertLands
  <2>3. ASSUME NEW b \in accounts' PROVE ConnectionExists(b.connection)'
    BY <1>3, <2>1, <2>2, AccountsAfterUpsert DEF NoOrphans, ConnectionExists
  <2>4. ASSUME NEW y \in ledger' PROVE AccountExists(y.account)'
    <3>0. ~Persist(r)
      BY <1>3 DEF UpsertAccount, Persist
    <3>1. PICK x \in ledger : x.account = y.account
      BY <1>3, <3>0, LedgerAfter DEF SameKey
    <3>2. PICK a \in accounts : a.id = x.account
      BY DEF NoOrphans, AccountExists
    <3> QED
      BY <1>3, <3>1, <3>2, AccountsAfterUpsert DEF AccountExists
  <2> QED
    BY <2>3, <2>4 DEF NoOrphans
<1>4. ASSUME NEW r \in Requests, Persist(r) PROVE NoOrphans'
  <2>1. UNCHANGED <<connections, accounts>>
    BY <1>4 DEF Persist
  <2>2. \A e \in req[r].new : Conflict(e) \/ AccountExists(e.account)
    BY <1>4 DEF Persist, PersistLands
  <2>3. ASSUME NEW y \in ledger' PROVE AccountExists(y.account)
    BY <1>4, <2>2, LedgerAfter DEF SameKey, NoOrphans
  <2> QED
    BY <2>1, <2>3 DEF NoOrphans, ConnectionExists, AccountExists
<1>5. ASSUME NEW r \in Requests, Finish(r) PROVE NoOrphans'
  <2>1. UNCHANGED accounts
    BY <1>5 DEF Finish
  <2>2. ASSUME NEW c \in connections PROVE \E d \in connections' : d.id = c.id
    <3> DEFINE d == IF c.id = req[r].conn THEN [c EXCEPT !.synced = TRUE] ELSE c
    <3>1. d \in connections'
      BY <1>5 DEF Finish
    <3>2. c \in Connection
      BY DEF TypeInv, TypeOK
    <3>3. d.id = c.id
      BY <3>2 DEF Connection
    <3> QED
      BY <3>1, <3>3
  <2>3. ASSUME NEW y \in ledger' PROVE AccountExists(y.account)
    <3>0. ~Persist(r)
      BY <1>5 DEF Finish, Persist
    <3>1. PICK x \in ledger : x.account = y.account
      BY <1>5, <3>0, LedgerAfter DEF SameKey
    <3> QED
      BY <3>1 DEF NoOrphans
  <2> QED
    BY <2>1, <2>2, <2>3 DEF NoOrphans, ConnectionExists, AccountExists
<1>6. ASSUME NEW r \in Requests, CommitDelete(r) PROVE NoOrphans'
  <2>1. \A a \in accounts : a.connection = req[r].conn => a.id \in req[r].doomed
    BY <1>6 DEF CommitDelete, UnlinkLands
  <2> QED
    BY <1>6, <2>1 DEF CommitDelete, NoOrphans, ConnectionExists, AccountExists
<1> QED
  BY <1>1, <1>2, <1>3, <1>4, <1>5, <1>6, StepCases

(* In production every account has its connection and every transaction    *)
(* its account, whatever unlinks run between two steps of a sync: the      *)
(* foreign keys turn each of those races into a refused statement.         *)
THEOREM NoOrphansAlways ==
  ASSUME Postgres
  PROVE  Spec => []NoOrphans
<1>1. Init => NoOrphans
  BY DEF Init, NoOrphans
<1>2. TypeInv /\ NoOrphans /\ [Next]_vars => NoOrphans'
  BY NoOrphansStep
<1> QED
  BY <1>1, <1>2, TypeAlways, PTL DEF Spec

-----------------------------------------------------------------------------
(* One row per Pluggy id.                                                  *)
OneOf(rows) == \A x, y \in rows : SameKey(x, y) => x = y

(* The merge of one account never queues two new rows for one id.  The     *)
(* ledger then stays unique because a row whose key is stored is never     *)
(* inserted, whoever stored it.                                            *)
UniqueInv ==
  /\ OneRowPerPluggyId
  /\ \A r \in Requests : OneOf(req[r].new)

LEMMA EntriesAreUnique ==
  ASSUME NEW account, NEW known, NEW a \in RemoteAccounts, NEW v \in 1..LastVersion
  PROVE  OneOf(NewEntries(account, known, Feed[a][v]))
<1> DEFINE feed == Feed[a][v]
           entry(i) == [account |-> account, tid |-> feed[i].tid, mv |-> feed[i].mv]
<1>1. feed \in Seq(RemoteTx)
  BY FeedType
<1>2. ASSUME NEW i \in FirstCopies(feed), NEW j \in FirstCopies(feed),
             feed[i].tid = feed[j].tid
      PROVE  i = j
  <2>1. i \in 1..Len(feed) /\ j \in 1..Len(feed)
    BY <1>1 DEF FirstCopies
  <2>2. ~(i < j) /\ ~(j < i)
    BY <1>2, <2>1 DEF FirstCopies
  <2> QED
    BY <2>1, <2>2
<1>3. ASSUME NEW x \in NewEntries(account, known, feed),
             NEW y \in NewEntries(account, known, feed), SameKey(x, y)
      PROVE  x = y
  <2>1. PICK i \in FirstCopies(feed) : x = entry(i)
    BY DEF NewEntries
  <2>2. PICK j \in FirstCopies(feed) : y = entry(j)
    BY DEF NewEntries
  <2>3. feed[i].tid = feed[j].tid
    BY <1>3, <2>1, <2>2 DEF SameKey
  <2> QED
    BY <1>2, <2>1, <2>2, <2>3
<1> QED
  BY <1>3 DEF OneOf

LEMMA AccumulateKeepsOne ==
  ASSUME NEW new, NEW fresh, OneOf(new), OneOf(fresh)
  PROVE  OneOf(Accumulate(new, fresh))
BY DEF OneOf, Accumulate, SameKey

LEMMA NewStaysUnique ==
  ASSUME TypeInv, UniqueInv, [Next]_vars, NEW q \in Requests
  PROVE  OneOf(req'[q].new)
<1>1. OneOf(req[q].new) /\ req \in [Requests -> Slot]
  BY DEF UniqueInv, TypeInv, TypeOK
<1>2. OneOf(Idle.new)
  BY DEF OneOf, Idle
<1>3. ASSUME NEW r \in Requests, req' = [req EXCEPT ![r] = Idle]
      PROVE  OneOf(req'[q].new)
  BY <1>1, <1>2, <1>3
<1>4. ASSUME NEW r \in Requests, Begin(r) PROVE OneOf(req'[q].new)
  <2>1. ASSUME NEW u \in Users, NEW i \in Items, StartSync(r, u, i)
        PROVE  req'[r].new = {} /\ \A p \in Requests \ {r} : req'[p] = req[p]
    <3> DEFINE start == [Idle EXCEPT !.user = u, !.item = i]
    <3>1. \/ req' = [req EXCEPT ![r] = [start EXCEPT !.pc = "quota"]]
          \/ \E c \in connections :
               req' = [req EXCEPT ![r] = [start EXCEPT !.pc = "accounts", !.conn = c.id]]
      BY <2>1 DEF StartSync
    <3>2. /\ [start EXCEPT !.pc = "quota"].new = {}
          /\ \A c \in connections : [start EXCEPT !.pc = "accounts", !.conn = c.id].new = {}
      BY DEF Idle
    <3> HIDE DEF start
    <3> QED
      BY <1>1, <3>1, <3>2
  <2>2. ASSUME NEW c \in connections, StartDelete(r, c)
        PROVE  req'[r].new = {} /\ \A p \in Requests \ {r} : req'[p] = req[p]
    BY <1>1, <2>2 DEF StartDelete, Idle
  <2> QED
    BY <1>1, <1>4, <2>1, <2>2 DEF Begin, OneOf
<1>5. ASSUME NEW r \in Requests, FetchTransactions(r) PROVE OneOf(req'[q].new)
  <2> DEFINE fresh == NewEntries(req[r].acct, req[r].known,
                                 Feed[Head(req[r].todo)][version])
  <2>1. /\ req[r].todo \in Seq(RemoteAccounts) /\ req[r].todo # <<>>
        /\ version \in 1..LastVersion
    BY <1>5 DEF TypeInv, TypeOK, SlotShape, Slot, FetchTransactions
  <2>h. Head(req[r].todo) \in RemoteAccounts
    BY <2>1
  <2>2. OneOf(fresh)
    BY <2>1, <2>h, EntriesAreUnique
  <2>3. OneOf(Accumulate(req[r].new, fresh))
    BY <2>2, AccumulateKeepsOne DEF UniqueInv
  <2>4. req'[q].new = IF q = r THEN Accumulate(req[r].new, fresh) ELSE req[q].new
    BY <1>1, <1>5 DEF FetchTransactions, Slot
  <2> QED
    BY <1>1, <2>3, <2>4
<1>6. ASSUME NEW r \in Requests,
             \/ CheckQuota(r) \/ ClaimItem(r) \/ FetchAccounts(r) \/ SelectAccount(r)
             \/ LeaveLoop(r) \/ UpsertAccount(r) \/ ReadRows(r) \/ Persist(r)
             \/ RefuseItem(r) \/ Finish(r) \/ CommitDelete(r) \/ DatabaseError(r)
             \/ Fail(r)
      PROVE  OneOf(req'[q].new)
  <2>1. ASSUME RefuseItem(r) \/ Finish(r) \/ CommitDelete(r) \/ DatabaseError(r)
               \/ Fail(r)
        PROVE  OneOf(req'[q].new)
    BY <1>3, <2>1 DEF RefuseItem, Finish, CommitDelete, DatabaseError, Fail, Close
  <2>2. ASSUME CheckQuota(r) PROVE OneOf(req'[q].new)
    <3>1. CASE req' = [req EXCEPT ![r].pc = "claim"]
      BY <1>1, <3>1 DEF Slot
    <3> QED
      BY <1>3, <2>2, <3>1 DEF CheckQuota, Close
  <2>3. ASSUME ClaimItem(r) PROVE OneOf(req'[q].new)
    <3>1. PICK id : req' = [req EXCEPT ![r].pc = "accounts", ![r].conn = id]
      BY <2>3 DEF ClaimItem
    <3> QED
      BY <1>1, <3>1 DEF Slot
  <2>4. ASSUME SelectAccount(r) PROVE OneOf(req'[q].new)
    <3>1. PICK id : req' = [req EXCEPT ![r].pc = "upsert", ![r].acct = id]
      BY <2>4 DEF SelectAccount
    <3> QED
      BY <1>1, <3>1 DEF Slot
  <2>5. ASSUME UpsertAccount(r) PROVE OneOf(req'[q].new)
    <3>1. CASE \E id : req' = [req EXCEPT ![r].pc = "rows", ![r].acct = id,
                                          ![r].dirty = {}]
      BY <1>1, <3>1 DEF Slot
    <3>2. CASE req' = [req EXCEPT ![r].pc = "rows", ![r].dirty = {}]
      BY <1>1, <3>2 DEF Slot
    <3> QED
      BY <2>5, <3>1, <3>2 DEF UpsertAccount, OpenAccount, RefreshBalance
  <2>6. ASSUME FetchAccounts(r) \/ LeaveLoop(r) \/ ReadRows(r) \/ Persist(r)
        PROVE  OneOf(req'[q].new)
    <3>1. CASE FetchAccounts(r)
      BY <1>1, <3>1 DEF FetchAccounts, Slot
    <3>2. CASE LeaveLoop(r)
      BY <1>1, <3>2 DEF LeaveLoop, Slot
    <3>3. CASE ReadRows(r)
      BY <1>1, <3>3 DEF ReadRows, Slot
    <3>4. CASE Persist(r)
      BY <1>1, <3>4 DEF Persist, Slot
    <3> QED
      BY <2>6, <3>1, <3>2, <3>3, <3>4
  <2> QED
    BY <1>6, <2>1, <2>2, <2>3, <2>4, <2>5, <2>6
<1>7. CASE BankMoves \/ UNCHANGED vars
  BY <1>1, <1>7 DEF BankMoves, vars
<1> QED
  BY <1>4, <1>5, <1>6, <1>7 DEF Next, Proceed

LEMMA LedgerStaysUnique ==
  ASSUME TypeInv, UniqueInv, [Next]_vars
  PROVE  OneRowPerPluggyId'
<1>1. ledger \in SUBSET Row
  BY DEF TypeInv, TypeOK
<1>2. ASSUME NEW r \in Requests, NEW x \in RefreshedAll(ledger, req[r].dirty),
             NEW y \in RefreshedAll(ledger, req[r].dirty), SameKey(x, y)
      PROVE  x = y
  <2>1. req[r].dirty \in SUBSET Write(Id)
    BY DEF TypeInv, TypeOK, Slot
  <2>2. PICK u \in ledger : x = Refreshed(u, req[r].dirty) /\ SameKey(u, x)
    BY <1>1, <2>1, RefreshKeepsKeys
  <2>3. PICK w \in ledger : y = Refreshed(w, req[r].dirty) /\ SameKey(w, y)
    BY <1>1, <2>1, RefreshKeepsKeys
  <2>4. SameKey(u, w)
    BY <1>2, <2>2, <2>3 DEF SameKey
  <2> QED
    BY <2>2, <2>3, <2>4 DEF UniqueInv, OneRowPerPluggyId
<1>3. ASSUME NEW r \in Requests, UpsertAccount(r) \/ Finish(r)
      PROVE  OneRowPerPluggyId'
  BY <1>2, <1>3 DEF UpsertAccount, Finish, OneRowPerPluggyId
<1>4. ASSUME NEW r \in Requests, Persist(r)
      PROVE  OneRowPerPluggyId'
  <2> DEFINE new == req[r].new
             old == RefreshedAll(ledger, req[r].dirty)
             kept == {Overwritten(row, new) : row \in old}
  <2>1. new \in SUBSET Entry(Id) /\ req[r].dirty \in SUBSET Write(Id) /\ OneOf(new)
    BY DEF TypeInv, TypeOK, Slot, UniqueInv
  <2>2. PICK labelled \in SUBSET {e.tid : e \in new} :
          ledger' = kept \cup {Inserted(e, labelled, new) :
                                 e \in {x \in new : ~Conflict(x)}}
    BY <1>4 DEF Persist
  <2>3. \A row \in old : SameKey(Overwritten(row, new), row)
    BY <1>1, <2>1, RefreshedRows, OverwrittenRow DEF SameKey
  <2>4. ASSUME NEW x \in kept, NEW y \in kept, SameKey(x, y)
        PROVE  x = y
    <3>1. PICK u \in old : x = Overwritten(u, new)
      OBVIOUS
    <3>2. PICK w \in old : y = Overwritten(w, new)
      OBVIOUS
    <3>3. SameKey(u, w)
      BY <2>3, <2>4, <3>1, <3>2 DEF SameKey
    <3> QED
      BY <1>2, <3>1, <3>2, <3>3
  <2>5. \A x \in kept : \E row \in ledger : SameKey(row, x)
    <3>1. ASSUME NEW u \in old PROVE \E row \in ledger : SameKey(row, u)
      BY <1>1, <2>1, RefreshKeepsKeys
    <3> QED
      BY <2>3, <3>1 DEF SameKey
  <2>6. ASSUME NEW e \in new, ~Conflict(e), NEW x \in kept
        PROVE  ~SameKey(x, Inserted(e, labelled, new))
               /\ ~SameKey(Inserted(e, labelled, new), x)
    BY <2>5, <2>6 DEF Conflict, SameKey, Inserted
  <2>7. ASSUME NEW e \in new, NEW f \in new,
               SameKey(Inserted(e, labelled, new), Inserted(f, labelled, new))
        PROVE  e = f
    BY <2>1, <2>7 DEF OneOf, SameKey, Inserted
  <2> HIDE DEF kept, new
  <2> QED
    BY <2>2, <2>4, <2>6, <2>7 DEF OneRowPerPluggyId
<1>5. ASSUME NEW r \in Requests, CommitDelete(r) \/ ClaimItem(r)
      PROVE  OneRowPerPluggyId'
  BY <1>5 DEF CommitDelete, ClaimItem, UniqueInv, OneRowPerPluggyId
<1>6. CASE UNCHANGED db
  BY <1>6 DEF db, UniqueInv, OneRowPerPluggyId
<1> QED
  BY <1>3, <1>4, <1>5, <1>6, StepCases

LEMMA UniqueAlways == Spec => []UniqueInv
<1>1. Init => UniqueInv
  BY DEF Init, UniqueInv, OneRowPerPluggyId, OneOf, Idle
<1>2. TypeInv /\ UniqueInv /\ [Next]_vars => UniqueInv'
  BY NewStaysUnique, LedgerStaysUnique DEF UniqueInv
<1> QED
  BY <1>1, <1>2, TypeAlways, PTL DEF Spec

(* However many syncs of one account overlap, the ledger holds one row per *)
(* account and Pluggy id: the savepoint of _persist_new_transaction turns  *)
(* the insert that lost the race into an update.                           *)
THEOREM OneRowAlways == Spec => []OneRowPerPluggyId
<1>1. UniqueInv => OneRowPerPluggyId
  BY DEF UniqueInv
<1> QED
  BY <1>1, UniqueAlways, PTL

-----------------------------------------------------------------------------
(* Categories stay.                                                        *)
LEMMA CategoryStep ==
  ASSUME TypeInv, UniqueInv, [Next]_vars,
         NEW x \in ledger, NEW y \in ledger', SameKey(x, y)
  PROVE  x.category = y.category /\ x.guarded = y.guarded
<1>1. \A u \in ledger : SameKey(u, y) => u = x
  BY DEF UniqueInv, OneRowPerPluggyId, SameKey
<1>2. ASSUME NEW r \in Requests,
             UpsertAccount(r) \/ Finish(r) \/ CommitDelete(r) \/ Persist(r)
      PROVE  x.category = y.category /\ x.guarded = y.guarded
  <2>1. ASSUME NEW e \in req[r].new, SameKey(e, y) PROVE Conflict(e)
    BY <2>1 DEF Conflict, SameKey
  <2> QED
    BY <1>1, <1>2, <2>1, LedgerAfter
<1>3. CASE UNCHANGED ledger
  BY <1>1, <1>3 DEF SameKey
<1>4. ASSUME NEW r \in Requests, ClaimItem(r) PROVE UNCHANGED ledger
  BY <1>4 DEF ClaimItem
<1> QED
  BY <1>2, <1>3, <1>4, StepCases DEF db

(* No step of any sync changes the category of a stored transaction, or    *)
(* whether the guardrail vouched for it.                                   *)
THEOREM CategoryAlwaysStays == Spec => CategoryStays
<1>1. TypeInv /\ UniqueInv /\ [Next]_vars =>
        [\A x \in ledger, y \in ledger' :
           SameKey(x, y) => x.category = y.category /\ x.guarded = y.guarded]_vars
  BY CategoryStep
<1> QED
  BY <1>1, TypeAlways, UniqueAlways, PTL DEF Spec, CategoryStays

-----------------------------------------------------------------------------
(* The plan limit.                                                         *)
Claims(u) == {r \in Requests : req[r].pc = "claim" /\ req[r].user = u}

(* The number checked and the number inserted meet in the slots that wait  *)
(* for Pluggy: each passed the check when the table was below the limit.   *)
PlanInv ==
  /\ IsFiniteSet(connections)
  /\ \A u \in Users : Cardinality(ConnectionsOf(u)) + Cardinality(Claims(u))
                        <= MaxBankConnections - 1 + Cardinality(Requests)

LEMMA RequestsCount ==
  /\ IsFiniteSet(Requests)
  /\ Cardinality(Requests) \in Nat \ {0}
BY SyncAssumption, FS_CardinalityType, FS_EmptySet

LEMMA ClaimsCount ==
  ASSUME NEW u
  PROVE  /\ IsFiniteSet(Claims(u)) /\ Cardinality(Claims(u)) \in Nat
         /\ Cardinality(Claims(u)) <= Cardinality(Requests)
BY RequestsCount, FS_Subset, FS_CardinalityType DEF Claims

LEMMA ClaimsCountNext ==
  ASSUME NEW u
  PROVE  /\ IsFiniteSet(Claims(u)') /\ Cardinality(Claims(u)') \in Nat
         /\ Cardinality(Claims(u)') <= Cardinality(Requests)
BY RequestsCount, FS_Subset, FS_CardinalityType DEF Claims

LEMMA ConnectionsCount ==
  ASSUME PlanInv, NEW u
  PROVE  /\ IsFiniteSet(ConnectionsOf(u)) /\ Cardinality(ConnectionsOf(u)) \in Nat
BY FS_Subset, FS_CardinalityType DEF PlanInv, ConnectionsOf

(* A slot waits to claim only after CheckQuota.                            *)
LEMMA NoNewClaim ==
  ASSUME TypeInv, NEW r \in Requests, ~CheckQuota(r),
         Begin(r) \/ Proceed(r) \/ Fail(r)
  PROVE  /\ req'[r].pc # "claim"
         /\ \A p \in Requests \ {r} : req'[p] = req[p]
<1> USE DEF Slot
<1>1. req \in [Requests -> Slot]
  BY DEF TypeInv, TypeOK
<1>2. ASSUME Close(r) PROVE req'[r].pc # "claim" /\ \A p \in Requests \ {r} : req'[p] = req[p]
  BY <1>1, <1>2 DEF Close, Idle
<1>3. CASE RefuseItem(r) \/ Finish(r) \/ CommitDelete(r) \/ DatabaseError(r) \/ Fail(r)
  BY <1>2, <1>3 DEF RefuseItem, Finish, CommitDelete, DatabaseError, Fail
<1>4. ASSUME NEW u \in Users, NEW i \in Items, StartSync(r, u, i)
      PROVE  req'[r].pc # "claim" /\ \A p \in Requests \ {r} : req'[p] = req[p]
  BY <1>1, <1>4 DEF StartSync, Idle
<1>5. ASSUME NEW c \in connections, StartDelete(r, c)
      PROVE  req'[r].pc # "claim" /\ \A p \in Requests \ {r} : req'[p] = req[p]
  BY <1>1, <1>5 DEF StartDelete, Idle
<1>6. CASE ClaimItem(r)
  <2>1. PICK id : req' = [req EXCEPT ![r].pc = "accounts", ![r].conn = id]
    BY <1>6 DEF ClaimItem
  <2> QED
    BY <1>1, <2>1
<1>7. CASE SelectAccount(r)
  <2>1. PICK id : req' = [req EXCEPT ![r].pc = "upsert", ![r].acct = id]
    BY <1>7 DEF SelectAccount
  <2> QED
    BY <1>1, <2>1
<1>8. CASE UpsertAccount(r)
  <2>1. CASE \E id : req' = [req EXCEPT ![r].pc = "rows", ![r].acct = id, ![r].dirty = {}]
    BY <1>1, <2>1
  <2>2. CASE req' = [req EXCEPT ![r].pc = "rows", ![r].dirty = {}]
    BY <1>1, <2>2
  <2> QED
    BY <1>8, <2>1, <2>2 DEF UpsertAccount, OpenAccount, RefreshBalance
<1>9. CASE FetchAccounts(r)
  BY <1>1, <1>9 DEF FetchAccounts
<1>10. CASE LeaveLoop(r)
  BY <1>1, <1>10 DEF LeaveLoop
<1>11. CASE ReadRows(r)
  BY <1>1, <1>11 DEF ReadRows
<1>12. CASE FetchTransactions(r)
  BY <1>1, <1>12 DEF FetchTransactions
<1>13. CASE Persist(r)
  BY <1>1, <1>13 DEF Persist
<1> QED
  BY <1>3, <1>4, <1>5, <1>6, <1>7, <1>8, <1>9, <1>10, <1>11, <1>12, <1>13
     DEF Begin, Proceed

LEMMA ClaimsShrink ==
  ASSUME TypeInv, NEW u \in Users, [Next]_vars, \A r \in Requests : ~CheckQuota(r)
  PROVE  Claims(u)' \subseteq Claims(u)
<1>1. ASSUME NEW r \in Requests, Begin(r) \/ Proceed(r) \/ Fail(r)
      PROVE  Claims(u)' \subseteq Claims(u)
  BY <1>1, NoNewClaim DEF Claims
<1>2. CASE BankMoves \/ UNCHANGED vars
  BY <1>2 DEF BankMoves, vars, Claims
<1> QED
  BY <1>1, <1>2 DEF Next

LEMMA PlanStep ==
  ASSUME TypeInv, PlanInv, [Next]_vars
  PROVE  PlanInv'
<1> DEFINE Fits(u) == Cardinality(ConnectionsOf(u)) + Cardinality(Claims(u))
                        <= MaxBankConnections - 1 + Cardinality(Requests)
<1>a. MaxBankConnections \in Nat /\ Cardinality(Requests) \in Nat
  BY SyncAssumption, RequestsCount
<1>b. req \in [Requests -> Slot] /\ connections \subseteq Connection
  BY DEF TypeInv, TypeOK
<1>1. ASSUME NEW r \in Requests, CheckQuota(r) PROVE PlanInv'
  <2>1. UNCHANGED connections /\ IsFiniteSet(connections')
    BY <1>1 DEF CheckQuota, db, PlanInv
  <2>2. ASSUME NEW u \in Users PROVE Fits(u)'
    <3>1. ConnectionsOf(u)' = ConnectionsOf(u)
      BY <2>1 DEF ConnectionsOf
    <3>2. CASE Cardinality(ConnectionsOf(u)) < MaxBankConnections
      BY <1>a, <3>1, <3>2, ConnectionsCount, ClaimsCountNext
    <3>3. CASE ~(Cardinality(ConnectionsOf(u)) < MaxBankConnections)
      <4>1. Claims(u)' \subseteq Claims(u)
        <5>1. CASE Close(r)
          BY <1>b, <5>1 DEF Close, Idle, Claims
        <5>2. CASE req[r].user # u /\ req' = [req EXCEPT ![r].pc = "claim"]
          BY <1>b, <5>2 DEF Claims, Slot
        <5>3. req[r].user = u => Close(r)
          BY <1>a, <1>1, <3>3, ConnectionsCount DEF CheckQuota
        <5> QED
          BY <1>1, <5>1, <5>2, <5>3 DEF CheckQuota
      <4>2. Cardinality(Claims(u)') <= Cardinality(Claims(u))
        BY <4>1, ClaimsCount, FS_Subset
      <4> QED
        BY <1>a, <3>1, <4>2, ConnectionsCount, ClaimsCount, ClaimsCountNext DEF PlanInv
    <3> QED
      BY <3>2, <3>3
  <2> QED
    BY <2>1, <2>2 DEF PlanInv
<1>2. ASSUME NEW r \in Requests, ClaimItem(r) PROVE PlanInv'
  <2>1. PICK id : /\ connections' = connections \cup
                        {[id |-> id, user |-> req[r].user, item |-> req[r].item,
                          synced |-> FALSE]}
                  /\ req' = [req EXCEPT ![r].pc = "accounts", ![r].conn = id]
    BY <1>2 DEF ClaimItem
  <2> DEFINE row == [id |-> id, user |-> req[r].user, item |-> req[r].item,
                     synced |-> FALSE]
  <2>2. IsFiniteSet(connections')
    BY <2>1, FS_AddElement DEF PlanInv
  <2>3. ASSUME NEW u \in Users PROVE Fits(u)'
    <3>1. CASE req[r].user = u
      <4>1. ConnectionsOf(u)' = ConnectionsOf(u) \cup {row}
        BY <2>1, <3>1 DEF ConnectionsOf
      <4>2. Cardinality(ConnectionsOf(u)') <= Cardinality(ConnectionsOf(u)) + 1
        <5> DEFINE n == Cardinality(ConnectionsOf(u))
        <5> HIDE DEF row
        <5>1. n \in Nat /\ IsFiniteSet(ConnectionsOf(u))
          BY ConnectionsCount
        <5>2. Cardinality(ConnectionsOf(u) \cup {row}) \in {n, n + 1}
          BY <5>1, FS_AddElement
        <5>3. n <= n + 1 /\ n + 1 <= n + 1
          BY <5>1
        <5> QED
          BY <4>1, <5>2, <5>3
      <4>3. Claims(u)' = Claims(u) \ {r} /\ r \in Claims(u)
        BY <1>b, <1>2, <2>1, <3>1 DEF ClaimItem, Claims, Slot
      <4>4. Cardinality(Claims(u)') = Cardinality(Claims(u)) - 1
        BY <4>3, ClaimsCount, FS_RemoveElement
      <4>5. Cardinality(ConnectionsOf(u)') \in Nat
        BY <4>1, ConnectionsCount, FS_AddElement, FS_CardinalityType
      <4> QED
        BY <1>a, <4>2, <4>4, <4>5, ConnectionsCount, ClaimsCount DEF PlanInv
    <3>2. CASE req[r].user # u
      <4>1. ConnectionsOf(u)' = ConnectionsOf(u)
        BY <2>1, <3>2 DEF ConnectionsOf
      <4>2. Claims(u)' = Claims(u)
        BY <1>b, <2>1, <3>2 DEF Claims, Slot
      <4> QED
        BY <4>1, <4>2 DEF PlanInv
    <3> QED
      BY <3>1, <3>2
  <2> QED
    BY <2>2, <2>3 DEF PlanInv
<1>3. ASSUME \A r \in Requests : ~CheckQuota(r) /\ ~ClaimItem(r) PROVE PlanInv'
  <2>1. /\ IsFiniteSet(connections')
        /\ \A u \in Users : /\ Cardinality(ConnectionsOf(u)') \in Nat
                            /\ Cardinality(ConnectionsOf(u)')
                                 <= Cardinality(ConnectionsOf(u))
    <3>1. CASE connections' \subseteq connections
      BY <3>1, ConnectionsCount, FS_Subset, FS_CardinalityType
         DEF ConnectionsOf, PlanInv
    <3>2. ASSUME NEW r \in Requests, Finish(r)
          PROVE  /\ IsFiniteSet(connections')
                 /\ \A u \in Users : /\ Cardinality(ConnectionsOf(u)') \in Nat
                                     /\ Cardinality(ConnectionsOf(u)')
                                          <= Cardinality(ConnectionsOf(u))
      <4> DEFINE done(c) == IF c.id = req[r].conn THEN [c EXCEPT !.synced = TRUE] ELSE c
      <4>1. connections' = {done(c) : c \in connections}
        BY <3>2 DEF Finish
      <4>2. \A c \in connections : done(c).user = c.user
        BY <1>b DEF Connection
      <4> HIDE DEF done
      <4>3. ASSUME NEW S \in SUBSET connections
            PROVE  /\ IsFiniteSet({done(c) : c \in S})
                   /\ Cardinality({done(c) : c \in S}) <= Cardinality(S)
        <5> DEFINE f == [c \in S |-> done(c)]
        <5>1. IsFiniteSet(S)
          BY FS_Subset DEF PlanInv
        <5>2. f \in Surjection(S, {done(c) : c \in S})
          BY DEF Surjection
        <5> HIDE DEF f
        <5> QED
          BY <5>1, <5>2, FS_Surjection DEF ExistsSurjection
      <4>4. ASSUME NEW u \in Users
            PROVE  ConnectionsOf(u)' = {done(c) : c \in ConnectionsOf(u)}
        BY <4>1, <4>2 DEF ConnectionsOf
      <4>5. \A u : ConnectionsOf(u) \in SUBSET connections
        BY DEF ConnectionsOf
      <4> QED
        BY <4>1, <4>3, <4>4, <4>5, FS_CardinalityType
    <3>3. ASSUME NEW r \in Requests,
                 UpsertAccount(r) \/ Persist(r) \/ CommitDelete(r)
          PROVE  connections' \subseteq connections
      BY <3>3 DEF UpsertAccount, Persist, CommitDelete
    <3>4. UNCHANGED db => connections' \subseteq connections
      BY DEF db
    <3> QED
      BY <1>3, <3>1, <3>2, <3>3, <3>4, StepCases
  <2>2. ASSUME NEW u \in Users PROVE Fits(u)'
    <3>1. Cardinality(Claims(u)') <= Cardinality(Claims(u))
      BY <1>3, ClaimsShrink, ClaimsCount, FS_Subset
    <3> QED
      BY <1>a, <2>1, <3>1, ConnectionsCount, ClaimsCount, ClaimsCountNext DEF PlanInv
  <2> QED
    BY <2>1, <2>2 DEF PlanInv
<1> QED
  BY <1>1, <1>2, <1>3

LEMMA PlanInit == Init => PlanInv
<1> SUFFICES ASSUME Init PROVE PlanInv
  OBVIOUS
<1>1. ASSUME NEW u \in Users
      PROVE  Cardinality(ConnectionsOf(u)) = 0 /\ Cardinality(Claims(u)) = 0
  <2>1. ConnectionsOf(u) = {} /\ Claims(u) = {}
    BY DEF Init, ConnectionsOf, Claims, Idle
  <2> QED
    BY <2>1, FS_EmptySet
<1>2. IsFiniteSet(connections)
  BY FS_EmptySet DEF Init
<1> QED
  BY <1>1, <1>2, RequestsCount, SyncAssumption DEF PlanInv

(* A user holds at most one connection per other worker slot above the     *)
(* plan limit, for any limit and any number of slots.                      *)
THEOREM OverrunAlwaysBounded == Spec => []OverrunIsBounded
<1>1. PlanInv => OverrunIsBounded
  <2> SUFFICES ASSUME PlanInv, NEW u \in Users
               PROVE  Cardinality(ConnectionsOf(u))
                        <= MaxBankConnections + Cardinality(Requests) - 1
    BY DEF OverrunIsBounded
  <2> QED
    BY ConnectionsCount, ClaimsCount, RequestsCount, SyncAssumption DEF PlanInv
<1>2. TypeInv /\ PlanInv /\ [Next]_vars => PlanInv'
  BY PlanStep
<1> QED
  BY <1>1, <1>2, PlanInit, TypeAlways, PTL DEF Spec

(* One worker at a time keeps the plan limit itself, so the limit is lost  *)
(* to the race alone and not to any retry or failure of one request.       *)
THEOREM OneWorkerKeepsThePlan ==
  ASSUME Cardinality(Requests) = 1
  PROVE  Spec => []WithinPlan
<1>1. OverrunIsBounded => WithinPlan
  BY SyncAssumption DEF OverrunIsBounded, WithinPlan
<1> QED
  BY <1>1, OverrunAlwaysBounded, PTL

-----------------------------------------------------------------------------
(* Copies of one connection, or of one account, and who may still add one. *)
Copies(i) == {c \in connections : c.item = i}
Linking(i) == {r \in Requests : req[r].pc \in {"quota", "claim"} /\ req[r].item = i}

AccountRows(id, m) == {a \in accounts : a.connection = id /\ a.remote = m}
Opening(id, m) ==
  {r \in Requests : /\ req[r].pc = "upsert" /\ req[r].acct = 0
                    /\ req[r].conn = id /\ Head(req[r].todo) = m}

(* Slots that found no row and rows that are there: together one per slot. *)
Few(rows, pending) ==
  IsFiniteSet(rows) /\ Cardinality(rows) + Cardinality(pending) <= Cardinality(Requests)

CopyInv ==
  /\ \A i \in Items : Few(Copies(i), Linking(i))
  /\ \A id \in Id, m \in RemoteAccounts : Few(AccountRows(id, m), Opening(id, m))

(* The select that found nothing: whoever waits, no row is there.          *)
LEMMA FewAtSelect ==
  ASSUME NEW pending \in SUBSET Requests
  PROVE  Few({}, pending)
BY RequestsCount, FS_EmptySet, FS_Subset, FS_CardinalityType DEF Few

(* The insert: a slot that waited becomes a row.                           *)
LEMMA FewAfterInsert ==
  ASSUME NEW rows, NEW pending \in SUBSET Requests, Few(rows, pending),
         NEW row, NEW r \in pending
  PROVE  Few(rows \cup {row}, pending \ {r})
<1> DEFINE n == Cardinality(rows)
           p == Cardinality(pending)
<1>1. IsFiniteSet(rows) /\ IsFiniteSet(pending)
  BY RequestsCount, FS_Subset DEF Few
<1>2. n \in Nat /\ p \in Nat /\ Cardinality(Requests) \in Nat
  BY <1>1, RequestsCount, FS_CardinalityType
<1>3. IsFiniteSet(rows \cup {row}) /\ Cardinality(rows \cup {row}) \in {n, n + 1}
  BY <1>1, FS_AddElement
<1>4. Cardinality(pending \ {r}) = p - 1
  BY <1>1, FS_RemoveElement
<1>5. n + p <= Cardinality(Requests)
  BY DEF Few
<1> HIDE DEF n, p
<1> QED
  BY <1>2, <1>3, <1>4, <1>5 DEF Few

(* Any other step: rows go or are rewritten one by one, slots stop waiting.*)
LEMMA FewAfterRewrite ==
  ASSUME NEW rows, NEW pending \in SUBSET Requests, Few(rows, pending),
         NEW f, NEW kept \in SUBSET rows, NEW left \in SUBSET pending
  PROVE  Few({f[x] : x \in kept}, left)
<1> DEFINE g == [x \in kept |-> f[x]]
<1>1. IsFiniteSet(rows) /\ IsFiniteSet(pending)
  BY RequestsCount, FS_Subset DEF Few
<1>2. IsFiniteSet(kept) /\ Cardinality(kept) <= Cardinality(rows)
  BY <1>1, FS_Subset
<1>3. Cardinality(left) <= Cardinality(pending) /\ IsFiniteSet(left)
  BY <1>1, FS_Subset
<1>4. g \in Surjection(kept, {f[x] : x \in kept})
  BY DEF Surjection
<1> HIDE DEF g
<1>5. /\ IsFiniteSet({f[x] : x \in kept})
      /\ Cardinality({f[x] : x \in kept}) <= Cardinality(kept)
  BY <1>2, <1>4, FS_Surjection
<1>6. /\ Cardinality(rows) \in Nat /\ Cardinality(kept) \in Nat
      /\ Cardinality(pending) \in Nat /\ Cardinality(left) \in Nat
      /\ Cardinality({f[x] : x \in kept}) \in Nat /\ Cardinality(Requests) \in Nat
  BY <1>1, <1>2, <1>3, <1>5, RequestsCount, FS_CardinalityType
<1>7. Cardinality(rows) + Cardinality(pending) <= Cardinality(Requests)
  BY DEF Few
<1> QED
  BY <1>2, <1>3, <1>5, <1>6, <1>7 DEF Few

LEMMA FewAfterLoss ==
  ASSUME NEW rows, NEW pending \in SUBSET Requests, Few(rows, pending),
         NEW kept \in SUBSET rows, NEW left \in SUBSET pending
  PROVE  Few(kept, left)
<1> DEFINE f == [x \in rows |-> x]
<1>1. kept = {f[x] : x \in kept}
  OBVIOUS
<1> HIDE DEF f
<1>2. Few({f[x] : x \in kept}, left)
  BY FewAfterRewrite
<1> QED
  BY <1>1, <1>2

(* What a step of r does to the slots that found no row.                   *)
PendingNext(r) ==
  /\ \A p \in Requests \ {r} : req'[p] = req[p]
  /\ req'[r].pc \in {"quota", "claim"} =>
       \/ Copies(req'[r].item) = {} /\ UNCHANGED connections
       \/ req[r].pc \in {"quota", "claim"} /\ req'[r].item = req[r].item
  /\ req'[r].pc = "upsert" =>
       /\ UNCHANGED accounts
       /\ req'[r].acct = 0 => AccountRows(req'[r].conn, Head(req'[r].todo)) = {}

LEMMA PendingAfter ==
  ASSUME TypeInv, NEW r \in Requests, Begin(r) \/ Proceed(r) \/ Fail(r)
  PROVE  PendingNext(r)
<1> USE DEF Slot
<1>1. req \in [Requests -> Slot]
  BY DEF TypeInv, TypeOK
<1>2. ASSUME Close(r) PROVE PendingNext(r)
  BY <1>1, <1>2 DEF Close, Idle, PendingNext
<1>3. CASE RefuseItem(r) \/ Finish(r) \/ CommitDelete(r) \/ DatabaseError(r) \/ Fail(r)
  BY <1>2, <1>3 DEF RefuseItem, Finish, CommitDelete, DatabaseError, Fail
<1>4. ASSUME NEW u \in Users, NEW i \in Items, StartSync(r, u, i) PROVE PendingNext(r)
  <2>1. UNCHANGED connections
    BY <1>4 DEF StartSync, db
  <2>2. CASE Copies(i) = {}
    <3>1. /\ req'[r].pc = "upsert" => FALSE
          /\ req'[r].item = i
          /\ \A p \in Requests \ {r} : req'[p] = req[p]
      BY <1>1, <1>4 DEF StartSync, Idle
    <3> QED
      BY <2>1, <2>2, <3>1 DEF PendingNext
  <2>3. CASE Copies(i) # {}
    <3>1. /\ req'[r].pc = "accounts"
          /\ \A p \in Requests \ {r} : req'[p] = req[p]
      BY <1>1, <1>4, <2>3 DEF StartSync, Idle, Copies
    <3> QED
      BY <3>1 DEF PendingNext
  <2> QED
    BY <2>2, <2>3
<1>5. ASSUME NEW c \in connections, StartDelete(r, c) PROVE PendingNext(r)
  BY <1>1, <1>5 DEF StartDelete, Idle, PendingNext
<1>6. CASE ClaimItem(r)
  <2>1. PICK id : req' = [req EXCEPT ![r].pc = "accounts", ![r].conn = id]
    BY <1>6 DEF ClaimItem
  <2> QED
    BY <1>1, <2>1 DEF PendingNext
<1>7. CASE SelectAccount(r)
  <2>1. PICK id : /\ req' = [req EXCEPT ![r].pc = "upsert", ![r].acct = id]
                  /\ \/ AccountRows(req[r].conn, Head(req[r].todo)) = {}
                     \/ \E a \in accounts : id = a.id
    BY <1>7 DEF SelectAccount, AccountRows
  <2>2. \A a \in accounts : a.id # 0
    BY DEF TypeInv, TypeOK, Account, Id
  <2>3. UNCHANGED accounts
    BY <1>7 DEF SelectAccount, db
  <2>4. /\ req'[r].pc = "upsert" /\ req'[r].acct = id
        /\ req'[r].conn = req[r].conn /\ req'[r].todo = req[r].todo
        /\ \A p \in Requests \ {r} : req'[p] = req[p]
    BY <1>1, <2>1
  <2> QED
    BY <2>1, <2>2, <2>3, <2>4 DEF PendingNext
<1>8. CASE UpsertAccount(r)
  <2>1. ASSUME OpenAccount(r)
        PROVE  req'[r].pc = "rows" /\ \A p \in Requests \ {r} : req'[p] = req[p]
    BY <1>1, <2>1 DEF OpenAccount
  <2>2. ASSUME RefreshBalance(r)
        PROVE  req'[r].pc = "rows" /\ \A p \in Requests \ {r} : req'[p] = req[p]
    BY <1>1, <2>2 DEF RefreshBalance
  <2> QED
    BY <1>8, <2>1, <2>2 DEF UpsertAccount, PendingNext
<1>9. CASE FetchAccounts(r)
  BY <1>1, <1>9 DEF FetchAccounts, PendingNext
<1>10. CASE LeaveLoop(r)
  BY <1>1, <1>10 DEF LeaveLoop, PendingNext
<1>11. CASE ReadRows(r)
  BY <1>1, <1>11 DEF ReadRows, PendingNext
<1>12. CASE FetchTransactions(r)
  BY <1>1, <1>12 DEF FetchTransactions, PendingNext
<1>13. CASE Persist(r)
  BY <1>1, <1>13 DEF Persist, PendingNext
<1>14. CASE CheckQuota(r)
  <2>1. CASE req[r].pc = "quota" /\ req' = [req EXCEPT ![r].pc = "claim"]
    BY <1>1, <2>1 DEF PendingNext
  <2> QED
    BY <1>2, <1>14, <2>1 DEF CheckQuota
<1> QED
  BY <1>3, <1>4, <1>5, <1>6, <1>7, <1>8, <1>9, <1>10, <1>11, <1>12, <1>13, <1>14
     DEF Begin, Proceed

(* Slots that wait to insert are never more after a step than before it,   *)
(* but where a select finds no row.                                        *)
LEMMA LinkingAfter ==
  ASSUME TypeInv, [Next]_vars, NEW i \in Items
  PROVE  \/ Copies(i) = {} /\ UNCHANGED connections
         \/ Linking(i)' \subseteq Linking(i)
<1>1. ASSUME NEW r \in Requests, PendingNext(r)
      PROVE  \/ Copies(i) = {} /\ UNCHANGED connections
             \/ Linking(i)' \subseteq Linking(i)
  BY <1>1 DEF PendingNext, Linking
<1>2. CASE BankMoves \/ UNCHANGED vars
  BY <1>2 DEF BankMoves, vars, Linking
<1> QED
  BY <1>1, <1>2, PendingAfter DEF Next

LEMMA OpeningAfter ==
  ASSUME TypeInv, [Next]_vars, NEW id \in Id, NEW m \in RemoteAccounts
  PROVE  \/ AccountRows(id, m) = {} /\ UNCHANGED accounts
         \/ Opening(id, m)' \subseteq Opening(id, m)
<1>1. ASSUME NEW r \in Requests, PendingNext(r)
      PROVE  \/ AccountRows(id, m) = {} /\ UNCHANGED accounts
             \/ Opening(id, m)' \subseteq Opening(id, m)
  BY <1>1 DEF PendingNext, Opening
<1>2. CASE BankMoves \/ UNCHANGED vars
  BY <1>2 DEF BankMoves, vars, Opening
<1> QED
  BY <1>1, <1>2, PendingAfter DEF Next

(* What a step does to the rows of one item.                               *)
LEMMA CopiesAfter ==
  ASSUME TypeInv, [Next]_vars, NEW i \in Items, Few(Copies(i), Linking(i))
  PROVE  Few(Copies(i)', Linking(i)')
<1>a. req \in [Requests -> Slot] /\ connections \subseteq Connection
  BY DEF TypeInv, TypeOK
<1>b. Linking(i) \in SUBSET Requests /\ Linking(i)' \in SUBSET Requests
  BY DEF Linking
<1>1. CASE Copies(i) = {} /\ UNCHANGED connections
  <2>1. Copies(i)' = {}
    BY <1>1 DEF Copies
  <2> QED
    BY <1>b, <2>1, FewAtSelect
<1>2. ASSUME Linking(i)' \subseteq Linking(i), connections' \subseteq connections
      PROVE  Few(Copies(i)', Linking(i)')
  <2>1. Copies(i)' \in SUBSET Copies(i)
    BY <1>2 DEF Copies
  <2> QED
    BY <1>b, <1>2, <2>1, FewAfterLoss
<1>3. ASSUME Linking(i)' \subseteq Linking(i), NEW r \in Requests, Finish(r)
      PROVE  Few(Copies(i)', Linking(i)')
  <2> DEFINE f == [c \in connections |->
                     IF c.id = req[r].conn THEN [c EXCEPT !.synced = TRUE] ELSE c]
  <2>1. connections' = {f[c] : c \in connections}
    BY <1>3 DEF Finish
  <2>2. \A c \in connections : f[c].item = c.item
    BY <1>a DEF Connection
  <2> HIDE DEF f
  <2>3. Copies(i)' = {f[c] : c \in Copies(i)}
    BY <2>1, <2>2 DEF Copies
  <2>4. Few({f[c] : c \in Copies(i)}, Linking(i)')
    BY <1>b, <1>3, FewAfterRewrite
  <2> QED
    BY <2>3, <2>4
<1>4. ASSUME Linking(i)' \subseteq Linking(i), NEW r \in Requests, ClaimItem(r)
      PROVE  Few(Copies(i)', Linking(i)')
  <2>1. PICK id : /\ connections' = connections \cup
                        {[id |-> id, user |-> req[r].user, item |-> req[r].item,
                          synced |-> FALSE]}
                  /\ req' = [req EXCEPT ![r].pc = "accounts", ![r].conn = id]
    BY <1>4 DEF ClaimItem
  <2> DEFINE row == [id |-> id, user |-> req[r].user, item |-> req[r].item,
                     synced |-> FALSE]
  <2>2. CASE req[r].item = i
    <3>1. row.item = i
      BY <2>2
    <3> HIDE DEF row
    <3>2. Copies(i)' = Copies(i) \cup {row}
      BY <2>1, <3>1 DEF Copies, row
    <3>3. r \in Linking(i) /\ r \notin Linking(i)'
      BY <1>a, <1>4, <2>1, <2>2 DEF ClaimItem, Linking, Slot
    <3>4. Few(Copies(i) \cup {row}, Linking(i) \ {r})
      BY <1>b, <3>3, FewAfterInsert
    <3>5. Linking(i)' \in SUBSET (Linking(i) \ {r})
      BY <1>4, <3>3
    <3>6. Linking(i) \ {r} \in SUBSET Requests
      BY <1>b
    <3> QED
      BY <3>2, <3>4, <3>5, <3>6, FewAfterLoss
  <2>3. CASE req[r].item # i
    <3>1. Copies(i)' \in SUBSET Copies(i)
      BY <2>1, <2>3 DEF Copies
    <3> QED
      BY <1>b, <1>4, <3>1, FewAfterLoss
  <2> QED
    BY <2>2, <2>3
<1>5. ASSUME NEW r \in Requests, UpsertAccount(r) \/ Persist(r) \/ CommitDelete(r)
      PROVE  connections' \subseteq connections
  BY <1>5 DEF UpsertAccount, Persist, CommitDelete
<1>6. UNCHANGED db => connections' \subseteq connections
  BY DEF db
<1> QED
  BY <1>1, <1>2, <1>3, <1>4, <1>5, <1>6, LinkingAfter, StepCases

(* What a step does to the rows of one account.                            *)
LEMMA AccountRowsAfter ==
  ASSUME TypeInv, [Next]_vars, NEW id \in Id, NEW m \in RemoteAccounts,
         Few(AccountRows(id, m), Opening(id, m))
  PROVE  Few(AccountRows(id, m)', Opening(id, m)')
<1>a. req \in [Requests -> Slot] /\ accounts \subseteq Account
  BY DEF TypeInv, TypeOK
<1>b. Opening(id, m) \in SUBSET Requests /\ Opening(id, m)' \in SUBSET Requests
  BY DEF Opening
<1>1. CASE AccountRows(id, m) = {} /\ UNCHANGED accounts
  <2>1. AccountRows(id, m)' = {}
    BY <1>1 DEF AccountRows
  <2> QED
    BY <1>b, <2>1, FewAtSelect
<1>2. ASSUME Opening(id, m)' \subseteq Opening(id, m), accounts' \subseteq accounts
      PROVE  Few(AccountRows(id, m)', Opening(id, m)')
  <2>1. AccountRows(id, m)' \in SUBSET AccountRows(id, m)
    BY <1>2 DEF AccountRows
  <2> QED
    BY <1>b, <1>2, <2>1, FewAfterLoss
<1>3. ASSUME Opening(id, m)' \subseteq Opening(id, m), NEW r \in Requests, RefreshBalance(r)
      PROVE  Few(AccountRows(id, m)', Opening(id, m)')
  <2> DEFINE f == [a \in accounts |->
                     IF a.id = req[r].acct
                     THEN [a EXCEPT !.balance = req[r].balance] ELSE a]
  <2>1. accounts' = {f[a] : a \in accounts}
    BY <1>3 DEF RefreshBalance
  <2>2. \A a \in accounts : f[a].connection = a.connection /\ f[a].remote = a.remote
    BY <1>a DEF Account
  <2> HIDE DEF f
  <2>3. AccountRows(id, m)' = {f[a] : a \in AccountRows(id, m)}
    BY <2>1, <2>2 DEF AccountRows
  <2>4. Few({f[a] : a \in AccountRows(id, m)}, Opening(id, m)')
    <3>1. /\ AccountRows(id, m) \in SUBSET AccountRows(id, m)
          /\ Opening(id, m)' \in SUBSET Opening(id, m)
      BY <1>3
    <3> QED
      BY <1>b, <3>1, FewAfterRewrite
  <2> QED
    BY <2>3, <2>4
<1>4. ASSUME Opening(id, m)' \subseteq Opening(id, m), NEW r \in Requests,
             req[r].pc = "upsert", req[r].acct = 0, OpenAccount(r)
      PROVE  Few(AccountRows(id, m)', Opening(id, m)')
  <2>1. PICK n : /\ accounts' = accounts \cup
                      {[id |-> n, connection |-> req[r].conn,
                        remote |-> Head(req[r].todo), balance |-> req[r].balance]}
                 /\ req' = [req EXCEPT ![r].pc = "rows", ![r].acct = n, ![r].dirty = {}]
    BY <1>4 DEF OpenAccount
  <2> DEFINE row == [id |-> n, connection |-> req[r].conn,
                     remote |-> Head(req[r].todo), balance |-> req[r].balance]
  <2>2. CASE r \in Opening(id, m)
    <3>1. row.connection = id /\ row.remote = m
      BY <2>2 DEF Opening
    <3> HIDE DEF row
    <3>2. AccountRows(id, m)' = AccountRows(id, m) \cup {row}
      BY <2>1, <3>1 DEF AccountRows, row
    <3>3. r \notin Opening(id, m)'
      <4>1. req'[r].pc = "rows"
        BY <1>a, <1>4 DEF Slot, OpenAccount
      <4> QED
        BY <4>1 DEF Opening
    <3>4. Few(AccountRows(id, m) \cup {row}, Opening(id, m) \ {r})
      BY <1>b, <2>2, FewAfterInsert
    <3>5. Opening(id, m)' \in SUBSET (Opening(id, m) \ {r})
      BY <1>4, <3>3
    <3>6. Opening(id, m) \ {r} \in SUBSET Requests
      BY <1>b
    <3> QED
      BY <3>2, <3>4, <3>5, <3>6, FewAfterLoss
  <2>3. CASE r \notin Opening(id, m)
    <3>1. ~(row.connection = id /\ row.remote = m)
      BY <1>4, <2>3 DEF Opening
    <3> HIDE DEF row
    <3>2. AccountRows(id, m)' \in SUBSET AccountRows(id, m)
      BY <2>1, <3>1 DEF AccountRows, row
    <3> QED
      BY <1>b, <1>4, <3>2, FewAfterLoss
  <2> QED
    BY <2>2, <2>3
<1>5. ASSUME NEW r \in Requests,
             ClaimItem(r) \/ Persist(r) \/ Finish(r) \/ CommitDelete(r)
      PROVE  accounts' \subseteq accounts
  BY <1>5 DEF ClaimItem, Persist, Finish, CommitDelete
<1>6. UNCHANGED db => accounts' \subseteq accounts
  BY DEF db
<1>7. ASSUME NEW r \in Requests, UpsertAccount(r)
      PROVE  \/ req[r].pc = "upsert" /\ req[r].acct = 0 /\ OpenAccount(r)
             \/ RefreshBalance(r)
  BY <1>7 DEF UpsertAccount
<1> QED
  BY <1>1, <1>2, <1>3, <1>4, <1>5, <1>6, <1>7, OpeningAfter, StepCases

(* An item has at most one connection, and a connection one row of each    *)
(* remote account, per worker slot, whatever races, fails or is unlinked,  *)
(* on Postgres and on SQLite.                                              *)
THEOREM CopiesAlwaysFew == Spec => []OneCopyPerSlot
<1>1. Init => CopyInv
  <2> SUFFICES ASSUME Init PROVE CopyInv
    OBVIOUS
  <2>1. \A i \in Items : Copies(i) = {} /\ Linking(i) \in SUBSET Requests
    BY DEF Init, Copies, Linking
  <2>2. \A id \in Id, m \in RemoteAccounts :
           AccountRows(id, m) = {} /\ Opening(id, m) \in SUBSET Requests
    BY DEF Init, AccountRows, Opening
  <2> QED
    BY <2>1, <2>2, FewAtSelect DEF CopyInv
<1>2. TypeInv /\ CopyInv /\ [Next]_vars => CopyInv'
  <2> SUFFICES ASSUME TypeInv, CopyInv, [Next]_vars PROVE CopyInv'
    OBVIOUS
  <2>1. \A i \in Items : Few(Copies(i)', Linking(i)')
    BY CopiesAfter DEF CopyInv
  <2>2. \A id \in Id, m \in RemoteAccounts : Few(AccountRows(id, m)', Opening(id, m)')
    BY AccountRowsAfter DEF CopyInv
  <2> QED
    BY <2>1, <2>2 DEF CopyInv, Few
<1>3. TypeInv /\ CopyInv => OneCopyPerSlot
  <2> SUFFICES ASSUME TypeInv, CopyInv PROVE OneCopyPerSlot
    OBVIOUS
  <2>1. ASSUME NEW rows, NEW pending \in SUBSET Requests, Few(rows, pending)
        PROVE  Cardinality(rows) <= Cardinality(Requests)
    <3>1. IsFiniteSet(rows) /\ IsFiniteSet(pending)
      BY <2>1, RequestsCount, FS_Subset DEF Few
    <3>2. Cardinality(rows) \in Nat /\ Cardinality(pending) \in Nat
          /\ Cardinality(Requests) \in Nat
      BY <3>1, RequestsCount, FS_CardinalityType
    <3> QED
      BY <2>1, <3>2 DEF Few
  <2>2. \A i \in Items : Cardinality(Copies(i)) <= Cardinality(Requests)
    BY <2>1 DEF CopyInv, Linking
  <2>3. \A id \in Id, m \in RemoteAccounts :
           Cardinality(AccountRows(id, m)) <= Cardinality(Requests)
    BY <2>1 DEF CopyInv, Opening
  <2>4. {a.connection : a \in accounts} \subseteq Id
    BY DEF TypeInv, TypeOK, Account
  <2> QED
    BY <2>2, <2>3, <2>4 DEF OneCopyPerSlot, Copies, AccountRows
<1> QED
  BY <1>1, <1>2, <1>3, TypeAlways, PTL DEF Spec

-----------------------------------------------------------------------------
(* What Pluggy lists: accounts under an item, ids in an account's feeds.   *)
Lists(item, remote) ==
  \E k \in DOMAIN AccountsOf[item] : AccountsOf[item][k] = remote
Feeds(remote, tid) ==
  \E v \in 1..LastVersion : \E i \in DOMAIN Feed[remote][v] : Feed[remote][v][i].tid = tid

(* No id is handed out twice, so the row that answers to an id now is the  *)
(* row that got it.                                                        *)
IdsHang(cs, as, l, o) ==
  /\ \A c \in cs : c.id <= l
  /\ \A c, d \in cs : c.id = d.id => c.item = d.item
  /\ \A a \in as : a.id <= o
  /\ \A a, b \in as : a.id = b.id => a.remote = b.remote /\ a.connection = b.connection

(* The ids a slot carries stand for rows of its item, or for rows that are *)
(* gone.                                                                   *)
SlotHangs(s, cs, as, l, o) ==
  /\ s.conn <= l
  /\ s.pc \in InSync \ {"quota", "claim"} => \A c \in cs : c.id = s.conn => c.item = s.item
  /\ \A k \in DOMAIN s.todo : Lists(s.item, s.todo[k])
  /\ s.acct <= o
  /\ s.pc \in {"upsert", "rows", "fetch"} =>
       \A a \in as : a.id = s.acct => a.remote = Head(s.todo) /\ a.connection = s.conn
  /\ \A e \in s.new :
       /\ e.account <= o
       /\ \A a \in as : a.id = e.account => Feeds(a.remote, e.tid) /\ a.connection = s.conn
  /\ \A id \in s.doomed : id <= o /\ \A a \in as : a.id = id => a.connection = s.conn
  /\ s.pc \in {"quota", "claim"} => s.new = {} /\ s.doomed = {}

HangInv ==
  /\ RowsHangUnderTheirBank
  /\ IdsHang(connections, accounts, linked, opened)
  /\ \A r \in Requests : SlotHangs(req[r], connections, accounts, linked, opened)

(* Old rows keep their item or remote account; a new one has a new id.     *)
Grown(cs, as, l, o, cs2, as2, l2, o2) ==
  /\ l <= l2 /\ o <= o2
  /\ \A d \in cs2 : l < d.id \/ \E c \in cs : c.id = d.id /\ c.item = d.item
  /\ \A b \in as2 :
       \/ o < b.id
       \/ \E a \in as : a.id = b.id /\ a.remote = b.remote /\ a.connection = b.connection

LEMMA SlotStaysHung ==
  ASSUME NEW s \in Slot, NEW cs, NEW as, NEW l \in Nat, NEW o \in Nat,
         NEW cs2 \in SUBSET Connection, NEW as2 \in SUBSET Account,
         NEW l2 \in Nat, NEW o2 \in Nat,
         SlotHangs(s, cs, as, l, o), Grown(cs, as, l, o, cs2, as2, l2, o2)
  PROVE  SlotHangs(s, cs2, as2, l2, o2)
<1>1. /\ s.conn \in Nat /\ s.acct \in Nat /\ \A e \in s.new : e.account \in Nat
      /\ \A id \in s.doomed : id \in Nat
  BY DEF Slot, Entry, Id
<1>2. /\ \A d \in cs2 : d.id \in Nat
      /\ \A b \in as2 : b.id \in Nat
  BY DEF Connection, Account, Id
<1>3. s.conn <= l2 /\ s.acct <= o2
  BY <1>1 DEF SlotHangs, Grown
<1>4. ASSUME s.pc \in InSync \ {"quota", "claim"}, NEW d \in cs2, d.id = s.conn
      PROVE  d.item = s.item
  <2>1. ~(l < d.id)
    BY <1>1, <1>2, <1>4 DEF SlotHangs
  <2>2. PICK c \in cs : c.id = d.id /\ c.item = d.item
    BY <2>1 DEF Grown
  <2> QED
    BY <1>4, <2>2 DEF SlotHangs
<1>g. ASSUME NEW b \in as2, b.id <= o
      PROVE  \E a \in as : a.id = b.id /\ a.remote = b.remote /\ a.connection = b.connection
  <2>1. ~(o < b.id)
    BY <1>2, <1>g
  <2> QED
    BY <2>1 DEF Grown
<1>5. ASSUME s.pc \in {"upsert", "rows", "fetch"}, NEW b \in as2, b.id = s.acct
      PROVE  b.remote = Head(s.todo) /\ b.connection = s.conn
  <2>1. s.acct <= o
    BY DEF SlotHangs
  <2>2. PICK a \in as : a.id = b.id /\ a.remote = b.remote /\ a.connection = b.connection
    BY <1>5, <1>g, <2>1
  <2> QED
    BY <1>5, <2>2 DEF SlotHangs
<1>6. ASSUME NEW e \in s.new
      PROVE  /\ e.account <= o2
             /\ \A b \in as2 : b.id = e.account =>
                  Feeds(b.remote, e.tid) /\ b.connection = s.conn
  <2>1. e.account \in Nat /\ e.account <= o /\ o <= o2
    BY <1>1 DEF SlotHangs, Grown
  <2>2. ASSUME NEW b \in as2, b.id = e.account
        PROVE  Feeds(b.remote, e.tid) /\ b.connection = s.conn
    <3>2. PICK a \in as : a.id = b.id /\ a.remote = b.remote /\ a.connection = b.connection
      BY <1>g, <2>1, <2>2
    <3> QED
      BY <2>2, <3>2 DEF SlotHangs
  <2> QED
    BY <2>1, <2>2
<1>7. \A k \in DOMAIN s.todo : Lists(s.item, s.todo[k])
  BY DEF SlotHangs
<1>8. ASSUME NEW id \in s.doomed
      PROVE  id <= o2 /\ \A b \in as2 : b.id = id => b.connection = s.conn
  <2>1. id \in Nat /\ id <= o /\ o <= o2
    BY <1>1 DEF SlotHangs, Grown
  <2>2. ASSUME NEW b \in as2, b.id = id PROVE b.connection = s.conn
    BY <1>g, <2>1, <2>2 DEF SlotHangs
  <2> QED
    BY <2>1, <2>2
<1>9. s.pc \in {"quota", "claim"} => s.new = {} /\ s.doomed = {}
  BY DEF SlotHangs
<1> QED
  BY <1>3, <1>4, <1>5, <1>6, <1>7, <1>8, <1>9 DEF SlotHangs

-----------------------------------------------------------------------------
(* The tables after a step.                                                *)
TablesHang ==
  /\ RowsHangUnderTheirBank'
  /\ IdsHang(connections', accounts', linked', opened')
  /\ Grown(connections, accounts, linked, opened,
           connections', accounts', linked', opened')

LEMMA RowsHangParts ==
  RowsHangUnderTheirBank <=>
    /\ \A a \in accounts, c \in connections : a.connection = c.id => Lists(c.item, a.remote)
    /\ \A row \in ledger, a \in accounts : row.account = a.id => Feeds(a.remote, row.tid)
BY DEF RowsHangUnderTheirBank, Lists, Feeds

LEMMA RowsHangNext ==
  RowsHangUnderTheirBank' <=>
    /\ \A a \in accounts', c \in connections' : a.connection = c.id => Lists(c.item, a.remote)
    /\ \A row \in ledger', a \in accounts' : row.account = a.id => Feeds(a.remote, row.tid)
BY DEF RowsHangUnderTheirBank, Lists, Feeds

LEMMA IdsAreNaturals ==
  ASSUME TypeInv
  PROVE  /\ linked \in Nat /\ opened \in Nat
         /\ \A c \in connections : c.id \in Nat
         /\ \A a \in accounts : a.id \in Nat /\ a.connection \in Nat
         /\ \A row \in ledger : row.account \in Nat
BY DEF TypeInv, TypeOK, Connection, Account, Row, Id

LEMMA ClaimTables ==
  ASSUME Postgres, TypeInv, NoOrphans, HangInv, NEW r \in Requests, ClaimItem(r)
  PROVE  /\ TablesHang
         /\ \A d \in connections' : d.id = linked + 1 => d.item = req[r].item
         /\ req' = [req EXCEPT ![r].pc = "accounts", ![r].conn = linked + 1]
         /\ linked' = linked + 1
<1> DEFINE new == [id |-> linked + 1, user |-> req[r].user, item |-> req[r].item,
                   synced |-> FALSE]
<1>1. /\ connections' = connections \cup {new} /\ linked' = linked + 1
      /\ req' = [req EXCEPT ![r].pc = "accounts", ![r].conn = linked + 1]
      /\ UNCHANGED <<accounts, ledger, opened>>
  BY DEF ClaimItem, NextIds
<1>2. new.id = linked + 1 /\ new.item = req[r].item
  OBVIOUS
<1> HIDE DEF new
<1>3. \A c \in connections : c.id \in Nat /\ c.id <= linked
  BY IdsAreNaturals DEF HangInv, IdsHang
<1>4. \A a \in accounts : a.connection \in Nat /\ a.connection <= linked
  BY <1>3, IdsAreNaturals DEF NoOrphans, ConnectionExists
<1>5. RowsHangUnderTheirBank'
  BY <1>1, <1>2, <1>4, IdsAreNaturals, RowsHangParts, RowsHangNext DEF HangInv
<1>6. IdsHang(connections', accounts', linked', opened')
  BY <1>1, <1>2, <1>3, IdsAreNaturals DEF HangInv, IdsHang
<1>7. Grown(connections, accounts, linked, opened,
            connections', accounts', linked', opened')
  BY <1>1, <1>2, IdsAreNaturals DEF Grown
<1> QED
  BY <1>1, <1>2, <1>3, <1>5, <1>6, <1>7, IdsAreNaturals DEF TablesHang

LEMMA LedgerFrom ==
  ASSUME TypeInv, NEW r \in Requests, UpsertAccount(r) \/ Finish(r) \/ CommitDelete(r),
         NEW y \in ledger'
  PROVE  \E x \in ledger : x.account = y.account /\ x.tid = y.tid
<1>1. ~Persist(r)
  BY DEF Persist, UpsertAccount, Finish, CommitDelete
<1> QED
  BY <1>1, LedgerAfter DEF SameKey

(* Two states of one slot that agree on where the sync is going.           *)
SameCourse(s, t) ==
  /\ s.item = t.item /\ s.conn = t.conn
  /\ s.todo = t.todo /\ s.new = t.new /\ s.doomed = t.doomed

LEMMA UpsertTables ==
  ASSUME Postgres, TypeInv, NoOrphans, HangInv, NEW r \in Requests, UpsertAccount(r)
  PROVE  /\ TablesHang
         /\ req'[r].pc = "rows" /\ SameCourse(req'[r], req[r])
         /\ req'[r].acct <= opened'
         /\ \A b \in accounts' : b.id = req'[r].acct =>
              b.remote = Head(req[r].todo) /\ b.connection = req[r].conn
<1>1. UNCHANGED <<connections, linked>>
  BY DEF UpsertAccount
<1>2. \A row \in ledger : row.account \in Nat /\ row.account <= opened
  BY IdsAreNaturals DEF NoOrphans, AccountExists, HangInv, IdsHang
<1>s. /\ req \in [Requests -> Slot] /\ req[r] \in Slot /\ req[r].pc = "upsert"
      /\ req[r].conn \in Nat /\ req[r].acct \in Nat
      /\ req[r].todo # <<>> /\ req[r].todo \in Seq(RemoteAccounts)
  BY DEF TypeInv, TypeOK, Slot, SlotShape, UpsertAccount
<1>h. SlotHangs(req[r], connections, accounts, linked, opened)
  BY DEF HangInv
<1>l. Lists(req[r].item, Head(req[r].todo))
  BY <1>s, <1>h DEF SlotHangs
<1>c. \A c \in connections : c.id = req[r].conn => c.item = req[r].item
  BY <1>s, <1>h DEF SlotHangs, InSync
<1>3. CASE req[r].acct = 0
  <2> DEFINE new == [id |-> opened + 1, connection |-> req[r].conn,
                     remote |-> Head(req[r].todo), balance |-> req[r].balance]
  <2>1. /\ accounts' = accounts \cup {new} /\ opened' = opened + 1
        /\ req' = [req EXCEPT ![r].pc = "rows", ![r].acct = opened + 1, ![r].dirty = {}]
    BY <1>3 DEF UpsertAccount, OpenAccount, NextIds
  <2>2. new.id = opened + 1 /\ new.connection = req[r].conn /\ new.remote = Head(req[r].todo)
    OBVIOUS
  <2> HIDE DEF new
  <2>3. \A a \in accounts : a.id \in Nat /\ a.id <= opened
    BY IdsAreNaturals DEF HangInv, IdsHang
  <2>4. req'[r] = [[[req[r] EXCEPT !.pc = "rows"] EXCEPT !.acct = opened + 1] EXCEPT !.dirty = {}]
    BY <1>s, <2>1
  <2>5. req'[r].acct = opened + 1 /\ req'[r].pc = "rows" /\ SameCourse(req'[r], req[r])
    BY <1>s, <2>4 DEF Slot, SameCourse
  <2>6. ASSUME NEW a \in accounts', NEW c \in connections', a.connection = c.id
        PROVE  Lists(c.item, a.remote)
    BY <1>1, <1>l, <1>c, <2>1, <2>2, <2>6, RowsHangParts DEF HangInv
  <2>7. ASSUME NEW row \in ledger', NEW a \in accounts', row.account = a.id
        PROVE  Feeds(a.remote, row.tid)
    <3>1. PICK x \in ledger : x.account = row.account /\ x.tid = row.tid
      BY LedgerFrom
    <3>2. a \in accounts
      BY <1>2, <2>1, <2>2, <2>7, <3>1, IdsAreNaturals
    <3> QED
      BY <2>7, <3>1, <3>2, RowsHangParts DEF HangInv
  <2>8. IdsHang(connections', accounts', linked', opened')
    BY <1>1, <2>1, <2>2, <2>3, IdsAreNaturals DEF HangInv, IdsHang
  <2>9. Grown(connections, accounts, linked, opened,
              connections', accounts', linked', opened')
    BY <1>1, <2>1, <2>2, IdsAreNaturals DEF Grown
  <2>10. \A b \in accounts' : b.id = opened + 1 =>
           b.remote = Head(req[r].todo) /\ b.connection = req[r].conn
    BY <2>1, <2>2, <2>3, IdsAreNaturals
  <2>11. TablesHang
    BY <2>6, <2>7, <2>8, <2>9, RowsHangNext DEF TablesHang
  <2>12. req'[r].acct <= opened'
    BY <2>1, <2>5, IdsAreNaturals
  <2> QED
    BY <2>5, <2>10, <2>11, <2>12
<1>4. CASE req[r].acct # 0
  <2>1. /\ opened' = opened
        /\ req' = [req EXCEPT ![r].pc = "rows", ![r].dirty = {}]
    BY <1>4 DEF UpsertAccount, RefreshBalance
  <2>2. \A b \in accounts' : \E a \in accounts :
          b.id = a.id /\ b.connection = a.connection /\ b.remote = a.remote
    BY <1>4, AccountsAfterUpsert
  <2>3. req'[r] = [[req[r] EXCEPT !.pc = "rows"] EXCEPT !.dirty = {}]
    BY <1>s, <2>1
  <2>4. req'[r].acct = req[r].acct /\ req'[r].pc = "rows" /\ SameCourse(req'[r], req[r])
    BY <1>s, <2>3 DEF Slot, SameCourse
  <2>5. req[r].acct <= opened
        /\ \A a \in accounts : a.id = req[r].acct =>
             a.remote = Head(req[r].todo) /\ a.connection = req[r].conn
    BY <1>s, <1>h DEF SlotHangs
  <2>6. ASSUME NEW a \in accounts', NEW c \in connections', a.connection = c.id
        PROVE  Lists(c.item, a.remote)
    BY <1>1, <2>2, <2>6, RowsHangParts DEF HangInv
  <2>7. ASSUME NEW row \in ledger', NEW a \in accounts', row.account = a.id
        PROVE  Feeds(a.remote, row.tid)
    BY <2>2, <2>7, LedgerFrom, RowsHangParts DEF HangInv
  <2>8. IdsHang(connections', accounts', linked', opened')
    BY <1>1, <2>1, <2>2 DEF HangInv, IdsHang
  <2>9. Grown(connections, accounts, linked, opened,
              connections', accounts', linked', opened')
    BY <1>1, <2>1, <2>2, IdsAreNaturals DEF Grown
  <2> QED
    BY <2>1, <2>2, <2>3, <2>4, <2>5, <2>6, <2>7, <2>8, <2>9, RowsHangNext DEF TablesHang
<1> QED
  BY <1>3, <1>4

LEMMA OtherTables ==
  ASSUME TypeInv, HangInv, NEW r \in Requests,
         Persist(r) \/ Finish(r) \/ CommitDelete(r)
  PROVE  TablesHang
<1>1. UNCHANGED <<linked, opened>>
  BY DEF Persist, Finish, CommitDelete
<1>2. accounts' \subseteq accounts
  BY DEF Persist, Finish, CommitDelete
<1>3. \A d \in connections' : \E c \in connections : c.id = d.id /\ c.item = d.item
  <2>1. CASE Finish(r)
    <3> DEFINE after(c) == IF c.id = req[r].conn THEN [c EXCEPT !.synced = TRUE] ELSE c
    <3>1. connections' = {after(c) : c \in connections}
      BY <2>1 DEF Finish
    <3>2. connections \subseteq Connection
      BY DEF TypeInv, TypeOK
    <3>3. \A c \in connections : after(c).id = c.id /\ after(c).item = c.item
      BY <3>2 DEF Connection
    <3> HIDE DEF after
    <3> QED
      BY <3>1, <3>3
  <2> QED
    BY <2>1 DEF Persist, CommitDelete
<1>4. ASSUME NEW row \in ledger', NEW a \in accounts', row.account = a.id
      PROVE  Feeds(a.remote, row.tid)
  <2>1. CASE \E x \in ledger : SameKey(x, row)
    BY <1>2, <1>4, <2>1, RowsHangParts DEF HangInv, SameKey
  <2>2. CASE \E e \in req[r].new : SameKey(e, row)
    BY <1>2, <1>4, <2>2 DEF HangInv, SlotHangs, SameKey
  <2> QED
    BY <2>1, <2>2, LedgerAfter DEF SameKey
<1>5. \A a \in accounts', c \in connections' : a.connection = c.id => Lists(c.item, a.remote)
  BY <1>2, <1>3, RowsHangParts DEF HangInv
<1>6. IdsHang(connections', accounts', linked', opened')
  BY <1>1, <1>2, <1>3 DEF HangInv, IdsHang
<1>7. Grown(connections, accounts, linked, opened,
            connections', accounts', linked', opened')
  BY <1>1, <1>2, <1>3, IdsAreNaturals DEF Grown
<1> QED
  BY <1>4, <1>5, <1>6, <1>7, RowsHangNext DEF TablesHang

LEMMA TablesStep ==
  ASSUME Postgres, TypeInv, NoOrphans, HangInv, [Next]_vars
  PROVE  TablesHang
<1>1. CASE UNCHANGED db
  <2>1. UNCHANGED <<connections, accounts, ledger, linked, opened>>
    BY <1>1 DEF db
  <2>2. RowsHangUnderTheirBank'
    BY <2>1, RowsHangParts, RowsHangNext DEF HangInv
  <2>3. IdsHang(connections', accounts', linked', opened')
    BY <2>1 DEF HangInv
  <2>4. Grown(connections, accounts, linked, opened,
              connections', accounts', linked', opened')
    BY <2>1, IdsAreNaturals DEF Grown
  <2> QED
    BY <2>2, <2>3, <2>4 DEF TablesHang
<1> QED
  BY <1>1, StepCases, ClaimTables, UpsertTables, OtherTables

-----------------------------------------------------------------------------
(* The slots after a step.                                                 *)
HangsNext(s) == SlotHangs(s, connections', accounts', linked', opened')

LEMMA NextTypes ==
  ASSUME TypeInv, [Next]_vars
  PROVE  /\ linked \in Nat /\ opened \in Nat /\ linked' \in Nat /\ opened' \in Nat
         /\ connections' \in SUBSET Connection /\ accounts' \in SUBSET Account
         /\ req \in [Requests -> Slot] /\ req' \in [Requests -> Slot]
<1>1. TypeInv'
  BY TypeInvStep
<1> QED
  BY <1>1 DEF TypeInv, TypeOK

LEMMA OldSlotHangs ==
  ASSUME Postgres, TypeInv, NoOrphans, HangInv, [Next]_vars, NEW q \in Requests
  PROVE  HangsNext(req[q])
<1>1. Grown(connections, accounts, linked, opened,
            connections', accounts', linked', opened')
  BY TablesStep DEF TablesHang
<1>2. SlotHangs(req[q], connections, accounts, linked, opened) /\ req[q] \in Slot
  BY NextTypes DEF HangInv
<1> QED
  BY <1>1, <1>2, NextTypes, SlotStaysHung DEF HangsNext

LEMMA IdleHangs ==
  ASSUME TypeInv, [Next]_vars
  PROVE  HangsNext(Idle)
BY NextTypes DEF HangsNext, SlotHangs, Idle, InSync

LEMMA BeginHangs ==
  ASSUME TypeInv, HangInv, [Next]_vars, NEW r \in Requests, Begin(r)
  PROVE  HangsNext(req'[r])
<1>1. req \in [Requests -> Slot] /\ linked \in Nat /\ opened \in Nat
  BY NextTypes
<1>2. UNCHANGED <<connections, accounts, linked, opened>>
  BY QuietSteps DEF db
<1>3. ASSUME NEW u \in Users, NEW i \in Items, StartSync(r, u, i)
      PROVE  HangsNext(req'[r])
  <2> DEFINE s == req'[r]
             start == [Idle EXCEPT !.user = u, !.item = i]
             fresh == [start EXCEPT !.pc = "quota"]
             known(c) == [start EXCEPT !.pc = "accounts", !.conn = c.id]
  <2>a. s = fresh \/ \E c \in connections : c.item = i /\ s = known(c)
    <3>1. \/ req' = [req EXCEPT ![r] = fresh]
          \/ \E c \in connections : c.item = i /\ req' = [req EXCEPT ![r] = known(c)]
      BY <1>3 DEF StartSync
    <3> HIDE DEF fresh, known
    <3> QED
      BY <1>1, <3>1
  <2>b. /\ fresh.todo = <<>> /\ fresh.acct = 0 /\ fresh.new = {} /\ fresh.doomed = {}
        /\ fresh.pc = "quota" /\ fresh.conn = 0
    BY DEF Idle
  <2>c. ASSUME NEW c \in connections
        PROVE  /\ known(c).todo = <<>> /\ known(c).acct = 0 /\ known(c).new = {}
               /\ known(c).doomed = {}
               /\ known(c).pc = "accounts" /\ known(c).conn = c.id /\ known(c).item = i
    BY DEF Idle
  <2> HIDE DEF fresh, known
  <2>1. s.todo = <<>> /\ s.acct = 0 /\ s.new = {} /\ s.doomed = {}
    BY <2>a, <2>b, <2>c
  <2>2. \/ s.pc = "quota" /\ s.conn = 0
        \/ /\ s.pc = "accounts" /\ s.item = i
           /\ \E c \in connections : c.item = i /\ s.conn = c.id
    BY <2>a, <2>b, <2>c
  <2> HIDE DEF s
  <2>3. s.conn <= linked
    BY <1>1, <2>2 DEF HangInv, IdsHang
  <2>4. s.pc = "accounts" => \A d \in connections : d.id = s.conn => d.item = s.item
    BY <2>2 DEF HangInv, IdsHang
  <2>5. HangsNext(s)
    BY <1>1, <1>2, <2>1, <2>2, <2>3, <2>4 DEF HangsNext, SlotHangs
  <2> QED
    BY <2>5 DEF s
<1>4. ASSUME NEW c \in connections, StartDelete(r, c) PROVE HangsNext(req'[r])
  <2> DEFINE s == req'[r]
  <2>1. /\ s.pc = "unlink" /\ s.conn = c.id
        /\ s.todo = <<>> /\ s.acct = 0 /\ s.new = {}
        /\ \A id \in s.doomed : \E a \in accounts : a.id = id /\ a.connection = s.conn
    BY <1>1, <1>4 DEF StartDelete, Idle
  <2> HIDE DEF s
  <2>2. s.conn <= linked
    BY <1>1, <2>1 DEF HangInv, IdsHang
  <2>3. \A id \in s.doomed :
          id <= opened /\ \A a \in accounts : a.id = id => a.connection = s.conn
    BY <2>1 DEF HangInv, IdsHang
  <2>4. HangsNext(s)
    BY <1>1, <1>2, <2>1, <2>2, <2>3 DEF HangsNext, SlotHangs, InSync
  <2> QED
    BY <2>4 DEF s
<1> QED
  BY <1>3, <1>4 DEF Begin

PassQuota(r) == req[r].pc = "quota" /\ req' = [req EXCEPT ![r].pc = "claim"]

(* Steps inside a sync that leave the tables alone.                        *)
LEMMA QuietHangs ==
  ASSUME TypeInv, HangInv, [Next]_vars, NEW r \in Requests,
         FetchAccounts(r) \/ SelectAccount(r) \/ LeaveLoop(r) \/ ReadRows(r)
           \/ FetchTransactions(r) \/ PassQuota(r),
         UNCHANGED db
  PROVE  HangsNext(req'[r])
<1> DEFINE s == req[r]
           t == req'[r]
<1>1. req \in [Requests -> Slot] /\ linked \in Nat /\ opened \in Nat /\ s \in Slot
  BY NextTypes
<1>2. UNCHANGED <<connections, accounts, linked, opened>>
  BY DEF db
<1>3. SlotHangs(s, connections, accounts, linked, opened)
  BY DEF HangInv
<1>4. SlotShape(r)
  BY DEF TypeInv
<1>5. CASE PassQuota(r)
  <2>1. t.pc = "claim" /\ SameCourse(t, s) /\ t.acct = s.acct /\ s.pc = "quota"
    BY <1>1, <1>5 DEF Slot, SameCourse, PassQuota
  <2> HIDE DEF s, t
  <2>2. HangsNext(t)
    BY <1>2, <1>3, <2>1 DEF HangsNext, SlotHangs, SameCourse
  <2> QED
    BY <2>2 DEF t
<1>6. CASE LeaveLoop(r)
  <2>1. /\ t.pc \in {"finish", "persist"} /\ SameCourse(t, s) /\ t.acct = s.acct
        /\ s.pc = "account"
    BY <1>1, <1>6 DEF Slot, SameCourse, LeaveLoop
  <2> HIDE DEF s, t
  <2>2. HangsNext(t)
    BY <1>2, <1>3, <2>1 DEF HangsNext, SlotHangs, SameCourse, InSync
  <2> QED
    BY <2>2 DEF t
<1>7. CASE ReadRows(r)
  <2>1. t.pc = "fetch" /\ SameCourse(t, s) /\ t.acct = s.acct /\ s.pc = "rows"
    BY <1>1, <1>7 DEF Slot, SameCourse, ReadRows
  <2> HIDE DEF s, t
  <2>2. HangsNext(t)
    BY <1>2, <1>3, <2>1 DEF HangsNext, SlotHangs, SameCourse, InSync
  <2> QED
    BY <2>2 DEF t
<1>8. CASE FetchAccounts(r)
  <2>1. /\ t.pc = "account" /\ t.item = s.item /\ t.conn = s.conn
        /\ t.todo = AccountsOf[s.item] /\ t.acct = s.acct /\ t.new = s.new
        /\ t.doomed = s.doomed /\ s.pc = "accounts"
    BY <1>1, <1>8 DEF Slot, FetchAccounts
  <2> HIDE DEF s, t
  <2>2. HangsNext(t)
    BY <1>2, <1>3, <2>1 DEF HangsNext, SlotHangs, InSync, Lists
  <2> QED
    BY <2>2 DEF t
<1>9. CASE SelectAccount(r)
  <2> DEFINE stored == {a \in accounts : /\ a.connection = req[r].conn
                                         /\ a.remote = Head(req[r].todo)}
             found == IF stored = {} THEN {0} ELSE {a.id : a \in stored}
  <2>a. \A id \in found : id = 0 \/ \E a \in accounts : /\ a.id = id
                                                    /\ a.remote = Head(s.todo)
                                                    /\ a.connection = s.conn
    OBVIOUS
  <2>b. \E id \in found : req' = [req EXCEPT ![r].pc = "upsert", ![r].acct = id]
    BY <1>9 DEF SelectAccount
  <2> HIDE DEF found
  <2>1. PICK id : /\ req' = [req EXCEPT ![r].pc = "upsert", ![r].acct = id]
                  /\ \/ id = 0
                     \/ \E a \in accounts : /\ a.id = id /\ a.remote = Head(s.todo)
                                             /\ a.connection = s.conn
    BY <2>a, <2>b
  <2>2. t.pc = "upsert" /\ SameCourse(t, s) /\ t.acct = id /\ s.pc = "account"
    BY <1>1, <1>9, <2>1 DEF Slot, SameCourse, SelectAccount
  <2> HIDE DEF s, t
  <2>3. \A a \in accounts : a.id # 0
    BY DEF TypeInv, TypeOK, Account, Id
  <2>4. t.acct <= opened
    BY <1>1, <2>1, <2>2 DEF HangInv, IdsHang
  <2>5. \A a \in accounts : a.id = t.acct =>
          a.remote = Head(t.todo) /\ a.connection = t.conn
    BY <2>1, <2>2, <2>3 DEF HangInv, IdsHang, SameCourse
  <2>6. HangsNext(t)
    BY <1>2, <1>3, <2>2, <2>4, <2>5 DEF HangsNext, SlotHangs, SameCourse, InSync
  <2> QED
    BY <2>6 DEF t
<1>10. CASE FetchTransactions(r)
  <2> DEFINE feed == Feed[Head(s.todo)][version]
             fresh == NewEntries(s.acct, s.known, feed)
  <2>1. /\ t.pc = "account" /\ t.item = s.item /\ t.conn = s.conn
        /\ t.todo = Tail(s.todo) /\ t.acct = 0 /\ t.new = Accumulate(s.new, fresh)
        /\ t.doomed = s.doomed /\ s.pc = "fetch"
    BY <1>1, <1>10 DEF Slot, FetchTransactions
  <2>2. /\ s.todo \in Seq(RemoteAccounts) /\ s.todo # <<>>
        /\ version \in 1..LastVersion
    BY <1>1, <1>4, <2>1 DEF SlotShape, Slot, TypeInv, TypeOK
  <2>3. ASSUME NEW e \in fresh PROVE e.account = s.acct /\ Feeds(Head(s.todo), e.tid)
    <3>1. PICK i \in DOMAIN feed : e = [account |-> s.acct, tid |-> feed[i].tid,
                                         mv |-> feed[i].mv]
      BY DEF NewEntries, FirstCopies
    <3> QED
      BY <2>2, <3>1 DEF Feeds
  <2> HIDE DEF s, t, fresh
  <2>4. \A k \in DOMAIN t.todo : Lists(t.item, t.todo[k])
    <3>1. ASSUME NEW k \in DOMAIN t.todo PROVE Lists(t.item, t.todo[k])
      <4>1. k + 1 \in DOMAIN s.todo /\ t.todo[k] = s.todo[k + 1]
        BY <2>1, <2>2
      <4> QED
        BY <1>3, <2>1, <4>1 DEF SlotHangs
    <3> QED
      BY <3>1
  <2>5. \A e \in t.new :
          /\ e.account <= opened
          /\ \A a \in accounts : a.id = e.account =>
               Feeds(a.remote, e.tid) /\ a.connection = s.conn
    BY <1>3, <2>1, <2>3 DEF SlotHangs, Accumulate
  <2>6. HangsNext(t)
    BY <1>1, <1>2, <1>3, <2>1, <2>4, <2>5 DEF HangsNext, SlotHangs, InSync
  <2> QED
    BY <2>6 DEF t
<1> QED
  BY <1>5, <1>6, <1>7, <1>8, <1>9, <1>10

LEMMA WritingHangs ==
  ASSUME Postgres, TypeInv, NoOrphans, HangInv, [Next]_vars, NEW r \in Requests,
         ClaimItem(r) \/ UpsertAccount(r) \/ Persist(r)
  PROVE  HangsNext(req'[r])
<1> DEFINE s == req[r]
           t == req'[r]
<1>1. /\ req \in [Requests -> Slot] /\ linked \in Nat /\ opened \in Nat /\ s \in Slot
      /\ linked' \in Nat /\ opened' \in Nat
  BY NextTypes
<1>2. HangsNext(s)
  BY OldSlotHangs
<1>3. CASE ClaimItem(r)
  <2>1. /\ \A d \in connections' : d.id = linked + 1 => d.item = s.item
        /\ req' = [req EXCEPT ![r].pc = "accounts", ![r].conn = linked + 1]
        /\ linked' = linked + 1
    BY <1>3, ClaimTables
  <2>2. /\ t.pc = "accounts" /\ t.conn = linked + 1 /\ t.item = s.item
        /\ t.todo = s.todo /\ t.acct = s.acct /\ t.new = s.new
        /\ t.doomed = s.doomed
    BY <1>1, <2>1 DEF Slot
  <2>p. s.pc = "claim"
    BY <1>3 DEF ClaimItem
  <2> HIDE DEF s, t
  <2>3. HangsNext(t)
    BY <1>1, <1>2, <2>1, <2>2, <2>p DEF HangsNext, SlotHangs
  <2> QED
    BY <2>3 DEF t
<1>4. CASE UpsertAccount(r)
  <2>1. /\ t.pc = "rows" /\ SameCourse(t, s) /\ t.acct <= opened' /\ s.pc = "upsert"
        /\ \A b \in accounts' : b.id = t.acct =>
             b.remote = Head(s.todo) /\ b.connection = s.conn
    BY <1>4, UpsertTables DEF UpsertAccount
  <2> HIDE DEF s, t
  <2>a. t.conn <= linked' /\ \A c \in connections' : c.id = t.conn => c.item = t.item
    BY <1>2, <2>1 DEF HangsNext, SlotHangs, SameCourse, InSync
  <2>b. \A k \in DOMAIN t.todo : Lists(t.item, t.todo[k])
    BY <1>2, <2>1 DEF HangsNext, SlotHangs, SameCourse
  <2>c. \A b \in accounts' : b.id = t.acct => b.remote = Head(t.todo) /\ b.connection = t.conn
    BY <2>1 DEF SameCourse
  <2>d. /\ \A e \in t.new :
             /\ e.account <= opened'
             /\ \A a \in accounts' : a.id = e.account =>
                  Feeds(a.remote, e.tid) /\ a.connection = t.conn
        /\ \A id \in t.doomed :
             id <= opened' /\ \A a \in accounts' : a.id = id => a.connection = t.conn
    BY <1>2, <2>1 DEF HangsNext, SlotHangs, SameCourse
  <2>2. HangsNext(t)
    BY <2>1, <2>a, <2>b, <2>c, <2>d DEF HangsNext, SlotHangs
  <2> QED
    BY <2>2 DEF t
<1>5. CASE Persist(r)
  <2>1. t.pc = "finish" /\ SameCourse(t, s) /\ t.acct = s.acct /\ s.pc = "persist"
    BY <1>1, <1>5 DEF Slot, SameCourse, Persist
  <2> HIDE DEF s, t
  <2>2. HangsNext(t)
    BY <1>2, <2>1 DEF HangsNext, SlotHangs, SameCourse, InSync
  <2> QED
    BY <2>2 DEF t
<1> QED
  BY <1>3, <1>4, <1>5

LEMMA SlotStep ==
  ASSUME Postgres, TypeInv, NoOrphans, HangInv, [Next]_vars, NEW r \in Requests,
         Begin(r) \/ Proceed(r) \/ Fail(r), NEW q \in Requests
  PROVE  HangsNext(req'[q])
<1>1. req \in [Requests -> Slot]
  BY NextTypes
<1>2. CASE q # r
  <2>1. req'[q] = req[q]
    BY <1>1, <1>2, NoNewClaim DEF CheckQuota, Close
  <2> QED
    BY <2>1, OldSlotHangs
<1>3. CASE Close(r) /\ q = r
  <2>1. req'[q] = Idle
    BY <1>1, <1>3 DEF Close
  <2> QED
    BY <2>1, IdleHangs
<1>4. CASE ~Close(r) /\ q = r
  <2>1. ASSUME Proceed(r)
        PROVE  \/ ClaimItem(r) \/ UpsertAccount(r) \/ Persist(r)
               \/ /\ UNCHANGED db
                  /\ \/ FetchAccounts(r) \/ SelectAccount(r) \/ LeaveLoop(r)
                     \/ ReadRows(r) \/ FetchTransactions(r)
                     \/ PassQuota(r)
    <3>1. CheckQuota(r) => PassQuota(r)
      BY <1>4 DEF CheckQuota, PassQuota
    <3>2. ~RefuseItem(r) /\ ~Finish(r) /\ ~CommitDelete(r) /\ ~DatabaseError(r)
      BY <1>4 DEF RefuseItem, Finish, CommitDelete, DatabaseError
    <3> QED
      BY <2>1, <3>1, <3>2, QuietSteps DEF Proceed
  <2>2. ~Fail(r)
    BY <1>4 DEF Fail
  <2> QED
    BY <1>4, <2>1, <2>2, BeginHangs, QuietHangs, WritingHangs
<1> QED
  BY <1>2, <1>3, <1>4

LEMMA HangStep ==
  ASSUME Postgres, TypeInv, NoOrphans, HangInv, [Next]_vars
  PROVE  HangInv'
<1>1. RowsHangUnderTheirBank' /\ IdsHang(connections', accounts', linked', opened')
  BY TablesStep DEF TablesHang
<1>2. ASSUME NEW q \in Requests PROVE HangsNext(req'[q])
  <2>1. CASE UNCHANGED req
    BY <2>1, OldSlotHangs
  <2>2. CASE \E r \in Requests : Begin(r) \/ Proceed(r) \/ Fail(r)
    BY <2>2, SlotStep
  <2>3. BankMoves \/ UNCHANGED vars => UNCHANGED req
    BY DEF BankMoves, vars
  <2> QED
    BY <2>1, <2>2, <2>3 DEF Next
<1> QED
  BY <1>1, <1>2 DEF HangInv, HangsNext

LEMMA HangInit == Init => HangInv
BY DEF Init, HangInv, RowsHangUnderTheirBank, IdsHang, SlotHangs, Idle, InSync

(* In production a handler's ids never come to stand for another bank's    *)
(* rows: whatever unlinks and syncs overlap, accounts hang under a         *)
(* connection of their own item and transactions under an account that     *)
(* Pluggy lists them for.                                                  *)
THEOREM RowsAlwaysHang ==
  ASSUME Postgres
  PROVE  Spec => []RowsHangUnderTheirBank
<1>1. Init => HangInv
  BY HangInit
<1>2. TypeInv /\ NoOrphans /\ HangInv /\ [Next]_vars => HangInv'
  BY HangStep
<1>3. HangInv => RowsHangUnderTheirBank
  BY DEF HangInv
<1>4. Spec => []NoOrphans
  BY NoOrphansAlways
<1> QED
  BY <1>1, <1>2, <1>3, <1>4, TypeAlways, PTL DEF Spec

-----------------------------------------------------------------------------
(* What a sync reports is stored.                                          *)

(* Once persisted, the rows of a sync go only with its connection.         *)
StoredInv ==
  \A r \in Requests :
    req[r].pc = "finish" /\ ConnectionExists(req[r].conn) =>
      \A e \in req[r].new : \E row \in ledger : SameKey(e, row)

LEMMA RowsSurvive ==
  ASSUME TypeInv, NEW r \in Requests, UpsertAccount(r) \/ Finish(r) \/ Persist(r),
         NEW x \in ledger
  PROVE  \E y \in ledger' : SameKey(x, y)
<1>1. ledger \in SUBSET Row /\ req[r].dirty \in SUBSET Write(Id)
      /\ req[r].new \in SUBSET Entry(Id)
  BY DEF TypeInv, TypeOK, Slot
<1> DEFINE y == Refreshed(x, req[r].dirty)
<1>2. y \in Row /\ SameKey(x, y) /\ y \in RefreshedAll(ledger, req[r].dirty)
  BY <1>1, RefreshedRow DEF SameKey, RefreshedAll
<1> HIDE DEF y
<1>3. CASE UpsertAccount(r) \/ Finish(r)
  BY <1>2, <1>3 DEF UpsertAccount, Finish
<1>4. CASE Persist(r)
  <2>1. Overwritten(y, req[r].new) \in ledger'
    BY <1>2, <1>4 DEF Persist
  <2> QED
    BY <1>1, <1>2, <2>1, OverwrittenRow DEF SameKey
<1> QED
  BY <1>3, <1>4

LEMMA PersistStores ==
  ASSUME TypeInv, NEW r \in Requests, Persist(r), NEW e \in req[r].new
  PROVE  \E y \in ledger' : SameKey(e, y)
<1>1. CASE Conflict(e)
  BY <1>1, RowsSurvive DEF Conflict, SameKey
<1>2. CASE ~Conflict(e)
  <2> DEFINE new == req[r].new
             kept == {Overwritten(row, new) : row \in RefreshedAll(ledger, req[r].dirty)}
  <2>a. \E labelled \in SUBSET {x.tid : x \in new} :
          ledger' = kept \cup {Inserted(x, labelled, new) : x \in {z \in new : ~Conflict(z)}}
    BY DEF Persist
  <2> HIDE DEF kept
  <2>1. PICK labelled : Inserted(e, labelled, new) \in ledger'
    BY <1>2, <2>a
  <2> QED
    BY <2>1 DEF Inserted, SameKey
<1> QED
  BY <1>1, <1>2

(* A connection that a slot names and that is stored after a step was      *)
(* stored before it: a new one gets an id no slot has.                     *)
LEMMA NoConnectionReturns ==
  ASSUME Postgres, TypeInv, NoOrphans, HangInv, [Next]_vars, NEW q \in Requests,
         \E d \in connections' : d.id = req[q].conn
  PROVE  ConnectionExists(req[q].conn)
<1>1. PICK d \in connections' : d.id = req[q].conn
  OBVIOUS
<1>2. req[q].conn <= linked /\ req[q].conn \in Nat /\ linked \in Nat
  BY NextTypes DEF HangInv, SlotHangs, Slot
<1>3. ~(linked < d.id)
  BY <1>1, <1>2
<1>4. \E c \in connections : c.id = d.id
  BY <1>3, TablesStep DEF TablesHang, Grown
<1> QED
  BY <1>1, <1>4 DEF ConnectionExists

(* Only the unlink of that connection takes rows a sync has put there.     *)
LEMMA UnlinkTakesItsOwn ==
  ASSUME TypeInv, NoOrphans, HangInv, NEW r \in Requests, CommitDelete(r),
         NEW q \in Requests, NEW e \in req[q].new, NEW x \in ledger, SameKey(e, x),
         \E d \in connections' : d.id = req[q].conn
  PROVE  x \in ledger'
<1>1. PICK a \in accounts : a.id = x.account
  BY DEF NoOrphans, AccountExists
<1>2. a.connection = req[q].conn
  BY <1>1 DEF HangInv, SlotHangs, SameKey
<1>3. req[q].conn # req[r].conn
  BY DEF CommitDelete
<1>4. a.id \notin req[r].doomed
  BY <1>2, <1>3 DEF HangInv, SlotHangs
<1> QED
  BY <1>1, <1>4 DEF CommitDelete

LEMMA StoredStay ==
  ASSUME Postgres, TypeInv, NoOrphans, HangInv, StoredInv, [Next]_vars,
         NEW q \in Requests, req[q].pc = "finish",
         \E d \in connections' : d.id = req[q].conn,
         NEW e \in req[q].new
  PROVE  \E y \in ledger' : SameKey(e, y)
<1>1. ConnectionExists(req[q].conn)
  BY NoConnectionReturns
<1>2. PICK x \in ledger : SameKey(e, x)
  BY <1>1 DEF StoredInv
<1>3. CASE UNCHANGED ledger
  BY <1>2, <1>3
<1>4. ASSUME NEW r \in Requests, UpsertAccount(r) \/ Finish(r) \/ Persist(r)
      PROVE  \E y \in ledger' : SameKey(e, y)
  BY <1>2, <1>4, RowsSurvive DEF SameKey
<1>5. ASSUME NEW r \in Requests, CommitDelete(r)
      PROVE  \E y \in ledger' : SameKey(e, y)
  BY <1>2, <1>5, UnlinkTakesItsOwn
<1>6. ASSUME NEW r \in Requests, ClaimItem(r) PROVE UNCHANGED ledger
  BY <1>6 DEF ClaimItem
<1> QED
  BY <1>3, <1>4, <1>5, <1>6, StepCases DEF db

(* A slot gets to its last commit with nothing new, or by storing it.      *)
LEMMA ToFinish ==
  ASSUME TypeInv, [Next]_vars, NEW r \in Requests, Begin(r) \/ Proceed(r) \/ Fail(r),
         req'[r].pc = "finish"
  PROVE  req'[r].new = {} \/ (Persist(r) /\ req'[r].new = req[r].new)
<1>1. req \in [Requests -> Slot]
  BY NextTypes
<1>2. ~Close(r)
  BY <1>1 DEF Close, Idle
<1>3. ~RefuseItem(r) /\ ~Finish(r) /\ ~CommitDelete(r) /\ ~DatabaseError(r) /\ ~Fail(r)
  BY <1>2 DEF RefuseItem, Finish, CommitDelete, DatabaseError, Fail
<1>4. ~CheckQuota(r) /\ ~ClaimItem(r) /\ ~FetchAccounts(r) /\ ~SelectAccount(r)
  <2>1. ~CheckQuota(r)
    BY <1>1, <1>2 DEF CheckQuota, Slot
  <2>2. ASSUME ClaimItem(r) PROVE FALSE
    <3>1. PICK id : req' = [req EXCEPT ![r].pc = "accounts", ![r].conn = id]
      BY <2>2 DEF ClaimItem
    <3> QED
      BY <1>1, <3>1 DEF Slot
  <2>3. ASSUME SelectAccount(r) PROVE FALSE
    <3>1. PICK id : req' = [req EXCEPT ![r].pc = "upsert", ![r].acct = id]
      BY <2>3 DEF SelectAccount
    <3> QED
      BY <1>1, <3>1 DEF Slot
  <2>4. ~FetchAccounts(r)
    BY <1>1 DEF FetchAccounts, Slot
  <2> QED
    BY <2>1, <2>2, <2>3, <2>4
<1>5. ~UpsertAccount(r) /\ ~ReadRows(r) /\ ~FetchTransactions(r)
  <2>1. ASSUME UpsertAccount(r) PROVE FALSE
    <3>1. CASE OpenAccount(r)
      <4>1. PICK id : req' = [req EXCEPT ![r].pc = "rows", ![r].acct = id, ![r].dirty = {}]
        BY <3>1 DEF OpenAccount
      <4> QED
        BY <1>1, <4>1 DEF Slot
    <3>2. CASE RefreshBalance(r)
      BY <1>1, <3>2 DEF RefreshBalance, Slot
    <3> QED
      BY <2>1, <3>1, <3>2 DEF UpsertAccount
  <2>2. ~ReadRows(r)
    BY <1>1 DEF ReadRows, Slot
  <2>3. ~FetchTransactions(r)
    BY <1>1 DEF FetchTransactions, Slot
  <2> QED
    BY <2>1, <2>2, <2>3
<1>6. ~Begin(r)
  <2>1. ASSUME NEW u \in Users, NEW i \in Items, StartSync(r, u, i) PROVE FALSE
    BY <1>1, <2>1 DEF StartSync, Idle
  <2>2. ASSUME NEW c \in connections, StartDelete(r, c) PROVE FALSE
    BY <1>1, <2>2 DEF StartDelete, Idle
  <2> QED
    BY <2>1, <2>2 DEF Begin
<1>7. CASE LeaveLoop(r)
  BY <1>1, <1>7 DEF LeaveLoop, Slot
<1>8. CASE Persist(r)
  BY <1>1, <1>8 DEF Persist, Slot
<1> QED
  BY <1>3, <1>4, <1>5, <1>6, <1>7, <1>8 DEF Proceed

LEMMA StoredStep ==
  ASSUME Postgres, TypeInv, NoOrphans, HangInv, StoredInv, [Next]_vars
  PROVE  StoredInv'
<1> SUFFICES ASSUME NEW q \in Requests, req'[q].pc = "finish",
                    \E d \in connections' : d.id = req'[q].conn,
                    NEW e \in req'[q].new
             PROVE  \E y \in ledger' : SameKey(e, y)
  BY DEF StoredInv, ConnectionExists
<1>1. CASE req'[q] = req[q]
  BY <1>1, StoredStay
<1>2. ASSUME NEW r \in Requests, Begin(r) \/ Proceed(r) \/ Fail(r), q # r
      PROVE  req'[q] = req[q]
  BY <1>2, NextTypes, NoNewClaim DEF CheckQuota, Close
<1>3. ASSUME Begin(q) \/ Proceed(q) \/ Fail(q)
      PROVE  \E y \in ledger' : SameKey(e, y)
  BY <1>3, ToFinish, PersistStores
<1>4. BankMoves \/ UNCHANGED vars => req'[q] = req[q]
  BY DEF BankMoves, vars
<1> QED
  BY <1>1, <1>2, <1>3, <1>4 DEF Next

LEMMA StoredAlways ==
  ASSUME Postgres
  PROVE  Spec => [](HangInv /\ StoredInv)
<1>1. Init => HangInv /\ StoredInv
  <2>1. Init => StoredInv
    BY DEF Init, StoredInv, Idle
  <2> QED
    BY <2>1, HangInit
<1>2. TypeInv /\ NoOrphans /\ HangInv /\ StoredInv /\ [Next]_vars
        => (HangInv /\ StoredInv)'
  BY HangStep, StoredStep
<1>3. Spec => []NoOrphans
  BY NoOrphansAlways
<1> QED
  BY <1>1, <1>2, <1>3, TypeAlways, PTL DEF Spec

(* In production a sync that answers 200 reports only rows that are stored *)
(* when it answers: whatever took one took its connection too, and then    *)
(* the last commit is refused.                                             *)
THEOREM ReportAlwaysTrue ==
  ASSUME Postgres
  PROVE  Spec => ReportedRowsAreStored
<1>1. TypeInv /\ StoredInv /\ [Next]_vars =>
        [\A r \in Requests : Finish(r) =>
           \A e \in req[r].new : \E row \in ledger' : SameKey(e, row)]_vars
  <2> SUFFICES ASSUME TypeInv, StoredInv, NEW r \in Requests, Finish(r),
                      NEW e \in req[r].new
               PROVE  \E row \in ledger' : SameKey(e, row)
    OBVIOUS
  <2>1. req[r].pc = "finish" /\ ConnectionExists(req[r].conn)
    BY DEF Finish, FinishLands
  <2>2. PICK x \in ledger : SameKey(e, x)
    BY <2>1 DEF StoredInv
  <2> QED
    BY <2>2, RowsSurvive DEF SameKey
<1> QED
  BY <1>1, StoredAlways, TypeAlways, PTL DEF Spec, ReportedRowsAreStored
=============================================================================
