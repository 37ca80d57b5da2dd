----------------------------- MODULE SyncSerial -----------------------------
(***************************************************************************)
(* Sync with one worker slot, on Postgres and on SQLite: requests follow   *)
(* one another, and each may fail or be cut short anywhere.                *)
(***************************************************************************)
EXTENDS SyncProofs

(* One worker at a time.                                                   *)
Solo == \A r, q \in Requests : r = q

-----------------------------------------------------------------------------
(* The tables between two steps: ids name one row, an item has one         *)
(* connection whoever owns it, a connection one account per remote one,    *)
(* and everything hangs somewhere.                                         *)
SoloTables(cs, as, rows, l, o) ==
  /\ \A c \in cs : c.id <= l
  /\ \A a \in as : a.id <= o
  /\ \A c, d \in cs : c.id = d.id => c = d
  /\ \A a, b \in as : a.id = b.id => a = b
  /\ \A c, d \in cs : c.item = d.item => c = d
  /\ \A a, b \in as : a.connection = b.connection /\ a.remote = b.remote => a = b
  /\ \A a \in as : \E c \in cs : a.connection = c.id /\ Lists(c.item, a.remote)
  /\ \A row \in rows : \E a \in as : row.account = a.id

(* Where a sync stands in the list of accounts.                            *)
InLoop == {"account", "upsert", "rows", "fetch"}
ToVisit(s) ==
  LET list == AccountsOf[s.item]
  IN  /\ Len(s.todo) <= Len(list)
      /\ \A k \in 1..Len(s.todo) : s.todo[k] = list[(Len(list) - Len(s.todo)) + k]
Visited(s, remote) ==
  \E k \in 1..(Len(AccountsOf[s.item]) - Len(s.todo)) : AccountsOf[s.item][k] = remote

(* What the slot carries is what the tables hold: nobody else writes.      *)
SoloSlot(s, cs, as, rows) ==
  /\ s.pc \in {"quota", "claim"} => \A c \in cs : c.item # s.item
  /\ s.pc \in InSync \ {"quota", "claim"} => \E c \in cs : c.id = s.conn /\ c.item = s.item
  /\ s.pc \in InLoop => ToVisit(s)
  /\ s.pc \in {"persist", "finish"} => s.todo = <<>>
  /\ s.pc = "upsert" /\ s.acct = 0 =>
       \A a \in as : ~(a.connection = s.conn /\ a.remote = Head(s.todo))
  /\ (s.pc = "upsert" /\ s.acct # 0) \/ s.pc \in {"rows", "fetch"} =>
       \E a \in as : a.id = s.acct /\ a.connection = s.conn /\ a.remote = Head(s.todo)
  /\ s.pc = "fetch" => s.known = {row \in rows : row.account = s.acct}
  /\ s.pc \in {"rows", "fetch"} => s.dirty = {}
  /\ s.pc = "unlink" => s.doomed = {a.id : a \in {x \in as : x.connection = s.conn}}
  /\ s.pc \notin InLoop \cup {"persist", "finish"} => s.new = {} /\ s.dirty = {}
  /\ \A e \in s.new : \E a \in as : a.id = e.account /\ a.connection = s.conn
  /\ s.pc # "finish" => \A e \in s.new, row \in rows : ~SameKey(e, row)

SoloInv ==
  /\ SoloTables(connections, accounts, ledger, linked, opened)
  /\ \A r \in Requests : SoloSlot(req[r], connections, accounts, ledger)

(* What the feed has said: a visited account is as the bank serves it, if  *)
(* the bank has not moved; a new entry was listed, and before any row that *)
(* took its movement.                                                      *)
Took(as, from, to, e, tid) ==
  \E a \in as, v, w \in from..to :
    /\ a.id = e.account
    /\ \E i \in FirstCopies(Feed[a.remote][v]), j \in FirstCopies(Feed[a.remote][w]) :
         /\ v < w \/ (v = w /\ i < j)
         /\ Feed[a.remote][v][i] = [tid |-> e.tid, mv |-> e.mv]
         /\ Feed[a.remote][w][j] = [tid |-> tid, mv |-> e.mv]

Heard(as, from, to, e) ==
  \E a \in as, v \in from..to :
    /\ a.id = e.account
    /\ \E i \in FirstCopies(Feed[a.remote][v]) :
         /\ Feed[a.remote][v][i] = [tid |-> e.tid, mv |-> e.mv]
         /\ \A j \in FirstCopies(Feed[a.remote][v]) : j < i => Feed[a.remote][v][j].mv # e.mv

Fresh(s, as, rows, v) ==
  \A a \in as : a.connection = s.conn /\ Visited(s, a.remote) =>
    \A i \in FirstCopies(Feed[a.remote][v]), row \in rows :
      row.account = a.id /\ row.tid = Feed[a.remote][v][i].tid =>
        Refreshed(row, s.dirty).mv = Feed[a.remote][v][i].mv

FilledSlot(s, as, rows, v) ==
  /\ s.pc \in InLoop \cup {"persist", "finish"} =>
       /\ s.balance <= v
       /\ s.balance = v => Fresh(s, as, rows, v)
  /\ s.pc # "finish" => \A e \in s.new :
       /\ Heard(as, s.balance, v, e)
       /\ \A row \in rows : row.account = e.account /\ Refreshed(row, s.dirty).mv = e.mv =>
            Took(as, s.balance, v, e, row.tid)

FilledInv == \A r \in Requests : FilledSlot(req[r], accounts, ledger, version)

-----------------------------------------------------------------------------
(* The steps of the one request, table by table and slot by slot.          *)
SoloNext(r) ==
  /\ SoloTables(connections', accounts', ledger', linked', opened')
  /\ SoloSlot(req'[r], connections', accounts', ledger')

LEMMA SoloTypes ==
  ASSUME TypeInv, NEW r \in Requests
  PROVE  /\ req \in [Requests -> Slot] /\ req[r] \in Slot /\ SlotShape(r)
         /\ linked \in Nat /\ opened \in Nat /\ version \in 1..LastVersion
         /\ \A c \in connections : c.id \in Nat /\ c \in Connection
         /\ \A a \in accounts : a.id \in Nat /\ a.connection \in Nat /\ a \in Account
         /\ \A row \in ledger : row.account \in Nat /\ row \in Row
         /\ req[r].conn \in Nat /\ req[r].acct \in Nat
         /\ req[r].todo \in Seq(RemoteAccounts)
         /\ req[r].dirty \in SUBSET Write(Id) /\ req[r].new \in SUBSET Entry(Id)
         /\ req[r].balance \in Int
BY DEF TypeInv, TypeOK, Connection, Account, Row, Id, Slot

LEMMA FreshId ==
  ASSUME NEW stored, NEW issued \in Nat, \A id \in stored : id \in Nat /\ id <= issued,
         NEW id \in NextIds(stored, issued)
  PROVE  id \in Nat /\ id <= issued + 1 /\ \A x \in stored : x # id
<1>1. CASE Postgres
  <2>1. id = issued + 1
    BY <1>1 DEF NextIds
  <2>2. \A x \in stored : x # issued + 1
    OBVIOUS
  <2> QED
    BY <2>1, <2>2
<1>2. CASE ~Postgres
  <2>1. id \in 1..(issued + 1) /\ \A x \in stored : x < id
    BY <1>2 DEF NextIds
  <2> QED
    BY <2>1
<1> QED
  BY <1>1, <1>2

LEMMA QuietTables ==
  ASSUME SoloInv, UNCHANGED db
  PROVE  SoloTables(connections', accounts', ledger', linked', opened')
BY DEF SoloInv, db

LEMMA SoloIdle ==
  ASSUME NEW cs, NEW as, NEW rows
  PROVE  SoloSlot(Idle, cs, as, rows)
BY DEF SoloSlot, Idle, InSync, InLoop

LEMMA SoloClose ==
  ASSUME TypeInv, SoloInv, NEW r \in Requests, Close(r), UNCHANGED db
  PROVE  SoloNext(r)
<1>1. req'[r] = Idle
  BY SoloTypes DEF Close
<1> QED
  BY <1>1, SoloIdle, QuietTables DEF SoloNext

LEMMA SoloStart ==
  ASSUME TypeInv, SoloInv, NEW r \in Requests, NEW u \in Users, NEW i \in Items,
         StartSync(r, u, i)
  PROVE  SoloNext(r)
<1> DEFINE start == [Idle EXCEPT !.user = u, !.item = i]
           fresh == [start EXCEPT !.pc = "quota"]
           found(c) == [start EXCEPT !.pc = "accounts", !.conn = c.id]
<1>1. UNCHANGED db
  BY DEF StartSync
<1>2. \/ (\A c \in connections : c.item # i) /\ req' = [req EXCEPT ![r] = fresh]
      \/ \E c \in connections : c.item = i /\ req' = [req EXCEPT ![r] = found(c)]
  BY DEF StartSync
<1>3. /\ fresh.pc = "quota" /\ fresh.item = i /\ fresh.new = {} /\ fresh.dirty = {}
      /\ \A c : /\ found(c).pc = "accounts" /\ found(c).item = i /\ found(c).conn = c.id
                /\ found(c).new = {} /\ found(c).dirty = {}
  BY DEF Idle
<1> HIDE DEF fresh, found
<1>4. SoloSlot(req'[r], connections, accounts, ledger)
  <2>1. CASE (\A c \in connections : c.item # i) /\ req'[r] = fresh
    BY <1>3, <2>1 DEF SoloSlot, InSync, InLoop
  <2>2. ASSUME NEW c \in connections, c.item = i, req'[r] = found(c)
        PROVE  SoloSlot(req'[r], connections, accounts, ledger)
    BY <1>3, <2>2 DEF SoloSlot, InSync, InLoop
  <2> QED
    BY <1>2, <2>1, <2>2, SoloTypes
<1> QED
  BY <1>1, <1>4, QuietTables DEF SoloNext, db

LEMMA SoloStartDelete ==
  ASSUME TypeInv, SoloInv, NEW r \in Requests, NEW c \in connections, StartDelete(r, c)
  PROVE  SoloNext(r)
<1> DEFINE t == req'[r]
<1>1. UNCHANGED db
  BY DEF StartDelete
<1>2. /\ t.pc = "unlink" /\ t.conn = c.id /\ t.new = {} /\ t.dirty = {}
      /\ t.doomed = {a.id : a \in {x \in accounts : x.connection = c.id}}
  BY SoloTypes DEF StartDelete, Idle
<1> HIDE DEF t
<1>3. SoloSlot(t, connections, accounts, ledger)
  BY <1>2 DEF SoloSlot, InSync, InLoop
<1> QED
  BY <1>1, <1>3, QuietTables DEF SoloNext, db, t

(* Steps that only read.                                                   *)
LEMMA SoloQuiet ==
  ASSUME TypeInv, SoloInv, NEW r \in Requests,
         FetchAccounts(r) \/ SelectAccount(r) \/ LeaveLoop(r) \/ ReadRows(r) \/ PassQuota(r),
         UNCHANGED db
  PROVE  SoloNext(r)
<1> DEFINE s == req[r]
           t == req'[r]
<1>1. SoloSlot(s, connections, accounts, ledger) /\ s \in Slot /\ SlotShape(r)
  BY SoloTypes DEF SoloInv
<1>g. SUFFICES SoloSlot(t, connections, accounts, ledger)
  BY QuietTables DEF SoloNext, db
<1>2. CASE PassQuota(r)
  <2>1. /\ t.pc = "claim" /\ s.pc = "quota" /\ t.item = s.item
        /\ t.new = s.new /\ t.dirty = s.dirty
    BY <1>2, SoloTypes DEF PassQuota, Slot
  <2> HIDE DEF s, t
  <2> QED
    BY <1>1, <2>1 DEF SoloSlot, InSync, InLoop
<1>3. CASE FetchAccounts(r)
  <2>1. /\ t.pc = "account" /\ s.pc = "accounts" /\ t.item = s.item /\ t.conn = s.conn
        /\ t.todo = AccountsOf[s.item] /\ t.new = s.new /\ t.dirty = s.dirty
    BY <1>3, SoloTypes DEF FetchAccounts, Slot
  <2>2. s.item \in Items
    BY <1>1, <2>1 DEF SlotShape, InSync
  <2> HIDE DEF s, t
  <2>3. AccountsOf[s.item] \in Seq(RemoteAccounts)
    BY <2>2, SyncAssumption
  <2>4. ToVisit(t)
    BY <2>1, <2>3 DEF ToVisit
  <2> QED
    BY <1>1, <2>1, <2>4 DEF SoloSlot, InSync, InLoop
<1>4. CASE SelectAccount(r)
  <2> DEFINE stored == {a \in accounts : /\ a.connection = req[r].conn
                                         /\ a.remote = Head(req[r].todo)}
             found == IF stored = {} THEN {0} ELSE {a.id : a \in stored}
  <2>1. PICK id \in found : req' = [req EXCEPT ![r].pc = "upsert", ![r].acct = id]
    BY <1>4 DEF SelectAccount
  <2>p. s.pc = "account"
    BY <1>4 DEF SelectAccount
  <2>2. t = [[s EXCEPT !.pc = "upsert"] EXCEPT !.acct = id]
    BY <2>1, SoloTypes
  <2>3. /\ t.pc = "upsert" /\ t.acct = id /\ t.item = s.item /\ t.conn = s.conn
        /\ t.todo = s.todo /\ t.new = s.new /\ t.dirty = s.dirty
    BY <1>1, <2>2 DEF Slot
  <2>4. id = 0 => \A a \in accounts : ~(a.connection = s.conn /\ a.remote = Head(s.todo))
    <3>1. \A a \in accounts : a.id # 0
      BY SoloTypes DEF Account, Id
    <3> QED
      BY <2>1, <3>1
  <2>5. id # 0 => \E a \in accounts : a.id = id /\ a.connection = s.conn
                                      /\ a.remote = Head(s.todo)
    BY <2>1
  <2> HIDE DEF s, t
  <2>6. ToVisit(t)
    BY <1>1, <2>p, <2>3 DEF SoloSlot, InLoop, ToVisit
  <2> QED
    BY <1>1, <2>p, <2>3, <2>4, <2>5, <2>6 DEF SoloSlot, InSync, InLoop
<1>5. CASE LeaveLoop(r)
  <2>1. /\ t.pc \in {"finish", "persist"} /\ s.pc = "account" /\ t.item = s.item
        /\ t.conn = s.conn /\ s.todo = <<>> /\ t.todo = s.todo /\ t.new = s.new
        /\ t.dirty = s.dirty
    BY <1>5, SoloTypes DEF LeaveLoop, Slot
  <2> HIDE DEF s, t
  <2> QED
    BY <1>1, <2>1 DEF SoloSlot, InSync, InLoop
<1>6. CASE ReadRows(r)
  <2>1. /\ t.pc = "fetch" /\ s.pc = "rows" /\ t.item = s.item /\ t.conn = s.conn
        /\ t.todo = s.todo /\ t.new = s.new /\ t.dirty = s.dirty /\ t.acct = s.acct
        /\ t.known = {row \in ledger : row.account = s.acct}
    BY <1>6, SoloTypes DEF ReadRows, Slot
  <2> HIDE DEF s, t
  <2>2. ToVisit(t)
    BY <1>1, <2>1 DEF SoloSlot, InLoop, ToVisit
  <2> QED
    BY <1>1, <2>1, <2>2 DEF SoloSlot, InSync, InLoop
<1> QED
  BY <1>2, <1>3, <1>4, <1>5, <1>6

(* The steps that write.                                                   *)
LEMMA SoloClaim ==
  ASSUME TypeInv, SoloInv, NEW r \in Requests, ClaimItem(r)
  PROVE  SoloNext(r)
<1> DEFINE s == req[r]
           t == req'[r]
           new(id) == [id |-> id, user |-> s.user, item |-> s.item, synced |-> FALSE]
<1>1. SoloSlot(s, connections, accounts, ledger) /\ s \in Slot /\ s.pc = "claim"
      /\ SoloTables(connections, accounts, ledger, linked, opened)
  BY SoloTypes DEF SoloInv, ClaimItem
<1>2. PICK id \in NextIds({c.id : c \in connections}, linked) :
        /\ connections' = connections \cup {new(id)}
        /\ req' = [req EXCEPT ![r].pc = "accounts", ![r].conn = id]
  BY DEF ClaimItem
<1>3. linked' = linked + 1 /\ UNCHANGED <<accounts, ledger, opened>>
  BY DEF ClaimItem
<1>4. id \in Nat /\ id <= linked + 1 /\ \A c \in connections : c.id # id
  <2>1. \A x \in {c.id : c \in connections} : x \in Nat /\ x <= linked
    BY <1>1, SoloTypes DEF SoloTables
  <2>2. id \in Nat /\ id <= linked + 1 /\ \A x \in {c.id : c \in connections} : x # id
    BY <2>1, SoloTypes, FreshId
  <2> QED
    BY <2>2
<1>5. t = [[s EXCEPT !.pc = "accounts"] EXCEPT !.conn = id]
  BY <1>2, SoloTypes
<1>6. /\ t.pc = "accounts" /\ t.conn = id /\ t.item = s.item /\ t.new = s.new
      /\ t.dirty = s.dirty
  BY <1>1, <1>5 DEF Slot
<1>7. new(id).id = id /\ new(id).item = s.item
  OBVIOUS
<1> HIDE DEF s, t, new
<1>8. \A c \in connections : c.item # s.item
  BY <1>1 DEF SoloSlot
<1>9. SoloTables(connections', accounts', ledger', linked', opened')
  <2>1. \A c \in connections' : c.id <= linked'
    BY <1>1, <1>2, <1>3, <1>4, <1>7, SoloTypes DEF SoloTables
  <2>2. \A c, d \in connections' : c.id = d.id => c = d
    BY <1>1, <1>2, <1>4, <1>7 DEF SoloTables
  <2>3. \A c, d \in connections' : c.item = d.item => c = d
    BY <1>1, <1>2, <1>7, <1>8 DEF SoloTables
  <2>4. \A a \in accounts : \E c \in connections' : a.connection = c.id /\ Lists(c.item, a.remote)
    BY <1>1, <1>2 DEF SoloTables
  <2> QED
    BY <1>1, <1>3, <2>1, <2>2, <2>3, <2>4 DEF SoloTables
<1>10. SoloSlot(t, connections', accounts', ledger')
  BY <1>1, <1>2, <1>3, <1>6, <1>7 DEF SoloSlot, InSync, InLoop
<1> QED
  BY <1>9, <1>10 DEF SoloNext, t

(* Old rows under the keys they had; the sync's keys are still new.        *)
LEMMA RefreshedKeys ==
  ASSUME TypeInv, NEW r \in Requests, NEW y \in RefreshedAll(ledger, req[r].dirty)
  PROVE  \E x \in ledger : SameKey(x, y) /\ y = Refreshed(x, req[r].dirty)
BY SoloTypes, RefreshedRow DEF RefreshedAll, SameKey

LEMMA HeadIsListed ==
  ASSUME NEW s, s.todo \in Seq(RemoteAccounts), s.todo # <<>>,
         AccountsOf[s.item] \in Seq(RemoteAccounts), ToVisit(s)
  PROVE  Lists(s.item, Head(s.todo))
<1> DEFINE list == AccountsOf[s.item]
           n == Len(s.todo)
<1>1. n \in Nat /\ n >= 1 /\ Head(s.todo) = s.todo[1]
  OBVIOUS
<1>2. n <= Len(list) /\ \A k \in 1..n : s.todo[k] = list[(Len(list) - n) + k]
  BY DEF ToVisit
<1>3. Len(list) \in Nat /\ DOMAIN list = 1..Len(list)
  OBVIOUS
<1> HIDE DEF list, n
<1>4. 1 \in 1..n /\ (Len(list) - n) + 1 \in DOMAIN list
  BY <1>1, <1>2, <1>3
<1>5. Head(s.todo) = list[(Len(list) - n) + 1]
  BY <1>1, <1>2, <1>4
<1> QED
  BY <1>4, <1>5 DEF Lists, list

LEMMA SoloUpsert ==
  ASSUME TypeInv, SoloInv, NEW r \in Requests, UpsertAccount(r)
  PROVE  SoloNext(r)
<1> DEFINE s == req[r]
           t == req'[r]
<1>1. SoloSlot(s, connections, accounts, ledger) /\ s \in Slot /\ s.pc = "upsert"
      /\ SoloTables(connections, accounts, ledger, linked, opened) /\ s.todo # <<>>
  BY SoloTypes DEF SoloInv, UpsertAccount, SlotShape
<1>2. UNCHANGED <<connections, linked>> /\ ledger' = RefreshedAll(ledger, s.dirty)
  BY DEF UpsertAccount
<1>3. \A y \in ledger' : \E x \in ledger : SameKey(x, y)
  BY <1>2, RefreshedKeys
<1>c. PICK c \in connections : c.id = s.conn /\ c.item = s.item
  BY <1>1 DEF SoloSlot, InSync
<1>l. Lists(s.item, Head(s.todo))
  <2>1. AccountsOf[s.item] \in Seq(RemoteAccounts)
    BY SoloTypes, SyncAssumption, <1>1 DEF SlotShape, InSync
  <2>2. s.todo \in Seq(RemoteAccounts)
    BY SoloTypes
  <2> HIDE DEF s
  <2>3. ToVisit(s)
    BY <1>1 DEF SoloSlot, InLoop
  <2> QED
    BY <1>1, <2>1, <2>2, <2>3, HeadIsListed
<1>4. ASSUME NEW id, t = [[[s EXCEPT !.pc = "rows"] EXCEPT !.acct = id] EXCEPT !.dirty = {}],
             \A a \in accounts : \E b \in accounts' : b.id = a.id /\ b.connection = a.connection
                                                      /\ b.remote = a.remote,
             \E b \in accounts' : b.id = id /\ b.connection = s.conn /\ b.remote = Head(s.todo)
      PROVE  SoloSlot(t, connections', accounts', ledger')
  <2>1. /\ t.pc = "rows" /\ t.acct = id /\ t.item = s.item /\ t.new = s.new
        /\ t.conn = s.conn /\ t.todo = s.todo /\ t.dirty = {}
    BY <1>1, <1>4 DEF Slot
  <2> HIDE DEF s, t
  <2>2. ToVisit(t)
    BY <1>1, <2>1 DEF SoloSlot, InLoop, ToVisit
  <2>3. \A e \in t.new, row \in ledger' : ~SameKey(e, row)
    BY <1>1, <1>3, <2>1 DEF SoloSlot, SameKey
  <2>4. \A e \in t.new : \E a \in accounts' : a.id = e.account /\ a.connection = t.conn
    BY <1>1, <1>4, <2>1 DEF SoloSlot
  <2> QED
    BY <1>2, <1>c, <1>4, <2>1, <2>2, <2>3, <2>4 DEF SoloSlot, InSync, InLoop
<1>5. CASE s.acct = 0
  <2> DEFINE new(id) == [id |-> id, connection |-> s.conn, remote |-> Head(s.todo),
                         balance |-> s.balance]
  <2>1. PICK id \in NextIds({a.id : a \in accounts}, opened) :
          /\ accounts' = accounts \cup {new(id)}
          /\ req' = [req EXCEPT ![r].pc = "rows", ![r].acct = id, ![r].dirty = {}]
    BY <1>5 DEF UpsertAccount, OpenAccount
  <2>2. opened' = opened + 1
    BY <1>5 DEF UpsertAccount, OpenAccount
  <2>3. id \in Nat /\ id <= opened + 1 /\ \A a \in accounts : a.id # id
    <3>1. \A x \in {a.id : a \in accounts} : x \in Nat /\ x <= opened
      BY <1>1, SoloTypes DEF SoloTables
    <3>2. id \in Nat /\ id <= opened + 1 /\ \A x \in {a.id : a \in accounts} : x # id
      BY <3>1, SoloTypes, FreshId
    <3> QED
      BY <3>2
  <2>4. t = [[[s EXCEPT !.pc = "rows"] EXCEPT !.acct = id] EXCEPT !.dirty = {}]
    BY <2>1, SoloTypes
  <2>5. new(id).id = id /\ new(id).connection = s.conn /\ new(id).remote = Head(s.todo)
    OBVIOUS
  <2> HIDE DEF s, t, new
  <2>6. SoloSlot(t, connections', accounts', ledger')
    BY <1>4, <2>1, <2>4, <2>5
  <2>7. \A a \in accounts : ~(a.connection = s.conn /\ a.remote = Head(s.todo))
    BY <1>1, <1>5 DEF SoloSlot
  <2>8. \A a, b \in accounts' : a.connection = b.connection /\ a.remote = b.remote => a = b
    BY <1>1, <2>1, <2>5, <2>7 DEF SoloTables
  <2>9. \A a, b \in accounts' : a.id = b.id => a = b
    BY <1>1, <2>1, <2>3, <2>5 DEF SoloTables
  <2>10. \A a \in accounts' : \E d \in connections : a.connection = d.id /\ Lists(d.item, a.remote)
    BY <1>1, <1>c, <1>l, <2>1, <2>5 DEF SoloTables
  <2>11. \A row \in ledger' : \E a \in accounts' : row.account = a.id
    BY <1>1, <1>3, <2>1 DEF SoloTables, SameKey
  <2>12. \A a \in accounts' : a.id <= opened'
    BY <1>1, <2>1, <2>2, <2>3, <2>5, SoloTypes DEF SoloTables
  <2>13. SoloTables(connections', accounts', ledger', linked', opened')
    BY <1>1, <1>2, <2>8, <2>9, <2>10, <2>11, <2>12 DEF SoloTables
  <2> QED
    BY <2>6, <2>13 DEF SoloNext, t
<1>6. CASE s.acct # 0
  <2> DEFINE after(a) == IF a.id = s.acct THEN [a EXCEPT !.balance = s.balance] ELSE a
  <2>1. /\ accounts' = {after(a) : a \in accounts} /\ opened' = opened
        /\ req' = [req EXCEPT ![r].pc = "rows", ![r].dirty = {}]
    BY <1>6 DEF UpsertAccount, RefreshBalance
  <2>2. \A a \in accounts : /\ after(a).id = a.id
                            /\ after(a).connection = a.connection
                            /\ after(a).remote = a.remote
    BY SoloTypes DEF Account
  <2>3. t = [[s EXCEPT !.pc = "rows"] EXCEPT !.dirty = {}]
    BY <2>1, SoloTypes
  <2>4. t = [[[s EXCEPT !.pc = "rows"] EXCEPT !.acct = s.acct] EXCEPT !.dirty = {}]
    BY <1>1, <2>3 DEF Slot
  <2> HIDE DEF s, t, after
  <2>5. \A a \in accounts : \E b \in accounts' : b.id = a.id /\ b.connection = a.connection
                                                 /\ b.remote = a.remote
    BY <2>1, <2>2
  <2>6. \E b \in accounts' : b.id = s.acct /\ b.connection = s.conn /\ b.remote = Head(s.todo)
    BY <1>1, <1>6, <2>5 DEF SoloSlot
  <2>7. SoloSlot(t, connections', accounts', ledger')
    BY <1>4, <2>4, <2>5, <2>6
  <2>8. \A b \in accounts' : \E a \in accounts : b = after(a)
    BY <2>1
  <2>9. \A a, b \in accounts' : a.id = b.id => a = b
    BY <1>1, <2>2, <2>8 DEF SoloTables
  <2>10. \A a, b \in accounts' : a.connection = b.connection /\ a.remote = b.remote => a = b
    BY <1>1, <2>2, <2>8 DEF SoloTables
  <2>11. \A a \in accounts' : a.id <= opened
    BY <1>1, <2>2, <2>8 DEF SoloTables
  <2>12. \A a \in accounts' : \E d \in connections : a.connection = d.id /\ Lists(d.item, a.remote)
    BY <1>1, <2>2, <2>8 DEF SoloTables
  <2>13. \A row \in ledger' : \E a \in accounts' : row.account = a.id
    BY <1>1, <1>3, <2>5 DEF SoloTables, SameKey
  <2>14. SoloTables(connections', accounts', ledger', linked', opened')
    BY <1>1, <1>2, <2>1, <2>9, <2>10, <2>11, <2>12, <2>13 DEF SoloTables
  <2> QED
    BY <2>7, <2>14 DEF SoloNext, t
<1> QED
  BY <1>5, <1>6

LEMMA SoloFetch ==
  ASSUME TypeInv, SoloInv, NEW r \in Requests, FetchTransactions(r)
  PROVE  SoloNext(r)
<1> DEFINE s == req[r]
           t == req'[r]
           feed == Feed[Head(s.todo)][version]
           writes == WritesOf(s.acct, s.known, feed)
           fresh == NewEntries(s.acct, s.known, feed)
<1>1. SoloSlot(s, connections, accounts, ledger) /\ s \in Slot /\ s.pc = "fetch"
      /\ s.todo # <<>> /\ s.todo \in Seq(RemoteAccounts) /\ UNCHANGED db
  BY SoloTypes DEF SoloInv, FetchTransactions, SlotShape
<1>2. /\ t.pc = "account" /\ t.item = s.item /\ t.conn = s.conn /\ t.todo = Tail(s.todo)
      /\ t.new = Accumulate(s.new, fresh)
  <2>1. t = [s EXCEPT !.pc = "account", !.todo = Tail(s.todo), !.acct = 0, !.known = {},
                      !.dirty = writes,
                      !.new = Accumulate(s.new, fresh)]
    BY SoloTypes DEF FetchTransactions
  <2>2. s \in Slot
    BY SoloTypes
  <2> HIDE DEF s, t, feed, fresh, writes
  <2>3. DOMAIN s = {"pc", "user", "item", "conn", "todo", "balance", "acct", "known", "dirty",
                    "new", "doomed"}
    BY <2>2 DEF Slot
  <2> QED
    BY <2>1, <2>3
<1>3. \A e \in fresh : e.account = s.acct /\ \A row \in s.known : row.tid # e.tid
  <2> HIDE DEF s, t, feed, writes
  <2> SUFFICES ASSUME NEW i \in FirstCopies(feed), IsNew(i, s.known, feed)
               PROVE  \A row \in s.known : row.tid # feed[i].tid
    BY DEF NewEntries
  <2> QED
    BY DEF IsNew
<1> HIDE DEF s, t, feed, fresh
<1>4. ToVisit(t)
  <2> DEFINE list == AccountsOf[s.item]
  <2>1. list \in Seq(RemoteAccounts)
    <3>1. s.item \in Items
      BY <1>1, SoloTypes DEF SlotShape, InSync, s
    <3> QED
      BY <3>1, SyncAssumption
  <2>2. /\ Len(s.todo) <= Len(list)
        /\ \A k \in 1..Len(s.todo) : s.todo[k] = list[(Len(list) - Len(s.todo)) + k]
    BY <1>1 DEF SoloSlot, InLoop, ToVisit
  <2>3. /\ Len(s.todo) \in Nat /\ Len(list) \in Nat /\ Len(t.todo) = Len(s.todo) - 1
        /\ Len(t.todo) \in Nat
        /\ \A k \in 1..Len(t.todo) : t.todo[k] = s.todo[k + 1]
    BY <1>1, <1>2, <2>1
  <2> HIDE DEF list
  <2>4. ASSUME NEW k \in 1..Len(t.todo)
        PROVE  t.todo[k] = list[(Len(list) - Len(t.todo)) + k]
    <3>1. k + 1 \in 1..Len(s.todo)
      BY <2>3
    <3>2. t.todo[k] = list[(Len(list) - Len(s.todo)) + (k + 1)]
      BY <2>2, <2>3, <3>1
    <3>3. (Len(list) - Len(s.todo)) + (k + 1) = (Len(list) - Len(t.todo)) + k
      BY <2>3
    <3> QED
      BY <3>2, <3>3
  <2>5. Len(t.todo) <= Len(list)
    BY <2>2, <2>3
  <2>6. AccountsOf[t.item] = list
    BY <1>2 DEF list
  <2> QED
    BY <2>4, <2>5, <2>6 DEF ToVisit
<1>5. \A e \in t.new : e \in s.new \/ e \in fresh
  BY <1>2 DEF Accumulate
<1>6. \A e \in t.new : \E a \in accounts : a.id = e.account /\ a.connection = t.conn
  BY <1>1, <1>2, <1>3, <1>5 DEF SoloSlot
<1>7. \A e \in t.new, row \in ledger : ~SameKey(e, row)
  <2>1. ASSUME NEW e \in fresh, NEW row \in ledger PROVE ~SameKey(e, row)
    BY <1>1, <1>3 DEF SoloSlot, SameKey
  <2> QED
    BY <1>1, <1>5, <2>1 DEF SoloSlot
<1>8. SoloSlot(t, connections, accounts, ledger)
  BY <1>1, <1>2, <1>4, <1>6, <1>7 DEF SoloSlot, InSync, InLoop
<1> QED
  BY <1>1, <1>8, QuietTables DEF SoloNext, db, t

(* Where nobody raced it a batch meets no conflict: the refreshed rows     *)
(* stay and the new ones come.                                             *)
LEMMA SoloLedger ==
  ASSUME TypeInv, SoloInv, NEW r \in Requests, Persist(r), NEW y \in ledger'
  PROVE  \/ y \in RefreshedAll(ledger, req[r].dirty)
         \/ \E e \in req[r].new : y.account = e.account /\ y.tid = e.tid /\ y.mv = e.mv
<1> DEFINE new == req[r].new
           old == RefreshedAll(ledger, req[r].dirty)
<1>1. PICK labelled \in SUBSET {e.tid : e \in new} :
        ledger' = {Overwritten(row, new) : row \in old} \cup
                  {Inserted(e, labelled, new) : e \in {x \in new : ~Conflict(x)}}
  BY DEF Persist
<1>2. \A e \in new, row \in ledger : ~SameKey(e, row)
  BY DEF SoloInv, SoloSlot, Persist
<1>3. ASSUME NEW row \in old PROVE Overwritten(row, new) = row
  <2>1. \A e \in new : ~SameKey(e, row)
    BY <1>2, RefreshedKeys DEF SameKey
  <2> QED
    BY <2>1 DEF Overwritten
<1>4. CASE y \in {Overwritten(row, new) : row \in old}
  BY <1>3, <1>4
<1>5. CASE y \in {Inserted(e, labelled, new) : e \in {x \in new : ~Conflict(x)}}
  BY <1>5 DEF Inserted
<1> QED
  BY <1>1, <1>4, <1>5

LEMMA SoloPersist ==
  ASSUME TypeInv, SoloInv, NEW r \in Requests, Persist(r)
  PROVE  SoloNext(r)
<1> DEFINE s == req[r]
           t == req'[r]
<1>1. SoloSlot(s, connections, accounts, ledger) /\ s \in Slot /\ s.pc = "persist"
      /\ SoloTables(connections, accounts, ledger, linked, opened)
      /\ UNCHANGED <<connections, accounts, linked, opened>>
  BY SoloTypes DEF SoloInv, Persist
<1>2. /\ t.pc = "finish" /\ t.item = s.item /\ t.conn = s.conn /\ t.todo = s.todo
      /\ t.new = s.new /\ t.dirty = {}
  BY <1>1, SoloTypes DEF Persist, Slot
<1> HIDE DEF t
<1>3. \A row \in ledger' : \E a \in accounts : row.account = a.id
  <2> SUFFICES ASSUME NEW row \in ledger' PROVE \E a \in accounts : row.account = a.id
    OBVIOUS
  <2>1. CASE row \in RefreshedAll(ledger, s.dirty)
    BY <1>1, <2>1, RefreshedKeys DEF SoloTables, SameKey
  <2>2. CASE \E e \in s.new : row.account = e.account
    BY <1>1, <2>2 DEF SoloSlot
  <2> QED
    BY <2>1, <2>2, SoloLedger
<1> HIDE DEF s
<1>4. SoloTables(connections', accounts', ledger', linked', opened')
  BY <1>1, <1>3 DEF SoloTables
<1>5. SoloSlot(t, connections', accounts', ledger')
  BY <1>1, <1>2 DEF SoloSlot, InSync, InLoop
<1> QED
  BY <1>4, <1>5 DEF SoloNext, t

LEMMA SoloFinish ==
  ASSUME TypeInv, SoloInv, NEW r \in Requests, Finish(r)
  PROVE  SoloNext(r)
<1> DEFINE after(c) == IF c.id = req[r].conn THEN [c EXCEPT !.synced = TRUE] ELSE c
<1>1. /\ connections' = {after(c) : c \in connections} /\ req'[r] = Idle
      /\ UNCHANGED <<accounts, linked, opened>>
      /\ ledger' = RefreshedAll(ledger, req[r].dirty)
  BY SoloTypes DEF Finish, Close
<1>2. \A c \in connections : after(c).id = c.id /\ after(c).item = c.item
  BY SoloTypes DEF Connection
<1> HIDE DEF after
<1>3. \A d \in connections' : \E c \in connections : d = after(c)
  BY <1>1
<1>4. SoloTables(connections, accounts, ledger, linked, opened)
  BY DEF SoloInv
<1>5. \A c, d \in connections' : c.id = d.id => c = d
  BY <1>2, <1>3, <1>4 DEF SoloTables
<1>6. \A c, d \in connections' : c.item = d.item => c = d
  BY <1>2, <1>3, <1>4 DEF SoloTables
<1>7. \A a \in accounts : \E d \in connections' : a.connection = d.id /\ Lists(d.item, a.remote)
  <2> SUFFICES ASSUME NEW a \in accounts
               PROVE  \E d \in connections' : a.connection = d.id /\ Lists(d.item, a.remote)
    OBVIOUS
  <2>1. PICK c \in connections : a.connection = c.id /\ Lists(c.item, a.remote)
    BY <1>4 DEF SoloTables
  <2>2. after(c) \in connections'
    BY <1>1
  <2> QED
    BY <1>2, <2>1, <2>2
<1>8. \A row \in ledger' : \E a \in accounts : row.account = a.id
  BY <1>1, <1>4, RefreshedKeys DEF SoloTables, SameKey
<1>9. \A c \in connections' : c.id <= linked
  BY <1>2, <1>3, <1>4 DEF SoloTables
<1>10. SoloTables(connections', accounts', ledger', linked', opened')
  BY <1>1, <1>4, <1>5, <1>6, <1>7, <1>8, <1>9 DEF SoloTables
<1> QED
  BY <1>1, <1>10, SoloIdle DEF SoloNext

(* An unlink read every account it now has to erase.                       *)
LEMMA SoloDelete ==
  ASSUME TypeInv, SoloInv, NEW r \in Requests, CommitDelete(r)
  PROVE  SoloNext(r)
<1>1. /\ req[r].doomed = {a.id : a \in {x \in accounts : x.connection = req[r].conn}}
      /\ SoloTables(connections, accounts, ledger, linked, opened)
  BY DEF CommitDelete, SoloInv, SoloSlot
<1>2. /\ ledger' = {row \in ledger : row.account \notin req[r].doomed}
      /\ accounts' = {a \in accounts : a.id \notin req[r].doomed}
      /\ connections' = {c \in connections : c.id # req[r].conn}
      /\ UNCHANGED <<linked, opened>> /\ req'[r] = Idle
  BY SoloTypes DEF CommitDelete, Close
<1>3. \A a \in accounts' : a.connection # req[r].conn
  BY <1>1, <1>2
<1>4. \A a \in accounts' : \E c \in connections' : a.connection = c.id /\ Lists(c.item, a.remote)
  BY <1>1, <1>2, <1>3 DEF SoloTables
<1>5. \A row \in ledger' : \E a \in accounts' : row.account = a.id
  BY <1>1, <1>2 DEF SoloTables
<1>6. SoloTables(connections', accounts', ledger', linked', opened')
  BY <1>1, <1>2, <1>4, <1>5 DEF SoloTables
<1> QED
  BY <1>2, <1>6, SoloIdle DEF SoloNext

LEMMA SoloRequestStep ==
  ASSUME TypeInv, SoloInv, NEW r \in Requests, Begin(r) \/ Proceed(r) \/ Fail(r)
  PROVE  SoloNext(r)
<1>1. CASE Begin(r)
  BY <1>1, SoloStart, SoloStartDelete DEF Begin
<1>2. CASE Close(r) /\ UNCHANGED db
  BY <1>2, SoloClose
<1>3. Fail(r) => Close(r) /\ UNCHANGED db
  BY DEF Fail
<1>4. ASSUME Proceed(r)
      PROVE  \/ Close(r) /\ UNCHANGED db
             \/ ClaimItem(r) \/ UpsertAccount(r) \/ Persist(r) \/ Finish(r) \/ CommitDelete(r)
             \/ FetchTransactions(r)
             \/ /\ UNCHANGED db
                /\ \/ FetchAccounts(r) \/ SelectAccount(r) \/ LeaveLoop(r) \/ ReadRows(r)
                   \/ PassQuota(r)
  <2>1. CheckQuota(r) => (PassQuota(r) \/ Close(r)) /\ UNCHANGED db
    BY DEF CheckQuota, PassQuota
  <2>2. RefuseItem(r) \/ DatabaseError(r) => Close(r) /\ UNCHANGED db
    BY DEF RefuseItem, DatabaseError
  <2> QED
    BY <1>4, <2>1, <2>2, QuietSteps DEF Proceed
<1> QED
  BY <1>1, <1>2, <1>3, <1>4, SoloClaim, SoloUpsert, SoloPersist, SoloFinish, SoloDelete,
     SoloFetch, SoloQuiet

LEMMA SoloStep ==
  ASSUME Solo, TypeInv, SoloInv, [Next]_vars
  PROVE  SoloInv'
<1>1. ASSUME NEW r \in Requests, Begin(r) \/ Proceed(r) \/ Fail(r) PROVE SoloInv'
  <2>1. SoloNext(r) /\ \A q \in Requests : q = r
    BY <1>1, SoloRequestStep DEF Solo
  <2> QED
    BY <2>1 DEF SoloInv, SoloNext
<1>2. CASE UNCHANGED <<db, req>>
  BY <1>2 DEF SoloInv, db
<1>3. BankMoves \/ UNCHANGED vars => UNCHANGED <<db, req>>
  BY DEF BankMoves, vars, db
<1> QED
  BY <1>1, <1>2, <1>3 DEF Next

LEMMA SoloInit == Init => SoloInv
<1>1. Init => SoloTables(connections, accounts, ledger, linked, opened)
  BY DEF Init, SoloTables
<1> QED
  BY <1>1, SoloIdle DEF Init, SoloInv

LEMMA SoloAlways ==
  ASSUME Solo
  PROVE  Spec => []SoloInv
<1>1. TypeInv /\ SoloInv /\ [Next]_vars => SoloInv'
  BY SoloStep
<1> QED
  BY <1>1, SoloInit, TypeAlways, PTL DEF Spec

(* One sync after another links an item once, also after a sync that       *)
(* stopped half way: the retry finds the connection the first one left.    *)
THEOREM OneConnectionAlways ==
  ASSUME Solo
  PROVE  Spec => []OneConnectionPerItem
<1>1. SoloInv => OneConnectionPerItem
  BY DEF SoloInv, SoloTables, OneConnectionPerItem
<1> QED
  BY <1>1, SoloAlways, PTL

(* And it stores each remote account once.                                 *)
THEOREM OneAccountAlways ==
  ASSUME Solo
  PROVE  Spec => []OneAccountPerRemote
<1>1. SoloInv => OneAccountPerRemote
  BY DEF SoloInv, SoloTables, OneAccountPerRemote
<1> QED
  BY <1>1, SoloAlways, PTL

(* On SQLite too an unlink then leaves nothing behind, and rows hang under *)
(* their bank.                                                             *)
THEOREM OneWorkerLeavesNoOrphans ==
  ASSUME Solo
  PROVE  Spec => []NoOrphans
<1>1. SoloInv => NoOrphans
  BY DEF SoloInv, SoloTables, NoOrphans, ConnectionExists, AccountExists
<1> QED
  BY <1>1, SoloAlways, PTL

-----------------------------------------------------------------------------
(* What one fetch does to the rows it read.                                *)
LEMMA FirstCopiesDiffer ==
  ASSUME NEW feed \in Seq(RemoteTx), NEW i \in FirstCopies(feed), NEW j \in FirstCopies(feed)
  PROVE  i \in Int /\ j \in Int /\ (feed[i].tid = feed[j].tid => i = j)
<1>1. i \in 1..Len(feed) /\ j \in 1..Len(feed)
  BY DEF FirstCopies
<1>2. feed[i].tid = feed[j].tid => ~(i < j) /\ ~(j < i)
  BY <1>1 DEF FirstCopies
<1> QED
  BY <1>1, <1>2

(* Writes that name another row leave a row as it is.                      *)
LEMMA UntouchedRow ==
  ASSUME NEW row \in Row, NEW writes, \A w \in writes : ~SameKey(w, row)
  PROVE  Refreshed(row, writes) = row
<1>1. [f \in Fields |-> row.mv[f]] = row.mv
  BY DEF Row, Movement
<1>2. Refreshed(row, writes) = [row EXCEPT !.mv = [f \in Fields |-> row.mv[f]]]
  BY DEF Refreshed
<1> QED
  BY <1>1, <1>2 DEF Row

(* A row whose id the feed has takes the movement of its first copy.       *)
LEMMA FetchedRow ==
  ASSUME NEW id, NEW known \in SUBSET Row, NEW feed \in Seq(RemoteTx),
         NEW row \in known, row.account = id,
         NEW i \in FirstCopies(feed), feed[i].tid = row.tid
  PROVE  Refreshed(row, WritesOf(id, known, feed)).mv = feed[i].mv
<1> DEFINE writes == WritesOf(id, known, feed)
           Hit(f) == \E w \in writes : SameKey(w, row) /\ w.field = f
           Pick(f) == CHOOSE w \in writes : SameKey(w, row) /\ w.field = f
           mv == [f \in Fields |-> IF Hit(f) THEN Pick(f).value ELSE row.mv[f]]
<1>1. feed[i] \in RemoteTx /\ row \in Row
  BY DEF FirstCopies
<1>2. feed[i].mv \in [Fields -> Values] /\ feed[i].tid \in Tids /\ row.mv \in [Fields -> Values]
  BY <1>1 DEF RemoteTx, Movement, Row
<1>3. ASSUME NEW w \in writes, SameKey(w, row) PROVE w.value = feed[i].mv[w.field]
  <2>1. PICK j \in FirstCopies(feed) : feed[j].tid = w.tid /\ w.value = feed[j].mv[w.field]
    BY DEF WritesOf
  <2>2. j = i
    BY <1>3, <2>1, FirstCopiesDiffer DEF SameKey
  <2> QED
    BY <2>1, <2>2
<1>4. ASSUME NEW f \in Fields, feed[i].mv[f] # row.mv[f] PROVE Hit(f)
  <2> DEFINE w == [account |-> id, tid |-> row.tid, field |-> f, value |-> feed[i].mv[f]]
  <2>1. w \in Write({id})
    BY <1>1, <1>2 DEF Write
  <2>2. w \in writes
    BY <1>4, <2>1 DEF WritesOf
  <2> QED
    BY <2>2 DEF SameKey
<1>5. ASSUME NEW f \in Fields PROVE mv[f] = feed[i].mv[f]
  <2>1. CASE Hit(f)
    <3>1. Pick(f) \in writes /\ SameKey(Pick(f), row) /\ Pick(f).field = f
      BY <2>1
    <3> HIDE DEF Pick, Hit, writes
    <3>2. Pick(f).value = feed[i].mv[f]
      BY <1>3, <3>1
    <3> QED
      BY <2>1, <3>2
  <2>2. CASE ~Hit(f)
    BY <1>4, <2>2
  <2> QED
    BY <2>1, <2>2
<1>6. Refreshed(row, writes) = [row EXCEPT !.mv = mv]
  BY DEF Refreshed
<1> HIDE DEF writes, Hit, Pick
<1>7. mv = feed[i].mv
  BY <1>2, <1>5
<1> HIDE DEF mv
<1>8. Refreshed(row, writes).mv = mv
  BY <1>1, <1>6 DEF Row
<1> QED
  BY <1>7, <1>8 DEF writes

(* Every other row keeps the movement it has.                              *)
LEMMA UnfetchedRow ==
  ASSUME NEW id, NEW known, NEW feed, NEW row \in Row,
         row.account # id \/ \A i \in FirstCopies(feed) : feed[i].tid # row.tid
  PROVE  Refreshed(row, WritesOf(id, known, feed)) = row
<1>1. ASSUME NEW w \in WritesOf(id, known, feed) PROVE ~SameKey(w, row)
  BY DEF WritesOf, Write, SameKey
<1> QED
  BY <1>1, UntouchedRow

-----------------------------------------------------------------------------
(* What was heard stays heard while accounts stay and the bank moves on.   *)
LEMMA HearsayCarries ==
  ASSUME NEW as, NEW as2, NEW from \in Int, NEW to \in Int, NEW to2 \in Int, to <= to2,
         \A a \in as : \E b \in as2 : b.id = a.id /\ b.remote = a.remote,
         NEW e
  PROVE  /\ Heard(as, from, to, e) => Heard(as2, from, to2, e)
         /\ \A tid : Took(as, from, to, e, tid) => Took(as2, from, to2, e, tid)
<1>1. \A v \in from..to : v \in from..to2
  OBVIOUS
<1>2. ASSUME Heard(as, from, to, e) PROVE Heard(as2, from, to2, e)
  <2>1. PICK a \in as, v \in from..to :
          /\ a.id = e.account
          /\ \E i \in FirstCopies(Feed[a.remote][v]) :
               /\ Feed[a.remote][v][i] = [tid |-> e.tid, mv |-> e.mv]
               /\ \A j \in FirstCopies(Feed[a.remote][v]) :
                    j < i => Feed[a.remote][v][j].mv # e.mv
    BY <1>2 DEF Heard
  <2>2. PICK b \in as2 : b.id = a.id /\ b.remote = a.remote
    OBVIOUS
  <2> QED
    BY <1>1, <2>1, <2>2 DEF Heard
<1>3. ASSUME NEW tid, Took(as, from, to, e, tid) PROVE Took(as2, from, to2, e, tid)
  <2>1. PICK a \in as, v \in from..to, w \in from..to :
          /\ a.id = e.account
          /\ \E i \in FirstCopies(Feed[a.remote][v]), j \in FirstCopies(Feed[a.remote][w]) :
               /\ v < w \/ (v = w /\ i < j)
               /\ Feed[a.remote][v][i] = [tid |-> e.tid, mv |-> e.mv]
               /\ Feed[a.remote][w][j] = [tid |-> tid, mv |-> e.mv]
    BY <1>3 DEF Took
  <2>2. PICK b \in as2 : b.id = a.id /\ b.remote = a.remote
    OBVIOUS
  <2>3. PICK i \in FirstCopies(Feed[b.remote][v]), j \in FirstCopies(Feed[b.remote][w]) :
          /\ v < w \/ (v = w /\ i < j)
          /\ Feed[b.remote][v][i] = [tid |-> e.tid, mv |-> e.mv]
          /\ Feed[b.remote][w][j] = [tid |-> tid, mv |-> e.mv]
    BY <2>1, <2>2
  <2>4. v \in from..to2 /\ w \in from..to2 /\ b.id = e.account
    BY <1>1, <2>1, <2>2
  <2> QED
    BY <2>3, <2>4 DEF Took
<1> QED
  BY <1>2, <1>3

FilledNext(r) == FilledSlot(req'[r], accounts', ledger', version')

LEMMA FilledOutside ==
  ASSUME NEW t, NEW cs, NEW as, NEW rows, NEW v, SoloSlot(t, cs, as, rows),
         t.pc \notin InLoop \cup {"persist", "finish"}
  PROVE  FilledSlot(t, as, rows, v)
BY DEF SoloSlot, FilledSlot

(* Steps that only move the program counter, or read what they already     *)
(* know.                                                                   *)
LEMMA FilledQuiet ==
  ASSUME TypeInv, FilledInv, NEW r \in Requests,
         SelectAccount(r) \/ LeaveLoop(r) \/ ReadRows(r)
  PROVE  FilledNext(r)
<1> DEFINE s == req[r]
           t == req'[r]
<1>1. FilledSlot(s, accounts, ledger, version) /\ s \in Slot
  BY SoloTypes DEF FilledInv
<1>2. UNCHANGED <<accounts, ledger, version>>
  BY DEF SelectAccount, LeaveLoop, ReadRows, db
<1>3. /\ t.item = s.item /\ t.conn = s.conn /\ t.todo = s.todo /\ t.balance = s.balance
      /\ t.new = s.new /\ t.dirty = s.dirty
      /\ s.pc \in InLoop
  <2>1. CASE SelectAccount(r)
    <3>1. PICK id : req' = [req EXCEPT ![r].pc = "upsert", ![r].acct = id]
      BY <2>1 DEF SelectAccount
    <3>2. t = [[s EXCEPT !.pc = "upsert"] EXCEPT !.acct = id] /\ s.pc = "account"
      BY <2>1, <3>1, SoloTypes DEF SelectAccount
    <3> QED
      BY <1>1, <3>2 DEF Slot, InLoop
  <2>2. CASE LeaveLoop(r)
    BY <1>1, <2>2, SoloTypes DEF LeaveLoop, Slot, InLoop
  <2>3. CASE ReadRows(r)
    BY <1>1, <2>3, SoloTypes DEF ReadRows, Slot, InLoop
  <2> QED
    BY <2>1, <2>2, <2>3
<1> HIDE DEF s, t
<1>4. FilledSlot(t, accounts, ledger, version)
  BY <1>1, <1>3 DEF FilledSlot, Fresh, Visited, InLoop
<1> QED
  BY <1>2, <1>4 DEF FilledNext, t

LEMMA FilledFetchAccounts ==
  ASSUME TypeInv, SoloInv, NEW r \in Requests, FetchAccounts(r)
  PROVE  FilledNext(r)
<1> DEFINE s == req[r]
           t == req'[r]
<1>1. /\ t.balance = version /\ t.todo = AccountsOf[s.item] /\ t.item = s.item
      /\ t.new = s.new /\ s.new = {}
  <2>1. t = [s EXCEPT !.pc = "account", !.todo = AccountsOf[s.item], !.balance = version]
        /\ s.pc = "accounts"
    BY SoloTypes DEF FetchAccounts
  <2>2. s \in Slot /\ SoloSlot(s, connections, accounts, ledger)
    BY SoloTypes DEF SoloInv
  <2> HIDE DEF s, t
  <2>3. s.new = {}
    BY <2>1, <2>2 DEF SoloSlot, InLoop
  <2> QED
    BY <2>1, <2>2, <2>3 DEF Slot
<1>2. AccountsOf[s.item] \in Seq(RemoteAccounts)
  <2>1. s.item \in Items
    BY SoloTypes DEF SlotShape, InSync, FetchAccounts
  <2> QED
    BY <2>1, SyncAssumption
<1>v. UNCHANGED <<accounts, ledger, version>> /\ version \in Int
  BY SoloTypes DEF FetchAccounts, db
<1> HIDE DEF s, t
<1>3. \A remote : ~Visited(t, remote)
  BY <1>1, <1>2 DEF Visited
<1>4. FilledSlot(t, accounts, ledger, version)
  BY <1>1, <1>3, <1>v DEF FilledSlot, Fresh
<1> QED
  BY <1>v, <1>4 DEF FilledNext, t

(* Queued writes reach their rows: nothing is fresher or older for it.     *)
LEMMA FilledUpsert ==
  ASSUME TypeInv, SoloInv, FilledInv, NEW r \in Requests, UpsertAccount(r)
  PROVE  FilledNext(r)
<1> DEFINE s == req[r]
           t == req'[r]
<1>1. FilledSlot(s, accounts, ledger, version) /\ s.pc = "upsert" /\ version' = version
      /\ s.balance \in Int /\ version \in Int
      /\ SoloTables(connections, accounts, ledger, linked, opened)
  BY SoloTypes DEF FilledInv, UpsertAccount, SoloInv
<1>2. t.new = s.new /\ t.item = s.item /\ t.conn = s.conn /\ t.todo = s.todo
      /\ t.balance = s.balance /\ t.dirty = {}
  <2>1. CASE s.acct = 0
    <3>1. PICK id : req' = [req EXCEPT ![r].pc = "rows", ![r].acct = id, ![r].dirty = {}]
      BY <2>1 DEF UpsertAccount, OpenAccount
    <3>2. t = [[[s EXCEPT !.pc = "rows"] EXCEPT !.acct = id] EXCEPT !.dirty = {}]
      BY <3>1, SoloTypes
    <3>3. s \in Slot
      BY SoloTypes
    <3> HIDE DEF s, t
    <3> QED
      BY <3>2, <3>3 DEF Slot
  <2>2. CASE s.acct # 0
    <3>1. t = [[s EXCEPT !.pc = "rows"] EXCEPT !.dirty = {}]
      BY <2>2, SoloTypes DEF UpsertAccount, RefreshBalance
    <3>2. s \in Slot
      BY SoloTypes
    <3> HIDE DEF s, t
    <3> QED
      BY <3>1, <3>2 DEF Slot
  <2> QED
    BY <2>1, <2>2
<1>3. TypeInv' /\ SoloTables(connections', accounts', ledger', linked', opened')
  BY UpsertAccountType, SoloUpsert DEF SoloNext
<1>r. \A row \in ledger' : row \in Row
  BY <1>3 DEF TypeInv, TypeOK
<1>4. \A a \in accounts : \E b \in accounts' :
        b.id = a.id /\ b.connection = a.connection /\ b.remote = a.remote
  BY AccountsAfterUpsert
<1>5. ASSUME NEW row \in ledger'
      PROVE  /\ Refreshed(row, {}) = row
             /\ \E x \in ledger : SameKey(x, row) /\ row = Refreshed(x, s.dirty)
  <2>1. row \in RefreshedAll(ledger, s.dirty)
    BY DEF UpsertAccount
  <2> QED
    BY <1>r, <2>1, UntouchedRow, RefreshedKeys
<1>6. ASSUME NEW b \in accounts', NEW row \in ledger', row.account = b.id
      PROVE  \E a \in accounts : a.id = b.id /\ a.connection = b.connection /\ a.remote = b.remote
  <2>1. PICK x \in ledger : SameKey(x, row)
    BY <1>5
  <2>2. PICK a \in accounts : x.account = a.id
    BY <1>1 DEF SoloTables
  <2>3. PICK b2 \in accounts' : b2.id = a.id /\ b2.connection = a.connection
                                /\ b2.remote = a.remote
    BY <1>4
  <2>4. b2.id = b.id
    BY <1>6, <2>1, <2>2, <2>3 DEF SameKey
  <2>5. b2 = b
    BY <1>3, <2>4 DEF SoloTables
  <2> QED
    BY <2>3, <2>5
<1>7. \A e : /\ Heard(accounts, s.balance, version, e) => Heard(accounts', s.balance, version, e)
             /\ \A tid : Took(accounts, s.balance, version, e, tid)
                           => Took(accounts', s.balance, version, e, tid)
  <2> HIDE DEF s, t
  <2>1. \A a \in accounts : \E b \in accounts' : b.id = a.id /\ b.remote = a.remote
    BY <1>4
  <2>2. version <= version
    BY <1>1
  <2> QED
    BY <1>1, <2>1, <2>2, HearsayCarries
<1> HIDE DEF s, t
<1>8. ASSUME t.balance = version PROVE Fresh(t, accounts', ledger', version)
  <2> SUFFICES ASSUME NEW b \in accounts', b.connection = t.conn, Visited(t, b.remote),
                      NEW i \in FirstCopies(Feed[b.remote][version]), NEW row \in ledger',
                      row.account = b.id, row.tid = Feed[b.remote][version][i].tid
               PROVE  Refreshed(row, t.dirty).mv = Feed[b.remote][version][i].mv
    BY DEF Fresh
  <2>1. PICK x \in ledger : SameKey(x, row) /\ row = Refreshed(x, s.dirty)
    BY <1>5
  <2>2. PICK a \in accounts : a.id = b.id /\ a.connection = b.connection /\ a.remote = b.remote
    BY <1>6
  <2>3. Fresh(s, accounts, ledger, version)
    BY <1>1, <1>2, <1>8 DEF FilledSlot, InLoop
  <2>4. Visited(s, a.remote) /\ a.connection = s.conn
    BY <1>2, <2>2 DEF Visited
  <2>5. x.account = a.id /\ x.tid = Feed[a.remote][version][i].tid
    BY <2>1, <2>2 DEF SameKey
  <2>6. Refreshed(x, s.dirty).mv = Feed[a.remote][version][i].mv
    BY <2>2, <2>3, <2>4, <2>5 DEF Fresh
  <2> QED
    BY <1>2, <1>5, <2>1, <2>2, <2>6
<1>9. ASSUME NEW e \in t.new, NEW row \in ledger', row.account = e.account,
             Refreshed(row, t.dirty).mv = e.mv
      PROVE  Took(accounts', t.balance, version, e, row.tid)
  <2>1. PICK x \in ledger : SameKey(x, row) /\ row = Refreshed(x, s.dirty)
    BY <1>5
  <2>2. x.account = e.account /\ Refreshed(x, s.dirty).mv = e.mv /\ x.tid = row.tid
    BY <1>2, <1>5, <1>9, <2>1 DEF SameKey
  <2>3. Took(accounts, s.balance, version, e, x.tid)
    BY <1>1, <1>2, <2>2 DEF FilledSlot
  <2> QED
    BY <1>2, <1>7, <2>2, <2>3
<1>10. \A e \in t.new : Heard(accounts', t.balance, version, e)
  BY <1>1, <1>2, <1>7 DEF FilledSlot
<1>11. FilledSlot(t, accounts', ledger', version)
  BY <1>1, <1>2, <1>8, <1>9, <1>10 DEF FilledSlot, InLoop
<1> QED
  BY <1>1, <1>11 DEF FilledNext, t

(* The fetch: the account becomes fresh, the others stay; a new entry was  *)
(* heard now, and any row that has its movement took it further down, or   *)
(* in a later answer than that in which an older entry was heard.          *)
LEMMA FilledFetch ==
  ASSUME TypeInv, SoloInv, FilledInv, NEW r \in Requests, FetchTransactions(r)
  PROVE  FilledNext(r)
<1> DEFINE s == req[r]
           t == req'[r]
           feed == Feed[Head(s.todo)][version]
           writes == WritesOf(s.acct, s.known, feed)
           fresh == NewEntries(s.acct, s.known, feed)
<1>1. /\ FilledSlot(s, accounts, ledger, version) /\ s.pc = "fetch"
      /\ SoloSlot(s, connections, accounts, ledger)
      /\ SoloTables(connections, accounts, ledger, linked, opened)
      /\ s.balance \in Int /\ version \in Int
      /\ UNCHANGED <<accounts, ledger, version>>
  BY SoloTypes DEF FilledInv, SoloInv, FetchTransactions, db
<1>2. /\ t.pc = "account" /\ t.item = s.item /\ t.conn = s.conn /\ t.todo = Tail(s.todo)
      /\ t.balance = s.balance /\ t.dirty = writes /\ t.new = Accumulate(s.new, fresh)
  <2>1. t = [s EXCEPT !.pc = "account", !.todo = Tail(s.todo), !.acct = 0, !.known = {},
                      !.dirty = writes,
                      !.new = Accumulate(s.new, fresh)]
    BY SoloTypes DEF FetchTransactions
  <2>2. s \in Slot
    BY SoloTypes
  <2> HIDE DEF s, t, feed, fresh, writes
  <2>3. DOMAIN s = {"pc", "user", "item", "conn", "todo", "balance", "acct", "known", "dirty",
                    "new", "doomed"}
    BY <2>2 DEF Slot
  <2> QED
    BY <2>1, <2>3
<1>3. s.todo \in Seq(RemoteAccounts) /\ s.todo # <<>>
  BY <1>1, SoloTypes DEF SlotShape
<1>l. AccountsOf[s.item] \in Seq(RemoteAccounts)
  <2>1. s.item \in Items
    BY <1>1, SoloTypes DEF SlotShape, InSync
  <2> QED
    BY <2>1, SyncAssumption
<1>4. feed \in Seq(RemoteTx)
  <2>1. Head(s.todo) \in RemoteAccounts
    BY <1>3
  <2> QED
    BY <2>1, SoloTypes, FeedType
<1>5. PICK own \in accounts : own.id = s.acct /\ own.connection = s.conn
                              /\ own.remote = Head(s.todo)
  BY <1>1 DEF SoloSlot
<1>6. s.known = {row \in ledger : row.account = s.acct} /\ s.dirty = {}
  BY <1>1 DEF SoloSlot
<1>k. s.known \in SUBSET Row /\ \A row \in ledger : row \in Row
  BY <1>6, SoloTypes
<1>n. \A e \in t.new : e \in s.new \/ e \in fresh
  BY <1>2 DEF Accumulate
<1>f. \A e \in fresh : \E i \in FirstCopies(feed) :
        /\ e.account = s.acct /\ e.tid = feed[i].tid /\ e.mv = feed[i].mv
        /\ IsNew(i, s.known, feed)
  BY DEF NewEntries
<1>e. s.balance <= version
  BY <1>1 DEF FilledSlot, InLoop
<1>8. ASSUME NEW row \in ledger, row.account = s.acct, NEW i \in FirstCopies(feed),
             feed[i].tid = row.tid
      PROVE  Refreshed(row, writes).mv = feed[i].mv
  <2>1. row \in s.known
    BY <1>6, <1>8
  <2>2. s.known \in SUBSET Row
    BY <1>k
  <2> DEFINE known == s.known
             id == s.acct
  <2> HIDE DEF s, feed, known, id
  <2>3. Refreshed(row, WritesOf(id, known, feed)).mv = feed[i].mv
    <3>1. row \in known /\ known \in SUBSET Row /\ row.account = id
      BY <1>8, <2>1, <2>2 DEF known, id
    <3> QED
      BY <1>4, <1>8, <3>1, FetchedRow
  <2> QED
    BY <2>3 DEF known, id
<1>9. ASSUME NEW row \in ledger,
             row.account # s.acct \/ \A i \in FirstCopies(feed) : feed[i].tid # row.tid
      PROVE  Refreshed(row, writes) = Refreshed(row, s.dirty)
  <2>1. Refreshed(row, writes) = row
    BY <1>9, <1>k, UnfetchedRow
  <2>2. Refreshed(row, {}) = row
    BY <1>k, UntouchedRow
  <2> QED
    BY <1>6, <2>1, <2>2
<1>v. \A remote : Visited(t, remote) => Visited(s, remote) \/ remote = Head(s.todo)
  <2> DEFINE list == AccountsOf[s.item]
  <2>1. /\ Len(s.todo) \in Nat /\ Len(list) \in Nat /\ Len(s.todo) >= 1
        /\ Len(t.todo) = Len(s.todo) - 1 /\ Head(s.todo) = s.todo[1]
    BY <1>2, <1>3, <1>l
  <2>2. \A k \in 1..Len(s.todo) : s.todo[k] = list[(Len(list) - Len(s.todo)) + k]
    BY <1>1 DEF SoloSlot, InLoop, ToVisit
  <2>3. AccountsOf[t.item] = list
    BY <1>2
  <2> SUFFICES ASSUME NEW k \in 1..(Len(list) - Len(t.todo))
               PROVE  Visited(s, list[k]) \/ list[k] = Head(s.todo)
    BY <2>3 DEF Visited
  <2> HIDE DEF t
  <2>4. CASE k \in 1..(Len(list) - Len(s.todo))
    BY <2>4 DEF Visited
  <2>5. CASE k = (Len(list) - Len(s.todo)) + 1
    <3>1. 1 \in 1..Len(s.todo)
      BY <2>1
    <3> HIDE DEF list, s
    <3> QED
      BY <2>1, <2>2, <2>5, <3>1
  <2> HIDE DEF list, s
  <2>6. k \in 1..(Len(list) - Len(s.todo)) \/ k = (Len(list) - Len(s.todo)) + 1
    BY <2>1
  <2> QED
    BY <2>4, <2>5, <2>6
<1> HIDE DEF s, t, feed, writes, fresh
<1>10. ASSUME t.balance = version PROVE Fresh(t, accounts, ledger, version)
  <2> SUFFICES ASSUME NEW a \in accounts, a.connection = t.conn, Visited(t, a.remote),
                      NEW i \in FirstCopies(Feed[a.remote][version]), NEW row \in ledger,
                      row.account = a.id, row.tid = Feed[a.remote][version][i].tid
               PROVE  Refreshed(row, t.dirty).mv = Feed[a.remote][version][i].mv
    BY DEF Fresh
  <2>1. CASE a = own
    <3>1. Feed[a.remote][version] = feed /\ row.account = s.acct
      BY <1>5, <2>1 DEF feed
    <3> QED
      BY <1>2, <1>8, <3>1
  <2>2. CASE a # own
    <3>1. a.id # s.acct /\ a.remote # Head(s.todo)
      BY <1>1, <1>2, <1>5, <2>2 DEF SoloTables
    <3>2. Visited(s, a.remote)
      BY <1>v, <3>1
    <3>3. Fresh(s, accounts, ledger, version)
      BY <1>1, <1>2, <1>10 DEF FilledSlot, InLoop
    <3>4. Refreshed(row, s.dirty).mv = Feed[a.remote][version][i].mv
      BY <1>2, <3>2, <3>3 DEF Fresh
    <3> QED
      BY <1>2, <1>9, <3>1, <3>4
  <2> QED
    BY <2>1, <2>2
<1>11. ASSUME NEW e \in fresh PROVE Heard(accounts, s.balance, version, e)
  <2>1. PICK i \in FirstCopies(feed) :
          /\ e.account = s.acct /\ e.tid = feed[i].tid /\ e.mv = feed[i].mv
          /\ IsNew(i, s.known, feed)
    BY <1>f
  <2>2. feed[i] = [tid |-> e.tid, mv |-> e.mv]
    <3>1. feed[i] \in RemoteTx
      BY <1>4 DEF FirstCopies
    <3> QED
      BY <2>1, <3>1 DEF RemoteTx
  <2>3. \A j \in FirstCopies(feed) : j < i => feed[j].mv # e.mv
    BY <2>1 DEF IsNew
  <2>4. version \in s.balance..version
    BY <1>1, <1>e
  <2>5. own.id = e.account /\ feed = Feed[own.remote][version]
    BY <1>5, <2>1 DEF feed
  <2> QED
    BY <2>2, <2>3, <2>4, <2>5 DEF Heard
<1>12. ASSUME NEW e, NEW v \in s.balance..version, NEW i \in FirstCopies(Feed[own.remote][v]),
              Feed[own.remote][v][i] = [tid |-> e.tid, mv |-> e.mv],
              \A j \in FirstCopies(Feed[own.remote][v]) :
                 j < i => Feed[own.remote][v][j].mv # e.mv,
              e.account = s.acct,
              NEW row \in ledger, row.account = s.acct, row.tid # e.tid,
              NEW j \in FirstCopies(feed), feed[j].tid = row.tid, feed[j].mv = e.mv
       PROVE  Took(accounts, s.balance, version, e, row.tid)
  <2>1. feed[j] = [tid |-> row.tid, mv |-> e.mv]
    <3>1. feed[j] \in RemoteTx
      BY <1>4 DEF FirstCopies
    <3> QED
      BY <1>12, <3>1 DEF RemoteTx
  <2>2. v < version \/ (v = version /\ i < j)
    <3>1. CASE v = version
      <4>1. Feed[own.remote][v] = feed
        BY <1>5, <3>1 DEF feed
      <4>2. i \in Int /\ j \in Int
        BY <1>4, <1>12, <4>1, FirstCopiesDiffer
      <4>3. ~(j < i)
        BY <1>12, <4>1
      <4>4. j # i
        BY <1>12, <4>1
      <4> QED
        BY <3>1, <4>2, <4>3, <4>4
    <3>2. v \in Int /\ v <= version
      BY <1>1
    <3> QED
      BY <1>1, <3>1, <3>2
  <2>3. version \in s.balance..version /\ own.id = e.account
        /\ feed = Feed[own.remote][version]
    BY <1>1, <1>e, <1>5, <1>12 DEF feed
  <2> QED
    BY <1>12, <2>1, <2>2, <2>3 DEF Took
<1>13. ASSUME NEW e \in t.new PROVE Heard(accounts, s.balance, version, e)
  BY <1>1, <1>n, <1>11 DEF FilledSlot
<1>14. ASSUME NEW e \in t.new, NEW row \in ledger, row.account = e.account,
              Refreshed(row, t.dirty).mv = e.mv
       PROVE  Took(accounts, s.balance, version, e, row.tid)
  <2>1. CASE e \in s.new /\ Refreshed(row, writes) = Refreshed(row, s.dirty)
    BY <1>1, <1>2, <1>14, <2>1 DEF FilledSlot
  <2>2. CASE e \in s.new /\ Refreshed(row, writes) # Refreshed(row, s.dirty)
    <3>1. row.account = s.acct
      BY <1>9, <2>2
    <3>2. PICK j \in FirstCopies(feed) : feed[j].tid = row.tid
      BY <1>9, <2>2
    <3>3. feed[j].mv = e.mv
      BY <1>2, <1>8, <1>14, <3>1, <3>2
    <3>4. PICK a \in accounts, v \in s.balance..version :
            /\ a.id = e.account
            /\ \E i \in FirstCopies(Feed[a.remote][v]) :
                 /\ Feed[a.remote][v][i] = [tid |-> e.tid, mv |-> e.mv]
                 /\ \A k \in FirstCopies(Feed[a.remote][v]) :
                      k < i => Feed[a.remote][v][k].mv # e.mv
      BY <1>13 DEF Heard
    <3>5. a = own
      BY <1>1, <1>5, <1>14, <3>1, <3>4 DEF SoloTables
    <3>6. row.tid # e.tid
      BY <1>1, <1>14, <2>2 DEF SoloSlot, SameKey
    <3> QED
      BY <1>12, <1>14, <3>1, <3>2, <3>3, <3>4, <3>5, <3>6
  <2>3. CASE e \in fresh
    <3>1. PICK i \in FirstCopies(feed) :
            /\ e.account = s.acct /\ e.tid = feed[i].tid /\ e.mv = feed[i].mv
            /\ IsNew(i, s.known, feed)
      BY <1>f, <2>3
    <3>2. row \in s.known /\ row.tid # e.tid /\ row.mv # e.mv
      BY <1>6, <1>14, <3>1 DEF IsNew
    <3>3. Refreshed(row, s.dirty) = row
      BY <1>6, <1>k, UntouchedRow
    <3>4. PICK j \in FirstCopies(feed) : feed[j].tid = row.tid
      BY <1>2, <1>9, <1>14, <3>2, <3>3
    <3>5. feed[j].mv = e.mv
      BY <1>2, <1>8, <1>14, <3>1, <3>4
    <3>6. feed[i] = [tid |-> e.tid, mv |-> e.mv]
      <4>1. feed[i] \in RemoteTx
        BY <1>4 DEF FirstCopies
      <4> QED
        BY <3>1, <4>1 DEF RemoteTx
    <3>7. \A k \in FirstCopies(feed) : k < i => feed[k].mv # e.mv
      BY <3>1 DEF IsNew
    <3>8. version \in s.balance..version /\ feed = Feed[own.remote][version]
      BY <1>1, <1>e, <1>5 DEF feed
    <3> QED
      BY <1>12, <1>14, <3>1, <3>2, <3>4, <3>5, <3>6, <3>7, <3>8
  <2> QED
    BY <1>n, <2>1, <2>2, <2>3
<1>15. FilledSlot(t, accounts, ledger, version)
  BY <1>1, <1>2, <1>e, <1>10, <1>13, <1>14 DEF FilledSlot
<1> QED
  BY <1>1, <1>15 DEF FilledNext, t

(* What is inserted is what was heard, and an unmoved bank still says it.  *)
LEMMA FilledPersist ==
  ASSUME TypeInv, SoloInv, FilledInv, NEW r \in Requests, Persist(r)
  PROVE  FilledNext(r)
<1> DEFINE s == req[r]
           t == req'[r]
<1>1. /\ FilledSlot(s, accounts, ledger, version) /\ s.pc = "persist"
      /\ SoloTables(connections, accounts, ledger, linked, opened)
      /\ s.balance \in Int /\ version \in Int
      /\ UNCHANGED <<connections, accounts, version>>
  BY SoloTypes DEF FilledInv, SoloInv, Persist
<1>2. /\ t.pc = "finish" /\ t.item = s.item /\ t.conn = s.conn /\ t.todo = s.todo
      /\ t.new = s.new /\ t.dirty = {} /\ t.balance = s.balance
  BY <1>1, SoloTypes DEF Persist, Slot
<1>3. \A row \in ledger' : row \in Row
  BY PersistType DEF TypeInv, TypeOK
<1>4. \A a \in accounts : Feed[a.remote][version] \in Seq(RemoteTx)
  BY SoloTypes, FeedType DEF Account
<1>5. ASSUME NEW row \in ledger'
      PROVE  \/ \E x \in ledger : SameKey(x, row) /\ row = Refreshed(x, s.dirty)
             \/ \E e \in s.new : row.account = e.account /\ row.tid = e.tid /\ row.mv = e.mv
  BY SoloLedger, RefreshedKeys
<1> HIDE DEF s, t
<1>6. ASSUME t.balance = version PROVE Fresh(t, accounts, ledger', version)
  <2> SUFFICES ASSUME NEW a \in accounts, a.connection = t.conn, Visited(t, a.remote),
                      NEW i \in FirstCopies(Feed[a.remote][version]), NEW row \in ledger',
                      row.account = a.id, row.tid = Feed[a.remote][version][i].tid
               PROVE  Refreshed(row, t.dirty).mv = Feed[a.remote][version][i].mv
    BY DEF Fresh
  <2>1. Refreshed(row, t.dirty) = row
    BY <1>2, <1>3, UntouchedRow
  <2>2. CASE \E x \in ledger : SameKey(x, row) /\ row = Refreshed(x, s.dirty)
    <3>1. PICK x \in ledger : SameKey(x, row) /\ row = Refreshed(x, s.dirty)
      BY <2>2
    <3>2. Fresh(s, accounts, ledger, version) /\ Visited(s, a.remote)
      BY <1>1, <1>2, <1>6 DEF FilledSlot, Visited
    <3>3. x.account = a.id /\ x.tid = Feed[a.remote][version][i].tid
      BY <3>1 DEF SameKey
    <3>4. Refreshed(x, s.dirty).mv = Feed[a.remote][version][i].mv
      BY <1>2, <3>2, <3>3 DEF Fresh
    <3> QED
      BY <2>1, <3>1, <3>4
  <2>3. CASE \E e \in s.new : row.account = e.account /\ row.tid = e.tid /\ row.mv = e.mv
    <3>1. PICK e \in s.new : row.account = e.account /\ row.tid = e.tid /\ row.mv = e.mv
      BY <2>3
    <3>2. Heard(accounts, s.balance, version, e)
      BY <1>1 DEF FilledSlot
    <3>3. PICK b \in accounts, v \in s.balance..version :
            /\ b.id = e.account
            /\ \E k \in FirstCopies(Feed[b.remote][v]) :
                 Feed[b.remote][v][k] = [tid |-> e.tid, mv |-> e.mv]
      BY <3>2 DEF Heard
    <3>4. b = a
      BY <1>1, <3>1, <3>3 DEF SoloTables
    <3>5. v = version
      BY <1>1, <1>2, <1>6
    <3>6. PICK k \in FirstCopies(Feed[a.remote][version]) :
            Feed[a.remote][version][k] = [tid |-> e.tid, mv |-> e.mv]
      BY <3>3, <3>4, <3>5
    <3>7. Feed[a.remote][version][k].tid = Feed[a.remote][version][i].tid
      BY <3>1, <3>6
    <3>8. k = i
      BY <1>4, <3>7, FirstCopiesDiffer
    <3> QED
      BY <2>1, <3>1, <3>6, <3>8
  <2> QED
    BY <1>5, <2>2, <2>3
<1>7. FilledSlot(t, accounts, ledger', version)
  BY <1>1, <1>2, <1>6 DEF FilledSlot, InLoop
<1> QED
  BY <1>1, <1>7 DEF FilledNext, t

(* When the bank moves on, nothing fetched before is expected of anybody.  *)
LEMMA FilledBankMoves ==
  ASSUME TypeInv, FilledInv, BankMoves
  PROVE  FilledInv'
<1> SUFFICES ASSUME NEW r \in Requests
             PROVE  FilledSlot(req[r], accounts, ledger, version + 1)
  BY DEF FilledInv, BankMoves, db
<1> DEFINE s == req[r]
<1>1. FilledSlot(s, accounts, ledger, version) /\ s.balance \in Int /\ version \in Int
  BY SoloTypes DEF FilledInv
<1> HIDE DEF s
<1>2. ASSUME s.pc # "finish", NEW e \in s.new
      PROVE  /\ Heard(accounts, s.balance, version + 1, e)
             /\ \A tid : Took(accounts, s.balance, version, e, tid) =>
                         Took(accounts, s.balance, version + 1, e, tid)
  <2>1. Heard(accounts, s.balance, version, e)
    BY <1>1, <1>2 DEF FilledSlot
  <2>2. version + 1 \in Int /\ version <= version + 1
    BY <1>1
  <2> QED
    BY <1>1, <2>1, <2>2, HearsayCarries
<1>3. s.balance <= version => s.balance <= version + 1 /\ s.balance # version + 1
  BY <1>1
<1>4. FilledSlot(s, accounts, ledger, version + 1)
  BY <1>1, <1>2, <1>3 DEF FilledSlot
<1> QED
  BY <1>4 DEF s

(* Outside the loop over accounts a slot carries no such promise.          *)
LEMMA FilledRequestStep ==
  ASSUME TypeInv, SoloInv, FilledInv, NEW r \in Requests, Begin(r) \/ Proceed(r) \/ Fail(r)
  PROVE  FilledNext(r)
<1>s. SoloNext(r)
  BY SoloRequestStep
<1>o. ASSUME req'[r].pc \notin InLoop \cup {"persist", "finish"} PROVE FilledNext(r)
  BY <1>s, <1>o, FilledOutside DEF SoloNext, FilledNext
<1>i. req'[r] = Idle => FilledNext(r)
  BY <1>o DEF Idle, InLoop
<1>1. CASE Begin(r)
  <2>1. req'[r].pc \in {"quota", "accounts", "unlink"}
    <3>1. ASSUME NEW u \in Users, NEW i \in Items, StartSync(r, u, i)
          PROVE  req'[r].pc \in {"quota", "accounts"}
      <4> DEFINE start == [Idle EXCEPT !.user = u, !.item = i]
      <4>1. \/ req' = [req EXCEPT ![r] = [start EXCEPT !.pc = "quota"]]
            \/ \E c \in connections :
                 req' = [req EXCEPT ![r] = [start EXCEPT !.pc = "accounts", !.conn = c.id]]
        BY <3>1 DEF StartSync
      <4>2. /\ [start EXCEPT !.pc = "quota"].pc = "quota"
            /\ \A c \in connections :
                 [start EXCEPT !.pc = "accounts", !.conn = c.id].pc = "accounts"
        BY DEF Idle
      <4>3. req \in [Requests -> Slot]
        BY SoloTypes
      <4> HIDE DEF start
      <4> QED
        BY <4>1, <4>2, <4>3
    <3>2. ASSUME NEW c \in connections, StartDelete(r, c) PROVE req'[r].pc = "unlink"
      BY <3>2, SoloTypes DEF StartDelete, Idle
    <3> QED
      BY <1>1, <3>1, <3>2 DEF Begin
  <2> QED
    BY <1>o, <2>1 DEF InLoop
<1>2. CASE RefuseItem(r) \/ Finish(r) \/ CommitDelete(r) \/ DatabaseError(r) \/ Fail(r)
  <2>1. Close(r)
    BY <1>2 DEF RefuseItem, Finish, CommitDelete, DatabaseError, Fail
  <2> QED
    BY <1>i, <2>1, SoloTypes DEF Close
<1>3. CASE CheckQuota(r)
  <2>1. req'[r] = Idle \/ req'[r].pc = "claim"
    BY <1>3, SoloTypes DEF CheckQuota, Close, Slot
  <2> QED
    BY <1>i, <1>o, <2>1 DEF InLoop
<1>4. CASE ClaimItem(r)
  <2>1. PICK id : req' = [req EXCEPT ![r].pc = "accounts", ![r].conn = id]
    BY <1>4 DEF ClaimItem
  <2>2. req'[r] = [[req[r] EXCEPT !.pc = "accounts"] EXCEPT !.conn = id]
    BY <2>1, SoloTypes
  <2>3. req'[r].pc = "accounts"
    BY <2>2, SoloTypes DEF Slot
  <2> QED
    BY <1>o, <2>3 DEF InLoop
<1>5. CASE SelectAccount(r) \/ LeaveLoop(r) \/ ReadRows(r)
  BY <1>5, FilledQuiet
<1> QED
  BY <1>1, <1>2, <1>3, <1>4, <1>5, FilledFetchAccounts, FilledUpsert, FilledFetch, FilledPersist
  DEF Proceed

LEMMA FilledStep ==
  ASSUME Solo, TypeInv, SoloInv, FilledInv, [Next]_vars
  PROVE  FilledInv'
<1>1. ASSUME NEW r \in Requests, Begin(r) \/ Proceed(r) \/ Fail(r) PROVE FilledInv'
  <2>1. FilledNext(r) /\ \A q \in Requests : q = r
    BY <1>1, FilledRequestStep DEF Solo
  <2> QED
    BY <2>1 DEF FilledInv, FilledNext
<1>2. CASE UNCHANGED vars
  BY <1>2 DEF FilledInv, vars
<1> QED
  BY <1>1, <1>2, FilledBankMoves DEF Next

LEMMA FilledAlways ==
  ASSUME Solo
  PROVE  Spec => []FilledInv
<1>1. Init => FilledInv
  BY DEF Init, FilledInv, FilledSlot, Idle, InLoop
<1>2. TypeInv /\ SoloInv /\ FilledInv /\ [Next]_vars => FilledInv'
  BY FilledStep
<1> QED
  BY <1>1, <1>2, TypeAlways, SoloAlways, PTL DEF Spec

-----------------------------------------------------------------------------
(* At the end of a sync every account of the bank has been visited.        *)
LEMMA AllVisited ==
  ASSUME TypeInv, SoloInv, NEW r \in Requests, req[r].pc = "finish",
         NEW a \in accounts, a.connection = req[r].conn
  PROVE  Visited(req[r], a.remote)
<1> DEFINE s == req[r]
<1>1. SoloSlot(s, connections, accounts, ledger) /\ s.todo = <<>> /\ s.item \in Items
      /\ SoloTables(connections, accounts, ledger, linked, opened)
  BY SoloTypes DEF SoloInv, SoloSlot, SlotShape, InSync
<1>2. PICK c \in connections : a.connection = c.id /\ Lists(c.item, a.remote)
  BY <1>1 DEF SoloTables
<1>3. PICK d \in connections : d.id = s.conn /\ d.item = s.item
  BY <1>1 DEF SoloSlot, InSync
<1>4. c = d
  BY <1>1, <1>2, <1>3 DEF SoloTables
<1>5. Lists(s.item, a.remote) /\ AccountsOf[s.item] \in Seq(RemoteAccounts)
  BY <1>1, <1>2, <1>3, <1>4, SyncAssumption
<1> HIDE DEF s
<1>6. Visited(s, a.remote)
  BY <1>1, <1>5 DEF Visited, Lists
<1> QED
  BY <1>6 DEF s

(* A sync that ends while the bank still serves what it fetched leaves no  *)
(* stored row with an older movement under an id in the feed, although     *)
(* every account's column writes reach the database in a later commit.     *)
THEOREM FreshAlways ==
  ASSUME Solo
  PROVE  Spec => FinishedSyncIsFresh
<1>1. ASSUME TypeInv, SoloInv, FilledInv, NEW r \in Requests, Finish(r),
             req[r].balance = version,
             NEW a \in accounts, a.connection = req[r].conn, NEW row \in ledger',
             NEW i \in FirstCopies(Feed[a.remote][version]),
             row.account = a.id, row.tid = Feed[a.remote][version][i].tid
      PROVE  row.mv = Feed[a.remote][version][i].mv
  <2>1. req[r].pc = "finish" /\ row \in RefreshedAll(ledger, req[r].dirty)
    BY <1>1 DEF Finish
  <2>2. PICK x \in ledger : SameKey(x, row) /\ row = Refreshed(x, req[r].dirty)
    BY <1>1, <2>1, RefreshedKeys
  <2>3. Fresh(req[r], accounts, ledger, version)
    BY <1>1, <2>1 DEF FilledInv, FilledSlot
  <2>4. Visited(req[r], a.remote)
    BY <1>1, <2>1, AllVisited
  <2>5. x.account = a.id /\ x.tid = Feed[a.remote][version][i].tid
    BY <1>1, <2>2 DEF SameKey
  <2> QED
    BY <1>1, <2>2, <2>3, <2>4, <2>5 DEF Fresh
<1>2. TypeInv /\ SoloInv /\ FilledInv /\ [Next]_vars =>
        [\A r \in Requests : Finish(r) /\ req[r].balance = version =>
           \A a \in {x \in accounts : x.connection = req[r].conn}, row \in ledger' :
             \A i \in FirstCopies(Feed[a.remote][version]) :
               (row.account = a.id /\ row.tid = Feed[a.remote][version][i].tid) =>
                  row.mv = Feed[a.remote][version][i].mv]_vars
  BY <1>1
<1> QED
  BY <1>2, TypeAlways, SoloAlways, FilledAlways, PTL DEF Spec, FinishedSyncIsFresh

(* An inserted transaction repeats a stored one only if the feed listed it *)
(* before the stored one came to have its movement.                        *)
THEOREM NovelAlways ==
  ASSUME Solo
  PROVE  Spec => InsertedRowsAreNovel
<1>1. ASSUME TypeInv, SoloInv, FilledInv, NEW r \in Requests, Persist(r),
             NEW x \in ledger', NEW y \in ledger', NEW z \in ledger, SameKey(z, x),
             \A q \in ledger : ~SameKey(q, y), x.account = y.account, x.mv = y.mv
      PROVE  ListedBefore(r, y, x)
  <2> DEFINE s == req[r]
  <2>1. s.pc = "persist" /\ SoloSlot(s, connections, accounts, ledger)
        /\ FilledSlot(s, accounts, ledger, version)
    BY <1>1 DEF Persist, SoloInv, FilledInv
  <2>2. PICK e \in s.new : y.account = e.account /\ y.tid = e.tid /\ y.mv = e.mv
    BY <1>1, SoloLedger, RefreshedKeys
  <2>3. PICK q \in ledger : SameKey(q, x) /\ x = Refreshed(q, s.dirty)
    <3>1. \A n \in s.new : ~(x.account = n.account /\ x.tid = n.tid)
      BY <1>1, <2>1 DEF SoloSlot, SameKey
    <3> QED
      BY <1>1, <3>1, SoloLedger, RefreshedKeys
  <2>4. Took(accounts, s.balance, version, e, q.tid)
    <3>1. q.account = e.account /\ Refreshed(q, s.dirty).mv = e.mv
      BY <1>1, <2>2, <2>3 DEF SameKey
    <3> QED
      BY <2>1, <3>1 DEF FilledSlot
  <2>5. q.tid = x.tid /\ x.mv = e.mv
    BY <1>1, <2>2, <2>3 DEF SameKey
  <2> QED
    BY <2>2, <2>4, <2>5 DEF Took, ListedBefore
<1>2. ASSUME TypeInv, [Next]_vars, NEW y \in ledger', \A q \in ledger : ~SameKey(q, y)
      PROVE  \E r \in Requests : Persist(r)
  <2>1. ledger' # ledger
    BY <1>2 DEF SameKey
  <2>2. PICK r \in Requests : \/ ClaimItem(r) \/ UpsertAccount(r) \/ Persist(r)
                              \/ Finish(r) \/ CommitDelete(r)
    BY <1>2, <2>1, StepCases DEF db
  <2>3. ~ClaimItem(r)
    BY <2>1 DEF ClaimItem
  <2> QED
    BY <1>2, <2>2, <2>3, LedgerAfter
<1>3. TypeInv /\ SoloInv /\ FilledInv /\ [Next]_vars =>
        [\A x, y \in ledger' :
           /\ \E z \in ledger : SameKey(z, x)
           /\ \A z \in ledger : ~SameKey(z, y)
           /\ x.account = y.account /\ x.mv = y.mv
           => \E r \in Requests : ListedBefore(r, y, x)]_vars
  BY <1>1, <1>2
<1> QED
  BY <1>3, TypeAlways, SoloAlways, FilledAlways, PTL DEF Spec, InsertedRowsAreNovel
=============================================================================
