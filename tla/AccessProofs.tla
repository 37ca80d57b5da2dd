---------------------------- MODULE AccessProofs ----------------------------
(***************************************************************************)
(* Theorems about Access, for every number of worker slots, callers,       *)
(* emails, transactions, days and limits.                                  *)
(***************************************************************************)
EXTENDS Access, SequenceTheorems, FoldFacts

-----------------------------------------------------------------------------
(* One user per email.  InsertUser and CommitSeed look at the table in the *)
(* step that changes it, so this is inductive as it stands.                *)
OneUserPerEmail == \A u, v \in users : u.email = v.email => u = v

LEMMA InsertKeepsEmails ==
  ASSUME OneUserPerEmail, NEW r, InsertUser(r) PROVE OneUserPerEmail'
<1>1. users' = users \/ (users' = users \cup {[email |-> req[r].email, word |-> req[r].word]}
                         /\ \A u \in users : u.email # req[r].email)
  BY DEF InsertUser, HasUser
<1> QED
  BY <1>1 DEF OneUserPerEmail

LEMMA SeedKeepsEmails ==
  ASSUME OneUserPerEmail, NEW r, CommitSeed(r) PROVE OneUserPerEmail'
<1> DEFINE seeded == {[email |-> e, word |-> DemoPassword] : e \in req[r].missing}
<1>1. users' = users \/ (users' = users \cup seeded
                         /\ \A e \in req[r].missing : \A u \in users : u.email # e)
  BY DEF CommitSeed, SeedLands, HasUser
<1>2. \A u \in seeded : u.email \in req[r].missing
                        /\ u = [email |-> u.email, word |-> DemoPassword]
  OBVIOUS
<1>3. ASSUME NEW u \in users \cup seeded, NEW v \in users \cup seeded, u.email = v.email,
             \A e \in req[r].missing : \A w \in users : w.email # e
      PROVE  u = v
  BY <1>2, <1>3 DEF OneUserPerEmail
<1> QED
  BY <1>1, <1>3 DEF OneUserPerEmail

LEMMA UsersStep ==
  ASSUME OneUserPerEmail, [Next]_vars
  PROVE  OneUserPerEmail' /\ users \subseteq users'
<1>1. ASSUME NEW r \in Requests, InsertUser(r) \/ CommitSeed(r)
      PROVE  OneUserPerEmail' /\ users \subseteq users'
  <2>1. users \subseteq users'
    BY <1>1 DEF InsertUser, CommitSeed
  <2> QED
    BY <1>1, <2>1, InsertKeepsEmails, SeedKeepsEmails
<1>2. ASSUME NEW r \in Requests, NEW e, NEW w, NEW c,
             \/ AskRegister(r, e, w) \/ CheckPassword(r, e, w) \/ AskLogin(r, c)
             \/ Refuse(r) \/ Admit(r) \/ ReadDates(r) \/ TakeDay(r) \/ CommitShift(r)
             \/ StartSeed(r)
      PROVE  users' = users
  BY <1>2 DEF AskRegister, CheckPassword, AskLogin, Refuse, Admit, ReadDates, TakeDay,
              CommitShift, StartSeed, stored
<1>3. Tick \/ Midnight \/ Restart \/ UNCHANGED vars => users' = users
  BY DEF Tick, Midnight, Restart, stored, vars
<1>4. users' = users => OneUserPerEmail' /\ users \subseteq users'
  BY DEF OneUserPerEmail
<1> QED
  BY <1>1, <1>2, <1>3, <1>4 DEF Next

(* However registrations and the seed of the demo users overlap, no email  *)
(* ever has two users, and none loses the password it was stored with.     *)
THEOREM FirstUserAlwaysStands == Spec => FirstUserStands
<1>1. Init => OneUserPerEmail
  BY DEF Init, OneUserPerEmail
<1>2. OneUserPerEmail /\ [Next]_vars => OneUserPerEmail'
  BY UsersStep
<1>3. OneUserPerEmail /\ [Next]_vars =>
        [/\ users \subseteq users'
         /\ \A u, v \in users' : u.email = v.email => u = v]_vars
  BY UsersStep DEF OneUserPerEmail
<1> QED
  BY <1>1, <1>2, <1>3, PTL DEF Spec, FirstUserStands

-----------------------------------------------------------------------------
(* Types, and which locals are set at which step.                          *)
Steps == {"idle", "gate", "select", "dates", "day", "shift", "insert", "seed"}
Slot ==
  [pc : Steps, key : Keys \cup {None}, moment : Nat, email : Emails \cup {None},
   word : Passwords \cup {None}, seen : [Rows -> Nat], day : Nat,
   missing : SUBSET DemoEmails]

Shape(s) ==
  /\ s.pc = "gate" => s.key \in Keys
  /\ s.pc \in {"day", "shift"} => s.seen \in [Rows -> 1..today]
  /\ s.pc = "shift" => s.day \in 1..today /\ Rows # {}

SlotsOK == req \in [Requests -> Slot] /\ \A r \in Requests : Shape(req[r])
TablesOK ==
  /\ clock \in Nat /\ today \in Nat
  /\ dates \in [Rows -> 1..today] /\ bucket \in [Keys -> Seq(Nat)]
  /\ DOMAIN promise = Keys
TypeInv == SlotsOK /\ TablesOK

LEMMA SlotUpdate ==
  ASSUME SlotsOK, NEW r \in Requests, NEW s \in Slot, Shape(s), UNCHANGED today,
         req' = [req EXCEPT ![r] = s]
  PROVE  SlotsOK'
BY DEF SlotsOK, Shape

LEMMA IdleIsFine == Idle \in Slot /\ Shape(Idle) /\ Shape(Idle)'
<1>1. NoDates \in [Rows -> Nat]
  BY DEF NoDates
<1> QED
  BY <1>1 DEF Idle, Slot, Steps, Shape

LEMMA CloseIsFine ==
  ASSUME SlotsOK, NEW r \in Requests, Close(r), UNCHANGED today PROVE SlotsOK'
BY IdleIsFine, SlotUpdate DEF Close

-----------------------------------------------------------------------------
(* The window.                                                             *)
LEMMA PrunedFacts ==
  ASSUME NEW b \in Seq(Nat), NEW cutoff \in Int
  PROVE  /\ Pruned(b, cutoff) \in Seq(Nat) /\ Len(Pruned(b, cutoff)) <= Len(b)
         /\ b # <<>> /\ b[1] <= cutoff => Len(Pruned(b, cutoff)) < Len(b)
<1> DEFINE young == {i \in DOMAIN b : b[i] > cutoff}
<1>a. Len(b) \in Nat /\ DOMAIN b = 1..Len(b)
  OBVIOUS
<1>1. CASE young = {}
  <2>1. Pruned(b, cutoff) = <<>>
    BY <1>1 DEF Pruned
  <2> QED
    BY <2>1, <1>a
<1>2. CASE young # {}
  <2>1. \E i \in young : \A j \in young : i <= j
    <3>1. young \in SUBSET Nat
      BY <1>a
    <3> HIDE DEF young
    <3> QED
      BY <3>1, <1>2, LeastNumber
  <2> DEFINE first == CHOOSE i \in young : \A j \in young : i <= j
  <2>2. first \in young
    BY <2>1
  <2>3. Pruned(b, cutoff) = SubSeq(b, first, Len(b))
    BY <1>2 DEF Pruned
  <2> HIDE DEF first
  <2>4. first \in 1..Len(b) /\ b[first] > cutoff
    BY <2>2, <1>a
  <2>5. /\ SubSeq(b, first, Len(b)) \in Seq(Nat)
        /\ Len(SubSeq(b, first, Len(b))) = Len(b) - first + 1
    BY <2>4, <1>a
  <2>6. b[1] <= cutoff => first > 1
    BY <2>4
  <2> QED
    BY <2>3, <2>4, <2>5, <2>6, <1>a
<1> QED
  BY <1>1, <1>2

(* What a shift leaves: every row between the first of the month and the   *)
(* day, in the order the rows were read.                                   *)
LEMMA NewestIsOne ==
  ASSUME NEW n \in Nat, NEW d \in [Rows -> 1..n], Rows # {}
  PROVE  Newest(d) \in 1..n /\ (\E x \in Rows : d[x] = Newest(d))
         /\ \A x \in Rows : d[x] <= Newest(d)
<1> DEFINE D == {d[x] : x \in Rows}
<1>1. D \in SUBSET (1..n) /\ D # {}
  OBVIOUS
<1>2. \E i \in D : \A j \in D : j <= i
  <2> HIDE DEF D
  <2> QED
    BY <1>1, LastPosition
<1>3. Newest(d) \in D /\ \A x \in Rows : d[x] <= Newest(d)
  BY <1>2 DEF Newest
<1> QED
  BY <1>1, <1>3

LEMMA MonthFacts ==
  ASSUME NEW day \in Nat \ {0} PROVE MonthStart(day) \in 1..day
<1>1. day - 1 \in Nat /\ MonthLength \in Nat \ {0}
  BY AccessAssumption
<1>2. \A a \in Nat, m \in Nat \ {0} : (a \div m) * m \in 0..a
  OBVIOUS
<1>3. ((day - 1) \div MonthLength) * MonthLength \in 0..(day - 1)
  BY <1>1, <1>2
<1> QED
  BY <1>3 DEF MonthStart

LEMMA ShiftFacts ==
  ASSUME NEW n \in Nat, NEW d \in [Rows -> 1..n], NEW day \in 1..n, Rows # {}
  PROVE  /\ Shifted(d, day) \in [Rows -> MonthStart(day)..day]
         /\ \A x, y \in Rows : d[x] <= d[y] => Shifted(d, day)[x] <= Shifted(d, day)[y]
         /\ \E x \in Rows : Shifted(d, day)[x] >= day - 1
<1> DEFINE new == Newest(d)
           first == MonthStart(day)
           s == Shifted(d, day)
<1>1. new \in 1..n /\ first \in 1..day /\ \A x \in Rows : d[x] \in 1..n
  BY NewestIsOne, MonthFacts
<1>2. \A x \in Rows :
        s[x] = LET moved == d[x] + day - 1 - new
                   capped == IF moved > day THEN day ELSE moved
               IN  IF capped < first THEN first ELSE capped
  BY DEF Shifted
<1>3. PICK newest \in Rows : d[newest] = new
  BY NewestIsOne
<1>4. s = [x \in Rows |-> s[x]]
  BY DEF Shifted
<1> HIDE DEF new, first, s
<1>5. \A x \in Rows : s[x] \in first..day
  BY <1>1, <1>2
<1>6. \A x, y \in Rows : d[x] <= d[y] => s[x] <= s[y]
  BY <1>1, <1>2
<1>7. s[newest] >= day - 1
  BY <1>1, <1>2, <1>3
<1>8. s \in [Rows -> first..day]
  BY <1>4, <1>5
<1> QED
  BY <1>6, <1>7, <1>8 DEF s, first

-----------------------------------------------------------------------------
LEMMA TypeStarts == Init => TypeInv
<1> SUFFICES ASSUME Init PROVE TypeInv
  OBVIOUS
<1>1. SlotsOK
  BY IdleIsFine DEF Init, SlotsOK
<1>2. MonthLength \in Nat \ {0} /\ 1 \in 1..MonthLength
  BY AccessAssumption
<1>3. dates \in [Rows -> 1..MonthLength]
  BY <1>2 DEF Init
<1>4. bucket \in [Keys -> Seq(Nat)] /\ DOMAIN promise = Keys
  BY DEF Init, NoAttempts, NoPromise
<1> QED
  BY <1>1, <1>2, <1>3, <1>4 DEF Init, TypeInv, TablesOK

LEMMA TypeStep == TypeInv /\ [Next]_vars => TypeInv'
<1> SUFFICES ASSUME TypeInv, [Next]_vars PROVE TypeInv'
  OBVIOUS
<1> USE DEF TypeInv
<1>a. Window \in Nat /\ clock \in Nat /\ today \in Nat
  BY AccessAssumption DEF TablesOK
<1>q. ASSUME NEW r \in Requests PROVE req[r] \in Slot /\ Shape(req[r])
  BY DEF SlotsOK
<1>1. ASSUME NEW r \in Requests, NEW e, NEW w, NEW c,
             \/ AskRegister(r, e, w) \/ CheckPassword(r, e, w) \/ AskLogin(r, c)
             \/ ReadDates(r) \/ TakeDay(r) \/ InsertUser(r) \/ StartSeed(r) \/ CommitSeed(r)
      PROVE  TablesOK' /\ UNCHANGED today
  BY <1>1 DEF AskRegister, CheckPassword, AskLogin, ReadDates, TakeDay, InsertUser,
              StartSeed, CommitSeed, stored, throttle, TablesOK
<1>2. ASSUME NEW r \in Requests, NEW e \in Emails, NEW w \in Passwords,
             AskRegister(r, e, w)
      PROVE  SlotsOK'
  <2> DEFINE s == [Idle EXCEPT !.pc = "insert", !.email = e, !.word = w]
  <2>1. s \in Slot /\ Shape(s)
    BY IdleIsFine DEF Slot, Shape, Steps
  <2> QED
    BY <1>1, <1>2, <2>1, SlotUpdate DEF AskRegister
<1>3. ASSUME NEW r \in Requests, NEW e, NEW w, CheckPassword(r, e, w) PROVE SlotsOK'
  <2> DEFINE s == [req[r] EXCEPT !.pc = "dates"]
  <2>1. s \in Slot /\ Shape(s)
    BY <1>q DEF Slot, Shape, Steps
  <2>2. Close(r) \/ req' = [req EXCEPT ![r] = s]
    BY <1>3 DEF CheckPassword
  <2> QED
    BY <1>1, <1>3, <2>1, <2>2, SlotUpdate, CloseIsFine
<1>4. ASSUME NEW r \in Requests, NEW c \in Callers, AskLogin(r, c) PROVE SlotsOK'
  <2> DEFINE s == [Idle EXCEPT !.pc = "gate", !.key = ClientKey(c), !.moment = clock]
  <2>1. s \in Slot /\ Shape(s)
    BY IdleIsFine, <1>a DEF Slot, Shape, Steps, Keys
  <2> QED
    BY <1>1, <1>4, <2>1, SlotUpdate DEF AskLogin
<1>5. ASSUME NEW r \in Requests, ReadDates(r) PROVE SlotsOK'
  <2> DEFINE s == [req[r] EXCEPT !.pc = "day", !.seen = dates]
  <2>1. today' = today /\ dates \in [Rows -> 1..today] /\ dates \in [Rows -> Nat]
    BY <1>5, <1>a DEF ReadDates, TablesOK
  <2>2. s \in Slot /\ Shape(s)
    BY <1>q, <2>1 DEF Slot, Shape, Steps
  <2>3. req' = [req EXCEPT ![r] = s]
    BY <1>5 DEF ReadDates
  <2> QED
    BY <2>1, <2>2, <2>3, SlotUpdate
<1>6. ASSUME NEW r \in Requests, TakeDay(r) PROVE SlotsOK'
  <2> DEFINE s == [req[r] EXCEPT !.pc = "shift", !.day = today]
  <2>1. Close(r) \/ (req' = [req EXCEPT ![r] = s] /\ StaleFor(req[r].seen, today))
    BY <1>6 DEF TakeDay
  <2>2. CASE StaleFor(req[r].seen, today)
    <3>1. req[r].seen \in [Rows -> 1..today] /\ Rows # {}
      BY <1>6, <1>q, <2>2 DEF TakeDay, Shape, StaleFor
    <3>2. today \in 1..today /\ today' = today
      BY <3>1, <1>6, <1>a DEF TakeDay
    <3>3. s \in Slot /\ Shape(s)
      BY <1>q, <1>a, <3>1, <3>2 DEF Slot, Shape, Steps
    <3> QED
      BY <2>1, <3>2, <3>3, SlotUpdate, CloseIsFine
  <2> QED
    BY <1>1, <1>6, <2>1, <2>2, CloseIsFine
<1>7. ASSUME NEW r \in Requests, InsertUser(r) \/ CommitSeed(r) PROVE SlotsOK'
  BY <1>1, <1>7, CloseIsFine DEF InsertUser, CommitSeed
<1>8. ASSUME NEW r \in Requests, StartSeed(r) PROVE SlotsOK'
  <2> DEFINE s == [Idle EXCEPT !.pc = "seed", !.missing = {e \in DemoEmails : ~HasUser(e)}]
  <2>1. s \in Slot /\ Shape(s)
    BY IdleIsFine DEF Slot, Shape, Steps
  <2> QED
    BY <1>1, <1>8, <2>1, SlotUpdate DEF StartSeed
<1>9. ASSUME NEW r \in Requests, Refuse(r) \/ Admit(r) PROVE TypeInv'
  <2> DEFINE k == req[r].key
             s == [req[r] EXCEPT !.pc = "select", !.key = None, !.moment = 0]
  <2>1. k \in Keys /\ req[r].moment \in Nat /\ today' = today /\ Kept(r) \in Seq(Nat)
    <3>1. k \in Keys /\ req[r].moment \in Nat /\ today' = today
      BY <1>9, <1>q DEF Refuse, Admit, Shape, Slot
    <3>2. bucket[k] \in Seq(Nat) /\ req[r].moment - Window \in Int
      BY <3>1, <1>a DEF TablesOK
    <3> QED
      BY <3>1, <3>2, PrunedFacts DEF Kept
  <2>2. s \in Slot /\ Shape(s)
    BY <1>q DEF Slot, Shape, Steps
  <2>3. Close(r) \/ req' = [req EXCEPT ![r] = s]
    BY <1>9 DEF Refuse, Admit
  <2>4. SlotsOK'
    BY <2>1, <2>2, <2>3, SlotUpdate, CloseIsFine
  <2>5. bucket' \in [Keys -> Seq(Nat)]
    <3>1. \/ bucket' = [bucket EXCEPT ![k] = Kept(r)]
          \/ bucket' = [bucket EXCEPT ![k] = Append(Kept(r), req[r].moment)]
      BY <1>9 DEF Refuse, Admit
    <3>2. Append(Kept(r), req[r].moment) \in Seq(Nat)
      BY <2>1
    <3>3. \E b \in Seq(Nat) : bucket' = [bucket EXCEPT ![k] = b]
      BY <2>1, <3>1, <3>2, Zenon
    <3> QED
      BY <2>1, <3>3 DEF TablesOK
  <2>6. clock' = clock /\ dates' = dates /\ DOMAIN promise' = Keys
    BY <1>9 DEF Refuse, Admit, stored, TablesOK
  <2> QED
    BY <2>1, <2>4, <2>5, <2>6 DEF TablesOK
<1>10. ASSUME NEW r \in Requests, CommitShift(r) PROVE TypeInv'
  <2>1. req[r].seen \in [Rows -> 1..today] /\ req[r].day \in 1..today
    BY <1>10, <1>q DEF CommitShift, Shape
  <2>2. dates' \in [Rows -> 1..today]
    <3>1. CASE Rows = {}
      BY <1>10, <3>1 DEF CommitShift, Shifted
    <3>2. CASE Rows # {}
      <4>1. dates' \in [Rows -> MonthStart(req[r].day)..req[r].day]
        BY <1>10, <2>1, <3>2, <1>a, ShiftFacts DEF CommitShift
      <4>2. MonthStart(req[r].day) \in 1..req[r].day
        BY <2>1, <1>a, MonthFacts
      <4> QED
        BY <4>1, <4>2, <2>1, <1>a
    <3> QED
      BY <3>1, <3>2
  <2> QED
    BY <1>10, <2>2, CloseIsFine DEF CommitShift, TablesOK, throttle
<1>11. CASE Tick
  BY <1>11, <1>a DEF Tick, SlotsOK, TablesOK, Shape, stored, throttle
<1>12. CASE Midnight
  <2>1. today' = today + 1 /\ UNCHANGED <<clock, req, dates, bucket, promise>>
    BY <1>12 DEF Midnight, stored, throttle
  <2>2. 1..today \subseteq 1..today'
    BY <2>1, <1>a
  <2> QED
    BY <2>1, <2>2, <1>a DEF SlotsOK, TablesOK, Shape
<1>13. CASE Restart
  BY <1>13, IdleIsFine DEF Restart, SlotsOK, TablesOK, stored, NoAttempts, NoPromise, Shape
<1>14. CASE UNCHANGED vars
  BY <1>14 DEF vars, SlotsOK, TablesOK, Shape
<1> QED
  BY <1>1, <1>2, <1>3, <1>4, <1>5, <1>6, <1>7, <1>8, <1>9, <1>10, <1>11, <1>12, <1>13, <1>14
     DEF Next

LEMMA TypeAlways == Spec => []TypeInv
BY TypeStarts, TypeStep, PTL DEF Spec

-----------------------------------------------------------------------------
(* The date shift.  Rows are read in one order and every reading that is   *)
(* still held agrees with the table and with the other readings on it.     *)
Agree(d, e) == \A x, y \in Rows : d[x] < d[y] => e[x] <= e[y]
Holds(r) == req[r].pc \in {"day", "shift"}
OrderInv ==
  \A r \in Requests : Holds(r) =>
    /\ Agree(dates, req[r].seen)
    /\ \A q \in Requests : Holds(q) => Agree(req[q].seen, req[r].seen)

LEMMA AgreeTurned ==
  ASSUME NEW d \in [Rows -> Nat], NEW e \in [Rows -> Nat], Agree(d, e) PROVE Agree(e, d)
<1> SUFFICES ASSUME NEW x \in Rows, NEW y \in Rows, e[x] < e[y] PROVE d[x] <= d[y]
  BY DEF Agree
<1>1. d[x] \in Nat /\ d[y] \in Nat /\ e[x] \in Nat /\ e[y] \in Nat
  OBVIOUS
<1> QED
  BY <1>1 DEF Agree

LEMMA AgreeWithItself == ASSUME NEW d \in [Rows -> Nat] PROVE Agree(d, d)
<1>1. \A x \in Rows : d[x] \in Nat
  OBVIOUS
<1> QED
  BY <1>1 DEF Agree

LEMMA ShiftAgrees ==
  ASSUME TypeInv, OrderInv, NEW r \in Requests, CommitShift(r)
  PROVE  /\ Agree(dates, dates')
         /\ \A q \in Requests : Holds(q) => Agree(dates', req[q].seen)
<1> DEFINE d == req[r].seen
           s == Shifted(d, req[r].day)
<1>1. dates' = s /\ Holds(r) /\ today \in Nat
      /\ d \in [Rows -> 1..today] /\ req[r].day \in 1..today
  BY DEF CommitShift, Holds, TypeInv, SlotsOK, TablesOK, Shape
<1>2. CASE Rows = {}
  BY <1>2 DEF Agree
<1>3. CASE Rows # {}
  <2>1. /\ \A x, y \in Rows : d[x] <= d[y] => s[x] <= s[y]
        /\ \A x \in Rows : s[x] \in Nat /\ d[x] \in Nat
    <3>1. /\ s \in [Rows -> MonthStart(req[r].day)..req[r].day]
          /\ \A x, y \in Rows : d[x] <= d[y] => s[x] <= s[y]
      BY <1>1, <1>3, ShiftFacts
    <3>2. MonthStart(req[r].day) \in 1..req[r].day
      BY <1>1, MonthFacts
    <3> HIDE DEF s
    <3> QED
      BY <1>1, <3>1, <3>2
  <2>2. Agree(dates, d) /\ \A q \in Requests : Holds(q) => Agree(d, req[q].seen)
    BY <1>1 DEF OrderInv
  <2> HIDE DEF s, d
  <2>3. Agree(dates, s)
    BY <2>1, <2>2 DEF Agree
  <2>4. \A q \in Requests : Holds(q) => Agree(s, req[q].seen)
    BY <2>1, <2>2 DEF Agree
  <2> QED
    BY <1>1, <2>3, <2>4
<1> QED
  BY <1>2, <1>3

(* A slot that closes or goes another way holds no reading any more; the   *)
(* others keep theirs.                                                     *)
NoNewReading ==
  \A q \in Requests : Holds(q)' => Holds(q) /\ req'[q].seen = req[q].seen

LEMMA OtherSteps ==
  ASSUME TypeInv, [Next]_vars, \A r \in Requests : ~ReadDates(r)
  PROVE  NoNewReading
<1> USE DEF TypeInv, SlotsOK, Holds, NoNewReading
<1>a. \A r \in Requests : req[r] \in Slot
  OBVIOUS
<1>1. ASSUME NEW r \in Requests, Close(r) PROVE NoNewReading
  BY <1>1 DEF Close, Idle
<1>2. ASSUME NEW r \in Requests, NEW s, s.pc \notin {"day", "shift"},
             req' = [req EXCEPT ![r] = s]
      PROVE  NoNewReading
  BY <1>2
<1>3. ASSUME NEW r \in Requests, NEW e, NEW w, AskRegister(r, e, w) PROVE NoNewReading
  BY <1>3, <1>2 DEF AskRegister, Idle
<1>4. ASSUME NEW r \in Requests, NEW e, NEW w, CheckPassword(r, e, w) PROVE NoNewReading
  <2>1. Close(r) \/ req' = [req EXCEPT ![r].pc = "dates"]
    BY <1>4 DEF CheckPassword
  <2>2. req' = [req EXCEPT ![r].pc = "dates"] => NoNewReading
    BY <1>a DEF Slot
  <2> QED
    BY <2>1, <2>2, <1>1
<1>5. ASSUME NEW r \in Requests, NEW c, AskLogin(r, c) PROVE NoNewReading
  BY <1>5, <1>2 DEF AskLogin, Idle
<1>6. ASSUME NEW r \in Requests, Refuse(r) \/ InsertUser(r) \/ CommitSeed(r) \/ CommitShift(r)
      PROVE  NoNewReading
  BY <1>6, <1>1 DEF Refuse, InsertUser, CommitSeed, CommitShift
<1>7. ASSUME NEW r \in Requests, Admit(r) PROVE NoNewReading
  BY <1>7, <1>a DEF Admit, Slot
<1>8. ASSUME NEW r \in Requests, TakeDay(r) PROVE NoNewReading
  <2>1. Close(r) \/ req' = [req EXCEPT ![r].pc = "shift", ![r].day = today]
    BY <1>8 DEF TakeDay
  <2>2. req[r].pc = "day"
    BY <1>8 DEF TakeDay
  <2>3. req' = [req EXCEPT ![r].pc = "shift", ![r].day = today] => NoNewReading
    BY <2>2, <1>a DEF Slot
  <2> QED
    BY <2>1, <2>3, <1>1
<1>9. ASSUME NEW r \in Requests, StartSeed(r) PROVE NoNewReading
  BY <1>9, <1>2 DEF StartSeed, Idle
<1>10. Restart => NoNewReading
  BY DEF Restart, Idle
<1>11. Tick \/ Midnight \/ UNCHANGED vars => NoNewReading
  BY DEF Tick, Midnight, vars
<1> QED
  BY <1>3, <1>4, <1>5, <1>6, <1>7, <1>8, <1>9, <1>10, <1>11 DEF Next

LEMMA OrderStep == TypeInv /\ OrderInv /\ [Next]_vars => OrderInv'
<1> SUFFICES ASSUME TypeInv, OrderInv, [Next]_vars PROVE OrderInv'
  OBVIOUS
<1>a. /\ dates \in [Rows -> Nat]
      /\ \A q \in Requests : Holds(q) => req[q].seen \in [Rows -> Nat]
  <2>1. 1..today \subseteq Nat
    BY DEF TypeInv, TablesOK
  <2> QED
    BY <2>1 DEF TypeInv, TablesOK, SlotsOK, Shape, Holds
<1>1. ASSUME NEW r \in Requests, ReadDates(r) PROVE OrderInv'
  <2>1. /\ dates' = dates /\ req'[r].seen = dates
        /\ \A q \in Requests : q # r => req'[q] = req[q]
    BY <1>1 DEF ReadDates, stored, TypeInv, SlotsOK, Slot
  <2>2. \A q \in Requests : q # r /\ Holds(q)' => Agree(dates, req[q].seen)
                                              /\ Agree(req[q].seen, dates)
    BY <2>1, <1>a, AgreeTurned DEF OrderInv, Holds
  <2>3. Agree(dates, dates)
    BY <1>a, AgreeWithItself
  <2>4. ASSUME NEW p \in Requests, NEW q \in Requests, Holds(p)', Holds(q)'
        PROVE  Agree(req'[q].seen, req'[p].seen) /\ Agree(dates', req'[p].seen)
    <3>1. CASE p # r /\ q # r
      <4>1. Holds(p) /\ Holds(q)
        BY <2>1, <2>4, <3>1 DEF Holds
      <4> QED
        BY <2>1, <3>1, <4>1 DEF OrderInv
    <3>2. CASE p = r \/ q = r
      BY <2>1, <2>2, <2>3, <2>4, <3>2
    <3> QED
      BY <3>1, <3>2
  <2> QED
    BY <2>4 DEF OrderInv, Holds, Agree
<1>2. ASSUME \A r \in Requests : ~ReadDates(r) PROVE OrderInv'
  <2>1. NoNewReading
    BY <1>2, OtherSteps
  <2>2. \A q \in Requests : Holds(q) => Agree(dates', req[q].seen)
    <3>1. ASSUME NEW r \in Requests, CommitShift(r)
          PROVE  \A q \in Requests : Holds(q) => Agree(dates', req[q].seen)
      BY <3>1, ShiftAgrees
    <3>2. CASE dates' = dates
      BY <3>2 DEF OrderInv
    <3>3. (\E r \in Requests : CommitShift(r)) \/ dates' = dates
      BY <1>2 DEF Next, vars, stored, AskRegister, CheckPassword, AskLogin, Refuse, Admit,
        TakeDay, InsertUser, StartSeed, CommitSeed, Tick, Midnight, Restart
    <3> QED
      BY <3>1, <3>2, <3>3
  <2>3. \A p, q \in Requests : Holds(p)' /\ Holds(q)' => Agree(req'[q].seen, req'[p].seen)
    BY <2>1 DEF NoNewReading, OrderInv
  <2>4. \A q \in Requests : Holds(q)' => Agree(dates', req'[q].seen)
    BY <2>1, <2>2 DEF NoNewReading
  <2> QED
    BY <2>3, <2>4 DEF OrderInv, Holds, Agree
<1> QED
  BY <1>1, <1>2

LEMMA DatesMoveInShifts ==
  [Next]_vars => dates' = dates \/ \E r \in Requests : CommitShift(r)
BY DEF Next, vars, stored, AskRegister, CheckPassword, AskLogin, Refuse, Admit, ReadDates,
  TakeDay, InsertUser, StartSeed, CommitSeed, Tick, Midnight, Restart

(* Two demo logins may read the rows before either moves them and on other *)
(* days than they write them: no step ever turns the order of two dates.   *)
THEOREM OrderAlwaysKept == Spec => DatesKeepTheirOrder
<1>1. Init => OrderInv
  BY DEF Init, OrderInv, Holds, Idle
<1>2. TypeInv /\ OrderInv /\ [Next]_vars =>
        [\A x, y \in Rows : dates[x] < dates[y] => dates'[x] <= dates'[y]]_vars
  <2> SUFFICES ASSUME TypeInv, OrderInv, [Next]_vars PROVE Agree(dates, dates')
    BY DEF Agree
  <2>1. CASE dates' = dates
    <3>1. dates \in [Rows -> Nat]
      BY DEF TypeInv, TablesOK
    <3> QED
      BY <2>1, <3>1, AgreeWithItself
  <2>2. CASE \E r \in Requests : CommitShift(r)
    BY <2>2, ShiftAgrees
  <2> QED
    BY <2>1, <2>2, DatesMoveInShifts
<1> QED
  BY <1>1, <1>2, TypeAlways, OrderStep, PTL DEF Spec, DatesKeepTheirOrder

-----------------------------------------------------------------------------
(* Retry-After.  Between a refusal and the next attempt a key gets in, its *)
(* window only loses entries, so the promise of the last refusal is about  *)
(* the head that is still there.                                           *)
WindowInv ==
  \A k \in Keys :
    /\ Len(bucket[k]) <= LoginMax
    /\ promise[k] # None =>
         /\ bucket[k] # <<>> /\ promise[k] \in Int
         /\ bucket[k][1] + Window <= promise[k] + Grain - 1

LEMMA DivisionBounds ==
  ASSUME NEW a \in Int, NEW m \in Nat \ {0} PROVE m * (a \div m) >= a - m + 1
OBVIOUS

LEMMA RetryCovers ==
  ASSUME NEW wait \in Int
  PROVE  RetryAfter(wait) \in Int /\ Second * RetryAfter(wait) >= wait - Grain + 1
<1> DEFINE y == wait + Second - Grain
           seconds == y \div Second
<1>1. Second \in Nat \ {0} /\ Grain \in Nat /\ y \in Int
  BY AccessAssumption
<1>2. Second * seconds >= y - Second + 1 /\ seconds \in Int
  <2> HIDE DEF y
  <2> QED
    BY <1>1, DivisionBounds
<1> HIDE DEF seconds
<1>3. CASE seconds < 1
  <2>1. Second * seconds <= 0
    <3>1. \A m \in Nat, n \in Int : n < 1 => m * n <= 0
      OBVIOUS
    <3> QED
      BY <1>1, <1>2, <1>3, <3>1
  <2>2. RetryAfter(wait) = 1
    BY <1>3 DEF RetryAfter, seconds
  <2> QED
    BY <1>1, <1>2, <2>1, <2>2
<1>4. CASE seconds >= 1
  <2>1. RetryAfter(wait) = seconds
    BY <1>4, <1>2 DEF RetryAfter, seconds
  <2> QED
    BY <1>1, <1>2, <2>1
<1> QED
  BY <1>2, <1>3, <1>4

LEMMA GateFacts ==
  ASSUME TypeInv, WindowInv, NEW r \in Requests, Refuse(r) \/ Admit(r)
  PROVE  LET k == req[r].key
             old == req[r].moment - Window
         IN  /\ k \in Keys /\ req[r].moment \in Nat /\ bucket[k] \in Seq(Nat)
             /\ Kept(r) \in Seq(Nat) /\ Len(Kept(r)) <= LoginMax
             /\ bucket[k] # <<>> /\ bucket[k][1] <= old => Len(Kept(r)) < LoginMax
<1> DEFINE k == req[r].key
           old == req[r].moment - Window
<1>1. k \in Keys /\ req[r].moment \in Nat
  BY DEF Refuse, Admit, TypeInv, SlotsOK, Shape, Slot
<1>2. bucket[k] \in Seq(Nat) /\ old \in Int /\ LoginMax \in Nat
  BY <1>1, AccessAssumption DEF TypeInv, TablesOK
<1>3. Len(bucket[k]) \in Nat /\ Len(bucket[k]) <= LoginMax
  BY <1>1, <1>2 DEF WindowInv
<1>4. Kept(r) = Pruned(bucket[k], old)
  BY DEF Kept
<1> HIDE DEF k, old
<1>5. /\ Kept(r) \in Seq(Nat) /\ Len(Kept(r)) <= Len(bucket[k])
      /\ bucket[k] # <<>> /\ bucket[k][1] <= old => Len(Kept(r)) < Len(bucket[k])
  BY <1>2, <1>4, PrunedFacts
<1>6. Len(Kept(r)) \in Nat
  BY <1>5
<1> QED
  BY <1>1, <1>2, <1>3, <1>5, <1>6 DEF k, old

LEMMA WindowStep == TypeInv /\ WindowInv /\ [Next]_vars => WindowInv'
<1> SUFFICES ASSUME TypeInv, WindowInv, [Next]_vars PROVE WindowInv'
  OBVIOUS
<1>a. /\ Window \in Nat /\ LoginMax \in Nat \ {0} /\ Grain \in Nat /\ Second \in Nat
      /\ DOMAIN bucket = Keys /\ DOMAIN promise = Keys
  BY AccessAssumption DEF TypeInv, TablesOK
<1>1. ASSUME NEW r \in Requests, Refuse(r) PROVE WindowInv'
  <2> DEFINE k == req[r].key
             kept == Kept(r)
             wait == kept[1] + Window - req[r].moment
             until == req[r].moment + Second * RetryAfter(wait)
  <2>1. /\ k \in Keys /\ req[r].moment \in Nat
        /\ kept \in Seq(Nat) /\ Len(kept) <= LoginMax /\ Len(kept) >= LoginMax
    BY <1>1, GateFacts DEF Refuse
  <2>2. kept # <<>> /\ kept[1] \in Nat /\ wait \in Int
    BY <2>1, <1>a
  <2>3. until \in Int /\ kept[1] + Window <= until + Grain - 1
    <3> HIDE DEF kept
    <3>1. RetryAfter(wait) \in Int /\ Second * RetryAfter(wait) >= wait - Grain + 1
      BY <2>2, RetryCovers
    <3>2. Second * RetryAfter(wait) \in Int
      BY <3>1, <1>a
    <3> HIDE DEF wait
    <3>3. wait = kept[1] + Window - req[r].moment
      BY DEF wait
    <3> DEFINE t == Second * RetryAfter(wait)
               h == kept[1]
               m == req[r].moment
    <3>4. t \in Int /\ t >= (h + Window - m) - Grain + 1 /\ until = m + t
      BY <3>1, <3>2, <3>3
    <3>5. h \in Nat /\ m \in Nat
      BY <2>1, <2>2
    <3> HIDE DEF t, h, m, until
    <3>6. until \in Int /\ h + Window <= until + Grain - 1
      BY <3>4, <3>5, <1>a
    <3> QED
      BY <3>6 DEF h
  <2>4. /\ bucket' = [bucket EXCEPT ![k] = kept]
        /\ promise' = [promise EXCEPT ![k] = until]
    BY <1>1 DEF Refuse
  <2> HIDE DEF kept, until, k
  <2> QED
    BY <2>1, <2>2, <2>3, <2>4, <1>a DEF WindowInv
<1>2. ASSUME NEW r \in Requests, Admit(r) PROVE WindowInv'
  <2> DEFINE k == req[r].key
             b == Append(Kept(r), req[r].moment)
  <2>1. /\ k \in Keys /\ req[r].moment \in Nat
        /\ Kept(r) \in Seq(Nat) /\ Len(Kept(r)) < LoginMax
    BY <1>2, GateFacts DEF Admit
  <2>2. Len(b) <= LoginMax
    <3>1. Len(b) = Len(Kept(r)) + 1 /\ Len(Kept(r)) \in Nat
      BY <2>1
    <3> QED
      BY <2>1, <3>1, <1>a
  <2>3. /\ bucket' = [bucket EXCEPT ![k] = b]
        /\ promise' = [promise EXCEPT ![k] = None]
    BY <1>2 DEF Admit
  <2> HIDE DEF k, b
  <2> QED
    BY <2>1, <2>2, <2>3, <1>a DEF WindowInv
<1>3. CASE Restart
  <2>1. bucket' = [k \in Keys |-> <<>>] /\ promise' = [k \in Keys |-> None]
    BY <1>3 DEF Restart, NoAttempts, NoPromise
  <2> QED
    BY <2>1, <1>a DEF WindowInv
<1>4. CASE UNCHANGED <<bucket, promise>>
  BY <1>4 DEF WindowInv
<1>5. \/ \E r \in Requests : Refuse(r) \/ Admit(r)
      \/ Restart \/ UNCHANGED <<bucket, promise>>
  BY DEF Next, vars, throttle, AskRegister, CheckPassword, AskLogin, ReadDates, TakeDay,
    CommitShift, InsertUser, StartSeed, CommitSeed, Tick, Midnight
<1> QED
  BY <1>1, <1>2, <1>3, <1>4, <1>5

(* Retry-After keeps its word: whoever comes back when it said is refused  *)
(* only if the key has got another attempt in meanwhile, however late and  *)
(* in whatever order clock readings reach the lock.                        *)
THEOREM RetryAfterAlwaysHonest == Spec => RetryAfterIsHonest
<1>1. Init => WindowInv
  BY AccessAssumption DEF Init, WindowInv, NoAttempts, NoPromise
<1>2. ASSUME TypeInv, WindowInv, NEW r \in Requests, Refuse(r), promise[req[r].key] # None
      PROVE  req[r].moment < promise[req[r].key] + Grain - 1
  <2> DEFINE k == req[r].key
  <2>1. /\ k \in Keys /\ req[r].moment \in Nat /\ bucket[k] \in Seq(Nat)
        /\ Kept(r) \in Seq(Nat)
        /\ bucket[k] # <<>> /\ bucket[k][1] <= req[r].moment - Window =>
             Len(Kept(r)) < LoginMax
    BY <1>2, GateFacts
  <2>2. /\ bucket[k] # <<>> /\ promise[k] \in Int
        /\ bucket[k][1] + Window <= promise[k] + Grain - 1
    BY <1>2, <2>1 DEF WindowInv
  <2>3. Len(Kept(r)) >= LoginMax
    BY <1>2 DEF Refuse
  <2>a. Window \in Nat /\ LoginMax \in Nat /\ Grain \in Nat
    BY AccessAssumption
  <2>b. Len(Kept(r)) \in Nat /\ bucket[k][1] \in Nat
    BY <2>1, <2>2
  <2>4. /\ Window \in Nat /\ LoginMax \in Nat /\ Grain \in Nat
        /\ Len(Kept(r)) \in Nat /\ bucket[k][1] \in Nat
    BY <2>a, <2>b
  <2>5. ~(bucket[k][1] <= req[r].moment - Window)
    BY <2>1, <2>2, <2>3, <2>4
  <2> HIDE DEF k
  <2>6. req[r].moment < promise[k] + Grain - 1
    BY <2>1, <2>2, <2>4, <2>5, SMTT(30)
  <2> QED
    BY <2>6 DEF k
<1>3. TypeInv /\ WindowInv =>
        [\A r \in Requests : Refuse(r) /\ promise[req[r].key] # None =>
           req[r].moment < promise[req[r].key] + Grain - 1]_vars
  BY <1>2
<1> QED
  BY <1>1, <1>3, TypeAlways, WindowStep, PTL DEF Spec, RetryAfterIsHonest

-----------------------------------------------------------------------------
(* The burst.  As long as every thread that came to the lock had read the  *)
(* clock at `last` or before, what the key got in up to then is still in   *)
(* its window.  A later reading may prune it, but by then the clock is     *)
(* past `last`: only threads that read before and still wait can add to    *)
(* the burst, and there are at most Requests - 1 of them.                  *)
Ticks(last) == {t \in 0..last : t > last - Window}
Recent(b, last) == {i \in DOMAIN b : last - Window < b[i] /\ b[i] <= last}
Late(k, last) ==
  {r \in Requests : req[r].pc = "gate" /\ req[r].key = k /\ req[r].moment <= last}

CountsOK ==
  /\ clock <= LastTick
  /\ admitted \in [Keys -> [0..LastTick -> Nat]]
  /\ \A r \in Requests : req[r].pc = "gate" => req[r].moment <= clock

StillInWindow(k, last) == Burst(k, last) <= Cardinality(Recent(bucket[k], last))
OnlyLateOnes(k, last) ==
  /\ clock > last
  /\ Burst(k, last) + Cardinality(Late(k, last)) <= LoginMax + Cardinality(Requests) - 1
BurstInv ==
  \A k \in Keys, last \in 0..LastTick : StillInWindow(k, last) \/ OnlyLateOnes(k, last)

LEMMA RecentFacts ==
  ASSUME NEW b \in Seq(Nat), NEW last \in Nat
  PROVE  /\ IsFiniteSet(Recent(b, last)) /\ Cardinality(Recent(b, last)) \in Nat
         /\ Cardinality(Recent(b, last)) <= Len(b)
<1>1. Recent(b, last) \in SUBSET (1..Len(b)) /\ Len(b) \in Nat
  BY DEF Recent
<1>2. IsFiniteSet(1..Len(b)) /\ Cardinality(1..Len(b)) = Len(b)
  <2>1. \A n \in Nat : IsFiniteSet(1..n) /\ Cardinality(1..n) = n
    BY FS_Interval
  <2> QED
    BY <1>1, <2>1
<1> QED
  BY <1>1, <1>2, FS_Subset, FS_CardinalityType

LEMMA PrunedKeepsRecent ==
  ASSUME NEW b \in Seq(Nat), NEW last \in Nat, NEW moment \in Nat, moment <= last
  PROVE  Cardinality(Recent(b, last)) <= Cardinality(Recent(Pruned(b, moment - Window), last))
<1> DEFINE cutoff == moment - Window
           young == {i \in DOMAIN b : b[i] > cutoff}
           p == Pruned(b, cutoff)
<1>a. Len(b) \in Nat /\ DOMAIN b = 1..Len(b) /\ Window \in Nat /\ cutoff \in Int
      /\ \A i \in 1..Len(b) : b[i] \in Nat
  BY AccessAssumption
<1>b. Recent(b, last) \in SUBSET young
  BY <1>a DEF Recent
<1>c. p \in Seq(Nat) /\ IsFiniteSet(Recent(p, last)) /\ Cardinality(Recent(p, last)) \in Nat
  <2>1. p \in Seq(Nat)
    BY <1>a, PrunedFacts
  <2> QED
    BY <2>1, RecentFacts
<1>1. CASE young = {}
  <2>1. Recent(b, last) = {}
    BY <1>1, <1>b
  <2>2. Cardinality(Recent(b, last)) = 0
    BY <2>1, FS_EmptySet
  <2> QED
    BY <1>c, <2>2
<1>2. CASE young # {}
  <2>1. \E i \in young : \A j \in young : i <= j
    <3>1. young \in SUBSET Nat
      BY <1>a
    <3> HIDE DEF young
    <3> QED
      BY <3>1, <1>2, LeastNumber
  <2> DEFINE first == CHOOSE i \in young : \A j \in young : i <= j
             down == [i \in Recent(b, last) |-> i - first + 1]
  <2>2. first \in young /\ \A j \in young : first <= j
    BY <2>1
  <2>3. p = SubSeq(b, first, Len(b))
    BY <1>2 DEF Pruned
  <2> HIDE DEF first
  <2>4. first \in 1..Len(b)
    BY <2>2, <1>a
  <2>5. /\ Len(p) = Len(b) - first + 1
        /\ \A j \in 1..(Len(b) - first + 1) : p[j] = b[first + j - 1]
    <3>1. /\ first \in Int /\ Len(b) \in Int /\ first <= Len(b)
          /\ \A i \in first..Len(b) : b[i] \in Nat
      BY <2>4, <1>a
    <3> QED
      BY <2>3, <3>1, SubSeqProperties
  <2>6. ASSUME NEW i \in Recent(b, last) PROVE i \in Int /\ i - first + 1 \in Recent(p, last)
    <3>1. i \in 1..Len(b) /\ first <= i /\ last - Window < b[i] /\ b[i] <= last
      BY <1>a, <1>b, <2>2 DEF Recent
    <3> DEFINE j == i - first + 1
    <3>2. j \in 1..(Len(b) - first + 1) /\ first + j - 1 = i
      BY <3>1, <2>4, <1>a
    <3> HIDE DEF j
    <3>3. p[j] = b[i] /\ j \in DOMAIN p
      BY <3>2, <2>5, <1>c
    <3>4. j \in Recent(p, last)
      BY <3>1, <3>3 DEF Recent
    <3> QED
      BY <3>1, <3>4 DEF j
  <2>7. down \in Injection(Recent(b, last), Recent(p, last))
    <3>1. down \in [Recent(b, last) -> Recent(p, last)]
      BY <2>6
    <3>2. ASSUME NEW i \in Recent(b, last), NEW j \in Recent(b, last), down[i] = down[j]
          PROVE  i = j
      <4>1. i \in Int /\ j \in Int /\ first \in Int /\ i - first + 1 = j - first + 1
        BY <2>4, <2>6, <3>2
      <4> QED
        BY <4>1
    <3> QED
      BY <3>1, <3>2 DEF Injection, IsInjective
  <2> QED
    BY <1>c, <2>7, FS_Injection
<1> QED
  BY <1>1, <1>2

LEMMA AppendedIsRecent ==
  ASSUME NEW b \in Seq(Nat), NEW last \in Nat, NEW moment \in Nat
  PROVE  Cardinality(Recent(Append(b, moment), last)) =
           Cardinality(Recent(b, last)) +
             (IF last - Window < moment /\ moment <= last THEN 1 ELSE 0)
<1> DEFINE a == Append(b, moment)
           new == Len(b) + 1
<1>1. Len(b) \in Nat /\ DOMAIN a = 1..new /\ DOMAIN b = 1..Len(b)
      /\ a[new] = moment /\ \A i \in 1..Len(b) : a[i] = b[i]
  OBVIOUS
<1>2. new \notin Recent(b, last) /\ 1..new = 1..Len(b) \cup {new}
  BY <1>1 DEF Recent
<1> HIDE DEF a, new
<1>3. CASE last - Window < moment /\ moment <= last
  <2>1. Recent(a, last) = Recent(b, last) \cup {new}
    BY <1>1, <1>2, <1>3 DEF Recent
  <2>2. Cardinality(Recent(a, last)) = Cardinality(Recent(b, last)) + 1
    BY <1>2, <2>1, RecentFacts, FS_AddElement
  <2> QED
    BY <1>3, <2>2 DEF a
<1>4. CASE ~(last - Window < moment /\ moment <= last)
  <2>1. Recent(a, last) = Recent(b, last)
    BY <1>1, <1>2, <1>4 DEF Recent
  <2>2. Cardinality(Recent(b, last)) \in Nat
    BY RecentFacts
  <2> QED
    BY <1>4, <2>1, <2>2 DEF a
<1> QED
  BY <1>3, <1>4

LEMMA BurstIsSum ==
  ASSUME NEW k, NEW last
  PROVE  Burst(k, last) = Sum(admitted[k], Ticks(last))
BY DEF Burst, MapThenSumSet, MapThenFoldSet, Sum, SumsUp, Value, Some, Ticks

LEMMA BurstIsSumPrimed ==
  ASSUME NEW k, NEW last
  PROVE  Burst(k, last)' = Sum(admitted'[k], Ticks(last))
BY DEF Burst, MapThenSumSet, MapThenFoldSet, Sum, SumsUp, Value, Some, Ticks

LEMMA TicksFacts ==
  ASSUME NEW last \in 0..LastTick
  PROVE  Ticks(last) \in SUBSET (0..LastTick) /\ IsFiniteSet(Ticks(last))
<1>1. LastTick \in Nat /\ last \in Nat
  BY AccessAssumption
<1>2. Ticks(last) \in SUBSET (0..LastTick)
  BY <1>1 DEF Ticks
<1>3. IsFiniteSet(0..LastTick)
  BY <1>1, FS_Interval
<1> QED
  BY <1>2, <1>3, FS_Subset

LEMMA BurstTyped ==
  ASSUME CountsOK, NEW k \in Keys, NEW last \in 0..LastTick
  PROVE  Burst(k, last) \in Nat
<1>1. admitted[k] \in [0..LastTick -> Nat]
  BY DEF CountsOK
<1>2. \A t \in Ticks(last) : admitted[k][t] \in Nat
  BY <1>1, TicksFacts
<1>3. Sum(admitted[k], Ticks(last)) \in Nat
  BY <1>2, TicksFacts, SumNatural
<1> QED
  BY <1>3, BurstIsSum

LEMMA BurstSame ==
  ASSUME NEW k, NEW last, admitted'[k] = admitted[k]
  PROVE  Burst(k, last)' = Burst(k, last)
BY BurstIsSum, BurstIsSumPrimed

LEMMA OneMoreTyped ==
  ASSUME NEW R, NEW S, NEW f \in [R -> [S -> Nat]], NEW a \in R, NEW b \in S, NEW g,
         g = [f EXCEPT ![a][b] = @ + 1]
  PROVE  g \in [R -> [S -> Nat]] /\ \A x \in R : x # a => g[x] = f[x]
<1>1. f[a] \in [S -> Nat] /\ f[a][b] + 1 \in Nat
  OBVIOUS
<1>2. [f[a] EXCEPT ![b] = f[a][b] + 1] \in [S -> Nat]
  BY <1>1
<1> QED
  BY <1>2

LEMMA BurstGrows ==
  ASSUME CountsOK, NEW k \in Keys, NEW moment \in 0..LastTick, NEW last \in 0..LastTick,
         admitted' = [admitted EXCEPT ![k][moment] = @ + 1]
  PROVE  Burst(k, last)' = Burst(k, last) +
           (IF last - Window < moment /\ moment <= last THEN 1 ELSE 0)
<1> DEFINE f == admitted[k]
           h == admitted'[k]
           T == Ticks(last)
<1>a. f \in [0..LastTick -> Nat] /\ h = [f EXCEPT ![moment] = f[moment] + 1]
  BY DEF CountsOK
<1>1. f \in [0..LastTick -> Nat] /\ h \in [0..LastTick -> Nat]
      /\ h[moment] = f[moment] + 1 /\ \A t \in 0..LastTick : t # moment => h[t] = f[t]
  <2> HIDE DEF f, h
  <2>1. f[moment] + 1 \in Nat
    BY <1>a
  <2> QED
    BY <1>a, <2>1
<1>2. T \in SUBSET (0..LastTick) /\ IsFiniteSet(T)
  BY TicksFacts
<1>3. moment \in T <=> (last - Window < moment /\ moment <= last)
  BY DEF Ticks
<1>4. Burst(k, last) = Sum(f, T) /\ Burst(k, last)' = Sum(h, T)
  BY BurstIsSum, BurstIsSumPrimed
<1> HIDE DEF f, h, T
<1>5. \A t \in T : f[t] \in Int /\ h[t] \in Int
  BY <1>1, <1>2
<1>6. Sum(f, T) \in Int
  BY <1>2, <1>5, SumTyped
<1>7. CASE moment \in T
  <2>a. \A t \in T : t # moment => h[t] = f[t]
    BY <1>1, <1>2
  <2>1. Sum(h, T) = Sum(f, T) - f[moment] + h[moment]
    BY <2>a, <1>2, <1>5, <1>7, SumChange
  <2>2. f[moment] \in Int
    BY <1>5, <1>7
  <2>3. Sum(h, T) = Sum(f, T) + 1
    BY <1>1, <1>6, <2>1, <2>2
  <2> QED
    BY <1>3, <1>4, <1>7, <2>3
<1>8. CASE moment \notin T
  <2>1. \A t \in T : h[t] = f[t]
    BY <1>1, <1>2, <1>8
  <2>2. Sum(h, T) = Sum(f, T)
    BY <1>2, <2>1, SumSame
  <2> QED
    BY <1>3, <1>4, <1>6, <1>8, <2>2
<1> QED
  BY <1>7, <1>8

LEMMA LateFacts ==
  ASSUME NEW k, NEW last
  PROVE  /\ IsFiniteSet(Late(k, last)) /\ Cardinality(Late(k, last)) \in Nat
         /\ Cardinality(Requests) \in Nat \ {0}
         /\ \A S \in SUBSET Late(k, last) :
              Cardinality(S) \in Nat /\ Cardinality(S) <= Cardinality(Late(k, last))
<1>1. IsFiniteSet(Requests) /\ Requests # {}
  BY AccessAssumption
<1>2. Late(k, last) \in SUBSET Requests
  BY DEF Late
<1>3. IsFiniteSet(Late(k, last))
  BY <1>1, <1>2, FS_Subset
<1>4. Cardinality(Requests) \in Nat /\ Cardinality(Requests) # 0
  BY <1>1, FS_CardinalityType, FS_EmptySet
<1>5. Cardinality(Late(k, last)) \in Nat
  BY <1>3, FS_CardinalityType
<1>6. ASSUME NEW S \in SUBSET Late(k, last)
      PROVE  Cardinality(S) \in Nat /\ Cardinality(S) <= Cardinality(Late(k, last))
  BY <1>3, FS_Subset, FS_CardinalityType
<1> QED
  BY <1>3, <1>4, <1>5, <1>6

(* Nobody joins the late ones and nothing is let in: nothing changes.      *)
LEMMA BurstStays ==
  ASSUME TypeInv, CountsOK, BurstInv, NEW k \in Keys, NEW last \in 0..LastTick,
         admitted'[k] = admitted[k], bucket'[k] = bucket[k], clock' >= clock, clock' \in Nat,
         Late(k, last)' \subseteq Late(k, last)
  PROVE  StillInWindow(k, last)' \/ OnlyLateOnes(k, last)'
<1>1. Burst(k, last)' = Burst(k, last) /\ Burst(k, last) \in Nat
  BY BurstSame, BurstTyped
<1>2. CASE StillInWindow(k, last)
  BY <1>1, <1>2 DEF StillInWindow, Recent
<1>3. CASE OnlyLateOnes(k, last)
  <2> DEFINE n == Cardinality(Requests)
             old == Cardinality(Late(k, last))
             new == Cardinality(Late(k, last)')
  <2>1. n \in Nat /\ old \in Nat /\ new \in Nat /\ new <= old
    BY LateFacts
  <2>2. clock > last /\ Burst(k, last) + old <= LoginMax + n - 1
    BY <1>3 DEF OnlyLateOnes
  <2>3. clock \in Nat /\ last \in Nat /\ LoginMax \in Nat
    BY AccessAssumption DEF TypeInv, TablesOK
  <2> HIDE DEF n, old, new
  <2>4. clock' > last /\ Burst(k, last)' + new <= LoginMax + n - 1
    BY <1>1, <2>1, <2>2, <2>3
  <2> QED
    BY <2>4 DEF OnlyLateOnes, n, new
<1> QED
  BY <1>2, <1>3 DEF BurstInv

LEMMA GateBurst ==
  ASSUME TypeInv, WindowInv, CountsOK, BurstInv, NEW r \in Requests, Refuse(r) \/ Admit(r)
  PROVE  BurstInv'
<1> DEFINE key == req[r].key
           moment == req[r].moment
<1>1. /\ key \in Keys /\ moment \in Nat /\ Kept(r) \in Seq(Nat) /\ bucket[key] \in Seq(Nat)
      /\ Len(bucket[key]) <= LoginMax
  BY GateFacts DEF WindowInv
<1>2. /\ clock' = clock /\ clock \in Nat /\ clock \in 0..LastTick /\ moment <= clock
      /\ moment \in 0..LastTick
  <2>1. req[r].pc = "gate" /\ clock' = clock
    BY DEF Refuse, Admit
  <2>2. clock \in Nat /\ LastTick \in Nat /\ clock <= LastTick
    BY AccessAssumption DEF TypeInv, TablesOK, CountsOK
  <2>3. moment <= clock
    BY <2>1 DEF CountsOK
  <2> HIDE DEF moment
  <2> QED
    BY <1>1, <2>1, <2>2, <2>3
<1>3. req[r].pc = "gate" /\ req'[r].pc # "gate" /\ \A q \in Requests : q # r => req'[q] = req[q]
  BY DEF Refuse, Admit, Close, Idle, TypeInv, SlotsOK, Slot
<1>4. \A k, last : Late(k, last)' = Late(k, last) \ {r}
  BY <1>3 DEF Late
<1>5. SUFFICES ASSUME NEW k \in Keys, NEW last \in 0..LastTick
              PROVE  StillInWindow(k, last)' \/ OnlyLateOnes(k, last)'
  BY DEF BurstInv
<1> DEFINE n == Cardinality(Requests)
           old == Cardinality(Late(k, last))
           new == Cardinality(Late(k, last)')
           burst == Burst(k, last)
           more == Burst(k, last)'
<1>6. n \in Nat \ {0} /\ old \in Nat /\ new \in Nat /\ new <= old /\ new <= n - 1
  <2>1. Late(k, last) \ {r} \in SUBSET Late(k, last)
    OBVIOUS
  <2>2. new \in Nat /\ new <= old /\ old \in Nat /\ n \in Nat \ {0}
    BY <1>4, <2>1, LateFacts
  <2>3. Late(k, last) \ {r} \in SUBSET (Requests \ {r}) /\ IsFiniteSet(Requests)
    BY AccessAssumption DEF Late
  <2>4. IsFiniteSet(Requests \ {r}) /\ Cardinality(Requests \ {r}) = n - 1
    BY <2>3, FS_RemoveElement
  <2>5. new <= Cardinality(Requests \ {r})
    BY <1>4, <2>3, <2>4, FS_Subset
  <2> HIDE DEF n, new, old
  <2> QED
    BY <2>2, <2>4, <2>5
<1>7. /\ burst \in Nat /\ last \in Nat /\ LoginMax \in Nat
  BY BurstTyped, AccessAssumption
<1>8. CASE k # key
  <2>a. DOMAIN bucket = Keys /\ DOMAIN admitted = Keys
    BY DEF TypeInv, TablesOK, CountsOK
  <2>b. admitted' = admitted \/ admitted' = [admitted EXCEPT ![key][moment] = @ + 1]
    BY DEF Refuse, Admit
  <2>c. \/ bucket' = [bucket EXCEPT ![key] = Kept(r)]
        \/ bucket' = [bucket EXCEPT ![key] = Append(Kept(r), moment)]
    BY DEF Refuse, Admit
  <2>1. bucket'[k] = bucket[k] /\ admitted'[k] = admitted[k]
    <3> HIDE DEF key, moment
    <3>1. bucket'[k] = bucket[k]
      BY <1>8, <2>a, <2>c
    <3>2. admitted'[k] = admitted[k]
      BY <1>1, <1>2, <1>8, <2>b, OneMoreTyped DEF CountsOK
    <3> QED
      BY <3>1, <3>2
  <2>2. Late(k, last)' \subseteq Late(k, last) /\ clock' >= clock /\ clock' \in Nat
    BY <1>2, <1>4
  <2> QED
    BY <2>1, <2>2, BurstStays
<1>9. CASE k = key
  <2> DEFINE d == IF Admit(r) /\ last - Window < moment /\ moment <= last THEN 1 ELSE 0
  <2>1. more = burst + d
    <3>1. CASE Admit(r)
      <4>1. admitted' = [admitted EXCEPT ![key][moment] = @ + 1]
        BY <3>1 DEF Admit
      <4> HIDE DEF key, moment
      <4> QED
        BY <1>2, <1>9, <3>1, <4>1, BurstGrows
    <3>2. CASE ~Admit(r)
      <4>1. admitted' = admitted
        BY <3>2 DEF Refuse
      <4> QED
        BY <3>2, <4>1, <1>7, BurstSame
    <3> QED
      BY <3>1, <3>2
  <2>2. CASE moment <= last
    <3>1. CASE StillInWindow(k, last)
      <4> DEFINE count(b) == Cardinality(Recent(b, last))
      <4>1. count(Kept(r)) >= count(bucket[k]) /\ count(Kept(r)) \in Nat
            /\ count(bucket[k]) \in Nat
        BY <1>1, <1>7, <1>9, <2>2, PrunedKeepsRecent, RecentFacts DEF Kept
      <4>2. count(bucket'[k]) = count(Kept(r)) + d
        <5>1. CASE Admit(r)
          <6>1. bucket'[k] = Append(Kept(r), moment)
            BY <5>1, <1>1, <1>9 DEF Admit, TypeInv, TablesOK
          <6> QED
            BY <5>1, <6>1, <1>1, <1>7, AppendedIsRecent
        <5>2. CASE ~Admit(r)
          <6>1. bucket'[k] = Kept(r)
            BY <5>2, <1>1, <1>9 DEF Refuse, TypeInv, TablesOK
          <6> QED
            BY <5>2, <6>1, <4>1
        <5> QED
          BY <5>1, <5>2
      <4>3. burst <= count(bucket[k])
        BY <3>1 DEF StillInWindow
      <4>4. d \in Nat
        OBVIOUS
      <4> HIDE DEF count, burst, more, d
      <4>5. more <= count(bucket'[k])
        BY <1>7, <2>1, <4>1, <4>2, <4>3, <4>4
      <4> QED
        BY <4>5 DEF StillInWindow, count, more
    <3>2. CASE OnlyLateOnes(k, last)
      <4>1. clock > last /\ burst + old <= LoginMax + n - 1
        BY <3>2 DEF OnlyLateOnes
      <4>2. r \in Late(k, last)
        BY <1>3, <1>9, <2>2 DEF Late
      <4>3. new = old - 1
        BY <1>4, <4>2, LateFacts, FS_RemoveElement
      <4>4. d \in {0, 1}
        OBVIOUS
      <4> HIDE DEF n, old, new, burst, more, d
      <4>5. clock' > last /\ more + new <= LoginMax + n - 1
        BY <1>2, <1>6, <1>7, <2>1, <4>1, <4>3, <4>4
      <4> QED
        BY <4>5 DEF OnlyLateOnes, more, new, n
    <3> QED
      BY <3>1, <3>2 DEF BurstInv
  <2>3. CASE ~(moment <= last)
    <3>1. d = 0 /\ clock > last
      BY <1>1, <1>2, <1>7, <2>3
    <3>2. burst + new <= LoginMax + n - 1
      <4>1. CASE StillInWindow(k, last)
        <5> DEFINE count == Cardinality(Recent(bucket[k], last))
        <5>1. burst <= count /\ count <= Len(bucket[k]) /\ count \in Nat
              /\ Len(bucket[k]) <= LoginMax /\ Len(bucket[k]) \in Nat
          <6>1. bucket[k] \in Seq(Nat) /\ Len(bucket[k]) <= LoginMax
            BY <1>1, <1>9
          <6>a. Len(bucket[k]) \in Nat
            BY <6>1
          <6>2. count \in Nat /\ count <= Len(bucket[k]) /\ Len(bucket[k]) \in Nat
            BY <6>a, <6>1, <1>7, RecentFacts
          <6>3. burst <= count
            BY <4>1 DEF StillInWindow
          <6> QED
            BY <6>1, <6>2, <6>3
        <5> HIDE DEF count, burst, n, new
        <5> QED
          BY <5>1, <1>6, <1>7
      <4>2. CASE OnlyLateOnes(k, last)
        <5>1. burst + old <= LoginMax + n - 1
          BY <4>2 DEF OnlyLateOnes
        <5> HIDE DEF old, burst, n, new
        <5> QED
          BY <5>1, <1>6, <1>7
      <4> QED
        BY <4>1, <4>2 DEF BurstInv
    <3>3. more = burst
      <4> HIDE DEF burst, more, d
      <4> QED
        BY <2>1, <3>1, <1>7
    <3> QED
      BY <1>2, <3>1, <3>2, <3>3 DEF OnlyLateOnes
  <2> QED
    BY <2>2, <2>3
<1> QED
  BY <1>8, <1>9

LEMMA AwayFromTheGate ==
  ASSUME TypeInv, NEW r \in Requests, NEW e, NEW w,
         \/ AskRegister(r, e, w) \/ CheckPassword(r, e, w) \/ ReadDates(r) \/ TakeDay(r)
         \/ CommitShift(r) \/ InsertUser(r) \/ StartSeed(r) \/ CommitSeed(r)
  PROVE  req'[r].pc # "gate" /\ \A q \in Requests : q # r => req'[q] = req[q]
<1> DEFINE Goal == req'[r].pc # "gate" /\ \A q \in Requests : q # r => req'[q] = req[q]
<1>a. DOMAIN req = Requests /\ req[r] \in Slot
  BY DEF TypeInv, SlotsOK
<1>1. Close(r) => Goal
  BY <1>a DEF Close, Idle
<1>2. ASSUME NEW s, s.pc # "gate", req' = [req EXCEPT ![r] = s] PROVE Goal
  BY <1>2, <1>a
<1>3. CASE AskRegister(r, e, w)
  BY <1>3, <1>2 DEF AskRegister, Idle
<1>4. CASE CheckPassword(r, e, w)
  <2>1. Close(r) \/ req' = [req EXCEPT ![r].pc = "dates"]
    BY <1>4 DEF CheckPassword
  <2>2. req' = [req EXCEPT ![r].pc = "dates"] => Goal
    BY <1>a DEF Slot
  <2> QED
    BY <2>1, <2>2, <1>1
<1>5. CASE ReadDates(r)
  BY <1>5, <1>a DEF ReadDates, Slot
<1>6. CASE TakeDay(r)
  <2>1. Close(r) \/ req' = [req EXCEPT ![r].pc = "shift", ![r].day = today]
    BY <1>6 DEF TakeDay
  <2>2. req' = [req EXCEPT ![r].pc = "shift", ![r].day = today] => Goal
    BY <1>a DEF Slot
  <2> QED
    BY <2>1, <2>2, <1>1
<1>7. CASE CommitShift(r) \/ InsertUser(r) \/ CommitSeed(r)
  BY <1>7, <1>1 DEF CommitShift, InsertUser, CommitSeed
<1>8. CASE StartSeed(r)
  BY <1>8, <1>2 DEF StartSeed, Idle
<1> QED
  BY <1>3, <1>4, <1>5, <1>6, <1>7, <1>8

LEMMA CountsStep == TypeInv /\ CountsOK /\ [Next]_vars => CountsOK'
<1> SUFFICES ASSUME TypeInv, CountsOK, [Next]_vars PROVE CountsOK'
  OBVIOUS
<1>a. clock \in Nat /\ LastTick \in Nat /\ \A r \in Requests : req[r] \in Slot
  BY AccessAssumption DEF TypeInv, SlotsOK, TablesOK
<1>b. DOMAIN req = Requests
  BY DEF TypeInv, SlotsOK
<1>1. ASSUME NEW r \in Requests, NEW e, NEW w,
             \/ AskRegister(r, e, w) \/ CheckPassword(r, e, w) \/ ReadDates(r) \/ TakeDay(r)
             \/ CommitShift(r) \/ InsertUser(r) \/ StartSeed(r) \/ CommitSeed(r)
      PROVE  CountsOK'
  <2>1. clock' = clock /\ admitted' = admitted
    BY <1>1 DEF AskRegister, CheckPassword, ReadDates, TakeDay, CommitShift, InsertUser,
                StartSeed, CommitSeed, throttle
  <2>2. req'[r].pc # "gate" /\ \A q \in Requests : q # r => req'[q] = req[q]
    BY <1>1, AwayFromTheGate
  <2> QED
    BY <2>1, <2>2 DEF CountsOK
<1>2. ASSUME NEW r \in Requests, NEW c, AskLogin(r, c) PROVE CountsOK'
  <2>1. clock' = clock /\ admitted' = admitted /\ clock <= clock
        /\ req'[r].moment = clock /\ \A q \in Requests : q # r => req'[q] = req[q]
    BY <1>2, <1>a, <1>b DEF AskLogin, throttle, Idle
  <2> QED
    BY <2>1 DEF CountsOK
<1>3. ASSUME NEW r \in Requests, Refuse(r) \/ Admit(r) PROVE CountsOK'
  <2>1. clock' = clock /\ req'[r].pc # "gate" /\ \A q \in Requests : q # r => req'[q] = req[q]
    BY <1>3, <1>a, <1>b DEF Refuse, Admit, Close, Idle, Slot
  <2>2. admitted' = admitted \/
          admitted' = [admitted EXCEPT ![req[r].key][req[r].moment] = @ + 1]
    BY <1>3 DEF Refuse, Admit
  <2>3. admitted' \in [Keys -> [0..LastTick -> Nat]]
    <3> DEFINE key == req[r].key
               moment == req[r].moment
    <3>1. key \in Keys /\ moment \in 0..LastTick
      <4>1. req[r].pc = "gate"
        BY <1>3 DEF Refuse, Admit
      <4>2. key \in Keys /\ moment \in Nat /\ moment <= clock /\ clock <= LastTick
        BY <4>1, <1>a DEF Slot, Shape, TypeInv, SlotsOK, CountsOK
      <4> HIDE DEF moment, key
      <4> QED
        BY <4>2, <1>a
    <3>2. admitted \in [Keys -> [0..LastTick -> Nat]]
      BY DEF CountsOK
    <3>a. admitted' = admitted \/ admitted' = [admitted EXCEPT ![key][moment] = @ + 1]
      BY <2>2
    <3> HIDE DEF moment, key
    <3>3. CASE admitted' = [admitted EXCEPT ![key][moment] = @ + 1]
      <4> DEFINE more == admitted'
      <4>1. more = [admitted EXCEPT ![key][moment] = @ + 1]
        BY <3>3
      <4> DEFINE ticks == 0..LastTick
      <4>2. admitted \in [Keys -> [ticks -> Nat]] /\ moment \in ticks
        BY <3>1, <3>2
      <4> HIDE DEF more, ticks
      <4>3. more \in [Keys -> [ticks -> Nat]]
        BY <3>1, <4>1, <4>2, OneMoreTyped
      <4> QED
        BY <4>3 DEF more, ticks
    <3> QED
      BY <3>2, <3>a, <3>3
  <2> QED
    BY <2>1, <2>3 DEF CountsOK
<1>4. CASE Tick
  <2>1. clock' = clock + 1 /\ clock < LastTick /\ req' = req /\ admitted' = admitted
    BY <1>4 DEF Tick, throttle
  <2>2. \A r \in Requests : req[r].moment \in Nat
    BY <1>a DEF Slot
  <2> QED
    BY <1>a, <2>1, <2>2 DEF CountsOK
<1>5. CASE Restart
  <2>1. clock' = clock /\ admitted' = NoneAdmitted /\ \A r \in Requests : req'[r].pc = "idle"
    BY <1>5 DEF Restart, Idle
  <2> QED
    BY <2>1 DEF CountsOK, NoneAdmitted
<1>6. CASE Midnight \/ UNCHANGED vars
  BY <1>6 DEF Midnight, vars, throttle, CountsOK
<1> QED
  BY <1>1, <1>2, <1>3, <1>4, <1>5, <1>6 DEF Next

LEMMA BurstStep ==
  TypeInv /\ WindowInv /\ CountsOK /\ BurstInv /\ [Next]_vars => BurstInv'
<1> SUFFICES ASSUME TypeInv, WindowInv, CountsOK, BurstInv, [Next]_vars PROVE BurstInv'
  OBVIOUS
<1>a. clock \in Nat /\ LastTick \in Nat /\ \A r \in Requests : req[r] \in Slot
  BY AccessAssumption DEF TypeInv, SlotsOK, TablesOK
<1>b. DOMAIN req = Requests
  BY DEF TypeInv, SlotsOK
<1>c. ASSUME clock' \in Nat, clock' >= clock, admitted' = admitted, bucket' = bucket,
             \A k, last : Late(k, last)' \subseteq Late(k, last) \/ clock <= last
      PROVE  BurstInv'
  <2> SUFFICES ASSUME NEW k \in Keys, NEW last \in 0..LastTick
               PROVE  StillInWindow(k, last)' \/ OnlyLateOnes(k, last)'
    BY DEF BurstInv
  <2>1. CASE Late(k, last)' \subseteq Late(k, last)
    BY <1>c, <2>1, BurstStays
  <2>2. CASE clock <= last
    <3>1. StillInWindow(k, last)
      BY <1>a, <2>2 DEF BurstInv, OnlyLateOnes
    <3> QED
      BY <1>c, <3>1, BurstSame DEF StillInWindow, Recent
  <2> QED
    BY <1>c, <2>1, <2>2
<1>1. ASSUME NEW r \in Requests, NEW e, NEW w,
             \/ AskRegister(r, e, w) \/ CheckPassword(r, e, w) \/ ReadDates(r) \/ TakeDay(r)
             \/ CommitShift(r) \/ InsertUser(r) \/ StartSeed(r) \/ CommitSeed(r)
      PROVE  BurstInv'
  <2>1. clock' = clock /\ admitted' = admitted /\ bucket' = bucket
    BY <1>1 DEF AskRegister, CheckPassword, ReadDates, TakeDay, CommitShift, InsertUser,
                StartSeed, CommitSeed, throttle
  <2>2. req'[r].pc # "gate" /\ \A q \in Requests : q # r => req'[q] = req[q]
    BY <1>1, AwayFromTheGate
  <2>3. \A k, last : Late(k, last)' \subseteq Late(k, last)
    BY <2>2 DEF Late
  <2> QED
    BY <1>a, <1>c, <2>1, <2>3
<1>2. ASSUME NEW r \in Requests, NEW c, AskLogin(r, c) PROVE BurstInv'
  <2>1. clock' = clock /\ admitted' = admitted /\ bucket' = bucket
        /\ req'[r].moment = clock /\ \A q \in Requests : q # r => req'[q] = req[q]
    BY <1>2, <1>a, <1>b DEF AskLogin, throttle, Idle
  <2>2. \A k, last : Late(k, last)' \subseteq Late(k, last) \/ clock <= last
    BY <2>1 DEF Late
  <2> QED
    BY <1>a, <1>c, <2>1, <2>2
<1>3. ASSUME NEW r \in Requests, Refuse(r) \/ Admit(r) PROVE BurstInv'
  BY <1>3, GateBurst
<1>4. CASE Tick
  <2>1. clock' = clock + 1 /\ req' = req /\ admitted' = admitted /\ bucket' = bucket
    BY <1>4 DEF Tick, throttle
  <2>2. \A k, last : Late(k, last)' = Late(k, last)
    BY <2>1 DEF Late
  <2> QED
    BY <1>a, <1>c, <2>1, <2>2
<1>5. CASE Restart
  <2> SUFFICES ASSUME NEW k \in Keys, NEW last \in 0..LastTick PROVE StillInWindow(k, last)'
    BY DEF BurstInv
  <2>1. bucket'[k] = <<>> /\ admitted'[k] = [t \in 0..LastTick |-> 0]
    BY <1>5 DEF Restart, NoAttempts, NoneAdmitted
  <2>2. Burst(k, last)' = 0
    BY <2>1, BurstIsSumPrimed, SumOfZeroes, TicksFacts
  <2>a. <<>> \in Seq(Nat) /\ last \in Nat
    BY AccessAssumption
  <2>3. Cardinality(Recent(<<>>, last)) \in Nat
    BY <2>a, RecentFacts
  <2> QED
    BY <2>1, <2>2, <2>3 DEF StillInWindow, Recent
<1>6. CASE Midnight \/ UNCHANGED vars
  <2>1. UNCHANGED <<clock, req, admitted, bucket>>
    BY <1>6 DEF Midnight, vars, throttle
  <2>2. \A k, last : Late(k, last)' = Late(k, last)
    BY <2>1 DEF Late
  <2> QED
    BY <1>a, <1>c, <2>1, <2>2
<1> QED
  BY <1>1, <1>2, <1>3, <1>4, <1>5, <1>6 DEF Next

LEMMA BurstStarts == Init => CountsOK /\ BurstInv
<1> SUFFICES ASSUME Init PROVE CountsOK /\ BurstInv
  OBVIOUS
<1>1. CountsOK
  BY AccessAssumption DEF Init, CountsOK, NoneAdmitted, Idle
<1>2. ASSUME NEW k \in Keys, NEW last \in 0..LastTick PROVE StillInWindow(k, last)
  <2>1. bucket[k] = <<>> /\ admitted[k] = [t \in 0..LastTick |-> 0]
    BY DEF Init, NoAttempts, NoneAdmitted
  <2>2. Burst(k, last) = 0
    BY <2>1, BurstIsSum, SumOfZeroes, TicksFacts
  <2>a. <<>> \in Seq(Nat) /\ last \in Nat
    BY AccessAssumption
  <2>3. Cardinality(Recent(<<>>, last)) \in Nat
    BY <2>a, RecentFacts
  <2> QED
    BY <2>1, <2>2, <2>3 DEF StillInWindow
<1> QED
  BY <1>1, <1>2 DEF BurstInv

LEMMA BurstFollows == TypeInv /\ WindowInv /\ CountsOK /\ BurstInv => BurstIsBounded
<1> SUFFICES ASSUME TypeInv, WindowInv, CountsOK, BurstInv, NEW k \in Keys, NEW last \in 0..clock
             PROVE  Burst(k, last) <= LoginMax + Cardinality(Requests) - 1
  BY DEF BurstIsBounded
<1> DEFINE n == Cardinality(Requests)
           late == Cardinality(Late(k, last))
           burst == Burst(k, last)
           count == Cardinality(Recent(bucket[k], last))
           size == Len(bucket[k])
<1>1. last \in 0..LastTick /\ last \in Nat /\ LoginMax \in Nat
  BY AccessAssumption DEF CountsOK, TypeInv, TablesOK
<1>2. n \in Nat \ {0} /\ late \in Nat /\ burst \in Nat
  BY <1>1, LateFacts, BurstTyped
<1>3. bucket[k] \in Seq(Nat)
  BY DEF TypeInv, TablesOK
<1>a. count \in Nat /\ size \in Nat /\ count <= size
  BY <1>1, <1>3, RecentFacts, SMTT(30)
<1>b. size <= LoginMax
  BY DEF WindowInv
<1>4. count \in Nat /\ size \in Nat /\ count <= size /\ size <= LoginMax
  BY <1>a, <1>b
<1>5. burst <= count \/ burst + late <= LoginMax + n - 1
  BY <1>1 DEF BurstInv, StillInWindow, OnlyLateOnes
<1> HIDE DEF n, late, burst, count, size
<1>6. burst <= LoginMax + n - 1
  BY <1>1, <1>2, <1>4, <1>5
<1> QED
  BY <1>6 DEF burst, n

(* Whatever order the clock readings reach the lock in, no key gets in     *)
(* more than LoginMax attempts, and one more per other worker slot, in any *)
(* Window of readings: for every limit, window and number of slots.        *)
THEOREM BurstAlwaysBounded == Spec => []BurstIsBounded
<1>1. Init => WindowInv
  BY AccessAssumption DEF Init, WindowInv, NoAttempts, NoPromise
<1> QED
  BY <1>1, TypeAlways, WindowStep, CountsStep, BurstStarts, BurstStep, BurstFollows, PTL DEF Spec
=============================================================================
