------------------------------- MODULE Access -------------------------------
(***************************************************************************)
(* The door: POST /v1/auth/login with its in-process throttle and the date *)
(* shift a demo login makes, POST /v1/auth/register, and the start-up seed *)
(* of the demo users.  Requests are worker slots as in Sync; the throttle  *)
(* reads the clock before it takes its lock.                               *)
(*                                                                         *)
(* The monotonic clock counts ticks, Second of them a second and Grain a   *)
(* thousandth, the rounding unit of Retry-After.  Dates are counted in     *)
(* days; every month has MonthLength days.                                 *)
(***************************************************************************)
EXTENDS Integers, Sequences, FiniteSetsExt

CONSTANTS
  Requests,
  Callers,        \* who calls: the addresses a request carries
  TrustProxy,     \* LOGIN_TRUST_PROXY_HEADERS
  Emails, DemoEmails, Passwords,
  DemoPassword,   \* the password the seed gives
  None,           \* no address, no user, no promise
  LoginMax, Window, Second, Grain,
  RegistrationOpen,
  Rows,           \* transactions of the demo account
  MonthLength,
  LastTick, LastDay,  \* bounds
  Workloads       \* bound: which of the things below one behaviour mixes

ASSUME AccessAssumption ==
  /\ IsFiniteSet(Requests) /\ Requests # {}
  /\ Callers \subseteq [real : {None} \cup STRING, hops : Seq(STRING),
                        host : {None} \cup STRING]
  /\ TrustProxy \in BOOLEAN /\ RegistrationOpen \in BOOLEAN
  /\ DemoEmails \subseteq Emails /\ DemoPassword \in Passwords
  /\ LoginMax \in Nat \ {0} /\ Window \in Nat \ {0}
  /\ Grain \in Nat \ {0} /\ Second \in Nat /\ Second >= Grain
  /\ MonthLength \in Nat \ {0} /\ LastTick \in Nat /\ LastDay \in Nat

VARIABLES
  clock, bucket,   \* time.monotonic(), and _attempts
  users, dates,    \* rows of users; the date of each demo transaction
  today, req, workload,
  admitted,        \* history: how many attempts each key got in at a tick
  promise          \* history: the tick Retry-After names, until it is used

throttle == <<bucket, admitted, promise>>
stored == <<users, dates>>
vars == <<clock, bucket, users, dates, today, req, workload, admitted, promise>>

(* login_client_key: the proxy's header, its first hop, or the socket.     *)
ClientKey(c) ==
  IF TrustProxy /\ c.real # None THEN c.real
  ELSE IF TrustProxy /\ c.hops # <<>> /\ Head(c.hops) # "" THEN Head(c.hops)
  ELSE IF c.host # None THEN c.host ELSE "unknown"

Keys == {ClientKey(c) : c \in Callers}
NoDates == [x \in Rows |-> 0]
Idle == [pc |-> "idle", key |-> None, moment |-> 0, email |-> None, word |-> None,
         seen |-> NoDates, day |-> 0, missing |-> {}]
Close(r) == req' = [req EXCEPT ![r] = Idle]
NoAttempts == [k \in Keys |-> <<>>]
NoneAdmitted == [k \in Keys |-> [t \in 0..LastTick |-> 0]]
NoPromise == [k \in Keys |-> None]

Init ==
  /\ clock = 0 /\ today = MonthLength
  /\ bucket = NoAttempts /\ admitted = NoneAdmitted /\ promise = NoPromise
  /\ users = {} /\ workload \in Workloads
  /\ dates \in [Rows -> IF "midnight" \in workload THEN 1..MonthLength ELSE {1}]
  /\ req = [r \in Requests |-> Idle]

-----------------------------------------------------------------------------
(* enforce_login_rate_limit: the clock, then what happens under the lock.  *)
AskLogin(r, c) ==
  /\ "login" \in workload /\ req[r].pc = "idle"
  /\ req' = [req EXCEPT ![r] = [Idle EXCEPT !.pc = "gate", !.key = ClientKey(c),
               !.moment = clock]]
  /\ UNCHANGED <<clock, today, workload, throttle, stored>>

(* Entries leave at the head while they are old: an older one behind a     *)
(* younger head stays.                                                     *)
Pruned(b, cutoff) ==
  LET young == {i \in DOMAIN b : b[i] > cutoff}
  IN  IF young = {} THEN <<>>
      ELSE SubSeq(b, CHOOSE i \in young : \A j \in young : i <= j, Len(b))

(* Plausible bugs stand before the definition they would change.  Here:    *)
(* the seconds are cut off instead of rounded up.                          *)
SecondsCutOff(wait) == wait \div Second

(* max(1, int(x + 0.999)) seconds.                                         *)
RetryAfter(wait) ==
  LET seconds == (wait + Second - Grain) \div Second
  IN  IF seconds < 1 THEN 1 ELSE seconds

Kept(r) == Pruned(bucket[req[r].key], req[r].moment - Window)

(* Bug: the window is read before the lock, so it may have filled up.      *)
AdmitOneMore(r) ==
  /\ req[r].pc = "gate"
  /\ Len(Kept(r)) <= LoginMax
  /\ bucket' = [bucket EXCEPT ![req[r].key] = Append(Kept(r), req[r].moment)]
  /\ admitted' = [admitted EXCEPT ![req[r].key][req[r].moment] = @ + 1]
  /\ promise' = [promise EXCEPT ![req[r].key] = None]
  /\ req' = [req EXCEPT ![r].pc = "select", ![r].key = None, ![r].moment = 0]
  /\ UNCHANGED <<clock, today, workload, stored>>

Refuse(r) ==
  /\ req[r].pc = "gate"
  /\ Len(Kept(r)) >= LoginMax
  /\ bucket' = [bucket EXCEPT ![req[r].key] = Kept(r)]
  /\ promise' = [promise EXCEPT ![req[r].key] = req[r].moment +
       Second * RetryAfter(Kept(r)[1] + Window - req[r].moment)]
  /\ Close(r)
  /\ UNCHANGED <<clock, today, workload, admitted, stored>>

Admit(r) ==
  /\ req[r].pc = "gate"
  /\ Len(Kept(r)) < LoginMax
  /\ bucket' = [bucket EXCEPT ![req[r].key] = Append(Kept(r), req[r].moment)]
  /\ admitted' = [admitted EXCEPT ![req[r].key][req[r].moment] = @ + 1]
  /\ promise' = [promise EXCEPT ![req[r].key] = None]
  /\ req' = [req EXCEPT ![r].pc = "select", ![r].key = None, ![r].moment = 0]
  /\ UNCHANGED <<clock, today, workload, stored>>

(* login: one 401 for an unknown email and for a wrong password.  The body *)
(* is looked at here for the first time.                                   *)
CheckPassword(r, e, w) ==
  /\ req[r].pc = "select"
  /\ IF [email |-> e, word |-> w] \in users /\ e \in DemoEmails
     THEN req' = [req EXCEPT ![r].pc = "dates"] ELSE Close(r)
  /\ UNCHANGED <<clock, today, workload, throttle, stored>>

-----------------------------------------------------------------------------
(* refresh_demo_transaction_dates: rows read, moved in one commit.         *)
Newest(d) == CHOOSE n \in {d[x] : x \in Rows} : \A x \in Rows : d[x] <= n
MonthStart(day) == ((day - 1) \div MonthLength) * MonthLength + 1
StaleFor(d, day) == Rows # {} /\ Newest(d) < day - 1

(* Bug: a row that leaves the month comes up today.                        *)
ShiftedAround(d, day) ==
  [x \in Rows |-> LET moved == d[x] + day - 1 - Newest(d)
                  IN  IF moved < MonthStart(day) THEN day ELSE moved]

Shifted(d, day) ==
  [x \in Rows |-> LET moved == d[x] + day - 1 - Newest(d)
                      capped == IF moved > day THEN day ELSE moved
                  IN  IF capped < MonthStart(day) THEN MonthStart(day) ELSE capped]

ReadDates(r) ==
  /\ req[r].pc = "dates"
  /\ req' = [req EXCEPT ![r].pc = "day", ![r].seen = dates]
  /\ UNCHANGED <<clock, today, workload, throttle, stored>>

TakeDay(r) ==
  /\ req[r].pc = "day"
  /\ IF StaleFor(req[r].seen, today)
     THEN req' = [req EXCEPT ![r].pc = "shift", ![r].day = today] ELSE Close(r)
  /\ UNCHANGED <<clock, today, workload, throttle, stored>>

(* Every row of a stale account moves, so every row is written.            *)
CommitShift(r) ==
  /\ req[r].pc = "shift"
  /\ dates' = Shifted(req[r].seen, req[r].day)
  /\ Close(r)
  /\ UNCHANGED <<clock, today, workload, throttle, users>>

-----------------------------------------------------------------------------
(* register: select, hash, insert; the unique email decides a race.        *)
HasUser(e) == \E u \in users : u.email = e

AskRegister(r, e, w) ==
  /\ "register" \in workload /\ req[r].pc = "idle"
  /\ RegistrationOpen /\ ~HasUser(e)
  /\ req' = [req EXCEPT ![r] = [Idle EXCEPT !.pc = "insert", !.email = e, !.word = w]]
  /\ UNCHANGED <<clock, today, workload, throttle, stored>>

InsertUser(r) ==
  /\ req[r].pc = "insert"
  /\ users' = IF HasUser(req[r].email) THEN users
              ELSE users \cup {[email |-> req[r].email, word |-> req[r].word]}
  /\ Close(r)
  /\ UNCHANGED <<clock, today, workload, throttle, dates>>

(* seed_demo_users: the missing ones are inserted in one commit.           *)
StartSeed(r) ==
  /\ "seed" \in workload /\ req[r].pc = "idle"
  /\ req' = [req EXCEPT ![r] = [Idle EXCEPT !.pc = "seed",
               !.missing = {e \in DemoEmails : ~HasUser(e)}]]
  /\ UNCHANGED <<clock, today, workload, throttle, stored>>

SeedLands(r) == req[r].pc = "seed" /\ \A e \in req[r].missing : ~HasUser(e)

(* Bug: the seed replaces a user that was registered meanwhile.            *)
CommitSeedReplacing(r) ==
  /\ req[r].pc = "seed"
  /\ users' = {u \in users : u.email \notin req[r].missing} \cup
                {[email |-> e, word |-> DemoPassword] : e \in req[r].missing}
  /\ Close(r)
  /\ UNCHANGED <<clock, today, workload, throttle, dates>>

CommitSeed(r) ==
  /\ req[r].pc = "seed"
  /\ users' = IF SeedLands(r)
              THEN users \cup {[email |-> e, word |-> DemoPassword] : e \in req[r].missing}
              ELSE users
  /\ Close(r)
  /\ UNCHANGED <<clock, today, workload, throttle, dates>>

-----------------------------------------------------------------------------
Tick ==
  /\ "tick" \in workload /\ clock < LastTick
  /\ clock' = clock + 1
  /\ UNCHANGED <<today, req, workload, throttle, stored>>

Midnight ==
  /\ "midnight" \in workload /\ today < LastDay
  /\ today' = today + 1
  /\ UNCHANGED <<clock, req, workload, throttle, stored>>

(* A restart forgets the window and every request.                         *)
Restart ==
  /\ req' = [r \in Requests |-> Idle]
  /\ bucket' = NoAttempts /\ admitted' = NoneAdmitted /\ promise' = NoPromise
  /\ UNCHANGED <<clock, today, workload, stored>>

Next ==
  \/ \E r \in Requests :
       \/ \E e \in Emails, w \in Passwords :
            AskRegister(r, e, w) \/ CheckPassword(r, e, w)
       \/ \E c \in Callers : AskLogin(r, c)
       \/ Refuse(r) \/ Admit(r) \/ ReadDates(r) \/ TakeDay(r) \/ CommitShift(r)
       \/ InsertUser(r) \/ StartSeed(r) \/ CommitSeed(r)
  \/ Tick \/ Midnight \/ Restart

Spec == Init /\ [][Next]_vars
-----------------------------------------------------------------------------
(* Properties.                                                             *)

(* A thread that read the clock early and takes the lock late finds a      *)
(* window that a later reading has already pruned, and is let in.  In any  *)
(* Window seconds of clock readings a key gets in LoginMax attempts and at *)
(* most one more per other worker slot.                                    *)
Burst(k, last) ==
  MapThenSumSet(LAMBDA t : admitted[k][t], {t \in 0..last : t > last - Window})
BurstIsBounded ==
  \A k \in Keys, t \in 0..clock :
    Burst(k, t) <= LoginMax + Cardinality(Requests) - 1

(* "Retry-After says when to try again": whoever waits that long, and up   *)
(* to a thousandth more for the rounding, is let in unless the key has got *)
(* another attempt in meanwhile, whatever order the readings arrive in.    *)
RetryAfterIsHonest ==
  [][\A r \in Requests : Refuse(r) /\ promise[req[r].key] # None =>
       req[r].moment < promise[req[r].key] + Grain - 1]_vars

(* Whoever is first to register or be seeded under an email is its one    *)
(* user for good, with the password given then, however registrations and  *)
(* the seed overlap: the losers of a race change nothing, and neither does *)
(* a seed that finds one of its users registered since it looked.          *)
FirstUserStands ==
  [][/\ users \subseteq users'
     /\ \A u, v \in users' : u.email = v.email => u = v]_vars

(* The shift of a demo login may put two days on one but never turns their *)
(* order round, also when two logins overlap and the rows were read on     *)
(* another day than they are written.                                      *)
DatesKeepTheirOrder ==
  [][\A x, y \in Rows : dates[x] < dates[y] => dates'[x] <= dates'[y]]_vars
=============================================================================
