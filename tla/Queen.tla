------------------------------- MODULE Queen -------------------------------
(***************************************************************************)
(* The Queen's audiences: POST /v1/chat/query and GET                      *)
(* /v1/advisor/queen-tips, the daily counter they share (rate_limit.py)    *)
(* and the same-day cache (chat_cache), run by a pool of worker threads.   *)
(* A request is a slot; an action is the code between two points where     *)
(* another request, a sync or midnight may come in.                        *)
(*                                                                         *)
(* A subject is what a counter row is for: a normal account, or one        *)
(* visitor address of the shared demo account.  The cache is per account.  *)
(***************************************************************************)
EXTENDS Integers, Sequences, FiniteSets

CONSTANTS
  Requests,      \* worker slots; a slot serves any number of requests
  Users,
  Subjects,
  UserOf,        \* the account behind each subject
  Questions,     \* in-scope chat questions, normalised
  Locales,       \* languages an answer may be asked in
  None,          \* the value of an unset local
  Limit,         \* CHAT_DAILY_LIMIT
  LastDay,       \* bound: days modelled
  LastTreasury,  \* bound: how often syncs change an account's treasury
  AIEnabled,     \* FALSE: no API key, the fixed fallback answers
  LegacyRows     \* TRUE: yesterday's release left tips rows in an old format

ASSUME QueenAssumption ==
  /\ IsFiniteSet(Requests) /\ Requests # {}
  /\ UserOf \in [Subjects -> Users]
  /\ Limit \in Nat
  /\ LastDay \in Nat \ {0}
  /\ LastTreasury \in Nat \ {0}
  /\ AIEnabled \in BOOLEAN
  /\ LegacyRows \in BOOLEAN

VARIABLES
  usage,      \* request_count of each subject and day; NoRow before the first
  cache,      \* rows of chat_cache, oldest first
  treasury,   \* version of each account's movements and balances
  today,
  req,        \* what each worker slot is doing
  answered,   \* history: units of a day that bought an answer
  spoiled,    \* history: units that bought none and never came back to the day
  credited    \* history: give-backs a day received for another day's unit

history == <<answered, spoiled, credited>>
vars == <<usage, cache, treasury, today, req, answered, spoiled, credited>>

Days == 1..LastDay
Versions == 1..LastTreasury
NoRow == -1
Steps == {"idle", "summary", "select", "lookup", "consume", "ask"}

(* What the hash covers: for chat the question and the grounding block,    *)
(* for tips the summary and the grounding block.                           *)
Key == [kind : {"chat", "tips"}, about : Questions \cup Versions, ground : Versions]
CacheRow == [user : Users, key : Key, day : Days,
             answer : {"model", "fallback", "legacy"}, locale : Locales \cup {None}]

(* The locals of a handler.  "row" is the legacy cache row to overwrite.   *)
Slot == [pc : Steps, kind : {"chat", "tips"}, subject : Subjects \cup {None},
         locale : Locales \cup {None}, about : Questions \cup Versions \cup {None},
         ground : 0..LastTreasury, day : 0..LastDay, row : Nat, charged : 0..LastDay]

Idle == [pc |-> "idle", kind |-> "chat", subject |-> None, locale |-> None,
         about |-> None, ground |-> 0, day |-> 0, row |-> 0, charged |-> 0]

Tally == [Subjects -> [Days -> Nat]]
NoTally == [s \in Subjects |-> [d \in Days |-> 0]]

TypeOK ==
  /\ usage \in [Subjects -> [Days -> Nat \cup {NoRow}]]
  /\ cache \in Seq(CacheRow)
  /\ treasury \in [Users -> Versions]
  /\ today \in Days
  /\ req \in [Requests -> Slot]
  /\ answered \in Tally /\ spoiled \in Tally /\ credited \in Tally

Legacy(u) == [user |-> u, key |-> [kind |-> "tips", about |-> 1, ground |-> 1],
              day |-> 1, answer |-> "legacy", locale |-> None]

Init ==
  /\ usage = [s \in Subjects |-> [d \in Days |-> NoRow]]
  /\ cache \in IF LegacyRows THEN {<<Legacy(u)>> : u \in Users} ELSE {<<>>}
  /\ treasury = [u \in Users |-> 1]
  /\ today = 1
  /\ req = [r \in Requests |-> Idle]
  /\ answered = NoTally
  /\ spoiled = NoTally
  /\ credited = NoTally

-----------------------------------------------------------------------------
UserFor(r) == UserOf[req[r].subject]
KeyOf(r) == [kind |-> req[r].kind, about |-> req[r].about, ground |-> req[r].ground]
Hits(r) == {k \in DOMAIN cache : /\ cache[k].user = UserFor(r)
                                 /\ cache[k].key = KeyOf(r)
                                 /\ cache[k].day = req[r].day}
Newest(rows) == CHOOSE k \in rows : \A j \in rows : j <= k
Close(r) == req' = [req EXCEPT ![r] = Idle]
Tick(tally, s, d) == [tally EXCEPT ![s][d] = @ + 1]

(* chat: the day is read first; an off-topic question reads the counter    *)
(* and changes nothing, so it is not a step.                               *)
AskChat(r, s, q, l) ==
  /\ req[r].pc = "idle"
  /\ req' = [req EXCEPT ![r] = [Idle EXCEPT !.pc = "select", !.kind = "chat",
               !.subject = s, !.locale = l, !.about = q, !.day = today]]
  /\ UNCHANGED <<usage, cache, treasury, today, history>>

(* tips: the summary is read, then the movements, then the day.            *)
AskTips(r, s, l) ==
  /\ req[r].pc = "idle"
  /\ req' = [req EXCEPT ![r] = [Idle EXCEPT !.pc = "summary", !.kind = "tips",
               !.subject = s, !.locale = l]]
  /\ UNCHANGED <<usage, cache, treasury, today, history>>

ReadSummary(r) ==
  /\ req[r].pc = "summary"
  /\ req' = [req EXCEPT ![r].pc = "select", ![r].about = treasury[UserFor(r)]]
  /\ UNCHANGED <<usage, cache, treasury, today, history>>

SelectGrounding(r) ==
  /\ req[r].pc = "select"
  /\ req' = [req EXCEPT ![r].pc = "lookup", ![r].ground = treasury[UserFor(r)],
               ![r].day = IF req[r].kind = "tips" THEN today ELSE @]
  /\ UNCHANGED <<usage, cache, treasury, today, history>>

(* Plausible bugs stand before the definition they would change; the runs  *)
(* show that each breaks a property.  Here: chat never looks at the cache. *)
LookupTipsOnly(r) ==
  /\ req[r].pc = "lookup"
  /\ IF Hits(r) = {} \/ req[r].kind = "chat"
     THEN req' = [req EXCEPT ![r].pc = "consume"]
     ELSE Close(r)
  /\ UNCHANGED <<usage, cache, treasury, today, history>>

(* A chat row is served as it is; tips look at the newest row and treat    *)
(* one that is not current JSON as a miss they will overwrite.             *)
Lookup(r) ==
  /\ req[r].pc = "lookup"
  /\ LET hits == Hits(r)
         legacy == /\ req[r].kind = "tips"
                   /\ cache[Newest(hits)].answer = "legacy"
     IN  \/ hits = {} /\ req' = [req EXCEPT ![r].pc = "consume"]
         \/ /\ hits # {} /\ legacy
            /\ req' = [req EXCEPT ![r].pc = "consume", ![r].row = Newest(hits)]
         \/ hits # {} /\ ~legacy /\ Close(r)
  /\ UNCHANGED <<usage, cache, treasury, today, history>>

(* Bugs: off by one at the limit; the first row is inserted at zero.       *)
MayConsumeOneMore(s) == usage[s][today] = NoRow \/ usage[s][today] <= Limit
AfterConsumeFromZero(s) == usage[s][today] + 1

(* consume_request: one upsert, on the day it runs.  The insert of the     *)
(* first row does not look at the limit.                                   *)
MayConsume(s) == usage[s][today] = NoRow \/ usage[s][today] < Limit
AfterConsume(s) == IF usage[s][today] = NoRow THEN 1 ELSE usage[s][today] + 1

Consume(r) ==
  /\ req[r].pc = "consume"
  /\ MayConsume(req[r].subject)
  /\ usage' = [usage EXCEPT ![req[r].subject][today] = AfterConsume(req[r].subject)]
  /\ req' = [req EXCEPT ![r].pc = "ask", ![r].charged = today]
  /\ UNCHANGED <<cache, treasury, today, history>>

RefuseOverLimit(r) ==
  /\ req[r].pc = "consume"
  /\ ~MayConsume(req[r].subject)
  /\ Close(r)
  /\ UNCHANGED <<usage, cache, treasury, today, history>>

-----------------------------------------------------------------------------
(* The model call returns.  With no key, chat's fixed reply counts as an   *)
(* answer and tips are never guarded.                                      *)
MayAnswer(r) == AIEnabled \/ req[r].kind = "chat"
MayFail(r) == AIEnabled \/ req[r].kind = "tips"

AnswerRow(r) ==
  [user |-> UserFor(r), key |-> KeyOf(r), day |-> req[r].day,
   answer |-> IF AIEnabled THEN "model" ELSE "fallback", locale |-> req[r].locale]

(* An answer is filed under the day read at the start; guarded tips that   *)
(* found a legacy row replace its text, which keeps its place.             *)
StoreAnswer(r) ==
  IF req[r].row = 0 THEN Append(cache, AnswerRow(r))
  ELSE [cache EXCEPT ![req[r].row] = AnswerRow(r)]

Answer(r) ==
  /\ req[r].pc = "ask"
  /\ MayAnswer(r)
  /\ cache' = StoreAnswer(r)
  /\ answered' = Tick(answered, req[r].subject, req[r].charged)
  /\ Close(r)
  /\ UNCHANGED <<usage, treasury, today, spoiled, credited>>

(* Bug: the refund does not look at the count.                             *)
GivesBackAnyway(s) == usage[s][today] > NoRow - 1

(* refund_request: minus one on the day it runs, if that day has a count.  *)
GivesBack(s) == usage[s][today] > 0

(* Bug: the refund is booked on the day that was charged.                  *)
RefundChargedDay(r) ==
  /\ req[r].pc = "ask" /\ req[r].kind = "chat"
  /\ MayFail(r)
  /\ usage' = [usage EXCEPT ![req[r].subject][req[r].charged] = @ - 1]
  /\ Close(r)
  /\ UNCHANGED <<cache, treasury, today, history>>

RefundChat(r) ==
  /\ req[r].pc = "ask" /\ req[r].kind = "chat"
  /\ MayFail(r)
  /\ LET s == req[r].subject
         d == req[r].charged
     IN  /\ usage' = IF GivesBack(s) THEN [usage EXCEPT ![s][today] = @ - 1] ELSE usage
         /\ credited' = IF GivesBack(s) /\ d # today
                        THEN Tick(credited, s, today) ELSE credited
         /\ spoiled' = IF GivesBack(s) /\ d = today THEN spoiled
                       ELSE Tick(spoiled, s, d)
  /\ Close(r)
  /\ UNCHANGED <<cache, treasury, today, answered>>

(* Bug: the fixed text is cached like an answer.                           *)
FallbackTipsStored(r) ==
  /\ req[r].pc = "ask" /\ req[r].kind = "tips"
  /\ MayFail(r)
  /\ cache' = Append(cache, [AnswerRow(r) EXCEPT !.answer = "fallback"])
  /\ spoiled' = Tick(spoiled, req[r].subject, req[r].charged)
  /\ Close(r)
  /\ UNCHANGED <<usage, treasury, today, answered, credited>>

(* Tips that fail the guardrail answer the fixed text; the unit is spent.  *)
FallbackTips(r) ==
  /\ req[r].pc = "ask" /\ req[r].kind = "tips"
  /\ MayFail(r)
  /\ spoiled' = Tick(spoiled, req[r].subject, req[r].charged)
  /\ Close(r)
  /\ UNCHANGED <<usage, cache, treasury, today, answered, credited>>

(* The process dies or the database fails: a unit already taken is lost.   *)
Fail(r) ==
  /\ req[r].pc # "idle"
  /\ spoiled' = IF req[r].pc = "ask"
                THEN Tick(spoiled, req[r].subject, req[r].charged) ELSE spoiled
  /\ Close(r)
  /\ UNCHANGED <<usage, cache, treasury, today, answered, credited>>

(* A sync changes an account's movements, and the date changes.            *)
TreasuryMoves(u) ==
  /\ treasury[u] < LastTreasury
  /\ treasury' = [treasury EXCEPT ![u] = @ + 1]
  /\ UNCHANGED <<usage, cache, today, req, history>>

Midnight ==
  /\ today < LastDay
  /\ today' = today + 1
  /\ UNCHANGED <<usage, cache, treasury, req, history>>

-----------------------------------------------------------------------------
Begin(r) ==
  \E s \in Subjects, l \in Locales :
     AskTips(r, s, l) \/ \E q \in Questions : AskChat(r, s, q, l)

Proceed(r) ==
  \/ ReadSummary(r) \/ SelectGrounding(r) \/ Lookup(r)
  \/ Consume(r) \/ RefuseOverLimit(r)
  \/ Answer(r) \/ RefundChat(r) \/ FallbackTips(r)

Next ==
  \/ \E r \in Requests : Begin(r) \/ Proceed(r) \/ Fail(r)
  \/ \E u \in Users : TreasuryMoves(u)
  \/ Midnight

Spec == Init /\ [][Next]_vars
-----------------------------------------------------------------------------
(* Properties.                                                             *)

Count(s, d) == IF usage[s][d] = NoRow THEN 0 ELSE usage[s][d]
Pending(s, d) ==
  {r \in Requests : req[r].pc = "ask" /\ req[r].subject = s /\ req[r].charged = d}

(* The counter survives crashes, outages and midnight with every unit      *)
(* explained: answers, units lost for good and calls still running, less   *)
(* the give-backs that came from another day.                              *)
CountIsExplained ==
  \A s \in Subjects, d \in Days :
    Count(s, d) = answered[s][d] + spoiled[s][d] + Cardinality(Pending(s, d))
                    - credited[s][d]

(* A refund lands on the day it runs.  Only calls that were running at     *)
(* midnight can credit the new day, and one slot must have come free to    *)
(* open its counter: a day sells at most one answer more than the limit    *)
(* per other worker slot.                                                  *)
Ceiling == IF Limit = 0 THEN 1 ELSE Limit
AnswersAreBounded ==
  \A s \in Subjects, d \in Days :
    answered[s][d] + Cardinality(Pending(s, d)) <= Ceiling + Cardinality(Requests) - 1

(* "The user may ask the Gold Queen N questions per day."                  *)
AnswersWithinLimit ==
  \A s \in Subjects, d \in Days : answered[s][d] <= Limit

(* A failed call must not occupy the cache for the rest of the day: with a *)
(* key configured every row of today's release holds a model's answer, and *)
(* legacy text never enters it.                                            *)
OutagesAreNotCached ==
  \A k \in DOMAIN cache :
    /\ AIEnabled => cache[k].answer # "fallback"
    /\ cache[k].answer = "legacy" => k = 1 /\ LegacyRows

(* Racing misses store the same answer twice, but only misses that were    *)
(* under way when the first copy arrived: one copy per worker slot.        *)
CopiesAreBounded ==
  \A k \in DOMAIN cache :
    Cardinality({j \in DOMAIN cache : /\ cache[j].user = cache[k].user
                                      /\ cache[j].key = cache[k].key
                                      /\ cache[j].day = cache[k].day})
      <= Cardinality(Requests)

(* RF04: "Language is the `locale` query when set", also from the cache.   *)
(* The code does not keep it: the key of the cached row has no language.   *)
TipsSpeakTheLanguage ==
  [][\A r \in Requests :
       Lookup(r) /\ req[r].kind = "tips" /\ req'[r].pc = "idle" =>
         cache[Newest(Hits(r))].locale = req[r].locale]_vars

(* The shared table, read as one counter per subject and day, does only    *)
(* what the daily allowance promises.                                      *)
Spent == [s \in Subjects |-> [d \in Days |-> Count(s, d)]]
Promise == INSTANCE Allowance WITH spent <- Spent
KeepsThePromise == Promise!Spec
=============================================================================
