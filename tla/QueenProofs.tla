----------------------------- MODULE QueenProofs -----------------------------
(***************************************************************************)
(* Theorems about Queen, for every number of worker slots, accounts,       *)
(* visitors, questions and days, and every limit.                          *)
(***************************************************************************)
EXTENDS Queen, SequenceTheorems, FoldFacts

LEMMA NewestIsOne ==
  ASSUME cache \in Seq(CacheRow), NEW rows \in SUBSET DOMAIN cache, rows # {}
  PROVE  Newest(rows) \in rows
<1>1. DOMAIN cache = 1..Len(cache) /\ Len(cache) \in Nat
  OBVIOUS
<1>2. \E k \in rows : \A j \in rows : j <= k
  BY <1>1, LastPosition
<1> QED
  BY <1>2 DEF Newest

-----------------------------------------------------------------------------
(* Which locals are set at which step.                                     *)
SlotOK(s) ==
  /\ s \in Slot
  /\ s.pc # "idle" => s.subject \in Subjects /\ s.locale \in Locales
  /\ s.pc \notin {"idle", "summary"} => s.about \in Questions \cup Versions
  /\ s.pc = "summary" => s.kind = "tips"
  /\ s.pc = "select" /\ s.kind = "chat" => s.day \in Days
  /\ s.pc \in {"lookup", "consume", "ask"} => s.ground \in Versions /\ s.day \in Days
  /\ s.pc = "ask" => s.charged \in Days

SlotsOK == req \in [Requests -> Slot] /\ \A r \in Requests : SlotOK(req[r])

TablesOK ==
  /\ usage \in [Subjects -> [Days -> Nat \cup {NoRow}]]
  /\ cache \in Seq(CacheRow)
  /\ treasury \in [Users -> Versions]
  /\ today \in Days

TalliesOK == answered \in Tally /\ spoiled \in Tally /\ credited \in Tally

TypeInv == TablesOK /\ TalliesOK /\ SlotsOK

LEMMA TypeInvImplies == TypeInv => TypeOK
BY DEF TypeInv, TypeOK, TablesOK, TalliesOK, SlotsOK

LEMMA SlotUpdate ==
  ASSUME SlotsOK, NEW r \in Requests, NEW s, SlotOK(s),
         req' = [req EXCEPT ![r] = s]
  PROVE  SlotsOK'
<1>1. req' \in [Requests -> Slot]
  BY DEF SlotsOK, SlotOK
<1>2. ASSUME NEW q \in Requests PROVE SlotOK(req'[q])
  BY DEF SlotsOK
<1> QED
  BY <1>1, <1>2 DEF SlotsOK

LEMMA IdleOK == SlotOK(Idle)
BY QueenAssumption DEF SlotOK, Idle, Slot, Steps

LEMMA CloseKeepsSlots ==
  ASSUME SlotsOK, NEW r \in Requests, Close(r)
  PROVE  SlotsOK'
BY SlotUpdate, IdleOK DEF Close

LEMMA TickType ==
  ASSUME NEW tally \in Tally, NEW s \in Subjects, NEW d \in Days
  PROVE  /\ Tick(tally, s, d) \in Tally
         /\ \A t \in Subjects, e \in Days :
              Tick(tally, s, d)[t][e] = IF t = s /\ e = d THEN tally[t][e] + 1
                                        ELSE tally[t][e]
BY DEF Tick, Tally

LEMMA UserType ==
  ASSUME SlotsOK, NEW r \in Requests, req[r].pc # "idle"
  PROVE  UserFor(r) \in Users
BY QueenAssumption DEF SlotsOK, SlotOK, UserFor

(* One lemma per action of a request.                                      *)
LEMMA AskType ==
  ASSUME TypeInv, NEW r \in Requests, NEW s \in Subjects, NEW l \in Locales,
         AskTips(r, s, l) \/ \E q \in Questions : AskChat(r, s, q, l)
  PROVE  TypeInv'
<1>1. TablesOK' /\ TalliesOK'
  BY DEF TypeInv, TablesOK, TalliesOK, AskTips, AskChat, history
<1>2. CASE AskTips(r, s, l)
  <2> DEFINE slot == [Idle EXCEPT !.pc = "summary", !.kind = "tips", !.subject = s,
                                  !.locale = l]
  <2>1. SlotOK(slot)
    BY IdleOK DEF SlotOK, Idle, Slot, Steps
  <2>2. req' = [req EXCEPT ![r] = slot]
    BY <1>2 DEF AskTips
  <2> QED
    BY <1>1, <2>1, <2>2, SlotUpdate DEF TypeInv
<1>3. ASSUME NEW q \in Questions, AskChat(r, s, q, l) PROVE TypeInv'
  <2> DEFINE slot == [Idle EXCEPT !.pc = "select", !.kind = "chat", !.subject = s,
                                  !.locale = l, !.about = q, !.day = today]
  <2>1. today \in Days /\ Days \subseteq 0..LastDay
    BY QueenAssumption DEF TypeInv, TablesOK, Days
  <2>2. SlotOK(slot)
    BY <2>1, IdleOK DEF SlotOK, Idle, Slot, Steps
  <2>3. req' = [req EXCEPT ![r] = slot]
    BY <1>3 DEF AskChat
  <2> QED
    BY <1>1, <2>2, <2>3, SlotUpdate DEF TypeInv
<1> QED
  BY <1>2, <1>3

LEMMA ReadSummaryType ==
  ASSUME TypeInv, NEW r \in Requests, ReadSummary(r)
  PROVE  TypeInv'
<1> DEFINE slot == [req[r] EXCEPT !.pc = "select", !.about = treasury[UserFor(r)]]
<1>1. TablesOK' /\ TalliesOK'
  BY DEF TypeInv, TablesOK, TalliesOK, ReadSummary, history
<1>2. SlotsOK /\ SlotOK(req[r]) /\ req[r].pc = "summary"
  BY DEF TypeInv, SlotsOK, ReadSummary
<1>3. treasury[UserFor(r)] \in Versions
  BY <1>2, UserType DEF TypeInv, TablesOK
<1>4. SlotOK(slot)
  BY <1>2, <1>3 DEF SlotOK, Slot, Steps
<1>5. req' = [req EXCEPT ![r] = slot]
  BY DEF ReadSummary
<1> QED
  BY <1>1, <1>2, <1>4, <1>5, SlotUpdate DEF TypeInv

LEMMA SelectGroundingType ==
  ASSUME TypeInv, NEW r \in Requests, SelectGrounding(r)
  PROVE  TypeInv'
<1> DEFINE day == IF req[r].kind = "tips" THEN today ELSE req[r].day
           slot == [req[r] EXCEPT !.pc = "lookup", !.ground = treasury[UserFor(r)],
                                  !.day = day]
<1>1. TablesOK' /\ TalliesOK'
  BY DEF TypeInv, TablesOK, TalliesOK, SelectGrounding, history
<1>2. SlotsOK /\ SlotOK(req[r]) /\ req[r].pc = "select"
  BY DEF TypeInv, SlotsOK, SelectGrounding
<1>3. treasury[UserFor(r)] \in Versions
  BY <1>2, UserType DEF TypeInv, TablesOK
<1>4. day \in Days
  BY <1>2 DEF TypeInv, TablesOK, SlotOK, Slot
<1>5. Versions \subseteq 0..LastTreasury /\ Days \subseteq 0..LastDay
  BY QueenAssumption DEF Versions, Days
<1> HIDE DEF day
<1>6. SlotOK(slot)
  BY <1>2, <1>3, <1>4, <1>5 DEF SlotOK, Slot, Steps
<1>7. req' = [req EXCEPT ![r] = slot]
  BY <1>2 DEF SelectGrounding, day, SlotsOK
<1> QED
  BY <1>1, <1>2, <1>6, <1>7, SlotUpdate DEF TypeInv

LEMMA LookupType ==
  ASSUME TypeInv, NEW r \in Requests, Lookup(r)
  PROVE  TypeInv'
<1>1. TablesOK' /\ TalliesOK'
  BY DEF TypeInv, TablesOK, TalliesOK, Lookup, history
<1>2. SlotsOK /\ SlotOK(req[r]) /\ req[r].pc = "lookup"
  BY DEF TypeInv, SlotsOK, Lookup
<1>3. CASE req' = [req EXCEPT ![r].pc = "consume"]
  <2>1. SlotOK([req[r] EXCEPT !.pc = "consume"])
    BY <1>2 DEF SlotOK, Slot, Steps
  <2> QED
    BY <1>1, <1>2, <1>3, <2>1, SlotUpdate DEF TypeInv
<1>4. CASE /\ Hits(r) # {}
           /\ req' = [req EXCEPT ![r].pc = "consume", ![r].row = Newest(Hits(r))]
  <2>1. cache \in Seq(CacheRow) /\ Hits(r) \subseteq DOMAIN cache
    BY DEF TypeInv, TablesOK, Hits
  <2>2. Newest(Hits(r)) \in DOMAIN cache
    BY <1>4, <2>1, NewestIsOne
  <2>3. Newest(Hits(r)) \in Nat
    BY <2>1, <2>2
  <2>4. SlotOK([req[r] EXCEPT !.pc = "consume", !.row = Newest(Hits(r))])
    BY <1>2, <2>3 DEF SlotOK, Slot, Steps
  <2> QED
    BY <1>1, <1>2, <1>4, <2>4, SlotUpdate DEF TypeInv
<1>5. CASE Close(r)
  BY <1>1, <1>2, <1>5, CloseKeepsSlots DEF TypeInv
<1> QED
  BY <1>3, <1>4, <1>5 DEF Lookup

LEMMA ConsumeType ==
  ASSUME TypeInv, NEW r \in Requests, Consume(r)
  PROVE  TypeInv'
<1>1. SlotsOK /\ SlotOK(req[r]) /\ req[r].pc = "consume"
  BY DEF TypeInv, SlotsOK, Consume
<1>2. req[r].subject \in Subjects /\ today \in Days
  BY <1>1 DEF TypeInv, TablesOK, SlotOK
<1>3. AfterConsume(req[r].subject) \in Nat
  BY <1>2 DEF TypeInv, TablesOK, AfterConsume, NoRow
<1>4. TablesOK' /\ TalliesOK'
  BY <1>2, <1>3 DEF TypeInv, TablesOK, TalliesOK, Consume, history
<1>5. SlotOK([req[r] EXCEPT !.pc = "ask", !.charged = today])
  <2>1. today \in 0..LastDay
    BY <1>2, QueenAssumption DEF Days
  <2> QED
    BY <1>1, <1>2, <2>1 DEF SlotOK, Slot, Steps
<1>6. req' = [req EXCEPT ![r] = [req[r] EXCEPT !.pc = "ask", !.charged = today]]
  BY DEF Consume
<1> QED
  BY <1>1, <1>4, <1>5, <1>6, SlotUpdate DEF TypeInv

LEMMA AnswerType ==
  ASSUME TypeInv, NEW r \in Requests, Answer(r)
  PROVE  TypeInv'
<1>1. SlotsOK /\ SlotOK(req[r]) /\ req[r].pc = "ask"
  BY DEF TypeInv, SlotsOK, Answer
<1>2. AnswerRow(r) \in CacheRow
  <2>1. UserFor(r) \in Users
    BY <1>1, UserType
  <2>2. KeyOf(r) \in Key
    BY <1>1 DEF SlotOK, Slot, KeyOf, Key
  <2> QED
    BY <1>1, <2>1, <2>2 DEF AnswerRow, CacheRow, SlotOK
<1>3. StoreAnswer(r) \in Seq(CacheRow)
  <2>1. cache \in Seq(CacheRow)
    BY DEF TypeInv, TablesOK
  <2>2. Append(cache, AnswerRow(r)) \in Seq(CacheRow)
    BY <1>2, <2>1
  <2>3. [cache EXCEPT ![req[r].row] = AnswerRow(r)] \in Seq(CacheRow)
    <3>1. cache \in [1..Len(cache) -> CacheRow] /\ Len(cache) \in Nat
      BY <2>1, LenProperties
    <3>2. [cache EXCEPT ![req[r].row] = AnswerRow(r)] \in [1..Len(cache) -> CacheRow]
      BY <1>2, <3>1
    <3> DEFINE after == [cache EXCEPT ![req[r].row] = AnswerRow(r)]
    <3> HIDE DEF after
    <3>3. \E n \in Nat : after \in [1..n -> CacheRow]
      BY <3>1, <3>2 DEF after
    <3>4. after \in Seq(CacheRow)
      BY <3>3, SeqDef, Zenon
    <3> QED
      BY <3>4 DEF after
  <2> QED
    BY <2>2, <2>3 DEF StoreAnswer
<1>4. TablesOK'
  BY <1>3 DEF TypeInv, TablesOK, Answer
<1>5. TalliesOK'
  BY <1>1, TickType DEF TypeInv, TalliesOK, Answer, SlotOK
<1>6. SlotsOK'
  BY <1>1, CloseKeepsSlots DEF Answer
<1> QED
  BY <1>4, <1>5, <1>6 DEF TypeInv

LEMMA RefundChatType ==
  ASSUME TypeInv, NEW r \in Requests, RefundChat(r)
  PROVE  TypeInv'
<1> DEFINE s == req[r].subject
           d == req[r].charged
<1>1. SlotsOK /\ SlotOK(req[r]) /\ req[r].pc = "ask"
  BY DEF TypeInv, SlotsOK, RefundChat
<1>2. s \in Subjects /\ d \in Days /\ today \in Days
  BY <1>1 DEF TypeInv, TablesOK, SlotOK
<1>3. usage' \in [Subjects -> [Days -> Nat \cup {NoRow}]]
  <2>1. CASE GivesBack(s)
    <3>1. usage[s][today] - 1 \in Nat
      BY <1>2, <2>1 DEF TypeInv, TablesOK, GivesBack, NoRow
    <3>2. usage' = [usage EXCEPT ![s][today] = usage[s][today] - 1]
      BY <2>1, <1>2 DEF RefundChat, TypeInv, TablesOK
    <3> QED
      BY <1>2, <3>1, <3>2 DEF TypeInv, TablesOK
  <2>2. CASE ~GivesBack(s)
    BY <2>2 DEF RefundChat, TypeInv, TablesOK
  <2> QED
    BY <2>1, <2>2
<1>4. TablesOK'
  BY <1>3 DEF TypeInv, TablesOK, RefundChat
<1>5. TalliesOK'
  BY <1>2, TickType DEF TypeInv, TalliesOK, RefundChat
<1>6. SlotsOK'
  BY <1>1, CloseKeepsSlots DEF RefundChat
<1> QED
  BY <1>4, <1>5, <1>6 DEF TypeInv

LEMMA SpoilType ==
  ASSUME TypeInv, NEW r \in Requests, FallbackTips(r) \/ Fail(r)
  PROVE  TypeInv'
<1>1. SlotsOK /\ SlotOK(req[r])
  BY DEF TypeInv, SlotsOK
<1>2. TablesOK' /\ Close(r)
  BY DEF TypeInv, TablesOK, FallbackTips, Fail
<1>3. TalliesOK'
  BY <1>1, TickType DEF TypeInv, TalliesOK, FallbackTips, Fail, SlotOK
<1>4. SlotsOK'
  BY <1>1, <1>2, CloseKeepsSlots
<1> QED
  BY <1>2, <1>3, <1>4 DEF TypeInv

LEMMA RefuseType ==
  ASSUME TypeInv, NEW r \in Requests, RefuseOverLimit(r)
  PROVE  TypeInv'
<1>1. TablesOK' /\ TalliesOK'
  BY DEF TypeInv, TablesOK, TalliesOK, RefuseOverLimit, history
<1>2. SlotsOK'
  BY CloseKeepsSlots DEF TypeInv, RefuseOverLimit
<1> QED
  BY <1>1, <1>2 DEF TypeInv

LEMMA WorldType ==
  ASSUME TypeInv, Midnight \/ (\E u \in Users : TreasuryMoves(u)) \/ UNCHANGED vars
  PROVE  TypeInv'
<1>1. CASE Midnight
  <2>1. today' \in Days
    BY <1>1, QueenAssumption DEF TypeInv, TablesOK, Midnight, Days
  <2> QED
    BY <1>1, <2>1 DEF TypeInv, TablesOK, TalliesOK, SlotsOK, Midnight, history
<1>2. ASSUME NEW u \in Users, TreasuryMoves(u) PROVE TypeInv'
  <2>1. treasury[u] + 1 \in Versions
    BY <1>2, QueenAssumption DEF TypeInv, TablesOK, TreasuryMoves, Versions
  <2> QED
    BY <1>2, <2>1 DEF TypeInv, TablesOK, TalliesOK, SlotsOK, TreasuryMoves, history
<1>3. CASE UNCHANGED vars
  BY <1>3 DEF TypeInv, TablesOK, TalliesOK, SlotsOK, vars
<1> QED
  BY <1>1, <1>2, <1>3

LEMMA TypeInvStep == TypeInv /\ [Next]_vars => TypeInv'
<1> SUFFICES ASSUME TypeInv, [Next]_vars PROVE TypeInv'
  OBVIOUS
<1>1. ASSUME NEW r \in Requests, Begin(r) PROVE TypeInv'
  BY <1>1, AskType DEF Begin
<1>2. ASSUME NEW r \in Requests, Proceed(r) PROVE TypeInv'
  BY <1>2, ReadSummaryType, SelectGroundingType, LookupType, ConsumeType, RefuseType,
     AnswerType, RefundChatType, SpoilType DEF Proceed
<1>3. ASSUME NEW r \in Requests, Fail(r) PROVE TypeInv'
  BY <1>3, SpoilType
<1> QED
  BY <1>1, <1>2, <1>3, WorldType DEF Next

LEMMA TypeInvInit == Init => TypeInv
<1> SUFFICES ASSUME Init PROVE TypeInv
  OBVIOUS
<1>1. 1 \in Days /\ 1 \in Versions
  BY QueenAssumption DEF Days, Versions
<1>2. cache \in Seq(CacheRow)
  <2>1. \A u \in Users : Legacy(u) \in CacheRow
    BY <1>1 DEF Legacy, CacheRow, Key
  <2>2. \A u \in Users : <<Legacy(u)>> \in Seq(CacheRow)
    BY <2>1
  <2>3. <<>> \in Seq(CacheRow)
    BY EmptySeq
  <2>4. cache = <<>> \/ \E u \in Users : cache = <<Legacy(u)>>
    BY QueenAssumption DEF Init
  <2> QED
    BY <2>2, <2>3, <2>4
<1>3. TablesOK
  BY <1>1, <1>2 DEF Init, TablesOK, NoRow
<1>4. TalliesOK
  BY DEF Init, TalliesOK, NoTally, Tally
<1>5. SlotsOK
  BY IdleOK DEF Init, SlotsOK, SlotOK
<1> QED
  BY <1>3, <1>4, <1>5 DEF TypeInv

(* Counters, cache and locals keep their types, and a handler that calls   *)
(* the model knows its account, its key and the day it was charged on.     *)
THEOREM TypeAlways == Spec => []TypeInv
<1>1. Init => TypeInv
  BY TypeInvInit
<1>2. TypeInv /\ [Next]_vars => TypeInv'
  BY TypeInvStep
<1> QED
  BY <1>1, <1>2, PTL DEF Spec

(* TypeOK, which the runs check, holds for every instance of the model.    *)
THEOREM TypeCorrect == Spec => []TypeOK
BY TypeAlways, TypeInvImplies, PTL

-----------------------------------------------------------------------------
LEMMA RequestsCount ==
  /\ IsFiniteSet(Requests)
  /\ Cardinality(Requests) \in Nat \ {0}
BY QueenAssumption, FS_CardinalityType, FS_EmptySet

LEMMA SlotsCount ==
  ASSUME NEW slots \in SUBSET Requests
  PROVE  /\ IsFiniteSet(slots) /\ Cardinality(slots) \in Nat
         /\ Cardinality(slots) <= Cardinality(Requests)
BY RequestsCount, FS_Subset, FS_CardinalityType

-----------------------------------------------------------------------------
(* What a step of one request does to the slots that wait for an answer.   *)
Alone(r) == \A q \in Requests \ {r} : req'[q] = req[q]

(* Every step but Consume ends with a slot that waits for no answer.       *)
LEMMA StepOfOne ==
  ASSUME TypeInv, NEW r \in Requests, Begin(r) \/ Proceed(r) \/ Fail(r)
  PROVE  /\ Alone(r)
         /\ ~Consume(r) => req'[r].pc # "ask"
<1> DEFINE Goal == Alone(r) /\ (~Consume(r) => req'[r].pc # "ask")
<1> USE DEF Alone
<1>1. req \in [Requests -> Slot]
  BY DEF TypeInv, SlotsOK
<1>2. CASE Close(r)
  BY <1>1, <1>2 DEF Close, Idle
<1>3. ASSUME NEW s \in Subjects, NEW l \in Locales, AskTips(r, s, l) PROVE Goal
  BY <1>1, <1>3 DEF AskTips, Idle
<1>4. ASSUME NEW s \in Subjects, NEW l \in Locales, NEW q \in Questions, AskChat(r, s, q, l)
      PROVE  Goal
  BY <1>1, <1>4 DEF AskChat, Idle
<1>5. CASE ReadSummary(r)
  BY <1>1, <1>5 DEF ReadSummary, Slot
<1>6. CASE SelectGrounding(r)
  BY <1>1, <1>6 DEF SelectGrounding, Slot
<1>7. CASE Lookup(r)
  <2>1. CASE req' = [req EXCEPT ![r].pc = "consume"]
    BY <1>1, <2>1 DEF Slot
  <2>2. CASE req' = [req EXCEPT ![r].pc = "consume", ![r].row = Newest(Hits(r))]
    BY <1>1, <2>2 DEF Slot
  <2> QED
    BY <1>2, <1>7, <2>1, <2>2 DEF Lookup
<1>8. CASE Consume(r)
  BY <1>1, <1>8 DEF Consume
<1>9. CASE RefuseOverLimit(r) \/ Answer(r) \/ RefundChat(r) \/ FallbackTips(r) \/ Fail(r)
  BY <1>2, <1>9 DEF RefuseOverLimit, Answer, RefundChat, FallbackTips, Fail
<1> QED
  BY <1>3, <1>4, <1>5, <1>6, <1>7, <1>8, <1>9 DEF Begin, Proceed

(* The steps that touch no counter and no history.                         *)
Quiet(r) == Begin(r) \/ ReadSummary(r) \/ SelectGrounding(r) \/ Lookup(r) \/ RefuseOverLimit(r)

LEMMA QuietSteps ==
  ASSUME NEW r \in Requests, Quiet(r)
  PROVE  /\ UNCHANGED <<usage, today, answered, spoiled, credited>>
         /\ req[r].pc # "ask" /\ ~Consume(r)
BY DEF Quiet, Begin, AskTips, AskChat, ReadSummary, SelectGrounding, Lookup, RefuseOverLimit,
       Consume, history

(* Adding or removing one slot changes a set of slots by one.              *)
LEMMA OneSlotMore ==
  ASSUME NEW before \in SUBSET Requests, NEW after \in SUBSET Requests,
         NEW r \in Requests, \A q \in Requests \ {r} : q \in after <=> q \in before
  PROVE  Cardinality(after) = Cardinality(before)
           + (IF r \in after THEN 1 ELSE 0) - (IF r \in before THEN 1 ELSE 0)
<1>1. Cardinality(before) \in Nat /\ IsFiniteSet(before) /\ IsFiniteSet(after)
  BY SlotsCount
<1>2. CASE r \in after /\ r \notin before
  <2>1. after = before \cup {r}
    BY <1>2
  <2> QED
    BY <1>1, <1>2, <2>1, FS_AddElement
<1>3. CASE r \notin after /\ r \in before
  <2>1. after = before \ {r}
    BY <1>3
  <2> QED
    BY <1>1, <1>3, <2>1, FS_RemoveElement
<1>4. CASE r \in after <=> r \in before
  <2>1. after = before
    BY <1>4
  <2> QED
    BY <1>1, <1>4, <2>1
<1> QED
  BY <1>2, <1>3, <1>4

LEMMA PendingChange ==
  ASSUME NEW r \in Requests, Alone(r), NEW s, NEW d
  PROVE  Cardinality(Pending(s, d)') = Cardinality(Pending(s, d))
           + (IF r \in Pending(s, d)' THEN 1 ELSE 0)
           - (IF r \in Pending(s, d) THEN 1 ELSE 0)
<1>1. Pending(s, d) \in SUBSET Requests /\ Pending(s, d)' \in SUBSET Requests
  BY DEF Pending
<1>2. \A q \in Requests \ {r} : q \in Pending(s, d)' <=> q \in Pending(s, d)
  BY DEF Pending, Alone
<1> QED
  BY <1>1, <1>2, OneSlotMore

-----------------------------------------------------------------------------
(* Every unit is explained.                                                *)
Explained(s, d) ==
  Count(s, d) = answered[s][d] + spoiled[s][d] + Cardinality(Pending(s, d)) - credited[s][d]

LEMMA ExplainedTypes ==
  ASSUME TypeInv, NEW s \in Subjects, NEW d \in Days
  PROVE  /\ usage[s][d] \in Nat \cup {NoRow} /\ Count(s, d) \in Nat
         /\ answered[s][d] \in Nat /\ spoiled[s][d] \in Nat /\ credited[s][d] \in Nat
         /\ Cardinality(Pending(s, d)) \in Nat
<1>1. usage[s][d] \in Nat \cup {NoRow}
  BY DEF TypeInv, TablesOK
<1>2. answered[s][d] \in Nat /\ spoiled[s][d] \in Nat /\ credited[s][d] \in Nat
  BY DEF TypeInv, TalliesOK, Tally
<1>3. Cardinality(Pending(s, d)) \in Nat
  BY SlotsCount DEF Pending
<1> QED
  BY <1>1, <1>2, <1>3 DEF Count

LEMMA ExplainedStep ==
  ASSUME TypeInv, CountIsExplained, [Next]_vars
  PROVE  CountIsExplained'
<1>1. SUFFICES ASSUME NEW s \in Subjects, NEW d \in Days PROVE Explained(s, d)'
  BY DEF CountIsExplained, Explained
<1>2. Explained(s, d) /\ today \in Days
  BY DEF CountIsExplained, Explained, TypeInv, TablesOK
<1>3. ASSUME NEW r \in Requests, Begin(r) \/ Proceed(r) \/ Fail(r)
      PROVE  Explained(s, d)'
  <2> DEFINE u == req[r].subject
             e == req[r].charged
             mine == r \in Pending(s, d)
  <2>1. Alone(r)
    BY <1>3, StepOfOne
  <2>2. SlotOK(req[r]) /\ SlotOK(req'[r]) /\ req \in [Requests -> Slot]
    BY <1>3, TypeInvStep DEF TypeInv, SlotsOK, Next
  <2>3. req[r].pc = "ask" => u \in Subjects /\ e \in Days
    BY <2>2 DEF SlotOK
  <2>4. mine <=> req[r].pc = "ask" /\ u = s /\ e = d
    BY DEF Pending
  <2>5. ~Consume(r) => Cardinality(Pending(s, d)') =
                         Cardinality(Pending(s, d)) - (IF mine THEN 1 ELSE 0)
    <3>1. ~Consume(r) => r \notin Pending(s, d)'
      BY <1>3, StepOfOne DEF Pending
    <3>2. Cardinality(Pending(s, d)) \in Nat
      BY ExplainedTypes
    <3> QED
      BY <2>1, <3>1, <3>2, PendingChange
  <2>6. CASE Quiet(r)
    BY <1>2, <2>4, <2>5, <2>6, QuietSteps, ExplainedTypes DEF Explained, Count
  <2>7. CASE Consume(r)
    <3>1. u \in Subjects
      BY <2>2, <2>7 DEF SlotOK, Consume
    <3>2. usage' = [usage EXCEPT ![u][today] = AfterConsume(u)]
      BY <2>7 DEF Consume
    <3>3. Count(s, d)' = Count(s, d) + (IF u = s /\ today = d THEN 1 ELSE 0)
      BY <1>2, <3>1, <3>2, ExplainedTypes DEF Count, AfterConsume, NoRow, TypeInv, TablesOK
    <3>4. req'[r].pc = "ask" /\ req'[r].subject = u /\ req'[r].charged = today
      BY <2>2, <2>7 DEF Consume, Slot
    <3>5. r \in Pending(s, d)' <=> u = s /\ today = d
      BY <3>4 DEF Pending
    <3>6. ~mine
      BY <2>4, <2>7 DEF Consume
    <3>7. UNCHANGED <<answered, spoiled, credited>>
      BY <2>7 DEF Consume, history
    <3>8. Cardinality(Pending(s, d)') = Cardinality(Pending(s, d))
                                          + (IF u = s /\ today = d THEN 1 ELSE 0)
      <4>1. Cardinality(Pending(s, d)) \in Nat
        BY ExplainedTypes
      <4> QED
        BY <2>1, <3>5, <3>6, <4>1, PendingChange
    <3> QED
      BY <1>2, <3>3, <3>7, <3>8, ExplainedTypes DEF Explained
  <2>8. CASE Answer(r)
    <3>1. answered' = Tick(answered, u, e) /\ u \in Subjects /\ e \in Days
      BY <2>3, <2>8 DEF Answer
    <3>2. answered'[s][d] = answered[s][d] + (IF mine THEN 1 ELSE 0)
      BY <2>4, <2>8, <3>1, TickType, ExplainedTypes, SMTT(30) DEF TypeInv, TalliesOK, Answer
    <3>3. UNCHANGED <<usage, spoiled, credited>> /\ ~Consume(r)
      BY <2>8 DEF Answer, Consume
    <3> QED
      BY <1>2, <2>5, <3>2, <3>3, ExplainedTypes DEF Explained, Count
  <2>9. CASE FallbackTips(r) \/ (Fail(r) /\ req[r].pc = "ask")
    <3>1. spoiled' = Tick(spoiled, u, e) /\ u \in Subjects /\ e \in Days
      BY <2>3, <2>9 DEF FallbackTips, Fail
    <3>a. req[r].pc = "ask"
      BY <2>9 DEF FallbackTips
    <3>2. spoiled'[s][d] = spoiled[s][d] + (IF mine THEN 1 ELSE 0)
      BY <2>4, <3>a, <3>1, TickType, ExplainedTypes, SMTT(30) DEF TypeInv, TalliesOK
    <3>3. UNCHANGED <<usage, answered, credited>> /\ ~Consume(r)
      BY <2>9 DEF FallbackTips, Fail, Consume
    <3> QED
      BY <1>2, <2>5, <3>2, <3>3, ExplainedTypes DEF Explained, Count
  <2>10. CASE Fail(r) /\ req[r].pc # "ask"
    <3>1. UNCHANGED <<usage, answered, spoiled, credited>>
      BY <2>10 DEF Fail
    <3>2. r \notin Pending(s, d)'
      BY <2>10, <2>2 DEF Fail, Close, Idle, Pending
    <3> QED
      BY <1>2, <2>1, <2>4, <2>10, <3>1, <3>2, PendingChange, ExplainedTypes
         DEF Explained, Count
  <2>11. CASE RefundChat(r)
    <3>1. u \in Subjects /\ e \in Days /\ req[r].pc = "ask" /\ ~Consume(r)
      BY <2>3, <2>11 DEF RefundChat, Consume
    <3>2. UNCHANGED answered
      BY <2>11 DEF RefundChat
    <3>3. CASE GivesBack(u)
      <4>1. usage' = [usage EXCEPT ![u][today] = @ - 1] /\ usage[u][today] > 0
        BY <2>11, <3>3 DEF RefundChat, GivesBack
      <4>2. Count(s, d)' = Count(s, d) - (IF u = s /\ today = d THEN 1 ELSE 0)
        BY <1>2, <3>1, <4>1, ExplainedTypes DEF Count, NoRow, TypeInv, TablesOK
      <4>3. CASE e = today
        <5>1. UNCHANGED <<spoiled, credited>>
          BY <2>11, <3>3, <4>3 DEF RefundChat
        <5> QED
          BY <1>2, <2>4, <2>5, <3>1, <3>2, <4>2, <4>3, <5>1, ExplainedTypes DEF Explained
      <4>4. CASE e # today
        <5>1. credited' = Tick(credited, u, today) /\ spoiled' = Tick(spoiled, u, e)
          BY <2>11, <3>3, <4>4 DEF RefundChat
        <5>2. credited'[s][d] = credited[s][d] + (IF u = s /\ today = d THEN 1 ELSE 0)
          <6>1. credited \in Tally /\ credited[s][d] \in Nat /\ today \in Days
                /\ s \in Subjects /\ u \in Subjects /\ d \in Days
            BY <1>2, <3>1, ExplainedTypes DEF TypeInv, TalliesOK
          <6>2. credited'[s][d] = IF s = u /\ d = today THEN credited[s][d] + 1
                                  ELSE credited[s][d]
            BY <5>1, <6>1, TickType
          <6> QED
            BY <6>1, <6>2
        <5>3. spoiled'[s][d] = spoiled[s][d] + (IF mine THEN 1 ELSE 0)
          BY <2>4, <3>1, <5>1, TickType, ExplainedTypes, SMTT(30) DEF TypeInv, TalliesOK
        <5> QED
          BY <1>2, <2>5, <3>1, <3>2, <4>2, <5>2, <5>3, ExplainedTypes DEF Explained
      <4> QED
        BY <4>3, <4>4
    <3>4. CASE ~GivesBack(u)
      <4>1. UNCHANGED <<usage, credited>> /\ spoiled' = Tick(spoiled, u, e)
        BY <2>11, <3>4 DEF RefundChat
      <4>2. spoiled'[s][d] = spoiled[s][d] + (IF mine THEN 1 ELSE 0)
        BY <2>4, <3>1, <4>1, TickType, ExplainedTypes, SMTT(30) DEF TypeInv, TalliesOK
      <4> QED
        BY <1>2, <2>5, <3>1, <3>2, <4>1, <4>2, ExplainedTypes DEF Explained, Count
    <3> QED
      BY <3>3, <3>4
  <2> QED
    BY <1>3, <2>6, <2>7, <2>8, <2>9, <2>10, <2>11 DEF Proceed, Quiet
<1>4. CASE Midnight \/ (\E u \in Users : TreasuryMoves(u)) \/ UNCHANGED vars
  <2>1. UNCHANGED <<usage, req, answered, spoiled, credited>>
    BY <1>4 DEF Midnight, TreasuryMoves, vars, history
  <2>2. Pending(s, d)' = Pending(s, d) /\ Count(s, d)' = Count(s, d)
    BY <2>1 DEF Pending, Count
  <2> QED
    BY <1>2, <2>1, <2>2 DEF Explained
<1> QED
  BY <1>3, <1>4 DEF Next

LEMMA ExplainedInit == Init => CountIsExplained
<1> SUFFICES ASSUME Init, NEW s \in Subjects, NEW d \in Days PROVE Explained(s, d)
  BY DEF CountIsExplained, Explained
<1>1. Pending(s, d) = {}
  BY DEF Init, Pending, Idle
<1>2. Cardinality(Pending(s, d)) = 0
  BY <1>1, FS_EmptySet
<1> QED
  BY <1>2 DEF Init, NoTally, Explained, Count, NoRow

(* The counter of any subject on any day equals the answers it bought, the *)
(* units lost to crashes, outages and guarded tips, and the calls still    *)
(* running, less what refunds of other days put back into it.              *)
THEOREM CountAlwaysExplained == Spec => []CountIsExplained
<1>1. Init => CountIsExplained
  BY ExplainedInit
<1>2. TypeInv /\ CountIsExplained /\ [Next]_vars => CountIsExplained'
  BY ExplainedStep
<1> QED
  BY <1>1, <1>2, TypeAlways, PTL DEF Spec

-----------------------------------------------------------------------------
(* How many answers a day sells.                                           *)

(* The calls of a subject that were charged on an earlier day: a refund of *)
(* one of them would credit today.                                         *)
Waiting(s) == {r \in Requests : /\ req[r].pc = "ask" /\ req[r].subject = s
                                /\ req[r].charged # today}

ChargedInv == \A r \in Requests : req[r].pc = "ask" => req[r].charged <= today

DayInv(s, d) ==
  /\ usage[s][d] <= Ceiling
  /\ d > today => usage[s][d] = NoRow
  /\ usage[s][d] = NoRow => credited[s][d] = 0
  /\ d < today => credited[s][d] <= Cardinality(Requests) - 1

(* A day's row is created by a slot that was free to do it, so fewer calls *)
(* than slots were running over midnight, and each credits the day once.   *)
CreditInv(s) ==
  usage[s][today] # NoRow =>
    credited[s][today] + Cardinality(Waiting(s)) <= Cardinality(Requests) - 1

QuotaInv == /\ ChargedInv
            /\ \A s \in Subjects, d \in Days : DayInv(s, d)
            /\ \A s \in Subjects : CreditInv(s)

LEMMA WaitingCount ==
  ASSUME NEW s
  PROVE  /\ IsFiniteSet(Waiting(s)) /\ Cardinality(Waiting(s)) \in Nat
         /\ Cardinality(Waiting(s)) <= Cardinality(Requests)
BY SlotsCount DEF Waiting

LEMMA WaitingCountNext ==
  ASSUME NEW s
  PROVE  Cardinality(Waiting(s)') \in Nat
BY SlotsCount DEF Waiting

(* While the day lasts, no step adds to the calls charged before it.       *)
LEMMA WaitingShrinks ==
  ASSUME TypeInv, NEW r \in Requests, Begin(r) \/ Proceed(r) \/ Fail(r), NEW s
  PROVE  /\ today' = today
         /\ Waiting(s)' \subseteq Waiting(s) \ {r}
         /\ Cardinality(Waiting(s)') <= Cardinality(Waiting(s))
         /\ Cardinality(Waiting(s)') <= Cardinality(Requests) - 1
         /\ r \in Waiting(s) => Cardinality(Waiting(s)') <= Cardinality(Waiting(s)) - 1
<1>1. today' = today
  BY DEF Begin, Proceed, AskChat, AskTips, ReadSummary, SelectGrounding, Lookup, Consume,
         RefuseOverLimit, Answer, RefundChat, FallbackTips, Fail
<1>2. r \notin Waiting(s)'
  <2>1. CASE Consume(r)
    <3>1. req'[r].charged = today
      BY <2>1 DEF Consume, TypeInv, SlotsOK, Slot
    <3> QED
      BY <1>1, <3>1 DEF Waiting
  <2>2. CASE ~Consume(r)
    BY <2>2, StepOfOne DEF Waiting
  <2> QED
    BY <2>1, <2>2
<1>3. Waiting(s)' \subseteq Waiting(s) \ {r}
  BY <1>1, <1>2, StepOfOne DEF Waiting, Alone
<1>4. Cardinality(Waiting(s)') <= Cardinality(Waiting(s))
  BY <1>3, WaitingCount, FS_Subset
<1>5. Cardinality(Waiting(s)') <= Cardinality(Requests) - 1
  <2>1. Waiting(s)' \in SUBSET (Requests \ {r})
    BY <1>3 DEF Waiting
  <2>2. /\ IsFiniteSet(Requests \ {r})
        /\ Cardinality(Requests \ {r}) = Cardinality(Requests) - 1
    BY RequestsCount, FS_RemoveElement
  <2> QED
    BY <2>1, <2>2, FS_Subset
<1>6. ASSUME r \in Waiting(s)
      PROVE  Cardinality(Waiting(s)') <= Cardinality(Waiting(s)) - 1
  <2>1. /\ IsFiniteSet(Waiting(s) \ {r})
        /\ Cardinality(Waiting(s) \ {r}) = Cardinality(Waiting(s)) - 1
    BY <1>6, WaitingCount, FS_RemoveElement
  <2> QED
    BY <1>3, <2>1, FS_Subset
<1> QED
  BY <1>1, <1>3, <1>4, <1>5, <1>6

LEMMA QuotaTypes ==
  ASSUME TypeInv, NEW s \in Subjects, NEW d \in Days
  PROVE  /\ usage[s][d] \in Nat \cup {NoRow} /\ credited[s][d] \in Nat
         /\ Ceiling \in Nat \ {0} /\ Limit <= Ceiling
         /\ today \in Days /\ d \in Nat
BY ExplainedTypes, QueenAssumption DEF Ceiling, TypeInv, TablesOK, Days

LEMMA ChargedStep ==
  ASSUME TypeInv, ChargedInv, [Next]_vars
  PROVE  ChargedInv'
<1>1. \A r \in Requests : req[r].pc = "ask" => req[r].charged \in Days /\ today \in Days
  BY DEF TypeInv, SlotsOK, SlotOK, TablesOK
<1>2. ASSUME NEW r \in Requests, Begin(r) \/ Proceed(r) \/ Fail(r)
      PROVE  ChargedInv'
  <2>1. today' = today /\ Alone(r)
    BY <1>2, StepOfOne, WaitingShrinks
  <2>2. req'[r].pc = "ask" => req'[r].charged = today
    <3>1. CASE Consume(r)
      BY <3>1 DEF Consume, TypeInv, SlotsOK, Slot
    <3> QED
      BY <1>2, <3>1, StepOfOne
  <2> QED
    BY <2>1, <2>2 DEF ChargedInv, Alone, Days, TypeInv, TablesOK
<1>3. CASE Midnight
  BY <1>1, <1>3 DEF ChargedInv, Midnight, Days
<1>4. CASE (\E u \in Users : TreasuryMoves(u)) \/ UNCHANGED vars
  BY <1>4 DEF ChargedInv, TreasuryMoves, vars
<1> QED
  BY <1>2, <1>3, <1>4 DEF Next

LEMMA QuotaStep ==
  ASSUME TypeInv, QuotaInv, [Next]_vars
  PROVE  QuotaInv'
<1>a. Cardinality(Requests) \in Nat \ {0} /\ today \in Days
  BY RequestsCount DEF TypeInv, TablesOK
<1>b. \A s \in Subjects : CreditInv(s)
  BY DEF QuotaInv
<1>c. \A s \in Subjects, d \in Days : DayInv(s, d)
  BY DEF QuotaInv
<1>1. ASSUME NEW r \in Requests, Begin(r) \/ Proceed(r) \/ Fail(r),
             NEW s \in Subjects
      PROVE  (\A d \in Days : DayInv(s, d)') /\ CreditInv(s)'
  <2> DEFINE u == req[r].subject
             e == req[r].charged
  <2>1. today' = today
    BY <1>1, WaitingShrinks
  <2>2. SlotOK(req[r])
    BY DEF TypeInv, SlotsOK
  <2>3. CASE UNCHANGED <<usage, credited>>
    <3>1. \A d \in Days : DayInv(s, d)'
      BY <1>c, <2>1, <2>3 DEF DayInv
    <3>2. Cardinality(Waiting(s)') <= Cardinality(Waiting(s))
      BY <1>1, WaitingShrinks
    <3>3. CreditInv(s)'
      BY <1>a, <1>b, <2>1, <2>3, <3>2, WaitingCount, WaitingCountNext, QuotaTypes DEF CreditInv
    <3> QED
      BY <3>1, <3>3
  <2>4. CASE Consume(r)
    <3>1. /\ u \in Subjects /\ MayConsume(u) /\ credited' = credited
          /\ usage' = [usage EXCEPT ![u][today] = AfterConsume(u)]
      BY <2>2, <2>4 DEF SlotOK, Consume, history
    <3>2. ASSUME NEW d \in Days
          PROVE  usage'[s][d] = IF s = u /\ d = today THEN AfterConsume(u) ELSE usage[s][d]
      BY <1>a, <3>1 DEF TypeInv, TablesOK
    <3>3. AfterConsume(u) \in Nat /\ AfterConsume(u) <= Ceiling
      <4>1. /\ usage[u][today] \in Nat \cup {NoRow} /\ Limit \in Nat
            /\ Ceiling \in Nat \ {0} /\ Limit <= Ceiling
        BY <1>a, <3>1, QuotaTypes, QueenAssumption
      <4> QED
        BY <3>1, <4>1 DEF AfterConsume, MayConsume, NoRow
    <3>4. ASSUME NEW d \in Days PROVE DayInv(s, d)'
      BY <1>a, <1>c, <2>1, <3>1, <3>2, <3>3, QuotaTypes DEF DayInv, NoRow, Ceiling, Days
    <3>5. CreditInv(s)'
      <4>1. /\ Cardinality(Waiting(s)') <= Cardinality(Waiting(s))
            /\ Cardinality(Waiting(s)') <= Cardinality(Requests) - 1
        BY <1>1, WaitingShrinks
      <4>2. CASE usage[s][today] # NoRow
        BY <1>a, <1>b, <2>1, <3>1, <4>1, <4>2, WaitingCount, WaitingCountNext, QuotaTypes
           DEF CreditInv
      <4>3. CASE usage[s][today] = NoRow
        <5>1. credited[s][today] = 0
          BY <1>a, <1>c, <4>3 DEF DayInv
        <5> QED
          BY <1>a, <2>1, <3>1, <4>1, <5>1, WaitingCountNext DEF CreditInv
      <4> QED
        BY <4>2, <4>3
    <3> QED
      BY <3>4, <3>5
  <2>5. CASE RefundChat(r) /\ GivesBack(u)
    <3>1. /\ u \in Subjects /\ e \in Days /\ req[r].pc = "ask"
          /\ usage' = [usage EXCEPT ![u][today] = @ - 1]
          /\ credited' = IF e # today THEN Tick(credited, u, today) ELSE credited
      BY <2>2, <2>5 DEF SlotOK, RefundChat
    <3>2. ASSUME NEW d \in Days
          PROVE  usage'[s][d] = IF s = u /\ d = today THEN usage[u][today] - 1 ELSE usage[s][d]
      BY <1>a, <3>1 DEF TypeInv, TablesOK
    <3>3. ASSUME NEW d \in Days
          PROVE  credited'[s][d] = credited[s][d]
                                     + (IF s = u /\ d = today /\ e # today THEN 1 ELSE 0)
      <4>1. credited \in Tally /\ credited[s][d] \in Nat /\ today \in Days
        BY <1>a, QuotaTypes DEF TypeInv, TalliesOK
      <4>a. s \in Subjects /\ u \in Subjects
        BY <1>a, <3>1
      <4>2. CASE e # today
        <5>1. Tick(credited, u, today)[s][d] =
                IF s = u /\ d = today THEN credited[s][d] + 1 ELSE credited[s][d]
          BY <4>1, <4>a, TickType
        <5> QED
          BY <3>1, <4>1, <4>2, <5>1
      <4>3. CASE e = today
        BY <3>1, <4>1, <4>3
      <4> QED
        BY <4>2, <4>3
    <3>4. usage[u][today] > 0
      BY <2>5 DEF GivesBack
    <3>5. ASSUME NEW d \in Days PROVE DayInv(s, d)'
      BY <1>a, <1>c, <2>1, <3>1, <3>2, <3>3, <3>4, QuotaTypes DEF DayInv, NoRow, Ceiling, Days
    <3>6. CreditInv(s)'
      <4>1. Cardinality(Waiting(s)') <= Cardinality(Waiting(s))
        BY <1>1, WaitingShrinks
      <4>2. s = u /\ e # today => Cardinality(Waiting(s)') <= Cardinality(Waiting(s)) - 1
        BY <1>1, <3>1, WaitingShrinks DEF Waiting
      <4>3. usage[s][today] = NoRow => usage'[s][today] = NoRow
        BY <1>a, <3>2, <3>4 DEF NoRow
      <4> QED
        BY <1>a, <1>b, <2>1, <3>3, <4>1, <4>2, <4>3, WaitingCount, WaitingCountNext, QuotaTypes
           DEF CreditInv
    <3> QED
      BY <3>5, <3>6
  <2>6. \/ UNCHANGED <<usage, credited>> \/ Consume(r) \/ (RefundChat(r) /\ GivesBack(u))
    <3>1. Quiet(r) => UNCHANGED <<usage, credited>>
      BY QuietSteps
    <3>2. Answer(r) \/ FallbackTips(r) \/ Fail(r) => UNCHANGED <<usage, credited>>
      BY DEF Answer, FallbackTips, Fail
    <3>3. RefundChat(r) /\ ~GivesBack(u) => UNCHANGED <<usage, credited>>
      BY DEF RefundChat
    <3> QED
      BY <1>1, <3>1, <3>2, <3>3 DEF Proceed, Quiet
  <2> QED
    BY <2>3, <2>4, <2>5, <2>6
<1>2. ASSUME Midnight, NEW s \in Subjects
      PROVE  (\A d \in Days : DayInv(s, d)') /\ CreditInv(s)'
  <2>1. UNCHANGED <<usage, credited>> /\ today' = today + 1 /\ today' \in Days
    BY <1>2, <1>a, QueenAssumption DEF Midnight, history, Days
  <2>2. credited[s][today] <= Cardinality(Requests) - 1
    BY <1>a, <1>b, <1>c, WaitingCount, QuotaTypes DEF DayInv, CreditInv
  <2>3. ASSUME NEW d \in Days PROVE DayInv(s, d)'
    BY <1>a, <1>c, <2>1, <2>2, QuotaTypes DEF DayInv, Ceiling, Days
  <2>4. usage'[s][today'] = NoRow
    BY <1>a, <1>c, <2>1 DEF DayInv, Days
  <2> QED
    BY <2>3, <2>4 DEF CreditInv
<1>3. ASSUME (\E u \in Users : TreasuryMoves(u)) \/ UNCHANGED vars, NEW s \in Subjects
      PROVE  (\A d \in Days : DayInv(s, d)') /\ CreditInv(s)'
  <2>1. UNCHANGED <<usage, credited, today, req>>
    BY <1>3 DEF TreasuryMoves, vars, history
  <2>2. Waiting(s)' = Waiting(s)
    BY <2>1 DEF Waiting
  <2> QED
    BY <1>b, <1>c, <2>1, <2>2 DEF DayInv, CreditInv
<1>4. ChargedInv'
  BY ChargedStep DEF QuotaInv
<1> QED
  BY <1>1, <1>2, <1>3, <1>4 DEF Next, QuotaInv

LEMMA QuotaInit == Init => QuotaInv
<1> SUFFICES ASSUME Init PROVE QuotaInv
  OBVIOUS
<1>1. ChargedInv
  BY DEF Init, Idle, ChargedInv
<1>2. Ceiling \in Nat /\ Cardinality(Requests) \in Nat \ {0} /\ today \in Days
  BY QueenAssumption, RequestsCount DEF Ceiling, Init, Days
<1>3. ASSUME NEW s \in Subjects, NEW d \in Days PROVE DayInv(s, d)
  BY <1>2 DEF Init, NoTally, NoRow, DayInv
<1>4. ASSUME NEW s \in Subjects PROVE CreditInv(s)
  BY <1>2 DEF Init, CreditInv
<1> QED
  BY <1>1, <1>3, <1>4 DEF QuotaInv

LEMMA QuotaAlways == Spec => []QuotaInv
<1>1. Init => QuotaInv
  BY QuotaInit
<1>2. TypeInv /\ QuotaInv /\ [Next]_vars => QuotaInv'
  BY QuotaStep
<1> QED
  BY <1>1, <1>2, TypeAlways, PTL DEF Spec

(* A day sells at most one answer more than the limit per other worker     *)
(* slot, for any limit, any number of slots and any number of days.        *)
THEOREM AnswersAlwaysBounded == Spec => []AnswersAreBounded
<1>1. TypeInv /\ CountIsExplained /\ QuotaInv => AnswersAreBounded
  <2> SUFFICES ASSUME TypeInv, CountIsExplained, QuotaInv,
                      NEW s \in Subjects, NEW d \in Days
               PROVE  answered[s][d] + Cardinality(Pending(s, d))
                        <= Ceiling + Cardinality(Requests) - 1
    BY DEF AnswersAreBounded
  <2>1. DayInv(s, d) /\ CreditInv(s) /\ Explained(s, d)
    BY DEF QuotaInv, CountIsExplained, Explained
  <2>2. credited[s][d] <= Cardinality(Requests) - 1
    <3>1. CASE d = today
      BY <2>1, <3>1, RequestsCount, WaitingCount, QuotaTypes DEF DayInv, CreditInv
    <3>2. CASE d # today
      BY <2>1, <3>2, RequestsCount, QuotaTypes DEF DayInv, Days
    <3> QED
      BY <3>1, <3>2
  <2>3. Count(s, d) <= Ceiling
    BY <2>1, QuotaTypes DEF Count, DayInv
  <2> QED
    BY <2>1, <2>2, <2>3, RequestsCount, ExplainedTypes, QuotaTypes DEF Explained
<1> QED
  BY <1>1, TypeAlways, CountAlwaysExplained, QuotaAlways, PTL

-----------------------------------------------------------------------------
(* The counter implements Allowance.                                       *)

LEMMA SpentUnchanged ==
  ASSUME UNCHANGED <<usage, today>>
  PROVE  UNCHANGED Promise!vars
BY DEF Promise!vars, Spent, Count

(* Changing one day of one subject changes one entry of the abstraction.   *)
LEMMA SpentChange ==
  ASSUME TypeInv, NEW u \in Subjects, NEW n \in Nat,
         usage' = [usage EXCEPT ![u][today] = n]
  PROVE  Spent' = [Spent EXCEPT ![u][today] = n]
<1>1. today \in Days /\ n # NoRow
  BY DEF TypeInv, TablesOK, NoRow
<1>2. ASSUME NEW s \in Subjects, NEW d \in Days
      PROVE  Count(s, d)' = IF s = u /\ d = today THEN n ELSE Count(s, d)
  <2>1. usage'[s][d] = IF s = u /\ d = today THEN n ELSE usage[s][d]
    BY <1>1 DEF TypeInv, TablesOK
  <2> QED
    BY <1>1, <2>1 DEF Count
<1>3. Spent' = [s \in Subjects |-> [d \in Days |-> Count(s, d)']]
  BY DEF Spent
<1>4. Spent = [s \in Subjects |-> [d \in Days |-> Count(s, d)]]
  BY DEF Spent
<1>5. [Spent EXCEPT ![u][today] = n]
        = [s \in Subjects |-> [d \in Days |->
             IF s = u /\ d = today THEN n ELSE Count(s, d)]]
  BY <1>1, <1>4
<1> QED
  BY <1>2, <1>3, <1>5

LEMMA PromiseStep ==
  ASSUME Limit # 0, TypeInv, [Next]_vars
  PROVE  [Promise!Next]_(Promise!vars)
<1>a. Limit \in Nat /\ today \in Days
  BY QueenAssumption DEF TypeInv, TablesOK
<1>b. \A s \in Subjects : Spent[s][today] = Count(s, today)
  BY <1>a DEF Spent
<1>1. ASSUME NEW r \in Requests, Consume(r) PROVE Promise!Next
  <2> DEFINE u == req[r].subject
  <2>1. /\ u \in Subjects /\ MayConsume(u) /\ today' = today
        /\ usage' = [usage EXCEPT ![u][today] = AfterConsume(u)]
    BY <1>1 DEF TypeInv, SlotsOK, SlotOK, Consume
  <2>2. /\ Count(u, today) < Limit
        /\ AfterConsume(u) = Count(u, today) + 1 /\ AfterConsume(u) \in Nat
    <3>1. usage[u][today] \in Nat \cup {NoRow}
      BY <1>a, <2>1, ExplainedTypes
    <3> QED
      BY <1>a, <2>1, <3>1 DEF Count, MayConsume, AfterConsume, NoRow
  <2>3. Spent' = [Spent EXCEPT ![u][today] = AfterConsume(u)]
    BY <2>1, <2>2, SpentChange
  <2>4. Promise!Spend(u)
    BY <1>b, <2>1, <2>2, <2>3 DEF Promise!Spend
  <2> QED
    BY <2>1, <2>4 DEF Promise!Next
<1>2. ASSUME NEW r \in Requests, RefundChat(r), GivesBack(req[r].subject)
      PROVE  Promise!Next
  <2> DEFINE u == req[r].subject
             n == usage[u][today] - 1
  <2>1. /\ u \in Subjects /\ usage[u][today] > 0 /\ today' = today
    BY <1>2 DEF TypeInv, SlotsOK, SlotOK, RefundChat, GivesBack
  <2>2. n \in Nat /\ Count(u, today) = n + 1
    <3>1. usage[u][today] \in Nat \cup {NoRow}
      BY <1>a, <2>1, ExplainedTypes
    <3> QED
      BY <2>1, <3>1 DEF Count, NoRow
  <2>3. usage' = [usage EXCEPT ![u][today] = n]
    BY <1>2, <1>a, <2>1 DEF RefundChat, TypeInv, TablesOK
  <2>4. Spent' = [Spent EXCEPT ![u][today] = n]
    BY <2>1, <2>2, <2>3, SpentChange
  <2>5. Spent[u][today] > 0 /\ Spent[u][today] - 1 = n
    <3> HIDE DEF n
    <3> QED
      BY <1>b, <2>1, <2>2
  <2>6. Promise!GiveBack(u)
    <3> HIDE DEF n
    <3> QED
      BY <2>1, <2>4, <2>5 DEF Promise!GiveBack
  <2> QED
    BY <2>1, <2>6 DEF Promise!Next
<1>3. CASE Midnight
  BY <1>3 DEF Midnight, Promise!Next, Promise!Midnight, Spent, Count
<1>4. CASE UNCHANGED <<usage, today>>
  BY <1>4, SpentUnchanged
<1>5. ASSUME NEW r \in Requests, Begin(r) \/ Proceed(r) \/ Fail(r)
      PROVE  \/ UNCHANGED <<usage, today>> \/ Consume(r)
             \/ (RefundChat(r) /\ GivesBack(req[r].subject))
  <2>1. Quiet(r) => UNCHANGED <<usage, today>>
    BY QuietSteps
  <2>2. Answer(r) \/ FallbackTips(r) \/ Fail(r) => UNCHANGED <<usage, today>>
    BY DEF Answer, FallbackTips, Fail
  <2>3. RefundChat(r) /\ ~GivesBack(req[r].subject) => UNCHANGED <<usage, today>>
    BY DEF RefundChat
  <2> QED
    BY <1>5, <2>1, <2>2, <2>3 DEF Proceed, Quiet
<1>6. (\E u \in Users : TreasuryMoves(u)) \/ UNCHANGED vars => UNCHANGED <<usage, today>>
  BY DEF TreasuryMoves, vars
<1> QED
  BY <1>1, <1>2, <1>3, <1>4, <1>5, <1>6 DEF Next

LEMMA PromiseInit == Init => Promise!Init
BY DEF Init, Promise!Init, Spent, Count, NoRow, Promise!Days, Days

(* For a limit of at least one, whatever the handlers, crashes, refunds    *)
(* and midnights do, the shared table behaves like one counter per subject *)
(* and day that spends below the limit and never changes a past day.       *)
THEOREM PromiseIsKept == ASSUME Limit # 0 PROVE Spec => KeepsThePromise
<1>1. Init => Promise!Init
  BY PromiseInit
<1>2. TypeInv /\ [Next]_vars => [Promise!Next]_(Promise!vars)
  BY PromiseStep
<1> QED
  BY <1>1, <1>2, TypeAlways, PTL DEF Spec, KeepsThePromise, Promise!Spec
-----------------------------------------------------------------------------
(* The cache.                                                              *)

LEMMA OutagesStep ==
  ASSUME TypeInv, OutagesAreNotCached, [Next]_vars
  PROVE  OutagesAreNotCached'
<1>1. CASE cache' = cache
  BY <1>1 DEF OutagesAreNotCached
<1>2. ASSUME NEW r \in Requests, Answer(r) PROVE OutagesAreNotCached'
  <2> DEFINE row == AnswerRow(r)
  <2>1. row.answer # "legacy" /\ (AIEnabled => row.answer # "fallback")
    BY DEF AnswerRow
  <2>2. cache \in Seq(CacheRow)
    BY DEF TypeInv, TablesOK
  <2>3. cache' = Append(cache, row) \/ cache' = [cache EXCEPT ![req[r].row] = row]
    BY <1>2 DEF Answer, StoreAnswer
  <2> HIDE DEF row
  <2>4. \A k \in DOMAIN cache' : cache'[k] = row \/ (k \in DOMAIN cache /\ cache'[k] = cache[k])
    BY <2>2, <2>3
  <2> QED
    BY <2>1, <2>4 DEF OutagesAreNotCached
<1> QED
  BY <1>1, <1>2 DEF Next, Begin, AskTips, AskChat, Proceed, ReadSummary, SelectGrounding,
    Lookup, Consume, RefuseOverLimit, RefundChat, FallbackTips, Fail, TreasuryMoves,
    Midnight, vars

(* With a key configured no fixed text ever gets into the cache, and rows  *)
(* of the old format are those the release before left.                    *)
THEOREM OutagesNeverCached == Spec => []OutagesAreNotCached
<1>1. Init => OutagesAreNotCached
  <2> SUFFICES ASSUME Init PROVE OutagesAreNotCached
    OBVIOUS
  <2>1. CASE LegacyRows
    BY <2>1 DEF Init, Legacy, OutagesAreNotCached
  <2>2. CASE ~LegacyRows
    BY <2>2 DEF Init, OutagesAreNotCached
  <2> QED
    BY <2>1, <2>2
<1> QED
  BY <1>1, TypeAlways, OutagesStep, PTL DEF Spec

(* Copies of one answer, and the slots that have missed it and will add    *)
(* one: together never more than there are slots.                          *)
Wanted == Users \X Key \X Days
Copies(w) == {j \in DOMAIN cache : <<cache[j].user, cache[j].key, cache[j].day>> = w}
WantOf(r) == <<UserFor(r), KeyOf(r), req[r].day>>
Paying(r) == req[r].pc \in {"consume", "ask"}
Missed(w) == {r \in Requests : Paying(r) /\ req[r].row = 0 /\ WantOf(r) = w}

CopyInv ==
  /\ \A r \in Requests : req[r].pc \in {"summary", "select", "lookup"} => req[r].row = 0
  /\ \A r \in Requests : Paying(r) /\ req[r].row # 0 => req[r].row \in Copies(WantOf(r))
  /\ \A w \in Wanted :
       Cardinality(Copies(w)) + Cardinality(Missed(w)) <= Cardinality(Requests)

LEMMA CopiesCount ==
  ASSUME TypeInv, NEW w
  PROVE  /\ IsFiniteSet(Copies(w)) /\ Cardinality(Copies(w)) \in Nat
         /\ IsFiniteSet(Missed(w)) /\ Cardinality(Missed(w)) \in Nat
         /\ Cardinality(Missed(w)) <= Cardinality(Requests)
<1>1. DOMAIN cache = 1..Len(cache) /\ Len(cache) \in Nat
  BY DEF TypeInv, TablesOK
<1>2. IsFiniteSet(1..Len(cache))
  BY <1>1, FS_Interval
<1>3. Copies(w) \in SUBSET (1..Len(cache)) /\ Missed(w) \in SUBSET Requests
  BY <1>1 DEF Copies, Missed
<1> QED
  BY <1>2, <1>3, FS_Subset, FS_CardinalityType, SlotsCount

(* Counts that only fall keep the bound.                                   *)
LEMMA FewerCopies ==
  ASSUME TypeInv, TypeInv', NEW w,
         Cardinality(Copies(w)) + Cardinality(Missed(w)) <= Cardinality(Requests),
         Copies(w)' = Copies(w), Missed(w)' \subseteq Missed(w)
  PROVE  Cardinality(Copies(w)') + Cardinality(Missed(w)') <= Cardinality(Requests)
<1>1. Cardinality(Missed(w)') <= Cardinality(Missed(w)) /\ Cardinality(Missed(w)') \in Nat
  BY CopiesCount, FS_Subset, FS_CardinalityType
<1> QED
  BY <1>1, CopiesCount, RequestsCount

(* A step of one slot that leaves the cache alone and the slot not paying, *)
(* or paying as before.                                                    *)
LEMMA CopyFrame ==
  ASSUME TypeInv, TypeInv', CopyInv, NEW r \in Requests, Alone(r), cache' = cache,
         req'[r].pc \in {"summary", "select", "lookup"} => req'[r].row = 0,
         Paying(r)' => /\ Paying(r) /\ req'[r].row = req[r].row /\ WantOf(r)' = WantOf(r)
  PROVE  CopyInv'
<1>1. \A w : Copies(w)' = Copies(w)
  BY DEF Copies
<1>2. \A q \in Requests \ {r} : req'[q] = req[q] /\ WantOf(q)' = WantOf(q)
  BY DEF Alone, WantOf, UserFor, KeyOf
<1>3. \A w : Missed(w)' \subseteq Missed(w)
  BY <1>2 DEF Missed, Paying
<1>4. \A w \in Wanted :
        Cardinality(Copies(w)') + Cardinality(Missed(w)') <= Cardinality(Requests)
  BY <1>1, <1>3, FewerCopies DEF CopyInv
<1> QED
  BY <1>1, <1>2, <1>4 DEF CopyInv, Paying

(* A miss goes on to pay only while there is no copy at all.               *)
LEMMA CopyLookup ==
  ASSUME TypeInv, TypeInv', CopyInv, NEW r \in Requests, Alone(r), Lookup(r)
  PROVE  CopyInv'
<1>1. /\ req \in [Requests -> Slot] /\ req[r].pc = "lookup" /\ req[r].row = 0
      /\ cache' = cache
  BY DEF TypeInv, SlotsOK, CopyInv, Lookup
<1>2. Hits(r) = Copies(WantOf(r))
  BY DEF Hits, Copies, WantOf
<1>3. \A w : Copies(w)' = Copies(w)
  BY <1>1 DEF Copies
<1>4. \A q \in Requests \ {r} : req'[q] = req[q] /\ WantOf(q)' = WantOf(q)
  BY DEF Alone, WantOf, UserFor, KeyOf
<1>5. CASE Hits(r) = {} /\ req' = [req EXCEPT ![r].pc = "consume"]
  <2>1. req'[r].row = 0 /\ WantOf(r)' = WantOf(r) /\ req'[r].pc = "consume"
    BY <1>1, <1>5 DEF WantOf, UserFor, KeyOf, Slot
  <2>2. ASSUME NEW w \in Wanted
        PROVE  Cardinality(Copies(w)') + Cardinality(Missed(w)') <= Cardinality(Requests)
    <3>1. CASE w = WantOf(r)
      <4>1. Cardinality(Copies(w)') = 0
        BY <1>2, <1>3, <1>5, <3>1, FS_EmptySet
      <4>2. Cardinality(Missed(w)') \in Nat /\ Cardinality(Missed(w)') <= Cardinality(Requests)
        <5>1. Missed(w)' \in SUBSET Requests
          BY DEF Missed
        <5> QED
          BY <5>1, SlotsCount
      <4> QED
        BY <4>1, <4>2, RequestsCount
    <3>2. CASE w # WantOf(r)
      <4>1. Missed(w)' \subseteq Missed(w)
        BY <1>4, <2>1, <3>2 DEF Missed, Paying
      <4> QED
        BY <1>3, <4>1, FewerCopies DEF CopyInv
    <3> QED
      BY <3>1, <3>2
  <2> QED
    BY <1>3, <1>4, <2>1, <2>2 DEF CopyInv, Paying
<1>6. CASE /\ Hits(r) # {}
           /\ req' = [req EXCEPT ![r].pc = "consume", ![r].row = Newest(Hits(r))]
  <2>1. cache \in Seq(CacheRow) /\ Hits(r) \subseteq DOMAIN cache
    BY DEF TypeInv, TablesOK, Hits
  <2>2. Newest(Hits(r)) \in Hits(r)
    BY <1>6, <2>1, NewestIsOne
  <2>3. Newest(Hits(r)) # 0
    BY <2>1, <2>2
  <2>4. /\ req'[r].row = Newest(Hits(r)) /\ WantOf(r)' = WantOf(r)
        /\ req'[r].pc = "consume"
    BY <1>1, <1>6 DEF WantOf, UserFor, KeyOf, Slot
  <2>5. \A w : Missed(w)' \subseteq Missed(w)
    BY <1>4, <2>3, <2>4 DEF Missed, Paying
  <2>6. \A w \in Wanted :
          Cardinality(Copies(w)') + Cardinality(Missed(w)') <= Cardinality(Requests)
    BY <1>3, <2>5, FewerCopies DEF CopyInv
  <2>7. \A q \in Requests : req'[q].pc \in {"summary", "select", "lookup"} => req'[q].row = 0
    BY <1>4, <2>4 DEF CopyInv
  <2>8. \A q \in Requests : (Paying(q) /\ req[q].row # 0 => req[q].row \in Copies(WantOf(q)))'
    BY <1>2, <1>3, <1>4, <2>2, <2>4 DEF CopyInv, Paying
  <2> QED
    BY <2>6, <2>7, <2>8 DEF CopyInv
<1>7. CASE Close(r)
  BY <1>1, <1>7, CopyFrame DEF Close, Idle, Paying
<1> QED
  BY <1>5, <1>6, <1>7 DEF Lookup

(* A stored answer takes its slot's place; one that replaces a legacy row  *)
(* has that row's account, key and day.                                    *)
LEMMA CopyAnswer ==
  ASSUME TypeInv, TypeInv', CopyInv, NEW r \in Requests, Alone(r), Answer(r)
  PROVE  CopyInv'
<1> DEFINE row == AnswerRow(r)
<1>1. req \in [Requests -> Slot] /\ req[r].pc = "ask" /\ req' = [req EXCEPT ![r] = Idle]
  BY DEF TypeInv, SlotsOK, Answer, Close
<1>2. <<row.user, row.key, row.day>> = WantOf(r)
  BY DEF AnswerRow, WantOf
<1>3. cache \in Seq(CacheRow) /\ DOMAIN cache = 1..Len(cache) /\ Len(cache) \in Nat
  BY DEF TypeInv, TablesOK
<1>4. /\ \A q \in Requests \ {r} : req'[q] = req[q] /\ WantOf(q)' = WantOf(q)
      /\ req'[r].pc = "idle"
  BY <1>1 DEF WantOf, UserFor, KeyOf, Idle
<1>5. \A w : Missed(w)' = Missed(w) \ {r}
  BY <1>4 DEF Missed, Paying
<1> HIDE DEF row
<1>6. CASE req[r].row = 0
  <2>1. cache' = Append(cache, row)
    BY <1>6 DEF Answer, StoreAnswer, row
  <2>2. DOMAIN cache' = 1..Len(cache) + 1 /\ cache'[Len(cache) + 1] = row
        /\ \A k \in DOMAIN cache : cache'[k] = cache[k]
    BY <1>3, <2>1
  <2>3. \A w : Copies(w)' = IF w = WantOf(r) THEN Copies(w) \cup {Len(cache) + 1}
                            ELSE Copies(w)
    <3> DEFINE last == Len(cache) + 1
    <3>1. DOMAIN cache' = DOMAIN cache \cup {last}
      BY <1>3, <2>2
    <3>2. cache'[last] = row /\ last \notin DOMAIN cache
      BY <1>3, <2>2
    <3> HIDE DEF last
    <3>3. \A w : Copies(w)' = IF w = WantOf(r) THEN Copies(w) \cup {last} ELSE Copies(w)
      BY <1>2, <2>2, <3>1, <3>2 DEF Copies
    <3> QED
      BY <3>3 DEF last
  <2>4. ASSUME NEW w \in Wanted
        PROVE  Cardinality(Copies(w)') + Cardinality(Missed(w)') <= Cardinality(Requests)
    <3>1. CASE w = WantOf(r)
      <4>1. r \in Missed(w)
        BY <1>1, <1>6, <3>1 DEF Missed, Paying
      <4>2. Cardinality(Missed(w)') = Cardinality(Missed(w)) - 1
        BY <1>5, <4>1, CopiesCount, FS_RemoveElement
      <4>3. Len(cache) + 1 \notin Copies(w)
        BY <1>3 DEF Copies
      <4>4. Cardinality(Copies(w)') = Cardinality(Copies(w)) + 1
        BY <2>3, <3>1, <4>3, CopiesCount, FS_AddElement
      <4> QED
        BY <4>2, <4>4, CopiesCount, RequestsCount DEF CopyInv
    <3>2. CASE w # WantOf(r)
      <4>1. Copies(w)' = Copies(w) /\ Missed(w)' \subseteq Missed(w)
        BY <1>5, <2>3, <3>2
      <4> QED
        BY <4>1, FewerCopies DEF CopyInv
    <3> QED
      BY <3>1, <3>2
  <2>5. \A q \in Requests : (Paying(q) /\ req[q].row # 0 => req[q].row \in Copies(WantOf(q)))'
    BY <1>4, <2>3 DEF CopyInv, Paying
  <2>6. \A q \in Requests : req'[q].pc \in {"summary", "select", "lookup"} => req'[q].row = 0
    BY <1>4 DEF CopyInv
  <2> QED
    BY <2>4, <2>5, <2>6 DEF CopyInv
<1>7. CASE req[r].row # 0
  <2>1. req[r].row \in Copies(WantOf(r))
    BY <1>1, <1>7 DEF CopyInv, Paying
  <2>2. cache' = [cache EXCEPT ![req[r].row] = row]
    BY <1>7 DEF Answer, StoreAnswer, row
  <2>3. \A w : Copies(w)' = Copies(w)
    BY <1>2, <2>1, <2>2 DEF Copies
  <2>4. \A w \in Wanted :
          Cardinality(Copies(w)') + Cardinality(Missed(w)') <= Cardinality(Requests)
    BY <1>5, <2>3, FewerCopies DEF CopyInv
  <2> QED
    BY <1>4, <2>3, <2>4 DEF CopyInv, Paying
<1> QED
  BY <1>6, <1>7

LEMMA CopyStep ==
  ASSUME TypeInv, CopyInv, [Next]_vars
  PROVE  CopyInv'
<1>1. TypeInv'
  BY TypeInvStep
<1>2. CASE UNCHANGED <<req, cache>>
  BY <1>2 DEF CopyInv, Copies, Missed, Paying, WantOf, UserFor, KeyOf
<1>3. ASSUME NEW r \in Requests, Begin(r) \/ Proceed(r) \/ Fail(r) PROVE CopyInv'
  <2>1. Alone(r) /\ req \in [Requests -> Slot]
    BY <1>3, StepOfOne DEF TypeInv, SlotsOK
  <2>2. CASE Begin(r)
    <3>0. ASSUME NEW s \in Subjects, NEW l \in Locales, NEW q,
                 AskTips(r, s, l) \/ AskChat(r, s, q, l)
          PROVE  cache' = cache /\ req'[r].pc \in {"summary", "select"} /\ req'[r].row = 0
      <4>1. CASE AskTips(r, s, l)
        BY <2>1, <4>1 DEF AskTips, Idle
      <4>2. CASE AskChat(r, s, q, l)
        BY <2>1, <4>2 DEF AskChat, Idle
      <4> QED
        BY <3>0, <4>1, <4>2
    <3>1. cache' = cache /\ req'[r].pc \in {"summary", "select"} /\ req'[r].row = 0
      BY <2>2, <3>0 DEF Begin
    <3> QED
      BY <1>1, <2>1, <3>1, CopyFrame DEF Paying
  <2>3. CASE ReadSummary(r) \/ SelectGrounding(r)
    <3>1. cache' = cache /\ req'[r].pc \in {"select", "lookup"} /\ req'[r].row = 0
      BY <2>1, <2>3 DEF CopyInv, ReadSummary, SelectGrounding, Slot
    <3> QED
      BY <1>1, <2>1, <3>1, CopyFrame DEF Paying
  <2>4. CASE Consume(r)
    <3>1. /\ cache' = cache /\ req'[r].pc = "ask" /\ req'[r].row = req[r].row
          /\ Paying(r) /\ WantOf(r)' = WantOf(r)
      BY <2>1, <2>4 DEF Consume, Paying, WantOf, UserFor, KeyOf, Slot
    <3> QED
      BY <1>1, <2>1, <3>1, CopyFrame
  <2>5. CASE RefuseOverLimit(r) \/ RefundChat(r) \/ FallbackTips(r) \/ Fail(r)
    <3>1. cache' = cache /\ req'[r].pc = "idle"
      BY <2>1, <2>5 DEF RefuseOverLimit, RefundChat, FallbackTips, Fail, Close, Idle
    <3> QED
      BY <1>1, <2>1, <3>1, CopyFrame DEF Paying
  <2> QED
    BY <1>1, <1>3, <2>1, <2>2, <2>3, <2>4, <2>5, CopyLookup, CopyAnswer DEF Proceed
<1>4. Midnight \/ (\E u \in Users : TreasuryMoves(u)) \/ UNCHANGED vars => UNCHANGED <<req, cache>>
  BY DEF Midnight, TreasuryMoves, vars
<1> QED
  BY <1>2, <1>3, <1>4 DEF Next

LEMMA CopyInit == Init => CopyInv
<1> SUFFICES ASSUME Init PROVE CopyInv
  OBVIOUS
<1>1. \A r \in Requests : req[r].pc = "idle"
  BY DEF Init, Idle
<1>2. \A w : Missed(w) = {}
  BY <1>1 DEF Missed, Paying
<1>3. \A w : Copies(w) = {} \/ Copies(w) = {1}
  <2>1. cache = <<>> \/ \E u \in Users : cache = <<Legacy(u)>>
    BY QueenAssumption DEF Init
  <2>2. DOMAIN cache \subseteq {1}
    BY <2>1
  <2> QED
    BY <2>2 DEF Copies
<1>4. Cardinality({}) = 0 /\ Cardinality({1}) = 1
  BY FS_EmptySet, FS_Singleton
<1>5. \A w : Cardinality(Copies(w)) + Cardinality(Missed(w)) <= Cardinality(Requests)
  BY <1>2, <1>3, <1>4, RequestsCount
<1> QED
  BY <1>1, <1>5 DEF CopyInv, Paying

(* Whatever misses at the same time, one answer of one day is stored at    *)
(* most as often as there are slots.                                       *)
THEOREM CopiesAlwaysBounded == Spec => []CopiesAreBounded
<1>1. TypeInv /\ CopyInv => CopiesAreBounded
  <2> SUFFICES ASSUME TypeInv, CopyInv, NEW k \in DOMAIN cache
               PROVE  Cardinality({j \in DOMAIN cache :
                        /\ cache[j].user = cache[k].user /\ cache[j].key = cache[k].key
                        /\ cache[j].day = cache[k].day}) <= Cardinality(Requests)
    BY DEF CopiesAreBounded
  <2> DEFINE w == <<cache[k].user, cache[k].key, cache[k].day>>
  <2>1. w \in Wanted
    <3>1. cache[k] \in CacheRow
      BY DEF TypeInv, TablesOK
    <3> QED
      BY <3>1 DEF CacheRow, Wanted
  <2>2. {j \in DOMAIN cache : /\ cache[j].user = cache[k].user
                              /\ cache[j].key = cache[k].key
                              /\ cache[j].day = cache[k].day} = Copies(w)
    BY DEF Copies
  <2> HIDE DEF w
  <2>3. Cardinality(Copies(w)) <= Cardinality(Requests)
    BY <2>1, CopiesCount, RequestsCount DEF CopyInv
  <2> QED
    BY <2>2, <2>3
<1> QED
  BY <1>1, CopyInit, CopyStep, TypeAlways, PTL DEF Spec
=============================================================================
