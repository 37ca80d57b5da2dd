--------------------------- MODULE UpstreamProofs ---------------------------
(***************************************************************************)
(* Theorems about the two upstream services.  The AI engine, for every     *)
(* number of attempts, every wait Gemini may ask for, and every batch and  *)
(* text.  The Pluggy client, alone (PluggySpec) and under the sync request *)
(* that uses it while a script and the bank go on (SeedSpec), for every    *)
(* page size, page bound, key lifetime, feed and script.                   *)
(***************************************************************************)
EXTENDS Engine, Seeding, FunctionTheorems, FoldFacts

(* Where the question is, what the loop may rely on.                       *)
JobInv ==
  /\ job.pc \in {"idle", "call", "sleep", "fallback", "answered"}
  /\ job.pc = "idle" => asked = NoQuestion
  /\ job.pc = "answered" => answer # NoAnswer
  /\ job.pc \in {"call", "sleep", "fallback"} =>
       /\ answer = NoAnswer
       /\ asked.kind \in {"categorize", "tips", "chat"} /\ asked.batch \in Seq(Ids)
  /\ job.pc \in {"call", "sleep"} => enabled
  /\ DOMAIN job = {"pc", "attempt", "delay", "slept"}

(* What has been waited fits the attempts made.                            *)
HoldInv ==
  /\ job.attempt \in 0..MaxAttempts - 1
  /\ job.slept \in Int /\ job.slept <= job.attempt * MaxDelay
  /\ job.pc = "sleep" =>
       /\ job.attempt < MaxAttempts - 1
       /\ job.delay = NaN \/ (job.delay \in Int /\ job.delay <= MaxDelay)

-----------------------------------------------------------------------------
LEMMA EmptyBatch == <<>> \in Seq(Ids)
OBVIOUS

LEMMA FallbackIsAnAnswer == Fallback # NoAnswer
BY EngineAssumption DEF Fallback, Labels, Text, NoAnswer

LEMMA JobStarts == EngineInit => JobInv /\ HoldInv
<1>1. MaxAttempts - 1 \in Nat /\ MaxDelay \in Nat /\ 0 * MaxDelay = 0
  BY EngineAssumption
<1> QED
  BY <1>1 DEF EngineInit, JobInv, HoldInv, NoJob

LEMMA JobStep == JobInv /\ [EngineNext]_engineVars => JobInv'
<1> SUFFICES ASSUME JobInv, [EngineNext]_engineVars PROVE JobInv'
  OBVIOUS
<1> USE DEF JobInv
<1>1. ASSUME NEW kind \in {"categorize", "tips", "chat"}, NEW batch \in Seq(Ids),
             Ask(kind, batch)
      PROVE  JobInv'
  <2>1. job' \in {[NoJob EXCEPT !.pc = "call"], [NoJob EXCEPT !.pc = "fallback"]}
    BY <1>1 DEF Ask
  <2>2. /\ job'.pc \in {"call", "fallback"}
        /\ DOMAIN job' = {"pc", "attempt", "delay", "slept"}
    BY <2>1 DEF NoJob
  <2>3. asked' = [kind |-> kind, batch |-> batch] /\ answer' = NoAnswer /\ enabled' = enabled
    BY <1>1 DEF Ask
  <2>4. job'.pc = "call" => enabled
    BY <1>1 DEF Ask, NoJob
  <2> QED
    BY <1>1, <2>2, <2>3, <2>4
<1>2. ASSUME CompleteLabels \/ CompleteText \/ FallBack PROVE JobInv'
  <2>1. /\ job'.pc = "answered" /\ DOMAIN job' = {"pc", "attempt", "delay", "slept"}
    BY <1>2 DEF CompleteLabels, CompleteText, FallBack, Deliver
  <2>2. answer' # NoAnswer
    <3>1. \A batch, m : Labels(batch, m) # NoAnswer
      BY EngineAssumption DEF Labels, NoAnswer
    <3>2. Text(Model, TRUE) # NoAnswer
      BY DEF Text, NoAnswer
    <3>3. CompleteLabels =>
            answer' = Fallback \/ \E batch, m : answer' = Labels(batch, m)
      BY DEF CompleteLabels, Deliver
    <3>4. CompleteText \/ FallBack => answer' \in {Fallback, Text(Model, TRUE)}
      BY DEF CompleteText, FallBack, Deliver
    <3> QED
      BY <1>2, <3>1, <3>2, <3>3, <3>4, FallbackIsAnAnswer
  <2> QED
    BY <2>1, <2>2
<1>3. CASE ProviderFails
  <2>1. /\ job'.pc \in {"sleep", "fallback"} /\ job.pc = "call"
        /\ DOMAIN job' = {"pc", "attempt", "delay", "slept"}
    BY <1>3 DEF ProviderFails
  <2> QED
    BY <1>3, <2>1 DEF ProviderFails, question
<1>4. CASE Sleep
  <2>1. /\ job'.pc \in {"call", "fallback"} /\ job.pc = "sleep"
        /\ DOMAIN job' = {"pc", "attempt", "delay", "slept"}
    BY <1>4 DEF Sleep
  <2> QED
    BY <1>4, <2>1 DEF Sleep, question
<1>5. CASE UNCHANGED engineVars
  BY <1>5 DEF engineVars
<1> QED
  BY <1>1, <1>2, <1>3, <1>4, <1>5, EmptyBatch, EngineAssumption DEF EngineNext, EngineStep

-----------------------------------------------------------------------------
(* Waits.                                                                  *)
LEMMA DelayIsCapped ==
  ASSUME NEW h \in Headers, NEW attempt \in Nat
  PROVE  \/ RetryDelay(h, attempt) = NaN
         \/ RetryDelay(h, attempt) \in Int /\ RetryDelay(h, attempt) <= MaxDelay
<1> DEFINE hint == HeaderSeconds(h)
<1>1. hint \in Int \cup {None, NaN}
  BY EngineAssumption DEF HeaderSeconds
<1>2. MaxDelay \in Nat /\ Backoff * (attempt + 1) \in Int
  BY EngineAssumption
<1>3. PICK wait \in Int \cup {NaN} :
        RetryDelay(h, attempt) =
          IF wait = NaN THEN NaN ELSE IF wait > MaxDelay THEN MaxDelay ELSE wait
  BY <1>1, <1>2, EngineAssumption DEF RetryDelay
<1> QED
  BY <1>2, <1>3

LEMMA OneMoreWait ==
  ASSUME NEW a \in Nat, NEW d \in Nat PROVE (a + 1) * d = a * d + d
OBVIOUS

LEMMA WaitsGrow ==
  ASSUME NEW a \in Nat, NEW b \in Nat, NEW d \in Nat, a <= b
  PROVE  a * d <= b * d
OBVIOUS

LEMMA HoldStep == JobInv /\ HoldInv /\ [EngineNext]_engineVars => HoldInv'
<1> SUFFICES ASSUME JobInv, HoldInv, [EngineNext]_engineVars PROVE HoldInv'
  OBVIOUS
<1>a. MaxAttempts - 1 \in Nat /\ MaxDelay \in Nat /\ 0 * MaxDelay = 0
  BY EngineAssumption
<1>b. DOMAIN job = {"pc", "attempt", "delay", "slept"}
  BY DEF JobInv
<1>1. ASSUME NEW kind, NEW batch, Ask(kind, batch) PROVE HoldInv'
  <2>1. job' \in {[NoJob EXCEPT !.pc = "call"], [NoJob EXCEPT !.pc = "fallback"]}
    BY <1>1 DEF Ask
  <2>2. job'.attempt = 0 /\ job'.slept = 0 /\ job'.pc # "sleep"
    BY <2>1 DEF NoJob
  <2> QED
    BY <2>2, <1>a DEF HoldInv
<1>2. ASSUME CompleteLabels \/ CompleteText \/ FallBack PROVE HoldInv'
  <2>1. job' = [job EXCEPT !.pc = "answered"]
    BY <1>2 DEF CompleteLabels, CompleteText, FallBack, Deliver
  <2>2. job'.attempt = job.attempt /\ job'.slept = job.slept /\ job'.pc # "sleep"
    BY <2>1, <1>b
  <2> QED
    BY <2>2 DEF HoldInv
<1>3. CASE ProviderFails
  <2>1. job'.attempt = job.attempt /\ job'.slept = job.slept
    BY <1>3, <1>b DEF ProviderFails
  <2>2. job'.pc = "sleep" =>
          /\ job.attempt < MaxAttempts - 1
          /\ \E h \in Headers : job'.delay = RetryDelay(h, job.attempt)
    BY <1>3, <1>b DEF ProviderFails
  <2>3. job'.pc = "sleep" =>
          job'.delay = NaN \/ (job'.delay \in Int /\ job'.delay <= MaxDelay)
    BY <2>2, <1>a, DelayIsCapped DEF HoldInv
  <2> QED
    BY <2>1, <2>2, <2>3 DEF HoldInv
<1>4. CASE Sleep
  <2>1. CASE job.delay = NaN
    <3>1. job'.attempt = job.attempt /\ job'.slept = job.slept /\ job'.pc = "fallback"
      BY <1>4, <2>1, <1>b DEF Sleep
    <3> QED
      BY <3>1 DEF HoldInv
  <2>2. CASE job.delay # NaN
    <3>1. /\ job'.attempt = job.attempt + 1 /\ job'.slept = job.slept + job.delay
          /\ job'.pc = "call" /\ job.pc = "sleep"
      BY <1>4, <2>2 DEF Sleep
    <3>2. /\ job.attempt \in Nat /\ job.delay \in Int /\ job.delay <= MaxDelay
          /\ job.slept \in Int /\ job.slept <= job.attempt * MaxDelay
          /\ job.attempt + 1 \in 0..MaxAttempts - 1
      BY <2>2, <3>1, <1>a DEF HoldInv
    <3>3. (job.attempt + 1) * MaxDelay = job.attempt * MaxDelay + MaxDelay
      BY <3>2, <1>a, OneMoreWait
    <3>4. job.attempt * MaxDelay \in Int
      BY <3>2, <1>a
    <3>5. job'.slept <= job'.attempt * MaxDelay
      BY <3>1, <3>2, <3>3, <3>4, <1>a
    <3> QED
      BY <3>1, <3>2, <3>5 DEF HoldInv
  <2> QED
    BY <2>1, <2>2
<1>5. CASE UNCHANGED engineVars
  BY <1>5 DEF engineVars, HoldInv
<1> QED
  BY <1>1, <1>2, <1>3, <1>4, <1>5 DEF EngineNext, EngineStep

LEMMA HoldFits == HoldInv => HoldIsBounded
<1> SUFFICES ASSUME HoldInv PROVE HoldIsBounded
  OBVIOUS
<1>1. /\ job.attempt \in Nat /\ MaxAttempts - 1 \in Nat /\ MaxDelay \in Nat
      /\ job.attempt <= MaxAttempts - 1 /\ job.attempt < MaxAttempts
  BY EngineAssumption DEF HoldInv
<1>2. job.attempt * MaxDelay <= (MaxAttempts - 1) * MaxDelay
  BY <1>1, WaitsGrow
<1>3. job.attempt * MaxDelay \in Int /\ (MaxAttempts - 1) * MaxDelay \in Int
  BY <1>1
<1> QED
  BY <1>1, <1>2, <1>3 DEF HoldInv, HoldIsBounded

(* No question is tried more than MaxAttempts times nor holds its worker   *)
(* asleep for longer than MaxDelay between two attempts, whatever Gemini   *)
(* answers and whatever Retry-After it sends.                              *)
THEOREM HoldAlwaysBounded == EngineSpec => []HoldIsBounded
BY JobStarts, JobStep, HoldStep, HoldFits, PTL DEF EngineSpec

-----------------------------------------------------------------------------
(* Labels.  The position of the last label given to an id exists, and a    *)
(* flag that counts labels against lines sees a line that is repeated.     *)
LEMMA UnderstoodInBatch ==
  ASSUME NEW labels \in LabelTexts, Valid(labels), NEW batch \in Seq(Ids)
  PROVE  LET m == Understood(labels, batch)
         IN  /\ DOMAIN m \subseteq IdsOf(batch)
             /\ \A id \in DOMAIN m : m[id] \in Categories
<1> DEFINE m == Understood(labels, batch)
<1>1. DOMAIN m = {labels[i].id : i \in DOMAIN labels} \cap IdsOf(batch)
  BY DEF Understood
<1>2. ASSUME NEW id \in DOMAIN m PROVE m[id] \in Categories
  <2> DEFINE places == {i \in DOMAIN labels : labels[i].id = id}
  <2>1. Len(labels) \in Nat /\ DOMAIN labels = 1..Len(labels)
    BY EngineAssumption
  <2>2. places \in SUBSET (1..Len(labels)) /\ places # {}
    BY <1>1, <1>2, <2>1
  <2>3. \E k \in places : \A j \in places : j <= k
    BY <2>1, <2>2, LastPosition
  <2>4. \E i \in DOMAIN labels : labels[i].id = id
          /\ \A j \in DOMAIN labels : labels[j].id = id => j <= i
    BY <2>3
  <2>5. \E i \in DOMAIN labels : m[id] = labels[i].category
    BY <1>1, <1>2, <2>4 DEF Understood
  <2> QED
    BY <2>5 DEF Valid
<1> QED
  BY <1>1, <1>2

LEMMA FullCountIsExact ==
  ASSUME NEW batch \in Seq(Ids), NEW named \in SUBSET IdsOf(batch),
         Cardinality(named) = Len(batch)
  PROVE  /\ named = IdsOf(batch)
         /\ \A i, j \in DOMAIN batch : batch[i] = batch[j] => i = j
<1> DEFINE n == Len(batch)
           lines == 1..n
           ids == IdsOf(batch)
<1>1. n \in Nat /\ DOMAIN batch = lines
  OBVIOUS
<1>2. IsFiniteSet(lines) /\ Cardinality(lines) = n
  <2> HIDE DEF n
  <2>1. /\ IsFiniteSet(1..n)
        /\ Cardinality(1..n) = IF 1 > n THEN 0 ELSE n - 1 + 1
    BY <1>1, FS_Interval
  <2> QED
    BY <1>1, <2>1
<1>3. batch \in Surjection(lines, ids)
  <2>1. batch \in [lines -> ids] /\ \A id \in ids : \E i \in lines : batch[i] = id
    BY <1>1 DEF IdsOf
  <2> QED
    BY <2>1, Fun_IsSurj
<1>4. /\ IsFiniteSet(ids) /\ Cardinality(ids) <= Cardinality(lines)
      /\ Cardinality(ids) = Cardinality(lines) <=> batch \in Injection(lines, ids)
  BY <1>2, <1>3, FS_Surjection
<1>5. /\ Cardinality(named) <= Cardinality(ids)
      /\ Cardinality(ids) = Cardinality(named) => ids = named
  BY <1>4, FS_Subset
<1>6. Cardinality(ids) = n
  <2>1. Cardinality(ids) \in Nat
    BY <1>4, FS_CardinalityType
  <2> QED
    BY <2>1, <1>1, <1>2, <1>4, <1>5
<1>7. batch \in Injection(lines, ids)
  BY <1>2, <1>4, <1>6
<1> QED
  BY <1>1, <1>5, <1>6, <1>7, Fun_InjectionProperties

-----------------------------------------------------------------------------
(* The refinement: every delivery is a Label or a Speak of Oracle, a new   *)
(* question an Ask, attempts and waits are stutters.                       *)
OracleVars == <<enabled, asked, said, answer>>

LEMMA LabelsArePromised ==
  ASSUME JobInv, asked.kind = "categorize", answer = NoAnswer, asked.batch \in Seq(Ids),
         NEW m, DOMAIN m \subseteq IdsOf(asked.batch),
         \A id \in DOMAIN m : m[id] \in Categories, enabled \/ m = <<>>,
         Deliver(Labels(asked.batch, m), m), UNCHANGED question
  PROVE  Promise!Label
<1> DEFINE batch == asked.batch
<1>1. /\ answer' = Labels(batch, m) /\ said' = m
      /\ UNCHANGED <<enabled, asked>>
  BY DEF Deliver, question
<1>2. IdsOf(batch) \subseteq Ids
  BY DEF IdsOf
<1>3. answer'.flag => batch # <<>> /\ Cardinality(DOMAIN m) = Len(batch)
  BY <1>1 DEF Labels
<1>4. answer'.flag => /\ IdsOf(batch) = DOMAIN m
                      /\ \A i, j \in DOMAIN batch : batch[i] = batch[j] => i = j
  BY <1>3, FullCountIsExact
<1>5. Promise!Labelled(batch, answer'.labels, answer'.flag)
  BY <1>1, <1>3, <1>4 DEF Promise!Labelled, Labels, IdsOf
<1>6. answer'.text = Canned
  BY <1>1 DEF Labels
<1>7. answer = Promise!NoAnswer /\ (enabled \/ said' = Promise!Nothing)
  BY <1>1 DEF NoAnswer, Promise!NoAnswer, Promise!Nothing
<1> QED
  BY <1>1, <1>2, <1>5, <1>6, <1>7 DEF Promise!Label

LEMMA FallbackIsPromised ==
  ASSUME JobInv, answer = NoAnswer, asked.batch \in Seq(Ids),
         asked.kind \in {"categorize", "tips", "chat"},
         Deliver(Fallback, <<>>), UNCHANGED question
  PROVE  Promise!Next
<1>1. CASE asked.kind = "categorize"
  <2>1. DOMAIN <<>> = {}
    OBVIOUS
  <2>2. Fallback = Labels(asked.batch, <<>>)
    BY <1>1 DEF Fallback
  <2>3. Promise!Label
    BY <1>1, <2>1, <2>2, LabelsArePromised
  <2> QED
    BY <2>3 DEF Promise!Next
<1>2. CASE asked.kind # "categorize"
  <2>1. /\ answer' = IF asked.kind = "chat" /\ ~enabled THEN Text(Cited, TRUE)
                     ELSE Text(Canned, FALSE)
        /\ said' = <<>> /\ UNCHANGED <<enabled, asked>>
    BY <1>2 DEF Fallback, Deliver, question
  <2>2. Promise!Speak
    BY <1>2, <2>1 DEF Promise!Speak, Promise!Nothing, Promise!NoAnswer, NoAnswer, Text
  <2> QED
    BY <2>2 DEF Promise!Next
<1> QED
  BY <1>1, <1>2

LEMMA OracleStep ==
  JobInv /\ [EngineNext]_engineVars => [Promise!Next]_OracleVars
<1> SUFFICES ASSUME JobInv, [EngineNext]_engineVars
             PROVE  Promise!Next \/ UNCHANGED OracleVars
  OBVIOUS
<1>a. job.pc \in {"call", "fallback"} =>
        /\ answer = NoAnswer
        /\ asked.kind \in {"categorize", "tips", "chat"} /\ asked.batch \in Seq(Ids)
  BY DEF JobInv
<1>1. ASSUME NEW kind \in {"categorize", "tips", "chat"}, NEW batch \in Seq(Ids),
             Ask(kind, batch)
      PROVE  Promise!Next
  <2>1. asked = NoQuestion \/ answer # NoAnswer
    BY <1>1 DEF Ask, JobInv
  <2>2. Promise!Ask
    BY <1>1, <2>1 DEF Ask, Promise!Ask, Promise!NoQuestion, Promise!NoAnswer,
                      Promise!Nothing, NoQuestion, NoAnswer
  <2> QED
    BY <2>2 DEF Promise!Next
<1>2. CASE CompleteLabels
  <2>1. PICK labels \in LabelTexts :
          IF Valid(labels)
          THEN LET m == Understood(labels, asked.batch)
               IN  Deliver(Labels(asked.batch, m), m)
          ELSE Deliver(Fallback, <<>>)
    BY <1>2 DEF CompleteLabels
  <2>2. job.pc = "call" /\ asked.kind = "categorize" /\ enabled /\ UNCHANGED question
    BY <1>2 DEF CompleteLabels, JobInv
  <2>3. CASE Valid(labels)
    <3> DEFINE m == Understood(labels, asked.batch)
    <3>1. /\ DOMAIN m \subseteq IdsOf(asked.batch)
          /\ \A id \in DOMAIN m : m[id] \in Categories
      BY <1>a, <2>2, <2>3, UnderstoodInBatch
    <3>2. Deliver(Labels(asked.batch, m), m)
      BY <2>1, <2>3
    <3> HIDE DEF m
    <3>3. Promise!Label
      BY <1>a, <2>2, <3>1, <3>2, LabelsArePromised
    <3> QED
      BY <3>3 DEF Promise!Next
  <2>4. CASE ~Valid(labels)
    BY <1>a, <2>1, <2>2, <2>4, FallbackIsPromised
  <2> QED
    BY <2>3, <2>4
<1>3. CASE CompleteText
  <2>1. PICK shape \in Shapes :
          Deliver(IF \/ asked.kind = "tips" /\ shape = "tips"
                     \/ asked.kind = "chat" /\ shape # "blank"
                  THEN Text(Model, TRUE) ELSE Fallback, <<>>)
    BY <1>3 DEF CompleteText
  <2>2. job.pc = "call" /\ enabled /\ UNCHANGED question
    BY <1>3 DEF CompleteText, JobInv
  <2>3. CASE Deliver(Fallback, <<>>)
    BY <1>a, <2>2, <2>3, FallbackIsPromised
  <2>4. CASE asked.kind \in {"tips", "chat"} /\ Deliver(Text(Model, TRUE), <<>>)
    <3>1. Promise!Speak
      BY <1>a, <2>2, <2>4 DEF Promise!Speak, Promise!Nothing, Promise!NoAnswer,
                              NoAnswer, Text, Deliver, question
    <3> QED
      BY <3>1 DEF Promise!Next
  <2> QED
    BY <2>1, <2>3, <2>4
<1>4. CASE ProviderFails \/ Sleep
  BY <1>4 DEF ProviderFails, Sleep, question, OracleVars
<1>5. CASE FallBack
  <2>1. job.pc = "fallback" /\ Deliver(Fallback, <<>>) /\ UNCHANGED question
    BY <1>5 DEF FallBack
  <2> QED
    BY <1>a, <2>1, FallbackIsPromised
<1>6. CASE UNCHANGED engineVars
  BY <1>6 DEF engineVars, OracleVars
<1> QED
  BY <1>1, <1>2, <1>3, <1>4, <1>5, <1>6, EmptyBatch, EngineAssumption
     DEF EngineNext, EngineStep

(* Whatever Gemini does, callers of the engine see an Oracle: one label    *)
(* per transaction, the model's or the keyword table's, one text per       *)
(* question, and a flag that is only up when the model stands behind it.   *)
THEOREM EngineIsAnOracle == EngineSpec => AnswersAsOracle
<1>1. EngineInit => Promise!Init
  BY DEF EngineInit, NoQuestion, NoAnswer, Promise!Init, Promise!NoQuestion,
         Promise!NoAnswer, Promise!Nothing
<1>2. JobInv /\ [EngineNext]_engineVars => [Promise!Next]_<<enabled, asked, said, answer>>
  BY OracleStep DEF OracleVars
<1> QED
  BY <1>1, <1>2, JobStarts, JobStep, PTL DEF EngineSpec, AnswersAsOracle, Promise!Spec

-----------------------------------------------------------------------------
(* The Pluggy client.                                                      *)
(* The request ends and its client goes with it.                           *)
ClientLeaves ==
  /\ key' = NoKey /\ call' = NoCall
  /\ UNCHANGED <<live, now, listed>>

(* Everything that may happen to a client.                                 *)
PluggyMove ==
  \/ \E op \in Operations \ {"none"} : SimulateCall(op) \/ BeginCall(op)
  \/ CallStep \/ BankAdds \/ BankChanges \/ ClockTicks \/ ClientLeaves

LEMMA AloneMoves == PluggyNext => PluggyMove
BY DEF PluggyNext, PluggyMove

LEMMA FleetMoves == SeedNext => PluggyMove \/ UNCHANGED pluggyVars
<1> USE DEF Others
<1>1. GiveUp \/ RunAgain \/ ItemMoves => UNCHANGED pluggyVars
  BY DEF GiveUp, RunAgain, ItemMoves
<1>2. Prepare \/ CreateItem \/ Poll \/ AskQuota \/ PostSync => UNCHANGED pluggyVars
  BY DEF Prepare, CreateItem, Poll, AskQuota, PostSync
<1>3. ReadReply \/ DropReply => ClientLeaves
  BY DEF ReadReply, DropReply, ServerLeaves, ClientLeaves
<1>4. StartCall => \E op \in Operations \ {"none"} : SimulateCall(op) \/ BeginCall(op)
  BY DEF StartCall, Start, Operations
<1>5. RefuseLink \/ ReadAccounts \/ UpstreamFails => UNCHANGED pluggyVars
  BY DEF RefuseLink, ReadAccounts, UpstreamFails
<1>6. Link \/ Store => UNCHANGED pluggyVars
  BY DEF Link, Store
<1>7. World => ClockTicks \/ BankAdds \/ BankChanges
  BY DEF World
<1> QED
  BY <1>1, <1>2, <1>3, <1>4, <1>5, <1>6, <1>7
     DEF SeedNext, ScriptStep, ServerStep, PluggyMove

-----------------------------------------------------------------------------
(* What the bank lists, and what a walk brings of it.                      *)
LEMMA ListFacts ==
  ASSUME NEW l \in Lists
  PROVE  l \in Seq(Movements) /\ Len(l) \in 0..LastListed /\ DOMAIN l = 1..Len(l)
BY DEF Lists

LEMMA FeedFacts ==
  ASSUME NEW places \in SUBSET (1..LastListed \cup DOMAIN SimulatedFeed),
         NEW f \in [places -> Movements]
  PROVE  f \in Feeds
BY DEF Feeds

LEMMA FeedPlaces ==
  ASSUME NEW f \in Feeds
  PROVE  /\ DOMAIN f \subseteq 1..LastListed \cup DOMAIN SimulatedFeed
         /\ \A i \in DOMAIN f : f[i] \in Movements
         /\ DOMAIN f \subseteq Nat /\ IsFiniteSet(DOMAIN f)
<1>1. DOMAIN f \subseteq 1..LastListed \cup DOMAIN SimulatedFeed
  BY DEF Feeds
<1>2. \A i \in DOMAIN f : f[i] \in Movements
  BY DEF Feeds
<1>3. DOMAIN SimulatedFeed \subseteq Nat /\ 1..LastListed \subseteq Nat
  BY PluggyAssumption
<1>4. IsFiniteSet(1..LastListed \cup DOMAIN SimulatedFeed)
  <2>1. 1 \in Int /\ LastListed \in Int
    BY PluggyAssumption
  <2>2. IsFiniteSet(1..LastListed)
    BY <2>1, FS_Interval
  <2>3. IsFiniteSet(DOMAIN SimulatedFeed)
    BY PluggyAssumption
  <2> QED
    BY <2>2, <2>3, FS_Union
<1> QED
  BY <1>1, <1>2, <1>3, <1>4, FS_Subset

LEMMA NoFeedFacts == NoFeed \in Feeds /\ DOMAIN NoFeed = {}
<1>1. DOMAIN NoFeed = {} /\ NoFeed \in [{} -> Movements]
  BY DEF NoFeed
<1> QED
  BY <1>1, FeedFacts

LEMMA SimulatedFacts == SimulatedFeed \in Feeds
BY PluggyAssumption, FeedFacts

LEMMA WithPageFacts ==
  ASSUME listed \in Lists, NEW got \in Feeds, NEW from \in 0..Len(listed)
  PROVE  /\ WithPage(got, from) \in Feeds
         /\ DOMAIN WithPage(got, from) = DOMAIN got \cup Page(from)
<1>1. Page(from) \subseteq 1..Len(listed) /\ Len(listed) \in 0..LastListed
  BY ListFacts DEF Page
<1>2. \A i \in Page(from) : listed[i] \in Movements /\ i \in 1..LastListed
  BY <1>1, ListFacts, PluggyAssumption
<1>3. DOMAIN got \cup Page(from) \in SUBSET (1..LastListed \cup DOMAIN SimulatedFeed)
  BY <1>2, FeedPlaces
<1>4. WithPage(got, from) \in [DOMAIN got \cup Page(from) -> Movements]
  BY <1>2, FeedPlaces DEF WithPage
<1> QED
  BY <1>3, <1>4, FeedFacts

-----------------------------------------------------------------------------
(* Types, and what the locals of a call hold at each step.                 *)
CallShape ==
  /\ call.known <= Len(listed) /\ call.from <= Len(listed)
  /\ call.pc \in {"auth", "post"} => call.pages = 0
  /\ call.pc = "get" => call.pages < MaxPages
  /\ call.pc \in {"auth", "post", "get"} /\ call.pages = 0 => DOMAIN call.got = {}

TypeInv == PluggyTypeOK /\ CallShape

LEMMA TypeStarts == PluggyInit => TypeInv
<1> SUFFICES ASSUME PluggyInit PROVE TypeInv
  OBVIOUS
<1>1. listed \in Lists /\ Len(listed) \in 0..LastListed
  <2>1. PICK n \in 0..LastListed : listed \in [1..n -> Movements]
    BY DEF PluggyInit
  <2>2. n \in Nat /\ n <= LastListed
    BY PluggyAssumption
  <2>3. listed \in Seq(Movements) /\ Len(listed) = n
    BY <2>1, <2>2
  <2> QED
    BY <2>2, <2>3, PluggyAssumption DEF Lists
<1>2. call = [op |-> "none", pc |-> "idle", read |-> 0, from |-> 0, pages |-> 0,
              got |-> NoFeed, known |-> 0]
  BY DEF PluggyInit, NoCall
<1>3. key = [minted |-> 0, expires |-> 0] /\ now = 0 /\ live \in BOOLEAN
  BY DEF PluggyInit, NoKey
<1> QED
  BY <1>1, <1>2, <1>3, NoFeedFacts, PluggyAssumption
     DEF TypeInv, PluggyTypeOK, CallShape, ApiKeys, Operations, AtRest

LEMMA PagesAreListed ==
  ASSUME TypeInv
  PROVE  /\ Cursor \in 0..Len(listed) /\ Len(listed) \in 0..LastListed
         /\ Cursor \in 0..LastListed /\ Page(Cursor) \subseteq 1..LastListed
         /\ Rest(Cursor) \in 0..Cursor /\ Rest(Cursor)..Cursor \subseteq 0..Len(listed)
<1>1. Len(listed) \in 0..LastListed /\ LastListed \in Nat
  BY ListFacts, PluggyAssumption DEF TypeInv, PluggyTypeOK
<1>2. Cursor \in 0..Len(listed)
  BY <1>1 DEF TypeInv, CallShape, PluggyTypeOK, Cursor
<1> HIDE DEF Cursor
<1> QED
  BY <1>1, <1>2, PluggyAssumption DEF Page, Rest

LEMMA TypeStep == TypeInv /\ PluggyMove => TypeInv'
<1> SUFFICES ASSUME TypeInv, PluggyMove PROVE TypeInv'
  OBVIOUS
<1>a. /\ Ttl \in Nat /\ MaxPages \in Nat \ {0} /\ PageSize \in Nat \ {0}
      /\ LastMinute \in Nat /\ LastListed \in Nat
  BY PluggyAssumption
<1>b. Len(listed) \in 0..LastListed
  BY PagesAreListed
<1> USE <1>a, <1>b DEF TypeInv, PluggyTypeOK, CallShape, ApiKeys, AtRest
<1>1. ASSUME NEW op \in Operations \ {"none"}, SimulateCall(op) PROVE TypeInv'
  <2>1. \E g \in Feeds :
          call' = [op |-> op, pc |-> "done", read |-> 0, from |-> 0, pages |-> 0,
                   got |-> g, known |-> 0]
    BY <1>1, NoFeedFacts, SimulatedFacts DEF SimulateCall, NoCall
  <2>2. op \in Operations /\ UNCHANGED <<live, now, key, listed>>
    BY <1>1 DEF SimulateCall
  <2> QED
    BY <2>1, <2>2, SMTT(30)
<1>2. ASSUME NEW op \in Operations \ {"none"}, BeginCall(op) PROVE TypeInv'
  <2>1. \E k \in {0, Len(listed)} :
          call' = [op |-> op, pc |-> "auth", read |-> 0, from |-> 0, pages |-> 0,
                   got |-> NoFeed, known |-> k]
    BY <1>2 DEF BeginCall, NoCall
  <2>2. op \in Operations /\ UNCHANGED <<live, now, key, listed>>
    BY <1>2 DEF BeginCall
  <2> QED
    BY <2>1, <2>2, NoFeedFacts, SMTT(30)
<1>3. CASE ReadClock
  <2>1. PICK pc \in {"get", "post"} : call' = [call EXCEPT !.read = now, !.pc = pc]
    BY <1>3 DEF ReadClock
  <2>2. call.pc = "auth" /\ UNCHANGED <<live, now, key, listed>>
    BY <1>3 DEF ReadClock
  <2>3. /\ call'.pc = pc /\ call'.pages = 0 /\ DOMAIN call'.got = {}
        /\ call'.known = call.known /\ call'.from = call.from
    BY <2>1, <2>2
  <2>4. call' = [op |-> call.op, pc |-> pc, read |-> now, from |-> call.from,
                 pages |-> call.pages, got |-> call.got, known |-> call.known]
    BY <2>1
  <2>5. PluggyTypeOK'
    BY <2>2, <2>4
  <2> QED
    BY <2>2, <2>3, <2>5
<1>4. CASE MintKey
  BY <1>4, SMTT(30) DEF MintKey, CallGoes
<1>5. CASE ReadOnce
  BY <1>5, SMTT(30) DEF ReadOnce, CallGoes
<1>6. CASE ReadPage
  <2> HIDE DEF Cursor, Page, Rest
  <2>1. PICK next \in Rest(Cursor)..Cursor :
          call' = [call EXCEPT
            !.from = next, !.pages = @ + 1, !.got = WithPage(@, Cursor),
            !.pc = IF next = 0 \/ call.pages + 1 = MaxPages THEN "done" ELSE "get"]
    BY <1>6 DEF ReadPage
  <2>2. next \in 0..Len(listed) /\ next \in 0..LastListed
    BY <2>1, PagesAreListed
  <2>3. call.pc = "get" /\ UNCHANGED <<live, now, key, listed>>
    BY <1>6 DEF ReadPage
  <2>4. /\ call'.pc \in {"done", "get"} /\ call'.known = call.known
        /\ call'.pages = call.pages + 1 /\ call'.pages \in 1..MaxPages
        /\ call'.pc = "get" => call'.pages < MaxPages
    BY <2>1, <2>3
  <2>5. call'.got \in Feeds
    BY <2>1, PagesAreListed, WithPageFacts
  <2>6. call' = [op |-> call.op, pc |-> call'.pc, read |-> call.read, from |-> next,
                 pages |-> call'.pages, got |-> call'.got, known |-> call.known]
    BY <2>1
  <2>7. PluggyTypeOK'
    BY <2>2, <2>3, <2>4, <2>5, <2>6
  <2>8. call'.from <= Len(listed)
    BY <2>2, <2>6
  <2> QED
    BY <2>3, <2>4, <2>7, <2>8
<1>7. CASE FailCall
  BY <1>7, SMTT(30) DEF FailCall, CallGoes
<1>8. CASE BankAdds \/ BankChanges
  <2>1. listed' \in Seq(Movements) /\ Len(listed') \in Len(listed)..LastListed
    <3>a. listed \in Seq(Movements) /\ Len(listed) \in Nat /\ Len(listed) <= LastListed
      BY ListFacts
    <3>1. CASE BankAdds
      <4>1. PICK m \in Movements : listed' = Append(listed, m)
        BY <3>1 DEF BankAdds
      <4>2. Len(listed) < LastListed
        BY <3>1 DEF BankAdds
      <4>3. listed' \in Seq(Movements) /\ Len(listed') = Len(listed) + 1
        BY <3>a, <4>1
      <4> QED
        BY <3>a, <4>2, <4>3
    <3>2. CASE BankChanges
      <4>1. PICK i \in DOMAIN listed, m \in Movements : listed' = [listed EXCEPT ![i] = m]
        BY <3>2 DEF BankChanges
      <4>2. listed' \in Seq(Movements) /\ Len(listed') = Len(listed)
        BY <3>a, <4>1
      <4> QED
        BY <3>a, <4>2
    <3> QED
      BY <1>8, <3>1, <3>2
  <2>2. listed' \in Lists /\ UNCHANGED <<live, now, key, call>>
    BY <1>8, <2>1 DEF Lists, BankAdds, BankChanges
  <2>3. call.known <= Len(listed') /\ call.from <= Len(listed')
    BY <2>1
  <2> QED
    BY <2>2, <2>3
<1>9. CASE ClockTicks
  BY <1>9, SMTT(30) DEF ClockTicks
<1>10. CASE ClientLeaves
  <2>1. /\ call' = [op |-> "none", pc |-> "idle", read |-> 0, from |-> 0, pages |-> 0,
                   got |-> NoFeed, known |-> 0]
        /\ key' = [minted |-> 0, expires |-> 0] /\ "none" \in Operations
    BY <1>10 DEF ClientLeaves, NoKey, NoCall, Operations
  <2> QED
    BY <1>10, <2>1, NoFeedFacts, SMTT(30) DEF ClientLeaves
<1> QED
  BY <1>1, <1>2, <1>3, <1>4, <1>5, <1>6, <1>7, <1>8, <1>9, <1>10
     DEF PluggyMove, CallStep

LEMMA AloneTyped == PluggySpec => []TypeInv
<1>1. TypeInv /\ UNCHANGED pluggyVars => TypeInv'
  BY DEF pluggyVars, TypeInv, PluggyTypeOK, CallShape
<1> QED
  BY <1>1, TypeStarts, TypeStep, AloneMoves, PTL DEF PluggySpec

LEMMA FleetTyped == SeedSpec => []TypeInv
<1>1. TypeInv /\ UNCHANGED pluggyVars => TypeInv'
  BY DEF pluggyVars, TypeInv, PluggyTypeOK, CallShape
<1>2. UNCHANGED fleetVars => UNCHANGED pluggyVars
  BY DEF fleetVars
<1>3. SeedInit => PluggyInit
  BY DEF SeedInit
<1> QED
  BY <1>1, <1>2, <1>3, TypeStarts, TypeStep, FleetMoves, PTL DEF SeedSpec

-----------------------------------------------------------------------------
(* The key.  What the client believes of it never passes Pluggy's time of  *)
(* minting by more than Ttl, so a call that uses it read the clock then.   *)
KeyInv ==
  /\ key.expires <= key.minted + Ttl
  /\ call.pc = "get" => call.read <= key.minted + Ttl

LEMMA KeyStarts == PluggyInit => KeyInv
BY PluggyAssumption DEF PluggyInit, KeyInv, NoKey, NoCall

LEMMA KeyStep == TypeInv /\ KeyInv /\ PluggyMove => KeyInv'
<1> SUFFICES ASSUME TypeInv, KeyInv, PluggyMove PROVE KeyInv'
  OBVIOUS
<1>a. /\ Ttl \in Nat /\ now \in Nat /\ key \in [minted : Nat, expires : Nat]
      /\ call.read \in 0..now
  BY PluggyAssumption DEF TypeInv, PluggyTypeOK, ApiKeys
<1>b. DOMAIN call = {"op", "pc", "read", "from", "pages", "got", "known"}
  BY DEF TypeInv, PluggyTypeOK
<1>1. (\E op \in Operations : SimulateCall(op) \/ BeginCall(op)) => KeyInv'
  BY DEF SimulateCall, BeginCall, NoCall, KeyInv
<1>2. ReadClock => KeyInv'
  BY <1>a, <1>b DEF ReadClock, KeyInv
<1>3. MintKey => KeyInv'
  BY <1>a, <1>b DEF MintKey, CallGoes, KeyInv
<1>4. ReadOnce \/ FailCall => KeyInv'
  BY <1>b DEF ReadOnce, FailCall, CallGoes, KeyInv
<1>5. ReadPage => call'.read = call.read /\ call.pc = "get" /\ key' = key
  BY <1>b DEF ReadPage
<1>6. BankAdds \/ BankChanges \/ ClockTicks => KeyInv'
  BY DEF BankAdds, BankChanges, ClockTicks, KeyInv
<1>7. ClientLeaves => KeyInv'
  BY <1>a DEF ClientLeaves, NoKey, NoCall, KeyInv
<1> QED
  BY <1>1, <1>2, <1>3, <1>4, <1>5, <1>6, <1>7 DEF PluggyMove, CallStep, KeyInv

LEMMA KeyMargin == TypeInv /\ KeyInv => KeyDiesOnlyOnSlowCalls
<1> SUFFICES ASSUME TypeInv, KeyInv, call.pc = "get", ~Honoured(key)
             PROVE  now - call.read >= Life - Ttl
  BY DEF KeyDiesOnlyOnSlowCalls
<1>1. /\ Ttl \in Nat /\ Life \in Nat /\ now \in Nat /\ key.minted \in Nat
      /\ call.read \in Nat
  BY PluggyAssumption DEF TypeInv, PluggyTypeOK, ApiKeys
<1>2. now >= key.minted + Life /\ call.read <= key.minted + Ttl
  BY <1>1 DEF Honoured, KeyInv
<1> QED
  BY <1>1, <1>2

-----------------------------------------------------------------------------
(* The walk.  What a walk holds of the list it began with reaches from     *)
(* some transaction, not far above the cursor, to the newest one; low is   *)
(* that transaction.                                                       *)
HeldFrom(low) == \A i \in 1..call.known : i \in DOMAIN call.got <=> low <= i
WalkInv ==
  live /\ call.op = "transactions" /\ call.pc = "get" /\ call.pages > 0 =>
    \E low \in 1..LastListed : low <= call.from + 1 /\ HeldFrom(low)

FeedInv == WalkInv /\ FeedIsWholeOrCut

LEMMA PageStep == TypeInv /\ WalkInv /\ live /\ ReadPage => FeedInv'
<1> SUFFICES ASSUME TypeInv, WalkInv, live, ReadPage PROVE FeedInv'
  OBVIOUS
<1>a. /\ MaxPages \in Nat \ {0} /\ PageSize \in Nat \ {0} /\ LastListed \in Nat
      /\ call.from \in Nat /\ call.pages \in Nat /\ call.known \in Nat
      /\ Len(listed) \in 0..LastListed /\ call.known <= Len(listed)
  BY PluggyAssumption, PagesAreListed DEF TypeInv, PluggyTypeOK, CallShape
<1> DEFINE c == Cursor
           r == Rest(c)
<1>b. /\ c \in 0..LastListed /\ c \in 0..Len(listed) /\ r \in 0..c
      /\ r..c \subseteq 0..LastListed
      /\ \A i \in Int : i \in Page(c) <=> i \in 1..c /\ r < i
      /\ c > 0 => r < c
  <2>1. /\ c \in 0..LastListed /\ c \in 0..Len(listed) /\ r \in 0..c
        /\ r..c \subseteq 0..Len(listed)
    BY PagesAreListed
  <2> HIDE DEF c
  <2> QED
    BY <2>1, <1>a DEF Page, Rest
<1>1. PICK next \in r..c :
        /\ next = 0 <=> r = 0
        /\ call' = [call EXCEPT
             !.from = next, !.pages = @ + 1, !.got = WithPage(@, c),
             !.pc = IF next = 0 \/ call.pages + 1 = MaxPages THEN "done" ELSE "get"]
  BY DEF ReadPage
<1>2. call.pc = "get" /\ call.op = "transactions" /\ UNCHANGED <<live, now, key, listed>>
  BY DEF ReadPage
<1>3. /\ DOMAIN call'.got = DOMAIN call.got \cup Page(c) /\ call'.from = next
      /\ call'.known = call.known /\ call'.pages = call.pages + 1
      /\ call'.op = "transactions"
      /\ call'.pc = IF next = 0 \/ call.pages + 1 = MaxPages THEN "done" ELSE "get"
  BY <1>1, <1>2, <1>b, WithPageFacts DEF TypeInv, PluggyTypeOK
<1> HIDE DEF c, r
(* Before this page: everything from top on is held, and top is at most    *)
(* one above the cursor or nothing is held yet and the cursor covers all.  *)
<1>4. \E top \in 1..LastListed + 1 :
        /\ \A i \in 1..call.known : i \in DOMAIN call.got <=> top <= i
        /\ call.known <= c \/ top <= c + 1
  <2>1. CASE call.pages = 0
    <3>1. DOMAIN call.got = {} /\ c = Len(listed)
      BY <2>1, <1>2 DEF TypeInv, CallShape, c, Cursor
    <3>2. \A i \in 1..call.known : i \in DOMAIN call.got <=> LastListed + 1 <= i
      BY <3>1, <1>a
    <3>3. call.known <= c /\ LastListed + 1 \in 1..LastListed + 1
      BY <3>1, <1>a
    <3> QED
      BY <3>2, <3>3, Zenon
  <2>2. CASE call.pages > 0
    <3>1. PICK top \in 1..LastListed : top <= call.from + 1 /\ HeldFrom(top)
      BY <2>2, <1>2 DEF WalkInv
    <3>2. c = call.from
      BY <2>2 DEF c, Cursor
    <3> QED
      BY <3>1, <3>2, <1>a DEF HeldFrom
  <2> QED
    BY <2>1, <2>2, <1>a
<1>5. PICK top \in 1..LastListed + 1 :
        /\ \A i \in 1..call.known : i \in DOMAIN call.got <=> top <= i
        /\ call.known <= c \/ top <= c + 1
  BY <1>4
<1> DEFINE low == IF top <= r THEN top ELSE r + 1
<1>6. low \in 1..LastListed + 1 /\ low <= r + 1 /\ (c > 0 => low \in 1..LastListed)
  BY <1>a, <1>b
<1>7. \A i \in 1..call.known : i \in DOMAIN call'.got <=> low <= i
  <2> SUFFICES ASSUME NEW i \in 1..call.known
               PROVE  (i \in DOMAIN call.got \/ i \in Page(c)) <=> low <= i
    BY <1>3
  <2> QED
    BY <1>a, <1>b, <1>5
<1> HIDE DEF low
<1>8. CASE next = 0
  <2>1. low = 1
    BY <1>8, <1>1, <1>a, <1>b, <1>6
  <2>2. 1..call.known \subseteq DOMAIN call'.got
    BY <2>1, <1>7, <1>a
  <2> QED
    BY <2>2, <1>3, <1>8 DEF FeedInv, WalkInv, FeedIsWholeOrCut
<1>9. CASE next # 0
  <2>1. c > 0 /\ low \in 1..LastListed /\ low <= next + 1
    BY <1>9, <1>1, <1>a, <1>b, <1>6
  <2>2. DOMAIN call'.got \cap 1..call.known = low..call.known
    BY <1>7, <2>1, <1>a
  <2> QED
    BY <2>1, <2>2, <1>3, <1>7, <1>9, <1>a
       DEF FeedInv, WalkInv, FeedIsWholeOrCut, HeldFrom
<1> QED
  BY <1>8, <1>9

LEMMA FeedStep == TypeInv /\ FeedInv /\ PluggyMove => FeedInv'
<1> SUFFICES ASSUME TypeInv, FeedInv, PluggyMove PROVE FeedInv'
  OBVIOUS
<1>b. DOMAIN call = {"op", "pc", "read", "from", "pages", "got", "known"}
  BY DEF TypeInv, PluggyTypeOK
<1> USE DEF FeedInv, WalkInv, FeedIsWholeOrCut, HeldFrom
<1>1. ASSUME NEW op \in Operations, SimulateCall(op) \/ BeginCall(op)
      PROVE  ~live' \/ call'.pc = "auth"
  BY <1>1 DEF SimulateCall, BeginCall, NoCall
<1>2. ReadClock \/ MintKey =>
        /\ call'.pages = call.pages /\ call.pages = 0 /\ call'.pc \in {"post", "get"}
  BY <1>b DEF ReadClock, MintKey, CallGoes, TypeInv, CallShape
<1>3. FailCall => call'.pc = "failed"
  BY <1>b DEF FailCall, CallGoes
<1>4. ReadOnce => call'.pc = "done" /\ call'.op # "transactions"
  BY <1>b DEF ReadOnce, CallGoes
<1>5. BankAdds \/ BankChanges \/ ClockTicks => UNCHANGED <<live, call>>
  BY DEF BankAdds, BankChanges, ClockTicks
<1>6. ClientLeaves => call'.pc = "idle"
  BY DEF ClientLeaves, NoCall
<1>7. ReadPage => UNCHANGED live
  BY DEF ReadPage
<1> QED
  BY <1>1, <1>2, <1>3, <1>4, <1>5, <1>6, <1>7, PageStep DEF PluggyMove, CallStep

LEMMA FeedStarts == PluggyInit => FeedInv
BY DEF PluggyInit, NoCall, FeedInv, WalkInv, FeedIsWholeOrCut

-----------------------------------------------------------------------------
(* A key dies in a client's hands only on a call that has been on its way  *)
(* for the margin between the two lifetimes, for a client alone and under  *)
(* the sync of the demo script.                                            *)
THEOREM KeyOutlastsCalls ==
  /\ PluggySpec => []KeyDiesOnlyOnSlowCalls
  /\ SeedSpec => []KeyDiesOnlyOnSlowCalls
<1>1. KeyInv /\ UNCHANGED pluggyVars => KeyInv'
  BY DEF pluggyVars, KeyInv
<1>2. UNCHANGED fleetVars => UNCHANGED pluggyVars
  BY DEF fleetVars
<1>3. SeedInit => PluggyInit
  BY DEF SeedInit
<1>4. PluggySpec => []KeyDiesOnlyOnSlowCalls
  BY <1>1, KeyStarts, KeyStep, KeyMargin, AloneMoves, AloneTyped, PTL DEF PluggySpec
<1>5. SeedSpec => []KeyDiesOnlyOnSlowCalls
  BY <1>1, <1>2, <1>3, KeyStarts, KeyStep, KeyMargin, FleetMoves, FleetTyped, PTL
     DEF SeedSpec
<1> QED
  BY <1>4, <1>5

(* A walk that ends with success holds all that was listed when it began,  *)
(* or was cut at the page bound and lacks only the oldest, whatever the    *)
(* cursors overlap and whatever the bank adds meanwhile.                   *)
THEOREM FeedAlwaysWholeOrCut ==
  /\ PluggySpec => []FeedIsWholeOrCut
  /\ SeedSpec => []FeedIsWholeOrCut
<1>1. FeedInv /\ UNCHANGED pluggyVars => FeedInv'
  BY DEF pluggyVars, FeedInv, WalkInv, FeedIsWholeOrCut, HeldFrom
<1>2. UNCHANGED fleetVars => UNCHANGED pluggyVars
  BY DEF fleetVars
<1>3. SeedInit => PluggyInit
  BY DEF SeedInit
<1>4. FeedInv => FeedIsWholeOrCut
  BY DEF FeedInv
<1>5. PluggySpec => []FeedIsWholeOrCut
  BY <1>1, <1>4, FeedStarts, FeedStep, AloneMoves, AloneTyped, PTL DEF PluggySpec
<1>6. SeedSpec => []FeedIsWholeOrCut
  BY <1>1, <1>2, <1>3, <1>4, FeedStarts, FeedStep, FleetMoves, FleetTyped, PTL
     DEF SeedSpec
<1> QED
  BY <1>5, <1>6

-----------------------------------------------------------------------------
(* The merge of a fetch into no rows keeps one id of each movement, the    *)
(* first served.                                                           *)
LEMMA MergedOnce ==
  ASSUME NEW got \in Feeds
  PROVE  HoldsOnce(Merged(NoFeed, got), got)
<1> DEFINE later(i) == \E j \in DOMAIN got : j > i /\ got[j] = got[i]
           added == {i \in DOMAIN got : ~later(i)}
           m == Merged(NoFeed, got)
<1>1. DOMAIN got \subseteq Nat /\ IsFiniteSet(DOMAIN got)
  BY FeedPlaces
<1>2. DOMAIN m = added /\ \A i \in added : m[i] = got[i]
  BY NoFeedFacts DEF Merged
<1> HIDE DEF m
<1>3. ASSUME NEW i \in DOMAIN got PROVE \E k \in added : got[k] = got[i]
  <2> DEFINE same == {j \in DOMAIN got : got[j] = got[i]}
  <2>1. same \in SUBSET Int /\ IsFiniteSet(same) /\ same # {}
    BY <1>1, FS_Subset
  <2>2. Max(same) \in same /\ \A j \in same : j <= Max(same)
    BY <2>1, LargestNumber
  <2>3. PICK k \in same : \A j \in same : j <= k
    BY <2>2
  <2>4. \A j \in DOMAIN got : got[j] = got[k] => ~(j > k)
    BY <1>1, <2>3
  <2> QED
    BY <2>3, <2>4
<1>4. ASSUME NEW i \in added, NEW j \in added, got[i] = got[j] PROVE i = j
  BY <1>1, <1>4
<1>5. \A i \in DOMAIN got : \E j \in DOMAIN m : m[j] = got[i]
  BY <1>2, <1>3
<1>6. \A i, j \in DOMAIN m : m[i] = m[j] => i = j
  BY <1>2, <1>4
<1> QED
  BY <1>5, <1>6 DEF HoldsOnce, m

-----------------------------------------------------------------------------
(* The script and its request.  An item the script went on from is updated *)
(* and stays so, a script that waits has its own request at work, and a    *)
(* request that answered 200 to it has linked the item and stored its walk.*)
Chosen == {"login", "quota", "sync", "waiting"}
ScriptInv ==
  /\ DOMAIN script = {"pc", "item", "poll"}
  /\ DOMAIN status \subseteq Items
  /\ script.pc \in Chosen \cup {"await"} => script.item \in DOMAIN status
  /\ script.pc \in Chosen => status[script.item] = "UPDATED"
  /\ script.pc = "waiting" => server.pc # "idle" /\ server.item = script.item

Accepted == server.pc = "replied" /\ server.code = 200
ServerInv ==
  /\ DOMAIN server = {"pc", "item", "code"} /\ DOMAIN rows = Items
  /\ server.pc # "idle" => server.item \in Items
  /\ server.pc \in {"accounts", "feed"} \/ Accepted => server.item \in linked
  /\ Accepted /\ script.pc = "waiting" =>
       /\ call.op = "transactions" /\ call.pc = "done"
       /\ HoldsOnce(rows[server.item], call.got)

(* Nothing is stored for an item before its one sync has fetched.          *)
Ahead == {"await", "login", "quota", "sync"}
Fetching == {"claim", "accounts", "feed"}
Unsynced(i) ==
  \/ i \notin DOMAIN status
  \/ server.pc \in Fetching /\ i = server.item
  \/ script.pc \in Ahead /\ i = script.item
RowsInv ==
  /\ \A i \in Items : Unsynced(i) => rows[i] = NoFeed
  /\ server.pc # "idle" => server.item \in DOMAIN status
  /\ script.pc \in Ahead /\ server.pc # "idle" => server.item # script.item

SeedInv == ScriptInv /\ ServerInv /\ RowsInv

LEMMA SeedStarts == SeedInit => SeedInv
BY DEF SeedInit, SeedInv, ScriptInv, ServerInv, RowsInv, Ready, Free, Chosen, Accepted

(* An item that Pluggy updated stays updated.                              *)
LEMMA MoveKeepsUpdated ==
  ASSUME ItemMoves
  PROVE  /\ DOMAIN status' = DOMAIN status
         /\ \A i \in DOMAIN status : status[i] = "UPDATED" => status'[i] = "UPDATED"
BY DEF ItemMoves

(* The script waits only after its post, and is done only after a reply.   *)
LEMMA ScriptGoesElsewhere ==
  ASSUME DOMAIN script = {"pc", "item", "poll"},
         Prepare \/ CreateItem \/ Poll \/ AskQuota \/ GiveUp \/ RunAgain
  PROVE  script'.pc \notin {"waiting", "done"}
<1>1. Prepare => script'.pc \in {"item", "quota"}
  BY DEF Prepare, On
<1>2. CreateItem => script'.pc = "await"
  BY DEF CreateItem
<1>3. Poll => script'.pc \in {"login", "failed", "await"}
  BY DEF Poll
<1>4. AskQuota => script'.pc \in {"failed", "sync"}
  BY DEF AskQuota
<1>5. GiveUp \/ RunAgain => script'.pc \in {"failed", "auth"}
  BY DEF GiveUp, RunAgain, Ready
<1> QED
  BY <1>1, <1>2, <1>3, <1>4, <1>5

LEMMA ScriptInvStep == SeedInv /\ [SeedNext]_fleetVars => ScriptInv'
<1> SUFFICES ASSUME SeedInv, [SeedNext]_fleetVars PROVE ScriptInv'
  OBVIOUS
<1> USE DEF SeedInv, ScriptInv, Chosen
<1>a. DOMAIN script = {"pc", "item", "poll"} /\ DOMAIN server = {"pc", "item", "code"}
  BY DEF ServerInv
<1>1. CASE Prepare
  BY <1>1 DEF Prepare, On
<1>2. CASE CreateItem
  <2>1. PICK i \in Items \ DOMAIN status :
          /\ DOMAIN status' = DOMAIN status \cup {i}
          /\ script' = [script EXCEPT !.pc = "await", !.item = i]
    BY <1>2 DEF CreateItem
  <2> QED
    BY <2>1, <1>a
<1>3. CASE Poll
  <2>1. /\ DOMAIN script' = {"pc", "item", "poll"} /\ script'.item = script.item
        /\ script'.pc \in {"login", "failed", "await"} /\ script.pc = "await"
        /\ script'.pc = "login" => status[script.item] = "UPDATED"
    BY <1>3, <1>a DEF Poll
  <2> QED
    BY <1>3, <2>1 DEF Poll
<1>4. CASE AskQuota
  BY <1>4 DEF AskQuota
<1>5. CASE PostSync
  BY <1>5 DEF PostSync, On
<1>6. CASE ReadReply
  <2>1. script'.pc \in {"done", "failed"} /\ DOMAIN script' = {"pc", "item", "poll"}
    BY <1>6 DEF ReadReply
  <2> QED
    BY <1>6, <2>1 DEF ReadReply, ServerLeaves
<1>7. CASE GiveUp
  BY <1>7 DEF GiveUp
<1>8. CASE RunAgain
  BY <1>8 DEF RunAgain, Ready
<1>9. CASE ItemMoves
  <2>1. UNCHANGED <<script, server>>
    BY <1>9 DEF ItemMoves
  <2> QED
    BY <1>9, <2>1, MoveKeepsUpdated
<1>10. CASE ServerStep \/ World \/ UNCHANGED fleetVars
  <2>1. \/ DropReply
        \/ /\ UNCHANGED <<status, script>> /\ server'.item = server.item
           /\ server.pc # "idle" => server'.pc # "idle"
    <3>1. Link => /\ server' = [server EXCEPT !.pc = "accounts"] /\ UNCHANGED <<status, script>>
      BY DEF Link, ServerGoes
    <3>2. ReadAccounts =>
            /\ server' = [server EXCEPT !.pc = "feed"] \/
               server' = [server EXCEPT !.pc = "replied", !.code = 200]
            /\ UNCHANGED <<status, script>>
      BY DEF ReadAccounts, ServerGoes, Reply
    <3>3. RefuseLink \/ Store \/ UpstreamFails =>
            /\ \E code \in {200, 403, 502} :
                 server' = [server EXCEPT !.pc = "replied", !.code = code]
            /\ UNCHANGED <<status, script>>
      BY DEF RefuseLink, Store, UpstreamFails, Reply
    <3>4. StartCall \/ (CallStep /\ UNCHANGED seedVars) \/ World \/ UNCHANGED fleetVars =>
            UNCHANGED <<status, script, server>>
      BY DEF StartCall, Start, World, fleetVars, seedVars
    <3> QED
      <4>1. CASE Link
        BY <4>1, <1>a, <3>1
      <4>2. CASE ReadAccounts
        BY <4>2, <1>a, <3>2
      <4>3. CASE RefuseLink \/ Store \/ UpstreamFails
        <5>1. PICK code \in {200, 403, 502} :
                server' = [server EXCEPT !.pc = "replied", !.code = code]
          BY <4>3, <3>3
        <5>2. server'.item = server.item /\ server'.pc = "replied"
          BY <5>1, <1>a
        <5>3. UNCHANGED <<status, script>>
          BY <4>3, <3>3
        <5> QED
          BY <5>2, <5>3
      <4>4. CASE StartCall \/ (CallStep /\ UNCHANGED seedVars) \/ World \/ UNCHANGED fleetVars
        BY <4>4, <3>4
      <4> QED
        BY <1>10, <4>1, <4>2, <4>3, <4>4 DEF ServerStep
  <2>2. CASE DropReply
    BY <2>2 DEF DropReply, ServerLeaves
  <2> QED
    BY <2>1, <2>2
<1> QED
  BY <1>1, <1>2, <1>3, <1>4, <1>5, <1>6, <1>7, <1>8, <1>9, <1>10
     DEF SeedNext, ScriptStep

(* A request at rest in its answer keeps its last call.                    *)
LEMMA ServerInvStep ==
  TypeInv /\ SeedInv /\ [SeedNext]_fleetVars => ServerInv'
<1> SUFFICES ASSUME TypeInv, SeedInv, [SeedNext]_fleetVars PROVE ServerInv'
  OBVIOUS
<1> USE DEF SeedInv, ServerInv, Accepted
<1>a. DOMAIN call = {"op", "pc", "read", "from", "pages", "got", "known"}
  BY DEF TypeInv, PluggyTypeOK
<1>b. DOMAIN script = {"pc", "item", "poll"}
  BY DEF ScriptInv
<1>1. CASE Prepare \/ CreateItem \/ Poll \/ AskQuota \/ GiveUp \/ RunAgain
  <2>1. UNCHANGED <<server, live, call, linked, rows>>
    BY <1>1 DEF Prepare, CreateItem, Poll, AskQuota, GiveUp, RunAgain, Others, pluggyVars
  <2>2. script'.pc # "waiting"
    BY <1>1, <1>b, ScriptGoesElsewhere
  <2> QED
    BY <2>1, <2>2
<1>2. CASE PostSync
  <2>1. /\ server' = [pc |-> "claim", item |-> script.item, code |-> 0]
        /\ script.item \in Items /\ UNCHANGED <<linked, rows>>
    BY <1>2 DEF PostSync, On, Others, ScriptInv, Chosen
  <2> QED
    BY <2>1
<1>3. CASE ReadReply \/ DropReply
  <2>1. server' = [pc |-> "idle", item |-> 0, code |-> 0] /\ UNCHANGED <<linked, rows>>
    BY <1>3 DEF ReadReply, DropReply, ServerLeaves, Free
  <2> QED
    BY <2>1
<1>4. CASE ItemMoves
  BY <1>4 DEF ItemMoves, Others, pluggyVars
<1>5. CASE StartCall
  BY <1>5 DEF StartCall, Start, seedVars, SimulateCall, BeginCall
<1>6. CASE RefuseLink \/ UpstreamFails
  <2>1. \E code \in {403, 502} : server' = [server EXCEPT !.pc = "replied", !.code = code]
    BY <1>6 DEF RefuseLink, UpstreamFails, Reply
  <2>2. UNCHANGED <<linked, rows>> /\ server.pc # "idle"
    BY <1>6 DEF RefuseLink, UpstreamFails, Others
  <2> QED
    BY <2>1, <2>2
<1>7. CASE Link
  <2>1. /\ server' = [server EXCEPT !.pc = "accounts"] /\ server.pc = "claim"
        /\ linked' = linked \cup {server.item} /\ rows' = rows
    BY <1>7 DEF Link, ServerGoes
  <2> QED
    BY <2>1
<1>8. CASE ReadAccounts
  <2>1. server.pc = "accounts" /\ UNCHANGED <<script, status, live, call, linked, rows>>
    BY <1>8 DEF ReadAccounts, Others, pluggyVars
  <2>2. CASE live /\ status[server.item] # "UPDATED"
    <3>1. script.pc # "waiting"
      BY <2>2 DEF ScriptInv, Chosen
    <3>2. server' = [server EXCEPT !.pc = "replied", !.code = 200]
      BY <1>8, <2>2 DEF ReadAccounts, Reply
    <3> QED
      BY <2>1, <3>1, <3>2
  <2>3. CASE ~(live /\ status[server.item] # "UPDATED")
    <3>1. server' = [server EXCEPT !.pc = "feed"]
      BY <1>8, <2>3 DEF ReadAccounts, ServerGoes
    <3> QED
      BY <2>1, <3>1
  <2> QED
    BY <2>2, <2>3
<1>9. CASE Store
  <2>1. /\ server.pc = "feed" /\ call.op = "transactions" /\ call.pc = "done"
        /\ rows' = [rows EXCEPT ![server.item] = Merged(@, call.got)]
        /\ server' = [server EXCEPT !.pc = "replied", !.code = 200]
        /\ UNCHANGED <<live, call, linked, script>>
    BY <1>9 DEF Store, CallIs, Reply, pluggyVars
  <2>2. rows[server.item] = NoFeed /\ call.got \in Feeds /\ server.item \in Items
    BY <2>1 DEF RowsInv, Unsynced, Fetching, TypeInv, PluggyTypeOK
  <2>3. rows'[server.item] = Merged(NoFeed, call.got)
    BY <2>1, <2>2
  <2>4. /\ DOMAIN rows' = Items /\ HoldsOnce(rows'[server.item], call.got)
        /\ DOMAIN server' = {"pc", "item", "code"} /\ server'.item = server.item
        /\ server'.pc = "replied"
    BY <2>1, <2>2, <2>3, MergedOnce
  <2> QED
    BY <2>1, <2>2, <2>4
<1>10. CASE World
  BY <1>10 DEF World, seedVars, ClockTicks, BankAdds, BankChanges
<1>11. CASE CallStep /\ UNCHANGED seedVars
  <2>1. call.pc \in {"auth", "post", "get"} /\ UNCHANGED <<live, script, server, linked, rows>>
    BY <1>11 DEF CallStep, ReadClock, MintKey, ReadOnce, ReadPage, FailCall, seedVars
  <2> QED
    BY <2>1
<1>12. CASE UNCHANGED fleetVars
  BY <1>12 DEF fleetVars, pluggyVars, seedVars
<1> QED
  BY <1>1, <1>2, <1>3, <1>4, <1>5, <1>6, <1>7, <1>8, <1>9, <1>10, <1>11, <1>12
     DEF SeedNext, ScriptStep, ServerStep

(* Only a Store writes rows, those of the item it fetched.                 *)
LEMMA RowsInvStep == SeedInv /\ [SeedNext]_fleetVars => RowsInv'
<1> SUFFICES ASSUME SeedInv, [SeedNext]_fleetVars PROVE RowsInv'
  OBVIOUS
<1> USE DEF SeedInv, RowsInv, Unsynced, Ahead, Fetching
<1>a. DOMAIN script = {"pc", "item", "poll"} /\ DOMAIN server = {"pc", "item", "code"}
  BY DEF ServerInv, ScriptInv
<1>1. CASE Prepare \/ Poll \/ AskQuota \/ GiveUp \/ RunAgain
  <2>1. UNCHANGED <<status, server, rows>>
    BY <1>1 DEF Prepare, Poll, AskQuota, GiveUp, RunAgain, Others
  <2>2. Prepare \/ Poll \/ AskQuota =>
          script'.item = script.item /\ (script'.pc \in Ahead => script.pc \in Ahead)
    <3>1. Prepare => /\ script' \in {[script EXCEPT !.pc = "item"], [script EXCEPT !.pc = "quota"]}
                     /\ script'.pc = "quota" => script.pc = "login"
      BY <1>a DEF Prepare, On
    <3>2. Poll => script.pc = "await" /\ script'.item = script.item
      BY <1>a DEF Poll
    <3>3. AskQuota => script.pc = "quota" /\ script'.item = script.item
      BY <1>a DEF AskQuota
    <3> QED
      BY <1>a, <3>1, <3>2, <3>3
  <2>3. GiveUp \/ RunAgain => script'.pc \notin Ahead
    BY <1>a DEF GiveUp, RunAgain, Ready
  <2> QED
    BY <1>1, <2>1, <2>2, <2>3
<1>2. CASE CreateItem
  <2>1. PICK i \in Items \ DOMAIN status :
          /\ DOMAIN status' = DOMAIN status \cup {i}
          /\ script' = [script EXCEPT !.pc = "await", !.item = i]
    BY <1>2 DEF CreateItem
  <2>2. UNCHANGED <<server, rows>> /\ script'.item = i
    BY <1>2, <1>a, <2>1 DEF CreateItem, Others
  <2> QED
    BY <2>1, <2>2
<1>3. CASE PostSync
  <2>1. /\ server' = [pc |-> "claim", item |-> script.item, code |-> 0]
        /\ script.pc = "sync" /\ script'.pc = "waiting" /\ UNCHANGED <<status, rows>>
    BY <1>3, <1>a DEF PostSync, On, Others
  <2>2. script.item \in DOMAIN status
    BY <2>1 DEF ScriptInv, Chosen
  <2> QED
    BY <2>1, <2>2
<1>4. CASE ReadReply \/ DropReply
  <2>1. /\ server'.pc = "idle" /\ UNCHANGED <<status, rows>>
        /\ script'.pc \in Ahead => script' = script
    BY <1>4, <1>a DEF ReadReply, DropReply, ServerLeaves, Free
  <2> QED
    BY <2>1
<1>5. CASE ItemMoves
  <2>1. UNCHANGED <<script, server, rows>>
    BY <1>5 DEF ItemMoves, Others
  <2> QED
    BY <1>5, <2>1, MoveKeepsUpdated
<1>6. CASE Store
  <2>1. /\ server.pc = "feed" /\ rows' = [rows EXCEPT ![server.item] = Merged(@, call.got)]
        /\ server' = [server EXCEPT !.pc = "replied", !.code = 200]
        /\ UNCHANGED <<status, script>>
    BY <1>6 DEF Store, Reply
  <2>2. server'.item = server.item /\ server'.pc = "replied"
    BY <1>a, <2>1
  <2>3. \A i \in Items : i # server.item => rows'[i] = rows[i]
    BY <2>1 DEF ServerInv
  <2>4. \A i \in Items : Unsynced(i)' => i # server.item
    BY <2>1, <2>2
  <2> QED
    BY <2>1, <2>2, <2>3, <2>4
<1>7. CASE RefuseLink \/ Link \/ ReadAccounts \/ UpstreamFails
  <2>1. UNCHANGED <<status, script, rows>> /\ server.pc # "idle"
    BY <1>7 DEF RefuseLink, Link, ServerGoes, ReadAccounts, UpstreamFails, Others
  <2>2. server'.item = server.item /\ (server'.pc \in Fetching => server.pc \in Fetching)
    <3>1. Link => server.pc = "claim" /\ server' = [server EXCEPT !.pc = "accounts"]
      BY DEF Link, ServerGoes
    <3>2. ReadAccounts =>
            /\ server.pc = "accounts"
            /\ \/ server' = [server EXCEPT !.pc = "feed"]
               \/ server' = [server EXCEPT !.pc = "replied", !.code = 200]
      BY DEF ReadAccounts, ServerGoes, Reply
    <3>3. RefuseLink \/ UpstreamFails =>
            \E code \in {403, 502} : server' = [server EXCEPT !.pc = "replied", !.code = code]
      BY DEF RefuseLink, UpstreamFails, Reply
    <3> HIDE DEF SeedInv, RowsInv, Unsynced, Ahead
    <3>4. CASE Link
      BY <1>a, <3>1, <3>4
    <3>6. CASE ReadAccounts
      <4>1. PICK pc \in {"feed", "replied"}, code \in {server.code, 200} :
              server' = [server EXCEPT !.pc = pc, !.code = code]
        BY <1>a, <3>2, <3>6
      <4>2. server'.item = server.item
        BY <1>a, <4>1
      <4> QED
        BY <3>2, <3>6, <4>2
    <3>5. CASE RefuseLink \/ UpstreamFails
      <4>1. PICK code \in {403, 502} :
              server' = [server EXCEPT !.pc = "replied", !.code = code]
        BY <3>3, <3>5
      <4>2. server'.item = server.item /\ server'.pc = "replied"
        BY <1>a, <4>1
      <4> QED
        BY <4>2
    <3> QED
      BY <1>7, <3>4, <3>5, <3>6
  <2> QED
    BY <2>1, <2>2
<1>8. CASE StartCall \/ (CallStep /\ UNCHANGED seedVars) \/ World \/ UNCHANGED fleetVars
  BY <1>8 DEF StartCall, Start, World, fleetVars, seedVars
<1> QED
  BY <1>1, <1>2, <1>3, <1>4, <1>5, <1>6, <1>7, <1>8
     DEF SeedNext, ScriptStep, ServerStep

LEMMA SeedInvAlways == SeedSpec => []SeedInv
<1>1. TypeInv /\ SeedInv /\ [SeedNext]_fleetVars => SeedInv'
  BY ScriptInvStep, ServerInvStep, RowsInvStep DEF SeedInv
<1> QED
  BY <1>1, SeedStarts, FleetTyped, PTL DEF SeedSpec

(* "Done" is printed only for an item that is linked and updated and whose *)
(* walk fetched all that Pluggy listed when it began, or was cut at the    *)
(* page bound; each movement that walk brought is on exactly one row of    *)
(* the item.  It holds for any number of items, runs of the script given   *)
(* up half-way, page size, page bound and feed, also one that lists a      *)
(* movement under two ids or changes it between two pages.                 *)
THEOREM DoneAlwaysMeansStored == SeedSpec => DoneMeansStored
<1> DEFINE Kept ==
      script'.pc = "done" /\ script.pc # "done" =>
        /\ script.item \in linked
        /\ HoldsOnce(rows[script.item], call.got)
        /\ live => /\ status[script.item] = "UPDATED"
                   /\ \/ 1..call.known \subseteq DOMAIN call.got
                      \/ call.pages = MaxPages
<1>1. ASSUME SeedInv, FeedIsWholeOrCut, [SeedNext]_fleetVars PROVE Kept
  <2> SUFFICES ASSUME script'.pc = "done", script.pc # "done"
               PROVE  /\ script.item \in linked
                      /\ HoldsOnce(rows[script.item], call.got)
                      /\ live => /\ status[script.item] = "UPDATED"
                                 /\ \/ 1..call.known \subseteq DOMAIN call.got
                                    \/ call.pages = MaxPages
    OBVIOUS
  <2>a. DOMAIN script = {"pc", "item", "poll"}
    BY <1>1 DEF SeedInv, ScriptInv
  <2>b. PostSync => script'.pc = "waiting"
    BY <2>a DEF PostSync, On
  <2>1. Prepare \/ CreateItem \/ Poll \/ AskQuota \/ PostSync \/ GiveUp \/ RunAgain =>
          script'.pc # "done"
    BY <2>a, <2>b, ScriptGoesElsewhere
  <2>2. ItemMoves \/ ServerStep \/ World \/ UNCHANGED fleetVars => script' = script
    BY DEF ItemMoves, ServerStep, World, fleetVars, seedVars, StartCall, Start, RefuseLink,
           Link, ReadAccounts, Store, UpstreamFails, DropReply
  <2>3. ReadReply
    BY <1>1, <2>1, <2>2 DEF SeedNext, ScriptStep
  <2>4. script.pc = "waiting" /\ Accepted
    BY <1>1, <2>3 DEF ReadReply, ServerLeaves, Accepted, SeedInv, ScriptInv
  <2> QED
    BY <1>1, <2>4 DEF SeedInv, ScriptInv, ServerInv, Chosen, FeedIsWholeOrCut
<1>2. SeedSpec => []FeedIsWholeOrCut
  BY FeedAlwaysWholeOrCut
<1> QED
  BY <1>1, <1>2, SeedInvAlways, PTL DEF SeedSpec, DoneMeansStored
=============================================================================
