------------------------------- MODULE Engine -------------------------------
(***************************************************************************)
(* The AI engine under one request: the guarded question, the attempts at  *)
(* Gemini with the wait between them, the guardrail on what comes back and *)
(* the canned answer.  The worker sleeps with its session open, so how     *)
(* long it may be held is a property.                                      *)
(*                                                                         *)
(* Waits are counted in half seconds.  A text of the model is a sequence   *)
(* of labels, or a word for its shape.                                     *)
(***************************************************************************)
EXTENDS Integers, Sequences, FiniteSets

CONSTANTS
  Ids, Categories,
  Keyword,              \* _fallback_categories, by keyword and sign
  MaxAttempts, Backoff, MaxDelay,  \* 3, 1.5 s, 8 s
  None, NaN,            \* no Retry-After; one that says "nan"
  Headers,              \* Retry-After as Gemini may send it: half seconds, None, NaN
  Batches,              \* what may be asked to categorize
  LabelTexts,           \* sequences of [id, category] a model may write
  Model, Canned, Cited  \* texts: the model's, the canned one, that with citations

ASSUME EngineAssumption ==
  /\ Keyword \in [Ids -> Categories] /\ Batches \subseteq Seq(Ids)
  /\ MaxAttempts \in Nat \ {0} /\ Backoff \in Nat /\ MaxDelay \in Nat
  /\ NaN \notin Int /\ None \notin Int /\ None # NaN
  /\ Headers \subseteq Int \cup {None, NaN}
  /\ \A labels \in LabelTexts : Len(labels) \in Nat /\ DOMAIN labels = 1..Len(labels)
  /\ None \notin {Model, Canned, Cited}

VARIABLES
  enabled, asked, said, answer,  \* as in Oracle
  job                            \* the locals of _generate

engineVars == <<enabled, asked, said, answer, job>>
question == <<enabled, asked>>

NoQuestion == [kind |-> "none", batch |-> <<>>]
NoAnswer == [labels |-> <<>>, text |-> None, flag |-> FALSE]
NoJob == [pc |-> "idle", attempt |-> 0, delay |-> 0, slept |-> 0]
Shapes == {"blank", "prose", "broken", "tips"}

EngineInit ==
  /\ enabled \in BOOLEAN
  /\ asked = NoQuestion /\ said = <<>> /\ answer = NoAnswer /\ job = NoJob

-----------------------------------------------------------------------------
(* Waits.                                                                  *)

(* A past date or a negative number of seconds becomes 0; junk is None.    *)
HeaderSeconds(h) == IF h \in {None, NaN} THEN h ELSE IF h < 0 THEN 0 ELSE h

(* Bug: the hint is taken as it is.                                        *)
RetryDelayUncapped(h, attempt) ==
  IF HeaderSeconds(h) = None THEN Backoff * (attempt + 1) ELSE HeaderSeconds(h)

(* A hint replaces the backoff; min(nan, 8.0) is nan.                      *)
RetryDelay(h, attempt) ==
  LET hint == HeaderSeconds(h)
      wait == IF hint = None THEN Backoff * (attempt + 1) ELSE hint
  IN  IF wait = NaN THEN NaN ELSE IF wait > MaxDelay THEN MaxDelay ELSE wait

-----------------------------------------------------------------------------
(* The answers.                                                            *)
IdsOf(batch) == {batch[i] : i \in DOMAIN batch}

(* validate_output: one unknown category rejects the whole batch.          *)
Valid(labels) == \A i \in DOMAIN labels : labels[i].category \in Categories

(* The last label given to an id of the batch; other ids are dropped.      *)
Understood(labels, batch) ==
  LET named == {labels[i].id : i \in DOMAIN labels} \cap IdsOf(batch)
  IN  [id \in named |->
         labels[CHOOSE i \in DOMAIN labels : /\ labels[i].id = id
           /\ \A j \in DOMAIN labels : labels[j].id = id => j <= i].category]

(* Bug: the flag compares with the ids, though two lines may share one.    *)
LabelsByIds(batch, m) ==
  [labels |-> [id \in IdsOf(batch) |-> IF id \in DOMAIN m THEN m[id] ELSE Keyword[id]],
   text |-> Canned, flag |-> Cardinality(DOMAIN m) = Cardinality(IdsOf(batch))]

Labels(batch, m) ==
  [labels |-> [id \in IdsOf(batch) |-> IF id \in DOMAIN m THEN m[id] ELSE Keyword[id]],
   text |-> Canned,
   flag |-> batch # <<>> /\ Cardinality(DOMAIN m) = Len(batch)]

Text(t, flag) == [labels |-> <<>>, text |-> t, flag |-> flag]

(* What the caller gets when no text came that passes.                     *)
Fallback ==
  IF asked.kind = "categorize" THEN Labels(asked.batch, <<>>)
  ELSE IF asked.kind = "chat" /\ ~enabled THEN Text(Cited, TRUE)
  ELSE Text(Canned, FALSE)

Deliver(a, m) == /\ answer' = a /\ said' = m
                 /\ job' = [job EXCEPT !.pc = "answered"]

-----------------------------------------------------------------------------
(* categorize, queen_tips, chat up to _generate.                           *)
Ask(kind, batch) ==
  /\ job.pc \in {"idle", "answered"}
  /\ asked' = [kind |-> kind, batch |-> batch]
  /\ job' = [NoJob EXCEPT !.pc = IF enabled /\ (kind = "categorize" => batch # <<>>)
                                THEN "call" ELSE "fallback"]
  /\ answer' = NoAnswer /\ said' = <<>>
  /\ UNCHANGED enabled

(* provider.complete returns a text: guardrail, then the answer.           *)
CompleteLabels ==
  /\ job.pc = "call" /\ asked.kind = "categorize"
  /\ \E labels \in LabelTexts :
       IF Valid(labels)
       THEN LET m == Understood(labels, asked.batch) IN Deliver(Labels(asked.batch, m), m)
       ELSE Deliver(Fallback, <<>>)
  /\ UNCHANGED question

CompleteText ==
  /\ job.pc = "call"
  /\ \E shape \in Shapes :
       Deliver(IF \/ asked.kind = "tips" /\ shape = "tips"
                  \/ asked.kind = "chat" /\ shape # "blank"
               THEN Text(Model, TRUE) ELSE Fallback, <<>>)
  /\ UNCHANGED question

(* complete raises.  429, 5xx, a timeout, no connection, or a message with *)
(* a marker in it are transient; only a status brings a Retry-After.       *)
ProviderFails ==
  /\ job.pc = "call"
  /\ \E transient \in BOOLEAN, h \in Headers :
       job' = IF transient /\ job.attempt < MaxAttempts - 1
              THEN [job EXCEPT !.pc = "sleep", !.delay = RetryDelay(h, job.attempt)]
              ELSE [job EXCEPT !.pc = "fallback"]
  /\ UNCHANGED <<question, said, answer>>

(* Bug: a wait starts the count of attempts again.                         *)
SleepAndStartOver ==
  /\ job.pc = "sleep"
  /\ job' = IF job.delay = NaN THEN [job EXCEPT !.pc = "fallback", !.delay = 0]
            ELSE [pc |-> "call", attempt |-> 0, delay |-> 0,
                  slept |-> job.slept + job.delay]
  /\ UNCHANGED <<question, said, answer>>

(* time.sleep(nan) raises, out of the loop.                                *)
Sleep ==
  /\ job.pc = "sleep"
  /\ job' = IF job.delay = NaN THEN [job EXCEPT !.pc = "fallback", !.delay = 0]
            ELSE [pc |-> "call", attempt |-> job.attempt + 1, delay |-> 0,
                  slept |-> job.slept + job.delay]
  /\ UNCHANGED <<question, said, answer>>

FallBack ==
  /\ job.pc = "fallback"
  /\ Deliver(Fallback, <<>>)
  /\ UNCHANGED question

EngineStep == CompleteLabels \/ CompleteText \/ ProviderFails \/ Sleep \/ FallBack

EngineNext ==
  \/ \E batch \in Batches : Ask("categorize", batch)
  \/ \E kind \in {"tips", "chat"} : Ask(kind, <<>>)
  \/ EngineStep

EngineSpec == EngineInit /\ [][EngineNext]_engineVars
-----------------------------------------------------------------------------
(* Properties.                                                             *)

(* However Gemini fails and whatever Retry-After it sends, a question      *)
(* makes at most MaxAttempts calls and its worker sleeps at most MaxDelay  *)
(* between two of them.                                                    *)
HoldIsBounded ==
  /\ job.attempt < MaxAttempts
  /\ job.slept <= (MaxAttempts - 1) * MaxDelay

(* Every question is answered, also by a provider that fails for ever.     *)
QuestionsEnd == (asked # NoQuestion) ~> (answer # NoAnswer)

(* RF02: "a batch that does not cover every id is rejected", and "A        *)
(* rejected or missing model result uses the keyword map".  categorize     *)
(* keeps the labels that came and asks the map for the others only.        *)
PartialBatchesAreRejected ==
  asked.kind = "categorize" /\ answer # NoAnswer /\ DOMAIN said # IdsOf(asked.batch) =>
    \A id \in IdsOf(asked.batch) : answer.labels[id] = Keyword[id]

(* Retries, errors and odd texts stay inside: callers see an Oracle.  Of a *)
(* batch the model named in part an Oracle promises what the code does,    *)
(* not what RF02 says.                                                     *)
Promise == INSTANCE Oracle
AnswersAsOracle == Promise!Spec
=============================================================================
