------------------------------- MODULE Oracle -------------------------------
(***************************************************************************)
(* What sync, chat and tips may rely on when they ask the AI engine, said  *)
(* without attempts, delays or errors: there is always an answer, it keeps *)
(* to the contract, and its flag says whether the model stands behind it.  *)
(***************************************************************************)
EXTENDS Naturals, Sequences

CONSTANTS Ids, Categories, Keyword, None, Model, Canned, Cited

VARIABLES
  enabled,  \* settings.gemini_enabled
  asked,    \* the question: [kind, batch]
  said,     \* what the model was understood to say: id -> category, or a text
  answer    \* [labels, text, flag], or NoAnswer

NoQuestion == [kind |-> "none", batch |-> <<>>]
NoAnswer == [labels |-> <<>>, text |-> None, flag |-> FALSE]
Nothing == <<>>

(* Every id of the batch has one category, the model's where it gave one;  *)
(* the flag is up only when the model named as many as there are.  Labels  *)
(* of a batch named in part count too: RF02 says that they are rejected.   *)
Labelled(batch, labels, flag) ==
  LET ids == {batch[i] : i \in DOMAIN batch}
  IN  /\ DOMAIN labels = ids
      /\ \A id \in ids : labels[id] = IF id \in DOMAIN said' THEN said'[id] ELSE Keyword[id]
      /\ flag => batch # <<>> /\ ids = DOMAIN said'
                 /\ \A i, j \in DOMAIN batch : batch[i] = batch[j] => i = j

Init ==
  /\ enabled \in BOOLEAN
  /\ asked = NoQuestion /\ said = Nothing /\ answer = NoAnswer

Ask ==
  /\ asked = NoQuestion \/ answer # NoAnswer
  /\ asked' \in [kind : {"categorize", "tips", "chat"}, batch : Seq(Ids)]
  /\ said' = Nothing /\ answer' = NoAnswer
  /\ UNCHANGED enabled

Label ==
  /\ asked.kind = "categorize" /\ answer = NoAnswer
  /\ enabled \/ said' = Nothing
  /\ DOMAIN said' \subseteq Ids /\ \A id \in DOMAIN said' : said'[id] \in Categories
  /\ answer'.text = Canned
  /\ Labelled(asked.batch, answer'.labels, answer'.flag)
  /\ UNCHANGED <<enabled, asked>>

(* A text of the model's own is flagged; a canned one is flagged only by a *)
(* deployment without a model, where chat will say the same all day.       *)
Speak ==
  /\ asked.kind \in {"tips", "chat"} /\ answer = NoAnswer
  /\ answer'.labels = <<>> /\ said' = Nothing
  /\ \/ enabled /\ answer'.text = Model /\ answer'.flag
     \/ answer'.text = Canned /\ ~answer'.flag /\ (enabled \/ asked.kind = "tips")
     \/ ~enabled /\ asked.kind = "chat" /\ answer'.text = Cited /\ answer'.flag
  /\ UNCHANGED <<enabled, asked>>

Next == Ask \/ Label \/ Speak
Spec == Init /\ [][Next]_<<enabled, asked, said, answer>>
=============================================================================
