----------------------------- MODULE MCUpstream -----------------------------
(* A small instance of Seeding and Engine for TLC.  The two share nothing, *)
(* so a behaviour has the steps of one of them, and their settings agree.  *)
EXTENDS Seeding, Engine

CONSTANTS food, other, t1, t2, t9, m1, m2

(* Two purchases of the simulator that are alike in all but the id.        *)
TwoAlike == [i \in {1, 2} |-> m1]

FirstKeyword == [id \in Ids |-> other]
TwoLines == {<<>>, <<t1, t2>>, <<t1, t1>>}
(* t9 is an id nobody asked about, "Spells" no category. *)
Said(id, c) == [id |-> id, category |-> c]
ModelTexts == {<<>>, <<Said(t1, food)>>, <<Said(t1, other), Said(t1, food)>>,
  <<Said(t1, food), Said(t2, food)>>, <<Said(t1, food), Said(t2, "Spells")>>,
  <<Said(t9, food), Said(t2, food)>>}
(* Half seconds: none, "nan", a date in the past, 2 s, an hour. *)
RetryAfters == {None, NaN, -10, 4, 7200}

vars == <<fleetVars, engineVars>>
(* The clock runs, and the list grows beyond two, while every transaction  *)
(* shows the same movement (a bound).                                      *)
Apart == \/ now = 0 /\ Len(listed) <= 2
         \/ \A i \in DOMAIN listed : listed[i] = m1
Init == SeedInit /\ EngineInit /\ enabled = live /\ Apart
Script == asked = NoQuestion /\ ScriptStep /\ UNCHANGED engineVars
Server == asked = NoQuestion /\ ServerStep /\ UNCHANGED engineVars
Asking == script = Ready /\ status = <<>> /\ UNCHANGED fleetVars
Next ==
  \/ asked = NoQuestion /\ SeedNext /\ UNCHANGED engineVars
  \/ Asking /\ EngineNext
(* The script, the request and the engine keep going; Pluggy need not      *)
(* finish an item, nor the provider answer.                                *)
Spec ==
  /\ Init /\ [][Next /\ Apart']_vars
  /\ WF_vars(Script) /\ WF_vars(Server) /\ WF_vars(Asking /\ EngineStep)
=============================================================================
