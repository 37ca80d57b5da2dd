------------------------------- MODULE Seeding -------------------------------
(***************************************************************************)
(* scripts/seed_demo_connection.py against a running API: the script makes *)
(* an item at Pluggy, polls it, and posts it to /v1/connections/sync with  *)
(* a timeout of its own.  The request it leaves behind goes on.  The sync  *)
(* is cut down to its calls of the Pluggy client, whose steps are those of *)
(* PluggyClient, and the merge of what they bring; the AI engine always    *)
(* answers (Oracle), so labelling is part of Store.                        *)
(***************************************************************************)
EXTENDS PluggyClient

CONSTANTS
  Items,      \* the items Pluggy may create, numbered; 0 is none
  MaxConnections, Polls,
  Terminal    \* TERMINAL_FAILURES

ASSUME SeedingAssumption ==
  /\ Items \subseteq Nat \ {0} /\ MaxConnections \in Nat /\ Polls \in Nat \ {0}

VARIABLES
  readOnly,   \* DEMO_READ_ONLY
  status,     \* of the items Pluggy has created
  script,     \* the script: where it is, its item, how often it polled
  server,     \* the sync request: where it is, its item, its status code
  linked,     \* items with a connection row
  rows        \* transactions stored for each item: a movement per place

seedVars == <<readOnly, status, script, server, linked, rows>>
fleetVars == <<pluggyVars, seedVars>>

Ready == [pc |-> "auth", item |-> 0, poll |-> 0]
Free == [pc |-> "idle", item |-> 0, code |-> 0]
Ended == {"done", "failed"}

SeedInit ==
  /\ PluggyInit
  /\ readOnly \in BOOLEAN /\ status = <<>>
  /\ script = Ready /\ server = Free
  /\ linked = {} /\ rows = [i \in Items |-> NoFeed]

-----------------------------------------------------------------------------
(* The script.                                                             *)
Others == <<pluggyVars, readOnly, linked, rows>>
On(from, to) == script.pc = from /\ script' = [script EXCEPT !.pc = to]

(* The key, the connector and the demo user; later the second login.       *)
Prepare ==
  /\ On("auth", "item") \/ On("login", "quota")
  /\ UNCHANGED <<Others, status, server>>

CreateItem ==
  /\ script.pc = "item"
  /\ \E i \in Items \ DOMAIN status :
       /\ \A j \in Items \ DOMAIN status : i <= j
       /\ status' = [j \in DOMAIN status \cup {i} |->
                       IF j = i THEN "UPDATING" ELSE status[j]]
       /\ script' = [script EXCEPT !.pc = "await", !.item = i]
  /\ UNCHANGED <<Others, server>>

(* Bug: the polls are not counted.                                         *)
PollForever ==
  /\ script.pc = "await"
  /\ script' = IF status[script.item] = "UPDATED" THEN [script EXCEPT !.pc = "login"]
               ELSE IF status[script.item] \in Terminal THEN [script EXCEPT !.pc = "failed"]
               ELSE [script EXCEPT !.poll = (@ + 1) % Polls]
  /\ UNCHANGED <<Others, status, server>>

Poll ==
  /\ script.pc = "await"
  /\ script' = IF status[script.item] = "UPDATED" THEN [script EXCEPT !.pc = "login"]
               ELSE IF status[script.item] \in Terminal THEN [script EXCEPT !.pc = "failed"]
               ELSE [script EXCEPT !.poll = @ + 1,
                       !.pc = IF script.poll + 1 = Polls THEN "failed" ELSE "await"]
  /\ UNCHANGED <<Others, status, server>>

(* POST /v1/connections/connect: read-only and the plan limit refuse.      *)
AskQuota ==
  /\ script.pc = "quota"
  /\ script' = [script EXCEPT !.pc =
       IF readOnly \/ Cardinality(linked) >= MaxConnections THEN "failed" ELSE "sync"]
  /\ UNCHANGED <<Others, status, server>>

(* One sync at a time (a bound).                                           *)
PostSync ==
  /\ On("sync", "waiting") /\ server.pc = "idle"
  /\ server' = [pc |-> "claim", item |-> script.item, code |-> 0]
  /\ UNCHANGED <<Others, status>>

(* A request's Pluggy client, with its key, goes with it.                  *)
ServerLeaves ==
  /\ server.pc = "replied" /\ server' = Free
  /\ key' = NoKey /\ call' = NoCall
  /\ UNCHANGED <<live, now, listed, readOnly, status, linked, rows>>

ReadReply ==
  /\ script.pc = "waiting" /\ ServerLeaves
  /\ script' = [script EXCEPT !.pc = IF server.code = 200 THEN "done" ELSE "failed"]

(* Any call of the script may fail, and the sync may outlast its timeout.  *)
GiveUp ==
  /\ script.pc \notin Ended
  /\ script' = [script EXCEPT !.pc = "failed"]
  /\ UNCHANGED <<Others, status, server>>

RunAgain ==
  /\ script.pc \in Ended /\ Items # DOMAIN status
  /\ script' = Ready
  /\ UNCHANGED <<Others, status, server>>

(* Pluggy finishes an item, or ends it in a failure.                       *)
ItemMoves ==
  /\ \E i \in DOMAIN status, s \in Terminal \cup {"UPDATED"} :
       status[i] = "UPDATING" /\ status' = [status EXCEPT ![i] = s]
  /\ UNCHANGED <<Others, script, server>>

-----------------------------------------------------------------------------
(* The request.                                                            *)
ServerGoes(from, to) == server.pc = from /\ server' = [server EXCEPT !.pc = to]
Reply(code) == server' = [server EXCEPT !.pc = "replied", !.code = code]

Start(op) == (SimulateCall(op) \/ BeginCall(op)) /\ UNCHANGED seedVars
CallIs(op, pc) == call.op = op /\ call.pc = pc
NotYet(op) == call.op # op
StartCall ==
  \/ server.pc = "claim" /\ NotYet("item") /\ Cardinality(linked) < MaxConnections
     /\ Start("item")
  \/ server.pc = "accounts" /\ NotYet("accounts") /\ Start("accounts")
  \/ server.pc = "feed" /\ NotYet("transactions") /\ Start("transactions")

RefuseLink ==
  /\ server.pc = "claim" /\ NotYet("item") /\ Cardinality(linked) >= MaxConnections
  /\ Reply(403)
  /\ UNCHANGED <<Others, status, script>>

Link ==
  /\ CallIs("item", "done") /\ ServerGoes("claim", "accounts")
  /\ linked' = linked \cup {server.item}
  /\ UNCHANGED <<pluggyVars, readOnly, status, script, rows>>

(* An item that still updates shows no account: nothing to fetch or store. *)
ReadAccounts ==
  /\ server.pc = "accounts" /\ CallIs("accounts", "done")
  /\ IF live /\ status[server.item] # "UPDATED" THEN Reply(200)
     ELSE ServerGoes("accounts", "feed")
  /\ UNCHANGED <<Others, status, script>>

(* Bug: a movement is stored under every id that brings it.                *)
MergedById(stored, got) ==
  [i \in DOMAIN stored \cup DOMAIN got |-> IF i \in DOMAIN got THEN got[i] ELSE stored[i]]

(* The merge of one fetch.  A stored id is refreshed.  An id that is not   *)
(* stored is skipped when its movement has been seen: on a stored row, or  *)
(* on an id served before it, which is one listed after it.                *)
Merged(stored, got) ==
  LET seen(i) == \/ \E j \in DOMAIN stored : stored[j] = got[i]
                 \/ \E j \in DOMAIN got : j > i /\ got[j] = got[i]
      added == {i \in DOMAIN got \ DOMAIN stored : ~seen(i)}
  IN  [i \in DOMAIN stored \cup added |-> IF i \in DOMAIN got THEN got[i] ELSE stored[i]]

Store ==
  /\ server.pc = "feed" /\ CallIs("transactions", "done")
  /\ Reply(200)
  /\ rows' = [rows EXCEPT ![server.item] = Merged(@, call.got)]
  /\ UNCHANGED <<pluggyVars, readOnly, status, script, linked>>

UpstreamFails ==
  /\ call.pc = "failed" /\ server.pc \notin {"idle", "replied"}
  /\ Reply(502)
  /\ UNCHANGED <<Others, status, script>>

(* Nobody waits any more: the answer goes nowhere.                         *)
DropReply ==
  /\ script.pc # "waiting" /\ ServerLeaves
  /\ UNCHANGED script

(* The clock runs during calls, the bank adds and changes during walks (a  *)
(* bound).                                                                 *)
World ==
  /\ call.pc \notin AtRest
  /\ ClockTicks \/ (call.op = "transactions" /\ (BankAdds \/ BankChanges))
  /\ UNCHANGED seedVars

ScriptStep ==
  Prepare \/ CreateItem \/ Poll \/ AskQuota \/ PostSync \/ ReadReply
ServerStep ==
  \/ StartCall \/ RefuseLink \/ Link \/ ReadAccounts \/ Store
  \/ UpstreamFails \/ DropReply
  \/ CallStep /\ UNCHANGED seedVars

SeedNext == ScriptStep \/ GiveUp \/ RunAgain \/ ItemMoves \/ ServerStep \/ World
SeedSpec == SeedInit /\ [][SeedNext]_fleetVars

-----------------------------------------------------------------------------
(* Properties.                                                             *)

(* "Done" is printed for an item that is linked and updated.  Each         *)
(* transaction Pluggy listed when the walk began was fetched, up to the    *)
(* page bound, and the movement it was fetched with is on a stored row of  *)
(* the item: on exactly one, however many ids brought it.  So it is in the *)
(* second run after one that gave up while its sync went on.               *)
HoldsOnce(stored, got) ==
  /\ \A i \in DOMAIN got : \E j \in DOMAIN stored : stored[j] = got[i]
  /\ \A i, j \in DOMAIN stored : stored[i] = stored[j] => i = j
DoneMeansStored ==
  [][script'.pc = "done" /\ script.pc # "done" =>
       /\ script.item \in linked
       /\ HoldsOnce(rows[script.item], call.got)
       /\ live => /\ status[script.item] = "UPDATED"
                  /\ \/ 1..call.known \subseteq DOMAIN call.got
                     \/ call.pages = MaxPages]_fleetVars

(* Every run of the script that got past its first calls ends, though an   *)
(* item may update for ever.                                               *)
ScriptEnds == (script.pc \notin Ended \cup {"auth"}) ~> (script.pc \in Ended)

(* The request ends whether or not the script still waits: the page bound  *)
(* ends a walk with a cursor that points back.                             *)
SyncEnds == (server.pc # "idle") ~> (server.pc = "idle")
=============================================================================
