---------------------------- MODULE PluggyClient ----------------------------
(***************************************************************************)
(* The client of one API request for Pluggy: it mints an API key when it   *)
(* holds none that is fresh, reads an item and its accounts, and walks the *)
(* cursor pages of an account's transactions.  Without credentials it is a *)
(* simulator that never fails.                                             *)
(*                                                                         *)
(* now counts minutes.  A transaction is its place in the bank's list, 1   *)
(* the oldest, which stands for its id; what the bank shows there is its   *)
(* movement (description, amount and date).  At any moment the bank may    *)
(* add one or change one.  It serves the newest first.                     *)
(***************************************************************************)
EXTENDS Integers, Sequences, FiniteSets

CONSTANTS
  Ttl,              \* _API_KEY_TTL
  Life,             \* how long Pluggy honours a key
  MaxPages,         \* _MAX_TRANSACTION_PAGES
  PageSize,         \* Pluggy's, not the client's
  Movements,        \* two transactions may show the same one
  SimulatedFeed,    \* the salary and the purchases the simulator makes up
  LastMinute, LastListed  \* bounds

ASSUME PluggyAssumption ==
  /\ Ttl \in Nat /\ Life \in Nat /\ Ttl < Life
  /\ MaxPages \in Nat \ {0} /\ PageSize \in Nat \ {0}
  /\ LastMinute \in Nat /\ LastListed \in Nat
  /\ DOMAIN SimulatedFeed \subseteq Nat /\ IsFiniteSet(DOMAIN SimulatedFeed)
  /\ SimulatedFeed \in [DOMAIN SimulatedFeed -> Movements]

VARIABLES
  live,    \* settings.pluggy_enabled
  now,     \* the wall clock
  key,     \* _api_key: [minted, expires]; minted is Pluggy's clock
  call,    \* the operation in progress or the last one
  listed   \* what the bank lists for the account: a movement per place

pluggyVars == <<live, now, key, call, listed>>

NoKey == [minted |-> 0, expires |-> 0]
ApiKeys == [minted : 0..LastMinute, expires : 0..LastMinute + Ttl]
Operations == {"item", "accounts", "transactions", "none"}
AtRest == {"idle", "done", "failed"}
Lists == {l \in Seq(Movements) : Len(l) <= LastListed}
(* What a walk brings: places, each with the movement first served there.  *)
Feeds == UNION {[places -> Movements] :
                  places \in SUBSET (1..LastListed \cup DOMAIN SimulatedFeed)}
NoFeed == [i \in {} |-> i]
(* read: the minute _authenticate read; from: the cursor; pages and got:   *)
(* the walk so far; known: how many were listed when it began (history).   *)
NoCall == [op |-> "none", pc |-> "idle", read |-> 0, from |-> 0, pages |-> 0,
           got |-> NoFeed, known |-> 0]

PluggyTypeOK ==
  /\ live \in BOOLEAN /\ now \in 0..LastMinute /\ listed \in Lists
  /\ key \in ApiKeys
  /\ call \in [op : Operations, pc : AtRest \cup {"auth", "post", "get"},
               read : 0..now, from : 0..LastListed, pages : 0..MaxPages,
               got : Feeds, known : 0..LastListed]

PluggyInit ==
  /\ live \in BOOLEAN /\ now = 0 /\ key = NoKey /\ call = NoCall
  /\ \E n \in 0..LastListed : listed \in [1..n -> Movements]

Honoured(k) == now < k.minted + Life
CallGoes(pc) == call' = [call EXCEPT !.pc = pc]

-----------------------------------------------------------------------------
SimulateCall(op) ==
  /\ ~live
  /\ call' = [NoCall EXCEPT !.op = op, !.pc = "done",
                !.got = IF op = "transactions" THEN SimulatedFeed ELSE NoFeed]
  /\ UNCHANGED <<live, now, key, listed>>

BeginCall(op) ==
  /\ live
  /\ call' = [NoCall EXCEPT !.op = op, !.pc = "auth",
                !.known = IF op = "transactions" THEN Len(listed) ELSE 0]
  /\ UNCHANGED <<live, now, key, listed>>

(* Bug: the key is never minted again.                                     *)
ReadClockOnce ==
  /\ call.pc = "auth"
  /\ call' = [call EXCEPT !.read = now, !.pc = IF key # NoKey THEN "get" ELSE "post"]
  /\ UNCHANGED <<live, now, key, listed>>

(* _authenticate: a key that is fresh by the client's clock is used again. *)
ReadClock ==
  /\ call.pc = "auth"
  /\ call' = [call EXCEPT !.read = now, !.pc = IF now < key.expires THEN "get" ELSE "post"]
  /\ UNCHANGED <<live, now, key, listed>>

(* The expiry counts from before the request, Pluggy's from when it mints. *)
MintKey ==
  /\ call.pc = "post"
  /\ key' = [minted |-> now, expires |-> call.read + Ttl]
  /\ CallGoes("get")
  /\ UNCHANGED <<live, now, listed>>

ReadOnce ==
  /\ call.pc = "get" /\ call.op \in {"item", "accounts"} /\ Honoured(key)
  /\ CallGoes("done")
  /\ UNCHANGED <<live, now, key, listed>>

(* The first page starts at whatever is listed when Pluggy answers it.     *)
Cursor == IF call.pages = 0 THEN Len(listed) ELSE call.from
Page(from) == {i \in 1..from : i > from - PageSize}
Rest(from) == IF from > PageSize THEN from - PageSize ELSE 0
(* A page added to the walk.  Of an id that comes twice only the first     *)
(* copy counts (_dedupe_remote_transactions).                              *)
WithPage(got, from) ==
  [i \in DOMAIN got \cup Page(from) |-> IF i \in DOMAIN got THEN got[i] ELSE listed[i]]

(* Bug: an empty "next" ends the walk before the page is kept.             *)
ReadPageLastLost ==
  /\ call.pc = "get" /\ call.op = "transactions" /\ Honoured(key)
  /\ \E next \in Rest(Cursor)..Cursor :
       /\ next = 0 <=> Rest(Cursor) = 0
       /\ call' = [call EXCEPT
            !.from = next, !.pages = @ + 1,
            !.got = IF next = 0 THEN @ ELSE WithPage(@, Cursor),
            !.pc = IF next = 0 \/ call.pages + 1 = MaxPages THEN "done" ELSE "get"]
  /\ UNCHANGED <<live, now, key, listed>>

(* Bug: the pages of a walk are not bounded; the count wraps.              *)
ReadPageUnbounded ==
  /\ call.pc = "get" /\ call.op = "transactions" /\ Honoured(key)
  /\ \E next \in Rest(Cursor)..Cursor :
       /\ next = 0 <=> Rest(Cursor) = 0
       /\ call' = [call EXCEPT !.from = next, !.pages = (@ % MaxPages) + 1,
                              !.got = WithPage(@, Cursor),
                              !.pc = IF next = 0 THEN "done" ELSE "get"]
  /\ UNCHANGED <<live, now, key, listed>>

(* One page.  next is null (0) on the last page; elsewhere the cursor goes *)
(* on behind this page, or a malformed one points back into it, down to    *)
(* its own start.                                                          *)
ReadPage ==
  /\ call.pc = "get" /\ call.op = "transactions" /\ Honoured(key)
  /\ \E next \in Rest(Cursor)..Cursor :
       /\ next = 0 <=> Rest(Cursor) = 0
       /\ call' = [call EXCEPT
            !.from = next, !.pages = @ + 1, !.got = WithPage(@, Cursor),
            !.pc = IF next = 0 \/ call.pages + 1 = MaxPages THEN "done" ELSE "get"]
  /\ UNCHANGED <<live, now, key, listed>>

(* A status of 400 or more, or no answer within httpx's timeout.           *)
FailCall ==
  /\ call.pc \in {"post", "get"}
  /\ CallGoes("failed")
  /\ UNCHANGED <<live, now, key, listed>>

CallStep == ReadClock \/ MintKey \/ ReadOnce \/ ReadPage \/ FailCall

BankAdds ==
  /\ live /\ Len(listed) < LastListed
  /\ \E m \in Movements : listed' = Append(listed, m)
  /\ UNCHANGED <<live, now, key, call>>

(* A pending transaction settles under another description or amount.      *)
BankChanges ==
  /\ live
  /\ \E i \in DOMAIN listed, m \in Movements : listed' = [listed EXCEPT ![i] = m]
  /\ UNCHANGED <<live, now, key, call>>

ClockTicks ==
  /\ live /\ now < LastMinute
  /\ now' = now + 1
  /\ UNCHANGED <<live, key, call, listed>>

PluggyNext ==
  \/ call.pc \in AtRest /\ \E op \in Operations \ {"none"} : SimulateCall(op) \/ BeginCall(op)
  \/ CallStep \/ BankAdds \/ BankChanges \/ ClockTicks

PluggySpec == PluggyInit /\ [][PluggyNext]_pluggyVars
-----------------------------------------------------------------------------
(* Properties.                                                             *)

(* A walk that ends with success holds everything the bank listed when it  *)
(* began, whatever overlaps between pages and however the cursor points    *)
(* back, or it was cut at the page bound and then lacks only the oldest.   *)
FeedIsWholeOrCut ==
  live /\ call.op = "transactions" /\ call.pc = "done" =>
    \/ 1..call.known \subseteq DOMAIN call.got
    \/ /\ call.pages = MaxPages
       /\ \E oldest \in 1..LastListed :
            DOMAIN call.got \cap 1..call.known = oldest..call.known

(* A call that goes on with a key Pluggy no longer honours has been on its *)
(* way for Life - Ttl minutes since it looked at the key: the margin the   *)
(* client leaves below Pluggy's two hours is what keeps a page from being  *)
(* refused in the middle of a feed.                                        *)
KeyDiesOnlyOnSlowCalls ==
  call.pc = "get" /\ ~Honoured(key) => now - call.read >= Life - Ttl
=============================================================================
