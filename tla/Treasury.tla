------------------------------ MODULE Treasury ------------------------------
(***************************************************************************)
(* What the dashboard and the prompts say about the stored rows.  Every    *)
(* GET is a list of statements; each sees the rows as they are committed   *)
(* when it runs, and syncs, unlinks and midnight fall between them.        *)
(*                                                                         *)
(* Amounts are cents and exact.  Days are numbered, months have            *)
(* MonthLength of them.  A description is the one word a pattern finds.    *)
(* rows are the transactions the joins of _transaction_statement return;   *)
(* the connections and accounts are the whole tables, and only they are    *)
(* joined here: a connection may have no account, an account no connection.*)
(***************************************************************************)
EXTENDS Integers, Sequences, FiniteSets, Functions

CONSTANTS
  Pool,         \* rows that may be stored: [id, day, amount, account, word, ai]
  Holdings,     \* what may be stored of banks: [connections, accounts], the
                \* accounts a set of [id, bank, balance]
  WordLabel,    \* the display label of a word, where a pattern has one
  AiLabel,      \* the display label of an AI category
  Overlaps,     \* words a question shares with a row: functions on Pool's ids
  SourceLimit, PageLimit,
  CategoryLimit, \* the 8 of build_ai_summary
  Counts,       \* numbers a question may name, 1 when it names none
  MonthLength,
  LastDay       \* bound

ASSUME TreasuryAssumption ==
  /\ SourceLimit \in Nat \ {0} /\ PageLimit \in Nat \ {0} /\ MonthLength \in Nat \ {0}
  /\ CategoryLimit \in Nat \ {0}
  /\ IsFiniteSet(Pool) /\ \A x, y \in Pool : x.id = y.id => x = y
  /\ \A x \in Pool : x.id \in Int /\ x.day \in Nat \ {0} /\ x.amount \in Int
  /\ \A H \in Holdings :
       /\ IsFiniteSet(H.connections) /\ IsFiniteSet(H.accounts)
       /\ \A a \in H.accounts : a.balance \in Int
  /\ \A o \in Overlaps, x \in Pool : o[x.id] \in Nat
  /\ Counts \subseteq Int /\ LastDay \in Nat

VARIABLES
  rows, held, today,
  get,      \* the GET in progress: [plan, got, question, page]
  seen,     \* what a reader of the pages has been shown: times per id
  start,    \* history: the rows when the reader or the GET began
  grew,    \* history: rows came since
  moved    \* history: rows changed or went, a month ended, or rows came
           \* between the count and the page of one GET

db == <<rows, held, today>>
history == <<start, grew, moved>>
vars == <<db, get, seen, history>>

-----------------------------------------------------------------------------
(* treasury.py and display_category.py over a set of rows.                 *)
Amount == [t \in Pool |-> t.amount]
Spent == [t \in Pool |-> -t.amount]
Balance(A) == SumFunction([a \in A |-> a.balance])

Month(day) == (day - 1) \div MonthLength
InMonth(S, day) == {t \in S : Month(t.day) = Month(day)}

IsCardBillSettlement(t) == t.amount < 0 /\ t.account = "BANK" /\ t.word = "fatura"
Counted(S, day) == {t \in InMonth(S, day) : ~IsCardBillSettlement(t)}
Expenses(S, day) == {t \in Counted(S, day) : t.amount < 0}

DisplayCategory(t) ==
  IF t.amount > 0 THEN "Income"
  ELSE IF t.account = "CREDIT" /\ t.amount < 0 THEN "CreditCard"
  ELSE IF t.word \in DOMAIN WordLabel THEN WordLabel[t.word] ELSE AiLabel[t.ai]

MonthTotals(S, day) ==
  [month |-> Month(day), expenses |-> SumFunctionOnSet(Spent, Expenses(S, day)),
   income |-> SumFunctionOnSet(Amount, Counted(S, day) \ Expenses(S, day))]

(* Bug: the settlement of a card bill is left in.                          *)
ExpensesByCategoryAll(S, day) ==
  LET spent == {t \in InMonth(S, day) : t.amount < 0}
      of(label) == {t \in spent : DisplayCategory(t) = label}
  IN  [label \in {DisplayCategory(t) : t \in spent} |->
         [total |-> SumFunctionOnSet(Spent, of(label)), count |-> Cardinality(of(label))]]

ExpensesByCategory(S, day) ==
  LET of(label) == {t \in Expenses(S, day) : DisplayCategory(t) = label}
  IN  [label \in {DisplayCategory(t) : t \in Expenses(S, day)} |->
         [total |-> SumFunctionOnSet(Spent, of(label)), count |-> Cardinality(of(label))]]

(* One point for each day of the month that has come.                      *)
FirstDay(day) == Month(day) * MonthLength + 1
DailyCumulativeExpenses(S, day) ==
  [i \in 1..day - FirstDay(day) + 1 |->
     SumFunctionOnSet(Spent, {t \in Expenses(S, day) : t.day < FirstDay(day) + i})]

(* Bug: the accounts are not joined with the connections.                  *)
UserAccountsOfNoBank(H) == H.accounts

UserAccounts(H) == {a \in H.accounts : a.bank \in H.connections}
BalanceByConnection(A) ==
  [b \in {a.bank : a \in A} |-> Balance({a \in A : a.bank = b})]

(* A card of the overview for each connection, 0 where no account is.      *)
BankCards(banks, byBank) ==
  [b \in banks |-> IF b \in DOMAIN byBank THEN byBank[b] ELSE 0]

(* The labels a prompt lists: CategoryLimit of those with the largest      *)
(* totals, ties as the rows come.                                          *)
Ranked(breakdown) ==
  LET labels == DOMAIN breakdown
      all == Cardinality(labels)
  IN  {L \in SUBSET labels :
         /\ Cardinality(L) = IF all < CategoryLimit THEN all ELSE CategoryLimit
         /\ \A l \in L, m \in labels \ L : breakdown[l].total >= breakdown[m].total}

-----------------------------------------------------------------------------
(* grounding.py.                                                           *)
Abs(n) == IF n < 0 THEN -n ELSE n
AmountRank == [t \in Pool |-> <<-Abs(t.amount), -t.day, -t.id>>]
ExpenseRank == [t \in Pool |-> <<t.amount, -t.day, -t.id>>]
OverlapRank(overlap) ==
  [t \in Pool |-> <<-overlap[t.id], -Abs(t.amount), -t.day, -t.id>>]
Before(a, b) == \E i \in DOMAIN a : a[i] < b[i] /\ \A j \in 1..i - 1 : a[j] = b[j]
Place(t, S, rank) == 1 + Cardinality({u \in S : Before(rank[u], rank[t])})
Firsts(S, rank, n) ==
  [i \in 1..(IF Cardinality(S) < n THEN Cardinality(S) ELSE n) |->
     CHOOSE t \in S : Place(t, S, rank) = i]

NoQuestion == [kind |-> "none"]
Questions == {NoQuestion} \cup [kind : {"largest"}, n : Counts]
                          \cup [kind : {"named"}, overlap : Overlaps]
RequestedCount(n) == IF n < 1 THEN 1 ELSE IF n > SourceLimit THEN SourceLimit ELSE n

SelectGroundingSources(S, day, q) ==
  LET named == IF q.kind = "named" THEN {t \in Counted(S, day) : q.overlap[t.id] > 0} ELSE {}
  IN  IF q.kind = "largest" THEN Firsts(Expenses(S, day), ExpenseRank, RequestedCount(q.n))
      ELSE IF named # {} THEN Firsts(named, OverlapRank(q.overlap), SourceLimit)
      ELSE Firsts(Counted(S, day), AmountRank, SourceLimit)

-----------------------------------------------------------------------------
(* Pages: ordered by day only, so OFFSET and LIMIT cut a day's rows        *)
(* anywhere.  OfDay is how many rows of a day fall on positions after      *)
(* offset up to offset + limit.                                            *)
Clip(lo, hi) == IF hi > lo THEN hi - lo ELSE 0
OfDay(S, day, offset, limit) ==
  LET newer == Cardinality({t \in S : t.day > day})
      count == Cardinality({t \in S : t.day = day})
      low == IF newer > offset THEN newer ELSE offset
      high == IF newer + count < offset + limit THEN newer + count ELSE offset + limit
  IN  Clip(low, high)

PagesAt(S, offset, limit) ==
  {P \in SUBSET S : \A d \in {t.day : t \in S} :
     Cardinality({t \in P : t.day = d}) = OfDay(S, d, offset, limit)}

(* Bug: pages are numbered from nought.                                    *)
OffsetFromNought(page) == page * PageLimit
Offset(page) == (page - 1) * PageLimit

-----------------------------------------------------------------------------
Plans ==
  [overview |-> <<"byBank", "balance", "totals", "banks", "name">>,
   categories |-> <<"categories", "name">>,
   series |-> <<"series", "name">>,
   tips |-> <<"balance", "totals", "categories", "banks", "name", "sources">>,
   chat |-> <<"sources", "balance", "totals", "categories", "banks", "name">>,
   pages |-> <<"count", "page">>]

Reads(statement, q) ==
  CASE statement = "byBank" -> BalanceByConnection(UserAccounts(held))
    [] statement = "balance" -> Balance(UserAccounts(held))
    [] statement = "totals" -> MonthTotals(rows, today)
    [] statement = "categories" -> ExpensesByCategory(rows, today)
    [] statement = "series" -> DailyCumulativeExpenses(rows, today)
    [] statement = "banks" -> held.connections
    [] statement = "name" -> Month(today)
    [] statement = "sources" -> SelectGroundingSources(rows, today, q)
    [] statement = "count" -> Cardinality(InMonth(rows, today))

Closed == [kind |-> "none", left |-> <<>>, got |-> <<>>, question |-> NoQuestion, page |-> 0]
Unseen == [t \in Pool |-> 0]

Init ==
  /\ rows \in SUBSET Pool /\ held \in Holdings /\ today \in 1..LastDay
  /\ get = Closed /\ seen = Unseen
  /\ start = rows /\ grew = FALSE /\ moved = FALSE

Begin(kind) ==
  /\ get.left = <<>>
  /\ \E q \in IF kind = "chat" THEN Questions ELSE {NoQuestion} :
       get' = [kind |-> kind, left |-> Plans[kind], got |-> <<>>, question |-> q,
               page |-> 1]
  /\ seen' = Unseen /\ start' = rows /\ grew' = FALSE /\ moved' = FALSE
  /\ UNCHANGED db

Answered(got, statement, answer) ==
  [s \in DOMAIN got \cup {statement} |-> IF s = statement THEN answer ELSE got[s]]
Read ==
  /\ get.left # <<>> /\ Head(get.left) # "page"
  /\ get' = [get EXCEPT !.left = Tail(@),
       !.got = Answered(@, Head(get.left), Reads(Head(get.left), get.question))]
  /\ UNCHANGED <<db, seen, history>>

ReadPage ==
  /\ get.left # <<>> /\ Head(get.left) = "page"
  /\ \E P \in PagesAt(InMonth(rows, today), Offset(get.page), PageLimit) :
       seen' = [t \in Pool |-> IF t \in P THEN seen[t] + 1 ELSE seen[t]]
  /\ get' = [get EXCEPT !.left = Tail(@)]
  /\ UNCHANGED <<db, history>>

MorePages == get.kind = "pages" /\ get.page * PageLimit < get.got["count"]

(* The reader asks for the next page while the count says there is one.    *)
NextPage ==
  /\ get.left = <<>> /\ MorePages
  /\ get' = [get EXCEPT !.left = Plans["pages"], !.page = @ + 1]
  /\ UNCHANGED <<db, seen, history>>

SyncInserts ==
  /\ get.kind # "none" /\ ~moved /\ ~grew
  /\ \E t \in Pool \ rows : rows' = rows \cup {t}
  /\ grew' = TRUE /\ moved' = (get.left = <<"page">>)
  /\ UNCHANGED <<held, today, get, seen, start>>

(* A refreshed column, a new balance, an unlinked bank.                    *)
RowsChange ==
  /\ get.left # <<>> /\ ~moved
  /\ \/ (\E t \in rows : rows' = rows \ {t}) /\ UNCHANGED held
     \/ held' \in Holdings \ {held} /\ UNCHANGED rows
  /\ moved' = TRUE
  /\ UNCHANGED <<today, get, seen, start, grew>>

(* Inside a month a midnight changes nothing these GETs add up.            *)
Midnight ==
  /\ get.left # <<>> /\ today < LastDay
  /\ today' = today + 1
  /\ moved' = (moved \/ Month(today + 1) # Month(today))
  /\ UNCHANGED <<rows, held, get, seen, start, grew>>

Next ==
  \/ \E kind \in DOMAIN Plans : Begin(kind)
  \/ Read \/ ReadPage \/ NextPage
  \/ SyncInserts \/ RowsChange \/ Midnight

Spec == Init /\ [][Next]_vars
-----------------------------------------------------------------------------
(* Properties.                                                             *)
TotalOf(breakdown, L) ==
  SumFunctionOnSet([c \in DOMAIN breakdown |-> breakdown[c].total], L)
CategorySum(breakdown) == SumFunction([c \in DOMAIN breakdown |-> breakdown[c].total])
AmountsOf(s) == SumFunction([i \in DOMAIN s |-> s[i].amount])

(* The three cards of the dashboard agree on any rows: the expenses of the *)
(* overview are those of the categories, and the series ends there but for *)
(* rows dated after today.                                                 *)
TotalsAgree ==
  LET spent == MonthTotals(rows, today).expenses
      series == DailyCumulativeExpenses(rows, today)
  IN  /\ spent = CategorySum(ExpensesByCategory(rows, today))
      /\ spent = series[Len(series)]
           + SumFunctionOnSet(Spent, {t \in Expenses(rows, today) : t.day > today})

(* An answer that no commit and no month's end cut through adds up.  The   *)
(* overview: the balances on the banks' cards are the total, whatever bank *)
(* has no account and whatever account has lost its bank, and the month    *)
(* named is the month summed.  The prompts: the categories listed do not   *)
(* pass the month's expenses, and are those expenses when the list is not  *)
(* cut; the movements listed are no others than those behind the totals,   *)
(* and all of them when that list is not cut and no question narrowed it.  *)
OverviewAddsUp(o) ==
  /\ SumFunction(BankCards(o.banks, o.byBank)) = o.balance
  /\ o.totals.month = o.name

PromptAddsUp(p) ==
  /\ p.totals.month = p.name
  /\ \A L \in Ranked(p.categories) :
       /\ TotalOf(p.categories, L) <= p.totals.expenses
       /\ Cardinality(DOMAIN p.categories) <= CategoryLimit =>
            TotalOf(p.categories, L) = p.totals.expenses
  /\ \A i \in DOMAIN p.sources :
       LET amount == p.sources[i].amount
       IN  /\ Month(p.sources[i].day) = p.name
           /\ amount <= p.totals.income /\ -amount <= p.totals.expenses
  /\ get.question = NoQuestion /\ Len(p.sources) < SourceLimit =>
       AmountsOf(p.sources) = p.totals.income - p.totals.expenses

AnswersAddUp ==
  get.left = <<>> /\ ~grew /\ ~moved =>
    /\ get.kind = "overview" => OverviewAddsUp(get.got)
    /\ get.kind \in {"tips", "chat"} => PromptAddsUp(get.got)

(* Whoever reads on until the count is reached sees, of each day, at least *)
(* as many items as the day had rows: what is missing is made up for by a  *)
(* repeated row of the same day, and only ties are ever lost, also when a  *)
(* sync inserts rows between two pages.                                    *)
PagesLoseOnlyTies ==
  get.kind = "pages" /\ get.left = <<>> /\ ~MorePages /\ ~moved =>
    \A t \in InMonth(start, today) :
      SumFunctionOnSet(seen, {x \in Pool : x.day = t.day})
        >= Cardinality({x \in start : x.day = t.day})
=============================================================================
