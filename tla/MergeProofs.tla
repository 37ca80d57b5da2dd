---------------------------- MODULE MergeProofs ----------------------------
(***************************************************************************)
(* Theorems about the two places that tell copies from transactions.  The  *)
(* loop of a sync, for every set of stored rows and every feed, in any     *)
(* order and with any repetitions.  The upgrade, for every table of usage  *)
(* and of transactions, and every interleaving of requests with it.        *)
(***************************************************************************)
EXTENDS MovementMerge, Migrations, FoldFacts

-----------------------------------------------------------------------------
(* What a fetch does to rows.                                              *)
(* Whatever has a key and a movement, be it a stored row or an entry.      *)
Carries(row) ==
  /\ row = [k \in DOMAIN row |-> row[k]]
  /\ {"account", "tid", "mv"} \subseteq DOMAIN row
  /\ row.mv \in Movement

LEMMA RefreshedFields ==
  ASSUME NEW row, Carries(row), NEW writes
  PROVE  /\ SameKey(Refreshed(row, writes), row)
         /\ DOMAIN Refreshed(row, writes) = DOMAIN row
         /\ \A k \in DOMAIN row \ {"mv"} : Refreshed(row, writes)[k] = row[k]
         /\ Refreshed(row, writes).mv =
              [f \in Fields |-> IF \E w \in writes : SameKey(w, row) /\ w.field = f
                 THEN (CHOOSE w \in writes : SameKey(w, row) /\ w.field = f).value
                 ELSE row.mv[f]]
BY DEF Carries, Refreshed, SameKey

LEMMA FirstCopiesDiffer ==
  ASSUME NEW fetched \in Seq(RemoteTx), NEW i \in FirstCopies(fetched), NEW j \in FirstCopies(fetched)
  PROVE  i \in Int /\ j \in Int /\ (fetched[i].tid = fetched[j].tid => i = j)
<1>1. i \in 1..Len(fetched) /\ j \in 1..Len(fetched)
  BY DEF FirstCopies
<1>2. fetched[i].tid = fetched[j].tid => ~(i < j) /\ ~(j < i)
  BY <1>1 DEF FirstCopies
<1> QED
  BY <1>1, <1>2

(* Writes that name another row leave a row as it is.                      *)
LEMMA UntouchedRow ==
  ASSUME NEW row, Carries(row), NEW writes, \A w \in writes : ~SameKey(w, row)
  PROVE  Refreshed(row, writes) = row
<1>1. [f \in Fields |-> row.mv[f]] = row.mv
  BY DEF Carries, Movement
<1>2. Refreshed(row, writes) = [row EXCEPT !.mv = [f \in Fields |-> row.mv[f]]]
  BY DEF Refreshed
<1>3. [row EXCEPT !.mv = row.mv] = row
  BY DEF Carries
<1> QED
  BY <1>1, <1>2, <1>3

(* A row whose id the feed has takes the movement of its first copy.       *)
LEMMA FetchedRow ==
  ASSUME NEW id, NEW known, NEW fetched \in Seq(RemoteTx),
         NEW row \in known, Carries(row), row.account = id,
         NEW i \in FirstCopies(fetched), fetched[i].tid = row.tid
  PROVE  Refreshed(row, WritesOf(id, known, fetched)).mv = fetched[i].mv
<1> DEFINE writes == WritesOf(id, known, fetched)
           Hit(f) == \E w \in writes : SameKey(w, row) /\ w.field = f
           Pick(f) == CHOOSE w \in writes : SameKey(w, row) /\ w.field = f
           mv == [f \in Fields |-> IF Hit(f) THEN Pick(f).value ELSE row.mv[f]]
<1>1. fetched[i] \in RemoteTx
  BY DEF FirstCopies
<1>2. fetched[i].mv \in [Fields -> Values] /\ fetched[i].tid \in Tids /\ row.mv \in [Fields -> Values]
  BY <1>1 DEF RemoteTx, Movement, Carries
<1>3. ASSUME NEW w \in writes, SameKey(w, row) PROVE w.value = fetched[i].mv[w.field]
  <2>1. PICK j \in FirstCopies(fetched) : fetched[j].tid = w.tid /\ w.value = fetched[j].mv[w.field]
    BY DEF WritesOf
  <2>2. j = i
    BY <1>3, <2>1, FirstCopiesDiffer DEF SameKey
  <2> QED
    BY <2>1, <2>2
<1>4. ASSUME NEW f \in Fields, fetched[i].mv[f] # row.mv[f] PROVE Hit(f)
  <2> DEFINE w == [account |-> id, tid |-> row.tid, field |-> f, value |-> fetched[i].mv[f]]
  <2>1. w \in Write({id})
    BY <1>1, <1>2 DEF Write
  <2>2. w \in writes
    BY <1>4, <2>1 DEF WritesOf
  <2> QED
    BY <2>2 DEF SameKey
<1>5. ASSUME NEW f \in Fields PROVE mv[f] = fetched[i].mv[f]
  <2>1. CASE Hit(f)
    <3>1. Pick(f) \in writes /\ SameKey(Pick(f), row) /\ Pick(f).field = f
      BY <2>1
    <3> HIDE DEF Pick, Hit, writes
    <3>2. Pick(f).value = fetched[i].mv[f]
      BY <1>3, <3>1
    <3> QED
      BY <2>1, <3>2
  <2>2. CASE ~Hit(f)
    BY <1>4, <2>2
  <2> QED
    BY <2>1, <2>2
<1>6. Refreshed(row, writes).mv = mv
  BY RefreshedFields
<1> HIDE DEF writes, Hit, Pick
<1>7. mv = fetched[i].mv
  BY <1>2, <1>5
<1> QED
  BY <1>6, <1>7 DEF writes

(* Every other row keeps the movement it has.                              *)
LEMMA UnfetchedRow ==
  ASSUME NEW id, NEW known, NEW fetched, NEW row, Carries(row),
         row.account # id \/ \A i \in FirstCopies(fetched) : fetched[i].tid # row.tid
  PROVE  Refreshed(row, WritesOf(id, known, fetched)) = row
<1>1. ASSUME NEW w \in WritesOf(id, known, fetched) PROVE ~SameKey(w, row)
  BY DEF WritesOf, Write, SameKey
<1> QED
  BY <1>1, UntouchedRow

-----------------------------------------------------------------------------
(* What the loop has put together once it has gone over the positions s,   *)
(* stated without a loop.                                                  *)
Firsts(fetched, s) == {i \in s : \A j \in s : j < i => fetched[j].tid # fetched[i].tid}

WritesIn(known, fetched, s) ==
  {w \in Write({Account}) :
     \E i \in Firsts(fetched, s), row \in known :
        /\ fetched[i].tid = w.tid
        /\ row.tid = w.tid
        /\ w.value = fetched[i].mv[w.field]
        /\ w.value # row.mv[w.field]}

NewAt(known, fetched, s) ==
  {i \in Firsts(fetched, s) :
     /\ \A row \in known : row.tid # fetched[i].tid /\ row.mv # fetched[i].mv
     /\ \A j \in Firsts(fetched, s) : j < i => fetched[j].mv # fetched[i].mv}

EntryOf(tx) == [account |-> Account, tid |-> tx.tid, mv |-> tx.mv]

After(known, fetched, s) ==
  [ids |-> {fetched[i].tid : i \in s},
   movements |-> {row.mv : row \in known} \cup {fetched[i].mv : i \in Firsts(fetched, s)},
   writes |-> WritesIn(known, fetched, s),
   new |-> {EntryOf(fetched[i]) : i \in NewAt(known, fetched, s)}]

(* The recursion FoldLeft stands for.                                      *)
Unfolds(iter, known, fetched) ==
  iter = [s \in SUBSET DOMAIN fetched |->
            IF s = {} THEN LoopStart(known)
            ELSE LoopBody(known, iter[s \ {Max(s)}], fetched[Max(s)])]

LEMMA LoopUnfolds ==
  ASSUME NEW known, NEW fetched, NEW after, Unfolds(after, known, fetched)
  PROVE  \E iter : Unfolds(iter, known, fetched) /\ Loop(known, fetched) = iter[DOMAIN fetched]
<1> DEFINE I == CHOOSE iter : Unfolds(iter, known, fetched)
<1>1. Unfolds(I, known, fetched)
  OBVIOUS
<1>2. Loop(known, fetched) = I[DOMAIN fetched]
  BY DEF Loop, FoldLeft, MapThenFoldSet, Unfolds
<1> QED
  BY <1>1, <1>2

(* One more position: the loop body takes one such record to the next.     *)
LEMMA AfterNothing ==
  ASSUME NEW known, NEW fetched
  PROVE  After(known, fetched, {}) = LoopStart(known)
<1>1. Firsts(fetched, {}) = {}
  BY DEF Firsts
<1>2. WritesIn(known, fetched, {}) = {} /\ NewAt(known, fetched, {}) = {}
  BY <1>1 DEF WritesIn, NewAt
<1> QED
  BY <1>1, <1>2 DEF After, LoopStart

LEMMA FirstsGrow ==
  ASSUME NEW fetched \in Seq(RemoteTx), NEW s \in SUBSET DOMAIN fetched,
         NEW m \in s, \A x \in s : x <= m
  PROVE  /\ (\E i \in s \ {m} : fetched[i].tid = fetched[m].tid) =>
              Firsts(fetched, s) = Firsts(fetched, s \ {m})
         /\ (\A i \in s \ {m} : fetched[i].tid # fetched[m].tid) =>
              Firsts(fetched, s) = Firsts(fetched, s \ {m}) \cup {m}
<1>1. \A i \in s : i \in Int
  OBVIOUS
<1>2. \A i \in s \ {m} : i < m /\ ~(m < i)
  BY <1>1
<1> QED
  BY <1>1, <1>2 DEF Firsts

(* The branches of the loop body, for known rows of which one may match.   *)
Matching(known, tx) == {row \in known : row.tid = tx.tid}
Seen(loop, tx) == [loop EXCEPT !.ids = @ \cup {tx.tid}]
Written(loop, tx, row) == [Seen(loop, tx) EXCEPT !.writes = @ \cup ColumnsOf(tx, row),
                                                 !.movements = @ \cup {tx.mv}]
Added(loop, tx) == [Seen(loop, tx) EXCEPT !.movements = @ \cup {tx.mv},
                                          !.new = @ \cup {EntryOf(tx)}]

LEMMA BodyBranches ==
  ASSUME NEW known, NEW loop, NEW tx
  PROVE  /\ tx.tid \in loop.ids => LoopBody(known, loop, tx) = loop
         /\ \A row \in known :
              tx.tid \notin loop.ids /\ Matching(known, tx) = {row} =>
                LoopBody(known, loop, tx) =
                  IF row.mv = tx.mv THEN Seen(loop, tx)
                  ELSE Written(loop, tx, row)
         /\ tx.tid \notin loop.ids /\ Matching(known, tx) = {} =>
              LoopBody(known, loop, tx) =
                IF tx.mv \in loop.movements THEN Seen(loop, tx)
                ELSE Added(loop, tx)
<1>1. tx.tid \in loop.ids => LoopBody(known, loop, tx) = loop
  BY DEF LoopBody
<1>2. ASSUME NEW row \in known, tx.tid \notin loop.ids,
             Matching(known, tx) = {row}
      PROVE  LoopBody(known, loop, tx) =
               IF row.mv = tx.mv THEN Seen(loop, tx)
               ELSE Written(loop, tx, row)
  <2>1. (CHOOSE x \in Matching(known, tx) : TRUE) = row
    BY <1>2
  <2> QED
    BY <1>2, <2>1 DEF LoopBody, Seen, Written, Matching
<1>3. ASSUME tx.tid \notin loop.ids, Matching(known, tx) = {}
      PROVE  LoopBody(known, loop, tx) =
                IF tx.mv \in loop.movements THEN Seen(loop, tx)
                ELSE Added(loop, tx)
  BY <1>3 DEF LoopBody, Seen, Added, EntryOf, Matching
<1> QED
  BY <1>1, <1>2, <1>3

LEMMA AfterStep ==
  ASSUME NEW known \in SUBSET Rows, OneRowPerId(known), NEW fetched \in Seq(RemoteTx),
         NEW s \in SUBSET DOMAIN fetched, NEW m \in s, \A x \in s : x <= m
  PROVE  After(known, fetched, s) =
           LoopBody(known, After(known, fetched, s \ {m}), fetched[m])
<1> DEFINE rest == s \ {m}
           tx == fetched[m]
           before == After(known, fetched, rest)
           after == After(known, fetched, s)
           match == Matching(known, tx)
<1> SUFFICES after = LoopBody(known, before, tx)
  OBVIOUS
<1>1. \A i \in s : i \in Int /\ fetched[i] \in RemoteTx
  OBVIOUS
<1>2. \A i \in rest : i < m /\ ~(m < i)
  BY <1>1
<1>3. /\ before.ids = {fetched[i].tid : i \in rest}
      /\ before.movements = {row.mv : row \in known}
                              \cup {fetched[i].mv : i \in Firsts(fetched, rest)}
      /\ before.writes = WritesIn(known, fetched, rest)
      /\ before.new = {EntryOf(fetched[i]) : i \in NewAt(known, fetched, rest)}
      /\ before = [ids |-> before.ids, movements |-> before.movements,
                   writes |-> before.writes, new |-> before.new]
  BY DEF After
<1>4. /\ after.ids = {fetched[i].tid : i \in s}
      /\ after.movements = {row.mv : row \in known}
                             \cup {fetched[i].mv : i \in Firsts(fetched, s)}
      /\ after.writes = WritesIn(known, fetched, s)
      /\ after.new = {EntryOf(fetched[i]) : i \in NewAt(known, fetched, s)}
      /\ after = [ids |-> after.ids, movements |-> after.movements,
                  writes |-> after.writes, new |-> after.new]
  BY DEF After
<1> HIDE DEF before, after, match
<1>5. CASE tx.tid \in before.ids
  <2>1. Firsts(fetched, s) = Firsts(fetched, rest)
    <3>1. \E i \in s \ {m} : fetched[i].tid = fetched[m].tid
      BY <1>3, <1>5
    <3> QED
      BY <3>1, FirstsGrow
  <2>2. after.ids = before.ids
    BY <1>3, <1>4, <1>5
  <2>3. after.writes = before.writes /\ after.movements = before.movements
    BY <1>3, <1>4, <2>1 DEF WritesIn
  <2>4. NewAt(known, fetched, s) = NewAt(known, fetched, rest)
    BY <2>1 DEF NewAt
  <2>5. after.new = before.new
    BY <1>3, <1>4, <2>4
  <2>6. after = before
    BY <1>3, <1>4, <2>2, <2>3, <2>5
  <2> HIDE DEF tx
  <2> QED
    BY <1>5, <2>6, BodyBranches
<1>6. CASE tx.tid \notin before.ids
  <2>1. Firsts(fetched, s) = Firsts(fetched, rest) \cup {m}
    <3>1. \A i \in s \ {m} : fetched[i].tid # fetched[m].tid
      BY <1>3, <1>6
    <3> QED
      BY <3>1, FirstsGrow
  <2>2. \A i \in Firsts(fetched, rest) : i \in rest
    BY DEF Firsts
  <2>3. after.ids = before.ids \cup {tx.tid}
    BY <1>3, <1>4
  <2>4. after.movements = before.movements \cup {tx.mv}
    BY <1>3, <1>4, <2>1
  <2>5. \A i : i \in NewAt(known, fetched, s) <=>
          \/ i \in NewAt(known, fetched, rest)
          \/ i = m /\ match = {} /\ tx.mv \notin before.movements
    <3>1. \A i \in Firsts(fetched, rest) :
            i \in NewAt(known, fetched, s) <=> i \in NewAt(known, fetched, rest)
      BY <1>2, <2>1, <2>2 DEF NewAt
    <3>2. m \notin Firsts(fetched, rest)
      BY <2>2
    <3>3. m \in NewAt(known, fetched, s) <=> match = {} /\ tx.mv \notin before.movements
      <4>1. match = {} <=> \A row \in known : row.tid # tx.tid
        BY DEF Matching, match
      <4>2. tx.mv \notin before.movements <=>
              /\ \A row \in known : row.mv # tx.mv
              /\ \A j \in Firsts(fetched, rest) : fetched[j].mv # tx.mv
        BY <1>3
      <4>3. \A j \in Firsts(fetched, s) : j < m <=> j \in Firsts(fetched, rest)
        <5>1. ~(m < m) /\ m \notin rest
          BY <1>1
        <5> QED
          BY <1>2, <2>1, <2>2, <5>1
      <4>4. m \in NewAt(known, fetched, s) <=>
              /\ \A row \in known : row.tid # tx.tid /\ row.mv # tx.mv
              /\ \A j \in Firsts(fetched, s) : j < m => fetched[j].mv # tx.mv
        BY <2>1 DEF NewAt
      <4>5. (\A j \in Firsts(fetched, s) : j < m => fetched[j].mv # tx.mv) <=>
            (\A j \in Firsts(fetched, rest) : fetched[j].mv # tx.mv)
        BY <2>1, <4>3
      <4> HIDE DEF tx
      <4> QED
        BY <4>1, <4>2, <4>4, <4>5
    <3>4. \A i : i \in NewAt(known, fetched, s) => i \in Firsts(fetched, rest) \/ i = m
      BY <2>1 DEF NewAt
    <3>5. \A i : i \in NewAt(known, fetched, rest) => i \in Firsts(fetched, rest)
      BY DEF NewAt
    <3> QED
      BY <3>1, <3>2, <3>3, <3>4, <3>5
  <2>6. after.new = IF match = {} /\ tx.mv \notin before.movements
                    THEN before.new \cup {EntryOf(tx)} ELSE before.new
    <3>1. CASE match = {} /\ tx.mv \notin before.movements
      <4>1. NewAt(known, fetched, s) = NewAt(known, fetched, rest) \cup {m}
        BY <2>5, <3>1
      <4>2. after.new = before.new \cup {EntryOf(fetched[m])}
        BY <1>3, <1>4, <4>1
      <4> QED
        BY <3>1, <4>2
    <3>2. CASE ~(match = {} /\ tx.mv \notin before.movements)
      <4>1. NewAt(known, fetched, s) = NewAt(known, fetched, rest)
        BY <2>5, <3>2
      <4> QED
        BY <1>3, <1>4, <3>2, <4>1
    <3> QED
      BY <3>1, <3>2
  <2>7. \A w : w \in after.writes <=>
          \/ w \in before.writes
          \/ \E row \in match : w \in ColumnsOf(tx, row)
    <3>1. ASSUME NEW w
          PROVE  w \in after.writes <=>
                   \/ w \in before.writes
                   \/ w \in Write({Account}) /\ \E row \in known :
                        tx.tid = w.tid /\ row.tid = w.tid
                        /\ w.value = tx.mv[w.field] /\ w.value # row.mv[w.field]
      <4> DEFINE P(i) == \E row \in known : /\ fetched[i].tid = w.tid
                                            /\ row.tid = w.tid
                                            /\ w.value = fetched[i].mv[w.field]
                                            /\ w.value # row.mv[w.field]
      <4>1. w \in after.writes <=> w \in Write({Account}) /\ \E i \in Firsts(fetched, s) : P(i)
        BY <1>4 DEF WritesIn
      <4>2. w \in before.writes <=>
              w \in Write({Account}) /\ \E i \in Firsts(fetched, rest) : P(i)
        BY <1>3 DEF WritesIn
      <4>3. (\E i \in Firsts(fetched, s) : P(i)) <=>
              (\E i \in Firsts(fetched, rest) : P(i)) \/ P(m)
        BY <2>1
      <4> QED
        BY <4>1, <4>2, <4>3
    <3>2. ASSUME NEW w, NEW row \in known
          PROVE  (/\ w \in Write({Account})
                  /\ tx.tid = w.tid /\ row.tid = w.tid
                  /\ w.value = tx.mv[w.field] /\ w.value # row.mv[w.field])
                 <=> row \in match /\ w \in ColumnsOf(tx, row)
      <4>1. tx.mv \in [Fields -> Values] /\ tx.tid \in Tids
        BY <1>1 DEF RemoteTx, Movement
      <4> HIDE DEF tx
      <4> QED
        BY <4>1 DEF Write, ColumnsOf, Matching, match
    <3>3. \A row \in match : row \in known
      BY DEF match, Matching
    <3> QED
      BY <3>1, <3>2, <3>3
  <2>k. \A row \in known : row.mv \in before.movements
    BY <1>3
  <2>t. tx \in RemoteTx
    BY <1>1
  <2> HIDE DEF tx
  <2>8. ASSUME NEW row \in match PROVE after = LoopBody(known, before, tx)
    <3>k. row \in known
      BY DEF match, Matching
    <3>1. match = {row}
      BY DEF match, Matching, OneRowPerId
    <3>2. after.new = before.new
      BY <2>6
    <3>3. after.writes = before.writes \cup ColumnsOf(tx, row)
      BY <2>7, <3>1
    <3>4. LoopBody(known, before, tx) =
            IF row.mv = tx.mv THEN Seen(before, tx)
            ELSE Written(before, tx, row)
      BY <1>6, <3>1, <3>k, BodyBranches DEF match
    <3>5. CASE row.mv = tx.mv
      <4>1. ColumnsOf(tx, row) = {} /\ tx.mv \in before.movements
        BY <2>k, <3>k, <3>5 DEF ColumnsOf
      <4>2. after.writes = before.writes /\ after.movements = before.movements
        BY <2>4, <3>3, <4>1
      <4>3. after = Seen(before, tx)
        BY <1>3, <1>4, <2>3, <3>2, <4>2 DEF Seen
      <4> QED
        BY <3>4, <3>5, <4>3
    <3>6. CASE row.mv # tx.mv
      <4>1. after = Written(before, tx, row)
        BY <1>3, <1>4, <2>3, <2>4, <3>2, <3>3 DEF Seen, Written
      <4> QED
        BY <3>4, <3>6, <4>1
    <3> QED
      BY <3>5, <3>6
  <2>9. CASE match = {}
    <3>1. after.writes = before.writes
      BY <2>7, <2>9
    <3>4. LoopBody(known, before, tx) =
            IF tx.mv \in before.movements THEN Seen(before, tx)
            ELSE Added(before, tx)
      BY <1>6, <2>9, BodyBranches DEF match
    <3>2. CASE tx.mv \in before.movements
      <4>1. after.new = before.new /\ after.movements = before.movements
        BY <2>4, <2>6, <3>2
      <4>2. after = Seen(before, tx)
        BY <1>3, <1>4, <2>3, <3>1, <4>1 DEF Seen
      <4> QED
        BY <3>2, <3>4, <4>2
    <3>3. CASE tx.mv \notin before.movements
      <4>1. after = Added(before, tx)
        BY <1>3, <1>4, <2>3, <2>4, <2>6, <2>9, <3>1, <3>3 DEF Seen, Added
      <4> QED
        BY <3>3, <3>4, <4>1
    <3> QED
      BY <3>2, <3>3
  <2> QED
    BY <2>8, <2>9
<1> QED
  BY <1>5, <1>6

(* So these records satisfy the recursion, and nothing else does.          *)
LEMMA LoopIsAfter ==
  ASSUME NEW known \in SUBSET Rows, OneRowPerId(known), NEW fetched \in Seq(RemoteTx)
  PROVE  Loop(known, fetched) = After(known, fetched, DOMAIN fetched)
<1> DEFINE D == DOMAIN fetched
           after == [s \in SUBSET D |-> After(known, fetched, s)]
<1>1. D = 1..Len(fetched) /\ Len(fetched) \in Nat
  OBVIOUS
<1>2. ASSUME NEW s \in SUBSET D, s # {}
      PROVE  /\ Max(s) \in s
             /\ After(known, fetched, s) =
                  LoopBody(known, After(known, fetched, s \ {Max(s)}), fetched[Max(s)])
  <2>1. Max(s) \in s /\ \A x \in s : x <= Max(s)
    BY <1>1, <1>2, LastPosition
  <2> QED
    BY <1>2, <2>1, AfterStep
<1>3. Unfolds(after, known, fetched)
  BY <1>2, AfterNothing DEF Unfolds
<1>4. PICK iter : Unfolds(iter, known, fetched) /\ Loop(known, fetched) = iter[D]
  BY <1>3, LoopUnfolds
<1>5. ASSUME NEW s \in SUBSET D
      PROVE  iter[s] = IF s = {} THEN LoopStart(known)
                       ELSE LoopBody(known, iter[s \ {Max(s)}], fetched[Max(s)])
  BY <1>4 DEF Unfolds
<1> DEFINE bad == {s \in SUBSET D : iter[s] # After(known, fetched, s)}
<1>6. ASSUME bad # {} PROVE FALSE
  <2>1. IsFiniteSet(D)
    BY <1>1, FS_Interval
  <2>2. PICK U \in bad : \A x \in U : U \ {x} \notin bad
    BY <1>6, <2>1, SmallestSet
  <2>3. U # {}
    BY <1>5, <2>2, AfterNothing
  <2>4. Max(U) \in U /\ iter[U \ {Max(U)}] = After(known, fetched, U \ {Max(U)})
    BY <1>2, <2>2, <2>3
  <2>5. iter[U] = After(known, fetched, U)
    BY <1>2, <1>5, <2>3, <2>4
  <2> QED
    BY <2>5
<1>7. iter[D] = After(known, fetched, D)
  BY <1>6
<1> QED
  BY <1>4, <1>7

LEMMA LoopSets ==
  ASSUME NEW known \in SUBSET Rows, OneRowPerId(known), NEW fetched \in Seq(RemoteTx)
  PROVE  /\ Loop(known, fetched).writes = WritesOf(Account, known, fetched)
         /\ Loop(known, fetched).new = NewEntries(Account, known, fetched)
<1> DEFINE D == DOMAIN fetched
<1>1. D = 1..Len(fetched) /\ Len(fetched) \in Nat
  OBVIOUS
<1>2. Firsts(fetched, D) = FirstCopies(fetched)
  BY <1>1 DEF Firsts, FirstCopies
<1>3. WritesIn(known, fetched, D) = WritesOf(Account, known, fetched)
  BY <1>2 DEF WritesIn, WritesOf
<1>4. NewAt(known, fetched, D) = {k \in FirstCopies(fetched) : IsNew(k, known, fetched)}
  BY <1>2 DEF NewAt, IsNew
<1>5. {EntryOf(fetched[i]) : i \in NewAt(known, fetched, D)} = NewEntries(Account, known, fetched)
  BY <1>4 DEF EntryOf, NewEntries
<1>6. After(known, fetched, D).writes = WritesIn(known, fetched, D)
      /\ After(known, fetched, D).new = {EntryOf(fetched[i]) : i \in NewAt(known, fetched, D)}
  BY DEF After
<1> QED
  BY <1>3, <1>5, <1>6, LoopIsAfter

-----------------------------------------------------------------------------
(* From one sync to the next.  After one every stored row with an id in    *)
(* the feed has the movement listed there; after two every transaction of  *)
(* the feed is on a row.                                                   *)
Settled ==
  \A i \in FirstCopies(feed), row \in stored : row.tid = feed[i].tid => row.mv = feed[i].mv
Covered == \A i \in FirstCopies(feed) : \E row \in stored : row.mv = feed[i].mv

MergeInv ==
  /\ stored \in SUBSET Rows /\ OneRowPerId(stored)
  /\ feed \in Seq(RemoteTx)
  /\ round \in Nat
  /\ round >= 1 => Settled
  /\ round >= 2 => Covered

LEMMA MergeStarts == Init => MergeInv
<1>1. ASSUME NEW fetched \in BoundedSeq(RemoteTx, MaxFeed) PROVE fetched \in Seq(RemoteTx)
  <2>1. PICK n \in 0..MaxFeed : fetched \in [1..n -> RemoteTx]
    BY DEF BoundedSeq, SeqOf
  <2> QED
    BY <2>1, MergeAssumption
<1> QED
  BY <1>1 DEF Init, MergeInv

LEMMA RowsCarry ==
  ASSUME NEW row \in Rows
  PROVE  Carries(row) /\ row.account = Account
BY DEF Rows, Entry, Carries

(* What a sync stores: refreshed rows, and entries for ids not stored.     *)
LEMMA AfterResync ==
  ASSUME MergeInv, Resync
  PROVE  /\ stored' = RefreshedAll(stored, WritesOf(Account, stored, feed))
                        \cup NewEntries(Account, stored, feed)
         /\ feed' = feed /\ round' = round + 1
BY LoopSets DEF MergeInv, Resync

LEMMA RefreshedStay ==
  ASSUME MergeInv, NEW row \in stored
  PROVE  LET now == Refreshed(row, WritesOf(Account, stored, feed))
         IN  /\ now \in Rows /\ now.tid = row.tid
             /\ \A i \in FirstCopies(feed) : feed[i].tid = row.tid => now.mv = feed[i].mv
             /\ Settled => now = row
<1> DEFINE writes == WritesOf(Account, stored, feed)
           now == Refreshed(row, writes)
<1>1. row \in Rows /\ Carries(row) /\ row.account = Account /\ feed \in Seq(RemoteTx)
  BY RowsCarry DEF MergeInv
<1>2. \A i \in FirstCopies(feed) : feed[i].tid = row.tid => now.mv = feed[i].mv
  BY <1>1, FetchedRow
<1>3. (\A i \in FirstCopies(feed) : feed[i].tid # row.tid) => now = row
  BY <1>1, UnfetchedRow
<1>4. SameKey(now, row)
  BY <1>1, RefreshedFields
<1>m. now.mv \in Movement
  <2>2. CASE \A i \in FirstCopies(feed) : feed[i].tid # row.tid
    <3>1. now = row
      BY <1>3, <2>2
    <3> HIDE DEF now
    <3> QED
      BY <1>1, <3>1 DEF Carries
  <2>3. CASE \E i \in FirstCopies(feed) : feed[i].tid = row.tid
    <3>1. PICK i \in FirstCopies(feed) : feed[i].tid = row.tid
      BY <2>3
    <3>2. feed[i] \in RemoteTx
      BY <1>1 DEF FirstCopies
    <3>3. now.mv = feed[i].mv
      BY <1>2, <3>1
    <3> QED
      BY <3>2, <3>3 DEF RemoteTx
  <2> QED
    BY <2>2, <2>3
<1>5. now = [account |-> Account, tid |-> row.tid, mv |-> now.mv]
  <2>1. now = [row EXCEPT !.mv = now.mv]
    BY <1>1 DEF Refreshed, Carries
  <2> HIDE DEF now
  <2> QED
    BY <1>1, <2>1 DEF Rows, Entry
<1> HIDE DEF now
<1>6. now \in Rows /\ now.tid = row.tid
  BY <1>1, <1>4, <1>5, <1>m DEF Rows, Entry, SameKey
<1>7. ASSUME Settled PROVE now = row
  <2>1. now.mv = row.mv
    BY <1>2, <1>3, <1>7 DEF Settled
  <2> QED
    BY <1>1, <1>5, <2>1 DEF Rows, Entry
<1> QED
  BY <1>2, <1>6, <1>7 DEF now

LEMMA StoredAfter ==
  ASSUME MergeInv, Resync, NEW y
  PROVE  y \in stored' <=>
           \/ \E row \in stored : y = Refreshed(row, WritesOf(Account, stored, feed))
           \/ \E i \in FirstCopies(feed) : IsNew(i, stored, feed) /\ y = EntryOf(feed[i])
BY AfterResync DEF RefreshedAll, NewEntries, EntryOf

LEMMA RowsAfter ==
  ASSUME MergeInv, Resync
  PROVE  stored' \in SUBSET Rows /\ OneRowPerId(stored)'
<1> DEFINE now(row) == Refreshed(row, WritesOf(Account, stored, feed))
<1>1. \A row \in stored : now(row) \in Rows /\ now(row).tid = row.tid
  BY RefreshedStay
<1>2. ASSUME NEW i \in FirstCopies(feed)
      PROVE  EntryOf(feed[i]) \in Rows /\ EntryOf(feed[i]).tid = feed[i].tid
  <2>1. feed[i] \in RemoteTx
    BY DEF FirstCopies, MergeInv
  <2> QED
    BY <2>1 DEF EntryOf, Rows, Entry, RemoteTx
<1>3. \A y : y \in stored' <=>
        \/ \E row \in stored : y = now(row)
        \/ \E i \in FirstCopies(feed) : IsNew(i, stored, feed) /\ y = EntryOf(feed[i])
  BY StoredAfter
<1> HIDE DEF now
<1>4. \A row \in stored, i \in FirstCopies(feed) :
        IsNew(i, stored, feed) => now(row).tid # EntryOf(feed[i]).tid
  BY <1>1, <1>2 DEF IsNew
<1>5. \A row, other \in stored : now(row).tid = now(other).tid => now(row) = now(other)
  BY <1>1 DEF MergeInv, OneRowPerId
<1>6. \A i, j \in FirstCopies(feed) :
        EntryOf(feed[i]).tid = EntryOf(feed[j]).tid => EntryOf(feed[i]) = EntryOf(feed[j])
  BY <1>2, FirstCopiesDiffer DEF MergeInv
<1>7. OneRowPerId(stored)'
  BY <1>3, <1>4, <1>5, <1>6 DEF OneRowPerId
<1> QED
  BY <1>1, <1>2, <1>3, <1>7

LEMMA SettledAfter ==
  ASSUME MergeInv, Resync
  PROVE  Settled'
<1> SUFFICES ASSUME NEW i \in FirstCopies(feed), NEW y \in stored', y.tid = feed[i].tid
             PROVE  y.mv = feed[i].mv
  BY AfterResync DEF Settled
<1>1. ASSUME NEW row \in stored, y = Refreshed(row, WritesOf(Account, stored, feed))
      PROVE  y.mv = feed[i].mv
  BY <1>1, RefreshedStay
<1>2. ASSUME NEW k \in FirstCopies(feed), y = EntryOf(feed[k])
      PROVE  y.mv = feed[i].mv
  <2>1. feed[k].tid = feed[i].tid
    BY <1>2 DEF EntryOf
  <2>2. k = i
    BY <2>1, FirstCopiesDiffer DEF MergeInv
  <2> QED
    BY <1>2, <2>2 DEF EntryOf
<1> QED
  BY <1>1, <1>2, StoredAfter

(* A settled row keeps its movement; so what the feed lists first under a  *)
(* movement is new or has it on a row already.                             *)
LEMMA CoveredAfter ==
  ASSUME MergeInv, Resync, Settled
  PROVE  Covered'
<1> SUFFICES ASSUME NEW i \in FirstCopies(feed)
             PROVE  \E row \in stored' : row.mv = feed[i].mv
  BY AfterResync DEF Covered
<1> DEFINE same == {j \in FirstCopies(feed) : feed[j].mv = feed[i].mv}
<1>1. same \in SUBSET Nat
  BY DEF FirstCopies, MergeInv
<1>2. PICK j \in same : \A k \in same : j <= k
  <2>1. i \in same
    OBVIOUS
  <2> QED
    BY <1>1, <2>1, LeastNumber
<1>3. \A k \in FirstCopies(feed) : k < j => feed[k].mv # feed[j].mv
  <2> SUFFICES ASSUME NEW k \in FirstCopies(feed), k < j, feed[k].mv = feed[j].mv PROVE FALSE
    OBVIOUS
  <2>1. k \in same
    BY <1>2
  <2>2. j <= k /\ j \in Nat /\ k \in Nat
    BY <1>1, <1>2, <2>1
  <2> QED
    BY <2>2
<1>4. \A row \in stored : row \in stored'
  BY StoredAfter, RefreshedStay
<1>5. CASE IsNew(j, stored, feed)
  <2>1. EntryOf(feed[j]) \in stored'
    BY <1>2, <1>5, StoredAfter
  <2> QED
    BY <1>2, <2>1 DEF EntryOf
<1>6. CASE ~IsNew(j, stored, feed)
  <2>1. PICK row \in stored : row.tid = feed[j].tid \/ row.mv = feed[j].mv
    BY <1>3, <1>6 DEF IsNew
  <2>2. row.mv = feed[j].mv
    BY <1>2, <2>1 DEF Settled
  <2> QED
    BY <1>2, <1>4, <2>2
<1> QED
  BY <1>5, <1>6

LEMMA MergeStep ==
  ASSUME MergeInv, Resync
  PROVE  MergeInv'
<1>1. feed' = feed /\ round' = round + 1 /\ round \in Nat /\ feed \in Seq(RemoteTx)
  BY AfterResync DEF MergeInv
<1>2. round' >= 2 => Covered'
  <2>1. round' >= 2 => round >= 1
    BY <1>1
  <2> QED
    BY <2>1, CoveredAfter DEF MergeInv
<1>3. round' \in Nat
  BY <1>1
<1> QED
  BY <1>1, <1>2, <1>3, RowsAfter, SettledAfter DEF MergeInv

LEMMA MergeAlways == Spec => []MergeInv
<1>1. MergeInv /\ UNCHANGED vars => MergeInv'
  BY DEF MergeInv, vars, Settled, Covered
<1> QED
  BY <1>1, MergeStarts, MergeStep, PTL DEF Spec, Next

(* The loop of sync_item, statement by statement, computes the two sets by *)
(* which the whole sync is modelled and proved about.                      *)
THEOREM LoopAlwaysTheSets == Spec => []LoopIsTheSets
<1>1. MergeInv => LoopIsTheSets
  BY LoopSets DEF MergeInv, LoopIsTheSets
<1> QED
  BY <1>1, MergeAlways, PTL

(* A purchase that one sync skips is stored by the next.                   *)
THEOREM TwoSyncsAlwaysCover == Spec => []TwoSyncsCoverTheFeed
<1>1. MergeInv => TwoSyncsCoverTheFeed
  BY DEF MergeInv, TwoSyncsCoverTheFeed, Covered
<1> QED
  BY <1>1, MergeAlways, PTL

(* Unchanged data stops changing what is stored, however often it is       *)
(* synced.                                                                 *)
THEOREM ThirdSyncAlwaysQuiet == Spec => ThirdSyncIsQuiet
<1>1. ASSUME MergeInv, Resync, round >= 2 PROVE stored' = stored
  <2>1. Settled /\ Covered
    BY <1>1 DEF MergeInv
  <2>2. \A i \in FirstCopies(feed) : ~IsNew(i, stored, feed)
    BY <2>1 DEF Covered, IsNew
  <2>3. \A row \in stored : Refreshed(row, WritesOf(Account, stored, feed)) = row
    BY <1>1, <2>1, RefreshedStay
  <2>4. \A y : y \in stored' <=> y \in stored
    BY <1>1, <2>2, <2>3, StoredAfter
  <2> QED
    BY <2>4
<1>2. MergeInv /\ [Next]_vars => [round >= 2 => stored' = stored]_vars
  BY <1>1 DEF Next
<1> QED
  BY <1>2, MergeAlways, PTL DEF Spec, ThirdSyncIsQuiet

-----------------------------------------------------------------------------
(* The upgrade.  Rows are known by their ids.                              *)
Quotas == [id : Nat, key : Keys, count : Nat]
Txs == [id : Nat, account : Accounts, pid : Pids, mv : Movements]
Identified(S) == IsFiniteSet(S) /\ \A r, s \in S : r.id = s.id => r = s

Statements == {"idle", "usage", "merge", "ids", "delete ids", "movements",
               "delete movements", "lock", "commit"}
Upgrades ==
  [pc : Statements, target : {"none", "c7", "d4"}, seen : SUBSET (Quotas \cup Txs),
   gone : SUBSET Nat, sums : SUBSET [id : Nat, count : Nat], late : [Keys -> Nat]]

UpOK ==
  /\ up \in Upgrades
  /\ up.pc \in Deleting => up.seen \subseteq Txs
  /\ up.pc = "merge" => up.seen \subseteq Quotas
TxsOK == txs \subseteq Txs /\ Identified(txs)
SyncsOK ==
  /\ DOMAIN sync = Syncs
  /\ \A w \in Syncs : sync[w].pc \in {"idle", "read"}
                      /\ (sync[w].pc = "read" => sync[w].account \in Accounts)

(* A behaviour has quota rows or it has transactions.                      *)
OneTable ==
  \/ usage = {} /\ (up.pc = "merge" => up.seen = {})
  \/ txs = {} /\ \A w \in Syncs : sync[w].pc = "idle"

(* What the DELETE goes by is still there, or a sync has written it since. *)
SeenInv ==
  /\ up.pc \in Deleting =>
       /\ Identified(up.seen)
       /\ \A r \in up.seen :
            /\ r.id \notin up.gone
            /\ \E t \in txs : /\ t.id = r.id /\ t.account = r.account
                              /\ (r.id \in touched \/ t = r)
  /\ up.pc \notin Deleting => touched = {}

QuotasOK == usage \subseteq Quotas /\ Identified(usage)

(* What the upgrade means to write: the ids are those of rows it can see,  *)
(* each is summed or deleted but not both, and the groups it still has to  *)
(* merge are untouched.                                                    *)
PlanInv ==
  /\ usage # {} => \A id \in up.gone : \E u \in usage : u.id = id
  /\ \A s \in up.sums : \E u \in usage : u.id = s.id
  /\ \A s, t \in up.sums : s.id = t.id => s = t
  /\ \A s \in up.sums : s.id \notin up.gone
  /\ up.pc \in {"idle", "usage"} =>
       up.gone = {} /\ up.sums = {} /\ up.late = [k \in Keys |-> 0]
  /\ up.pc = "merge" =>
       /\ Identified(up.seen)
       /\ \A r \in up.seen :
            /\ r.id \notin up.gone /\ \A s \in up.sums : s.id # r.id
            /\ \E u \in usage : u.id = r.id /\ u.key = r.key

DataInv == UpOK /\ TxsOK /\ QuotasOK /\ SyncsOK /\ OneTable /\ SeenInv /\ PlanInv

(* The books of a key: what the upgrade would leave now is what there is   *)
(* less what it has lost; a group it has not merged yet has all it read    *)
(* and what came late.                                                     *)
Unmerged(k) == up.pc = "merge" /\ Duplicated(k)
Held(k) == {u \in usage : \E r \in Group(k) : r.id = u.id}
BooksInv ==
  \A k \in Keys :
    /\ taken[k] \in Int /\ lost[k] \in Int
    /\ Total(usage, k) = taken[k] - lost[k]
    /\ Unmerged(k) => /\ Total(Merged, k) = Total(usage, k)
                      /\ Total(Held(k), k) = Total(Group(k), k) + up.late[k]
    /\ ~Unmerged(k) => Total(Merged, k) = Total(usage, k) - up.late[k]

LEMMA FreshId ==
  ASSUME NEW S, IsFiniteSet(S), \A r \in S : r.id \in Nat
  PROVE  NextId(S) \in Nat /\ \A r \in S : r.id < NextId(S)
<1>1. CASE S = {}
  BY <1>1 DEF NextId
<1>2. CASE S # {}
  <2> DEFINE ids == {r.id : r \in S}
             name == [r \in S |-> r.id]
  <2>1. ids \in SUBSET Int /\ ids # {} /\ \A r \in S : r.id \in ids
    BY <1>2
  <2>2. name \in Surjection(S, ids)
    BY DEF Surjection
  <2>3. IsFiniteSet(ids)
    BY <2>2, FS_Surjection
  <2>4. NextId(S) = Max(ids) + 1
    BY <1>2 DEF NextId
  <2>a. ids \in SUBSET Nat
    OBVIOUS
  <2>5. Max(ids) \in ids /\ \A i \in ids : i <= Max(ids)
    <3> HIDE DEF ids
    <3> QED
      BY <2>1, <2>3, LargestNumber
  <2> HIDE DEF ids
  <2>6. Max(ids) \in Nat
    BY <2>a, <2>5
  <2>7. \A i \in ids : i < Max(ids) + 1
    BY <2>a, <2>5, <2>6
  <2> QED
    BY <2>1, <2>4, <2>6, <2>7
<1> QED
  BY <1>1, <1>2

LEMMA RewriteKeeps ==
  ASSUME TxsOK, NEW r \in txs, NEW mv \in Movements, Rewrite(r, mv)
  PROVE  TxsOK' /\ txs' # {}
         /\ \A t \in txs : \E u \in txs' : /\ u.id = t.id /\ u.account = t.account
                                           /\ (u = t \/ t.id = r.id)
<1> DEFINE new == [r EXCEPT !.mv = mv]
<1>1. txs' = (txs \ {r}) \cup {new}
  BY DEF Rewrite, Writes
<1>2. r \in Txs /\ new \in Txs /\ new.id = r.id /\ new.account = r.account
  BY DEF TxsOK, Txs
<1> HIDE DEF new
<1>3. IsFiniteSet(txs \ {r})
  BY FS_RemoveElement DEF TxsOK, Identified
<1>4. IsFiniteSet(txs')
  BY <1>1, <1>3, FS_AddElement
<1>5. \A s, t \in txs' : s.id = t.id => s = t
  BY <1>1, <1>2 DEF TxsOK, Identified
<1>6. txs' \subseteq Txs
  BY <1>1, <1>2 DEF TxsOK
<1>7. \A t \in txs : \E u \in txs' : /\ u.id = t.id /\ u.account = t.account
                                     /\ (u = t \/ t.id = r.id)
  <2> SUFFICES ASSUME NEW t \in txs
               PROVE  \E u \in txs' : /\ u.id = t.id /\ u.account = t.account
                                      /\ (u = t \/ t.id = r.id)
    OBVIOUS
  <2>1. CASE t = r
    BY <1>1, <1>2, <2>1
  <2>2. CASE t # r
    BY <1>1, <2>2
  <2> QED
    BY <2>1, <2>2
<1> QED
  BY <1>1, <1>4, <1>5, <1>6, <1>7 DEF TxsOK, Identified

LEMMA InsertKeeps ==
  ASSUME TxsOK, NEW row \in Txs, row.id = NextId(txs), txs' = txs \cup {row}
  PROVE  TxsOK' /\ txs' # {}
<1>1. \A r \in txs : r.id \in Nat /\ r \in Txs
  BY DEF TxsOK, Txs
<1>2. \A r \in txs : r.id < row.id
  BY <1>1, FreshId DEF TxsOK, Identified
<1>3. \A r \in txs : r.id # row.id
  BY <1>1, <1>2
<1>4. IsFiniteSet(txs')
  BY FS_AddElement DEF TxsOK, Identified
<1>5. \A s, t \in txs' : s.id = t.id => s = t
  BY <1>3 DEF TxsOK, Identified
<1> QED
  BY <1>1, <1>4, <1>5 DEF TxsOK, Identified

LEMMA OldestIsOne ==
  ASSUME NEW S, S # {}, \A r \in S : r.id \in Nat
  PROVE  Oldest(S) \in S /\ \A r \in S : Oldest(S).id <= r.id
<1> DEFINE ids == {r.id : r \in S}
<1>1. ids \in SUBSET Nat /\ ids # {}
  OBVIOUS
<1>2. \E i \in ids : \A j \in ids : i <= j
  <2> HIDE DEF ids
  <2> QED
    BY <1>1, LeastNumber
<1>3. PICK r \in S : \A t \in S : r.id <= t.id
  BY <1>2
<1> QED
  BY <1>3 DEF Oldest

LEMMA NoUpgradeFacts ==
  /\ NoUpgrade \in Upgrades /\ NoUpgrade.pc = "idle" /\ NoUpgrade.seen = {}
  /\ NoUpgrade.gone = {} /\ NoUpgrade.sums = {} /\ NoUpgrade.late = [k \in Keys |-> 0]
BY DEF NoUpgrade, Upgrades, Statements

LEMMA NothingOfNone == ASSUME NEW k, up.seen = {} PROVE ~Duplicated(k)
<1>1. Group(k) = {}
  BY DEF Group
<1> QED
  BY <1>1, FS_EmptySet DEF Duplicated

(* An upgrade that has just begun, or has been undone.                     *)
LEMMA FreshUpgrade ==
  ASSUME up' \in Upgrades, up'.seen = {}, up'.gone = {}, up'.sums = {},
         up'.late = [k \in Keys |-> 0], up'.pc \notin Deleting \cup {"merge"}, touched' = {},
         TxsOK', QuotasOK', SyncsOK',
         usage' = {} \/ (txs' = {} /\ \A w \in Syncs : sync'[w].pc = "idle")
  PROVE  DataInv'
BY DEF DataInv, UpOK, OneTable, SeenInv, PlanInv

LEMMA SameTables ==
  ASSUME DataInv, UNCHANGED <<usage, txs, sync>>
  PROVE  /\ TxsOK' /\ QuotasOK' /\ SyncsOK'
         /\ usage' = {} \/ (txs' = {} /\ \A w \in Syncs : sync'[w].pc = "idle")
BY DEF DataInv, TxsOK, QuotasOK, SyncsOK, OneTable, Identified

LEMMA StartData == ASSUME DataInv, Start PROVE DataInv'
<1>1. UNCHANGED <<usage, txs, sync, touched>> /\ touched = {}
  BY DEF Start, Elsewhere, tables, DataInv, SeenInv, Deleting
<1>2. PICK target \in {"c7", "d4"} :
        up' = [NoUpgrade EXCEPT !.target = target,
                 !.pc = IF revision = "a6" THEN "usage" ELSE "ids"]
  BY DEF Start
<1>3. /\ up' \in Upgrades /\ up'.seen = {} /\ up'.gone = {} /\ up'.sums = {}
      /\ up'.late = [k \in Keys |-> 0] /\ up'.pc \in {"usage", "ids"}
  BY <1>2 DEF NoUpgrade, Upgrades, Statements
<1> QED
  BY <1>1, <1>3, SameTables, FreshUpgrade DEF Deleting

LEMMA ReadUsageData == ASSUME DataInv, ReadUsage PROVE DataInv'
<1>1. UNCHANGED <<usage, txs, sync, touched>> /\ touched = {}
  BY DEF ReadUsage, Elsewhere, tables, DataInv, SeenInv, Deleting
<1>2. up \in Upgrades /\ up.pc = "usage" /\ up.gone = {} /\ up.sums = {}
      /\ usage \subseteq Quotas /\ Identified(usage)
  BY DEF ReadUsage, DataInv, UpOK, PlanInv, QuotasOK
<1>3. /\ up' \in Upgrades /\ up'.seen = usage /\ up'.gone = {} /\ up'.sums = {}
      /\ up'.pc = "merge"
  BY <1>2 DEF ReadUsage, Upgrades, Statements
<1>4. UpOK' /\ PlanInv'
  BY <1>1, <1>2, <1>3 DEF UpOK, PlanInv, Deleting, Identified
<1>5. OneTable' /\ SeenInv'
  BY <1>1, <1>3 DEF DataInv, OneTable, SeenInv, Deleting
<1> QED
  BY <1>1, <1>4, <1>5, SameTables DEF DataInv

LEMMA UniqueUsageData == ASSUME DataInv, UniqueUsage PROVE DataInv'
<1>1. UNCHANGED <<usage, txs, sync, touched>> /\ touched = {}
  BY DEF UniqueUsage, Elsewhere, tables, DataInv, SeenInv, Deleting
<1>2. up \in Upgrades
  BY DEF DataInv, UpOK
<1>3. /\ up' \in Upgrades /\ up'.seen = {} /\ up'.gone = up.gone /\ up'.sums = up.sums
      /\ up'.pc \in {"commit", "ids"}
  BY <1>2 DEF UniqueUsage, Upgrades, Statements
<1>4. UpOK' /\ PlanInv'
  BY <1>1, <1>3 DEF DataInv, UpOK, PlanInv, Deleting
<1>5. OneTable' /\ SeenInv'
  BY <1>1, <1>3 DEF DataInv, OneTable, SeenInv, Deleting
<1> QED
  BY <1>1, <1>4, <1>5, SameTables DEF DataInv

LEMMA ReadTransactionsData == ASSUME DataInv, ReadTransactions PROVE DataInv'
<1>1. UNCHANGED <<usage, txs, sync, touched>>
  BY DEF ReadTransactions, Elsewhere, tables
<1>2. up \in Upgrades /\ txs \subseteq Txs /\ Identified(txs)
  BY DEF DataInv, UpOK, TxsOK
<1>3. /\ up' \in Upgrades /\ up'.seen = Left(txs) /\ up'.gone = up.gone /\ up'.sums = up.sums
      /\ up'.pc \in Deleting
  BY <1>2 DEF ReadTransactions, Upgrades, Statements, Left, Deleting
<1>4. UpOK' /\ PlanInv'
  BY <1>1, <1>2, <1>3 DEF DataInv, UpOK, PlanInv, Deleting, Left
<1>5. OneTable' /\ SeenInv'
  <2>1. Left(txs) \in SUBSET txs
    BY DEF Left
  <2>2. Identified(Left(txs))
    BY <1>2, <2>1, FS_Subset DEF Identified
  <2> QED
    BY <1>1, <1>2, <1>3, <2>1, <2>2 DEF DataInv, OneTable, SeenInv, Deleting, Left
<1> QED
  BY <1>1, <1>4, <1>5, SameTables DEF DataInv

LEMMA DeleteExtrasData == ASSUME DataInv, DeleteExtras PROVE DataInv'
<1>1. UNCHANGED <<usage, txs, sync>> /\ touched' = {}
  BY DEF DeleteExtras, Elsewhere, tables
<1>2. up \in Upgrades /\ up.pc \in Deleting /\ up.seen \subseteq Txs
  BY DEF DeleteExtras, DataInv, UpOK, Deleting
<1>3. PICK extra : /\ \E key : extra = ExtraIds(up.seen, key)
                   /\ \/ up' = [up EXCEPT !.pc = "movements", !.seen = {}, !.gone = @ \cup extra]
                      \/ up' = [up EXCEPT !.pc = "lock", !.seen = {}, !.gone = @ \cup extra]
  BY DEF DeleteExtras
<1>4. \A id \in extra : \E r \in up.seen : r.id = id
  BY <1>3 DEF ExtraIds
<1>5. extra \subseteq Nat
  BY <1>2, <1>4 DEF Txs
<1>6. /\ up' \in Upgrades /\ up'.seen = {} /\ up'.gone = up.gone \cup extra
      /\ up'.sums = up.sums /\ up'.pc \in {"movements", "lock"}
  BY <1>2, <1>3, <1>5 DEF Upgrades, Statements
<1>7. usage # {} => extra = {}
  BY <1>2, <1>4 DEF DataInv, OneTable, SeenInv
<1>8. UpOK' /\ PlanInv'
  <2>1. usage = {} => up.sums = {}
    BY <1>2 DEF DataInv, OneTable, PlanInv
  <2> QED
    BY <1>1, <1>6, <1>7, <2>1 DEF DataInv, UpOK, PlanInv, Deleting
<1>9. OneTable' /\ SeenInv'
  BY <1>1, <1>6 DEF DataInv, OneTable, SeenInv, Deleting
<1> QED
  BY <1>1, <1>8, <1>9, SameTables DEF DataInv

LEMMA UniqueTransactionsData == ASSUME DataInv, UniqueTransactions PROVE DataInv'
<1>1. UNCHANGED <<usage, txs, sync, touched>> /\ touched = {}
  BY DEF UniqueTransactions, Goes, Elsewhere, tables, DataInv, SeenInv, Deleting
<1>2. up \in Upgrades
  BY DEF DataInv, UpOK
<1>3. /\ up' \in Upgrades /\ up'.seen = up.seen /\ up'.gone = up.gone /\ up'.sums = up.sums
      /\ up'.pc = "commit"
  BY <1>2 DEF UniqueTransactions, Goes, Upgrades, Statements
<1> QED
  BY <1>1, <1>3, SameTables DEF DataInv, UpOK, PlanInv, Deleting, OneTable, SeenInv

LEMMA RollBackData == ASSUME DataInv, RollBack PROVE DataInv'
<1>1. UNCHANGED <<usage, txs, sync>> /\ touched' = {} /\ up' = NoUpgrade
  BY DEF RollBack, Elsewhere, tables
<1> QED
  BY <1>1, NoUpgradeFacts, SameTables, FreshUpgrade DEF Deleting

LEMMA NothingMoves ==
  ASSUME DataInv, UNCHANGED <<usage, txs, up, sync, touched>>
  PROVE  DataInv'
BY DEF DataInv, UpOK, TxsOK, QuotasOK, SyncsOK, OneTable, SeenInv, PlanInv, Identified

(* The quota rows an upgrade leaves.                                       *)
Keeps(r) == r.id \notin up.gone /\ \A s \in up.sums : s.id # r.id
Summed(r, s) == [r EXCEPT !.count = s.count]
MergedOf(U, plan) ==
  {r \in U : r.id \notin plan.gone /\ \A s \in plan.sums : s.id # r.id}
  \cup UNION {{[r EXCEPT !.count = s.count] : s \in {x \in plan.sums : x.id = r.id}} : r \in U}

LEMMA MergedNowAndNext == Merged = MergedOf(usage, up) /\ Merged' = MergedOf(usage', up')
BY DEF Merged, MergedOf

LEMMA MergedOfIs ==
  ASSUME NEW U, NEW plan, NEW m
  PROVE  m \in MergedOf(U, plan) <=>
           \/ m \in U /\ m.id \notin plan.gone /\ \A s \in plan.sums : s.id # m.id
           \/ \E r \in U, s \in plan.sums : s.id = r.id /\ m = Summed(r, s)
<1> DEFINE sums(r) == {[r EXCEPT !.count = s.count] : s \in {x \in plan.sums : x.id = r.id}}
<1>1. ASSUME NEW r
      PROVE  m \in sums(r) <=> \E s \in plan.sums : s.id = r.id /\ m = Summed(r, s)
  BY DEF Summed
<1>2. m \in UNION {sums(r) : r \in U} <=> \E r \in U : m \in sums(r)
  <2> HIDE DEF sums
  <2> QED
    OBVIOUS
<1>3. m \in UNION {sums(r) : r \in U}
      <=> \E r \in U, s \in plan.sums : s.id = r.id /\ m = Summed(r, s)
  <2> HIDE DEF sums
  <2> QED
    BY <1>1, <1>2
<1> QED
  BY <1>3 DEF MergedOf

LEMMA MergedIs ==
  ASSUME NEW m
  PROVE  m \in Merged <=> \/ m \in usage /\ Keeps(m)
                          \/ \E r \in usage, s \in up.sums : s.id = r.id /\ m = Summed(r, s)
BY MergedNowAndNext, MergedOfIs DEF Keeps

LEMMA MergedIsFine ==
  ASSUME DataInv
  PROVE  /\ Merged \subseteq Quotas /\ Identified(Merged)
         /\ \A m \in Merged : \E r \in usage : m.id = r.id /\ m.key = r.key
<1>1. /\ up.sums \subseteq [id : Nat, count : Nat]
      /\ \A s, t \in up.sums : s.id = t.id => s = t
  BY DEF DataInv, UpOK, Upgrades, PlanInv
<1>2. /\ usage \subseteq Quotas /\ IsFiniteSet(usage)
      /\ \A r, t \in usage : r.id = t.id => r = t
  BY DEF DataInv, QuotasOK, Identified
<1>3. ASSUME NEW r \in usage, NEW s \in up.sums
      PROVE  Summed(r, s) \in Quotas /\ Summed(r, s).id = r.id /\ Summed(r, s).key = r.key
  BY <1>1, <1>2 DEF Summed, Quotas
<1>4. \A m \in Merged : m \in Quotas /\ \E r \in usage : m.id = r.id /\ m.key = r.key
  <2> SUFFICES ASSUME NEW m \in Merged
               PROVE  m \in Quotas /\ \E r \in usage : m.id = r.id /\ m.key = r.key
    OBVIOUS
  <2> QED
    BY <1>2, <1>3, MergedIs
<1>5. ASSUME NEW m \in Merged, NEW n \in Merged, m.id = n.id PROVE m = n
  <2>1. CASE Keeps(m) /\ m \in usage
    <3>1. n \in usage
      BY <1>3, <1>5, <2>1, MergedIs DEF Keeps
    <3> QED
      BY <1>2, <1>5, <2>1, <3>1
  <2>2. CASE \E r \in usage, s \in up.sums : s.id = r.id /\ m = Summed(r, s)
    <3>1. PICK r \in usage, s \in up.sums : s.id = r.id /\ m = Summed(r, s)
      BY <2>2
    <3>2. ~Keeps(n)
      BY <1>3, <1>5, <3>1 DEF Keeps
    <3>3. PICK q \in usage, t \in up.sums : t.id = q.id /\ n = Summed(q, t)
      BY <3>2, MergedIs
    <3>4. r = q /\ s = t
      BY <1>1, <1>2, <1>3, <1>5, <3>1, <3>3
    <3> QED
      BY <3>1, <3>3, <3>4
  <2> QED
    BY <2>1, <2>2, MergedIs
<1>6. IsFiniteSet(Merged)
  <2> DEFINE old == [m \in Merged |-> CHOOSE r \in usage : r.id = m.id]
  <2>1. ASSUME NEW m \in Merged PROVE old[m] \in usage /\ old[m].id = m.id
    BY <1>4
  <2>2. old \in [Merged -> usage]
    BY <2>1
  <2> HIDE DEF old
  <2>3. \A m, n \in Merged : old[m] = old[n] => m = n
    BY <1>5, <2>1
  <2>4. old \in Injection(Merged, usage)
    BY <2>2, <2>3 DEF Injection, IsInjective
  <2> QED
    BY <1>2, <2>4, FS_Injection
<1> QED
  BY <1>4, <1>5, <1>6 DEF Identified

LEMMA CommitData == ASSUME DataInv, Commit PROVE DataInv'
<1>1. /\ usage' = Merged /\ txs' = Left(txs) /\ up' = NoUpgrade
      /\ UNCHANGED <<sync, touched>> /\ touched = {}
  BY DEF Commit, DataInv, SeenInv, Deleting
<1>2. QuotasOK'
  BY <1>1, MergedIsFine DEF QuotasOK, Identified
<1>3. TxsOK'
  <2>1. txs' \in SUBSET txs
    BY <1>1 DEF Left
  <2> QED
    BY <2>1, FS_Subset DEF DataInv, TxsOK, Identified
<1>4. SyncsOK'
  BY <1>1 DEF DataInv, SyncsOK
<1>5. usage' = {} \/ (txs' = {} /\ \A w \in Syncs : sync'[w].pc = "idle")
  <2>1. usage = {} => Merged = {}
    BY MergedIsFine
  <2>2. txs = {} => Left(txs) = {}
    BY DEF Left
  <2> QED
    BY <1>1, <2>1, <2>2 DEF DataInv, OneTable
<1> QED
  BY <1>1, <1>2, <1>3, <1>4, <1>5, NoUpgradeFacts, FreshUpgrade DEF Deleting

-----------------------------------------------------------------------------
(* Steps of syncs.                                                         *)
LEMMA ReadKnownData ==
  ASSUME DataInv, NEW w \in Syncs, NEW a \in Accounts, ReadKnown(w, a) PROVE DataInv'
<1>1. UNCHANGED <<usage, txs, up, touched>> /\ txs # {}
  BY DEF ReadKnown, tables
<1>2. SyncsOK'
  BY DEF ReadKnown, DataInv, SyncsOK
<1> QED
  BY <1>1, <1>2 DEF DataInv, UpOK, TxsOK, QuotasOK, OneTable, SeenInv, PlanInv, Identified

(* Any other step of a sync: nothing but its writes matters.               *)
LEMMA WriteData ==
  ASSUME DataInv, NEW w \in Syncs, sync[w].pc = "read", Ends(w), UNCHANGED <<usage, up>>,
         TxsOK', touched \subseteq touched', up.pc \notin Deleting => touched' = touched,
         up.pc \in Deleting =>
           \A t \in txs : \E u \in txs' : /\ u.id = t.id /\ u.account = t.account
                                          /\ (u = t \/ t.id \in touched')
  PROVE  DataInv'
<1>1. usage = {}
  BY DEF DataInv, OneTable
<1>2. SyncsOK'
  BY DEF Ends, NoSync, DataInv, SyncsOK
<1>3. UpOK' /\ QuotasOK' /\ PlanInv' /\ OneTable'
  BY <1>1 DEF DataInv, UpOK, QuotasOK, PlanInv, OneTable, Identified
<1>4. SeenInv'
  <2>1. CASE up.pc \in Deleting
    <3>1. ASSUME NEW r \in up.seen
          PROVE  /\ r.id \notin up.gone
                 /\ \E u \in txs' : /\ u.id = r.id /\ u.account = r.account
                                    /\ (r.id \in touched' \/ u = r)
      <4>1. PICK t \in txs : /\ t.id = r.id /\ t.account = r.account
                             /\ (r.id \in touched \/ t = r)
        BY <2>1 DEF DataInv, SeenInv
      <4>2. PICK u \in txs' : /\ u.id = t.id /\ u.account = t.account
                              /\ (u = t \/ t.id \in touched')
        BY <2>1
      <4> QED
        BY <2>1, <4>1, <4>2 DEF DataInv, SeenInv
    <3> QED
      BY <2>1, <3>1 DEF DataInv, SeenInv, Identified
  <2>2. CASE up.pc \notin Deleting
    BY <2>2 DEF DataInv, SeenInv
  <2> QED
    BY <2>1, <2>2
<1> QED
  BY <1>2, <1>3, <1>4 DEF DataInv

LEMMA RewriteData ==
  ASSUME DataInv, NEW w \in Syncs, sync[w].pc = "read", Ends(w), UNCHANGED <<usage, up>>,
         NEW r \in txs, NEW mv \in Movements, Rewrite(r, mv)
  PROVE  DataInv'
<1>1. TxsOK' /\ \A t \in txs : \E u \in txs' : /\ u.id = t.id /\ u.account = t.account
                                               /\ (u = t \/ t.id = r.id)
  BY RewriteKeeps DEF DataInv
<1>2. /\ touched \subseteq touched' /\ (up.pc \notin Deleting => touched' = touched)
      /\ (up.pc \in Deleting => r.id \in touched')
  BY DEF Rewrite, Writes
<1> QED
  BY <1>1, <1>2, WriteData

LEMMA RefreshData ==
  ASSUME DataInv, NEW w \in Syncs, NEW pid \in Pids, NEW mv \in Movements, Refresh(w, pid, mv)
  PROVE  DataInv'
<1>1. sync[w].pc = "read" /\ Ends(w) /\ UNCHANGED <<usage, up>>
  BY DEF Refresh
<1>2. (\E r \in txs : Rewrite(r, mv)) \/ UNCHANGED <<txs, touched>>
  BY DEF Refresh
<1>3. CASE UNCHANGED <<txs, touched>>
  <2>1. TxsOK'
    BY <1>3 DEF DataInv, TxsOK, Identified
  <2> QED
    BY <1>1, <1>3, <2>1, WriteData
<1> QED
  BY <1>1, <1>2, <1>3, RewriteData

LEMMA InsertNovelData ==
  ASSUME DataInv, NEW w \in Syncs, NEW pid \in Pids, NEW mv \in Movements,
         InsertNovel(w, pid, mv)
  PROVE  DataInv'
<1> DEFINE row == [id |-> NextId(txs), account |-> sync[w].account, pid |-> pid, mv |-> mv]
<1>1. sync[w].pc = "read" /\ Ends(w) /\ UNCHANGED <<usage, up>>
  BY DEF InsertNovel
<1>2. (\E r \in txs : Rewrite(r, mv)) \/ Writes(txs \cup {row}, row.id)
  BY DEF InsertNovel
<1>3. CASE Writes(txs \cup {row}, row.id)
  <2>1. NextId(txs) \in Nat /\ sync[w].account \in Accounts
    <3>1. \A r \in txs : r.id \in Nat
      BY DEF DataInv, TxsOK, Txs
    <3> QED
      BY <1>1, <3>1, FreshId DEF DataInv, TxsOK, Identified, SyncsOK
  <2>2. row \in Txs /\ row.id = NextId(txs) /\ txs' = txs \cup {row}
    BY <1>3, <2>1 DEF Txs, Writes
  <2>3. touched \subseteq touched' /\ (up.pc \notin Deleting => touched' = touched)
    BY <1>3 DEF Writes
  <2> HIDE DEF row
  <2>4. TxsOK'
    BY <2>2, InsertKeeps DEF DataInv
  <2> QED
    BY <1>1, <2>2, <2>3, <2>4, WriteData
<1> QED
  BY <1>1, <1>2, <1>3, RewriteData

LEMMA SyncEndsData == ASSUME DataInv, NEW w \in Syncs, SyncEnds(w) PROVE DataInv'
<1>1. sync[w].pc = "read" /\ Ends(w) /\ UNCHANGED <<usage, txs, up, touched>>
  BY DEF SyncEnds, tables
<1>2. TxsOK'
  BY <1>1 DEF DataInv, TxsOK, Identified
<1> QED
  BY <1>1, <1>2, WriteData

-----------------------------------------------------------------------------
(* Sums of counts.                                                         *)
Of(S, k) == {r \in S : r.key = k}
Counts == [r \in Quotas |-> r.count]

LEMMA TotalIsSum ==
  ASSUME NEW S \in SUBSET Quotas, IsFiniteSet(S), NEW k
  PROVE  Total(S, k) = Sum(Counts, Of(S, k))
<1> DEFINE T == Of(S, k)
           Adds(g) == g = [U \in SUBSET T |->
                             IF U = {} THEN 0
                             ELSE (CHOOSE x \in U : TRUE).count + g[U \ {CHOOSE x \in U : TRUE}]]
           iter == CHOOSE g : Adds(g)
<1>1. Total(S, k) = iter[T]
  BY DEF Total, MapThenSumSet, MapThenFoldSet, Of
<1>2. T \in SUBSET Quotas /\ IsFiniteSet(T)
  BY FS_Subset DEF Of
<1>3. \A U \in SUBSET T : U # {} => Counts[Some(U)] = Some(U).count
  BY <1>2, SomeIsOne DEF Counts
<1>4. ASSUME NEW g PROVE Adds(g) <=> SumsUp(Counts, T, g)
  BY <1>3 DEF SumsUp, Value, Some
<1>5. \E g : Adds(g)
  <2>1. PICK g : SumsUp(Counts, T, g)
    BY <1>2, SumsUpExist
  <2>2. Adds(g)
    BY <1>4, <2>1
  <2> HIDE DEF Adds
  <2> QED
    BY <2>2
<1>6. SumsUp(Counts, T, iter)
  BY <1>4, <1>5
<1>a. T \in SUBSET T
  OBVIOUS
<1> HIDE DEF iter, T
<1>b. \A U \in SUBSET T : iter[U] = Sum(Counts, U)
  BY <1>2, <1>6, SumsUpIsSum
<1>7. iter[T] = Sum(Counts, T)
  BY <1>a, <1>b
<1> QED
  BY <1>1, <1>7 DEF T

LEMMA TotalFacts ==
  ASSUME NEW S \in SUBSET Quotas, IsFiniteSet(S), NEW k
  PROVE  /\ Total(S, k) \in Nat
         /\ \A r \in S : r.key = k => Total(S, k) = r.count + Total(S \ {r}, k)
         /\ \A R \in SUBSET S : Total(S, k) = Total(R, k) + Total(S \ R, k)
<1> DEFINE T == Of(S, k)
<1>1. T \in SUBSET Quotas /\ IsFiniteSet(T) /\ \A r \in T : Counts[r] = r.count /\ r.count \in Nat
  BY FS_Subset DEF Of, Counts, Quotas
<1>2. Total(S, k) = Sum(Counts, T)
  BY TotalIsSum
<1>3. \A R \in SUBSET S : R \in SUBSET Quotas /\ IsFiniteSet(R)
  BY FS_Subset
<1>4. Total(S, k) \in Nat
  BY <1>1, <1>2, SumNatural
<1>5. ASSUME NEW r \in S, r.key = k PROVE Total(S, k) = r.count + Total(S \ {r}, k)
  <2>1. S \ {r} \in SUBSET S /\ Of(S \ {r}, k) = T \ {r} /\ r \in T
    BY <1>5 DEF Of
  <2>2. Total(S \ {r}, k) = Sum(Counts, T \ {r})
    BY <1>3, <2>1, TotalIsSum
  <2>3. Sum(Counts, T) = Counts[r] + Sum(Counts, T \ {r})
    BY <1>1, <2>1, SumOut
  <2> QED
    BY <1>1, <1>2, <2>1, <2>2, <2>3
<1>6. ASSUME NEW R \in SUBSET S PROVE Total(S, k) = Total(R, k) + Total(S \ R, k)
  <2> DEFINE A == Of(R, k)
             B == Of(S \ R, k)
  <2>1. A \cap B = {} /\ A \cup B = T
    BY DEF Of
  <2>2. S \ R \in SUBSET S
    OBVIOUS
  <2>3. Total(R, k) = Sum(Counts, A) /\ Total(S \ R, k) = Sum(Counts, B)
    BY <1>3, <2>2, TotalIsSum
  <2>4. IsFiniteSet(A) /\ IsFiniteSet(B) /\ \A r \in A \cup B : Counts[r] \in Int
    <3>1. A \in SUBSET T /\ B \in SUBSET T
      BY <2>1
    <3>2. IsFiniteSet(A) /\ IsFiniteSet(B)
      <4> HIDE DEF A, B, T
      <4> QED
        BY <1>1, <3>1, FS_Subset
    <3>3. \A r \in T : Counts[r] \in Int
      BY <1>1
    <3> QED
      BY <2>1, <3>2, <3>3
  <2> HIDE DEF A, B, T
  <2>5. Sum(Counts, A \cup B) = Sum(Counts, A) + Sum(Counts, B)
    BY <2>1, <2>4, SumUnion
  <2> QED
    BY <1>2, <2>1, <2>3, <2>5
<1> QED
  BY <1>4, <1>5, <1>6

(* Only the rows of the key count.                                         *)
LEMMA TotalSame ==
  ASSUME NEW S, NEW R, NEW k, {r \in S : r.key = k} = {r \in R : r.key = k}
  PROVE  Total(S, k) = Total(R, k)
BY DEF Total

LEMMA TotalOfOthers ==
  ASSUME NEW S \in SUBSET Quotas, IsFiniteSet(S), NEW k, \A r \in S : r.key # k
  PROVE  Total(S, k) = 0
<1>1. Of(S, k) = {}
  BY DEF Of
<1> QED
  BY <1>1, TotalIsSum, SumOfNone

(* A row joins.                                                            *)
LEMMA TotalWith ==
  ASSUME NEW S \in SUBSET Quotas, IsFiniteSet(S), NEW r \in Quotas, r \notin S, NEW k
  PROVE  Total(S \cup {r}, k) = Total(S, k) + (IF r.key = k THEN r.count ELSE 0)
<1> DEFINE R == S \cup {r}
<1>1. R \in SUBSET Quotas /\ IsFiniteSet(R) /\ R \ {r} = S /\ r \in R
  BY FS_AddElement
<1>2. CASE r.key = k
  <2>1. Total(R, k) = r.count + Total(S, k)
    <3> HIDE DEF R
    <3> QED
      BY <1>1, <1>2, TotalFacts
  <2>2. Total(S, k) \in Nat /\ r.count \in Nat
    BY TotalFacts DEF Quotas
  <2> QED
    BY <1>2, <2>1, <2>2
<1>3. CASE r.key # k
  <2>1. {x \in R : x.key = k} = {x \in S : x.key = k}
    BY <1>3
  <2>2. Total(S, k) \in Nat
    BY TotalFacts
  <2>3. Total(R, k) = Total(S, k)
    BY <2>1, TotalSame
  <2> QED
    BY <1>3, <2>2, <2>3
<1> QED
  BY <1>2, <1>3

-----------------------------------------------------------------------------
(* What a merge of one group does to the plan.                             *)
LEMMA GroupFacts ==
  ASSUME DataInv, up.pc = "merge", NEW k \in Keys, Duplicated(k)
  PROVE  LET keeper == Oldest(Group(k))
         IN  /\ keeper \in Group(k) /\ keeper \in up.seen /\ keeper \in Quotas
             /\ Group(k) \in SUBSET Quotas /\ IsFiniteSet(Group(k)) /\ Identified(up.seen)
             /\ Total(Group(k), k) \in Nat
             /\ \A r \in Group(k) : r \in up.seen /\ r.key = k /\ r.id \in Nat
<1>1. up.seen \subseteq Quotas /\ Identified(up.seen)
  BY DEF DataInv, UpOK, PlanInv
<1>2. Group(k) \in SUBSET up.seen /\ Group(k) # {}
  BY FS_EmptySet DEF Group, Duplicated
<1>3. Group(k) \in SUBSET Quotas /\ IsFiniteSet(Group(k))
  BY <1>1, <1>2, FS_Subset DEF Identified
<1>4. \A r \in Group(k) : r \in up.seen /\ r.key = k /\ r.id \in Nat
  BY <1>1 DEF Group, Quotas
<1>5. Oldest(Group(k)) \in Group(k)
  BY <1>2, <1>4, OldestIsOne
<1>6. Total(Group(k), k) \in Nat
  BY <1>3, TotalFacts
<1> QED
  BY <1>1, <1>2, <1>3, <1>4, <1>5, <1>6

Merges(k) ==
  up' = [up EXCEPT !.seen = @ \ Group(k),
           !.gone = @ \cup {r.id : r \in Group(k) \ {Oldest(Group(k))}},
           !.sums = @ \cup {[id |-> Oldest(Group(k)).id, count |-> Total(Group(k), k)]}]

LEMMA MergesWhat ==
  ASSUME DataInv, up.pc = "merge", NEW k \in Keys, Duplicated(k), Merges(k)
  PROVE  /\ up' \in Upgrades /\ up'.pc = "merge" /\ up'.seen = up.seen \ Group(k)
         /\ up'.gone = up.gone \cup {r.id : r \in Group(k) \ {Oldest(Group(k))}}
         /\ up'.sums = up.sums \cup {[id |-> Oldest(Group(k)).id, count |-> Total(Group(k), k)]}
         /\ up'.late = up.late
<1> DEFINE more == {r.id : r \in Group(k) \ {Oldest(Group(k))}}
           sum == [id |-> Oldest(Group(k)).id, count |-> Total(Group(k), k)]
<1>1. more \subseteq Nat
  BY GroupFacts
<1>2. sum \in [id : Nat, count : Nat]
  BY GroupFacts
<1>3. up \in Upgrades /\ up' = [up EXCEPT !.seen = @ \ Group(k), !.gone = @ \cup more,
                                          !.sums = @ \cup {sum}]
  BY DEF DataInv, UpOK, Merges
<1> HIDE DEF more, sum
<1>4. /\ up' \in Upgrades /\ up'.pc = "merge" /\ up'.seen = up.seen \ Group(k)
      /\ up'.gone = up.gone \cup more /\ up'.sums = up.sums \cup {sum} /\ up'.late = up.late
  BY <1>1, <1>2, <1>3 DEF Upgrades
<1> QED
  BY <1>4 DEF more, sum

LEMMA MergeGroupData ==
  ASSUME DataInv, up.pc = "merge", NEW k \in Keys, Duplicated(k), Merges(k),
         UNCHANGED <<usage, txs, sync, touched>>
  PROVE  DataInv'
<1> DEFINE G == Group(k)
           keeper == Oldest(G)
           sum == [id |-> keeper.id, count |-> Total(G, k)]
<1>1. /\ up' \in Upgrades /\ up'.pc = "merge" /\ up'.seen = up.seen \ G
      /\ up'.gone = up.gone \cup {r.id : r \in G \ {keeper}}
      /\ up'.sums = up.sums \cup {sum}
  BY MergesWhat
<1>2. keeper \in G /\ keeper \in up.seen /\ Identified(up.seen)
      /\ \A r \in G : r \in up.seen /\ r.key = k
  BY GroupFacts
<1>3. /\ \A s, t \in up.sums : s.id = t.id => s = t
      /\ \A s \in up.sums : s.id \notin up.gone /\ \E u \in usage : u.id = s.id
      /\ \A id \in up.gone : usage # {} => \E u \in usage : u.id = id
      /\ \A r \in up.seen :
            /\ r.id \notin up.gone /\ \A s \in up.sums : s.id # r.id
            /\ \E u \in usage : u.id = r.id /\ u.key = r.key
  BY DEF DataInv, PlanInv
<1>4. \A r, t \in up.seen : r.id = t.id => r = t
  BY <1>2 DEF Identified
<1>5. sum.id = keeper.id
  OBVIOUS
<1>6. UpOK'
  BY <1>1 DEF DataInv, UpOK, Deleting
<1>7. OneTable' /\ SeenInv' /\ touched = {}
  BY <1>1, <1>2 DEF DataInv, OneTable, SeenInv, Deleting
<1>8. Identified(up'.seen)
  BY <1>1, <1>2, FS_Subset DEF Identified
<1> HIDE DEF G, keeper, sum
<1>9. \A r \in up'.seen : r.id \notin up'.gone /\ (\A s \in up'.sums : s.id # r.id)
                          /\ \E u \in usage : u.id = r.id /\ u.key = r.key
  BY <1>1, <1>2, <1>3, <1>4, <1>5
<1>10. /\ \A s, t \in up'.sums : s.id = t.id => s = t
       /\ \A s \in up'.sums : s.id \notin up'.gone
  BY <1>1, <1>2, <1>3, <1>4, <1>5
<1>11. /\ \A s \in up'.sums : \E u \in usage : u.id = s.id
       /\ \A id \in up'.gone : usage # {} => \E u \in usage : u.id = id
  BY <1>1, <1>2, <1>3, <1>5
<1>12. PlanInv'
  BY <1>1, <1>8, <1>9, <1>10, <1>11 DEF PlanInv
<1> QED
  BY <1>6, <1>7, <1>12, SameTables DEF DataInv

LEMMA OldReleaseData ==
  ASSUME DataInv, NEW k \in Keys, OldReleaseTakes(k)
  PROVE  DataInv'
<1>1. UNCHANGED <<txs, sync, touched>> /\ usage # {}
  BY DEF OldReleaseTakes
<1>2. txs = {} /\ \A w \in Syncs : sync[w].pc = "idle"
  BY <1>1 DEF DataInv, OneTable
<1>3. /\ up' \in Upgrades /\ up'.pc = up.pc /\ up'.seen = up.seen /\ up'.gone = up.gone
      /\ up'.sums = up.sums /\ (up'.late = up.late \/ up.pc = "merge")
  <2>1. up' = up \/ (up' = [up EXCEPT !.late[k] = @ + 1] /\ up.pc = "merge")
    BY DEF OldReleaseTakes
  <2>2. up \in Upgrades
    BY DEF DataInv, UpOK
  <2>3. CASE up' = [up EXCEPT !.late[k] = @ + 1] /\ up.pc = "merge"
    <3>1. [up.late EXCEPT ![k] = @ + 1] \in [Keys -> Nat]
      <4>1. up.late \in [Keys -> Nat] /\ up.late[k] + 1 \in Nat
        BY <2>2 DEF Upgrades
      <4> QED
        BY <4>1
    <3> QED
      BY <2>2, <2>3, <3>1 DEF Upgrades
  <2> QED
    BY <2>1, <2>2, <2>3
<1>4. /\ usage \subseteq Quotas /\ IsFiniteSet(usage)
      /\ \A r, t \in usage : r.id = t.id => r = t
  BY DEF DataInv, QuotasOK, Identified
<1>5. /\ usage' \subseteq Quotas /\ Identified(usage')
      /\ \A u \in usage : \E v \in usage' : v.id = u.id /\ v.key = u.key
  <2>1. CASE \E r \in usage : usage' = (usage \ {r}) \cup {[r EXCEPT !.count = @ + 1]}
    <3> PICK r \in usage : usage' = (usage \ {r}) \cup {[r EXCEPT !.count = @ + 1]}
      BY <2>1
    <3> DEFINE new == [r EXCEPT !.count = @ + 1]
    <3>1. new \in Quotas /\ new.id = r.id /\ new.key = r.key
      BY <1>4 DEF Quotas
    <3>2. usage' = (usage \ {r}) \cup {new}
      OBVIOUS
    <3> HIDE DEF new
    <3>a. IsFiniteSet(usage \ {r})
      BY <1>4, FS_RemoveElement
    <3>b. IsFiniteSet((usage \ {r}) \cup {new})
      BY <3>a, FS_AddElement
    <3>3. IsFiniteSet(usage')
      BY <3>b, <3>2
    <3> QED
      BY <1>4, <3>1, <3>2, <3>3 DEF Identified
  <2>2. CASE usage' = usage \cup {[id |-> NextId(usage), key |-> k, count |-> 1]}
    <3> DEFINE new == [id |-> NextId(usage), key |-> k, count |-> 1]
    <3>1. NextId(usage) \in Nat /\ \A r \in usage : r.id \in Nat /\ r.id < NextId(usage)
      BY <1>4, FreshId DEF Quotas
    <3>2. new \in Quotas /\ \A r \in usage : r.id # new.id
      BY <3>1 DEF Quotas
    <3>3. IsFiniteSet(usage')
      BY <1>4, <2>2, FS_AddElement
    <3> HIDE DEF new
    <3>4. usage' = usage \cup {new}
      BY <2>2 DEF new
    <3> QED
      BY <1>4, <3>2, <3>3, <3>4 DEF Identified
  <2> QED
    BY <2>1, <2>2 DEF OldReleaseTakes
<1>6. UpOK' /\ QuotasOK' /\ TxsOK' /\ SyncsOK'
  BY <1>1, <1>3, <1>5 DEF DataInv, UpOK, QuotasOK, TxsOK, SyncsOK, Identified
<1>7. OneTable' /\ SeenInv'
  BY <1>1, <1>2, <1>3 DEF DataInv, OneTable, SeenInv, Identified
<1>8. PlanInv'
  <2>1. PlanInv
    BY DEF DataInv
  <2>2. /\ \A id \in up.gone : \E u \in usage' : u.id = id
        /\ \A s \in up.sums : \E u \in usage' : u.id = s.id
    BY <1>1, <1>5, <2>1 DEF PlanInv
  <2>3. up.pc = "merge" => \A r \in up.seen : \E u \in usage' : u.id = r.id /\ u.key = r.key
    BY <1>5, <2>1 DEF PlanInv
  <2> QED
    BY <1>3, <2>1, <2>2, <2>3 DEF PlanInv, Identified
<1> QED
  BY <1>6, <1>7, <1>8 DEF DataInv

LEMMA DataStep == DataInv /\ [UpgradeNext]_upgradeVars => DataInv'
<1> SUFFICES ASSUME DataInv, [UpgradeNext]_upgradeVars PROVE DataInv'
  OBVIOUS
<1>1. CASE MergeGroup
  <2>1. PICK k \in Keys : Duplicated(k) /\ Merges(k)
    BY <1>1 DEF MergeGroup, Merges
  <2>2. up.pc = "merge" /\ UNCHANGED <<usage, txs, sync, touched>>
    BY <1>1 DEF MergeGroup, Elsewhere, tables
  <2> QED
    BY <2>1, <2>2, MergeGroupData
<1>2. CASE Downgrade \/ UNCHANGED upgradeVars
  BY <1>2, NothingMoves DEF Downgrade, upgradeVars, tables
<1> QED
  BY <1>1, <1>2, StartData, ReadUsageData, UniqueUsageData, ReadTransactionsData,
     DeleteExtrasData, UniqueTransactionsData, CommitData, RollBackData, OldReleaseData,
     ReadKnownData, RefreshData, InsertNovelData, SyncEndsData DEF UpgradeNext

LEMMA DataStarts == UpgradeInit => DataInv
<1> SUFFICES ASSUME UpgradeInit PROVE DataInv
  OBVIOUS
<1>1. up = NoUpgrade /\ touched = {} /\ sync = [w \in Syncs |-> NoSync]
  BY DEF UpgradeInit
<1>2. \/ usage \in StoredUsage /\ txs = {}
      \/ usage = {} /\ txs \in StoredTransactions
  BY DEF UpgradeInit
<1>3. QuotasOK /\ TxsOK
  BY <1>2, MigrationsAssumption, FS_EmptySet DEF QuotasOK, TxsOK, Identified, Quotas, Txs
<1>4. SyncsOK /\ \A w \in Syncs : sync[w].pc = "idle"
  BY <1>1 DEF SyncsOK, NoSync
<1>5. UpOK /\ SeenInv /\ PlanInv
  BY <1>1, NoUpgradeFacts DEF UpOK, SeenInv, PlanInv, Deleting
<1>6. OneTable
  BY <1>1, <1>2, <1>4, NoUpgradeFacts DEF OneTable
<1> QED
  BY <1>3, <1>4, <1>5, <1>6 DEF DataInv

LEMMA DataAlways == UpgradeSpec => []DataInv
BY DataStarts, DataStep, PTL DEF UpgradeSpec

-----------------------------------------------------------------------------
(* Only copies go.                                                         *)
LEMMA CopyStays ==
  ASSUME DataInv, up.pc \in Deleting, NEW x \in txs, x.id \notin touched,
         NEW key, DOMAIN key = up.seen,
         \A r, t \in up.seen : key[r] = key[t] =>
           r.account = t.account /\ (r.pid = t.pid \/ r.mv = t.mv),
         x.id \in ExtraIds(up.seen, key)
  PROVE  \E k \in txs :
           /\ k.id < x.id /\ k.id \notin up.gone \cup ExtraIds(up.seen, key)
           /\ k.account = x.account
           /\ k.pid = x.pid \/ k.mv = x.mv \/ k.id \in touched
<1> DEFINE extra == ExtraIds(up.seen, key)
<1>1. /\ \A r, t \in txs : r.id = t.id => r = t
      /\ \A r, t \in up.seen : r.id = t.id => r = t
      /\ \A r \in up.seen :
            /\ r.id \notin up.gone
            /\ \E t \in txs : /\ t.id = r.id /\ t.account = r.account
                              /\ (r.id \in touched \/ t = r)
  BY DEF DataInv, SeenInv, TxsOK, Identified
<1>2. \A id : id \in extra <=>
        \E r \in up.seen : r.id = id /\ \E t \in up.seen : t.id < r.id /\ key[t] = key[r]
  BY DEF ExtraIds
<1>3. \A r \in up.seen : r.id \in Nat
  BY DEF DataInv, UpOK, Txs
<1>4. PICK y \in up.seen : y.id = x.id /\ \E t \in up.seen : t.id < y.id /\ key[t] = key[y]
  BY <1>2
<1> HIDE DEF extra
<1>5. x = y
  BY <1>1, <1>4
<1> DEFINE mates == {t \in up.seen : key[t] = key[y]}
           k == Oldest(mates)
<1>6. k \in mates /\ \A t \in mates : k.id <= t.id
  <2>1. mates # {} /\ \A t \in mates : t.id \in Nat
    BY <1>3
  <2> HIDE DEF mates
  <2> QED
    BY <2>1, OldestIsOne
<1>7. k \in up.seen /\ key[k] = key[y] /\ \A t \in up.seen : key[t] = key[y] => k.id <= t.id
  BY <1>6
<1> HIDE DEF k, mates
<1>8. k.id < x.id
  BY <1>3, <1>4, <1>7
<1>9. k.id \notin extra
  <2> SUFFICES ASSUME k.id \in extra PROVE FALSE
    OBVIOUS
  <2>1. PICK r \in up.seen : r.id = k.id /\ \E t \in up.seen : t.id < r.id /\ key[t] = key[r]
    BY <1>2
  <2>2. r = k
    BY <1>1, <1>7, <2>1
  <2> QED
    BY <1>3, <1>7, <2>1, <2>2
<1>10. PICK t \in txs : t.id = k.id /\ t.account = k.account /\ (k.id \in touched \/ t = k)
  BY <1>1, <1>7
<1>11. k.account = x.account /\ (k.pid = x.pid \/ k.mv = x.mv)
  BY <1>5, <1>7
<1>12. k.id \notin up.gone
  BY <1>1, <1>7
<1> QED
  BY <1>8, <1>9, <1>10, <1>11, <1>12 DEF extra

(* Whatever transactions the upgrade finds and whatever syncs do while it  *)
(* runs, it deletes a row only where an older copy of the account stays.   *)
THEOREM OnlyCopiesEverGo == UpgradeSpec => OnlyCopiesGo
<1> DEFINE Copy(x) ==
             \/ x.id \in touched
             \/ \E k \in txs :
                  /\ k.id < x.id /\ k.id \notin up'.gone /\ k.account = x.account
                  /\ k.pid = x.pid \/ k.mv = x.mv \/ k.id \in touched
<1>1. DataInv /\ [UpgradeNext]_upgradeVars =>
        \A x \in txs : x.id \in up'.gone \ up.gone => Copy(x)
  <2> SUFFICES ASSUME DataInv, [UpgradeNext]_upgradeVars, NEW x \in txs,
                      x.id \in up'.gone, x.id \notin up.gone
               PROVE  Copy(x)
    OBVIOUS
  <2>1. CASE MergeGroup
    <3>1. PICK k \in Keys : Duplicated(k)
      BY <2>1 DEF MergeGroup
    <3>2. up.pc = "merge" /\ up.seen # {}
      BY <2>1, <3>1, NothingOfNone DEF MergeGroup
    <3>3. txs = {}
      BY <3>2 DEF DataInv, OneTable
    <3> QED
      BY <3>3
  <2>2. CASE DeleteExtras
    <3>1. PICK key : /\ key \in {PidKey(up.seen), MovementKey(up.seen)}
                     /\ up'.gone = up.gone \cup ExtraIds(up.seen, key)
      BY <2>2 DEF DeleteExtras, DataInv, UpOK, Upgrades
    <3>2. DOMAIN key = up.seen
          /\ \A r, t \in up.seen : key[r] = key[t] =>
               r.account = t.account /\ (r.pid = t.pid \/ r.mv = t.mv)
      BY <3>1 DEF PidKey, MovementKey
    <3>3. up.pc \in Deleting
      BY <2>2 DEF DeleteExtras, Deleting
    <3>4. x.id \in ExtraIds(up.seen, key)
      BY <3>1
    <3>5. x.id \notin touched =>
            \E k \in txs :
              /\ k.id < x.id /\ k.id \notin up'.gone /\ k.account = x.account
              /\ k.pid = x.pid \/ k.mv = x.mv \/ k.id \in touched
      BY <3>1, <3>2, <3>3, <3>4, CopyStays
    <3> QED
      BY <3>5
  <2>3. CASE up'.gone = up.gone \/ up'.gone = {}
    BY <2>3
  <2>4. MergeGroup \/ DeleteExtras \/ up'.gone = up.gone \/ up'.gone = {}
    <3>1. up \in Upgrades
      BY DEF DataInv, UpOK
    <3>2. Start \/ RollBack \/ Commit => up'.gone = {}
      <4>1. ASSUME Start PROVE up'.gone = {}
        <5>1. PICK target, pc : up' = [NoUpgrade EXCEPT !.target = target, !.pc = pc]
          BY <4>1 DEF Start
        <5> QED
          BY <5>1 DEF NoUpgrade
      <4>2. RollBack \/ Commit => up'.gone = {}
        BY NoUpgradeFacts DEF RollBack, Commit
      <4> QED
        BY <4>1, <4>2
    <3>3. ReadUsage \/ UniqueUsage \/ ReadTransactions \/ UniqueTransactions =>
            up'.gone = up.gone
      BY <3>1 DEF ReadUsage, UniqueUsage, ReadTransactions, UniqueTransactions, Goes, Upgrades
    <3>4. \A k \in Keys : OldReleaseTakes(k) => up'.gone = up.gone
      BY <3>1 DEF OldReleaseTakes, Upgrades
    <3>5. Downgrade \/ UNCHANGED upgradeVars => up' = up
      BY DEF Downgrade, upgradeVars
    <3>6. \A w \in Syncs : \A a, pid, mv :
            ReadKnown(w, a) \/ Refresh(w, pid, mv) \/ InsertNovel(w, pid, mv) \/ SyncEnds(w)
            => up' = up
      BY DEF ReadKnown, Refresh, InsertNovel, SyncEnds
    <3> QED
      BY <3>2, <3>3, <3>4, <3>5, <3>6 DEF UpgradeNext
  <2> QED
    BY <2>1, <2>2, <2>3, <2>4
<1>2. DataInv /\ [UpgradeNext]_upgradeVars =>
        [\A x \in txs : x.id \in up'.gone \ up.gone => Copy(x)]_upgradeVars
  BY <1>1
<1> QED
  BY <1>2, DataAlways, PTL DEF UpgradeSpec, OnlyCopiesGo

-----------------------------------------------------------------------------
(* The books.                                                              *)
UsageFine ==
  /\ usage \in SUBSET Quotas /\ IsFiniteSet(usage)
  /\ Merged \in SUBSET Quotas /\ IsFiniteSet(Merged)

LEMMA UsageIsFine == DataInv => UsageFine
<1> SUFFICES ASSUME DataInv PROVE UsageFine
  OBVIOUS
<1>1. usage \in SUBSET Quotas /\ IsFiniteSet(usage)
  BY DEF DataInv, QuotasOK, Identified
<1>2. Merged \in SUBSET Quotas /\ IsFiniteSet(Merged)
  BY MergedIsFine DEF Identified
<1> QED
  BY <1>1, <1>2 DEF UsageFine

(* Nothing planned, or nothing to plan for: the table stays as it is.      *)
LEMMA NothingToMerge ==
  ASSUME NEW U, NEW plan, U = {} \/ (plan.gone = {} /\ plan.sums = {})
  PROVE  MergedOf(U, plan) = U
<1>1. \A m : m \in MergedOf(U, plan) <=> m \in U
  BY MergedOfIs
<1> QED
  BY <1>1

LEMMA BooksStay ==
  ASSUME BooksInv, UNCHANGED <<usage, taken, lost>>,
         Merged' = Merged, up'.late = up.late,
         \A k \in Keys : Unmerged(k)' => Unmerged(k) /\ Group(k)' = Group(k),
         \A k \in Keys : Unmerged(k) /\ ~Unmerged(k)' => up.late[k] = 0
  PROVE  BooksInv'
<1> SUFFICES ASSUME NEW k \in Keys
             PROVE  /\ taken'[k] \in Int /\ lost'[k] \in Int
                    /\ Total(usage', k) = taken'[k] - lost'[k]
                    /\ Unmerged(k)' =>
                         /\ Total(Merged', k) = Total(usage', k)
                         /\ Total(Held(k)', k) = Total(Group(k)', k) + up'.late[k]
                    /\ ~Unmerged(k)' => Total(Merged', k) = Total(usage', k) - up'.late[k]
  BY DEF BooksInv
<1>1. CASE Unmerged(k)'
  <2>1. Unmerged(k) /\ Group(k)' = Group(k) /\ Held(k)' = Held(k)
    BY <1>1 DEF Held
  <2> QED
    BY <1>1, <2>1 DEF BooksInv
<1>2. CASE ~Unmerged(k)' /\ ~Unmerged(k)
  BY <1>2 DEF BooksInv
<1>3. CASE ~Unmerged(k)' /\ Unmerged(k)
  <2>1. up.late[k] = 0 /\ Total(Merged, k) = Total(usage, k) /\ Total(usage, k) \in Int
        /\ taken[k] \in Int /\ lost[k] \in Int /\ Total(usage, k) = taken[k] - lost[k]
    BY <1>3 DEF BooksInv
  <2> QED
    BY <1>3, <2>1
<1> QED
  BY <1>1, <1>2, <1>3

LEMMA BooksStart == UpgradeInit => BooksInv
<1> SUFFICES ASSUME UpgradeInit, NEW k \in Keys
             PROVE  /\ taken[k] \in Int /\ lost[k] \in Int
                    /\ Total(usage, k) = taken[k] - lost[k]
                    /\ ~Unmerged(k) /\ Total(Merged, k) = Total(usage, k) - up.late[k]
  BY DEF BooksInv
<1>1. up = NoUpgrade /\ taken[k] = Total(usage, k) /\ lost[k] = 0
  BY DEF UpgradeInit
<1>2. Total(usage, k) \in Nat
  BY DataStarts, UsageIsFine, TotalFacts DEF UsageFine
<1>3. Merged = usage
  BY <1>1, NoUpgradeFacts, MergedNowAndNext, NothingToMerge
<1>4. ~Unmerged(k) /\ up.late[k] = 0
  BY <1>1, NoUpgradeFacts DEF Unmerged
<1> QED
  BY <1>1, <1>2, <1>3, <1>4

(* Steps that begin, undo or lay out an upgrade.                           *)
LEMMA IdleBooks ==
  ASSUME DataInv, BooksInv, Start \/ ReadUsage
  PROVE  BooksInv'
<1>1. UNCHANGED <<usage, taken, lost>> /\ up.pc \in {"idle", "usage"} /\ up \in Upgrades
  BY DEF Start, ReadUsage, Elsewhere, tables, DataInv, UpOK
<1>2. up.gone = {} /\ up.sums = {} /\ up.late = [k \in Keys |-> 0]
  BY <1>1 DEF DataInv, PlanInv
<1>3. up'.gone = {} /\ up'.sums = {} /\ up'.late = [k \in Keys |-> 0]
  <2>1. CASE Start
    <3>1. PICK target, pc : up' = [NoUpgrade EXCEPT !.target = target, !.pc = pc]
      BY <2>1 DEF Start
    <3> QED
      BY <3>1 DEF NoUpgrade
  <2>2. CASE ReadUsage
    BY <1>1, <1>2, <2>2 DEF ReadUsage, Upgrades
  <2> QED
    BY <2>1, <2>2
<1>4. Merged = usage /\ Merged' = usage'
  BY <1>2, <1>3, MergedNowAndNext, NothingToMerge
<1>5. Start => up'.pc # "merge"
  <2> SUFFICES ASSUME Start PROVE up'.pc # "merge"
    OBVIOUS
  <2>1. PICK target, pc : /\ up' = [NoUpgrade EXCEPT !.target = target, !.pc = pc]
                          /\ pc \in {"usage", "ids"}
    BY DEF Start
  <2> QED
    BY <2>1 DEF NoUpgrade
<1>6. ReadUsage => up'.seen = usage
  BY <1>1 DEF ReadUsage, Upgrades
<1>7. SUFFICES ASSUME NEW k \in Keys
               PROVE  /\ taken'[k] \in Int /\ lost'[k] \in Int
                      /\ Total(usage', k) = taken'[k] - lost'[k]
                      /\ Total(usage', k) \in Int
                      /\ Unmerged(k)' => Total(Group(k)', k) \in Int /\ Held(k)' = Group(k)'
  BY <1>3, <1>4 DEF BooksInv
<1>8. taken[k] \in Int /\ lost[k] \in Int /\ Total(usage, k) = taken[k] - lost[k]
  BY DEF BooksInv
<1>9. ASSUME Unmerged(k)' PROVE Total(Group(k)', k) \in Int /\ Held(k)' = Group(k)'
  <2>1. up'.seen = usage
    BY <1>5, <1>6, <1>9 DEF Unmerged
  <2>2. Group(k)' = Of(usage, k) /\ Held(k)' = {u \in usage : \E r \in Of(usage, k) : r.id = u.id}
    BY <1>1, <2>1 DEF Group, Held, Of
  <2>3. Held(k)' = Of(usage, k)
    BY <2>2 DEF Of, DataInv, QuotasOK, Identified
  <2>4. Of(usage, k) \in SUBSET Quotas /\ IsFiniteSet(Of(usage, k))
    BY UsageIsFine, FS_Subset DEF UsageFine, Of
  <2>5. Total(Of(usage, k), k) \in Nat
    BY <2>4, TotalFacts
  <2> QED
    BY <2>2, <2>3, <2>5
<1> QED
  BY <1>1, <1>8, <1>9

(* Steps that only write transactions or change nothing of the plan.       *)
LEMMA PlanStays ==
  ASSUME DataInv, BooksInv, UNCHANGED <<usage, taken, lost>>,
         usage = {} \/ (up'.gone = up.gone /\ up'.sums = up.sums), up'.late = up.late,
         \A k \in Keys : Unmerged(k)' <=> Unmerged(k), up.pc = "merge" => up'.seen = up.seen
  PROVE  BooksInv'
<1>1. Merged' = Merged
  <2>1. CASE usage = {}
    BY <2>1, MergedNowAndNext, NothingToMerge
  <2>2. CASE up'.gone = up.gone /\ up'.sums = up.sums
    BY <2>2, MergedNowAndNext DEF MergedOf
  <2> QED
    BY <2>1, <2>2
<1>2. \A k \in Keys : Unmerged(k)' => Unmerged(k) /\ Group(k)' = Group(k)
  BY DEF Unmerged, Group
<1> QED
  BY <1>1, <1>2, BooksStay

LEMMA UniqueUsageBooks == ASSUME DataInv, BooksInv, UniqueUsage PROVE BooksInv'
<1>1. up \in Upgrades
  BY DEF DataInv, UpOK
<1>2. /\ up'.pc # "merge" /\ up'.gone = up.gone /\ up'.sums = up.sums /\ up'.late = up.late
      /\ UNCHANGED <<usage, taken, lost>>
  BY <1>1 DEF UniqueUsage, Elsewhere, tables, Upgrades
<1>3. \A k \in Keys : ~Unmerged(k) /\ ~Unmerged(k)'
  BY <1>2 DEF UniqueUsage, Unmerged
<1>4. Merged' = Merged
  BY <1>2, MergedNowAndNext DEF MergedOf
<1> QED
  BY <1>2, <1>3, <1>4, BooksStay

LEMMA TransactionBooks ==
  ASSUME DataInv, BooksInv, ReadTransactions \/ DeleteExtras \/ UniqueTransactions
  PROVE  BooksInv'
<1>1. up \in Upgrades
  BY DEF DataInv, UpOK
<1>2. /\ up.pc # "merge" /\ up'.pc # "merge" /\ up'.late = up.late
      /\ UNCHANGED <<usage, taken, lost>>
  BY <1>1 DEF ReadTransactions, DeleteExtras, UniqueTransactions, Goes, Elsewhere, tables, Upgrades
<1>3. usage = {} \/ (up'.gone = up.gone /\ up'.sums = up.sums)
  <2>1. CASE ReadTransactions \/ UniqueTransactions
    BY <1>1, <2>1 DEF ReadTransactions, UniqueTransactions, Goes, Upgrades
  <2>2. CASE DeleteExtras
    <3>1. PICK key : up'.gone = up.gone \cup ExtraIds(up.seen, key) /\ up'.sums = up.sums
      BY <1>1, <2>2 DEF DeleteExtras, Upgrades
    <3>2. CASE usage # {}
      <4>1. txs = {} /\ up.pc \in Deleting
        BY <2>2, <3>2 DEF DataInv, OneTable, DeleteExtras, Deleting
      <4>2. up.seen = {}
        BY <4>1 DEF DataInv, SeenInv
      <4>3. ExtraIds(up.seen, key) = {}
        BY <4>2 DEF ExtraIds
      <4> QED
        BY <3>1, <4>3
    <3> QED
      BY <3>2
  <2> QED
    BY <2>1, <2>2
<1> QED
  BY <1>2, <1>3, PlanStays DEF Unmerged

LEMMA RollBackBooks == ASSUME DataInv, BooksInv, RollBack PROVE BooksInv'
<1>1. up' = NoUpgrade /\ UNCHANGED <<usage, taken, lost>>
  BY DEF RollBack, Elsewhere, tables
<1>2. Merged' = usage' /\ \A k \in Keys : ~Unmerged(k)' /\ up'.late[k] = 0
  BY <1>1, NoUpgradeFacts, MergedNowAndNext, NothingToMerge DEF Unmerged
<1> SUFFICES ASSUME NEW k \in Keys
             PROVE  /\ taken'[k] \in Int /\ lost'[k] \in Int
                    /\ Total(usage', k) = taken'[k] - lost'[k]
                    /\ Total(usage', k) \in Int
  BY <1>2 DEF BooksInv
<1>3. taken[k] \in Int /\ lost[k] \in Int /\ Total(usage, k) = taken[k] - lost[k]
  BY DEF BooksInv
<1> QED
  BY <1>1, <1>3

LEMMA CommitBooks == ASSUME DataInv, BooksInv, Commit PROVE BooksInv'
<1>1. /\ usage' = Merged /\ up' = NoUpgrade /\ taken' = taken
      /\ lost' = [k \in Keys |-> lost[k] + up.late[k]] /\ up.pc = "commit"
  BY DEF Commit
<1>2. Merged' = usage' /\ \A k \in Keys : ~Unmerged(k)' /\ up'.late[k] = 0
  BY <1>1, NoUpgradeFacts, MergedNowAndNext, NothingToMerge DEF Unmerged
<1> SUFFICES ASSUME NEW k \in Keys
             PROVE  /\ taken'[k] \in Int /\ lost'[k] \in Int
                    /\ Total(usage', k) = taken'[k] - lost'[k]
                    /\ Total(usage', k) \in Int
  BY <1>2 DEF BooksInv
<1>3. /\ taken[k] \in Int /\ lost[k] \in Int /\ Total(usage, k) = taken[k] - lost[k]
      /\ Total(Merged, k) = Total(usage, k) - up.late[k]
  BY <1>1 DEF BooksInv, Unmerged
<1>4. up.late[k] \in Nat
  BY DEF DataInv, UpOK, Upgrades
<1> QED
  BY <1>1, <1>3, <1>4

LEMMA MergeGroupBooks ==
  ASSUME DataInv, BooksInv, up.pc = "merge", NEW k \in Keys, Duplicated(k), Merges(k),
         UNCHANGED <<usage, taken, lost>>
  PROVE  BooksInv'
<1> DEFINE G == Group(k)
           keeper == Oldest(G)
           total == Total(G, k)
           sum == [id |-> keeper.id, count |-> total]
           B == Held(k)
           A == Merged \ B
<1>1. /\ up'.pc = "merge" /\ up'.seen = up.seen \ G
      /\ up'.gone = up.gone \cup {r.id : r \in G \ {keeper}}
      /\ up'.sums = up.sums \cup {sum} /\ up'.late = up.late
  BY MergesWhat
<1>2. /\ keeper \in G /\ keeper \in up.seen /\ total \in Nat
      /\ \A r \in G : r \in up.seen /\ r.key = k
  BY GroupFacts
<1>3. /\ \A s \in up.sums : s.id \notin up.gone
      /\ \A r \in up.seen :
            /\ r.id \notin up.gone /\ \A s \in up.sums : s.id # r.id
            /\ \E u \in usage : u.id = r.id /\ u.key = r.key
  BY DEF DataInv, PlanInv
<1>4. /\ usage \in SUBSET Quotas /\ IsFiniteSet(usage)
      /\ Merged \in SUBSET Quotas /\ IsFiniteSet(Merged)
  BY UsageIsFine DEF UsageFine
<1>5. /\ \A r, t \in usage : r.id = t.id => r = t
      /\ \A r, t \in Merged : r.id = t.id => r = t
  BY MergedIsFine DEF DataInv, QuotasOK, Identified
<1>6. sum.id = keeper.id /\ sum.count = total
  OBVIOUS
<1>7. \A u : u \in B <=> u \in usage /\ \E r \in G : r.id = u.id
  BY DEF Held
<1> HIDE DEF G, keeper, sum, total, B
<1>8. \A u \in B : u \in Merged /\ u.key = k
  <2> SUFFICES ASSUME NEW u \in B PROVE u \in Merged /\ u.key = k
    OBVIOUS
  <2>1. PICK r \in G : r.id = u.id
    BY <1>7
  <2>2. u \in usage /\ r \in up.seen /\ r.key = k
    BY <1>2, <1>7, <2>1
  <2>3. Keeps(u)
    BY <1>3, <2>1, <2>2 DEF Keeps
  <2>4. u.key = k
    BY <1>3, <1>5, <2>1, <2>2
  <2> QED
    BY <2>2, <2>3, <2>4, MergedIs
<1>9. PICK u \in usage : u.id = keeper.id /\ u.key = k
  BY <1>2, <1>3
<1> DEFINE new == Summed(u, sum)
<1>10. u \in B /\ new \in Quotas /\ new.id = u.id /\ new.key = k /\ new.count = total
  BY <1>2, <1>4, <1>6, <1>7, <1>9 DEF Summed, Quotas
<1>11. new \notin A
  BY <1>5, <1>8, <1>10
<1>12. Merged' = A \cup {new}
  <2> SUFFICES ASSUME NEW m PROVE m \in Merged' <=> m \in A \cup {new}
    OBVIOUS
  <2> DEFINE kept == m \in usage /\ m.id \notin up'.gone /\ \A s \in up'.sums : s.id # m.id
             summed == \E r \in usage, s \in up'.sums : s.id = r.id /\ m = Summed(r, s)
  <2>1. m \in Merged' <=> kept \/ summed
    BY MergedNowAndNext, MergedOfIs
  <2>2. kept <=> m \in usage /\ Keeps(m) /\ m \notin B
    BY <1>1, <1>2, <1>6, <1>7 DEF Keeps
  <2>3. summed <=> m = new \/ \E r \in usage, s \in up.sums : s.id = r.id /\ m = Summed(r, s)
    BY <1>1, <1>5, <1>6, <1>9
  <2>4. ASSUME NEW r \in usage, NEW s \in up.sums, s.id = r.id, m = Summed(r, s) PROVE m \notin B
    <3>1. m.id = s.id
      BY <1>4, <2>4 DEF Summed, Quotas
    <3> QED
      BY <1>2, <1>3, <1>7, <3>1
  <2> HIDE DEF kept, summed, new
  <2> QED
    BY <2>1, <2>2, <2>3, <2>4, MergedIs
<1> HIDE DEF new
<1>13. /\ B \in SUBSET Merged /\ A \in SUBSET Quotas /\ IsFiniteSet(A)
       /\ \A j : Total(Merged, j) \in Nat /\ Total(usage, j) \in Nat /\ Total(A, j) \in Nat
  <2>1. A \in SUBSET Merged /\ B \in SUBSET Merged
    BY <1>8
  <2>2. A \in SUBSET Quotas /\ IsFiniteSet(A)
    BY <1>4, <2>1, FS_Subset
  <2> HIDE DEF A
  <2> QED
    BY <1>4, <2>1, <2>2, TotalFacts
<1> SUFFICES ASSUME NEW j \in Keys
             PROVE  /\ taken'[j] \in Int /\ lost'[j] \in Int
                    /\ Total(usage', j) = taken'[j] - lost'[j]
                    /\ Unmerged(j)' =>
                         /\ Total(Merged', j) = Total(usage', j)
                         /\ Total(Held(j)', j) = Total(Group(j)', j) + up'.late[j]
                    /\ ~Unmerged(j)' => Total(Merged', j) = Total(usage', j) - up'.late[j]
  BY DEF BooksInv
<1>14. taken[j] \in Int /\ lost[j] \in Int /\ Total(usage, j) = taken[j] - lost[j]
  BY DEF BooksInv
<1>15. CASE j = k
  <2>1. ~Unmerged(j)'
    <3>1. Group(j)' = {}
      BY <1>1, <1>15 DEF G, Group
    <3> QED
      BY <3>1, FS_EmptySet DEF Unmerged, Duplicated
  <2>2. Total(Merged, k) = Total(B, k) + Total(A, k)
    BY <1>4, <1>13, TotalFacts
  <2>3. Total(B, k) = total + up.late[k] /\ Total(Merged, k) = Total(usage, k)
    BY DEF BooksInv, Unmerged, B, total, G
  <2>4. up.late[k] \in Nat
    BY DEF DataInv, UpOK, Upgrades
  <2>5. Total(A \cup {new}, k) = Total(A, k) + total
    BY <1>10, <1>11, <1>13, TotalWith
  <2>6. Total(Merged', k) = Total(A, k) + total
    BY <1>12, <2>5
  <2> HIDE DEF A
  <2>7. Total(Merged', k) = Total(usage, k) - up.late[k]
    BY <1>2, <1>13, <2>2, <2>3, <2>4, <2>6
  <2> QED
    BY <1>1, <1>14, <1>15, <2>1, <2>7
<1>16. CASE j # k
  <2>1. {r \in Merged' : r.key = j} = {r \in Merged : r.key = j}
    BY <1>8, <1>10, <1>12, <1>16
  <2>2. Total(Merged', j) = Total(Merged, j)
    BY <2>1, TotalSame
  <2>3. Group(j)' = Group(j)
    BY <1>1, <1>2, <1>16 DEF Group
  <2>4. Held(j)' = Held(j) /\ (Unmerged(j)' <=> Unmerged(j))
    BY <1>1, <2>3 DEF Held, Unmerged, Duplicated
  <2> QED
    BY <1>1, <1>14, <2>2, <2>3, <2>4 DEF BooksInv
<1> QED
  BY <1>15, <1>16

(* The release before adds a unit: a row of the key replaces those in R,   *)
(* one or none, and counts one more.                                       *)
LEMMA TotalMoves ==
  ASSUME NEW S \in SUBSET Quotas, IsFiniteSet(S), NEW R \in SUBSET S, NEW new \in Quotas,
         new \notin S \ R, NEW k, \A r \in R : r.key = k, new.key = k,
         new.count = Total(R, k) + 1
  PROVE  /\ Total((S \ R) \cup {new}, k) = Total(S, k) + 1
         /\ \A j : j # k => Total((S \ R) \cup {new}, j) = Total(S, j)
<1> DEFINE A == S \ R
<1>1. A \in SUBSET Quotas /\ IsFiniteSet(A) /\ R \in SUBSET Quotas /\ IsFiniteSet(R)
  BY FS_Subset
<1>2. Total(S, k) = Total(R, k) + Total(A, k)
  BY TotalFacts
<1>3. ASSUME NEW j, j # k PROVE Total(A \cup {new}, j) = Total(S, j)
  <2>1. {r \in A \cup {new} : r.key = j} = {r \in S : r.key = j}
    BY <1>3
  <2> QED
    BY <2>1, TotalSame
<1> HIDE DEF A
<1>4. Total(A, k) \in Nat /\ Total(R, k) \in Nat
  BY <1>1, TotalFacts
<1>5. Total(A \cup {new}, k) = Total(A, k) + new.count
  BY <1>1, TotalWith DEF A
<1>6. Total(A \cup {new}, k) = Total(S, k) + 1
  BY <1>2, <1>4, <1>5
<1> QED
  BY <1>3, <1>6 DEF A

LEMMA MergedMoves ==
  ASSUME DataInv, NEW R \in SUBSET usage, \A r \in R : Keeps(r),
         NEW new, usage' = (usage \ R) \cup {new},
         up'.gone = up.gone, up'.sums = up.sums, new.id \notin up.gone,
         \A s \in up.sums : s.id # new.id
  PROVE  Merged' = (Merged \ R) \cup {new} /\ R \in SUBSET Merged
<1>1. R \in SUBSET Merged
  BY MergedIs
<1> SUFFICES ASSUME NEW m PROVE m \in Merged' <=> m \in (Merged \ R) \cup {new}
  BY <1>1
<1> DEFINE kept == m \in usage' /\ m.id \notin up.gone /\ \A s \in up.sums : s.id # m.id
           summed(U) == \E r \in U, s \in up.sums : s.id = r.id /\ m = Summed(r, s)
<1>2. m \in Merged' <=> kept \/ summed(usage')
  BY MergedNowAndNext, MergedOfIs
<1>3. m \in Merged <=> (m \in usage /\ Keeps(m)) \/ summed(usage)
  BY MergedIs
<1>4. kept <=> (m \in usage /\ Keeps(m) /\ m \notin R) \/ m = new
  BY DEF Keeps
<1>5. summed(usage') <=> summed(usage)
  BY DEF Keeps
<1>6. summed(usage) => m \notin R
  <2> SUFFICES ASSUME NEW r \in usage, NEW s \in up.sums, s.id = r.id, m = Summed(r, s)
               PROVE  m \notin R
    OBVIOUS
  <2>1. r \in Quotas
    BY DEF DataInv, QuotasOK
  <2>2. m.id = s.id
    BY <2>1 DEF Summed, Quotas
  <2> QED
    BY <2>2 DEF Keeps
<1> HIDE DEF kept, summed
<1> QED
  BY <1>2, <1>3, <1>4, <1>5, <1>6

(* The step in those terms: a row gets one more, or another row joins.     *)
LEMMA OldReleaseWhat ==
  ASSUME DataInv, NEW k \in Keys, OldReleaseTakes(k)
  PROVE  \E R \in SUBSET usage, new \in Quotas :
           /\ usage' = (usage \ R) \cup {new} /\ new.key = k
           /\ \A r \in R : r.key = k /\ r.id = new.id /\ Keeps(r)
           /\ \A r \in usage \ R : r.id # new.id
           /\ new.count = Total(R, k) + 1
           /\ new.id \notin up.gone /\ \A s \in up.sums : s.id # new.id
           /\ \/ /\ up' = up
                 /\ Unmerged(k) => \A r \in R : r \notin Held(k)
                 /\ R = {} => \A u \in up.seen : up.pc = "merge" => u.id # new.id
              \/ /\ up' = [up EXCEPT !.late[k] = @ + 1]
                 /\ Unmerged(k) /\ R # {} /\ R \in SUBSET Held(k)
<1>1. /\ usage \subseteq Quotas /\ IsFiniteSet(usage)
      /\ \A r, t \in usage : r.id = t.id => r = t
  BY DEF DataInv, QuotasOK, Identified
<1>2. CASE \E r \in usage :
             /\ r.key = k /\ r.id \notin up.gone /\ \A s \in up.sums : s.id # r.id
             /\ usage' = (usage \ {r}) \cup {[r EXCEPT !.count = @ + 1]}
             /\ up' = IF up.pc = "merge" /\ Duplicated(k) /\ \E s \in Group(k) : s.id = r.id
                      THEN [up EXCEPT !.late[k] = @ + 1] ELSE up
  <2>1. PICK r \in usage :
             /\ r.key = k /\ r.id \notin up.gone /\ \A s \in up.sums : s.id # r.id
             /\ usage' = (usage \ {r}) \cup {[r EXCEPT !.count = @ + 1]}
             /\ up' = IF up.pc = "merge" /\ Duplicated(k) /\ \E s \in Group(k) : s.id = r.id
                      THEN [up EXCEPT !.late[k] = @ + 1] ELSE up
    BY <1>2
  <2> DEFINE new == [r EXCEPT !.count = @ + 1]
             R == {r}
  <2>2. new \in Quotas /\ new.id = r.id /\ new.key = r.key /\ new.count = r.count + 1
        /\ r \in Quotas /\ r.count \in Nat
    BY <1>1 DEF Quotas
  <2>3. Total(R, k) = r.count
    <3>1. R \in SUBSET Quotas /\ IsFiniteSet(R) /\ R \ {r} = {}
      BY <2>2, FS_Singleton
    <3>2. {} \in SUBSET Quotas /\ IsFiniteSet({})
      BY FS_EmptySet
    <3>3. Total({}, k) = 0
      BY <3>2, TotalOfOthers
    <3>4. Total(R, k) = r.count + Total(R \ {r}, k)
      BY <2>1, <3>1, TotalFacts
    <3> QED
      BY <2>2, <3>1, <3>3, <3>4
  <2>4. usage' = (usage \ R) \cup {new} /\ \A x \in usage \ R : x.id # new.id
    BY <1>1, <2>1, <2>2
  <2>5. \/ up' = up /\ (Unmerged(k) => r \notin Held(k))
        \/ up' = [up EXCEPT !.late[k] = @ + 1] /\ Unmerged(k) /\ r \in Held(k)
    BY <2>1 DEF Unmerged, Held
  <2> HIDE DEF new
  <2>6. /\ R \in SUBSET usage /\ R # {}
        /\ \A x \in R : x.key = k /\ x.id = new.id /\ Keeps(x)
        /\ new.id \notin up.gone /\ \A s \in up.sums : s.id # new.id
    BY <2>1, <2>2 DEF Keeps
  <2>7. /\ new.key = k /\ new.count = Total(R, k) + 1
        /\ \/ up' = up /\ (Unmerged(k) => \A x \in R : x \notin Held(k))
           \/ up' = [up EXCEPT !.late[k] = @ + 1] /\ Unmerged(k) /\ R \in SUBSET Held(k)
    BY <2>1, <2>2, <2>3, <2>5
  <2> HIDE DEF R
  <2> QED
    BY <2>2, <2>4, <2>6, <2>7
<1>3. CASE /\ usage' = usage \cup {[id |-> NextId(usage), key |-> k, count |-> 1]}
           /\ up' = up
  <2> DEFINE new == [id |-> NextId(usage), key |-> k, count |-> 1]
             R == {}
  <2>1. NextId(usage) \in Nat /\ \A r \in usage : r.id \in Nat /\ r.id < NextId(usage)
    BY <1>1, FreshId DEF Quotas
  <2>2. new \in Quotas /\ new.key = k /\ new.count = 1 /\ \A r \in usage : r.id # new.id
    BY <2>1 DEF Quotas
  <2>3. Total({}, k) = 0
    <3>1. {} \in SUBSET Quotas /\ IsFiniteSet({})
      BY FS_EmptySet
    <3> QED
      BY <3>1, TotalOfOthers
  <2>4. usage' = (usage \ {}) \cup {new}
    BY <1>3
  <2> HIDE DEF new
  <2>5. usage # {}
    BY DEF OldReleaseTakes
  <2>6. new.id \notin up.gone /\ \A s \in up.sums : s.id # new.id
    BY <2>2, <2>5 DEF DataInv, PlanInv
  <2>7. \A u \in up.seen : up.pc = "merge" => u.id # new.id
    BY <2>2 DEF DataInv, PlanInv
  <2>8. new.count = Total({}, k) + 1
    BY <2>2, <2>3
  <2> QED
    BY <1>3, <2>2, <2>4, <2>6, <2>7, <2>8
<1> QED
  BY <1>2, <1>3 DEF OldReleaseTakes

LEMMA OldReleaseBooks ==
  ASSUME DataInv, BooksInv, DOMAIN taken = Keys, NEW k \in Keys, OldReleaseTakes(k)
  PROVE  BooksInv'
<1>1. PICK R \in SUBSET usage, new \in Quotas :
           /\ usage' = (usage \ R) \cup {new} /\ new.key = k
           /\ \A r \in R : r.key = k /\ r.id = new.id /\ Keeps(r)
           /\ \A r \in usage \ R : r.id # new.id
           /\ new.count = Total(R, k) + 1
           /\ new.id \notin up.gone /\ \A s \in up.sums : s.id # new.id
           /\ \/ /\ up' = up
                 /\ Unmerged(k) => \A r \in R : r \notin Held(k)
                 /\ R = {} => \A u \in up.seen : up.pc = "merge" => u.id # new.id
              \/ /\ up' = [up EXCEPT !.late[k] = @ + 1]
                 /\ Unmerged(k) /\ R # {} /\ R \in SUBSET Held(k)
  BY OldReleaseWhat
<1>2. up \in Upgrades /\ up.late \in [Keys -> Nat]
  BY DEF DataInv, UpOK, Upgrades
<1>3. /\ up'.pc = up.pc /\ up'.seen = up.seen /\ up'.gone = up.gone /\ up'.sums = up.sums
      /\ \A j \in Keys : j # k => up'.late[j] = up.late[j]
  BY <1>1, <1>2 DEF Upgrades
<1>4. /\ usage \in SUBSET Quotas /\ IsFiniteSet(usage)
      /\ Merged \in SUBSET Quotas /\ IsFiniteSet(Merged)
  BY UsageIsFine DEF UsageFine
<1>5. Merged' = (Merged \ R) \cup {new} /\ R \in SUBSET Merged
  BY <1>1, <1>3, MergedMoves
<1>6. new \notin usage \ R /\ new \notin Merged \ R
  <2>1. new \notin usage \ R
    BY <1>1
  <2>2. \A m \in Merged \ R : \E r \in usage \ R : m.id = r.id
    <3> SUFFICES ASSUME NEW m \in Merged \ R PROVE \E r \in usage \ R : m.id = r.id
      OBVIOUS
    <3>1. PICK r \in usage : m.id = r.id
      BY MergedIsFine
    <3>2. CASE r \in R
      <4>1. r \in Merged
        BY <1>5, <3>2
      <4>2. r = m
        BY <3>1, <4>1, MergedIsFine DEF Identified
      <4> QED
        BY <3>2, <4>2
    <3> QED
      BY <3>1, <3>2
  <2> QED
    BY <1>1, <2>1, <2>2
<1>c. /\ R \in SUBSET usage /\ new \in Quotas /\ new.key = k /\ new.count = Total(R, k) + 1
      /\ \A r \in R : r.key = k
  BY <1>1
<1>7. /\ Total(usage', k) = Total(usage, k) + 1
      /\ \A j : j # k => Total(usage', j) = Total(usage, j)
  <2>1. /\ Total((usage \ R) \cup {new}, k) = Total(usage, k) + 1
        /\ \A j : j # k => Total((usage \ R) \cup {new}, j) = Total(usage, j)
    <3> DEFINE S == usage
    <3>1. S \in SUBSET Quotas /\ IsFiniteSet(S) /\ R \in SUBSET S /\ new \notin S \ R
      BY <1>c, <1>4, <1>6
    <3> HIDE DEF S
    <3>2. /\ Total((S \ R) \cup {new}, k) = Total(S, k) + 1
          /\ \A j : j # k => Total((S \ R) \cup {new}, j) = Total(S, j)
      BY <1>c, <3>1, TotalMoves
    <3> QED
      BY <3>2 DEF S
  <2> QED
    BY <1>1, <2>1
<1>8. /\ Total(Merged', k) = Total(Merged, k) + 1
      /\ \A j : j # k => Total(Merged', j) = Total(Merged, j)
  <2>1. /\ Total((Merged \ R) \cup {new}, k) = Total(Merged, k) + 1
        /\ \A j : j # k => Total((Merged \ R) \cup {new}, j) = Total(Merged, j)
    BY <1>1, <1>4, <1>5, <1>6, TotalMoves
  <2> QED
    BY <1>5, <2>1
<1>9. \A j \in Keys : Group(j)' = Group(j) /\ (Unmerged(j)' <=> Unmerged(j))
  BY <1>3 DEF Group, Unmerged, Duplicated
<1>10. taken' = [taken EXCEPT ![k] = @ + 1] /\ lost' = lost
  BY DEF OldReleaseTakes
<1>a. \A u : u \in Held(k) <=> u \in usage /\ \E r \in Group(k) : r.id = u.id
  BY DEF Held
<1>b. \A u : u \in Held(k)' <=> u \in usage' /\ \E r \in Group(k) : r.id = u.id
  BY <1>9 DEF Held
<1>11. ASSUME Unmerged(k)
       PROVE  Total(Held(k)', k) = Total(Group(k), k) + up'.late[k]
  <2> DEFINE H == Held(k)
  <2>1. Total(H, k) = Total(Group(k), k) + up.late[k]
    BY <1>11 DEF BooksInv
  <2>2. Group(k) \in SUBSET Quotas /\ IsFiniteSet(Group(k)) /\ Total(Group(k), k) \in Nat
        /\ Group(k) \in SUBSET up.seen
    BY <1>11, GroupFacts DEF Unmerged, Group
  <2>3. H \in SUBSET usage
    BY <1>a
  <2>4. H \in SUBSET Quotas /\ IsFiniteSet(H)
    BY <1>4, <2>3, FS_Subset
  <2> HIDE DEF H
  <2>5. CASE up' = [up EXCEPT !.late[k] = @ + 1] /\ R # {} /\ R \in SUBSET H
    <3>1. Held(k)' = (H \ R) \cup {new}
      BY <1>1, <1>a, <1>b, <2>5 DEF H
    <3>2. new \notin H \ R
      BY <1>6, <2>3
    <3>3. Total((H \ R) \cup {new}, k) = Total(H, k) + 1
      BY <1>c, <2>4, <2>5, <3>2, TotalMoves
    <3>4. up'.late[k] = up.late[k] + 1 /\ up.late[k] \in Nat
      BY <1>2, <2>5 DEF Upgrades
    <3>5. Total(Held(k)', k) = Total(H, k) + 1
      BY <3>1, <3>3
    <3> QED
      BY <2>1, <2>2, <3>4, <3>5
  <2>6. CASE up' = up /\ (\A r \in R : r \notin H) /\ (R = {} => \A u \in up.seen : u.id # new.id)
    <3>1. \A r \in Group(k) : r.id # new.id
      <4>1. CASE R = {}
        BY <2>2, <2>6, <4>1
      <4>2. CASE R # {}
        <5>1. PICK r \in R : r.id = new.id /\ r \notin H /\ r \in usage
          BY <1>1, <2>6, <4>2
        <5> QED
          BY <1>a, <5>1 DEF H
      <4> QED
        BY <4>1, <4>2
    <3>a. \A u : u \in H <=> u \in usage /\ \E r \in Group(k) : r.id = u.id
      BY <1>a DEF H
    <3>b. usage' = (usage \ R) \cup {new}
      BY <1>1
    <3>c. \A u : u \in Held(k)' <=> u \in H
      BY <1>b, <2>6, <3>1, <3>a, <3>b
    <3>2. Held(k)' = H
      BY <3>c
    <3> QED
      BY <2>1, <2>6, <3>2
  <2> QED
    BY <1>1, <1>11, <2>5, <2>6 DEF H, Unmerged
<1>12. ASSUME NEW j \in Keys, j # k, Unmerged(j)
       PROVE  Total(Held(j)', j) = Total(Held(j), j)
  <2>1. {u \in Held(j)' : u.key = j} = {u \in Held(j) : u.key = j}
    BY <1>1, <1>9, <1>12 DEF Held
  <2> QED
    BY <2>1, TotalSame
<1> SUFFICES ASSUME NEW j \in Keys
             PROVE  /\ taken'[j] \in Int /\ lost'[j] \in Int
                    /\ Total(usage', j) = taken'[j] - lost'[j]
                    /\ Unmerged(j)' =>
                         /\ Total(Merged', j) = Total(usage', j)
                         /\ Total(Held(j)', j) = Total(Group(j)', j) + up'.late[j]
                    /\ ~Unmerged(j)' => Total(Merged', j) = Total(usage', j) - up'.late[j]
  BY DEF BooksInv
<1>13. /\ taken[j] \in Int /\ lost[j] \in Int /\ Total(usage, j) = taken[j] - lost[j]
       /\ Unmerged(j) => /\ Total(Merged, j) = Total(usage, j)
                         /\ Total(Held(j), j) = Total(Group(j), j) + up.late[j]
       /\ ~Unmerged(j) => Total(Merged, j) = Total(usage, j) - up.late[j]
  BY DEF BooksInv
<1>14. up.late[j] \in Nat
  BY <1>2
<1>15. CASE j # k
  <2>1. taken'[j] = taken[j] /\ lost'[j] = lost[j]
    BY <1>10, <1>15, <1>13
  <2> QED
    BY <1>3, <1>7, <1>8, <1>9, <1>12, <1>13, <1>15, <2>1
<1>16. CASE j = k
  <2>1. taken'[j] = taken[j] + 1 /\ lost'[j] = lost[j]
    BY <1>10, <1>16
  <2>2. ~Unmerged(k) => up' = up
    BY <1>1
  <2>3. Unmerged(k)' => Total(Held(k)', k) = Total(Group(k)', k) + up'.late[k]
    BY <1>9, <1>11
  <2>4. /\ taken'[k] \in Int /\ lost'[k] \in Int
        /\ Total(usage', k) = taken'[k] - lost'[k]
        /\ Unmerged(k) => Total(Merged', k) = Total(usage', k)
        /\ ~Unmerged(k) => Total(Merged', k) = Total(usage', k) - up.late[k]
    BY <1>7, <1>8, <1>13, <1>14, <1>16, <2>1
  <2> QED
    BY <1>9, <1>16, <2>2, <2>3, <2>4
<1> QED
  BY <1>15, <1>16

LEMMA TakenStep ==
  DOMAIN taken = Keys /\ [UpgradeNext]_upgradeVars => (DOMAIN taken = Keys)'
<1>1. Start \/ ReadUsage \/ MergeGroup \/ UniqueUsage \/ UNCHANGED upgradeVars => taken' = taken
  BY DEF Start, ReadUsage, MergeGroup, UniqueUsage, Elsewhere, upgradeVars
<1>2. ReadTransactions \/ DeleteExtras \/ UniqueTransactions => taken' = taken
  BY DEF ReadTransactions, DeleteExtras, UniqueTransactions, Elsewhere
<1>3. Commit \/ RollBack \/ Downgrade => taken' = taken
  BY DEF Commit, RollBack, Downgrade, Elsewhere
<1>4. ASSUME DOMAIN taken = Keys, NEW k \in Keys, OldReleaseTakes(k)
      PROVE  (DOMAIN taken = Keys)'
  BY <1>4 DEF OldReleaseTakes
<1>5. \A w \in Syncs : \A a, pid, mv :
        ReadKnown(w, a) \/ Refresh(w, pid, mv) \/ InsertNovel(w, pid, mv) \/ SyncEnds(w)
        => taken' = taken
  BY DEF ReadKnown, Refresh, InsertNovel, SyncEnds, Elsewhere
<1> QED
  BY <1>1, <1>2, <1>3, <1>4, <1>5 DEF UpgradeNext

LEMMA BooksStep ==
  DataInv /\ BooksInv /\ DOMAIN taken = Keys /\ [UpgradeNext]_upgradeVars => BooksInv'
<1> SUFFICES ASSUME DataInv, BooksInv, DOMAIN taken = Keys, [UpgradeNext]_upgradeVars
             PROVE  BooksInv'
  OBVIOUS
<1>1. CASE MergeGroup
  <2>1. PICK k \in Keys : Duplicated(k) /\ Merges(k)
    BY <1>1 DEF MergeGroup, Merges
  <2>2. up.pc = "merge" /\ UNCHANGED <<usage, taken, lost>>
    BY <1>1 DEF MergeGroup, Elsewhere, tables
  <2> QED
    BY <2>1, <2>2, MergeGroupBooks
<1>2. ASSUME UNCHANGED <<usage, up, taken, lost>> PROVE BooksInv'
  BY <1>2, PlanStays DEF Unmerged, Duplicated, Group
<1>3. Downgrade \/ UNCHANGED upgradeVars => UNCHANGED <<usage, up, taken, lost>>
  BY DEF Downgrade, upgradeVars, tables
<1>4. \A w \in Syncs : \A a, pid, mv :
        ReadKnown(w, a) \/ Refresh(w, pid, mv) \/ InsertNovel(w, pid, mv) \/ SyncEnds(w)
        => UNCHANGED <<usage, up, taken, lost>>
  BY DEF ReadKnown, Refresh, InsertNovel, SyncEnds, tables
<1> QED
  BY <1>1, <1>2, <1>3, <1>4, IdleBooks, UniqueUsageBooks, TransactionBooks, RollBackBooks,
     CommitBooks, OldReleaseBooks DEF UpgradeNext

(* However often the upgrade runs, fails, is run again and undone, and     *)
(* whatever the release before takes meanwhile: the quota rows of a key    *)
(* add up to the units taken of it, less those added to a duplicate        *)
(* between the SELECT and the merge.                                       *)
THEOREM UsageAlwaysAccounted == UpgradeSpec => []UsageIsAccounted
<1>1. UpgradeInit => DOMAIN taken = Keys
  BY DEF UpgradeInit
<1>2. BooksInv => UsageIsAccounted
  BY DEF BooksInv, UsageIsAccounted
<1> QED
  BY <1>1, <1>2, DataAlways, BooksStart, BooksStep, TakenStep, PTL DEF UpgradeSpec
=============================================================================
