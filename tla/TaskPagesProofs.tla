--------------------------- MODULE TaskPagesProofs ---------------------------
(***************************************************************************)
(* Proofs about TaskPages: the two stores give the same pages as long as no*)
(* two times fall in one microsecond, and a walk over either loses or      *)
(* repeats no more tasks than left or came, for any tasks, any page sizes  *)
(* and any filter.                                                         *)
(***************************************************************************)
EXTENDS TaskPages, FiniteSetTheorems, TLAPS

Statuses == {"ABSENT"} \cup Live \cup Finished

StoreTyped == status \in [Tasks -> Statuses] /\ created \in [Tasks -> Int]

Typed ==
    /\ StoreTyped
    /\ store \in Stores /\ filter \in Filters
    /\ size \in PageSizes
    /\ token \in Nat \cup {None}
    /\ begun \in BOOLEAN
    /\ got \subseteq Tasks /\ first \subseteq Tasks /\ came \subseteq Tasks /\ left \subseteq Tasks
    /\ repeats \in Nat

(* What was ever listed, or began to match, matches still or has left; and *)
(* what has left is finished, so that it never comes back.                 *)
Members ==
    /\ got \cup first \cup came \subseteq Matched(store) \cup left
    /\ left \cap Matched(store) = {}
    /\ \A t \in left : status[t] \in Finished
    /\ ~begun => got = {} /\ first = {} /\ came = {} /\ left = {} /\ token = 0

(* What the walk has passed without listing it. *)
Missing == {t \in first \ (left \cup got) : Passed(t)}

(* What it has listed and is going to list again, if nothing leaves.       *)
Again == {t \in got \cap Matched(store) : token # None /\ token <= Rank(store, t)}

MissingCovered == Cardinality(Missing) <= Cardinality(left)
AgainCovered   == Cardinality(Again) + repeats <= Cardinality(came)

Inv == Typed /\ Members /\ MissingCovered /\ AgainCovered

-----------------------------------------------------------------------------
(***************************************************************************)
(* The list: ranks count it without gaps                                   *)
(***************************************************************************)

Ahead(s, t) == {u \in Matched(s) : Before(s, u, t)}

All(s) == Cardinality(Matched(s))

LEMMA TotalOrder ==
  ASSUME StoreTyped, NEW s
  PROVE  /\ \A t \in Tasks : ~Before(s, t, t)
         /\ \A t, u \in Tasks : t # u => Before(s, t, u) \/ Before(s, u, t)
         /\ \A t, u, v \in Tasks : Before(s, t, u) /\ Before(s, u, v) => Before(s, t, v)
<1>1. Tasks \subseteq Nat
  BY PageSizeAssumption
<1>2. \A t \in Tasks : Instant(s, t) \in Int
  BY FilterAssumption DEF StoreTyped, Instant
<1>. QED
  BY <1>1, <1>2 DEF Before

LEMMA ListFinite ==
  ASSUME NEW s
  PROVE  /\ IsFiniteSet(Matched(s)) /\ All(s) \in Nat
         /\ \A t : IsFiniteSet(Ahead(s, t)) /\ Rank(s, t) \in Nat /\ Rank(s, t) <= All(s)
<1>1. IsFiniteSet(Matched(s)) /\ All(s) \in Nat
  BY FS_Subset, FS_CardinalityType, PageSizeAssumption DEF Matched, All
<1>2. ASSUME NEW t PROVE IsFiniteSet(Ahead(s, t)) /\ Rank(s, t) \in Nat /\ Rank(s, t) <= All(s)
  <2>1. Ahead(s, t) \in SUBSET Matched(s) /\ Rank(s, t) = Cardinality(Ahead(s, t))
    BY DEF Ahead, Rank, RankIn
  <2>. QED
    BY <1>1, <2>1, FS_Subset, FS_CardinalityType DEF All
<1>. QED
  BY <1>1, <1>2

(* Ranks follow the order, and stay below the number of tasks.             *)
LEMMA RankOrders ==
  ASSUME StoreTyped, NEW s
  PROVE  /\ \A t \in Matched(s) : Rank(s, t) \in 0 .. All(s) - 1
         /\ \A t, u \in Matched(s) : Before(s, t, u) => Rank(s, t) < Rank(s, u)
<1>1. Matched(s) \subseteq Tasks
  BY DEF Matched
<1>2. ASSUME NEW t \in Matched(s) PROVE Rank(s, t) \in 0 .. All(s) - 1
  <2>1. Ahead(s, t) \in SUBSET Matched(s) /\ t \notin Ahead(s, t)
    BY <1>1, TotalOrder DEF Ahead
  <2>2. Cardinality(Ahead(s, t)) # Cardinality(Matched(s))
    BY <2>1, ListFinite, FS_Subset
  <2>. QED
    BY <2>2, ListFinite DEF Rank, RankIn, Ahead, All
<1>3. ASSUME NEW t \in Matched(s), NEW u \in Matched(s), Before(s, t, u) PROVE Rank(s, t) < Rank(s, u)
  <2>1. Ahead(s, t) \in SUBSET Ahead(s, u)
    BY <1>1, <1>3, TotalOrder DEF Ahead
  <2>2. t \in Ahead(s, u) \ Ahead(s, t)
    BY <1>1, <1>3, TotalOrder DEF Ahead
  <2>3. Cardinality(Ahead(s, t)) <= Cardinality(Ahead(s, u)) /\ Cardinality(Ahead(s, t)) # Cardinality(Ahead(s, u))
    BY <2>1, <2>2, ListFinite, FS_Subset
  <2>. QED
    BY <2>3, ListFinite DEF Rank, RankIn, Ahead
<1>. QED
  BY <1>2, <1>3

LEMMA OneTaskPerRank ==
  ASSUME StoreTyped, NEW s, NEW t \in Matched(s), NEW u \in Matched(s), Rank(s, t) = Rank(s, u)
  PROVE  t = u
<1>1. t \in Tasks /\ u \in Tasks
  BY DEF Matched
<1>. QED
  BY <1>1, TotalOrder, RankOrders, ListFinite

(* No rank is left out: there are as many as tasks.                        *)
LEMMA EveryRank ==
  ASSUME StoreTyped, NEW s, NEW n \in 0 .. All(s) - 1
  PROVE  \E t \in Matched(s) : Rank(s, t) = n
<1>. DEFINE rank == [t \in Matched(s) |-> Rank(s, t)]
<1>1. rank \in Injection(Matched(s), 0 .. All(s) - 1)
  BY RankOrders, OneTaskPerRank DEF Injection, IsInjective
<1>2. IsFiniteSet(0 .. All(s) - 1) /\ Cardinality(0 .. All(s) - 1) = All(s)
  BY ListFinite, FS_Interval
<1>3. rank \in Surjection(Matched(s), 0 .. All(s) - 1)
  BY <1>1, <1>2, FS_Injection DEF All
<1>. QED
  BY <1>3 DEF Surjection

(* A page has as many rows as there are ranks for it. *)
LEMMA RowsCount ==
  ASSUME StoreTyped, NEW s, NEW from \in Nat, NEW to \in Nat
  PROVE  /\ from < to /\ to <= All(s) => Cardinality(Rows(s, from, to)) = to - from
         /\ from < All(s) /\ All(s) <= to => Cardinality(Rows(s, from, to)) = All(s) - from
         /\ All(s) <= from \/ to <= from => Rows(s, from, to) = {}
<1>1. ASSUME NEW end \in Nat, from < end, end <= All(s), end <= to, end = All(s) \/ end = to
      PROVE  Cardinality(Rows(s, from, to)) = end - from
  <2>. DEFINE rank == [t \in Rows(s, from, to) |-> Rank(s, t)]
  <2>1. \A t \in Rows(s, from, to) : t \in Matched(s) /\ Rank(s, t) \in from .. end - 1
    BY <1>1, RankOrders, ListFinite DEF Rows, Rank
  <2>2. rank \in Injection(Rows(s, from, to), from .. end - 1)
    BY <2>1, OneTaskPerRank DEF Injection, IsInjective
  <2>3. \A n \in from .. end - 1 : \E t \in Rows(s, from, to) : Rank(s, t) = n
    <3>1. TAKE n \in from .. end - 1
    <3>2. PICK t \in Matched(s) : Rank(s, t) = n
      BY <1>1, ListFinite, EveryRank
    <3>. QED
      BY <1>1, <3>2 DEF Rows, Rank
  <2>4. rank \in Surjection(Rows(s, from, to), from .. end - 1)
    BY <2>1, <2>3 DEF Surjection
  <2>5. IsFiniteSet(from .. end - 1) /\ Cardinality(from .. end - 1) = end - from
    BY <1>1, FS_Interval
  <2>. QED
    BY <2>2, <2>4, <2>5, FS_Injection
<1>2. All(s) <= from \/ to <= from => Rows(s, from, to) = {}
  BY RankOrders, ListFinite DEF Rows, Rank
<1>. QED
  BY <1>1, <1>2, ListFinite

LEMMA SizesPositive == \A m \in PageSizes : normalizePageSize(m) \in Nat \ {0}
  BY PageSizeAssumption DEF normalizePageSize

(* Whether there is a row after the page is whether the list is longer.    *)
LEMMA MoreRows ==
  ASSUME StoreTyped, NEW s, NEW offset \in Nat, NEW n \in Nat \ {0}
  PROVE  Cardinality(Rows(s, offset, offset + n + 1)) > n <=> offset + n < All(s)
<1>1. CASE offset + n < All(s)
  <2>1. Cardinality(Rows(s, offset, offset + n + 1)) = n + 1
    BY <1>1, ListFinite, RowsCount
  <2>. QED
    BY <1>1, <2>1
<1>2. CASE All(s) <= offset + n /\ offset < All(s)
  <2>1. Cardinality(Rows(s, offset, offset + n + 1)) = All(s) - offset
    BY <1>2, ListFinite, RowsCount
  <2>. QED
    BY <1>2, <2>1, ListFinite
<1>3. CASE All(s) <= offset
  <2>1. Rows(s, offset, offset + n + 1) = {}
    BY <1>3, RowsCount
  <2>. QED
    BY <1>3, <2>1, ListFinite, FS_EmptySet
<1>. QED
  BY <1>1, <1>2, <1>3, ListFinite

(* Either store gives the rows of the ranks from offset on, and a token if *)
(* the list is longer.                                                     *)
LEMMA PageOfRanks ==
  ASSUME StoreTyped, NEW offset \in Nat, NEW n \in Nat \ {0}
  PROVE  /\ MemoryPage(offset, n) =
              [tasks |-> Rows("memory", offset, offset + n),
               next  |-> IF offset + n < All("memory") THEN offset + n ELSE None]
         /\ RepositoryPage(offset, n) =
              [tasks |-> Rows("postgres", offset, offset + n),
               next  |-> IF offset + n < All("postgres") THEN offset + n ELSE None]
<1>. DEFINE all == All("memory")
<1>1. ASSUME NEW end \in Nat, all <= end
      PROVE  Rows("memory", offset, all) = Rows("memory", offset, end)
  BY <1>1, RankOrders, ListFinite DEF Rows, Rank
<1>2. RepositoryPage(offset, n) =
        [tasks |-> Rows("postgres", offset, offset + n),
         next  |-> IF offset + n < All("postgres") THEN offset + n ELSE None]
  BY MoreRows DEF RepositoryPage
<1>3. MemoryPage(offset, n) =
        IF offset >= all
        THEN [tasks |-> {}, next |-> None]
        ELSE LET end == IF offset + n > all THEN all ELSE offset + n
             IN  [tasks |-> Rows("memory", offset, end),
                  next  |-> IF end < all THEN end ELSE None]
  BY DEF MemoryPage, All
<1>4. all \in Nat
  BY ListFinite
<1>. HIDE DEF all
<1>5. MemoryPage(offset, n) =
        [tasks |-> Rows("memory", offset, offset + n),
         next  |-> IF offset + n < all THEN offset + n ELSE None]
  <2>1. CASE all <= offset
    <3>1. Rows("memory", offset, offset + n) = {} /\ ~ offset + n < all
      BY <1>4, <2>1, RowsCount DEF all
    <3>. QED
      BY <1>3, <1>4, <2>1, <3>1
  <2>2. CASE offset < all /\ offset + n < all
    BY <1>3, <1>4, <2>2
  <2>3. CASE offset < all /\ all <= offset + n
    <3>1. Rows("memory", offset, all) = Rows("memory", offset, offset + n)
      BY <1>1, <1>4, <2>3
    <3>. QED
      BY <1>3, <1>4, <2>3, <3>1
  <2>. QED
    BY <1>4, <2>1, <2>2, <2>3
<1>. QED
  BY <1>2, <1>5 DEF all

(* While no two times fall together in the repository, its order and its   *)
(* bounds are those of MemoryStore.                                        *)
LEMMA SameOrder ==
  ASSUME Typed, Apart
  PROVE  /\ Matched("memory") = Matched("postgres")
         /\ \A t, u \in Matched("memory") : Before("memory", t, u) <=> Before("postgres", t, u)
<1>1. Micro \in Nat \ {0} /\ created \in [Tasks -> Int]
  BY FilterAssumption DEF Typed, StoreTyped
<1>2. Times \subseteq Int /\ filter \in Filters
  BY FilterAssumption DEF Times, Typed, StoreTyped
<1>3. \A a, b \in Int : a <= b => a \div Micro <= b \div Micro
  BY <1>1
<1>4. \A a, b \in Times : a < b <=> a \div Micro < b \div Micro
  <2>1. \A a \in Int : a \div Micro \in Int
    BY <1>1
  <2>2. SUFFICES ASSUME NEW a \in Times, NEW b \in Times
                 PROVE  a < b <=> a \div Micro < b \div Micro
    OBVIOUS
  <2>3. a # b => a \div Micro # b \div Micro
    BY DEF Apart
  <2>. QED
    BY <1>2, <1>3, <2>1, <2>3
<1>5. \A t \in Tasks : attributesMatch(t) => created[t] \in Times
  BY DEF Times, attributesMatch
<1>6. /\ filter.created_after  # None => filter.created_after  \in Times
      /\ filter.created_before # None => filter.created_before \in Times
  BY DEF Times
<1>7. ASSUME NEW t \in Tasks PROVE taskMatches(t) <=> where(t)
  <2>1. \A a, b \in Times : ~(a < b) <=> a \div Micro >= b \div Micro
    BY <1>1, <1>2, <1>4
  <2>2. \A a, b \in Times : ~(a > b) <=> a \div Micro <= b \div Micro
    BY <1>1, <1>2, <1>4
  <2>. QED
    BY <1>5, <1>6, <2>1, <2>2 DEF taskMatches, where
<1>8. Matched("memory") = Matched("postgres")
  BY <1>7 DEF Matched
<1>9. ASSUME NEW t \in Matched("memory"), NEW u \in Matched("memory")
      PROVE  Before("memory", t, u) <=> Before("postgres", t, u)
  <2>1. created[t] \in Times /\ created[u] \in Times
    BY <1>5 DEF Matched, taskMatches
  <2>2. created[t] = created[u] <=> created[t] \div Micro = created[u] \div Micro
    BY <2>1 DEF Apart
  <2>. QED
    BY <1>4, <2>1, <2>2 DEF Before, Instant
<1>. QED
  BY <1>8, <1>9

LEMMA PagesAgree ==
  ASSUME Typed, Apart, NEW offset \in Nat, NEW n \in Nat \ {0}
  PROVE  MemoryPage(offset, n) = RepositoryPage(offset, n)
<1>1. All("memory") = All("postgres")
  BY SameOrder DEF All
<1>2. \A t \in Matched("memory") : Rank("memory", t) = Rank("postgres", t)
  <2>1. \A t \in Matched("memory") : Ahead("memory", t) = Ahead("postgres", t)
    BY SameOrder DEF Ahead
  <2>. QED
    BY <2>1 DEF Ahead, Rank, RankIn
<1>3. Rows("memory", offset, offset + n) = Rows("postgres", offset, offset + n)
  BY <1>2, SameOrder DEF Rows, Rank
<1>. QED
  BY <1>1, <1>3, PageOfRanks DEF Typed

-----------------------------------------------------------------------------
(***************************************************************************)
(* The list changes: one task comes or leaves, the others keep their order *)
(***************************************************************************)

Joins(u) ==
    /\ u \in Tasks \ Matched(store) /\ Matched(store)' = Matched(store) \cup {u}
    /\ \A t, v \in Tasks \ {u} : Before(store, v, t)' <=> Before(store, v, t)

Leaves(u) ==
    /\ u \in Matched(store) /\ Matched(store)' = Matched(store) \ {u}
    /\ \A t, v \in Tasks : Before(store, v, t)' <=> Before(store, v, t)

Stays ==
    /\ Matched(store)' = Matched(store)
    /\ \A t, v \in Matched(store) : Before(store, v, t)' <=> Before(store, v, t)

LEMMA RankJoins ==
  ASSUME NEW u, Joins(u), NEW t \in Matched(store)
  PROVE  Rank(store, t)' \in {Rank(store, t), Rank(store, t) + 1}
<1>1. t # u /\ u \notin Ahead(store, t) /\ Matched(store) \subseteq Tasks
  BY DEF Joins, Ahead, Matched
<1>2. Ahead(store, t)' = Ahead(store, t) \/ Ahead(store, t)' = Ahead(store, t) \cup {u}
  BY <1>1 DEF Joins, Ahead
<1>3. Rank(store, t)' = Cardinality(Ahead(store, t)') /\ Rank(store, t) = Cardinality(Ahead(store, t))
  BY DEF Rank, RankIn, Ahead
<1>4. Cardinality(Ahead(store, t) \cup {u}) = Cardinality(Ahead(store, t)) + 1
  BY <1>1, ListFinite, FS_AddElement
<1>. QED
  BY <1>2, <1>3, <1>4

LEMMA RankLeaves ==
  ASSUME NEW u, Leaves(u), NEW t \in Matched(store)
  PROVE  Rank(store, t)' \in {Rank(store, t), Rank(store, t) - 1}
<1>1. Matched(store) \subseteq Tasks
  BY DEF Matched
<1>2. Ahead(store, t)' = Ahead(store, t) \ {u}
  BY <1>1 DEF Leaves, Ahead
<1>3. Rank(store, t)' = Cardinality(Ahead(store, t)') /\ Rank(store, t) = Cardinality(Ahead(store, t))
  BY DEF Rank, RankIn, Ahead
<1>4. IsFiniteSet(Ahead(store, t))
  BY ListFinite
<1>5. Rank(store, t) \in Nat
  BY ListFinite
<1>. QED
  BY <1>2, <1>3, <1>4, <1>5, FS_RemoveElement

LEMMA RankStays ==
  ASSUME Stays, NEW t \in Matched(store)
  PROVE  Rank(store, t)' = Rank(store, t)
<1>1. Ahead(store, t)' = Ahead(store, t)
  BY DEF Stays, Ahead
<1>. QED
  BY <1>1 DEF Rank, RankIn, Ahead

(* Every write to the store is one of the three, and is followed.          *)
Moves(t) ==
    \/ Joins(t)  /\ came' = (IF begun THEN came \cup {t} ELSE came) /\ left' = left
    \/ Leaves(t) /\ left' = (IF begun THEN left \cup {t} ELSE left) /\ came' = came
    \/ Stays /\ came' = came /\ left' = left

LEMMA OneMoves ==
  ASSUME Typed, NEW t \in Tasks, UNCHANGED walk, Follow,
         \A v \in Tasks \ {t} : status'[v] = status[v] /\ created'[v] = created[v],
         created'[t] = created[t] \/ t \notin Matched(store)
  PROVE  Moves(t)
<1>1. store' = store /\ filter' = filter /\ begun' = begun
  BY DEF walk
<1>2. \A v, w \in Tasks \ {t} : Before(store, v, w)' <=> Before(store, v, w)
  BY <1>1 DEF Before, Instant
<1>3. \A v \in Tasks \ {t} : v \in Matched(store)' <=> v \in Matched(store)
  <2>1. \A v \in Tasks \ {t} : attributesMatch(v)' <=> attributesMatch(v)
    BY <1>1 DEF attributesMatch, keysMatch, labelMatches
  <2>2. \A v \in Tasks \ {t} : /\ taskMatches(v)' <=> taskMatches(v)
                               /\ where(v)' <=> where(v)
    BY <1>1, <2>1 DEF taskMatches, where
  <2>3. CASE store = "memory"
    <3>1. \A v \in Tasks : /\ v \in Matched(store)  <=> taskMatches(v)
                           /\ v \in Matched(store)' <=> taskMatches(v)'
      BY <1>1, <2>3 DEF Matched
    <3>. QED
      BY <2>2, <3>1
  <2>4. CASE store # "memory"
    <3>1. \A v \in Tasks : /\ v \in Matched(store)  <=> where(v)
                           /\ v \in Matched(store)' <=> where(v)'
      BY <1>1, <2>4 DEF Matched
    <3>. QED
      BY <2>2, <3>1
  <2>. QED
    BY <2>3, <2>4
<1>4. Matched(store) \subseteq Tasks /\ Matched(store)' \subseteq Tasks
  BY DEF Matched
<1>5. CASE t \notin Matched(store) /\ t \in Matched(store)'
  <2>1. Matched(store)' = Matched(store) \cup {t}
    BY <1>3, <1>4, <1>5
  <2>. QED
    BY <1>2, <1>5, <2>1 DEF Moves, Joins, Follow
<1>6. CASE t \in Matched(store) /\ t \notin Matched(store)'
  <2>1. Matched(store)' = Matched(store) \ {t}
    BY <1>3, <1>4, <1>6
  <2>2. \A v, w \in Tasks : Before(store, v, w)' <=> Before(store, v, w)
    BY <1>1, <1>6 DEF Before, Instant
  <2>. QED
    BY <1>4, <1>6, <2>1, <2>2 DEF Moves, Leaves, Follow
<1>7. CASE t \in Matched(store) <=> t \in Matched(store)'
  <2>1. Matched(store)' = Matched(store)
    BY <1>3, <1>4, <1>7
  <2>2. \A v, w \in Matched(store) : Before(store, v, w)' <=> Before(store, v, w)
    BY <1>1, <1>2, <1>4 DEF Before, Instant
  <2>3. came' = came /\ left' = left
    BY <2>1 DEF Follow
  <2>. QED
    BY <2>1, <2>2, <2>3 DEF Moves, Stays
<1>. QED
  BY <1>5, <1>6, <1>7

LEMMA CreateMoves ==
  ASSUME Inv, NEW t \in Tasks, NEW time \in 1..MaxTime, NEW st \in Live, CreateTask(t, time, st)
  PROVE  Typed' /\ t \notin left /\ ~Leaves(t) /\ Moves(t)
<1>1. Matched(store)' \subseteq Tasks /\ Matched(store) \subseteq Tasks
  BY DEF Matched
<1>2. Typed'
  BY <1>1 DEF Inv, Typed, StoreTyped, Statuses, CreateTask, Follow, walk
<1>3. t \notin Matched(store) /\ t \notin left
  BY FinishedAssumption
  DEF Inv, Members, Matched, taskMatches, where, attributesMatch, CreateTask
<1>4. \A v \in Tasks \ {t} : status'[v] = status[v] /\ created'[v] = created[v]
  BY DEF Inv, Typed, StoreTyped, CreateTask
<1>5. Moves(t)
  BY <1>3, <1>4, OneMoves DEF Inv, CreateTask
<1>. QED
  BY <1>2, <1>3, <1>5 DEF Leaves

LEMMA FinishMoves ==
  ASSUME Inv, NEW t \in Tasks, NEW st \in Finished, FinishTask(t, st)
  PROVE  Typed' /\ t \notin left /\ status'[t] \in Finished /\ Moves(t)
<1>1. Matched(store)' \subseteq Tasks /\ Matched(store) \subseteq Tasks
  BY DEF Matched
<1>2. Typed'
  BY <1>1 DEF Inv, Typed, StoreTyped, Statuses, FinishTask, Follow, walk
<1>3. t \notin left
  BY FinishedAssumption DEF Inv, Members, FinishTask, Live
<1>4. \A v \in Tasks \ {t} : status'[v] = status[v] /\ created'[v] = created[v]
  BY DEF Inv, Typed, StoreTyped, FinishTask
<1>5. Moves(t)
  BY <1>4, OneMoves DEF Inv, FinishTask
<1>6. status'[t] \in Finished
  BY DEF Inv, Typed, StoreTyped, FinishTask
<1>. QED
  BY <1>2, <1>3, <1>5, <1>6

-----------------------------------------------------------------------------
(***************************************************************************)
(* The walk                                                                *)
(***************************************************************************)

LEMMA AtMostOneMore ==
  ASSUME NEW S, IsFiniteSet(S), NEW T, \A x, y \in T \ S : x = y
  PROVE  Cardinality(T) <= Cardinality(S) + 1
<1>1. CASE T \subseteq S
  BY <1>1, FS_Subset, FS_CardinalityType
<1>2. CASE ~ T \subseteq S
  <2>1. PICK x \in T \ S : TRUE
    BY <1>2
  <2>2. T \subseteq S \cup {x}
    BY <2>1
  <2>3. IsFiniteSet(S \cup {x}) /\ Cardinality(S \cup {x}) = Cardinality(S) + 1
    BY <2>1, FS_AddElement
  <2>. QED
    BY <2>2, <2>3, FS_Subset
<1>. QED
  BY <1>1, <1>2

LEMMA WalkFinite ==
  ASSUME Typed
  PROVE  /\ \A S \in SUBSET Tasks : IsFiniteSet(S) /\ Cardinality(S) \in Nat
         /\ Missing \subseteq Tasks /\ Again \subseteq Tasks
<1>1. \A S \in SUBSET Tasks : IsFiniteSet(S) /\ Cardinality(S) \in Nat
  BY PageSizeAssumption, FS_Subset, FS_CardinalityType
<1>. QED
  BY <1>1 DEF Typed, Missing, Again

(* Newcomers push others back: nothing is passed that was not, and one     *)
(* task at most comes to lie ahead again.                                  *)
LEMMA JoinKeeps ==
  ASSUME Inv, Typed', NEW u, Joins(u), u \notin left, UNCHANGED <<walk, left>>,
         came' = (IF begun THEN came \cup {u} ELSE came),
         \A t \in left : status'[t] \in Finished
  PROVE  Inv'
<1>. USE DEF Inv, walk
<1>1. Members'
  BY DEF Members, Joins
<1>2. \A t \in Matched(store) : Rank(store, t) \in Nat /\ Rank(store, t)' \in {Rank(store, t), Rank(store, t) + 1}
  BY RankJoins, ListFinite
<1>3. MissingCovered'
  <2>1. \A t \in first \ (left \cup got) : t \in Matched(store)
    BY DEF Members
  <2>2. Missing' \subseteq Missing
    BY <1>2, <2>1 DEF Missing, Passed, Typed
  <2>3. Cardinality(Missing') <= Cardinality(Missing) /\ Cardinality(Missing') \in Nat
    BY <2>2, WalkFinite, FS_Subset
  <2>. QED
    BY <2>3, WalkFinite DEF MissingCovered, Typed
<1>4. u \notin got /\ u \notin came
  BY DEF Members, Joins
<1>5. CASE begun
  <2>1. \A t \in Again' \ Again : t \in Matched(store) /\ token \in Nat /\ Rank(store, t) = token - 1
    BY <1>2, <1>4 DEF Again, Joins, Typed
  <2>2. \A t, v \in Again' \ Again : t = v
    BY <2>1, OneTaskPerRank DEF Typed
  <2>3. Cardinality(Again') <= Cardinality(Again) + 1
    BY <2>2, WalkFinite, AtMostOneMore
  <2>4. Cardinality(came') = Cardinality(came) + 1
    BY <1>4, <1>5, WalkFinite, FS_AddElement DEF Typed
  <2>5. Cardinality(Again') \in Nat /\ Cardinality(Again) \in Nat /\ Cardinality(came) \in Nat
    <3>1. Again' \in SUBSET Tasks /\ Again \in SUBSET Tasks /\ came \in SUBSET Tasks
      BY DEF Typed, Again
    <3>. QED
      BY <3>1, WalkFinite
  <2>6. AgainCovered'
    BY <2>3, <2>4, <2>5 DEF AgainCovered, Typed
  <2>. QED
    BY <1>1, <1>3, <2>6
<1>6. CASE ~begun
  <2>1. Again = {} /\ Again' = {} /\ came' = came
    BY <1>6 DEF Again, Members
  <2>2. AgainCovered'
    BY <2>1 DEF AgainCovered
  <2>. QED
    BY <1>1, <1>3, <2>2
<1>. QED
  BY <1>5, <1>6 DEF Typed

(* Those that leave let others move up: one more at most is passed.        *)
LEMMA LeaveKeeps ==
  ASSUME Inv, Typed', NEW u, Leaves(u), u \notin left, UNCHANGED <<walk, came>>,
         left' = (IF begun THEN left \cup {u} ELSE left),
         \A t \in left \cup {u} : status'[t] \in Finished
  PROVE  Inv'
<1>. USE DEF Inv, walk
<1>1. Members'
  BY DEF Members, Leaves, Typed
<1>2. \A t \in Matched(store) : Rank(store, t) \in Nat /\ Rank(store, t)' \in {Rank(store, t), Rank(store, t) - 1}
  BY RankLeaves, ListFinite
<1>3. AgainCovered'
  <2>1. Again' \subseteq Again
    BY <1>2 DEF Again, Leaves, Typed
  <2>2. Cardinality(Again') <= Cardinality(Again) /\ Cardinality(Again') \in Nat
    BY <2>1, WalkFinite, FS_Subset
  <2>. QED
    BY <2>2, WalkFinite DEF AgainCovered, Typed
<1>4. CASE begun
  <2>1. \A t \in first \ (left \cup got) : t \in Matched(store)
    BY DEF Members
  <2>2. \A t \in Missing' \ Missing : t \in Matched(store) /\ token \in Nat /\ Rank(store, t) = token
    BY <1>2, <1>4, <2>1 DEF Missing, Passed, Typed
  <2>3. \A t, v \in Missing' \ Missing : t = v
    BY <2>2, OneTaskPerRank DEF Typed
  <2>4. Cardinality(Missing') <= Cardinality(Missing) + 1
    BY <2>3, WalkFinite, AtMostOneMore
  <2>5. Cardinality(left') = Cardinality(left) + 1
    BY <1>4, WalkFinite, FS_AddElement DEF Typed
  <2>6. Cardinality(Missing') \in Nat /\ Cardinality(Missing) \in Nat /\ Cardinality(left) \in Nat
    <3>1. Missing' \in SUBSET Tasks /\ Missing \in SUBSET Tasks /\ left \in SUBSET Tasks
      BY DEF Typed, Missing
    <3>. QED
      BY <3>1, WalkFinite
  <2>7. MissingCovered'
    BY <2>4, <2>5, <2>6 DEF MissingCovered
  <2>. QED
    BY <1>1, <1>3, <2>7
<1>5. CASE ~begun
  <2>1. Missing = {} /\ Missing' = {} /\ left' = left
    BY <1>5 DEF Missing, Members
  <2>2. MissingCovered'
    BY <2>1 DEF MissingCovered
  <2>. QED
    BY <1>1, <1>3, <2>2
<1>. QED
  BY <1>4, <1>5 DEF Typed

LEMMA StayKeeps ==
  ASSUME Inv, Typed', Stays, UNCHANGED <<walk, came, left>>,
         \A t \in left : status'[t] \in Finished
  PROVE  Inv'
<1>. USE DEF Inv, walk
<1>1. Members'
  BY DEF Members, Stays
<1>2. \A t \in Matched(store) : Rank(store, t)' = Rank(store, t)
  BY RankStays
<1>3. Missing' = Missing /\ Again' = Again
  <2>1. first \ (left \cup got) \subseteq Matched(store)
    BY DEF Members
  <2>. QED
    BY <1>2, <2>1 DEF Missing, Passed, Again, Stays
<1>. QED
  BY <1>1, <1>3 DEF MissingCovered, AgainCovered

(* A page takes what lies between the old and the new token.               *)
LEMMA PageTaken ==
  ASSUME Inv, ListBrowserTasks
  PROVE  \E n \in Nat \ {0} :
            /\ token \in Nat
            /\ token' \in {token + n, None} /\ (token' = None => All(store) <= token + n)
            /\ got' = got \cup Rows(store, token, token + n)
            /\ repeats' = repeats + Cardinality(got \cap Rows(store, token, token + n))
            /\ UNCHANGED Matched(store) /\ \A t : Rank(store, t)' = Rank(store, t)
<1>. DEFINE n == normalizePageSize(size)
<1>1. n \in Nat \ {0} /\ token \in Nat
  BY SizesPositive DEF ListBrowserTasks, Inv, Typed
<1>2. Page(token, n) =
        [tasks |-> Rows(store, token, token + n),
         next  |-> IF token + n < All(store) THEN token + n ELSE None]
  BY <1>1, PageOfRanks DEF Page, Inv, Typed, Stores
<1>3. /\ token' = Page(token, n).next
      /\ got' = got \cup Page(token, n).tasks
      /\ repeats' = repeats + Cardinality(got \cap Page(token, n).tasks)
  BY DEF ListBrowserTasks
<1>. HIDE DEF n
<1>4. token' \in {token + n, None} /\ (token' = None => All(store) <= token + n)
  <2>1. token + n # None
    BY <1>1, PageSizeAssumption
  <2>. QED
    BY <1>1, <1>2, <1>3, <2>1, ListFinite
<1>5. /\ got' = got \cup Rows(store, token, token + n)
      /\ repeats' = repeats + Cardinality(got \cap Rows(store, token, token + n))
  BY <1>2, <1>3
<1>6. UNCHANGED Matched(store) /\ \A t : Rank(store, t)' = Rank(store, t)
  <2>1. UNCHANGED <<status, created, store, filter>>
    BY DEF ListBrowserTasks, rows
  <2>2. UNCHANGED Matched(store)
    BY <2>1 DEF Matched, taskMatches, where, attributesMatch, keysMatch, labelMatches
  <2>3. \A t, u : Before(store, u, t)' <=> Before(store, u, t)
    BY <2>1 DEF Before, Instant
  <2>. QED
    BY <2>1, <2>2, <2>3 DEF Rank, RankIn
<1>. HIDE DEF n
<1>. USE <1>1
<1>. WITNESS n \in Nat \ {0}
<1>. QED
  BY <1>1, <1>4, <1>5, <1>6

LEMMA ListKeeps ==
  ASSUME Inv, ListBrowserTasks
  PROVE  Inv'
<1>1. PICK n \in Nat \ {0} :
            /\ token \in Nat
            /\ token' \in {token + n, None} /\ (token' = None => All(store) <= token + n)
            /\ got' = got \cup Rows(store, token, token + n)
            /\ repeats' = repeats + Cardinality(got \cap Rows(store, token, token + n))
            /\ UNCHANGED Matched(store) /\ \A t : Rank(store, t)' = Rank(store, t)
  BY PageTaken
<1>. DEFINE page == Rows(store, token, token + n)
<1>2. page \subseteq Matched(store) /\ page \subseteq Tasks /\ Matched(store) \subseteq Tasks
  BY DEF Rows, Rank, Matched
<1>3. \A t \in Matched(store) : t \in page <=> token <= Rank(store, t) /\ Rank(store, t) < token + n
  BY DEF Rows, Rank
<1>4. /\ begun' = TRUE /\ first' = (IF begun THEN first ELSE Matched(store))
      /\ UNCHANGED <<status, created, store, filter, size, came, left>>
  BY DEF ListBrowserTasks, rows
<1>5. Cardinality(got \cap page) \in Nat
  BY WalkFinite DEF Inv, Typed
<1>6. \A t \in Matched(store) : Rank(store, t) \in 0 .. All(store) - 1
  BY RankOrders DEF Inv, Typed
<1>. HIDE DEF page
<1>7. Typed'
  BY <1>1, <1>2, <1>4, <1>5 DEF Inv, Typed, StoreTyped, page
<1>8. Members'
  BY <1>1, <1>2, <1>4 DEF Inv, Members, page
<1>9. MissingCovered'
  <2>1. Missing' \subseteq Missing
    <3>1. SUFFICES ASSUME NEW t \in Missing' PROVE t \in Missing
      OBVIOUS
    <3>2. t \in first' /\ t \notin left /\ t \notin got /\ t \notin page /\ Passed(t)'
      BY <1>1, <1>4 DEF Missing, page
    <3>3. t \in Matched(store)
      BY <1>4, <3>2 DEF Inv, Members
    <3>4. Rank(store, t) < token + n
      BY <1>1, <1>6, <3>2, <3>3, ListFinite DEF Passed
    <3>5. Rank(store, t) < token
      BY <1>1, <1>3, <3>2, <3>3, <3>4, ListFinite
    <3>6. begun
      BY <1>6, <3>3, <3>5 DEF Inv, Members
    <3>. QED
      BY <1>4, <3>2, <3>5, <3>6 DEF Missing, Passed
  <2>2. Cardinality(Missing') <= Cardinality(Missing) /\ Cardinality(Missing') \in Nat
    BY <2>1, WalkFinite, FS_Subset, FS_CardinalityType DEF Inv
  <2>3. Missing \in SUBSET Tasks /\ left \in SUBSET Tasks
    BY WalkFinite DEF Inv, Typed
  <2>. QED
    BY <1>4, <2>2, <2>3, WalkFinite DEF Inv, MissingCovered
<1>10. AgainCovered'
  <2>1. got \cap page \subseteq Again /\ Again' \subseteq Again \ (got \cap page)
    <3>1. got \cap page \subseteq Again
      BY <1>1, <1>2, <1>3, PageSizeAssumption DEF Again
    <3>2. ASSUME NEW t \in Again' PROVE t \in Again /\ t \notin page
      <4>1. t \in Matched(store) /\ token' # None /\ token' <= Rank(store, t) /\ t \in got \cup page
        BY <1>1, <3>2 DEF Again, page
      <4>2. token + n <= Rank(store, t) /\ token <= Rank(store, t)
        BY <1>1, <4>1, ListFinite
      <4>. QED
        BY <1>1, <1>3, <4>1, <4>2, ListFinite, PageSizeAssumption DEF Again
    <3>. QED
      BY <3>1, <3>2
  <2>2. IsFiniteSet(Again) /\ Cardinality(Again) \in Nat /\ Cardinality(came) \in Nat
    BY WalkFinite DEF Inv, Typed
  <2>3. /\ IsFiniteSet(Again \ (got \cap page))
        /\ Cardinality(Again \ (got \cap page)) = Cardinality(Again) - Cardinality(got \cap page)
    <3>1. Again \cap (got \cap page) = got \cap page
      BY <2>1
    <3>. QED
      BY <2>2, <3>1, FS_Difference
  <2>4. /\ Cardinality(Again') <= Cardinality(Again) - Cardinality(got \cap page)
        /\ Cardinality(Again') \in Nat
    BY <2>1, <2>3, FS_Subset, FS_CardinalityType
  <2>. QED
    BY <1>1, <1>4, <1>5, <2>2, <2>4 DEF Inv, Typed, AgainCovered, page
<1>. QED
  BY <1>7, <1>8, <1>9, <1>10 DEF Inv

LEMMA InvInit == Init => Inv
<1>. SUFFICES ASSUME Init PROVE Inv
  OBVIOUS
<1>1. Typed
  <2>1. StoreTyped
    BY DEF Init, StoreTyped, Statuses
  <2>2. begun \in BOOLEAN
    BY DEF Init
  <2>. QED
    BY <2>1, <2>2 DEF Init, Typed
<1>2. Members
  BY DEF Init, Members, Matched, taskMatches, where, attributesMatch
<1>3. Missing = {} /\ Again = {}
  BY DEF Init, Missing, Again
<1>. QED
  BY <1>1, <1>2, <1>3, FS_EmptySet DEF Init, Inv, MissingCovered, AgainCovered

LEMMA InvNext == Inv /\ [Next]_vars => Inv'
<1>. SUFFICES ASSUME Inv, [Next]_vars PROVE Inv'
  OBVIOUS
<1>1. ASSUME NEW t \in Tasks, NEW time \in 1..MaxTime, NEW st \in Live, CreateTask(t, time, st)
      PROVE  Inv'
  <2>1. UNCHANGED walk /\ \A u \in left : status'[u] \in Finished
    BY <1>1, FinishedAssumption DEF CreateTask, Inv, Members, Typed, StoreTyped
  <2>. QED
    BY <1>1, <2>1, CreateMoves, JoinKeeps, StayKeeps DEF Moves, walk
<1>2. ASSUME NEW t \in Tasks, NEW st \in Finished, FinishTask(t, st)
      PROVE  Inv'
  <2>1. UNCHANGED walk /\ \A u \in left \cup {t} : status'[u] \in Finished
    BY <1>2 DEF FinishTask, Inv, Members, Typed, StoreTyped
  <2>. QED
    BY <1>2, <2>1, FinishMoves, JoinKeeps, LeaveKeeps, StayKeeps DEF Moves, walk
<1>3. CASE ListBrowserTasks
  BY <1>3, ListKeeps
<1>4. CASE UNCHANGED vars
  <2>1. Missing' = Missing /\ Again' = Again
    BY <1>4 DEF vars, rows, walk, Missing, Again, Passed, Rank, Matched, taskMatches, where,
           attributesMatch, keysMatch, labelMatches, RankIn, Before, Instant
  <2>2. Typed' /\ Members'
    BY <1>4 DEF vars, rows, walk, Inv, Typed, StoreTyped, Members, Matched, taskMatches,
           where, attributesMatch, keysMatch, labelMatches
  <2>. QED
    BY <1>4, <2>1, <2>2 DEF vars, rows, walk, Inv, MissingCovered, AgainCovered
<1>. QED
  BY <1>1, <1>2, <1>3, <1>4 DEF Next

-----------------------------------------------------------------------------
THEOREM InvHolds == Spec => []Inv
  BY InvInit, InvNext, PTL DEF Spec

(* As long as no two of the times compared fall in one microsecond, the    *)
(* two stores answer every request alike, for any filter, at any offset and*)
(* page size (MemoryStore.ListTasks, Repository.ListTasks).                *)
THEOREM SamePages == Spec => []StoresAgree
<1>1. Inv => StoresAgree
  <2>1. Cardinality(Tasks) \in Nat
    BY PageSizeAssumption, FS_CardinalityType
  <2>. QED
    BY <2>1, SizesPositive, PagesAgree DEF Inv, Typed, StoresAgree
<1>. QED
  BY <1>1, InvHolds, PTL

(* A walk misses no more tasks than left the list during it.               *)
THEOREM MissedForDepartures == Spec => []MissedOnlyForDepartures
<1>1. Inv => MissedOnlyForDepartures
  BY DEF Inv, MissingCovered, Missing, MissedOnlyForDepartures
<1>. QED
  BY <1>1, InvHolds, PTL

(* It lists no more tasks again than came to the list during it.           *)
THEOREM RepeatedForArrivals == Spec => []RepeatedOnlyForArrivals
<1>1. Inv => RepeatedOnlyForArrivals
  <2>1. ASSUME Inv PROVE Cardinality(Again) \in Nat /\ Cardinality(came) \in Nat
    BY <2>1, WalkFinite DEF Inv, Typed
  <2>. QED
    BY <2>1 DEF Inv, Typed, AgainCovered, RepeatedOnlyForArrivals
<1>. QED
  BY <1>1, InvHolds, PTL
=============================================================================
