------------------------------ MODULE TaskPages ------------------------------
(***************************************************************************)
(* ListBrowserTasks: pages of the tasks that match a filter, newest first, *)
(* with an offset into that list as the page token.  One client walks all  *)
(* pages while tasks are created and finish.                               *)
(*                                                                         *)
(* Both stores are modelled: MemoryStore sorts and filters by created_at   *)
(* as it is, in nanoseconds, and slices the sorted list; in the repository *)
(* created_at is a timestamptz, in microseconds, and it asks for one row   *)
(* more than the page holds.  A list is given by the rank of each of its   *)
(* tasks.                                                                  *)
(***************************************************************************)
EXTENDS Naturals, FiniteSets

CONSTANTS
    Tasks,              \* task ids, as naturals: ties are broken by id
    Input,              \* task -> the keys and labels it is created with
    Finished,           \* statuses an execution may end with
    MaxTime,            \* bound: created_at is in 1..MaxTime
    Micro,              \* units of created_at to the unit of a timestamptz
    PageSizes,          \* page sizes a client asks for
    DefaultPageSize,    \* for a page size of zero or less
    MaxPageSize,        \* no page is longer
    Filters,            \* what a client may filter by
    None                \* no further page, no bound of a filter

ASSUME PageSizeAssumption ==
    /\ Tasks \subseteq Nat /\ IsFiniteSet(Tasks)
    /\ DefaultPageSize \in Nat \ {0} /\ MaxPageSize \in Nat \ {0}
    /\ PageSizes \subseteq Nat /\ None \notin Nat

ASSUME FilterAssumption ==
    /\ Micro \in Nat \ {0}
    /\ \A f \in Filters : {f.created_after, f.created_before} \subseteq Nat \cup {None}

VARIABLES
    status,     \* the rows: task -> status, "ABSENT" before the insert
    created,    \* task -> created_at, 0 before the insert
    store,      \* the repository, or as in tests the MemoryStore
    filter,     \* what the client filters by
    size,       \* the page size it asks for
    token,      \* the token of its next request, None after the last page
    begun,      \* it has asked for the first page
    got,        \* tasks it has received
    first,      \* history: tasks that matched when the walk began
    came, left, \* history: tasks that began, ceased to match during the walk
    repeats     \* history: how often it received a task again

rows == <<status, created>>
walk == <<store, filter, size, token, begun, got, first, repeats>>
vars == <<rows, walk, came, left>>

-----------------------------------------------------------------------------
Live == {"QUEUED", "RUNNING"}

ASSUME FinishedAssumption == Finished \cap (Live \cup {"ABSENT"}) = {}

Stores == {"memory", "postgres"}

(* Each of the fields that is set must be met. *)
keysMatch(t) ==
    \A key \in {"session_id", "task_key", "scenario_key"} :
        filter[key] \in {"", Input[t][key]}

labelMatches(t) ==
    filter.label_key # "" =>
        /\ filter.label_key \in DOMAIN Input[t].labels
        /\ filter.label_value \in {"", Input[t].labels[filter.label_key]}

attributesMatch(t) ==
    /\ status[t] # "ABSENT" /\ filter.status \in {"ANY", status[t]}
    /\ keysMatch(t) /\ labelMatches(t)

(* MemoryStore: neither before the one bound nor after the other. *)
taskMatches(t) ==
    /\ attributesMatch(t)
    /\ ~(filter.created_after  # None /\ created[t] < filter.created_after)
    /\ ~(filter.created_before # None /\ created[t] > filter.created_before)

(* Mutant: a bound that is exclusive in the query only. *)
where_exclusive(t) ==
    /\ attributesMatch(t)
    /\ filter.created_after = None
         \/ created[t] \div Micro >= filter.created_after \div Micro
    /\ filter.created_before = None
         \/ created[t] \div Micro < filter.created_before \div Micro

(* Repository: created_at >= $7, created_at <= $8 *)
where(t) ==
    /\ attributesMatch(t)
    /\ filter.created_after = None
         \/ created[t] \div Micro >= filter.created_after \div Micro
    /\ filter.created_before = None
         \/ created[t] \div Micro <= filter.created_before \div Micro

Matched(s) == {t \in Tasks : IF s = "memory" THEN taskMatches(t) ELSE where(t)}

(* created_at as a store sorts by it: pgx cuts off what a timestamptz has  *)
(* no room for.                                                            *)
Instant(s, t) == IF s = "memory" THEN created[t] ELSE created[t] \div Micro

(* order by created_at desc, task_id asc *)
Before(s, t, u) ==
    Instant(s, t) > Instant(s, u) \/ (Instant(s, t) = Instant(s, u) /\ t < u)

RankIn(list, s, t) == Cardinality({u \in list : Before(s, u, t)})

Rank(s, t) == RankIn(Matched(s), s, t)

Rows(s, from, to) ==
    LET matched == Matched(s)
    IN  {t \in matched : from <= RankIn(matched, s, t) /\ RankIn(matched, s, t) < to}

(* Mutant: the requested size is used as it is. *)
requestedPageSize(n) == n

normalizePageSize(n) ==
    IF n = 0 THEN DefaultPageSize
    ELSE IF n > MaxPageSize THEN MaxPageSize ELSE n

(* MemoryStore.ListTasks: matched[offset:end] *)
MemoryPage(offset, n) ==
    LET all == Cardinality(Matched("memory"))
        end == IF offset + n > all THEN all ELSE offset + n
    IN  IF offset >= all
        THEN [tasks |-> {}, next |-> None]
        ELSE [tasks |-> Rows("memory", offset, end),
              next  |-> IF end < all THEN end ELSE None]

(* Mutants: the row that only tells of a next page is skipped; it is       *)
(* returned and counted again.                                             *)
RepositoryPageSkips(offset, n) ==
    LET more == Cardinality(Rows("postgres", offset, offset + n + 1)) > n
    IN  [tasks |-> Rows("postgres", offset, offset + n),
         next  |-> IF more THEN offset + n + 1 ELSE None]

RepositoryPageOverlaps(offset, n) ==
    LET more == Cardinality(Rows("postgres", offset, offset + n + 1)) > n
    IN  [tasks |-> Rows("postgres", offset, offset + n + 1),
         next  |-> IF more THEN offset + n ELSE None]

(* Repository.ListTasks: limit n + 1 offset o *)
RepositoryPage(offset, n) ==
    LET more == Cardinality(Rows("postgres", offset, offset + n + 1)) > n
    IN  [tasks |-> Rows("postgres", offset, offset + n),
         next  |-> IF more THEN offset + n ELSE None]

Page(offset, n) ==
    IF store = "memory" THEN MemoryPage(offset, n) ELSE RepositoryPage(offset, n)

-----------------------------------------------------------------------------
(* history *)
Follow ==
    /\ came' = IF begun THEN came \cup (Matched(store)' \ Matched(store)) ELSE came
    /\ left' = IF begun THEN left \cup (Matched(store) \ Matched(store)') ELSE left

(* An insert.  created_at was read from the clock before, by calls that    *)
(* overtake one another: a row may appear behind newer ones.               *)
CreateTask(t, time, st) ==
    /\ status[t] = "ABSENT"
    /\ status'  = [status  EXCEPT ![t] = st]
    /\ created' = [created EXCEPT ![t] = time]
    /\ UNCHANGED walk
    /\ Follow

(* UpdateTask at the end of an execution. *)
FinishTask(t, st) ==
    /\ status[t] = "RUNNING"
    /\ status' = [status EXCEPT ![t] = st]
    /\ UNCHANGED <<created, walk>>
    /\ Follow

(* One request of the walk and its answer. *)
ListBrowserTasks ==
    /\ token # None
    /\ LET page == Page(token, normalizePageSize(size))
       IN  /\ token' = page.next
           /\ got' = got \cup page.tasks
           /\ repeats' = repeats + Cardinality(got \cap page.tasks)
    /\ first' = IF begun THEN first ELSE Matched(store)
    /\ begun' = TRUE
    /\ UNCHANGED <<rows, store, filter, size, came, left>>

-----------------------------------------------------------------------------
Init ==
    /\ status  = [t \in Tasks |-> "ABSENT"]
    /\ created = [t \in Tasks |-> 0]
    /\ store \in Stores
    /\ filter \in Filters
    /\ size \in PageSizes
    /\ token = 0
    /\ begun = FALSE
    /\ got = {} /\ first = {} /\ came = {} /\ left = {}
    /\ repeats = 0

Next ==
    \/ \E t \in Tasks, time \in 1..MaxTime, st \in Live : CreateTask(t, time, st)
    \/ \E t \in Tasks, st \in Finished : FinishTask(t, st)
    \/ ListBrowserTasks

Spec == Init /\ [][Next]_vars

(* The client goes on asking while it is given a token. *)
FairSpec == Spec /\ WF_vars(ListBrowserTasks)

-----------------------------------------------------------------------------
(***************************************************************************)
(* Properties                                                              *)
(***************************************************************************)

(* The two stores give the same page and the same token for any list, any  *)
(* filter, any offset (beyond the end too) and any page size, as long as no*)
(* two of the times they compare differ by less than the repository keeps. *)
Times == {created[t] : t \in {u \in Tasks : status[u] # "ABSENT"}}
            \cup ({filter.created_after, filter.created_before} \ {None})

Apart == \A a, b \in Times : a # b => a \div Micro # b \div Micro

StoresAgree ==
    Apart =>
        \A offset \in 0..Cardinality(Tasks) + 1,
           n \in {normalizePageSize(m) : m \in PageSizes} :
            MemoryPage(offset, n) = RepositoryPage(offset, n)

(* A walk misses a task that matched all the while only in exchange for    *)
(* one that ceased to match; inserts never hide a task.  Without a status  *)
(* filter, or with a final status, nothing is missed at all.  Whichever    *)
(* store the service has.                                                  *)
Passed(t) == token = None \/ Rank(store, t) < token
MissedOnlyForDepartures ==
    begun => Cardinality({t \in first \ (left \cup got) : Passed(t)}) <= Cardinality(left)

(* A task is received again only in exchange for one that began to match.  *)
RepeatedOnlyForArrivals == repeats <= Cardinality(came)

(* The walk comes to an end, whatever page size was asked for. *)
WalkEnds == <>(token = None)
=============================================================================
