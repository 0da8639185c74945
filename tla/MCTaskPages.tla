---------------------------- MODULE MCTaskPages ----------------------------
EXTENDS TaskPages

\* Task ids and created_at in every combination; sizes that the bounds of
\* normalizePageSize make one and two.
SomeTasks == 1..3
SomePageSizes == {0, 5}

\* Two tasks of one session, one of them with a label, and one of another.
SomeInput ==
    [t \in SomeTasks |->
        [session_id   |-> IF t = 3 THEN "s2" ELSE "s1",
         task_key     |-> "browser.commands",
         scenario_key |-> "",
         labels       |-> IF t = 1 THEN <<>> ELSE [tier |-> IF t = 2 THEN "gold" ELSE "tin"]]]

\* No filter, a status that ends, a key and a label with and without a
\* value, and bounds in the middle of a microsecond.
Everything ==
    [status |-> "ANY", session_id |-> "", task_key |-> "", scenario_key |-> "",
     label_key |-> "", label_value |-> "", created_after |-> None, created_before |-> None]

SomeFilters ==
    {Everything,
     [Everything EXCEPT !.status = "RUNNING"],
     [Everything EXCEPT !.session_id = "s1", !.label_key = "tier"],
     [Everything EXCEPT !.created_after = 3, !.status = "RUNNING"],
     [Everything EXCEPT !.created_before = 2, !.label_key = "tier", !.label_value = "gold"]}
=============================================================================
