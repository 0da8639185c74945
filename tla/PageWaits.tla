------------------------------ MODULE PageWaits ------------------------------
(***************************************************************************)
(* The two commands of the worker that poll: wait_for_network_request      *)
(* (NetworkLog), and every command with a group of selectors, which        *)
(* resolve_first_visible_locator looks for in the page and its frames.     *)
(*                                                                         *)
(* The page goes on while it is looked at: elements come, hide and go, and *)
(* so do frames.  The worker runs one command at a time, and what the log  *)
(* records does not depend on elements: a behaviour has one of the waits.  *)
(***************************************************************************)
EXTENDS NetworkLog

CONSTANTS
    Selectors,      \* selectors of the group, those with a value
    Frames,         \* frames of the page, but for the main one
    MaxChanges      \* bound: changes of the page

ASSUME GroupAssumption == Selectors \in Nat \ {0} /\ Frames \in Nat /\ MaxChanges \in Nat

VARIABLES
    frames,     \* those the page has
    element,    \* what a selector finds in a frame: "none", "hidden", "visible"
    resolve,    \* "none", "look", "count", "sleep", then "visible", "attached", "failed"
    timed,      \* the group has a timeout
    past,       \* it has passed
    todo,       \* what this scan has not looked at yet
    candidate,  \* attached_candidate
    found,      \* the locator that is returned
    least,      \* history: the least that was there at any moment of this scan
    torn,       \* where the document was replaced since the last question
    changes

scan == <<resolve, timed, past, todo, candidate, found>>
elements == <<frames, element, least, changes>>
allVars == <<vars, scan, elements, torn>>

(* A selector in the page, which is target 0, or in one of its frames.     *)
Locators == (0 .. Frames) \X (1 .. Selectors)

ASSUME NoLocatorAssumption == None \notin Locators

Before(l, m) == l[1] < m[1] \/ (l[1] = m[1] /\ l[2] < m[2])
First(set) == CHOOSE l \in set : \A m \in set \ {l} : Before(l, m)

Less(a, b) == IF "none" \in {a, b} THEN "none" ELSE IF "hidden" \in {a, b} THEN "hidden" ELSE a

Resolving == resolve \in {"look", "count", "sleep"}

-----------------------------------------------------------------------------
(***************************************************************************)
(* The page                                                                *)
(***************************************************************************)

Becomes(new) ==
    /\ Resolving
    /\ changes < MaxChanges
    /\ changes' = changes + 1
    /\ element' = new
    /\ least' = [l \in Locators |-> Less(least[l], new[l])]
    /\ UNCHANGED <<vars, scan>>

ElementChanges ==
    \E l \in Locators, state \in {"none", "hidden", "visible"} :
        /\ l[1] \in frames \cup {0} /\ element[l] # state
        /\ Becomes([element EXCEPT ![l] = state])
        /\ UNCHANGED <<frames, torn>>

Emptied(f) == [l \in Locators |-> IF l[1] = f THEN "none" ELSE element[l]]

(* A frame comes empty, and goes with its elements. *)
FrameChanges ==
    \E f \in 1 .. Frames :
        \/ /\ f \notin frames /\ frames' = frames \cup {f}
           /\ Becomes(element)
        \/ /\ f \in frames /\ frames' = frames \ {f}
           /\ Becomes(Emptied(f))
    /\ UNCHANGED torn

(* The page or a frame navigates: it starts with a new document.           *)
Navigates ==
    \E f \in frames \cup {0} :
        /\ Becomes(Emptied(f))
        /\ torn' = torn \cup {f}
        /\ UNCHANGED frames

-----------------------------------------------------------------------------
(***************************************************************************)
(* resolve_first_visible_locator                                           *)
(***************************************************************************)

(* The frames are listed once per scan. *)
targets ==
    /\ resolve' = "look"
    /\ todo' = (frames' \cup {0}) \X (1 .. Selectors)
    /\ least' = element' /\ torn' = {}
    /\ UNCHANGED <<vars, candidate, found, changes>>

(* The page is what it has become by now. *)
resolve_group(with_timeout) ==
    /\ resolve = "none" /\ wait = "none" /\ \A r \in Requests : stage[r] = "new"
    /\ frames' \in SUBSET (1 .. Frames)
    /\ element' \in [Locators -> {"none", "hidden", "visible"}]
    /\ \A l \in Locators : l[1] \in frames' \cup {0} \/ element'[l] = "none"
    /\ timed' = with_timeout /\ past' = FALSE
    /\ targets

(* Mutant: whatever is attached will do. *)
is_attached ==
    /\ resolve = "look" /\ todo # {}
    /\ LET l == First(todo)
       IN  \/ /\ element[l] # "none"
              /\ resolve' = (IF element[l] = "visible" THEN "visible" ELSE "attached")
              /\ found' = l
              /\ UNCHANGED todo
           \/ /\ element[l] = "none"
              /\ todo' = todo \ {l}
              /\ UNCHANGED <<resolve, found>>
    /\ torn' = {}
    /\ UNCHANGED <<vars, elements, timed, past, candidate>>

(* In a frame that is gone it fails, and the next locator is looked at.    *)
is_visible ==
    /\ resolve = "look" /\ todo # {}
    /\ LET l == First(todo)
       IN  \/ /\ element[l] = "visible"
              /\ resolve' = "visible" /\ found' = l
              /\ UNCHANGED todo
           \/ /\ element[l] # "visible" /\ candidate = None /\ l[1] \in frames \cup {0}
              /\ resolve' = "count"
              /\ UNCHANGED <<todo, found>>
           \/ /\ element[l] # "visible" /\ (candidate # None \/ l[1] \notin frames \cup {0})
              /\ todo' = todo \ {l}
              /\ UNCHANGED <<resolve, found>>
    /\ torn' = {}
    /\ UNCHANGED <<vars, elements, timed, past, candidate>>

(* Between the two questions the element may have come or gone.            *)
count ==
    /\ resolve = "count"
    /\ LET l == First(todo)
       IN  /\ candidate' = IF element[l] # "none" THEN l ELSE None
           /\ todo' = todo \ {l}
    /\ resolve' = "look" /\ torn' = {}
    /\ UNCHANGED <<vars, elements, timed, past, found>>

(* Either question may fail when the document is replaced meanwhile; the   *)
(* next locator is looked at.                                              *)
raises ==
    /\ resolve = "count" \/ (resolve = "look" /\ todo # {})
    /\ First(todo)[1] \in torn
    /\ todo' = todo \ {First(todo)}
    /\ resolve' = "look" /\ torn' = {}
    /\ UNCHANGED <<vars, elements, timed, past, candidate, found>>

(* Mutant: no timeout is no deadline. *)
scanned_on ==
    /\ resolve = "look" /\ todo = {}
    /\ IF past
       THEN resolve' = (IF candidate = None THEN "failed" ELSE "attached") /\ found' = candidate
       ELSE resolve' = "sleep" /\ UNCHANGED found
    /\ UNCHANGED <<vars, elements, torn, timed, past, todo, candidate>>

(* Without a timeout there is one scan; what was attached in any scan will *)
(* do when nothing was visible.                                            *)
scanned ==
    /\ resolve = "look" /\ todo = {}
    /\ IF past \/ ~timed
       THEN resolve' = (IF candidate = None THEN "failed" ELSE "attached") /\ found' = candidate
       ELSE resolve' = "sleep" /\ UNCHANGED found
    /\ UNCHANGED <<vars, elements, torn, timed, past, todo, candidate>>

slept ==
    /\ resolve = "sleep"
    /\ UNCHANGED <<timed, past, frames, element>>
    /\ targets

timeout ==
    /\ Resolving /\ timed /\ ~past
    /\ past' = TRUE
    /\ UNCHANGED <<vars, elements, torn, resolve, timed, todo, candidate, found>>

-----------------------------------------------------------------------------
WaitsInit ==
    /\ Init
    /\ frames = {} /\ element = [l \in Locators |-> "none"]
    /\ resolve = "none" /\ timed = FALSE /\ past = FALSE
    /\ todo = {} /\ candidate = None /\ found = None
    /\ least = element /\ torn = {} /\ changes = 0

Resolve ==
    \/ \E with_timeout \in BOOLEAN : resolve_group(with_timeout)
    \/ is_visible \/ count \/ raises \/ scanned \/ slept \/ timeout
    \/ ElementChanges \/ FrameChanges \/ Navigates

WaitsNext ==
    \/ resolve = "none" /\ Next /\ UNCHANGED <<scan, elements, torn>>
    \/ Resolve

(* The worker runs, sleeps end and the clock goes on.  That Playwright     *)
(* answers is_visible and count, or fails, is an assumption: the worker    *)
(* gives count() no timeout (worker.py:947), and on a page that is busy    *)
(* for ever neither need come back.                                        *)
WaitsSpec ==
    /\ WaitsInit /\ [][WaitsNext]_allVars
    /\ Fairness
    /\ WF_allVars(is_visible \/ count \/ raises \/ scanned \/ slept) /\ WF_allVars(timeout)

-----------------------------------------------------------------------------
(***************************************************************************)
(* Properties                                                              *)
(***************************************************************************)

(* Of the elements that were visible all through the last scan, the first  *)
(* one or one before it is returned; an attached one only if there was no  *)
(* such element; and the resolve fails only if nothing was even attached,  *)
(* however the page changed while it was scanned.                          *)
FirstVisibleWins ==
    /\ \A l \in Locators : least[l] = "visible" =>
         /\ resolve \notin {"attached", "failed"}
         /\ resolve = "visible" => ~Before(l, found)
    /\ resolve = "failed" => \A l \in Locators : least[l] = "none"

(* Both waits end, with or without a timeout, if Playwright answers. *)
WaitsEnd ==
    /\ WaitEnds
    /\ Resolving ~> resolve \in {"visible", "attached", "failed"}
=============================================================================
