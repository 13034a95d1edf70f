----------------------------- MODULE ListingView ------------------------------
(***************************************************************************)
(* The directory listing of the web client: what each handler does to the  *)
(* state of the page.  v.current says that no revision++ has happened      *)
(* since the load in flight was started, v.asked which page it asks for.   *)
(* v.full and v.asof are for the properties: the whole listing that the    *)
(* first page belongs to and when it was read.                             *)
(***************************************************************************)
EXTENDS Integers, Sequences, SequencesExt

CONSTANTS NoName, NoPage     \* NoPage: the cursor before and after all pages

Blank ==
    [items |-> <<>>, cursor |-> NoPage, seenCursors |-> {}, loaded |-> FALSE,
     invalidated |-> FALSE, loading |-> FALSE, current |-> TRUE, attempt |-> 0,
     asked |-> NoPage, phase |-> "none", refreshAfterLoad |-> FALSE, refreshAfterEditor |-> FALSE,
     editor |-> NoName, created |-> FALSE, full |-> <<>>, asof |-> 0]

resetListing(v) ==
    [v EXCEPT !.editor = NoName, !.created = FALSE, !.items = <<>>, !.seenCursors = {},
              !.cursor = NoPage, !.loaded = FALSE, !.invalidated = FALSE,
              !.refreshAfterEditor = FALSE, !.full = <<>>, !.asof = 0]

invalidate(v) ==
    [v EXCEPT !.current = FALSE, !.invalidated = TRUE, !.cursor = NoPage, !.seenCursors = {}]

notifyMutation(v, effect) == IF effect = "not-committed" THEN v ELSE invalidate(v)

\* The rest of loadNextPage up to its request.
StartLoad(v) ==
    IF v.loading \/ (v.loaded /\ v.cursor = NoPage) THEN v
    ELSE [v EXCEPT !.current = TRUE, !.loading = TRUE, !.attempt = 0, !.phase = "send",
                   !.asked = v.cursor]

\* Mutant: a refresh asked for during a load is forgotten.
refreshFromFirstPage_Forgets(v) ==
    IF v.editor # NoName THEN [v EXCEPT !.refreshAfterEditor = TRUE]
    ELSE IF v.loading THEN v
    ELSE StartLoad(resetListing(v))

refreshFromFirstPage(v) ==
    IF v.editor # NoName THEN [v EXCEPT !.refreshAfterEditor = TRUE]
    ELSE IF v.loading THEN [v EXCEPT !.current = FALSE, !.refreshAfterLoad = TRUE]
    ELSE StartLoad(resetListing(v))

loadNextPage(v) == IF v.invalidated THEN refreshFromFirstPage(v) ELSE StartLoad(v)

\* Mutant: an early return misses the finally block.
EndLoad_Stuck(v) == [v EXCEPT !.phase = "none"]

\* The finally block of loadNextPage.
EndLoad(v) ==
    LET idle == [v EXCEPT !.loading = FALSE, !.phase = "none", !.refreshAfterLoad = FALSE,
                          !.attempt = 0, !.asked = NoPage, !.current = TRUE]
    IN  IF v.refreshAfterLoad THEN refreshFromFirstPage(idle) ELSE idle

Conflict(r) == r.kind \in {"changed", "unavailable", "loop", "not_directory"}

\* The response is there: an outdated one is dropped, a conflict on a later
\* page empties the list, a changed directory on the first page is tried again.
Received(v, r) ==
    IF ~v.current THEN EndLoad(v)
    ELSE IF Conflict(r) /\ v.loaded THEN EndLoad(resetListing(v))
    ELSE IF r.kind = "changed" /\ v.attempt = 0 /\ v.asked = NoPage
         THEN [v EXCEPT !.phase = "send", !.attempt = 1]
    ELSE IF r.kind # "page" THEN EndLoad(v)
    ELSE [v EXCEPT !.phase = "append"]

Repeats(v, r) ==
    \/ r.cursor # NoPage /\ (r.cursor = v.asked \/ r.cursor \in v.seenCursors)
    \/ \E i \in 1..Len(r.paths) : \E k \in 1..Len(v.items) : v.items[k] = r.paths[i]

\* Mutant: a load that succeeds takes the mark away.
Append1_Clears(v, r) ==
    EndLoad([v EXCEPT !.items = @ \o r.paths, !.cursor = r.cursor, !.loaded = TRUE,
                      !.invalidated = FALSE, !.full = r.full, !.asof = r.asof])

\* After the await of assertResponse the page is appended.
Append1(v, r) ==
    IF Repeats(v, r) THEN EndLoad(v)
    ELSE EndLoad([v EXCEPT
            !.items = @ \o r.paths, !.cursor = r.cursor, !.loaded = TRUE,
            !.seenCursors = IF r.cursor = NoPage THEN @ ELSE @ \union {r.cursor},
            !.full = IF v.items = <<>> THEN r.full ELSE @,
            !.asof = IF v.items = <<>> THEN r.asof ELSE @])

ItemsWithout(v, name) == SelectSeq(v.items, LAMBDA p : p # name)

\* removeByName, of a view that was invalidated just before.
removeByName(v, name) ==
    LET w == [v EXCEPT !.items = ItemsWithout(v, name)]
    IN  IF w.items = <<>> /\ w.cursor # NoPage THEN loadNextPage(w) ELSE w

addCreatedItem(v, name) ==
    invalidate([v EXCEPT !.editor = NoName, !.created = FALSE,
                         !.items = <<name>> \o ItemsWithout(v, name), !.loaded = TRUE])

startInlineRename(v, name, created) == [v EXCEPT !.editor = name, !.created = created]

\* keep: the outcome is unknown or another refresh follows.
cancelInlineRename(v, keep) ==
    LET closed == [v EXCEPT !.editor = NoName, !.created = FALSE, !.refreshAfterEditor = FALSE]
    IN  IF ~keep /\ (v.created \/ v.refreshAfterEditor)
        THEN refreshFromFirstPage(closed) ELSE closed

\* The rename succeeded: the row is renamed in place and the list refreshed.
RenamedInline(v, name) ==
    LET k == CHOOSE i \in 1..Len(v.items) : v.items[i] = v.editor
    IN  IF \E i \in 1..Len(v.items) : v.items[i] = v.editor
        THEN refreshFromFirstPage([v EXCEPT !.items[k] = name, !.editor = NoName,
                                            !.created = FALSE, !.refreshAfterEditor = FALSE])
        ELSE cancelInlineRename(notifyMutation(v, "outcome-unknown"), TRUE)
=============================================================================
