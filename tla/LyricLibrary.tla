----------------------------- MODULE LyricLibrary ------------------------------
(***************************************************************************)
(* The two windows over the cache: the search window, where the user looks *)
(* for lyrics of a track and chooses some (app/lyrics_search.py,           *)
(* lyrics/search.py, ui/settings/lyrics_search_*.py), and the manager,     *)
(* where rows are listed and deleted (app/cache_management.py,             *)
(* ui/settings/cache_dialog.py).                                           *)
(*                                                                         *)
(* The calls of both go through the one thread of the cache, in order.  A  *)
(* task that is cancelled no longer learns how its call ends, but the call *)
(* is made: its job stays queued with nobody to tell.                      *)
(***************************************************************************)
EXTENDS SharedCache

CONSTANTS Providers,      \* in the order of the settings
          Books,          \* Books[provider, track]: what its service has
          MaxResults,     \* the budget of a search
          Keywords,       \* queries of the manager, as the artifacts that match
          Queries,        \* the tracks the user may search for, as queries
          InitTracks,     \* what the display may show when a session begins
          MaxOpens, MaxCommands, MaxOthers   \* bounds of the model

VARIABLES queue,      \* jobs of the cache's thread: [op, choice, keys, task]
          playing,    \* the track on the display
          shown,      \* the artifact chosen by hand that is on the display, or None
          finder,     \* the search window and its controller
          manager,    \* the manager and its controller
          halfway,    \* the cache may hold another choice than the display
          dirty,      \* others have written since the manager's last refresh
          used        \* what of the bounds is used up

vars == <<cache, queue, playing, shown, finder, manager, halfway, dirty, used>>

ASSUME LibraryAssumption ==
    /\ Keywords \subseteq SUBSET Artifacts /\ InitTracks \subseteq Tracks \cup {None}
    /\ Queries \subseteq Tracks
    /\ \A c \in InitCaches : Consistent(c)

\* What was chosen for which track, and the call that saves it.
Picks == [artifact : Artifacts, track : Tracks]
Saves == [choice : Picks, phase : {"called", "returned", "raised"}]

\* The calls of the manager, each for the window that made it.
Calls == [owner : Nat, phase : {"called", "returned", "raised", "listing", "listed"},
          value : SUBSET Artifacts]

Jobs == [op : {"select", "delete", "clear", "list"}, choice : Picks \cup {None},
         keys : SUBSET Artifacts, task : {"apply", "list", "delete", "clear", None}]

ASSUME NoneAssumption == None \notin Tracks \cup Saves \cup Calls \cup {"apply", "list", "delete", "clear"}

\* A task of the manager awaits a call of the cache.  owner: the window it works
\* for, 0 for none.
Task(owner) == [owner |-> owner, phase |-> "called", value |-> {}]

Selection(choice) == [op |-> "select", choice |-> choice, keys |-> {}, task |-> "apply"]

Job(op, keys, task) == [op |-> op, choice |-> None, keys |-> keys, task |-> task]

\* The queue when the tasks named are cancelled.
Abandoned(names) == [i \in DOMAIN queue |-> IF queue[i].task \in names THEN [queue[i] EXCEPT !.task = None]
                                            ELSE queue[i]]
-------------------------------------------------------------------------------
\* Mutant: the window that failed stays busy.
FailedStillBusy(w) == [w EXCEPT !.note = "error"]

\* set_busy(False) and show_error, when the task of a window raised.
Failed(w) == [w EXCEPT !.busy = FALSE, !.note = "error"]
-------------------------------------------------------------------------------
(* The search.                                                             *)

Matched(a, track) == Evidence[a.provider, a.song, track].conf

\* The offers of each provider, in calm and with one request in trouble.
CalmOffers == [p \in ToSet(Providers), t \in Tracks |-> Offers(p, Books[p, t], t, Calm)]

PoorerOffers ==
    [p \in ToSet(Providers), t \in Tracks |->
        {Offers(p, Books[p, t], t, trouble) : trouble \in Troubles(Songs)} \ {CalmOffers[p, t]}]

\* LyricsSearchService.search: every provider is asked, and one may offer less or
\* nothing; the finds are listed in order, each once, up to the budget.
Found(query, troubled, offers) ==
    LET of(p) == LET songs == IF p = troubled THEN offers ELSE CalmOffers[p, query]
                 IN  [i \in DOMAIN songs |-> [provider |-> p, song |-> songs[i]]]
    IN  AtMost(Once(FlattenSeq([i \in DOMAIN Providers |-> of(Providers[i])])), MaxResults)

\* The rows of the table: all results, or the high matches, the best first.
Visible(f) ==
    {a \in ToSet(f.rows) : f.highOnly => Matched(a, f.query) = High}

\* LyricsSearchDialog.__init__ and what its controller keeps of a session.
Closed == [window |-> 0, track |-> None, query |-> None, results |-> <<>>, rows |-> <<>>,
           picked |-> None, highOnly |-> FALSE, busy |-> FALSE, note |-> "", status |-> None,
           search |-> None, apply |-> None]

\* _update_action_state: there is a row to apply that is not in use already.
CanApply(f) ==
    /\ ~f.busy /\ f.picked # None
    /\ f.picked # f.status

\* _select_applied_result: the row in use is selected.
Picked(f, rows) == IF f.status \in ToSet(rows) THEN f.status ELSE None

\* set_busy(True) hides the feedback of the last choice.
Busy(f) == [f EXCEPT !.busy = TRUE, !.note = "busy"]

\* search() of the controller: the results of the former search are given up.
Searching(f, query) ==
    IF f.window = 0 \/ f.search # None \/ f.apply # None THEN f
    ELSE [Busy(f) EXCEPT !.results = <<>>, !.search = query]

\* _request_lyrics_search: there is something to search for.
Asks == playing # None

\* _open_lyrics_search: the window begins with the track and the lyrics on the display.
FinderFor(window) ==
    [Closed EXCEPT !.window = window, !.track = playing, !.query = playing, !.status = shown]

\* open() and show(), which searches at once for the track on the display.
OpenFinder ==
    /\ Asks /\ finder.window = 0 /\ used.opens < MaxOpens
    /\ finder' = Searching(FinderFor(used.opens + 1), playing)
    /\ used' = [used EXCEPT !.opens = @ + 1]
    /\ UNCHANGED <<cache, queue, playing, shown, manager, halfway, dirty>>

Command == used.commands < MaxCommands /\ used' = [used EXCEPT !.commands = @ + 1]

\* _request_search: the user edits the query.
SearchFor(query) ==
    /\ finder.window # 0 /\ ~finder.busy /\ Command
    /\ finder' = Searching(finder, query)
    /\ UNCHANGED <<cache, queue, playing, shown, manager, halfway, dirty>>

\* _search_async publishes the response; _search_finished reports what it raised.
SearchEnds(troubled, offers, raised) ==
    LET query == finder.search
        faults == IF raised \/ troubled # None THEN 1 ELSE 0
        told == [finder EXCEPT !.status = shown]
        Published(results) ==
            [told EXCEPT !.results = results, !.rows = results, !.query = query,
                         !.picked = Picked(told, results), !.busy = FALSE, !.note = "results"]
    IN  /\ finder.search # None
        /\ (troubled # None => ~raised /\ offers \in PoorerOffers[troubled, query])
        /\ used.faults + faults <= MaxFaults
        /\ used' = [used EXCEPT !.faults = @ + faults]
        /\ finder' = [(IF raised THEN Failed(finder)
                      ELSE Published(Found(query, troubled, offers))) EXCEPT !.search = None]
        /\ UNCHANGED <<cache, queue, playing, shown, manager, halfway, dirty>>

\* The user selects a row, or filters the table, which drops a hidden selection.
Pick(a) ==
    /\ finder.window # 0 /\ ~finder.busy /\ a \in Visible(finder) /\ a # finder.picked
    /\ finder' = [finder EXCEPT !.picked = a]
    /\ UNCHANGED <<cache, queue, playing, shown, manager, halfway, dirty, used>>

FilterHigh(high) ==
    /\ finder.window # 0 /\ finder.highOnly # high /\ Command
    /\ LET f == [finder EXCEPT !.highOnly = high]
       IN  finder' = [f EXCEPT !.picked = IF @ \in Visible(f) THEN @ ELSE None]
    /\ UNCHANGED <<cache, queue, playing, shown, manager, halfway, dirty>>

\* The choice is for the track the window was opened for.
ApplyFor(f) == [artifact |-> f.picked, track |-> f.track]

\* select(): only a result of the current search is written.
Apply ==
    /\ finder.window # 0 /\ CanApply(finder) /\ Command
    /\ IF finder.picked \notin ToSet(finder.results)
       THEN finder' = [finder EXCEPT !.note = "error"] /\ UNCHANGED queue
       ELSE /\ finder' = [Busy(finder) EXCEPT !.status = shown,
                                              !.apply = [choice |-> ApplyFor(finder), phase |-> "called"]]
            /\ queue' = Append(queue, Selection(ApplyFor(finder)))
    /\ UNCHANGED <<cache, playing, shown, manager, halfway, dirty>>

\* Mutant: lyrics are displayed whatever plays by then.
DisplaysAlways(choice) == playing # None

\* The player's track need not be the very track a choice was made for.
Suits(t, u) == Evaluate([Metadata[t] EXCEPT !.aliases = {}], Metadata[u], FALSE).conf # NoMatch

\* _matches_track: the display takes a choice for a track that matches what it shows.
Displays(choice) == playing # None /\ Suits(choice.track, playing)

\* The cache has answered: the display takes the choice if it still shows the
\* track, and the window reports what became of it.
ApplyEnds ==
    LET task == finder.apply
        written == task.phase = "returned"
    IN  /\ task # None /\ task.phase \in {"returned", "raised"}
        /\ shown' = IF written /\ Displays(task.choice) THEN task.choice.artifact ELSE shown
        /\ finder' = [(IF ~written THEN Failed(finder)
                       ELSE [finder EXCEPT !.busy = FALSE, !.status = shown',
                                           !.note = IF Displays(task.choice) THEN "applied" ELSE "saved"])
                          EXCEPT !.apply = None]
        /\ UNCHANGED <<cache, queue, playing, manager, halfway, dirty, used>>

\* _clear_dialog: the tasks of a window that closes are cancelled; a choice that
\* is on its way is still written, and not displayed.
CloseFinder ==
    /\ finder.window # 0
    /\ finder' = Closed
    /\ queue' = Abandoned({"apply"})
    /\ halfway' = (halfway \/ finder.apply # None)
    /\ UNCHANGED <<cache, playing, shown, manager, dirty, used>>
-------------------------------------------------------------------------------
(* The manager.                                                            *)

\* asked: the keys, or None, that a question is open about.
NoManager == [window |-> 0, query |-> {}, rows |-> {}, busy |-> FALSE, note |-> "", asking |-> FALSE,
              keys |-> {}, list |-> None, delete |-> None, clear |-> None]

\* _operation_active
Mutating(m) ==
    \/ m.delete # None /\ m.delete.owner = m.window
    \/ m.clear # None /\ m.clear.owner = m.window

\* search(): a former query is cancelled; the rows shown are of the latest.
Listing(m, query) ==
    [m EXCEPT !.busy = TRUE, !.note = "busy", !.query = query, !.list = Task(m.window)]

\* open() and show(), which lists everything.
OpenManager ==
    /\ manager.window = 0 /\ used.opens < MaxOpens
    /\ manager' = Listing([NoManager EXCEPT !.window = used.opens + 1, !.clear = manager.clear], Artifacts)
    /\ queue' = Append(Abandoned({"list"}), Job("list", Artifacts, "list"))
    /\ used' = [used EXCEPT !.opens = @ + 1]
    /\ UNCHANGED <<cache, playing, shown, finder, halfway, dirty>>

List(query) ==
    /\ manager.window # 0 /\ ~manager.busy /\ ~manager.asking /\ ~Mutating(manager) /\ Command
    /\ manager' = Listing(manager, query)
    /\ queue' = Append(Abandoned({"list"}), Job("list", query, "list"))
    /\ UNCHANGED <<cache, playing, shown, finder, halfway, dirty>>

\* _confirm_delete and _confirm_clear; no keys mean everything.
AskToDelete(keys) ==
    /\ manager.window # 0 /\ ~manager.busy /\ ~manager.asking /\ keys \subseteq manager.rows /\ Command
    /\ manager' = [manager EXCEPT !.asking = TRUE, !.keys = keys]
    /\ UNCHANGED <<cache, queue, playing, shown, finder, halfway, dirty>>

\* delete(): a query that is still out is cancelled.
Deleting(m) ==
    [m EXCEPT !.busy = TRUE, !.note = "busy", !.list = None, !.delete = Task(m.window)]

\* clear(), from the manager or, with or without it, from the settings.
Clearing(m) ==
    [m EXCEPT !.busy = m.window # 0, !.note = "busy", !.list = None, !.clear = Task(m.window)]

ClearIsRefused(m) ==
    \/ m.window # 0 /\ Mutating(m)
    \/ m.window = 0 /\ \E t \in {m.clear, m.delete} : t # None /\ t.owner = 0

\* The question is answered; a box does not close with another command running.
Confirm(yes) ==
    LET m == [manager EXCEPT !.asking = FALSE, !.keys = {}]
    IN  /\ manager.asking
        /\ IF ~yes \/ Mutating(m) THEN manager' = m /\ UNCHANGED queue
           ELSE IF manager.keys # {}
           THEN /\ manager' = Deleting(m)
                /\ queue' = Append(Abandoned({"list"}), Job("delete", manager.keys, "delete"))
           ELSE /\ manager' = Clearing(m)
                /\ queue' = Append(Abandoned({"list", "clear"}), Job("clear", {}, "clear"))
        /\ UNCHANGED <<cache, playing, shown, finder, halfway, dirty, used>>

ClearFromSettings ==
    /\ Command /\ ~ClearIsRefused(manager)
    /\ manager' = Clearing(manager)
    /\ queue' = Append(Abandoned({"list", "clear"}), Job("clear", {}, "clear"))
    /\ UNCHANGED <<cache, playing, shown, finder, halfway, dirty>>

\* Mutant: a refresh does not replace the rows.
FilledByQueriesOnly(m, rows, note) ==
    [m EXCEPT !.rows = IF note = "listed" THEN rows ELSE @, !.busy = FALSE, !.note = note]

\* set_entries
Filled(m, rows, note) == [m EXCEPT !.rows = rows, !.busy = FALSE, !.note = note]

\* _search_async and _search_finished
ListEnds ==
    LET task == manager.list
    IN  /\ task # None /\ task.phase \in {"returned", "raised"}
        /\ manager' = [(IF task.phase = "returned" THEN Filled(manager, task.value, "listed")
                        ELSE Failed(manager)) EXCEPT !.list = None]
        /\ UNCHANGED <<cache, queue, playing, shown, finder, halfway, dirty, used>>

\* _delete_async and _clear_async: the rows are listed again before the result
\* is reported, if the window is still the same.
RefreshesAfterwards(m, task) == m.window # 0 /\ task.owner = m.window

CommandReturns(name) ==
    LET task == manager[name]
    IN  /\ task # None /\ task.phase = "returned"
        /\ IF RefreshesAfterwards(manager, task)
           THEN /\ manager' = [manager EXCEPT ![name].phase = "listing"]
                /\ queue' = Append(queue, Job("list", manager.query, name))
           ELSE manager' = [manager EXCEPT ![name] = None] /\ UNCHANGED queue
        /\ UNCHANGED <<cache, playing, shown, finder, halfway, dirty, used>>

CommandRefreshed(name) ==
    LET task == manager[name]
    IN  /\ task # None /\ task.phase = "listed"
        /\ manager' = [Filled(manager, task.value, name) EXCEPT ![name] = None]
        /\ UNCHANGED <<cache, queue, playing, shown, finder, halfway, dirty, used>>

\* The call, or the refresh after it, has failed: the window says so.
CommandFails(name) ==
    LET task == manager[name]
    IN  /\ task # None /\ task.phase = "raised"
        /\ manager' = [(IF manager.window = 0 THEN manager ELSE Failed(manager)) EXCEPT ![name] = None]
        /\ UNCHANGED <<cache, queue, playing, shown, finder, halfway, dirty, used>>

\* The tasks of the window are cancelled; a clear of the settings goes on.
CloseManager ==
    LET keeps == manager.clear # None /\ manager.clear.owner = 0
        gone == {"list", "delete"} \cup (IF keeps THEN {} ELSE {"clear"})
    IN  /\ manager.window # 0
        /\ manager' = [NoManager EXCEPT !.clear = IF keeps THEN manager.clear ELSE None]
        /\ queue' = Abandoned(gone)
        /\ UNCHANGED <<cache, playing, shown, finder, halfway, dirty, used>>
-------------------------------------------------------------------------------
(* The cache's thread.                                                     *)

Effect(job) ==
    CASE job.op = "select" -> Select(cache, job.choice.track, job.choice.artifact)
      [] job.op = "delete" -> DeleteMany(cache, job.keys)
      [] job.op = "clear" -> Clear(cache)
      [] job.op = "list" -> cache

Answered(phase) == IF phase = "listing" THEN "listed" ELSE "returned"

\* The task that awaits the job learns its outcome.
Told(job, outcome) ==
    /\ finder' = IF job.task = "apply"
                 THEN [finder EXCEPT !.apply.phase = IF outcome = "raised" THEN "raised" ELSE "returned"]
                 ELSE finder
    /\ manager' = IF job.task \in {"list", "delete", "clear"}
                  THEN [manager EXCEPT ![job.task].phase = IF outcome = "raised" THEN "raised" ELSE Answered(@),
                                       ![job.task].value = IF job.op = "list" THEN job.keys \cap Stored(cache)
                                                           ELSE @]
                  ELSE manager

Run ==
    /\ queue # <<>>
    /\ LET job == Head(queue)
       IN  /\ cache' = Effect(job) /\ queue' = Tail(queue) /\ Told(job, "returned")
           /\ halfway' = IF job.op = "list" THEN halfway
                         ELSE ~(job.op = "select" /\ job.task = "apply")
           /\ dirty' = IF job.op = "list" THEN (IF job.task = None THEN dirty ELSE FALSE)
                       ELSE IF job.task \in {"delete", "clear"} /\ manager[job.task].owner = manager.window
                       THEN dirty ELSE TRUE
    /\ UNCHANGED <<playing, shown, used>>

\* SQLite fails: the transaction is rolled back.
Fail ==
    /\ queue # <<>> /\ used.faults < MaxFaults
    /\ queue' = Tail(queue) /\ Told(Head(queue), "raised")
    /\ used' = [used EXCEPT !.faults = @ + 1]
    /\ UNCHANGED <<cache, playing, shown, halfway, dirty>>

\* The deadline of a call passes: one that still waits is withdrawn, one that
\* runs goes on, and its caller takes it for failed.
TimeOut(i) ==
    /\ i \in DOMAIN queue /\ queue[i].task # None /\ used.faults < MaxFaults
    /\ queue' = IF i = 1 THEN [queue EXCEPT ![1].task = None] ELSE RemoveAt(queue, i)
    /\ Told(queue[i], "raised")
    /\ used' = [used EXCEPT !.faults = @ + 1]
    /\ UNCHANGED <<cache, playing, shown, halfway, dirty>>
-------------------------------------------------------------------------------
(* The others: the player, and the resolver, which reads and stores.       *)

Other == used.others < MaxOthers /\ used' = [used EXCEPT !.others = @ + 1]

Play(track) ==
    /\ track # playing /\ Other /\ playing' = track /\ shown' = None
    /\ UNCHANGED <<cache, queue, finder, manager, halfway, dirty>>

ResolverReads(track) ==
    /\ Other
    /\ \/ cache' = LookupManual(cache, track).cache
       \/ \E p \in ToSet(Providers) : cache' = Lookup(cache, p, track).cache
    /\ dirty' = (dirty \/ Stored(cache') # Stored(cache))
    /\ halfway' = (halfway \/ cache'.binds # cache.binds)
    /\ UNCHANGED <<queue, playing, shown, finder, manager>>

ResolverStores(a) ==
    /\ Other /\ cache' = Store(cache, a, High) /\ dirty' = TRUE
    /\ UNCHANGED <<queue, playing, shown, finder, manager, halfway>>

Spoil(a) ==
    /\ Other /\ a \in Stored(cache) /\ cache.rows[a].valid /\ cache' = Unreadable(cache, a)
    /\ UNCHANGED <<queue, playing, shown, finder, manager, halfway, dirty>>
-------------------------------------------------------------------------------
Init ==
    /\ cache \in InitCaches /\ queue = <<>>
    /\ playing \in InitTracks /\ shown = None
    /\ finder = Closed /\ manager = NoManager
    /\ halfway = FALSE /\ dirty = TRUE
    /\ used = [opens |-> 0, commands |-> 0, faults |-> 0, others |-> 0]

Works ==
    \/ Run \/ ApplyEnds \/ ListEnds
    \/ \E name \in {"delete", "clear"} : CommandReturns(name) \/ CommandRefreshed(name) \/ CommandFails(name)
    \/ \E raised \in BOOLEAN : SearchEnds(None, <<>>, raised)
    \/ /\ finder.search # None
       /\ \E p \in ToSet(Providers) : \E offers \in PoorerOffers[p, finder.search] : SearchEnds(p, offers, FALSE)

User ==
    \/ OpenFinder \/ CloseFinder \/ Apply
    \/ \E t \in Queries : SearchFor(t)
    \/ \E a \in Artifacts : Pick(a)
    \/ \E high \in BOOLEAN : FilterHigh(high)
    \/ OpenManager \/ CloseManager \/ ClearFromSettings
    \/ \E q \in Keywords : List(q)
    \/ \E keys \in SUBSET Artifacts : AskToDelete(keys)
    \/ \E yes \in BOOLEAN : Confirm(yes)

Next ==
    \/ Works \/ User \/ Fail
    \/ \E i \in DOMAIN queue : TimeOut(i)
    \/ \E t \in Tracks : Play(t) \/ ResolverReads(t)
    \/ \E a \in Artifacts : ResolverStores(a) \/ Spoil(a)

\* The thread runs what is queued, providers answer, and tasks go on; the user
\* may do nothing.  It is weak fairness, with what is enabled spelt out.
CanWork ==
    \/ queue # <<>> \/ finder.search # None \/ finder.apply # None
    \/ \E name \in {"list", "delete", "clear"} : manager[name] # None

Spec == Init /\ [][Next]_vars /\ ([]<>~CanWork \/ []<><<Works>>_vars)
-------------------------------------------------------------------------------
(* Properties.                                                             *)

\* The tracks a choice is displayed for while this one plays (_matches_track) are those
\* it is remembered under.  It is not so where a song is reported now with one length or
\* set of artists, now with another.
NameAgrees(track) == \A t \in Tracks : Suits(t, track) <=> SelectionKey(t) = SelectionKey(track)

\* What the display shows as chosen by hand is what the cache will restore when
\* the track is played again, in either of its albums.  Not so after the user
\* deleted rows, or while a choice is saved that nobody waits for any more: its
\* window was closed, or its call timed out.  Nor is it so of a track whose name does
\* not agree, which the code does not prevent.
ShownIsRemembered ==
    shown # None /\ ~halfway /\ finder.apply = None /\ NameAgrees(playing) =>
        \A t \in Tracks : SelectionKey(t) = SelectionKey(playing) => Chosen(cache, t) = shown

\* However searches, choices, deletions and evictions follow each other, the database
\* keeps its schema: no choice is left that names a row that is gone.
CacheIsConsistent == Consistent(cache)

\* An idle manager lists the rows of the cache that match its latest query, as
\* long as nobody else has written since it last looked, however many queries,
\* deletions and windows came before.
ManagerShowsTheCache ==
    manager.window # 0 /\ ~manager.busy /\ manager.note # "error" /\ ~dirty =>
        manager.rows = manager.query \cap Stored(cache)

\* No window stays busy for ever, whichever of its calls fail or time out.
BusyEnds == []<>~finder.busy /\ []<>~manager.busy
===============================================================================
