----------------------------- MODULE SourceImport -----------------------------
(***************************************************************************)
(* How a changed source becomes assets: the editor's frame                  *)
(* (host/editor/editor_application.cpp) hands what the watcher saw and the   *)
(* user's orders to the worker (editor/asset_background_worker.cpp); its     *)
(* task, one at a time, keeps the queue of candidates                        *)
(* (editor/asset_reimport_queue.cpp) and imports in a transaction            *)
(* (editor/asset_import_controller.cpp,                                      *)
(* tooling/asset_import/asset_import_sdk.cpp).                               *)
(*                                                                           *)
(* The frame's calls take the worker's lock one after another, and the task  *)
(* runs between them.  Delays (debounce, stable read) are the choice of the  *)
(* candidate a tick examines.  A content's hash is the content.              *)
(***************************************************************************)
EXTENDS FileWatcher, SequencesExt

CONSTANT Capacity     \* of the orders, the manual imports, the candidates and the results

ASSUME ImportAssumption == Capacity \in Nat \ {0}

NoImport == [what |-> "none", file |-> NoFile]

VARIABLES
    indexed,      \* the index: the content each entry was made from; 0: no entry
    products, spare,   \* the imported directory of each source and the backup beside it
    orders, manual,    \* commands; imports to do before the queue's next turn
    rescan, refresh,   \* the worker's flags
    results,      \* events for the editor
    outdated, revoked, \* revision, cancellation # those the step began with
    refused,      \* dropped_candidate_count() is not what the editor last saw
    paused, stopping,  \* state.paused, state.stopping
    job,          \* the worker's task: none, scheduled, running, finished
    pendingWork,  \* the last step left something to do
    at, doing,    \* where the step is, and the import it is doing
    before, staged,    \* of that import: the hash it began with, what the importer read
    done,         \* the step's own events
    uncounted,    \* the queue dropped candidates in this step: observed_drops is behind
    candidates, observed,   \* the queue: paths, and the hash of the first read
    sweep, left,  \* rescan_requested, rescan_active; the entries still to admit
    browser, browserDirty, browsing,   \* what the browser shows; it is to be rebuilt
    exporting,    \* the package dialog and its process: closed, open, running
    published,    \* history: what the runtime was told to load
    reported,     \* history: contents the user was told were not imported, or gave up
    swallowed,    \* history: a cancel took back a rescan that was asked for after it
    copies, external   \* history: copies made of, and orders to import, a file from outside

disks == <<indexed, products, spare>>
commands == <<orders, manual, rescan, refresh>>
flags == <<outdated, revoked, refused, paused, stopping>>
import == <<doing, before, staged>>
queue == <<candidates, observed, sweep, left, uncounted>>
shows == <<browser, browserDirty, browsing>>
ghosts == <<published, reported, swallowed, copies, external>>
importVars == <<disks, commands, results, flags, job, pendingWork, at, import, done, queue, shows,
                exporting, ghosts>>

ImportInit ==
    /\ indexed = [f \in Files |-> IF disk[f] = 0 THEN 0 ELSE 1]
    /\ products = indexed /\ spare = [f \in Files |-> 0]
    /\ orders = <<>> /\ manual = <<>> /\ rescan = FALSE /\ refresh = TRUE /\ results = <<>>
    /\ outdated = FALSE /\ revoked = FALSE /\ refused = FALSE
    /\ paused = FALSE /\ stopping = FALSE
    /\ job = "scheduled" /\ pendingWork = FALSE
    /\ at = "idle" /\ doing = NoImport /\ before = 0 /\ staged = 0 /\ done = <<>>
    /\ candidates = {} /\ observed = [f \in Files |-> 0] /\ sweep = {} /\ left = {}
    /\ uncounted = FALSE
    /\ browser = [f \in Files |-> "none"] /\ browserDirty = FALSE /\ browsing = FALSE
    /\ exporting = "closed"
    /\ published = indexed /\ reported = [f \in Files |-> {}] /\ swallowed = FALSE
    /\ copies = 0 /\ external = 0

-----------------------------------------------------------------------------
(* The worker's calls, from the editor's thread.                            *)

\* advance, at the end of every call: a completion is taken, and a task scheduled where there
\* is something to do.
Advance ==
    LET held == stopping' \/ paused' \/ Len(results') >= Capacity
        nothing == orders' = <<>> /\ ~rescan' /\ ~refresh' /\ ~pendingWork
    IN  job' = IF job \in {"scheduled", "running"} THEN job
               ELSE IF held \/ nothing THEN "none" ELSE "scheduled"

\* What a step in progress finds when it compares the revisions.
Outdates == outdated' = (outdated \/ job = "running")

Order(what, f) == [what |-> what, file |-> f]

NotifyDropping(f) ==
    /\ Outdates
    /\ orders' = IF Len(orders) < Capacity /\ Order("notify", f) \notin Range(orders)
                 THEN Append(orders, Order("notify", f)) ELSE orders
    /\ UNCHANGED <<rescan, refused>> /\ Advance
Notify(f) ==
    /\ Outdates
    /\ \/ /\ Order("notify", f) \in Range(orders)
          /\ UNCHANGED <<orders, rescan, refused, job>>
       \/ /\ Order("notify", f) \notin Range(orders) /\ Len(orders) < Capacity
          /\ orders' = Append(orders, Order("notify", f)) /\ UNCHANGED <<rescan, refused>>
          /\ Advance
       \/ /\ Order("notify", f) \notin Range(orders) /\ Len(orders) >= Capacity
          /\ rescan' = TRUE /\ refused' = TRUE /\ UNCHANGED <<orders, job>>

\* The frame hands over the next event of the watcher.
FrameNotifies ==
    /\ ~stopping /\ watched # <<>>
    /\ watched' = Tail(watched)
    /\ UNCHANGED <<system, extras, overrun, watching, disks, manual, refresh, results, revoked, paused,
                   stopping, pendingWork, at, import, done, queue, shows, exporting, ghosts>>
    /\ IF Head(watched) = NoFile
       THEN /\ rescan' = (rescan \/ ~watchFailed) /\ watchFailed' = TRUE
            /\ UNCHANGED <<orders, outdated, refused>> /\ Advance
       ELSE Notify(Head(watched)) /\ UNCHANGED watchFailed

\* Events or candidates were dropped since the last frame.
FrameChecksDrops ==
    /\ ~stopping /\ (overrun \/ refused)
    /\ overrun' = FALSE /\ refused' = FALSE /\ rescan' = TRUE
    /\ UNCHANGED <<system, extras, watched, watching, watchFailed, disks, orders, manual, refresh, results,
                   outdated, revoked, paused, stopping, pendingWork, at, import, done, queue,
                   shows, exporting, ghosts>>
    /\ Advance

\* What the results say: the content each file was last imported with, all that failed.
Successes(f) ==
    {i \in 1 .. Len(results) : results[i].state = "succeeded" /\ f \in DOMAIN results[i].seen}
Imported(f) ==
    IF Successes(f) = {} THEN published[f] ELSE results[Max(Successes(f))].seen[f]
Failed(f) ==
    {r.seen[f] : r \in {r \in Range(results) : r.state = "failed" /\ f \in DOMAIN r.seen}}

\* set_paused and poll_events: the runtime is told what was imported, the user what was not.
FramePolls ==
    /\ ~stopping
    /\ paused' = (exporting # "closed")
    /\ published' = [f \in Files |-> Imported(f)]
    /\ reported' = [f \in Files |-> reported[f] \cup Failed(f)]
    /\ results' = <<>>
    /\ UNCHANGED <<watchVars, disks, commands, outdated, revoked, refused, stopping, pendingWork,
                   at, import, done, queue, shows, exporting, swallowed, copies, external>>
    /\ Advance

\* start_source_asset_watch; restart_source_watch.
WatchStarts ==
    /\ ~stopping /\ watching = "stopped" /\ ~watchFailed
    /\ \/ Restart(TRUE) /\ rescan' = TRUE /\ refresh' = TRUE /\ UNCHANGED extras
       \/ Restart(FALSE) /\ Extra /\ UNCHANGED <<rescan, refresh>>
    /\ UNCHANGED <<disks, orders, manual, results, flags, pendingWork, at, import, done, queue,
                   shows, exporting, ghosts>>
    /\ Advance

\* The user asks for something; the worker takes no more orders than it has room for.
Asks == ~stopping /\ Extra
WatchRestarts ==
    /\ ~stopping
    /\ \/ watchFailed /\ Restart(TRUE) /\ rescan' = TRUE /\ UNCHANGED extras
       \/ Extra /\ Restart(TRUE) /\ rescan' = TRUE
       \/ Extra /\ Restart(FALSE) /\ UNCHANGED rescan
    /\ UNCHANGED <<disks, orders, manual, refresh, results, flags, pendingWork, at, import, done,
                   queue, shows, exporting, published, reported, swallowed, copies, external>>
    /\ Advance
AskImport(order) ==
    /\ Asks /\ Len(orders) < Capacity /\ orders' = Append(orders, order)
    /\ external' = IF order.what = "external" THEN external + 1 ELSE external
    /\ UNCHANGED <<system, watcher, disks, manual, rescan, refresh, results, flags, pendingWork, at,
                   import, done, queue, shows, exporting, published, reported, swallowed, copies>>
    /\ Advance
AskCheck ==
    /\ Asks
    /\ \/ rescan' = TRUE /\ UNCHANGED refresh
       \/ refresh' = TRUE /\ UNCHANGED rescan
    /\ UNCHANGED <<system, watcher, disks, orders, manual, results, flags, pendingWork, at, import,
                   done, queue, shows, exporting, published, reported, swallowed, copies, external>>
    /\ Advance

\* cancel: the user gives up what is waiting and what is not committed.
CancelTasks ==
    /\ Asks
    /\ Outdates /\ revoked' = (revoked \/ job = "running")
    /\ orders' = <<Order("cancel", NoFile)>> /\ rescan' = FALSE /\ refresh' = FALSE
    /\ reported' = [f \in Files |-> reported[f] \cup {disk[f]}]
    /\ UNCHANGED <<system, watcher, disks, manual, results, refused, paused, stopping, pendingWork, at,
                   import, done, queue, shows, exporting, published, swallowed, copies, external>>
    /\ Advance

\* The dialog that exports a package holds the worker back, and waits for its step.
AssetsIdle == job # "running"
OpenExport ==
    Asks /\ exporting = "closed" /\ exporting' = "open" /\ UNCHANGED <<paused, job>>
StartExport ==
    /\ exporting = "open" /\ AssetsIdle
    /\ exporting' = "running" /\ paused' = TRUE /\ UNCHANGED extras /\ Advance
EndExport ==
    /\ exporting = "running" /\ exporting' = "open" /\ UNCHANGED <<paused, job, extras>>
CloseExport ==
    /\ exporting = "open" /\ exporting' = "closed" /\ UNCHANGED <<paused, job, extras>>
Export ==
    /\ ~stopping
    /\ UNCHANGED <<system, watcher, disks, commands, results, outdated, revoked, refused, stopping,
                   pendingWork, at, import, done, queue, shows, published, reported, swallowed,
                   copies, external>>
    /\ OpenExport \/ StartExport \/ EndExport \/ CloseExport

\* begin_editor_exit: request_stop takes a task back that has not begun.  The closing frames
\* only ask for the status.
StopImports ==
    /\ Asks /\ stopping' = TRUE
    /\ job' = IF job = "running" THEN job ELSE "none"
    /\ UNCHANGED <<system, watcher, disks, commands, results, outdated, revoked, refused, paused,
                   pendingWork, at, import, done, queue, shows, exporting, ghosts>>
ClosingPolls ==
    /\ stopping
    /\ UNCHANGED <<watchVars, disks, commands, results, flags, pendingWork, at, import, done,
                   queue, shows, exporting, ghosts>>
    /\ Advance
ImportsStopped == stopping /\ job \in {"none", "finished"}

-----------------------------------------------------------------------------
(* A step of the task, on a worker of the scheduler.                        *)

\* What a step has to tell: of which files, and with which content.
Tells(state, f, content) ==
    [state |-> state, seen |-> [g \in Files \cap {f} |-> content]]
Failure(f) == [state |-> "failed", seen |-> [g \in Files \cap {f} |-> disk[g]]]

\* One order, taken by the step: a candidate, an import to do, or a fresh queue.  What finds no
\* room is dropped, by the queue or by the worker.
Take(q, order) ==
    CASE order.what = "cancel" ->
             [q EXCEPT !.manual = <<>>, !.candidates = {}, !.observed = [f \in Files |-> 0],
                       !.sweep = {}, !.left = {}, !.scan = FALSE]
      [] order.what = "notify" ->
             IF order.file \in q.candidates \/ Cardinality(q.candidates) < Capacity
             THEN [q EXCEPT !.candidates = @ \cup {order.file}, !.observed[order.file] = 0]
             ELSE [q EXCEPT !.uncounted = TRUE]
      [] OTHER ->
             IF Len(q.manual) < Capacity THEN [q EXCEPT !.manual = Append(@, order)]
             ELSE [q EXCEPT !.done = Append(@, Failure(order.file)), !.refused = TRUE]

Queued ==
    FoldLeft(Take, [manual |-> manual, candidates |-> candidates, observed |-> observed,
                    sweep |-> sweep, left |-> left, scan |-> rescan, done |-> <<>>,
                    uncounted |-> FALSE, refused |-> refused], orders)

\* The step takes what was ordered; a manual import goes before the queue's turn.
BeginStep ==
    /\ job = "scheduled"
    /\ IF paused \/ Len(results) >= Capacity
       THEN /\ job' = "finished"
            /\ UNCHANGED <<commands, outdated, revoked, refused, at, doing, done, queue, browsing,
                           swallowed>>
       ELSE /\ job' = "running" /\ outdated' = FALSE /\ revoked' = FALSE
            /\ orders' = <<>> /\ rescan' = FALSE /\ refresh' = FALSE /\ browsing' = refresh
            /\ swallowed' = (swallowed \/ (rescan /\ ~Queued.scan))
            /\ candidates' = Queued.candidates /\ observed' = Queued.observed
            /\ left' = Queued.left /\ done' = Queued.done
            /\ uncounted' = Queued.uncounted /\ refused' = Queued.refused
            /\ sweep' = IF Queued.scan THEN Queued.sweep \cup {"asked"} ELSE Queued.sweep
            /\ IF Queued.manual = <<>>
               THEN at' = "ticking" /\ manual' = <<>> /\ UNCHANGED doing
               ELSE /\ at' = IF Head(Queued.manual).what = "external" THEN "copying" ELSE "opening"
                    /\ doing' = Head(Queued.manual) /\ manual' = Tail(Queued.manual)
    /\ UNCHANGED <<watchVars, disks, results, paused, stopping, pendingWork, before,
                   staged, browser, browserDirty, exporting, published, reported,
                   copies, external>>

(* tick: the sweep over the index, then a candidate that is due.             *)

SweepEnds(active, rest, waiting) ==
    IF rest = {} /\ waiting = {} THEN active \ {"active"} ELSE active

\* The candidate is done with, with something to tell or nothing.
Settle(f, waiting, active, rest, news) ==
    /\ candidates' = waiting \ {f} /\ observed' = [observed EXCEPT ![f] = 0]
    /\ sweep' = SweepEnds(active, rest, candidates')
    /\ done' = news /\ at' = "ending" /\ UNCHANGED doing

Examine(f, broken, waiting, active, rest, news) ==
    \/ /\ disk[f] = 0 /\ Settle(f, waiting, active, rest, news) /\ browserDirty' = TRUE
    \/ /\ disk[f] # 0 /\ (broken = "index" \/ (broken = "source" /\ indexed[f] # 0))
       /\ Settle(f, waiting, active, rest, Append(news, Failure(f)))
       /\ UNCHANGED browserDirty
    \/ /\ disk[f] # 0 /\ broken # "index"
       /\ indexed[f] = 0 \/ (broken = "none" /\ indexed[f] = disk[f] /\ observed[f] = disk[f])
       /\ Settle(f, waiting, active, rest, news) /\ UNCHANGED browserDirty
    \/ /\ disk[f] # 0 /\ indexed[f] # 0 /\ broken = "none"
       /\ observed[f] # disk[f] \/ indexed[f] # disk[f]
       /\ IF observed[f] # disk[f]
          THEN at' = "ending" /\ UNCHANGED doing
          ELSE at' = "opening" /\ doing' = Order("auto", f)
       /\ observed' = [observed EXCEPT ![f] = disk[f]]
       /\ candidates' = waiting /\ sweep' = active /\ done' = news
       /\ UNCHANGED browserDirty

\* The entries the queue has room for become candidates.
Admits(listed, passed) ==
    /\ passed \subseteq listed
    /\ Cardinality(candidates \cup passed) <= Capacity
    /\ passed # listed => Cardinality(candidates \cup passed) = Capacity
    /\ Cardinality(candidates) = Capacity => passed = {}

Tick ==
    LET begins == sweep = {"asked"}
    IN  \E broken \in {"none", "index", "source"} :
        LET listed == IF ~begins THEN left
                      ELSE IF broken = "index" THEN {} ELSE {f \in Files : indexed[f] # 0}
            active == IF ~begins THEN sweep ELSE IF broken = "index" THEN {} ELSE {"active"}
            \* A sweep that cannot read the index is given up, and the user told so.
            news == IF begins /\ broken = "index"
                    THEN Append(done, [state |-> "failed", seen |-> disk]) ELSE done
        IN  /\ at = "ticking"
            /\ IF broken = "none" THEN UNCHANGED extras
               ELSE Extra /\ (sweep # {} \/ candidates # {})
            /\ \E passed \in SUBSET Files :
                   /\ Admits(listed, passed) /\ left' = listed \ passed
                   /\ \/ /\ candidates \cup passed = {}
                         /\ sweep' = SweepEnds(active, left', {})
                         /\ at' = "ending" /\ done' = news
                         /\ UNCHANGED <<candidates, observed, doing, browserDirty>>
                      \/ \E f \in candidates \cup passed :
                             Examine(f, broken, candidates \cup passed, active, left', news)
            /\ UNCHANGED <<system, watcher, disks, commands, results, flags, job, uncounted,
                           pendingWork, before, staged, browser, browsing, exporting, ghosts>>

-----------------------------------------------------------------------------
(* An import, in a transaction: nothing is moved before begin_commit.        *)

\* A newer event, a cancel or a stop takes back what is not committed.
IsCancelled == stopping \/ outdated

\* import() has the report: what was cancelled or overtaken is tried again, unless the user
\* gave it up; of a file that was copied the copy.
End(result, retry) ==
    LET again == result = "superseded" /\ ~stopping /\ ~revoked
        full == Len(manual) >= Capacity
        seen == IF before = 0 /\ doing.file \in Files THEN disk[doing.file] ELSE before
    IN  /\ at' = "ending" /\ doing' = NoImport /\ before' = 0 /\ staged' = 0
        /\ manual' = IF again /\ ~full THEN Append(manual, retry) ELSE manual
        /\ refused' = (refused \/ (again /\ full)) /\ rescan' = (rescan \/ (again /\ full))
        /\ done' = Append(done, Tells(result, doing.file, seen))
        /\ IF doing.what = "auto"
           THEN /\ candidates' = candidates \ {doing.file}
                /\ observed' = [observed EXCEPT ![doing.file] = 0]
                /\ sweep' = SweepEnds(sweep, left, candidates')
           ELSE UNCHANGED <<candidates, observed, sweep>>
        /\ browserDirty' = (browserDirty \/ doing.what # "auto" \/ result = "succeeded")

EndWith(result) == End(result, Order("import", doing.file))

GoesOn(stage) ==
    /\ at' = stage
    /\ UNCHANGED <<manual, refused, rescan, done, candidates, observed, sweep, browserDirty>>

\* import_external_asset_controlled: the file from outside gets a name of its own.
CopyIn ==
    /\ at = "copying"
    /\ \/ \E f \in Files :
              /\ disk[f] = 0 /\ Put(f, NewContent)
              /\ doing' = [doing EXCEPT !.file = f] /\ copies' = copies + 1
              /\ GoesOn("opening") /\ UNCHANGED <<before, staged, extras>>
       \/ EndWith("failed") /\ UNCHANGED <<system, extras, copies>>
    /\ UNCHANGED disks

\* The index and the hash of the source, before.
OpenSource ==
    LET f == doing.file IN
    /\ at = "opening"
    /\ \/ /\ disk[f] # 0 /\ ~IsCancelled
          /\ before' = disk[f] /\ GoesOn("parsing") /\ UNCHANGED <<extras, doing, staged>>
       \/ disk[f] # 0 /\ IsCancelled /\ EndWith("superseded") /\ UNCHANGED extras
       \/ disk[f] = 0 /\ EndWith("failed") /\ UNCHANGED extras
       \/ Extra /\ EndWith("failed")
    /\ UNCHANGED <<system, disks, copies>>

\* The importer, into a directory of its own.
ParseSource ==
    LET f == doing.file IN
    /\ at = "parsing"
    /\ \/ /\ ~IsCancelled /\ disk[f] # 0
          /\ staged' = disk[f] /\ GoesOn("checking") /\ UNCHANGED <<extras, doing, before>>
       \/ IsCancelled /\ EndWith("superseded") /\ UNCHANGED extras
       \/ ~IsCancelled /\ disk[f] = 0 /\ EndWith("failed") /\ UNCHANGED extras
       \/ ~IsCancelled /\ Extra /\ EndWith("failed")
    /\ UNCHANGED <<system, disks, copies>>

\* The hash of the source, after; a backup that is still there.
SkipTheCheck ==
    /\ at = "checking"
    /\ \/ ~IsCancelled /\ spare[doing.file] = 0
          /\ GoesOn("committing") /\ UNCHANGED <<doing, before, staged>>
       \/ IsCancelled /\ EndWith("superseded")
       \/ ~IsCancelled /\ spare[doing.file] # 0 /\ EndWith("failed")
    /\ UNCHANGED <<system, extras, disks, copies>>
CheckSource ==
    LET same == disk[doing.file] = before IN
    /\ at = "checking"
    /\ \/ ~IsCancelled /\ same /\ spare[doing.file] = 0
          /\ GoesOn("committing") /\ UNCHANGED <<doing, before, staged>>
       \/ (IsCancelled \/ ~same) /\ EndWith("superseded")
       \/ ~IsCancelled /\ same /\ spare[doing.file] # 0 /\ EndWith("failed")
    /\ UNCHANGED <<system, extras, disks, copies>>

\* begin_commit, and the two renames; the first failure is rolled back, the second is not.
CommitImport ==
    LET f == doing.file IN
    /\ at = "committing"
    /\ \/ IsCancelled /\ EndWith("superseded") /\ UNCHANGED <<extras, products, spare>>
       \/ /\ ~IsCancelled
          /\ products' = [products EXCEPT ![f] = staged]
          /\ spare' = [spare EXCEPT ![f] = products[f]]
          /\ GoesOn("saving") /\ UNCHANGED <<extras, doing, before, staged>>
       \/ ~IsCancelled /\ Extra /\ EndWith("failed") /\ UNCHANGED <<products, spare>>
       \/ /\ ~IsCancelled /\ products[f] # 0
          /\ Extra
          /\ products' = [products EXCEPT ![f] = 0]
          /\ spare' = [spare EXCEPT ![f] = products[f]]
          /\ EndWith("failed")
    /\ UNCHANGED <<system, indexed, copies>>

\* save_asset_index; the backup may outlive it.  A failure puts the old products back, or fails
\* to before or after it has removed the new ones.
SaveIndex ==
    LET f == doing.file IN
    /\ at = "saving"
    /\ \/ /\ indexed' = [indexed EXCEPT ![f] = before]
          /\ \/ spare' = [spare EXCEPT ![f] = 0] /\ UNCHANGED extras
             \/ spare[f] # 0 /\ UNCHANGED spare /\ Extra
          /\ EndWith("succeeded") /\ UNCHANGED products
       \/ /\ Extra
          /\ products' = [products EXCEPT ![f] = spare[f]]
          /\ spare' = [spare EXCEPT ![f] = 0]
          /\ EndWith("failed") /\ UNCHANGED indexed
       \/ /\ Extra
          /\ \/ UNCHANGED products
             \/ spare[f] # 0 /\ products' = [products EXCEPT ![f] = 0]
          /\ EndWith("failed") /\ UNCHANGED <<spare, indexed>>
    /\ UNCHANGED <<system, copies>>

ImportStage ==
    /\ CopyIn \/ OpenSource \/ ParseSource \/ CheckSource \/ CommitImport \/ SaveIndex
    /\ UNCHANGED <<watcher, orders, refresh, results, outdated, revoked, paused, stopping, job,
                   pendingWork, left, uncounted, browser, browsing, exporting, published, reported,
                   swallowed, external>>

-----------------------------------------------------------------------------
\* asset_browser_model::refresh
Shown(f) ==
    IF indexed[f] = 0 THEN IF disk[f] = 0 THEN "none" ELSE "untracked"
    ELSE IF disk[f] = 0 THEN "missing"
    ELSE IF disk[f] # indexed[f] \/ products[f] = 0 THEN "stale" ELSE "ready"

\* The step is over: the browser is rebuilt where nothing more is to come, the events handed in.
EndStep ==
    LET rebuilds == browsing \/ (browserDirty /\ manual = <<>> /\ candidates = {} /\ sweep = {})
    IN  /\ at = "ending" /\ at' = "idle" /\ job' = "finished"
        /\ browserDirty' = (browserDirty /\ ~rebuilds) /\ browsing' = FALSE
        /\ IF rebuilds /\ ~stopping
           THEN \/ browser' = [f \in Files |-> Shown(f)] /\ UNCHANGED extras
                \/ browser' = [f \in Files |-> "unknown"] /\ Extra
           ELSE UNCHANGED <<browser, extras>>
        /\ results' = results \o done /\ done' = <<>>
        /\ refused' = (refused \/ uncounted) /\ uncounted' = FALSE
        /\ pendingWork' = (manual # <<>> \/ candidates # {} \/ sweep # {} \/ browserDirty')
        /\ UNCHANGED <<system, watcher, disks, commands, outdated, revoked, paused,
                       stopping, import, candidates, observed, sweep, left, exporting, ghosts>>

ImportTask == BeginStep \/ Tick \/ ImportStage \/ EndStep
\* What the frame does in any case, and what it does when asked.
ImportTurn == FrameNotifies \/ FrameChecksDrops \/ FramePolls \/ ClosingPolls
ImportFrame == ImportTurn \/ Export \/ WatchStarts
ImportUser ==
    \/ WatchRestarts \/ AskCheck \/ CancelTasks
    \/ AskImport(Order("external", NoFile)) \/ \E f \in Files : AskImport(Order("import", f))
ImportSteps ==
    \/ ImportTask \/ ImportFrame \/ ImportUser \/ StopImports
    \/ ~stopping /\ (WatcherThread \/ \E f \in Files : Change(f)) /\ UNCHANGED importVars

-----------------------------------------------------------------------------
(* Properties *)

\* Nothing is left to do, for the watcher, the frame or the worker.
ImportsQuiet ==
    /\ raised = {} /\ watched = <<>> /\ ~overrun /\ ~refused
    /\ orders = <<>> /\ manual = <<>> /\ ~rescan /\ ~refresh /\ results = <<>>
    /\ job = "none" /\ ~pendingWork

\* Once everything has come to rest, each source that has an entry was imported as it is on the
\* disk and the runtime was told of that import; or the user was told that it failed, or gave it
\* up; or the browser shows that the source is gone.  Events that overran the watcher's queue,
\* the worker's or the candidates are made up for by a sweep, one that could not read the index
\* is reported, and an import that a newer change overtook is done again.
SourcesNotMissed ==
    ImportsQuiet /\ Watches /\ ~stopping /\ ~swallowed =>
        \A f \in Files : indexed[f] # 0 =>
            /\ published[f] = indexed[f]
            /\ \/ disk[f] \in {indexed[f]} \cup reported[f]
               \/ (disk[f] = 0 /\ browser[f] \in {"missing", "unknown"})

\* The products on the disk are those the index names, whatever fails in the transaction or is
\* written meanwhile, unless a backup is left beside them; the step in which they are not is
\* the one that saves the index.  No step runs while a package is exported, and a file is
\* copied in once for each time the user asks, however often its import is tried again.
ImportIsWhole ==
    /\ \A f \in Files :
           indexed[f] \in {0, products[f]} \/ spare[f] # 0 \/ (at = "saving" /\ doing.file = f)
    /\ exporting = "running" => job # "running"
    /\ copies <= external

\* The worker is at rest, with all it was handed done, or a dialog holds it back, or it has
\* nothing to watch; or its stop has ended the step it was in.
ImportsSettled ==
    IF stopping THEN ImportsStopped
    ELSE ImportsQuiet \/ exporting # "closed" \/ watching # "running"
=============================================================================
