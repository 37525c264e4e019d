----------------------------- MODULE AuthorAssets -----------------------------
(***************************************************************************)
(* The scenes and prefabs of the asset directory (editor/                    *)
(* author_asset_service.cpp, author_asset_monitor.cpp) and the editor's      *)
(* frame around them (host/editor/editor_application.cpp): what somebody     *)
(* else changed is loaded or passed on, what the editor saved itself is not, *)
(* and nothing is overwritten that has unsaved edits.                        *)
(*                                                                           *)
(* The service reads files through the file service, which calls every       *)
(* request back once (FileService), and checks them in a task; both one at a  *)
(* time.  A fingerprint is the content.  revision is what it is compared for: *)
(* whether it has moved since.  The directory is flat and one page long.      *)
(***************************************************************************)
EXTENDS FileWatcher, Integers, SequencesExt

CONSTANTS
    OpenFile,     \* the scene the editor has open
    Commands      \* capacity of the service's commands

ASSUME AuthorAssumption == OpenFile \in Files /\ Commands \in Nat \ {0}

Unknown == -1     \* no fingerprint
\* ok: the file was there and could be read.
NoReceipt == [phase |-> "none", seen |-> 0, ok |-> FALSE, stale |-> FALSE, orphan |-> FALSE]
NoCheck == [kind |-> "none", file |-> NoFile, seen |-> 0, ok |-> FALSE, phase |-> "none",
            stale |-> FALSE]
NoChange == [file |-> NoFile, seen |-> 0, ok |-> FALSE]
NoSave == [file |-> NoFile, content |-> 0, phase |-> "none"]

VARIABLES
    fingerprints, \* the monitor's
    probes,       \* commands: probe, baseline (a probe), saved, applied
    receipt,      \* read_receipt: none, asked, ready; orphan: its command was taken back
    scan,         \* none, listing, asked, listed, failed, over
    listed,       \* the files of the scan: seen before the listing, found by it
    baseline, rescans,   \* baseline, rescan
    checking,     \* the batch the task works on
    prepared,     \* a change the frame has not looked at
    inbox,        \* pending_author_events
    dirty,        \* the open document has unsaved edits
    loading,      \* author_reload_uri: the change the open scene is being loaded again for
    saving,       \* a save of the editor: the file it writes and how far it is
    leaving,      \* stopping
    served,       \* history: the content the editor and the runtime go by
    warned,       \* history: contents the user was told of instead
    own,          \* history: contents the editor saved and the service took note of
    skipped       \* history: a change was taken for the baseline, or a first listing failed

service == <<fingerprints, probes, receipt, scan, listed, baseline, rescans, checking, prepared>>
editing == <<inbox, dirty, loading, saving>>
records == <<served, warned, own, skipped>>
authorVars == <<service, editing, leaving, records>>

AuthorInit ==
    /\ fingerprints = [f \in Files |-> Unknown] /\ probes = <<>> /\ receipt = NoReceipt
    /\ scan = "none" /\ listed = {} /\ baseline = TRUE /\ rescans = TRUE
    /\ checking = NoCheck /\ prepared = NoChange
    /\ inbox = <<>> /\ dirty = FALSE /\ loading = NoChange
    /\ saving = NoSave /\ leaving = FALSE
    /\ served = [f \in Files |-> Unknown] /\ warned = [f \in Files |-> {}]
    /\ own = [f \in Files |-> {}] /\ skipped = FALSE

-----------------------------------------------------------------------------
Command(kind, f, hash) == [kind |-> kind, file |-> f, hash |-> hash]
IsProbe(command) == command.kind \in {"probe", "baseline"}
Probed == {probes[i].file : i \in {i \in 1 .. Len(probes) : IsProbe(probes[i])}}

\* enqueue: a file that is waiting to be probed is looked at again in a later scan, and so is
\* everything when there is no room.
Enqueue(command) ==
    IF (IsProbe(command) /\ command.file \in Probed) \/ Len(probes) >= Commands
    THEN rescans' = TRUE /\ UNCHANGED probes
    ELSE probes' = Append(probes, command) /\ UNCHANGED rescans

Warn(f, content) == warned' = [warned EXCEPT ![f] = @ \cup {content}]

-----------------------------------------------------------------------------
(* pump, from poll_rescan in the frame: the batch that is back, then the scan or the first       *)
(* command; nothing while a change waits for the frame.                                          *)

\* A frame that shows a load or a save does nothing else.
FrameRuns == loading = NoChange /\ saving = NoSave

\* What a save has overtaken is looked at again.
TakeBatch ==
    /\ checking.phase = "done" /\ checking' = NoCheck
    /\ IF checking.kind = "changed" /\ ~checking.stale
       THEN /\ prepared' = [file |-> checking.file, seen |-> checking.seen, ok |-> checking.ok]
            /\ inbox' = Append(inbox, checking.file)
       ELSE UNCHANGED <<prepared, inbox>>
    /\ rescans' = (rescans \/ checking.stale)
    /\ UNCHANGED <<fingerprints, probes, receipt, scan, listed, baseline>>

\* scan, once there is no command left: the files there is a fingerprint of, then the directory.
Probes(files) == SetToSeq({Command(IF baseline THEN "baseline" ELSE "probe", f, 0) : f \in files})
Scan ==
    /\ probes = <<>>
    /\ \/ /\ scan = "none" /\ rescans
          /\ rescans' = FALSE /\ scan' = "listing"
          /\ listed' = {f \in Files : fingerprints[f] # Unknown} /\ probes' = Probes(listed')
          /\ UNCHANGED <<baseline, warned, skipped>>
       \/ /\ scan = "listing" /\ scan' = "asked"
          /\ UNCHANGED <<probes, listed, baseline, rescans, warned, skipped>>
       \/ /\ scan = "listed" /\ scan' = "over"
          /\ listed' = {} /\ probes' = Probes(listed)
          /\ UNCHANGED <<baseline, rescans, warned, skipped>>
       \/ /\ scan = "over" /\ scan' = "none" /\ baseline' = FALSE
          /\ UNCHANGED <<probes, listed, rescans, warned, skipped>>
       \/ /\ scan = "failed" /\ scan' = "none" /\ listed' = {}
          /\ warned' = [f \in Files |-> warned[f] \cup {disk[f]}]
          /\ skipped' = (skipped \/ baseline)
          /\ UNCHANGED <<probes, baseline, rescans>>
    /\ UNCHANGED <<fingerprints, receipt, checking, prepared, inbox, served, own>>

\* The first command is read, again where a save has overtaken the reading, and checked.
AskRead ==
    /\ probes # <<>> /\ IsProbe(Head(probes))
    /\ receipt.phase = "none" \/ (receipt.phase = "ready" /\ receipt.stale)
    /\ receipt' = [NoReceipt EXCEPT !.phase = "asked"]
    /\ UNCHANGED <<probes, checking>>
DropRead == receipt.phase = "ready" /\ receipt.orphan /\ receipt' = NoReceipt
Check(command, seen, ok) ==
    checking' = [kind |-> command.kind, file |-> command.file, seen |-> seen, ok |-> ok,
                 phase |-> "queued", stale |-> FALSE]
SubmitCheck ==
    /\ probes # <<>> /\ probes' = Tail(probes)
    /\ \/ /\ IsProbe(Head(probes)) /\ receipt.phase = "ready" /\ ~receipt.stale /\ ~receipt.orphan
          /\ Check(Head(probes), receipt.seen, receipt.ok) /\ receipt' = NoReceipt
       \/ /\ ~IsProbe(Head(probes))
          /\ Check(Head(probes), Head(probes).hash, TRUE) /\ UNCHANGED receipt

Pump ==
    /\ FrameRuns
    /\ \/ TakeBatch /\ UNCHANGED records
       \/ /\ DropRead
          /\ UNCHANGED <<fingerprints, probes, scan, listed, baseline, rescans, checking, prepared,
                         inbox, records>>
       \/ /\ ~leaving /\ checking = NoCheck /\ prepared = NoChange
          /\ \/ Scan
             \/ /\ (AskRead \/ SubmitCheck)
                /\ UNCHANGED <<fingerprints, scan, listed, baseline, rescans, prepared, inbox,
                               records>>
    /\ UNCHANGED <<watchVars, dirty, loading, saving, leaving>>

\* The file service's answers: to a reading, to the listing.
AnswerRead ==
    /\ receipt.phase = "asked"
    /\ LET there == IF probes = <<>> THEN 0 ELSE disk[Head(probes).file]
       IN  \/ /\ receipt' = [receipt EXCEPT !.phase = "ready", !.seen = there, !.ok = (there # 0)]
              /\ UNCHANGED extras
           \/ /\ there # 0 /\ Extra
              /\ receipt' = [receipt EXCEPT !.phase = "ready", !.seen = there]
    /\ UNCHANGED <<scan, listed>>
AnswerList ==
    /\ scan = "asked"
    /\ \/ /\ ~leaving /\ scan' = "listed"
          /\ listed' = {f \in Files : disk[f] # 0} \ listed /\ UNCHANGED extras
       \/ leaving /\ scan' = "failed" /\ UNCHANGED <<listed, extras>>
       \/ ~leaving /\ Extra /\ scan' = "failed" /\ UNCHANGED listed
    /\ UNCHANGED receipt
FileAnswers ==
    /\ AnswerRead \/ AnswerList
    /\ UNCHANGED <<system, watcher, fingerprints, probes, baseline, rescans, checking, prepared,
                   editing, leaving, records>>

\* The monitor takes the content of a batch for known.
AcceptsApplied == checking.kind = "applied"
Accepts ==
    \/ checking.kind \in {"saved", "applied"}
    \/ checking.kind = "baseline" /\ checking.ok /\ fingerprints[checking.file] = Unknown

\* It takes a change for the baseline: the file has been served or saved as something else, and
\* nobody was told.
TakesForBaseline ==
    LET f == checking.file IN
    /\ checking.kind = "baseline" /\ served[f] # Unknown
    /\ checking.seen = disk[f] /\ disk[f] \notin {served[f]} \cup warned[f]

\* The task; one that has not begun is taken back when the service stops.
CheckTask ==
    LET f == checking.file
        differs == checking.kind = "probe" /\ (~checking.ok \/ fingerprints[f] # checking.seen)
    IN  /\ checking.phase = "queued"
        /\ \/ /\ fingerprints' = IF Accepts THEN [fingerprints EXCEPT ![f] = checking.seen]
                                 ELSE fingerprints
              /\ served' = IF checking.kind = "baseline" /\ served[f] = Unknown
                           THEN [served EXCEPT ![f] = checking.seen] ELSE served
              /\ skipped' = (skipped \/ TakesForBaseline)
              /\ checking' = [checking EXCEPT !.phase = "done",
                                              !.kind = IF differs THEN "changed" ELSE "checked"]
           \/ /\ leaving /\ checking' = [checking EXCEPT !.phase = "done", !.kind = "cancelled"]
              /\ UNCHANGED <<fingerprints, served, skipped>>
        /\ UNCHANGED <<watchVars, probes, receipt, scan, listed, baseline, rescans, prepared,
                       editing, leaving, warned, own>>

-----------------------------------------------------------------------------
(* The frame                                                                 *)

TakeEvents ==
    /\ FrameRuns /\ ~leaving
    /\ \/ /\ watched # <<>> /\ watched' = Tail(watched) /\ inbox' = Append(inbox, Head(watched))
          /\ UNCHANGED <<overrun, rescans>>
       \/ overrun /\ overrun' = FALSE /\ rescans' = TRUE /\ UNCHANGED <<watched, inbox>>
    /\ UNCHANGED <<system, extras, watching, watchFailed, fingerprints, probes, receipt, scan,
                   listed, baseline, checking, prepared, dirty, loading, saving, leaving, records>>

\* mark_applied, of the change the frame has last looked at.
Applied(change) == Enqueue(Command("applied", change.file, change.seen))

\* The frame looks at a change that was prepared for it.
Observe(change) ==
    LET mine == change.file = OpenFile IN
    /\ prepared' = NoChange
    /\ \/ /\ (dirty /\ mine) \/ ~change.ok
          /\ Warn(change.file, change.seen)
          /\ UNCHANGED <<extras, probes, rescans, loading, served>> /\ inbox' = Tail(inbox)
       \/ /\ ~(dirty /\ mine) /\ change.ok
          /\ \/ /\ mine /\ loading' = change
                /\ UNCHANGED <<extras, probes, rescans, served, warned>> /\ inbox' = Tail(inbox)
             \/ /\ ~mine /\ Applied(change)
                /\ served' = [served EXCEPT ![change.file] = change.seen]
                /\ UNCHANGED <<extras, loading, warned>> /\ inbox' = Tail(inbox)
             \/ /\ Extra /\ Warn(change.file, change.seen)
                /\ UNCHANGED <<probes, rescans, loading, served>> /\ inbox' = Tail(inbox)
             \* The loader is not ready: the event is looked at again.
             \/ /\ mine /\ Extra
                /\ UNCHANGED <<probes, rescans, loading, served, warned, inbox>>

\* An event without a change prepared for it asks for a probe.
Inspect ==
    /\ FrameRuns /\ ~leaving /\ inbox # <<>>
    /\ \/ /\ Head(inbox) = NoFile /\ inbox' = Tail(inbox)
          /\ rescans' = (rescans \/ ~watchFailed) /\ watchFailed' = TRUE
          /\ UNCHANGED <<extras, probes, prepared, loading, served, warned>>
       \/ /\ Head(inbox) = prepared.file /\ prepared # NoChange
          /\ Observe(prepared) /\ UNCHANGED watchFailed
       \/ /\ Head(inbox) # NoFile /\ Head(inbox) # prepared.file
          /\ Enqueue(Command("probe", Head(inbox), 0)) /\ inbox' = Tail(inbox)
          /\ UNCHANGED <<extras, watchFailed, prepared, loading, served, warned>>
    /\ UNCHANGED <<system, watched, overrun, watching, fingerprints, receipt, scan, listed,
                   baseline, checking, dirty, saving, leaving, own, skipped>>

\* The scene has been loaded again, or could not be.
EndLoad ==
    /\ ~leaving /\ loading # NoChange /\ loading' = NoChange
    /\ \/ /\ Applied(loading) /\ served' = [served EXCEPT ![loading.file] = loading.seen]
          /\ UNCHANGED <<extras, warned>>
       \/ Extra /\ Warn(loading.file, loading.seen) /\ UNCHANGED <<probes, rescans, served>>
    /\ UNCHANGED <<system, watcher, fingerprints, receipt, scan, listed, baseline, checking,
                   prepared, inbox, dirty, saving, leaving, own, skipped>>

-----------------------------------------------------------------------------
(* The user edits and saves; the write is the file service's.                *)

Edit ==
    /\ FrameRuns /\ ~leaving /\ Extra /\ dirty' = ~dirty
    /\ UNCHANGED <<system, watcher, service, inbox, loading, saving, leaving, records>>
BeginSave(f) ==
    /\ FrameRuns /\ ~leaving /\ writes < MaxWrites
    /\ saving' = [NoSave EXCEPT !.file = f, !.phase = "writing"]
    /\ UNCHANGED <<watchVars, service, inbox, dirty, loading, leaving, records>>
WriteSave ==
    /\ saving.phase = "writing"
    /\ \/ /\ Put(saving.file, NewContent) /\ UNCHANGED extras
          /\ saving' = [saving EXCEPT !.phase = "written", !.content = NewContent]
       \/ saving' = [saving EXCEPT !.phase = "failed"] /\ Extra /\ UNCHANGED system
    /\ UNCHANGED <<watcher, service, inbox, dirty, loading, leaving, records>>

\* acknowledge: what is known of the file is out of date, and so are the batch and the reading
\* in progress.
OutOfDate ==
    /\ prepared' = NoChange
    /\ receipt' = IF probes # <<>> /\ Head(probes).file = saving.file
                  THEN [receipt EXCEPT !.orphan = (receipt.phase # "none")]
                  ELSE [receipt EXCEPT !.stale = (receipt.phase # "none")]
    /\ checking' = [checking EXCEPT !.stale = (checking.phase # "none")]
\* The commands without those about f.
Without(f) ==
    LET kept[n \in 0 .. Len(probes)] ==
            IF n = 0 THEN <<>>
            ELSE IF probes[n].file = f THEN kept[n - 1] ELSE Append(kept[n - 1], probes[n])
    IN  kept[Len(probes)]
WithRoom(commands) ==
    LET probe == {i \in 1 .. Len(commands) : IsProbe(commands[i])}
    IN  IF Len(commands) < Commands \/ probe = {} THEN commands ELSE RemoveAt(commands, Min(probe))

\* Where there is no room but for what was saved or applied, the service refuses.
AcceptSave ==
    LET others == WithRoom(Without(saving.file))
        notes == ~leaving /\ Len(others) < Commands
    IN  /\ saving.phase = "written" /\ saving' = NoSave
        /\ OutOfDate
        /\ probes' = IF notes THEN Append(others, Command("saved", saving.file, saving.content))
                     ELSE others
        /\ rescans' = (rescans \/ ~leaving)
        /\ dirty' = (dirty /\ saving.file # OpenFile)
        /\ served' = [served EXCEPT ![saving.file] = saving.content]
        /\ own' = IF notes THEN [own EXCEPT ![saving.file] = @ \cup {saving.content}] ELSE own
        /\ UNCHANGED <<watchVars, fingerprints, scan, listed, baseline, inbox, loading, leaving,
                       warned, skipped>>
FailSave ==
    /\ saving.phase = "failed" /\ saving' = NoSave
    /\ UNCHANGED <<watchVars, service, inbox, dirty, loading, leaving, records>>

\* The panel: a scan; the watch is started again.
AuthorAsks ==
    /\ FrameRuns /\ ~leaving
    /\ \/ Extra /\ rescans' = TRUE /\ UNCHANGED <<system, watcher>>
       \/ watchFailed /\ Restart(TRUE) /\ rescans' = TRUE /\ UNCHANGED extras
       \/ Extra /\ Restart(TRUE) /\ rescans' = TRUE
       \/ Extra /\ Restart(FALSE) /\ UNCHANGED rescans
    /\ UNCHANGED <<fingerprints, probes, receipt, scan, listed, baseline, checking, prepared,
                   editing, leaving, records>>

\* request_stop
LeaveAuthor ==
    /\ ~leaving /\ Extra /\ leaving' = TRUE /\ probes' = <<>>
    /\ UNCHANGED <<system, watcher, fingerprints, receipt, scan, listed, baseline, rescans,
                   checking, prepared, editing, records>>
AuthorStopped ==
    leaving /\ receipt.phase # "asked" /\ scan # "asked" /\ checking.phase # "queued"

AuthorFrame == Pump \/ TakeEvents \/ Inspect \/ EndLoad \/ AcceptSave \/ FailSave
AuthorUser == Edit \/ AuthorAsks \/ LeaveAuthor \/ \E f \in Files : BeginSave(f)
AuthorSteps ==
    \/ AuthorFrame \/ CheckTask \/ FileAnswers \/ WriteSave \/ AuthorUser
    \/ ~leaving /\ (WatcherThread \/ \E f \in Files : Change(f)) /\ UNCHANGED authorVars

-----------------------------------------------------------------------------
(* Properties *)

\* Nothing is left to do, for the watcher, the frame or the service.
AuthorQuiet ==
    /\ raised = {} /\ watched = <<>> /\ ~overrun /\ inbox = <<>> /\ probes = <<>> /\ ~rescans
    /\ scan = "none" /\ receipt = NoReceipt /\ checking = NoCheck /\ prepared = NoChange
    /\ FrameRuns

\* Once everything has come to rest, the content of each file is the one the editor and the
\* runtime go by, or the user was told of it.  So no change is lost to a queue that overran, to
\* a watch that was started again, or to a save of the same file that overtook its reading or
\* its batch; except what was taken for the baseline.
ChangesNotMissed ==
    AuthorQuiet /\ Watches /\ ~leaving /\ ~skipped =>
        \A f \in Files :
            \/ disk[f] \in {served[f]} \cup warned[f]
            \/ (disk[f] = 0 /\ fingerprints[f] = Unknown)

\* What the editor saved itself is never prepared as a change of somebody else's, although the
\* file was being read, or its batch being checked, when the save was acknowledged; as long as
\* the service had room to take note of the save.
OwnSaveIsQuiet == prepared.ok => prepared.seen \notin own[prepared.file]

\* The service is at rest, or its stop has ended what was on its way.
AuthorSettled == IF leaving THEN AuthorStopped ELSE AuthorQuiet
=============================================================================
