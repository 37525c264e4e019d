------------------------------ MODULE FileWatcher ------------------------------
(***************************************************************************)
(* The files of a watched directory and the watcher over them               *)
(* (editor/asset_file_watcher.cpp): the system raises an event for a file    *)
(* that changes, the watcher's thread queues it, the editor's frame takes    *)
(* it.  The editor has two: over sources/ and over the asset directory.      *)
(*                                                                           *)
(* A content is the number of the write that made it, so that no two writes  *)
(* are alike; 0 is a file that is not there.  One flat directory stands for  *)
(* the tree.                                                                 *)
(***************************************************************************)
EXTENDS Naturals, Sequences, FiniteSets

CONSTANTS
    Files,          \* paths below the directory
    NoFile,         \* the path of an event that tells of an error
    MaxWrites,      \* bound: writes and removals
    MaxExtras,      \* bound: failures of the file system and orders of the user
    WatchCapacity   \* event_capacity

ASSUME WatcherAssumption ==
    /\ MaxWrites \in Nat /\ MaxExtras \in Nat /\ WatchCapacity \in Nat \ {0}
    /\ IsFiniteSet(Files) /\ NoFile \notin Files

Contents == 0 .. 2 + MaxWrites + MaxExtras

VARIABLES
    disk,       \* the content of each file
    writes, extras,   \* how many there have been
    raised,     \* files the system has an event for
    watched,    \* the watcher's events, oldest first
    overrun,    \* dropped_event_count() is not what the editor last saw
    watching,   \* whether the watcher runs; "broken" once it has reported an error
    watchFailed \* what the editor makes of it: asset_watch_failed, author_watch_result

system == <<disk, writes, raised>>
watcher == <<watched, overrun, watching, watchFailed>>
watchVars == <<system, extras, watcher>>

WatchInit(found, state) ==
    /\ disk \in found /\ writes = 0 /\ extras = 0
    /\ raised = {} /\ watched = <<>> /\ overrun = FALSE
    /\ watching = state /\ watchFailed = FALSE

-----------------------------------------------------------------------------
\* A program or the editor writes or removes f.  A watch that is broken may not see it.
Put(f, content) ==
    /\ writes' = writes + 1
    /\ disk' = [disk EXCEPT ![f] = content]
    /\ \/ watching # "stopped" /\ raised' = raised \cup {f}
       \/ watching # "running" /\ raised' = raised

NewContent == 3 + writes

Change(f) ==
    /\ writes < MaxWrites /\ watching # "stopped"
    /\ \/ Put(f, NewContent)
       \/ disk[f] # 0 /\ Put(f, 0)
    /\ UNCHANGED <<extras, watcher>>

\* Something of what is bounded happens.
Extra == extras < MaxExtras /\ extras' = extras + 1

\* emit: the oldest event makes room.
Emit(event) ==
    /\ watched' = Append(IF Len(watched) = WatchCapacity THEN Tail(watched) ELSE watched, event)
    /\ overrun' = (overrun \/ Len(watched) = WatchCapacity)

\* on_file_event
Notice(f) ==
    /\ f \in raised /\ raised' = raised \ {f}
    /\ Emit(f)
    /\ UNCHANGED <<disk, writes, extras, watching, watchFailed>>
WatchBreaks ==
    /\ watching = "running" /\ Extra
    /\ watching' = "broken"
    /\ Emit(NoFile)
    /\ UNCHANGED <<disk, writes, raised, watchFailed>>

\* stop, where it runs, and start: what the old watch has raised or queued is forgotten.
Restart(started) ==
    /\ watched' = <<>> /\ raised' = {}
    /\ watching' = IF started THEN "running" ELSE "stopped"
    /\ watchFailed' = ~started
    /\ UNCHANGED <<disk, writes, overrun>>

WatcherThread == WatchBreaks \/ \E f \in Files : Notice(f)

\* The watch sees every change.
Watches == watching = "running" /\ ~watchFailed
=============================================================================
