----------------------------- MODULE EditorAssets -----------------------------
(***************************************************************************)
(* The files of the editor: the file service (FileService) under any client, *)
(* the author assets that read through it (AuthorAssets) and the sources     *)
(* that are imported (SourceImport).  The two pipelines watch directories of *)
(* their own, run tasks of their own and meet in no variable, so a behaviour *)
(* is one of the three parts: the others stand still.                        *)
(***************************************************************************)
EXTENDS FileService, AuthorAssets, SourceImport

VARIABLE part

fileVars == <<part, vars, watchVars, authorVars, importVars>>

\* A client of the file service; the editor as the monitor of its open scene's directory
\* begins; the editor as it opens sources of which some were changed since they were imported (one source
\* is like another, so OpenFile has the least content).
PartInit ==
    \/ part = "client" /\ WatchInit({[f \in Files |-> 0]}, "stopped")
    \/ part = "author" /\ WatchInit({d \in [Files -> 0 .. 1] : d[OpenFile] = 1}, "running")
    \/ part = "import" /\ WatchInit({d \in [Files -> 0 .. 2] : \A f \in Files : d[OpenFile] <= d[f]},
                                    "stopped")
FilesInit == PartInit /\ Init /\ AuthorInit /\ ImportInit

IsClient == part = "client" /\ UNCHANGED <<part, watchVars, authorVars, importVars>>
IsAuthor == part = "author" /\ UNCHANGED <<part, vars, importVars>>
IsImport == part = "import" /\ UNCHANGED <<part, vars, authorVars>>

FilesNext ==
    \/ IsClient /\ Next
    \/ IsAuthor /\ AuthorSteps
    \/ IsImport /\ ImportSteps

\* What goes on by itself: the host's dispatch, the frames, the tasks and the threads of the
\* watcher and of the file service, and the backends.
Works ==
    \/ IsClient /\ (StartDispatch \/ Dispatch)
    \/ IsAuthor /\ (AuthorFrame \/ CheckTask \/ FileAnswers \/ WriteSave)
    \/ IsAuthor /\ WatcherThread /\ UNCHANGED authorVars
    \/ IsImport /\ (ImportTurn \/ ImportTask)
    \/ IsImport /\ WatcherThread /\ UNCHANGED importVars

\* Nobody is favoured: it is enough that the editor does not stand still, and that backends
\* complete what they took however often the host looks.
FilesFairness ==
    /\ WF_fileVars(Works)
    /\ WF_fileVars(IsClient /\ BackendThread)

FilesSpec == FilesInit /\ [][FilesNext]_fileVars /\ FilesFairness

-----------------------------------------------------------------------------
(* Properties *)

\* FileService's promises: cancel tells the truth, and the shutdown callback is the last.
FilesAreHonest == OutcomeIsHonest /\ ShutdownIsLast

\* Neither pipeline misses a change.
NothingMissed ==
    /\ part = "author" => ChangesNotMissed
    /\ part = "import" => SourcesNotMissed

\* Every call is called back in the end, whatever the readers answer; both pipelines come to
\* rest once nothing changes any more; and a shutdown or a stop always ends.
EverythingSettles ==
    []<>CASE part = "client" -> EveryCallIsBack
          [] part = "author" -> AuthorSettled
          [] part = "import" -> ImportsSettled
=============================================================================
