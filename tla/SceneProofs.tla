------------------------------ MODULE SceneProofs ------------------------------
(***************************************************************************)
(* Scenes: the service that loads them with the main loop around it, for   *)
(* every number of scenes, resources, assets, commands and edits, and then *)
(* the tree the nodes of one live in, for every set of objects.            *)
(***************************************************************************)
EXTENDS RuntimeHost, SceneStructure, SequenceTheorems, FiniteSetTheorems,
        WellFoundedInduction, TLAPS

(***************************************************************************)
(* Types                                                                   *)
(***************************************************************************)
Users == {"none", "visual", "reload", "assets", "edit"}
Groups ==
  [user : Users, state : {"none", "preparing", "applied", "failed", "cancelled"},
   left : 0 .. MaxItems, bad : BOOLEAN, item : {"none", "asked"} \cup Outcome]

\* A group that prepares has an item left to take.
HasWork(g) == g.state = "preparing" => g.left >= 1

GroupOK == group \in Groups /\ HasWork(group)

LoadOK ==
  load \in [request : 0 .. sequence,
            phase : {"none", "describing", "submitting", "preparing", "assets", "ready"},
            step : {"none", "reading", "queued"} \cup Outcome, cancelled : BOOLEAN,
            size : 0 .. MaxVisuals, todo : 0 .. MaxVisuals]

VisualsOK ==
  visuals \in [open : BOOLEAN, left : 0 .. MaxVisuals, pending : BOOLEAN,
               done : {"none", "applied", "failed", "cancelled"}]

\* Only a reload that asks for assets waits for one, and for one of those left.
ReloadOK ==
  /\ reload \in [phase : {"none", "describing", "assets", "done"},
                 step : {"none", "reading"} \cup Outcome, left : 0 .. MaxVisuals,
                 pending : BOOLEAN, result : {"none"} \cup Outcome]
  /\ reload.pending => reload.phase = "assets" /\ reload.left >= 1

ScenesOK ==
  /\ active \in 0 .. sequence /\ retired \in BOOLEAN /\ sequence \in 0 .. MaxScenes
  /\ completed \in {"none", "failed", "cancelled"}
  /\ stopping \in BOOLEAN /\ attached \in BOOLEAN

LEMMA ServiceSplit ==
  GroupOK /\ LoadOK /\ VisualsOK /\ ReloadOK /\ ScenesOK => ServiceTypeOK
BY DEF GroupOK, LoadOK, VisualsOK, ReloadOK, ScenesOK, ServiceTypeOK, Groups, Users

Entries == [command : 1 .. sent, kind : {"batch", "structure"}]

QueueOK ==
  /\ sent \in 0 .. MaxCommands /\ queue \in Seq(Entries) /\ Len(queue) <= MaxQueue
  /\ answer \in [Commands -> {"none", "applied", "failed", "cancelled"}]

FlagsOK ==
  /\ pc \in {"host", "visuals", "load", "reload", "answer"}
  /\ stage \in {"frame", "assets", "scene", "over"}
  /\ environment \in {"none", "reading", "read", "unreadable"}
  /\ waiting \in BOOLEAN /\ asked \in BOOLEAN /\ structural \in BOOLEAN /\ cancelling \in BOOLEAN
  /\ editing \in BOOLEAN /\ others \in BOOLEAN /\ closed \in BOOLEAN
  /\ edits \in 0 .. MaxEdits /\ exit \in {"none", "asked", "io", "refused"}

LoaderOK ==
  loader \in [busy : BOOLEAN, request : 0 .. sequence, told : {"none", "applied", "failed", "cancelled"}]

LEMMA TypeSplit ==
  GroupOK /\ LoadOK /\ VisualsOK /\ ReloadOK /\ ScenesOK /\ QueueOK /\ FlagsOK /\ LoaderOK => TypeOK
<1> SUFFICES ASSUME GroupOK, LoadOK, VisualsOK, ReloadOK, ScenesOK, QueueOK, FlagsOK, LoaderOK
             PROVE  TypeOK
    OBVIOUS
<1>1. ServiceTypeOK BY ServiceSplit
<1>2. /\ sent \in 0 .. MaxCommands /\ Len(queue) <= MaxQueue
      /\ answer \in [Commands -> {"none", "applied", "failed", "cancelled"}]
    BY DEF QueueOK
<1>3. \A i \in DOMAIN queue : queue[i] \in [command : 1 .. sent, kind : {"batch", "structure"}]
  <2>1. queue \in Seq(Entries) BY DEF QueueOK
  <2>2. DOMAIN queue = 1 .. Len(queue) /\ \A i \in 1 .. Len(queue) : queue[i] \in Entries BY <2>1
  <2> QED BY <2>2 DEF Entries
<1>4. {waiting, asked, structural, cancelling, editing, others, closed} \subseteq BOOLEAN
    BY DEF FlagsOK
<1> QED BY <1>1, <1>2, <1>3, <1>4 DEF FlagsOK, LoaderOK, TypeOK

(***************************************************************************)
(* The group                                                               *)
(***************************************************************************)
LEMMA ItemTaken ==
  ASSUME SceneAssumption, NEW g \in Groups, g.state = "preparing", HasWork(g), NEW ok \in BOOLEAN
  PROVE  AfterItem(g, ok) \in Groups /\ AfterItem(g, ok).user = g.user /\ HasWork(AfterItem(g, ok))
<1>1. g.left \in 0 .. MaxItems /\ g.left >= 1 BY DEF Groups, HasWork
<1>2. g.left - 1 \in 0 .. MaxItems BY <1>1 DEF SceneAssumption
<1>3. g.left > 1 => g.left - 1 >= 1 BY <1>1
<1> DEFINE bad == g.bad \/ ~ok
           state == IF g.left > 1 THEN "preparing" ELSE IF bad THEN "failed" ELSE "applied"
<1>4. AfterItem(g, ok) =
        [user |-> g.user, state |-> state, left |-> g.left - 1, bad |-> bad, item |-> "none"]
  <2>1. AfterItem(g, ok) = [g EXCEPT !.left = g.left - 1, !.bad = bad, !.item = "none", !.state = state]
      BY DEF AfterItem
  <2> HIDE DEF bad, state
  <2>2. g = [user |-> g.user, state |-> g.state, left |-> g.left, bad |-> g.bad, item |-> g.item]
      BY DEF Groups
  <2> QED BY <2>1, <2>2
<1>5. bad \in BOOLEAN BY DEF Groups
<1>6. g.user \in Users BY DEF Groups
<1>7. state \in {"none", "preparing", "applied", "failed", "cancelled"} OBVIOUS
<1> HIDE DEF bad, state
<1>8. AfterItem(g, ok) \in Groups BY <1>2, <1>4, <1>5, <1>6, <1>7 DEF Groups
<1>9. HasWork(AfterItem(g, ok)) BY <1>3, <1>4 DEF HasWork, state
<1> QED BY <1>4, <1>8, <1>9

LEMMA GroupAdvanced ==
  ASSUME SceneAssumption, NEW g \in Groups, HasWork(g), NEW h \in AfterAdvance(g)
  PROVE  h \in Groups /\ h.user = g.user /\ HasWork(h)
<1>1. CASE h = g BY <1>1
<1>2. CASE g.state = "preparing" /\ h = [g EXCEPT !.item = "asked"]
    BY <1>2 DEF Groups, HasWork
<1>3. CASE g.state = "preparing" /\ \E ok \in BOOLEAN : h = AfterItem(g, ok)
    BY <1>3, ItemTaken
<1>4. h = g \/ (g.state = "preparing" /\ h = [g EXCEPT !.item = "asked"])
        \/ (g.state = "preparing" /\ \E ok \in BOOLEAN : h = AfterItem(g, ok))
  <2>1. (g.item = "ok") \in BOOLEAN OBVIOUS
  <2> QED BY <2>1 DEF AfterAdvance
<1> QED BY <1>1, <1>2, <1>3, <1>4

LEMMA GroupMade ==
  ASSUME SceneAssumption, NEW user \in Users, NEW count \in 1 .. MaxItems
  PROVE  /\ Submitted(user, count) \in Groups /\ HasWork(Submitted(user, count))
         /\ Submitted(user, count).user = user
BY DEF Submitted, Groups, HasWork, SceneAssumption

LEMMA GroupGone ==
  ASSUME SceneAssumption PROVE NoGroup \in Groups /\ HasWork(NoGroup) /\ NoGroup.user = "none"
BY DEF NoGroup, Groups, HasWork, Users, SceneAssumption

LEMMA GroupCancelled ==
  ASSUME NEW g \in Groups, HasWork(g)
  PROVE  Cancelled(g) \in Groups /\ HasWork(Cancelled(g)) /\ Cancelled(g).user = g.user
BY DEF Cancelled, Groups, HasWork

(***************************************************************************)
(* The invariant                                                           *)
(***************************************************************************)
TypeInv ==
  /\ GroupOK /\ LoadOK /\ VisualsOK /\ ReloadOK /\ ScenesOK /\ QueueOK /\ FlagsOK /\ LoaderOK

\* Who waits for the group is who it works for.
UsersOK ==
  ~stopping =>
    /\ visuals.pending <=> Owns("visual")
    /\ reload.pending <=> Owns("reload")
    /\ asked <=> Owns("assets")
    /\ editing <=> Owns("edit")

\* The loader and the service speak of the same scene; a cancelled scene is
\* never ready when the loader looks at it, for the advance has just ended it;
\* and the service advances for an asset command only while there is one.
FlowOK ==
  /\ exit # "refused"
  /\ stage = "over" => pc = "host"
  /\ stopping => stage = "over"
  /\ loader.busy /\ load.phase # "none" => load.request = loader.request
  /\ stage = "scene" /\ pc \in {"reload", "answer"} => ~ (load.phase = "ready" /\ load.cancelled)
  /\ stage = "assets" /\ pc # "host" => queue # <<>>

HostInv == TypeInv /\ UsersOK /\ FlowOK

\* The parts of the type invariant that a step leaves alone.
LEMMA SameService == ASSUME TypeInv, UNCHANGED service
  PROVE GroupOK' /\ LoadOK' /\ VisualsOK' /\ ReloadOK' /\ ScenesOK'
BY DEF TypeInv, GroupOK, HasWork, LoadOK, VisualsOK, ReloadOK, ScenesOK, service

LEMMA SameGroup == ASSUME TypeInv, UNCHANGED group PROVE GroupOK'
BY DEF TypeInv, GroupOK, HasWork

LEMMA SameLoad == ASSUME TypeInv, UNCHANGED <<load, sequence>> PROVE LoadOK'
BY DEF TypeInv, LoadOK

LEMMA SameVisuals == ASSUME TypeInv, UNCHANGED visuals PROVE VisualsOK'
BY DEF TypeInv, VisualsOK

LEMMA SameReload == ASSUME TypeInv, UNCHANGED reload PROVE ReloadOK'
BY DEF TypeInv, ReloadOK

LEMMA SameScenes ==
  ASSUME TypeInv, UNCHANGED <<active, sequence, completed, stopping, attached>>,
         retired' \in BOOLEAN
  PROVE  ScenesOK'
BY DEF TypeInv, ScenesOK

LEMMA SameLoader == ASSUME TypeInv, UNCHANGED <<loader, sequence>> PROVE LoaderOK'
BY DEF TypeInv, LoaderOK

LEMMA SameQueue == ASSUME TypeInv, UNCHANGED <<queue, sent, answer>> PROVE QueueOK'
BY DEF TypeInv, QueueOK, Entries

LEMMA SameFlags ==
  ASSUME TypeInv, UNCHANGED hostVars, pc' \in {"host", "visuals", "load", "reload", "answer"}
  PROVE  FlagsOK' /\ QueueOK'
BY SameQueue DEF TypeInv, FlagsOK, hostVars

(***************************************************************************)
(* Commands                                                                *)
(***************************************************************************)
LEMMA RequestedSceneKeeps ==
  ASSUME HostInv, SceneAssumption, HostAssumption, RequestedScene PROVE HostInv'
<1> USE DEF RequestedScene, AtCommands, RequestScene, CancelVisuals
<1>1. TypeInv /\ UsersOK /\ FlowOK BY DEF HostInv
<1>2. GroupOK'
  <2>1. group \in Groups /\ HasWork(group) BY <1>1 DEF TypeInv, GroupOK
  <2>2. group' = Cancelled(group) \/ group' = group OBVIOUS
  <2> QED BY <2>1, <2>2, GroupCancelled DEF GroupOK
<1>3. sequence \in Nat /\ sequence' = sequence + 1 /\ sequence' \in 0 .. MaxScenes
    BY <1>1 DEF TypeInv, ScenesOK, CanRequestScene, SceneAssumption
<1>4. sequence' \in 0 .. sequence' BY <1>3
<1>4a. 0 \in 0 .. MaxVisuals BY DEF SceneAssumption
<1>5. LoadOK'
  <2>1. load' = [request |-> sequence', phase |-> "describing", step |-> "reading",
                 cancelled |-> FALSE, size |-> 0, todo |-> 0]
      BY DEF NoLoad
  <2>2. sequence' \in 0 .. sequence' BY <1>4
  <2>3. /\ "describing" \in {"none", "describing", "submitting", "preparing", "assets", "ready"}
        /\ "reading" \in {"none", "reading", "queued"} \cup Outcome /\ FALSE \in BOOLEAN
      OBVIOUS
  <2> HIDE DEF RequestScene, RequestedScene
  <2> QED BY <1>4a, <2>1, <2>2, <2>3 DEF LoadOK
<1>6. VisualsOK'
  <2>1. visuals \in [open : BOOLEAN, left : 0 .. MaxVisuals, pending : BOOLEAN,
                    done : {"none", "applied", "failed", "cancelled"}]
      BY <1>1 DEF TypeInv, VisualsOK
  <2>2. visuals' = [visuals EXCEPT !.open = FALSE, !.left = 0] OBVIOUS
  <2> QED BY <1>4a, <2>1, <2>2 DEF VisualsOK
<1>7. ReloadOK' BY <1>1, SameReload
<1>8. ScenesOK'
  <2>1. active \in 0 .. sequence' BY <1>1, <1>3 DEF TypeInv, ScenesOK
  <2> QED BY <1>1, <1>3, <2>1 DEF TypeInv, ScenesOK
<1>9. QueueOK' BY <1>1, SameQueue
<1>10. FlagsOK' BY <1>1 DEF TypeInv, FlagsOK
<1>11. LoaderOK' BY <1>4 DEF LoaderOK
<1>12. UsersOK'
  <2>1. group'.user = group.user
    <3>1. group \in Groups /\ HasWork(group) BY <1>1 DEF TypeInv, GroupOK
    <3>2. group' = Cancelled(group) \/ group' = group OBVIOUS
    <3> QED BY <3>1, <3>2, GroupCancelled
  <2>2. visuals'.pending = visuals.pending BY <1>1 DEF TypeInv, VisualsOK
  <2> QED BY <1>1, <2>1, <2>2 DEF UsersOK, Owns
<1>13. FlowOK' BY <1>1, <1>3 DEF FlowOK, NoLoad
<1> QED BY <1>2, <1>5, <1>6, <1>7, <1>8, <1>9, <1>10, <1>11, <1>12, <1>13 DEF HostInv, TypeInv

LEMMA CancelledSceneKeeps ==
  ASSUME HostInv, SceneAssumption, HostAssumption, CancelledScene PROVE HostInv'
<1> USE DEF CancelledScene, AtCommands, CancelScene
<1>1. TypeInv /\ UsersOK /\ FlowOK BY DEF HostInv
<1>2. GroupOK' /\ VisualsOK' /\ ReloadOK' BY <1>1, SameGroup, SameVisuals, SameReload
<1>3. LoadOK' BY <1>1 DEF TypeInv, LoadOK
<1>4. ScenesOK' BY <1>1 DEF TypeInv, ScenesOK
<1>5. QueueOK' /\ FlagsOK' /\ LoaderOK' BY <1>1, SameFlags, SameLoader DEF hostVars, TypeInv, FlagsOK
<1>6. UsersOK' BY <1>1 DEF UsersOK, Owns, hostVars
<1>7. FlowOK' BY <1>1 DEF FlowOK, hostVars, TypeInv, LoadOK
<1> QED BY <1>2, <1>3, <1>4, <1>5, <1>6, <1>7 DEF HostInv, TypeInv

LEMMA AssetCommandKeeps ==
  ASSUME HostInv, SceneAssumption, HostAssumption, NEW kind \in {"batch", "structure"},
         AssetCommand(kind)
  PROVE  HostInv'
<1>1. TypeInv /\ UsersOK /\ FlowOK BY DEF HostInv
<1>2. UNCHANGED <<service, pc, stage, environment, loader, waiting, asked, structural, cancelling,
                  edits, editing, exit, others, closed>>
    BY DEF AssetCommand
<1>3. GroupOK' /\ LoadOK' /\ VisualsOK' /\ ReloadOK' /\ ScenesOK' BY <1>1, <1>2, SameService
<1>4. FlagsOK' BY <1>1, <1>2 DEF TypeInv, FlagsOK
<1>5. LoaderOK' BY <1>1, <1>2, SameLoader DEF service
<1>6. UsersOK' BY <1>1, <1>2 DEF UsersOK, Owns, service
<1>7. FlowOK' BY <1>1, <1>2 DEF FlowOK, service, AssetCommand, AtCommands
<1>8. sent \in Nat /\ sent' = sent + 1 /\ sent' \in Commands /\ sent' \in 0 .. MaxCommands
    BY <1>1 DEF TypeInv, QueueOK, AssetCommand, Commands, HostAssumption
<1>9. QueueOK'
  <2>1. queue \in Seq(Entries) /\ Len(queue) <= MaxQueue
        /\ answer \in [Commands -> {"none", "applied", "failed", "cancelled"}]
      BY <1>1 DEF TypeInv, QueueOK
  <2>2. Entries \subseteq Entries' BY <1>8 DEF Entries
  <2>3. queue \in Seq(Entries') BY <2>1, <2>2
  <2>4. CASE IsFull
    <3>1. answer' = [answer EXCEPT ![sent'] = "failed"] /\ queue' = queue
        BY <2>4 DEF AssetCommand
    <3> QED BY <1>8, <2>1, <2>3, <3>1 DEF QueueOK
  <2>5. CASE ~IsFull
    <3> DEFINE e == [command |-> sent', kind |-> kind]
    <3>1. queue' = Append(queue, e) /\ answer' = answer BY <2>5 DEF AssetCommand
    <3>2. e \in Entries' BY <1>8 DEF Entries, Commands
    <3> HIDE DEF e
    <3>3. queue' \in Seq(Entries') /\ Len(queue') = Len(queue) + 1 BY <2>3, <3>1, <3>2
    <3>4. Len(queue) \in Nat BY <2>1
    <3>5. Len(queue') <= MaxQueue BY <2>5, <3>3, <3>4 DEF IsFull, HostAssumption
    <3> QED BY <1>8, <2>1, <3>1, <3>3, <3>5 DEF QueueOK
  <2> QED BY <2>4, <2>5
<1> QED BY <1>3, <1>4, <1>5, <1>6, <1>7, <1>9 DEF HostInv, TypeInv

LEMMA CancelledAssetsKeeps ==
  ASSUME HostInv, SceneAssumption, HostAssumption, CancelledAssets PROVE HostInv'
<1> USE DEF CancelledAssets, AtCommands
<1>1. TypeInv /\ UsersOK /\ FlowOK BY DEF HostInv
<1>2. group \in Groups /\ HasWork(group) BY <1>1 DEF TypeInv, GroupOK
<1>3. GroupOK' /\ group'.user = group.user BY <1>2, GroupCancelled DEF GroupOK
<1>4. LoadOK' /\ VisualsOK' /\ ReloadOK' /\ ScenesOK' /\ QueueOK' /\ LoaderOK'
    BY <1>1, SameLoad, SameVisuals, SameReload, SameScenes, SameQueue, SameLoader DEF TypeInv, ScenesOK
<1>5. FlagsOK' BY <1>1 DEF TypeInv, FlagsOK
<1>6. UsersOK' BY <1>1, <1>3 DEF UsersOK, Owns
<1>7. FlowOK' BY <1>1 DEF FlowOK
<1> QED BY <1>3, <1>4, <1>5, <1>6, <1>7 DEF HostInv, TypeInv

(* An edit is the user of the group from when it prepares to when it has ended. *)
LEMMA EditKeeps ==
  ASSUME HostInv, SceneAssumption, HostAssumption, EditPrepares \/ EditPolls \/ EditDiscards
  PROVE  HostInv'
<1>1. TypeInv /\ UsersOK /\ FlowOK BY DEF HostInv
<1>2. /\ UNCHANGED <<active, retired, sequence, load, completed, visuals, reload, stopping, attached,
                     pc, stage, environment, loader, queue, sent, waiting, asked, structural,
                     cancelling, answer, exit, others, closed>>
      /\ AtCommands
    BY DEF EditPrepares, EditPolls, EditDiscards, Edit
<1>3. /\ LoadOK' /\ VisualsOK' /\ ReloadOK' /\ ScenesOK' /\ QueueOK' /\ LoaderOK'
    BY <1>1, <1>2, SameLoad, SameVisuals, SameReload, SameScenes, SameQueue, SameLoader
       DEF TypeInv, ScenesOK
<1>4. FlowOK' BY <1>1, <1>2 DEF FlowOK
<1>5. group \in Groups /\ HasWork(group) BY <1>1 DEF TypeInv, GroupOK
<1>6. ~stopping BY <1>1, <1>2 DEF FlowOK, AtCommands
<1>7. ASSUME GroupOK', editing' \in BOOLEAN, edits' \in 0 .. MaxEdits, UsersOK' PROVE HostInv'
  <2>1. FlagsOK' BY <1>1, <1>2, <1>7 DEF TypeInv, FlagsOK
  <2> QED BY <1>3, <1>4, <1>7, <2>1 DEF HostInv, TypeInv
<1>8. edits \in 0 .. MaxEdits BY <1>1 DEF TypeInv, FlagsOK
<1>9. CASE EditPrepares
  <2>1. edits' = edits + 1 /\ edits < MaxEdits /\ editing' = TRUE /\ Begins("edit") /\ ~IsBusy
      BY <1>9 DEF EditPrepares, Edit, MayPrepare, CanSubmit
  <2>2. edits' \in 0 .. MaxEdits BY <1>8, <2>1 DEF HostAssumption
  <2>3. group' \in Groups /\ HasWork(group') /\ group'.user = "edit"
    <3>1. "edit" \in Users BY DEF Users
    <3> QED BY <2>1, <3>1, GroupMade DEF Begins
  <2>4. UsersOK' BY <1>1, <1>2, <1>6, <2>1, <2>3 DEF UsersOK, Owns, IsBusy
  <2>5. GroupOK' BY <2>3 DEF GroupOK, HasWork
  <2> QED BY <1>7, <2>1, <2>2, <2>4, <2>5
<1>10. CASE EditPolls
  <2>1. PICK g \in AfterAdvance(group) :
            IF Owns("edit") /\ HasEnded(g)
            THEN group' = NoGroup /\ editing' = FALSE
            ELSE group' = (IF Owns("edit") THEN g ELSE group) /\ UNCHANGED editing
      BY <1>10 DEF EditPolls, Edit
  <2>2. editing /\ edits' = edits BY <1>10 DEF EditPolls, Edit
  <2>3. group.user = "edit" BY <1>1, <1>6, <2>2 DEF UsersOK, Owns
  <2>4. g \in Groups /\ HasWork(g) /\ g.user = "edit" BY <1>5, <2>3, GroupAdvanced
  <2>5. CASE HasEnded(g)
    <3>1. group' = NoGroup /\ editing' = FALSE BY <2>1, <2>3, <2>5 DEF Owns
    <3>2. GroupOK' /\ group'.user = "none" BY <3>1, GroupGone DEF GroupOK, HasWork
    <3>3. UsersOK' BY <1>1, <1>2, <1>6, <2>3, <3>1, <3>2 DEF UsersOK, Owns
    <3> QED BY <1>7, <1>8, <2>2, <3>1, <3>2, <3>3
  <2>6. CASE ~HasEnded(g)
    <3>1. group' = g /\ editing' = editing BY <2>1, <2>3, <2>6 DEF Owns
    <3>2. GroupOK' /\ group'.user = "edit" BY <2>4, <3>1 DEF GroupOK, HasWork
    <3>3. UsersOK' BY <1>1, <1>2, <1>6, <2>3, <3>1, <3>2 DEF UsersOK, Owns
    <3>4. editing' \in BOOLEAN BY <2>2, <3>1
    <3> QED BY <1>7, <1>8, <2>2, <3>2, <3>3, <3>4
  <2> QED BY <2>5, <2>6
<1>11. CASE EditDiscards
  <2>1. editing /\ Discard("edit") /\ editing' = FALSE /\ edits' = edits
      BY <1>11 DEF EditDiscards, Edit
  <2>2. group.user = "edit" BY <1>1, <1>6, <2>1 DEF UsersOK, Owns
  <2>3. group' = NoGroup BY <2>1, <2>2 DEF Discard, Owns
  <2>4. GroupOK' /\ group'.user = "none" BY <2>3, GroupGone DEF GroupOK, HasWork
  <2>5. UsersOK' BY <1>1, <1>2, <1>6, <2>1, <2>2, <2>4 DEF UsersOK, Owns
  <2> QED BY <1>7, <1>8, <2>1, <2>4, <2>5
<1> QED BY <1>9, <1>10, <1>11

(***************************************************************************)
(* The frame, but for the service's own work                               *)
(***************************************************************************)
(* Steps of the host alone.                                                    *)
LEMMA HostStepKeeps ==
  ASSUME HostInv, SceneAssumption, HostAssumption, UNCHANGED <<service, pc, loader, asked, editing, edits>>,
         QueueOK', UNCHANGED queue \/ pc = "host",
         stage' \in {"frame", "assets", "scene"} \/ (stage' = "over" /\ pc = "host"),
         stage' = stage \/ pc = "host",
         stopping => stage' = "over",
         environment' \in {"none", "reading", "read", "unreadable"},
         waiting' \in BOOLEAN, structural' \in BOOLEAN, cancelling' \in BOOLEAN,
         others' \in BOOLEAN, closed' \in BOOLEAN, exit' \in {"none", "asked", "io"}
  PROVE  HostInv'
<1>1. TypeInv /\ UsersOK /\ FlowOK BY DEF HostInv
<1>2. GroupOK' /\ LoadOK' /\ VisualsOK' /\ ReloadOK' /\ ScenesOK' BY <1>1, SameService
<1>3. LoaderOK' BY <1>1, SameLoader DEF service
<1>4. FlagsOK' BY <1>1 DEF TypeInv, FlagsOK
<1>5. UsersOK' BY <1>1 DEF UsersOK, Owns, service
<1>6. FlowOK' BY <1>1 DEF FlowOK, service
<1> QED BY <1>2, <1>3, <1>4, <1>5, <1>6 DEF HostInv, TypeInv

LEMMA Flags ==
  ASSUME HostInv
  PROVE  /\ environment \in {"none", "reading", "read", "unreadable"}
         /\ waiting \in BOOLEAN /\ structural \in BOOLEAN /\ cancelling \in BOOLEAN
         /\ asked \in BOOLEAN /\ editing \in BOOLEAN
         /\ others \in BOOLEAN /\ closed \in BOOLEAN /\ exit \in {"none", "asked", "io"}
         /\ stopping \in BOOLEAN /\ edits \in 0 .. MaxEdits
         /\ stage \in {"frame", "assets", "scene", "over"}
         /\ stopping => stage = "over"
         /\ stage = "over" => pc = "host"
         /\ (ResourceIo => environment' \in {"none", "reading", "read", "unreadable"})
BY DEF HostInv, TypeInv, FlagsOK, ScenesOK, FlowOK, ResourceIo

LEMMA PlainFrameKeeps ==
  ASSUME HostInv, SceneAssumption, HostAssumption,
         BeginFrame \/ RequestExit \/ SkipAssets \/ ReadEnvironment
  PROVE  HostInv'
<1>1. TypeInv BY DEF HostInv
<1>2. QueueOK'
  <2>1. UNCHANGED <<queue, sent, answer>>
      BY DEF BeginFrame, RequestExit, SkipAssets, ReadEnvironment
  <2> QED BY <1>1, <2>1, SameQueue
<1>3. CASE BeginFrame
    BY <1>2, <1>3, Flags, HostStepKeeps DEF BeginFrame, AtCommands, Stops
<1>4. CASE RequestExit
    BY <1>2, <1>4, Flags, HostStepKeeps DEF RequestExit, AtCommands, Stops
<1>5. CASE SkipAssets
    BY <1>2, <1>5, Flags, HostStepKeeps DEF SkipAssets, AtAssets
<1>6. CASE ReadEnvironment
    BY <1>2, <1>6, Flags, HostStepKeeps DEF ReadEnvironment
<1> QED BY <1>3, <1>4, <1>5, <1>6

(* The head of the queue is told and leaves.                                   *)
LEMMA AnsweredKeeps ==
  ASSUME TypeInv, HostAssumption, queue # <<>>, NEW how \in {"applied", "failed"}, Answered(how),
         sent' = sent
  PROVE  QueueOK' /\ waiting' = FALSE /\ cancelling' = FALSE
<1>1. queue \in Seq(Entries) /\ Len(queue) <= MaxQueue /\ sent \in 0 .. MaxCommands
      /\ answer \in [Commands -> {"none", "applied", "failed", "cancelled"}]
    BY DEF TypeInv, QueueOK
<1>2. Tail(queue) \in Seq(Entries) /\ Len(Tail(queue)) = Len(queue) - 1 /\ Len(queue) \in Nat
      /\ Head(queue) \in Entries
    BY <1>1
<1>3. queue' = Tail(queue) BY DEF Answered
<1>4. Len(queue') <= MaxQueue BY <1>1, <1>2, <1>3 DEF HostAssumption
<1>5. answer' \in [Commands -> {"none", "applied", "failed", "cancelled"}]
    BY <1>1 DEF Answered
<1>6. queue' \in Seq(Entries)' BY <1>2, <1>3 DEF Entries
<1> QED BY <1>1, <1>4, <1>5, <1>6 DEF QueueOK, Answered

LEMMA ExecuteAssetsKeeps ==
  ASSUME HostInv, SceneAssumption, HostAssumption, ExecuteAssets PROVE HostInv'
<1>1. TypeInv /\ UsersOK /\ FlowOK BY DEF HostInv
<1>2. /\ AtAssets /\ CanWorkOnAssets /\ queue # <<>> /\ stage' = "scene" /\ ~stopping /\ pc = "host"
      /\ UNCHANGED <<pc, environment, loader, sent, edits, editing, exit, others, closed>>
    BY <1>1 DEF ExecuteAssets, AtAssets, CanWorkOnAssets, FlowOK
<1>3. CASE /\ Head(queue).kind = "batch" /\ CanRequestAssets
           /\ Begins("assets")
           /\ asked' = TRUE /\ waiting' = TRUE
           /\ UNCHANGED <<active, retired, sequence, load, completed, visuals, reload, stopping,
                          attached, queue, structural, cancelling, answer>>
  <2>1. LoadOK' /\ VisualsOK' /\ ReloadOK' /\ ScenesOK' /\ QueueOK' /\ LoaderOK'
      BY <1>1, <1>2, <1>3, SameLoad, SameVisuals, SameReload, SameScenes, SameQueue, SameLoader
         DEF TypeInv, ScenesOK
  <2>2. group' \in Groups /\ HasWork(group') /\ group'.user = "assets"
    <3>1. "assets" \in Users BY DEF Users
    <3> QED BY <1>3, <3>1, GroupMade DEF Begins
  <2>3. GroupOK' BY <2>2 DEF GroupOK, HasWork
  <2>4. ~IsBusy BY <1>3 DEF CanRequestAssets
  <2>5. UsersOK' BY <1>1, <1>2, <1>3, <2>2, <2>4 DEF UsersOK, Owns, IsBusy
  <2>6. FlagsOK' BY <1>1, <1>2, <1>3 DEF TypeInv, FlagsOK
  <2>7. FlowOK' BY <1>1, <1>2, <1>3 DEF FlowOK
  <2> QED BY <2>1, <2>3, <2>5, <2>6, <2>7 DEF HostInv, TypeInv
<1>4. CASE /\ Head(queue).kind = "structure" /\ CanReload
           /\ RequestReload
           /\ structural' = TRUE /\ waiting' = TRUE
           /\ UNCHANGED <<queue, asked, cancelling, answer>>
  <2>1. GroupOK' /\ LoadOK' /\ VisualsOK' /\ ScenesOK' /\ QueueOK' /\ LoaderOK'
      BY <1>1, <1>2, <1>4, SameGroup, SameLoad, SameVisuals, SameScenes, SameQueue, SameLoader
         DEF TypeInv, ScenesOK, RequestReload
  <2>2. reload' = [phase |-> "describing", step |-> "reading", left |-> 0, pending |-> FALSE,
                   result |-> "none"]
      BY <1>4 DEF RequestReload, NoReload
  <2>3. ReloadOK' BY <2>2 DEF ReloadOK, SceneAssumption
  <2>4. ~IsBusy /\ group' = group /\ visuals' = visuals /\ load' = load /\ stopping' = stopping
      BY <1>4 DEF CanReload, RequestReload
  <2>5. UsersOK' BY <1>1, <1>2, <1>4, <2>2, <2>4 DEF UsersOK, Owns, IsBusy
  <2>6. FlagsOK' BY <1>1, <1>2, <1>4 DEF TypeInv, FlagsOK
  <2>7. FlowOK' BY <1>1, <1>2, <1>4, <2>4 DEF FlowOK
  <2> QED BY <2>1, <2>3, <2>5, <2>6, <2>7 DEF HostInv, TypeInv
<1>5. CASE Answered("failed") /\ UNCHANGED <<service, asked, structural>>
  <2>1. QueueOK' /\ waiting' = FALSE /\ cancelling' = FALSE
      BY <1>1, <1>2, <1>5, AnsweredKeeps
  <2> QED BY <1>2, <1>5, <2>1, Flags, HostStepKeeps
<1> QED BY <1>3, <1>4, <1>5 DEF ExecuteAssets

LEMMA IoFailsReloadKeeps ==
  ASSUME HostInv, SceneAssumption, HostAssumption, IoFailsReload PROVE HostInv'
<1>1. TypeInv /\ FlowOK BY DEF HostInv
<1>2. /\ queue # <<>> /\ stage' = "scene" /\ ~stopping /\ Answered("failed") /\ ResourceIo /\ pc = "host"
      /\ structural' = FALSE
      /\ UNCHANGED <<service, pc, loader, sent, asked, edits, editing, exit, others, closed>>
    BY <1>1 DEF IoFailsReload, AtAssets, CanWorkOnAssets, FlowOK
<1>3. QueueOK' /\ waiting' = FALSE /\ cancelling' = FALSE BY <1>1, <1>2, AnsweredKeeps
<1> QED BY <1>2, <1>3, Flags, HostStepKeeps

LEMMA IoFailsBatchKeeps ==
  ASSUME HostInv, SceneAssumption, HostAssumption, IoFailsBatch PROVE HostInv'
<1>1. TypeInv /\ UsersOK /\ FlowOK BY DEF HostInv
<1>2. /\ stage = "assets" /\ ResourceIo /\ pc' = "answer"
      /\ UNCHANGED <<service, stage, loader, queue, sent, waiting, asked, structural, cancelling,
                     answer, edits, editing, exit, others, closed>>
    BY DEF IoFailsBatch, AtAssets
<1>3. GroupOK' /\ LoadOK' /\ VisualsOK' /\ ReloadOK' /\ ScenesOK' /\ LoaderOK' /\ QueueOK'
    BY <1>1, <1>2, SameService, SameLoader, SameQueue DEF service
<1>4. FlagsOK' BY <1>1, <1>2, Flags DEF TypeInv, FlagsOK
<1>5. UsersOK' BY <1>1, <1>2 DEF UsersOK, Owns, service
<1>6. FlowOK' BY <1>1, <1>2 DEF FlowOK, service, IoFailsBatch, CanWorkOnAssets
<1> QED BY <1>3, <1>4, <1>5, <1>6 DEF HostInv, TypeInv

LEMMA BeginAdvanceKeeps ==
  ASSUME HostInv, SceneAssumption, HostAssumption,
         AdvanceForAssets \/ (AdvanceForScene /\ ~ResourceIoFails)
  PROVE  HostInv'
<1>1. TypeInv /\ UsersOK /\ FlowOK BY DEF HostInv
<1>2. /\ stage \in {"assets", "scene"} /\ ResourceIo /\ Advances
      /\ stage = "assets" => queue # <<>>
      /\ UNCHANGED <<stage, loader, queue, sent, waiting, asked, structural, cancelling, answer,
                     edits, editing, exit, others, closed>>
    BY DEF AdvanceForAssets, AdvanceForScene, AtAssets, AtScene, CanWorkOnAssets
<1>3. /\ retired' = FALSE /\ pc' = "visuals"
      /\ UNCHANGED <<group, active, sequence, load, completed, visuals, reload, stopping, attached>>
    BY <1>2 DEF Advances, BeginAdvance
<1>4. GroupOK' /\ LoadOK' /\ VisualsOK' /\ ReloadOK' /\ ScenesOK' /\ LoaderOK' /\ QueueOK'
    BY <1>1, <1>2, <1>3, SameGroup, SameLoad, SameVisuals, SameReload, SameScenes, SameLoader,
       SameQueue
<1>5. FlagsOK' BY <1>1, <1>2, <1>3, Flags DEF TypeInv, FlagsOK
<1>6. UsersOK' BY <1>1, <1>2, <1>3 DEF UsersOK, Owns
<1>7. FlowOK' BY <1>1, <1>2, <1>3 DEF FlowOK
<1> QED BY <1>4, <1>5, <1>6, <1>7 DEF HostInv, TypeInv

LEMMA SceneIoFailsKeeps ==
  ASSUME HostInv, SceneAssumption, HostAssumption, AdvanceForScene, ResourceIoFails
  PROVE  HostInv'
<1>1. TypeInv BY DEF HostInv
<1>2. /\ pc = "host" /\ ResourceIo /\ exit' = "io" /\ stage' = "over"
      /\ UNCHANGED <<service, pc, loader, queue, sent, waiting, asked, structural, cancelling,
                     answer, edits, editing, others, closed>>
    BY DEF AdvanceForScene, AtScene, Stops
<1>3. QueueOK' BY <1>1, <1>2, SameQueue
<1> QED BY <1>2, <1>3, Flags, HostStepKeeps

(***************************************************************************)
(* The advance of the service                                              *)
(***************************************************************************)
LEMMA AdvanceVisualsKeeps ==
  ASSUME HostInv, SceneAssumption, HostAssumption, AdvanceVisuals, UNCHANGED hostVars
  PROVE  HostInv'
<1>1. TypeInv /\ UsersOK /\ FlowOK BY DEF HostInv
<1>2. /\ pc = "visuals" /\ pc' = "load"
      /\ UNCHANGED <<active, retired, sequence, load, completed, reload, stopping, attached>>
    BY DEF AdvanceVisuals
<1>3. LoadOK' /\ ReloadOK' /\ ScenesOK' /\ LoaderOK' /\ QueueOK' /\ FlagsOK'
    BY <1>1, <1>2, SameLoad, SameReload, SameScenes, SameLoader, SameFlags
       DEF hostVars, TypeInv, ScenesOK
<1>4. FlowOK' BY <1>1, <1>2 DEF FlowOK, hostVars
<1>5. /\ visuals \in [open : BOOLEAN, left : 0 .. MaxVisuals, pending : BOOLEAN,
                      done : {"none", "applied", "failed", "cancelled"}]
      /\ group \in Groups /\ HasWork(group)
    BY <1>1 DEF TypeInv, GroupOK, VisualsOK
<1>6. ~stopping BY <1>1, <1>2 DEF FlowOK
<1>7. asked' = asked /\ editing' = editing BY DEF hostVars
<1>8. SUFFICES GroupOK' /\ VisualsOK' /\ UsersOK' BY <1>3, <1>4 DEF HostInv, TypeInv
<1>9. CASE UNCHANGED <<group, visuals>>
    BY <1>1, <1>2, <1>7, <1>9, SameGroup, SameVisuals DEF UsersOK, Owns
<1>10. CASE visuals.pending /\ TakeVisual
  <2>1. group.user = "visual" BY <1>1, <1>6, <1>10 DEF UsersOK, Owns
  <2>2. PICK g \in AfterAdvance(group) :
          IF HasEnded(g)
          THEN group' = NoGroup /\ visuals' = [visuals EXCEPT !.pending = FALSE, !.done = g.state]
          ELSE group' = g /\ UNCHANGED visuals
      BY <1>10 DEF TakeVisual
  <2>3. g \in Groups /\ HasWork(g) /\ g.user = "visual" BY <1>5, <2>1, GroupAdvanced
  <2>4. CASE HasEnded(g)
    <3>1. group' = NoGroup /\ visuals' = [visuals EXCEPT !.pending = FALSE, !.done = g.state]
        BY <2>2, <2>4
    <3>2. GroupOK' /\ group'.user = "none" BY <3>1, GroupGone DEF GroupOK, HasWork
    <3>3. VisualsOK' /\ visuals'.pending = FALSE BY <1>5, <2>4, <3>1 DEF VisualsOK, HasEnded
    <3>4. UsersOK' BY <1>1, <1>2, <1>6, <1>7, <2>1, <3>2, <3>3 DEF UsersOK, Owns
    <3> QED BY <3>2, <3>3, <3>4
  <2>5. CASE ~HasEnded(g)
    <3>1. group' = g /\ visuals' = visuals BY <2>2, <2>5
    <3>2. GroupOK' BY <2>3, <3>1 DEF GroupOK, HasWork
    <3>3. UsersOK' BY <1>1, <1>2, <1>6, <1>7, <2>1, <2>3, <3>1 DEF UsersOK, Owns
    <3> QED BY <1>1, <3>1, <3>2, <3>3, SameVisuals
  <2> QED BY <2>4, <2>5
<1>11. CASE visuals' = [visuals EXCEPT !.open = FALSE] /\ UNCHANGED group
  <2>1. VisualsOK' /\ visuals'.pending = visuals.pending BY <1>5, <1>11 DEF VisualsOK
  <2>2. UsersOK' BY <1>1, <1>2, <1>7, <1>11, <2>1 DEF UsersOK, Owns
  <2> QED BY <1>1, <1>11, <2>1, <2>2, SameGroup
<1>12. CASE /\ visuals.left # 0 /\ CanSubmit
            /\ group' = Submitted("visual", 1)
            /\ visuals' = [visuals EXCEPT !.pending = TRUE, !.left = @ - 1]
  <2>1. visuals.left - 1 \in 0 .. MaxVisuals BY <1>5, <1>12 DEF SceneAssumption
  <2>2. visuals' = [visuals EXCEPT !.pending = TRUE, !.left = visuals.left - 1] BY <1>12
  <2>3. VisualsOK' /\ visuals'.pending BY <1>5, <2>1, <2>2 DEF VisualsOK
  <2>4. group' \in Groups /\ HasWork(group') /\ group'.user = "visual"
    <3>1. "visual" \in Users /\ 1 \in 1 .. MaxItems BY DEF Users, SceneAssumption
    <3> QED BY <1>12, <3>1, GroupMade
  <2>5. GroupOK' BY <2>4 DEF GroupOK, HasWork
  <2>6. UsersOK' BY <1>1, <1>2, <1>6, <1>7, <1>12, <2>3, <2>4 DEF UsersOK, Owns, CanSubmit, IsBusy
  <2> QED BY <2>3, <2>5, <2>6
<1> QED BY <1>9, <1>10, <1>11, <1>12 DEF AdvanceVisuals

(* The load goes on; a load that is ready has not been cancelled.              *)
LEMMA LoadAdvanced ==
  ASSUME TypeInv, SceneAssumption, AdvanceLoad,
         UNCHANGED <<active, retired, sequence, stopping, attached>>
  PROVE  /\ LoadOK' /\ ScenesOK'
         /\ load'.phase # "none" => load.phase # "none" /\ load'.request = load.request
         /\ ~ (load'.phase = "ready" /\ load'.cancelled)
<1>1. load \in [request : 0 .. sequence,
            phase : {"none", "describing", "submitting", "preparing", "assets", "ready"},
            step : {"none", "reading", "queued"} \cup Outcome, cancelled : BOOLEAN,
            size : 0 .. MaxVisuals, todo : 0 .. MaxVisuals]
    BY DEF TypeInv, LoadOK
<1>2. ScenesOK /\ 0 \in 0 .. sequence BY DEF TypeInv, ScenesOK
<1>3. ASSUME NEW how \in {"failed", "cancelled"}, Finish(how)
      PROVE  LoadOK' /\ ScenesOK' /\ load'.phase = "none"
  <2>1. load' = [request |-> 0, phase |-> "none", step |-> "none", cancelled |-> FALSE,
                 size |-> 0, todo |-> 0]
      BY <1>3 DEF Finish, NoLoad
  <2>2. 0 \in 0 .. MaxVisuals BY DEF SceneAssumption
  <2>3. LoadOK' BY <1>2, <2>1, <2>2 DEF LoadOK
  <2>4. ScenesOK' BY <1>2, <1>3 DEF Finish, ScenesOK
  <2> QED BY <2>1, <2>3, <2>4
<1>4. ASSUME UNCHANGED <<load, completed>> PROVE LoadOK' /\ ScenesOK'
    BY <1>2, <1>4, SameLoad DEF ScenesOK
<1>5. ASSUME UNCHANGED completed PROVE ScenesOK' BY <1>2, <1>5 DEF ScenesOK
<1>6. load.step \in {"none", "reading", "queued"} \cup Outcome /\ load.size \in 0 .. MaxVisuals
      /\ load.todo \in 0 .. MaxVisuals
    BY <1>1
<1>7. CASE Describe
  <2>1. CASE \E how \in {"failed", "cancelled"} : Finish(how) BY <1>3, <2>1
  <2>2. CASE load.step = "reading" /\ UNCHANGED <<load, completed>> /\ load.phase # "ready"
      BY <1>4, <2>2
  <2>3. CASE load' = [load EXCEPT !.phase = "preparing", !.step = "queued"] /\ UNCHANGED completed
             /\ load.phase # "none"
    <3>1. load' = [load EXCEPT !.phase = "preparing", !.step = "queued", !.size = load.size, !.todo = load.todo]
        BY <1>1, <2>3
    <3>2. LoadOK' BY <1>1, <1>6, <2>3, <3>1 DEF LoadOK
    <3>3. load'.request = load.request /\ load'.phase = "preparing" /\ load'.cancelled = load.cancelled
        BY <1>1, <2>3, <3>1
    <3> QED BY <1>5, <2>3, <3>2, <3>3
  <2>4. CASE load' = [load EXCEPT !.phase = "submitting", !.step = "none"] /\ UNCHANGED completed
             /\ load.phase # "none"
    <3>1. load' = [load EXCEPT !.phase = "submitting", !.step = "none", !.size = load.size, !.todo = load.todo]
        BY <1>1, <2>4
    <3>2. LoadOK' BY <1>1, <1>6, <2>4, <3>1 DEF LoadOK
    <3>3. load'.request = load.request /\ load'.phase = "submitting" /\ load'.cancelled = load.cancelled
        BY <1>1, <2>4, <3>1
    <3> QED BY <1>5, <2>4, <3>2, <3>3
  <2> QED BY <1>7, <2>1, <2>2, <2>3, <2>4 DEF Describe, SubmitTask
<1>8. CASE Collect
  <2>1. CASE \E how \in {"failed", "cancelled"} : Finish(how) BY <1>3, <2>1
  <2>2. CASE UNCHANGED <<load, completed>> /\ load.phase = "preparing" BY <1>4, <2>2
  <2>3. CASE load.phase = "preparing" /\ UNCHANGED completed
             /\ \E size \in 0 .. MaxVisuals :
                  load' = [load EXCEPT !.phase = "assets", !.size = size, !.todo = size]
    <3>1. PICK size \in 0 .. MaxVisuals :
            load' = [load EXCEPT !.phase = "assets", !.size = size, !.todo = size]
        BY <2>3
    <3>2. load' = [load EXCEPT !.phase = "assets", !.step = load.step, !.size = size, !.todo = size]
        BY <1>1, <3>1
    <3>3. LoadOK' BY <1>1, <1>6, <2>3, <3>2 DEF LoadOK
    <3>4. load'.request = load.request /\ load'.phase = "assets" /\ load'.cancelled = load.cancelled
        BY <1>1, <2>3, <3>2
    <3> QED BY <1>5, <2>3, <3>3, <3>4
  <2> QED BY <1>8, <2>1, <2>2, <2>3 DEF Collect
<1>9. CASE ReserveReferences
  <2>1. CASE \E how \in {"failed", "cancelled"} : Finish(how) BY <1>3, <2>1
  <2>2. CASE ~load.cancelled /\ UNCHANGED completed /\ load' = [load EXCEPT !.phase = "ready"]
             /\ load.phase = "assets"
    <3>1. load' = [load EXCEPT !.phase = "ready", !.step = load.step, !.size = load.size, !.todo = load.todo]
        BY <1>1, <2>2
    <3>2. LoadOK' BY <1>1, <1>6, <2>2, <3>1 DEF LoadOK
    <3>3. load'.request = load.request /\ load'.phase = "ready" /\ load'.cancelled = load.cancelled
        BY <1>1, <2>2, <3>1
    <3> QED BY <1>5, <2>2, <3>2, <3>3
  <2>3. CASE UNCHANGED completed /\ load.phase = "assets"
             /\ load' = [load EXCEPT !.todo = IF @ > Batch THEN @ - Batch ELSE 0]
    <3> DEFINE todo == IF load.todo > Batch THEN load.todo - Batch ELSE 0
    <3>1. todo \in 0 .. MaxVisuals BY <1>6 DEF SceneAssumption
    <3> HIDE DEF todo
    <3>2. load' = [load EXCEPT !.todo = todo] BY <2>3 DEF todo
    <3>3. load' = [load EXCEPT !.phase = "assets", !.step = load.step, !.size = load.size, !.todo = todo]
        BY <1>1, <2>3, <3>2
    <3>4. LoadOK' BY <1>1, <1>6, <2>3, <3>1, <3>3 DEF LoadOK
    <3>5. load'.request = load.request /\ load'.phase = "assets" /\ load'.cancelled = load.cancelled
        BY <1>1, <2>3, <3>1, <3>3
    <3> QED BY <1>5, <2>3, <3>4, <3>5
  <2> QED BY <1>9, <2>1, <2>2, <2>3 DEF ReserveReferences
<1>10. CASE Await
  <2>1. CASE Finish("cancelled") BY <1>3, <2>1
  <2>2. CASE ~load.cancelled /\ UNCHANGED <<load, completed>> BY <1>4, <2>2
  <2> QED BY <1>10, <2>1, <2>2 DEF Await
<1> QED BY <1>7, <1>8, <1>9, <1>10 DEF AdvanceLoad

LEMMA AdvanceSceneLoadKeeps ==
  ASSUME HostInv, SceneAssumption, HostAssumption, AdvanceSceneLoad, UNCHANGED hostVars
  PROVE  HostInv'
<1>1. TypeInv /\ UsersOK /\ FlowOK BY DEF HostInv
<1>2. /\ AdvanceLoad /\ pc' = "reload" /\ pc = "load"
      /\ UNCHANGED <<group, active, retired, sequence, visuals, reload, stopping, attached>>
    BY DEF AdvanceSceneLoad
<1>3. /\ LoadOK' /\ ScenesOK'
      /\ load'.phase # "none" => load.phase # "none" /\ load'.request = load.request
      /\ ~ (load'.phase = "ready" /\ load'.cancelled)
    BY <1>1, <1>2, LoadAdvanced
<1>4. GroupOK' /\ VisualsOK' /\ ReloadOK' /\ LoaderOK' /\ FlagsOK' /\ QueueOK'
    BY <1>1, <1>2, SameGroup, SameVisuals, SameReload, SameLoader, SameFlags DEF hostVars
<1>5. UsersOK' BY <1>1, <1>2 DEF UsersOK, Owns, hostVars
<1>6. FlowOK' BY <1>1, <1>2, <1>3 DEF FlowOK, hostVars
<1> QED BY <1>3, <1>4, <1>5, <1>6 DEF HostInv, TypeInv

(***************************************************************************)
(* A reload in place                                                       *)
(***************************************************************************)
Reloads ==
  [phase : {"none", "describing", "assets", "done"}, step : {"none", "reading"} \cup Outcome,
   left : 0 .. MaxVisuals, pending : BOOLEAN, result : {"none"} \cup Outcome]

LEMMA ReloadEnded ==
  ASSUME NEW r \in Reloads, ~r.pending, NEW how \in Outcome, reload' = Ended(r, how)
  PROVE  ReloadOK' /\ ~reload'.pending
BY DEF Ended, Reloads, ReloadOK, Outcome

LEMMA ReloadAsks ==
  ASSUME SceneAssumption, NEW r \in Reloads, r.phase = "assets", r.left # 0,
         group' = Submitted("reload", 1), reload' = [r EXCEPT !.pending = TRUE]
  PROVE  GroupOK' /\ ReloadOK' /\ reload'.pending /\ group'.user = "reload"
<1>1. "reload" \in Users /\ 1 \in 1 .. MaxItems BY DEF Users, SceneAssumption
<1>2. group' \in Groups /\ HasWork(group') /\ group'.user = "reload" BY <1>1, GroupMade
<1>3. GroupOK' BY <1>2 DEF GroupOK, HasWork
<1>4. r.left >= 1 BY DEF Reloads, SceneAssumption
<1>5. reload' \in Reloads /\ reload'.pending /\ reload'.phase = "assets" /\ reload'.left >= 1
    BY <1>4 DEF Reloads
<1>6. ReloadOK' BY <1>5 DEF ReloadOK, Reloads
<1> QED BY <1>2, <1>3, <1>5, <1>6

\* What a reload's step does to the group: it leaves another's alone.
ReloadMove ==
  \/ group' = group /\ reload'.pending = reload.pending
  \/ reload.pending /\ group'.user = "none" /\ ~reload'.pending
  \/ (reload.pending \/ ~IsBusy) /\ group'.user = "reload" /\ reload'.pending

LEMMA NextAssetMoves ==
  ASSUME SceneAssumption, TypeInv, ~reload.pending,
         NEW r \in Reloads, r.phase = "assets", ~r.pending, NextAsset(r)
  PROVE  GroupOK' /\ ReloadOK' /\ ReloadMove
<1>1. reload.pending = FALSE BY DEF TypeInv, ReloadOK
<1>2. CASE r.left = 0
  <2>1. group' = group BY <1>2 DEF NextAsset
  <2>2. PICK how \in {"ok", "failed"} : reload' = Ended(r, how) BY <1>2 DEF NextAsset
  <2>3. ReloadOK' /\ ~reload'.pending BY <2>2, ReloadEnded DEF Outcome
  <2>4. reload'.pending = FALSE BY <2>3 DEF ReloadOK
  <2> QED BY <1>1, <2>1, <2>3, <2>4, SameGroup DEF ReloadMove
<1>3. CASE r.left # 0 /\ CanSubmit
  <2>1. group' = Submitted("reload", 1) /\ reload' = [r EXCEPT !.pending = TRUE]
      BY <1>3 DEF NextAsset
  <2> QED BY <1>3, <2>1, ReloadAsks DEF ReloadMove, CanSubmit
<1>4. CASE r.left # 0 /\ ~CanSubmit
  <2>1. reload' = r /\ group' = group BY <1>4 DEF NextAsset
  <2>2. ReloadOK' /\ reload'.pending = FALSE BY <2>1 DEF ReloadOK, Reloads
  <2> QED BY <1>1, <2>1, <2>2, SameGroup DEF ReloadMove
<1> QED BY <1>2, <1>3, <1>4

LEMMA TakeAssetMoves ==
  ASSUME SceneAssumption, TypeInv, reload.pending, group.user = "reload",
         NEW g \in AfterAdvance(group), TakeReloadAsset(g)
  PROVE  GroupOK' /\ ReloadOK' /\ ReloadMove
<1>1. reload \in Reloads /\ reload.phase = "assets" /\ reload.left >= 1
    BY DEF TypeInv, ReloadOK, Reloads
<1>2. group \in Groups /\ HasWork(group) BY DEF TypeInv, GroupOK
<1>3. g \in Groups /\ HasWork(g) /\ g.user = "reload" BY <1>2, GroupAdvanced
<1>4. CASE ~HasEnded(g)
  <2>1. group' = g /\ reload' = reload BY <1>4 DEF TakeReloadAsset
  <2>2. GroupOK' BY <1>3, <2>1 DEF GroupOK, HasWork
  <2> QED BY <1>3, <2>1, <2>2, SameReload DEF ReloadMove
<1>5. CASE HasEnded(g) /\ g.state = "applied"
  <2> DEFINE r == [reload EXCEPT !.pending = FALSE, !.left = reload.left - 1]
  <2>1. reload.left - 1 \in 0 .. MaxVisuals BY <1>1 DEF Reloads, SceneAssumption
  <2>2. r \in Reloads /\ r.phase = "assets" /\ ~r.pending BY <1>1, <2>1 DEF Reloads
  <2>3. \/ r.left = 0 /\ group' = NoGroup /\ \E how \in {"ok", "failed"} : reload' = Ended(r, how)
        \/ r.left # 0 /\ group' = Submitted("reload", 1) /\ reload' = [r EXCEPT !.pending = TRUE]
      BY <1>5 DEF TakeReloadAsset
  <2> HIDE DEF r
  <2>4. CASE group' = NoGroup /\ \E how \in {"ok", "failed"} : reload' = Ended(r, how)
    <3>1. PICK how \in {"ok", "failed"} : reload' = Ended(r, how) BY <2>4
    <3>2. ReloadOK' /\ ~reload'.pending BY <2>2, <3>1, ReloadEnded DEF Outcome
    <3>3. GroupOK' /\ group'.user = "none" BY <2>4, GroupGone DEF GroupOK, HasWork
    <3> QED BY <3>2, <3>3 DEF ReloadMove
  <2>5. CASE r.left # 0 /\ group' = Submitted("reload", 1) /\ reload' = [r EXCEPT !.pending = TRUE]
    <3>1. GroupOK' /\ ReloadOK' /\ reload'.pending /\ group'.user = "reload"
        BY <2>2, <2>5, ReloadAsks
    <3> QED BY <3>1 DEF ReloadMove
  <2> QED BY <2>3, <2>4, <2>5
<1>6. CASE HasEnded(g) /\ g.state # "applied"
  <2> DEFINE r == [reload EXCEPT !.pending = FALSE]
  <2>1. group' = NoGroup /\ reload' = Ended(r, "failed") BY <1>6 DEF TakeReloadAsset
  <2>2. r \in Reloads /\ ~r.pending BY <1>1 DEF Reloads
  <2> HIDE DEF r
  <2>3. ReloadOK' /\ ~reload'.pending BY <2>1, <2>2, ReloadEnded DEF Outcome
  <2>4. GroupOK' /\ group'.user = "none" BY <2>1, GroupGone DEF GroupOK, HasWork
  <2> QED BY <2>3, <2>4 DEF ReloadMove
<1> QED BY <1>4, <1>5, <1>6

LEMMA AdvanceReloadKeeps ==
  ASSUME HostInv, SceneAssumption, HostAssumption, AdvanceReload, UNCHANGED hostVars
  PROVE  HostInv'
<1>1. TypeInv /\ UsersOK /\ FlowOK BY DEF HostInv
<1>2. /\ pc = "reload" /\ pc' = "answer"
      /\ UNCHANGED <<active, retired, sequence, load, completed, visuals, stopping, attached>>
    BY DEF AdvanceReload
<1>3. LoadOK' /\ VisualsOK' /\ ScenesOK' /\ LoaderOK' /\ QueueOK' /\ FlagsOK'
    BY <1>1, <1>2, SameLoad, SameVisuals, SameScenes, SameLoader, SameFlags
       DEF hostVars, TypeInv, ScenesOK
<1>4. FlowOK' BY <1>1, <1>2 DEF FlowOK, hostVars
<1>5. ~stopping BY <1>1, <1>2 DEF FlowOK
<1>6. reload \in Reloads /\ (reload.pending => reload.phase = "assets")
    BY <1>1 DEF TypeInv, ReloadOK, Reloads
<1>7. GroupOK' /\ ReloadOK' /\ ReloadMove
  <2>1. CASE UNCHANGED <<group, reload>>
      BY <1>1, <2>1, SameGroup, SameReload DEF ReloadMove
  <2>2. CASE ReloadDescribes
    <3>1. ~reload.pending BY <1>6, <2>2 DEF ReloadDescribes
    <3>2. CASE reload' = Ended(reload, "failed") /\ UNCHANGED group
      <4>1. ReloadOK' /\ ~reload'.pending BY <1>6, <3>1, <3>2, ReloadEnded DEF Outcome
      <4>2. reload'.pending = FALSE /\ reload.pending = FALSE
          BY <1>6, <3>1, <4>1 DEF ReloadOK, Reloads
      <4> QED BY <1>1, <3>2, <4>1, <4>2, SameGroup DEF ReloadMove
    <3>3. CASE \E size \in 0 .. MaxVisuals :
                 NextAsset([reload EXCEPT !.phase = "assets", !.left = size])
      <4>1. PICK size \in 0 .. MaxVisuals :
              NextAsset([reload EXCEPT !.phase = "assets", !.left = size])
          BY <3>3
      <4> DEFINE r == [reload EXCEPT !.phase = "assets", !.left = size]
      <4>2. r \in Reloads /\ r.phase = "assets" /\ ~r.pending BY <1>6, <3>1 DEF Reloads
      <4> HIDE DEF r
      <4>3. NextAsset(r) BY <4>1 DEF r
      <4> QED BY <1>1, <3>1, <4>2, <4>3, NextAssetMoves
    <3> QED BY <2>1, <2>2, <3>2, <3>3 DEF ReloadDescribes
  <2>3. CASE ReloadAssets
    <3>1. CASE reload.pending
      <4>1. PICK g \in AfterAdvance(group) : TakeReloadAsset(g) BY <2>3, <3>1 DEF ReloadAssets
      <4>2. group.user = "reload" BY <1>1, <1>5, <3>1 DEF UsersOK, Owns
      <4> QED BY <1>1, <3>1, <4>1, <4>2, TakeAssetMoves
    <3>2. CASE ~reload.pending
      <4>1. NextAsset(reload) /\ reload.phase = "assets" BY <2>3, <3>2 DEF ReloadAssets
      <4> QED BY <1>1, <1>6, <3>2, <4>1, NextAssetMoves
    <3> QED BY <3>1, <3>2
  <2> QED BY <2>1, <2>2, <2>3 DEF AdvanceReload
<1>8. UsersOK'
  <2>1. asked' = asked /\ editing' = editing BY DEF hostVars
  <2>2. CASE group' = group /\ reload'.pending = reload.pending
      BY <1>1, <1>2, <2>1, <2>2 DEF UsersOK, Owns
  <2>3. CASE reload.pending /\ group'.user = "none" /\ ~reload'.pending
      BY <1>1, <1>2, <1>5, <2>1, <2>3 DEF UsersOK, Owns
  <2>4. CASE (reload.pending \/ ~IsBusy) /\ group'.user = "reload" /\ reload'.pending
      BY <1>1, <1>2, <1>5, <2>1, <2>4 DEF UsersOK, Owns, IsBusy
  <2> QED BY <1>7, <2>2, <2>3, <2>4 DEF ReloadMove
<1> QED BY <1>3, <1>4, <1>7, <1>8 DEF HostInv, TypeInv

(***************************************************************************)
(* After the advance: the asset command, the scene                         *)
(***************************************************************************)
LEMMA PollReloadKeeps ==
  ASSUME HostInv, SceneAssumption, HostAssumption, PollReload PROVE HostInv'
<1>1. TypeInv /\ UsersOK /\ FlowOK BY DEF HostInv
<1>2. /\ stage = "assets" /\ pc = "answer" /\ pc' = "host" /\ stage' = "scene"
      /\ UNCHANGED <<group, active, retired, sequence, load, completed, visuals, stopping, attached,
                     environment, loader, sent, asked, edits, editing, exit, others, closed>>
    BY DEF PollReload
<1>3. queue # <<>> /\ ~stopping BY <1>1, <1>2 DEF FlowOK
<1>4. GroupOK' /\ LoadOK' /\ VisualsOK' /\ ScenesOK' /\ LoaderOK'
    BY <1>1, <1>2, SameGroup, SameLoad, SameVisuals, SameScenes, SameLoader DEF TypeInv, ScenesOK
<1>5. FlowOK' BY <1>1, <1>2, <1>3 DEF FlowOK
<1>6. /\ QueueOK' /\ ReloadOK' /\ reload'.pending = reload.pending
      /\ waiting' \in BOOLEAN /\ cancelling' \in BOOLEAN /\ structural' \in BOOLEAN
  <2>1. CASE reload.phase = "done"
    <3>1. /\ reload' = NoReload /\ structural' = FALSE
          /\ Answered(IF reload.result = "ok" THEN "applied" ELSE "failed")
        BY <2>1 DEF PollReload
    <3>2. QueueOK' /\ waiting' = FALSE /\ cancelling' = FALSE BY <1>1, <1>2, <1>3, <3>1, AnsweredKeeps
    <3>3. reload.pending = FALSE BY <1>1, <2>1 DEF TypeInv, ReloadOK
    <3>4. ReloadOK' /\ reload'.pending = FALSE BY <3>1 DEF ReloadOK, NoReload, SceneAssumption
    <3> QED BY <3>1, <3>2, <3>3, <3>4
  <2>2. CASE reload.phase # "done"
    <3>1. UNCHANGED <<queue, waiting, cancelling, answer, reload, structural>>
        BY <2>2 DEF PollReload
    <3> QED BY <1>1, <1>2, <3>1, SameQueue, SameReload, Flags
  <2> QED BY <2>1, <2>2
<1>7. UsersOK' BY <1>1, <1>2, <1>6 DEF UsersOK, Owns
<1>8. FlagsOK' BY <1>1, <1>2, <1>6 DEF TypeInv, FlagsOK
<1> QED BY <1>4, <1>5, <1>6, <1>7, <1>8 DEF HostInv, TypeInv

LEMMA VisualsReportedOK ==
  ASSUME TypeInv, visuals' = VisualsReported
  PROVE  VisualsOK' /\ visuals'.pending = visuals.pending
BY DEF TypeInv, VisualsOK, VisualsReported

LEMMA PollBatchKeeps ==
  ASSUME HostInv, SceneAssumption, HostAssumption, PollBatch PROVE HostInv'
<1>1. TypeInv /\ UsersOK /\ FlowOK BY DEF HostInv
<1>2. /\ stage = "assets" /\ pc = "answer" /\ pc' = "host" /\ stage' = "scene"
      /\ visuals' = VisualsReported
      /\ UNCHANGED <<active, retired, sequence, load, completed, reload, stopping, attached,
                     environment, loader, sent, structural, edits, editing, exit, others, closed>>
    BY DEF PollBatch
<1>3. queue # <<>> /\ ~stopping BY <1>1, <1>2 DEF FlowOK
<1>4. LoadOK' /\ ReloadOK' /\ ScenesOK' /\ LoaderOK' /\ VisualsOK' /\ visuals'.pending = visuals.pending
    BY <1>1, <1>2, SameLoad, SameReload, SameScenes, SameLoader, VisualsReportedOK
       DEF TypeInv, ScenesOK
<1>5. FlowOK' BY <1>1, <1>2, <1>3 DEF FlowOK
<1>6. group \in Groups /\ HasWork(group) BY <1>1 DEF TypeInv, GroupOK
<1>7. ASSUME QueueOK', GroupOK', waiting' \in BOOLEAN, cancelling' \in BOOLEAN, asked' \in BOOLEAN,
             UsersOK'
      PROVE  HostInv'
  <2>1. FlagsOK' BY <1>1, <1>2, <1>7 DEF TypeInv, FlagsOK
  <2> QED BY <1>4, <1>5, <1>7, <2>1 DEF HostInv, TypeInv
<1>8. CASE ~Owns("assets")
  <2>1. Answered("failed") /\ asked' = FALSE /\ group' = group BY <1>8 DEF PollBatch
  <2>2. QueueOK' /\ waiting' = FALSE /\ cancelling' = FALSE BY <1>1, <1>2, <1>3, <2>1, AnsweredKeeps
  <2>3. UsersOK' BY <1>1, <1>2, <1>3, <1>4, <1>8, <2>1 DEF UsersOK, Owns
  <2> QED BY <1>1, <1>7, <2>1, <2>2, <2>3, SameGroup
<1>9. CASE Owns("assets")
  <2>1. PICK g \in AfterAdvance(group) :
          IF HasEnded(g)
          THEN /\ Answered(IF g.state = "applied" THEN "applied" ELSE "failed")
               /\ group' = NoGroup /\ asked' = FALSE
          ELSE group' = g /\ UNCHANGED <<queue, waiting, cancelling, answer, asked>>
      BY <1>9 DEF PollBatch
  <2>2. g \in Groups /\ HasWork(g) /\ g.user = "assets" BY <1>6, <1>9, GroupAdvanced DEF Owns
  <2>3. CASE HasEnded(g)
    <3>1. /\ Answered(IF g.state = "applied" THEN "applied" ELSE "failed")
          /\ group' = NoGroup /\ asked' = FALSE
        BY <2>1, <2>3
    <3>2. QueueOK' /\ waiting' = FALSE /\ cancelling' = FALSE BY <1>1, <1>2, <1>3, <3>1, AnsweredKeeps
    <3>3. GroupOK' /\ group'.user = "none" BY <3>1, GroupGone DEF GroupOK, HasWork
    <3>4. UsersOK' BY <1>1, <1>2, <1>3, <1>4, <1>9, <3>1, <3>3 DEF UsersOK, Owns
    <3> QED BY <1>7, <3>1, <3>2, <3>3, <3>4
  <2>4. CASE ~HasEnded(g)
    <3>1. group' = g /\ UNCHANGED <<queue, waiting, cancelling, answer, asked>> BY <2>1, <2>4
    <3>2. QueueOK' BY <1>1, <1>2, <3>1, SameQueue
    <3>3. GroupOK' BY <2>2, <3>1 DEF GroupOK, HasWork
    <3>4. UsersOK' BY <1>1, <1>2, <1>3, <1>4, <1>9, <2>2, <3>1 DEF UsersOK, Owns
    <3>5. waiting' \in BOOLEAN /\ cancelling' \in BOOLEAN /\ asked' \in BOOLEAN BY <3>1, Flags
    <3> QED BY <1>7, <3>2, <3>3, <3>4, <3>5
  <2> QED BY <2>3, <2>4
<1> QED BY <1>8, <1>9

LEMMA LoaderTold ==
  ASSUME TypeInv, NEW how \in {"applied", "failed", "cancelled"}, Told(how), sequence' = sequence
  PROVE  LoaderOK' /\ ~loader'.busy
BY DEF TypeInv, LoaderOK, Told

LEMMA LoaderEndsFrame ==
  ASSUME HostInv, SceneAssumption, HostAssumption, LoaderFinishes \/ LoaderWaits PROVE HostInv'
<1>1. TypeInv /\ UsersOK /\ FlowOK BY DEF HostInv
<1>2. /\ stage = "scene" /\ pc = "answer" /\ pc' = "host" /\ stage' = "frame" /\ exit' = "none"
      /\ visuals' = VisualsReported
      /\ UNCHANGED <<environment, queue, sent, waiting, asked, structural, cancelling, answer, edits,
                     editing, others, closed>>
      /\ UNCHANGED <<group, active, retired, sequence, load, reload, stopping, attached>>
    BY DEF LoaderFinishes, LoaderWaits, AtLoader, NextFrame
<1>3. completed' \in {"none", "failed", "cancelled"}
    BY <1>1 DEF LoaderFinishes, LoaderWaits, TypeInv, ScenesOK
<1>4. GroupOK' /\ LoadOK' /\ ReloadOK' /\ QueueOK' /\ VisualsOK' /\ visuals'.pending = visuals.pending
    BY <1>1, <1>2, SameGroup, SameLoad, SameReload, SameQueue, VisualsReportedOK
<1>5. ScenesOK' BY <1>1, <1>2, <1>3 DEF TypeInv, ScenesOK
<1>6. FlagsOK' BY <1>1, <1>2 DEF TypeInv, FlagsOK
<1>7. LoaderOK' /\ (loader' = loader \/ ~loader'.busy)
  <2>1. CASE loader' = loader BY <1>1, <1>2, <2>1, SameLoader
  <2>2. CASE loader' # loader
    <3>1. Told(completed) /\ completed \in {"applied", "failed", "cancelled"}
        BY <1>1, <2>2 DEF LoaderFinishes, LoaderWaits, TypeInv, ScenesOK
    <3> QED BY <1>1, <1>2, <3>1, LoaderTold
  <2> QED BY <2>1, <2>2
<1>8. UsersOK' BY <1>1, <1>2, <1>4 DEF UsersOK, Owns
<1>9. FlowOK' BY <1>1, <1>2, <1>7 DEF FlowOK
<1> QED BY <1>4, <1>5, <1>6, <1>7, <1>8, <1>9 DEF HostInv, TypeInv

\* The scene the loader waits for is ready: nothing stands in its way.
LEMMA LoaderActivatesKeeps ==
  ASSUME HostInv, SceneAssumption, HostAssumption, LoaderActivates PROVE HostInv'
<1>1. TypeInv /\ UsersOK /\ FlowOK BY DEF HostInv
<1>2. stage = "scene" /\ pc = "answer" /\ loader.busy /\ load.phase = "ready" /\ CanActivate
    BY DEF LoaderActivates, AtLoader
<1>3. MayActivate(loader.request)
  <2>1. load.request = loader.request BY <1>1, <1>2 DEF FlowOK
  <2>2. ~load.cancelled BY <1>1, <1>2 DEF FlowOK
  <2> QED BY <1>2, <2>1, <2>2 DEF MayActivate, CanActivate
<1>4. /\ pc' = "host" /\ stage' = "frame" /\ exit' = "none" /\ Told("applied")
      /\ UNCHANGED <<environment, queue, sent, waiting, asked, structural, cancelling, answer, edits,
                     editing, others, closed>>
      /\ UNCHANGED <<group, sequence, completed, reload, stopping, attached>>
      /\ active' = load.request /\ retired' = TRUE /\ load' = NoLoad
      /\ visuals' = [VisualsReported EXCEPT !.open = load.size > 0, !.left = load.size]
    BY <1>3 DEF LoaderActivates, Activate, NextFrame
<1>5. load.request \in 0 .. sequence /\ load.size \in 0 .. MaxVisuals BY <1>1 DEF TypeInv, LoadOK
<1>6. VisualsOK' /\ visuals'.pending = visuals.pending
  <2>1. VisualsReported \in [open : BOOLEAN, left : 0 .. MaxVisuals, pending : BOOLEAN,
                             done : {"none", "applied", "failed", "cancelled"}]
        /\ VisualsReported.pending = visuals.pending
      BY <1>1 DEF TypeInv, VisualsOK, VisualsReported
  <2>2. (load.size > 0) \in BOOLEAN OBVIOUS
  <2> QED BY <1>4, <1>5, <2>1, <2>2 DEF VisualsOK
<1>7. GroupOK' /\ ReloadOK' /\ QueueOK' BY <1>1, <1>4, SameGroup, SameReload, SameQueue
<1>8. ScenesOK' BY <1>1, <1>4, <1>5 DEF TypeInv, ScenesOK
<1>9. LoadOK'
  <2>1. 0 \in 0 .. sequence' /\ 0 \in 0 .. MaxVisuals
      BY <1>1, <1>4 DEF TypeInv, ScenesOK, SceneAssumption
  <2> QED BY <1>4, <2>1 DEF LoadOK, NoLoad
<1>10. LoaderOK' /\ ~loader'.busy BY <1>1, <1>4, LoaderTold
<1>11. FlagsOK' BY <1>1, <1>4 DEF TypeInv, FlagsOK
<1>12. UsersOK' BY <1>1, <1>4, <1>6 DEF UsersOK, Owns
<1>13. FlowOK' BY <1>1, <1>2, <1>4, <1>10 DEF FlowOK
<1> QED BY <1>6, <1>7, <1>8, <1>9, <1>10, <1>11, <1>12, <1>13 DEF HostInv, TypeInv

(***************************************************************************)
(* Stopping                                                                *)
(***************************************************************************)
\* Asked for or given up: whoever does not own the group leaves it alone.
LEMMA Discarded ==
  ASSUME SceneAssumption, TypeInv, NEW user \in Users, Discard(user)
  PROVE  GroupOK' /\ (group' = group \/ (Owns(user) /\ group'.user = "none"))
<1>1. CASE Owns(user)
  <2>1. group' = NoGroup BY <1>1 DEF Discard
  <2> QED BY <1>1, <2>1, GroupGone DEF GroupOK, HasWork
<1>2. CASE ~Owns(user)
  <2>1. group' = group BY <1>2 DEF Discard
  <2> QED BY <2>1, SameGroup
<1> QED BY <1>1, <1>2

LEMMA GivesUpKeeps ==
  ASSUME HostInv, SceneAssumption, HostAssumption, DiscardAssets \/ EditGivesUp PROVE HostInv'
<1>1. TypeInv /\ UsersOK /\ FlowOK BY DEF HostInv
<1>2. /\ UNCHANGED <<active, retired, sequence, load, completed, visuals, reload, stopping, attached,
                     pc, stage, environment, loader, queue, sent, waiting, structural, cancelling,
                     answer, edits, exit, others, closed>>
      /\ stage = "over"
    BY <1>1 DEF DiscardAssets, EditGivesUp, FlowOK
<1>3. asked' \in BOOLEAN /\ editing' \in BOOLEAN BY Flags DEF DiscardAssets, EditGivesUp
<1>4. LoadOK' /\ VisualsOK' /\ ReloadOK' /\ ScenesOK' /\ QueueOK' /\ LoaderOK'
    BY <1>1, <1>2, SameLoad, SameVisuals, SameReload, SameScenes, SameQueue, SameLoader
       DEF TypeInv, ScenesOK
<1>5. FlagsOK' BY <1>1, <1>2, <1>3 DEF TypeInv, FlagsOK
<1>6. FlowOK' BY <1>1, <1>2 DEF FlowOK
<1>7. GroupOK' /\ UsersOK'
  <2>1. CASE DiscardAssets
    <3>1. "assets" \in Users BY DEF Users
    <3>2. GroupOK' /\ (group' = group \/ (Owns("assets") /\ group'.user = "none"))
        BY <1>1, <2>1, <3>1, Discarded DEF DiscardAssets
    <3>3. asked /\ asked' = FALSE /\ editing' = editing BY <2>1 DEF DiscardAssets
    <3>4. Owns("assets") /\ ~stopping => group' = NoGroup
        BY <2>1 DEF DiscardAssets, Discard
    <3>5. UsersOK' BY <1>1, <1>2, <3>2, <3>3, <3>4, GroupGone DEF UsersOK, Owns
    <3> QED BY <3>2, <3>5
  <2>2. CASE EditGivesUp
    <3>1. "edit" \in Users BY DEF Users
    <3>2. GroupOK' BY <1>1, <2>2, <3>1, Discarded DEF EditGivesUp
    <3>3. stopping' BY <1>2, <2>2 DEF EditGivesUp
    <3> QED BY <3>2, <3>3 DEF UsersOK
  <2> QED BY <2>1, <2>2
<1> QED BY <1>4, <1>5, <1>6, <1>7 DEF HostInv, TypeInv

LEMMA RequestShutdownKeeps ==
  ASSUME HostInv, SceneAssumption, HostAssumption, RequestShutdown PROVE HostInv'
<1>1. TypeInv /\ UsersOK /\ FlowOK BY DEF HostInv
<1>2. /\ stage = "over" /\ pc = "host" /\ stopping' = TRUE
      /\ UNCHANGED <<pc, hostVars>> /\ UNCHANGED <<active, retired, sequence, completed, attached>>
    BY <1>1 DEF RequestShutdown, RequestStop, FlowOK
<1>3. GroupOK'
  <2>1. group \in Groups /\ HasWork(group) BY <1>1 DEF TypeInv, GroupOK
  <2>2. group' = Cancelled(group) BY DEF RequestShutdown, RequestStop
  <2> QED BY <2>1, <2>2, GroupCancelled DEF GroupOK, HasWork
<1>4. LoadOK' /\ load'.phase = load.phase /\ load'.request = load.request
    BY <1>1, <1>2 DEF TypeInv, LoadOK, RequestShutdown, RequestStop
<1>5. VisualsOK'
  <2>1. visuals \in [open : BOOLEAN, left : 0 .. MaxVisuals, pending : BOOLEAN,
                     done : {"none", "applied", "failed", "cancelled"}]
      BY <1>1 DEF TypeInv, VisualsOK
  <2>2. visuals' = [visuals EXCEPT !.open = FALSE, !.left = 0, !.done = "none"]
      BY DEF RequestShutdown, RequestStop
  <2>3. 0 \in 0 .. MaxVisuals BY DEF SceneAssumption
  <2> QED BY <2>1, <2>2, <2>3 DEF VisualsOK
<1>6. ReloadOK'
  <2>1. reload' = NoReload BY DEF RequestShutdown, RequestStop
  <2> QED BY <2>1 DEF ReloadOK, NoReload, SceneAssumption
<1>7. ScenesOK' BY <1>1, <1>2 DEF TypeInv, ScenesOK
<1>8. LoaderOK' /\ QueueOK' /\ FlagsOK'
    BY <1>1, <1>2, SameLoader, SameFlags DEF hostVars
<1>9. UsersOK' BY <1>2 DEF UsersOK
<1>10. FlowOK' BY <1>1, <1>2, <1>4 DEF FlowOK, hostVars
<1> QED BY <1>3, <1>4, <1>5, <1>6, <1>7, <1>8, <1>9, <1>10 DEF HostInv, TypeInv

LEMMA AdvanceShutdownKeeps ==
  ASSUME HostInv, SceneAssumption, HostAssumption, AdvanceShutdown PROVE HostInv'
<1>1. TypeInv /\ UsersOK /\ FlowOK BY DEF HostInv
<1>2. /\ stopping /\ stage = "over" /\ pc = "host" /\ UNCHANGED <<pc, hostVars>>
      /\ UNCHANGED <<active, sequence, stopping>>
    BY <1>1 DEF AdvanceShutdown, AdvanceStop, Shutdown, FlowOK
<1>3. LoaderOK' /\ QueueOK' /\ FlagsOK' BY <1>1, <1>2, SameLoader, SameFlags DEF hostVars
<1>4. UsersOK' BY <1>2 DEF UsersOK
<1>5. CASE Shutdown
  <2>1. /\ group' = NoGroup /\ load' = NoLoad /\ completed' = "none"
        /\ visuals' = NoVisuals /\ reload' = NoReload /\ retired' = FALSE /\ attached' = FALSE
      BY <1>5 DEF Shutdown
  <2>2. GroupOK' BY <2>1, GroupGone DEF GroupOK, HasWork
  <2>3. LoadOK'
    <3>1. 0 \in 0 .. sequence' /\ 0 \in 0 .. MaxVisuals
        BY <1>1, <1>2 DEF TypeInv, ScenesOK, SceneAssumption
    <3> QED BY <2>1, <3>1 DEF LoadOK, NoLoad
  <2>6. ScenesOK' BY <1>1, <1>2, <2>1 DEF TypeInv, ScenesOK
  <2>4. VisualsOK' /\ ReloadOK' BY <2>1 DEF VisualsOK, ReloadOK, NoVisuals, NoReload, SceneAssumption
  <2>5. FlowOK' BY <1>1, <1>2, <2>1 DEF FlowOK, NoLoad, hostVars
  <2> QED BY <1>3, <1>4, <2>2, <2>3, <2>4, <2>5, <2>6 DEF HostInv, TypeInv
<1>6. CASE AdvanceLoad /\ UNCHANGED <<group, active, retired, sequence, visuals, reload, stopping, attached>>
  <2>1. /\ LoadOK' /\ ScenesOK'
        /\ load'.phase # "none" => load.phase # "none" /\ load'.request = load.request
      BY <1>1, <1>6, LoadAdvanced
  <2>2. GroupOK' /\ VisualsOK' /\ ReloadOK' BY <1>1, <1>6, SameGroup, SameVisuals, SameReload
  <2>3. FlowOK' BY <1>1, <1>2, <2>1 DEF FlowOK, hostVars
  <2> QED BY <1>3, <1>4, <2>1, <2>2, <2>3 DEF HostInv, TypeInv
<1> QED BY <1>5, <1>6 DEF AdvanceShutdown, AdvanceStop

LEMMA EndingKeeps ==
  ASSUME HostInv, SceneAssumption, HostAssumption, OthersStop \/ CloseApplication PROVE HostInv'
<1>1. TypeInv BY DEF HostInv
<1>2. /\ UNCHANGED <<service, pc, stage, environment, loader, queue, sent, waiting, asked, structural,
                     cancelling, answer, edits, editing, exit>>
      /\ others' \in BOOLEAN /\ closed' \in BOOLEAN
    BY Flags DEF OthersStop, CloseApplication
<1>3. QueueOK' BY <1>1, <1>2, SameQueue
<1> QED BY <1>2, <1>3, Flags, HostStepKeeps

(***************************************************************************)
(* The other threads                                                       *)
(***************************************************************************)
LEMMA OtherKeeps ==
  ASSUME HostInv, SceneAssumption, HostAssumption, Other PROVE HostInv'
<1>1. TypeInv /\ UsersOK /\ FlowOK BY DEF HostInv
<1>2. /\ UNCHANGED <<pc, hostVars>>
      /\ UNCHANGED <<active, retired, sequence, completed, visuals, stopping, attached>>
    BY DEF Other, Answers, AnswerItem, AnswerScene, AnswerReload
<1>3. VisualsOK' /\ ScenesOK' /\ LoaderOK' /\ QueueOK' /\ FlagsOK'
  <2>1. VisualsOK' /\ ScenesOK' BY <1>1, <1>2, SameVisuals, SameScenes DEF TypeInv, ScenesOK
  <2>2. LoaderOK' BY <1>1, <1>2, SameLoader DEF hostVars
  <2>3. pc' \in {"host", "visuals", "load", "reload", "answer"} BY <1>1, <1>2 DEF TypeInv, FlagsOK
  <2>4. FlagsOK' /\ QueueOK' BY <1>1, <1>2, <2>3, SameFlags
  <2> QED BY <2>1, <2>2, <2>4
<1>4. asked' = asked /\ editing' = editing BY <1>2 DEF hostVars
<1>5. CASE AnswerItem
  <2>1. PICK how \in Outcome : group' = [group EXCEPT !.item = how] BY <1>5 DEF AnswerItem
  <2>2. GroupOK' /\ group'.user = group.user BY <1>1, <2>1 DEF TypeInv, GroupOK, HasWork, Groups
  <2>3. UNCHANGED <<load, reload, sequence>> BY <1>5 DEF AnswerItem
  <2>4. LoadOK' /\ ReloadOK' BY <1>1, <2>3, SameLoad, SameReload
  <2>5. UsersOK' BY <1>1, <1>2, <1>4, <2>2, <2>3 DEF UsersOK, Owns
  <2>6. FlowOK' BY <1>1, <1>2, <2>3 DEF FlowOK, hostVars
  <2> QED BY <1>3, <2>2, <2>4, <2>5, <2>6 DEF HostInv, TypeInv
<1>6. CASE AnswerScene
  <2>1. PICK how \in Outcome : load' = [load EXCEPT !.step = how] BY <1>6 DEF AnswerScene
  <2>2. /\ LoadOK' /\ load'.phase = load.phase /\ load'.request = load.request
        /\ load'.cancelled = load.cancelled
      BY <1>1, <1>2, <2>1 DEF TypeInv, LoadOK
  <2>3. UNCHANGED <<group, reload>> BY <1>6 DEF AnswerScene
  <2>4. GroupOK' /\ ReloadOK' BY <1>1, <2>3, SameGroup, SameReload
  <2>5. UsersOK' BY <1>1, <1>2, <1>4, <2>3 DEF UsersOK, Owns
  <2>6. FlowOK' BY <1>1, <1>2, <2>2 DEF FlowOK, hostVars
  <2> QED BY <1>3, <2>2, <2>4, <2>5, <2>6 DEF HostInv, TypeInv
<1>7. CASE AnswerReload
  <2>1. PICK how \in Outcome : reload' = [reload EXCEPT !.step = how] BY <1>7 DEF AnswerReload
  <2>2. ReloadOK' /\ reload'.pending = reload.pending BY <1>1, <2>1 DEF TypeInv, ReloadOK
  <2>3. UNCHANGED <<group, load, sequence>> BY <1>7 DEF AnswerReload
  <2>4. GroupOK' /\ LoadOK' BY <1>1, <2>3, SameGroup, SameLoad
  <2>5. UsersOK' BY <1>1, <1>2, <1>4, <2>2, <2>3 DEF UsersOK, Owns
  <2>6. FlowOK' BY <1>1, <1>2, <2>3 DEF FlowOK, hostVars
  <2> QED BY <1>3, <2>2, <2>4, <2>5, <2>6 DEF HostInv, TypeInv
<1> QED BY <1>5, <1>6, <1>7 DEF Other, Answers

LEMMA StutterKeeps == ASSUME HostInv, UNCHANGED vars PROVE HostInv'
<1>1. TypeInv /\ UsersOK /\ FlowOK BY DEF HostInv
<1>2. UNCHANGED service /\ UNCHANGED <<pc, hostVars>> BY DEF vars
<1>3. GroupOK' /\ LoadOK' /\ VisualsOK' /\ ReloadOK' /\ ScenesOK' BY <1>1, <1>2, SameService
<1>4. LoaderOK' /\ FlagsOK' /\ QueueOK' BY <1>1, <1>2, SameLoader, SameFlags DEF service, hostVars, TypeInv, FlagsOK
<1>5. UsersOK' BY <1>1, <1>2 DEF UsersOK, Owns, service, hostVars
<1>6. FlowOK' BY <1>1, <1>2 DEF FlowOK, service, hostVars
<1> QED BY <1>3, <1>4, <1>5, <1>6 DEF HostInv, TypeInv

(***************************************************************************)
(* The theorem                                                             *)
(***************************************************************************)
LEMMA HostInit == ASSUME SceneAssumption, HostAssumption, Init PROVE HostInv
<1> USE DEF Init, InitService
<1>1. GroupOK BY GroupGone DEF GroupOK
<1>2. LoadOK /\ VisualsOK BY DEF LoadOK, VisualsOK, NoLoad, NoVisuals, SceneAssumption
<1>3. ReloadOK BY DEF ReloadOK, NoReload, SceneAssumption
<1>8. ScenesOK
  <2>1. 0 \in 0 .. sequence /\ 0 \in 0 .. MaxScenes BY DEF SceneAssumption
  <2> QED BY <2>1 DEF ScenesOK
<1>4. QueueOK /\ LoaderOK BY DEF QueueOK, LoaderOK, Entries, HostAssumption
<1>5. FlagsOK
  <2>1. 0 \in 0 .. MaxEdits BY DEF HostAssumption
  <2>2. environment \in {"none", "reading", "read", "unreadable"} OBVIOUS
  <2> QED BY <2>1, <2>2 DEF FlagsOK
<1>6. UsersOK BY DEF UsersOK, Owns, NoGroup, NoVisuals, NoReload
<1>7. FlowOK BY DEF FlowOK
<1> QED BY <1>1, <1>2, <1>3, <1>4, <1>5, <1>6, <1>7, <1>8 DEF HostInv, TypeInv

LEMMA HostStep == ASSUME SceneAssumption, HostAssumption, HostInv, [Next]_vars PROVE HostInv'
<1>1. CASE RequestedScene BY <1>1, RequestedSceneKeeps
<1>2. CASE CancelledScene BY <1>2, CancelledSceneKeeps
<1>3. CASE CancelledAssets BY <1>3, CancelledAssetsKeeps
<1>4. CASE RequestExit BY <1>4, PlainFrameKeeps
<1>5. CASE \E kind \in {"batch", "structure"} : AssetCommand(kind) BY <1>5, AssetCommandKeeps
<1>6. CASE EditPrepares \/ EditPolls \/ EditDiscards BY <1>6, EditKeeps
<1>7. CASE EditGivesUp BY <1>7, GivesUpKeeps
<1>8. CASE Frame
  <2>1. CASE BeginFrame \/ SkipAssets BY <2>1, PlainFrameKeeps
  <2>2. CASE ExecuteAssets BY <2>2, ExecuteAssetsKeeps
  <2>3. CASE IoFailsReload BY <2>3, IoFailsReloadKeeps
  <2>4. CASE IoFailsBatch BY <2>4, IoFailsBatchKeeps
  <2>5. CASE AdvanceForAssets BY <2>5, BeginAdvanceKeeps
  <2>6. CASE AdvanceService
      BY <2>6, AdvanceVisualsKeeps, AdvanceSceneLoadKeeps, AdvanceReloadKeeps DEF AdvanceService
  <2>7. CASE PollReload BY <2>7, PollReloadKeeps
  <2>8. CASE PollBatch BY <2>8, PollBatchKeeps
  <2>9. CASE AdvanceForScene BY <2>9, BeginAdvanceKeeps, SceneIoFailsKeeps
  <2>10. CASE LoaderFinishes \/ LoaderWaits BY <2>10, LoaderEndsFrame
  <2>11. CASE LoaderActivates BY <2>11, LoaderActivatesKeeps
  <2> QED BY <1>8, <2>1, <2>2, <2>3, <2>4, <2>5, <2>6, <2>7, <2>8, <2>9, <2>10, <2>11 DEF Frame
<1>9. CASE Ending
  <2>1. CASE DiscardAssets BY <2>1, GivesUpKeeps
  <2>2. CASE RequestShutdown BY <2>2, RequestShutdownKeeps
  <2>3. CASE AdvanceShutdown BY <2>3, AdvanceShutdownKeeps
  <2>4. CASE CloseApplication BY <2>4, EndingKeeps
  <2> QED BY <1>9, <2>1, <2>2, <2>3, <2>4 DEF Ending
<1>10. CASE OthersStop BY <1>10, EndingKeeps
<1>11. CASE ReadEnvironment BY <1>11, PlainFrameKeeps
<1>12. CASE Other BY <1>12, OtherKeeps
<1>13. CASE UNCHANGED vars BY <1>13, StutterKeeps
<1> QED BY <1>1, <1>2, <1>3, <1>4, <1>5, <1>6, <1>7, <1>8, <1>9, <1>10, <1>11, <1>12, <1>13 DEF Next

\* While the service runs, the one load group works for exactly who waits for
\* it, and a scene that is ready is always activated: no step of the loop, a
\* command, an edit or a stop between two polls takes another's answer or makes
\* the frame fail (resource_load_group.hpp, scene_service_loading.cpp,
\* runtime_scene_loader.cpp).
THEOREM GroupCorrect == Spec => []GroupHasOneUser
<1>1. Init => HostInv BY SceneAssumption, HostAssumption, HostInit
<1>2. HostInv /\ [Next]_vars => HostInv' BY SceneAssumption, HostAssumption, HostStep
<1>3. HostInv => GroupHasOneUser
    BY TypeSplit DEF HostInv, TypeInv, UsersOK, FlowOK, GroupHasOneUser
<1> QED BY <1>1, <1>2, <1>3, PTL DEF Spec

-----------------------------------------------------------------------------
(* Whatever holds of 0 and goes on from each number to the next holds of every number: what
   holds is a set here. *)
LEMMA Induction ==
    ASSUME NEW B, 0 \in B, \A n \in Nat : n \in B => n + 1 \in B PROVE \A n \in Nat : n \in B
<1> SUFFICES ASSUME NEW k \in Nat, k \notin B PROVE FALSE OBVIOUS
<1> DEFINE R == OpToRel(<, Nat)
           Out == {n \in Nat : n \notin B}
<1>1. IsWellFoundedOn(R, Nat) BY NatLessThanWellFounded
<1>2. PICK n \in Out : \A m \in Out : <<m, n>> \notin R BY <1>1, WFMin
<1>3. n \in Nat /\ n \notin B /\ n # 0 BY <1>2
<1>5. n - 1 \in Nat /\ n - 1 < n /\ n - 1 + 1 = n BY <1>3
<1>6. n - 1 \in B BY <1>2, <1>5 DEF OpToRel
<1> QED BY <1>3, <1>5, <1>6

(***************************************************************************)
(* Walks                                                                   *)
(***************************************************************************)
\* Nodes, and objects of a description, lead to their parents.
Walkable(t) == IsFiniteSet(Live(t)) /\ NoNode \notin Live(t)

\* The walk from n that defines Up.
UpFrom(t, n, g) ==
    g = [k \in 0 .. Cardinality(Live(t)) |-> IF k = 0 THEN n ELSE ParentOf(t, g[k - 1])]
WalkUp(t, n) == CHOOSE g : UpFrom(t, n, g)

LEMMA UpIs ==
    ASSUME NEW t, NEW n
    PROVE  Up(t, n) = {WalkUp(t, n)[k] : k \in DOMAIN WalkUp(t, n)} \ {NoNode}
BY DEF Up, WalkUp, UpFrom

LEMMA UpFromExists == ASSUME NEW t, NEW n, Walkable(t) PROVE UpFrom(t, n, WalkUp(t, n))
<1> DEFINE C == Cardinality(Live(t))
           Good(g, m) == g[0] = n /\ \A k \in 1 .. m : g[k] = ParentOf(t, g[k - 1])
           B == {m \in Nat : \E g : Good(g, m)}
<1>0. C \in Nat BY FS_CardinalityType DEF Walkable
<1> HIDE DEF C
<1>1. 0 \in B
  <2>1. Good([k \in {0} |-> n], 0) OBVIOUS
  <2> QED BY <2>1
<1>2. ASSUME NEW m \in Nat, m \in B PROVE m + 1 \in B
  <2>1. PICK g : Good(g, m) BY <1>2
  <2> DEFINE h == [k \in 0 .. m + 1 |-> IF k = m + 1 THEN ParentOf(t, g[m]) ELSE g[k]]
  <2>2. ASSUME NEW k \in 1 .. m + 1 PROVE h[k] = ParentOf(t, h[k - 1])
    <3>1. k - 1 \in 0 .. m /\ h[k - 1] = g[k - 1] OBVIOUS
    <3>2. CASE k = m + 1 BY <3>1, <3>2
    <3>3. CASE k # m + 1
      <4>1. k \in 1 .. m /\ h[k] = g[k] BY <3>3
      <4> QED BY <2>1, <3>1, <4>1
    <3> QED BY <3>2, <3>3
  <2>3. h[0] = n BY <2>1
  <2> HIDE DEF h
  <2>4. Good(h, m + 1) BY <2>2, <2>3
  <2> QED BY <2>4
<1> HIDE DEF B
<1>3. C \in B BY <1>0, <1>1, <1>2, Induction
<1>4. PICK g : Good(g, C) BY <1>3 DEF B
<1> DEFINE h == [k \in 0 .. C |-> g[k]]
           E(k) == IF k = 0 THEN n ELSE ParentOf(t, h[k - 1])
<1>5. \A k \in 0 .. C : h[k] = E(k)
  <2> TAKE k \in 0 .. C
  <2>1. CASE k = 0 BY <1>4, <2>1
  <2>2. CASE k # 0
    <3>1. k \in 1 .. C /\ k - 1 \in 0 .. C BY <1>0, <2>2
    <3> QED BY <1>4, <2>2, <3>1
  <2> QED BY <2>1, <2>2
<1>6. h = [k \in 0 .. C |-> h[k]] OBVIOUS
<1> HIDE DEF h
<1>7. h = [k \in 0 .. C |-> IF k = 0 THEN n ELSE ParentOf(t, h[k - 1])] BY <1>5, <1>6 DEF E
<1>8. \E f : UpFrom(t, n, f) BY <1>7 DEF UpFrom, C
<1> QED BY <1>8 DEF WalkUp

LEMMA UpSteps ==
    ASSUME NEW t, NEW n, Walkable(t)
    PROVE  LET w == WalkUp(t, n)
               C == Cardinality(Live(t))
           IN /\ C \in Nat /\ w[0] = n
              /\ \A k \in 0 .. C : k # 0 => w[k] = ParentOf(t, w[k - 1])
              /\ Up(t, n) = {w[k] : k \in 0 .. C} \ {NoNode}
<1> DEFINE C == Cardinality(Live(t))
           w == WalkUp(t, n)
           E(k) == IF k = 0 THEN n ELSE ParentOf(t, w[k - 1])
<1>0. C \in Nat BY FS_CardinalityType DEF Walkable
<1>1. w = [k \in 0 .. C |-> E(k)] BY UpFromExists DEF UpFrom
<1>2. Up(t, n) = {w[k] : k \in DOMAIN w} \ {NoNode} BY UpIs
<1> HIDE DEF w, E, C
<1>3. DOMAIN w = 0 .. C /\ \A k \in 0 .. C : w[k] = E(k) BY <1>1
<1>4. w[0] = E(0) BY <1>0, <1>3
<1> USE DEF E
<1>5. w[0] = n BY <1>4
<1>6. \A k \in 0 .. C : k # 0 => w[k] = ParentOf(t, w[k - 1]) BY <1>3
<1> QED BY <1>0, <1>2, <1>3, <1>5, <1>6 DEF w, C

LEMMA UpSelf == ASSUME NEW t, NEW n, Walkable(t), n # NoNode PROVE n \in Up(t, n)
<1> DEFINE w == WalkUp(t, n)
           C == Cardinality(Live(t))
<1>1. C \in Nat /\ w[0] = n /\ Up(t, n) = {w[k] : k \in 0 .. C} \ {NoNode} BY UpSteps
<1> HIDE DEF w, C
<1>2. 0 \in 0 .. C BY <1>1
<1> QED BY <1>1, <1>2

\* Up is the least set that has n and, with a live node, its parent.
LEMMA UpLeast ==
    ASSUME NEW t, NEW n, Walkable(t), NEW S, n \in S \cup {NoNode},
           \A m \in S \cap Live(t) : t[m].parent \in S \cup {NoNode}
    PROVE  Up(t, n) \subseteq S
<1> DEFINE w == WalkUp(t, n)
           C == Cardinality(Live(t))
           B == {k \in Nat : k <= C => w[k] \in S \cup {NoNode}}
<1>1. /\ C \in Nat /\ w[0] = n /\ Up(t, n) = {w[k] : k \in 0 .. C} \ {NoNode}
      /\ \A k \in 0 .. C : k # 0 => w[k] = ParentOf(t, w[k - 1])
  BY UpSteps
<1> HIDE DEF w, C
<1>2. 0 \in B BY <1>1
<1>3. ASSUME NEW k \in Nat, k \in B PROVE k + 1 \in B
  <2> SUFFICES ASSUME k + 1 <= C PROVE w[k + 1] \in S \cup {NoNode} OBVIOUS
  <2>1. w[k] \in S \cup {NoNode} BY <1>1, <1>3
  <2>2. k + 1 \in 0 .. C /\ k + 1 # 0 /\ k + 1 - 1 = k BY <1>1
  <2>3. w[k + 1] = ParentOf(t, w[k]) BY <1>1, <2>2
  <2> QED BY <2>1, <2>3 DEF ParentOf, Walkable
<1> HIDE DEF B
<1>4. \A k \in Nat : k \in B BY <1>2, <1>3, Induction
<1>5. ASSUME NEW k \in 0 .. C PROVE w[k] \in S \cup {NoNode} BY <1>1, <1>4 DEF B
<1> QED BY <1>1, <1>5

\* It is closed, although the walk is not longer than there are nodes: one that
\* has met a live node at each step has met one twice, and goes in a circle.
LEMMA UpClosed ==
    ASSUME NEW t, NEW n, Walkable(t), NEW m \in Up(t, n), m \in Live(t)
    PROVE  t[m].parent \in Up(t, n) \cup {NoNode}
<1> DEFINE w == WalkUp(t, n)
           C == Cardinality(Live(t))
<1>1. /\ C \in Nat /\ w[0] = n /\ Up(t, n) = {w[k] : k \in 0 .. C} \ {NoNode}
      /\ \A k \in 0 .. C : k # 0 => w[k] = ParentOf(t, w[k - 1])
  BY UpSteps
<1> HIDE DEF w, C
<1>2. PICK k \in 0 .. C : w[k] = m BY <1>1
<1>3. ParentOf(t, m) = t[m].parent BY DEF ParentOf
<1>4. CASE k < C
  <2>1. k + 1 \in 0 .. C /\ k + 1 # 0 /\ k + 1 - 1 = k BY <1>1, <1>4
  <2>2. w[k + 1] = t[m].parent BY <1>1, <1>2, <1>3, <2>1
  <2> QED BY <1>1, <2>1, <2>2
<1>5. CASE k = C
  <2> DEFINE B == {j \in Nat : j <= C => w[C - j] \in Live(t)}
  <2>1. 0 \in B BY <1>1, <1>2, <1>5
  <2>2. ASSUME NEW j \in Nat, j \in B PROVE j + 1 \in B
    <3> SUFFICES ASSUME j + 1 <= C PROVE w[C - (j + 1)] \in Live(t) OBVIOUS
    <3>1. C - j \in 0 .. C /\ C - j # 0 /\ C - j - 1 = C - (j + 1) BY <1>1
    <3>2. w[C - j] = ParentOf(t, w[C - (j + 1)]) BY <1>1, <3>1
    <3>3. w[C - j] \in Live(t) BY <1>1, <2>2
    <3> QED BY <3>2, <3>3 DEF ParentOf, Walkable
  <2> HIDE DEF B
  <2>3. \A j \in Nat : j \in B BY <2>1, <2>2, Induction
  <2>4. ASSUME NEW j \in 0 .. C PROVE w[j] \in Live(t)
    <3>1. C - j \in Nat /\ C - j <= C /\ C - (C - j) = j BY <1>1
    <3> QED BY <2>3, <3>1 DEF B
  <2> DEFINE f == [j \in 0 .. C |-> w[j]]
  <2>5. f \in [0 .. C -> Live(t)] BY <2>4
  <2>6. IsFiniteSet(0 .. C) /\ Cardinality(0 .. C) = C + 1 BY <1>1, FS_Interval
  <2>7. IsFiniteSet(Live(t)) /\ Cardinality(Live(t)) < Cardinality(0 .. C) BY <1>1, <2>6 DEF C, Walkable
  <2>8. \E i, j \in 0 .. C : i # j /\ f[i] = f[j]
    <3> HIDE DEF f
    <3> QED BY <2>5, <2>6, <2>7, FS_PigeonHole
  <2>9. \E i, j \in 0 .. C : i < j /\ w[i] = w[j] BY <2>8
  <2>10. PICK i \in 0 .. C, j \in 0 .. C : i < j /\ w[i] = w[j] BY <2>9
  <2> DEFINE P == {l \in Nat : j + l <= C => w[i + l] = w[j + l]}
  <2>11. 0 \in P BY <2>10
  <2>12. ASSUME NEW l \in Nat, l \in P PROVE l + 1 \in P
    <3> SUFFICES ASSUME j + (l + 1) <= C PROVE w[i + (l + 1)] = w[j + (l + 1)] OBVIOUS
    <3>1. /\ i + (l + 1) \in 0 .. C /\ i + (l + 1) # 0 /\ i + (l + 1) - 1 = i + l
          /\ j + (l + 1) \in 0 .. C /\ j + (l + 1) # 0 /\ j + (l + 1) - 1 = j + l
          /\ j + l <= C
      BY <1>1, <2>10
    <3>2. w[i + l] = w[j + l] BY <2>12, <3>1
    <3> QED BY <1>1, <3>1, <3>2
  <2> HIDE DEF P
  <2>13. \A l \in Nat : l \in P BY <2>11, <2>12, Induction
  <2> DEFINE e == i + (C - j)
  <2>14. C - j \in Nat /\ j + (C - j) = C /\ e \in 0 .. C /\ e < C BY <1>1, <2>10
  <2>15. w[e] = w[C] BY <2>13, <2>14 DEF P
  <2>16. e \in Nat /\ e + 1 \in 0 .. C /\ e + 1 # 0 /\ e + 1 - 1 = e BY <1>1, <2>14
  <2> HIDE DEF e
  <2>17. w[e + 1] = t[m].parent
    <3>1. \A l \in 0 .. C : l # 0 => w[l] = ParentOf(t, w[l - 1]) BY <1>1
    <3>2. w[e + 1] = ParentOf(t, w[e]) BY <2>16, <3>1
    <3>3. w[e] = m BY <1>2, <1>5, <2>15
    <3> QED BY <1>3, <3>2, <3>3
  <2> QED BY <1>1, <2>16, <2>17
<1> QED BY <1>1, <1>4, <1>5

\* A live node's walk goes on with its parent's.
LEMMA UpOne ==
    ASSUME NEW t, NEW n, Walkable(t), n \in Live(t) PROVE Up(t, n) = {n} \cup Up(t, t[n].parent)
<1> DEFINE p == t[n].parent
           S == {n} \cup Up(t, p)
<1>1. n # NoNode BY DEF Walkable
<1>2. p = NoNode \/ p \in Up(t, p) BY UpSelf
<1>3. \A m \in Up(t, p) \cap Live(t) : t[m].parent \in Up(t, p) \cup {NoNode} BY UpClosed
<1>4. Up(t, n) \subseteq S
  <2>1. \A m \in S \cap Live(t) : t[m].parent \in S \cup {NoNode} BY <1>2, <1>3
  <2>2. n \in S OBVIOUS
  <2> HIDE DEF S
  <2> QED BY <2>1, <2>2, UpLeast
<1>5. n \in Up(t, n) /\ p \in Up(t, n) \cup {NoNode} BY <1>1, UpSelf, UpClosed
<1>6. Up(t, p) \subseteq Up(t, n)
  <2>1. \A m \in Up(t, n) \cap Live(t) : t[m].parent \in Up(t, n) \cup {NoNode} BY UpClosed
  <2> QED BY <1>5, <2>1, UpLeast
<1> QED BY <1>4, <1>5, <1>6

LEMMA UpNothing == ASSUME NEW t, Walkable(t) PROVE Up(t, NoNode) = {}
<1>1. Up(t, NoNode) \subseteq {}
  <2> DEFINE S == {}
  <2>1. NoNode \in S \cup {NoNode} /\ \A m \in S \cap Live(t) : t[m].parent \in S \cup {NoNode} OBVIOUS
  <2> HIDE DEF S
  <2>2. Up(t, NoNode) \subseteq S BY <2>1, UpLeast
  <2> QED BY <2>2 DEF S
<1> QED BY <1>1

\* Whoever is above one that is above n is above n.
LEMMA UpAgain ==
    ASSUME NEW t, NEW n, Walkable(t), NEW m \in Up(t, n) PROVE Up(t, m) \subseteq Up(t, n)
<1>1. \A l \in Up(t, n) \cap Live(t) : t[l].parent \in Up(t, n) \cup {NoNode} BY UpClosed
<1> QED BY <1>1, UpLeast

-----------------------------------------------------------------------------
\* The walk along the children that defines Under.
DownFrom(t, n, g) ==
    g = [k \in 0 .. Cardinality(Live(t)) |->
           IF k = 0 THEN {n} ELSE g[k - 1] \cup UNION {t[m].children : m \in g[k - 1]}]
WalkDown(t, n) == CHOOSE g : DownFrom(t, n, g)

LEMMA UnderIs == ASSUME NEW t, NEW n PROVE Under(t, n) = WalkDown(t, n)[Cardinality(Live(t))]
BY DEF Under, WalkDown, DownFrom

LEMMA DownFromExists == ASSUME NEW t, NEW n, Walkable(t) PROVE DownFrom(t, n, WalkDown(t, n))
<1> DEFINE C == Cardinality(Live(t))
           Further(T) == T \cup UNION {t[m].children : m \in T}
           Good(g, m) == g[0] = {n} /\ \A k \in 1 .. m : g[k] = Further(g[k - 1])
           B == {m \in Nat : \E g : Good(g, m)}
<1>0. C \in Nat BY FS_CardinalityType DEF Walkable
<1> HIDE DEF C, Further
<1>1. 0 \in B
  <2>1. Good([k \in {0} |-> {n}], 0) OBVIOUS
  <2> QED BY <2>1
<1>2. ASSUME NEW m \in Nat, m \in B PROVE m + 1 \in B
  <2>1. PICK g : Good(g, m) BY <1>2
  <2> DEFINE h == [k \in 0 .. m + 1 |-> IF k = m + 1 THEN Further(g[m]) ELSE g[k]]
  <2>2. ASSUME NEW k \in 1 .. m + 1 PROVE h[k] = Further(h[k - 1])
    <3>1. k - 1 \in 0 .. m /\ h[k - 1] = g[k - 1] OBVIOUS
    <3>2. CASE k = m + 1 BY <3>1, <3>2
    <3>3. CASE k # m + 1
      <4>1. k \in 1 .. m /\ h[k] = g[k] BY <3>3
      <4> QED BY <2>1, <3>1, <4>1
    <3> QED BY <3>2, <3>3
  <2>3. h[0] = {n} BY <2>1
  <2> HIDE DEF h
  <2>4. Good(h, m + 1) BY <2>2, <2>3
  <2> QED BY <2>4
<1> HIDE DEF B
<1>3. C \in B BY <1>0, <1>1, <1>2, Induction
<1>4. PICK g : Good(g, C) BY <1>3 DEF B
<1> DEFINE h == [k \in 0 .. C |-> g[k]]
           E(k) == IF k = 0 THEN {n} ELSE Further(h[k - 1])
<1>5. \A k \in 0 .. C : h[k] = E(k)
  <2> TAKE k \in 0 .. C
  <2>1. CASE k = 0 BY <1>4, <2>1
  <2>2. CASE k # 0
    <3>1. k \in 1 .. C /\ k - 1 \in 0 .. C BY <1>0, <2>2
    <3> QED BY <1>4, <2>2, <3>1
  <2> QED BY <2>1, <2>2
<1>6. h = [k \in 0 .. C |-> h[k]] OBVIOUS
<1> HIDE DEF h
<1>7. h = [k \in 0 .. C |-> E(k)] BY <1>5, <1>6
<1>8. \E f : DownFrom(t, n, f) BY <1>7 DEF DownFrom, C, E, Further
<1> QED BY <1>8 DEF WalkDown

LEMMA DownSteps ==
    ASSUME NEW t, NEW n, Walkable(t)
    PROVE  LET w == WalkDown(t, n)
               C == Cardinality(Live(t))
           IN /\ C \in Nat /\ w[0] = {n} /\ Under(t, n) = w[C]
              /\ \A k \in 0 .. C : k # 0 => w[k] = w[k - 1] \cup UNION {t[m].children : m \in w[k - 1]}
<1> DEFINE C == Cardinality(Live(t))
           w == WalkDown(t, n)
           E(k) == IF k = 0 THEN {n} ELSE w[k - 1] \cup UNION {t[m].children : m \in w[k - 1]}
<1>0. C \in Nat BY FS_CardinalityType DEF Walkable
<1>1. w = [k \in 0 .. C |-> E(k)] BY DownFromExists DEF DownFrom
<1>2. Under(t, n) = w[C] BY UnderIs
<1> HIDE DEF w, E, C
<1>3. \A k \in 0 .. C : w[k] = E(k) BY <1>1
<1>4. w[0] = E(0) BY <1>0, <1>3
<1> USE DEF E
<1>5. w[0] = {n} BY <1>4
<1>6. \A k \in 0 .. C : k # 0 => w[k] = w[k - 1] \cup UNION {t[m].children : m \in w[k - 1]} BY <1>3
<1> QED BY <1>0, <1>2, <1>5, <1>6 DEF w, C

\* Under is the least set that has n and with each node its children.
LEMMA UnderLeast ==
    ASSUME NEW t, NEW n, Walkable(t), NEW S, n \in S, \A m \in S : t[m].children \subseteq S
    PROVE  n \in Under(t, n) /\ Under(t, n) \subseteq S
<1> DEFINE w == WalkDown(t, n)
           C == Cardinality(Live(t))
           B == {k \in Nat : k <= C => n \in w[k] /\ w[k] \subseteq S}
<1>1. /\ C \in Nat /\ w[0] = {n} /\ Under(t, n) = w[C]
      /\ \A k \in 0 .. C : k # 0 => w[k] = w[k - 1] \cup UNION {t[m].children : m \in w[k - 1]}
  BY DownSteps
<1> HIDE DEF w, C
<1>2. 0 \in B BY <1>1
<1>3. ASSUME NEW k \in Nat, k \in B PROVE k + 1 \in B
  <2> SUFFICES ASSUME k + 1 <= C PROVE n \in w[k + 1] /\ w[k + 1] \subseteq S OBVIOUS
  <2>1. n \in w[k] /\ w[k] \subseteq S BY <1>1, <1>3
  <2>2. k + 1 \in 0 .. C /\ k + 1 # 0 /\ k + 1 - 1 = k BY <1>1
  <2>3. w[k + 1] = w[k] \cup UNION {t[m].children : m \in w[k]}
    <3>1. w[k + 1] = w[k + 1 - 1] \cup UNION {t[m].children : m \in w[k + 1 - 1]} BY <1>1, <2>2
    <3> QED BY <2>2, <3>1
  <2> QED BY <2>1, <2>3
<1> HIDE DEF B
<1>4. \A k \in Nat : k \in B BY <1>2, <1>3, Induction
<1>5. C \in B BY <1>1, <1>4
<1> QED BY <1>1, <1>5 DEF B

\* It is closed: as long as it grows it has one node more at each step.
LEMMA UnderClosed ==
    ASSUME NEW t, NEW n, Walkable(t), n \in Live(t), \A m \in Live(t) : t[m].children \subseteq Live(t)
    PROVE  Under(t, n) \subseteq Live(t) /\ \A m \in Under(t, n) : t[m].children \subseteq Under(t, n)
<1> DEFINE w == WalkDown(t, n)
           C == Cardinality(Live(t))
           Still(k) == \A m \in w[k] : t[m].children \subseteq w[k]
           B == {k \in Nat : k <= C => /\ w[k] \subseteq Live(t)
                                       /\ Still(k) \/ k + 1 <= Cardinality(w[k])}
<1>1. /\ C \in Nat /\ w[0] = {n} /\ Under(t, n) = w[C]
      /\ \A k \in 0 .. C : k # 0 => w[k] = w[k - 1] \cup UNION {t[m].children : m \in w[k - 1]}
  BY DownSteps
<1>2. Under(t, n) \subseteq Live(t) BY UnderLeast
<1>3. IsFiniteSet(Live(t)) /\ C = Cardinality(Live(t)) BY DEF Walkable
<1> HIDE DEF w, C
<1>4. \A T \in SUBSET Live(t) : IsFiniteSet(T) /\ Cardinality(T) \in Nat /\ Cardinality(T) <= C
  BY <1>3, FS_Subset, FS_CardinalityType
<1>5. 0 \in B
  <2>1. Cardinality({n}) = 1 /\ {n} \subseteq Live(t) BY FS_Singleton
  <2>2. Cardinality(w[0]) = 1 /\ w[0] \subseteq Live(t) BY <1>1, <2>1
  <2> HIDE DEF Still
  <2> QED BY <2>2
<1>6. ASSUME NEW k \in Nat, k \in B PROVE k + 1 \in B
  <2> SUFFICES ASSUME k + 1 <= C
               PROVE  w[k + 1] \subseteq Live(t) /\ (Still(k + 1) \/ k + 1 + 1 <= Cardinality(w[k + 1]))
    OBVIOUS
  <2>1. w[k] \subseteq Live(t) /\ (Still(k) \/ k + 1 <= Cardinality(w[k])) BY <1>1, <1>6
  <2>2. k + 1 \in 0 .. C /\ k + 1 # 0 /\ k + 1 - 1 = k BY <1>1
  <2>3. w[k + 1] = w[k] \cup UNION {t[m].children : m \in w[k]}
    <3>1. w[k + 1] = w[k + 1 - 1] \cup UNION {t[m].children : m \in w[k + 1 - 1]} BY <1>1, <2>2
    <3> QED BY <2>2, <3>1
  <2>4. w[k + 1] \subseteq Live(t) BY <2>1, <2>3
  <2>5. CASE w[k + 1] = w[k]
    <3>1. Still(k) BY <2>3, <2>5
    <3> QED BY <2>4, <2>5, <3>1
  <2>6. CASE w[k + 1] # w[k] /\ Still(k) BY <2>3, <2>6
  <2>7. CASE w[k + 1] # w[k] /\ k + 1 <= Cardinality(w[k])
    <3> HIDE DEF Still
    <3>1. w[k] \in SUBSET w[k + 1] /\ IsFiniteSet(w[k + 1]) BY <1>4, <2>3, <2>4
    <3>2. Cardinality(w[k]) <= Cardinality(w[k + 1]) /\ Cardinality(w[k]) # Cardinality(w[k + 1])
      BY <2>7, <3>1, FS_Subset
    <3>3. Cardinality(w[k]) \in Nat /\ Cardinality(w[k + 1]) \in Nat BY <1>4, <2>1, <2>4
    <3> QED BY <2>4, <2>7, <3>2, <3>3
  <2> QED BY <2>1, <2>5, <2>6, <2>7
<1> HIDE DEF B
<1>7. \A k \in Nat : k \in B BY <1>5, <1>6, Induction
<1>8. w[C] \subseteq Live(t) /\ (Still(C) \/ C + 1 <= Cardinality(w[C])) BY <1>1, <1>7 DEF B
<1>9. Cardinality(w[C]) <= C /\ Cardinality(w[C]) \in Nat BY <1>4, <1>8
<1>10. Still(C) BY <1>1, <1>8, <1>9
<1> QED BY <1>1, <1>2, <1>10

-----------------------------------------------------------------------------
(***************************************************************************)
(* Trees                                                                   *)
(***************************************************************************)
Nodes == [parent : Ids \cup {NoNode}, children : SUBSET Ids, fields : Fields]
IsTree(t) == IsFiniteSet(Live(t)) /\ Live(t) \subseteq Ids /\ t \in [Live(t) -> Nodes]
Whole(t) == IsTree(t) /\ Sound(t)

\* A node, with what a call makes of its parent and its children.
NodeOf(p, c, f) == [parent |-> p, children |-> c, fields |-> f]

LEMMA TreeWalkable == ASSUME NEW t, IsTree(t) PROVE Walkable(t)
BY TreeAssumption DEF IsTree, Walkable

LEMMA NodeIs == ASSUME NEW t, IsTree(t), NEW n \in Live(t)
                PROVE  /\ t[n] = NodeOf(t[n].parent, t[n].children, t[n].fields)
                       /\ t[n].parent \in Ids \cup {NoNode} /\ t[n].children \subseteq Ids /\ t[n].fields \in Fields
<1>1. t[n] \in Nodes BY DEF IsTree
<1> QED BY <1>1 DEF Nodes, NodeOf

IsFun(t) == t = [n \in Live(t) |-> t[n]]

LEMMA TreeMade ==
    ASSUME NEW t, IsFiniteSet(Live(t)), Live(t) \subseteq Ids, IsFun(t),
           \A n \in Live(t) : \E p \in Ids \cup {NoNode}, c \in SUBSET Ids, f \in Fields : t[n] = NodeOf(p, c, f)
    PROVE  IsTree(t)
<1>1. ASSUME NEW n \in Live(t) PROVE t[n] \in Nodes
  <2>1. PICK p \in Ids \cup {NoNode}, c \in SUBSET Ids, f \in Fields : t[n] = NodeOf(p, c, f) OBVIOUS
  <2> QED BY <2>1 DEF NodeOf, Nodes
<1> QED BY <1>1 DEF IsTree, IsFun

\* In a sound tree the children of a node are those that have it for a parent, so that the
\* tree is known from the parents.
LEMMA ChildrenAre ==
    ASSUME NEW t, Whole(t), NEW n \in Live(t) PROVE t[n].children = {m \in Live(t) : t[m].parent = n}
<1>1. ASSUME NEW m \in Live(t), t[m].parent = n PROVE m \in t[n].children
  <2>1. n # NoNode BY TreeWalkable DEF Whole, Walkable
  <2> QED BY <1>1, <2>1 DEF Whole, Sound
<1> QED BY <1>1 DEF Whole, Sound

LEMMA SameTree ==
    ASSUME NEW t, NEW s, Whole(t), Whole(s), Live(s) = Live(t),
           \A n \in Live(t) : s[n].parent = t[n].parent /\ s[n].fields = t[n].fields
    PROVE  s = t
<1>1. ASSUME NEW n \in Live(t) PROVE s[n] = t[n]
  <2>1. s[n].children = {m \in Live(s) : s[m].parent = n} BY ChildrenAre
  <2>2. t[n].children = {m \in Live(t) : t[m].parent = n} BY ChildrenAre
  <2>3. s[n].children = t[n].children BY <2>1, <2>2
  <2>4. s[n] = NodeOf(s[n].parent, s[n].children, s[n].fields) BY NodeIs DEF Whole
  <2>5. t[n] = NodeOf(t[n].parent, t[n].children, t[n].fields) BY NodeIs DEF Whole
  <2> QED BY <2>3, <2>4, <2>5
<1>2. s = [n \in Live(t) |-> s[n]] /\ t = [n \in Live(t) |-> t[n]] BY DEF Whole, IsTree
<1> QED BY <1>1, <1>2

-----------------------------------------------------------------------------
\* What a move writes.
MovedNode(t, n, p, m) ==
    NodeOf(IF m = n THEN p ELSE t[m].parent,
           (t[m].children \cup (IF m = p THEN {n} ELSE {})) \ (IF m = t[n].parent THEN {n} ELSE {}),
           t[m].fields)

LEMMA MovedNodeIs ==
    ASSUME NEW t, NEW n, NEW p, NEW m
    PROVE  LET r == MovedNode(t, n, p, m)
           IN /\ r.parent = (IF m = n THEN p ELSE t[m].parent) /\ r.fields = t[m].fields
              /\ r.children = (t[m].children \cup (IF m = p THEN {n} ELSE {}))
                              \ (IF m = t[n].parent THEN {n} ELSE {})
BY DEF MovedNode, NodeOf

LEMMA MovedIs ==
    ASSUME NEW t, IsTree(t), NEW n \in Live(t), NEW p \in Live(t) \cup {NoNode}
    PROVE  LET s == Moved(t, n, p)
           IN /\ Live(s) = Live(t) /\ IsFun(s)
              /\ \A m \in Live(t) : s[m] = MovedNode(t, n, p, m)
<1> DEFINE q == t[n].parent
           a == IF p = NoNode THEN t ELSE [t EXCEPT ![p].children = @ \cup {n}]
           b == WithoutChild(a, q, n)
           s == Moved(t, n, p)
           L == Live(t)
           A(m) == t[m].children \cup (IF m = p THEN {n} ELSE {})
           BB(m) == A(m) \ (IF m = q THEN {n} ELSE {})
<1>0. NoNode \notin L /\ t = [m \in L |-> t[m]] /\ \A m \in L : t[m] = NodeOf(t[m].parent, t[m].children, t[m].fields)
  BY TreeWalkable, NodeIs DEF Walkable, IsTree
<1>1. DOMAIN a = L /\ a = [m \in L |-> a[m]] /\ \A m \in L : a[m] = NodeOf(t[m].parent, A(m), t[m].fields)
  <2>1. CASE p = NoNode
    <3>1. a = t BY <2>1
    <3>2. \A m \in L : A(m) = t[m].children BY <1>0, <2>1
    <3> QED BY <1>0, <3>1, <3>2 DEF Live
  <2>2. CASE p # NoNode
    <3>1. a = [t EXCEPT ![p].children = @ \cup {n}] BY <2>2
    <3>2. DOMAIN a = L /\ a = [m \in L |-> a[m]] BY <1>0, <3>1 DEF Live
    <3>3. ASSUME NEW m \in L PROVE a[m] = NodeOf(t[m].parent, A(m), t[m].fields)
      <4>1. CASE m # p
        <5>1. a[m] = t[m] BY <1>0, <3>1, <4>1 DEF Live
        <5>2. A(m) = t[m].children BY <4>1
        <5> QED BY <1>0, <5>1, <5>2
      <4>2. CASE m = p
        <5>1. a[m] = [t[m] EXCEPT !.children = @ \cup {n}] BY <1>0, <3>1, <4>2 DEF Live
        <5>2. t[m] = NodeOf(t[m].parent, t[m].children, t[m].fields) BY <1>0
        <5>3. a[m] = NodeOf(t[m].parent, t[m].children \cup {n}, t[m].fields) BY <5>1, <5>2 DEF NodeOf
        <5>4. A(m) = t[m].children \cup {n} BY <4>2
        <5> QED BY <5>3, <5>4
      <4> QED BY <4>1, <4>2
    <3> QED BY <3>2, <3>3
  <2> QED BY <2>1, <2>2
<1> HIDE DEF a
<1>2. DOMAIN b = L /\ b = [m \in L |-> b[m]] /\ \A m \in L : b[m] = NodeOf(t[m].parent, BB(m), t[m].fields)
  <2>1. CASE q \notin L
    <3>1. b = a BY <1>1, <2>1 DEF WithoutChild, Live
    <3>2. \A m \in L : BB(m) = A(m) BY <2>1
    <3> HIDE DEF A, BB, b
    <3> QED BY <1>1, <3>1, <3>2
  <2>2. CASE q \in L
    <3>1. b = [a EXCEPT ![q].children = @ \ {n}] BY <1>1, <2>2 DEF WithoutChild, Live
    <3> HIDE DEF A
    <3>2. DOMAIN b = L /\ b = [m \in L |-> b[m]] BY <1>1, <3>1
    <3>3. ASSUME NEW m \in L PROVE b[m] = NodeOf(t[m].parent, BB(m), t[m].fields)
      <4>1. CASE m # q
        <5>1. b[m] = a[m] BY <1>1, <3>1, <4>1
        <5>2. BB(m) = A(m) BY <4>1
        <5> QED BY <1>1, <5>1, <5>2
      <4>2. CASE m = q
        <5>1. b[m] = [a[m] EXCEPT !.children = @ \ {n}] BY <1>1, <3>1, <4>2
        <5>2. a[m] = NodeOf(t[m].parent, A(m), t[m].fields) BY <1>1
        <5>3. b[m] = NodeOf(t[m].parent, A(m) \ {n}, t[m].fields) BY <5>1, <5>2 DEF NodeOf
        <5>4. BB(m) = A(m) \ {n} BY <4>2
        <5> QED BY <5>3, <5>4
      <4> QED BY <4>1, <4>2
    <3> QED BY <3>2, <3>3
  <2> QED BY <2>1, <2>2
<1>3. s = [b EXCEPT ![n].parent = p] BY DEF Moved, a
<1> HIDE DEF b, s, A, BB
<1>4. DOMAIN s = L /\ s = [m \in L |-> s[m]] BY <1>2, <1>3
<1>5. ASSUME NEW m \in L PROVE s[m] = NodeOf(IF m = n THEN p ELSE t[m].parent, BB(m), t[m].fields)
  <2>1. CASE m # n BY <1>2, <1>3, <2>1
  <2>2. CASE m = n
    <3>1. s[m] = [b[m] EXCEPT !.parent = p] BY <1>2, <1>3, <2>2
    <3>2. b[m] = NodeOf(t[m].parent, BB(m), t[m].fields) BY <1>2
    <3>3. s[m] = NodeOf(p, BB(m), t[m].fields) BY <3>1, <3>2 DEF NodeOf
    <3> QED BY <2>2, <3>3
  <2> QED BY <2>1, <2>2
<1>6. Live(s) = L BY <1>4 DEF Live
<1>7. ASSUME NEW m \in L PROVE s[m] = MovedNode(t, n, p, m) BY <1>5 DEF MovedNode, BB, A, q
<1>8. IsFun(s) BY <1>4 DEF IsFun, Live
<1> QED BY <1>6, <1>7, <1>8 DEF s

LEMMA MovedTyped ==
    ASSUME NEW t, IsTree(t), NEW n \in Live(t), NEW p \in Live(t) \cup {NoNode}
    PROVE  IsTree(Moved(t, n, p))
<1> DEFINE s == Moved(t, n, p)
<1>1. /\ Live(s) = Live(t) /\ IsFun(s)
      /\ \A m \in Live(t) : s[m] = MovedNode(t, n, p, m)
  BY MovedIs
<1> HIDE DEF s
<1>2. Live(t) \subseteq Ids /\ IsFiniteSet(Live(t)) BY DEF IsTree
<1>3. ASSUME NEW m \in Live(s)
      PROVE  \E q \in Ids \cup {NoNode}, c \in SUBSET Ids, f \in Fields : s[m] = NodeOf(q, c, f)
  <2>1. t[m].parent \in Ids \cup {NoNode} /\ t[m].children \subseteq Ids /\ t[m].fields \in Fields
    BY <1>1, NodeIs
  <2> DEFINE q == IF m = n THEN p ELSE t[m].parent
             c == (t[m].children \cup (IF m = p THEN {n} ELSE {})) \ (IF m = t[n].parent THEN {n} ELSE {})
  <2>2. q \in Ids \cup {NoNode} /\ c \in SUBSET Ids BY <1>2, <2>1
  <2>3. s[m] = NodeOf(q, c, t[m].fields) BY <1>1 DEF MovedNode
  <2> QED BY <2>1, <2>2, <2>3
<1>4. IsTree(s) BY <1>1, <1>2, <1>3, TreeMade
<1> QED BY <1>4 DEF s

LEMMA MoveTyped ==
    ASSUME NEW t, IsTree(t), NEW n, NEW p
    PROVE  /\ IsTree(Move(t, n, p)) /\ Live(Move(t, n, p)) = Live(t)
           /\ \A m \in Live(t) : Move(t, n, p)[m].fields = t[m].fields
<1>1. CASE ~CanMove(t, n, p) BY <1>1 DEF Move
<1>2. CASE CanMove(t, n, p)
  <2>1. n \in Live(t) /\ p \in Live(t) \cup {NoNode} /\ Move(t, n, p) = Moved(t, n, p) BY <1>2 DEF CanMove, Move
  <2>2. /\ Live(Moved(t, n, p)) = Live(t)
        /\ \A m \in Live(t) : Moved(t, n, p)[m] = MovedNode(t, n, p, m)
    BY <2>1, MovedIs
  <2>3. \A m \in Live(t) : Moved(t, n, p)[m].fields = t[m].fields BY <2>2, MovedNodeIs
  <2> QED BY <2>1, <2>2, <2>3, MovedTyped
<1> QED BY <1>1, <1>2

\* A node that is moved, but not to the parent it has, keeps the tree sound.
Reparented(t, s, n, p) ==
    /\ Live(s) = Live(t)
    /\ \A m \in Live(t) : /\ s[m].parent = IF m = n THEN p ELSE t[m].parent
                          /\ s[m].fields = t[m].fields

LEMMA MoveSound ==
    ASSUME NEW t, Whole(t), NEW n, NEW p, CanMove(t, n, p), ~Crosses(t, n, p)
    PROVE  Whole(Move(t, n, p)) /\ Reparented(t, Move(t, n, p), n, p)
<1> DEFINE s == Move(t, n, p)
           q == t[n].parent
           L == Live(t)
<1>0. IsTree(t) /\ Sound(t) /\ Walkable(t) BY TreeWalkable DEF Whole
<1>1. n \in L /\ p \in L \cup {NoNode} /\ n \notin Up(t, p) /\ s = Moved(t, n, p) BY DEF CanMove, Move
<1>2. p # NoNode => q # p BY DEF Crosses
<1>3. Live(s) = L /\ \A m \in L : s[m] = MovedNode(t, n, p, m)
  BY <1>0, <1>1, MovedIs
<1>4. IsTree(s) BY <1>0, MoveTyped
<1> HIDE DEF s
<1>5. Walkable(s) BY <1>4, TreeWalkable
<1>6. \A m \in L : /\ s[m].parent = (IF m = n THEN p ELSE t[m].parent)
                   /\ s[m].children = (t[m].children \cup (IF m = p THEN {n} ELSE {}))
                                      \ (IF m = q THEN {n} ELSE {})
                   /\ s[m].fields = t[m].fields
  BY <1>3, MovedNodeIs
<1>7. NoNode \notin L BY <1>0 DEF Walkable
<1>8. ASSUME NEW m \in L
      PROVE  s[m].parent = NoNode \/ (s[m].parent \in L /\ m \in s[s[m].parent].children)
  <2>1. CASE m = n
    <3>1. s[m].parent = p BY <1>6, <2>1
    <3>2. CASE p # NoNode
      <4>1. p \in L /\ p # q BY <1>1, <1>2, <3>2
      <4>2. n \in s[p].children BY <1>6, <4>1
      <4> QED BY <2>1, <3>1, <4>1, <4>2
    <3> QED BY <3>1, <3>2
  <2>2. CASE m # n
    <3>1. s[m].parent = t[m].parent BY <1>6, <2>2
    <3>2. t[m].parent = NoNode \/ (t[m].parent \in L /\ m \in t[t[m].parent].children) BY <1>0 DEF Sound
    <3>3. CASE t[m].parent \in L
      <4>1. m \in t[t[m].parent].children BY <1>7, <3>2, <3>3
      <4>2. m \in s[t[m].parent].children BY <1>6, <2>2, <3>3, <4>1
      <4> QED BY <3>1, <3>3, <4>2
    <3> QED BY <3>1, <3>2, <3>3
  <2> QED BY <2>1, <2>2
<1>9. ASSUME NEW m \in L, NEW x \in s[m].children PROVE x \in L /\ s[x].parent = m
  <2>1. s[m].children = (t[m].children \cup (IF m = p THEN {n} ELSE {})) \ (IF m = q THEN {n} ELSE {}) BY <1>6
  <2>2. CASE x = n
    <3>1. m # q BY <1>9, <2>1, <2>2
    <3>2. n \in t[m].children => q = m BY <1>0 DEF Sound
    <3>3. m = p BY <1>9, <2>1, <2>2, <3>1, <3>2
    <3> QED BY <1>1, <1>6, <2>2, <3>3
  <2>3. CASE x # n
    <3>1. x \in t[m].children BY <1>9, <2>1, <2>3
    <3>2. x \in L /\ t[x].parent = m BY <1>0, <3>1 DEF Sound
    <3> QED BY <1>6, <2>3, <3>2
  <2> QED BY <2>2, <2>3
<1>10. Up(s, p) \subseteq Up(t, p)
  <2> DEFINE S == Up(t, p)
  <2>1. p \in S \cup {NoNode} BY <1>0, UpSelf
  <2>2. \A m \in S \cap Live(s) : s[m].parent \in S \cup {NoNode}
    <3>1. \A m \in S \cap L : t[m].parent \in S \cup {NoNode} BY <1>0, UpClosed
    <3> QED BY <1>1, <1>3, <1>6, <3>1
  <2> HIDE DEF S
  <2>3. Up(s, p) \subseteq S BY <1>5, <2>1, <2>2, UpLeast
  <2> QED BY <2>3 DEF S
<1>11. ASSUME NEW m \in L PROVE m \notin Up(s, s[m].parent)
  <2>1. CASE m = n BY <1>1, <1>6, <1>10, <2>1
  <2>2. CASE m # n
    <3> DEFINE x == t[m].parent
               S == Up(t, x) \cup (IF n \in Up(t, x) THEN Up(t, p) ELSE {})
    <3>1. s[m].parent = x BY <1>6, <2>2
    <3>2. m \notin Up(t, x) BY <1>0 DEF Sound
    <3>3. Up(s, x) \subseteq S
      <4>1. x \in S \cup {NoNode} BY <1>0, UpSelf
      <4>2. ASSUME NEW l \in S, l \in Live(s) PROVE s[l].parent \in S \cup {NoNode}
        <5>1. CASE l = n
          <6>1. n \in Up(t, x) BY <1>1, <4>2, <5>1
          <6>2. p \in Up(t, p) \cup {NoNode} BY <1>0, UpSelf
          <6> QED BY <1>1, <1>6, <5>1, <6>1, <6>2
        <5>2. CASE l # n /\ l \in Up(t, x)
          <6>1. t[l].parent \in Up(t, x) \cup {NoNode} BY <1>0, <1>3, <4>2, <5>2, UpClosed
          <6> QED BY <1>3, <1>6, <4>2, <5>2, <6>1
        <5>3. CASE l # n /\ l \notin Up(t, x)
          <6>1. n \in Up(t, x) /\ l \in Up(t, p) BY <4>2, <5>3
          <6>2. t[l].parent \in Up(t, p) \cup {NoNode} BY <1>0, <1>3, <4>2, <6>1, UpClosed
          <6> QED BY <1>3, <1>6, <4>2, <5>3, <6>1, <6>2
        <5> QED BY <5>1, <5>2, <5>3
      <4> HIDE DEF S, x
      <4> QED BY <1>5, <4>1, <4>2, UpLeast
    <3>4. CASE n \in Up(t, x)
      <4> SUFFICES ASSUME m \in Up(t, p) PROVE FALSE BY <3>1, <3>2, <3>3
      <4>1. Up(t, m) \subseteq Up(t, p) BY <1>0, UpAgain
      <4>2. n \in Up(t, m) BY <1>0, <3>4, UpOne
      <4> QED BY <1>1, <4>1, <4>2
    <3> QED BY <3>1, <3>2, <3>3, <3>4
  <2> QED BY <2>1, <2>2
<1>12. Sound(s) BY <1>3, <1>8, <1>9, <1>11 DEF Sound
<1> QED BY <1>3, <1>4, <1>6, <1>12 DEF Whole, Reparented, s

-----------------------------------------------------------------------------
\* A new node.
CreatedNode(t, n, p, f, m) ==
    IF m = n THEN NodeOf(p, {}, f)
    ELSE NodeOf(t[m].parent, t[m].children \cup (IF m = p THEN {n} ELSE {}), t[m].fields)

LEMMA CreatedIs ==
    ASSUME NEW t, IsTree(t), NEW n, NEW p, NEW f
    PROVE  LET s == Created(t, n, p, f)
           IN /\ Live(s) = Live(t) \cup {n} /\ IsFun(s)
              /\ \A m \in Live(t) \cup {n} : s[m] = CreatedNode(t, n, p, f, m)
<1> DEFINE a == IF p = NoNode THEN t ELSE [t EXCEPT ![p].children = @ \cup {n}]
           s == Created(t, n, p, f)
           L == Live(t)
           A(m) == t[m].children \cup (IF m = p THEN {n} ELSE {})
<1>0. NoNode \notin L /\ t = [m \in L |-> t[m]] /\ \A m \in L : t[m] = NodeOf(t[m].parent, t[m].children, t[m].fields)
  BY TreeWalkable, NodeIs DEF Walkable, IsTree
<1>1. \A m \in L : a[m] = NodeOf(t[m].parent, A(m), t[m].fields)
  <2>1. CASE p = NoNode
    <3>1. a = t BY <2>1
    <3>2. \A m \in L : A(m) = t[m].children BY <1>0, <2>1
    <3> QED BY <1>0, <3>1, <3>2
  <2>2. CASE p # NoNode
    <3>1. a = [t EXCEPT ![p].children = @ \cup {n}] BY <2>2
    <3>3. ASSUME NEW m \in L PROVE a[m] = NodeOf(t[m].parent, A(m), t[m].fields)
      <4>1. CASE m # p
        <5>1. a[m] = t[m] BY <1>0, <3>1, <4>1 DEF Live
        <5>2. A(m) = t[m].children BY <4>1
        <5> QED BY <1>0, <5>1, <5>2
      <4>2. CASE m = p
        <5>1. a[m] = [t[m] EXCEPT !.children = @ \cup {n}] BY <1>0, <3>1, <4>2 DEF Live
        <5>2. t[m] = NodeOf(t[m].parent, t[m].children, t[m].fields) BY <1>0
        <5>3. a[m] = NodeOf(t[m].parent, t[m].children \cup {n}, t[m].fields) BY <5>1, <5>2 DEF NodeOf
        <5>4. A(m) = t[m].children \cup {n} BY <4>2
        <5> QED BY <5>3, <5>4
      <4> QED BY <4>1, <4>2
    <3> QED BY <3>3
  <2> QED BY <2>1, <2>2
<1>2. s = [m \in L \cup {n} |-> IF m = n THEN NodeOf(p, {}, f) ELSE a[m]] BY DEF Created, NodeOf, a
<1> HIDE DEF a, s, A
<1>3. DOMAIN s = L \cup {n} /\ s = [m \in L \cup {n} |-> s[m]] BY <1>2
<1>4. ASSUME NEW m \in L \cup {n} PROVE s[m] = CreatedNode(t, n, p, f, m)
  <2>1. CASE m = n BY <1>2, <2>1 DEF CreatedNode
  <2>2. CASE m # n
    <3>1. m \in L /\ s[m] = a[m] BY <1>2, <2>2
    <3> QED BY <1>1, <2>2, <3>1 DEF CreatedNode, A
  <2> QED BY <2>1, <2>2
<1>5. Live(s) = L \cup {n} BY <1>3 DEF Live
<1>6. IsFun(s) BY <1>3 DEF IsFun, Live
<1> QED BY <1>4, <1>5, <1>6 DEF s

LEMMA CreatedNodeIs ==
    ASSUME NEW t, NEW n, NEW p, NEW f, NEW m
    PROVE  LET r == CreatedNode(t, n, p, f, m)
           IN /\ m = n => r.parent = p /\ r.children = {} /\ r.fields = f
              /\ m # n => /\ r.parent = t[m].parent /\ r.fields = t[m].fields
                          /\ r.children = t[m].children \cup (IF m = p THEN {n} ELSE {})
BY DEF CreatedNode, NodeOf

LEMMA CreatedTyped ==
    ASSUME NEW t, IsTree(t), NEW n \in Ids, NEW p \in Ids \cup {NoNode}, NEW f \in Fields
    PROVE  IsTree(Created(t, n, p, f)) /\ Live(Created(t, n, p, f)) = Live(t) \cup {n}
<1> DEFINE s == Created(t, n, p, f)
<1>1. /\ Live(s) = Live(t) \cup {n} /\ IsFun(s)
      /\ \A m \in Live(t) \cup {n} : s[m] = CreatedNode(t, n, p, f, m)
  BY CreatedIs
<1> HIDE DEF s
<1>2. IsFiniteSet(Live(s)) /\ Live(s) \subseteq Ids BY <1>1, FS_AddElement DEF IsTree
<1>3. ASSUME NEW m \in Live(s)
      PROVE  \E q \in Ids \cup {NoNode}, c \in SUBSET Ids, g \in Fields : s[m] = NodeOf(q, c, g)
  <2>1. CASE m = n BY <1>1, <2>1 DEF CreatedNode
  <2>2. CASE m # n
    <3>1. m \in Live(t) BY <1>1, <2>2
    <3>2. t[m].parent \in Ids \cup {NoNode} /\ t[m].children \subseteq Ids /\ t[m].fields \in Fields
      BY <3>1, NodeIs
    <3> DEFINE c == t[m].children \cup (IF m = p THEN {n} ELSE {})
    <3>3. c \in SUBSET Ids BY <3>2
    <3>4. s[m] = NodeOf(t[m].parent, c, t[m].fields) BY <1>1, <2>2 DEF CreatedNode
    <3> QED BY <3>2, <3>3, <3>4
  <2> QED BY <2>1, <2>2
<1>4. IsTree(s) BY <1>1, <1>2, <1>3, TreeMade
<1> QED BY <1>1, <1>4 DEF s

\* What is new, and that the rest is as before.
Rest(t, s, L) == \A m \in L : s[m].parent = t[m].parent /\ s[m].fields = t[m].fields

LEMMA CreatedSound ==
    ASSUME NEW t, Whole(t), NEW n \in Ids, n \notin Live(t), NEW p \in Live(t) \cup {NoNode}, NEW f \in Fields
    PROVE  LET s == Created(t, n, p, f)
           IN /\ Whole(s) /\ Live(s) = Live(t) \cup {n} /\ Rest(t, s, Live(t))
              /\ s[n].parent = p /\ s[n].fields = f
<1> DEFINE s == Created(t, n, p, f)
           L == Live(t)
<1>0. IsTree(t) /\ Sound(t) /\ Walkable(t) /\ L \subseteq Ids /\ NoNode \notin L
  BY TreeWalkable DEF Whole, IsTree, Walkable
<1>1. Live(s) = L \cup {n} /\ \A m \in L \cup {n} : s[m] = CreatedNode(t, n, p, f, m) BY <1>0, CreatedIs
<1>2. IsTree(s) BY <1>0, CreatedTyped
<1> HIDE DEF s
<1>3. s[n].parent = p /\ s[n].children = {} /\ s[n].fields = f BY <1>1, CreatedNodeIs
<1>4. \A m \in L : /\ s[m].parent = t[m].parent /\ s[m].fields = t[m].fields
                   /\ s[m].children = t[m].children \cup (IF m = p THEN {n} ELSE {})
  <2> TAKE m \in L
  <2>1. m # n /\ s[m] = CreatedNode(t, n, p, f, m) BY <1>1
  <2> QED BY <2>1, CreatedNodeIs
<1>5. Walkable(s) BY <1>2, TreeWalkable
<1>6. \A m \in L : t[m].parent \in L \cup {NoNode} BY <1>0 DEF Sound
<1>7. ASSUME NEW m \in Live(s)
      PROVE  s[m].parent = NoNode \/ (s[m].parent \in Live(s) /\ m \in s[s[m].parent].children)
  <2>1. CASE m = n
    <3>1. CASE p \in L BY <1>1, <1>3, <1>4, <2>1, <3>1
    <3> QED BY <1>3, <2>1, <3>1
  <2>2. CASE m # n
    <3>1. m \in L BY <1>1, <2>2
    <3>2. t[m].parent = NoNode \/ (t[m].parent \in L /\ m \in t[t[m].parent].children) BY <1>0, <3>1 DEF Sound
    <3> QED BY <1>1, <1>4, <3>1, <3>2
  <2> QED BY <2>1, <2>2
<1>8. ASSUME NEW m \in Live(s), NEW x \in s[m].children PROVE x \in Live(s) /\ s[x].parent = m
  <2>1. m \in L BY <1>1, <1>3, <1>8
  <2>2. x \in t[m].children \/ (x = n /\ m = p) BY <1>4, <1>8, <2>1
  <2>3. x \in t[m].children => x \in L /\ t[x].parent = m BY <1>0, <2>1 DEF Sound
  <2> QED BY <1>1, <1>3, <1>4, <2>2, <2>3
<1>9. ASSUME NEW x \in L \cup {NoNode} PROVE Up(s, x) \subseteq Up(t, x) /\ Up(t, x) \subseteq L
  <2>1. Up(t, x) \subseteq L BY <1>0, <1>6, UpLeast
  <2> DEFINE S == Up(t, x)
  <2>2. x \in S \cup {NoNode} BY <1>0, UpSelf
  <2>3. \A m \in S \cap Live(s) : s[m].parent \in S \cup {NoNode}
    <3>1. \A m \in S : m \in L /\ t[m].parent \in S \cup {NoNode} BY <1>0, <2>1, UpClosed
    <3> QED BY <1>4, <3>1
  <2> HIDE DEF S
  <2>4. Up(s, x) \subseteq S BY <1>5, <2>2, <2>3, UpLeast
  <2> QED BY <2>1, <2>4 DEF S
<1>10. ASSUME NEW m \in Live(s) PROVE m \notin Up(s, s[m].parent)
  <2>1. CASE m = n BY <1>3, <1>9, <2>1
  <2>2. CASE m # n
    <3>1. m \in L /\ s[m].parent = t[m].parent BY <1>1, <1>4, <2>2
    <3>2. m \notin Up(t, t[m].parent) BY <1>0, <3>1 DEF Sound
    <3> QED BY <1>6, <1>9, <3>1, <3>2
  <2> QED BY <2>1, <2>2
<1>11. Sound(s) BY <1>7, <1>8, <1>10 DEF Sound
<1>12. Rest(t, s, L) BY <1>4 DEF Rest
<1> QED BY <1>1, <1>2, <1>3, <1>11, <1>12 DEF Whole, s

-----------------------------------------------------------------------------
\* What is under a node is what it is above.
LEMMA UnderAre ==
    ASSUME NEW t, Whole(t), NEW n \in Live(t)
    PROVE  Under(t, n) = {m \in Live(t) : n \in Up(t, m)}
<1> DEFINE L == Live(t)
           D == {m \in L : n \in Up(t, m)}
           U == Under(t, n)
<1>0. IsTree(t) /\ Sound(t) /\ Walkable(t) /\ NoNode \notin L BY TreeWalkable DEF Whole, Walkable
<1>1. \A m \in L : t[m].children \subseteq L BY <1>0 DEF Sound
<1>2. n \in D BY <1>0, UpSelf
<1>3. ASSUME NEW m \in D PROVE t[m].children \subseteq D
  <2> SUFFICES ASSUME NEW x \in t[m].children PROVE x \in D OBVIOUS
  <2>1. x \in L /\ t[x].parent = m BY <1>0 DEF Sound
  <2>2. Up(t, x) = {x} \cup Up(t, m) BY <1>0, <2>1, UpOne
  <2> QED BY <2>1, <2>2
<1>4. n \in U /\ U \subseteq D
  <2> HIDE DEF D
  <2> QED BY <1>0, <1>2, <1>3, UnderLeast
<1>5. U \subseteq L /\ \A m \in U : t[m].children \subseteq U BY <1>0, <1>1, UnderClosed
<1> HIDE DEF U
<1>6. ASSUME NEW m \in D, m \notin U PROVE FALSE
  <2> DEFINE S == L \ U
  <2>1. m \in S BY <1>6
  <2>2. ASSUME NEW l \in S PROVE t[l].parent \in S \cup {NoNode}
    <3>1. t[l].parent = NoNode \/ (t[l].parent \in L /\ l \in t[t[l].parent].children) BY <1>0, <2>2 DEF Sound
    <3>2. t[l].parent \notin U \/ l \notin t[t[l].parent].children BY <1>5, <2>2
    <3> QED BY <1>5, <3>1, <3>2
  <2>3. Up(t, m) \subseteq S BY <1>0, <2>1, <2>2, UpLeast
  <2>4. n \notin S BY <1>4
  <2> QED BY <2>3, <2>4
<1> QED BY <1>4, <1>6 DEF U

\* Destroying a node leaves those it is not above as they are.
DestroyedNode(t, n, m) ==
    NodeOf(t[m].parent, t[m].children \ (IF m = t[n].parent THEN {n} ELSE {}), t[m].fields)

LEMMA DestroyedNodeIs ==
    ASSUME NEW t, NEW n, NEW m
    PROVE  LET r == DestroyedNode(t, n, m)
           IN /\ r.parent = t[m].parent /\ r.fields = t[m].fields
              /\ r.children = t[m].children \ (IF m = t[n].parent THEN {n} ELSE {})
BY DEF DestroyedNode, NodeOf

LEMMA DestroyedIs ==
    ASSUME NEW t, IsTree(t), NEW n \in Live(t)
    PROVE  LET s == Destroyed(t, n)
           IN /\ Live(s) = Live(t) \ Under(t, n) /\ IsFun(s)
              /\ \A m \in Live(t) \ Under(t, n) : s[m] = DestroyedNode(t, n, m)
<1> DEFINE q == t[n].parent
           b == WithoutChild(t, q, n)
           L == Live(t)
           U == Under(t, n)
           s == Destroyed(t, n)
<1>0. t = [m \in L |-> t[m]] /\ \A m \in L : t[m] = NodeOf(t[m].parent, t[m].children, t[m].fields)
  BY NodeIs DEF IsTree
<1>1. ASSUME NEW m \in L PROVE b[m] = DestroyedNode(t, n, m)
  <2>1. CASE q \notin L
    <3>1. b = t BY <2>1 DEF WithoutChild
    <3>2. m # q BY <2>1
    <3> QED BY <1>0, <3>1, <3>2 DEF DestroyedNode
  <2>2. CASE q \in L
    <3>1. b = [t EXCEPT ![q].children = @ \ {n}] BY <2>2 DEF WithoutChild
    <3>2. CASE m # q
      <4>1. b[m] = t[m] BY <1>0, <3>1, <3>2 DEF Live
      <4>2. t[m].children \ (IF m = q THEN {n} ELSE {}) = t[m].children BY <3>2
      <4> QED BY <1>0, <4>1, <4>2 DEF DestroyedNode
    <3>3. CASE m = q
      <4>1. b[m] = [t[m] EXCEPT !.children = @ \ {n}] BY <1>0, <3>1, <3>3 DEF Live
      <4>2. t[m] = NodeOf(t[m].parent, t[m].children, t[m].fields) BY <1>0
      <4>3. b[m] = NodeOf(t[m].parent, t[m].children \ {n}, t[m].fields) BY <4>1, <4>2 DEF NodeOf
      <4> QED BY <3>3, <4>3 DEF DestroyedNode
    <3> QED BY <3>2, <3>3
  <2> QED BY <2>1, <2>2
<1>2. s = [m \in L \ U |-> b[m]] BY DEF Destroyed
<1> HIDE DEF s, b, U
<1>3. DOMAIN s = L \ U /\ s = [m \in L \ U |-> s[m]] /\ \A m \in L \ U : s[m] = b[m] BY <1>2
<1>4. Live(s) = L \ U /\ IsFun(s) BY <1>3 DEF Live, IsFun
<1>5. ASSUME NEW m \in L \ U PROVE s[m] = DestroyedNode(t, n, m) BY <1>1, <1>3
<1> QED BY <1>4, <1>5 DEF s, U

LEMMA DestroyedTyped ==
    ASSUME NEW t, IsTree(t), NEW n
    PROVE  LET s == Destroyed(t, n) IN IsTree(s) /\ Live(s) \subseteq Live(t) /\ Rest(t, s, Live(s))
<1>1. CASE n \notin Live(t) BY <1>1 DEF Destroyed, Rest
<1>2. CASE n \in Live(t)
  <2> DEFINE s == Destroyed(t, n)
  <2>1. /\ Live(s) = Live(t) \ Under(t, n) /\ IsFun(s)
        /\ \A m \in Live(t) \ Under(t, n) : s[m] = DestroyedNode(t, n, m)
    BY <1>2, DestroyedIs
  <2> HIDE DEF s
  <2>2. IsFiniteSet(Live(s)) /\ Live(s) \subseteq Ids /\ Live(s) \subseteq Live(t) BY <2>1, FS_Subset DEF IsTree
  <2>3. ASSUME NEW m \in Live(s)
        PROVE  /\ \E q \in Ids \cup {NoNode}, c \in SUBSET Ids, g \in Fields : s[m] = NodeOf(q, c, g)
               /\ s[m].parent = t[m].parent /\ s[m].fields = t[m].fields
    <3>1. m \in Live(t) /\ s[m] = DestroyedNode(t, n, m) BY <2>1
    <3>2. t[m].parent \in Ids \cup {NoNode} /\ t[m].children \subseteq Ids /\ t[m].fields \in Fields
      BY <3>1, NodeIs
    <3> DEFINE c == t[m].children \ (IF m = t[n].parent THEN {n} ELSE {})
    <3>3. c \in SUBSET Ids BY <3>2
    <3>4. s[m] = NodeOf(t[m].parent, c, t[m].fields) BY <3>1 DEF DestroyedNode
    <3>5. s[m].parent = t[m].parent /\ s[m].fields = t[m].fields BY <3>1, DestroyedNodeIs
    <3> QED BY <3>2, <3>3, <3>4, <3>5
  <2>4. IsTree(s) BY <2>1, <2>2, <2>3, TreeMade
  <2>5. Rest(t, s, Live(s)) BY <2>3 DEF Rest
  <2> QED BY <2>2, <2>4, <2>5 DEF s
<1> QED BY <1>1, <1>2

LEMMA DestroyedSound ==
    ASSUME NEW t, Whole(t), NEW n \in Live(t)
    PROVE  LET s == Destroyed(t, n)
           IN /\ Whole(s) /\ Live(s) = {m \in Live(t) : n \notin Up(t, m)} /\ Rest(t, s, Live(s))
<1> DEFINE s == Destroyed(t, n)
           L == Live(t)
           U == Under(t, n)
<1>0. IsTree(t) /\ Sound(t) /\ Walkable(t) /\ NoNode \notin L BY TreeWalkable DEF Whole, Walkable
<1>1. Live(s) = L \ U /\ \A m \in L \ U : s[m] = DestroyedNode(t, n, m) BY <1>0, DestroyedIs
<1>2. U = {m \in L : n \in Up(t, m)} BY UnderAre
<1>3. IsTree(s) /\ Rest(t, s, Live(s)) BY <1>0, DestroyedTyped
<1> HIDE DEF s, U
<1>4. Walkable(s) BY <1>3, TreeWalkable
<1>5. \A m \in Live(s) : /\ m \in L /\ n \notin Up(t, m) /\ s[m].parent = t[m].parent
                         /\ s[m].children = t[m].children \ (IF m = t[n].parent THEN {n} ELSE {})
  <2> TAKE m \in Live(s)
  <2>1. m \in L /\ m \notin U /\ s[m] = DestroyedNode(t, n, m) BY <1>1
  <2>2. n \notin Up(t, m) BY <1>2, <2>1
  <2> QED BY <2>1, <2>2, DestroyedNodeIs
<1>6. \A m \in L : n \notin Up(t, m) => m \in Live(s) BY <1>1, <1>2
<1>7. n \notin Live(s) BY <1>0, <1>5, UpSelf
<1>8. \A m \in L : Up(t, m) = {m} \cup Up(t, t[m].parent) BY <1>0, UpOne
<1>9. ASSUME NEW m \in Live(s)
      PROVE  s[m].parent = NoNode \/ (s[m].parent \in Live(s) /\ m \in s[s[m].parent].children)
  <2> DEFINE x == t[m].parent
  <2>1. m \in L /\ n \notin Up(t, m) /\ s[m].parent = x BY <1>5
  <2>2. x = NoNode \/ (x \in L /\ m \in t[x].children) BY <1>0, <2>1 DEF Sound
  <2>3. n \notin Up(t, x) BY <1>8, <2>1
  <2>4. CASE x \in L
    <3>1. x \in Live(s) BY <1>6, <2>3, <2>4
    <3>2. m \in t[x].children BY <1>0, <2>2, <2>4
    <3>3. m \in s[x].children BY <1>5, <1>7, <3>1, <3>2
    <3> QED BY <2>1, <3>1, <3>3
  <2> QED BY <2>1, <2>2, <2>4
<1>10. ASSUME NEW m \in Live(s), NEW x \in s[m].children PROVE x \in Live(s) /\ s[x].parent = m
  <2>1. m \in L /\ n \notin Up(t, m) BY <1>5
  <2>2. x \in t[m].children /\ (m = t[n].parent => x # n) BY <1>5, <1>10
  <2>3. x \in L /\ t[x].parent = m BY <1>0, <2>1, <2>2 DEF Sound
  <2>4. x # n BY <2>2, <2>3
  <2>5. n \notin Up(t, x) BY <1>8, <2>1, <2>3, <2>4
  <2> QED BY <1>5, <1>6, <2>3, <2>5
<1>11. ASSUME NEW m \in Live(s) PROVE m \notin Up(s, s[m].parent)
  <2> DEFINE x == t[m].parent
             S == Up(t, x)
  <2>1. m \in L /\ s[m].parent = x /\ m \notin S BY <1>0, <1>5 DEF Sound
  <2>2. x \in S \cup {NoNode} BY <1>0, UpSelf
  <2>3. \A l \in S \cap Live(s) : s[l].parent \in S \cup {NoNode}
    <3>1. \A l \in S \cap L : t[l].parent \in S \cup {NoNode} BY <1>0, UpClosed
    <3> QED BY <1>5, <3>1
  <2> HIDE DEF S
  <2>4. Up(s, x) \subseteq S BY <1>4, <2>2, <2>3, UpLeast
  <2> QED BY <2>1, <2>4
<1>12. Sound(s) BY <1>9, <1>10, <1>11 DEF Sound
<1>13. Live(s) = {m \in L : n \notin Up(t, m)} BY <1>1, <1>2
<1> QED BY <1>3, <1>12, <1>13 DEF Whole, s

\* An update.
LEMMA SetTyped ==
    ASSUME NEW t, IsTree(t), NEW n, NEW moves \in BOOLEAN, NEW p, NEW f \in Fields
    PROVE  IsTree(Set(t, n, moves, p, f)) /\ Live(Set(t, n, moves, p, f)) = Live(t)
<1> DEFINE a == IF moves THEN Move(t, n, p) ELSE t
           s == Set(t, n, moves, p, f)
<1>1. IsTree(a) /\ Live(a) = Live(t) BY MoveTyped
<1>2. s = [a EXCEPT ![n].fields = f] BY DEF Set
<1> HIDE DEF a, s
<1>3. a \in [Live(t) -> Nodes] /\ IsFiniteSet(Live(t)) /\ Live(t) \subseteq Ids BY <1>1 DEF IsTree
<1>4. s \in [Live(t) -> Nodes]
  <2>1. ASSUME n \in Live(t) PROVE [a[n] EXCEPT !.fields = f] \in Nodes BY <1>3, <2>1 DEF Nodes
  <2> QED BY <1>2, <1>3, <2>1
<1>5. Live(s) = Live(t) BY <1>4 DEF Live
<1> QED BY <1>3, <1>4, <1>5 DEF IsTree, s

\* What an update changes: the parent, if it is to, and the fields.
Altered(t, s, n, p, f) ==
    /\ Live(s) = Live(t)
    /\ \A m \in Live(t) : /\ s[m].parent = IF m = n THEN p ELSE t[m].parent
                          /\ s[m].fields = IF m = n THEN f ELSE t[m].fields

LEMMA FieldsSound ==
    ASSUME NEW t, Whole(t), NEW n \in Live(t), NEW f \in Fields
    PROVE  LET s == [t EXCEPT ![n].fields = f] IN Whole(s) /\ Altered(t, s, n, t[n].parent, f)
<1> DEFINE s == [t EXCEPT ![n].fields = f]
           L == Live(t)
<1>0. IsTree(t) /\ Sound(t) /\ Walkable(t) BY TreeWalkable DEF Whole
<1>1. t \in [L -> Nodes] /\ IsFiniteSet(L) /\ L \subseteq Ids BY <1>0 DEF IsTree
<1>2. s \in [L -> Nodes]
  <2>1. [t[n] EXCEPT !.fields = f] \in Nodes BY <1>1 DEF Nodes
  <2> QED BY <1>1, <2>1
<1>3. Live(s) = L BY <1>2 DEF Live
<1>4. IsTree(s) BY <1>1, <1>2, <1>3 DEF IsTree
<1>5. ASSUME NEW m \in L
      PROVE  /\ s[m].parent = t[m].parent /\ s[m].children = t[m].children
             /\ s[m].fields = IF m = n THEN f ELSE t[m].fields
  <2>1. CASE m # n BY <1>1, <2>1
  <2>2. CASE m = n
    <3>1. s[m] = [t[m] EXCEPT !.fields = f] BY <1>1, <2>2
    <3>2. t[m] = NodeOf(t[m].parent, t[m].children, t[m].fields) BY <1>0, NodeIs
    <3>3. s[m] = NodeOf(t[m].parent, t[m].children, f) BY <3>1, <3>2 DEF NodeOf
    <3> QED BY <2>2, <3>3 DEF NodeOf
  <2> QED BY <2>1, <2>2
<1> HIDE DEF s
<1>6. Walkable(s) BY <1>4, TreeWalkable
<1>7. ASSUME NEW m \in L PROVE m \notin Up(s, s[m].parent)
  <2> DEFINE x == t[m].parent
             S == Up(t, x)
  <2>1. s[m].parent = x /\ m \notin S BY <1>0, <1>5 DEF Sound
  <2>2. x \in S \cup {NoNode} BY <1>0, UpSelf
  <2>3. \A l \in S \cap Live(s) : s[l].parent \in S \cup {NoNode}
    <3>1. \A l \in S \cap L : t[l].parent \in S \cup {NoNode} BY <1>0, UpClosed
    <3> QED BY <1>3, <1>5, <3>1
  <2> HIDE DEF S
  <2>4. Up(s, x) \subseteq S BY <1>6, <2>2, <2>3, UpLeast
  <2> QED BY <2>1, <2>4
<1>8. Sound(s) BY <1>0, <1>3, <1>5, <1>7 DEF Sound
<1>9. Altered(t, s, n, t[n].parent, f) BY <1>3, <1>5 DEF Altered
<1> QED BY <1>4, <1>8, <1>9 DEF Whole, s

LEMMA SetSound ==
    ASSUME NEW t, Whole(t), NEW n \in Live(t), NEW moves \in BOOLEAN, NEW p, NEW f \in Fields,
           moves => CanMove(t, n, p) /\ ~Crosses(t, n, p), ~moves => t[n].parent = p
    PROVE  Whole(Set(t, n, moves, p, f)) /\ Altered(t, Set(t, n, moves, p, f), n, p, f)
<1> DEFINE a == IF moves THEN Move(t, n, p) ELSE t
           s == Set(t, n, moves, p, f)
<1>1. Whole(a) /\ Live(a) = Live(t) /\ \A m \in Live(t) : /\ a[m].parent = (IF m = n THEN p ELSE t[m].parent)
                                                          /\ a[m].fields = t[m].fields
  <2>1. CASE moves BY <2>1, MoveSound DEF Reparented
  <2>2. CASE ~moves BY <2>2
  <2> QED BY <2>1, <2>2
<1>2. s = [a EXCEPT ![n].fields = f] BY DEF Set
<1> HIDE DEF a, s
<1>3. Whole(s) /\ Altered(a, s, n, a[n].parent, f) BY <1>1, <1>2, FieldsSound
<1>4. Altered(t, s, n, p, f) BY <1>1, <1>3 DEF Altered
<1> QED BY <1>3, <1>4 DEF s

-----------------------------------------------------------------------------
(***************************************************************************)
(* New nodes                                                               *)
(***************************************************************************)
LEMMA LeastNumber ==
    ASSUME NEW S \in SUBSET Nat, S # {} PROVE \E m \in S : \A k \in S : m <= k
<1> DEFINE R == OpToRel(<, Nat)
<1>1. IsWellFoundedOn(R, Nat) BY NatLessThanWellFounded
<1>2. PICK n \in S : \A k \in S : <<k, n>> \notin R BY <1>1, WFMin
<1>3. ASSUME NEW k \in S PROVE n <= k
  <2>1. k \in Nat /\ n \in Nat BY <1>2
  <2>2. ~(k < n) BY <1>2, <2>1 DEF OpToRel
  <2> QED BY <2>1, <2>2
<1> QED BY <1>2, <1>3

LEMMA FreshIs ==
    ASSUME NEW u \in Uuids, NEW part \in {"root", "inner"}, Free(u, part) # {}
    PROVE  LET n == Fresh(u, part)
           IN n \in Uuids \X {part} \X Generations /\ n \in Ids /\ n \notin Taken /\ UuidOf(n) = u
<1> DEFINE S == Free(u, part)
           g == CHOOSE h \in S : \A k \in S : h <= k
<1>1. S \in SUBSET Nat /\ S \subseteq Generations BY TreeAssumption DEF Free
<1>2. PICK m \in S : \A k \in S : m <= k BY <1>1, LeastNumber
<1>3. g \in S BY <1>2
<1>4. Fresh(u, part) = <<u, part, g>> BY DEF Fresh
<1> HIDE DEF g
<1>5. g \in Generations /\ <<u, part, g>> \notin Taken BY <1>1, <1>3 DEF Free
<1> QED BY <1>4, <1>5 DEF Ids, UuidOf

\* The nodes a planted object has.
NewFor(u) == {Fresh(u, "root")} \cup (IF u \in Prefabs THEN {Fresh(u, "inner")} ELSE {})

LEMMA NewForIs ==
    ASSUME NEW u \in Uuids, Room({u})
    PROVE  /\ Fresh(u, "root") \in Uuids \X {"root"} \X Generations
           /\ Fresh(u, "inner") \in Uuids \X {"inner"} \X Generations
           /\ Fresh(u, "root") \in Ids /\ Fresh(u, "inner") \in Ids /\ Fresh(u, "root") # Fresh(u, "inner")
           /\ Fresh(u, "root") \notin Taken /\ Fresh(u, "inner") \notin Taken
           /\ UuidOf(Fresh(u, "root")) = u /\ UuidOf(Fresh(u, "inner")) = u
           /\ NewFor(u) \subseteq Ids /\ NewFor(u) \cap Taken = {} /\ \A n \in NewFor(u) : UuidOf(n) = u
<1>1. Free(u, "root") # {} /\ Free(u, "inner") # {} BY DEF Room
<1>2. /\ Fresh(u, "root") \in Uuids \X {"root"} \X Generations /\ Fresh(u, "root") \in Ids
      /\ Fresh(u, "root") \notin Taken /\ UuidOf(Fresh(u, "root")) = u
  BY <1>1, FreshIs
<1>3. /\ Fresh(u, "inner") \in Uuids \X {"inner"} \X Generations /\ Fresh(u, "inner") \in Ids
      /\ Fresh(u, "inner") \notin Taken /\ UuidOf(Fresh(u, "inner")) = u
  BY <1>1, FreshIs
<1>4. Fresh(u, "root") # Fresh(u, "inner") BY <1>2, <1>3
<1>5. NewFor(u) \subseteq {Fresh(u, "root"), Fresh(u, "inner")} BY DEF NewFor
<1> QED BY <1>2, <1>3, <1>4, <1>5

LEMMA PlantTyped ==
    ASSUME NEW t, IsTree(t), NEW u \in Uuids, Room({u}), NEW p \in Ids \cup {NoNode}, NEW f \in Fields
    PROVE  IsTree(Plant(t, u, p, f)) /\ Live(Plant(t, u, p, f)) = Live(t) \cup NewFor(u)
<1> DEFINE root == Fresh(u, "root")
           a == Created(t, root, p, f)
<1>1. root \in Ids /\ Fresh(u, "inner") \in Ids BY NewForIs
<1>2. IsTree(a) /\ Live(a) = Live(t) \cup {root} BY <1>1, CreatedTyped
<1>3. CASE u \notin Prefabs
  <2>1. Plant(t, u, p, f) = a BY <1>3 DEF Plant
  <2> QED BY <1>2, <1>3, <2>1 DEF NewFor
<1>4. CASE u \in Prefabs
  <2>1. Plant(t, u, p, f) = Created(a, Fresh(u, "inner"), root, f) BY <1>4 DEF Plant
  <2> HIDE DEF a, root
  <2>2. IsTree(Plant(t, u, p, f)) /\ Live(Plant(t, u, p, f)) = Live(a) \cup {Fresh(u, "inner")}
    BY <1>1, <1>2, <2>1, CreatedTyped
  <2> QED BY <1>2, <1>4, <2>2 DEF NewFor, root
<1> QED BY <1>3, <1>4

LEMMA PlantSound ==
    ASSUME NEW t, Whole(t), NEW u \in Uuids, Room({u}), NEW p \in Live(t) \cup {NoNode}, NEW f \in Fields,
           Fresh(u, "root") \notin Live(t), Fresh(u, "inner") \notin Live(t)
    PROVE  LET s == Plant(t, u, p, f)
               root == Fresh(u, "root")
           IN /\ Whole(s) /\ Live(s) = Live(t) \cup NewFor(u) /\ Rest(t, s, Live(t))
              /\ s[root].parent = p /\ s[root].fields = f
              /\ u \in Prefabs => s[Fresh(u, "inner")].parent = root
<1> DEFINE root == Fresh(u, "root")
           in == Fresh(u, "inner")
           a == Created(t, root, p, f)
           s == Plant(t, u, p, f)
<1>1. root \in Ids /\ in \in Ids /\ root # in BY NewForIs
<1> HIDE DEF in
<1>2. Whole(a) /\ Live(a) = Live(t) \cup {root} /\ Rest(t, a, Live(t)) /\ a[root].parent = p /\ a[root].fields = f
  <2> HIDE DEF root
  <2> QED BY <1>1, CreatedSound DEF root
<1>3. CASE u \notin Prefabs
  <2>1. s = a BY <1>3 DEF Plant
  <2>2. NewFor(u) = {root} BY <1>3 DEF NewFor
  <2> HIDE DEF a, s
  <2> QED BY <1>2, <1>3, <2>1, <2>2 DEF s
<1>4. CASE u \in Prefabs
  <2>1. s = Created(a, in, root, f) BY <1>4 DEF Plant, in
  <2>2. NewFor(u) = {root, in} BY <1>4 DEF NewFor, in
  <2>3. in \notin Live(t) BY DEF in
  <2> HIDE DEF a, s, root
  <2>4. in \notin Live(a) /\ root \in Live(a) \cup {NoNode} /\ in \in Ids /\ Whole(a) BY <1>1, <1>2, <2>3
  <2> HIDE DEF in
  <2>5. Whole(s) /\ Live(s) = Live(a) \cup {in} /\ Rest(a, s, Live(a)) /\ s[in].parent = root
    BY <2>1, <2>4, CreatedSound
  <2>6. Rest(t, s, Live(t)) BY <1>2, <2>5 DEF Rest
  <2>7. s[root].parent = p /\ s[root].fields = f BY <1>2, <2>5 DEF Rest
  <2>8. Live(s) = Live(t) \cup NewFor(u) BY <1>2, <2>2, <2>5
  <2> QED BY <2>5, <2>6, <2>7, <2>8 DEF s, root, in
<1> QED BY <1>3, <1>4

-----------------------------------------------------------------------------
(***************************************************************************)
(* Scripts                                                                 *)
(***************************************************************************)
IsScript(s, n) == n \in Nat /\ DOMAIN s = 1 .. n

\* What the definition of Run as a fold chooses: the tree after each set of changes.
Turn(t, s, g, S) == IF S = {} THEN t ELSE Do(g[S \ {Max(S)}], s[Max(S)])
Turns(t, s, g) == g = [S \in SUBSET (DOMAIN s) |-> Turn(t, s, g, S)]
Ran(t, s) == CHOOSE g : Turns(t, s, g)

LEMMA RunIs == ASSUME NEW t, NEW s PROVE Run(t, s) = Ran(t, s)[DOMAIN s]
BY DEF Run, FoldLeft, MapThenFoldSet, Ran, Turns, Turn

LEMMA GreatestIn ==
    ASSUME NEW S, IsFiniteSet(S), S \subseteq Nat, S # {} PROVE Max(S) \in S /\ \A x \in S : x <= Max(S)
<1> DEFINE Bounds == {m \in Nat : \A x \in S : x <= m}
           B == {n \in Nat : \A T \in SUBSET Nat : IsFiniteSet(T) /\ Cardinality(T) = n
                                  => \E m \in Nat : \A x \in T : x <= m}
<1>1. 0 \in B
  <2> SUFFICES ASSUME NEW T \in SUBSET Nat, IsFiniteSet(T), Cardinality(T) = 0
               PROVE \E m \in Nat : \A x \in T : x <= m
    OBVIOUS
  <2> QED BY FS_EmptySet
<1>2. ASSUME NEW n \in Nat, n \in B PROVE n + 1 \in B
  <2> SUFFICES ASSUME NEW T \in SUBSET Nat, IsFiniteSet(T), Cardinality(T) = n + 1
               PROVE \E m \in Nat : \A x \in T : x <= m
    OBVIOUS
  <2>1. T # {} BY FS_EmptySet
  <2>2. PICK y \in T : TRUE BY <2>1
  <2>3. IsFiniteSet(T \ {y}) /\ Cardinality(T \ {y}) = n
    <3>1. IsFiniteSet(T \ {y}) /\ Cardinality(T \ {y}) = Cardinality(T) - 1 BY <2>2, FS_RemoveElement
    <3>2. n + 1 - 1 = n OBVIOUS
    <3> QED BY <3>1, <3>2
  <2>4. PICK m \in Nat : \A x \in T \ {y} : x <= m BY <1>2, <2>3
  <2>5. \A x \in T : x <= m + y BY <2>2, <2>4
  <2> QED BY <2>2, <2>5
<1> HIDE DEF B
<1>3. Cardinality(S) \in B BY <1>1, <1>2, Induction, FS_CardinalityType
<1>4. Bounds # {} BY <1>3, FS_CardinalityType DEF B
<1>5. Bounds \in SUBSET Nat OBVIOUS
<1>6. PICK m \in Bounds : \A k \in Bounds : m <= k
  <2> HIDE DEF Bounds
  <2> QED BY <1>4, <1>5, LeastNumber
<1>7. m \in S
  <2> SUFFICES ASSUME m \notin S PROVE FALSE OBVIOUS
  <2>1. \A x \in S : x <= m - 1 /\ m # 0 BY <1>6
  <2>2. m \in Nat /\ m # 0 BY <1>6, <2>1
  <2>3. m - 1 \in Nat /\ m - 1 < m BY <2>2
  <2>4. m - 1 \in Bounds BY <2>1, <2>3
  <2> QED BY <1>6, <2>3, <2>4
<1> QED BY <1>6, <1>7 DEF Max

LEMMA TurnsExist == ASSUME NEW t, NEW s, NEW N, IsScript(s, N) PROVE Turns(t, s, Ran(t, s))
<1> DEFINE D == DOMAIN s
           Good(g, n) == \A S \in SUBSET D : Cardinality(S) <= n => g[S] = Turn(t, s, g, S)
           B == {n \in Nat : \E g : Good(g, n)}
<1>0. D = 1 .. N /\ N \in Nat BY DEF IsScript
<1>1. IsFiniteSet(D) BY <1>0, FS_Interval
<1> HIDE DEF D
<1>2. \A S \in SUBSET D : IsFiniteSet(S) /\ Cardinality(S) \in Nat /\ Cardinality(S) <= Cardinality(D)
  BY <1>1, FS_Subset, FS_CardinalityType
<1>3. \A S \in SUBSET D : S # {} => /\ S \ {Max(S)} \in SUBSET D /\ Cardinality(S) # 0
                                    /\ Cardinality(S \ {Max(S)}) = Cardinality(S) - 1
  <2> TAKE S \in SUBSET D
  <2> HAVE S # {}
  <2>1. S \subseteq Nat BY <1>0
  <2>2. Max(S) \in S BY <1>2, <2>1, GreatestIn
  <2>3. Cardinality(S \ {Max(S)}) = Cardinality(S) - 1 BY <1>2, <2>2, FS_RemoveElement
  <2> QED BY <1>2, <2>3, FS_EmptySet
<1>4. 0 \in B
  <2> DEFINE g == [S \in SUBSET D |-> t]
  <2>1. ASSUME NEW S \in SUBSET D, Cardinality(S) <= 0 PROVE g[S] = Turn(t, s, g, S)
    <3>0. Cardinality(S) \in Nat /\ (S # {} => Cardinality(S) # 0) BY <1>2, <1>3
    <3>1. S = {} BY <2>1, <3>0
    <3> QED BY <3>1 DEF Turn
  <2>2. Good(g, 0) BY <2>1
  <2> QED BY <2>2
<1>5. ASSUME NEW n \in Nat, n \in B PROVE n + 1 \in B
  <2>1. PICK g : Good(g, n) BY <1>5
  <2> DEFINE h == [S \in SUBSET D |-> IF Cardinality(S) <= n THEN g[S] ELSE Turn(t, s, g, S)]
  <2>2. ASSUME NEW S \in SUBSET D, Cardinality(S) <= n + 1 PROVE h[S] = Turn(t, s, h, S)
    <3>1. h[S] = Turn(t, s, g, S) BY <2>1
    <3>2. CASE S = {} BY <3>1, <3>2 DEF Turn
    <3>3. CASE S # {}
      <4>1. Cardinality(S \ {Max(S)}) <= n /\ S \ {Max(S)} \in SUBSET D BY <1>2, <1>3, <2>2, <3>3
      <4>2. h[S \ {Max(S)}] = g[S \ {Max(S)}] BY <4>1
      <4> HIDE DEF h
      <4> QED BY <3>1, <3>3, <4>2 DEF Turn
    <3> QED BY <3>2, <3>3
  <2> HIDE DEF h
  <2>3. Good(h, n + 1) BY <2>2
  <2> QED BY <2>3
<1>6. Cardinality(D) \in B
  <2> HIDE DEF B
  <2> QED BY <1>1, <1>4, <1>5, Induction, FS_CardinalityType
<1>7. PICK g : Good(g, Cardinality(D)) BY <1>6
<1> DEFINE h == [S \in SUBSET D |-> g[S]]
<1>8. \A S \in SUBSET D : h[S] = Turn(t, s, h, S)
  <2> TAKE S \in SUBSET D
  <2>1. h[S] = Turn(t, s, g, S) BY <1>2, <1>7
  <2>2. CASE S = {} BY <2>1, <2>2 DEF Turn
  <2>3. CASE S # {}
    <3>1. h[S \ {Max(S)}] = g[S \ {Max(S)}] BY <1>3, <2>3
    <3> QED BY <2>1, <2>3, <3>1 DEF Turn
  <2> QED BY <2>2, <2>3
<1>9. h = [S \in SUBSET D |-> h[S]] OBVIOUS
<1> HIDE DEF h
<1>10. h = [S \in SUBSET D |-> Turn(t, s, h, S)] BY <1>8, <1>9
<1>11. \E f : Turns(t, s, f) BY <1>10 DEF Turns, D
<1> QED BY <1>11 DEF Ran

\* The tree after the first k changes.
RunAt(t, s, k) == Ran(t, s)[1 .. k]

LEMMA RunSteps ==
    ASSUME NEW t, NEW s, NEW N, IsScript(s, N)
    PROVE  /\ RunAt(t, s, 0) = t /\ Run(t, s) = RunAt(t, s, N)
           /\ \A k \in Nat : k + 1 <= N => RunAt(t, s, k + 1) = Do(RunAt(t, s, k), s[k + 1])
<1> DEFINE g == Ran(t, s)
<1>0. DOMAIN s = 1 .. N /\ N \in Nat BY DEF IsScript
<1>1. Turns(t, s, g) BY TurnsExist
<1>2. Run(t, s) = g[1 .. N] BY <1>0, RunIs
<1> HIDE DEF g
<1>3. \A S \in SUBSET (1 .. N) : g[S] = Turn(t, s, g, S)
  <2> DEFINE E(S) == Turn(t, s, g, S)
  <2>1. g = [S \in SUBSET (1 .. N) |-> E(S)] BY <1>0, <1>1 DEF Turns
  <2> HIDE DEF E
  <2>2. \A S \in SUBSET (1 .. N) : g[S] = E(S) BY <2>1
  <2> QED BY <2>2 DEF E
<1>4. g[1 .. 0] = t
  <2>1. 1 .. 0 = {} /\ 1 .. 0 \in SUBSET (1 .. N) OBVIOUS
  <2> QED BY <1>3, <2>1 DEF Turn
<1>5. ASSUME NEW k \in Nat, k + 1 <= N PROVE g[1 .. k + 1] = Do(g[1 .. k], s[k + 1])
  <2> DEFINE S == 1 .. k + 1
  <2>0. k + 1 \in S /\ \A x \in S : x \in Nat /\ x \in 1 .. N BY <1>0, <1>5
  <2>1. S \in SUBSET (1 .. N) /\ S # {} /\ S \subseteq Nat /\ k + 1 \in S BY <2>0
  <2>2. \A x \in S : x <= k + 1 OBVIOUS
  <2>3. IsFiniteSet(S) BY FS_Interval
  <2>4. S \ {k + 1} = 1 .. k OBVIOUS
  <2> HIDE DEF S
  <2>5. Max(S) \in S /\ \A x \in S : x <= Max(S) BY <2>1, <2>3, GreatestIn
  <2>6. Max(S) \in Nat /\ Max(S) <= k + 1 /\ k + 1 <= Max(S) BY <2>1, <2>2, <2>5
  <2>7. Max(S) = k + 1 BY <2>6
  <2>8. g[S] = Do(g[S \ {k + 1}], s[k + 1]) BY <1>3, <2>1, <2>7 DEF Turn
  <2> QED BY <2>4, <2>8 DEF S
<1> QED BY <1>2, <1>4, <1>5 DEF RunAt, g

\* A script that begins as another one has come to the same tree where that one ends.
LEMMA RunPrefix ==
    ASSUME NEW t, NEW s, NEW N, IsScript(s, N), NEW r, NEW M, IsScript(r, M), M <= N,
           \A k \in 1 .. M : r[k] = s[k]
    PROVE  RunAt(t, s, M) = Run(t, r)
<1> DEFINE B == {k \in Nat : k <= M => RunAt(t, s, k) = RunAt(t, r, k)}
<1>0. M \in Nat /\ N \in Nat BY DEF IsScript
<1>1. 0 \in B BY RunSteps
<1>2. ASSUME NEW k \in Nat, k \in B PROVE k + 1 \in B
  <2> SUFFICES ASSUME k + 1 <= M PROVE RunAt(t, s, k + 1) = RunAt(t, r, k + 1) OBVIOUS
  <2>1. k + 1 <= N /\ k <= M /\ k + 1 \in 1 .. M BY <1>0
  <2>2. RunAt(t, s, k) = RunAt(t, r, k) /\ r[k + 1] = s[k + 1] BY <1>2, <2>1
  <2>3. RunAt(t, s, k + 1) = Do(RunAt(t, s, k), s[k + 1]) BY <2>1, RunSteps
  <2>4. RunAt(t, r, k + 1) = Do(RunAt(t, r, k), r[k + 1]) BY RunSteps
  <2> QED BY <2>2, <2>3, <2>4
<1> HIDE DEF B
<1>3. \A k \in Nat : k \in B BY <1>1, <1>2, Induction
<1>4. RunAt(t, s, M) = RunAt(t, r, M) BY <1>0, <1>3 DEF B
<1>5. Run(t, r) = RunAt(t, r, M) BY RunSteps
<1> QED BY <1>4, <1>5

LEMMA DoIs ==
    ASSUME NEW t
    PROVE  /\ \A u, p, f : Do(t, Planting(u, p, f)) = Plant(t, u, p, f)
           /\ \A n, p : Do(t, Moving(n, p)) = Move(t, n, p)
           /\ \A n, moves, p, f : Do(t, Setting(n, moves, p, f)) = Set(t, n, moves, p, f)
           /\ \A n : Do(t, Destroying(n)) = Destroyed(t, n)
BY DEF Do, Planting, Moving, Setting, Destroying

-----------------------------------------------------------------------------
(***************************************************************************)
(* Sets as lists                                                           *)
(***************************************************************************)
IsListing(q, S) ==
    /\ Cardinality(S) \in Nat /\ DOMAIN q = 1 .. Cardinality(S)
    /\ \A k \in 1 .. Cardinality(S) : q[k] \in S
    /\ \A u \in S : \E k \in 1 .. Cardinality(S) : q[k] = u
    /\ \A j, k \in 1 .. Cardinality(S) : q[j] = q[k] => j = k

LEMMA InjectionLists ==
    ASSUME NEW S, IsFiniteSet(S), NEW q \in Injection(1 .. Cardinality(S), S) PROVE IsListing(q, S)
<1> DEFINE C == Cardinality(S)
           D == 1 .. C
<1>1. C \in Nat BY FS_CardinalityType
<1> HIDE DEF C
<1>2. Cardinality(D) = C BY <1>1, FS_Interval
<1>3. q \in Injection(D, S) BY DEF C
<1> HIDE DEF D
<1>4. q \in Surjection(D, S) BY <1>2, <1>3, FS_Injection DEF C
<1> QED BY <1>1, <1>3, <1>4 DEF Injection, Surjection, IsInjective, IsListing, C, D

LEMMA SetToSeqLists == ASSUME NEW S, IsFiniteSet(S) PROVE IsListing(SetToSeq(S), S)
<1> DEFINE D == 1 .. Cardinality(S)
<1>1. \E f : f \in [D -> S] /\ IsInjective(f)
  <2>1. ExistsBijection(D, S) BY FS_CardinalityType
  <2> QED BY <2>1 DEF ExistsBijection, Bijection, Injection
<1>2. SetToSeq(S) \in [D -> S] /\ IsInjective(SetToSeq(S)) BY <1>1 DEF SetToSeq
<1>3. SetToSeq(S) \in Injection(D, S) BY <1>2 DEF Injection
<1> QED BY <1>3, InjectionLists

\* Those before u.
Low(R, S, u) == {v \in S : <<v, u>> \in R}

\* A list that has at its k-th place the one with k - 1 before it, in a total order, is sorted.
LEMMA RanksList ==
    ASSUME NEW S, IsFiniteSet(S), NEW R,
           \A u \in S : <<u, u>> \notin R,
           \A u, v, w \in S : <<u, v>> \in R /\ <<v, w>> \in R => <<u, w>> \in R,
           \A u, v \in S : u = v \/ <<u, v>> \in R \/ <<v, u>> \in R,
           NEW q, DOMAIN q = 1 .. Cardinality(S),
           \A k \in 1 .. Cardinality(S) : \A u \in S : Cardinality(Low(R, S, u)) = k - 1
             => q[k] \in S /\ Cardinality(Low(R, S, q[k])) = k - 1
    PROVE  /\ IsListing(q, S)
           /\ \A j, k \in 1 .. Cardinality(S) : <<q[j], q[k]>> \in R => j < k
<1> DEFINE C == Cardinality(S)
           N(u) == Cardinality(Low(R, S, u))
           rank == [u \in S |-> N(u) + 1]
<1>1. C \in Nat BY FS_CardinalityType
<1>2. \A u \in S : Low(R, S, u) \in SUBSET S /\ u \notin Low(R, S, u) BY DEF Low
<1>3. \A u \in S : IsFiniteSet(Low(R, S, u)) /\ N(u) \in Nat /\ N(u) <= C /\ N(u) # C
  <2> TAKE u \in S
  <2>1. IsFiniteSet(Low(R, S, u)) /\ N(u) <= C /\ (C = N(u) => S = Low(R, S, u)) BY <1>2, FS_Subset
  <2> QED BY <1>2, <2>1, FS_CardinalityType
<1>4. ASSUME NEW u \in S, NEW v \in S, <<u, v>> \in R PROVE N(u) < N(v)
  <2>1. Low(R, S, u) \in SUBSET Low(R, S, v) /\ u \in Low(R, S, v) /\ u \notin Low(R, S, u) BY <1>4 DEF Low
  <2>2. N(u) <= N(v) /\ N(u) # N(v) BY <1>3, <2>1, FS_Subset
  <2> QED BY <1>3, <2>2
<1> HIDE DEF C, N
<1>5. rank \in [S -> 1 .. C] BY <1>1, <1>3
<1>6. ASSUME NEW u \in S, NEW v \in S, rank[u] = rank[v] PROVE u = v
  <2>1. N(u) = N(v) /\ N(u) \in Nat BY <1>3, <1>6
  <2>2. ~(N(u) < N(v)) /\ ~(N(v) < N(u)) BY <2>1
  <2>3. <<u, v>> \notin R /\ <<v, u>> \notin R BY <1>4, <2>2
  <2> QED BY <2>3
<1>7. rank \in Injection(S, 1 .. C) BY <1>5, <1>6 DEF Injection, IsInjective
<1>8. IsFiniteSet(1 .. C) /\ Cardinality(1 .. C) = C BY <1>1, FS_Interval
<1>9. rank \in Surjection(S, 1 .. C)
  <2> HIDE DEF rank
  <2> QED BY <1>7, <1>8, FS_Injection DEF C
<1>10. ASSUME NEW k \in 1 .. C PROVE q[k] \in S /\ N(q[k]) = k - 1
  <2>1. PICK u \in S : rank[u] = k
    <3> HIDE DEF rank
    <3> QED BY <1>9 DEF Surjection
  <2>2. N(u) = k - 1 BY <1>3, <2>1
  <2> QED BY <2>2 DEF N, C
<1>11. ASSUME NEW u \in S PROVE \E k \in 1 .. C : q[k] = u
  <2> DEFINE k == N(u) + 1
  <2>1. k \in 1 .. C BY <1>1, <1>3
  <2>2. q[k] \in S /\ N(q[k]) = N(u) BY <1>3, <1>10, <2>1
  <2>3. q[k] = u BY <1>3, <1>6, <2>2
  <2> QED BY <2>1, <2>3
<1>12. ASSUME NEW j \in 1 .. C, NEW k \in 1 .. C PROVE q[j] = q[k] => j = k BY <1>1, <1>10
<1>13. ASSUME NEW j \in 1 .. C, NEW k \in 1 .. C, <<q[j], q[k]>> \in R PROVE j < k
  <2>1. N(q[j]) < N(q[k]) BY <1>4, <1>10, <1>13
  <2> QED BY <1>10, <2>1
<1> QED BY <1>1, <1>10, <1>11, <1>12, <1>13 DEF IsListing, C

LEMMA NumbersSorted ==
    ASSUME NEW S, IsFiniteSet(S), S \subseteq Nat PROVE IsListing(Sorted(S, <), S)
<1> DEFINE q == Sorted(S, <)
           C == Cardinality(S)
           R == {e \in S \X S : e[1] < e[2]}
<1>1. \A u \in S : {v \in S : v < u} = Low(R, S, u) BY DEF Low
<1>2. q = [k \in 1 .. C |-> CHOOSE u \in S : Cardinality({v \in S : v < u}) = k - 1] BY DEF Sorted
<1> HIDE DEF q, C
<1>3. DOMAIN q = 1 .. C BY <1>2
<1>4. ASSUME NEW k \in 1 .. C, NEW u \in S, Cardinality(Low(R, S, u)) = k - 1
      PROVE  q[k] \in S /\ Cardinality(Low(R, S, q[k])) = k - 1
  <2> HIDE DEF R
  <2>1. q[k] = CHOOSE x \in S : Cardinality({v \in S : v < x}) = k - 1 BY <1>2
  <2>2. Cardinality({v \in S : v < u}) = k - 1 BY <1>1, <1>4
  <2>3. q[k] \in S /\ Cardinality({v \in S : v < q[k]}) = k - 1 BY <2>1, <2>2
  <2> QED BY <1>1, <2>3
<1>5. /\ \A u \in S : <<u, u>> \notin R
      /\ \A u, v, w \in S : <<u, v>> \in R /\ <<v, w>> \in R => <<u, w>> \in R
      /\ \A u, v \in S : u = v \/ <<u, v>> \in R \/ <<v, u>> \in R
  OBVIOUS
<1> HIDE DEF R
<1>6. IsListing(q, S) BY <1>3, <1>4, <1>5, RanksList DEF C
<1> QED BY <1>6 DEF q

-----------------------------------------------------------------------------
(***************************************************************************)
(* Descriptions                                                            *)
(***************************************************************************)
\* inspect_object_hierarchy(): each object is under one of the description or under none,
\* and not under itself.
IsForest(d) ==
    /\ DOMAIN d \subseteq Uuids
    /\ d \in [DOMAIN d -> [parent : Uuids \cup {NoNode}, fields : Fields]]
    /\ \A u \in DOMAIN d :
         /\ d[u].parent \in DOMAIN d \cup {NoNode}
         /\ d[u].parent # NoNode => u \notin Above(d, d[u].parent)

LEMMA ForestWalkable == ASSUME NEW d, IsForest(d) PROVE Walkable(d) /\ Live(d) = DOMAIN d
<1>1. IsFiniteSet(DOMAIN d) /\ NoNode \notin DOMAIN d BY TreeAssumption, FS_Subset DEF IsForest
<1> QED BY <1>1 DEF Walkable, Live

LEMMA ForestsAre == ASSUME NEW d \in Forests PROVE IsForest(d)
<1>1. PICK us \in SUBSET Uuids : d \in [us -> [parent : Uuids \cup {NoNode}, fields : Fields]] BY DEF Forests
<1>2. \A u \in DOMAIN d : /\ d[u].parent \in DOMAIN d \cup {NoNode}
                          /\ d[u].parent # NoNode => u \notin Above(d, d[u].parent)
  BY DEF Forests
<1> QED BY <1>1, <1>2 DEF IsForest

\* An object is deeper than its parent.
LEMMA DeeperThanParent ==
    ASSUME NEW d, IsForest(d), NEW u \in DOMAIN d
    PROVE  /\ Cardinality(Above(d, u)) \in Nat
           /\ d[u].parent # NoNode => Cardinality(Above(d, d[u].parent)) < Cardinality(Above(d, u))
<1> DEFINE p == d[u].parent
<1>1. Walkable(d) /\ Live(d) = DOMAIN d /\ IsFiniteSet(DOMAIN d) BY ForestWalkable DEF Walkable
<1>2. ASSUME NEW v \in DOMAIN d PROVE Above(d, v) \subseteq DOMAIN d /\ IsFiniteSet(Above(d, v)) /\ Cardinality(Above(d, v)) \in Nat
  <2>1. \A m \in DOMAIN d : d[m].parent \in DOMAIN d \cup {NoNode} BY DEF IsForest
  <2>2. Up(d, v) \subseteq DOMAIN d BY <1>1, <2>1, UpLeast
  <2> QED BY <1>1, <2>2, FS_Subset, FS_CardinalityType DEF Above
<1>3. ASSUME p # NoNode PROVE Cardinality(Above(d, p)) < Cardinality(Above(d, u))
  <2>1. p \in DOMAIN d /\ u \notin Above(d, p) BY <1>3 DEF IsForest
  <2>2. Above(d, u) = {u} \cup Above(d, p) BY <1>1, UpOne DEF Above
  <2>3. Above(d, p) \in SUBSET Above(d, u) /\ Above(d, p) # Above(d, u) BY <2>1, <2>2
  <2> DEFINE A == Above(d, u)
             B == Above(d, p)
  <2>4. IsFiniteSet(A) /\ B \in SUBSET A /\ B # A /\ Cardinality(A) \in Nat /\ Cardinality(B) \in Nat
    BY <1>2, <2>1, <2>3
  <2> HIDE DEF A, B
  <2>5. Cardinality(B) <= Cardinality(A) /\ Cardinality(B) # Cardinality(A) BY <2>4, FS_Subset
  <2>6. Cardinality(B) < Cardinality(A) BY <2>4, <2>5
  <2> QED BY <2>6 DEF A, B
<1> QED BY <1>2, <1>3

\* build_structural_diff() lists each object once, after its parent.
LEMMA OrderLists ==
    ASSUME NEW d, IsForest(d), NEW us \in SUBSET DOMAIN d
    PROVE  LET q == Order(d, us)
           IN /\ IsListing(q, us)
              /\ \A j, k \in 1 .. Cardinality(us) : d[q[k]].parent = q[j] => j < k
<1> DEFINE D(u) == Cardinality(Above(d, u))
           Before(v, u) == D(v) < D(u) \/ (D(v) = D(u) /\ v < u)
           q == Order(d, us)
           C == Cardinality(us)
           R == {e \in us \X us : Before(e[1], e[2])}
<1>0. IsFiniteSet(us) /\ us \subseteq Nat
  <2>1. us \subseteq Uuids BY DEF IsForest
  <2> QED BY <2>1, TreeAssumption, FS_Subset
<1>1. q = [k \in 1 .. C |-> CHOOSE u \in us : Cardinality({v \in us : Before(v, u)}) = k - 1]
  BY DEF Order, Sorted
<1>2. \A u \in us : D(u) \in Nat BY DeeperThanParent
<1>3. \A u, v \in us : <<u, v>> \in R <=> Before(u, v) OBVIOUS
<1> HIDE DEF q, C, D, R
<1>4. \A u \in us : {v \in us : Before(v, u)} = Low(R, us, u) BY <1>3 DEF Low
<1>5. DOMAIN q = 1 .. C BY <1>1
<1>6. ASSUME NEW k \in 1 .. C, NEW u \in us, Cardinality(Low(R, us, u)) = k - 1
      PROVE  q[k] \in us /\ Cardinality(Low(R, us, q[k])) = k - 1
  <2> HIDE DEF Before
  <2>1. q[k] = CHOOSE x \in us : Cardinality({v \in us : Before(v, x)}) = k - 1 BY <1>1
  <2>2. Cardinality({v \in us : Before(v, u)}) = k - 1 BY <1>4, <1>6
  <2>3. q[k] \in us /\ Cardinality({v \in us : Before(v, q[k])}) = k - 1 BY <2>1, <2>2
  <2> QED BY <1>4, <2>3
<1>7. /\ \A u \in us : <<u, u>> \notin R
      /\ \A u, v, w \in us : <<u, v>> \in R /\ <<v, w>> \in R => <<u, w>> \in R
      /\ \A u, v \in us : u = v \/ <<u, v>> \in R \/ <<v, u>> \in R
  <2>1. \A u \in us : ~Before(u, u) BY <1>0, <1>2
  <2>2. \A u, v, w \in us : Before(u, v) /\ Before(v, w) => Before(u, w) BY <1>0, <1>2
  <2>3. \A u, v \in us : u = v \/ Before(u, v) \/ Before(v, u) BY <1>0, <1>2
  <2> HIDE DEF Before
  <2> QED BY <1>3, <2>1, <2>2, <2>3
<1>8. /\ IsListing(q, us)
      /\ \A j, k \in 1 .. C : <<q[j], q[k]>> \in R => j < k
  BY <1>0, <1>5, <1>6, <1>7, RanksList DEF C
<1>9. ASSUME NEW j \in 1 .. C, NEW k \in 1 .. C, d[q[k]].parent = q[j] PROVE j < k
  <2>1. q[j] \in us /\ q[k] \in us BY <1>8 DEF IsListing, C
  <2>2. q[k] \in DOMAIN d /\ d[q[k]].parent # NoNode
    <3>1. NoNode \notin Uuids BY TreeAssumption
    <3> QED BY <1>9, <2>1, <3>1 DEF IsForest
  <2>3. D(q[j]) < D(q[k]) BY <1>9, <2>2, DeeperThanParent DEF D
  <2> QED BY <1>3, <1>8, <2>1, <2>3
<1> QED BY <1>8, <1>9 DEF q, C

-----------------------------------------------------------------------------
(***************************************************************************)
(* What scripts leave                                                      *)
(***************************************************************************)
\* The changes of a script keep it a tree, even where it is not sound.
IsChange(x) ==
    \/ \E u \in Uuids, p \in Ids \cup {NoNode}, f \in Fields : Room({u}) /\ x = Planting(u, p, f)
    \/ \E n, p : x = Moving(n, p)
    \/ \E n, p : \E moves \in BOOLEAN, f \in Fields : x = Setting(n, moves, p, f)
    \/ \E n : x = Destroying(n)

LEMMA DoTyped == ASSUME NEW t, IsTree(t), NEW x, IsChange(x) PROVE IsTree(Do(t, x))
<1>1. CASE \E u \in Uuids, p \in Ids \cup {NoNode}, f \in Fields : Room({u}) /\ x = Planting(u, p, f)
  <2>1. PICK u \in Uuids, p \in Ids \cup {NoNode}, f \in Fields : Room({u}) /\ x = Planting(u, p, f) BY <1>1
  <2>2. Do(t, x) = Plant(t, u, p, f) BY <2>1, DoIs
  <2> QED BY <2>1, <2>2, PlantTyped
<1>2. CASE \E n, p : x = Moving(n, p)
  <2>1. PICK n, p : x = Moving(n, p) BY <1>2
  <2> QED BY <2>1, DoIs, MoveTyped
<1>3. CASE \E n, p : \E moves \in BOOLEAN, f \in Fields : x = Setting(n, moves, p, f)
  <2>1. PICK n, p : \E moves \in BOOLEAN, f \in Fields : x = Setting(n, moves, p, f) BY <1>3
  <2>2. PICK moves \in BOOLEAN, f \in Fields : x = Setting(n, moves, p, f) BY <2>1
  <2> QED BY <2>2, DoIs, SetTyped
<1>4. CASE \E n : x = Destroying(n)
  <2>1. PICK n : x = Destroying(n) BY <1>4
  <2> QED BY <2>1, DoIs, DestroyedTyped
<1> QED BY <1>1, <1>2, <1>3, <1>4 DEF IsChange

LEMMA RunTyped ==
    ASSUME NEW t, IsTree(t), NEW s, NEW N, IsScript(s, N), \A k \in 1 .. N : IsChange(s[k])
    PROVE  IsTree(Run(t, s))
<1> DEFINE B == {k \in Nat : k <= N => IsTree(RunAt(t, s, k))}
<1>0. N \in Nat BY DEF IsScript
<1>1. 0 \in B BY RunSteps
<1>2. ASSUME NEW k \in Nat, k \in B PROVE k + 1 \in B
  <2> SUFFICES ASSUME k + 1 <= N PROVE IsTree(RunAt(t, s, k + 1)) OBVIOUS
  <2>1. IsTree(RunAt(t, s, k)) BY <1>0, <1>2
  <2>2. RunAt(t, s, k + 1) = Do(RunAt(t, s, k), s[k + 1]) BY RunSteps
  <2>3. IsChange(s[k + 1]) BY <1>0
  <2> QED BY <2>1, <2>2, <2>3, DoTyped
<1> HIDE DEF B
<1>3. \A k \in Nat : k \in B BY <1>1, <1>2, Induction
<1>4. IsTree(RunAt(t, s, N)) BY <1>0, <1>3 DEF B
<1> QED BY <1>4, RunSteps

\* A sound tree keeps its nodes' walks among its nodes, and a part of it that is sound, with
\* the same parents, has the same walks.
LEMMA UpLive ==
    ASSUME NEW t, Whole(t), NEW n \in Live(t) \cup {NoNode} PROVE Up(t, n) \subseteq Live(t)
<1>1. Walkable(t) BY TreeWalkable DEF Whole
<1>2. \A m \in Live(t) : t[m].parent \in Live(t) \cup {NoNode} BY DEF Whole, Sound
<1> QED BY <1>1, <1>2, UpLeast

LEMMA UpKept ==
    ASSUME NEW t, Walkable(t), NEW s, Whole(s), Live(s) \subseteq Live(t),
           \A m \in Live(s) : s[m].parent = t[m].parent, NEW n \in Live(s) \cup {NoNode}
    PROVE  Up(t, n) = Up(s, n) /\ Up(s, n) \subseteq Live(s)
<1>1. Walkable(s) BY TreeWalkable DEF Whole
<1>2. Up(s, n) \subseteq Live(s) BY UpLive
<1>3. n \in Up(s, n) \cup {NoNode} /\ n \in Up(t, n) \cup {NoNode} BY <1>1, UpSelf
<1>4. Up(t, n) \subseteq Up(s, n)
  <2>1. \A m \in Up(s, n) : s[m].parent \in Up(s, n) \cup {NoNode} BY <1>1, <1>2, UpClosed
  <2>2. \A m \in Up(s, n) \cap Live(t) : t[m].parent \in Up(s, n) \cup {NoNode} BY <1>2, <2>1
  <2> QED BY <1>3, <2>2, UpLeast
<1>5. Up(s, n) \subseteq Up(t, n)
  <2>1. \A m \in Up(t, n) \cap Live(t) : t[m].parent \in Up(t, n) \cup {NoNode} BY UpClosed
  <2>2. \A m \in Up(t, n) \cap Live(s) : s[m].parent \in Up(t, n) \cup {NoNode} BY <2>1
  <2> QED BY <1>1, <1>3, <2>2, UpLeast
<1> QED BY <1>2, <1>4, <1>5

-----------------------------------------------------------------------------
\* The nodes ns of a tree are put under p, none of which is above p or is there already.
PutUnder(t, s, ns, p) ==
    \A m \in Live(t) : s[m].parent = (IF m \in ns THEN p ELSE t[m].parent) /\ s[m].fields = t[m].fields

LEMMA MovedAllSound ==
    ASSUME NEW t, Whole(t), NEW ns \in SUBSET Live(t), NEW p \in Live(t) \cup {NoNode},
           \A n \in ns : n \notin Up(t, p) /\ (p # NoNode => t[n].parent # p)
    PROVE  LET s == MovedAll(t, ns, p)
           IN Whole(s) /\ Live(s) = Live(t) /\ PutUnder(t, s, ns, p)
<1> DEFINE q == SetToSeq(ns)
           C == Cardinality(ns)
           script == [k \in 1 .. C |-> Moving(q[k], p)]
           at(k) == RunAt(t, script, k)
           Done(k) == {q[j] : j \in 1 .. k}
           Good(k) == /\ Whole(at(k)) /\ Live(at(k)) = Live(t)
                      /\ \A m \in Live(t) : /\ at(k)[m].parent = IF m \in Done(k) THEN p ELSE t[m].parent
                                            /\ at(k)[m].fields = t[m].fields
           B == {k \in Nat : k <= C => Good(k)}
<1>0. IsFiniteSet(ns) /\ Walkable(t) BY TreeWalkable, FS_Subset DEF Whole, IsTree
<1>1. IsListing(q, ns) BY <1>0, SetToSeqLists
<1>2. /\ C \in Nat /\ DOMAIN q = 1 .. C /\ \A k \in 1 .. C : q[k] \in ns
      /\ \A u \in ns : \E k \in 1 .. C : q[k] = u
      /\ \A j, k \in 1 .. C : q[j] = q[k] => j = k
  BY <1>1 DEF IsListing
<1> HIDE DEF q, C
<1>3. IsScript(script, C) /\ \A k \in 1 .. C : script[k] = Moving(q[k], p) BY <1>2 DEF IsScript
<1>4. MovedAll(t, ns, p) = Run(t, script) BY DEF MovedAll, q, C
<1> HIDE DEF script
<1>5. /\ RunAt(t, script, 0) = t /\ Run(t, script) = RunAt(t, script, C)
      /\ \A k \in Nat : k + 1 <= C => RunAt(t, script, k + 1) = Do(RunAt(t, script, k), script[k + 1])
  <2>1. IsScript(script, C) BY <1>3
  <2> QED BY <2>1, RunSteps
<1> HIDE DEF at
<1>6. 0 \in B BY <1>5 DEF at
<1>7. ASSUME NEW k \in Nat, k \in B PROVE k + 1 \in B
  <2> SUFFICES ASSUME k + 1 <= C PROVE Good(k + 1) OBVIOUS
  <2> DEFINE a == at(k)
             n == q[k + 1]
  <2>1. Good(k) BY <1>2, <1>7
  <2>2. k + 1 \in 1 .. C /\ n \in ns /\ n \in Live(t) BY <1>2
  <2>3. at(k + 1) = Move(a, n, p) BY <1>3, <1>5, <2>2, DoIs DEF at
  <2>4. n \notin Done(k)
    <3>1. \A j \in 1 .. k : j \in 1 .. C /\ j # k + 1 BY <1>2
    <3> QED BY <1>2, <2>2, <3>1
  <2>5. a[n].parent = t[n].parent BY <2>1, <2>2, <2>4
  <2>6. Walkable(a) BY <2>1, TreeWalkable DEF Whole
  <2>7. Up(a, p) \subseteq Up(t, p)
    <3>1. p \in Up(t, p) \cup {NoNode} BY <1>0, UpSelf
    <3>2. ASSUME NEW m \in Up(t, p), m \in Live(a) PROVE a[m].parent \in Up(t, p) \cup {NoNode}
      <4>1. m \notin ns BY <3>2
      <4>2. m \notin Done(k)
        <5>1. \A j \in 1 .. k : j \in 1 .. C BY <1>2
        <5> QED BY <1>2, <4>1, <5>1
      <4>3. a[m].parent = t[m].parent /\ m \in Live(t) BY <2>1, <3>2, <4>2
      <4> QED BY <1>0, <4>3, UpClosed
    <3> HIDE DEF a
    <3> QED BY <2>6, <3>1, <3>2, UpLeast
  <2>8. CanMove(a, n, p) /\ ~Crosses(a, n, p) BY <2>1, <2>2, <2>5, <2>7 DEF CanMove, Crosses
  <2>9. Whole(Move(a, n, p)) /\ Reparented(a, Move(a, n, p), n, p) BY <2>1, <2>8, MoveSound
  <2>10. Done(k + 1) = Done(k) \cup {n}
    <3>1. 1 .. k + 1 = (1 .. k) \cup {k + 1} OBVIOUS
    <3> QED BY <3>1
  <2>11. Live(at(k + 1)) = Live(t) BY <2>1, <2>3, <2>9 DEF Reparented
  <2>12. ASSUME NEW m \in Live(t)
         PROVE  /\ at(k + 1)[m].parent = IF m \in Done(k + 1) THEN p ELSE t[m].parent
                /\ at(k + 1)[m].fields = t[m].fields
    <3>1. /\ at(k + 1)[m].parent = IF m = n THEN p ELSE a[m].parent
          /\ at(k + 1)[m].fields = a[m].fields
      BY <2>1, <2>3, <2>9 DEF Reparented
    <3>2. a[m].parent = (IF m \in Done(k) THEN p ELSE t[m].parent) /\ a[m].fields = t[m].fields BY <2>1
    <3> HIDE DEF a, n, Done
    <3> QED BY <2>10, <3>1, <3>2
  <2>13. Whole(at(k + 1)) BY <2>3, <2>9
  <2> HIDE DEF a, n, Done
  <2> QED BY <2>11, <2>12, <2>13
<1> HIDE DEF B
<1>8. \A k \in Nat : k \in B BY <1>6, <1>7, Induction
<1>9. Good(C) BY <1>2, <1>8 DEF B
<1>10. Done(C) = ns BY <1>2
<1>11. MovedAll(t, ns, p) = at(C) BY <1>4, <1>5 DEF at
<1> HIDE DEF Done
<1>12. PutUnder(t, at(C), ns, p) BY <1>9, <1>10 DEF PutUnder
<1> QED BY <1>9, <1>11, <1>12

-----------------------------------------------------------------------------
\* The nodes ns are destroyed, dead or not: what is left is what none of them was above.
LEMMA DestroyedAllSound ==
    ASSUME NEW t, Whole(t), NEW ns, IsFiniteSet(ns)
    PROVE  LET s == DestroyedAll(t, ns)
           IN /\ Whole(s) /\ Live(s) = {m \in Live(t) : Up(t, m) \cap ns = {}} /\ Rest(t, s, Live(s))
<1> DEFINE q == SetToSeq(ns)
           C == Cardinality(ns)
           script == [k \in 1 .. C |-> Destroying(q[k])]
           at(k) == RunAt(t, script, k)
           Done(k) == {q[j] : j \in 1 .. k}
           Left(k) == {m \in Live(t) : Up(t, m) \cap Done(k) = {}}
           Good(k) == Whole(at(k)) /\ Live(at(k)) = Left(k) /\ Rest(t, at(k), Left(k))
           B == {k \in Nat : k <= C => Good(k)}
<1>0. Walkable(t) BY TreeWalkable DEF Whole
<1>1. IsListing(q, ns) BY SetToSeqLists
<1>2. /\ C \in Nat /\ DOMAIN q = 1 .. C /\ \A k \in 1 .. C : q[k] \in ns
      /\ \A u \in ns : \E k \in 1 .. C : q[k] = u
  BY <1>1 DEF IsListing
<1> HIDE DEF q, C
<1>3. IsScript(script, C) /\ \A k \in 1 .. C : script[k] = Destroying(q[k]) BY <1>2 DEF IsScript
<1>4. DestroyedAll(t, ns) = Run(t, script) BY DEF DestroyedAll, q, C
<1> HIDE DEF script
<1>5. /\ RunAt(t, script, 0) = t /\ Run(t, script) = RunAt(t, script, C)
      /\ \A k \in Nat : k + 1 <= C => RunAt(t, script, k + 1) = Do(RunAt(t, script, k), script[k + 1])
  <2>1. IsScript(script, C) BY <1>3
  <2> QED BY <2>1, RunSteps
<1> HIDE DEF at
<1>6. 0 \in B
  <2>1. Done(0) = {} OBVIOUS
  <2> HIDE DEF Done
  <2>2. Left(0) = Live(t) BY <2>1
  <2> QED BY <1>5, <2>2 DEF at, Rest
<1>7. ASSUME NEW k \in Nat, k \in B PROVE k + 1 \in B
  <2> SUFFICES ASSUME k + 1 <= C PROVE Good(k + 1) OBVIOUS
  <2> DEFINE a == at(k)
             n == q[k + 1]
             b == at(k + 1)
  <2>1. Whole(a) /\ Live(a) = Left(k) /\ Rest(t, a, Left(k)) BY <1>2, <1>7
  <2>2. k + 1 \in 1 .. C BY <1>2
  <2>3. b = Destroyed(a, n) BY <1>3, <1>5, <2>2, DoIs DEF at
  <2>4. Done(k + 1) = Done(k) \cup {n}
    <3>1. 1 .. k + 1 = (1 .. k) \cup {k + 1} OBVIOUS
    <3> QED BY <3>1
  <2> HIDE DEF a, b, n, Done
  <2>5. Live(a) \subseteq Live(t) BY <2>1
  <2>6. ASSUME NEW m \in Live(a) PROVE Up(a, m) = Up(t, m) /\ Up(a, m) \subseteq Live(a)
    <3>1. \A l \in Live(a) : a[l].parent = t[l].parent BY <2>1 DEF Rest
    <3> QED BY <1>0, <2>1, <2>5, <3>1, UpKept
  <2>7. Left(k + 1) = {m \in Live(a) : n \notin Up(t, m)} BY <2>1, <2>4
  <2>8. CASE n \in Live(a)
    <3>1. Whole(b) /\ Live(b) = {m \in Live(a) : n \notin Up(a, m)} /\ Rest(a, b, Live(b))
      BY <2>1, <2>3, <2>8, DestroyedSound
    <3>2. Live(b) = Left(k + 1) BY <2>6, <2>7, <3>1
    <3>3. Live(b) \subseteq Live(a) BY <3>1
    <3>4. Rest(t, b, Left(k + 1)) BY <2>1, <3>1, <3>2, <3>3 DEF Rest
    <3> QED BY <3>1, <3>2, <3>4 DEF b
  <2>9. CASE n \notin Live(a)
    <3>1. b = a BY <2>3, <2>9 DEF Destroyed
    <3>2. Left(k + 1) = Live(a) BY <2>6, <2>7, <2>9
    <3> QED BY <2>1, <3>1, <3>2 DEF b
  <2> QED BY <2>8, <2>9
<1> HIDE DEF B
<1>8. \A k \in Nat : k \in B BY <1>6, <1>7, Induction
<1>9. Good(C)
  <2> HIDE DEF Good
  <2> QED BY <1>2, <1>8 DEF B
<1>10. Done(C) = ns BY <1>2
<1>11. DestroyedAll(t, ns) = at(C) BY <1>4, <1>5 DEF at
<1> HIDE DEF Done, at
<1> QED BY <1>9, <1>10, <1>11

-----------------------------------------------------------------------------
\* New nodes for the objects us of a description, each under its parent.
NewNodes(us) == UNION {NewFor(u) : u \in us}

LEMMA GrownSound ==
    ASSUME NEW t, Whole(t), NEW d, IsForest(d), NEW us \in SUBSET DOMAIN d, Room(us),
           Live(t) \subseteq Taken,
           \A u \in us : d[u].parent \in us \cup {NoNode} \/ Find(d[u].parent) \in Live(t)
    PROVE  LET s == Grown(t, d, us)
           IN /\ Whole(s) /\ Live(s) = Live(t) \cup NewNodes(us) /\ Rest(t, s, Live(t))
              /\ \A u \in us : /\ s[Fresh(u, "root")].parent = NodeFor(us, d[u].parent)
                               /\ s[Fresh(u, "root")].fields = d[u].fields
<1> DEFINE q == Order(d, us)
           C == Cardinality(us)
           Plan(k) == Planting(q[k], NodeFor(us, d[q[k]].parent), d[q[k]].fields)
           script == [k \in 1 .. C |-> Plan(k)]
           at(k) == RunAt(t, script, k)
           Done(k) == {q[j] : j \in 1 .. k}
           Good(k) == /\ Whole(at(k)) /\ Live(at(k)) = Live(t) \cup NewNodes(Done(k)) /\ Rest(t, at(k), Live(t))
                      /\ \A u \in Done(k) : /\ at(k)[Fresh(u, "root")].parent = NodeFor(us, d[u].parent)
                                            /\ at(k)[Fresh(u, "root")].fields = d[u].fields
           B == {k \in Nat : k <= C => Good(k)}
<1>1. IsListing(q, us) /\ \A j, k \in 1 .. C : d[q[k]].parent = q[j] => j < k BY OrderLists
<1>2. /\ C \in Nat /\ DOMAIN q = 1 .. C /\ \A k \in 1 .. C : q[k] \in us
      /\ \A u \in us : \E k \in 1 .. C : q[k] = u
      /\ \A j, k \in 1 .. C : q[j] = q[k] => j = k
  BY <1>1 DEF IsListing
<1>3. Grown(t, d, us) = Run(t, [k \in DOMAIN q |-> Plan(k)]) BY DEF Grown
<1> HIDE DEF q, C
<1>4. Grown(t, d, us) = Run(t, script) BY <1>2, <1>3
<1>5. IsScript(script, C) /\ \A k \in 1 .. C : script[k] = Plan(k) BY <1>2 DEF IsScript
<1> HIDE DEF script
<1>6. /\ RunAt(t, script, 0) = t /\ Run(t, script) = RunAt(t, script, C)
      /\ \A k \in Nat : k + 1 <= C => RunAt(t, script, k + 1) = Do(RunAt(t, script, k), script[k + 1])
  <2>1. IsScript(script, C) BY <1>5
  <2> QED BY <2>1, RunSteps
<1>7. ASSUME NEW u \in us
      PROVE  /\ u \in Uuids /\ Room({u}) /\ d[u].fields \in Fields
             /\ d[u].parent \in us \cup {NoNode} \/ Find(d[u].parent) \in Live(t)
  BY DEF IsForest, Room
<1>8. ASSUME NEW u \in us
      PROVE  /\ Fresh(u, "root") \notin Live(t) /\ Fresh(u, "inner") \notin Live(t)
             /\ UuidOf(Fresh(u, "root")) = u /\ UuidOf(Fresh(u, "inner")) = u
             /\ Fresh(u, "root") \in NewFor(u) /\ \A n \in NewFor(u) : UuidOf(n) = u
  BY <1>7, NewForIs DEF NewFor
<1> HIDE DEF at
<1>9. 0 \in B
  <2>1. Done(0) = {} OBVIOUS
  <2> HIDE DEF Done
  <2>2. NewNodes(Done(0)) = {} BY <2>1 DEF NewNodes
  <2> QED BY <1>6, <2>1, <2>2 DEF at, Rest
<1>10. ASSUME NEW k \in Nat, k \in B PROVE k + 1 \in B
  <2> HIDE DEF Good
  <2> SUFFICES ASSUME k + 1 <= C PROVE Good(k + 1) OBVIOUS
  <2> USE DEF Good
  <2> DEFINE a == at(k)
             u == q[k + 1]
             p == NodeFor(us, d[u].parent)
             b == at(k + 1)
             root == Fresh(u, "root")
  <2>1. Good(k) BY <1>2, <1>10
  <2>2. k + 1 \in 1 .. C /\ u \in us BY <1>2
  <2>3. b = Plant(a, u, p, d[u].fields) BY <1>5, <1>6, <2>2, DoIs DEF at
  <2>4. Done(k + 1) = Done(k) \cup {u}
    <3>1. 1 .. k + 1 = (1 .. k) \cup {k + 1} OBVIOUS
    <3> QED BY <3>1
  <2>5. u \notin Done(k) /\ Done(k) \subseteq us
    <3>1. \A j \in 1 .. k : j \in 1 .. C /\ j # k + 1 BY <1>2
    <3> QED BY <1>2, <2>2, <3>1
  <2>6. d[u].parent \in us => d[u].parent \in Done(k)
    <3> SUFFICES ASSUME d[u].parent \in us PROVE d[u].parent \in Done(k) OBVIOUS
    <3>1. PICK j \in 1 .. C : q[j] = d[u].parent BY <1>2
    <3>2. j < k + 1 BY <1>1, <2>2, <3>1 DEF C
    <3>3. j \in 1 .. k BY <1>2, <3>2
    <3> QED BY <3>1, <3>3
  <2> HIDE DEF a, b, u, Done
  <2>7. p \in Live(a) \cup {NoNode}
    <3>1. CASE d[u].parent = NoNode BY <3>1 DEF NodeFor
    <3>2. CASE d[u].parent # NoNode /\ d[u].parent \in us
      <4>1. p = Fresh(d[u].parent, "root") BY <3>2 DEF NodeFor
      <4>2. p \in NewFor(d[u].parent) BY <1>8, <3>2, <4>1
      <4>3. p \in NewNodes(Done(k)) BY <2>6, <3>2, <4>2 DEF NewNodes
      <4> QED BY <2>1, <4>3 DEF a
    <3>3. CASE d[u].parent # NoNode /\ d[u].parent \notin us
      <4>1. p = Find(d[u].parent) BY <3>3 DEF NodeFor
      <4>2. p \in Live(t) BY <1>7, <2>2, <3>3, <4>1
      <4> QED BY <2>1, <4>2 DEF a
    <3> QED BY <3>1, <3>2, <3>3
  <2>8. root \notin Live(a) /\ Fresh(u, "inner") \notin Live(a)
    <3>1. ASSUME NEW n \in NewNodes(Done(k)) PROVE UuidOf(n) # u
      <4>1. PICK v \in Done(k) : n \in NewFor(v) BY DEF NewNodes
      <4> QED BY <1>8, <2>5, <4>1
    <3> QED BY <1>8, <2>1, <2>2, <3>1 DEF a
  <2>9. u \in Uuids /\ Room({u}) /\ d[u].fields \in Fields BY <1>7, <2>2
  <2>10. Whole(a) BY <2>1 DEF a
  <2> HIDE DEF p
  <2>11. /\ Whole(b) /\ Live(b) = Live(a) \cup NewFor(u) /\ Rest(a, b, Live(a))
         /\ b[root].parent = p /\ b[root].fields = d[u].fields
    BY <2>3, <2>7, <2>8, <2>9, <2>10, PlantSound
  <2>12. Live(b) = Live(t) \cup NewNodes(Done(k + 1))
    <3>1. NewNodes(Done(k + 1)) = NewNodes(Done(k)) \cup NewFor(u) BY <2>4 DEF NewNodes
    <3> QED BY <2>1, <2>11, <3>1 DEF a
  <2>13. Rest(t, b, Live(t))
    <3>1. Rest(t, a, Live(t)) /\ Live(t) \subseteq Live(a) BY <2>1 DEF a
    <3> QED BY <2>11, <3>1 DEF Rest
  <2>14. ASSUME NEW v \in Done(k + 1)
         PROVE  /\ b[Fresh(v, "root")].parent = NodeFor(us, d[v].parent)
                /\ b[Fresh(v, "root")].fields = d[v].fields
    <3>1. CASE v = u BY <2>11, <3>1 DEF p
    <3>2. CASE v # u
      <4>1. v \in Done(k) /\ v \in us BY <2>4, <2>5, <3>2
      <4>2. Fresh(v, "root") \in NewNodes(Done(k)) BY <1>8, <4>1 DEF NewNodes
      <4>3. Fresh(v, "root") \in Live(a) BY <2>1, <4>2 DEF a
      <4>4. /\ a[Fresh(v, "root")].parent = NodeFor(us, d[v].parent)
            /\ a[Fresh(v, "root")].fields = d[v].fields
        BY <2>1, <4>1 DEF a
      <4> QED BY <2>11, <4>3, <4>4 DEF Rest
    <3> QED BY <3>1, <3>2
  <2> QED BY <2>11, <2>12, <2>13, <2>14 DEF b
<1> HIDE DEF B
<1>11. \A k \in Nat : k \in B BY <1>9, <1>10, Induction
<1>12. Good(C)
  <2> HIDE DEF Good
  <2> QED BY <1>2, <1>11 DEF B
<1>13. Done(C) = us BY <1>2
<1>14. Grown(t, d, us) = at(C) BY <1>4, <1>6 DEF at
<1> HIDE DEF Done, at
<1> QED BY <1>12, <1>13, <1>14

LEMMA GrownTyped ==
    ASSUME NEW t, IsTree(t), NEW d, IsForest(d), NEW us \in SUBSET DOMAIN d, Room(us),
           \A u \in us : NodeFor(us, d[u].parent) \in Ids \cup {NoNode}
    PROVE  IsTree(Grown(t, d, us))
<1> DEFINE q == Order(d, us)
           C == Cardinality(us)
           Plan(k) == Planting(q[k], NodeFor(us, d[q[k]].parent), d[q[k]].fields)
           script == [k \in 1 .. C |-> Plan(k)]
<1>1. IsListing(q, us) BY OrderLists
<1>2. C \in Nat /\ DOMAIN q = 1 .. C /\ \A k \in 1 .. C : q[k] \in us BY <1>1 DEF IsListing
<1>3. Grown(t, d, us) = Run(t, [k \in DOMAIN q |-> Plan(k)]) BY DEF Grown
<1> HIDE DEF q, C
<1>4. Grown(t, d, us) = Run(t, script) BY <1>2, <1>3
<1>5. IsScript(script, C) /\ \A k \in 1 .. C : script[k] = Plan(k) BY <1>2 DEF IsScript
<1>6. ASSUME NEW k \in 1 .. C PROVE IsChange(script[k])
  <2>1. q[k] \in Uuids /\ Room({q[k]}) /\ d[q[k]].fields \in Fields BY <1>2 DEF IsForest, Room
  <2> QED BY <1>2, <1>5, <2>1 DEF IsChange
<1> HIDE DEF script
<1> QED BY <1>4, <1>5, <1>6, RunTyped

LEMMA DestroyedAllTyped ==
    ASSUME NEW t, IsTree(t), NEW ns, IsFiniteSet(ns) PROVE IsTree(DestroyedAll(t, ns))
<1> DEFINE C == Cardinality(ns)
           script == [k \in 1 .. C |-> Destroying(SetToSeq(ns)[k])]
<1>1. C \in Nat BY FS_CardinalityType
<1> HIDE DEF C
<1>2. IsScript(script, C) /\ \A k \in 1 .. C : IsChange(script[k]) BY <1>1 DEF IsScript, IsChange
<1>3. DestroyedAll(t, ns) = Run(t, script) BY DEF DestroyedAll, C
<1> HIDE DEF script
<1> QED BY <1>2, <1>3, RunTyped

-----------------------------------------------------------------------------
(***************************************************************************)
(* Members                                                                 *)
(***************************************************************************)
Roots == Uuids \X {"root"} \X Generations
Inners == Uuids \X {"inner"} \X Generations

\* Authored members live, and no two are of one object.
MembersAre(t, m) == m \subseteq Live(t) /\ \A a, b \in m : UuidOf(a) = UuidOf(b) => a = b

LEMMA RootsAre == Roots \subseteq Ids /\ \A n \in Roots : UuidOf(n) \in Uuids /\ n # NoNode
BY TreeAssumption DEF Roots, Ids, UuidOf

\* New members.
LEMMA NewMembers ==
    ASSUME NEW us \in SUBSET Uuids, Room(us)
    PROVE  /\ RootsFor(us) \subseteq Roots /\ InnersFor(us) \subseteq Inners /\ RootsFor(us) \subseteq NewNodes(us)
           /\ \A b \in BindingsFor(us) : b.root \in RootsFor(us) /\ b.root \in Roots /\ UuidOf(b.root) \in Prefabs
           /\ NewNodes(us) \cap Taken = {} /\ NewNodes(us) \subseteq Ids
           /\ \A n \in NewNodes(us) : UuidOf(n) \in us
           /\ \A u \in us : /\ Fresh(u, "root") \in RootsFor(us) /\ UuidOf(Fresh(u, "root")) = u
                            /\ Fresh(u, "root") # NoNode
           /\ \A n \in RootsFor(us) : UuidOf(n) \in us /\ n = Fresh(UuidOf(n), "root")
<1>1. ASSUME NEW u \in us
      PROVE  /\ Fresh(u, "root") \in Roots /\ Fresh(u, "inner") \in Inners
             /\ UuidOf(Fresh(u, "root")) = u /\ Fresh(u, "root") # NoNode
             /\ NewFor(u) \subseteq Ids /\ NewFor(u) \cap Taken = {} /\ \A n \in NewFor(u) : UuidOf(n) = u
             /\ Fresh(u, "root") \in NewFor(u)
  <2>1. u \in Uuids /\ Room({u}) BY DEF Room
  <2> QED BY <2>1, NewForIs, RootsAre DEF Roots, Inners, NewFor
<1>2. ASSUME NEW b \in BindingsFor(us)
      PROVE  b.root \in RootsFor(us) /\ b.root \in Roots /\ UuidOf(b.root) \in Prefabs
  <2>1. PICK u \in us \cap Prefabs : b = [root |-> Fresh(u, "root"), inner |-> Fresh(u, "inner")]
    BY DEF BindingsFor
  <2>2. b.root = Fresh(u, "root") BY <2>1
  <2> QED BY <1>1, <2>2 DEF RootsFor
<1>3. \A n \in NewNodes(us) : \E u \in us : n \in NewFor(u) BY DEF NewNodes
<1>4. RootsFor(us) \subseteq NewNodes(us) BY <1>1 DEF RootsFor, NewNodes
<1>5. NewNodes(us) \cap Taken = {} /\ NewNodes(us) \subseteq Ids /\ \A n \in NewNodes(us) : UuidOf(n) \in us
  BY <1>1, <1>3
<1> QED BY <1>1, <1>2, <1>4, <1>5 DEF RootsFor, InnersFor

LEMMA JoinedMembers ==
    ASSUME NEW t, NEW m, MembersAre(t, m), NEW us \in SUBSET Uuids, Room(us),
           us \cap {UuidOf(n) : n \in m} = {}, NEW s, m \cup RootsFor(us) \subseteq Live(s)
    PROVE  MembersAre(s, m \cup RootsFor(us))
<1>1. \A n \in RootsFor(us) : UuidOf(n) \in us /\ n = Fresh(UuidOf(n), "root") BY NewMembers
<1> QED BY <1>1 DEF MembersAre

-----------------------------------------------------------------------------
\* Present, Find and Description of a tree t with the authored members m.
PresentIn(t, m) == {UuidOf(n) : n \in m \cap Live(t)}
FoundIn(t, m, u) == CHOOSE n \in m \cap Live(t) : UuidOf(n) = u
Named(p) == IF p = NoNode THEN NoNode ELSE UuidOf(p)
ObjectOf(p, f) == [parent |-> p, fields |-> f]
Described(t, m) ==
    [u \in PresentIn(t, m) |-> LET n == FoundIn(t, m, u) IN ObjectOf(Named(t[n].parent), t[n].fields)]

LEMMA DescribedNow ==
    /\ Present = PresentIn(tree, authored) /\ Description = Described(tree, authored)
    /\ \A u : Find(u) = FoundIn(tree, authored, u)
BY DEF Present, PresentIn, Find, FoundIn, Description, Described, Named, ObjectOf

LEMMA DescribedThen ==
    /\ Present' = PresentIn(tree', authored') /\ Description' = Described(tree', authored')
    /\ \A u : Find(u)' = FoundIn(tree', authored', u)
BY DEF Present, PresentIn, Find, FoundIn, Description, Described, Named, ObjectOf

LEMMA FoundIs ==
    ASSUME NEW t, NEW m, MembersAre(t, m)
    PROVE  /\ PresentIn(t, m) = {UuidOf(n) : n \in m}
           /\ \A n \in m : FoundIn(t, m, UuidOf(n)) = n
           /\ \A u \in PresentIn(t, m) : FoundIn(t, m, u) \in m /\ UuidOf(FoundIn(t, m, u)) = u
<1>1. m \cap Live(t) = m BY DEF MembersAre
<1>2. \A u \in PresentIn(t, m) : FoundIn(t, m, u) \in m /\ UuidOf(FoundIn(t, m, u)) = u
  BY <1>1 DEF PresentIn, FoundIn
<1>3. PresentIn(t, m) = {UuidOf(n) : n \in m} BY <1>1 DEF PresentIn
<1>4. \A n \in m : FoundIn(t, m, UuidOf(n)) = n BY <1>2, <1>3 DEF MembersAre
<1> QED BY <1>2, <1>3, <1>4

LEMMA DescribedIs ==
    ASSUME NEW t, NEW m, MembersAre(t, m)
    PROVE  LET d == Described(t, m)
           IN /\ DOMAIN d = PresentIn(t, m) /\ d = [u \in DOMAIN d |-> d[u]]
              /\ \A n \in m : /\ UuidOf(n) \in DOMAIN d
                              /\ d[UuidOf(n)] = ObjectOf(Named(t[n].parent), t[n].fields)
<1> DEFINE d == Described(t, m)
           O(n) == ObjectOf(Named(t[n].parent), t[n].fields)
<1>1. d = [u \in PresentIn(t, m) |-> O(FoundIn(t, m, u))] BY DEF Described
<1> HIDE DEF d, O
<1>2. DOMAIN d = PresentIn(t, m) /\ d = [u \in DOMAIN d |-> d[u]] BY <1>1
<1>3. ASSUME NEW n \in m PROVE UuidOf(n) \in DOMAIN d /\ d[UuidOf(n)] = O(n)
  <2>1. UuidOf(n) \in PresentIn(t, m) /\ FoundIn(t, m, UuidOf(n)) = n BY FoundIs
  <2> QED BY <1>1, <1>2, <2>1
<1> QED BY <1>2, <1>3 DEF d, O

LEMMA ObjectIs ==
    /\ \A p, f : ObjectOf(p, f).parent = p /\ ObjectOf(p, f).fields = f
    /\ \A d : IsForest(d) => \A u \in DOMAIN d : d[u] = ObjectOf(d[u].parent, d[u].fields)
BY DEF ObjectOf, IsForest

\* capture_description() makes a description that is a forest, when each member is under one.
LEMMA DescribedForest ==
    ASSUME NEW t, Whole(t), NEW m \in SUBSET Roots, MembersAre(t, m),
           \A n \in m : t[n].parent \in m \cup {NoNode}
    PROVE  IsForest(Described(t, m))
<1> DEFINE d == Described(t, m)
<1>0. IsTree(t) /\ Sound(t) /\ Walkable(t) /\ m \subseteq Live(t) BY TreeWalkable DEF Whole, MembersAre
<1>1. \A n \in m : UuidOf(n) \in Uuids /\ n # NoNode BY RootsAre
<1>2. DOMAIN d = {UuidOf(n) : n \in m} /\ d = [u \in DOMAIN d |-> d[u]]
  <2>1. DOMAIN d = PresentIn(t, m) /\ d = [u \in DOMAIN d |-> d[u]] BY DescribedIs
  <2>2. PresentIn(t, m) = {UuidOf(n) : n \in m} BY FoundIs
  <2> HIDE DEF d
  <2> QED BY <2>1, <2>2
<1>3. \A n \in m : UuidOf(n) \in DOMAIN d /\ d[UuidOf(n)] = ObjectOf(Named(t[n].parent), t[n].fields)
  BY DescribedIs
<1> HIDE DEF d
<1>4. ASSUME NEW n \in m
      PROVE  /\ Named(t[n].parent) \in DOMAIN d \cup {NoNode} /\ t[n].fields \in Fields
             /\ d[UuidOf(n)].parent = Named(t[n].parent) /\ d[UuidOf(n)].fields = t[n].fields
  <2>1. t[n].fields \in Fields BY <1>0, NodeIs
  <2> QED BY <1>2, <1>3, <2>1, ObjectIs DEF Named
<1>5. DOMAIN d \subseteq Uuids BY <1>1, <1>2
<1>6. ASSUME NEW u \in DOMAIN d PROVE d[u] \in [parent : Uuids \cup {NoNode}, fields : Fields]
  <2>1. PICK n \in m : u = UuidOf(n) BY <1>2
  <2> DEFINE p == Named(t[n].parent)
             f == t[n].fields
  <2>2. d[u] = ObjectOf(p, f) /\ p \in Uuids \cup {NoNode} /\ f \in Fields BY <1>3, <1>4, <1>5, <2>1
  <2> HIDE DEF p, f
  <2> QED BY <2>2 DEF ObjectOf
<1>7. Walkable(d) /\ Live(d) = DOMAIN d
  <2>1. IsFiniteSet(DOMAIN d) /\ NoNode \notin DOMAIN d BY <1>5, TreeAssumption, FS_Subset
  <2> QED BY <2>1 DEF Walkable, Live
<1>8. ASSUME NEW u \in DOMAIN d, d[u].parent # NoNode PROVE u \notin Above(d, d[u].parent)
  <2>1. PICK n \in m : u = UuidOf(n) BY <1>2
  <2> DEFINE p == t[n].parent
             A == {l \in m : l \in Up(t, p)}
             S == {UuidOf(l) : l \in A}
  <2>2. d[u].parent = Named(p) BY <1>4, <2>1
  <2>3. p \in m /\ p # NoNode /\ Named(p) = UuidOf(p) BY <1>8, <2>2 DEF Named
  <2>4. p \in A BY <1>0, <2>3, UpSelf
  <2>5. ASSUME NEW l \in A PROVE d[UuidOf(l)].parent \in S \cup {NoNode}
    <3>1. l \in m /\ d[UuidOf(l)].parent = Named(t[l].parent) BY <1>4
    <3>2. t[l].parent \in m \cup {NoNode} /\ t[l].parent \in Up(t, p) \cup {NoNode} BY <1>0, <3>1, UpClosed
    <3> QED BY <3>1, <3>2 DEF Named
  <2>6. UuidOf(p) \in S BY <2>4
  <2>7. \A v \in S \cap Live(d) : d[v].parent \in S \cup {NoNode} BY <2>5
  <2> HIDE DEF S
  <2>8. Up(d, UuidOf(p)) \subseteq S BY <1>7, <2>6, <2>7, UpLeast
  <2>9. u \notin S
    <3> SUFFICES ASSUME u \in S PROVE FALSE OBVIOUS
    <3>1. PICK l \in A : u = UuidOf(l) BY DEF S
    <3>2. l = n BY <2>1, <3>1 DEF MembersAre
    <3>3. n \notin Up(t, p) BY <1>0 DEF Sound
    <3> QED BY <3>1, <3>2, <3>3
  <2> QED BY <2>2, <2>3, <2>8, <2>9 DEF Above
<1>9. d \in [DOMAIN d -> [parent : Uuids \cup {NoNode}, fields : Fields]] BY <1>2, <1>6
<1>10. \A u \in DOMAIN d : d[u].parent \in DOMAIN d \cup {NoNode} BY <1>2, <1>4
<1> QED BY <1>5, <1>8, <1>9, <1>10 DEF IsForest, d

-----------------------------------------------------------------------------
(***************************************************************************)
(* The invariant                                                           *)
(***************************************************************************)
\* A captured subtree: part of a scene that was there, its root and all that is under it.
IsCapture(s) ==
    /\ IsForest(s.whole) /\ s.root \in s.objects /\ s.objects \subseteq DOMAIN s.whole
    /\ \A u \in DOMAIN s.whole : u \in s.objects <=> (u = s.root \/ s.whole[u].parent \in s.objects)
    /\ s.rest = [u \in DOMAIN s.whole \ s.objects |-> s.whole[u]]

MembersTyped(m, i, bs) ==
    m \subseteq Roots /\ i \subseteq Inners /\ \A b \in bs : b.root \in Roots /\ UuidOf(b.root) \in Prefabs
TreeTypes ==
    /\ playing \in BOOLEAN /\ crossed \in BOOLEAN /\ IsTree(tree)
    /\ MembersTyped(authored, inner, bindings)
    /\ snapshot = NoSnapshot \/ (~playing /\ IsCapture(snapshot))
SceneOK(t, m, bs) == Sound(t) /\ MembersAre(t, m) /\ \A b \in bs : b.root \in m
TreeInv ==
    /\ TreeTypes
    /\ ~playing => ~crossed
    /\ ~crossed => SceneOK(tree, authored, bindings)

\* What a step has to show when the scene is not crossed after it, and what else it has to.
LEMMA StepKeeps ==
    ASSUME TreeInv, UNCHANGED playing, crossed' \in BOOLEAN, IsTree(tree'),
           MembersTyped(authored', inner', bindings'),
           snapshot' = NoSnapshot \/ snapshot' = snapshot \/ (~playing /\ IsCapture(snapshot')),
           ~playing => ~crossed',
           ~crossed' => SceneOK(tree', authored', bindings')
    PROVE  TreeInv'
<1>1. TreeTypes'
  <2>1. playing' = playing /\ playing \in BOOLEAN
        /\ (snapshot = NoSnapshot \/ (~playing /\ IsCapture(snapshot)))
    BY DEF TreeInv, TreeTypes
  <2>2. snapshot' = NoSnapshot \/ (~playing /\ IsCapture(snapshot')) BY <2>1
  <2> QED BY <2>1, <2>2 DEF TreeTypes, NoSnapshot
<1> QED BY <1>1 DEF TreeInv

\* What a state that is not crossed has.
LEMMA SceneFacts ==
    ASSUME TreeInv, ~crossed
    PROVE  /\ Whole(tree) /\ MembersAre(tree, authored) /\ authored \subseteq Live(tree)
           /\ MembersTyped(authored, inner, bindings) /\ \A b \in bindings : b.root \in authored
           /\ Present = {UuidOf(n) : n \in authored} /\ Present \subseteq Uuids
           /\ \A n \in authored : /\ Find(UuidOf(n)) = n /\ UuidOf(n) \in Uuids /\ n # NoNode
           /\ \A u \in Present : Find(u) \in authored /\ UuidOf(Find(u)) = u
           /\ Live(tree) \subseteq Taken
<1>1. SceneOK(tree, authored, bindings) /\ TreeTypes BY DEF TreeInv
<1>2. /\ Whole(tree) /\ MembersAre(tree, authored) /\ authored \subseteq Live(tree)
      /\ MembersTyped(authored, inner, bindings) /\ \A b \in bindings : b.root \in authored
  BY <1>1 DEF SceneOK, TreeTypes, Whole, MembersAre
<1>3. \A n \in authored : UuidOf(n) \in Uuids /\ n # NoNode BY <1>2, RootsAre DEF MembersTyped
<1>4. /\ Present = {UuidOf(n) : n \in authored} /\ \A n \in authored : Find(UuidOf(n)) = n
      /\ \A u \in Present : Find(u) \in authored /\ UuidOf(Find(u)) = u
  BY <1>2, FoundIs, DescribedNow
<1> QED BY <1>2, <1>3, <1>4 DEF Taken

\* What a state that is crossed still has.
LEMMA TypeFacts ==
    ASSUME TreeInv
    PROVE  /\ IsTree(tree) /\ MembersTyped(authored, inner, bindings) /\ authored \subseteq Roots
           /\ crossed \in BOOLEAN /\ playing \in BOOLEAN /\ (~playing => ~crossed)
           /\ \A u \in Present : Find(u) \in Roots /\ Find(u) \in Ids /\ UuidOf(Find(u)) = u /\ u \in Uuids
<1>1. IsTree(tree) /\ MembersTyped(authored, inner, bindings) /\ authored \subseteq Roots
  BY DEF TreeInv, TreeTypes, MembersTyped
<1>2. \A u \in Present : Find(u) \in authored /\ UuidOf(Find(u)) = u BY DEF Present, Find
<1> QED BY <1>1, <1>2, RootsAre DEF TreeInv, TreeTypes

-----------------------------------------------------------------------------
(***************************************************************************)
(* Edits and deletions                                                     *)
(***************************************************************************)
LEMMA InitKeeps == TreeInit => TreeInv
<1> SUFFICES ASSUME TreeInit PROVE TreeInv OBVIOUS
<1>1. /\ playing \in BOOLEAN /\ tree = <<>> /\ authored = {} /\ inner = {} /\ bindings = {}
      /\ snapshot = NoSnapshot /\ crossed = FALSE
  BY DEF TreeInit
<1>2. Live(tree) = {} BY <1>1 DEF Live
<1>3. tree = [n \in {} |-> tree[n]] BY <1>1
<1>4. IsFiniteSet({}) BY FS_EmptySet
<1>5. IsTree(tree) BY <1>2, <1>3, <1>4 DEF IsTree
<1>6. SceneOK(tree, authored, bindings) BY <1>1, <1>2 DEF SceneOK, Sound, MembersAre
<1> QED BY <1>1, <1>5, <1>6 DEF TreeInv, TreeTypes, MembersTyped

LEMMA CreateKeeps ==
    ASSUME TreeInv, NEW u \in Uuids, NEW p \in authored \cup {NoNode}, Create(u, p) PROVE TreeInv'
<1>1. /\ u \notin Present /\ Room({u}) /\ p \in (authored \cap Live(tree)) \cup {NoNode}
      /\ tree' = Plant(tree, u, p, First) /\ authored' = authored \cup RootsFor({u})
      /\ inner' = inner \cup InnersFor({u}) /\ bindings' = bindings \cup BindingsFor({u})
      /\ UNCHANGED <<playing, crossed>> /\ snapshot' = NoSnapshot
  BY DEF Create, Command, Unreported, Answer
<1>2. /\ IsTree(tree) /\ MembersTyped(authored, inner, bindings) /\ authored \subseteq Roots
      /\ crossed \in BOOLEAN /\ (~playing => ~crossed)
  BY TypeFacts
<1>3. First \in Fields /\ p \in Ids \cup {NoNode} BY <1>1, <1>2, RootsAre, TreeAssumption
<1>4. IsTree(tree') BY <1>1, <1>2, <1>3, PlantTyped
<1>5. {u} \in SUBSET Uuids OBVIOUS
<1>6. /\ RootsFor({u}) \subseteq Roots /\ InnersFor({u}) \subseteq Inners
      /\ \A b \in BindingsFor({u}) : b.root \in RootsFor({u}) /\ b.root \in Roots /\ UuidOf(b.root) \in Prefabs
  BY <1>1, <1>5, NewMembers
<1>7. MembersTyped(authored', inner', bindings') BY <1>1, <1>2, <1>6 DEF MembersTyped
<1>8. ASSUME ~crossed PROVE SceneOK(tree', authored', bindings')
  <2>1. /\ Whole(tree) /\ MembersAre(tree, authored) /\ authored \subseteq Live(tree)
        /\ \A b \in bindings : b.root \in authored
        /\ Present = {UuidOf(n) : n \in authored} /\ Live(tree) \subseteq Taken
    BY <1>8, SceneFacts
  <2>2. Fresh(u, "root") \notin Live(tree) /\ Fresh(u, "inner") \notin Live(tree) BY <1>1, <2>1, NewForIs
  <2>3. Whole(tree') /\ Live(tree') = Live(tree) \cup NewFor(u)
    <3>1. p \in Live(tree) \cup {NoNode} BY <1>1
    <3> QED BY <1>1, <1>3, <2>1, <2>2, <3>1, PlantSound
  <2>4. RootsFor({u}) \subseteq NewFor(u) BY DEF RootsFor, NewFor
  <2>5. authored \cup RootsFor({u}) \subseteq Live(tree') BY <2>1, <2>3, <2>4
  <2>6. {u} \cap {UuidOf(n) : n \in authored} = {} BY <1>1, <2>1
  <2>7. MembersAre(tree', authored') BY <1>1, <1>5, <2>1, <2>5, <2>6, JoinedMembers
  <2>8. \A b \in bindings' : b.root \in authored' BY <1>1, <1>6, <2>1
  <2> QED BY <2>3, <2>7, <2>8 DEF SceneOK, Whole
<1> QED BY <1>1, <1>2, <1>4, <1>7, <1>8, StepKeeps

\* A step that changes no member, and keeps the nodes there are.
LEMMA SameMembers ==
    ASSUME TreeInv, UNCHANGED <<playing, authored, inner, bindings>>, crossed' \in BOOLEAN, ~playing => ~crossed',
           snapshot' = NoSnapshot \/ snapshot' = snapshot, IsTree(tree'), crossed => crossed',
           ~crossed' => Whole(tree') /\ Live(tree') = Live(tree)
    PROVE  TreeInv'
<1>1. MembersTyped(authored, inner, bindings) BY TypeFacts
<1>2. ASSUME ~crossed' PROVE SceneOK(tree', authored', bindings')
  <2>1. MembersAre(tree, authored) /\ \A b \in bindings : b.root \in authored BY <1>2, SceneFacts
  <2> QED BY <1>2, <2>1 DEF SceneOK, MembersAre, Whole
<1> QED BY <1>1, <1>2, StepKeeps

LEMMA SetFieldsKeeps ==
    ASSUME TreeInv, NEW n \in authored, NEW f \in Fields, SetFields(n, f) PROVE TreeInv'
<1>1. /\ n \in authored \cap Live(tree) /\ tree' = [tree EXCEPT ![n].fields = f]
      /\ UNCHANGED <<playing, authored, inner, bindings, crossed>> /\ snapshot' = NoSnapshot
  BY DEF SetFields, Command, Unreported, Answer
<1>2. IsTree(tree) /\ crossed \in BOOLEAN /\ (~playing => ~crossed) BY TypeFacts
<1>3. IsTree(tree')
  <2>1. Set(tree, n, FALSE, NoNode, f) = tree' BY <1>1 DEF Set
  <2> QED BY <1>2, <2>1, SetTyped
<1>4. ASSUME ~crossed PROVE Whole(tree') /\ Live(tree') = Live(tree)
  <2>1. Whole(tree) BY <1>4, SceneFacts
  <2>2. Whole(tree') /\ Altered(tree, tree', n, tree[n].parent, f) BY <1>1, <2>1, FieldsSound
  <2> QED BY <2>2 DEF Altered
<1> QED BY <1>1, <1>2, <1>3, <1>4, SameMembers

LEMMA ReparentNodeKeeps ==
    ASSUME TreeInv, NEW n, NEW p, ReparentNode(n, p) PROVE TreeInv'
<1>1. /\ ~playing /\ CanMove(tree, n, p) /\ tree[n].parent # p /\ tree' = Moved(tree, n, p)
      /\ UNCHANGED <<playing, authored, inner, bindings, crossed>> /\ snapshot' = NoSnapshot
  BY DEF ReparentNode, Command, Unreported, Answer
<1>2. IsTree(tree) /\ crossed \in BOOLEAN /\ (~playing => ~crossed) BY TypeFacts
<1>3. tree' = Move(tree, n, p) /\ ~Crosses(tree, n, p) BY <1>1 DEF Move, Crosses
<1>4. Whole(tree) BY <1>1, <1>2, SceneFacts
<1>5. Whole(tree') /\ Reparented(tree, tree', n, p) BY <1>1, <1>3, <1>4, MoveSound
<1>6. IsTree(tree') /\ Live(tree') = Live(tree) BY <1>5 DEF Whole, Reparented
<1> QED BY <1>1, <1>2, <1>5, <1>6, SameMembers

LEMMA NodeReparentKeeps ==
    ASSUME TreeInv, NEW n, NEW p, NodeReparent(n, p) PROVE TreeInv'
<1>1. /\ playing /\ CanMove(tree, n, p) /\ tree' = Moved(tree, n, p)
      /\ crossed' = (crossed \/ Crosses(tree, n, p))
      /\ UNCHANGED <<playing, authored, inner, bindings, snapshot>>
  BY DEF NodeReparent, Unreported, Answer
<1>2. IsTree(tree) /\ crossed \in BOOLEAN BY TypeFacts
<1>3. tree' = Move(tree, n, p) BY <1>1 DEF Move
<1>4. IsTree(tree') BY <1>2, <1>3, MoveTyped
<1>5. crossed' \in BOOLEAN BY <1>1, <1>2 DEF Crosses, CanMove
<1>6. ASSUME ~crossed' PROVE Whole(tree') /\ Live(tree') = Live(tree)
  <2>1. ~crossed /\ ~Crosses(tree, n, p) BY <1>1, <1>6
  <2>2. Whole(tree) BY <2>1, SceneFacts
  <2>3. Whole(tree') /\ Reparented(tree, tree', n, p) BY <1>1, <1>3, <2>1, <2>2, MoveSound
  <2> QED BY <2>3 DEF Reparented
<1>7. crossed => crossed' BY <1>1
<1> QED BY <1>1, <1>4, <1>5, <1>6, <1>7, SameMembers

\* capture_subtree() takes the objects at the root and below it, and all of them.
LEMMA CaptureIs ==
    ASSUME TreeInv, ~crossed, NEW root \in authored, CanCapture,
           NEW s, s.root = UuidOf(root), s.whole = Description, s.objects = Captured(root),
           s.rest = [u \in Present \ {UuidOf(n) : n \in Leaving(tree, root) \cap authored} |-> Description[u]]
    PROVE  IsCapture(s)
<1> DEFINE In == {n \in authored : root \in Up(tree, n)}
           d == Description
<1>1. /\ Whole(tree) /\ MembersAre(tree, authored) /\ authored \subseteq Live(tree) /\ authored \subseteq Roots
      /\ Present = {UuidOf(n) : n \in authored}
      /\ \A n \in authored : UuidOf(n) \in Uuids /\ n # NoNode
  BY SceneFacts, TypeFacts
<1>2. Walkable(tree) BY <1>1, TreeWalkable DEF Whole
<1>3. \A n \in authored : tree[n].parent \in authored \cup {NoNode} BY DEF CanCapture
<1>4. IsForest(d) BY <1>1, <1>3, DescribedForest, DescribedNow
<1>5. DOMAIN d = Present /\ \A n \in authored : d[UuidOf(n)] = ObjectOf(Named(tree[n].parent), tree[n].fields)
  <2>1. d = Described(tree, authored) /\ Present = PresentIn(tree, authored) BY DescribedNow
  <2> HIDE DEF d
  <2>2. /\ DOMAIN Described(tree, authored) = PresentIn(tree, authored)
        /\ \A n \in authored : Described(tree, authored)[UuidOf(n)] = ObjectOf(Named(tree[n].parent), tree[n].fields)
    BY <1>1, DescribedIs
  <2> QED BY <2>1, <2>2
<1> HIDE DEF d
<1>6. Captured(root) = {UuidOf(n) : n \in In} BY DEF Captured
<1>7. Leaving(tree, root) \cap authored = In BY DEF Leaving, Members
<1> HIDE DEF In
<1>8. ASSUME NEW n \in authored PROVE UuidOf(n) \in Captured(root) <=> root \in Up(tree, n)
  BY <1>1, <1>6 DEF In, MembersAre
<1>9. UuidOf(root) \in Captured(root) BY <1>1, <1>2, <1>8, UpSelf
<1>10. Captured(root) \subseteq DOMAIN d BY <1>1, <1>5, <1>6 DEF In
<1>11. ASSUME NEW u \in DOMAIN d
       PROVE  u \in Captured(root) <=> (u = UuidOf(root) \/ d[u].parent \in Captured(root))
  <2>1. PICK n \in authored : u = UuidOf(n) BY <1>1, <1>5
  <2>2. d[u].parent = Named(tree[n].parent) BY <1>5, <2>1, ObjectIs
  <2>3. Up(tree, n) = {n} \cup Up(tree, tree[n].parent) BY <1>1, <1>2, UpOne
  <2>4. u = UuidOf(root) <=> n = root BY <1>1, <2>1 DEF MembersAre
  <2>5. CASE tree[n].parent = NoNode
    <3>1. Up(tree, tree[n].parent) = {} BY <1>2, <2>5, UpNothing
    <3>2. d[u].parent \notin Captured(root)
      <4>1. d[u].parent = NoNode BY <2>2, <2>5 DEF Named
      <4>2. NoNode \notin Uuids BY TreeAssumption
      <4> QED BY <1>1, <1>5, <1>10, <4>1, <4>2
    <3> QED BY <1>8, <2>1, <2>3, <2>4, <3>1, <3>2
  <2>6. CASE tree[n].parent # NoNode
    <3>1. tree[n].parent \in authored /\ d[u].parent = UuidOf(tree[n].parent) BY <1>3, <2>2, <2>6 DEF Named
    <3>2. d[u].parent \in Captured(root) <=> root \in Up(tree, tree[n].parent) BY <1>8, <3>1
    <3> QED BY <1>8, <2>1, <2>3, <2>4, <3>2
  <2> QED BY <2>5, <2>6
<1>12. s.rest = [u \in DOMAIN d \ Captured(root) |-> d[u]] BY <1>5, <1>6, <1>7 DEF d
<1> QED BY <1>4, <1>9, <1>10, <1>11, <1>12 DEF IsCapture, d

\* What is left of the members when the nodes under root are gone.
LEMMA LeavingAre ==
    ASSUME NEW t, Whole(t), NEW m, MembersAre(t, m), NEW root \in Live(t), NEW gone,
           \A n \in m : n \in gone <=> root \in Up(t, n)
    PROVE  m \ gone = {n \in m : root \notin Up(t, n)} /\ MembersAre(Destroyed(t, root), m \ gone)
<1>1. Live(Destroyed(t, root)) = {n \in Live(t) : root \notin Up(t, n)} BY DestroyedSound
<1> QED BY <1>1 DEF MembersAre

LEMMA DeleteKeeps ==
    ASSUME TreeInv, NEW root \in authored, Delete(root) PROVE TreeInv'
<1> DEFINE gone == Leaving(tree, root)
<1>1. /\ ~playing /\ CanCapture /\ UNCHANGED <<playing, crossed>>
      /\ snapshot' = [root |-> UuidOf(root), whole |-> Description, objects |-> Captured(root),
                      rest |-> [u \in Present \ {UuidOf(n) : n \in gone \cap authored} |-> Description[u]]]
      /\ tree' = Destroyed(tree, root) /\ authored' = authored \ gone /\ inner' = inner \ gone
      /\ bindings' = {b \in bindings : b.root \notin gone}
  BY DEF Delete, Unreported, Answer
<1>2. crossed \in BOOLEAN /\ ~crossed BY <1>1, TypeFacts
<1>3. /\ Whole(tree) /\ MembersAre(tree, authored) /\ authored \subseteq Live(tree)
      /\ MembersTyped(authored, inner, bindings) /\ \A b \in bindings : b.root \in authored
  BY <1>2, SceneFacts
<1>4. IsCapture(snapshot')
  <2> DEFINE whole == Description
             objects == Captured(root)
             rest == [u \in Present \ {UuidOf(n) : n \in gone \cap authored} |-> Description[u]]
             s == [root |-> UuidOf(root), whole |-> whole, objects |-> objects, rest |-> rest]
  <2>1. snapshot' = s BY <1>1
  <2> HIDE DEF whole, objects, rest
  <2>2. s.root = UuidOf(root) /\ s.whole = whole /\ s.objects = objects /\ s.rest = rest OBVIOUS
  <2> HIDE DEF s
  <2>3. IsCapture(s) BY <1>1, <1>2, <2>2, CaptureIs DEF whole, objects, rest
  <2> QED BY <2>1, <2>3
<1>5. \A n \in authored : n \in gone <=> root \in Up(tree, n) BY DEF Leaving, Members
<1> HIDE DEF gone
<1>6. MembersAre(tree', authored') BY <1>1, <1>3, <1>5, LeavingAre
<1>7. Whole(tree') BY <1>1, <1>3, DestroyedSound
<1>8. \A b \in bindings' : b.root \in authored' BY <1>1, <1>3
<1>9. MembersTyped(authored', inner', bindings') BY <1>1, <1>3 DEF MembersTyped
<1>10. SceneOK(tree', authored', bindings') BY <1>6, <1>7, <1>8 DEF SceneOK, Whole
<1>11. IsTree(tree') BY <1>7 DEF Whole
<1> QED BY <1>1, <1>2, <1>4, <1>9, <1>10, <1>11, StepKeeps

-----------------------------------------------------------------------------
(***************************************************************************)
(* Restoring                                                               *)
(***************************************************************************)
\* The captured objects apart from the scene are a forest, whose root is under none.
LEMMA ApartIs ==
    ASSUME NEW d, IsForest(d), NEW root \in DOMAIN d, NEW e, e = [d EXCEPT ![root].parent = NoNode]
    PROVE  /\ IsForest(e) /\ DOMAIN e = DOMAIN d
           /\ \A u \in DOMAIN d : /\ e[u].parent = IF u = root THEN NoNode ELSE d[u].parent
                                  /\ e[u].fields = d[u].fields
<1>1. DOMAIN e = DOMAIN d /\ e = [u \in DOMAIN d |-> e[u]] BY DEF IsForest
<1>2. \A u \in DOMAIN d : d[u] = ObjectOf(d[u].parent, d[u].fields) BY ObjectIs
<1>3. ASSUME NEW u \in DOMAIN d
      PROVE  e[u] = ObjectOf(IF u = root THEN NoNode ELSE d[u].parent, d[u].fields)
  <2>1. CASE u # root
    <3>1. e[u] = d[u] BY <2>1 DEF IsForest
    <3> QED BY <1>2, <2>1, <3>1
  <2>2. CASE u = root
    <3>1. e[u] = [d[u] EXCEPT !.parent = NoNode] BY <2>2 DEF IsForest
    <3>2. d[u] = ObjectOf(d[u].parent, d[u].fields) BY <1>2
    <3>3. e[u] = ObjectOf(NoNode, d[u].fields) BY <3>1, <3>2 DEF ObjectOf
    <3> QED BY <2>2, <3>3
  <2> QED BY <2>1, <2>2
<1>4. \A u \in DOMAIN d : /\ e[u].parent = (IF u = root THEN NoNode ELSE d[u].parent)
                          /\ e[u].fields = d[u].fields
  BY <1>3, ObjectIs
<1>5. \A u \in DOMAIN d : /\ d[u].parent \in DOMAIN d \cup {NoNode} /\ d[u].fields \in Fields
                          /\ d[u].parent # NoNode => u \notin Up(d, d[u].parent)
  BY DEF IsForest, Above
<1>6. ASSUME NEW u \in DOMAIN d PROVE e[u] \in [parent : Uuids \cup {NoNode}, fields : Fields]
  <2> DEFINE p == IF u = root THEN NoNode ELSE d[u].parent
  <2>1. p \in Uuids \cup {NoNode} /\ e[u] = ObjectOf(p, d[u].fields) BY <1>3, <1>5 DEF IsForest
  <2> HIDE DEF p
  <2> QED BY <1>5, <2>1 DEF ObjectOf
<1>7. Walkable(d) /\ Live(d) = DOMAIN d /\ Walkable(e) /\ Live(e) = DOMAIN d
  BY <1>1, ForestWalkable DEF Walkable, Live
<1>8. ASSUME NEW x \in DOMAIN d PROVE Up(e, x) \subseteq Up(d, x)
  <2>1. x \in Up(d, x) \cup {NoNode} BY <1>7, UpSelf
  <2>2. \A m \in Up(d, x) \cap DOMAIN d : d[m].parent \in Up(d, x) \cup {NoNode} BY <1>7, UpClosed
  <2> DEFINE S == Up(d, x)
  <2>3. x \in S \cup {NoNode} /\ \A m \in S \cap Live(e) : e[m].parent \in S \cup {NoNode}
    BY <1>4, <1>7, <2>1, <2>2
  <2>4. Walkable(e) BY <1>7
  <2> HIDE DEF S
  <2>5. Up(e, x) \subseteq S BY <2>3, <2>4, UpLeast
  <2> QED BY <2>5 DEF S
<1>9. ASSUME NEW u \in DOMAIN d, e[u].parent # NoNode PROVE u \notin Up(e, e[u].parent)
  <2>1. e[u].parent = d[u].parent /\ d[u].parent \in DOMAIN d /\ u \notin Up(d, d[u].parent)
    BY <1>4, <1>5, <1>9
  <2> QED BY <1>8, <2>1
<1>10. e \in [DOMAIN e -> [parent : Uuids \cup {NoNode}, fields : Fields]] BY <1>1, <1>6
<1>11. DOMAIN e \subseteq Uuids /\ \A u \in DOMAIN e : e[u].parent \in DOMAIN e \cup {NoNode}
  BY <1>1, <1>4, <1>5 DEF IsForest
<1>12. IsForest(e) BY <1>1, <1>9, <1>10, <1>11 DEF IsForest, Above
<1> QED BY <1>1, <1>4, <1>12

\* Where a node of the description goes in the scene there is.
NodeThere(p) == IF p = NoNode THEN NoNode ELSE Find(p)

\* restore_subtree() puts each object under its own parent, and the root where it was.
LEMMA RestoreGives ==
    ASSUME TreeInv, ~crossed, Restore
    PROVE  LET us == snapshot.objects
               d == snapshot.whole
               root == snapshot.root
           IN /\ IsCapture(snapshot) /\ us \in SUBSET Uuids /\ Room(us) /\ us \cap Present = {}
              /\ d[root].parent # NoNode => d[root].parent \in Present
              /\ Whole(tree') /\ Live(tree') = Live(tree) \cup NewNodes(us) /\ Rest(tree, tree', Live(tree))
              /\ \A u \in us : LET n == Fresh(u, "root") IN
                   /\ tree'[n].fields = d[u].fields
                   /\ tree'[n].parent = IF u = root THEN NodeThere(d[u].parent)
                                        ELSE IF d[u].parent = NoNode THEN NoNode ELSE Fresh(d[u].parent, "root")
<1> DEFINE us == snapshot.objects
           d == snapshot.whole
           root == snapshot.root
           e == [d EXCEPT ![root].parent = NoNode]
           a == Grown(tree, e, us)
           top == Fresh(root, "root")
           p == NodeThere(d[root].parent)
<1>1. /\ snapshot # NoSnapshot /\ us \cap Present = {} /\ Room(us)
      /\ d[root].parent # NoNode => d[root].parent \in Present
      /\ tree' = Move(a, top, p)
  BY DEF Restore, NodeThere
<1>2. IsCapture(snapshot) BY <1>1 DEF TreeInv, TreeTypes
<1>3. /\ IsForest(d) /\ root \in us /\ us \subseteq DOMAIN d
      /\ \A u \in DOMAIN d : u \in us <=> (u = root \/ d[u].parent \in us)
  BY <1>2 DEF IsCapture
<1>4. us \in SUBSET Uuids /\ \A u \in us : d[u].parent \in DOMAIN d \cup {NoNode} BY <1>3 DEF IsForest
<1>5. /\ Whole(tree) /\ Live(tree) \subseteq Taken /\ authored \subseteq Live(tree)
      /\ \A u \in Present : Find(u) \in authored
  BY SceneFacts
<1> HIDE DEF us, d, root
<1>6. /\ IsForest(e) /\ DOMAIN e = DOMAIN d
      /\ \A u \in DOMAIN d : /\ e[u].parent = IF u = root THEN NoNode ELSE d[u].parent
                             /\ e[u].fields = d[u].fields
  BY <1>3, ApartIs
<1> HIDE DEF e
<1>7. \A u \in us : e[u].parent \in us \cup {NoNode} /\ (u # root => e[u].parent = d[u].parent)
  BY <1>3, <1>4, <1>6
<1>8. /\ Whole(a) /\ Live(a) = Live(tree) \cup NewNodes(us) /\ Rest(tree, a, Live(tree))
      /\ \A u \in us : /\ a[Fresh(u, "root")].parent = NodeFor(us, e[u].parent)
                       /\ a[Fresh(u, "root")].fields = e[u].fields
  BY <1>1, <1>3, <1>5, <1>6, <1>7, GrownSound
<1> HIDE DEF a
<1>9. /\ RootsFor(us) \subseteq NewNodes(us) /\ NewNodes(us) \cap Taken = {}
      /\ \A u \in us : /\ Fresh(u, "root") \in RootsFor(us) /\ UuidOf(Fresh(u, "root")) = u
                       /\ Fresh(u, "root") # NoNode
  BY <1>1, <1>4, NewMembers
<1>10. top \in NewNodes(us) /\ top \notin Live(tree) /\ top \in Live(a) BY <1>3, <1>5, <1>8, <1>9
<1>11. p \in Live(tree) \cup {NoNode} BY <1>1, <1>5 DEF NodeThere
<1>12. a[top].parent = NoNode BY <1>3, <1>6, <1>8 DEF NodeFor
<1>13. CanMove(a, top, p) /\ ~Crosses(a, top, p)
  <2>1. Walkable(a) BY <1>8, TreeWalkable DEF Whole
  <2>2. \A m \in Live(tree) : tree[m].parent = a[m].parent BY <1>8 DEF Rest
  <2>3. Live(tree) \subseteq Live(a) BY <1>8
  <2>4. Up(a, p) \subseteq Live(tree) BY <1>5, <1>11, <2>1, <2>2, <2>3, UpKept
  <2> QED BY <1>10, <1>11, <1>12, <2>3, <2>4 DEF CanMove, Crosses
<1>14. Whole(tree') /\ Reparented(a, tree', top, p) BY <1>1, <1>8, <1>13, MoveSound
<1> HIDE DEF p
<1>15. Live(tree') = Live(tree) \cup NewNodes(us) BY <1>8, <1>14 DEF Reparented
<1>16. \A m \in Live(a) : /\ tree'[m].parent = (IF m = top THEN p ELSE a[m].parent)
                          /\ tree'[m].fields = a[m].fields
  BY <1>14 DEF Reparented
<1>17. Rest(tree, tree', Live(tree)) BY <1>8, <1>10, <1>16 DEF Rest
<1>18. ASSUME NEW u \in us
       PROVE  /\ tree'[Fresh(u, "root")].fields = d[u].fields
              /\ tree'[Fresh(u, "root")].parent =
                   IF u = root THEN NodeThere(d[u].parent)
                   ELSE IF d[u].parent = NoNode THEN NoNode ELSE Fresh(d[u].parent, "root")
  <2> DEFINE n == Fresh(u, "root")
  <2>1. n \in Live(a) /\ (n = top <=> u = root) BY <1>3, <1>8, <1>9
  <2>2. a[n].fields = d[u].fields /\ a[n].parent = NodeFor(us, e[u].parent) BY <1>3, <1>6, <1>8
  <2>3. tree'[n].fields = d[u].fields BY <1>16, <2>1, <2>2
  <2>4. CASE u = root
    <3>1. tree'[n].parent = p BY <1>16, <2>1, <2>4
    <3> QED BY <2>3, <2>4, <3>1 DEF p
  <2>5. CASE u # root
    <3>1. tree'[n].parent = NodeFor(us, d[u].parent) BY <1>7, <1>16, <2>1, <2>2, <2>5
    <3>2. d[u].parent \in us \cup {NoNode} BY <1>7, <2>5
    <3> QED BY <2>3, <2>5, <3>1, <3>2 DEF NodeFor
  <2> QED BY <2>4, <2>5
<1> QED BY <1>1, <1>2, <1>4, <1>14, <1>15, <1>17, <1>18 DEF us, d, root

LEMMA RestoreMembers ==
    ASSUME TreeInv, Restore
    PROVE  /\ TreeInv' /\ MembersAre(tree', authored')
           /\ authored' = authored \cup RootsFor(snapshot.objects)
<1> DEFINE us == snapshot.objects
<1>1. /\ ~playing /\ UNCHANGED <<playing, snapshot, crossed>>
      /\ authored' = authored \cup RootsFor(us) /\ inner' = inner \cup InnersFor(us)
      /\ bindings' = bindings \cup BindingsFor(us)
  BY DEF Restore, Answer
<1>2. crossed \in BOOLEAN /\ ~crossed BY <1>1, TypeFacts
<1>3. /\ us \in SUBSET Uuids /\ Room(us) /\ us \cap Present = {}
      /\ Whole(tree') /\ Live(tree') = Live(tree) \cup NewNodes(us)
  BY <1>2, RestoreGives
<1>4. /\ MembersAre(tree, authored) /\ authored \subseteq Live(tree)
      /\ MembersTyped(authored, inner, bindings) /\ \A b \in bindings : b.root \in authored
      /\ Present = {UuidOf(n) : n \in authored}
  BY <1>2, SceneFacts
<1> HIDE DEF us
<1>5. /\ RootsFor(us) \subseteq Roots /\ InnersFor(us) \subseteq Inners /\ RootsFor(us) \subseteq NewNodes(us)
      /\ \A b \in BindingsFor(us) : b.root \in RootsFor(us) /\ b.root \in Roots /\ UuidOf(b.root) \in Prefabs
  BY <1>3, NewMembers
<1>6. MembersAre(tree', authored')
  <2>1. authored \cup RootsFor(us) \subseteq Live(tree') BY <1>3, <1>4, <1>5
  <2>2. us \cap {UuidOf(n) : n \in authored} = {} BY <1>3, <1>4
  <2> QED BY <1>1, <1>3, <1>4, <2>1, <2>2, JoinedMembers
<1>7. MembersTyped(authored', inner', bindings') BY <1>1, <1>4, <1>5 DEF MembersTyped
<1>8. \A b \in bindings' : b.root \in authored' BY <1>1, <1>4, <1>5
<1>9. SceneOK(tree', authored', bindings') /\ IsTree(tree') BY <1>3, <1>6, <1>8 DEF SceneOK, Whole
<1>10. TreeInv' BY <1>1, <1>2, <1>7, <1>9, StepKeeps
<1> QED BY <1>1, <1>6, <1>10 DEF us

\* The scene that was there when the subtree was deleted is there again.
LEMMA RestoreRestores ==
    ASSUME TreeInv, Restore, Description = snapshot.rest PROVE Description' = snapshot.whole
<1> DEFINE us == snapshot.objects
           d == snapshot.whole
           root == snapshot.root
           D == Described(tree', authored')
           O(n) == ObjectOf(Named(tree'[n].parent), tree'[n].fields)
<1>0. ~crossed /\ Description' = D
  <2>1. ~playing BY DEF Restore
  <2> QED BY <2>1, TypeFacts, DescribedThen
<1>1. /\ IsCapture(snapshot) /\ us \in SUBSET Uuids /\ Room(us)
      /\ d[root].parent # NoNode => d[root].parent \in Present
      /\ Rest(tree, tree', Live(tree))
      /\ \A u \in us : LET n == Fresh(u, "root") IN
           /\ tree'[n].fields = d[u].fields
           /\ tree'[n].parent = IF u = root THEN NodeThere(d[u].parent)
                                ELSE IF d[u].parent = NoNode THEN NoNode ELSE Fresh(d[u].parent, "root")
  BY <1>0, RestoreGives
<1>2. /\ IsForest(d) /\ root \in us /\ us \subseteq DOMAIN d
      /\ \A u \in DOMAIN d : u \in us <=> (u = root \/ d[u].parent \in us)
      /\ snapshot.rest = [u \in DOMAIN d \ us |-> d[u]]
  BY <1>1 DEF IsCapture
<1>3. /\ MembersAre(tree', authored') /\ authored' = authored \cup RootsFor(us) BY RestoreMembers
<1>4. /\ MembersAre(tree, authored) /\ authored \subseteq Live(tree)
      /\ Present = {UuidOf(n) : n \in authored}
      /\ \A n \in authored : n # NoNode
      /\ \A u \in Present : Find(u) \in authored /\ UuidOf(Find(u)) = u
  BY <1>0, SceneFacts
<1>5. /\ DOMAIN Described(tree, authored) = Present
      /\ \A n \in authored : Described(tree, authored)[UuidOf(n)] = ObjectOf(Named(tree[n].parent), tree[n].fields)
  <2>1. DOMAIN Described(tree, authored) = PresentIn(tree, authored) BY <1>4, DescribedIs
  <2>2. PresentIn(tree, authored) = Present BY DescribedNow
  <2> QED BY <1>4, <2>1, <2>2, DescribedIs
<1>6. Description = Described(tree, authored) BY DescribedNow
<1>7. DOMAIN D = PresentIn(tree', authored') /\ D = [u \in DOMAIN D |-> D[u]]
      /\ \A n \in authored' : UuidOf(n) \in DOMAIN D /\ D[UuidOf(n)] = O(n)
  BY <1>3, DescribedIs
<1>8. PresentIn(tree', authored') = {UuidOf(n) : n \in authored'} BY <1>3, FoundIs
<1> HIDE DEF us, d, root, D
<1>9. /\ \A u \in us : /\ Fresh(u, "root") \in RootsFor(us) /\ UuidOf(Fresh(u, "root")) = u
                       /\ Fresh(u, "root") # NoNode
      /\ \A n \in RootsFor(us) : UuidOf(n) \in us
  BY <1>1, NewMembers
<1>10. DOMAIN d = Present \cup us /\ Present \cap us = {} /\ \A u \in Present : Described(tree, authored)[u] = d[u]
  <2>1. Described(tree, authored) = [u \in DOMAIN d \ us |-> d[u]] BY <1>2, <1>6
  <2>2. Present = DOMAIN d \ us BY <1>5, <2>1
  <2> QED BY <1>2, <2>1, <2>2
<1>11. DOMAIN D = DOMAIN d
  <2>1. us = {UuidOf(n) : n \in RootsFor(us)} BY <1>9
  <2>2. {UuidOf(n) : n \in authored'} = {UuidOf(n) : n \in authored} \cup {UuidOf(n) : n \in RootsFor(us)}
    BY <1>3
  <2>3. DOMAIN D = {UuidOf(n) : n \in authored'} BY <1>7, <1>8
  <2> QED BY <1>4, <1>10, <2>1, <2>2, <2>3
<1>12. ASSUME NEW u \in Present PROVE D[u] = d[u]
  <2> DEFINE n == Find(u)
  <2>1. n \in authored /\ UuidOf(n) = u /\ n \in Live(tree) /\ n \in authored' BY <1>3, <1>4
  <2>2. tree'[n].parent = tree[n].parent /\ tree'[n].fields = tree[n].fields BY <1>1, <2>1 DEF Rest
  <2>3. D[u] = O(n) /\ Described(tree, authored)[u] = ObjectOf(Named(tree[n].parent), tree[n].fields)
    BY <1>5, <1>7, <2>1
  <2> QED BY <1>10, <2>2, <2>3
<1>13. ASSUME NEW u \in us PROVE D[u] = d[u]
  <2> DEFINE n == Fresh(u, "root")
             q == IF u = root THEN NodeThere(d[u].parent)
                  ELSE IF d[u].parent = NoNode THEN NoNode ELSE Fresh(d[u].parent, "root")
  <2>1. n \in authored' /\ UuidOf(n) = u BY <1>3, <1>9
  <2>2. D[u] = O(n) BY <1>7, <2>1
  <2>3. tree'[n].parent = q /\ tree'[n].fields = d[u].fields BY <1>1
  <2>4. Named(q) = d[u].parent
    <3>1. CASE d[u].parent = NoNode BY <3>1 DEF NodeThere, Named
    <3>2. CASE u = root /\ d[u].parent # NoNode
      <4>1. d[u].parent \in Present BY <1>1, <3>2
      <4>2. q = Find(d[u].parent) BY <3>2 DEF NodeThere
      <4>3. q # NoNode /\ UuidOf(q) = d[u].parent BY <1>4, <4>1, <4>2
      <4> QED BY <4>3 DEF Named
    <3>3. CASE u # root /\ d[u].parent # NoNode
      <4>1. d[u].parent \in us BY <1>2, <3>3
      <4>2. q = Fresh(d[u].parent, "root") BY <3>3
      <4>3. q # NoNode /\ UuidOf(q) = d[u].parent BY <1>9, <4>1, <4>2
      <4> QED BY <4>3 DEF Named
    <3> QED BY <3>1, <3>2, <3>3
  <2>5. d[u] = ObjectOf(d[u].parent, d[u].fields) BY <1>2, ObjectIs
  <2> HIDE DEF q, n
  <2> QED BY <2>2, <2>3, <2>4, <2>5
<1>14. d = [u \in DOMAIN d |-> d[u]] BY <1>2 DEF IsForest
<1>15. \A u \in DOMAIN d : D[u] = d[u] BY <1>10, <1>12, <1>13
<1>16. D = d BY <1>7, <1>11, <1>14, <1>15
<1> QED BY <1>0, <1>16 DEF d

-----------------------------------------------------------------------------
(***************************************************************************)
(* Refreshing                                                              *)
(***************************************************************************)
\* With what an author hung on it moved away, an instance goes and takes nothing else of them.
LEMMA RefreshClears ==
    ASSUME TreeInv, ~crossed, CanCapture, NEW root \in authored
    PROVE  LET hanging == Attached(root)
               above == tree[root].parent
               away == MovedAll(tree, hanging, above)
               s == Destroyed(away, root)
               gone == Leaving(away, root)
           IN /\ hanging \subseteq authored \ {root} /\ above \in (authored \ {root}) \cup {NoNode}
              /\ Whole(s) /\ Live(s) \subseteq Live(tree) /\ authored \ gone = authored \ {root}
              /\ root \notin Live(s) /\ MembersAre(s, authored \ {root})
              /\ \A m \in Live(s) : /\ s[m].parent = IF m \in hanging THEN above ELSE tree[m].parent
                                    /\ s[m].fields = tree[m].fields
<1> DEFINE hanging == Attached(root)
           above == tree[root].parent
           away == MovedAll(tree, hanging, above)
           s == Destroyed(away, root)
           gone == Leaving(away, root)
           others2 == authored \ {root}
<1>1. Whole(tree) /\ MembersAre(tree, authored) /\ authored \subseteq Live(tree) /\ \A n \in authored : n # NoNode
  BY SceneFacts
<1>2. Walkable(tree) /\ Sound(tree) BY <1>1, TreeWalkable DEF Whole
<1>3. \A n \in authored : tree[n].parent \in authored \cup {NoNode} BY DEF CanCapture
<1>4. \A n : n \in hanging <=> n \in authored /\ tree[n].parent = root BY DEF Attached
<1>5. root \notin Up(tree, above) /\ Up(tree, root) = {root} \cup Up(tree, above) BY <1>1, <1>2, UpOne DEF Sound
<1>6. above # root /\ above \in others2 \cup {NoNode}
  <2>1. above \in Up(tree, above) \cup {NoNode} BY <1>2, UpSelf
  <2> QED BY <1>1, <1>3, <1>5, <2>1
<1>7. hanging \subseteq others2 BY <1>4, <1>6
<1>8. ASSUME NEW n \in hanging PROVE n \notin Up(tree, above) /\ tree[n].parent # above
  <2>1. n \in Live(tree) /\ tree[n].parent = root BY <1>1, <1>4
  <2>2. n \notin Up(tree, root) BY <1>2, <2>1 DEF Sound
  <2> QED BY <1>5, <1>6, <2>1, <2>2
<1>9. hanging \in SUBSET Live(tree) /\ above \in Live(tree) \cup {NoNode} BY <1>1, <1>6, <1>7
<1> HIDE DEF hanging, above
<1>10. /\ Whole(away) /\ Live(away) = Live(tree)
       /\ \A m \in Live(tree) : /\ away[m].parent = IF m \in hanging THEN above ELSE tree[m].parent
                                /\ away[m].fields = tree[m].fields
  <2>1. Whole(away) /\ Live(away) = Live(tree) /\ PutUnder(tree, away, hanging, above)
    BY <1>1, <1>8, <1>9, MovedAllSound
  <2> QED BY <2>1 DEF PutUnder
<1> HIDE DEF away
<1>11. Walkable(away) /\ root \in Live(away) BY <1>1, <1>10, TreeWalkable DEF Whole
<1>12. ASSUME NEW n \in others2 PROVE root \notin Up(away, n)
  <2>1. ASSUME NEW m \in others2 PROVE away[m].parent \in others2 \cup {NoNode}
    <3>1. m \in authored /\ m \in Live(tree) /\ away[m].parent = IF m \in hanging THEN above ELSE tree[m].parent
      BY <1>1, <1>10
    <3>2. CASE m \in hanging BY <1>6, <3>1, <3>2
    <3>3. CASE m \notin hanging
      <4>1. tree[m].parent \in authored \cup {NoNode} /\ tree[m].parent # root BY <1>3, <1>4, <3>1, <3>3
      <4> QED BY <3>1, <3>3, <4>1
    <3> QED BY <3>2, <3>3
  <2>2. root \notin others2 OBVIOUS
  <2> HIDE DEF others2
  <2>3. Up(away, n) \subseteq others2 BY <1>11, <2>1, UpLeast
  <2> QED BY <2>2, <2>3
<1>13. root \in Up(away, root) BY <1>1, <1>11, UpSelf
<1>14. \A n \in authored : n \in gone <=> root \in Up(away, n) BY DEF Leaving, Members
<1>15. authored \ gone = others2 BY <1>12, <1>13, <1>14
<1>16. MembersAre(away, authored) BY <1>1, <1>10 DEF MembersAre
<1>17. MembersAre(s, authored \ gone)
  <2> HIDE DEF gone
  <2> QED BY <1>10, <1>11, <1>14, <1>16, LeavingAre
<1>18. Whole(s) /\ Live(s) = {m \in Live(away) : root \notin Up(away, m)} /\ Rest(away, s, Live(s))
  BY <1>10, <1>11, DestroyedSound
<1> HIDE DEF s
<1>19. Live(s) \subseteq Live(tree) /\ root \notin Live(s) BY <1>10, <1>13, <1>18
<1>20. \A m \in Live(s) : /\ s[m].parent = (IF m \in hanging THEN above ELSE tree[m].parent)
                          /\ s[m].fields = tree[m].fields
  BY <1>10, <1>18, <1>19 DEF Rest
<1> QED BY <1>6, <1>7, <1>15, <1>17, <1>18, <1>19, <1>20 DEF s, away, hanging, above

\* Then a new instance takes its place, and they are hung on it again.
LEMMA RefreshPlants ==
    ASSUME TreeInv, ~crossed, CanCapture, NEW root \in authored, Room({UuidOf(root)})
    PROVE  LET hanging == Attached(root)
               above == tree[root].parent
               u == UuidOf(root)
               new == Fresh(u, "root")
               a == Destroyed(MovedAll(tree, hanging, above), root)
               s == MovedAll(Plant(a, u, above, tree[root].fields), hanging, new)
           IN /\ Whole(s) /\ MembersAre(s, (authored \ {root}) \cup {new}) /\ Live(s) = Live(a) \cup NewFor(u)
              /\ s[new].parent = above /\ s[new].fields = tree[root].fields
              /\ \A m \in Live(a) : /\ s[m].parent = IF m \in hanging THEN new ELSE tree[m].parent
                                    /\ s[m].fields = tree[m].fields
<1> DEFINE hanging == Attached(root)
           above == tree[root].parent
           u == UuidOf(root)
           new == Fresh(u, "root")
           a == Destroyed(MovedAll(tree, hanging, above), root)
           f == tree[root].fields
           c == Plant(a, u, above, f)
           s == MovedAll(c, hanging, new)
<1>1. /\ Whole(tree) /\ MembersAre(tree, authored) /\ authored \subseteq Live(tree) /\ Live(tree) \subseteq Taken
      /\ u \in Uuids
  BY SceneFacts
<1>2. f \in Fields BY <1>1, NodeIs DEF Whole
<1>3. /\ hanging \subseteq authored \ {root} /\ above \in (authored \ {root}) \cup {NoNode}
      /\ Whole(a) /\ Live(a) \subseteq Live(tree)
      /\ root \notin Live(a) /\ MembersAre(a, authored \ {root})
      /\ \A m \in Live(a) : /\ a[m].parent = IF m \in hanging THEN above ELSE tree[m].parent
                            /\ a[m].fields = tree[m].fields
  BY RefreshClears
<1>4. /\ new \in Ids /\ new \notin Live(tree) /\ Fresh(u, "inner") \notin Live(tree) /\ UuidOf(new) = u
      /\ new \in NewFor(u) /\ new # NoNode
  BY <1>1, NewForIs, TreeAssumption DEF NewFor
<1>5. authored \ {root} \subseteq Live(a) BY <1>3 DEF MembersAre
<1>6. above \in Live(a) \cup {NoNode} /\ new \notin Live(a) /\ Fresh(u, "inner") \notin Live(a) BY <1>3, <1>4, <1>5
<1> HIDE DEF a, u, above, f, hanging
<1>7. /\ Whole(c) /\ Live(c) = Live(a) \cup NewFor(u) /\ Rest(a, c, Live(a))
      /\ c[new].parent = above /\ c[new].fields = f
  BY <1>1, <1>2, <1>3, <1>6, PlantSound DEF u
<1> HIDE DEF c, new
<1>8. Walkable(c) /\ Walkable(a) BY <1>3, <1>7, TreeWalkable DEF Whole
<1>9. Up(c, above) = Up(a, above) /\ Up(a, above) \subseteq Live(a)
  <2>1. \A m \in Live(a) : a[m].parent = c[m].parent BY <1>7 DEF Rest
  <2> QED BY <1>3, <1>6, <1>7, <1>8, <2>1, UpKept
<1>10. new \in Live(c) /\ Up(c, new) = {new} \cup Up(c, above) BY <1>4, <1>7, <1>8, UpOne
<1>11. ASSUME NEW n \in hanging PROVE n \notin Up(c, new) /\ c[n].parent # new /\ n \in Live(a)
  <2>1. n \in Live(a) /\ a[n].parent = above BY <1>3, <1>5
  <2>2. n \notin Up(a, above) BY <1>3, <2>1 DEF Whole, Sound
  <2>3. c[n].parent = above BY <1>7, <2>1 DEF Rest
  <2> QED BY <1>4, <1>6, <1>9, <1>10, <2>1, <2>2, <2>3
<1>12. hanging \in SUBSET Live(c) /\ new \in Live(c) \cup {NoNode} BY <1>7, <1>10, <1>11
<1>13. /\ Whole(s) /\ Live(s) = Live(c)
       /\ \A m \in Live(c) : /\ s[m].parent = IF m \in hanging THEN new ELSE c[m].parent
                             /\ s[m].fields = c[m].fields
  <2>1. Whole(s) /\ Live(s) = Live(c) /\ PutUnder(c, s, hanging, new) BY <1>7, <1>11, <1>12, MovedAllSound
  <2> QED BY <2>1 DEF PutUnder
<1> HIDE DEF s
<1>14. s[new].parent = above /\ s[new].fields = f BY <1>6, <1>7, <1>10, <1>11, <1>13
<1>15. ASSUME NEW m \in Live(a)
       PROVE  s[m].parent = (IF m \in hanging THEN new ELSE tree[m].parent) /\ s[m].fields = tree[m].fields
  <2>1. m \in Live(c) /\ c[m].parent = a[m].parent /\ c[m].fields = a[m].fields BY <1>7 DEF Rest
  <2>2. a[m].fields = tree[m].fields /\ (m \notin hanging => a[m].parent = tree[m].parent) BY <1>3
  <2> QED BY <1>13, <2>1, <2>2
<1>16. MembersAre(s, (authored \ {root}) \cup {new})
  <2>1. \A n \in authored \ {root} : UuidOf(n) # u BY <1>1 DEF MembersAre, u
  <2>2. (authored \ {root}) \cup {new} \subseteq Live(s) BY <1>4, <1>5, <1>7, <1>10, <1>13
  <2> QED BY <1>3, <1>4, <2>1, <2>2 DEF MembersAre
<1> QED BY <1>7, <1>13, <1>14, <1>15, <1>16 DEF s, c, a, new, u, above, f, hanging

LEMMA RefreshDoes ==
    ASSUME TreeInv, NEW b \in bindings, NEW ok \in BOOLEAN, Refresh(b, ok)
    PROVE  LET root == b.root
               u == UuidOf(root)
               hanging == Attached(root)
               above == tree[root].parent
               away == MovedAll(tree, hanging, above)
               a == Destroyed(away, root)
               gone == Leaving(away, root)
           IN /\ ~playing /\ ~crossed /\ CanCapture /\ Room({u}) /\ root \in authored
              /\ UNCHANGED <<playing, snapshot, crossed>>
              /\ report' = [NoReport EXCEPT !.call = "refresh", !.of = u, !.ok = ok]
              /\ ok => /\ tree' = MovedAll(Plant(a, u, above, tree[root].fields), hanging, Fresh(u, "root"))
                       /\ authored' = (authored \ gone) \cup RootsFor({u})
                       /\ inner' = (inner \ gone) \cup InnersFor({u})
                       /\ bindings' = {o \in bindings : o.root \notin gone} \cup BindingsFor({u})
              /\ ~ok => /\ tree' = a /\ authored' = authored \ gone /\ inner' = inner \ gone
                        /\ bindings' = {o \in bindings : o.root \notin gone}
<1>1. ~playing BY DEF Refresh
<1>2. ~crossed BY <1>1, TypeFacts
<1>3. b.root \in authored BY <1>2, SceneFacts
<1> QED BY <1>1, <1>2, <1>3 DEF Refresh, Answer

LEMMA RefreshKeeps ==
    ASSUME TreeInv, NEW b \in bindings, NEW ok \in BOOLEAN, Refresh(b, ok)
    PROVE  /\ TreeInv' /\ MembersAre(tree', authored')
           /\ authored' = (authored \ {b.root}) \cup (IF ok THEN {Fresh(UuidOf(b.root), "root")} ELSE {})
<1> DEFINE root == b.root
           u == UuidOf(root)
           hanging == Attached(root)
           above == tree[root].parent
           away == MovedAll(tree, hanging, above)
           a == Destroyed(away, root)
           gone == Leaving(away, root)
           f == tree[root].fields
           new == Fresh(u, "root")
<1>1. /\ ~playing /\ ~crossed /\ CanCapture /\ Room({u}) /\ root \in authored
      /\ UNCHANGED <<playing, snapshot, crossed>>
      /\ ok => /\ tree' = MovedAll(Plant(a, u, above, f), hanging, new)
               /\ authored' = (authored \ gone) \cup RootsFor({u})
               /\ inner' = (inner \ gone) \cup InnersFor({u})
               /\ bindings' = {o \in bindings : o.root \notin gone} \cup BindingsFor({u})
      /\ ~ok => /\ tree' = a /\ authored' = authored \ gone /\ inner' = inner \ gone
                /\ bindings' = {o \in bindings : o.root \notin gone}
  BY RefreshDoes
<1>2. Whole(a) /\ authored \ gone = authored \ {root} /\ MembersAre(a, authored \ {root})
  BY <1>1, RefreshClears
<1>3. /\ Whole(MovedAll(Plant(a, u, above, f), hanging, new))
      /\ MembersAre(MovedAll(Plant(a, u, above, f), hanging, new), (authored \ {root}) \cup {new})
  BY <1>1, RefreshPlants
<1>4. /\ MembersTyped(authored, inner, bindings) /\ (\A o \in bindings : o.root \in authored)
      /\ {u} \in SUBSET Uuids
  BY <1>1, SceneFacts
<1>5. /\ RootsFor({u}) \subseteq Roots /\ InnersFor({u}) \subseteq Inners
      /\ \A o \in BindingsFor({u}) : o.root \in RootsFor({u}) /\ o.root \in Roots /\ UuidOf(o.root) \in Prefabs
  BY <1>1, <1>4, NewMembers
<1>6. RootsFor({u}) = {new} BY DEF RootsFor
<1> HIDE DEF a, gone, u, above, hanging, f, new
<1>7. /\ Whole(tree') /\ MembersAre(tree', authored')
      /\ authored' = (authored \ {root}) \cup (IF ok THEN {new} ELSE {})
  <2>1. CASE ok BY <1>1, <1>2, <1>3, <1>6, <2>1
  <2>2. CASE ~ok BY <1>1, <1>2, <2>2
  <2> QED BY <2>1, <2>2
<1>8. MembersTyped(authored', inner', bindings') /\ \A o \in bindings' : o.root \in authored'
  <2>1. CASE ok BY <1>1, <1>4, <1>5, <2>1 DEF MembersTyped
  <2>2. CASE ~ok BY <1>1, <1>4, <2>2 DEF MembersTyped
  <2> QED BY <2>1, <2>2
<1>9. SceneOK(tree', authored', bindings') /\ IsTree(tree') BY <1>7, <1>8 DEF SceneOK, Whole
<1>10. crossed \in BOOLEAN BY TypeFacts
<1>11. TreeInv' BY <1>1, <1>8, <1>9, <1>10, StepKeeps
<1> QED BY <1>7, <1>11 DEF u, new

\* What an author wrote is as before, or as before without the object that could not be made again.
LEMMA RefreshKeepsIt ==
    ASSUME TreeInv, NEW b \in bindings, NEW ok \in BOOLEAN, Refresh(b, ok)
    PROVE  Description' = IF ok THEN Description ELSE Orphaned(Description, UuidOf(b.root))
<1> DEFINE root == b.root
           u == UuidOf(root)
           hanging == Attached(root)
           above == tree[root].parent
           a == Destroyed(MovedAll(tree, hanging, above), root)
           f == tree[root].fields
           new == Fresh(u, "root")
           D == Described(tree', authored')
           E == Described(tree, authored)
           O(n) == ObjectOf(Named(tree[n].parent), tree[n].fields)
           Q(n) == ObjectOf(Named(tree'[n].parent), tree'[n].fields)
<1>1. /\ ~crossed /\ CanCapture /\ Room({u}) /\ root \in authored
      /\ ok => tree' = MovedAll(Plant(a, u, above, f), hanging, new)
      /\ ~ok => tree' = a
  BY RefreshDoes
<1>2. /\ MembersAre(tree', authored') /\ authored' = (authored \ {root}) \cup (IF ok THEN {new} ELSE {})
  BY RefreshKeeps
<1>3. /\ hanging \subseteq authored \ {root} /\ above \in (authored \ {root}) \cup {NoNode}
      /\ MembersAre(a, authored \ {root})
      /\ \A m \in Live(a) : /\ a[m].parent = IF m \in hanging THEN above ELSE tree[m].parent
                            /\ a[m].fields = tree[m].fields
  BY <1>1, RefreshClears
<1>4. ok => /\ tree'[new].parent = above /\ tree'[new].fields = f
            /\ \A m \in Live(a) : /\ tree'[m].parent = IF m \in hanging THEN new ELSE tree[m].parent
                                  /\ tree'[m].fields = tree[m].fields
  <2> DEFINE s == MovedAll(Plant(a, u, above, f), hanging, new)
  <2>1. /\ s[new].parent = above /\ s[new].fields = f
        /\ \A m \in Live(a) : /\ s[m].parent = IF m \in hanging THEN new ELSE tree[m].parent
                              /\ s[m].fields = tree[m].fields
    BY <1>1, RefreshPlants
  <2>2. ok => tree' = s BY <1>1
  <2> HIDE DEF s, a, u, above, f, hanging, new
  <2> QED BY <2>1, <2>2
<1>5. MembersAre(tree, authored) /\ \A n \in authored : n # NoNode /\ UuidOf(n) \in Uuids
  BY <1>1, SceneFacts
<1>6. authored \ {root} \subseteq Live(a) BY <1>3 DEF MembersAre
<1>7. UuidOf(new) = u /\ new # NoNode BY <1>1, <1>5, NewForIs, TreeAssumption
<1>8. \A n : n \in hanging <=> n \in authored /\ tree[n].parent = root BY DEF Attached
<1>9. \A n \in authored : tree[n].parent \in authored \cup {NoNode} BY <1>1 DEF CanCapture
<1>10. DOMAIN D = PresentIn(tree', authored') /\ D = [v \in DOMAIN D |-> D[v]]
       /\ \A n \in authored' : D[UuidOf(n)] = Q(n)
  BY <1>2, DescribedIs
<1>11. DOMAIN E = PresentIn(tree, authored) /\ E = [v \in DOMAIN E |-> E[v]]
       /\ \A n \in authored : E[UuidOf(n)] = O(n)
  BY <1>5, DescribedIs
<1>12. /\ PresentIn(tree', authored') = {UuidOf(n) : n \in authored'}
       /\ PresentIn(tree, authored) = {UuidOf(n) : n \in authored}
  BY <1>2, <1>5, FoundIs
<1>13. Description = E /\ Description' = D BY DescribedNow, DescribedThen
<1> HIDE DEF D, E, a, hanging, above, f, new
<1>14. CASE ok
  <2>1. authored' = (authored \ {root}) \cup {new} BY <1>2, <1>14
  <2>2. ASSUME NEW n \in authored \ {root} PROVE Q(n) = O(n)
    <3>1. /\ n \in authored /\ tree'[n].parent = (IF n \in hanging THEN new ELSE tree[n].parent)
          /\ tree'[n].fields = tree[n].fields
      BY <1>4, <1>6, <1>14
    <3>2. Named(tree'[n].parent) = Named(tree[n].parent)
      <4>1. CASE n \in hanging
        <5>1. tree[n].parent = root /\ tree'[n].parent = new BY <1>8, <3>1, <4>1
        <5>2. root # NoNode BY <1>1, <1>5
        <5> QED BY <1>7, <5>1, <5>2 DEF Named
      <4>2. CASE n \notin hanging BY <3>1, <4>2
      <4> QED BY <4>1, <4>2
    <3> QED BY <3>1, <3>2
  <2>3. Q(new) = O(root) BY <1>4, <1>14 DEF above, f
  <2>4. {UuidOf(n) : n \in authored'} = {UuidOf(n) : n \in authored} BY <1>1, <1>7, <2>1
  <2>5. ASSUME NEW v \in DOMAIN E PROVE D[v] = E[v]
    <3>1. PICK n \in authored : v = UuidOf(n) BY <1>11, <1>12
    <3>2. CASE n = root BY <1>7, <1>10, <1>11, <2>1, <2>3, <3>1, <3>2
    <3>3. CASE n # root
      <4>1. n \in authored' /\ Q(n) = O(n) BY <2>1, <2>2, <3>3
      <4>2. D[v] = Q(n) /\ E[v] = O(n) BY <1>10, <1>11, <3>1, <4>1
      <4> QED BY <4>1, <4>2
    <3> QED BY <3>2, <3>3
  <2>6. DOMAIN D = DOMAIN E BY <1>10, <1>11, <1>12, <2>4
  <2>7. D = E BY <1>10, <1>11, <2>5, <2>6
  <2> QED BY <1>13, <1>14, <2>7
<1>15. CASE ~ok
  <2> DEFINE F == Orphaned(E, u)
  <2>1. authored' = authored \ {root} BY <1>2, <1>15
  <2>2. DOMAIN F = DOMAIN E \ {u} /\ F = [v \in DOMAIN F |-> F[v]] BY DEF Orphaned
  <2>3. {UuidOf(n) : n \in authored'} = {UuidOf(n) : n \in authored} \ {u} BY <1>1, <1>5, <2>1 DEF MembersAre
  <2>4. DOMAIN D = DOMAIN F BY <1>10, <1>11, <1>12, <2>2, <2>3
  <2>5. ASSUME NEW n \in authored \ {root} PROVE F[UuidOf(n)] = Q(n)
    <3> DEFINE v == UuidOf(n)
    <3>1. v # u /\ v \in DOMAIN E /\ E[v] = O(n) /\ E[u] = O(root)
      BY <1>1, <1>5, <1>11, <1>12 DEF MembersAre
    <3>2. F[v] = [E[v] EXCEPT !.parent = IF @ = u THEN E[u].parent ELSE @] BY <3>1 DEF Orphaned
    <3>3. E[u].parent = Named(above) BY <3>1, ObjectIs DEF above
    <3> DEFINE p == Named(tree[n].parent)
    <3>4. E[v] = ObjectOf(p, tree[n].fields) BY <3>1
    <3> HIDE DEF v, p, F
    <3>5. F[v] = ObjectOf(IF p = u THEN Named(above) ELSE p, tree[n].fields)
      BY <3>2, <3>3, <3>4 DEF ObjectOf
    <3>6. tree'[n].parent = (IF n \in hanging THEN above ELSE tree[n].parent) /\ tree'[n].fields = tree[n].fields
      BY <1>1, <1>3, <1>6, <1>15
    <3>7. p = u <=> n \in hanging
      <4>1. tree[n].parent \in authored \cup {NoNode} BY <1>9
      <4>2. NoNode # u BY <1>1, <1>5, TreeAssumption
      <4> QED BY <1>1, <1>5, <1>8, <4>1, <4>2 DEF p, Named, MembersAre
    <3>8. (IF p = u THEN Named(above) ELSE p) = Named(tree'[n].parent) BY <3>6, <3>7 DEF p
    <3> QED BY <3>5, <3>6, <3>8 DEF v
  <2> HIDE DEF F
  <2>6. ASSUME NEW v \in DOMAIN D PROVE D[v] = F[v]
    <3>1. PICK n \in authored' : v = UuidOf(n) BY <1>10, <1>12
    <3>2. D[v] = Q(n) BY <1>10, <3>1
    <3> QED BY <2>1, <2>5, <3>1, <3>2
  <2>7. D = F BY <1>10, <2>2, <2>4, <2>6
  <2> QED BY <1>13, <1>15, <2>7 DEF F
<1> QED BY <1>14, <1>15

-----------------------------------------------------------------------------
(***************************************************************************)
(* Reloading                                                               *)
(***************************************************************************)
\* The objects a reload updates, in its order, and the tree when it has made the additions
\* and the first k updates.
Ups(c) == Updated(Description, c)
Line(c) == Sorted(Ups(c), <)
Script(c) == [j \in 1 .. Cardinality(Ups(c)) |-> Update(c, Line(c)[j])]
Base(c) == Grown(tree, c, Added(c))
After(c, k) == RunAt(Base(c), Script(c), k)
First2(c, k) == [j \in 1 .. k |-> Line(c)[j]]

LEMMA LineIs ==
    ASSUME TreeInv, NEW c, IsForest(c)
    PROVE  /\ IsFiniteSet(Ups(c)) /\ Cardinality(Ups(c)) \in Nat /\ DOMAIN Line(c) = 1 .. Cardinality(Ups(c))
           /\ \A k \in 1 .. Cardinality(Ups(c)) : Line(c)[k] \in Ups(c)
           /\ \A u \in Ups(c) : \E k \in 1 .. Cardinality(Ups(c)) : Line(c)[k] = u
           /\ \A j, k \in 1 .. Cardinality(Ups(c)) : Line(c)[j] = Line(c)[k] => j = k
           /\ IsScript(Script(c), Cardinality(Ups(c)))
           /\ \A k \in 1 .. Cardinality(Ups(c)) : Script(c)[k] = Update(c, Line(c)[k])
           /\ Ups(c) = {u \in Present \cap DOMAIN c : Description[u] # c[u]} /\ Present \subseteq Uuids
<1>1. DOMAIN Description = Present BY DEF Description
<1>2. Present \subseteq Uuids BY TypeFacts
<1>3. Ups(c) = {u \in Present \cap DOMAIN c : Description[u] # c[u]} BY <1>1 DEF Ups, Updated
<1>4. IsFiniteSet(Ups(c)) /\ Ups(c) \subseteq Nat
  <2>1. Ups(c) \subseteq Uuids BY <1>2, <1>3
  <2> QED BY <2>1, TreeAssumption, FS_Subset
<1>5. IsListing(Line(c), Ups(c)) BY <1>4, NumbersSorted DEF Line
<1> QED BY <1>2, <1>3, <1>4, <1>5 DEF IsListing, IsScript, Script

LEMMA AfterIs ==
    ASSUME TreeInv, NEW c, IsForest(c), NEW k \in 0 .. Cardinality(Ups(c))
    PROVE  Run(Base(c), [j \in 1 .. k |-> Update(c, Line(c)[j])]) = After(c, k)
<1> DEFINE r == [j \in 1 .. k |-> Update(c, Line(c)[j])]
           C == Cardinality(Ups(c))
<1>1. C \in Nat /\ IsScript(Script(c), C) /\ \A j \in 1 .. C : Script(c)[j] = Update(c, Line(c)[j])
  BY LineIs
<1> HIDE DEF C
<1>2. k \in Nat /\ k <= C BY <1>1 DEF C
<1>3. IsScript(r, k) BY <1>2 DEF IsScript
<1>4. \A j \in 1 .. k : r[j] = Script(c)[j]
  <2>1. \A j \in 1 .. k : j \in 1 .. C BY <1>1, <1>2
  <2> QED BY <1>1, <2>1
<1> HIDE DEF r
<1>5. RunAt(Base(c), Script(c), k) = Run(Base(c), r) BY <1>1, <1>2, <1>3, <1>4, RunPrefix
<1> QED BY <1>5 DEF After, r

\* What a reload does, said with these.
LEMMA ReloadDoes ==
    ASSUME TreeInv, NEW c \in Forests, Reload(c)
    PROVE  LET C == Cardinality(Ups(c))
               Refused(k) == Stuck(After(c, k - 1), c, Line(c)[k])
           IN /\ playing /\ CanCapture /\ Room(Added(c)) /\ SamePrefabs(Description, c)
              /\ UNCHANGED <<playing, bindings, snapshot>>
              /\ \/ /\ \A k \in 1 .. C : ~Refused(k)
                    /\ tree' = DestroyedAll(After(c, C), {Find(u) : u \in Dropped(c)})
                    /\ authored' = {NodeIn(c, u) : u \in DOMAIN c}
                    /\ report' = [NoReport EXCEPT !.call = "reload", !.want = c]
                    /\ UNCHANGED <<inner, crossed>>
                 \/ \E k \in 1 .. C :
                      /\ Refused(k) /\ \A j \in 1 .. C : Refused(j) => k <= j
                      /\ tree' = RolledBack(After(c, k), c, First2(c, k))
                      /\ report' = [NoReport EXCEPT !.call = "reload", !.ok = FALSE]
                      /\ UNCHANGED <<authored, inner>>
                      /\ crossed' = (crossed \/ tree[Find(Line(c)[k])].parent # NoNode)
                 \/ \E k \in 1 .. C :
                      /\ \A j \in 1 .. C : Refused(j) => k < j
                      /\ tree' = RolledBack(After(c, k), c, First2(c, k))
                      /\ report' = [NoReport EXCEPT !.call = "reload", !.ok = FALSE]
                      /\ UNCHANGED <<authored, inner, crossed>>
<1> DEFINE old == Description
           order == Sorted(Updated(old, c), <)
           grown == Grown(tree, c, Added(c))
           after(k) == Run(grown, [j \in 1 .. k |-> Update(c, order[j])])
           stuck == {k \in DOMAIN order : Stuck(after(k - 1), c, order[k])}
           undone(k) == RolledBack(after(k), c, [j \in 1 .. k |-> order[j]])
           C == Cardinality(Ups(c))
           Refused(k) == Stuck(After(c, k - 1), c, Line(c)[k])
<1>0. IsForest(c) BY ForestsAre
<1>1. /\ playing /\ CanCapture /\ Room(Added(c)) /\ SamePrefabs(old, c)
      /\ UNCHANGED <<playing, bindings, snapshot>>
      /\ \/ /\ stuck = {}
            /\ tree' = DestroyedAll(after(Len(order)), {Find(u) : u \in Dropped(c)})
            /\ authored' = {NodeIn(c, u) : u \in DOMAIN c}
            /\ report' = [NoReport EXCEPT !.call = "reload", !.want = c]
            /\ UNCHANGED <<inner, crossed>>
         \/ \E k \in stuck :
              /\ \A j \in stuck : k <= j
              /\ tree' = undone(k) /\ report' = [NoReport EXCEPT !.call = "reload", !.ok = FALSE]
              /\ UNCHANGED <<authored, inner>>
              /\ crossed' = (crossed \/ tree[Find(order[k])].parent # NoNode)
         \/ \E k \in DOMAIN order :
              /\ \A j \in stuck : k < j
              /\ tree' = undone(k) /\ report' = [NoReport EXCEPT !.call = "reload", !.ok = FALSE]
              /\ UNCHANGED <<authored, inner, crossed>>
  BY DEF Reload, Answer
<1>2. order = Line(c) /\ grown = Base(c) BY DEF Line, Ups, Base
<1>3. C \in Nat /\ DOMAIN Line(c) = 1 .. C BY <1>0, LineIs
<1>4. \A k \in 0 .. C : after(k) = After(c, k)
  <2> HIDE DEF order, grown
  <2> TAKE k \in 0 .. C
  <2>1. Run(Base(c), [j \in 1 .. k |-> Update(c, Line(c)[j])]) = After(c, k) BY <1>0, AfterIs
  <2> QED BY <1>2, <2>1
<1>5. Len(order) = C
  <2>1. order \in [1 .. C -> Nat]
    <3>1. \A k \in 1 .. C : Line(c)[k] \in Nat
      <4>1. Ups(c) \subseteq Nat BY <1>0, LineIs, TreeAssumption
      <4> QED BY <1>0, <4>1, LineIs
    <3>2. Line(c) = [k \in 1 .. C |-> Line(c)[k]] BY DEF Line, Sorted
    <3> QED BY <1>2, <3>1, <3>2
  <2> HIDE DEF order, C
  <2>2. order \in Seq(Nat) /\ DOMAIN order = 1 .. C BY <1>3, <2>1
  <2> QED BY <1>3, <2>2
<1>6. \A k : undone(k) = RolledBack(after(k), c, First2(c, k)) BY <1>2 DEF First2
<1> HIDE DEF order, grown, after, C
<1>7. \A k \in 1 .. C : k - 1 \in 0 .. C /\ k \in 0 .. C BY <1>3
<1>8. DOMAIN order = 1 .. C /\ \A k \in 1 .. C : (k \in stuck <=> Refused(k)) BY <1>2, <1>3, <1>4, <1>7
<1>9. \A k \in stuck : k \in 1 .. C BY <1>8
<1>10. \A k \in 1 .. C : undone(k) = RolledBack(After(c, k), c, First2(c, k)) BY <1>4, <1>6, <1>7
<1>11. C \in 0 .. C BY <1>3
<1> HIDE DEF stuck, undone
<1>12. /\ \/ /\ \A k \in 1 .. C : ~Refused(k)
             /\ tree' = DestroyedAll(After(c, C), {Find(u) : u \in Dropped(c)})
             /\ authored' = {NodeIn(c, u) : u \in DOMAIN c}
             /\ report' = [NoReport EXCEPT !.call = "reload", !.want = c]
             /\ UNCHANGED <<inner, crossed>>
          \/ \E k \in 1 .. C :
               /\ Refused(k) /\ \A j \in 1 .. C : Refused(j) => k <= j
               /\ tree' = RolledBack(After(c, k), c, First2(c, k))
               /\ report' = [NoReport EXCEPT !.call = "reload", !.ok = FALSE]
               /\ UNCHANGED <<authored, inner>>
               /\ crossed' = (crossed \/ tree[Find(Line(c)[k])].parent # NoNode)
          \/ \E k \in 1 .. C :
               /\ \A j \in 1 .. C : Refused(j) => k < j
               /\ tree' = RolledBack(After(c, k), c, First2(c, k))
               /\ report' = [NoReport EXCEPT !.call = "reload", !.ok = FALSE]
               /\ UNCHANGED <<authored, inner, crossed>>
  <2> HIDE DEF Refused
  <2>1. CASE /\ stuck = {}
             /\ tree' = DestroyedAll(after(Len(order)), {Find(u) : u \in Dropped(c)})
             /\ authored' = {NodeIn(c, u) : u \in DOMAIN c}
             /\ report' = [NoReport EXCEPT !.call = "reload", !.want = c]
             /\ UNCHANGED <<inner, crossed>>
    BY <1>4, <1>5, <1>8, <1>11, <2>1
  <2>2. ASSUME NEW k \in stuck,
               /\ \A j \in stuck : k <= j
               /\ tree' = undone(k) /\ report' = [NoReport EXCEPT !.call = "reload", !.ok = FALSE]
               /\ UNCHANGED <<authored, inner>>
               /\ crossed' = (crossed \/ tree[Find(order[k])].parent # NoNode)
        PROVE  /\ k \in 1 .. C
               /\ Refused(k) /\ \A j \in 1 .. C : Refused(j) => k <= j
               /\ tree' = RolledBack(After(c, k), c, First2(c, k))
               /\ report' = [NoReport EXCEPT !.call = "reload", !.ok = FALSE]
               /\ UNCHANGED <<authored, inner>>
               /\ crossed' = (crossed \/ tree[Find(Line(c)[k])].parent # NoNode)
    BY <1>2, <1>8, <1>9, <1>10, <2>2
  <2>3. ASSUME NEW k \in DOMAIN order,
               /\ \A j \in stuck : k < j
               /\ tree' = undone(k) /\ report' = [NoReport EXCEPT !.call = "reload", !.ok = FALSE]
               /\ UNCHANGED <<authored, inner, crossed>>
        PROVE  /\ k \in 1 .. C
               /\ \A j \in 1 .. C : Refused(j) => k < j
               /\ tree' = RolledBack(After(c, k), c, First2(c, k))
               /\ report' = [NoReport EXCEPT !.call = "reload", !.ok = FALSE]
               /\ UNCHANGED <<authored, inner, crossed>>
    BY <1>8, <1>10, <2>3
  <2> QED BY <1>1, <2>1, <2>2, <2>3
<1> QED BY <1>1, <1>12 DEF C

-----------------------------------------------------------------------------
\* The node that is to be the parent of u.
Wanted(c, u) == NodeIn(c, c[u].parent)

\* The nodes the objects of the new description have.
LEMMA NodeInIs ==
    ASSUME TreeInv, ~crossed, NEW c, IsForest(c), Room(Added(c))
    PROVE  /\ NodeIn(c, NoNode) = NoNode /\ Added(c) \subseteq DOMAIN c /\ Added(c) \in SUBSET Uuids
           /\ \A u \in DOMAIN c : /\ NodeIn(c, u) \in authored \cup RootsFor(Added(c))
                                  /\ UuidOf(NodeIn(c, u)) = u /\ NodeIn(c, u) # NoNode
                                  /\ u \in Added(c) => NodeIn(c, u) = Fresh(u, "root")
                                  /\ u \in Present => NodeIn(c, u) = Find(u)
                                  /\ Wanted(c, u) \in authored \cup RootsFor(Added(c)) \cup {NoNode}
                                  /\ Named(Wanted(c, u)) = c[u].parent
<1>1. Added(c) \subseteq DOMAIN c /\ Added(c) \in SUBSET Uuids BY DEF Added, IsForest
<1>2. NodeIn(c, NoNode) = NoNode BY DEF NodeIn, NodeFor
<1>3. /\ \A u \in Present : Find(u) \in authored /\ UuidOf(Find(u)) = u
      /\ \A n \in authored : n # NoNode
  BY SceneFacts
<1>4. \A u \in Added(c) : /\ Fresh(u, "root") \in RootsFor(Added(c)) /\ UuidOf(Fresh(u, "root")) = u
                          /\ Fresh(u, "root") # NoNode
  BY <1>1, NewMembers
<1>5. ASSUME NEW u \in DOMAIN c
      PROVE  /\ NodeIn(c, u) \in authored \cup RootsFor(Added(c))
             /\ UuidOf(NodeIn(c, u)) = u /\ NodeIn(c, u) # NoNode
             /\ u \in Added(c) => NodeIn(c, u) = Fresh(u, "root")
             /\ u \in Present => NodeIn(c, u) = Find(u)
  <2>0. u # NoNode BY TreeAssumption DEF IsForest
  <2>1. CASE u \in Added(c)
    <3>1. NodeIn(c, u) = Fresh(u, "root") BY <2>0, <2>1 DEF NodeIn, NodeFor
    <3>2. u \notin Present BY <2>1 DEF Added
    <3> QED BY <1>4, <2>1, <3>1, <3>2
  <2>2. CASE u \notin Added(c)
    <3>1. NodeIn(c, u) = Find(u) BY <2>0, <2>2 DEF NodeIn, NodeFor
    <3>2. u \in Present BY <2>2 DEF Added
    <3> QED BY <1>3, <2>2, <3>1, <3>2
  <2> QED BY <2>1, <2>2
<1>6. ASSUME NEW u \in DOMAIN c
      PROVE  /\ Wanted(c, u) \in authored \cup RootsFor(Added(c)) \cup {NoNode}
             /\ Named(Wanted(c, u)) = c[u].parent
  <2>1. c[u].parent \in DOMAIN c \cup {NoNode} BY DEF IsForest
  <2>2. CASE c[u].parent = NoNode BY <1>2, <2>2 DEF Wanted, Named
  <2>3. CASE c[u].parent \in DOMAIN c BY <1>5, <2>3 DEF Wanted, Named
  <2> QED BY <2>1, <2>2, <2>3
<1> QED BY <1>1, <1>2, <1>5, <1>6

\* The additions.
LEMMA ReloadGrows ==
    ASSUME TreeInv, ~crossed, NEW c, IsForest(c), Room(Added(c))
    PROVE  /\ Whole(Base(c)) /\ Live(Base(c)) = Live(tree) \cup NewNodes(Added(c)) /\ Rest(tree, Base(c), Live(tree))
           /\ \A u \in Added(c) : /\ Base(c)[Fresh(u, "root")].parent = Wanted(c, u)
                                  /\ Base(c)[Fresh(u, "root")].fields = c[u].fields
           /\ authored \cup RootsFor(Added(c)) \subseteq Live(Base(c))
<1> DEFINE us == Added(c)
<1>1. /\ Whole(tree) /\ authored \subseteq Live(tree) /\ Live(tree) \subseteq Taken
      /\ \A u \in Present : Find(u) \in authored
  BY SceneFacts
<1>2. us \subseteq DOMAIN c /\ us \in SUBSET Uuids BY NodeInIs
<1>3. ASSUME NEW u \in us PROVE c[u].parent \in us \cup {NoNode} \/ Find(c[u].parent) \in Live(tree)
  <2>1. c[u].parent \in DOMAIN c \cup {NoNode} BY <1>2 DEF IsForest
  <2>2. c[u].parent \in DOMAIN c /\ c[u].parent \notin us => c[u].parent \in Present BY DEF Added
  <2> QED BY <1>1, <2>1, <2>2
<1>4. RootsFor(us) \subseteq NewNodes(us) BY <1>2, NewMembers
<1>5. \A u \in us : Wanted(c, u) = NodeFor(us, c[u].parent) BY DEF Wanted, NodeIn
<1> HIDE DEF us
<1>6. us \in SUBSET DOMAIN c /\ Room(us) BY <1>2 DEF us
<1>7. /\ Whole(Grown(tree, c, us)) /\ Live(Grown(tree, c, us)) = Live(tree) \cup NewNodes(us)
      /\ Rest(tree, Grown(tree, c, us), Live(tree))
      /\ \A u \in us : /\ Grown(tree, c, us)[Fresh(u, "root")].parent = NodeFor(us, c[u].parent)
                       /\ Grown(tree, c, us)[Fresh(u, "root")].fields = c[u].fields
  BY <1>1, <1>3, <1>6, GrownSound
<1>8. Base(c) = Grown(tree, c, us) BY DEF Base, us
<1> QED BY <1>1, <1>4, <1>5, <1>7, <1>8 DEF us

\* An update that is taken back leaves the tree as it was: a parent that was changed is set
\* again, and one that was not is not, or is none.
LEMMA UndoIs ==
    ASSUME NEW t, Whole(t), NEW n \in Live(t), NEW s, Whole(s), NEW p, NEW f, Altered(t, s, n, p, f),
           NEW moves \in BOOLEAN, moves => p # t[n].parent \/ t[n].parent = NoNode, ~moves => p = t[n].parent
    PROVE  Set(s, n, moves, t[n].parent, t[n].fields) = t
<1> DEFINE q == t[n].parent
           g == t[n].fields
           r == Set(s, n, moves, q, g)
<1>1. IsTree(t) /\ Sound(t) /\ Walkable(t) /\ Walkable(s) /\ g \in Fields BY TreeWalkable, NodeIs DEF Whole
<1>2. Live(s) = Live(t) /\ \A m \in Live(t) : /\ s[m].parent = IF m = n THEN p ELSE t[m].parent
                                              /\ s[m].fields = IF m = n THEN f ELSE t[m].fields
  BY DEF Altered
<1>3. q \in Live(t) \cup {NoNode} /\ n \notin Up(t, q) BY <1>1 DEF Sound
<1>4. n \notin Up(s, q)
  <2> DEFINE S == Up(t, q)
  <2>1. q \in S \cup {NoNode} BY <1>1, UpSelf
  <2>2. \A m \in S \cap Live(s) : s[m].parent \in S \cup {NoNode}
    <3>1. \A m \in S \cap Live(t) : t[m].parent \in S \cup {NoNode} BY <1>1, UpClosed
    <3> QED BY <1>2, <1>3, <3>1
  <2>3. n \notin S BY <1>3
  <2> HIDE DEF S
  <2>4. Up(s, q) \subseteq S BY <1>1, <2>1, <2>2, UpLeast
  <2> QED BY <2>3, <2>4
<1> HIDE DEF q, g
<1>5. moves => CanMove(s, n, q) /\ ~Crosses(s, n, q) BY <1>2, <1>3, <1>4 DEF CanMove, Crosses, q
<1>6. ~moves => s[n].parent = q BY <1>2 DEF q
<1>7. n \in Live(s) BY <1>2
<1>8. Whole(r) /\ Altered(s, r, n, q, g) BY <1>1, <1>5, <1>6, <1>7, SetSound
<1> HIDE DEF r
<1>9. Live(r) = Live(t) /\ \A m \in Live(t) : r[m].parent = t[m].parent /\ r[m].fields = t[m].fields
  BY <1>2, <1>8 DEF Altered, q, g
<1>10. r = t BY <1>8, <1>9, SameTree
<1> QED BY <1>10 DEF r, q, g

LEMMA UpdateStep ==
    ASSUME TreeInv, NEW c, NEW u, NEW t, Whole(t), Find(u) \in Live(t), c[u].fields \in Fields,
           t[Find(u)].parent = tree[Find(u)].parent, t[Find(u)].fields = tree[Find(u)].fields,
           Wanted(c, u) \in Live(t) \cup {NoNode}
    PROVE  LET s == Do(t, Update(c, u))
           IN /\ Whole(s)
              /\ ~Stuck(t, c, u) => Altered(t, s, Find(u), Wanted(c, u), c[u].fields)
              /\ ~Stuck(t, c, u) \/ tree[Find(u)].parent = NoNode => Do(s, Undo(c, u)) = t
<1> DEFINE n == Find(u)
           w == Wanted(c, u)
           f == c[u].fields
           s == Do(t, Update(c, u))
           q == tree[n].parent
           moves == ParentChanges(c, u)
<1>1. moves \in BOOLEAN /\ (moves <=> q # w) BY DEF ParentChanges, Wanted
<1>2. Stuck(t, c, u) <=> moves /\ ~CanMove(t, n, w) BY DEF Stuck, Wanted
<1>3. Update(c, u) = Setting(n, moves, w, f) /\ Undo(c, u) = Setting(n, moves, q, tree[n].fields)
  BY DEF Update, Undo, Wanted
<1>4. s = Set(t, n, moves, w, f) BY <1>3, DoIs
<1>5. Do(s, Undo(c, u)) = Set(s, n, moves, q, tree[n].fields) BY <1>3, DoIs
<1>6. n \in Live(t) /\ f \in Fields /\ t[n].parent = q /\ t[n].fields = tree[n].fields /\ w \in Live(t) \cup {NoNode}
  OBVIOUS
<1> HIDE DEF n, w, f, s, q, moves
<1>7. CASE ~Stuck(t, c, u)
  <2>1. moves => CanMove(t, n, w) /\ ~Crosses(t, n, w) BY <1>1, <1>2, <1>6, <1>7 DEF Crosses
  <2>2. ~moves => t[n].parent = w BY <1>1, <1>6
  <2>3. Whole(s) /\ Altered(t, s, n, w, f) BY <1>1, <1>4, <1>6, <2>1, <2>2, SetSound
  <2>4. (moves => w # t[n].parent \/ t[n].parent = NoNode) /\ (~moves => w = t[n].parent) BY <1>1, <1>6
  <2>5. Set(s, n, moves, t[n].parent, t[n].fields) = t BY <1>1, <1>6, <2>3, <2>4, UndoIs
  <2> QED BY <1>5, <1>6, <1>7, <2>3, <2>5 DEF n, w, f, s
<1>8. CASE Stuck(t, c, u)
  <2>1. moves /\ Move(t, n, w) = t BY <1>2, <1>8 DEF Move
  <2>2. s = [t EXCEPT ![n].fields = f] BY <1>4, <2>1 DEF Set
  <2>3. Whole(s) /\ Altered(t, s, n, t[n].parent, f) BY <1>6, <2>2, FieldsSound
  <2>4. ASSUME q = NoNode PROVE Set(s, n, moves, t[n].parent, t[n].fields) = t
    BY <1>1, <1>6, <2>1, <2>3, <2>4, UndoIs
  <2> QED BY <1>5, <1>6, <1>8, <2>3, <2>4 DEF n, w, f, s, q
<1> QED BY <1>7, <1>8

\* The nodes the first k updates are about.
Updates(c, k) == {Find(Line(c)[j]) : j \in 1 .. k}

\* What a tree is after them.
UpdatedTo(c, k, t) ==
    /\ Whole(t) /\ Live(t) = Live(Base(c))
    /\ \A m \in Live(t) :
         /\ t[m].parent = IF m \in Updates(c, k) THEN Wanted(c, UuidOf(m)) ELSE Base(c)[m].parent
         /\ t[m].fields = IF m \in Updates(c, k) THEN c[UuidOf(m)].fields ELSE Base(c)[m].fields

\* A node that is updated is as it was until its turn comes.
LEMMA UpdateTurn ==
    ASSUME TreeInv, ~crossed, NEW c, IsForest(c), Room(Added(c)), NEW k \in 1 .. Cardinality(Ups(c)),
           NEW t, UpdatedTo(c, k - 1, t)
    PROVE  LET u == Line(c)[k]
           IN /\ Find(u) \in authored /\ Find(u) \in Live(t) /\ UuidOf(Find(u)) = u /\ c[u].fields \in Fields
              /\ t[Find(u)].parent = tree[Find(u)].parent /\ t[Find(u)].fields = tree[Find(u)].fields
              /\ Wanted(c, u) \in Live(t) \cup {NoNode} /\ Find(u) \notin Updates(c, k - 1)
<1> DEFINE u == Line(c)[k]
           n == Find(u)
           C == Cardinality(Ups(c))
<1>1. /\ C \in Nat /\ \A j \in 1 .. C : Line(c)[j] \in Present \cap DOMAIN c
      /\ \A i, j \in 1 .. C : Line(c)[i] = Line(c)[j] => i = j
  BY LineIs
<1>2. \A v \in Present : Find(v) \in authored /\ UuidOf(Find(v)) = v BY SceneFacts
<1>3. authored \subseteq Live(tree) BY SceneFacts
<1> HIDE DEF C
<1>4. k \in 1 .. C BY DEF C
<1>5. u \in Present /\ u \in DOMAIN c /\ n \in authored /\ UuidOf(n) = u BY <1>1, <1>2, <1>4
<1>6. n \notin Updates(c, k - 1)
  <2> SUFFICES ASSUME NEW j \in 1 .. k - 1, Find(Line(c)[j]) = n PROVE FALSE BY DEF Updates
  <2>1. j \in 1 .. C /\ j # k BY <1>1, <1>4
  <2>2. Line(c)[j] = u BY <1>1, <1>2, <1>5, <2>1
  <2> QED BY <1>1, <1>4, <2>1, <2>2
<1>7. /\ Live(Base(c)) = Live(tree) \cup NewNodes(Added(c)) /\ Rest(tree, Base(c), Live(tree))
      /\ authored \cup RootsFor(Added(c)) \subseteq Live(Base(c))
  BY ReloadGrows
<1>8. Wanted(c, u) \in authored \cup RootsFor(Added(c)) \cup {NoNode} BY <1>5, NodeInIs
<1>9. c[u].fields \in Fields BY <1>5 DEF IsForest
<1> HIDE DEF u, n
<1>10. Live(t) = Live(Base(c)) /\ n \in Live(t) BY <1>3, <1>5, <1>7 DEF UpdatedTo
<1>11. t[n].parent = Base(c)[n].parent /\ t[n].fields = Base(c)[n].fields BY <1>6, <1>10 DEF UpdatedTo
<1>12. Base(c)[n].parent = tree[n].parent /\ Base(c)[n].fields = tree[n].fields BY <1>3, <1>5, <1>7 DEF Rest
<1>13. Wanted(c, u) \in Live(t) \cup {NoNode} BY <1>7, <1>8, <1>10
<1> QED BY <1>5, <1>6, <1>9, <1>10, <1>11, <1>12, <1>13 DEF u, n

\* Each of them can be taken back.
CanUndo(c, k) == \A j \in 1 .. k : Do(After(c, j), Undo(c, Line(c)[j])) = After(c, j - 1)

\* The updates that can be made, in their order, and that each of them can be taken back.
LEMMA ReloadUpdates ==
    ASSUME TreeInv, ~crossed, NEW c, IsForest(c), Room(Added(c)), NEW K \in 0 .. Cardinality(Ups(c)),
           \A j \in 1 .. K : ~Stuck(After(c, j - 1), c, Line(c)[j])
    PROVE  UpdatedTo(c, K, After(c, K)) /\ CanUndo(c, K)
<1> DEFINE C == Cardinality(Ups(c))
           Good(k) == /\ UpdatedTo(c, k, After(c, k))
                      /\ \A j \in 1 .. k : Do(After(c, j), Undo(c, Line(c)[j])) = After(c, j - 1)
           B == {k \in Nat : k <= K => Good(k)}
<1>1. C \in Nat /\ IsScript(Script(c), C) /\ \A k \in 1 .. C : Script(c)[k] = Update(c, Line(c)[k]) BY LineIs
<1> HIDE DEF C
<1>2. K \in Nat /\ K <= C BY <1>1 DEF C
<1>3. After(c, 0) = Base(c) /\ \A k \in Nat : k + 1 <= C => After(c, k + 1) = Do(After(c, k), Update(c, Line(c)[k + 1]))
  <2>1. /\ RunAt(Base(c), Script(c), 0) = Base(c)
        /\ \A k \in Nat : k + 1 <= C
             => RunAt(Base(c), Script(c), k + 1) = Do(RunAt(Base(c), Script(c), k), Script(c)[k + 1])
    BY <1>1, RunSteps
  <2>2. \A k \in Nat : k + 1 <= C => k + 1 \in 1 .. C BY <1>1
  <2> QED BY <1>1, <2>1, <2>2 DEF After
<1>4. Good(0)
  <2>1. Updates(c, 0) = {} BY DEF Updates
  <2>2. Whole(Base(c)) BY ReloadGrows
  <2> QED BY <1>3, <2>1, <2>2 DEF UpdatedTo
<1>5. 0 \in B BY <1>4
<1>6. ASSUME NEW k \in Nat, k \in B PROVE k + 1 \in B
  <2> SUFFICES ASSUME k + 1 <= K PROVE Good(k + 1) OBVIOUS
  <2> DEFINE t == After(c, k)
             s == After(c, k + 1)
             u == Line(c)[k + 1]
             n == Find(u)
  <2>0. Good(k) BY <1>2, <1>6
  <2>1. k + 1 \in 1 .. C /\ k + 1 \in 1 .. K /\ k + 1 - 1 = k /\ k + 1 <= C
    <3>1. C \in Nat BY <1>1
    <3> QED BY <1>2, <3>1
  <2>2. UpdatedTo(c, k, t) BY <2>0
  <2>3. ~Stuck(t, c, u) BY <2>1
  <2>4. s = Do(t, Update(c, u)) BY <1>3, <2>1
  <2> HIDE DEF t, s
  <2>5. /\ n \in Live(t) /\ UuidOf(n) = u /\ c[u].fields \in Fields
        /\ t[n].parent = tree[n].parent /\ t[n].fields = tree[n].fields
        /\ Wanted(c, u) \in Live(t) \cup {NoNode}
    BY <2>1, <2>2, UpdateTurn DEF C
  <2>6. Whole(t) BY <2>2 DEF UpdatedTo
  <2> HIDE DEF u
  <2>7. Whole(s) /\ Altered(t, s, n, Wanted(c, u), c[u].fields) /\ Do(s, Undo(c, u)) = t
    BY <2>3, <2>4, <2>5, <2>6, UpdateStep
  <2>8. Updates(c, k + 1) = Updates(c, k) \cup {n}
    <3>1. 1 .. k + 1 = (1 .. k) \cup {k + 1} OBVIOUS
    <3> QED BY <3>1 DEF Updates, u
  <2> HIDE DEF n
  <2>9. UpdatedTo(c, k + 1, s) BY <2>2, <2>5, <2>7, <2>8 DEF UpdatedTo, Altered
  <2>10. ASSUME NEW j \in 1 .. k + 1 PROVE Do(After(c, j), Undo(c, Line(c)[j])) = After(c, j - 1)
    <3>1. CASE j = k + 1 BY <2>1, <2>7, <3>1 DEF u, s, t
    <3>2. CASE j # k + 1
      <4>1. j \in 1 .. k BY <3>2
      <4> QED BY <2>0, <4>1
    <3> QED BY <3>1, <3>2
  <2> QED BY <2>9, <2>10 DEF s
<1> HIDE DEF B
<1>7. \A k \in Nat : k \in B BY <1>5, <1>6, Induction
<1>8. Good(K)
  <2> HIDE DEF Good
  <2> QED BY <1>2, <1>7 DEF B
<1> QED BY <1>8 DEF CanUndo

\* rollback_updates(): updates that can each be taken back are taken back in the opposite order.
LEMMA UndoneIs ==
    ASSUME TreeInv, NEW c, IsForest(c), NEW K \in 0 .. Cardinality(Ups(c)),
           CanUndo(c, K)
    PROVE  Undone(After(c, K), c, First2(c, K)) = Base(c)
<1> DEFINE C == Cardinality(Ups(c))
           us == First2(c, K)
           script == [j \in DOMAIN us |-> Undo(c, us[Len(us) + 1 - j])]
           t == After(c, K)
           B == {k \in Nat : k <= K => RunAt(t, script, k) = After(c, K - k)}
<1>1. C \in Nat /\ IsScript(Script(c), C) BY LineIs
<1> HIDE DEF C
<1>2. K \in Nat /\ K <= C BY <1>1 DEF C
<1>3. DOMAIN us = 1 .. K /\ \A j \in 1 .. K : us[j] = Line(c)[j] BY DEF First2
<1>4. Len(us) = K
  <2> DEFINE S == {Line(c)[j] : j \in 1 .. K}
  <2>1. us \in [1 .. K -> S] BY DEF First2
  <2> HIDE DEF us, S
  <2>2. us \in Seq(S) BY <1>2, <2>1
  <2> QED BY <1>2, <1>3, <2>2
<1>5. After(c, 0) = Base(c)
  <2>1. RunAt(Base(c), Script(c), 0) = Base(c) BY <1>1, RunSteps
  <2> QED BY <2>1 DEF After
<1>6. Undone(t, c, us) = Run(t, script) BY DEF Undone
<1> HIDE DEF us
<1>7. IsScript(script, K) /\ \A j \in 1 .. K : script[j] = Undo(c, Line(c)[K + 1 - j])
  <2>1. \A j \in 1 .. K : K + 1 - j \in 1 .. K BY <1>2
  <2> QED BY <1>2, <1>3, <1>4, <2>1 DEF IsScript
<1>0. t = After(c, K) OBVIOUS
<1> HIDE DEF script, t
<1>8. /\ RunAt(t, script, 0) = t /\ Run(t, script) = RunAt(t, script, K)
      /\ \A k \in Nat : k + 1 <= K => RunAt(t, script, k + 1) = Do(RunAt(t, script, k), script[k + 1])
  <2>1. IsScript(script, K) BY <1>7
  <2>2. RunAt(t, script, 0) = t BY <2>1, RunSteps
  <2>3. Run(t, script) = RunAt(t, script, K) BY <2>1, RunSteps
  <2>4. ASSUME NEW k \in Nat, k + 1 <= K PROVE RunAt(t, script, k + 1) = Do(RunAt(t, script, k), script[k + 1])
    BY <2>1, <2>4, RunSteps
  <2> QED BY <2>2, <2>3, <2>4
<1>9. 0 \in B
  <2>1. K - 0 = K BY <1>2
  <2> QED BY <1>0, <1>2, <1>8, <2>1
<1>10. ASSUME NEW k \in Nat, k \in B PROVE k + 1 \in B
  <2> SUFFICES ASSUME k + 1 <= K PROVE RunAt(t, script, k + 1) = After(c, K - (k + 1)) OBVIOUS
  <2>1. k + 1 \in 1 .. K /\ K - k \in 1 .. K /\ K + 1 - (k + 1) = K - k /\ K - k - 1 = K - (k + 1) BY <1>2
  <2>2. RunAt(t, script, k) = After(c, K - k) BY <1>2, <1>10
  <2>3. RunAt(t, script, k + 1) = Do(After(c, K - k), Undo(c, Line(c)[K - k])) BY <1>7, <1>8, <2>1, <2>2
  <2>4. Do(After(c, K - k), Undo(c, Line(c)[K - k])) = After(c, K - k - 1) BY <2>1 DEF CanUndo
  <2> QED BY <2>1, <2>3, <2>4
<1> HIDE DEF B
<1>11. \A k \in Nat : k \in B BY <1>9, <1>10, Induction
<1>12. K - K = 0 BY <1>2
<1>13. RunAt(t, script, K) = After(c, 0) BY <1>2, <1>11, <1>12 DEF B
<1> QED BY <1>0, <1>5, <1>6, <1>8, <1>13 DEF us

\* rollback_additions(): without the additions it is the tree there was.
LEMMA AdditionsGo ==
    ASSUME TreeInv, ~crossed, NEW c, IsForest(c), Room(Added(c)), Added(c) \cap Prefabs = {}
    PROVE  DestroyedAll(Base(c), RootsFor(Added(c))) = tree
<1> DEFINE us == Added(c)
           b == Base(c)
           ns == RootsFor(us)
           s == DestroyedAll(b, ns)
<1>1. us \in SUBSET Uuids /\ IsFiniteSet(us)
  <2>1. us \in SUBSET Uuids BY NodeInIs
  <2> QED BY <2>1, TreeAssumption, FS_Subset
<1>2. IsFiniteSet(ns) /\ ns = NewNodes(us)
  <2> DEFINE f == [u \in us |-> Fresh(u, "root")]
  <2>1. f \in Surjection(us, ns) BY DEF RootsFor, Surjection
  <2>2. IsFiniteSet(ns) BY <1>1, <2>1, FS_Surjection
  <2>3. \A u \in us : NewFor(u) = {Fresh(u, "root")} BY DEF NewFor
  <2> QED BY <2>2, <2>3 DEF NewNodes, RootsFor
<1>3. ns \cap Taken = {} BY <1>1, <1>2, NewMembers
<1>4. Whole(tree) /\ Live(tree) \subseteq Taken BY SceneFacts
<1>5. Whole(b) /\ Live(b) = Live(tree) \cup ns /\ Rest(tree, b, Live(tree)) BY <1>2, ReloadGrows
<1> HIDE DEF us, b, ns
<1>6. Whole(s) /\ Live(s) = {m \in Live(b) : Up(b, m) \cap ns = {}} /\ Rest(b, s, Live(s))
  BY <1>2, <1>5, DestroyedAllSound
<1> HIDE DEF s
<1>7. Walkable(b) BY <1>5, TreeWalkable DEF Whole
<1>8. ASSUME NEW m \in Live(tree) PROVE Up(b, m) \cap ns = {}
  <2>1. \A l \in Live(tree) : tree[l].parent = b[l].parent BY <1>5 DEF Rest
  <2>2. Up(b, m) = Up(tree, m) /\ Up(tree, m) \subseteq Live(tree) BY <1>4, <1>5, <1>7, <2>1, UpKept
  <2> QED BY <1>3, <1>4, <2>2
<1>9. ASSUME NEW m \in ns PROVE m \in Up(b, m)
  <2>1. m \in Live(b) /\ m # NoNode BY <1>5, <1>7 DEF Walkable
  <2> QED BY <1>7, <2>1, UpSelf
<1>10. Live(s) = Live(tree) BY <1>5, <1>6, <1>8, <1>9
<1>11. \A m \in Live(tree) : s[m].parent = tree[m].parent /\ s[m].fields = tree[m].fields
  BY <1>5, <1>6, <1>10 DEF Rest
<1>12. s = tree BY <1>4, <1>6, <1>10, <1>11, SameTree
<1> QED BY <1>12 DEF s, b, ns, us

-----------------------------------------------------------------------------
\* The tree stays one, and the members members, whatever a reload meets.
LEMMA ReloadTyped ==
    ASSUME TreeInv, NEW c \in Forests, Reload(c)
    PROVE  IsTree(tree') /\ MembersTyped(authored', inner', bindings') /\ crossed' \in BOOLEAN
<1> DEFINE C == Cardinality(Ups(c))
<1>0. IsForest(c) BY ForestsAre
<1>1. /\ playing /\ CanCapture /\ Room(Added(c)) /\ SamePrefabs(Description, c)
      /\ UNCHANGED <<playing, bindings, snapshot>> /\ inner' = inner
      /\ \/ /\ tree' = DestroyedAll(After(c, C), {Find(u) : u \in Dropped(c)})
            /\ authored' = {NodeIn(c, u) : u \in DOMAIN c}
         \/ \E k \in 1 .. C : tree' = RolledBack(After(c, k), c, First2(c, k)) /\ authored' = authored
  BY ReloadDoes
<1>2. /\ IsTree(tree) /\ MembersTyped(authored, inner, bindings) /\ crossed \in BOOLEAN
      /\ \A u \in Present : Find(u) \in Roots /\ Find(u) \in Ids /\ u \in Uuids
  BY TypeFacts
<1>3. \A u \in Present : Find(u) \in Live(tree) BY DEF Present, Find
<1>4. /\ C \in Nat /\ \A k \in 1 .. C : Line(c)[k] \in Present \cap DOMAIN c BY <1>0, LineIs
<1>5. Added(c) \in SUBSET Uuids /\ Added(c) \subseteq DOMAIN c /\ Dropped(c) \subseteq Uuids
  BY <1>0, <1>2 DEF Added, Dropped, IsForest
<1>6. ASSUME NEW u \in DOMAIN c PROVE NodeIn(c, u) \in Roots
  <2>0. u # NoNode BY <1>0, TreeAssumption DEF IsForest
  <2>1. CASE u \in Added(c)
    <3>1. NodeIn(c, u) = Fresh(u, "root") BY <2>0, <2>1 DEF NodeIn, NodeFor
    <3>2. Fresh(u, "root") \in RootsFor(Added(c)) /\ RootsFor(Added(c)) \subseteq Roots
      BY <1>1, <1>5, <2>1, NewMembers
    <3> QED BY <3>1, <3>2
  <2>2. CASE u \notin Added(c)
    <3>1. NodeIn(c, u) = Find(u) BY <2>0, <2>2 DEF NodeIn, NodeFor
    <3>2. u \in Present BY <2>2 DEF Added
    <3> QED BY <1>2, <3>1, <3>2
  <2> QED BY <2>1, <2>2
<1>7. \A u \in DOMAIN c : Wanted(c, u) \in Ids \cup {NoNode}
  <2>1. \A u \in DOMAIN c : c[u].parent \in DOMAIN c \cup {NoNode} BY <1>0 DEF IsForest
  <2>2. NodeIn(c, NoNode) = NoNode BY DEF NodeIn, NodeFor
  <2> QED BY <1>6, <2>1, <2>2, RootsAre DEF Wanted
<1>8. IsTree(Base(c))
  <2> DEFINE us == Added(c)
  <2>1. \A u \in us : NodeFor(us, c[u].parent) \in Ids \cup {NoNode} BY <1>5, <1>7 DEF Wanted, NodeIn
  <2>2. us \in SUBSET DOMAIN c /\ Room(us) BY <1>1, <1>5
  <2> HIDE DEF us
  <2>3. IsTree(Grown(tree, c, us)) BY <1>0, <1>2, <2>1, <2>2, GrownTyped
  <2> QED BY <2>3 DEF Base, us
<1> HIDE DEF C
<1>9. ASSUME NEW k \in 0 .. C PROVE IsTree(After(c, k))
  <2> DEFINE r == [j \in 1 .. k |-> Update(c, Line(c)[j])]
  <2>1. Run(Base(c), r) = After(c, k) BY <1>0, AfterIs DEF C
  <2>2. IsScript(r, k) BY <1>4 DEF IsScript
  <2>3. ASSUME NEW j \in 1 .. k PROVE IsChange(r[j])
    <3> DEFINE u == Line(c)[j]
    <3>1. u \in DOMAIN c BY <1>4
    <3>2. c[u].fields \in Fields BY <1>0, <3>1 DEF IsForest
    <3>3. ParentChanges(c, u) \in BOOLEAN BY DEF ParentChanges
    <3>4. r[j] = Setting(Find(u), ParentChanges(c, u), NodeIn(c, c[u].parent), c[u].fields) BY DEF Update
    <3> HIDE DEF u, r
    <3> QED BY <3>2, <3>3, <3>4 DEF IsChange
  <2> HIDE DEF r
  <2>4. IsTree(Run(Base(c), r)) BY <1>8, <2>2, <2>3, RunTyped
  <2> QED BY <2>1, <2>4
<1>10. IsFiniteSet({Find(u) : u \in Dropped(c)}) /\ IsFiniteSet(RootsFor(Added(c)))
  <2>1. IsFiniteSet(Dropped(c)) /\ IsFiniteSet(Added(c)) BY <1>5, TreeAssumption, FS_Subset
  <2> DEFINE f == [u \in Dropped(c) |-> Find(u)]
             g == [u \in Added(c) |-> Fresh(u, "root")]
  <2>2. f \in Surjection(Dropped(c), {Find(u) : u \in Dropped(c)}) BY DEF Surjection
  <2>3. g \in Surjection(Added(c), RootsFor(Added(c))) BY DEF RootsFor, Surjection
  <2> HIDE DEF f, g
  <2> QED BY <2>1, <2>2, <2>3, FS_Surjection
<1>11. CASE /\ tree' = DestroyedAll(After(c, C), {Find(u) : u \in Dropped(c)})
            /\ authored' = {NodeIn(c, u) : u \in DOMAIN c}
  <2>1. IsTree(After(c, C)) BY <1>4, <1>9
  <2>2. IsTree(tree') BY <1>10, <1>11, <2>1, DestroyedAllTyped
  <2>3. authored' \subseteq Roots BY <1>6, <1>11
  <2> QED BY <1>1, <1>2, <2>2, <2>3, ReloadDoes DEF MembersTyped
<1>12. ASSUME NEW k \in 1 .. C, tree' = RolledBack(After(c, k), c, First2(c, k)), authored' = authored
       PROVE  IsTree(tree') /\ MembersTyped(authored', inner', bindings')
  <2> DEFINE us == First2(c, k)
             script == [j \in DOMAIN us |-> Undo(c, us[Len(us) + 1 - j])]
             t == After(c, k)
  <2>1. IsTree(t) BY <1>4, <1>9
  <2>2. k \in Nat /\ DOMAIN us = 1 .. k /\ \A j \in 1 .. k : us[j] \in Present BY <1>4 DEF First2
  <2>3. Len(us) = k
    <3>1. us = [j \in 1 .. k |-> us[j]] BY DEF First2
    <3> HIDE DEF us
    <3>2. us \in Seq(Present) BY <2>2, <3>1
    <3> QED BY <2>2, <3>2
  <2>4. Undone(t, c, us) = Run(t, script) BY DEF Undone
  <2> HIDE DEF us
  <2>5. IsScript(script, k) /\ \A j \in 1 .. k : script[j] = Undo(c, us[k + 1 - j])
    BY <2>2, <2>3 DEF IsScript
  <2> HIDE DEF script, t
  <2>6. ASSUME NEW j \in 1 .. k PROVE IsChange(script[j])
    <3> DEFINE u == us[k + 1 - j]
    <3>1. k + 1 - j \in 1 .. k BY <2>2
    <3>2. u \in Present BY <2>2, <3>1
    <3>3. tree[Find(u)].fields \in Fields BY <1>2, <1>3, <3>2, NodeIs
    <3>4. ParentChanges(c, u) \in BOOLEAN BY DEF ParentChanges
    <3>5. script[j] = Setting(Find(u), ParentChanges(c, u), tree[Find(u)].parent, tree[Find(u)].fields)
      BY <2>5 DEF Undo
    <3> HIDE DEF u
    <3> QED BY <3>3, <3>4, <3>5 DEF IsChange
  <2>7. IsTree(Undone(t, c, us)) BY <2>1, <2>4, <2>5, <2>6, RunTyped
  <2>8. IsTree(DestroyedAll(Undone(t, c, us), RootsFor(Added(c)))) BY <1>10, <2>7, DestroyedAllTyped
  <2>9. IsTree(tree') BY <1>12, <2>8 DEF RolledBack, us, t
  <2> QED BY <1>1, <1>2, <1>12, <2>9
<1>13. crossed' \in BOOLEAN
  <2>1. crossed' = crossed \/ \E x \in BOOLEAN : crossed' = (crossed \/ x)
    <3>1. \A m : (tree[m].parent # NoNode) \in BOOLEAN OBVIOUS
    <3> QED BY <3>1, ReloadDoes
  <2> QED BY <1>2, <2>1
<1> QED BY <1>1, <1>11, <1>12, <1>13 DEF C

\* One that fails takes everything back, unless it has crossed the tree.
LEMMA ReloadFails ==
    ASSUME TreeInv, NEW c \in Forests, Reload(c), ~crossed', ~report'.ok
    PROVE  UNCHANGED <<tree, authored, inner>> /\ ~crossed
<1> DEFINE C == Cardinality(Ups(c))
           Refused(k) == Stuck(After(c, k - 1), c, Line(c)[k])
<1>0. IsForest(c) BY ForestsAre
<1>1. Room(Added(c)) /\ SamePrefabs(Description, c) BY ReloadDoes
<1>2. \E k \in 1 .. C :
        /\ \A j \in 1 .. C : Refused(j) => k <= j
        /\ Refused(k) => tree[Find(Line(c)[k])].parent = NoNode
        /\ tree' = RolledBack(After(c, k), c, First2(c, k))
        /\ UNCHANGED <<authored, inner>> /\ ~crossed
  <2>1. [NoReport EXCEPT !.call = "reload", !.want = c].ok BY DEF NoReport
  <2>2. C \in Nat BY <1>0, LineIs
  <2>3. \A k, j \in 1 .. C : k < j => k <= j /\ k # j BY <2>2
  <2> HIDE DEF C, Refused
  <2>4. \/ \E k \in 1 .. C :
             /\ Refused(k) /\ \A j \in 1 .. C : Refused(j) => k <= j
             /\ tree' = RolledBack(After(c, k), c, First2(c, k))
             /\ UNCHANGED <<authored, inner>>
             /\ crossed' = (crossed \/ tree[Find(Line(c)[k])].parent # NoNode)
        \/ \E k \in 1 .. C :
             /\ \A j \in 1 .. C : Refused(j) => k < j
             /\ tree' = RolledBack(After(c, k), c, First2(c, k))
             /\ UNCHANGED <<authored, inner, crossed>>
    BY <2>1, ReloadDoes DEF C, Refused
  <2>5. CASE \E k \in 1 .. C :
               /\ Refused(k) /\ \A j \in 1 .. C : Refused(j) => k <= j
               /\ tree' = RolledBack(After(c, k), c, First2(c, k))
               /\ UNCHANGED <<authored, inner>>
               /\ crossed' = (crossed \/ tree[Find(Line(c)[k])].parent # NoNode)
    BY <2>5
  <2>6. CASE \E k \in 1 .. C :
               /\ \A j \in 1 .. C : Refused(j) => k < j
               /\ tree' = RolledBack(After(c, k), c, First2(c, k))
               /\ UNCHANGED <<authored, inner, crossed>>
    BY <2>3, <2>6
  <2> QED BY <2>4, <2>5, <2>6
<1>3. PICK k \in 1 .. C :
        /\ \A j \in 1 .. C : Refused(j) => k <= j
        /\ Refused(k) => tree[Find(Line(c)[k])].parent = NoNode
        /\ tree' = RolledBack(After(c, k), c, First2(c, k))
        /\ UNCHANGED <<authored, inner>> /\ ~crossed
  BY <1>2
<1>4. C \in Nat /\ IsScript(Script(c), C) /\ \A j \in 1 .. C : Script(c)[j] = Update(c, Line(c)[j]) BY <1>0, LineIs
<1> HIDE DEF C
<1>5. k - 1 \in 0 .. C /\ k \in 0 .. C /\ k - 1 \in Nat /\ k - 1 + 1 = k /\ k <= C
      /\ \A j \in 1 .. k - 1 : j \in 1 .. C /\ ~(k <= j)
  BY <1>4
<1>6. \A j \in 1 .. k - 1 : ~Stuck(After(c, j - 1), c, Line(c)[j]) BY <1>3, <1>5
<1>7. UpdatedTo(c, k - 1, After(c, k - 1)) /\ CanUndo(c, k - 1) BY <1>0, <1>1, <1>3, <1>5, <1>6, ReloadUpdates DEF C
<1> DEFINE t == After(c, k - 1)
           s == After(c, k)
           u == Line(c)[k]
<1>8. s = Do(t, Update(c, u))
  <2>1. RunAt(Base(c), Script(c), k - 1 + 1) = Do(RunAt(Base(c), Script(c), k - 1), Script(c)[k - 1 + 1])
    BY <1>4, <1>5, RunSteps
  <2> QED BY <1>4, <1>5, <2>1 DEF After
<1>9. /\ Find(u) \in Live(t) /\ c[u].fields \in Fields
      /\ t[Find(u)].parent = tree[Find(u)].parent /\ t[Find(u)].fields = tree[Find(u)].fields
      /\ Wanted(c, u) \in Live(t) \cup {NoNode}
  BY <1>0, <1>1, <1>3, <1>7, UpdateTurn DEF C
<1>10. Whole(t) BY <1>7 DEF UpdatedTo
<1>11. Stuck(t, c, u) => tree[Find(u)].parent = NoNode BY <1>3
<1> HIDE DEF t, s, u
<1>12. Do(s, Undo(c, u)) = t BY <1>8, <1>9, <1>10, <1>11, UpdateStep
<1>13. CanUndo(c, k)
  <2> SUFFICES ASSUME NEW j \in 1 .. k PROVE Do(After(c, j), Undo(c, Line(c)[j])) = After(c, j - 1) BY DEF CanUndo
  <2>1. CASE j = k BY <1>12, <2>1 DEF s, t, u
  <2>2. CASE j # k
    <3>1. j \in 1 .. k - 1 BY <1>5, <2>2
    <3> QED BY <1>7, <3>1 DEF CanUndo
  <2> QED BY <2>1, <2>2
<1>14. Undone(After(c, k), c, First2(c, k)) = Base(c) BY <1>0, <1>5, <1>13, UndoneIs DEF C
<1>15. Added(c) \cap Prefabs = {}
  <2>1. DOMAIN c \cap Prefabs \subseteq DOMAIN Description BY <1>1 DEF SamePrefabs
  <2>2. DOMAIN Description = Present BY DEF Description
  <2> QED BY <2>1, <2>2 DEF Added
<1>16. DestroyedAll(Base(c), RootsFor(Added(c))) = tree BY <1>0, <1>1, <1>3, <1>15, AdditionsGo
<1> QED BY <1>3, <1>14, <1>16 DEF RolledBack

\* The nodes of the new description before the removals: each is where the description has it.
LEMMA ReloadPlaces ==
    ASSUME TreeInv, ~crossed, NEW c, IsForest(c), Room(Added(c)), CanCapture,
           NEW t, UpdatedTo(c, Cardinality(Ups(c)), t), NEW u \in DOMAIN c
    PROVE  LET n == NodeIn(c, u)
           IN n \in Live(t) /\ t[n].parent = Wanted(c, u) /\ t[n].fields = c[u].fields
<1> DEFINE n == NodeIn(c, u)
           C == Cardinality(Ups(c))
           b == Base(c)
<1>1. /\ n \in authored \cup RootsFor(Added(c)) /\ UuidOf(n) = u
      /\ u \in Added(c) => n = Fresh(u, "root")
      /\ u \in Present => n = Find(u)
      /\ Added(c) \in SUBSET Uuids
  BY NodeInIs
<1>2. /\ Rest(tree, b, Live(tree)) /\ authored \cup RootsFor(Added(c)) \subseteq Live(b)
      /\ \A v \in Added(c) : /\ b[Fresh(v, "root")].parent = Wanted(c, v)
                             /\ b[Fresh(v, "root")].fields = c[v].fields
  BY ReloadGrows
<1>3. /\ C \in Nat /\ \A k \in 1 .. C : Line(c)[k] \in Ups(c)
      /\ \A v \in Ups(c) : \E k \in 1 .. C : Line(c)[k] = v
      /\ Ups(c) = {v \in Present \cap DOMAIN c : Description[v] # c[v]}
  BY LineIs
<1>4. /\ authored \subseteq Live(tree) /\ Present = {UuidOf(a) : a \in authored}
      /\ \A v \in Present : Find(v) \in authored /\ UuidOf(Find(v)) = v
      /\ \A a \in authored : Find(UuidOf(a)) = a /\ a # NoNode
      /\ MembersAre(tree, authored)
  BY SceneFacts
<1>5. \A m \in Updates(c, C) : UuidOf(m) \in Ups(c) BY <1>3, <1>4 DEF Updates
<1>6. \A v \in Ups(c) : Find(v) \in Updates(c, C) BY <1>3 DEF Updates
<1>7. /\ Live(t) = Live(b)
      /\ \A m \in Live(t) :
           /\ t[m].parent = IF m \in Updates(c, C) THEN Wanted(c, UuidOf(m)) ELSE b[m].parent
           /\ t[m].fields = IF m \in Updates(c, C) THEN c[UuidOf(m)].fields ELSE b[m].fields
  BY DEF UpdatedTo
<1>8. ASSUME u \in Present, u \notin Ups(c)
      PROVE  tree[n].parent = Wanted(c, u) /\ tree[n].fields = c[u].fields
  <2>1. Description[u] = c[u] BY <1>3, <1>8
  <2>2. n \in authored /\ n = Find(u) BY <1>1, <1>4, <1>8
  <2>3. Description[u] = ObjectOf(Named(tree[n].parent), tree[n].fields)
    <3>1. Description = Described(tree, authored) BY DescribedNow
    <3> QED BY <1>1, <1>4, <2>2, <3>1, DescribedIs
  <2>4. c[u].parent = Named(tree[n].parent) /\ c[u].fields = tree[n].fields BY <2>1, <2>3, ObjectIs
  <2>5. tree[n].parent \in authored \cup {NoNode} BY <2>2 DEF CanCapture
  <2>6. CASE tree[n].parent = NoNode
    <3>1. c[u].parent = NoNode BY <2>4, <2>6 DEF Named
    <3> QED BY <2>4, <2>6, <3>1, NodeInIs DEF Wanted
  <2>7. CASE tree[n].parent # NoNode
    <3> DEFINE a == tree[n].parent
    <3>1. a \in authored /\ c[u].parent = UuidOf(a) BY <2>4, <2>5, <2>7 DEF Named
    <3>2. UuidOf(a) \in Present /\ Find(UuidOf(a)) = a BY <1>4, <3>1
    <3>3. UuidOf(a) \in DOMAIN c
      <4>1. UuidOf(a) # NoNode BY <3>1, SceneFacts, TreeAssumption
      <4> QED BY <3>1, <4>1 DEF IsForest
    <3>4. NodeIn(c, UuidOf(a)) = a BY <3>2, <3>3, NodeInIs
    <3> QED BY <2>4, <3>1, <3>4 DEF Wanted
  <2> QED BY <2>6, <2>7
<1> HIDE DEF n, C, b
<1>9. n \in Live(t) BY <1>1, <1>2, <1>7
<1>10. CASE u \in Ups(c)
  <2>1. n \in Updates(c, C) BY <1>1, <1>3, <1>6, <1>10
  <2> QED BY <1>1, <1>7, <1>9, <2>1 DEF n
<1>11. CASE u \notin Ups(c)
  <2>1. n \notin Updates(c, C) BY <1>1, <1>5, <1>11
  <2>2. t[n].parent = b[n].parent /\ t[n].fields = b[n].fields BY <1>7, <1>9, <2>1
  <2>3. CASE u \in Added(c) BY <1>1, <1>2, <1>9, <2>2, <2>3 DEF n
  <2>4. CASE u \notin Added(c)
    <3>1. u \in Present BY <2>4 DEF Added
    <3>2. n \in Live(tree) BY <1>1, <1>4, <3>1
    <3>3. b[n].parent = tree[n].parent /\ b[n].fields = tree[n].fields BY <1>2, <3>2 DEF Rest
    <3> QED BY <1>8, <1>9, <1>11, <2>2, <3>1, <3>3 DEF n
  <2> QED BY <2>3, <2>4
<1> QED BY <1>10, <1>11

\* One that succeeds makes the scene what the new description says.
LEMMA ReloadMakes ==
    ASSUME TreeInv, NEW c \in Forests, Reload(c), ~crossed', report'.ok
    PROVE  /\ SceneOK(tree', authored', bindings') /\ Description' = c /\ report'.want = c
           /\ \A u \in Present \cap DOMAIN c : Find(u) = Find(u)'
<1> DEFINE C == Cardinality(Ups(c))
           t == After(c, C)
           D == {Find(u) : u \in Dropped(c)}
           N == {NodeIn(c, u) : u \in DOMAIN c}
           s == DestroyedAll(t, D)
<1>0. IsForest(c) BY ForestsAre
<1>1. /\ CanCapture /\ Room(Added(c)) /\ SamePrefabs(Description, c) /\ bindings' = bindings
      /\ \A k \in 1 .. C : ~Stuck(After(c, k - 1), c, Line(c)[k])
      /\ tree' = s /\ authored' = N /\ report'.want = c /\ ~crossed
  <2>1. ~[NoReport EXCEPT !.call = "reload", !.ok = FALSE].ok BY DEF NoReport
  <2>2. [NoReport EXCEPT !.call = "reload", !.want = c].want = c BY DEF NoReport
  <2>3. /\ \A k \in 1 .. C : ~Stuck(After(c, k - 1), c, Line(c)[k])
        /\ tree' = s /\ authored' = N
        /\ report' = [NoReport EXCEPT !.call = "reload", !.want = c] /\ UNCHANGED crossed
    BY <2>1, ReloadDoes
  <2> QED BY <2>2, <2>3, ReloadDoes
<1>2. /\ C \in Nat /\ Present \subseteq Uuids BY <1>0, LineIs
<1>3. UpdatedTo(c, C, t)
  <2>1. C \in 0 .. C BY <1>2
  <2> QED BY <1>0, <1>1, <2>1, ReloadUpdates
<1>4. ASSUME NEW u \in DOMAIN c
      PROVE  /\ NodeIn(c, u) \in Live(t) /\ t[NodeIn(c, u)].parent = Wanted(c, u)
             /\ t[NodeIn(c, u)].fields = c[u].fields
  BY <1>0, <1>1, <1>3, ReloadPlaces
<1>5. /\ NodeIn(c, NoNode) = NoNode
      /\ \A u \in DOMAIN c : /\ UuidOf(NodeIn(c, u)) = u /\ NodeIn(c, u) # NoNode
                             /\ u \in Present => NodeIn(c, u) = Find(u)
                             /\ Named(Wanted(c, u)) = c[u].parent
  BY <1>0, <1>1, NodeInIs
<1>6. /\ \A u \in Present : UuidOf(Find(u)) = u
      /\ \A b \in bindings : b.root \in authored
      /\ \A a \in authored : Find(UuidOf(a)) = a /\ UuidOf(a) \in Present
      /\ MembersTyped(authored, inner, bindings)
  BY <1>1, SceneFacts
<1>7. IsFiniteSet(D)
  <2>1. IsFiniteSet(Dropped(c))
    <3>1. Dropped(c) \subseteq Uuids BY <1>2 DEF Dropped
    <3> QED BY <3>1, TreeAssumption, FS_Subset
  <2> DEFINE f == [u \in Dropped(c) |-> Find(u)]
  <2>2. f \in Surjection(Dropped(c), D) BY DEF Surjection
  <2> HIDE DEF f, D
  <2> QED BY <2>1, <2>2, FS_Surjection
<1>8. Whole(t) BY <1>3 DEF UpdatedTo
<1>9. N \cap D = {}
  <2>1. \A v \in Dropped(c) : v \in Present /\ v \notin DOMAIN c BY DEF Dropped
  <2> QED BY <1>5, <1>6, <2>1
<1>10. \A n \in N : n \in Live(t) /\ t[n].parent \in N \cup {NoNode}
  <2> SUFFICES ASSUME NEW u \in DOMAIN c
               PROVE  NodeIn(c, u) \in Live(t) /\ t[NodeIn(c, u)].parent \in N \cup {NoNode}
    OBVIOUS
  <2>1. c[u].parent \in DOMAIN c \cup {NoNode} BY <1>0 DEF IsForest
  <2>2. Wanted(c, u) \in N \cup {NoNode} BY <1>5, <2>1 DEF Wanted
  <2> QED BY <1>4, <2>2
<1>11. \A n \in N : \E u \in DOMAIN c : n = NodeIn(c, u) OBVIOUS
<1>12. \A u \in DOMAIN c : NodeIn(c, u) \in N OBVIOUS
<1> HIDE DEF t, D, N, C, s
<1>13. Whole(s) /\ Live(s) = {m \in Live(t) : Up(t, m) \cap D = {}} /\ Rest(t, s, Live(s))
  BY <1>7, <1>8, DestroyedAllSound DEF s
<1>14. ASSUME NEW n \in N PROVE n \in Live(s) /\ s[n].parent = t[n].parent /\ s[n].fields = t[n].fields
  <2>1. Walkable(t) BY <1>8, TreeWalkable DEF Whole
  <2>2. Up(t, n) \subseteq N BY <1>10, <2>1, UpLeast
  <2>3. n \in Live(s) BY <1>9, <1>10, <1>13, <2>2
  <2> QED BY <1>13, <2>3 DEF Rest
<1>15. MembersAre(s, N) BY <1>5, <1>11, <1>14 DEF MembersAre
<1>16. ASSUME NEW b \in bindings PROVE b.root \in N
  <2> DEFINE u == UuidOf(b.root)
  <2>1. u \in Present /\ u \in Prefabs /\ Find(u) = b.root BY <1>6 DEF MembersTyped
  <2>2. u \in DOMAIN c
    <3>1. DOMAIN Description = Present BY DEF Description
    <3> QED BY <1>1, <2>1, <3>1 DEF SamePrefabs
  <2> QED BY <1>5, <1>12, <2>1, <2>2
<1>17. SceneOK(tree', authored', bindings') BY <1>1, <1>13, <1>15, <1>16 DEF SceneOK, Whole
<1> DEFINE E == Described(s, N)
<1>18. E = c
  <2>1. DOMAIN E = PresentIn(s, N) /\ E = [v \in DOMAIN E |-> E[v]]
        /\ \A n \in N : E[UuidOf(n)] = ObjectOf(Named(s[n].parent), s[n].fields)
    BY <1>15, DescribedIs
  <2>2. PresentIn(s, N) = {UuidOf(n) : n \in N} BY <1>15, FoundIs
  <2> HIDE DEF E
  <2>3. DOMAIN E = DOMAIN c
    <3>1. \A u \in DOMAIN c : u \in {UuidOf(n) : n \in N} BY <1>5, <1>12
    <3>2. \A n \in N : UuidOf(n) \in DOMAIN c BY <1>5, <1>11
    <3>3. {UuidOf(n) : n \in N} = DOMAIN c BY <3>1, <3>2
    <3> QED BY <2>1, <2>2, <3>3
  <2>4. ASSUME NEW u \in DOMAIN c PROVE E[u] = c[u]
    <3> DEFINE n == NodeIn(c, u)
    <3>1. n \in N /\ UuidOf(n) = u /\ Named(Wanted(c, u)) = c[u].parent BY <1>5, <1>12
    <3>2. s[n].parent = Wanted(c, u) /\ s[n].fields = c[u].fields BY <1>4, <1>14, <3>1
    <3> HIDE DEF n
    <3>3. E[u] = ObjectOf(c[u].parent, c[u].fields) BY <2>1, <3>1, <3>2
    <3> QED BY <1>0, <3>3, ObjectIs
  <2>5. c = [u \in DOMAIN c |-> c[u]] BY <1>0 DEF IsForest
  <2> QED BY <2>1, <2>3, <2>4, <2>5
<1>19. Description' = c BY <1>1, <1>18, DescribedThen
<1>20. ASSUME NEW u \in Present \cap DOMAIN c PROVE Find(u) = Find(u)'
  <2>1. NodeIn(c, u) = Find(u) /\ NodeIn(c, u) \in N /\ UuidOf(NodeIn(c, u)) = u BY <1>5, <1>12
  <2>2. FoundIn(s, N, u) = NodeIn(c, u) BY <1>15, <2>1, FoundIs
  <2> QED BY <1>1, <2>1, <2>2, DescribedThen
<1> QED BY <1>1, <1>17, <1>19, <1>20

LEMMA ReloadKeeps == ASSUME TreeInv, NEW c \in Forests, Reload(c) PROVE TreeInv'
<1>1. playing /\ UNCHANGED <<playing, bindings, snapshot>> BY ReloadDoes
<1>2. IsTree(tree') /\ MembersTyped(authored', inner', bindings') /\ crossed' \in BOOLEAN BY ReloadTyped
<1>3. ASSUME ~crossed' PROVE SceneOK(tree', authored', bindings')
  <2>1. CASE report'.ok BY <1>3, <2>1, ReloadMakes
  <2>2. CASE ~report'.ok
    <3>1. tree' = tree /\ authored' = authored /\ ~crossed BY <1>3, <2>2, ReloadFails
    <3>2. SceneOK(tree, authored, bindings) BY <3>1 DEF TreeInv
    <3> QED BY <1>1, <3>1, <3>2
  <2> QED BY <2>1, <2>2
<1> QED BY <1>1, <1>2, <1>3, StepKeeps

-----------------------------------------------------------------------------
(***************************************************************************)
(* The scene                                                               *)
(***************************************************************************)
LEMMA TreeStep == TreeInv /\ [TreeNext]_treeVars => TreeInv'
<1> SUFFICES ASSUME TreeInv, [TreeNext]_treeVars PROVE TreeInv' OBVIOUS
<1>1. ASSUME NEW u \in Uuids, NEW p \in authored \cup {NoNode}, Create(u, p) PROVE TreeInv' BY <1>1, CreateKeeps
<1>2. ASSUME NEW n \in authored, NEW f \in Fields, SetFields(n, f) PROVE TreeInv' BY <1>2, SetFieldsKeeps
<1>3. ASSUME NEW n \in authored, NEW p \in authored \cup {NoNode}, ReparentNode(n, p) PROVE TreeInv'
  BY <1>3, ReparentNodeKeeps
<1>4. ASSUME NEW n \in Live(tree), NEW p \in Live(tree) \cup {NoNode}, NodeReparent(n, p) PROVE TreeInv'
  BY <1>4, NodeReparentKeeps
<1>5. ASSUME NEW n \in authored, Delete(n) PROVE TreeInv' BY <1>5, DeleteKeeps
<1>6. CASE Restore BY <1>6, RestoreMembers
<1>7. ASSUME NEW b \in bindings, NEW ok \in BOOLEAN, Refresh(b, ok) PROVE TreeInv' BY <1>7, RefreshKeeps
<1>8. ASSUME NEW c \in Forests, Reload(c) PROVE TreeInv' BY <1>8, ReloadKeeps
<1>9. CASE UNCHANGED treeVars BY <1>9 DEF TreeInv, TreeTypes, treeVars, NoSnapshot
<1> QED BY <1>1, <1>2, <1>3, <1>4, <1>5, <1>6, <1>7, <1>8, <1>9 DEF TreeNext

\* What each call reports.
LEMMA Reports ==
    ASSUME TreeInv
    PROVE  /\ \A u, p : Create(u, p) => report'.call = "other"
           /\ \A n, f : SetFields(n, f) => report'.call = "other"
           /\ \A n, p : ReparentNode(n, p) => report'.call = "other"
           /\ \A n, p : NodeReparent(n, p) => report'.call = "other"
           /\ \A n : Delete(n) => report'.call = "other"
           /\ Restore => report'.call = "restore"
           /\ \A b, ok : Refresh(b, ok) => /\ report'.call = "refresh" /\ report'.ok = ok
                                           /\ report'.of = UuidOf(b.root)
           /\ \A c \in Forests : Reload(c) => report'.call = "reload"
<1>1. NoReport.call = "other" BY DEF NoReport
<1>2. [NoReport EXCEPT !.call = "restore"].call = "restore" BY DEF NoReport
<1>3. ASSUME NEW b, NEW ok, Refresh(b, ok)
      PROVE  report'.call = "refresh" /\ report'.ok = ok /\ report'.of = UuidOf(b.root)
  <2>1. report' = [NoReport EXCEPT !.call = "refresh", !.of = UuidOf(b.root), !.ok = ok] BY <1>3 DEF Refresh, Answer
  <2> QED BY <2>1 DEF NoReport
<1>4. \A c : /\ [NoReport EXCEPT !.call = "reload", !.want = c].call = "reload"
             /\ [NoReport EXCEPT !.call = "reload", !.ok = FALSE].call = "reload"
  BY DEF NoReport
<1>6. Restore => report' = [NoReport EXCEPT !.call = "restore"] BY DEF Restore, Answer
<1>7. ASSUME NEW c \in Forests, Reload(c) PROVE report'.call = "reload"
  <2>1. \/ report' = [NoReport EXCEPT !.call = "reload", !.want = c]
        \/ report' = [NoReport EXCEPT !.call = "reload", !.ok = FALSE]
    BY <1>7, ReloadDoes
  <2> QED BY <1>4, <2>1
<1>8. /\ \A u, p : Create(u, p) => report' = NoReport
      /\ \A n, f : SetFields(n, f) => report' = NoReport
      /\ \A n, p : ReparentNode(n, p) => report' = NoReport
      /\ \A n, p : NodeReparent(n, p) => report' = NoReport
      /\ \A n : Delete(n) => report' = NoReport
  BY DEF Create, SetFields, ReparentNode, NodeReparent, Delete, Command, Unreported, Answer
<1>9. Restore => report'.call = "restore" BY <1>2, <1>6
<1>10. \A b, ok : Refresh(b, ok) => report'.call = "refresh" /\ report'.ok = ok /\ report'.of = UuidOf(b.root) BY <1>3
<1> QED BY <1>1, <1>7, <1>8, <1>9, <1>10

\* Which step a report is of.
LEMMA ReportedStep ==
    ASSUME TreeInv, [TreeNext]_treeVars
    PROVE  \/ report'.call = "other" \/ UNCHANGED treeVars
           \/ Restore /\ report'.call = "restore"
           \/ \E b \in bindings, ok \in BOOLEAN :
                /\ Refresh(b, ok) /\ report'.call = "refresh" /\ report'.ok = ok /\ report'.of = UuidOf(b.root)
           \/ \E c \in Forests : Reload(c) /\ report'.call = "reload"
<1>1. CASE Restore BY <1>1, Reports
<1>2. ASSUME NEW b \in bindings, NEW ok \in BOOLEAN, Refresh(b, ok)
      PROVE  report'.call = "refresh" /\ report'.ok = ok /\ report'.of = UuidOf(b.root)
  BY <1>2, Reports
<1>3. ASSUME NEW c \in Forests, Reload(c) PROVE report'.call = "reload" BY <1>3, Reports
<1>4. ASSUME \/ \E u \in Uuids, p \in authored \cup {NoNode} : Create(u, p)
             \/ \E n \in authored, f \in Fields : SetFields(n, f)
             \/ \E n \in authored, p \in authored \cup {NoNode} : ReparentNode(n, p)
             \/ \E n \in Live(tree), p \in Live(tree) \cup {NoNode} : NodeReparent(n, p)
             \/ \E n \in authored : Delete(n)
      PROVE  report'.call = "other"
  BY <1>4, Reports
<1> QED BY <1>1, <1>2, <1>3, <1>4 DEF TreeNext

\* The two copies of the hierarchy agree, it is a forest, and every authored member is in it,
\* as long as no node was given the parent it had: through every edit, deletion and undo,
\* every refresh of a Prefab and every reload, one that fails in the middle too
\* (scene_tree.cpp, scene_instance.cpp, scene_instance_prefab.cpp).
THEOREM TreeCorrect == TreeSpec => []TreeIsSound
<1>1. TreeInv => TreeIsSound
  <2> SUFFICES ASSUME TreeInv PROVE TreeIsSound OBVIOUS
  <2>1. IsTree(tree) /\ authored \subseteq Roots /\ inner \subseteq Inners BY TypeFacts DEF MembersTyped
  <2>2. Live(tree) \subseteq Ids /\ \A n \in Live(tree) : tree[n].fields \in Fields BY <2>1, NodeIs DEF IsTree
  <2>3. Inners \subseteq Ids BY DEF Inners, Ids
  <2>4. TreeTypeOK BY <2>1, <2>2, <2>3, RootsAre DEF TreeTypeOK, Members
  <2>5. ASSUME ~crossed PROVE Sound(tree) /\ authored \subseteq Live(tree) BY <2>5, SceneFacts DEF Whole
  <2> QED BY <2>4, <2>5 DEF TreeIsSound
<1> QED BY <1>1, InitKeeps, TreeStep, PTL DEF TreeSpec

\* A reload in place makes the scene what the file says, with the node of every object that
\* stays, or leaves it as it was: additions and updates that came before the one that failed
\* are taken back, in an order that gives each node its parent again (scene_instance.cpp,
\* rollback_updates and rollback_additions).
THEOREM ReloadCorrect == TreeSpec => ReloadIsAtomic
<1>1. ASSUME TreeInv, [TreeNext]_treeVars
      PROVE  [report'.call = "reload" /\ ~crossed' =>
                IF report'.ok
                THEN /\ Description' = report'.want
                     /\ \A u \in Present \cap DOMAIN report'.want : Find(u) = Find(u)'
                ELSE UNCHANGED <<tree, authored, inner>>]_treeVars
  <2>1. CASE UNCHANGED treeVars BY <2>1
  <2>2. CASE ~UNCHANGED treeVars
    <3> SUFFICES ASSUME report'.call = "reload", ~crossed'
                 PROVE  IF report'.ok
                        THEN /\ Description' = report'.want
                             /\ \A u \in Present \cap DOMAIN report'.want : Find(u) = Find(u)'
                        ELSE UNCHANGED <<tree, authored, inner>>
      OBVIOUS
    <3>1. PICK c \in Forests : Reload(c) BY <1>1, <2>2, ReportedStep
    <3>2. CASE report'.ok BY <1>1, <3>1, <3>2, ReloadMakes
    <3>3. CASE ~report'.ok BY <1>1, <3>1, <3>3, ReloadFails
    <3> QED BY <3>2, <3>3
  <2> QED BY <2>1, <2>2
<1> QED BY <1>1, InitKeeps, TreeStep, PTL DEF TreeSpec, ReloadIsAtomic

\* Refreshing a Prefab changes nothing an author wrote, and one that fails takes the instance
\* and nothing else, although what hangs on it is put somewhere else while the instance is
\* replaced (scene_instance_prefab.cpp).
THEOREM RefreshCorrect == TreeSpec => RefreshKeepsTheRest
<1>1. ASSUME TreeInv, [TreeNext]_treeVars
      PROVE  [report'.call = "refresh" /\ ~crossed =>
                Description' = IF report'.ok THEN Description ELSE Orphaned(Description, report'.of)]_treeVars
  <2>1. CASE UNCHANGED treeVars BY <2>1
  <2>2. CASE ~UNCHANGED treeVars
    <3> SUFFICES ASSUME report'.call = "refresh"
                 PROVE  Description' = IF report'.ok THEN Description ELSE Orphaned(Description, report'.of)
      OBVIOUS
    <3>1. PICK b \in bindings, ok \in BOOLEAN : Refresh(b, ok) /\ report'.ok = ok /\ report'.of = UuidOf(b.root)
      BY <1>1, <2>2, ReportedStep
    <3>2. Description' = IF ok THEN Description ELSE Orphaned(Description, UuidOf(b.root))
      BY <1>1, <3>1, RefreshKeepsIt
    <3> QED BY <3>1, <3>2
  <2> QED BY <2>1, <2>2
<1> QED BY <1>1, InitKeeps, TreeStep, PTL DEF TreeSpec, RefreshKeepsTheRest

\* Undoing a deletion gives the scene that was there before it, if what the deletion left is
\* what is there (scene_instance.cpp, capture_subtree and restore_subtree).
THEOREM UndoCorrect == TreeSpec => UndoRestores
<1>1. ASSUME TreeInv, [TreeNext]_treeVars
      PROVE  [report'.call = "restore" /\ ~crossed =>
                (Description = snapshot.rest => Description' = snapshot.whole)]_treeVars
  <2>1. CASE UNCHANGED treeVars BY <2>1
  <2>2. CASE ~UNCHANGED treeVars
    <3> SUFFICES ASSUME report'.call = "restore", Description = snapshot.rest PROVE Description' = snapshot.whole
      OBVIOUS
    <3>1. Restore BY <1>1, <2>2, ReportedStep
    <3> QED BY <1>1, <3>1, RestoreRestores
  <2> QED BY <2>1, <2>2
<1> QED BY <1>1, InitKeeps, TreeStep, PTL DEF TreeSpec, UndoRestores
=============================================================================
