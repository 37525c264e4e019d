---------------------------- MODULE AssetManager ----------------------------
(***************************************************************************)
(* The asset manager (asset_manager.cpp) and the weak index of what it has *)
(* loaded (resource_cache.cpp).  The host's main thread asks for assets,   *)
(* stores its own, drops and takes requests and calls advance(); the file  *)
(* service answers reads in the host's dispatch; the task executor decodes *)
(* on its workers and keeps a slot until its completion is polled.         *)
(*                                                                         *)
(* Loads and stores are numbered in the order they are issued, and what    *)
(* one of them leaves in the cache bears its number.  Uris, types and      *)
(* parameters are the key; diagnostics and metrics are left out.           *)
(***************************************************************************)
EXTENDS Naturals, FiniteSets

CONSTANTS
  Keys,         \* identities of assets
  NoKey,        \* the identity of a load nobody has asked for yet
  MaxIssued,    \* bound: loads and stores
  MaxHolders,   \* bound: request objects that share one load
  Slots         \* tasks the executor has room for

ASSUME AssetAssumption ==
  /\ MaxIssued \in Nat \ {0} /\ MaxHolders \in Nat \ {0} /\ Slots \in Nat \ {0}
  /\ NoKey \notin Keys

Ids == 1 .. MaxIssued

VARIABLES
  issued,      \* loads and stores so far
  keyOf,       \* identity
  stage,       \* of a load: what advance() sees; of a store: "stored"
  versions,    \* generation of a load
  status,      \* of the last read or decode
  second,      \* the load is reading its second file
  held,        \* request objects that observe the load
  old,         \* previous: the content that was cached when it was asked for
  task,        \* its decode in the executor
  known,       \* keys with an entry in the request table
  generation,  \* the entry's generation
  pending,     \* the load the entry's weak pointer leads to, or 0
  cache,       \* the content the cache's weak entry leads to, or 0
  uses,        \* contents the game holds references to
  cursor,      \* the load advance() looks at, or 0 outside of it
  stopped,     \* request_stop() was called
  finished     \* finish_stop() has let go of everything

loads == <<keyOf, versions, old>>
table == <<known, generation, pending>>
stops == <<stopped, finished>>
vars == <<issued, loads, stage, status, second, held, task, table, cache, uses,
          cursor, stops>>

Init ==
  /\ issued = 0
  /\ keyOf = [w \in Ids |-> NoKey] /\ stage = [w \in Ids |-> "none"]
  /\ versions = [w \in Ids |-> 0] /\ status = [w \in Ids |-> "none"]
  /\ second = [w \in Ids |-> FALSE] /\ held = [w \in Ids |-> 0]
  /\ old = [w \in Ids |-> 0] /\ task = [w \in Ids |-> "none"]
  /\ known = {} /\ generation = [k \in Keys |-> 0] /\ pending = [k \in Keys |-> 0]
  /\ cache = [k \in Keys |-> 0] /\ uses = {}
  /\ cursor = 0 /\ stopped = FALSE /\ finished = FALSE

Active == {w \in Ids : stage[w] \in {"reading", "read", "decoding", "settled"}}

PinsNothing(w) == 0

\* A load in flight keeps alive what it would replace.
Pins(w) == old[w]

\* Whether anything still refers to the cached content c.
IsHeld(c) ==
  \/ c \in uses
  \/ c # 0 /\ stage[c] = "done" /\ status[c] = "ok" /\ held[c] > 0
  \/ \E w \in Active : Pins(w) = c

Cached(k) == IF cache[k] # 0 /\ IsHeld(cache[k]) THEN cache[k] ELSE 0

\* The load a second request for the key would join.
Joined(k) == IF k \in known THEN pending[k] ELSE 0

HostRuns == cursor = 0

(***************************************************************************)
(* The game                                                                *)
(***************************************************************************)
\* The bound: numbers left.
Fresh == issued + 1 \in Ids

Generation(k) == IF k \in known THEN generation[k] ELSE 0

\* request(): join the load in flight, or answer from the cache, or read.
Join(k) ==
  /\ Joined(k) # 0 /\ held[Joined(k)] < MaxHolders
  /\ held' = [held EXCEPT ![Joined(k)] = @ + 1]
  /\ UNCHANGED <<issued, loads, stage, status, second, task, table, cache, uses,
                 cursor, stops>>

Answer(k) ==
  /\ Joined(k) = 0 /\ Cached(k) # 0
  /\ known' = known \cup {k}
  /\ uses' = uses \cup {Cached(k)}
  /\ generation' = [generation EXCEPT ![k] = Generation(k)]
  /\ UNCHANGED <<issued, loads, stage, status, second, held, task, pending, cache,
                 cursor, stops>>

\* The file service takes the read or not; the entry stays either way.
Begin(k, taken) ==
  LET w == issued + 1
  IN  /\ Joined(k) = 0 /\ Fresh
      /\ known' = known \cup {k}
      /\ IF taken
         THEN /\ issued' = w
              /\ keyOf' = [keyOf EXCEPT ![w] = k]
              /\ stage' = [stage EXCEPT ![w] = "reading"]
              /\ versions' = [versions EXCEPT ![w] = Generation(k) + 1]
              /\ old' = [old EXCEPT ![w] = Cached(k)]
              /\ held' = [held EXCEPT ![w] = 1]
              /\ generation' = [generation EXCEPT ![k] = Generation(k) + 1]
              /\ pending' = [pending EXCEPT ![k] = w]
         ELSE /\ generation' = [generation EXCEPT ![k] = Generation(k)]
              /\ UNCHANGED <<issued, keyOf, stage, versions, old, held, pending>>
      /\ UNCHANGED <<status, second, task, cache, uses, cursor, stops>>

Load(k, reload) ==
  /\ HostRuns /\ ~stopped
  /\ \/ Join(k)
     \/ ~reload /\ Answer(k)
     \/ (reload \/ Cached(k) = 0) /\ \E taken \in BOOLEAN : Begin(k, taken)

\* A store outdates every load that is in flight.
BumpedGeneration(k) == Generation(k) + 1

Store(k) ==
  LET c == issued + 1
  IN  /\ HostRuns /\ ~stopped /\ Fresh
      /\ issued' = c
      /\ keyOf' = [keyOf EXCEPT ![c] = k] /\ stage' = [stage EXCEPT ![c] = "stored"]
      /\ known' = known \cup {k}
      /\ generation' = [generation EXCEPT ![k] = BumpedGeneration(k)]
      /\ pending' = [pending EXCEPT ![k] = 0]
      /\ cache' = [cache EXCEPT ![k] = c]
      /\ uses' = uses \cup {c}
      /\ UNCHANGED <<versions, old, status, second, held, task, cursor, stops>>

\* A request object goes away, or takes its result and goes away.
Drop(w) ==
  /\ HostRuns /\ held[w] > 0
  /\ held' = [held EXCEPT ![w] = @ - 1]
  /\ uses' \in IF stage[w] = "done" /\ status[w] = "ok" THEN {uses, uses \cup {w}} ELSE {uses}
  /\ UNCHANGED <<issued, loads, stage, status, second, task, table, cache, cursor, stops>>

Release(c) ==
  /\ HostRuns /\ c \in uses
  /\ uses' = uses \ {c}
  /\ UNCHANGED <<issued, loads, stage, status, second, held, task, table, cache, cursor,
                 stops>>

Forgettable(k) == Joined(k) = 0

\* collect_unused(): expired entries go, and table entries nobody needs.
Collectable(k) == Joined(k) = 0 /\ \A w \in Active : keyOf[w] # k

CollectUnused ==
  /\ HostRuns
  /\ cache' = [k \in Keys |-> Cached(k)]
  /\ known' = {k \in known : ~Collectable(k)}
  /\ UNCHANGED <<issued, loads, stage, status, second, held, task, generation, pending,
                 uses, cursor, stops>>

(***************************************************************************)
(* Files and tasks                                                         *)
(***************************************************************************)
\* The host's dispatch brings the answer to a read.
FileAnswers(w, outcome) ==
  /\ HostRuns /\ stage[w] = "reading" /\ ~finished
  /\ stage' = [stage EXCEPT ![w] = "read"]
  /\ status' = [status EXCEPT ![w] = outcome]
  /\ UNCHANGED <<issued, loads, second, held, task, table, cache, uses, cursor, stops>>

Cancelled(w) == stopped \/ stage[w] = "dropped"

TaskBegins(w) ==
  /\ task[w] = "queued" /\ ~Cancelled(w)
  /\ task' = [task EXCEPT ![w] = "running"]
  /\ UNCHANGED <<issued, loads, stage, status, second, held, table, cache, uses, cursor,
                 stops>>

\* The outcome is written first and then published; a load that was dropped
\* meanwhile is nobody's any more.
Settle(w, outcome) ==
  /\ task' = [task EXCEPT ![w] = "over"]
  /\ IF stage[w] = "decoding"
     THEN /\ status' = [status EXCEPT ![w] = outcome]
          /\ stage' = [stage EXCEPT ![w] = "settled"]
     ELSE UNCHANGED <<status, stage>>
  /\ UNCHANGED <<issued, loads, second, held, table, cache, uses, cursor, stops>>

\* "more": a texture's description names its image.
TaskEnds(w, outcome) ==
  /\ task[w] = "running"
  /\ outcome = "more" => ~second[w]
  /\ Settle(w, outcome)

\* A queued task that is cancelled settles without having run.
TaskDiscarded(w) ==
  /\ task[w] = "queued" /\ Cancelled(w)
  /\ Settle(w, "failed")

(***************************************************************************)
(* advance()                                                               *)
(***************************************************************************)
BeginAdvance ==
  /\ HostRuns /\ ~stopped /\ issued > 0
  /\ cursor' = 1
  /\ task' = [w \in Ids |-> IF task[w] = "over" THEN "none" ELSE task[w]]
  /\ UNCHANGED <<issued, loads, stage, status, second, held, table, cache, uses, stops>>

\* The loop goes through the loads in the order they were asked for.
Step == cursor' = IF cursor = issued THEN 0 ELSE cursor + 1

Pass(w) ==
  /\ \/ w \notin Active
     \/ held[w] > 0 /\ stage[w] \in {"reading", "decoding"}
  /\ UNCHANGED <<stage, status, second, held, task, table, cache>>

Matches(w) == keyOf[w] \in known /\ generation[keyOf[w]] = versions[w]

\* Nobody observes the load: its read and its task are cancelled.
Abandon(w) ==
  /\ w \in Active /\ held[w] = 0
  /\ stage' = [stage EXCEPT ![w] = "dropped"]
  /\ pending' = IF Matches(w) THEN [pending EXCEPT ![keyOf[w]] = 0] ELSE pending
  /\ UNCHANGED <<status, second, held, task, known, generation, cache>>

Full == Cardinality({v \in Ids : task[v] # "none"}) >= Slots

ScheduleForgotten == "decoding"

\* A full executor leaves the load where it was, to be tried again.
AfterFull == "read"

Schedule(w) ==
  /\ stage[w] = "read" /\ held[w] > 0 /\ status[w] = "ok"
  /\ IF Full
     THEN /\ stage' = [stage EXCEPT ![w] = AfterFull]
          /\ UNCHANGED task
     ELSE /\ stage' = [stage EXCEPT ![w] = "decoding"]
          /\ task' = [task EXCEPT ![w] = "queued"]
  /\ UNCHANGED <<status, second, held, table, cache>>

PublishesAlways(w) == TRUE

\* Only the newest load of a key reaches the cache.
Publishes(w) == Matches(w)

\* What a load ends with reaches the cache and its observers.
Publish(w, outcome) ==
  /\ stage' = [stage EXCEPT ![w] = "done"]
  /\ status' = [status EXCEPT ![w] = outcome]
  /\ pending' = IF Matches(w) THEN [pending EXCEPT ![keyOf[w]] = 0] ELSE pending
  /\ cache' = IF Publishes(w) /\ outcome = "ok" THEN [cache EXCEPT ![keyOf[w]] = w]
              ELSE cache
  /\ UNCHANGED <<second, held, task, known, generation>>

\* There is a second file, and the file service takes that read or not.
Continue(w) ==
  /\ stage[w] = "settled" /\ held[w] > 0 /\ status[w] = "more"
  /\ \/ /\ stage' = [stage EXCEPT ![w] = "reading"]
        /\ second' = [second EXCEPT ![w] = TRUE]
        /\ UNCHANGED <<status, held, task, table, cache>>
     \/ Publish(w, "failed")

End(w) ==
  /\ held[w] > 0
  /\ \/ stage[w] = "read" /\ status[w] = "failed"
     \/ stage[w] = "settled" /\ status[w] # "more"
  /\ Publish(w, status[w])

Visit ==
  /\ ~HostRuns
  /\ \/ Pass(cursor) \/ Abandon(cursor) \/ Schedule(cursor) \/ Continue(cursor)
     \/ End(cursor)
  /\ Step
  /\ UNCHANGED <<issued, loads, uses, stops>>

(***************************************************************************)
(* Stopping                                                                *)
(***************************************************************************)
\* Nothing is published after this; observers are told at once.
RequestStop ==
  /\ HostRuns /\ ~stopped
  /\ stopped' = TRUE
  /\ UNCHANGED <<issued, loads, stage, status, second, held, task, table, cache, uses,
                 cursor, finished>>

\* idle(scope): no task of the manager is queued or runs.
Idle == \A w \in Ids : task[w] \notin {"queued", "running"}

\* advance() of a stopped manager.
FinishStop ==
  /\ HostRuns /\ stopped /\ ~finished /\ Idle
  /\ finished' = TRUE
  /\ stage' = [w \in Ids |-> IF w \in Active THEN "dropped" ELSE stage[w]]
  /\ known' = {}
  /\ pending' = [k \in Keys |-> 0]
  /\ UNCHANGED <<issued, loads, status, second, held, task, generation, cache, uses,
                 cursor, stopped>>

(***************************************************************************)
(* The manager in its host                                                 *)
(***************************************************************************)
Game ==
  \/ \E k \in Keys : Store(k) \/ \E reload \in BOOLEAN : Load(k, reload)
  \/ \E w \in Ids : Drop(w) \/ Release(w)
  \/ CollectUnused \/ RequestStop

Files == \E w \in Ids : \E outcome \in {"ok", "failed"} : FileAnswers(w, outcome)

Worker(w) ==
  \/ TaskBegins(w) \/ TaskDiscarded(w)
  \/ \E outcome \in {"ok", "more", "failed"} : TaskEnds(w, outcome)

Advance == BeginAdvance \/ Visit \/ FinishStop

Next == Game \/ Files \/ (\E w \in Ids : Worker(w)) \/ Advance

Spec == Init /\ [][Next]_vars

\* The host's loop dispatches the files and then advances the manager, again
\* and again; the executor runs every task it has taken.
Fairness ==
  /\ SF_vars(BeginAdvance) /\ WF_vars(Visit) /\ WF_vars(FinishStop)
  /\ \A w \in Ids :
       /\ SF_vars(\E outcome \in {"ok", "failed"} : FileAnswers(w, outcome))
       /\ WF_vars(Worker(w))

FairSpec == Spec /\ Fairness

(***************************************************************************)
(* Properties                                                              *)
(***************************************************************************)
\* Whether the observers of w have been told how it ended.
ToldEnd(w) == stage[w] = "done" \/ stopped

\* The types, and the table: every load in flight has its entry, or at() would
\* throw, of its own generation or a later one; and only the newest is joined.
TypeOK ==
  /\ issued \in 0 .. MaxIssued /\ cursor \in 0 .. issued
  /\ keyOf \in [Ids -> Keys \cup {NoKey}]
  /\ stage \in [Ids -> {"none", "reading", "read", "decoding", "settled", "done",
                        "dropped", "stored"}]
  /\ versions \in [Ids -> Nat] /\ second \in [Ids -> BOOLEAN]
  /\ status \in [Ids -> {"none", "ok", "more", "failed"}]
  /\ held \in [Ids -> 0 .. MaxHolders] /\ old \in [Ids -> 0 .. MaxIssued]
  /\ task \in [Ids -> {"none", "queued", "running", "over"}]
  /\ known \subseteq Keys /\ generation \in [Keys -> Nat]
  /\ pending \in [Keys -> 0 .. MaxIssued] /\ cache \in [Keys -> 0 .. MaxIssued]
  /\ uses \subseteq Ids /\ stopped \in BOOLEAN /\ finished \in BOOLEAN

TableServes ==
  /\ \A w \in Active : keyOf[w] \in known /\ versions[w] <= generation[keyOf[w]]
  /\ \A k \in known : pending[k] # 0 => pending[k] \in Active /\ Matches(pending[k])

\* What reaches the cache is newer than everything that was stored or loaded
\* for its key before: an old load that ends late changes nothing.
NewestStays ==
  [][\A k \in Keys :
       cache'[k] \notin {0, cache[k]} =>
         \A v \in Ids : keyOf'[v] = k /\ (stage'[v] = "stored" \/
                                           (stage'[v] = "done" /\ status'[v] = "ok"))
                        => v <= cache'[k]]_vars

\* As long as a reload is in flight the content it would replace stays in the
\* cache, though nobody else refers to it: a reload that fails loses nothing.
OldStays ==
  \A w \in Active : old[w] # 0 /\ Matches(w) => Cached(keyOf[w]) = old[w]

\* Once the manager has let go of everything no decode of its own is left.
StoppedIsQuiet == finished => \A w \in Ids : task[w] \notin {"queued", "running"}

\* Every request is told how it ended or is given up, and a stop ends.
EveryLoadEnds ==
  /\ \A w \in Ids : stage[w] = "reading" ~> ToldEnd(w) \/ stage[w] = "dropped"
  /\ stopped ~> finished
=============================================================================
