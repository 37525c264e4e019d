---------------------------- MODULE ResourceService ----------------------------
(***************************************************************************)
(* The resource service (resource_service.cpp, resource_service_loading.cpp*)
(* and detail/resource_service_impl.hpp) with the render service's         *)
(* resource tables (render_service_resources.cpp, rid_table.hpp) and the   *)
(* queue of resources nobody refers to (resource_retirement_queue.hpp).    *)
(*                                                                         *)
(* A resource is an object that owns a handle: a slot of its kind's table  *)
(* and the slot's generation when it was taken.  References to it are      *)
(* counted; the last one may go on any thread and only queues the object,  *)
(* and the owner's thread destroys it when it drains the queue.  That an   *)
(* object is queued is therefore not a variable: it is in the tables and   *)
(* nothing refers to it.                                                   *)
(*                                                                         *)
(* The five texture slots of a material are one here, a mesh behaves as a  *)
(* texture, and contents are numbered by the load that brought them.       *)
(***************************************************************************)
EXTENDS Naturals, FiniteSets, FiniteSetsExt

CONSTANTS
  Textures, Materials,   \* uris
  Needs,                 \* the texture a material names, or NoUri
  NoUri,                 \* of a resource the program has made itself
  MaxMade,               \* bound: objects
  MaxAsked,              \* bound: loads
  MaxHolders,            \* bound: request objects that share one load
  Slots,                 \* slots a table may grow to: slot_mask
  MaxGeneration          \* 65535 in the code

ASSUME ResourceAssumption ==
  /\ MaxMade \in Nat \ {0} /\ MaxAsked \in Nat \ {0} /\ MaxHolders \in Nat \ {0}
  /\ Slots \in Nat \ {0} /\ MaxGeneration \in Nat \ {0}
  /\ Textures \cap Materials = {} /\ NoUri \notin Textures \cup Materials
  /\ Needs \in [Materials -> Textures \cup {NoUri}]

Kinds == {"texture", "material"}
Uris == Textures \cup Materials
Objects == 1 .. MaxMade
Loads == 1 .. MaxAsked
KindOf(u) == IF u \in Textures THEN "texture" ELSE "material"

VARIABLES
  made,        \* objects made so far
  kind, slot, gen,   \* of an object: its table and its handle
  content,     \* the load whose content it has; 0 while it is reserved
  deps,        \* the texture a material holds a reference to, or 0
  owned,       \* objects in the service's weak tables
  generation,  \* of every slot of every table
  occupied,    \* slots that hold a value
  spent,       \* is_retired: slots whose generations are used up
  cache,       \* the object the entry of a uri leads to, or 0
  uses,        \* objects the game holds references to, on whatever thread
  asked,       \* loads so far
  target, status, held,   \* of a load: its object, what it says, its requests
  cpu,         \* its request to the asset manager
  dep,         \* of a material's load: the load of its texture, or 0
  pending,     \* loads in the service's list
  cursor, last,  \* advance(): the load looked at, and those there at its start
  stopping,    \* render_stopping_
  closed       \* closed_

objects == <<made, kind, slot, gen>>
tables == <<owned, generation, occupied, spent>>
loads == <<asked, target, status, held, cpu, dep, pending>>
walk == <<cursor, last>>
stops == <<stopping, closed>>
vars == <<objects, content, deps, tables, cache, uses, loads, walk, stops>>

Init ==
  /\ made = 0 /\ kind = [o \in Objects |-> "texture"]
  /\ slot = [o \in Objects |-> 0] /\ gen = [o \in Objects |-> 0]
  /\ content = [o \in Objects |-> 0] /\ deps = [o \in Objects |-> 0] /\ owned = {}
  /\ generation = [k \in Kinds |-> [i \in 1 .. Slots |-> 1]]
  /\ occupied = [k \in Kinds |-> {}] /\ spent = [k \in Kinds |-> {}]
  /\ cache = [u \in Uris |-> 0] /\ uses = {}
  /\ asked = 0 /\ target = [w \in Loads |-> 0] /\ status = [w \in Loads |-> "none"]
  /\ held = [w \in Loads |-> 0] /\ cpu = [w \in Loads |-> "none"]
  /\ dep = [w \in Loads |-> 0] /\ pending = {}
  /\ cursor = 0 /\ last = 0 /\ stopping = FALSE /\ closed = FALSE

(***************************************************************************)
(* References                                                              *)
(***************************************************************************)
\* use_count() > 1: somebody other than the list waits for the load.
Observed(w) == held[w] > 0 \/ \E m \in pending : dep[m] = w

IsHeldBesides(o, gone) ==
  \/ o \in uses
  \/ \E w \in Loads : target[w] = o /\ (w \in pending \/ Observed(w))
  \/ \E m \in owned \ gone : deps[m] = o

IsHeld(o) == IsHeldBesides(o, {})

\* lock() of the cache's weak entry.
Current(u) == IF cache[u] # 0 /\ IsHeld(cache[u]) THEN cache[u] ELSE 0

\* What one drain destroys: a material that goes lets go of its texture.
Dead ==
  LET first == {o \in owned : ~IsHeld(o)}
  IN  first \cup {o \in owned : ~IsHeldBesides(o, first)}

(***************************************************************************)
(* The tables of handles                                                   *)
(***************************************************************************)
FreeSlots(k) == (1 .. Slots) \ (occupied[k] \cup spent[k])

\* status(handle) # invalid_handle
IsValid(o) == slot[o] \in occupied[kind[o]] /\ generation[kind[o]][slot[o]] = gen[o]

SlotsOf(k, gone) == {slot[o] : o \in {x \in gone : kind[x] = k /\ IsValid(x)}}

KeepGenerations(gone) ==
  /\ occupied' = [k \in Kinds |-> occupied[k] \ SlotsOf(k, gone)]
  /\ UNCHANGED <<generation, spent>>

Destroy(gone) ==
  /\ occupied' = [k \in Kinds |-> occupied[k] \ SlotsOf(k, gone)]
  /\ spent' = [k \in Kinds |->
       spent[k] \cup {i \in SlotsOf(k, gone) : generation[k][i] = MaxGeneration}]
  /\ generation' = [k \in Kinds |-> [i \in 1 .. Slots |->
       IF i \in SlotsOf(k, gone) /\ generation[k][i] # MaxGeneration
       THEN generation[k][i] + 1 ELSE generation[k][i]]]

\* create(): the handle, the table's entry, the owner.
Make(k, value, texture) ==
  LET o == made + 1
      i == Min(FreeSlots(k))
  IN  /\ ~closed /\ o \in Objects /\ FreeSlots(k) # {}
      /\ made' = o
      /\ kind' = [kind EXCEPT ![o] = k]
      /\ slot' = [slot EXCEPT ![o] = i]
      /\ gen' = [gen EXCEPT ![o] = generation[k][i]]
      /\ content' = [content EXCEPT ![o] = value]
      /\ deps' = [deps EXCEPT ![o] = texture]
      /\ owned' = owned \cup {o}
      /\ occupied' = [occupied EXCEPT ![k] = @ \cup {i}]
      /\ UNCHANGED <<generation, spent>>

HostRuns == cursor = 0

\* A content that no load brought.
Own == MaxAsked + 1

\* create_texture() and create_material(): only with a texture that is current.
Create(k, texture) ==
  /\ HostRuns /\ ~stopping
  /\ texture # 0 => k = "material" /\ texture \in uses /\ kind[texture] = "texture" /\ IsValid(texture)
  /\ Make(k, Own, texture)
  /\ uses' = uses \cup {made'}
  /\ UNCHANGED <<cache, loads, walk, stops>>

\* The owner cannot be allocated: the handle is destroyed again.
CreateFails(k) ==
  /\ HostRuns /\ ~stopping /\ ~closed /\ FreeSlots(k) # {}
  /\ LET i == Min(FreeSlots(k))
     IN  IF generation[k][i] = MaxGeneration
         THEN spent' = [spent EXCEPT ![k] = @ \cup {i}] /\ UNCHANGED generation
         ELSE generation' = [generation EXCEPT ![k][i] = @ + 1] /\ UNCHANGED spent
  /\ UNCHANGED <<objects, content, deps, owned, occupied, cache, uses, loads, walk, stops>>

\* A reference goes, on any thread; it may be the last.
Release(o) ==
  /\ o \in uses
  /\ uses' = uses \ {o}
  /\ UNCHANGED <<objects, content, deps, tables, cache, loads, walk, stops>>

DestroyAll(gone) == Destroy(gone) /\ owned' = owned \ gone

\* drain(): destroys what is queued and forgets handles that are not valid.
Drain == DestroyAll(Dead)

\* collect_unused(): drains until nothing is left to drain.
CollectUnused ==
  /\ HostRuns /\ ~closed
  /\ cache' = [u \in Uris |-> Current(u)]
  /\ Drain
  /\ UNCHANGED <<objects, content, deps, uses, loads, walk, stops>>

(***************************************************************************)
(* Loading                                                                 *)
(***************************************************************************)
\* who = 0: the game's request; otherwise a material's load asks for its texture.
Observe(w, who) ==
  IF who = 0
  THEN held' = [held EXCEPT ![w] = @ + 1] /\ UNCHANGED dep
  ELSE dep' = [dep EXCEPT ![who] = w] /\ UNCHANGED held

\* reserve_resource(): the object that is cached for the uri, or a new one.
Reserve(u, o) ==
  \/ o = Current(u) /\ o # 0 /\ IsValid(o)
     /\ UNCHANGED <<objects, content, deps, tables, cache>>
  \/ Current(u) = 0 /\ o = made + 1 /\ Make(KindOf(u), 0, 0)
     /\ cache' = [cache EXCEPT ![u] = o]

\* find(): it has a content, and a material's texture has one too.
IsReady(o) ==
  /\ o \in owned /\ content[o] # 0
  /\ deps[o] # 0 => content[deps[o]] # 0

InFlightNever(o) == {}

\* The one load of an object that a further request joins.
InFlight(o) == {w \in pending : target[w] = o /\ Observed(w) /\ status[w] = "waiting"}

Begin(o, who, says, list) ==
  LET w == asked + 1
  IN  /\ w \in Loads
      /\ asked' = w
      /\ target' = [target EXCEPT ![w] = o]
      /\ status' = [status EXCEPT ![w] = says]
      /\ cpu' = [cpu EXCEPT ![w] = IF says = "waiting" THEN "reading" ELSE "none"]
      /\ Observe(w, who)
      /\ pending' = pending \cup (IF list THEN {w} ELSE {})

Load(u, reload, who) ==
  \E o \in Objects :
    /\ Reserve(u, o)
    /\ IF InFlight(o) # {}
       THEN /\ \E w \in InFlight(o) :
                 /\ who = 0 => held[w] < MaxHolders
                 /\ Observe(w, who)
            /\ UNCHANGED <<asked, target, status, cpu, pending>>
       ELSE IF ~reload /\ IsReady(o)
       THEN Begin(o, who, "ok", FALSE)
       ELSE Begin(o, who, "waiting", TRUE)

\* No object can be made, or the asset manager does not take the read: what was
\* reserved then goes at once into the queue.
LoadRefused(u) ==
  \/ Current(u) = 0 /\ UNCHANGED <<objects, content, deps, tables, cache>>
  \/ \E o \in Objects : Reserve(u, o) /\ InFlight(o) = {}

GameLoads(u, reload) ==
  /\ HostRuns /\ ~stopping
  /\ \/ Load(u, reload, 0)
     \/ LoadRefused(u) /\ UNCHANGED loads
  /\ UNCHANGED <<uses, walk, stops>>

\* The game keeps what its request has brought, or only drops the request.
Drop(w) ==
  /\ HostRuns /\ held[w] > 0
  /\ held' = [held EXCEPT ![w] = @ - 1]
  /\ uses' \in {uses} \cup (IF status[w] = "ok" THEN {uses \cup {target[w]}} ELSE {})
  /\ UNCHANGED <<objects, content, deps, tables, cache, asked, target, status, cpu, dep,
                 pending, walk, stops>>

\* The asset manager ends a read; between two calls of advance().
Answer(w, outcome) ==
  /\ HostRuns /\ cpu[w] = "reading" /\ w \in pending
  /\ cpu' = [cpu EXCEPT ![w] = outcome]
  /\ UNCHANGED <<objects, content, deps, tables, cache, uses, asked, target, status, held,
                 dep, pending, walk, stops>>

BeginAdvance ==
  /\ HostRuns /\ ~closed /\ pending # {}
  /\ Drain
  /\ cursor' = 1 /\ last' = asked
  /\ UNCHANGED <<objects, content, deps, cache, uses, loads, stops>>

Ends(w, says) == status' = [status EXCEPT ![w] = says]

Pass(w) ==
  /\ \/ w \notin pending \/ ~Observed(w) \/ status[w] # "waiting"
     \/ cpu[w] = "reading"
     \/ cpu[w] = "described" /\ dep[w] # 0 /\ status[dep[w]] = "waiting"
  /\ UNCHANGED <<objects, content, deps, tables, cache, loads>>

Takes(w) == w \in pending /\ Observed(w) /\ status[w] = "waiting"

TextureOf(w) == CHOOSE u \in Uris : cache[u] = target[w]

\* adopt(): the render service may have no room left for the content.
Adopt(w, texture) ==
  \/ /\ Ends(w, "failed")
     /\ UNCHANGED <<content, deps>>
  \/ /\ IsValid(target[w])
     /\ Ends(w, "ok")
     /\ content' = [content EXCEPT ![target[w]] = w]
     /\ deps' = [deps EXCEPT ![target[w]] = texture]

TakeContent(w) ==
  /\ Takes(w) /\ cpu[w] \in {"ok", "failed"}
  /\ IF cpu[w] = "failed"
     THEN /\ Ends(w, "failed")
          /\ UNCHANGED <<content, deps, cpu>>
     ELSE IF kind[target[w]] = "texture"
     THEN Adopt(w, 0) /\ UNCHANGED cpu
     ELSE /\ cpu' = [cpu EXCEPT ![w] = "described"]
          /\ UNCHANGED <<status, content, deps>>
  /\ UNCHANGED <<objects, tables, cache, asked, target, held, dep, pending>>

\* The description's texture is loaded, and its load may be there already.
AskTexture(w) ==
  LET u == Needs[TextureOf(w)]
  IN  /\ Takes(w) /\ cpu[w] = "described" /\ u # NoUri /\ dep[w] = 0
      /\ \/ Load(u, FALSE, w)
         \/ LoadRefused(u) /\ Ends(w, "failed")
            /\ UNCHANGED <<asked, target, held, cpu, dep, pending>>

TextureFailed(w) ==
  /\ Takes(w) /\ cpu[w] = "described" /\ dep[w] # 0 /\ status[dep[w]] = "failed"
  /\ Ends(w, "failed")
  /\ UNCHANGED <<objects, content, deps, tables, cache, asked, target, held, cpu, dep, pending>>

DependencyAsked(w) == Needs[TextureOf(w)] # NoUri => dep[w] # 0

DependencyReady(w) ==
  IF Needs[TextureOf(w)] = NoUri THEN dep[w] = 0
  ELSE dep[w] # 0 /\ status[dep[w]] = "ok"

AdoptMaterial(w) ==
  /\ Takes(w) /\ cpu[w] = "described" /\ DependencyReady(w)
  /\ Adopt(w, IF dep[w] = 0 THEN 0 ELSE target[dep[w]])
  /\ UNCHANGED <<objects, tables, cache, asked, target, held, cpu, dep, pending>>

\* One load of the list; after a texture is asked for the same load goes on.
Visit(w) ==
  \/ /\ Pass(w) \/ TextureFailed(w) \/ AdoptMaterial(w)
     /\ cursor' = w + 1
  \/ /\ TakeContent(w)
     /\ cursor' = IF cpu'[w] = "described" THEN w ELSE w + 1
  \/ AskTexture(w) /\ cursor' = w

Walk ==
  /\ cursor \in 1 .. last
  /\ Visit(cursor)
  /\ UNCHANGED <<uses, last, stops>>

RemainingReads == {w \in pending : Observed(w) /\ cpu[w] = "reading"}

\* What has ended, and what nobody waits for, leaves the list.
Remaining == {w \in pending : Observed(w) /\ status[w] = "waiting"}

EndAdvance ==
  /\ cursor > last /\ cursor > 0
  /\ cursor' = 0 /\ last' = 0
  /\ pending' = Remaining
  /\ dep' = [w \in Loads |-> IF w \in Remaining THEN dep[w] ELSE 0]
  /\ UNCHANGED <<objects, content, deps, tables, cache, uses, asked, target, status, held,
                 cpu, stops>>

(***************************************************************************)
(* Stopping                                                                *)
(***************************************************************************)
StopLoading ==
  /\ status' = [w \in Loads |-> IF w \in pending THEN "stopped" ELSE status[w]]
  /\ pending' = {}
  /\ dep' = [w \in Loads |-> 0]

RequestStop ==
  /\ HostRuns /\ ~stopping
  /\ stopping' = TRUE
  /\ StopLoading
  /\ UNCHANGED <<objects, content, deps, tables, cache, uses, asked, target, held, cpu, walk,
                 closed>>

\* stop(), after request_stop(): close() takes the handles of what is left as well.
Stop ==
  /\ HostRuns /\ stopping /\ ~closed
  /\ closed' = TRUE
  /\ DestroyAll(owned)
  /\ cache' = [u \in Uris |-> Current(u)]
  /\ UNCHANGED <<objects, content, deps, uses, loads, walk, stopping>>

Game ==
  \/ \E u \in Uris, reload \in BOOLEAN : GameLoads(u, reload)
  \/ \E w \in Loads : Drop(w)
  \/ \E k \in Kinds : CreateFails(k) \/ \E t \in uses \cup {0} : Create(k, t)
  \/ \E o \in uses : Release(o)
  \/ CollectUnused \/ RequestStop \/ Stop

Assets == \E w \in Loads, outcome \in {"ok", "failed"} : Answer(w, outcome)

Advance == BeginAdvance \/ Walk \/ EndAdvance

Next == Game \/ Assets \/ Advance

Spec == Init /\ [][Next]_vars

\* The host advances the service in every frame, and the asset manager ends
\* every read it has taken.
Fairness ==
  /\ SF_vars(BeginAdvance) /\ WF_vars(Walk) /\ WF_vars(EndAdvance)
  /\ \A w \in Loads : SF_vars(\E outcome \in {"ok", "failed"} : Answer(w, outcome))

FairSpec == Spec /\ Fairness

(***************************************************************************)
(* Properties                                                              *)
(***************************************************************************)
TypeOK ==
  /\ made \in 0 .. MaxMade /\ kind \in [Objects -> Kinds]
  /\ slot \in [Objects -> 0 .. Slots] /\ gen \in [Objects -> 0 .. MaxGeneration]
  /\ content \in [Objects -> 0 .. MaxAsked + 1] /\ deps \in [Objects -> 0 .. MaxMade]
  /\ owned \subseteq 1 .. made
  /\ generation \in [Kinds -> [1 .. Slots -> 1 .. MaxGeneration]]
  /\ occupied \in [Kinds -> SUBSET (1 .. Slots)] /\ spent \in [Kinds -> SUBSET (1 .. Slots)]
  /\ cache \in [Uris -> 0 .. MaxMade] /\ uses \subseteq 1 .. made
  /\ asked \in 0 .. MaxAsked /\ target \in [Loads -> 0 .. MaxMade]
  /\ status \in [Loads -> {"none", "waiting", "ok", "failed", "stopped"}]
  /\ held \in [Loads -> 0 .. MaxHolders] /\ dep \in [Loads -> 0 .. MaxAsked]
  /\ cpu \in [Loads -> {"none", "reading", "ok", "failed", "described"}]
  /\ pending \subseteq 1 .. asked /\ cursor \in 0 .. MaxAsked + 1 /\ last \in 0 .. asked
  /\ stopping \in BOOLEAN /\ closed \in BOOLEAN

\* A handle that has been given back never denotes anything again, however its
\* slot is reused; the handle of an object that is still there does, and no slot
\* is taken by anything else.
HandlesAreHonest ==
  /\ TypeOK
  /\ \A o \in 1 .. made : IsValid(o) <=> o \in owned
  /\ \A k \in Kinds : occupied[k] = {slot[o] : o \in {x \in owned : kind[x] = k}}
  /\ \A o, p \in owned : o # p => kind[o] # kind[p] \/ slot[o] # slot[p]

\* A request that has ended well leads to a resource that can be drawn at once:
\* it has its content, and so has the texture of a material, which the material
\* keeps from being destroyed.
ReadyIsComplete ==
  ~closed =>
    /\ \A w \in Loads : status[w] = "ok" /\ Observed(w) => IsReady(target[w])
    /\ \A m \in owned : deps[m] # 0 => deps[m] \in owned /\ content[deps[m]] # 0

\* What a later load has brought is never overwritten by an earlier one: there
\* is one load of a resource at a time, as long as somebody waits for it.
NewestContent ==
  [][\A o \in Objects : content[o] \in Loads => content'[o] >= content[o]]_vars

\* Every request is answered as long as it is observed.
EveryRequestEnds ==
  \A w \in Loads : status[w] = "waiting" ~> status[w] # "waiting" \/ ~Observed(w)
=============================================================================
