----------------------------- MODULE SceneStructure -----------------------------
(***************************************************************************)
(* One scene and the tree its nodes live in: scene_tree.cpp (parent and    *)
(* child links, two copies of one relation), scene_instance.cpp (the       *)
(* members of a scene, edits, subtree snapshots and the reload that        *)
(* changes the scene in place), scene_instance_prefab.cpp (placing and     *)
(* refreshing a Prefab) and structural_diff.cpp.                           *)
(*                                                                         *)
(* A node id is never used again while anybody could hold it: it is the    *)
(* identity it was made for with the least free generation.  A node's      *)
(* name, transform and components are one value of Fields.  A Prefab has   *)
(* one inner node under its root.                                          *)
(***************************************************************************)
EXTENDS Naturals, Sequences, FiniteSets, SequencesExt

CONSTANTS
  Uuids,        \* object UUIDs, ordered as guid is
  Prefabs,      \* those that are Prefab instances
  Fields,       \* names, transforms and components of an object
  First,        \* the ones a new object has
  Edited,       \* bound: objects whose fields change
  NoNode,       \* null_scene_node_id, and no parent
  Generations   \* bound: node ids made for one object

Ids == Uuids \X {"root", "inner"} \X Generations

ASSUME TreeAssumption ==
  /\ Uuids \subseteq Nat /\ IsFiniteSet(Uuids) /\ Prefabs \subseteq Uuids
  /\ Generations \subseteq Nat /\ First \in Fields /\ NoNode \notin Uuids \cup Ids

VARIABLES
  playing,    \* in a running game, whose code moves nodes and whose scene file is
              \* reloaded; otherwise in the editor
  tree,       \* scene_tree: the live nodes, with parent, children, uuid and fields
  authored,   \* objects_ that are persistent
  inner,      \* objects_ that are not: the inner nodes of Prefabs
  bindings,   \* prefab_instances_: roots and their inner nodes
  snapshot,   \* what the last deletion captured, for undo (rest, what it left, is history)
  crossed,    \* a node was given the parent it had (history variable)
  report      \* the last call, if it is one a property is about (history variable)

treeVars == <<playing, tree, authored, inner, bindings, snapshot, crossed, report>>

NoReport == [call |-> "other", ok |-> TRUE, of |-> NoNode, want |-> <<>>]
NoSnapshot == [root |-> NoNode]

TreeInit ==
  /\ playing \in BOOLEAN
  /\ tree = <<>> /\ authored = {} /\ inner = {} /\ bindings = {}
  /\ snapshot = NoSnapshot /\ crossed = FALSE /\ report = NoReport

(***************************************************************************)
(* scene_tree                                                              *)
(***************************************************************************)
Live(t) == DOMAIN t
UuidOf(id) == id[1]
ParentOf(t, n) == IF n \in Live(t) THEN t[n].parent ELSE NoNode

\* The nodes a walk along the parents meets, from n; the last may be dead.
Up(t, n) ==
  LET at[k \in 0 .. Cardinality(Live(t))] == IF k = 0 THEN n ELSE LET m == at[k - 1] IN ParentOf(t, m)
  IN {at[k] : k \in DOMAIN at} \ {NoNode}

\* The nodes a walk along the children meets, from n.
Under(t, n) ==
  LET at[k \in 0 .. Cardinality(Live(t))] ==
        IF k = 0 THEN {n}
        ELSE LET met == at[k - 1] IN met \cup UNION {t[m].children : m \in met}
  IN at[Cardinality(Live(t))]

\* remove_child()
WithoutChild(t, p, n) == IF p \in Live(t) THEN [t EXCEPT ![p].children = @ \ {n}] ELSE t

\* As if only a node's own children were looked at.
CanMoveBesideItself(t, n, p) ==
  n \in Live(t) /\ p \in Live(t) \cup {NoNode} /\ n # p /\ p \notin t[n].children

\* reparent(): not under itself or a node under it.
CanMove(t, n, p) ==
  n \in Live(t) /\ p \in Live(t) \cup {NoNode} /\ n \notin Up(t, p)

\* It is put in one list of children and then taken out of the other, which may be the same.
Moved(t, n, p) ==
  LET added == IF p = NoNode THEN t ELSE [t EXCEPT ![p].children = @ \cup {n}]
  IN [WithoutChild(added, t[n].parent, n) EXCEPT ![n].parent = p]

Move(t, n, p) == IF CanMove(t, n, p) THEN Moved(t, n, p) ELSE t
Crosses(t, n, p) == CanMove(t, n, p) /\ p # NoNode /\ t[n].parent = p

\* create() with an identity.
Created(t, n, p, f) ==
  LET new == [parent |-> p, children |-> {}, fields |-> f]
      linked == IF p = NoNode THEN t ELSE [t EXCEPT ![p].children = @ \cup {n}]
  IN [m \in Live(t) \cup {n} |-> IF m = n THEN new ELSE linked[m]]

\* object_destroy(): what its list of children reaches goes with it.
Destroyed(t, n) ==
  IF n \notin Live(t) THEN t
  ELSE LET rest == WithoutChild(t, t[n].parent, n)
       IN [m \in Live(t) \ Under(t, n) |-> rest[m]]

(***************************************************************************)
(* Members and descriptions                                                *)
(***************************************************************************)
Members == authored \cup inner
Taken == Live(tree) \cup {tree[n].parent : n \in Live(tree)} \cup Members
Free(u, part) == {g \in Generations : <<u, part, g>> \notin Taken}
Fresh(u, part) == <<u, part, CHOOSE g \in Free(u, part) : \A h \in Free(u, part) : g <= h>>
Room(us) == \A u \in us : Free(u, "root") # {} /\ Free(u, "inner") # {}

\* find_node(): by identity, among the persistent members.
Present == {UuidOf(n) : n \in authored \cap Live(tree)}
Find(u) == CHOOSE n \in authored \cap Live(tree) : UuidOf(n) = u

\* capture_description(): refused when a member is gone, or hangs under a node
\* that is none.
CanCapture == \A n \in authored : n \in Live(tree) /\ tree[n].parent \in authored \cup {NoNode}
Description ==
  [u \in Present |->
     LET node == tree[Find(u)]
     IN [parent |-> IF node.parent = NoNode THEN NoNode ELSE UuidOf(node.parent), fields |-> node.fields]]

\* The ancestors of u in a description, u included: the same walk.
Above(d, u) == Up(d, u)

\* inspect_object_hierarchy() accepts forests.
Forests ==
  {d \in UNION {[us -> [parent : Uuids \cup {NoNode}, fields : Fields]] : us \in SUBSET Uuids} :
     \A u \in DOMAIN d :
       /\ d[u].parent \in DOMAIN d \cup {NoNode}
       /\ u \notin Edited => d[u].fields = First
       /\ d[u].parent # NoNode => u \notin Above(d, d[u].parent)}

(***************************************************************************)
(* Edits                                                                   *)
(***************************************************************************)
Answer(r) == report' = r /\ UNCHANGED playing
Unreported == Answer(NoReport)

\* A later command is undone before a deletion is: the deletion's snapshot only
\* matters while no other command was given (a bound).
Command == Unreported /\ snapshot' = NoSnapshot

\* create_node(), create_mesh_renderer_node() and instantiate_prefab_ready():
\* a Prefab comes with its inner node.
Plant(t, u, p, f) ==
  LET root == Fresh(u, "root")
      planted == Created(t, root, p, f)
  IN IF u \in Prefabs THEN Created(planted, Fresh(u, "inner"), root, f) ELSE planted

\* One update: the parent, if it is to be changed and can be, and the fields.
Set(t, n, moves, p, f) == [(IF moves THEN Move(t, n, p) ELSE t) EXCEPT ![n].fields = f]

\* A script is a list of such changes, made one after another.
Planting(u, p, f) == [do |-> "plant", uuid |-> u, parent |-> p, fields |-> f]
Moving(n, p) == [do |-> "move", node |-> n, parent |-> p]
Setting(n, moves, p, f) == [do |-> "set", node |-> n, moves |-> moves, parent |-> p, fields |-> f]
Destroying(n) == [do |-> "destroy", node |-> n]
Do(t, s) ==
  CASE s.do = "plant" -> Plant(t, s.uuid, s.parent, s.fields)
    [] s.do = "move" -> Move(t, s.node, s.parent)
    [] s.do = "set" -> Set(t, s.node, s.moves, s.parent, s.fields)
    [] s.do = "destroy" -> Destroyed(t, s.node)
Run(t, script) == FoldLeft(Do, t, script)

MovedAll(t, ns, p) == Run(t, [k \in 1 .. Cardinality(ns) |-> Moving(SetToSeq(ns)[k], p)])
DestroyedAll(t, ns) == Run(t, [k \in 1 .. Cardinality(ns) |-> Destroying(SetToSeq(ns)[k])])

RootsFor(us) == {Fresh(u, "root") : u \in us}
InnersFor(us) == {Fresh(u, "inner") : u \in us \cap Prefabs}
BindingsFor(us) == {[root |-> Fresh(u, "root"), inner |-> Fresh(u, "inner")] : u \in us \cap Prefabs}

\* One that fails leaves nothing behind.
Create(u, p) ==
  /\ u \notin Present /\ Room({u})
  /\ p \in (authored \cap Live(tree)) \cup {NoNode}
  /\ tree' = Plant(tree, u, p, First)
  /\ authored' = authored \cup RootsFor({u})
  /\ inner' = inner \cup InnersFor({u})
  /\ bindings' = bindings \cup BindingsFor({u})
  /\ Command /\ UNCHANGED crossed

\* set_node_name() and the edits of components.
SetFields(n, f) ==
  /\ n \in authored \cap Live(tree) /\ UuidOf(n) \in Edited /\ tree[n].fields # f
  /\ tree' = [tree EXCEPT ![n].fields = f]
  /\ Command /\ UNCHANGED <<authored, inner, bindings, crossed>>

\* reparent_node(): among authored objects; the editor does not ask for the
\* parent there is.
ReparentNode(n, p) ==
  /\ ~playing /\ n \in authored /\ p \in authored \cup {NoNode}
  /\ CanMove(tree, n, p) /\ tree[n].parent # p
  /\ tree' = Moved(tree, n, p)
  /\ Command /\ UNCHANGED <<authored, inner, bindings, crossed>>

\* world::node_reparent(), as a game calls it: any two nodes.
NodeReparent(n, p) ==
  /\ playing /\ CanMove(tree, n, p)
  /\ tree' = Moved(tree, n, p)
  /\ crossed' = (crossed \/ Crosses(tree, n, p))
  /\ Unreported /\ UNCHANGED <<authored, inner, bindings, snapshot>>

\* destroy_subtree(): the members whose parents lead to root leave the scene, and
\* the tree destroys what its children lead to.  Meeting a dead node is an error.
CanWalk(t, root) == \A n \in Members : root \in Up(t, n) \/ Up(t, n) \subseteq Live(t)
Leaving(t, root) == {n \in Members : root \in Up(t, n)}

\* As if only the children of the root were looked for.
CapturedAtOnce(root) == {UuidOf(n) : n \in {m \in authored : m = root \/ tree[m].parent = root}}

\* capture_subtree(): the root, and whatever has a parent among those included.
Captured(root) == {UuidOf(n) : n \in {m \in authored : root \in Up(tree, m)}}

\* scene_document::destroy_subtree(): captured, then destroyed.
Delete(root) ==
  /\ ~playing /\ root \in authored /\ CanCapture /\ CanWalk(tree, root)
  /\ LET gone == Leaving(tree, root)
     IN /\ snapshot' = [root |-> UuidOf(root), whole |-> Description,
                        objects |-> Captured(root),
                        rest |-> [u \in Present \ {UuidOf(n) : n \in gone \cap authored} |-> Description[u]]]
        /\ tree' = Destroyed(tree, root)
        /\ authored' = authored \ gone /\ inner' = inner \ gone
        /\ bindings' = {b \in bindings : b.root \notin gone}
  /\ Unreported /\ UNCHANGED crossed

\* A set as a list, each after those that come before it.
Sorted(us, Before(_, _)) ==
  [k \in 1 .. Cardinality(us) |-> CHOOSE u \in us : Cardinality({v \in us : Before(v, u)}) = k - 1]

\* build_structural_diff(): parents before children.
Order(d, us) ==
  LET depth(u) == Cardinality(Above(d, u))
  IN Sorted(us, LAMBDA v, u : depth(v) < depth(u) \/ (depth(v) = depth(u) /\ v < u))

\* The objects us of d, each under its parent, which is among them or is there.
NodeFor(us, u) == IF u = NoNode THEN NoNode ELSE IF u \in us THEN Fresh(u, "root") ELSE Find(u)
Grown(t, d, us) ==
  LET order == Order(d, us)
  IN Run(t, [k \in DOMAIN order |->
               LET u == order[k] IN Planting(u, NodeFor(us, d[u].parent), d[u].fields)])

\* restore_subtree(): all made apart from the scene, and then put under the
\* parent, which must be there; none of them may be.  One that fails clears away
\* what it made.
Restore ==
  /\ ~playing /\ snapshot # NoSnapshot
  /\ snapshot.objects \cap Present = {} /\ Room(snapshot.objects)
  /\ LET root == snapshot.root
         parent == snapshot.whole[root].parent
         apart == [snapshot.whole EXCEPT ![root].parent = NoNode]
         us == snapshot.objects
     IN /\ parent # NoNode => parent \in Present
        /\ tree' = Move(Grown(tree, apart, us), Fresh(root, "root"),
                        IF parent = NoNode THEN NoNode ELSE Find(parent))
        /\ authored' = authored \cup RootsFor(us) /\ inner' = inner \cup InnersFor(us)
        /\ bindings' = bindings \cup BindingsFor(us)
  /\ Answer([NoReport EXCEPT !.call = "restore"])
  /\ UNCHANGED <<snapshot, crossed>>

(***************************************************************************)
(* Refreshing a Prefab                                                     *)
(***************************************************************************)
\* As if what hangs under the root was part of the template.
AttachedInner(root) == {n \in inner : tree[n].parent = root}

Attached(root) == {n \in authored : tree[n].parent = root}

\* instantiate_prefab_ready(), replacing: the authored children of the root are
\* put under its parent, the instance is destroyed, a new one is made and they
\* are put under its root.  What fails after that is not undone.
Refresh(b, ok) ==
  LET u == UuidOf(b.root)
      above == tree[b.root].parent
      attached == Attached(b.root)
      away == MovedAll(tree, attached, above)
      gone == Leaving(away, b.root)
      cleared == Destroyed(away, b.root)
      planted == Plant(cleared, u, above, tree[b.root].fields)
  IN /\ ~playing /\ CanCapture /\ CanWalk(away, b.root) /\ Room({u})
     /\ IF ok
        THEN /\ tree' = MovedAll(planted, attached, Fresh(u, "root"))
             /\ authored' = (authored \ gone) \cup RootsFor({u})
             /\ inner' = (inner \ gone) \cup InnersFor({u})
             /\ bindings' = {o \in bindings : o.root \notin gone} \cup BindingsFor({u})
        ELSE /\ tree' = cleared
             /\ authored' = authored \ gone /\ inner' = inner \ gone
             /\ bindings' = {o \in bindings : o.root \notin gone}
     /\ Answer([NoReport EXCEPT !.call = "refresh", !.of = u, !.ok = ok])
     /\ UNCHANGED <<snapshot, crossed>>

(***************************************************************************)
(* Reloading the scene in place                                            *)
(***************************************************************************)
\* equal_prefab_references()
SamePrefabs(old, c) ==
  /\ DOMAIN c \cap Prefabs = DOMAIN old \cap Prefabs
  /\ \A u \in DOMAIN c \cap Prefabs : c[u] = old[u]

Added(c) == DOMAIN c \ Present
Dropped(c) == Present \ DOMAIN c
Updated(old, c) == {u \in DOMAIN old \cap DOMAIN c : old[u] # c[u]}
NodeIn(c, u) == NodeFor(Added(c), u)
ParentChanges(c, u) == tree[Find(u)].parent # NodeIn(c, c[u].parent)
Stuck(t, c, u) == ParentChanges(c, u) /\ ~CanMove(t, Find(u), NodeIn(c, c[u].parent))

\* One update, and its undoing: the parent is set again whether or not it was changed.
Update(c, u) == Setting(Find(u), ParentChanges(c, u), NodeIn(c, c[u].parent), c[u].fields)
Undo(c, u) == Setting(Find(u), ParentChanges(c, u), tree[Find(u)].parent, tree[Find(u)].fields)

\* rollback_updates()
Undone(t, c, us) == Run(t, [k \in DOMAIN us |-> Undo(c, us[Len(us) + 1 - k])])

\* As if the additions stayed.
RolledBackUpdates(t, c, us) == Undone(t, c, us)

\* rollback_updates() and rollback_additions()
RolledBack(t, c, us) == DestroyedAll(Undone(t, c, us), RootsFor(Added(c)))

\* reload(): additions, updates in the order of the UUIDs, and then removals.  An
\* update that cannot be made, or whose components fail, takes all back.
Reload(c) ==
  /\ playing /\ CanCapture /\ Room(Added(c))
  /\ LET old == Description
         order == Sorted(Updated(old, c), <)
         grown == Grown(tree, c, Added(c))
         after(k) == Run(grown, [j \in 1 .. k |-> Update(c, order[j])])
         stuck == {k \in DOMAIN order : Stuck(after(k - 1), c, order[k])}
         undone(k) == RolledBack(after(k), c, [j \in 1 .. k |-> order[j]])
         failed == [NoReport EXCEPT !.call = "reload", !.ok = FALSE]
     IN /\ SamePrefabs(old, c)
        /\ \/ /\ stuck = {}
              /\ tree' = DestroyedAll(after(Len(order)), {Find(u) : u \in Dropped(c)})
              /\ authored' = {NodeIn(c, u) : u \in DOMAIN c}
              /\ Answer([NoReport EXCEPT !.call = "reload", !.want = c])
              /\ UNCHANGED <<inner, crossed>>
           \/ \E k \in stuck :
                /\ \A j \in stuck : k <= j
                /\ tree' = undone(k) /\ Answer(failed)
                /\ UNCHANGED <<authored, inner>>
                /\ crossed' = (crossed \/ tree[Find(order[k])].parent # NoNode)
           \/ \E k \in DOMAIN order :
                /\ \A j \in stuck : k < j
                /\ old[order[k]].fields # c[order[k]].fields
                /\ tree' = undone(k) /\ Answer(failed)
                /\ UNCHANGED <<authored, inner, crossed>>
  /\ UNCHANGED <<bindings, snapshot>>

TreeNext ==
  \/ \E u \in Uuids, p \in authored \cup {NoNode} : Create(u, p)
  \/ \E n \in authored, f \in Fields : SetFields(n, f)
  \/ \E n \in authored, p \in authored \cup {NoNode} : ReparentNode(n, p)
  \/ \E n \in Live(tree), p \in Live(tree) \cup {NoNode} : NodeReparent(n, p)
  \/ \E n \in authored : Delete(n)
  \/ Restore
  \/ \E b \in bindings, ok \in BOOLEAN : Refresh(b, ok)
  \/ \E c \in Forests : Reload(c)

\* Once crossed nothing below is claimed (a bound of the runs).
NotCrossed == ~crossed

TreeSpec == TreeInit /\ [][TreeNext]_treeVars

(***************************************************************************)
(* Properties                                                              *)
(***************************************************************************)
\* The two copies of the hierarchy agree, it is a forest, and every authored
\* member is in it.  The links are changed by moves, undone moves, additions and
\* deletions, each keeping only its own end of them.
Sound(t) ==
  /\ \A n \in Live(t) : t[n].parent = NoNode \/ (t[n].parent \in Live(t) /\ n \in t[t[n].parent].children)
  /\ \A n \in Live(t) : \A m \in t[n].children : m \in Live(t) /\ t[m].parent = n
  /\ \A n \in Live(t) : n \notin Up(t, t[n].parent)
TreeTypeOK ==
  /\ Live(tree) \cup Members \subseteq Ids
  /\ \A n \in Live(tree) : tree[n].fields \in Fields
TreeIsSound == TreeTypeOK /\ (crossed \/ (Sound(tree) /\ authored \subseteq Live(tree)))

\* A reload makes the scene what the file says, with the node of every object
\* that stays, or leaves it as it was.
ReloadIsAtomic ==
  [][report'.call = "reload" /\ ~crossed' =>
       IF report'.ok
       THEN /\ Description' = report'.want
            /\ \A u \in Present \cap DOMAIN report'.want : Find(u) = Find(u)'
       ELSE UNCHANGED <<tree, authored, inner>>]_treeVars

\* A refresh that succeeds changes nothing an author wrote; one that fails
\* takes the instance and nothing else, and what hung on it is at its parent.
Orphaned(d, p) ==
  [u \in DOMAIN d \ {p} |->
     [d[u] EXCEPT !.parent = IF @ = p THEN d[p].parent ELSE @]]
RefreshKeepsTheRest ==
  [][report'.call = "refresh" /\ ~crossed =>
       Description' = IF report'.ok THEN Description ELSE Orphaned(Description, report'.of)]_treeVars

\* Undoing a deletion gives the scene that was there, if nothing else has changed.
UndoRestores ==
  [][report'.call = "restore" /\ ~crossed =>
       (Description = snapshot.rest => Description' = snapshot.whole)]_treeVars

\* Destroying a node takes the whole subtree: no node is left under one that is gone.
DestroyTakesTheSubtree == \A n \in Live(tree) : tree[n].parent \in Live(tree) \cup {NoNode}
=============================================================================
