---------------------------- MODULE EditorHostProofs ----------------------------
(***************************************************************************)
(* Proofs about the editor's frame and its documents, for every set of     *)
(* files and of Prefab instances, every capacity of the history and every  *)
(* number of inputs: the dirty flag and the history tell the truth,        *)
(* nothing unsaved is lost without consent, and a game that is started     *)
(* reads what is on the screen.                                            *)
(***************************************************************************)
EXTENDS EditorHost, FiniteSetTheorems, WellFoundedInduction, TLAPS

(***************************************************************************)
(* Numbers that nobody holds                                               *)
(***************************************************************************)
LEMMA LeastNumber ==
    ASSUME NEW S \in SUBSET Nat, S # {} PROVE \E n \in S : \A m \in S : n <= m
<1> DEFINE R == OpToRel(<, Nat)
<1>1. IsWellFoundedOn(R, Nat) BY NatLessThanWellFounded
<1>2. PICK n \in S : \A m \in S : <<m, n>> \notin R BY <1>1, WFMin
<1>3. ASSUME NEW m \in S PROVE n <= m
  <2>1. ~(m < n) BY <1>2 DEF OpToRel
  <2> QED BY <2>1
<1> QED BY <1>2, <1>3

(* Least finds a number, and one that is not taken. *)
LEMMA LeastIsFree ==
    ASSUME NEW taken \in SUBSET Nat, IsFiniteSet(taken)
    PROVE  Least(taken) \in Nat \ {0} /\ Least(taken) \notin taken
<1> DEFINE n == Cardinality(taken)
           S == (1 .. n + 1) \ taken
<1>1. n \in Nat BY FS_CardinalityType
<1>2. S # {}
  <2> SUFFICES ASSUME 1 .. n + 1 \subseteq taken PROVE FALSE OBVIOUS
  <2>1. Cardinality(1 .. n + 1) <= n BY FS_Subset
  <2>2. 1 \in Int /\ n + 1 \in Int /\ ~(1 > n + 1) /\ (n + 1) - 1 + 1 = n + 1 BY <1>1
  <2>3. Cardinality(1 .. n + 1) = n + 1 BY <2>2, FS_Interval
  <2> QED BY <1>1, <2>1, <2>3
<1>3. S \in SUBSET Nat BY <1>1
<1>4. PICK m \in S : \A k \in S : m <= k BY <1>2, <1>3, LeastNumber
<1>5. m \in 1 .. n + 1 /\ m \notin taken /\ \A k \in 1 .. m - 1 : k \in taken
  <2>1. m \in Nat /\ m \in 1 .. n + 1 /\ m \notin taken BY <1>1
  <2>2. ASSUME NEW k \in 1 .. m - 1 PROVE k \in taken
    <3>1. k \in 1 .. n + 1 /\ ~(m <= k) BY <1>1, <2>1
    <3> QED BY <1>4, <3>1
  <2> QED BY <2>1, <2>2
<1>6. /\ Least(taken) \in 1 .. n + 1 /\ Least(taken) \notin taken
  BY <1>5 DEF Least
<1> QED BY <1>1, <1>6

LEMMA ImageIsFinite ==
    ASSUME NEW S, IsFiniteSet(S), NEW f PROVE IsFiniteSet({f[x] : x \in S})
<1> DEFINE T == {f[x] : x \in S}
           g == [x \in S |-> f[x]]
<1>1. g \in Surjection(S, T) BY DEF Surjection
<1> HIDE DEF T, g
<1>2. IsFiniteSet(T) BY <1>1, FS_Surjection
<1> QED BY <1>2 DEF T

(***************************************************************************)
(* Types                                                                   *)
(***************************************************************************)
Kinds == {"name", "mesh", "parts", "author"}
MergeKeys == {"none", "drag"}
SomeUri == Uris \cup {Untitled}
Commands == [kind : Kinds, undo : Contents, redo : Contents, key : MergeKeys, scene : Nat, uri : SomeUri,
             before : Nat, after : Nat]
Histories == [entries : Seq(Commands), cursor : Nat, current : Nat, saved : Nat,
              pending : {"none", "undo", "redo"}, cancelled : BOOLEAN]
InRange(h) == h \in Histories /\ h.cursor <= Len(h.entries) /\ Len(h.entries) <= Capacity

(* A command changes the content in its own kind; only commands of the inspector merge. *)
Alike(kind, a, b) ==
    /\ kind \in {"mesh", "parts"} => a.name = b.name
    /\ kind \in {"name", "parts"} => a.mesh = b.mesh
    /\ kind \in {"name", "mesh"} => a.parts = b.parts
OfItsKind(e) == Alike(e.kind, e.undo, e.redo) /\ (e.key # "none" => e.kind = "name")

(* The entries of a history lead from content to content, and its cursor stands at c. *)
Chained(h, c) ==
    /\ h.cursor > 0 => h.entries[h.cursor].redo = c
    /\ h.cursor < Len(h.entries) => h.entries[h.cursor + 1].undo = c
    /\ \A k \in 1 .. Len(h.entries) - 1 : h.entries[k].redo = h.entries[k + 1].undo
    /\ \A k \in 1 .. Len(h.entries) : OfItsKind(h.entries[k])

(* What the state numbers of a history stand for, when its current one stands for c. *)
Labels(label, h, c) ==
    /\ label \in [Nat -> Contents] /\ label[h.current] = c
    /\ \A k \in 1 .. Len(h.entries) : /\ label[h.entries[k].before] = h.entries[k].undo
                                      /\ label[h.entries[k].after] = h.entries[k].redo

(***************************************************************************)
(* The history's calls                                                     *)
(***************************************************************************)
LEMMA NumbersAreFinite ==
    ASSUME NEW h, InRange(h) PROVE Numbers(h) \in SUBSET Nat /\ IsFiniteSet(Numbers(h))
<1> DEFINE N == 1 .. Len(h.entries)
           b == [k \in N |-> h.entries[k].before]
           a == [k \in N |-> h.entries[k].after]
           B == {b[k] : k \in N}
           A == {a[k] : k \in N}
<1>1. h.entries \in Seq(Commands) /\ h.current \in Nat /\ h.saved \in Nat /\ Len(h.entries) \in Nat
  BY DEF InRange, Histories
<1>2. \A k \in N : h.entries[k] \in Commands BY <1>1
<1>3. \A k \in N : h.entries[k].before \in Nat /\ h.entries[k].after \in Nat BY <1>2 DEF Commands
<1>4. DOMAIN h.entries = N BY <1>1
<1>5. Numbers(h) = {h.current, h.saved} \cup B \cup A
  <2>1. {e.before : e \in EntriesOf(h)} = B BY <1>4 DEF EntriesOf
  <2>2. {e.after : e \in EntriesOf(h)} = A BY <1>4 DEF EntriesOf
  <2> QED BY <2>1, <2>2 DEF Numbers
<1>6. IsFiniteSet(N) BY <1>1, FS_Interval
<1>7. A \subseteq Nat /\ B \subseteq Nat BY <1>3
<1>8. IsFiniteSet(A) /\ IsFiniteSet(B)
  <2> HIDE DEF N, a, b
  <2> QED BY <1>6, ImageIsFinite
<1> HIDE DEF A, B
<1>9. IsFiniteSet({h.current} \cup {h.saved}) /\ {h.current, h.saved} = {h.current} \cup {h.saved}
  BY FS_Singleton, FS_Union
<1>10. IsFiniteSet(({h.current} \cup {h.saved}) \cup B) BY <1>8, <1>9, FS_Union
<1>11. IsFiniteSet((({h.current} \cup {h.saved}) \cup B) \cup A) BY <1>8, <1>10, FS_Union
<1> QED BY <1>1, <1>5, <1>7, <1>9, <1>11

LEMMA NumberIsFree ==
    ASSUME NEW h, InRange(h)
    PROVE  LET id == Least(Numbers(h)) IN
           /\ id \in Nat \ {0} /\ id # h.current /\ id # h.saved
           /\ \A k \in 1 .. Len(h.entries) : id # h.entries[k].before /\ id # h.entries[k].after
<1> DEFINE id == Least(Numbers(h))
<1>1. id \in Nat \ {0} /\ id \notin Numbers(h) BY NumbersAreFinite, LeastIsFree
<1> HIDE DEF id
<1>2. h.entries \in Seq(Commands) BY DEF InRange, Histories
<1>3. \A k \in 1 .. Len(h.entries) : h.entries[k] \in EntriesOf(h) BY <1>2 DEF EntriesOf
<1>4. \A k \in 1 .. Len(h.entries) : h.entries[k].before \in Numbers(h) /\ h.entries[k].after \in Numbers(h)
  BY <1>3 DEF Numbers
<1>5. h.current \in Numbers(h) /\ h.saved \in Numbers(h) BY DEF Numbers
<1> QED BY <1>1, <1>4, <1>5 DEF id

LEMMA HistoryOf ==
    ASSUME NEW es \in Seq(Commands), NEW n \in Nat, NEW c \in Nat, NEW s \in Nat,
           NEW p \in {"none", "undo", "redo"}, NEW x \in BOOLEAN
    PROVE  [entries |-> es, cursor |-> n, current |-> c, saved |-> s, pending |-> p, cancelled |-> x]
             \in Histories
BY DEF Histories

LEMMA HistoryShape ==
    ASSUME NEW h \in Histories
    PROVE  /\ h = [entries |-> h.entries, cursor |-> h.cursor, current |-> h.current, saved |-> h.saved,
                   pending |-> h.pending, cancelled |-> h.cancelled]
           /\ h.entries \in Seq(Commands) /\ h.cursor \in Nat /\ h.current \in Nat /\ h.saved \in Nat
           /\ h.pending \in {"none", "undo", "redo"} /\ h.cancelled \in BOOLEAN
BY DEF Histories

LEMMA CommandShape ==
    ASSUME NEW c \in Commands
    PROVE  /\ c = [kind |-> c.kind, undo |-> c.undo, redo |-> c.redo, key |-> c.key, scene |-> c.scene,
                   uri |-> c.uri, before |-> c.before, after |-> c.after]
           /\ c.kind \in Kinds /\ c.undo \in Contents /\ c.redo \in Contents /\ c.key \in MergeKeys
           /\ c.scene \in Nat /\ c.uri \in SomeUri /\ c.before \in Nat /\ c.after \in Nat
BY DEF Commands

LEMMA CommandWith ==
    ASSUME NEW c \in Commands, NEW r \in Contents, NEW b \in Nat, NEW a \in Nat
    PROVE  /\ [c EXCEPT !.redo = r, !.after = a] \in Commands
           /\ [c EXCEPT !.before = b, !.after = a] \in Commands
BY DEF Commands

(* What recording a command makes of the entries: it stands last, at the cursor;
   before it are the last ones of those that were done. *)
LEMMA RecordedEntries ==
    ASSUME NEW h, InRange(h), NEW command \in Commands, ~Merges(h, command)
    PROVE  LET r == Recorded(h, command)
               id == Least(Numbers(h))
           IN /\ r \in Histories /\ r.current = id /\ r.saved = h.saved /\ r.pending = h.pending
              /\ r.cancelled = h.cancelled
              /\ r.cursor = Len(r.entries) /\ r.cursor > 0 /\ Len(r.entries) <= Capacity
              /\ LET n == r.entries[r.cursor]
                 IN /\ n.kind = command.kind /\ n.undo = command.undo /\ n.redo = command.redo
                    /\ n.key = command.key /\ n.before = h.current /\ n.after = id
              /\ \E d \in {0, 1} : /\ Len(r.entries) = h.cursor + 1 - d
                                   /\ \A k \in 1 .. Len(r.entries) - 1 : r.entries[k] = h.entries[k + d]
<1> DEFINE id == Least(Numbers(h))
           new == [command EXCEPT !.before = h.current, !.after = id]
           kept == SubSeq(h.entries, 1, h.cursor)
           pushed == Append(kept, new)
           es == IF Len(pushed) > Capacity THEN Tail(pushed) ELSE pushed
           at == IF Len(pushed) > Capacity THEN Capacity ELSE h.cursor + 1
<1>1. /\ h.entries \in Seq(Commands) /\ h.cursor \in Nat /\ h.current \in Nat /\ h.saved \in Nat
      /\ h.pending \in {"none", "undo", "redo"} /\ h.cancelled \in BOOLEAN
      /\ h.cursor <= Len(h.entries) /\ Len(h.entries) <= Capacity /\ Capacity \in Nat \ {0}
  BY HistoryShape, DocumentAssumption DEF InRange, DocumentAssumption
<1>2. id \in Nat BY NumberIsFree
<1>3. /\ new \in Commands /\ new.kind = command.kind /\ new.undo = command.undo
      /\ new.redo = command.redo /\ new.key = command.key /\ new.before = h.current /\ new.after = id
  <2> HIDE DEF id
  <2>1. command.redo \in Contents BY CommandShape
  <2>2. new \in Commands BY <1>1, <1>2, <2>1, CommandWith
  <2>3. new.kind = command.kind /\ new.undo = command.undo /\ new.redo = command.redo BY DEF Commands
  <2>4. new.key = command.key /\ new.before = h.current /\ new.after = id BY DEF Commands
  <2> QED BY <2>2, <2>3, <2>4
<1>4. Recorded(h, command) = [h EXCEPT !.entries = es, !.cursor = at, !.current = id]
  BY DEF Recorded
<1>5. Recorded(h, command) = [entries |-> es, cursor |-> at, current |-> id, saved |-> h.saved,
                              pending |-> h.pending, cancelled |-> h.cancelled]
  <2> HIDE DEF id, es, at
  <2>1. h = [entries |-> h.entries, cursor |-> h.cursor, current |-> h.current, saved |-> h.saved,
             pending |-> h.pending, cancelled |-> h.cancelled]
    BY HistoryShape DEF InRange
  <2> QED BY <1>4, <2>1
<1> HIDE DEF id, new
<1>6. kept \in Seq(Commands) /\ Len(kept) = h.cursor /\ \A k \in 1 .. h.cursor : kept[k] = h.entries[k]
  BY <1>1
<1> HIDE DEF kept
<1>7. /\ pushed \in Seq(Commands) /\ Len(pushed) = h.cursor + 1 /\ pushed[h.cursor + 1] = new
      /\ \A k \in 1 .. h.cursor : pushed[k] = h.entries[k]
  BY <1>1, <1>3, <1>6
<1> HIDE DEF pushed
<1>8. /\ es \in Seq(Commands) /\ Len(es) = at /\ at \in Nat /\ at > 0 /\ at <= Capacity /\ es[at] = new
      /\ \E d \in {0, 1} : /\ Len(es) = h.cursor + 1 - d
                           /\ \A k \in 1 .. Len(es) - 1 : es[k] = h.entries[k + d]
  <2>1. CASE h.cursor + 1 > Capacity
    <3>1. h.cursor = Capacity /\ es = Tail(pushed) /\ at = Capacity BY <1>1, <1>7, <2>1
    <3>2. /\ es \in Seq(Commands) /\ Len(es) = h.cursor
          /\ \A k \in 1 .. h.cursor : es[k] = pushed[k + 1]
      BY <1>1, <1>7, <3>1
    <3>3. es[at] = new BY <1>1, <1>7, <3>1, <3>2
    <3>4. \A k \in 1 .. Len(es) - 1 : es[k] = h.entries[k + 1]
      <4> HIDE DEF es, at
      <4> TAKE k \in 1 .. Len(es) - 1
      <4>1. k \in 1 .. h.cursor /\ k + 1 \in 1 .. h.cursor BY <1>1, <3>2
      <4> QED BY <1>7, <3>2, <4>1
    <3>5. Len(es) = h.cursor + 1 - 1 BY <1>1, <3>2
    <3> HIDE DEF es, at
    <3> QED BY <1>1, <3>1, <3>2, <3>3, <3>4, <3>5
  <2>2. CASE ~(h.cursor + 1 > Capacity)
    <3>1. es = pushed /\ at = h.cursor + 1 BY <1>7, <2>2
    <3>2. \A k \in 1 .. Len(es) - 1 : es[k] = h.entries[k + 0] BY <1>1, <1>7, <3>1
    <3>3. Len(es) = h.cursor + 1 - 0 BY <1>1, <1>7, <3>1
    <3> HIDE DEF es, at
    <3> QED BY <1>1, <1>7, <2>2, <3>1, <3>2, <3>3
  <2> QED BY <2>1, <2>2
<1> HIDE DEF es, at
<1> DEFINE r == Recorded(h, command)
<1>9. /\ r.entries = es /\ r.cursor = at /\ r.current = id /\ r.saved = h.saved
      /\ r.pending = h.pending /\ r.cancelled = h.cancelled
  BY <1>5
<1>10. r \in Histories BY <1>1, <1>2, <1>5, <1>8, HistoryOf
<1> HIDE DEF r
<1> QED BY <1>3, <1>8, <1>9, <1>10 DEF r, id

(* ... or it becomes one with the last command that was done. *)
LEMMA MergedEntries ==
    ASSUME NEW h, InRange(h), NEW command \in Commands, Merges(h, command)
    PROVE  LET r == Recorded(h, command)
               id == Least(Numbers(h))
               old == h.entries[h.cursor]
           IN /\ r \in Histories /\ r.current = id /\ r.saved = h.saved /\ r.pending = h.pending
              /\ r.cancelled = h.cancelled
              /\ r.cursor = h.cursor /\ Len(r.entries) = r.cursor /\ r.cursor > 0
              /\ old \in Commands /\ old.key = command.key /\ command.key # "none"
              /\ LET n == r.entries[r.cursor]
                 IN /\ n.kind = old.kind /\ n.undo = old.undo /\ n.redo = command.redo
                    /\ n.key = old.key /\ n.before = old.before /\ n.after = id
              /\ \A k \in 1 .. h.cursor - 1 : r.entries[k] = h.entries[k]
<1> DEFINE id == Least(Numbers(h))
           kept == SubSeq(h.entries, 1, h.cursor)
           es == [kept EXCEPT ![h.cursor] = [@ EXCEPT !.redo = command.redo, !.after = id]]
           old == h.entries[h.cursor]
           new == [old EXCEPT !.redo = command.redo, !.after = id]
<1>1. /\ h.entries \in Seq(Commands) /\ h.cursor \in Nat /\ h.current \in Nat /\ h.saved \in Nat
      /\ h.pending \in {"none", "undo", "redo"} /\ h.cancelled \in BOOLEAN
      /\ h.cursor <= Len(h.entries)
  BY HistoryShape DEF InRange
<1>2. id \in Nat BY NumberIsFree
<1>3. h.cursor > 0 /\ old.key = command.key /\ command.key # "none" BY <1>1 DEF Merges
<1>4. Recorded(h, command) = [h EXCEPT !.entries = es, !.current = id]
  BY DEF Recorded
<1>5. Recorded(h, command) = [entries |-> es, cursor |-> h.cursor, current |-> id, saved |-> h.saved,
                              pending |-> h.pending, cancelled |-> h.cancelled]
  <2> HIDE DEF id, es
  <2>1. h = [entries |-> h.entries, cursor |-> h.cursor, current |-> h.current, saved |-> h.saved,
             pending |-> h.pending, cancelled |-> h.cancelled]
    BY HistoryShape DEF InRange
  <2> QED BY <1>4, <2>1
<1> HIDE DEF id
<1>6. kept \in Seq(Commands) /\ Len(kept) = h.cursor /\ \A k \in 1 .. h.cursor : kept[k] = h.entries[k]
  BY <1>1
<1> HIDE DEF kept
<1>7. old \in Commands /\ kept[h.cursor] = old /\ h.cursor \in 1 .. Len(kept) BY <1>1, <1>3, <1>6
<1> HIDE DEF old
<1>8. /\ new \in Commands /\ new.kind = old.kind /\ new.undo = old.undo
      /\ new.redo = command.redo /\ new.key = old.key /\ new.before = old.before /\ new.after = id
  <2>1. command.redo \in Contents BY CommandShape
  <2>2. new \in Commands BY <1>1, <1>2, <1>7, <2>1, CommandWith
  <2>3. new.kind = old.kind /\ new.undo = old.undo /\ new.redo = command.redo BY <1>7 DEF Commands
  <2>4. new.key = old.key /\ new.before = old.before /\ new.after = id BY <1>7 DEF Commands
  <2> QED BY <2>2, <2>3, <2>4
<1>9. es = [kept EXCEPT ![h.cursor] = new] BY <1>7
<1> HIDE DEF new, es
<1>10. /\ es \in Seq(Commands) /\ Len(es) = h.cursor /\ es[h.cursor] = new
       /\ \A k \in 1 .. h.cursor - 1 : es[k] = h.entries[k]
  BY <1>1, <1>6, <1>7, <1>8, <1>9
<1> DEFINE r == Recorded(h, command)
<1>11. /\ r.entries = es /\ r.cursor = h.cursor /\ r.current = id /\ r.saved = h.saved
       /\ r.pending = h.pending /\ r.cancelled = h.cancelled
  BY <1>5
<1>12. r \in Histories BY <1>1, <1>2, <1>5, <1>10, HistoryOf
<1> HIDE DEF r
<1> QED BY <1>3, <1>7, <1>8, <1>10, <1>11, <1>12 DEF r, id, old

LEMMA RecordedInRange ==
    ASSUME NEW h, InRange(h), NEW command \in Commands
    PROVE  LET r == Recorded(h, command) IN
           InRange(r) /\ r.saved = h.saved /\ r.pending = h.pending /\ r.cancelled = h.cancelled
<1>1. /\ h.entries \in Seq(Commands) /\ h.cursor \in Nat
      /\ h.cursor <= Len(h.entries) /\ Len(h.entries) <= Capacity /\ Capacity \in Nat \ {0}
  BY HistoryShape, DocumentAssumption DEF InRange, DocumentAssumption
<1>2. Len(h.entries) \in Nat BY <1>1
<1> DEFINE r == Recorded(h, command)
<1>3. CASE Merges(h, command)
  <2>1. /\ r \in Histories /\ r.saved = h.saved /\ r.pending = h.pending /\ r.cancelled = h.cancelled
        /\ r.cursor = h.cursor /\ Len(r.entries) = r.cursor
    BY <1>3, MergedEntries
  <2> HIDE DEF r
  <2>2. InRange(r) BY <1>1, <1>2, <2>1 DEF InRange
  <2> QED BY <2>1, <2>2 DEF r
<1>4. CASE ~Merges(h, command)
  <2>1. /\ r \in Histories /\ r.saved = h.saved /\ r.pending = h.pending /\ r.cancelled = h.cancelled
        /\ r.cursor = Len(r.entries) /\ Len(r.entries) <= Capacity
    BY <1>4, RecordedEntries
  <2> HIDE DEF r
  <2>2. r.cursor \in Nat BY <2>1, HistoryShape
  <2>3. InRange(r) BY <2>1, <2>2 DEF InRange
  <2> QED BY <2>1, <2>3 DEF r
<1> QED BY <1>3, <1>4

(* After a command has been recorded the history leads to what it made, and its new
   number stands for that. *)
LEMMA RecordedChained ==
    ASSUME NEW h, InRange(h), NEW c \in Contents, Chained(h, c),
           NEW command \in Commands, command.undo = c, OfItsKind(command)
    PROVE  Chained(Recorded(h, command), command.redo)
<1> DEFINE r == Recorded(h, command)
           id == Least(Numbers(h))
<1>1. /\ h.entries \in Seq(Commands) /\ h.cursor \in Nat /\ h.current \in Nat /\ h.saved \in Nat
      /\ h.cursor <= Len(h.entries) /\ Len(h.entries) \in Nat
  BY HistoryShape DEF InRange
<1>2. id \in Nat BY NumberIsFree
<1>3. command.redo \in Contents /\ command.undo \in Contents BY CommandShape
<1>4. CASE Merges(h, command)
  <2> DEFINE old == h.entries[h.cursor]
  <2>1. /\ r \in Histories
        /\ r.cursor = h.cursor /\ Len(r.entries) = r.cursor /\ r.cursor > 0
        /\ old \in Commands /\ old.key = command.key /\ command.key # "none"
        /\ \A k \in 1 .. h.cursor - 1 : r.entries[k] = h.entries[k]
    BY <1>4, MergedEntries
  <2>3. LET n == r.entries[r.cursor]
        IN n.kind = old.kind /\ n.undo = old.undo /\ n.redo = command.redo /\ n.key = old.key
    BY <1>4, MergedEntries
  <2>2. OfItsKind(old) /\ old.redo = c /\ h.cursor \in 1 .. Len(h.entries) BY <1>1, <2>1 DEF Chained
  <2> HIDE DEF r, id, old
  <2>4. OfItsKind(r.entries[r.cursor])
    BY <2>1, <2>2, <2>3 DEF OfItsKind, Alike
  <2>5. \A k \in 1 .. Len(r.entries) : OfItsKind(r.entries[k])
    <3> TAKE k \in 1 .. Len(r.entries)
    <3>1. CASE k = r.cursor BY <2>4, <3>1
    <3>2. CASE k # r.cursor
      <4>1. k \in 1 .. h.cursor - 1 /\ k \in 1 .. Len(h.entries) BY <1>1, <2>1, <3>2
      <4> QED BY <2>1, <4>1 DEF Chained
    <3> QED BY <3>1, <3>2
  <2>6. \A k \in 1 .. Len(r.entries) - 1 : r.entries[k].redo = r.entries[k + 1].undo
    <3> TAKE k \in 1 .. Len(r.entries) - 1
    <3>0. k \in 1 .. Len(h.entries) - 1 /\ k \in 1 .. h.cursor - 1 BY <1>1, <2>1
    <3>1. h.entries[k].redo = h.entries[k + 1].undo BY <3>0 DEF Chained
    <3>2. CASE k + 1 = r.cursor BY <2>1, <2>3, <3>0, <3>1, <3>2 DEF old
    <3>3. CASE k + 1 # r.cursor
      <4>1. k + 1 \in 1 .. h.cursor - 1 BY <1>1, <2>1, <3>0, <3>3
      <4> QED BY <2>1, <3>0, <3>1, <4>1
    <3> QED BY <3>2, <3>3
  <2>7. ~(r.cursor < Len(r.entries)) BY <1>1, <2>1
  <2> QED BY <2>1, <2>3, <2>5, <2>6, <2>7 DEF Chained, r
<1>5. CASE ~Merges(h, command)
  <2>1. /\ r \in Histories
        /\ r.cursor = Len(r.entries) /\ r.cursor > 0 /\ Len(r.entries) <= Capacity
    BY <1>5, RecordedEntries
  <2>2. PICK d \in {0, 1} : /\ Len(r.entries) = h.cursor + 1 - d
                            /\ \A k \in 1 .. Len(r.entries) - 1 : r.entries[k] = h.entries[k + d]
    BY <1>5, RecordedEntries
  <2>3. LET n == r.entries[r.cursor]
        IN n.kind = command.kind /\ n.undo = c /\ n.redo = command.redo /\ n.key = command.key
    BY <1>5, RecordedEntries
  <2> HIDE DEF r, id
  <2>4. r.cursor \in Nat BY <2>1, HistoryShape
  <2>5. \A k \in 1 .. Len(r.entries) : OfItsKind(r.entries[k])
    <3> TAKE k \in 1 .. Len(r.entries)
    <3>1. CASE k = r.cursor BY <2>3, <3>1 DEF OfItsKind, Alike
    <3>2. CASE k # r.cursor
      <4>1. k \in 1 .. Len(r.entries) - 1 /\ k + d \in 1 .. Len(h.entries)
        BY <1>1, <2>1, <2>2, <2>4, <3>2
      <4> QED BY <2>2, <4>1 DEF Chained
    <3> QED BY <3>1, <3>2
  <2>6. \A k \in 1 .. Len(r.entries) - 1 : r.entries[k].redo = r.entries[k + 1].undo
    <3> TAKE k \in 1 .. Len(r.entries) - 1
    <3>0. k + d \in 1 .. Len(h.entries) /\ k + d <= h.cursor BY <1>1, <2>1, <2>2, <2>4
    <3>1. CASE k + 1 = r.cursor
      <4>1. k + d = h.cursor /\ h.cursor > 0 BY <1>1, <2>1, <2>2, <2>4, <3>1
      <4>2. h.entries[k + d].redo = c BY <4>1 DEF Chained
      <4> QED BY <2>2, <2>3, <3>1, <4>2
    <3>2. CASE k + 1 # r.cursor
      <4>1. k + 1 \in 1 .. Len(r.entries) - 1 BY <2>1, <2>4, <3>2
      <4>2. k + d \in 1 .. Len(h.entries) - 1 /\ (k + 1) + d = (k + d) + 1
        BY <1>1, <2>1, <2>2, <2>4, <3>0, <3>2
      <4>3. h.entries[k + d].redo = h.entries[(k + d) + 1].undo BY <4>2 DEF Chained
      <4> QED BY <2>2, <4>1, <4>2, <4>3
    <3> QED BY <3>1, <3>2
  <2>7. ~(r.cursor < Len(r.entries)) BY <2>1, <2>4
  <2> QED BY <2>1, <2>3, <2>5, <2>6, <2>7 DEF Chained, r
<1> QED BY <1>4, <1>5

LEMMA RecordedLabels ==
    ASSUME NEW h, InRange(h), NEW c \in Contents, NEW label, Labels(label, h, c),
           NEW command \in Commands, command.undo = c
    PROVE  \E other : /\ Labels(other, Recorded(h, command), command.redo)
                      /\ other[h.saved] = label[h.saved]
<1> DEFINE r == Recorded(h, command)
           id == Least(Numbers(h))
           other == [label EXCEPT ![id] = command.redo]
<1>1. /\ h.entries \in Seq(Commands) /\ h.cursor \in Nat /\ h.current \in Nat /\ h.saved \in Nat
      /\ h.cursor <= Len(h.entries) /\ Len(h.entries) \in Nat
  BY HistoryShape DEF InRange
<1>2. /\ id \in Nat /\ id # h.current /\ id # h.saved
      /\ \A k \in 1 .. Len(h.entries) : id # h.entries[k].before /\ id # h.entries[k].after
  BY NumberIsFree
<1>3. command.redo \in Contents BY CommandShape
<1>4. \A k \in 1 .. Len(h.entries) : h.entries[k].before \in Nat /\ h.entries[k].after \in Nat
  <2> TAKE k \in 1 .. Len(h.entries)
  <2>1. h.entries[k] \in Commands BY <1>1
  <2> QED BY <2>1, CommandShape
<1> HIDE DEF id
<1>5. /\ other \in [Nat -> Contents] /\ other[id] = command.redo
      /\ other[h.current] = c /\ other[h.saved] = label[h.saved]
  BY <1>1, <1>2, <1>3 DEF Labels
<1>6. \A k \in 1 .. Len(h.entries) : /\ other[h.entries[k].before] = h.entries[k].undo
                                     /\ other[h.entries[k].after] = h.entries[k].redo
  <2> TAKE k \in 1 .. Len(h.entries)
  <2>1. /\ label[h.entries[k].before] = h.entries[k].undo /\ label[h.entries[k].after] = h.entries[k].redo
        /\ label \in [Nat -> Contents]
    BY DEF Labels
  <2> QED BY <1>2, <1>4, <2>1
<1> HIDE DEF other
<1>7. CASE Merges(h, command)
  <2> DEFINE n == r.entries[r.cursor]
             old == h.entries[h.cursor]
  <2>1. /\ r.current = id /\ r.cursor = h.cursor /\ Len(r.entries) = r.cursor /\ r.cursor > 0
        /\ n.undo = old.undo /\ n.redo = command.redo /\ n.before = old.before /\ n.after = id
        /\ \A k \in 1 .. h.cursor - 1 : r.entries[k] = h.entries[k]
    BY <1>7, MergedEntries DEF id
  <2>2. h.cursor \in 1 .. Len(h.entries) BY <1>1, <2>1
  <2>3. other[n.before] = n.undo /\ other[n.after] = n.redo BY <1>5, <1>6, <2>1, <2>2
  <2> HIDE DEF r
  <2>4. \A k \in 1 .. Len(r.entries) : /\ other[r.entries[k].before] = r.entries[k].undo
                                       /\ other[r.entries[k].after] = r.entries[k].redo
    <3> TAKE k \in 1 .. Len(r.entries)
    <3>1. CASE k = r.cursor BY <2>3, <3>1
    <3>2. CASE k # r.cursor
      <4>1. k \in 1 .. h.cursor - 1 /\ k \in 1 .. Len(h.entries) BY <1>1, <2>1, <3>2
      <4> QED BY <1>6, <2>1, <4>1
    <3> QED BY <3>1, <3>2
  <2>5. Labels(other, r, command.redo) BY <1>5, <2>1, <2>4 DEF Labels
  <2> QED BY <1>5, <2>5 DEF r
<1>8. CASE ~Merges(h, command)
  <2> DEFINE n == r.entries[r.cursor]
  <2>1. /\ r \in Histories /\ r.current = id /\ r.cursor = Len(r.entries) /\ r.cursor > 0
        /\ n.undo = c /\ n.redo = command.redo /\ n.before = h.current /\ n.after = id
    BY <1>8, RecordedEntries DEF id
  <2>2. PICK d \in {0, 1} : /\ Len(r.entries) = h.cursor + 1 - d
                            /\ \A k \in 1 .. Len(r.entries) - 1 : r.entries[k] = h.entries[k + d]
    BY <1>8, RecordedEntries
  <2>3. other[n.before] = n.undo /\ other[n.after] = n.redo BY <1>5, <2>1
  <2> HIDE DEF r
  <2>4. \A k \in 1 .. Len(r.entries) : /\ other[r.entries[k].before] = r.entries[k].undo
                                       /\ other[r.entries[k].after] = r.entries[k].redo
    <3> TAKE k \in 1 .. Len(r.entries)
    <3>1. CASE k = r.cursor BY <2>3, <3>1
    <3>2. CASE k # r.cursor
      <4>1. k \in 1 .. Len(r.entries) - 1 /\ k + d \in 1 .. Len(h.entries)
        BY <1>1, <2>1, <2>2, <3>2
      <4>2. r.entries[k] = h.entries[k + d] BY <2>2, <4>1
      <4> QED BY <1>6, <4>1, <4>2
    <3> QED BY <3>1, <3>2
  <2>5. Labels(other, r, command.redo) BY <1>5, <2>1, <2>4 DEF Labels
  <2> QED BY <1>5, <2>5 DEF r
<1> QED BY <1>7, <1>8

(* Where the cursor may go. *)
CanMove(h, undo) == IF undo THEN h.cursor > 0 ELSE h.cursor < Len(h.entries)

LEMMA TargetIs ==
    ASSUME NEW h, InRange(h), NEW undo \in BOOLEAN, CanMove(h, undo)
    PROVE  /\ Target(h, undo) \in Commands
           /\ (IF undo THEN h.cursor ELSE h.cursor + 1) \in 1 .. Len(h.entries)
<1>1. /\ h.entries \in Seq(Commands) /\ h.cursor \in Nat
      /\ h.cursor <= Len(h.entries) /\ Len(h.entries) \in Nat
  BY HistoryShape DEF InRange
<1> QED BY <1>1 DEF CanMove, Target

LEMMA MovedFields ==
    ASSUME NEW h, InRange(h), NEW undo \in BOOLEAN, CanMove(h, undo)
    PROVE  LET m == Moved(h, undo) IN
           /\ InRange(m) /\ m.entries = h.entries /\ m.saved = h.saved /\ m.pending = h.pending
           /\ m.cancelled = h.cancelled
           /\ m.cursor = (IF undo THEN h.cursor - 1 ELSE h.cursor + 1)
           /\ m.current = (IF undo THEN Target(h, undo).before ELSE Target(h, undo).after)
<1> DEFINE t == Target(h, undo)
           at == IF undo THEN h.cursor - 1 ELSE h.cursor + 1
           current == IF undo THEN t.before ELSE t.after
           m == Moved(h, undo)
<1>1. /\ h.entries \in Seq(Commands) /\ h.cursor \in Nat /\ h.current \in Nat /\ h.saved \in Nat
      /\ h.pending \in {"none", "undo", "redo"} /\ h.cancelled \in BOOLEAN
      /\ h.cursor <= Len(h.entries) /\ Len(h.entries) \in Nat /\ Len(h.entries) <= Capacity
      /\ h = [entries |-> h.entries, cursor |-> h.cursor, current |-> h.current, saved |-> h.saved,
              pending |-> h.pending, cancelled |-> h.cancelled]
  BY HistoryShape DEF InRange
<1>2. t \in Commands /\ t.before \in Nat /\ t.after \in Nat BY TargetIs, CommandShape
<1>3. at \in Nat /\ at <= Len(h.entries) /\ current \in Nat BY <1>1, <1>2 DEF CanMove
<1>4. m = [h EXCEPT !.cursor = at, !.current = current] BY DEF Moved
<1> HIDE DEF t, at, current
<1>5. m = [entries |-> h.entries, cursor |-> at, current |-> current, saved |-> h.saved,
           pending |-> h.pending, cancelled |-> h.cancelled]
  BY <1>1, <1>4
<1> HIDE DEF m
<1>6. m \in Histories BY <1>1, <1>3, <1>5, HistoryOf
<1>7. /\ m.entries = h.entries /\ m.saved = h.saved /\ m.pending = h.pending
      /\ m.cancelled = h.cancelled /\ m.cursor = at /\ m.current = current
  BY <1>5
<1>8. InRange(m) BY <1>1, <1>3, <1>6, <1>7 DEF InRange
<1> QED BY <1>7, <1>8 DEF m, at, current, t

(* Undoing leads to what was there before the last command, redoing to what the next
   one made, and what is there now is on its other side. *)
LEMMA MovedChained ==
    ASSUME NEW h, InRange(h), NEW undo \in BOOLEAN, CanMove(h, undo), NEW c, Chained(h, c)
    PROVE  LET t == Target(h, undo)
               to == IF undo THEN t.undo ELSE t.redo
           IN /\ OfItsKind(t) /\ c = (IF undo THEN t.redo ELSE t.undo)
              /\ Chained(Moved(h, undo), to)
              /\ \A label : Labels(label, h, c) => Labels(label, Moved(h, undo), to)
<1> DEFINE k == IF undo THEN h.cursor ELSE h.cursor + 1
           t == Target(h, undo)
           m == Moved(h, undo)
           to == IF undo THEN t.undo ELSE t.redo
<1>1. /\ h.entries \in Seq(Commands) /\ h.cursor \in Nat
      /\ h.cursor <= Len(h.entries) /\ Len(h.entries) \in Nat
  BY HistoryShape DEF InRange
<1>2. k \in 1 .. Len(h.entries) /\ t = h.entries[k] BY TargetIs DEF Target
<1>3. /\ m.entries = h.entries
      /\ m.cursor = (IF undo THEN h.cursor - 1 ELSE h.cursor + 1)
      /\ m.current = (IF undo THEN t.before ELSE t.after)
  BY MovedFields
<1>4. OfItsKind(t) BY <1>2 DEF Chained
<1>5. c = IF undo THEN t.redo ELSE t.undo BY <1>2 DEF Chained, CanMove
<1> HIDE DEF m, t
<1>6. Chained(m, to)
  <2>1. CASE undo
    <3>1. m.cursor = h.cursor - 1 /\ k = h.cursor /\ to = t.undo BY <1>3, <2>1
    <3>2. m.cursor > 0 => m.entries[m.cursor].redo = to
      <4> SUFFICES ASSUME m.cursor > 0 PROVE m.entries[m.cursor].redo = to OBVIOUS
      <4>1. m.cursor \in 1 .. Len(h.entries) - 1 /\ m.cursor + 1 = k BY <1>1, <3>1
      <4> QED BY <1>2, <1>3, <3>1, <4>1 DEF Chained
    <3>3. m.entries[m.cursor + 1].undo = to BY <1>1, <1>2, <1>3, <3>1
    <3> QED BY <1>3, <3>2, <3>3 DEF Chained
  <2>2. CASE ~undo
    <3>1. m.cursor = h.cursor + 1 /\ k = h.cursor + 1 /\ to = t.redo BY <1>3, <2>2
    <3>2. m.entries[m.cursor].redo = to BY <1>1, <1>2, <1>3, <3>1
    <3>3. m.cursor < Len(m.entries) => m.entries[m.cursor + 1].undo = to
      <4> SUFFICES ASSUME m.cursor < Len(m.entries) PROVE m.entries[m.cursor + 1].undo = to OBVIOUS
      <4>1. k \in 1 .. Len(h.entries) - 1 BY <1>1, <1>2, <1>3, <3>1
      <4> QED BY <1>2, <1>3, <3>1, <4>1 DEF Chained
    <3> QED BY <1>3, <3>2, <3>3 DEF Chained
  <2> QED BY <2>1, <2>2
<1>7. ASSUME NEW label, Labels(label, h, c) PROVE Labels(label, m, to)
  <2>1. label[m.current] = to BY <1>2, <1>3, <1>7 DEF Labels
  <2> QED BY <1>3, <1>7, <2>1 DEF Labels
<1> QED BY <1>4, <1>5, <1>6, <1>7 DEF m, t

(* What neither moves nor changes the entries leaves the history where it was. *)
LEMMA SamePlace ==
    ASSUME NEW h, NEW g, g.entries = h.entries, g.cursor = h.cursor, g.current = h.current, NEW c
    PROVE  /\ Chained(h, c) => Chained(g, c)
           /\ \A label : Labels(label, h, c) => Labels(label, g, c)
<1>1. Chained(h, c) => Chained(g, c) BY DEF Chained
<1>2. \A label : Labels(label, h, c) => Labels(label, g, c) BY DEF Labels
<1> QED BY <1>1, <1>2

(* A history that has been cleared. *)
LEMMA ClearedHistory ==
    ASSUME NEW saved \in BOOLEAN
    PROVE  LET h == NoHistory(saved) IN
           /\ InRange(h) /\ h.entries = <<>> /\ h.current = 1 /\ h.pending = "none" /\ ~h.cancelled
           /\ h.cursor = 0 /\ h.saved = (IF saved THEN 1 ELSE 0)
           /\ \A c : Chained(h, c)
           /\ \A c \in Contents : \A s \in Contents : (saved => c = s) =>
                \E label : Labels(label, h, c) /\ label[h.saved] = s
<1> DEFINE h == NoHistory(saved)
<1>1. <<>> \in Seq(Commands) OBVIOUS
<1>2. /\ h.entries = <<>> /\ h.current = 1 /\ h.pending = "none" /\ ~h.cancelled
      /\ h.cursor = 0 /\ h.saved = (IF saved THEN 1 ELSE 0)
  BY DEF NoHistory
<1>3. h \in Histories BY <1>1 DEF NoHistory, Histories
<1> HIDE DEF h
<1>4. Len(h.entries) = 0 BY <1>2
<1>5. InRange(h) BY <1>2, <1>3, <1>4, DocumentAssumption DEF InRange, DocumentAssumption
<1>6. \A c : Chained(h, c) BY <1>2, <1>4 DEF Chained
<1>7. ASSUME NEW c \in Contents, NEW s \in Contents, saved => c = s
      PROVE  \E label : Labels(label, h, c) /\ label[h.saved] = s
  <2> DEFINE label == [n \in Nat |-> IF n = h.saved THEN s ELSE c]
  <2>1. label \in [Nat -> Contents] /\ label[h.current] = c /\ label[h.saved] = s BY <1>2, <1>7
  <2> HIDE DEF label
  <2>2. Labels(label, h, c) BY <1>4, <2>1 DEF Labels
  <2> QED BY <2>1, <2>2
<1> QED BY <1>2, <1>5, <1>6, <1>7 DEF h

(***************************************************************************)
(* The document's calls                                                    *)
(***************************************************************************)
Documents == [uri : SomeUri, content : Contents, dirty : BOOLEAN, scene : Nat]

LEMMA ContentOf ==
    ASSUME NEW n \in Values, NEW m \in Values, NEW p \in [Instances -> Values]
    PROVE  [name |-> n, mesh |-> m, parts |-> p] \in Contents
BY DEF Contents

LEMMA ContentShape ==
    ASSUME NEW c \in Contents
    PROVE  /\ c = [name |-> c.name, mesh |-> c.mesh, parts |-> c.parts]
           /\ c.name \in Values /\ c.mesh \in Values /\ c.parts \in [Instances -> Values]
BY DEF Contents

LEMMA SameContent ==
    ASSUME NEW a \in Contents, NEW b \in Contents, a.name = b.name, a.mesh = b.mesh, a.parts = b.parts
    PROVE  a = b
BY ContentShape

LEMMA BlankIsContent == Blank \in Contents
<1>1. 0 \in Values BY DEF Values
<1> QED BY <1>1, ContentOf DEF Blank

(* A content that is given another value of one kind. *)
With(a, b, kind) == [a EXCEPT ![kind] = b[kind]]

LEMMA ContentWith ==
    ASSUME NEW a \in Contents, NEW b \in Contents, NEW kind \in {"name", "mesh", "parts"}
    PROVE  /\ With(a, b, kind) \in Contents /\ Alike(kind, a, With(a, b, kind))
           /\ Alike(kind, a, b) => With(a, b, kind) = b
<1>1. CASE kind = "name"
  <2>1. With(a, b, "name") \in Contents BY ContentShape DEF With, Contents
  <2>2. /\ With(a, b, "name").name = b.name
        /\ With(a, b, "name").mesh = a.mesh
        /\ With(a, b, "name").parts = a.parts
    BY DEF With, Contents
  <2> QED BY <1>1, <2>1, <2>2, SameContent DEF Alike
<1>2. CASE kind = "mesh"
  <2>1. With(a, b, "mesh") \in Contents BY ContentShape DEF With, Contents
  <2>2. /\ With(a, b, "mesh").name = a.name
        /\ With(a, b, "mesh").mesh = b.mesh
        /\ With(a, b, "mesh").parts = a.parts
    BY DEF With, Contents
  <2> QED BY <1>2, <2>1, <2>2, SameContent DEF Alike
<1>3. CASE kind = "parts"
  <2>1. With(a, b, "parts") \in Contents BY ContentShape DEF With, Contents
  <2>2. /\ With(a, b, "parts").name = a.name
        /\ With(a, b, "parts").mesh = a.mesh
        /\ With(a, b, "parts").parts = b.parts
    BY DEF With, Contents
  <2> QED BY <1>3, <2>1, <2>2, SameContent DEF Alike
<1> QED BY <1>1, <1>2, <1>3

LEMMA DocumentShape ==
    ASSUME NEW d \in Documents
    PROVE  /\ d.uri \in SomeUri /\ d.content \in Contents /\ d.dirty \in BOOLEAN /\ d.scene \in Nat
BY DEF Documents

LEMMA EditedIs ==
    ASSUME NEW d \in Documents, NEW c \in Contents
    PROVE  LET e == Edited(d, c) IN
           e \in Documents /\ e.content = c /\ e.dirty /\ e.uri = d.uri /\ e.scene = d.scene
BY DEF Edited, Documents

LEMMA RestoredIs ==
    ASSUME NEW d \in Documents, NEW c \in Contents, NEW scene \in Nat
    PROVE  LET e == Restored(d, c, scene) IN
           e \in Documents /\ e.content = c /\ e.dirty /\ e.uri = d.uri /\ e.scene = scene
BY DEF Restored, Documents

LEMMA SynchronizedIs ==
    ASSUME NEW d \in Documents, NEW h
    PROVE  LET e == Synchronized(d, h) IN
           /\ e \in Documents /\ e.content = d.content /\ e.dirty = HistoryDirty(h)
           /\ e.uri = d.uri /\ e.scene = d.scene
<1>1. HistoryDirty(h) \in BOOLEAN BY DEF HistoryDirty
<1> QED BY <1>1 DEF Synchronized, Documents

LEMMA AppliedIs ==
    ASSUME NEW d \in Documents, NEW command \in Commands, NEW to \in Contents, NEW scene \in Nat
    PROVE  LET e == Applied(d, command, to, scene) IN
           /\ e \in Documents /\ e.dirty /\ e.uri = d.uri
           /\ e.scene = (IF command.kind = "author" THEN scene ELSE d.scene)
           /\ Alike(command.kind, d.content, to) => e.content = to
<1>1. d.content \in Contents /\ command.kind \in Kinds BY DocumentShape, CommandShape
<1>2. CASE command.kind = "author" BY <1>2, RestoredIs DEF Applied
<1>3. CASE command.kind # "author"
  <2>1. command.kind \in {"name", "mesh", "parts"} BY <1>1, <1>3 DEF Kinds
  <2> DEFINE c == With(d.content, to, command.kind)
  <2>2. c \in Contents /\ (Alike(command.kind, d.content, to) => c = to) BY <1>1, <2>1, ContentWith
  <2>3. Applied(d, command, to, scene) = Edited(d, c) BY <1>3 DEF Applied, With
  <2> HIDE DEF c
  <2> QED BY <1>3, <2>2, <2>3, EditedIs
<1> QED BY <1>2, <1>3

(* An operation that runs through all instances sets their parts and nothing else. *)
LEMMA PartlyAppliedIs ==
    ASSUME NEW c \in Contents, NEW parts \in [Instances -> Values], NEW done \in SUBSET Instances
    PROVE  LET e == PartlyApplied(c, parts, done) IN
           /\ e \in Contents /\ Alike("parts", c, e)
           /\ done = Instances => e.parts = parts
           /\ done = {} => e = c
<1> DEFINE p == [i \in Instances |-> IF i \in done THEN parts[i] ELSE c.parts[i]]
           e == PartlyApplied(c, parts, done)
<1>1. p \in [Instances -> Values] BY ContentShape
<1>2. (done = Instances => p = parts) /\ (done = {} => p = c.parts) BY ContentShape
<1>3. e = [c EXCEPT !.parts = p] BY DEF PartlyApplied
<1> HIDE DEF p
<1>4. e \in Contents /\ e.name = c.name /\ e.mesh = c.mesh /\ e.parts = p BY <1>1, <1>3 DEF Contents
<1> HIDE DEF e
<1>5. done = {} => e = c BY <1>2, <1>4, SameContent
<1> QED BY <1>2, <1>4, <1>5 DEF e, Alike

(***************************************************************************)
(* The invariant                                                           *)
(***************************************************************************)
PrefabEdits ==
    [step : {"none", "preparing", "prepared", "assets", "loaded", "operation", "refused"}, scene : Nat,
     cancelled : BOOLEAN, visible : BOOLEAN, parts : [Instances -> Values]]
AssetEdits ==
    [step : {"none", "preparing", "prepared", "refused"}, kind : {"mesh", "author"}, scene : Nat,
     visible : BOOLEAN, base : Contents, after : Contents]
Loads == [step : {"none", "queued", "loading", "loaded", "failed"}, uri : Uris, visible : BOOLEAN,
          cancelled : BOOLEAN]
FileOps ==
    [kind : {"none", "save", "unpack", "apply", "write", "create"}, done : BOOLEAN, ok : BOOLEAN,
     uri : Uris, fresh : BOOLEAN, scene : Nat, content : Contents]

DocumentTypes ==
    /\ document \in Documents /\ InRange(history)
    /\ prefab \in PrefabEdits /\ asset \in AssetEdits /\ loader \in Loads /\ fileOp \in FileOps
    /\ DOMAIN disk \subseteq Uris /\ disk \in [DOMAIN disk -> Contents]
    /\ Startup \in DOMAIN disk /\ loader.uri \in DOMAIN disk
    /\ drag = <<>> \/ \E v \in Values : drag = <<v>>
    /\ IsPending(history) => CanMove(history, history.pending = "undo")
HostTypes ==
    /\ ui \in {"done", "file", "closing", "prefab", "asset", "loader", "main"}
    /\ action \in {"none", "new", "open", "exit"} /\ game \in {"off", "running", "stopping"}
    /\ inputs \in 0 .. MaxInputs

(* No two things work on the document, ... *)
Exclusive ==
    /\ PrefabActive => ~AssetActive /\ ~IsPending(history)
    /\ AssetActive => ~IsPending(history)
    /\ Active => ~LoaderActive /\ ~FileBusy
    /\ LoaderActive => ~FileBusy
(* ... and the face that was shown tells which may be under way. *)
Shows ==
    /\ PrefabActive => prefab.visible
    /\ AssetActive => asset.visible
    /\ LoaderActive => loader.visible
    /\ loader.visible \/ closing => ~Active /\ ~FileBusy
    /\ FileBusy => ui \in {"done", "file"}
    /\ ui = "main" => ~closing /\ ~Active /\ ~loader.visible
    /\ ui = "loader" => loader.visible
    /\ drag # <<>> => ~closing /\ ~Active /\ ~loader.visible /\ ~FileBusy /\ document.dirty
FlowInv == Exclusive /\ Shows

LEMMA FlowInit == Init => FlowInv
BY DEF Init, InitDocuments, FlowInv, Exclusive, Shows, PrefabActive, AssetActive, LoaderActive, Active, IsPending,
       FileBusy, NoPrefab, NoAsset, NoFileOp, NoLoad, NoHistory

(***************************************************************************)
(* Types                                                                   *)
(***************************************************************************)
LEMMA CommandIs ==
    ASSUME NEW kind \in Kinds, NEW undo \in Contents, NEW redo \in Contents, NEW key \in MergeKeys,
           NEW d \in Documents
    PROVE  LET c == Command(kind, undo, redo, key, d) IN
           c \in Commands /\ c.kind = kind /\ c.undo = undo /\ c.redo = redo /\ c.key = key
BY DocumentShape DEF Command, Commands

LEMMA SceneIsFree == ASSUME document \in Documents, InRange(history) PROVE Least(Scenes) \in Nat
<1> DEFINE N == 1 .. Len(history.entries)
           f == [k \in N |-> history.entries[k].scene]
           F == {f[k] : k \in N}
<1>1. history.entries \in Seq(Commands) /\ Len(history.entries) \in Nat /\ DOMAIN history.entries = N
  BY HistoryShape DEF InRange
<1>2. \A k \in N : history.entries[k].scene \in Nat
  <2> TAKE k \in N
  <2>1. history.entries[k] \in Commands BY <1>1
  <2> QED BY <2>1, CommandShape
<1>3. Scenes = {document.scene} \cup F BY <1>1 DEF Scenes, EntriesOf
<1>4. IsFiniteSet(N) BY <1>1, FS_Interval
<1>5. F \subseteq Nat BY <1>2
<1>6. IsFiniteSet(F)
  <2> HIDE DEF N, f
  <2> QED BY <1>4, ImageIsFinite
<1> HIDE DEF F
<1>7. IsFiniteSet(Scenes) BY <1>3, <1>6, FS_Singleton, FS_Union
<1> QED BY <1>3, <1>5, <1>7, DocumentShape, LeastIsFree

(* What performing an action of the document's menu does while nothing is under way. *)
LEMMA PerformDoes ==
    ASSUME ~Active, NEW what \in {"none", "new", "open", "exit"}, NEW d, NEW h, ~IsPending(h), NEW given,
           Perform(what, d, h, given)
    PROVE  \/ /\ Keep(d, h, given)
              /\ \/ UNCHANGED <<loader, closing>>
                 \/ /\ what = "open" /\ UNCHANGED closing
                    /\ CanRequestLoad /\ \E u \in DOMAIN disk : loader' = RequestedLoad(u)
                 \/ what = "exit" /\ closing' = TRUE /\ loader' \in {loader, LoadCancelled}
           \/ what = "new" /\ Replace(Created(d), d, given) /\ UNCHANGED <<loader, closing>>
<1>1. CASE what = "none" BY <1>1 DEF Perform
<1>2. CASE what = "new" BY <1>2 DEF Perform
<1>3. CASE what = "open" BY <1>3 DEF Perform
<1>4. CASE what = "exit"
  <2>1. PrefabCancelled = prefab /\ AssetCancelled = asset 
    BY DEF PrefabCancelled, AssetCancelled, Active, PrefabActive
  <2>2. BeginExit(d, h, given) BY <1>4 DEF Perform
  <2> QED BY <1>4, <2>1, <2>2 DEF BeginExit, Keep
<1> QED BY <1>1, <1>2, <1>3, <1>4

LEMMA NothingIsTyped ==
    /\ NoPrefab \in PrefabEdits /\ NoAsset \in AssetEdits /\ NoLoad \in Loads /\ NoFileOp \in FileOps
<1>1. Blank \in Contents /\ Blank.parts \in [Instances -> Values] BY BlankIsContent, ContentShape
<1>2. Startup \in Uris BY DocumentAssumption DEF DocumentAssumption
<1>3. NoPrefab \in PrefabEdits BY <1>1 DEF NoPrefab, PrefabEdits
<1>4. NoAsset \in AssetEdits BY <1>1 DEF NoAsset, AssetEdits
<1>5. NoLoad \in Loads BY <1>2 DEF NoLoad, Loads
<1>6. NoFileOp \in FileOps BY <1>1, <1>2 DEF NoFileOp, FileOps
<1> QED BY <1>3, <1>4, <1>5, <1>6

LEMMA CreatedIs ==
    ASSUME NEW d \in Documents
    PROVE  LET e == Created(d) IN
           e \in Documents /\ e.content = Blank /\ e.uri = Untitled
<1>1. {d.scene} \in SUBSET Nat /\ IsFiniteSet({d.scene}) BY DocumentShape, FS_Singleton
<1>2. Least({d.scene}) \in Nat BY <1>1, LeastIsFree
<1> QED BY <1>2, BlankIsContent DEF Created, Documents, SomeUri

LEMMA AdoptedIs ==
    ASSUME DocumentTypes, NEW d \in Documents, NEW u \in DOMAIN disk
    PROVE  LET e == Adopted(d, u) IN
           e \in Documents /\ e.content = disk[u] /\ e.uri = u
<1>1. {d.scene} \in SUBSET Nat /\ IsFiniteSet({d.scene}) BY DocumentShape, FS_Singleton
<1>2. Least({d.scene}) \in Nat BY <1>1, LeastIsFree
<1>3. u \in Uris /\ disk[u] \in Contents BY DEF DocumentTypes
<1> QED BY <1>2, <1>3 DEF Adopted, Documents, SomeUri

LEMMA SavedIs ==
    ASSUME NEW d \in Documents, NEW op \in FileOps
    PROVE  LET e == Saved(d, op) IN
           /\ e \in Documents /\ e.content = d.content /\ e.uri = op.uri /\ e.scene = d.scene
           /\ e.dirty = (d.content # op.content)
BY DEF Saved, Documents, FileOps, SomeUri

LEMMA MarkSavedIs ==
    ASSUME NEW h, InRange(h)
    PROVE  LET m == MarkSaved(h) IN
           /\ InRange(m) /\ m.entries = h.entries /\ m.cursor = h.cursor /\ m.current = h.current
           /\ m.pending = h.pending /\ m.cancelled = h.cancelled
           /\ m.saved = IF IsPending(h) THEN h.saved ELSE h.current
BY HistoryShape DEF MarkSaved, InRange, Histories

LEMMA SettledIs ==
    ASSUME NEW h, InRange(h)
    PROVE  LET m == Settled(h) IN
           /\ InRange(m) /\ m.entries = h.entries /\ m.cursor = h.cursor /\ m.current = h.current
           /\ m.saved = h.saved /\ ~IsPending(m)
BY HistoryShape DEF Settled, InRange, Histories, IsPending

LEMMA PendingIs ==
    ASSUME NEW h, InRange(h), NEW p \in {"none", "undo", "redo"}
    PROVE  LET m == [h EXCEPT !.pending = p] IN
           /\ InRange(m) /\ m.entries = h.entries /\ m.cursor = h.cursor /\ m.current = h.current
           /\ m.saved = h.saved /\ m.pending = p
BY HistoryShape DEF InRange, Histories

LEMMA CancelledIs ==
    ASSUME InRange(history)
    PROVE  LET m == HistoryCancelled IN
           /\ InRange(m) /\ m.entries = history.entries /\ m.cursor = history.cursor
           /\ m.current = history.current /\ m.saved = history.saved /\ m.pending = history.pending
BY HistoryShape DEF HistoryCancelled, InRange, Histories

(* A history is as good as new when nothing is pending in it. *)
Idle(h) == InRange(h) /\ ~IsPending(h)

LEMMA IdleMoves == ASSUME NEW h, Idle(h) PROVE IsPending(h) => CanMove(h, h.pending = "undo")
BY DEF Idle

LEMMA RecordedIsIdle ==
    ASSUME Idle(history), NEW command \in Commands PROVE Idle(Recorded(history, command))
BY RecordedInRange DEF Idle, IsPending

LEMMA RequestedLoadIs ==
    ASSUME NEW u \in Uris
    PROVE  LET l == RequestedLoad(u) IN l \in Loads /\ l.uri = u /\ l.visible /\ l.step = "queued"
BY DEF RequestedLoad, NoLoad, Loads

LEMMA LoadCancelledIs ==
    ASSUME loader \in Loads
    PROVE  LoadCancelled \in Loads /\ LoadCancelled.uri = loader.uri /\ LoadCancelled.visible = loader.visible
BY DEF LoadCancelled, Loads

LEMMA PrefabCancelledIs ==
    ASSUME prefab \in PrefabEdits PROVE PrefabCancelled \in PrefabEdits
BY NothingIsTyped DEF PrefabCancelled, PrefabEdits

LEMMA AssetCancelledIs ==
    ASSUME asset \in AssetEdits PROVE AssetCancelled \in AssetEdits
BY NothingIsTyped DEF AssetCancelled

LEMMA PerformTypes ==
    ASSUME DocumentTypes, ~Active, NEW what \in {"none", "new", "open", "exit"}, NEW d \in Documents,
           NEW h, Idle(h), NEW given, Perform(what, d, h, given)
    PROVE  /\ document' \in Documents /\ Idle(history)' /\ prefab' \in PrefabEdits /\ asset' \in AssetEdits
           /\ loader' \in Loads /\ loader'.uri \in DOMAIN disk
<1>1. CASE Keep(d, h, given)
  <2>1. loader' \in Loads /\ loader'.uri \in DOMAIN disk
    <3>1. CASE UNCHANGED <<loader, closing>> BY <3>1 DEF DocumentTypes
    <3>2. CASE \E u \in DOMAIN disk : loader' = RequestedLoad(u) BY <3>2, RequestedLoadIs DEF DocumentTypes
    <3>3. CASE loader' \in {loader, LoadCancelled} BY <3>3, LoadCancelledIs DEF DocumentTypes
    <3>4. CASE Replace(Created(d), d, given) /\ UNCHANGED <<loader, closing>> BY <3>4 DEF DocumentTypes
    <3> QED BY <3>1, <3>2, <3>3, <3>4, PerformDoes DEF Idle
  <2> QED BY <1>1, <2>1 DEF Keep, DocumentTypes, Idle
<1>2. CASE what = "new" /\ Replace(Created(d), d, given) /\ UNCHANGED <<loader, closing>>
  <2>1. InRange(NoHistory(TRUE)) /\ ~IsPending(NoHistory(TRUE)) BY ClearedHistory DEF IsPending
  <2> QED BY <1>2, <2>1, CreatedIs, NothingIsTyped DEF Replace, DocumentTypes, Idle
<1> QED BY <1>1, <1>2, PerformDoes DEF Idle

LEMMA FileFrameTypes == ASSUME DocumentTypes, FlowInv, action \in {"none", "new", "open", "exit"}, FileFrame
                        PROVE DocumentTypes'
<1>0. disk' = disk /\ drag' = drag /\ ~Active /\ Idle(history)
  BY DEF FileFrame, FlowInv, Exclusive, Idle, DocumentTypes, Active
<1>1. CASE SaveCompletes
  <2> DEFINE accepted == SaveAccepted(document, fileOp)
             d == IF accepted THEN Saved(document, fileOp) ELSE document
             h == IF accepted THEN AfterReceipt(history, d) ELSE history
             clean == accepted /\ ~d.dirty
             what == IF clean THEN action ELSE "none"
  <2>1. d \in Documents BY SavedIs DEF DocumentTypes
  <2>2. Idle(h) BY <1>0, MarkSavedIs DEF AfterReceipt, Idle, IsPending
  <2>3. what \in {"none", "new", "open", "exit"} OBVIOUS
  <2>4. Perform(what, d, h, consent) /\ fileOp' = NoFileOp BY <1>1 DEF SaveCompletes
  <2> HIDE DEF d, h, clean, what
  <2>5. /\ document' \in Documents /\ Idle(history)' /\ prefab' \in PrefabEdits /\ asset' \in AssetEdits
        /\ loader' \in Loads /\ loader'.uri \in DOMAIN disk
    BY <1>0, <2>1, <2>2, <2>3, <2>4, PerformTypes
  <2> QED BY <1>0, <2>4, <2>5, NothingIsTyped DEF DocumentTypes, Idle
<1>2. CASE AuthorCompletes
  <2>1. fileOp' \in FileOps BY <1>2, NothingIsTyped DEF AuthorCompletes, DocumentTypes, FileOps
  <2>2. fileOp.content \in Contents BY DEF DocumentTypes, FileOps
  <2>3. ASSUME NEW boundary \in BOOLEAN, Adopt(fileOp.content, boundary)
        PROVE  document' \in Documents /\ Idle(history)'
    <3>1. Least(Scenes) \in Nat BY SceneIsFree DEF DocumentTypes
    <3>2. Restored(document, fileOp.content, Least(Scenes)) \in Documents
      BY <2>2, <3>1, RestoredIs DEF DocumentTypes
    <3>3. [document EXCEPT !.dirty = TRUE] \in Documents BY DEF DocumentTypes, Documents
    <3>4. Idle(NoHistory(FALSE)) BY ClearedHistory DEF Idle, IsPending
    <3>5. Command("author", document.content, fileOp.content, "none", document) \in Commands
      BY <2>2, CommandIs, DocumentShape DEF DocumentTypes, Kinds, MergeKeys
    <3>6. Idle(Recorded(history, Command("author", document.content, fileOp.content, "none", document)))
      BY <1>0, <3>5, RecordedIsIdle
    <3> QED BY <1>0, <2>3, <3>2, <3>3, <3>4, <3>6 DEF Adopt, DocumentTypes, Idle
  <2>4. document' \in Documents /\ Idle(history)'
    <3>1. CASE UNCHANGED <<document, history, consent>> BY <1>0, <3>1 DEF DocumentTypes, Idle, InRange, IsPending
    <3>2. CASE Adopt(fileOp.content, FALSE) BY <2>3, <3>2
    <3>3. CASE Adopt(fileOp.content, fileOp.kind = "write") BY <2>3, <3>3
    <3> QED BY <1>2, <3>1, <3>2, <3>3 DEF AuthorCompletes
  <2> QED BY <1>0, <1>2, <2>1, <2>4 DEF AuthorCompletes, DocumentTypes, Idle
<1>3. CASE UNCHANGED <<document, history, prefab, asset, loader, fileOp>>
  BY <1>0, <1>3 DEF DocumentTypes, InRange, IsPending, CanMove
<1> QED BY <1>1, <1>2, <1>3 DEF FileFrame

LEMMA RunsIs ==
    ASSUME NEW d \in Documents, NEW cancelled, NEW scene, NEW parts \in [Instances -> Values],
           NEW done \in SUBSET Instances
    PROVE  LET e == Runs(d, cancelled, scene, parts, done) IN
           /\ e \in Documents /\ e.uri = d.uri /\ e.scene = d.scene
           /\ Alike("parts", d.content, e.content)
           /\ Succeeds(d, cancelled, scene, done) => e.content.parts = parts /\ e.dirty
           /\ ~Tears(d, cancelled, scene, done) /\ ~Succeeds(d, cancelled, scene, done)
                => e.content = d.content
           /\ e.dirty = d.dirty \/ e.dirty
<1>1. d.content \in Contents BY DocumentShape
<1> DEFINE c == PartlyApplied(d.content, parts, done)
<1>2. /\ c \in Contents /\ Alike("parts", d.content, c)
      /\ done = Instances => c.parts = parts
      /\ done = {} => c = d.content
  BY <1>1, PartlyAppliedIs
<1> HIDE DEF c
<1>3. CASE cancelled \/ scene # d.scene
  <2>1. Runs(d, cancelled, scene, parts, done) = d BY <1>3 DEF Runs
  <2> QED BY <1>3, <2>1 DEF Succeeds, Alike
<1>4. CASE ~(cancelled \/ scene # d.scene)
  <2>1. Runs(d, cancelled, scene, parts, done) = Edited(d, c) BY <1>4 DEF Runs, c
  <2> QED BY <1>2, <1>4, <2>1, EditedIs DEF Succeeds, Tears
<1> QED BY <1>3, <1>4

LEMMA AdvanceLoaderTypes ==
    ASSUME DocumentTypes, FlowInv, AdvanceLoader, UNCHANGED <<fileOp, disk>> PROVE DocumentTypes'
<1>0. ~Active /\ Idle(history) BY DEF AdvanceLoader, Idle, DocumentTypes, Active
<1>1. CASE Replace(Adopted(document, loader.uri), document, consent) /\ loader' = NoLoad /\ drag' = <<>>
  <2>1. Adopted(document, loader.uri) \in Documents BY AdoptedIs DEF DocumentTypes
  <2>2. Idle(NoHistory(TRUE)) BY ClearedHistory DEF Idle, IsPending
  <2>3. NoLoad \in Loads /\ NoLoad.uri = Startup BY NothingIsTyped DEF NoLoad
  <2> QED BY <1>1, <2>1, <2>2, <2>3, NothingIsTyped DEF Replace, DocumentTypes, Idle
<1>2. ASSUME NEW next \in {"loading", "none"}, loader' = [loader EXCEPT !.step = next],
             UNCHANGED <<document, history, prefab, asset, drag>>
      PROVE  DocumentTypes'
  <2>1. loader' \in Loads /\ loader'.uri = loader.uri BY <1>2 DEF DocumentTypes, Loads
  <2> QED BY <1>0, <1>2, <2>1 DEF DocumentTypes, Idle, InRange, IsPending
<1>3. CASE UNCHANGED <<document, history, prefab, asset, loader, drag>>
  BY <1>0, <1>3 DEF DocumentTypes, Idle, InRange, IsPending
<1>4. CASE loader' = [loader EXCEPT !.step = "none", !.cancelled = FALSE]
           /\ UNCHANGED <<document, history, prefab, asset, drag>>
  <2>1. loader' \in Loads /\ loader'.uri = loader.uri BY <1>4 DEF DocumentTypes, Loads
  <2> QED BY <1>0, <1>4, <2>1 DEF DocumentTypes, Idle, InRange, IsPending
<1>5. loader.step \in {"none", "queued", "loading", "loaded", "failed"} /\ loader.cancelled \in BOOLEAN
  BY DEF DocumentTypes, Loads
<1> QED BY <1>1, <1>2, <1>3, <1>4, <1>5 DEF AdvanceLoader

LEMMA AdvancePrefabTypes ==
    ASSUME DocumentTypes, FlowInv, AdvancePrefab, UNCHANGED <<loader, fileOp, disk, drag>>
    PROVE  DocumentTypes'
<1>0. Idle(history) BY DEF AdvancePrefab, FlowInv, Exclusive, Idle, DocumentTypes
<1>1. PrefabFinished(TRUE) \in PrefabEdits /\ PrefabFinished(FALSE) \in PrefabEdits
  BY NothingIsTyped DEF PrefabFinished, PrefabEdits
<1>2. ASSUME NEW next \in {"assets", "operation"}, prefab' = [prefab EXCEPT !.step = next]
      PROVE  prefab' \in PrefabEdits
  BY <1>2 DEF DocumentTypes, PrefabEdits
<1>3. CASE UNCHANGED <<document, history>>
  <2>1. prefab' \in PrefabEdits
    <3>1. prefab.step \in {"preparing", "assets", "refused", "prepared", "loaded", "operation"}
      BY DEF AdvancePrefab, PrefabActive, DocumentTypes, PrefabEdits
    <3>2. CASE prefab.step \in {"preparing", "assets"} BY <3>2 DEF AdvancePrefab, DocumentTypes
    <3>3. CASE prefab.step \in {"refused", "operation"} BY <1>1, <3>3 DEF AdvancePrefab
    <3>4. CASE prefab.step = "prepared" BY <1>1, <1>2, <3>4 DEF AdvancePrefab
    <3>5. CASE prefab.step = "loaded" BY <1>1, <1>2, <3>5 DEF AdvancePrefab
    <3> QED BY <3>1, <3>2, <3>3, <3>4, <3>5
  <2> QED BY <1>0, <1>3, <2>1 DEF AdvancePrefab, DocumentTypes, Idle, InRange, IsPending
<1>4. CASE prefab.step = "operation"
  <2>1. PICK done \in Prefixes :
          /\ document' = Runs(document, prefab.cancelled, prefab.scene, prefab.parts, done)
          /\ IF Succeeds(document, prefab.cancelled, prefab.scene, done)
             THEN /\ history' = Recorded(history, Command("parts", document.content,
                                                          document'.content, "none", document))
                  /\ prefab' = PrefabFinished(FALSE)
             ELSE prefab' = PrefabFinished(TRUE) /\ UNCHANGED history
    BY <1>4 DEF AdvancePrefab
  <2>2. done \in SUBSET Instances /\ prefab.parts \in [Instances -> Values]
    BY DEF Prefixes, DocumentTypes, PrefabEdits
  <2>3. document' \in Documents BY <2>1, <2>2, RunsIs DEF DocumentTypes
  <2>4. Command("parts", document.content, document'.content, "none", document) \in Commands
    BY <2>3, CommandIs, DocumentShape DEF DocumentTypes, Kinds, MergeKeys
  <2>5. Idle(history)' /\ prefab' \in PrefabEdits
    <3>1. CASE history' = history BY <1>0, <1>1, <2>1, <3>1 DEF Idle, InRange, IsPending
    <3>2. CASE history' = Recorded(history, Command("parts", document.content, document'.content,
                                                    "none", document))
      <4>1. Idle(history') BY <1>0, <2>4, <3>2, RecordedIsIdle
      <4> QED BY <1>1, <2>1, <4>1 DEF Idle, InRange, IsPending
    <3> QED BY <2>1, <3>1, <3>2
  <2> QED BY <2>3, <2>5 DEF AdvancePrefab, DocumentTypes, Idle
<1> QED BY <1>3, <1>4 DEF AdvancePrefab, PrefabActive, DocumentTypes, PrefabEdits

LEMMA AdvanceHistoryTypes ==
    ASSUME DocumentTypes, FlowInv, AdvanceHistory, UNCHANGED <<loader, fileOp, disk, drag>>
    PROVE  DocumentTypes'
<1> DEFINE undo == history.pending = "undo"
           command == Target(history, undo)
           to == IF undo THEN command.undo.parts ELSE command.redo.parts
           d(done) == Runs(document, history.cancelled, command.scene, to, done)
           h(done) == IF Succeeds(document, history.cancelled, command.scene, done)
                      THEN Moved(history, undo) ELSE history
<1>1. PICK done \in Prefixes : history' = Settled(h(done))
                               /\ document' = IF closing THEN d(done) ELSE Synchronized(d(done), h(done))
  BY DEF AdvanceHistory
<1>2. InRange(history) /\ undo \in BOOLEAN /\ CanMove(history, undo)
  BY DEF AdvanceHistory, DocumentTypes
<1>3. command \in Commands /\ InRange(Moved(history, undo)) BY <1>2, TargetIs, MovedFields
<1>4. to \in [Instances -> Values] BY <1>3, CommandShape, ContentShape
<1>5. done \in SUBSET Instances BY DEF Prefixes
<1> HIDE DEF to, command, undo
<1>6. d(done) \in Documents BY <1>4, <1>5, RunsIs DEF DocumentTypes
<1>7. InRange(h(done)) BY <1>2, <1>3
<1> HIDE DEF d, h
<1>8. document' \in Documents BY <1>1, <1>6, SynchronizedIs
<1>9. InRange(history') /\ ~IsPending(history') BY <1>1, <1>7, SettledIs
<1> QED BY <1>8, <1>9 DEF AdvanceHistory, DocumentTypes, InRange, IsPending

(* Doing a command and recording it. *)
LEMMA ExecuteTypes ==
    ASSUME DocumentTypes, Idle(history), NEW command \in Commands, Execute(command)
    PROVE  document' \in Documents /\ Idle(history)'
<1>1. Least(Scenes) \in Nat /\ document \in Documents BY SceneIsFree DEF DocumentTypes
<1>2. command.redo \in Contents BY CommandShape
<1>3. document' \in Documents BY <1>1, <1>2, AppliedIs DEF Execute
<1>4. Idle(history') BY RecordedIsIdle DEF Execute
<1> QED BY <1>3, <1>4 DEF Idle, InRange, IsPending

LEMMA AdvanceAssetTypes ==
    ASSUME DocumentTypes, FlowInv, AdvanceAsset, UNCHANGED <<loader, fileOp, disk, drag>>
    PROVE  DocumentTypes'
<1>0. Idle(history) /\ asset \in AssetEdits
  BY DEF AdvanceAsset, FlowInv, Exclusive, Idle, DocumentTypes
<1>1. CASE UNCHANGED <<document, history, asset>>
  BY <1>0, <1>1 DEF AdvanceAsset, DocumentTypes, Idle, InRange, IsPending
<1>2. CASE asset' = [NoAsset EXCEPT !.visible = TRUE] /\ UNCHANGED <<document, history>>
  <2>1. asset' \in AssetEdits BY <1>2, NothingIsTyped DEF AssetEdits
  <2> QED BY <1>0, <1>2, <2>1 DEF AdvanceAsset, DocumentTypes, Idle, InRange, IsPending
<1>3. CASE asset' = NoAsset
           /\ Execute(Command(asset.kind, document.content, asset.after, "none", document))
  <2>1. asset.kind \in Kinds /\ asset.after \in Contents BY <1>0 DEF AssetEdits, Kinds
  <2>2. Command(asset.kind, document.content, asset.after, "none", document) \in Commands
    BY <2>1, CommandIs, DocumentShape DEF DocumentTypes, MergeKeys
  <2>3. document' \in Documents /\ Idle(history)' BY <1>0, <1>3, <2>2, ExecuteTypes
  <2> QED BY <1>3, <2>3, NothingIsTyped DEF AdvanceAsset, DocumentTypes, Idle
<1> QED BY <1>0, <1>1, <1>2, <1>3 DEF AdvanceAsset, AssetActive, AssetEdits

(* What was in the document before the drag that is under way. *)
Before == IF drag = <<>> THEN document.content ELSE [document.content EXCEPT !.name = drag[1]]

LEMMA BeforeIs ==
    ASSUME DocumentTypes
    PROVE  Before \in Contents /\ Alike("name", Before, document.content)
<1>1. document.content \in Contents BY DocumentShape DEF DocumentTypes
<1>2. CASE drag = <<>> BY <1>1, <1>2 DEF Before, Alike
<1>3. ASSUME NEW v \in Values, drag = <<v>>
      PROVE  Before \in Contents /\ Alike("name", Before, document.content)
  <2>1. drag # <<>> /\ drag[1] = v BY <1>3
  <2>2. Before = [document.content EXCEPT !.name = v] BY <2>1 DEF Before
  <2> QED BY <1>1, <2>2 DEF Contents, Alike
<1> QED BY <1>2, <1>3 DEF DocumentTypes

LEMMA FinishDragTypes ==
    ASSUME DocumentTypes, ~Active, FinishDrag, UNCHANGED <<fileOp, disk>> PROVE DocumentTypes'
<1>0. Idle(history) BY DEF Idle, DocumentTypes, Active
<1>1. Command("name", Before, document.content, "none", document) \in Commands
  BY BeforeIs, CommandIs, DocumentShape DEF DocumentTypes, Kinds, MergeKeys
<1>2. \/ history' = history
      \/ history' = Recorded(history, Command("name", Before, document.content, "none", document))
  BY DEF FinishDrag, Before
<1>3. Idle(history)'
  <2>1. CASE history' = history BY <1>0, <2>1 DEF Idle, InRange, IsPending
  <2>2. CASE history' = Recorded(history, Command("name", Before, document.content, "none", document))
    <3>1. Idle(history') BY <1>0, <1>1, <2>2, RecordedIsIdle
    <3> QED BY <3>1 DEF Idle, InRange, IsPending
  <2> QED BY <1>2, <2>1, <2>2
<1> QED BY <1>3 DEF FinishDrag, DocumentTypes, Idle

(***************************************************************************)
(* One thing at a time                                                     *)
(***************************************************************************)
LEMMA RecordedPending ==
    ASSUME NEW h \in Histories, NEW command PROVE Recorded(h, command).pending = h.pending
BY DEF Recorded, Histories

LEMMA EditFlow == ASSUME FlowInv, DocumentTypes, Edit PROVE FlowInv'
<1>1. /\ ui = "main" /\ ui' = "done" /\ UNCHANGED <<prefab, asset, loader, fileOp, closing>> /\ drag = <<>>
  BY DEF Edit, Mouse, Keys, AtMain, Used, Acts
<1>2. ~IsPending(history) => ~IsPending(history)'
  <2>1. CASE UNCHANGED history BY <2>1 DEF IsPending
  <2>2. ASSUME NEW command, history' = Recorded(history, command)
        PROVE  history'.pending = history.pending
    BY <2>2, RecordedPending DEF DocumentTypes, InRange
  <2> QED BY <2>1, <2>2 DEF Edit, Change, IsPending
<1>3. document'.dirty
  <2>1. \E content : document' = Edited(document, content) BY DEF Edit, Change
  <2> QED BY <2>1 DEF Edited, DocumentTypes, Documents
<1> QED BY <1>1, <1>2, <1>3
    DEF FlowInv, Exclusive, Shows, PrefabActive, AssetActive, LoaderActive, Active, FileBusy

LEMMA InputFlow ==
    ASSUME FlowInv, AskPrefab \/ AskAuthor \/ Save \/ CancelDialog \/ Run \/ StopGame
    PROVE  FlowInv'
<1> USE DEF FlowInv, Exclusive, Shows, PrefabActive, AssetActive, LoaderActive, Active, IsPending, FileBusy,
            Mouse, Keys, AtMain, Used, Acts
<1>2. CASE AskPrefab BY <1>2 DEF AskPrefab, CanRequestPrefab, RequestedPrefab, NoPrefab
<1>3. CASE AskAuthor BY <1>3 DEF AskAuthor, NoFileOp
<1>4. CASE Save BY <1>4 DEF Save, SaveDocument, Saving, NoFileOp
<1>5. CASE CancelDialog BY <1>5 DEF CancelDialog, documentVars
<1>6. CASE Run BY <1>6 DEF Run, documentVars
<1>7. CASE StopGame BY <1>7 DEF StopGame, documentVars
<1> QED BY <1>2, <1>3, <1>4, <1>5, <1>6, <1>7

LEMMA DialogFlow ==
    ASSUME FlowInv, DocumentTypes, PrefabDialog \/ AssetDialog \/ LoaderDialog
    PROVE  FlowInv'
<1> USE DEF FlowInv, Exclusive, Shows, PrefabActive, AssetActive, LoaderActive, Active, IsPending, FileBusy,
            Modal, Used, Acts
<1>1. CASE PrefabDialog
  <2>1. prefab \in PrefabEdits /\ HistoryCancelled.pending = history.pending
    BY CancelledIs DEF DocumentTypes
  <2>2. PrefabCancelled.step # "none" => prefab.step # "none" /\ PrefabCancelled.visible = prefab.visible
    BY <2>1 DEF PrefabCancelled, PrefabEdits, NoPrefab
  <2>3. /\ prefab'.step # "none" => prefab.step # "none" /\ prefab'.visible = prefab.visible
        /\ history'.pending = history.pending
    BY <1>1, <2>1, <2>2 DEF PrefabDialog, NoPrefab
  <2> HIDE DEF PrefabActive, IsPending
  <2> QED BY <1>1, <2>3 DEF PrefabDialog, PrefabActive, IsPending
<1>2. CASE AssetDialog BY <1>2 DEF AssetDialog, NoAsset
<1>3. CASE LoaderDialog
  <2>1. loader \in Loads BY DEF DocumentTypes
  <2>2. LoaderActive => LoadCancelled.visible = loader.visible
    BY LoadCancelledIs DEF DocumentTypes
  <2>3. loader'.step # "none" => loader'.visible
    BY <1>3, <2>1, <2>2 DEF LoaderDialog, CanRequestLoad, RequestedLoad, NoLoad, Loads
  <2>4. loader.visible BY <1>3 DEF LoaderDialog
  <2> QED BY <1>3, <2>3, <2>4 DEF LoaderDialog
<1> QED BY <1>1, <1>2, <1>3

LEMMA AnswerFlow ==
    ASSUME FlowInv, DocumentTypes, FileAnswers \/ PrefabAnswers \/ AssetAnswers \/ LoadAnswers \/ Exit
                    \/ GameEnds("running") \/ GameEnds("stopping")
    PROVE  FlowInv'
<1> USE DEF FlowInv, Exclusive, Shows, PrefabActive, AssetActive, LoaderActive, Active, IsPending, FileBusy,
            hostVars, documentVars
<1>1. CASE FileAnswers
  <2>1. fileOp'.kind = fileOp.kind BY <1>1 DEF FileAnswers, Answer, DocumentTypes, FileOps
  <2>2. UNCHANGED <<document, history, prefab, asset, loader, drag, ui, closing>>
    BY <1>1 DEF FileAnswers, Answer
  <2> HIDE DEF hostVars, documentVars
  <2> QED BY <1>1, <2>1, <2>2
<1>2. CASE PrefabAnswers
  <2>1. prefab.step # "none" /\ prefab'.visible = prefab.visible
    BY <1>2 DEF PrefabAnswers, DocumentTypes, PrefabEdits
  <2> QED BY <1>2, <2>1 DEF PrefabAnswers
<1>3. CASE AssetAnswers
  <2>1. asset.step # "none" /\ asset'.visible = asset.visible
    BY <1>3 DEF AssetAnswers, DocumentTypes, AssetEdits
  <2> QED BY <1>3, <2>1 DEF AssetAnswers
<1>4. CASE LoadAnswers
  <2>1. loader.step # "none" /\ loader'.visible = loader.visible
    BY <1>4 DEF LoadAnswers, DocumentTypes, Loads
  <2> QED BY <1>4, <2>1 DEF LoadAnswers
<1>5. CASE Exit BY <1>5 DEF Exit
<1>6. CASE GameEnds("running") \/ GameEnds("stopping") BY <1>6 DEF GameEnds
<1> QED BY <1>1, <1>2, <1>3, <1>4, <1>5, <1>6

(* Undoing at once leaves nothing pending, undoing in the instances does. *)
LEMMA StepFlow == ASSUME FlowInv, DocumentTypes, NEW undo \in BOOLEAN, Step(undo) PROVE FlowInv'
<1> DEFINE command == Target(history, undo)
           to == IF undo THEN command.undo ELSE command.redo
<1>1. /\ ui = "main" /\ drag = <<>> /\ drag' = <<>> /\ ui' = "done" /\ closing' = closing
      /\ UNCHANGED <<prefab, asset, loader, fileOp>> /\ ~IsPending(history)
  BY DEF Step, Keys, AtMain, Used, Acts, CanUndo, CanRedo
<1> QED BY <1>1 DEF FlowInv, Exclusive, Shows, PrefabActive, AssetActive, LoaderActive, Active, FileBusy

LEMMA AskAssetFlow == ASSUME FlowInv, DocumentTypes, AskAsset PROVE FlowInv'
<1>1. /\ ui = "main" /\ drag = <<>> /\ drag' = <<>> /\ ui' = "done" /\ closing' = closing
      /\ UNCHANGED <<prefab, loader, fileOp>> /\ ~AssetActive /\ ~IsPending(history)
  BY DEF AskAsset, CanRequestAsset, Mouse, Keys, AtMain, Used, Acts
<1>2. CASE UNCHANGED history /\ \E kind, after : asset' = RequestedAsset(kind, after)
  <2>1. asset'.visible BY <1>2 DEF RequestedAsset, NoAsset
  <2>2. ~IsPending(history)' BY <1>1, <1>2 DEF IsPending
  <2> QED BY <1>1, <2>1, <2>2 DEF FlowInv, Exclusive, Shows, PrefabActive, AssetActive, LoaderActive, Active, FileBusy
<1>3. CASE UNCHANGED asset /\ \E kind, after :
             history' = Recorded(history, Command(kind, document.content, after, "none", document))
  <2>1. ~IsPending(history)' BY <1>1, <1>3 DEF IsPending, Recorded
  <2> QED BY <1>1, <1>3, <2>1 DEF FlowInv, Exclusive, Shows, PrefabActive, AssetActive, LoaderActive, Active, FileBusy
<1> QED BY <1>2, <1>3 DEF AskAsset, Execute

(* Leaving a document. *)
LEMMA PerformFlow ==
    ASSUME FlowInv, DocumentTypes, ~Active, ~FileBusy', UNCHANGED drag, drag = <<>>,
           NEW what \in {"none", "new", "open", "exit"}, NEW d, NEW h, ~IsPending(h), NEW given,
           Perform(what, d, h, given), ui' \in {"done", "file"}
    PROVE  FlowInv'
<1>0. h.pending = "none" /\ prefab.step = "none" /\ asset.step = "none"
  BY DEF IsPending, Active, PrefabActive, AssetActive
<1>1. /\ prefab'.step = "none" /\ asset'.step = "none" /\ history'.pending = "none"
  <2>1. CASE Keep(d, h, given) BY <1>0, <2>1 DEF Keep
  <2>2. CASE Replace(Created(d), d, given) BY <2>2 DEF Replace, NoPrefab, NoAsset, NoHistory
  <2> QED BY <2>1, <2>2, PerformDoes
<1> USE DEF FlowInv, Exclusive, Shows, PrefabActive, AssetActive, LoaderActive, Active, IsPending, FileBusy
<1>2. loader'.step # "none" => loader'.visible
  <2>1. CASE UNCHANGED loader BY <2>1
  <2>2. CASE \E u \in DOMAIN disk : loader' = RequestedLoad(u) BY <2>2 DEF RequestedLoad, NoLoad
  <2>3. CASE loader' \in {loader, LoadCancelled}
    <3>1. CASE loader' = loader BY <3>1
    <3>2. CASE loader' = LoadCancelled BY <3>2 DEF LoadCancelled
    <3> QED BY <2>3, <3>1, <3>2
  <2> QED BY <2>1, <2>2, <2>3, PerformDoes
<1> QED BY <1>1, <1>2

LEMMA LeavingFlow == ASSUME FlowInv, DocumentTypes, HostTypes, Requests \/ Discard PROVE FlowInv'
<1>1. /\ ui = "main" /\ ui' = "done" /\ UNCHANGED <<fileOp, drag>> /\ drag = <<>>
  BY DEF Requests, Request, Discard, Keys, AtMain, Used, Acts
<1>2. ~Active /\ ~IsPending(history) /\ ~FileBusy'
  BY <1>1 DEF FlowInv, Shows, Active, FileBusy
<1>3. CASE Discard
  <2>1. Perform(action, document, history, TRUE) BY <1>3 DEF Discard
  <2> QED BY <1>1, <1>2, <2>1, PerformFlow DEF HostTypes
<1>4. ASSUME NEW what \in {"new", "open", "exit"}, Request(what) PROVE FlowInv'
  <2>1. CASE Perform(what, document, history, consent) BY <1>1, <1>2, <1>4, <2>1, PerformFlow
  <2>2. CASE UNCHANGED <<document, history, prefab, asset, loader, closing>>
    BY <1>1, <2>2 DEF FlowInv, Exclusive, Shows, PrefabActive, AssetActive, LoaderActive, Active, IsPending, FileBusy
  <2> QED BY <1>4, <2>1, <2>2 DEF Request
<1> QED BY <1>3, <1>4 DEF Requests

LEMMA CloseFlow == ASSUME FlowInv, DocumentTypes, CloseRequested PROVE FlowInv'
<1> USE DEF FlowInv, Exclusive, Shows, PrefabActive, AssetActive, LoaderActive, Active, IsPending, FileBusy
<1>0. ui' = "done" /\ UNCHANGED <<fileOp, drag>> /\ ~closing BY DEF CloseRequested, Acts
<1>1. CASE UNCHANGED <<document, history, prefab, asset, loader, closing>> BY <1>0, <1>1
<1>2. CASE ~FileBusy /\ ~Active /\ Perform("exit", document, history, consent)
           /\ (LoaderActive \/ ~AsksFirst(document))
  <2>1. /\ prefab'.step = "none" /\ asset'.step = "none" /\ history'.pending = "none" /\ document' = document
    BY <1>2, PerformDoes DEF Keep
  <2>2. loader'.step # "none" => loader'.visible
    <3>1. CASE loader' = loader BY <3>1
    <3>2. CASE loader' = LoadCancelled BY <3>2 DEF LoadCancelled
    <3> QED BY <1>2, <3>1, <3>2, PerformDoes
  <2>3. CASE drag = <<>> BY <1>0, <1>2, <2>1, <2>2, <2>3
  <2>4. CASE drag # <<>>
    <3> QED BY <1>2, <2>4 DEF AsksFirst
  <2> QED BY <2>3, <2>4
<1>3. CASE Active /\ prefab' = PrefabCancelled /\ history' = HistoryCancelled /\ asset' = AssetCancelled
           /\ UNCHANGED <<document, loader, closing>>
  BY <1>0, <1>3 DEF PrefabCancelled, HistoryCancelled, AssetCancelled, NoPrefab, NoAsset
<1>4. CASE /\ ~Active /\ ~LoaderActive /\ prefab' = NoPrefab /\ asset' = NoAsset
           /\ loader' = [loader EXCEPT !.visible = FALSE]
           /\ UNCHANGED <<document, history, closing>>
  BY <1>0, <1>4 DEF NoPrefab, NoAsset
<1> QED BY <1>1, <1>2, <1>3, <1>4 DEF CloseRequested

LEMMA FileFrameFlow == ASSUME FlowInv, DocumentTypes, HostTypes, FileFrame PROVE FlowInv'
<1>0. /\ FileBusy /\ ui' = "file" /\ drag' = drag /\ drag = <<>> /\ ~Active /\ ~IsPending(history) /\ ~closing
      /\ ~LoaderActive /\ ~loader.visible
  BY DEF FileFrame, FlowInv, Exclusive, Shows, Active
<1>1. CASE SaveCompletes
  <2> DEFINE accepted == SaveAccepted(document, fileOp)
             d == IF accepted THEN Saved(document, fileOp) ELSE document
             h == IF accepted THEN AfterReceipt(history, d) ELSE history
             clean == accepted /\ ~d.dirty
             what == IF clean THEN action ELSE "none"
  <2>1. Perform(what, d, h, consent) /\ fileOp' = NoFileOp BY <1>1 DEF SaveCompletes
  <2>2. ~IsPending(h) BY <1>0, MarkSavedIs DEF AfterReceipt, DocumentTypes, IsPending
  <2>3. what \in {"none", "new", "open", "exit"} BY DEF HostTypes
  <2> HIDE DEF d, h, what
  <2>4. ~FileBusy' BY <2>1 DEF FileBusy, NoFileOp
  <2> QED BY <1>0, <2>1, <2>2, <2>3, <2>4, PerformFlow
<1>2. CASE AuthorCompletes
  <2>1. UNCHANGED <<prefab, asset, loader, closing>> BY <1>2 DEF AuthorCompletes
  <2>2. ~IsPending(history)'
    <3>1. ASSUME NEW boundary \in BOOLEAN, Adopt(fileOp.content, boundary) PROVE ~IsPending(history)'
      <4>1. history \in Histories BY DEF DocumentTypes, InRange
      <4>2. history'.pending = "none" \/ history'.pending = history.pending
        BY <3>1, <4>1, RecordedPending DEF Adopt, NoHistory
      <4> QED BY <1>0, <4>2 DEF IsPending
    <3>2. CASE UNCHANGED history BY <1>0, <3>2 DEF IsPending
    <3>3. CASE Adopt(fileOp.content, FALSE) BY <3>1, <3>3
    <3>4. CASE Adopt(fileOp.content, fileOp.kind = "write") BY <3>1, <3>4
    <3> QED BY <1>2, <3>2, <3>3, <3>4 DEF AuthorCompletes
  <2> QED BY <1>0, <2>1, <2>2
      DEF FlowInv, Exclusive, Shows, PrefabActive, AssetActive, LoaderActive, Active, FileBusy
<1>3. CASE UNCHANGED <<document, history, prefab, asset, loader, fileOp, closing>>
  BY <1>0, <1>3 DEF FlowInv, Exclusive, Shows, PrefabActive, AssetActive, LoaderActive, Active, IsPending, FileBusy
<1> QED BY <1>1, <1>2, <1>3 DEF FileFrame

(* The face a frame shows fits what it left under way. *)
LEMMA FaceShows ==
    ASSUME ui' = Face, closing' = closing, PrefabActive' => prefab'.visible, AssetActive' => asset'.visible,
           LoaderActive' => loader'.visible
    PROVE  /\ ui' = "main" => ~closing' /\ ~Active' /\ ~loader'.visible
           /\ ui' = "loader" => loader'.visible
BY DEF Face, PrefabActive, AssetActive, LoaderActive, Active

LEMMA FrameFlow == ASSUME FlowInv, DocumentTypes, Frame PROVE FlowInv'
<1>0. ~FileBusy /\ ~FileBusy' /\ closing' = closing /\ ui' = Face BY DEF Frame, FileBusy
<1> SUFFICES /\ Exclusive'
             /\ PrefabActive' => prefab'.visible
             /\ AssetActive' => asset'.visible
             /\ LoaderActive' => loader'.visible
             /\ loader'.visible \/ closing => ~Active'
             /\ drag' # <<>> => ~closing /\ ~Active' /\ ~loader'.visible /\ document'.dirty
  BY <1>0, FaceShows DEF FlowInv, Shows
<1>1. CASE AdvanceLoader
  <2> USE DEF FlowInv, Exclusive, Shows, PrefabActive, AssetActive, LoaderActive, Active, IsPending, FileBusy
  <2>1. CASE Replace(Adopted(document, loader.uri), document, consent) /\ loader' = NoLoad /\ drag' = <<>>
    BY <1>0, <2>1 DEF Replace, NoLoad, NoPrefab, NoAsset, NoHistory
  <2>2. CASE UNCHANGED <<document, history, prefab, asset, drag>> /\ loader'.visible = loader.visible
             /\ (LoaderActive' => LoaderActive)
    BY <1>0, <1>1, <2>2 DEF AdvanceLoader
  <2>3. ASSUME UNCHANGED <<document, history, prefab, asset, drag>>,
               ~(loader.step = "loaded" /\ ~loader.cancelled)
        PROVE  loader'.visible = loader.visible /\ (LoaderActive' => LoaderActive)
    <3>1. loader.step \in {"none", "queued", "loading", "loaded", "failed"} /\ loader.cancelled \in BOOLEAN
      BY DEF DocumentTypes, Loads
    <3> QED BY <1>1, <2>3, <3>1 DEF AdvanceLoader, DocumentTypes, Loads
  <2>4. loader.step \in {"none", "queued", "loading", "loaded", "failed"} /\ loader.cancelled \in BOOLEAN
    BY DEF DocumentTypes, Loads
  <2>5. \/ Replace(Adopted(document, loader.uri), document, consent) /\ loader' = NoLoad /\ drag' = <<>>
        \/ /\ UNCHANGED <<document, history, prefab, asset, drag>>
           /\ ~(loader.step = "loaded" /\ ~loader.cancelled)
    BY <1>1, <2>4 DEF AdvanceLoader
  <2> QED BY <2>1, <2>2, <2>3, <2>5
<1>2. CASE Active /\ (AdvancePrefab \/ AdvanceHistory \/ AdvanceAsset) /\ UNCHANGED <<loader, drag>>
  <2>1. ~LoaderActive /\ ~loader.visible /\ ~closing /\ drag = <<>>
    BY <1>2 DEF FlowInv, Exclusive, Shows
  <2>2. CASE AdvancePrefab
    <3>1. ~AssetActive /\ ~IsPending(history) /\ prefab.visible BY <2>2 DEF AdvancePrefab, FlowInv, Exclusive, Shows
    <3>0. history \in Histories /\ prefab \in PrefabEdits BY DEF DocumentTypes, InRange
    <3>2. ~IsPending(history)'
      <4>1. \/ UNCHANGED history
            \/ \E command : history' = Recorded(history, command)
        BY <2>2, <3>0 DEF AdvancePrefab, PrefabActive, PrefabEdits
      <4> QED BY <3>0, <3>1, <4>1, RecordedPending DEF IsPending
    <3>3. prefab'.step # "none" => prefab'.visible
      <4>1. \/ prefab' = prefab \/ prefab' \in {PrefabFinished(TRUE), PrefabFinished(FALSE)}
            \/ \E next \in {"assets", "operation"} : prefab' = [prefab EXCEPT !.step = next]
        BY <2>2, <3>0 DEF AdvancePrefab, PrefabActive, PrefabEdits
      <4>2. PrefabFinished(TRUE).step = "none" /\ PrefabFinished(FALSE).step = "none"
        BY DEF PrefabFinished, NoPrefab
      <4> QED BY <3>0, <3>1, <4>1, <4>2 DEF PrefabEdits
    <3>4. asset' = asset /\ ~AssetActive BY <2>2, <3>1 DEF AdvancePrefab
    <3> QED BY <1>0, <1>2, <2>1, <3>2, <3>3, <3>4
        DEF Exclusive, PrefabActive, AssetActive, LoaderActive, Active
  <2>3. CASE AdvanceHistory
    <3>1. ~PrefabActive /\ ~AssetActive BY <2>3 DEF AdvanceHistory, FlowInv, Exclusive
    <3>2. ~IsPending(history)'
      <4>1. \E h : history' = Settled(h) BY <2>3 DEF AdvanceHistory
      <4> QED BY <4>1, AdvanceHistoryTypes, <2>3, <1>2 DEF IsPending, Settled
    <3> QED BY <1>2, <2>1, <2>3, <3>1, <3>2
        DEF AdvanceHistory, Exclusive, PrefabActive, AssetActive, LoaderActive, Active
  <2>4. CASE AdvanceAsset
    <3>1. ~PrefabActive /\ ~IsPending(history) /\ asset.visible BY <2>4 DEF AdvanceAsset, FlowInv, Exclusive, Shows
    <3>0. history \in Histories /\ asset \in AssetEdits BY DEF DocumentTypes, InRange
    <3>2. ~IsPending(history)'
      <4>1. \/ UNCHANGED history
            \/ \E command : history' = Recorded(history, command)
        BY <2>4, <3>0 DEF AdvanceAsset, AssetActive, AssetEdits, Execute
      <4> QED BY <3>0, <3>1, <4>1, RecordedPending DEF IsPending
    <3>3. asset'.step # "none" => asset'.visible
      <4>1. asset' = asset \/ asset' = NoAsset \/ asset' = [NoAsset EXCEPT !.visible = TRUE]
        BY <2>4, <3>0 DEF AdvanceAsset, AssetActive, AssetEdits
      <4>2. NoAsset.step = "none" /\ [NoAsset EXCEPT !.visible = TRUE].step = "none" BY DEF NoAsset
      <4> QED BY <3>1, <4>1, <4>2
    <3>4. prefab' = prefab /\ ~PrefabActive BY <2>4, <3>1 DEF AdvanceAsset
    <3> QED BY <1>0, <1>2, <2>1, <3>2, <3>3, <3>4
        DEF Exclusive, PrefabActive, AssetActive, LoaderActive, Active
  <2> QED BY <1>2, <2>2, <2>3, <2>4
<1>3. CASE ~Active /\ FinishDrag
  <2>1. ~IsPending(history)' BY <1>3 DEF FinishDrag, Active, IsPending, Recorded
  <2> QED BY <1>0, <1>3, <2>1
      DEF FinishDrag, FlowInv, Exclusive, Shows, PrefabActive, AssetActive, LoaderActive, Active, FileBusy
<1> QED BY <1>1, <1>2, <1>3 DEF Frame

(***************************************************************************)
(* Types, for what the user does and what answers                          *)
(***************************************************************************)
LEMMA InitTypes == Init => DocumentTypes /\ HostTypes
<1> SUFFICES ASSUME Init PROVE DocumentTypes /\ HostTypes OBVIOUS
<1> USE DEF Init, InitDocuments
<1>0. Startup \in Uris /\ MaxInputs \in Nat
  BY DocumentAssumption, HostAssumption DEF DocumentAssumption, HostAssumption
<1>1. document \in Documents BY BlankIsContent DEF Documents, SomeUri
<1>2. Idle(history) BY ClearedHistory DEF Idle, IsPending
<1>3. loader \in Loads /\ loader.uri = Startup BY <1>0 DEF NoLoad, Loads
<1>4. disk \in [{Startup} -> Contents] BY BlankIsContent
<1>5. DOMAIN disk = {Startup} BY <1>4
<1>6. prefab \in PrefabEdits /\ asset \in AssetEdits /\ fileOp \in FileOps BY NothingIsTyped
<1>7. HostTypes BY <1>0 DEF HostTypes
<1>8. drag = <<>> OBVIOUS
<1> HIDE DEF Init, InitDocuments
<1> QED BY <1>0, <1>1, <1>2, <1>3, <1>4, <1>5, <1>6, <1>7, <1>8 DEF DocumentTypes, Idle

LEMMA KeptTypes == ASSUME DocumentTypes, UNCHANGED documentVars PROVE DocumentTypes'
BY DEF DocumentTypes, documentVars, InRange, IsPending, CanMove

(* What leaves the document, its history and the files alone. *)
LEMMA AskedTypes ==
    ASSUME DocumentTypes, UNCHANGED <<document, history, disk, drag>>,
           prefab' \in PrefabEdits, asset' \in AssetEdits, loader' \in Loads, fileOp' \in FileOps,
           loader'.uri \in DOMAIN disk
    PROVE  DocumentTypes'
BY DEF DocumentTypes, InRange, IsPending, CanMove

LEMMA AnswerTypes == ASSUME DocumentTypes, FileAnswers PROVE DocumentTypes'
<1>1. PICK ok \in BOOLEAN : Answer(ok) BY DEF FileAnswers
<1>2. fileOp' \in FileOps BY <1>1 DEF Answer, DocumentTypes, FileOps
<1>3. /\ DOMAIN disk' \subseteq Uris /\ DOMAIN disk \subseteq DOMAIN disk' /\ disk' \in [DOMAIN disk' -> Contents]
  <2>1. fileOp.uri \in Uris /\ fileOp.content \in Contents BY DEF DocumentTypes, FileOps
  <2>2. CASE disk' = disk BY <2>2 DEF DocumentTypes
  <2>3. CASE disk' = [u \in DOMAIN disk \cup {fileOp.uri} |-> IF u = fileOp.uri THEN fileOp.content ELSE disk[u]]
    <3>1. DOMAIN disk' = DOMAIN disk \cup {fileOp.uri} BY <2>3
    <3>2. \A u \in DOMAIN disk' : disk'[u] \in Contents BY <2>1, <2>3 DEF DocumentTypes
    <3>3. disk' = [u \in DOMAIN disk' |-> disk'[u]] BY <2>3
    <3> QED BY <2>1, <3>1, <3>2, <3>3 DEF DocumentTypes
  <2> QED BY <1>1, <2>2, <2>3 DEF Answer
<1>4. UNCHANGED <<document, history, prefab, asset, loader, drag>> BY <1>1 DEF Answer
<1> QED BY <1>2, <1>3, <1>4 DEF DocumentTypes, InRange, IsPending, CanMove

LEMMA ServiceTypes ==
    ASSUME DocumentTypes, PrefabAnswers \/ AssetAnswers \/ LoadAnswers PROVE DocumentTypes'
<1>0. prefab \in PrefabEdits /\ asset \in AssetEdits /\ loader \in Loads /\ fileOp \in FileOps
      /\ loader.uri \in DOMAIN disk
  BY DEF DocumentTypes
<1>1. CASE PrefabAnswers
  <2>1. prefab' \in PrefabEdits BY <1>0, <1>1 DEF PrefabAnswers, PrefabEdits
  <2> QED BY <1>0, <1>1, <2>1, AskedTypes DEF PrefabAnswers
<1>2. CASE AssetAnswers
  <2>1. asset' \in AssetEdits BY <1>0, <1>2 DEF AssetAnswers, AssetEdits
  <2> QED BY <1>0, <1>2, <2>1, AskedTypes DEF AssetAnswers
<1>3. CASE LoadAnswers
  <2>1. loader' \in Loads /\ loader'.uri = loader.uri BY <1>0, <1>3 DEF LoadAnswers, Loads
  <2> QED BY <1>0, <1>3, <2>1, AskedTypes DEF LoadAnswers
<1> QED BY <1>1, <1>2, <1>3

LEMMA AskTypes ==
    ASSUME DocumentTypes, AskPrefab \/ AskAuthor \/ Save PROVE DocumentTypes'
<1>0. prefab \in PrefabEdits /\ asset \in AssetEdits /\ loader \in Loads /\ fileOp \in FileOps
      /\ loader.uri \in DOMAIN disk /\ document.content \in Contents /\ document.scene \in Nat
      /\ document.uri \in SomeUri
  BY DocumentShape DEF DocumentTypes
<1>1. CASE AskPrefab
  <2>1. PICK parts \in [Instances -> Values] : prefab' = RequestedPrefab(parts) BY <1>1 DEF AskPrefab
  <2>2. prefab' \in PrefabEdits BY <1>0, <2>1, NothingIsTyped DEF RequestedPrefab, PrefabEdits
  <2> QED BY <1>0, <1>1, <2>2, AskedTypes DEF AskPrefab
<1>2. CASE AskAuthor
  <2>1. PICK kind \in {"unpack", "apply", "create"}, v \in Values :
          fileOp' = [NoFileOp EXCEPT !.kind = kind,
                       !.content = [document.content EXCEPT !.parts = [i \in Instances |-> v]]]
    BY <1>2 DEF AskAuthor
  <2>2. [document.content EXCEPT !.parts = [i \in Instances |-> v]] \in Contents BY <1>0 DEF Contents
  <2>3. fileOp' \in FileOps BY <2>1, <2>2, NothingIsTyped DEF FileOps
  <2> QED BY <1>0, <1>2, <2>3, AskedTypes DEF AskAuthor
<1>3. CASE Save
  <2>1. ASSUME NEW u \in Uris, NEW fresh \in BOOLEAN PROVE Saving(document, u, fresh) \in FileOps
    BY <1>0, NothingIsTyped DEF Saving, FileOps
  <2>2. document.uri # Untitled => document.uri \in Uris BY <1>0 DEF SomeUri
  <2>3. fileOp' \in FileOps BY <1>3, <2>1, <2>2 DEF Save, SaveDocument
  <2> QED BY <1>0, <1>3, <2>3, AskedTypes DEF Save
<1> QED BY <1>1, <1>2, <1>3

LEMMA DialogTypes ==
    ASSUME DocumentTypes, PrefabDialog \/ AssetDialog \/ LoaderDialog PROVE DocumentTypes'
<1>0. prefab \in PrefabEdits /\ asset \in AssetEdits /\ loader \in Loads /\ fileOp \in FileOps
      /\ loader.uri \in DOMAIN disk /\ loader.uri \in Uris
  BY DEF DocumentTypes
<1>1. CASE PrefabDialog
  <2>1. prefab' \in PrefabEdits BY <1>0, <1>1, PrefabCancelledIs, NothingIsTyped DEF PrefabDialog
  <2>2. CASE UNCHANGED history BY <1>0, <1>1, <2>1, <2>2, AskedTypes DEF PrefabDialog, Modal
  <2>3. CASE history' = HistoryCancelled
    <3>1. InRange(history') /\ history'.entries = history.entries /\ history'.cursor = history.cursor
          /\ history'.pending = history.pending
      BY <2>3, CancelledIs DEF DocumentTypes
    <3>2. UNCHANGED <<document, asset, loader, fileOp, disk, drag>> BY <1>1 DEF PrefabDialog, Modal
    <3> QED BY <2>1, <3>1, <3>2 DEF DocumentTypes, InRange, IsPending, CanMove
  <2> QED BY <1>1, <2>2, <2>3 DEF PrefabDialog
<1>2. CASE AssetDialog BY <1>0, <1>2, NothingIsTyped, AskedTypes DEF AssetDialog, Modal
<1>3. CASE LoaderDialog
  <2>1. loader' \in Loads /\ loader'.uri = loader.uri
    <3>1. [loader EXCEPT !.visible = FALSE] \in Loads /\ [loader EXCEPT !.visible = FALSE].uri = loader.uri
      BY <1>0 DEF Loads
    <3> QED BY <1>0, <1>3, <3>1, LoadCancelledIs, RequestedLoadIs DEF LoaderDialog
  <2> QED BY <1>0, <1>3, <2>1, AskedTypes DEF LoaderDialog, Modal
<1> QED BY <1>1, <1>2, <1>3

(* The history and the document change together. *)
LEMMA ChangedTypes ==
    ASSUME DocumentTypes, UNCHANGED <<prefab, asset, loader, fileOp, disk>>,
           document' \in Documents, Idle(history'), drag' = <<>> \/ \E v \in Values : drag' = <<v>>
    PROVE  DocumentTypes'
BY DEF DocumentTypes, Idle, InRange, IsPending, CanMove

LEMMA EditTypes == ASSUME DocumentTypes, FlowInv, Edit PROVE DocumentTypes'
<1>0. /\ document \in Documents /\ document.content \in Contents /\ document.content.name \in Values
  BY DocumentShape, ContentShape DEF DocumentTypes
<1>1. PICK v \in Values :
        LET content == [document.content EXCEPT !.name = v]
        IN \/ \E key \in {"none", "drag"} : Change(content, key) /\ UNCHANGED drag
           \/ /\ document' = Edited(document, content) /\ drag' = <<document.content.name>>
              /\ UNCHANGED history
  BY DEF Edit
<1> DEFINE content == [document.content EXCEPT !.name = v]
<1>2. content \in Contents BY <1>0 DEF Contents
<1>3. Idle(history) BY DEF Edit, Mouse, Keys, AtMain, FlowInv, Shows, Active, Idle, DocumentTypes
<1> HIDE DEF content
<1>4. document' \in Documents BY <1>0, <1>1, <1>2, EditedIs DEF Change, content
<1>5. UNCHANGED <<prefab, asset, loader, fileOp, disk>> BY DEF Edit
<1>6. CASE UNCHANGED history /\ drag' = <<document.content.name>>
  <2>1. Idle(history') BY <1>3, <1>6
  <2> QED BY <1>0, <1>4, <1>5, <1>6, <2>1, ChangedTypes
<1>7. ASSUME NEW key \in {"none", "drag"}, Change(content, key), UNCHANGED drag PROVE DocumentTypes'
  <2>1. Command("name", document.content, content, key, document) \in Commands
    BY <1>0, <1>2, CommandIs DEF Kinds, MergeKeys
  <2>2. history' = Recorded(history, Command("name", document.content, content, key, document))
    BY <1>7 DEF Change
  <2>3. Idle(history') BY <1>3, <2>1, <2>2, RecordedIsIdle
  <2>4. drag' = <<>> \/ \E x \in Values : drag' = <<x>> BY <1>7 DEF DocumentTypes
  <2> QED BY <1>4, <1>5, <2>3, <2>4, ChangedTypes
<1> QED BY <1>1, <1>6, <1>7 DEF content

LEMMA AskAssetTypes == ASSUME DocumentTypes, FlowInv, AskAsset PROVE DocumentTypes'
<1>0. /\ prefab \in PrefabEdits /\ asset \in AssetEdits /\ loader \in Loads /\ fileOp \in FileOps
      /\ loader.uri \in DOMAIN disk /\ document \in Documents /\ document.content \in Contents
      /\ document.scene \in Nat
  BY DocumentShape DEF DocumentTypes
<1>1. PICK kind \in {"mesh", "author"}, v \in Values :
        LET after == IF kind = "mesh" THEN [document.content EXCEPT !.mesh = v]
                     ELSE [document.content EXCEPT !.parts = [i \in Instances |-> v]]
        IN \/ asset' = RequestedAsset(kind, after) /\ UNCHANGED <<document, history, consent>>
           \/ /\ kind = "mesh" /\ UNCHANGED asset /\ consent' = FALSE
              /\ Execute(Command(kind, document.content, after, "none", document))
  BY DEF AskAsset
<1> DEFINE after == IF kind = "mesh" THEN [document.content EXCEPT !.mesh = v]
                    ELSE [document.content EXCEPT !.parts = [i \in Instances |-> v]]
<1>2. after \in Contents BY <1>0 DEF Contents
<1>3. Idle(history) BY DEF AskAsset, CanRequestAsset, Idle, DocumentTypes
<1>4. UNCHANGED <<prefab, loader, fileOp, disk, drag>> BY DEF AskAsset
<1> HIDE DEF after
<1>5. CASE asset' = RequestedAsset(kind, after) /\ UNCHANGED <<document, history, consent>>
  <2>1. asset' \in AssetEdits BY <1>0, <1>2, <1>5, NothingIsTyped DEF RequestedAsset, AssetEdits
  <2> QED BY <1>0, <1>4, <1>5, <2>1, AskedTypes
<1>6. CASE UNCHANGED asset /\ Execute(Command(kind, document.content, after, "none", document))
  <2>1. Command(kind, document.content, after, "none", document) \in Commands
    BY <1>0, <1>2, CommandIs DEF Kinds, MergeKeys
  <2>2. document' \in Documents /\ Idle(history)' BY <1>3, <1>6, <2>1, ExecuteTypes
  <2>3. Idle(history') BY <2>2 DEF Idle, InRange, IsPending
  <2>4. drag' = <<>> \/ \E x \in Values : drag' = <<x>> BY <1>4 DEF DocumentTypes
  <2> QED BY <1>4, <1>6, <2>2, <2>3, <2>4, ChangedTypes
<1> QED BY <1>1, <1>5, <1>6 DEF after

LEMMA StepTypes == ASSUME DocumentTypes, NEW undo \in BOOLEAN, Step(undo) PROVE DocumentTypes'
<1> DEFINE command == Target(history, undo)
           to == IF undo THEN command.undo ELSE command.redo
<1>0. /\ document \in Documents /\ InRange(history) /\ ~IsPending(history) /\ history.cursor \in Nat
  BY HistoryShape DEF DocumentTypes, InRange, Step, CanUndo, CanRedo
<1>1. CanMove(history, undo) BY <1>0 DEF Step, CanUndo, CanRedo, CanMove
<1>2. command \in Commands /\ to \in Contents BY <1>0, <1>1, TargetIs, CommandShape
<1>3. UNCHANGED <<prefab, asset, loader, fileOp, disk, drag>> BY DEF Step
<1>4. CASE history' = [history EXCEPT !.pending = IF undo THEN "undo" ELSE "redo"] /\ UNCHANGED document
  <2> DEFINE p == IF undo THEN "undo" ELSE "redo"
  <2>1. p \in {"none", "undo", "redo"} /\ (undo <=> p = "undo") OBVIOUS
  <2>2. history' = [history EXCEPT !.pending = p] BY <1>4
  <2> HIDE DEF p
  <2>3. /\ InRange(history') /\ history'.entries = history.entries /\ history'.cursor = history.cursor
        /\ history'.pending = p
    BY <1>0, <2>1, <2>2, PendingIs
  <2>4. CanMove(history', history'.pending = "undo") BY <1>1, <2>1, <2>3 DEF CanMove
  <2> QED BY <1>3, <1>4, <2>3, <2>4 DEF DocumentTypes, InRange, IsPending, CanMove
<1>5. CASE history' = Moved(history, undo)
           /\ document' = Synchronized(Applied(document, command, to, Least(Scenes)), history')
  <2>1. Least(Scenes) \in Nat BY <1>0, SceneIsFree
  <2> HIDE DEF to, command
  <2>2. Applied(document, command, to, Least(Scenes)) \in Documents BY <1>0, <1>2, <2>1, AppliedIs
  <2>3. document' \in Documents BY <1>5, <2>2, SynchronizedIs
  <2>4. InRange(Moved(history, undo)) /\ Moved(history, undo).pending = history.pending
    BY <1>0, <1>1, MovedFields
  <2>5. Idle(history') BY <1>0, <1>5, <2>4 DEF Idle, IsPending
  <2>6. drag' = <<>> \/ \E x \in Values : drag' = <<x>> BY <1>3 DEF DocumentTypes
  <2> QED BY <1>3, <2>3, <2>5, <2>6, ChangedTypes
<1> QED BY <1>4, <1>5 DEF Step

LEMMA LeavingTypes ==
    ASSUME DocumentTypes, HostTypes, FlowInv, Requests \/ Discard \/ CloseRequested PROVE DocumentTypes'
<1>0. UNCHANGED <<fileOp, disk, drag>> BY DEF Requests, Request, Discard, CloseRequested
<1>1. ASSUME ~Active, NEW what \in {"none", "new", "open", "exit"}, NEW given,
             Perform(what, document, history, given)
      PROVE  DocumentTypes'
  <2>1. Idle(history) /\ document \in Documents BY <1>1 DEF Active, Idle, DocumentTypes
  <2>2. /\ document' \in Documents /\ Idle(history)' /\ prefab' \in PrefabEdits /\ asset' \in AssetEdits
        /\ loader' \in Loads /\ loader'.uri \in DOMAIN disk
    BY <1>1, <2>1, PerformTypes
  <2> QED BY <1>0, <2>2 DEF DocumentTypes, Idle
<1>2. CASE UNCHANGED <<document, history, prefab, asset, loader>>
  BY <1>0, <1>2, KeptTypes DEF documentVars
<1>3. CASE Requests \/ Discard
  <2>1. ~Active BY <1>3 DEF Requests, Request, Discard, Keys, AtMain, FlowInv, Shows
  <2>2. \/ \E what \in {"none", "new", "open", "exit"}, given \in {TRUE, consent} :
             Perform(what, document, history, given)
        \/ UNCHANGED <<document, history, prefab, asset, loader>>
    BY <1>3 DEF Requests, Request, Discard, HostTypes
  <2> QED BY <1>1, <1>2, <2>1, <2>2
<1>4. CASE CloseRequested
  <2>1. CASE ~Active /\ Perform("exit", document, history, consent) BY <1>1, <2>1
  <2>2. CASE /\ prefab' = PrefabCancelled /\ history' = HistoryCancelled /\ asset' = AssetCancelled
             /\ UNCHANGED <<document, loader>>
    <3>1. /\ InRange(history') /\ history'.entries = history.entries /\ history'.cursor = history.cursor
          /\ history'.pending = history.pending
      BY <2>2, CancelledIs DEF DocumentTypes
    <3>2. prefab' \in PrefabEdits /\ asset' \in AssetEdits
      BY <2>2, PrefabCancelledIs, AssetCancelledIs DEF DocumentTypes
    <3> QED BY <1>0, <2>2, <3>1, <3>2 DEF DocumentTypes, InRange, IsPending, CanMove
  <2>3. CASE /\ prefab' = NoPrefab /\ asset' = NoAsset /\ loader' = [loader EXCEPT !.visible = FALSE]
             /\ UNCHANGED <<document, history>>
    <3>1. loader' \in Loads /\ loader'.uri = loader.uri BY <2>3 DEF DocumentTypes, Loads
    <3>2. prefab' \in PrefabEdits /\ asset' \in AssetEdits /\ fileOp' \in FileOps /\ loader.uri \in DOMAIN disk
      BY <1>0, <2>3, NothingIsTyped DEF DocumentTypes
    <3> QED BY <1>0, <2>3, <3>1, <3>2, AskedTypes
  <2>4. LoaderActive => ~Active BY DEF FlowInv, Exclusive
  <2> QED BY <1>2, <1>4, <2>1, <2>2, <2>3, <2>4 DEF CloseRequested
<1> QED BY <1>3, <1>4

(***************************************************************************)
(* Types of the frame's own state                                          *)
(***************************************************************************)
LEMMA GameIs == ASSUME NEW what, NEW launched, Game(what, launched), HostTypes
                PROVE game' \in {"off", "running", "stopping"}
BY DEF Game, HostTypes

LEMMA HostStep == ASSUME HostTypes, [Next]_vars PROVE HostTypes'
<1>0. MaxInputs \in Nat BY HostAssumption DEF HostAssumption
<1>1. ASSUME Acts PROVE ui' = "done" /\ inputs' \in 0 .. MaxInputs BY <1>0, <1>1 DEF Acts, HostTypes
<1>2. CASE UNCHANGED vars BY <1>2 DEF vars, hostVars, HostTypes
<1>3. CASE FileAnswers \/ PrefabAnswers \/ AssetAnswers \/ LoadAnswers
  <2>1. UNCHANGED hostVars BY <1>3 DEF FileAnswers, Answer, PrefabAnswers, AssetAnswers, LoadAnswers
  <2> QED BY <2>1 DEF hostVars, HostTypes
<1>4. CASE FileFrame
  <2>1. ui' = "file" BY <1>4 DEF FileFrame
  <2>2. CASE SaveCompletes
    <3>1. action' \in {"none", action} /\ inputs' = inputs BY <2>2 DEF SaveCompletes
    <3>2. \E what, launched : Game(what, launched) BY <2>2 DEF SaveCompletes
    <3> QED BY <2>1, <3>1, <3>2, GameIs DEF HostTypes
  <2>3. CASE AuthorCompletes BY <2>1, <2>3 DEF AuthorCompletes, HostTypes
  <2>4. CASE UNCHANGED <<action, game, inputs>> BY <2>1, <2>4 DEF HostTypes
  <2> QED BY <1>4, <2>2, <2>3, <2>4 DEF FileFrame
<1>5. CASE Frame
  <2>1. ui' = Face /\ UNCHANGED <<action, game, inputs>> BY <1>5 DEF Frame
  <2>2. Face \in {"closing", "prefab", "asset", "loader", "main"} BY DEF Face
  <2> QED BY <2>1, <2>2 DEF HostTypes
<1>6. CASE Exit BY <1>6 DEF Exit, HostTypes
<1>7. CASE Edit \/ AskPrefab \/ AskAsset \/ AskAuthor \/ Undo \/ Redo \/ Save
  <2>1. Acts /\ UNCHANGED <<action, game>>
    BY <1>7 DEF Edit, AskPrefab, AskAsset, AskAuthor, Undo, Redo, Step, Save, Used
  <2> QED BY <1>1, <2>1 DEF HostTypes
<1>8. CASE CancelDialog \/ Run \/ StopGame \/ PrefabDialog \/ AssetDialog \/ LoaderDialog
  <2>1. Acts /\ action' \in {"none", action} /\ game' \in {game, "running", "stopping"}
    BY <1>8 DEF CancelDialog, Run, StopGame, PrefabDialog, AssetDialog, LoaderDialog, Modal, Used
  <2> QED BY <1>1, <2>1 DEF HostTypes
<1>9. CASE Requests \/ Discard \/ CloseRequested
  <2>1. Acts BY <1>9 DEF Requests, Request, Discard, CloseRequested, Used
  <2>2. action' \in {"none", "new", "open", "exit", action}
    BY <1>9 DEF Requests, Request, Discard, CloseRequested
  <2>3. game' = game \/ \E what : Game(what, FALSE)
    BY <1>9 DEF Requests, Request, Discard, CloseRequested
  <2> QED BY <1>1, <2>1, <2>2, <2>3, GameIs DEF HostTypes
<1>10. CASE GameEnds("running") \/ GameEnds("stopping") BY <1>10 DEF GameEnds, HostTypes
<1> QED BY <1>2, <1>3, <1>4, <1>5, <1>6, <1>7, <1>8, <1>9, <1>10 DEF Next

(***************************************************************************)
(* What the dirty flag and the history say                                 *)
(***************************************************************************)
(* What the document's file holds. *)
Stored == IF document.uri \in DOMAIN disk THEN disk[document.uri] ELSE Blank
(* A save that has been answered, and whose frame is still to come. *)
Landed == fileOp.kind = "save" /\ fileOp.done /\ fileOp.ok

(* The history leads to the content before the drag, its numbers stand for contents, and
   the saved one for the file's, until a save that has landed moves it. *)
Truthful(h, c, stored) ==
    /\ Chained(h, c)
    /\ \E label : Labels(label, h, c) /\ (Landed \/ label[h.saved] = stored)
Honest == torn \/ (CleanIsSaved /\ Truthful(history, Before, Stored))

LEMMA HonestKept ==
    ASSUME Honest, torn => torn', UNCHANGED <<drag, disk>>, Landed => Landed',
           document'.content = document.content, document'.uri = document.uri,
           document'.dirty \/ document'.dirty = document.dirty,
           history'.entries = history.entries, history'.cursor = history.cursor,
           history'.current = history.current, history'.saved = history.saved
    PROVE  Honest'
<1>1. CASE torn BY <1>1 DEF Honest
<1>2. CASE CleanIsSaved /\ Truthful(history, Before, Stored)
  <2>1. Before' = Before /\ Stored' = Stored BY DEF Before, Stored
  <2>2. CleanIsSaved' BY <1>2 DEF CleanIsSaved, Unsaved
  <2>3. Chained(history', Before) /\ \A label : Labels(label, history, Before) => Labels(label, history', Before)
    BY <1>2, SamePlace DEF Truthful
  <2>4. Truthful(history, Before, Stored)'
    BY <1>2, <2>1, <2>3 DEF Truthful
  <2> QED BY <2>2, <2>4 DEF Honest
<1> QED BY <1>1, <1>2 DEF Honest

LEMMA HonestRecorded ==
    ASSUME Honest, DocumentTypes, torn => torn', ~Landed, disk' = disk, drag' = <<>>,
           document'.uri = document.uri, document'.dirty,
           NEW command \in Commands, history' = Recorded(history, command),
           command.undo = Before, OfItsKind(command), document'.content = command.redo
    PROVE  Honest'
<1>1. CASE torn BY <1>1 DEF Honest
<1>2. CASE CleanIsSaved /\ Truthful(history, Before, Stored)
  <2>1. Before' = command.redo /\ Stored' = Stored BY DEF Before, Stored
  <2>2. CleanIsSaved' BY DEF CleanIsSaved
  <2>3. InRange(history) /\ Before \in Contents BY BeforeIs DEF DocumentTypes
  <2>4. Chained(history', command.redo) BY <1>2, <2>3, RecordedChained DEF Truthful
  <2>5. PICK label : Labels(label, history, Before) /\ label[history.saved] = Stored BY <1>2 DEF Truthful
  <2>6. PICK other : Labels(other, history', command.redo) /\ other[history.saved] = label[history.saved]
    BY <2>3, <2>5, RecordedLabels
  <2>7. history'.saved = history.saved BY <2>3, RecordedInRange
  <2>8. Truthful(history, Before, Stored)' BY <2>1, <2>4, <2>5, <2>6, <2>7 DEF Truthful
  <2> QED BY <2>2, <2>8 DEF Honest
<1> QED BY <1>1, <1>2 DEF Honest

LEMMA HonestMoved ==
    ASSUME Honest, DocumentTypes, torn => torn', ~Landed, disk' = disk, drag = <<>>, drag' = <<>>,
           NEW undo \in BOOLEAN, CanMove(history, undo), ~torn =>
             document'.content = (IF undo THEN Target(history, undo).undo ELSE Target(history, undo).redo),
           document'.uri = document.uri,
           document'.dirty = HistoryDirty(Moved(history, undo)),
           LET m == Moved(history, undo)
           IN history'.entries = m.entries /\ history'.cursor = m.cursor
              /\ history'.current = m.current /\ history'.saved = m.saved
    PROVE  Honest'
<1>1. CASE torn BY <1>1 DEF Honest
<1>2. CASE ~torn /\ CleanIsSaved /\ Truthful(history, Before, Stored)
  <2> DEFINE t == Target(history, undo)
             to == IF undo THEN t.undo ELSE t.redo
             m == Moved(history, undo)
  <2>1. Before' = to /\ Stored' = Stored /\ Before = document.content BY <1>2 DEF Before, Stored
  <2>2. InRange(history) BY DEF DocumentTypes
  <2>3. Chained(m, to) /\ \A label : Labels(label, history, Before) => Labels(label, m, to)
    BY <1>2, <2>2, MovedChained DEF Truthful
  <2>4. m.saved = history.saved BY <2>2, MovedFields
  <2>5. PICK label : Labels(label, history, Before) /\ label[history.saved] = Stored BY <1>2 DEF Truthful
  <2>6. Labels(label, m, to) BY <2>3, <2>5
  <2> HIDE DEF m, to
  <2>7. Chained(history', to) /\ Labels(label, history', to) BY <2>3, <2>6, SamePlace DEF m
  <2>8. history'.saved = history.saved BY <2>4 DEF m
  <2>9. Truthful(history, Before, Stored)' BY <2>1, <2>5, <2>7, <2>8 DEF Truthful
  <2>10. CleanIsSaved'
    <3>1. SUFFICES ASSUME ~document'.dirty PROVE document'.content = Stored' BY DEF CleanIsSaved, Unsaved, Stored
    <3>2. m.current = m.saved BY <3>1 DEF HistoryDirty, m
    <3>3. label[m.current] = to BY <2>6 DEF Labels
    <3> QED BY <1>2, <2>1, <2>4, <2>5, <3>2, <3>3 DEF to
  <2> QED BY <2>9, <2>10 DEF Honest
<1> QED BY <1>1, <1>2 DEF Honest

LEMMA HonestCleared ==
    ASSUME DocumentTypes', drag' = <<>>, NEW saved \in BOOLEAN, history' = NoHistory(saved),
           saved \/ ~document'.dirty => document'.content = Stored'
    PROVE  Honest'
<1>1. Before' = document'.content BY DEF Before
<1>2. document'.content \in Contents /\ Stored' \in Contents
  <2>1. Stored' \in Contents BY BlankIsContent DEF Stored, DocumentTypes
  <2> QED BY <2>1 DEF DocumentTypes, Documents
<1>3. CleanIsSaved' BY DEF CleanIsSaved, Unsaved, Stored
<1>4. Chained(history', document'.content) BY ClearedHistory
<1>5. \E label : Labels(label, history', document'.content) /\ label[history'.saved] = Stored'
  BY <1>2, ClearedHistory
<1>6. Truthful(history, Before, Stored)' BY <1>1, <1>4, <1>5 DEF Truthful
<1> QED BY <1>3, <1>6 DEF Honest

(***************************************************************************)
(* What is in hand, and what was given up                                  *)
(***************************************************************************)
(* An edit, a save and a pending command are about the document that is there. *)
InHand ==
    /\ PrefabActive => prefab.scene = document.scene
    /\ fileOp.kind = "save" => fileOp.scene = document.scene /\ fileOp.content = document.content
    /\ Landed => fileOp.uri \in DOMAIN disk /\ disk[fileOp.uri] = fileOp.content
    /\ AssetActive => asset.base = document.content /\ Alike(asset.kind, asset.base, asset.after)
    /\ IsPending(history) => Target(history, history.pending = "undo").kind = "parts"

(* Once another document is on its way, or the editor closes, the content is saved or given up. *)
GivenUp == loader.visible \/ closing => torn \/ consent \/ ~Unsaved(document)

Safe == DocumentTypes /\ HostTypes /\ FlowInv
Inv == Safe /\ InHand /\ GivenUp /\ Honest /\ ~lost

LEMMA InvInit == Init => Inv
<1> SUFFICES ASSUME Init PROVE Inv OBVIOUS
<1>1. Safe BY InitTypes, FlowInit DEF Safe
<1>2. /\ document.content = Blank /\ document.uri = Untitled /\ document.dirty /\ drag = <<>>
      /\ history = NoHistory(TRUE) /\ DOMAIN disk = {Startup} /\ ~lost /\ ~IsPending(history)
      /\ prefab.step = "none" /\ asset.step = "none" /\ fileOp.kind = "none"
  BY DEF Init, InitDocuments, NoPrefab, NoAsset, NoFileOp, NoHistory, IsPending
<1>3. Stored = Blank /\ Before = Blank
  BY <1>2, DocumentAssumption DEF Stored, Before, DocumentAssumption
<1>4. InHand BY <1>2 DEF InHand, PrefabActive, AssetActive, Landed
<1>5. Honest
  <2>1. Chained(history, Before) BY <1>2, ClearedHistory
  <2>2. \E label : Labels(label, history, Before) /\ label[history.saved] = Stored
    <3>1. \A c \in Contents : \A s \in Contents : (TRUE => c = s) =>
            \E label : Labels(label, NoHistory(TRUE), c) /\ label[NoHistory(TRUE).saved] = s
      BY ClearedHistory
    <3> QED BY <1>2, <1>3, <3>1, BlankIsContent
  <2> QED BY <1>2, <2>1, <2>2 DEF Honest, Truthful, CleanIsSaved
<1>6. ~Unsaved(document) BY <1>2, <1>3 DEF Unsaved, Stored
<1> QED BY <1>1, <1>2, <1>4, <1>5, <1>6 DEF Inv, GivenUp

LEMMA SafeStep == ASSUME Safe, [Next]_vars PROVE Safe'
<1>0. DocumentTypes /\ HostTypes /\ FlowInv BY DEF Safe
<1>1. HostTypes' BY <1>0, HostStep
<1>2. CASE UNCHANGED vars
  <2>1. UNCHANGED <<documentVars, document, history, prefab, asset, loader, fileOp, drag, ui, closing>>
    BY <1>2 DEF vars, documentVars, hostVars
  <2>2. DocumentTypes' BY <1>0, <2>1, KeptTypes
  <2>3. FlowInv' BY <1>0, <2>1
      DEF FlowInv, Exclusive, Shows, PrefabActive, AssetActive, LoaderActive, Active, IsPending, FileBusy
  <2> QED BY <1>1, <2>2, <2>3 DEF Safe
<1>3. CASE FileAnswers BY <1>0, <1>1, <1>3, AnswerTypes, AnswerFlow DEF Safe
<1>4. CASE PrefabAnswers \/ AssetAnswers \/ LoadAnswers BY <1>0, <1>1, <1>4, ServiceTypes, AnswerFlow DEF Safe
<1>5. CASE Exit \/ GameEnds("running") \/ GameEnds("stopping")
  <2>1. UNCHANGED documentVars BY <1>5 DEF Exit, GameEnds
  <2> QED BY <1>0, <1>1, <1>5, <2>1, KeptTypes, AnswerFlow DEF Safe
<1>6. CASE FileFrame
  <2>1. action \in {"none", "new", "open", "exit"} BY <1>0 DEF HostTypes
  <2> QED BY <1>0, <1>1, <1>6, <2>1, FileFrameTypes, FileFrameFlow DEF Safe
<1>7. CASE Frame
  <2>1. FlowInv' BY <1>0, <1>7, FrameFlow
  <2>2. UNCHANGED <<fileOp, disk>> BY <1>7 DEF Frame
  <2>3. CASE AdvanceLoader BY <1>0, <1>1, <2>1, <2>2, <2>3, AdvanceLoaderTypes DEF Safe
  <2>4. CASE (AdvancePrefab \/ AdvanceHistory \/ AdvanceAsset) /\ UNCHANGED <<loader, drag>>
    BY <1>0, <1>1, <2>1, <2>2, <2>4, AdvancePrefabTypes, AdvanceHistoryTypes, AdvanceAssetTypes DEF Safe
  <2>5. CASE ~Active /\ FinishDrag BY <1>0, <1>1, <2>1, <2>2, <2>5, FinishDragTypes DEF Safe
  <2> QED BY <1>7, <2>3, <2>4, <2>5 DEF Frame
<1>8. CASE Edit BY <1>0, <1>1, <1>8, EditTypes, EditFlow DEF Safe
<1>9. CASE AskPrefab \/ AskAuthor \/ Save BY <1>0, <1>1, <1>9, AskTypes, InputFlow DEF Safe
<1>10. CASE AskAsset BY <1>0, <1>1, <1>10, AskAssetTypes, AskAssetFlow DEF Safe
<1>11. CASE Undo \/ Redo
  <2>1. PICK undo \in BOOLEAN : Step(undo) BY <1>11 DEF Undo, Redo
  <2> QED BY <1>0, <1>1, <2>1, StepTypes, StepFlow DEF Safe
<1>12. CASE Requests \/ Discard \/ CloseRequested
  BY <1>0, <1>1, <1>12, LeavingTypes, LeavingFlow, CloseFlow DEF Safe
<1>13. CASE CancelDialog \/ Run \/ StopGame
  <2>1. UNCHANGED documentVars BY <1>13 DEF CancelDialog, Run, StopGame
  <2> QED BY <1>0, <1>1, <1>13, <2>1, KeptTypes, InputFlow DEF Safe
<1>14. CASE PrefabDialog \/ AssetDialog \/ LoaderDialog BY <1>0, <1>1, <1>14, DialogTypes, DialogFlow DEF Safe
<1> QED BY <1>2, <1>3, <1>4, <1>5, <1>6, <1>7, <1>8, <1>9, <1>10, <1>11, <1>12, <1>13, <1>14 DEF Next

(* A step that leaves the document, the place in its history and the files as they are. *)
LEMMA QuietStep ==
    ASSUME Inv, Safe', UNCHANGED <<document, disk, drag, torn>>, lost' => lost,
           history'.entries = history.entries, history'.cursor = history.cursor,
           history'.current = history.current, history'.saved = history.saved,
           history'.pending = history.pending,
           PrefabActive' => prefab'.scene = document.scene,
           AssetActive' => asset'.base = document.content /\ Alike(asset'.kind, asset'.base, asset'.after),
           fileOp'.kind = "save" => fileOp'.scene = document.scene /\ fileOp'.content = document.content,
           Landed => Landed', Landed' => fileOp' = fileOp,
           loader'.visible \/ closing' => torn \/ consent' \/ ~Unsaved(document)
    PROVE  Inv'
<1>1. Honest' BY HonestKept DEF Inv
<1>2. InHand'
  <2>1. IsPending(history)' => Target(history, history.pending = "undo")'.kind = "parts"
    BY DEF Inv, InHand, IsPending, Target
  <2>2. Landed' => fileOp'.uri \in DOMAIN disk' /\ disk'[fileOp'.uri] = fileOp'.content
    BY DEF Inv, InHand, Landed
  <2> QED BY <2>1, <2>2 DEF InHand
<1>3. GivenUp' BY DEF GivenUp, Unsaved
<1> QED BY <1>1, <1>2, <1>3 DEF Inv

(* What a quiet step leaves alone. *)
SameDocument ==
    /\ UNCHANGED <<document, disk, drag, torn>> /\ (lost' => lost)
    /\ history'.entries = history.entries /\ history'.cursor = history.cursor
    /\ history'.current = history.current /\ history'.saved = history.saved
    /\ history'.pending = history.pending
SameEdits ==
    /\ PrefabActive' => PrefabActive /\ prefab'.scene = prefab.scene
    /\ AssetActive' => AssetActive /\ asset'.base = asset.base /\ asset'.kind = asset.kind
                       /\ asset'.after = asset.after
    /\ fileOp' = fileOp
SameIntent == consent' = consent /\ (loader'.visible \/ closing' => loader.visible \/ closing)

LEMMA QuieterStep == ASSUME Inv, Safe', SameDocument, SameEdits, SameIntent PROVE Inv'
<1>1. /\ PrefabActive' => prefab'.scene = document.scene
      /\ AssetActive' => asset'.base = document.content /\ Alike(asset'.kind, asset'.base, asset'.after)
      /\ fileOp'.kind = "save" => fileOp'.scene = document.scene /\ fileOp'.content = document.content
  BY DEF Inv, InHand, SameEdits
<1>2. Landed' <=> Landed BY DEF Landed, SameEdits
<1>3. loader'.visible \/ closing' => torn \/ consent' \/ ~Unsaved(document) BY DEF Inv, GivenUp, SameIntent
<1> QED BY <1>1, <1>2, <1>3, QuietStep DEF SameDocument, SameEdits

LEMMA QuietAnswers ==
    ASSUME Inv, Safe', \/ UNCHANGED vars \/ PrefabAnswers \/ AssetAnswers \/ LoadAnswers
                       \/ GameEnds("running") \/ GameEnds("stopping")
    PROVE  Inv'
<1>0. prefab \in PrefabEdits /\ asset \in AssetEdits /\ loader \in Loads BY DEF Inv, Safe, DocumentTypes
<1>1. CASE UNCHANGED vars \/ GameEnds("running") \/ GameEnds("stopping")
  <2>1. UNCHANGED documentVars /\ UNCHANGED <<torn, lost, consent, closing>>
    BY <1>1 DEF vars, hostVars, GameEnds
  <2> QED BY <2>1, QuieterStep
      DEF documentVars, SameDocument, SameEdits, SameIntent, PrefabActive, AssetActive
<1>2. CASE PrefabAnswers
  <2>1. PrefabActive /\ prefab'.scene = prefab.scene BY <1>0, <1>2 DEF PrefabAnswers, PrefabActive, PrefabEdits
  <2> QED BY <1>2, <2>1, QuieterStep
      DEF PrefabAnswers, hostVars, SameDocument, SameEdits, SameIntent, AssetActive
<1>3. CASE AssetAnswers
  <2>1. AssetActive /\ asset'.base = asset.base /\ asset'.kind = asset.kind /\ asset'.after = asset.after
    BY <1>0, <1>3 DEF AssetAnswers, AssetActive, AssetEdits
  <2> QED BY <1>3, <2>1, QuieterStep
      DEF AssetAnswers, hostVars, SameDocument, SameEdits, SameIntent, PrefabActive
<1>4. CASE LoadAnswers
  <2>1. loader'.visible = loader.visible BY <1>0, <1>4 DEF LoadAnswers, Loads
  <2> QED BY <1>4, <2>1, QuieterStep
      DEF LoadAnswers, hostVars, SameDocument, SameEdits, SameIntent, PrefabActive, AssetActive
<1> QED BY <1>1, <1>2, <1>3, <1>4

LEMMA QuietDialogs ==
    ASSUME Inv, Safe', CancelDialog \/ Run \/ StopGame \/ PrefabDialog \/ AssetDialog \/ LoaderDialog
    PROVE  Inv'
<1>0. /\ prefab \in PrefabEdits /\ asset \in AssetEdits /\ loader \in Loads /\ InRange(history)
  BY DEF Inv, Safe, DocumentTypes
<1>1. CASE CancelDialog \/ Run \/ StopGame
  <2>1. UNCHANGED documentVars /\ UNCHANGED <<torn, lost, consent, closing>>
    BY <1>1 DEF CancelDialog, Run, StopGame, Used
  <2> QED BY <2>1, QuieterStep
      DEF documentVars, SameDocument, SameEdits, SameIntent, PrefabActive, AssetActive
<1>2. CASE PrefabDialog
  <2>1. SameDocument BY <1>0, <1>2, CancelledIs DEF PrefabDialog, Modal, Used, SameDocument
  <2>2. PrefabActive' => PrefabActive /\ prefab'.scene = prefab.scene
    BY <1>0, <1>2 DEF PrefabDialog, PrefabActive, PrefabCancelled, PrefabEdits, NoPrefab
  <2> QED BY <1>2, <2>1, <2>2, QuieterStep DEF PrefabDialog, Modal, SameEdits, SameIntent, AssetActive
<1>3. CASE AssetDialog
  <2>1. ~AssetActive' BY <1>3 DEF AssetDialog, AssetActive, NoAsset
  <2> QED BY <1>3, <2>1, QuieterStep
      DEF AssetDialog, Modal, Used, SameDocument, SameEdits, SameIntent, PrefabActive
<1>4. CASE LoaderDialog
  <2>1. loader.visible BY <1>4 DEF LoaderDialog, Modal, Inv, Safe, FlowInv, Shows
  <2> QED BY <1>4, <2>1, QuieterStep
      DEF LoaderDialog, Modal, Used, SameDocument, SameEdits, SameIntent, PrefabActive, AssetActive
<1> QED BY <1>1, <1>2, <1>3, <1>4

LEMMA QuietAsks == ASSUME Inv, Safe', AskPrefab \/ AskAuthor \/ Save PROVE Inv'
<1>0. ~FileBusy /\ ~Landed /\ ~loader.visible /\ ~closing
  BY DEF AskPrefab, AskAuthor, Save, Mouse, Keys, AtMain, Inv, Safe, FlowInv, Shows, FileBusy, Landed
<1>1. SameDocument /\ consent' = consent /\ closing' = closing /\ loader' = loader
  BY DEF AskPrefab, AskAuthor, Save, Used, SameDocument
<1>2. CASE AskPrefab
  <2>1. prefab'.scene = document.scene BY <1>2 DEF AskPrefab, RequestedPrefab, NoPrefab
  <2>2. fileOp' = fileOp /\ asset' = asset BY <1>2 DEF AskPrefab
  <2> QED BY <1>0, <1>1, <2>1, <2>2, QuietStep DEF SameDocument, Inv, InHand, AssetActive, Landed
<1>3. CASE AskAuthor
  <2>1. fileOp'.kind \in {"unpack", "apply", "create"} BY <1>3 DEF AskAuthor, NoFileOp
  <2>2. prefab' = prefab /\ asset' = asset BY <1>3 DEF AskAuthor
  <2>3. ~Landed' BY <2>1 DEF Landed
  <2> QED BY <1>0, <1>1, <2>1, <2>2, <2>3, QuietStep DEF SameDocument, Inv, InHand, PrefabActive, AssetActive
<1>4. CASE Save
  <2>1. \E u, fresh : fileOp' = Saving(document, u, fresh) BY <1>4 DEF Save, SaveDocument
  <2>2. fileOp'.scene = document.scene /\ fileOp'.content = document.content /\ ~fileOp'.done
    BY <2>1 DEF Saving, NoFileOp
  <2>3. prefab' = prefab /\ asset' = asset BY <1>4 DEF Save
  <2>4. ~Landed' BY <2>2 DEF Landed
  <2> QED BY <1>0, <1>1, <2>2, <2>3, <2>4, QuietStep DEF SameDocument, Inv, InHand, PrefabActive, AssetActive
<1> QED BY <1>2, <1>3, <1>4

(* Performing an action of the document's menu, on the document or on one that has just been
   saved: what is lost was saved or given up. *)
LEMMA PerformSafe ==
    ASSUME Inv, Safe', ~Active, ~FileBusy', drag = <<>>, UNCHANGED <<disk, drag>>,
           NEW what \in {"none", "new", "open", "exit"}, NEW d, NEW h, ~IsPending(h), NEW given,
           Perform(what, d, h, given),
           torn \/ (Chained(h, d.content)
                    /\ \E label : Labels(label, h, d.content)
                         /\ label[h.saved] = IF d.uri \in DOMAIN disk THEN disk[d.uri] ELSE Blank),
           torn \/ (~d.dirty => ~Unsaved(d)),
           what # "none" => torn \/ given \/ ~Unsaved(d)
                            \/ (what = "exit" /\ loader.visible /\ given = consent /\ d = document),
           what = "none" => given = consent /\ ~loader.visible /\ ~closing
    PROVE  Inv'
<1>0. ~Landed' /\ fileOp'.kind = "none" BY DEF FileBusy, Landed
<1>1. ~PrefabActive /\ ~AssetActive BY DEF Active
<1>2. CASE Keep(d, h, given)
  <2>1. /\ document' = d /\ history' = h /\ consent' = given /\ UNCHANGED <<prefab, asset, lost, torn>>
    BY <1>2 DEF Keep
  <2>2. Honest'
    <3>1. Before' = d.content BY <2>1 DEF Before
    <3>2. Stored' = IF d.uri \in DOMAIN disk THEN disk[d.uri] ELSE Blank BY <2>1 DEF Stored
    <3>3. CleanIsSaved' <=> (~d.dirty => ~Unsaved(d)) BY <2>1 DEF CleanIsSaved, Unsaved
    <3> QED BY <2>1, <3>1, <3>2, <3>3 DEF Honest, Truthful
  <2>3. InHand' BY <1>0, <1>1, <2>1 DEF InHand, PrefabActive, AssetActive, IsPending
  <2>4. GivenUp'
    <3>1. Unsaved(document)' <=> Unsaved(d) BY <2>1 DEF Unsaved
    <3>2. CASE what = "none"
      <4>1. UNCHANGED <<loader, closing>> BY <3>2 DEF Perform
      <4> QED BY <3>2, <4>1 DEF GivenUp
    <3>3. CASE what # "none" /\ (torn \/ given \/ ~Unsaved(d)) BY <2>1, <3>1, <3>3 DEF GivenUp
    <3>4. CASE what = "exit" /\ loader.visible /\ given = consent /\ d = document
      BY <2>1, <3>1, <3>4 DEF Inv, GivenUp
    <3> QED BY <3>2, <3>3, <3>4
  <2> QED BY <2>1, <2>2, <2>3, <2>4 DEF Inv
<1>3. CASE what = "new" /\ Replace(Created(d), d, given) /\ UNCHANGED <<loader, closing>>
  <2>1. /\ document' = Created(d) /\ history' = NoHistory(TRUE)
        /\ prefab' = NoPrefab /\ asset' = NoAsset /\ Lose(d, given)
    BY <1>3 DEF Replace
  <2>2. document'.content = Blank /\ document'.uri = Untitled BY <2>1 DEF Created
  <2>3. Stored' = Blank
    BY <2>2, DocumentAssumption DEF Stored, Inv, Safe, DocumentTypes, DocumentAssumption
  <2>4. Honest'
    <3>1. DocumentTypes' /\ drag' = <<>> BY DEF Safe
    <3> QED BY <2>1, <2>2, <2>3, <3>1, HonestCleared
  <2>5. InHand' BY <1>0, <2>1 DEF InHand, PrefabActive, AssetActive, IsPending, NoPrefab, NoAsset, NoHistory
  <2>6. GivenUp' BY <2>2, <2>3 DEF GivenUp, Unsaved, Stored
  <2>7. ~lost' BY <1>3, <2>1 DEF Lose, Inv
  <2> QED BY <2>4, <2>5, <2>6, <2>7 DEF Inv
<1> QED BY <1>2, <1>3, PerformDoes

(* ... of the document as it is. *)
LEMMA LeaveSafe ==
    ASSUME Inv, Safe', ~Active, ~FileBusy, UNCHANGED <<disk, drag, fileOp>>, drag = <<>>,
           NEW what \in {"none", "new", "open", "exit"}, NEW given,
           Perform(what, document, history, given),
           what # "none" => torn \/ given \/ ~document.dirty
                            \/ (what = "exit" /\ loader.visible /\ given = consent),
           what = "none" => given = consent /\ ~loader.visible /\ ~closing
    PROVE  Inv'
<1>1. ~IsPending(history) /\ ~FileBusy' /\ ~Landed BY DEF Active, FileBusy, Landed
<1>2. torn \/ (Chained(history, document.content)
              /\ \E label : Labels(label, history, document.content)
                   /\ label[history.saved] = IF document.uri \in DOMAIN disk THEN disk[document.uri] ELSE Blank)
  BY <1>1 DEF Inv, Honest, Truthful, Before, Stored
<1>3. torn \/ (~document.dirty => ~Unsaved(document)) BY DEF Inv, Honest, CleanIsSaved
<1>4. what # "none" => torn \/ given \/ ~Unsaved(document)
                       \/ (what = "exit" /\ loader.visible /\ given = consent /\ document = document)
  BY <1>3
<1> QED BY <1>1, <1>2, <1>3, <1>4, PerformSafe

LEMMA LeavingSafe == ASSUME Inv, Safe', Requests \/ Discard PROVE Inv'
<1>0. /\ ~Active /\ ~FileBusy /\ ~loader.visible /\ ~closing /\ UNCHANGED <<disk, drag, fileOp>> /\ drag = <<>>
  BY DEF Requests, Request, Discard, Keys, AtMain, Inv, Safe, FlowInv, Shows, FileBusy
<1>1. ASSUME NEW what \in {"new", "open", "exit"}, Request(what) PROVE Inv'
  <2>1. CASE ~document.dirty /\ Perform(what, document, history, consent)
    BY <1>0, <1>1, <2>1, LeaveSafe
  <2>2. CASE UNCHANGED <<document, history, prefab, asset, loader, closing, game, consent, lost, late>>
    BY <1>0, <1>1, <2>2, QuieterStep
    DEF Request, Used, SameDocument, SameEdits, SameIntent, PrefabActive, AssetActive
  <2> QED BY <1>1, <2>1, <2>2 DEF Request, AsksFirst
<1>2. CASE Discard
  <2>1. Perform(action, document, history, TRUE) /\ action \in {"none", "new", "open", "exit"} /\ action # "none"
    BY <1>2 DEF Discard, Inv, Safe, HostTypes
  <2> QED BY <1>0, <2>1, LeaveSafe
<1> QED BY <1>1, <1>2 DEF Requests

LEMMA CloseSafe == ASSUME Inv, Safe', CloseRequested PROVE Inv'
<1>0. /\ UNCHANGED <<disk, drag, fileOp>> /\ ~closing /\ prefab \in PrefabEdits /\ asset \in AssetEdits
      /\ loader \in Loads /\ InRange(history)
  BY DEF CloseRequested, Inv, Safe, DocumentTypes
<1>1. CASE UNCHANGED <<document, history, prefab, asset, loader, closing, game, consent, lost, torn, late>>
  BY <1>0, <1>1, QuieterStep DEF SameDocument, SameEdits, SameIntent, PrefabActive, AssetActive
<1>2. CASE ~FileBusy /\ LoaderActive /\ Perform("exit", document, history, consent)
  <2>1. ~Active /\ loader.visible /\ drag = <<>> BY <1>2 DEF Inv, Safe, FlowInv, Exclusive, Shows
  <2> QED BY <1>0, <1>2, <2>1, LeaveSafe
<1>3. CASE Active /\ prefab' = PrefabCancelled /\ history' = HistoryCancelled /\ asset' = AssetCancelled
           /\ UNCHANGED <<document, loader, closing, game, consent, lost, torn, late>>
  <2>1. SameDocument BY <1>0, <1>3, CancelledIs DEF SameDocument
  <2>2. PrefabActive' => PrefabActive /\ prefab'.scene = prefab.scene
    BY <1>0, <1>3 DEF PrefabActive, PrefabCancelled, PrefabEdits, NoPrefab
  <2>3. ~AssetActive'
    BY <1>3 DEF AssetActive, AssetCancelled, NoAsset
  <2> QED BY <1>0, <1>3, <2>1, <2>2, <2>3, QuieterStep DEF SameEdits, SameIntent
<1>4. CASE /\ prefab' = NoPrefab /\ asset' = NoAsset /\ loader' = [loader EXCEPT !.visible = FALSE]
           /\ UNCHANGED <<document, history, closing, game, consent, lost, torn, late>>
  <2>1. ~PrefabActive' /\ ~AssetActive' BY <1>4 DEF PrefabActive, AssetActive, NoPrefab, NoAsset
  <2>2. ~loader'.visible BY <1>0, <1>4 DEF Loads
  <2> QED BY <1>0, <1>4, <2>1, <2>2, QuieterStep DEF SameDocument, SameEdits, SameIntent
<1>5. CASE ~FileBusy /\ ~Active /\ ~document.dirty /\ Perform("exit", document, history, consent)
  <2>1. drag = <<>> BY <1>5 DEF Inv, Safe, FlowInv, Shows
  <2> QED BY <1>0, <1>5, <2>1, LeaveSafe
<1> QED BY <1>1, <1>2, <1>3, <1>4, <1>5 DEF CloseRequested, AsksFirst

(* A step after which nothing is under way, and nobody leaves. *)
LEMMA IdleStep ==
    ASSUME Safe', Honest', ~lost', ~PrefabActive', ~AssetActive', ~IsPending(history)', ~FileBusy',
           ~loader'.visible, ~closing'
    PROVE  Inv'
<1>1. InHand' BY DEF InHand, FileBusy, Landed
<1>2. GivenUp' BY DEF GivenUp
<1> QED BY <1>1, <1>2 DEF Inv

LEMMA EditSafe == ASSUME Inv, Safe', Edit PROVE Inv'
<1>0. /\ ~Active /\ ~FileBusy /\ ~loader.visible /\ ~closing /\ drag = <<>> /\ DocumentTypes /\ Honest /\ ~lost
      /\ UNCHANGED <<prefab, asset, loader, fileOp, disk, closing, lost, torn>>
  BY DEF Edit, Mouse, Keys, AtMain, Used, Inv, Safe, FlowInv, Shows, FileBusy
<1>1. /\ document \in Documents /\ document.content \in Contents /\ document.content.name \in Values
      /\ ~Landed /\ Before = document.content
  BY <1>0, DocumentShape, ContentShape DEF DocumentTypes, FileBusy, Landed, Before
<1>2. PICK v \in Values :
        LET content == [document.content EXCEPT !.name = v]
        IN \/ \E key \in {"none", "drag"} : Change(content, key) /\ UNCHANGED drag
           \/ /\ document' = Edited(document, content) /\ drag' = <<document.content.name>>
              /\ UNCHANGED history
  BY DEF Edit
<1> DEFINE content == [document.content EXCEPT !.name = v]
<1>3. content \in Contents /\ Alike("name", document.content, content) BY <1>1 DEF Contents, Alike
<1>4. [content EXCEPT !.name = document.content.name] = document.content
  <2> DEFINE back == [content EXCEPT !.name = document.content.name]
  <2>1. /\ back \in Contents /\ back.name = document.content.name
        /\ back.mesh = document.content.mesh /\ back.parts = document.content.parts
    BY <1>1 DEF Contents
  <2> HIDE DEF back
  <2>2. back = document.content BY <1>1, <2>1, SameContent
  <2> QED BY <2>2 DEF back
<1> HIDE DEF content
<1>5. document' = Edited(document, content) BY <1>2 DEF Change, content
<1>6. document'.content = content /\ document'.dirty /\ document'.uri = document.uri
  BY <1>1, <1>3, <1>5, EditedIs
<1>7. ~PrefabActive' /\ ~AssetActive' /\ ~FileBusy' /\ ~IsPending(history)'
  <2>1. ~PrefabActive' /\ ~AssetActive' /\ ~FileBusy' BY <1>0 DEF Active, PrefabActive, AssetActive, FileBusy
  <2>2. history \in Histories /\ ~IsPending(history) BY <1>0 DEF Active, DocumentTypes, InRange
  <2>3. UNCHANGED history \/ \E command : history' = Recorded(history, command) BY <1>2 DEF Change, content
  <2>4. ~IsPending(history)' BY <2>2, <2>3, RecordedPending DEF IsPending
  <2> QED BY <2>1, <2>4
<1>8. Honest'
  <2>1. ASSUME NEW key \in {"none", "drag"}, Change(content, key), UNCHANGED drag PROVE Honest'
    <3> DEFINE command == Command("name", document.content, content, key, document)
    <3>1. command \in Commands /\ command.kind = "name" /\ command.undo = document.content
          /\ command.redo = content
      BY <1>1, <1>3, CommandIs DEF Kinds, MergeKeys
    <3>2. history' = Recorded(history, command) BY <2>1 DEF Change
    <3> HIDE DEF command
    <3>3. OfItsKind(command) BY <1>3, <3>1 DEF OfItsKind
    <3> QED BY <1>0, <1>1, <1>6, <2>1, <3>1, <3>2, <3>3, HonestRecorded
  <2>2. CASE drag' = <<document.content.name>> /\ UNCHANGED history
    <3>1. drag' # <<>> /\ drag'[1] = document.content.name BY <2>2
    <3>2. Before' = Before BY <1>1, <1>4, <1>6, <3>1 DEF Before
    <3>3. Stored' = Stored BY <1>0, <1>6 DEF Stored
    <3>4. CASE torn BY <1>0, <3>4 DEF Honest
    <3>5. CASE Truthful(history, Before, Stored)
      <4>1. Truthful(history, Before, Stored)'
        BY <1>0, <1>1, <2>2, <3>2, <3>3, <3>5 DEF Truthful, Landed
      <4> QED BY <1>6, <4>1 DEF Honest, CleanIsSaved
    <3> QED BY <1>0, <3>4, <3>5 DEF Honest
  <2> QED BY <1>2, <2>1, <2>2 DEF content
<1> QED BY <1>0, <1>7, <1>8, IdleStep

(* Doing a command and recording it, while nothing is dragged. *)
LEMMA ExecuteSafe ==
    ASSUME Honest, DocumentTypes, ~Landed, disk' = disk, drag = <<>>, drag' = <<>>, torn => torn',
           NEW command \in Commands, Execute(command), command.undo = document.content,
           command.key = "none", Alike(command.kind, document.content, command.redo)
    PROVE  Honest' /\ history'.pending = history.pending /\ document'.content = command.redo
<1>1. document \in Documents /\ Least(Scenes) \in Nat /\ command.redo \in Contents /\ InRange(history)
  BY SceneIsFree, CommandShape DEF DocumentTypes
<1>2. document'.content = command.redo /\ document'.dirty /\ document'.uri = document.uri
  BY <1>1, AppliedIs DEF Execute
<1>3. history' = Recorded(history, command) BY DEF Execute
<1>4. OfItsKind(command) BY DEF OfItsKind
<1>5. Before = document.content BY DEF Before
<1>6. Honest' BY <1>2, <1>3, <1>4, <1>5, HonestRecorded
<1> QED BY <1>1, <1>2, <1>3, <1>6, RecordedInRange

LEMMA AskAssetSafe == ASSUME Inv, Safe', AskAsset PROVE Inv'
<1>0. /\ ~Active /\ ~FileBusy /\ ~loader.visible /\ ~closing /\ drag = <<>> /\ DocumentTypes /\ Honest /\ ~lost
      /\ UNCHANGED <<prefab, loader, fileOp, disk, drag, closing, lost, torn>>
  BY DEF AskAsset, Mouse, Keys, AtMain, Used, Inv, Safe, FlowInv, Shows, FileBusy
<1>1. document.content \in Contents /\ document \in Documents /\ ~Landed
  BY <1>0, DocumentShape DEF DocumentTypes, FileBusy, Landed
<1>2. PICK kind \in {"mesh", "author"}, v \in Values :
        LET after == IF kind = "mesh" THEN [document.content EXCEPT !.mesh = v]
                     ELSE [document.content EXCEPT !.parts = [i \in Instances |-> v]]
        IN \/ asset' = RequestedAsset(kind, after) /\ UNCHANGED <<document, history, consent>>
           \/ /\ kind = "mesh" /\ UNCHANGED asset /\ consent' = FALSE
              /\ Execute(Command(kind, document.content, after, "none", document))
  BY DEF AskAsset
<1> DEFINE after == IF kind = "mesh" THEN [document.content EXCEPT !.mesh = v]
                    ELSE [document.content EXCEPT !.parts = [i \in Instances |-> v]]
<1>3. after \in Contents /\ Alike(kind, document.content, after) BY <1>1 DEF Contents, Alike
<1> HIDE DEF after
<1>4. CASE asset' = RequestedAsset(kind, after) /\ UNCHANGED <<document, history, consent>>
  <2>1. asset'.base = document.content /\ asset'.kind = kind /\ asset'.after = after
    BY <1>4 DEF RequestedAsset, NoAsset
  <2> QED BY <1>0, <1>1, <1>3, <1>4, <2>1, QuietStep DEF Inv, InHand, PrefabActive, Landed
<1>5. CASE UNCHANGED asset /\ Execute(Command(kind, document.content, after, "none", document))
  <2> DEFINE command == Command(kind, document.content, after, "none", document)
  <2>1. /\ command \in Commands /\ command.kind = kind /\ command.undo = document.content
        /\ command.redo = after /\ command.key = "none"
    BY <1>1, <1>3, CommandIs DEF Kinds, MergeKeys
  <2> HIDE DEF command
  <2>2. Honest' /\ history'.pending = history.pending
    BY <1>0, <1>1, <1>3, <1>5, <2>1, ExecuteSafe DEF command
  <2>3. ~PrefabActive' /\ ~AssetActive' /\ ~FileBusy' /\ ~IsPending(history)'
    BY <1>0, <1>5, <2>2 DEF Active, PrefabActive, AssetActive, FileBusy, IsPending
  <2> QED BY <1>0, <2>2, <2>3, IdleStep
<1> QED BY <1>2, <1>4, <1>5 DEF after

LEMMA StepSafe == ASSUME Inv, Safe', NEW undo \in BOOLEAN, Step(undo) PROVE Inv'
<1> DEFINE command == Target(history, undo)
           to == IF undo THEN command.undo ELSE command.redo
<1>0. /\ ~Active /\ ~FileBusy /\ ~loader.visible /\ ~closing /\ drag = <<>> /\ DocumentTypes /\ Honest /\ ~lost
      /\ UNCHANGED <<prefab, asset, loader, fileOp, disk, drag, closing, lost, torn>>
  BY DEF Step, Keys, AtMain, Used, Inv, Safe, FlowInv, Shows, FileBusy
<1>1. /\ document \in Documents /\ InRange(history) /\ ~IsPending(history) /\ history.cursor \in Nat /\ ~Landed
  BY <1>0, HistoryShape DEF DocumentTypes, InRange, Active, FileBusy, Landed
<1>2. CanMove(history, undo) BY <1>1 DEF Step, CanUndo, CanRedo, CanMove
<1>3. command \in Commands /\ to \in Contents BY <1>1, <1>2, TargetIs, CommandShape
<1>4. CASE command.kind = "parts" /\ history' = [history EXCEPT !.pending = IF undo THEN "undo" ELSE "redo"]
           /\ UNCHANGED <<document, consent>>
  <2> DEFINE p == IF undo THEN "undo" ELSE "redo"
  <2>1. p \in {"none", "undo", "redo"} /\ (undo <=> p = "undo") OBVIOUS
  <2>2. history' = [history EXCEPT !.pending = p] BY <1>4
  <2> HIDE DEF p, command
  <2>3. /\ history'.entries = history.entries /\ history'.cursor = history.cursor
        /\ history'.current = history.current /\ history'.saved = history.saved
        /\ history'.pending = p
    BY <1>1, <2>1, <2>2, PendingIs
  <2>4. Honest' BY <1>0, <1>4, <2>3, HonestKept DEF Landed
  <2>5. Target(history', p = "undo") = command BY <2>1, <2>3 DEF Target, command
  <2>6. InHand'
    <3>1. ~PrefabActive' /\ ~AssetActive' /\ fileOp'.kind # "save"
      BY <1>0 DEF Active, PrefabActive, AssetActive, FileBusy
    <3>2. Target(history, history.pending = "undo")'.kind = "parts" BY <1>4, <2>3, <2>5
    <3> QED BY <3>1, <3>2 DEF InHand, Landed
  <2>7. GivenUp' BY <1>0 DEF GivenUp
  <2> QED BY <1>0, <2>4, <2>6, <2>7 DEF Inv
<1>5. CASE history' = Moved(history, undo)
           /\ document' = Synchronized(Applied(document, command, to, Least(Scenes)), history')
  <2>1. Least(Scenes) \in Nat BY <1>1, SceneIsFree DEF DocumentTypes
  <2>2. ~torn => Alike(command.kind, document.content, to)
    <3>1. SUFFICES ASSUME ~torn PROVE Alike(command.kind, document.content, to) OBVIOUS
    <3>2. Chained(history, document.content) BY <1>0, <3>1 DEF Honest, Truthful, Before
    <3>3. OfItsKind(command) /\ document.content = IF undo THEN command.redo ELSE command.undo
      BY <1>1, <1>2, <3>2, MovedChained
    <3> QED BY <3>3 DEF OfItsKind, Alike
  <2> DEFINE e == Applied(document, command, to, Least(Scenes))
  <2>3. e \in Documents /\ e.uri = document.uri /\ (~torn => e.content = to)
    <3> HIDE DEF command, to
    <3> QED BY <1>1, <1>3, <2>1, <2>2, AppliedIs
  <2> HIDE DEF e
  <2>4. /\ document'.content = e.content /\ document'.uri = e.uri
        /\ document'.dirty = HistoryDirty(Moved(history, undo))
    BY <1>5, <2>3, SynchronizedIs DEF e
  <2>5. ~torn => document'.content = (IF undo THEN Target(history, undo).undo ELSE Target(history, undo).redo)
    BY <2>3, <2>4
  <2> HIDE DEF to, command
  <2>6. Honest' BY <1>0, <1>1, <1>2, <1>5, <2>3, <2>4, <2>5, HonestMoved
  <2>7. ~IsPending(history)' BY <1>1, <1>2, <1>5, MovedFields DEF IsPending
  <2>8. ~PrefabActive' /\ ~AssetActive' /\ ~FileBusy' BY <1>0 DEF Active, PrefabActive, AssetActive, FileBusy
  <2> QED BY <1>0, <2>6, <2>7, <2>8, IdleStep
<1> QED BY <1>4, <1>5 DEF Step

LEMMA AnswerSafe == ASSUME Inv, Safe', FileAnswers PROVE Inv'
<1>1. PICK ok \in BOOLEAN : Answer(ok) BY DEF FileAnswers
<1>2. /\ FileBusy /\ ~fileOp.done /\ fileOp \in FileOps /\ fileOp' = [fileOp EXCEPT !.done = TRUE, !.ok = ok]
      /\ UNCHANGED <<document, history, prefab, asset, loader, drag, closing, torn, lost, consent>>
  BY <1>1 DEF Answer, hostVars, Inv, Safe, DocumentTypes
<1>3. /\ fileOp'.kind = fileOp.kind /\ fileOp'.done /\ fileOp'.ok = ok /\ fileOp'.uri = fileOp.uri
      /\ fileOp'.scene = fileOp.scene /\ fileOp'.content = fileOp.content
  BY <1>2 DEF FileOps
<1>4. ~Active /\ ~loader.visible /\ ~closing /\ drag = <<>>
  BY <1>2 DEF Inv, Safe, FlowInv, Exclusive, Shows, FileBusy
<1>5. CASE ok /\ fileOp.kind = "save"
  <2>1. disk' = [u \in DOMAIN disk \cup {fileOp.uri} |-> IF u = fileOp.uri THEN fileOp.content ELSE disk[u]]
    BY <1>1, <1>5 DEF Answer
  <2>2. fileOp.content = document.content /\ fileOp.scene = document.scene BY <1>5 DEF Inv, InHand
  <2>3. fileOp.uri \in DOMAIN disk' /\ disk'[fileOp.uri] = fileOp.content BY <2>1
  <2>4. InHand'
    <3>1. ~PrefabActive' /\ ~AssetActive' /\ ~IsPending(history)'
      BY <1>2, <1>4 DEF Active, PrefabActive, AssetActive, IsPending
    <3> QED BY <1>2, <1>3, <2>2, <2>3, <3>1 DEF InHand
  <2>5. Landed' BY <1>3, <1>5 DEF Landed
  <2>6. CleanIsSaved => CleanIsSaved'
    <3>1. SUFFICES ASSUME ~Unsaved(document) PROVE ~Unsaved(document)' BY <1>2 DEF CleanIsSaved
    <3>2. CASE document.uri = fileOp.uri BY <1>2, <2>2, <2>3, <3>2 DEF Unsaved
    <3>3. CASE document.uri # fileOp.uri BY <1>2, <2>1, <3>1, <3>3 DEF Unsaved
    <3> QED BY <3>2, <3>3
  <2>7. Before' = Before BY <1>2 DEF Before
  <2>8. Honest' BY <1>2, <2>5, <2>6, <2>7 DEF Inv, Honest, Truthful
  <2>9. GivenUp' BY <1>2, <1>4 DEF GivenUp
  <2> QED BY <1>2, <2>4, <2>8, <2>9 DEF Inv
<1>6. CASE ~(ok /\ fileOp.kind = "save")
  <2>1. disk' = disk BY <1>1, <1>6 DEF Answer
  <2>2. ~Landed /\ ~Landed' BY <1>2, <1>3, <1>6 DEF Landed
  <2> QED BY <1>2, <1>3, <1>4, <2>1, <2>2, QuietStep
      DEF Inv, InHand, GivenUp, PrefabActive, AssetActive
<1> QED BY <1>5, <1>6

LEMMA ExitSafe == ASSUME Inv, Safe', Exit PROVE Inv'
<1>1. UNCHANGED documentVars /\ UNCHANGED <<torn, consent, closing>> /\ closing /\ Lose(document, consent)
  BY DEF Exit
<1>2. lost' => lost BY <1>1 DEF Lose, Inv, GivenUp
<1> QED BY <1>1, <1>2, QuieterStep
    DEF documentVars, SameDocument, SameEdits, SameIntent, PrefabActive, AssetActive

LEMMA SaveCompletesSafe == ASSUME Inv, Safe', FileFrame, SaveCompletes PROVE Inv'
<1> DEFINE accepted == SaveAccepted(document, fileOp)
           d == IF accepted THEN Saved(document, fileOp) ELSE document
           h == IF accepted THEN AfterReceipt(history, d) ELSE history
           clean == accepted /\ ~d.dirty
           what == IF clean THEN action ELSE "none"
<1>0. /\ DocumentTypes /\ HostTypes /\ ~Active /\ ~IsPending(history) /\ ~loader.visible /\ ~closing /\ drag = <<>>
      /\ UNCHANGED <<disk, drag>> /\ document \in Documents /\ fileOp \in FileOps /\ InRange(history)
      /\ fileOp.scene = document.scene /\ fileOp.content = document.content /\ fileOp.kind = "save"
      /\ fileOp.done
  BY DEF FileFrame, SaveCompletes, Inv, Safe, FlowInv, Exclusive, Shows, FileBusy, DocumentTypes, InHand, Active
<1>1. Perform(what, d, h, consent) /\ fileOp' = NoFileOp BY DEF SaveCompletes
<1>2. what \in {"none", "new", "open", "exit"} BY <1>0 DEF HostTypes
<1>3. accepted <=> fileOp.ok BY <1>0 DEF SaveAccepted
<1>4. torn \/ Truthful(history, document.content, Stored) BY <1>0 DEF Inv, Honest, Before
<1>5. CASE fileOp.ok
  <2>1. /\ d.content = document.content /\ d.uri = fileOp.uri /\ ~d.dirty
    BY <1>0, <1>3, <1>5, SavedIs
  <2>2. h = MarkSaved(history) BY <1>3, <1>5, <2>1 DEF AfterReceipt
  <2> HIDE DEF d, h
  <2>3. /\ h.entries = history.entries /\ h.cursor = history.cursor /\ h.current = history.current
        /\ h.saved = history.current /\ h.pending = history.pending
    BY <1>0, <2>2, MarkSavedIs
  <2>4. fileOp.uri \in DOMAIN disk /\ disk[fileOp.uri] = document.content
    BY <1>0, <1>5 DEF Inv, InHand, Landed
  <2>5. torn \/ (Chained(h, d.content)
                /\ \E label : Labels(label, h, d.content)
                     /\ label[h.saved] = IF d.uri \in DOMAIN disk THEN disk[d.uri] ELSE Blank)
    <3>1. SUFFICES ASSUME Truthful(history, document.content, Stored)
                   PROVE  /\ Chained(h, d.content)
                          /\ \E label : Labels(label, h, d.content) /\ label[h.saved] = document.content
      BY <1>4, <2>1, <2>4
    <3>2. PICK label : Labels(label, history, document.content) BY <3>1 DEF Truthful
    <3>3. Labels(label, h, d.content) /\ Chained(h, d.content) BY <2>1, <2>3, <3>1, <3>2, SamePlace DEF Truthful
    <3>4. label[h.saved] = document.content BY <2>3, <3>2 DEF Labels
    <3> QED BY <3>3, <3>4
  <2>6. ~Unsaved(d) BY <2>1, <2>4 DEF Unsaved
  <2>7. ~IsPending(h) /\ ~FileBusy' BY <1>0, <1>1, <2>3 DEF IsPending, FileBusy, NoFileOp
  <2> QED BY <1>0, <1>1, <1>2, <2>5, <2>6, <2>7, PerformSafe
<1>6. CASE ~fileOp.ok
  <2>1. Keep(document, history, consent) /\ UNCHANGED <<loader, closing>>
    BY <1>1, <1>3, <1>6 DEF Perform
  <2>2. ~Landed /\ ~Landed' BY <1>1, <1>6 DEF Landed, NoFileOp
  <2>3. fileOp'.kind # "save" BY <1>1 DEF NoFileOp
  <2> QED BY <1>0, <2>1, <2>2, <2>3, QuietStep DEF Keep, Inv, InHand, PrefabActive, AssetActive
<1> QED BY <1>0, <1>5, <1>6 DEF FileOps

LEMMA AuthorSafe == ASSUME Inv, Safe', FileFrame, AuthorCompletes PROVE Inv'
<1>0. /\ DocumentTypes /\ Honest /\ ~Active /\ ~IsPending(history) /\ ~loader.visible /\ ~closing /\ drag = <<>>
      /\ UNCHANGED <<disk, drag>> /\ document \in Documents /\ fileOp.content \in Contents /\ InRange(history)
      /\ ~Landed
  BY DEF FileFrame, AuthorCompletes, Inv, Safe, FlowInv, Exclusive, Shows, FileBusy, DocumentTypes, FileOps,
         Landed, Active
<1>1. /\ UNCHANGED <<prefab, asset, loader, closing, torn, lost>>
      /\ fileOp' \in {NoFileOp, [fileOp EXCEPT !.kind = "write", !.done = FALSE, !.ok = FALSE]}
  BY DEF AuthorCompletes
<1>2. fileOp'.kind # "save" /\ ~Landed'
  <2>1. NoFileOp.kind = "none" /\ [fileOp EXCEPT !.kind = "write", !.done = FALSE, !.ok = FALSE].kind = "write"
    BY <1>0 DEF NoFileOp, DocumentTypes, FileOps
  <2>2. fileOp'.kind # "save" BY <1>1, <2>1
  <2> QED BY <2>2 DEF Landed
<1>3. ~PrefabActive' /\ ~AssetActive' BY <1>0, <1>1 DEF Active, PrefabActive, AssetActive
<1>4. CASE UNCHANGED <<document, history, consent>>
  BY <1>0, <1>1, <1>2, <1>3, <1>4, QuietStep DEF GivenUp, Inv
<1>5. ASSUME NEW boundary \in BOOLEAN, Adopt(fileOp.content, boundary) PROVE Honest' /\ ~IsPending(history)'
  <2> DEFINE after == Restored(document, fileOp.content, Least(Scenes))
             command == Command("author", document.content, fileOp.content, "none", document)
  <2>1. Least(Scenes) \in Nat BY <1>0, SceneIsFree
  <2>2. after.content = fileOp.content /\ after.dirty /\ after.uri = document.uri
    BY <1>0, <2>1, RestoredIs
  <2>3. /\ command \in Commands /\ command.kind = "author" /\ command.undo = document.content
        /\ command.redo = fileOp.content /\ command.key = "none"
    BY <1>0, CommandIs, DocumentShape DEF Kinds, MergeKeys
  <2> HIDE DEF after, command
  <2>4. CASE boundary
    <3>0. history' = NoHistory(FALSE) BY <1>5, <2>4 DEF Adopt
    <3>1. document'.dirty
      <4>1. document' \in {after, [document EXCEPT !.dirty = TRUE]} BY <1>5, <2>4 DEF Adopt, after
      <4>2. [document EXCEPT !.dirty = TRUE].dirty BY <1>0 DEF Documents
      <4> QED BY <2>2, <4>1, <4>2
    <3>2. DocumentTypes' /\ drag' = <<>> BY <1>0 DEF Safe
    <3>3. Honest' BY <3>0, <3>1, <3>2, HonestCleared
    <3> QED BY <3>0, <3>3 DEF IsPending, NoHistory
  <2>5. CASE document' = after /\ history' = Recorded(history, command)
    <3>1. OfItsKind(command) BY <2>3 DEF OfItsKind, Alike
    <3>2. Before = document.content BY <1>0 DEF Before
    <3>3. Honest' BY <1>0, <1>1, <2>2, <2>3, <2>5, <3>1, <3>2, HonestRecorded
    <3>4. ~IsPending(history)' BY <1>0, <2>5, RecordedPending DEF IsPending, InRange
    <3> QED BY <3>3, <3>4
  <2>6. CASE UNCHANGED <<document, history>>
    <3>1. Honest' BY <1>0, <1>1, <2>6, HonestKept
    <3> QED BY <1>0, <2>6, <3>1 DEF IsPending
  <2> QED BY <1>5, <2>4, <2>5, <2>6 DEF Adopt, after, command
<1>6. ASSUME NEW boundary \in BOOLEAN, Adopt(fileOp.content, boundary), fileOp' = NoFileOp PROVE Inv'
  <2>1. ~FileBusy' BY <1>6 DEF FileBusy, NoFileOp
  <2>2. Honest' /\ ~IsPending(history)' BY <1>5, <1>6
  <2> QED BY <1>0, <1>1, <1>3, <2>1, <2>2, IdleStep DEF Inv
<1> QED BY <1>4, <1>6 DEF AuthorCompletes

LEMMA AdvanceLoaderSafe ==
    ASSUME Inv, Safe', AdvanceLoader, UNCHANGED <<fileOp, disk, closing>>, ~FileBusy PROVE Inv'
<1>0. loader \in Loads /\ ~Landed /\ DocumentTypes /\ ~FileBusy'
  BY DEF Inv, Safe, DocumentTypes, FileBusy, Landed
<1>1. CASE /\ Replace(Adopted(document, loader.uri), document, consent) /\ loader' = NoLoad /\ drag' = <<>>
           /\ loader.step = "loaded"
  <2>1. /\ document' = Adopted(document, loader.uri) /\ history' = NoHistory(TRUE)
        /\ prefab' = NoPrefab /\ asset' = NoAsset /\ Lose(document, consent)
    BY <1>1 DEF Replace
  <2>2. /\ document'.content = disk[loader.uri] /\ document'.uri = loader.uri /\ loader.uri \in DOMAIN disk
    BY <1>0, <2>1 DEF Adopted, DocumentTypes
  <2>3. Stored' = document'.content BY <2>2 DEF Stored
  <2>4. Honest'
    <3>1. DocumentTypes' BY DEF Safe
    <3> QED BY <1>1, <2>1, <2>3, <3>1, HonestCleared
  <2>5. InHand'
    BY <1>0, <2>1 DEF InHand, Landed, FileBusy, PrefabActive, AssetActive, IsPending, NoPrefab, NoAsset, NoHistory
  <2>6. GivenUp' BY <2>2 DEF GivenUp, Unsaved
  <2>7. loader.visible BY <1>1 DEF Inv, Safe, FlowInv, Shows, LoaderActive
  <2>8. ~lost' BY <2>1, <2>7 DEF Lose, Inv, GivenUp
  <2> QED BY <2>4, <2>5, <2>6, <2>8 DEF Inv
<1>2. CASE UNCHANGED <<document, history, prefab, asset, drag, torn, consent, lost>> /\ loader'.visible = loader.visible
  BY <1>2, QuieterStep DEF SameDocument, SameEdits, SameIntent, PrefabActive, AssetActive
<1>3. loader.step \in {"none", "queued", "loading", "loaded", "failed"} /\ loader.cancelled \in BOOLEAN
  BY <1>0 DEF Loads
<1>4. \/ Replace(Adopted(document, loader.uri), document, consent) /\ loader' = NoLoad /\ drag' = <<>>
         /\ loader.step = "loaded"
      \/ /\ UNCHANGED <<document, history, prefab, asset, drag, torn, consent, lost>>
         /\ \/ loader' = loader
            \/ \E next : loader' = [loader EXCEPT !.step = next]
            \/ loader' = [loader EXCEPT !.step = "none", !.cancelled = FALSE]
  BY <1>3 DEF AdvanceLoader
<1>5. CASE /\ UNCHANGED <<document, history, prefab, asset, drag, torn, consent, lost>>
           /\ \/ loader' = loader
              \/ \E next : loader' = [loader EXCEPT !.step = next]
              \/ loader' = [loader EXCEPT !.step = "none", !.cancelled = FALSE]
  <2>1. loader'.visible = loader.visible BY <1>0, <1>5 DEF Loads
  <2> QED BY <1>2, <1>5, <2>1
<1> QED BY <1>1, <1>4, <1>5

(* While an edit has the screen there is no drag, no file and nobody leaving. *)
LEMMA ActiveIs ==
    ASSUME Inv, Active
    PROVE  /\ drag = <<>> /\ ~FileBusy /\ ~Landed /\ ~loader.visible /\ ~closing /\ DocumentTypes /\ Honest
           /\ Before = document.content
BY DEF Inv, Safe, FlowInv, Exclusive, Shows, FileBusy, Landed, Before

(* Running a command's parts over all instances, over some, or over none. *)
LEMMA AdvancePrefabSafe ==
    ASSUME Inv, Safe', AdvancePrefab, UNCHANGED <<fileOp, disk, closing, loader, drag, lost>>,
           consent' = (consent /\ document'.content = document.content)
    PROVE  Inv'
<1>0. /\ Active /\ drag = <<>> /\ ~FileBusy /\ ~Landed /\ ~loader.visible /\ ~closing /\ DocumentTypes /\ Honest
      /\ Before = document.content /\ ~lost /\ InHand
  BY ActiveIs DEF AdvancePrefab, Active, Inv
<1>1. /\ ~AssetActive /\ ~IsPending(history) /\ prefab \in PrefabEdits /\ document \in Documents
      /\ InRange(history)
  BY DEF AdvancePrefab, Inv, Safe, FlowInv, Exclusive, DocumentTypes
<1>2. ~AssetActive' /\ ~FileBusy' /\ ~Landed' /\ fileOp'.kind # "save"
  BY <1>0, <1>1 DEF AdvancePrefab, AssetActive, FileBusy, Landed
<1>3. PrefabFinished(TRUE).step = "none" /\ PrefabFinished(FALSE).step = "none" BY DEF PrefabFinished, NoPrefab
<1>4. CASE prefab.step # "operation"
  <2>1. /\ UNCHANGED <<document, history, torn>>
        /\ \/ prefab' = prefab \/ prefab' = PrefabFinished(TRUE)
           \/ \E next : prefab' = [prefab EXCEPT !.step = next]
    BY <1>1, <1>4 DEF AdvancePrefab, PrefabActive, PrefabEdits
  <2>2. PrefabActive' => prefab'.scene = document.scene
    <3>1. PrefabActive' => prefab'.scene = prefab.scene BY <1>1, <1>3, <2>1 DEF PrefabActive, PrefabEdits
    <3> QED BY <1>0, <3>1 DEF AdvancePrefab, InHand
  <2> QED BY <1>0, <1>2, <2>1, <2>2, QuietStep
<1>5. CASE prefab.step = "operation"
  <2>1. PICK done \in Prefixes :
          /\ document' = Runs(document, prefab.cancelled, prefab.scene, prefab.parts, done)
          /\ torn' = (torn \/ Tears(document, prefab.cancelled, prefab.scene, done))
          /\ IF Succeeds(document, prefab.cancelled, prefab.scene, done)
             THEN /\ history' = Recorded(history, Command("parts", document.content,
                                                          document'.content, "none", document))
                  /\ prefab' = PrefabFinished(FALSE)
             ELSE prefab' = PrefabFinished(TRUE) /\ UNCHANGED history
    BY <1>5 DEF AdvancePrefab
  <2>2. done \in SUBSET Instances /\ prefab.parts \in [Instances -> Values]
    BY <1>1 DEF Prefixes, PrefabEdits
  <2>3. /\ document' \in Documents /\ document'.uri = document.uri
        /\ Alike("parts", document.content, document'.content)
        /\ Succeeds(document, prefab.cancelled, prefab.scene, done) => document'.dirty
        /\ ~Tears(document, prefab.cancelled, prefab.scene, done)
           /\ ~Succeeds(document, prefab.cancelled, prefab.scene, done) => document'.content = document.content
        /\ document'.dirty = document.dirty \/ document'.dirty
    BY <1>1, <2>1, <2>2, RunsIs
  <2>4. ~PrefabActive' BY <1>3, <2>1 DEF PrefabActive
  <2>5. torn => torn' BY <2>1
  <2>6. Honest' /\ ~IsPending(history)'
    <3>1. CASE Succeeds(document, prefab.cancelled, prefab.scene, done)
      <4> DEFINE command == Command("parts", document.content, document'.content, "none", document)
      <4>1. /\ command \in Commands /\ command.kind = "parts" /\ command.undo = document.content
            /\ command.redo = document'.content /\ command.key = "none"
        BY <1>1, <2>3, CommandIs, DocumentShape DEF Kinds, MergeKeys
      <4>2. history' = Recorded(history, command) BY <2>1, <3>1
      <4> HIDE DEF command
      <4>3. OfItsKind(command) BY <2>3, <4>1 DEF OfItsKind
      <4>4. Honest' BY <1>0, <2>3, <2>5, <3>1, <4>1, <4>2, <4>3, HonestRecorded
      <4>5. ~IsPending(history)' BY <1>1, <4>2, RecordedPending DEF IsPending, InRange
      <4> QED BY <4>4, <4>5
    <3>2. CASE ~Succeeds(document, prefab.cancelled, prefab.scene, done)
      <4>1. UNCHANGED history BY <2>1, <3>2
      <4>2. CASE Tears(document, prefab.cancelled, prefab.scene, done) BY <1>1, <2>1, <4>1, <4>2 DEF Honest, IsPending
      <4>3. CASE ~Tears(document, prefab.cancelled, prefab.scene, done)
        <5>1. Honest' BY <1>0, <2>3, <2>5, <3>2, <4>1, <4>3, HonestKept
        <5> QED BY <1>1, <4>1, <5>1 DEF IsPending
      <4> QED BY <4>2, <4>3
    <3> QED BY <3>1, <3>2
  <2> QED BY <1>0, <1>2, <2>4, <2>6, IdleStep
<1> QED BY <1>4, <1>5

LEMMA AdvanceHistorySafe ==
    ASSUME Inv, Safe', AdvanceHistory, UNCHANGED <<fileOp, disk, closing, loader, drag, lost>> PROVE Inv'
<1> DEFINE undo == history.pending = "undo"
           command == Target(history, undo)
           to == IF undo THEN command.undo ELSE command.redo
           parts == IF undo THEN command.undo.parts ELSE command.redo.parts
           d(done) == Runs(document, history.cancelled, command.scene, parts, done)
           good(done) == Succeeds(document, history.cancelled, command.scene, done)
           h(done) == IF good(done) THEN Moved(history, undo) ELSE history
           bad(done) == Tears(document, history.cancelled, command.scene, done)
<1>0. /\ Active /\ drag = <<>> /\ ~FileBusy /\ ~Landed /\ ~loader.visible /\ ~closing /\ DocumentTypes /\ Honest
      /\ Before = document.content /\ ~lost
  BY ActiveIs DEF AdvanceHistory, Active, Inv
<1>1. /\ ~AssetActive' /\ ~PrefabActive' /\ ~FileBusy' /\ ~Landed'
  BY <1>0 DEF AdvanceHistory, Inv, Safe, FlowInv, Exclusive, PrefabActive, AssetActive, FileBusy, Landed
<1>2. PICK done \in Prefixes : /\ history' = Settled(h(done))
                               /\ document' = IF closing THEN d(done) ELSE Synchronized(d(done), h(done))
                               /\ torn' = (torn \/ bad(done))
  BY DEF AdvanceHistory
<1>3. InRange(history) /\ undo \in BOOLEAN /\ CanMove(history, undo) /\ command.kind = "parts"
      /\ document \in Documents
  BY <1>0 DEF AdvanceHistory, DocumentTypes, Inv, InHand
<1>4. command \in Commands BY <1>3, TargetIs
<1>5. parts \in [Instances -> Values] /\ to \in Contents /\ parts = to.parts BY <1>4, CommandShape, ContentShape
<1>6. done \in SUBSET Instances BY DEF Prefixes
<1> HIDE DEF undo, command, to, parts
<1>7. /\ d(done) \in Documents /\ d(done).uri = document.uri
      /\ Alike("parts", document.content, d(done).content)
      /\ good(done) => d(done).content.parts = parts
      /\ ~bad(done) /\ ~good(done) => d(done).content = document.content
  BY <1>3, <1>5, <1>6, RunsIs
<1>8. ~torn /\ good(done) => d(done).content = to
  <2>1. SUFFICES ASSUME ~torn, good(done) PROVE d(done).content = to OBVIOUS
  <2>2. Chained(history, document.content) BY <1>0, <2>1 DEF Honest, Truthful
  <2>3. OfItsKind(command) /\ document.content = IF undo THEN command.redo ELSE command.undo
    BY <1>3, <2>2, MovedChained DEF command
  <2>4. Alike("parts", document.content, to) BY <1>3, <2>3 DEF OfItsKind, Alike, to
  <2> HIDE DEF d, good
  <2>5. d(done).content \in Contents BY <1>7, DocumentShape
  <2>6. d(done).content = to BY <1>5, <1>7, <2>1, <2>4, <2>5, SameContent DEF Alike
  <2> QED BY <2>6
<1> HIDE DEF d, bad
<1>9. InRange(h(done)) BY <1>3, MovedFields
<1>10. /\ history'.entries = h(done).entries /\ history'.cursor = h(done).cursor
       /\ history'.current = h(done).current /\ history'.saved = h(done).saved /\ ~IsPending(history')
  BY <1>2, <1>9, SettledIs
<1>11. /\ document'.content = d(done).content /\ document'.uri = document.uri
       /\ document'.dirty = HistoryDirty(h(done))
  <2>1. document' = Synchronized(d(done), h(done)) BY <1>0, <1>2
  <2> HIDE DEF h
  <2> QED BY <1>7, <2>1, SynchronizedIs
<1>12. torn => torn' BY <1>2
<1>13. Honest'
  <2>1. CASE good(done)
    <3>1. h(done) = Moved(history, undo) BY <2>1
    <3>2. ~torn => document'.content = (IF undo THEN Target(history, undo).undo ELSE Target(history, undo).redo)
      BY <1>8, <1>11, <2>1 DEF to, command
    <3> HIDE DEF h, good
    <3> QED BY <1>0, <1>3, <1>10, <1>11, <1>12, <3>1, <3>2, HonestMoved
  <2>2. CASE ~good(done) /\ bad(done) BY <1>2, <2>2 DEF Honest
  <2>3. CASE ~good(done) /\ ~bad(done)
    <3>1. h(done) = history /\ document'.content = document.content BY <1>7, <1>11, <2>3
    <3>2. CASE torn BY <1>12, <3>2 DEF Honest
    <3>3. CASE ~torn /\ CleanIsSaved /\ Truthful(history, Before, Stored)
      <4>1. Before' = Before /\ Stored' = Stored BY <1>0, <1>11, <3>1 DEF Before, Stored
      <4>2. Chained(history', Before) /\ \A label : Labels(label, history, Before) => Labels(label, history', Before)
        BY <1>10, <3>1, <3>3, SamePlace DEF Truthful
      <4>3. PICK label : Labels(label, history, Before) /\ label[history.saved] = Stored
        BY <1>0, <3>3 DEF Truthful
      <4>4. Truthful(history, Before, Stored)' BY <1>10, <3>1, <4>1, <4>2, <4>3 DEF Truthful
      <4>5. ~document'.dirty => document'.content = Stored'
        BY <1>0, <1>11, <3>1, <4>1, <4>3 DEF HistoryDirty, Labels
      <4> QED BY <4>4, <4>5 DEF Honest, CleanIsSaved, Unsaved, Stored
    <3> QED BY <1>0, <3>2, <3>3 DEF Honest
  <2> QED BY <2>1, <2>2, <2>3
<1> QED BY <1>0, <1>1, <1>10, <1>13, IdleStep DEF IsPending

LEMMA AdvanceAssetSafe ==
    ASSUME Inv, Safe', AdvanceAsset, UNCHANGED <<fileOp, disk, closing, loader, drag, lost>>,
           consent' = (consent /\ document'.content = document.content)
    PROVE  Inv'
<1>0. /\ Active /\ drag = <<>> /\ ~FileBusy /\ ~Landed /\ ~loader.visible /\ ~closing /\ DocumentTypes /\ Honest
      /\ Before = document.content /\ ~lost /\ InHand
  BY ActiveIs DEF AdvanceAsset, Active, Inv
<1>1. /\ ~PrefabActive' /\ ~FileBusy' /\ ~Landed' /\ ~IsPending(history) /\ fileOp'.kind # "save"
      /\ asset \in AssetEdits /\ document \in Documents /\ InRange(history) /\ torn' = torn
  BY <1>0 DEF AdvanceAsset, Inv, Safe, FlowInv, Exclusive, PrefabActive, FileBusy, Landed, DocumentTypes
<1>2. CASE UNCHANGED <<document, history>> /\ (asset' = asset \/ asset' = [NoAsset EXCEPT !.visible = TRUE])
  <2>1. [NoAsset EXCEPT !.visible = TRUE].step = "none" BY DEF NoAsset
  <2>2. AssetActive' => asset' = asset BY <1>2, <2>1 DEF AssetActive
  <2>3. AssetActive' => asset'.base = document.content /\ Alike(asset'.kind, asset'.base, asset'.after)
    BY <1>0, <2>2 DEF AdvanceAsset, InHand
  <2> QED BY <1>0, <1>1, <1>2, <2>3, QuietStep
<1>3. CASE asset' = NoAsset
           /\ Execute(Command(asset.kind, document.content, asset.after, "none", document))
  <2> DEFINE command == Command(asset.kind, document.content, asset.after, "none", document)
  <2>1. asset.kind \in Kinds /\ asset.after \in Contents /\ document.content \in Contents
    BY <1>1, DocumentShape DEF AssetEdits, Kinds
  <2>2. /\ command \in Commands /\ command.kind = asset.kind /\ command.undo = document.content
        /\ command.redo = asset.after /\ command.key = "none"
    BY <1>1, <2>1, CommandIs DEF MergeKeys
  <2>3. Alike(asset.kind, document.content, asset.after) BY <1>0 DEF AdvanceAsset, InHand
  <2>4. Execute(command) BY <1>3
  <2> HIDE DEF command
  <2>5. Honest' /\ history'.pending = history.pending BY <1>0, <1>1, <2>2, <2>3, <2>4, ExecuteSafe
  <2>6. ~AssetActive' BY <1>3 DEF AssetActive, NoAsset
  <2>7. ~IsPending(history)' BY <1>1, <2>5 DEF IsPending
  <2> QED BY <1>0, <1>1, <2>5, <2>6, <2>7, IdleStep
<1> QED BY <1>1, <1>2, <1>3 DEF AdvanceAsset, AssetActive, AssetEdits

LEMMA FinishDragSafe ==
    ASSUME Inv, Safe', ~Active, FinishDrag, UNCHANGED <<fileOp, disk, closing>> PROVE Inv'
<1>0. /\ ~FileBusy /\ ~Landed /\ ~loader.visible /\ ~closing /\ DocumentTypes /\ Honest /\ ~lost
      /\ drag # <<>> /\ document.dirty /\ drag' = <<>>
      /\ UNCHANGED <<document, prefab, asset, loader, torn, consent, lost>>
  BY DEF FinishDrag, Inv, Safe, FlowInv, Exclusive, Shows, FileBusy, Landed
<1>1. /\ ~PrefabActive' /\ ~AssetActive' /\ ~FileBusy' /\ ~IsPending(history) /\ document \in Documents
      /\ InRange(history) /\ document.content \in Contents
  BY <1>0, DocumentShape DEF Active, PrefabActive, AssetActive, FileBusy, DocumentTypes
<1>2. Before \in Contents /\ Alike("name", Before, document.content) BY <1>0, BeforeIs
<1>3. Before = [document.content EXCEPT !.name = drag[1]] BY <1>0 DEF Before
<1>4. CASE history' = history /\ drag[1] = document.content.name
  <2>1. Before = document.content
    <3>1. Before.name = document.content.name BY <1>1, <1>3, <1>4 DEF Contents
    <3> QED BY <1>1, <1>2, <3>1, SameContent DEF Alike
  <2>2. Before' = Before /\ Stored' = Stored BY <1>0, <2>1 DEF Before, Stored
  <2>3. Honest' BY <1>0, <1>4, <2>2 DEF Honest, Truthful, CleanIsSaved
  <2>4. ~IsPending(history)' BY <1>1, <1>4 DEF IsPending
  <2> QED BY <1>0, <1>1, <2>3, <2>4, IdleStep
<1>5. CASE history' = Recorded(history, Command("name", [document.content EXCEPT !.name = drag[1]],
                                               document.content, "none", document))
  <2> DEFINE command == Command("name", Before, document.content, "none", document)
  <2>1. /\ command \in Commands /\ command.kind = "name" /\ command.undo = Before
        /\ command.redo = document.content /\ command.key = "none"
    BY <1>1, <1>2, CommandIs DEF Kinds, MergeKeys
  <2>2. history' = Recorded(history, command) BY <1>3, <1>5
  <2> HIDE DEF command
  <2>3. OfItsKind(command) BY <1>2, <2>1 DEF OfItsKind
  <2>4. Honest' BY <1>0, <2>1, <2>2, <2>3, HonestRecorded
  <2>5. ~IsPending(history)' BY <1>1, <2>2, RecordedPending DEF IsPending, InRange
  <2> QED BY <1>0, <1>1, <2>4, <2>5, IdleStep
<1> QED BY <1>4, <1>5 DEF FinishDrag

LEMMA FrameSafe == ASSUME Inv, Safe', Frame PROVE Inv'
<1>0. UNCHANGED <<fileOp, disk, closing>> /\ ~FileBusy BY DEF Frame
<1>1. CASE AdvanceLoader BY <1>0, <1>1, AdvanceLoaderSafe
<1>2. CASE /\ AdvancePrefab \/ AdvanceHistory \/ AdvanceAsset
           /\ consent' = (consent /\ document'.content = document.content)
           /\ UNCHANGED <<loader, drag, lost>>
  BY <1>0, <1>2, AdvancePrefabSafe, AdvanceHistorySafe, AdvanceAssetSafe
<1>3. CASE ~Active /\ FinishDrag BY <1>0, <1>3, FinishDragSafe
<1> QED BY <1>1, <1>2, <1>3 DEF Frame

LEMMA FileFrameSafe == ASSUME Inv, Safe', FileFrame PROVE Inv'
<1>1. CASE SaveCompletes BY <1>1, SaveCompletesSafe
<1>2. CASE AuthorCompletes BY <1>2, AuthorSafe
<1>3. CASE UNCHANGED <<document, history, prefab, asset, loader, fileOp, closing, torn, consent, lost>>
  <2>1. UNCHANGED <<disk, drag>> BY DEF FileFrame
  <2> QED BY <1>3, <2>1, QuieterStep DEF SameDocument, SameEdits, SameIntent, PrefabActive, AssetActive
<1> QED BY <1>1, <1>2, <1>3 DEF FileFrame

LEMMA InvStep == ASSUME Inv, [Next]_vars PROVE Inv'
<1>0. Safe' BY SafeStep DEF Inv
<1>1. CASE FileAnswers BY <1>0, <1>1, AnswerSafe
<1>2. CASE FileFrame BY <1>0, <1>2, FileFrameSafe
<1>3. CASE Frame BY <1>0, <1>3, FrameSafe
<1>4. CASE Exit BY <1>0, <1>4, ExitSafe
<1>5. CASE Edit BY <1>0, <1>5, EditSafe
<1>6. CASE AskPrefab \/ AskAuthor \/ Save BY <1>0, <1>6, QuietAsks
<1>7. CASE AskAsset BY <1>0, <1>7, AskAssetSafe
<1>8. CASE Undo \/ Redo
  <2>1. PICK undo \in BOOLEAN : Step(undo) BY <1>8 DEF Undo, Redo
  <2> QED BY <1>0, <2>1, StepSafe
<1>9. CASE Requests \/ Discard BY <1>0, <1>9, LeavingSafe
<1>10. CASE CancelDialog \/ Run \/ StopGame \/ PrefabDialog \/ AssetDialog \/ LoaderDialog
  BY <1>0, <1>10, QuietDialogs
<1>11. CASE CloseRequested BY <1>0, <1>11, CloseSafe
<1>12. CASE \/ UNCHANGED vars \/ PrefabAnswers \/ AssetAnswers \/ LoadAnswers
            \/ GameEnds("running") \/ GameEnds("stopping")
  BY <1>0, <1>12, QuietAnswers
<1> QED BY <1>1, <1>2, <1>3, <1>4, <1>5, <1>6, <1>7, <1>8, <1>9, <1>10, <1>11, <1>12 DEF Next

(***************************************************************************)
(* What the frame promises                                                 *)
(***************************************************************************)
LEMMA Invariant == Spec => []Inv
BY InvInit, InvStep, PTL DEF Spec

LEMMA InvIsTyped == Inv => TypeOK
<1> SUFFICES ASSUME Inv PROVE TypeOK OBVIOUS
<1>1. DocumentTypes /\ HostTypes BY DEF Inv, Safe
<1>2. document \in [uri : Uris \cup {Untitled}, content : Contents, dirty : BOOLEAN, scene : Nat]
  BY <1>1 DEF DocumentTypes, Documents, SomeUri
<1>3. InRange(history) BY <1>1 DEF DocumentTypes
<1>4. /\ history.entries \in Seq(Commands) /\ history.cursor \in Nat /\ Len(history.entries) \in Nat
      /\ history.cursor <= Len(history.entries) /\ Len(history.entries) <= Capacity
  BY <1>3, HistoryShape DEF InRange
<1>5. \A e \in EntriesOf(history) : e.undo \in Contents /\ e.redo \in Contents
  <2> TAKE e \in EntriesOf(history)
  <2>1. e \in Commands BY <1>4 DEF EntriesOf
  <2> QED BY <2>1, CommandShape
<1>6. \A u \in DOMAIN disk : u \in Uris /\ disk[u] \in Contents BY <1>1 DEF DocumentTypes
<1> QED BY <1>1, <1>2, <1>4, <1>5, <1>6 DEF TypeOK, HostTypes

LEMMA AtMostOne == ASSUME NEW S, \A a, b \in S : a = b PROVE Cardinality(S) <= 1
<1>1. CASE S = {} BY <1>1, FS_EmptySet
<1>2. ASSUME NEW a \in S PROVE Cardinality(S) <= 1
  <2>1. S = {a} OBVIOUS
  <2> QED BY <2>1, FS_Singleton
<1> QED BY <1>1, <1>2

LEMMA InvIsOneAtATime == Inv => OneAtATime
<1> SUFFICES ASSUME Inv PROVE OneAtATime OBVIOUS
<1> DEFINE T == <<PrefabActive, AssetActive, IsPending(history), LoaderActive, FileBusy>>
           S == {k \in 1 .. 5 : T[k]}
<1>1. /\ PrefabActive => ~AssetActive /\ ~IsPending(history) /\ ~LoaderActive /\ ~FileBusy
      /\ AssetActive => ~IsPending(history) /\ ~LoaderActive /\ ~FileBusy
      /\ IsPending(history) => ~LoaderActive /\ ~FileBusy
      /\ LoaderActive => ~FileBusy
  BY DEF Inv, Safe, FlowInv, Exclusive, Active
<1>2. /\ T[1] = PrefabActive /\ T[2] = AssetActive /\ T[3] = IsPending(history)
      /\ T[4] = LoaderActive /\ T[5] = FileBusy
  OBVIOUS
<1> HIDE DEF T
<1>3. ASSUME NEW a \in S, NEW b \in S PROVE a = b
  <2>1. a \in {1, 2, 3, 4, 5} /\ b \in {1, 2, 3, 4, 5} /\ T[a] /\ T[b] OBVIOUS
  <2> QED BY <1>1, <1>2, <2>1
<1>4. Cardinality(S) <= 1 BY <1>3, AtMostOne
<1> QED BY <1>4 DEF OneAtATime, T, Inv, InHand

(* A document that is shown as saved is what its file holds, and both ends of the history's
   cursor hold what is in the document, until an operation fails in the middle of the
   instances: through merges, evictions, dropped redo, save points and drags. *)
THEOREM DirtyCorrect == Spec => []DirtyIsHonest
<1>1. Inv => DirtyIsHonest
  BY DEF Inv, Honest, Truthful, Chained, Before, DirtyIsHonest, HistoryFits
<1> QED BY <1>1, Invariant, PTL

(* Nothing unsaved goes with a new, another or no document unless the user gave it up, and no
   two operations work on the document. *)
THEOREM NothingLostCorrect == Spec => []NothingLost
<1>1. Inv => NothingLost BY InvIsTyped, InvIsOneAtATime DEF NothingLost, Inv
<1> QED BY <1>1, Invariant, PTL

(* A launch finds the document saved, or just saved. *)
LEMMA LaunchStep ==
    ASSUME Inv, Inv', [Next]_vars, game = "off", game' = "running" PROVE torn \/ ~Unsaved(document)'
<1>1. ASSUME NEW what, Game(what, FALSE) PROVE FALSE BY <1>1 DEF Game
<1>2. CASE Run
  <2>1. ~document.dirty /\ document' = document /\ disk' = disk BY <1>2 DEF Run, CanLaunch, documentVars
  <2> QED BY <2>1 DEF Inv, Honest, CleanIsSaved, Unsaved
<1>3. CASE FileFrame
  <2>1. SaveCompletes BY <1>3 DEF FileFrame, AuthorCompletes
  <2>2. \E what \in {"none", "new", "open", "exit"} : \E d, h : Perform(what, d, h, consent)
    BY <2>1 DEF SaveCompletes, Inv, Safe, HostTypes
  <2>3. torn' => torn
    <3>1. ASSUME NEW d, NEW h, Keep(d, h, consent) \/ Replace(Created(d), d, consent) \/ BeginExit(d, h, consent)
          PROVE  torn' => torn
      BY <3>1 DEF Keep, Replace, BeginExit
    <3> QED BY <2>2, <3>1 DEF Perform
  <2>4. ~document'.dirty BY <2>1 DEF SaveCompletes, Game, CanLaunch
  <2> QED BY <2>3, <2>4 DEF Inv, Honest, CleanIsSaved
<1>4. CASE Requests \/ Discard \/ CloseRequested
  BY <1>1, <1>4 DEF Requests, Request, Discard, CloseRequested
<1>5. ~UNCHANGED game OBVIOUS
<1>6. CASE Edit \/ AskPrefab \/ AskAsset \/ AskAuthor \/ Undo \/ Redo \/ Save \/ CancelDialog \/ PrefabDialog
           \/ AssetDialog \/ LoaderDialog
  BY <1>5, <1>6
  DEF Edit, AskPrefab, AskAsset, AskAuthor, Undo, Redo, Step, Save, CancelDialog, PrefabDialog, AssetDialog,
      LoaderDialog
<1>7. CASE StopGame \/ GameEnds("running") \/ GameEnds("stopping") BY <1>7 DEF StopGame, GameEnds
<1>8. CASE UNCHANGED vars \/ FileAnswers \/ PrefabAnswers \/ AssetAnswers \/ LoadAnswers \/ Frame \/ Exit
  BY <1>5, <1>8
  DEF vars, hostVars, FileAnswers, Answer, PrefabAnswers, AssetAnswers, LoadAnswers, Frame, Exit
<1> QED BY <1>2, <1>3, <1>4, <1>6, <1>7, <1>8 DEF Next

(* The game that is started reads the content that is on the screen. *)
THEOREM RunsCorrect == Spec => RunsWhatIsShown
<1>1. Inv /\ Inv' /\ [Next]_vars => [game = "off" /\ game' = "running" => torn \/ ~Unsaved(document)']_vars
  BY LaunchStep
<1> QED BY <1>1, Invariant, PTL DEF Spec, RunsWhatIsShown
=================================================================================
