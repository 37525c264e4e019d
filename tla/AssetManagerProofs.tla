------------------------- MODULE AssetManagerProofs -------------------------
(***************************************************************************)
(* The asset manager's safety for every number of keys, loads, observers   *)
(* and executor slots.                                                     *)
(***************************************************************************)
EXTENDS AssetManager, TLAPS

(***************************************************************************)
(* Types, in three parts: the loads, the table with the cache, the host.   *)
(***************************************************************************)
LoadTypes ==
  /\ keyOf \in [Ids -> Keys \cup {NoKey}]
  /\ stage \in [Ids -> {"none", "reading", "read", "decoding", "settled", "done",
                        "dropped", "stored"}]
  /\ versions \in [Ids -> Nat] /\ second \in [Ids -> BOOLEAN]
  /\ status \in [Ids -> {"none", "ok", "more", "failed"}]
  /\ held \in [Ids -> 0 .. MaxHolders] /\ old \in [Ids -> 0 .. MaxIssued]
  /\ task \in [Ids -> {"none", "queued", "running", "over"}]

TableTypes ==
  /\ known \subseteq Keys /\ generation \in [Keys -> Nat]
  /\ pending \in [Keys -> 0 .. MaxIssued] /\ cache \in [Keys -> 0 .. MaxIssued]

HostTypes ==
  /\ issued \in 0 .. MaxIssued /\ cursor \in 0 .. issued
  /\ uses \subseteq Ids /\ stopped \in BOOLEAN /\ finished \in BOOLEAN

LEMMA TypeParts == TypeOK <=> LoadTypes /\ TableTypes /\ HostTypes
BY DEF TypeOK, LoadTypes, TableTypes, HostTypes

LEMMA IdsRange == \A n : n \in Ids <=> n \in Nat /\ 1 <= n /\ n <= MaxIssued
BY AssetAssumption DEF Ids, AssetAssumption

(* A content the cache answers with is one that was issued. *)
LEMMA CachedType == ASSUME TableTypes, NEW k \in Keys PROVE Cached(k) \in 0 .. MaxIssued
BY AssetAssumption DEF TableTypes, Cached, AssetAssumption

LEMMA GenerationType ==
  ASSUME TableTypes, NEW k \in Keys
  PROVE  Generation(k) \in Nat /\ BumpedGeneration(k) \in Nat
BY DEF TableTypes, Generation, BumpedGeneration

(* What the game's calls keep typed. *)
LEMMA GameTypes ==
  ASSUME LoadTypes, TableTypes, HostTypes, Game
  PROVE  LoadTypes' /\ TableTypes' /\ HostTypes'
<1> USE AssetAssumption, IdsRange DEF AssetAssumption
<1>1. ASSUME NEW k \in Keys, Join(k) PROVE LoadTypes' /\ TableTypes' /\ HostTypes'
  <2>1. Joined(k) \in Ids BY <1>1 DEF TableTypes, Join, Joined
  <2>2. LoadTypes' BY <1>1, <2>1 DEF LoadTypes, Join, loads
  <2>3. TableTypes' BY <1>1 DEF TableTypes, Join, table
  <2>4. HostTypes' BY <1>1 DEF HostTypes, Join, stops
  <2> QED BY <2>2, <2>3, <2>4
<1>2. ASSUME NEW k \in Keys, Answer(k) PROVE LoadTypes' /\ TableTypes' /\ HostTypes'
  <2>1. LoadTypes' BY <1>2 DEF LoadTypes, Answer, loads
  <2>2. TableTypes' BY <1>2, GenerationType DEF TableTypes, Answer
  <2>3. HostTypes' BY <1>2, CachedType DEF HostTypes, Answer, stops
  <2> QED BY <2>1, <2>2, <2>3
<1>3. ASSUME NEW k \in Keys, NEW taken \in BOOLEAN, Begin(k, taken)
      PROVE  LoadTypes' /\ TableTypes' /\ HostTypes'
  <2>1. issued + 1 \in Ids BY <1>3 DEF Begin, Fresh
  <2>2. Generation(k) \in Nat /\ Cached(k) \in 0 .. MaxIssued BY CachedType, GenerationType
  <2>3. LoadTypes' BY <1>3, <2>1, <2>2 DEF LoadTypes, Begin
  <2>4. TableTypes' BY <1>3, <2>1, <2>2 DEF TableTypes, Begin
  <2>5. HostTypes' BY <1>3, <2>1 DEF HostTypes, Begin, stops
  <2> QED BY <2>3, <2>4, <2>5
<1>4. ASSUME NEW k \in Keys, Store(k) PROVE LoadTypes' /\ TableTypes' /\ HostTypes'
  <2>1. issued + 1 \in Ids BY <1>4 DEF Store, Fresh
  <2>2. LoadTypes' BY <1>4, <2>1 DEF LoadTypes, Store
  <2>3. TableTypes' BY <1>4, <2>1, GenerationType DEF TableTypes, Store
  <2>4. HostTypes' BY <1>4, <2>1 DEF HostTypes, Store, stops
  <2> QED BY <2>2, <2>3, <2>4
<1>5. ASSUME NEW w \in Ids, Drop(w) \/ Release(w) PROVE LoadTypes' /\ TableTypes' /\ HostTypes'
  <2>1. LoadTypes' BY <1>5 DEF LoadTypes, Drop, Release, loads
  <2>2. TableTypes' BY <1>5 DEF TableTypes, Drop, Release, table
  <2>3. HostTypes' BY <1>5 DEF HostTypes, Drop, Release, stops
  <2> QED BY <2>1, <2>2, <2>3
<1>6. ASSUME CollectUnused PROVE LoadTypes' /\ TableTypes' /\ HostTypes'
  <2>1. LoadTypes' BY <1>6 DEF LoadTypes, CollectUnused, loads
  <2>2. TableTypes' BY <1>6, CachedType DEF TableTypes, CollectUnused
  <2>3. HostTypes' BY <1>6 DEF HostTypes, CollectUnused, stops
  <2> QED BY <2>1, <2>2, <2>3
<1>7. ASSUME RequestStop PROVE LoadTypes' /\ TableTypes' /\ HostTypes'
  BY <1>7 DEF LoadTypes, TableTypes, HostTypes, RequestStop, loads, table
<1> QED BY <1>1, <1>2, <1>3, <1>4, <1>5, <1>6, <1>7 DEF Game, Load

(* One visit of advance() keeps the types of what it may change. *)
LEMMA VisitTypes ==
  ASSUME LoadTypes, TableTypes, HostTypes, Visit
  PROVE  LoadTypes' /\ TableTypes' /\ HostTypes'
<1> USE AssetAssumption, IdsRange DEF AssetAssumption
<1>1. cursor \in Ids BY DEF HostTypes, Visit, HostRuns
<1>2. HostTypes' BY DEF HostTypes, Visit, HostRuns, Step, stops
<1>3. UNCHANGED <<keyOf, versions, old>> BY DEF Visit, loads
<1>4. ASSUME Pass(cursor) \/ Schedule(cursor) PROVE LoadTypes' /\ TableTypes'
  BY <1>3, <1>4 DEF LoadTypes, TableTypes, Pass, Schedule, AfterFull, table
<1>5. ASSUME Abandon(cursor) PROVE LoadTypes' /\ TableTypes'
  <2>1. LoadTypes' BY <1>3, <1>5 DEF LoadTypes, Abandon
  <2>2. TableTypes' BY <1>5 DEF TableTypes, Abandon, Matches
  <2> QED BY <2>1, <2>2
<1>6. ASSUME NEW outcome \in {"none", "ok", "failed"}, Publish(cursor, outcome)
      PROVE  LoadTypes' /\ TableTypes'
  <2>1. LoadTypes' BY <1>3, <1>6 DEF LoadTypes, Publish
  <2>2. TableTypes' BY <1>1, <1>6 DEF TableTypes, Publish, Publishes, Matches
  <2> QED BY <2>1, <2>2
<1>7. ASSUME Continue(cursor) PROVE LoadTypes' /\ TableTypes'
  <2>1. CASE Publish(cursor, "failed") BY <1>6, <2>1
  <2>2. CASE ~Publish(cursor, "failed")
    BY <1>3, <1>7, <2>2 DEF LoadTypes, TableTypes, Continue, table
  <2> QED BY <2>1, <2>2
<1>8. ASSUME End(cursor) PROVE LoadTypes' /\ TableTypes'
  <2>1. status[cursor] \in {"none", "ok", "failed"} BY <1>1, <1>8 DEF LoadTypes, End
  <2> QED BY <1>6, <1>8, <2>1 DEF End
<1> QED BY <1>2, <1>4, <1>5, <1>7, <1>8 DEF Visit

LEMMA TypeStep == ASSUME TypeOK, [Next]_vars PROVE TypeOK'
<1> USE AssetAssumption, IdsRange DEF AssetAssumption
<1> SUFFICES ASSUME LoadTypes, TableTypes, HostTypes PROVE LoadTypes' /\ TableTypes' /\ HostTypes'
  BY TypeParts, PTL
<1>1. CASE Game BY <1>1, GameTypes
<1>2. ASSUME NEW w \in Ids, NEW outcome \in {"ok", "failed"}, FileAnswers(w, outcome)
      PROVE  LoadTypes' /\ TableTypes' /\ HostTypes'
  BY <1>2 DEF LoadTypes, TableTypes, HostTypes, FileAnswers, loads, table, stops
<1>3. ASSUME NEW w \in Ids, Worker(w) PROVE LoadTypes' /\ TableTypes' /\ HostTypes'
  <2>1. ASSUME NEW outcome \in {"ok", "more", "failed"}, Settle(w, outcome)
        PROVE  LoadTypes' /\ TableTypes' /\ HostTypes'
    BY <2>1 DEF LoadTypes, TableTypes, HostTypes, Settle, loads, table, stops
  <2>2. CASE TaskBegins(w)
    BY <2>2 DEF LoadTypes, TableTypes, HostTypes, TaskBegins, loads, table, stops
  <2> QED BY <1>3, <2>1, <2>2 DEF Worker, TaskDiscarded, TaskEnds
<1>4. CASE BeginAdvance
  BY <1>4 DEF LoadTypes, TableTypes, HostTypes, BeginAdvance, loads, table, stops
<1>5. CASE Visit BY <1>5, VisitTypes
<1>6. CASE FinishStop
  <2>1. LoadTypes' BY <1>6 DEF LoadTypes, FinishStop, loads
  <2>2. TableTypes' BY <1>6 DEF TableTypes, FinishStop
  <2>3. HostTypes' BY <1>6 DEF HostTypes, FinishStop
  <2> QED BY <2>1, <2>2, <2>3
<1>7. CASE UNCHANGED vars
  BY <1>7 DEF LoadTypes, TableTypes, HostTypes, vars, loads, table, stops
<1> QED BY <1>1, <1>2, <1>3, <1>4, <1>5, <1>6, <1>7 DEF Next, Files, Advance

(* Every variable keeps its type: no load has more observers than request objects, and advance() *)
(* never looks at a load that was not issued (TypeOK).                                           *)
THEOREM TypeCorrect == Spec => []TypeOK
<1>1. Init => TypeOK
  <2> USE AssetAssumption, IdsRange DEF AssetAssumption
  <2> SUFFICES ASSUME Init PROVE LoadTypes /\ TableTypes /\ HostTypes BY TypeParts
  <2>1. LoadTypes BY DEF Init, LoadTypes
  <2>2. TableTypes BY DEF Init, TableTypes
  <2>3. issued \in 0 .. MaxIssued /\ cursor \in 0 .. issued BY DEF Init
  <2>4. HostTypes BY <2>3 DEF Init, HostTypes
  <2> QED BY <2>1, <2>2, <2>4
<1>2. TypeOK /\ [Next]_vars => TypeOK' BY TypeStep
<1> QED BY <1>1, <1>2, PTL DEF Spec

(***************************************************************************)
(* The table.  A key's generation only grows while a load of it is in      *)
(* flight: the collector keeps the entry as long as there is one.  So a    *)
(* load that was overtaken never matches its entry again.                  *)
(***************************************************************************)
Numbered == \A w \in Ids : w > issued => stage[w] = "none" /\ keyOf[w] = NoKey

Entries == \A w \in Active : keyOf[w] \in known /\ versions[w] <= generation[keyOf[w]]

Joinable ==
  \A k \in Keys : pending[k] # 0 =>
    /\ k \in known /\ pending[k] \in Active
    /\ keyOf[pending[k]] = k /\ versions[pending[k]] = generation[k]

Outdated ==
  \A w \in Active : \A v \in Ids :
    w < v /\ keyOf[v] = keyOf[w] => versions[w] < generation[keyOf[w]]

Kept == \A w \in Active : old[w] # 0 /\ Matches(w) => cache[keyOf[w]] = old[w]

TableInv == Numbered /\ Entries /\ Joinable /\ Outdated /\ Kept

(* What a step does to the table: nothing, ... *)
SameTable ==
  /\ UNCHANGED <<issued, loads, table, cache>>
  /\ Active' = Active
  /\ \A w \in Ids : stage[w] = "none" => stage'[w] = "none"

(* ... a load leaves it, and may leave its content in the cache, ... *)
Leaves(w) ==
  /\ w \in Active
  /\ \E s \in {"dropped", "done"} : stage' = [stage EXCEPT ![w] = s]
  /\ pending' = IF Matches(w) THEN [pending EXCEPT ![keyOf[w]] = 0] ELSE pending
  /\ \/ cache' = cache
     \/ Matches(w) /\ cache' = [cache EXCEPT ![keyOf[w]] = w]
  /\ UNCHANGED <<issued, loads, known, generation>>

(* ... or an entry is there without a load. *)
Enters(k) ==
  /\ known' = known \cup {k} /\ generation' = [generation EXCEPT ![k] = Generation(k)]
  /\ UNCHANGED <<issued, loads, stage, pending, cache>>

LEMMA ActiveIssued ==
  ASSUME TypeOK, TableInv, NEW w \in Active
  PROVE  w \in Ids /\ w <= issued /\ keyOf[w] \in known /\ keyOf[w] \in Keys
<1>1. w \in Ids /\ stage[w] # "none" BY DEF Active
<1>2. w <= issued BY <1>1, IdsRange DEF TypeOK, TableInv, Numbered
<1>3. keyOf[w] \in known BY DEF TableInv, Entries
<1> QED BY <1>1, <1>2, <1>3 DEF TypeOK

LEMMA SameTableKeeps == ASSUME TypeOK, TableInv, SameTable PROVE TableInv'
<1>1. UNCHANGED <<issued, keyOf, versions, old, known, generation, pending, cache>>
  BY DEF SameTable, loads, table
<1>2. Numbered' BY <1>1 DEF SameTable, TableInv, Numbered
<1>3. Entries' /\ Joinable' /\ Outdated' /\ Kept'
  BY <1>1 DEF SameTable, TableInv, Entries, Joinable, Outdated, Kept, Matches
<1> QED BY <1>2, <1>3 DEF TableInv

LEMMA LeavesKeeps == ASSUME TypeOK, TableInv, NEW w \in Ids, Leaves(w) PROVE TableInv'
<1>1. UNCHANGED <<issued, keyOf, versions, old, known, generation>> BY DEF Leaves, loads
<1>2. w \notin Active' /\ Active' = Active \ {w}
  BY DEF Leaves, Active, TypeOK
<1>3. \A v \in Ids : v # w => stage'[v] = stage[v] BY DEF Leaves, TypeOK
<1>4. keyOf[w] \in Keys /\ keyOf[w] \in known /\ w <= issued BY ActiveIssued DEF Leaves
<1>5. Numbered'
  BY <1>1, <1>3, <1>4, IdsRange DEF TypeOK, TableInv, Numbered
<1>6. Entries' BY <1>1, <1>2 DEF TableInv, Entries
<1>7. Outdated' BY <1>1, <1>2 DEF TableInv, Outdated
<1>8. \A k \in Keys : pending'[k] # 0 => pending'[k] = pending[k] /\ pending[k] # w
  <2> SUFFICES ASSUME NEW k \in Keys, pending'[k] # 0
               PROVE  pending'[k] = pending[k] /\ pending[k] # w
    OBVIOUS
  <2>1. pending'[k] = pending[k] BY DEF Leaves, Matches, TypeOK
  <2>2. ASSUME pending[k] = w PROVE FALSE
    <3>1. keyOf[w] = k /\ versions[w] = generation[k] /\ k \in known
      BY <2>1, <2>2 DEF TableInv, Joinable
    <3>2. pending'[k] = 0 BY <3>1 DEF Leaves, Matches, TypeOK
    <3> QED BY <3>2
  <2> QED BY <2>1, <2>2
<1>9. Joinable' BY <1>1, <1>2, <1>8 DEF TableInv, Joinable
<1>10. Kept'
  <2> SUFFICES ASSUME NEW v \in Active, v # w, old[v] # 0, Matches(v)
               PROVE  cache'[keyOf[v]] = old[v]
    BY <1>1, <1>2 DEF Kept, Matches
  <2>1. cache[keyOf[v]] = old[v] BY DEF TableInv, Kept
  <2>2. v \in Ids /\ keyOf[v] \in Keys BY ActiveIssued
  <2>3. ASSUME Matches(w), keyOf[w] = keyOf[v] PROVE FALSE
    <3>1. versions[v] = generation[keyOf[v]] /\ versions[w] = generation[keyOf[v]]
      BY <2>3 DEF Matches
    <3>2. generation[keyOf[v]] \in Nat BY <2>2 DEF TypeOK
    <3>3. v < w \/ w < v BY <2>2, IdsRange
    <3>4. w \in Active BY DEF Leaves
    <3> QED BY <2>2, <2>3, <3>1, <3>2, <3>3, <3>4 DEF TableInv, Outdated
  <2>4. cache'[keyOf[v]] = cache[keyOf[v]] BY <1>4, <2>2, <2>3 DEF Leaves, TypeOK
  <2> QED BY <2>1, <2>4
<1> QED BY <1>5, <1>6, <1>7, <1>9, <1>10 DEF TableInv

LEMMA EntersKeeps == ASSUME TypeOK, TableInv, NEW k \in Keys, Enters(k) PROVE TableInv'
<1>1. UNCHANGED <<issued, keyOf, versions, old, stage, pending, cache>> /\ Active' = Active
  BY DEF Enters, loads, Active
<1>2. \A j \in Keys : j \in known => generation'[j] = generation[j]
  BY DEF Enters, Generation, TypeOK
<1>3. \A w \in Active : keyOf[w] \in Keys /\ keyOf[w] \in known BY ActiveIssued
<1>4. known \subseteq known' BY DEF Enters
<1>5. Numbered' BY <1>1 DEF TableInv, Numbered
<1>6. Entries' BY <1>1, <1>2, <1>3, <1>4 DEF TableInv, Entries
<1>7. Joinable' BY <1>1, <1>2, <1>4 DEF TableInv, Joinable
<1>8. Outdated' BY <1>1, <1>2, <1>3 DEF TableInv, Outdated
<1>9. Kept' BY <1>1, <1>2, <1>3 DEF TableInv, Kept, Matches
<1> QED BY <1>5, <1>6, <1>7, <1>8, <1>9 DEF TableInv

(* A load that begins is the newest of its key, and the generation says so. *)
LEMMA BeginKeeps ==
  ASSUME TypeOK, TableInv, NEW k \in Keys, Begin(k, TRUE)
  PROVE  TableInv'
<1> DEFINE n == issued + 1
<1> HIDE DEF n
<1>1. n \in Ids /\ n = issued + 1 /\ issued \in Nat BY DEF n, Begin, Fresh, TypeOK
<1>2. /\ issued' = n /\ keyOf' = [keyOf EXCEPT ![n] = k]
      /\ stage' = [stage EXCEPT ![n] = "reading"]
      /\ versions' = [versions EXCEPT ![n] = Generation(k) + 1]
      /\ old' = [old EXCEPT ![n] = Cached(k)]
      /\ generation' = [generation EXCEPT ![k] = Generation(k) + 1]
      /\ pending' = [pending EXCEPT ![k] = n]
      /\ known' = known \cup {k} /\ cache' = cache
  BY DEF n, Begin
<1>3. Generation(k) \in Nat BY GenerationType, TypeParts
<1>4. Active' = Active \cup {n} BY <1>1, <1>2 DEF Active, TypeOK
<1>5. \A w \in Active : w \in Ids /\ w < n /\ keyOf[w] \in Keys /\ keyOf[w] \in known
  BY <1>1, ActiveIssued, IdsRange
<1>6. \A w \in Ids \ {n} : /\ keyOf'[w] = keyOf[w] /\ versions'[w] = versions[w]
                           /\ old'[w] = old[w] /\ stage'[w] = stage[w]
  BY <1>2 DEF TypeOK
<1>7. keyOf'[n] = k /\ versions'[n] = Generation(k) + 1 /\ old'[n] = Cached(k)
  BY <1>1, <1>2 DEF TypeOK
<1>8. /\ generation'[k] = Generation(k) + 1
      /\ \A j \in Keys \ {k} : generation'[j] = generation[j] /\ pending'[j] = pending[j]
      /\ pending'[k] = n
  BY <1>2 DEF TypeOK
<1>9. \A w \in Active : keyOf[w] = k => versions[w] <= Generation(k)
  BY <1>5 DEF TableInv, Entries, Generation
<1>10. \A w \in Active : versions[w] \in Nat BY <1>5 DEF TypeOK
<1>11. Numbered'
  BY <1>1, <1>2, <1>6, IdsRange DEF TableInv, Numbered
<1>12. Entries'
  <2>1. keyOf'[n] \in known' /\ versions'[n] <= generation'[keyOf'[n]]
    BY <1>2, <1>3, <1>7, <1>8
  <2>2. ASSUME NEW w \in Active PROVE keyOf'[w] \in known' /\ versions'[w] <= generation'[keyOf'[w]]
    <3> w \in Ids \ {n} BY <1>1, <1>5
    <3>1. keyOf'[w] = keyOf[w] /\ versions'[w] = versions[w] BY <1>6
    <3>2. CASE keyOf[w] = k BY <1>2, <1>3, <1>8, <1>9, <1>10, <3>1, <3>2
    <3>3. CASE keyOf[w] # k BY <1>2, <1>5, <1>8, <3>1, <3>3 DEF TableInv, Entries
    <3> QED BY <3>2, <3>3
  <2> QED BY <1>4, <2>1, <2>2 DEF Entries
<1>13. Joinable'
  <2>1. ASSUME NEW j \in Keys \ {k}, pending'[j] # 0
        PROVE  /\ j \in known' /\ pending'[j] \in Active'
               /\ keyOf'[pending'[j]] = j /\ versions'[pending'[j]] = generation'[j]
    <3>1. pending'[j] = pending[j] /\ generation'[j] = generation[j] BY <1>8
    <3>2. /\ j \in known /\ pending[j] \in Active /\ keyOf[pending[j]] = j
          /\ versions[pending[j]] = generation[j]
      BY <2>1, <3>1 DEF TableInv, Joinable
    <3>3. pending[j] \in Ids \ {n} BY <1>1, <1>5, <3>2
    <3> QED BY <1>2, <1>4, <1>6, <3>1, <3>2, <3>3
  <2> QED BY <1>2, <1>4, <1>7, <1>8, <2>1 DEF Joinable
<1>14. Outdated'
  <2> SUFFICES ASSUME NEW w \in Active', NEW v \in Ids, w < v, keyOf'[v] = keyOf'[w]
               PROVE  versions'[w] < generation'[keyOf'[w]]
    BY DEF Outdated
  <2>1. w # n
    <3>1. ASSUME w = n PROVE FALSE
      <4>1. v > issued /\ v # n BY <1>1, <3>1, IdsRange
      <4>2. keyOf[v] = NoKey BY <4>1 DEF TableInv, Numbered
      <4>3. keyOf'[v] = NoKey /\ keyOf'[w] = k BY <1>6, <1>7, <3>1, <4>1, <4>2
      <4> QED BY <4>3, AssetAssumption DEF AssetAssumption
    <3> QED BY <3>1
  <2>2. w \in Active /\ w \in Ids \ {n} BY <1>4, <1>5, <2>1
  <2>3. keyOf'[w] = keyOf[w] /\ versions'[w] = versions[w] /\ keyOf[w] \in Keys
    BY <1>5, <1>6, <2>2
  <2>4. CASE keyOf[w] = k BY <1>3, <1>8, <1>9, <1>10, <2>2, <2>3, <2>4
  <2>5. CASE keyOf[w] # k
    <3>1. v # n BY <1>7, <2>3, <2>5
    <3>2. keyOf[v] = keyOf[w] BY <1>6, <2>3, <3>1
    <3> QED BY <1>8, <2>2, <2>3, <2>5, <3>2 DEF TableInv, Outdated
  <2> QED BY <2>4, <2>5
<1>15. Kept'
  <2> SUFFICES ASSUME NEW w \in Active', old'[w] # 0, Matches(w)'
               PROVE  cache'[keyOf'[w]] = old'[w]
    BY DEF Kept
  <2>1. CASE w = n BY <1>2, <1>7, <2>1 DEF Cached
  <2>2. CASE w # n
    <3>1. w \in Active /\ w \in Ids \ {n} BY <1>4, <1>5, <2>2
    <3>2. keyOf'[w] = keyOf[w] /\ old'[w] = old[w] /\ versions'[w] = versions[w] /\ keyOf[w] \in Keys
      BY <1>5, <1>6, <3>1
    <3>3. generation'[keyOf[w]] = versions[w] BY <3>2 DEF Matches
    <3>4. keyOf[w] # k BY <1>3, <1>8, <1>9, <1>10, <3>1, <3>3
    <3>5. Matches(w) BY <1>5, <1>8, <3>1, <3>2, <3>3, <3>4 DEF Matches
    <3> QED BY <1>2, <3>1, <3>2, <3>5 DEF TableInv, Kept
  <2> QED BY <2>1, <2>2
<1> QED BY <1>11, <1>12, <1>13, <1>14, <1>15 DEF TableInv

(* A store is newer than every load in flight, and none of them matches the entry any more. *)
LEMMA StoreKeeps ==
  ASSUME TypeOK, TableInv, NEW k \in Keys, Store(k)
  PROVE  TableInv'
<1> DEFINE n == issued + 1
<1> HIDE DEF n
<1>1. n \in Ids /\ n = issued + 1 /\ issued \in Nat BY DEF n, Store, Fresh, TypeOK
<1>2. /\ issued' = n /\ keyOf' = [keyOf EXCEPT ![n] = k]
      /\ stage' = [stage EXCEPT ![n] = "stored"]
      /\ generation' = [generation EXCEPT ![k] = Generation(k) + 1]
      /\ pending' = [pending EXCEPT ![k] = 0] /\ cache' = [cache EXCEPT ![k] = n]
      /\ known' = known \cup {k} /\ versions' = versions /\ old' = old
  BY DEF n, Store, BumpedGeneration
<1>3. Generation(k) \in Nat BY GenerationType, TypeParts
<1>4. \A w \in Active : w \in Ids /\ w < n /\ keyOf[w] \in Keys /\ keyOf[w] \in known
  BY <1>1, ActiveIssued, IdsRange
<1>5. Active' = Active
  <2>1. n \notin Active BY <1>1, <1>4
  <2> QED BY <1>1, <1>2, <2>1 DEF Active, TypeOK
<1>6. \A w \in Ids \ {n} : keyOf'[w] = keyOf[w] /\ stage'[w] = stage[w] BY <1>2 DEF TypeOK
<1>7. /\ generation'[k] = Generation(k) + 1 /\ pending'[k] = 0 /\ keyOf'[n] = k
      /\ \A j \in Keys \ {k} : /\ generation'[j] = generation[j] /\ pending'[j] = pending[j]
                               /\ cache'[j] = cache[j]
  BY <1>1, <1>2 DEF TypeOK
<1>8. \A w \in Active : /\ w \in Ids \ {n} /\ keyOf'[w] = keyOf[w] /\ versions[w] \in Nat
                        /\ keyOf[w] = k => versions[w] < generation'[k]
  <2> SUFFICES ASSUME NEW w \in Active
               PROVE  /\ w \in Ids \ {n} /\ keyOf'[w] = keyOf[w] /\ versions[w] \in Nat
                      /\ keyOf[w] = k => versions[w] < generation'[k]
    OBVIOUS
  <2>1. w \in Ids \ {n} BY <1>1, <1>4
  <2>2. versions[w] \in Nat BY <2>1 DEF TypeOK
  <2>3. keyOf[w] = k => versions[w] <= Generation(k) BY <1>4 DEF TableInv, Entries, Generation
  <2> QED BY <1>3, <1>6, <1>7, <2>1, <2>2, <2>3
<1>9. Numbered' BY <1>1, <1>2, <1>6, IdsRange DEF TableInv, Numbered
<1>10. Entries'
  <2> SUFFICES ASSUME NEW w \in Active
               PROVE  keyOf'[w] \in known' /\ versions'[w] <= generation'[keyOf'[w]]
    BY <1>5 DEF Entries
  <2>1. generation'[k] \in Nat BY <1>3, <1>7
  <2>2. CASE keyOf[w] = k BY <1>2, <1>8, <2>1, <2>2
  <2>3. CASE keyOf[w] # k BY <1>2, <1>4, <1>7, <1>8, <2>3 DEF TableInv, Entries
  <2> QED BY <2>2, <2>3
<1>11. Joinable'
  <2> SUFFICES ASSUME NEW j \in Keys, pending'[j] # 0
               PROVE  /\ j \in known' /\ pending'[j] \in Active'
                      /\ keyOf'[pending'[j]] = j /\ versions'[pending'[j]] = generation'[j]
    BY DEF Joinable
  <2>1. j # k /\ pending'[j] = pending[j] /\ generation'[j] = generation[j] BY <1>7
  <2>2. /\ j \in known /\ pending[j] \in Active /\ keyOf[pending[j]] = j
        /\ versions[pending[j]] = generation[j]
    BY <2>1 DEF TableInv, Joinable
  <2> QED BY <1>2, <1>5, <1>8, <2>1, <2>2
<1>12. Outdated'
  <2> SUFFICES ASSUME NEW w \in Active, NEW v \in Ids, w < v, keyOf'[v] = keyOf'[w]
               PROVE  versions'[w] < generation'[keyOf'[w]]
    BY <1>5 DEF Outdated
  <2>1. CASE keyOf[w] = k BY <1>2, <1>8, <2>1
  <2>2. CASE keyOf[w] # k
    <3>1. v # n BY <1>7, <1>8, <2>2
    <3>2. keyOf[v] = keyOf[w] BY <1>6, <1>8, <3>1
    <3> QED BY <1>2, <1>4, <1>7, <1>8, <2>2, <3>2 DEF TableInv, Outdated
  <2> QED BY <2>1, <2>2
<1>13. Kept'
  <2> SUFFICES ASSUME NEW w \in Active, old'[w] # 0, Matches(w)'
               PROVE  cache'[keyOf'[w]] = old'[w]
    BY <1>5 DEF Kept
  <2>1. generation'[keyOf[w]] = versions[w] BY <1>2, <1>8 DEF Matches
  <2>2. keyOf[w] # k BY <1>8, <2>1
  <2>3. Matches(w) BY <1>4, <1>7, <2>1, <2>2 DEF Matches
  <2> QED BY <1>2, <1>4, <1>7, <1>8, <2>2, <2>3 DEF TableInv, Kept
<1> QED BY <1>9, <1>10, <1>11, <1>12, <1>13 DEF TableInv

(* The collector takes no entry that a load in flight will look up, and no content that a *)
(* reload may still have to keep.                                                         *)
LEMMA CollectKeeps == ASSUME TypeOK, TableInv, CollectUnused PROVE TableInv'
<1>1. UNCHANGED <<issued, keyOf, versions, old, stage, pending, generation>> /\ Active' = Active
  BY DEF CollectUnused, loads, Active
<1>2. \A w \in Active : w \in Ids /\ keyOf[w] \in Keys /\ keyOf[w] \in known BY ActiveIssued
<1>3. \A w \in Active : keyOf[w] \in known' BY <1>2 DEF CollectUnused, Collectable
<1>4. \A k \in Keys : pending[k] # 0 => k \in known'
  BY DEF CollectUnused, Collectable, Joined, TableInv, Joinable
<1>5. Numbered' BY <1>1 DEF TableInv, Numbered
<1>6. Entries' BY <1>1, <1>3 DEF TableInv, Entries
<1>7. Joinable' BY <1>1, <1>4 DEF TableInv, Joinable
<1>8. Outdated' BY <1>1 DEF TableInv, Outdated
<1>9. Kept'
  <2> SUFFICES ASSUME NEW w \in Active, old[w] # 0, Matches(w)
               PROVE  cache'[keyOf[w]] = old[w]
    BY <1>1, <1>2 DEF Kept, Matches
  <2>1. cache[keyOf[w]] = old[w] BY DEF TableInv, Kept
  <2>2. IsHeld(old[w]) BY DEF IsHeld, Pins
  <2>3. Cached(keyOf[w]) = old[w] BY <2>1, <2>2 DEF Cached
  <2> QED BY <1>2, <2>3 DEF CollectUnused
<1> QED BY <1>5, <1>6, <1>7, <1>8, <1>9 DEF TableInv

LEMMA FinishKeeps == ASSUME TypeOK, TableInv, FinishStop PROVE TableInv'
<1>1. Active' = {} BY DEF FinishStop, Active
<1>2. pending' = [k \in Keys |-> 0] /\ UNCHANGED <<issued, keyOf>> BY DEF FinishStop, loads
<1>3. Numbered' BY <1>2 DEF FinishStop, TableInv, Numbered, Active
<1> QED BY <1>1, <1>2, <1>3 DEF TableInv, Entries, Joinable, Outdated, Kept

LEMMA PublishLeaves ==
  ASSUME NEW w \in Active, NEW outcome, Publish(w, outcome), UNCHANGED <<issued, loads>>
  PROVE  Leaves(w)
BY DEF Publish, Publishes, Leaves

LEMMA CursorIssued == ASSUME TypeOK, Visit PROVE cursor \in Ids
<1>1. HostTypes BY TypeParts
<1> QED BY <1>1, IdsRange, AssetAssumption DEF HostTypes, Visit, HostRuns, AssetAssumption

LEMMA VisitEffect ==
  ASSUME TypeOK, Visit
  PROVE  SameTable \/ Leaves(cursor)
<1>1. cursor \in Ids /\ UNCHANGED <<issued, loads>> BY CursorIssued DEF Visit
<1>2. CASE Pass(cursor) BY <1>1, <1>2 DEF Pass, SameTable, Active
<1>3. CASE Abandon(cursor) BY <1>1, <1>3 DEF Abandon, Leaves
<1>4. CASE Schedule(cursor)
  <2>1. stage[cursor] = "read" /\ \E s \in {"read", "decoding"} : stage' = [stage EXCEPT ![cursor] = s]
    BY <1>4 DEF Schedule, AfterFull
  <2>2. Active' = Active /\ \A w \in Ids : stage[w] = "none" => stage'[w] = "none"
    BY <1>1, <2>1 DEF Active, TypeOK
  <2> QED BY <1>1, <1>4, <2>2 DEF Schedule, SameTable
<1>5. CASE Continue(cursor)
  <2>1. cursor \in Active /\ stage[cursor] = "settled" BY <1>1, <1>5 DEF Continue, Active
  <2>2. CASE Publish(cursor, "failed") BY <1>1, <2>1, <2>2, PublishLeaves
  <2>3. CASE ~Publish(cursor, "failed")
    <3>1. stage' = [stage EXCEPT ![cursor] = "reading"] /\ UNCHANGED <<table, cache>>
      BY <1>5, <2>3 DEF Continue
    <3>2. Active' = Active /\ \A w \in Ids : stage[w] = "none" => stage'[w] = "none"
      BY <1>1, <2>1, <3>1 DEF Active, TypeOK
    <3> QED BY <1>1, <3>1, <3>2 DEF SameTable
  <2> QED BY <2>2, <2>3
<1>6. CASE End(cursor)
  <2>1. cursor \in Active BY <1>1, <1>6 DEF End, Active
  <2> QED BY <1>1, <1>6, <2>1, PublishLeaves DEF End
<1> QED BY <1>2, <1>3, <1>4, <1>5, <1>6 DEF Visit

(* The table keeps its invariant through every step. *)
LEMMA TableStep == ASSUME TypeOK, TableInv, [Next]_vars PROVE TableInv'
<1>1. ASSUME NEW k \in Keys, NEW reload \in BOOLEAN, Load(k, reload) PROVE TableInv'
  <2>1. CASE Join(k)
    <3>1. SameTable BY <2>1 DEF Join, SameTable, Active
    <3> QED BY <3>1, SameTableKeeps
  <2>2. CASE Answer(k) \/ Begin(k, FALSE)
    <3>1. Enters(k) BY <2>2 DEF Answer, Begin, Enters, loads
    <3> QED BY <3>1, EntersKeeps
  <2>3. CASE Begin(k, TRUE) BY <2>3, BeginKeeps
  <2> QED BY <1>1, <2>1, <2>2, <2>3 DEF Load
<1>2. ASSUME NEW k \in Keys, Store(k) PROVE TableInv' BY <1>2, StoreKeeps
<1>3. CASE CollectUnused BY <1>3, CollectKeeps
<1>4. CASE \/ RequestStop \/ BeginAdvance \/ UNCHANGED vars
           \/ \E w \in Ids : Drop(w) \/ Release(w) \/ TaskBegins(w)
  <2>1. SameTable
    BY <1>4 DEF RequestStop, BeginAdvance, vars, Drop, Release, TaskBegins, SameTable, Active
  <2> QED BY <2>1, SameTableKeeps
<1>5. ASSUME NEW w \in Ids, NEW outcome \in {"ok", "failed"}, FileAnswers(w, outcome)
      PROVE  TableInv'
  <2>1. Active' = Active /\ \A v \in Ids : stage[v] = "none" => stage'[v] = "none"
    BY <1>5 DEF FileAnswers, Active, TypeOK
  <2>2. SameTable BY <1>5, <2>1 DEF FileAnswers, SameTable
  <2> QED BY <2>2, SameTableKeeps
<1>6. ASSUME NEW w \in Ids, NEW outcome, Settle(w, outcome) PROVE TableInv'
  <2>1. Active' = Active /\ \A v \in Ids : stage[v] = "none" => stage'[v] = "none"
    BY <1>6 DEF Settle, Active, TypeOK
  <2>2. SameTable BY <1>6, <2>1 DEF Settle, SameTable
  <2> QED BY <2>2, SameTableKeeps
<1>7. CASE Visit
  <2>1. cursor \in Ids BY <1>7, CursorIssued
  <2> QED BY <1>7, <2>1, VisitEffect, SameTableKeeps, LeavesKeeps
<1>8. CASE FinishStop BY <1>8, FinishKeeps
<1> QED BY <1>1, <1>2, <1>3, <1>4, <1>5, <1>6, <1>7, <1>8
        DEF Next, Game, Files, Worker, TaskEnds, TaskDiscarded, Advance

LEMMA TableInit == Init => TableInv
<1> SUFFICES ASSUME Init PROVE TableInv OBVIOUS
<1>1. Active = {} BY DEF Init, Active
<1>2. Numbered BY DEF Init, Numbered
<1> QED BY <1>1, <1>2 DEF Init, TableInv, Entries, Joinable, Outdated, Kept

LEMMA TableAlways == Spec => []TableInv
BY TableInit, TableStep, TypeCorrect, PTL DEF Spec

(* The entry of a load in flight is always there when the load looks it up, and whoever joins a *)
(* load joins the newest of its key (TableServes).                                              *)
THEOREM TableCorrect == Spec => []TableServes
<1>1. TypeOK /\ TableInv => TableServes
  <2> SUFFICES ASSUME TypeOK, TableInv PROVE TableServes OBVIOUS
  <2>1. \A w \in Active : keyOf[w] \in known /\ versions[w] <= generation[keyOf[w]]
    BY DEF TableInv, Entries
  <2>2. \A k \in known : pending[k] # 0 => pending[k] \in Active /\ Matches(pending[k])
    BY DEF TypeOK, TableInv, Joinable, Matches
  <2> QED BY <2>1, <2>2 DEF TableServes
<1> QED BY <1>1, TypeCorrect, TableAlways, PTL

(* Until a reload ends, the content it would replace stays in the cache (OldStays). *)
THEOREM OldCorrect == Spec => []OldStays
<1>1. TableInv => OldStays
  <2> SUFFICES ASSUME TableInv, NEW w \in Active, old[w] # 0, Matches(w)
               PROVE  Cached(keyOf[w]) = old[w]
    BY DEF OldStays
  <2>1. cache[keyOf[w]] = old[w] BY DEF TableInv, Kept
  <2>2. IsHeld(old[w]) BY DEF IsHeld, Pins
  <2> QED BY <2>1, <2>2 DEF Cached
<1> QED BY <1>1, TableAlways, PTL

(***************************************************************************)
(* The cache.                                                              *)
(***************************************************************************)
\* What a step may put into the cache for one key.
Newest(k) ==
  cache'[k] \notin {0, cache[k]} =>
    \A v \in Ids : keyOf'[v] = k /\ (stage'[v] = "stored" \/
                                      (stage'[v] = "done" /\ status'[v] = "ok"))
                   => v <= cache'[k]

LEMMA LeavesNewest ==
  ASSUME TypeOK, TableInv, NEW w \in Ids, Leaves(w), NEW k \in Keys
  PROVE  Newest(k)
<1> SUFFICES ASSUME cache'[k] # cache[k], NEW v \in Ids, keyOf'[v] = k
             PROVE  v <= cache'[k]
  BY DEF Newest
<1>1. Matches(w) /\ cache' = [cache EXCEPT ![keyOf[w]] = w] BY DEF Leaves
<1>2. keyOf[w] = k /\ cache'[k] = w BY <1>1 DEF TypeOK
<1>3. keyOf[v] = k BY DEF Leaves, loads
<1>4. generation[k] = versions[w] /\ generation[k] \in Nat BY <1>1, <1>2 DEF Matches, TypeOK
<1>5. ~(w < v) BY <1>2, <1>3, <1>4 DEF TableInv, Outdated, Leaves
<1> QED BY <1>2, <1>5, IdsRange

LEMMA StoreNewest ==
  ASSUME TypeOK, TableInv, NEW j \in Keys, Store(j), NEW k \in Keys
  PROVE  Newest(k)
<1> SUFFICES ASSUME cache'[k] # cache[k], NEW v \in Ids, keyOf'[v] = k
             PROVE  v <= cache'[k]
  BY DEF Newest
<1>1. k = j /\ cache'[k] = issued + 1 BY DEF Store, TypeOK
<1>2. issued \in Nat BY DEF TypeOK
<1>3. CASE v > issued + 1
  <2>1. keyOf[v] = NoKey BY <1>2, <1>3, IdsRange DEF TableInv, Numbered
  <2>2. keyOf'[v] = NoKey BY <1>2, <1>3, <2>1, IdsRange DEF Store, TypeOK
  <2> QED BY <2>2, AssetAssumption DEF AssetAssumption
<1> QED BY <1>1, <1>2, <1>3, IdsRange

LEMMA NewestStep == ASSUME TypeOK, TableInv, [Next]_vars PROVE \A k \in Keys : Newest(k)
<1> SUFFICES ASSUME NEW k \in Keys PROVE Newest(k) OBVIOUS
<1>1. ASSUME cache' = cache PROVE Newest(k) BY <1>1 DEF Newest
<1>2. ASSUME NEW j \in Keys, NEW reload \in BOOLEAN, Load(j, reload) PROVE cache' = cache
  BY <1>2 DEF Load, Join, Answer, Begin
<1>3. ASSUME NEW j \in Keys, Store(j) PROVE Newest(k) BY <1>3, StoreNewest
<1>4. CASE CollectUnused BY <1>4 DEF CollectUnused, Cached, Newest
<1>5. CASE Visit
  <2>1. cursor \in Ids BY <1>5, CursorIssued
  <2>2. CASE SameTable BY <1>1, <2>2 DEF SameTable
  <2> QED BY <1>5, <2>1, <2>2, VisitEffect, LeavesNewest
<1>6. ASSUME NEW w \in Ids, Drop(w) \/ Release(w) \/ Worker(w) PROVE cache' = cache
  BY <1>6 DEF Drop, Release, Worker, TaskBegins, TaskEnds, TaskDiscarded, Settle
<1>7. ASSUME RequestStop \/ BeginAdvance \/ FinishStop \/ UNCHANGED vars PROVE cache' = cache
  BY <1>7 DEF RequestStop, BeginAdvance, FinishStop, vars
<1>8. ASSUME Files PROVE cache' = cache BY <1>8 DEF Files, FileAnswers
<1> QED BY <1>1, <1>2, <1>3, <1>4, <1>5, <1>6, <1>7, <1>8 DEF Next, Game, Advance

(* An old load that ends late never replaces newer content (NewestStays). *)
THEOREM NewestCorrect == Spec => NewestStays
<1>1. TypeOK /\ TableInv /\ [Next]_vars =>
        [\A k \in Keys :
           cache'[k] \notin {0, cache[k]} =>
             \A v \in Ids : keyOf'[v] = k /\ (stage'[v] = "stored" \/
                                               (stage'[v] = "done" /\ status'[v] = "ok"))
                            => v <= cache'[k]]_vars
  BY NewestStep DEF Newest
<1> QED BY <1>1, TypeCorrect, TableAlways, PTL DEF Spec, NewestStays

(***************************************************************************)
(* Stopping.                                                               *)
(***************************************************************************)
StopInv == (stopped => cursor = 0) /\ (finished => stopped) /\ StoppedIsQuiet

LEMMA StopStep == ASSUME TypeOK, StopInv, [Next]_vars PROVE StopInv'
<1>1. ASSUME Game \/ Files \/ UNCHANGED vars PROVE StopInv'
  BY <1>1 DEF Game, Load, Join, Answer, Begin, Store, Drop, Release, CollectUnused, RequestStop,
     Files, FileAnswers, vars, stops, HostRuns, StopInv, StoppedIsQuiet
<1>2. ASSUME NEW w \in Ids, Worker(w) PROVE StopInv'
  BY <1>2 DEF Worker, TaskBegins, TaskEnds, TaskDiscarded, Settle, stops, StopInv,
     StoppedIsQuiet, TypeOK
<1>3. CASE BeginAdvance BY <1>3 DEF BeginAdvance, stops, StopInv, StoppedIsQuiet, TypeOK
<1>4. CASE Visit BY <1>4 DEF Visit, HostRuns, stops, StopInv, StoppedIsQuiet
<1>5. CASE FinishStop BY <1>5 DEF FinishStop, Idle, HostRuns, StopInv, StoppedIsQuiet
<1> QED BY <1>1, <1>2, <1>3, <1>4, <1>5 DEF Next, Advance

(* Once the manager has let go of everything, no decode of its own runs or will (StoppedIsQuiet). *)
THEOREM StopCorrect == Spec => []StoppedIsQuiet
<1>1. Init => StopInv BY DEF Init, StopInv, StoppedIsQuiet
<1>2. TypeOK /\ StopInv /\ [Next]_vars => StopInv' BY StopStep
<1>3. StopInv => StoppedIsQuiet BY DEF StopInv
<1> QED BY <1>1, <1>2, <1>3, TypeCorrect, PTL DEF Spec
=============================================================================
