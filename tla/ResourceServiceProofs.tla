------------------------- MODULE ResourceServiceProofs -------------------------
(***************************************************************************)
(* Handles, references and contents of the resource service, for every      *)
(* number of objects, loads, uris, slots and generations.                   *)
(***************************************************************************)
EXTENDS ResourceService, WellFoundedInduction, TLAPS

(* A set of numbers that is not empty has a least one. *)
LEMMA LeastNumber ==
  ASSUME NEW S \in SUBSET Nat, S # {} PROVE \E x \in S : \A y \in S : x <= y
<1> DEFINE R == {p \in Nat \X Nat : p[1] < p[2]}
<1>1. IsWellFoundedOn(R, Nat) BY NatLessThanWellFounded DEF OpToRel
<1>2. PICK x \in S : \A y \in S : ~ (<<y, x>> \in R) BY <1>1, WFMin
<1>3. ASSUME NEW y \in S, y < x PROVE FALSE
  <2>1. <<y, x>> \in R BY <1>3
  <2> QED BY <1>2, <2>1
<1> QED BY <1>3

(* The slot a table takes is one of its free ones. *)
LEMMA TakenIsFree ==
  ASSUME NEW k \in Kinds, FreeSlots(k) # {}
  PROVE  Min(FreeSlots(k)) \in FreeSlots(k) /\ Min(FreeSlots(k)) \in 1 .. Slots
<1>1. FreeSlots(k) \in SUBSET Nat BY DEF FreeSlots
<1>2. \E x \in FreeSlots(k) : \A y \in FreeSlots(k) : x <= y BY <1>1, LeastNumber
<1>3. Min(FreeSlots(k)) \in FreeSlots(k) BY <1>2 DEF Min
<1> QED BY <1>3 DEF FreeSlots

\* A load that has not been made is observed by nobody.
Unmade == \A w \in Loads : w > asked => held[w] = 0 /\ dep[w] = 0 /\ status[w] = "none"

\* The entry of a uri leads to an object of the uri's kind.
CacheOK == \A u \in Uris : /\ cache[u] <= made
                           /\ cache[u] # 0 => kind[cache[u]] = KindOf(u)

\* A load of the list has a uri, and only a material has a description.
ListOK == \A w \in pending : /\ \E u \in Uris : cache[u] = target[w]
                             /\ cpu[w] = "described" => kind[target[w]] = "material"

TargetsOK == \A w \in Loads : w <= asked => target[w] \in 1 .. made

Known == Unmade /\ CacheOK /\ ListOK /\ TargetsOK

LEMMA MakeType ==
  ASSUME TypeOK, ResourceAssumption, NEW k \in Kinds, NEW value \in 0 .. MaxAsked + 1,
         NEW texture \in 0 .. MaxMade, Make(k, value, texture)
  PROVE  /\ made' = made + 1 /\ made' \in 1 .. MaxMade
         /\ kind' \in [Objects -> Kinds] /\ slot' \in [Objects -> 0 .. Slots]
         /\ gen' \in [Objects -> 0 .. MaxGeneration]
         /\ content' \in [Objects -> 0 .. MaxAsked + 1] /\ deps' \in [Objects -> 0 .. MaxMade]
         /\ owned' \subseteq 1 .. made'
         /\ generation' \in [Kinds -> [1 .. Slots -> 1 .. MaxGeneration]]
         /\ occupied' \in [Kinds -> SUBSET (1 .. Slots)] /\ spent' \in [Kinds -> SUBSET (1 .. Slots)]
<1> DEFINE o == made + 1
           i == Min(FreeSlots(k))
<1>1. i \in 1 .. Slots BY TakenIsFree DEF Make
<1>2. o \in Objects /\ made \in Nat BY DEF TypeOK, Make
<1>3. generation[k][i] \in 0 .. MaxGeneration BY <1>1 DEF TypeOK
<1>4. made' = o /\ made' \in 1 .. MaxMade BY <1>2 DEF Make, Objects
<1>5. kind' \in [Objects -> Kinds] BY DEF TypeOK, Make
<1>6. slot' \in [Objects -> 0 .. Slots]
  <2>1. i \in 0 .. Slots BY <1>1
  <2>2. slot' = [slot EXCEPT ![o] = i] BY DEF Make
  <2> HIDE DEF i
  <2> QED BY <2>1, <2>2 DEF TypeOK
<1>7. gen' \in [Objects -> 0 .. MaxGeneration] BY <1>3 DEF TypeOK, Make
<1>8. content' \in [Objects -> 0 .. MaxAsked + 1] /\ deps' \in [Objects -> 0 .. MaxMade]
    BY DEF TypeOK, Make
<1>9. owned' \subseteq 1 .. made' BY <1>2, <1>4 DEF TypeOK, Make
<1>10. occupied' \in [Kinds -> SUBSET (1 .. Slots)] BY <1>1 DEF TypeOK, Make
<1> QED BY <1>4, <1>5, <1>6, <1>7, <1>8, <1>9, <1>10 DEF TypeOK, Make

LEMMA DestroyType ==
  ASSUME TypeOK, ResourceAssumption, NEW gone \in SUBSET owned, DestroyAll(gone)
  PROVE  /\ owned' \subseteq owned
         /\ generation' \in [Kinds -> [1 .. Slots -> 1 .. MaxGeneration]]
         /\ occupied' \in [Kinds -> SUBSET (1 .. Slots)] /\ spent' \in [Kinds -> SUBSET (1 .. Slots)]
<1>1. owned' \subseteq owned BY DEF DestroyAll
<1>2. occupied' \in [Kinds -> SUBSET (1 .. Slots)] BY DEF TypeOK, DestroyAll, Destroy
<1>3. \A k \in Kinds : SlotsOf(k, gone) \subseteq 1 .. Slots
    BY DEF TypeOK, SlotsOf, IsValid
<1>4. spent' \in [Kinds -> SUBSET (1 .. Slots)] BY <1>3 DEF TypeOK, DestroyAll, Destroy
<1>5. generation' \in [Kinds -> [1 .. Slots -> 1 .. MaxGeneration]]
  <2>1. \A k \in Kinds, i \in 1 .. Slots :
            generation[k][i] \in 1 .. MaxGeneration
            /\ (generation[k][i] # MaxGeneration => generation[k][i] + 1 \in 1 .. MaxGeneration)
      BY DEF TypeOK, ResourceAssumption
  <2> QED BY <2>1 DEF DestroyAll, Destroy
<1> QED BY <1>1, <1>2, <1>4, <1>5

LEMMA DeadIsOwned == Dead \in SUBSET owned
BY DEF Dead

\* The part of the type invariant that the tables and the objects are about.
ObjectsOK ==
  /\ made \in 0 .. MaxMade /\ kind \in [Objects -> Kinds]
  /\ slot \in [Objects -> 0 .. Slots] /\ gen \in [Objects -> 0 .. MaxGeneration]
  /\ content \in [Objects -> 0 .. MaxAsked + 1] /\ deps \in [Objects -> 0 .. MaxMade]
  /\ owned \subseteq 1 .. made
  /\ generation \in [Kinds -> [1 .. Slots -> 1 .. MaxGeneration]]
  /\ occupied \in [Kinds -> SUBSET (1 .. Slots)] /\ spent \in [Kinds -> SUBSET (1 .. Slots)]
  /\ cache \in [Uris -> 0 .. MaxMade] /\ uses \subseteq 1 .. made

\* And the part that the loads are about.
LoadsOK ==
  /\ asked \in 0 .. MaxAsked /\ target \in [Loads -> 0 .. MaxMade]
  /\ status \in [Loads -> {"none", "waiting", "ok", "failed", "stopped"}]
  /\ held \in [Loads -> 0 .. MaxHolders] /\ dep \in [Loads -> 0 .. MaxAsked]
  /\ cpu \in [Loads -> {"none", "reading", "ok", "failed", "described"}]
  /\ pending \subseteq 1 .. asked

LEMMA TypeSplit ==
  TypeOK <=> /\ ObjectsOK /\ LoadsOK
             /\ cursor \in 0 .. MaxAsked + 1 /\ last \in 0 .. asked
             /\ stopping \in BOOLEAN /\ closed \in BOOLEAN
BY DEF TypeOK, ObjectsOK, LoadsOK

LEMMA Listed ==
  ASSUME TypeOK, Known, ResourceAssumption, NEW w \in pending
  PROVE  w \in Loads /\ w <= asked /\ target[w] \in 1 .. made /\ target[w] # 0
<1>1. asked \in 0 .. MaxAsked /\ w \in 1 .. asked BY DEF TypeOK
<1>2. w \in Loads /\ w <= asked BY <1>1 DEF Loads, ResourceAssumption
<1>3. target[w] \in 1 .. made BY <1>2 DEF Known, TargetsOK
<1>4. made \in Nat BY DEF TypeOK
<1> QED BY <1>2, <1>3, <1>4

LEMMA ReserveType ==
  ASSUME TypeOK, Known, ResourceAssumption, NEW u \in Uris, NEW o \in Objects, Reserve(u, o),
         UNCHANGED uses
  PROVE  /\ ObjectsOK' /\ CacheOK' /\ made <= made' /\ o \in 1 .. made' /\ cache'[u] = o
         /\ \A w \in pending : \E x \in Uris : cache'[x] = target[w]
         /\ \A p \in 1 .. made : kind'[p] = kind[p]
<1>0. made \in Nat /\ made <= MaxMade /\ MaxMade \in Nat BY DEF TypeOK, ResourceAssumption
<1>1. ASSUME UNCHANGED <<objects, content, deps, tables, cache>>, o = Current(u), o # 0
      PROVE  /\ ObjectsOK' /\ CacheOK' /\ made <= made' /\ o \in 1 .. made' /\ cache'[u] = o
             /\ \A w \in pending : \E x \in Uris : cache'[x] = target[w]
             /\ \A p \in 1 .. made : kind'[p] = kind[p]
  <2>1. ObjectsOK
    <3>1. ObjectsOK BY TypeSplit
    <3> QED BY <3>1
  <2>2. ObjectsOK' BY <1>1, <2>1 DEF ObjectsOK, objects, tables
  <2>3. CacheOK' BY <1>1 DEF Known, CacheOK, objects
  <2>4. made' = made /\ kind' = kind /\ cache' = cache BY <1>1 DEF objects
  <2>5. o = cache[u] BY <1>1 DEF Current
  <2>6. o \in 1 .. made BY <1>0, <1>1, <2>5 DEF Known, CacheOK, TypeOK
  <2>7. made <= made BY <1>0
  <2> QED BY <2>2, <2>3, <2>4, <2>5, <2>6, <2>7 DEF Known, ListOK
<1>2. ASSUME Make(KindOf(u), 0, 0), cache' = [cache EXCEPT ![u] = o], o = made + 1,
             Current(u) = 0
      PROVE  /\ ObjectsOK' /\ CacheOK' /\ made <= made' /\ o \in 1 .. made' /\ cache'[u] = o
             /\ \A w \in pending : \E x \in Uris : cache'[x] = target[w]
             /\ \A p \in 1 .. made : kind'[p] = kind[p]
  <2>1. KindOf(u) \in Kinds BY DEF KindOf, Kinds
  <2>2. 0 \in 0 .. MaxAsked + 1 /\ 0 \in 0 .. MaxMade BY DEF ResourceAssumption
  <2>3. cache' \in [Uris -> 0 .. MaxMade]
    <3>1. o \in 0 .. MaxMade BY DEF Objects
    <3> QED BY <1>2, <3>1 DEF TypeOK
  <2>4. made' = made + 1 /\ made \in Nat /\ uses' \subseteq 1 .. made'
      BY <1>2 DEF TypeOK, Make
  <2>5. made <= made' /\ made' \in 0 .. MaxMade /\ o \in 1 .. made'
      BY <1>2, <2>4 DEF Make, Objects
  <2>6. /\ made' \in 1 .. MaxMade
        /\ kind' \in [Objects -> Kinds] /\ slot' \in [Objects -> 0 .. Slots]
        /\ gen' \in [Objects -> 0 .. MaxGeneration]
        /\ content' \in [Objects -> 0 .. MaxAsked + 1] /\ deps' \in [Objects -> 0 .. MaxMade]
        /\ owned' \subseteq 1 .. made'
        /\ generation' \in [Kinds -> [1 .. Slots -> 1 .. MaxGeneration]]
        /\ occupied' \in [Kinds -> SUBSET (1 .. Slots)] /\ spent' \in [Kinds -> SUBSET (1 .. Slots)]
      BY <1>2, <2>1, <2>2, MakeType
  <2>7. ObjectsOK' BY <2>3, <2>4, <2>5, <2>6 DEF ObjectsOK
  <2>8. cache'[u] = o /\ \A x \in Uris : x # u => cache'[x] = cache[x]
      BY <1>2 DEF TypeOK
  <2>9. \A p \in 1 .. made : kind'[p] = kind[p]
    <3>1. \A p \in 1 .. made : p \in Objects /\ p # o BY <1>0, <1>2 DEF Objects
    <3>2. kind' = [kind EXCEPT ![o] = KindOf(u)] BY <1>2 DEF Make
    <3>3. kind \in [Objects -> Kinds] BY DEF TypeOK
    <3> QED BY <3>1, <3>2, <3>3
  <2>10. kind'[o] = KindOf(u)
    <3>1. kind' = [kind EXCEPT ![o] = KindOf(u)] BY <1>2 DEF Make
    <3>2. kind \in [Objects -> Kinds] BY DEF TypeOK
    <3> QED BY <3>1, <3>2
  <2>11. CacheOK'
    <3> SUFFICES ASSUME NEW x \in Uris
                 PROVE  cache'[x] <= made' /\ (cache'[x] # 0 => kind'[cache'[x]] = KindOf(x))
        BY DEF CacheOK
    <3>1. CASE x = u BY <1>2, <2>4, <2>8, <2>10, <3>1
    <3>2. CASE x # u
      <4>1. cache'[x] = cache[x] /\ cache[x] \in 0 .. made
          BY <1>0, <2>8, <3>2 DEF TypeOK, Known, CacheOK
      <4>2. cache[x] # 0 => cache[x] \in 1 .. made BY <1>0, <4>1
      <4>3. cache[x] <= made' BY <1>0, <2>4, <4>1
      <4> QED BY <2>9, <4>1, <4>2, <4>3 DEF Known, CacheOK
    <3> QED BY <3>1, <3>2
  <2>12. ASSUME NEW w \in pending PROVE \E x \in Uris : cache'[x] = target[w]
    <3>1. PICK x \in Uris : cache[x] = target[w] BY DEF Known, ListOK
    <3>2. w \in Loads /\ target[w] # 0 BY Listed
    <3>3. IsHeld(target[w]) BY <3>2 DEF IsHeld, IsHeldBesides
    <3>4. x # u BY <1>2, <3>1, <3>2, <3>3 DEF Current
    <3> QED BY <2>8, <3>1, <3>4
  <2> QED BY <2>5, <2>7, <2>8, <2>9, <2>11, <2>12
<1> QED BY <1>1, <1>2 DEF Reserve

(* Joining the one load in flight, or beginning one. *)
LEMMA LoadType ==
  ASSUME TypeOK, Known, ResourceAssumption, NEW u \in Uris, NEW reload, NEW who \in {0} \cup pending,
         Load(u, reload, who), UNCHANGED uses
  PROVE  ObjectsOK' /\ LoadsOK' /\ Known' /\ asked <= asked'
<1>1. PICK o \in Objects :
        /\ Reserve(u, o)
        /\ IF InFlight(o) # {}
           THEN /\ \E w \in InFlight(o) :
                     /\ who = 0 => held[w] < MaxHolders
                     /\ Observe(w, who)
                /\ UNCHANGED <<asked, target, status, cpu, pending>>
           ELSE IF ~reload /\ IsReady(o)
           THEN Begin(o, who, "ok", FALSE)
           ELSE Begin(o, who, "waiting", TRUE)
    BY DEF Load
<1>2. /\ ObjectsOK' /\ CacheOK' /\ made <= made' /\ o \in 1 .. made' /\ cache'[u] = o
      /\ \A w \in pending : \E x \in Uris : cache'[x] = target[w]
      /\ \A p \in 1 .. made : kind'[p] = kind[p]
    BY <1>1, ReserveType
<1>3. asked \in Nat /\ who \in 0 .. asked /\ (who # 0 => who \in Loads)
  <2>1. asked \in 0 .. MaxAsked /\ MaxAsked \in Nat BY DEF TypeOK, ResourceAssumption
  <2>2. who = 0 \/ who \in 1 .. asked BY DEF TypeOK
  <2> QED BY <2>1, <2>2 DEF Loads
<1>4. ASSUME NEW w \in Loads, Observe(w, who), w <= asked' , asked' \in 0 .. MaxAsked, asked <= asked',
             \A x \in Loads : x > asked' => status'[x] = "none",
             who = 0 => held[w] < MaxHolders
      PROVE  /\ held' \in [Loads -> 0 .. MaxHolders] /\ dep' \in [Loads -> 0 .. MaxAsked]
             /\ Unmade'
  <2>1. CASE who = 0
    <3>1. held[w] + 1 \in 0 .. MaxHolders BY <1>4, <2>1 DEF TypeOK, ResourceAssumption
    <3>2. held' \in [Loads -> 0 .. MaxHolders] /\ UNCHANGED dep
      <4>1. held \in [Loads -> 0 .. MaxHolders] /\ held' = [held EXCEPT ![w] = held[w] + 1]
          BY <1>4, <2>1 DEF TypeOK, Observe
      <4> QED BY <1>4, <2>1, <3>1, <4>1 DEF Observe
    <3>3. \A x \in Loads : x > asked' => x > asked /\ x # w
        BY <1>3, <1>4 DEF Loads
    <3>4. \A x \in Loads : x # w => held'[x] = held[x] BY <1>4, <2>1 DEF TypeOK, Observe
    <3> QED BY <1>4, <3>2, <3>3, <3>4 DEF Known, Unmade, TypeOK
  <2>2. CASE who # 0
    <3>1. w \in 0 .. MaxAsked BY DEF Loads
    <3>2. dep' \in [Loads -> 0 .. MaxAsked] /\ UNCHANGED held
      <4>1. dep \in [Loads -> 0 .. MaxAsked] BY DEF TypeOK
      <4> QED BY <1>4, <2>2, <3>1, <4>1 DEF Observe
    <3>3. \A x \in Loads : x > asked' => x > asked /\ x # who
        BY <1>3, <1>4 DEF Loads
    <3>4. \A x \in Loads : x # who => dep'[x] = dep[x] BY <1>4, <2>2 DEF TypeOK, Observe
    <3> QED BY <1>4, <3>2, <3>3, <3>4 DEF Known, Unmade, TypeOK
  <2> QED BY <2>1, <2>2
<1>k. made \in Nat /\ made' \in Nat BY <1>2 DEF TypeOK, ObjectsOK
<1>l. \A w \in pending : w \in Loads /\ w <= asked /\ target[w] \in 1 .. made
    BY Listed
<1>5. CASE InFlight(o) # {}
  <2>1. PICK w \in InFlight(o) : /\ who = 0 => held[w] < MaxHolders
                                 /\ Observe(w, who)
      BY <1>1, <1>5
  <2>2. UNCHANGED <<asked, target, status, cpu, pending>> BY <1>1, <1>5
  <2>3. w \in Loads /\ w <= asked
      BY <1>3 DEF InFlight, TypeOK, Loads, ResourceAssumption
  <2>4. /\ held' \in [Loads -> 0 .. MaxHolders] /\ dep' \in [Loads -> 0 .. MaxAsked]
        /\ Unmade'
    <3>1. /\ w <= asked' /\ asked' \in 0 .. MaxAsked /\ asked <= asked'
          /\ \A x \in Loads : x > asked' => status'[x] = "none"
        BY <1>3, <2>2, <2>3 DEF Known, Unmade, TypeOK
    <3> QED BY <1>4, <2>1, <2>3, <3>1
  <2>5. ListOK' BY <1>2, <1>l, <2>2 DEF Known, ListOK
  <2>6. TargetsOK' BY <1>2, <1>k, <2>2 DEF Known, TargetsOK
  <2>7. asked <= asked' BY <1>3, <2>2
  <2>8. LoadsOK' BY <2>2, <2>4 DEF TypeOK, LoadsOK
  <2> QED BY <1>2, <2>4, <2>5, <2>6, <2>7, <2>8 DEF Known
<1>6. ASSUME NEW says \in {"ok", "waiting"}, NEW list, Begin(o, who, says, list)
      PROVE  LoadsOK' /\ Known' /\ asked <= asked'
  <2> DEFINE w == asked + 1
  <2>1. w \in Loads /\ asked' = w /\ asked' \in 0 .. MaxAsked /\ Observe(w, who)
      BY <1>6 DEF Begin, Loads
  <2>2. held[w] = 0 BY <1>3, <2>1 DEF Known, Unmade
  <2>3. \A x \in Loads : x > asked' => status'[x] = "none"
      BY <1>3, <1>6, <2>1 DEF Begin, Known, Unmade, TypeOK, Loads
  <2>4. /\ held' \in [Loads -> 0 .. MaxHolders] /\ dep' \in [Loads -> 0 .. MaxAsked]
        /\ Unmade'
      BY <1>3, <1>4, <2>1, <2>2, <2>3 DEF ResourceAssumption
  <2>5. target' \in [Loads -> 0 .. MaxMade]
    <3>1. o \in 0 .. MaxMade BY DEF Objects
    <3> QED BY <1>6, <3>1 DEF Begin, TypeOK
  <2>6. status' \in [Loads -> {"none", "waiting", "ok", "failed", "stopped"}]
      BY <1>6 DEF Begin, TypeOK
  <2>7. cpu' \in [Loads -> {"none", "reading", "ok", "failed", "described"}]
      BY <1>6 DEF Begin, TypeOK
  <2>8. pending' \subseteq pending \cup {w} BY <1>6 DEF Begin
  <2>9. pending' \subseteq 1 .. asked'
    <3>1. pending \subseteq 1 .. asked BY DEF TypeOK
    <3> QED BY <1>3, <2>1, <2>8, <3>1
  <2>10. /\ target'[w] = o /\ \A x \in Loads : x # w => target'[x] = target[x]
         /\ cpu'[w] # "described" /\ \A x \in Loads : x # w => cpu'[x] = cpu[x]
      BY <1>6, <2>1 DEF Begin, TypeOK
  <2>11. ListOK'
    <3> SUFFICES ASSUME NEW x \in pending'
                 PROVE  /\ \E y \in Uris : cache'[y] = target'[x]
                        /\ cpu'[x] = "described" => kind'[target'[x]] = "material"
        BY DEF ListOK
    <3>1. CASE x = w BY <1>2, <2>10, <3>1
    <3>2. CASE x # w
      <4>1. x \in pending BY <2>8, <3>2
      <4>2. x \in Loads /\ target'[x] = target[x] /\ cpu'[x] = cpu[x]
          BY <1>l, <2>10, <3>2, <4>1
      <4> QED BY <1>2, <1>l, <4>1, <4>2 DEF Known, ListOK
    <3> QED BY <3>1, <3>2
  <2>12. TargetsOK'
    <3> SUFFICES ASSUME NEW x \in Loads, x <= asked' PROVE target'[x] \in 1 .. made'
        BY DEF TargetsOK
    <3>1. CASE x = w BY <1>2, <2>10, <3>1
    <3>2. CASE x # w
      <4>1. x <= asked BY <1>3, <2>1, <3>2 DEF Loads
      <4>2. target[x] \in 1 .. made BY <4>1 DEF Known, TargetsOK
      <4> QED BY <1>2, <1>k, <2>10, <3>2, <4>2
    <3> QED BY <3>1, <3>2
  <2>13. asked <= asked' BY <1>3, <2>1
  <2>14. LoadsOK' BY <2>1, <2>4, <2>5, <2>6, <2>7, <2>9 DEF LoadsOK
  <2> QED BY <1>2, <2>4, <2>11, <2>12, <2>13, <2>14 DEF Known
<1>7. CASE InFlight(o) = {}
    BY <1>1, <1>2, <1>6, <1>7
<1> QED BY <1>2, <1>5, <1>7

(* What is known of uris and targets survives a step that makes objects, empties *)
(* entries nothing holds and takes loads off the list.                          *)
LEMMA KnownKept ==
  ASSUME TypeOK, Known, ResourceAssumption, made \in Nat, made' \in Nat, made <= made',
         \A p \in 1 .. made : kind'[p] = kind[p],
         \A u \in Uris : cache'[u] = cache[u] \/ (cache'[u] = 0 /\ ~IsHeld(cache[u])),
         asked' = asked, target' = target, pending' \subseteq pending, Unmade',
         \A w \in pending' : cpu'[w] = "described" =>
             cpu[w] = "described" \/ kind[target[w]] = "material"
  PROVE  Known'
<1>1. CacheOK'
  <2> SUFFICES ASSUME NEW u \in Uris
               PROVE  cache'[u] <= made' /\ (cache'[u] # 0 => kind'[cache'[u]] = KindOf(u))
      BY DEF CacheOK
  <2>1. CASE cache'[u] = 0 BY <2>1
  <2>2. CASE cache'[u] = cache[u] /\ cache[u] # 0
    <3>1. cache[u] \in Nat /\ cache[u] <= made BY DEF TypeOK, Known, CacheOK
    <3>2. cache[u] \in 1 .. made BY <2>2, <3>1
    <3>3. cache[u] <= made' BY <3>1
    <3> QED BY <2>2, <3>2, <3>3 DEF Known, CacheOK
  <2> QED BY <2>1, <2>2
<1>2. ASSUME NEW w \in pending'
      PROVE  /\ \E u \in Uris : cache'[u] = target'[w]
             /\ cpu'[w] = "described" => kind'[target'[w]] = "material"
  <2>1. w \in pending /\ w \in Loads /\ target[w] \in 1 .. made BY Listed
  <2>2. IsHeld(target[w]) BY <2>1 DEF IsHeld, IsHeldBesides
  <2>3. PICK u \in Uris : cache[u] = target[w] BY <2>1 DEF Known, ListOK
  <2>4. cache'[u] = target'[w] BY <2>2, <2>3
  <2>5. kind'[target'[w]] = kind[target[w]] BY <2>1
  <2>6. cpu[w] = "described" => kind[target[w]] = "material" BY <2>1 DEF Known, ListOK
  <2> QED BY <2>4, <2>5, <2>6
<1>3. TargetsOK' BY DEF Known, TargetsOK
<1> QED BY <1>1, <1>2, <1>3 DEF Known, ListOK

(* The uri of a material in the list, and the texture it names. *)
LEMMA NeedIsUri ==
  ASSUME TypeOK, Known, ResourceAssumption, NEW w, Takes(w), cpu[w] = "described"
  PROVE  /\ TextureOf(w) \in Materials /\ Needs[TextureOf(w)] \in Textures \cup {NoUri}
<1>1. w \in pending /\ target[w] # 0 BY Listed DEF Takes
<1>2. TextureOf(w) \in Uris /\ cache[TextureOf(w)] = target[w]
    BY <1>1 DEF Known, ListOK, TextureOf
<1>3. kind[target[w]] = "material" BY <1>1 DEF Known, ListOK
<1>4. KindOf(TextureOf(w)) = "material" BY <1>1, <1>2, <1>3 DEF Known, CacheOK
<1>5. TextureOf(w) \notin Textures BY <1>4 DEF KindOf
<1> QED BY <1>2, <1>5 DEF Uris, ResourceAssumption

TypeInv == TypeOK /\ Known

LEMMA SameObjects ==
  ASSUME TypeOK, UNCHANGED <<objects, content, deps, tables, cache, uses>>
  PROVE  ObjectsOK'
<1>1. ObjectsOK BY TypeSplit
<1> QED BY <1>1 DEF ObjectsOK, objects, tables

LEMMA SameLoads ==
  ASSUME TypeOK, Known, UNCHANGED loads
  PROVE  LoadsOK' /\ Unmade'
<1>1. LoadsOK BY TypeSplit
<1>2. Unmade BY DEF Known
<1> QED BY <1>1, <1>2 DEF LoadsOK, Unmade, loads

LEMMA DestroyKeepsType ==
  ASSUME TypeOK, Known, ResourceAssumption, NEW gone \in SUBSET owned, DestroyAll(gone),
         UNCHANGED <<objects, content, deps, uses, loads>>,
         cache' = cache \/ cache' = [u \in Uris |-> Current(u)]
  PROVE  ObjectsOK' /\ LoadsOK' /\ Known'
<1>1. LoadsOK' /\ Unmade' BY SameLoads
<1>2. made \in Nat /\ made' = made /\ kind' = kind BY DEF TypeOK, objects
<1>3. \A u \in Uris : cache'[u] = cache[u] \/ (cache'[u] = 0 /\ ~IsHeld(cache[u]))
    BY DEF Current
<1>4. made <= made' BY <1>2
<1>5. Known' BY <1>1, <1>2, <1>3, <1>4, KnownKept DEF loads
<1>6. cache' \in [Uris -> 0 .. MaxMade]
  <2>1. cache \in [Uris -> 0 .. MaxMade] BY DEF TypeOK
  <2>2. \A u \in Uris : cache'[u] \in 0 .. MaxMade BY <1>3, <2>1 DEF ResourceAssumption
  <2> QED BY <2>1, <2>2
<1>7. /\ owned' \subseteq owned
      /\ generation' \in [Kinds -> [1 .. Slots -> 1 .. MaxGeneration]]
      /\ occupied' \in [Kinds -> SUBSET (1 .. Slots)] /\ spent' \in [Kinds -> SUBSET (1 .. Slots)]
    BY DestroyType
<1>8. ObjectsOK
  <2>1. ObjectsOK BY TypeSplit
  <2> QED BY <2>1
<1>9. ObjectsOK' BY <1>2, <1>6, <1>7, <1>8 DEF ObjectsOK, objects
<1> QED BY <1>1, <1>5, <1>9

(* Steps that leave the objects and the loads' targets alone. *)
LEMMA SteadyKeepsType ==
  ASSUME TypeOK, Known, ResourceAssumption,
         UNCHANGED <<objects, content, deps, tables, cache, asked, target>>,
         uses' \subseteq 1 .. made, pending' \subseteq pending,
         status' \in [Loads -> {"none", "waiting", "ok", "failed", "stopped"}],
         held' \in [Loads -> 0 .. MaxHolders], dep' \in [Loads -> 0 .. MaxAsked],
         cpu' \in [Loads -> {"none", "reading", "ok", "failed", "described"}],
         Unmade',
         \A w \in pending' : cpu'[w] = "described" => cpu[w] = "described"
  PROVE  ObjectsOK' /\ LoadsOK' /\ Known'
<1>1. made \in Nat /\ made' = made /\ kind' = kind /\ cache' = cache /\ asked' = asked
    BY DEF TypeOK, objects
<1>2. made <= made' BY <1>1
<1>3. Known' BY <1>1, <1>2, KnownKept
<1>4. ObjectsOK /\ LoadsOK
  <2>1. ObjectsOK /\ LoadsOK BY TypeSplit
  <2> QED BY <2>1
<1>5. ObjectsOK' BY <1>1, <1>4 DEF ObjectsOK, objects, tables
<1>6. LoadsOK' BY <1>1, <1>4 DEF LoadsOK
<1> QED BY <1>3, <1>5, <1>6

LEMMA CreateType ==
  ASSUME TypeOK, Known, ResourceAssumption, NEW k \in Kinds, NEW t \in uses \cup {0}, Create(k, t)
  PROVE  ObjectsOK' /\ LoadsOK' /\ Known'
<1>1. LoadsOK' /\ Unmade'
  <2>1. UNCHANGED loads BY DEF Create
  <2> QED BY <2>1, SameLoads
<1>2. Own \in 0 .. MaxAsked + 1 BY DEF Own, ResourceAssumption
<1>3. t \in 0 .. MaxMade BY DEF TypeOK, ResourceAssumption
<1>4. /\ made' = made + 1 /\ made' \in 1 .. MaxMade
      /\ kind' \in [Objects -> Kinds] /\ slot' \in [Objects -> 0 .. Slots]
      /\ gen' \in [Objects -> 0 .. MaxGeneration]
      /\ content' \in [Objects -> 0 .. MaxAsked + 1] /\ deps' \in [Objects -> 0 .. MaxMade]
      /\ owned' \subseteq 1 .. made'
      /\ generation' \in [Kinds -> [1 .. Slots -> 1 .. MaxGeneration]]
      /\ occupied' \in [Kinds -> SUBSET (1 .. Slots)] /\ spent' \in [Kinds -> SUBSET (1 .. Slots)]
  <2>1. Make(k, Own, t) BY DEF Create
  <2> QED BY <1>2, <1>3, <2>1, MakeType
<1>5. made \in Nat /\ made' \in Nat /\ made <= made' BY <1>4 DEF TypeOK
<1>6. \A p \in 1 .. made : kind'[p] = kind[p]
  <2>1. kind' = [kind EXCEPT ![made + 1] = k] /\ made + 1 \in Objects BY DEF Create, Make
  <2>2. \A p \in 1 .. made : p \in Objects /\ p # made + 1 BY <1>5, <2>1 DEF Objects
  <2>3. kind \in [Objects -> Kinds] BY DEF TypeOK
  <2> QED BY <2>1, <2>2, <2>3
<1>7. cache' = cache /\ asked' = asked /\ target' = target /\ pending' = pending /\ cpu' = cpu
    BY DEF Create, loads
<1>8. Known' BY <1>1, <1>5, <1>6, <1>7, KnownKept
<1>9. uses' \subseteq 1 .. made'
  <2>1. uses' = uses \cup {made'} BY DEF Create
  <2>2. uses \subseteq 1 .. made BY DEF TypeOK
  <2> QED BY <1>4, <1>5, <2>1, <2>2
<1>10. cache' \in [Uris -> 0 .. MaxMade] BY <1>7 DEF TypeOK
<1>11. made' \in 0 .. MaxMade BY <1>4
<1>12. ObjectsOK' BY <1>4, <1>9, <1>10, <1>11 DEF ObjectsOK
<1> QED BY <1>1, <1>8, <1>12

LEMMA CreateFailsType ==
  ASSUME TypeOK, Known, ResourceAssumption, NEW k \in Kinds, CreateFails(k)
  PROVE  ObjectsOK' /\ LoadsOK' /\ Known'
<1>1. LoadsOK' /\ Unmade'
  <2>1. UNCHANGED loads BY DEF CreateFails
  <2> QED BY <2>1, SameLoads
<1>2. /\ made' = made /\ kind' = kind /\ slot' = slot /\ gen' = gen /\ cache' = cache
      /\ asked' = asked /\ target' = target /\ pending' = pending /\ cpu' = cpu
      /\ content' = content /\ deps' = deps /\ owned' = owned /\ occupied' = occupied
      /\ uses' = uses
    BY DEF CreateFails, loads, objects
<1>3. made \in Nat /\ made' \in Nat /\ made <= made' BY <1>2 DEF TypeOK
<1>4. Known' BY <1>1, <1>2, <1>3, KnownKept
<1> DEFINE i == Min(FreeSlots(k))
<1>5. i \in 1 .. Slots BY TakenIsFree DEF CreateFails
<1>6. /\ generation' \in [Kinds -> [1 .. Slots -> 1 .. MaxGeneration]]
      /\ spent' \in [Kinds -> SUBSET (1 .. Slots)]
  <2>0. /\ generation \in [Kinds -> [1 .. Slots -> 1 .. MaxGeneration]]
        /\ spent \in [Kinds -> SUBSET (1 .. Slots)]
      BY DEF TypeOK
  <2>1. CASE generation[k][i] = MaxGeneration
    <3>1. spent' = [spent EXCEPT ![k] = @ \cup {i}] /\ generation' = generation
        BY <2>1 DEF CreateFails
    <3> QED BY <1>5, <2>0, <3>1
  <2>2. CASE generation[k][i] # MaxGeneration
    <3>1. generation' = [generation EXCEPT ![k][i] = @ + 1] /\ spent' = spent
        BY <2>2 DEF CreateFails
    <3>2. generation[k][i] + 1 \in 1 .. MaxGeneration
        BY <1>5, <2>0, <2>2 DEF ResourceAssumption
    <3>3. generation' = [generation EXCEPT ![k] = [generation[k] EXCEPT ![i] = generation[k][i] + 1]]
        BY <3>1
    <3>4. generation[k] \in [1 .. Slots -> 1 .. MaxGeneration] BY <2>0
    <3>5. [generation[k] EXCEPT ![i] = generation[k][i] + 1] \in [1 .. Slots -> 1 .. MaxGeneration]
        BY <1>5, <3>2, <3>4
    <3> HIDE DEF i
    <3> QED BY <2>0, <3>1, <3>3, <3>5
  <2> QED BY <2>1, <2>2
<1>7. ObjectsOK
  <2>1. ObjectsOK BY TypeSplit
  <2> QED BY <2>1
<1>8. ObjectsOK' BY <1>2, <1>6, <1>7 DEF ObjectsOK
<1> QED BY <1>1, <1>4, <1>8

LEMMA RefusedType ==
  ASSUME TypeOK, Known, ResourceAssumption, NEW u \in Uris, LoadRefused(u),
         UNCHANGED <<uses, asked, target, held, cpu, dep, pending>>,
         status' \in [Loads -> {"none", "waiting", "ok", "failed", "stopped"}], Unmade'
  PROVE  ObjectsOK' /\ LoadsOK' /\ Known'
<1>1. LoadsOK'
  <2>1. LoadsOK BY TypeSplit
  <2> QED BY <2>1 DEF LoadsOK
<1>2. CASE UNCHANGED <<objects, content, deps, tables, cache>>
  <2>1. ObjectsOK' BY <1>2, SameObjects
  <2>2. made \in Nat /\ made' = made /\ kind' = kind /\ cache' = cache
      BY <1>2 DEF TypeOK, objects
  <2>3. made <= made' BY <2>2
  <2>4. Known' BY <2>2, <2>3, KnownKept
  <2> QED BY <1>1, <2>1, <2>4
<1>3. ASSUME NEW o \in Objects, Reserve(u, o) PROVE ObjectsOK' /\ Known'
  <2>1. /\ ObjectsOK' /\ CacheOK' /\ made <= made'
        /\ \A w \in pending : \E x \in Uris : cache'[x] = target[w]
        /\ \A p \in 1 .. made : kind'[p] = kind[p]
      BY <1>3, ReserveType
  <2>2. made \in Nat /\ made' \in Nat BY <2>1 DEF TypeOK, ObjectsOK
  <2>3. \A w \in pending : target[w] \in 1 .. made BY Listed
  <2>4. ListOK' BY <2>1, <2>3 DEF Known, ListOK
  <2>5. TargetsOK' BY <2>1, <2>2 DEF Known, TargetsOK
  <2> QED BY <2>1, <2>4, <2>5 DEF Known
<1> QED BY <1>1, <1>2, <1>3 DEF LoadRefused

LEMMA AnswerType ==
  ASSUME TypeOK, Known, ResourceAssumption, NEW w \in Loads, NEW outcome \in {"ok", "failed"},
         Answer(w, outcome)
  PROVE  ObjectsOK' /\ LoadsOK' /\ Known'
<1>1. cpu' \in [Loads -> {"none", "reading", "ok", "failed", "described"}]
      /\ \A x \in Loads : cpu'[x] = "described" => cpu[x] = "described"
    BY DEF Answer, TypeOK
<1>2. Unmade' BY DEF Answer, Known, Unmade
<1>3. /\ UNCHANGED <<objects, content, deps, tables, cache, asked, target>>
      /\ uses' \subseteq 1 .. made /\ pending' = pending
      /\ status' \in [Loads -> {"none", "waiting", "ok", "failed", "stopped"}]
      /\ held' \in [Loads -> 0 .. MaxHolders] /\ dep' \in [Loads -> 0 .. MaxAsked]
    BY DEF Answer, TypeOK
<1>4. \A x \in pending : x \in Loads BY Listed
<1> QED BY <1>1, <1>2, <1>3, <1>4, SteadyKeepsType

LEMMA DropType ==
  ASSUME TypeOK, Known, ResourceAssumption, NEW w \in Loads, Drop(w)
  PROVE  ObjectsOK' /\ LoadsOK' /\ Known'
<1>1. held[w] \in 0 .. MaxHolders /\ held[w] > 0 BY DEF Drop, TypeOK
<1>2. held[w] - 1 \in 0 .. MaxHolders BY <1>1 DEF ResourceAssumption
<1>3. held' \in [Loads -> 0 .. MaxHolders]
  <2>1. held' = [held EXCEPT ![w] = held[w] - 1] /\ held \in [Loads -> 0 .. MaxHolders]
      BY DEF Drop, TypeOK
  <2> QED BY <1>2, <2>1
<1>4. w <= asked
  <2>1. w \in Nat /\ asked \in Nat BY DEF TypeOK, Loads
  <2> QED BY <1>1, <2>1 DEF Known, Unmade
<1>5. uses' \subseteq 1 .. made
  <2>1. target[w] \in 1 .. made BY <1>4 DEF Known, TargetsOK
  <2>2. uses \subseteq 1 .. made BY DEF TypeOK
  <2>3. uses' = uses \/ uses' = uses \cup {target[w]} BY DEF Drop
  <2> QED BY <2>1, <2>2, <2>3
<1>6. Unmade'
  <2>1. \A x \in Loads : x > asked => x # w BY <1>4 DEF TypeOK, Loads
  <2>2. \A x \in Loads : x # w => held'[x] = held[x] BY DEF Drop, TypeOK
  <2> QED BY <2>1, <2>2 DEF Drop, Known, Unmade
<1>7. /\ UNCHANGED <<objects, content, deps, tables, cache, asked, target>>
      /\ pending' = pending /\ cpu' = cpu
      /\ status' \in [Loads -> {"none", "waiting", "ok", "failed", "stopped"}]
      /\ dep' \in [Loads -> 0 .. MaxAsked]
      /\ cpu' \in [Loads -> {"none", "reading", "ok", "failed", "described"}]
    BY DEF Drop, TypeOK
<1> QED BY <1>3, <1>5, <1>6, <1>7, SteadyKeepsType

(* The advance: it passes over a load, ends it, or asks for its texture. *)
LEMMA EndsType ==
  ASSUME TypeOK, Known, ResourceAssumption, NEW w \in Loads, w <= asked,
         NEW says \in {"ok", "failed"}, Ends(w, says), UNCHANGED <<asked, held, dep>>
  PROVE  status' \in [Loads -> {"none", "waiting", "ok", "failed", "stopped"}] /\ Unmade'
<1>1. status' \in [Loads -> {"none", "waiting", "ok", "failed", "stopped"}]
    BY DEF Ends, TypeOK
<1>2. \A x \in Loads : x > asked => x # w BY DEF TypeOK, Loads
<1>3. \A x \in Loads : x # w => status'[x] = status[x] BY DEF Ends, TypeOK
<1> QED BY <1>1, <1>2, <1>3 DEF Known, Unmade

LEMMA AdoptType ==
  ASSUME TypeOK, Known, ResourceAssumption, NEW w, Takes(w), NEW t \in 0 .. MaxMade, Adopt(w, t),
         UNCHANGED <<objects, tables, cache, asked, target, held, dep, pending, uses, cpu>>
  PROVE  ObjectsOK' /\ LoadsOK' /\ Known'
<1>1. w \in Loads /\ w <= asked /\ target[w] \in 1 .. made BY Listed DEF Takes
<1>2. PICK says \in {"ok", "failed"} : Ends(w, says) BY DEF Adopt
<1>3. status' \in [Loads -> {"none", "waiting", "ok", "failed", "stopped"}] /\ Unmade'
    BY <1>1, <1>2, EndsType
<1>4. content' \in [Objects -> 0 .. MaxAsked + 1] /\ deps' \in [Objects -> 0 .. MaxMade]
  <2>1. w \in 0 .. MaxAsked + 1 BY <1>1 DEF Loads, ResourceAssumption
  <2>2. content \in [Objects -> 0 .. MaxAsked + 1] /\ deps \in [Objects -> 0 .. MaxMade]
      BY DEF TypeOK
  <2> QED BY <2>1, <2>2 DEF Adopt
<1>5. made \in Nat /\ made' = made /\ kind' = kind BY DEF TypeOK, objects
<1>6. made <= made' BY <1>5
<1>7. Known' BY <1>3, <1>5, <1>6, KnownKept
<1>8. ObjectsOK /\ LoadsOK
  <2>1. ObjectsOK /\ LoadsOK BY TypeSplit
  <2> QED BY <2>1
<1>9. ObjectsOK' BY <1>4, <1>5, <1>8 DEF ObjectsOK, objects, tables
<1>10. LoadsOK' BY <1>3, <1>8 DEF LoadsOK
<1> QED BY <1>7, <1>9, <1>10

LEMMA PassType ==
  ASSUME TypeOK, Known, ResourceAssumption, NEW w, Pass(w), UNCHANGED uses
  PROVE  ObjectsOK' /\ LoadsOK' /\ Known'
<1>1. UNCHANGED <<objects, content, deps, tables, cache, loads, uses>> BY DEF Pass
<1>2. ObjectsOK' /\ LoadsOK' /\ Unmade' BY <1>1, SameObjects, SameLoads
<1>3. made \in Nat /\ made' = made /\ kind' = kind /\ cache' = cache BY <1>1 DEF TypeOK, objects
<1>4. made <= made' BY <1>3
<1>5. asked' = asked /\ target' = target /\ pending' = pending /\ cpu' = cpu BY <1>1 DEF loads
<1> QED BY <1>2, <1>3, <1>4, <1>5, KnownKept

LEMMA TextureFailedType ==
  ASSUME TypeOK, Known, ResourceAssumption, NEW w, TextureFailed(w), UNCHANGED uses
  PROVE  ObjectsOK' /\ LoadsOK' /\ Known'
<1>1. w \in Loads /\ w <= asked BY Listed DEF Takes, TextureFailed
<1>2. Ends(w, "failed") /\ UNCHANGED <<asked, held, dep>> BY DEF TextureFailed
<1>3. status' \in [Loads -> {"none", "waiting", "ok", "failed", "stopped"}] /\ Unmade'
    BY <1>1, <1>2, EndsType
<1>4. /\ UNCHANGED <<objects, content, deps, tables, cache, asked, target>>
      /\ uses' \subseteq 1 .. made /\ pending' = pending /\ cpu' = cpu
      /\ held' \in [Loads -> 0 .. MaxHolders] /\ dep' \in [Loads -> 0 .. MaxAsked]
      /\ cpu' \in [Loads -> {"none", "reading", "ok", "failed", "described"}]
    BY DEF TextureFailed, TypeOK
<1> QED BY <1>3, <1>4, SteadyKeepsType

LEMMA TakeContentType ==
  ASSUME TypeOK, Known, ResourceAssumption, NEW w, TakeContent(w), UNCHANGED uses
  PROVE  ObjectsOK' /\ LoadsOK' /\ Known'
<1>1. w \in Loads /\ w <= asked /\ w \in pending /\ target[w] \in Objects
  <2>1. w \in Loads /\ w <= asked /\ w \in pending /\ target[w] \in 1 .. made
      BY Listed DEF Takes, TakeContent
  <2>2. made \in 0 .. MaxMade BY DEF TypeOK
  <2> QED BY <2>1, <2>2 DEF Objects, ResourceAssumption
<1>2. Takes(w) /\ UNCHANGED <<objects, tables, cache, asked, target, held, dep, pending, uses>>
    BY DEF TakeContent
<1>3. CASE cpu[w] = "failed"
  <2>1. Ends(w, "failed") /\ UNCHANGED <<content, deps, cpu>> BY <1>3 DEF TakeContent
  <2>2. status' \in [Loads -> {"none", "waiting", "ok", "failed", "stopped"}] /\ Unmade'
      BY <1>1, <1>2, <2>1, EndsType
  <2>3. /\ uses' \subseteq 1 .. made
        /\ held' \in [Loads -> 0 .. MaxHolders] /\ dep' \in [Loads -> 0 .. MaxAsked]
        /\ cpu' \in [Loads -> {"none", "reading", "ok", "failed", "described"}]
      BY <1>2, <2>1 DEF TypeOK
  <2> QED BY <1>2, <2>1, <2>2, <2>3, SteadyKeepsType
<1>4. CASE cpu[w] # "failed" /\ kind[target[w]] = "texture"
  <2>1. Adopt(w, 0) /\ UNCHANGED cpu BY <1>4 DEF TakeContent
  <2>2. 0 \in 0 .. MaxMade BY DEF ResourceAssumption
  <2> QED BY <1>2, <2>1, <2>2, AdoptType
<1>5. CASE cpu[w] # "failed" /\ kind[target[w]] # "texture"
  <2>1. cpu' = [cpu EXCEPT ![w] = "described"] /\ UNCHANGED <<status, content, deps>>
      BY <1>5 DEF TakeContent
  <2>2. kind[target[w]] = "material" BY <1>1, <1>5 DEF TypeOK, Kinds
  <2>3. cpu' \in [Loads -> {"none", "reading", "ok", "failed", "described"}]
        /\ \A x \in Loads : x # w => cpu'[x] = cpu[x]
      BY <2>1 DEF TypeOK
  <2>4. \A x \in pending : x \in Loads BY Listed
  <2>5. Unmade' BY <1>2, <2>1 DEF Known, Unmade
  <2>6. made \in Nat /\ made' = made /\ kind' = kind BY <1>2 DEF TypeOK, objects
  <2>7. made <= made' BY <2>6
  <2>8. Known' BY <1>2, <2>2, <2>3, <2>4, <2>5, <2>6, <2>7, KnownKept
  <2>9. ObjectsOK' BY <1>2, <2>1, SameObjects
  <2>10. LoadsOK
    <3>1. LoadsOK BY TypeSplit
    <3> QED BY <3>1
  <2>11. LoadsOK' BY <1>2, <2>1, <2>3, <2>10 DEF LoadsOK
  <2> QED BY <2>8, <2>9, <2>11
<1> QED BY <1>3, <1>4, <1>5

LEMMA AskTextureType ==
  ASSUME TypeOK, Known, ResourceAssumption, NEW w, AskTexture(w), UNCHANGED uses
  PROVE  ObjectsOK' /\ LoadsOK' /\ Known' /\ asked <= asked'
<1> DEFINE u == Needs[TextureOf(w)]
<1>1. Takes(w) /\ cpu[w] = "described" /\ u # NoUri BY DEF AskTexture
<1>2. u \in Uris BY <1>1, NeedIsUri DEF Uris
<1>3. w \in Loads /\ w <= asked /\ w \in pending BY <1>1, Listed DEF Takes
<1>4. CASE Load(u, FALSE, w)
  <2> HIDE DEF u
  <2> QED BY <1>2, <1>3, <1>4, LoadType
<1>5. ASSUME LoadRefused(u), Ends(w, "failed"), UNCHANGED <<asked, target, held, cpu, dep, pending>>
      PROVE  ObjectsOK' /\ LoadsOK' /\ Known' /\ asked <= asked'
  <2>1. status' \in [Loads -> {"none", "waiting", "ok", "failed", "stopped"}] /\ Unmade'
      BY <1>3, <1>5, EndsType
  <2>2. asked <= asked' BY <1>5 DEF TypeOK
  <2> HIDE DEF u
  <2> QED BY <1>2, <1>5, <2>1, <2>2, RefusedType
<1> QED BY <1>4, <1>5 DEF AskTexture

LEMMA AdoptMaterialType ==
  ASSUME TypeOK, Known, ResourceAssumption, NEW w, AdoptMaterial(w), UNCHANGED uses
  PROVE  ObjectsOK' /\ LoadsOK' /\ Known'
<1> DEFINE t == IF dep[w] = 0 THEN 0 ELSE target[dep[w]]
<1>1. Takes(w) /\ Adopt(w, t) BY DEF AdoptMaterial
<1>2. w \in Loads BY <1>1, Listed DEF Takes
<1>3. t \in 0 .. MaxMade
  <2>1. dep[w] \in 0 .. MaxAsked BY <1>2 DEF TypeOK
  <2>2. dep[w] # 0 => dep[w] \in Loads BY <2>1 DEF Loads, ResourceAssumption
  <2> QED BY <2>2 DEF TypeOK, ResourceAssumption
<1>4. UNCHANGED <<objects, tables, cache, asked, target, held, dep, pending, uses, cpu>>
    BY DEF AdoptMaterial
<1> HIDE DEF t
<1> QED BY <1>1, <1>3, <1>4, AdoptType

LEMMA WalkType ==
  ASSUME TypeOK, Known, ResourceAssumption, Walk
  PROVE  ObjectsOK' /\ LoadsOK' /\ Known' /\ cursor' \in 0 .. MaxAsked + 1 /\ last' \in 0 .. asked'
<1> DEFINE w == cursor
<1>1. w \in 1 .. last /\ last \in 0 .. asked /\ asked \in 0 .. MaxAsked BY DEF Walk, TypeOK
<1>2. w \in 0 .. MaxAsked + 1 /\ w + 1 \in 0 .. MaxAsked + 1 BY <1>1 DEF ResourceAssumption
<1>3. UNCHANGED <<uses, last, stops>> /\ Visit(w) BY DEF Walk
<1>4. cursor' = w \/ cursor' = w + 1 BY <1>3 DEF Visit
<1>5. CASE AskTexture(w)
  <2>1. ObjectsOK' /\ LoadsOK' /\ Known' /\ asked <= asked' BY <1>3, <1>5, AskTextureType
  <2>2. asked' \in Nat BY <2>1 DEF LoadsOK
  <2>3. last' \in 0 .. asked' BY <1>1, <1>3, <2>1, <2>2
  <2> QED BY <1>2, <1>4, <2>1, <2>3
<1>6. CASE ~AskTexture(w)
  <2>1. Pass(w) \/ TextureFailed(w) \/ AdoptMaterial(w) \/ TakeContent(w)
      BY <1>3, <1>6 DEF Visit
  <2>2. ObjectsOK' /\ LoadsOK' /\ Known'
      BY <1>3, <2>1, PassType, TextureFailedType, AdoptMaterialType, TakeContentType
  <2>3. asked' = asked
      BY <2>1 DEF Pass, TextureFailed, AdoptMaterial, TakeContent, loads
  <2> QED BY <1>1, <1>2, <1>3, <1>4, <2>2, <2>3
<1> QED BY <1>5, <1>6

LEMMA EndAdvanceType ==
  ASSUME TypeOK, Known, ResourceAssumption, EndAdvance
  PROVE  ObjectsOK' /\ LoadsOK' /\ Known'
<1>1. dep' \in [Loads -> 0 .. MaxAsked] BY DEF EndAdvance, TypeOK, ResourceAssumption
<1>2. Unmade' BY DEF EndAdvance, Known, Unmade
<1>3. /\ UNCHANGED <<objects, content, deps, tables, cache, asked, target>>
      /\ pending' \subseteq pending /\ cpu' = cpu
    BY DEF EndAdvance, Remaining
<1>4. /\ uses' \subseteq 1 .. made
      /\ status' \in [Loads -> {"none", "waiting", "ok", "failed", "stopped"}]
      /\ held' \in [Loads -> 0 .. MaxHolders]
      /\ cpu' \in [Loads -> {"none", "reading", "ok", "failed", "described"}]
    BY DEF EndAdvance, TypeOK
<1> QED BY <1>1, <1>2, <1>3, <1>4, SteadyKeepsType

LEMMA RequestStopType ==
  ASSUME TypeOK, Known, ResourceAssumption, RequestStop
  PROVE  ObjectsOK' /\ LoadsOK' /\ Known'
<1>1. dep' \in [Loads -> 0 .. MaxAsked]
      /\ status' \in [Loads -> {"none", "waiting", "ok", "failed", "stopped"}]
    BY DEF RequestStop, StopLoading, TypeOK, ResourceAssumption
<1>2. Unmade'
  <2>1. \A x \in Loads : x > asked => x \notin pending BY DEF TypeOK, Loads
  <2> QED BY <2>1 DEF RequestStop, StopLoading, Known, Unmade
<1>3. /\ UNCHANGED <<objects, content, deps, tables, cache, asked, target>>
      /\ pending' \subseteq pending /\ cpu' = cpu /\ pending' = {}
      /\ uses' \subseteq 1 .. made
      /\ held' \in [Loads -> 0 .. MaxHolders]
      /\ cpu' \in [Loads -> {"none", "reading", "ok", "failed", "described"}]
    BY DEF RequestStop, StopLoading, TypeOK
<1> QED BY <1>1, <1>2, <1>3, SteadyKeepsType

LEMMA GameLoadsType ==
  ASSUME TypeOK, Known, ResourceAssumption, NEW u \in Uris, NEW reload, GameLoads(u, reload)
  PROVE  ObjectsOK' /\ LoadsOK' /\ Known' /\ asked <= asked'
<1>1. CASE Load(u, reload, 0) BY <1>1, LoadType DEF GameLoads
<1>2. ASSUME LoadRefused(u), UNCHANGED loads, UNCHANGED uses
      PROVE  ObjectsOK' /\ LoadsOK' /\ Known' /\ asked <= asked'
  <2>1. LoadsOK' /\ Unmade' BY <1>2, SameLoads
  <2>2. status' \in [Loads -> {"none", "waiting", "ok", "failed", "stopped"}]
        /\ UNCHANGED <<uses, asked, target, held, cpu, dep, pending>>
      BY <1>2, <2>1 DEF LoadsOK, loads
  <2>3. asked <= asked' BY <2>2 DEF TypeOK
  <2> QED BY <1>2, <2>1, <2>2, <2>3, RefusedType
<1> QED BY <1>1, <1>2 DEF GameLoads

LEMMA StepType ==
  ASSUME TypeOK, Known, ResourceAssumption, [Next]_vars
  PROVE  TypeOK' /\ Known'
<1>1. last \in 0 .. asked /\ asked \in 0 .. MaxAsked /\ cursor \in 0 .. MaxAsked + 1
      /\ stopping \in BOOLEAN /\ closed \in BOOLEAN
    BY DEF TypeOK
<1>2. SUFFICES /\ ObjectsOK' /\ LoadsOK' /\ Known'
               /\ cursor' \in 0 .. MaxAsked + 1 /\ last' \in 0 .. asked'
               /\ stopping' \in BOOLEAN /\ closed' \in BOOLEAN
    BY DEF TypeOK, ObjectsOK, LoadsOK
<1>3. ASSUME UNCHANGED <<walk, stops>>, ObjectsOK', LoadsOK', Known', asked <= asked'
      PROVE  /\ ObjectsOK' /\ LoadsOK' /\ Known'
             /\ cursor' \in 0 .. MaxAsked + 1 /\ last' \in 0 .. asked'
             /\ stopping' \in BOOLEAN /\ closed' \in BOOLEAN
  <2>1. asked' \in Nat BY <1>3 DEF LoadsOK
  <2>2. cursor' = cursor /\ last' = last /\ stopping' = stopping /\ closed' = closed
      BY <1>3 DEF walk, stops
  <2>3. last' \in 0 .. asked' BY <1>1, <1>3, <2>1, <2>2
  <2> QED BY <1>1, <1>3, <2>2, <2>3
<1>4. asked' = asked => asked <= asked' BY <1>1
<1>5. ASSUME NEW u \in Uris, NEW reload \in BOOLEAN, GameLoads(u, reload)
      PROVE  UNCHANGED <<walk, stops>> /\ ObjectsOK' /\ LoadsOK' /\ Known' /\ asked <= asked'
  <2>1. UNCHANGED <<walk, stops>> BY <1>5 DEF GameLoads
  <2> QED BY <1>5, <2>1, GameLoadsType
<1>6. ASSUME NEW w \in Loads, Drop(w) \/ \E outcome \in {"ok", "failed"} : Answer(w, outcome)
      PROVE  UNCHANGED <<walk, stops>> /\ ObjectsOK' /\ LoadsOK' /\ Known' /\ asked <= asked'
  <2>1. UNCHANGED <<walk, stops>> /\ asked' = asked BY <1>6 DEF Drop, Answer
  <2>2. ObjectsOK' /\ LoadsOK' /\ Known' BY <1>6, DropType, AnswerType
  <2> QED BY <1>4, <2>1, <2>2
<1>7. ASSUME NEW k \in Kinds, CreateFails(k) \/ \E t \in uses \cup {0} : Create(k, t)
      PROVE  UNCHANGED <<walk, stops>> /\ ObjectsOK' /\ LoadsOK' /\ Known' /\ asked <= asked'
  <2>1. UNCHANGED <<walk, stops>> /\ asked' = asked BY <1>7 DEF Create, CreateFails, loads
  <2>2. ObjectsOK' /\ LoadsOK' /\ Known' BY <1>7, CreateType, CreateFailsType
  <2> QED BY <1>4, <2>1, <2>2
<1>8. ASSUME NEW o \in uses, Release(o)
      PROVE  UNCHANGED <<walk, stops>> /\ ObjectsOK' /\ LoadsOK' /\ Known' /\ asked <= asked'
  <2>1. UNCHANGED <<walk, stops>> /\ UNCHANGED loads BY <1>8 DEF Release
  <2>2. LoadsOK' /\ Unmade' BY <2>1, SameLoads
  <2>3. /\ UNCHANGED <<objects, content, deps, tables, cache, asked, target>>
        /\ uses' \subseteq 1 .. made /\ pending' = pending /\ cpu' = cpu
      BY <1>8 DEF Release, loads, TypeOK
  <2>4. ObjectsOK' /\ LoadsOK' /\ Known' BY <2>2, <2>3, SteadyKeepsType DEF LoadsOK
  <2> QED BY <1>4, <2>1, <2>3, <2>4
<1>9. ASSUME CollectUnused
      PROVE  UNCHANGED <<walk, stops>> /\ ObjectsOK' /\ LoadsOK' /\ Known' /\ asked <= asked'
  <2>1. /\ UNCHANGED <<walk, stops>> /\ asked' = asked /\ DestroyAll(Dead)
        /\ UNCHANGED <<objects, content, deps, uses, loads>>
        /\ cache' = [u \in Uris |-> Current(u)]
      BY <1>9 DEF CollectUnused, Drain, loads
  <2> QED BY <1>4, <2>1, DeadIsOwned, DestroyKeepsType
<1>10. CASE Stop
  <2>1. /\ UNCHANGED <<objects, content, deps, uses, loads, walk, stopping>> /\ asked' = asked
        /\ DestroyAll(owned) /\ cache' = [u \in Uris |-> Current(u)] /\ closed' \in BOOLEAN
      BY <1>10 DEF Stop, loads
  <2>2. ObjectsOK' /\ LoadsOK' /\ Known' BY <2>1, DestroyKeepsType
  <2>3. cursor' = cursor /\ last' = last /\ stopping' = stopping BY <2>1 DEF walk
  <2> QED BY <1>1, <2>1, <2>2, <2>3
<1>11. CASE RequestStop
  <2>1. ObjectsOK' /\ LoadsOK' /\ Known' BY <1>11, RequestStopType
  <2>2. cursor' = cursor /\ last' = last /\ asked' = asked /\ closed' = closed /\ stopping' = TRUE
      BY <1>11 DEF RequestStop, walk
  <2> QED BY <1>1, <2>1, <2>2
<1>12. CASE BeginAdvance
  <2>1. /\ UNCHANGED <<objects, content, deps, uses, loads, stops>> /\ asked' = asked
        /\ DestroyAll(Dead) /\ cache' = cache /\ cursor' = 1 /\ last' = asked
      BY <1>12 DEF BeginAdvance, Drain, loads
  <2>2. ObjectsOK' /\ LoadsOK' /\ Known' BY <2>1, DeadIsOwned, DestroyKeepsType
  <2>3. cursor' \in 0 .. MaxAsked + 1 /\ last' \in 0 .. asked' BY <1>1, <2>1 DEF ResourceAssumption
  <2>4. stopping' = stopping /\ closed' = closed BY <2>1 DEF stops
  <2> QED BY <1>1, <2>2, <2>3, <2>4
<1>13. CASE Walk
  <2>1. stopping' = stopping /\ closed' = closed BY <1>13 DEF Walk, stops
  <2> QED BY <1>1, <1>13, <2>1, WalkType
<1>14. CASE EndAdvance
  <2>1. ObjectsOK' /\ LoadsOK' /\ Known' BY <1>14, EndAdvanceType
  <2>2. cursor' = 0 /\ last' = 0 /\ asked' = asked /\ stopping' = stopping /\ closed' = closed
      BY <1>14 DEF EndAdvance, stops
  <2>3. cursor' \in 0 .. MaxAsked + 1 /\ last' \in 0 .. asked' BY <1>1, <2>2 DEF ResourceAssumption
  <2> QED BY <1>1, <2>1, <2>2, <2>3
<1>15. CASE UNCHANGED vars
  <2>1. UNCHANGED <<objects, content, deps, tables, cache, uses, loads, walk, stops>>
      BY <1>15 DEF vars
  <2>2. /\ UNCHANGED <<objects, content, deps, tables, cache, asked, target>>
        /\ uses' \subseteq 1 .. made /\ pending' = pending /\ cpu' = cpu
      BY <2>1 DEF loads, TypeOK
  <2>3. LoadsOK' /\ Unmade' BY <2>1, SameLoads
  <2>4. ObjectsOK' /\ LoadsOK' /\ Known' BY <2>2, <2>3, SteadyKeepsType DEF LoadsOK
  <2> QED BY <1>3, <1>4, <2>1, <2>2, <2>4
<1> QED BY <1>3, <1>5, <1>6, <1>7, <1>8, <1>9, <1>10, <1>11, <1>12, <1>13, <1>14, <1>15
        DEF Next, Game, Assets, Advance

LEMMA TypesHold == Spec => [](TypeOK /\ Known)
<1>1. Init => TypeOK /\ Known
  <2> SUFFICES ASSUME Init PROVE TypeOK /\ Known OBVIOUS
  <2>1. TypeOK
    <3>1. /\ MaxMade \in Nat /\ MaxAsked \in Nat /\ MaxHolders \in Nat /\ Slots \in Nat
          /\ MaxGeneration \in Nat /\ 1 <= MaxGeneration
        BY ResourceAssumption DEF ResourceAssumption
    <3>2. generation \in [Kinds -> [1 .. Slots -> 1 .. MaxGeneration]]
        BY <3>1 DEF Init
    <3>3. kind \in [Objects -> Kinds] BY DEF Init, Kinds
    <3>4. occupied \in [Kinds -> SUBSET (1 .. Slots)] /\ spent \in [Kinds -> SUBSET (1 .. Slots)]
        BY DEF Init
    <3>5. LoadsOK BY <3>1 DEF Init, LoadsOK
    <3>6. ObjectsOK BY <3>1, <3>2, <3>3, <3>4 DEF Init, ObjectsOK
    <3>7. cursor \in 0 .. MaxAsked + 1 BY <3>1 DEF Init
    <3>8. last \in 0 .. asked BY DEF Init
    <3>9. stopping \in BOOLEAN /\ closed \in BOOLEAN BY DEF Init
    <3> QED BY <3>5, <3>6, <3>7, <3>8, <3>9, TypeSplit
  <2>2. Known BY DEF Init, Known, Unmade, CacheOK, ListOK, TargetsOK, Loads
  <2> QED BY <2>1, <2>2
<1>2. TypeOK /\ Known /\ [Next]_vars => (TypeOK /\ Known)' BY ResourceAssumption, StepType
<1> QED BY <1>1, <1>2, PTL DEF Spec

(***************************************************************************)
(* Handles                                                                 *)
(***************************************************************************)
\* The generation of a slot only rises, and a slot whose generations are used up
\* is never taken again: so a handle that was given back stays behind its slot.
HandleInv ==
  /\ \A o \in 1 .. made : /\ slot[o] \in 1 .. Slots
                          /\ gen[o] <= generation[kind[o]][slot[o]]
  /\ \A o \in owned : /\ slot[o] \in occupied[kind[o]]
                      /\ gen[o] = generation[kind[o]][slot[o]]
  /\ \A o \in (1 .. made) \ owned : \/ gen[o] < generation[kind[o]][slot[o]]
                                    \/ slot[o] \in spent[kind[o]]
  /\ \A k \in Kinds : occupied[k] \cap spent[k] = {}
  /\ \A k \in Kinds : \A i \in occupied[k] : \E o \in owned : kind[o] = k /\ slot[o] = i
  /\ \A o, p \in owned : o # p => kind[o] # kind[p] \/ slot[o] # slot[p]

LEMMA HandleInvImplies ==
  ASSUME TypeOK, HandleInv, ResourceAssumption PROVE HandlesAreHonest
<1>1. \A o \in 1 .. made : o \in Objects /\ kind[o] \in Kinds /\ slot[o] \in 1 .. Slots
  <2>1. made \in 0 .. MaxMade BY DEF TypeOK
  <2>2. \A o \in 1 .. made : o \in Objects BY <2>1 DEF Objects, ResourceAssumption
  <2> QED BY <2>2 DEF TypeOK, HandleInv
<1>2. \A o \in owned : o \in 1 .. made BY DEF TypeOK
<1>3. ASSUME NEW o \in 1 .. made PROVE IsValid(o) <=> o \in owned
  <2>1. ASSUME o \in owned PROVE IsValid(o) BY <2>1 DEF HandleInv, IsValid
  <2>2. ASSUME IsValid(o), o \notin owned PROVE FALSE
    <3>1. gen[o] < generation[kind[o]][slot[o]] \/ slot[o] \in spent[kind[o]]
        BY <2>2 DEF HandleInv
    <3>2. generation[kind[o]][slot[o]] \in Int
      <4>1. generation \in [Kinds -> [1 .. Slots -> 1 .. MaxGeneration]] BY DEF TypeOK
      <4> QED BY <1>1, <4>1
    <3>3. slot[o] \in spent[kind[o]] BY <2>2, <3>1, <3>2 DEF IsValid
    <3> QED BY <1>1, <2>2, <3>3 DEF HandleInv, IsValid
  <2> QED BY <2>1, <2>2
<1>4. ASSUME NEW k \in Kinds PROVE occupied[k] = {slot[o] : o \in {x \in owned : kind[x] = k}}
  <2>1. \A i \in occupied[k] : \E o \in owned : kind[o] = k /\ slot[o] = i BY DEF HandleInv
  <2>2. \A o \in owned : kind[o] = k => slot[o] \in occupied[k] BY DEF HandleInv
  <2> QED BY <2>1, <2>2
<1>5. \A o, p \in owned : o # p => kind[o] # kind[p] \/ slot[o] # slot[p] BY DEF HandleInv
<1> QED BY <1>3, <1>4, <1>5 DEF HandlesAreHonest

(* What making an object does, object by object and slot by slot. *)
LEMMA MakeFacts ==
  ASSUME TypeOK, ResourceAssumption, NEW k \in Kinds, NEW value, NEW texture,
         Make(k, value, texture)
  PROVE  LET o == made + 1
             i == Min(FreeSlots(k))
         IN  /\ made' = o /\ o \in Objects /\ i \in 1 .. Slots
             /\ i \notin occupied[k] /\ i \notin spent[k]
             /\ kind'[o] = k /\ slot'[o] = i /\ gen'[o] = generation[k][i]
             /\ content'[o] = value /\ deps'[o] = texture
             /\ \A p \in Objects : p # o => /\ kind'[p] = kind[p] /\ slot'[p] = slot[p]
                                            /\ gen'[p] = gen[p] /\ content'[p] = content[p]
                                            /\ deps'[p] = deps[p]
             /\ owned' = owned \cup {o} /\ o \notin owned
             /\ occupied'[k] = occupied[k] \cup {i}
             /\ \A j \in Kinds : j # k => occupied'[j] = occupied[j]
             /\ generation' = generation /\ spent' = spent /\ ~closed
             /\ \A p \in 1 .. made : p \in Objects /\ p # o
<1> DEFINE o == made + 1
           i == Min(FreeSlots(k))
<1>1. i \in FreeSlots(k) /\ i \in 1 .. Slots BY TakenIsFree DEF Make
<1>2. o \in Objects /\ made' = o /\ owned' = owned \cup {o} BY DEF Make
<1>3. made \in Nat /\ owned \subseteq 1 .. made BY DEF TypeOK
<1>4. o \notin owned BY <1>3
<1>5. \A p \in 1 .. made : p \in Objects /\ p # o BY <1>2, <1>3 DEF Objects
<1>6. /\ kind' = [kind EXCEPT ![o] = k] /\ slot' = [slot EXCEPT ![o] = i]
      /\ gen' = [gen EXCEPT ![o] = generation[k][i]]
      /\ content' = [content EXCEPT ![o] = value] /\ deps' = [deps EXCEPT ![o] = texture]
      /\ occupied' = [occupied EXCEPT ![k] = occupied[k] \cup {i}]
      /\ generation' = generation /\ spent' = spent /\ ~closed
    BY DEF Make
<1>7. /\ DOMAIN kind = Objects /\ DOMAIN slot = Objects /\ DOMAIN gen = Objects
      /\ DOMAIN content = Objects /\ DOMAIN deps = Objects /\ DOMAIN occupied = Kinds
    BY DEF TypeOK
<1>7a. /\ kind \in [Objects -> Kinds] /\ slot \in [Objects -> 0 .. Slots]
       /\ gen \in [Objects -> 0 .. MaxGeneration]
       /\ content \in [Objects -> 0 .. MaxAsked + 1] /\ deps \in [Objects -> 0 .. MaxMade]
       /\ occupied \in [Kinds -> SUBSET (1 .. Slots)]
    BY DEF TypeOK
<1>8. i \notin occupied[k] /\ i \notin spent[k] BY <1>1 DEF FreeSlots
<1> HIDE DEF o, i
<1>9. /\ kind'[o] = k /\ slot'[o] = i /\ gen'[o] = generation[k][i]
      /\ content'[o] = value /\ deps'[o] = texture
    BY <1>2, <1>6, <1>7, <1>7a
<1>10. \A p \in Objects : p # o => /\ kind'[p] = kind[p] /\ slot'[p] = slot[p]
                                   /\ gen'[p] = gen[p] /\ content'[p] = content[p]
                                   /\ deps'[p] = deps[p]
    BY <1>6, <1>7, <1>7a
<1>11. /\ occupied'[k] = occupied[k] \cup {i}
       /\ \A j \in Kinds : j # k => occupied'[j] = occupied[j]
    BY <1>6, <1>7, <1>7a
<1>12. i \in 1 .. Slots BY <1>1
<1> QED BY <1>2, <1>4, <1>5, <1>6, <1>8, <1>9, <1>10, <1>11, <1>12 DEF o, i

LEMMA MakeKeepsHandles ==
  ASSUME TypeOK, HandleInv, ResourceAssumption, NEW k \in Kinds, NEW value, NEW texture,
         Make(k, value, texture)
  PROVE  HandleInv'
<1> DEFINE o == made + 1
           i == Min(FreeSlots(k))
<1>1. /\ made' = o /\ o \in Objects /\ i \in 1 .. Slots
      /\ i \notin occupied[k] /\ i \notin spent[k]
      /\ kind'[o] = k /\ slot'[o] = i /\ gen'[o] = generation[k][i]
      /\ \A p \in Objects : p # o => /\ kind'[p] = kind[p] /\ slot'[p] = slot[p]
                                     /\ gen'[p] = gen[p]
      /\ owned' = owned \cup {o} /\ o \notin owned
      /\ occupied'[k] = occupied[k] \cup {i}
      /\ \A j \in Kinds : j # k => occupied'[j] = occupied[j]
      /\ generation' = generation /\ spent' = spent
      /\ \A p \in 1 .. made : p \in Objects /\ p # o
    BY MakeFacts
<1>2. made \in Nat /\ owned \subseteq 1 .. made /\ generation[k][i] \in Int
  <2>1. generation \in [Kinds -> [1 .. Slots -> 1 .. MaxGeneration]] BY DEF TypeOK
  <2>2. made \in Nat /\ owned \subseteq 1 .. made BY DEF TypeOK
  <2>3. i \in 1 .. Slots BY <1>1
  <2> HIDE DEF i
  <2> QED BY <2>1, <2>2, <2>3
<1>3. \A p \in 1 .. made' : p = o \/ p \in 1 .. made BY <1>1, <1>2
<1>3a. \A p \in 1 .. made : kind'[p] = kind[p] /\ slot'[p] = slot[p] /\ gen'[p] = gen[p]
    BY <1>1
<1>3b. \A p \in 1 .. made : kind[p] \in Kinds
  <2>1. kind \in [Objects -> Kinds] BY DEF TypeOK
  <2> QED BY <1>1, <2>1
<1> HIDE DEF o, i
<1>4. \A p \in 1 .. made' : /\ slot'[p] \in 1 .. Slots
                            /\ gen'[p] <= generation'[kind'[p]][slot'[p]]
  <2>1. gen'[o] <= generation'[kind'[o]][slot'[o]] BY <1>1, <1>2
  <2> QED BY <1>1, <1>3, <1>3a, <2>1 DEF HandleInv
<1>5. \A p \in owned' : /\ slot'[p] \in occupied'[kind'[p]]
                        /\ gen'[p] = generation'[kind'[p]][slot'[p]]
  <2>1. ASSUME NEW p \in owned PROVE slot'[p] \in occupied'[kind'[p]]
    <3>1. slot[p] \in occupied[kind[p]] /\ kind[p] \in Kinds BY <1>2, <1>3b DEF HandleInv
    <3> QED BY <1>1, <1>2, <1>3a, <3>1
  <2>2. ASSUME NEW p \in owned PROVE gen'[p] = generation'[kind'[p]][slot'[p]]
      BY <1>1, <1>2, <1>3a DEF HandleInv
  <2> QED BY <1>1, <2>1, <2>2
<1>6. \A p \in (1 .. made') \ owned' : \/ gen'[p] < generation'[kind'[p]][slot'[p]]
                                       \/ slot'[p] \in spent'[kind'[p]]
    BY <1>1, <1>3, <1>3a DEF HandleInv
<1>7. \A j \in Kinds : occupied'[j] \cap spent'[j] = {}
  <2> SUFFICES ASSUME NEW j \in Kinds PROVE occupied'[j] \cap spent'[j] = {} OBVIOUS
  <2>1. occupied[j] \cap spent[j] = {} BY DEF HandleInv
  <2>2. j = k \/ occupied'[j] = occupied[j] BY <1>1
  <2> QED BY <1>1, <2>1, <2>2
<1>8. \A j \in Kinds : \A x \in occupied'[j] : \E p \in owned' : kind'[p] = j /\ slot'[p] = x
  <2> SUFFICES ASSUME NEW j \in Kinds, NEW x \in occupied'[j]
               PROVE  \E p \in owned' : kind'[p] = j /\ slot'[p] = x
      OBVIOUS
  <2>1. CASE j = k /\ x = i BY <1>1, <2>1
  <2>2. CASE ~(j = k /\ x = i)
    <3>1. x \in occupied[j] BY <1>1, <2>2
    <3>2. PICK p \in owned : kind[p] = j /\ slot[p] = x BY <3>1 DEF HandleInv
    <3> QED BY <1>1, <1>2, <1>3a, <3>2
  <2> QED BY <2>1, <2>2
<1>9. \A p, q \in owned' : p # q => kind'[p] # kind'[q] \/ slot'[p] # slot'[q]
  <2>1. ASSUME NEW p \in owned PROVE kind'[p] # k \/ slot'[p] # i
    <3>1. slot[p] \in occupied[kind[p]] BY DEF HandleInv
    <3> QED BY <1>1, <1>2, <1>3a, <3>1
  <2>2. \A p, q \in owned : p # q => kind'[p] # kind'[q] \/ slot'[p] # slot'[q]
      BY <1>2, <1>3a DEF HandleInv
  <2> QED BY <1>1, <2>1, <2>2
<1> QED BY <1>4, <1>5, <1>6, <1>7, <1>8, <1>9 DEF HandleInv

LEMMA DestroyKeepsHandles ==
  ASSUME TypeOK, HandleInv, ResourceAssumption, NEW gone \in SUBSET owned, DestroyAll(gone),
         UNCHANGED objects
  PROVE  HandleInv'
<1> DEFINE S(k) == SlotsOf(k, gone)
<1>1. made' = made /\ kind' = kind /\ slot' = slot /\ gen' = gen BY DEF objects
<1>2. made \in Nat /\ owned \subseteq 1 .. made /\ owned' = owned \ gone
    BY DEF TypeOK, DestroyAll
<1>3. \A o \in 1 .. made : o \in Objects /\ kind[o] \in Kinds /\ slot[o] \in 1 .. Slots
  <2>1. made \in 0 .. MaxMade BY DEF TypeOK
  <2>2. \A o \in 1 .. made : o \in Objects BY <2>1 DEF Objects
  <2> QED BY <2>2 DEF TypeOK, HandleInv
<1>4. \A k \in Kinds : S(k) \subseteq occupied[k] /\ occupied[k] \subseteq 1 .. Slots
                       /\ occupied'[k] = occupied[k] \ S(k)
    BY DEF SlotsOf, IsValid, TypeOK, DestroyAll, Destroy
<1>5. \A o \in gone : slot[o] \in S(kind[o])
    BY DEF SlotsOf, IsValid, HandleInv
<1>6. ASSUME NEW o \in owned \ gone PROVE slot[o] \notin S(kind[o])
  <2> SUFFICES ASSUME NEW p \in gone, kind[p] = kind[o], slot[p] = slot[o] PROVE FALSE
      BY DEF SlotsOf
  <2> QED BY DEF HandleInv
<1>7. ASSUME NEW k \in Kinds, NEW i \in 1 .. Slots
      PROVE  /\ generation[k][i] \in 1 .. MaxGeneration
             /\ i \in S(k) => \/ generation'[k][i] = generation[k][i] + 1
                              \/ i \in spent'[k] /\ generation'[k][i] = generation[k][i]
             /\ i \notin S(k) => /\ generation'[k][i] = generation[k][i]
                                 /\ (i \in spent'[k] <=> i \in spent[k])
             /\ i \in spent[k] => i \in spent'[k]
  <2>1. generation[k][i] \in 1 .. MaxGeneration BY DEF TypeOK
  <2>2. generation'[k][i] = IF i \in S(k) /\ generation[k][i] # MaxGeneration
                            THEN generation[k][i] + 1 ELSE generation[k][i]
      BY DEF DestroyAll, Destroy
  <2>3. spent'[k] = spent[k] \cup {j \in S(k) : generation[k][j] = MaxGeneration}
      BY DEF DestroyAll, Destroy
  <2> HIDE DEF S
  <2> QED BY <2>1, <2>2, <2>3
<1> HIDE DEF S
<1>8. \A o \in 1 .. made' : /\ slot'[o] \in 1 .. Slots
                            /\ gen'[o] <= generation'[kind'[o]][slot'[o]]
  <2> SUFFICES ASSUME NEW o \in 1 .. made
               PROVE  slot[o] \in 1 .. Slots /\ gen[o] <= generation'[kind[o]][slot[o]]
      BY <1>1
  <2>1. gen[o] <= generation[kind[o]][slot[o]] /\ slot[o] \in 1 .. Slots BY DEF HandleInv
  <2>2. gen[o] \in Int BY <1>3 DEF TypeOK
  <2>3. \/ generation'[kind[o]][slot[o]] = generation[kind[o]][slot[o]] + 1
        \/ generation'[kind[o]][slot[o]] = generation[kind[o]][slot[o]]
      BY <1>3, <1>7
  <2>4. generation[kind[o]][slot[o]] \in Int BY <1>3, <1>7
  <2> QED BY <2>1, <2>2, <2>3, <2>4
<1>9. \A o \in owned' : /\ slot'[o] \in occupied'[kind'[o]]
                        /\ gen'[o] = generation'[kind'[o]][slot'[o]]
  <2> SUFFICES ASSUME NEW o \in owned \ gone
               PROVE  /\ slot[o] \in occupied'[kind[o]]
                      /\ gen[o] = generation'[kind[o]][slot[o]]
      BY <1>1, <1>2
  <2>1. slot[o] \in occupied[kind[o]] /\ gen[o] = generation[kind[o]][slot[o]] BY DEF HandleInv
  <2>2. kind[o] \in Kinds /\ slot[o] \in 1 .. Slots BY <1>2, <1>3
  <2> QED BY <1>4, <1>6, <1>7, <2>1, <2>2
<1>10a. ASSUME NEW o \in 1 .. made, o \notin owned'
        PROVE  gen[o] < generation'[kind[o]][slot[o]] \/ slot[o] \in spent'[kind[o]]
  <2>1. kind[o] \in Kinds /\ slot[o] \in 1 .. Slots /\ gen[o] \in Int BY <1>3 DEF TypeOK
  <2>2. generation[kind[o]][slot[o]] \in Int BY <1>7, <2>1
  <2>3. CASE o \in gone
    <3>1. gen[o] = generation[kind[o]][slot[o]] BY <2>3 DEF HandleInv
    <3>2. slot[o] \in S(kind[o]) BY <1>5, <2>3
    <3>3. \/ generation'[kind[o]][slot[o]] = generation[kind[o]][slot[o]] + 1
          \/ slot[o] \in spent'[kind[o]]
        BY <1>7, <2>1, <3>2
    <3> QED BY <2>1, <2>2, <3>1, <3>3
  <2>4. CASE o \notin owned
    <3>1. gen[o] < generation[kind[o]][slot[o]] \/ slot[o] \in spent[kind[o]]
        BY <2>4 DEF HandleInv
    <3>2. \/ generation'[kind[o]][slot[o]] = generation[kind[o]][slot[o]] + 1
          \/ generation'[kind[o]][slot[o]] = generation[kind[o]][slot[o]]
        BY <1>7, <2>1
    <3>3. slot[o] \in spent[kind[o]] => slot[o] \in spent'[kind[o]] BY <1>7, <2>1
    <3> QED BY <2>1, <2>2, <3>1, <3>2, <3>3
  <2> QED BY <1>2, <1>10a, <2>3, <2>4
<1>10. \A o \in (1 .. made') \ owned' : \/ gen'[o] < generation'[kind'[o]][slot'[o]]
                                        \/ slot'[o] \in spent'[kind'[o]]
    BY <1>1, <1>10a
<1>11. \A k \in Kinds : occupied'[k] \cap spent'[k] = {}
  <2> SUFFICES ASSUME NEW k \in Kinds, NEW i \in occupied'[k], i \in spent'[k] PROVE FALSE
      OBVIOUS
  <2>1. i \in occupied[k] /\ i \notin S(k) /\ i \in 1 .. Slots BY <1>4
  <2>2. i \in spent[k] BY <1>7, <2>1
  <2> QED BY <2>1, <2>2 DEF HandleInv
<1>12. \A k \in Kinds : \A i \in occupied'[k] : \E o \in owned' : kind'[o] = k /\ slot'[o] = i
  <2> SUFFICES ASSUME NEW k \in Kinds, NEW i \in occupied'[k]
               PROVE  \E o \in owned' : kind'[o] = k /\ slot'[o] = i
      OBVIOUS
  <2>1. i \in occupied[k] /\ i \notin S(k) BY <1>4
  <2>2. PICK o \in owned : kind[o] = k /\ slot[o] = i BY <2>1 DEF HandleInv
  <2>3. o \notin gone BY <1>5, <2>1, <2>2
  <2> QED BY <1>1, <1>2, <2>2, <2>3
<1>13. \A o, p \in owned' : o # p => kind'[o] # kind'[p] \/ slot'[o] # slot'[p]
  <2>1. \A o, p \in owned : o # p => kind[o] # kind[p] \/ slot[o] # slot[p] BY DEF HandleInv
  <2> QED BY <1>1, <1>2, <2>1
<1> QED BY <1>8, <1>9, <1>10, <1>11, <1>12, <1>13 DEF HandleInv

LEMMA CreateFailsKeepsHandles ==
  ASSUME TypeOK, HandleInv, ResourceAssumption, NEW k \in Kinds, CreateFails(k)
  PROVE  HandleInv'
<1> DEFINE i == Min(FreeSlots(k))
<1>1. made' = made /\ kind' = kind /\ slot' = slot /\ gen' = gen
      /\ owned' = owned /\ occupied' = occupied
    BY DEF objects, CreateFails
<1>2. i \in 1 .. Slots /\ i \notin occupied[k]
  <2>1. FreeSlots(k) # {} BY DEF CreateFails
  <2> QED BY <2>1, TakenIsFree DEF FreeSlots
<1>3. made \in Nat /\ owned \subseteq 1 .. made BY DEF TypeOK
<1>4. \A o \in 1 .. made : o \in Objects /\ kind[o] \in Kinds /\ slot[o] \in 1 .. Slots
                           /\ gen[o] \in Int
  <2>1. made \in 0 .. MaxMade BY DEF TypeOK
  <2>2. \A o \in 1 .. made : o \in Objects BY <2>1 DEF Objects
  <2> QED BY <2>2 DEF TypeOK, HandleInv
<1>5. ASSUME NEW j \in Kinds, NEW x \in 1 .. Slots
      PROVE  /\ generation[j][x] \in Int /\ generation'[j][x] \in Int
             /\ generation[j][x] <= generation'[j][x]
             /\ x \in spent[j] => x \in spent'[j]
             /\ (j # k \/ x # i) => /\ generation'[j][x] = generation[j][x]
                                    /\ (x \in spent'[j] <=> x \in spent[j])
  <2>1. generation \in [Kinds -> [1 .. Slots -> 1 .. MaxGeneration]]
        /\ spent \in [Kinds -> SUBSET (1 .. Slots)]
      BY DEF TypeOK
  <2>2. CASE generation[k][i] = MaxGeneration
    <3>1. spent' = [spent EXCEPT ![k] = @ \cup {i}] /\ generation' = generation
        BY <2>2 DEF CreateFails
    <3> HIDE DEF i
    <3> QED BY <2>1, <3>1
  <2>3. CASE generation[k][i] # MaxGeneration
    <3>1. generation' = [generation EXCEPT ![k][i] = @ + 1] /\ spent' = spent
        BY <2>3 DEF CreateFails
    <3>2. generation' = [generation EXCEPT ![k] = [generation[k] EXCEPT ![i] = generation[k][i] + 1]]
        BY <3>1
    <3>3. generation[j] \in [1 .. Slots -> 1 .. MaxGeneration] BY <2>1
    <3> HIDE DEF i
    <3>4. generation'[j] = IF j = k THEN [generation[k] EXCEPT ![i] = generation[k][i] + 1]
                           ELSE generation[j]
        BY <2>1, <3>2
    <3>5. generation[j][x] \in Int BY <3>3
    <3>6. CASE j = k /\ x = i
      <4>1. generation'[j][x] = generation[j][x] + 1 BY <3>3, <3>4, <3>6
      <4> QED BY <3>1, <3>5, <3>6, <4>1
    <3>7. CASE ~(j = k /\ x = i)
      <4>1. generation'[j][x] = generation[j][x] BY <3>3, <3>4, <3>7
      <4> QED BY <3>1, <3>5, <3>7, <4>1
    <3> QED BY <3>6, <3>7
  <2> QED BY <2>2, <2>3
<1> HIDE DEF i
<1>6. \A o \in 1 .. made' : /\ slot'[o] \in 1 .. Slots
                            /\ gen'[o] <= generation'[kind'[o]][slot'[o]]
  <2> SUFFICES ASSUME NEW o \in 1 .. made
               PROVE  slot[o] \in 1 .. Slots /\ gen[o] <= generation'[kind[o]][slot[o]]
      BY <1>1
  <2>1. gen[o] <= generation[kind[o]][slot[o]] BY DEF HandleInv
  <2>2. /\ generation[kind[o]][slot[o]] \in Int /\ generation'[kind[o]][slot[o]] \in Int
        /\ generation[kind[o]][slot[o]] <= generation'[kind[o]][slot[o]]
      BY <1>4, <1>5
  <2> QED BY <1>4, <2>1, <2>2
<1>7. \A o \in owned' : /\ slot'[o] \in occupied'[kind'[o]]
                        /\ gen'[o] = generation'[kind'[o]][slot'[o]]
  <2> SUFFICES ASSUME NEW o \in owned
               PROVE  /\ slot[o] \in occupied[kind[o]]
                      /\ gen[o] = generation'[kind[o]][slot[o]]
      BY <1>1
  <2>1. slot[o] \in occupied[kind[o]] /\ gen[o] = generation[kind[o]][slot[o]] BY DEF HandleInv
  <2>2. kind[o] # k \/ slot[o] # i BY <1>2, <2>1
  <2>3. kind[o] \in Kinds /\ slot[o] \in 1 .. Slots BY <1>3, <1>4
  <2> QED BY <1>5, <2>1, <2>2, <2>3
<1>8. \A o \in (1 .. made') \ owned' : \/ gen'[o] < generation'[kind'[o]][slot'[o]]
                                       \/ slot'[o] \in spent'[kind'[o]]
  <2> SUFFICES ASSUME NEW o \in (1 .. made) \ owned
               PROVE  gen[o] < generation'[kind[o]][slot[o]] \/ slot[o] \in spent'[kind[o]]
      BY <1>1
  <2>1. gen[o] < generation[kind[o]][slot[o]] \/ slot[o] \in spent[kind[o]] BY DEF HandleInv
  <2>2. /\ generation[kind[o]][slot[o]] \in Int /\ generation'[kind[o]][slot[o]] \in Int
        /\ generation[kind[o]][slot[o]] <= generation'[kind[o]][slot[o]]
        /\ slot[o] \in spent[kind[o]] => slot[o] \in spent'[kind[o]]
      BY <1>4, <1>5
  <2> QED BY <1>4, <2>1, <2>2
<1>9. \A j \in Kinds : occupied'[j] \cap spent'[j] = {}
  <2> SUFFICES ASSUME NEW j \in Kinds, NEW x \in occupied[j], x \in spent'[j] PROVE FALSE
      BY <1>1
  <2>1. x \in 1 .. Slots BY DEF TypeOK
  <2>2. j # k \/ x # i BY <1>2
  <2>3. x \in spent[j] BY <1>5, <2>1, <2>2
  <2> QED BY <2>3 DEF HandleInv
<1>10. \A j \in Kinds : \A x \in occupied'[j] : \E o \in owned' : kind'[o] = j /\ slot'[o] = x
    BY <1>1 DEF HandleInv
<1>11. \A o, p \in owned' : o # p => kind'[o] # kind'[p] \/ slot'[o] # slot'[p]
    BY <1>1 DEF HandleInv
<1> QED BY <1>6, <1>7, <1>8, <1>9, <1>10, <1>11 DEF HandleInv

(***************************************************************************)
(* What a step does to loads, contents and references                      *)
(***************************************************************************)
\* A load that is there keeps its object, is not observed again once nobody
\* observes it and never waits again; a new one is the only one of its object.
LoadsMove ==
  /\ asked' \in {asked, asked + 1}
  /\ \A w \in Loads :
       /\ w <= asked => /\ target'[w] = target[w]
                        /\ Observed(w)' => Observed(w)
                        /\ status'[w] = "waiting" => status[w] = "waiting"
                        /\ w \in pending' => w \in pending
       /\ w > asked /\ status'[w] # "none" =>
            /\ w = asked'
            /\ \E o \in Objects : /\ target'[w] = o /\ InFlight(o) = {}
                                  /\ status'[w] = "ok" => IsReady(o)

\* A load ends well only with its content in its object.
OkMove ==
  \A w \in Loads : w <= asked /\ status'[w] = "ok" =>
    \/ status[w] = "ok"
    \/ IsValid(target[w]) /\ content'[target[w]] = w /\ owned' = owned

\* Contents come with an object, or by the load of the object.
ContentMove ==
  \A o \in Objects :
    \/ content'[o] = content[o]
    \/ o = made' /\ made' = made + 1 /\ content'[o] \in {0, Own}
    \/ \E w \in Loads : Takes(w) /\ target[w] = o /\ content'[o] = w /\ status'[w] = "ok"

\* A reference to a texture comes from the game or from a load that has it.
DepsMove ==
  \A m \in owned' :
    \/ m \in owned /\ deps'[m] = deps[m]
    \/ deps'[m] = 0
    \/ deps'[m] \in uses
    \/ \E w \in Loads : status[w] = "ok" /\ Observed(w) /\ target[w] = deps'[m]

UsesMove ==
  \A o \in uses' :
    \/ o \in uses
    \/ o \in owned' /\ content'[o] # 0
    \/ \E w \in Loads : status[w] = "ok" /\ Observed(w) /\ target[w] = o

OwnedMove ==
  /\ closed => closed'
  /\ \/ owned \subseteq owned'
     \/ closed'
     \/ owned' = owned \ Dead /\ UNCHANGED <<content, deps, uses, loads>>

MadeMove == made' = made \/ made' = made + 1

Moves == LoadsMove /\ OkMove /\ ContentMove /\ DepsMove /\ UsesMove /\ OwnedMove /\ MadeMove

LEMMA QuietLoads ==
  ASSUME TypeOK, Known, ResourceAssumption, asked' = asked, target' = target,
         pending' \subseteq pending, \A m \in pending' : dep'[m] = dep[m],
         \A w \in Loads : /\ held'[w] > 0 => held[w] > 0
                          /\ status'[w] = "waiting" => status[w] = "waiting"
                          /\ status[w] = "none" => status'[w] = "none"
  PROVE  LoadsMove
<1> SUFFICES ASSUME NEW w \in Loads
             PROVE  /\ Observed(w)' => Observed(w)
                    /\ w > asked => status'[w] = "none"
    BY DEF LoadsMove
<1>1. Observed(w)' => Observed(w) BY DEF Observed
<1>2. w > asked => status'[w] = "none" BY DEF Known, Unmade
<1> QED BY <1>1, <1>2

LEMMA StillLoads ==
  ASSUME TypeOK, Known, ResourceAssumption, UNCHANGED loads
  PROVE  LoadsMove /\ OkMove
<1>1. /\ asked' = asked /\ target' = target /\ pending' = pending /\ dep' = dep
      /\ held' = held /\ status' = status
    BY DEF loads
<1>2. LoadsMove BY <1>1, QuietLoads
<1> QED BY <1>1, <1>2 DEF OkMove

LEMMA LoadMoves ==
  ASSUME TypeOK, Known, ResourceAssumption, NEW u \in Uris, NEW reload,
         NEW who \in {0} \cup pending, Load(u, reload, who)
  PROVE  LoadsMove /\ OkMove
<1>1. PICK o \in Objects :
        /\ Reserve(u, o)
        /\ IF InFlight(o) # {}
           THEN /\ \E w \in InFlight(o) :
                     /\ who = 0 => held[w] < MaxHolders
                     /\ Observe(w, who)
                /\ UNCHANGED <<asked, target, status, cpu, pending>>
           ELSE IF ~reload /\ IsReady(o)
           THEN Begin(o, who, "ok", FALSE)
           ELSE Begin(o, who, "waiting", TRUE)
    BY DEF Load
<1>2. asked \in Nat /\ pending \subseteq Loads /\ pending \subseteq 1 .. asked
      /\ \A w \in Loads : w \in Nat /\ w # 0
  <2>1. asked \in 0 .. MaxAsked /\ pending \subseteq 1 .. asked BY DEF TypeOK
  <2> QED BY <2>1 DEF Loads, ResourceAssumption
<1>3. held \in [Loads -> 0 .. MaxHolders] /\ dep \in [Loads -> 0 .. MaxAsked]
      /\ target \in [Loads -> 0 .. MaxMade]
      /\ status \in [Loads -> {"none", "waiting", "ok", "failed", "stopped"}]
    BY DEF TypeOK
<1>4. who # 0 => who \in pending /\ who \in Loads BY <1>2
<1>5. CASE InFlight(o) # {}
  <2>1. PICK w \in InFlight(o) : Observe(w, who) BY <1>1, <1>5
  <2>2. UNCHANGED <<asked, target, status, cpu, pending>> BY <1>1, <1>5
  <2>3. w \in Loads /\ Observed(w) BY <1>2 DEF InFlight
  <2>4. ASSUME NEW x \in Loads, Observed(x)' PROVE Observed(x)
    <3>1. CASE x = w BY <2>3, <3>1
    <3>2. CASE x # w /\ who = 0
      <4>1. held'[x] = held[x] /\ dep' = dep BY <1>3, <2>1, <3>2 DEF Observe
      <4> QED BY <2>2, <2>4, <4>1 DEF Observed
    <3>3. CASE x # w /\ who # 0
      <4>1. held' = held /\ dep'[who] = w /\ \A m \in Loads : m # who => dep'[m] = dep[m]
          BY <1>3, <1>4, <2>1, <3>3 DEF Observe
      <4>2. held[x] > 0 \/ \E m \in pending : dep'[m] = x BY <2>2, <2>4, <4>1 DEF Observed
      <4>3. ASSUME NEW m \in pending, dep'[m] = x PROVE dep[m] = x
          BY <1>2, <3>3, <4>1, <4>3
      <4> QED BY <4>2, <4>3 DEF Observed
    <3> QED BY <3>1, <3>2, <3>3
  <2>5. \A x \in Loads : x > asked => status'[x] = "none" BY <2>2 DEF Known, Unmade
  <2> QED BY <2>2, <2>4, <2>5 DEF LoadsMove, OkMove
<1>6. ASSUME NEW says \in {"ok", "waiting"}, NEW list, Begin(o, who, says, list),
             InFlight(o) = {}, says = "ok" => IsReady(o)
      PROVE  LoadsMove /\ OkMove
  <2> DEFINE v == asked + 1
  <2>1. /\ v \in Loads /\ asked' = v /\ Observe(v, who) /\ v \notin pending
        /\ target' = [target EXCEPT ![v] = o] /\ status' = [status EXCEPT ![v] = says]
        /\ pending' \subseteq pending \cup {v}
      BY <1>2, <1>6 DEF Begin
  <2>2. dep[v] = 0 BY <1>2, <2>1 DEF Known, Unmade
  <2>3. target'[v] = o /\ status'[v] = says
        /\ \A x \in Loads : x # v => target'[x] = target[x] /\ status'[x] = status[x]
      BY <1>3, <2>1
  <2>4. \A x \in Loads : (x <= asked => x # v) /\ (x > asked /\ x # v => x > asked')
      BY <1>2, <2>1
  <2> HIDE DEF v
  <2>5. ASSUME NEW x \in Loads, x # v, Observed(x)' PROVE Observed(x)
    <3>1. CASE who = 0
      <4>1. held'[x] = held[x] /\ dep' = dep BY <1>3, <2>1, <2>5, <3>1 DEF Observe
      <4>2. held[x] > 0 \/ \E m \in pending \cup {v} : dep[m] = x
          BY <2>1, <2>5, <4>1 DEF Observed
      <4> QED BY <1>2, <2>2, <4>2 DEF Observed
    <3>2. CASE who # 0
      <4>1. held' = held /\ dep'[who] = v /\ \A m \in Loads : m # who => dep'[m] = dep[m]
          BY <1>3, <1>4, <2>1, <3>2 DEF Observe
      <4>2. held[x] > 0 \/ \E m \in pending \cup {v} : dep'[m] = x
          BY <2>1, <2>5, <4>1 DEF Observed
      <4>3. ASSUME NEW m \in pending \cup {v}, dep'[m] = x PROVE m \in pending /\ dep[m] = x
          BY <1>2, <1>4, <2>1, <2>2, <2>5, <3>2, <4>1, <4>3
      <4> QED BY <4>2, <4>3 DEF Observed
    <3> QED BY <3>1, <3>2
  <2>6. ASSUME NEW x \in Loads, x > asked, status'[x] # "none"
        PROVE  /\ x = asked'
               /\ \E p \in Objects : /\ target'[x] = p /\ InFlight(p) = {}
                                     /\ status'[x] = "ok" => IsReady(p)
    <3>1. x = v BY <2>3, <2>6 DEF Known, Unmade
    <3>2. target'[x] = o /\ InFlight(o) = {} /\ (status'[x] = "ok" => IsReady(o))
        BY <1>6, <2>3, <3>1
    <3> QED BY <2>1, <3>1, <3>2
  <2>7. ASSUME NEW x \in Loads, x <= asked
        PROVE  /\ target'[x] = target[x] /\ (Observed(x)' => Observed(x))
               /\ status'[x] = status[x]
               /\ x \in pending' => x \in pending
      BY <2>1, <2>3, <2>4, <2>5, <2>7
  <2>8. LoadsMove BY <2>1, <2>6, <2>7 DEF LoadsMove, v
  <2>9. OkMove BY <2>7 DEF OkMove
  <2> QED BY <2>8, <2>9
<1>7. CASE InFlight(o) = {}
  <2>1. CASE ~reload /\ IsReady(o) BY <1>1, <1>6, <1>7, <2>1
  <2>2. CASE ~(~reload /\ IsReady(o)) BY <1>1, <1>6, <1>7, <2>2
  <2> QED BY <2>1, <2>2
<1> QED BY <1>5, <1>7

LEMMA StillObjects ==
  ASSUME TypeOK, UNCHANGED <<objects, content, deps, tables, closed>>
  PROVE  ContentMove /\ DepsMove /\ OwnedMove /\ MadeMove
<1>1. made' = made /\ content' = content /\ deps' = deps /\ owned' = owned /\ closed' = closed
    BY DEF objects, tables
<1> QED BY <1>1 DEF ContentMove, DepsMove, OwnedMove, MadeMove

LEMMA MakeMoves ==
  ASSUME TypeOK, ResourceAssumption, NEW k \in Kinds, NEW value \in {0, Own},
         NEW texture \in uses \cup {0}, Make(k, value, texture), UNCHANGED closed
  PROVE  ContentMove /\ DepsMove /\ OwnedMove /\ MadeMove
<1> DEFINE o == made + 1
<1>1. /\ made' = o /\ o \in Objects /\ content'[o] = value /\ deps'[o] = texture
      /\ \A p \in Objects : p # o => content'[p] = content[p] /\ deps'[p] = deps[p]
      /\ owned' = owned \cup {o} /\ o \notin owned
      /\ \A p \in 1 .. made : p \in Objects /\ p # o
    BY MakeFacts
<1>2. owned \subseteq 1 .. made BY DEF TypeOK
<1>3. ContentMove BY <1>1 DEF ContentMove
<1>4. DepsMove BY <1>1, <1>2 DEF DepsMove
<1>5. OwnedMove BY <1>1 DEF OwnedMove
<1> QED BY <1>1, <1>3, <1>4, <1>5 DEF MadeMove

LEMMA ReserveMoves ==
  ASSUME TypeOK, ResourceAssumption, NEW u, NEW o, Reserve(u, o), UNCHANGED closed
  PROVE  ContentMove /\ DepsMove /\ OwnedMove /\ MadeMove
<1>1. CASE UNCHANGED <<objects, content, deps, tables, cache>> BY <1>1, StillObjects
<1>2. CASE Make(KindOf(u), 0, 0)
  <2>1. KindOf(u) \in Kinds BY DEF KindOf, Kinds
  <2> QED BY <1>2, <2>1, MakeMoves
<1> QED BY <1>1, <1>2 DEF Reserve

LEMMA AdoptMoves ==
  ASSUME TypeOK, Known, ResourceAssumption, NEW w, Takes(w), NEW t, Adopt(w, t),
         t = 0 \/ \E v \in Loads : status[v] = "ok" /\ Observed(v) /\ target[v] = t,
         UNCHANGED <<objects, tables, cache, asked, target, held, dep, pending, uses, cpu, closed>>
  PROVE  LoadsMove /\ OkMove /\ ContentMove /\ DepsMove /\ OwnedMove /\ MadeMove
<1>1. w \in Loads /\ w <= asked /\ status[w] = "waiting" /\ target[w] \in Objects
  <2>1. w \in Loads /\ w <= asked /\ status[w] = "waiting" /\ target[w] \in 1 .. made
      BY Listed DEF Takes
  <2>2. made \in 0 .. MaxMade BY DEF TypeOK
  <2> QED BY <2>1, <2>2 DEF Objects, ResourceAssumption
<1>2. status \in [Loads -> {"none", "waiting", "ok", "failed", "stopped"}]
      /\ content \in [Objects -> 0 .. MaxAsked + 1] /\ deps \in [Objects -> 0 .. MaxMade]
      /\ owned \subseteq Objects
  <2>1. made \in 0 .. MaxMade /\ owned \subseteq 1 .. made BY DEF TypeOK
  <2>2. owned \subseteq Objects BY <2>1 DEF Objects, ResourceAssumption
  <2> QED BY <2>2 DEF TypeOK
<1>3. made' = made /\ owned' = owned /\ held' = held /\ dep' = dep /\ pending' = pending
      /\ asked' = asked /\ target' = target
    BY DEF objects, tables
<1>4. PICK says \in {"ok", "failed"} :
        /\ status' = [status EXCEPT ![w] = says]
        /\ \/ says = "failed" /\ UNCHANGED <<content, deps>>
           \/ /\ IsValid(target[w]) /\ says = "ok"
              /\ content' = [content EXCEPT ![target[w]] = w]
              /\ deps' = [deps EXCEPT ![target[w]] = t]
    BY DEF Adopt, Ends
<1>5. status'[w] = says /\ \A x \in Loads : x # w => status'[x] = status[x]
    BY <1>1, <1>2, <1>4
<1>6. LoadsMove
  <2>1. \A x \in Loads : /\ held'[x] > 0 => held[x] > 0
                         /\ status'[x] = "waiting" => status[x] = "waiting"
                         /\ status[x] = "none" => status'[x] = "none"
      BY <1>1, <1>3, <1>5
  <2> QED BY <1>3, <2>1, QuietLoads
<1>7. CASE says = "failed"
  <2>1. content' = content /\ deps' = deps BY <1>4, <1>7
  <2>2. OkMove BY <1>1, <1>5, <1>7 DEF OkMove
  <2> QED BY <1>3, <1>6, <2>1, <2>2 DEF ContentMove, DepsMove, OwnedMove, MadeMove
<1>8. CASE says = "ok"
  <2>1. IsValid(target[w]) /\ content'[target[w]] = w /\ deps'[target[w]] = t
        /\ \A o \in Objects : o # target[w] => content'[o] = content[o] /\ deps'[o] = deps[o]
      BY <1>1, <1>2, <1>4, <1>8
  <2>2. OkMove BY <1>3, <1>5, <2>1 DEF OkMove
  <2>3. ContentMove BY <1>1, <1>5, <1>8, <2>1 DEF ContentMove
  <2>4. DepsMove
    <3> SUFFICES ASSUME NEW m \in owned
                 PROVE  \/ deps'[m] = deps[m]
                        \/ deps'[m] = 0
                        \/ \E v \in Loads : status[v] = "ok" /\ Observed(v) /\ target[v] = deps'[m]
        BY <1>3 DEF DepsMove
    <3>1. CASE m = target[w] BY <2>1, <3>1
    <3>2. CASE m # target[w] BY <1>2, <2>1, <3>2
    <3> QED BY <3>1, <3>2
  <2>5. OwnedMove BY <1>3 DEF OwnedMove
  <2> QED BY <1>3, <1>6, <2>2, <2>3, <2>4, <2>5 DEF MadeMove
<1> QED BY <1>4, <1>7, <1>8

LEMMA VisitMoves ==
  ASSUME TypeOK, Known, ResourceAssumption, NEW w \in Loads, Visit(w), UNCHANGED <<uses, closed>>
  PROVE  Moves
<1>1. UsesMove BY DEF UsesMove
<1>2. CASE Pass(w)
  <2>1. UNCHANGED <<objects, content, deps, tables, closed>> /\ UNCHANGED loads BY <1>2 DEF Pass
  <2> QED BY <1>1, <2>1, StillObjects, StillLoads DEF Moves
<1>3. ASSUME Ends(w, "failed"), Takes(w),
             UNCHANGED <<asked, target, held, cpu, dep, pending>>
      PROVE  LoadsMove /\ OkMove
  <2>1. status' = [status EXCEPT ![w] = "failed"] /\ status[w] = "waiting"
        /\ status \in [Loads -> {"none", "waiting", "ok", "failed", "stopped"}]
      BY <1>3 DEF Ends, TypeOK, Takes
  <2>2. status'[w] = "failed" /\ \A x \in Loads : x # w => status'[x] = status[x] BY <2>1
  <2>3. \A x \in Loads : /\ held'[x] > 0 => held[x] > 0
                         /\ status'[x] = "waiting" => status[x] = "waiting"
                         /\ status[x] = "none" => status'[x] = "none"
      BY <1>3, <2>1, <2>2
  <2>4. asked' = asked /\ target' = target /\ pending' = pending /\ dep' = dep BY <1>3
  <2>5. LoadsMove BY <2>3, <2>4, QuietLoads
  <2>6. OkMove BY <2>2 DEF OkMove
  <2> QED BY <2>5, <2>6
<1>4. CASE TextureFailed(w)
  <2>1. /\ Ends(w, "failed") /\ Takes(w) /\ UNCHANGED <<asked, target, held, cpu, dep, pending>>
        /\ UNCHANGED <<objects, content, deps, tables, closed>>
      BY <1>4 DEF TextureFailed
  <2> QED BY <1>1, <1>3, <2>1, StillObjects DEF Moves
<1>5. CASE AdoptMaterial(w)
  <2> DEFINE t == IF dep[w] = 0 THEN 0 ELSE target[dep[w]]
  <2>1. /\ Takes(w) /\ Adopt(w, t) /\ DependencyReady(w)
        /\ UNCHANGED <<objects, tables, cache, asked, target, held, dep, pending, uses, cpu, closed>>
      BY <1>5 DEF AdoptMaterial
  <2>2. t = 0 \/ \E v \in Loads : status[v] = "ok" /\ Observed(v) /\ target[v] = t
    <3>1. CASE dep[w] = 0 BY <3>1
    <3>2. CASE dep[w] # 0
      <4>1. dep[w] \in Loads
        <5>1. dep[w] \in 0 .. MaxAsked BY DEF TypeOK
        <5> QED BY <3>2, <5>1 DEF Loads, ResourceAssumption
      <4>2. status[dep[w]] = "ok" BY <2>1, <3>2 DEF DependencyReady
      <4>3. Observed(dep[w]) BY <2>1 DEF Observed, Takes
      <4> QED BY <3>2, <4>1, <4>2, <4>3
    <3> QED BY <3>1, <3>2
  <2> HIDE DEF t
  <2>3. LoadsMove /\ OkMove /\ ContentMove /\ DepsMove /\ OwnedMove /\ MadeMove
      BY <2>1, <2>2, AdoptMoves
  <2> QED BY <1>1, <2>3 DEF Moves
<1>6. CASE TakeContent(w)
  <2>1. /\ Takes(w)
        /\ UNCHANGED <<objects, tables, cache, asked, target, held, dep, pending, uses, closed>>
      BY <1>6 DEF TakeContent
  <2>2. CASE cpu[w] = "failed"
    <3>1. Ends(w, "failed") /\ UNCHANGED <<content, deps, cpu>> BY <1>6, <2>2 DEF TakeContent
    <3> QED BY <1>1, <1>3, <2>1, <3>1, StillObjects DEF Moves
  <2>3. CASE cpu[w] # "failed" /\ kind[target[w]] = "texture"
    <3>1. Adopt(w, 0) /\ UNCHANGED cpu BY <1>6, <2>3 DEF TakeContent
    <3>2. LoadsMove /\ OkMove /\ ContentMove /\ DepsMove /\ OwnedMove /\ MadeMove
        BY <2>1, <3>1, AdoptMoves
    <3> QED BY <1>1, <3>2 DEF Moves
  <2>4. CASE cpu[w] # "failed" /\ kind[target[w]] # "texture"
    <3>1. UNCHANGED <<status, content, deps>> BY <1>6, <2>4 DEF TakeContent
    <3>2. UNCHANGED <<objects, content, deps, tables, closed>> BY <2>1, <3>1
    <3>3. LoadsMove BY <2>1, <3>1, QuietLoads
    <3>4. OkMove BY <3>1 DEF OkMove
    <3> QED BY <1>1, <3>2, <3>3, <3>4, StillObjects DEF Moves
  <2> QED BY <2>2, <2>3, <2>4
<1>7. CASE AskTexture(w)
  <2> DEFINE u == Needs[TextureOf(w)]
  <2>1. Takes(w) /\ cpu[w] = "described" /\ u # NoUri BY <1>7 DEF AskTexture
  <2>2. u \in Uris BY <2>1, NeedIsUri DEF Uris
  <2>3. w \in pending BY <2>1 DEF Takes
  <2> HIDE DEF u
  <2>4. CASE Load(u, FALSE, w)
    <3>1. LoadsMove /\ OkMove BY <2>2, <2>3, <2>4, LoadMoves
    <3>2. \E o \in Objects : Reserve(u, o) BY <2>4 DEF Load
    <3> QED BY <1>1, <3>1, <3>2, ReserveMoves DEF Moves
  <2>5. ASSUME LoadRefused(u), Ends(w, "failed"),
               UNCHANGED <<asked, target, held, cpu, dep, pending>>
        PROVE  Moves
    <3>1. LoadsMove /\ OkMove BY <1>3, <2>1, <2>5
    <3>2. UNCHANGED <<objects, content, deps, tables, cache>> \/ \E o \in Objects : Reserve(u, o)
        BY <2>5 DEF LoadRefused
    <3>3. ContentMove /\ DepsMove /\ OwnedMove /\ MadeMove BY <3>2, ReserveMoves, StillObjects
    <3> QED BY <1>1, <3>1, <3>3 DEF Moves
  <2> QED BY <1>7, <2>4, <2>5 DEF AskTexture, u
<1> QED BY <1>2, <1>4, <1>5, <1>6, <1>7 DEF Visit

LEMMA StepMoves ==
  ASSUME TypeOK, Known, ResourceAssumption, [Next]_vars
  PROVE  Moves
<1>1. ASSUME UNCHANGED <<objects, content, deps, tables, closed>>, LoadsMove, OkMove, UsesMove
      PROVE  Moves
    BY <1>1, StillObjects DEF Moves
<1>2. ASSUME uses' \subseteq uses PROVE UsesMove BY <1>2 DEF UsesMove
<1>3. ASSUME NEW u \in Uris, NEW reload \in BOOLEAN, GameLoads(u, reload) PROVE Moves
  <2>1. UsesMove /\ UNCHANGED closed BY <1>2, <1>3 DEF GameLoads, stops
  <2>2. CASE Load(u, reload, 0)
    <3>1. \E o \in Objects : Reserve(u, o) BY <2>2 DEF Load
    <3> QED BY <2>1, <2>2, <3>1, LoadMoves, ReserveMoves DEF Moves
  <2>3. CASE LoadRefused(u) /\ UNCHANGED loads
    <3>1. UNCHANGED <<objects, content, deps, tables, cache>> \/ \E o \in Objects : Reserve(u, o)
        BY <2>3 DEF LoadRefused
    <3> QED BY <2>1, <2>3, <3>1, StillLoads, StillObjects, ReserveMoves DEF Moves
  <2> QED BY <1>3, <2>2, <2>3 DEF GameLoads
<1>4. ASSUME NEW w \in Loads, Drop(w) PROVE Moves
  <2>1. /\ held[w] \in Nat /\ held[w] > 0 /\ held' = [held EXCEPT ![w] = held[w] - 1]
        /\ held \in [Loads -> 0 .. MaxHolders]
      BY <1>4 DEF Drop, TypeOK
  <2>2. \A x \in Loads : held'[x] > 0 => held[x] > 0 BY <2>1
  <2>3. /\ UNCHANGED <<objects, content, deps, tables, closed>>
        /\ asked' = asked /\ target' = target /\ pending' = pending /\ dep' = dep
        /\ status' = status
      BY <1>4 DEF Drop, stops
  <2>4. LoadsMove BY <2>2, <2>3, QuietLoads
  <2>5. OkMove BY <2>3 DEF OkMove
  <2>6. UsesMove
    <3>1. Observed(w) BY <2>1 DEF Observed
    <3>2. uses' = uses \/ (status[w] = "ok" /\ uses' = uses \cup {target[w]}) BY <1>4 DEF Drop
    <3> QED BY <3>1, <3>2 DEF UsesMove
  <2> QED BY <1>1, <2>3, <2>4, <2>5, <2>6
<1>5. ASSUME NEW w \in Loads, NEW outcome \in {"ok", "failed"}, Answer(w, outcome) PROVE Moves
  <2>1. /\ UNCHANGED <<objects, content, deps, tables, closed>> /\ uses' = uses
        /\ asked' = asked /\ target' = target /\ pending' = pending /\ dep' = dep
        /\ status' = status /\ held' = held
      BY <1>5 DEF Answer, stops
  <2>2. LoadsMove BY <2>1, QuietLoads
  <2>3. OkMove BY <2>1 DEF OkMove
  <2> QED BY <1>1, <1>2, <2>1, <2>2, <2>3
<1>6. ASSUME NEW k \in Kinds, CreateFails(k) PROVE Moves
  <2>1. /\ made' = made /\ content' = content /\ deps' = deps /\ owned' = owned /\ closed' = closed
        /\ uses' = uses /\ UNCHANGED loads
      BY <1>6 DEF CreateFails, objects, stops
  <2>2. ContentMove /\ DepsMove /\ OwnedMove /\ MadeMove
      BY <2>1 DEF ContentMove, DepsMove, OwnedMove, MadeMove
  <2> QED BY <1>2, <2>1, <2>2, StillLoads DEF Moves
<1>7. ASSUME NEW k \in Kinds, NEW t \in uses \cup {0}, Create(k, t) PROVE Moves
  <2>1. Make(k, Own, t) /\ uses' = uses \cup {made'} /\ UNCHANGED loads /\ UNCHANGED closed
      BY <1>7 DEF Create, stops
  <2>2. ContentMove /\ DepsMove /\ OwnedMove /\ MadeMove BY <2>1, MakeMoves
  <2>3. made' \in owned' /\ content'[made'] = Own BY <2>1, MakeFacts
  <2>4. Own # 0 BY DEF Own, ResourceAssumption
  <2>5. UsesMove BY <2>1, <2>3, <2>4 DEF UsesMove
  <2> QED BY <2>1, <2>2, <2>5, StillLoads DEF Moves
<1>8. ASSUME NEW o \in uses, Release(o) PROVE Moves
  <2>1. UNCHANGED <<objects, content, deps, tables, closed>> /\ UNCHANGED loads /\ uses' \subseteq uses
      BY <1>8 DEF Release, stops
  <2> QED BY <1>1, <1>2, <2>1, StillLoads
<1>9. ASSUME DestroyAll(Dead), UNCHANGED <<objects, content, deps, uses, loads, closed>> PROVE Moves
  <2>1. made' = made /\ content' = content /\ deps' = deps /\ owned' = owned \ Dead
        /\ closed' = closed /\ uses' = uses
      BY <1>9 DEF DestroyAll, objects
  <2>2. OwnedMove BY <1>9, <2>1 DEF OwnedMove
  <2>3. ContentMove /\ DepsMove /\ MadeMove BY <2>1 DEF ContentMove, DepsMove, MadeMove
  <2> QED BY <1>2, <1>9, <2>1, <2>2, <2>3, StillLoads DEF Moves
<1>10. CASE CollectUnused \/ BeginAdvance BY <1>9, <1>10 DEF CollectUnused, BeginAdvance, Drain, stops
<1>11. CASE RequestStop
  <2>1. /\ UNCHANGED <<objects, content, deps, tables, closed>> /\ uses' = uses
        /\ asked' = asked /\ target' = target /\ pending' = {} /\ held' = held
        /\ status' = [w \in Loads |-> IF w \in pending THEN "stopped" ELSE status[w]]
      BY <1>11 DEF RequestStop, StopLoading
  <2>2. \A w \in pending : w \in Loads /\ w <= asked BY Listed
  <2>3. OkMove BY <2>1 DEF OkMove
  <2>4. \A w \in Loads : Observed(w)' => Observed(w) BY <2>1 DEF Observed
  <2>5. \A w \in Loads : w > asked => status'[w] = "none"
    <3>1. \A w \in Loads : w > asked => w \notin pending BY DEF TypeOK, Loads
    <3> QED BY <2>1, <3>1 DEF Known, Unmade
  <2>6. LoadsMove BY <2>1, <2>4, <2>5 DEF LoadsMove
  <2> QED BY <1>1, <1>2, <2>1, <2>3, <2>6
<1>12. CASE Stop
  <2>1. /\ made' = made /\ content' = content /\ deps' = deps /\ owned' = {} /\ closed'
        /\ uses' = uses /\ UNCHANGED loads
      BY <1>12 DEF Stop, DestroyAll, objects
  <2>2. ContentMove /\ DepsMove /\ OwnedMove /\ MadeMove
      BY <2>1 DEF ContentMove, DepsMove, OwnedMove, MadeMove
  <2> QED BY <1>2, <2>1, <2>2, StillLoads DEF Moves
<1>13. CASE Walk
  <2>1. cursor \in Loads
    <3>1. cursor \in 1 .. last /\ last \in 0 .. asked /\ asked \in 0 .. MaxAsked
        BY <1>13 DEF Walk, TypeOK
    <3> QED BY <3>1 DEF Loads, ResourceAssumption
  <2> QED BY <1>13, <2>1, VisitMoves DEF Walk, stops
<1>14. CASE EndAdvance
  <2>1. /\ UNCHANGED <<objects, content, deps, tables, closed>> /\ uses' = uses
        /\ asked' = asked /\ target' = target /\ held' = held /\ status' = status
        /\ pending' = Remaining
        /\ dep' = [w \in Loads |-> IF w \in Remaining THEN dep[w] ELSE 0]
      BY <1>14 DEF EndAdvance, stops
  <2>2. \A w \in pending : w \in Loads BY Listed
  <2>3. pending' \subseteq pending /\ \A w \in pending' : dep'[w] = dep[w]
      BY <2>1, <2>2 DEF Remaining
  <2>4. LoadsMove BY <2>1, <2>3, QuietLoads
  <2>5. OkMove BY <2>1 DEF OkMove
  <2> QED BY <1>1, <1>2, <2>1, <2>4, <2>5
<1>15. CASE UNCHANGED vars
  <2>1. UNCHANGED <<objects, content, deps, tables, closed>> /\ UNCHANGED loads /\ uses' = uses
      BY <1>15 DEF vars, stops
  <2> QED BY <1>1, <1>2, <2>1, StillLoads
<1> QED BY <1>3, <1>4, <1>5, <1>6, <1>7, <1>8, <1>10, <1>11, <1>12, <1>13, <1>14, <1>15
        DEF Next, Game, Assets, Advance

LEMMA SameHandles ==
  ASSUME HandleInv, UNCHANGED <<objects, tables>> PROVE HandleInv'
<1>1. /\ made' = made /\ kind' = kind /\ slot' = slot /\ gen' = gen /\ owned' = owned
      /\ generation' = generation /\ occupied' = occupied /\ spent' = spent
    BY DEF objects, tables
<1> QED BY <1>1 DEF HandleInv

LEMMA StepHandles ==
  ASSUME TypeOK, Known, HandleInv, ResourceAssumption, [Next]_vars
  PROVE  HandleInv'
<1>1. ASSUME NEW u, NEW o, Reserve(u, o) PROVE HandleInv'
  <2>1. KindOf(u) \in Kinds BY DEF KindOf, Kinds
  <2> QED BY <1>1, <2>1, SameHandles, MakeKeepsHandles DEF Reserve
<1>2. ASSUME NEW u, LoadRefused(u) PROVE HandleInv'
    BY <1>1, <1>2, SameHandles DEF LoadRefused
<1>3. ASSUME NEW u, NEW reload, NEW who, Load(u, reload, who) PROVE HandleInv'
    BY <1>1, <1>3 DEF Load
<1>4. ASSUME NEW u \in Uris, NEW reload \in BOOLEAN, GameLoads(u, reload) PROVE HandleInv'
    BY <1>2, <1>3, <1>4 DEF GameLoads
<1>5. ASSUME NEW w \in Loads, Drop(w) \/ \E outcome \in {"ok", "failed"} : Answer(w, outcome)
      PROVE  HandleInv'
    BY <1>5, SameHandles DEF Drop, Answer
<1>6. ASSUME NEW k \in Kinds, CreateFails(k) \/ \E t \in uses \cup {0} : Create(k, t)
      PROVE  HandleInv'
    BY <1>6, CreateFailsKeepsHandles, MakeKeepsHandles DEF Create
<1>7. ASSUME NEW o \in uses, Release(o) PROVE HandleInv'
    BY <1>7, SameHandles DEF Release
<1>8. CASE CollectUnused \/ BeginAdvance
    BY <1>8, DeadIsOwned, DestroyKeepsHandles DEF CollectUnused, BeginAdvance, Drain
<1>9. CASE Stop BY <1>9, DestroyKeepsHandles DEF Stop
<1>10. CASE RequestStop BY <1>10, SameHandles DEF RequestStop
<1>11. CASE Walk
  <2>1. Visit(cursor) BY <1>11 DEF Walk
  <2>2. ASSUME NEW w, Pass(w) \/ TextureFailed(w) \/ AdoptMaterial(w) \/ TakeContent(w)
        PROVE  HandleInv'
      BY <2>2, SameHandles DEF Pass, TextureFailed, AdoptMaterial, TakeContent
  <2>3. ASSUME NEW w, AskTexture(w) PROVE HandleInv'
      BY <1>2, <1>3, <2>3 DEF AskTexture
  <2> QED BY <2>1, <2>2, <2>3 DEF Visit
<1>12. CASE EndAdvance BY <1>12, SameHandles DEF EndAdvance
<1>13. CASE UNCHANGED vars BY <1>13, SameHandles DEF vars
<1> QED BY <1>4, <1>5, <1>6, <1>7, <1>8, <1>9, <1>10, <1>11, <1>12, <1>13
        DEF Next, Game, Assets, Advance

(* A handle that was given back denotes nothing ever again, and the handle of   *)
(* an object that is still there does, however the slots are reused.            *)
THEOREM HandlesCorrect == Spec => []HandlesAreHonest
<1>1. Init => HandleInv
  <2> SUFFICES ASSUME Init PROVE HandleInv OBVIOUS
  <2>1. 1 .. made = {} /\ owned = {} BY DEF Init
  <2>2. \A k \in Kinds : occupied[k] = {} /\ spent[k] = {} BY DEF Init
  <2> QED BY <2>1, <2>2 DEF HandleInv
<1>2. TypeOK /\ Known /\ HandleInv /\ [Next]_vars => HandleInv'
    BY ResourceAssumption, StepHandles
<1>3. TypeOK /\ HandleInv => HandlesAreHonest BY ResourceAssumption, HandleInvImplies
<1>4. Spec => [](TypeOK /\ Known) BY TypesHold
<1> QED BY <1>1, <1>2, <1>3, <1>4, PTL DEF Spec

(***************************************************************************)
(* Contents                                                                *)
(***************************************************************************)
\* What a request that ended well leads to, what the game holds and what a
\* material refers to are in the tables and have a content.
ReadyInv ==
  ~closed =>
    /\ \A w \in Loads : status[w] = "ok" /\ Observed(w) =>
          target[w] \in owned /\ content[target[w]] # 0
    /\ \A o \in uses : o \in owned /\ content[o] # 0
    /\ \A m \in owned : deps[m] # 0 => deps[m] \in owned /\ content[deps[m]] # 0

LEMMA ReadyInvImplies == ASSUME ReadyInv, TypeOK PROVE ReadyIsComplete
BY DEF ReadyInv, ReadyIsComplete, IsReady

(* The drain takes nothing that is referred to: a material that stays keeps its *)
(* texture, for only what goes first lets go of anything.                       *)
LEMMA DrainKeepsReady ==
  ASSUME TypeOK, Known, ReadyInv, ResourceAssumption, owned' = owned \ Dead, ~closed,
         UNCHANGED <<content, deps, uses, loads>>
  PROVE  ReadyInv'
<1>1. /\ status' = status /\ target' = target /\ held' = held /\ dep' = dep /\ pending' = pending
    BY DEF loads
<1>2. ASSUME NEW o \in owned, \A first : IsHeldBesides(o, first) PROVE o \notin Dead
    BY <1>2 DEF Dead, IsHeld
<1>3. ASSUME NEW w \in Loads, status'[w] = "ok", Observed(w)'
      PROVE  target'[w] \in owned' /\ content'[target'[w]] # 0
  <2>1. Observed(w) BY <1>1, <1>3 DEF Observed
  <2>2. target[w] \in owned /\ content[target[w]] # 0 BY <1>1, <1>3, <2>1 DEF ReadyInv
  <2>3. target[w] \notin Dead BY <1>2, <2>1, <2>2 DEF IsHeldBesides
  <2> QED BY <1>1, <2>2, <2>3
<1>4. ASSUME NEW o \in uses PROVE o \in owned' /\ content'[o] # 0
  <2>1. o \in owned /\ content[o] # 0 BY DEF ReadyInv
  <2>2. o \notin Dead BY <1>2, <2>1 DEF IsHeldBesides
  <2> QED BY <2>1, <2>2
<1>5. ASSUME NEW m \in owned', deps'[m] # 0
      PROVE  deps'[m] \in owned' /\ content'[deps'[m]] # 0
  <2>1. m \in owned /\ m \notin Dead /\ deps[m] \in owned /\ content[deps[m]] # 0
      BY <1>5 DEF ReadyInv
  <2> DEFINE t == deps[m]
             first == {o \in owned : ~IsHeld(o)}
  <2>2. Dead = first \cup {o \in owned : ~IsHeldBesides(o, first)} BY DEF Dead
  <2>3. m \notin first BY <2>1, <2>2
  <2>4. IsHeld(t) BY <2>1 DEF IsHeld, IsHeldBesides
  <2>5. IsHeldBesides(t, first) BY <2>1, <2>3 DEF IsHeldBesides
  <2>6. t \notin Dead BY <2>2, <2>4, <2>5
  <2> QED BY <2>1, <2>6
<1> QED BY <1>3, <1>4, <1>5 DEF ReadyInv

LEMMA StepReady ==
  ASSUME TypeOK, Known, TypeOK', Known', HandlesAreHonest, ReadyInv, ResourceAssumption, Moves
  PROVE  ReadyInv'
<1> SUFFICES ASSUME ~closed' PROVE ReadyInv' BY DEF ReadyInv
<1>1. ~closed BY DEF Moves, OwnedMove
<1>2. CASE owned' = owned \ Dead /\ UNCHANGED <<content, deps, uses, loads>>
    BY <1>1, <1>2, DrainKeepsReady
<1>3. CASE owned \subseteq owned'
  <2>1. owned \subseteq Objects /\ asked \in Nat
        /\ \A w \in Loads : w \in Nat /\ w # 0 /\ (w <= asked => target[w] \in 1 .. made)
    <3>1. made \in 0 .. MaxMade /\ owned \subseteq 1 .. made /\ asked \in Nat BY DEF TypeOK
    <3> QED BY <3>1 DEF Objects, ResourceAssumption, Known, TargetsOK, Loads
  <2>2. ASSUME NEW o \in owned, content[o] # 0 PROVE content'[o] # 0
    <3>1. \/ content'[o] = content[o]
          \/ o = made' /\ made' = made + 1
          \/ \E w \in Loads : content'[o] = w
        BY <2>1 DEF Moves, ContentMove
    <3>2. ~ (o = made' /\ made' = made + 1) BY DEF TypeOK
    <3> QED BY <2>1, <2>2, <3>1, <3>2
  <2>3. ASSUME NEW w \in Loads, status[w] = "ok", Observed(w)
        PROVE  target[w] \in owned' /\ content'[target[w]] # 0
      BY <1>1, <1>3, <2>2, <2>3 DEF ReadyInv
  <2>4. ASSUME NEW w \in Loads, status'[w] = "ok", Observed(w)'
        PROVE  target'[w] \in owned' /\ content'[target'[w]] # 0
    <3>1. CASE w <= asked
      <4>1. target'[w] = target[w] /\ Observed(w) BY <2>4, <3>1 DEF Moves, LoadsMove
      <4>2. CASE status[w] = "ok" BY <2>3, <4>1, <4>2
      <4>3. CASE IsValid(target[w]) /\ content'[target[w]] = w /\ owned' = owned
        <5>1. target[w] \in owned BY <2>1, <3>1, <4>3 DEF HandlesAreHonest
        <5> QED BY <2>1, <4>1, <4>3, <5>1
      <4> QED BY <2>4, <3>1, <4>2, <4>3 DEF Moves, OkMove
    <3>2. CASE w > asked
      <4>1. PICK o \in Objects : target'[w] = o /\ IsReady(o)
          BY <2>4, <3>2 DEF Moves, LoadsMove
      <4> QED BY <1>3, <2>2, <4>1 DEF IsReady
    <3> QED BY <2>1, <3>1, <3>2
  <2>5. ASSUME NEW o \in uses' PROVE o \in owned' /\ content'[o] # 0
    <3>1. CASE o \in uses BY <1>1, <1>3, <2>2, <3>1 DEF ReadyInv
    <3> QED BY <2>3, <3>1 DEF Moves, UsesMove
  <2>6. ASSUME NEW m \in owned', deps'[m] # 0
        PROVE  deps'[m] \in owned' /\ content'[deps'[m]] # 0
    <3>1. CASE m \in owned /\ deps'[m] = deps[m] BY <1>1, <1>3, <2>2, <2>6, <3>1 DEF ReadyInv
    <3>2. CASE deps'[m] \in uses BY <1>1, <1>3, <2>2, <3>2 DEF ReadyInv
    <3> QED BY <2>3, <2>6, <3>1, <3>2 DEF Moves, DepsMove
  <2> QED BY <2>4, <2>5, <2>6 DEF ReadyInv
<1> QED BY <1>2, <1>3 DEF Moves, OwnedMove

(* What a request has brought can be drawn at once: it has its content, and so  *)
(* has its texture, which is kept from being destroyed.                         *)
THEOREM ReadyCorrect == Spec => []ReadyIsComplete
<1>1. Init => ReadyInv
  <2> SUFFICES ASSUME Init PROVE ReadyInv OBVIOUS
  <2>1. owned = {} /\ uses = {} /\ \A w \in Loads : status[w] = "none" BY DEF Init
  <2> QED BY <2>1 DEF ReadyInv
<1>2. TypeOK /\ Known /\ (TypeOK /\ Known)' /\ HandlesAreHonest /\ ReadyInv /\ [Next]_vars => ReadyInv'
    BY ResourceAssumption, StepMoves, StepReady
<1>3. TypeOK /\ ReadyInv => ReadyIsComplete BY ReadyInvImplies
<1>4. Spec => [](TypeOK /\ Known) BY TypesHold
<1>5. Spec => []HandlesAreHonest BY HandlesCorrect
<1> QED BY <1>1, <1>2, <1>3, <1>4, <1>5, PTL DEF Spec

\* An object has one load that somebody waits for, and no content that is newer.
NewestInv ==
  /\ \A o \in Objects : o > made => content[o] = 0
  /\ \A o \in Objects : content[o] \in Loads => content[o] <= asked
  /\ \A w \in Loads : Takes(w) /\ content[target[w]] \in Loads => content[target[w]] <= w
  /\ \A v, w \in Loads : Takes(v) /\ Takes(w) /\ target[v] = target[w] => v = w

LEMMA StepNewest ==
  ASSUME TypeOK, Known, TypeOK', Known', NewestInv, ResourceAssumption, Moves
  PROVE  /\ NewestInv'
         /\ \A o \in Objects : content[o] \in Loads => content'[o] >= content[o]
<1>1. /\ made \in Nat /\ made' \in Nat /\ asked \in Nat /\ asked' \in Nat
      /\ \A w \in Loads : w \in Nat /\ (w <= asked => target[w] \in 1 .. made)
      /\ \A o \in Objects : o \in Nat /\ content[o] \in Nat
      /\ 0 \notin Loads /\ Own \notin Loads
  <2>1. made \in Nat /\ made' \in Nat /\ asked \in Nat /\ asked' \in Nat BY DEF TypeOK
  <2>2. \A w \in Loads : w \in Nat /\ (w <= asked => target[w] \in 1 .. made)
      BY DEF Known, TargetsOK, Loads
  <2>3. \A o \in Objects : o \in Nat BY DEF Objects
  <2>4. content \in [Objects -> 0 .. MaxAsked + 1] BY DEF TypeOK
  <2>5. \A o \in Objects : content[o] \in Nat BY <2>4
  <2> QED BY <2>1, <2>2, <2>3, <2>5 DEF Loads, Own, ResourceAssumption
<1>2. ASSUME NEW w \in Loads, Takes(w) PROVE w <= asked /\ status[w] = "waiting"
    BY <1>2, Listed DEF Takes
<1>2a. ASSUME NEW w \in Loads, Takes(w)' PROVE w <= asked' /\ Observed(w)' /\ status'[w] = "waiting"
                                              /\ w \in pending'
  <2>1. w \in pending' /\ Observed(w)' /\ status'[w] = "waiting" BY <1>2a DEF Takes
  <2>2. pending' \subseteq 1 .. asked' BY DEF TypeOK
  <2> QED BY <1>1, <2>1, <2>2
<1>3. /\ asked <= asked' /\ made <= made' /\ (made' = made + 1 => made < made')
      /\ \A w \in Loads : w > asked => w >= asked'
    BY <1>1 DEF Moves, LoadsMove, MadeMove
<1>4. ASSUME NEW o \in Objects
      PROVE  \/ content'[o] = content[o]
             \/ o = made' /\ o > made /\ content'[o] \notin Loads /\ content[o] \notin Loads
             \/ \E w \in Loads : /\ Takes(w) /\ target[w] = o /\ content'[o] = w /\ status'[w] = "ok"
                                 /\ w <= asked /\ o <= made
  <2>1. CASE o = made' /\ made' = made + 1 /\ content'[o] \in {0, Own}
    <3>1. o > made BY <1>1, <2>1
    <3> QED BY <1>1, <2>1, <3>1 DEF NewestInv
  <2>2. CASE \E w \in Loads : Takes(w) /\ target[w] = o /\ content'[o] = w /\ status'[w] = "ok"
    <3>1. PICK w \in Loads : Takes(w) /\ target[w] = o /\ content'[o] = w /\ status'[w] = "ok"
        BY <2>2
    <3>2. w <= asked /\ o \in 1 .. made BY <1>1, <1>2, <3>1
    <3> QED BY <1>1, <3>1, <3>2
  <2> QED BY <2>1, <2>2 DEF Moves, ContentMove
<1>5. ASSUME NEW w \in Loads, w <= asked, Takes(w)' PROVE Takes(w) /\ target'[w] = target[w]
    BY <1>2a, <1>5 DEF Moves, LoadsMove, Takes
<1>6. ASSUME NEW w \in Loads, w > asked, Takes(w)'
      PROVE  w = asked' /\ \E o \in Objects : target'[w] = o /\ InFlight(o) = {}
  <2>1. status'[w] # "none" BY <1>2a, <1>6
  <2> QED BY <1>6, <2>1 DEF Moves, LoadsMove
<1>7. \A o \in Objects : o > made' => content'[o] = 0
    BY <1>1, <1>3, <1>4 DEF NewestInv
<1>8. ASSUME NEW o \in Objects, content'[o] \in Loads PROVE content'[o] <= asked'
  <2>1. content'[o] <= asked BY <1>4, <1>8 DEF NewestInv
  <2> QED BY <1>1, <1>3, <1>8, <2>1
<1>9. ASSUME NEW w \in Loads, Takes(w)', content'[target'[w]] \in Loads
      PROVE  content'[target'[w]] <= w
  <2>1. CASE w <= asked
    <3>1. Takes(w) /\ target'[w] = target[w] /\ target[w] \in 1 .. made BY <1>1, <1>5, <1>9, <2>1
    <3>2. target[w] \in Objects /\ target[w] <= made
      <4>1. made \in 0 .. MaxMade BY DEF TypeOK
      <4> QED BY <3>1, <4>1 DEF Objects, ResourceAssumption
    <3>3. content'[target[w]] = content[target[w]]
      <4>1. ASSUME NEW v \in Loads, Takes(v), target[v] = target[w], status'[v] = "ok" PROVE FALSE
        <5>1. v = w BY <3>1, <4>1 DEF NewestInv
        <5> QED BY <1>2a, <1>9, <4>1, <5>1
      <4>2. ~ (target[w] > made) BY <1>1, <3>2
      <4> QED BY <1>4, <3>2, <4>1, <4>2
    <3> QED BY <1>9, <3>1, <3>3 DEF NewestInv
  <2>2. CASE w > asked
    <3>1. PICK o \in Objects : target'[w] = o BY <1>6, <1>9, <2>2
    <3>2. content'[o] <= asked' BY <1>8, <1>9, <3>1
    <3> QED BY <1>6, <1>9, <2>2, <3>1, <3>2
  <2> QED BY <1>1, <2>1, <2>2
<1>10. ASSUME NEW v \in Loads, NEW w \in Loads, Takes(v)', Takes(w)', target'[v] = target'[w],
              v <= asked, w > asked
       PROVE  FALSE
  <2>1. PICK o \in Objects : target'[w] = o /\ InFlight(o) = {} BY <1>6, <1>10
  <2>2. Takes(v) /\ target[v] = o BY <1>5, <1>10, <2>1
  <2> QED BY <2>1, <2>2 DEF InFlight, Takes
<1>11. ASSUME NEW v \in Loads, NEW w \in Loads, Takes(v)', Takes(w)', target'[v] = target'[w]
       PROVE  v = w
  <2>1. CASE v <= asked /\ w <= asked
    <3>1. Takes(v) /\ Takes(w) /\ target[v] = target[w] BY <1>5, <1>11, <2>1
    <3> QED BY <3>1 DEF NewestInv
  <2>2. CASE v > asked /\ w > asked BY <1>6, <1>11, <2>2
  <2>3. ~ (v <= asked /\ w > asked) /\ ~ (w <= asked /\ v > asked) BY <1>10, <1>11
  <2> QED BY <1>1, <2>1, <2>2, <2>3
<1>12. NewestInv' BY <1>7, <1>8, <1>9, <1>11 DEF NewestInv
<1>13. ASSUME NEW o \in Objects, content[o] \in Loads PROVE content'[o] >= content[o]
  <2>1. CASE content'[o] = content[o] BY <1>1, <2>1
  <2>2. CASE \E w \in Loads : Takes(w) /\ target[w] = o /\ content'[o] = w
    <3>1. PICK w \in Loads : Takes(w) /\ target[w] = o /\ content'[o] = w BY <2>2
    <3>2. content[o] <= w BY <1>13, <3>1 DEF NewestInv
    <3> QED BY <1>1, <3>1, <3>2
  <2> QED BY <1>4, <1>13, <2>1, <2>2
<1> QED BY <1>12, <1>13

(* What a later load has brought is never overwritten by an earlier one.        *)
THEOREM NewestCorrect == Spec => NewestContent
<1>1. Init => NewestInv
  <2> SUFFICES ASSUME Init PROVE NewestInv OBVIOUS
  <2>1. pending = {} /\ \A o \in Objects : content[o] = 0 BY DEF Init
  <2>2. \A w : ~Takes(w) BY <2>1 DEF Takes
  <2>3. 0 \notin Loads BY DEF Loads
  <2> QED BY <2>1, <2>2, <2>3 DEF NewestInv
<1>2. TypeOK /\ Known /\ (TypeOK /\ Known)' /\ NewestInv /\ [Next]_vars =>
        /\ NewestInv'
        /\ [\A o \in Objects : content[o] \in Loads => content'[o] >= content[o]]_vars
    BY ResourceAssumption, StepMoves, StepNewest
<1>3. Spec => [](TypeOK /\ Known) BY TypesHold
<1> QED BY <1>1, <1>2, <1>3, PTL DEF Spec, NewestContent
=============================================================================
