------------------------- MODULE EditorAssetsProofs -------------------------
(***************************************************************************)
(* What the editor's file service, its watcher, its imports and its own      *)
(* saves keep true together, for every number of files, tasks and bytes.     *)
(***************************************************************************)
EXTENDS EditorAssets, Folds, FiniteSetTheorems, WellFoundedInduction, TLAPS

-----------------------------------------------------------------------------
(***************************************************************************)
(* Sums over finite sets.                                                   *)
(***************************************************************************)
(* Whatever holds of 0 and goes on from each number to the next holds of every number: what
   holds is a set here. *)
LEMMA Induction ==
    ASSUME NEW B, 0 \in B, \A n \in Nat : n \in B => n + 1 \in B PROVE \A n \in Nat : n \in B
<1> SUFFICES ASSUME NEW k \in Nat, k \notin B PROVE FALSE OBVIOUS
<1> DEFINE R == OpToRel(<, Nat)
           Out == {n \in Nat : n \notin B}
<1>1. IsWellFoundedOn(R, Nat) BY NatLessThanWellFounded
<1>2. PICK n \in Out : \A m \in Out : <<m, n>> \notin R BY <1>1, WFMin
<1>3. n \in Nat /\ n \notin B /\ n # 0 BY <1>2
<1>5. n - 1 \in Nat /\ n - 1 < n /\ n - 1 + 1 = n BY <1>3
<1>6. n - 1 \in B BY <1>2, <1>5 DEF OpToRel
<1> QED BY <1>3, <1>5, <1>6

Total(f, S) == MapThenSumSet(LAMBDA r : f[r], S)
First(s) == CHOOSE x \in s : TRUE
Sums(f, S, g) ==
    g = [s \in SUBSET S |-> IF s = {} THEN 0 ELSE f[First(s)] + g[s \ {First(s)}]]

LEMMA TotalIs ==
    ASSUME NEW f, NEW S
    PROVE  Total(f, S) = (CHOOSE g : Sums(f, S, g))[S]
<1>1. Total(f, S) = LET iter[s \in SUBSET S] ==
                          IF s = {} THEN 0
                          ELSE LET x == CHOOSE x \in s : TRUE IN f[x] + iter[s \ {x}]
                    IN iter[S]
  BY DEF Total, MapThenSumSet, MapThenFoldSet
<1> QED BY <1>1 DEF Sums, First

LEMMA OneLess ==
    ASSUME NEW s, IsFiniteSet(s), s # {}
    PROVE  /\ First(s) \in s /\ IsFiniteSet(s \ {First(s)})
           /\ Cardinality(s) \in Nat /\ Cardinality(s) # 0
           /\ Cardinality(s \ {First(s)}) = Cardinality(s) - 1
<1>1. First(s) \in s BY DEF First
<1>2. IsFiniteSet(s \ {First(s)}) /\ Cardinality(s \ {First(s)}) = Cardinality(s) - 1
  BY <1>1, FS_RemoveElement
<1>3. Cardinality(s) \in Nat /\ Cardinality(s) # 0 BY FS_CardinalityType, FS_EmptySet
<1> QED BY <1>1, <1>2, <1>3

LEMMA SumsExist ==
    ASSUME NEW S, IsFiniteSet(S), NEW f \in [S -> Nat]
    PROVE  \E g \in [SUBSET S -> Nat] : Sums(f, S, g)
<1> DEFINE Next1(g, s) == IF s = {} THEN 0 ELSE f[First(s)] + g[s \ {First(s)}]
           Good(g, n) == \A s \in SUBSET S : Cardinality(s) <= n => g[s] = Next1(g, s)
           B == {n \in Nat : \E g \in [SUBSET S -> Nat] : Good(g, n)}
<1>1. \A s \in SUBSET S : IsFiniteSet(s) /\ Cardinality(s) \in Nat /\ Cardinality(s) <= Cardinality(S)
  BY FS_Subset, FS_CardinalityType
<1>2. \A s \in SUBSET S : s # {} => /\ First(s) \in S /\ s \ {First(s)} \in SUBSET S
                                    /\ Cardinality(s) # 0
                                    /\ Cardinality(s \ {First(s)}) = Cardinality(s) - 1
  BY <1>1, OneLess
<1>3. 0 \in B
  <2> DEFINE g == [s \in SUBSET S |-> 0]
  <2>1. g \in [SUBSET S -> Nat] OBVIOUS
  <2>2. ASSUME NEW s \in SUBSET S, Cardinality(s) <= 0 PROVE g[s] = Next1(g, s)
    <3>1. Cardinality(s) = 0 BY <1>1, <2>2
    <3>2. s = {} BY <1>2, <3>1
    <3> QED BY <3>2
  <2> HIDE DEF g, Next1
  <2> QED BY <2>1, <2>2
<1>4. ASSUME NEW n \in Nat, n \in B PROVE n + 1 \in B
  <2>1. PICK g \in [SUBSET S -> Nat] : Good(g, n) BY <1>4
  <2> DEFINE h == [s \in SUBSET S |-> IF Cardinality(s) <= n THEN g[s] ELSE Next1(g, s)]
  <2>2. \A s \in SUBSET S : Next1(g, s) \in Nat
    <3> TAKE s \in SUBSET S
    <3>1. CASE s = {} BY <3>1
    <3>2. CASE s # {}
      <4>1. f[First(s)] \in Nat /\ g[s \ {First(s)}] \in Nat BY <1>2, <3>2
      <4> QED BY <3>2, <4>1
    <3> QED BY <3>1, <3>2
  <2>3. h \in [SUBSET S -> Nat]
    <3> HIDE DEF Next1
    <3> QED BY <2>1, <2>2
  <2>4. ASSUME NEW s \in SUBSET S, Cardinality(s) <= n + 1 PROVE h[s] = Next1(h, s)
    <3>1. h[s] = Next1(g, s)
      <4> HIDE DEF Next1
      <4> QED BY <2>1
    <3>2. CASE s = {} BY <3>1, <3>2
    <3>3. CASE s # {}
      <4>1. Cardinality(s \ {First(s)}) <= n /\ s \ {First(s)} \in SUBSET S BY <1>1, <1>2, <2>4, <3>3
      <4>2. h[s \ {First(s)}] = g[s \ {First(s)}]
        <5> HIDE DEF Next1
        <5> QED BY <4>1
      <4> HIDE DEF h
      <4> QED BY <3>1, <3>3, <4>2
    <3> QED BY <3>2, <3>3
  <2> HIDE DEF h, Next1
  <2> QED BY <2>3, <2>4
<1>5. Cardinality(S) \in B
  <2> HIDE DEF B
  <2> QED BY <1>1, <1>3, <1>4, Induction
<1>6. PICK g \in [SUBSET S -> Nat] : Good(g, Cardinality(S)) BY <1>5
<1>7. \A s \in SUBSET S : g[s] = Next1(g, s) BY <1>1, <1>6
<1>8. g = [s \in SUBSET S |-> Next1(g, s)]
  <2> HIDE DEF Next1
  <2> QED BY <1>6, <1>7
<1> QED BY <1>6, <1>8 DEF Sums

(* Every finite sum is a number, and is the sum of what First takes out and of the rest. *)
LEMMA TotalStep ==
    ASSUME NEW D, NEW f \in [D -> Nat], NEW S \in SUBSET D, IsFiniteSet(S)
    PROVE  /\ Total(f, S) \in Nat
           /\ S = {} => Total(f, S) = 0
           /\ S # {} => Total(f, S) = f[First(S)] + Total(f, S \ {First(S)})
<1> DEFINE It(U) == CHOOSE g : Sums(f, U, g)
<1>1. ASSUME NEW U \in SUBSET D, IsFiniteSet(U)
      PROVE  /\ \A T \in SUBSET U :
                    It(U)[T] = IF T = {} THEN 0 ELSE f[First(T)] + It(U)[T \ {First(T)}]
             /\ Total(f, U) = It(U)[U]
  <2> DEFINE e == [x \in U |-> f[x]]
  <2>1. PICK g \in [SUBSET U -> Nat] : Sums(e, U, g)
    <3>1. e \in [U -> Nat] OBVIOUS
    <3> HIDE DEF e
    <3> QED BY <1>1, <3>1, SumsExist
  <2>2. Sums(f, U, g)
    <3>1. g = [s \in SUBSET U |-> IF s = {} THEN 0 ELSE e[First(s)] + g[s \ {First(s)}]]
      BY <2>1 DEF Sums
    <3>2. \A s \in SUBSET U : s # {} => e[First(s)] = f[First(s)] BY DEF First
    <3> HIDE DEF e
    <3>3. g = [s \in SUBSET U |-> IF s = {} THEN 0 ELSE f[First(s)] + g[s \ {First(s)}]]
      BY <3>1, <3>2
    <3> QED BY <3>3 DEF Sums
  <2>3. Sums(f, U, It(U)) BY <2>2
  <2>4. Total(f, U) = It(U)[U] BY TotalIs
  <2> HIDE DEF It
  <2> QED BY <2>3, <2>4 DEF Sums
<1> HIDE DEF It
<1> DEFINE B == {n \in Nat : \A U \in SUBSET D : IsFiniteSet(U) =>
                    \A T \in SUBSET U : Cardinality(T) = n =>
                        It(U)[T] = Total(f, T) /\ Total(f, T) \in Nat}
<1>2. ASSUME NEW U \in SUBSET D, IsFiniteSet(U), NEW T \in SUBSET U
      PROVE  /\ T \in SUBSET D /\ IsFiniteSet(T) /\ Cardinality(T) \in Nat
             /\ Total(f, T) = IF T = {} THEN 0 ELSE f[First(T)] + It(T)[T \ {First(T)}]
  <2>1. T \in SUBSET D /\ IsFiniteSet(T) /\ Cardinality(T) \in Nat
    BY <1>2, FS_Subset, FS_CardinalityType
  <2> QED BY <1>1, <2>1
<1>3. 0 \in B
  <2> SUFFICES ASSUME NEW U \in SUBSET D, IsFiniteSet(U), NEW T \in SUBSET U, Cardinality(T) = 0
               PROVE  It(U)[T] = Total(f, T) /\ Total(f, T) \in Nat
    OBVIOUS
  <2>1. T = {} BY <1>2, FS_EmptySet
  <2> QED BY <1>1, <1>2, <2>1
<1>4. ASSUME NEW n \in Nat, n \in B PROVE n + 1 \in B
  <2> SUFFICES ASSUME NEW U \in SUBSET D, IsFiniteSet(U), NEW T \in SUBSET U,
                      Cardinality(T) = n + 1
               PROVE  It(U)[T] = Total(f, T) /\ Total(f, T) \in Nat
    OBVIOUS
  <2>1. T \in SUBSET D /\ IsFiniteSet(T) /\ Cardinality(T) \in Nat BY <1>2
  <2>2. T # {} BY FS_EmptySet
  <2> DEFINE R == T \ {First(T)}
  <2>3. First(T) \in T /\ Cardinality(R) = n /\ R \in SUBSET T /\ R \in SUBSET U
    BY <2>1, <2>2, OneLess
  <2> HIDE DEF R
  <2>4. It(U)[R] = Total(f, R) /\ It(T)[R] = Total(f, R) /\ Total(f, R) \in Nat
    BY <1>4, <2>1, <2>3
  <2>5. It(U)[T] = f[First(T)] + It(U)[R] BY <1>1, <2>2 DEF R
  <2>6. Total(f, T) = f[First(T)] + It(T)[R] BY <1>2, <2>2 DEF R
  <2>7. f[First(T)] \in Nat BY <2>1, <2>3
  <2> QED BY <2>4, <2>5, <2>6, <2>7
<1>5. \A n \in Nat : n \in B
  <2> HIDE DEF B
  <2> QED BY <1>3, <1>4, Induction
<1>6. Cardinality(S) \in Nat BY FS_CardinalityType
<1>7. Total(f, S) \in Nat BY <1>5, <1>6
<1>8. Total(f, S) = IF S = {} THEN 0 ELSE f[First(S)] + It(S)[S \ {First(S)}] BY <1>2
<1>9. ASSUME S # {} PROVE It(S)[S \ {First(S)}] = Total(f, S \ {First(S)})
  <2>1. Cardinality(S \ {First(S)}) \in Nat BY <1>2
  <2> QED BY <1>5, <2>1
<1> QED BY <1>7, <1>8, <1>9

(* Whichever member is taken out, the sum loses its share. *)
LEMMA TotalWithout ==
    ASSUME NEW D, NEW f \in [D -> Nat], NEW S \in SUBSET D, IsFiniteSet(S), NEW x \in S
    PROVE  Total(f, S) = f[x] + Total(f, S \ {x})
<1> DEFINE B == {n \in Nat : \A T \in SUBSET S : Cardinality(T) = n =>
                    \A y \in T : Total(f, T) = f[y] + Total(f, T \ {y})}
<1>1. 0 \in B BY FS_Subset, FS_EmptySet
<1>2. ASSUME NEW n \in Nat, n \in B PROVE n + 1 \in B
  <2> SUFFICES ASSUME NEW T \in SUBSET S, Cardinality(T) = n + 1, NEW y \in T
               PROVE  Total(f, T) = f[y] + Total(f, T \ {y})
    OBVIOUS
  <2>1. IsFiniteSet(T) /\ T \in SUBSET D /\ T # {} BY FS_Subset
  <2> DEFINE o == First(T)
             R == T \ {o}
             Q == T \ {y}
             P == R \ {y}
  <2>6. First(T) \in T /\ Cardinality(T \ {First(T)}) = Cardinality(T) - 1 BY <2>1, OneLess
  <2>2. o \in T /\ Cardinality(R) = n /\ R \in SUBSET S BY <2>6
  <2>3. Total(f, T) = f[o] + Total(f, R) BY <2>1, TotalStep
  <2>4. CASE y = o BY <2>3, <2>4
  <2>5. CASE y # o
    <3>1. IsFiniteSet(Q) /\ Cardinality(Q) = n /\ Q \in SUBSET S
      <4>1. IsFiniteSet(Q) /\ Cardinality(Q) = Cardinality(T) - 1 BY <2>1, FS_RemoveElement
      <4> QED BY <4>1
    <3>2. y \in R /\ o \in Q /\ Q \ {o} = P BY <2>2, <2>5
    <3>3. IsFiniteSet(P) /\ P \in SUBSET D BY <2>1, FS_Subset
    <3> HIDE DEF o, R, Q, P
    <3>4. Total(f, R) = f[y] + Total(f, P) BY <1>2, <2>2, <3>2 DEF P
    <3>5. Total(f, Q) = f[o] + Total(f, P) BY <1>2, <3>1, <3>2
    <3>6. f[o] \in Nat /\ f[y] \in Nat BY <2>1, <2>2
    <3>7. Total(f, P) \in Nat BY <3>3, TotalStep
    <3> QED BY <2>3, <3>4, <3>5, <3>6, <3>7 DEF Q
  <2> QED BY <2>4, <2>5
<1>3. \A n \in Nat : n \in B
  <2> HIDE DEF B
  <2> QED BY <1>1, <1>2, Induction
<1>4. Cardinality(S) \in Nat BY FS_CardinalityType
<1> QED BY <1>3, <1>4

(* Sums of the same numbers are the same. *)
LEMMA TotalAlike ==
    ASSUME NEW D, NEW f \in [D -> Nat], NEW g \in [D -> Nat], NEW S \in SUBSET D, IsFiniteSet(S),
           \A x \in S : f[x] = g[x]
    PROVE  Total(f, S) = Total(g, S)
<1> DEFINE B == {n \in Nat : \A T \in SUBSET S : Cardinality(T) = n => Total(f, T) = Total(g, T)}
<1>1. \A T \in SUBSET S : IsFiniteSet(T) /\ T \in SUBSET D BY FS_Subset
<1>2. 0 \in B
  <2> SUFFICES ASSUME NEW T \in SUBSET S, Cardinality(T) = 0 PROVE Total(f, T) = Total(g, T)
    OBVIOUS
  <2>1. T = {} BY <1>1, FS_EmptySet
  <2> QED BY <1>1, <2>1, TotalStep
<1>3. ASSUME NEW n \in Nat, n \in B PROVE n + 1 \in B
  <2> SUFFICES ASSUME NEW T \in SUBSET S, Cardinality(T) = n + 1 PROVE Total(f, T) = Total(g, T)
    OBVIOUS
  <2>6. n + 1 # 0 OBVIOUS
  <2>1. T # {} BY <2>6, FS_EmptySet
  <2> DEFINE o == First(T)
             R == T \ {o}
  <2>7. First(T) \in T /\ Cardinality(T \ {First(T)}) = Cardinality(T) - 1
    BY <1>1, <2>1, OneLess
  <2>2. o \in T /\ Cardinality(R) = n /\ R \in SUBSET S BY <2>7
  <2>3. Total(f, T) = f[o] + Total(f, R) BY <1>1, <2>1, TotalStep
  <2>4. Total(g, T) = g[o] + Total(g, R) BY <1>1, <2>1, TotalStep
  <2> HIDE DEF o, R
  <2>5. Total(f, R) = Total(g, R) BY <1>3, <2>2
  <2> QED BY <2>2, <2>3, <2>4, <2>5
<1>4. \A n \in Nat : n \in B
  <2> HIDE DEF B
  <2> QED BY <1>2, <1>3, Induction
<1>5. Cardinality(S) \in Nat BY FS_CardinalityType
<1> QED BY <1>4, <1>5

-----------------------------------------------------------------------------
(***************************************************************************)
(* The file service.                                                        *)
(***************************************************************************)
Distinct == \A i, j \in 1 .. Len(pending) : pending[i] = pending[j] => i = j

FileTypes ==
    /\ accepted \in 0 .. MaxIds /\ kind \in [Ids -> Kinds \cup {"none"}]
    /\ size \in [Ids -> Nat] /\ source \in [Ids -> Nat]
    /\ pending \in Seq(1 .. accepted) /\ Len(pending) <= MaxRequests /\ Distinct
    /\ index \in [Ids -> 1 .. Readers] /\ completed \in [Ids -> Results \cup {"none"}]
    /\ closing \in BOOLEAN /\ onShutdown \in BOOLEAN
    /\ outcome \in [Ids -> Results \cup {"none", "cancelled"}]
    /\ verdict \in [Ids -> {"none", "granted", "refused"}]
StreamTypes ==
    /\ open \subseteq 1 .. accepted /\ held \subseteq 1 .. accepted /\ tracked \subseteq 1 .. accepted
DispatchTypes ==
    /\ pc \in {"idle", "visiting", "callback"} /\ visits \in Nat /\ room \in Nat
    /\ place \in 1 .. Len(pending) + 1 /\ visits <= Len(pending) - place + 1

\* The buffers that are reserved are those of the requests of the table.
BufferInv == reserved = Total(size, Waiting) /\ reserved <= MaxBuffer

\* A request waits in the table, at its backend or completed, until it has been called back.
TableInv ==
    /\ \A r \in 1 .. accepted : r \notin Waiting <=> outcome[r] # "none"
    /\ \A r \in Ids : r > accepted => outcome[r] = "none" /\ verdict[r] = "none" /\ index[r] = 1
    /\ working \subseteq Waiting
    /\ \A r \in Ids : completed[r] # "none" => r \in Waiting /\ r \notin working
    /\ \A r \in Ids : index[r] <= Backends(r)

\* Who was told that the cancellation took is cancelled, or has been called back so; who was
\* told that it came too late has its last completion.
VerdictInv ==
    /\ cancelled \subseteq Waiting /\ \A r \in cancelled : verdict[r] = "granted"
    /\ \A r \in Waiting : /\ verdict[r] = "granted" => r \in cancelled
                          /\ verdict[r] = "refused" => Settled(r) /\ r \notin cancelled
    /\ \A r \in Ids : /\ verdict[r] = "granted" => outcome[r] \in {"none", "cancelled"}
                      /\ verdict[r] = "refused" /\ kind[r] # "open" => outcome[r] # "cancelled"
                      /\ outcome[r] = "not_found" => index[r] = Backends(r)

\* The requests that callbacks of this dispatch submitted wait behind those it visits.
FreshInv ==
    /\ pc = "idle" => fresh = {}
    /\ fresh \subseteq Waiting
    /\ \A i \in 1 .. Len(pending) : pending[i] \in fresh => i >= place + visits

\* An open stream is being opened, or the service knows it.
OpenInv ==
    /\ open \subseteq Waiting \cup tracked /\ \A r \in open : kind[r] = "open"
    /\ closing => tracked = {}
EndInv ==
    /\ told \in {0, 1} /\ (onShutdown => told = 0)
    /\ told = 1 => closing /\ pending = <<>>

FileInv ==
    FileTypes /\ StreamTypes /\ DispatchTypes /\ BufferInv /\ TableInv /\ VerdictInv /\ FreshInv /\
    OpenInv /\ EndInv

(* A request joins the table at its end. *)
LEMMA TableJoins ==
    ASSUME FileTypes, NEW r \in Ids, r = accepted + 1, accepted' = r, pending' = Append(pending, r)
    PROVE  /\ pending' \in Seq(1 .. accepted') /\ Len(pending') = Len(pending) + 1
           /\ \A i \in 1 .. Len(pending) : pending'[i] = pending[i]
           /\ pending'[Len(pending) + 1] = r
           /\ Waiting' = Waiting \cup {r} /\ r \notin Waiting /\ Distinct'
           /\ Waiting \subseteq 1 .. accepted
<1>1. pending \in Seq(1 .. accepted) /\ accepted \in Nat /\ Len(pending) \in Nat BY DEF FileTypes
<1>2. \A i \in 1 .. Len(pending) : pending[i] \in 1 .. accepted BY <1>1
<1>3. pending \in Seq(1 .. accepted') /\ r \in 1 .. accepted'
  <2>1. 1 .. accepted \subseteq 1 .. accepted' BY <1>1
  <2> QED BY <1>1, <2>1
<1>4. pending' \in Seq(1 .. accepted') BY <1>3
<1>5. Len(pending') = Len(pending) + 1 BY <1>1
<1>6. /\ \A i \in 1 .. Len(pending) : pending'[i] = pending[i]
      /\ pending'[Len(pending) + 1] = r
  BY <1>1
<1>7. Waiting \subseteq 1 .. accepted BY <1>2 DEF Waiting
<1>8. r \notin Waiting BY <1>1, <1>7
<1>9. Waiting' = Waiting \cup {r}
  <2>1. \A i \in 1 .. Len(pending') : i \in 1 .. Len(pending) \/ i = Len(pending) + 1 BY <1>1, <1>5
  <2>2. 1 .. Len(pending) \subseteq 1 .. Len(pending') /\ Len(pending) + 1 \in 1 .. Len(pending')
    BY <1>1, <1>5
  <2> QED BY <1>6, <2>1, <2>2 DEF Waiting
<1>10. Distinct'
  <2>1. SUFFICES ASSUME NEW i \in 1 .. Len(pending'), NEW j \in 1 .. Len(pending'),
                        pending'[i] = pending'[j]
                 PROVE  i = j
    BY DEF Distinct
  <2>2. i \in 1 .. Len(pending) \/ i = Len(pending) + 1 BY <1>1, <1>5
  <2>3. j \in 1 .. Len(pending) \/ j = Len(pending) + 1 BY <1>1, <1>5
  <2>4. \A k \in 1 .. Len(pending) : pending[k] # r BY <1>8 DEF Waiting
  <2> QED BY <1>6, <2>1, <2>2, <2>3, <2>4 DEF FileTypes, Distinct
<1> QED BY <1>4, <1>5, <1>6, <1>7, <1>8, <1>9, <1>10

(* The request that is delivered leaves it, and those behind move up. *)
LEMMA TableLeft ==
    ASSUME FileTypes, NEW k \in 1 .. Len(pending), UNCHANGED accepted,
           pending' = [i \in 1 .. Len(pending) - 1 |-> IF i < k THEN pending[i] ELSE pending[i + 1]]
    PROVE  /\ pending' \in Seq(1 .. accepted') /\ Len(pending') = Len(pending) - 1
           /\ \A i \in 1 .. Len(pending) - 1 :
                  pending'[i] = IF i < k THEN pending[i] ELSE pending[i + 1]
           /\ Waiting' = Waiting \ {pending[k]} /\ pending[k] \in Waiting /\ Distinct'
           /\ Waiting \subseteq 1 .. accepted
<1>1. /\ pending \in Seq(1 .. accepted) /\ accepted \in Nat
      /\ Len(pending) \in Nat /\ Len(pending) - 1 \in Nat
  BY DEF FileTypes
<1>2. \A i \in 1 .. Len(pending) : pending[i] \in 1 .. accepted BY <1>1
<1>3. Waiting \subseteq 1 .. accepted /\ pending[k] \in Waiting BY <1>2 DEF Waiting
<1>4. \A i \in 1 .. Len(pending) - 1 :
          /\ i \in 1 .. Len(pending) /\ i + 1 \in 1 .. Len(pending)
          /\ pending'[i] = IF i < k THEN pending[i] ELSE pending[i + 1]
  BY <1>1
<1>5. pending' \in Seq(1 .. accepted') /\ Len(pending') = Len(pending) - 1
  <2>1. \A i \in 1 .. Len(pending) - 1 :
            (IF i < k THEN pending[i] ELSE pending[i + 1]) \in 1 .. accepted
    BY <1>2, <1>4
  <2>2. pending' \in [1 .. Len(pending) - 1 -> 1 .. accepted] BY <2>1
  <2> QED BY <1>1, <2>2
<1>6. ASSUME NEW i \in 1 .. Len(pending) - 1, NEW j \in 1 .. Len(pending) - 1,
             pending'[i] = pending'[j]
      PROVE  i = j
  <2> DEFINE OldPlace(n) == IF n < k THEN n ELSE n + 1
  <2>1. OldPlace(i) \in 1 .. Len(pending) /\ OldPlace(j) \in 1 .. Len(pending) BY <1>4
  <2>2. pending'[i] = pending[OldPlace(i)] /\ pending'[j] = pending[OldPlace(j)] BY <1>4
  <2>3. OldPlace(i) = OldPlace(j)
    <3> HIDE DEF OldPlace
    <3>1. \A a, b \in 1 .. Len(pending) : pending[a] = pending[b] => a = b BY DEF FileTypes, Distinct
    <3>2. pending[OldPlace(i)] = pending[OldPlace(j)] BY <1>6, <2>2
    <3> QED BY <2>1, <3>1, <3>2
  <2>4. k \in Int /\ i \in Int /\ j \in Int BY <1>1
  <2> QED BY <2>3, <2>4
<1>7. Waiting' = Waiting \ {pending[k]}
  <2>1. Waiting' = {pending'[i] : i \in 1 .. Len(pending) - 1} BY <1>5 DEF Waiting
  <2>2. ASSUME NEW i \in 1 .. Len(pending) - 1 PROVE pending'[i] \in Waiting \ {pending[k]}
    <3> DEFINE n == IF i < k THEN i ELSE i + 1
    <3>1. n \in 1 .. Len(pending) /\ pending'[i] = pending[n] BY <1>4
    <3>2. n # k BY <1>1
    <3> HIDE DEF n
    <3> QED BY <3>1, <3>2 DEF Waiting, FileTypes, Distinct
  <2>3. ASSUME NEW n \in 1 .. Len(pending), n # k
        PROVE  \E i \in 1 .. Len(pending) - 1 : pending'[i] = pending[n]
    <3>1. CASE n < k
      <4>1. n \in 1 .. Len(pending) - 1 BY <1>1, <3>1
      <4> QED BY <1>4, <3>1, <4>1
    <3>2. CASE n > k
      <4>1. n - 1 \in 1 .. Len(pending) - 1 /\ ~(n - 1 < k) /\ n - 1 + 1 = n BY <1>1, <3>2
      <4> QED BY <1>4, <4>1
    <3> QED BY <1>1, <2>3, <3>1, <3>2
  <2>4. Waiting' \subseteq Waiting \ {pending[k]} BY <2>1, <2>2
  <2>5. ASSUME NEW x \in Waiting, x # pending[k] PROVE x \in Waiting'
    <3>1. PICK n \in 1 .. Len(pending) : x = pending[n] BY DEF Waiting
    <3>2. n # k BY <2>5, <3>1
    <3> QED BY <2>1, <2>3, <3>1, <3>2
  <2> QED BY <2>4, <2>5
<1> QED BY <1>3, <1>4, <1>5, <1>6, <1>7 DEF Distinct

\* What the owner's calls and the backends leave of a dispatch.
LEMMA SubmitKeeps ==
    ASSUME FileInv, NEW what \in Kinds, NEW bytes \in Nat, NEW stream \in Nat,
           NEW r, r = accepted + 1, Submit(what, bytes, stream), held' \subseteq held \cup {r}
    PROVE  FileInv'
<1> USE DEF FileInv
<1>1. /\ accepted \in Nat /\ r \in Ids /\ accepted' = r /\ pending' = Append(pending, r)
      /\ 1 .. accepted \subseteq 1 .. r /\ accepted < MaxIds
  BY FileServiceAssumption DEF Submit, Ids, FileTypes
<1>2. /\ pending' \in Seq(1 .. accepted') /\ Len(pending') = Len(pending) + 1
      /\ \A i \in 1 .. Len(pending) : pending'[i] = pending[i]
      /\ pending'[Len(pending) + 1] = r
      /\ Waiting' = Waiting \cup {r} /\ r \notin Waiting /\ Distinct'
      /\ Waiting \subseteq 1 .. accepted
  BY <1>1, TableJoins
<1>3. /\ kind' = [kind EXCEPT ![r] = what] /\ size' = [size EXCEPT ![r] = bytes]
      /\ source' = [source EXCEPT ![r] = stream] /\ reserved' = reserved + bytes
      /\ working' = working \cup {r}
      /\ fresh' = IF pc = "callback" THEN fresh \cup {r} ELSE fresh
      /\ ~closing /\ bytes <= MaxBuffer - reserved /\ Len(pending) < MaxRequests
      /\ pc \in {"idle", "callback"}
      /\ UNCHANGED <<index, completed, cancelled, closing, onShutdown, open, tracked, pc, visits, place,
                     room, outcome, verdict, told>>
  BY DEF Submit, Affordable, HostRuns, dispatch
<1>4. Len(pending) \in Nat /\ MaxRequests \in Nat /\ r = accepted + 1 /\ r \notin 1 .. accepted
  BY <1>1, FileServiceAssumption DEF FileTypes, FileServiceAssumption
<1>5. FileTypes'
  <2>1. kind' \in [Ids -> Kinds \cup {"none"}] BY <1>1, <1>3 DEF FileTypes
  <2>2. size' \in [Ids -> Nat] /\ source' \in [Ids -> Nat] BY <1>1, <1>3 DEF FileTypes
  <2>3. accepted' \in 0 .. MaxIds BY <1>1, <1>4, FileServiceAssumption
  <2>4. Len(pending') <= MaxRequests BY <1>2, <1>3, <1>4
  <2> QED BY <1>2, <1>3, <2>1, <2>2, <2>3, <2>4 DEF FileTypes
<1>6. StreamTypes'
  <2>1. r \in 1 .. r BY <1>1, <1>4
  <2> QED BY <1>1, <1>3, <1>4, <2>1 DEF StreamTypes
<1>7. DispatchTypes' BY <1>2, <1>3, <1>4 DEF DispatchTypes
<1>8. BufferInv'
  <2>1. IsFiniteSet(Waiting) /\ IsFiniteSet(Waiting \cup {r})
    <3>1. IsFiniteSet(1 .. accepted) BY <1>1, FS_Interval
    <3> QED BY <1>2, <3>1, FS_Subset, FS_AddElement
  <2>2. size \in [Ids -> Nat] /\ size' \in [Ids -> Nat] BY <1>5 DEF FileTypes
  <2>3. Waiting \in SUBSET Ids /\ Waiting \cup {r} \in SUBSET Ids
    BY <1>1, <1>2, FileServiceAssumption DEF Ids, FileServiceAssumption
  <2>4. Total(size', Waiting \cup {r}) = size'[r] + Total(size', (Waiting \cup {r}) \ {r})
    BY <2>1, <2>2, <2>3, TotalWithout
  <2>5. (Waiting \cup {r}) \ {r} = Waiting BY <1>2
  <2>6. \A x \in Waiting : size'[x] = size[x] BY <1>2, <1>3, <2>2, <2>3
  <2>7. Total(size', Waiting) = Total(size, Waiting) BY <2>1, <2>2, <2>3, <2>6, TotalAlike
  <2>8. Total(size, Waiting) \in Nat BY <2>1, <2>2, <2>3, TotalStep
  <2>9. size'[r] = bytes BY <1>1, <1>3, <2>2
  <2>12. reserved = Total(size, Waiting) BY DEF BufferInv
  <2>13. Total(size', Waiting \cup {r}) = bytes + Total(size, Waiting) BY <2>4, <2>5, <2>7, <2>9
  <2>10. reserved' = Total(size', Waiting \cup {r}) BY <1>3, <2>8, <2>12, <2>13
  <2>11. reserved' <= MaxBuffer BY <1>3, <2>8, FileServiceAssumption DEF BufferInv, FileServiceAssumption
  <2> QED BY <1>2, <2>10, <2>11 DEF BufferInv
<1>9. outcome[r] = "none" /\ verdict[r] = "none" /\ index[r] = 1 /\ completed[r] = "none"
  <2>1. outcome[r] = "none" /\ verdict[r] = "none" /\ index[r] = 1 BY <1>1, <1>4 DEF TableInv
  <2>2. completed[r] = "none" BY <1>1, <1>2 DEF TableInv
  <2> QED BY <2>1, <2>2
<1>10. \A x \in Ids \ {r} : kind'[x] = kind[x] /\ Backends(x)' = Backends(x)
                            /\ (Settled(x)' <=> Settled(x))
  BY <1>3 DEF FileTypes, Backends, Settled, FallsBack
<1>11. TableInv'
  <2>1. \A x \in 1 .. accepted' : x \notin Waiting' <=> outcome'[x] # "none"
    <3>1. \A x \in 1 .. accepted' : x \in 1 .. accepted \/ x = r BY <1>1, <1>4
    <3> QED BY <1>2, <1>3, <1>9, <3>1 DEF TableInv
  <2>2. \A x \in Ids : x > accepted' => outcome'[x] = "none" /\ verdict'[x] = "none" /\ index'[x] = 1
    <3>1. \A x \in Ids : x > accepted' => x > accepted
      BY <1>1, <1>4, FileServiceAssumption DEF Ids, FileServiceAssumption
    <3> QED BY <1>3, <3>1 DEF TableInv
  <2>3. working' \subseteq Waiting' BY <1>2, <1>3 DEF TableInv
  <2>4. \A x \in Ids : completed'[x] # "none" => x \in Waiting' /\ x \notin working'
    BY <1>2, <1>3, <1>9 DEF TableInv
  <2>5. \A x \in Ids : index'[x] <= Backends(x)'
    <3>1. index'[r] <= Backends(r)'
      BY <1>3, <1>9, FileServiceAssumption DEF Backends, FileServiceAssumption
    <3> QED BY <1>3, <1>10, <3>1 DEF TableInv
  <2> QED BY <2>1, <2>2, <2>3, <2>4, <2>5 DEF TableInv
<1>12. VerdictInv'
  <2>1. cancelled' \subseteq Waiting' /\ \A x \in cancelled' : verdict'[x] = "granted"
    BY <1>2, <1>3 DEF VerdictInv
  <2>2. Waiting \subseteq Ids \ {r}
    BY <1>1, <1>2, FileServiceAssumption DEF Ids, FileServiceAssumption
  <2>3. \A x \in Waiting' : /\ verdict'[x] = "granted" => x \in cancelled'
                            /\ verdict'[x] = "refused" => Settled(x)' /\ x \notin cancelled'
    BY <1>2, <1>3, <1>9, <1>10, <2>2 DEF VerdictInv
  <2>4. \A x \in Ids : /\ verdict'[x] = "granted" => outcome'[x] \in {"none", "cancelled"}
                       /\ verdict'[x] = "refused" /\ kind'[x] # "open" => outcome'[x] # "cancelled"
                       /\ outcome'[x] = "not_found" => index'[x] = Backends(x)'
    BY <1>3, <1>9, <1>10 DEF VerdictInv
  <2> QED BY <2>1, <2>3, <2>4 DEF VerdictInv
<1>13. FreshInv'
  <2>1. pc' = "idle" => fresh' = {} BY <1>3 DEF FreshInv
  <2>2. fresh' \subseteq Waiting' BY <1>2, <1>3 DEF FreshInv
  <2>3. ASSUME NEW i \in 1 .. Len(pending'), pending'[i] \in fresh' PROVE i >= place' + visits'
    <3>1. CASE i \in 1 .. Len(pending)
      <4>1. pending[i] \in Waiting BY <3>1 DEF Waiting
      <4>2. pending[i] \in fresh BY <1>2, <1>3, <2>3, <3>1, <4>1
      <4> QED BY <1>3, <3>1, <4>2 DEF FreshInv
    <3>2. CASE i = Len(pending) + 1
      BY <1>3, <1>4, <3>2 DEF DispatchTypes
    <3> QED BY <1>2, <1>4, <3>1, <3>2
  <2> QED BY <2>1, <2>2, <2>3 DEF FreshInv
<1>14. OpenInv' BY <1>1, <1>2, <1>3, <1>4, <1>10, FileServiceAssumption
               DEF OpenInv, StreamTypes, Ids, FileServiceAssumption
<1>15. EndInv' BY <1>3 DEF EndInv
<1> QED BY <1>5, <1>6, <1>7, <1>8, <1>11, <1>12, <1>13, <1>14, <1>15

LEMMA CancelsKeep ==
    ASSUME FileInv, NEW all, CancelAll(all), closing' \in BOOLEAN, onShutdown' \in BOOLEAN,
           UNCHANGED <<requests, pending, progress, reserved, dispatch, outcome, fresh, told>>,
           StreamTypes', OpenInv', EndInv'
    PROVE  FileInv'
<1> USE DEF FileInv
<1>1. UNCHANGED <<accepted, kind, size, source, pending, working, index, completed, reserved, pc, visits,
                  place, room, outcome, fresh, told>>
  BY DEF requests, progress, dispatch
<1>2. Waiting' = Waiting /\ Waiting \subseteq Ids
  <2>1. pending \in Seq(1 .. accepted) /\ 1 .. accepted \subseteq Ids
    BY FileServiceAssumption DEF FileTypes, Ids, FileServiceAssumption
  <2>2. \A i \in 1 .. Len(pending) : pending[i] \in 1 .. accepted BY DEF FileTypes
  <2> QED BY <1>1, <2>1, <2>2 DEF Waiting
<1>3. \A x \in Ids : (Settled(x)' <=> Settled(x)) /\ Backends(x)' = Backends(x)
  BY <1>1 DEF Settled, FallsBack, Backends
<1> DEFINE heard == {x \in all \cap Waiting : ~Settled(x)}
           late == (all \cap Waiting) \ (heard \cup cancelled)
<1>4. cancelled' = cancelled \cup heard BY DEF CancelAll
<1>5. verdict' = [x \in Ids |-> CASE x \in heard -> "granted" [] x \in late -> "refused"
                                  [] OTHER -> verdict[x]]
  BY DEF CancelAll
<1>6. /\ \A x \in heard : x \in Waiting /\ ~Settled(x) /\ x \notin late
      /\ \A x \in late : x \in Waiting /\ Settled(x) /\ x \notin cancelled /\ x \notin heard
  OBVIOUS
<1> HIDE DEF heard, late
<1>7. \A x \in Ids : /\ x \in heard => verdict'[x] = "granted"
                     /\ x \in late => verdict'[x] = "refused"
                     /\ x \notin heard /\ x \notin late => verdict'[x] = verdict[x]
  BY <1>5, <1>6
<1>8. FileTypes'
  <2>1. verdict' \in [Ids -> {"none", "granted", "refused"}]
    <3>1. \A x \in Ids : verdict'[x] \in {"none", "granted", "refused"} BY <1>7 DEF FileTypes
    <3>2. verdict' = [x \in Ids |-> verdict'[x]] BY <1>5
    <3> QED BY <3>1, <3>2
  <2> QED BY <1>1, <2>1 DEF FileTypes, Distinct
<1>9. DispatchTypes' BY <1>1 DEF DispatchTypes
<1>10. BufferInv' BY <1>1, <1>2 DEF BufferInv
<1>11. TableInv'
  <2>1. \A x \in Ids : x > accepted => x \notin Waiting
    <3>1. \A i \in 1 .. Len(pending) : pending[i] \in 1 .. accepted BY DEF FileTypes
    <3> QED BY <3>1, FileServiceAssumption DEF Waiting, FileTypes, Ids, FileServiceAssumption
  <2>2. \A x \in Ids : x > accepted => verdict'[x] = "none" BY <1>6, <1>7, <2>1 DEF TableInv
  <2>3. \A x \in Ids : index'[x] <= Backends(x)' BY <1>1, <1>3 DEF TableInv
  <2> QED BY <1>1, <1>2, <2>2, <2>3 DEF TableInv
<1>12. VerdictInv'
  <2>1. cancelled' \subseteq Waiting' /\ \A x \in cancelled' : verdict'[x] = "granted"
    BY <1>2, <1>4, <1>6, <1>7 DEF VerdictInv
  <2>2. \A x \in Waiting' : /\ verdict'[x] = "granted" => x \in cancelled'
                            /\ verdict'[x] = "refused" => Settled(x)' /\ x \notin cancelled'
    BY <1>2, <1>3, <1>4, <1>6, <1>7 DEF VerdictInv
  <2>3. \A x \in Waiting : outcome[x] = "none"
    <3>1. Waiting \subseteq 1 .. accepted
      BY DEF FileTypes, Waiting
    <3> QED BY <3>1 DEF TableInv
  <2>4. \A x \in Ids : /\ verdict'[x] = "granted" => outcome'[x] \in {"none", "cancelled"}
                       /\ verdict'[x] = "refused" /\ kind'[x] # "open" => outcome'[x] # "cancelled"
                       /\ outcome'[x] = "not_found" => index'[x] = Backends(x)'
    BY <1>1, <1>3, <1>6, <1>7, <2>3 DEF VerdictInv
  <2> QED BY <2>1, <2>2, <2>4 DEF VerdictInv
<1>13. FreshInv' BY <1>1, <1>2 DEF FreshInv
<1> QED BY <1>8, <1>9, <1>10, <1>11, <1>12, <1>13

LEMMA OwnerKeeps ==
    ASSUME FileInv, Shutdown \/ \E r \in Ids : Cancel(r) \/ DropStream(r) PROVE FileInv'
<1> USE DEF FileInv
<1>1. CASE \E r \in Ids : Cancel(r)
  <2>1. PICK r \in Ids : Cancel(r) BY <1>1
  <2>2. CancelAll({r}) /\ open' \subseteq open /\ UNCHANGED <<held, tracked, closing, onShutdown, told,
            pending, kind, accepted>>
    BY <2>1 DEF Cancel, requests
  <2>3. StreamTypes' /\ OpenInv' /\ EndInv' BY <2>2 DEF StreamTypes, OpenInv, EndInv, Waiting
  <2>4. closing' \in BOOLEAN /\ onShutdown' \in BOOLEAN BY <2>2 DEF FileTypes
  <2>5. UNCHANGED <<requests, pending, progress, reserved, dispatch, outcome, fresh, told>>
    BY <2>1 DEF Cancel
  <2> QED BY <2>2, <2>3, <2>4, <2>5, CancelsKeep
<1>2. CASE \E r \in Ids : DropStream(r)
  <2>1. PICK r \in Ids : DropStream(r) BY <1>2
  <2> DEFINE mine == {x \in Waiting : x = r \/ source[x] = r}
  <2>2. CancelAll(mine) /\ open' \subseteq open /\ held' \subseteq held
        /\ UNCHANGED <<tracked, closing, onShutdown, told, pending, kind, accepted>>
    BY <2>1 DEF DropStream, requests
  <2>3. StreamTypes' /\ OpenInv' /\ EndInv' BY <2>2 DEF StreamTypes, OpenInv, EndInv, Waiting
  <2>4. closing' \in BOOLEAN /\ onShutdown' \in BOOLEAN BY <2>2 DEF FileTypes
  <2>5. UNCHANGED <<requests, pending, progress, reserved, dispatch, outcome, fresh, told>>
    BY <2>1 DEF DropStream
  <2> HIDE DEF mine
  <2> QED BY <2>2, <2>3, <2>4, <2>5, CancelsKeep
<1>3. CASE Shutdown
  <2>1. CancelAll(Waiting) /\ open' \subseteq open \ tracked /\ tracked' = {} /\ closing' = TRUE
        /\ onShutdown' = TRUE /\ ~closing /\ UNCHANGED <<held, told, pending, kind, accepted>>
    BY <1>3 DEF Shutdown, requests
  <2>2. StreamTypes' /\ OpenInv' BY <2>1 DEF StreamTypes, OpenInv, Waiting
  <2>3. EndInv' BY <2>1 DEF EndInv
  <2>4. UNCHANGED <<requests, pending, progress, reserved, dispatch, outcome, fresh, told>>
    BY <1>3 DEF Shutdown
  <2> QED BY <2>1, <2>2, <2>3, <2>4, CancelsKeep
<1> QED BY <1>1, <1>2, <1>3

LEMMA BackendKeeps ==
    ASSUME FileInv, NEW r \in Ids, NEW result \in Results, Complete(r, result) PROVE FileInv'
<1> USE DEF FileInv
<1>1. /\ r \in working /\ working' = working \ {r} /\ completed' = [completed EXCEPT ![r] = result]
      /\ open' = IF kind[r] = "open" /\ result = "success" THEN open \cup {r} ELSE open
      /\ UNCHANGED <<accepted, kind, size, source, pending, index, cancelled, reserved, closing,
                     onShutdown, held, tracked, pc, visits, place, room, outcome, verdict, fresh, told>>
  BY DEF Complete, requests, dispatch, history
<1>2. Waiting' = Waiting /\ Waiting \subseteq 1 .. accepted /\ r \in Waiting
  <2>1. \A i \in 1 .. Len(pending) : pending[i] \in 1 .. accepted BY DEF FileTypes
  <2> QED BY <1>1, <2>1 DEF Waiting, TableInv
<1>3. FileTypes'
  <2>1. completed' \in [Ids -> Results \cup {"none"}] BY <1>1 DEF FileTypes
  <2> QED BY <1>1, <2>1 DEF FileTypes, Distinct
<1>4. StreamTypes' /\ DispatchTypes' BY <1>1, <1>2 DEF StreamTypes, DispatchTypes
<1>5. BufferInv' BY <1>1, <1>2 DEF BufferInv
<1>6. completed \in [Ids -> Results \cup {"none"}] BY DEF FileTypes
<1>7. TableInv'
  <2>1. \A x \in Ids : index'[x] <= Backends(x)' BY <1>1 DEF TableInv, Backends
  <2>2. result # "none" BY DEF Results
  <2>3. \A x \in Ids : completed'[x] # "none" => x \in Waiting' /\ x \notin working'
    BY <1>1, <1>2, <1>6 DEF TableInv
  <2>4. working' \subseteq Waiting' BY <1>1, <1>2 DEF TableInv
  <2> QED BY <1>1, <1>2, <2>1, <2>3, <2>4 DEF TableInv
<1>8. VerdictInv'
  <2>1. \A x \in Ids \ {r} : (Settled(x)' <=> Settled(x)) /\ Backends(x)' = Backends(x)
    BY <1>1, <1>6 DEF Settled, FallsBack, Backends
  <2>2. Backends(r)' = Backends(r) BY <1>1 DEF Backends
  <2>3. ~Settled(r) BY <1>1 DEF Settled, TableInv
  <2>4. \A x \in Waiting' : /\ verdict'[x] = "granted" => x \in cancelled'
                            /\ verdict'[x] = "refused" => Settled(x)' /\ x \notin cancelled'
    <3>1. verdict[r] # "refused" BY <1>2, <2>3 DEF VerdictInv
    <3>2. \A x \in Waiting : x \in Ids
      BY <1>2, FileServiceAssumption DEF Ids, FileTypes, FileServiceAssumption
    <3> QED BY <1>1, <1>2, <2>1, <3>1, <3>2 DEF VerdictInv
  <2>5. \A x \in Ids : /\ verdict'[x] = "granted" => outcome'[x] \in {"none", "cancelled"}
                       /\ verdict'[x] = "refused" /\ kind'[x] # "open" => outcome'[x] # "cancelled"
                       /\ outcome'[x] = "not_found" => index'[x] = Backends(x)'
    BY <1>1, <2>1, <2>2 DEF VerdictInv
  <2>6. cancelled' \subseteq Waiting' /\ \A x \in cancelled' : verdict'[x] = "granted"
    BY <1>1, <1>2 DEF VerdictInv
  <2> QED BY <2>4, <2>5, <2>6 DEF VerdictInv
<1>9. FreshInv' BY <1>1, <1>2 DEF FreshInv
<1>10. OpenInv' BY <1>1, <1>2 DEF OpenInv
<1>11. EndInv' BY <1>1 DEF EndInv
<1> QED BY <1>3, <1>4, <1>5, <1>7, <1>8, <1>9, <1>10, <1>11

(* What a dispatch does that does not deliver. *)
LEMMA VisitsKeep ==
    ASSUME FileInv, StartDispatch \/ Skip \/ EndCallback \/ EndDispatch PROVE FileInv'
<1> USE DEF FileInv
<1>1. UNCHANGED <<accepted, kind, size, source, pending, working, index, completed, cancelled, reserved,
                  closing, open, held, tracked, outcome, verdict>>
  BY DEF StartDispatch, BeginDispatch, Skip, EndCallback, EndDispatch, requests, progress, streams,
         history
<1>2. Waiting' = Waiting BY <1>1 DEF Waiting
<1>3. StreamTypes' BY <1>1 DEF StreamTypes
<1>4. BufferInv' BY <1>1, <1>2 DEF BufferInv
<1>5. \A x \in Ids : (Settled(x)' <=> Settled(x)) /\ Backends(x)' = Backends(x)
  BY <1>1 DEF Settled, FallsBack, Backends
<1>6. TableInv' BY <1>1, <1>2, <1>5 DEF TableInv
<1>7. VerdictInv'
  <2>1. Waiting \subseteq Ids
    <3>1. \A i \in 1 .. Len(pending) : pending[i] \in 1 .. accepted BY DEF FileTypes
    <3> QED BY <3>1, FileServiceAssumption DEF Waiting, FileTypes, Ids, FileServiceAssumption
  <2> QED BY <1>1, <1>2, <1>5, <2>1 DEF VerdictInv
<1>8. OpenInv' BY <1>1, <1>2 DEF OpenInv
<1>9. Len(pending) \in Nat BY DEF FileTypes
<1>10. CASE StartDispatch
  <2>1. PICK budget \in Budgets : /\ pc = "idle" /\ pc' = "visiting" /\ visits' = Len(pending)
                                  /\ place' = 1 /\ room' = budget
                                  /\ UNCHANGED <<onShutdown, fresh, told>>
    BY <1>10 DEF StartDispatch, BeginDispatch, history
  <2>2. budget \in Nat BY FileServiceAssumption DEF FileServiceAssumption
  <2>3. DispatchTypes' BY <1>1, <1>9, <2>1, <2>2 DEF DispatchTypes
  <2>4. FreshInv' BY <1>1, <1>2, <2>1 DEF FreshInv
  <2>5. EndInv' BY <1>1, <2>1 DEF EndInv
  <2>6. FileTypes' BY <1>1, <2>1 DEF FileTypes, Distinct
  <2> QED BY <1>3, <1>4, <1>6, <1>7, <1>8, <2>3, <2>4, <2>5, <2>6
<1>11. CASE Skip
  <2>1. /\ pc = "visiting" /\ visits > 0 /\ visits' = visits - 1 /\ place' = place + 1
        /\ UNCHANGED <<pc, room, onShutdown, fresh, told>>
    BY <1>11 DEF Skip, Visiting, history
  <2>2. place \in Nat /\ visits \in Nat /\ place + visits <= Len(pending) + 1
    BY <1>9 DEF DispatchTypes
  <2>3. DispatchTypes' BY <1>1, <1>9, <2>1, <2>2 DEF DispatchTypes
  <2>4. place' + visits' = place + visits BY <2>1, <2>2
  <2>5. FreshInv' BY <1>1, <1>2, <2>1, <2>4 DEF FreshInv
  <2>6. EndInv' BY <1>1, <2>1 DEF EndInv
  <2>7. FileTypes' BY <1>1, <2>1 DEF FileTypes, Distinct
  <2> QED BY <1>3, <1>4, <1>6, <1>7, <1>8, <2>3, <2>5, <2>6, <2>7
<1>12. CASE EndCallback
  <2>1. pc' = "visiting" /\ UNCHANGED <<visits, place, room, onShutdown, fresh, told>>
    BY <1>12 DEF EndCallback, history
  <2>2. DispatchTypes' /\ FreshInv' BY <1>1, <1>2, <2>1 DEF DispatchTypes, FreshInv
  <2>3. EndInv' /\ FileTypes' BY <1>1, <2>1 DEF EndInv, FileTypes, Distinct
  <2> QED BY <1>3, <1>4, <1>6, <1>7, <1>8, <2>2, <2>3
<1>13. CASE EndDispatch
  <2>1. /\ pc' = "idle" /\ visits' = 0 /\ place' = 1 /\ room' = 0 /\ fresh' = {}
        /\ \/ closing /\ pending = <<>> /\ onShutdown /\ onShutdown' = FALSE /\ told' = told + 1
           \/ UNCHANGED <<onShutdown, told>>
    BY <1>13 DEF EndDispatch
  <2>2. DispatchTypes' /\ FreshInv' BY <1>1, <1>2, <1>9, <2>1 DEF DispatchTypes, FreshInv
  <2>4. EndInv' BY <1>1, <2>1 DEF EndInv
  <2>5. onShutdown' \in BOOLEAN BY <2>1 DEF FileTypes
  <2>6. Distinct' BY <1>1 DEF FileTypes, Distinct
  <2>3. EndInv' /\ FileTypes' BY <1>1, <2>4, <2>5, <2>6 DEF FileTypes
  <2> QED BY <1>3, <1>4, <1>6, <1>7, <1>8, <2>2, <2>3
<1> QED BY <1>10, <1>11, <1>12, <1>13

LEMMA PlaceHolds ==
    ASSUME FileInv, Visiting
    PROVE  /\ place \in 1 .. Len(pending) /\ pending[place] \in Waiting /\ pending[place] \in Ids
           /\ Waiting \subseteq 1 .. accepted /\ Waiting \subseteq Ids /\ 1 .. accepted \subseteq Ids
<1> USE DEF FileInv
<1>1. place \in 1 .. Len(pending) BY DEF Visiting, DispatchTypes, FileTypes
<1>2. \A i \in 1 .. Len(pending) : pending[i] \in 1 .. accepted BY DEF FileTypes
<1>3. 1 .. accepted \subseteq Ids BY FileServiceAssumption DEF FileTypes, Ids, FileServiceAssumption
<1> QED BY <1>1, <1>2, <1>3 DEF Waiting

(* The next reader is asked. *)
LEMMA FallBackKeeps ==
    ASSUME FileInv, FallBack PROVE FileInv'
<1> USE DEF FileInv
<1>1. PICK r : r = pending[place] OBVIOUS
<1>2. /\ Visiting /\ completed[r] = "not_found" /\ index[r] < Backends(r) /\ r \notin cancelled
      /\ completed' = [completed EXCEPT ![r] = "none"] /\ index' = [index EXCEPT ![r] = index[r] + 1]
      /\ working' = working \cup {r} /\ visits' = visits - 1 /\ place' = place + 1
      /\ UNCHANGED <<accepted, kind, size, source, pending, cancelled, reserved, closing, onShutdown,
                     open, held, tracked, pc, room, outcome, verdict, fresh, told>>
  BY <1>1 DEF FallBack, FallsBack, requests, streams, history
<1>3. /\ r \in Waiting /\ r \in Ids /\ Waiting \subseteq 1 .. accepted /\ Waiting \subseteq Ids
      /\ Waiting' = Waiting
  BY <1>1, <1>2, PlaceHolds DEF Waiting
<1>4. index[r] \in Nat /\ index[r] >= 1 /\ Backends(r) \in Nat /\ Backends(r) <= Readers /\ Readers \in Nat
  BY <1>3, FileServiceAssumption DEF FileTypes, Backends, FileServiceAssumption
<1>5. FileTypes'
  <2>1. completed' \in [Ids -> Results \cup {"none"}] BY <1>2, <1>3 DEF FileTypes
  <2>2. index[r] + 1 \in 1 .. Readers BY <1>2, <1>4
  <2>3. index' \in [Ids -> 1 .. Readers] BY <1>2, <1>3, <2>2 DEF FileTypes
  <2> QED BY <1>2, <2>1, <2>3 DEF FileTypes, Distinct
<1>6. StreamTypes' BY <1>2 DEF StreamTypes
<1>7. Len(pending) \in Nat /\ place \in Nat /\ visits \in Nat /\ visits > 0
      /\ place + visits <= Len(pending) + 1
  BY <1>2 DEF FileTypes, DispatchTypes, Visiting
<1>8. DispatchTypes' BY <1>2, <1>7 DEF DispatchTypes
<1>9. BufferInv' BY <1>2, <1>3 DEF BufferInv
<1>10. completed \in [Ids -> Results \cup {"none"}] /\ index \in [Ids -> 1 .. Readers] BY DEF FileTypes
<1>11. \A x \in Ids : Backends(x)' = Backends(x) BY <1>2 DEF Backends
<1>12. \A x \in Ids \ {r} : (Settled(x)' <=> Settled(x)) /\ index'[x] = index[x] /\ completed'[x] = completed[x]
  BY <1>2, <1>10 DEF Settled, FallsBack, Backends
<1>13. completed'[r] = "none" /\ index'[r] = index[r] + 1 BY <1>2, <1>3, <1>10
<1>14. outcome[r] = "none" BY <1>3 DEF TableInv
<1>15. TableInv'
  <2>1. \A x \in Ids : x > accepted' => outcome'[x] = "none" /\ verdict'[x] = "none" /\ index'[x] = 1
    <3>1. ~(r > accepted) BY <1>3 DEF FileTypes
    <3> QED BY <1>2, <1>12, <3>1 DEF TableInv
  <2>2. working' \subseteq Waiting' BY <1>2, <1>3 DEF TableInv
  <2>3. \A x \in Ids : completed'[x] # "none" => x \in Waiting' /\ x \notin working'
    BY <1>2, <1>3, <1>12, <1>13 DEF TableInv
  <2>4. \A x \in Ids : index'[x] <= Backends(x)'
    <3>1. index'[r] <= Backends(r) BY <1>2, <1>4, <1>13
    <3> QED BY <1>11, <1>12, <3>1 DEF TableInv
  <2> QED BY <1>2, <1>3, <2>1, <2>2, <2>3, <2>4 DEF TableInv
<1>16. VerdictInv'
  <2>1. verdict[r] # "refused" BY <1>2, <1>3 DEF VerdictInv, Settled, FallsBack
  <2>2. \A x \in Waiting' : /\ verdict'[x] = "granted" => x \in cancelled'
                            /\ verdict'[x] = "refused" => Settled(x)' /\ x \notin cancelled'
    BY <1>2, <1>3, <1>12, <2>1 DEF VerdictInv
  <2>3. \A x \in Ids : /\ verdict'[x] = "granted" => outcome'[x] \in {"none", "cancelled"}
                       /\ verdict'[x] = "refused" /\ kind'[x] # "open" => outcome'[x] # "cancelled"
                       /\ outcome'[x] = "not_found" => index'[x] = Backends(x)'
    BY <1>2, <1>11, <1>12, <1>14 DEF VerdictInv
  <2>4. cancelled' \subseteq Waiting' /\ \A x \in cancelled' : verdict'[x] = "granted"
    BY <1>2, <1>3 DEF VerdictInv
  <2> QED BY <2>2, <2>3, <2>4 DEF VerdictInv
<1>17. FreshInv'
  <2>1. place' + visits' = place + visits BY <1>2, <1>7
  <2> QED BY <1>2, <1>3, <2>1 DEF FreshInv
<1>18. OpenInv' /\ EndInv' BY <1>2, <1>3 DEF OpenInv, EndInv
<1> QED BY <1>5, <1>6, <1>8, <1>9, <1>15, <1>16, <1>17, <1>18

(* A request is called back. *)
LEMMA DeliverKeeps ==
    ASSUME FileInv, Deliver PROVE FileInv'
<1> USE DEF FileInv
<1>1. PICK r : r = pending[place] OBVIOUS
<1>2. PICK told1 : told1 = Outcome(r) OBVIOUS
<1>3. /\ Visiting /\ completed[r] # "none" /\ (r \in cancelled \/ ~FallsBack(r))
      /\ outcome' = [outcome EXCEPT ![r] = told1]
      /\ pending' = [i \in 1 .. Len(pending) - 1 |->
                         IF i < place THEN pending[i] ELSE pending[i + 1]]
      /\ reserved' = reserved - size[r]
      /\ size' = [size EXCEPT ![r] = 0] /\ source' = [source EXCEPT ![r] = 0]
      /\ completed' = [completed EXCEPT ![r] = "none"] /\ cancelled' = cancelled \ {r}
      /\ open' = open \ ClosedBy(r)
      /\ held' \subseteq held
      /\ tracked' = IF kind[r] = "open" /\ told1 = "success" THEN tracked \cup {r} ELSE tracked
      /\ pc' = "callback" /\ visits' = visits - 1 /\ room' = room - 1
      /\ UNCHANGED <<accepted, kind, working, index, closing, onShutdown, place, verdict, fresh, told>>
  BY <1>1, <1>2 DEF Deliver
<1>4. place \in 1 .. Len(pending) /\ r \in Ids /\ Waiting \subseteq Ids /\ 1 .. accepted \subseteq Ids
  BY <1>1, <1>3, PlaceHolds
<1>5. /\ pending' \in Seq(1 .. accepted') /\ Len(pending') = Len(pending) - 1
      /\ \A i \in 1 .. Len(pending) - 1 :
             pending'[i] = IF i < place THEN pending[i] ELSE pending[i + 1]
      /\ Waiting' = Waiting \ {r} /\ r \in Waiting /\ Distinct'
      /\ Waiting \subseteq 1 .. accepted
  BY <1>1, <1>3, <1>4, TableLeft
<1>6. /\ told1 \in Results \cup {"cancelled"} /\ (r \in cancelled => told1 = "cancelled")
      /\ r \notin cancelled /\ kind[r] # "open" => told1 = completed[r]
      /\ told1 # "cancelled" => told1 = completed[r] /\ r \notin cancelled
      /\ kind[r] = "open" /\ told1 = "success" => ~closing
  <2>1. completed[r] \in Results BY <1>3, <1>4 DEF FileTypes
  <2> QED BY <1>2, <2>1 DEF Outcome, Results
<1>7. Len(pending) \in Nat /\ MaxRequests \in Nat
  BY FileServiceAssumption DEF FileTypes, FileServiceAssumption
<1>8. FileTypes'
  <2>1. completed' \in [Ids -> Results \cup {"none"}] BY <1>3, <1>4 DEF FileTypes
  <2>2. outcome' \in [Ids -> Results \cup {"none", "cancelled"}] BY <1>3, <1>4, <1>6 DEF FileTypes
  <2>3. size' \in [Ids -> Nat] /\ source' \in [Ids -> Nat] BY <1>3, <1>4 DEF FileTypes
  <2>4. Len(pending') <= MaxRequests BY <1>5, <1>7 DEF FileTypes
  <2> QED BY <1>3, <1>5, <2>1, <2>2, <2>3, <2>4 DEF FileTypes
<1>9. StreamTypes' BY <1>3, <1>5 DEF StreamTypes
<1>10. /\ place \in Nat /\ place >= 1 /\ visits \in Nat /\ visits > 0 /\ room \in Nat /\ room > 0
       /\ place + visits <= Len(pending) + 1
  BY <1>3, <1>7 DEF DispatchTypes, Visiting
<1>11. DispatchTypes'
  <2>1. visits - 1 \in Nat /\ room - 1 \in Nat /\ place \in 1 .. Len(pending) - 1 + 1
        /\ visits - 1 <= Len(pending) - 1 - place + 1
    BY <1>7, <1>10
  <2> QED BY <1>3, <1>5, <2>1 DEF DispatchTypes
<1>12. BufferInv'
  <2>1. IsFiniteSet(Waiting)
    <3>1. IsFiniteSet(1 .. accepted) BY FS_Interval DEF FileTypes
    <3> QED BY <1>5, <3>1, FS_Subset
  <2>2. size \in [Ids -> Nat] /\ size' \in [Ids -> Nat] BY <1>8 DEF FileTypes
  <2>3. IsFiniteSet(Waiting \ {r}) /\ Waiting \ {r} \in SUBSET Ids /\ Waiting \in SUBSET Ids
    BY <1>4, <2>1, FS_Subset
  <2>4. Total(size, Waiting) = size[r] + Total(size, Waiting \ {r})
    <3>1. r \in Waiting BY <1>5
    <3> HIDE DEF FileInv
    <3> QED BY <2>1, <2>2, <2>3, <3>1, TotalWithout
  <2>5. \A x \in Waiting \ {r} : size'[x] = size[x] BY <1>3, <2>2, <2>3
  <2>6. Total(size', Waiting \ {r}) = Total(size, Waiting \ {r}) BY <2>2, <2>3, <2>5, TotalAlike
  <2>7. Total(size, Waiting \ {r}) \in Nat /\ size[r] \in Nat BY <1>4, <2>2, <2>3, TotalStep
  <2>8. reserved = Total(size, Waiting) /\ reserved <= MaxBuffer BY DEF BufferInv
  <2>9. reserved' = Total(size, Waiting \ {r}) BY <1>3, <2>4, <2>7, <2>8
  <2>10. reserved' <= MaxBuffer
    <3>1. reserved = size[r] + reserved' BY <2>4, <2>8, <2>9
    <3>2. reserved' \in Nat /\ MaxBuffer \in Nat BY <2>7, <2>9, FileServiceAssumption DEF FileServiceAssumption
    <3> QED BY <2>7, <2>8, <3>1, <3>2
  <2> QED BY <1>5, <2>6, <2>9, <2>10 DEF BufferInv
<1>13. completed \in [Ids -> Results \cup {"none"}] /\ outcome \in [Ids -> Results \cup {"none", "cancelled"}]
  BY DEF FileTypes
<1>14. \A x \in Ids : Backends(x)' = Backends(x) BY <1>3 DEF Backends
<1>15. /\ \A x \in Ids \ {r} : /\ completed'[x] = completed[x] /\ outcome'[x] = outcome[x]
                               /\ (Settled(x)' <=> Settled(x))
       /\ completed'[r] = "none" /\ outcome'[r] = told1 /\ told1 # "none"
  BY <1>3, <1>4, <1>6, <1>13 DEF Settled, FallsBack, Backends, Results
<1>16. TableInv'
  <2>1. \A x \in 1 .. accepted' : x \notin Waiting' <=> outcome'[x] # "none"
    BY <1>3, <1>4, <1>5, <1>15 DEF TableInv
  <2>2. \A x \in Ids : x > accepted' => outcome'[x] = "none" /\ verdict'[x] = "none" /\ index'[x] = 1
    <3>1. ~(r > accepted) BY <1>5 DEF FileTypes
    <3> QED BY <1>3, <1>15, <3>1 DEF TableInv
  <2>3. working' \subseteq Waiting'
    <3>1. r \notin working BY <1>3, <1>4 DEF TableInv
    <3> QED BY <1>3, <1>5, <3>1 DEF TableInv
  <2>4. \A x \in Ids : completed'[x] # "none" => x \in Waiting' /\ x \notin working'
    BY <1>3, <1>5, <1>15 DEF TableInv
  <2>5. \A x \in Ids : index'[x] <= Backends(x)' BY <1>3, <1>14 DEF TableInv
  <2> QED BY <2>1, <2>2, <2>3, <2>4, <2>5 DEF TableInv
<1>17. VerdictInv'
  <2>1. cancelled' \subseteq Waiting' /\ \A x \in cancelled' : verdict'[x] = "granted"
    BY <1>3, <1>5 DEF VerdictInv
  <2>2. \A x \in Waiting' : /\ verdict'[x] = "granted" => x \in cancelled'
                            /\ verdict'[x] = "refused" => Settled(x)' /\ x \notin cancelled'
    BY <1>3, <1>4, <1>5, <1>15 DEF VerdictInv
  <2>3. /\ verdict[r] = "granted" => told1 = "cancelled"
        /\ verdict[r] = "refused" /\ kind[r] # "open" => told1 # "cancelled"
    <3>1. verdict[r] = "granted" => told1 = "cancelled" BY <1>5, <1>6 DEF VerdictInv
    <3>2. completed[r] # "cancelled" BY <1>4, <1>13 DEF Results
    <3>3. verdict[r] = "refused" => r \notin cancelled BY <1>5 DEF VerdictInv
    <3> QED BY <1>6, <3>1, <3>2, <3>3
  <2>4. told1 = "not_found" => index[r] = Backends(r)
    <3>1. SUFFICES ASSUME told1 = "not_found" PROVE index[r] = Backends(r) OBVIOUS
    <3>2. ~(index[r] < Backends(r)) BY <1>3, <1>6, <3>1 DEF FallsBack
    <3>3. index[r] \in Nat /\ Backends(r) \in Nat /\ index[r] <= Backends(r)
      BY <1>4, FileServiceAssumption DEF FileTypes, TableInv, Backends, FileServiceAssumption
    <3> QED BY <3>2, <3>3
  <2>5. \A x \in Ids : /\ verdict'[x] = "granted" => outcome'[x] \in {"none", "cancelled"}
                       /\ verdict'[x] = "refused" /\ kind'[x] # "open" => outcome'[x] # "cancelled"
                       /\ outcome'[x] = "not_found" => index'[x] = Backends(x)'
    BY <1>3, <1>14, <1>15, <2>3, <2>4 DEF VerdictInv
  <2> QED BY <2>1, <2>2, <2>5 DEF VerdictInv
<1>18. FreshInv'
  <2>1. r \notin fresh
    <3>1. place < place + visits BY <1>10
    <3> QED BY <1>1, <1>4, <1>10, <3>1 DEF FreshInv
  <2>2. fresh' \subseteq Waiting' BY <1>3, <1>5, <2>1 DEF FreshInv
  <2>3. ASSUME NEW i \in 1 .. Len(pending'), pending'[i] \in fresh' PROVE i >= place' + visits'
    <3>1. i \in 1 .. Len(pending) - 1 /\ i \in Nat /\ i \in 1 .. Len(pending) /\ i + 1 \in 1 .. Len(pending)
      BY <1>5, <1>7
    <3>2. CASE i < place
      <4>1. pending[i] \in fresh BY <1>3, <1>5, <2>3, <3>1, <3>2
      <4>2. i >= place + visits BY <3>1, <4>1 DEF FreshInv
      <4> QED BY <1>10, <3>1, <3>2, <4>2
    <3>3. CASE ~(i < place)
      <4>1. pending[i + 1] \in fresh BY <1>3, <1>5, <2>3, <3>1, <3>3
      <4>2. i + 1 >= place + visits BY <3>1, <4>1 DEF FreshInv
      <4> QED BY <1>3, <1>10, <3>1, <4>2
    <3> QED BY <3>2, <3>3
  <2> QED BY <1>3, <2>2, <2>3 DEF FreshInv
<1>19. OpenInv'
  <2>1. r \in open => r \in ClosedBy(r) \/ r \in tracked'
    <3>1. SUFFICES ASSUME r \in open, r \notin ClosedBy(r) PROVE r \in tracked' OBVIOUS
    <3>2. kind[r] = "open" BY <3>1 DEF OpenInv
    <3>3. told1 = "success" BY <1>2, <3>1, <3>2 DEF ClosedBy
    <3> QED BY <1>3, <3>2, <3>3
  <2>2. open' \subseteq Waiting' \cup tracked' BY <1>3, <1>5, <2>1 DEF OpenInv
  <2>3. closing' => tracked' = {} BY <1>3, <1>6 DEF OpenInv
  <2>4. \A x \in open' : kind'[x] = "open" BY <1>3 DEF OpenInv
  <2> QED BY <2>2, <2>3, <2>4 DEF OpenInv
<1>20. EndInv'
  <2>1. pending # <<>> BY <1>4, <1>7
  <2> QED BY <1>3, <2>1 DEF EndInv
<1> QED BY <1>8, <1>9, <1>11, <1>12, <1>16, <1>17, <1>18, <1>19, <1>20

LEMMA FileInit == Init => FileInv
<1> SUFFICES ASSUME Init PROVE FileInv OBVIOUS
<1> USE DEF Init
<1>1. Waiting = {} BY DEF Waiting
<1>2. FileTypes
  <2>1. 1 \in 1 .. Readers BY FileServiceAssumption DEF FileServiceAssumption
  <2>2. index \in [Ids -> 1 .. Readers] BY <2>1
  <2>3. accepted \in 0 .. MaxIds /\ Len(pending) <= MaxRequests /\ pending \in Seq(1 .. accepted)
    BY FileServiceAssumption DEF FileServiceAssumption
  <2>4. Distinct BY DEF Distinct
  <2>5. /\ kind \in [Ids -> Kinds \cup {"none"}] /\ size \in [Ids -> Nat] /\ source \in [Ids -> Nat]
        /\ completed \in [Ids -> Results \cup {"none"}]
        /\ outcome \in [Ids -> Results \cup {"none", "cancelled"}]
        /\ verdict \in [Ids -> {"none", "granted", "refused"}]
    OBVIOUS
  <2>6. closing \in BOOLEAN /\ onShutdown \in BOOLEAN OBVIOUS
  <2> QED BY <2>2, <2>3, <2>4, <2>5, <2>6 DEF FileTypes
<1>3. StreamTypes BY DEF StreamTypes
<1>4. DispatchTypes BY DEF DispatchTypes
<1>5. BufferInv
  <2>1. size \in [Ids -> Nat] BY <1>2 DEF FileTypes
  <2>2. Total(size, {}) = 0 BY <2>1, FS_EmptySet, TotalStep
  <2> QED BY <1>1, <2>2, FileServiceAssumption DEF BufferInv, FileServiceAssumption
<1>6. TableInv BY <1>1 DEF TableInv, Backends
<1>7. VerdictInv BY <1>1 DEF VerdictInv
<1>8. FreshInv BY DEF FreshInv
<1>9. OpenInv /\ EndInv BY DEF OpenInv, EndInv
<1> QED BY <1>2, <1>3, <1>4, <1>5, <1>6, <1>7, <1>8, <1>9 DEF FileInv

LEMMA FileStep == FileInv /\ [Next]_vars => FileInv'
<1> SUFFICES ASSUME FileInv, [Next]_vars PROVE FileInv' OBVIOUS
<1>1. CASE \E what \in Kinds, bytes \in Nat, stream \in Nat :
               /\ Submit(what, bytes, stream)
               /\ held' \subseteq held \cup {accepted + 1}
  BY <1>1, SubmitKeeps
<1>2. CASE Host
  <2>1. Sizes \subseteq Nat /\ Ids \subseteq Nat /\ 0 \in Nat
    BY FileServiceAssumption DEF FileServiceAssumption, Ids
  <2>2. CASE \E bytes \in Sizes : Read(bytes) \/ Write(bytes)
    <3>1. PICK bytes \in Sizes : Read(bytes) \/ Write(bytes) BY <2>2
    <3>2. "read" \in Kinds /\ "write" \in Kinds BY DEF Kinds
    <3>3. \E what \in Kinds : Submit(what, bytes, 0) /\ held' = held BY <3>1, <3>2 DEF Read, Write
    <3> QED BY <1>1, <2>1, <3>3
  <2>3. CASE \E bytes \in Sizes : \E stream \in Ids : ReadBlock(stream, bytes)
    <3>1. PICK bytes \in Sizes, stream \in Ids : ReadBlock(stream, bytes) BY <2>3
    <3>2. "block" \in Kinds /\ 2 * bytes \in Nat /\ stream \in Nat BY <2>1 DEF Kinds
    <3>3. Submit("block", 2 * bytes, stream) /\ held' = held BY <3>1 DEF ReadBlock
    <3> QED BY <1>1, <3>2, <3>3
  <2>4. CASE OpenStream
    <3>1. "open" \in Kinds BY DEF Kinds
    <3>2. Submit("open", 0, 0) /\ accepted' = accepted + 1 /\ held' = held \cup {accepted'}
      BY <2>4 DEF OpenStream, Submit
    <3> QED BY <1>1, <2>1, <3>1, <3>2
  <2>5. CASE Shutdown \/ \E r \in Ids : Cancel(r) \/ DropStream(r) BY <2>5, OwnerKeeps
  <2> QED BY <1>2, <2>2, <2>3, <2>4, <2>5 DEF Host
<1>3. CASE BackendThread BY <1>3, BackendKeeps DEF BackendThread
<1>4. CASE StartDispatch BY <1>4, VisitsKeep
<1>5. CASE Dispatch BY <1>5, VisitsKeep, FallBackKeeps, DeliverKeeps DEF Dispatch
<1>6. CASE UNCHANGED vars
  <2>1. UNCHANGED <<accepted, kind, size, source, pending, working, index, completed, cancelled, reserved,
                    closing, onShutdown, open, held, tracked, pc, visits, place, room, outcome, verdict,
                    fresh, told>>
    BY <1>6 DEF vars, requests, progress, streams, dispatch, history
  <2>2. Waiting' = Waiting BY <2>1 DEF Waiting
  <2>3. \A x \in Ids \cup Waiting : (Settled(x)' <=> Settled(x)) /\ Backends(x)' = Backends(x)
    BY <2>1 DEF Settled, FallsBack, Backends
  <2>4. FileTypes' /\ StreamTypes' /\ DispatchTypes'
    BY <2>1 DEF FileInv, FileTypes, Distinct, StreamTypes, DispatchTypes
  <2>5. BufferInv' /\ OpenInv' /\ EndInv' BY <2>1, <2>2 DEF FileInv, BufferInv, OpenInv, EndInv
  <2>6. TableInv' BY <2>1, <2>2, <2>3 DEF FileInv, TableInv
  <2>7. VerdictInv' BY <2>1, <2>2, <2>3 DEF FileInv, VerdictInv
  <2>8. FreshInv' BY <2>1, <2>2 DEF FileInv, FreshInv
  <2> QED BY <2>4, <2>5, <2>6, <2>7, <2>8 DEF FileInv
<1> QED BY <1>2, <1>3, <1>4, <1>5, <1>6 DEF Next

(* For every number of requests, readers and callbacks: the table and the buffers keep their
   limits, cancel() tells the truth whatever the backend answers meanwhile, not_found is the last
   reader's word, a request of a callback waits for the next dispatch, and the shutdown callback
   is the last one, comes once, and leaves nothing open (file_service.cpp). *)
THEOREM FilesCorrect == FilesSpec => []FilesAreHonest
<1>1. FilesInit => FileInv BY FileInit DEF FilesInit
<1>2. FileInv /\ [FilesNext]_fileVars => FileInv'
  <2> SUFFICES ASSUME FileInv, [FilesNext]_fileVars PROVE FileInv' OBVIOUS
  <2>1. [Next]_vars BY DEF FilesNext, IsClient, IsAuthor, IsImport, fileVars
  <2> QED BY <2>1, FileStep
<1>3. FileInv => FilesAreHonest
  <2> SUFFICES ASSUME FileInv PROVE FilesAreHonest OBVIOUS
  <2> USE DEF FileInv
  <2>1. \A i \in 1 .. Len(pending) : pending[i] \in 1 .. accepted BY DEF FileTypes
  <2>2. Waiting \subseteq 1 .. accepted /\ 1 .. accepted \subseteq Ids
    <3>1. Waiting \subseteq 1 .. accepted BY <2>1 DEF Waiting
    <3>2. accepted \in 0 .. MaxIds /\ MaxIds \in Nat BY FileServiceAssumption DEF FileTypes, FileServiceAssumption
    <3> QED BY <3>1, <3>2 DEF Ids
  <2>3. IsFiniteSet(Waiting)
    <3>1. IsFiniteSet(1 .. accepted) BY FS_Interval DEF FileTypes
    <3> QED BY <2>2, <3>1, FS_Subset
  <2>4. reserved = MapThenSumSet(LAMBDA r : size[r], Waiting) /\ reserved \in 0 .. MaxBuffer
    <3>1. Total(size, Waiting) \in Nat BY <2>2, <2>3, TotalStep DEF FileTypes
    <3>2. reserved = Total(size, Waiting) /\ reserved <= MaxBuffer BY DEF BufferInv
    <3>3. reserved = MapThenSumSet(LAMBDA r : size[r], Waiting) BY <3>2 DEF Total
    <3>4. reserved \in 0 .. MaxBuffer
      BY <3>1, <3>2, FileServiceAssumption DEF FileServiceAssumption
    <3> QED BY <3>3, <3>4
  <2>5. working \subseteq 1 .. accepted /\ cancelled \subseteq 1 .. accepted
    BY <2>2 DEF TableInv, VerdictInv
  <2>6. TypeOK BY <2>4, <2>5 DEF TypeOK, FileTypes, StreamTypes, DispatchTypes
  <2>7. \A r \in fresh : outcome[r] = "none" BY <2>2 DEF FreshInv, TableInv
  <2>8. OutcomeIsHonest BY <2>6, <2>7 DEF OutcomeIsHonest, VerdictInv
  <2>9. ShutdownIsLast
    <3> SUFFICES ASSUME told > 0
                 PROVE  /\ told = 1 /\ pending = <<>> /\ working = {} /\ open = {}
                        /\ \A r \in 1 .. accepted : outcome[r] # "none"
      BY DEF ShutdownIsLast
    <3>1. told = 1 /\ closing /\ pending = <<>> BY DEF EndInv
    <3>2. Waiting = {} BY <3>1 DEF Waiting
    <3> QED BY <3>1, <3>2 DEF TableInv, OpenInv
  <2> QED BY <2>8, <2>9 DEF FilesAreHonest
<1> QED BY <1>1, <1>2, <1>3, PTL DEF FilesSpec

-----------------------------------------------------------------------------
(***************************************************************************)
(* The editor's own saves.                                                  *)
(***************************************************************************)
CommandKinds == {"probe", "baseline", "saved", "applied"}
Known == [kind : CommandKinds, file : Files, hash : Nat]
Some == Files \cup {NoFile}
Receipts ==
    [phase : {"none", "asked", "ready"}, seen : Nat, ok : BOOLEAN, stale : BOOLEAN, orphan : BOOLEAN]
Checks ==
    [kind : CommandKinds \cup {"none", "changed", "checked", "cancelled"}, file : Some, seen : Nat,
     ok : BOOLEAN, phase : {"none", "queued", "done"}, stale : BOOLEAN]
Changes == [file : Some, seen : Nat, ok : BOOLEAN]

\* What the invariant reads, and what only passes the names of files on.
ownVars == <<disk, writes, own, fingerprints, probes, receipt, checking, prepared, loading, saving,
             leaving>>
NameTypes ==
    /\ raised \subseteq Files /\ watched \in Seq(Some) /\ inbox \in Seq(Some) /\ listed \subseteq Files
OwnTypes ==
    /\ disk \in [Files -> Nat] /\ writes \in Nat /\ own \in [Files -> SUBSET Nat]
    /\ fingerprints \in [Files -> Int] /\ probes \in Seq(Known) /\ leaving \in BOOLEAN
    /\ receipt \in Receipts
    /\ checking \in Checks
    /\ checking.phase # "none" => checking.file \in Files
    /\ checking.phase = "none" => checking = NoCheck
    /\ checking.phase = "queued" => checking.kind \in CommandKinds
    /\ prepared \in Changes
    /\ loading \in Changes
    /\ prepared = NoChange \/ prepared.file \in Files
    /\ loading = NoChange \/ loading.file \in Files
    /\ saving \in [file : Some, content : Nat, phase : {"none", "writing", "written", "failed"}]
    /\ saving = NoSave \/ (saving.file \in Files /\ saving.phase # "none")

\* The file is still what the editor saved.
Stands(f) == disk[f] \in own[f]
\* The reading will be checked as it is.
LiveRead == receipt.phase # "none" /\ ~receipt.stale /\ ~receipt.orphan /\ ~leaving
\* A task is about to set the fingerprint.
Sets(f) ==
    checking.phase = "queued" /\ checking.file = f /\ checking.kind \in {"saved", "applied"}
Saved(f) == Command("saved", f, disk[f])
Has(command) == \E i \in 1 .. Len(probes) : probes[i] = command

\* No write is like another; nothing is loaded during a save, and what was just saved is new.
SaveInv ==
    /\ \A f \in Files : disk[f] < 3 + writes
    /\ \A f \in Files : \A c \in own[f] : 3 <= c /\ c < 3 + writes
    /\ leaving => probes = <<>>
    /\ saving # NoSave => loading = NoChange
    /\ saving.phase = "written" => /\ 3 <= saving.content /\ saving.content < 3 + writes
                                   /\ ~Stands(saving.file)
\* A command about a file that was saved comes after the note of the save.
OrderInv ==
    \A i, j \in 1 .. Len(probes) :
        i < j /\ probes[j].kind = "saved" => probes[i].file # probes[j].file
\* Of a file that stands nothing is waiting that would make its fingerprint another one, ...
QueueInv ==
    ~leaving => \A f \in Files : Stands(f) =>
        \A i \in 1 .. Len(probes) : probes[i].file = f => IsProbe(probes[i]) \/ probes[i] = Saved(f)
\* ... its fingerprint is the one of the save, or is about to be, ...
NotedInv ==
    ~leaving => \A f \in Files : Stands(f) =>
        \/ Has(Saved(f))
        \/ Sets(f) /\ checking.seen = disk[f]
        \/ ~Sets(f) /\ fingerprints[f] = disk[f]
\* ... and nothing that was read of it is anything else.
SeenInv ==
    ~leaving => \A f \in Files : Stands(f) =>
        /\ prepared.file = f => ~prepared.ok
        /\ loading.file # f
        /\ (checking.file = f /\ checking.phase # "none" /\ ~checking.stale /\ checking.ok
            /\ (IsProbe(checking) \/ checking.kind = "changed")) => checking.seen = disk[f]
        /\ (LiveRead /\ Head(probes).file = f /\ receipt.phase = "ready" /\ receipt.ok) =>
               receipt.seen = disk[f]
\* A reading is of the first command, and of an own content only if that is known.
ReadInv ==
    LiveRead =>
        /\ probes # <<>> /\ IsProbe(Head(probes)) /\ checking = NoCheck /\ prepared = NoChange
        /\ loading = NoChange
        /\ (receipt.phase = "ready" /\ receipt.ok /\ receipt.seen \in own[Head(probes).file]) =>
               fingerprints[Head(probes).file] = receipt.seen
\* So is what a task checks, which is then no change.
CheckInv ==
    (checking.phase # "none" /\ ~checking.stale /\ checking.ok /\ checking.seen \in own[checking.file]) =>
        /\ checking.kind # "changed"
        /\ (checking.phase = "queued" /\ checking.kind = "probe") =>
               fingerprints[checking.file] = checking.seen

OwnParts == /\ SaveInv /\ OrderInv /\ QueueInv /\ NotedInv /\ SeenInv /\ ReadInv /\ CheckInv
            /\ OwnSaveIsQuiet
OwnInv == NameTypes /\ OwnTypes /\ OwnParts

LEMMA ReceiptOf ==
    ASSUME NEW p \in {"none", "asked", "ready"}, NEW n \in Nat, NEW a \in BOOLEAN, NEW b \in BOOLEAN,
           NEW c \in BOOLEAN
    PROVE  [phase |-> p, seen |-> n, ok |-> a, stale |-> b, orphan |-> c] \in Receipts
BY DEF Receipts

LEMMA CheckOf ==
    ASSUME NEW k \in CommandKinds \cup {"none", "changed", "checked", "cancelled"}, NEW f \in Some,
           NEW n \in Nat, NEW a \in BOOLEAN, NEW p \in {"none", "queued", "done"}, NEW b \in BOOLEAN
    PROVE  [kind |-> k, file |-> f, seen |-> n, ok |-> a, phase |-> p, stale |-> b] \in Checks
BY DEF Checks

LEMMA CheckMoves ==
    ASSUME NEW g \in Checks, NEW l, NEW q
    PROVE  [g EXCEPT !.phase = q, !.kind = l]
               = [kind |-> l, file |-> g.file, seen |-> g.seen, ok |-> g.ok, phase |-> q,
                  stale |-> g.stale]
<1>1. PICK h : h = [g EXCEPT !.phase = q, !.kind = l] OBVIOUS
<1>2. g = [kind |-> g.kind, file |-> g.file, seen |-> g.seen, ok |-> g.ok, phase |-> g.phase,
           stale |-> g.stale]
  BY DEF Checks
<1>3. h = [kind |-> l, file |-> g.file, seen |-> g.seen, ok |-> g.ok, phase |-> q, stale |-> g.stale]
  BY <1>1, <1>2
<1> QED BY <1>1, <1>3

LEMMA ImagesFinite ==
    ASSUME NEW T, IsFiniteSet(T), NEW g PROVE IsFiniteSet({g[x] : x \in T})
<1> DEFINE S == {g[x] : x \in T}
           h == [x \in T |-> g[x]]
<1>1. h \in Surjection(T, S) BY DEF Surjection
<1> HIDE DEF S, h
<1>2. IsFiniteSet(S) BY <1>1, FS_Surjection
<1> QED BY <1>2 DEF S

(* A set of commands becomes a sequence of them. *)
LEMMA SequenceOf ==
    ASSUME NEW S, IsFiniteSet(S) PROVE SetToSeq(S) \in Seq(S)
<1>1. PICK g \in [1 .. Cardinality(S) -> S] : IsInjective(g)
  <2>1. PICK n \in Nat : ExistsBijection(1 .. n, S) BY FS_NatBijection
  <2>2. n = Cardinality(S) BY <2>1, FS_CountingElements
  <2>3. PICK g : g \in Bijection(1 .. n, S) BY <2>1 DEF ExistsBijection
  <2>4. g \in [1 .. n -> S] /\ \A a, b \in 1 .. n : g[a] = g[b] => a = b
    BY <2>3 DEF Bijection, Injection, IsInjective
  <2> QED BY <2>2, <2>4 DEF IsInjective
<1>2. SetToSeq(S) \in [1 .. Cardinality(S) -> S] BY <1>1 DEF SetToSeq
<1>3. Cardinality(S) \in Nat BY FS_CardinalityType
<1> QED BY <1>2, <1>3

(* Taking out the commands about f leaves the others, in their order. *)
Thins(t, n, f) ==
    /\ t \in Seq(Known)
    /\ \A i \in 1 .. Len(t) : \E a \in 1 .. n : probes[a] = t[i] /\ probes[a].file # f
    /\ \A i, j \in 1 .. Len(t) :
           i < j => \E a, b \in 1 .. n : a < b /\ probes[a] = t[i] /\ probes[b] = t[j]
    /\ \A a \in 1 .. n : probes[a].file # f => \E i \in 1 .. Len(t) : t[i] = probes[a]

Keeps(f, g) ==
    g = [n \in 0 .. Len(probes) |->
            IF n = 0 THEN <<>>
            ELSE IF probes[n].file = f THEN g[n - 1] ELSE Append(g[n - 1], probes[n])]

LEMMA ThinsOn ==
    ASSUME probes \in Seq(Known), NEW f, NEW n \in Nat, n + 1 <= Len(probes), NEW t, Thins(t, n, f)
    PROVE  Thins(IF probes[n + 1].file = f THEN t ELSE Append(t, probes[n + 1]), n + 1, f)
<1>1. probes[n + 1] \in Known /\ t \in Seq(Known) BY DEF Thins
<1>2. CASE probes[n + 1].file = f
  <2>0. 1 .. n \subseteq 1 .. n + 1 OBVIOUS
  <2>1. \A i \in 1 .. Len(t) : \E a \in 1 .. n + 1 : probes[a] = t[i] /\ probes[a].file # f
    BY <2>0 DEF Thins
  <2>2. \A i, j \in 1 .. Len(t) :
            i < j => \E a, b \in 1 .. n + 1 : a < b /\ probes[a] = t[i] /\ probes[b] = t[j]
    <3> TAKE i, j \in 1 .. Len(t)
    <3> HAVE i < j
    <3>1. PICK a \in 1 .. n, b \in 1 .. n : a < b /\ probes[a] = t[i] /\ probes[b] = t[j] BY DEF Thins
    <3> QED BY <2>0, <3>1
  <2>3. \A a \in 1 .. n + 1 : probes[a].file # f => \E i \in 1 .. Len(t) : t[i] = probes[a]
    <3>1. \A a \in 1 .. n + 1 : probes[a].file # f => a \in 1 .. n BY <1>2
    <3> QED BY <3>1 DEF Thins
  <2>4. Thins(t, n + 1, f) BY <1>1, <2>1, <2>2, <2>3 DEF Thins
  <2> QED BY <1>2, <2>4
<1>3. CASE probes[n + 1].file # f
  <2> DEFINE u == Append(t, probes[n + 1])
  <2>0. /\ u \in Seq(Known) /\ Len(u) = Len(t) + 1 /\ u[Len(t) + 1] = probes[n + 1] /\ Len(t) \in Nat
        /\ \A i \in 1 .. Len(t) : u[i] = t[i]
    BY <1>1
  <2> HIDE DEF u
  <2>1. ASSUME NEW i \in 1 .. Len(u) PROVE \E a \in 1 .. n + 1 : probes[a] = u[i] /\ probes[a].file # f
    <3>1. CASE i = Len(t) + 1 BY <1>3, <2>0, <3>1
    <3>2. CASE i \in 1 .. Len(t)
      <4>1. PICK a \in 1 .. n : probes[a] = t[i] /\ probes[a].file # f BY <3>2 DEF Thins
      <4> QED BY <2>0, <3>2, <4>1
    <3> QED BY <2>0, <3>1, <3>2
  <2>2. ASSUME NEW i \in 1 .. Len(u), NEW j \in 1 .. Len(u), i < j
        PROVE  \E a, b \in 1 .. n + 1 : a < b /\ probes[a] = u[i] /\ probes[b] = u[j]
    <3>0. i \in 1 .. Len(t) /\ u[i] = t[i] BY <2>0, <2>2
    <3>1. CASE j = Len(t) + 1
      <4>1. PICK a \in 1 .. n : probes[a] = t[i] BY <3>0 DEF Thins
      <4>2. a \in 1 .. n + 1 /\ n + 1 \in 1 .. n + 1 /\ a < n + 1 OBVIOUS
      <4>3. probes[a] = u[i] /\ probes[n + 1] = u[j] BY <2>0, <3>0, <3>1, <4>1
      <4> QED BY <4>2, <4>3
    <3>2. CASE j \in 1 .. Len(t)
      <4>1. PICK a \in 1 .. n, b \in 1 .. n : a < b /\ probes[a] = t[i] /\ probes[b] = t[j]
        BY <2>2, <3>0, <3>2 DEF Thins
      <4>2. a \in 1 .. n + 1 /\ b \in 1 .. n + 1 OBVIOUS
      <4>3. probes[a] = u[i] /\ probes[b] = u[j] BY <2>0, <3>0, <3>2, <4>1
      <4> QED BY <4>1, <4>2, <4>3
    <3> QED BY <2>0, <3>1, <3>2
  <2>3. ASSUME NEW a \in 1 .. n + 1, probes[a].file # f PROVE \E i \in 1 .. Len(u) : u[i] = probes[a]
    <3>1. CASE a = n + 1 BY <2>0, <3>1
    <3>2. CASE a \in 1 .. n
      <4>1. PICK i \in 1 .. Len(t) : t[i] = probes[a] BY <2>3, <3>2 DEF Thins
      <4> QED BY <2>0, <4>1
    <3> QED BY <3>1, <3>2
  <2>4. Thins(u, n + 1, f) BY <2>0, <2>1, <2>2, <2>3 DEF Thins
  <2> QED BY <1>3, <2>4 DEF u
<1> QED BY <1>2, <1>3

(* There is a function that the definition of Without chooses. *)
LEMMA KeepsExists ==
    ASSUME probes \in Seq(Known), NEW f PROVE \E g : Keeps(f, g)
<1> DEFINE N == Len(probes)
           Next1(g, n) == IF n = 0 THEN <<>>
                          ELSE IF probes[n].file = f THEN g[n - 1] ELSE Append(g[n - 1], probes[n])
           Good(g, m) == \A n \in 0 .. m : g[n] = Next1(g, n)
           B == {m \in Nat : m <= N => \E g \in [0 .. N -> Seq(Known)] : Good(g, m)}
<1>1. N \in Nat OBVIOUS
<1>2. 0 \in B
  <2> DEFINE g == [n \in 0 .. N |-> <<>>]
  <2>1. g \in [0 .. N -> Seq(Known)] /\ g[0] = <<>> BY <1>1
  <2> QED BY <2>1
<1>3. ASSUME NEW m \in Nat, m \in B PROVE m + 1 \in B
  <2> SUFFICES ASSUME m + 1 <= N PROVE \E g \in [0 .. N -> Seq(Known)] : Good(g, m + 1) OBVIOUS
  <2>1. PICK g \in [0 .. N -> Seq(Known)] : Good(g, m) BY <1>1, <1>3
  <2> DEFINE v == Next1(g, m + 1)
             h == [g EXCEPT ![m + 1] = v]
  <2>2. g[m] \in Seq(Known) /\ probes[m + 1] \in Known BY <1>1, <2>1
  <2>3. v \in Seq(Known) BY <2>2
  <2> HIDE DEF v
  <2>4. h \in [0 .. N -> Seq(Known)] BY <2>1, <2>3
  <2>5. h[m + 1] = v /\ \A n \in 0 .. m : h[n] = g[n] BY <1>1, <2>1
  <2> HIDE DEF h
  <2>6. h[m + 1] = Next1(h, m + 1) BY <2>5 DEF v
  <2>7. \A n \in 0 .. m : h[n] = Next1(h, n)
    <3> TAKE n \in 0 .. m
    <3>1. g[n] = Next1(g, n) BY <2>1
    <3>2. n # 0 => n - 1 \in 0 .. m OBVIOUS
    <3> QED BY <2>5, <3>1, <3>2
  <2>8. \A n \in 0 .. m + 1 : n = m + 1 \/ n \in 0 .. m OBVIOUS
  <2>9. Good(h, m + 1) BY <2>6, <2>7, <2>8
  <2> QED BY <2>4, <2>9
<1> HIDE DEF B
<1>4. N \in B BY <1>1, <1>2, <1>3, Induction
<1>5. PICK g \in [0 .. N -> Seq(Known)] : Good(g, N) BY <1>1, <1>4 DEF B
<1>6. g = [n \in 0 .. N |-> g[n]] OBVIOUS
<1>7. g = [n \in 0 .. N |-> Next1(g, n)] BY <1>5, <1>6
<1> QED BY <1>7 DEF Keeps

LEMMA WithoutThins ==
    ASSUME probes \in Seq(Known), NEW f PROVE Thins(Without(f), Len(probes), f)
<1> DEFINE N == Len(probes)
           g == CHOOSE g : Keeps(f, g)
           B == {n \in Nat : n <= N => Thins(g[n], n, f)}
<1>1. Without(f) = g[N] BY DEF Without, Keeps
<1>2. Keeps(f, g) BY KeepsExists
<1>3. N \in Nat OBVIOUS
<1> HIDE DEF g
<1>4. 0 \in B
  <2>1. g[0] = <<>> BY <1>2, <1>3 DEF Keeps
  <2>2. Thins(<<>>, 0, f) BY DEF Thins
  <2> QED BY <2>1, <2>2
<1>5. ASSUME NEW n \in Nat, n \in B PROVE n + 1 \in B
  <2> SUFFICES ASSUME n + 1 <= N PROVE Thins(g[n + 1], n + 1, f) OBVIOUS
  <2>1. Thins(g[n], n, f) BY <1>3, <1>5
  <2>2. g[n + 1] = IF probes[n + 1].file = f THEN g[n] ELSE Append(g[n], probes[n + 1])
    <3>1. n + 1 \in 0 .. N /\ n + 1 # 0 /\ n + 1 - 1 = n BY <1>3
    <3>2. g = [m \in 0 .. N |->
                  IF m = 0 THEN <<>>
                  ELSE IF probes[m].file = f THEN g[m - 1] ELSE Append(g[m - 1], probes[m])]
      BY <1>2 DEF Keeps
    <3> DEFINE E(m) == IF m = 0 THEN <<>>
                       ELSE IF probes[m].file = f THEN g[m - 1] ELSE Append(g[m - 1], probes[m])
    <3>3. g = [m \in 0 .. N |-> E(m)] BY <3>2
    <3> HIDE DEF N, E
    <3>4. g[n + 1] = E(n + 1) BY <3>1, <3>3
    <3> QED BY <3>1, <3>4 DEF E
  <2> QED BY <2>1, <2>2, <1>3, ThinsOn
<1> HIDE DEF B
<1>6. N \in B BY <1>3, <1>4, <1>5, Induction
<1> QED BY <1>1, <1>3, <1>6 DEF B

(* What a save leaves of the commands: none about its file, the others in their order, and all
   notes of other saves. *)
Others(t, f) ==
    /\ t \in Seq(Known)
    /\ \A i \in 1 .. Len(t) : \E a \in 1 .. Len(probes) : probes[a] = t[i] /\ probes[a].file # f
    /\ \A i, j \in 1 .. Len(t) :
           i < j => \E a, b \in 1 .. Len(probes) : a < b /\ probes[a] = t[i] /\ probes[b] = t[j]
    /\ \A a \in 1 .. Len(probes) :
           probes[a].file # f /\ ~IsProbe(probes[a]) => \E i \in 1 .. Len(t) : t[i] = probes[a]

LEMMA OneTakenOut ==
    ASSUME NEW S, NEW t \in Seq(S), NEW k \in 1 .. Len(t)
    PROVE  /\ RemoveAt(t, k) \in Seq(S) /\ Len(RemoveAt(t, k)) = Len(t) - 1
           /\ \A i \in 1 .. Len(t) - 1 : RemoveAt(t, k)[i] = IF i < k THEN t[i] ELSE t[i + 1]
<1> DEFINE a == SubSeq(t, 1, k - 1)
           b == SubSeq(t, k + 1, Len(t))
<1>1. Len(t) \in Nat /\ k \in Nat OBVIOUS
<1>2. a \in Seq(S) /\ Len(a) = k - 1 /\ \A i \in 1 .. k - 1 : a[i] = t[i] BY <1>1
<1>3. b \in Seq(S) /\ Len(b) = Len(t) - k /\ \A i \in 1 .. Len(t) - k : b[i] = t[k + i] BY <1>1
<1>4. RemoveAt(t, k) = a \o b BY DEF RemoveAt
<1> HIDE DEF a, b
<1>5. a \o b \in Seq(S) /\ Len(a \o b) = Len(t) - 1
  <2>0. a \in Seq(S) /\ b \in Seq(S) BY <1>2, <1>3
  <2>1. a \o b \in Seq(S) /\ Len(a \o b) = Len(a) + Len(b) BY <2>0
  <2>2. (k - 1) + (Len(t) - k) = Len(t) - 1 BY <1>1
  <2> QED BY <1>2, <1>3, <2>1, <2>2
<1>6. \A i \in 1 .. Len(t) - 1 : (a \o b)[i] = IF i < k THEN t[i] ELSE t[i + 1]
  <2> TAKE i \in 1 .. Len(t) - 1
  <2>1. (a \o b)[i] = IF i <= Len(a) THEN a[i] ELSE b[i - Len(a)] BY <1>1, <1>2, <1>3
  <2>2. CASE i < k
    <3>1. i \in 1 .. k - 1 /\ i <= Len(a) BY <1>1, <1>2, <2>2
    <3> QED BY <1>2, <2>1, <2>2, <3>1
  <2>3. CASE ~(i < k)
    <3>1. ~(i <= Len(a)) /\ i - (k - 1) \in 1 .. Len(t) - k /\ k + (i - (k - 1)) = i + 1
      BY <1>1, <1>2, <2>3
    <3> QED BY <1>2, <1>3, <2>1, <2>3, <3>1
  <2> QED BY <2>2, <2>3
<1> QED BY <1>4, <1>5, <1>6

LEMMA LeastIn ==
    ASSUME NEW S \in SUBSET Nat, S # {} PROVE Min(S) \in S
<1> DEFINE R == OpToRel(<, Nat)
<1>1. IsWellFoundedOn(R, Nat) BY NatLessThanWellFounded
<1>2. PICK n \in S : \A m \in S : <<m, n>> \notin R BY <1>1, WFMin
<1>3. \A m \in S : n <= m
  <2> TAKE m \in S
  <2>1. m \in Nat /\ n \in Nat OBVIOUS
  <2>2. ~(m < n) BY <1>2, <2>1 DEF OpToRel
  <2> QED BY <2>1, <2>2
<1> QED BY <1>3 DEF Min

LEMMA OthersLeft ==
    ASSUME probes \in Seq(Known), NEW f, Commands \in Nat PROVE Others(WithRoom(Without(f)), f)
<1> DEFINE t == Without(f)
           P == {i \in 1 .. Len(t) : IsProbe(t[i])}
<1>1. Thins(t, Len(probes), f) BY WithoutThins
<1>2. t \in Seq(Known) /\ Len(t) \in Nat BY <1>1 DEF Thins
<1>3. WithRoom(t) = IF Len(t) < Commands \/ P = {} THEN t ELSE RemoveAt(t, Min(P)) BY DEF WithRoom
<1> HIDE DEF t
<1>4. Others(t, f) BY <1>1 DEF Thins, Others
<1>5. ASSUME P # {} PROVE Others(RemoveAt(t, Min(P)), f)
  <2>1. PICK k : k = Min(P) OBVIOUS
  <2>2. k \in 1 .. Len(t) /\ IsProbe(t[k])
    <3>1. P \in SUBSET Nat BY <1>2
    <3>2. k \in P
      <4> HIDE DEF P
      <4> QED BY <1>5, <2>1, <3>1, LeastIn
    <3> QED BY <3>2
  <2> DEFINE u == RemoveAt(t, k)
  <2>3. /\ u \in Seq(Known) /\ Len(u) = Len(t) - 1
        /\ \A i \in 1 .. Len(t) - 1 : u[i] = IF i < k THEN t[i] ELSE t[i + 1]
    BY <1>2, <2>2, OneTakenOut
  <2> HIDE DEF u
  <2> DEFINE Old(i) == IF i < k THEN i ELSE i + 1
  <2>4. \A i \in 1 .. Len(u) : Old(i) \in 1 .. Len(t) /\ u[i] = t[Old(i)]
    <3> TAKE i \in 1 .. Len(u)
    <3>1. i \in 1 .. Len(t) - 1 BY <2>3
    <3>2. u[i] = IF i < k THEN t[i] ELSE t[i + 1] BY <2>3, <3>1
    <3> QED BY <1>2, <3>1, <3>2
  <2>5. \A i, j \in 1 .. Len(u) : i < j => Old(i) < Old(j) BY <1>2, <2>2, <2>3
  <2>6. \A a \in 1 .. Len(t) : a # k => \E i \in 1 .. Len(u) : u[i] = t[a]
    <3> TAKE a \in 1 .. Len(t)
    <3> HAVE a # k
    <3>1. CASE a < k
      <4>1. a \in 1 .. Len(u) /\ u[a] = t[a] BY <1>2, <2>2, <2>3, <3>1
      <4> QED BY <4>1
    <3>2. CASE a > k
      <4>1. a - 1 \in 1 .. Len(u) /\ u[a - 1] = t[a] BY <1>2, <2>2, <2>3, <3>2
      <4> QED BY <4>1
    <3> QED BY <1>2, <2>2, <3>1, <3>2
  <2> HIDE DEF Old
  <2>7. \A i \in 1 .. Len(u) : \E a \in 1 .. Len(probes) : probes[a] = u[i] /\ probes[a].file # f
    <3> TAKE i \in 1 .. Len(u)
    <3>1. PICK a \in 1 .. Len(probes) : probes[a] = t[Old(i)] /\ probes[a].file # f
      BY <1>4, <2>4 DEF Others
    <3> QED BY <2>4, <3>1
  <2>8. \A i, j \in 1 .. Len(u) :
            i < j => \E a, b \in 1 .. Len(probes) : a < b /\ probes[a] = u[i] /\ probes[b] = u[j]
    <3> TAKE i, j \in 1 .. Len(u)
    <3> HAVE i < j
    <3>1. PICK a \in 1 .. Len(probes), b \in 1 .. Len(probes) :
              a < b /\ probes[a] = t[Old(i)] /\ probes[b] = t[Old(j)]
      <4>1. \A x, y \in 1 .. Len(t) :
                x < y => \E a, b \in 1 .. Len(probes) : a < b /\ probes[a] = t[x] /\ probes[b] = t[y]
        BY <1>4 DEF Others
      <4>2. Old(i) \in 1 .. Len(t) /\ Old(j) \in 1 .. Len(t) /\ Old(i) < Old(j) BY <2>4, <2>5
      <4> QED BY <4>1, <4>2
    <3> QED BY <2>4, <3>1
  <2>9. \A a \in 1 .. Len(probes) :
            probes[a].file # f /\ ~IsProbe(probes[a]) => \E i \in 1 .. Len(u) : u[i] = probes[a]
    <3> TAKE a \in 1 .. Len(probes)
    <3> HAVE probes[a].file # f /\ ~IsProbe(probes[a])
    <3>1. PICK b \in 1 .. Len(t) : t[b] = probes[a] BY <1>4 DEF Others
    <3>2. b # k BY <2>2, <3>1
    <3>3. PICK i \in 1 .. Len(u) : u[i] = t[b] BY <2>6, <3>2
    <3> QED BY <3>1, <3>3
  <2>10. Others(u, f) BY <2>3, <2>7, <2>8, <2>9 DEF Others
  <2> QED BY <2>1, <2>10 DEF u
<1> HIDE DEF P
<1> QED BY <1>3, <1>4, <1>5 DEF t

(* What the frame does with a change it was shown, and what it asks for. *)
LEMMA FrameKeeps ==
    ASSUME OwnTypes, OwnParts, UNCHANGED <<disk, writes, own, fingerprints, receipt, checking, saving, leaving>>,
           ~leaving, NEW c \in Known, probes' = probes \/ probes' = Append(probes, c),
           IsProbe(c) \/ (c.kind = "applied" /\ ~Stands(c.file)),
           prepared' = prepared \/ prepared' = NoChange,
           \/ loading' = loading \/ loading' = NoChange
           \/ loading' = prepared /\ prepared.ok /\ prepared # NoChange /\ saving = NoSave
    PROVE  OwnTypes' /\ OwnParts'
<1> USE AuthorAssumption DEF AuthorAssumption
<1>0. /\ probes' \in Seq(Known) /\ Len(probes') \in {Len(probes), Len(probes) + 1} /\ Len(probes) \in Nat
      /\ \A i \in 1 .. Len(probes) : i \in 1 .. Len(probes') /\ probes'[i] = probes[i]
      /\ \A i \in 1 .. Len(probes') : i \in 1 .. Len(probes) \/ (i = Len(probes) + 1 /\ probes'[i] = c)
  <2>1. probes \in Seq(Known) BY DEF OwnTypes
  <2>2. CASE probes' = probes BY <2>1, <2>2
  <2>3. CASE probes' = Append(probes, c) BY <2>1, <2>3
  <2> QED BY <2>2, <2>3
<1>1. c.kind # "saved" /\ c.file \in Files BY DEF IsProbe, Known
<1>2. probes # <<>> => probes' # <<>> /\ Head(probes') = Head(probes)
  <2> SUFFICES ASSUME probes # <<>> PROVE probes' # <<>> /\ Head(probes') = Head(probes) OBVIOUS
  <2>1. probes \in Seq(Known) BY DEF OwnTypes
  <2>2. 1 \in 1 .. Len(probes) BY <2>1
  <2>3. probes'[1] = probes[1] /\ Len(probes') # 0 BY <1>0, <2>2
  <2>4. Head(probes) = probes[1] /\ Head(probes') = probes'[1] /\ probes' # <<>> BY <1>0, <2>1, <2>3
  <2> QED BY <2>3, <2>4
<1>3. OwnTypes'
  <2>0. NoChange \in Changes BY DEF Changes, NoChange, Some
  <2>1. prepared' \in Changes /\ (prepared' = NoChange \/ prepared'.file \in Files)
    BY <2>0 DEF OwnTypes
  <2>2. loading' \in Changes /\ (loading' = NoChange \/ loading'.file \in Files)
    BY <2>0 DEF OwnTypes
  <2>3. UNCHANGED <<disk, writes, own, fingerprints, receipt, checking, saving, leaving>> OBVIOUS
  <2>4. probes' \in Seq(Known) BY <1>0
  <2> HIDE DEF NoChange
  <2> QED BY <2>1, <2>2, <2>3, <2>4 DEF OwnTypes
<1>4. SaveInv' BY DEF OwnParts, SaveInv, Stands
<1>5. OrderInv' BY <1>0, <1>1 DEF OwnParts, OrderInv
<1>6. QueueInv'
  <2> SUFFICES ASSUME NEW f \in Files, Stands(f), NEW i \in 1 .. Len(probes'), probes'[i].file = f
               PROVE  IsProbe(probes'[i]) \/ probes'[i] = Saved(f)
    BY DEF QueueInv, Stands, Saved
  <2>1. CASE i \in 1 .. Len(probes) BY <1>0, <2>1 DEF OwnParts, QueueInv
  <2>2. CASE probes'[i] = c BY <2>2
  <2> QED BY <1>0, <2>1, <2>2
<1>7. NotedInv'
  <2> SUFFICES ASSUME NEW f \in Files, Stands(f)
               PROVE  \/ \E i \in 1 .. Len(probes') : probes'[i] = Saved(f)
                      \/ Sets(f) /\ checking.seen = disk[f]
                      \/ ~Sets(f) /\ fingerprints[f] = disk[f]
    BY DEF NotedInv, Stands, Saved, Has, Sets
  <2>1. CASE Has(Saved(f)) BY <1>0, <2>1 DEF Has
  <2> QED BY <2>1 DEF OwnParts, NotedInv
<1>8. SeenInv'
  <2> SUFFICES ASSUME NEW f \in Files, Stands(f)
               PROVE  /\ prepared'.file = f => ~prepared'.ok
                      /\ loading'.file # f
                      /\ (LiveRead /\ Head(probes').file = f /\ receipt.phase = "ready" /\ receipt.ok) =>
                             receipt.seen = disk[f]
    BY DEF SeenInv, Stands, LiveRead, OwnParts
  <2>0. f # NoFile BY WatcherAssumption DEF WatcherAssumption
  <2>1. prepared'.file = f => ~prepared'.ok BY DEF OwnParts, SeenInv, NoChange
  <2>2. loading'.file # f BY <2>0 DEF OwnParts, SeenInv, NoChange
  <2>3. LiveRead => probes # <<>> BY DEF OwnParts, ReadInv
  <2> QED BY <1>2, <2>1, <2>2, <2>3 DEF OwnParts, SeenInv
<1>9. ReadInv'
  <2> SUFFICES ASSUME LiveRead
               PROVE  /\ probes' # <<>> /\ IsProbe(Head(probes')) /\ checking = NoCheck
                      /\ prepared' = NoChange /\ loading' = NoChange
                      /\ (receipt.phase = "ready" /\ receipt.ok /\ receipt.seen \in own[Head(probes').file]) =>
                             fingerprints[Head(probes').file] = receipt.seen
    BY DEF ReadInv, LiveRead
  <2> QED BY <1>2 DEF OwnParts, ReadInv
<1>10. CheckInv' BY DEF OwnParts, CheckInv
<1>11. OwnSaveIsQuiet' BY DEF OwnParts, OwnSaveIsQuiet, NoChange
<1> QED BY <1>3, <1>4, <1>5, <1>6, <1>7, <1>8, <1>9, <1>10, <1>11 DEF OwnParts

(* A scan asks for files when nothing else is waiting. *)
LEMMA ScanKeeps ==
    ASSUME OwnTypes, OwnParts, UNCHANGED <<disk, writes, own, fingerprints, receipt, checking, prepared, loading,
                                           saving, leaving>>,
           probes = <<>>, checking = NoCheck, ~leaving, probes' \in Seq(Known),
           \A i \in 1 .. Len(probes') : IsProbe(probes'[i])
    PROVE  OwnTypes' /\ OwnParts'
<1>1. ~LiveRead /\ ~LiveRead' BY DEF OwnParts, ReadInv, LiveRead
<1>2. OwnTypes' BY DEF OwnTypes
<1>3. \A f : ~Sets(f) /\ ~Sets(f)' /\ ~Has(Saved(f)) BY DEF Sets, NoCheck, Has
<1>4. SaveInv' BY DEF OwnParts, SaveInv, Stands
<1>5. OrderInv' BY DEF OrderInv, IsProbe
<1>6. QueueInv' BY DEF QueueInv
<1>7. NotedInv' BY <1>3 DEF OwnParts, NotedInv, Stands
<1>8. SeenInv' BY <1>1 DEF OwnParts, SeenInv, Stands
<1>9. ReadInv' BY <1>1 DEF ReadInv
<1>10. CheckInv' BY DEF OwnParts, CheckInv
<1>11. OwnSaveIsQuiet' BY DEF OwnParts, OwnSaveIsQuiet
<1> QED BY <1>2, <1>4, <1>5, <1>6, <1>7, <1>8, <1>9, <1>10, <1>11 DEF OwnParts

(* The first command is read. *)
LEMMA ReadKeeps ==
    ASSUME OwnTypes, OwnParts, UNCHANGED <<disk, writes, own, fingerprints, probes, checking, prepared, loading,
                                           saving, leaving>>,
           \/ /\ probes # <<>> /\ IsProbe(Head(probes)) /\ checking = NoCheck /\ prepared = NoChange
              /\ loading = NoChange /\ receipt' = [NoReceipt EXCEPT !.phase = "asked"]
           \/ receipt' = NoReceipt
    PROVE  OwnTypes' /\ OwnParts'
<1>1. OwnTypes'
  <2>1. receipt' \in Receipts
    <3>1. \/ receipt' = NoReceipt
          \/ receipt' = [phase |-> "asked", seen |-> 0, ok |-> FALSE, stale |-> FALSE, orphan |-> FALSE]
      BY DEF NoReceipt
    <3> QED BY <3>1, ReceiptOf DEF NoReceipt
  <2> QED BY <2>1 DEF OwnTypes
<1>2. receipt'.phase # "ready" BY DEF NoReceipt
<1>3. SaveInv' BY DEF OwnParts, SaveInv, Stands
<1>4. OrderInv' BY DEF OwnParts, OrderInv
<1>5. QueueInv' BY DEF OwnParts, QueueInv, Stands, Saved
<1>6. NotedInv' BY DEF OwnParts, NotedInv, Stands, Has, Saved, Sets
<1>7. SeenInv' BY <1>2 DEF OwnParts, SeenInv, Stands
<1>8. ReadInv' BY <1>2 DEF ReadInv, LiveRead, NoReceipt
<1>9. CheckInv' BY DEF OwnParts, CheckInv
<1>10. OwnSaveIsQuiet' BY DEF OwnParts, OwnSaveIsQuiet
<1> QED BY <1>1, <1>3, <1>4, <1>5, <1>6, <1>7, <1>8, <1>9, <1>10 DEF OwnParts

(* The reading is back: it is what the disk holds now. *)
LEMMA AnswerKeeps ==
    ASSUME OwnTypes, OwnParts, UNCHANGED <<disk, writes, own, fingerprints, probes, checking, prepared, loading,
                                           saving, leaving>>,
           AnswerRead
    PROVE  OwnTypes' /\ OwnParts'
<1> DEFINE there == IF probes = <<>> THEN 0 ELSE disk[Head(probes).file]
<1>0. probes # <<>> => Head(probes) \in Known BY DEF OwnTypes
<1>1. there \in Nat BY <1>0 DEF OwnTypes, Known
<1>2. receipt.phase = "asked" BY DEF AnswerRead
<1>3. \E b \in BOOLEAN : receipt' = [receipt EXCEPT !.phase = "ready", !.seen = there, !.ok = b]
  <2>1. CASE receipt' = [receipt EXCEPT !.phase = "ready", !.seen = there, !.ok = (there # 0)]
    BY <2>1
  <2>2. CASE receipt' = [receipt EXCEPT !.phase = "ready", !.seen = there]
    <3>1. receipt = [receipt EXCEPT !.ok = receipt.ok] /\ receipt.ok \in BOOLEAN BY DEF OwnTypes, Receipts
    <3>2. receipt' = [receipt EXCEPT !.phase = "ready", !.seen = there, !.ok = receipt.ok]
      <4> HIDE DEF there
      <4>1. receipt = [phase |-> receipt.phase, seen |-> receipt.seen, ok |-> receipt.ok,
                       stale |-> receipt.stale, orphan |-> receipt.orphan]
        BY DEF OwnTypes, Receipts
      <4> QED BY <2>2, <4>1
    <3> QED BY <3>1, <3>2
  <2> QED BY <2>1, <2>2 DEF AnswerRead
<1>4. PICK b \in BOOLEAN : receipt' = [receipt EXCEPT !.phase = "ready", !.seen = there, !.ok = b]
  BY <1>3
<1> HIDE DEF there
<1>5. receipt' = [phase |-> "ready", seen |-> there, ok |-> b, stale |-> receipt.stale,
                  orphan |-> receipt.orphan]
  <2>1. receipt = [phase |-> receipt.phase, seen |-> receipt.seen, ok |-> receipt.ok,
                   stale |-> receipt.stale, orphan |-> receipt.orphan]
    BY DEF OwnTypes, Receipts
  <2> QED BY <1>4, <2>1
<1>6. OwnTypes'
  <2>1. receipt' \in Receipts
    BY <1>1, <1>5 DEF OwnTypes, Receipts
  <2> QED BY <2>1 DEF OwnTypes
<1>7. LiveRead' <=> LiveRead BY <1>2, <1>5 DEF LiveRead
<1>8. LiveRead => there = disk[Head(probes).file] BY DEF OwnParts, ReadInv, there
<1>9. SaveInv' BY DEF OwnParts, SaveInv, Stands
<1>10. OrderInv' BY DEF OwnParts, OrderInv
<1>11. QueueInv' BY DEF OwnParts, QueueInv, Stands, Saved
<1>12. NotedInv' BY DEF OwnParts, NotedInv, Stands, Has, Saved, Sets
<1>13. SeenInv'
  <2> SUFFICES ASSUME LiveRead, NEW f \in Files, Head(probes).file = f PROVE there = disk[f]
    BY <1>5, <1>7 DEF OwnParts, SeenInv, Stands, LiveRead
  <2> QED BY <1>8
<1>14. ReadInv'
  <2> SUFFICES ASSUME LiveRead, there \in own[Head(probes).file]
               PROVE  fingerprints[Head(probes).file] = there
    BY <1>5, <1>7 DEF OwnParts, ReadInv
  <2> DEFINE f == Head(probes).file
  <2>1. f \in Files /\ Stands(f) /\ ~leaving /\ checking = NoCheck /\ IsProbe(Head(probes)) /\ probes # <<>>
    BY <1>0, <1>8 DEF OwnParts, ReadInv, Known, Stands, LiveRead
  <2>2. ~Sets(f) BY <2>1 DEF Sets, NoCheck
  <2>3. ~Has(Saved(f))
    <3> SUFFICES ASSUME NEW i \in 1 .. Len(probes), probes[i] = Saved(f) PROVE FALSE BY DEF Has
    <3>1. probes \in Seq(Known) /\ 1 \in 1 .. Len(probes) /\ Head(probes) = probes[1]
      BY <2>1 DEF OwnTypes
    <3>2. probes[i].kind = "saved" /\ probes[i].file = f BY DEF Saved, Command
    <3>3. i # 1 BY <2>1, <3>1, <3>2 DEF IsProbe
    <3>4. 1 < i BY <3>3
    <3> QED BY <3>1, <3>2, <3>4 DEF OwnParts, OrderInv
  <2>4. fingerprints[f] = disk[f] BY <2>1, <2>2, <2>3 DEF OwnParts, NotedInv
  <2> QED BY <1>8, <2>4
<1>15. CheckInv' BY DEF OwnParts, CheckInv
<1>16. OwnSaveIsQuiet' BY DEF OwnParts, OwnSaveIsQuiet
<1> QED BY <1>6, <1>9, <1>10, <1>11, <1>12, <1>13, <1>14, <1>15, <1>16 DEF OwnParts

(* The task's result is taken. *)
LEMMA BatchKeeps ==
    ASSUME OwnTypes, OwnParts,
           UNCHANGED <<disk, writes, own, fingerprints, probes, receipt, loading, saving, leaving>>,
           TakeBatch
    PROVE  OwnTypes' /\ OwnParts'
<1>1. /\ checking.phase = "done" /\ checking' = NoCheck
      /\ \/ /\ checking.kind = "changed" /\ ~checking.stale
            /\ prepared' = [file |-> checking.file, seen |-> checking.seen, ok |-> checking.ok]
         \/ prepared' = prepared
  BY DEF TakeBatch
<1>2. ~LiveRead /\ ~LiveRead' BY <1>1 DEF OwnParts, ReadInv, LiveRead, NoCheck
<1>3. OwnTypes'
  <2>1. checking' \in Checks
        /\ checking'.phase = "none"
    BY <1>1 DEF Checks, NoCheck, Some
  <2>2. checking.file \in Files /\ checking.seen \in Nat /\ checking.ok \in BOOLEAN BY <1>1 DEF OwnTypes, Checks
  <2>3. prepared' \in Changes /\ (prepared' = NoChange \/ prepared'.file \in Files)
    <3>1. CASE prepared' = prepared BY <3>1 DEF OwnTypes
    <3>2. CASE prepared' = [file |-> checking.file, seen |-> checking.seen, ok |-> checking.ok]
      BY <2>2, <3>2 DEF Changes, Some
    <3> QED BY <1>1, <3>1, <3>2
  <2>4. UNCHANGED <<disk, writes, own, fingerprints, probes, receipt, loading, saving, leaving>> OBVIOUS
  <2> QED BY <1>1, <2>1, <2>3, <2>4 DEF OwnTypes
<1>4. \A f : ~Sets(f) /\ ~Sets(f)' BY <1>1 DEF Sets, NoCheck
<1>5. SaveInv' BY DEF OwnParts, SaveInv, Stands
<1>6. OrderInv' BY DEF OwnParts, OrderInv
<1>7. QueueInv' BY DEF OwnParts, QueueInv, Stands, Saved
<1>8. NotedInv' BY <1>4 DEF OwnParts, NotedInv, Stands, Has, Saved
<1>9. (checking.kind = "changed" /\ ~checking.stale /\ checking.ok) =>
          checking.seen \notin own[checking.file]
  BY <1>1 DEF OwnParts, CheckInv
<1>10. SeenInv'
  <2> SUFFICES ASSUME ~leaving, NEW f \in Files, Stands(f), prepared'.file = f, prepared'.ok PROVE FALSE
    BY <1>1, <1>2 DEF OwnParts, SeenInv, Stands, NoCheck
  <2>1. CASE prepared' = prepared BY <2>1 DEF OwnParts, SeenInv
  <2>2. CASE /\ checking.kind = "changed" /\ ~checking.stale
             /\ prepared' = [file |-> checking.file, seen |-> checking.seen, ok |-> checking.ok]
    BY <1>1, <1>9, <2>2 DEF OwnParts, SeenInv, Stands
  <2> QED BY <1>1, <2>1, <2>2
<1>11. ReadInv' BY <1>2 DEF ReadInv
<1>12. CheckInv' BY <1>1 DEF CheckInv, NoCheck
<1>13. OwnSaveIsQuiet'
  <2>1. CASE prepared' = prepared BY <2>1 DEF OwnParts, OwnSaveIsQuiet
  <2>2. CASE /\ checking.kind = "changed" /\ ~checking.stale
             /\ prepared' = [file |-> checking.file, seen |-> checking.seen, ok |-> checking.ok]
    BY <1>9, <2>2 DEF OwnSaveIsQuiet
  <2> QED BY <1>1, <2>1, <2>2
<1> QED BY <1>3, <1>5, <1>6, <1>7, <1>8, <1>10, <1>11, <1>12, <1>13 DEF OwnParts

(* The first command goes to the task. *)
LEMMA HandedOver ==
    ASSUME OwnTypes, OwnParts,
           UNCHANGED <<disk, writes, own, fingerprints, prepared, loading, saving, leaving>>,
           SubmitCheck, ~leaving, checking = NoCheck, prepared = NoChange
    PROVE  OwnTypes' /\ OwnParts'
<1> DEFINE head == Head(probes)
<1>1. /\ probes # <<>> /\ probes \in Seq(Known) /\ head \in Known /\ Len(probes) \in Nat
      /\ 1 \in 1 .. Len(probes) /\ head = probes[1]
      /\ probes' \in Seq(Known) /\ Len(probes') = Len(probes) - 1
      /\ \A i \in 1 .. Len(probes') : i + 1 \in 1 .. Len(probes) /\ probes'[i] = probes[i + 1]
  <2>1. probes # <<>> /\ probes \in Seq(Known) /\ probes' = Tail(probes) BY DEF OwnTypes, SubmitCheck
  <2> QED BY <2>1
<1>2. /\ checking' = [kind |-> head.kind, file |-> head.file, seen |-> checking'.seen,
                      ok |-> checking'.ok, phase |-> "queued", stale |-> FALSE]
      /\ \/ /\ IsProbe(head) /\ LiveRead /\ receipt.phase = "ready" /\ receipt' = NoReceipt
            /\ checking'.seen = receipt.seen /\ checking'.ok = receipt.ok
         \/ /\ ~IsProbe(head) /\ receipt' = receipt
            /\ checking'.seen = head.hash /\ checking'.ok = TRUE
  BY DEF SubmitCheck, Check, LiveRead
<1>3. head.kind \in CommandKinds /\ head.file \in Files /\ head.hash \in Nat BY <1>1 DEF Known
<1>4. receipt.seen \in Nat /\ receipt.ok \in BOOLEAN BY DEF OwnTypes, Receipts
<1> HIDE DEF head
<1>5. checking'.kind = head.kind /\ checking'.file = head.file /\ checking'.phase = "queued" /\ ~checking'.stale
  BY <1>2
<1>6. OwnTypes'
  <2>1. checking' \in Checks
    <3>1. checking'.seen \in Nat /\ checking'.ok \in BOOLEAN BY <1>2, <1>3, <1>4
    <3>2. head.kind \in CommandKinds \cup {"none", "changed", "checked", "cancelled"} /\ head.file \in Some
          /\ "queued" \in {"none", "queued", "done"}
      BY <1>3 DEF Some
    <3>4. FALSE \in BOOLEAN OBVIOUS
    <3> HIDE DEF Checks
    <3>5. [kind |-> head.kind, file |-> head.file, seen |-> checking'.seen, ok |-> checking'.ok,
           phase |-> "queued", stale |-> FALSE] \in Checks
      BY <3>1, <3>2, <3>4, CheckOf
    <3> QED BY <1>2, <3>5
  <2>2. receipt' \in Receipts
    <3>1. NoReceipt \in Receipts BY ReceiptOf DEF NoReceipt
    <3> QED BY <1>2, <3>1 DEF OwnTypes
  <2>3. UNCHANGED <<disk, writes, own, fingerprints, prepared, loading, saving, leaving>> OBVIOUS
  <2> QED BY <1>1, <1>3, <1>5, <2>1, <2>2, <2>3 DEF OwnTypes
<1>7. ~LiveRead'
  <2>1. CASE receipt' = NoReceipt BY <2>1 DEF LiveRead, NoReceipt
  <2>2. CASE ~IsProbe(head) /\ receipt' = receipt BY <2>2 DEF LiveRead, OwnParts, ReadInv, head
  <2> QED BY <1>2, <2>1, <2>2
<1>8. SaveInv' BY DEF OwnParts, SaveInv, Stands
<1>9. OrderInv'
  <2> SUFFICES ASSUME NEW i \in 1 .. Len(probes'), NEW j \in 1 .. Len(probes'), i < j,
                      probes'[j].kind = "saved"
               PROVE  probes'[i].file # probes'[j].file
    BY DEF OrderInv
  <2>1. i + 1 < j + 1 OBVIOUS
  <2>2. /\ i + 1 \in 1 .. Len(probes) /\ j + 1 \in 1 .. Len(probes)
        /\ probes'[i] = probes[i + 1] /\ probes'[j] = probes[j + 1]
    BY <1>1
  <2>3. OrderInv BY DEF OwnParts
  <2> QED BY <2>1, <2>2, <2>3 DEF OrderInv
<1>10. QueueInv'
  <2> SUFFICES ASSUME NEW f \in Files, Stands(f), NEW i \in 1 .. Len(probes'), probes'[i].file = f
               PROVE  IsProbe(probes'[i]) \/ probes'[i] = Saved(f)
    BY DEF QueueInv, Stands, Saved
  <2> QED BY <1>1 DEF OwnParts, QueueInv
<1>11. NotedInv'
  <2> SUFFICES ASSUME NEW f \in Files, Stands(f)
               PROVE  \/ \E i \in 1 .. Len(probes') : probes'[i] = Saved(f)
                      \/ Sets(f)' /\ checking'.seen = disk[f]
                      \/ ~Sets(f)' /\ fingerprints[f] = disk[f]
    BY DEF NotedInv, Stands, Saved, Has
  <2>0. ~Sets(f) BY DEF Sets, NoCheck
  <2>1. CASE head.file = f /\ ~IsProbe(head)
    <3>1. head = Saved(f) BY <1>1, <2>1 DEF OwnParts, QueueInv
    <3>2. checking'.kind = "saved" /\ checking'.seen = disk[f] BY <1>2, <1>5, <2>1, <3>1 DEF Saved, Command
    <3> QED BY <1>5, <2>1, <3>2 DEF Sets
  <2>2. CASE head.file # f \/ IsProbe(head)
    <3>1. ~Sets(f)' BY <1>5, <2>2 DEF Sets, IsProbe
    <3>2. ASSUME NEW i \in 1 .. Len(probes), probes[i] = Saved(f)
          PROVE  \E k \in 1 .. Len(probes') : probes'[k] = Saved(f)
      <4>1. head # Saved(f) BY <2>2 DEF Saved, Command, IsProbe
      <4>2. i # 1 BY <1>1, <3>2, <4>1
      <4>3. i - 1 \in 1 .. Len(probes') /\ i - 1 + 1 = i BY <1>1, <4>2
      <4> QED BY <1>1, <3>2, <4>3
    <3> QED BY <2>0, <3>1, <3>2 DEF OwnParts, NotedInv, Has
  <2> QED BY <2>1, <2>2
<1>12. SeenInv'
  <2> SUFFICES ASSUME NEW f \in Files, Stands(f), head.file = f, checking'.ok, IsProbe(head)
               PROVE  checking'.seen = disk[f]
    BY <1>3, <1>5, <1>7 DEF OwnParts, SeenInv, Stands, IsProbe, CommandKinds
  <2> QED BY <1>2 DEF OwnParts, SeenInv, head
<1>13. ReadInv' BY <1>7 DEF ReadInv
<1>14. CheckInv'
  <2>1. checking'.kind # "changed" BY <1>3, <1>5 DEF CommandKinds
  <2> SUFFICES ASSUME checking'.ok, checking'.seen \in own[head.file], head.kind = "probe"
               PROVE  fingerprints[head.file] = checking'.seen
    BY <1>5, <2>1 DEF CheckInv
  <2> QED BY <1>2 DEF OwnParts, ReadInv, head, IsProbe
<1>15. OwnSaveIsQuiet' BY DEF OwnParts, OwnSaveIsQuiet
<1> QED BY <1>6, <1>8, <1>9, <1>10, <1>11, <1>12, <1>13, <1>14, <1>15 DEF OwnParts

(* The task: it sets the fingerprint, or compares. *)
LEMMA TaskKeeps ==
    ASSUME OwnTypes, OwnParts, CheckTask PROVE OwnTypes' /\ OwnParts'
<1> DEFINE f == checking.file
           differs == checking.kind = "probe" /\ (~checking.ok \/ fingerprints[f] # checking.seen)
           finding == IF differs THEN "changed" ELSE "checked"
<1>1. /\ checking.phase = "queued"
      /\ UNCHANGED <<disk, writes, own, probes, receipt, prepared, loading, saving, leaving>>
  BY DEF CheckTask, watchVars, system, editing
<1>2. \/ /\ fingerprints' = IF Accepts THEN [fingerprints EXCEPT ![f] = checking.seen] ELSE fingerprints
         /\ checking' = [checking EXCEPT !.phase = "done", !.kind = finding]
      \/ /\ leaving /\ fingerprints' = fingerprints
         /\ checking' = [checking EXCEPT !.phase = "done", !.kind = "cancelled"]
  BY DEF CheckTask
<1>3. /\ checking = [kind |-> checking.kind, file |-> f, seen |-> checking.seen, ok |-> checking.ok,
                     phase |-> "queued", stale |-> checking.stale]
      /\ f \in Files /\ checking.seen \in Nat /\ checking.ok \in BOOLEAN /\ checking.stale \in BOOLEAN
      /\ f \in Some /\ checking.kind \in CommandKinds
  BY <1>1 DEF OwnTypes, Checks
<1> HIDE DEF f, finding
<1>4. PICK k \in {"changed", "checked", "cancelled"} :
          /\ checking' = [kind |-> k, file |-> f, seen |-> checking.seen, ok |-> checking.ok,
                          phase |-> "done", stale |-> checking.stale]
          /\ \/ /\ fingerprints' = IF Accepts THEN [fingerprints EXCEPT ![f] = checking.seen] ELSE fingerprints
                /\ k = finding
             \/ leaving /\ fingerprints' = fingerprints /\ k = "cancelled"
  <2>1. finding \in {"changed", "checked"} BY DEF finding
  <2>2. CASE checking' = [checking EXCEPT !.phase = "done", !.kind = finding]
             /\ fingerprints' = IF Accepts THEN [fingerprints EXCEPT ![f] = checking.seen] ELSE fingerprints
    <3>1. checking' = [kind |-> finding, file |-> f, seen |-> checking.seen, ok |-> checking.ok,
                       phase |-> "done", stale |-> checking.stale]
      <4>1. checking \in Checks BY DEF OwnTypes
      <4>2. checking' = [checking EXCEPT !.phase = "done", !.kind = finding] BY <2>2
      <4> QED BY <4>1, <4>2, CheckMoves DEF f
    <3> QED BY <2>1, <2>2, <3>1
  <2>3. CASE /\ leaving /\ fingerprints' = fingerprints
             /\ checking' = [checking EXCEPT !.phase = "done", !.kind = "cancelled"]
    <3>1. checking' = [kind |-> "cancelled", file |-> f, seen |-> checking.seen, ok |-> checking.ok,
                       phase |-> "done", stale |-> checking.stale]
      <4>1. checking \in Checks BY DEF OwnTypes
      <4>2. checking' = [checking EXCEPT !.phase = "done", !.kind = "cancelled"] BY <2>3
      <4> QED BY <4>1, <4>2, CheckMoves DEF f
    <3> QED BY <2>3, <3>1
  <2> QED BY <1>2, <2>2, <2>3
<1>5. OwnTypes'
  <2>1. checking' \in Checks
    <3>1. k \in CommandKinds \cup {"none", "changed", "checked", "cancelled"}
          /\ "done" \in {"none", "queued", "done"}
      OBVIOUS
    <3> QED BY <1>3, <1>4, <3>1, CheckOf
  <2>2. fingerprints' \in [Files -> Int] BY <1>3, <1>4 DEF OwnTypes
  <2>3. checking'.phase = "done" /\ checking'.file = f BY <1>4
  <2> QED BY <1>1, <1>3, <2>1, <2>2, <2>3 DEF OwnTypes
<1>6. ~LiveRead /\ ~LiveRead'
  <2>1. ~LiveRead BY <1>1 DEF OwnParts, ReadInv, NoCheck
  <2> QED BY <1>1, <2>1 DEF LiveRead
<1>7. \A g : ~Sets(g)' BY <1>4 DEF Sets
<1>8. SaveInv' BY <1>1 DEF OwnParts, SaveInv, Stands
<1>9. OrderInv' BY <1>1 DEF OwnParts, OrderInv
<1>10. QueueInv' BY <1>1 DEF OwnParts, QueueInv, Stands, Saved
<1>11. NotedInv'
  <2> SUFFICES ASSUME ~leaving, NEW g \in Files, Stands(g)
               PROVE  Has(Saved(g)) \/ fingerprints'[g] = disk[g]
    BY <1>1, <1>7 DEF NotedInv, Stands, Saved, Has
  <2>0. fingerprints' = IF Accepts THEN [fingerprints EXCEPT ![f] = checking.seen] ELSE fingerprints
    BY <1>4
  <2>1. CASE Sets(g) /\ checking.seen = disk[g]
    <3>1. Accepts /\ g = f BY <2>1 DEF Sets, Accepts, f
    <3> QED BY <1>3, <2>0, <2>1, <3>1 DEF OwnTypes
  <2>2. CASE ~Sets(g) /\ fingerprints[g] = disk[g]
    <3>1. disk[g] \in Nat /\ fingerprints[g] # Unknown BY <2>2 DEF OwnTypes, Unknown
    <3>2. g = f => ~Accepts BY <1>1, <2>2, <3>1 DEF Sets, Accepts, f
    <3> QED BY <1>3, <2>0, <2>2, <3>2 DEF OwnTypes
  <2> QED BY <2>1, <2>2 DEF OwnParts, NotedInv
<1>12. SeenInv'
  <2> SUFFICES ASSUME ~leaving, NEW g \in Files, Stands(g), f = g, ~checking.stale, checking.ok,
                      k = "changed"
               PROVE  checking.seen = disk[g]
    BY <1>1, <1>4, <1>6 DEF OwnParts, SeenInv, Stands, IsProbe
  <2>1. checking.kind = "probe" BY <1>4 DEF finding
  <2> QED BY <1>1, <2>1 DEF OwnParts, SeenInv, IsProbe, f
<1>13. ReadInv' BY <1>6 DEF ReadInv
<1>14. CheckInv'
  <2> SUFFICES ASSUME ~checking.stale, checking.ok, checking.seen \in own[f], k = "changed" PROVE FALSE
    BY <1>1, <1>4 DEF CheckInv
  <2>1. checking.kind = "probe" /\ fingerprints[f] # checking.seen BY <1>4 DEF finding
  <2> QED BY <1>1, <2>1 DEF OwnParts, CheckInv, f
<1>15. OwnSaveIsQuiet' BY <1>1 DEF OwnParts, OwnSaveIsQuiet
<1> QED BY <1>5, <1>8, <1>9, <1>10, <1>11, <1>12, <1>13, <1>14, <1>15 DEF OwnParts

(* Somebody writes: the content is new. *)
LEMMA PutKeeps ==
    ASSUME OwnTypes, OwnParts,
           UNCHANGED <<own, fingerprints, probes, receipt, checking, prepared, loading, leaving>>,
           NEW f \in Files, NEW c \in {0, NewContent}, writes' = writes + 1,
           disk' = [disk EXCEPT ![f] = c],
           \/ saving' = saving
           \/ /\ c = NewContent /\ saving.file = f /\ saving # NoSave
              /\ saving' = [saving EXCEPT !.phase = "written", !.content = NewContent]
    PROVE  OwnTypes' /\ OwnParts'
<1>1. /\ c \in Nat /\ c # NewContent => c = 0
      /\ NewContent = 3 + writes /\ writes \in Nat
  BY DEF NewContent, OwnTypes
<1>2. disk'[f] = c /\ \A g \in Files : g # f => disk'[g] = disk[g] BY DEF OwnTypes
<1>3. c \notin own[f] BY <1>1 DEF OwnParts, SaveInv, OwnTypes
<1>4. \A g \in Files : Stands(g)' => Stands(g) /\ disk'[g] = disk[g] BY <1>2, <1>3 DEF Stands
<1>5. \/ saving' = saving
      \/ /\ saving' = [file |-> f, content |-> NewContent, phase |-> "written"]
         /\ c = NewContent /\ loading = NoChange
  <2>1. CASE /\ c = NewContent /\ saving.file = f /\ saving # NoSave
             /\ saving' = [saving EXCEPT !.phase = "written", !.content = NewContent]
    <3>1. saving = [file |-> f, content |-> saving.content, phase |-> saving.phase] BY <2>1 DEF OwnTypes
    <3>2. saving' = [file |-> f, content |-> NewContent, phase |-> "written"] BY <2>1, <3>1
    <3> QED BY <2>1, <3>2 DEF OwnParts, SaveInv
  <2> QED BY <2>1
<1>6. OwnTypes'
  <2>1. disk' \in [Files -> Nat] /\ writes' \in Nat BY <1>1 DEF OwnTypes
  <2>2. /\ saving' \in [file : Some, content : Nat, phase : {"none", "writing", "written", "failed"}]
        /\ saving' = NoSave \/ (saving'.file \in Files /\ saving'.phase # "none")
    <3>1. CASE saving' = saving BY <3>1 DEF OwnTypes
    <3>2. CASE saving' = [file |-> f, content |-> NewContent, phase |-> "written"]
      BY <1>1, <3>2 DEF Some
    <3> QED BY <1>5, <3>1, <3>2
  <2> QED BY <2>1, <2>2 DEF OwnTypes
<1>7. SaveInv'
  <2>1. \A g \in Files : disk'[g] < 3 + writes'
    <3> TAKE g \in Files
    <3>1. disk[g] \in Nat /\ disk[g] < 3 + writes BY DEF OwnTypes, OwnParts, SaveInv
    <3> QED BY <1>1, <1>2, <3>1
  <2>2. \A g \in Files : \A d \in own[g] : 3 <= d /\ d < 3 + writes'
    <3> TAKE g \in Files
    <3> TAKE d \in own[g]
    <3>1. d \in Nat /\ 3 <= d /\ d < 3 + writes BY DEF OwnTypes, OwnParts, SaveInv
    <3> QED BY <1>1, <3>1
  <2>3. saving' # NoSave => loading = NoChange BY <1>5 DEF OwnParts, SaveInv
  <2>4. saving'.phase = "written" => /\ 3 <= saving'.content /\ saving'.content < 3 + writes'
                                     /\ ~(disk'[saving'.file] \in own[saving'.file])
    <3>1. CASE saving' = saving
      <4> SUFFICES ASSUME saving.phase = "written"
                   PROVE  3 <= saving.content /\ saving.content < 3 + writes'
                         /\ ~(disk'[saving.file] \in own[saving.file])
        BY <3>1 DEF Stands
      <4>1. saving.content \in Nat /\ saving.file \in Files BY DEF OwnTypes, NoSave
      <4>2. ~Stands(saving.file) BY DEF OwnParts, SaveInv
      <4>3. ~(disk'[saving.file] \in own[saving.file]) BY <1>4, <4>1, <4>2 DEF Stands
      <4> QED BY <1>1, <4>1, <4>3 DEF OwnParts, SaveInv
    <3>2. CASE /\ c = NewContent
               /\ saving' = [file |-> f, content |-> NewContent, phase |-> "written"]
      <4>1. ~(disk'[f] \in own[f]) BY <1>2, <1>3
      <4>2. saving'.file = f /\ saving'.content = 3 + writes BY <1>1, <3>2
      <4> QED BY <1>1, <4>1, <4>2 DEF Stands
    <3> QED BY <1>5, <3>1, <3>2
  <2>5. leaving => probes = <<>> BY DEF SaveInv, OwnParts
  <2> QED BY <2>1, <2>2, <2>3, <2>4, <2>5 DEF SaveInv, Stands
<1>8. OrderInv' BY DEF OwnParts, OrderInv
<1>9. QueueInv' BY <1>4 DEF OwnParts, QueueInv, Saved
<1>10. NotedInv' BY <1>4 DEF OwnParts, NotedInv, Saved, Has, Sets
<1>11. SeenInv' BY <1>4 DEF OwnParts, SeenInv, LiveRead
<1>12. ReadInv' BY DEF OwnParts, ReadInv, LiveRead
<1>13. CheckInv' BY DEF OwnParts, CheckInv
<1>14. OwnSaveIsQuiet' BY DEF OwnParts, OwnSaveIsQuiet
<1> QED BY <1>6, <1>7, <1>8, <1>9, <1>10, <1>11, <1>12, <1>13, <1>14 DEF OwnParts

(* A save is acknowledged. *)
LEMMA AcceptKeeps ==
    ASSUME OwnTypes, OwnParts, AcceptSave PROVE OwnTypes' /\ OwnParts'
<1> USE AuthorAssumption DEF AuthorAssumption
<1> DEFINE f == saving.file
           new == saving.content
           t == WithRoom(Without(f))
           notes == ~leaving /\ Len(t) < Commands
           note == Command("saved", f, new)
<1>1. /\ saving.phase = "written" /\ saving' = NoSave
      /\ UNCHANGED <<disk, writes, fingerprints, loading, leaving>>
      /\ probes' = IF notes THEN Append(t, note) ELSE t
      /\ own' = IF notes THEN [own EXCEPT ![f] = @ \cup {new}] ELSE own
      /\ prepared' = NoChange
      /\ checking' = [checking EXCEPT !.stale = (checking.phase # "none")]
  BY DEF AcceptSave, OutOfDate, watchVars, system
<1>2. f \in Files /\ new \in Nat /\ saving # NoSave BY <1>1 DEF OwnTypes, NoSave
<1>3. Others(t, f) BY OthersLeft DEF OwnTypes
<1>4. note \in Known BY <1>2 DEF note, Command, Known, CommandKinds
<1>5. ~Stands(f) /\ 3 <= new /\ new < 3 + writes /\ loading = NoChange
  BY <1>1, <1>2 DEF OwnParts, SaveInv
<1>6. /\ own' \in [Files -> SUBSET Nat]
      /\ \A g \in Files : g # f => own'[g] = own[g]
      /\ own'[f] = own[f] \/ (notes /\ own'[f] = own[f] \cup {new})
  BY <1>1, <1>2 DEF OwnTypes
<1>7. note.kind = "saved" /\ note.file = f BY DEF note, Command
<1> HIDE DEF notes, note, t, new, f
<1>8. /\ t \in Seq(Known) /\ probes' \in Seq(Known) /\ Len(t) \in Nat
      /\ \A i \in 1 .. Len(t) : i \in 1 .. Len(probes') /\ probes'[i] = t[i]
      /\ \A i \in 1 .. Len(probes') :
             i \in 1 .. Len(t) \/ (notes /\ i = Len(t) + 1 /\ probes'[i] = note)
      /\ notes => Len(t) + 1 \in 1 .. Len(probes') /\ probes'[Len(t) + 1] = note
  <2>1. t \in Seq(Known) BY <1>3 DEF Others
  <2>2. CASE notes
    <3>1. probes' = Append(t, note) BY <1>1, <2>2
    <3> QED BY <1>4, <2>1, <2>2, <3>1
  <2>3. CASE ~notes BY <1>1, <2>1, <2>3
  <2> QED BY <2>2, <2>3
<1>9. \A i \in 1 .. Len(t) : \E a \in 1 .. Len(probes) : probes[a] = t[i] /\ t[i].file # f
  BY <1>3 DEF Others
<1>10. ~LiveRead'
  <2>1. \/ receipt' = [receipt EXCEPT !.orphan = (receipt.phase # "none")]
        \/ receipt' = [receipt EXCEPT !.stale = (receipt.phase # "none")]
    BY DEF AcceptSave, OutOfDate
  <2> QED BY <2>1 DEF LiveRead, OwnTypes, Receipts
<1>11. /\ checking' \in Checks
       /\ checking'.kind = checking.kind /\ checking'.file = checking.file /\ checking'.seen = checking.seen
       /\ checking'.ok = checking.ok /\ checking'.phase = checking.phase
       /\ checking'.phase # "none" => checking'.stale
       /\ checking.phase = "none" => checking' = NoCheck
  <2>1. checking \in Checks BY DEF OwnTypes
  <2>2. checking = [kind |-> checking.kind, file |-> checking.file, seen |-> checking.seen,
                    ok |-> checking.ok, phase |-> checking.phase, stale |-> checking.stale]
    BY <2>1 DEF Checks
  <2> DEFINE b == checking.phase # "none"
  <2>3. b \in BOOLEAN OBVIOUS
  <2>4. checking' = [checking EXCEPT !.stale = b] BY <1>1
  <2> HIDE DEF b
  <2>5. checking' = [kind |-> checking.kind, file |-> checking.file, seen |-> checking.seen,
                     ok |-> checking.ok, phase |-> checking.phase, stale |-> b]
    BY <2>2, <2>4
  <2>6. checking' \in Checks BY <2>1, <2>3, <2>5 DEF Checks
  <2>7. checking.phase = "none" => checking' = NoCheck
    <3> SUFFICES ASSUME checking.phase = "none" PROVE checking' = NoCheck OBVIOUS
    <3>1. checking = NoCheck BY DEF OwnTypes
    <3>2. b = FALSE BY DEF b
    <3>3. checking.kind = "none" /\ checking.file = NoFile /\ checking.seen = 0 /\ checking.ok = FALSE
      BY <3>1 DEF NoCheck
    <3> QED BY <2>5, <3>2, <3>3 DEF NoCheck
  <2> QED BY <2>5, <2>6, <2>7 DEF b
<1>12. OwnTypes'
  <2>1. receipt' \in Receipts
    <3>1. (receipt.phase # "none") \in BOOLEAN OBVIOUS
    <3> QED BY <3>1 DEF AcceptSave, OutOfDate, OwnTypes, Receipts
  <2>2. saving' \in [file : Some, content : Nat, phase : {"none", "writing", "written", "failed"}]
    BY <1>1 DEF NoSave, Some
  <2>3. prepared' \in Changes BY <1>1 DEF NoChange, Changes, Some
  <2>4. /\ checking'.phase # "none" => checking'.file \in Files
        /\ checking'.phase = "none" => checking' = NoCheck
        /\ checking'.phase = "queued" => checking'.kind \in CommandKinds
    BY <1>11 DEF OwnTypes
  <2> QED BY <1>1, <1>6, <1>8, <1>11, <2>1, <2>2, <2>3, <2>4 DEF OwnTypes
<1>13. SaveInv'
  <2>1. \A g \in Files : \A d \in own'[g] : 3 <= d /\ d < 3 + writes
    BY <1>5, <1>6 DEF OwnParts, SaveInv
  <2>2. leaving => probes' = <<>>
    <3> SUFFICES ASSUME leaving PROVE probes' = <<>> OBVIOUS
    <3>1. Len(probes) = 0 BY DEF OwnParts, SaveInv
    <3>2. Len(t) = 0 BY <1>8, <1>9, <3>1
    <3>3. ~notes BY DEF notes
    <3> QED BY <1>1, <1>8, <3>2, <3>3
  <2>3. saving'.phase # "written" BY <1>1 DEF NoSave
  <2> QED BY <1>1, <2>1, <2>2, <2>3 DEF OwnParts, SaveInv
<1>14. OrderInv'
  <2> SUFFICES ASSUME NEW i \in 1 .. Len(probes'), NEW j \in 1 .. Len(probes'), i < j,
                      probes'[j].kind = "saved"
               PROVE  probes'[i].file # probes'[j].file
    BY DEF OrderInv
  <2>1. i \in 1 .. Len(t) /\ probes'[i] = t[i] BY <1>8
  <2>2. CASE j \in 1 .. Len(t)
    <3>1. PICK a \in 1 .. Len(probes), b \in 1 .. Len(probes) : a < b /\ probes[a] = t[i] /\ probes[b] = t[j]
      BY <1>3, <2>1, <2>2 DEF Others
    <3>2. probes'[j] = t[j] BY <1>8, <2>2
    <3> QED BY <2>1, <3>1, <3>2 DEF OwnParts, OrderInv
  <2>3. CASE probes'[j] = note BY <1>7, <1>9, <2>1, <2>3
  <2> QED BY <1>8, <2>2, <2>3
<1>15. \A g \in Files : (disk'[g] \in own'[g]) =>
           \/ g # f /\ Stands(g)
           \/ g = f /\ notes /\ note = Saved(f)
  <2> TAKE g \in Files
  <2>1. CASE g # f BY <1>1, <1>6, <2>1 DEF Stands
  <2>2. CASE g = f BY <1>1, <1>5, <1>6, <2>2 DEF Stands, note, Saved
  <2> QED BY <2>1, <2>2
<1>16. QueueInv'
  <2> SUFFICES ASSUME ~leaving, NEW g \in Files, disk'[g] \in own'[g], NEW i \in 1 .. Len(probes'),
                      probes'[i].file = g
               PROVE  IsProbe(probes'[i]) \/ probes'[i] = Saved(g)
    BY <1>1 DEF QueueInv, Stands, Saved
  <2>1. CASE g # f /\ Stands(g)
    <3>1. i \in 1 .. Len(t) /\ probes'[i] = t[i] BY <1>7, <1>8, <2>1
    <3>2. PICK a \in 1 .. Len(probes) : probes[a] = t[i] BY <1>9, <3>1
    <3> QED BY <2>1, <3>1, <3>2 DEF OwnParts, QueueInv
  <2>2. CASE g = f /\ note = Saved(f)
    <3>1. CASE i \in 1 .. Len(t) BY <1>8, <1>9, <2>2, <3>1
    <3>2. CASE probes'[i] = note BY <2>2, <3>2
    <3> QED BY <1>8, <3>1, <3>2
  <2> QED BY <1>15, <2>1, <2>2
<1>17. NotedInv'
  <2> SUFFICES ASSUME ~leaving, NEW g \in Files, disk'[g] \in own'[g]
               PROVE  \/ \E i \in 1 .. Len(probes') : probes'[i] = Saved(g)
                      \/ Sets(g) /\ checking.seen = disk[g]
                      \/ ~Sets(g) /\ fingerprints[g] = disk[g]
    BY <1>1, <1>11 DEF NotedInv, Stands, Saved, Has, Sets
  <2>1. CASE g = f /\ notes /\ note = Saved(f) BY <1>8, <2>1
  <2>2. CASE g # f /\ Stands(g)
    <3>1. ASSUME NEW a \in 1 .. Len(probes), probes[a] = Saved(g)
          PROVE  \E i \in 1 .. Len(probes') : probes'[i] = Saved(g)
      <4>1. probes[a].file # f /\ ~IsProbe(probes[a]) BY <2>2, <3>1 DEF Saved, Command, IsProbe
      <4>2. PICK i \in 1 .. Len(t) : t[i] = probes[a] BY <1>3, <4>1 DEF Others
      <4> QED BY <1>8, <3>1, <4>2
    <3> QED BY <2>2, <3>1 DEF OwnParts, NotedInv, Has
  <2> QED BY <1>15, <2>1, <2>2
<1>18. SeenInv'
  <2>1. NoFile \notin Files BY WatcherAssumption DEF WatcherAssumption
  <2>2. prepared'.file = NoFile /\ loading'.file = NoFile BY <1>1, <1>5 DEF NoChange
  <2> QED BY <1>10, <1>11, <2>1, <2>2 DEF SeenInv
<1>19. ReadInv' BY <1>10 DEF ReadInv
<1>20. CheckInv' BY <1>11 DEF CheckInv
<1>21. OwnSaveIsQuiet' BY <1>1 DEF OwnSaveIsQuiet, NoChange
<1> QED BY <1>12, <1>13, <1>14, <1>16, <1>17, <1>18, <1>19, <1>20, <1>21 DEF OwnParts

(* The editor leaves: what is waiting is given up. *)
LEMMA LeaveKeeps ==
    ASSUME OwnTypes, OwnParts,
           UNCHANGED <<disk, writes, own, fingerprints, receipt, checking, prepared, loading, saving>>,
           leaving' = TRUE, probes' = <<>>
    PROVE  OwnTypes' /\ OwnParts'
<1>1. OwnTypes' BY DEF OwnTypes
<1>2. SaveInv' BY DEF OwnParts, SaveInv, Stands
<1>3. OrderInv' BY DEF OrderInv
<1>4. QueueInv' /\ NotedInv' /\ SeenInv' BY DEF QueueInv, NotedInv, SeenInv
<1>5. ReadInv' BY DEF ReadInv, LiveRead
<1>6. CheckInv' BY DEF OwnParts, CheckInv
<1>7. OwnSaveIsQuiet' BY DEF OwnParts, OwnSaveIsQuiet
<1> QED BY <1>1, <1>2, <1>3, <1>4, <1>5, <1>6, <1>7 DEF OwnParts

(* A save begins, fails, or is given up. *)
LEMMA SavingKeeps ==
    ASSUME OwnTypes, OwnParts,
           UNCHANGED <<disk, writes, own, fingerprints, probes, receipt, checking, prepared, loading, leaving>>,
           saving' \in [file : Some, content : Nat, phase : {"none", "writing", "written", "failed"}],
           saving' = NoSave \/ (saving'.file \in Files /\ saving'.phase # "none"),
           saving'.phase # "written", saving' # NoSave => loading = NoChange
    PROVE  OwnTypes' /\ OwnParts'
<1>1. OwnTypes' BY DEF OwnTypes
<1>2. SaveInv' BY DEF OwnParts, SaveInv, Stands
<1>3. OrderInv' BY DEF OwnParts, OrderInv
<1>4. QueueInv' BY DEF OwnParts, QueueInv, Stands, Saved
<1>5. NotedInv' BY DEF OwnParts, NotedInv, Stands, Has, Saved, Sets
<1>6. SeenInv' BY DEF OwnParts, SeenInv, Stands, LiveRead
<1>7. ReadInv' BY DEF OwnParts, ReadInv, LiveRead
<1>8. CheckInv' BY DEF OwnParts, CheckInv
<1>9. OwnSaveIsQuiet' BY DEF OwnParts, OwnSaveIsQuiet
<1> QED BY <1>1, <1>2, <1>3, <1>4, <1>5, <1>6, <1>7, <1>8, <1>9 DEF OwnParts

(* Nothing the invariant reads has changed. *)
LEMMA SameKeeps ==
    ASSUME OwnTypes, OwnParts, UNCHANGED ownVars PROVE OwnTypes' /\ OwnParts'
<1> USE DEF ownVars
<1>1. OwnTypes' BY DEF OwnTypes
<1>2. SaveInv' BY DEF OwnParts, SaveInv, Stands
<1>3. OrderInv' BY DEF OwnParts, OrderInv
<1>4. QueueInv' BY DEF OwnParts, QueueInv, Stands, Saved
<1>5. NotedInv' BY DEF OwnParts, NotedInv, Stands, Has, Saved, Sets
<1>6. SeenInv' BY DEF OwnParts, SeenInv, Stands, LiveRead
<1>7. ReadInv' BY DEF OwnParts, ReadInv, LiveRead
<1>8. CheckInv' BY DEF OwnParts, CheckInv
<1>9. OwnSaveIsQuiet' BY DEF OwnParts, OwnSaveIsQuiet
<1> QED BY <1>1, <1>2, <1>3, <1>4, <1>5, <1>6, <1>7, <1>8, <1>9 DEF OwnParts

LEMMA CommandKnown ==
    ASSUME NEW k \in CommandKinds, NEW f \in Files, NEW hash \in Nat
    PROVE  Command(k, f, hash) \in Known
BY DEF Command, Known

LEMMA PumpKeeps == ASSUME OwnInv, Pump PROVE OwnInv'
<1> USE AuthorAssumption, WatcherAssumption DEF AuthorAssumption, WatcherAssumption
<1>0. /\ UNCHANGED <<disk, writes, raised, watched, loading, saving, leaving, own>>
      /\ loading = NoChange /\ saving = NoSave
  BY DEF Pump, watchVars, system, watcher, FrameRuns, Scan, TakeBatch, records
<1>1. OwnTypes /\ OwnParts /\ NameTypes BY DEF OwnInv
<1>2. CASE TakeBatch
  <2>1. UNCHANGED <<fingerprints, probes, receipt, listed>> BY <1>2 DEF TakeBatch
  <2>2. OwnTypes' /\ OwnParts' BY <1>0, <1>1, <1>2, <2>1, BatchKeeps
  <2>3. inbox' \in Seq(Some)
    <3>1. checking.file \in Some BY <1>1 DEF OwnTypes, Checks
    <3>2. inbox' = inbox \/ inbox' = Append(inbox, checking.file) BY <1>2 DEF TakeBatch
    <3> QED BY <1>1, <3>1, <3>2 DEF NameTypes
  <2> QED BY <1>0, <1>1, <2>1, <2>2, <2>3 DEF OwnInv, NameTypes
<1>3. CASE DropRead /\ UNCHANGED <<fingerprints, probes, scan, listed, baseline, rescans, checking, prepared,
                                   inbox, records>>
  <2>1. receipt' = NoReceipt BY <1>3 DEF DropRead
  <2>2. OwnTypes' /\ OwnParts' BY <1>0, <1>1, <1>3, <2>1, ReadKeeps
  <2> QED BY <1>0, <1>1, <1>3, <2>2 DEF OwnInv, NameTypes
<1>4. CASE ~leaving /\ checking = NoCheck /\ prepared = NoChange /\ Scan
  <2>1. probes = <<>> /\ UNCHANGED <<fingerprints, receipt, checking, prepared, inbox>> BY <1>4 DEF Scan
  <2>2. \A files \in SUBSET Files :
            /\ Probes(files) \in Seq(Known) /\ \A i \in 1 .. Len(Probes(files)) : IsProbe(Probes(files)[i])
    <3> TAKE files \in SUBSET Files
    <3> DEFINE asks == IF baseline THEN "baseline" ELSE "probe"
               S == {Command(asks, f, 0) : f \in files}
    <3>1. asks \in {"baseline", "probe"} BY DEF asks
    <3>2. IsFiniteSet(files) BY FS_Subset
    <3>3. IsFiniteSet(S)
      <4> DEFINE g == [f \in files |-> Command(asks, f, 0)]
      <4>1. S = {g[f] : f \in files} OBVIOUS
      <4> HIDE DEF g, S
      <4> QED BY <3>2, <4>1, ImagesFinite
    <3>4. \A c \in S : c \in Known /\ IsProbe(c) BY <3>1 DEF Command, Known, CommandKinds, IsProbe
    <3>5. Probes(files) = SetToSeq(S) BY DEF Probes
    <3> HIDE DEF S
    <3>6. SetToSeq(S) \in Seq(S) BY <3>3, SequenceOf
    <3> QED BY <3>4, <3>5, <3>6
  <2>3. listed' \in SUBSET Files /\ (probes' = <<>> \/ \E files \in SUBSET Files : probes' = Probes(files))
    <3>1. listed \in SUBSET Files BY <1>1 DEF NameTypes
    <3>2. CASE listed' = {f \in Files : fingerprints[f] # Unknown} /\ probes' = Probes(listed') BY <3>2
    <3>3. CASE listed' = {} /\ probes' = Probes(listed) BY <3>1, <3>3
    <3>4. CASE listed' = listed /\ probes' = probes BY <2>1, <3>1, <3>4
    <3>5. CASE listed' = {} /\ probes' = probes BY <2>1, <3>5
    <3> QED BY <1>4, <3>2, <3>3, <3>4, <3>5 DEF Scan
  <2>4. probes' \in Seq(Known) /\ \A i \in 1 .. Len(probes') : IsProbe(probes'[i])
    <3>1. CASE probes' = <<>> BY <3>1
    <3> QED BY <2>2, <2>3, <3>1
  <2>5. OwnTypes' /\ OwnParts' BY <1>0, <1>1, <1>4, <2>1, <2>4, ScanKeeps
  <2> QED BY <1>0, <1>1, <2>1, <2>3, <2>5 DEF OwnInv, NameTypes
<1>5. CASE /\ ~leaving /\ checking = NoCheck /\ prepared = NoChange /\ AskRead
           /\ UNCHANGED <<fingerprints, scan, listed, baseline, rescans, prepared, inbox, records>>
  <2>1. /\ probes # <<>> /\ IsProbe(Head(probes)) /\ receipt' = [NoReceipt EXCEPT !.phase = "asked"]
        /\ UNCHANGED <<probes, checking>>
    BY <1>5 DEF AskRead
  <2>2. OwnTypes' /\ OwnParts' BY <1>0, <1>1, <1>5, <2>1, ReadKeeps
  <2> QED BY <1>0, <1>1, <1>5, <2>2 DEF OwnInv, NameTypes
<1>6. CASE /\ ~leaving /\ checking = NoCheck /\ prepared = NoChange /\ SubmitCheck
           /\ UNCHANGED <<fingerprints, scan, listed, baseline, rescans, prepared, inbox, records>>
  <2>2. OwnTypes' /\ OwnParts' BY <1>0, <1>1, <1>6, HandedOver
  <2> QED BY <1>0, <1>1, <1>6, <2>2 DEF OwnInv, NameTypes
<1> QED BY <1>2, <1>3, <1>4, <1>5, <1>6 DEF Pump

LEMMA OthersKeep ==
    ASSUME OwnInv, FileAnswers \/ CheckTask \/ AcceptSave \/ FailSave PROVE OwnInv'
<1>1. OwnTypes /\ OwnParts /\ NameTypes BY DEF OwnInv
<1>2. CASE FileAnswers
  <2>1. UNCHANGED <<disk, writes, raised, watched, fingerprints, probes, checking, prepared, inbox, loading,
                    saving, leaving, own>>
    BY <1>2 DEF FileAnswers, system, watcher, editing, records
  <2>2. CASE AnswerRead
    <3>1. OwnTypes' /\ OwnParts' BY <1>1, <2>1, <2>2, AnswerKeeps
    <3>2. UNCHANGED listed BY <2>2 DEF AnswerRead
    <3> QED BY <1>1, <2>1, <3>1, <3>2 DEF OwnInv, NameTypes
  <2>3. CASE AnswerList
    <3>1. UNCHANGED receipt /\ listed' \subseteq Files BY <1>1, <2>3 DEF AnswerList, NameTypes
    <3>2. OwnTypes' /\ OwnParts' BY <1>1, <2>1, <3>1, SameKeeps DEF ownVars
    <3> QED BY <1>1, <2>1, <3>1, <3>2 DEF OwnInv, NameTypes
  <2> QED BY <1>2, <2>2, <2>3 DEF FileAnswers
<1>3. CASE CheckTask
  <2>1. UNCHANGED <<raised, watched, listed, inbox>>
    BY <1>3 DEF CheckTask, watchVars, system, watcher, editing
  <2> QED BY <1>1, <1>3, <2>1, TaskKeeps DEF OwnInv, NameTypes
<1>4. CASE AcceptSave
  <2>1. UNCHANGED <<raised, watched, listed, inbox>>
    BY <1>4 DEF AcceptSave, watchVars, system, watcher
  <2> QED BY <1>1, <1>4, <2>1, AcceptKeeps DEF OwnInv, NameTypes
<1>5. CASE FailSave
  <2>1. /\ UNCHANGED <<raised, watched, listed, inbox, disk, writes, own, fingerprints, probes, receipt,
                       checking, prepared, loading, leaving>>
        /\ saving' = NoSave
    BY <1>5 DEF FailSave, watchVars, system, watcher, service, records
  <2>2. /\ saving' \in [file : Some, content : Nat, phase : {"none", "writing", "written", "failed"}]
        /\ saving'.phase # "written"
    BY <2>1 DEF NoSave, Some
  <2>3. OwnTypes' /\ OwnParts' BY <1>1, <2>1, <2>2, SavingKeeps
  <2> QED BY <1>1, <2>1, <2>3 DEF OwnInv, NameTypes
<1> QED BY <1>2, <1>3, <1>4, <1>5

LEMMA InspectKeeps == ASSUME OwnInv, Inspect PROVE OwnInv'
<1> USE WatcherAssumption DEF WatcherAssumption
<1>0. /\ UNCHANGED <<disk, writes, raised, watched, own, fingerprints, receipt, checking, saving, leaving,
                     listed>>
      /\ loading = NoChange /\ saving = NoSave /\ ~leaving /\ inbox # <<>>
  BY DEF Inspect, system, FrameRuns
<1>1. OwnTypes /\ OwnParts /\ NameTypes BY DEF OwnInv
<1>2. inbox' \in Seq(Some) /\ Head(inbox) \in Some
  <2>1. inbox \in Seq(Some) BY <1>1 DEF NameTypes
  <2>2. inbox' = inbox \/ inbox' = Tail(inbox) BY DEF Inspect, Observe
  <2> QED BY <1>0, <2>1, <2>2
<1>3. OwnTypes' /\ OwnParts'
  <2>1. CASE Head(inbox) = NoFile /\ UNCHANGED <<probes, prepared, loading>>
    BY <1>0, <1>1, <2>1, SameKeeps DEF ownVars
  <2>2. CASE /\ Head(inbox) # NoFile /\ Enqueue(Command("probe", Head(inbox), 0))
             /\ UNCHANGED <<prepared, loading>>
    <3>1. PICK c : c = Command("probe", Head(inbox), 0) OBVIOUS
    <3>2. c \in Known /\ IsProbe(c)
      <4>1. Head(inbox) \in Files BY <1>2, <2>2 DEF Some
      <4>2. "probe" \in CommandKinds /\ 0 \in Nat BY DEF CommandKinds
      <4> QED BY <3>1, <4>1, <4>2, CommandKnown DEF IsProbe, Command
    <3>3. probes' = probes \/ probes' = Append(probes, c) BY <2>2, <3>1 DEF Enqueue
    <3> QED BY <1>0, <1>1, <2>2, <3>2, <3>3, FrameKeeps
  <2>3. CASE prepared # NoChange /\ Observe(prepared)
    <3>0. prepared.file \in Files /\ prepared.seen \in Nat /\ prepared \in Changes
      BY <1>1, <2>3 DEF OwnTypes, Changes
    <3>1. prepared' = NoChange BY <2>3 DEF Observe
    <3>2. CASE probes' = probes /\ (loading' = loading \/ (prepared.ok /\ loading' = prepared))
      <4>1. PICK c : c = Command("probe", prepared.file, 0) OBVIOUS
      <4>2. c \in Known /\ IsProbe(c)
        <5>1. "probe" \in CommandKinds /\ 0 \in Nat BY DEF CommandKinds
        <5> QED BY <3>0, <4>1, <5>1, CommandKnown DEF IsProbe, Command
      <4> QED BY <1>0, <1>1, <2>3, <3>1, <3>2, <4>2, FrameKeeps
    <3>3. CASE prepared.ok /\ Applied(prepared) /\ loading' = loading
      <4>1. PICK c : c = Command("applied", prepared.file, prepared.seen) OBVIOUS
      <4>2. c \in Known /\ c.kind = "applied" /\ c.file = prepared.file
        <5>1. "applied" \in CommandKinds BY DEF CommandKinds
        <5> QED BY <3>0, <4>1, <5>1, CommandKnown DEF Command
      <4>3. ~Stands(c.file) BY <1>0, <1>1, <3>0, <3>3, <4>2 DEF OwnParts, SeenInv
      <4>4. probes' = probes \/ probes' = Append(probes, c) BY <3>3, <4>1 DEF Applied, Enqueue
      <4> QED BY <1>0, <1>1, <3>1, <3>3, <4>2, <4>3, <4>4, FrameKeeps
    <3> QED BY <2>3, <3>2, <3>3 DEF Observe
  <2> QED BY <2>1, <2>2, <2>3 DEF Inspect
<1> QED BY <1>0, <1>1, <1>2, <1>3 DEF OwnInv, NameTypes

LEMMA EndLoadKeeps == ASSUME OwnInv, EndLoad PROVE OwnInv'
<1>0. /\ UNCHANGED <<disk, writes, raised, watched, inbox, own, fingerprints, receipt, checking, prepared, saving,
                     leaving, listed>>
      /\ loading # NoChange /\ loading' = NoChange /\ ~leaving
  BY DEF EndLoad, system, watcher
<1>1. OwnTypes /\ OwnParts /\ NameTypes BY DEF OwnInv
<1>2. loading.file \in Files /\ loading.seen \in Nat BY <1>0, <1>1 DEF OwnTypes, Changes
<1>3. PICK c : c = Command("applied", loading.file, loading.seen) OBVIOUS
<1>4. c \in Known /\ c.kind = "applied" /\ c.file = loading.file
  <2>1. "applied" \in CommandKinds BY DEF CommandKinds
  <2> QED BY <1>2, <1>3, <2>1, CommandKnown DEF Command
<1>5. ~Stands(c.file) BY <1>0, <1>1, <1>2, <1>4 DEF OwnParts, SeenInv
<1>6. probes' = probes \/ probes' = Append(probes, c) BY <1>3 DEF EndLoad, Applied, Enqueue
<1>7. OwnTypes' /\ OwnParts' BY <1>0, <1>1, <1>4, <1>5, <1>6, FrameKeeps
<1> QED BY <1>0, <1>1, <1>7 DEF OwnInv, NameTypes

(* What only passes names on. *)
LEMMA NamesKeep ==
    ASSUME OwnInv, UNCHANGED ownVars, raised' \subseteq Files, watched' \in Seq(Some), inbox' \in Seq(Some),
           listed' = listed
    PROVE  OwnInv'
BY SameKeeps DEF OwnInv, NameTypes

LEMMA EmitNames ==
    ASSUME watched \in Seq(Some), NEW event \in Some, Emit(event) PROVE watched' \in Seq(Some)
<1> USE WatcherAssumption DEF WatcherAssumption
<1> DEFINE w == IF Len(watched) = WatchCapacity THEN Tail(watched) ELSE watched
<1>1. w \in Seq(Some)
  <2>1. CASE Len(watched) = WatchCapacity
    <3>1. watched # <<>> BY <2>1
    <3> QED BY <2>1, <3>1
  <2> QED BY <2>1
<1>2. watched' = Append(w, event) BY DEF Emit
<1> HIDE DEF w
<1> QED BY <1>1, <1>2

LEMMA UserKeeps ==
    ASSUME OwnInv, \/ TakeEvents \/ Edit \/ AuthorAsks \/ LeaveAuthor
                   \/ \E f \in Files : BeginSave(f)
    PROVE  OwnInv'
<1> USE WatcherAssumption DEF WatcherAssumption
<1>1. OwnTypes /\ OwnParts /\ NameTypes BY DEF OwnInv
<1>2. CASE TakeEvents
  <2>1. UNCHANGED ownVars /\ UNCHANGED <<raised, listed>>
    BY <1>2 DEF TakeEvents, ownVars, system, records
  <2>2. watched' \in Seq(Some) /\ inbox' \in Seq(Some)
    <3>0. watched \in Seq(Some) /\ inbox \in Seq(Some) BY <1>1 DEF NameTypes
    <3>1. CASE watched # <<>> /\ watched' = Tail(watched) /\ inbox' = Append(inbox, Head(watched))
      BY <3>0, <3>1
    <3>2. CASE UNCHANGED <<watched, inbox>> BY <3>0, <3>2
    <3> QED BY <1>2, <3>1, <3>2 DEF TakeEvents
  <2> QED BY <1>1, <2>1, <2>2, NamesKeep DEF NameTypes
<1>3. CASE Edit
  <2>1. UNCHANGED ownVars /\ UNCHANGED <<raised, watched, inbox, listed>>
    BY <1>3 DEF Edit, ownVars, system, watcher, service, records
  <2> QED BY <1>1, <2>1, NamesKeep DEF NameTypes
<1>4. CASE AuthorAsks
  <2>1. UNCHANGED ownVars /\ UNCHANGED <<inbox, listed>>
    BY <1>4 DEF AuthorAsks, Restart, ownVars, system, watcher, editing, records
  <2>2. raised' \in {raised, {}} /\ watched' \in {watched, <<>>}
    BY <1>4 DEF AuthorAsks, Restart, system, watcher
  <2>3. raised' \subseteq Files /\ watched' \in Seq(Some) /\ inbox' \in Seq(Some) /\ listed' = listed
    <3>1. raised \subseteq Files /\ watched \in Seq(Some) /\ inbox \in Seq(Some) BY <1>1 DEF NameTypes
    <3>2. watched' \in Seq(Some)
      <4>1. <<>> \in Seq(Some) OBVIOUS
      <4> QED BY <2>2, <3>1, <4>1
    <3>3. raised' \subseteq Files BY <2>2, <3>1
    <3> QED BY <2>1, <3>1, <3>2, <3>3
  <2> QED BY <2>1, <2>3, NamesKeep
<1>5. CASE LeaveAuthor
  <2>1. /\ UNCHANGED <<disk, writes, own, fingerprints, receipt, checking, prepared, loading, saving>>
        /\ leaving' = TRUE /\ probes' = <<>> /\ UNCHANGED <<raised, watched, inbox, listed>>
    BY <1>5 DEF LeaveAuthor, system, watcher, editing, records
  <2>2. OwnTypes' /\ OwnParts' BY <1>1, <2>1, LeaveKeeps
  <2> QED BY <1>1, <2>1, <2>2 DEF OwnInv, NameTypes
<1>6. ASSUME NEW f \in Files, BeginSave(f) PROVE OwnInv'
  <2>1. /\ UNCHANGED <<raised, watched, listed, inbox, disk, writes, own, fingerprints, probes, receipt,
                       checking, prepared, loading, leaving>>
        /\ loading = NoChange /\ saving' = [NoSave EXCEPT !.file = f, !.phase = "writing"]
    BY <1>6 DEF BeginSave, watchVars, system, watcher, service, records, FrameRuns
  <2>2. saving' = [file |-> f, content |-> 0, phase |-> "writing"] BY <2>1 DEF NoSave
  <2>3. /\ saving' \in [file : Some, content : Nat, phase : {"none", "writing", "written", "failed"}]
        /\ saving'.file \in Files /\ saving'.phase = "writing"
    BY <2>2 DEF Some
  <2>4. OwnTypes' /\ OwnParts' BY <1>1, <2>1, <2>3, SavingKeeps
  <2> QED BY <1>1, <2>1, <2>4 DEF OwnInv, NameTypes
<1> QED BY <1>2, <1>3, <1>4, <1>5, <1>6

LEMMA WritesKeep ==
    ASSUME OwnInv,
           WriteSave \/ ((WatcherThread \/ \E f \in Files : Change(f)) /\ UNCHANGED authorVars)
    PROVE  OwnInv'
<1> USE WatcherAssumption DEF WatcherAssumption
<1>1. OwnTypes /\ OwnParts /\ NameTypes BY DEF OwnInv
<1>2. CASE WriteSave
  <2>1. UNCHANGED <<watched, listed, inbox, own, fingerprints, probes, receipt, checking, prepared, loading, leaving>>
    BY <1>2 DEF WriteSave, watcher, service, records
  <2>2. saving.phase = "writing" /\ saving.file \in Files /\ saving # NoSave
    BY <1>1, <1>2 DEF WriteSave, OwnTypes, NoSave
  <2>3. CASE /\ Put(saving.file, NewContent)
             /\ saving' = [saving EXCEPT !.phase = "written", !.content = NewContent]
    <3>1. writes' = writes + 1 /\ disk' = [disk EXCEPT ![saving.file] = NewContent] /\ raised' \subseteq Files
      BY <1>1, <2>2, <2>3 DEF Put, NameTypes
    <3>2. NewContent \in {0, NewContent} OBVIOUS
    <3>3. OwnTypes' /\ OwnParts' BY <1>1, <2>1, <2>2, <2>3, <3>1, <3>2, PutKeeps
    <3> QED BY <1>1, <2>1, <3>1, <3>3 DEF OwnInv, NameTypes
  <2>4. CASE saving' = [saving EXCEPT !.phase = "failed"] /\ UNCHANGED system
    <3>1. saving = [file |-> saving.file, content |-> saving.content, phase |-> saving.phase]
      BY <1>1 DEF OwnTypes
    <3>2. saving' = [file |-> saving.file, content |-> saving.content, phase |-> "failed"]
      BY <2>4, <3>1
    <3>3. /\ saving' \in [file : Some, content : Nat, phase : {"none", "writing", "written", "failed"}]
          /\ saving'.file \in Files /\ saving'.phase = "failed"
      BY <1>1, <2>2, <3>2 DEF OwnTypes, Some
    <3>4. UNCHANGED <<disk, writes, raised>> BY <2>4 DEF system
    <3>5. loading = NoChange BY <1>1, <2>2 DEF OwnParts, SaveInv
    <3>6. OwnTypes' /\ OwnParts' BY <1>1, <2>1, <3>3, <3>4, <3>5, SavingKeeps
    <3> QED BY <1>1, <2>1, <3>4, <3>6 DEF OwnInv, NameTypes
  <2> QED BY <1>2, <2>3, <2>4 DEF WriteSave
<1>3. UNCHANGED authorVars =>
          UNCHANGED <<listed, inbox, own, fingerprints, probes, receipt, checking, prepared, loading, saving, leaving>>
  BY DEF authorVars, service, editing, records
<1>4. ASSUME NEW f \in Files, Change(f), UNCHANGED authorVars PROVE OwnInv'
  <2>1. PICK c \in {0, NewContent} : Put(f, c) BY <1>4 DEF Change
  <2>2. /\ writes' = writes + 1 /\ disk' = [disk EXCEPT ![f] = c] /\ raised' \subseteq Files
        /\ watched' = watched
    BY <1>1, <1>4, <2>1 DEF Put, Change, watcher, NameTypes
  <2>3. OwnTypes' /\ OwnParts' BY <1>1, <1>3, <1>4, <2>2, PutKeeps
  <2> QED BY <1>1, <1>3, <1>4, <2>2, <2>3 DEF OwnInv, NameTypes
<1>5. CASE WatchBreaks /\ UNCHANGED authorVars
  <2>1. UNCHANGED <<disk, writes, raised>> /\ Emit(NoFile) /\ NoFile \in Some BY <1>5 DEF WatchBreaks, Some
  <2>2. watched' \in Seq(Some) BY <1>1, <2>1, EmitNames DEF NameTypes
  <2> QED BY <1>1, <1>3, <1>5, <2>1, <2>2, NamesKeep DEF NameTypes, ownVars
<1>6. ASSUME NEW f \in Files, Notice(f), UNCHANGED authorVars PROVE OwnInv'
  <2>1. UNCHANGED <<disk, writes>> /\ raised' = raised \ {f} /\ Emit(f) /\ f \in Some BY <1>6 DEF Notice, Some
  <2>2. watched' \in Seq(Some) BY <1>1, <2>1, EmitNames DEF NameTypes
  <2> QED BY <1>1, <1>3, <1>6, <2>1, <2>2, NamesKeep DEF NameTypes, ownVars
<1> QED BY <1>2, <1>4, <1>5, <1>6 DEF WatcherThread

LEMMA OwnInit == WatchInit({d \in [Files -> 0 .. 1] : d[OpenFile] = 1}, "running") /\ AuthorInit => OwnInv
<1> USE AuthorAssumption, WatcherAssumption DEF AuthorAssumption, WatcherAssumption
<1> SUFFICES ASSUME WatchInit({d \in [Files -> 0 .. 1] : d[OpenFile] = 1}, "running"), AuthorInit PROVE OwnInv
  OBVIOUS
<1>1. disk \in [Files -> 0 .. 1] /\ writes = 0 /\ raised = {} /\ watched = <<>> BY DEF WatchInit
<1>2. /\ inbox = <<>> /\ listed = {} /\ probes = <<>> /\ receipt = NoReceipt /\ checking = NoCheck
      /\ prepared = NoChange /\ loading = NoChange /\ saving = NoSave /\ leaving = FALSE
      /\ own = [f \in Files |-> {}] /\ fingerprints = [f \in Files |-> Unknown]
  BY DEF AuthorInit
<1>3. NameTypes BY <1>1, <1>2 DEF NameTypes
<1>4. OwnTypes
  <2>1. receipt \in Receipts BY <1>2, ReceiptOf DEF NoReceipt
  <2>2. checking \in Checks BY <1>2 DEF NoCheck, Checks, Some
  <2>3. prepared \in Changes /\ loading \in Changes BY <1>2 DEF NoChange, Changes, Some
  <2>4. saving \in [file : Some, content : Nat, phase : {"none", "writing", "written", "failed"}]
    BY <1>2 DEF NoSave, Some
  <2>5. disk \in [Files -> Nat] /\ fingerprints \in [Files -> Int] /\ probes \in Seq(Known)
        /\ own \in [Files -> SUBSET Nat]
    BY <1>1, <1>2 DEF Unknown
  <2>6. checking.phase = "none" BY <1>2 DEF NoCheck
  <2> QED BY <1>1, <1>2, <2>1, <2>2, <2>3, <2>4, <2>5, <2>6 DEF OwnTypes
<1>5. \A f \in Files : ~Stands(f) BY <1>2 DEF Stands
<1>6. ~LiveRead BY <1>2 DEF LiveRead, NoReceipt
<1>7. SaveInv BY <1>1, <1>2 DEF SaveInv, NoSave
<1>8. OrderInv BY <1>2 DEF OrderInv
<1>9. QueueInv /\ NotedInv /\ SeenInv BY <1>5 DEF QueueInv, NotedInv, SeenInv
<1>10. ReadInv BY <1>6 DEF ReadInv
<1>11. CheckInv BY <1>2 DEF CheckInv, NoCheck
<1>12. OwnSaveIsQuiet BY <1>2 DEF OwnSaveIsQuiet, NoChange
<1> QED BY <1>3, <1>4, <1>7, <1>8, <1>9, <1>10, <1>11, <1>12 DEF OwnInv, OwnParts

(* For every number of files, writes and commands: a change that is prepared for the editor is
   never the content of a save of its own that the service took note of, whichever reading, check
   or prepared change the save met (author_asset_service.cpp: acknowledge). *)
THEOREM OwnSavesCorrect == FilesSpec => []OwnSaveIsQuiet
<1> DEFINE Inv == IF part = "author" THEN OwnInv ELSE prepared = NoChange
<1>1. FilesInit => Inv
  <2> SUFFICES ASSUME FilesInit PROVE Inv OBVIOUS
  <2>1. AuthorInit /\ prepared = NoChange BY DEF FilesInit, AuthorInit
  <2>2. CASE part = "author" BY <2>1, <2>2, OwnInit DEF FilesInit, PartInit
  <2> QED BY <2>1, <2>2
<1>2. Inv /\ [FilesNext]_fileVars => Inv'
  <2> SUFFICES ASSUME Inv, [FilesNext]_fileVars PROVE Inv' OBVIOUS
  <2>1. CASE part # "author"
    <3>1. part' = part /\ prepared' = prepared
      BY <2>1 DEF FilesNext, IsClient, IsAuthor, IsImport, fileVars, authorVars, service
    <3> QED BY <2>1, <3>1
  <2>2. CASE part = "author" /\ UNCHANGED fileVars
    <3>1. part' = part /\ UNCHANGED ownVars /\ UNCHANGED <<raised, watched, inbox, listed>>
      BY <2>2 DEF fileVars, watchVars, authorVars, system, watcher, service, editing, records, ownVars
    <3> QED BY <2>2, <3>1, NamesKeep DEF OwnInv, NameTypes
  <2>3. CASE part = "author" /\ FilesNext
    <3>1. part' = part /\ AuthorSteps BY <2>3 DEF FilesNext, IsClient, IsAuthor, IsImport
    <3>2. OwnInv' BY <2>3, <3>1, PumpKeeps, OthersKeep, InspectKeeps, EndLoadKeeps, UserKeeps, WritesKeep
      DEF AuthorSteps, AuthorFrame, AuthorUser
    <3> QED BY <2>3, <3>1, <3>2
  <2> QED BY <2>1, <2>2, <2>3
<1>3. Inv => OwnSaveIsQuiet BY DEF OwnInv, OwnParts, OwnSaveIsQuiet, NoChange
<1> HIDE DEF Inv
<1> QED BY <1>1, <1>2, <1>3, PTL DEF FilesSpec

-----------------------------------------------------------------------------
(***************************************************************************)
(* The imports.                                                             *)
(***************************************************************************)
Imports == [what : {"import"}, file : Files] \cup {Order("external", NoFile)}
Ordered == Imports \cup [what : {"notify"}, file : Files] \cup {Order("cancel", NoFile)}
Parsed == {"parsing", "checking", "committing", "saving"}
Stages == Parsed \cup {"opening"}

\* How many of the first n orders are for a file from outside.
Outside(s, n) == {i \in 1 .. n : s[i].what = "external"}
Copies(s) == Cardinality(Outside(s, Len(s)))

ImportTypes ==
    /\ disk \in [Files -> Nat] /\ writes \in Nat
    /\ indexed \in [Files -> Nat] /\ products \in [Files -> Nat] /\ spare \in [Files -> Nat]
    /\ raised \subseteq Files /\ watched \in Seq(Some) /\ candidates \subseteq Files
    /\ orders \in Seq(Ordered) /\ manual \in Seq(Imports)
    /\ copies \in Nat /\ external \in Nat /\ before \in Nat /\ staged \in Nat
    /\ doing = [what |-> doing.what, file |-> doing.file]

\* A step's place; what it imports has a name, unless it has still to be copied.
PlaceInv ==
    /\ at # "idle" => job = "running"
    /\ at \in Stages => doing.file \in Files
\* The contents are of writes that have been.
WrittenInv ==
    /\ \A f \in Files : disk[f] < 3 + writes
    /\ IF at \in Parsed THEN before # 0 /\ before < 3 + writes ELSE before = 0
\* What was read is what was checked, if the source has not changed since.
TransactionInv ==
    /\ at = "checking" => (disk[doing.file] = before => staged = before)
    /\ at = "committing" => staged = before /\ spare[doing.file] = 0
    /\ at = "saving" => /\ staged = before /\ products[doing.file] = before
                        /\ indexed[doing.file] \in {0, spare[doing.file]}
WholeInv ==
    \A f \in Files :
        indexed[f] \in {0, products[f]} \/ spare[f] # 0 \/ (at = "saving" /\ doing.file = f)
\* An export holds the worker back.
ExportInv == exporting = "running" => paused /\ job # "running"
\* Each copy was asked for, and so is each that is still to be made.
CopyInv == copies + Copies(orders) + Copies(manual) + (IF at = "copying" THEN 1 ELSE 0) <= external

ImportParts == PlaceInv /\ WrittenInv /\ TransactionInv /\ WholeInv /\ ExportInv /\ CopyInv
ImportInv == ImportTypes /\ ImportParts

LEMMA OutsideFinite ==
    ASSUME NEW s, NEW n \in Nat
    PROVE  IsFiniteSet(Outside(s, n)) /\ Cardinality(Outside(s, n)) \in Nat
<1>1. IsFiniteSet(1 .. n) BY FS_Interval
<1>2. Outside(s, n) \in SUBSET (1 .. n) BY DEF Outside
<1> QED BY <1>1, <1>2, FS_Subset, FS_CardinalityType

(* What is appended counts if it is from outside, and so does what is taken from the front. *)
LEMMA CopiesEmpty == Copies(<<>>) = 0
<1>1. Outside(<<>>, Len(<<>>)) = {} BY DEF Outside
<1> QED BY <1>1, FS_EmptySet DEF Copies

LEMMA CopiesOne ==
    ASSUME NEW s, NEW n \in Nat
    PROVE  Cardinality(Outside(s, n + 1)) =
               Cardinality(Outside(s, n)) + (IF s[n + 1].what = "external" THEN 1 ELSE 0)
<1>1. IsFiniteSet(Outside(s, n)) /\ Cardinality(Outside(s, n)) \in Nat BY OutsideFinite
<1>2. n + 1 \notin Outside(s, n) BY DEF Outside
<1>3. CASE s[n + 1].what = "external"
  <2>1. Outside(s, n + 1) = Outside(s, n) \cup {n + 1} BY <1>3 DEF Outside
  <2> QED BY <1>1, <1>2, <1>3, <2>1, FS_AddElement
<1>4. CASE s[n + 1].what # "external"
  <2>1. Outside(s, n + 1) = Outside(s, n) BY <1>4 DEF Outside
  <2> QED BY <1>1, <1>4, <2>1
<1> QED BY <1>3, <1>4

LEMMA CopiesAppend ==
    ASSUME NEW S, NEW s \in Seq(S), NEW e \in S
    PROVE  Copies(Append(s, e)) = Copies(s) + (IF e.what = "external" THEN 1 ELSE 0)
<1> DEFINE t == Append(s, e)
<1>1. /\ Len(s) \in Nat /\ Len(t) = Len(s) + 1 /\ t[Len(s) + 1] = e
      /\ \A i \in 1 .. Len(s) : t[i] = s[i]
  OBVIOUS
<1> HIDE DEF t
<1>2. Outside(t, Len(s)) = Outside(s, Len(s)) BY <1>1 DEF Outside
<1>3. Cardinality(Outside(t, Len(s) + 1)) =
          Cardinality(Outside(t, Len(s))) + (IF t[Len(s) + 1].what = "external" THEN 1 ELSE 0)
  BY <1>1, CopiesOne
<1>4. Copies(t) = Copies(s) + (IF e.what = "external" THEN 1 ELSE 0) BY <1>1, <1>2, <1>3 DEF Copies
<1> QED BY <1>4 DEF t

LEMMA CopiesTail ==
    ASSUME NEW S, NEW s \in Seq(S), s # <<>>
    PROVE  Copies(s) = Copies(Tail(s)) + (IF Head(s).what = "external" THEN 1 ELSE 0)
<1> DEFINE t == Tail(s)
           f == [i \in Outside(t, Len(t)) |-> i + 1]
           T == Outside(s, Len(s)) \ {1}
<1>1. /\ Len(s) \in Nat /\ Len(s) >= 1 /\ Len(t) = Len(s) - 1 /\ Head(s) = s[1]
      /\ \A i \in 1 .. Len(t) : t[i] = s[i + 1]
  OBVIOUS
<1> HIDE DEF t
<1>2. IsFiniteSet(Outside(t, Len(t))) /\ IsFiniteSet(Outside(s, Len(s))) /\ Cardinality(Outside(s, Len(s))) \in Nat
  BY <1>1, OutsideFinite
<1>3. f \in Bijection(Outside(t, Len(t)), T)
  <2>1. \A i \in Outside(t, Len(t)) : i \in Nat /\ f[i] = i + 1 /\ f[i] \in T BY <1>1 DEF Outside
  <2>2. \A j \in T : j - 1 \in Outside(t, Len(t)) /\ f[j - 1] = j
    <3> TAKE j \in T
    <3>1. j \in 1 .. Len(s) /\ j # 1 /\ s[j].what = "external" BY DEF Outside
    <3>2. j - 1 \in 1 .. Len(t) /\ j - 1 + 1 = j BY <1>1, <3>1
    <3>3. t[j - 1] = s[j] BY <1>1, <3>2
    <3>4. j - 1 \in Outside(t, Len(t)) BY <3>1, <3>2, <3>3 DEF Outside
    <3> QED BY <3>2, <3>4
  <2>3. f \in [Outside(t, Len(t)) -> T] BY <2>1
  <2>4. \A i, j \in Outside(t, Len(t)) : f[i] = f[j] => i = j BY <2>1
  <2> HIDE DEF f, T
  <2> QED BY <2>2, <2>3, <2>4 DEF Bijection, Injection, Surjection, IsInjective
<1>4. Cardinality(T) = Cardinality(Outside(t, Len(t))) BY <1>2, <1>3, FS_Bijection DEF ExistsBijection
<1>5. 1 \in Outside(s, Len(s)) <=> Head(s).what = "external" BY <1>1 DEF Outside
<1>6. Cardinality(T) = IF 1 \in Outside(s, Len(s)) THEN Cardinality(Outside(s, Len(s))) - 1
                       ELSE Cardinality(Outside(s, Len(s)))
  BY <1>2, FS_RemoveElement
<1>7. Copies(s) = Copies(t) + (IF Head(s).what = "external" THEN 1 ELSE 0)
  BY <1>2, <1>4, <1>5, <1>6 DEF Copies
<1> QED BY <1>7 DEF t

LEMMA CopiesType == ASSUME NEW S, NEW s \in Seq(S) PROVE Copies(s) \in Nat
BY OutsideFinite DEF Copies

-----------------------------------------------------------------------------
\* The queue the orders are taken into, and what its definition as a fold chooses.
Beginning ==
    [manual |-> manual, candidates |-> candidates, observed |-> observed, sweep |-> sweep,
     left |-> left, scan |-> rescan, done |-> <<>>, uncounted |-> FALSE, refused |-> refused]
Turn(g, s) == IF s = {} THEN Beginning ELSE Take(g[s \ {Max(s)}], orders[Max(s)])
Turns(g) == g = [s \in SUBSET (DOMAIN orders) |-> Turn(g, s)]

LEMMA QueuedIs == Queued = (CHOOSE g : Turns(g))[DOMAIN orders]
BY DEF Queued, FoldLeft, MapThenFoldSet, Turns, Turn, Beginning

LEMMA GreatestIn ==
    ASSUME NEW s, IsFiniteSet(s), s \subseteq Nat, s # {} PROVE Max(s) \in s /\ \A x \in s : x <= Max(s)
<1> DEFINE Bounds == {m \in Nat : \A x \in s : x <= m}
           B == {n \in Nat : \A t \in SUBSET Nat : IsFiniteSet(t) /\ Cardinality(t) = n
                                  => \E m \in Nat : \A x \in t : x <= m}
<1>1. 0 \in B
  <2> SUFFICES ASSUME NEW t \in SUBSET Nat, IsFiniteSet(t), Cardinality(t) = 0
               PROVE \E m \in Nat : \A x \in t : x <= m
    OBVIOUS
  <2> QED BY FS_EmptySet
<1>2. ASSUME NEW n \in Nat, n \in B PROVE n + 1 \in B
  <2> SUFFICES ASSUME NEW t \in SUBSET Nat, IsFiniteSet(t), Cardinality(t) = n + 1
               PROVE \E m \in Nat : \A x \in t : x <= m
    OBVIOUS
  <2>1. t # {} BY FS_EmptySet
  <2>2. PICK y \in t : TRUE BY <2>1
  <2>3. IsFiniteSet(t \ {y}) /\ Cardinality(t \ {y}) = n
    <3>1. IsFiniteSet(t \ {y}) /\ Cardinality(t \ {y}) = Cardinality(t) - 1 BY <2>2, FS_RemoveElement
    <3>2. n + 1 - 1 = n OBVIOUS
    <3> QED BY <3>1, <3>2
  <2>4. PICK m \in Nat : \A x \in t \ {y} : x <= m BY <1>2, <2>3
  <2>5. \A x \in t : x <= m + y BY <2>2, <2>4
  <2> QED BY <2>2, <2>5
<1> HIDE DEF B
<1>3. Cardinality(s) \in B BY <1>1, <1>2, Induction, FS_CardinalityType
<1>4. Bounds # {} BY <1>3, FS_CardinalityType DEF B
<1>5. Bounds \in SUBSET Nat OBVIOUS
<1>6. PICK m \in Bounds : \A k \in Bounds : m <= k
  <2> DEFINE R == OpToRel(<, Nat)
  <2>1. IsWellFoundedOn(R, Nat) BY NatLessThanWellFounded
  <2>2. PICK n \in Bounds : \A k \in Bounds : <<k, n>> \notin R BY <1>4, <2>1, WFMin
  <2>3. \A k \in Bounds : k \in Nat /\ n \in Nat /\ ~(k < n) BY <2>2 DEF OpToRel
  <2> HIDE DEF Bounds
  <2> QED BY <2>3
<1>7. m \in s
  <2> SUFFICES ASSUME m \notin s PROVE FALSE OBVIOUS
  <2>1. \A x \in s : x <= m - 1 /\ m # 0 BY <1>6
  <2>2. m \in Nat /\ m # 0 BY <1>6, <2>1
  <2>3. m - 1 \in Nat /\ m - 1 < m BY <2>2
  <2>4. m - 1 \in Bounds BY <2>1, <2>3
  <2> QED BY <1>6, <2>3, <2>4
<1> QED BY <1>6, <1>7 DEF Max

LEMMA TurnsExist == ASSUME orders \in Seq(Ordered) PROVE \E g : Turns(g)
<1> DEFINE D == DOMAIN orders
           Good(g, n) == \A s \in SUBSET D : Cardinality(s) <= n => g[s] = Turn(g, s)
           B == {n \in Nat : \E g : Good(g, n)}
<1>0. D = 1 .. Len(orders) /\ Len(orders) \in Nat OBVIOUS
<1>1. IsFiniteSet(D) BY <1>0, FS_Interval
<1> HIDE DEF D
<1>2. \A s \in SUBSET D : IsFiniteSet(s) /\ Cardinality(s) \in Nat /\ Cardinality(s) <= Cardinality(D)
  BY <1>1, FS_Subset, FS_CardinalityType
<1>3. \A s \in SUBSET D : s # {} => /\ s \ {Max(s)} \in SUBSET D /\ Cardinality(s) # 0
                                    /\ Cardinality(s \ {Max(s)}) = Cardinality(s) - 1
  <2> TAKE s \in SUBSET D
  <2> HAVE s # {}
  <2>1. s \subseteq Nat BY <1>0
  <2>2. Max(s) \in s BY <1>2, <2>1, GreatestIn
  <2>3. Cardinality(s \ {Max(s)}) = Cardinality(s) - 1 BY <1>2, <2>2, FS_RemoveElement
  <2> QED BY <1>2, <2>3, FS_EmptySet
<1>4. 0 \in B
  <2> DEFINE g == [s \in SUBSET D |-> Beginning]
  <2>1. ASSUME NEW s \in SUBSET D, Cardinality(s) <= 0 PROVE g[s] = Turn(g, s)
    <3>0. Cardinality(s) \in Nat /\ (s # {} => Cardinality(s) # 0) BY <1>2, <1>3
    <3>1. s = {} BY <2>1, <3>0
    <3> QED BY <3>1 DEF Turn
  <2>2. Good(g, 0) BY <2>1
  <2> QED BY <2>2
<1>5. ASSUME NEW n \in Nat, n \in B PROVE n + 1 \in B
  <2>1. PICK g : Good(g, n) BY <1>5
  <2> DEFINE h == [s \in SUBSET D |-> IF Cardinality(s) <= n THEN g[s] ELSE Turn(g, s)]
  <2>2. ASSUME NEW s \in SUBSET D, Cardinality(s) <= n + 1 PROVE h[s] = Turn(h, s)
    <3>1. h[s] = Turn(g, s) BY <2>1
    <3>2. CASE s = {} BY <3>1, <3>2 DEF Turn
    <3>3. CASE s # {}
      <4>1. Cardinality(s \ {Max(s)}) <= n /\ s \ {Max(s)} \in SUBSET D BY <1>2, <1>3, <2>2, <3>3
      <4>2. h[s \ {Max(s)}] = g[s \ {Max(s)}] BY <4>1
      <4> HIDE DEF h
      <4> QED BY <3>1, <3>3, <4>2 DEF Turn
    <3> QED BY <3>2, <3>3
  <2> HIDE DEF h
  <2>3. Good(h, n + 1) BY <2>2
  <2> QED BY <2>3
<1>6. Cardinality(D) \in B
  <2> HIDE DEF B
  <2> QED BY <1>1, <1>4, <1>5, Induction, FS_CardinalityType
<1>7. PICK g : Good(g, Cardinality(D)) BY <1>6
<1> DEFINE h == [s \in SUBSET D |-> g[s]]
<1>8. \A s \in SUBSET D : h[s] = Turn(h, s)
  <2> TAKE s \in SUBSET D
  <2>1. h[s] = Turn(g, s) BY <1>2, <1>7
  <2>2. CASE s = {} BY <2>1, <2>2 DEF Turn
  <2>3. CASE s # {}
    <3>1. h[s \ {Max(s)}] = g[s \ {Max(s)}] BY <1>3, <2>3
    <3> QED BY <2>1, <2>3, <3>1 DEF Turn
  <2> QED BY <2>2, <2>3
<1>9. h = [s \in SUBSET D |-> h[s]] OBVIOUS
<1> HIDE DEF h
<1>10. h = [s \in SUBSET D |-> Turn(h, s)] BY <1>8, <1>9
<1> QED BY <1>10 DEF Turns, D

\* The queue after the first n orders.
Fold == CHOOSE g : Turns(g)
LEMMA FoldSteps ==
    ASSUME orders \in Seq(Ordered)
    PROVE  /\ Queued = Fold[1 .. Len(orders)] /\ Fold[1 .. 0] = Beginning
           /\ \A n \in Nat : n + 1 <= Len(orders) =>
                  Fold[1 .. n + 1] = Take(Fold[1 .. n], orders[n + 1])
<1>1. Turns(Fold) BY TurnsExist DEF Fold
<1>2. DOMAIN orders = 1 .. Len(orders) /\ Len(orders) \in Nat OBVIOUS
<1>3. \A s \in SUBSET (1 .. Len(orders)) : Fold[s] = Turn(Fold, s)
  <2> DEFINE E(s) == Turn(Fold, s)
             g == Fold
  <2>1. g = [s \in SUBSET (1 .. Len(orders)) |-> E(s)] BY <1>1, <1>2 DEF Turns
  <2> HIDE DEF E, g
  <2>2. \A s \in SUBSET (1 .. Len(orders)) : g[s] = E(s) BY <2>1
  <2> QED BY <2>2 DEF E, g
<1>4. Queued = Fold[1 .. Len(orders)] BY <1>2, QueuedIs DEF Fold
<1>5. Fold[1 .. 0] = Beginning
  <2>1. 1 .. 0 = {} /\ 1 .. 0 \in SUBSET (1 .. Len(orders)) OBVIOUS
  <2> QED BY <1>3, <2>1 DEF Turn
<1>6. ASSUME NEW n \in Nat, n + 1 <= Len(orders)
      PROVE  Fold[1 .. n + 1] = Take(Fold[1 .. n], orders[n + 1])
  <2> DEFINE s == 1 .. n + 1
  <2>0. n + 1 \in s /\ \A x \in s : x \in Nat /\ x \in 1 .. Len(orders) BY <1>2, <1>6
  <2>1. s \in SUBSET (1 .. Len(orders)) /\ s # {} /\ s \subseteq Nat /\ n + 1 \in s BY <2>0
  <2>2. \A x \in s : x <= n + 1 OBVIOUS
  <2>3. IsFiniteSet(s) BY FS_Interval
  <2>4. s \ {n + 1} = 1 .. n OBVIOUS
  <2> HIDE DEF s
  <2>5. Max(s) \in s /\ \A x \in s : x <= Max(s) BY <2>1, <2>3, GreatestIn
  <2>6. Max(s) \in Nat /\ Max(s) <= n + 1 /\ n + 1 <= Max(s) BY <2>1, <2>2, <2>5
  <2>7. Max(s) = n + 1 BY <2>6
  <2>8. Fold[s] = Take(Fold[s \ {n + 1}], orders[n + 1]) BY <1>3, <2>1, <2>7 DEF Turn
  <2> QED BY <2>4, <2>8 DEF s
<1> QED BY <1>4, <1>5, <1>6

\* The queue is a record of nothing else, and what an order changes of it.
Fields(q) ==
    q = [manual |-> q.manual, candidates |-> q.candidates, observed |-> q.observed, sweep |-> q.sweep,
         left |-> q.left, scan |-> q.scan, done |-> q.done, uncounted |-> q.uncounted,
         refused |-> q.refused]
Emptied(q, t) ==
    /\ t.manual = <<>> /\ t.candidates = {} /\ t.sweep = {} /\ t.left = {} /\ t.scan = FALSE
    /\ t.done = q.done /\ t.uncounted = q.uncounted /\ t.refused = q.refused
Noticed(q, f, t) ==
    /\ t.manual = q.manual /\ t.sweep = q.sweep /\ t.left = q.left /\ t.scan = q.scan
    /\ t.done = q.done /\ t.refused = q.refused
    /\ \/ t.candidates = q.candidates \cup {f} /\ t.uncounted = q.uncounted
       \/ t.candidates = q.candidates /\ t.uncounted = TRUE
Ordering(q, e, t) ==
    /\ t.candidates = q.candidates /\ t.sweep = q.sweep /\ t.left = q.left /\ t.scan = q.scan
    /\ t.uncounted = q.uncounted
    /\ \/ t.manual = Append(q.manual, e) /\ t.done = q.done /\ t.refused = q.refused
       \/ t.manual = q.manual /\ t.done = Append(q.done, Failure(e.file)) /\ t.refused = TRUE

LEMMA TakeIs ==
    ASSUME NEW q, Fields(q), NEW e
    PROVE  /\ Fields(Take(q, e))
           /\ e.what = "cancel" => Emptied(q, Take(q, e))
           /\ e.what = "notify" => Noticed(q, e.file, Take(q, e))
           /\ e.what \notin {"cancel", "notify"} => Ordering(q, e, Take(q, e))
<1> DEFINE t == Take(q, e)
<1>1. q = [manual |-> q.manual, candidates |-> q.candidates, observed |-> q.observed, sweep |-> q.sweep,
           left |-> q.left, scan |-> q.scan, done |-> q.done, uncounted |-> q.uncounted,
           refused |-> q.refused]
  BY DEF Fields
<1> HIDE DEF t
<1>2. CASE e.what = "cancel"
  <2>1. t = [q EXCEPT !.manual = <<>>, !.candidates = {}, !.observed = [f \in Files |-> 0],
                      !.sweep = {}, !.left = {}, !.scan = FALSE]
    BY <1>2 DEF t, Take
  <2>2. t = [manual |-> <<>>, candidates |-> {}, observed |-> [f \in Files |-> 0], sweep |-> {},
             left |-> {}, scan |-> FALSE, done |-> q.done, uncounted |-> q.uncounted,
             refused |-> q.refused]
    BY <1>1, <2>1
  <2>3. Fields(t) /\ Emptied(q, t) BY <2>2 DEF Fields, Emptied
  <2> QED BY <1>2, <2>3 DEF t
<1>3. CASE e.what = "notify"
  <2>1. t = [q EXCEPT !.candidates = q.candidates \cup {e.file}, !.observed[e.file] = 0]
        \/ t = [q EXCEPT !.uncounted = TRUE]
    BY <1>3 DEF t, Take
  <2>2. CASE t = [q EXCEPT !.candidates = q.candidates \cup {e.file}, !.observed[e.file] = 0]
    <3>1. t = [manual |-> q.manual, candidates |-> q.candidates \cup {e.file},
               observed |-> [q.observed EXCEPT ![e.file] = 0], sweep |-> q.sweep,
               left |-> q.left, scan |-> q.scan, done |-> q.done, uncounted |-> q.uncounted,
               refused |-> q.refused]
      BY <1>1, <2>2
    <3>2. Fields(t) /\ Noticed(q, e.file, t) BY <3>1 DEF Fields, Noticed
    <3> QED BY <1>3, <3>2 DEF t
  <2>3. CASE t = [q EXCEPT !.uncounted = TRUE]
    <3>1. t = [manual |-> q.manual, candidates |-> q.candidates, observed |-> q.observed,
               sweep |-> q.sweep, left |-> q.left, scan |-> q.scan, done |-> q.done,
               uncounted |-> TRUE, refused |-> q.refused]
      BY <1>1, <2>3
    <3>2. Fields(t) /\ Noticed(q, e.file, t) BY <3>1 DEF Fields, Noticed
    <3> QED BY <1>3, <3>2 DEF t
  <2> QED BY <2>1, <2>2, <2>3
<1>4. CASE e.what \notin {"cancel", "notify"}
  <2>1. t = [q EXCEPT !.manual = Append(q.manual, e)]
        \/ t = [q EXCEPT !.done = Append(q.done, Failure(e.file)), !.refused = TRUE]
    BY <1>4 DEF t, Take
  <2>2. CASE t = [q EXCEPT !.manual = Append(q.manual, e)]
    <3>1. t = [manual |-> Append(q.manual, e), candidates |-> q.candidates, observed |-> q.observed,
               sweep |-> q.sweep, left |-> q.left, scan |-> q.scan, done |-> q.done,
               uncounted |-> q.uncounted, refused |-> q.refused]
      BY <1>1, <2>2
    <3>2. Fields(t) /\ Ordering(q, e, t) BY <3>1 DEF Fields, Ordering
    <3> QED BY <1>4, <3>2 DEF t
  <2>3. CASE t = [q EXCEPT !.done = Append(q.done, Failure(e.file)), !.refused = TRUE]
    <3>1. t = [manual |-> q.manual, candidates |-> q.candidates, observed |-> q.observed,
               sweep |-> q.sweep, left |-> q.left, scan |-> q.scan,
               done |-> Append(q.done, Failure(e.file)), uncounted |-> q.uncounted, refused |-> TRUE]
      BY <1>1, <2>3
    <3>2. Fields(t) /\ Ordering(q, e, t) BY <3>1 DEF Fields, Ordering
    <3> QED BY <1>4, <3>2 DEF t
  <2> QED BY <2>1, <2>2, <2>3
<1> QED BY <1>2, <1>3, <1>4 DEF t

\* What is known of the queue then: no more is to be copied than there was and was ordered.
Filled(q, n) ==
    /\ Fields(q) /\ q.manual \in Seq(Imports) /\ q.candidates \subseteq Files
    /\ Copies(q.manual) <= Copies(manual) + Cardinality(Outside(orders, n))

LEMMA TakeKeeps ==
    ASSUME orders \in Seq(Ordered), manual \in Seq(Imports), NEW n \in Nat, n + 1 <= Len(orders),
           NEW q, Filled(q, n)
    PROVE  Filled(Take(q, orders[n + 1]), n + 1)
<1> DEFINE e == orders[n + 1]
           t == Take(q, e)
<1>1. e \in Ordered BY DEF Ordered
<1>2. /\ Fields(t)
      /\ e.what = "cancel" => Emptied(q, t)
      /\ e.what = "notify" => Noticed(q, e.file, t)
      /\ e.what \notin {"cancel", "notify"} => Ordering(q, e, t)
  BY TakeIs DEF Filled
<1>3. Cardinality(Outside(orders, n + 1)) =
          Cardinality(Outside(orders, n)) + (IF e.what = "external" THEN 1 ELSE 0)
  BY CopiesOne
<1>4. /\ Copies(manual) \in Nat /\ Copies(q.manual) \in Nat /\ Cardinality(Outside(orders, n)) \in Nat
      /\ Copies(q.manual) <= Copies(manual) + Cardinality(Outside(orders, n))
  BY CopiesType, OutsideFinite DEF Filled
<1>5. q.manual \in Seq(Imports) /\ q.candidates \subseteq Files BY DEF Filled
<1> HIDE DEF e, t
<1>6. CASE e.what = "cancel"
  <2>1. t.manual = <<>> /\ t.candidates = {} BY <1>2, <1>6 DEF Emptied
  <2>2. <<>> \in Seq(Imports) OBVIOUS
  <2>3. Copies(t.manual) <= Copies(manual) + Cardinality(Outside(orders, n + 1))
    BY <1>3, <1>4, <1>6, <2>1, CopiesEmpty
  <2> QED BY <1>2, <2>1, <2>2, <2>3 DEF Filled, t, e
<1>7. CASE e.what = "notify"
  <2>1. e.file \in Files BY <1>1, <1>7 DEF Ordered, Imports, Order
  <2>2. t.manual = q.manual /\ t.candidates \subseteq Files BY <1>2, <1>5, <1>7, <2>1 DEF Noticed
  <2>3. Copies(t.manual) <= Copies(manual) + Cardinality(Outside(orders, n + 1))
    BY <1>3, <1>4, <1>7, <2>2
  <2> QED BY <1>2, <1>5, <2>2, <2>3 DEF Filled, t, e
<1>8. CASE e.what \notin {"cancel", "notify"}
  <2>0. e \in Imports BY <1>1, <1>8 DEF Ordered, Order
  <2>1. t.candidates = q.candidates /\ (t.manual = Append(q.manual, e) \/ t.manual = q.manual)
    BY <1>2, <1>8 DEF Ordering
  <2>2. CASE t.manual = Append(q.manual, e)
    <3>1. Append(q.manual, e) \in Seq(Imports) BY <1>5, <2>0
    <3>2. Copies(t.manual) = Copies(q.manual) + (IF e.what = "external" THEN 1 ELSE 0)
      BY <1>5, <2>0, <2>2, CopiesAppend
    <3>3. Copies(t.manual) <= Copies(manual) + Cardinality(Outside(orders, n + 1)) BY <1>3, <1>4, <3>2
    <3> QED BY <1>2, <1>5, <2>1, <2>2, <3>1, <3>3 DEF Filled, t, e
  <2>3. CASE t.manual = q.manual
    <3>1. Copies(t.manual) <= Copies(manual) + Cardinality(Outside(orders, n + 1)) BY <1>3, <1>4, <2>3
    <3> QED BY <1>2, <1>5, <2>1, <2>3, <3>1 DEF Filled, t, e
  <2> QED BY <2>1, <2>2, <2>3
<1> QED BY <1>6, <1>7, <1>8

LEMMA QueuedKeeps ==
    ASSUME orders \in Seq(Ordered), manual \in Seq(Imports), candidates \subseteq Files
    PROVE  /\ Queued.manual \in Seq(Imports) /\ Queued.candidates \subseteq Files
           /\ Copies(Queued.manual) <= Copies(manual) + Copies(orders)
<1> DEFINE B == {n \in Nat : n <= Len(orders) => Filled(Fold[1 .. n], n)}
<1>1. Len(orders) \in Nat OBVIOUS
<1>2. 0 \in B
  <2>1. Fold[1 .. 0] = Beginning BY FoldSteps
  <2>2. Fields(Beginning) /\ Beginning.manual = manual /\ Beginning.candidates = candidates
    BY DEF Fields, Beginning
  <2>3. Copies(manual) \in Nat /\ Cardinality(Outside(orders, 0)) \in Nat BY CopiesType, OutsideFinite
  <2>4. Filled(Fold[1 .. 0], 0) BY <2>1, <2>2, <2>3 DEF Filled
  <2> QED BY <2>4
<1>3. ASSUME NEW n \in Nat, n \in B PROVE n + 1 \in B
  <2> SUFFICES ASSUME n + 1 <= Len(orders) PROVE Filled(Fold[1 .. n + 1], n + 1) OBVIOUS
  <2>1. Filled(Fold[1 .. n], n) BY <1>1, <1>3
  <2>2. Fold[1 .. n + 1] = Take(Fold[1 .. n], orders[n + 1]) BY FoldSteps
  <2> QED BY <2>1, <2>2, TakeKeeps
<1> HIDE DEF B
<1>4. Len(orders) \in B BY <1>1, <1>2, <1>3, Induction
<1>5. Filled(Queued, Len(orders)) BY <1>1, <1>4, FoldSteps DEF B
<1> QED BY <1>5 DEF Filled, Copies

-----------------------------------------------------------------------------
(* What happens beside the step leaves alone what it works on: orders may be given, if those for
   a file from outside are counted, and the task may be taken back before it begins. *)
LEMMA BesideKeeps ==
    ASSUME ImportInv,
           UNCHANGED <<disk, writes, disks, at, import, manual, candidates, copies>>,
           job' = "running" <=> job = "running",
           raised' \subseteq Files, watched' \in Seq(Some), orders' \in Seq(Ordered), external' \in Nat,
           Copies(orders') + external <= Copies(orders) + external',
           ExportInv'
    PROVE  ImportInv'
<1>1. UNCHANGED <<indexed, products, spare, doing, before, staged>> BY DEF disks, import
<1>2. ImportTypes' BY <1>1 DEF ImportInv, ImportTypes
<1>3. PlaceInv' BY <1>1 DEF ImportInv, ImportParts, PlaceInv
<1>4. WrittenInv' BY <1>1 DEF ImportInv, ImportParts, WrittenInv
<1>5. TransactionInv' BY <1>1 DEF ImportInv, ImportParts, TransactionInv
<1>6. WholeInv' BY <1>1 DEF ImportInv, ImportParts, WholeInv
<1>7. CopyInv'
  <2>1. /\ copies \in Nat /\ external \in Nat /\ Copies(orders) \in Nat /\ Copies(manual) \in Nat
        /\ Copies(orders') \in Nat
        /\ copies + Copies(orders) + Copies(manual) + (IF at = "copying" THEN 1 ELSE 0) <= external
    BY CopiesType DEF ImportInv, ImportTypes, ImportParts, CopyInv
  <2>2. copies + Copies(orders') + Copies(manual) + (IF at = "copying" THEN 1 ELSE 0) <= external'
    BY <2>1
  <2>3. Copies(manual)' = Copies(manual) BY DEF Copies, Outside
  <2>4. Copies(orders)' = Copies(orders') BY DEF Copies, Outside
  <2> QED BY <2>2, <2>3, <2>4 DEF CopyInv
<1> QED BY <1>2, <1>3, <1>4, <1>5, <1>6, <1>7 DEF ImportInv, ImportParts

LEMMA AdvanceBegins == ASSUME Advance PROVE job' = "running" <=> job = "running"
BY DEF Advance

LEMMA OrderNames ==
    /\ \A f \in Files : Order("notify", f) \in Ordered /\ Order("import", f) \in Ordered
    /\ Order("external", NoFile) \in Ordered /\ Order("cancel", NoFile) \in Ordered
    /\ \A w, f : Order(w, f).what = w
BY DEF Ordered, Imports, Order

LEMMA NotifiesKeep == ASSUME ImportInv, FrameNotifies PROVE ImportInv'
<1>1. watched \in Seq(Some) /\ watched # <<>> /\ watched' = Tail(watched) /\ raised \subseteq Files /\ raised' = raised
  BY DEF ImportInv, ImportTypes, FrameNotifies, system
<1>2. watched' \in Seq(Some) /\ Head(watched) \in Some BY <1>1
<1>3. /\ UNCHANGED <<disk, writes, disks, at, import, manual, candidates, copies, external, exporting, paused>>
      /\ orders \in Seq(Ordered) /\ external \in Nat
  BY DEF ImportInv, ImportTypes, FrameNotifies, system, queue, ghosts
<1>4. (job' = "running" <=> job = "running") /\ orders' \in Seq(Ordered) /\ Copies(orders') = Copies(orders)
  <2>1. CASE Head(watched) = NoFile
    <3>1. orders' = orders /\ Advance BY <2>1 DEF FrameNotifies
    <3> QED BY <1>3, <3>1, AdvanceBegins
  <2>2. CASE Head(watched) # NoFile
    <3>1. Head(watched) \in Files /\ Notify(Head(watched)) BY <1>2, <2>2 DEF FrameNotifies, Some
    <3>2. CASE orders' = orders /\ (job' = job \/ Advance) BY <1>3, <3>2, AdvanceBegins
    <3>3. CASE orders' = Append(orders, Order("notify", Head(watched))) /\ Advance
      <4>1. Order("notify", Head(watched)) \in Ordered /\ Order("notify", Head(watched)).what # "external"
        BY <3>1, OrderNames
      <4>2. orders' \in Seq(Ordered) BY <1>3, <3>3, <4>1
      <4>3. Copies(orders') = Copies(orders) BY <1>3, <3>3, <4>1, CopiesAppend, CopiesType
      <4> QED BY <3>3, <4>2, <4>3, AdvanceBegins
    <3> QED BY <3>1, <3>2, <3>3 DEF Notify
  <2> QED BY <2>1, <2>2
<1>5. ExportInv' BY <1>3, <1>4 DEF ImportInv, ImportParts, ExportInv
<1>6. Copies(orders) \in Nat BY <1>3, CopiesType
<1>7. Copies(orders') + external <= Copies(orders) + external' BY <1>3, <1>4, <1>6
<1> QED BY <1>1, <1>2, <1>3, <1>4, <1>5, <1>7, BesideKeeps

(* What the frame does without giving an order. *)
LEMMA QuietKeeps ==
    ASSUME ImportInv,
           UNCHANGED <<disk, writes, disks, at, import, manual, candidates, orders, copies, external>>,
           job' = "running" <=> job = "running",
           raised' \subseteq Files, watched' \in Seq(Some), ExportInv'
    PROVE  ImportInv'
<1>1. orders \in Seq(Ordered) /\ external \in Nat BY DEF ImportInv, ImportTypes
<1>2. Copies(orders) \in Nat BY <1>1, CopiesType
<1>3. Copies(orders') = Copies(orders) OBVIOUS
<1>4. Copies(orders') + external <= Copies(orders) + external' BY <1>1, <1>2, <1>3
<1> QED BY <1>1, <1>4, BesideKeeps

LEMMA FrameOfImportsKeeps ==
    ASSUME ImportInv,
           \/ FrameChecksDrops \/ FramePolls \/ WatchStarts \/ WatchRestarts \/ AskCheck \/ Export
           \/ StopImports \/ ClosingPolls
    PROVE  ImportInv'
<1>1. raised \subseteq Files /\ watched \in Seq(Some) BY DEF ImportInv, ImportTypes
<1>2. ExportInv BY DEF ImportInv, ImportParts
<1>3. CASE FrameChecksDrops
  <2>1. /\ UNCHANGED <<disk, writes, disks, at, import, manual, candidates, orders, copies, external,
                       raised, watched, exporting, paused>>
        /\ Advance
    BY <1>3 DEF FrameChecksDrops, system, queue, ghosts
  <2> QED BY <1>1, <1>2, <2>1, AdvanceBegins, QuietKeeps DEF ExportInv
<1>4. CASE FramePolls
  <2>1. /\ UNCHANGED <<disk, writes, disks, at, import, manual, candidates, orders, copies, external,
                       raised, watched, exporting>>
        /\ Advance /\ paused' = (exporting # "closed")
    BY <1>4 DEF FramePolls, watchVars, watcher, system, queue, commands
  <2> QED BY <1>1, <1>2, <2>1, AdvanceBegins, QuietKeeps DEF ExportInv
<1>5. CASE WatchStarts \/ WatchRestarts
  <2>1. /\ UNCHANGED <<disk, writes, disks, at, import, manual, candidates, orders, copies, external,
                       exporting, paused>>
        /\ Advance /\ watched' = <<>> /\ raised' = {}
    BY <1>5 DEF WatchStarts, WatchRestarts, Restart, queue, flags, ghosts
  <2>2. <<>> \in Seq(Some) OBVIOUS
  <2> QED BY <1>1, <1>2, <2>1, <2>2, AdvanceBegins, QuietKeeps DEF ExportInv
<1>6. CASE AskCheck
  <2>1. /\ UNCHANGED <<disk, writes, disks, at, import, manual, candidates, orders, copies, external,
                       raised, watched, exporting, paused>>
        /\ Advance
    BY <1>6 DEF AskCheck, watcher, system, queue, flags
  <2> QED BY <1>1, <1>2, <2>1, AdvanceBegins, QuietKeeps DEF ExportInv
<1>7. CASE Export
  <2>1. UNCHANGED <<disk, writes, disks, at, import, manual, candidates, orders, copies, external,
                    raised, watched>>
    BY <1>7 DEF Export, watcher, system, queue, commands
  <2>2. (job' = "running" <=> job = "running") /\ ExportInv'
    <3>1. CASE StartExport
      <4>1. job # "running" /\ Advance /\ paused' BY <3>1 DEF StartExport, AssetsIdle
      <4> QED BY <4>1, AdvanceBegins DEF ExportInv
    <3>2. CASE OpenExport \/ EndExport \/ CloseExport
      <4>1. UNCHANGED <<job, paused>> /\ exporting' # "running"
        BY <3>2 DEF OpenExport, EndExport, CloseExport
      <4> QED BY <4>1 DEF ExportInv
    <3> QED BY <1>7, <3>1, <3>2 DEF Export
  <2> QED BY <1>1, <2>1, <2>2, QuietKeeps
<1>8. CASE StopImports
  <2>1. /\ UNCHANGED <<disk, writes, disks, at, import, manual, candidates, orders, copies, external,
                       raised, watched, exporting, paused>>
        /\ job' = IF job = "running" THEN job ELSE "none"
    BY <1>8 DEF StopImports, watcher, system, queue, commands, ghosts
  <2>2. job' = "running" <=> job = "running" BY <2>1
  <2> QED BY <1>1, <1>2, <2>1, <2>2, QuietKeeps DEF ExportInv
<1>9. CASE ClosingPolls
  <2>1. /\ UNCHANGED <<disk, writes, disks, at, import, manual, candidates, orders, copies, external,
                       raised, watched, exporting, paused>>
        /\ Advance
    BY <1>9 DEF ClosingPolls, watchVars, watcher, system, queue, flags, commands, ghosts
  <2> QED BY <1>1, <1>2, <2>1, AdvanceBegins, QuietKeeps DEF ExportInv
<1> QED BY <1>3, <1>4, <1>5, <1>6, <1>7, <1>8, <1>9

LEMMA OrdersKeep ==
    ASSUME ImportInv,
           \/ CancelTasks \/ AskImport(Order("external", NoFile))
           \/ \E f \in Files : AskImport(Order("import", f))
    PROVE  ImportInv'
<1>1. /\ raised \subseteq Files /\ watched \in Seq(Some) /\ orders \in Seq(Ordered) /\ external \in Nat
      /\ Copies(orders) \in Nat
  BY CopiesType DEF ImportInv, ImportTypes
<1>2. ExportInv BY DEF ImportInv, ImportParts
<1>3. CASE CancelTasks
  <2>1. /\ UNCHANGED <<disk, writes, disks, at, import, manual, candidates, copies, external,
                       raised, watched, exporting, paused>>
        /\ Advance /\ orders' = <<Order("cancel", NoFile)>>
    BY <1>3 DEF CancelTasks, watcher, system, queue, ghosts
  <2>2. Order("cancel", NoFile) \in Ordered /\ Order("cancel", NoFile).what # "external" BY OrderNames
  <2>3. orders' \in Seq(Ordered) BY <2>1, <2>2
  <2>4. Copies(orders') = 0
    <3>1. <<>> \in Seq(Ordered) OBVIOUS
    <3>2. Copies(Append(<<>>, Order("cancel", NoFile))) = 0 + 0 BY <2>2, <3>1, CopiesAppend, CopiesEmpty
    <3>3. orders' = Append(<<>>, Order("cancel", NoFile)) BY <2>1
    <3> QED BY <3>2, <3>3
  <2>5. Copies(orders') + external <= Copies(orders) + external' BY <1>1, <2>1, <2>4
  <2> QED BY <1>1, <1>2, <2>1, <2>3, <2>5, AdvanceBegins, BesideKeeps DEF ExportInv
<1>4. ASSUME NEW e \in Ordered, AskImport(e) PROVE ImportInv'
  <2>1. /\ UNCHANGED <<disk, writes, disks, at, import, manual, candidates, copies,
                       raised, watched, exporting, paused>>
        /\ Advance /\ orders' = Append(orders, e)
        /\ external' = IF e.what = "external" THEN external + 1 ELSE external
    BY <1>4 DEF AskImport, watcher, system, queue, flags
  <2>2. orders' \in Seq(Ordered) /\ external' \in Nat BY <1>1, <2>1
  <2>3. Copies(orders') = Copies(orders) + (IF e.what = "external" THEN 1 ELSE 0)
    BY <1>1, <2>1, CopiesAppend
  <2>4. Copies(orders') + external <= Copies(orders) + external' BY <1>1, <2>1, <2>3
  <2> QED BY <1>1, <1>2, <2>1, <2>2, <2>4, AdvanceBegins, BesideKeeps DEF ExportInv
<1> QED BY <1>3, <1>4, OrderNames

-----------------------------------------------------------------------------
\* What the stages of an import leave alone.
StageVars == <<watched, orders, job, paused, exporting, external>>

(* The end of an import: what is tried again is the file itself, no copy. *)
LEMMA EndKeeps ==
    ASSUME ImportInv, NEW result, EndWith(result), result = "superseded" => at \in Stages, at # "idle",
           UNCHANGED <<disk, writes, raised, copies, StageVars>>,
           indexed' \in [Files -> Nat], products' \in [Files -> Nat], spare' \in [Files -> Nat],
           \A f \in Files : indexed'[f] \in {0, products'[f]} \/ spare'[f] # 0
    PROVE  ImportInv'
<1>1. /\ at' = "ending" /\ doing' = NoImport /\ before' = 0 /\ staged' = 0
      /\ manual' = manual \/ (manual' = Append(manual, Order("import", doing.file)) /\ result = "superseded")
      /\ candidates' \subseteq candidates
  BY DEF EndWith, End
<1>2. UNCHANGED <<watched, orders, job, paused, exporting, external>> BY DEF StageVars
<1>3. manual \in Seq(Imports) /\ Copies(manual) \in Nat BY CopiesType DEF ImportInv, ImportTypes
<1>4. manual' \in Seq(Imports) /\ Copies(manual') = Copies(manual)
  <2>1. CASE manual' = manual BY <1>3, <2>1
  <2>2. CASE manual' = Append(manual, Order("import", doing.file)) /\ result = "superseded"
    <3>1. doing.file \in Files BY <2>2 DEF ImportInv, ImportParts, PlaceInv
    <3>2. Order("import", doing.file) \in Imports /\ Order("import", doing.file).what # "external"
      BY <3>1 DEF Imports, Order
    <3>3. Copies(Append(manual, Order("import", doing.file))) = Copies(manual) + 0
      BY <1>3, <3>2, CopiesAppend
    <3> QED BY <1>3, <2>2, <3>2, <3>3
  <2> QED BY <1>1, <2>1, <2>2
<1>5. ImportTypes' BY <1>1, <1>2, <1>4 DEF ImportInv, ImportTypes, NoImport
<1>6. PlaceInv' BY <1>1, <1>2 DEF ImportInv, ImportParts, PlaceInv, Stages, Parsed
<1>7. WrittenInv' BY <1>1 DEF ImportInv, ImportParts, WrittenInv, Parsed
<1>8. TransactionInv' BY <1>1 DEF TransactionInv
<1>9. WholeInv' BY DEF WholeInv
<1>10. ExportInv' BY <1>2 DEF ImportInv, ImportParts, ExportInv
<1>11. CopyInv'
  <2>1. /\ copies \in Nat /\ external \in Nat /\ Copies(orders) \in Nat
        /\ copies + Copies(orders) + Copies(manual) + (IF at = "copying" THEN 1 ELSE 0) <= external
    BY CopiesType DEF ImportInv, ImportTypes, ImportParts, CopyInv
  <2>2. copies + Copies(orders) + Copies(manual') + 0 <= external BY <1>3, <1>4, <2>1
  <2>3. Copies(manual)' = Copies(manual') /\ Copies(orders)' = Copies(orders)
    BY <1>2 DEF Copies, Outside
  <2> QED BY <1>1, <1>2, <2>2, <2>3 DEF CopyInv
<1> QED BY <1>5, <1>6, <1>7, <1>8, <1>9, <1>10, <1>11 DEF ImportInv, ImportParts

(* A stage that goes on to the next. *)
LEMMA StageKeeps ==
    ASSUME ImportInv, NEW stage \in Stages, GoesOn(stage), at \in Stages,
           UNCHANGED <<disk, writes, raised, copies, doing, indexed, StageVars>>,
           before' \in Nat, staged' \in Nat,
           products' \in [Files -> Nat], spare' \in [Files -> Nat],
           WrittenInv', TransactionInv', WholeInv'
    PROVE  ImportInv'
<1>1. at' = stage /\ UNCHANGED <<manual, candidates>> BY DEF GoesOn
<1>2. UNCHANGED <<watched, orders, job, paused, exporting, external>> BY DEF StageVars
<1>3. ImportTypes' BY <1>1, <1>2 DEF ImportInv, ImportTypes
<1>4. PlaceInv' BY <1>1, <1>2 DEF ImportInv, ImportParts, PlaceInv, Stages, Parsed
<1>5. ExportInv' BY <1>2 DEF ImportInv, ImportParts, ExportInv
<1>6. CopyInv'
  <2>1. Copies(manual)' = Copies(manual) /\ Copies(orders)' = Copies(orders)
    BY <1>1, <1>2 DEF Copies, Outside
  <2>2. at # "copying" /\ at' # "copying" BY <1>1 DEF Stages, Parsed
  <2> QED BY <1>1, <1>2, <2>1, <2>2 DEF ImportInv, ImportParts, CopyInv
<1> QED BY <1>3, <1>4, <1>5, <1>6 DEF ImportInv, ImportParts

\* Before the index is to be saved, every file's products are whole.
LEMMA WholeBefore ==
    ASSUME ImportInv, at # "saving"
    PROVE  \A f \in Files : indexed[f] \in {0, products[f]} \/ spare[f] # 0
BY DEF ImportInv, ImportParts, WholeInv

LEMMA StageTypes ==
    ASSUME ImportInv, ImportStage
    PROVE  /\ UNCHANGED StageVars /\ at # "idle"
           /\ disk \in [Files -> Nat] /\ writes \in Nat
           /\ indexed \in [Files -> Nat] /\ products \in [Files -> Nat] /\ spare \in [Files -> Nat]
           /\ before \in Nat /\ staged \in Nat
<1>1. UNCHANGED StageVars BY DEF ImportStage, StageVars, watcher
<1>2. at # "idle" BY DEF ImportStage, CopyIn, OpenSource, ParseSource, CheckSource, CommitImport, SaveIndex
<1> QED BY <1>1, <1>2 DEF ImportInv, ImportTypes

LEMMA OpenKeeps == ASSUME ImportInv, ImportStage, OpenSource PROVE ImportInv'
<1>1. at = "opening" /\ doing.file \in Files /\ at \in Stages
  BY DEF OpenSource, ImportInv, ImportParts, PlaceInv, Stages, Parsed
<1>2. UNCHANGED <<disk, writes, raised, copies, indexed, products, spare>> BY DEF OpenSource, system, disks
<1>3. CASE \E result : EndWith(result)
  <2>1. PICK result : EndWith(result) BY <1>3
  <2> QED BY <1>1, <1>2, <2>1, StageTypes, WholeBefore, EndKeeps
<1>4. CASE /\ disk[doing.file] # 0 /\ ~IsCancelled
           /\ before' = disk[doing.file] /\ GoesOn("parsing") /\ UNCHANGED <<extras, doing, staged>>
  <2>1. "parsing" \in Stages /\ at' = "parsing" BY <1>4 DEF Stages, Parsed, GoesOn
  <2>2. before' \in Nat /\ before' # 0 /\ before' < 3 + writes
    BY <1>1, <1>4, StageTypes DEF ImportInv, ImportParts, WrittenInv
  <2>3. WrittenInv' BY <1>2, <2>1, <2>2 DEF ImportInv, ImportParts, WrittenInv, Parsed
  <2>4. TransactionInv' BY <2>1 DEF TransactionInv
  <2>5. WholeInv' BY <1>1, <1>2, WholeBefore DEF WholeInv
  <2> QED BY <1>1, <1>2, <1>4, <2>1, <2>2, <2>3, <2>4, <2>5, StageTypes, StageKeeps
<1> QED BY <1>3, <1>4 DEF OpenSource

LEMMA ParseKeeps == ASSUME ImportInv, ImportStage, ParseSource PROVE ImportInv'
<1>1. at = "parsing" /\ doing.file \in Files /\ at \in Stages
  BY DEF ParseSource, ImportInv, ImportParts, PlaceInv, Stages, Parsed
<1>2. UNCHANGED <<disk, writes, raised, copies, indexed, products, spare>> BY DEF ParseSource, system, disks
<1>3. CASE \E result : EndWith(result)
  <2>1. PICK result : EndWith(result) BY <1>3
  <2> QED BY <1>1, <1>2, <2>1, StageTypes, WholeBefore, EndKeeps
<1>4. CASE staged' = disk[doing.file] /\ GoesOn("checking") /\ UNCHANGED <<extras, doing, before>>
  <2>1. "checking" \in Stages /\ at' = "checking" BY <1>4 DEF Stages, Parsed, GoesOn
  <2>2. staged' \in Nat BY <1>1, <1>4, StageTypes
  <2>3. WrittenInv' BY <1>1, <1>2, <1>4, <2>1 DEF ImportInv, ImportParts, WrittenInv, Parsed
  <2>4. TransactionInv' BY <1>2, <1>4, <2>1 DEF TransactionInv
  <2>5. WholeInv' BY <1>1, <1>2, WholeBefore DEF WholeInv
  <2> QED BY <1>1, <1>2, <1>4, <2>1, <2>2, <2>3, <2>4, <2>5, StageTypes, StageKeeps
<1> QED BY <1>3, <1>4 DEF ParseSource

LEMMA CheckKeeps == ASSUME ImportInv, ImportStage, CheckSource PROVE ImportInv'
<1>1. at = "checking" /\ doing.file \in Files /\ at \in Stages
  BY DEF CheckSource, ImportInv, ImportParts, PlaceInv, Stages, Parsed
<1>2. UNCHANGED <<disk, writes, raised, copies, indexed, products, spare>> BY DEF CheckSource, system, disks
<1>3. CASE \E result : EndWith(result)
  <2>1. PICK result : EndWith(result) BY <1>3
  <2> QED BY <1>1, <1>2, <2>1, StageTypes, WholeBefore, EndKeeps
<1>4. CASE /\ disk[doing.file] = before /\ spare[doing.file] = 0
           /\ GoesOn("committing") /\ UNCHANGED <<doing, before, staged>>
  <2>1. "committing" \in Stages /\ at' = "committing" BY <1>4 DEF Stages, Parsed, GoesOn
  <2>2. WrittenInv' BY <1>1, <1>2, <1>4, <2>1 DEF ImportInv, ImportParts, WrittenInv, Parsed
  <2>3. TransactionInv' BY <1>1, <1>2, <1>4, <2>1 DEF ImportInv, ImportParts, TransactionInv
  <2>4. WholeInv' BY <1>1, <1>2, WholeBefore DEF WholeInv
  <2> QED BY <1>1, <1>2, <1>4, <2>1, <2>2, <2>3, <2>4, StageTypes, StageKeeps
<1> QED BY <1>3, <1>4 DEF CheckSource

LEMMA CommitKeeps == ASSUME ImportInv, ImportStage, CommitImport PROVE ImportInv'
<1> DEFINE f == doing.file
<1>1. at = "committing" /\ f \in Files /\ at \in Stages /\ staged = before /\ spare[f] = 0
  BY DEF CommitImport, ImportInv, ImportParts, PlaceInv, Stages, Parsed, TransactionInv
<1>2. UNCHANGED <<disk, writes, raised, copies, indexed>> BY DEF CommitImport, system
<1>3. \A g \in Files : indexed[g] \in {0, products[g]} \/ spare[g] # 0 BY <1>1, WholeBefore
<1>4. ASSUME NEW result, EndWith(result), UNCHANGED <<products, spare>> PROVE ImportInv'
  BY <1>1, <1>2, <1>3, <1>4, StageTypes, EndKeeps
<1>5. CASE /\ products' = [products EXCEPT ![f] = staged] /\ spare' = [spare EXCEPT ![f] = products[f]]
           /\ GoesOn("saving") /\ UNCHANGED <<extras, doing, before, staged>>
  <2>1. "saving" \in Stages /\ at' = "saving" BY <1>5 DEF Stages, Parsed, GoesOn
  <2>2. /\ products' \in [Files -> Nat] /\ spare' \in [Files -> Nat]
        /\ products'[f] = before /\ spare'[f] = products[f]
        /\ \A g \in Files \ {f} : products'[g] = products[g] /\ spare'[g] = spare[g]
    BY <1>1, <1>5, StageTypes
  <2>3. WrittenInv' BY <1>1, <1>2, <1>5, <2>1 DEF ImportInv, ImportParts, WrittenInv, Parsed
  <2>4. TransactionInv' BY <1>1, <1>2, <1>3, <1>5, <2>1, <2>2 DEF TransactionInv
  <2>5. WholeInv' BY <1>2, <1>3, <1>5, <2>1, <2>2 DEF WholeInv
  <2> QED BY <1>1, <1>2, <1>5, <2>1, <2>2, <2>3, <2>4, <2>5, StageTypes, StageKeeps
<1>6. CASE /\ products[f] # 0 /\ products' = [products EXCEPT ![f] = 0]
           /\ spare' = [spare EXCEPT ![f] = products[f]] /\ EndWith("failed")
  <2>1. /\ products' \in [Files -> Nat] /\ spare' \in [Files -> Nat] /\ spare'[f] # 0
        /\ \A g \in Files \ {f} : products'[g] = products[g] /\ spare'[g] = spare[g]
    BY <1>1, <1>6, StageTypes
  <2>2. \A g \in Files : indexed'[g] \in {0, products'[g]} \/ spare'[g] # 0 BY <1>2, <1>3, <2>1
  <2>3. "failed" # "superseded" OBVIOUS
  <2> QED BY <1>1, <1>2, <1>6, <2>1, <2>2, <2>3, StageTypes, EndKeeps
<1> QED BY <1>4, <1>5, <1>6 DEF CommitImport

LEMMA SaveKeeps == ASSUME ImportInv, ImportStage, SaveIndex PROVE ImportInv'
<1> DEFINE f == doing.file
<1>1. /\ at = "saving" /\ f \in Files /\ at \in Stages /\ staged = before /\ products[f] = before
      /\ indexed[f] \in {0, spare[f]}
  BY DEF SaveIndex, ImportInv, ImportParts, PlaceInv, Stages, Parsed, TransactionInv
<1>2. UNCHANGED <<disk, writes, raised, copies>> BY DEF SaveIndex, system
<1>3. \A g \in Files \ {f} : indexed[g] \in {0, products[g]} \/ spare[g] # 0
  BY DEF ImportInv, ImportParts, WholeInv
<1>4. PICK result : EndWith(result) BY DEF SaveIndex
<1>5. /\ indexed' \in [Files -> Nat] /\ products' \in [Files -> Nat] /\ spare' \in [Files -> Nat]
      /\ \A g \in Files : indexed'[g] \in {0, products'[g]} \/ spare'[g] # 0
  <2>1. CASE /\ indexed' = [indexed EXCEPT ![f] = before] /\ products' = products
             /\ spare' = [spare EXCEPT ![f] = 0] \/ spare' = spare
    <3>1. indexed' \in [Files -> Nat] /\ spare' \in [Files -> Nat] BY <1>1, <2>1, StageTypes
    <3>2. indexed'[f] = products'[f] BY <1>1, <2>1, StageTypes
    <3>3. \A g \in Files \ {f} : indexed'[g] = indexed[g] /\ products'[g] = products[g] /\ spare'[g] = spare[g]
      BY <2>1, StageTypes
    <3> QED BY <1>3, <2>1, <3>1, <3>2, <3>3, StageTypes
  <2>2. CASE /\ products' = [products EXCEPT ![f] = spare[f]] /\ spare' = [spare EXCEPT ![f] = 0]
             /\ indexed' = indexed
    <3>1. products' \in [Files -> Nat] /\ spare' \in [Files -> Nat] BY <1>1, <2>2, StageTypes
    <3>2. indexed'[f] \in {0, products'[f]} BY <1>1, <2>2, StageTypes
    <3>3. \A g \in Files \ {f} : indexed'[g] = indexed[g] /\ products'[g] = products[g] /\ spare'[g] = spare[g]
      BY <2>2, StageTypes
    <3> QED BY <1>3, <2>2, <3>1, <3>2, <3>3, StageTypes
  <2>3. CASE /\ products' = products \/ (spare[f] # 0 /\ products' = [products EXCEPT ![f] = 0])
             /\ UNCHANGED <<spare, indexed>>
    <3>1. products' \in [Files -> Nat] BY <1>1, <2>3, StageTypes
    <3>2. indexed'[f] \in {0, products'[f]} \/ spare'[f] # 0 BY <1>1, <2>3, StageTypes
    <3>3. \A g \in Files \ {f} : indexed'[g] = indexed[g] /\ products'[g] = products[g] /\ spare'[g] = spare[g]
      BY <2>3, StageTypes
    <3> QED BY <1>3, <2>3, <3>1, <3>2, <3>3, StageTypes
  <2> QED BY <2>1, <2>2, <2>3 DEF SaveIndex
<1> QED BY <1>1, <1>2, <1>4, <1>5, StageTypes, EndKeeps

LEMMA CopyKeeps == ASSUME ImportInv, ImportStage, CopyIn PROVE ImportInv'
<1>1. at = "copying" /\ UNCHANGED <<indexed, products, spare>> BY DEF CopyIn, disks
<1>2. UNCHANGED <<watched, orders, job, paused, exporting, external>> /\ job = "running"
  BY <1>1, StageTypes DEF StageVars, ImportInv, ImportParts, PlaceInv
<1>3. \A g \in Files : indexed[g] \in {0, products[g]} \/ spare[g] # 0 BY <1>1, WholeBefore
<1>4. CASE EndWith("failed") /\ UNCHANGED <<system, extras, copies>>
  <2>1. "failed" # "superseded" /\ UNCHANGED <<disk, writes, raised, copies>> BY <1>4 DEF system
  <2> QED BY <1>1, <1>3, <1>4, <2>1, StageTypes, EndKeeps
<1>5. ASSUME NEW f \in Files, Put(f, NewContent), doing' = [doing EXCEPT !.file = f],
             copies' = copies + 1, GoesOn("opening"), UNCHANGED <<before, staged, extras>>
      PROVE  ImportInv'
  <2>1. /\ at' = "opening" /\ UNCHANGED <<manual, candidates>>
        /\ writes' = writes + 1 /\ disk' = [disk EXCEPT ![f] = 3 + writes] /\ raised' \subseteq Files
    BY <1>5 DEF GoesOn, Put, NewContent, ImportInv, ImportTypes
  <2>2. doing = [what |-> doing.what, file |-> doing.file] BY DEF ImportInv, ImportTypes
  <2>3. doing' = [what |-> doing.what, file |-> f] BY <1>5, <2>2
  <2>4. disk' \in [Files -> Nat] /\ writes' \in Nat /\ \A g \in Files : disk'[g] < 3 + writes'
    <3>1. disk' \in [Files -> Nat] /\ disk'[f] = 3 + writes /\ \A g \in Files \ {f} : disk'[g] = disk[g]
      BY <1>5, <2>1, StageTypes
    <3>2. \A g \in Files : disk[g] < 3 + writes BY DEF ImportInv, ImportParts, WrittenInv
    <3> QED BY <2>1, <3>1, <3>2, StageTypes
  <2>5. ImportTypes'
    <3>1. doing' = [what |-> doing'.what, file |-> doing'.file] BY <2>3
    <3>2. copies' \in Nat BY <1>5 DEF ImportInv, ImportTypes
    <3> QED BY <1>1, <1>2, <1>5, <2>1, <2>4, <3>1, <3>2 DEF ImportInv, ImportTypes
  <2>6. PlaceInv' BY <1>2, <1>5, <2>1, <2>3 DEF PlaceInv
  <2>7. WrittenInv' BY <1>1, <1>5, <2>1, <2>4 DEF ImportInv, ImportParts, WrittenInv, Parsed
  <2>8. TransactionInv' BY <2>1 DEF TransactionInv
  <2>9. WholeInv' BY <1>1, <1>3 DEF WholeInv
  <2>10. ExportInv' BY <1>2 DEF ImportInv, ImportParts, ExportInv
  <2>11. CopyInv'
    <3>1. Copies(manual)' = Copies(manual) /\ Copies(orders)' = Copies(orders)
      BY <1>2, <2>1 DEF Copies, Outside
    <3>2. /\ copies \in Nat /\ external \in Nat /\ Copies(orders) \in Nat /\ Copies(manual) \in Nat
          /\ copies + Copies(orders) + Copies(manual) + 1 <= external
      BY <1>1, CopiesType DEF ImportInv, ImportTypes, ImportParts, CopyInv
    <3>3. copies + 1 + Copies(orders) + Copies(manual) + 0 <= external BY <3>2
    <3> QED BY <1>2, <1>5, <2>1, <3>1, <3>3 DEF CopyInv
  <2> QED BY <2>5, <2>6, <2>7, <2>8, <2>9, <2>10, <2>11 DEF ImportInv, ImportParts
<1> QED BY <1>4, <1>5 DEF CopyIn

(* The step begins: a copy that is to be made leaves the orders for the step's hands. *)
LEMMA BeginKeeps == ASSUME ImportInv, BeginStep PROVE ImportInv'
<1>1. job = "scheduled" /\ at = "idle" BY DEF BeginStep, ImportInv, ImportParts, PlaceInv
<1>2. UNCHANGED <<disk, writes, raised, watched, indexed, products, spare, before, staged, copies,
                  external, exporting, paused>>
  BY DEF BeginStep, watchVars, system, watcher, disks
<1>3. /\ orders \in Seq(Ordered) /\ manual \in Seq(Imports) /\ candidates \subseteq Files
      /\ copies \in Nat /\ external \in Nat /\ Copies(orders) \in Nat /\ Copies(manual) \in Nat
      /\ copies + Copies(orders) + Copies(manual) <= external
  BY <1>1, CopiesType DEF ImportInv, ImportTypes, ImportParts, CopyInv
<1>4. CASE paused \/ Len(results) >= Capacity
  <2>1. UNCHANGED <<orders, manual, at, doing, candidates>> /\ job' = "finished"
    BY <1>4 DEF BeginStep, commands, queue
  <2>2. ExportInv' BY <1>2, <2>1 DEF ImportInv, ImportParts, ExportInv
  <2>3. job' = "running" <=> job = "running" BY <1>1, <2>1
  <2>4. raised' \subseteq Files /\ watched' \in Seq(Some) BY <1>2 DEF ImportInv, ImportTypes
  <2> QED BY <1>2, <2>1, <2>2, <2>3, <2>4, QuietKeeps DEF disks, import
<1>5. CASE ~(paused \/ Len(results) >= Capacity)
  <2>1. /\ job' = "running" /\ orders' = <<>> /\ candidates' = Queued.candidates
        /\ \/ at' = "ticking" /\ manual' = <<>> /\ doing' = doing
           \/ /\ Queued.manual # <<>>
              /\ at' = IF Head(Queued.manual).what = "external" THEN "copying" ELSE "opening"
              /\ doing' = Head(Queued.manual) /\ manual' = Tail(Queued.manual)
    BY <1>5 DEF BeginStep
  <2> DEFINE q == Queued.manual
  <2>2. /\ q \in Seq(Imports) /\ Queued.candidates \subseteq Files
        /\ Copies(q) <= Copies(manual) + Copies(orders) /\ Copies(q) \in Nat
    BY <1>3, QueuedKeeps, CopiesType
  <2> HIDE DEF q
  <2>3. /\ manual' \in Seq(Imports) /\ doing' = [what |-> doing'.what, file |-> doing'.file]
        /\ at' \in {"ticking", "copying", "opening"} /\ (at' = "opening" => doing'.file \in Files)
        /\ Copies(manual') + (IF at' = "copying" THEN 1 ELSE 0) <= Copies(q)
        /\ Copies(manual') \in Nat
    <3>1. CASE at' = "ticking" /\ manual' = <<>> /\ doing' = doing
      <4>1. <<>> \in Seq(Imports) OBVIOUS
      <4>2. Copies(manual') = 0 BY <3>1, CopiesEmpty
      <4> QED BY <2>2, <3>1, <4>1, <4>2 DEF ImportInv, ImportTypes
    <3>2. CASE /\ q # <<>> /\ at' = IF Head(q).what = "external" THEN "copying" ELSE "opening"
               /\ doing' = Head(q) /\ manual' = Tail(q)
      <4>1. Head(q) \in Imports /\ Tail(q) \in Seq(Imports) BY <2>2, <3>2
      <4>2. /\ Head(q) = [what |-> Head(q).what, file |-> Head(q).file]
            /\ Head(q).what # "external" => Head(q).file \in Files
        BY <4>1 DEF Imports, Order
      <4>3. Copies(q) = Copies(Tail(q)) + (IF Head(q).what = "external" THEN 1 ELSE 0) /\ Copies(Tail(q)) \in Nat
        BY <2>2, <3>2, <4>1, CopiesTail, CopiesType
      <4>4. at' \in {"copying", "opening"} /\ (at' = "copying" <=> Head(q).what = "external") BY <3>2
      <4> QED BY <3>2, <4>1, <4>2, <4>3, <4>4
    <3> QED BY <2>1, <3>1, <3>2 DEF q
  <2>4. ImportTypes'
    <3>1. <<>> \in Seq(Ordered) OBVIOUS
    <3> QED BY <1>2, <2>1, <2>2, <2>3, <3>1 DEF ImportInv, ImportTypes
  <2>5. PlaceInv' BY <2>1, <2>3 DEF PlaceInv, Stages, Parsed
  <2>6. WrittenInv' BY <1>1, <1>2, <2>3 DEF ImportInv, ImportParts, WrittenInv, Parsed
  <2>7. TransactionInv' BY <2>3 DEF TransactionInv
  <2>8. WholeInv'
    <3>1. \A g \in Files : indexed[g] \in {0, products[g]} \/ spare[g] # 0 BY <1>1, WholeBefore
    <3> QED BY <1>2, <3>1 DEF WholeInv
  <2>9. ExportInv' BY <1>2, <1>5 DEF ImportInv, ImportParts, ExportInv
  <2>10. CopyInv'
    <3>1. Copies(manual)' = Copies(manual') /\ Copies(orders)' = 0
      <4>1. Copies(<<>>) = 0 BY CopiesEmpty
      <4>2. Copies(orders)' = Copies(orders') /\ Copies(manual)' = Copies(manual') BY DEF Copies, Outside
      <4> QED BY <2>1, <4>1, <4>2
    <3>2. copies + 0 + Copies(manual') + (IF at' = "copying" THEN 1 ELSE 0) <= external
      BY <1>3, <2>2, <2>3
    <3> QED BY <1>2, <3>1, <3>2 DEF CopyInv
  <2> QED BY <2>4, <2>5, <2>6, <2>7, <2>8, <2>9, <2>10 DEF ImportInv, ImportParts
<1> QED BY <1>4, <1>5

(* A candidate that is due is one of the queue or of those admitted to it. *)
LEMMA TickKeeps == ASSUME ImportInv, Tick PROVE ImportInv'
<1>1. at = "ticking" /\ job = "running" BY DEF Tick, ImportInv, ImportParts, PlaceInv
<1>2. UNCHANGED <<disk, writes, raised, watched, indexed, products, spare, before, staged, copies,
                  external, exporting, paused, job, orders, manual>>
  BY DEF Tick, system, watcher, disks, commands, flags, ghosts
<1>3. /\ candidates' \subseteq Files /\ at' \in {"ending", "opening"}
      /\ at' = "ending" => doing' = doing
      /\ at' = "opening" => \E f \in Files : doing' = Order("auto", f)
  <2>1. candidates \subseteq Files BY DEF ImportInv, ImportTypes
  <2>2. PICK passed \in SUBSET Files :
            \/ at' = "ending" /\ UNCHANGED <<candidates, doing>>
            \/ \E f \in candidates \cup passed : \E broken, active, rest, news :
                   Examine(f, broken, candidates \cup passed, active, rest, news)
    <3>1. PICK broken \in {"none", "index", "source"} :
              \E passed \in SUBSET Files :
                  LET begins == sweep = {"asked"}
                      active == IF ~begins THEN sweep ELSE IF broken = "index" THEN {} ELSE {"active"}
                      news == IF begins /\ broken = "index"
                              THEN Append(done, [state |-> "failed", seen |-> disk]) ELSE done
                  IN  \/ at' = "ending" /\ UNCHANGED <<candidates, doing>>
                      \/ \E f \in candidates \cup passed :
                             Examine(f, broken, candidates \cup passed, active, left', news)
      BY DEF Tick
    <3> QED BY <3>1
  <2>3. CASE at' = "ending" /\ UNCHANGED <<candidates, doing>> BY <2>1, <2>3
  <2>4. ASSUME NEW f \in candidates \cup passed,
               NEW broken, NEW active, NEW rest, NEW news,
               Examine(f, broken, candidates \cup passed, active, rest, news)
        PROVE  /\ candidates' \subseteq Files /\ at' \in {"ending", "opening"}
               /\ at' = "ending" => doing' = doing
               /\ at' = "opening" => \E g \in Files : doing' = Order("auto", g)
    <3>1. f \in Files /\ candidates \cup passed \subseteq Files BY <2>1
    <3>2. CASE candidates' = (candidates \cup passed) \ {f} /\ at' = "ending" /\ UNCHANGED doing
      BY <3>1, <3>2
    <3>3. CASE /\ IF observed[f] # disk[f] THEN at' = "ending" /\ UNCHANGED doing
                  ELSE at' = "opening" /\ doing' = Order("auto", f)
               /\ candidates' = candidates \cup passed
      BY <3>1, <3>3
    <3> QED BY <2>4, <3>2, <3>3 DEF Examine, Settle
  <2> QED BY <2>2, <2>3, <2>4
<1>4. doing' = [what |-> doing'.what, file |-> doing'.file] /\ (at' = "opening" => doing'.file \in Files)
  BY <1>3 DEF ImportInv, ImportTypes, Order
<1>5. ImportTypes' BY <1>2, <1>3, <1>4 DEF ImportInv, ImportTypes
<1>6. PlaceInv' BY <1>1, <1>2, <1>3, <1>4 DEF PlaceInv, Stages, Parsed
<1>7. WrittenInv' BY <1>1, <1>2, <1>3 DEF ImportInv, ImportParts, WrittenInv, Parsed
<1>8. TransactionInv' BY <1>3 DEF TransactionInv
<1>9. WholeInv'
  <2>1. \A g \in Files : indexed[g] \in {0, products[g]} \/ spare[g] # 0 BY <1>1, WholeBefore
  <2> QED BY <1>2, <2>1 DEF WholeInv
<1>10. ExportInv' BY <1>2 DEF ImportInv, ImportParts, ExportInv
<1>11. CopyInv'
  <2>1. Copies(manual)' = Copies(manual) /\ Copies(orders)' = Copies(orders) BY <1>2 DEF Copies, Outside
  <2> QED BY <1>1, <1>2, <1>3, <2>1 DEF ImportInv, ImportParts, CopyInv
<1> QED BY <1>5, <1>6, <1>7, <1>8, <1>9, <1>10, <1>11 DEF ImportInv, ImportParts

LEMMA EndStepKeeps == ASSUME ImportInv, EndStep PROVE ImportInv'
<1>1. at = "ending" /\ at' = "idle" /\ job' = "finished" BY DEF EndStep
<1>2. UNCHANGED <<disk, writes, raised, watched, indexed, products, spare, doing, before, staged, copies,
                  external, exporting, paused, orders, manual, candidates>>
  BY DEF EndStep, system, watcher, disks, commands, import, queue, ghosts
<1>3. ImportTypes' BY <1>2 DEF ImportInv, ImportTypes
<1>4. PlaceInv' BY <1>1 DEF PlaceInv, Stages, Parsed
<1>5. WrittenInv' BY <1>1, <1>2 DEF ImportInv, ImportParts, WrittenInv, Parsed
<1>6. TransactionInv' BY <1>1 DEF TransactionInv
<1>7. WholeInv'
  <2>1. \A g \in Files : indexed[g] \in {0, products[g]} \/ spare[g] # 0 BY <1>1, WholeBefore
  <2> QED BY <1>2, <2>1 DEF WholeInv
<1>8. ExportInv' BY <1>1, <1>2 DEF ImportInv, ImportParts, ExportInv
<1>9. CopyInv'
  <2>1. Copies(manual)' = Copies(manual) /\ Copies(orders)' = Copies(orders) BY <1>2 DEF Copies, Outside
  <2> QED BY <1>1, <1>2, <2>1 DEF ImportInv, ImportParts, CopyInv
<1> QED BY <1>3, <1>4, <1>5, <1>6, <1>7, <1>8, <1>9 DEF ImportInv, ImportParts

(* Somebody writes or removes a file: what an import has read of it is older. *)
LEMMA ChangeKeeps ==
    ASSUME ImportInv, NEW f \in Files, Change(f), UNCHANGED importVars PROVE ImportInv'
<1>1. PICK c \in {0, NewContent} : Put(f, c) BY DEF Change
<1>2. /\ writes' = writes + 1 /\ disk' = [disk EXCEPT ![f] = c] /\ raised' \subseteq Files
      /\ watched' = watched
  BY <1>1 DEF Put, Change, watcher, ImportInv, ImportTypes
<1>3. /\ disk \in [Files -> Nat] /\ writes \in Nat /\ \A g \in Files : disk[g] < 3 + writes
      /\ c = 0 \/ c = 3 + writes
  BY <1>1 DEF ImportInv, ImportTypes, ImportParts, WrittenInv, NewContent
<1>4. /\ disk' \in [Files -> Nat] /\ writes' \in Nat /\ disk'[f] = c
      /\ \A g \in Files \ {f} : disk'[g] = disk[g]
  BY <1>2, <1>3
<1>5. \A g \in Files : disk'[g] < 3 + writes' BY <1>2, <1>3, <1>4
<1>6. UNCHANGED <<indexed, products, spare, doing, before, staged, copies, external, exporting, paused,
                  orders, manual, candidates, at, job>>
  BY DEF importVars, disks, commands, import, queue, flags, ghosts
<1>7. ImportTypes' BY <1>2, <1>4, <1>6 DEF ImportInv, ImportTypes
<1>8. PlaceInv' BY <1>6 DEF ImportInv, ImportParts, PlaceInv
<1>9. WrittenInv'
  <2>1. IF at \in Parsed THEN before # 0 /\ before < 3 + writes /\ before \in Nat ELSE before = 0
    BY DEF ImportInv, ImportParts, ImportTypes, WrittenInv
  <2> QED BY <1>2, <1>3, <1>5, <1>6, <2>1 DEF WrittenInv, Parsed
<1>10. TransactionInv'
  <2>1. CASE at = "checking"
    <3>1. doing.file \in Files /\ before # 0 /\ before < 3 + writes /\ before \in Nat
      BY <2>1 DEF ImportInv, ImportParts, ImportTypes, WrittenInv, PlaceInv, Stages, Parsed
    <3>2. disk'[doing.file] = before => disk[doing.file] = before BY <1>3, <1>4, <3>1
    <3> QED BY <1>6, <2>1, <3>2 DEF ImportInv, ImportParts, TransactionInv
  <2>2. CASE at # "checking" BY <1>6, <2>2 DEF ImportInv, ImportParts, TransactionInv
  <2> QED BY <2>1, <2>2
<1>11. WholeInv' BY <1>6 DEF ImportInv, ImportParts, WholeInv
<1>12. ExportInv' BY <1>6 DEF ImportInv, ImportParts, ExportInv
<1>13. CopyInv'
  <2>1. Copies(manual)' = Copies(manual) /\ Copies(orders)' = Copies(orders) BY <1>6 DEF Copies, Outside
  <2> QED BY <1>6, <2>1 DEF ImportInv, ImportParts, CopyInv
<1> QED BY <1>7, <1>8, <1>9, <1>10, <1>11, <1>12, <1>13 DEF ImportInv, ImportParts

LEMMA WatchingKeeps ==
    ASSUME ImportInv, WatcherThread \/ UNCHANGED watchVars, UNCHANGED importVars PROVE ImportInv'
<1>1. raised \subseteq Files /\ watched \in Seq(Some) BY DEF ImportInv, ImportTypes
<1>2. UNCHANGED <<disks, at, import, manual, candidates, orders, copies, external, exporting, paused, job>>
  BY DEF importVars, commands, queue, flags, ghosts
<1>3. UNCHANGED <<disk, writes>> /\ raised' \subseteq Files /\ watched' \in Seq(Some)
  <2>1. CASE WatchBreaks
    <3>1. UNCHANGED <<disk, writes, raised>> /\ Emit(NoFile) /\ NoFile \in Some
      BY <2>1 DEF WatchBreaks, Some
    <3> QED BY <1>1, <3>1, EmitNames
  <2>2. ASSUME NEW f \in Files, Notice(f) PROVE UNCHANGED <<disk, writes>> /\ raised' \subseteq Files /\ watched' \in Seq(Some)
    <3>1. UNCHANGED <<disk, writes>> /\ raised' = raised \ {f} /\ Emit(f) /\ f \in Some
      BY <2>2 DEF Notice, Some
    <3> QED BY <1>1, <3>1, EmitNames
  <2>3. CASE UNCHANGED watchVars BY <1>1, <2>3 DEF watchVars, system, watcher
  <2> QED BY <2>1, <2>2, <2>3 DEF WatcherThread
<1>4. ExportInv' BY <1>2 DEF ImportInv, ImportParts, ExportInv
<1> QED BY <1>2, <1>3, <1>4, QuietKeeps

LEMMA ImportStepKeeps == ASSUME ImportInv, ImportSteps PROVE ImportInv'
<1>1. CASE ImportTask
  <2>1. CASE ImportStage
    BY <2>1, CopyKeeps, OpenKeeps, ParseKeeps, CheckKeeps, CommitKeeps, SaveKeeps DEF ImportStage
  <2> QED BY <1>1, <2>1, BeginKeeps, TickKeeps, EndStepKeeps DEF ImportTask
<1>2. CASE ImportFrame \/ ImportUser \/ StopImports
  BY <1>2, NotifiesKeep, FrameOfImportsKeeps, OrdersKeep DEF ImportFrame, ImportTurn, ImportUser
<1>3. CASE (WatcherThread \/ \E f \in Files : Change(f)) /\ UNCHANGED importVars
  BY <1>3, WatchingKeeps, ChangeKeeps
<1> QED BY <1>1, <1>2, <1>3 DEF ImportSteps

LEMMA ImportStarts ==
    ASSUME WatchInit({d \in [Files -> 0 .. 2] : \A f \in Files : d[OpenFile] <= d[f]}, "stopped"), ImportInit
    PROVE  ImportInv
<1>1. disk \in [Files -> 0 .. 2] /\ writes = 0 /\ raised = {} /\ watched = <<>> BY DEF WatchInit
<1>2. /\ indexed = [f \in Files |-> IF disk[f] = 0 THEN 0 ELSE 1] /\ products = indexed
      /\ spare = [f \in Files |-> 0] /\ orders = <<>> /\ manual = <<>> /\ candidates = {}
      /\ job = "scheduled" /\ at = "idle" /\ doing = NoImport /\ before = 0 /\ staged = 0
      /\ exporting = "closed" /\ copies = 0 /\ external = 0
  BY DEF ImportInit
<1>3. <<>> \in Seq(Some) /\ <<>> \in Seq(Ordered) /\ <<>> \in Seq(Imports) OBVIOUS
<1>4. disk \in [Files -> Nat] /\ indexed \in [Files -> Nat] /\ spare \in [Files -> Nat] BY <1>1, <1>2
<1>5. ImportTypes BY <1>1, <1>2, <1>3, <1>4 DEF ImportTypes, NoImport
<1>6. PlaceInv /\ TransactionInv /\ ExportInv BY <1>2 DEF PlaceInv, TransactionInv, ExportInv, Stages, Parsed
<1>7. WrittenInv BY <1>1, <1>2 DEF WrittenInv, Parsed
<1>8. WholeInv BY <1>2 DEF WholeInv
<1>9. CopyInv
  <2>1. Copies(orders) = 0 /\ Copies(manual) = 0 BY <1>2, CopiesEmpty
  <2> QED BY <1>2, <2>1 DEF CopyInv
<1> QED BY <1>5, <1>6, <1>7, <1>8, <1>9 DEF ImportInv, ImportParts

(* For every number of files, writes, failures and orders: the products of each source are those
   the index names unless a backup is left beside them, no step runs while a package is exported,
   and no file is copied in that the user did not ask for (asset_import_controller.cpp,
   asset_import_sdk.cpp, asset_background_worker.cpp). *)
THEOREM ImportsCorrect == FilesSpec => []ImportIsWhole
<1> DEFINE Inv == IF part = "import" THEN ImportInv
                  ELSE /\ indexed = products /\ exporting = "closed" /\ copies = 0 /\ external = 0
<1>1. FilesInit => Inv
  <2> SUFFICES ASSUME FilesInit PROVE Inv OBVIOUS
  <2>1. ImportInit BY DEF FilesInit
  <2>2. CASE part = "import" BY <2>1, <2>2, ImportStarts DEF FilesInit, PartInit
  <2>3. CASE part # "import" BY <2>1, <2>3 DEF ImportInit
  <2> QED BY <2>2, <2>3
<1>2. Inv /\ [FilesNext]_fileVars => Inv'
  <2> SUFFICES ASSUME Inv, [FilesNext]_fileVars PROVE Inv' OBVIOUS
  <2>1. CASE part # "import"
    <3>1. part' = part /\ UNCHANGED <<indexed, products, exporting, copies, external>>
      BY <2>1 DEF FilesNext, IsClient, IsAuthor, IsImport, fileVars, importVars, disks, ghosts
    <3> QED BY <2>1, <3>1
  <2>2. CASE part = "import" /\ UNCHANGED fileVars
    <3>1. part' = part /\ UNCHANGED watchVars /\ UNCHANGED importVars BY <2>2 DEF fileVars
    <3> QED BY <2>2, <3>1, WatchingKeeps
  <2>3. CASE part = "import" /\ FilesNext
    <3>1. part' = part /\ ImportSteps BY <2>3 DEF FilesNext, IsClient, IsAuthor, IsImport
    <3>2. ImportInv' BY <2>3, <3>1, ImportStepKeeps
    <3> QED BY <2>3, <3>1, <3>2
  <2> QED BY <2>1, <2>2, <2>3
<1>3. Inv => ImportIsWhole
  <2> SUFFICES ASSUME Inv PROVE ImportIsWhole OBVIOUS
  <2>1. CASE part = "import"
    <3>1. /\ WholeInv /\ ExportInv /\ CopyInv /\ copies \in Nat /\ external \in Nat
          /\ Copies(orders) \in Nat /\ Copies(manual) \in Nat
      BY <2>1, CopiesType DEF ImportInv, ImportTypes, ImportParts
    <3>2. copies <= external BY <3>1 DEF CopyInv
    <3> QED BY <3>1, <3>2 DEF ImportIsWhole, WholeInv, ExportInv
  <2>2. CASE part # "import" BY <2>2 DEF ImportIsWhole
  <2> QED BY <2>1, <2>2
<1> HIDE DEF Inv
<1> QED BY <1>1, <1>2, <1>3, PTL DEF FilesSpec
-----------------------------------------------------------------------------
(***************************************************************************)
(* No changed source is missed.                                             *)
(***************************************************************************)
Event == [state : {"failed", "succeeded", "superseded"}, seen : UNION {[T -> Nat] : T \in SUBSET Files}]

\* The frame and the worker can still be relied on.
Heeds == Watches /\ ~stopping /\ ~swallowed
\* No cancel is waiting; only then does what the worker has waiting count.
Kept == \A i \in 1 .. Len(orders) : orders[i].what # "cancel"
\* Something has still to reach the worker that makes it look at f, or the user was told of f.
Early(f) ==
    \/ f \in raised \/ f \in Range(watched) \/ overrun \/ refused \/ rescan
    \/ Order("notify", f) \in Range(orders)
Since(f) == disk[f] \in reported[f] \/ Early(f)
SinceAll == \A f \in Files : Since(f)
SinceStays == \A f \in Files : Since(f) => Since(f)'
\* The worker will look at f.
Waits(f) ==
    f \in candidates \/ "asked" \in sweep \/ f \in left \/ Order("import", f) \in Range(manual)
InHand(f) == at \in Stages /\ doing.file = f
\* The user will be told of f as it is, or sees that it is gone.
Hears(s, f) ==
    \E i \in 1 .. Len(s) : s[i].state = "failed" /\ f \in DOMAIN s[i].seen /\ s[i].seen[f] = disk[f]
Gone(f) == disk[f] = 0 /\ (browserDirty \/ browser[f] \in {"missing", "unknown"})
Covered(f) ==
    \/ disk[f] = indexed[f] \/ Since(f) \/ uncounted \/ Hears(results, f) \/ Hears(done, f)
    \/ Gone(f) \/ (Kept /\ Waits(f)) \/ InHand(f)
\* What the runtime will have been told to load once the step is over and its events are taken.
IsNews(e, f) == e.state = "succeeded" /\ f \in DOMAIN e.seen
Newest(f) ==
    IF done # <<>> /\ IsNews(done[Len(done)], f) THEN done[Len(done)].seen[f] ELSE Imported(f)

EventTypes == results \in Seq(Event) /\ done \in Seq(Event)
\* An idle worker has nothing of a step left, and says so where there is something to do.
RestInv ==
    /\ left # {} => "active" \in sweep
    /\ at = "copying" => doing = Order("external", NoFile)
    /\ at = "idle" =>
           /\ done = <<>> /\ ~uncounted
           /\ ~pendingWork => manual = <<>> /\ candidates = {} /\ sweep = {} /\ ~browserDirty
\* A cancel is the first order, and gave up each file as it was then.
CancelInv ==
    /\ \A i \in 1 .. Len(orders) : orders[i].what = "cancel" => i = 1
    /\ revoked => ~Kept
GivenUpInv == Heeds /\ ~Kept => SinceAll
\* A success is the last event of a step that is ending; nothing the index has is kept from the
\* runtime.
SuccessInv == \A i \in 1 .. Len(done) : done[i].state = "succeeded" => i = Len(done) /\ at = "ending"
PublishedInv == \A f \in Files : Newest(f) = indexed[f]
\* The file is as the import read it, or will be looked at again.
ReadAsIsInv ==
    Heeds /\ at \in Parsed => \A f \in Files : f = doing.file => disk[f] = before \/ Since(f)
CoveredInv == Heeds => \A f \in Files : indexed[f] # 0 => Covered(f)

MissParts == /\ RestInv /\ CancelInv /\ GivenUpInv /\ SuccessInv /\ PublishedInv /\ ReadAsIsInv
             /\ CoveredInv
MissInv == ImportInv /\ EventTypes /\ MissParts

LEMMA RangeAppend ==
    ASSUME NEW S, NEW s \in Seq(S), NEW e \in S PROVE Range(Append(s, e)) = Range(s) \cup {e}
<1>1. /\ DOMAIN s = 1 .. Len(s) /\ DOMAIN Append(s, e) = 1 .. Len(s) + 1 /\ Len(s) \in Nat
      /\ \A i \in 1 .. Len(s) : Append(s, e)[i] = s[i]
      /\ Append(s, e)[Len(s) + 1] = e
  OBVIOUS
<1> DEFINE t == Append(s, e)
<1> HIDE DEF t
<1>2. ASSUME NEW x \in Range(t) PROVE x \in Range(s) \cup {e}
  <2>1. PICK i \in 1 .. Len(s) + 1 : x = t[i] BY <1>1, <1>2 DEF Range, t
  <2>2. CASE i = Len(s) + 1 BY <1>1, <2>1, <2>2 DEF t
  <2>3. CASE i # Len(s) + 1
    <3>1. i \in 1 .. Len(s) BY <1>1, <2>1, <2>3
    <3> QED BY <1>1, <2>1, <3>1 DEF Range, t
  <2> QED BY <2>2, <2>3
<1>3. ASSUME NEW x \in Range(s) \cup {e} PROVE x \in Range(t)
  <2>1. CASE x = e
    <3>1. Len(s) + 1 \in 1 .. Len(s) + 1 BY <1>1
    <3> QED BY <1>1, <2>1, <3>1 DEF Range, t
  <2>2. CASE x \in Range(s)
    <3>1. PICK i \in 1 .. Len(s) : x = s[i] BY <1>1, <2>2 DEF Range
    <3>2. i \in 1 .. Len(s) + 1 BY <1>1, <3>1
    <3> QED BY <1>1, <3>1, <3>2 DEF Range, t
  <2> QED BY <1>3, <2>1, <2>2
<1> QED BY <1>2, <1>3 DEF t

LEMMA RangeTail ==
    ASSUME NEW S, NEW s \in Seq(S), s # <<>> PROVE Range(s) = Range(Tail(s)) \cup {Head(s)}
<1>1. /\ DOMAIN s = 1 .. Len(s) /\ Len(s) \in Nat /\ Len(s) # 0 /\ Head(s) = s[1]
      /\ DOMAIN Tail(s) = 1 .. Len(s) - 1
      /\ \A i \in 1 .. Len(s) - 1 : Tail(s)[i] = s[i + 1]
  OBVIOUS
<1> DEFINE t == Tail(s)
<1> HIDE DEF t
<1>2. ASSUME NEW x \in Range(s) PROVE x \in Range(t) \cup {Head(s)}
  <2>1. PICK i \in 1 .. Len(s) : x = s[i] BY <1>1, <1>2 DEF Range
  <2>2. CASE i = 1 BY <1>1, <2>1, <2>2
  <2>3. CASE i # 1
    <3>1. i - 1 \in 1 .. Len(s) - 1 /\ (i - 1) + 1 = i BY <1>1, <2>1, <2>3
    <3>2. t[i - 1] = x BY <1>1, <2>1, <3>1 DEF t
    <3> QED BY <1>1, <3>1, <3>2 DEF Range, t
  <2> QED BY <2>2, <2>3
<1>3. ASSUME NEW x \in Range(t) \cup {Head(s)} PROVE x \in Range(s)
  <2>1. CASE x = Head(s)
    <3>1. 1 \in 1 .. Len(s) BY <1>1
    <3> QED BY <1>1, <2>1, <3>1 DEF Range
  <2>2. CASE x \in Range(t)
    <3>1. PICK i \in 1 .. Len(s) - 1 : x = t[i] BY <1>1, <2>2 DEF Range, t
    <3>2. i + 1 \in 1 .. Len(s) /\ s[i + 1] = x BY <1>1, <3>1 DEF t
    <3> QED BY <1>1, <3>2 DEF Range
  <2> QED BY <1>3, <2>1, <2>2
<1> QED BY <1>2, <1>3 DEF t

LEMMA RangeEmpty == Range(<<>>) = {}
BY DEF Range

(* The events. *)
LEMMA TellsEvent ==
    ASSUME NEW state \in {"failed", "succeeded", "superseded"}, NEW f \in Some, NEW c \in Nat
    PROVE  /\ Tells(state, f, c) \in Event /\ Tells(state, f, c).state = state
           /\ \A g \in Files : g \in DOMAIN Tells(state, f, c).seen <=> g = f
           /\ f \in Files => Tells(state, f, c).seen[f] = c
<1> DEFINE T == Files \cap {f}
           h == [g \in T |-> c]
<1>1. T \in SUBSET Files OBVIOUS
<1>2. h \in [T -> Nat] OBVIOUS
<1>3. h \in UNION {[V -> Nat] : V \in SUBSET Files} BY <1>1, <1>2
<1>4. DOMAIN h = T /\ \A g \in T : h[g] = c OBVIOUS
<1> HIDE DEF h
<1>5. Tells(state, f, c) = [state |-> state, seen |-> h] BY DEF Tells, h
<1> QED BY <1>3, <1>4, <1>5 DEF Event

LEMMA FailureEvent ==
    ASSUME disk \in [Files -> Nat], NEW f \in Some
    PROVE  /\ Failure(f) \in Event /\ Failure(f).state = "failed"
           /\ f \in Files => f \in DOMAIN Failure(f).seen /\ Failure(f).seen[f] = disk[f]
<1> DEFINE T == Files \cap {f}
           h == [g \in T |-> disk[g]]
<1>1. T \in SUBSET Files OBVIOUS
<1>2. h \in [T -> Nat] OBVIOUS
<1>3. h \in UNION {[V -> Nat] : V \in SUBSET Files} BY <1>1, <1>2
<1>4. DOMAIN h = T /\ \A g \in T : h[g] = disk[g] OBVIOUS
<1> HIDE DEF h
<1>5. Failure(f) = [state |-> "failed", seen |-> h] BY DEF Failure, h
<1> QED BY <1>3, <1>4, <1>5 DEF Event

LEMMA SweepFailureEvent ==
    ASSUME disk \in [Files -> Nat]
    PROVE  [state |-> "failed", seen |-> disk] \in Event
<1>1. disk \in UNION {[V -> Nat] : V \in SUBSET Files} OBVIOUS
<1> QED BY <1>1 DEF Event

LEMMA HearsMore ==
    ASSUME NEW s \in Seq(Event), NEW e \in Event, NEW f
    PROVE  /\ Hears(s, f) => Hears(Append(s, e), f)
           /\ e.state = "failed" /\ f \in DOMAIN e.seen /\ e.seen[f] = disk[f] => Hears(Append(s, e), f)
<1>1. /\ Len(s) \in Nat /\ Len(Append(s, e)) = Len(s) + 1 /\ Append(s, e)[Len(s) + 1] = e
      /\ \A i \in 1 .. Len(s) : Append(s, e)[i] = s[i]
  OBVIOUS
<1> QED BY <1>1 DEF Hears

LEMMA HearsJoined ==
    ASSUME NEW s \in Seq(Event), NEW t \in Seq(Event), NEW f
    PROVE  Hears(s, f) \/ Hears(t, f) => Hears(s \o t, f)
<1>1. /\ Len(s) \in Nat /\ Len(t) \in Nat /\ Len(s \o t) = Len(s) + Len(t)
      /\ \A i \in 1 .. Len(s) : (s \o t)[i] = s[i]
      /\ \A i \in 1 .. Len(t) : (s \o t)[Len(s) + i] = t[i]
  OBVIOUS
<1> DEFINE u == s \o t
<1> HIDE DEF u
<1>2. CASE Hears(s, f) BY <1>1, <1>2 DEF Hears, u
<1>3. CASE Hears(t, f)
  <2>1. PICK i \in 1 .. Len(t) : t[i].state = "failed" /\ f \in DOMAIN t[i].seen /\ t[i].seen[f] = disk[f]
    BY <1>3 DEF Hears
  <2>2. Len(s) + i \in 1 .. Len(u) /\ u[Len(s) + i] = t[i] BY <1>1, <2>1 DEF u
  <2>3. Hears(u, f) BY <2>1, <2>2 DEF Hears
  <2> QED BY <2>3 DEF u
<1> QED BY <1>2, <1>3 DEF u

\* What the steps of the frame leave alone.
TaskVars == <<disk, indexed, at, doing, before, candidates, sweep, left, manual, done, uncounted,
              pendingWork, browser, browserDirty>>
HearsStays == \A f \in Files : Hears(results, f) => Hears(results, f)' \/ disk[f] \in reported'[f]
HeardTypes == results' \in Seq(Event)

(* What happens beside the step: either all is to be looked at again, or nothing is forgotten. *)
LEMMA BesideMisses ==
    ASSUME MissInv, ImportInv', UNCHANGED TaskVars, HeardTypes, CancelInv', PublishedInv',
           \/ Heeds' => SinceAll'
           \/ Heeds' => Heeds /\ (Kept' <=> Kept) /\ SinceStays /\ HearsStays
    PROVE  MissInv'
<1> USE DEF TaskVars
<1>1. EventTypes' BY DEF MissInv, EventTypes, HeardTypes
<1>2. RestInv' BY DEF MissInv, MissParts, RestInv
<1>3. SuccessInv' BY DEF MissInv, MissParts, SuccessInv
<1>4. CASE Heeds' => SinceAll'
  <2>1. GivenUpInv' BY <1>4 DEF GivenUpInv
  <2>2. ReadAsIsInv' BY <1>4 DEF ReadAsIsInv, SinceAll
  <2>3. CoveredInv' BY <1>4 DEF CoveredInv, Covered, SinceAll
  <2> QED BY <1>1, <1>2, <1>3, <2>1, <2>2, <2>3 DEF MissInv, MissParts
<1>5. CASE Heeds' => Heeds /\ (Kept' <=> Kept) /\ SinceStays /\ HearsStays
  <2>1. GivenUpInv' BY <1>5 DEF GivenUpInv, MissInv, MissParts, SinceAll, SinceStays
  <2>2. ReadAsIsInv' BY <1>5 DEF MissInv, MissParts, ReadAsIsInv, SinceStays
  <2>3. CoveredInv'
    <3> SUFFICES ASSUME Heeds', NEW f \in Files, indexed[f] # 0 PROVE Covered(f)' BY DEF CoveredInv
    <3>1. Covered(f) /\ (Kept' <=> Kept) /\ SinceStays /\ HearsStays
      BY <1>5 DEF MissInv, MissParts, CoveredInv
    <3>2. CASE Since(f) BY <3>1, <3>2 DEF Covered, SinceStays
    <3>3. CASE Hears(results, f) BY <3>1, <3>3 DEF Covered, HearsStays, Since
    <3>4. CASE Hears(done, f)
      <4>1. Hears(done, f)' BY <3>4 DEF Hears
      <4> QED BY <4>1 DEF Covered
    <3>5. CASE disk[f] = indexed[f] \/ uncounted \/ Gone(f) \/ InHand(f)
      BY <3>5 DEF Covered, Gone, InHand
    <3>6. CASE Kept /\ Waits(f) BY <3>1, <3>6 DEF Covered, Waits
    <3> QED BY <3>1, <3>2, <3>3, <3>4, <3>5, <3>6 DEF Covered
  <2> QED BY <1>1, <1>2, <1>3, <2>1, <2>2, <2>3 DEF MissInv, MissParts
<1> QED BY <1>4, <1>5

(* Most of them leave what the user and the runtime have heard of alone, too. *)
LEMMA SameMisses ==
    ASSUME MissInv, ImportInv', UNCHANGED TaskVars, UNCHANGED <<results, published, reported>>, CancelInv',
           \/ Heeds' => SinceAll'
           \/ Heeds' => Heeds /\ (Kept' <=> Kept) /\ SinceStays
    PROVE  MissInv'
<1>1. HeardTypes BY DEF MissInv, EventTypes, HeardTypes
<1>2. PublishedInv'
  <2>1. \A f \in Files : Newest(f)' = Newest(f) BY DEF TaskVars, Newest, Imported, Successes, IsNews
  <2> QED BY <2>1 DEF MissInv, MissParts, PublishedInv, TaskVars
<1>3. HearsStays BY DEF HearsStays, Hears, TaskVars
<1> QED BY <1>1, <1>2, <1>3, BesideMisses

(* Where the orders stay as they are, so does what is known of a cancel. *)
LEMMA OrdersStay ==
    ASSUME MissInv, UNCHANGED <<orders, revoked>>
    PROVE  CancelInv' /\ (Kept' <=> Kept)
BY DEF MissInv, MissParts, CancelInv, Kept

(* An order that is no cancel changes nothing of that either. *)
LEMMA OrderAdded ==
    ASSUME MissInv, NEW e \in Ordered, e.what # "cancel", orders' = Append(orders, e), revoked' = revoked
    PROVE  /\ CancelInv' /\ (Kept' <=> Kept)
           /\ Range(orders') = Range(orders) \cup {e}
<1>1. orders \in Seq(Ordered) BY DEF MissInv, ImportInv, ImportTypes
<1>2. /\ Len(orders) \in Nat /\ Len(orders') = Len(orders) + 1 /\ orders'[Len(orders) + 1] = e
      /\ \A i \in 1 .. Len(orders) : orders'[i] = orders[i]
  BY <1>1
<1>3. \A i \in 1 .. Len(orders') : i \in 1 .. Len(orders) \/ i = Len(orders) + 1 BY <1>2
<1>4. 1 .. Len(orders) \subseteq 1 .. Len(orders') BY <1>2
<1>5. Kept' <=> Kept
  <2>1. Kept => Kept' BY <1>2, <1>3 DEF Kept
  <2>2. Kept' => Kept BY <1>2, <1>4 DEF Kept
  <2> QED BY <2>1, <2>2
<1>6. CancelInv' BY <1>2, <1>3, <1>5 DEF MissInv, MissParts, CancelInv
<1>7. Range(orders') = Range(orders) \cup {e} BY <1>1, RangeAppend
<1> QED BY <1>5, <1>6, <1>7

LEMMA NotifiesMiss == ASSUME MissInv, FrameNotifies PROVE MissInv'
<1>1. ImportInv' BY NotifiesKeep DEF MissInv
<1>2. /\ watched \in Seq(Some) /\ watched # <<>> /\ watched' = Tail(watched)
      /\ UNCHANGED <<disk, raised, overrun, stopping, swallowed, watching, revoked>>
      /\ UNCHANGED <<results, published, reported>> /\ UNCHANGED TaskVars
  BY DEF FrameNotifies, MissInv, ImportInv, ImportTypes, system, disks, import, queue, shows, ghosts,
         TaskVars
<1>3. Range(watched) = Range(watched') \cup {Head(watched)} /\ Head(watched) \in Some BY <1>2, RangeTail
<1>4. CASE Head(watched) = NoFile
  <2>1. watchFailed' = TRUE /\ UNCHANGED orders BY <1>4 DEF FrameNotifies
  <2>2. ~Heeds' BY <2>1 DEF Heeds, Watches
  <2>3. CancelInv' BY <1>2, <2>1, OrdersStay
  <2> QED BY <1>1, <1>2, <2>2, <2>3, SameMisses
<1>5. CASE Head(watched) # NoFile
  <2> DEFINE g == Head(watched)
  <2>1. g \in Files /\ Notify(g) /\ watchFailed' = watchFailed BY <1>3, <1>5 DEF FrameNotifies, Some
  <2>2. Heeds' <=> Heeds BY <1>2, <2>1 DEF Heeds, Watches
  <2>3. Order("notify", g) \in Ordered /\ Order("notify", g).what # "cancel" BY <2>1, OrderNames
  <2>4. /\ CancelInv' /\ (Kept' <=> Kept) /\ Range(orders) \subseteq Range(orders')
        /\ Order("notify", g) \in Range(orders') \/ rescan'
        /\ (rescan => rescan') /\ (refused => refused')
    <3>1. CASE UNCHANGED <<orders, rescan, refused>> /\ Order("notify", g) \in Range(orders)
      BY <1>2, <3>1, OrdersStay
    <3>2. CASE orders' = Append(orders, Order("notify", g)) /\ UNCHANGED <<rescan, refused>>
      BY <1>2, <2>3, <3>2, OrderAdded
    <3>3. CASE UNCHANGED orders /\ rescan' = TRUE /\ refused' = TRUE BY <1>2, <3>3, OrdersStay
    <3> QED BY <2>1, <3>1, <3>2, <3>3 DEF Notify
  <2>5. SinceStays
    <3> SUFFICES ASSUME NEW f \in Files, Since(f) PROVE Since(f)' BY DEF SinceStays
    <3>1. CASE f = g BY <2>4, <3>1 DEF Since, Early
    <3>2. CASE f # g BY <1>2, <1>3, <2>4, <3>2 DEF Since, Early
    <3> QED BY <3>1, <3>2
  <2> QED BY <1>1, <1>2, <2>2, <2>4, <2>5, SameMisses
<1> QED BY <1>4, <1>5

LEMMA PollsMiss == ASSUME MissInv, FramePolls PROVE MissInv'
<1>1. ImportInv' BY FrameOfImportsKeeps DEF MissInv
<1>2. /\ UNCHANGED <<raised, watched, overrun, watching, watchFailed, orders, rescan, refused, revoked,
                     stopping, swallowed>>
      /\ UNCHANGED TaskVars /\ results' = <<>>
      /\ published' = [f \in Files |-> Imported(f)]
      /\ reported' = [f \in Files |-> reported[f] \cup Failed(f)]
  BY DEF FramePolls, watchVars, watcher, system, disks, import, queue, shows, commands, TaskVars
<1>3. HeardTypes BY <1>2 DEF HeardTypes
<1>4. CancelInv' /\ (Kept' <=> Kept) BY <1>2, OrdersStay
<1>5. PublishedInv'
  <2> SUFFICES ASSUME NEW f \in Files PROVE Newest(f)' = indexed[f] BY <1>2 DEF PublishedInv, TaskVars
  <2>1. Imported(f)' = Imported(f)
    <3>1. Successes(f)' = {}
      <4>1. Len(results') = 0 BY <1>2
      <4> QED BY <4>1 DEF Successes
    <3> QED BY <1>2, <3>1 DEF Imported
  <2>2. Newest(f)' = Newest(f) BY <1>2, <2>1 DEF Newest, IsNews, TaskVars
  <2> QED BY <2>2 DEF MissInv, MissParts, PublishedInv
<1>6. Heeds' => Heeds BY <1>2 DEF Heeds, Watches
<1>7. SinceStays BY <1>2 DEF SinceStays, Since, Early, TaskVars
<1>8. HearsStays
  <2> SUFFICES ASSUME NEW f \in Files, Hears(results, f) PROVE disk[f] \in reported'[f] BY DEF HearsStays
  <2>0. results \in Seq(Event) BY DEF MissInv, EventTypes
  <2>1. PICK i \in 1 .. Len(results) : /\ results[i].state = "failed" /\ f \in DOMAIN results[i].seen
                                       /\ results[i].seen[f] = disk[f]
    BY DEF Hears
  <2>2. results[i] \in Range(results) BY <2>0, <2>1 DEF Range
  <2>3. disk[f] \in Failed(f) BY <2>1, <2>2 DEF Failed
  <2> QED BY <1>2, <2>3
<1> QED BY <1>1, <1>2, <1>3, <1>4, <1>5, <1>6, <1>7, <1>8, BesideMisses

(* What the frame and the user do without giving an order. *)
LEMMA FrameOfImportsMisses ==
    ASSUME MissInv, FrameChecksDrops \/ WatchStarts \/ WatchRestarts \/ AskCheck \/ Export \/ ClosingPolls
    PROVE  MissInv'
<1>1. ImportInv' BY FrameOfImportsKeeps DEF MissInv
<1>2. /\ UNCHANGED TaskVars /\ UNCHANGED <<results, published, reported>> /\ UNCHANGED <<orders, revoked>>
      /\ UNCHANGED <<stopping, swallowed>>
  BY DEF FrameChecksDrops, WatchStarts, WatchRestarts, Restart, AskCheck, Export, ClosingPolls, watchVars,
         watcher, system, disks, import, queue, shows, commands, flags, ghosts, TaskVars
<1>3. CancelInv' /\ (Kept' <=> Kept) BY <1>2, OrdersStay
<1>4. CASE FrameChecksDrops
  <2>1. rescan' = TRUE BY <1>4 DEF FrameChecksDrops
  <2>2. SinceAll' BY <2>1 DEF SinceAll, Since, Early
  <2> QED BY <1>1, <1>2, <1>3, <2>2, SameMisses
<1>5. CASE WatchStarts \/ WatchRestarts
  <2>1. rescan' = TRUE \/ watching' = "stopped" BY <1>5 DEF WatchStarts, WatchRestarts, Restart
  <2>2. Heeds' => SinceAll' BY <2>1 DEF SinceAll, Since, Early, Heeds, Watches
  <2> QED BY <1>1, <1>2, <1>3, <2>2, SameMisses
<1>6. CASE AskCheck \/ Export
  <2>1. /\ UNCHANGED <<disk, raised, watched, overrun, watching, watchFailed, refused, reported>>
        /\ rescan => rescan'
    BY <1>6 DEF AskCheck, Export, watcher, system, commands, flags
  <2>2. SinceStays BY <1>2, <2>1 DEF SinceStays, Since, Early
  <2>3. Heeds' => Heeds BY <1>2, <2>1 DEF Heeds, Watches
  <2> QED BY <1>1, <1>2, <1>3, <2>2, <2>3, SameMisses
<1>7. CASE ClosingPolls
  <2>1. ~Heeds' BY <1>2, <1>7 DEF ClosingPolls, Heeds
  <2> QED BY <1>1, <1>2, <1>3, <2>1, SameMisses
<1> QED BY <1>4, <1>5, <1>6, <1>7

LEMMA StopsMiss == ASSUME MissInv, StopImports PROVE MissInv'
<1>1. ImportInv' BY FrameOfImportsKeeps DEF MissInv
<1>2. /\ UNCHANGED TaskVars /\ UNCHANGED <<results, published, reported>> /\ UNCHANGED <<orders, revoked>>
      /\ ~Heeds'
  BY DEF StopImports, watcher, system, disks, import, queue, shows, commands, ghosts, TaskVars, Heeds
<1>3. CancelInv' BY <1>2, OrdersStay
<1> QED BY <1>1, <1>2, <1>3, SameMisses

LEMMA CancelMisses == ASSUME MissInv, CancelTasks PROVE MissInv'
<1>1. ImportInv' BY OrdersKeep DEF MissInv
<1>2. /\ UNCHANGED TaskVars /\ UNCHANGED <<results, published>> /\ disk \in [Files -> Nat]
      /\ orders' = <<Order("cancel", NoFile)>>
      /\ reported' = [f \in Files |-> reported[f] \cup {disk[f]}]
  BY DEF CancelTasks, watcher, system, disks, import, queue, shows, TaskVars, MissInv, ImportInv, ImportTypes
<1>3. CancelInv'
  <2>1. Len(orders') = 1 /\ orders'[1].what = "cancel" BY <1>2 DEF Order
  <2>2. ~Kept' BY <2>1 DEF Kept
  <2> QED BY <2>1, <2>2 DEF CancelInv
<1>4. HeardTypes BY <1>2 DEF HeardTypes, MissInv, EventTypes
<1>5. PublishedInv'
  <2>1. \A f \in Files : Newest(f)' = Newest(f)
    BY <1>2 DEF TaskVars, Newest, Imported, Successes, IsNews
  <2> QED BY <1>2, <2>1 DEF MissInv, MissParts, PublishedInv, TaskVars
<1>6. SinceAll' BY <1>2 DEF SinceAll, Since, TaskVars
<1> QED BY <1>1, <1>2, <1>3, <1>4, <1>5, <1>6, BesideMisses

LEMMA AsksMiss ==
    ASSUME MissInv, AskImport(Order("external", NoFile)) \/ \E f \in Files : AskImport(Order("import", f))
    PROVE  MissInv'
<1>1. ImportInv' BY OrdersKeep DEF MissInv
<1>2. PICK e \in Ordered : AskImport(e) /\ e.what # "cancel" BY OrderNames
<1>3. /\ UNCHANGED TaskVars /\ UNCHANGED <<results, published, reported>>
      /\ orders' = Append(orders, e) /\ UNCHANGED revoked
      /\ UNCHANGED <<disk, raised, watched, overrun, watching, watchFailed, refused, reported, rescan,
                     stopping, swallowed>>
  BY <1>2 DEF AskImport, watcher, system, disks, import, queue, shows, flags, TaskVars
<1>4. CancelInv' /\ (Kept' <=> Kept) /\ Range(orders) \subseteq Range(orders')
  BY <1>2, <1>3, OrderAdded
<1>5. SinceStays BY <1>3, <1>4 DEF SinceStays, Since, Early
<1>6. Heeds' => Heeds BY <1>3 DEF Heeds, Watches
<1> QED BY <1>1, <1>3, <1>4, <1>5, <1>6, SameMisses

(* The watcher passes on what it has, or counts it as dropped. *)
LEMMA EmitPasses ==
    ASSUME watched \in Seq(Some), NEW event \in Some, Emit(event)
    PROVE  /\ event \in Range(watched') /\ (overrun => overrun')
           /\ \A f \in Range(watched) : f \in Range(watched') \/ overrun'
<1> USE WatcherAssumption DEF WatcherAssumption
<1> DEFINE w == IF Len(watched) = WatchCapacity THEN Tail(watched) ELSE watched
<1>1. w \in Seq(Some) /\ (Len(watched) # WatchCapacity => Range(w) = Range(watched))
  <2>1. CASE Len(watched) = WatchCapacity
    <3>1. watched # <<>> BY <2>1
    <3> QED BY <2>1, <3>1
  <2> QED BY <2>1
<1>2. watched' = Append(w, event) /\ overrun' = (overrun \/ Len(watched) = WatchCapacity) BY DEF Emit
<1> HIDE DEF w
<1>3. Range(watched') = Range(w) \cup {event} BY <1>1, <1>2, RangeAppend
<1> QED BY <1>1, <1>2, <1>3

LEMMA WatchingMisses ==
    ASSUME MissInv, WatcherThread \/ UNCHANGED watchVars, UNCHANGED importVars PROVE MissInv'
<1>1. ImportInv' BY WatchingKeeps DEF MissInv
<1>2. /\ UNCHANGED <<results, published, reported>> /\ UNCHANGED <<orders, revoked>>
      /\ UNCHANGED <<indexed, at, doing, before, candidates, sweep, left, manual, done, uncounted,
                     pendingWork, browser, browserDirty, rescan, refused, stopping, swallowed>>
  BY DEF importVars, disks, commands, flags, import, queue, shows, ghosts
<1>3. CancelInv' /\ (Kept' <=> Kept) BY <1>2, OrdersStay
<1>4. watched \in Seq(Some) BY DEF MissInv, ImportInv, ImportTypes
<1>5. CASE WatchBreaks
  <2>1. ~Heeds' /\ UNCHANGED disk BY <1>5 DEF WatchBreaks, Heeds, Watches
  <2>2. UNCHANGED TaskVars BY <1>2, <2>1 DEF TaskVars
  <2> QED BY <1>1, <1>2, <1>3, <2>1, <2>2, SameMisses
<1>6. ASSUME NEW g \in Files, Notice(g) PROVE MissInv'
  <2>1. /\ UNCHANGED <<disk, watching, watchFailed>> /\ raised' = raised \ {g} /\ Emit(g) /\ g \in Some
    BY <1>6 DEF Notice, Some
  <2>2. UNCHANGED TaskVars BY <1>2, <2>1 DEF TaskVars
  <2>3. /\ g \in Range(watched') /\ (overrun => overrun')
        /\ \A f \in Range(watched) : f \in Range(watched') \/ overrun'
    BY <1>4, <2>1, EmitPasses
  <2>4. SinceStays BY <1>2, <2>1, <2>3 DEF SinceStays, Since, Early
  <2>5. Heeds' => Heeds BY <1>2, <2>1 DEF Heeds, Watches
  <2> QED BY <1>1, <1>2, <1>3, <2>2, <2>4, <2>5, SameMisses
<1>7. CASE UNCHANGED watchVars
  <2>1. UNCHANGED <<disk, raised, watched, overrun, watching, watchFailed>>
    BY <1>7 DEF watchVars, system, watcher
  <2>2. UNCHANGED TaskVars BY <1>2, <2>1 DEF TaskVars
  <2>3. SinceStays BY <1>2, <2>1 DEF SinceStays, Since, Early
  <2>4. Heeds' => Heeds BY <1>2, <2>1 DEF Heeds, Watches
  <2> QED BY <1>1, <1>2, <1>3, <2>2, <2>3, <2>4, SameMisses
<1> QED BY <1>5, <1>6, <1>7 DEF WatcherThread

(* A file is written: the watch raises an event for it, and the others stay as they are. *)
LEMMA PutRaises ==
    ASSUME disk \in [Files -> Nat], NEW f \in Files, NEW c, Put(f, c),
           UNCHANGED <<watched, overrun, watching, watchFailed, orders, rescan, refused, reported>>
    PROVE  /\ \A g \in Files \ {f} : disk'[g] = disk[g]
           /\ Watches => Since(f)' /\ SinceStays
<1>1. /\ disk' = [disk EXCEPT ![f] = c] /\ raised \subseteq raised'
      /\ Watches => f \in raised'
  BY DEF Put, Watches
<1>2. \A g \in Files \ {f} : disk'[g] = disk[g] BY <1>1
<1>3. Watches => Since(f)' BY <1>1 DEF Since, Early
<1>4. ASSUME Watches, NEW g \in Files, Since(g) PROVE Since(g)'
  <2>1. CASE g = f BY <1>3, <1>4, <2>1
  <2>2. CASE g # f BY <1>1, <1>2, <1>4, <2>2 DEF Since, Early
  <2> QED BY <2>1, <2>2
<1> QED BY <1>2, <1>3, <1>4 DEF SinceStays

LEMMA ChangeMisses ==
    ASSUME MissInv, NEW f \in Files, Change(f), UNCHANGED importVars PROVE MissInv'
<1>1. ImportInv' BY ChangeKeeps DEF MissInv
<1>2. PICK c : Put(f, c) BY DEF Change
<1>3. /\ UNCHANGED <<results, published, reported>> /\ UNCHANGED <<orders, revoked>>
      /\ UNCHANGED <<indexed, at, doing, before, candidates, sweep, left, manual, done, uncounted,
                     pendingWork, browser, browserDirty, rescan, refused, stopping, swallowed>>
      /\ UNCHANGED <<watched, overrun, watching, watchFailed>>
  BY DEF importVars, disks, commands, flags, import, queue, shows, ghosts, Change, watcher
<1>4. disk \in [Files -> Nat] BY DEF MissInv, ImportInv, ImportTypes
<1>5. /\ \A g \in Files \ {f} : disk'[g] = disk[g]
      /\ Watches => Since(f)' /\ SinceStays
  BY <1>2, <1>3, <1>4, PutRaises
<1>6. Heeds' <=> Heeds BY <1>3 DEF Heeds, Watches
<1>7. CancelInv' /\ (Kept' <=> Kept) BY <1>3, OrdersStay
<1>8. EventTypes' BY <1>3 DEF MissInv, EventTypes
<1>9. RestInv' BY <1>3 DEF MissInv, MissParts, RestInv
<1>10. SuccessInv' BY <1>3 DEF MissInv, MissParts, SuccessInv
<1>11. PublishedInv'
  <2>1. \A g \in Files : Newest(g)' = Newest(g) BY <1>3 DEF Newest, Imported, Successes, IsNews
  <2> QED BY <1>3, <2>1 DEF MissInv, MissParts, PublishedInv
<1>12. GivenUpInv'
  BY <1>5, <1>6, <1>7 DEF Heeds, MissInv, MissParts, GivenUpInv, SinceAll, SinceStays
<1>13. ReadAsIsInv'
  <2> SUFFICES ASSUME Heeds', at \in Parsed, NEW g \in Files, g = doing.file
               PROVE disk'[g] = before \/ Since(g)'
    BY <1>3 DEF ReadAsIsInv
  <2>1. (disk[g] = before \/ Since(g)) /\ Watches
    BY <1>3, <1>6 DEF MissInv, MissParts, ReadAsIsInv, Heeds
  <2> QED BY <1>5, <2>1 DEF SinceStays
<1>14. CoveredInv'
  <2> SUFFICES ASSUME Heeds', NEW g \in Files, indexed[g] # 0 PROVE Covered(g)'
    BY <1>3 DEF CoveredInv
  <2>1. Covered(g) /\ Watches BY <1>6 DEF MissInv, MissParts, CoveredInv, Heeds
  <2>2. CASE g = f BY <1>5, <2>1, <2>2 DEF Covered
  <2>3. CASE g # f
    <3>1. disk'[g] = disk[g] BY <1>5, <2>3
    <3>2. CASE Since(g) BY <1>5, <2>1, <3>2 DEF SinceStays, Covered
    <3>3. CASE Hears(results, g) \/ Hears(done, g)
      <4>1. Hears(results, g)' \/ Hears(done, g)' BY <1>3, <3>1, <3>3 DEF Hears
      <4> QED BY <4>1 DEF Covered
    <3>4. CASE disk[g] = indexed[g] \/ uncounted \/ Gone(g) \/ InHand(g)
      BY <1>3, <3>1, <3>4 DEF Covered, Gone, InHand
    <3>5. CASE Kept /\ Waits(g) BY <1>3, <1>7, <3>5 DEF Covered, Waits
    <3> QED BY <2>1, <3>2, <3>3, <3>4, <3>5 DEF Covered
  <2> QED BY <2>2, <2>3
<1> QED BY <1>1, <1>7, <1>8, <1>9, <1>10, <1>11, <1>12, <1>13, <1>14 DEF MissInv, MissParts

\* What the stages of an import leave alone of this.
HandVars == <<watched, overrun, watching, watchFailed, orders, results, revoked, stopping, swallowed,
              left, uncounted, pendingWork, browser, published, reported>>
LEMMA StageLeaves == ASSUME ImportStage PROVE UNCHANGED HandVars
BY DEF ImportStage, HandVars, watcher

LEMMA HeedsStays == ASSUME UNCHANGED HandVars PROVE (Heeds' <=> Heeds) /\ (Kept' <=> Kept)
BY DEF HandVars, Heeds, Watches, Kept

LEMMA CancelStays == ASSUME MissInv, UNCHANGED HandVars PROVE CancelInv'
BY OrdersStay DEF HandVars

\* While an import is in hand, nothing in the step's events is a success.
LEMMA NoNews == ASSUME MissInv, at # "ending" PROVE \A f \in Files : Newest(f) = Imported(f) /\ Imported(f) = indexed[f]
<1>1. done \in Seq(Event) BY DEF MissInv, EventTypes
<1>2. done # <<>> => Len(done) \in 1 .. Len(done) BY <1>1
<1>3. done # <<>> => done[Len(done)].state # "succeeded" BY <1>2 DEF MissInv, MissParts, SuccessInv
<1>4. \A f \in Files : Newest(f) = Imported(f) BY <1>3 DEF Newest, IsNews
<1> QED BY <1>4 DEF MissInv, MissParts, PublishedInv

LEMMA ImportedStays == ASSUME UNCHANGED <<results, published>> PROVE \A f \in Files : Imported(f)' = Imported(f)
BY DEF Imported, Successes

(* A stage that goes on to the next keeps its file in hand. *)
LEMMA StageMisses ==
    ASSUME MissInv, ImportInv', ImportStage, NEW stage \in Stages, GoesOn(stage), at \in Stages,
           UNCHANGED <<disk, raised, doing, indexed>>,
           stage \in Parsed => before' = disk[doing.file] \/ (at \in Parsed /\ before' = before)
    PROVE  MissInv'
<1>1. at' = stage /\ UNCHANGED <<manual, refused, rescan, done, candidates, sweep, browserDirty>>
  BY DEF GoesOn
<1>2. UNCHANGED HandVars BY StageLeaves
<1>3. (Heeds' <=> Heeds) /\ (Kept' <=> Kept) /\ CancelInv' BY <1>2, HeedsStays, CancelStays
<1>4. \A f \in Files : Since(f)' <=> Since(f) BY <1>1, <1>2 DEF Since, Early, HandVars
<1>5. EventTypes' BY <1>1, <1>2 DEF MissInv, EventTypes, HandVars
<1>6. RestInv' BY <1>1, <1>2 DEF MissInv, MissParts, RestInv, HandVars, Stages, Parsed
<1>7. GivenUpInv' BY <1>3, <1>4 DEF MissInv, MissParts, GivenUpInv, SinceAll
<1>8. at # "ending" BY DEF Stages, Parsed
<1>9. SuccessInv' BY <1>1, <1>8 DEF MissInv, MissParts, SuccessInv
<1>10. PublishedInv'
  <2>1. at' # "ending" BY <1>1 DEF Stages, Parsed
  <2>2. \A f \in Files : Newest(f)' = Newest(f) BY <1>1, <1>2 DEF Newest, Imported, Successes, IsNews, HandVars
  <2> QED BY <2>2 DEF MissInv, MissParts, PublishedInv
<1>11. ReadAsIsInv'
  <2> SUFFICES ASSUME Heeds, stage \in Parsed, NEW f \in Files, f = doing.file
               PROVE disk[f] = before' \/ Since(f)
    BY <1>1, <1>3, <1>4 DEF ReadAsIsInv
  <2> QED BY DEF MissInv, MissParts, ReadAsIsInv
<1>12. CoveredInv'
  <2> SUFFICES ASSUME Heeds, NEW f \in Files, indexed[f] # 0 PROVE Covered(f)' BY <1>3 DEF CoveredInv
  <2>1. Covered(f) BY DEF MissInv, MissParts, CoveredInv
  <2>2. CASE Hears(results, f) \/ Hears(done, f)
    <3>1. Hears(results, f)' \/ Hears(done, f)' BY <1>1, <1>2, <2>2 DEF Hears, HandVars
    <3> QED BY <3>1 DEF Covered
  <2>3. CASE disk[f] = indexed[f] \/ uncounted \/ Gone(f) \/ InHand(f)
    BY <1>1, <1>2, <2>3 DEF Covered, Gone, InHand, HandVars
  <2>4. CASE Since(f) \/ (Kept /\ Waits(f)) BY <1>1, <1>2, <1>3, <1>4, <2>4 DEF Covered, Waits, HandVars
  <2> QED BY <2>1, <2>2, <2>3, <2>4 DEF Covered
<1> QED BY <1>3, <1>5, <1>6, <1>7, <1>9, <1>10, <1>11, <1>12 DEF MissInv, MissParts

\* What a step ends with: what it has to tell, and the import to try again.
Outcomes == {"failed", "succeeded", "superseded"}
Content == IF before = 0 /\ doing.file \in Files THEN disk[doing.file] ELSE before
LEMMA EndIs ==
    ASSUME MissInv, ImportStage, NEW result \in Outcomes, EndWith(result), at \in Stages \cup {"copying"},
           UNCHANGED disk
    PROVE  /\ at' = "ending" /\ done' = Append(done, Tells(result, doing.file, Content))
           /\ Tells(result, doing.file, Content) \in Event
           /\ Tells(result, doing.file, Content).state = result
           /\ doing.file \in Some /\ (at = "copying" => doing.file \notin Files)
           /\ \A f \in Files : f \in DOMAIN Tells(result, doing.file, Content).seen <=> f = doing.file
           /\ doing.file \in Files => Tells(result, doing.file, Content).seen[doing.file] = Content
           /\ (refused => refused') /\ (rescan => rescan') /\ (browserDirty => browserDirty')
           /\ candidates \ {doing.file} \subseteq candidates' /\ Range(manual) \subseteq Range(manual')
           /\ candidates \subseteq candidates' \/ doing.file \in Files
           /\ ("asked" \in sweep => "asked" \in sweep') /\ (left # {} => "active" \in sweep')
           /\ (result = "superseded" /\ ~stopping /\ ~revoked) =>
                  rescan' \/ Order("import", doing.file) \in Range(manual')
<1> USE WatcherAssumption DEF WatcherAssumption
<1>1. /\ disk \in [Files -> Nat] /\ before \in Nat /\ manual \in Seq(Imports)
      /\ at \in Stages => doing.file \in Files
      /\ at = "copying" => doing = Order("external", NoFile) /\ before = 0
      /\ left # {} => "active" \in sweep
  BY DEF MissInv, ImportInv, ImportTypes, ImportParts, PlaceInv, MissParts, RestInv, WrittenInv, Parsed
<1>2. doing.file \in Some /\ (at = "copying" => doing.file = NoFile /\ doing.what # "auto")
  BY <1>1 DEF Some, Order
<1>3. Content \in Nat BY <1>1 DEF Content
<1>4. /\ Tells(result, doing.file, Content) \in Event /\ Tells(result, doing.file, Content).state = result
      /\ \A f \in Files : f \in DOMAIN Tells(result, doing.file, Content).seen <=> f = doing.file
      /\ doing.file \in Files => Tells(result, doing.file, Content).seen[doing.file] = Content
  BY <1>2, <1>3, TellsEvent DEF Outcomes
<1>5. at' = "ending" /\ done' = Append(done, Tells(result, doing.file, Content))
  BY DEF EndWith, End, Content
<1>6. (refused => refused') /\ (rescan => rescan') /\ (browserDirty => browserDirty') BY DEF EndWith, End
<1>7. /\ candidates \ {doing.file} \subseteq candidates'
      /\ candidates \subseteq candidates' \/ doing.file \in Files
      /\ ("asked" \in sweep => "asked" \in sweep') /\ (left # {} => "active" \in sweep')
  BY <1>1, <1>2 DEF EndWith, End, SweepEnds
<1>8. /\ Range(manual) \subseteq Range(manual')
      /\ (result = "superseded" /\ ~stopping /\ ~revoked) =>
             rescan' \/ Order("import", doing.file) \in Range(manual')
  <2>1. CASE manual' = Append(manual, Order("import", doing.file))
    <3>1. manual \in Seq(Imports \cup {Order("import", doing.file)})
      <4>1. Imports \subseteq Imports \cup {Order("import", doing.file)} OBVIOUS
      <4> QED BY <1>1, <4>1
    <3>2. Range(manual') = Range(manual) \cup {Order("import", doing.file)} BY <2>1, <3>1, RangeAppend
    <3> QED BY <3>2
  <2>2. CASE manual' = manual /\ (result = "superseded" /\ ~stopping /\ ~revoked => rescan')
    BY <2>2
  <2> QED BY <2>1, <2>2 DEF EndWith, End
<1>9. at = "copying" => doing.file \notin Files BY <1>2
<1> QED BY <1>2, <1>4, <1>5, <1>6, <1>7, <1>8, <1>9

(* The end of an import: done, told, or tried again. *)
LEMMA EndMisses ==
    ASSUME MissInv, ImportInv', ImportStage, NEW result \in Outcomes, EndWith(result),
           at \in Stages \cup {"copying"}, UNCHANGED <<disk, raised>>,
           result = "succeeded" => at \in Parsed /\ indexed' = [indexed EXCEPT ![doing.file] = before],
           result # "succeeded" => indexed' = indexed,
           result = "superseded" => at \in Stages
    PROVE  MissInv'
<1> DEFINE f == doing.file
           e == Tells(result, f, Content)
<1>1. UNCHANGED HandVars BY StageLeaves
<1>2. /\ at' = "ending" /\ done' = Append(done, e) /\ e \in Event /\ e.state = result /\ f \in Some
      /\ \A g \in Files : g \in DOMAIN e.seen <=> g = f
      /\ f \in Files => e.seen[f] = Content
      /\ (refused => refused') /\ (rescan => rescan') /\ (browserDirty => browserDirty')
      /\ candidates \ {f} \subseteq candidates' /\ Range(manual) \subseteq Range(manual')
      /\ ("asked" \in sweep => "asked" \in sweep') /\ (left # {} => "active" \in sweep')
      /\ (result = "superseded" /\ ~stopping /\ ~revoked) =>
             rescan' \/ Order("import", f) \in Range(manual')
  BY EndIs
<1>3. /\ done \in Seq(Event) /\ indexed \in [Files -> Nat]
      /\ at \in Stages => f \in Files
      /\ IF at \in Parsed THEN before # 0 ELSE before = 0
  BY DEF MissInv, EventTypes, ImportInv, ImportTypes, ImportParts, PlaceInv, WrittenInv
<1> HIDE DEF e
<1>4. /\ Len(done) \in Nat /\ Len(done') = Len(done) + 1 /\ done'[Len(done')] = e /\ done' # <<>>
      /\ \A i \in 1 .. Len(done) : done'[i] = done[i]
  BY <1>2, <1>3
<1>5. (Heeds' <=> Heeds) /\ (Kept' <=> Kept) /\ CancelInv' BY <1>1, HeedsStays, CancelStays
<1>6. SinceStays BY <1>1, <1>2 DEF SinceStays, Since, Early, HandVars
<1>7. EventTypes'
  <2>1. done' \in Seq(Event) BY <1>2, <1>3
  <2> QED BY <1>1, <2>1 DEF MissInv, EventTypes, HandVars
<1>8. RestInv' BY <1>1, <1>2 DEF RestInv, HandVars
<1>9. GivenUpInv' BY <1>5, <1>6 DEF MissInv, MissParts, GivenUpInv, SinceAll, SinceStays
<1>10. at # "ending" BY DEF Stages, Parsed
<1>11. \A i \in 1 .. Len(done) : done[i].state # "succeeded" BY <1>10 DEF MissInv, MissParts, SuccessInv
<1>12. SuccessInv'
  <2> SUFFICES ASSUME NEW i \in 1 .. Len(done'), i # Len(done') PROVE done'[i].state # "succeeded"
    BY <1>2 DEF SuccessInv
  <2>1. i \in 1 .. Len(done) BY <1>4
  <2> QED BY <1>4, <1>11, <2>1
<1>13. PublishedInv'
  <2> SUFFICES ASSUME NEW g \in Files PROVE Newest(g)' = indexed'[g] BY DEF PublishedInv
  <2>1. Imported(g)' = indexed[g] BY <1>1, <1>10, NoNews, ImportedStays DEF HandVars
  <2>2. CASE result = "succeeded" /\ g = f
    <3>1. IsNews(e, g) /\ e.seen[g] = before BY <1>2, <1>3, <2>2 DEF IsNews, Content
    <3>2. Newest(g)' = before BY <1>4, <3>1 DEF Newest, IsNews
    <3>3. indexed'[g] = before BY <1>3, <2>2
    <3> QED BY <3>2, <3>3
  <2>3. CASE ~(result = "succeeded" /\ g = f)
    <3>1. ~IsNews(e, g) BY <1>2, <2>3 DEF IsNews
    <3>2. Newest(g)' = indexed[g] BY <1>4, <2>1, <3>1 DEF Newest, IsNews
    <3>3. indexed'[g] = indexed[g] BY <1>3, <2>3
    <3> QED BY <3>2, <3>3
  <2> QED BY <2>2, <2>3
<1>14. ReadAsIsInv' BY <1>2 DEF ReadAsIsInv, Parsed
<1>15. CoveredInv'
  <2> SUFFICES ASSUME Heeds, NEW g \in Files, indexed'[g] # 0 PROVE Covered(g)' BY <1>5 DEF CoveredInv
  <2>1. CASE g = f /\ at \in Stages
    <3>1. Since(g) => Covered(g)' BY <1>6 DEF SinceStays, Covered
    <3>2. CASE result = "succeeded"
      <4>1. indexed'[g] = before BY <1>3, <2>1, <3>2
      <4>2. disk[g] = before \/ Since(g) BY <2>1, <3>2 DEF MissInv, MissParts, ReadAsIsInv
      <4> QED BY <3>1, <4>1, <4>2 DEF Covered
    <3>3. CASE result = "failed"
      <4>1. Content = disk[g] \/ Since(g)
        <5>1. CASE at \in Parsed
          <6>1. disk[g] = before \/ Since(g) BY <2>1, <5>1 DEF MissInv, MissParts, ReadAsIsInv
          <6> QED BY <1>3, <5>1, <6>1 DEF Content
        <5>2. CASE at \notin Parsed BY <1>3, <2>1, <5>2 DEF Content
        <5> QED BY <5>1, <5>2
      <4>2. Content = disk[g] => Hears(Append(done, e), g)
        BY <1>2, <1>3, <2>1, <3>3, HearsMore
      <4>3. Hears(Append(done, e), g) => Hears(done, g)' BY <1>2 DEF Hears
      <4> QED BY <3>1, <4>1, <4>2, <4>3 DEF Covered
    <3>4. CASE result = "superseded"
      <4>1. CASE revoked \/ ~Kept
        <5>1. ~Kept BY <4>1 DEF MissInv, MissParts, CancelInv
        <5>2. Since(g) BY <5>1 DEF MissInv, MissParts, GivenUpInv, SinceAll
        <5> QED BY <3>1, <5>2
      <4>2. CASE ~revoked /\ Kept
        <5>1. rescan' \/ Order("import", f) \in Range(manual') BY <1>2, <3>4, <4>2 DEF Heeds
        <5>2. Since(g)' \/ (Kept' /\ Waits(g)') BY <1>5, <2>1, <4>2, <5>1 DEF Since, Early, Waits
        <5> QED BY <5>2 DEF Covered
      <4> QED BY <4>1, <4>2
    <3> QED BY <3>2, <3>3, <3>4 DEF Outcomes
  <2>2. CASE ~(g = f /\ at \in Stages)
    <3>1. g # f \/ at = "copying" BY <2>2
    <3>2. g # f BY <3>1, EndIs
    <3>3. indexed'[g] = indexed[g] BY <1>3, <3>2
    <3>4. Covered(g) BY <2>2, <3>3 DEF MissInv, MissParts, CoveredInv
    <3>5. CASE Since(g) BY <1>6, <3>5 DEF SinceStays, Covered
    <3>6. CASE Hears(results, g)
      <4>1. Hears(results, g)' BY <1>1, <3>6 DEF Hears, HandVars
      <4> QED BY <4>1 DEF Covered
    <3>7. CASE Hears(done, g)
      <4>1. Hears(Append(done, e), g) BY <1>2, <1>3, <3>7, HearsMore
      <4>2. Hears(done, g)' BY <1>2, <4>1 DEF Hears
      <4> QED BY <4>2 DEF Covered
    <3>8. CASE disk[g] = indexed[g] \/ uncounted \/ Gone(g)
      BY <1>1, <1>2, <3>3, <3>8 DEF Covered, Gone, HandVars
    <3>9. CASE Kept /\ Waits(g)
      <4>1. Kept' /\ Waits(g)' BY <1>1, <1>2, <1>5, <3>2, <3>9 DEF Waits, HandVars
      <4> QED BY <4>1 DEF Covered
    <3> QED BY <2>2, <3>4, <3>5, <3>6, <3>7, <3>8, <3>9 DEF Covered, InHand
  <2> QED BY <2>1, <2>2
<1> QED BY <1>5, <1>7, <1>8, <1>9, <1>12, <1>13, <1>14, <1>15 DEF MissInv, MissParts

LEMMA OpenMisses == ASSUME MissInv, ImportStage, OpenSource PROVE MissInv'
<1>1. at = "opening" /\ at \in Stages /\ UNCHANGED <<disk, raised, indexed>>
  BY DEF OpenSource, Stages, Parsed, system, disks
<1>2. ImportInv' BY OpenKeeps DEF MissInv
<1>3. CASE before' = disk[doing.file] /\ GoesOn("parsing") /\ UNCHANGED doing
  <2>1. "parsing" \in Stages BY DEF Stages, Parsed
  <2> QED BY <1>1, <1>2, <1>3, <2>1, StageMisses
<1>4. CASE EndWith("superseded") \/ EndWith("failed")
  <2>1. PICK result \in {"superseded", "failed"} : EndWith(result) BY <1>4
  <2>2. result \in Outcomes /\ result # "succeeded" BY DEF Outcomes
  <2> QED BY <1>1, <1>2, <2>1, <2>2, EndMisses
<1> QED BY <1>3, <1>4 DEF OpenSource

LEMMA ParseMisses == ASSUME MissInv, ImportStage, ParseSource PROVE MissInv'
<1>1. at = "parsing" /\ at \in Parsed /\ at \in Stages /\ UNCHANGED <<disk, raised, indexed>>
  BY DEF ParseSource, Stages, Parsed, system, disks
<1>2. ImportInv' BY ParseKeeps DEF MissInv
<1>3. CASE GoesOn("checking") /\ UNCHANGED <<doing, before>>
  <2>1. "checking" \in Stages BY DEF Stages, Parsed
  <2> QED BY <1>1, <1>2, <1>3, <2>1, StageMisses
<1>4. CASE EndWith("superseded") \/ EndWith("failed")
  <2>1. PICK result \in {"superseded", "failed"} : EndWith(result) BY <1>4
  <2>2. result \in Outcomes /\ result # "succeeded" BY DEF Outcomes
  <2> QED BY <1>1, <1>2, <2>1, <2>2, EndMisses
<1> QED BY <1>3, <1>4 DEF ParseSource

LEMMA CheckMisses == ASSUME MissInv, ImportStage, CheckSource PROVE MissInv'
<1>1. at = "checking" /\ at \in Parsed /\ at \in Stages /\ UNCHANGED <<disk, raised, indexed>>
  BY DEF CheckSource, Stages, Parsed, system, disks
<1>2. ImportInv' BY CheckKeeps DEF MissInv
<1>3. CASE GoesOn("committing") /\ UNCHANGED <<doing, before>>
  <2>1. "committing" \in Stages BY DEF Stages, Parsed
  <2> QED BY <1>1, <1>2, <1>3, <2>1, StageMisses
<1>4. CASE EndWith("superseded") \/ EndWith("failed")
  <2>1. PICK result \in {"superseded", "failed"} : EndWith(result) BY <1>4
  <2>2. result \in Outcomes /\ result # "succeeded" BY DEF Outcomes
  <2> QED BY <1>1, <1>2, <2>1, <2>2, EndMisses
<1> QED BY <1>3, <1>4 DEF CheckSource

LEMMA CommitMisses == ASSUME MissInv, ImportStage, CommitImport PROVE MissInv'
<1>1. at = "committing" /\ at \in Parsed /\ at \in Stages /\ UNCHANGED <<disk, raised, indexed>>
  BY DEF CommitImport, Stages, Parsed, system
<1>2. ImportInv' BY CommitKeeps DEF MissInv
<1>3. CASE GoesOn("saving") /\ UNCHANGED <<doing, before>>
  <2>1. "saving" \in Stages BY DEF Stages, Parsed
  <2> QED BY <1>1, <1>2, <1>3, <2>1, StageMisses
<1>4. CASE EndWith("superseded") \/ EndWith("failed")
  <2>1. PICK result \in {"superseded", "failed"} : EndWith(result) BY <1>4
  <2>2. result \in Outcomes /\ result # "succeeded" BY DEF Outcomes
  <2> QED BY <1>1, <1>2, <2>1, <2>2, EndMisses
<1> QED BY <1>3, <1>4 DEF CommitImport

LEMMA SaveMisses == ASSUME MissInv, ImportStage, SaveIndex PROVE MissInv'
<1>1. at = "saving" /\ at \in Parsed /\ at \in Stages /\ UNCHANGED <<disk, raised>>
  BY DEF SaveIndex, Stages, Parsed, system
<1>2. ImportInv' BY SaveKeeps DEF MissInv
<1>3. CASE EndWith("succeeded") /\ indexed' = [indexed EXCEPT ![doing.file] = before]
  <2>1. "succeeded" \in Outcomes BY DEF Outcomes
  <2> QED BY <1>1, <1>2, <1>3, <2>1, EndMisses
<1>4. CASE EndWith("failed") /\ UNCHANGED indexed
  <2>1. "failed" \in Outcomes /\ "failed" # "succeeded" BY DEF Outcomes
  <2> QED BY <1>1, <1>2, <1>4, <2>1, EndMisses
<1> QED BY <1>3, <1>4 DEF SaveIndex

LEMMA CopyMisses == ASSUME MissInv, ImportStage, CopyIn PROVE MissInv'
<1>1. at = "copying" /\ UNCHANGED <<indexed, products, spare>> BY DEF CopyIn, disks
<1>2. ImportInv' BY CopyKeeps DEF MissInv
<1>3. CASE EndWith("failed") /\ UNCHANGED system
  <2>1. "failed" \in Outcomes /\ "failed" # "succeeded" BY DEF Outcomes
  <2> QED BY <1>1, <1>2, <1>3, <2>1, EndMisses DEF system
<1>4. ASSUME NEW f \in Files, Put(f, NewContent), doing' = [doing EXCEPT !.file = f], GoesOn("opening")
      PROVE  MissInv'
  <2>1. /\ at' = "opening"
        /\ UNCHANGED <<manual, refused, rescan, done, candidates, sweep, browserDirty>>
    BY <1>4 DEF GoesOn
  <2>2. UNCHANGED HandVars BY StageLeaves
  <2>3. (Heeds' <=> Heeds) /\ (Kept' <=> Kept) /\ CancelInv' BY <2>2, HeedsStays, CancelStays
  <2>4. disk \in [Files -> Nat] /\ doing.file \notin Files
    <3>1. doing = Order("external", NoFile) BY <1>1 DEF MissInv, MissParts, RestInv
    <3>2. doing.file = NoFile BY <3>1 DEF Order
    <3> QED BY <3>2, WatcherAssumption DEF MissInv, ImportInv, ImportTypes
  <2>5. /\ \A g \in Files \ {f} : disk'[g] = disk[g]
        /\ Watches => Since(f)' /\ SinceStays
    BY <1>4, <2>1, <2>2, <2>4, PutRaises DEF HandVars
  <2>6. EventTypes' BY <2>1, <2>2 DEF MissInv, EventTypes, HandVars
  <2>7. RestInv' BY <2>1, <2>2 DEF MissInv, MissParts, RestInv, HandVars
  <2>8. GivenUpInv' BY <2>3, <2>5 DEF MissInv, MissParts, GivenUpInv, SinceAll, SinceStays, Heeds
  <2>9. SuccessInv' BY <1>1, <2>1 DEF MissInv, MissParts, SuccessInv
  <2>10. PublishedInv'
    <3>1. \A g \in Files : Newest(g)' = Newest(g)
      BY <2>1, <2>2 DEF Newest, Imported, Successes, IsNews, HandVars
    <3> QED BY <1>1, <3>1 DEF MissInv, MissParts, PublishedInv
  <2>11. ReadAsIsInv' BY <2>1 DEF ReadAsIsInv, Parsed
  <2>12. CoveredInv'
    <3> SUFFICES ASSUME Heeds, NEW g \in Files, indexed[g] # 0 PROVE Covered(g)'
      BY <1>1, <2>3 DEF CoveredInv
    <3>1. Covered(g) /\ Watches BY DEF MissInv, MissParts, CoveredInv, Heeds
    <3>2. CASE g = f BY <2>5, <3>1, <3>2 DEF Covered
    <3>3. CASE g # f
      <4>1. disk'[g] = disk[g] /\ ~InHand(g) BY <2>4, <2>5, <3>3 DEF InHand
      <4>2. CASE Since(g) BY <2>5, <3>1, <4>2 DEF SinceStays, Covered
      <4>3. CASE Hears(results, g) \/ Hears(done, g)
        <5>1. Hears(results, g)' \/ Hears(done, g)' BY <2>1, <2>2, <4>1, <4>3 DEF Hears, HandVars
        <5> QED BY <5>1 DEF Covered
      <4>4. CASE disk[g] = indexed[g] \/ uncounted \/ Gone(g)
        BY <1>1, <2>1, <2>2, <4>1, <4>4 DEF Covered, Gone, HandVars
      <4>5. CASE Kept /\ Waits(g) BY <2>1, <2>2, <2>3, <4>5 DEF Covered, Waits, HandVars
      <4> QED BY <3>1, <4>1, <4>2, <4>3, <4>4, <4>5 DEF Covered
    <3> QED BY <3>2, <3>3
  <2> QED BY <1>2, <2>3, <2>6, <2>7, <2>8, <2>9, <2>10, <2>11, <2>12 DEF MissInv, MissParts
<1> QED BY <1>3, <1>4 DEF CopyIn

-----------------------------------------------------------------------------
(* The step begins: what the orders asked to be looked at is in the queue. *)
Told(s) == s \in Seq(Event) /\ \A i \in 1 .. Len(s) : s[i].state = "failed"
Survives(q) ==
    /\ Range(manual) \subseteq Range(q.manual) /\ candidates \subseteq q.candidates
    /\ q.sweep = sweep /\ q.left = left /\ q.scan = rescan
Gathered(q, n) ==
    /\ Fields(q) /\ q.manual \in Seq(Imports) /\ Told(q.done)
    /\ refused => q.refused
    /\ q.left # {} => "active" \in q.sweep
    /\ Kept => Survives(q)
    /\ \A i \in 1 .. n : orders[i].what = "notify" => orders[i].file \in q.candidates \/ q.uncounted

LEMMA ToldMore ==
    ASSUME NEW s, Told(s), NEW e \in Event, e.state = "failed" PROVE Told(Append(s, e))
<1>1. s \in Seq(Event) BY DEF Told
<1>2. /\ Len(s) \in Nat /\ Len(Append(s, e)) = Len(s) + 1 /\ Append(s, e)[Len(s) + 1] = e
      /\ Append(s, e) \in Seq(Event) /\ \A i \in 1 .. Len(s) : Append(s, e)[i] = s[i]
  BY <1>1
<1>3. \A i \in 1 .. Len(s) + 1 : i \in 1 .. Len(s) \/ i = Len(s) + 1 BY <1>2
<1> DEFINE t == Append(s, e)
<1> HIDE DEF t
<1>4. \A i \in 1 .. Len(s) + 1 : t[i].state = "failed" BY <1>2, <1>3 DEF Told, t
<1>5. Told(t) BY <1>2, <1>4 DEF Told, t
<1> QED BY <1>5 DEF t

LEMMA TakeGathers ==
    ASSUME MissInv, NEW n \in Nat, n + 1 <= Len(orders), NEW q, Gathered(q, n)
    PROVE  Gathered(Take(q, orders[n + 1]), n + 1)
<1> DEFINE e == orders[n + 1]
           t == Take(q, e)
<1>1. orders \in Seq(Ordered) /\ disk \in [Files -> Nat] BY DEF MissInv, ImportInv, ImportTypes
<1>2. e \in Ordered /\ n + 1 \in 1 .. Len(orders) BY <1>1
<1>3. /\ Fields(t)
      /\ e.what = "cancel" => Emptied(q, t)
      /\ e.what = "notify" => Noticed(q, e.file, t)
      /\ e.what \notin {"cancel", "notify"} => Ordering(q, e, t)
  BY TakeIs DEF Gathered
<1>4. /\ q.manual \in Seq(Imports) /\ Told(q.done) /\ (refused => q.refused)
      /\ q.left # {} => "active" \in q.sweep
      /\ Kept => Survives(q)
      /\ \A i \in 1 .. n : orders[i].what = "notify" => orders[i].file \in q.candidates \/ q.uncounted
  BY DEF Gathered
<1>5. \A i \in 1 .. n + 1 : i \in 1 .. n \/ i = n + 1 OBVIOUS
<1> SUFFICES Gathered(t, n + 1) OBVIOUS
<1>6. CASE e.what = "cancel"
  <2>1. n + 1 = 1 /\ ~Kept BY <1>2, <1>6 DEF MissInv, MissParts, CancelInv, Kept
  <2>2. \A i \in 1 .. n + 1 : orders[i].what # "notify" BY <1>6, <2>1
  <2> HIDE DEF e, t
  <2>3. /\ t.manual = <<>> /\ t.left = {} /\ t.done = q.done /\ t.refused = q.refused
    BY <1>3, <1>6 DEF Emptied
  <2>4. t.manual \in Seq(Imports) BY <2>3
  <2> QED BY <1>3, <1>4, <2>1, <2>2, <2>3, <2>4 DEF Gathered
<1>7. CASE e.what = "notify"
  <2>1. /\ t.manual = q.manual /\ t.sweep = q.sweep /\ t.left = q.left /\ t.scan = q.scan
        /\ t.done = q.done /\ t.refused = q.refused
        /\ \/ t.candidates = q.candidates \cup {e.file} /\ t.uncounted = q.uncounted
           \/ t.candidates = q.candidates /\ t.uncounted = TRUE
    BY <1>3, <1>7 DEF Noticed
  <2> HIDE DEF t
  <2>2. \A i \in 1 .. n + 1 : orders[i].what = "notify" => orders[i].file \in t.candidates \/ t.uncounted
    BY <1>4, <1>5, <2>1
  <2>3. Kept => Survives(t) BY <1>4, <2>1 DEF Survives
  <2> QED BY <1>3, <1>4, <2>1, <2>2, <2>3 DEF Gathered
<1>8. CASE e.what \notin {"cancel", "notify"}
  <2>1. e \in Imports /\ e.file \in Some BY <1>2, <1>8 DEF Ordered, Imports, Order, Some
  <2>2. /\ t.candidates = q.candidates /\ t.sweep = q.sweep /\ t.left = q.left /\ t.scan = q.scan
        /\ t.uncounted = q.uncounted
        /\ \/ t.manual = Append(q.manual, e) /\ t.done = q.done /\ t.refused = q.refused
           \/ t.manual = q.manual /\ t.done = Append(q.done, Failure(e.file)) /\ t.refused = TRUE
    BY <1>3, <1>8 DEF Ordering
  <2>3. \A i \in 1 .. n + 1 : orders[i].what = "notify" => orders[i].file \in t.candidates \/ t.uncounted
    BY <1>4, <1>5, <1>8, <2>2
  <2>4. Failure(e.file) \in Event /\ Failure(e.file).state = "failed" BY <1>1, <2>1, FailureEvent
  <2>5. Told(Append(q.done, Failure(e.file))) BY <1>4, <2>4, ToldMore
  <2>6. /\ Append(q.manual, e) \in Seq(Imports)
        /\ Range(Append(q.manual, e)) = Range(q.manual) \cup {e}
    BY <1>4, <2>1, RangeAppend
  <2> HIDE DEF e, t
  <2>7. Kept => Survives(t) BY <1>4, <2>2, <2>6 DEF Survives
  <2> QED BY <1>3, <1>4, <2>2, <2>3, <2>5, <2>6, <2>7 DEF Gathered
<1> QED BY <1>6, <1>7, <1>8

LEMMA QueuedGathers == ASSUME MissInv, at = "idle" PROVE Gathered(Queued, Len(orders))
<1> DEFINE B == {n \in Nat : n <= Len(orders) => Gathered(Fold[1 .. n], n)}
<1>1. /\ orders \in Seq(Ordered) /\ Len(orders) \in Nat /\ manual \in Seq(Imports)
      /\ left # {} => "active" \in sweep
  BY DEF MissInv, ImportInv, ImportTypes, MissParts, RestInv
<1>2. 0 \in B
  <2>1. Fold[1 .. 0] = Beginning BY <1>1, FoldSteps
  <2>2. /\ Fields(Beginning) /\ Beginning.manual = manual /\ Beginning.candidates = candidates
        /\ Beginning.sweep = sweep /\ Beginning.left = left /\ Beginning.scan = rescan
        /\ Beginning.done = <<>> /\ Beginning.refused = refused
    BY DEF Fields, Beginning
  <2>3. Told(Beginning.done)
    <3>1. <<>> \in Seq(Event) /\ Len(<<>>) = 0 OBVIOUS
    <3> QED BY <2>2, <3>1 DEF Told
  <2>4. Survives(Beginning) BY <2>2 DEF Survives
  <2>5. Gathered(Beginning, 0) BY <1>1, <2>2, <2>3, <2>4 DEF Gathered
  <2> QED BY <2>1, <2>5
<1>3. ASSUME NEW n \in Nat, n \in B PROVE n + 1 \in B
  <2> SUFFICES ASSUME n + 1 <= Len(orders) PROVE Gathered(Fold[1 .. n + 1], n + 1) OBVIOUS
  <2>1. Gathered(Fold[1 .. n], n) BY <1>1, <1>3
  <2>2. Fold[1 .. n + 1] = Take(Fold[1 .. n], orders[n + 1]) BY <1>1, FoldSteps
  <2> QED BY <2>1, <2>2, TakeGathers
<1> HIDE DEF B
<1>4. Len(orders) \in B BY <1>1, <1>2, <1>3, Induction
<1> QED BY <1>1, <1>4, FoldSteps DEF B

LEMMA BeginMisses == ASSUME MissInv, BeginStep PROVE MissInv'
<1>1. at = "idle" /\ done = <<>> /\ ~uncounted
  BY DEF BeginStep, MissInv, MissParts, RestInv, ImportInv, ImportParts, PlaceInv
<1>2. ImportInv' BY BeginKeeps DEF MissInv
<1>3. /\ UNCHANGED <<disk, raised, watched, overrun, watching, watchFailed, indexed, results, stopping,
                     pendingWork, before, browser, browserDirty, published, reported>>
  BY DEF BeginStep, watchVars, system, watcher, disks
<1>4. CASE paused \/ Len(results) >= Capacity
  <2>1. UNCHANGED <<orders, manual, rescan, refresh, revoked, refused, at, doing, done, swallowed>>
        /\ UNCHANGED <<candidates, observed, sweep, left, uncounted>>
    BY <1>4 DEF BeginStep, commands, queue
  <2>2. UNCHANGED TaskVars BY <1>3, <2>1 DEF TaskVars
  <2>3. CancelInv' /\ (Kept' <=> Kept) BY <2>1, OrdersStay
  <2>4. SinceStays BY <1>3, <2>1 DEF SinceStays, Since, Early
  <2>5. Heeds' => Heeds BY <1>3, <2>1 DEF Heeds, Watches
  <2> QED BY <1>2, <1>3, <2>2, <2>3, <2>4, <2>5, SameMisses
<1>5. CASE ~(paused \/ Len(results) >= Capacity)
  <2> DEFINE q == Queued
  <2>1. /\ revoked' = FALSE /\ orders' = <<>> /\ rescan' = FALSE
        /\ swallowed' = (swallowed \/ (rescan /\ ~q.scan))
        /\ candidates' = q.candidates /\ left' = q.left /\ done' = q.done
        /\ uncounted' = q.uncounted /\ refused' = q.refused
        /\ sweep' = IF q.scan THEN q.sweep \cup {"asked"} ELSE q.sweep
        /\ \/ q.manual = <<>> /\ at' = "ticking" /\ manual' = <<>>
           \/ /\ q.manual # <<>>
              /\ at' = IF Head(q.manual).what = "external" THEN "copying" ELSE "opening"
              /\ doing' = Head(q.manual) /\ manual' = Tail(q.manual)
    BY <1>5 DEF BeginStep
  <2>2. Gathered(q, Len(orders)) BY <1>1, QueuedGathers
  <2> HIDE DEF q
  <2>3. /\ q.manual \in Seq(Imports) /\ Told(q.done) /\ (refused => q.refused)
        /\ q.left # {} => "active" \in q.sweep
        /\ Kept => Survives(q)
        /\ \A i \in 1 .. Len(orders) :
               orders[i].what = "notify" => orders[i].file \in q.candidates \/ q.uncounted
    BY <2>2 DEF Gathered
  <2>4. at' \in {"ticking", "copying", "opening"} BY <2>1
  <2>5. Len(orders') = 0 /\ Kept' BY <2>1 DEF Kept
  <2>6. CancelInv' BY <2>1, <2>5 DEF CancelInv
  <2>7. EventTypes' BY <1>3, <2>1, <2>3 DEF MissInv, EventTypes, Told
  <2>8. at' = "copying" => doing' = Order("external", NoFile)
    <3> SUFFICES ASSUME at' = "copying" PROVE doing' = Order("external", NoFile) OBVIOUS
    <3>1. q.manual # <<>> /\ Head(q.manual).what = "external" /\ doing' = Head(q.manual) BY <2>1
    <3>2. Head(q.manual) \in Imports BY <2>3, <3>1
    <3> QED BY <3>1, <3>2 DEF Imports
  <2>9. RestInv' BY <2>1, <2>3, <2>4, <2>8 DEF RestInv
  <2>10. GivenUpInv' BY <2>5 DEF GivenUpInv
  <2>11. \A i \in 1 .. Len(done') : done'[i].state = "failed" BY <2>1, <2>3 DEF Told
  <2>12. SuccessInv' BY <2>11 DEF SuccessInv
  <2>13. PublishedInv'
    <3> SUFFICES ASSUME NEW f \in Files PROVE Newest(f)' = indexed[f] BY <1>3 DEF PublishedInv
    <3>1. Imported(f)' = indexed[f] BY <1>1, <1>3, NoNews, ImportedStays
    <3>2. done' # <<>> => Len(done') \in 1 .. Len(done') BY <2>7 DEF EventTypes
    <3>3. done' # <<>> => done'[Len(done')].state # "succeeded" BY <2>11, <3>2
    <3> QED BY <3>1, <3>3 DEF Newest, IsNews
  <2>14. ReadAsIsInv' BY <2>4 DEF ReadAsIsInv, Parsed
  <2>15. CoveredInv'
    <3> SUFFICES ASSUME Heeds', NEW f \in Files, indexed[f] # 0 PROVE Covered(f)'
      BY <1>3 DEF CoveredInv
    <3>1. Heeds /\ (rescan => q.scan) BY <1>3, <2>1 DEF Heeds, Watches
    <3>2. orders \in Seq(Ordered) BY DEF MissInv, ImportInv, ImportTypes
    <3>3. CASE Since(f)
      <4>1. CASE disk[f] \in reported[f] \/ f \in raised \/ f \in Range(watched) \/ overrun \/ refused
        <5>1. Since(f)' BY <1>3, <2>1, <2>3, <4>1 DEF Since, Early
        <5> QED BY <5>1 DEF Covered
      <4>2. CASE rescan
        <5>1. "asked" \in sweep' BY <2>1, <3>1, <4>2
        <5>2. Kept' /\ Waits(f)' BY <2>5, <5>1 DEF Waits
        <5> QED BY <5>2 DEF Covered
      <4>3. CASE Order("notify", f) \in Range(orders)
        <5>1. PICK i \in 1 .. Len(orders) : orders[i] = Order("notify", f) BY <3>2, <4>3 DEF Range
        <5>2. orders[i].what = "notify" /\ orders[i].file = f BY <5>1 DEF Order
        <5>3. f \in candidates' \/ uncounted' BY <2>1, <2>3, <5>2
        <5>4. uncounted' \/ (Kept' /\ Waits(f)') BY <2>5, <5>3 DEF Waits
        <5> QED BY <5>4 DEF Covered
      <4> QED BY <3>3, <4>1, <4>2, <4>3 DEF Since, Early
    <3>4. CASE ~Since(f)
      <4>1. Kept BY <3>1, <3>4 DEF MissInv, MissParts, GivenUpInv, SinceAll
      <4>2. Survives(q) BY <2>3, <4>1
      <4>3. Covered(f) BY <3>1 DEF MissInv, MissParts, CoveredInv
      <4>4. ~Hears(done, f) /\ ~InHand(f)
        <5>1. Len(done) = 0 BY <1>1
        <5> QED BY <1>1, <5>1 DEF Hears, InHand, Stages, Parsed
      <4>5. CASE Hears(results, f)
        <5>1. Hears(results, f)' BY <1>3, <4>5 DEF Hears
        <5> QED BY <5>1 DEF Covered
      <4>6. CASE disk[f] = indexed[f] \/ Gone(f) BY <1>3, <4>6 DEF Covered, Gone
      <4>7. CASE Waits(f)
        <5>1. CASE f \in candidates \/ "asked" \in sweep \/ f \in left
          <6>1. Waits(f)' BY <2>1, <4>2, <5>1 DEF Waits, Survives
          <6> QED BY <2>5, <6>1 DEF Covered
        <5>2. CASE Order("import", f) \in Range(manual)
          <6>1. Order("import", f) \in Range(q.manual) BY <4>2, <5>2 DEF Survives
          <6>2. q.manual # <<>> BY <6>1, RangeEmpty
          <6>3. Range(q.manual) = Range(Tail(q.manual)) \cup {Head(q.manual)} BY <2>3, <6>2, RangeTail
          <6>4. CASE Order("import", f) \in Range(Tail(q.manual))
            <7>1. Order("import", f) \in Range(manual') BY <2>1, <6>2, <6>4
            <7>2. Waits(f)' BY <7>1 DEF Waits
            <7> QED BY <2>5, <7>2 DEF Covered
          <6>5. CASE Head(q.manual) = Order("import", f)
            <7>1. doing'.file = f /\ at' = "opening" BY <2>1, <6>2, <6>5 DEF Order
            <7>2. InHand(f)' BY <7>1 DEF InHand, Stages, Parsed
            <7> QED BY <7>2 DEF Covered
          <6> QED BY <6>1, <6>3, <6>4, <6>5
        <5> QED BY <4>7, <5>1, <5>2 DEF Waits
      <4> QED BY <1>1, <3>4, <4>3, <4>4, <4>5, <4>6, <4>7 DEF Covered
    <3> QED BY <3>3, <3>4
  <2> QED BY <1>2, <2>6, <2>7, <2>9, <2>10, <2>12, <2>13, <2>14, <2>15 DEF MissInv, MissParts
<1> QED BY <1>4, <1>5

-----------------------------------------------------------------------------
(* The queue's turn: what is waiting stays, is being looked at, or is settled with a reason. *)
Passed(f) ==
    \/ f \in candidates' \/ (disk[f] = 0 /\ browserDirty') \/ indexed[f] \in {0, disk[f]}
    \/ \E news : done' = Append(news, Failure(f)) /\ news \in Seq(Event)
LEMMA ExamineLeaves ==
    ASSUME NEW f, NEW broken, NEW waiting, NEW active, NEW rest, NEW news \in Seq(Event), f \in waiting,
           Examine(f, broken, waiting, active, rest, news)
    PROVE  /\ at' \in {"ending", "opening"} /\ waiting \ {f} \subseteq candidates'
           /\ done' = news \/ done' = Append(news, Failure(f))
           /\ "asked" \in active => "asked" \in sweep'
           /\ rest # {} /\ "active" \in active => "active" \in sweep'
           /\ browserDirty => browserDirty'
           /\ Passed(f)
<1>1. CASE disk[f] = 0 /\ Settle(f, waiting, active, rest, news) /\ browserDirty' = TRUE
  BY <1>1 DEF Settle, SweepEnds, Passed
<1>2. CASE Settle(f, waiting, active, rest, Append(news, Failure(f))) /\ UNCHANGED browserDirty
  BY <1>2 DEF Settle, SweepEnds, Passed
<1>3. CASE indexed[f] \in {0, disk[f]} /\ Settle(f, waiting, active, rest, news) /\ UNCHANGED browserDirty
  BY <1>3 DEF Settle, SweepEnds, Passed
<1>4. CASE /\ at' \in {"ending", "opening"} /\ candidates' = waiting /\ sweep' = active /\ done' = news
           /\ UNCHANGED browserDirty
  BY <1>4 DEF Passed
<1> QED BY <1>1, <1>2, <1>3, <1>4 DEF Examine

\* What the turn made of the sweep and of the entries still to admit.
Turned(begins, broken, passed, entries, active, news) ==
    /\ entries = IF ~begins THEN left
                ELSE IF broken = "index" THEN {} ELSE {f \in Files : indexed[f] # 0}
    /\ active = IF ~begins THEN sweep ELSE IF broken = "index" THEN {} ELSE {"active"}
    /\ news = IF begins /\ broken = "index"
              THEN Append(done, [state |-> "failed", seen |-> disk]) ELSE done
    /\ left' = entries \ passed
    /\ \/ /\ candidates \cup passed = {} /\ sweep' = SweepEnds(active, left', {})
          /\ at' = "ending" /\ done' = news /\ UNCHANGED <<candidates, doing, browserDirty>>
       \/ \E f \in candidates \cup passed : Examine(f, broken, candidates \cup passed, active, left', news)
LEMMA TickIs ==
    ASSUME Tick
    PROVE  \E broken, passed, entries, active, news :
               passed \subseteq Files /\ Turned(sweep = {"asked"}, broken, passed, entries, active, news)
<1> DEFINE Listed(b) == IF sweep # {"asked"} THEN left
                        ELSE IF b = "index" THEN {} ELSE {f \in Files : indexed[f] # 0}
           Active(b) == IF sweep # {"asked"} THEN sweep ELSE IF b = "index" THEN {} ELSE {"active"}
           News(b) == IF sweep = {"asked"} /\ b = "index"
                      THEN Append(done, [state |-> "failed", seen |-> disk]) ELSE done
<1>1. PICK broken \in {"none", "index", "source"} :
          \E passed \in SUBSET Files :
              /\ left' = Listed(broken) \ passed
              /\ \/ /\ candidates \cup passed = {} /\ sweep' = SweepEnds(Active(broken), left', {})
                    /\ at' = "ending" /\ done' = News(broken) /\ UNCHANGED <<candidates, doing, browserDirty>>
                 \/ \E f \in candidates \cup passed :
                        Examine(f, broken, candidates \cup passed, Active(broken), left', News(broken))
  BY DEF Tick
<1>2. PICK passed \in SUBSET Files :
              /\ left' = Listed(broken) \ passed
              /\ \/ /\ candidates \cup passed = {} /\ sweep' = SweepEnds(Active(broken), left', {})
                    /\ at' = "ending" /\ done' = News(broken) /\ UNCHANGED <<candidates, doing, browserDirty>>
                 \/ \E f \in candidates \cup passed :
                        Examine(f, broken, candidates \cup passed, Active(broken), left', News(broken))
  BY <1>1
<1>3. Turned(sweep = {"asked"}, broken, passed, Listed(broken), Active(broken), News(broken))
  BY <1>2 DEF Turned
<1> HIDE DEF Listed, Active, News
<1> QED BY <1>3

LEMMA TickMisses == ASSUME MissInv, Tick PROVE MissInv'
<1>1. at = "ticking" /\ ImportInv' BY TickKeeps DEF Tick, MissInv
<1>2. /\ UNCHANGED <<disk, raised, watched, overrun, watching, watchFailed, indexed, orders, manual,
                     rescan, results, revoked, refused, stopping, uncounted, pendingWork, before,
                     browser, published, reported, swallowed>>
  BY DEF Tick, system, watcher, disks, commands, flags, ghosts
<1>3. PICK broken, passed, entries, active, news :
          passed \subseteq Files /\ Turned(sweep = {"asked"}, broken, passed, entries, active, news)
  BY TickIs
<1> DEFINE begins == sweep = {"asked"}
           waiting == candidates \cup passed
           failure == [state |-> "failed", seen |-> disk]
<1>4. /\ entries = IF ~begins THEN left
                   ELSE IF broken = "index" THEN {} ELSE {f \in Files : indexed[f] # 0}
      /\ active = IF ~begins THEN sweep ELSE IF broken = "index" THEN {} ELSE {"active"}
      /\ news = IF begins /\ broken = "index" THEN Append(done, failure) ELSE done
      /\ left' = entries \ passed
      /\ \/ /\ waiting = {} /\ sweep' = SweepEnds(active, left', {})
            /\ at' = "ending" /\ done' = news /\ UNCHANGED <<candidates, doing, browserDirty>>
         \/ \E f \in waiting : Examine(f, broken, waiting, active, left', news)
  BY <1>3 DEF Turned
<1>5. /\ disk \in [Files -> Nat] /\ done \in Seq(Event) /\ candidates \subseteq Files
      /\ left # {} => "active" \in sweep
      /\ failure \in Event /\ failure.state = "failed" /\ failure.seen = disk
  BY SweepFailureEvent DEF MissInv, ImportInv, ImportTypes, EventTypes, MissParts, RestInv
<1>6. \A i \in 1 .. Len(done) : done[i].state # "succeeded"
  BY <1>1 DEF MissInv, MissParts, SuccessInv
<1> HIDE DEF failure
\* The events of the turn: those of the step, and failures.
<1> DEFINE Quiet(s) == s \in Seq(Event) /\ \A i \in 1 .. Len(s) : s[i].state # "succeeded"
<1>7. ASSUME NEW s, Quiet(s), NEW e \in Event, e.state = "failed" PROVE Quiet(Append(s, e))
  <2>1. /\ Len(s) \in Nat /\ Len(Append(s, e)) = Len(s) + 1 /\ Append(s, e)[Len(s) + 1] = e
        /\ Append(s, e) \in Seq(Event) /\ \A i \in 1 .. Len(s) : Append(s, e)[i] = s[i]
    BY <1>7
  <2>2. \A i \in 1 .. Len(s) + 1 : i \in 1 .. Len(s) \/ i = Len(s) + 1 BY <2>1
  <2> DEFINE t == Append(s, e)
  <2> HIDE DEF t
  <2>3. \A i \in 1 .. Len(s) + 1 : t[i].state # "succeeded" BY <1>7, <2>1, <2>2 DEF t
  <2>4. Quiet(t) BY <2>1, <2>3 DEF t
  <2> QED BY <2>4 DEF t
<1>8. Quiet(news) /\ news \in Seq(Event)
  <2>1. Quiet(done) BY <1>5, <1>6
  <2> QED BY <1>4, <1>5, <1>7, <2>1
<1>9. \A g \in Files : /\ Hears(done, g) => Hears(news, g)
                       /\ begins /\ broken = "index" => Hears(news, g)
  <2> SUFFICES ASSUME NEW g \in Files
               PROVE  /\ Hears(done, g) => Hears(news, g)
                      /\ begins /\ broken = "index" => Hears(news, g)
    OBVIOUS
  <2>1. g \in DOMAIN failure.seen /\ failure.seen[g] = disk[g] BY <1>5
  <2>2. Hears(done, g) => Hears(Append(done, failure), g) BY <1>5, HearsMore
  <2>3. Hears(Append(done, failure), g) BY <1>5, <2>1, HearsMore
  <2> QED BY <1>4, <2>2, <2>3
<1> HIDE DEF Quiet
<1>10. /\ at' \in {"ending", "opening"}
       /\ "asked" \in active => "asked" \in sweep'
       /\ left' # {} /\ "active" \in active => "active" \in sweep'
       /\ browserDirty => browserDirty'
       /\ \A g \in Files : Hears(news, g) => Hears(done', g)
       /\ Quiet(done')
       /\ \A g \in Files : g \in waiting => Passed(g)
  <2>1. CASE /\ waiting = {} /\ sweep' = SweepEnds(active, left', {})
             /\ at' = "ending" /\ done' = news /\ UNCHANGED <<candidates, doing, browserDirty>>
    BY <1>8, <2>1 DEF SweepEnds
  <2>2. ASSUME NEW f \in waiting, Examine(f, broken, waiting, active, left', news)
        PROVE  /\ at' \in {"ending", "opening"}
               /\ "asked" \in active => "asked" \in sweep'
               /\ left' # {} /\ "active" \in active => "active" \in sweep'
               /\ browserDirty => browserDirty'
               /\ \A g \in Files : Hears(news, g) => Hears(done', g)
               /\ Quiet(done')
               /\ \A g \in Files : g \in waiting => Passed(g)
    <3>1. /\ at' \in {"ending", "opening"} /\ waiting \ {f} \subseteq candidates'
          /\ done' = news \/ done' = Append(news, Failure(f))
          /\ "asked" \in active => "asked" \in sweep'
          /\ left' # {} /\ "active" \in active => "active" \in sweep'
          /\ browserDirty => browserDirty'
          /\ Passed(f)
      BY <1>8, <2>2, ExamineLeaves
    <3>2. f \in Some BY <1>3, <1>5 DEF Some
    <3>3. Failure(f) \in Event /\ Failure(f).state = "failed" BY <1>5, <3>2, FailureEvent
    <3>4. Quiet(done') BY <1>7, <1>8, <3>1, <3>3
    <3>5. \A g \in Files : Hears(news, g) => Hears(done', g)
      <4>1. \A g : Hears(news, g) => Hears(Append(news, Failure(f)), g) BY <1>8, <3>3, HearsMore
      <4>2. CASE done' = news BY <4>2
      <4>3. CASE done' = Append(news, Failure(f)) BY <4>1, <4>3
      <4> QED BY <3>1, <4>2, <4>3
    <3>6. \A g \in Files : g \in waiting /\ g # f => Passed(g) BY <3>1 DEF Passed
    <3>7. \A g \in Files : g \in waiting => Passed(g) BY <3>1, <3>6
    <3> QED BY <3>1, <3>4, <3>5, <3>7
  <2> QED BY <1>4, <2>1, <2>2
<1>11. /\ UNCHANGED <<results, published, reported>> /\ (Heeds' <=> Heeds)
       /\ CancelInv' /\ (Kept' <=> Kept) /\ \A f \in Files : Since(f)' <=> Since(f)
  BY <1>2, OrdersStay DEF Heeds, Watches, Since, Early
<1>12. EventTypes' BY <1>2, <1>10 DEF MissInv, EventTypes, Quiet
<1>13. RestInv'
  <2>1. left' # {} => "active" \in active BY <1>4, <1>5
  <2> QED BY <1>10, <2>1 DEF RestInv
<1>14. GivenUpInv' BY <1>11 DEF MissInv, MissParts, GivenUpInv, SinceAll
<1>15. SuccessInv' BY <1>10 DEF SuccessInv, Quiet
<1>16. PublishedInv'
  <2> SUFFICES ASSUME NEW f \in Files PROVE Newest(f)' = indexed[f] BY <1>2 DEF PublishedInv
  <2>1. Imported(f)' = indexed[f] BY <1>1, <1>11, NoNews, ImportedStays
  <2>2. done' # <<>> => Len(done') \in 1 .. Len(done') BY <1>12 DEF EventTypes
  <2>3. done' # <<>> => done'[Len(done')].state # "succeeded" BY <1>10, <2>2 DEF Quiet
  <2> QED BY <2>1, <2>3 DEF Newest, IsNews
<1>17. ReadAsIsInv' BY <1>10 DEF ReadAsIsInv, Parsed
<1>18. CoveredInv'
  <2> SUFFICES ASSUME Heeds, NEW g \in Files, indexed[g] # 0 PROVE Covered(g)'
    BY <1>2, <1>11 DEF CoveredInv
  <2>1. Covered(g) /\ ~InHand(g)
    BY <1>1 DEF MissInv, MissParts, CoveredInv, InHand, Stages, Parsed
  <2>2. ASSUME Hears(done', g) PROVE Covered(g)'
    <3>1. Hears(done, g)' BY <1>2, <2>2 DEF Hears
    <3> QED BY <3>1 DEF Covered
  <2>3. CASE Hears(results, g)
    <3>1. Hears(results, g)' BY <1>2, <2>3 DEF Hears
    <3> QED BY <3>1 DEF Covered
  <2>4. CASE Hears(done, g) BY <1>9, <1>10, <2>2, <2>4
  <2>5. CASE disk[g] = indexed[g] \/ uncounted \/ Gone(g) \/ Since(g)
    BY <1>2, <1>10, <1>11, <2>5 DEF Covered, Gone
  <2>6. CASE Kept /\ Waits(g)
    <3>1. Waits(g)' => Covered(g)' BY <1>11, <2>6 DEF Covered
    <3>2. CASE g \in waiting
      <4>1. Passed(g) BY <1>10, <3>2
      <4>2. CASE g \in candidates' BY <3>1, <4>2 DEF Waits
      <4>3. CASE disk[g] = 0 /\ browserDirty'
        <5>1. Gone(g)' BY <1>2, <4>3 DEF Gone
        <5> QED BY <5>1 DEF Covered
      <4>4. CASE indexed[g] \in {0, disk[g]} BY <1>2, <4>4 DEF Covered
      <4>5. ASSUME NEW s \in Seq(Event), done' = Append(s, Failure(g)) PROVE Covered(g)'
        <5>1. g \in Some BY DEF Some
        <5>2. /\ Failure(g) \in Event /\ Failure(g).state = "failed"
              /\ g \in DOMAIN Failure(g).seen /\ Failure(g).seen[g] = disk[g]
          BY <1>5, <5>1, FailureEvent
        <5>3. Hears(Append(s, Failure(g)), g) BY <5>2, HearsMore
        <5> QED BY <2>2, <4>5, <5>3
      <4> QED BY <4>1, <4>2, <4>3, <4>4, <4>5 DEF Passed
    <3>3. CASE g \in left' \/ "asked" \in sweep' \/ Order("import", g) \in Range(manual)
      BY <1>2, <3>1, <3>3 DEF Waits
    <3>4. CASE Hears(news, g) BY <1>10, <2>2, <3>4
    <3>5. g \in waiting \/ g \in left' \/ "asked" \in sweep' \/ Order("import", g) \in Range(manual)
          \/ Hears(news, g)
      <4>1. g \in entries => g \in waiting \/ g \in left' BY <1>4
      <4>2. CASE begins
        <5>1. left = {} BY <1>5, <4>2
        <5>2. broken = "index" \/ g \in entries BY <1>4, <4>2
        <5> QED BY <1>9, <2>6, <4>1, <4>2, <5>1, <5>2 DEF Waits
      <4>3. CASE ~begins
        <5>1. entries = left /\ active = sweep BY <1>4, <4>3
        <5> QED BY <1>10, <2>6, <4>1, <5>1 DEF Waits
      <4> QED BY <4>2, <4>3
    <3> QED BY <3>2, <3>3, <3>4, <3>5
  <2> QED BY <2>1, <2>3, <2>4, <2>5, <2>6 DEF Covered
<1> QED BY <1>1, <1>11, <1>12, <1>13, <1>14, <1>15, <1>16, <1>17, <1>18 DEF MissInv, MissParts

-----------------------------------------------------------------------------
(* The step is over: its events are the last of those for the editor. *)
LEMMA ImportedThen ==
    ASSUME MissInv, results' = results \o done, UNCHANGED published, NEW f \in Files
    PROVE  Imported(f)' = Newest(f)
<1>1. results \in Seq(Event) /\ done \in Seq(Event) BY DEF MissInv, EventTypes
<1> DEFINE r == results \o done
           n == Len(results) + Len(done)
<1>2. /\ Len(results) \in Nat /\ Len(done) \in Nat /\ Len(r) = n
      /\ \A i \in 1 .. Len(results) : r[i] = results[i]
      /\ \A i \in 1 .. Len(done) : r[Len(results) + i] = done[i]
      /\ done # <<>> => Len(done) \in 1 .. Len(done)
  BY <1>1
<1> DEFINE S == {i \in 1 .. n : r[i].state = "succeeded" /\ f \in DOMAIN r[i].seen}
<1>3. Imported(f)' = IF S = {} THEN published[f] ELSE r[Max(S)].seen[f]
  BY <1>2 DEF Imported, Successes
<1> HIDE DEF r
<1>4. IsFiniteSet(S) /\ S \subseteq Nat
  <2>1. IsFiniteSet(1 .. n) /\ S \in SUBSET (1 .. n) BY <1>2, FS_Interval
  <2> QED BY <1>2, <2>1, FS_Subset
<1>5. \A i \in 1 .. Len(done) : done[i].state = "succeeded" => i = Len(done)
  BY DEF MissInv, MissParts, SuccessInv
<1>6. CASE done # <<>> /\ IsNews(done[Len(done)], f)
  <2>1. n \in S /\ r[n] = done[Len(done)] BY <1>2, <1>6 DEF IsNews
  <2>2. \A i \in S : i <= n OBVIOUS
  <2> HIDE DEF S
  <2>3. Max(S) \in S /\ n <= Max(S) /\ Max(S) <= n /\ Max(S) \in Nat BY <1>4, <2>1, <2>2, GreatestIn
  <2>4. Max(S) = n
    <3>1. n \in Nat BY <1>2
    <3> HIDE DEF n
    <3> QED BY <2>3, <3>1
  <2>5. S # {} /\ r[Max(S)] = done[Len(done)] BY <2>1, <2>4
  <2>6. Newest(f) = done[Len(done)].seen[f] BY <1>6 DEF Newest
  <2> QED BY <1>3, <2>5, <2>6
<1>7. CASE ~(done # <<>> /\ IsNews(done[Len(done)], f))
  <2>1. S = Successes(f)
    <3>1. ASSUME NEW i \in S PROVE i \in Successes(f)
      <4>1. CASE i \in 1 .. Len(results) BY <1>2, <3>1, <4>1 DEF Successes
      <4>2. CASE i \notin 1 .. Len(results)
        <5>1. i - Len(results) \in 1 .. Len(done) /\ Len(results) + (i - Len(results)) = i BY <1>2, <4>2
        <5>2. r[i] = done[i - Len(results)] BY <1>2, <5>1
        <5>3. i - Len(results) = Len(done) BY <1>5, <5>1, <5>2
        <5>4. done # <<>> BY <1>2, <5>1
        <5> QED BY <1>7, <5>2, <5>3, <5>4 DEF IsNews
      <4> QED BY <4>1, <4>2
    <3>2. ASSUME NEW i \in Successes(f) PROVE i \in S BY <1>2 DEF Successes
    <3> QED BY <3>1, <3>2
  <2>2. Newest(f) = Imported(f) BY <1>7 DEF Newest
  <2>3. CASE S = {} BY <1>3, <2>1, <2>2, <2>3 DEF Imported
  <2>4. CASE S # {}
    <3>1. Max(S) \in Successes(f) BY <1>4, <2>1, <2>4, GreatestIn
    <3>2. r[Max(S)] = results[Max(S)] BY <1>2, <3>1 DEF Successes
    <3> HIDE DEF S
    <3> QED BY <1>3, <2>1, <2>2, <2>4, <3>2 DEF Imported
  <2> QED BY <2>3, <2>4
<1> QED BY <1>6, <1>7

LEMMA EndStepMisses == ASSUME MissInv, EndStep PROVE MissInv'
<1>1. ImportInv' BY EndStepKeeps DEF MissInv
<1> DEFINE rebuilds == browsing \/ (browserDirty /\ manual = <<>> /\ candidates = {} /\ sweep = {})
<1>2. /\ at = "ending" /\ at' = "idle" /\ browserDirty' = (browserDirty /\ ~rebuilds)
      /\ IF rebuilds /\ ~stopping
         THEN browser' = [f \in Files |-> Shown(f)] \/ browser' = [f \in Files |-> "unknown"]
         ELSE browser' = browser
      /\ results' = results \o done /\ done' = <<>>
      /\ refused' = (refused \/ uncounted) /\ uncounted' = FALSE
      /\ pendingWork' = (manual # <<>> \/ candidates # {} \/ sweep # {} \/ browserDirty')
  BY DEF EndStep
<1>3. /\ UNCHANGED <<disk, raised, watched, overrun, watching, watchFailed, indexed, orders, manual,
                     rescan, revoked, stopping, before, candidates, sweep, left>>
      /\ UNCHANGED <<published, reported, swallowed>>
  BY DEF EndStep, system, watcher, disks, commands, import, ghosts
<1>4. CancelInv' /\ (Kept' <=> Kept) BY <1>3, OrdersStay
<1>5. Heeds' <=> Heeds BY <1>3 DEF Heeds, Watches
<1>6. SinceStays BY <1>2, <1>3 DEF SinceStays, Since, Early
<1>7. results \in Seq(Event) /\ done \in Seq(Event) BY DEF MissInv, EventTypes
<1>8. EventTypes'
  <2>1. results \o done \in Seq(Event) /\ <<>> \in Seq(Event) BY <1>7
  <2> QED BY <1>2, <2>1 DEF EventTypes
<1>9. RestInv' BY <1>2, <1>3 DEF MissInv, MissParts, RestInv
<1>10. GivenUpInv' BY <1>4, <1>5, <1>6 DEF MissInv, MissParts, GivenUpInv, SinceAll, SinceStays
<1>11. SuccessInv'
  <2>1. Len(done') = 0 BY <1>2
  <2> QED BY <2>1 DEF SuccessInv
<1>12. PublishedInv'
  <2> SUFFICES ASSUME NEW f \in Files PROVE Newest(f)' = indexed[f] BY <1>3 DEF PublishedInv
  <2>1. Imported(f)' = Newest(f) BY <1>2, <1>3, ImportedThen
  <2>2. Newest(f)' = Imported(f)' BY <1>2 DEF Newest
  <2> QED BY <2>1, <2>2 DEF MissInv, MissParts, PublishedInv
<1>13. ReadAsIsInv' BY <1>2 DEF ReadAsIsInv, Parsed
<1>14. CoveredInv'
  <2> SUFFICES ASSUME Heeds, NEW f \in Files, indexed[f] # 0 PROVE Covered(f)'
    BY <1>3, <1>5 DEF CoveredInv
  <2>1. Covered(f) /\ ~stopping BY DEF MissInv, MissParts, CoveredInv, Heeds
  <2>2. CASE Since(f) BY <1>6, <2>2 DEF SinceStays, Covered
  <2>3. CASE uncounted
    <3>1. Since(f)' BY <1>2, <2>3 DEF Since, Early
    <3> QED BY <3>1 DEF Covered
  <2>4. CASE Hears(results, f) \/ Hears(done, f)
    <3>1. Hears(results \o done, f) BY <1>7, <2>4, HearsJoined
    <3>2. Hears(results, f)' BY <1>2, <1>3, <3>1 DEF Hears
    <3> QED BY <3>2 DEF Covered
  <2>5. CASE Gone(f)
    <3>1. CASE rebuilds
      <4>1. browser' = [g \in Files |-> Shown(g)] \/ browser' = [g \in Files |-> "unknown"]
        BY <1>2, <2>1, <3>1
      <4>2. Shown(f) = "missing" BY <2>5 DEF Gone, Shown
      <4>3. browser'[f] \in {"missing", "unknown"}
        <5>1. CASE browser' = [g \in Files |-> Shown(g)]
          <6>1. browser'[f] = Shown(f) BY <5>1
          <6> QED BY <4>2, <6>1
        <5>2. CASE browser' = [g \in Files |-> "unknown"] BY <5>2
        <5> QED BY <4>1, <5>1, <5>2
      <4>4. Gone(f)' BY <1>3, <2>5, <4>3 DEF Gone
      <4> QED BY <4>4 DEF Covered
    <3>2. CASE ~rebuilds
      <4>1. browser' = browser /\ (browserDirty => browserDirty') BY <1>2, <3>2
      <4>2. Gone(f)' BY <1>3, <2>5, <4>1 DEF Gone
      <4> QED BY <4>2 DEF Covered
    <3> QED BY <3>1, <3>2
  <2>6. CASE Kept /\ Waits(f) BY <1>3, <1>4, <2>6 DEF Covered, Waits
  <2>7. CASE disk[f] = indexed[f] BY <1>3, <2>7 DEF Covered
  <2>8. ~InHand(f) BY <1>2 DEF InHand, Stages, Parsed
  <2> QED BY <2>1, <2>2, <2>3, <2>4, <2>5, <2>6, <2>7, <2>8 DEF Covered
<1> QED BY <1>1, <1>4, <1>8, <1>9, <1>10, <1>11, <1>12, <1>13, <1>14 DEF MissInv, MissParts

LEMMA MissStep == ASSUME MissInv, ImportSteps PROVE MissInv'
<1>1. CASE ImportTask
  <2>1. CASE ImportStage
    BY <2>1, CopyMisses, OpenMisses, ParseMisses, CheckMisses, CommitMisses, SaveMisses DEF ImportStage
  <2> QED BY <1>1, <2>1, BeginMisses, TickMisses, EndStepMisses DEF ImportTask
<1>2. CASE ImportFrame \/ ImportUser \/ StopImports
  BY <1>2, NotifiesMiss, PollsMiss, FrameOfImportsMisses, StopsMiss, CancelMisses, AsksMiss
  DEF ImportFrame, ImportTurn, ImportUser
<1>3. CASE (WatcherThread \/ \E f \in Files : Change(f)) /\ UNCHANGED importVars
  BY <1>3, WatchingMisses, ChangeMisses
<1> QED BY <1>1, <1>2, <1>3 DEF ImportSteps

LEMMA MissStarts ==
    ASSUME WatchInit({d \in [Files -> 0 .. 2] : \A f \in Files : d[OpenFile] <= d[f]}, "stopped"), ImportInit
    PROVE  MissInv
<1>1. ImportInv BY ImportStarts
<1>2. ~Heeds BY DEF WatchInit, Heeds, Watches
<1>3. /\ published = indexed /\ orders = <<>> /\ results = <<>> /\ done = <<>> /\ revoked = FALSE
      /\ left = {} /\ at = "idle" /\ manual = <<>> /\ candidates = {} /\ sweep = {}
      /\ uncounted = FALSE /\ browserDirty = FALSE
  BY DEF ImportInit
<1>4. EventTypes
  <2>1. <<>> \in Seq(Event) OBVIOUS
  <2> QED BY <1>3, <2>1 DEF EventTypes
<1>5. Len(orders) = 0 /\ Len(done) = 0 /\ Len(results) = 0 BY <1>3
<1>6. RestInv /\ CancelInv /\ SuccessInv BY <1>3, <1>5 DEF RestInv, CancelInv, SuccessInv
<1>7. GivenUpInv /\ ReadAsIsInv /\ CoveredInv BY <1>2 DEF GivenUpInv, ReadAsIsInv, CoveredInv
<1>8. PublishedInv
  <2>1. \A f \in Files : Successes(f) = {} BY <1>5 DEF Successes
  <2> QED BY <1>3, <2>1 DEF PublishedInv, Newest, Imported
<1> QED BY <1>1, <1>4, <1>6, <1>7, <1>8 DEF MissInv, MissParts

LEMMA MissHolds == ASSUME MissInv PROVE SourcesNotMissed
<1> SUFFICES ASSUME ImportsQuiet, Watches, ~stopping, ~swallowed, NEW f \in Files, indexed[f] # 0
             PROVE  /\ published[f] = indexed[f]
                    /\ \/ disk[f] \in {indexed[f]} \cup reported[f]
                       \/ (disk[f] = 0 /\ browser[f] \in {"missing", "unknown"})
  BY DEF SourcesNotMissed
<1>1. /\ raised = {} /\ watched = <<>> /\ ~overrun /\ ~refused /\ orders = <<>> /\ manual = <<>>
      /\ ~rescan /\ results = <<>> /\ job = "none" /\ ~pendingWork
  BY DEF ImportsQuiet
<1>2. at = "idle" BY <1>1 DEF MissInv, ImportInv, ImportParts, PlaceInv
<1>3. /\ done = <<>> /\ ~uncounted /\ candidates = {} /\ sweep = {} /\ ~browserDirty /\ left = {}
  BY <1>1, <1>2 DEF MissInv, MissParts, RestInv
<1>4. Len(results) = 0 /\ Len(done) = 0 /\ Range(watched) = {} /\ Range(orders) = {} /\ Range(manual) = {}
  BY <1>1, <1>3, RangeEmpty
<1>5. published[f] = indexed[f]
  <2>1. Successes(f) = {} BY <1>4 DEF Successes
  <2>2. Newest(f) = published[f] BY <1>3, <2>1 DEF Newest, Imported
  <2> QED BY <2>2 DEF MissInv, MissParts, PublishedInv
<1>6. Covered(f) BY DEF MissInv, MissParts, CoveredInv, Heeds
<1>7. ~Early(f) BY <1>1, <1>4 DEF Early
<1>8. ~Hears(results, f) /\ ~Hears(done, f) BY <1>4 DEF Hears
<1>9. ~Waits(f) /\ ~InHand(f) BY <1>2, <1>3, <1>4 DEF Waits, InHand, Stages, Parsed
<1>10. disk[f] = indexed[f] \/ disk[f] \in reported[f] \/ Gone(f)
  BY <1>3, <1>6, <1>7, <1>8, <1>9 DEF Covered, Since
<1> QED BY <1>3, <1>5, <1>10 DEF Gone
-----------------------------------------------------------------------------
(***************************************************************************)
(* No changed scene or prefab is missed.                                    *)
(***************************************************************************)
\* The editor and the runtime go by the file as it is, or the user was told of it.
Followed(f) == disk[f] \in {served[f]} \cup warned[f]
\* The reading is there and will be checked.
CanCheck == receipt.phase = "ready" /\ ~receipt.stale /\ ~receipt.orphan
\* f will be read.
Probing(f) ==
    \E i \in 1 .. Len(probes) :
        IsProbe(probes[i]) /\ probes[i].file = f /\ ~(i = 1 /\ CanCheck)
\* There is an event of f, one more than the change that is prepared takes.
Announced(f) ==
    \E i \in 1 .. Len(inbox) :
        /\ inbox[i] = f
        /\ prepared.file = f => \E j \in 1 .. Len(inbox) : j # i /\ inbox[j] = f
\* The scan will ask for f.
ToList(f) ==
    \/ scan \in {"listing", "asked"} /\ f \notin listed /\ disk[f] # 0
    \/ scan = "listed" /\ f \in listed
    \/ scan = "failed"
\* f will be looked at again.
Coming(f) == f \in raised \/ f \in Range(watched) \/ overrun \/ rescans \/ Announced(f)
Behind(f) == Coming(f) \/ checking.stale \/ Probing(f) \/ ToList(f)
\* f was read as c, and what comes of it will be checked, prepared or loaded.
ReadAs(f, c) ==
    \/ CanCheck /\ probes # <<>> /\ Head(probes).file = f /\ receipt.seen = c
    \/ /\ \/ checking.phase = "queued" /\ IsProbe(checking)
          \/ checking.phase = "done" /\ checking.kind = "changed"
       /\ ~checking.stale /\ checking.file = f /\ checking.seen = c
    \/ prepared.file = f /\ prepared.seen = c
    \/ loading.file = f /\ loading.seen = c
\* The fingerprint of f is about to be c.
SetTo(f, c) ==
    \/ \E i \in 1 .. Len(probes) :
           ~IsProbe(probes[i]) /\ probes[i].file = f /\ probes[i].hash = c
    \/ Sets(f) /\ checking.seen = c
\* There is no such file, and nobody knows of one.
Nowhere(f) == disk[f] = 0 /\ fingerprints[f] = Unknown /\ \A c \in Nat : ~SetTo(f, c)

\* What is known is what is gone by; a change is noticed, or on its way; and of a file that was
\* read and has changed since the change is still to come, and is not what the monitor knows.
Tracked(f) ==
    /\ fingerprints[f] = disk[f] \/ SetTo(f, disk[f]) => Followed(f)
    /\ Watches => Followed(f) \/ Behind(f) \/ ReadAs(f, disk[f]) \/ Nowhere(f)
    /\ \A c \in Nat : ReadAs(f, c) /\ c # disk[f] =>
           /\ Watches => Behind(f)
           /\ fingerprints[f] # disk[f] /\ ~SetTo(f, disk[f])
TrackedInv == ~leaving /\ ~skipped => \A f \in Files : Tracked(f)

\* A content that some write has brought; a file that was found has one.
Used(n) == n < 3 + writes
NumberInv ==
    /\ \A f \in Files : fingerprints[f] # 0 /\ Used(fingerprints[f])
    /\ \A i \in 1 .. Len(probes) :
           Used(probes[i].hash) /\ (IsProbe(probes[i]) \/ probes[i].hash # 0)
    /\ Used(receipt.seen) /\ Used(checking.seen) /\ Used(prepared.seen) /\ Used(loading.seen)
    /\ receipt.ok => receipt.seen # 0
    /\ checking.ok => checking.seen # 0
    /\ prepared.ok => prepared.seen # 0
    /\ checking.kind \in {"saved", "applied"} => checking.ok
    /\ loading # NoChange => loading.seen # 0
\* A change is checked, prepared and loaded one after the other, and its event waits for it.
TurnInv ==
    /\ checking # NoCheck => prepared = NoChange /\ loading = NoChange
    /\ prepared # NoChange => loading = NoChange /\ prepared.file \in Range(inbox)
\* What was written over before the save was acknowledged is not known.
OverwrittenInv ==
    saving.phase = "written" /\ saving.content # disk[saving.file] =>
        /\ fingerprints[saving.file] # disk[saving.file]
        /\ ~(/\ checking.phase = "queued" /\ checking.file = saving.file /\ checking.ok
             /\ checking.seen = disk[saving.file])
HistoryTypes == served \in [Files -> Int] /\ warned \in [Files -> SUBSET Int]

FollowParts == NumberInv /\ TurnInv /\ OverwrittenInv /\ HistoryTypes
FollowInv == OwnInv /\ FollowParts /\ TrackedInv

(* At rest nothing is on its way. *)
LEMMA FollowHolds == ASSUME FollowInv PROVE ChangesNotMissed
<1> SUFFICES ASSUME AuthorQuiet, Watches, ~leaving, ~skipped, NEW f \in Files
             PROVE  \/ disk[f] \in {served[f]} \cup warned[f]
                    \/ disk[f] = 0 /\ fingerprints[f] = Unknown
  BY DEF ChangesNotMissed
<1>1. f # NoFile BY WatcherAssumption DEF WatcherAssumption
<1>2. Tracked(f) BY DEF FollowInv, TrackedInv
<1>3. ~Behind(f)
  <2>1. Len(inbox) = 0 /\ Len(probes) = 0 /\ f \notin Range(watched) BY RangeEmpty DEF AuthorQuiet
  <2>2. ~Announced(f) /\ ~Probing(f) BY <2>1 DEF Announced, Probing
  <2>3. ~checking.stale BY DEF AuthorQuiet, NoCheck
  <2> QED BY <2>1, <2>2, <2>3 DEF AuthorQuiet, Behind, Coming, ToList
<1>4. ~ReadAs(f, disk[f]) BY <1>1 DEF AuthorQuiet, FrameRuns, ReadAs, NoCheck, NoChange
<1> QED BY <1>2, <1>3, <1>4 DEF Tracked, Followed, Nowhere

(* A step that is not about f's fingerprint: what is read or served stays so, or becomes so by
   the file as it is, and nothing that is on its way is lost. *)
Steady(f) ==
    /\ disk'[f] = disk[f] /\ fingerprints'[f] = fingerprints[f]
    /\ Watches' => Watches \/ Behind(f)'
    /\ Followed(f) => Followed(f)'
    /\ \A c \in Nat : SetTo(f, c)' => SetTo(f, c)
    /\ \A c \in Nat : ReadAs(f, c)' => ReadAs(f, c) \/ c = disk[f]
    /\ ReadAs(f, disk[f]) => ReadAs(f, disk[f])' \/ Followed(f)' \/ Behind(f)'
    /\ Watches' /\ Behind(f) => Behind(f)'
LEMMA SteadyTracks ==
    ASSUME OwnInv, NEW f \in Files, Tracked(f), Steady(f) PROVE Tracked(f)'
<1>1. disk[f] \in Nat /\ disk'[f] = disk[f] /\ fingerprints'[f] = fingerprints[f]
  BY DEF OwnInv, OwnTypes, Steady
<1>2. (fingerprints[f] = disk[f])' \/ SetTo(f, disk[f])' => Followed(f)'
  BY <1>1 DEF Tracked, Steady
<1>3. Watches' => Followed(f)' \/ Behind(f)' \/ ReadAs(f, disk[f])' \/ Nowhere(f)'
  BY <1>1 DEF Tracked, Steady, Nowhere
<1>4. ASSUME NEW c \in Nat, ReadAs(f, c)', c # disk[f]
      PROVE  (Watches' => Behind(f)') /\ fingerprints'[f] # disk'[f] /\ ~SetTo(f, disk[f])'
  BY <1>1, <1>4 DEF Tracked, Steady
<1> QED BY <1>1, <1>2, <1>3, <1>4 DEF Tracked

(* What no part of FollowInv reads may change. *)
LEMMA PartsAside ==
    ASSUME FollowParts, HistoryTypes', Range(inbox) \subseteq Range(inbox'),
           UNCHANGED <<disk, writes, fingerprints, probes, receipt, checking, prepared, loading>>,
           saving' = saving \/ saving'.phase # "written"
    PROVE  FollowParts'
<1>1. NumberInv' BY DEF FollowParts, NumberInv, Used
<1>2. TurnInv' BY DEF FollowParts, TurnInv
<1>3. OverwrittenInv' BY DEF FollowParts, OverwrittenInv
<1> QED BY <1>1, <1>2, <1>3 DEF FollowParts

(* The frame takes a batch, drops a reading, asks for files. *)
LEMMA BatchParts == ASSUME FollowInv, TakeBatch, Pump, UNCHANGED records PROVE FollowParts'
<1>0. OwnTypes /\ NameTypes /\ FollowParts BY DEF FollowInv, OwnInv
<1>1. /\ checking.phase = "done" /\ checking' = NoCheck
      /\ UNCHANGED <<disk, writes, fingerprints, probes, receipt, loading, saving, served, warned>>
  BY DEF TakeBatch, Pump, watchVars, system, records
<1>2. checking # NoCheck /\ loading = NoChange /\ prepared = NoChange /\ writes \in Nat
  BY <1>0, <1>1 DEF OwnTypes, FollowParts, TurnInv, NoCheck
<1>3. CASE /\ prepared' = [file |-> checking.file, seen |-> checking.seen, ok |-> checking.ok]
           /\ inbox' = Append(inbox, checking.file)
  <2>1. prepared'.file = checking.file /\ prepared'.seen = checking.seen /\ prepared'.ok = checking.ok
    BY <1>3
  <2>2. checking.file \in Range(inbox')
    <3>1. checking.file \in Some BY <1>0 DEF OwnTypes, Checks
    <3>2. Range(inbox') = Range(inbox) \cup {checking.file}
      BY <1>0, <1>3, <3>1, RangeAppend DEF NameTypes
    <3> QED BY <3>2
  <2>3. TurnInv' BY <1>1, <1>2, <2>1, <2>2 DEF TurnInv
  <2>4. NumberInv' BY <1>0, <1>1, <1>2, <2>1 DEF FollowParts, NumberInv, Used, NoCheck
  <2>5. OverwrittenInv' BY <1>0, <1>1 DEF FollowParts, OverwrittenInv, NoCheck
  <2>6. HistoryTypes' BY <1>0, <1>1 DEF FollowParts, HistoryTypes
  <2> QED BY <2>3, <2>4, <2>5, <2>6 DEF FollowParts
<1>4. CASE UNCHANGED <<prepared, inbox>>
  <2>3. TurnInv' BY <1>1, <1>2, <1>4 DEF TurnInv
  <2>4. NumberInv' BY <1>0, <1>1, <1>2, <1>4 DEF FollowParts, NumberInv, Used, NoCheck
  <2>5. OverwrittenInv' BY <1>0, <1>1 DEF FollowParts, OverwrittenInv, NoCheck
  <2>6. HistoryTypes' BY <1>0, <1>1 DEF FollowParts, HistoryTypes
  <2> QED BY <2>3, <2>4, <2>5, <2>6 DEF FollowParts
<1> QED BY <1>3, <1>4 DEF TakeBatch

LEMMA ReceiptParts ==
    ASSUME FollowInv, Range(inbox) \subseteq Range(inbox'),
           UNCHANGED <<disk, writes, fingerprints, probes, checking, prepared, loading, saving, served, warned>>,
           Used(receipt'.seen), receipt'.ok => receipt'.seen # 0
    PROVE  FollowParts'
<1>0. FollowParts BY DEF FollowInv
<1>1. NumberInv' BY <1>0 DEF FollowParts, NumberInv, Used
<1>2. TurnInv' BY <1>0 DEF FollowParts, TurnInv
<1>3. OverwrittenInv' BY <1>0 DEF FollowParts, OverwrittenInv
<1>4. HistoryTypes' BY <1>0 DEF FollowParts, HistoryTypes
<1> QED BY <1>1, <1>2, <1>3, <1>4 DEF FollowParts

(* ... and holds each of them. *)
LEMMA SequenceHolds ==
    ASSUME NEW S, IsFiniteSet(S)
    PROVE  SetToSeq(S) \in Seq(S) /\ \A c \in S : \E i \in 1 .. Len(SetToSeq(S)) : SetToSeq(S)[i] = c
<1> DEFINE n == Cardinality(S)
<1>1. n \in Nat BY FS_CardinalityType
<1>2. PICK g \in [1 .. n -> S] : IsInjective(g)
  <2>1. PICK m \in Nat : ExistsBijection(1 .. m, S) BY FS_NatBijection
  <2>2. m = n BY <2>1, FS_CountingElements
  <2>3. PICK g : g \in Bijection(1 .. m, S) BY <2>1 DEF ExistsBijection
  <2>4. g \in [1 .. m -> S] /\ \A a, b \in 1 .. m : g[a] = g[b] => a = b
    BY <2>3 DEF Bijection, Injection, IsInjective
  <2> QED BY <2>2, <2>4 DEF IsInjective
<1>3. PICK h : h = SetToSeq(S) OBVIOUS
<1>4. h \in [1 .. n -> S] /\ IsInjective(h) BY <1>2, <1>3 DEF SetToSeq
<1>5. IsFiniteSet(1 .. n) /\ Cardinality(1 .. n) = n BY <1>1, FS_Interval
<1>6. h \in Injection(1 .. n, S) BY <1>4 DEF Injection, IsInjective
<1>7. h \in Surjection(1 .. n, S) BY <1>5, <1>6, FS_Injection
<1>8. h \in Seq(S) /\ Len(h) = n BY <1>1, <1>4
<1>9. \A c \in S : \E i \in 1 .. n : h[i] = c BY <1>7 DEF Surjection
<1> QED BY <1>3, <1>8, <1>9

(* Probes are waiting where there were none. *)
LEMMA ProbesOf ==
    ASSUME NEW S \in SUBSET Files
    PROVE  /\ Probes(S) \in Seq(Known)
           /\ \A i \in 1 .. Len(Probes(S)) :
                  IsProbe(Probes(S)[i]) /\ Probes(S)[i].hash = 0 /\ Probes(S)[i].file \in S
           /\ \A f \in S : \E i \in 1 .. Len(Probes(S)) : Probes(S)[i].file = f
<1> USE WatcherAssumption DEF WatcherAssumption
<1> DEFINE k == IF baseline THEN "baseline" ELSE "probe"
           T == {Command(k, f, 0) : f \in S}
<1>1. k \in CommandKinds BY DEF CommandKinds
<1> HIDE DEF k
<1>2. IsFiniteSet(S) BY FS_Subset
<1>3. IsFiniteSet(T)
  <2> DEFINE g == [f \in S |-> Command(k, f, 0)]
  <2>1. IsFiniteSet({g[x] : x \in S}) BY <1>2, ImagesFinite
  <2>2. {g[x] : x \in S} = T OBVIOUS
  <2> QED BY <2>1, <2>2
<1>4. T \subseteq Known BY <1>1, CommandKnown
<1>5. PICK t : t = SetToSeq(T) OBVIOUS
<1>6. Probes(S) = t BY <1>5 DEF Probes, k
<1>7. t \in Seq(T) /\ \A c \in T : \E i \in 1 .. Len(t) : t[i] = c
  BY <1>3, <1>5, SequenceHolds
<1>8. \A c \in T : IsProbe(c) /\ c.hash = 0 /\ c.file \in S BY DEF Command, IsProbe, k
<1>9. \A f \in S : \E i \in 1 .. Len(t) : t[i].file = f
  <2> TAKE f \in S
  <2>1. PICK c \in T : c = Command(k, f, 0) OBVIOUS
  <2>2. PICK i \in 1 .. Len(t) : t[i] = c BY <1>7
  <2> QED BY <2>1, <2>2 DEF Command
<1> HIDE DEF T
<1>10. t \in Seq(Known) BY <1>4, <1>7
<1>11. \A i \in 1 .. Len(t) : t[i] \in T BY <1>7
<1> QED BY <1>6, <1>8, <1>9, <1>10, <1>11

LEMMA ScanParts == ASSUME FollowInv, Scan, FrameRuns, UNCHANGED <<watchVars, loading, saving>> PROVE FollowParts'
<1>0. OwnTypes /\ NameTypes /\ FollowParts BY DEF FollowInv, OwnInv
<1>1. /\ probes = <<>>
      /\ UNCHANGED <<disk, writes, fingerprints, receipt, checking, prepared, loading, saving, inbox, served>>
  BY DEF Scan, watchVars, system
<1>2. writes \in Nat /\ disk \in [Files -> Nat] BY <1>0 DEF OwnTypes
<1>3. \A i \in 1 .. Len(probes') : IsProbe(probes'[i]) /\ probes'[i].hash = 0
  <2>1. CASE UNCHANGED probes BY <1>1, <2>1
  <2>2. ASSUME NEW S \in SUBSET Files, probes' = Probes(S)
        PROVE  \A i \in 1 .. Len(probes') : IsProbe(probes'[i]) /\ probes'[i].hash = 0
    BY <2>2, ProbesOf
  <2>3. \/ UNCHANGED probes
        \/ probes' = Probes({f \in Files : fingerprints[f] # Unknown})
        \/ probes' = Probes(listed)
    BY DEF Scan
  <2>4. listed \in SUBSET Files /\ {f \in Files : fingerprints[f] # Unknown} \in SUBSET Files
    BY <1>0 DEF NameTypes
  <2> QED BY <2>1, <2>2, <2>3, <2>4
<1>4. NumberInv'
  <2>1. \A i \in 1 .. Len(probes') : Used(probes'[i].hash) /\ (IsProbe(probes'[i]) \/ probes'[i].hash # 0)
    BY <1>1, <1>2, <1>3 DEF Used
  <2> QED BY <1>0, <1>1, <2>1 DEF FollowParts, NumberInv, Used
<1>5. TurnInv' BY <1>0, <1>1 DEF FollowParts, TurnInv
<1>6. OverwrittenInv' BY <1>0, <1>1 DEF FollowParts, OverwrittenInv
<1>7. HistoryTypes'
  <2>1. warned' = warned \/ warned' = [f \in Files |-> warned[f] \cup {disk[f]}] BY DEF Scan
  <2>2. \A f \in Files : disk[f] \in Int BY <1>2
  <2> QED BY <1>0, <1>1, <2>1, <2>2 DEF FollowParts, HistoryTypes
<1> QED BY <1>4, <1>5, <1>6, <1>7 DEF FollowParts

(* The first command goes to the task. *)
LEMMA SubmitParts ==
    ASSUME FollowInv, SubmitCheck, FrameRuns, prepared = NoChange,
           UNCHANGED <<watchVars, fingerprints, prepared, inbox, loading, saving, records>>
    PROVE  FollowParts'
<1>0. OwnTypes /\ NameTypes /\ FollowParts BY DEF FollowInv, OwnInv
<1>1. /\ UNCHANGED <<disk, writes, fingerprints, prepared, loading, saving, inbox, served, warned>>
      /\ loading = NoChange /\ saving = NoSave /\ probes # <<>> /\ probes' = Tail(probes)
  BY DEF SubmitCheck, watchVars, system, FrameRuns, records
<1>2. writes \in Nat /\ probes \in Seq(Known) BY <1>0 DEF OwnTypes
<1>3. /\ Head(probes) = probes[1] /\ 1 \in 1 .. Len(probes)
      /\ \A i \in 1 .. Len(probes') : i + 1 \in 1 .. Len(probes) /\ probes'[i] = probes[i + 1]
  BY <1>1, <1>2
<1>4. PICK seen, ok : /\ \/ seen = receipt.seen /\ ok = receipt.ok /\ IsProbe(Head(probes)) /\ receipt' = NoReceipt
                         \/ seen = Head(probes).hash /\ ok = TRUE /\ ~IsProbe(Head(probes)) /\ receipt' = receipt
                      /\ Check(Head(probes), seen, ok)
  BY DEF SubmitCheck
<1>5. /\ checking'.kind = Head(probes).kind /\ checking'.seen = seen /\ checking'.ok = ok
      /\ checking'.phase = "queued"
  BY <1>4 DEF Check
<1>6. Used(seen) /\ (ok => seen # 0) BY <1>0, <1>3, <1>4 DEF FollowParts, NumberInv
<1>7. NumberInv'
  <2>1. \A i \in 1 .. Len(probes') : Used(probes'[i].hash) /\ (IsProbe(probes'[i]) \/ probes'[i].hash # 0)
    BY <1>0, <1>3 DEF FollowParts, NumberInv
  <2>2. Used(receipt'.seen) /\ (receipt'.ok => receipt'.seen # 0)
    BY <1>0, <1>2, <1>4 DEF FollowParts, NumberInv, NoReceipt, Used
  <2>3. checking'.kind \in {"saved", "applied"} => checking'.ok
    <3>1. CASE IsProbe(Head(probes)) BY <1>5, <3>1 DEF IsProbe
    <3>2. CASE ~IsProbe(Head(probes)) BY <1>4, <1>5, <3>2
    <3> QED BY <3>1, <3>2
  <2>4. Used(checking'.seen) /\ (checking'.ok => checking'.seen # 0) BY <1>5, <1>6
  <2> QED BY <1>0, <1>1, <2>1, <2>2, <2>3, <2>4 DEF FollowParts, NumberInv, Used
<1>8. TurnInv' BY <1>1 DEF TurnInv
<1>9. OverwrittenInv' BY <1>1 DEF OverwrittenInv, NoSave
<1>10. HistoryTypes' BY <1>0, <1>1 DEF FollowParts, HistoryTypes
<1> QED BY <1>7, <1>8, <1>9, <1>10 DEF FollowParts

(* The task. *)
LEMMA TaskParts == ASSUME FollowInv, CheckTask PROVE FollowParts'
<1> DEFINE f == checking.file
<1>0. OwnTypes /\ NameTypes /\ FollowParts BY DEF FollowInv, OwnInv
<1>1. /\ checking.phase = "queued" /\ checking \in Checks /\ f \in Files /\ checking # NoCheck
      /\ UNCHANGED <<disk, writes, probes, receipt, prepared, loading, saving, inbox, warned>>
  BY <1>0 DEF CheckTask, watchVars, system, editing, OwnTypes, NoCheck
<1>2. PICK l \in {"changed", "checked", "cancelled"} :
          checking' = [checking EXCEPT !.phase = "done", !.kind = l]
  BY DEF CheckTask
<1>3. /\ checking'.kind = l /\ checking'.file = f /\ checking'.seen = checking.seen
      /\ checking'.ok = checking.ok /\ checking'.phase = "done"
  BY <1>1, <1>2, CheckMoves
<1>4. /\ Used(checking.seen) /\ checking.seen \in Nat
      /\ Accepts => checking.ok /\ checking.seen # 0
  BY <1>0, <1>1 DEF FollowParts, NumberInv, Accepts, Checks
<1>5. fingerprints \in [Files -> Int] BY <1>0 DEF OwnTypes
<1>6. \/ fingerprints' = fingerprints
      \/ Accepts /\ fingerprints' = [fingerprints EXCEPT ![f] = checking.seen]
  BY DEF CheckTask
<1>7. \A g \in Files : \/ fingerprints'[g] = fingerprints[g]
                       \/ g = f /\ Accepts /\ fingerprints'[g] = checking.seen
  BY <1>1, <1>5, <1>6
<1>8. NumberInv'
  <2>1. \A g \in Files : fingerprints'[g] # 0 /\ Used(fingerprints'[g])
    <3> TAKE g \in Files
    <3>1. CASE fingerprints'[g] = fingerprints[g] BY <1>0, <3>1 DEF FollowParts, NumberInv
    <3>2. CASE Accepts /\ fingerprints'[g] = checking.seen BY <1>4, <3>2
    <3> QED BY <1>7, <3>1, <3>2
  <2> QED BY <1>0, <1>1, <1>3, <2>1 DEF FollowParts, NumberInv, Used
<1>9. TurnInv' BY <1>0, <1>1 DEF FollowParts, TurnInv
<1>10. OverwrittenInv'
  <2> SUFFICES ASSUME saving.phase = "written", saving.content # disk[saving.file]
               PROVE  fingerprints'[saving.file] # disk[saving.file]
    BY <1>1, <1>3 DEF OverwrittenInv
  <2>1. saving.file \in Files BY <1>0 DEF OwnTypes, NoSave
  <2>2. /\ fingerprints[saving.file] # disk[saving.file]
        /\ ~(checking.file = saving.file /\ checking.ok /\ checking.seen = disk[saving.file])
    BY <1>0, <1>1 DEF FollowParts, OverwrittenInv
  <2> QED BY <1>4, <1>7, <2>1, <2>2
<1>11. HistoryTypes'
  <2>1. served' = served \/ served' = [served EXCEPT ![f] = checking.seen] BY DEF CheckTask
  <2> QED BY <1>0, <1>1, <1>4, <2>1 DEF FollowParts, HistoryTypes
<1> QED BY <1>8, <1>9, <1>10, <1>11 DEF FollowParts

(* A command is queued, or everything is looked at again. *)
LEMMA EnqueueAdds ==
    ASSUME probes \in Seq(Known), NEW c \in Known, Enqueue(c)
    PROVE  /\ \A i \in 1 .. Len(probes) : i \in 1 .. Len(probes') /\ probes'[i] = probes[i]
           /\ \A i \in 1 .. Len(probes') :
                  (i \in 1 .. Len(probes) /\ probes'[i] = probes[i]) \/ (i = Len(probes) + 1 /\ probes'[i] = c)
           /\ rescans => rescans'
           /\ rescans' \/ (Len(probes) + 1 \in 1 .. Len(probes') /\ probes'[Len(probes) + 1] = c)
           /\ probes # <<>> => probes' # <<>> /\ Head(probes') = Head(probes)
<1>1. CASE rescans' = TRUE /\ probes' = probes BY <1>1
<1>2. CASE probes' = Append(probes, c) /\ rescans' = rescans
  <2>1. /\ Len(probes') = Len(probes) + 1 /\ probes'[Len(probes) + 1] = c /\ Len(probes) \in Nat
        /\ \A i \in 1 .. Len(probes) : probes'[i] = probes[i]
        /\ probes' \in Seq(Known)
    BY <1>2
  <2>2. probes # <<>> => Head(probes) = probes[1] /\ 1 \in 1 .. Len(probes) OBVIOUS
  <2>3. probes' # <<>> /\ Head(probes') = probes'[1] BY <2>1
  <2> QED BY <1>2, <2>1, <2>2, <2>3
<1> QED BY <1>1, <1>2 DEF Enqueue

(* An event is looked at. *)
LEMMA TailKeeps ==
    ASSUME NEW s \in Seq(Some), s # <<>>
    PROVE  /\ Tail(s) \in Seq(Some) /\ Len(Tail(s)) = Len(s) - 1 /\ Len(s) \in Nat /\ Head(s) = s[1]
           /\ 1 \in 1 .. Len(s)
           /\ \A i \in 1 .. Len(s) : i # 1 => i - 1 \in 1 .. Len(Tail(s)) /\ Tail(s)[i - 1] = s[i]
           /\ \A i \in 1 .. Len(Tail(s)) : i + 1 \in 1 .. Len(s) /\ Tail(s)[i] = s[i + 1]
OBVIOUS

LEMMA InspectParts == ASSUME FollowInv, Inspect PROVE FollowParts'
<1>0. OwnTypes /\ NameTypes /\ FollowParts BY DEF FollowInv, OwnInv
<1>1. /\ UNCHANGED <<disk, writes, fingerprints, receipt, checking, saving>>
      /\ loading = NoChange /\ saving = NoSave /\ inbox # <<>> /\ inbox \in Seq(Some)
  BY <1>0 DEF Inspect, system, FrameRuns, NameTypes
<1>2. OverwrittenInv' BY <1>1 DEF OverwrittenInv, NoSave
<1>3. writes \in Nat /\ probes \in Seq(Known) /\ prepared \in Changes BY <1>0 DEF OwnTypes
<1>4. CASE Head(inbox) = NoFile /\ inbox' = Tail(inbox) /\ UNCHANGED <<probes, prepared, loading, served, warned>>
  <2>1. prepared # NoChange => prepared.file \in Range(Tail(inbox))
    <3> SUFFICES ASSUME prepared # NoChange PROVE prepared.file \in Range(Tail(inbox)) OBVIOUS
    <3>1. prepared.file \in Range(inbox) /\ prepared.file # Head(inbox)
      BY <1>0, <1>4, WatcherAssumption DEF FollowParts, TurnInv, OwnTypes, WatcherAssumption
    <3> QED BY <1>1, <3>1, RangeTail
  <2>2. TurnInv' BY <1>0, <1>1, <1>4, <2>1 DEF FollowParts, TurnInv
  <2>3. NumberInv' BY <1>0, <1>1, <1>4 DEF FollowParts, NumberInv, Used
  <2>4. HistoryTypes' BY <1>0, <1>4 DEF FollowParts, HistoryTypes
  <2> QED BY <1>2, <2>2, <2>3, <2>4 DEF FollowParts
<1>5. CASE /\ Head(inbox) # NoFile /\ Head(inbox) # prepared.file
           /\ Enqueue(Command("probe", Head(inbox), 0)) /\ inbox' = Tail(inbox)
           /\ UNCHANGED <<prepared, loading, served, warned>>
  <2>1. prepared # NoChange => prepared.file \in Range(Tail(inbox))
    <3> SUFFICES ASSUME prepared # NoChange PROVE prepared.file \in Range(Tail(inbox)) OBVIOUS
    <3>1. prepared.file \in Range(inbox) /\ prepared.file # Head(inbox)
      BY <1>0, <1>5 DEF FollowParts, TurnInv
    <3> QED BY <1>1, <3>1, RangeTail
  <2>2. TurnInv' BY <1>0, <1>1, <1>5, <2>1 DEF FollowParts, TurnInv
  <2>3. PICK c : c = Command("probe", Head(inbox), 0) OBVIOUS
  <2>4. c \in Known /\ c.hash = 0 /\ IsProbe(c)
    <3>1. Head(inbox) \in Files BY <1>1, <1>5 DEF Some
    <3>2. "probe" \in CommandKinds BY DEF CommandKinds
    <3> QED BY <2>3, <3>1, <3>2, CommandKnown DEF Command, IsProbe
  <2>5. \A i \in 1 .. Len(probes') : Used(probes'[i].hash) /\ (IsProbe(probes'[i]) \/ probes'[i].hash # 0)
    <3> TAKE i \in 1 .. Len(probes')
    <3>1. (i \in 1 .. Len(probes) /\ probes'[i] = probes[i]) \/ probes'[i] = c
      BY <1>3, <1>5, <2>3, <2>4, EnqueueAdds
    <3>2. Used(0) BY <1>3 DEF Used
    <3>3. CASE i \in 1 .. Len(probes) /\ probes'[i] = probes[i] BY <1>0, <3>3 DEF FollowParts, NumberInv
    <3>4. CASE probes'[i] = c BY <2>4, <3>2, <3>4
    <3> QED BY <3>1, <3>3, <3>4
  <2>6. NumberInv' BY <1>0, <1>1, <1>5, <2>5 DEF FollowParts, NumberInv, Used
  <2>7. HistoryTypes' BY <1>0, <1>5 DEF FollowParts, HistoryTypes
  <2> QED BY <1>2, <2>2, <2>6, <2>7 DEF FollowParts
<1>6. CASE prepared # NoChange /\ Observe(prepared)
  <2>1. /\ prepared' = NoChange /\ checking = NoCheck
        /\ Used(prepared.seen) /\ (prepared.ok => prepared.seen # 0) /\ prepared.file \in Files /\ prepared.seen \in Int
    BY <1>0, <1>6 DEF Observe, FollowParts, TurnInv, NumberInv, OwnTypes, Changes
  <2>2. TurnInv' BY <1>1, <2>1 DEF TurnInv
  <2>3. loading' = NoChange \/ (loading' = prepared /\ prepared.ok) BY <1>1, <1>6 DEF Observe
  <2>4. PICK c : c = Command("applied", prepared.file, prepared.seen) OBVIOUS
  <2>5. c \in Known /\ c.hash = prepared.seen
    <3>1. "applied" \in CommandKinds /\ prepared.seen \in Nat BY <1>3 DEF CommandKinds, Changes
    <3> QED BY <2>1, <2>4, <3>1, CommandKnown DEF Command
  <2>6. probes' = probes \/ (prepared.ok /\ Enqueue(c)) BY <1>6, <2>4 DEF Observe, Applied
  <2>7. \A i \in 1 .. Len(probes') : Used(probes'[i].hash) /\ (IsProbe(probes'[i]) \/ probes'[i].hash # 0)
    <3>1. CASE probes' = probes BY <1>0, <3>1 DEF FollowParts, NumberInv
    <3>2. CASE prepared.ok /\ Enqueue(c)
      <4> TAKE i \in 1 .. Len(probes')
      <4>1. (i \in 1 .. Len(probes) /\ probes'[i] = probes[i]) \/ probes'[i] = c
        BY <1>3, <2>5, <3>2, EnqueueAdds
      <4>3. CASE i \in 1 .. Len(probes) /\ probes'[i] = probes[i] BY <1>0, <4>3 DEF FollowParts, NumberInv
      <4>4. CASE probes'[i] = c BY <2>1, <2>5, <3>2, <4>4
      <4> QED BY <4>1, <4>3, <4>4
    <3> QED BY <2>6, <3>1, <3>2
  <2>8. NumberInv'
    <3>1. Used(prepared'.seen) /\ (prepared'.ok => prepared'.seen # 0)
      BY <1>3, <2>1 DEF NoChange, Used
    <3>2. Used(loading'.seen) /\ (loading' # NoChange => loading'.seen # 0)
      BY <1>3, <2>1, <2>3 DEF NoChange, Used
    <3> QED BY <1>0, <1>1, <2>7, <3>1, <3>2 DEF FollowParts, NumberInv, Used
  <2>9. HistoryTypes'
    <3>1. served' = served \/ served' = [served EXCEPT ![prepared.file] = prepared.seen]
      BY <1>6 DEF Observe
    <3>2. warned' = warned \/ warned' = [warned EXCEPT ![prepared.file] = @ \cup {prepared.seen}]
      BY <1>6 DEF Observe, Warn
    <3> QED BY <1>0, <2>1, <3>1, <3>2 DEF FollowParts, HistoryTypes
  <2> QED BY <1>2, <2>2, <2>8, <2>9 DEF FollowParts
<1> QED BY <1>4, <1>5, <1>6 DEF Inspect

(* The open scene has been loaded again. *)
LEMMA EndLoadParts == ASSUME FollowInv, EndLoad PROVE FollowParts'
<1>0. OwnTypes /\ OwnParts /\ NameTypes /\ FollowParts BY DEF FollowInv, OwnInv
<1>1. /\ UNCHANGED <<disk, writes, inbox, fingerprints, receipt, checking, prepared, saving>>
      /\ loading # NoChange /\ loading' = NoChange
  BY DEF EndLoad, system
<1>2. OverwrittenInv' BY <1>0, <1>1 DEF OwnParts, SaveInv, OverwrittenInv, NoSave
<1>3. writes \in Nat /\ probes \in Seq(Known) /\ loading.file \in Files /\ loading.seen \in Nat
  BY <1>0, <1>1 DEF OwnTypes, Changes
<1>4. TurnInv' BY <1>0, <1>1 DEF FollowParts, TurnInv
<1>5. PICK c : c = Command("applied", loading.file, loading.seen) OBVIOUS
<1>6. c \in Known /\ Used(c.hash) /\ c.hash # 0
  <2>1. "applied" \in CommandKinds BY DEF CommandKinds
  <2>2. c.hash = loading.seen BY <1>5 DEF Command
  <2>3. Used(loading.seen) /\ loading.seen # 0 BY <1>0, <1>1 DEF FollowParts, NumberInv
  <2> QED BY <1>3, <1>5, <2>1, <2>2, <2>3, CommandKnown
<1>7. probes' = probes \/ Enqueue(c) BY <1>5 DEF EndLoad, Applied
<1>8. \A i \in 1 .. Len(probes') : Used(probes'[i].hash) /\ (IsProbe(probes'[i]) \/ probes'[i].hash # 0)
  <2>1. CASE probes' = probes BY <1>0, <2>1 DEF FollowParts, NumberInv
  <2>2. CASE Enqueue(c)
    <3> TAKE i \in 1 .. Len(probes')
    <3>1. (i \in 1 .. Len(probes) /\ probes'[i] = probes[i]) \/ probes'[i] = c
      BY <1>3, <1>6, <2>2, EnqueueAdds
    <3>3. CASE i \in 1 .. Len(probes) /\ probes'[i] = probes[i] BY <1>0, <3>3 DEF FollowParts, NumberInv
    <3>4. CASE probes'[i] = c BY <1>6, <3>4
    <3> QED BY <3>1, <3>3, <3>4
  <2> QED BY <1>7, <2>1, <2>2
<1>9. NumberInv' BY <1>0, <1>1, <1>3, <1>8 DEF FollowParts, NumberInv, Used, NoChange
<1>10. HistoryTypes'
  <2>1. served' = served \/ served' = [served EXCEPT ![loading.file] = loading.seen] BY DEF EndLoad
  <2>2. warned' = warned \/ warned' = [warned EXCEPT ![loading.file] = @ \cup {loading.seen}]
    BY DEF EndLoad, Warn
  <2> QED BY <1>0, <1>3, <2>1, <2>2 DEF FollowParts, HistoryTypes
<1> QED BY <1>2, <1>4, <1>9, <1>10 DEF FollowParts

(* A save is acknowledged: nothing that was read will be checked or prepared, and of its file only
   the note is left. *)
LEMMA AcceptLeaves ==
    ASSUME FollowInv, AcceptSave
    PROVE  /\ saving.file \in Files /\ saving.phase = "written" /\ saving' = NoSave
           /\ prepared' = NoChange /\ loading = NoChange /\ UNCHANGED loading
           /\ receipt'.phase = receipt.phase /\ receipt'.seen = receipt.seen /\ receipt'.ok = receipt.ok
           /\ ~CanCheck'
           /\ checking'.kind = checking.kind /\ checking'.file = checking.file
           /\ checking'.seen = checking.seen /\ checking'.ok = checking.ok
           /\ checking'.phase = checking.phase /\ (checking'.phase # "none" => checking'.stale)
           /\ checking.phase = "none" => checking' = NoCheck
           /\ \A i \in 1 .. Len(probes') :
                  \/ \E a \in 1 .. Len(probes) : probes'[i] = probes[a] /\ probes[a].file # saving.file
                  \/ /\ probes'[i].file = saving.file /\ probes'[i].hash = saving.content
                     /\ ~IsProbe(probes'[i])
           /\ 3 <= saving.content /\ Used(saving.content) /\ saving.content \in Nat
<1> USE AuthorAssumption DEF AuthorAssumption
<1> DEFINE f == saving.file
           t == WithRoom(Without(f))
<1>0. OwnTypes /\ OwnParts BY DEF FollowInv, OwnInv
<1>1. saving.phase = "written" /\ saving' = NoSave /\ prepared' = NoChange /\ UNCHANGED loading
  BY DEF AcceptSave, OutOfDate
<1>2. saving # NoSave BY <1>1 DEF NoSave
<1>3. /\ f \in Files /\ loading = NoChange /\ 3 <= saving.content /\ Used(saving.content)
      /\ saving.content \in Nat
  BY <1>0, <1>1, <1>2 DEF OwnTypes, OwnParts, SaveInv, Used
<1>4. /\ receipt'.phase = receipt.phase /\ receipt'.seen = receipt.seen /\ receipt'.ok = receipt.ok
      /\ ~CanCheck'
  <2>1. receipt \in Receipts BY <1>0 DEF OwnTypes
  <2>2. \/ receipt' = [receipt EXCEPT !.orphan = (receipt.phase # "none")]
        \/ receipt' = [receipt EXCEPT !.stale = (receipt.phase # "none")]
    BY DEF AcceptSave, OutOfDate
  <2> QED BY <2>1, <2>2 DEF Receipts, CanCheck
<1>5. /\ checking'.kind = checking.kind /\ checking'.file = checking.file
      /\ checking'.seen = checking.seen /\ checking'.ok = checking.ok
      /\ checking'.phase = checking.phase /\ (checking'.phase # "none" => checking'.stale)
  <2>1. checking \in Checks BY <1>0 DEF OwnTypes
  <2>2. checking' = [checking EXCEPT !.stale = (checking.phase # "none")] BY DEF AcceptSave, OutOfDate
  <2> QED BY <2>1, <2>2 DEF Checks
<1>6. checking.phase = "none" => checking' = NoCheck
  <2> SUFFICES ASSUME checking.phase = "none" PROVE checking' = NoCheck OBVIOUS
  <2>1. checking = NoCheck BY <1>0 DEF OwnTypes
  <2>2. checking' = [checking EXCEPT !.stale = FALSE] BY <2>1 DEF AcceptSave, OutOfDate
  <2> QED BY <2>1, <2>2 DEF NoCheck
<1>7. Others(t, f) BY <1>0, OthersLeft DEF OwnTypes
<1>8. PICK note : note = Command("saved", f, saving.content) OBVIOUS
<1>9. note.file = f /\ note.hash = saving.content /\ ~IsProbe(note) BY <1>8 DEF Command, IsProbe
<1>10. probes' = t \/ probes' = Append(t, note) BY <1>8 DEF AcceptSave
<1> HIDE DEF t
<1>11. t \in Seq(Known) BY <1>7 DEF Others
<1>12. \A i \in 1 .. Len(probes') : (i \in 1 .. Len(t) /\ probes'[i] = t[i]) \/ probes'[i] = note
  <2>1. CASE probes' = t BY <2>1
  <2>2. CASE probes' = Append(t, note) BY <1>11, <2>2
  <2> QED BY <1>10, <2>1, <2>2
<1>13. \A i \in 1 .. Len(probes') :
           \/ \E a \in 1 .. Len(probes) : probes'[i] = probes[a] /\ probes[a].file # f
           \/ probes'[i].file = f /\ probes'[i].hash = saving.content /\ ~IsProbe(probes'[i])
  BY <1>7, <1>9, <1>12 DEF Others
<1> QED BY <1>1, <1>3, <1>4, <1>5, <1>6, <1>13

LEMMA AcceptParts == ASSUME FollowInv, AcceptSave PROVE FollowParts'
<1>0. OwnTypes /\ FollowParts BY DEF FollowInv, OwnInv
<1>1. UNCHANGED <<disk, writes, fingerprints, inbox, warned>> /\ saving' = NoSave
  BY DEF AcceptSave, watchVars, system
<1>2. writes \in Nat BY <1>0 DEF OwnTypes
<1>3. NumberInv'
  <2>1. \A i \in 1 .. Len(probes') : Used(probes'[i].hash) /\ (IsProbe(probes'[i]) \/ probes'[i].hash # 0)
    <3> TAKE i \in 1 .. Len(probes')
    <3>1. CASE \E a \in 1 .. Len(probes) : probes'[i] = probes[a]
      BY <1>0, <3>1 DEF FollowParts, NumberInv
    <3>2. CASE probes'[i].hash = saving.content BY <3>2, AcceptLeaves
    <3> QED BY <3>1, <3>2, AcceptLeaves
  <2>2. UNCHANGED loading /\ prepared'.seen = 0 /\ prepared'.ok = FALSE
    BY AcceptLeaves DEF NoChange
  <2>3. /\ receipt'.seen = receipt.seen /\ receipt'.ok = receipt.ok /\ checking'.kind = checking.kind
        /\ checking'.seen = checking.seen /\ checking'.ok = checking.ok
    BY AcceptLeaves
  <2> QED BY <1>0, <1>1, <1>2, <2>1, <2>2, <2>3 DEF FollowParts, NumberInv, Used
<1>4. TurnInv' BY AcceptLeaves DEF TurnInv
<1>5. OverwrittenInv' BY <1>1 DEF OverwrittenInv, NoSave
<1>6. HistoryTypes'
  <2>1. served' = [served EXCEPT ![saving.file] = saving.content] BY DEF AcceptSave
  <2>2. saving.content \in Int BY AcceptLeaves
  <2> QED BY <1>0, <1>1, <2>1, <2>2 DEF FollowParts, HistoryTypes
<1> QED BY <1>3, <1>4, <1>5, <1>6 DEF FollowParts

(* A file is written: what is new has not been read. *)
LEMMA PutParts ==
    ASSUME FollowInv, NEW f \in Files, NEW c \in {0, NewContent}, Put(f, c),
           UNCHANGED <<inbox, fingerprints, probes, receipt, checking, prepared, loading, served, warned>>,
           \/ saving' = saving
           \/ saving.file = f /\ saving'.file = f /\ saving'.content = c
    PROVE  FollowParts'
<1>0. OwnTypes /\ FollowParts BY DEF FollowInv, OwnInv
<1>1. writes' = writes + 1 /\ disk' = [disk EXCEPT ![f] = c] /\ writes \in Nat /\ NewContent = 3 + writes
  BY <1>0 DEF Put, OwnTypes, NewContent
<1>2. disk'[f] = c /\ \A g \in Files : g # f => disk'[g] = disk[g] BY <1>0, <1>1 DEF OwnTypes
<1>3. \A n \in Int : Used(n) => Used(n)' BY <1>1 DEF Used
<1>4. NumberInv'
  <2>1. \A g \in Files : fingerprints[g] \in Int BY <1>0 DEF OwnTypes
  <2>2. \A i \in 1 .. Len(probes) : probes[i].hash \in Int
    <3>1. \A i \in 1 .. Len(probes) : probes[i] \in Known BY <1>0 DEF OwnTypes
    <3>2. \A d \in Known : d.hash \in Int BY DEF Known
    <3> QED BY <3>1, <3>2
  <2>3. receipt.seen \in Int /\ checking.seen \in Int /\ prepared.seen \in Int /\ loading.seen \in Int
    BY <1>0 DEF OwnTypes, Receipts, Checks, Changes
  <2>4. \A g \in Files : Used(fingerprints[g])'
    <3> TAKE g \in Files
    <3>1. fingerprints[g] \in Int /\ Used(fingerprints[g]) BY <1>0, <2>1 DEF FollowParts, NumberInv
    <3>2. fingerprints[g] < 3 + writes' BY <1>1, <3>1 DEF Used
    <3> QED BY <3>2 DEF Used
  <2>5. \A i \in 1 .. Len(probes) : Used(probes[i].hash)'
    BY <1>0, <1>1, <2>2 DEF FollowParts, NumberInv, Used
  <2>6. Used(receipt.seen)' /\ Used(checking.seen)' /\ Used(prepared.seen)' /\ Used(loading.seen)'
    BY <1>0, <1>1, <2>3 DEF FollowParts, NumberInv, Used
  <2> QED BY <1>0, <2>4, <2>5, <2>6 DEF FollowParts, NumberInv
<1>5. TurnInv' BY <1>0 DEF FollowParts, TurnInv
<1>6. OverwrittenInv'
  <2> SUFFICES ASSUME saving'.phase = "written", saving'.content # disk'[saving'.file]
               PROVE  /\ fingerprints[saving'.file] # disk'[saving'.file]
                      /\ ~(/\ checking.phase = "queued" /\ checking.file = saving'.file /\ checking.ok
                           /\ checking.seen = disk'[saving'.file])
    BY DEF OverwrittenInv
  <2>1. saving' = saving BY <1>2
  <2>2. saving.file \in Files BY <1>0, <2>1 DEF OwnTypes, NoSave
  <2>3. CASE saving.file = f
    <3>1. \A n \in Int : Used(n) /\ n # 0 => n # c BY <1>1 DEF Used
    <3>2. /\ fingerprints[f] \in Int /\ Used(fingerprints[f]) /\ fingerprints[f] # 0
          /\ checking.seen \in Int /\ Used(checking.seen) /\ (checking.ok => checking.seen # 0)
      BY <1>0 DEF FollowParts, NumberInv, OwnTypes, Checks
    <3> QED BY <1>2, <2>1, <2>3, <3>1, <3>2
  <2>4. CASE saving.file # f BY <1>0, <1>2, <2>1, <2>2, <2>4 DEF FollowParts, OverwrittenInv
  <2> QED BY <2>3, <2>4
<1>7. HistoryTypes' BY <1>0 DEF FollowParts, HistoryTypes
<1> QED BY <1>4, <1>5, <1>6, <1>7 DEF FollowParts

LEMMA PumpParts == ASSUME FollowInv, Pump PROVE FollowParts'
<1>0. OwnTypes /\ NameTypes /\ FollowParts BY DEF FollowInv, OwnInv
<1>1. FrameRuns /\ UNCHANGED watchVars /\ UNCHANGED <<loading, saving>> /\ UNCHANGED <<disk, writes>>
  BY DEF Pump, watchVars, system
<1>2. CASE TakeBatch /\ UNCHANGED records BY <1>2, BatchParts
<1>3. Used(0) BY <1>0 DEF OwnTypes, Used
<1>4. CASE /\ DropRead
           /\ UNCHANGED <<fingerprints, probes, scan, listed, baseline, rescans, checking, prepared,
                          inbox, records>>
  <2>1. receipt' = NoReceipt /\ UNCHANGED <<served, warned>> BY <1>4 DEF DropRead, records
  <2>2. Used(receipt'.seen) /\ ~receipt'.ok BY <1>1, <1>3, <2>1 DEF NoReceipt, Used
  <2> QED BY <1>1, <1>4, <2>1, <2>2, ReceiptParts
<1>5. CASE Scan BY <1>1, <1>5, ScanParts
<1>6. CASE /\ prepared = NoChange /\ (AskRead \/ SubmitCheck)
           /\ UNCHANGED <<fingerprints, scan, listed, baseline, rescans, prepared, inbox, records>>
  <2>1. CASE AskRead
    <3>1. receipt' = [NoReceipt EXCEPT !.phase = "asked"] /\ UNCHANGED <<probes, checking>>
      BY <2>1 DEF AskRead
    <3>2. Used(receipt'.seen) /\ ~receipt'.ok BY <1>1, <1>3, <3>1 DEF NoReceipt, Used
    <3>3. UNCHANGED <<served, warned>> BY <1>6 DEF records
    <3> QED BY <1>1, <1>6, <3>1, <3>2, <3>3, ReceiptParts
  <2>2. CASE SubmitCheck BY <1>1, <1>6, <2>2, SubmitParts
  <2> QED BY <1>6, <2>1, <2>2
<1> QED BY <1>2, <1>4, <1>5, <1>6 DEF Pump

LEMMA AnswerParts == ASSUME FollowInv, FileAnswers PROVE FollowParts'
<1>0. OwnTypes /\ NameTypes /\ FollowParts BY DEF FollowInv, OwnInv
<1>1. UNCHANGED <<disk, writes, fingerprints, probes, checking, prepared, loading, saving, served, warned, inbox>>
  BY DEF FileAnswers, system, editing, records
<1>2. CASE AnswerRead
  <2>1. receipt \in Receipts BY <1>0 DEF OwnTypes
  <2>2. probes # <<>> => Head(probes).file \in Files
    <3>1. probes # <<>> => Head(probes) \in Known BY <1>0 DEF OwnTypes
    <3> QED BY <3>1 DEF Known
  <2>3. PICK there : there = IF probes = <<>> THEN 0 ELSE disk[Head(probes).file] OBVIOUS
  <2>4. Used(there)
    <3>1. \A g \in Files : Used(disk[g]) BY DEF FollowInv, OwnInv, OwnParts, SaveInv, Used
    <3>2. Used(0) BY <1>0 DEF OwnTypes, Used
    <3> QED BY <2>2, <2>3, <3>1, <3>2
  <2>5. \/ receipt' = [receipt EXCEPT !.phase = "ready", !.seen = there, !.ok = (there # 0)]
        \/ there # 0 /\ receipt' = [receipt EXCEPT !.phase = "ready", !.seen = there]
    BY <1>2, <2>3 DEF AnswerRead
  <2>6. receipt'.seen = there /\ (receipt'.ok => there # 0) BY <2>1, <2>5 DEF Receipts
  <2> QED BY <1>1, <2>4, <2>6, ReceiptParts
<1>3. CASE AnswerList
  <2>1. UNCHANGED receipt BY <1>3 DEF AnswerList
  <2>2. HistoryTypes' BY <1>0, <1>1 DEF FollowParts, HistoryTypes
  <2> QED BY <1>0, <1>1, <2>1, <2>2, PartsAside
<1> QED BY <1>2, <1>3 DEF FileAnswers

LEMMA TakeEventsParts == ASSUME FollowInv, TakeEvents PROVE FollowParts'
<1>0. OwnTypes /\ NameTypes /\ FollowParts BY DEF FollowInv, OwnInv
<1>1. UNCHANGED <<disk, writes, fingerprints, probes, receipt, checking, prepared, loading, saving, served, warned>>
  BY DEF TakeEvents, system, records
<1>2. Range(inbox) \subseteq Range(inbox')
  <2>1. CASE watched # <<>> /\ inbox' = Append(inbox, Head(watched))
    <3>1. inbox \in Seq(Some) /\ Head(watched) \in Some BY <1>0, <2>1 DEF NameTypes
    <3>2. Range(Append(inbox, Head(watched))) = Range(inbox) \cup {Head(watched)}
      BY <3>1, RangeAppend
    <3> QED BY <2>1, <3>2
  <2>2. CASE UNCHANGED inbox BY <2>2
  <2> QED BY <2>1, <2>2 DEF TakeEvents
<1>3. HistoryTypes' BY <1>0, <1>1 DEF FollowParts, HistoryTypes
<1> QED BY <1>0, <1>1, <1>2, <1>3, PartsAside

LEMMA UserParts ==
    ASSUME FollowInv, Edit \/ AuthorAsks \/ FailSave \/ LeaveAuthor \/ \E f \in Files : BeginSave(f)
    PROVE  FollowParts'
<1>0. FollowParts BY DEF FollowInv
<1>1. UNCHANGED <<disk, writes, fingerprints, receipt, checking, prepared, loading, served, warned, inbox>>
  <2>1. CASE Edit BY <2>1 DEF Edit, system, service, records
  <2>2. CASE AuthorAsks
    <3>1. UNCHANGED <<disk, writes>> BY <2>2 DEF AuthorAsks, system, Restart
    <3> QED BY <2>2, <3>1 DEF AuthorAsks, editing, records
  <2>3. CASE FailSave BY <2>3 DEF FailSave, watchVars, system, service, records
  <2>4. CASE LeaveAuthor BY <2>4 DEF LeaveAuthor, system, editing, records
  <2>5. ASSUME NEW f \in Files, BeginSave(f)
        PROVE  UNCHANGED <<disk, writes, fingerprints, receipt, checking, prepared, loading, served, warned, inbox>>
    BY <2>5 DEF BeginSave, watchVars, system, service, records
  <2> QED BY <2>1, <2>2, <2>3, <2>4, <2>5
<1>2. HistoryTypes' BY <1>0, <1>1 DEF FollowParts, HistoryTypes
<1>3. CASE LeaveAuthor
  <2>1. probes' = <<>> /\ UNCHANGED saving BY <1>3 DEF LeaveAuthor, editing
  <2>2. NumberInv' BY <1>0, <1>1, <2>1 DEF FollowParts, NumberInv, Used
  <2>3. TurnInv' BY <1>0, <1>1 DEF FollowParts, TurnInv
  <2>4. OverwrittenInv' BY <1>0, <1>1, <2>1 DEF FollowParts, OverwrittenInv
  <2> QED BY <1>2, <2>2, <2>3, <2>4 DEF FollowParts
<1>4. CASE Edit \/ AuthorAsks \/ FailSave \/ \E f \in Files : BeginSave(f)
  <2>1. UNCHANGED probes BY <1>4 DEF Edit, AuthorAsks, FailSave, BeginSave, service
  <2>2. saving' = saving \/ saving'.phase # "written"
    <3>1. CASE Edit \/ AuthorAsks BY <3>1 DEF Edit, AuthorAsks, editing
    <3>2. CASE FailSave BY <3>2 DEF FailSave, NoSave
    <3>3. ASSUME NEW f \in Files, BeginSave(f) PROVE saving'.phase # "written"
      <4>1. saving' = [NoSave EXCEPT !.file = f, !.phase = "writing"] BY <3>3 DEF BeginSave
      <4> QED BY <4>1 DEF NoSave
    <3> QED BY <1>4, <3>1, <3>2, <3>3
  <2> QED BY <1>0, <1>1, <1>2, <2>1, <2>2, PartsAside
<1> QED BY <1>3, <1>4

LEMMA WriteParts ==
    ASSUME FollowInv,
           WriteSave \/ ((WatcherThread \/ \E f \in Files : Change(f)) /\ UNCHANGED authorVars)
    PROVE  FollowParts'
<1>0. OwnTypes /\ FollowParts BY DEF FollowInv, OwnInv
<1>1. UNCHANGED <<fingerprints, probes, receipt, checking, prepared, loading, served, warned, inbox>>
  BY DEF WriteSave, service, records, authorVars, editing
<1>2. HistoryTypes' BY <1>0, <1>1 DEF FollowParts, HistoryTypes
<1>3. CASE WriteSave
  <2>1. saving.file \in Files /\ saving = [file |-> saving.file, content |-> saving.content, phase |-> saving.phase]
    BY <1>0, <1>3 DEF WriteSave, OwnTypes, NoSave
  <2>2. CASE /\ Put(saving.file, NewContent)
             /\ saving' = [saving EXCEPT !.phase = "written", !.content = NewContent]
    <3>1. saving'.file = saving.file /\ saving'.content = NewContent BY <2>1, <2>2
    <3>2. NewContent \in {0, NewContent} OBVIOUS
    <3> HIDE DEF NewContent
    <3> QED BY <1>1, <2>1, <2>2, <3>1, <3>2, PutParts
  <2>3. CASE saving' = [saving EXCEPT !.phase = "failed"] /\ UNCHANGED system
    <3>1. saving'.phase # "written" BY <2>1, <2>3
    <3>2. UNCHANGED <<disk, writes>> BY <2>3 DEF system
    <3> QED BY <1>0, <1>1, <1>2, <3>1, <3>2, PartsAside
  <2> QED BY <1>3, <2>2, <2>3 DEF WriteSave
<1>4. ASSUME NEW f \in Files, Change(f), UNCHANGED authorVars PROVE FollowParts'
  <2>1. PICK c \in {0, NewContent} : Put(f, c) BY <1>4 DEF Change
  <2>2. saving' = saving BY <1>4 DEF authorVars, editing
  <2> QED BY <1>1, <2>1, <2>2, PutParts
<1>5. CASE WatcherThread /\ UNCHANGED authorVars
  <2>1. UNCHANGED <<disk, writes>> BY <1>5 DEF WatcherThread, WatchBreaks, Notice
  <2>2. saving' = saving BY <1>5 DEF authorVars, editing
  <2> QED BY <1>0, <1>1, <1>2, <2>1, <2>2, PartsAside
<1> QED BY <1>3, <1>4, <1>5

LEMMA PartsHold == ASSUME FollowInv, AuthorSteps PROVE FollowParts'
BY PumpParts, TakeEventsParts, InspectParts, EndLoadParts, AcceptParts, TaskParts, AnswerParts, UserParts,
   WriteParts
   DEF AuthorSteps, AuthorFrame, AuthorUser

(* While a reading waits to be checked, nothing else that was read is on its way. *)
LEMMA OneReading ==
    ASSUME OwnInv, ~leaving, CanCheck
    PROVE  /\ probes # <<>> /\ IsProbe(Head(probes)) /\ checking = NoCheck /\ prepared = NoChange
           /\ loading = NoChange
BY DEF OwnInv, OwnParts, ReadInv, LiveRead, CanCheck

LEMMA NothingRead ==
    ASSUME NEW f \in Files, ~CanCheck, checking = NoCheck, prepared = NoChange, loading = NoChange, NEW c
    PROVE  ~ReadAs(f, c)
BY WatcherAssumption DEF WatcherAssumption, ReadAs, NoCheck, NoChange

(* What the service works on stays; what the watcher and the frame have of f is passed on. *)
LEMMA AsideTracks ==
    ASSUME OwnInv, NEW f \in Files, Tracked(f), disk'[f] = disk[f],
           UNCHANGED <<fingerprints, probes, checking, prepared, loading, scan, listed>>,
           UNCHANGED served, warned[f] \subseteq warned'[f],
           receipt' = receipt \/ (~CanCheck /\ ~CanCheck'),
           Watches' => Watches \/ Coming(f)', Watches' /\ Coming(f) => Coming(f)'
    PROVE  Tracked(f)'
<1>1. CanCheck' <=> CanCheck BY DEF CanCheck
<1>2. Probing(f)' <=> Probing(f) BY <1>1 DEF Probing
<1>3. ToList(f)' <=> ToList(f) BY DEF ToList
<1>4. Watches' /\ Behind(f) => Behind(f)' BY <1>2, <1>3 DEF Behind
<1>5. \A c \in Nat : SetTo(f, c)' <=> SetTo(f, c) BY DEF SetTo, Sets
<1>6. \A c : ReadAs(f, c)' <=> ReadAs(f, c)
  <2> TAKE c
  <2>1. CASE receipt' = receipt BY <1>1, <2>1 DEF ReadAs
  <2>2. CASE ~CanCheck /\ ~CanCheck' BY <2>2 DEF ReadAs
  <2> QED BY <2>1, <2>2
<1>7. Followed(f) => Followed(f)' BY DEF Followed
<1>8. Steady(f) BY <1>4, <1>5, <1>6, <1>7 DEF Steady, Behind
<1> QED BY <1>8, SteadyTracks

(* A batch is taken: its change is prepared, or nothing has come of it. *)
LEMMA BatchTracks ==
    ASSUME FollowInv, TakeBatch, UNCHANGED records, UNCHANGED watchVars, UNCHANGED loading, ~leaving,
           NEW f \in Files, Tracked(f)
    PROVE  Tracked(f)'
<1>0. OwnInv /\ OwnTypes /\ NameTypes /\ FollowParts BY DEF FollowInv, OwnInv
<1>1. /\ checking.phase = "done" /\ checking' = NoCheck /\ checking # NoCheck
      /\ UNCHANGED <<disk, fingerprints, probes, receipt, scan, listed, raised, watched, overrun, served,
                     warned, watching, watchFailed>>
      /\ rescans' = (rescans \/ checking.stale)
  BY DEF TakeBatch, NoCheck, watchVars, system, watcher, records
<1>2. prepared = NoChange /\ loading = NoChange /\ f # NoFile
  BY <1>0, <1>1, WatcherAssumption DEF FollowParts, TurnInv, WatcherAssumption
<1>3. ~CanCheck /\ ~CanCheck'
  <2>1. ~CanCheck BY <1>0, <1>1, OneReading
  <2> QED BY <1>1, <2>1 DEF CanCheck
<1>4. \/ /\ checking.kind = "changed" /\ ~checking.stale
         /\ prepared' = [file |-> checking.file, seen |-> checking.seen, ok |-> checking.ok]
         /\ inbox' = Append(inbox, checking.file)
      \/ ~(checking.kind = "changed" /\ ~checking.stale) /\ UNCHANGED <<prepared, inbox>>
  BY DEF TakeBatch
<1>5. ASSUME NEW c PROVE ReadAs(f, c)' <=> ReadAs(f, c)
  <2>1. ReadAs(f, c) <=> /\ checking.kind = "changed" /\ ~checking.stale
                         /\ checking.file = f /\ checking.seen = c
    BY <1>1, <1>2, <1>3 DEF ReadAs, NoChange
  <2>2. ReadAs(f, c)' <=> prepared'.file = f /\ prepared'.seen = c
    BY <1>1, <1>2, <1>3 DEF ReadAs, NoChange, NoCheck
  <2> QED BY <1>2, <1>4, <2>1, <2>2 DEF NoChange
<1>6. Announced(f) => Announced(f)'
  <2> SUFFICES ASSUME NEW i \in 1 .. Len(inbox), inbox[i] = f PROVE Announced(f)' BY DEF Announced
  <2>1. inbox \in Seq(Some) BY <1>0 DEF NameTypes
  <2>2. CASE UNCHANGED <<prepared, inbox>>
    <3>1. prepared'.file # f BY <1>2, <2>2 DEF NoChange
    <3> QED BY <2>2, <3>1 DEF Announced
  <2>3. CASE /\ prepared' = [file |-> checking.file, seen |-> checking.seen, ok |-> checking.ok]
             /\ inbox' = Append(inbox, checking.file)
    <3>1. /\ i \in 1 .. Len(inbox') /\ inbox'[i] = f /\ Len(inbox) + 1 \in 1 .. Len(inbox')
          /\ inbox'[Len(inbox) + 1] = checking.file /\ Len(inbox) + 1 # i
      BY <2>1, <2>3
    <3>2. prepared'.file = checking.file BY <2>3
    <3> QED BY <3>1, <3>2 DEF Announced
  <2> QED BY <1>4, <2>2, <2>3
<1>7. Behind(f) => Behind(f)'
  <2>1. checking.stale \/ rescans => rescans' BY <1>1
  <2>2. Probing(f) => Probing(f)' BY <1>1, <1>3 DEF Probing
  <2>3. ToList(f) => ToList(f)' BY <1>1 DEF ToList
  <2> QED BY <1>1, <1>6, <2>1, <2>2, <2>3 DEF Behind, Coming
<1>8. \A c \in Nat : SetTo(f, c)' => SetTo(f, c) BY <1>1 DEF SetTo, Sets, NoCheck
<1>9. (Followed(f) => Followed(f)') /\ (Watches' => Watches) BY <1>1 DEF Followed, Watches
<1>10. Steady(f) BY <1>1, <1>5, <1>7, <1>8, <1>9 DEF Steady
<1> QED BY <1>0, <1>10, SteadyTracks

(* The first command goes to the task. *)
LEMMA SubmitTracks ==
    ASSUME FollowInv, SubmitCheck, FrameRuns, checking = NoCheck, prepared = NoChange, ~leaving,
           UNCHANGED <<watchVars, fingerprints, scan, listed, rescans, prepared, inbox, loading, records>>,
           NEW f \in Files, Tracked(f)
    PROVE  Tracked(f)'
<1>0. OwnInv /\ OwnTypes /\ NameTypes /\ FollowParts BY DEF FollowInv, OwnInv
<1>1. /\ probes # <<>> /\ probes' = Tail(probes) /\ probes \in Seq(Known) /\ loading = NoChange /\ f # NoFile
      /\ UNCHANGED <<disk, raised, watched, overrun, served, warned, watching, watchFailed>>
  BY <1>0, WatcherAssumption
     DEF SubmitCheck, OwnTypes, FrameRuns, watchVars, system, watcher, records, WatcherAssumption
<1>2. /\ Head(probes) = probes[1] /\ 1 \in 1 .. Len(probes)
      /\ \A i \in 1 .. Len(probes') : i + 1 \in 1 .. Len(probes) /\ probes'[i] = probes[i + 1]
      /\ \A i \in 1 .. Len(probes) : i # 1 => i - 1 \in 1 .. Len(probes') /\ probes'[i - 1] = probes[i]
  BY <1>1
<1>3. PICK seen, ok : /\ \/ /\ IsProbe(Head(probes)) /\ CanCheck /\ seen = receipt.seen
                            /\ receipt' = NoReceipt
                         \/ /\ ~IsProbe(Head(probes)) /\ seen = Head(probes).hash /\ receipt' = receipt
                      /\ Check(Head(probes), seen, ok)
  BY DEF SubmitCheck, CanCheck
<1>4. /\ checking'.kind = Head(probes).kind /\ checking'.file = Head(probes).file /\ checking'.seen = seen
      /\ checking'.phase = "queued" /\ ~checking'.stale
  BY <1>3 DEF Check
<1>5. ~CanCheck'
  <2>1. CASE receipt' = NoReceipt BY <2>1 DEF CanCheck, NoReceipt
  <2>2. CASE ~IsProbe(Head(probes)) /\ receipt' = receipt
    <3>1. ~CanCheck BY <1>0, <2>2, OneReading
    <3> QED BY <2>2, <3>1 DEF CanCheck
  <2> QED BY <1>3, <2>1, <2>2
<1>6. IsProbe(Head(probes)) <=> CanCheck BY <1>0, <1>3, OneReading
<1>7. IsProbe(checking') <=> IsProbe(Head(probes)) BY <1>4 DEF IsProbe
<1>8. ASSUME NEW c PROVE ReadAs(f, c)' <=> ReadAs(f, c)
  <2>1. ReadAs(f, c) <=> CanCheck /\ Head(probes).file = f /\ receipt.seen = c
    BY <1>1 DEF ReadAs, NoCheck, NoChange
  <2>2. ReadAs(f, c)' <=> IsProbe(checking') /\ checking'.file = f /\ checking'.seen = c
    BY <1>1, <1>4, <1>5 DEF ReadAs, NoChange
  <2> QED BY <1>3, <1>4, <1>6, <1>7, <2>1, <2>2
<1>9. ASSUME NEW c \in Nat, SetTo(f, c)' PROVE SetTo(f, c)
  <2>1. CASE \E i \in 1 .. Len(probes') : ~IsProbe(probes'[i]) /\ probes'[i].file = f /\ probes'[i].hash = c
    BY <1>2, <2>1 DEF SetTo
  <2>2. CASE Sets(f)' /\ checking'.seen = c
    <3>1. ~IsProbe(Head(probes)) BY <1>4, <2>2 DEF Sets, IsProbe
    <3>2. Head(probes).file = f /\ Head(probes).hash = c BY <1>3, <1>4, <2>2, <3>1 DEF Sets
    <3> QED BY <1>2, <3>1, <3>2 DEF SetTo
  <2> QED BY <1>9, <2>1, <2>2 DEF SetTo
<1>10. Behind(f) => Behind(f)'
  <2>1. Coming(f) => Coming(f)' BY <1>1 DEF Coming, Announced
  <2>2. Probing(f) => Probing(f)'
    <3> SUFFICES ASSUME NEW i \in 1 .. Len(probes), IsProbe(probes[i]), probes[i].file = f, ~(i = 1 /\ CanCheck)
                 PROVE  Probing(f)'
      BY DEF Probing
    <3>1. i # 1 BY <1>2, <1>6
    <3> QED BY <1>2, <1>5, <3>1 DEF Probing
  <2>3. ToList(f) => ToList(f)' BY <1>1 DEF ToList
  <2>4. ~checking.stale BY DEF NoCheck
  <2> QED BY <2>1, <2>2, <2>3, <2>4 DEF Behind
<1>11. (Followed(f) => Followed(f)') /\ (Watches' => Watches) BY <1>1 DEF Followed, Watches
<1>12. Steady(f) BY <1>1, <1>8, <1>9, <1>10, <1>11 DEF Steady
<1> QED BY <1>0, <1>12, SteadyTracks

(* Nothing was read and no fingerprint is set: f is tracked as soon as it is behind or known. *)
LEMMA FreshTracks ==
    ASSUME OwnInv, NEW f \in Files, Tracked(f), disk'[f] = disk[f], UNCHANGED fingerprints,
           \A c \in Nat : ~ReadAs(f, c)', \A c \in Nat : ~SetTo(f, c)',
           Followed(f) => Followed(f)',
           Watches' => Watches,
           Watches' => Followed(f)' \/ Behind(f)' \/ (disk[f] = 0 /\ fingerprints[f] = Unknown)
    PROVE  Tracked(f)'
<1>1. disk[f] \in Nat BY DEF OwnInv, OwnTypes
<1>2. (fingerprints[f] = disk[f])' \/ SetTo(f, disk[f])' => Followed(f)' BY <1>1 DEF Tracked
<1>3. Watches' => Followed(f)' \/ Behind(f)' \/ ReadAs(f, disk[f])' \/ Nowhere(f)' BY DEF Nowhere
<1> QED BY <1>2, <1>3 DEF Tracked

(* The scan: each file is asked for that is known, and then that the listing found. *)
LEMMA ScanTracks ==
    ASSUME FollowInv, Scan, FrameRuns, checking = NoCheck, prepared = NoChange, ~leaving,
           UNCHANGED <<watchVars, loading>>, NEW f \in Files, Tracked(f)
    PROVE  Tracked(f)'
<1>0. OwnInv /\ OwnTypes /\ NameTypes /\ FollowParts BY DEF FollowInv, OwnInv
<1>1. /\ probes = <<>> /\ loading = NoChange /\ disk \in [Files -> Nat]
      /\ UNCHANGED <<disk, raised, watched, overrun, watching, watchFailed, fingerprints, receipt, checking,
                     prepared, loading, inbox, served>>
      /\ Watches' <=> Watches
  BY <1>0 DEF Scan, FrameRuns, watchVars, system, watcher, OwnTypes, Watches
<1>2. ~CanCheck /\ ~CanCheck'
  <2>1. ~CanCheck BY <1>0, <1>1, OneReading
  <2> QED BY <1>1, <2>1 DEF CanCheck
<1>3. ASSUME NEW c \in Nat PROVE ~ReadAs(f, c) /\ ~ReadAs(f, c)' /\ ~SetTo(f, c)
  <2>1. ~ReadAs(f, c) BY <1>1, <1>2, NothingRead
  <2>2. ~ReadAs(f, c)' BY <1>1, <1>2, <2>1 DEF ReadAs
  <2>3. ~SetTo(f, c) BY <1>1 DEF SetTo, Sets, NoCheck
  <2> QED BY <2>1, <2>2, <2>3
<1>4. UNCHANGED probes \/ \E S \in SUBSET Files : probes' = Probes(S)
  <2>1. {g \in Files : fingerprints[g] # Unknown} \in SUBSET Files /\ listed \in SUBSET Files
    BY <1>0 DEF NameTypes
  <2> QED BY <2>1 DEF Scan
<1>5. \A i \in 1 .. Len(probes') : IsProbe(probes'[i])
  <2>1. CASE UNCHANGED probes BY <1>1, <2>1
  <2>2. ASSUME NEW S \in SUBSET Files, probes' = Probes(S)
        PROVE  \A i \in 1 .. Len(probes') : IsProbe(probes'[i])
    BY <2>2, ProbesOf
  <2> QED BY <1>4, <2>1, <2>2
<1>6. \A c \in Nat : ~SetTo(f, c)' BY <1>1, <1>5 DEF SetTo, Sets, NoCheck
<1>7. ASSUME NEW S \in SUBSET Files, probes' = Probes(S), f \in S PROVE Probing(f)'
  <2>1. PICK i \in 1 .. Len(Probes(S)) : Probes(S)[i].file = f BY <1>7, ProbesOf
  <2> QED BY <1>2, <1>5, <1>7, <2>1 DEF Probing
<1>8. Followed(f) => Followed(f)' BY <1>1 DEF Followed, Scan
<1>9. Coming(f) => rescans \/ Coming(f)' BY <1>1 DEF Coming, Announced
<1>10. ~checking.stale /\ ~Probing(f) BY <1>1 DEF NoCheck, Probing
<1>11. Watches => Followed(f)' \/ Behind(f)' \/ (disk[f] = 0 /\ fingerprints[f] = Unknown)
  <2> SUFFICES ASSUME Watches, ~Followed(f)', ~(disk[f] = 0 /\ fingerprints[f] = Unknown)
               PROVE  Behind(f)'
    OBVIOUS
  <2>1. Coming(f) \/ ToList(f)
    <3>1. disk[f] \in Nat BY <1>1
    <3> QED BY <1>3, <1>8, <1>10, <3>1 DEF Tracked, Behind, Nowhere
  <2>2. CASE /\ scan = "none" /\ scan' = "listing" /\ listed' = {g \in Files : fingerprints[g] # Unknown}
             /\ probes' = Probes(listed')
    <3>1. CASE f \in listed'
      <4>1. Probing(f)' BY <1>7, <2>2, <3>1
      <4> QED BY <4>1 DEF Behind
    <3>2. CASE f \notin listed'
      <4>1. fingerprints[f] = Unknown BY <2>2, <3>2
      <4>2. disk'[f] # 0 BY <1>1, <4>1
      <4> QED BY <2>2, <3>2, <4>2 DEF Behind, ToList
    <3> QED BY <3>1, <3>2
  <2>3. CASE scan = "listing" /\ scan' = "asked" /\ UNCHANGED <<listed, rescans>>
    <3>1. Coming(f)' \/ ToList(f)' BY <1>1, <1>9, <2>1, <2>3 DEF Coming, ToList
    <3> QED BY <3>1 DEF Behind
  <2>4. CASE scan = "listed" /\ probes' = Probes(listed) /\ UNCHANGED rescans
    <3>1. CASE Coming(f) BY <1>9, <2>4, <3>1 DEF Behind, Coming
    <3>2. CASE f \in listed
      <4>1. Probing(f)' BY <1>0, <1>7, <2>4, <3>2 DEF NameTypes
      <4> QED BY <4>1 DEF Behind
    <3> QED BY <2>1, <2>4, <3>1, <3>2 DEF ToList
  <2>5. CASE scan = "over" /\ UNCHANGED rescans
    <3>1. Coming(f) BY <2>1, <2>5 DEF ToList
    <3> QED BY <1>9, <2>5, <3>1 DEF Behind, Coming
  <2>6. CASE scan = "failed" /\ warned' = [g \in Files |-> warned[g] \cup {disk[g]}]
    <3>1. disk'[f] \in warned'[f] BY <1>1, <2>6
    <3> QED BY <3>1 DEF Followed
  <2> QED BY <2>2, <2>3, <2>4, <2>5, <2>6 DEF Scan
<1> QED BY <1>0, <1>1, <1>3, <1>6, <1>8, <1>11, FreshTracks

LEMMA PumpTracks ==
    ASSUME FollowInv, Pump, ~leaving, NEW f \in Files, Tracked(f) PROVE Tracked(f)'
<1>0. OwnInv /\ OwnTypes BY DEF FollowInv, OwnInv
<1>1. FrameRuns /\ UNCHANGED <<watchVars, loading>> /\ UNCHANGED <<disk, raised, watched, overrun, watching, watchFailed>>
  BY DEF Pump, watchVars, system, watcher
<1>2. CASE TakeBatch /\ UNCHANGED records BY <1>1, <1>2, BatchTracks
<1>3. CASE Scan /\ checking = NoCheck /\ prepared = NoChange BY <1>1, <1>3, ScanTracks
<1>4. CASE /\ checking = NoCheck /\ prepared = NoChange /\ SubmitCheck
           /\ UNCHANGED <<fingerprints, scan, listed, baseline, rescans, prepared, inbox, records>>
  BY <1>1, <1>4, SubmitTracks
<1>5. CASE /\ DropRead \/ AskRead
           /\ UNCHANGED <<fingerprints, probes, scan, listed, rescans, checking, prepared, inbox, records>>
  <2>1. receipt' = NoReceipt \/ receipt' = [NoReceipt EXCEPT !.phase = "asked"]
    BY <1>5 DEF DropRead, AskRead
  <2>2. ~CanCheck /\ ~CanCheck'
    <3>1. ~CanCheck BY <1>5 DEF DropRead, AskRead, CanCheck
    <3>2. receipt'.phase # "ready" BY <2>1 DEF NoReceipt
    <3> QED BY <3>1, <3>2 DEF CanCheck
  <2>3. Coming(f) => Coming(f)' BY <1>1, <1>5 DEF Coming, Announced
  <2>4. UNCHANGED <<served, warned>> BY <1>5 DEF records
  <2>5. Watches' => Watches BY <1>1 DEF Watches
  <2> QED BY <1>0, <1>1, <1>5, <2>2, <2>3, <2>4, <2>5, AsideTracks
<1>6. CASE AskRead /\ UNCHANGED <<fingerprints, scan, listed, baseline, rescans, prepared, inbox, records>>
  BY <1>5, <1>6 DEF AskRead
<1> QED BY <1>2, <1>3, <1>4, <1>5, <1>6 DEF Pump

(* The file service answers. *)
LEMMA AnswerTracks ==
    ASSUME FollowInv, FileAnswers, ~leaving, NEW f \in Files, Tracked(f) PROVE Tracked(f)'
<1>0. OwnInv /\ OwnTypes /\ OwnParts /\ NameTypes BY DEF FollowInv, OwnInv
<1>1. /\ UNCHANGED <<disk, raised, watched, overrun, watching, watchFailed, fingerprints, probes, rescans,
                     checking, prepared, inbox, loading, served, warned>>
      /\ Watches' <=> Watches
  BY DEF FileAnswers, system, watcher, editing, records, Watches
<1>2. Coming(f)' <=> Coming(f) BY <1>1 DEF Coming, Announced
<1>3. \A c \in Nat : SetTo(f, c)' <=> SetTo(f, c) BY <1>1 DEF SetTo, Sets
<1>4. Followed(f)' <=> Followed(f) BY <1>1 DEF Followed
<1>5. disk[f] \in Nat BY <1>0 DEF OwnTypes
<1>6. CASE AnswerRead
  <2>1. receipt.phase = "asked" /\ UNCHANGED <<scan, listed>> /\ receipt \in Receipts
    BY <1>0, <1>6 DEF AnswerRead, OwnTypes
  <2>2. ~CanCheck BY <2>1 DEF CanCheck
  <2>3. CASE ~CanCheck' BY <1>0, <1>1, <1>2, <2>1, <2>2, <2>3, AsideTracks
  <2>4. CASE CanCheck'
    <3>1. PICK there : /\ there = IF probes = <<>> THEN 0 ELSE disk[Head(probes).file]
                       /\ \/ receipt' = [receipt EXCEPT !.phase = "ready", !.seen = there, !.ok = (there # 0)]
                          \/ receipt' = [receipt EXCEPT !.phase = "ready", !.seen = there]
      BY <1>6 DEF AnswerRead
    <3>2. receipt'.seen = there /\ receipt'.stale = receipt.stale /\ receipt'.orphan = receipt.orphan
      BY <2>1, <3>1 DEF Receipts
    <3>3. LiveRead BY <2>1, <2>4, <3>2 DEF LiveRead, CanCheck
    <3>4. /\ probes # <<>> /\ IsProbe(Head(probes)) /\ checking = NoCheck /\ prepared = NoChange
          /\ loading = NoChange
      BY <1>0, <3>3 DEF OwnParts, ReadInv
    <3>5. f # NoFile BY WatcherAssumption DEF WatcherAssumption
    <3>6. \A c \in Nat : ReadAs(f, c)' <=> Head(probes).file = f /\ c = disk[f]
      BY <1>1, <2>4, <3>1, <3>2, <3>4, <3>5 DEF ReadAs, NoCheck, NoChange
    <3>7. ~ReadAs(f, disk[f]) BY <2>2, <3>4, NothingRead
    <3>8. Behind(f) => Behind(f)' \/ ReadAs(f, disk[f])'
      <4>1. CASE Probing(f)
        <5>1. PICK i \in 1 .. Len(probes) : IsProbe(probes[i]) /\ probes[i].file = f BY <4>1 DEF Probing
        <5>2. CASE i # 1
          <6>1. Probing(f)' BY <1>1, <5>1, <5>2 DEF Probing
          <6> QED BY <6>1 DEF Behind
        <5>3. CASE i = 1
          <6>1. Head(probes).file = f BY <1>0, <3>4, <5>1, <5>3 DEF OwnTypes
          <6>2. ReadAs(f, disk[f])' <=> Head(probes).file = f
            BY <1>1, <2>4, <3>1, <3>2, <3>4, <3>5, <6>1 DEF ReadAs
          <6> QED BY <6>1, <6>2
        <5> QED BY <5>2, <5>3
      <4>2. CASE Coming(f) \/ checking.stale BY <1>1, <1>2, <4>2 DEF Behind
      <4>3. CASE ToList(f)
        <5>1. ToList(f)' BY <1>1, <2>1, <4>3 DEF ToList
        <5> QED BY <5>1 DEF Behind
      <4> QED BY <4>1, <4>2, <4>3 DEF Behind
    <3>9. Nowhere(f) => Nowhere(f)' BY <1>1, <1>3 DEF Nowhere
    <3>10. Watches' => Followed(f)' \/ Behind(f)' \/ ReadAs(f, disk[f])' \/ Nowhere(f)'
      BY <1>1, <1>4, <3>7, <3>8, <3>9 DEF Tracked
    <3>11. (fingerprints[f] = disk[f])' \/ SetTo(f, disk[f])' => Followed(f)'
      BY <1>1, <1>3, <1>4, <1>5 DEF Tracked
    <3>12. \A c \in Nat : ReadAs(f, c)' => c = disk'[f] BY <1>1, <3>6
    <3> QED BY <3>10, <3>11, <3>12 DEF Tracked
  <2> QED BY <2>3, <2>4
<1>7. CASE AnswerList
  <2>1. scan = "asked" /\ UNCHANGED receipt BY <1>7 DEF AnswerList
  <2>2. CanCheck' <=> CanCheck BY <2>1 DEF CanCheck
  <2>3. ASSUME NEW c PROVE ReadAs(f, c)' <=> ReadAs(f, c) BY <1>1, <2>1, <2>2 DEF ReadAs
  <2>4. ToList(f) => ToList(f)'
    <3> SUFFICES ASSUME ToList(f) PROVE ToList(f)' OBVIOUS
    <3>1. f \notin listed /\ disk[f] # 0 BY <2>1 DEF ToList
    <3> QED BY <1>7, <3>1 DEF AnswerList, ToList
  <2>5. Probing(f) => Probing(f)' BY <1>1, <2>2 DEF Probing
  <2>6. Behind(f) => Behind(f)' BY <1>1, <1>2, <2>4, <2>5 DEF Behind
  <2>7. Steady(f) BY <1>1, <1>3, <1>4, <2>3, <2>6 DEF Steady
  <2> QED BY <1>0, <2>7, SteadyTracks
<1> QED BY <1>6, <1>7 DEF FileAnswers

(* The task: a change is told of, and what is taken for known is followed. *)
LEMMA TaskTracks ==
    ASSUME FollowInv, CheckTask, ~leaving, ~skipped', NEW f \in Files, Tracked(f) PROVE Tracked(f)'
<1> DEFINE differs == checking.kind = "probe" /\ (~checking.ok \/ fingerprints[checking.file] # checking.seen)
<1>0. OwnInv /\ OwnTypes /\ OwnParts /\ NameTypes /\ FollowParts BY DEF FollowInv, OwnInv
<1>1. /\ checking.phase = "queued" /\ checking \in Checks /\ checking.file \in Files /\ checking # NoCheck
      /\ checking.kind \in CommandKinds
      /\ UNCHANGED <<disk, raised, watched, overrun, watching, watchFailed, probes, receipt, prepared, loading,
                     rescans, scan, listed, inbox, warned>>
  BY <1>0 DEF CheckTask, watchVars, system, watcher, editing, OwnTypes, NoCheck
<1>2. /\ fingerprints' = IF Accepts THEN [fingerprints EXCEPT ![checking.file] = checking.seen]
                         ELSE fingerprints
      /\ served' = IF checking.kind = "baseline" /\ served[checking.file] = Unknown
                   THEN [served EXCEPT ![checking.file] = checking.seen] ELSE served
      /\ ~TakesForBaseline
      /\ checking' = [checking EXCEPT !.phase = "done", !.kind = IF differs THEN "changed" ELSE "checked"]
  BY DEF CheckTask
<1>3. /\ checking'.kind = (IF differs THEN "changed" ELSE "checked") /\ checking'.file = checking.file
      /\ checking'.seen = checking.seen /\ checking'.phase = "done" /\ checking'.stale = checking.stale
  BY <1>1, <1>2, CheckMoves
<1>4. prepared = NoChange /\ loading = NoChange /\ ~CanCheck /\ ~CanCheck' /\ f # NoFile
  <2>1. prepared = NoChange /\ loading = NoChange BY <1>0, <1>1 DEF FollowParts, TurnInv
  <2>2. ~CanCheck BY <1>0, <1>1, OneReading
  <2>3. ~CanCheck' BY <1>1, <2>2 DEF CanCheck
  <2> QED BY <2>1, <2>2, <2>3, WatcherAssumption DEF WatcherAssumption
<1>5. disk[f] \in Nat /\ checking.seen \in Nat /\ fingerprints \in [Files -> Int] /\ served \in [Files -> Int]
  BY <1>0, <1>1 DEF OwnTypes, Checks, FollowParts, HistoryTypes
<1>6. (Watches' <=> Watches) /\ (Behind(f)' <=> Behind(f))
  <2>1. Coming(f)' <=> Coming(f) BY <1>1 DEF Coming, Announced
  <2>2. Probing(f)' <=> Probing(f) BY <1>1, <1>4 DEF Probing
  <2>3. ToList(f)' <=> ToList(f) BY <1>1 DEF ToList
  <2> QED BY <1>1, <1>3, <2>1, <2>2, <2>3 DEF Behind, Watches
<1>7. ASSUME NEW c \in Nat, SetTo(f, c)' PROVE SetTo(f, c) BY <1>1, <1>3, <1>7 DEF SetTo, Sets
<1>8. \A c : ReadAs(f, c) <=> /\ IsProbe(checking) /\ ~checking.stale
                              /\ checking.file = f /\ checking.seen = c
  BY <1>1, <1>4 DEF ReadAs, NoChange
<1>9. \A c : ReadAs(f, c)' <=> differs /\ ~checking.stale /\ checking.file = f /\ checking.seen = c
  BY <1>1, <1>3, <1>4 DEF ReadAs, NoChange
<1>10. CASE checking.file # f
  <2>1. fingerprints'[f] = fingerprints[f] /\ served'[f] = served[f] BY <1>1, <1>2, <1>5, <1>10
  <2>2. Followed(f) => Followed(f)' BY <1>1, <2>1 DEF Followed
  <2>3. \A c : ReadAs(f, c)' <=> ReadAs(f, c) BY <1>8, <1>9, <1>10
  <2>4. Steady(f) BY <1>1, <1>6, <1>7, <2>1, <2>2, <2>3 DEF Steady
  <2> QED BY <1>0, <2>4, SteadyTracks
<1>11. CASE checking.file = f
  <2>1. fingerprints'[f] = (IF Accepts THEN checking.seen ELSE fingerprints[f])
    BY <1>2, <1>5, <1>11
  <2>2. served'[f] = IF checking.kind = "baseline" /\ served[f] = Unknown THEN checking.seen ELSE served[f]
    BY <1>2, <1>5, <1>11
  <2>3. Followed(f) => Followed(f)' BY <1>1, <1>5, <2>2 DEF Followed, Unknown
  \* A baseline of what is there.
  <2>4. checking.kind = "baseline" /\ checking.seen = disk[f] => Followed(f)'
    BY <1>1, <1>2, <1>11, <2>2 DEF Followed, TakesForBaseline
  <2>5. checking.kind \in {"saved", "applied"} => SetTo(f, checking.seen)
    BY <1>1, <1>11 DEF SetTo, Sets
  <2>6. Accepts /\ checking.seen = disk[f] => Followed(f)'
    <3> SUFFICES ASSUME Accepts, checking.seen = disk[f], checking.kind # "baseline" PROVE Followed(f)'
      BY <2>4
    <3>1. SetTo(f, disk[f]) BY <2>5 DEF Accepts
    <3> QED BY <2>3, <3>1 DEF Tracked
  <2>7. (fingerprints[f] = disk[f])' \/ SetTo(f, disk[f])' => Followed(f)'
    <3>1. CASE SetTo(f, disk[f])'
      <4>1. SetTo(f, disk[f]) BY <1>1, <1>5, <1>7, <3>1
      <4> QED BY <2>3, <4>1 DEF Tracked
    <3>2. CASE fingerprints'[f] = disk[f] BY <1>1, <2>1, <2>3, <2>6, <3>2 DEF Tracked
    <3> QED BY <1>1, <3>1, <3>2
  <2>8. Watches' => Followed(f)' \/ Behind(f)' \/ ReadAs(f, disk[f])' \/ Nowhere(f)'
    <3> SUFFICES ASSUME Watches, ~Followed(f)', ~Behind(f), ~ReadAs(f, disk[f])' PROVE Nowhere(f)'
      BY <1>6
    <3>1. CASE ReadAs(f, disk[f])
      <4>1. IsProbe(checking) /\ ~checking.stale /\ checking.seen = disk[f] BY <1>8, <3>1
      <4>2. checking.kind # "baseline" BY <2>4, <4>1
      <4>3. ~differs
        <5>1. ReadAs(f, disk[f])' <=> differs /\ ~checking.stale /\ checking.file = f /\ checking.seen = disk[f]
          BY <1>1, <1>9
        <5> QED BY <1>11, <4>1, <5>1
      <4>4. fingerprints[f] = disk[f] BY <1>11, <4>1, <4>2, <4>3 DEF IsProbe
      <4> QED BY <2>3, <4>4 DEF Tracked
    <3>2. CASE Nowhere(f)
      <4>1. ~Accepts
        <5>1. CASE checking.kind \in {"saved", "applied"} BY <1>5, <2>5, <3>2, <5>1 DEF Nowhere
        <5>2. CASE checking.kind = "baseline" /\ checking.ok
          <6>1. checking.seen # 0 BY <1>0, <5>2 DEF FollowParts, NumberInv
          <6>2. ~checking.stale BY DEF Behind
          <6>3. ReadAs(f, checking.seen) BY <1>8, <1>11, <5>2, <6>2 DEF IsProbe
          <6>4. checking.seen # disk[f] BY <3>2, <6>1 DEF Nowhere
          <6> QED BY <1>5, <6>3, <6>4 DEF Tracked
        <5> QED BY <5>1, <5>2 DEF Accepts
      <4> QED BY <1>1, <1>7, <2>1, <3>2, <4>1 DEF Nowhere
    <3> QED BY <2>3, <3>1, <3>2 DEF Tracked
  <2>9. ASSUME NEW c \in Nat, ReadAs(f, c)', c # disk[f]
        PROVE  (Watches' => Behind(f)') /\ fingerprints'[f] # disk[f] /\ ~SetTo(f, disk[f])'
    <3>1. differs /\ ReadAs(f, c) BY <1>8, <1>9, <2>9 DEF IsProbe
    <3>2. ~Accepts BY <3>1 DEF Accepts
    <3>3. ~SetTo(f, disk[f])' BY <1>1, <1>5, <1>7, <2>9, <3>1 DEF Tracked
    <3> QED BY <1>6, <2>1, <2>9, <3>1, <3>2, <3>3 DEF Tracked
  <2> QED BY <1>1, <2>7, <2>8, <2>9 DEF Tracked
<1> QED BY <1>10, <1>11

(* The frame takes an event of the watcher. *)
LEMMA TakeEventsTracks ==
    ASSUME FollowInv, TakeEvents, NEW f \in Files, Tracked(f) PROVE Tracked(f)'
<1>0. OwnInv /\ OwnTypes /\ NameTypes /\ FollowParts BY DEF FollowInv, OwnInv
<1>1. /\ UNCHANGED <<disk, raised, watching, watchFailed, fingerprints, probes, receipt, checking, prepared,
                     loading, scan, listed, served, warned>>
      /\ f # NoFile /\ (Watches' <=> Watches)
  BY WatcherAssumption DEF TakeEvents, system, records, WatcherAssumption, Watches
<1>2. watched \in Seq(Some) /\ inbox \in Seq(Some) BY <1>0 DEF NameTypes
<1>3. CASE /\ watched # <<>> /\ watched' = Tail(watched) /\ inbox' = Append(inbox, Head(watched))
           /\ UNCHANGED <<overrun, rescans>>
  <2>1. /\ Len(inbox) \in Nat /\ Len(inbox') = Len(inbox) + 1 /\ inbox'[Len(inbox) + 1] = Head(watched)
        /\ \A i \in 1 .. Len(inbox) : inbox'[i] = inbox[i]
    <3>1. Head(watched) \in Some BY <1>2, <1>3
    <3> QED BY <1>2, <1>3, <3>1
  <2>2. Announced(f) => Announced(f)'
    <3> SUFFICES ASSUME NEW i \in 1 .. Len(inbox), inbox[i] = f,
                        prepared.file = f => \E j \in 1 .. Len(inbox) : j # i /\ inbox[j] = f
                 PROVE  Announced(f)'
      BY DEF Announced
    <3>1. i \in 1 .. Len(inbox') /\ inbox'[i] = f BY <2>1
    <3>2. prepared.file = f => \E j \in 1 .. Len(inbox') : j # i /\ inbox'[j] = f BY <2>1
    <3> QED BY <1>1, <3>1, <3>2 DEF Announced
  <2>3. f = Head(watched) => Announced(f)'
    <3> SUFFICES ASSUME f = Head(watched) PROVE Announced(f)' OBVIOUS
    <3>1. Len(inbox) + 1 \in 1 .. Len(inbox') /\ inbox'[Len(inbox) + 1] = f BY <2>1
    <3>2. prepared.file = f => \E j \in 1 .. Len(inbox') : j # Len(inbox) + 1 /\ inbox'[j] = f
      <4> SUFFICES ASSUME prepared.file = f PROVE \E j \in 1 .. Len(inbox') : j # Len(inbox) + 1 /\ inbox'[j] = f
        OBVIOUS
      <4>1. prepared # NoChange BY <1>1 DEF NoChange
      <4>2. f \in Range(inbox) BY <1>0, <4>1 DEF FollowParts, TurnInv
      <4>3. PICK j \in 1 .. Len(inbox) : inbox[j] = f BY <1>2, <4>2 DEF Range
      <4>4. j \in 1 .. Len(inbox') /\ j # Len(inbox) + 1 /\ inbox'[j] = f BY <2>1, <4>3
      <4> QED BY <4>4
    <3> QED BY <1>1, <3>1, <3>2 DEF Announced
  <2>4. f \in Range(watched) => f = Head(watched) \/ f \in Range(watched') BY <1>2, <1>3, RangeTail
  <2>5. Coming(f) => Coming(f)' BY <1>1, <1>3, <2>2, <2>3, <2>4 DEF Coming
  <2> QED BY <1>0, <1>1, <2>5, AsideTracks
<1>4. CASE rescans' = TRUE
  <2>1. Coming(f)' BY <1>4 DEF Coming
  <2> QED BY <1>0, <1>1, <2>1, AsideTracks
<1> QED BY <1>3, <1>4 DEF TakeEvents

(* The user is told of the change, or it is looked at again. *)
LEMMA WarnTracks ==
    ASSUME OwnInv, NEW f \in Files, Tracked(f), NEW g \in Files, NEW c \in Nat,
           UNCHANGED <<disk, fingerprints, probes, checking, served, watching, watchFailed>>,
           \A n \in Nat : ReadAs(f, n) => f = g /\ n = c,
           \A n \in Nat : ~ReadAs(f, n)',
           Behind(f) => Behind(f)', warned[f] \subseteq warned'[f],
           (f = g => c \in warned'[f]) \/ Behind(f)'
    PROVE  Tracked(f)'
<1>1. disk[f] \in Nat BY DEF OwnInv, OwnTypes
<1>2. Followed(f) => Followed(f)' BY DEF Followed
<1>3. ReadAs(f, disk[f]) => Followed(f)' \/ Behind(f)' BY <1>1 DEF Followed
<1>4. \A n \in Nat : SetTo(f, n)' => SetTo(f, n) BY DEF SetTo, Sets
<1>5. Steady(f) BY <1>2, <1>3, <1>4 DEF Steady, Watches
<1> QED BY <1>5, SteadyTracks

(* The change is shown: the file is gone by as it was read. *)
LEMMA ServedTracks ==
    ASSUME OwnInv, NEW f \in Files, Tracked(f), NEW g \in Files, NEW c \in Nat, c # 0, ReadAs(g, c),
           served \in [Files -> Int],
           UNCHANGED <<disk, fingerprints, checking, warned, watching, watchFailed>>,
           \A n \in Nat : ReadAs(f, n) => f = g /\ n = c,
           \A n \in Nat : ~ReadAs(f, n)',
           \A n \in Nat : SetTo(f, n)' => SetTo(f, n) \/ (f = g /\ n = c),
           served' = [served EXCEPT ![g] = c],
           Behind(f) => Behind(f)'
    PROVE  Tracked(f)'
<1>1. disk[f] \in Nat BY DEF OwnInv, OwnTypes
<1>2. served'[f] = IF f = g THEN c ELSE served[f] OBVIOUS
<1>3. CASE f # g
  <2>1. Followed(f) => Followed(f)' BY <1>2, <1>3 DEF Followed
  <2>2. ~ReadAs(f, disk[f]) BY <1>1, <1>3
  <2>3. Steady(f) BY <1>3, <2>1, <2>2 DEF Steady, Watches
  <2> QED BY <2>3, SteadyTracks
<1>4. CASE f = g /\ c = disk[f]
  <2>1. Followed(f)' BY <1>2, <1>4 DEF Followed
  <2> QED BY <1>1, <2>1 DEF Tracked
<1>5. CASE f = g /\ c # disk[f]
  <2>1. (Watches => Behind(f)) /\ fingerprints[f] # disk[f] /\ ~SetTo(f, disk[f])
    BY <1>5 DEF Tracked
  <2>2. ~SetTo(f, disk[f])' BY <1>1, <1>5, <2>1
  <2>3. Watches' => Behind(f)' BY <2>1 DEF Watches
  <2>4. (fingerprints[f] # disk[f])' BY <2>1
  <2> QED BY <2>2, <2>3, <2>4 DEF Tracked
<1> QED BY <1>3, <1>4, <1>5

(* The commands when one about g is queued. *)
LEMMA QueuedSets ==
    ASSUME probes \in Seq(Known), NEW d \in Known, Enqueue(d), UNCHANGED checking, NEW f, NEW n
    PROVE  SetTo(f, n)' => SetTo(f, n) \/ (~IsProbe(d) /\ d.file = f /\ d.hash = n)
<1> SUFFICES ASSUME SetTo(f, n)', ~SetTo(f, n) PROVE ~IsProbe(d) /\ d.file = f /\ d.hash = n OBVIOUS
<1>1. ~(Sets(f)' /\ checking'.seen = n) BY DEF SetTo, Sets
<1>2. PICK i \in 1 .. Len(probes') : ~IsProbe(probes'[i]) /\ probes'[i].file = f /\ probes'[i].hash = n
  BY <1>1 DEF SetTo
<1>3. ~(i \in 1 .. Len(probes) /\ probes'[i] = probes[i]) BY <1>2 DEF SetTo
<1> QED BY <1>2, <1>3, EnqueueAdds

LEMMA QueuedProbes ==
    ASSUME OwnInv, ~leaving, NEW d \in Known, Enqueue(d), UNCHANGED receipt, NEW f
    PROVE  /\ Probing(f) => Probing(f)'
           /\ IsProbe(d) /\ d.file = f => rescans' \/ Probing(f)'
<1>1. probes \in Seq(Known) /\ (CanCheck' <=> CanCheck) BY DEF OwnInv, OwnTypes, CanCheck
<1>2. Probing(f) => Probing(f)'
  <2> SUFFICES ASSUME NEW i \in 1 .. Len(probes), IsProbe(probes[i]), probes[i].file = f, ~(i = 1 /\ CanCheck)
               PROVE  Probing(f)'
    BY DEF Probing
  <2>1. i \in 1 .. Len(probes') /\ probes'[i] = probes[i] BY <1>1, EnqueueAdds
  <2> QED BY <1>1, <2>1 DEF Probing
<1>3. ASSUME IsProbe(d), d.file = f, ~rescans' PROVE Probing(f)'
  <2>1. Len(probes) + 1 \in 1 .. Len(probes') /\ probes'[Len(probes) + 1] = d
    BY <1>1, <1>3, EnqueueAdds
  <2>2. Len(probes) + 1 = 1 => ~CanCheck
    <3>1. Len(probes) + 1 = 1 => probes = <<>> BY <1>1
    <3> QED BY <3>1, OneReading
  <2> QED BY <1>1, <1>3, <2>1, <2>2 DEF Probing
<1> QED BY <1>2, <1>3

(* An event that is not of the change that is prepared asks for a probe of its file. *)
LEMMA AskTracks ==
    ASSUME FollowInv, ~leaving, inbox # <<>>, Head(inbox) # NoFile, Head(inbox) # prepared.file,
           Enqueue(Command("probe", Head(inbox), 0)), inbox' = Tail(inbox),
           UNCHANGED <<disk, raised, watched, overrun, watching, watchFailed, fingerprints, receipt, checking,
                       prepared, loading, scan, listed, served, warned>>,
           NEW f \in Files, Tracked(f)
    PROVE  Tracked(f)'
<1>0. OwnInv /\ probes \in Seq(Known) /\ inbox \in Seq(Some) BY DEF FollowInv, OwnInv, OwnTypes, NameTypes
<1>1. PICK d : d = Command("probe", Head(inbox), 0) OBVIOUS
<1>2. d \in Known /\ d.file = Head(inbox) /\ IsProbe(d) /\ Enqueue(d)
  <2>1. Head(inbox) \in Files BY <1>0 DEF Some
  <2>2. "probe" \in CommandKinds BY DEF CommandKinds
  <2> QED BY <1>1, <2>1, <2>2, CommandKnown DEF Command, IsProbe
<1>3. CanCheck' <=> CanCheck BY DEF CanCheck
<1>4. ASSUME NEW c PROVE ReadAs(f, c)' <=> ReadAs(f, c)
  <2>1. CASE CanCheck
    <3>1. probes # <<>> BY <1>0, <2>1, OneReading
    <3>2. probes' # <<>> /\ Head(probes') = Head(probes) BY <1>0, <1>2, <3>1, EnqueueAdds
    <3> QED BY <1>3, <3>1, <3>2 DEF ReadAs
  <2>2. CASE ~CanCheck BY <1>3, <2>2 DEF ReadAs
  <2> QED BY <2>1, <2>2
<1>5. \A c \in Nat : SetTo(f, c)' => SetTo(f, c) BY <1>0, <1>2, QueuedSets
<1>6. /\ Probing(f) => Probing(f)'
      /\ d.file = f => rescans' \/ Probing(f)'
  BY <1>0, <1>2, QueuedProbes
<1>7. rescans => rescans' BY <1>0, <1>2, EnqueueAdds
<1>8. Announced(f) /\ Head(inbox) # f => Announced(f)'
  <2> SUFFICES ASSUME Head(inbox) # f, NEW i \in 1 .. Len(inbox), inbox[i] = f,
                      prepared.file = f => \E j \in 1 .. Len(inbox) : j # i /\ inbox[j] = f
               PROVE  Announced(f)'
    BY DEF Announced
  <2>1. inbox[1] # f BY <1>0, TailKeeps
  <2>2. i - 1 \in 1 .. Len(inbox') /\ inbox'[i - 1] = f BY <1>0, <2>1, TailKeeps
  <2>3. ASSUME prepared.file = f PROVE \E j \in 1 .. Len(inbox') : j # i - 1 /\ inbox'[j] = f
    <3>1. PICK j \in 1 .. Len(inbox) : j # i /\ inbox[j] = f BY <2>3
    <3>2. j - 1 \in 1 .. Len(inbox') /\ inbox'[j - 1] = f BY <1>0, <2>1, <3>1, TailKeeps
    <3>3. j - 1 # i - 1 BY <3>1
    <3> QED BY <3>2, <3>3
  <2> QED BY <2>2, <2>3 DEF Announced
<1>9. Behind(f) => Behind(f)'
  <2>1. CASE Head(inbox) = f BY <1>2, <1>6, <2>1 DEF Behind, Coming
  <2>2. CASE Head(inbox) # f
    <3>1. Coming(f) => Coming(f)' BY <1>7, <1>8, <2>2 DEF Coming
    <3>2. ToList(f) => ToList(f)' BY DEF ToList
    <3> QED BY <1>6, <3>1, <3>2 DEF Behind
  <2> QED BY <2>1, <2>2
<1>10. (Followed(f) => Followed(f)') /\ (Watches' => Watches) BY DEF Followed, Watches
<1>11. Steady(f) BY <1>4, <1>5, <1>9, <1>10 DEF Steady
<1> QED BY <1>0, <1>11, SteadyTracks

(* The frame looks at a change: it is loaded, passed on, told of or looked at again. *)
LEMMA ObserveTracks ==
    ASSUME FollowInv, ~leaving, inbox # <<>>, prepared # NoChange, Head(inbox) = prepared.file,
           Observe(prepared),
           UNCHANGED <<disk, raised, watched, overrun, watching, watchFailed, fingerprints, receipt, checking,
                       scan, listed>>,
           NEW f \in Files, Tracked(f)
    PROVE  Tracked(f)'
<1> DEFINE g == prepared.file
           c == prepared.seen
<1>0. OwnInv /\ OwnTypes /\ FollowParts /\ probes \in Seq(Known) /\ inbox \in Seq(Some)
  BY DEF FollowInv, OwnInv, OwnTypes, NameTypes
<1>1. /\ checking = NoCheck /\ loading = NoChange /\ g \in Files /\ c \in Nat /\ f # NoFile
      /\ prepared.ok => c # 0
  BY <1>0, WatcherAssumption
     DEF FollowParts, TurnInv, NumberInv, OwnTypes, Changes, WatcherAssumption
<1>2. ~CanCheck /\ ~CanCheck'
  <2>1. ~CanCheck BY <1>0, OneReading
  <2> QED BY <2>1 DEF CanCheck
<1>3. prepared' = NoChange /\ (inbox' = Tail(inbox) \/ inbox' = inbox) BY DEF Observe
<1>4. \A n : ReadAs(f, n) <=> f = g /\ n = c BY <1>1, <1>2 DEF ReadAs, NoCheck, NoChange
<1>5. \A n : ReadAs(f, n)' <=> loading'.file = f /\ loading'.seen = n
  BY <1>1, <1>2, <1>3 DEF ReadAs, NoCheck, NoChange
<1>6. Announced(f) => Announced(f)'
  <2> SUFFICES ASSUME NEW i \in 1 .. Len(inbox), inbox[i] = f,
                      g = f => \E j \in 1 .. Len(inbox) : j # i /\ inbox[j] = f
               PROVE  \E k \in 1 .. Len(inbox') : inbox'[k] = f
    BY <1>1, <1>3 DEF Announced, NoChange
  <2>1. PICK k \in 1 .. Len(inbox) : k # 1 /\ inbox[k] = f
    <3>1. inbox[1] = g BY <1>0, TailKeeps
    <3>2. CASE g = f BY <3>2
    <3>3. CASE g # f BY <3>1, <3>3
    <3> QED BY <3>2, <3>3
  <2>2. CASE inbox' = inbox BY <2>1, <2>2
  <2>3. CASE inbox' = Tail(inbox)
    <3>1. k - 1 \in 1 .. Len(inbox') /\ inbox'[k - 1] = f BY <1>0, <2>1, <2>3, TailKeeps
    <3> QED BY <3>1
  <2> QED BY <1>3, <2>2, <2>3
<1>7. ToList(f)' <=> ToList(f) BY DEF ToList
<1>8. ASSUME UNCHANGED <<probes, rescans>> PROVE Behind(f) => Behind(f)'
  <2>1. Probing(f) => Probing(f)' BY <1>2, <1>8 DEF Probing
  <2>2. Coming(f) => Coming(f)' BY <1>6, <1>8 DEF Coming
  <2> QED BY <1>7, <2>1, <2>2 DEF Behind
<1>9. ASSUME Warn(g, c), UNCHANGED <<probes, rescans, loading, served>> PROVE Tracked(f)'
  <2>1. \A n \in Nat : ~ReadAs(f, n)' BY <1>1, <1>5, <1>9 DEF NoChange
  <2>2. warned[f] \subseteq warned'[f] /\ (f = g => c \in warned'[f])
    BY <1>0, <1>1, <1>9 DEF Warn, FollowParts, HistoryTypes
  <2>3. Behind(f) => Behind(f)' BY <1>8, <1>9
  <2> HIDE DEF g, c
  <2> QED BY <1>0, <1>1, <1>4, <1>9, <2>1, <2>2, <2>3, WarnTracks
<1>10. ASSUME loading' = prepared, UNCHANGED <<probes, rescans, served, warned>> PROVE Tracked(f)'
  <2>1. \A n : ReadAs(f, n)' <=> ReadAs(f, n) BY <1>4, <1>5, <1>10
  <2>2. Behind(f) => Behind(f)' BY <1>8, <1>10
  <2>3. \A n \in Nat : SetTo(f, n)' => SetTo(f, n) BY <1>10 DEF SetTo, Sets
  <2>4. (Followed(f) => Followed(f)') /\ (Watches' => Watches) BY <1>10 DEF Followed, Watches
  <2>5. Steady(f) BY <2>1, <2>2, <2>3, <2>4 DEF Steady
  <2> QED BY <1>0, <2>5, SteadyTracks
<1>11. ASSUME prepared.ok, Applied(prepared), served' = [served EXCEPT ![g] = c], UNCHANGED <<loading, warned>>
       PROVE  Tracked(f)'
  <2>1. PICK d : d = Command("applied", g, c) OBVIOUS
  <2>2. d \in Known /\ d.file = g /\ d.hash = c /\ Enqueue(d)
    <3>1. "applied" \in CommandKinds BY DEF CommandKinds
    <3> QED BY <1>1, <1>11, <2>1, <3>1, CommandKnown DEF Command, Applied
  <2>3. \A n \in Nat : ~ReadAs(f, n)' BY <1>1, <1>5, <1>11 DEF NoChange
  <2>4. ASSUME NEW n \in Nat, SetTo(f, n)' PROVE SetTo(f, n) \/ (f = g /\ n = c)
    BY <1>0, <2>2, <2>4, QueuedSets
  <2>5. Behind(f) => Behind(f)'
    <3>1. Probing(f) => Probing(f)' BY <1>0, <2>2, QueuedProbes
    <3>2. rescans => rescans' BY <1>0, <2>2, EnqueueAdds
    <3>3. Coming(f) => Coming(f)' BY <1>6, <3>2 DEF Coming
    <3> QED BY <1>7, <3>1, <3>3 DEF Behind
  <2>6. ReadAs(g, c) /\ c # 0 /\ served \in [Files -> Int]
    BY <1>0, <1>1, <1>11 DEF ReadAs, FollowParts, HistoryTypes
  <2> HIDE DEF g, c
  <2> QED BY <1>0, <1>1, <1>4, <1>11, <2>3, <2>4, <2>5, <2>6, ServedTracks
<1>12. ASSUME UNCHANGED <<probes, rescans, loading, served, warned, inbox>> PROVE Tracked(f)'
  <2>1. \A n \in Nat : ~ReadAs(f, n)' BY <1>1, <1>5, <1>12 DEF NoChange
  <2>2. Behind(f) => Behind(f)' BY <1>8, <1>12
  <2>3. f = g => Behind(f)'
    <3> SUFFICES ASSUME f = g PROVE Announced(f)' BY DEF Behind, Coming
    <3>1. 1 \in 1 .. Len(inbox') /\ inbox'[1] = f BY <1>0, <1>12, TailKeeps
    <3> QED BY <1>1, <1>3, <3>1 DEF Announced, NoChange
  <2> HIDE DEF g, c
  <2>4. (f = g => c \in warned'[f]) \/ Behind(f)'
    <3>1. CASE f = g BY <2>3, <3>1
    <3> QED BY <3>1
  <2> QED BY <1>0, <1>1, <1>4, <1>12, <2>1, <2>2, <2>4, WarnTracks
<1> QED BY <1>9, <1>10, <1>11, <1>12 DEF Observe

LEMMA InspectTracks ==
    ASSUME FollowInv, Inspect, NEW f \in Files, Tracked(f) PROVE Tracked(f)'
<1>0. OwnInv BY DEF FollowInv
<1>1. /\ ~leaving /\ inbox # <<>>
      /\ UNCHANGED <<disk, raised, watched, overrun, watching, fingerprints, receipt, checking, scan, listed>>
  BY DEF Inspect, system
<1>2. CASE /\ watchFailed' = TRUE /\ UNCHANGED <<probes, prepared, loading, served, warned>>
  <2>1. ~Watches' BY <1>2 DEF Watches
  <2> QED BY <1>0, <1>1, <1>2, <2>1, AsideTracks
<1>3. CASE /\ Head(inbox) = prepared.file /\ prepared # NoChange
           /\ Observe(prepared) /\ UNCHANGED watchFailed
  BY <1>1, <1>3, ObserveTracks
<1>4. CASE /\ Head(inbox) # NoFile /\ Head(inbox) # prepared.file
           /\ Enqueue(Command("probe", Head(inbox), 0)) /\ inbox' = Tail(inbox)
           /\ UNCHANGED <<watchFailed, prepared, loading, served, warned>>
  BY <1>1, <1>4, AskTracks
<1> QED BY <1>2, <1>3, <1>4 DEF Inspect

(* The open scene has been loaded again, or could not be. *)
LEMMA EndLoadTracks ==
    ASSUME FollowInv, EndLoad, NEW f \in Files, Tracked(f) PROVE Tracked(f)'
<1> DEFINE g == loading.file
           c == loading.seen
<1>0. OwnInv /\ OwnTypes /\ FollowParts /\ probes \in Seq(Known) BY DEF FollowInv, OwnInv, OwnTypes
<1>1. /\ ~leaving /\ loading # NoChange /\ loading' = NoChange
      /\ UNCHANGED <<disk, raised, watched, overrun, watching, watchFailed, fingerprints, receipt, checking,
                     scan, listed, prepared, inbox>>
  BY DEF EndLoad, system, watcher
<1>2. /\ checking = NoCheck /\ prepared = NoChange /\ g \in Files /\ c \in Nat /\ c # 0 /\ f # NoFile
  BY <1>0, <1>1, WatcherAssumption
     DEF FollowParts, TurnInv, NumberInv, OwnTypes, Changes, WatcherAssumption
<1>3. ~CanCheck /\ ~CanCheck'
  <2>1. ~CanCheck BY <1>0, <1>1, OneReading
  <2> QED BY <1>1, <2>1 DEF CanCheck
<1>4. \A n : ReadAs(f, n) <=> f = g /\ n = c BY <1>2, <1>3 DEF ReadAs, NoCheck, NoChange
<1>5. \A n \in Nat : ~ReadAs(f, n)' BY <1>1, <1>2, <1>3 DEF ReadAs, NoCheck, NoChange
<1>6. (ToList(f)' <=> ToList(f)) /\ (Announced(f)' <=> Announced(f)) BY <1>1 DEF ToList, Announced
<1>7. CASE Warn(g, c) /\ UNCHANGED <<probes, rescans, served>>
  <2>1. Behind(f) => Behind(f)'
    <3>1. Probing(f) => Probing(f)' BY <1>3, <1>7 DEF Probing
    <3>2. Coming(f) => Coming(f)' BY <1>1, <1>6, <1>7 DEF Coming
    <3> QED BY <1>1, <1>6, <3>1, <3>2 DEF Behind
  <2>2. warned[f] \subseteq warned'[f] /\ (f = g => c \in warned'[f])
    BY <1>0, <1>2, <1>7 DEF Warn, FollowParts, HistoryTypes
  <2> HIDE DEF g, c
  <2> QED BY <1>0, <1>1, <1>2, <1>4, <1>5, <1>7, <2>1, <2>2, WarnTracks
<1>8. CASE /\ Applied(loading) /\ served' = [served EXCEPT ![g] = c] /\ UNCHANGED warned
  <2>1. PICK d : d = Command("applied", g, c) OBVIOUS
  <2>2. d \in Known /\ d.file = g /\ d.hash = c /\ Enqueue(d)
    <3>1. "applied" \in CommandKinds BY DEF CommandKinds
    <3> QED BY <1>2, <1>8, <2>1, <3>1, CommandKnown DEF Command, Applied
  <2>4. ASSUME NEW n \in Nat, SetTo(f, n)' PROVE SetTo(f, n) \/ (f = g /\ n = c)
    BY <1>0, <1>1, <2>2, <2>4, QueuedSets
  <2>5. Behind(f) => Behind(f)'
    <3>1. Probing(f) => Probing(f)' BY <1>0, <1>1, <2>2, QueuedProbes
    <3>2. rescans => rescans' BY <1>0, <2>2, EnqueueAdds
    <3>3. Coming(f) => Coming(f)' BY <1>1, <1>6, <3>2 DEF Coming
    <3> QED BY <1>1, <1>6, <3>1, <3>3 DEF Behind
  <2>6. ReadAs(g, c) /\ served \in [Files -> Int]
    BY <1>0, <1>1 DEF ReadAs, FollowParts, HistoryTypes
  <2> HIDE DEF g, c
  <2> QED BY <1>0, <1>1, <1>2, <1>4, <1>5, <1>8, <2>4, <2>5, <2>6, ServedTracks
<1> QED BY <1>7, <1>8 DEF EndLoad

(* A save is acknowledged: everything is looked at again. *)
LEMMA AcceptTracks ==
    ASSUME FollowInv, AcceptSave, ~leaving, NEW f \in Files, Tracked(f) PROVE Tracked(f)'
<1>0. OwnInv /\ OwnTypes /\ FollowParts /\ disk[f] \in Nat BY DEF FollowInv, OwnInv, OwnTypes
<1>1. /\ UNCHANGED <<disk, fingerprints, warned>> /\ rescans' = TRUE
      /\ served' = [served EXCEPT ![saving.file] = saving.content] /\ f # NoFile
  BY WatcherAssumption DEF AcceptSave, watchVars, system, WatcherAssumption
<1>2. Behind(f)' BY <1>1 DEF Behind, Coming
<1>3. \A n \in Nat : ~ReadAs(f, n)'
  <2>1. ~CanCheck' /\ prepared' = NoChange /\ loading' = NoChange BY AcceptLeaves
  <2>2. checking'.stale \/ checking'.phase = "none" BY AcceptLeaves
  <2> QED BY <1>1, <2>1, <2>2 DEF ReadAs, NoChange
<1>4. served'[f] = IF f = saving.file THEN saving.content ELSE served[f]
  BY <1>0, <1>1, AcceptLeaves DEF FollowParts, HistoryTypes
<1>5. ASSUME NEW n \in Nat, SetTo(f, n)'
      PROVE  \/ f # saving.file /\ SetTo(f, n)
             \/ f = saving.file /\ (n = saving.content \/ (Sets(f) /\ checking.seen = n))
  <2>1. CASE Sets(f)' /\ checking'.seen = n
    <3>1. Sets(f) /\ checking.seen = n BY <2>1, AcceptLeaves DEF Sets
    <3> QED BY <3>1 DEF SetTo
  <2>2. CASE \E i \in 1 .. Len(probes') : ~IsProbe(probes'[i]) /\ probes'[i].file = f /\ probes'[i].hash = n
    <3>1. PICK i \in 1 .. Len(probes') : ~IsProbe(probes'[i]) /\ probes'[i].file = f /\ probes'[i].hash = n
      BY <2>2
    <3>2. \/ \E a \in 1 .. Len(probes) : probes'[i] = probes[a] /\ probes[a].file # saving.file
          \/ /\ probes'[i].file = saving.file /\ probes'[i].hash = saving.content
             /\ ~IsProbe(probes'[i])
      BY AcceptLeaves
    <3> QED BY <3>1, <3>2 DEF SetTo
  <2> QED BY <1>5, <2>1, <2>2 DEF SetTo
<1>6. ASSUME fingerprints[f] = disk[f] \/ SetTo(f, disk[f])' PROVE Followed(f)'
  <2>1. CASE f # saving.file
    <3>1. fingerprints[f] = disk[f] \/ SetTo(f, disk[f])
      <4>1. CASE fingerprints[f] = disk[f] BY <4>1
      <4>2. CASE SetTo(f, disk[f])' BY <1>0, <1>1, <1>5, <2>1, <4>2
      <4> QED BY <1>6, <4>1, <4>2
    <3>2. Followed(f) BY <3>1 DEF Tracked
    <3> QED BY <1>1, <1>4, <2>1, <3>2 DEF Followed
  <2>2. CASE f = saving.file /\ saving.content = disk[f] BY <1>1, <1>4, <2>2 DEF Followed
  <2>3. CASE f = saving.file /\ saving.content # disk[f]
    <3>1. saving.phase = "written" BY AcceptLeaves
    <3>2. /\ fingerprints[f] # disk[f]
          /\ ~(checking.phase = "queued" /\ checking.file = f /\ checking.ok /\ checking.seen = disk[f])
      BY <1>0, <2>3, <3>1 DEF FollowParts, OverwrittenInv
    <3>3. Sets(f) /\ checking.seen = disk[f]
      <4>1. SetTo(f, disk[f])' BY <1>6, <3>2
      <4> QED BY <1>0, <1>1, <1>5, <2>3, <4>1
    <3>4. checking.ok BY <1>0, <3>3 DEF Sets, FollowParts, NumberInv
    <3> QED BY <3>2, <3>3, <3>4 DEF Sets
  <2> QED BY <2>1, <2>2, <2>3
<1>7. (fingerprints[f] = disk[f])' \/ SetTo(f, disk[f])' => Followed(f)' BY <1>1, <1>6
<1> QED BY <1>2, <1>3, <1>7 DEF Tracked

(* A file is written: it is behind, and nobody knows of its content. *)
LEMMA PutTracks ==
    ASSUME FollowInv, NEW g \in Files, NEW c \in {0, NewContent}, Put(g, c),
           UNCHANGED <<watched, overrun, watching, watchFailed, fingerprints, probes, receipt, scan, listed,
                       rescans, checking, prepared, inbox, loading, served, warned>>,
           NEW f \in Files, Tracked(f)
    PROVE  Tracked(f)'
<1>0. OwnInv /\ OwnTypes /\ FollowParts BY DEF FollowInv, OwnInv
<1>1. /\ disk' = [disk EXCEPT ![g] = c] /\ raised \subseteq raised' /\ (Watches => g \in raised')
      /\ writes \in Nat /\ disk \in [Files -> Nat] /\ NewContent = 3 + writes /\ (Watches' <=> Watches)
  BY <1>0 DEF Put, OwnTypes, NewContent, Watches
<1>2. CASE f # g
  <2>1. disk'[f] = disk[f] BY <1>1, <1>2
  <2>2. Coming(f) => Coming(f)' BY <1>1 DEF Coming, Announced
  <2> QED BY <1>0, <1>1, <2>1, <2>2, AsideTracks
<1>3. CASE f = g
  <2>1. disk'[f] = c /\ c \in Nat BY <1>1, <1>3
  <2>2. Watches' => Behind(f)' BY <1>1, <1>3 DEF Behind, Coming
  <2>3. \A n \in Int : Used(n) /\ n # 0 => n # c BY <1>1 DEF Used
  <2>4. fingerprints[f] # c
    <3>1. fingerprints[f] \in Int /\ Used(fingerprints[f]) /\ fingerprints[f] # 0
      BY <1>0 DEF OwnTypes, FollowParts, NumberInv
    <3> QED BY <2>3, <3>1
  <2>5. ~SetTo(f, c)
    <3>1. ASSUME NEW i \in 1 .. Len(probes), ~IsProbe(probes[i]) PROVE probes[i].hash # c
      <4>1. probes[i].hash \in Int
        <5>1. probes[i] \in Known BY <1>0 DEF OwnTypes
        <5>2. \A d \in Known : d.hash \in Int BY DEF Known
        <5> QED BY <5>1, <5>2
      <4>2. Used(probes[i].hash) /\ probes[i].hash # 0 BY <1>0, <3>1 DEF FollowParts, NumberInv
      <4> QED BY <2>3, <4>1, <4>2
    <3>2. Sets(f) => checking.seen # c
      <4> SUFFICES ASSUME Sets(f) PROVE checking.seen # c OBVIOUS
      <4>1. checking.seen \in Int BY <1>0 DEF OwnTypes, Checks
      <4>2. Used(checking.seen) /\ checking.seen # 0 BY <1>0 DEF Sets, FollowParts, NumberInv
      <4> QED BY <2>3, <4>1, <4>2
    <3> QED BY <3>1, <3>2 DEF SetTo
  <2>6. \A n : SetTo(f, n)' <=> SetTo(f, n) BY DEF SetTo, Sets
  <2>7. ~SetTo(f, disk[f])' /\ fingerprints'[f] # disk'[f] BY <2>1, <2>4, <2>5, <2>6
  <2> QED BY <2>2, <2>7 DEF Tracked
<1> QED BY <1>2, <1>3

LEMMA WriteTracks ==
    ASSUME FollowInv,
           WriteSave \/ ((WatcherThread \/ \E g \in Files : Change(g)) /\ UNCHANGED authorVars),
           NEW f \in Files, Tracked(f)
    PROVE  Tracked(f)'
<1>0. OwnInv /\ OwnTypes /\ NameTypes BY DEF FollowInv, OwnInv
<1>1. UNCHANGED <<fingerprints, probes, receipt, scan, listed, rescans, checking, prepared, inbox, loading,
                  served, warned>>
  BY DEF WriteSave, service, records, authorVars, editing
<1>2. CASE WriteSave
  <2>1. UNCHANGED <<watched, overrun, watching, watchFailed>> BY <1>2 DEF WriteSave, watcher
  <2>2. CASE Put(saving.file, NewContent)
    <3>1. saving.file \in Files BY <1>0, <1>2 DEF WriteSave, OwnTypes, NoSave
    <3>2. NewContent \in {0, NewContent} OBVIOUS
    <3> HIDE DEF NewContent
    <3> QED BY <1>1, <2>1, <2>2, <3>1, <3>2, PutTracks
  <2>3. CASE UNCHANGED system
    <3>1. UNCHANGED <<disk, raised>> BY <2>3 DEF system
    <3>2. (Coming(f)' <=> Coming(f)) /\ (Watches' <=> Watches)
      BY <1>1, <2>1, <3>1 DEF Coming, Announced, Watches
    <3> QED BY <1>0, <1>1, <3>1, <3>2, AsideTracks
  <2> QED BY <1>2, <2>2, <2>3 DEF WriteSave
<1>3. ASSUME NEW g \in Files, Change(g) PROVE Tracked(f)'
  <2>1. PICK c \in {0, NewContent} : Put(g, c) BY <1>3 DEF Change
  <2>2. UNCHANGED <<watched, overrun, watching, watchFailed>> BY <1>3 DEF Change, watcher
  <2> QED BY <1>1, <2>1, <2>2, PutTracks
<1>4. CASE WatchBreaks
  <2>1. UNCHANGED disk /\ ~Watches' BY <1>4 DEF WatchBreaks, Watches
  <2> QED BY <1>0, <1>1, <2>1, AsideTracks
<1>5. ASSUME NEW g \in Files, Notice(g) PROVE Tracked(f)'
  <2>1. UNCHANGED <<disk, watching, watchFailed>> /\ raised' = raised \ {g} /\ Emit(g) /\ g \in Some
    BY <1>5 DEF Notice, Some
  <2>2. watched \in Seq(Some) BY <1>0 DEF NameTypes
  <2>3. /\ g \in Range(watched') /\ (overrun => overrun')
        /\ \A h \in Range(watched) : h \in Range(watched') \/ overrun'
    BY <2>1, <2>2, EmitPasses
  <2>4. Announced(f)' <=> Announced(f) BY <1>1 DEF Announced
  <2>5. Coming(f) => Coming(f)' BY <1>1, <2>1, <2>3, <2>4 DEF Coming
  <2>6. Watches' <=> Watches BY <2>1 DEF Watches
  <2> QED BY <1>0, <1>1, <2>1, <2>5, <2>6, AsideTracks
<1> QED BY <1>2, <1>3, <1>4, <1>5 DEF WatcherThread

LEMMA UserTracks ==
    ASSUME FollowInv, Edit \/ AuthorAsks \/ FailSave \/ \E g \in Files : BeginSave(g),
           NEW f \in Files, Tracked(f)
    PROVE  Tracked(f)'
<1>0. OwnInv BY DEF FollowInv
<1>1. CASE AuthorAsks
  <2>1. UNCHANGED <<disk, fingerprints, probes, receipt, scan, listed, checking, prepared, loading, served, warned>>
    <3>1. UNCHANGED disk BY <1>1 DEF AuthorAsks, system, Restart
    <3> QED BY <1>1, <3>1 DEF AuthorAsks, editing, records
  <2>2. rescans' = TRUE \/ ~Watches' BY <1>1 DEF AuthorAsks, Restart, Watches
  <2>3. Watches' => Coming(f)' BY <2>2 DEF Coming
  <2> QED BY <1>0, <2>1, <2>3, AsideTracks
<1>2. CASE Edit \/ FailSave \/ \E g \in Files : BeginSave(g)
  <2>1. UNCHANGED service /\ UNCHANGED <<inbox, loading>> /\ UNCHANGED records /\ UNCHANGED <<system, watcher>>
    BY <1>2 DEF Edit, FailSave, BeginSave, watchVars
  <2>2. UNCHANGED <<disk, raised, watched, overrun, watching, watchFailed, fingerprints, probes, receipt, scan,
                    listed, rescans, checking, prepared, inbox, loading, served, warned>>
    BY <2>1 DEF system, watcher, service, records
  <2>3. (Coming(f)' <=> Coming(f)) /\ (Watches' <=> Watches) BY <2>2 DEF Coming, Announced, Watches
  <2> QED BY <1>0, <2>2, <2>3, AsideTracks
<1> QED BY <1>1, <1>2

LEMMA OwnStep == ASSUME OwnInv, AuthorSteps PROVE OwnInv'
BY PumpKeeps, OthersKeep, InspectKeeps, EndLoadKeeps, UserKeeps, WritesKeep
   DEF AuthorSteps, AuthorFrame, AuthorUser

(* Stopping is for good, and so is what was skipped. *)
LEMMA OnlyMore ==
    ASSUME AuthorSteps, ~leaving', ~skipped' PROVE ~leaving /\ ~skipped
<1>1. CASE Pump
  <2>1. UNCHANGED leaving BY <1>1 DEF Pump
  <2>2. ~skipped BY <1>1 DEF Pump, Scan, records
  <2> QED BY <2>1, <2>2
<1>2. CASE TakeEvents \/ Edit BY <1>2 DEF TakeEvents, Edit, records
<1>3. CASE Inspect \/ EndLoad BY <1>3 DEF Inspect, EndLoad
<1>4. CASE AcceptSave BY <1>4 DEF AcceptSave
<1>5. CASE FailSave \/ WriteSave BY <1>5 DEF FailSave, WriteSave, records
<1>6. CASE CheckTask BY <1>6 DEF CheckTask
<1>7. CASE FileAnswers BY <1>7 DEF FileAnswers, records
<1>8. CASE AuthorAsks BY <1>8 DEF AuthorAsks, records
<1>9. CASE LeaveAuthor BY <1>9 DEF LeaveAuthor
<1>10. CASE \E f \in Files : BeginSave(f) BY <1>10 DEF BeginSave, records
<1>11. CASE UNCHANGED authorVars BY <1>11 DEF authorVars, records
<1> QED BY <1>1, <1>2, <1>3, <1>4, <1>5, <1>6, <1>7, <1>8, <1>9, <1>10, <1>11
        DEF AuthorSteps, AuthorFrame, AuthorUser

LEMMA FollowStep == ASSUME FollowInv, AuthorSteps PROVE FollowInv'
<1>1. OwnInv' BY OwnStep DEF FollowInv
<1>2. FollowParts' BY PartsHold
<1>3. TrackedInv'
  <2> SUFFICES ASSUME ~leaving', ~skipped', NEW f \in Files PROVE Tracked(f)' BY DEF TrackedInv
  <2>1. ~leaving /\ ~skipped BY OnlyMore
  <2>2. Tracked(f) BY <2>1 DEF FollowInv, TrackedInv
  <2>3. CASE Pump BY <2>1, <2>2, <2>3, PumpTracks
  <2>4. CASE TakeEvents BY <2>2, <2>4, TakeEventsTracks
  <2>5. CASE Inspect BY <2>2, <2>5, InspectTracks
  <2>6. CASE EndLoad BY <2>2, <2>6, EndLoadTracks
  <2>7. CASE AcceptSave BY <2>1, <2>2, <2>7, AcceptTracks
  <2>8. CASE CheckTask BY <2>1, <2>2, <2>8, TaskTracks
  <2>9. CASE FileAnswers BY <2>1, <2>2, <2>9, AnswerTracks
  <2>10. CASE WriteSave \/ ((WatcherThread \/ \E g \in Files : Change(g)) /\ UNCHANGED authorVars)
    BY <2>2, <2>10, WriteTracks
  <2>11. CASE Edit \/ AuthorAsks \/ FailSave \/ \E g \in Files : BeginSave(g) BY <2>2, <2>11, UserTracks
  <2>12. ~LeaveAuthor BY DEF LeaveAuthor
  <2> QED BY <2>3, <2>4, <2>5, <2>6, <2>7, <2>8, <2>9, <2>10, <2>11, <2>12
          DEF AuthorSteps, AuthorFrame, AuthorUser
<1> QED BY <1>1, <1>2, <1>3 DEF FollowInv

LEMMA FollowSame == ASSUME FollowInv, UNCHANGED <<watchVars, authorVars>> PROVE FollowInv'
<1>0. OwnInv /\ FollowParts BY DEF FollowInv
<1>1. /\ UNCHANGED <<disk, writes, raised, watched, overrun, watching, watchFailed>>
      /\ UNCHANGED <<fingerprints, probes, receipt, scan, listed, rescans, checking, prepared>>
      /\ UNCHANGED <<inbox, loading, saving, leaving, served, warned, own, skipped>>
  BY DEF watchVars, system, watcher, authorVars, service, editing, records
<1>2. OwnInv'
  <2>1. UNCHANGED ownVars BY <1>1 DEF ownVars
  <2> QED BY <1>0, <1>1, <2>1, NamesKeep DEF OwnInv, NameTypes
<1>3. FollowParts'
  <2>1. HistoryTypes' BY <1>0, <1>1 DEF FollowParts, HistoryTypes
  <2> QED BY <1>0, <1>1, <2>1, PartsAside
<1>4. TrackedInv'
  <2> SUFFICES ASSUME ~leaving, ~skipped, NEW f \in Files PROVE Tracked(f)' BY <1>1 DEF TrackedInv
  <2>1. Tracked(f) BY DEF FollowInv, TrackedInv
  <2>2. (Coming(f)' <=> Coming(f)) /\ (Watches' <=> Watches) BY <1>1 DEF Coming, Announced, Watches
  <2> QED BY <1>0, <1>1, <2>1, <2>2, AsideTracks
<1> QED BY <1>2, <1>3, <1>4 DEF FollowInv

LEMMA FollowStarts ==
    WatchInit({d \in [Files -> 0 .. 1] : d[OpenFile] = 1}, "running") /\ AuthorInit => FollowInv
<1> SUFFICES ASSUME WatchInit({d \in [Files -> 0 .. 1] : d[OpenFile] = 1}, "running"), AuthorInit
             PROVE  FollowInv
  OBVIOUS
<1>1. OwnInv BY OwnInit
<1>2. disk \in [Files -> 0 .. 1] /\ writes = 0 BY DEF WatchInit
<1>3. /\ inbox = <<>> /\ probes = <<>> /\ receipt = NoReceipt /\ checking = NoCheck /\ prepared = NoChange
      /\ loading = NoChange /\ saving = NoSave /\ rescans = TRUE
      /\ fingerprints = [f \in Files |-> Unknown] /\ served = [f \in Files |-> Unknown]
      /\ warned = [f \in Files |-> {}]
  BY DEF AuthorInit
<1>4. NumberInv
  <2>1. \A f \in Files : fingerprints[f] # 0 /\ Used(fingerprints[f]) BY <1>2, <1>3 DEF Used, Unknown
  <2>2. Len(probes) = 0 BY <1>3
  <2>3. Used(receipt.seen) /\ ~receipt.ok BY <1>2, <1>3 DEF Used, NoReceipt
  <2>4. Used(checking.seen) /\ ~checking.ok /\ checking.kind = "none" BY <1>2, <1>3 DEF Used, NoCheck
  <2>5. Used(prepared.seen) /\ ~prepared.ok /\ Used(loading.seen) BY <1>2, <1>3 DEF Used, NoChange
  <2> QED BY <1>3, <2>1, <2>2, <2>3, <2>4, <2>5 DEF NumberInv
<1>5. TurnInv BY <1>3 DEF TurnInv
<1>6. OverwrittenInv BY <1>3 DEF OverwrittenInv, NoSave
<1>7. HistoryTypes BY <1>3 DEF HistoryTypes, Unknown
<1>8. ASSUME NEW f \in Files PROVE Tracked(f)
  <2>1. ~CanCheck BY <1>3 DEF CanCheck, NoReceipt
  <2>2. \A n \in Nat : ~ReadAs(f, n) BY <1>3, <2>1, NothingRead
  <2>3. \A n : ~SetTo(f, n) BY <1>3 DEF SetTo, Sets, NoCheck
  <2>4. fingerprints[f] # disk[f] BY <1>2, <1>3 DEF Unknown
  <2>5. Behind(f) BY <1>3 DEF Behind, Coming
  <2> QED BY <2>2, <2>3, <2>4, <2>5 DEF Tracked
<1> QED BY <1>1, <1>4, <1>5, <1>6, <1>7, <1>8 DEF FollowInv, FollowParts, TrackedInv

(* For every number of files, writes, events and commands: once everything has come to rest, the
   content of each scene and prefab is the one the editor and the runtime go by, or the user was
   told of it, and the same of each source that was imported.  So no change is lost to a queue that
   overran, a watch that was started again, or a save or an import it met; the two ways in which the
   code does lose one (skipped, swallowed) are what the property leaves out
   (author_asset_service.cpp, asset_background_worker.cpp, asset_reimport_queue.cpp,
   asset_import_controller.cpp). *)
THEOREM MissedCorrect == FilesSpec => []NothingMissed
<1> DEFINE Inv == (part = "author" => FollowInv) /\ (part = "import" => MissInv)
<1>1. FilesInit => Inv
  <2> SUFFICES ASSUME FilesInit PROVE Inv OBVIOUS
  <2>1. AuthorInit /\ ImportInit BY DEF FilesInit
  <2>2. part = "author" => FollowInv BY <2>1, FollowStarts DEF FilesInit, PartInit
  <2>3. part = "import" => MissInv BY <2>1, MissStarts DEF FilesInit, PartInit
  <2> QED BY <2>2, <2>3
<1>2. Inv /\ [FilesNext]_fileVars => Inv'
  <2> SUFFICES ASSUME Inv, [FilesNext]_fileVars PROVE Inv' OBVIOUS
  <2>1. part' = part BY DEF FilesNext, IsClient, IsAuthor, IsImport, fileVars
  <2>2. ASSUME part = "author" PROVE FollowInv'
    <3>1. CASE UNCHANGED fileVars
      <4>1. UNCHANGED <<watchVars, authorVars>> BY <3>1 DEF fileVars
      <4> QED BY <2>2, <4>1, FollowSame
    <3>2. CASE FilesNext
      <4>1. AuthorSteps BY <2>2, <3>2 DEF FilesNext, IsClient, IsImport
      <4> QED BY <2>2, <4>1, FollowStep
    <3> QED BY <3>1, <3>2
  <2>3. ASSUME part = "import" PROVE MissInv'
    <3>1. CASE UNCHANGED fileVars
      <4>1. UNCHANGED watchVars /\ UNCHANGED importVars BY <3>1 DEF fileVars
      <4> QED BY <2>3, <4>1, WatchingMisses
    <3>2. CASE FilesNext
      <4>1. ImportSteps BY <2>3, <3>2 DEF FilesNext, IsClient, IsAuthor
      <4> QED BY <2>3, <4>1, MissStep
    <3> QED BY <3>1, <3>2
  <2> QED BY <2>1, <2>2, <2>3
<1>3. Inv => NothingMissed BY FollowHolds, MissHolds DEF NothingMissed
<1> HIDE DEF Inv
<1> QED BY <1>1, <1>2, <1>3, PTL DEF FilesSpec
=============================================================================
