---------------------------- MODULE NodePoolProofs ----------------------------
(***************************************************************************)
(* What NodePool guarantees for every pool, every size of the guard sets,  *)
(* every number of processes, starts and spoiled files: guard sets are     *)
(* whole unless one was shortened in its file, overlap only for the        *)
(* reasons OverlapOnlyBy names, supply all path entries, keep the paths    *)
(* apart and leave room for every striping leg.                            *)
(***************************************************************************)
EXTENDS NodePool, FiniteSetTheorems, WellFoundedInduction, TLAPS

USE PoolAssumption

-----------------------------------------------------------------------------
(* The inductive invariant                                                 *)

\* A guard set load_guard_set() accepts, after s files have been spoiled.
Usable(g, s) ==
  /\ g \subseteq Nodes /\ Cardinality(g) \in 1 .. GUARD_SET_SIZE
  /\ s = 0 => Cardinality(g) = GUARD_SET_SIZE

Types ==
  /\ file \in [Sets -> (SUBSET Nodes) \cup {Nothing}]
  /\ pc \in [Processes -> {"off", "load a", "save a", "load b", "save b", "path", "legs", "ready"}]
  /\ n_legs \in [Processes -> 1 .. GUARD_SET_SIZE]
  /\ guard_a \in [Processes -> SUBSET Nodes] /\ guard_b \in [Processes -> SUBSET Nodes]
  /\ session \in [Processes -> [a : Path, b : Path] \cup {Nothing}]
  /\ legs \in [Processes -> Seq(Path)]
  /\ starts \in 0 .. MaxStarts /\ spoils \in 0 .. MaxSpoils
  /\ entries \in [Sets -> SUBSET Nodes] /\ overtaken \in BOOLEAN
  /\ \A x \in Sets : file[x] # Nothing => Usable(file[x], spoils)

HasA == {"save a", "load b", "save b", "path", "legs", "ready"}
HasB == {"save b", "path", "legs", "ready"}

\* A process holds a set once it has loaded or drawn it; what it has drawn
\* for path B leaves out the guards of path A.
GuardsOK(p) ==
  /\ IF pc[p] \in HasA THEN Usable(guard_a[p], spoils) ELSE guard_a[p] = {}
  /\ IF pc[p] \in HasB THEN Usable(guard_b[p], spoils) ELSE guard_b[p] = {}
  /\ pc[p] = "save b" => guard_a[p] \cap guard_b[p] = {}

\* What the session and the legs built so far use up: one guard of set A and
\* five other nodes, then one guard and two other nodes for each leg.
LegsOK(p) ==
  /\ pc[p] \notin {"legs", "ready"} => legs[p] = <<>>
  /\ pc[p] = "legs" =>
       /\ Len(legs[p]) + 2 <= n_legs[p]
       /\ InUse(p) \subseteq Nodes
       /\ Cardinality(InUse(p) \cap guard_a[p]) <= Len(legs[p]) + 1
       /\ Cardinality(InUse(p) \ guard_a[p]) <= 2 * Len(legs[p]) + 5

\* No file was lost or shortened and none was written over.
Clean == ~overtaken /\ spoils = 0

\* The nodes of a session are counted one by one, unless its entries coincide.
ApartOK(p) ==
  /\ pc[p] \notin {"legs", "ready"} => session[p] = Nothing
  /\ session[p] # Nothing =>
       \/ Cardinality(InUse(p)) = 6 + 3 * Len(legs[p])
       \/ n_legs[p] = 1 /\ ~Clean

\* Then the files hold the sets that every process uses, and all entries come
\* from them.

FilesRule ==
  /\ \A p \in Processes : pc[p] \in HasA \ {"save a"} => file["a"] = guard_a[p]
  /\ \A p \in Processes : pc[p] \in HasB \ {"save b"} => file["b"] = guard_b[p]
  /\ file["b"] # Nothing => file["a"] # Nothing /\ file["a"] \cap file["b"] = {}
  /\ \A x \in Sets : IF file[x] = Nothing THEN entries[x] = {} ELSE entries[x] \subseteq file[x]

PoolInv ==
  /\ Types
  /\ \A p \in Processes : GuardsOK(p) /\ LegsOK(p) /\ ApartOK(p)
  /\ Clean => FilesRule

-----------------------------------------------------------------------------
(* Sets of nodes                                                           *)

LEMMA NodesFinite == IsFiniteSet(Nodes) /\ Cardinality(Nodes) = POOL_SIZE
<1>1. 0 \in Int /\ POOL_SIZE - 1 \in Int
  OBVIOUS
<1>2. IsFiniteSet(0 .. POOL_SIZE - 1)
      /\ Cardinality(0 .. POOL_SIZE - 1) = IF 0 > POOL_SIZE - 1 THEN 0 ELSE (POOL_SIZE - 1) - 0 + 1
  BY <1>1, FS_Interval
<1> QED BY <1>2 DEF Nodes

LEMMA SomeNodes ==
  ASSUME NEW S, S \subseteq Nodes
  PROVE  IsFiniteSet(S) /\ Cardinality(S) \in Nat
  BY NodesFinite, FS_Subset, FS_CardinalityType

LEMMA AtMostOneMore ==
  ASSUME NEW S, IsFiniteSet(S), NEW x
  PROVE  IsFiniteSet(S \cup {x}) /\ Cardinality(S \cup {x}) <= Cardinality(S) + 1
         /\ Cardinality(S \cup {x}) \in Nat /\ Cardinality(S) \in Nat
<1>1. IsFiniteSet(S \cup {x})
      /\ Cardinality(S \cup {x}) = IF x \in S THEN Cardinality(S) ELSE Cardinality(S) + 1
  BY FS_AddElement
<1>2. Cardinality(S) \in Nat /\ Cardinality(S \cup {x}) \in Nat
  BY <1>1, FS_CardinalityType
<1> QED BY <1>1, <1>2

LEMMA SmallerSet ==
  ASSUME NEW T, IsFiniteSet(T), NEW S, S \subseteq T
  PROVE  IsFiniteSet(S) /\ Cardinality(S) \in Nat /\ Cardinality(S) <= Cardinality(T)
  BY FS_Subset, FS_CardinalityType

\* A set of nodes that is not empty has a smallest one.
LEMMA ExtremeIs ==
  ASSUME NEW S, S \subseteq Nodes
  PROVE  Extreme(S) \subseteq S /\ (S # {} => Extreme(S) # {})
<1>1. Extreme(S) \subseteq S
  BY DEF Extreme
<1>2. ASSUME S # {} PROVE Extreme(S) # {}
  <2> DEFINE R == {p \in Nat \X Nat : p[1] < p[2]}
  <2>1. IsWellFoundedOn(R, Nat)
    BY NatLessThanWellFounded, Zenon DEF OpToRel
  <2>2. S \subseteq Nat /\ \A x, y \in S : y < x => <<y, x>> \in R
    BY DEF Nodes
  <2> HIDE DEF R
  <2>3. \E x \in S : \A y \in S : <<y, x>> \notin R
    BY <1>2, <2>1, <2>2, WFMin
  <2>4. PICK x \in S : \A y \in S : ~(y < x)
    BY <2>2, <2>3
  <2>5. \A y \in S : x <= y
    BY <2>2, <2>4
  <2> QED BY <2>5 DEF Extreme
<1> QED BY <1>1, <1>2

\* A guard set drawn one node after the other is whole, and without the
\* nodes that were excluded.
LEMMA DrawnWhole ==
  ASSUME NEW excl, NEW g \in Drawn(excl)
  PROVE  Usable(g, spoils) /\ g \cap excl = {}
<1> DEFINE I == 1 .. GUARD_SET_SIZE
<1>1. PICK s \in [I -> Nodes] :
        /\ \A i \in I : s[i] \in NextGuard(excl, {s[j] : j \in 1 .. (i - 1)})
        /\ g = {s[i] : i \in I}
  BY DEF Drawn
<1>2. \A i \in I : s[i] \in Nodes \ (excl \cup {s[j] : j \in 1 .. (i - 1)})
  BY <1>1 DEF NextGuard, Lowest, weighted_draw_excluding
<1>3. g \subseteq Nodes /\ g \cap excl = {}
  BY <1>1, <1>2
<1>4. \A i, j \in I : i < j => s[i] # s[j]
  BY <1>2
<1>5. \A i, j \in I : s[i] = s[j] => i = j
  BY <1>4
<1>6. s \in Surjection(I, g)
  BY <1>1 DEF Surjection
<1>7. s \in Injection(I, g)
  BY <1>5, <1>6 DEF Surjection, Injection, IsInjective
<1>8. IsFiniteSet(I) /\ Cardinality(I) = GUARD_SET_SIZE
  <2>1. IsFiniteSet(1 .. GUARD_SET_SIZE)
        /\ Cardinality(1 .. GUARD_SET_SIZE) = IF 1 > GUARD_SET_SIZE THEN 0 ELSE GUARD_SET_SIZE - 1 + 1
    BY FS_Interval
  <2> QED BY <2>1
<1> HIDE DEF I
<1>9. Cardinality(g) = GUARD_SET_SIZE
  BY <1>6, <1>7, <1>8, FS_Surjection
<1> QED BY <1>3, <1>9 DEF Usable

LEMMA OneNew ==
  ASSUME NEW S, IsFiniteSet(S), NEW n \in Nat, Cardinality(S) = n, NEW x, x \notin S
  PROVE  IsFiniteSet(S \cup {x}) /\ Cardinality(S \cup {x}) = n + 1
<1>1. IsFiniteSet(S \cup {x})
      /\ Cardinality(S \cup {x}) = IF x \in S THEN Cardinality(S) ELSE Cardinality(S) + 1
  BY FS_AddElement
<1> QED BY <1>1

Different(u, v, w, x, y, z) ==
  /\ u # v /\ w \notin {u, v} /\ x \notin {u, v, w} /\ y \notin {u, v, w, x}
  /\ z \notin {u, v, w, x, y}

LEMMA SixNodes ==
  ASSUME NEW u, NEW v, NEW w, NEW x, NEW y, NEW z, Different(u, v, w, x, y, z)
  PROVE  Cardinality({u, v, w, x, y, z}) = 6
<1>1. IsFiniteSet({u}) /\ Cardinality({u}) = 1
  BY FS_Singleton, Zenon
<1>2. IsFiniteSet({u} \cup {v}) /\ Cardinality({u} \cup {v}) = 2
  <2>1. v \notin {u} /\ 1 \in Nat /\ 1 + 1 = 2
    BY DEF Different
  <2> QED BY <1>1, <2>1, OneNew
<1>3. IsFiniteSet({u, v} \cup {w}) /\ Cardinality({u, v} \cup {w}) = 3
  <2>1. {u, v} = {u} \cup {v} /\ w \notin {u, v} /\ 2 \in Nat /\ 2 + 1 = 3
    BY DEF Different
  <2>2. IsFiniteSet({u, v}) /\ Cardinality({u, v}) = 2
    BY <1>2, <2>1, Zenon
  <2> QED BY <2>1, <2>2, OneNew
<1>4. IsFiniteSet({u, v, w} \cup {x}) /\ Cardinality({u, v, w} \cup {x}) = 4
  <2>1. {u, v, w} = {u, v} \cup {w} /\ x \notin {u, v, w} /\ 3 \in Nat /\ 3 + 1 = 4
    BY DEF Different
  <2>2. IsFiniteSet({u, v, w}) /\ Cardinality({u, v, w}) = 3
    BY <1>3, <2>1, Zenon
  <2> QED BY <2>1, <2>2, OneNew
<1>5. IsFiniteSet({u, v, w, x} \cup {y}) /\ Cardinality({u, v, w, x} \cup {y}) = 5
  <2>1. {u, v, w, x} = {u, v, w} \cup {x} /\ y \notin {u, v, w, x} /\ 4 \in Nat /\ 4 + 1 = 5
    BY DEF Different
  <2>2. IsFiniteSet({u, v, w, x}) /\ Cardinality({u, v, w, x}) = 4
    BY <1>4, <2>1, Zenon
  <2> QED BY <2>1, <2>2, OneNew
<1>6. Cardinality({u, v, w, x, y} \cup {z}) = 6
  <2>1. {u, v, w, x, y} = {u, v, w, x} \cup {y} /\ z \notin {u, v, w, x, y} /\ 5 \in Nat /\ 5 + 1 = 6
    BY DEF Different
  <2>2. IsFiniteSet({u, v, w, x, y}) /\ Cardinality({u, v, w, x, y}) = 5
    BY <1>5, <2>1, Zenon
  <2> QED BY <2>1, <2>2, OneNew
<1>7. {u, v, w, x, y, z} = {u, v, w, x, y} \cup {z}
  OBVIOUS
<1> QED BY <1>6, <1>7, Zenon

\* A session path takes its entries out of the two guard sets; each later hop
\* is none of the nodes drawn before.
LEMMA SessionIs ==
  ASSUME NEW ga, NEW gb, ga \subseteq Nodes, gb \subseteq Nodes,
         NEW s \in build_session_path(ga, gb)
  PROVE  /\ s \in [a : Path, b : Path]
         /\ s.a.entry \in ga /\ s.b.entry \in gb
         /\ s.a.entry # s.b.entry => Different(s.a.entry, s.b.entry, s.a.mid, s.a.last, s.b.mid, s.b.last)
<1> DEFINE Longer(T) == UNION {{Append(t, n) : n \in NextHop(t)} : t \in T}
           New(t, k) == \A i \in 3 .. k : \A j \in 1 .. (i - 1) : t[i] # t[j]
           OK(t, k) == t \in Seq(Nodes) /\ Len(t) = k /\ t[1] \in ga /\ t[2] \in gb /\ New(t, k)
<1>1. ASSUME NEW T, NEW k \in Nat, k >= 2, \A t \in T : OK(t, k)
      PROVE  \A t \in Longer(T) : OK(t, k + 1)
  <2> SUFFICES ASSUME NEW u \in Longer(T) PROVE OK(u, k + 1)
    OBVIOUS
  <2> HIDE DEF OK
  <2>0. PICK S \in {{Append(t, n) : n \in NextHop(t)} : t \in T} : u \in S
    BY Zenon DEF Longer
  <2>1. PICK t \in T : \E n \in NextHop(t) : u = Append(t, n)
    BY <2>0
  <2>2. PICK n : n \in NextHop(t) /\ u = Append(t, n)
    BY <2>1
  <2>3. n \in Nodes /\ \A i \in 1 .. Len(t) : n # t[i]
    BY <2>2 DEF NextHop, Extreme, weighted_draw_excluding
  <2>4. OK(t, k)
    BY <1>1
  <2> USE DEF OK
  <2>5. t \in Seq(Nodes) /\ Len(t) = k /\ t[1] \in ga /\ t[2] \in gb /\ New(t, k)
    BY <2>4
  <2> HIDE DEF OK, Longer, New
  <2>6. u \in Seq(Nodes) /\ Len(u) = k + 1 /\ u[k + 1] = n /\ \A i \in 1 .. k : u[i] = t[i]
    BY <1>1, <2>2, <2>3, <2>5
  <2>7. u[1] = t[1] /\ u[2] = t[2]
    BY <1>1, <2>6
  <2>8. New(u, k + 1)
    <3> SUFFICES ASSUME NEW i \in 3 .. (k + 1), NEW j \in 1 .. (i - 1) PROVE u[i] # u[j]
      BY DEF New
    <3>1. j \in 1 .. k
      BY <1>1
    <3>2. CASE i = k + 1
      BY <2>3, <2>5, <2>6, <3>1, <3>2
    <3>3. CASE i # k + 1
      <4>1. i \in 3 .. k /\ i \in 1 .. k
        BY <1>1, <3>3
      <4> QED BY <2>5, <2>6, <3>1, <4>1 DEF New
    <3> QED BY <3>2, <3>3
  <2> QED BY <2>5, <2>6, <2>7, <2>8 DEF OK
<1>2. \A t \in ga \X gb : OK(t, 2)
  <2> SUFFICES ASSUME NEW t \in ga \X gb PROVE OK(t, 2)
    OBVIOUS
  <2>1. PICK x \in ga, y \in gb : t = <<x, y>>
    OBVIOUS
  <2>2. x \in Nodes /\ y \in Nodes
    OBVIOUS
  <2>3. <<x, y>> \in Seq(Nodes) /\ Len(<<x, y>>) = 2 /\ <<x, y>>[1] = x /\ <<x, y>>[2] = y
    BY <2>2
  <2>4. New(t, 2)
    OBVIOUS
  <2> QED BY <2>1, <2>3, <2>4
<1> HIDE DEF OK, Longer
<1>3. \A t \in Longer(ga \X gb) : OK(t, 3)
  <2>1. 2 \in Nat /\ 2 >= 2 /\ 2 + 1 = 3
    OBVIOUS
  <2> QED BY <1>1, <1>2, <2>1
<1>4. \A t \in Longer(Longer(ga \X gb)) : OK(t, 4)
  <2>1. 3 \in Nat /\ 3 >= 2 /\ 3 + 1 = 4
    OBVIOUS
  <2> QED BY <1>1, <1>3, <2>1
<1>5. \A t \in Longer(Longer(Longer(ga \X gb))) : OK(t, 5)
  <2>1. 4 \in Nat /\ 4 >= 2 /\ 4 + 1 = 5
    OBVIOUS
  <2> QED BY <1>1, <1>4, <2>1
<1>6. \A t \in Longer(Longer(Longer(Longer(ga \X gb)))) : OK(t, 6)
  <2>1. 5 \in Nat /\ 5 >= 2 /\ 5 + 1 = 6
    OBVIOUS
  <2> QED BY <1>1, <1>5, <2>1
<1>7. PICK t \in Longer(Longer(Longer(Longer(ga \X gb)))) :
        s = [a |-> [entry |-> t[1], mid |-> t[3], last |-> t[4]],
             b |-> [entry |-> t[2], mid |-> t[5], last |-> t[6]]]
  BY DEF build_session_path, Longer
<1>8. /\ t[1] \in ga /\ t[2] \in gb
      /\ t[1] \in Nodes /\ t[2] \in Nodes /\ t[3] \in Nodes /\ t[4] \in Nodes /\ t[5] \in Nodes /\ t[6] \in Nodes
  <2>1. t \in Seq(Nodes) /\ Len(t) = 6 /\ t[1] \in ga /\ t[2] \in gb
    BY <1>6 DEF OK
  <2>2. ASSUME NEW q \in Seq(Nodes), Len(q) = 6 PROVE \A i \in 1 .. 6 : q[i] \in Nodes
    <3>1. q \in [1 .. Len(q) -> Nodes]
      OBVIOUS
    <3>2. q \in [1 .. 6 -> Nodes]
      BY <2>2, <3>1
    <3> QED BY <3>2
  <2>3. \A i \in 1 .. 6 : t[i] \in Nodes
    BY <2>1, <2>2
  <2> QED BY <2>1, <2>3
<1>9. t[1] # t[2] => Different(t[1], t[2], t[3], t[4], t[5], t[6])
  <2>1. \A i \in 3 .. 6 : \A j \in 1 .. (i - 1) : t[i] # t[j]
    BY <1>6 DEF OK
  <2>2. \A j \in 1 .. 2 : t[3] # t[j]
    BY <2>1
  <2>3. \A j \in 1 .. 3 : t[4] # t[j]
    BY <2>1
  <2>4. \A j \in 1 .. 4 : t[5] # t[j]
    BY <2>1
  <2>5. \A j \in 1 .. 5 : t[6] # t[j]
    BY <2>1
  <2> QED BY <2>2, <2>3, <2>4, <2>5 DEF Different
<1> QED BY <1>7, <1>8, <1>9 DEF Path

-----------------------------------------------------------------------------
(* A step of one process, from what it leaves                              *)

Same(q) ==
  /\ pc'[q] = pc[q] /\ n_legs'[q] = n_legs[q] /\ guard_a'[q] = guard_a[q] /\ guard_b'[q] = guard_b[q]
  /\ session'[q] = session[q] /\ legs'[q] = legs[q]

LEMMA InUseStays ==
  ASSUME NEW q, session'[q] = session[q], legs'[q] = legs[q]
  PROVE  InUse(q)' = InUse(q)
  BY DEF InUse

LEMMA OthersStay ==
  ASSUME NEW q \in Processes, GuardsOK(q), LegsOK(q), ApartOK(q), Same(q),
         spoils' = spoils \/ spoils' # 0, Clean' => Clean
  PROVE  GuardsOK(q)' /\ LegsOK(q)' /\ ApartOK(q)'
<1>1. GuardsOK(q)'
  <2>1. \A g : Usable(g, spoils) => Usable(g, spoils')
    BY DEF Usable
  <2> QED BY <2>1 DEF GuardsOK, Same
<1>2. InUse(q)' = InUse(q)
  BY InUseStays DEF Same
<1>3. LegsOK(q)'
  BY <1>2 DEF LegsOK, Same
<1>4. ApartOK(q)'
  BY <1>2 DEF ApartOK, Same
<1> QED BY <1>1, <1>3, <1>4

LEMMA ByStep ==
  ASSUME PoolInv, NEW p \in Processes, Types', \A q \in Processes \ {p} : Same(q),
         spoils' = spoils, overtaken => overtaken',
         GuardsOK(p)', LegsOK(p)', ApartOK(p)', Clean' => FilesRule'
  PROVE  PoolInv'
<1>0. Clean' => Clean
  BY DEF Clean
<1>1. \A q \in Processes : GuardsOK(q)' /\ LegsOK(q)' /\ ApartOK(q)'
  BY <1>0, OthersStay DEF PoolInv
<1> QED BY <1>1 DEF PoolInv

\* The files and the entries stay as they are.
LEMMA FilesStay ==
  ASSUME PoolInv, NEW p \in Processes, \A q \in Processes \ {p} : Same(q),
         file' = file, entries' = entries, overtaken' = overtaken, spoils' = spoils,
         Clean => (pc'[p] \in HasA \ {"save a"} => file["a"] = guard_a'[p]),
         Clean => (pc'[p] \in HasB \ {"save b"} => file["b"] = guard_b'[p])
  PROVE  Clean' => FilesRule'
<1> SUFFICES ASSUME Clean PROVE FilesRule'
  BY DEF Clean
<1>1. FilesRule
  BY DEF PoolInv
<1>2. \A q \in Processes : pc'[q] \in HasA \ {"save a"} => file'["a"] = guard_a'[q]
  BY <1>1 DEF FilesRule, Same
<1>3. \A q \in Processes : pc'[q] \in HasB \ {"save b"} => file'["b"] = guard_b'[q]
  BY <1>1 DEF FilesRule, Same
<1> QED BY <1>1, <1>2, <1>3 DEF FilesRule

LEMMA SetNames == "a" \in Sets /\ "b" \in Sets /\ \A x \in Sets : x = "a" \/ x = "b"
  BY DEF Sets

LEMMA IsSet == \A g : g \subseteq Nodes => g # Nothing
<1> SUFFICES ASSUME NEW g, g \subseteq Nodes PROVE g # Nothing
  OBVIOUS
<1>1. g \in SUBSET Nodes
  OBVIOUS
<1> QED BY <1>1

-----------------------------------------------------------------------------
(* node_pool_init()                                                        *)

LEMMA StartKeeps ==
  ASSUME PoolInv, NEW p \in Processes, Start(p)
  PROVE  PoolInv'
<1>1. /\ pc[p] = "off" /\ starts < MaxStarts /\ starts' = starts + 1
      /\ pc' = [pc EXCEPT ![p] = "load a"]
      /\ UNCHANGED <<file, guard_a, guard_b, session, legs, spoils, entries, overtaken>>
  BY DEF Start, Goto
<1>2. PICK k \in Legs : n_legs' = [n_legs EXCEPT ![p] = k]
  BY DEF Start
<1>3. Types /\ GuardsOK(p) /\ LegsOK(p) /\ ApartOK(p)
  BY DEF PoolInv
<1>4. Types'
  <2>1. starts' \in 0 .. MaxStarts
    <3>1. starts \in 0 .. MaxStarts /\ starts < MaxStarts /\ starts' = starts + 1 /\ MaxStarts \in Nat
      BY <1>1, <1>3 DEF Types
    <3> QED BY ONLY <3>1
  <2>2. pc' \in [Processes -> {"off", "load a", "save a", "load b", "save b", "path", "legs", "ready"}]
    BY <1>1, <1>3 DEF Types
  <2>3. n_legs' \in [Processes -> 1 .. GUARD_SET_SIZE]
    BY <1>2, <1>3 DEF Types
  <2> QED BY <1>1, <1>3, <2>1, <2>2, <2>3 DEF Types
<1>5. pc'[p] = "load a" /\ \A q \in Processes \ {p} : Same(q)
  BY <1>1, <1>2, <1>3 DEF Types, Same
<1>6. GuardsOK(p)' /\ LegsOK(p)' /\ ApartOK(p)'
  BY <1>1, <1>3, <1>5 DEF GuardsOK, LegsOK, ApartOK, HasA, HasB
<1>7. Clean' => FilesRule'
  BY <1>1, <1>5, FilesStay DEF HasA, HasB
<1> QED BY <1>1, <1>4, <1>5, <1>6, <1>7, ByStep

LEMMA LoadAKeeps ==
  ASSUME PoolInv, NEW p \in Processes, LoadA(p)
  PROVE  PoolInv'
<1>1. /\ pc[p] = "load a"
      /\ UNCHANGED <<file, n_legs, guard_b, session, legs, starts, spoils, entries, overtaken>>
  BY DEF LoadA
<1>2. Types /\ GuardsOK(p) /\ LegsOK(p) /\ ApartOK(p)
  BY DEF PoolInv
<1>3. PICK g, l : /\ guard_a' = [guard_a EXCEPT ![p] = g] /\ Usable(g, spoils) /\ pc' = [pc EXCEPT ![p] = l]
                  /\ l = "save a" \/ (l = "load b" /\ g = file["a"])
  <2>1. CASE file["a"] # Nothing
    <3>1. Usable(file["a"], spoils)
      BY <1>2, <2>1, SetNames DEF Types
    <3> QED BY <2>1, <3>1 DEF LoadA, Goto
  <2>2. CASE file["a"] = Nothing
    <3>1. PICK g \in Drawn({}) : guard_a' = [guard_a EXCEPT ![p] = g] /\ Goto(p, "save a")
      BY <2>2 DEF LoadA
    <3> QED BY <3>1, DrawnWhole DEF Goto
  <2> QED BY <2>1, <2>2
<1>4. Types'
  <2>1. pc' \in [Processes -> {"off", "load a", "save a", "load b", "save b", "path", "legs", "ready"}]
    BY <1>2, <1>3 DEF Types
  <2>2. guard_a' \in [Processes -> SUBSET Nodes]
    BY <1>2, <1>3 DEF Types, Usable
  <2> QED BY <1>1, <1>2, <2>1, <2>2 DEF Types
<1>5. pc'[p] = l /\ guard_a'[p] = g /\ \A q \in Processes \ {p} : Same(q)
  BY <1>1, <1>2, <1>3 DEF Types, Same
<1>6. GuardsOK(p)' /\ LegsOK(p)' /\ ApartOK(p)'
  BY <1>1, <1>2, <1>3, <1>5 DEF GuardsOK, LegsOK, ApartOK, HasA, HasB
<1>7. Clean' => FilesRule'
  BY <1>1, <1>3, <1>5, FilesStay DEF HasA, HasB
<1> QED BY <1>1, <1>4, <1>5, <1>6, <1>7, ByStep

LEMMA LoadBKeeps ==
  ASSUME PoolInv, NEW p \in Processes, LoadB(p)
  PROVE  PoolInv'
<1>1. /\ pc[p] = "load b"
      /\ UNCHANGED <<file, n_legs, guard_a, session, legs, starts, spoils, entries, overtaken>>
  BY DEF LoadB
<1>2. Types /\ GuardsOK(p) /\ LegsOK(p) /\ ApartOK(p)
  BY DEF PoolInv
<1>3. PICK g, l : /\ guard_b' = [guard_b EXCEPT ![p] = g] /\ Usable(g, spoils) /\ pc' = [pc EXCEPT ![p] = l]
                  /\ \/ l = "save b" /\ guard_a[p] \cap g = {}
                     \/ l = "path" /\ g = file["b"]
  <2>1. CASE file["b"] # Nothing
    <3>1. Usable(file["b"], spoils)
      BY <1>2, <2>1, SetNames DEF Types
    <3> QED BY <2>1, <3>1 DEF LoadB, Goto
  <2>2. CASE file["b"] = Nothing
    <3>1. PICK g \in Drawn(guard_a[p]) : guard_b' = [guard_b EXCEPT ![p] = g] /\ Goto(p, "save b")
      BY <2>2 DEF LoadB, GuardsToExclude
    <3>2. Usable(g, spoils) /\ g \cap guard_a[p] = {}
      BY <3>1, DrawnWhole
    <3> QED BY <3>1, <3>2 DEF Goto
  <2> QED BY <2>1, <2>2
<1>4. Types'
  <2>1. pc' \in [Processes -> {"off", "load a", "save a", "load b", "save b", "path", "legs", "ready"}]
    BY <1>2, <1>3 DEF Types
  <2>2. guard_b' \in [Processes -> SUBSET Nodes]
    BY <1>2, <1>3 DEF Types, Usable
  <2> QED BY <1>1, <1>2, <2>1, <2>2 DEF Types
<1>5. pc'[p] = l /\ guard_b'[p] = g /\ \A q \in Processes \ {p} : Same(q)
  BY <1>1, <1>2, <1>3 DEF Types, Same
<1>6. GuardsOK(p)' /\ LegsOK(p)' /\ ApartOK(p)'
  BY <1>1, <1>2, <1>3, <1>5 DEF GuardsOK, LegsOK, ApartOK, HasA, HasB
<1>7. Clean => file["a"] = guard_a[p]
  BY <1>1 DEF PoolInv, FilesRule, HasA
<1>8. Clean' => FilesRule'
  BY <1>1, <1>3, <1>5, <1>7, FilesStay DEF HasA, HasB
<1> QED BY <1>1, <1>4, <1>5, <1>6, <1>8, ByStep

\* A set is saved where there is none, or over one, which is remembered.
LEMMA SaveKeeps ==
  ASSUME PoolInv, NEW p \in Processes, Save(p)
  PROVE  PoolInv'
<1>1. UNCHANGED <<n_legs, guard_a, guard_b, session, legs, starts, spoils, entries>>
  BY DEF Save
<1>2. Types /\ GuardsOK(p) /\ LegsOK(p) /\ ApartOK(p)
  BY DEF PoolInv
<1>3. CASE pc[p] = "save a"
  <2>1. /\ file' = [file EXCEPT !["a"] = guard_a[p]]
        /\ overtaken' = (overtaken \/ file["a"] # Nothing)
        /\ pc' = [pc EXCEPT ![p] = "load b"]
    BY <1>3 DEF Save, save_guard_set, Goto
  <2>2. Usable(guard_a[p], spoils) /\ guard_a[p] \subseteq Nodes /\ guard_a[p] # Nothing
    BY <1>2, <1>3, IsSet DEF GuardsOK, HasA, Usable
  <2>3. /\ file'["a"] = guard_a[p] /\ file'["b"] = file["b"]
        /\ file' \in [Sets -> (SUBSET Nodes) \cup {Nothing}]
    <3>1. file \in [Sets -> (SUBSET Nodes) \cup {Nothing}] /\ guard_a[p] \in (SUBSET Nodes) \cup {Nothing}
      BY <1>2, <2>2 DEF Types
    <3> QED BY <2>1, <3>1, SetNames
  <2>4. Types'
    <3>1. pc' \in [Processes -> {"off", "load a", "save a", "load b", "save b", "path", "legs", "ready"}]
      BY <1>2, <2>1 DEF Types
    <3>2. \A x \in Sets : file'[x] # Nothing => Usable(file'[x], spoils')
      BY <1>1, <1>2, <2>2, <2>3, SetNames DEF Types
    <3>3. overtaken' \in BOOLEAN
      BY <2>1
    <3> QED BY <1>1, <1>2, <2>3, <3>1, <3>2, <3>3 DEF Types
  <2>5. pc'[p] = "load b" /\ \A q \in Processes \ {p} : Same(q)
    BY <1>1, <1>2, <2>1 DEF Types, Same
  <2>6. GuardsOK(p)' /\ LegsOK(p)' /\ ApartOK(p)'
    BY <1>1, <1>2, <1>3, <2>5 DEF GuardsOK, LegsOK, ApartOK, HasA, HasB
  <2>7. ASSUME Clean' PROVE FilesRule'
    <3>1. Clean /\ file["a"] = Nothing
      BY <1>1, <2>1, <2>7 DEF Clean
    <3>2. FilesRule
      BY <3>1 DEF PoolInv
    <3>3. \A q \in Processes : pc[q] \notin HasA \ {"save a"}
      <4>1. \A q \in Processes : guard_a[q] \subseteq Nodes
        BY <1>2 DEF Types
      <4> QED BY <3>1, <3>2, <4>1, IsSet DEF FilesRule
    <3>4. file["b"] = Nothing /\ entries["a"] = {} /\ entries["b"] = {}
      BY <3>1, <3>2, SetNames DEF FilesRule
    <3>5. \A q \in Processes : pc'[q] \in HasA \ {"save a"} => file'["a"] = guard_a'[q]
      BY <1>1, <2>3, <2>5, <3>3 DEF Same
    <3>6. \A q \in Processes : pc'[q] \notin HasB \ {"save b"}
      BY <2>5, <3>3 DEF Same, HasA, HasB
    <3>7. \A x \in Sets : IF file'[x] = Nothing THEN entries'[x] = {} ELSE entries'[x] \subseteq file'[x]
      BY <1>1, <3>4, SetNames
    <3> QED BY <2>3, <3>4, <3>5, <3>6, <3>7 DEF FilesRule
  <2> QED BY <1>1, <2>1, <2>4, <2>5, <2>6, <2>7, ByStep
<1>4. CASE pc[p] = "save b"
  <2>1. /\ file' = [file EXCEPT !["b"] = guard_b[p]]
        /\ overtaken' = (overtaken \/ file["b"] # Nothing)
        /\ pc' = [pc EXCEPT ![p] = "path"]
    BY <1>4 DEF Save, save_guard_set, Goto
  <2>2. /\ Usable(guard_b[p], spoils) /\ guard_b[p] \subseteq Nodes /\ guard_b[p] # Nothing
        /\ guard_a[p] \cap guard_b[p] = {}
    BY <1>2, <1>4, IsSet DEF GuardsOK, HasB, Usable
  <2>3. /\ file'["b"] = guard_b[p] /\ file'["a"] = file["a"]
        /\ file' \in [Sets -> (SUBSET Nodes) \cup {Nothing}]
    <3>1. file \in [Sets -> (SUBSET Nodes) \cup {Nothing}] /\ guard_b[p] \in (SUBSET Nodes) \cup {Nothing}
      BY <1>2, <2>2 DEF Types
    <3> QED BY <2>1, <3>1, SetNames
  <2>4. Types'
    <3>1. pc' \in [Processes -> {"off", "load a", "save a", "load b", "save b", "path", "legs", "ready"}]
      BY <1>2, <2>1 DEF Types
    <3>2. \A x \in Sets : file'[x] # Nothing => Usable(file'[x], spoils')
      BY <1>1, <1>2, <2>2, <2>3, SetNames DEF Types
    <3>3. overtaken' \in BOOLEAN
      BY <2>1
    <3> QED BY <1>1, <1>2, <2>3, <3>1, <3>2, <3>3 DEF Types
  <2>5. pc'[p] = "path" /\ \A q \in Processes \ {p} : Same(q)
    BY <1>1, <1>2, <2>1 DEF Types, Same
  <2>6. GuardsOK(p)' /\ LegsOK(p)' /\ ApartOK(p)'
    BY <1>1, <1>2, <1>4, <2>5 DEF GuardsOK, LegsOK, ApartOK, HasA, HasB
  <2>7. ASSUME Clean' PROVE FilesRule'
    <3>1. Clean /\ file["b"] = Nothing
      BY <1>1, <2>1, <2>7 DEF Clean
    <3>2. FilesRule
      BY <3>1 DEF PoolInv
    <3>3. \A q \in Processes : pc[q] \notin HasB \ {"save b"}
      <4>1. \A q \in Processes : guard_b[q] \subseteq Nodes
        BY <1>2 DEF Types
      <4> QED BY <3>1, <3>2, <4>1, IsSet DEF FilesRule
    <3>4. file["a"] = guard_a[p] /\ entries["b"] = {}
      BY <1>4, <3>1, <3>2, SetNames DEF FilesRule, HasA
    <3>5. \A q \in Processes : pc'[q] \in HasB \ {"save b"} => file'["b"] = guard_b'[q]
      BY <1>1, <2>3, <2>5, <3>3 DEF Same
    <3>6. \A q \in Processes : pc'[q] \in HasA \ {"save a"} => file'["a"] = guard_a'[q]
      BY <1>1, <2>3, <2>5, <3>2, <3>4 DEF Same, FilesRule
    <3>7. \A x \in Sets : IF file'[x] = Nothing THEN entries'[x] = {} ELSE entries'[x] \subseteq file'[x]
      BY <1>1, <2>3, <3>2, <3>4, SetNames DEF FilesRule
    <3>8. guard_a[p] \subseteq Nodes
      BY <1>2 DEF Types
    <3>9. file'["a"] # Nothing /\ file'["a"] \cap file'["b"] = {}
      BY <2>2, <2>3, <3>4, <3>8, IsSet
    <3> QED BY <3>5, <3>6, <3>7, <3>9 DEF FilesRule
  <2> QED BY <1>1, <2>1, <2>4, <2>5, <2>6, <2>7, ByStep
<1> QED BY <1>3, <1>4 DEF Save

-----------------------------------------------------------------------------
(* Paths                                                                   *)

LEMMA OneMore ==
  ASSUME NEW S, IsFiniteSet(S), NEW n \in Nat, Cardinality(S) <= n, NEW x
  PROVE  IsFiniteSet(S \cup {x}) /\ Cardinality(S \cup {x}) <= n + 1
<1>1. IsFiniteSet(S \cup {x}) /\ Cardinality(S \cup {x}) <= Cardinality(S) + 1
      /\ Cardinality(S \cup {x}) \in Nat /\ Cardinality(S) \in Nat
  BY AtMostOneMore
<1> QED BY <1>1

LEMMA AtMostFive ==
  ASSUME NEW v, NEW w, NEW x, NEW y, NEW z
  PROVE  IsFiniteSet({v, w, x, y, z}) /\ Cardinality({v, w, x, y, z}) <= 5
<1> DEFINE A == {v}
           B == {v, w}
           C == {v, w, x}
           D == {v, w, x, y}
           E == {v, w, x, y, z}
<1>1. B = A \cup {w}
  OBVIOUS
<1>2. C = B \cup {x}
  OBVIOUS
<1>3. D = C \cup {y}
  OBVIOUS
<1>4. E = D \cup {z}
  OBVIOUS
<1>5. IsFiniteSet(A) /\ Cardinality(A) = 1
  BY FS_Singleton, Zenon
<1> SUFFICES IsFiniteSet(E) /\ Cardinality(E) <= 5
  OBVIOUS
<1> HIDE DEF A, B, C, D, E
<1>6. ASSUME NEW S, NEW T, NEW u, IsFiniteSet(S), NEW n \in 1 .. 4, Cardinality(S) <= n, T = S \cup {u}
      PROVE  IsFiniteSet(T) /\ Cardinality(T) <= n + 1
  <2>1. n \in Nat
    OBVIOUS
  <2>2. IsFiniteSet(S \cup {u}) /\ Cardinality(S \cup {u}) <= n + 1
    BY <1>6, <2>1, OneMore
  <2> QED BY ONLY <1>6, <2>2, Zenon
<1>7. IsFiniteSet(B) /\ Cardinality(B) <= 1 + 1
  <2>1. Cardinality(A) <= 1 /\ 1 \in 1 .. 4
    BY <1>5
  <2> QED BY ONLY <1>1, <1>5, <1>6, <2>1
<1>8. IsFiniteSet(C) /\ Cardinality(C) <= 2 + 1
  <2>1. Cardinality(B) <= 2 /\ 2 \in 1 .. 4
    BY <1>7
  <2> QED BY ONLY <1>2, <1>6, <1>7, <2>1
<1>9. IsFiniteSet(D) /\ Cardinality(D) <= 3 + 1
  <2>1. Cardinality(C) <= 3 /\ 3 \in 1 .. 4
    BY <1>8
  <2> QED BY ONLY <1>3, <1>6, <1>8, <2>1
<1>10. IsFiniteSet(E) /\ Cardinality(E) <= 4 + 1
  <2>1. Cardinality(D) <= 4 /\ 4 \in 1 .. 4
    BY <1>9
  <2> QED BY ONLY <1>4, <1>6, <1>9, <2>1
<1> QED BY <1>10

\* The entries of the two paths are guards of the set they were drawn from.
LEMMA EntriesKeep ==
  ASSUME PoolInv, NEW p \in Processes, \A q \in Processes : guard_a'[q] = guard_a[q],
         \A q \in Processes : guard_b'[q] = guard_b[q],
         file' = file, overtaken' = overtaken, spoils' = spoils,
         pc[p] \in {"path", "legs"}, pc'[p] \in {"legs", "ready"},
         \A q \in Processes \ {p} : pc'[q] = pc[q],
         entries'["a"] \subseteq entries["a"] \cup guard_a[p],
         entries'["b"] \subseteq entries["b"] \cup guard_b[p]
  PROVE  Clean' => FilesRule'
<1> SUFFICES ASSUME Clean PROVE FilesRule'
  BY DEF Clean
<1>1. FilesRule /\ Types
  BY DEF PoolInv
<1>2. file["a"] = guard_a[p] /\ file["b"] = guard_b[p]
  BY <1>1 DEF FilesRule, HasA, HasB
<1>3. file["a"] # Nothing /\ file["b"] # Nothing
  <2>1. guard_a[p] \subseteq Nodes /\ guard_b[p] \subseteq Nodes
    BY <1>1 DEF Types
  <2> QED BY <1>2, <2>1, IsSet
<1>4. \A x \in Sets : IF file'[x] = Nothing THEN entries'[x] = {} ELSE entries'[x] \subseteq file'[x]
  <2>1. entries["a"] \subseteq file["a"] /\ entries["b"] \subseteq file["b"]
    BY <1>1, <1>3, SetNames DEF FilesRule
  <2> QED BY <1>2, <1>3, <2>1, SetNames
<1>5. \A q \in Processes : pc'[q] \in HasA \ {"save a"} => file["a"] = guard_a'[q]
  BY <1>1, <1>2 DEF FilesRule
<1>6. \A q \in Processes : pc'[q] \in HasB \ {"save b"} => file["b"] = guard_b'[q]
  BY <1>1, <1>2 DEF FilesRule
<1> QED BY <1>1, <1>4, <1>5, <1>6 DEF FilesRule

LEMMA SetsApart ==
  ASSUME PoolInv, Clean, NEW p \in Processes
  PROVE  guard_a[p] \cap guard_b[p] = {}
<1> SUFFICES ASSUME guard_a[p] \cap guard_b[p] # {} PROVE FALSE
  OBVIOUS
<1>1. GuardsOK(p) /\ FilesRule
  BY DEF PoolInv
<1>2. pc[p] \in HasB /\ pc[p] # "save b"
  BY <1>1 DEF GuardsOK
<1>3. file["a"] = guard_a[p] /\ file["b"] = guard_b[p]
  BY <1>1, <1>2 DEF FilesRule, HasA, HasB
<1>4. file["b"] # Nothing
  BY <1>3, IsSet DEF PoolInv, Types
<1> QED BY <1>1, <1>3, <1>4 DEF FilesRule

\* With striping a session takes one guard of set A and at most five other
\* nodes, whichever of its paths is built as path A.
LEMMA SessionUses ==
  ASSUME NEW s \in [a : Path, b : Path], NEW t \in SwapByProbe(s), NEW G,
         s.a.entry \in G, G \cap ({s.a.mid, s.a.last} \cup Hops(s.b)) = {}
  PROVE  LET U == Hops(t.a) \cup Hops(t.b) IN
         /\ U \subseteq Nodes
         /\ Cardinality(U \cap G) <= 1 /\ Cardinality(U \ G) <= 5
<1> DEFINE U == Hops(t.a) \cup Hops(t.b)
<1>1. U = Hops(s.a) \cup Hops(s.b)
  BY DEF SwapByProbe
<1>2. U = {s.a.entry} \cup {s.a.mid, s.a.last, s.b.entry, s.b.mid, s.b.last}
  BY <1>1 DEF Hops
<1>3. U \subseteq Nodes
  BY <1>2 DEF Path
<1>4. U \cap G = {s.a.entry}
  BY <1>2 DEF Hops
<1>5. U \ G \subseteq {s.a.mid, s.a.last, s.b.entry, s.b.mid, s.b.last}
  BY <1>2
<1>6. Cardinality(U \cap G) = 1
  BY <1>4, FS_Singleton
<1>7. Cardinality(U \ G) <= 5
  <2> DEFINE F == {s.a.mid, s.a.last, s.b.entry, s.b.mid, s.b.last}
  <2>1. IsFiniteSet(F) /\ Cardinality(F) <= 5 /\ Cardinality(F) \in Nat
    BY AtMostFive, FS_CardinalityType
  <2>2. U \ G \subseteq F
    BY <1>5
  <2> HIDE DEF F, U
  <2>3. Cardinality(U \ G) \in Nat /\ Cardinality(U \ G) <= Cardinality(F)
    BY <2>1, <2>2, SmallerSet
  <2> QED BY <2>1, <2>3
<1> QED BY <1>3, <1>6, <1>7

LEMMA BuildPathsKeeps ==
  ASSUME PoolInv, NEW p \in Processes, BuildPaths(p)
  PROVE  PoolInv'
<1>1. /\ pc[p] = "path" /\ pc' = [pc EXCEPT ![p] = IF n_legs[p] > 1 THEN "legs" ELSE "ready"]
      /\ UNCHANGED <<file, n_legs, guard_a, guard_b, legs, starts, spoils, overtaken>>
  BY DEF BuildPaths, Goto
<1>2. PICK s \in build_session_path(guard_a[p], guard_b[p]) :
        /\ n_legs[p] > 1 => ~path_uses_other_guard_a(p, s)
        /\ \E t \in SwapByProbe(s) :
             /\ session' = [session EXCEPT ![p] = t]
             /\ entries' = [entries EXCEPT !["a"] = @ \cup {s.a.entry}, !["b"] = @ \cup {s.b.entry}]
  BY DEF BuildPaths
<1>3. PICK t \in SwapByProbe(s) :
        /\ session' = [session EXCEPT ![p] = t]
        /\ entries' = [entries EXCEPT !["a"] = @ \cup {s.a.entry}, !["b"] = @ \cup {s.b.entry}]
  BY <1>2
<1>4. Types /\ GuardsOK(p) /\ LegsOK(p) /\ ApartOK(p)
  BY DEF PoolInv
<1>5. /\ s \in [a : Path, b : Path] /\ s.a.entry \in guard_a[p] /\ s.b.entry \in guard_b[p]
      /\ guard_a[p] \subseteq Nodes /\ guard_b[p] \subseteq Nodes
      /\ s.a.entry # s.b.entry => Different(s.a.entry, s.b.entry, s.a.mid, s.a.last, s.b.mid, s.b.last)
  <2>1. guard_a[p] \subseteq Nodes /\ guard_b[p] \subseteq Nodes
    BY <1>4 DEF Types
  <2> QED BY <1>2, <2>1, SessionIs
<1>6. t \in [a : Path, b : Path]
  BY <1>5 DEF SwapByProbe
<1>7. /\ entries'["a"] = entries["a"] \cup {s.a.entry} /\ entries'["b"] = entries["b"] \cup {s.b.entry}
      /\ entries' \in [Sets -> SUBSET Nodes]
  <2>1. entries \in [Sets -> SUBSET Nodes]
    BY <1>4 DEF Types
  <2> QED BY <1>3, <1>5, <2>1, SetNames
<1>8. Types'
  <2>1. pc' \in [Processes -> {"off", "load a", "save a", "load b", "save b", "path", "legs", "ready"}]
    BY <1>1, <1>4 DEF Types
  <2>2. session' \in [Processes -> [a : Path, b : Path] \cup {Nothing}]
    BY <1>3, <1>4, <1>6 DEF Types
  <2> QED BY <1>1, <1>4, <1>7, <2>1, <2>2 DEF Types
<1>9. /\ pc'[p] = IF n_legs[p] > 1 THEN "legs" ELSE "ready"
      /\ session'[p] = t /\ \A q \in Processes \ {p} : Same(q)
  BY <1>1, <1>3, <1>4 DEF Types, Same
<1>10. GuardsOK(p)'
  <2>1. pc'[p] \in {"legs", "ready"}
    BY <1>9
  <2>2. Usable(guard_a[p], spoils) /\ Usable(guard_b[p], spoils)
    BY <1>1, <1>4 DEF GuardsOK, HasA, HasB
  <2>3. guard_a' = guard_a /\ guard_b' = guard_b /\ spoils' = spoils
    BY <1>1
  <2> QED BY <2>1, <2>2, <2>3 DEF GuardsOK, HasA, HasB
<1>11. LegsOK(p)'
  <2>1. CASE n_legs[p] > 1
    <3>1. legs'[p] = <<>> /\ legs' = legs /\ n_legs' = n_legs /\ guard_a' = guard_a /\ pc'[p] = "legs"
      BY <1>1, <1>4, <1>9, <2>1 DEF LegsOK
    <3>2. InUse(p)' = Hops(t.a) \cup Hops(t.b)
      BY <1>9, <3>1 DEF InUse
    <3>3. guard_a[p] \cap ({s.a.mid, s.a.last} \cup Hops(s.b)) = {}
      BY <1>2, <2>1 DEF path_uses_other_guard_a
    <3> DEFINE U == Hops(t.a) \cup Hops(t.b)
    <3>4. U \subseteq Nodes /\ Cardinality(U \cap guard_a[p]) <= 1 /\ Cardinality(U \ guard_a[p]) <= 5
      BY <1>5, <3>3, SessionUses
    <3>5. InUse(p)' = U
      BY <3>2
    <3> HIDE DEF U
    <3>6. Len(<<>>) = 0 /\ n_legs[p] \in Int
      <4>1. n_legs[p] \in 1 .. GUARD_SET_SIZE
        BY <1>4 DEF Types
      <4> QED BY <4>1
    <3> QED BY <2>1, <3>1, <3>4, <3>5, <3>6 DEF LegsOK
  <2>2. CASE ~(n_legs[p] > 1)
    BY <1>9, <2>2 DEF LegsOK
  <2> QED BY <2>1, <2>2
<1>12. Clean' => FilesRule'
  <2>1. entries'["a"] \subseteq entries["a"] \cup guard_a[p]
        /\ entries'["b"] \subseteq entries["b"] \cup guard_b[p]
    BY <1>5, <1>7
  <2> QED BY <1>1, <1>9, <2>1, EntriesKeep DEF Same
<1>13. ApartOK(p)'
  <2>1. legs'[p] = <<>> /\ session'[p] = t /\ Len(<<>>) = 0 /\ pc'[p] \in {"legs", "ready"}
    BY <1>1, <1>4, <1>9 DEF LegsOK
  <2>2. InUse(p)' = {s.a.entry, s.b.entry, s.a.mid, s.a.last, s.b.mid, s.b.last}
    <3>1. InUse(p)' = Hops(t.a) \cup Hops(t.b)
      BY <2>1 DEF InUse
    <3>2. t = s \/ (t.a = s.b /\ t.b = s.a)
      BY <1>3 DEF SwapByProbe
    <3> QED BY <3>1, <3>2 DEF Hops
  <2>3. CASE s.a.entry # s.b.entry
    <3>1. Different(s.a.entry, s.b.entry, s.a.mid, s.a.last, s.b.mid, s.b.last)
      BY <1>5, <2>3
    <3>2. Cardinality({s.a.entry, s.b.entry, s.a.mid, s.a.last, s.b.mid, s.b.last}) = 6
      BY <3>1, SixNodes
    <3>3. Cardinality(InUse(p)') = 6
      BY <2>2, <3>2, Zenon
    <3> QED BY <2>1, <3>3 DEF ApartOK
  <2>4. CASE s.a.entry = s.b.entry
    <3>1. s.a.entry \in guard_a[p] \cap guard_b[p]
      BY <1>5, <2>4
    <3>2. ~Clean
      BY <3>1, SetsApart
    <3>3. ~(n_legs[p] > 1)
      BY <1>2, <1>5, <2>4 DEF path_uses_other_guard_a, Hops
    <3>4. n_legs[p] = 1
      <4>1. n_legs[p] \in 1 .. GUARD_SET_SIZE
        BY <1>4 DEF Types
      <4> QED BY <3>3, <4>1
    <3>5. n_legs'[p] = 1 /\ ~Clean'
      BY <1>1, <3>2, <3>4 DEF Clean
    <3> QED BY <2>1, <3>5 DEF ApartOK
  <2> QED BY <2>3, <2>4
<1> QED BY <1>1, <1>8, <1>9, <1>10, <1>11, <1>12, <1>13, ByStep

LEMMA ExtraLegIs ==
  ASSUME NEW p \in Processes, NEW l \in ExtraLegs(p), guard_a[p] \subseteq Nodes
  PROVE  /\ l \in Path /\ l.entry \in guard_a[p]
         /\ l.mid \notin guard_a[p] /\ l.last \notin guard_a[p] /\ l.mid # l.last
         /\ l.entry \notin InUse(p) /\ l.mid \notin InUse(p) /\ l.last \notin InUse(p)
<1> DEFINE Free(e) == Extreme(weighted_draw_excluding(guard_a[p] \cup InUse(p) \cup e))
           Legs1(e, m) == [entry : guard_a[p] \ InUse(p), mid : {m}, last : Free({e, m})]
<1>1. PICK e \in guard_b[p] : l \in UNION {Legs1(e, m) : m \in Free({e})}
  BY DEF ExtraLegs
<1>2. PICK m \in Free({e}) : l \in Legs1(e, m)
  BY <1>1
<1>3. l.entry \in guard_a[p] \ InUse(p) /\ l.mid = m /\ l.last \in Free({e, m})
      /\ l = [entry |-> l.entry, mid |-> l.mid, last |-> l.last]
  BY <1>2
<1>4. m \in Nodes \ (guard_a[p] \cup InUse(p))
      /\ l.last \in Nodes \ (guard_a[p] \cup InUse(p) \cup {m})
  BY <1>2, <1>3 DEF Extreme, weighted_draw_excluding
<1> HIDE DEF Free, Legs1
<1> QED BY <1>3, <1>4 DEF Path

\* One more leg in use.
LEMMA InUseGrows ==
  ASSUME NEW p \in Processes, NEW l \in Path, legs[p] \in Seq(Path),
         session'[p] = session[p], legs'[p] = Append(legs[p], l)
  PROVE  InUse(p)' = InUse(p) \cup {l.entry, l.mid, l.last}
<1> DEFINE k == Len(legs[p])
<1>1. \A i \in 1 .. k : Append(legs[p], l)[i] = legs[p][i]
  OBVIOUS
<1>2. Append(legs[p], l)[k + 1] = l /\ Len(Append(legs[p], l)) = k + 1
  OBVIOUS
<1>3. 1 .. (k + 1) = (1 .. k) \cup {k + 1}
  OBVIOUS
<1> DEFINE S == {Hops(legs[p][i]) : i \in 1 .. k}
           T == {Hops(legs'[p][i]) : i \in 1 .. Len(legs'[p])}
<1>4. T = S \cup {Hops(l)}
  <2> DEFINE A == Append(legs[p], l)
  <2>1. Len(A) = k + 1 /\ legs'[p] = A
    BY <1>2
  <2>2. \A i \in 1 .. k : A[i] = legs[p][i]
    BY <1>1
  <2>3. A[k + 1] = l
    BY <1>2
  <2>4. T = {Hops(A[i]) : i \in (1 .. k) \cup {k + 1}}
    BY <1>3, <2>1
  <2> HIDE DEF A
  <2> QED BY <2>2, <2>3, <2>4
<1>5. InUse(p)' = Hops(session[p].a) \cup Hops(session[p].b) \cup UNION T
  BY DEF InUse
<1>6. InUse(p) = Hops(session[p].a) \cup Hops(session[p].b) \cup UNION S
  BY DEF InUse
<1> HIDE DEF S, T
<1> QED BY <1>4, <1>5, <1>6 DEF Hops

LEMMA ExtraLegKeeps ==
  ASSUME PoolInv, NEW p \in Processes, build_extra_legs(p)
  PROVE  PoolInv'
<1>1. /\ pc[p] = "legs"
      /\ pc' = [pc EXCEPT ![p] = IF Len(legs[p]) + 2 = n_legs[p] THEN "ready" ELSE "legs"]
      /\ UNCHANGED <<file, n_legs, guard_a, guard_b, session, starts, spoils, overtaken>>
  BY DEF build_extra_legs, Goto
<1>2. PICK l \in ExtraLegs(p) :
        /\ legs' = [legs EXCEPT ![p] = Append(legs[p], l)]
        /\ entries' = [entries EXCEPT !["a"] = entries["a"] \cup {l.entry}]
  BY DEF build_extra_legs
<1>3. Types /\ GuardsOK(p) /\ LegsOK(p) /\ ApartOK(p)
  BY DEF PoolInv
<1>4. guard_a[p] \subseteq Nodes /\ legs[p] \in Seq(Path) /\ n_legs[p] \in Int
  <2>1. n_legs[p] \in 1 .. GUARD_SET_SIZE /\ guard_a[p] \in SUBSET Nodes /\ legs[p] \in Seq(Path)
    BY <1>3 DEF Types
  <2> QED BY <2>1
<1>5. /\ l \in Path /\ l.entry \in guard_a[p]
      /\ l.mid \notin guard_a[p] /\ l.last \notin guard_a[p] /\ l.mid # l.last
      /\ l.entry \notin InUse(p) /\ l.mid \notin InUse(p) /\ l.last \notin InUse(p)
  BY <1>4, ExtraLegIs
<1>6. /\ entries'["a"] = entries["a"] \cup {l.entry} /\ entries'["b"] = entries["b"]
      /\ entries' \in [Sets -> SUBSET Nodes]
  <2>1. entries \in [Sets -> SUBSET Nodes] /\ l.entry \in Nodes
    BY <1>3, <1>4, <1>5 DEF Types
  <2> QED BY <1>2, <2>1, SetNames
<1>7. Append(legs[p], l) \in Seq(Path) /\ Len(Append(legs[p], l)) = Len(legs[p]) + 1
      /\ Len(legs[p]) \in Nat
  BY <1>4, <1>5
<1>8. Types'
  <2>1. pc' \in [Processes -> {"off", "load a", "save a", "load b", "save b", "path", "legs", "ready"}]
    BY <1>1, <1>3 DEF Types
  <2>2. legs' \in [Processes -> Seq(Path)]
    BY <1>2, <1>3, <1>7 DEF Types
  <2> QED BY <1>1, <1>3, <1>6, <2>1, <2>2 DEF Types
<1>9. /\ pc'[p] = IF Len(legs[p]) + 2 = n_legs[p] THEN "ready" ELSE "legs"
      /\ legs'[p] = Append(legs[p], l) /\ \A q \in Processes \ {p} : Same(q)
  BY <1>1, <1>2, <1>3 DEF Types, Same
<1>10. GuardsOK(p)'
  <2>1. pc'[p] \in {"legs", "ready"}
    BY <1>9
  <2>2. Usable(guard_a[p], spoils) /\ Usable(guard_b[p], spoils)
    BY <1>1, <1>3 DEF GuardsOK, HasA, HasB
  <2>3. guard_a' = guard_a /\ guard_b' = guard_b /\ spoils' = spoils
    BY <1>1
  <2> QED BY <2>1, <2>2, <2>3 DEF GuardsOK, HasA, HasB
<1>11. LegsOK(p)'
  <2> DEFINE U == InUse(p)
             V == U \cup {l.entry, l.mid, l.last}
             G == guard_a[p]
             k == Len(legs[p])
  <2>1. k + 2 <= n_legs[p] /\ U \subseteq Nodes /\ Cardinality(U \cap G) <= k + 1
        /\ Cardinality(U \ G) <= 2 * k + 5
    BY <1>1, <1>3 DEF LegsOK
  <2>2. InUse(p)' = V
    BY <1>1, <1>4, <1>5, <1>9, InUseGrows
  <2>3. l.entry \in Nodes /\ l.mid \in Nodes /\ l.last \in Nodes
    BY <1>5 DEF Path
  <2>4. legs'[p] = Append(legs[p], l) /\ Len(legs'[p]) = k + 1 /\ guard_a'[p] = G /\ n_legs'[p] = n_legs[p]
    BY <1>1, <1>7, <1>9
  <2> HIDE DEF U
  <2> DEFINE UG == U \cap G
             UO == U \ G
             VG == V \cap G
             VO == V \ G
             UM == UO \cup {l.mid}
  <2>5. VG = UG \cup {l.entry} /\ VO = UM \cup {l.last}
    BY <1>5
  <2>6. IsFiniteSet(UG) /\ IsFiniteSet(UO) /\ Cardinality(UG) <= k + 1 /\ Cardinality(UO) <= 2 * k + 5
        /\ k + 1 \in Nat /\ 2 * k + 5 \in Nat /\ 2 * k + 6 \in Nat
    <3>1. UG \subseteq Nodes /\ UO \subseteq Nodes
      BY <2>1
    <3>2. Cardinality(UG) <= k + 1 /\ Cardinality(UO) <= 2 * k + 5
      BY <2>1
    <3> HIDE DEF UG, UO
    <3> QED BY <1>7, <3>1, <3>2, SomeNodes
  <2>7. Cardinality(VG) <= (k + 1) + 1
    <3> HIDE DEF UG, VG, k
    <3>1. Cardinality(UG \cup {l.entry}) <= (k + 1) + 1
      BY <2>6, OneMore
    <3>2. VG = UG \cup {l.entry}
      BY <2>5
    <3> QED BY <3>1, <3>2, Zenon
  <2>8. Cardinality(VO) <= 2 * k + 7
    <3> HIDE DEF UO, VO
    <3>1. IsFiniteSet(UM) /\ Cardinality(UM) <= 2 * k + 6
      <4>1. IsFiniteSet(UM) /\ Cardinality(UM) <= (2 * k + 5) + 1
        BY <2>6, OneMore
      <4> QED BY <1>7, <4>1
    <3> HIDE DEF UM
    <3>2. Cardinality(UM \cup {l.last}) <= (2 * k + 6) + 1
      BY <2>6, <3>1, OneMore
    <3>3. VO = UM \cup {l.last}
      BY <2>5
    <3>4. Cardinality(VO) <= (2 * k + 6) + 1
      BY <3>2, <3>3, Zenon
    <3> QED BY <1>7, <3>4
  <2>9. V \subseteq Nodes
    BY <2>1, <2>3 DEF V
  <2>10. pc'[p] = "legs" => k + 3 <= n_legs[p]
    BY <1>4, <1>7, <1>9, <2>1
  <2>11. pc'[p] \in {"legs", "ready"}
    BY <1>9
  <2>12. Cardinality(V \cap G) <= (k + 1) + 1 /\ Cardinality(V \ G) <= 2 * (k + 1) + 5
         /\ (pc'[p] = "legs" => (k + 1) + 2 <= n_legs[p])
    BY <1>4, <1>7, <2>7, <2>8, <2>10
  <2> HIDE DEF k
  <2> QED BY <2>2, <2>4, <2>9, <2>11, <2>12 DEF LegsOK
<1>12. Clean' => FilesRule'
  <2>1. entries'["a"] \subseteq entries["a"] \cup guard_a[p]
        /\ entries'["b"] \subseteq entries["b"] \cup guard_b[p]
    BY <1>5, <1>6
  <2> QED BY <1>1, <1>9, <2>1, EntriesKeep DEF Same
<1>13. ApartOK(p)'
  <2> DEFINE U == InUse(p)
             k == Len(legs[p])
  <2>1. InUse(p)' = ((U \cup {l.entry}) \cup {l.mid}) \cup {l.last}
    <3>1. InUse(p)' = U \cup {l.entry, l.mid, l.last}
      BY <1>1, <1>4, <1>5, <1>9, InUseGrows
    <3> QED BY <3>1
  <2>2. U \subseteq Nodes /\ k + 2 <= n_legs[p] /\ k \in Nat
    BY <1>1, <1>3, <1>7 DEF LegsOK
  <2>3. pc'[p] \in {"legs", "ready"} /\ session'[p] = session[p] /\ Len(legs'[p]) = k + 1
    BY <1>1, <1>7, <1>9
  <2>4. ASSUME session[p] # Nothing PROVE Cardinality(InUse(p)') = 6 + 3 * (k + 1)
    <3>1. Cardinality(U) = 6 + 3 * k
      <4>1. n_legs[p] # 1
        BY <2>2
      <4> QED BY <1>3, <2>4, <4>1 DEF ApartOK
    <3>2. IsFiniteSet(U) /\ 6 + 3 * k \in Nat
      BY <2>2, SomeNodes
    <3>3. l.entry \notin U /\ l.mid \notin U \cup {l.entry} /\ l.last \notin (U \cup {l.entry}) \cup {l.mid}
      BY <1>5
    <3> HIDE DEF U, k
    <3>4. IsFiniteSet(U \cup {l.entry}) /\ Cardinality(U \cup {l.entry}) = (6 + 3 * k) + 1
      BY <3>1, <3>2, <3>3, OneNew
    <3>5. IsFiniteSet((U \cup {l.entry}) \cup {l.mid})
          /\ Cardinality((U \cup {l.entry}) \cup {l.mid}) = ((6 + 3 * k) + 1) + 1
      <4>1. (6 + 3 * k) + 1 \in Nat
        BY <3>2
      <4> QED BY <3>3, <3>4, <4>1, OneNew
    <3>6. Cardinality(((U \cup {l.entry}) \cup {l.mid}) \cup {l.last}) = (((6 + 3 * k) + 1) + 1) + 1
      <4>1. ((6 + 3 * k) + 1) + 1 \in Nat
        BY <3>2
      <4> QED BY <3>3, <3>5, <4>1, OneNew
    <3>7. (((6 + 3 * k) + 1) + 1) + 1 = 6 + 3 * (k + 1)
      BY <2>2
    <3> QED BY <2>1, <3>6, <3>7, Zenon
  <2> HIDE DEF U, k
  <2> QED BY <2>3, <2>4 DEF ApartOK
<1> QED BY <1>1, <1>8, <1>9, <1>10, <1>11, <1>12, <1>13, ByStep

-----------------------------------------------------------------------------
(* Ends, lost files, and the whole                                         *)

LEMMA EndsKeeps ==
  ASSUME PoolInv, NEW p \in Processes, Ends(p)
  PROVE  PoolInv'
<1>1. /\ pc' = [pc EXCEPT ![p] = "off"]
      /\ guard_a' = [guard_a EXCEPT ![p] = {}] /\ guard_b' = [guard_b EXCEPT ![p] = {}]
      /\ session' = [session EXCEPT ![p] = Nothing] /\ legs' = [legs EXCEPT ![p] = <<>>]
      /\ n_legs' = [n_legs EXCEPT ![p] = 1]
      /\ UNCHANGED <<file, starts, spoils, entries, overtaken>>
  BY DEF Ends, Goto
<1>2. Types
  BY DEF PoolInv
<1>3. Types'
  <2>1. pc' \in [Processes -> {"off", "load a", "save a", "load b", "save b", "path", "legs", "ready"}]
    BY <1>1, <1>2 DEF Types
  <2>2. n_legs' \in [Processes -> 1 .. GUARD_SET_SIZE]
    <3>1. 1 \in 1 .. GUARD_SET_SIZE
      OBVIOUS
    <3> QED BY <1>1, <1>2, <3>1 DEF Types
  <2>3. guard_a' \in [Processes -> SUBSET Nodes] /\ guard_b' \in [Processes -> SUBSET Nodes]
    BY <1>1, <1>2 DEF Types
  <2>4. session' \in [Processes -> [a : Path, b : Path] \cup {Nothing}]
    BY <1>1, <1>2 DEF Types
  <2>5. legs' \in [Processes -> Seq(Path)]
    <3>1. <<>> \in Seq(Path)
      OBVIOUS
    <3> QED BY <1>1, <1>2, <3>1 DEF Types
  <2> QED BY <1>1, <1>2, <2>1, <2>2, <2>3, <2>4, <2>5 DEF Types
<1>4. /\ pc'[p] = "off" /\ guard_a'[p] = {} /\ guard_b'[p] = {} /\ legs'[p] = <<>> /\ session'[p] = Nothing
      /\ \A q \in Processes \ {p} : Same(q)
  BY <1>1, <1>2 DEF Types, Same
<1>5. GuardsOK(p)' /\ LegsOK(p)' /\ ApartOK(p)'
  BY <1>4 DEF GuardsOK, LegsOK, ApartOK, HasA, HasB
<1>6. Clean' => FilesRule'
  BY <1>1, <1>4, FilesStay DEF HasA, HasB
<1> QED BY <1>1, <1>3, <1>4, <1>5, <1>6, ByStep

LEMMA SpoilKeeps ==
  ASSUME PoolInv, NEW x \in Sets, Spoil(x)
  PROVE  PoolInv'
<1>1. /\ spoils < MaxSpoils /\ file[x] # Nothing /\ spoils' = spoils + 1
      /\ UNCHANGED <<pc, n_legs, guard_a, guard_b, session, legs, starts, entries, overtaken>>
  BY DEF Spoil
<1>2. PICK g \in ((SUBSET file[x]) \ {{}, file[x]}) \cup {Nothing} : file' = [file EXCEPT ![x] = g]
  BY DEF Spoil
<1>3. Types
  BY DEF PoolInv
<1>4. spoils' \in 0 .. MaxSpoils /\ spoils' # 0
  <2>1. spoils \in 0 .. MaxSpoils /\ MaxSpoils \in Nat
    BY <1>3 DEF Types
  <2> QED BY <1>1, <2>1
<1>5. g # Nothing => Usable(g, spoils')
  <2> SUFFICES ASSUME g # Nothing PROVE Usable(g, spoils')
    OBVIOUS
  <2>1. g \subseteq file[x] /\ g # {}
    BY <1>2
  <2>2. file[x] \subseteq Nodes /\ Cardinality(file[x]) \in 1 .. GUARD_SET_SIZE
    BY <1>1, <1>3 DEF Types, Usable
  <2>3. IsFiniteSet(file[x])
    BY <2>2, SomeNodes
  <2>4. IsFiniteSet(g) /\ Cardinality(g) \in Nat /\ Cardinality(g) <= Cardinality(file[x])
    BY <2>1, <2>3, SmallerSet
  <2>5. Cardinality(g) # 0
    BY <2>1, <2>4, FS_EmptySet
  <2>6. Cardinality(g) \in 1 .. GUARD_SET_SIZE
    BY <2>2, <2>4, <2>5
  <2> QED BY <1>4, <2>1, <2>2, <2>6 DEF Usable
<1>6. Types'
  <2> DEFINE F == (SUBSET Nodes) \cup {Nothing}
  <2>1. file \in [Sets -> F] /\ g \in F
    BY <1>3, <1>5 DEF Types, Usable
  <2> HIDE DEF F
  <2>2. file' \in [Sets -> F] /\ \A y \in Sets : file'[y] = IF y = x THEN g ELSE file[y]
    BY ONLY <1>2, <2>1
  <2>3. \A y \in Sets : file[y] # Nothing => Usable(file[y], spoils')
    BY <1>3, <1>4 DEF Types, Usable
  <2>4. \A y \in Sets : file'[y] # Nothing => Usable(file'[y], spoils')
    BY <1>5, <2>2, <2>3
  <2>5. file' \in [Sets -> (SUBSET Nodes) \cup {Nothing}]
    BY <2>2 DEF F
  <2> QED BY <1>1, <1>3, <1>4, <2>4, <2>5 DEF Types
<1>7. ~Clean'
  BY <1>4 DEF Clean
<1>8. \A q \in Processes : GuardsOK(q)' /\ LegsOK(q)' /\ ApartOK(q)'
  <2>1. \A q \in Processes : Same(q)
    BY <1>1 DEF Same
  <2> QED BY <1>4, <1>7, <2>1, OthersStay DEF PoolInv
<1> QED BY <1>6, <1>7, <1>8 DEF PoolInv

LEMMA InitHolds == Init => PoolInv
<1> SUFFICES ASSUME Init PROVE PoolInv
  OBVIOUS
<1>1. Types
  <2>1. 1 \in 1 .. GUARD_SET_SIZE /\ 0 \in 0 .. MaxStarts /\ 0 \in 0 .. MaxSpoils /\ <<>> \in Seq(Path)
    OBVIOUS
  <2> DEFINE F == (SUBSET Nodes) \cup {Nothing}
  <2>2. Nothing \in F /\ file = [x \in Sets |-> Nothing]
    BY DEF Init
  <2> HIDE DEF F
  <2>3. file \in [Sets -> F] /\ \A x \in Sets : file[x] = Nothing
    BY ONLY <2>2
  <2> USE DEF F
  <2>4. entries \in [Sets -> SUBSET Nodes]
    BY DEF Init
  <2>5. entries \in [Sets -> SUBSET Nodes] /\ file \in [Sets -> (SUBSET Nodes) \cup {Nothing}]
        /\ \A x \in Sets : file[x] = Nothing
    BY <2>3, <2>4, Zenon
  <2>6. /\ guard_a \in [Processes -> SUBSET Nodes] /\ guard_b \in [Processes -> SUBSET Nodes]
        /\ session \in [Processes -> [a : Path, b : Path] \cup {Nothing}]
        /\ legs \in [Processes -> Seq(Path)] /\ n_legs \in [Processes -> 1 .. GUARD_SET_SIZE]
    BY <2>1 DEF Init
  <2>7. pc \in [Processes -> {"off", "load a", "save a", "load b", "save b", "path", "legs", "ready"}]
    BY DEF Init
  <2> QED BY <2>1, <2>5, <2>6, <2>7 DEF Init, Types
<1>2. \A p \in Processes : GuardsOK(p) /\ LegsOK(p) /\ ApartOK(p)
  BY DEF Init, GuardsOK, LegsOK, ApartOK, HasA, HasB
<1>3. FilesRule
  BY SetNames DEF Init, FilesRule, HasA, HasB
<1> QED BY <1>1, <1>2, <1>3 DEF PoolInv

LEMMA StepHolds == PoolInv /\ [Next]_vars => PoolInv'
<1> SUFFICES ASSUME PoolInv, [Next]_vars PROVE PoolInv'
  OBVIOUS
<1>1. ASSUME NEW p \in Processes,
             Start(p) \/ LoadA(p) \/ LoadB(p) \/ Save(p) \/ BuildPaths(p) \/ build_extra_legs(p) \/ Ends(p)
      PROVE  PoolInv'
  <2>1. CASE Start(p)
    BY <2>1, StartKeeps
  <2>2. CASE LoadA(p)
    BY <2>2, LoadAKeeps
  <2>3. CASE LoadB(p)
    BY <2>3, LoadBKeeps
  <2>4. CASE Save(p)
    BY <2>4, SaveKeeps
  <2>5. CASE BuildPaths(p)
    BY <2>5, BuildPathsKeeps
  <2>6. CASE build_extra_legs(p)
    BY <2>6, ExtraLegKeeps
  <2>7. CASE Ends(p)
    BY <2>7, EndsKeeps
  <2> QED BY <1>1, <2>1, <2>2, <2>3, <2>4, <2>5, <2>6, <2>7
<1>2. ASSUME NEW x \in Sets, Spoil(x) PROVE PoolInv'
  BY <1>2, SpoilKeeps
<1>3. CASE UNCHANGED vars
  <2>1. UNCHANGED <<file, pc, n_legs, guard_a, guard_b, session, legs, starts, spoils, entries, overtaken>>
    BY <1>3 DEF vars
  <2>2. \A q \in Processes : GuardsOK(q)' /\ LegsOK(q)' /\ ApartOK(q)'
    <3>1. \A q \in Processes : Same(q)
      BY <2>1 DEF Same
    <3>2. Clean' => Clean
      BY <2>1 DEF Clean
    <3> QED BY <2>1, <3>1, <3>2, OthersStay DEF PoolInv
  <2>3. Types'
    BY <2>1 DEF PoolInv, Types
  <2>4. Clean' => FilesRule'
    BY <2>1 DEF PoolInv, Clean, FilesRule
  <2> QED BY <2>2, <2>3, <2>4 DEF PoolInv
<1> QED BY <1>1, <1>2, <1>3 DEF Next

-----------------------------------------------------------------------------
(* What the invariant says                                                 *)

LEMMA TypesHold == PoolInv => TypeOK
<1> SUFFICES ASSUME PoolInv PROVE TypeOK
  OBVIOUS
<1>1. Types
  BY DEF PoolInv
<1> DEFINE Guards(g) == /\ g \subseteq Nodes /\ Cardinality(g) \in 0 .. GUARD_SET_SIZE
                        /\ spoils = 0 => Cardinality(g) \in {0, GUARD_SET_SIZE}
<1>2. ASSUME NEW g, Usable(g, spoils) \/ g = {} PROVE Guards(g)
  <2>1. CASE Usable(g, spoils)
    BY <2>1 DEF Usable
  <2>2. CASE g = {}
    <3>1. Cardinality(g) = 0
      BY <2>2, FS_EmptySet, Zenon
    <3> QED BY <2>2, <3>1
  <2> QED BY <1>2, <2>1, <2>2
<1> HIDE DEF Guards
<1>3. \A p \in Processes : Guards(guard_a[p]) /\ Guards(guard_b[p])
  BY <1>2 DEF PoolInv, GuardsOK
<1>4. \A x \in Sets : file[x] # Nothing => Guards(file[x])
  BY <1>1, <1>2 DEF Types
<1> QED BY <1>1, <1>3, <1>4 DEF Types, TypeOK, Guards

LEMMA OverlapExplained == PoolInv => OverlapOnlyBy
<1> SUFFICES ASSUME PoolInv, NEW p \in Processes, guard_a[p] \cap guard_b[p] # {}
             PROVE  overtaken \/ spoils > 0
  BY DEF OverlapOnlyBy
<1>1. ~Clean
  BY SetsApart
<1>2. spoils \in Nat
  <2>1. spoils \in 0 .. MaxSpoils
    BY DEF PoolInv, Types
  <2> QED BY <2>1
<1> QED BY <1>1, <1>2 DEF Clean

LEMMA FewEntries == PoolInv => EntriesStayFew
<1> SUFFICES ASSUME PoolInv, Clean, NEW x \in Sets PROVE Cardinality(entries[x]) <= GUARD_SET_SIZE
  BY DEF EntriesStayFew, Clean
<1>1. IF file[x] = Nothing THEN entries[x] = {} ELSE entries[x] \subseteq file[x]
  BY DEF PoolInv, FilesRule
<1>2. CASE file[x] = Nothing
  <2>1. Cardinality(entries[x]) = 0
    BY <1>1, <1>2, FS_EmptySet, Zenon
  <2> QED BY <2>1
<1>3. CASE file[x] # Nothing
  <2>1. file[x] \subseteq Nodes /\ Cardinality(file[x]) = GUARD_SET_SIZE
    BY <1>3 DEF PoolInv, Types, Usable, Clean
  <2>2. IsFiniteSet(file[x])
    BY <2>1, SomeNodes
  <2>3. entries[x] \subseteq file[x]
    BY <1>1, <1>3
  <2>4. Cardinality(entries[x]) \in Nat /\ Cardinality(entries[x]) <= Cardinality(file[x])
    BY <2>2, <2>3, SmallerSet
  <2> QED BY <2>1, <2>4
<1> QED BY <1>2, <1>3

LEMMA PathsStayApart == PoolInv => PathsApart
<1> SUFFICES ASSUME PoolInv, NEW p \in Processes, session[p] # Nothing,
                    Cardinality(InUse(p)) # 6 + 3 * Len(legs[p])
             PROVE  n_legs[p] = 1 /\ (overtaken \/ spoils > 0)
  BY DEF PathsApart
<1>1. n_legs[p] = 1 /\ ~Clean
  BY DEF PoolInv, ApartOK
<1>2. spoils \in Nat
  <2>1. spoils \in 0 .. MaxSpoils
    BY DEF PoolInv, Types
  <2> QED BY <2>1
<1> QED BY <1>1, <1>2 DEF Clean

LEMMA RoomForLeg == PoolInv => LegsPossible
<1> SUFFICES ASSUME PoolInv, NEW p \in Processes, pc[p] = "legs",
                    ~(Cardinality(guard_a[p]) < n_legs[p])
             PROVE ExtraLegs(p) # {}
  BY DEF LegsPossible
<1> DEFINE U == InUse(p)
           G == guard_a[p]
           k == Len(legs[p])
<1>1. k + 2 <= n_legs[p] /\ U \subseteq Nodes /\ Cardinality(U \cap G) <= k + 1
      /\ Cardinality(U \ G) <= 2 * k + 5 /\ Usable(G, spoils) /\ Usable(guard_b[p], spoils)
  BY DEF PoolInv, LegsOK, GuardsOK, HasA, HasB
<1>2. k \in Nat /\ k + 2 <= GUARD_SET_SIZE /\ n_legs[p] \in Int
  <2>1. legs[p] \in Seq(Path) /\ n_legs[p] \in 1 .. GUARD_SET_SIZE
    BY DEF PoolInv, Types
  <2> QED BY <1>1, <2>1
<1>3. G \subseteq Nodes /\ Cardinality(G) \in 1 .. GUARD_SET_SIZE /\ Cardinality(G) >= k + 2
  <2>1. Cardinality(G) \in 1 .. GUARD_SET_SIZE /\ G \subseteq Nodes
    BY <1>1 DEF Usable
  <2>2. ~(Cardinality(G) < n_legs[p])
    OBVIOUS
  <2> QED BY <1>1, <1>2, <2>1, <2>2
<1>4. POOL_SIZE >= 5 + 3 * GUARD_SET_SIZE /\ POOL_SIZE \in Nat /\ GUARD_SET_SIZE \in Nat
  OBVIOUS
<1>0. PICK b \in guard_b[p] : b \in Nodes
  <2>1. guard_b[p] \subseteq Nodes /\ Cardinality(guard_b[p]) # 0
    BY <1>1 DEF Usable
  <2>2. guard_b[p] # {}
    BY <2>1, FS_EmptySet
  <2> QED BY <2>1, <2>2
<1> DEFINE near == G \cup U
           taken == near \cup {b}
<1> HIDE DEF U, G, k
<1>5. PICK e \in G : e \notin U
  <2> SUFFICES ASSUME G \subseteq U PROVE FALSE
    OBVIOUS
  <2>1. U \cap G = G
    OBVIOUS
  <2>2. Cardinality(G) <= k + 1
    BY <1>1, <2>1, Zenon
  <2> QED BY <1>2, <1>3, <2>2
<1>6. IsFiniteSet(near) /\ Cardinality(near) <= 3 * GUARD_SET_SIZE + 1
  <2> DEFINE O == U \ G
             I == G \cap O
  <2>1. O \subseteq Nodes /\ near = G \cup O /\ I = {}
    BY <1>1
  <2>2. Cardinality(O) <= 2 * k + 5
    BY <1>1
  <2> HIDE DEF O, near
  <2>3. IsFiniteSet(G) /\ IsFiniteSet(O) /\ Cardinality(G) \in Nat /\ Cardinality(O) \in Nat
    BY <1>3, <2>1, SomeNodes
  <2>4. IsFiniteSet(G \cup O) /\ Cardinality(G \cup O) = Cardinality(G) + Cardinality(O) - Cardinality(I)
    BY <2>3, FS_Union
  <2>5. Cardinality(I) = 0
    BY <2>1, FS_EmptySet, Zenon
  <2> HIDE DEF I
  <2>6. Cardinality(G \cup O) <= 3 * GUARD_SET_SIZE + 1
    BY <1>2, <1>3, <1>4, <2>2, <2>3, <2>4, <2>5
  <2> QED BY <2>1, <2>4, <2>6, Zenon
<1>7. taken \subseteq Nodes
  BY <1>0, <1>1, <1>3
<1>71. IsFiniteSet(taken) /\ Cardinality(taken) <= 3 * GUARD_SET_SIZE + 2
  <2> HIDE DEF near
  <2>1. 3 * GUARD_SET_SIZE + 1 \in Nat /\ (3 * GUARD_SET_SIZE + 1) + 1 = 3 * GUARD_SET_SIZE + 2
    BY <1>4
  <2>2. IsFiniteSet(near \cup {b}) /\ Cardinality(near \cup {b}) <= (3 * GUARD_SET_SIZE + 1) + 1
    BY <1>6, <2>1, OneMore
  <2> QED BY <2>1, <2>2
<1> HIDE DEF near, taken
<1>8. ASSUME NEW T, T \subseteq Nodes, Cardinality(T) < POOL_SIZE PROVE Nodes \ T # {}
  <2> SUFFICES ASSUME T = Nodes PROVE FALSE
    BY <1>8
  <2>1. Cardinality(T) = POOL_SIZE
    BY NodesFinite, Zenon
  <2> QED BY <1>8, <2>1
<1>9. PICK m : m \in Extreme(weighted_draw_excluding(taken))
  <2>1. Cardinality(taken) \in Nat /\ Cardinality(taken) < POOL_SIZE
    <3>1. Cardinality(taken) \in Nat
      BY <1>71, FS_CardinalityType
    <3> QED BY <1>4, <1>71, <3>1
  <2>2. Nodes \ taken # {}
    BY <1>7, <1>8, <2>1
  <2>3. Extreme(Nodes \ taken) # {}
    BY <2>2, ExtremeIs
  <2> QED BY <2>3 DEF weighted_draw_excluding
<1>10. m \in Nodes
  BY <1>9 DEF Extreme, weighted_draw_excluding
<1> DEFINE more == taken \cup {m}
<1>11. PICK n : n \in Extreme(weighted_draw_excluding(more))
  <2>1. more \subseteq Nodes
    BY <1>7, <1>10
  <2>2. Cardinality(more) <= (3 * GUARD_SET_SIZE + 2) + 1
    <3>1. 3 * GUARD_SET_SIZE + 2 \in Nat
      BY <1>4
    <3> QED BY <1>71, <3>1, OneMore
  <2> HIDE DEF more
  <2>3. Cardinality(more) < POOL_SIZE
    <3>1. Cardinality(more) \in Nat
      BY <2>1, SomeNodes
    <3> QED BY <1>4, <2>2, <3>1
  <2>4. Nodes \ more # {}
    BY <1>8, <2>1, <2>3
  <2>5. Extreme(Nodes \ more) # {}
    BY <2>4, ExtremeIs
  <2> QED BY <2>5 DEF weighted_draw_excluding
<1> DEFINE l == [entry |-> e, mid |-> m, last |-> n]
           Free(h) == Extreme(weighted_draw_excluding(guard_a[p] \cup InUse(p) \cup h))
           Legs1(h, i) == [entry : guard_a[p] \ InUse(p), mid : {i}, last : Free({h, i})]
<1>12. m \in Free({b})
  BY <1>9 DEF taken, near, G, U
<1>13. n \in Free({b, m})
  <2>1. more = guard_a[p] \cup InUse(p) \cup {b, m}
    BY DEF taken, near, G, U
  <2> QED BY <1>11, <2>1
<1>14. e \in guard_a[p] \ InUse(p)
  BY <1>5 DEF G, U
<1> HIDE DEF Free
<1>15. l \in Legs1(b, m)
  BY <1>13, <1>14
<1>16. l \in ExtraLegs(p)
  <2> DEFINE L(h) == UNION {Legs1(h, i) : i \in Free({h})}
  <2>1. ExtraLegs(p) = UNION {L(h) : h \in guard_b[p]}
    BY DEF ExtraLegs, Free
  <2> HIDE DEF Legs1, l
  <2>2. l \in L(b)
    BY <1>12, <1>15
  <2> HIDE DEF L
  <2>3. l \in UNION {L(h) : h \in guard_b[p]}
    BY <2>2
  <2> QED BY <2>1, <2>3, Zenon
<1> QED BY <1>16

-----------------------------------------------------------------------------
(* Every file and every process always holds no guard set or a whole one,  *)
(* or a shorter one that load_guard_set() accepts once a file was edited,  *)
(* although node_pool_init() loads, draws and saves them in separate steps *)
(* and may be killed after each.                                           *)
THEOREM TypeCorrect == Spec => []TypeOK
<1> QED BY InitHolds, StepHolds, TypesHold, PTL DEF Spec

(* The guard sets of one process are disjoint unless a file was lost, or   *)
(* one process saved a set over another's: whatever crash came between the *)
(* two draws of node_pool_init(), guard_set_load_or_create() restores what *)
(* set B was drawn against.                                                *)
THEOREM OverlapOnlyByHolds == Spec => []OverlapOnlyBy
<1> QED BY InitHolds, StepHolds, OverlapExplained, PTL DEF Spec

(* The paths of a session and its legs never share a node, through every   *)
(* crash and restart and for any number of legs, except that the two       *)
(* entries may coincide in a session without striping once a guard set     *)
(* file was spoiled or written over: build_session_path() does not compare *)
(* them.                                                                   *)
THEOREM PathsApartHolds == Spec => []PathsApart
<1> QED BY InitHolds, StepHolds, PathsStayApart, PTL DEF Spec

(* Whatever session build_paths() accepted and whatever legs have been     *)
(* drawn, build_extra_legs() has an entry and two more nodes to choose for *)
(* the next one, in a pool of at least 3 * GUARD_SET_SIZE + 5 nodes.       *)
THEOREM LegsPossibleHolds == Spec => []LegsPossible
<1> QED BY InitHolds, StepHolds, RoomForLeg, PTL DEF Spec

(* Over all runs, ended at any point, the paths of one set have at most    *)
(* GUARD_SET_SIZE entries: a set is saved before it is used and the saved  *)
(* one is authoritative.                                                   *)
THEOREM EntriesStayFewHolds == Spec => []EntriesStayFew
<1> QED BY InitHolds, StepHolds, FewEntries, PTL DEF Spec
=============================================================================
