------------------------------- MODULE NodePool -------------------------------
(***************************************************************************)
(* Guard sets and path selection: src/ASN/common/node_pool.c and the part  *)
(* of client.c that uses it.  A client process loads or creates the guard  *)
(* sets of paths A and B, which live in two files of its directory, draws  *)
(* the six nodes of a session, may swap the two paths after probing them,  *)
(* and draws the nodes of further striping legs.                           *)
(*                                                                         *)
(* Processes of one directory run side by side, end at any point and are   *)
(* started again; a file may get lost or shortened in between.  A weighted *)
(* draw is a choice among the nodes that are not excluded.                 *)
(***************************************************************************)
EXTENDS Naturals, Sequences, FiniteSets

CONSTANTS
  POOL_SIZE, GUARD_SET_SIZE,
  Legs,        \* values of ASN_STRIPE_LEGS
  Processes,
  GuardWidth,  \* bound: a guard is drawn among so many lowest nodes
  MaxSessions, \* bound: processes that hold a session at a time
  MaxStarts,   \* bound: starts of processes
  MaxSpoils,   \* bound: files lost or shortened
  Nothing

Nodes == 0 .. POOL_SIZE - 1

\* Room for the six nodes of a session and for all legs.
ASSUME PoolAssumption ==
  /\ GUARD_SET_SIZE \in Nat \ {0} /\ Legs \subseteq 1 .. GUARD_SET_SIZE
  /\ POOL_SIZE \in Nat /\ POOL_SIZE >= 5 + 3 * GUARD_SET_SIZE
  /\ \A g \in SUBSET Nodes : g # Nothing
  /\ GuardWidth \in Nat \ {0} /\ MaxSessions \in Nat \ {0} /\ MaxStarts \in Nat /\ MaxSpoils \in Nat

VARIABLES
  file,               \* what load_guard_set() finds: a guard set, or Nothing
  pc, n_legs,
  guard_a, guard_b,   \* g_guard_a, g_guard_b
  session,            \* session_path_t
  legs,               \* paths of the extra legs built so far
  starts, spoils,
  \* history
  entries,            \* per set: its guards that have been the entry of a path
  overtaken           \* a process saved a guard set over another's

vars == <<file, pc, n_legs, guard_a, guard_b, session, legs, starts, spoils, entries, overtaken>>

Sets == {"a", "b"}
Path == [entry : Nodes, mid : Nodes, last : Nodes]

Init ==
  /\ file = [x \in Sets |-> Nothing]
  /\ pc = [p \in Processes |-> "off"] /\ n_legs = [p \in Processes |-> 1]
  /\ guard_a = [p \in Processes |-> {}] /\ guard_b = [p \in Processes |-> {}]
  /\ session = [p \in Processes |-> Nothing] /\ legs = [p \in Processes |-> <<>>]
  /\ starts = 0 /\ spoils = 0 /\ entries = [x \in Sets |-> {}] /\ overtaken = FALSE

Goto(p, l) == pc' = [pc EXCEPT ![p] = l]
Hops(path) == {path.entry, path.mid, path.last}
-----------------------------------------------------------------------------
(* node_pool.c                                                             *)

\* Bound: guards are drawn among the lowest nodes, other hops are the lowest
\* or the highest.
Lowest(S)  == {n \in S : Cardinality({m \in S : m < n}) < GuardWidth}
Extreme(S) == {n \in S : (\A m \in S : n <= m) \/ (\A m \in S : m <= n)}

weighted_draw_excluding(excl) == Nodes \ excl

\* Faulty: a node may be drawn twice.
DrawnWithReplacement(excl, g) == Lowest(weighted_draw_excluding(excl))

NextGuard(excl, g) == Lowest(weighted_draw_excluding(excl \cup g))

\* Guard sets that may be drawn one node after the other.
Drawn(excl) ==
  LET InTurn == {s \in [1 .. GUARD_SET_SIZE -> Nodes] :
                   \A i \in 1 .. GUARD_SET_SIZE : s[i] \in NextGuard(excl, {s[j] : j \in 1 .. (i - 1)})}
  IN  {{s[i] : i \in 1 .. GUARD_SET_SIZE} : s \in InTurn}

\* Faulty: only the two entries are excluded.
HopOffTheEntries(t) == Extreme(weighted_draw_excluding({t[1], t[2]}))

NextHop(t) == Extreme(weighted_draw_excluding({t[i] : i \in 1 .. Len(t)}))

\* Both entries out of their guard sets; then the middle and last hop of A and
\* those of B, unlike all before.
build_session_path(ga, gb) ==
  LET Longer(T) == UNION {{Append(t, n) : n \in NextHop(t)} : t \in T} IN
  {[a |-> [entry |-> t[1], mid |-> t[3], last |-> t[4]],
    b |-> [entry |-> t[2], mid |-> t[5], last |-> t[6]]] :
     t \in Longer(Longer(Longer(Longer(ga \X gb))))}
-----------------------------------------------------------------------------
(* node_pool_init(): guard set A, then guard set B without A's nodes       *)

Start(p) ==
  /\ pc[p] = "off" /\ starts < MaxStarts /\ starts' = starts + 1
  /\ \E k \in Legs : n_legs' = [n_legs EXCEPT ![p] = k]
  /\ Goto(p, "load a")
  /\ UNCHANGED <<file, guard_a, guard_b, session, legs, spoils, entries, overtaken>>

\* guard_set_load_or_create(): a valid file is authoritative, else a set is
\* drawn, to be saved next.
LoadA(p) ==
  /\ pc[p] = "load a"
  /\ IF file["a"] # Nothing
       THEN guard_a' = [guard_a EXCEPT ![p] = file["a"]] /\ Goto(p, "load b")
       ELSE /\ \E g \in Drawn({}) : guard_a' = [guard_a EXCEPT ![p] = g]
            /\ Goto(p, "save a")
  /\ UNCHANGED <<file, n_legs, guard_b, session, legs, starts, spoils, entries, overtaken>>

\* Faulty: guard set B is drawn like A.
NoExclusion(p) == {}

GuardsToExclude(p) == guard_a[p]

LoadB(p) ==
  /\ pc[p] = "load b"
  /\ IF file["b"] # Nothing
       THEN guard_b' = [guard_b EXCEPT ![p] = file["b"]] /\ Goto(p, "path")
       ELSE /\ \E g \in Drawn(GuardsToExclude(p)) : guard_b' = [guard_b EXCEPT ![p] = g]
            /\ Goto(p, "save b")
  /\ UNCHANGED <<file, n_legs, guard_a, session, legs, starts, spoils, entries, overtaken>>

\* Faulty: the draw is used although it could not be saved.
SaveUnchecked(p, x, g, next) == Goto(p, next) /\ UNCHANGED <<file, overtaken>>

\* save_guard_set(): rename() puts the whole file in place, over one that is
\* there by now; if that fails the program ends.
save_guard_set(p, x, g, next) ==
  /\ file' = [file EXCEPT ![x] = g] /\ overtaken' = (overtaken \/ file[x] # Nothing)
  /\ Goto(p, next)

Save(p) ==
  /\ \/ pc[p] = "save a" /\ save_guard_set(p, "a", guard_a[p], "load b")
     \/ pc[p] = "save b" /\ save_guard_set(p, "b", guard_b[p], "path")
  /\ UNCHANGED <<n_legs, guard_a, guard_b, session, legs, starts, spoils, entries>>
-----------------------------------------------------------------------------
(* client.c: build_paths()                                                 *)

\* Faulty: guards of set A may be taken for other hops when striping.
AnyGuards(p, s) == FALSE

\* Does the session use a guard of set A other than as path A's entry?
path_uses_other_guard_a(p, s) ==
  guard_a[p] \cap ({s.a.mid, s.a.last} \cup Hops(s.b)) # {}

\* The probes decide which of the two is built as path A.
SwapByProbe(s) == {s, [a |-> s.b, b |-> s.a]}

\* A session path; with striping one that leaves the other guards of A alone.
BuildPaths(p) ==
  /\ pc[p] = "path"
  /\ Cardinality({q \in Processes : session[q] # Nothing}) < MaxSessions
  /\ LET found == {s \in build_session_path(guard_a[p], guard_b[p]) :
                     n_legs[p] > 1 => ~path_uses_other_guard_a(p, s)}
     IN \E s \in found : \E t \in SwapByProbe(s) :
          /\ session' = [session EXCEPT ![p] = t]
          /\ entries' = [entries EXCEPT !["a"] = @ \cup {s.a.entry}, !["b"] = @ \cup {s.b.entry}]
  /\ Goto(p, IF n_legs[p] > 1 THEN "legs" ELSE "ready")
  /\ UNCHANGED <<file, n_legs, guard_a, guard_b, legs, starts, spoils, overtaken>>

InUse(p) == Hops(session[p].a) \cup Hops(session[p].b) \cup UNION {Hops(legs[p][i]) : i \in 1 .. Len(legs[p])}

\* What build_extra_legs() accepts: path A of a session path (whose path B has
\* entry e) of nodes not in use, the entry a guard of set A, the other hops none.
ExtraLegs(p) ==
  LET Free(e) == Extreme(weighted_draw_excluding(guard_a[p] \cup InUse(p) \cup e)) IN
  UNION {UNION {[entry : guard_a[p] \ InUse(p), mid : {m}, last : Free({e, m})] :
                  m \in Free({e})} : e \in guard_b[p]}

\* One more leg.
build_extra_legs(p) ==
  /\ pc[p] = "legs"
  /\ \E l \in ExtraLegs(p) :
       /\ legs' = [legs EXCEPT ![p] = Append(@, l)] /\ entries' = [entries EXCEPT !["a"] = @ \cup {l.entry}]
  /\ Goto(p, IF Len(legs[p]) + 2 = n_legs[p] THEN "ready" ELSE "legs")
  /\ UNCHANGED <<file, n_legs, guard_a, guard_b, session, starts, spoils, overtaken>>

\* The process ends: it is killed, or a file could not be written, or no draw
\* was accepted in 500 attempts.
Ends(p) ==
  /\ pc[p] # "off"
  /\ Goto(p, "off")
  /\ guard_a' = [guard_a EXCEPT ![p] = {}] /\ guard_b' = [guard_b EXCEPT ![p] = {}]
  /\ session' = [session EXCEPT ![p] = Nothing] /\ legs' = [legs EXCEPT ![p] = <<>>]
  /\ n_legs' = [n_legs EXCEPT ![p] = 1]
  /\ UNCHANGED <<file, starts, spoils, entries, overtaken>>

\* A file is lost or no longer valid; or it lists fewer guards, or one of them
\* twice, which load_guard_set() accepts.
Spoil(x) ==
  /\ spoils < MaxSpoils /\ file[x] # Nothing
  /\ \E g \in ((SUBSET file[x]) \ {{}, file[x]}) \cup {Nothing} : file' = [file EXCEPT ![x] = g]
  /\ spoils' = spoils + 1
  /\ UNCHANGED <<pc, n_legs, guard_a, guard_b, session, legs, starts, entries, overtaken>>
-----------------------------------------------------------------------------
Next ==
  \/ \E p \in Processes :
       Start(p) \/ LoadA(p) \/ LoadB(p) \/ Save(p) \/ BuildPaths(p) \/ build_extra_legs(p) \/ Ends(p)
  \/ \E x \in Sets : Spoil(x)

Spec == Init /\ [][Next]_vars
-----------------------------------------------------------------------------
(* Properties                                                              *)

\* Every variable holds a value of its type; a guard set is empty or whole,
\* unless a file got shorter.
TypeOK ==
  LET Guards(g) == /\ g \subseteq Nodes /\ Cardinality(g) \in 0 .. GUARD_SET_SIZE
                   /\ spoils = 0 => Cardinality(g) \in {0, GUARD_SET_SIZE} IN
  /\ \A x \in Sets : file[x] # Nothing => Guards(file[x])
  /\ \A p \in Processes :
       /\ pc[p] \in {"off", "load a", "save a", "load b", "save b", "path", "legs", "ready"}
       /\ n_legs[p] \in 1 .. GUARD_SET_SIZE /\ Guards(guard_a[p]) /\ Guards(guard_b[p])
       /\ session[p] \in [a : Path, b : Path] \cup {Nothing}
       /\ legs[p] \in Seq(Path)
  /\ starts \in 0 .. MaxStarts /\ spoils \in 0 .. MaxSpoils
  /\ entries \in [Sets -> SUBSET Nodes] /\ overtaken \in BOOLEAN

\* The sets of one process are disjoint ("used to keep path A's and path B's
\* guard sets disjoint", node_pool.h:71), whatever crash or restart came
\* between the two draws; they can overlap once two first runs in one
\* directory have overtaken each other, or one file was lost and the other
\* kept: set B is never compared with a new set A.
OverlapOnlyBy ==
  \A p \in Processes : guard_a[p] \cap guard_b[p] # {} => overtaken \/ spoils > 0

\* The two paths of a session and its legs have no node in common and none
\* twice ("fresh, weighted, mutually disjoint", node_pool.c:214).  The draw of
\* the two entries does not look at each other: they are apart because the
\* guard sets are, through restarts and crashes, or, with striping, because
\* path_uses_other_guard_a() refuses the session.
PathsApart ==
  \A p \in Processes : session[p] # Nothing =>
    \/ Cardinality(InUse(p)) = 6 + 3 * Len(legs[p])
    \/ n_legs[p] = 1 /\ (overtaken \/ spoils > 0)

\* A session that was accepted for striping leaves a guard and two more nodes
\* for every leg still to come: giving up is a matter of bad luck with the
\* draws, never of the choices made before.  Only a guard set that was
\* shortened in its file can be too small for the legs asked for.
LegsPossible ==
  \A p \in Processes : pc[p] = "legs" => ExtraLegs(p) # {} \/ Cardinality(guard_a[p]) < n_legs[p]

\* Over all runs, killed at any point, the entry of each path is one of the
\* guards of one set: no draw is used that a later run could not find again.
\* (Of path B the entry is the hop next to the client's listener; the client
\* itself connects to the other end, last_b, which is drawn every time.)
EntriesStayFew == ~overtaken /\ spoils = 0 => \A x \in Sets : Cardinality(entries[x]) <= GUARD_SET_SIZE
=============================================================================
