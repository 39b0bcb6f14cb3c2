--------------------------- MODULE Resolver_proofs ---------------------------
(***************************************************************************)
(* Proofs about Resolver, for any number of worlds, times and Node objects *)
(* and whatever their users do not take care of.                           *)
(*                                                                         *)
(* What the calls never destroy: a tree holds no time before the one it    *)
(* begins at (TreesStart), so the half that a split moves away never has   *)
(* its first time, and the state a timeline began with stays where a       *)
(* lookup finds it (TimelinesBegin). A lookup climbs from world to world;  *)
(* that it ends rests on worlds being forked from older ones (Forest).     *)
(***************************************************************************)
EXTENDS Resolver, FiniteSetTheorems, WellFoundedInduction, TLAPS

-----------------------------------------------------------------------------
(* Sets of times, and their ends.                                          *)

Below == {p \in Nat \X Nat : p[1] < p[2]}

LEMMA BelowWellFounded == IsWellFoundedOn(Below, Nat)
BY NatLessThanWellFounded DEF OpToRel, Below

LEMMA Smallest ==
  ASSUME NEW S \in SUBSET Nat, S # {}
  PROVE  \E x \in S : \A y \in S : x <= y
<1>1. PICK x \in S : \A y \in S : ~ (<<y, x>> \in Below)
  BY BelowWellFounded, WFMin
<1>2. ASSUME NEW y \in S PROVE x <= y
  <2>1. x \in Nat /\ y \in Nat /\ <<y, x>> \notin Below
    BY <1>1
  <2> QED
    BY <2>1 DEF Below
<1> QED
  BY <1>2

LEMMA TimesAre ==
  /\ Times \subseteq Nat /\ Null \notin Times /\ Null \in Int /\ MaxTime \in Nat
  /\ \A S \in SUBSET Times : IsFiniteSet(S) /\ Cardinality(S) \in Nat
<1>1. IsFiniteSet(Times)
  BY ResolverAssumption, FS_Interval DEF Times
<1>2. \A S \in SUBSET Times : IsFiniteSet(S) /\ Cardinality(S) \in Nat
  BY <1>1, FS_Subset, FS_CardinalityType
<1> QED
  BY <1>2, ResolverAssumption DEF Times, Null

LEMMA MinIs ==
  ASSUME NEW S \in SUBSET Times, S # {}
  PROVE  Min(S) \in S /\ \A y \in S : Min(S) <= y
<1>1. \E x \in S : \A y \in S : x <= y
  BY Smallest, TimesAre
<1> QED
  BY <1>1 DEF Min

LEMMA MaxIs ==
  ASSUME NEW S \in SUBSET Times, S # {}
  PROVE  Max(S) \in S /\ \A y \in S : y <= Max(S)
<1> DEFINE T == {MaxTime - i : i \in S}
<1>1. \A i \in S : i \in Nat /\ MaxTime - i \in T /\ MaxTime - i \in Nat /\ MaxTime \in Nat
  BY TimesAre DEF Times
<1>2. T \subseteq Nat /\ T # {}
  BY <1>1
<1>3. PICK x \in T : \A y \in T : x <= y
  BY <1>2, Smallest
<1>4. PICK i \in S : x = MaxTime - i
  OBVIOUS
<1>5. ASSUME NEW j \in S PROVE j <= i
  <2>1. x <= MaxTime - j /\ j \in Nat /\ i \in Nat /\ MaxTime \in Nat
    BY <1>1, <1>3
  <2> QED
    BY <1>4, <2>1
<1> QED
  BY <1>5 DEF Max

LEMMA PreviousIs ==
  ASSUME NEW S \in SUBSET Times, NEW t \in Times
  PROVE  /\ PreviousOrEqual(S, t) \in S \cup {Null}
         /\ PreviousOrEqual(S, t) # Null => PreviousOrEqual(S, t) <= t
         /\ t \in S => PreviousOrEqual(S, t) = t
<1> DEFINE before == {s \in S : s <= t}
<1>1. before # {} => Max(before) \in before /\ \A y \in before : y <= Max(before)
  BY MaxIs
<1>2. PreviousOrEqual(S, t) = IF before = {} THEN Null ELSE Max(before)
  BY DEF PreviousOrEqual
<1>3. t \in Nat /\ \A y \in S : y \in Nat
  BY TimesAre
<1>4. ASSUME t \in S PROVE t \in before /\ t <= Max(before) /\ Max(before) \in Nat
  <2>1. t <= t
    BY <1>3
  <2>3. before \subseteq Nat
    BY <1>3
  <2>2. t \in before
    BY <1>4, <2>1
  <2> HIDE DEF before
  <2> QED
    BY <1>1, <2>2, <2>3
<1> HIDE DEF before
<1> QED
  BY <1>1, <1>2, <1>3, <1>4, TimesAre DEF before

(* The half of a tree that a split moves away has not its first time.      *)
LEMMA UpperWithoutFirst ==
  ASSUME NEW S \in SUBSET Times, NEW x \in S, \A y \in S : x <= y
  PROVE  x \notin UpperHalf(S)
<1> DEFINE above == {y \in S : y > x}
<1>1. above = S \ {x}
  <2>1. \A y \in S : y \in Nat
    BY TimesAre
  <2> QED
    BY <2>1
<1>2. Cardinality(above) = Cardinality(S) - 1
  BY <1>1, TimesAre, FS_RemoveElement
<1>3. Cardinality(S) \in Nat /\ Cardinality(S) # 0
  BY TimesAre, FS_EmptySet
<1>4. ~ (Cardinality(S) - 1 < Cardinality(S) \div 2)
  BY <1>3
<1> QED
  BY <1>2, <1>4 DEF UpperHalf

LEMMA UpperOfTwo ==
  ASSUME NEW S \in SUBSET Times, Cardinality(S) >= 2
  PROVE  UpperHalf(S) # {}
<1>1. S # {} /\ Cardinality(S) \in Nat
  BY TimesAre, FS_EmptySet
<1> DEFINE x == Max(S)
<1>2. x \in S /\ \A y \in S : y <= x
  BY <1>1, MaxIs
<1> HIDE DEF x
<1>3. {y \in S : y > x} = {}
  <2>1. \A y \in S : y \in Nat
    BY TimesAre
  <2> QED
    BY <1>2, <2>1
<1>4. 0 < Cardinality(S) \div 2
  BY <1>1
<1>5. x \in UpperHalf(S)
  BY <1>2, <1>3, <1>4, FS_EmptySet DEF UpperHalf
<1> QED
  BY <1>5

LEMMA ThresholdIsTwo ==
  ASSUME NEW n \in Nat
  PROVE  Threshold(n) >= 2
<1> DEFINE fits == {i \in DOMAIN Scales : n <= 2 * Scales[i]}
           i == IF fits = {} THEN Max(DOMAIN Scales) ELSE Min(fits)
<1>1. /\ DOMAIN Scales = 1 .. Len(Scales) /\ Len(Scales) \in Nat /\ Len(Scales) # 0
      /\ \A j \in DOMAIN Scales : Scales[j] \in Nat \ {0}
  BY ResolverAssumption
<1>2. Max(DOMAIN Scales) \in DOMAIN Scales
  <2>1. /\ Len(Scales) \in DOMAIN Scales
        /\ \A j \in DOMAIN Scales : j <= Len(Scales)
    BY <1>1
  <2> QED
    BY <2>1 DEF Max
<1>3. fits # {} => Min(fits) \in DOMAIN Scales
  <2>1. fits \in SUBSET Nat
    BY <1>1
  <2>2. fits # {} => \E x \in fits : \A y \in fits : x <= y
    BY <2>1, Smallest
  <2> QED
    BY <2>2 DEF Min
<1>4. i \in DOMAIN Scales
  BY <1>2, <1>3
<1>5. Threshold(n) = 2 * Scales[i]
  BY DEF Threshold
<1> HIDE DEF i
<1> QED
  BY <1>1, <1>4, <1>5

-----------------------------------------------------------------------------
(* Worlds are forked from worlds that are there, so that climbing from a   *)
(* world to its parent ends, and resolve_world has a value.                *)

Depths(n) == {depth \in [Worlds \cup {NoWorld} -> 0 .. n] :
                \A v \in Worlds : depth[parent[v]] < depth[v]}

Forest ==
  /\ parent \in [Worlds -> Worlds \cup {NoWorld}]
  /\ \A v \in Worlds : parent[v] # NoWorld => Exists(parent[v])
  /\ \E n \in Nat : Depths(n) # {}

(* A climb from v to its parent and on, in a set W, which ends at N.       *)
Grounded(W, N, par) ==
  /\ N \notin W /\ par \in [W -> W \cup {N}]
  /\ \E n \in Nat : \E depth \in [W \cup {N} -> 0 .. n] :
       \A v \in W : depth[par[v]] < depth[v]

(* The functions that give what last gives where the climb stops, and      *)
(* otherwise what they give for the parent.                                *)
Climbers(W, N, par, stop, last, V) ==
  {f \in [W \cup {N} -> V] : \A v \in W \cup {N} :
     f[v] = IF v = N \/ v \in stop THEN last[v] ELSE f[par[v]]}

LEMMA ForestIsGrounded ==
  /\ Forest => Grounded(Worlds, NoWorld, parent)
  /\ Forest' => Grounded(Worlds, NoWorld, parent')
<1>1. Forest => Grounded(Worlds, NoWorld, parent)
  <2> SUFFICES ASSUME Forest PROVE Grounded(Worlds, NoWorld, parent)
    OBVIOUS
  <2>1. PICK n \in Nat : Depths(n) # {}
    BY DEF Forest
  <2> QED
    BY <2>1, ResolverAssumption DEF Depths, Forest, Grounded
<1>2. Forest' => Grounded(Worlds, NoWorld, parent')
  <2> SUFFICES ASSUME Forest' PROVE Grounded(Worlds, NoWorld, parent')
    OBVIOUS
  <2>1. PICK n \in Nat : (Depths(n) # {})'
    BY DEF Forest
  <2> QED
    BY <2>1, ResolverAssumption DEF Depths, Forest, Grounded
<1> QED
  BY <1>1, <1>2

LEMMA ClimbersExist ==
  ASSUME NEW W, NEW N, NEW par, Grounded(W, N, par),
         NEW stop, NEW V, NEW last \in [W \cup {N} -> V]
  PROVE  Climbers(W, N, par, stop, last, V) # {}
<1> DEFINE All == W \cup {N}
           Step(f, v) == IF v = N \/ v \in stop THEN last[v] ELSE f[par[v]]
<1>1. N \notin W /\ par \in [W -> All]
  BY DEF Grounded
<1>2. PICK n \in Nat : \E depth \in [All -> 0 .. n] :
        \A v \in W : depth[par[v]] < depth[v]
  BY DEF Grounded
<1>3. PICK depth \in [All -> 0 .. n] : \A v \in W : depth[par[v]] < depth[v]
  BY <1>2
<1> DEFINE Right(f, i) == \A v \in All : depth[v] <= i => f[v] = Step(f, v)
           Reached == {i \in Nat : \E f \in [All -> V] : Right(f, i)}
<1>4. 0 \in Reached
  <2>1. Right(last, 0)
    <3> SUFFICES ASSUME NEW v \in All, depth[v] <= 0 PROVE last[v] = Step(last, v)
      OBVIOUS
    <3>1. v = N
      <4>1. v \in W => depth[par[v]] \in Nat /\ depth[par[v]] < depth[v] /\ depth[v] \in Nat
        BY <1>1, <1>3
      <4> QED
        BY <4>1
    <3> QED
      BY <3>1
  <2> QED
    BY <2>1
<1>5. ASSUME NEW i \in Reached PROVE i + 1 \in Reached
  <2>1. PICK g \in [All -> V] : Right(g, i)
    BY <1>5
  <2> DEFINE f == [v \in All |-> Step(g, v)]
  <2>2. f \in [All -> V]
    BY <1>1
  <2>3. Right(f, i + 1)
    <3> SUFFICES ASSUME NEW v \in All, depth[v] <= i + 1 PROVE f[v] = Step(f, v)
      OBVIOUS
    <3>1. CASE v = N \/ v \in stop
      BY <3>1
    <3>2. CASE ~(v = N \/ v \in stop)
      <4>1. par[v] \in All /\ depth[par[v]] <= i
        <5>1. /\ depth[par[v]] \in Nat /\ depth[v] \in Nat /\ i \in Nat
              /\ depth[par[v]] < depth[v] /\ par[v] \in All
          BY <1>1, <1>3, <3>2
        <5> QED
          BY <5>1
      <4>2. g[par[v]] = f[par[v]]
        BY <2>1, <4>1
      <4> QED
        BY <3>2, <4>2
    <3> QED
      BY <3>1, <3>2
  <2> HIDE DEF f
  <2> QED
    BY <2>2, <2>3
<1>6. n \in Reached
  <2>1. SUFFICES ASSUME n \notin Reached PROVE FALSE
    OBVIOUS
  <2> HIDE DEF Reached
  <2>2. PICK i \in Nat \ Reached : \A j \in Nat \ Reached : i <= j
    BY <2>1, Smallest
  <2>3. i # 0 /\ i - 1 \in Nat
    BY <1>4, <2>2
  <2>4. i - 1 \in Reached
    <3>1. i - 1 \notin Reached => i <= i - 1
      BY <2>2, <2>3
    <3> QED
      BY <2>3, <3>1
  <2>5. i - 1 + 1 \in Reached
    BY <1>5, <2>4
  <2> QED
    BY <2>2, <2>5
<1>7. PICK f \in [All -> V] : Right(f, n)
  BY <1>6
<1>8. \A v \in All : f[v] = Step(f, v)
  BY <1>7
<1> QED
  BY <1>8 DEF Climbers

(* No world is in a set that climbs with every world in it.                *)
LEMMA NoneClimbs ==
  ASSUME NEW W, NEW N, NEW par, Grounded(W, N, par),
         NEW bad \in SUBSET W, \A v \in bad : par[v] \in bad
  PROVE  bad = {}
<1>1. PICK n \in Nat : \E depth \in [W \cup {N} -> 0 .. n] :
        \A v \in W : depth[par[v]] < depth[v]
  BY DEF Grounded
<1>2. PICK depth \in [W \cup {N} -> 0 .. n] : \A v \in W : depth[par[v]] < depth[v]
  BY <1>1
<1> DEFINE D == {depth[v] : v \in bad}
<1>3. SUFFICES ASSUME bad # {} PROVE FALSE
  OBVIOUS
<1>4. D \subseteq Nat /\ D # {}
  BY <1>2, <1>3
<1>5. PICK d \in D : \A e \in D : d <= e
  <2> HIDE DEF D
  <2> QED
    BY <1>4, Smallest
<1>6. PICK v \in bad : d = depth[v]
  BY <1>5
<1>7. depth[par[v]] \in D /\ depth[par[v]] < depth[v]
  BY <1>2, <1>6
<1>8. d <= depth[par[v]] /\ d \in Nat /\ depth[par[v]] \in Nat
  <2> HIDE DEF D
  <2> QED
    BY <1>4, <1>5, <1>7
<1> QED
  BY <1>6, <1>7, <1>8

\* One level of the climb, when f tells what the levels above give.
Climb(f, v, w, t) == IF v = NoWorld THEN w
                     ELSE IF order[v] # Null /\ order[v] <= t THEN v
                     ELSE f[parent[v]]

LEMMA ClimbEnds ==
  ASSUME Forest, NEW w \in Worlds, NEW t \in Times
  PROVE  \E f : f = [v \in Worlds \cup {NoWorld} |-> Climb(f, v, w, t)]
<1>1. Grounded(Worlds, NoWorld, parent) /\ NoWorld \notin Worlds
  BY ForestIsGrounded, ResolverAssumption
<1> DEFINE stop == {v \in Worlds : order[v] # Null /\ order[v] <= t}
           last == [v \in Worlds \cup {NoWorld} |-> IF v = NoWorld THEN w ELSE v]
<1>2. last \in [Worlds \cup {NoWorld} -> Worlds]
  OBVIOUS
<1> HIDE DEF stop, last
<1>3. PICK f : f \in Climbers(Worlds, NoWorld, parent, stop, last, Worlds)
  BY <1>1, <1>2, ClimbersExist
<1>4. /\ f \in [Worlds \cup {NoWorld} -> Worlds]
      /\ \A v \in Worlds \cup {NoWorld} :
           f[v] = IF v = NoWorld \/ v \in stop THEN last[v] ELSE f[parent[v]]
  BY <1>3 DEF Climbers
<1>5. \A v \in Worlds \cup {NoWorld} : f[v] = Climb(f, v, w, t)
  BY <1>1, <1>4 DEF Climb, stop, last
<1> QED
  BY <1>4, <1>5

(* What resolve_world gives, and that a world which has diverged by the    *)
(* time is its own answer.                                                 *)
LEMMA ResolveWorldIs ==
  ASSUME Forest, NEW w \in Worlds, NEW t \in Times
  PROVE  /\ ResolveWorld(w, t) \in Worlds
         /\ order[w] # Null /\ order[w] <= t => ResolveWorld(w, t) = w
<1> DEFINE g == CHOOSE g : g = [v \in Worlds \cup {NoWorld} |->
        IF v = NoWorld THEN w
        ELSE IF order[v] # Null /\ order[v] <= t THEN v
        ELSE g[parent[v]]]
<1>1. g = [v \in Worlds \cup {NoWorld} |->
        IF v = NoWorld THEN w
        ELSE IF order[v] # Null /\ order[v] <= t THEN v
        ELSE g[parent[v]]]
  BY ClimbEnds DEF Climb
<1>2. ResolveWorld(w, t) = g[w]
  BY DEF ResolveWorld
<1> HIDE DEF g
<1>3. g[w] \in Worlds
  <2> DEFINE bad == {v \in Worlds : g[v] \notin Worlds}
  <2>1. Grounded(Worlds, NoWorld, parent) /\ parent \in [Worlds -> Worlds \cup {NoWorld}]
    BY ForestIsGrounded DEF Forest
  <2>2. \A v \in bad : parent[v] \in bad
    BY <1>1, <2>1
  <2>3. bad = {}
    <3>1. bad \in SUBSET Worlds
      OBVIOUS
    <3> HIDE DEF bad
    <3> QED
      BY <2>1, <2>2, <3>1, NoneClimbs
  <2> QED
    BY <2>3
<1> QED
  BY <1>1, <1>2, <1>3, ResolverAssumption

-----------------------------------------------------------------------------
(* The invariant.                                                          *)

TreesStart == \A w \in Worlds, s \in Times : \A t \in tree[<<w, s>>] : s <= t

HandlesOrdered == \A h \in Alive :
  handle[h].s <= handle[h].t /\ handle[h].t <= handle[h].time

TimelinesBegin == \A w \in Worlds : order[w] # Null =>
  /\ order[w] \in tree[Super(w)] /\ order[w] \in tree[<<w, order[w]>>]
  /\ <<w, order[w]>> \in states

StatesFirst == states = {} => Alive = {}

\* The one care all of this rests on.
InnerTimes == Careful("outer times")

IInv == /\ TypeOK /\ Forest /\ TreesStart /\ HandlesOrdered
        /\ TimelinesBegin /\ StatesFirst /\ LockKept /\ InnerTimes

LEMMA InitEstablishesIInv ==
  ASSUME InnerTimes
  PROVE  Init => IInv
<1> SUFFICES ASSUME Init PROVE IInv
  OBVIOUS
<1>1. Alive = {}
  BY DEF Init, Alive, Live
<1>2. Root \in Worlds /\ NoWorld \notin Worlds /\ 0 \in Times /\ Null \in Int
  BY ResolverAssumption DEF Times, Null
<1>3. TypeOK
  <2>1. answer \in [world : Worlds, time : Times, state : States \cup {NoState, Orphan}]
    BY <1>2 DEF Init
  <2>2. handle \in [Handles -> Resolved \cup {Freed}]
    BY DEF Init
  <2>3. /\ parent \in [Worlds -> Worlds \cup {NoWorld}]
        /\ order \in [Worlds -> Times \cup {Null}] /\ orderMagic \in Nat
    BY DEF Init
  <2>4. tree \in [Trees -> SUBSET Times] /\ magic \in [Trees -> Nat]
    BY DEF Init
  <2>5. /\ stateMarks \in [States -> Int] /\ treeMarks \in [Trees -> Int]
        /\ orderMarks \in Int
    BY DEF Init
  <2>6. states \subseteq States /\ followed \subseteq Handles /\ strayed \in BOOLEAN
    BY DEF Init
  <2> QED
    BY <2>1, <2>2, <2>3, <2>4, <2>5, <2>6 DEF TypeOK
<1>4. Forest
  <2> DEFINE depth == [v \in Worlds \cup {NoWorld} |-> IF v = NoWorld THEN 0 ELSE 1]
  <2>1. depth \in Depths(1)
    BY <1>2 DEF Init, Depths
  <2> HIDE DEF depth
  <2> QED
    BY <2>1 DEF Init, Forest
<1>5. TreesStart /\ TimelinesBegin
  BY DEF Init, TreesStart, TimelinesBegin, Trees
<1>6. HandlesOrdered /\ StatesFirst /\ LockKept
  BY <1>1, FS_EmptySet DEF Init, HandlesOrdered, StatesFirst, LockKept
<1> QED
  BY <1>3, <1>4, <1>5, <1>6 DEF IInv

(* TimelinesBegin is what a lookup needs to find the first state.          *)
LEMMA FirstIsFound ==
  ASSUME TypeOK, Forest, TimelinesBegin
  PROVE  FirstKept
<1> SUFFICES ASSUME NEW w \in Worlds, order[w] # Null
             PROVE  /\ Resolution(w, order[w]) = [w |-> w, s |-> order[w], t |-> order[w]]
                    /\ <<w, order[w]>> \in states
  BY DEF FirstKept
<1>1. order[w] \in Times /\ order[w] <= order[w]
  <2>1. order[w] \in Times
    BY DEF TypeOK
  <2>2. order[w] \in Nat
    BY <2>1, TimesAre
  <2> QED
    BY <2>1, <2>2
<1>2. ResolveWorld(w, order[w]) = w
  BY <1>1, ResolveWorldIs
<1>3. /\ tree[Super(w)] \in SUBSET Times /\ tree[<<w, order[w]>>] \in SUBSET Times
  BY <1>1 DEF TypeOK, Trees, Super
<1>4. /\ PreviousOrEqual(tree[Super(w)], order[w]) = order[w]
      /\ PreviousOrEqual(tree[<<w, order[w]>>], order[w]) = order[w]
  BY <1>1, <1>3, PreviousIs DEF TimelinesBegin
<1> QED
  BY <1>2, <1>4 DEF Resolution, TimelinesBegin

LEMMA HandleIs ==
  ASSUME TypeOK, HandlesOrdered, NEW h \in Handles, Live(h)
  PROVE  LET p == handle[h] IN
         /\ p \in Resolved /\ p.world \in Worlds /\ p.time \in Times
         /\ p.w \in Worlds /\ p.s \in Times /\ p.t \in Times
         /\ p.mw \in Int /\ p.ms \in Int /\ p.mt \in Int
         /\ p.s \in Nat /\ p.t \in Nat /\ p.time \in Nat
         /\ p.s <= p.t /\ p.t <= p.time /\ p.s <= p.time
<1> DEFINE p == handle[h]
<1>1. p \in Resolved /\ p.s <= p.t /\ p.t <= p.time
  BY DEF TypeOK, Live, HandlesOrdered, Alive
<1>2. /\ p.world \in Worlds /\ p.time \in Times /\ p.w \in Worlds
      /\ p.s \in Times /\ p.t \in Times
      /\ p.mw \in Int /\ p.ms \in Int /\ p.mt \in Int
  BY <1>1 DEF Resolved
<1>3. p.s \in Nat /\ p.t \in Nat /\ p.time \in Nat
  BY <1>2, TimesAre
<1> HIDE DEF p
<1>4. p.s <= p.time
  BY <1>1, <1>3
<1> QED
  BY <1>1, <1>2, <1>3, <1>4 DEF p

(* Where a node that has got out of phase is moved to.                     *)
LEMMA RephasedIs ==
  ASSUME TypeOK, Forest, TreesStart, HandlesOrdered, NEW h \in Handles, Live(h)
  PROVE  LET p == handle[h]  r == Rephased(p) IN
         /\ r.w \in Worlds /\ r.k \in Trees
         /\ <<r.w, r.t>> \in states =>
              /\ r.s \in Times /\ r.t \in Times /\ r.s <= r.t /\ r.t <= p.time
              /\ r.s <= p.time
              /\ \E v \in Worlds : r.k = <<v, r.s>>
<1> DEFINE p == handle[h]
           r == Rephased(p)
           w == ResolveWorld(p.world, p.time)
           s == PreviousOrEqual(tree[Super(w)], p.time)
           k == IF s = p.s THEN <<p.w, p.s>> ELSE <<w, s>>
           t == PreviousOrEqual(tree[k], p.time)
<1>1. /\ p.world \in Worlds /\ p.time \in Times /\ p.w \in Worlds /\ p.s \in Times
      /\ p.t \in Times /\ p.s \in Nat /\ p.time \in Nat
      /\ p.s <= p.t /\ p.t <= p.time /\ p.s <= p.time
  BY HandleIs
<1>2. CASE Same(p)
  <2>1. r = [w |-> p.w, s |-> p.s, t |-> p.t, k |-> <<p.w, p.s>>]
    BY <1>2 DEF Rephased
  <2> HIDE DEF r, p
  <2>2. <<p.w, p.s>> \in Trees
    BY <1>1 DEF Trees
  <2> QED
    BY <1>1, <2>1, <2>2 DEF p, r
<1>3. CASE ~Same(p)
  <2>1. r = [w |-> w, s |-> s, k |-> k, t |-> t]
    BY <1>3 DEF Rephased
  <2>2. w \in Worlds
    BY <1>1, ResolveWorldIs
  <2> HIDE DEF p, w, r
  <2>3. Super(w) \in Trees /\ tree[Super(w)] \in SUBSET Times
    BY <2>2 DEF Super, Trees, TypeOK
  <2>4. s \in Times \cup {Null} /\ (s # Null => s <= p.time)
    BY <1>1, <2>3, PreviousIs
  <2>5. k \in Trees /\ tree[k] \in SUBSET Times
    BY <1>1, <2>2, <2>4 DEF Trees, TypeOK
  <2>6. t \in tree[k] \cup {Null} /\ (t # Null => t <= p.time)
    <3> HIDE DEF k
    <3> QED
      BY <1>1, <2>5, PreviousIs
  <2>7. ASSUME <<w, t>> \in states
        PROVE  /\ s \in Times /\ t \in Times /\ s <= t /\ t <= p.time /\ s <= p.time
               /\ \E v \in Worlds : k = <<v, s>>
    <3>1. t \in Times /\ t # Null
      BY <2>7, TimesAre DEF TypeOK, States
    <3>2. s # Null
      <4>1. SUFFICES ASSUME s = Null PROVE FALSE
        OBVIOUS
      <4>2. k = Super(w)
        BY <1>1, <4>1, TimesAre DEF Super
      <4>3. t = s
        BY <4>2
      <4> QED
        BY <3>1, <4>1, <4>3
    <3>3. s \in Times /\ s <= p.time
      BY <2>4, <3>2
    <3>4. PICK v \in Worlds : k = <<v, s>>
      BY <1>1, <2>2
    <3>5. t \in tree[<<v, s>>]
      BY <2>6, <3>1, <3>4
    <3> HIDE DEF s, k, t
    <3>6. s <= t
      BY <3>3, <3>5 DEF TreesStart
    <3> QED
      BY <2>6, <3>1, <3>3, <3>4, <3>6
  <2> HIDE DEF s, k, t
  <2> QED
    BY <2>1, <2>2, <2>5, <2>7 DEF p, r
<1> QED
  BY <1>2, <1>3

-----------------------------------------------------------------------------
(* The marks are counted in integers; the magics only grow.                *)

LEMMA PlusTyped ==
  ASSUME NEW K, NEW f \in [K -> Int], NEW k, NEW n \in Int
  PROVE  Plus(f, k, n) \in [K -> Int]
<1>1. CASE k \in K
  <2>1. f[k] \in Int /\ f[k] + n \in Int
    BY <1>1
  <2> QED
    BY <1>1, <2>1 DEF Plus
<1>2. CASE k \notin K
  BY <1>2 DEF Plus
<1> QED
  BY <1>1, <1>2

LEMMA MovedTyped ==
  ASSUME NEW K, NEW f \in [K -> Int], NEW j, NEW k
  PROVE  Moved(f, j, k) \in [K -> Int]
<1>1. Plus(f, j, -1) \in [K -> Int]
  BY PlusTyped
<1> QED
  BY <1>1, PlusTyped DEF Moved

LEMMA TreesMovedTyped ==
  ASSUME TypeOK, NEW p, NEW r
  PROVE  TreesMoved(p, r) \in [Trees -> Int]
<1>1. Moved(treeMarks, Super(p.w), Super(r.w)) \in [Trees -> Int]
  BY MovedTyped DEF TypeOK
<1> QED
  BY <1>1, MovedTyped DEF TreesMoved

LEMMA PutTyped ==
  ASSUME NEW there
  PROVE  Put(there) \in Int /\ Put(there) - 1 \in Int
BY DEF Put

LEMMA AddedTyped ==
  ASSUME TypeOK, NEW k \in Trees, NEW S \in SUBSET Times
  PROVE  Added(k, S) \in Nat
<1>1. S \ tree[k] \in SUBSET Times
  OBVIOUS
<1> QED
  BY <1>1, TimesAre DEF Added

LEMMA TreesAre ==
  ASSUME NEW w \in Worlds
  PROVE  /\ Super(w) \in Trees
         /\ \A t \in Times : /\ <<w, t>> \in Trees /\ <<w, t>> \in States
                             /\ \A v \in Worlds : Super(v) # <<w, t>>
BY TimesAre DEF Super, Trees, States

-----------------------------------------------------------------------------
(* What the three ways to add a time to the trees do to the states that    *)
(* timelines begin with.                                                   *)

IndexKept == /\ tree' \in [Trees -> SUBSET Times] /\ magic' \in [Trees -> Nat]
             /\ TreesStart' /\ TimelinesBegin'

LEMMA InsertKeepsIndex ==
  ASSUME TypeOK, TreesStart, TimelinesBegin,
         NEW w \in Worlds, NEW s \in Times, NEW t \in Times, s <= t,
         Insert(<<w, s>>, t), order' = order, states \subseteq states'
  PROVE  IndexKept
<1> DEFINE k == <<w, s>>
<1>1. k \in Trees /\ \A v \in Worlds : Super(v) \in Trees /\ Super(v) # k
  BY TreesAre
<1>2. /\ tree' = [tree EXCEPT ![k] = tree[k] \cup {t}]
      /\ magic' = [magic EXCEPT ![k] = magic[k] + Added(k, {t})]
  BY DEF Insert, Plus
<1>3. tree' \in [Trees -> SUBSET Times]
  BY <1>1, <1>2 DEF TypeOK
<1>4. magic' \in [Trees -> Nat]
  BY <1>1, <1>2, AddedTyped DEF TypeOK
<1>5. TreesStart'
  BY <1>1, <1>2, <1>3, TreesAre DEF TreesStart, TypeOK
<1>6. TimelinesBegin'
  <2>1. \A j \in Trees : tree[j] \subseteq tree'[j]
    BY <1>1, <1>2 DEF TypeOK
  <2>2. \A v \in Worlds : order[v] # Null => Super(v) \in Trees /\ <<v, order[v]>> \in Trees
    BY TreesAre DEF TypeOK
  <2> QED
    BY <2>1, <2>2 DEF TimelinesBegin, Super
<1> QED
  BY <1>3, <1>4, <1>5, <1>6 DEF IndexKept

LEMMA TimelineKeepsIndex ==
  ASSUME TypeOK, TreesStart, TimelinesBegin,
         NEW w \in Worlds, NEW t \in Times,
         NewTimeline(w, t), states \cup {<<w, t>>} \subseteq states'
  PROVE  /\ IndexKept
         /\ order' \in [Worlds -> Times \cup {Null}] /\ orderMagic' \in Nat
<1>1. /\ Super(w) \in Trees /\ <<w, t>> \in Trees /\ Super(w) # <<w, t>>
      /\ \A v \in Worlds : Super(v) \in Trees /\ Super(v) # <<w, t>>
  BY TreesAre
<1>2. /\ \A j \in Trees : tree'[j] = IF j \in {Super(w), <<w, t>>} THEN tree[j] \cup {t} ELSE tree[j]
      /\ tree' \in [Trees -> SUBSET Times]
  BY <1>1 DEF NewTimeline, TypeOK
<1>3. magic' \in [Trees -> Nat]
  <2>1. Added(Super(w), {t}) \in Nat /\ Added(<<w, t>>, {t}) \in Nat
    BY <1>1, AddedTyped
  <2>2. /\ magic[Super(w)] + Added(Super(w), {t}) \in Nat
        /\ magic[<<w, t>>] + Added(<<w, t>>, {t}) \in Nat
    BY <1>1, <2>1 DEF TypeOK
  <2>3. magic' = [magic EXCEPT ![Super(w)] = magic[Super(w)] + Added(Super(w), {t}),
                               ![<<w, t>>] = magic[<<w, t>>] + Added(<<w, t>>, {t})]
    BY <1>1 DEF NewTimeline, TypeOK
  <2> QED
    BY <1>1, <2>2, <2>3 DEF TypeOK
<1>4. /\ order' \in [Worlds -> Times \cup {Null}] /\ orderMagic' \in Nat
      /\ order' = [order EXCEPT ![w] = t]
  BY DEF NewTimeline, TypeOK
<1>5. TreesStart'
  <2> SUFFICES ASSUME NEW v \in Worlds, NEW s \in Times, NEW u \in tree'[<<v, s>>]
               PROVE  s <= u
    BY DEF TreesStart
  <2>1. <<v, s>> \in Trees /\ <<v, s>> # Super(w) /\ s \in Nat
    BY TreesAre, TimesAre
  <2>2. u \in tree[<<v, s>>] \/ (u = t /\ s = t)
    BY <1>2, <2>1
  <2> QED
    BY <2>1, <2>2 DEF TreesStart
<1>6. TimelinesBegin'
  <2> SUFFICES ASSUME NEW v \in Worlds, order'[v] # Null
               PROVE  /\ order'[v] \in tree'[Super(v)] /\ order'[v] \in tree'[<<v, order'[v]>>]
                      /\ <<v, order'[v]>> \in states'
    BY DEF TimelinesBegin, Super
  <2>1. CASE v = w
    BY <1>1, <1>2, <1>4, <2>1 DEF TypeOK
  <2>2. CASE v # w
    <3>1. order'[v] = order[v] /\ order[v] \in Times
      BY <1>4, <2>2 DEF TypeOK
    <3>2. Super(v) \in Trees /\ <<v, order[v]>> \in Trees
      BY <3>1, TreesAre
    <3>3. tree[Super(v)] \subseteq tree'[Super(v)]
          /\ tree[<<v, order[v]>>] \subseteq tree'[<<v, order[v]>>]
      BY <1>2, <3>2
    <3> QED
      BY <3>1, <3>3 DEF TimelinesBegin
  <2> QED
    BY <2>1, <2>2
<1> QED
  BY <1>2, <1>3, <1>4, <1>5, <1>6 DEF IndexKept

LEMMA SplitKeepsIndex ==
  ASSUME TypeOK, TreesStart, TimelinesBegin,
         NEW w \in Worlds, NEW v \in Worlds, NEW u \in Worlds,
         NEW s \in Times, NEW t \in Times, s <= t, NEW counted \in BOOLEAN,
         Splits(<<v, s>>, Super(u), t),
         InsertAndSplit(w, <<v, s>>, Super(u), t, counted),
         order' = order, states \subseteq states'
  PROVE  IndexKept /\ Median(<<v, s>>, t) \in Times
<1> DEFINE k == <<v, s>>
           S == tree[k] \cup {t}
           up == Upper(k, t)
           m == Median(k, t)
           right == <<w, m>>
<1>1. /\ k \in Trees /\ Super(u) \in Trees /\ k # Super(u)
      /\ S \in SUBSET Times /\ s \in Nat /\ \A x \in S : x \in Nat /\ s <= x
  <2>1. k \in Trees /\ Super(u) \in Trees /\ k # Super(u)
    BY TreesAre
  <2>2. S \in SUBSET Times
    BY <2>1 DEF TypeOK
  <2>3. s \in Nat /\ \A x \in S : x \in Nat
    BY <2>2, TimesAre
  <2>4. \A x \in S : s <= x
    BY DEF TreesStart
  <2> QED
    BY <2>1, <2>2, <2>3, <2>4
<1>2. up \subseteq S /\ (s \in S => s \notin up)
  BY <1>1, UpperWithoutFirst DEF Upper, UpperHalf
<1>3. up # {}
  <2>1. Cardinality(tree[Super(u)]) \in Nat
    BY <1>1, TimesAre DEF TypeOK
  <2>2. Cardinality(S) >= 2
    BY <2>1, ThresholdIsTwo DEF Splits
  <2> QED
    BY <1>1, <2>2, UpperOfTwo DEF Upper
<1>4. m \in up /\ m \in Times /\ \A y \in up : m <= y
  <2>1. up \in SUBSET Times
    BY <1>1, <1>2
  <2>2. Min(up) \in up /\ \A y \in up : Min(up) <= y
    BY <1>3, <2>1, MinIs
  <2> QED
    BY <2>1, <2>2 DEF Median
<1>5. right \in Trees /\ right # k /\ right # Super(u)
  <2>1. m # s
    BY <1>2, <1>4
  <2> QED
    BY <1>4, <2>1, TreesAre
<1>6. tree' = [tree EXCEPT ![right] = @ \cup up, ![k] = (@ \cup {t}) \ up,
                           ![Super(u)] = @ \cup {m}]
  BY DEF InsertAndSplit
<1>7. magic' \in [Trees -> Nat]
  <2>1. /\ Added(k, {t}) \in Nat /\ Added(right, up) \in Nat /\ Added(Super(u), {m}) \in Nat
    BY <1>1, <1>2, <1>4, <1>5, AddedTyped
  <2>2. (IF counted THEN Added(right, up) ELSE 0) \in Nat
    BY <2>1
  <2> QED
    BY <1>1, <1>5, <2>1, <2>2 DEF InsertAndSplit, TypeOK
<1> HIDE DEF right, m, up
<1>8. /\ tree' \in [Trees -> SUBSET Times]
      /\ tree'[k] = S \ up /\ tree'[right] = tree[right] \cup up
      /\ \A j \in Trees \ {k} : tree[j] \subseteq tree'[j]
      /\ \A j \in Trees \ {k, right, Super(u)} : tree'[j] = tree[j]
  BY <1>1, <1>2, <1>4, <1>5, <1>6 DEF TypeOK
<1>9. TreesStart'
  <2> SUFFICES ASSUME NEW a \in Worlds, NEW b \in Times, NEW x \in tree'[<<a, b>>]
               PROVE  b <= x
    BY DEF TreesStart
  <2>1. <<a, b>> \in Trees /\ <<a, b>> # Super(u)
    BY TreesAre
  <2>2. CASE <<a, b>> = k
    BY <1>1, <1>8, <2>2
  <2>3. CASE <<a, b>> = right
    <3>1. b = m
      BY <2>3 DEF right
    <3>2. x \in tree[<<a, b>>] \/ x \in up
      BY <1>8, <2>3
    <3> QED
      BY <1>4, <3>1, <3>2 DEF TreesStart
  <2>4. CASE <<a, b>> \notin {k, right}
    BY <1>8, <2>1, <2>4 DEF TreesStart
  <2> QED
    BY <2>2, <2>3, <2>4
<1>10. TimelinesBegin'
  <2> SUFFICES ASSUME NEW a \in Worlds, order[a] # Null
               PROVE  /\ order[a] \in tree'[Super(a)] /\ order[a] \in tree'[<<a, order[a]>>]
                      /\ <<a, order[a]>> \in states'
    BY DEF TimelinesBegin, Super
  <2>1. /\ Super(a) \in Trees /\ Super(a) # k /\ <<a, order[a]>> \in Trees
    BY TreesAre DEF TypeOK
  <2>2. /\ order[a] \in tree[Super(a)] /\ order[a] \in tree[<<a, order[a]>>]
        /\ <<a, order[a]>> \in states'
    BY DEF TimelinesBegin
  <2>3. CASE <<a, order[a]>> = k
    <3>1. order[a] = s /\ s \in S
      BY <2>2, <2>3
    <3> QED
      BY <1>2, <1>8, <2>1, <2>2, <2>3, <3>1
  <2>4. CASE <<a, order[a]>> # k
    BY <1>8, <2>1, <2>2, <2>4
  <2> QED
    BY <2>3, <2>4
<1> QED
  BY <1>4, <1>7, <1>8, <1>9, <1>10 DEF IndexKept, m

-----------------------------------------------------------------------------
(* What a call must keep, apart from followed and strayed.                 *)

HandlesKept == /\ handle' \in [Handles -> Resolved \cup {Freed}]
               /\ HandlesOrdered' /\ LockKept' /\ orderMarks' \in Int

Kept == /\ IndexKept /\ HandlesKept /\ Forest' /\ StatesFirst'
        /\ order' \in [Worlds -> Times \cup {Null}] /\ orderMagic' \in Nat
        /\ states' \subseteq States
        /\ stateMarks' \in [States -> Int] /\ treeMarks' \in [Trees -> Int]
        /\ answer' \in [world : Worlds, time : Times,
                        state : States \cup {NoState, Orphan}]

LEMMA KeptIsEnough ==
  ASSUME IInv, Kept, NEW careless, Strays(careless)
  PROVE  IInv'
<1>1. strayed' \in BOOLEAN /\ followed' \subseteq Handles
  BY DEF Strays
<1> QED
  BY <1>1 DEF Kept, IndexKept, HandlesKept, IInv, TypeOK, Forest

LEMMA IndexStays ==
  ASSUME IInv, UNCHANGED index, states \subseteq states'
  PROVE  /\ IndexKept
         /\ order' \in [Worlds -> Times \cup {Null}] /\ orderMagic' \in Nat
<1>1. order' = order /\ orderMagic' = orderMagic /\ tree' = tree /\ magic' = magic
  BY DEF index
<1>2. TreesStart'
  BY <1>1 DEF IInv, TreesStart
<1>3. TimelinesBegin'
  BY <1>1 DEF IInv, TimelinesBegin, Super
<1> QED
  BY <1>1, <1>2, <1>3 DEF IInv, TypeOK, IndexKept

LEMMA ForestStays ==
  ASSUME IInv, parent' = parent
  PROVE  Forest'
BY DEF IInv, Forest, Exists, Depths

LEMMA LiveIsNotFreed == \A p \in Resolved : p # Freed
<1> SUFFICES ASSUME NEW p \in Resolved, p = Freed PROVE FALSE
  OBVIOUS
<1>1. p.world \in Worlds
  BY DEF Resolved
<1>2. p.world = NoWorld
  BY DEF Freed
<1> QED
  BY <1>1, <1>2, ResolverAssumption

LEMMA AliveIsFinite ==
  /\ IsFiniteSet(Alive) /\ Cardinality(Alive) \in Nat
<1>1. Alive \subseteq Handles
  BY DEF Alive
<1> QED
  BY <1>1, ResolverAssumption, FS_Subset, FS_CardinalityType

LEMMA HandlesStay ==
  ASSUME IInv, handle' = handle, orderMarks' \in Int, orderMarks' >= orderMarks,
         states \subseteq states'
  PROVE  HandlesKept /\ StatesFirst'
<1>1. Alive' = Alive
  BY DEF Alive, Live
<1>2. orderMarks' >= Cardinality(Alive)
  BY AliveIsFinite DEF IInv, LockKept, TypeOK
<1> QED
  BY <1>1, <1>2 DEF IInv, TypeOK, HandlesKept, HandlesOrdered, LockKept, StatesFirst

LEMMA ResolveKeeps ==
  ASSUME IInv, NEW h \in Handles, Live(h),
         NEW w \in Worlds, NEW s \in Times, NEW t \in Times,
         s <= t, t <= handle[h].time,
         NEW mw \in Int, NEW ms \in Int, NEW mt \in Int,
         Resolve(h, w, s, t, mw, ms, mt),
         orderMarks' = orderMarks, states \subseteq states'
  PROVE  HandlesKept /\ StatesFirst'
<1> DEFINE p == handle[h]
           q == [world |-> p.world, time |-> p.time, w |-> w, s |-> s, t |-> t,
                 mw |-> mw, ms |-> ms, mt |-> mt]
<1>1. p.world \in Worlds /\ p.time \in Times
  BY HandleIs DEF IInv
<1> HIDE DEF p
<1>2. q \in Resolved /\ q.s = s /\ q.t = t /\ q.time = p.time
  BY <1>1 DEF Resolved
<1>3. q # Freed
  BY <1>2, LiveIsNotFreed
<1>4. handle' = [handle EXCEPT ![h] = q]
  BY DEF Resolve, p
<1> HIDE DEF q
<1>5. handle' \in [Handles -> Resolved \cup {Freed}]
  BY <1>2, <1>4 DEF IInv, TypeOK
<1>6. handle'[h] = q /\ \A g \in Handles \ {h} : handle'[g] = handle[g]
  BY <1>4 DEF IInv, TypeOK
<1>7. Alive' = Alive
  BY <1>3, <1>6 DEF Alive, Live
<1>8. HandlesOrdered'
  BY <1>2, <1>6, <1>7 DEF IInv, HandlesOrdered, p, Alive
<1> QED
  BY <1>5, <1>7, <1>8 DEF IInv, TypeOK, HandlesKept, LockKept, StatesFirst

(* A Node object that was free gets a resolution, and the world order a    *)
(* mark.                                                                   *)
LEMMA ResolvedKeeps ==
  ASSUME IInv, NEW h \in Handles, ~Live(h), NEW q \in Resolved,
         q.s <= q.t, q.t <= q.time,
         handle' = [handle EXCEPT ![h] = q],
         orderMarks' = orderMarks + 1 \/ (Alive = {} /\ orderMarks' = 1),
         states' # {}
  PROVE  HandlesKept /\ StatesFirst'
<1>1. q # Freed
  BY LiveIsNotFreed
<1>2. handle' \in [Handles -> Resolved \cup {Freed}]
  BY DEF IInv, TypeOK
<1>3. handle'[h] = q /\ \A g \in Handles \ {h} : handle'[g] = handle[g]
  BY DEF IInv, TypeOK
<1>4. Alive' = Alive \cup {h} /\ h \notin Alive
  BY <1>1, <1>3 DEF Alive, Live
<1>5. Cardinality(Alive') = Cardinality(Alive) + 1
  BY <1>4, AliveIsFinite, FS_AddElement
<1>6. HandlesOrdered'
  BY <1>3, <1>4 DEF IInv, HandlesOrdered, Alive
<1>7. Alive = {} => Cardinality(Alive) = 0
  BY FS_EmptySet
<1>8. LockKept' /\ orderMarks' \in Int
  BY <1>5, <1>7, AliveIsFinite DEF IInv, TypeOK, LockKept
<1> QED
  BY <1>2, <1>6, <1>8 DEF HandlesKept, StatesFirst

-----------------------------------------------------------------------------
(* Nodes and worlds come and go.                                           *)

LEMMA ForkKeeps ==
  ASSUME IInv, NEW w \in Worlds, NEW child \in Worlds, Fork(w, child)
  PROVE  Kept
<1>1. /\ parent' = [parent EXCEPT ![child] = w] /\ Exists(w) /\ ~Exists(child)
      /\ parent[child] = NoWorld /\ w # child
      /\ states' = states /\ handle' = handle /\ orderMarks' = orderMarks
      /\ stateMarks' = stateMarks /\ treeMarks' = treeMarks /\ answer' = answer
  BY DEF Fork, Exists, marks
<1>2. IndexKept /\ order' \in [Worlds -> Times \cup {Null}] /\ orderMagic' \in Nat
  BY <1>1, IndexStays DEF Fork
<1>3. HandlesKept /\ StatesFirst'
  <2>1. orderMarks \in Int /\ orderMarks >= orderMarks
    BY DEF IInv, TypeOK
  <2> QED
    BY <1>1, <2>1, HandlesStay
<1>4. Forest'
  <2>0. PICK n \in Nat : Depths(n) # {}
    BY DEF IInv, Forest
  <2>1. PICK depth \in Depths(n) : TRUE
    BY <2>0
  <2> DEFINE All == Worlds \cup {NoWorld}
             d == [v \in All |-> IF v = child THEN n + 1 ELSE depth[v]]
  <2>2. /\ depth \in [All -> 0 .. n] /\ \A v \in Worlds : depth[parent[v]] < depth[v]
        /\ parent \in [Worlds -> All] /\ NoWorld \notin Worlds
        /\ \A v \in Worlds : parent[v] # NoWorld => Exists(parent[v])
    BY <2>1, ResolverAssumption DEF Depths, IInv, Forest
  <2>3. parent' \in [Worlds -> All]
    BY <1>1, <2>2
  <2>4. \A v \in Worlds : parent'[v] = IF v = child THEN w ELSE parent[v]
    BY <1>1, <2>2
  <2>5. \A v \in Worlds : parent'[v] # child
    BY <1>1, <2>2, <2>4
  <2>6. d \in [All -> 0 .. n + 1]
    BY <2>2
  <2>7. ASSUME NEW v \in Worlds PROVE d[parent'[v]] < d[v]
    <3>1. parent'[v] \in All /\ d[parent'[v]] = depth[parent'[v]]
      BY <2>3, <2>5
    <3>2. depth[parent'[v]] \in Nat /\ depth[parent'[v]] <= n
      BY <2>2, <3>1
    <3> QED
      BY <2>2, <2>4, <3>1, <3>2
  <2> HIDE DEF d
  <2>8. d \in Depths(n + 1)'
    BY <2>6, <2>7 DEF Depths
  <2>9. Depths(n + 1)' # {} /\ n + 1 \in Nat
    BY <2>8
  <2>10. (\A v \in Worlds : parent[v] # NoWorld => Exists(parent[v]))'
    <3> SUFFICES ASSUME NEW v \in Worlds, parent'[v] # NoWorld
                 PROVE  parent'[v] = Root \/ parent'[parent'[v]] # NoWorld
      BY DEF Exists
    <3>1. parent'[v] \in Worlds /\ Exists(parent'[v]) /\ parent'[v] # child
      BY <1>1, <2>2, <2>3, <2>4, <2>5
    <3> QED
      BY <2>4, <3>1 DEF Exists
  <2> QED
    BY <2>3, <2>9, <2>10 DEF Forest
<1> QED
  BY <1>1, <1>2, <1>3, <1>4 DEF Kept, IInv, TypeOK

LEMMA NewNodeKeeps ==
  ASSUME IInv, NEW h \in Handles, NEW w \in Worlds, NEW t \in Times,
         NewNode(h, w, t)
  PROVE  Kept
<1> DEFINE q == [world |-> w, time |-> t, w |-> w, s |-> t, t |-> t,
                 mw |-> Null, ms |-> Null, mt |-> Null]
<1>1. /\ states = {} /\ states' = {<<w, t>>} /\ parent' = parent /\ answer' = answer
      /\ order' = [order EXCEPT ![w] = t] /\ orderMagic' = 1 /\ orderMarks' = 1
      /\ handle' = [handle EXCEPT ![h] = q]
      /\ stateMarks' = Plus(stateMarks, <<w, t>>, 1)
      /\ treeMarks' = Plus(Plus(treeMarks, Super(w), 1), <<w, t>>, 1)
      /\ tree' = [tree EXCEPT ![Super(w)] = {t}, ![<<w, t>>] = {t}]
      /\ magic' = [magic EXCEPT ![Super(w)] = 1, ![<<w, t>>] = 1]
  BY DEF NewNode
<1>2. Alive = {} /\ \A v \in Worlds : order[v] = Null
  BY <1>1 DEF IInv, StatesFirst, TimelinesBegin
<1>3. t \in Nat /\ Null \in Int /\ t <= t
  BY TimesAre
<1>4. q \in Resolved /\ q.s = t /\ q.t = t /\ q.time = t
  BY <1>3 DEF Resolved
<1> HIDE DEF q
<1>5. HandlesKept /\ StatesFirst'
  BY <1>1, <1>2, <1>3, <1>4, ResolvedKeeps DEF Alive
<1>6. /\ Super(w) \in Trees /\ <<w, t>> \in Trees /\ <<w, t>> \in States
      /\ Super(w) # <<w, t>>
  BY TreesAre
<1>7. tree' \in [Trees -> SUBSET Times] /\ magic' \in [Trees -> Nat]
  BY <1>1 DEF IInv, TypeOK
<1>8. \A k \in Trees : tree'[k] = IF k \in {Super(w), <<w, t>>} THEN {t} ELSE tree[k]
  BY <1>1, <1>6 DEF IInv, TypeOK
<1>9. TreesStart'
  <2> SUFFICES ASSUME NEW v \in Worlds, NEW s \in Times, NEW u \in tree'[<<v, s>>]
               PROVE  s <= u
    BY DEF TreesStart
  <2>1. <<v, s>> \in Trees /\ <<v, s>> # Super(w)
    BY TreesAre
  <2>2. u \in tree[<<v, s>>] \/ (u = t /\ s = t)
    BY <1>8, <2>1
  <2> QED
    BY <1>3, <2>2 DEF IInv, TreesStart
<1>10. order' \in [Worlds -> Times \cup {Null}]
  BY <1>1 DEF IInv, TypeOK
<1>11. TimelinesBegin'
  <2>1. \A v \in Worlds : order'[v] # Null => v = w /\ order'[v] = t
    BY <1>1, <1>2 DEF IInv, TypeOK
  <2>2. /\ order'[w] = t /\ t \in tree'[Super(w)] /\ t \in tree'[<<w, t>>]
        /\ <<w, t>> \in states'
    BY <1>1, <1>6, <1>8 DEF IInv, TypeOK
  <2> QED
    BY <2>1, <2>2 DEF TimelinesBegin, Super
<1>12. stateMarks' \in [States -> Int] /\ treeMarks' \in [Trees -> Int]
  BY <1>1, PlusTyped DEF IInv, TypeOK
<1>13. Forest'
  BY <1>1, ForestStays
<1> QED
  BY <1>1, <1>5, <1>6, <1>7, <1>9, <1>10, <1>11, <1>12, <1>13
  DEF Kept, IndexKept, IInv, TypeOK

LEMMA LookupKeeps ==
  ASSUME IInv, NEW h \in Handles, NEW w \in Worlds, NEW t \in Times,
         Lookup(h, w, t)
  PROVE  Kept
<1> DEFINE v == ResolveWorld(w, t)
           s == PreviousOrEqual(tree[Super(v)], t)
           u == IF s = Null THEN Null ELSE PreviousOrEqual(tree[<<v, s>>], t)
           q == [world |-> w, time |-> t, w |-> v, s |-> s, t |-> u,
                 mw |-> orderMagic, ms |-> magic[Super(v)], mt |-> magic[<<v, s>>]]
<1>1. /\ Resolution(w, t).w = v /\ Resolution(w, t).s = s /\ Resolution(w, t).t = u
  BY DEF Resolution
<1>2. /\ ~Live(h) /\ <<v, u>> \in states /\ handle' = [handle EXCEPT ![h] = q]
      /\ stateMarks' = Plus(stateMarks, <<v, u>>, 1)
      /\ treeMarks' = Plus(Plus(treeMarks, Super(v), 1), <<v, s>>, 1)
      /\ orderMarks' = orderMarks + 1
      /\ states' = states /\ parent' = parent /\ UNCHANGED index /\ answer' = answer
  <2> HIDE DEF v, s, u
  <2> QED
    BY <1>1 DEF Lookup
<1>3. v \in Worlds
  BY ResolveWorldIs DEF IInv
<1> HIDE DEF v
<1>4. Super(v) \in Trees /\ tree[Super(v)] \in SUBSET Times
  BY <1>3, TreesAre DEF IInv, TypeOK
<1>5. s \in Times \cup {Null}
  BY <1>4, PreviousIs
<1>6. u \in Times
  BY <1>2 DEF IInv, TypeOK, States
<1>7. s # Null /\ s \in Times
  BY <1>5, <1>6, TimesAre
<1> HIDE DEF s
<1>8. <<v, s>> \in Trees /\ tree[<<v, s>>] \in SUBSET Times
  BY <1>3, <1>7, TreesAre DEF IInv, TypeOK
<1>9. u = PreviousOrEqual(tree[<<v, s>>], t)
  BY <1>7
<1> HIDE DEF u
<1>10. u \in tree[<<v, s>>] /\ u <= t
  BY <1>6, <1>8, <1>9, PreviousIs, TimesAre
<1>11. s <= u
  BY <1>3, <1>7, <1>10 DEF IInv, TreesStart
<1>12. magic[Super(v)] \in Int /\ magic[<<v, s>>] \in Int /\ orderMagic \in Int
  BY <1>4, <1>8 DEF IInv, TypeOK
<1>13. q \in Resolved /\ q.s = s /\ q.t = u /\ q.time = t
  BY <1>3, <1>6, <1>7, <1>12 DEF Resolved
<1> HIDE DEF q
<1>14. HandlesKept /\ StatesFirst'
  BY <1>2, <1>10, <1>11, <1>13, ResolvedKeeps
<1>15. stateMarks' \in [States -> Int] /\ treeMarks' \in [Trees -> Int]
  BY <1>2, PlusTyped DEF IInv, TypeOK
<1>16. IndexKept /\ order' \in [Worlds -> Times \cup {Null}] /\ orderMagic' \in Nat
  BY <1>2, IndexStays
<1>17. Forest'
  BY <1>2, ForestStays
<1> QED
  BY <1>2, <1>14, <1>15, <1>16, <1>17 DEF Kept, IInv, TypeOK

LEMMA CloneKeeps ==
  ASSUME IInv, NEW h \in Handles, NEW copy \in Handles, Clone(h, copy)
  PROVE  Kept
<1> DEFINE p == handle[h]
<1>1. /\ Live(h) /\ ~Live(copy) /\ handle' = [handle EXCEPT ![copy] = p]
      /\ stateMarks' = IF <<p.world, p.time>> \in states
                       THEN Plus(stateMarks, <<p.world, p.time>>, 1) ELSE stateMarks
      /\ treeMarks' = [k \in Trees |->
           treeMarks[k] + IF k \in {Super(p.world), <<p.world, p.s>>} /\ tree[k] # {}
                          THEN 1 ELSE 0]
      /\ orderMarks' = orderMarks + 1
      /\ states' = states /\ parent' = parent /\ UNCHANGED index /\ answer' = answer
  BY DEF Clone
<1>2. p \in Resolved /\ p.s <= p.t /\ p.t <= p.time
  BY <1>1, HandleIs DEF IInv
<1>3. Alive # {} /\ states # {}
  BY <1>1 DEF Alive, IInv, StatesFirst
<1> HIDE DEF p
<1>4. HandlesKept /\ StatesFirst'
  BY <1>1, <1>2, <1>3, ResolvedKeeps
<1>5. stateMarks' \in [States -> Int]
  BY <1>1, PlusTyped DEF IInv, TypeOK
<1>6. treeMarks' \in [Trees -> Int]
  BY <1>1 DEF IInv, TypeOK
<1>7. IndexKept /\ order' \in [Worlds -> Times \cup {Null}] /\ orderMagic' \in Nat
  BY <1>1, IndexStays
<1>8. Forest'
  BY <1>1, ForestStays
<1> QED
  BY <1>1, <1>4, <1>5, <1>6, <1>7, <1>8 DEF Kept, IInv, TypeOK

LEMMA FreeKeeps ==
  ASSUME IInv, NEW h \in Handles, Free(h)
  PROVE  Kept
<1> DEFINE p == handle[h]
<1>1. /\ Live(h) /\ handle' = [handle EXCEPT ![h] = Freed]
      /\ stateMarks' = Plus(stateMarks, <<p.w, p.t>>, -1)
      /\ treeMarks' = [k \in Trees |->
           treeMarks[k] - IF k \in {Super(p.w), <<p.w, p.s>>} /\ tree[k] # {}
                          THEN 1 ELSE 0]
      /\ orderMarks' = orderMarks - 1
      /\ states' = states /\ parent' = parent /\ UNCHANGED index /\ answer' = answer
  BY DEF Free
<1> HIDE DEF p
<1>2. handle' \in [Handles -> Resolved \cup {Freed}]
  BY <1>1 DEF IInv, TypeOK
<1>3. Alive' = Alive \ {h} /\ h \in Alive
  BY <1>1 DEF Alive, Live, IInv, TypeOK
<1>4. Cardinality(Alive') = Cardinality(Alive) - 1
  BY <1>3, AliveIsFinite, FS_RemoveElement
<1>5. LockKept' /\ orderMarks' \in Int
  BY <1>1, <1>4, AliveIsFinite DEF IInv, TypeOK, LockKept
<1>6. HandlesOrdered'
  BY <1>1, <1>3 DEF IInv, HandlesOrdered, TypeOK, Alive
<1>7. StatesFirst'
  BY <1>1, <1>3 DEF IInv, StatesFirst
<1>8. stateMarks' \in [States -> Int]
  BY <1>1, PlusTyped DEF IInv, TypeOK
<1>9. treeMarks' \in [Trees -> Int]
  BY <1>1 DEF IInv, TypeOK
<1>10. IndexKept /\ order' \in [Worlds -> Times \cup {Null}] /\ orderMagic' \in Nat
  BY <1>1, IndexStays
<1>11. Forest'
  BY <1>1, ForestStays
<1> QED
  BY <1>1, <1>2, <1>5, <1>6, <1>7, <1>8, <1>9, <1>10, <1>11
  DEF Kept, HandlesKept, IInv, TypeOK

-----------------------------------------------------------------------------
(* resolveState.                                                           *)

(* Calls that leave the trees and the handles alone.                       *)
LEMMA AnswerKeeps ==
  ASSUME IInv, UNCHANGED <<parent, index, handle>>,
         states \subseteq states', states' \subseteq States,
         orderMarks' = orderMarks \/ orderMarks' = orderMarks + 1,
         stateMarks' \in [States -> Int], treeMarks' \in [Trees -> Int],
         NEW w \in Worlds, NEW t \in Times, NEW n \in States \cup {NoState, Orphan},
         answer' = [world |-> w, time |-> t, state |-> n]
  PROVE  Kept
<1>1. IndexKept /\ order' \in [Worlds -> Times \cup {Null}] /\ orderMagic' \in Nat
  BY IndexStays
<1>2. orderMarks' \in Int /\ orderMarks' >= orderMarks
  BY DEF IInv, TypeOK
<1>3. HandlesKept /\ StatesFirst'
  BY <1>2, HandlesStay
<1>4. Forest'
  BY ForestStays
<1> QED
  BY <1>1, <1>3, <1>4 DEF Kept

LEMMA QuietKeeps ==
  ASSUME IInv, NEW h \in Handles,
         InPhase(h) \/ Unresolvable(h) \/ GetSame(h) \/ GetMisses(h) \/ RephaseFails(h)
  PROVE  Kept
<1> DEFINE p == handle[h]
           r == Rephased(p)
<1>1. /\ UNCHANGED <<parent, index, states, stateMarks, orderMarks, handle>>
      /\ Answer(p, <<p.w, p.t>>) \/ Answer(p, NoState)
      /\ Live(h)
  BY DEF InPhase, Unresolvable, GetSame, GetMisses, RephaseFails, Dephased, marks
<1>2. p.world \in Worlds /\ p.time \in Times /\ <<p.w, p.t>> \in States
  BY <1>1, HandleIs DEF IInv, States
<1>3. treeMarks' = treeMarks \/ treeMarks' = TreesMoved(p, r)
      \/ treeMarks' = Plus(Plus(treeMarks, Super(p.w), 1), <<p.w, p.s>>, 1)
      \/ treeMarks' = Plus(Moved(treeMarks, Super(p.w), Super(r.w)), <<p.w, p.s>>, 1)
  BY DEF InPhase, Unresolvable, GetSame, GetMisses, RephaseFails, marks
<1> HIDE DEF p, r
<1>4. treeMarks' \in [Trees -> Int]
  <2>1. treeMarks \in [Trees -> Int]
    BY DEF IInv, TypeOK
  <2>2. TreesMoved(p, r) \in [Trees -> Int]
    BY TreesMovedTyped DEF IInv
  <2>3. Plus(Plus(treeMarks, Super(p.w), 1), <<p.w, p.s>>, 1) \in [Trees -> Int]
    BY <2>1, PlusTyped
  <2>4. Moved(treeMarks, Super(p.w), Super(r.w)) \in [Trees -> Int]
    BY <2>1, MovedTyped
  <2>5. Plus(Moved(treeMarks, Super(p.w), Super(r.w)), <<p.w, p.s>>, 1) \in [Trees -> Int]
    BY <2>4, PlusTyped
  <2> QED
    BY <1>3, <2>1, <2>2, <2>3, <2>5
<1>5. PICK n \in States \cup {NoState, Orphan} :
        answer' = [world |-> p.world, time |-> p.time, state |-> n]
  BY <1>1, <1>2 DEF Answer
<1>6. states' \subseteq States /\ stateMarks' \in [States -> Int]
  BY <1>1 DEF IInv, TypeOK
<1> QED
  BY <1>1, <1>2, <1>4, <1>5, <1>6, AnswerKeeps

LEMMA GetRephasedKeeps ==
  ASSUME IInv, NEW h \in Handles, GetRephased(h)
  PROVE  Kept
<1> DEFINE p == handle[h]
           r == Rephased(p)
<1>1. /\ Live(h) /\ <<r.w, r.t>> \in states /\ Answer(p, <<r.w, r.t>>)
      /\ treeMarks' = TreesMoved(p, r)
      /\ stateMarks' = Moved(stateMarks, <<p.w, p.t>>, <<r.w, r.t>>)
      /\ \/ handle' = handle
         \/ Resolve(h, r.w, r.s, r.t, orderMagic, magic[Super(p.w)], magic[<<p.w, p.s>>])
      /\ UNCHANGED <<parent, index, states, orderMarks>>
  BY DEF GetRephased, Dephased
<1>2. /\ p.world \in Worlds /\ p.time \in Times /\ p.w \in Worlds /\ p.s \in Times
  BY <1>1, HandleIs DEF IInv
<1>3. /\ r.w \in Worlds /\ r.s \in Times /\ r.t \in Times
      /\ r.s <= r.t /\ r.t <= p.time
  BY <1>1, RephasedIs DEF IInv
<1>4. magic[Super(p.w)] \in Int /\ magic[<<p.w, p.s>>] \in Int /\ orderMagic \in Int
  BY <1>2, TreesAre DEF IInv, TypeOK
<1> HIDE DEF r
<1>5. HandlesKept /\ StatesFirst'
  <2>1. CASE handle' = handle
    <3>1. orderMarks' \in Int /\ orderMarks' >= orderMarks
      BY <1>1 DEF IInv, TypeOK
    <3> QED
      BY <1>1, <2>1, <3>1, HandlesStay
  <2>2. CASE Resolve(h, r.w, r.s, r.t, orderMagic, magic[Super(p.w)], magic[<<p.w, p.s>>])
    BY <1>1, <1>3, <1>4, <2>2, ResolveKeeps
  <2> QED
    BY <1>1, <2>1, <2>2
<1> HIDE DEF p
<1>6. stateMarks' \in [States -> Int] /\ treeMarks' \in [Trees -> Int]
  BY <1>1, MovedTyped, TreesMovedTyped DEF IInv, TypeOK
<1>7. IndexKept /\ order' \in [Worlds -> Times \cup {Null}] /\ orderMagic' \in Nat
  BY <1>1, IndexStays
<1>8. Forest'
  BY <1>1, ForestStays
<1>9. answer' \in [world : Worlds, time : Times, state : States \cup {NoState, Orphan}]
  BY <1>1, <1>2, <1>3 DEF Answer, States
<1> QED
  BY <1>1, <1>5, <1>6, <1>7, <1>8, <1>9 DEF Kept, IInv, TypeOK

LEMMA PhaseMissesKeeps ==
  ASSUME IInv, NEW h \in Handles, PhaseMisses(h)
  PROVE  Kept
<1> DEFINE p == handle[h]
           r == Rephased(p)
<1>1. /\ Live(h) /\ states' = states \cup {Here(p)}
      /\ stateMarks' = Plus(stateMarks, Here(p), Put(Here(p) \in states))
      /\ treeMarks' = TreesMoved(p, r)
      /\ Answer(p, IF Here(p) \in states THEN Orphan ELSE Here(p))
      /\ UNCHANGED <<parent, index, orderMarks, handle>>
  BY DEF PhaseMisses, Dephased
<1>2. p.world \in Worlds /\ p.time \in Times /\ Here(p) \in States
  BY <1>1, HandleIs DEF IInv, States, Here
<1> HIDE DEF p, r
<1>3. stateMarks' \in [States -> Int] /\ treeMarks' \in [Trees -> Int]
  <2>1. Put(Here(p) \in states) \in Int
    BY DEF Put
  <2> QED
    BY <1>1, <2>1, PlusTyped, TreesMovedTyped DEF IInv, TypeOK
<1>4. PICK n \in States \cup {NoState, Orphan} :
        answer' = [world |-> p.world, time |-> p.time, state |-> n]
  BY <1>1, <1>2 DEF Answer
<1>5. states \subseteq states' /\ states' \subseteq States
  BY <1>1, <1>2 DEF IInv, TypeOK
<1> QED
  BY <1>1, <1>2, <1>3, <1>4, <1>5, AnswerKeeps

(* What the four ways to write a state have in common. W is the state that *)
(* loses a mark, n the one that is put.                                    *)
LEMMA WriteKeeps ==
  ASSUME IInv, NEW h \in Handles, Live(h), parent' = parent,
         IndexKept, order' \in [Worlds -> Times \cup {Null}], orderMagic' \in Nat,
         orderMarks' = orderMarks,
         NEW n \in States, NEW old,
         states' = states \cup {n},
         stateMarks' = Plus(Plus(stateMarks, n, Put(n \in states)), old, -1),
         treeMarks' \in [Trees -> Int],
         NEW w \in Worlds, NEW t \in Times, NEW a \in States \cup {NoState, Orphan},
         answer' = [world |-> w, time |-> t, state |-> a],
         NEW v \in Worlds, NEW s \in Times, NEW u \in Times,
         s <= u, u <= handle[h].time,
         NEW mw \in Int, NEW ms \in Int, NEW mt \in Int,
         Resolve(h, v, s, u, mw, ms, mt)
  PROVE  Kept
<1>1. states \subseteq states' /\ states' \subseteq States
  BY DEF IInv, TypeOK
<1>2. HandlesKept /\ StatesFirst'
  BY <1>1, ResolveKeeps
<1>3. stateMarks' \in [States -> Int]
  <2>1. Put(n \in states) \in Int
    BY DEF Put
  <2>2. Plus(stateMarks, n, Put(n \in states)) \in [States -> Int]
    BY <2>1, PlusTyped DEF IInv, TypeOK
  <2> QED
    BY <2>2, PlusTyped
<1>4. Forest'
  BY ForestStays
<1> QED
  BY <1>1, <1>2, <1>3, <1>4 DEF Kept

(* What a call that writes through resolveState starts from.               *)
LEMMA PhasesIs ==
  ASSUME IInv, NEW h \in Handles, Phases(h)
  PROVE  LET p == handle[h]  r == Rephased(p) IN
         /\ Live(h) /\ p.world \in Worlds /\ p.time \in Times /\ p.w \in Worlds
         /\ Here(p) \in States /\ p.time <= p.time
         /\ p.time \in Nat
         /\ r.w \in Worlds /\ r.s \in Times /\ r.s <= p.time
         /\ r.k \in Trees /\ \E v \in Worlds : r.k = <<v, r.s>>
         /\ TreesMoved(p, r) \in [Trees -> Int]
         /\ (IF Here(p) \in states THEN Orphan ELSE Here(p))
              \in States \cup {NoState, Orphan}
<1>1. Live(h) /\ <<Rephased(handle[h]).w, Rephased(handle[h]).t>> \in states
  BY DEF Phases, Dephased
<1>2. /\ handle[h].world \in Worlds /\ handle[h].time \in Times /\ handle[h].w \in Worlds
      /\ handle[h].time \in Nat
  BY <1>1, HandleIs DEF IInv
<1>3. LET p == handle[h]  r == Rephased(p) IN
      /\ r.w \in Worlds /\ r.s \in Times /\ r.s <= p.time
      /\ r.k \in Trees /\ \E v \in Worlds : r.k = <<v, r.s>>
  BY <1>1, RephasedIs DEF IInv
<1>4. TreesMoved(handle[h], Rephased(handle[h])) \in [Trees -> Int]
  BY TreesMovedTyped DEF IInv
<1>5. Here(handle[h]) \in States /\ handle[h].time <= handle[h].time
  BY <1>2 DEF Here, States
<1> QED
  BY <1>1, <1>2, <1>3, <1>4, <1>5

LEMMA PhaseInsertsKeeps ==
  ASSUME IInv, NEW h \in Handles, PhaseInserts(h)
  PROVE  Kept
<1> DEFINE p == handle[h]
           r == Rephased(p)
           a == IF Here(p) \in states THEN Orphan ELSE Here(p)
<1>1. /\ Phases(h) /\ Insert(r.k, p.time)
      /\ states' = states \cup {Here(p)}
      /\ stateMarks' = Plus(Plus(stateMarks, Here(p), Put(Here(p) \in states)),
                            <<r.w, r.t>>, -1)
      /\ answer' = [world |-> p.world, time |-> p.time, state |-> a]
      /\ treeMarks' = TreesMoved(p, r)
      /\ Resolve(h, p.world, r.s, p.time, orderMagic, magic[Super(p.w)], magic'[r.k])
      /\ UNCHANGED <<parent, order, orderMagic, orderMarks>>
  BY DEF PhaseInserts, CloneState, Answer
<1>2. /\ Live(h) /\ p.world \in Worlds /\ p.time \in Times /\ p.w \in Worlds
      /\ Here(p) \in States /\ p.time <= p.time
      /\ r.s \in Times /\ r.s <= p.time /\ r.k \in Trees
      /\ \E v \in Worlds : r.k = <<v, r.s>>
      /\ TreesMoved(p, r) \in [Trees -> Int]
      /\ a \in States \cup {NoState, Orphan}
  BY <1>1, PhasesIs
<1> HIDE DEF r, a
<1>3. IndexKept
  <2>1. PICK v \in Worlds : r.k = <<v, r.s>>
    BY <1>2
  <2>2. Insert(<<v, r.s>>, p.time) /\ order' = order /\ states \subseteq states'
    BY <1>1, <2>1
  <2> HIDE DEF p
  <2> QED
    BY <1>2, <2>2, InsertKeepsIndex DEF IInv
<1>4. orderMagic \in Int /\ magic[Super(p.w)] \in Int /\ magic'[r.k] \in Int
  BY <1>2, <1>3, TreesAre DEF IInv, TypeOK, IndexKept
<1>5. order' \in [Worlds -> Times \cup {Null}] /\ orderMagic' \in Nat
  BY <1>1 DEF IInv, TypeOK
<1> QED
  BY <1>1, <1>2, <1>3, <1>4, <1>5, WriteKeeps

LEMMA PhaseSplitsKeeps ==
  ASSUME IInv, NEW h \in Handles, PhaseSplitsLeft(h) \/ PhaseSplitsRight(h)
  PROVE  Kept
<1> DEFINE p == handle[h]
           r == Rephased(p)
           m == Median(r.k, p.time)
           a == IF Here(p) \in states THEN Orphan ELSE Here(p)
           put == Put(tree[<<p.world, m>>] # {})
<1>1. /\ Phases(h) /\ Splits(r.k, Super(r.w), p.time)
      /\ InsertAndSplit(p.world, r.k, Super(r.w), p.time, FALSE)
      /\ states' = states \cup {Here(p)}
      /\ stateMarks' = Plus(Plus(stateMarks, Here(p), Put(Here(p) \in states)),
                            <<r.w, r.t>>, -1)
      /\ answer' = [world |-> p.world, time |-> p.time, state |-> a]
      /\ UNCHANGED <<parent, order, orderMagic, orderMarks>>
  BY DEF PhaseSplitsLeft, PhaseSplitsRight, CloneState, Answer
<1>2. \/ /\ treeMarks' = Plus(TreesMoved(p, r), <<p.world, m>>, put - 1)
         /\ Resolve(h, p.world, r.s, p.time, orderMagic, magic'[Super(r.w)], magic'[r.k])
      \/ /\ p.time >= m
         /\ treeMarks' = Plus(Plus(TreesMoved(p, r), r.k, IF r.s = p.s THEN -1 ELSE -2),
                              <<p.world, m>>, put)
         /\ Resolve(h, p.world, m, p.time, orderMagic, magic'[<<p.world, m>>], magic'[r.k])
  BY DEF PhaseSplitsLeft, PhaseSplitsRight
<1>3. /\ Live(h) /\ p.world \in Worlds /\ p.time \in Times
      /\ Here(p) \in States /\ p.time <= p.time
      /\ r.w \in Worlds /\ r.s \in Times /\ r.s <= p.time /\ r.k \in Trees
      /\ \E v \in Worlds : r.k = <<v, r.s>>
      /\ TreesMoved(p, r) \in [Trees -> Int]
      /\ a \in States \cup {NoState, Orphan}
      /\ p.time \in Nat
  BY <1>1, PhasesIs
<1> HIDE DEF r, a
<1>4. IndexKept /\ m \in Times
  <2>1. PICK v \in Worlds : r.k = <<v, r.s>>
    BY <1>3
  <2>2. /\ Splits(<<v, r.s>>, Super(r.w), p.time)
        /\ InsertAndSplit(p.world, <<v, r.s>>, Super(r.w), p.time, FALSE)
        /\ order' = order /\ states \subseteq states' /\ FALSE \in BOOLEAN
    BY <1>1, <2>1
  <2> HIDE DEF p, m
  <2>3. IndexKept /\ Median(<<v, r.s>>, p.time) \in Times
    BY <1>3, <2>2, SplitKeepsIndex DEF IInv
  <2> QED
    BY <2>1, <2>3 DEF m
<1> HIDE DEF m
<1>5. /\ orderMagic \in Int /\ magic'[Super(r.w)] \in Int /\ magic'[r.k] \in Int
      /\ magic'[<<p.world, m>>] \in Int /\ m \in Nat
  BY <1>3, <1>4, TreesAre, TimesAre DEF IInv, TypeOK, IndexKept
<1>6. order' \in [Worlds -> Times \cup {Null}] /\ orderMagic' \in Nat
  BY <1>1 DEF IInv, TypeOK
<1>7. put \in Int /\ put - 1 \in Int
  BY DEF Put
<1> HIDE DEF put
<1>8. treeMarks' \in [Trees -> Int]
  <2>1. /\ Plus(TreesMoved(p, r), <<p.world, m>>, put - 1) \in [Trees -> Int]
        /\ \A i \in Int : Plus(TreesMoved(p, r), r.k, i) \in [Trees -> Int]
    BY <1>3, <1>7, PlusTyped
  <2>2. Plus(TreesMoved(p, r), r.k, IF r.s = p.s THEN -1 ELSE -2) \in [Trees -> Int]
    <3>1. (IF r.s = p.s THEN -1 ELSE -2) \in Int
      OBVIOUS
    <3> QED
      BY <2>1, <3>1
  <2>3. Plus(Plus(TreesMoved(p, r), r.k, IF r.s = p.s THEN -1 ELSE -2),
             <<p.world, m>>, put) \in [Trees -> Int]
    BY <1>7, <2>2, PlusTyped
  <2> QED
    BY <1>2, <2>1, <2>3
<1>9. CASE Resolve(h, p.world, r.s, p.time, orderMagic, magic'[Super(r.w)], magic'[r.k])
  BY <1>1, <1>3, <1>4, <1>5, <1>6, <1>8, <1>9, WriteKeeps
<1>10. CASE /\ p.time >= m
            /\ Resolve(h, p.world, m, p.time, orderMagic, magic'[<<p.world, m>>], magic'[r.k])
  <2>1. m <= p.time
    BY <1>3, <1>5, <1>10
  <2> QED
    BY <1>1, <1>3, <1>4, <1>5, <1>6, <1>8, <1>10, <2>1, WriteKeeps
<1> QED
  BY <1>2, <1>9, <1>10

LEMMA PhaseDivergesKeeps ==
  ASSUME IInv, NEW h \in Handles, PhaseDiverges(h)
  PROVE  Kept
<1> DEFINE p == handle[h]
           r == Rephased(p)
           a == IF Here(p) \in states THEN Orphan ELSE Here(p)
<1>1. /\ Phases(h) /\ NewTimeline(p.world, p.time)
      /\ states' = states \cup {Here(p)}
      /\ stateMarks' = Plus(Plus(stateMarks, Here(p), Put(Here(p) \in states)),
                            <<r.w, r.t>>, -1)
      /\ answer' = [world |-> p.world, time |-> p.time, state |-> a]
      /\ treeMarks' = Moved(Moved(TreesMoved(p, r), Super(r.w), Super(p.world)),
                            r.k, Here(p))
      /\ Resolve(h, p.world, p.time, p.time,
                 orderMagic', magic'[Super(p.world)], magic'[Here(p)])
      /\ parent' = parent /\ orderMarks' = orderMarks
  BY DEF PhaseDiverges, CloneState, Answer
<1>2. /\ Live(h) /\ p.world \in Worlds /\ p.time \in Times
      /\ Here(p) \in States /\ p.time <= p.time
      /\ TreesMoved(p, r) \in [Trees -> Int]
      /\ a \in States \cup {NoState, Orphan}
  BY <1>1, PhasesIs
<1> HIDE DEF r, a
<1>3. /\ IndexKept /\ order' \in [Worlds -> Times \cup {Null}] /\ orderMagic' \in Nat
  <2>1. states \cup {<<p.world, p.time>>} \subseteq states'
    BY <1>1 DEF Here
  <2> HIDE DEF p
  <2> QED
    BY <1>1, <1>2, <2>1, TimelineKeepsIndex DEF IInv
<1>4. orderMagic' \in Int /\ magic'[Super(p.world)] \in Int /\ magic'[Here(p)] \in Int
  BY <1>2, <1>3, TreesAre DEF IndexKept, Here
<1>5. treeMarks' \in [Trees -> Int]
  <2>1. Moved(TreesMoved(p, r), Super(r.w), Super(p.world)) \in [Trees -> Int]
    BY <1>2, MovedTyped
  <2> QED
    BY <1>1, <2>1, MovedTyped
<1> QED
  BY <1>1, <1>2, <1>3, <1>4, <1>5, WriteKeeps

-----------------------------------------------------------------------------
(* newState. MayAdd has put t between the state the handle resolved and    *)
(* the time of the node.                                                   *)

LEMMA AddsIs ==
  ASSUME IInv, NEW h \in Handles, NEW t \in Times, MayAdd(h, t)
  PROVE  LET p == handle[h] IN
         /\ Live(h) /\ p.world \in Worlds /\ p.w \in Worlds /\ p.s \in Times
         /\ p.t \in Times /\ p.t <= t /\ p.s <= t /\ t <= p.time /\ t <= t
         /\ <<p.world, t>> \in States /\ <<p.w, t>> \in States
         /\ At(p, t).world = p.world /\ At(p, t).time = t
<1> DEFINE p == handle[h]
<1>1. Live(h) /\ p.t <= t /\ t <= p.time
  BY DEF MayAdd, MayInsert, MayCall, OuterTime, IInv, InnerTimes
<1>2. /\ p \in Resolved /\ p.world \in Worlds /\ p.w \in Worlds /\ p.s \in Times
      /\ p.t \in Times /\ p.s \in Nat /\ p.t \in Nat /\ p.s <= p.t
  BY <1>1, HandleIs DEF IInv
<1>3. t \in Nat
  BY TimesAre
<1>4. At(p, t).world = p.world /\ At(p, t).time = t
  BY <1>2 DEF At, Resolved
<1> HIDE DEF p
<1>5. p.s <= t /\ t <= t
  BY <1>1, <1>2, <1>3
<1>6. <<p.world, t>> \in States /\ <<p.w, t>> \in States
  BY <1>2 DEF States
<1> QED
  BY <1>1, <1>2, <1>4, <1>5, <1>6 DEF p

LEMMA NewQuietKeeps ==
  ASSUME IInv, NEW h \in Handles, NEW t \in Times, MayAdd(h, t),
         NewRefused(h, t) \/ NewThere(h, t) \/ NewMisses(h, t)
  PROVE  Kept
<1> DEFINE p == handle[h]
           n == <<p.world, t>>
<1>1. /\ p.world \in Worlds /\ n \in States /\ <<p.w, t>> \in States
      /\ At(p, t).world = p.world /\ At(p, t).time = t
  BY AddsIs
<1>2. /\ UNCHANGED <<parent, index, handle, treeMarks>>
      /\ orderMarks' = orderMarks \/ orderMarks' = orderMarks + 1
      /\ \/ states' = states /\ stateMarks' = stateMarks
         \/ states' = states \cup {n}
            /\ stateMarks' = Plus(stateMarks, n, Put(n \in states))
      /\ Answer(At(p, t), NoState) \/ Answer(At(p, t), <<p.w, t>>)
  BY DEF NewRefused, NewThere, NewMisses, marks
<1> HIDE DEF p
<1>3. PICK m \in States \cup {NoState, Orphan} :
        answer' = [world |-> p.world, time |-> t, state |-> m]
  BY <1>1, <1>2 DEF Answer
<1>4. states \subseteq states' /\ states' \subseteq States
  BY <1>1, <1>2 DEF IInv, TypeOK
<1>5. stateMarks' \in [States -> Int] /\ treeMarks' \in [Trees -> Int]
  <2>1. Put(n \in states) \in Int
    BY DEF Put
  <2>2. Plus(stateMarks, n, Put(n \in states)) \in [States -> Int]
    BY <2>1, PlusTyped DEF IInv, TypeOK
  <2> QED
    BY <1>2, <2>2 DEF IInv, TypeOK
<1> HIDE DEF n
<1> QED
  BY <1>1, <1>2, <1>3, <1>4, <1>5, AnswerKeeps

LEMMA NewInsertsKeeps ==
  ASSUME IInv, NEW h \in Handles, NEW t \in Times, MayAdd(h, t), NewInserts(h, t)
  PROVE  Kept
<1> DEFINE p == handle[h]
           k == <<p.w, p.s>>
           n == <<p.world, t>>
<1>1. /\ Insert(k, t)
      /\ states' = states \cup {n}
      /\ stateMarks' = Plus(Plus(stateMarks, n, Put(n \in states)), <<p.w, p.t>>, -1)
      /\ Answer(At(p, t), n)
      /\ Resolve(h, p.world, p.s, t, orderMagic, magic[Super(p.w)], magic'[k])
      /\ UNCHANGED <<parent, order, orderMagic, treeMarks, orderMarks>>
  BY DEF NewInserts, PutState
<1>2. /\ Live(h) /\ p.world \in Worlds /\ p.w \in Worlds /\ p.s \in Times
      /\ p.s <= t /\ t <= p.time /\ n \in States
      /\ At(p, t).world = p.world /\ At(p, t).time = t
  BY AddsIs
<1>3. answer' = [world |-> p.world, time |-> t, state |-> n]
  BY <1>1, <1>2 DEF Answer
<1>4. IndexKept
  <2>1. order' = order /\ states \subseteq states'
    BY <1>1
  <2> HIDE DEF p
  <2> QED
    BY <1>1, <1>2, <2>1, InsertKeepsIndex DEF IInv
<1>5. orderMagic \in Int /\ magic[Super(p.w)] \in Int /\ magic'[k] \in Int
  BY <1>2, <1>4, TreesAre DEF IInv, TypeOK, IndexKept
<1>6. /\ order' \in [Worlds -> Times \cup {Null}] /\ orderMagic' \in Nat
      /\ treeMarks' \in [Trees -> Int]
  BY <1>1 DEF IInv, TypeOK
<1>7. n \in States \cup {NoState, Orphan}
  BY <1>2
<1> HIDE DEF n, k
<1> QED
  BY <1>1, <1>2, <1>3, <1>4, <1>5, <1>6, <1>7, WriteKeeps

LEMMA NewSplitsKeeps ==
  ASSUME IInv, NEW h \in Handles, NEW t \in Times, MayAdd(h, t), NewSplits(h, t)
  PROVE  Kept
<1> DEFINE p == handle[h]
           k == <<p.w, p.s>>
           n == <<p.world, t>>
           m == Median(k, t)
           right == <<p.world, m>>
           put == Put(tree[right] # {})
<1>1. /\ Splits(k, Super(p.w), t)
      /\ InsertAndSplit(p.world, k, Super(p.w), t, TRUE)
      /\ states' = states \cup {n}
      /\ stateMarks' = Plus(Plus(stateMarks, n, Put(n \in states)), <<p.w, p.t>>, -1)
      /\ Answer(At(p, t), n)
      /\ UNCHANGED <<parent, order, orderMagic, orderMarks>>
  BY DEF NewSplits, PutState
<1>2. \/ /\ treeMarks' = Plus(treeMarks, right, put - 1)
         /\ Resolve(h, p.world, p.s, t, orderMagic, magic'[Super(p.w)], magic'[k])
      \/ /\ t >= m
         /\ treeMarks' = Plus(Plus(treeMarks, k, -1), right, put)
         /\ Resolve(h, p.world, m, t, orderMagic, magic'[right], magic'[k])
  BY DEF NewSplits
<1>3. /\ Live(h) /\ p.world \in Worlds /\ p.w \in Worlds /\ p.s \in Times
      /\ p.s <= t /\ t <= p.time /\ n \in States
      /\ At(p, t).world = p.world /\ At(p, t).time = t
  BY AddsIs
<1>4. answer' = [world |-> p.world, time |-> t, state |-> n]
  BY <1>1, <1>3 DEF Answer
<1>5. IndexKept /\ m \in Times
  <2>1. order' = order /\ states \subseteq states' /\ TRUE \in BOOLEAN
    BY <1>1
  <2> HIDE DEF p
  <2> QED
    BY <1>1, <1>3, <2>1, SplitKeepsIndex DEF IInv
<1> HIDE DEF m
<1>6. /\ orderMagic \in Int /\ magic'[Super(p.w)] \in Int /\ magic'[k] \in Int
      /\ magic'[right] \in Int /\ m \in Nat /\ t \in Nat
  <2>1. Super(p.w) \in Trees /\ k \in Trees /\ right \in Trees
    BY <1>3, <1>5, TreesAre
  <2>2. magic' \in [Trees -> Nat] /\ orderMagic \in Nat
    BY <1>5 DEF IInv, TypeOK, IndexKept
  <2>3. m \in Nat /\ t \in Nat
    BY <1>5, TimesAre
  <2> HIDE DEF p, k, right
  <2> QED
    BY <2>1, <2>2, <2>3
<1>7. order' \in [Worlds -> Times \cup {Null}] /\ orderMagic' \in Nat
  BY <1>1 DEF IInv, TypeOK
<1>8. put \in Int /\ put - 1 \in Int
  BY DEF Put
<1> HIDE DEF put, right
<1>9. treeMarks' \in [Trees -> Int]
  <2>1. Plus(treeMarks, right, put - 1) \in [Trees -> Int]
    BY <1>8, PlusTyped DEF IInv, TypeOK
  <2>2. Plus(treeMarks, k, -1) \in [Trees -> Int]
    BY PlusTyped DEF IInv, TypeOK
  <2>3. Plus(Plus(treeMarks, k, -1), right, put) \in [Trees -> Int]
    BY <1>8, <2>2, PlusTyped
  <2> QED
    BY <1>2, <2>1, <2>3
<1>10. n \in States \cup {NoState, Orphan}
  BY <1>3
<1> HIDE DEF n, k
<1>11. CASE Resolve(h, p.world, p.s, t, orderMagic, magic'[Super(p.w)], magic'[k])
  BY <1>1, <1>3, <1>4, <1>5, <1>6, <1>7, <1>9, <1>10, <1>11, WriteKeeps
<1>12. CASE t >= m /\ Resolve(h, p.world, m, t, orderMagic, magic'[right], magic'[k])
  <2>1. m <= t
    BY <1>6, <1>12
  <2> QED
    BY <1>1, <1>3, <1>4, <1>5, <1>6, <1>7, <1>9, <1>10, <1>12, <2>1, WriteKeeps
<1> QED
  BY <1>2, <1>11, <1>12

LEMMA NewDivergesKeeps ==
  ASSUME IInv, NEW h \in Handles, NEW t \in Times, MayAdd(h, t), NewDiverges(h, t)
  PROVE  Kept
<1> DEFINE p == handle[h]
           n == <<p.world, t>>
<1>1. /\ NewTimeline(p.world, t)
      /\ states' = states \cup {n}
      /\ stateMarks' = Plus(Plus(stateMarks, n, Put(n \in states)), <<p.w, p.t>>, -1)
      /\ Answer(At(p, t), n)
      /\ treeMarks' = Moved(Moved(treeMarks, Super(p.w), Super(p.world)),
                            <<p.w, p.s>>, n)
      /\ Resolve(h, p.world, t, t, orderMagic', magic'[Super(p.world)], magic'[n])
      /\ parent' = parent /\ orderMarks' = orderMarks
  BY DEF NewDiverges, PutState
<1>2. /\ Live(h) /\ p.world \in Worlds /\ t <= t /\ t <= p.time /\ n \in States
      /\ At(p, t).world = p.world /\ At(p, t).time = t
  BY AddsIs
<1>3. answer' = [world |-> p.world, time |-> t, state |-> n]
  BY <1>1, <1>2 DEF Answer
<1>4. IndexKept /\ order' \in [Worlds -> Times \cup {Null}] /\ orderMagic' \in Nat
  <2>1. states \cup {<<p.world, t>>} \subseteq states'
    BY <1>1
  <2> HIDE DEF p
  <2> QED
    BY <1>1, <1>2, <2>1, TimelineKeepsIndex DEF IInv
<1>5. orderMagic' \in Int /\ magic'[Super(p.world)] \in Int /\ magic'[n] \in Int
  BY <1>2, <1>4, TreesAre DEF IndexKept
<1>6. treeMarks' \in [Trees -> Int]
  <2>1. Moved(treeMarks, Super(p.w), Super(p.world)) \in [Trees -> Int]
    BY MovedTyped DEF IInv, TypeOK
  <2> QED
    BY <1>1, <2>1, MovedTyped
<1>7. n \in States \cup {NoState, Orphan}
  BY <1>2
<1> HIDE DEF n
<1> QED
  BY <1>1, <1>2, <1>3, <1>4, <1>5, <1>6, <1>7, WriteKeeps

-----------------------------------------------------------------------------
(* Every step.                                                             *)

LEMMA NextKeepsIInv == IInv /\ [Next]_vars => IInv'
<1> SUFFICES ASSUME IInv, [Next]_vars PROVE IInv'
  OBVIOUS
<1>1. CASE UNCHANGED vars
  BY <1>1 DEF vars, IInv, TypeOK, Forest, Depths, Exists, TreesStart, HandlesOrdered,
              Alive, Live, TimelinesBegin, Super, StatesFirst, LockKept
<1>2. ASSUME NEW w \in Worlds, NEW child \in Worlds, Fork(w, child), Strays(FALSE)
      PROVE  IInv'
  BY <1>2, ForkKeeps, KeptIsEnough
<1>3. ASSUME NEW h \in Handles, NEW w \in Worlds, NEW t \in Times,
             NewNode(h, w, t) \/ Lookup(h, w, t), Strays(FALSE)
      PROVE  IInv'
  BY <1>3, NewNodeKeeps, LookupKeeps, KeptIsEnough
<1>4. ASSUME NEW h \in Handles, Free(h), Strays(FALSE)
      PROVE  IInv'
  BY <1>4, FreeKeeps, KeptIsEnough
<1>5. ASSUME NEW h \in Handles, Get(h), Strays(StaleRead(h))
      PROVE  IInv'
  <2>1. Kept
    BY <1>5, QuietKeeps, GetRephasedKeeps DEF Get
  <2> QED
    BY <1>5, <2>1, KeptIsEnough
<1>6. ASSUME NEW h \in Handles, Phase(h),
             Strays(~Exact(handle[h]) /\ (StaleWrite(h) \/ EarlyWrite(h)))
      PROVE  IInv'
  <2>1. Kept
    BY <1>6, QuietKeeps, PhaseMissesKeeps, PhaseInsertsKeeps, PhaseSplitsKeeps,
       PhaseDivergesKeeps DEF Phase
  <2> QED
    BY <1>6, <2>1, KeptIsEnough
<1>7. ASSUME NEW h \in Handles, NEW t \in Times, MayAdd(h, t), NewState(h, t),
             Strays(StaleWrite(h) \/ EarlyWrite(h) \/ Refused(handle[h], t)
                    \/ OuterTime(h, t))
      PROVE  IInv'
  <2>1. Kept
    BY <1>7, NewQuietKeeps, NewInsertsKeeps, NewSplitsKeeps, NewDivergesKeeps
    DEF NewState
  <2> QED
    BY <1>7, <2>1, KeptIsEnough
<1>8. ASSUME NEW h \in Handles, NEW copy \in Handles, Clone(h, copy),
             Strays(~Exact(handle[h]))
      PROVE  IInv'
  BY <1>8, CloneKeeps, KeptIsEnough
<1> QED
  BY <1>1, <1>2, <1>3, <1>4, <1>5, <1>6, <1>7, <1>8 DEF Next

LEMMA Invariance ==
  ASSUME InnerTimes
  PROVE  Spec => []IInv
<1>1. Init => IInv
  BY InitEstablishesIInv
<1>2. IInv /\ [Next]_vars => IInv'
  BY NextKeepsIInv
<1> QED
  BY <1>1, <1>2, PTL DEF Spec

-----------------------------------------------------------------------------
(* Whatever its users do not take care of, the resolver only ever puts     *)
(* times in trees, counts magics upwards, and gives every Node object a    *)
(* resolution in known worlds at known times: no call resolves to          *)
(* NULL_LONG and goes on with it.                                          *)
THEOREM TypeCorrect ==
  ASSUME InnerTimes
  PROVE  Spec => []TypeOK
BY Invariance, PTL DEF IInv

(* The world order keeps a mark for every Node object, on the error paths  *)
(* of resolveState and newState too: it is not evicted under them.         *)
THEOREM LockIsKept ==
  ASSUME InnerTimes
  PROVE  Spec => []LockKept
BY Invariance, PTL DEF IInv

(* The state a timeline begins with is found by a lookup ever after,       *)
(* whatever is inserted and split in trees resolved too long ago.          *)
THEOREM FirstIsKept ==
  ASSUME InnerTimes
  PROVE  Spec => []FirstKept
<1>1. IInv => FirstKept
  BY FirstIsFound DEF IInv
<1> QED
  BY <1>1, Invariance, PTL

-----------------------------------------------------------------------------
(***************************************************************************)
(* What careful callers get. As long as nobody has strayed, the trees of a *)
(* world part its states (Parted), every Node object refers to a state and *)
(* to a tree that are there (HandlesPlaced), and each step moves the marks *)
(* of one Node object along with its resolution (MarksFollow). When nobody *)
(* ever strays, unchanged magics tell of a resolution that is still the    *)
(* right one (MagicsTell), and every step is one of Timelines (NextMaps).  *)
(***************************************************************************)

-----------------------------------------------------------------------------
(* Times.                                                                  *)

LEMMA LastIs ==
  ASSUME NEW S \in SUBSET Times, NEW t \in Times
  PROVE  LET x == PreviousOrEqual(S, t) IN
         /\ x # Null => x \in S /\ x <= t
         /\ \A y \in S : y <= t => x # Null /\ y <= x
<1> DEFINE before == {s \in S : s <= t}
           x == PreviousOrEqual(S, t)
<1>1. before # {} => Max(before) \in before /\ \A y \in before : y <= Max(before)
  BY MaxIs
<1>2. x = IF before = {} THEN Null ELSE Max(before)
  BY DEF PreviousOrEqual
<1>3. before \subseteq Times /\ Null \notin Times
  BY TimesAre
<1> HIDE DEF x
<1>4. ASSUME NEW y \in S, y <= t PROVE x # Null /\ y <= x
  <2>1. y \in before
    BY <1>4
  <2> HIDE DEF before
  <2> QED
    BY <1>1, <1>2, <1>3, <2>1
<1>5. x # Null => x \in S /\ x <= t
  BY <1>1, <1>2
<1> QED
  BY <1>4, <1>5 DEF x

LEMMA SizeOfOneMore ==
  ASSUME NEW S \in SUBSET Times, NEW t \in Times
  PROVE  /\ Cardinality(S \cup {t}) \in Nat /\ Cardinality(S) \in Nat
         /\ Cardinality(S \cup {t}) <= Cardinality(S) + 1
<1>1. IsFiniteSet(S) /\ Cardinality(S) \in Nat
  BY TimesAre
<1>2. CASE t \in S
  <2>1. S \cup {t} = S
    BY <1>2
  <2>2. Cardinality(S \cup {t}) = Cardinality(S)
    BY <2>1
  <2> QED
    BY <1>1, <2>2
<1>3. CASE t \notin S
  <2>1. Cardinality(S \cup {t}) = Cardinality(S) + 1
    BY <1>1, <1>3, FS_AddElement
  <2> QED
    BY <1>1, <2>1
<1> QED
  BY <1>2, <1>3

(* The half that is split off is everything from its first time on.        *)
LEMMA UpperIsAbove ==
  ASSUME NEW S \in SUBSET Times, NEW x \in UpperHalf(S), NEW y \in S, x <= y
  PROVE  y \in UpperHalf(S)
<1> DEFINE A == {z \in S : z > x}
           B == {z \in S : z > y}
<1>1. \A z \in S : z \in Nat
  BY TimesAre
<1>2. x \in S /\ Cardinality(A) < Cardinality(S) \div 2
  BY DEF UpperHalf
<1>3. B \subseteq A
  BY <1>1, <1>2
<1>4. IsFiniteSet(A) /\ Cardinality(A) \in Nat /\ Cardinality(B) \in Nat
      /\ Cardinality(S) \in Nat
  BY TimesAre
<1>5. Cardinality(B) <= Cardinality(A)
  BY <1>3, <1>4, FS_Subset
<1> HIDE DEF A
<1>6. Cardinality(B) < Cardinality(S) \div 2
  BY <1>2, <1>4, <1>5
<1> QED
  BY <1>6 DEF UpperHalf

(* A tree may grow with the number of trees, never shrink.                 *)
LEMMA ThresholdGrows ==
  ASSUME NEW n \in Nat, NEW m \in Nat, n <= m
  PROVE  Threshold(n) <= Threshold(m) /\ Threshold(n) \in Nat /\ Threshold(m) \in Nat
<1> DEFINE Fits(k) == {i \in DOMAIN Scales : k <= 2 * Scales[i]}
           Index(k) == IF Fits(k) = {} THEN Max(DOMAIN Scales) ELSE Min(Fits(k))
<1>1. /\ DOMAIN Scales = 1 .. Len(Scales) /\ Len(Scales) \in Nat /\ Len(Scales) # 0
      /\ \A j \in DOMAIN Scales : Scales[j] \in Nat \ {0}
      /\ \A i, j \in DOMAIN Scales : i <= j => Scales[i] <= Scales[j]
  BY ResolverAssumption
<1>2. Max(DOMAIN Scales) \in DOMAIN Scales /\ \A j \in DOMAIN Scales : j <= Max(DOMAIN Scales)
  <2>1. /\ Len(Scales) \in DOMAIN Scales
        /\ \A j \in DOMAIN Scales : j <= Len(Scales)
    BY <1>1
  <2> QED
    BY <2>1 DEF Max
<1>3. ASSUME NEW k \in Nat
      PROVE  /\ Fits(k) # {} => Min(Fits(k)) \in Fits(k) /\ \A j \in Fits(k) : Min(Fits(k)) <= j
             /\ Index(k) \in DOMAIN Scales /\ Threshold(k) = 2 * Scales[Index(k)]
  <2>1. Fits(k) \in SUBSET Nat
    BY <1>1
  <2>2. Fits(k) # {} => \E x \in Fits(k) : \A y \in Fits(k) : x <= y
    BY <2>1, Smallest
  <2>3. Fits(k) # {} => Min(Fits(k)) \in Fits(k) /\ \A j \in Fits(k) : Min(Fits(k)) <= j
    BY <2>2 DEF Min
  <2>4. Index(k) \in DOMAIN Scales
    BY <1>2, <2>3
  <2>5. Threshold(k) = 2 * Scales[Index(k)]
    BY DEF Threshold
  <2> QED
    BY <2>3, <2>4, <2>5
<1>4. Fits(m) \subseteq Fits(n)
  BY <1>1
<1>5. Index(n) <= Index(m)
  <2>1. CASE Fits(n) = {}
    BY <1>1, <1>2, <1>4, <2>1
  <2>2. CASE Fits(n) # {} /\ Fits(m) = {}
    BY <1>2, <1>3, <2>2
  <2>3. CASE Fits(m) # {}
    <3>1. Min(Fits(m)) \in Fits(m)
      BY <1>3, <2>3
    <3>2. Min(Fits(n)) <= Min(Fits(m)) /\ Fits(n) # {}
      BY <1>3, <1>4, <3>1
    <3> QED
      BY <2>3, <3>2
  <2> QED
    BY <2>1, <2>2, <2>3
<1> HIDE DEF Index, Fits
<1>6. Scales[Index(n)] <= Scales[Index(m)]
  BY <1>1, <1>3, <1>5
<1>7. /\ Threshold(n) = 2 * Scales[Index(n)] /\ Threshold(m) = 2 * Scales[Index(m)]
      /\ Scales[Index(n)] \in Nat /\ Scales[Index(m)] \in Nat
  BY <1>1, <1>3
<1> QED
  BY <1>6, <1>7

-----------------------------------------------------------------------------
(* The invariant.                                                          *)

Parted ==
  /\ \A w \in Worlds : order[w] = Null => tree[Super(w)] = {}
  /\ \A w \in Worlds : \A s \in tree[Super(w)] : order[w] <= s /\ s \in tree[<<w, s>>]
  /\ \A w \in Worlds, s \in Times : tree[<<w, s>>] # {} => s \in tree[Super(w)]
  /\ \A w \in Worlds, t \in Times :
       <<w, t>> \in states <=> \E s \in Times : t \in tree[<<w, s>>]
  /\ \A w \in Worlds : \A s, u \in tree[Super(w)] :
       \A t \in tree[<<w, s>>] : s < u => t < u

HandlesPlaced == \A h \in Alive :
  LET p == handle[h] IN
  /\ Exists(p.world) /\ p.s \in tree[Super(p.w)] /\ <<p.w, p.t>> \in states

Sound == Parted /\ TreesSplit /\ HandlesPlaced /\ MarksBalanced

SInv == IInv /\ (~strayed => Sound)

LEMMA PartedIsEnough == IInv /\ Parted => TreesPartStates
<1> SUFFICES ASSUME IInv, Parted PROVE TreesPartStates
  OBVIOUS
<1> SUFFICES ASSUME NEW w \in Worlds
             PROVE  LET super == tree[Super(w)] IN
    /\ (order[w] = Null) = (super = {})
    /\ super # {} => Min(super) = order[w]
    /\ {t \in Times : <<w, t>> \in states} = UNION {tree[<<w, s>>] : s \in Times}
    /\ \A s \in Times : (tree[<<w, s>>] # {}) = (s \in super)
    /\ \A s \in super : \A t \in tree[<<w, s>>] :
         s <= t /\ \A u \in super : s < u => t < u
  BY DEF TreesPartStates
<1> DEFINE super == tree[Super(w)]
<1>1. super \in SUBSET Times /\ \A s \in Times : tree[<<w, s>>] \in SUBSET Times
  BY TreesAre DEF IInv, TypeOK
<1>2. order[w] # Null => order[w] \in super
  BY DEF IInv, TimelinesBegin
<1>3. (order[w] = Null) = (super = {})
  BY <1>2 DEF Parted
<1>4. super # {} => Min(super) = order[w]
  <2>1. SUFFICES ASSUME super # {} PROVE Min(super) = order[w]
    OBVIOUS
  <2>2. Min(super) \in super /\ \A y \in super : Min(super) <= y
    BY <1>1, <2>1, MinIs
  <2>3. order[w] \in super /\ \A y \in super : order[w] <= y
    BY <1>2, <1>3, <2>1 DEF Parted
  <2>4. \A y \in super : y \in Nat
    BY <1>1, TimesAre
  <2> HIDE DEF super
  <2> QED
    BY <2>2, <2>3, <2>4
<1>5. {t \in Times : <<w, t>> \in states} = UNION {tree[<<w, s>>] : s \in Times}
  <2>1. \A t \in Times : <<w, t>> \in states <=> \E s \in Times : t \in tree[<<w, s>>]
    BY DEF Parted
  <2> QED
    BY <1>1, <2>1
<1>6. \A s \in Times : (tree[<<w, s>>] # {}) = (s \in super)
  BY DEF Parted
<1>7. \A s \in super : \A t \in tree[<<w, s>>] :
         s <= t /\ \A u \in super : s < u => t < u
  BY <1>1 DEF Parted, IInv, TreesStart
<1> QED
  BY <1>3, <1>4, <1>5, <1>6, <1>7

(* In a world that has diverged by time t, a lookup finds the last state   *)
(* at or before t.                                                         *)
LEMMA ReadsLast ==
  ASSUME IInv, Parted, NEW v \in Worlds, NEW t \in Times,
         NEW b \in tree[Super(v)], b <= t
  PROVE  LET s == PreviousOrEqual(tree[Super(v)], t)
             x == PreviousOrEqual(tree[<<v, s>>], t)
         IN  /\ order[v] # Null /\ order[v] \in Times /\ order[v] <= t
             /\ s \in tree[Super(v)] /\ s \in Times /\ s <= t
             /\ \A u \in tree[Super(v)] : s < u => t < u
             /\ x \in tree[<<v, s>>] /\ x \in Times /\ x <= t /\ s <= x
             /\ <<v, x>> \in states
             /\ \A y \in Times : <<v, y>> \in states /\ y <= t => y <= x
<1> DEFINE super == tree[Super(v)]
           s == PreviousOrEqual(super, t)
           x == PreviousOrEqual(tree[<<v, s>>], t)
<1>1. super \in SUBSET Times /\ t \in Nat /\ \A y \in Times : y \in Nat
  BY TreesAre, TimesAre DEF IInv, TypeOK
<1>2. s # Null /\ s \in super /\ s <= t /\ \A y \in super : y <= t => y <= s
  BY <1>1, LastIs
<1> HIDE DEF s
<1>3. s \in Times /\ tree[<<v, s>>] \in SUBSET Times
  BY <1>1, <1>2, TreesAre DEF IInv, TypeOK
<1>4. s \in tree[<<v, s>>]
  BY <1>2 DEF Parted
<1>5. /\ x # Null /\ x \in tree[<<v, s>>] /\ x <= t
      /\ \A y \in tree[<<v, s>>] : y <= t => y <= x
  BY <1>2, <1>3, <1>4, LastIs
<1> HIDE DEF x
<1>6. x \in Times /\ s <= x
  BY <1>2, <1>3, <1>4, <1>5
<1>7. <<v, x>> \in states
  BY <1>3, <1>5, <1>6 DEF Parted
<1>8. order[v] # Null /\ order[v] \in Times /\ order[v] <= t
  <2>1. order[v] # Null /\ order[v] <= s
    BY <1>2 DEF Parted
  <2>2. order[v] \in Times
    BY <2>1 DEF IInv, TypeOK
  <2>3. order[v] \in Nat /\ s \in Nat
    BY <1>1, <1>3, <2>2
  <2> QED
    BY <1>1, <1>2, <2>1, <2>2, <2>3
<1>9. ASSUME NEW u \in super, s < u PROVE t < u
  <2>1. ~(u <= t) \/ u <= s
    BY <1>2
  <2>2. u \in Nat /\ s \in Nat /\ t \in Nat
    BY <1>1, <1>3
  <2> QED
    BY <1>9, <2>1, <2>2
<1>10. ASSUME NEW y \in Times, <<v, y>> \in states, y <= t PROVE y <= x
  <2>1. PICK c \in Times : y \in tree[<<v, c>>]
    BY <1>10 DEF Parted
  <2>2. c <= y /\ c \in super
    BY <2>1 DEF IInv, TreesStart, Parted
  <2>3. c <= s
    BY <1>1, <1>2, <1>10, <2>2
  <2>4. CASE c = s
    BY <1>5, <1>10, <2>1, <2>4
  <2>5. CASE c < s
    <3>1. y < s
      BY <1>2, <2>1, <2>2, <2>5 DEF Parted
    <3>2. y \in Nat /\ s \in Nat /\ x \in Nat
      BY <1>1, <1>3, <1>6
    <3> QED
      BY <1>6, <3>1, <3>2
  <2>6. c \in Nat /\ s \in Nat
    BY <1>1, <1>3
  <2> QED
    BY <2>3, <2>4, <2>5, <2>6
<1> QED
  BY <1>2, <1>3, <1>5, <1>6, <1>7, <1>8, <1>9, <1>10 DEF s, x

-----------------------------------------------------------------------------
(* What the ways to add a time do to the trees of a world.                 *)

SuperGrows == \A v \in Worlds : tree[Super(v)] \subseteq tree'[Super(v)]

LEMMA InsertParts ==
  ASSUME IInv, Parted, TreesSplit,
         NEW w \in Worlds, NEW s \in Times, s \in tree[Super(w)], NEW t \in Times, s <= t,
         \A u \in tree[Super(w)] : s < u => t < u,
         ~Splits(<<w, s>>, Super(w), t),
         Insert(<<w, s>>, t), order' = order, states' = states \cup {<<w, t>>}
  PROVE  Parted' /\ TreesSplit' /\ SuperGrows
<1> DEFINE k == <<w, s>>
<1>1. k \in Trees /\ \A v \in Worlds : Super(v) \in Trees /\ Super(v) # k
  BY TreesAre
<1>2. tree' = [tree EXCEPT ![k] = tree[k] \cup {t}]
  BY DEF Insert
<1>3. \A v \in Worlds : tree'[Super(v)] = tree[Super(v)]
  BY <1>1, <1>2 DEF IInv, TypeOK
<1>4. \A v \in Worlds, b \in Times :
        tree'[<<v, b>>] = IF v = w /\ b = s THEN tree[k] \cup {t} ELSE tree[<<v, b>>]
  BY <1>1, <1>2, TreesAre DEF IInv, TypeOK
<1>5. \A v \in Worlds : tree[Super(v)] \subseteq Times
  BY TreesAre DEF IInv, TypeOK
<1>6. Parted'
  <2>1. \A v \in Worlds : order'[v] = Null => tree'[Super(v)] = {}
    BY <1>3 DEF Parted
  <2>2. \A v \in Worlds : \A b \in tree'[Super(v)] : order'[v] <= b /\ b \in tree'[<<v, b>>]
    <3> SUFFICES ASSUME NEW v \in Worlds, NEW b \in tree[Super(v)]
                 PROVE  order[v] <= b /\ b \in tree'[<<v, b>>]
      BY <1>3
    <3>1. b \in Times /\ order[v] <= b /\ b \in tree[<<v, b>>]
      BY <1>5 DEF Parted
    <3> QED
      BY <1>4, <3>1
  <2>3. \A v \in Worlds, b \in Times : tree'[<<v, b>>] # {} => b \in tree'[Super(v)]
    BY <1>3, <1>4 DEF Parted
  <2>4. \A v \in Worlds, x \in Times :
          <<v, x>> \in states' <=> \E b \in Times : x \in tree'[<<v, b>>]
    <3> SUFFICES ASSUME NEW v \in Worlds, NEW x \in Times
                 PROVE  <<v, x>> \in states' <=> \E b \in Times : x \in tree'[<<v, b>>]
      OBVIOUS
    <3>1. <<v, x>> \in states <=> \E b \in Times : x \in tree[<<v, b>>]
      BY DEF Parted
    <3>2. CASE v = w /\ x = t
      BY <1>4, <3>2
    <3>3. CASE ~(v = w /\ x = t)
      <4>1. <<v, x>> \in states' <=> <<v, x>> \in states
        BY <3>3
      <4>2. \A b \in Times : x \in tree'[<<v, b>>] <=> x \in tree[<<v, b>>]
        BY <1>4, <3>3
      <4> QED
        BY <3>1, <4>1, <4>2
    <3> QED
      BY <3>2, <3>3
  <2>5. \A v \in Worlds : \A b, u \in tree'[Super(v)] :
          \A x \in tree'[<<v, b>>] : b < u => x < u
    BY <1>3, <1>4, <1>5 DEF Parted
  <2> QED
    BY <2>1, <2>2, <2>3, <2>4, <2>5 DEF Parted, Super
<1>7. TreesSplit'
  <2> SUFFICES ASSUME NEW v \in Worlds, NEW b \in Times
               PROVE  Cardinality(tree'[<<v, b>>]) < Threshold(Cardinality(tree'[Super(v)]))
    BY DEF TreesSplit, Super, Threshold
  <2>1. Cardinality(tree[<<v, b>>]) < Threshold(Cardinality(tree[Super(v)]))
    BY DEF TreesSplit
  <2>2. CASE v = w /\ b = s
    <3>1. /\ tree[k] \in SUBSET Times /\ Cardinality(tree[k]) \in Nat
          /\ Cardinality(tree[Super(w)]) \in Nat
      BY <1>1, TimesAre DEF IInv, TypeOK
    <3>2. Threshold(Cardinality(tree[Super(w)])) \in Nat
      BY <3>1, ThresholdGrows
    <3>3. Cardinality(tree[k] \cup {t}) <= Cardinality(tree[k]) + 1
          /\ Cardinality(tree[k] \cup {t}) \in Nat
      BY <3>1, SizeOfOneMore
    <3>4. Cardinality(tree[k] \cup {t}) # Threshold(Cardinality(tree[Super(w)]))
      BY DEF Splits
    <3>5. tree'[<<v, b>>] = tree[k] \cup {t} /\ tree'[Super(v)] = tree[Super(w)]
      BY <1>3, <1>4, <2>2
    <3> QED
      BY <2>1, <2>2, <3>1, <3>2, <3>3, <3>4, <3>5
  <2>3. CASE ~(v = w /\ b = s)
    BY <1>3, <1>4, <2>1, <2>3
  <2> QED
    BY <2>2, <2>3
<1> QED
  BY <1>3, <1>6, <1>7 DEF SuperGrows

(* NewTimeline in a world that has not diverged.                           *)
LEMMA TimelineParts ==
  ASSUME IInv, Parted, TreesSplit,
         NEW w \in Worlds, NEW t \in Times, order[w] = Null,
         NewTimeline(w, t), states' = states \cup {<<w, t>>}
  PROVE  /\ Parted' /\ TreesSplit' /\ SuperGrows
         /\ t \in tree'[Super(w)] /\ <<w, t>> \notin states
<1>1. /\ Super(w) \in Trees /\ <<w, t>> \in Trees /\ Super(w) # <<w, t>>
      /\ \A v \in Worlds : Super(v) \in Trees /\ Super(v) # <<w, t>>
  BY TreesAre
<1>2. tree[Super(w)] = {} /\ \A b \in Times : tree[<<w, b>>] = {}
  BY DEF Parted
<1>3. \A v \in Worlds : tree'[Super(v)] = IF v = w THEN {t} ELSE tree[Super(v)]
  BY <1>1, <1>2 DEF IInv, TypeOK, NewTimeline, Super
<1>4. \A v \in Worlds, b \in Times :
        tree'[<<v, b>>] = IF v = w /\ b = t THEN {t} ELSE tree[<<v, b>>]
  BY <1>1, <1>2, TreesAre DEF IInv, TypeOK, NewTimeline
<1>5. order' = [order EXCEPT ![w] = t] /\ t \in Nat
  BY TimesAre DEF NewTimeline
<1>6. \A v \in Worlds : order'[v] = IF v = w THEN t ELSE order[v]
  BY <1>5 DEF IInv, TypeOK
<1>7. <<w, t>> \notin states
  BY <1>2 DEF Parted
<1>8. Parted'
  <2>1. \A v \in Worlds : order'[v] = Null => tree'[Super(v)] = {}
    BY <1>3, <1>6, TimesAre DEF Parted
  <2>2. \A v \in Worlds : \A b \in tree'[Super(v)] : order'[v] <= b /\ b \in tree'[<<v, b>>]
    <3> SUFFICES ASSUME NEW v \in Worlds, NEW b \in tree'[Super(v)]
                 PROVE  order'[v] <= b /\ b \in tree'[<<v, b>>]
      OBVIOUS
    <3>1. CASE v = w
      BY <1>3, <1>4, <1>5, <1>6, <3>1
    <3>2. CASE v # w
      <4>1. b \in tree[Super(v)] /\ b \in Times
        BY <1>1, <1>3, <3>2 DEF IInv, TypeOK
      <4> QED
        BY <1>4, <1>6, <3>2, <4>1 DEF Parted
    <3> QED
      BY <3>1, <3>2
  <2>3. \A v \in Worlds, b \in Times : tree'[<<v, b>>] # {} => b \in tree'[Super(v)]
    BY <1>2, <1>3, <1>4 DEF Parted
  <2>4. \A v \in Worlds, x \in Times :
          <<v, x>> \in states' <=> \E b \in Times : x \in tree'[<<v, b>>]
    <3> SUFFICES ASSUME NEW v \in Worlds, NEW x \in Times
                 PROVE  <<v, x>> \in states' <=> \E b \in Times : x \in tree'[<<v, b>>]
      OBVIOUS
    <3>1. <<v, x>> \in states <=> \E b \in Times : x \in tree[<<v, b>>]
      BY DEF Parted
    <3>2. CASE v = w /\ x = t
      BY <1>4, <3>2
    <3>3. CASE ~(v = w /\ x = t)
      <4>1. <<v, x>> \in states' <=> <<v, x>> \in states
        BY <3>3
      <4>2. \A b \in Times : x \in tree'[<<v, b>>] <=> x \in tree[<<v, b>>]
        BY <1>2, <1>4, <3>3
      <4> QED
        BY <3>1, <4>1, <4>2
    <3> QED
      BY <3>2, <3>3
  <2>5. \A v \in Worlds : \A b, u \in tree'[Super(v)] :
          \A x \in tree'[<<v, b>>] : b < u => x < u
    <3> SUFFICES ASSUME NEW v \in Worlds, NEW b \in tree'[Super(v)],
                        NEW u \in tree'[Super(v)], NEW x \in tree'[<<v, b>>], b < u
                 PROVE  x < u
      OBVIOUS
    <3>1. CASE v = w
      BY <1>3, <1>5, <3>1
    <3>2. CASE v # w
      <4>1. b \in tree[Super(v)] /\ b \in Times /\ u \in tree[Super(v)]
        BY <1>1, <1>3, <3>2 DEF IInv, TypeOK
      <4> QED
        BY <1>4, <3>2, <4>1 DEF Parted
    <3> QED
      BY <3>1, <3>2
  <2> QED
    BY <2>1, <2>2, <2>3, <2>4, <2>5 DEF Parted, Super
<1>9. TreesSplit'
  <2> SUFFICES ASSUME NEW v \in Worlds, NEW b \in Times
               PROVE  Cardinality(tree'[<<v, b>>]) < Threshold(Cardinality(tree'[Super(v)]))
    BY DEF TreesSplit, Super, Threshold
  <2>1. CASE v = w
    <3>1. tree'[<<v, b>>] = {t} \/ tree'[<<v, b>>] = {}
      BY <1>2, <1>4, <2>1
    <3>2. Cardinality(tree'[<<v, b>>]) = 0 \/ Cardinality(tree'[<<v, b>>]) = 1
      BY <3>1, FS_EmptySet, FS_Singleton
    <3>3. Cardinality(tree'[Super(v)]) = 1
      BY <1>3, <2>1, FS_Singleton
    <3>4. Threshold(1) >= 2 /\ Threshold(1) \in Nat
      BY ThresholdIsTwo, ThresholdGrows
    <3> QED
      BY <3>2, <3>3, <3>4
  <2>2. CASE v # w
    BY <1>3, <1>4, <2>2 DEF TreesSplit
  <2> QED
    BY <2>1, <2>2
<1> QED
  BY <1>2, <1>3, <1>7, <1>8, <1>9 DEF SuperGrows

(* A split: the right tree begins at the median, a time no tree begins at. *)
LEMMA SplitParts ==
  ASSUME IInv, Parted, TreesSplit,
         NEW w \in Worlds, NEW s \in Times, s \in tree[Super(w)], NEW t \in Times, s <= t,
         \A u \in tree[Super(w)] : s < u => t < u,
         Splits(<<w, s>>, Super(w), t), NEW counted \in BOOLEAN,
         InsertAndSplit(w, <<w, s>>, Super(w), t, counted),
         order' = order, states' = states \cup {<<w, t>>}
  PROVE  LET m == Median(<<w, s>>, t) IN
         /\ Parted' /\ TreesSplit' /\ SuperGrows
         /\ m \in Times /\ m # s /\ m \in tree'[Super(w)] /\ tree[<<w, m>>] = {}
<1> DEFINE k == <<w, s>>
           S == tree[k] \cup {t}
           up == Upper(k, t)
           m == Median(k, t)
           super == tree[Super(w)]
<1>1. /\ k \in Trees /\ \A v \in Worlds : Super(v) \in Trees /\ Super(v) # k
      /\ S \in SUBSET Times /\ super \in SUBSET Times
      /\ s \in Nat /\ t \in Nat /\ \A x \in S : x \in Nat /\ s <= x
  <2>1. k \in Trees /\ \A v \in Worlds : Super(v) \in Trees /\ Super(v) # k
    BY TreesAre
  <2>2. S \in SUBSET Times /\ super \in SUBSET Times
    BY <2>1 DEF IInv, TypeOK
  <2>3. s \in Nat /\ t \in Nat /\ \A x \in S : x \in Nat
    BY <2>2, TimesAre
  <2>4. \A x \in S : s <= x
    BY DEF IInv, TreesStart
  <2> QED
    BY <2>1, <2>2, <2>3, <2>4
<1>2. s \in S
  BY DEF Parted
<1>3. up \subseteq S /\ s \notin up
  BY <1>1, <1>2, UpperWithoutFirst DEF Upper, UpperHalf
<1>4. up # {}
  <2>1. Cardinality(super) \in Nat
    BY <1>1, TimesAre
  <2>2. Cardinality(S) >= 2
    BY <2>1, ThresholdIsTwo DEF Splits
  <2> QED
    BY <1>1, <2>2, UpperOfTwo DEF Upper
<1>5. m \in up /\ m \in S /\ m \in Times /\ m \in Nat /\ \A y \in up : m <= y
  <2>1. up \in SUBSET Times
    BY <1>1, <1>3
  <2>2. Min(up) \in up /\ \A y \in up : Min(up) <= y
    BY <1>4, <2>1, MinIs
  <2> QED
    BY <1>1, <1>3, <2>1, <2>2, TimesAre DEF Median
<1>6. \A x \in S \ up : x < m
  <2> SUFFICES ASSUME NEW x \in S, x \notin up PROVE x < m
    OBVIOUS
  <2>1. ~(m <= x)
    BY <1>1, <1>5, UpperIsAbove DEF Upper
  <2> QED
    BY <1>1, <1>5, <2>1
<1>7. s < m
  BY <1>2, <1>3, <1>6
<1>8. \A u \in super : s < u => \A x \in S : x < u
  BY DEF Parted
<1>9. m \notin super /\ m # s
  <2>1. m \in super => m < m
    BY <1>5, <1>7, <1>8
  <2> QED
    BY <1>1, <1>5, <1>7, <2>1
<1>10. tree[<<w, m>>] = {}
  BY <1>5, <1>9 DEF Parted
<1>11. tree' = [tree EXCEPT ![<<w, m>>] = @ \cup up, ![k] = S \ up,
                            ![Super(w)] = @ \cup {m}]
  BY DEF InsertAndSplit
<1> HIDE DEF S, up, m, super
<1>12. \A v \in Worlds : tree'[Super(v)] = IF v = w THEN super \cup {m} ELSE tree[Super(v)]
  <2>1. \A v \in Worlds : Super(v) # <<w, m>> /\ (Super(v) = Super(w) => v = w)
    BY <1>5, TreesAre DEF Super
  <2> QED
    BY <1>1, <1>11, <2>1 DEF IInv, TypeOK, super
<1>13. \A v \in Worlds, b \in Times :
         tree'[<<v, b>>] = IF v = w /\ b = s THEN S \ up
                           ELSE IF v = w /\ b = m THEN up
                           ELSE tree[<<v, b>>]
  <2> SUFFICES ASSUME NEW v \in Worlds, NEW b \in Times
               PROVE  tree'[<<v, b>>] = IF v = w /\ b = s THEN S \ up
                           ELSE IF v = w /\ b = m THEN up
                           ELSE tree[<<v, b>>]
    OBVIOUS
  <2>1. <<v, b>> \in Trees /\ <<v, b>> # Super(w) /\ <<w, m>> \in Trees
    BY <1>5, TreesAre
  <2>2. <<w, m>> # k
    BY <1>9
  <2> QED
    BY <1>1, <1>10, <1>11, <2>1, <2>2 DEF IInv, TypeOK
<1>14. \A v \in Worlds : tree[Super(v)] \subseteq Times
  BY <1>1 DEF IInv, TypeOK
<1>15. Parted'
  <2>1. \A v \in Worlds : order'[v] = Null => tree'[Super(v)] = {}
    <3>1. order[w] # Null
      BY DEF Parted
    <3> QED
      BY <1>12, <3>1 DEF Parted
  <2>2. \A v \in Worlds : \A b \in tree'[Super(v)] : order'[v] <= b /\ b \in tree'[<<v, b>>]
    <3> SUFFICES ASSUME NEW v \in Worlds, NEW b \in tree'[Super(v)]
                 PROVE  order[v] <= b /\ b \in tree'[<<v, b>>]
      OBVIOUS
    <3>1. CASE v = w /\ b = m
      <4>1. order[w] <= s /\ order[w] \in Int
        <5>1. order[w] \in Times \cup {Null}
          BY DEF IInv, TypeOK
        <5>2. order[w] \in Int
          BY <5>1 DEF Times, Null
        <5> QED
          BY <5>2 DEF Parted
      <4>2. order[w] <= m
        BY <1>1, <1>5, <1>7, <4>1
      <4> QED
        BY <1>5, <1>9, <1>13, <3>1, <4>2
    <3>2. CASE v = w /\ b = s
      BY <1>2, <1>3, <1>13, <3>2 DEF Parted
    <3>3. CASE ~(v = w /\ b \in {m, s})
      <4>1. b \in tree[Super(v)] /\ b \in Times
        BY <1>12, <1>14, <3>3 DEF super
      <4> QED
        BY <1>13, <3>3, <4>1 DEF Parted
    <3> QED
      BY <3>1, <3>2, <3>3
  <2>3. \A v \in Worlds, b \in Times : tree'[<<v, b>>] # {} => b \in tree'[Super(v)]
    BY <1>12, <1>13 DEF Parted, super
  <2>4. \A v \in Worlds, x \in Times :
          <<v, x>> \in states' <=> \E b \in Times : x \in tree'[<<v, b>>]
    <3> SUFFICES ASSUME NEW v \in Worlds, NEW x \in Times
                 PROVE  <<v, x>> \in states' <=> \E b \in Times : x \in tree'[<<v, b>>]
      OBVIOUS
    <3>1. <<v, x>> \in states <=> \E b \in Times : x \in tree[<<v, b>>]
      BY DEF Parted
    <3>2. CASE v # w
      BY <1>13, <3>1, <3>2
    <3>3. CASE v = w /\ x \in S
      <4>1. <<v, x>> \in states'
        BY <3>1, <3>3 DEF S
      <4>2. x \in tree'[<<w, s>>] \/ x \in tree'[<<w, m>>]
        BY <1>5, <1>9, <1>13, <3>3
      <4> QED
        BY <1>5, <3>3, <4>1, <4>2
    <3>4. CASE v = w /\ x \notin S
      <4>1. <<v, x>> \in states' <=> <<v, x>> \in states
        BY <3>4 DEF S
      <4>2. \A b \in Times : x \in tree'[<<v, b>>] <=> x \in tree[<<v, b>>]
        BY <1>3, <1>10, <1>13, <3>4 DEF S
      <4> QED
        BY <3>1, <4>1, <4>2
    <3> QED
      BY <3>2, <3>3, <3>4
  <2>5. \A v \in Worlds : \A b, u \in tree'[Super(v)] :
          \A x \in tree'[<<v, b>>] : b < u => x < u
    <3> SUFFICES ASSUME NEW v \in Worlds, NEW b \in tree'[Super(v)],
                        NEW u \in tree'[Super(v)], NEW x \in tree'[<<v, b>>], b < u
                 PROVE  x < u
      OBVIOUS
    <3>1. CASE v # w
      BY <1>12, <1>13, <1>14, <3>1 DEF Parted
    <3>2. CASE v = w /\ b = s
      <4>1. x \in S /\ x < m
        BY <1>6, <1>13, <3>2
      <4>2. u = m \/ u \in super
        BY <1>12, <3>2
      <4> QED
        BY <1>8, <3>2, <4>1, <4>2
    <3>3. CASE v = w /\ b = m
      <4>1. x \in S
        BY <1>3, <1>5, <1>9, <1>13, <3>3
      <4>2. u \in super /\ u \in Nat
        <5>1. u \in super \cup {m} /\ m < u
          BY <1>12, <3>3
        <5>2. u # m
          BY <1>5, <5>1
        <5> QED
          BY <1>1, <5>1, <5>2, TimesAre
      <4>3. s < u
        BY <1>1, <1>5, <1>7, <3>3, <4>2
      <4> QED
        BY <1>8, <4>1, <4>2, <4>3
    <3>4. CASE v = w /\ b # s /\ b # m
      <4>1. b \in super /\ b \in Times /\ x \in tree[<<w, b>>]
        BY <1>1, <1>12, <1>13, <3>4
      <4>2. CASE u \in super
        BY <3>4, <4>1, <4>2 DEF Parted, super
      <4>3. CASE u = m
        <5>1. b \in Nat
          BY <4>1, TimesAre
        <5>2. s < b => m < b
          BY <1>5, <1>8, <4>1
        <5>3. b < s
          BY <1>1, <1>5, <3>4, <4>3, <5>1, <5>2
        <5>4. x < s /\ x \in Nat
          <6>1. s \in super
            BY DEF super
          <6>2. x < s
            BY <4>1, <5>3, <6>1 DEF Parted, super
          <6>3. tree[<<w, b>>] \subseteq Nat
            BY <4>1, TreesAre, TimesAre DEF IInv, TypeOK
          <6> QED
            BY <4>1, <6>2, <6>3
        <5> QED
          BY <1>1, <1>5, <1>7, <4>3, <5>4
      <4> QED
        BY <1>12, <3>4, <4>2, <4>3
    <3> QED
      BY <3>1, <3>2, <3>3, <3>4
  <2> QED
    BY <2>1, <2>2, <2>3, <2>4, <2>5 DEF Parted, Super
<1>16. TreesSplit'
  <2> SUFFICES ASSUME NEW v \in Worlds, NEW b \in Times
               PROVE  Cardinality(tree'[<<v, b>>]) < Threshold(Cardinality(tree'[Super(v)]))
    BY DEF TreesSplit, Super, Threshold
  <2>1. CASE v # w
    BY <1>12, <1>13, <2>1 DEF TreesSplit
  <2>2. ASSUME v = w
        PROVE  /\ Threshold(Cardinality(super)) <= Threshold(Cardinality(super \cup {m}))
               /\ Threshold(Cardinality(super)) \in Nat
               /\ Threshold(Cardinality(super \cup {m})) \in Nat
               /\ tree'[Super(v)] = super \cup {m}
    <3>1. IsFiniteSet(super \cup {m}) /\ Cardinality(super) \in Nat
          /\ Cardinality(super \cup {m}) \in Nat
      BY <1>1, <1>5, TimesAre
    <3>2. Cardinality(super) <= Cardinality(super \cup {m})
      BY <3>1, FS_Subset
    <3> QED
      BY <1>12, <2>2, <3>1, <3>2, ThresholdGrows
  <2>3. Cardinality(S) = Threshold(Cardinality(super))
    BY DEF Splits, S, super
  <2>4. ASSUME NEW part \in SUBSET S, NEW x \in S, x \notin part
        PROVE  Cardinality(part) < Cardinality(S) /\ Cardinality(part) \in Nat
               /\ Cardinality(S) \in Nat
    <3>1. IsFiniteSet(S) /\ Cardinality(S) \in Nat /\ Cardinality(part) \in Nat
      BY <1>1, TimesAre
    <3>2. Cardinality(S \ {x}) = Cardinality(S) - 1 /\ IsFiniteSet(S \ {x})
      BY <3>1, FS_RemoveElement
    <3>3. part \subseteq S \ {x}
      BY <2>4
    <3>4. Cardinality(part) <= Cardinality(S \ {x})
      BY <3>2, <3>3, FS_Subset
    <3> QED
      BY <3>1, <3>2, <3>4
  <2> HIDE DEF S, up, m, super
  <2>5. CASE v = w /\ b = s
    <3>1. tree'[<<v, b>>] \in SUBSET S /\ m \notin tree'[<<v, b>>]
      BY <1>5, <1>13, <2>5
    <3>2. Cardinality(tree'[<<v, b>>]) < Cardinality(S) /\ Cardinality(S) \in Nat
          /\ Cardinality(tree'[<<v, b>>]) \in Nat
      BY <1>5, <2>4, <3>1
    <3>3. Cardinality(tree'[<<v, b>>]) < Threshold(Cardinality(super \cup {m}))
      BY <2>2, <2>3, <2>5, <3>2
    <3> QED
      BY <2>2, <2>5, <3>3
  <2>6. CASE v = w /\ b = m
    <3>1. tree'[<<v, b>>] \in SUBSET S /\ s \notin tree'[<<v, b>>]
      BY <1>3, <1>9, <1>13, <2>6
    <3>2. Cardinality(tree'[<<v, b>>]) < Cardinality(S) /\ Cardinality(S) \in Nat
          /\ Cardinality(tree'[<<v, b>>]) \in Nat
      BY <1>2, <2>4, <3>1
    <3>3. Cardinality(tree'[<<v, b>>]) < Threshold(Cardinality(super \cup {m}))
      BY <2>2, <2>3, <2>6, <3>2
    <3> QED
      BY <2>2, <2>6, <3>3
  <2>7. CASE v = w /\ b # s /\ b # m
    <3>1. tree'[<<v, b>>] = tree[<<w, b>>] /\ Cardinality(tree[<<w, b>>]) \in Nat
      BY <1>13, <2>7, TreesAre, TimesAre DEF IInv, TypeOK
    <3>2. Cardinality(tree[<<w, b>>]) < Threshold(Cardinality(super))
      BY DEF TreesSplit, super
    <3>3. Threshold(Cardinality(super)) \in Nat
      BY <2>2, <2>7
    <3>4. Cardinality(tree[<<w, b>>]) < Threshold(Cardinality(super \cup {m}))
      BY <2>2, <2>7, <3>1, <3>2
    <3> QED
      BY <2>2, <2>7, <3>1, <3>4
  <2> QED
    BY <2>1, <2>5, <2>6, <2>7
<1>17. SuperGrows /\ m \in tree'[Super(w)]
  BY <1>12 DEF SuperGrows, super
<1> QED
  BY <1>5, <1>9, <1>10, <1>15, <1>16, <1>17 DEF m

(* The first state of the node.                                            *)
LEMMA FirstParts ==
  ASSUME IInv, Parted, TreesSplit, NEW h \in Handles, NEW w \in Worlds, NEW t \in Times,
         NewNode(h, w, t)
  PROVE  Parted' /\ TreesSplit' /\ SuperGrows /\ t \in tree'[Super(w)]
<1>1. /\ Super(w) \in Trees /\ <<w, t>> \in Trees /\ Super(w) # <<w, t>>
      /\ \A v \in Worlds : Super(v) \in Trees /\ Super(v) # <<w, t>>
  BY TreesAre
<1>2. \A v \in Worlds : tree[Super(v)] = {} /\ order[v] = Null
  <2>1. states = {}
    BY DEF NewNode
  <2>2. \A v \in Worlds : order[v] = Null
    BY <2>1 DEF IInv, TimelinesBegin
  <2> QED
    BY <2>2 DEF Parted
<1>3. \A v \in Worlds, b \in Times : tree[<<v, b>>] = {}
  BY <1>2 DEF Parted
<1>4. \A v \in Worlds : tree'[Super(v)] = IF v = w THEN {t} ELSE {}
  BY <1>1, <1>2 DEF IInv, TypeOK, NewNode, Super
<1>5. \A v \in Worlds, b \in Times : tree'[<<v, b>>] = IF v = w /\ b = t THEN {t} ELSE {}
  BY <1>1, <1>3, TreesAre DEF IInv, TypeOK, NewNode
<1>6. \A v \in Worlds : order'[v] = IF v = w THEN t ELSE Null
  BY <1>2 DEF NewNode, IInv, TypeOK
<1>7. states' = {<<w, t>>} /\ t \in Nat /\ t # Null
  BY TimesAre DEF NewNode
<1>8. Parted'
  <2>1. \A v \in Worlds : order'[v] = Null => tree'[Super(v)] = {}
    BY <1>4, <1>6, <1>7
  <2>2. \A v \in Worlds : \A b \in tree'[Super(v)] : order'[v] <= b /\ b \in tree'[<<v, b>>]
    <3> SUFFICES ASSUME NEW v \in Worlds, NEW b \in tree'[Super(v)]
                 PROVE  order'[v] <= b /\ b \in tree'[<<v, b>>]
      OBVIOUS
    <3>1. v = w /\ b = t
      BY <1>4
    <3> QED
      BY <1>5, <1>6, <1>7, <3>1
  <2>3. \A v \in Worlds, b \in Times : tree'[<<v, b>>] # {} => b \in tree'[Super(v)]
    BY <1>4, <1>5
  <2>4. \A v \in Worlds, x \in Times :
          <<v, x>> \in states' <=> \E b \in Times : x \in tree'[<<v, b>>]
    BY <1>5, <1>7
  <2>5. \A v \in Worlds : \A b, u \in tree'[Super(v)] :
          \A x \in tree'[<<v, b>>] : b < u => x < u
    <3> SUFFICES ASSUME NEW v \in Worlds, NEW b \in tree'[Super(v)],
                        NEW u \in tree'[Super(v)], b < u
                 PROVE  FALSE
      OBVIOUS
    <3>1. b = t /\ u = t
      BY <1>4
    <3> QED
      BY <1>7, <3>1
  <2> QED
    BY <2>1, <2>2, <2>3, <2>4, <2>5 DEF Parted, Super
<1>9. TreesSplit'
  <2> SUFFICES ASSUME NEW v \in Worlds, NEW b \in Times
               PROVE  Cardinality(tree'[<<v, b>>]) < Threshold(Cardinality(tree'[Super(v)]))
    BY DEF TreesSplit, Super, Threshold
  <2>1. /\ tree'[<<v, b>>] = {} \/ tree'[<<v, b>>] = {t}
        /\ tree'[Super(v)] = {} \/ tree'[Super(v)] = {t}
    BY <1>4, <1>5
  <2>2. /\ Cardinality(tree'[<<v, b>>]) = 0 \/ Cardinality(tree'[<<v, b>>]) = 1
        /\ Cardinality(tree'[Super(v)]) = 0 \/ Cardinality(tree'[Super(v)]) = 1
    BY <2>1, FS_EmptySet, FS_Singleton
  <2>3. \A n \in {0, 1} : Threshold(n) >= 2 /\ Threshold(n) \in Nat
    BY ThresholdIsTwo, ThresholdGrows
  <2> QED
    BY <2>2, <2>3
<1> QED
  BY <1>2, <1>4, <1>8, <1>9 DEF SuperGrows

-----------------------------------------------------------------------------
(* Marks. A step changes the resolution of one Node object; the marks stay *)
(* balanced when each chunk gains what that object refers to anew and      *)
(* loses what it no longer refers to.                                      *)

One(b) == IF b THEN 1 ELSE 0

LEMMA PlusAt ==
  ASSUME NEW K, NEW f \in [K -> Int], NEW k, NEW n \in Int, NEW x \in K
  PROVE  Plus(f, k, n)[x] = IF x = k THEN f[x] + n ELSE f[x]
BY DEF Plus

LEMMA MovedAt ==
  ASSUME NEW K, NEW f \in [K -> Int], NEW a, NEW b, NEW x \in K
  PROVE  Moved(f, a, b)[x] = f[x] - One(x = a) + One(x = b)
<1>1. Plus(f, a, -1) \in [K -> Int]
  BY PlusTyped
<1>2. Plus(f, a, -1)[x] = IF x = a THEN f[x] + -1 ELSE f[x]
  BY PlusAt
<1>3. Moved(f, a, b)[x] = IF x = b THEN Plus(f, a, -1)[x] + 1 ELSE Plus(f, a, -1)[x]
  BY <1>1, PlusAt DEF Moved
<1>4. f[x] \in Int
  OBVIOUS
<1> QED
  BY <1>2, <1>3, <1>4 DEF One

StateRef(p, n) == One(p # Freed /\ <<p.w, p.t>> = n)
TreeRef(p, k)  == One(p # Freed /\ k \in {Super(p.w), <<p.w, p.s>>})

LEMMA CountFollows ==
  ASSUME NEW S, IsFiniteSet(S), NEW T, NEW h, S \ {h} = T \ {h}
  PROVE  /\ Cardinality(T) = Cardinality(S) - One(h \in S) + One(h \in T)
         /\ Cardinality(S) \in Nat /\ Cardinality(T) \in Nat
<1> DEFINE R == S \ {h}
<1>1. IsFiniteSet(R) /\ Cardinality(R) \in Nat /\ Cardinality(S) \in Nat /\ h \notin R
  BY FS_Subset, FS_CardinalityType
<1>2. Cardinality(S) = Cardinality(R) + One(h \in S)
  <2>1. CASE h \in S
    <3>1. S = R \cup {h}
      BY <2>1
    <3> HIDE DEF R
    <3> QED
      BY <1>1, <2>1, <3>1, FS_AddElement DEF One
  <2>2. CASE h \notin S
    <3>1. S = R
      BY <2>2
    <3>2. One(h \in S) = 0
      BY <2>2 DEF One
    <3> HIDE DEF R
    <3> QED
      BY <1>1, <3>1, <3>2
  <2> QED
    BY <2>1, <2>2
<1>3. Cardinality(T) = Cardinality(R) + One(h \in T)
  <2>1. CASE h \in T
    <3>1. T = R \cup {h}
      BY <2>1
    <3> HIDE DEF R
    <3> QED
      BY <1>1, <2>1, <3>1, FS_AddElement DEF One
  <2>2. CASE h \notin T
    <3>1. T = R
      BY <2>2
    <3>2. One(h \in T) = 0
      BY <2>2 DEF One
    <3> HIDE DEF R
    <3> QED
      BY <1>1, <3>1, <3>2
  <2> QED
    BY <2>1, <2>2
<1>4. One(h \in S) \in {0, 1} /\ One(h \in T) \in {0, 1}
  BY DEF One
<1> HIDE DEF R
<1> QED
  BY <1>1, <1>2, <1>3, <1>4

MarksMove(p, q) ==
  /\ \A n \in States : stateMarks'[n] = stateMarks[n] - StateRef(p, n) + StateRef(q, n)
  /\ \A k \in Trees : treeMarks'[k] = treeMarks[k] - TreeRef(p, k) + TreeRef(q, k)
  /\ orderMarks' = orderMarks - One(p # Freed) + One(q # Freed)

LEMMA MarksFollow ==
  ASSUME IInv, MarksBalanced, NEW h \in Handles, NEW q,
         handle' = [handle EXCEPT ![h] = q], MarksMove(handle[h], q)
  PROVE  MarksBalanced'
<1>1. handle'[h] = q /\ \A g \in Handles \ {h} : handle'[g] = handle[g]
  BY DEF IInv, TypeOK
<1>2. /\ IsFiniteSet(Handles) /\ IsFiniteSet(Alive)
      /\ \A n : IsFiniteSet(StateHolders(n)) /\ IsFiniteSet(TreeHolders(n))
  <2>1. Alive \subseteq Handles /\ \A n : /\ StateHolders(n) \subseteq Handles
                                         /\ TreeHolders(n) \subseteq Handles
    BY DEF Alive, StateHolders, TreeHolders
  <2> QED
    BY <2>1, ResolverAssumption, FS_Subset
<1>3. Alive \ {h} = Alive' \ {h} /\ (h \in Alive <=> handle[h] # Freed)
      /\ (h \in Alive' <=> q # Freed)
  BY <1>1 DEF Alive, Live
<1>4. ASSUME NEW n \in States
      PROVE  stateMarks'[n] = Cardinality(StateHolders(n)')
  <2>1. /\ StateHolders(n) \ {h} = StateHolders(n)' \ {h}
        /\ h \in StateHolders(n) <=> handle[h] # Freed /\ <<handle[h].w, handle[h].t>> = n
        /\ h \in StateHolders(n)' <=> q # Freed /\ <<q.w, q.t>> = n
    BY <1>1, <1>3 DEF StateHolders
  <2>2. Cardinality(StateHolders(n)') = Cardinality(StateHolders(n))
          - One(h \in StateHolders(n)) + One(h \in StateHolders(n)')
    BY <1>2, <2>1, CountFollows
  <2>3. /\ stateMarks[n] = Cardinality(StateHolders(n))
        /\ stateMarks'[n] = stateMarks[n] - StateRef(handle[h], n) + StateRef(q, n)
    BY DEF MarksBalanced, MarksMove
  <2>4. One(h \in StateHolders(n)) = StateRef(handle[h], n)
        /\ One(h \in StateHolders(n)') = StateRef(q, n)
    BY <2>1 DEF One, StateRef
  <2> QED
    BY <2>2, <2>3, <2>4
<1>5. ASSUME NEW k \in Trees
      PROVE  treeMarks'[k] = Cardinality(TreeHolders(k)')
  <2>1. /\ TreeHolders(k) \ {h} = TreeHolders(k)' \ {h}
        /\ h \in TreeHolders(k) <=>
             handle[h] # Freed /\ k \in {Super(handle[h].w), <<handle[h].w, handle[h].s>>}
        /\ h \in TreeHolders(k)' <=> q # Freed /\ k \in {Super(q.w), <<q.w, q.s>>}
    BY <1>1, <1>3 DEF TreeHolders
  <2>2. Cardinality(TreeHolders(k)') = Cardinality(TreeHolders(k))
          - One(h \in TreeHolders(k)) + One(h \in TreeHolders(k)')
    BY <1>2, <2>1, CountFollows
  <2>3. /\ treeMarks[k] = Cardinality(TreeHolders(k))
        /\ treeMarks'[k] = treeMarks[k] - TreeRef(handle[h], k) + TreeRef(q, k)
    BY DEF MarksBalanced, MarksMove
  <2>4. One(h \in TreeHolders(k)) = TreeRef(handle[h], k)
        /\ One(h \in TreeHolders(k)') = TreeRef(q, k)
    BY <2>1 DEF One, TreeRef
  <2> QED
    BY <2>2, <2>3, <2>4
<1>6. orderMarks' = Cardinality(Alive')
  <2>1. Cardinality(Alive') = Cardinality(Alive) - One(h \in Alive) + One(h \in Alive')
    BY <1>2, <1>3, CountFollows
  <2>2. One(h \in Alive) = One(handle[h] # Freed) /\ One(h \in Alive') = One(q # Freed)
    BY <1>3 DEF One
  <2>3. /\ orderMarks = Cardinality(Alive)
        /\ orderMarks' = orderMarks - One(handle[h] # Freed) + One(q # Freed)
    BY DEF MarksBalanced, MarksMove
  <2> QED
    BY <2>1, <2>2, <2>3
<1> QED
  BY <1>4, <1>5, <1>6 DEF MarksBalanced, StateHolders, TreeHolders, Super

(* A Node object moves from one resolution to another.                     *)
LEMMA ResolveIs ==
  ASSUME IInv, NEW h \in Handles, Live(h), NEW w, NEW s, NEW t, NEW mw, NEW ms, NEW mt,
         Resolve(h, w, s, t, mw, ms, mt)
  PROVE  \E q : /\ handle' = [handle EXCEPT ![h] = q]
                /\ q = [world |-> handle[h].world, time |-> handle[h].time,
                        w |-> w, s |-> s, t |-> t, mw |-> mw, ms |-> ms, mt |-> mt]
BY DEF Resolve

(* The handles stay placed when only the trees and the states grow.        *)
LEMMA PlacedStays ==
  ASSUME IInv, HandlesPlaced, SuperGrows, states \subseteq states', NEW h \in Handles, NEW q,
         \A w \in Worlds : Exists(w) => Exists(w)',
         handle' = [handle EXCEPT ![h] = q],
         q # Freed => /\ q.world = Root \/ parent'[q.world] # NoWorld
                      /\ q.s \in tree'[Super(q.w)] /\ <<q.w, q.t>> \in states'
  PROVE  HandlesPlaced'
<1> SUFFICES ASSUME NEW g \in Handles, handle'[g] # Freed
             PROVE  /\ handle'[g].world = Root \/ parent'[handle'[g].world] # NoWorld
                    /\ handle'[g].s \in tree'[Super(handle'[g].w)]
                    /\ <<handle'[g].w, handle'[g].t>> \in states'
  BY DEF HandlesPlaced, Alive, Live, Super, Exists
<1>1. CASE g = h
  <2>1. handle'[g] = q
    BY <1>1 DEF IInv, TypeOK
  <2> QED
    BY <2>1
<1>2. CASE g # h
  <2>1. handle'[g] = handle[g] /\ Live(g)
    BY <1>2 DEF IInv, TypeOK, Live
  <2>2. handle[g].world \in Worlds /\ handle[g].w \in Worlds
    BY <2>1, HandleIs DEF IInv
  <2>3. /\ Exists(handle[g].world) /\ handle[g].s \in tree[Super(handle[g].w)]
        /\ <<handle[g].w, handle[g].t>> \in states
    <3>1. g \in Alive
      BY <2>1 DEF Alive
    <3> QED
      BY <3>1 DEF HandlesPlaced
  <2> QED
    BY <2>1, <2>2, <2>3 DEF SuperGrows, Exists
<1> QED
  BY <1>1, <1>2

-----------------------------------------------------------------------------
(* What a Node object resolves to, as long as nobody has strayed.          *)

(* A node whose world has not diverged since it was resolved: its trees    *)
(* are there, and a lookup finds the last state of the world it resolved.  *)
LEMMA ReadIs ==
  ASSUME IInv, Sound, NEW h \in Handles, Live(h), ~StaleRead(h)
  PROVE  LET p == handle[h]
             super == tree[Super(p.w)]
             s == PreviousOrEqual(super, p.time)
             x == PreviousOrEqual(tree[<<p.w, s>>], p.time)
         IN  /\ ~TreesMissing(p)
             /\ p.w = ResolveWorld(p.world, p.time)
             /\ Resolution(p.world, p.time) = [w |-> p.w, s |-> s, t |-> x]
             /\ order[p.w] # Null /\ order[p.w] \in Times /\ order[p.w] <= p.time
             /\ s \in super /\ s \in Times /\ s <= p.time
             /\ \A u \in super : s < u => p.time < u
             /\ x \in tree[<<p.w, s>>] /\ x \in Times /\ x <= p.time /\ s <= x
             /\ <<p.w, x>> \in states
             /\ \A y \in Times : <<p.w, y>> \in states /\ y <= p.time => y <= x
             /\ ~Same(p) => /\ Rephased(p).w = p.w /\ Rephased(p).s = s
                            /\ Rephased(p).t = x /\ Rephased(p).k = <<p.w, s>>
<1> DEFINE p == handle[h]
           super == tree[Super(p.w)]
           s == PreviousOrEqual(super, p.time)
           x == PreviousOrEqual(tree[<<p.w, s>>], p.time)
<1>1. p.world \in Worlds /\ p.w \in Worlds /\ p.time \in Times /\ p.s \in Times
      /\ p.s <= p.time
  BY HandleIs DEF IInv
<1>2. p.s \in super
  BY DEF Sound, HandlesPlaced, Alive
<1>3. p.w = ResolveWorld(p.world, p.time)
  BY DEF StaleRead
<1> HIDE DEF p
<1>4. /\ order[p.w] # Null /\ order[p.w] \in Times /\ order[p.w] <= p.time
      /\ s \in super /\ s \in Times /\ s <= p.time
      /\ \A u \in super : s < u => p.time < u
      /\ x \in tree[<<p.w, s>>] /\ x \in Times /\ x <= p.time /\ s <= x
      /\ <<p.w, x>> \in states
      /\ \A y \in Times : <<p.w, y>> \in states /\ y <= p.time => y <= x
  BY <1>1, <1>2, ReadsLast DEF Sound
<1>5. s # Null
  BY <1>4, TimesAre
<1>6. Resolution(p.world, p.time) = [w |-> p.w, s |-> s, t |-> x]
  BY <1>3, <1>5 DEF Resolution
<1>7. ~TreesMissing(p)
  <2>1. p.s \in tree[<<p.w, p.s>>]
    BY <1>1, <1>2 DEF Sound, Parted
  <2> QED
    BY <1>2, <2>1 DEF TreesMissing
<1>8. ASSUME ~Same(p)
      PROVE  /\ Rephased(p).w = p.w /\ Rephased(p).s = s
             /\ Rephased(p).t = x /\ Rephased(p).k = <<p.w, s>>
  BY <1>3, <1>8 DEF Rephased
<1> QED
  BY <1>3, <1>4, <1>6, <1>7, <1>8 DEF p

(* A node whose resolution is the one a lookup would find.                 *)
LEMMA CurrentIs ==
  ASSUME IInv, Sound, NEW h \in Handles, Live(h), Current(h)
  PROVE  LET p == handle[h]  r == Rephased(p) IN
         /\ ~TreesMissing(p) /\ ~StaleRead(h)
         /\ r.w = p.w /\ r.s = p.s /\ r.t = p.t /\ r.k = <<p.w, p.s>>
         /\ order[p.w] # Null /\ order[p.w] \in Times /\ order[p.w] <= p.time
         /\ p.s \in tree[Super(p.w)] /\ <<p.w, p.t>> \in states
         /\ \A u \in tree[Super(p.w)] : p.s < u => p.time < u
         /\ \A y \in Times : <<p.w, y>> \in states /\ y <= p.time => y <= p.t
<1> DEFINE p == handle[h]
           s == PreviousOrEqual(tree[Super(p.w)], p.time)
           x == PreviousOrEqual(tree[<<p.w, s>>], p.time)
<1>1. [w |-> p.w, s |-> p.s, t |-> p.t] = Resolution(p.world, p.time)
  BY DEF Current
<1>2. ~StaleRead(h)
  <2>1. Resolution(p.world, p.time).w = ResolveWorld(p.world, p.time)
    BY DEF Resolution
  <2> QED
    BY <1>1, <2>1 DEF StaleRead
<1>3. /\ ~TreesMissing(p)
      /\ Resolution(p.world, p.time) = [w |-> p.w, s |-> s, t |-> x]
      /\ order[p.w] # Null /\ order[p.w] \in Times /\ order[p.w] <= p.time
      /\ s \in tree[Super(p.w)]
      /\ \A u \in tree[Super(p.w)] : s < u => p.time < u
      /\ <<p.w, x>> \in states
      /\ \A y \in Times : <<p.w, y>> \in states /\ y <= p.time => y <= x
      /\ ~Same(p) => /\ Rephased(p).w = p.w /\ Rephased(p).s = s
                     /\ Rephased(p).t = x /\ Rephased(p).k = <<p.w, s>>
  BY <1>2, ReadIs
<1> HIDE DEF s, x
<1>4. s = p.s /\ x = p.t
  BY <1>1, <1>3
<1>5. Same(p) => /\ Rephased(p).w = p.w /\ Rephased(p).s = p.s
                 /\ Rephased(p).t = p.t /\ Rephased(p).k = <<p.w, p.s>>
  BY DEF Rephased
<1> QED
  BY <1>2, <1>3, <1>4, <1>5

(* A careful write goes into a world's own timeline, or begins one.        *)
LEMMA WriteIs ==
  ASSUME IInv, Sound, NEW h \in Handles, Live(h), Current(h), ~EarlyWrite(h)
  PROVE  LET p == handle[h] IN
         /\ ~Diverges(p, p.w) => p.w = p.world
         /\ Diverges(p, p.w) => \A t \in Times : <<p.world, t>> \notin states
<1> DEFINE p == handle[h]
<1>1. p.world \in Worlds /\ p.w \in Worlds /\ p.time \in Times /\ p.time \in Nat
  BY HandleIs DEF IInv
<1>2. p.w = ResolveWorld(p.world, p.time)
  BY CurrentIs DEF StaleRead
<1> HIDE DEF p
<1>3. ASSUME ~Diverges(p, p.w), p.w # p.world PROVE FALSE
  <2>1. order[p.world] # Null /\ order[p.world] \in Times
    BY <1>1, <1>3 DEF Diverges, IInv, TypeOK
  <2>2. ~(p.time < order[p.world]) /\ order[p.world] \in Nat
    BY <2>1, TimesAre DEF EarlyWrite, p
  <2>3. order[p.world] <= p.time
    BY <1>1, <2>2
  <2>4. ResolveWorld(p.world, p.time) = p.world
    BY <1>1, <2>1, <2>3, ResolveWorldIs DEF IInv
  <2> QED
    BY <1>2, <1>3, <2>4
<1>4. ASSUME Diverges(p, p.w), NEW t \in Times, <<p.world, t>> \in states PROVE FALSE
  <2>1. /\ tree[Super(p.world)] = {}
        /\ \A c \in Times : tree[<<p.world, c>>] # {} => c \in tree[Super(p.world)]
    BY <1>1, <1>4 DEF Diverges, Sound, Parted
  <2>2. \E c \in Times : t \in tree[<<p.world, c>>]
    BY <1>1, <1>4 DEF Sound, Parted
  <2> QED
    BY <2>1, <2>2
<1> QED
  BY <1>3, <1>4 DEF p

-----------------------------------------------------------------------------
(* Every careful step keeps the chunks in order.                           *)

LEMMA PartsStay ==
  ASSUME IInv, Parted, TreesSplit, UNCHANGED index, states' = states
  PROVE  Parted' /\ TreesSplit' /\ SuperGrows
<1>1. order' = order /\ tree' = tree
  BY DEF index
<1>2. Parted'
  BY <1>1 DEF Parted, Super
<1>3. TreesSplit' /\ SuperGrows
  BY <1>1 DEF TreesSplit, SuperGrows, Super, Threshold
<1> QED
  BY <1>2, <1>3

(* Calls that change neither the chunks nor the handles.                   *)
LEMMA SoundStays ==
  ASSUME IInv, Sound, UNCHANGED <<index, states, marks, handle>>,
         \A w \in Worlds : Exists(w) => Exists(w)'
  PROVE  Sound'
<1>1. Parted' /\ TreesSplit' /\ SuperGrows
  BY PartsStay DEF Sound
<1>2. HandlesPlaced'
  <2> SUFFICES ASSUME NEW g \in Handles, handle[g] # Freed
               PROVE  /\ handle[g].world = Root \/ parent'[handle[g].world] # NoWorld
                      /\ handle[g].s \in tree'[Super(handle[g].w)]
                      /\ <<handle[g].w, handle[g].t>> \in states
    BY DEF HandlesPlaced, Alive, Live, Super, Exists
  <2>1. handle[g].world \in Worlds /\ tree' = tree
    BY HandleIs DEF IInv, Live, index
  <2>2. /\ Exists(handle[g].world) /\ handle[g].s \in tree[Super(handle[g].w)]
        /\ <<handle[g].w, handle[g].t>> \in states
    BY DEF Sound, HandlesPlaced, Alive, Live
  <2> QED
    BY <2>1, <2>2 DEF Exists
<1>3. MarksBalanced'
  BY DEF Sound, MarksBalanced, marks, StateHolders, TreeHolders, Alive, Live, Super
<1> QED
  BY <1>1, <1>2, <1>3 DEF Sound

LEMMA ForkSound ==
  ASSUME IInv, Sound, NEW w \in Worlds, NEW child \in Worlds, Fork(w, child)
  PROVE  Sound'
<1>1. \A v \in Worlds : Exists(v) => Exists(v)'
  <2>1. parent' = [parent EXCEPT ![child] = w] /\ w # NoWorld
    BY ResolverAssumption DEF Fork
  <2> QED
    BY <2>1 DEF Exists, IInv, TypeOK
<1> QED
  BY <1>1, SoundStays DEF Fork

LEMMA NewNodeSound ==
  ASSUME IInv, Sound, NEW h \in Handles, NEW w \in Worlds, NEW t \in Times,
         NewNode(h, w, t)
  PROVE  Sound'
<1> DEFINE q == [world |-> w, time |-> t, w |-> w, s |-> t, t |-> t,
                 mw |-> Null, ms |-> Null, mt |-> Null]
<1>1. Parted' /\ TreesSplit' /\ SuperGrows /\ t \in tree'[Super(w)]
  BY FirstParts DEF Sound
<1>2. /\ states = {} /\ states' = {<<w, t>>} /\ Exists(w) /\ parent' = parent
      /\ handle' = [handle EXCEPT ![h] = q] /\ orderMarks' = 1
      /\ stateMarks' = Plus(stateMarks, <<w, t>>, 1)
      /\ treeMarks' = Plus(Plus(treeMarks, Super(w), 1), <<w, t>>, 1)
  BY DEF NewNode
<1>3. Alive = {} /\ handle[h] = Freed /\ orderMarks = 0
  <2>1. Alive = {}
    BY <1>2 DEF IInv, StatesFirst
  <2>2. orderMarks = 0
    BY <2>1, FS_EmptySet DEF Sound, MarksBalanced
  <2> QED
    BY <2>1, <2>2 DEF Alive, Live
<1>4. q # Freed /\ q.world = w /\ q.w = w /\ q.s = t /\ q.t = t
  <2>1. q \in Resolved
    BY TimesAre DEF Resolved
  <2> QED
    BY <2>1, LiveIsNotFreed
<1> HIDE DEF q
<1>5. HandlesPlaced'
  BY <1>1, <1>2, <1>4, PlacedStays DEF Sound, Exists
<1>6. \A n \in States : stateMarks'[n] =
        stateMarks[n] - StateRef(handle[h], n) + StateRef(q, n)
  BY <1>2, <1>3, <1>4, PlusAt DEF IInv, TypeOK, StateRef, One
<1>7. \A k \in Trees : treeMarks'[k] =
        treeMarks[k] - TreeRef(handle[h], k) + TreeRef(q, k)
  <2> SUFFICES ASSUME NEW k \in Trees
               PROVE  treeMarks'[k] = treeMarks[k] - TreeRef(handle[h], k) + TreeRef(q, k)
    OBVIOUS
  <2>1. Plus(treeMarks, Super(w), 1) \in [Trees -> Int] /\ treeMarks[k] \in Int
    BY PlusTyped DEF IInv, TypeOK
  <2>2. /\ treeMarks'[k] = IF k = <<w, t>> THEN Plus(treeMarks, Super(w), 1)[k] + 1
                           ELSE Plus(treeMarks, Super(w), 1)[k]
        /\ Plus(treeMarks, Super(w), 1)[k] = IF k = Super(w) THEN treeMarks[k] + 1
                                             ELSE treeMarks[k]
    BY <1>2, <2>1, PlusAt DEF IInv, TypeOK
  <2>3. Super(w) # <<w, t>>
    BY TreesAre
  <2> QED
    BY <1>3, <1>4, <2>1, <2>2, <2>3 DEF TreeRef, One
<1>8. orderMarks' = orderMarks - One(handle[h] # Freed) + One(q # Freed)
  BY <1>2, <1>3, <1>4 DEF One
<1>9. MarksBalanced'
  BY <1>2, <1>6, <1>7, <1>8, MarksFollow DEF Sound, MarksMove
<1> QED
  BY <1>1, <1>5, <1>9 DEF Sound

LEMMA LookupSound ==
  ASSUME IInv, Sound, NEW h \in Handles, NEW w \in Worlds, NEW t \in Times,
         Lookup(h, w, t)
  PROVE  Sound'
<1> DEFINE r == Resolution(w, t)
           q == [world |-> w, time |-> t, w |-> r.w, s |-> r.s, t |-> r.t,
                 mw |-> orderMagic, ms |-> magic[Super(r.w)], mt |-> magic[<<r.w, r.s>>]]
<1>1. /\ ~Live(h) /\ Exists(w) /\ <<r.w, r.t>> \in states
      /\ handle' = [handle EXCEPT ![h] = q]
      /\ stateMarks' = Plus(stateMarks, <<r.w, r.t>>, 1)
      /\ treeMarks' = Plus(Plus(treeMarks, Super(r.w), 1), <<r.w, r.s>>, 1)
      /\ orderMarks' = orderMarks + 1
      /\ UNCHANGED <<parent, index, states, answer>>
  BY DEF Lookup
<1>2. r.w \in Worlds /\ r.s \in tree[Super(r.w)] /\ r.s \in Times
  <2> DEFINE v == ResolveWorld(w, t)
             s == PreviousOrEqual(tree[Super(v)], t)
  <2>1. v \in Worlds
    BY ResolveWorldIs DEF IInv
  <2>2. r.w = v /\ r.s = s /\ (s = Null => r.t = Null)
    BY DEF Resolution
  <2> HIDE DEF r, v
  <2>3. tree[Super(v)] \in SUBSET Times
    BY <2>1, TreesAre DEF IInv, TypeOK
  <2>4. r.t # Null
    BY <1>1, TimesAre DEF IInv, TypeOK, States
  <2> QED
    BY <2>1, <2>2, <2>3, <2>4, PreviousIs
<1>3. q # Freed /\ q.world = w /\ q.w = r.w /\ q.s = r.s /\ q.t = r.t
  <2>1. q.world # NoWorld
    BY ResolverAssumption
  <2> QED
    BY <2>1 DEF Freed
<1> HIDE DEF q, r
<1>4. Parted' /\ TreesSplit' /\ SuperGrows /\ states' = states
  BY <1>1, PartsStay DEF Sound
<1>5. HandlesPlaced'
  BY <1>1, <1>2, <1>3, <1>4, PlacedStays DEF Sound, Exists, SuperGrows
<1>6. handle[h] = Freed
  BY <1>1 DEF Live
<1>7. \A n \in States : stateMarks'[n] =
        stateMarks[n] - StateRef(handle[h], n) + StateRef(q, n)
  BY <1>1, <1>3, <1>6, PlusAt DEF IInv, TypeOK, StateRef, One
<1>8. \A k \in Trees : treeMarks'[k] =
        treeMarks[k] - TreeRef(handle[h], k) + TreeRef(q, k)
  <2> SUFFICES ASSUME NEW k \in Trees
               PROVE  treeMarks'[k] = treeMarks[k] - TreeRef(handle[h], k) + TreeRef(q, k)
    OBVIOUS
  <2>1. Plus(treeMarks, Super(r.w), 1) \in [Trees -> Int] /\ treeMarks[k] \in Int
    BY PlusTyped DEF IInv, TypeOK
  <2>2. /\ treeMarks'[k] = IF k = <<r.w, r.s>> THEN Plus(treeMarks, Super(r.w), 1)[k] + 1
                           ELSE Plus(treeMarks, Super(r.w), 1)[k]
        /\ Plus(treeMarks, Super(r.w), 1)[k] = IF k = Super(r.w) THEN treeMarks[k] + 1
                                               ELSE treeMarks[k]
    BY <1>1, <2>1, PlusAt DEF IInv, TypeOK
  <2>3. Super(r.w) # <<r.w, r.s>>
    BY <1>2, TreesAre
  <2> QED
    BY <1>3, <1>6, <2>1, <2>2, <2>3 DEF TreeRef, One
<1>9. orderMarks' = orderMarks - One(handle[h] # Freed) + One(q # Freed)
  BY <1>1, <1>3, <1>6 DEF One, IInv, TypeOK
<1>10. MarksBalanced'
  BY <1>1, <1>7, <1>8, <1>9, MarksFollow DEF Sound, MarksMove
<1> QED
  BY <1>4, <1>5, <1>10 DEF Sound

(* A copy of a node in phase.                                              *)
LEMMA CloneSound ==
  ASSUME IInv, Sound, NEW h \in Handles, NEW copy \in Handles, Exact(handle[h]),
         Clone(h, copy)
  PROVE  Sound'
<1> DEFINE p == handle[h]
<1>1. /\ Live(h) /\ ~Live(copy) /\ handle' = [handle EXCEPT ![copy] = p]
      /\ stateMarks' = IF <<p.world, p.time>> \in states
                       THEN Plus(stateMarks, <<p.world, p.time>>, 1) ELSE stateMarks
      /\ treeMarks' = [k \in Trees |->
           treeMarks[k] + IF k \in {Super(p.world), <<p.world, p.s>>} /\ tree[k] # {}
                          THEN 1 ELSE 0]
      /\ orderMarks' = orderMarks + 1
      /\ UNCHANGED <<parent, index, states, answer>>
  BY DEF Clone
<1>2. /\ p.w = p.world /\ p.t = p.time /\ p # Freed /\ handle[copy] = Freed
      /\ p.w \in Worlds /\ p.s \in Times
  BY <1>1, HandleIs DEF Exact, Live, IInv
<1>3. Exists(p.world) /\ p.s \in tree[Super(p.w)] /\ <<p.w, p.t>> \in states
  BY <1>1 DEF Sound, HandlesPlaced, Alive
<1>4. tree[Super(p.w)] # {} /\ tree[<<p.w, p.s>>] # {}
  BY <1>2, <1>3 DEF Sound, Parted
<1> HIDE DEF p
<1>5. Parted' /\ TreesSplit' /\ SuperGrows /\ states' = states
  BY <1>1, PartsStay DEF Sound
<1>6. HandlesPlaced'
  BY <1>1, <1>2, <1>3, <1>5, PlacedStays DEF Sound, Exists, SuperGrows
<1>7. \A n \in States : stateMarks'[n] =
        stateMarks[n] - StateRef(handle[copy], n) + StateRef(p, n)
  BY <1>1, <1>2, <1>3, PlusAt DEF IInv, TypeOK, StateRef, One
<1>8. \A k \in Trees : treeMarks'[k] =
        treeMarks[k] - TreeRef(handle[copy], k) + TreeRef(p, k)
  BY <1>1, <1>2, <1>4 DEF IInv, TypeOK, TreeRef, One
<1>9. orderMarks' = orderMarks - One(handle[copy] # Freed) + One(p # Freed)
  BY <1>1, <1>2 DEF One, IInv, TypeOK
<1>10. MarksBalanced'
  BY <1>1, <1>7, <1>8, <1>9, MarksFollow DEF Sound, MarksMove
<1> QED
  BY <1>5, <1>6, <1>10 DEF Sound

LEMMA FreeSound ==
  ASSUME IInv, Sound, NEW h \in Handles, Free(h)
  PROVE  Sound'
<1> DEFINE p == handle[h]
<1>1. /\ Live(h) /\ handle' = [handle EXCEPT ![h] = Freed]
      /\ stateMarks' = Plus(stateMarks, <<p.w, p.t>>, -1)
      /\ treeMarks' = [k \in Trees |->
           treeMarks[k] - IF k \in {Super(p.w), <<p.w, p.s>>} /\ tree[k] # {}
                          THEN 1 ELSE 0]
      /\ orderMarks' = orderMarks - 1
      /\ UNCHANGED <<parent, index, states, answer>>
  BY DEF Free
<1>2. p # Freed /\ p.w \in Worlds /\ p.s \in Times
  BY <1>1, HandleIs DEF Live, IInv
<1>3. p.s \in tree[Super(p.w)]
  BY <1>1 DEF Sound, HandlesPlaced, Alive
<1>4. tree[Super(p.w)] # {} /\ tree[<<p.w, p.s>>] # {}
  BY <1>2, <1>3 DEF Sound, Parted
<1>5. Parted' /\ TreesSplit' /\ SuperGrows /\ states' = states
  BY <1>1, PartsStay DEF Sound
<1>6. HandlesPlaced'
  BY <1>1, <1>5, PlacedStays DEF Sound, Exists
<1> HIDE DEF p
<1>7. \A n \in States : stateMarks'[n] =
        stateMarks[n] - StateRef(p, n) + StateRef(Freed, n)
  BY <1>1, <1>2, PlusAt DEF IInv, TypeOK, StateRef, One
<1>8. \A k \in Trees : treeMarks'[k] =
        treeMarks[k] - TreeRef(p, k) + TreeRef(Freed, k)
  BY <1>1, <1>2, <1>4 DEF IInv, TypeOK, TreeRef, One
<1>9. orderMarks' = orderMarks - One(p # Freed) + One(Freed # Freed)
  BY <1>1, <1>2 DEF One, IInv, TypeOK
<1>10. MarksBalanced'
  BY <1>1, <1>7, <1>8, <1>9, MarksFollow DEF Sound, MarksMove, p
<1> QED
  BY <1>5, <1>6, <1>10 DEF Sound

(* What a call that changes the resolution of one live handle owes.        *)
LEMMA ResolveSound ==
  ASSUME IInv, Sound, Parted', TreesSplit', SuperGrows, parent' = parent,
         orderMarks' = orderMarks,
         NEW h \in Handles, Live(h), states \subseteq states',
         NEW w \in Worlds, NEW s \in Times, NEW t \in Times, NEW mw, NEW ms, NEW mt,
         Resolve(h, w, s, t, mw, ms, mt),
         s \in tree'[Super(w)], <<w, t>> \in states',
         \A n \in States : stateMarks'[n] =
           stateMarks[n] - One(<<handle[h].w, handle[h].t>> = n) + One(<<w, t>> = n),
         \A k \in Trees : treeMarks'[k] =
           treeMarks[k] - One(k = Super(handle[h].w)) - One(k = <<handle[h].w, handle[h].s>>)
                        + One(k = Super(w)) + One(k = <<w, s>>)
  PROVE  Sound'
<1> DEFINE p == handle[h]
<1>1. PICK q : /\ handle' = [handle EXCEPT ![h] = q]
               /\ q = [world |-> p.world, time |-> p.time,
                       w |-> w, s |-> s, t |-> t, mw |-> mw, ms |-> ms, mt |-> mt]
  BY ResolveIs
<1>2. p # Freed /\ p.world \in Worlds /\ p.w \in Worlds /\ p.s \in Times
  BY HandleIs DEF IInv, Live
<1>3. q.world = p.world /\ q.w = w /\ q.s = s /\ q.t = t /\ q # Freed
  <2>1. q.world # NoWorld
    BY <1>1, <1>2, ResolverAssumption
  <2> QED
    BY <1>1, <2>1 DEF Freed
<1>4. Exists(p.world)
  BY DEF Sound, HandlesPlaced, Alive
<1>5. HandlesPlaced'
  BY <1>1, <1>3, <1>4, PlacedStays DEF Sound, Exists
<1> HIDE DEF p
<1>6. \A n \in States : stateMarks'[n] =
        stateMarks[n] - StateRef(p, n) + StateRef(q, n)
  BY <1>2, <1>3 DEF StateRef, p
<1>7. ASSUME NEW k \in Trees
      PROVE  treeMarks'[k] = treeMarks[k] - TreeRef(p, k) + TreeRef(q, k)
  <2>1. Super(p.w) # <<p.w, p.s>> /\ Super(w) # <<w, s>> /\ treeMarks[k] \in Int
    BY <1>2, TreesAre DEF IInv, TypeOK
  <2>2. TreeRef(p, k) = One(k = Super(p.w)) + One(k = <<p.w, p.s>>)
    BY <1>2, <2>1 DEF TreeRef, One
  <2>3. TreeRef(q, k) = One(k = Super(w)) + One(k = <<w, s>>)
    BY <1>3, <2>1 DEF TreeRef, One
  <2>4. treeMarks'[k] = treeMarks[k] - One(k = Super(p.w)) - One(k = <<p.w, p.s>>)
                        + One(k = Super(w)) + One(k = <<w, s>>)
    BY DEF p
  <2>5. /\ One(k = Super(p.w)) \in Int /\ One(k = <<p.w, p.s>>) \in Int
        /\ One(k = Super(w)) \in Int /\ One(k = <<w, s>>) \in Int
    BY DEF One
  <2> QED
    BY <2>1, <2>2, <2>3, <2>4, <2>5
<1>8. orderMarks' = orderMarks - One(p # Freed) + One(q # Freed)
  BY <1>2, <1>3 DEF One, IInv, TypeOK
<1>9. MarksBalanced'
  <2>1. handle' = [handle EXCEPT ![h] = q] /\ MarksBalanced
    BY <1>1 DEF Sound
  <2>2. MarksMove(p, q)
    BY <1>6, <1>7, <1>8 DEF MarksMove
  <2> QED
    BY <2>1, <2>2, MarksFollow DEF p
<1> QED
  BY <1>5, <1>9 DEF Sound

(* resolveState(node, true) of a node whose world has not diverged since.  *)
LEMMA GetSound ==
  ASSUME IInv, Sound, NEW h \in Handles, Live(h), ~StaleRead(h), Get(h)
  PROVE  Sound'
<1> DEFINE p == handle[h]
           r == Rephased(p)
           s == PreviousOrEqual(tree[Super(p.w)], p.time)
           x == PreviousOrEqual(tree[<<p.w, s>>], p.time)
<1>1. /\ ~TreesMissing(p)
      /\ s \in tree[Super(p.w)] /\ s \in Times
      /\ x \in tree[<<p.w, s>>] /\ x \in Times /\ <<p.w, x>> \in states
      /\ ~Same(p) => /\ r.w = p.w /\ r.s = s /\ r.t = x /\ r.k = <<p.w, s>>
  BY ReadIs
<1>2. /\ p.w \in Worlds /\ p.s \in Times /\ p.t \in Times
      /\ p.s \in tree[Super(p.w)] /\ p.s \in tree[<<p.w, p.s>>]
  BY HandleIs DEF IInv, Sound, HandlesPlaced, Alive, Parted
<1> HIDE DEF s, x
<1>3. CASE InPhase(h) \/ GetSame(h)
  <2>1. UNCHANGED <<index, states, marks, handle>> /\ \A w \in Worlds : Exists(w) => Exists(w)'
    BY <1>3 DEF InPhase, GetSame, Exists
  <2> QED
    BY <2>1, SoundStays
<1>4. ~Unresolvable(h) /\ ~RephaseFails(h) /\ ~GetMisses(h)
  <2>1. Same(p) => tree[r.k] # {}
    BY <1>2 DEF Rephased
  <2>2. ~Same(p) => tree[r.k] # {} /\ <<r.w, r.t>> \in states
    BY <1>1
  <2> QED
    BY <1>1, <2>1, <2>2 DEF Unresolvable, RephaseFails, GetMisses
<1>5. CASE GetRephased(h)
  <2>1. /\ ~Same(p)
        /\ treeMarks' = TreesMoved(p, r)
        /\ stateMarks' = Moved(stateMarks, <<p.w, p.t>>, <<r.w, r.t>>)
        /\ IF <<r.w, r.s, r.t>> = <<p.w, p.s, p.t>> THEN UNCHANGED handle
           ELSE Resolve(h, r.w, r.s, r.t, orderMagic, magic[Super(p.w)], magic[<<p.w, p.s>>])
        /\ UNCHANGED <<parent, index, states, orderMarks>>
    BY <1>5 DEF GetRephased
  <2>2. r.w = p.w /\ r.s = s /\ r.t = x /\ r.k = <<p.w, s>>
    BY <1>1, <2>1
  <2> HIDE DEF r
  <2>3. Parted' /\ TreesSplit' /\ SuperGrows /\ states' = states /\ tree' = tree
    BY <2>1, PartsStay DEF Sound, index
  <2>4. \A n \in States : stateMarks'[n] =
          stateMarks[n] - One(<<p.w, p.t>> = n) + One(<<p.w, x>> = n)
    <3>1. \A n \in States : stateMarks'[n] =
            stateMarks[n] - One(n = <<p.w, p.t>>) + One(n = <<p.w, x>>)
      BY <2>1, <2>2, MovedAt DEF IInv, TypeOK
    <3> QED
      BY <3>1 DEF One
  <2>5. ASSUME NEW k \in Trees
        PROVE  treeMarks'[k] =
                 treeMarks[k] - One(k = Super(p.w)) - One(k = <<p.w, p.s>>)
                              + One(k = Super(p.w)) + One(k = <<p.w, s>>)
    <3> DEFINE f == Moved(treeMarks, Super(p.w), Super(p.w))
    <3>1. f \in [Trees -> Int] /\ treeMarks[k] \in Int
      BY MovedTyped DEF IInv, TypeOK
    <3>2. f[k] = treeMarks[k] - One(k = Super(p.w)) + One(k = Super(p.w))
      BY MovedAt DEF IInv, TypeOK
    <3>3. treeMarks' = Moved(f, <<p.w, p.s>>, <<p.w, s>>)
      BY <2>1, <2>2 DEF TreesMoved
    <3> HIDE DEF f
    <3>4. treeMarks'[k] = f[k] - One(k = <<p.w, p.s>>) + One(k = <<p.w, s>>)
      BY <3>1, <3>3, MovedAt
    <3>5. /\ One(k = Super(p.w)) \in Int /\ One(k = <<p.w, p.s>>) \in Int
          /\ One(k = <<p.w, s>>) \in Int
      BY DEF One
    <3> QED
      BY <3>1, <3>2, <3>4, <3>5
  <2>6. CASE <<p.w, s, x>> # <<p.w, p.s, p.t>>
    <3>1. Resolve(h, p.w, s, x, orderMagic, magic[Super(p.w)], magic[<<p.w, p.s>>])
      BY <2>1, <2>2, <2>6
    <3> QED
      BY <1>1, <1>2, <2>1, <2>3, <2>4, <2>5, <3>1, ResolveSound
  <2>7. CASE <<p.w, s, x>> = <<p.w, p.s, p.t>>
    <3>1. handle' = handle /\ s = p.s /\ x = p.t
      BY <2>1, <2>2, <2>7
    <3>2. \A n \in States : stateMarks'[n] = stateMarks[n]
      BY <2>4, <3>1 DEF One, IInv, TypeOK
    <3>3. \A k \in Trees : treeMarks'[k] = treeMarks[k]
      BY <2>5, <3>1 DEF One, IInv, TypeOK
    <3>4. stateMarks' = stateMarks /\ treeMarks' = treeMarks
      <4>1. /\ stateMarks \in [States -> Int] /\ treeMarks \in [Trees -> Int]
            /\ treeMarks' \in [Trees -> Int] /\ stateMarks' \in [States -> Int]
        BY GetRephasedKeeps, <1>5 DEF Kept, IInv, TypeOK
      <4> QED
        BY <3>2, <3>3, <4>1
    <3>5. \A w \in Worlds : Exists(w) => Exists(w)'
      BY <2>1 DEF Exists
    <3> QED
      BY <2>1, <3>1, <3>4, <3>5, SoundStays DEF marks
  <2> QED
    BY <2>6, <2>7
<1> QED
  BY <1>3, <1>4, <1>5 DEF Get

(* A new state takes the mark of the state the handle referred to.         *)
LEMMA StateMarksMove ==
  ASSUME IInv, NEW n \in States, n \notin states, NEW old,
         stateMarks' = Plus(Plus(stateMarks, n, Put(n \in states)), old, -1)
  PROVE  \A x \in States : stateMarks'[x] = stateMarks[x] - One(old = x) + One(n = x)
<1>1. Put(n \in states) = 1
  BY DEF Put
<1>2. stateMarks \in [States -> Int] /\ Plus(stateMarks, n, 1) \in [States -> Int]
  BY PlusTyped DEF IInv, TypeOK
<1> SUFFICES ASSUME NEW x \in States
             PROVE  stateMarks'[x] = stateMarks[x] - One(old = x) + One(n = x)
  OBVIOUS
<1>3. Plus(stateMarks, n, 1)[x] = IF x = n THEN stateMarks[x] + 1 ELSE stateMarks[x]
  BY <1>2, PlusAt
<1>4. stateMarks' = Plus(Plus(stateMarks, n, 1), old, -1)
  BY <1>1
<1>5. stateMarks'[x] = IF x = old THEN Plus(stateMarks, n, 1)[x] + -1
                       ELSE Plus(stateMarks, n, 1)[x]
  BY <1>2, <1>4, PlusAt
<1> QED
  BY <1>2, <1>3, <1>5 DEF One

(* The three ways a careful write of time t goes into the chunks: the time *)
(* tree takes it, or splits, or the world gets a timeline of its own.      *)
LEMMA InsertSound ==
  ASSUME IInv, Sound, NEW h \in Handles, Live(h), Current(h),
         NEW t \in Times, handle[h].s <= t, t <= handle[h].time,
         NEW w \in Worlds, w = handle[h].w, NEW s \in Times, s = handle[h].s,
         <<w, t>> \notin states, ~Splits(<<w, s>>, Super(w), t), Insert(<<w, s>>, t),
         states' = states \cup {<<w, t>>},
         stateMarks' = Plus(Plus(stateMarks, <<w, t>>, Put(<<w, t>> \in states)),
                            <<w, handle[h].t>>, -1),
         \A k \in Trees : treeMarks'[k] = treeMarks[k],
         UNCHANGED <<parent, order, orderMarks>>,
         NEW mw, NEW ms, NEW mt, Resolve(h, w, s, t, mw, ms, mt)
  PROVE  Sound'
<1>1. s \in tree[Super(w)] /\ \A u \in tree[Super(w)] : s < u => handle[h].time < u
  BY CurrentIs
<1>2. \A u \in tree[Super(w)] : s < u => t < u
  <2>1. t \in Nat /\ handle[h].time \in Nat
    BY HandleIs, TimesAre DEF IInv
  <2>2. tree[Super(w)] \subseteq Nat
    BY TreesAre, TimesAre DEF IInv, TypeOK
  <2> QED
    BY <1>1, <2>1, <2>2
<1>3. Parted' /\ TreesSplit' /\ SuperGrows
  BY <1>1, <1>2, InsertParts DEF Sound
<1>4. s \in tree'[Super(w)] /\ <<w, t>> \in states' /\ <<w, t>> \in States
      /\ states \subseteq states'
  BY <1>1, <1>3 DEF SuperGrows, States
<1>5. \A x \in States : stateMarks'[x] =
        stateMarks[x] - One(<<handle[h].w, handle[h].t>> = x) + One(<<w, t>> = x)
  BY <1>4, StateMarksMove
<1>6. \A k \in Trees : treeMarks'[k] =
        treeMarks[k] - One(k = Super(handle[h].w)) - One(k = <<handle[h].w, handle[h].s>>)
                     + One(k = Super(w)) + One(k = <<w, s>>)
  <2> SUFFICES ASSUME NEW k \in Trees
               PROVE  treeMarks[k] = treeMarks[k] - One(k = Super(w)) - One(k = <<w, s>>)
                                     + One(k = Super(w)) + One(k = <<w, s>>)
    OBVIOUS
  <2>1. treeMarks[k] \in Int /\ One(k = Super(w)) \in Int /\ One(k = <<w, s>>) \in Int
    BY DEF IInv, TypeOK, One
  <2> QED
    BY <2>1
<1> QED
  BY <1>3, <1>4, <1>5, <1>6, ResolveSound

LEMMA SplitSound ==
  ASSUME IInv, Sound, NEW h \in Handles, Live(h), Current(h),
         NEW t \in Times, handle[h].s <= t, t <= handle[h].time,
         NEW w \in Worlds, w = handle[h].w, NEW s \in Times, s = handle[h].s,
         <<w, t>> \notin states, Splits(<<w, s>>, Super(w), t), NEW counted \in BOOLEAN,
         InsertAndSplit(w, <<w, s>>, Super(w), t, counted),
         states' = states \cup {<<w, t>>},
         stateMarks' = Plus(Plus(stateMarks, <<w, t>>, Put(<<w, t>> \in states)),
                            <<w, handle[h].t>>, -1),
         UNCHANGED <<parent, order, orderMarks>>,
         NEW m, m = Median(<<w, s>>, t), NEW b \in {s, m},
         tree[<<w, m>>] = {} => \A k \in Trees :
           treeMarks'[k] = treeMarks[k] - One(k = <<w, s>>) + One(k = <<w, b>>),
         NEW mw, NEW ms, NEW mt, Resolve(h, w, b, t, mw, ms, mt)
  PROVE  Sound'
<1>1. s \in tree[Super(w)] /\ \A u \in tree[Super(w)] : s < u => handle[h].time < u
  BY CurrentIs
<1>2. \A u \in tree[Super(w)] : s < u => t < u
  <2>1. t \in Nat /\ handle[h].time \in Nat
    BY HandleIs, TimesAre DEF IInv
  <2>2. tree[Super(w)] \subseteq Nat
    BY TreesAre, TimesAre DEF IInv, TypeOK
  <2> QED
    BY <1>1, <2>1, <2>2
<1>3. /\ Parted' /\ TreesSplit' /\ SuperGrows
      /\ m \in Times /\ m \in tree'[Super(w)] /\ tree[<<w, m>>] = {}
  BY <1>1, <1>2, SplitParts DEF Sound
<1>4. b \in tree'[Super(w)] /\ b \in Times /\ <<w, t>> \in states' /\ <<w, t>> \in States
      /\ states \subseteq states'
  BY <1>1, <1>3 DEF SuperGrows, States
<1>5. \A x \in States : stateMarks'[x] =
        stateMarks[x] - One(<<handle[h].w, handle[h].t>> = x) + One(<<w, t>> = x)
  BY <1>4, StateMarksMove
<1>6. \A k \in Trees : treeMarks'[k] =
        treeMarks[k] - One(k = Super(handle[h].w)) - One(k = <<handle[h].w, handle[h].s>>)
                     + One(k = Super(w)) + One(k = <<w, b>>)
  <2> SUFFICES ASSUME NEW k \in Trees
               PROVE  treeMarks'[k] = treeMarks[k] - One(k = Super(w)) - One(k = <<w, s>>)
                                      + One(k = Super(w)) + One(k = <<w, b>>)
    OBVIOUS
  <2>1. treeMarks[k] \in Int /\ One(k = Super(w)) \in Int /\ One(k = <<w, s>>) \in Int
        /\ One(k = <<w, b>>) \in Int
    BY DEF IInv, TypeOK, One
  <2>2. treeMarks'[k] = treeMarks[k] - One(k = <<w, s>>) + One(k = <<w, b>>)
    BY <1>3
  <2> QED
    BY <2>1, <2>2
<1> QED
  BY <1>3, <1>4, <1>5, <1>6, ResolveSound

LEMMA TimelineSound ==
  ASSUME IInv, Sound, NEW h \in Handles, Live(h),
         NEW t \in Times, NEW w \in Worlds, order[w] = Null, NewTimeline(w, t),
         states' = states \cup {<<w, t>>}, NEW old,
         old = <<handle[h].w, handle[h].t>>,
         stateMarks' = Plus(Plus(stateMarks, <<w, t>>, Put(<<w, t>> \in states)), old, -1),
         treeMarks' = Moved(Moved(treeMarks, Super(handle[h].w), Super(w)),
                            <<handle[h].w, handle[h].s>>, <<w, t>>),
         UNCHANGED <<parent, orderMarks>>,
         NEW mw, NEW ms, NEW mt, Resolve(h, w, t, t, mw, ms, mt)
  PROVE  Sound'
<1>1. /\ Parted' /\ TreesSplit' /\ SuperGrows
      /\ t \in tree'[Super(w)] /\ <<w, t>> \notin states
  BY TimelineParts DEF Sound
<1>2. <<w, t>> \in states' /\ <<w, t>> \in States /\ states \subseteq states'
  BY DEF States
<1>3. \A x \in States : stateMarks'[x] =
        stateMarks[x] - One(<<handle[h].w, handle[h].t>> = x) + One(<<w, t>> = x)
  BY <1>1, <1>2, StateMarksMove
<1>4. ASSUME NEW k \in Trees
      PROVE  treeMarks'[k] =
        treeMarks[k] - One(k = Super(handle[h].w)) - One(k = <<handle[h].w, handle[h].s>>)
                     + One(k = Super(w)) + One(k = <<w, t>>)
  <2> DEFINE f == Moved(treeMarks, Super(handle[h].w), Super(w))
  <2>1. f \in [Trees -> Int] /\ treeMarks[k] \in Int
    BY MovedTyped DEF IInv, TypeOK
  <2>2. f[k] = treeMarks[k] - One(k = Super(handle[h].w)) + One(k = Super(w))
    BY MovedAt DEF IInv, TypeOK
  <2>3. treeMarks' = Moved(f, <<handle[h].w, handle[h].s>>, <<w, t>>)
    OBVIOUS
  <2> HIDE DEF f
  <2>4. treeMarks'[k] = f[k] - One(k = <<handle[h].w, handle[h].s>>) + One(k = <<w, t>>)
    BY <2>1, <2>3, MovedAt
  <2>5. /\ One(k = Super(handle[h].w)) \in Int /\ One(k = <<handle[h].w, handle[h].s>>) \in Int
        /\ One(k = Super(w)) \in Int /\ One(k = <<w, t>>) \in Int
    BY DEF One
  <2> QED
    BY <2>1, <2>2, <2>4, <2>5
<1> QED
  BY <1>1, <1>2, <1>3, <1>4, ResolveSound

(* Marks moved from a chunk to itself.                                     *)
LEMMA MovedInPlace ==
  ASSUME IInv, NEW p, NEW r, r.w = p.w, r.k = <<p.w, p.s>>
  PROVE  TreesMoved(p, r) = treeMarks
<1> DEFINE f == Moved(treeMarks, Super(p.w), Super(p.w))
<1>1. treeMarks \in [Trees -> Int] /\ f \in [Trees -> Int]
  BY MovedTyped DEF IInv, TypeOK
<1>2. TreesMoved(p, r) = Moved(f, r.k, r.k)
  BY DEF TreesMoved
<1>3. Moved(f, r.k, r.k) \in [Trees -> Int]
  BY <1>1, MovedTyped
<1>4. ASSUME NEW k \in Trees PROVE Moved(f, r.k, r.k)[k] = treeMarks[k]
  <2>1. f[k] = treeMarks[k] - One(k = Super(p.w)) + One(k = Super(p.w))
    BY <1>1, MovedAt
  <2> HIDE DEF f
  <2>2. Moved(f, r.k, r.k)[k] = f[k] - One(k = r.k) + One(k = r.k)
    BY <1>1, MovedAt
  <2>3. treeMarks[k] \in Int /\ One(k = Super(p.w)) \in Int /\ One(k = r.k) \in Int
    BY <1>1 DEF One
  <2> QED
    BY <2>1, <2>2, <2>3
<1> QED
  BY <1>1, <1>2, <1>3, <1>4

(* The marks of the two halves of a split.                                 *)
LEMMA SplitMarks ==
  ASSUME IInv, NEW k \in Trees, NEW right \in Trees, tree[right] = {}
  PROVE  /\ treeMarks' = Plus(treeMarks, right, Put(tree[right] # {}) - 1) =>
              \A j \in Trees : treeMarks'[j] = treeMarks[j] - One(j = k) + One(j = k)
         /\ treeMarks' = Plus(Plus(treeMarks, k, -1), right, Put(tree[right] # {})) =>
              \A j \in Trees : treeMarks'[j] = treeMarks[j] - One(j = k) + One(j = right)
<1>1. Put(tree[right] # {}) = 1
  BY DEF Put
<1>2. treeMarks \in [Trees -> Int] /\ Plus(treeMarks, k, -1) \in [Trees -> Int]
  BY PlusTyped DEF IInv, TypeOK
<1>3. ASSUME treeMarks' = Plus(treeMarks, right, Put(tree[right] # {}) - 1),
             NEW j \in Trees
      PROVE  treeMarks'[j] = treeMarks[j] - One(j = k) + One(j = k)
  <2>1. treeMarks'[j] = IF j = right THEN treeMarks[j] + 0 ELSE treeMarks[j]
    BY <1>1, <1>2, <1>3, PlusAt
  <2>2. One(j = k) \in Int /\ treeMarks[j] \in Int
    BY <1>2 DEF One
  <2> QED
    BY <2>1, <2>2
<1>4. ASSUME treeMarks' = Plus(Plus(treeMarks, k, -1), right, Put(tree[right] # {})),
             NEW j \in Trees
      PROVE  treeMarks'[j] = treeMarks[j] - One(j = k) + One(j = right)
  <2>1. treeMarks'[j] = IF j = right THEN Plus(treeMarks, k, -1)[j] + 1
                        ELSE Plus(treeMarks, k, -1)[j]
    BY <1>1, <1>2, <1>4, PlusAt
  <2>2. Plus(treeMarks, k, -1)[j] = IF j = k THEN treeMarks[j] + -1 ELSE treeMarks[j]
    BY <1>2, PlusAt
  <2>3. treeMarks[j] \in Int
    BY <1>2
  <2> QED
    BY <2>1, <2>2, <2>3 DEF One
<1> QED
  BY <1>3, <1>4

(* resolveState(node, false) by a careful caller: the state is new, and it *)
(* goes where the node was resolved.                                       *)
LEMMA PhaseSound ==
  ASSUME IInv, Sound, NEW h \in Handles, Live(h), Phase(h),
         ~Exact(handle[h]) => Current(h) /\ ~EarlyWrite(h)
  PROVE  Sound'
<1> DEFINE p == handle[h]
           r == Rephased(p)
<1>1. CASE Exact(p)
  <2>1. InPhase(h)
    BY <1>1 DEF Phase, Unresolvable, RephaseFails, PhaseMisses, PhaseInserts,
                PhaseSplitsLeft, PhaseSplitsRight, PhaseDiverges, Phases, Dephased
  <2>2. UNCHANGED <<index, states, marks, handle>> /\ \A w \in Worlds : Exists(w) => Exists(w)'
    BY <2>1 DEF InPhase, Exists
  <2> QED
    BY <2>2, SoundStays
<1>2. CASE ~Exact(p)
  <2>1. Current(h) /\ ~EarlyWrite(h)
    BY <1>2
  <2>2. /\ ~TreesMissing(p)
        /\ r.w = p.w /\ r.s = p.s /\ r.t = p.t /\ r.k = <<p.w, p.s>>
        /\ p.s \in tree[Super(p.w)] /\ <<p.w, p.t>> \in states
        /\ \A y \in Times : <<p.w, y>> \in states /\ y <= p.time => y <= p.t
    BY <2>1, CurrentIs
  <2>3. /\ p.world \in Worlds /\ p.w \in Worlds /\ p.s \in Times /\ p.t \in Times
        /\ p.time \in Times /\ p.s <= p.time /\ p.time <= p.time
        /\ p.t \in Nat /\ p.time \in Nat /\ p.t <= p.time
    BY HandleIs DEF IInv
  <2>4. TreesMoved(p, r) = treeMarks
    BY <2>2, MovedInPlace
  <2>5. ~InPhase(h) /\ ~Unresolvable(h) /\ ~RephaseFails(h) /\ ~PhaseMisses(h)
    <3>1. tree[<<p.w, p.s>>] # {}
      BY <2>2, <2>3 DEF Sound, Parted
    <3> QED
      BY <1>2, <2>2, <3>1 DEF InPhase, Unresolvable, RephaseFails, PhaseMisses
  <2>6. /\ ~Diverges(p, p.w) => p.w = p.world /\ Here(p) \notin states
        /\ Diverges(p, p.w) => order[p.world] = Null
    <3>1. ~Diverges(p, p.w) => p.w = p.world
      BY <2>1, WriteIs
    <3>2. ASSUME p.w = p.world PROVE Here(p) \notin states
      <4>1. p.t # p.time
        BY <1>2, <3>2 DEF Exact
      <4>2. ~(p.time <= p.t)
        BY <2>3, <4>1
      <4> QED
        BY <2>2, <2>3, <3>2, <4>2 DEF Here
    <3> QED
      BY <3>1, <3>2 DEF Diverges
  <2> HIDE DEF r
  <2>7. CASE PhaseInserts(h)
    <3>1. /\ ~Diverges(p, p.w) /\ ~Splits(<<p.w, p.s>>, Super(p.w), p.time)
          /\ states' = states \cup {Here(p)}
          /\ stateMarks' = Plus(Plus(stateMarks, Here(p), Put(Here(p) \in states)),
                                <<p.w, p.t>>, -1)
          /\ Insert(<<p.w, p.s>>, p.time)
          /\ treeMarks' = treeMarks
          /\ Resolve(h, p.world, p.s, p.time,
                     orderMagic, magic[Super(p.w)], magic'[<<p.w, p.s>>])
          /\ UNCHANGED <<parent, order, orderMarks>>
      BY <2>2, <2>4, <2>7 DEF PhaseInserts, CloneState, r
    <3>2. p.w = p.world /\ Here(p) \notin states /\ Here(p) = <<p.w, p.time>>
      BY <2>6, <3>1 DEF Here
    <3> QED
      BY <2>1, <2>3, <3>1, <3>2, InsertSound
  <2>8. ASSUME PhaseSplitsLeft(h) \/ PhaseSplitsRight(h) PROVE Sound'
    <3> DEFINE m == Median(<<p.w, p.s>>, p.time)
               right == <<p.world, m>>
    <3>1. /\ ~Diverges(p, p.w) /\ Splits(<<p.w, p.s>>, Super(p.w), p.time)
          /\ states' = states \cup {Here(p)}
          /\ stateMarks' = Plus(Plus(stateMarks, Here(p), Put(Here(p) \in states)),
                                <<p.w, p.t>>, -1)
          /\ InsertAndSplit(p.world, <<p.w, p.s>>, Super(p.w), p.time, FALSE)
          /\ UNCHANGED <<parent, order, orderMarks>>
          /\ \/ /\ treeMarks' = Plus(treeMarks, right, Put(tree[right] # {}) - 1)
                /\ Resolve(h, p.world, p.s, p.time,
                           orderMagic, magic'[Super(p.w)], magic'[<<p.w, p.s>>])
             \/ /\ treeMarks' = Plus(Plus(treeMarks, <<p.w, p.s>>, -1), right,
                                     Put(tree[right] # {}))
                /\ Resolve(h, p.world, m, p.time,
                           orderMagic, magic'[right], magic'[<<p.w, p.s>>])
      BY <2>2, <2>4, <2>8 DEF PhaseSplitsLeft, PhaseSplitsRight, CloneState, r
    <3>2. p.w = p.world /\ Here(p) \notin states /\ Here(p) = <<p.w, p.time>>
      BY <2>6, <3>1 DEF Here
    <3>3. m \in Times
      BY <2>3, <3>1, SplitKeepsIndex DEF IInv
    <3> HIDE DEF m
    <3>4. right \in Trees /\ <<p.w, p.s>> \in Trees
      BY <2>3, <3>3, TreesAre
    <3>5. ASSUME NEW b \in {p.s, m},
                 tree[right] = {} => \A k \in Trees :
                   treeMarks'[k] = treeMarks[k] - One(k = <<p.w, p.s>>) + One(k = <<p.w, b>>),
                 NEW mw, NEW ms, NEW mt, Resolve(h, p.world, b, p.time, mw, ms, mt)
          PROVE  Sound'
      <4>1. FALSE \in BOOLEAN
        OBVIOUS
      <4>2. /\ Splits(<<p.w, p.s>>, Super(p.w), p.time)
            /\ InsertAndSplit(p.w, <<p.w, p.s>>, Super(p.w), p.time, FALSE)
            /\ states' = states \cup {<<p.w, p.time>>} /\ <<p.w, p.time>> \notin states
            /\ stateMarks' = Plus(Plus(stateMarks, <<p.w, p.time>>,
                                       Put(<<p.w, p.time>> \in states)), <<p.w, p.t>>, -1)
            /\ UNCHANGED <<parent, order, orderMarks>>
            /\ Resolve(h, p.w, b, p.time, mw, ms, mt)
        BY <3>1, <3>2, <3>5
      <4>3. m = Median(<<p.w, p.s>>, p.time) /\ b \in {p.s, m}
        BY DEF m
      <4>4. tree[<<p.w, m>>] = {} => \A k \in Trees :
              treeMarks'[k] = treeMarks[k] - One(k = <<p.w, p.s>>) + One(k = <<p.w, b>>)
        BY <3>2, <3>5
      <4> HIDE DEF p
      <4> QED
        BY <2>1, <2>3, <4>1, <4>2, <4>3, <4>4, SplitSound, ZenonT(60) DEF p
    <3>6. CASE /\ treeMarks' = Plus(treeMarks, right, Put(tree[right] # {}) - 1)
               /\ Resolve(h, p.world, p.s, p.time,
                          orderMagic, magic'[Super(p.w)], magic'[<<p.w, p.s>>])
      BY <3>4, <3>5, <3>6, SplitMarks
    <3>7. CASE /\ treeMarks' = Plus(Plus(treeMarks, <<p.w, p.s>>, -1), right,
                                    Put(tree[right] # {}))
               /\ Resolve(h, p.world, m, p.time,
                          orderMagic, magic'[right], magic'[<<p.w, p.s>>])
      BY <3>2, <3>4, <3>5, <3>7, SplitMarks
    <3> QED
      BY <3>1, <3>6, <3>7
  <2>9. CASE PhaseDiverges(h)
    <3>1. /\ Diverges(p, p.w)
          /\ states' = states \cup {Here(p)}
          /\ stateMarks' = Plus(Plus(stateMarks, Here(p), Put(Here(p) \in states)),
                                <<p.w, p.t>>, -1)
          /\ NewTimeline(p.world, p.time)
          /\ treeMarks' = Moved(Moved(treeMarks, Super(p.w), Super(p.world)),
                                <<p.w, p.s>>, Here(p))
          /\ Resolve(h, p.world, p.time, p.time,
                     orderMagic', magic'[Super(p.world)], magic'[Here(p)])
          /\ UNCHANGED <<parent, orderMarks>>
      BY <2>2, <2>4, <2>9 DEF PhaseDiverges, CloneState, r
    <3> QED
      BY <2>3, <2>6, <3>1, TimelineSound DEF Here
  <2> QED
    BY <2>5, <2>7, <2>8, <2>9 DEF Phase
<1> QED
  BY <1>1, <1>2

(* newState by a careful caller: the trees the handle resolved before are  *)
(* still the ones its time belongs to.                                     *)
LEMMA NewStateSound ==
  ASSUME IInv, Sound, NEW h \in Handles, NEW t \in Times, MayAdd(h, t), NewState(h, t),
         Current(h), ~EarlyWrite(h), ~Refused(handle[h], t)
  PROVE  Sound'
<1> DEFINE p == handle[h]
           n == <<p.world, t>>
<1>1. Live(h) /\ p.t <= t /\ t <= p.time /\ p.s <= t
  BY AddsIs
<1>2. /\ p.world \in Worlds /\ p.w \in Worlds /\ p.s \in Times /\ p.t \in Times
      /\ p.time \in Times /\ p.t \in Nat /\ t \in Nat
  BY <1>1, HandleIs, TimesAre DEF IInv
<1>3. /\ ~TreesMissing(p) /\ <<p.w, p.t>> \in states
      /\ \A y \in Times : <<p.w, y>> \in states /\ y <= p.time => y <= p.t
  BY <1>1, CurrentIs
<1>4. ~NewRefused(h, t) /\ ~NewMisses(h, t)
  BY <1>3 DEF NewRefused, NewMisses
<1>5. CASE NewThere(h, t)
  <2>1. UNCHANGED <<index, states, marks, handle>> /\ \A w \in Worlds : Exists(w) => Exists(w)'
    BY <1>5 DEF NewThere, Exists
  <2> QED
    BY <2>1, SoundStays
<1>6. ASSUME Creates(h, t), ~Diverges(p, p.w) PROVE p.w = p.world /\ n \notin states
  <2>1. p.w = p.world /\ <<p.w, p.t>> # n
    BY <1>1, <1>6, WriteIs DEF Creates
  <2>2. t # p.t
    BY <2>1
  <2>3. ~(t <= p.t)
    BY <1>1, <1>2, <2>2
  <2> QED
    BY <1>1, <1>3, <2>1, <2>3
<1>7. CASE NewInserts(h, t)
  <2>1. /\ Creates(h, t) /\ ~Diverges(p, p.w) /\ ~Splits(<<p.w, p.s>>, Super(p.w), t)
        /\ states' = states \cup {n}
        /\ stateMarks' = Plus(Plus(stateMarks, n, Put(n \in states)), <<p.w, p.t>>, -1)
        /\ Insert(<<p.w, p.s>>, t)
        /\ treeMarks' = treeMarks
        /\ Resolve(h, p.world, p.s, t, orderMagic, magic[Super(p.w)], magic'[<<p.w, p.s>>])
        /\ UNCHANGED <<parent, order, orderMarks>>
    BY <1>7 DEF NewInserts, PutState
  <2>2. p.w = p.world /\ n \notin states /\ n = <<p.w, t>>
    BY <1>6, <2>1
  <2> QED
    BY <1>1, <1>2, <2>1, <2>2, InsertSound
<1>8. CASE NewSplits(h, t)
  <2> DEFINE m == Median(<<p.w, p.s>>, t)
             right == <<p.world, m>>
  <2>1. /\ Creates(h, t) /\ ~Diverges(p, p.w) /\ Splits(<<p.w, p.s>>, Super(p.w), t)
        /\ states' = states \cup {n}
        /\ stateMarks' = Plus(Plus(stateMarks, n, Put(n \in states)), <<p.w, p.t>>, -1)
        /\ InsertAndSplit(p.world, <<p.w, p.s>>, Super(p.w), t, TRUE)
        /\ UNCHANGED <<parent, order, orderMarks>>
        /\ \/ /\ treeMarks' = Plus(treeMarks, right, Put(tree[right] # {}) - 1)
              /\ Resolve(h, p.world, p.s, t,
                         orderMagic, magic'[Super(p.w)], magic'[<<p.w, p.s>>])
           \/ /\ treeMarks' = Plus(Plus(treeMarks, <<p.w, p.s>>, -1), right,
                                   Put(tree[right] # {}))
              /\ Resolve(h, p.world, m, t,
                         orderMagic, magic'[right], magic'[<<p.w, p.s>>])
    BY <1>8 DEF NewSplits, PutState
  <2>2. p.w = p.world /\ n \notin states /\ n = <<p.w, t>>
    BY <1>6, <2>1
  <2>3. m \in Times
    BY <1>1, <1>2, <2>1, SplitKeepsIndex DEF IInv
  <2> HIDE DEF m
  <2>4. right \in Trees /\ <<p.w, p.s>> \in Trees
    BY <1>2, <2>3, TreesAre
  <2>5. ASSUME NEW b \in {p.s, m},
               tree[right] = {} => \A k \in Trees :
                 treeMarks'[k] = treeMarks[k] - One(k = <<p.w, p.s>>) + One(k = <<p.w, b>>),
               NEW mw, NEW ms, NEW mt, Resolve(h, p.world, b, t, mw, ms, mt)
        PROVE  Sound'
    <3>1. TRUE \in BOOLEAN
      OBVIOUS
    <3>2. /\ Splits(<<p.w, p.s>>, Super(p.w), t)
          /\ InsertAndSplit(p.w, <<p.w, p.s>>, Super(p.w), t, TRUE)
          /\ states' = states \cup {<<p.w, t>>} /\ <<p.w, t>> \notin states
          /\ stateMarks' = Plus(Plus(stateMarks, <<p.w, t>>, Put(<<p.w, t>> \in states)),
                                <<p.w, p.t>>, -1)
          /\ UNCHANGED <<parent, order, orderMarks>>
          /\ Resolve(h, p.w, b, t, mw, ms, mt)
      BY <2>1, <2>2, <2>5
    <3>3. m = Median(<<p.w, p.s>>, t) /\ b \in {p.s, m}
      BY DEF m
    <3>4. tree[<<p.w, m>>] = {} => \A k \in Trees :
            treeMarks'[k] = treeMarks[k] - One(k = <<p.w, p.s>>) + One(k = <<p.w, b>>)
      BY <2>2, <2>5
    <3> HIDE DEF p
    <3> QED
      BY <1>1, <1>2, <3>1, <3>2, <3>3, <3>4, SplitSound, ZenonT(60) DEF p
  <2>6. CASE /\ treeMarks' = Plus(treeMarks, right, Put(tree[right] # {}) - 1)
             /\ Resolve(h, p.world, p.s, t,
                        orderMagic, magic'[Super(p.w)], magic'[<<p.w, p.s>>])
    BY <2>4, <2>5, <2>6, SplitMarks
  <2>7. CASE /\ treeMarks' = Plus(Plus(treeMarks, <<p.w, p.s>>, -1), right,
                                  Put(tree[right] # {}))
             /\ Resolve(h, p.world, m, t,
                        orderMagic, magic'[right], magic'[<<p.w, p.s>>])
    BY <2>2, <2>4, <2>5, <2>7, SplitMarks
  <2> QED
    BY <2>1, <2>6, <2>7
<1>9. CASE NewDiverges(h, t)
  <2>1. /\ Diverges(p, p.w)
        /\ states' = states \cup {n}
        /\ stateMarks' = Plus(Plus(stateMarks, n, Put(n \in states)), <<p.w, p.t>>, -1)
        /\ NewTimeline(p.world, t)
        /\ treeMarks' = Moved(Moved(treeMarks, Super(p.w), Super(p.world)),
                              <<p.w, p.s>>, n)
        /\ Resolve(h, p.world, t, t, orderMagic', magic'[Super(p.world)], magic'[n])
        /\ UNCHANGED <<parent, orderMarks>>
    BY <1>9 DEF NewDiverges, PutState
  <2> QED
    BY <1>1, <1>2, <2>1, TimelineSound DEF Diverges
<1> QED
  BY <1>4, <1>5, <1>7, <1>8, <1>9 DEF NewState

-----------------------------------------------------------------------------
(* The invariant of careful use, and what follows from it.                 *)

LEMMA InitIsSound == Init => Sound
<1> SUFFICES ASSUME Init PROVE Sound
  OBVIOUS
<1>1. Alive = {} /\ \A n : StateHolders(n) = {} /\ TreeHolders(n) = {}
  BY DEF Init, Alive, Live, StateHolders, TreeHolders
<1>2. \A w \in Worlds : tree[Super(w)] = {} /\ \A s \in Times : tree[<<w, s>>] = {}
  BY TreesAre DEF Init
<1>3. Parted /\ HandlesPlaced
  BY <1>1, <1>2 DEF Init, Parted, HandlesPlaced
<1>4. TreesSplit
  <2>1. Cardinality({}) = 0 /\ Threshold(0) >= 2 /\ Threshold(0) \in Nat
    BY FS_EmptySet, ThresholdIsTwo, ThresholdGrows
  <2>2. 0 < Threshold(0)
    BY <2>1
  <2> QED
    BY <1>2, <2>1, <2>2 DEF TreesSplit
<1>5. MarksBalanced
  BY <1>1, FS_EmptySet DEF Init, MarksBalanced
<1> QED
  BY <1>3, <1>4, <1>5 DEF Sound

LEMMA NextKeepsSInv == SInv /\ [Next]_vars => SInv'
<1> SUFFICES ASSUME SInv, [Next]_vars, ~strayed' PROVE Sound'
  BY NextKeepsIInv DEF SInv
<1>1. IInv
  BY DEF SInv
<1>2. CASE UNCHANGED vars
  <2>1. Sound
    BY <1>2 DEF SInv, vars
  <2>2. UNCHANGED <<index, states, marks, handle>> /\ \A w \in Worlds : Exists(w) => Exists(w)'
    BY <1>2 DEF vars, index, marks, Exists
  <2> QED
    BY <1>1, <2>1, <2>2, SoundStays
<1>3. ASSUME NEW w \in Worlds, NEW child \in Worlds, Fork(w, child), Strays(FALSE)
      PROVE  Sound'
  <2>1. Sound
    BY <1>3 DEF SInv, Strays
  <2> QED
    BY <1>1, <1>3, <2>1, ForkSound
<1>4. ASSUME NEW h \in Handles, NEW w \in Worlds, NEW t \in Times,
             NewNode(h, w, t) \/ Lookup(h, w, t), Strays(FALSE)
      PROVE  Sound'
  <2>1. Sound
    BY <1>4 DEF SInv, Strays
  <2> QED
    BY <1>1, <1>4, <2>1, NewNodeSound, LookupSound
<1>5. ASSUME NEW h \in Handles, Free(h), Strays(FALSE)
      PROVE  Sound'
  <2>1. Sound
    BY <1>5 DEF SInv, Strays
  <2> QED
    BY <1>1, <1>5, <2>1, FreeSound
<1>6. ASSUME NEW h \in Handles, MayRead(h), Get(h), Strays(StaleRead(h))
      PROVE  Sound'
  <2>1. Sound /\ ~StaleRead(h) /\ Live(h)
    BY <1>6 DEF SInv, Strays, MayRead, MayCall
  <2> QED
    BY <1>1, <1>6, <2>1, GetSound
<1>7. ASSUME NEW h \in Handles, MayWrite(h), Phase(h),
             Strays(~Exact(handle[h]) /\ (StaleWrite(h) \/ EarlyWrite(h)))
      PROVE  Sound'
  <2>1. Sound /\ Live(h) /\ (~Exact(handle[h]) => Current(h) /\ ~EarlyWrite(h))
    BY <1>7 DEF SInv, Strays, MayWrite, MayCall, StaleWrite
  <2> QED
    BY <1>1, <1>7, <2>1, PhaseSound
<1>8. ASSUME NEW h \in Handles, NEW t \in Times, MayAdd(h, t), NewState(h, t),
             Strays(StaleWrite(h) \/ EarlyWrite(h) \/ Refused(handle[h], t)
                    \/ OuterTime(h, t))
      PROVE  Sound'
  <2>1. Sound /\ Current(h) /\ ~EarlyWrite(h) /\ ~Refused(handle[h], t)
    BY <1>8 DEF SInv, Strays, StaleWrite
  <2> QED
    BY <1>1, <1>8, <2>1, NewStateSound
<1>9. ASSUME NEW h \in Handles, NEW copy \in Handles, Clone(h, copy),
             Strays(~Exact(handle[h]))
      PROVE  Sound'
  <2>1. Sound /\ Exact(handle[h])
    BY <1>9 DEF SInv, Strays
  <2> QED
    BY <1>1, <1>9, <2>1, CloneSound
<1> QED
  BY <1>2, <1>3, <1>4, <1>5, <1>6, <1>7, <1>8, <1>9 DEF Next

LEMMA SoundInvariance ==
  ASSUME InnerTimes
  PROVE  Spec => []SInv
<1>1. Init => SInv
  BY InitEstablishesIInv, InitIsSound DEF SInv
<1>2. SInv /\ [Next]_vars => SInv'
  BY NextKeepsSInv
<1> QED
  BY <1>1, <1>2, PTL DEF Spec

(* The marks follow the resolutions, and the trees part the states, as     *)
(* long as no call has been careless otherwise than by reading a node on   *)
(* after it followed a split: whatever else Careless lets the callers do   *)
(* later, and whatever the magics, which count each chunk on its own, say. *)
THEOREM MarksFollowTheSplits ==
  ASSUME InnerTimes
  PROVE  Spec => []MarksFollowSplits
<1>1. SInv => MarksFollowSplits
  BY PartedIsEnough DEF SInv, Sound, MarksFollowSplits
<1> QED
  BY <1>1, SoundInvariance, PTL

(* Callers who take care never stray.                                      *)
LEMMA CarefulNeverStray ==
  ASSUME Careless = {}
  PROVE  Spec => []~strayed
<1>1. Init => ~strayed
  BY DEF Init
<1>2. ~strayed /\ [Next]_vars => ~strayed'
  <2> SUFFICES ASSUME ~strayed, [Next]_vars PROVE ~strayed'
    OBVIOUS
  <2>1. \A thing : Careful(thing)
    BY DEF Careful
  <2>2. CASE UNCHANGED vars
    BY <2>2 DEF vars
  <2>3. ASSUME Strays(FALSE) PROVE ~strayed'
    BY <2>3 DEF Strays
  <2>4. ASSUME NEW h \in Handles, MayRead(h), Strays(StaleRead(h)) PROVE ~strayed'
    BY <2>1, <2>4 DEF Strays, MayRead
  <2>5. ASSUME NEW h \in Handles, MayWrite(h),
               Strays(~Exact(handle[h]) /\ (StaleWrite(h) \/ EarlyWrite(h)))
        PROVE  ~strayed'
    BY <2>1, <2>5 DEF Strays, MayWrite, MayInsert
  <2>6. ASSUME NEW h \in Handles, NEW t \in Times, MayAdd(h, t),
               Strays(StaleWrite(h) \/ EarlyWrite(h) \/ Refused(handle[h], t)
                      \/ OuterTime(h, t))
        PROVE  ~strayed'
    BY <2>1, <2>6 DEF Strays, MayAdd, MayInsert
  <2>7. ASSUME NEW h \in Handles, MayClone(h), Strays(~Exact(handle[h])) PROVE ~strayed'
    BY <2>1, <2>7 DEF Strays, MayClone
  <2> QED
    BY <2>2, <2>3, <2>4, <2>5, <2>6, <2>7 DEF Next
<1> QED
  BY <1>1, <1>2, PTL DEF Spec

LEMMA CarefulIsSound ==
  ASSUME Careless = {}
  PROVE  Spec => [](IInv /\ ~strayed /\ Sound)
<1>1. InnerTimes
  BY DEF InnerTimes, Careful
<1> QED
  BY <1>1, CarefulNeverStray, SoundInvariance, PTL DEF SInv

(* With careful callers every chunk of the node always carries one mark    *)
(* for each Node object that refers to it: none is evicted under a live    *)
(* Node object, and none is kept when the last one is freed.               *)
THEOREM MarksAreBalanced ==
  ASSUME Careless = {}
  PROVE  Spec => []MarksBalanced
BY CarefulIsSound, PTL DEF Sound

(* With careful callers the super tree of every world always leads to the  *)
(* one time tree that holds a state, whatever was split in between.        *)
THEOREM TreesAlwaysPartStates ==
  ASSUME Careless = {}
  PROVE  Spec => []TreesPartStates
<1>1. IInv /\ Sound => TreesPartStates
  BY PartedIsEnough DEF Sound
<1> QED
  BY <1>1, CarefulIsSound, PTL

(* With careful callers no time tree ever outgrows the threshold, although *)
(* it is only compared for equality and grows with the super tree.         *)
THEOREM TreesAreSplit ==
  ASSUME Careless = {}
  PROVE  Spec => []TreesSplit
BY CarefulIsSound, PTL DEF Sound

-----------------------------------------------------------------------------
(* The magics.                                                             *)

\* A chunk that somebody refers to does not change without being counted.
Counted ==
  /\ orderMagic <= orderMagic' /\ (orderMagic' = orderMagic => order' = order)
  /\ \A k \in Trees : tree[k] # {} =>
       magic[k] <= magic'[k] /\ (magic'[k] = magic[k] => tree'[k] = tree[k])

\* The magics a node read with are not ahead of the chunks, unless it has
\* followed a split since; and when nothing was counted, nothing changed.
Tells(h) ==
  LET p == handle[h] IN
  ~Exact(p) /\ h \notin followed =>
    /\ p.mw <= orderMagic /\ p.ms <= magic[Super(p.w)] /\ p.mt <= magic[<<p.w, p.s>>]
    /\ Same(p) => Current(h)

MagicsTell == \A h \in Alive : Tells(h)

\* No world that is there gets another parent.
Rooted == \A v \in Worlds : Exists(v) => parent'[v] = parent[v]

LEMMA AddedCounts ==
  ASSUME IInv, NEW k \in Trees, NEW S \in SUBSET Times
  PROVE  Added(k, S) \in Nat /\ (Added(k, S) = 0 => tree[k] \cup S = tree[k])
<1>1. S \ tree[k] \in SUBSET Times
  OBVIOUS
<1>2. IsFiniteSet(S \ tree[k]) /\ Added(k, S) \in Nat
  BY <1>1, TimesAre, AddedTyped DEF Added
<1>3. Added(k, S) = 0 => S \ tree[k] = {}
  BY <1>2, FS_EmptySet DEF Added
<1> QED
  BY <1>2, <1>3

LEMMA InsertCounts ==
  ASSUME IInv, NEW k \in Trees, NEW t \in Times, Insert(k, t),
         UNCHANGED <<order, orderMagic>>
  PROVE  Counted
<1>1. \A j \in Trees : /\ tree'[j] = IF j = k THEN tree[k] \cup {t} ELSE tree[j]
                       /\ magic'[j] = IF j = k THEN magic[k] + Added(k, {t}) ELSE magic[j]
  BY DEF Insert, Plus, IInv, TypeOK
<1>2. Added(k, {t}) \in Nat /\ (Added(k, {t}) = 0 => tree[k] \cup {t} = tree[k])
  BY AddedCounts
<1>3. magic \in [Trees -> Nat] /\ orderMagic \in Nat
  BY DEF IInv, TypeOK
<1> QED
  BY <1>1, <1>2, <1>3 DEF Counted

LEMMA TimelineCounts ==
  ASSUME IInv, NEW w \in Worlds, NEW t \in Times, NewTimeline(w, t)
  PROVE  Counted
<1> DEFINE k == <<w, t>>
           sk == Super(w)
<1>1. k \in Trees /\ sk \in Trees /\ k # sk
  BY TreesAre
<1> HIDE DEF k, sk
<1>2. /\ tree' = [tree EXCEPT ![sk] = @ \cup {t}, ![k] = @ \cup {t}]
      /\ magic' = [magic EXCEPT ![sk] = @ + Added(sk, {t}), ![k] = @ + Added(k, {t})]
      /\ orderMagic' = orderMagic + 1
  BY DEF NewTimeline, k, sk
<1>3. magic \in [Trees -> Nat] /\ orderMagic \in Nat /\ tree \in [Trees -> SUBSET Times]
  BY DEF IInv, TypeOK
<1>4. \A j \in Trees :
        /\ tree'[j] = IF j \in {k, sk} THEN tree[j] \cup {t} ELSE tree[j]
        /\ magic'[j] = IF j \in {k, sk} THEN magic[j] + Added(j, {t}) ELSE magic[j]
  BY <1>1, <1>2, <1>3
<1>5. \A j \in Trees : Added(j, {t}) \in Nat /\ (Added(j, {t}) = 0 => tree[j] \cup {t} = tree[j])
  BY AddedCounts
<1>6. ASSUME NEW j \in Trees
      PROVE  magic[j] <= magic'[j] /\ (magic'[j] = magic[j] => tree'[j] = tree[j])
  <2>1. magic[j] \in Nat
    BY <1>3
  <2>2. CASE j \in {k, sk}
    <3>1. tree'[j] = tree[j] \cup {t} /\ magic'[j] = magic[j] + Added(j, {t})
      BY <1>4, <2>2
    <3>2. Added(j, {t}) \in Nat /\ (Added(j, {t}) = 0 => tree[j] \cup {t} = tree[j])
      BY <1>5
    <3> QED
      BY <2>1, <3>1, <3>2
  <2>3. CASE j \notin {k, sk}
    <3>1. tree'[j] = tree[j] /\ magic'[j] = magic[j]
      BY <1>4, <2>3
    <3> QED
      BY <2>1, <3>1
  <2> QED
    BY <2>2, <2>3
<1>7. orderMagic <= orderMagic' /\ orderMagic' # orderMagic
  BY <1>2, <1>3
<1> QED
  BY <1>6, <1>7 DEF Counted

LEMMA SplitCounts ==
  ASSUME IInv, NEW w \in Worlds, NEW s \in Times, NEW t \in Times, NEW counted \in BOOLEAN,
         NEW m \in Times, m = Median(<<w, s>>, t), m # s, tree[<<w, m>>] = {},
         InsertAndSplit(w, <<w, s>>, Super(w), t, counted),
         UNCHANGED <<order, orderMagic>>
  PROVE  Counted
<1> DEFINE k == <<w, s>>
           sk == Super(w)
           right == <<w, m>>
           up == Upper(k, t)
<1>1. k \in Trees /\ sk \in Trees /\ right \in Trees /\ k # sk /\ k # right /\ right # sk
  BY TreesAre
<1>2. /\ tree' = [tree EXCEPT ![right] = @ \cup up, ![k] = (@ \cup {t}) \ up,
                              ![sk] = @ \cup {m}]
      /\ magic' = [magic EXCEPT ![k] = @ + Added(k, {t}) + 1,
                            ![right] = @ + IF counted THEN Added(right, up) ELSE 0,
                            ![sk] = @ + Added(sk, {m})]
      /\ tree[right] = {}
  BY DEF InsertAndSplit
<1> HIDE DEF k, sk, right, up
<1>3. magic \in [Trees -> Nat] /\ orderMagic \in Nat /\ tree \in [Trees -> SUBSET Times]
  BY DEF IInv, TypeOK
<1>4. /\ magic'[k] = magic[k] + Added(k, {t}) + 1
      /\ magic'[sk] = magic[sk] + Added(sk, {m}) /\ tree'[sk] = tree[sk] \cup {m}
      /\ \A j \in Trees \ {k, sk, right} : magic'[j] = magic[j] /\ tree'[j] = tree[j]
  BY <1>1, <1>2, <1>3
<1>5. /\ Added(k, {t}) \in Nat
      /\ Added(sk, {m}) \in Nat /\ (Added(sk, {m}) = 0 => tree[sk] \cup {m} = tree[sk])
  BY <1>1, AddedCounts
<1>6. ASSUME NEW j \in Trees, tree[j] # {}
      PROVE  magic[j] <= magic'[j] /\ (magic'[j] = magic[j] => tree'[j] = tree[j])
  <2>1. j # right
    BY <1>2, <1>6
  <2>2. magic[j] \in Nat
    BY <1>3
  <2>3. CASE j = k
    BY <1>1, <1>4, <1>5, <2>2, <2>3
  <2>4. CASE j = sk
    <3>1. magic'[j] = magic[j] => Added(sk, {m}) = 0
      BY <1>4, <1>5, <2>2, <2>4
    <3>2. magic[j] <= magic'[j]
      BY <1>4, <1>5, <2>2, <2>4
    <3> QED
      BY <1>4, <1>5, <2>4, <3>1, <3>2
  <2>5. CASE j \notin {k, sk, right}
    BY <1>4, <2>2, <2>5
  <2> QED
    BY <2>1, <2>3, <2>4, <2>5
<1> QED
  BY <1>3, <1>6 DEF Counted

LEMMA ClimbEndsAfter ==
  ASSUME Forest', NEW w \in Worlds, NEW t \in Times
  PROVE  \E f : f = [v \in Worlds \cup {NoWorld} |->
                      IF v = NoWorld THEN w
                      ELSE IF order'[v] # Null /\ order'[v] <= t THEN v
                      ELSE f[parent'[v]]]
<1>1. Grounded(Worlds, NoWorld, parent') /\ NoWorld \notin Worlds
  BY ForestIsGrounded, ResolverAssumption
<1> DEFINE stop == {v \in Worlds : order'[v] # Null /\ order'[v] <= t}
           last == [v \in Worlds \cup {NoWorld} |-> IF v = NoWorld THEN w ELSE v]
<1>2. last \in [Worlds \cup {NoWorld} -> Worlds]
  OBVIOUS
<1> HIDE DEF stop, last
<1>3. PICK f : f \in Climbers(Worlds, NoWorld, parent', stop, last, Worlds)
  BY <1>1, <1>2, ClimbersExist
<1>4. /\ f \in [Worlds \cup {NoWorld} -> Worlds]
      /\ \A v \in Worlds \cup {NoWorld} :
           f[v] = IF v = NoWorld \/ v \in stop THEN last[v] ELSE f[parent'[v]]
  BY <1>3 DEF Climbers
<1>5. \A v \in Worlds \cup {NoWorld} :
        f[v] = IF v = NoWorld THEN w
               ELSE IF order'[v] # Null /\ order'[v] <= t THEN v
               ELSE f[parent'[v]]
  BY <1>1, <1>4 DEF stop, last
<1> QED
  BY <1>4, <1>5

(* Worlds that are forked below others do not change what those resolve to.*)
LEMMA ClimbStays ==
  ASSUME Forest, Forest', Rooted, order' = order,
         NEW w \in Worlds, Exists(w), NEW t \in Times
  PROVE  ResolveWorld(w, t)' = ResolveWorld(w, t)
<1> DEFINE g == CHOOSE g : g = [v \in Worlds \cup {NoWorld} |->
        IF v = NoWorld THEN w
        ELSE IF order[v] # Null /\ order[v] <= t THEN v
        ELSE g[parent[v]]]
           f == CHOOSE f : f = [v \in Worlds \cup {NoWorld} |->
        IF v = NoWorld THEN w
        ELSE IF order'[v] # Null /\ order'[v] <= t THEN v
        ELSE f[parent'[v]]]
<1>1. g = [v \in Worlds \cup {NoWorld} |->
        IF v = NoWorld THEN w
        ELSE IF order[v] # Null /\ order[v] <= t THEN v
        ELSE g[parent[v]]]
  BY ClimbEnds DEF Climb
<1>2. f = [v \in Worlds \cup {NoWorld} |->
        IF v = NoWorld THEN w
        ELSE IF order'[v] # Null /\ order'[v] <= t THEN v
        ELSE f[parent'[v]]]
  BY ClimbEndsAfter
<1>3. ResolveWorld(w, t) = g[w] /\ ResolveWorld(w, t)' = f[w]
  BY DEF ResolveWorld
<1> HIDE DEF f, g
<1>4. /\ Grounded(Worlds, NoWorld, parent) /\ NoWorld \notin Worlds
      /\ parent \in [Worlds -> Worlds \cup {NoWorld}]
      /\ \A v \in Worlds : parent[v] # NoWorld => Exists(parent[v])
  BY ForestIsGrounded, ResolverAssumption DEF Forest
<1> DEFINE bad == {v \in Worlds : Exists(v) /\ g[v] # f[v]}
<1>5. ASSUME NEW v \in bad PROVE parent[v] \in bad
  <2>1. parent'[v] = parent[v] /\ v \in Worlds /\ g[v] # f[v]
    BY DEF Rooted
  <2>2. g[v] = g[parent[v]] /\ f[v] = f[parent[v]]
    BY <1>1, <1>2, <1>4, <2>1
  <2>3. g[NoWorld] = f[NoWorld]
    BY <1>1, <1>2
  <2> QED
    BY <1>4, <2>1, <2>2, <2>3
<1>6. bad = {}
  <2>1. bad \in SUBSET Worlds
    OBVIOUS
  <2> HIDE DEF bad
  <2> QED
    BY <1>4, <1>5, <2>1, NoneClimbs
<1> QED
  BY <1>3, <1>6

(* What a lookup finds stays what it finds, as long as the trees it went   *)
(* through stay the same.                                                  *)
LEMMA ResolutionStays ==
  ASSUME NEW w, NEW t, NEW v, NEW s, NEW x, s # Null,
         Resolution(w, t) = [w |-> v, s |-> s, t |-> x],
         ResolveWorld(w, t)' = ResolveWorld(w, t),
         tree'[Super(v)] = tree[Super(v)], tree'[<<v, s>>] = tree[<<v, s>>]
  PROVE  Resolution(w, t)' = [w |-> v, s |-> s, t |-> x]
<1>1. /\ ResolveWorld(w, t) = v /\ PreviousOrEqual(tree[Super(v)], t) = s
      /\ PreviousOrEqual(tree[<<v, s>>], t) = x
  BY DEF Resolution
<1> QED
  BY <1>1 DEF Resolution, Super

LEMMA CurrentStays ==
  ASSUME IInv, IInv', Rooted, Counted, HandlesPlaced, Parted,
         NEW h \in Handles, Live(h), handle'[h] = handle[h], Tells(h),
         h \in followed => h \in followed'
  PROVE  Tells(h)'
<1>0. PICK p : p = handle[h] /\ p = handle'[h]
  OBVIOUS
<1>1. /\ p.world \in Worlds /\ p.time \in Times /\ p.w \in Worlds /\ p.s \in Times
      /\ p.mw \in Int /\ p.ms \in Int /\ p.mt \in Int
      /\ Exists(p.world) /\ p.s \in tree[Super(p.w)]
  BY <1>0, HandleIs DEF IInv, HandlesPlaced, Alive
<1>2. tree[Super(p.w)] # {} /\ tree[<<p.w, p.s>>] # {}
  BY <1>1 DEF Parted
<1>3. Super(p.w) \in Trees /\ <<p.w, p.s>> \in Trees /\ p.s # Null
  BY <1>1, TreesAre, TimesAre
<1>4. SUFFICES ASSUME ~Exact(p), h \notin followed
      PROVE  /\ p.mw <= orderMagic' /\ p.ms <= magic'[Super(p.w)]
             /\ p.mt <= magic'[<<p.w, p.s>>]
             /\ (p.mw = orderMagic' /\ p.ms = magic'[Super(p.w)]
                  /\ p.mt = magic'[<<p.w, p.s>>]) => Current(h)'
  BY <1>0 DEF Tells, Exact, Same, Super
<1>5. /\ p.mw <= orderMagic /\ p.ms <= magic[Super(p.w)] /\ p.mt <= magic[<<p.w, p.s>>]
      /\ Same(p) => Current(h)
  BY <1>0, <1>4 DEF Tells
<1>6. /\ orderMagic <= orderMagic' /\ (orderMagic' = orderMagic => order' = order)
      /\ \A k \in {Super(p.w), <<p.w, p.s>>} :
           magic[k] <= magic'[k] /\ (magic'[k] = magic[k] => tree'[k] = tree[k])
  BY <1>2, <1>3 DEF Counted
<1>7. /\ orderMagic \in Int /\ orderMagic' \in Int
      /\ magic \in [Trees -> Int] /\ magic' \in [Trees -> Int]
  BY DEF IInv, TypeOK
<1>8. /\ p.mw <= orderMagic' /\ p.ms <= magic'[Super(p.w)]
      /\ p.mt <= magic'[<<p.w, p.s>>]
  BY <1>1, <1>3, <1>5, <1>6, <1>7
<1>9. ASSUME p.mw = orderMagic', p.ms = magic'[Super(p.w)], p.mt = magic'[<<p.w, p.s>>]
      PROVE  Current(h)'
  <2>1. Same(p) /\ order' = order
        /\ tree'[Super(p.w)] = tree[Super(p.w)] /\ tree'[<<p.w, p.s>>] = tree[<<p.w, p.s>>]
    BY <1>1, <1>3, <1>5, <1>6, <1>7, <1>9 DEF Same
  <2>2. [w |-> p.w, s |-> p.s, t |-> p.t] = Resolution(p.world, p.time)
    BY <1>0, <1>5, <2>1 DEF Current
  <2>3. ResolveWorld(p.world, p.time)' = ResolveWorld(p.world, p.time)
    BY <1>1, <2>1, ClimbStays DEF IInv
  <2>4. Resolution(p.world, p.time)' = [w |-> p.w, s |-> p.s, t |-> p.t]
    BY <1>3, <2>1, <2>2, <2>3, ResolutionStays
  <2> QED
    BY <1>0, <2>4 DEF Current
<1> QED
  BY <1>8, <1>9

-----------------------------------------------------------------------------
(* What careful calls do to the index: a write of time t through a node    *)
(* goes into its time tree, which may split, or begins a timeline.         *)

InsertsAt(h, t) ==
  LET p == handle[h]  k == <<p.w, p.s>> IN
  /\ p.w = p.world /\ Insert(k, t) /\ UNCHANGED <<order, orderMagic>>
  /\ Resolve(h, p.w, p.s, t, orderMagic, magic[Super(p.w)], magic'[k])

SplitsAt(h, t) ==
  LET p == handle[h]  k == <<p.w, p.s>>  m == Median(k, t) IN
  /\ p.w = p.world /\ Splits(k, Super(p.w), t)
  /\ \E counted \in BOOLEAN : InsertAndSplit(p.w, k, Super(p.w), t, counted)
  /\ UNCHANGED <<order, orderMagic>>
  /\ \/ t < m /\ Resolve(h, p.w, p.s, t, orderMagic, magic'[Super(p.w)], magic'[k])
     \/ Resolve(h, p.w, m, t, orderMagic, magic'[<<p.w, m>>], magic'[k])

BeginsAt(h, t) ==
  LET p == handle[h] IN
  /\ order[p.world] = Null /\ p.w # p.world /\ NewTimeline(p.world, t)
  /\ Resolve(h, p.world, t, t, orderMagic', magic'[Super(p.world)], magic'[<<p.world, t>>])

WritesAt(h, t) ==
  LET p == handle[h]  n == <<p.world, t>> IN
  /\ parent' = parent /\ n \notin states /\ states' = states \cup {n}
  /\ answer' = [world |-> p.world, time |-> t, state |-> n]
  /\ InsertsAt(h, t) \/ SplitsAt(h, t) \/ BeginsAt(h, t)

LEMMA PhaseWrites ==
  ASSUME IInv, Sound, NEW h \in Handles, Live(h), Phase(h),
         ~Exact(handle[h]), Current(h), ~EarlyWrite(h)
  PROVE  WritesAt(h, handle[h].time)
<1> DEFINE p == handle[h]
           r == Rephased(p)
           t == p.time
<1>1. /\ r.w = p.w /\ r.s = p.s /\ r.t = p.t /\ r.k = <<p.w, p.s>>
      /\ ~TreesMissing(p) /\ p.s \in tree[Super(p.w)] /\ <<p.w, p.t>> \in states
      /\ \A y \in Times : <<p.w, y>> \in states /\ y <= p.time => y <= p.t
  BY CurrentIs
<1>2. /\ p.w \in Worlds /\ p.s \in Times /\ p.t \in Times /\ p.time \in Times
      /\ p.t \in Nat /\ p.time \in Nat /\ p.t <= p.time
  BY HandleIs DEF IInv
<1>3. ~InPhase(h) /\ ~Unresolvable(h) /\ ~RephaseFails(h) /\ ~PhaseMisses(h)
  <2>1. tree[<<p.w, p.s>>] # {}
    BY <1>1, <1>2 DEF Sound, Parted
  <2> QED
    BY <1>1, <2>1 DEF InPhase, Unresolvable, RephaseFails, PhaseMisses
<1>4. /\ Diverges(p, p.w) \/ p.w = p.world
      /\ Here(p) = <<p.world, t>> /\ Here(p) \notin states
  <2>1. CASE Diverges(p, p.w)
    BY <1>2, <2>1, WriteIs DEF Here
  <2>2. CASE ~Diverges(p, p.w)
    <3>1. p.w = p.world
      BY <2>2, WriteIs
    <3>2. p.t # t
      BY <3>1 DEF Exact
    <3>3. ~(t <= p.t)
      BY <1>2, <3>2
    <3>4. <<p.w, t>> \notin states
      BY <1>1, <1>2, <3>3
    <3> QED
      BY <3>1, <3>4 DEF Here
  <2> QED
    BY <2>1, <2>2
<1> HIDE DEF r
<1>5. ASSUME CloneState(p, r), parent' = parent,
             InsertsAt(h, t) \/ SplitsAt(h, t) \/ BeginsAt(h, t)
      PROVE  WritesAt(h, t)
  <2>1. states' = states \cup {Here(p)}
        /\ answer' = [world |-> p.world, time |-> t, state |-> Here(p)]
    BY <1>4, <1>5 DEF CloneState, Answer
  <2> QED
    BY <1>4, <1>5, <2>1 DEF WritesAt
<1>6. CASE PhaseInserts(h)
  <2>1. /\ CloneState(p, r) /\ parent' = parent /\ p.w = p.world
        /\ Insert(<<p.w, p.s>>, t) /\ UNCHANGED <<order, orderMagic>>
        /\ Resolve(h, p.world, p.s, t, orderMagic, magic[Super(p.w)], magic'[<<p.w, p.s>>])
    BY <1>1, <1>4, <1>6 DEF PhaseInserts, r
  <2>2. InsertsAt(h, t)
    BY <2>1 DEF InsertsAt
  <2> QED
    BY <1>5, <2>1, <2>2
<1>7. CASE PhaseSplitsLeft(h) \/ PhaseSplitsRight(h)
  <2> DEFINE m == Median(<<p.w, p.s>>, t)
  <2>1. /\ CloneState(p, r) /\ parent' = parent /\ p.w = p.world
        /\ Splits(<<p.w, p.s>>, Super(p.w), t)
        /\ InsertAndSplit(p.world, <<p.w, p.s>>, Super(p.w), t, FALSE)
        /\ UNCHANGED <<order, orderMagic>>
        /\ \/ /\ t < m
              /\ Resolve(h, p.world, p.s, t, orderMagic, magic'[Super(p.w)], magic'[<<p.w, p.s>>])
           \/ Resolve(h, p.world, m, t, orderMagic, magic'[<<p.world, m>>], magic'[<<p.w, p.s>>])
    BY <1>1, <1>4, <1>7 DEF PhaseSplitsLeft, PhaseSplitsRight, r
  <2> HIDE DEF m
  <2>2. \E counted \in BOOLEAN : InsertAndSplit(p.w, <<p.w, p.s>>, Super(p.w), t, counted)
    BY <2>1
  <2>3. SplitsAt(h, t)
    BY <2>1, <2>2 DEF SplitsAt, m
  <2> QED
    BY <1>5, <2>1, <2>3
<1>8. CASE PhaseDiverges(h)
  <2>1. /\ CloneState(p, r) /\ parent' = parent
        /\ p.w # p.world /\ order[p.world] = Null
        /\ NewTimeline(p.world, t)
        /\ Resolve(h, p.world, t, t, orderMagic', magic'[Super(p.world)], magic'[Here(p)])
    BY <1>1, <1>8 DEF PhaseDiverges, Diverges, r
  <2>2. BeginsAt(h, t)
    BY <1>4, <2>1 DEF BeginsAt
  <2> QED
    BY <1>5, <2>1, <2>2
<1> QED
  BY <1>3, <1>6, <1>7, <1>8 DEF Phase

LEMMA NewStateWrites ==
  ASSUME IInv, Sound, NEW h \in Handles, NEW t \in Times, MayAdd(h, t), NewState(h, t),
         Current(h), ~EarlyWrite(h), ~Refused(handle[h], t)
  PROVE  NewThere(h, t) \/ WritesAt(h, t)
<1> DEFINE p == handle[h]
           n == <<p.world, t>>
<1>1. Live(h) /\ p.t <= t /\ t <= p.time /\ At(p, t).world = p.world /\ At(p, t).time = t
  BY AddsIs
<1>2. /\ p.world \in Worlds /\ p.w \in Worlds /\ p.t \in Times /\ p.t \in Nat /\ t \in Nat
  BY <1>1, HandleIs, TimesAre DEF IInv
<1>3. /\ ~TreesMissing(p)
      /\ \A y \in Times : <<p.w, y>> \in states /\ y <= p.time => y <= p.t
  BY <1>1, CurrentIs
<1>4. ~NewRefused(h, t) /\ ~NewMisses(h, t)
  BY <1>3 DEF NewRefused, NewMisses
<1>5. ASSUME Creates(h, t)
      PROVE  n \notin states /\ (Diverges(p, p.w) \/ p.w = p.world)
  <2>1. CASE Diverges(p, p.w)
    BY <1>1, <2>1, WriteIs
  <2>2. CASE ~Diverges(p, p.w)
    <3>1. p.w = p.world /\ <<p.w, p.t>> # n
      BY <1>1, <1>5, <2>2, WriteIs DEF Creates
    <3>2. t # p.t
      BY <3>1
    <3>3. ~(t <= p.t)
      BY <1>1, <1>2, <3>2
    <3> QED
      BY <1>1, <1>3, <3>1, <3>3
  <2> QED
    BY <2>1, <2>2
<1>6. ASSUME Creates(h, t), PutState(p, t), parent' = parent,
             InsertsAt(h, t) \/ SplitsAt(h, t) \/ BeginsAt(h, t)
      PROVE  WritesAt(h, t)
  <2>1. /\ states' = states \cup {n} /\ n \notin states
        /\ answer' = [world |-> p.world, time |-> t, state |-> n]
    BY <1>1, <1>5, <1>6 DEF PutState, Answer
  <2> QED
    BY <1>6, <2>1 DEF WritesAt
<1>7. CASE NewInserts(h, t)
  <2>1. /\ Creates(h, t) /\ PutState(p, t) /\ parent' = parent /\ ~Diverges(p, p.w)
        /\ Insert(<<p.w, p.s>>, t) /\ UNCHANGED <<order, orderMagic>>
        /\ Resolve(h, p.world, p.s, t, orderMagic, magic[Super(p.w)], magic'[<<p.w, p.s>>])
    BY <1>7 DEF NewInserts
  <2>2. InsertsAt(h, t)
    BY <1>5, <2>1 DEF InsertsAt
  <2> QED
    BY <1>6, <2>1, <2>2
<1>8. CASE NewSplits(h, t)
  <2> DEFINE m == Median(<<p.w, p.s>>, t)
  <2>1. /\ Creates(h, t) /\ PutState(p, t) /\ parent' = parent /\ ~Diverges(p, p.w)
        /\ Splits(<<p.w, p.s>>, Super(p.w), t)
        /\ InsertAndSplit(p.world, <<p.w, p.s>>, Super(p.w), t, TRUE)
        /\ UNCHANGED <<order, orderMagic>>
        /\ \/ /\ t < m
              /\ Resolve(h, p.world, p.s, t, orderMagic, magic'[Super(p.w)], magic'[<<p.w, p.s>>])
           \/ Resolve(h, p.world, m, t, orderMagic, magic'[<<p.world, m>>], magic'[<<p.w, p.s>>])
    BY <1>8 DEF NewSplits
  <2>2. p.w = p.world
    BY <1>5, <2>1
  <2> HIDE DEF m
  <2>3. \E counted \in BOOLEAN : InsertAndSplit(p.w, <<p.w, p.s>>, Super(p.w), t, counted)
    BY <2>1, <2>2
  <2>4. SplitsAt(h, t)
    BY <2>1, <2>2, <2>3 DEF SplitsAt, m
  <2> QED
    BY <1>6, <2>1, <2>4
<1>9. CASE NewDiverges(h, t)
  <2>1. /\ Creates(h, t) /\ PutState(p, t) /\ parent' = parent
        /\ p.w # p.world /\ order[p.world] = Null
        /\ NewTimeline(p.world, t)
        /\ Resolve(h, p.world, t, t, orderMagic', magic'[Super(p.world)], magic'[n])
    BY <1>9 DEF NewDiverges, Diverges
  <2>2. BeginsAt(h, t)
    BY <2>1 DEF BeginsAt
  <2> QED
    BY <1>6, <2>1, <2>2
<1> QED
  BY <1>4, <1>7, <1>8, <1>9 DEF NewState

LEMMA CountedWhenStill ==
  ASSUME IInv, UNCHANGED index
  PROVE  Counted
<1>1. /\ order' = order /\ orderMagic' = orderMagic /\ tree' = tree /\ magic' = magic
      /\ orderMagic \in Nat /\ \A k \in Trees : magic[k] \in Nat
  BY DEF index, IInv, TypeOK
<1> QED
  BY <1>1 DEF Counted

(* The magics go on telling, for the Node objects a step leaves alone.     *)
LEMMA OthersTell ==
  ASSUME IInv, IInv', Rooted, Counted, Sound, MagicsTell, NEW c, Strays(c),
         \A h \in Handles : handle'[h] = handle[h] \/ handle'[h] = Freed \/ Tells(h)'
  PROVE  MagicsTell'
<1> SUFFICES ASSUME NEW h \in Handles, handle'[h] # Freed PROVE Tells(h)'
  BY DEF MagicsTell, Alive, Live
<1>1. CASE Tells(h)'
  BY <1>1
<1>2. CASE handle'[h] = handle[h]
  <2>1. Live(h) /\ Tells(h)
    BY <1>2 DEF MagicsTell, Alive, Live
  <2>2. h \in followed => h \in followed'
    BY <1>2 DEF Strays
  <2> QED
    BY <1>2, <2>1, <2>2, CurrentStays DEF Sound
<1> QED
  BY <1>1, <1>2

LEMMA QuietTells ==
  ASSUME IInv, IInv', Sound, MagicsTell, NEW c, Strays(c),
         parent' = parent, UNCHANGED index,
         \A h \in Handles : handle'[h] = handle[h] \/ handle'[h] = Freed \/ Tells(h)'
  PROVE  MagicsTell'
<1>1. Rooted
  BY DEF Rooted
<1> QED
  BY <1>1, CountedWhenStill, OthersTell

LEMMA ForkTells ==
  ASSUME IInv, IInv', Sound, MagicsTell, NEW c, Strays(c),
         NEW w \in Worlds, NEW child \in Worlds, Fork(w, child)
  PROVE  MagicsTell'
<1>1. Rooted
  BY DEF Rooted, Fork, IInv, TypeOK
<1>2. UNCHANGED index /\ handle' = handle
  BY DEF Fork
<1> QED
  BY <1>1, <1>2, CountedWhenStill, OthersTell

LEMMA NewNodeTells ==
  ASSUME IInv, NEW h \in Handles, NEW w \in Worlds, NEW t \in Times, NewNode(h, w, t)
  PROVE  MagicsTell'
<1> DEFINE q == [world |-> w, time |-> t, w |-> w, s |-> t, t |-> t,
                 mw |-> Null, ms |-> Null, mt |-> Null]
<1>1. handle' = [handle EXCEPT ![h] = q] /\ states = {}
  BY DEF NewNode
<1>2. Alive = {}
  BY <1>1 DEF IInv, StatesFirst
<1>3. \A g \in Handles : handle[g] = Freed
  BY <1>2 DEF Alive, Live
<1> SUFFICES ASSUME NEW g \in Handles, handle'[g] # Freed PROVE Tells(g)'
  BY DEF MagicsTell, Alive, Live
<1>4. handle'[g] = q
  BY <1>1, <1>3 DEF IInv, TypeOK
<1> QED
  BY <1>4 DEF Tells, Exact

LEMMA LookupTells ==
  ASSUME IInv, IInv', Sound, MagicsTell, NEW c, Strays(c),
         NEW h \in Handles, NEW w \in Worlds, NEW t \in Times, Lookup(h, w, t)
  PROVE  MagicsTell'
<1> DEFINE r == Resolution(w, t)
<1>1. PICK q : /\ handle' = [handle EXCEPT ![h] = q]
               /\ q = [world |-> w, time |-> t, w |-> r.w, s |-> r.s, t |-> r.t,
                       mw |-> orderMagic, ms |-> magic[Super(r.w)], mt |-> magic[<<r.w, r.s>>]]
  BY DEF Lookup
<1>2. parent' = parent /\ UNCHANGED index /\ Exists(w)
  BY DEF Lookup
<1>3. /\ order' = order /\ orderMagic' = orderMagic /\ tree' = tree /\ magic' = magic
      /\ orderMagic \in Nat /\ magic \in [Trees -> Nat]
  BY <1>2 DEF index, IInv, TypeOK
<1>4. handle'[h] = q /\ \A g \in Handles : g # h => handle'[g] = handle[g]
  BY <1>1 DEF IInv, TypeOK
<1>5. Resolution(w, t)' = r
  <2>1. ResolveWorld(w, t)' = ResolveWorld(w, t)
    BY <1>2, <1>3, ClimbStays DEF IInv, Rooted
  <2> QED
    BY <1>3, <2>1 DEF Resolution, Super
<1>6. [w |-> r.w, s |-> r.s, t |-> r.t] = r
  BY DEF Resolution
<1>7. q.w \in Worlds /\ q.s \in Times
  <2>1. q \in Resolved \cup {Freed} /\ q # Freed
    <3>1. q \in Resolved \cup {Freed}
      BY <1>4 DEF IInv, TypeOK
    <3>2. q.world # NoWorld
      BY <1>1, ResolverAssumption
    <3> QED
      BY <3>1, <3>2 DEF Freed
  <2> QED
    BY <2>1 DEF Resolved
<1>8. magic[Super(r.w)] \in Nat /\ magic[<<r.w, r.s>>] \in Nat
  <2>1. Super(r.w) \in Trees /\ <<r.w, r.s>> \in Trees
    BY <1>1, <1>7, TreesAre
  <2> QED
    BY <1>3, <2>1
<1> HIDE DEF r
<1>9. Tells(h)'
  BY <1>1, <1>3, <1>4, <1>5, <1>6, <1>8 DEF Tells, Current, Super
<1> QED
  BY <1>2, <1>4, <1>9, QuietTells

LEMMA CloneTells ==
  ASSUME IInv, IInv', Sound, MagicsTell, NEW c, Strays(c),
         NEW h \in Handles, NEW copy \in Handles, Clone(h, copy), Exact(handle[h])
  PROVE  MagicsTell'
<1>1. PICK p : p = handle[h] /\ handle' = [handle EXCEPT ![copy] = p]
  BY DEF Clone
<1>2. parent' = parent /\ UNCHANGED index
  BY DEF Clone
<1>3. handle'[copy] = p /\ \A g \in Handles : g # copy => handle'[g] = handle[g]
  BY <1>1 DEF IInv, TypeOK
<1>4. Tells(copy)'
  BY <1>1, <1>3 DEF Tells, Exact
<1> QED
  BY <1>2, <1>3, <1>4, QuietTells

LEMMA FreeTells ==
  ASSUME IInv, IInv', Sound, MagicsTell, NEW c, Strays(c), NEW h \in Handles, Free(h)
  PROVE  MagicsTell'
<1>1. /\ parent' = parent /\ UNCHANGED index
      /\ \A g \in Handles : handle'[g] = handle[g] \/ handle'[g] = Freed
  BY DEF Free, IInv, TypeOK
<1> QED
  BY <1>1, QuietTells

(* A Node object that moves to another time tree of its world follows a    *)
(* split.                                                                  *)
LEMMA FollowedThen ==
  ASSUME IInv, NEW c, Strays(c), NEW h \in Handles, Live(h), NEW q,
         handle' = [handle EXCEPT ![h] = q], q.world = handle[h].world,
         q.w = handle[h].w, q.s # handle[h].s
  PROVE  h \in followed'
<1>1. handle'[h] = q
  BY DEF IInv, TypeOK
<1>2. q # Freed
  <2>1. q.world # NoWorld
    BY HandleIs, ResolverAssumption DEF IInv
  <2> QED
    BY <2>1 DEF Freed
<1>3. Follows(h)
  BY <1>1, <1>2 DEF Follows, Live
<1> QED
  BY <1>1, <1>3 DEF Strays

LEMMA GetTells ==
  ASSUME IInv, IInv', Sound, MagicsTell, NEW c, Strays(c),
         NEW h \in Handles, Live(h), ~StaleRead(h), Get(h)
  PROVE  MagicsTell'
<1> DEFINE s == PreviousOrEqual(tree[Super(handle[h].w)], handle[h].time)
           x == PreviousOrEqual(tree[<<handle[h].w, s>>], handle[h].time)
<1>0. PICK p : p = handle[h]
  OBVIOUS
<1>1. /\ p.w = ResolveWorld(p.world, p.time)
      /\ Resolution(p.world, p.time) = [w |-> p.w, s |-> s, t |-> x]
      /\ ~Same(p) => /\ Rephased(p).w = p.w /\ Rephased(p).s = s
                     /\ Rephased(p).t = x /\ Rephased(p).k = <<p.w, s>>
  BY <1>0, ReadIs
<1>2. p.world \in Worlds /\ p.w \in Worlds /\ p.time \in Times /\ p.s \in Times /\ Exists(p.world)
  BY <1>0, HandleIs DEF IInv, Sound, HandlesPlaced, Alive
<1> HIDE DEF s, x
<1>3. parent' = parent /\ UNCHANGED index
  BY DEF Get, InPhase, Unresolvable, RephaseFails, GetSame, GetMisses, GetRephased
<1>4. CASE handle' = handle
  BY <1>3, <1>4, QuietTells
<1>5. CASE GetRephased(h) /\ handle' # handle
  <2>1. /\ ~Same(p)
        /\ Resolve(h, p.w, s, x, orderMagic, magic[Super(p.w)], magic[<<p.w, p.s>>])
    BY <1>0, <1>1, <1>5 DEF GetRephased
  <2>2. PICK q : /\ handle' = [handle EXCEPT ![h] = q]
                 /\ q = [world |-> p.world, time |-> p.time, w |-> p.w, s |-> s, t |-> x,
                         mw |-> orderMagic, ms |-> magic[Super(p.w)],
                         mt |-> magic[<<p.w, p.s>>]]
    BY <1>0, <2>1, ResolveIs
  <2>3. handle'[h] = q /\ \A g \in Handles : g # h => handle'[g] = handle[g]
    BY <2>2 DEF IInv, TypeOK
  <2>4. CASE s # p.s
    <3>1. h \in followed'
      BY <1>0, <2>2, <2>4, FollowedThen
    <3>2. Tells(h)'
      BY <3>1 DEF Tells
    <3> QED
      BY <1>3, <2>3, <3>2, QuietTells
  <2>5. CASE s = p.s
    <3>1. /\ order' = order /\ orderMagic' = orderMagic /\ tree' = tree /\ magic' = magic
          /\ orderMagic \in Nat /\ magic \in [Trees -> Nat]
      BY <1>3 DEF index, IInv, TypeOK
    <3>2. Super(p.w) \in Trees /\ <<p.w, p.s>> \in Trees
      BY <1>2, TreesAre
    <3>3. ResolveWorld(p.world, p.time)' = ResolveWorld(p.world, p.time)
      BY <1>2, <1>3, <3>1, ClimbStays DEF IInv, Rooted
    <3>4. Resolution(p.world, p.time)' = [w |-> p.w, s |-> s, t |-> x]
      BY <1>1, <3>1, <3>3 DEF Resolution, Super
    <3>5. Tells(h)'
      BY <2>2, <2>3, <2>5, <3>1, <3>2, <3>4 DEF Tells, Current, Super
    <3> QED
      BY <1>3, <2>3, <3>5, QuietTells
  <2> QED
    BY <2>4, <2>5
<1> QED
  BY <1>4, <1>5 DEF Get, InPhase, Unresolvable, RephaseFails, GetSame, GetMisses

LEMMA LastAdded ==
  ASSUME NEW S \in SUBSET Times, NEW t \in Times, NEW u \in Times, t \in S, t <= u,
         \A y \in S : y <= u => y <= t
  PROVE  PreviousOrEqual(S, u) = t
<1> DEFINE x == PreviousOrEqual(S, u)
<1>1. x # Null /\ t <= x /\ x \in S /\ x <= u
  BY LastIs
<1>2. x <= t /\ x \in Nat /\ t \in Nat
  BY <1>1, TimesAre
<1> QED
  BY <1>1, <1>2

(* Writing through a node that resolved what a lookup would find now: the  *)
(* node tells what a lookup would find, or it has followed a split.        *)
LEMMA InsertsTell ==
  ASSUME IInv, IInv', Sound, NEW h \in Handles, Live(h), Current(h),
         NEW t \in Times, handle[h].t <= t, t <= handle[h].time,
         parent' = parent, InsertsAt(h, t)
  PROVE  Counted /\ Tells(h)'
<1>0. PICK p : p = handle[h]
  OBVIOUS
<1> DEFINE k == <<p.w, p.s>>
<1>1. /\ p.world \in Worlds /\ p.w \in Worlds /\ p.time \in Times /\ p.s \in Times
      /\ p.t \in Times /\ Exists(p.world)
  BY <1>0, HandleIs DEF IInv, Sound, HandlesPlaced, Alive
<1>2. /\ Insert(k, t) /\ order' = order /\ orderMagic' = orderMagic
      /\ Resolve(h, p.w, p.s, t, orderMagic, magic[Super(p.w)], magic'[k])
      /\ p.t <= t /\ t <= p.time
  BY <1>0 DEF InsertsAt
<1>3. PICK q : /\ handle' = [handle EXCEPT ![h] = q]
               /\ q = [world |-> p.world, time |-> p.time, w |-> p.w, s |-> p.s, t |-> t,
                       mw |-> orderMagic, ms |-> magic[Super(p.w)], mt |-> magic'[k]]
  BY <1>0, <1>2, ResolveIs
<1>4. handle'[h] = q
  BY <1>3 DEF IInv, TypeOK
<1>5. k \in Trees /\ Super(p.w) \in Trees /\ k # Super(p.w) /\ p.s # Null
  BY <1>1, TreesAre, TimesAre
<1>6. /\ tree'[k] = tree[k] \cup {t} /\ tree'[Super(p.w)] = tree[Super(p.w)]
      /\ magic'[Super(p.w)] = magic[Super(p.w)]
      /\ tree[k] \in SUBSET Times /\ magic' \in [Trees -> Nat] /\ orderMagic \in Nat
  BY <1>2, <1>5 DEF Insert, Plus, IInv, TypeOK
<1>7. ResolveWorld(p.world, p.time)' = ResolveWorld(p.world, p.time)
  BY <1>1, <1>2, ClimbStays DEF IInv, Rooted
<1>8. /\ [w |-> p.w, s |-> p.s, t |-> p.t] = Resolution(p.world, p.time)
      /\ \A y \in Times : <<p.w, y>> \in states /\ y <= p.time => y <= p.t
  BY <1>0, CurrentIs DEF Current
<1>9. ResolveWorld(p.world, p.time) = p.w /\ PreviousOrEqual(tree[Super(p.w)], p.time) = p.s
  BY <1>8 DEF Resolution
<1>10. PreviousOrEqual(tree'[k], p.time) = t
  <2>1. ASSUME NEW y \in tree[k], y <= p.time PROVE y <= t
    <3>1. y \in Times /\ <<p.w, y>> \in states
      BY <1>1, <1>6 DEF Sound, Parted
    <3>2. y <= p.t /\ y \in Nat /\ p.t \in Nat /\ t \in Nat
      BY <1>1, <1>8, <2>1, <3>1, TimesAre
    <3> QED
      BY <1>2, <3>2
  <2>2. tree'[k] \in SUBSET Times /\ t \in tree'[k] /\ t <= t
    BY <1>6, TimesAre
  <2>3. \A y \in tree'[k] : y <= p.time => y <= t
    BY <1>6, <2>1, <2>2
  <2> QED
    BY <1>1, <1>2, <2>2, <2>3, LastAdded
<1>11. Resolution(p.world, p.time)' = [w |-> p.w, s |-> p.s, t |-> t]
  BY <1>5, <1>6, <1>7, <1>9, <1>10 DEF Resolution, Super
<1>12. Tells(h)'
  BY <1>2, <1>3, <1>4, <1>5, <1>6, <1>11 DEF Tells, Current, Super
<1> QED
  BY <1>2, <1>5, <1>12, InsertCounts

LEMMA SplitsTell ==
  ASSUME IInv, IInv', Sound, NEW c, Strays(c), NEW h \in Handles, Live(h), Current(h),
         NEW t \in Times, handle[h].t <= t, t <= handle[h].time,
         parent' = parent, states' = states \cup {<<handle[h].world, t>>},
         SplitsAt(h, t)
  PROVE  Counted /\ Tells(h)'
<1>0. PICK p : p = handle[h]
  OBVIOUS
<1> DEFINE k == <<p.w, p.s>>
           up == Upper(k, t)
           m == Median(k, t)
<1>1. /\ p.world \in Worlds /\ p.w \in Worlds /\ p.time \in Times /\ p.s \in Times
      /\ p.t \in Times /\ Exists(p.world) /\ p.s <= p.t
  BY <1>0, HandleIs DEF IInv, Sound, HandlesPlaced, Alive
<1>2. /\ Splits(k, Super(p.w), t) /\ order' = order /\ orderMagic' = orderMagic
      /\ \/ t < m /\ Resolve(h, p.w, p.s, t, orderMagic, magic'[Super(p.w)], magic'[k])
         \/ Resolve(h, p.w, m, t, orderMagic, magic'[<<p.w, m>>], magic'[k])
      /\ p.t <= t /\ t <= p.time /\ p.w = p.world
  BY <1>0 DEF SplitsAt
<1>3. PICK counted \in BOOLEAN : InsertAndSplit(p.w, k, Super(p.w), t, counted)
  BY <1>0 DEF SplitsAt
<1>4. /\ p.s \in tree[Super(p.w)] /\ \A u \in tree[Super(p.w)] : p.s < u => p.time < u
      /\ [w |-> p.w, s |-> p.s, t |-> p.t] = Resolution(p.world, p.time)
      /\ \A y \in Times : <<p.w, y>> \in states /\ y <= p.time => y <= p.t
  BY <1>0, CurrentIs DEF Current
<1>5. /\ p.s <= t /\ \A u \in tree[Super(p.w)] : p.s < u => t < u
      /\ p.t \in Nat /\ t \in Nat /\ p.time \in Nat /\ p.s \in Nat
  <2>1. p.t \in Nat /\ t \in Nat /\ p.time \in Nat /\ p.s \in Nat
        /\ \A u \in tree[Super(p.w)] : u \in Nat
    <3>1. tree[Super(p.w)] \in SUBSET Times
      BY <1>1, TreesAre DEF IInv, TypeOK
    <3> QED
      BY <1>1, <3>1, TimesAre
  <2> QED
    BY <1>1, <1>2, <1>4, <2>1
<1>6. m \in Times /\ m # p.s /\ tree[<<p.w, m>>] = {}
  BY <1>0, <1>1, <1>2, <1>3, <1>4, <1>5, SplitParts DEF Sound
<1>7. Counted
  BY <1>1, <1>2, <1>3, <1>6, SplitCounts
<1>8. CASE Resolve(h, p.w, m, t, orderMagic, magic'[<<p.w, m>>], magic'[k])
  <2>1. PICK q : /\ handle' = [handle EXCEPT ![h] = q]
                 /\ q = [world |-> p.world, time |-> p.time, w |-> p.w, s |-> m, t |-> t,
                         mw |-> orderMagic, ms |-> magic'[<<p.w, m>>], mt |-> magic'[k]]
    BY <1>0, <1>8, ResolveIs
  <2>2. h \in followed'
    BY <1>0, <1>6, <2>1, FollowedThen
  <2> QED
    BY <1>7, <2>2 DEF Tells
<1>9. CASE t < m /\ Resolve(h, p.w, p.s, t, orderMagic, magic'[Super(p.w)], magic'[k])
  <2>1. PICK q : /\ handle' = [handle EXCEPT ![h] = q]
                 /\ q = [world |-> p.world, time |-> p.time, w |-> p.w, s |-> p.s, t |-> t,
                         mw |-> orderMagic, ms |-> magic'[Super(p.w)], mt |-> magic'[k]]
    BY <1>0, <1>9, ResolveIs
  <2>2. handle'[h] = q
    BY <2>1 DEF IInv, TypeOK
  <2>3. /\ k \in Trees /\ Super(p.w) \in Trees /\ k # Super(p.w)
        /\ <<p.w, m>> \in Trees /\ <<p.w, m>> # k /\ <<p.w, m>> # Super(p.w)
        /\ tree[k] \in SUBSET Times /\ tree[Super(p.w)] \in SUBSET Times
        /\ magic' \in [Trees -> Nat] /\ orderMagic \in Nat
    BY <1>1, <1>2, <1>6, TreesAre DEF IInv, TypeOK
  <2>4. tree' = [tree EXCEPT ![<<p.w, m>>] = @ \cup up, ![k] = (@ \cup {t}) \ up,
                             ![Super(p.w)] = @ \cup {m}]
    BY <1>3 DEF InsertAndSplit
  <2>5. up \subseteq tree[k] \cup {t} /\ m \in up /\ \A y \in up : m <= y
    <3>1. up \subseteq tree[k] \cup {t} /\ up \in SUBSET Times
      BY <2>3 DEF Upper, UpperHalf
    <3>2. up # {}
      <4>1. Cardinality(tree[Super(p.w)]) \in Nat
        BY <2>3, TimesAre
      <4>2. Cardinality(tree[k] \cup {t}) >= 2
        BY <1>2, <4>1, ThresholdIsTwo DEF Splits
      <4>3. tree[k] \cup {t} \in SUBSET Times
        BY <2>3
      <4> QED
        BY <4>2, <4>3, UpperOfTwo DEF Upper
    <3>3. Min(up) \in up /\ \A y \in up : Min(up) <= y
      BY <3>1, <3>2, MinIs
    <3> QED
      BY <3>1, <3>3 DEF Median
  <2> HIDE DEF up, m
  <2>6. \A y \in tree[k] : y <= p.time => y <= p.t
    <3>1. \A y \in tree[k] : y \in Times /\ <<p.w, y>> \in states
      BY <1>1, <2>3 DEF Sound, Parted
    <3> QED
      BY <1>4, <3>1
  <2>7. p.time < m
    <3>1. m \in Nat
      BY <1>6, TimesAre
    <3>2. m # t
      BY <1>5, <1>9, <3>1
    <3>3. m \in tree[k]
      BY <2>5, <3>2
    <3>4. m <= p.time => m <= p.t
      BY <2>6, <3>3
    <3> QED
      BY <1>2, <1>5, <1>9, <3>1, <3>4
  <2>8. /\ tree'[k] = (tree[k] \cup {t}) \ up
        /\ tree'[Super(p.w)] = tree[Super(p.w)] \cup {m}
    BY <2>3, <2>4 DEF IInv, TypeOK
  <2>9. ResolveWorld(p.world, p.time)' = p.w /\ PreviousOrEqual(tree[Super(p.w)], p.time) = p.s
    <3>1. ResolveWorld(p.world, p.time)' = ResolveWorld(p.world, p.time)
      BY <1>1, <1>2, ClimbStays DEF IInv, Rooted
    <3> QED
      BY <1>4, <3>1 DEF Resolution
  <2>10. PreviousOrEqual(tree'[Super(p.w)], p.time) = p.s
    <3>1. m \in Nat
      BY <1>6, TimesAre
    <3>2. ~(m <= p.time)
      BY <1>5, <2>7, <3>1
    <3>3. {x \in tree'[Super(p.w)] : x <= p.time} = {x \in tree[Super(p.w)] : x <= p.time}
      BY <2>8, <3>2
    <3> QED
      BY <2>9, <3>3 DEF PreviousOrEqual
  <2>11. PreviousOrEqual(tree'[k], p.time) = t
    <3>1. t \in tree'[k] /\ tree'[k] \in SUBSET Times
      <4>1. ~(m <= t)
        BY <1>5, <1>6, <1>9, TimesAre
      <4> QED
        BY <2>3, <2>5, <2>8, <4>1
    <3>2. ASSUME NEW y \in tree'[k], y <= p.time PROVE y <= t
      <4>1. CASE y = t
        BY <1>5, <4>1
      <4>2. CASE y \in tree[k]
        <5>1. y \in Nat
          BY <3>1, TimesAre
        <5> QED
          BY <1>2, <1>5, <2>6, <3>2, <4>2, <5>1
      <4> QED
        BY <2>8, <4>1, <4>2
    <3> QED
      BY <1>1, <1>2, <3>1, <3>2, LastAdded
  <2>12. Resolution(p.world, p.time)' = [w |-> p.w, s |-> p.s, t |-> t]
    <3>1. p.s # Null
      BY <1>1, TimesAre
    <3> QED
      BY <2>9, <2>10, <2>11, <3>1 DEF Resolution, Super
  <2>13. Tells(h)'
    BY <1>2, <2>1, <2>2, <2>3, <2>12 DEF Tells, Current, Super
  <2> QED
    BY <1>7, <2>13
<1> QED
  BY <1>2, <1>8, <1>9

LEMMA BeginsTell ==
  ASSUME IInv, IInv', Sound, NEW h \in Handles, Live(h),
         NEW t \in Times, t <= handle[h].time, BeginsAt(h, t)
  PROVE  Counted /\ Tells(h)'
<1>0. PICK p : p = handle[h]
  OBVIOUS
<1> DEFINE k == <<p.world, t>>
<1>1. p.world \in Worlds /\ p.time \in Times
  BY <1>0, HandleIs DEF IInv
<1>2. /\ NewTimeline(p.world, t) /\ order[p.world] = Null /\ t <= p.time
      /\ Resolve(h, p.world, t, t, orderMagic', magic'[Super(p.world)], magic'[k])
  BY <1>0 DEF BeginsAt
<1>3. PICK q : /\ handle' = [handle EXCEPT ![h] = q]
               /\ q = [world |-> p.world, time |-> p.time, w |-> p.world, s |-> t, t |-> t,
                       mw |-> orderMagic', ms |-> magic'[Super(p.world)], mt |-> magic'[k]]
  BY <1>0, <1>2, ResolveIs
<1>4. handle'[h] = q
  BY <1>3 DEF IInv, TypeOK
<1>5. k \in Trees /\ Super(p.world) \in Trees /\ k # Super(p.world) /\ t # Null /\ t \in Nat
  BY <1>1, TreesAre, TimesAre
<1>6. tree[k] = {} /\ tree[Super(p.world)] = {}
  BY <1>1, <1>2 DEF Sound, Parted
<1>7. /\ tree'[k] = {t} /\ tree'[Super(p.world)] = {t}
      /\ order'[p.world] = t
      /\ magic' \in [Trees -> Nat] /\ orderMagic' \in Nat
  BY <1>1, <1>2, <1>5, <1>6 DEF NewTimeline, IInv, TypeOK
<1>8. ResolveWorld(p.world, p.time)' = p.world
  <2> DEFINE f == CHOOSE f : f = [v \in Worlds \cup {NoWorld} |->
        IF v = NoWorld THEN p.world
        ELSE IF order'[v] # Null /\ order'[v] <= p.time THEN v
        ELSE f[parent'[v]]]
  <2>1. f = [v \in Worlds \cup {NoWorld} |->
        IF v = NoWorld THEN p.world
        ELSE IF order'[v] # Null /\ order'[v] <= p.time THEN v
        ELSE f[parent'[v]]]
    BY <1>1, ClimbEndsAfter DEF IInv
  <2>2. ResolveWorld(p.world, p.time)' = f[p.world]
    BY DEF ResolveWorld
  <2> HIDE DEF f
  <2> QED
    BY <1>1, <1>2, <1>5, <1>7, <2>1, <2>2
<1>9. PreviousOrEqual({t}, p.time) = t
  <2>1. \A y \in {t} : y <= p.time => y <= t
    BY <1>5
  <2> QED
    BY <1>1, <1>2, <2>1, LastAdded
<1>10. Resolution(p.world, p.time)' = [w |-> p.world, s |-> t, t |-> t]
  BY <1>5, <1>7, <1>8, <1>9 DEF Resolution, Super
<1>11. Tells(h)'
  BY <1>3, <1>4, <1>5, <1>7, <1>10 DEF Tells, Current, Super
<1> QED
  BY <1>1, <1>2, <1>11, TimelineCounts

LEMMA WritesTell ==
  ASSUME IInv, IInv', Sound, MagicsTell, NEW c, Strays(c),
         NEW h \in Handles, Live(h), Current(h),
         NEW t \in Times, handle[h].t <= t, t <= handle[h].time, WritesAt(h, t)
  PROVE  MagicsTell'
<1>1. /\ parent' = parent /\ states' = states \cup {<<handle[h].world, t>>}
      /\ InsertsAt(h, t) \/ SplitsAt(h, t) \/ BeginsAt(h, t)
  BY DEF WritesAt
<1>2. Counted /\ Tells(h)'
  BY <1>1, InsertsTell, SplitsTell, BeginsTell
<1>3. \A g \in Handles : g # h => handle'[g] = handle[g]
  BY <1>1 DEF InsertsAt, SplitsAt, BeginsAt, Resolve, IInv, TypeOK
<1>4. Rooted
  BY <1>1 DEF Rooted
<1> QED
  BY <1>2, <1>3, <1>4, OthersTell

LEMMA NextKeepsTelling ==
  IInv /\ Sound /\ MagicsTell /\ [Next]_vars /\ IInv' /\ ~strayed' => MagicsTell'
<1> SUFFICES ASSUME IInv, Sound, MagicsTell, [Next]_vars, IInv', ~strayed'
             PROVE  MagicsTell'
  OBVIOUS
<1>1. CASE UNCHANGED vars
  <2>1. followed' = followed /\ handle' = handle /\ strayed' = strayed
        /\ parent' = parent /\ UNCHANGED index
    BY <1>1 DEF vars, index
  <2>2. followed \subseteq Handles /\ strayed \in BOOLEAN
    BY DEF IInv, TypeOK
  <2>3. Strays(FALSE)
    BY <2>1, <2>2 DEF Strays
  <2> QED
    BY <2>1, <2>3, QuietTells
<1>2. ASSUME NEW w \in Worlds, NEW child \in Worlds, Fork(w, child), Strays(FALSE)
      PROVE  MagicsTell'
  BY <1>2, ForkTells
<1>3. ASSUME NEW h \in Handles, NEW w \in Worlds, NEW t \in Times,
             NewNode(h, w, t) \/ Lookup(h, w, t), Strays(FALSE)
      PROVE  MagicsTell'
  BY <1>3, NewNodeTells, LookupTells
<1>4. ASSUME NEW h \in Handles, Free(h), Strays(FALSE)
      PROVE  MagicsTell'
  BY <1>4, FreeTells
<1>5. ASSUME NEW h \in Handles, MayRead(h), Get(h), Strays(StaleRead(h))
      PROVE  MagicsTell'
  <2>1. ~StaleRead(h) /\ Live(h)
    BY <1>5 DEF Strays, MayRead, MayCall
  <2> QED
    BY <1>5, <2>1, GetTells
<1>6. ASSUME NEW h \in Handles, MayWrite(h), Phase(h),
             Strays(~Exact(handle[h]) /\ (StaleWrite(h) \/ EarlyWrite(h)))
      PROVE  MagicsTell'
  <2>1. Live(h) /\ (~Exact(handle[h]) => Current(h) /\ ~EarlyWrite(h))
    BY <1>6 DEF Strays, MayWrite, MayCall, StaleWrite
  <2>2. CASE Exact(handle[h])
    <3>1. parent' = parent /\ UNCHANGED index /\ handle' = handle
      BY <1>6, <2>2 DEF Phase, InPhase, Unresolvable, RephaseFails, PhaseMisses, PhaseInserts,
           PhaseSplitsLeft, PhaseSplitsRight, PhaseDiverges, Phases, Dephased
    <3> QED
      BY <1>6, <3>1, QuietTells
  <2>3. CASE ~Exact(handle[h])
    <3>1. WritesAt(h, handle[h].time)
      BY <1>6, <2>1, <2>3, PhaseWrites
    <3>2. handle[h].t <= handle[h].time /\ handle[h].time \in Times
          /\ handle[h].time <= handle[h].time
      BY <2>1, HandleIs, TimesAre DEF IInv
    <3> QED
      BY <1>6, <2>1, <2>3, <3>1, <3>2, WritesTell
  <2> QED
    BY <2>2, <2>3
<1>7. ASSUME NEW h \in Handles, NEW t \in Times, MayAdd(h, t), NewState(h, t),
             Strays(StaleWrite(h) \/ EarlyWrite(h) \/ Refused(handle[h], t)
                    \/ OuterTime(h, t))
      PROVE  MagicsTell'
  <2>1. Current(h) /\ ~EarlyWrite(h) /\ ~Refused(handle[h], t)
    BY <1>7 DEF Strays, StaleWrite
  <2>2. Live(h) /\ handle[h].t <= t /\ t <= handle[h].time
    BY <1>7, AddsIs
  <2>3. CASE NewThere(h, t)
    <3>1. parent' = parent /\ UNCHANGED index /\ handle' = handle
      BY <2>3 DEF NewThere
    <3> QED
      BY <1>7, <3>1, QuietTells
  <2>4. CASE WritesAt(h, t)
    BY <1>7, <2>1, <2>2, <2>4, WritesTell
  <2> QED
    BY <1>7, <2>1, <2>2, <2>3, <2>4, NewStateWrites
<1>8. ASSUME NEW h \in Handles, NEW copy \in Handles, Clone(h, copy),
             Strays(~Exact(handle[h]))
      PROVE  MagicsTell'
  <2>1. Exact(handle[h])
    BY <1>8 DEF Strays
  <2> QED
    BY <1>8, <2>1, CloneTells
<1> QED
  BY <1>1, <1>2, <1>3, <1>4, <1>5, <1>6, <1>7, <1>8 DEF Next

LEMMA CarefulTells ==
  ASSUME Careless = {}
  PROVE  Spec => [](IInv /\ Sound /\ MagicsTell)
<1>1. Init => MagicsTell
  BY DEF Init, MagicsTell, Alive, Live
<1>2. (IInv /\ ~strayed /\ Sound) /\ MagicsTell /\ [Next]_vars /\ (IInv /\ ~strayed /\ Sound)'
        => MagicsTell'
  BY NextKeepsTelling
<1> QED
  BY <1>1, <1>2, CarefulIsSound, PTL DEF Spec

(* With careful callers, magics that are those of the chunks prove that    *)
(* the resolution of a node out of phase is the one a lookup would find,   *)
(* unless the node followed a split: "SAME DEPHASING" may skip it.         *)
THEOREM SameTellsCurrent ==
  ASSUME Careless = {}
  PROVE  Spec => []SameIsCurrent
<1>1. MagicsTell => SameIsCurrent
  BY DEF MagicsTell, Tells, SameIsCurrent, SplitRead
<1> QED
  BY <1>1, CarefulTells, PTL

-----------------------------------------------------------------------------
(* The promises of Timelines.                                              *)

Written(w) == {t \in Times : <<w, t>> \in states}

\* A world where something was written by time t.
Begun(v, t) == order[v] # Null /\ order[v] <= t

(* The last state written in a world by time t.                            *)
LEMMA LastWritten ==
  ASSUME IInv, Parted, NEW v \in Worlds, NEW t \in Times
  PROVE  LET x == PreviousOrEqual(Written(v), t) IN
         /\ x # Null <=> Begun(v, t)
         /\ x # Null => x \in Times
         /\ \A y \in Times : /\ <<v, y>> \in states /\ y <= t
                             /\ \A z \in Times : <<v, z>> \in states /\ z <= t => z <= y
                             => x = y
<1> DEFINE S == Written(v)
           x == PreviousOrEqual(S, t)
<1>1. /\ S \in SUBSET Times
      /\ \A y \in Times : y \in S <=> <<v, y>> \in states
  BY DEF Written
<1> HIDE DEF S
<1>2. x # Null => x \in S /\ x <= t
  BY <1>1, LastIs
<1>3. \A y \in S : y <= t => x # Null /\ y <= x
  BY <1>1, LastIs
<1>4. ASSUME Begun(v, t) PROVE x # Null
  <2>1. order[v] \in Times /\ <<v, order[v]>> \in states /\ order[v] <= t
    BY <1>4 DEF Begun, IInv, TypeOK, TimelinesBegin
  <2> QED
    BY <1>1, <1>3, <2>1
<1>5. ASSUME x # Null PROVE Begun(v, t)
  <2>1. x \in Times /\ <<v, x>> \in states /\ x <= t
    BY <1>1, <1>2, <1>5
  <2>2. PICK s \in Times : x \in tree[<<v, s>>]
    BY <2>1 DEF Parted
  <2>3. s \in tree[Super(v)] /\ s <= x
    BY <2>2 DEF Parted, IInv, TreesStart
  <2>4. order[v] # Null /\ order[v] <= s
    BY <2>3 DEF Parted
  <2>5. order[v] \in Times
    BY <2>4 DEF IInv, TypeOK
  <2>6. order[v] \in Nat /\ s \in Nat /\ x \in Nat /\ t \in Nat
    BY <2>1, <2>5, TimesAre
  <2> QED
    BY <2>1, <2>3, <2>4, <2>6 DEF Begun
<1>6. ASSUME NEW y \in Times, <<v, y>> \in states, y <= t,
             \A z \in Times : <<v, z>> \in states /\ z <= t => z <= y
      PROVE  x = y
  <2> HIDE DEF x
  <2>1. x # Null /\ y <= x
    BY <1>1, <1>3, <1>6
  <2>2. x \in Times /\ <<v, x>> \in states /\ x <= t
    BY <1>1, <1>2, <2>1
  <2>3. x <= y /\ x \in Nat /\ y \in Nat
    BY <1>6, <2>2, TimesAre
  <2> QED
    BY <2>1, <2>3
<1> QED
  BY <1>1, <1>2, <1>4, <1>5, <1>6 DEF S

(* What Timelines reads, as a climb.                                       *)
LEMMA AbstractReads ==
  /\ Abstract!Times = Times /\ Abstract!Null = Null /\ Abstract!NoState = NoState
  /\ \A S, t : Abstract!PreviousOrEqual(S, t) = PreviousOrEqual(S, t)
<1>1. Abstract!Times = Times /\ Abstract!Null = Null /\ Abstract!NoState = NoState
  BY DEF Abstract!Times, Times, Abstract!Null, Null, Abstract!NoState, NoState
<1>2. \A S, t : Abstract!PreviousOrEqual(S, t) = PreviousOrEqual(S, t)
  BY <1>1 DEF Abstract!PreviousOrEqual, PreviousOrEqual, Abstract!Max, Max
<1> QED
  BY <1>1, <1>2

LEMMA LatestClimbs ==
  ASSUME IInv, NEW w \in Worlds, NEW t \in Times
  PROVE  \E f : /\ Abstract!Latest(w, t) = f[w]
                /\ f[NoWorld] = NoState
                /\ \A v \in Worlds :
                     f[v] = LET s == PreviousOrEqual(Written(v), t)
                            IN  IF s = Null THEN f[parent[v]] ELSE <<v, s>>
<1> DEFINE wr == [v \in Worlds |-> {u \in Times : <<v, u>> \in states}]
           f == CHOOSE f : f = [v \in Worlds \cup {NoWorld} |->
        IF v = NoWorld THEN Abstract!NoState
        ELSE LET s == Abstract!PreviousOrEqual(wr[v], t)
             IN  IF s = Abstract!Null THEN f[parent[v]] ELSE <<v, s>>]
           stop == {v \in Worlds : PreviousOrEqual(Written(v), t) # Null}
           last == [v \in Worlds \cup {NoWorld} |->
                      IF v = NoWorld THEN NoState
                      ELSE <<v, PreviousOrEqual(Written(v), t)>>]
           V == {last[v] : v \in Worlds \cup {NoWorld}}
<1>1. Abstract!Latest(w, t) = f[w]
  BY DEF Abstract!Latest
<1>2. Grounded(Worlds, NoWorld, parent) /\ NoWorld \notin Worlds
  BY ForestIsGrounded, ResolverAssumption DEF IInv
<1>3. last \in [Worlds \cup {NoWorld} -> V]
  OBVIOUS
<1>4. \A v \in Worlds : wr[v] = Written(v)
  BY DEF Written
<1>5. /\ last[NoWorld] = NoState
      /\ \A v \in Worlds : last[v] = <<v, PreviousOrEqual(Written(v), t)>>
      /\ \A v \in Worlds : v \in stop <=> PreviousOrEqual(Written(v), t) # Null
  BY <1>2
<1> HIDE DEF V, stop, last, wr, f
<1>6. PICK g : g \in Climbers(Worlds, NoWorld, parent, stop, last, V)
  <2>1. Climbers(Worlds, NoWorld, parent, stop, last, V) # {}
    BY <1>2, <1>3, ClimbersExist
  <2> QED
    BY <2>1
<1>7. /\ g \in [Worlds \cup {NoWorld} -> V]
      /\ \A v \in Worlds \cup {NoWorld} :
           g[v] = IF v = NoWorld \/ v \in stop THEN last[v] ELSE g[parent[v]]
  BY <1>6 DEF Climbers
<1>8. ASSUME NEW v \in Worlds \cup {NoWorld}
      PROVE  g[v] = IF v = NoWorld THEN Abstract!NoState
        ELSE LET s == Abstract!PreviousOrEqual(wr[v], t)
             IN  IF s = Abstract!Null THEN g[parent[v]] ELSE <<v, s>>
  BY <1>2, <1>4, <1>5, <1>7, AbstractReads
<1>9. g = [v \in Worlds \cup {NoWorld} |->
        IF v = NoWorld THEN Abstract!NoState
        ELSE LET s == Abstract!PreviousOrEqual(wr[v], t)
             IN  IF s = Abstract!Null THEN g[parent[v]] ELSE <<v, s>>]
  BY <1>7, <1>8
<1>10. f = [v \in Worlds \cup {NoWorld} |->
        IF v = NoWorld THEN Abstract!NoState
        ELSE LET s == Abstract!PreviousOrEqual(wr[v], t)
             IN  IF s = Abstract!Null THEN f[parent[v]] ELSE <<v, s>>]
  BY <1>9 DEF f
<1>11. f[NoWorld] = NoState
  BY <1>10, AbstractReads
<1>12. \A v \in Worlds :
         f[v] = LET s == PreviousOrEqual(Written(v), t)
                IN  IF s = Null THEN f[parent[v]] ELSE <<v, s>>
  BY <1>2, <1>4, <1>10, AbstractReads
<1> QED
  BY <1>1, <1>11, <1>12

LEMMA ResolveClimbs ==
  ASSUME IInv, NEW w \in Worlds, NEW t \in Times
  PROVE  \E g : /\ ResolveWorld(w, t) = g[w]
                /\ g[NoWorld] = w
                /\ \A v \in Worlds : g[v] = IF Begun(v, t) THEN v ELSE g[parent[v]]
<1> DEFINE g == CHOOSE g : g = [v \in Worlds \cup {NoWorld} |->
        IF v = NoWorld THEN w
        ELSE IF order[v] # Null /\ order[v] <= t THEN v
        ELSE g[parent[v]]]
<1>1. g = [v \in Worlds \cup {NoWorld} |->
        IF v = NoWorld THEN w
        ELSE IF order[v] # Null /\ order[v] <= t THEN v
        ELSE g[parent[v]]]
  BY ClimbEnds DEF Climb, IInv
<1>2. ResolveWorld(w, t) = g[w]
  BY DEF ResolveWorld
<1> HIDE DEF g
<1>3. NoWorld \notin Worlds
  BY ResolverAssumption
<1> QED
  BY <1>1, <1>2, <1>3 DEF Begun

(* Where resolve_world finds a world that has begun, Timelines finds the   *)
(* last state written there.                                               *)
LEMMA LatestIs ==
  ASSUME IInv, Parted, NEW w \in Worlds, NEW t \in Times, Begun(ResolveWorld(w, t), t)
  PROVE  LET v == ResolveWorld(w, t) IN
         Abstract!Latest(w, t) = <<v, PreviousOrEqual(Written(v), t)>>
<1>1. PICK f : /\ Abstract!Latest(w, t) = f[w]
               /\ f[NoWorld] = NoState
               /\ \A v \in Worlds :
                    f[v] = LET s == PreviousOrEqual(Written(v), t)
                           IN  IF s = Null THEN f[parent[v]] ELSE <<v, s>>
  BY LatestClimbs
<1>2. PICK g : /\ ResolveWorld(w, t) = g[w]
               /\ g[NoWorld] = w
               /\ \A v \in Worlds : g[v] = IF Begun(v, t) THEN v ELSE g[parent[v]]
  BY ResolveClimbs
<1>3. \A v \in Worlds : PreviousOrEqual(Written(v), t) # Null <=> Begun(v, t)
  BY LastWritten
<1> DEFINE Found(v) == <<v, PreviousOrEqual(Written(v), t)>>
<1>4. \A v \in Worlds : f[v] = IF Begun(v, t) THEN Found(v) ELSE f[parent[v]]
  BY <1>1, <1>3
<1> HIDE DEF Found
<1>5. CASE Begun(w, t)
  BY <1>1, <1>2, <1>4, <1>5 DEF Found
<1>6. CASE ~Begun(w, t)
  <2> DEFINE bad == {v \in Worlds : Begun(g[v], t) /\ f[v] # Found(g[v])}
  <2>1. Grounded(Worlds, NoWorld, parent) /\ parent \in [Worlds -> Worlds \cup {NoWorld}]
    BY ForestIsGrounded DEF Forest, IInv
  <2>2. ASSUME NEW v \in bad PROVE parent[v] \in bad
    <3>1. v \in Worlds /\ ~Begun(v, t)
      BY <1>2, <1>4
    <3>2. g[v] = g[parent[v]] /\ f[v] = f[parent[v]]
      BY <1>2, <1>4, <3>1
    <3>3. parent[v] # NoWorld
      BY <1>2, <1>6, <3>2
    <3> QED
      BY <2>1, <3>1, <3>2, <3>3
  <2>3. bad \in SUBSET Worlds
    OBVIOUS
  <2> HIDE DEF bad
  <2>4. bad = {}
    BY <2>1, <2>2, <2>3, NoneClimbs
  <2> QED
    BY <1>1, <1>2, <2>4 DEF bad, Found
<1> QED
  BY <1>5, <1>6

(* A state that was the last one by time u, and is no later than t, is     *)
(* found at time t in the same world.                                      *)
LEMMA ResolvesEarlier ==
  ASSUME IInv, NEW w \in Worlds, NEW t \in Times, NEW u \in Times, t <= u,
         Begun(ResolveWorld(w, u), t)
  PROVE  ResolveWorld(w, t) = ResolveWorld(w, u)
<1>1. PICK f : /\ ResolveWorld(w, t) = f[w]
               /\ f[NoWorld] = w
               /\ \A v \in Worlds : f[v] = IF Begun(v, t) THEN v ELSE f[parent[v]]
  BY ResolveClimbs
<1>2. PICK g : /\ ResolveWorld(w, u) = g[w]
               /\ g[NoWorld] = w
               /\ \A v \in Worlds : g[v] = IF Begun(v, u) THEN v ELSE g[parent[v]]
  BY ResolveClimbs
<1>3. \A v \in Worlds : Begun(v, t) => Begun(v, u)
  <2> SUFFICES ASSUME NEW v \in Worlds, Begun(v, t) PROVE order[v] <= u
    BY DEF Begun
  <2>1. order[v] \in Times /\ order[v] <= t
    BY DEF Begun, IInv, TypeOK
  <2>2. order[v] \in Nat /\ t \in Nat /\ u \in Nat
    BY <2>1, TimesAre
  <2> QED
    BY <2>1, <2>2
<1> DEFINE bad == {v \in Worlds : Begun(g[v], t) /\ f[v] # g[v]}
<1>4. Grounded(Worlds, NoWorld, parent) /\ parent \in [Worlds -> Worlds \cup {NoWorld}]
  BY ForestIsGrounded DEF Forest, IInv
<1>5. ASSUME NEW v \in bad PROVE parent[v] \in bad
  <2>1. v \in Worlds /\ ~Begun(v, u) /\ ~Begun(v, t)
    BY <1>1, <1>2, <1>3
  <2>2. g[v] = g[parent[v]] /\ f[v] = f[parent[v]]
    BY <1>1, <1>2, <2>1
  <2>3. parent[v] # NoWorld
    BY <1>1, <1>2, <2>2
  <2> QED
    BY <1>4, <2>1, <2>2, <2>3
<1>6. bad \in SUBSET Worlds
  OBVIOUS
<1> HIDE DEF bad
<1>7. bad = {}
  BY <1>4, <1>5, <1>6, NoneClimbs
<1> QED
  BY <1>1, <1>2, <1>7 DEF bad

LEMMA StatesAreRead ==
  ASSUME IInv, Parted, NEW w \in Worlds, NEW t \in Times, <<w, t>> \in states
  PROVE  Abstract!Latest(w, t) = <<w, t>>
<1>1. /\ \A z \in Times : <<w, z>> \in states /\ z <= t => z <= t
      /\ t <= t /\ t # Null
  BY TimesAre
<1>2. PreviousOrEqual(Written(w), t) = t
  BY <1>1, LastWritten
<1>3. Begun(w, t)
  BY <1>1, <1>2, LastWritten
<1>4. ResolveWorld(w, t) = w
  BY <1>3, ResolveWorldIs DEF IInv, Begun
<1> QED
  BY <1>2, <1>3, <1>4, LatestIs

(* A node whose world has not diverged since is read as Timelines says.    *)
LEMMA ReadsLatest ==
  ASSUME IInv, Sound, NEW h \in Handles, Live(h), ~StaleRead(h)
  PROVE  LET p == handle[h]  r == Resolution(p.world, p.time) IN
         /\ Abstract!Latest(p.world, p.time) = <<p.w, r.t>>
         /\ Begun(p.w, p.time) /\ p.w = ResolveWorld(p.world, p.time)
<1> DEFINE s == PreviousOrEqual(tree[Super(handle[h].w)], handle[h].time)
           x == PreviousOrEqual(tree[<<handle[h].w, s>>], handle[h].time)
<1>0. PICK p : p = handle[h]
  OBVIOUS
<1>1. /\ p.w = ResolveWorld(p.world, p.time)
      /\ Resolution(p.world, p.time) = [w |-> p.w, s |-> s, t |-> x]
      /\ order[p.w] # Null /\ order[p.w] <= p.time
      /\ x \in Times /\ x <= p.time /\ <<p.w, x>> \in states
      /\ \A y \in Times : <<p.w, y>> \in states /\ y <= p.time => y <= x
  BY <1>0, ReadIs
<1>2. p.world \in Worlds /\ p.w \in Worlds /\ p.time \in Times
  BY <1>0, HandleIs DEF IInv
<1> HIDE DEF s, x
<1>3. Begun(p.w, p.time)
  BY <1>1 DEF Begun
<1>4. PreviousOrEqual(Written(p.w), p.time) = x
  BY <1>1, <1>2, LastWritten DEF Sound
<1>5. Abstract!Latest(p.world, p.time) = <<p.w, x>>
  BY <1>1, <1>2, <1>3, <1>4, LatestIs DEF Sound
<1> QED
  BY <1>0, <1>1, <1>3, <1>5

LEMMA CurrentIsLatest ==
  ASSUME IInv, Sound, NEW h \in Handles, Live(h), Current(h)
  PROVE  Abstract!Latest(handle[h].world, handle[h].time) = <<handle[h].w, handle[h].t>>
<1>1. ~StaleRead(h)
  BY CurrentIs
<1>2. Resolution(handle[h].world, handle[h].time).t = handle[h].t
  <2>1. [w |-> handle[h].w, s |-> handle[h].s, t |-> handle[h].t]
          = Resolution(handle[h].world, handle[h].time)
    BY DEF Current
  <2> QED
    BY <2>1
<1> QED
  BY <1>1, <1>2, ReadsLatest

-----------------------------------------------------------------------------
(* Each step is one of Timelines, or changes nothing that it has.          *)

LEMMA ForkMaps ==
  ASSUME NEW w \in Worlds, NEW child \in Worlds, Fork(w, child)
  PROVE  Abstract!Next
<1>1. Abstract!Fork(w, child)
  BY DEF Fork, Exists, Abstract!Fork, Abstract!Exists
<1> QED
  BY <1>1 DEF Abstract!Next

LEMMA NewNodeMaps ==
  ASSUME NEW h \in Handles, NEW w \in Worlds, NEW t \in Times, NewNode(h, w, t)
  PROVE  Abstract!Next
<1>1. /\ Exists(w) /\ states = {} /\ states' = {<<w, t>>}
      /\ parent' = parent /\ answer' = answer
  BY DEF NewNode
<1>2. Abstract!NewNode(w, t)
  BY <1>1 DEF Exists, Abstract!NewNode, Abstract!Exists
<1> QED
  BY <1>2, AbstractReads DEF Abstract!Next

LEMMA StillMaps ==
  ASSUME parent' = parent, states' = states, answer' = answer
  PROVE  UNCHANGED Abstract!vars
BY DEF Abstract!vars

LEMMA ReadMaps ==
  ASSUME IInv, NEW w \in Worlds, NEW t \in Times, NEW v \in Worlds, NEW x,
         Abstract!Latest(w, t) = <<v, x>>,
         answer' = [world |-> w, time |-> t, state |-> <<v, x>>],
         parent' = parent, states' = states
  PROVE  Abstract!Next
<1>1. Abstract!Latest(w, t) # Abstract!NoState
  BY AbstractReads, ResolverAssumption DEF NoState
<1>2. Abstract!Read(w, t)
  BY <1>1 DEF Abstract!Read, Abstract!Answer
<1> QED
  BY <1>2, AbstractReads DEF Abstract!Next

LEMMA WriteMaps ==
  ASSUME IInv, NEW w \in Worlds, NEW t \in Times, NEW v \in Worlds, NEW x,
         Abstract!Latest(w, t) = <<v, x>>,
         answer' = [world |-> w, time |-> t, state |-> <<w, t>>],
         parent' = parent, states' = states \cup {<<w, t>>}
  PROVE  Abstract!Next
<1>1. Abstract!Latest(w, t) # Abstract!NoState
  BY AbstractReads, ResolverAssumption DEF NoState
<1>2. Abstract!Write(w, t)
  BY <1>1 DEF Abstract!Write, Abstract!Answer
<1> QED
  BY <1>2, AbstractReads DEF Abstract!Next

LEMMA InPhaseMaps ==
  ASSUME IInv, Sound, NEW h \in Handles, InPhase(h)
  PROVE  Abstract!Next
<1>0. PICK p : p = handle[h]
  OBVIOUS
<1>1. /\ Live(h) /\ p.w = p.world /\ p.t = p.time
      /\ answer' = [world |-> p.world, time |-> p.time, state |-> <<p.w, p.t>>]
      /\ parent' = parent /\ states' = states
  BY <1>0 DEF InPhase, Exact, Answer
<1>2. p.world \in Worlds /\ p.time \in Times /\ <<p.w, p.t>> \in states
  BY <1>0, <1>1, HandleIs DEF IInv, Sound, HandlesPlaced, Alive
<1>3. Abstract!Latest(p.world, p.time) = <<p.w, p.t>>
  BY <1>1, <1>2, StatesAreRead DEF Sound
<1> QED
  BY <1>1, <1>2, <1>3, ReadMaps

LEMMA GetMaps ==
  ASSUME IInv, Sound, MagicsTell, NEW h \in Handles, Live(h), ~StaleRead(h), ~SplitRead(h),
         Get(h)
  PROVE  Abstract!Next
<1> DEFINE s == PreviousOrEqual(tree[Super(handle[h].w)], handle[h].time)
           x == PreviousOrEqual(tree[<<handle[h].w, s>>], handle[h].time)
<1>0. PICK p : p = handle[h]
  OBVIOUS
<1>1. /\ ~TreesMissing(p) /\ <<p.w, x>> \in states /\ x \in tree[<<p.w, s>>]
      /\ Resolution(p.world, p.time) = [w |-> p.w, s |-> s, t |-> x]
      /\ ~Same(p) => /\ Rephased(p).w = p.w /\ Rephased(p).s = s
                     /\ Rephased(p).t = x /\ Rephased(p).k = <<p.w, s>>
  BY <1>0, ReadIs
<1>2. p.world \in Worlds /\ p.w \in Worlds /\ p.time \in Times
  BY <1>0, HandleIs DEF IInv
<1> HIDE DEF s, x
<1>3. Abstract!Latest(p.world, p.time) = <<p.w, x>>
  BY <1>0, <1>1, ReadsLatest
<1>4. CASE InPhase(h)
  BY <1>4, InPhaseMaps
<1>5. CASE GetSame(h)
  <2>1. ~Exact(p) /\ Same(p) /\ h \notin followed
    BY <1>0, <1>5 DEF GetSame, Dephased, SplitRead
  <2>2. Current(h)
    BY <1>0, <2>1 DEF MagicsTell, Tells, Alive
  <2>3. Abstract!Latest(p.world, p.time) = <<p.w, p.t>>
    BY <1>0, <2>2, CurrentIsLatest
  <2>4. /\ answer' = [world |-> p.world, time |-> p.time, state |-> <<p.w, p.t>>]
        /\ parent' = parent /\ states' = states
    BY <1>0, <1>5 DEF GetSame, Answer
  <2> QED
    BY <1>2, <2>3, <2>4, ReadMaps
<1>6. CASE GetRephased(h)
  <2>1. /\ answer' = [world |-> p.world, time |-> p.time, state |-> <<p.w, x>>]
        /\ parent' = parent /\ states' = states
    BY <1>0, <1>1, <1>6 DEF GetRephased, Answer
  <2> QED
    BY <1>2, <1>3, <2>1, ReadMaps
<1>7. ~Unresolvable(h) /\ ~RephaseFails(h) /\ ~GetMisses(h)
  <2>1. tree[<<p.w, p.s>>] # {}
    BY <1>1 DEF TreesMissing
  <2>2. tree[Rephased(p).k] # {}
    BY <1>1, <2>1 DEF Rephased
  <2> QED
    BY <1>0, <1>1, <2>2 DEF Unresolvable, RephaseFails, GetMisses
<1> QED
  BY <1>4, <1>5, <1>6, <1>7 DEF Get

(* What a node can be written at, from the state it resolved on, can be    *)
(* read there too.                                                         *)
LEMMA WritesMap ==
  ASSUME IInv, Sound, NEW h \in Handles, Live(h), Current(h),
         NEW t \in Times, handle[h].t <= t, t <= handle[h].time, WritesAt(h, t)
  PROVE  Abstract!Next
<1>0. PICK p : p = handle[h]
  OBVIOUS
<1>1. /\ p.world \in Worlds /\ p.w \in Worlds /\ p.time \in Times /\ p.t \in Times
      /\ <<p.w, p.t>> \in states
  BY <1>0, HandleIs DEF IInv, Sound, HandlesPlaced, Alive
<1>2. p.w = ResolveWorld(p.world, p.time)
  BY <1>0, CurrentIs DEF StaleRead
<1>3. Begun(p.w, t)
  <2>1. /\ \A z \in Times : <<p.w, z>> \in states /\ z <= p.t => z <= p.t
        /\ p.t <= p.t /\ p.t # Null
    <3>1. p.t \in Nat /\ p.t # Null
      BY <1>1, TimesAre
    <3> QED
      BY <3>1
  <2>2. Begun(p.w, p.t)
    BY <1>1, <2>1, LastWritten DEF Sound
  <2>3. order[p.w] \in Times /\ order[p.w] <= p.t
    BY <1>1, <2>2 DEF Begun, IInv, TypeOK
  <2>4. order[p.w] \in Nat /\ p.t \in Nat /\ t \in Nat
    BY <1>1, <2>3, TimesAre
  <2> QED
    BY <1>0, <2>2, <2>3, <2>4 DEF Begun
<1>4. ResolveWorld(p.world, t) = p.w
  BY <1>0, <1>1, <1>2, <1>3, ResolvesEarlier
<1>5. Abstract!Latest(p.world, t) = <<p.w, PreviousOrEqual(Written(p.w), t)>>
  BY <1>1, <1>3, <1>4, LatestIs DEF Sound
<1>6. /\ answer' = [world |-> p.world, time |-> t, state |-> <<p.world, t>>]
      /\ parent' = parent /\ states' = states \cup {<<p.world, t>>}
  BY <1>0 DEF WritesAt
<1> QED
  BY <1>1, <1>5, <1>6, WriteMaps

LEMMA NewThereMaps ==
  ASSUME IInv, Sound, NEW h \in Handles, NEW t \in Times, NewThere(h, t)
  PROVE  Abstract!Next
<1>0. PICK p : p = handle[h]
  OBVIOUS
<1>1. /\ Live(h) /\ p.w = p.world /\ p.t = t
      /\ answer' = [world |-> p.world, time |-> t, state |-> <<p.w, t>>]
      /\ parent' = parent /\ states' = states
  BY <1>0, AddsIs DEF NewThere, Answer, At
<1>2. p.world \in Worlds /\ <<p.w, p.t>> \in states
  BY <1>0, <1>1, HandleIs DEF IInv, Sound, HandlesPlaced, Alive
<1>3. Abstract!Latest(p.world, t) = <<p.w, t>>
  BY <1>1, <1>2, StatesAreRead DEF Sound
<1> QED
  BY <1>1, <1>2, <1>3, ReadMaps

LEMMA NextMaps ==
  ASSUME Careless = {}
  PROVE  IInv /\ Sound /\ MagicsTell /\ ~strayed' /\ [Next]_vars
           => [Abstract!Next]_Abstract!vars
<1> SUFFICES ASSUME IInv, Sound, MagicsTell, ~strayed', [Next]_vars
             PROVE  Abstract!Next \/ UNCHANGED Abstract!vars
  OBVIOUS
<1>1. CASE UNCHANGED vars
  BY <1>1, StillMaps DEF vars
<1>2. ASSUME NEW w \in Worlds, NEW child \in Worlds, Fork(w, child)
      PROVE  Abstract!Next
  BY <1>2, ForkMaps
<1>3. ASSUME NEW h \in Handles, NEW w \in Worlds, NEW t \in Times,
             NewNode(h, w, t) \/ Lookup(h, w, t)
      PROVE  Abstract!Next \/ UNCHANGED Abstract!vars
  BY <1>3, NewNodeMaps, StillMaps DEF Lookup
<1>4. ASSUME NEW h \in Handles, Free(h)
      PROVE  UNCHANGED Abstract!vars
  BY <1>4, StillMaps DEF Free
<1>5. ASSUME NEW h \in Handles, MayRead(h), Get(h), Strays(StaleRead(h))
      PROVE  Abstract!Next
  <2>1. ~StaleRead(h) /\ ~SplitRead(h) /\ Live(h)
    BY <1>5 DEF Strays, MayRead, MayCall, Careful
  <2> QED
    BY <1>5, <2>1, GetMaps
<1>6. ASSUME NEW h \in Handles, MayWrite(h), Phase(h),
             Strays(~Exact(handle[h]) /\ (StaleWrite(h) \/ EarlyWrite(h)))
      PROVE  Abstract!Next
  <2>1. Live(h) /\ (~Exact(handle[h]) => Current(h) /\ ~EarlyWrite(h))
    BY <1>6 DEF Strays, MayWrite, MayCall, StaleWrite
  <2>2. CASE Exact(handle[h])
    <3>1. InPhase(h)
      BY <1>6, <2>2 DEF Phase, Unresolvable, RephaseFails, PhaseMisses, PhaseInserts,
           PhaseSplitsLeft, PhaseSplitsRight, PhaseDiverges, Phases, Dephased
    <3> QED
      BY <3>1, InPhaseMaps
  <2>3. CASE ~Exact(handle[h])
    <3>1. WritesAt(h, handle[h].time)
      BY <1>6, <2>1, <2>3, PhaseWrites
    <3>2. handle[h].t <= handle[h].time /\ handle[h].time \in Times
          /\ handle[h].time <= handle[h].time
      BY <2>1, HandleIs, TimesAre DEF IInv
    <3> QED
      BY <2>1, <2>3, <3>1, <3>2, WritesMap
  <2> QED
    BY <2>2, <2>3
<1>7. ASSUME NEW h \in Handles, NEW t \in Times, MayAdd(h, t), NewState(h, t),
             Strays(StaleWrite(h) \/ EarlyWrite(h) \/ Refused(handle[h], t)
                    \/ OuterTime(h, t))
      PROVE  Abstract!Next
  <2>1. Current(h) /\ ~EarlyWrite(h) /\ ~Refused(handle[h], t)
    BY <1>7 DEF Strays, StaleWrite
  <2>2. Live(h) /\ handle[h].t <= t /\ t <= handle[h].time
    BY <1>7, AddsIs
  <2>3. NewThere(h, t) \/ WritesAt(h, t)
    BY <1>7, <2>1, NewStateWrites
  <2> QED
    BY <2>1, <2>2, <2>3, NewThereMaps, WritesMap
<1>8. ASSUME NEW h \in Handles, NEW copy \in Handles, Clone(h, copy)
      PROVE  UNCHANGED Abstract!vars
  BY <1>8, StillMaps DEF Clone
<1> QED
  BY <1>1, <1>2, <1>3, <1>4, <1>5, <1>6, <1>7, <1>8 DEF Next

(* With careful callers resolveState and newState keep the promises of     *)
(* Timelines: reads return the latest state of the nearest world upwards   *)
(* that had one by then, writes add the state of their own world and time. *)
THEOREM PromisesAreKept ==
  ASSUME Careless = {}
  PROVE  Spec => KeepsPromises
<1>1. Init => Abstract!Init
  BY AbstractReads DEF Init, Abstract!Init, Abstract!Answer
<1>2. IInv /\ Sound /\ MagicsTell /\ ~strayed' /\ [Next]_vars
        => [Abstract!Next]_Abstract!vars
  BY NextMaps
<1> QED
  BY <1>1, <1>2, CarefulTells, CarefulNeverStray, PTL DEF Spec, KeepsPromises, Abstract!Spec

=============================================================================
