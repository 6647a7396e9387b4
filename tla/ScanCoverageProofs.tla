-------------------------- MODULE ScanCoverageProofs --------------------------
(***************************************************************************)
(* Proofs about ScanCoverage: what the windows say is stored, compaction   *)
(* loses no coverage, a complete answer is complete, and missing_windows   *)
(* names all that is missing and nothing again, for any ranges, spans and  *)
(* pages and any number of clients, tasks and faults.                      *)
(***************************************************************************)
EXTENDS ScanCoverage, NumberLemmas

-----------------------------------------------------------------------------
(* The parts of a window.                                                  *)
LEMMA Parts ==
  ASSUME NEW w \in Windows
  PROVE  /\ w[1] \in Nat /\ w[2] \in Nat /\ w[1] < w[2] /\ w[2] <= Horizon
         /\ w = <<w[1], w[2]>>
  BY ConstantsAssumption DEF Windows

(* A non-empty set of windows has a first one in the order of sorted().    *)
LEMMA First ==
  ASSUME NEW S \in SUBSET Windows, S # {}
  PROVE  \E m \in S : \A x \in S : ~Before(x, m)
<1>1. PICK a \in {x[1] : x \in S} : \A b \in {x[1] : x \in S} : a <= b
  <2>1. {x[1] : x \in S} \in SUBSET Nat /\ {x[1] : x \in S} # {}
    BY Parts
  <2> HIDE DEF Windows
  <2> QED BY <2>1, LeastNumber
<1> DEFINE A == {x \in S : x[1] = a}
<1>2. PICK c \in {x[2] : x \in A} : \A b \in {x[2] : x \in A} : c <= b
  <2>1. {x[2] : x \in A} \in SUBSET Nat /\ {x[2] : x \in A} # {}
    BY Parts
  <2> QED BY <2>1, LeastNumber
<1>3. PICK m \in S : m[1] = a /\ m[2] = c
  OBVIOUS
<1>4. ASSUME NEW x \in S PROVE ~Before(x, m)
  <2>1. /\ x[1] \in Nat /\ x[2] \in Nat /\ m[1] \in Nat /\ m[2] \in Nat
    BY Parts
  <2>2. m[1] <= x[1]
    BY <1>1, <1>3
  <2>3. x[1] = m[1] => m[2] <= x[2]
    BY <1>2, <1>3
  <2> QED BY <2>1, <2>2, <2>3 DEF Before
<1> QED BY <1>4

(* It has a last one ...                                                   *)
LEMMA Last ==
  ASSUME NEW S \in SUBSET Windows, S # {}
  PROVE  \E m \in S : \A x \in S : ~Before(m, x)
<1> DEFINE M == {Horizon - x[1] : x \in S}
<1>0. \A x \in S : Horizon - x[1] \in Nat /\ Horizon - x[2] \in Nat
  <2> TAKE x \in S
  <2> QED BY Parts, ConstantsAssumption
<1>1. PICK a \in M : \A b \in M : a <= b
  <2>1. M \in SUBSET Nat /\ M # {}
    BY <1>0
  <2> HIDE DEF M
  <2> QED BY <2>1, LeastNumber
<1> DEFINE A == {x \in S : Horizon - x[1] = a}
           N == {Horizon - x[2] : x \in A}
<1>2. PICK c \in N : \A b \in N : c <= b
  <2>1. N \in SUBSET Nat /\ N # {}
    BY <1>0
  <2> HIDE DEF N
  <2> QED BY <2>1, LeastNumber
<1>3. PICK m \in S : Horizon - m[1] = a /\ Horizon - m[2] = c
  OBVIOUS
<1>4. ASSUME NEW x \in S PROVE ~Before(m, x)
  <2>1. /\ x[1] \in Nat /\ x[2] \in Nat /\ m[1] \in Nat /\ m[2] \in Nat /\ Horizon \in Nat
    BY Parts, ConstantsAssumption
  <2>2. Horizon - m[1] <= Horizon - x[1]
    BY <1>1, <1>3
  <2>3. x[1] = m[1] => Horizon - m[2] <= Horizon - x[2]
    BY <1>2, <1>3
  <2> QED BY <2>1, <2>2, <2>3 DEF Before
<1> QED BY <1>4

(* ... and one that ends last.                                             *)
LEMMA Farthest ==
  ASSUME NEW S \in SUBSET Windows, S # {}
  PROVE  \E m \in S : \A x \in S : x[2] <= m[2]
<1> DEFINE N == {Horizon - x[2] : x \in S}
<1>0. \A x \in S : x[2] \in Nat /\ Horizon \in Nat /\ Horizon - x[2] \in Nat
  <2> TAKE x \in S
  <2> QED BY Parts, ConstantsAssumption
<1>1. PICK c \in N : \A b \in N : c <= b
  <2>1. N \in SUBSET Nat /\ N # {}
    BY <1>0
  <2> HIDE DEF N
  <2> QED BY <2>1, LeastNumber
<1>2. PICK m \in S : Horizon - m[2] = c
  OBVIOUS
<1>3. ASSUME NEW x \in S PROVE x[2] <= m[2]
  <2>1. Horizon - m[2] <= Horizon - x[2]
    BY <1>1, <1>2
  <2> QED BY <1>0, <2>1
<1> QED BY <1>3

(* The order is transitive and no window is before itself.                 *)
LEMMA Order ==
  ASSUME NEW u \in Windows, NEW v \in Windows, NEW w \in Windows
  PROVE  /\ ~Before(u, u)
         /\ Before(u, v) /\ Before(v, w) => Before(u, w)
         /\ Before(u, v) => ~Before(v, u)
         /\ ~Before(v, u) /\ ~Before(w, v) => ~Before(w, u)
         /\ ~Before(v, u) /\ ~Before(u, v) => u = v
         /\ ~Before(v, u) => u[1] <= v[1]
<1>1. /\ u[1] \in Nat /\ u[2] \in Nat /\ v[1] \in Nat /\ v[2] \in Nat /\ w[1] \in Nat /\ w[2] \in Nat
      /\ u = <<u[1], u[2]>> /\ v = <<v[1], v[2]>>
  BY Parts
<1>2. u[1] = v[1] /\ u[2] = v[2] => u = v
  BY <1>1
<1> QED BY <1>1, <1>2 DEF Before

-----------------------------------------------------------------------------
(* _merge.                                                                 *)

(* A chain has the window that opens it, and only windows.                 *)
LEMMA StartsOf ==
  ASSUME NEW W \in SUBSET Windows, NEW overlap \in Nat
  PROVE  /\ Starts(W, overlap) \in SUBSET W
         /\ \A w \in W : ChainOf(w, W, overlap) \in SUBSET W
         /\ \A w \in Starts(W, overlap) : w \in ChainOf(w, W, overlap)
<1>1. Starts(W, overlap) \in SUBSET W
  BY DEF Starts
<1>2. \A w \in W : ChainOf(w, W, overlap) \in SUBSET W
  BY DEF ChainOf
<1>3. ASSUME NEW w \in Starts(W, overlap) PROVE w \in ChainOf(w, W, overlap)
  <2>1. w \in W /\ ~Before(w, w)
    BY <1>1, Order
  <2> QED BY <2>1 DEF ChainOf
<1> QED BY <1>1, <1>2, <1>3

(* A merged window and the windows its ends are from.                      *)
LEMMA MergedEnds ==
  ASSUME NEW W \in SUBSET Windows, NEW overlap \in Nat, NEW v \in Merge(W, overlap)
  PROVE  \E w \in Starts(W, overlap) : \E z \in ChainOf(w, W, overlap) :
           /\ v = <<w[1], z[2]>> /\ \A u \in ChainOf(w, W, overlap) : u[2] <= z[2]
  BY DEF Merge

(* Merged windows are windows.                                             *)
LEMMA MergeType ==
  ASSUME NEW W \in SUBSET Windows, NEW overlap \in Nat
  PROVE  Merge(W, overlap) \in SUBSET Windows
<1>1. ASSUME NEW v \in Merge(W, overlap) PROVE v \in Windows
  <2>0. PICK w \in Starts(W, overlap) :
          \E z \in ChainOf(w, W, overlap) :
            v = <<w[1], z[2]>> /\ \A u \in ChainOf(w, W, overlap) : u[2] <= z[2]
    BY MergedEnds
  <2>1. PICK z \in ChainOf(w, W, overlap) :
          v = <<w[1], z[2]>> /\ \A u \in ChainOf(w, W, overlap) : u[2] <= z[2]
    BY <2>0
  <2>2. w \in Windows /\ z \in Windows /\ w[2] <= z[2]
    BY <2>1, StartsOf
  <2>3. w[1] \in Nat /\ w[2] \in Nat /\ w[1] < w[2] /\ z[2] \in Nat /\ z[2] <= Horizon
    BY <2>2, Parts
  <2> QED BY <2>1, <2>2, <2>3, ConstantsAssumption DEF Windows
<1> QED BY <1>1

(* Every window lies within a merged one: the last start not after it      *)
(* opens its chain.                                                        *)
LEMMA MergeCovers ==
  ASSUME NEW W \in SUBSET Windows, NEW overlap \in Nat, NEW w \in W
  PROVE  \E v \in Merge(W, overlap) : v[1] <= w[1] /\ w[2] <= v[2]
<1> DEFINE T == {s \in Starts(W, overlap) : ~Before(w, s)}
<1>1. T # {}
  <2> DEFINE S == {s \in W : ~Before(w, s)}
  <2>1. w \in S /\ S \in SUBSET Windows
    BY Order
  <2>2. PICK s \in S : \A x \in S : ~Before(x, s)
    BY <2>1, First
  <2>3. ASSUME NEW x \in W, Before(x, s) PROVE FALSE
    <3>1. ~Before(w, x)
      BY <2>2, <2>3, Order
    <3> QED BY <2>2, <2>3, <3>1
  <2>4. s \in Starts(W, overlap)
    BY <2>3 DEF Starts, StartsChain
  <2> QED BY <2>4
<1>2. T \in SUBSET Windows
  BY StartsOf
<1>3. PICK s \in T : \A x \in T : ~Before(s, x)
  BY <1>1, <1>2, Last
<1> DEFINE C == ChainOf(s, W, overlap)
<1>4. w \in C
  <2>1. ASSUME NEW u \in Starts(W, overlap), Before(s, u) PROVE Before(w, u)
    BY <1>3, <2>1
  <2> QED BY <2>1 DEF ChainOf
<1>5. s \in W /\ C \in SUBSET Windows
  BY StartsOf
<1>6. PICK z \in C : \A u \in C : u[2] <= z[2]
  BY <1>4, <1>5, Farthest
<1>7. <<s[1], z[2]>> \in Merge(W, overlap)
  BY <1>6 DEF Merge
<1>8. s[1] <= w[1] /\ w[2] <= z[2]
  BY <1>4, <1>5, <1>6, Order
<1> QED BY <1>7, <1>8

(* What is no longer than the overlap and lies within a merged window lies *)
(* within one of the windows: the first of the chain that reaches its end. *)
LEMMA MergeSound ==
  ASSUME NEW W \in SUBSET Windows, NEW overlap \in Nat, NEW v \in Merge(W, overlap),
         NEW p \in Windows, p[2] - p[1] <= overlap, Inside(p, v)
  PROVE  \E w \in W : Inside(p, w)
<1>0. PICK w \in Starts(W, overlap) : \E z \in ChainOf(w, W, overlap) : v = <<w[1], z[2]>>
  BY MergedEnds
<1>1. PICK z \in ChainOf(w, W, overlap) : v = <<w[1], z[2]>>
  BY <1>0
<1> DEFINE C == ChainOf(w, W, overlap)
           D == {x \in C : p[2] <= x[2]}
<1>2. w \in W /\ w \in C /\ C \in SUBSET W /\ W \in SUBSET Windows
  BY StartsOf
<1>3. z \in D /\ w[1] <= p[1]
  BY <1>1 DEF Inside
<1>4. PICK y \in D : \A x \in D : ~Before(x, y)
  <2>1. D \in SUBSET Windows /\ D # {}
    BY <1>2, <1>3
  <2> HIDE DEF D
  <2> QED BY <2>1, First
<1>5. CASE y[1] <= p[1]
  BY <1>2, <1>4, <1>5 DEF Inside
<1>6. CASE ~(y[1] <= p[1])
  <2>0. /\ y \in Windows /\ w \in Windows /\ y \in W
        /\ y[1] \in Nat /\ y[2] \in Nat /\ w[1] \in Nat /\ w[2] \in Nat /\ p[1] \in Nat /\ p[2] \in Nat
    BY <1>2, <1>4, Parts
  <2>1. Before(w, y)
    BY <1>3, <1>6, <2>0 DEF Before
  <2>2. y \notin Starts(W, overlap)
    BY <1>4, <2>0, <2>1, Order DEF ChainOf
  <2>3. PICK x \in W : Before(x, y) /\ ~(y[1] > x[2] - overlap /\ y[2] > x[2])
    BY <2>0, <2>2 DEF Starts, StartsChain
  <2>4. x \in Windows /\ x[1] \in Nat /\ x[2] \in Nat
    BY <1>2, Parts
  <2>5. p[2] <= x[2]
    BY <1>4, <1>6, <2>0, <2>3, <2>4
  <2>6. x \notin C
    BY <1>4, <2>3, <2>5
  <2>7. Before(x, w)
    <3>1. SUFFICES ASSUME ~Before(x, w) PROVE x \in C
      BY <2>6
    <3>2. ASSUME NEW u \in Starts(W, overlap), Before(w, u) PROVE Before(x, u)
      <4>1. Before(y, u) /\ u \in Windows
        BY <1>2, <1>4, <3>2, StartsOf DEF ChainOf
      <4> QED BY <2>0, <2>3, <2>4, <4>1, Order
    <3> QED BY <3>1, <3>2 DEF ChainOf
  <2>8. w[2] > x[2]
    BY <2>7, <1>1 DEF Starts, StartsChain
  <2>9. p[2] <= w[2]
    BY <2>0, <2>4, <2>5, <2>8
  <2> QED BY <1>2, <1>3, <2>9 DEF Inside
<1> QED BY <1>5, <1>6

-----------------------------------------------------------------------------
(* missing_windows.                                                        *)

(* The cursor is where the farthest chain ends.                            *)
LEMMA CursorOf ==
  ASSUME NEW C \in SUBSET Windows, C # {}
  PROVE  /\ Cursor(C) \in Nat /\ Cursor(C) <= Horizon
         /\ \E d \in C : d[2] = Cursor(C)
         /\ \A d \in C : d[2] <= Cursor(C)
<1>1. PICK m \in C : \A d \in C : d[2] <= m[2]
  BY Farthest
<1>2. m[2] \in {d[2] : d \in C} /\ \A d \in C : d[2] <= m[2]
  BY <1>1
<1>3. Cursor(C) \in {d[2] : d \in C} /\ \A d \in C : d[2] <= Cursor(C)
  BY <1>2 DEF Cursor
<1>4. PICK d \in C : d[2] = Cursor(C)
  BY <1>3
<1> QED BY <1>3, <1>4, Parts

(* A clipped window is a window.                                           *)
LEMMA ClipType ==
  ASSUME NEW range \in Windows, NEW s \in Int, NEW e \in Int
  PROVE  Clip(s, e, range) \in SUBSET Windows
<1>1. range[1] \in Nat /\ range[2] \in Nat /\ range[2] <= Horizon /\ Horizon \in Nat
  BY Parts, ConstantsAssumption
<1> QED BY <1>1 DEF Clip, Windows, Upper, Lower

(* What lies within the range and between two integers is clipped to both. *)
LEMMA ClipCovers ==
  ASSUME NEW range \in Windows, NEW s \in Int, NEW e \in Int,
         NEW p \in Windows, Inside(p, range), s <= p[1], p[2] <= e
  PROVE  \E w \in Clip(s, e, range) : Inside(p, w)
<1> DEFINE w == <<Upper(range[1], s), Lower(range[2], e)>>
<1>1. /\ range[1] \in Nat /\ range[2] \in Nat
      /\ p[1] \in Nat /\ p[2] \in Nat /\ p[1] < p[2]
  BY Parts
<1>2. w[1] <= p[1] /\ p[2] <= w[2]
  BY <1>1 DEF Inside, Upper, Lower
<1>3. w[1] \in Int /\ w[2] \in Int
  BY <1>1 DEF Upper, Lower
<1>4. w \in Clip(s, e, range)
  BY <1>1, <1>2, <1>3 DEF Clip
<1> QED BY <1>2, <1>4 DEF Inside

(* The windows that gaps and the end of the range give.                    *)
Needed(range, scanned) ==
  (UNION {GapBefore(c, Chains(range, scanned), range) : c \in Chains(range, scanned)})
    \cup GapAfter(Chains(range, scanned), range)

(* Chains are windows.                                                     *)
LEMMA ChainsType ==
  ASSUME NEW range \in Windows, NEW scanned \in SUBSET Windows
  PROVE  Chains(range, scanned) \in SUBSET Windows
  BY MergeType, ConstantsAssumption DEF Chains

(* So are the gaps, and what missing_windows makes of them.                *)
LEMMA NeededType ==
  ASSUME NEW range \in Windows, NEW scanned \in SUBSET Windows
  PROVE  /\ Needed(range, scanned) \in SUBSET Windows
         /\ MissingWindows(range, scanned) = Merge(Needed(range, scanned), 0)
         /\ MissingWindows(range, scanned) \in SUBSET Windows
<1> DEFINE C == Chains(range, scanned)
<1>1. C \in SUBSET Windows
  BY ChainsType
<1> HIDE DEF C
<1>2. range[1] \in Nat /\ range[2] \in Nat /\ Span \in Nat
  BY Parts, ConstantsAssumption
<1>3. ASSUME NEW c \in C PROVE GapBefore(c, C, range) \in SUBSET Windows
  <2>1. c[1] \in Nat /\ c[1] + Span \in Int
    BY <1>1, <1>2, Parts
  <2> DEFINE earlier == {d \in C : Before(d, c)}
  <2>2. earlier # {} => Cursor(earlier) - Span \in Int
    <3>1. earlier \in SUBSET Windows
      BY <1>1
    <3> HIDE DEF earlier
    <3> QED BY <1>2, <3>1, CursorOf
  <2>3. /\ Clip(range[1], c[1] + Span, range) \in SUBSET Windows
        /\ earlier # {} => Clip(Cursor(earlier) - Span, c[1] + Span, range) \in SUBSET Windows
    <3> HIDE DEF earlier
    <3> QED BY <1>2, <2>1, <2>2, ClipType
  <2> QED BY <2>3 DEF GapBefore
<1>4. GapAfter(C, range) \in SUBSET Windows
  <2>1. C # {} => Cursor(C) - Span \in Int
    BY <1>1, <1>2, CursorOf
  <2>2. C # {} => Clip(Cursor(C) - Span, range[2], range) \in SUBSET Windows
    BY <1>2, <2>1, ClipType
  <2> QED BY <2>2 DEF GapAfter
<1>5. Needed(range, scanned) \in SUBSET Windows
  BY <1>3, <1>4 DEF Needed, C
<1>6. MissingWindows(range, scanned) = Merge(Needed(range, scanned), 0)
  BY DEF MissingWindows, Needed
<1> QED BY <1>5, <1>6, MergeType

(* Nothing of the range is left out: a pattern within it lies within a     *)
(* scanned window or within one that missing_windows names.                *)
THEOREM MissingCovers ==
  ASSUME NEW range \in Windows, NEW scanned \in SUBSET Windows,
         NEW p \in Patterns, Inside(p, range)
  PROVE  \E w \in scanned \cup MissingWindows(range, scanned) : Inside(p, w)
<1> DEFINE C == Chains(range, scanned)
<1>1. C \in SUBSET Windows
  BY ChainsType
<1>2. /\ p \in Windows /\ p[2] - p[1] <= Span /\ Span \in Nat
      /\ p[1] \in Nat /\ p[2] \in Nat /\ p[1] < p[2]
      /\ range[1] \in Nat /\ range[2] \in Nat /\ range[1] <= p[1] /\ p[2] <= range[2]
  BY Parts, ConstantsAssumption DEF Patterns, Inside
<1>3. ASSUME NEW w \in Needed(range, scanned), Inside(p, w)
      PROVE  \E v \in MissingWindows(range, scanned) : Inside(p, v)
  <2>1. w \in Windows /\ w[1] \in Nat /\ w[2] \in Nat
    BY NeededType, Parts
  <2>2. PICK v \in Merge(Needed(range, scanned), 0) : v[1] <= w[1] /\ w[2] <= v[2]
    BY NeededType, MergeCovers
  <2>3. v \in Windows /\ v[1] \in Nat /\ v[2] \in Nat
    BY <2>2, NeededType, Parts
  <2> QED BY <1>2, <1>3, <2>1, <2>2, <2>3, NeededType DEF Inside
<1>4. ASSUME NEW c \in C, Inside(p, c) PROVE \E w \in scanned : Inside(p, w)
  <2>1. c \in Merge(scanned, Span)
    BY DEF Chains
  <2> QED BY <1>2, <1>4, <2>1, MergeSound
<1>5. SUFFICES ASSUME \A c \in C : ~Inside(p, c)
               PROVE  \E w \in Needed(range, scanned) : Inside(p, w)
  BY <1>3, <1>4
<1> HIDE DEF C
<1>6. CASE C = {}
  <2>1. range \in Needed(range, scanned)
    BY <1>6 DEF Needed, GapAfter, C
  <2> QED BY <2>1
<1>7. CASE C # {} /\ p[2] > Cursor(C)
  <2>1. Cursor(C) \in Nat
    BY <1>1, <1>7, CursorOf
  <2>2. Cursor(C) < range[2] /\ Cursor(C) - Span <= p[1] /\ Cursor(C) - Span \in Int
    BY <1>2, <1>7, <2>1
  <2>3. GapAfter(C, range) = Clip(Cursor(C) - Span, range[2], range)
    BY <1>7, <2>2 DEF GapAfter
  <2>4. PICK w \in Clip(Cursor(C) - Span, range[2], range) : Inside(p, w)
    BY <1>2, <2>2, ClipCovers
  <2>5. w \in Needed(range, scanned)
    BY <2>3, <2>4 DEF Needed, C
  <2> QED BY <2>4, <2>5
<1>8. CASE C # {} /\ ~(p[2] > Cursor(C))
  <2> DEFINE D == {c \in C : p[2] <= c[2]}
  <2>1. PICK d \in C : d[2] = Cursor(C)
    BY <1>1, <1>8, CursorOf
  <2>2. d \in D
    BY <1>1, <1>2, <1>8, <2>1, Parts
  <2>3. PICK c \in D : \A x \in D : ~Before(x, c)
    <3>1. D \in SUBSET Windows /\ D # {}
      BY <1>1, <2>2
    <3> HIDE DEF D
    <3> QED BY <3>1, First
  <2>4. c \in C /\ c[1] \in Nat /\ c[2] \in Nat /\ p[2] <= c[2]
    BY <1>1, <2>3, Parts
  <2>5. p[1] < c[1]
    BY <1>2, <1>5, <2>4 DEF Inside
  <2>6. c[1] > range[1] /\ p[2] <= c[1] + Span /\ c[1] + Span \in Int
    BY <1>2, <2>4, <2>5
  <2> DEFINE earlier == {x \in C : Before(x, c)}
  <2>7. CASE earlier = {}
    <3>1. GapBefore(c, C, range) = Clip(range[1], c[1] + Span, range)
      BY <2>6, <2>7 DEF GapBefore
    <3>2. PICK w \in Clip(range[1], c[1] + Span, range) : Inside(p, w)
      BY <1>2, <2>6, ClipCovers
    <3>3. w \in Needed(range, scanned)
      BY <2>4, <3>1, <3>2 DEF Needed, C
    <3> QED BY <3>2, <3>3
  <2>8. CASE earlier # {}
    <3>1. PICK e \in earlier : e[2] = Cursor(earlier)
      <4>1. earlier \in SUBSET Windows
        BY <1>1
      <4> HIDE DEF earlier
      <4> QED BY <2>8, <4>1, CursorOf
    <3>2. e[2] \in Nat /\ e[2] < p[2]
      BY <1>1, <1>2, <2>3, <3>1, Parts
    <3>3. /\ Cursor(earlier) < range[2] /\ Cursor(earlier) - Span <= p[1]
          /\ Cursor(earlier) - Span \in Int
      BY <1>2, <3>1, <3>2
    <3>4. GapBefore(c, C, range) = Clip(Cursor(earlier) - Span, c[1] + Span, range)
      BY <2>6, <2>8, <3>3 DEF GapBefore
    <3>5. PICK w \in Clip(Cursor(earlier) - Span, c[1] + Span, range) : Inside(p, w)
      BY <1>2, <2>6, <3>3, ClipCovers
    <3>6. w \in Needed(range, scanned)
      BY <2>4, <3>4, <3>5 DEF Needed, C
    <3> QED BY <3>5, <3>6
  <2> QED BY <2>7, <2>8
<1> QED BY <1>6, <1>7, <1>8

(* What ends after a merged window begins later than the overlap before    *)
(* its end: _merge would have joined them.                                 *)
LEMMA MergeApart ==
  ASSUME NEW W \in SUBSET Windows, NEW overlap \in Nat, NEW v \in Merge(W, overlap),
         NEW x \in W, x[2] > v[2]
  PROVE  x[1] > v[2] - overlap
<1>0. PICK w \in Starts(W, overlap) : \E z \in ChainOf(w, W, overlap) :
        v = <<w[1], z[2]>> /\ \A u \in ChainOf(w, W, overlap) : u[2] <= z[2]
  BY MergedEnds
<1>1. PICK z \in ChainOf(w, W, overlap) :
        v = <<w[1], z[2]>> /\ \A u \in ChainOf(w, W, overlap) : u[2] <= z[2]
  BY <1>0
<1>2. /\ w \in W /\ z \in W /\ w \in ChainOf(w, W, overlap)
      /\ w \in Windows /\ z \in Windows /\ x \in Windows /\ v[2] = z[2]
  BY <1>1, StartsOf
<1>3. x[1] \in Nat /\ x[2] \in Nat /\ z[2] \in Nat /\ w[2] \in Nat /\ w[2] <= z[2]
  BY <1>1, <1>2, Parts
<1>4. ~Before(x, w)
  <2> SUFFICES ASSUME Before(x, w) PROVE FALSE
    OBVIOUS
  <2>1. w[2] > x[2]
    BY DEF Starts, StartsChain
  <2>. QED BY <1>2, <1>3, <2>1
<1>5. PICK u \in Starts(W, overlap) : Before(w, u) /\ ~Before(x, u)
  BY <1>1, <1>2, <1>3, <1>4 DEF ChainOf
<1>6. Before(z, u) /\ u \in W /\ u \in Windows
  BY <1>5, StartsOf DEF ChainOf
<1>7. u[1] > z[2] - overlap
  BY <1>2, <1>6 DEF Starts, StartsChain
<1>8. u[1] <= x[1] /\ u[1] \in Nat
  BY <1>2, <1>5, <1>6, Order, Parts
<1>. QED BY <1>2, <1>3, <1>7, <1>8

(* A merged window that passes e has a window that does so, and begins     *)
(* where it begins or at least the overlap before e.                       *)
LEMMA MergePasses ==
  ASSUME NEW W \in SUBSET Windows, NEW overlap \in Nat, NEW v \in Merge(W, overlap),
         NEW e \in Nat, v[2] > e
  PROVE  \E x \in W : x[2] > e /\ (x[1] = v[1] \/ x[1] <= e - overlap)
<1>0. PICK w \in Starts(W, overlap) : \E z \in ChainOf(w, W, overlap) : v = <<w[1], z[2]>>
  BY MergedEnds
<1>1. PICK z \in ChainOf(w, W, overlap) : v = <<w[1], z[2]>>
  BY <1>0
<1> DEFINE C == ChainOf(w, W, overlap)
           D == {x \in C : x[2] > e}
<1>2. w \in W /\ w \in C /\ C \in SUBSET W /\ W \in SUBSET Windows
  BY StartsOf
<1>3. z \in D
  BY <1>1
<1>4. PICK y \in D : \A x \in D : ~Before(x, y)
  <2>1. D \in SUBSET Windows /\ D # {}
    BY <1>2, <1>3
  <2> HIDE DEF D
  <2> QED BY <2>1, First
<1>5. /\ y \in W /\ y \in Windows /\ w \in Windows /\ y[2] > e
      /\ y[1] \in Nat /\ y[2] \in Nat /\ w[1] \in Nat /\ w[2] \in Nat
  BY <1>2, <1>4, Parts
<1>6. CASE y = w
  BY <1>1, <1>5, <1>6
<1>7. CASE y # w
  <2>1. Before(w, y)
    BY <1>2, <1>4, <1>5, <1>7, Order DEF ChainOf
  <2>2. y \notin Starts(W, overlap)
    BY <1>4, <1>5, <2>1, Order DEF ChainOf
  <2>3. PICK x \in W : Before(x, y) /\ ~(y[1] > x[2] - overlap /\ y[2] > x[2])
    BY <1>5, <2>2 DEF Starts, StartsChain
  <2>4. x \in Windows /\ x[1] \in Nat /\ x[2] \in Nat
    BY <1>2, Parts
  <2>5. x[2] <= e
    <3> SUFFICES ASSUME x[2] > e PROVE FALSE
      BY <2>4
    <3>1. x \notin C
      BY <1>4, <2>3
    <3>2. Before(x, w)
      <4> SUFFICES ASSUME ~Before(x, w) PROVE x \in C
        BY <3>1
      <4>1. ASSUME NEW u \in Starts(W, overlap), Before(w, u) PROVE Before(x, u)
        <5>1. Before(y, u) /\ u \in Windows
          BY <1>2, <1>4, <4>1, StartsOf DEF ChainOf
        <5> QED BY <1>5, <2>3, <2>4, <5>1, Order
      <4> QED BY <4>1 DEF ChainOf
    <3>3. w[2] > x[2]
      BY <3>2, <1>1 DEF Starts, StartsChain
    <3>4. w \in D
      BY <1>2, <1>5, <2>4, <3>3
    <3>. QED BY <1>4, <2>1, <3>4
  <2>6. y[1] <= e - overlap
    BY <1>5, <2>3, <2>4, <2>5
  <2>. QED BY <1>5, <2>6
<1>. QED BY <1>6, <1>7

(* Wherever one stands in the range, a scanned window or a gap goes on     *)
(* from there: it begins with the range, or the length of a pattern        *)
(* before.                                                                 *)
LEMMA GoesOn ==
  ASSUME NEW range \in Windows, NEW scanned \in SUBSET Windows,
         NEW e \in Nat, range[1] <= e, e < range[2]
  PROVE  \E x \in scanned \cup Needed(range, scanned) :
           x[2] > e /\ (x[1] <= range[1] \/ x[1] <= e - Span)
<1> DEFINE N == Needed(range, scanned)
           C == Chains(range, scanned)
           Apart(x) == x[2] > e => x[1] > range[1] /\ x[1] > e - Span
<1>1. C \in SUBSET Windows /\ N \in SUBSET Windows
  BY ChainsType, NeededType
<1>2. range[1] \in Nat /\ range[2] \in Nat /\ Span \in Nat
  BY Parts, ConstantsAssumption
<1>3. /\ \A c \in C : GapBefore(c, C, range) \subseteq N
      /\ GapAfter(C, range) \subseteq N
  BY DEF Needed
<1> SUFFICES ASSUME \A x \in scanned \cup N : Apart(x) PROVE FALSE
  <2> SUFFICES ASSUME NEW x \in scanned \cup N, ~Apart(x)
               PROVE  x[2] > e /\ (x[1] <= range[1] \/ x[1] <= e - Span)
    OBVIOUS
  <2>1. x[1] \in Nat /\ x[2] \in Nat
    BY <1>1, Parts
  <2> HIDE DEF N
  <2>. QED BY <1>2, <2>1
<1>4. ASSUME NEW c \in C PROVE Apart(c)
  <2> SUFFICES ASSUME c[2] > e PROVE c[1] > range[1] /\ c[1] > e - Span
    OBVIOUS
  <2>1. c \in Merge(scanned, Span)
    BY DEF Chains
  <2>2. PICK x \in scanned : x[2] > e /\ (x[1] = c[1] \/ x[1] <= e - Span)
    BY <1>2, <2>1, MergePasses
  <2>3. x[1] > range[1] /\ x[1] > e - Span /\ x[1] \in Nat
    BY <2>2, Parts
  <2>. QED BY <1>2, <2>2, <2>3
\* A gap whose parts are on both sides of e would not be apart from it.
<1>5. ASSUME NEW s \in Int, NEW t \in Int, s <= range[1] \/ s <= e - Span, t > e,
             Clip(s, t, range) \subseteq N
      PROVE  FALSE
  <2> DEFINE x == <<Upper(range[1], s), Lower(range[2], t)>>
  <2>1. x[1] \in Int /\ x[2] \in Int /\ x[2] > e /\ (x[1] <= range[1] \/ x[1] <= e - Span)
    BY <1>2, <1>5 DEF Upper, Lower
  <2>2. x[1] < x[2]
    <3> HIDE DEF x
    <3>. QED BY <1>2, <2>1
  <2>3. x \in N
    BY <1>5, <2>2 DEF Clip
  <2> HIDE DEF x, N
  <2>4. Apart(x)
    BY <2>3
  <2>. QED BY <1>2, <2>1, <2>4
<1> HIDE DEF C, N
<1>6. CASE C = {}
  <2>1. range \in N
    BY <1>3, <1>6 DEF GapAfter
  <2>. QED BY <1>2, <2>1
<1>7. CASE C # {} /\ \A c \in C : c[2] <= e
  <2>1. Cursor(C) \in Nat /\ Cursor(C) <= e
    BY <1>1, <1>7, CursorOf
  <2>2. Clip(Cursor(C) - Span, range[2], range) \subseteq N
    BY <1>2, <1>3, <1>7, <2>1 DEF GapAfter
  <2>. QED BY <1>2, <1>5, <2>1, <2>2
<1>8. CASE \E c \in C : ~(c[2] <= e)
  <2> DEFINE D == {c \in C : c[2] > e}
  <2>1. PICK c \in D : \A x \in D : ~Before(x, c)
    <3>1. D \in SUBSET Windows /\ D # {}
      BY <1>1, <1>8, Parts
    <3> HIDE DEF D
    <3>. QED BY <3>1, First
  <2>2. c \in C /\ c[1] \in Nat /\ c[1] > range[1] /\ c[1] + Span > e /\ c[1] + Span \in Int
    BY <1>1, <1>2, <1>4, <2>1, Parts
  <2> DEFINE earlier == {d \in C : Before(d, c)}
  <2>3. CASE earlier = {}
    <3>1. GapBefore(c, C, range) = Clip(range[1], c[1] + Span, range)
      BY <2>2, <2>3 DEF GapBefore
    <3>. QED BY <1>2, <1>3, <1>5, <2>2, <3>1
  <2>4. CASE earlier # {}
    <3>1. PICK d \in earlier : d[2] = Cursor(earlier)
      <4>1. earlier \in SUBSET Windows
        BY <1>1
      <4> HIDE DEF earlier
      <4>. QED BY <2>4, <4>1, CursorOf
    <3>2. d[2] \in Nat /\ d[2] <= e
      BY <1>1, <2>1, <3>1, Parts
    <3>3. GapBefore(c, C, range) = Clip(Cursor(earlier) - Span, c[1] + Span, range)
      BY <1>2, <2>2, <2>4, <3>1, <3>2 DEF GapBefore
    <3>4. Cursor(earlier) - Span \in Int /\ Cursor(earlier) - Span <= e - Span
      BY <1>2, <3>1, <3>2
    <3>. QED BY <1>3, <1>5, <2>2, <3>3, <3>4
  <2>. QED BY <2>3, <2>4
<1>. QED BY <1>6, <1>7, <1>8

(* Once what missing_windows named is scanned, one chain has the whole     *)
(* range.                                                                  *)
LEMMA RangeIsScanned ==
  ASSUME NEW range \in Windows, NEW scanned \in SUBSET Windows
  PROVE  \E v \in Merge(scanned \cup MissingWindows(range, scanned), Span) :
           v[1] <= range[1] /\ range[2] <= v[2]
<1> DEFINE M == MissingWindows(range, scanned)
           after == scanned \cup M
           All == Merge(after, Span)
           Ends == {v[2] : v \in {w \in All : w[1] <= range[1]}} \cup {range[1]}
<1>1. M \in SUBSET Windows /\ after \in SUBSET Windows /\ All \in SUBSET Windows
  BY NeededType, MergeType, ConstantsAssumption
<1>2. range[1] \in Nat /\ range[2] \in Nat /\ range[1] < range[2] /\ Span \in Nat
  BY Parts, ConstantsAssumption
<1>3. \A w \in Windows : w[1] \in Nat /\ w[2] \in Nat
  BY Parts
<1>0. \A d : d \in Ends <=> d = range[1] \/ \E w \in All : w[1] <= range[1] /\ w[2] = d
  OBVIOUS
<1> HIDE DEF Ends, All
<1>4. PICK e \in Ends : \A d \in Ends : d <= e
  <2> DEFINE S == {w \in All : w[1] <= range[1]}
  <2>1. S \in SUBSET Windows
    BY <1>1
  <2>2. CASE S = {}
    BY <1>0, <1>2, <2>2
  <2>3. CASE S # {}
    <3> HIDE DEF S
    <3>1. PICK m \in S : \A x \in S : x[2] <= m[2]
      BY <2>1, <2>3, Farthest
    <3>2. m[2] \in Nat /\ \A x \in S : x[2] \in Nat
      BY <1>3, <2>1
    <3>3. CASE m[2] >= range[1]
      BY <1>0, <1>2, <3>1, <3>2, <3>3 DEF S
    <3>4. CASE ~(m[2] >= range[1])
      BY <1>0, <1>2, <3>1, <3>2, <3>4 DEF S
    <3>. QED BY <3>3, <3>4
  <2>. QED BY <2>2, <2>3
<1>5. e \in Nat /\ e >= range[1]
  BY <1>0, <1>1, <1>2, <1>3, <1>4
<1>6. ASSUME NEW x \in after, x[2] > e PROVE x[1] > range[1] /\ x[1] > e - Span
  <2>1. x[1] \in Nat /\ x[2] \in Nat
    BY <1>1, <1>3
  <2>2. x[1] > range[1]
    <3> SUFFICES ASSUME x[1] <= range[1] PROVE FALSE
      BY <1>2, <2>1
    <3>1. PICK v \in All : v[1] <= x[1] /\ x[2] <= v[2]
      BY <1>1, <1>2, MergeCovers DEF All
    <3>2. v[1] \in Nat /\ v[2] \in Nat
      BY <1>1, <1>3
    <3>3. v[2] \in Ends
      BY <1>0, <1>2, <2>1, <3>1, <3>2
    <3>4. v[2] <= e /\ e < x[2]
      BY <1>4, <1>6, <3>3
    <3>. QED BY <1>5, <2>1, <3>1, <3>2, <3>4
  <2>3. CASE e = range[1]
    BY <1>2, <2>1, <2>2, <2>3
  <2>4. CASE e # range[1]
    <3>1. PICK v \in All : e = v[2]
      BY <1>0, <2>4
    <3>2. x[1] > v[2] - Span
      BY <1>1, <1>2, <1>6, <3>1, MergeApart DEF All
    <3>. QED BY <2>2, <3>1, <3>2
  <2>. QED BY <2>3, <2>4
<1>7. e >= range[2]
  <2> SUFFICES ASSUME e < range[2] PROVE FALSE
    BY <1>2, <1>5
  <2>1. PICK x \in scanned \cup Needed(range, scanned) :
          x[2] > e /\ (x[1] <= range[1] \/ x[1] <= e - Span)
    BY <1>5, GoesOn
  <2>2. PICK y \in after : y[1] <= x[1] /\ x[2] <= y[2]
    <3>1. CASE x \in scanned
      <4>1. x[1] \in Nat /\ x[2] \in Nat
        BY <1>3, <3>1
      <4>. QED BY <3>1, <4>1
    <3>2. CASE x \in Needed(range, scanned)
      <4>1. PICK y \in Merge(Needed(range, scanned), 0) : y[1] <= x[1] /\ x[2] <= y[2]
        BY <3>2, NeededType, MergeCovers
      <4>2. y \in after
        BY <4>1, NeededType
      <4>. QED BY <4>1, <4>2
    <3>. QED BY <3>1, <3>2
  <2>3. /\ x[1] \in Nat /\ x[2] \in Nat /\ y[1] \in Nat /\ y[2] \in Nat
    BY <1>1, <1>3, NeededType
  <2>4. y[1] > range[1] /\ y[1] > e - Span
    BY <1>5, <1>6, <2>1, <2>2, <2>3
  <2>. QED BY <1>2, <1>5, <2>1, <2>2, <2>3, <2>4
<1>8. PICK v \in All : v[1] <= range[1] /\ v[2] = e
  BY <1>0, <1>2, <1>5, <1>7
<1>. QED BY <1>7, <1>8 DEF All

(* So there is nothing to scan again.                                      *)
LEMMA NothingAgain ==
  ASSUME NEW range \in Windows, NEW scanned \in SUBSET Windows
  PROVE  MissingWindows(range, scanned \cup MissingWindows(range, scanned)) = {}
<1> DEFINE after == scanned \cup MissingWindows(range, scanned)
           C == Chains(range, after)
<1>1. after \in SUBSET Windows
  BY NeededType
<1>2. PICK v \in Merge(after, Span) : v[1] <= range[1] /\ range[2] <= v[2]
  BY RangeIsScanned
<1> HIDE DEF after
<1>3. C \in SUBSET Windows /\ range[1] \in Nat /\ range[2] \in Nat /\ range[1] < range[2]
  BY <1>1, ChainsType, Parts
<1>4. Merge(after, Span) \in SUBSET Windows
  BY <1>1, MergeType, ConstantsAssumption
<1>5. v[1] \in Nat /\ v[2] \in Nat
  BY <1>2, <1>4, Parts
<1>6. v \in C
  BY <1>2, <1>3, <1>5 DEF Chains
<1> HIDE DEF C
<1>7. ASSUME NEW c \in C PROVE GapBefore(c, C, range) = {}
  <2> DEFINE earlier == {d \in C : Before(d, c)}
  <2>1. c[1] \in Nat
    BY <1>3, Parts
  <2>2. CASE ~(c[1] > range[1])
    BY <2>2 DEF GapBefore
  <2>3. CASE c[1] > range[1]
    <3>1. v \in earlier
      BY <1>2, <1>3, <1>5, <1>6, <2>1, <2>3 DEF Before
    <3>2. earlier \in SUBSET Windows /\ earlier # {}
      BY <1>3, <3>1
    <3>3. Cursor(earlier) \in Nat /\ v[2] <= Cursor(earlier)
      <4> HIDE DEF earlier
      <4>. QED BY <3>1, <3>2, CursorOf
    <3>4. ~(Cursor(earlier) < range[2])
      BY <1>2, <1>3, <1>5, <3>3
    <3>. QED BY <3>2, <3>4 DEF GapBefore
  <2>. QED BY <2>2, <2>3
<1>8. GapAfter(C, range) = {}
  <2>1. Cursor(C) \in Nat /\ v[2] <= Cursor(C)
    BY <1>3, <1>6, CursorOf
  <2>. QED BY <1>2, <1>3, <1>5, <1>6, <2>1 DEF GapAfter
<1>9. Needed(range, after) = {}
  BY <1>7, <1>8 DEF Needed, C
<1>10. MissingWindows(range, after) = Merge({}, 0)
  BY <1>1, <1>9, NeededType
<1>. QED BY <1>10 DEF Merge, Starts, after

(* Scanning what missing_windows names leaves no pattern of the range out  *)
(* and nothing to scan again, for any windows whatever.                    *)
LEMMA SufficesAlways ==
  ASSUME NEW range \in Windows, NEW scanned \in SUBSET Windows
  PROVE  Suffices(range, scanned)
<1>1. \A p \in Patterns : Inside(p, range) =>
        \E w \in scanned \cup MissingWindows(range, scanned) : Inside(p, w)
  BY MissingCovers
<1>. QED BY <1>1, NothingAgain DEF Suffices

-----------------------------------------------------------------------------
(* fetch_klines_range: a page and the rest cover the closed candles of a   *)
(* part.                                                                   *)
Marks == (0..Horizon) \X (0..Horizon)

(* The size of an interval.                                                *)
LEMMA Interval ==
  ASSUME NEW m \in Int, NEW n \in Int
  PROVE  Cardinality(m..n) = IF m > n THEN 0 ELSE n - m + 1
  BY FS_Interval

(* A page and the rest have the candles of their part.                     *)
LEMMA PageFacts ==
  ASSUME NEW part \in Marks, now \in 0..Horizon, NEW page \in Pages(part)
  PROVE  /\ page \in SUBSET (0..Horizon)
         /\ Rest(part, page) \in SUBSET Marks
         /\ \A i \in 0..now : part[1] <= i /\ i <= part[2] =>
              i \in page \/ \E r \in Rest(part, page) : r[1] <= i /\ i <= r[2]
<1> DEFINE a == part[1]
           b == Lower(part[2], now)
<1>1. /\ a \in Nat /\ part[2] \in Nat /\ now \in Nat /\ b \in Nat /\ b <= part[2] /\ b <= now
      /\ part[2] <= Horizon /\ now <= Horizon /\ Horizon \in Nat /\ Page \in Nat \ {0}
      /\ \A i \in 0..now : i <= part[2] => i <= b
  BY ConstantsAssumption DEF Marks, Lower
<1> DEFINE full == Cardinality(a..b) > Page
<1>2. Cardinality(a..b) \in Int /\ (full => b - a + 1 > Page)
  <2>1. a \in Int /\ b \in Int /\ Page \in Nat \ {0}
    BY <1>1
  <2> HIDE DEF a, b
  <2>2. Cardinality(a..b) = IF a > b THEN 0 ELSE b - a + 1
    BY <2>1, Interval
  <2> QED BY <2>1, <2>2
<1>3. \/ page = a..b /\ ~full
      \/ page = a..(a + Page - 1) /\ full
      \/ page = (b - Page + 1)..b /\ full
  BY <1>1, <1>2 DEF Pages
<1>4. \A i \in 0..now : a <= i /\ i <= part[2] => i \in a..b
  BY <1>1
<1> HIDE DEF b, full
<1>5. CASE page = a..b
  BY <1>1, <1>4, <1>5 DEF Rest, Marks
<1>6. CASE page = a..(a + Page - 1) /\ full
  <2>1. Cardinality(page) = Page
    <3>1. /\ a \in Int /\ a + Page - 1 \in Int /\ ~(a > a + Page - 1)
          /\ (a + Page - 1) - a + 1 = Page
      BY <1>1
    <3>2. Cardinality(a..(a + Page - 1))
            = IF a > a + Page - 1 THEN 0 ELSE (a + Page - 1) - a + 1
      BY <3>1, Interval
    <3> QED BY <1>6, <3>1, <3>2
  <2>2. page \in SUBSET (0..Horizon) /\ a + Page <= b
    BY <1>1, <1>2, <1>6
  <2>3. Rest(part, page) \in SUBSET Marks
    BY <1>1, <2>2 DEF Rest, Marks
  <2>4. a + Page - 1 \in {m \in page : \A n \in page : n <= m}
    BY <1>1, <1>6
  <2>5. <<a + Page, part[2]>> \in Rest(part, page)
    <3>1. (a + Page - 1) + 1 = a + Page /\ a + Page <= part[2]
      BY <1>1, <2>2
    <3> QED BY <1>1, <2>1, <2>4, <3>1 DEF Rest
  <2>6. \A i \in a..b : i \in page \/ (a + Page <= i /\ i <= part[2])
    BY <1>1, <1>6
  <2> QED BY <1>4, <2>2, <2>3, <2>5, <2>6
<1>7. CASE page = (b - Page + 1)..b /\ full
  <2>1. Cardinality(page) = Page
    <3>1. /\ b \in Int /\ b - Page + 1 \in Int /\ ~(b - Page + 1 > b)
          /\ b - (b - Page + 1) + 1 = Page
      BY <1>1
    <3>2. Cardinality((b - Page + 1)..b)
            = IF b - Page + 1 > b THEN 0 ELSE b - (b - Page + 1) + 1
      BY <3>1, Interval
    <3> QED BY <1>7, <3>1, <3>2
  <2>2. page \in SUBSET (0..Horizon) /\ a <= b - Page
    BY <1>1, <1>2, <1>7
  <2>3. Rest(part, page) \in SUBSET Marks
    BY <1>1, <2>2 DEF Rest, Marks
  <2>4. b - Page + 1 \in {m \in page : \A n \in page : m <= n}
    BY <1>1, <1>7
  <2>5. <<a, b - Page>> \in Rest(part, page)
    <3>1. (b - Page + 1) - 1 = b - Page
      BY <1>1
    <3> QED BY <1>1, <2>1, <2>2, <2>4, <3>1 DEF Rest
  <2>6. \A i \in a..b : i \in page \/ (a <= i /\ i <= b - Page)
    BY <1>1, <1>7
  <2> QED BY <1>4, <2>2, <2>3, <2>5, <2>6
<1> QED BY <1>3, <1>5, <1>6, <1>7

(* The padded window has the candles a confirmed pattern needs.            *)
LEMMA PaddedFacts ==
  ASSUME NEW w \in Windows, now \in Start..Horizon
  PROVE  /\ PaddedWindow(w) \in Marks
         /\ \A i \in 0..Start : w[1] - Pad <= i /\ i <= w[2] + Pad =>
              PaddedWindow(w)[1] <= i /\ i <= PaddedWindow(w)[2]
<1>1. /\ w[1] \in Nat /\ w[2] \in Nat /\ w[1] < w[2] /\ w[2] <= Horizon
      /\ now \in Nat /\ Start <= now /\ now <= Horizon /\ Pad \in Nat /\ Horizon \in Nat /\ Start \in Nat
  BY Parts, ConstantsAssumption
<1> QED BY <1>1 DEF PaddedWindow, Marks, Upper, Lower

(* A pattern with its candles within the fetched ones is found.            *)
LEMMA FoundIn ==
  ASSUME NEW p \in Confirmed, NEW w \in Windows, Inside(p, w), NEW candles,
         \A i \in 0..Start : w[1] - Pad <= i /\ i <= w[2] + Pad => i \in candles
  PROVE  p \in Found(candles)
<1>1. /\ p \in Patterns /\ p \in Windows /\ Pad <= p[1] /\ p[2] + Pad <= Start
      /\ p[1] \in Nat /\ p[2] \in Nat /\ w[1] \in Nat /\ w[2] \in Nat /\ Pad \in Nat /\ Start \in Nat
      /\ w[1] <= p[1] /\ p[2] <= w[2]
  BY Parts, ConstantsAssumption DEF Confirmed, Patterns, Inside
<1>2. \A i \in (p[1] - Pad)..(p[2] + Pad) : i \in candles
  BY <1>1
<1> QED BY <1>1, <1>2 DEF Found

-----------------------------------------------------------------------------
(* The inductive invariant.                                                *)

LockedRows == locked \subseteq rows

(* A range is asked for, and what no window is missing for is known.       *)
ReadFacts ==
  \A c \in Clients :
    /\ request[c].pc # "idle" => request[c].range \in Ranges
    /\ request[c].pc = "read" /\ request[c].missing = {} =>
         \A p \in Confirmed : Inside(p, request[c].range) => p \in stored \cup lost

(* A task has or will still fetch the candles around its window, and has   *)
(* saved the patterns of the window it records.                            *)
TaskFacts ==
  \A k \in TaskIds :
    /\ task[k].pc \in {"fetch", "record"} => task[k].window \in Windows
    /\ task[k].pc = "fetch" =>
         \A i \in 0..Start : task[k].window[1] - Pad <= i /\ i <= task[k].window[2] + Pad =>
           i \in task[k].candles \/ \E part \in task[k].pending : part[1] <= i /\ i <= part[2]
    /\ task[k].pc = "record" =>
         \A p \in Confirmed : Inside(p, task[k].window) => p \in stored \cup lost

SyncFrom == Upper(0, sync.last - Recent + 2)

SyncFacts ==
  /\ sync.pc \in {"save", "record"} => Start <= sync.last
  /\ sync.pc = "record" =>
       \A p \in Confirmed : SyncFrom + Pad <= p[1] => p \in stored \cup lost

IInv ==
  TypeOK /\ CoveredIsStored /\ CompleteIsComplete /\ LockedRows /\ ReadFacts /\ TaskFacts /\ SyncFacts

(* What the table says stored before a step it says stored after it.       *)
LEMMA KnownGrows ==
  ASSUME [Next]_vars
  PROVE  stored \subseteq stored' /\ lost \subseteq lost'
<1>1. stored \subseteq stored'
  BY DEF Next, vars, Api, Worker, Fault, CandleCloses, Ask, AskAgain, ReadPatterns, Ensure,
         StillComputing, NotComputing, EnqueueScan, NextWindow, FetchPage, SavePatterns, RecordWindow,
         SyncFetch, SyncSave, SyncRecord, CompactRead, CompactCommit, Redeliver, FetchRaises,
         RecordFails, SaveFails, SyncSaveFails, ApiRestarts, TaskStale, db, worker
<1>2. lost \subseteq lost'
  BY DEF Next, vars, Api, Worker, Fault, CandleCloses, Ask, AskAgain, ReadPatterns, Ensure,
         StillComputing, NotComputing, EnqueueScan, NextWindow, FetchPage, SavePatterns, RecordWindow,
         SyncFetch, SyncSave, SyncRecord, CompactRead, CompactCommit, Redeliver, FetchRaises,
         RecordFails, SaveFails, SyncSaveFails, ApiRestarts, TaskStale, db, worker
<1> QED BY <1>1, <1>2

(* A new row was merged or has been scanned.                               *)
LEMMA RowsStep ==
  ASSUME [Next]_vars
  PROVE  /\ \A w \in rows' : \/ w \in rows
                             \/ w \in Merge(locked, Span)
                             \/ \E k \in TaskIds : task[k].pc = "record" /\ w = task[k].window
                             \/ sync.pc = "record" /\ w = SyncWindow /\ w[1] < w[2]
         /\ \/ rows \subseteq rows' /\ locked' \in {locked, rows}
            \/ rows' = (rows \ locked) \cup Merge(locked, Span) /\ locked' = {}
  BY DEF Next, vars, Api, Worker, Fault, CandleCloses, Ask, AskAgain, ReadPatterns, Ensure,
         StillComputing, NotComputing, EnqueueScan, NextWindow, FetchPage, SavePatterns, RecordWindow,
         SyncFetch, SyncSave, SyncRecord, CompactRead, CompactCommit, Redeliver, FetchRaises,
         RecordFails, SaveFails, SyncSaveFails, ApiRestarts, TaskStale, db, worker, CountFault

(* What a step makes of a request: it is asked, its patterns are read, or  *)
(* it goes on with its range.                                              *)
RequestMoves(old, new) ==
  \/ new = old
  \/ /\ new.pc = "read" /\ new.range \in Ranges /\ new.missing = MissingWindows(new.range, rows)
     /\ new \in Requests
  \/ /\ old.pc = "read" /\ old.missing = {} /\ new.pc = "complete" /\ new.range = old.range
     /\ new.patterns = {p \in stored : Inside(p, old.range)} /\ new \in Requests
  \/ old.pc # "idle" /\ new.pc \notin {"read", "complete"} /\ new.range = old.range /\ new \in Requests
  \/ new = IdleRequest

(* Every step moves the requests in one of these ways.                     *)
LEMMA RequestStep ==
  ASSUME TypeOK, ReadFacts, [Next]_vars
  PROVE  /\ request' \in [Clients -> Requests]
         /\ \A c \in Clients : RequestMoves(request[c], request'[c])
<1> DEFINE Good == /\ request' \in [Clients -> Requests]
                   /\ \A c \in Clients : RequestMoves(request[c], request'[c])
<1>1. /\ request \in [Clients -> Requests] /\ rows \in SUBSET Windows /\ stored \in SUBSET Patterns
      /\ inflight \in TaskIds \cup {NoTask} /\ Ranges \in SUBSET Windows
  BY ConstantsAssumption DEF TypeOK
<1>2. IdleRequest \in Requests
  BY DEF IdleRequest, Requests
<1>3. \A d \in Clients : request[d] \in Requests
  BY <1>1
<1>4. \A range \in Ranges : MissingWindows(range, rows) \in SUBSET Windows
  BY <1>1, NeededType
<1>5. ASSUME request' = request PROVE Good
  BY <1>1, <1>5 DEF RequestMoves
<1>6. ASSUME NEW d \in Clients, NEW new \in Requests, request' = [request EXCEPT ![d] = new],
             RequestMoves(request[d], new)
      PROVE  Good
  <2>1. request' \in [Clients -> Requests]
    BY <1>1, <1>6
  <2>2. ASSUME NEW c \in Clients PROVE RequestMoves(request[c], request'[c])
    <3>1. request'[c] = IF c = d THEN new ELSE request[c]
      BY <1>1, <1>6
    <3>2. CASE c = d
      BY <1>6, <3>1, <3>2
    <3>3. CASE c # d
      BY <3>1, <3>3 DEF RequestMoves
    <3> QED BY <3>2, <3>3
  <2> QED BY <2>1, <2>2
<1> HIDE DEF Good
<1>7. ASSUME NEW d \in Clients, NEW range \in Ranges,
             request' = [request EXCEPT ![d] = [IdleRequest EXCEPT !.pc = "read", !.range = range,
                                                  !.missing = MissingWindows(range, rows)]]
      PROVE  Good
  <2> DEFINE new == [IdleRequest EXCEPT !.pc = "read", !.range = range,
                                        !.missing = MissingWindows(range, rows)]
  <2>1. new \in Requests /\ new.pc = "read" /\ new.range = range
        /\ new.missing = MissingWindows(range, rows)
    BY <1>4 DEF IdleRequest, Requests
  <2>2. RequestMoves(request[d], new)
    BY <2>1 DEF RequestMoves
  <2> HIDE DEF new
  <2> QED BY <1>6, <1>7, <2>1, <2>2 DEF new
<1>8. ASSUME NEW d \in Clients, NEW answer \in {"computing", "failed"}, request[d].pc # "idle",
             request' = [request EXCEPT ![d] = Reply(d, answer)]
      PROVE  Good
  <2>1. Reply(d, answer) \in Requests /\ Reply(d, answer).pc = answer
        /\ Reply(d, answer).range = request[d].range
    BY <1>3 DEF Reply, IdleRequest, Requests
  <2>2. RequestMoves(request[d], Reply(d, answer))
    BY <1>8, <2>1 DEF RequestMoves
  <2> QED BY <1>6, <1>8, <2>1, <2>2
<1>9. ASSUME NEW d \in Clients, NEW pc \in {"ensure", "state", "enqueue"}, NEW current \in TaskIds \cup {NoTask},
             request[d].pc # "idle",
             request' = [request EXCEPT ![d].pc = pc, ![d].current = current]
      PROVE  Good
  <2> DEFINE new == [request[d] EXCEPT !.pc = pc, !.current = current]
  <2>1. new \in Requests /\ new.pc = pc /\ new.range = request[d].range
    BY <1>3 DEF Requests
  <2>2. RequestMoves(request[d], new)
    BY <1>9, <2>1 DEF RequestMoves
  <2>3. request' = [request EXCEPT ![d] = new]
    BY <1>1, <1>9
  <2> HIDE DEF new
  <2> QED BY <1>6, <2>1, <2>2, <2>3
<1>10. ASSUME NEW d \in Clients, AskAgain(d)
       PROVE  Good
  <2>1. request[d].range \in Ranges
    BY <1>10 DEF AskAgain, ReadFacts
  <2> QED BY <1>7, <1>10, <2>1 DEF AskAgain
<1>11. ASSUME NEW d \in Clients, NEW range \in Ranges, Ask(d, range)
       PROVE  Good
  BY <1>7, <1>11 DEF Ask
<1>12. ASSUME NEW d \in Clients, ReadPatterns(d)
       PROVE  Good
  <2>1. CASE request[d].missing # {}
    <3> DEFINE new == [request[d] EXCEPT !.pc = "ensure"]
    <3>1. new \in Requests /\ new.pc = "ensure" /\ new.range = request[d].range /\ request[d].pc = "read"
      BY <1>3, <1>12 DEF Requests, ReadPatterns
    <3>2. RequestMoves(request[d], new)
      BY <3>1 DEF RequestMoves
    <3>3. request' = [request EXCEPT ![d] = new]
      BY <1>1, <1>12, <2>1 DEF ReadPatterns
    <3> HIDE DEF new
    <3> QED BY <1>6, <3>1, <3>2, <3>3
  <2>2. CASE request[d].missing = {}
    <3> DEFINE read == {p \in stored : Inside(p, request[d].range)}
               new  == [request[d] EXCEPT !.pc = "complete", !.patterns = read]
    <3>1. read \in SUBSET Patterns /\ request[d].pc = "read"
      BY <1>1, <1>12 DEF ReadPatterns
    <3>2. request' = [request EXCEPT ![d] = new]
      BY <1>1, <1>12, <2>2 DEF ReadPatterns
    <3> HIDE DEF read
    <3>3. new \in Requests /\ new.pc = "complete" /\ new.range = request[d].range /\ new.patterns = read
      BY <1>3, <3>1 DEF Requests
    <3> HIDE DEF new
    <3>4. RequestMoves(request[d], new)
      BY <2>2, <3>1, <3>3 DEF RequestMoves, read
    <3> QED BY <1>6, <3>2, <3>3, <3>4
  <2> QED BY <2>1, <2>2
<1>13. ASSUME NEW d \in Clients, Ensure(d)
       PROVE  Good
  <2>1. request[d].pc # "idle" /\ inflight \in TaskIds \cup {NoTask}
        /\ (IF inflight = NoTask THEN "enqueue" ELSE "state") \in {"ensure", "state", "enqueue"}
    BY <1>1, <1>13 DEF Ensure
  <2>2. request' = [request EXCEPT ![d].pc = IF inflight = NoTask THEN "enqueue" ELSE "state",
                                   ![d].current = inflight]
    BY <1>1, <1>13 DEF Ensure, Requests
  <2> QED BY <1>9, <2>1, <2>2
<1>14. ASSUME NEW d \in Clients, StillComputing(d)
       PROVE  Good
  BY <1>8, <1>14 DEF StillComputing
<1>15. ASSUME NEW d \in Clients, NotComputing(d) \/ TaskStale(d)
       PROVE  Good
  <2>1. /\ request[d].pc # "idle"
        /\ \/ request' = [request EXCEPT ![d] = Reply(d, "failed")]
           \/ request' = [request EXCEPT ![d].pc = "enqueue", ![d].current = NoTask]
    BY <1>15 DEF NotComputing, TaskStale
  <2> QED BY <1>8, <1>9, <2>1
<1>16. ASSUME NEW d \in Clients, NEW k \in TaskIds, EnqueueScan(d, k)
       PROVE  Good
  BY <1>8, <1>16 DEF EnqueueScan
<1>17. ASSUME ApiRestarts
       PROVE  Good
  BY <1>2, <1>17 DEF ApiRestarts, RequestMoves, Good
<1>18. \/ request' = request
       \/ \E d \in Clients : \/ AskAgain(d) \/ ReadPatterns(d) \/ Ensure(d) \/ StillComputing(d)
                             \/ NotComputing(d) \/ TaskStale(d)
       \/ \E d \in Clients : \E range \in Ranges : Ask(d, range)
       \/ \E d \in Clients : \E k \in TaskIds : EnqueueScan(d, k)
       \/ ApiRestarts
  BY DEF Next, vars, Api, Worker, Fault, CandleCloses, NextWindow, FetchPage, SavePatterns, RecordWindow,
         SyncFetch, SyncSave, SyncRecord, CompactRead, CompactCommit, Redeliver, FetchRaises,
         RecordFails, SaveFails, SyncSaveFails, db, worker, CountFault
<1>19. Good
  BY <1>5, <1>10, <1>11, <1>12, <1>13, <1>14, <1>15, <1>16, <1>17, <1>18
<1> QED BY <1>19 DEF Good

(* What a step makes of a task: a window is taken, a page is fetched or    *)
(* the patterns are saved.                                                 *)
TaskMoves(old, new) ==
  \/ new = old
  \/ new.pc \notin {"fetch", "record"}
  \/ new.pc = "fetch" /\ new.window \in Windows /\ new.pending = {PaddedWindow(new.window)}
  \/ /\ old.pc = "fetch" /\ new.pc = "fetch" /\ new.window = old.window
     /\ \E part \in old.pending : \E page \in Pages(part) :
          new.candles = old.candles \cup page /\ new.pending = (old.pending \ {part}) \cup Rest(part, page)
  \/ /\ old.pc = "fetch" /\ new.pc = "record" /\ new.window = old.window /\ old.pending = {}
     /\ \A p \in Found(old.candles) : Inside(p, old.window) => p \in stored' \cup lost'

(* Every step moves the tasks in one of these ways.                        *)
LEMMA TaskStep ==
  ASSUME TypeOK, [Next]_vars
  PROVE  /\ task' \in [TaskIds -> Tasks]
         /\ \A k \in TaskIds : TaskMoves(task[k], task'[k])
<1> DEFINE Good == /\ task' \in [TaskIds -> Tasks]
                   /\ \A k \in TaskIds : TaskMoves(task[k], task'[k])
<1>1. /\ task \in [TaskIds -> Tasks] /\ request \in [Clients -> Requests] /\ now \in Start..Horizon
      /\ Horizon \in Nat /\ Start \in Nat /\ now \in 0..Horizon
  BY ConstantsAssumption DEF TypeOK
<1>2. \A l \in TaskIds : /\ task[l] \in Tasks /\ task[l].left \in SUBSET Windows
                         /\ task[l].message \in SUBSET Windows
                         /\ task[l].pending \in SUBSET Marks /\ task[l].candles \in SUBSET (0..Horizon)
  BY <1>1 DEF Tasks, Marks
<1>3. ASSUME task' = task PROVE Good
  BY <1>1, <1>3 DEF TaskMoves
<1>4. ASSUME NEW l \in TaskIds, NEW new \in Tasks, task' = [task EXCEPT ![l] = new], TaskMoves(task[l], new)
      PROVE  Good
  <2>1. task' \in [TaskIds -> Tasks]
    BY <1>1, <1>4
  <2>2. ASSUME NEW k \in TaskIds PROVE TaskMoves(task[k], task'[k])
    <3>1. task'[k] = IF k = l THEN new ELSE task[k]
      BY <1>1, <1>4
    <3>2. CASE k = l
      BY <1>4, <3>1, <3>2
    <3>3. CASE k # l
      BY <3>1, <3>3 DEF TaskMoves
    <3> QED BY <3>2, <3>3
  <2> QED BY <2>1, <2>2
<1> HIDE DEF Good
<1>5. ASSUME NEW l \in TaskIds, NEW pc \in {"success", "failure"},
             task' = [task EXCEPT ![l] = [IdleTask EXCEPT !.pc = pc]]
      PROVE  Good
  <2> DEFINE new == [IdleTask EXCEPT !.pc = pc]
  <2>1. new \in Tasks /\ new.pc = pc
    BY DEF Tasks, IdleTask
  <2>2. TaskMoves(task[l], new)
    BY <2>1 DEF TaskMoves
  <2> HIDE DEF new
  <2> QED BY <1>4, <1>5, <2>1, <2>2 DEF new
<1>6. ASSUME NEW l \in TaskIds, NEW message \in SUBSET Windows,
             task' = [task EXCEPT ![l] = [IdleTask EXCEPT !.pc = "next", !.message = message, !.left = message]]
      PROVE  Good
  <2> DEFINE new == [IdleTask EXCEPT !.pc = "next", !.message = message, !.left = message]
  <2>1. new \in Tasks /\ new.pc = "next"
    BY DEF Tasks, IdleTask
  <2>2. TaskMoves(task[l], new)
    BY <2>1 DEF TaskMoves
  <2> HIDE DEF new
  <2> QED BY <1>4, <1>6, <2>1, <2>2 DEF new
<1>7. ASSUME NEW c \in Clients, NEW l \in TaskIds, EnqueueScan(c, l)
      PROVE  Good
  <2>1. request[c].missing \in SUBSET Windows
    BY <1>1 DEF Requests
  <2> QED BY <1>6, <1>7, <2>1 DEF EnqueueScan
<1>8. ASSUME NEW l \in TaskIds, Redeliver(l)
      PROVE  Good
  BY <1>2, <1>6, <1>8 DEF Redeliver
<1>9. ASSUME NEW l \in TaskIds, FetchRaises(l)
      PROVE  Good
  BY <1>5, <1>9 DEF FetchRaises
<1>10. ASSUME NEW l \in TaskIds, NextWindow(l)
       PROVE  Good
  <2>1. CASE task[l].left = {}
    BY <1>5, <1>10, <2>1 DEF NextWindow
  <2>2. CASE task[l].left # {}
    <3>1. PICK w \in task[l].left :
            task' = [task EXCEPT ![l].pc = "fetch", ![l].window = w,
                                 ![l].pending = {PaddedWindow(w)}, ![l].candles = {}]
      BY <1>10, <2>2 DEF NextWindow
    <3> DEFINE new == [task[l] EXCEPT !.pc = "fetch", !.window = w,
                                      !.pending = {PaddedWindow(w)}, !.candles = {}]
    <3>2. w \in Windows /\ {PaddedWindow(w)} \in SUBSET Marks
      BY <1>1, <1>2, PaddedFacts
    <3>3. task' = [task EXCEPT ![l] = new]
      BY <1>1, <3>1
    <3>4. new \in Tasks /\ new.pc = "fetch" /\ new.window = w /\ new.pending = {PaddedWindow(w)}
      BY <1>2, <3>2 DEF Tasks, Marks
    <3> HIDE DEF new
    <3>5. TaskMoves(task[l], new)
      BY <3>2, <3>4 DEF TaskMoves
    <3> QED BY <1>4, <3>3, <3>4, <3>5
  <2> QED BY <2>1, <2>2
<1>11. ASSUME NEW l \in TaskIds, FetchPage(l)
       PROVE  Good
  <2>1. PICK part \in task[l].pending :
          \E page \in Pages(part) :
            task' = [task EXCEPT ![l].candles = @ \cup page,
                                 ![l].pending = (@ \ {part}) \cup Rest(part, page)]
    BY <1>11 DEF FetchPage
  <2>2. PICK page \in Pages(part) :
          task' = [task EXCEPT ![l].candles = @ \cup page,
                               ![l].pending = (@ \ {part}) \cup Rest(part, page)]
    BY <2>1
  <2> DEFINE candles == task[l].candles \cup page
             pending == (task[l].pending \ {part}) \cup Rest(part, page)
             new == [task[l] EXCEPT !.candles = candles, !.pending = pending]
  <2>3. candles \in SUBSET (0..Horizon) /\ pending \in SUBSET Marks
    <3>1. part \in Marks
      BY <1>2
    <3>2. page \in SUBSET (0..Horizon) /\ Rest(part, page) \in SUBSET Marks
      BY <1>1, <3>1, PageFacts
    <3> QED BY <1>2, <3>2
  <2>4. task' = [task EXCEPT ![l] = new]
    BY <1>1, <2>2
  <2>5. task[l].pc = "fetch"
    BY <1>11 DEF FetchPage
  <2> HIDE DEF candles, pending
  <2>6. /\ new \in Tasks /\ new.pc = "fetch" /\ new.window = task[l].window
        /\ new.candles = candles /\ new.pending = pending
    BY <1>2, <2>3, <2>5 DEF Tasks, Marks
  <2> HIDE DEF new
  <2>7. TaskMoves(task[l], new)
    BY <2>5, <2>6 DEF TaskMoves, candles, pending
  <2> QED BY <1>4, <2>4, <2>6, <2>7
<1>12. ASSUME NEW l \in TaskIds, SavePatterns(l) \/ SaveFails(l)
       PROVE  Good
  <2> DEFINE new == [task[l] EXCEPT !.pc = "record", !.candles = {}]
  <2>1. /\ task[l].pc = "fetch" /\ task[l].pending = {}
        /\ task' = [task EXCEPT ![l].pc = "record", ![l].candles = {}]
    BY <1>12 DEF SavePatterns, SaveFails
  <2>2. \A p \in Found(task[l].candles) : Inside(p, task[l].window) => p \in stored' \cup lost'
    BY <1>12 DEF SavePatterns, SaveFails
  <2>3. task' = [task EXCEPT ![l] = new]
    BY <1>1, <2>1
  <2>4. new \in Tasks /\ new.pc = "record" /\ new.window = task[l].window
    BY <1>2 DEF Tasks
  <2> HIDE DEF new
  <2>5. TaskMoves(task[l], new)
    BY <2>1, <2>2, <2>4 DEF TaskMoves
  <2> QED BY <1>4, <2>3, <2>4, <2>5
<1>13. ASSUME NEW l \in TaskIds, WindowDone(l)
       PROVE  Good
  <2> DEFINE new == [task[l] EXCEPT !.pc = "next", !.left = @ \ {task[l].window}, !.window = NoWindow]
  <2>1. task' = [task EXCEPT ![l] = new]
    BY <1>1, <1>13 DEF WindowDone
  <2>2. new \in Tasks /\ new.pc = "next"
    BY <1>2 DEF Tasks
  <2> HIDE DEF new
  <2>3. TaskMoves(task[l], new)
    BY <2>2 DEF TaskMoves
  <2> QED BY <1>4, <2>1, <2>2, <2>3
<1>14. \/ task' = task
       \/ \E c \in Clients : \E l \in TaskIds : EnqueueScan(c, l)
       \/ \E l \in TaskIds : \/ NextWindow(l) \/ FetchPage(l) \/ SavePatterns(l) \/ SaveFails(l)
                             \/ WindowDone(l) \/ Redeliver(l) \/ FetchRaises(l)
  BY DEF Next, vars, Api, Worker, Fault, CandleCloses, Ask, AskAgain, ReadPatterns, Ensure,
         StillComputing, NotComputing, RecordWindow, RecordFails, SyncFetch, SyncSave, SyncRecord,
         CompactRead, CompactCommit, SyncSaveFails, ApiRestarts, TaskStale, jobs
<1>15. Good
  BY <1>3, <1>7, <1>8, <1>9, <1>10, <1>11, <1>12, <1>13, <1>14
<1> QED BY <1>15 DEF Good

(* What a step makes of the sync.                                          *)
LEMMA SyncStep ==
  ASSUME TypeOK, [Next]_vars
  PROVE  /\ sync' \in [pc : {"idle", "save", "record", "done"}, last : 0..Horizon]
         /\ \/ sync' = sync
            \/ sync'.pc = "save" /\ sync'.last = now
            \/ sync'.pc = "done"
            \/ /\ sync.pc = "save" /\ sync'.pc = "record" /\ sync'.last = sync.last
               /\ Found(SyncFrom..sync.last) \subseteq stored' \cup lost'
<1>1. /\ sync \in [pc : {"idle", "save", "record", "done"}, last : 0..Horizon]
      /\ now \in Start..Horizon /\ Start \in Nat /\ Horizon \in Nat
  BY ConstantsAssumption DEF TypeOK
<1>2. \/ sync' = sync \/ SyncFetch \/ SyncSave \/ SyncSaveFails \/ SyncRecord
  BY DEF Next, vars, Api, Worker, Fault, CandleCloses, Ask, AskAgain, ReadPatterns, Ensure,
         StillComputing, NotComputing, EnqueueScan, NextWindow, FetchPage, SavePatterns, RecordWindow,
         CompactRead, CompactCommit, Redeliver, FetchRaises, RecordFails, SaveFails, ApiRestarts,
         TaskStale, jobs, worker, CountFault
<1>3. CASE SyncFetch
  BY <1>1, <1>3 DEF SyncFetch
<1>4. CASE SyncSave \/ SyncSaveFails
  <2>1. sync.pc = "save" /\ sync' = [sync EXCEPT !.pc = "record"]
    BY <1>4 DEF SyncSave, SyncSaveFails
  <2>2. Found(SyncFrom..sync.last) \subseteq stored' \cup lost'
    BY <1>4 DEF SyncSave, SyncSaveFails, SyncFrom
  <2> QED BY <1>1, <2>1, <2>2
<1>5. CASE SyncRecord
  BY <1>1, <1>5 DEF SyncRecord
<1> QED BY <1>1, <1>2, <1>3, <1>4, <1>5

-----------------------------------------------------------------------------
(* The window that the sync records.                                       *)
LEMMA SyncWindowIs ==
  ASSUME TypeOK
  PROVE  /\ SyncWindow[1] = SyncFrom + Pad /\ SyncFrom \in Nat /\ SyncFrom + Pad \in Nat
         /\ SyncWindow[1] < SyncWindow[2] => SyncWindow \in Windows
<1>1. /\ sync.last \in Nat /\ now \in Nat /\ now <= Horizon
      /\ {Horizon, Pad, Recent} \subseteq Nat
  BY ConstantsAssumption DEF TypeOK
<1>2. SyncFrom \in Nat /\ SyncFrom + Pad \in Nat /\ Lower(now, sync.last + 1) \in 0..Horizon
  BY <1>1 DEF SyncFrom, Upper, Lower
<1>3. SyncWindow = <<SyncFrom + Pad, Lower(now, sync.last + 1)>>
  BY DEF SyncWindow, SyncFrom
<1> QED BY <1>1, <1>2, <1>3 DEF Windows

(* A step keeps the types.                                                 *)
LEMMA TypeStep ==
  ASSUME IInv, [Next]_vars
  PROVE  TypeOK'
<1>1. TypeOK /\ ReadFacts /\ TaskFacts
  BY DEF IInv
<1>2. request' \in [Clients -> Requests] /\ task' \in [TaskIds -> Tasks]
  BY <1>1, RequestStep, TaskStep
<1>3. sync' \in [pc : {"idle", "save", "record", "done"}, last : 0..Horizon]
  BY <1>1, SyncStep
<1>4. rows' \in SUBSET Windows /\ locked' \in SUBSET Windows
  <2>1. rows \in SUBSET Windows /\ locked \in SUBSET Windows /\ Span \in Nat
    BY <1>1, ConstantsAssumption DEF TypeOK
  <2>2. Merge(locked, Span) \in SUBSET Windows
    BY <2>1, MergeType
  <2>3. ASSUME NEW w \in rows' PROVE w \in Windows
    BY <1>1, <2>1, <2>2, RowsStep, SyncWindowIs DEF TaskFacts
  <2> QED BY <2>1, <2>3, RowsStep
<1>5. stored' \in SUBSET Patterns /\ lost' \in SUBSET Patterns
  <2>1. \A candles : Found(candles) \in SUBSET Patterns
    BY DEF Found
  <2>2. stored' \subseteq stored \cup Patterns
    BY <2>1 DEF Next, vars, Api, Worker, Fault, CandleCloses, Ask, AskAgain, ReadPatterns, Ensure,
         StillComputing, NotComputing, EnqueueScan, NextWindow, FetchPage, SavePatterns, RecordWindow,
         SyncFetch, SyncSave, SyncRecord, CompactRead, CompactCommit, Redeliver, FetchRaises,
         RecordFails, SaveFails, SyncSaveFails, ApiRestarts, TaskStale, db, worker
  <2>3. lost' \subseteq lost \cup Patterns
    BY <2>1 DEF Next, vars, Api, Worker, Fault, CandleCloses, Ask, AskAgain, ReadPatterns, Ensure,
         StillComputing, NotComputing, EnqueueScan, NextWindow, FetchPage, SavePatterns, RecordWindow,
         SyncFetch, SyncSave, SyncRecord, CompactRead, CompactCommit, Redeliver, FetchRaises,
         RecordFails, SaveFails, SyncSaveFails, ApiRestarts, TaskStale, db, worker
  <2> QED BY <1>1, <2>2, <2>3 DEF TypeOK
<1>6. now' \in Start..Horizon
  <2>1. now' = now \/ (now < Horizon /\ now' = now + 1)
    BY DEF Next, vars, Api, Worker, Fault, CandleCloses, Ask, AskAgain, ReadPatterns, Ensure,
         StillComputing, NotComputing, EnqueueScan, NextWindow, FetchPage, SavePatterns, RecordWindow,
         SyncFetch, SyncSave, SyncRecord, CompactRead, CompactCommit, Redeliver, FetchRaises,
         RecordFails, SaveFails, SyncSaveFails, ApiRestarts, TaskStale, worker, CountFault
  <2>2. now \in Start..Horizon /\ Start \in Nat /\ Horizon \in Nat
    BY <1>1, ConstantsAssumption DEF TypeOK
  <2> QED BY <2>1, <2>2
<1>7. inflight' \in TaskIds \cup {NoTask}
  <2>1. inflight' \in {inflight, NoTask} \/ inflight' \in TaskIds
    BY DEF Next, vars, Api, Worker, Fault, CandleCloses, Ask, AskAgain, ReadPatterns, Ensure,
         StillComputing, NotComputing, EnqueueScan, NextWindow, FetchPage, SavePatterns, RecordWindow,
         SyncFetch, SyncSave, SyncRecord, CompactRead, CompactCommit, Redeliver, FetchRaises,
         RecordFails, SaveFails, SyncSaveFails, ApiRestarts, TaskStale, worker
  <2> QED BY <1>1, <2>1 DEF TypeOK
<1>8. faults' \in 0..MaxFaults
  <2>1. faults' = faults \/ (faults < MaxFaults /\ faults' = faults + 1)
    BY DEF Next, vars, Api, Worker, Fault, CandleCloses, Ask, AskAgain, ReadPatterns, Ensure,
         StillComputing, NotComputing, EnqueueScan, NextWindow, FetchPage, SavePatterns, RecordWindow,
         SyncFetch, SyncSave, SyncRecord, CompactRead, CompactCommit, Redeliver, FetchRaises,
         RecordFails, SaveFails, SyncSaveFails, ApiRestarts, TaskStale, worker, CountFault
  <2>2. faults \in 0..MaxFaults /\ MaxFaults \in Nat
    BY <1>1, ConstantsAssumption DEF TypeOK
  <2> QED BY <2>1, <2>2
<1> QED BY <1>2, <1>3, <1>4, <1>5, <1>6, <1>7, <1>8 DEF TypeOK

-----------------------------------------------------------------------------
(* The invariant holds at first ...                                        *)
LEMMA InitInv == Init => IInv
<1> SUFFICES ASSUME Init PROVE IInv
  OBVIOUS
<1>1. /\ {Horizon, Start, Span, Pad, MaxFaults} \subseteq Nat /\ Start <= Horizon
      /\ Histories \subseteq SUBSET {w \in Windows : w[2] <= Start}
  BY ConstantsAssumption
<1>2. rows \in SUBSET Windows /\ stored \in SUBSET Patterns
  BY <1>1 DEF Init
<1>3. request \in [Clients -> Requests] /\ \A c \in Clients : request[c].pc = "idle"
  BY DEF Init, IdleRequest, Requests
<1>4. task \in [TaskIds -> Tasks] /\ \A k \in TaskIds : task[k].pc = "none"
  BY DEF Init, IdleTask, Tasks
<1>5. sync \in [pc : {"idle", "save", "record", "done"}, last : 0..Horizon] /\ sync.pc = "idle"
  BY <1>1 DEF Init, IdleSync
<1>6. TypeOK
  <2>1. now \in Start..Horizon /\ faults \in 0..MaxFaults
    BY <1>1 DEF Init
  <2> QED BY <1>2, <1>3, <1>4, <1>5, <2>1 DEF Init, TypeOK
<1>7. CoveredIsStored
  BY DEF Init, CoveredIsStored, Confirmed
<1>8. CompleteIsComplete /\ LockedRows /\ ReadFacts /\ TaskFacts /\ SyncFacts
  BY <1>3, <1>4, <1>5 DEF Init, CompleteIsComplete, LockedRows, ReadFacts, TaskFacts, SyncFacts
<1> QED BY <1>6, <1>7, <1>8 DEF IInv

(* The facts that the type invariant gives a step.                         *)
LEMMA Known ==
  ASSUME IInv, [Next]_vars
  PROVE  /\ TypeOK /\ CoveredIsStored /\ CompleteIsComplete /\ LockedRows /\ ReadFacts
         /\ TaskFacts /\ SyncFacts
         /\ rows \in SUBSET Windows /\ locked \in SUBSET Windows /\ Span \in Nat
         /\ stored \subseteq stored' /\ lost \subseteq lost'
         /\ \A p \in Confirmed : p \in Patterns /\ p \in Windows /\ p[2] - p[1] <= Span
  BY KnownGrows, ConstantsAssumption DEF IInv, TypeOK, Confirmed, Patterns

(* A new row is a merged one, whose patterns lay within a locked row, or   *)
(* one whose patterns a task or the sync has saved.                        *)
LEMMA CoveredStep ==
  ASSUME IInv, [Next]_vars
  PROVE  CoveredIsStored'
<1>1. SUFFICES ASSUME NEW p \in Confirmed, NEW w \in rows', Inside(p, w)
               PROVE  p \in stored' \cup lost'
  BY DEF CoveredIsStored, Confirmed, Inside
<1>2. CASE w \in rows
  BY <1>1, <1>2, Known DEF CoveredIsStored
<1>3. CASE w \in Merge(locked, Span)
  <2>1. PICK v \in locked : Inside(p, v)
    BY <1>1, <1>3, Known, MergeSound
  <2> QED BY <2>1, Known DEF CoveredIsStored, LockedRows
<1>4. ASSUME NEW k \in TaskIds, task[k].pc = "record", w = task[k].window
      PROVE  p \in stored' \cup lost'
  BY <1>1, <1>4, Known DEF TaskFacts
<1>5. CASE sync.pc = "record" /\ w = SyncWindow
  <2>1. SyncFrom + Pad <= p[1]
    BY <1>1, <1>5, Known, SyncWindowIs DEF Inside
  <2> QED BY <1>5, <2>1, Known DEF SyncFacts
<1> QED BY <1>2, <1>3, <1>4, <1>5, RowsStep

(* An answer is complete when nothing was missing as its windows were      *)
(* read: what was known then is in the table when the patterns are read.   *)
LEMMA RequestFactsStep ==
  ASSUME IInv, [Next]_vars
  PROVE  CompleteIsComplete' /\ ReadFacts'
<1>1. ASSUME NEW c \in Clients
      PROVE  /\ request'[c].pc = "complete" =>
                  \A p \in Confirmed : Inside(p, request'[c].range) => p \in request'[c].patterns \cup lost'
             /\ request'[c].pc # "idle" => request'[c].range \in Ranges
             /\ request'[c].pc = "read" /\ request'[c].missing = {} =>
                  \A p \in Confirmed : Inside(p, request'[c].range) => p \in stored' \cup lost'
  <2> DEFINE old == request[c]
             new == request'[c]
  <2>1. /\ old.pc # "idle" => old.range \in Ranges
        /\ old.pc = "read" /\ old.missing = {} =>
             \A p \in Confirmed : Inside(p, old.range) => p \in stored \cup lost
        /\ old.pc = "complete" =>
             \A p \in Confirmed : Inside(p, old.range) => p \in old.patterns \cup lost
    BY Known DEF ReadFacts, CompleteIsComplete
  <2>2. RequestMoves(old, new)
    BY RequestStep, Known
  <2>3. \A p : (p \in lost => p \in lost') /\ (p \in stored \cup lost => p \in stored' \cup lost')
    BY Known
  <2> HIDE DEF old, new
  <2>4. CASE new = old
    BY <2>1, <2>3, <2>4 DEF old, new
  <2>5. CASE new.pc = "read" /\ new.range \in Ranges /\ new.missing = MissingWindows(new.range, rows)
    <3>1. ASSUME new.missing = {}, NEW p \in Confirmed, Inside(p, new.range)
          PROVE  p \in stored' \cup lost'
      <4>1. new.range \in Windows
        BY <2>5, ConstantsAssumption
      <4>2. PICK w \in rows \cup MissingWindows(new.range, rows) : Inside(p, w)
        BY <3>1, <4>1, Known, MissingCovers
      <4>3. w \in rows
        BY <2>5, <3>1, <4>2
      <4> QED BY <4>2, <4>3, <2>3, Known DEF CoveredIsStored
    <3> QED BY <2>5, <3>1 DEF new
  <2>6. CASE /\ old.pc = "read" /\ old.missing = {} /\ new.pc = "complete" /\ new.range = old.range
             /\ new.patterns = {p \in stored : Inside(p, old.range)}
    BY <2>1, <2>3, <2>6 DEF old, new
  <2>7. CASE old.pc # "idle" /\ new.pc \notin {"read", "complete"} /\ new.range = old.range
    BY <2>1, <2>7 DEF old, new
  <2>8. CASE new = IdleRequest
    BY <2>8 DEF IdleRequest, new
  <2> QED BY <2>2, <2>4, <2>5, <2>6, <2>7, <2>8 DEF RequestMoves
<1> QED BY <1>1 DEF CompleteIsComplete, ReadFacts, Confirmed, Inside

(* The pages and what is left of the parts keep the candles of the window  *)
(* together, so that its patterns are among those found when all is here.  *)
LEMMA TaskFactsStep ==
  ASSUME IInv, [Next]_vars
  PROVE  TaskFacts'
<1> DEFINE Fetched(t) ==
             \A i \in 0..Start : t.window[1] - Pad <= i /\ i <= t.window[2] + Pad =>
               i \in t.candles \/ \E part \in t.pending : part[1] <= i /\ i <= part[2]
<1>1. ASSUME NEW k \in TaskIds
      PROVE  /\ task'[k].pc \in {"fetch", "record"} => task'[k].window \in Windows
             /\ task'[k].pc = "fetch" => Fetched(task'[k])
             /\ task'[k].pc = "record" =>
                  \A p \in Confirmed : Inside(p, task'[k].window) => p \in stored' \cup lost'
  <2> DEFINE old == task[k]
             new == task'[k]
  <2>1. /\ old.pc \in {"fetch", "record"} => old.window \in Windows
        /\ old.pc = "fetch" => Fetched(old)
        /\ old.pc = "record" =>
             \A p \in Confirmed : Inside(p, old.window) => p \in stored \cup lost
    BY Known DEF TaskFacts
  <2>2. TaskMoves(old, new)
    BY TaskStep, Known
  <2>3. /\ \A p : p \in stored \cup lost => p \in stored' \cup lost'
        /\ old.pending \in SUBSET Marks /\ now \in Start..Horizon
    <3>1. old \in Tasks /\ now \in Start..Horizon
      BY Known DEF TypeOK
    <3> QED BY <3>1, Known DEF Tasks, Marks
  <2>4. now \in 0..Horizon /\ \A i \in 0..Start : i \in 0..now /\ i \in Nat
    BY <2>3, ConstantsAssumption
  <2> HIDE DEF old, new, Fetched
  <2>5. CASE new = old
    BY <2>1, <2>3, <2>5 DEF old, new
  <2>6. CASE new.pc \notin {"fetch", "record"}
    BY <2>6 DEF new
  <2>7. CASE new.pc = "fetch" /\ new.window \in Windows /\ new.pending = {PaddedWindow(new.window)}
    <3>1. \A i \in 0..Start : new.window[1] - Pad <= i /\ i <= new.window[2] + Pad =>
            PaddedWindow(new.window)[1] <= i /\ i <= PaddedWindow(new.window)[2]
      BY <2>3, <2>7, PaddedFacts
    <3>2. Fetched(new)
      BY <2>7, <3>1 DEF Fetched
    <3> QED BY <2>7, <3>2 DEF new
  <2>8. CASE /\ old.pc = "fetch" /\ new.pc = "fetch" /\ new.window = old.window
             /\ \E part \in old.pending : \E page \in Pages(part) :
                  /\ new.candles = old.candles \cup page
                  /\ new.pending = (old.pending \ {part}) \cup Rest(part, page)
    <3>1. PICK part \in old.pending : \E page \in Pages(part) :
                  /\ new.candles = old.candles \cup page
                  /\ new.pending = (old.pending \ {part}) \cup Rest(part, page)
      BY <2>8
    <3>2. PICK page \in Pages(part) :
                  /\ new.candles = old.candles \cup page
                  /\ new.pending = (old.pending \ {part}) \cup Rest(part, page)
      BY <3>1
    <3>3. part \in Marks
      BY <2>3
    <3>4. \A i \in 0..now : part[1] <= i /\ i <= part[2] =>
            i \in page \/ \E r \in Rest(part, page) : r[1] <= i /\ i <= r[2]
      BY <2>4, <3>3, PageFacts
    <3>5. ASSUME NEW i \in 0..Start, new.window[1] - Pad <= i, i <= new.window[2] + Pad
          PROVE  i \in new.candles \/ \E r \in new.pending : r[1] <= i /\ i <= r[2]
      <4>1. i \in old.candles \/ \E r \in old.pending : r[1] <= i /\ i <= r[2]
        BY <2>1, <2>8, <3>5 DEF Fetched
      <4>2. CASE i \in old.candles
        BY <3>2, <4>2
      <4>3. ASSUME NEW r \in old.pending, r[1] <= i, i <= r[2]
            PROVE  i \in new.candles \/ \E s \in new.pending : s[1] <= i /\ i <= s[2]
        <5>1. CASE r # part
          BY <3>2, <4>3, <5>1
        <5>2. CASE r = part
          <6>1. i \in page \/ \E s \in Rest(part, page) : s[1] <= i /\ i <= s[2]
            BY <2>4, <3>4, <4>3, <5>2
          <6> QED BY <3>2, <6>1
        <5> QED BY <5>1, <5>2
      <4> QED BY <4>1, <4>2, <4>3
    <3>6. Fetched(new)
      BY <3>5 DEF Fetched
    <3> QED BY <2>1, <2>8, <3>6 DEF new
  <2>9. CASE /\ old.pc = "fetch" /\ new.pc = "record" /\ new.window = old.window /\ old.pending = {}
             /\ \A p \in Found(old.candles) : Inside(p, old.window) => p \in stored' \cup lost'
    <3>1. \A i \in 0..Start : old.window[1] - Pad <= i /\ i <= old.window[2] + Pad => i \in old.candles
      BY <2>1, <2>9 DEF Fetched
    <3>2. \A p \in Confirmed : Inside(p, old.window) => p \in Found(old.candles)
      BY <2>1, <2>9, <3>1, FoundIn
    <3> QED BY <2>1, <2>9, <3>2 DEF new
  <2> QED BY <2>2, <2>5, <2>6, <2>7, <2>8, <2>9 DEF TaskMoves
<1> QED BY <1>1 DEF TaskFacts, Confirmed, Inside

(* The page of the sync has the candles of its patterns.                   *)
LEMMA SyncFactsStep ==
  ASSUME IInv, [Next]_vars
  PROVE  SyncFacts'
<1>1. /\ \A p : p \in stored \cup lost => p \in stored' \cup lost'
      /\ now \in Start..Horizon /\ Start \in Nat /\ Pad \in Nat /\ SyncFacts /\ sync.last \in Nat
      /\ SyncFrom \in Nat
  BY Known, SyncWindowIs, ConstantsAssumption DEF TypeOK
<1>2. /\ sync' = sync \/ (sync'.pc = "record" /\ sync'.last = sync.last) => SyncFrom' = SyncFrom
  BY DEF SyncFrom
<1>3. CASE sync' = sync
  BY <1>1, <1>2, <1>3 DEF SyncFacts, Confirmed
<1>4. CASE sync'.pc = "save" /\ sync'.last = now
  BY <1>1, <1>4 DEF SyncFacts
<1>5. CASE sync'.pc = "done"
  BY <1>5 DEF SyncFacts
<1>6. CASE /\ sync.pc = "save" /\ sync'.pc = "record" /\ sync'.last = sync.last
           /\ Found(SyncFrom..sync.last) \subseteq stored' \cup lost'
  <2>1. Start <= sync.last
    BY <1>1, <1>6 DEF SyncFacts
  <2>2. ASSUME NEW p \in Confirmed, SyncFrom + Pad <= p[1] PROVE p \in Found(SyncFrom..sync.last)
    <3>1. p \in Patterns /\ p[1] \in Nat /\ p[2] \in Nat /\ p[2] + Pad <= Start
      BY Parts DEF Confirmed, Patterns
    <3>2. (p[1] - Pad)..(p[2] + Pad) \subseteq SyncFrom..sync.last
      BY <1>1, <2>1, <2>2, <3>1
    <3> QED BY <3>1, <3>2 DEF Found
  <2>3. \A p \in Confirmed : SyncFrom + Pad <= p[1] => p \in stored' \cup lost'
    BY <1>6, <2>2
  <2> QED BY <1>2, <1>6, <2>1, <2>3 DEF SyncFacts, Confirmed
<1> QED BY <1>3, <1>4, <1>5, <1>6, SyncStep, Known

(* ... and every step keeps it.                                            *)
LEMMA NextInv == IInv /\ [Next]_vars => IInv'
<1> SUFFICES ASSUME IInv, [Next]_vars PROVE IInv'
  OBVIOUS
<1>1. LockedRows'
  BY RowsStep, Known DEF LockedRows
<1> QED BY <1>1, TypeStep, CoveredStep, RequestFactsStep, TaskFactsStep, SyncFactsStep DEF IInv

(* The invariant always holds.                                             *)
LEMMA Invariant == Spec => []IInv
<1>1. Init => IInv
  BY InitInv
<1>2. IInv /\ [Next]_vars => IInv'
  BY NextInv
<1> QED BY <1>1, <1>2, PTL DEF Spec

-----------------------------------------------------------------------------
(* Every variable keeps its type.                                          *)
THEOREM TypeCorrect == Spec => []TypeOK
<1>1. IInv => TypeOK
  BY DEF IInv
<1> QED BY <1>1, Invariant, PTL

(* A pattern that lies within one recorded window is in the table, unless  *)
(* its save failed unnoticed (harmonic_scan.py, lines 9-15).               *)
THEOREM StoredTheorem == Spec => []CoveredIsStored
<1>1. IInv => CoveredIsStored
  BY DEF IInv
<1> QED BY <1>1, Invariant, PTL

(* An answer that says "complete" has all patterns of its range that were  *)
(* ever saved (controller_rest_domain_harmonics.py, line 9).               *)
THEOREM CompleteTheorem == Spec => []CompleteIsComplete
<1>1. IInv => CompleteIsComplete
  BY DEF IInv
<1> QED BY <1>1, Invariant, PTL

(* What lies within one window goes on to, also while rows are inserted    *)
(* during a compaction (compact, lines 95-120).                            *)
THEOREM CoverageTheorem == Spec => CoverageGrows
<1>1. ASSUME IInv, [Next]_vars, NEW p \in Patterns, NEW w \in rows, Inside(p, w)
      PROVE  \E v \in rows' : Inside(p, v)
  <2>1. CASE w \in rows'
    BY <1>1, <2>1
  <2>2. CASE w \in locked /\ Merge(locked, Span) \subseteq rows'
    <3>1. w \in Windows /\ locked \in SUBSET Windows /\ Span \in Nat
      BY <1>1, Known
    <3>2. PICK v \in Merge(locked, Span) : v[1] <= w[1] /\ w[2] <= v[2]
      BY <2>2, <3>1, MergeCovers
    <3>3. v \in Windows
      BY <3>1, <3>2, MergeType
    <3>4. /\ w[1] \in Nat /\ w[2] \in Nat /\ v[1] \in Nat /\ v[2] \in Nat
          /\ p[1] \in Nat /\ p[2] \in Nat
      BY <3>1, <3>3, Parts DEF Patterns
    <3>5. Inside(p, v)
      BY <1>1, <3>2, <3>4 DEF Inside
    <3> QED BY <2>2, <3>2, <3>5
  <2> QED BY <1>1, <2>1, <2>2, RowsStep
<1>2. IInv /\ [Next]_vars =>
        [\A p \in Patterns : (\E w \in rows : Inside(p, w)) => \E w \in rows' : Inside(p, w)]_vars
  BY <1>1
<1> QED BY <1>2, Invariant, PTL DEF Spec, CoverageGrows

(* Whatever the table becomes: scans, the nightly sync, the compaction and *)
(* every fault leave windows from which missing_windows names what is      *)
(* missing.                                                                *)
THEOREM SufficesTheorem == Spec => MissingSuffices
<1>1. TypeOK' => [rows' # rows => \A range \in Windows : Suffices(range, rows')]_vars
  <2>1. TypeOK' => rows' \in SUBSET Windows
    BY DEF TypeOK
  <2>. QED BY <2>1, SufficesAlways
<1>. QED BY <1>1, TypeCorrect, PTL DEF MissingSuffices
=============================================================================
