--------------------------- MODULE KernelRoot_proofs --------------------------
(***************************************************************************)
(* Proofs about KernelRoot, for any tree of directories, any roots in it   *)
(* and any limit on a walk.                                                *)
(***************************************************************************)
EXTENDS KernelRoot, CountingTheorems

-----------------------------------------------------------------------------
(* Going up. *)

LEMMA Sizes ==
    /\ NDirectories \in Nat /\ Levels \in Nat /\ Levels >= 1
    /\ \A d \in Directories : d \in Nat
    /\ 0 \in Directories
    /\ None \notin Directories /\ Thrown \notin Directories /\ None # Thrown
BY RootAssumption DEF Directories, None, Thrown

LEMMA ParentIsBelow ==
    ASSUME NEW p \in Trees, NEW d \in Directories
    PROVE  /\ p[d] \in Directories /\ d \in Nat /\ p[d] \in Nat
           /\ d = 0 => p[d] = 0
           /\ d # 0 => p[d] < d
BY Sizes DEF Trees

LEMMA AscentDef ==
    ASSUME NEW p \in Trees, NEW d \in Directories
    PROVE  /\ Ascent(p, d)[0] = d
           /\ \A n \in 0 .. Levels : Ascent(p, d)[n] \in Directories
           /\ \A n \in 0 .. Levels - 1 : Ascent(p, d)[n + 1] = p[Ascent(p, d)[n]]
<1> DEFINE G == [q \in Nat \X Nat |-> IF q[2] \in Directories THEN p[q[2]] ELSE 0]
<1>1. G \in [Nat \X Nat -> Nat]
  BY ParentIsBelow
<1>2. \A k \in Nat, e \in Directories : e \in Nat /\ G[<<k, e>>] = p[e]
  BY Sizes
<1> HIDE DEF G
<1>3. d \in Nat /\ Levels \in Nat
  BY Sizes
<1>4. PICK f \in [0 .. Levels -> Nat] :
        f[0] = d /\ \A k \in 1 .. Levels : f[k] = G[<<k, f[k - 1]>>]
  BY <1>1, <1>3, Recursion
<1>5. \A k \in 0 .. Levels : f[k] \in Directories
  <2> DEFINE S == {k \in 0 .. Levels : f[k] \in Directories}
  <2>1. 0 \in S
    BY <1>3, <1>4
  <2>2. ASSUME NEW k \in 0 .. Levels, k \in S, k < Levels PROVE k + 1 \in S
    <3>1. PICK i \in 1 .. Levels : i = k + 1 /\ i - 1 = k /\ i \in 0 .. Levels /\ i \in Nat
      BY <1>3, <2>2
    <3>2. f[i] = G[<<i, f[k]>>]
      BY <1>4, <3>1
    <3>3. f[i] = p[f[k]]
      BY <1>2, <2>2, <3>1, <3>2
    <3> QED BY <2>2, <3>1, <3>3, ParentIsBelow
  <2> HIDE DEF S
  <2>3. \A k \in 0 .. Levels : k \in S
    BY <1>3, <2>1, <2>2, CountingUp
  <2> QED BY <2>3 DEF S
<1>6. ASSUME NEW k \in 0 .. Levels PROVE f[k] = IF k = 0 THEN d ELSE p[f[k - 1]]
  <2>1. CASE k # 0
    <3>1. k \in 1 .. Levels /\ k \in Nat /\ f[k - 1] \in Directories
      BY <1>3, <1>5, <2>1
    <3> QED BY <1>2, <1>4, <2>1, <3>1
  <2> QED BY <1>4, <2>1
<1>7. f = [n \in 0 .. Levels |-> IF n = 0 THEN d ELSE p[f[n - 1]]]
  BY <1>6
<1> DEFINE up == CHOOSE g : g = [n \in 0 .. Levels |-> IF n = 0 THEN d ELSE p[g[n - 1]]]
<1>8. up = [n \in 0 .. Levels |-> IF n = 0 THEN d ELSE p[up[n - 1]]]
  BY <1>7, Zenon
<1>9. Ascent(p, d) = up
  BY Zenon DEF Ascent
<1> HIDE DEF up
<1>10. \A n \in 0 .. Levels : up[n] = IF n = 0 THEN d ELSE p[up[n - 1]]
  BY <1>8
<1>11. up[0] = d
  BY <1>3, <1>10
<1>12. ASSUME NEW n \in 0 .. Levels - 1 PROVE up[n + 1] = p[up[n]]
  <2>1. PICK i \in 0 .. Levels : i = n + 1 /\ i - 1 = n /\ i # 0
    BY <1>3
  <2> QED BY <1>10, <2>1
<1>13. \A n \in 0 .. Levels : up[n] \in Directories
  <2> DEFINE S == {k \in 0 .. Levels : up[k] \in Directories}
  <2>1. 0 \in S
    BY <1>3, <1>11
  <2>2. ASSUME NEW k \in 0 .. Levels, k \in S, k < Levels PROVE k + 1 \in S
    <3>1. k \in 0 .. Levels - 1 /\ k + 1 \in 0 .. Levels
      BY <1>3, <2>2
    <3> QED BY <1>12, <2>2, <3>1, ParentIsBelow
  <2> HIDE DEF S
  <2>3. \A k \in 0 .. Levels : k \in S
    BY <1>3, <2>1, <2>2, CountingUp
  <2> QED BY <2>3 DEF S
<1> QED BY <1>9, <1>11, <1>12, <1>13

\* The numbers of the directories go down, to the top and no further.
LEMMA AscentFalls ==
    ASSUME NEW p \in Trees, NEW d \in Directories, NEW m \in 0 .. Levels, NEW n \in 0 .. Levels,
           m < n
    PROVE  LET up == Ascent(p, d)
           IN  /\ up[m] \in Nat /\ up[n] \in Nat
               /\ up[n] <= up[m]
               /\ up[m] # 0 => up[n] < up[m]
<1> DEFINE up == Ascent(p, d)
           S == {k \in 0 .. Levels : k > m => up[k] <= up[m] /\ (up[m] # 0 => up[k] < up[m])}
<1>1. m \in Nat /\ n \in Nat /\ Levels \in Nat
  BY Sizes
<1>2. \A k \in 0 .. Levels : up[k] \in Directories /\ up[k] \in Nat
  BY AscentDef, Sizes
<1>3. \A k \in 0 .. Levels - 1 : up[k + 1] = p[up[k]]
  BY AscentDef
<1> HIDE DEF up
<1>4. 0 \in S
  BY <1>1
<1>5. ASSUME NEW k \in 0 .. Levels, k \in S, k < Levels PROVE k + 1 \in S
  <2>1. k \in 0 .. Levels - 1 /\ k + 1 \in 0 .. Levels
    BY <1>1, <1>5
  <2>2. /\ up[k + 1] = p[up[k]] /\ up[k] \in Directories /\ up[k] \in Nat /\ up[k + 1] \in Nat
        /\ up[m] \in Nat
    BY <1>2, <1>3, <2>1
  <2>3. (up[k] = 0 => up[k + 1] = 0) /\ (up[k] # 0 => up[k + 1] < up[k])
    BY <2>2, ParentIsBelow
  <2>4. CASE k > m
    BY <1>1, <1>5, <2>1, <2>2, <2>3, <2>4
  <2>5. CASE k = m
    BY <1>1, <2>1, <2>2, <2>3, <2>5
  <2>6. CASE k < m
    BY <1>1, <2>1, <2>6
  <2> QED BY <1>1, <2>4, <2>5, <2>6
<1> HIDE DEF S
<1>6. \A k \in 0 .. Levels : k \in S
  BY <1>1, <1>4, <1>5, CountingUp
<1> QED BY <1>2, <1>6 DEF S, up

\* The greatest of a set is the nearest.
LEMMA NearestIs ==
    ASSUME NEW found, found \subseteq Directories, NEW d \in found, \A e \in found : e <= d
    PROVE  Nearest(found) = d
<1>1. \A e \in found : e \in Nat
  BY Sizes
<1>2. \A e \in found : (\A o \in found : o <= e) => e = d
  BY <1>1
<1> QED BY <1>2 DEF Nearest

-----------------------------------------------------------------------------
(* The search. *)

\* What the search works on stays.
LEMMA SameTree ==
    ASSUME parent' = parent, roots' = roots, candidates' = candidates
    PROVE  /\ Shallow' = Shallow
           /\ \A j : /\ Upward(candidates[j])' = Upward(candidates[j])
                     /\ InReach(candidates[j])' = InReach(candidates[j])
BY DEF Shallow, Upward, InReach

\* The walk under way, and the path it is on.
LEMMA WalkFacts ==
    ASSUME RootInv, result # Thrown
    PROVE  LET c == candidates[walk]
               up == Upward(c)
           IN  /\ parent \in Trees /\ c \in Directories /\ dir \in Directories /\ dir = up[looked]
               /\ looked \in 0 .. Levels /\ looked \in Nat /\ Levels \in Nat /\ up[0] = c
               /\ walk \in 1 .. Len(candidates) /\ walk \in Nat /\ Len(candidates) \in Nat
               /\ \A n \in 0 .. looked - 1 :
                     up[n] \in seen /\ up[n] \notin roots /\ up[n] # 0
               /\ \A n \in 0 .. Levels : up[n] \in Directories
               /\ \A n \in 0 .. Levels - 1 : up[n + 1] = parent[up[n]]
               /\ InReach(c) = {up[n] : n \in 0 .. Levels - 1} \cap roots
<1> DEFINE c == candidates[walk]
<1>1. /\ parent \in Trees /\ dir \in Directories /\ looked \in 0 .. Levels
      /\ walk \in 1 .. Len(candidates) /\ candidates \in Seq(Directories)
  BY DEF RootInv, RootTypeOK
<1>2. c \in Directories /\ Len(candidates) \in Nat
  BY <1>1
<1>3. WalkInv
  BY DEF RootInv
<1>4. Upward(c) = Ascent(parent, c)
  BY DEF Upward
<1> QED BY <1>1, <1>2, <1>3, <1>4, AscentDef, Sizes DEF WalkInv, InReach

\* The first walk meets no directory twice.
LEMMA FirstWalkMeetsNone ==
    ASSUME RootInv, Searching, walk = 1
    PROVE  dir \notin seen
<1> DEFINE c == candidates[walk]
           up == Upward(c)
<1>1. /\ parent \in Trees /\ c \in Directories /\ dir = up[looked]
      /\ looked \in 0 .. Levels /\ looked \in Nat /\ Levels \in Nat
      /\ \A n \in 0 .. looked - 1 : up[n] # 0
  BY WalkFacts, Sizes DEF Searching
<1>2. seen = {up[n] : n \in 0 .. looked - 1}
  BY Sizes DEF RootInv, WalkInv, Searching
<1>3. ASSUME NEW n \in 0 .. looked - 1 PROVE up[n] # dir
  <2>1. n \in 0 .. Levels /\ n < looked /\ up[n] # 0
    BY <1>1
  <2>2. up[looked] < up[n] /\ up[n] \in Nat /\ up[looked] \in Nat
    BY <1>1, <2>1, AscentFalls DEF Upward
  <2> QED BY <1>1, <2>2
<1> QED BY <1>2, <1>3

\* A walk that is over without a root has none in reach, unless it was cut short.
LEMMA WalkEndsWithout ==
    ASSUME RootInv, Searching, walk = 1 \/ Shallow,
           \/ looked = Levels
           \/ dir \in seen
           \/ dir \notin roots /\ parent[dir] = dir
    PROVE  InReach(candidates[walk]) = {}
<1> DEFINE c == candidates[walk]
           up == Upward(c)
<1>1. /\ parent \in Trees /\ c \in Directories /\ dir \in Directories /\ dir = up[looked]
      /\ looked \in 0 .. Levels /\ looked \in Nat /\ Levels \in Nat
      /\ \A n \in 0 .. looked - 1 : up[n] \notin roots
      /\ \A n \in 0 .. Levels : up[n] \in Directories
      /\ \A n \in 0 .. Levels - 1 : up[n + 1] = parent[up[n]]
      /\ InReach(c) = {up[n] : n \in 0 .. Levels - 1} \cap roots
  BY WalkFacts, Sizes DEF Searching
<1>2. SUFFICES ASSUME NEW n \in 0 .. Levels - 1, n >= looked PROVE up[n] \notin roots
  BY <1>1
<1>3. CASE looked = Levels
  BY <1>1, <1>2, <1>3
<1>4. CASE dir \notin roots /\ parent[dir] = dir
  <2>1. dir = 0
    BY <1>1, <1>4, ParentIsBelow
  <2>2. up[n] = 0
    <3>1. CASE n = looked
      BY <1>1, <2>1, <3>1
    <3>2. CASE n > looked
      <4>1. n \in 0 .. Levels /\ looked < n
        BY <1>1, <3>2
      <4>2. up[n] <= up[looked] /\ up[n] \in Nat
        BY <1>1, <4>1, AscentFalls DEF Upward
      <4> QED BY <1>1, <2>1, <4>2
    <3> QED BY <1>1, <1>2, <3>1, <3>2
  <2> QED BY <1>4, <2>1, <2>2
<1>5. CASE dir \in seen
  <2>1. Shallow
    BY <1>5, FirstWalkMeetsNone
  <2>2. SeenInv
    BY DEF RootInv
  <2>3. seen \cap roots = {} /\ \A d \in seen : parent[d] \in seen
    BY <1>5, <2>1, <2>2 DEF SeenInv
  <2> HIDE DEF up
  <2> DEFINE S == {k \in 0 .. Levels : k >= looked => up[k] \in seen}
  <2>4. 0 \in S
    BY <1>1, <1>5
  <2>5. ASSUME NEW k \in 0 .. Levels, k \in S, k < Levels PROVE k + 1 \in S
    <3>1. k \in 0 .. Levels - 1 /\ k + 1 \in 0 .. Levels
      BY <1>1, <2>5
    <3>2. CASE k + 1 = looked
      BY <1>1, <1>5, <3>1, <3>2
    <3>3. CASE k >= looked
      BY <1>1, <2>3, <2>5, <3>1, <3>3
    <3> QED BY <1>1, <3>1, <3>2, <3>3
  <2> HIDE DEF S
  <2>6. \A k \in 0 .. Levels : k \in S
    BY <1>1, <2>4, <2>5, CountingUp
  <2>7. n \in S
    BY <1>1, <2>6
  <2> QED BY <1>2, <2>3, <2>7 DEF S
<1> QED BY <1>3, <1>4, <1>5

\* The walk from candidate i is over: of the candidates up to it none has a root.
LEMMA OneMoreWithout ==
    ASSUME RootInv, Searching,
           \/ looked = Levels
           \/ dir \in seen
           \/ dir \notin roots /\ parent[dir] = dir
    PROVE  NoRootBefore(walk + 1)
<1>1. NoRootBefore(walk)
  BY Sizes DEF RootInv, Searching
<1>2. walk \in Nat
  BY WalkFacts, Sizes DEF Searching
<1>3. ASSUME NEW j \in 1 .. walk, j = 1 \/ Shallow PROVE InReach(candidates[j]) = {}
  <2>1. CASE j = walk
    BY <1>3, <2>1, WalkEndsWithout
  <2>2. CASE j \in 1 .. walk - 1
    BY <1>1, <1>3, <2>2 DEF NoRootBefore
  <2> QED BY <1>2, <2>1, <2>2
<1> QED BY <1>2, <1>3 DEF NoRootBefore

\* The next candidate, when what was seen is closed upward.
LEMMA NextCandidateKeeps ==
    ASSUME RootInv, Searching, NextCandidate,
           parent' = parent, roots' = roots, candidates' = candidates,
           NoRootBefore(walk + 1),
           seen' \subseteq Directories, seen' \cap roots = {},
           Shallow => candidates[walk] \in seen' /\ seen \subseteq seen'
                      /\ \A d \in seen' : parent[d] \in seen'
    PROVE  RootInv'
<1>1. /\ RootTypeOK /\ SeenInv /\ candidates \in Seq(Directories)
      /\ walk \in 1 .. Len(candidates) /\ walk \in Nat /\ Len(candidates) \in Nat
      /\ parent \in Trees /\ Levels \in Nat /\ result = None
  BY WalkFacts, Sizes DEF RootInv, RootTypeOK, Searching
<1>2. CASE walk < Len(candidates)
  <2>1. /\ walk' = walk + 1 /\ dir' = candidates[walk + 1] /\ looked' = 0 /\ result' = None
    BY <1>1, <1>2 DEF NextCandidate
  <2>2. walk + 1 \in 1 .. Len(candidates) /\ candidates[walk + 1] \in Directories
    BY <1>1, <1>2
  <2>3. RootTypeOK'
    BY <1>1, <2>1, <2>2 DEF RootTypeOK
  <2>4. WalkInv'
    <3>1. Ascent(parent, candidates[walk + 1])[0] = candidates[walk + 1]
      BY <1>1, <2>2, AscentDef
    <3>2. walk' # 1
      BY <1>1, <2>1
    <3> QED BY <2>1, <3>1, <3>2 DEF WalkInv, Upward
  <2>5. SeenInv'
    <3>1. ASSUME Shallow, NEW j \in 1 .. walk PROVE candidates[j] \in seen'
      <4>1. CASE j = walk
        BY <3>1, <4>1
      <4>2. CASE j \in 1 .. walk - 1
        BY <1>1, <3>1, <4>2 DEF SeenInv, Searching
      <4> QED BY <1>1, <4>1, <4>2
    <3>2. (walk + 1) - 1 = walk
      BY <1>1
    <3>3. Shallow' = Shallow
      BY SameTree
    <3> QED BY <2>1, <3>1, <3>2, <3>3 DEF SeenInv
  <2>6. \A j \in 1 .. walk' - 1 : j = 1 \/ Shallow' => InReach(candidates[j])' = {}
    BY <2>1, SameTree DEF NoRootBefore
  <2> QED BY <2>1, <2>3, <2>4, <2>5, <2>6, Sizes DEF RootInv, NoRootBefore
<1>3. CASE walk >= Len(candidates)
  <2>1. walk' = walk /\ dir' = dir /\ looked' = 0 /\ result' = Thrown /\ walk + 1 = Len(candidates) + 1
    BY <1>1, <1>3 DEF NextCandidate
  <2>2. RootTypeOK'
    BY <1>1, <2>1 DEF RootTypeOK
  <2>3. \A j \in 1 .. Len(candidates') + 1 - 1 :
           j = 1 \/ Shallow' => InReach(candidates[j])' = {}
    BY <2>1, SameTree DEF NoRootBefore
  <2>4. SeenInv' /\ WalkInv'
    BY <2>1, Sizes DEF SeenInv, WalkInv, Searching
  <2> QED BY <2>1, <2>2, <2>3, <2>4, Sizes DEF RootInv, NoRootBefore
<1> QED BY <1>1, <1>2, <1>3

LEMMA BreakKeeps ==
    ASSUME RootInv, Break
    PROVE  RootInv'
<1>1. /\ Searching /\ NextCandidate /\ (looked = Levels \/ dir \in seen)
      /\ parent' = parent /\ roots' = roots /\ candidates' = candidates /\ seen' = seen
  BY DEF Break
<1>2. NoRootBefore(walk + 1)
  BY <1>1, OneMoreWithout
<1>3. seen \subseteq Directories /\ seen \cap roots = {}
  BY <1>1 DEF RootInv, RootTypeOK, SeenInv
<1>4. ASSUME Shallow
      PROVE  candidates[walk] \in seen /\ \A d \in seen : parent[d] \in seen
  <2> DEFINE up == Upward(candidates[walk])
  <2>1. /\ \A n \in 0 .. looked - 1 : up[n] \in seen /\ up[n] # 0
        /\ looked \in Nat /\ Levels \in Nat /\ Levels >= 1 /\ dir = up[looked] /\ up[0] = candidates[walk]
        /\ walk \in 1 .. Len(candidates)
    BY <1>1, WalkFacts, Sizes DEF Searching
  <2>2. looked # Levels
    BY <1>4, <2>1 DEF Shallow
  <2>3. dir \in seen
    BY <1>1, <2>2
  <2>4. candidates[walk] \in seen
    <3>1. CASE looked = 0
      BY <2>1, <2>3, <3>1
    <3>2. CASE looked # 0
      BY <2>1, <3>2
    <3> QED BY <3>1, <3>2
  <2>5. \A d \in seen : parent[d] \in seen
    BY <1>1, <1>4, <2>3 DEF RootInv, SeenInv
  <2> QED BY <2>4, <2>5
<1> QED BY <1>1, <1>2, <1>3, <1>4, NextCandidateKeeps

LEMMA LookKeeps ==
    ASSUME RootInv, Look
    PROVE  RootInv'
<1> DEFINE c == candidates[walk]
           up == Upward(c)
<1>1. /\ Searching /\ looked < Levels /\ dir \notin seen /\ seen' = seen \cup {dir}
      /\ parent' = parent /\ roots' = roots /\ candidates' = candidates /\ result = None
  BY DEF Look, Searching
<1>2. /\ parent \in Trees /\ c \in Directories /\ dir \in Directories /\ dir = up[looked]
      /\ looked \in 0 .. Levels /\ looked \in Nat /\ Levels \in Nat /\ up[0] = c
      /\ \A n \in 0 .. looked - 1 : up[n] \in seen /\ up[n] \notin roots /\ up[n] # 0
      /\ \A n \in 0 .. Levels - 1 : up[n + 1] = parent[up[n]]
  BY <1>1, WalkFacts, Sizes
<1>3. /\ RootTypeOK /\ WalkInv /\ SeenInv /\ NoRootBefore(walk)
  BY <1>1, Sizes DEF RootInv
<1>4. seen' \subseteq Directories
  BY <1>1, <1>2, <1>3 DEF RootTypeOK
<1>5. Shallow' = Shallow /\ \A j \in 1 .. walk - 1 : j = 1 \/ Shallow => InReach(candidates[j])' = {}
  BY <1>1, <1>3, SameTree DEF NoRootBefore
<1>6. CASE dir \in roots /\ result' = dir /\ UNCHANGED <<walk, dir, looked>>
  <2>1. RootTypeOK'
    BY <1>1, <1>2, <1>3, <1>4, <1>6 DEF RootTypeOK
  <2>2. result' # None /\ result' # Thrown
    BY <1>2, <1>6, Sizes
  <2>3. WalkInv'
    BY <1>1, <1>2, <1>6, <2>2 DEF WalkInv, Searching, Upward
  <2>4. SeenInv'
    BY <2>2 DEF SeenInv, Searching
  <2>5. \A j \in 1 .. walk' - 1 : j = 1 \/ Shallow' => InReach(candidates[j])' = {}
    BY <1>5, <1>6
  <2> QED BY <1>1, <1>6, <2>1, <2>2, <2>3, <2>4, <2>5 DEF RootInv, NoRootBefore
<1>7. CASE dir \notin roots /\ parent[dir] = dir /\ NextCandidate
  <2>1. NoRootBefore(walk + 1)
    BY <1>1, <1>7, OneMoreWithout
  <2>2. seen' \cap roots = {}
    BY <1>1, <1>3, <1>7 DEF SeenInv
  <2>3. ASSUME Shallow
        PROVE  candidates[walk] \in seen' /\ seen \subseteq seen'
               /\ \A d \in seen' : parent[d] \in seen'
    <3>1. candidates[walk] \in seen'
      BY <1>1, <1>2
    <3>2. \A d \in seen : parent[d] \in seen'
      BY <1>1, <1>3, <2>3 DEF SeenInv
    <3> QED BY <1>1, <1>7, <3>1, <3>2
  <2> QED BY <1>1, <1>4, <1>7, <2>1, <2>2, <2>3, NextCandidateKeeps
<1>8. CASE /\ dir \notin roots /\ parent[dir] # dir
           /\ dir' = parent[dir] /\ looked' = looked + 1 /\ walk' = walk /\ result' = result
  <2>1. dir # 0 /\ parent[dir] \in Directories
    BY <1>2, <1>8, ParentIsBelow
  <2>2. looked + 1 \in 0 .. Levels /\ looked \in 0 .. Levels - 1 /\ looked + 1 > 0
        /\ (looked + 1) - 1 = looked
    BY <1>1, <1>2
  <2>3. RootTypeOK'
    BY <1>1, <1>3, <1>4, <1>8, <2>1, <2>2 DEF RootTypeOK
  <2>4. WalkInv'
    <3>1. up[looked + 1] = dir'
      BY <1>2, <1>8, <2>2
    <3>2. ASSUME NEW n \in 0 .. looked
          PROVE  up[n] \in seen' /\ up[n] \notin roots /\ up[n] # 0
      <4>1. CASE n = looked
        BY <1>1, <1>2, <1>8, <2>1, <4>1
      <4>2. CASE n \in 0 .. looked - 1
        BY <1>1, <1>2, <4>2
      <4> QED BY <1>2, <4>1, <4>2
    <3>3. ASSUME walk = 1 PROVE seen' = {up[n] : n \in 0 .. looked}
      <4>1. seen = {up[n] : n \in 0 .. looked - 1}
        BY <1>1, <1>3, <3>3, Sizes DEF WalkInv
      <4>2. 0 .. looked = (0 .. looked - 1) \cup {looked}
        BY <1>2
      <4> HIDE DEF up
      <4>3. {up[n] : n \in 0 .. looked} = {up[n] : n \in 0 .. looked - 1} \cup {up[looked]}
        BY <4>2
      <4> QED BY <1>1, <1>2, <4>1, <4>3
    <3> QED BY <1>1, <1>8, <2>2, <3>1, <3>2, <3>3 DEF WalkInv, Upward
  <2>5. SeenInv'
    <3>1. seen' \cap roots = {}
      BY <1>1, <1>3, <1>8 DEF SeenInv
    <3>2. ASSUME Shallow
          PROVE  /\ \A j \in 1 .. walk - 1 : candidates[j] \in seen'
                 /\ \A d \in seen' : parent[d] \in seen' \/ parent[d] = dir'
      BY <1>1, <1>3, <1>8, <3>2 DEF SeenInv
    <3> QED BY <1>1, <1>5, <1>8, <2>2, <3>1, <3>2 DEF SeenInv
  <2>6. \A j \in 1 .. walk' - 1 : j = 1 \/ Shallow' => InReach(candidates[j])' = {}
    BY <1>5, <1>8
  <2> QED BY <1>1, <1>8, <2>3, <2>4, <2>5, <2>6, Sizes DEF RootInv, NoRootBefore
<1> QED BY <1>6, <1>7, <1>8 DEF Look

LEMMA InitRootInv == RootInit => RootInv
<1> SUFFICES ASSUME RootInit PROVE RootInv
  OBVIOUS
<1>1. PICK start \in Directories \cup {None}, cwd \in Directories, here \in Directories :
        candidates = CandidatesFrom(parent, start, cwd, here)
  BY DEF RootInit
<1>2. /\ parent \in Trees /\ roots \subseteq Directories
      /\ walk = 1 /\ dir = candidates[1] /\ looked = 0 /\ seen = {} /\ result = None
  BY DEF RootInit
<1>3. candidates \in Seq(Directories) /\ Len(candidates) >= 1 /\ Len(candidates) \in Nat
  <2>1. parent[parent[here]] \in Directories /\ parent[parent[parent[here]]] \in Directories
    BY <1>2, ParentIsBelow
  <2> DEFINE rest == <<cwd, parent[parent[here]], parent[parent[parent[here]]]>>
  <2>2. rest \in Seq(Directories) /\ Len(rest) = 3
    BY <2>1
  <2> HIDE DEF rest
  <2>3. candidates = (IF start = None THEN <<>> ELSE <<start>>) \o rest
    BY <1>1 DEF CandidatesFrom, rest
  <2>4. CASE start = None
    BY <2>2, <2>3, <2>4
  <2>5. CASE start # None
    <3>1. <<start>> \in Seq(Directories) /\ Len(<<start>>) = 1
      BY <2>5
    <3> QED BY <2>2, <2>3, <2>5, <3>1
  <2> QED BY <2>4, <2>5
<1>4. candidates[1] \in Directories /\ 1 \in 1 .. Len(candidates)
  BY <1>3
<1>5. RootTypeOK
  BY <1>2, <1>3, <1>4, Sizes DEF RootTypeOK
<1>6. WalkInv
  <2>1. Upward(candidates[1])[0] = candidates[1]
    BY <1>2, <1>4, AscentDef DEF Upward
  <2> QED BY <1>2, <2>1 DEF WalkInv
<1>7. SeenInv /\ NoRootBefore(walk)
  BY <1>2 DEF SeenInv, NoRootBefore
<1> QED BY <1>2, <1>5, <1>6, <1>7, Sizes DEF RootInv

LEMMA NextRootInv == RootInv /\ [RootNext]_rootVars => RootInv'
<1> SUFFICES ASSUME RootInv, [RootNext]_rootVars PROVE RootInv'
  OBVIOUS
<1>1. CASE UNCHANGED rootVars
  <2>1. /\ parent' = parent /\ roots' = roots /\ candidates' = candidates /\ walk' = walk
        /\ dir' = dir /\ looked' = looked /\ seen' = seen /\ result' = result
    BY <1>1 DEF rootVars
  <2>2. RootTypeOK'
    BY <2>1 DEF RootInv, RootTypeOK
  <2>3. WalkInv'
    BY <2>1, SameTree DEF RootInv, WalkInv, Searching
  <2>4. SeenInv'
    BY <2>1, SameTree DEF RootInv, SeenInv, Searching
  <2>5. NoRootBefore(IF result = Thrown THEN Len(candidates) + 1 ELSE walk)'
    BY <2>1, SameTree DEF RootInv, NoRootBefore
  <2> QED BY <2>1, <2>2, <2>3, <2>4, <2>5 DEF RootInv
<1> QED BY <1>1, BreakKeeps, LookKeeps DEF RootNext

\* The walk's path, what was seen and which candidates have no root in reach, at
\* every step of the search.
THEOREM SearchKeepsItsInvariant == RootSpec => []RootInv
BY InitRootInv, NextRootInv, PTL DEF RootSpec

-----------------------------------------------------------------------------
(* What it returns. *)

\* The directory returned is the root nearest to the candidate of its walk.
LEMMA RootReturned ==
    ASSUME RootInv, result \in Directories
    PROVE  /\ InReach(candidates[walk]) # {}
           /\ result = Nearest(InReach(candidates[walk]))
<1> DEFINE c == candidates[walk]
           up == Upward(c)
<1>1. result # Thrown /\ result = dir /\ dir \in roots /\ looked < Levels
  BY Sizes DEF RootInv
<1>2. /\ parent \in Trees /\ c \in Directories /\ dir = up[looked]
      /\ looked \in 0 .. Levels /\ looked \in Nat /\ Levels \in Nat
      /\ \A n \in 0 .. looked - 1 : up[n] \notin roots
      /\ \A n \in 0 .. Levels : up[n] \in Directories
      /\ InReach(c) = {up[n] : n \in 0 .. Levels - 1} \cap roots
  BY <1>1, WalkFacts
<1>3. looked \in 0 .. Levels - 1 /\ dir \in InReach(c)
  BY <1>1, <1>2
<1>4. InReach(c) \subseteq Directories
  BY <1>2
<1>5. ASSUME NEW e \in InReach(c) PROVE e <= dir
  <2>1. PICK n \in 0 .. Levels - 1 : e = up[n] /\ up[n] \in roots
    BY <1>2
  <2>2. n >= looked /\ n \in 0 .. Levels
    BY <1>2, <2>1
  <2>3. CASE n = looked
    BY <1>2, <1>3, <1>4, <2>1, <2>3, Sizes
  <2>4. CASE n > looked
    <3>1. up[n] <= up[looked]
      BY <1>2, <2>2, <2>4, AscentFalls DEF Upward
    <3> QED BY <1>2, <2>1, <3>1
  <2> QED BY <1>2, <2>2, <2>3, <2>4
<1> HIDE DEF up
<1>6. Nearest(InReach(c)) = dir
  BY <1>3, <1>4, <1>5, NearestIs
<1> QED BY <1>1, <1>3, <1>6

\* Whatever the depth, a root in reach of the first candidate is the one returned.
THEOREM TheFirstCandidateDecides == RootSpec => []FirstCandidateDecides
<1>1. RootInv => FirstCandidateDecides
  <2> SUFFICES ASSUME RootInv, Ended, InReach(candidates[1]) # {}
               PROVE  result = Nearest(InReach(candidates[1]))
    BY DEF FirstCandidateDecides
  <2>1. walk \in 1 .. Len(candidates) /\ Len(candidates) \in Nat
        /\ result \in Directories \cup {None, Thrown} /\ result # None
    BY DEF RootInv, RootTypeOK, Ended
  <2>2. \A i \in Nat : NoRootBefore(i) => ~ (i > 1)
    BY DEF NoRootBefore
  <2>3. result # Thrown
    BY <2>1, <2>2 DEF RootInv
  <2>4. walk = 1
    BY <2>1, <2>2, <2>3 DEF RootInv
  <2> QED BY <2>1, <2>3, <2>4, RootReturned
<1> QED BY <1>1, SearchKeepsItsInvariant, PTL

\* A search whose walks are not cut short returns the root nearest to the first
\* candidate that has one, and fails only when none has.
THEOREM AShallowSearchIsExact == RootSpec => []ShallowSearchIsExact
<1>1. RootInv => ShallowSearchIsExact
  <2> SUFFICES ASSUME RootInv, Ended, Shallow
               PROVE  result = IF SomeRootInReach
                               THEN Nearest(InReach(candidates[FirstWithRoot])) ELSE Thrown
    BY DEF ShallowSearchIsExact
  <2>1. walk \in 1 .. Len(candidates) /\ Len(candidates) \in Nat
        /\ result \in Directories \cup {None, Thrown} /\ result # None
    BY DEF RootInv, RootTypeOK, Ended
  <2>2. CASE result = Thrown
    <3>1. NoRootBefore(Len(candidates) + 1)
      BY <2>2 DEF RootInv
    <3>2. \A j \in 1 .. Len(candidates) : InReach(candidates[j]) = {}
      BY <2>1, <3>1 DEF NoRootBefore
    <3>3. ~ SomeRootInReach
      BY <3>2 DEF SomeRootInReach
    <3> QED BY <2>2, <3>3
  <2>3. CASE result # Thrown
    <3>1. \A j \in 1 .. walk - 1 : InReach(candidates[j]) = {}
      BY <2>3 DEF RootInv, NoRootBefore
    <3>2. InReach(candidates[walk]) # {} /\ result = Nearest(InReach(candidates[walk]))
      BY <2>1, <2>3, RootReturned
    <3>3. SomeRootInReach
      BY <2>1, <3>2 DEF SomeRootInReach
    <3>4. \A i \in 1 .. Len(candidates) :
             InReach(candidates[i]) # {} /\ (\A j \in 1 .. i - 1 : InReach(candidates[j]) = {})
               => i = walk
      <4> SUFFICES ASSUME NEW i \in 1 .. Len(candidates), InReach(candidates[i]) # {},
                          \A j \in 1 .. i - 1 : InReach(candidates[j]) = {}
                   PROVE  i = walk
        OBVIOUS
      <4>1. ~ (i < walk)
        BY <2>1, <3>1
      <4>2. ~ (walk < i)
        BY <2>1, <3>2
      <4> QED BY <2>1, <4>1, <4>2
    <3>5. FirstWithRoot = walk
      BY <2>1, <3>1, <3>2, <3>4 DEF FirstWithRoot
    <3> QED BY <3>2, <3>3, <3>5
  <2> QED BY <2>2, <2>3
<1> QED BY <1>1, SearchKeepsItsInvariant, PTL

=============================================================================
