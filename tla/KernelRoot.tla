------------------------------- MODULE KernelRoot ------------------------------
(***************************************************************************)
(* findKernelRoot of sdk/src/index.ts: the search for the checkout that    *)
(* every call of the SDK works in.  From each candidate directory it walks *)
(* upward for at most Levels directories, and it stops a walk at a         *)
(* directory that an earlier walk has seen.                                *)
(***************************************************************************)
EXTENDS Naturals, Sequences, FiniteSets

CONSTANTS
    NDirectories,  \* the directories are 0 .. NDirectories; 0 is the top
    Levels         \* the directories a walk may look at: 8 in the code

ASSUME RootAssumption == NDirectories \in Nat /\ Levels \in Nat \ {0}

VARIABLES
    parent,      \* path.dirname: the parent of each directory
    roots,       \* the directories that isKernelRoot accepts
    candidates,  \* where the walks start, in order
    walk,        \* the walk under way
    dir,         \* the directory it has come to
    looked,      \* how many directories it has looked at
    seen,        \* the directories that some walk has looked at
    result       \* the root returned, None before that, or Thrown

rootVars == <<parent, roots, candidates, walk, dir, looked, seen, result>>

Directories == 0 .. NDirectories
None == NDirectories + 1
Thrown == NDirectories + 2

\* The directories as a tree: path.dirname of the top is the top.
Trees ==
    {p \in [Directories -> Directories] :
        \A d \in Directories : IF d = 0 THEN p[d] = 0 ELSE p[d] < d}

\* The caller's start, if it gives one; the working directory; and the two
\* directories that the module takes for the repository, when it runs from
\* sdk/src or from sdk/dist.
CandidatesFrom(up, start, cwd, here) ==
    (IF start = None THEN <<>> ELSE <<start>>) \o <<cwd, up[up[here]], up[up[up[here]]]>>

RootInit ==
    /\ parent \in Trees
    /\ roots \in SUBSET Directories
    /\ \E start \in Directories \cup {None}, cwd, here \in Directories :
        candidates = CandidatesFrom(parent, start, cwd, here)
    /\ walk = 1 /\ dir = candidates[1] /\ looked = 0
    /\ seen = {} /\ result = None

-----------------------------------------------------------------------------

Searching == result = None

\* The walk is over: the next candidate, or the error at the end.
NextCandidate ==
    /\ looked' = 0
    /\ IF walk < Len(candidates)
       THEN walk' = walk + 1 /\ dir' = candidates[walk + 1] /\ UNCHANGED result
       ELSE result' = Thrown /\ UNCHANGED <<walk, dir>>

\* Fault: a directory met again ends the search.
BreakAll ==
    /\ Searching
    /\ looked = Levels \/ dir \in seen
    /\ IF dir \in seen
       THEN result' = Thrown /\ UNCHANGED <<walk, dir, looked>>
       ELSE NextCandidate
    /\ UNCHANGED <<parent, roots, candidates, seen>>

\* An earlier walk, or this one, has been here, or the limit is reached.
Break ==
    /\ Searching
    /\ looked = Levels \/ dir \in seen
    /\ NextCandidate
    /\ UNCHANGED <<parent, roots, candidates, seen>>

\* Fault: the parent is taken before the directory is looked at.
LookAbove ==
    /\ Searching
    /\ looked < Levels /\ dir \notin seen
    /\ seen' = seen \cup {dir}
    /\ \/ /\ parent[dir] \in roots
          /\ result' = parent[dir]
          /\ UNCHANGED <<walk, dir, looked>>
       \/ /\ parent[dir] \notin roots /\ parent[dir] = dir
          /\ NextCandidate
       \/ /\ parent[dir] \notin roots /\ parent[dir] # dir
          /\ dir' = parent[dir] /\ looked' = looked + 1
          /\ UNCHANGED <<walk, result>>
    /\ UNCHANGED <<parent, roots, candidates>>

Look ==
    /\ Searching
    /\ looked < Levels /\ dir \notin seen
    /\ seen' = seen \cup {dir}
    /\ \/ /\ dir \in roots
          /\ result' = dir
          /\ UNCHANGED <<walk, dir, looked>>
       \/ /\ dir \notin roots /\ parent[dir] = dir
          /\ NextCandidate
       \/ /\ dir \notin roots /\ parent[dir] # dir
          /\ dir' = parent[dir] /\ looked' = looked + 1
          /\ UNCHANGED <<walk, result>>
    /\ UNCHANGED <<parent, roots, candidates>>

RootNext == Break \/ Look

RootSpec == RootInit /\ [][RootNext]_rootVars

-----------------------------------------------------------------------------

\* A directory of tree p and those above it, the nearest first.
Ascent(p, d) ==
    LET up[n \in 0 .. Levels] == IF n = 0 THEN d ELSE p[up[n - 1]] IN up

Upward(d) == Ascent(parent, d)

\* The roots a walk from d can come to.
InReach(d) == {Upward(d)[n] : n \in 0 .. Levels - 1} \cap roots

\* The greatest is the nearest: a parent is a smaller number.
Nearest(found) == CHOOSE d \in found : \A e \in found : e <= d

\* The first candidate of those in the set has the say.
FirstWithRoot ==
    CHOOSE i \in 1 .. Len(candidates) :
        /\ InReach(candidates[i]) # {}
        /\ \A j \in 1 .. i - 1 : InReach(candidates[j]) = {}

SomeRootInReach == \E i \in 1 .. Len(candidates) : InReach(candidates[i]) # {}

\* No walk is cut short: the top is in reach of every candidate.
Shallow ==
    \A i \in 1 .. Len(candidates) : \E n \in 0 .. Levels - 1 : Upward(candidates[i])[n] = 0

Ended == result # None

\* If no walk is cut short, passing over what was seen loses nothing: the
\* search returns the root nearest to the first candidate that has one above
\* it, and fails only if none has (sdk/src/index.ts:46-62).
ShallowSearchIsExact ==
    Ended /\ Shallow =>
        result = IF SomeRootInReach THEN Nearest(InReach(candidates[FirstWithRoot])) ELSE Thrown

\* Whatever the depth: a root in reach of the caller's start, or, without one,
\* of the working directory, is returned before any other, though a nested
\* checkout or the module's own may be found later (sdk/src/index.ts:38-44).
FirstCandidateDecides ==
    LET found == InReach(candidates[1])
    IN  Ended /\ found # {} => result = Nearest(found)

\* Whatever the depth: a search that fails has left no root in reach of a
\* candidate (sdk/src/index.ts:31-34).
FindsRoot == result = Thrown => ~SomeRootInReach
-----------------------------------------------------------------------------
(* Why it holds: the inductive invariant. *)

RootTypeOK ==
    /\ parent \in Trees /\ roots \subseteq Directories
    /\ candidates \in Seq(Directories) /\ walk \in 1 .. Len(candidates)
    /\ dir \in Directories /\ looked \in 0 .. Levels /\ seen \subseteq Directories
    /\ result \in Directories \cup {None, Thrown}

\* The walk under way has come past directories that are no roots, nor the top.
WalkInv ==
    result # Thrown =>
      LET up == Upward(candidates[walk])
      IN  /\ dir = up[looked]
          /\ \A n \in 0 .. looked - 1 : up[n] \in seen /\ up[n] \notin roots /\ up[n] # 0
          /\ walk = 1 /\ Searching => seen = {up[n] : n \in 0 .. looked - 1}

\* Above what some walk has seen, all was seen, or is where this walk has come to.
SeenInv ==
    Searching =>
      /\ seen \cap roots = {}
      /\ Shallow => /\ \A j \in 1 .. walk - 1 : candidates[j] \in seen
                    /\ \A d \in seen : parent[d] \in seen \/ (looked > 0 /\ parent[d] = dir)

\* No root is in reach of the candidates before the i-th, as far as that is known.
NoRootBefore(i) ==
    \A j \in 1 .. i - 1 : j = 1 \/ Shallow => InReach(candidates[j]) = {}

RootInv ==
    /\ RootTypeOK
    /\ WalkInv
    /\ SeenInv
    /\ NoRootBefore(IF result = Thrown THEN Len(candidates) + 1 ELSE walk)
    /\ result \in Directories => result = dir /\ dir \in roots /\ looked < Levels

=============================================================================
