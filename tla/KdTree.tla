-------------------------------- MODULE KdTree --------------------------------
(***************************************************************************)
(* KdTree3D: for a direction, which measured position of the HRTF set is    *)
(* the nearest.  build() splits the positions at the median along x, y and  *)
(* z in turn; nearest() walks the tree with a stack of fixed size and skips *)
(* what lies behind a plane that is farther away than the best so far.      *)
(*                                                                         *)
(* Positions are points with small integer coordinates: the arithmetic is   *)
(* exact, and points that coincide or lie on a plane, where the comparisons *)
(* decide, are common.                                                      *)
(***************************************************************************)
EXTENDS Integers, Sequences, FiniteSets

CONSTANTS
    Tables,      \* sequences of positions
    Queries,     \* directions asked for
    StackDepth   \* kStackDepth

ASSUME DepthAssumption == StackDepth \in Nat \ {0}

VARIABLES
    positions,   \* the table
    tree,        \* nodes_
    query, stack, best, bestDist,
    searching

treeVars == <<positions, tree, query, stack, best, bestDist, searching>>

-------------------------------------------------------------------------------
Sq(n) == n * n
Distance(p, q) == Sq(p[1] - q[1]) + Sq(p[2] - q[2]) + Sq(p[3] - q[3])

NoNode == [index |-> 0]
Axis(depth) == 1 + (depth % 3)

\* What nth_element may leave: a median, and before it as many positions as the
\* half, none of them beyond it, none after it short of it.
Splits(S, axis) ==
    {s \in S \X SUBSET S :
        /\ Cardinality(s[2]) = Cardinality(S) \div 2 /\ s[1] \notin s[2]
        /\ \A i \in S : IF i \in s[2] THEN positions[i][axis] <= positions[s[1]][axis]
                                      ELSE positions[i][axis] >= positions[s[1]][axis]}

\* buildRecursive: every tree that the positions S can become.
RECURSIVE Built(_, _)
Built(S, depth) ==
    IF S = {} THEN {NoNode}
    ELSE UNION {{[index |-> s[1], axis |-> Axis(depth), left |-> l, right |-> r] :
                    l \in Built(s[2], depth + 1),
                    r \in Built(S \ (s[2] \cup {s[1]}), depth + 1)} :
                s \in Splits(S, Axis(depth))}

TreeInit ==
    /\ positions \in Tables /\ tree = NoNode
    /\ query = CHOOSE q \in Queries : TRUE
    /\ stack = <<>> /\ best = 0 /\ bestDist = 0 /\ searching = FALSE

Build ==
    /\ ~searching /\ tree = NoNode
    /\ tree' \in Built(DOMAIN positions, 0)
    /\ UNCHANGED <<positions, query, stack, best, bestDist, searching>>

\* Mutant of Gap: a node knows the axis of its children.
GapNextAxis(n) ==
    LET axis == 1 + (n.axis % 3) IN query[axis] - positions[n.index][axis]

Gap(n) == query[n.axis] - positions[n.index][n.axis]

\* nearest() begins with the root as the best.
Search ==
    /\ tree # NoNode /\ ~searching
    /\ query' \in Queries
    /\ stack' = <<tree>> /\ searching' = TRUE
    /\ best' = tree.index /\ bestDist' = Distance(query', positions[tree.index])
    /\ UNCHANGED <<positions, tree>>

Push(n, wanted, s) == IF wanted /\ n # NoNode /\ Len(s) < StackDepth THEN Append(s, n) ELSE s

\* The other side of a plane can hold a nearer position.
Crosses(gap, dist) == Sq(gap) < dist

\* The near child is pushed last and so visited first.
Visit ==
    /\ searching /\ stack # <<>>
    /\ LET n == stack[Len(stack)]
           rest == SubSeq(stack, 1, Len(stack) - 1)
           dist == Distance(query, positions[n.index])
           near == IF Gap(n) < 0 THEN n.left ELSE n.right
           far  == IF Gap(n) < 0 THEN n.right ELSE n.left
       IN  /\ bestDist' = IF dist < bestDist THEN dist ELSE bestDist
           /\ best' = IF dist < bestDist THEN n.index ELSE best
           /\ stack' = Push(near, TRUE, Push(far, Crosses(Gap(n), bestDist'), rest))
    /\ UNCHANGED <<positions, tree, query, searching>>

Answer ==
    /\ searching /\ stack = <<>>
    /\ searching' = FALSE
    /\ UNCHANGED <<positions, tree, query, stack, best, bestDist>>

TreeNext == Build \/ Search \/ Visit \/ Answer

TreeSpec == TreeInit /\ [][TreeNext]_treeVars

-------------------------------------------------------------------------------
\* Whatever order the median split leaves the positions in, and however many
\* of them coincide or lie on a plane, no position is nearer than the one a
\* search ends with: no branch is skipped, nor lost to the full stack, that
\* holds a nearer one (KdTree3D.cpp:134).
NearestFound ==
    searching /\ stack = <<>> =>
        \A i \in DOMAIN positions : Distance(query, positions[best]) <= Distance(query, positions[i])
===============================================================================
