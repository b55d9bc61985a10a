------------------------------ MODULE MCBlocks ------------------------------
(* The real alphabets, and blocks chosen for the edges of the coding.       *)
EXTENDS Blocks

\* Literals whose neighbours are 19, 20, 51, 52 and 109 zeros away, on both
\* sides of the limits of the zero runs.
Gaps == <<Literal(0), Literal(20), Literal(41), Literal(93), Literal(146)>>

\* Matches at the edges of the slots, and far apart among the match symbols.
Edges == <<Match(3, 1), Match(4, 3), Match(10, 4), Match(11, 511), Match(34, 512),
           Match(35, 767), Match(257, 32768), Match(258, 65276)>>

\* Both sides of the border between the sections, where no run may cross.
Border == <<Literal(254), Literal(255), Match(3, 1), Match(3, 2)>>

\* Runs of equal lengths one shorter and one longer than a run can be.
Equal(first, n) == [k \in 1..n |-> Literal(first + k - 1)]
Powers(n) == Equal(97, n) \o [k \in 1..(2^n) |-> Literal(97 + n)]

\* Weights that make the deepest codes: lengths from 1 to 8 in one section.
Deepest == <<1, 1, 2, 3, 5, 8, 13, 21, 34>>
Deep == [k \in 1..88 |-> Literal(101 + CHOOSE i \in 0..8 :
            /\ MapThenSumSet(LAMBDA j : Deepest[j], 1..i) < k
            /\ k <= MapThenSumSet(LAMBDA j : Deepest[j], 1..(i + 1)))]

MCTokenLists ==
    {<< >>, <<Literal(0)>>, <<Literal(255)>>, <<Match(3, 1)>>, Gaps, Edges, Border,
     Equal(100, 4), Equal(100, 8), Equal(98, 11), Powers(3), Deep, Gaps \o Edges,
     <<Literal(97), Literal(98), Literal(97), Literal(97), Match(3, 1)>>}
=============================================================================
