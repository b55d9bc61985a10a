--------------------------- MODULE MCHuffmanTable ---------------------------
(* Seven symbols and a root of four bits, so that codes of five and six     *)
(* bits go through one and two nodes.                                       *)
EXTENDS HuffmanTable

ByOffset(s, k) == [i \in 0..6 |-> s[((i + k) % 7) + 1]]

\* Equal weights in every position, and the weights that make the deepest codes.
Deepest == {<<1, 1, 2, 3, 5, 8, 13>>, <<13, 8, 5, 3, 2, 1, 1>>, <<0, 7, 1, 2, 1, 4, 0>>,
            <<9, 9, 9, 1, 1, 1, 1>>}
Weights == [0..6 -> {0, 1}] \cup [0..6 -> {1, 3}] \cup {ByOffset(d, k) : d \in Deepest, k \in 0..6}

\* Lengths as an archive may hold them: complete codes with up to two lengths
\* replaced, and every array of a few lengths.
Complete == {<<1, 2, 3, 4, 5, 6, 6>>, <<6, 6, 5, 4, 3, 2, 1>>, <<5, 1, 5, 3, 2, 5, 5>>,
             <<4, 3, 2, 2, 2, 5, 5>>, <<0, 5, 4, 3, 2, 1, 5>>}
Damaged == {[ByOffset(c, 0) EXCEPT ![s] = a, ![t] = b] :
               c \in Complete, s \in 0..6, t \in 0..6, a \in 0..6, b \in 0..6}
AnyLengths == Damaged \cup [0..6 -> {0, 1, 5}] \cup [0..6 -> {2, 3}]
=============================================================================
