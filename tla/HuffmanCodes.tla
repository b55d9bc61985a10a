---------------------------- MODULE HuffmanCodes ----------------------------
(***************************************************************************)
(* huffman/build.rs: code lengths by package-merge, and the canonical      *)
(* codes they stand for.  Symbols are 0..n-1; a frequency or a length of   *)
(* zero means that the symbol is not used.                                 *)
(***************************************************************************)
EXTENDS Integers, Sequences, FiniteSetsExt

\* The symbols that occur, by weight and then by number.
Active(freqs) == {s \in DOMAIN freqs : freqs[s] > 0}
Before(freqs, s, t) == freqs[s] < freqs[t] \/ (freqs[s] = freqs[t] /\ s < t)
Sorted(freqs) ==
    LET active == Active(freqs)
    IN  [k \in 1..Cardinality(active) |->
            CHOOSE s \in active : Cardinality({t \in active : Before(freqs, t, s)}) = k - 1]

\* The same list as a tuple, which TLC evaluates once.
Listed(f, n) == SubSeq(f, 1, n)

\* A coin carries a weight, and how often each symbol is a leaf below it.
Originals(freqs) ==
    LET sorted == Sorted(freqs)
    IN  Listed([k \in DOMAIN sorted |->
                   [weight |-> freqs[sorted[k]],
                    leaves |-> [s \in Active(freqs) |-> IF s = sorted[k] THEN 1 ELSE 0]]],
               Cardinality(Active(freqs)))

Pair(a, b) == [weight |-> a.weight + b.weight,
               leaves |-> [s \in DOMAIN a.leaves |-> a.leaves[s] + b.leaves[s]]]
Package(coins) ==
    Listed([k \in 1..(Len(coins) \div 2) |-> Pair(coins[2 * k - 1], coins[2 * k])],
           Len(coins) \div 2)

\* merge_sorted after k rounds: i coins are taken from a, the others from b.
\* The first list goes first where weights are equal.
TakesFirst(a, b, i, j) == i < Len(a) /\ (j < Len(b) => a[i + 1].weight <= b[j + 1].weight)
Merge(a, b) ==
    LET round[k \in 0..(Len(a) + Len(b))] ==
            IF k = 0 THEN [i |-> 0, out |-> << >>]
            ELSE LET before == round[k - 1]
                     j == k - 1 - before.i
                 IN  IF TakesFirst(a, b, before.i, j)
                     THEN [i |-> before.i + 1, out |-> Append(before.out, a[before.i + 1])]
                     ELSE [i |-> before.i, out |-> Append(before.out, b[j + 1])]
    IN  round[Len(a) + Len(b)].out

\* The coins left after the given number of rounds of package and merge.
Coins(freqs, rounds) ==
    LET originals == Originals(freqs)
        after[n \in 0..rounds] ==
            IF n = 0 THEN originals ELSE Merge(Package(after[n - 1]), originals)
    IN  after[rounds]

\* A single symbol shares the code with a partner that is never written.
Phantom(only) == IF only = 0 THEN 1 ELSE 0
\* Faulty: the single symbol gets no partner.
LonelyLengths(freqs) == [s \in DOMAIN freqs |-> IF freqs[s] > 0 THEN 1 ELSE 0]

SingleLengths(freqs) ==
    LET only == CHOOSE s \in Active(freqs) : TRUE
    IN  [s \in DOMAIN freqs |-> IF s \in {only, Phantom(only)} THEN 1 ELSE 0]

\* Of the coins left the cheapest 2m - 2 each add one to the length of every
\* leaf below them.
Take(freqs) == 2 * Cardinality(Active(freqs)) - 2
Walked(coins, active) ==
    LET lengths[k \in 0..Len(coins)] ==
            IF k = 0 THEN [s \in active |-> 0]
            ELSE LET before == lengths[k - 1]
                 IN  [s \in active |-> before[s] + coins[k].leaves[s]]
    IN  lengths
MergedLengths(freqs, limit) ==
    LET walked == Walked(Coins(freqs, limit - 1), Active(freqs))[Take(freqs)]
    IN  [s \in DOMAIN freqs |-> IF freqs[s] = 0 THEN 0 ELSE walked[s]]

\* build_lengths.
BuildLengths(freqs, limit) ==
    CASE Cardinality(Active(freqs)) = 0 -> [s \in DOMAIN freqs |-> 0]
      [] Cardinality(Active(freqs)) = 1 -> SingleLengths(freqs)
      [] OTHER                          -> MergedLengths(freqs, limit)

-----------------------------------------------------------------------------
Coded(lengths) == {s \in DOMAIN lengths : lengths[s] > 0}
OfLength(lengths, l) == {s \in DOMAIN lengths : lengths[s] = l}

\* next_code behind the codes of a length; within a length they are given out
\* in the order of the symbols.
NextCode(lengths) ==
    LET next[l \in 0..16] ==
            IF l = 0 THEN 0 ELSE 2 * (next[l - 1] + Cardinality(OfLength(lengths, l)))
    IN  next
CanonicalCode(lengths, s) ==
    NextCode(lengths)[lengths[s] - 1] + Cardinality({t \in OfLength(lengths, lengths[s]) : t < s})

\* reverse_bits: the low n bits of value in the opposite order.
ReverseBits(value, n) ==
    LET out[i \in 0..n] ==
            IF i = 0 THEN 0 ELSE 2 * out[i - 1] + ((value \div 2^(i - 1)) % 2)
    IN  out[n]

\* The bits the writer emits for a symbol, the first one lowest.
WrittenCode(lengths, s) == ReverseBits(CanonicalCode(lengths, s), lengths[s])
=============================================================================
