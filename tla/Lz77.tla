-------------------------------- MODULE Lz77 --------------------------------
(***************************************************************************)
(* The match finder of lz77.rs, matcher.rs and hash.rs: hash chains in a   *)
(* ring of links, the bounded walk along a chain, and the lazy choice      *)
(* between the match at a position and the one after it.  One step is one  *)
(* round of one of the code's loops.  Positions count from 0, as in the    *)
(* code.                                                                   *)
(***************************************************************************)
EXTENDS Integers, Sequences, FiniteSetsExt

CONSTANTS
    Byte,
    Hash,          \* hash3: a function from triples of bytes
    MinMatch,      \* MIN_MATCH: the hash covers this many bytes, 3
    MaxMatch,      \* MAX_MATCH
    MaxDistance,   \* MAX_DISTANCE, 0xfefc
    RingSize,      \* slots of HashChains.prev, 0x10000
    MaxWalks,      \* chain_walks of the level
    LazyThreshold, \* lazy_threshold of the level
    FarDistance,   \* 29_999: farther than this a shortest match is not worth it
    MaxInput       \* bound: the longest input

ASSUME Lz77Assumption ==
    /\ Hash \in [Byte \X Byte \X Byte -> Nat]
    /\ MinMatch = 3 /\ MaxMatch \in Nat /\ MaxMatch >= MinMatch
    /\ MaxDistance \in Nat \ {0} /\ RingSize \in Nat
    /\ MaxDistance < RingSize
    /\ MaxWalks \in Nat /\ LazyThreshold \in Nat /\ FarDistance \in Nat /\ MaxInput \in Nat

VARIABLES
    input,
    head, prev,   \* HashChains; prev is indexed by position modulo RingSize
    hashedUpTo,   \* hashed_up_to: positions below it are in the chains
    pos,          \* the next byte to encode
    phase,        \* the loop the encoder is in
    at,           \* the position a match is sought for: pos, or pos + 1 when lazy
    candidate, walks, best,  \* locals of find_longest_match
    curr,         \* the match at pos while the one at pos + 1 is sought
    tokens,
    expanded      \* history: the bytes the tokens stand for

chainVars == <<head, prev, hashedUpTo>>
walkVars  == <<at, candidate, walks, best>>
outVars   == <<pos, tokens, expanded>>
vars == <<input, chainVars, walkVars, outVars, phase, curr>>

None == -1                               \* u32::MAX, "no entry"
NoMatch == [length |-> 0, distance |-> 0]
Useful(m) == m.length >= MinMatch
Size == Len(input)
At(i) == input[i + 1]
HashAt(i) == Hash[<<At(i), At(i + 1), At(i + 2)>>]
HashValues == {Hash[t] : t \in DOMAIN Hash}

Init ==
    /\ \E n \in 0..MaxInput : input \in [1..n -> Byte]
    /\ head = [h \in HashValues |-> None]
    /\ prev = [i \in 0..(RingSize - 1) |-> None]
    /\ hashedUpTo = 0 /\ pos = 0 /\ phase = "top"
    /\ at = 0 /\ candidate = None /\ walks = 0 /\ best = NoMatch /\ curr = NoMatch
    /\ tokens = << >> /\ expanded = << >>

-----------------------------------------------------------------------------
(* Chains *)

\* Faulty: the head is replaced before the link is taken from it.
InsertSelfLinked ==
    /\ head' = [head EXCEPT ![HashAt(hashedUpTo)] = hashedUpTo]
    /\ prev' = [prev EXCEPT ![hashedUpTo % RingSize] = hashedUpTo]
    /\ hashedUpTo' = hashedUpTo + 1

\* HashChains::insert for the next position.
Insert ==
    LET h == HashAt(hashedUpTo)
    IN  /\ head' = [head EXCEPT ![h] = hashedUpTo]
        /\ prev' = [prev EXCEPT ![hashedUpTo % RingSize] = head[h]]
        /\ hashedUpTo' = hashedUpTo + 1

\* The loop of ensure_hashed: everything up to target that still has three
\* bytes is put into the chains, once.
Target == CASE phase = "hash"      -> pos
            [] phase = "lazy_hash" -> pos + 1
            [] phase = "cover"     -> pos + curr.length - 1
            [] OTHER               -> -1
Hashed(target) == hashedUpTo >= target + 1 \/ hashedUpTo >= Size - (MinMatch - 1)

InsertNext ==
    /\ phase \in {"hash", "lazy_hash", "cover"}
    /\ ~Hashed(Target)
    /\ Insert
    /\ UNCHANGED <<input, walkVars, outVars, phase, curr>>

-----------------------------------------------------------------------------
(* find_longest_match *)

StartWalk(p) ==
    /\ at' = p /\ candidate' = head[HashAt(p)] /\ walks' = 0 /\ best' = NoMatch

\* Faulty: a match may be as long as the input allows.
UncappedLength(p) == Size - p

MaxLength(p) == IF Size - p < MaxMatch THEN Size - p ELSE MaxMatch

\* How far the bytes at c and p agree, up to the longest match allowed at p.
Agreement(c, p) ==
    Max({n \in 0..MaxLength(p) : \A i \in 0..(n - 1) : At(c + i) = At(p + i)})

\* Faulty: the farthest distance allowed is not tried.
WalksTooShort ==
    \/ candidate = None
    \/ walks >= MaxWalks
    \/ candidate < at /\ at - candidate >= MaxDistance

WalkOver ==
    \/ candidate = None
    \/ walks >= MaxWalks
    \/ candidate < at /\ at - candidate > MaxDistance

\* A candidate is passed over when it is not before the position (which is in
\* the chains itself), when it cannot beat the best one, or when its first two
\* bytes differ.
Rejected ==
    \/ candidate >= at
    \/ Useful(best) /\ At(candidate + best.length) # At(at + best.length)
    \/ At(candidate) # At(at)
    \/ At(candidate + 1) # At(at + 1)

Better(len) == len >= MinMatch /\ len > best.length

WalkStep ==
    /\ phase \in {"walk", "lazy_walk"}
    /\ ~WalkOver
    /\ LET len == Agreement(candidate, at)
           improves == ~Rejected /\ Better(len)
       IN  /\ best' = IF improves THEN [length |-> len, distance |-> at - candidate] ELSE best
           /\ candidate' = IF improves /\ len = MaxLength(at) THEN None  \* break
                           ELSE prev[candidate % RingSize]
    /\ walks' = walks + 1
    /\ UNCHANGED <<input, chainVars, outVars, at, phase, curr>>

-----------------------------------------------------------------------------
(* encode *)

EmitLiteral ==
    /\ tokens' = Append(tokens, [length |-> 1, distance |-> 0])
    /\ expanded' = Append(expanded, At(pos))
    /\ pos' = pos + 1
    /\ phase' = "top"

\* n bytes copied from d back, one after the other.
CopyFrom(s, d, n) ==
    s \o [i \in 1..n |-> s[Len(s) - d + 1 + ((i - 1) % d)]]

\* The token is pushed; the positions it covers are hashed before pos moves.
EmitMatch(m) ==
    /\ tokens' = Append(tokens, m)
    /\ expanded' = CopyFrom(expanded, m.distance, m.length)
    /\ curr' = m
    /\ phase' = "cover"
    /\ pos' = pos

Top ==
    /\ phase = "top" /\ pos < Size
    /\ phase' = "hash"
    /\ UNCHANGED <<input, chainVars, walkVars, outVars, curr>>

Done ==
    /\ phase = "top" /\ pos >= Size
    /\ phase' = "done"
    /\ UNCHANGED <<input, chainVars, walkVars, outVars, curr>>

\* The tail is too short for a match.
TailLiteral ==
    /\ phase = "hash" /\ Hashed(pos) /\ pos + MinMatch > Size
    /\ EmitLiteral
    /\ UNCHANGED <<input, chainVars, walkVars, curr>>

Search ==
    /\ phase = "hash" /\ Hashed(pos) /\ pos + MinMatch <= Size
    /\ phase' = "walk"
    /\ StartWalk(pos)
    /\ UNCHANGED <<input, chainVars, outVars, curr>>

ShouldTryLazy == best.length - MinMatch < LazyThreshold /\ best.length < MaxMatch

NoMatchFound ==
    /\ phase = "walk" /\ WalkOver /\ ~Useful(best)
    /\ EmitLiteral
    /\ UNCHANGED <<input, chainVars, walkVars, curr>>

\* Good enough, or no room for a match at the next position.
TakeMatch ==
    /\ phase = "walk" /\ WalkOver /\ Useful(best)
    /\ ~ShouldTryLazy \/ pos + 1 + MinMatch > Size
    /\ EmitMatch(best)
    /\ UNCHANGED <<input, chainVars, walkVars>>

TryLazy ==
    /\ phase = "walk" /\ WalkOver /\ Useful(best)
    /\ ShouldTryLazy /\ pos + 1 + MinMatch <= Size
    /\ curr' = best
    /\ phase' = "lazy_hash"
    /\ UNCHANGED <<input, chainVars, walkVars, outVars>>

\* Faulty: what the lazy probe finds is judged as a match at pos, and probed
\* in turn.
SearchLazyAgain ==
    /\ phase = "lazy_hash" /\ Hashed(pos + 1)
    /\ phase' = "walk"
    /\ StartWalk(pos + 1)
    /\ UNCHANGED <<input, chainVars, outVars, curr>>

SearchLazy ==
    /\ phase = "lazy_hash" /\ Hashed(pos + 1)
    /\ phase' = "lazy_walk"
    /\ StartWalk(pos + 1)
    /\ UNCHANGED <<input, chainVars, outVars, curr>>

LazyBetter ==
    /\ Useful(best)
    /\ ~(best.length = MinMatch /\ best.distance > FarDistance)
    /\ best.length > curr.length

TakeLazy ==
    /\ phase = "lazy_walk" /\ WalkOver /\ LazyBetter
    /\ EmitLiteral
    /\ UNCHANGED <<input, chainVars, walkVars, curr>>

\* Faulty: the lazy match is emitted at pos, for which it was not found.
KeepBestNotCurr ==
    /\ phase = "lazy_walk" /\ WalkOver /\ ~LazyBetter
    /\ EmitMatch(IF Useful(best) THEN best ELSE curr)
    /\ UNCHANGED <<input, chainVars, walkVars>>

KeepMatch ==
    /\ phase = "lazy_walk" /\ WalkOver /\ ~LazyBetter
    /\ EmitMatch(curr)
    /\ UNCHANGED <<input, chainVars, walkVars>>

Covered ==
    /\ phase = "cover" /\ Hashed(Target)
    /\ pos' = pos + curr.length
    /\ phase' = "top"
    /\ UNCHANGED <<input, chainVars, walkVars, tokens, expanded, curr>>

Next ==
    \/ Top \/ Done \/ InsertNext \/ TailLiteral \/ Search \/ WalkStep \/ NoMatchFound
    \/ TakeMatch \/ TryLazy \/ SearchLazy \/ TakeLazy \/ KeepMatch \/ Covered

Spec == Init /\ [][Next]_vars /\ WF_vars(Next)

-----------------------------------------------------------------------------
(* Properties *)

\* The latest position before p with hash h, of those that were inserted.
Latest(h, p) == Max({None} \cup {q \in 0..(p - 1) : HashAt(q) = h})

\* The chains list, per hash, exactly the positions inserted, latest first,
\* as far back as the ring reaches: none lost to a reused slot, none linked
\* twice, none linked to itself (lz77.rs:38-41, hash.rs:26-28).
ChainsExact ==
    /\ \A h \in HashValues : head[h] = Latest(h, hashedUpTo)
    /\ \A p \in 0..(hashedUpTo - 1) :
          p >= hashedUpTo - RingSize => prev[p % RingSize] = Latest(HashAt(p), p)

\* A walk that was not cut off by MaxWalks has found the longest match that
\* the distance limit allows, and the nearest of these: neither the quick
\* reject nor the ring hides a better one.
WalkFindsLongest ==
    phase \in {"walk", "lazy_walk"} /\ WalkOver /\ walks < MaxWalks =>
        LET near == {q \in 0..(at - 1) : at - q <= MaxDistance}
            good == {q \in near : Agreement(q, at) >= MinMatch}
        IN  IF good = {} THEN best = NoMatch
            ELSE LET longest == Max({Agreement(q, at) : q \in good})
                 IN  best = [length |-> longest,
                             distance |-> at - Max({q \in good : Agreement(q, at) = longest})]

\* What a decoder makes of the tokens is the input up to pos, or up to the
\* end of the match just pushed.
TokensExpandToInput ==
    expanded = SubSeq(input, 1, IF phase = "cover" THEN pos + curr.length ELSE pos)

\* Every match token can be coded: its length has a slot, its distance is
\* positive and stays inside the decoder's window.
TokensEncodable ==
    \A i \in DOMAIN tokens :
        \/ tokens[i].length = 1
        \/ tokens[i].length \in MinMatch..MaxMatch /\ tokens[i].distance \in 1..MaxDistance

\* encode ends, with all of the input encoded.
Termination == <>(phase = "done" /\ pos = Size)
=============================================================================
