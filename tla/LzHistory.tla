----------------------------- MODULE LzHistory -----------------------------
(***************************************************************************)
(* What the LZX decoder promises, without its 64 KB ring: an unbounded     *)
(* history of the bytes produced so far, extended by literals and by       *)
(* copies that reach `offset` bytes back.  Bytes from before the start of  *)
(* the stream read as Zero.  A copy takes its bytes one at a time, so one  *)
(* that is longer than its distance repeats the bytes it has just made.    *)
(***************************************************************************)
EXTENDS Integers, Sequences

CONSTANTS Byte,         \* the values a decoded byte can take
          Zero,         \* the byte found before the start of the stream
          MaxDistance,  \* the farthest a match may reach back
          MatchLength   \* the lengths a match may have

VARIABLES hist,    \* every byte produced so far
          offset,  \* the distance of the latest match; 1 at the start
          left     \* bytes the latest match still has to produce

vars == <<hist, offset, left>>

\* The byte d places before the end of the history h.
Back(h, d) == IF d <= Len(h) THEN h[Len(h) - d + 1] ELSE Zero

Init == hist = << >> /\ offset = 1 /\ left = 0

Literal(b) ==
    /\ left = 0
    /\ hist' = Append(hist, b)
    /\ UNCHANGED <<offset, left>>

Match(d, n) ==
    /\ left = 0
    /\ offset' = d
    /\ left' = n
    /\ hist' = hist

\* A match is refused after its distance was read: the distance stays.
RefusedMatch(d) ==
    /\ left = 0
    /\ offset' = d
    /\ UNCHANGED <<hist, left>>

CopyByte ==
    /\ left > 0
    /\ hist' = Append(hist, Back(hist, offset))
    /\ left' = left - 1
    /\ offset' = offset

Next ==
    \/ \E b \in Byte : Literal(b)
    \/ \E d \in 1..MaxDistance :
          \/ RefusedMatch(d)
          \/ \E n \in MatchLength : Match(d, n)
    \/ CopyByte

Spec == Init /\ [][Next]_vars
=============================================================================
