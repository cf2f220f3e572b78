---------------------------- MODULE MCValueStore ----------------------------
(***************************************************************************)
(* The store of a program with two names and one function.                 *)
(***************************************************************************)
EXTENDS ValueStore

\* The numbers of cells and buffers are addresses and mean nothing: two
\* states are the same when they differ by a renumbering.  The view numbers
\* both in the order they are met.
Distinct(s) ==
  LET upto[n \in 0..Len(s)] ==
        IF n = 0 THEN <<>>
        ELSE LET seen == upto[n - 1] IN IF s[n] \in Range(seen) THEN seen ELSE Append(seen, s[n])
  IN upto[Len(s)]
Place(s, e) == CHOOSE k \in DOMAIN s : s[k] = e

ScopeCells(scs) == FlattenSeq([i \in DOMAIN scs |-> LET ns == SetToSeq(DOMAIN scs[i]) IN
                                                    [k \in DOMAIN ns |-> scs[i][ns[k]]]])
CellOrder ==
  Distinct(ScopeCells(scopes) \o ScopeCells(captured)
             \o FlattenSeq([i \in DOMAIN frames |-> ScopeCells(frames[i].scopes)]))

\* Also of a buffer no longer in use, which TypeOK excludes.
Elements(b) == IF b \in DOMAIN buffer THEN buffer[b] ELSE <<>>

BufferOrder(cs) ==
  LET roots == [i \in DOMAIN cs |-> cell[cs[i]]] \o temps
                 \o FlattenSeq([i \in DOMAIN frames |-> frames[i].temps \o frames[i].items])
      met[n \in 0..NumBuffers] ==
        IF n = 0 THEN Distinct(roots)
        ELSE LET s == met[n - 1] IN
             IF Len(s) = Cardinality(DOMAIN buffer) THEN s
             ELSE Distinct(s \o FlattenSeq([i \in DOMAIN s |-> Elements(s[i])]))
  IN met[NumBuffers]

CanonicalView ==
  LET cs == CellOrder
      bs == BufferOrder(cs)
      C(scs) == [i \in DOMAIN scs |-> [x \in DOMAIN scs[i] |-> Place(cs, scs[i][x])]]
      B(s) == [i \in DOMAIN s |-> Place(bs, s[i])]
  IN <<C(scopes), C(captured), B([i \in DOMAIN cs |-> cell[cs[i]]]),
       [i \in DOMAIN bs |-> B(Elements(bs[i]))], B(temps),
       [i \in DOMAIN frames |-> <<frames[i].kind, C(frames[i].scopes), B(frames[i].temps),
                                  B(frames[i].items)>>],
       outcome>>
==============================================================================
