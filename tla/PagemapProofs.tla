---------------------------- MODULE PagemapProofs ----------------------------
(***************************************************************************)
(* Ranges stay disjoint, and page tables and page lists agree, for every   *)
(* number of address spaces, pages, frames and range objects, and for any  *)
(* choice of frames that the page allocator makes.                         *)
(*                                                                         *)
(* From that the shortcuts of lookup are sound, and mprotect and fork lose *)
(* no page.                                                                *)
(***************************************************************************)
EXTENDS Pagemap, TLAPS

Ranges == [Ids -> Range \cup {NULL}]

-----------------------------------------------------------------------------
\* What add_range leaves of the old ranges is disjoint and outside [b, e).
LEMMA TrimmedRange ==
    ASSUME NEW r \in Range, r.base < r.end, NEW b \in Int, NEW e \in Int, b <= e
    PROVE  LET q == Trimmed(r, b, e) IN
           /\ q \in Range \cup {NULL}
           /\ q # NULL => /\ q.base < q.end /\ r.base <= q.base /\ q.end <= r.end
                          /\ q.end <= b \/ e <= q.base
                          /\ q.flags = r.flags /\ q.type = r.type
           /\ \A va \in Int : r.base <= va /\ va < r.end /\ ~(b <= va /\ va < e) =>
                 \/ q # NULL /\ q.base <= va /\ va < q.end
                 \/ Splits(r, b, e) /\ e <= va
  BY PagemapAssumption DEF Trimmed, Overlaps, Covers, Splits, Range

LEMMA ResolvedRanges ==
    ASSUME NEW R \in Ranges, Disjoint(R), NEW b \in Int, NEW e \in Int, b <= e,
           NEW k \in Ids, R[k] = NULL
    PROVE  LET Q == Resolved(R, b, e, k) IN
           /\ Q \in Ranges /\ Disjoint(Q)
           /\ \A i \in Live(Q) : Q[i].end <= b \/ e <= Q[i].base
           /\ \A i \in Ids \ {k} : R[i] = NULL => Q[i] = NULL
           /\ Q[k] # NULL => e <= Q[k].base
           /\ \A i \in Live(R), va \in Pages :
                 va \in Extent(R[i]) /\ va \notin Between(b, e) =>
                    \/ /\ Q[i] # NULL /\ va \in Extent(Q[i])
                       /\ Q[i].flags = R[i].flags /\ Q[i].type = R[i].type
                    \/ Q[k] # NULL /\ va \in Extent(Q[k])
  <1> DEFINE Q == Resolved(R, b, e, k)
             J == CHOOSE j \in Live(R) : Splits(R[j], b, e)
             Split == \E j \in Live(R) : Splits(R[j], b, e)
  <1>1. \A i \in Live(R) : i \in Ids /\ R[i] \in Range /\ R[i].base < R[i].end /\ i # k
    BY DEF Ranges, Live, Disjoint
  <1>2. \A i \in Live(R) : Q[i] = Trimmed(R[i], b, e)
    BY <1>1 DEF Resolved, Live
  <1>3. Split => J \in Live(R) /\ Splits(R[J], b, e)
    BY DEF Splits
  <1>4. Q[k] = IF Split THEN [R[J] EXCEPT !.base = e] ELSE NULL
    BY DEF Resolved
  <1>5. \A i \in Ids \ {k} : R[i] = NULL => Q[i] = NULL
    BY DEF Resolved
  <1>6. \A j \in Live(R) : Splits(R[j], b, e) => Split /\ j = J
    <2> SUFFICES ASSUME NEW j \in Live(R), Splits(R[j], b, e)
                 PROVE  Split /\ j = J
      OBVIOUS
    <2>1. Split
      OBVIOUS
    <2>2. J \in Live(R) /\ Splits(R[J], b, e)
      BY <2>1, <1>3
    <2> HIDE DEF J, Split
    <2> QED
      BY <2>1, <2>2, <1>1 DEF Disjoint, Splits, Range
  <1>7. Split => /\ Q[k] \in Range /\ Q[k].base = e /\ Q[k].end = R[J].end
                 /\ R[J].base < e /\ e < R[J].end
    <2> HIDE DEF J, Split, Q
    <2> QED
      BY <1>1, <1>3, <1>4 DEF Splits, Range
  <1>8. \A i \in Live(R) :
           /\ Q[i] \in Range \cup {NULL}
           /\ Q[i] # NULL => /\ Q[i].base < Q[i].end
                             /\ R[i].base <= Q[i].base /\ Q[i].end <= R[i].end
                             /\ Q[i].end <= b \/ e <= Q[i].base
                             /\ Q[i].flags = R[i].flags /\ Q[i].type = R[i].type
           /\ Splits(R[i], b, e) => Q[i] # NULL /\ Q[i].end <= b
    <2> SUFFICES ASSUME NEW i \in Live(R)
                 PROVE  /\ Q[i] \in Range \cup {NULL}
                        /\ Q[i] # NULL => /\ Q[i].base < Q[i].end
                                          /\ R[i].base <= Q[i].base /\ Q[i].end <= R[i].end
                                          /\ Q[i].end <= b \/ e <= Q[i].base
                                          /\ Q[i].flags = R[i].flags /\ Q[i].type = R[i].type
                        /\ Splits(R[i], b, e) => Q[i] # NULL /\ Q[i].end <= b
      OBVIOUS
    <2>1. Splits(R[i], b, e) => Trimmed(R[i], b, e) # NULL /\ Trimmed(R[i], b, e).end <= b
      BY <1>1, PagemapAssumption DEF Trimmed, Splits, Overlaps, Covers, Range
    <2> HIDE DEF Q
    <2> QED
      BY <1>1, <1>2, <2>1, TrimmedRange
  <1>9. Q \in Ranges
    <2>1. \A i \in Ids : Q[i] \in Range \cup {NULL}
      <3> HIDE DEF Q, Split, J
      <3> QED
        BY <1>4, <1>5, <1>7, <1>8 DEF Live
    <2>2. Q = [i \in Ids |-> Q[i]]
      BY DEF Resolved
    <2> HIDE DEF Q
    <2> QED
      BY <2>1, <2>2 DEF Ranges
  <1>10. \A i \in Live(Q) : i \in Live(R) \/ (i = k /\ Split)
    <2> HIDE DEF Q, Split, J
    <2> QED
      BY <1>4, <1>5 DEF Live
  <1>11. \A i \in Live(Q) : Q[i].base < Q[i].end /\ (Q[i].end <= b \/ e <= Q[i].base)
    <2> HIDE DEF Q, Split, J
    <2> QED
      BY <1>1, <1>3, <1>7, <1>8, <1>10 DEF Live, Range
  <1>12. \A i, j \in Live(Q) : i # j => Q[i].end <= Q[j].base \/ Q[j].end <= Q[i].base
    <2> SUFFICES ASSUME NEW i \in Live(Q), NEW j \in Live(Q), i # j
                 PROVE  Q[i].end <= Q[j].base \/ Q[j].end <= Q[i].base
      OBVIOUS
    <2>0. /\ Q[i] \in Range /\ Q[j] \in Range
          /\ \A x \in Live(R) : R[x].base \in Int /\ R[x].end \in Int
          /\ \A r \in Range : r.base \in Int /\ r.end \in Int
      <3>1. \A r \in Range : r.base \in Int /\ r.end \in Int
        BY DEF Range
      <3> HIDE DEF Q
      <3> QED
        BY <1>1, <1>9, <3>1 DEF Ranges, Live
    <2>1. CASE i \in Live(R) /\ j \in Live(R)
      <3>1. R[i].end <= R[j].base \/ R[j].end <= R[i].base
        BY <2>1 DEF Disjoint
      <3> HIDE DEF Q
      <3> QED
        BY <2>0, <2>1, <3>1, <1>8 DEF Live
    <2>2. CASE i \in Live(R) /\ j = k /\ Split
      <3>1. i = J \/ R[i].end <= R[J].base \/ R[J].end <= R[i].base
        BY <2>2, <1>3 DEF Disjoint
      <3>2. i = J => Q[i].end <= b
        BY <2>2, <1>3, <1>8
      <3>3. J \in Live(R) /\ Splits(R[J], b, e)
        BY <2>2, <1>3
      <3>4. R[J].base < b
        BY <3>3 DEF Splits
      <3>5. Q[j].base = e /\ Q[j].end = R[J].end
        BY <2>2, <1>7
      <3> HIDE DEF Q, Split, J
      <3> QED
        BY <2>0, <2>2, <3>1, <3>2, <3>3, <3>4, <3>5, <1>8, <1>11 DEF Live
    <2>3. CASE j \in Live(R) /\ i = k /\ Split
      <3>1. j = J \/ R[j].end <= R[J].base \/ R[J].end <= R[j].base
        BY <2>3, <1>3 DEF Disjoint
      <3>2. j = J => Q[j].end <= b
        BY <2>3, <1>3, <1>8
      <3>3. J \in Live(R) /\ Splits(R[J], b, e)
        BY <2>3, <1>3
      <3>4. R[J].base < b
        BY <3>3 DEF Splits
      <3>5. Q[i].base = e /\ Q[i].end = R[J].end
        BY <2>3, <1>7
      <3> HIDE DEF Q, Split, J
      <3> QED
        BY <2>0, <2>3, <3>1, <3>2, <3>3, <3>4, <3>5, <1>8, <1>11 DEF Live
    <2> HIDE DEF Q, Split, J
    <2> QED
      BY <2>1, <2>2, <2>3, <1>10
  <1>13. Disjoint(Q)
    <2> HIDE DEF Q
    <2> QED
      BY <1>11, <1>12 DEF Disjoint
  <1>14. Q[k] # NULL => e <= Q[k].base
    <2> HIDE DEF Q, Split, J
    <2> QED
      BY <1>4, <1>7
  <1>15. \A i \in Live(R), va \in Pages :
                 va \in Extent(R[i]) /\ va \notin Between(b, e) =>
                    \/ /\ Q[i] # NULL /\ va \in Extent(Q[i])
                       /\ Q[i].flags = R[i].flags /\ Q[i].type = R[i].type
                    \/ Q[k] # NULL /\ va \in Extent(Q[k])
    <2> SUFFICES ASSUME NEW i \in Live(R), NEW va \in Pages,
                        va \in Extent(R[i]), va \notin Between(b, e)
                 PROVE  \/ /\ Q[i] # NULL /\ va \in Extent(Q[i])
                           /\ Q[i].flags = R[i].flags /\ Q[i].type = R[i].type
                        \/ Q[k] # NULL /\ va \in Extent(Q[k])
      OBVIOUS
    <2>1. va \in Int /\ R[i].base <= va /\ va < R[i].end /\ ~(b <= va /\ va < e)
      BY PagemapAssumption DEF Extent, Between, Pages, Heap, Mmap
    <2>2. \/ Q[i] # NULL /\ Q[i].base <= va /\ va < Q[i].end
          \/ Splits(R[i], b, e) /\ e <= va
      <3> HIDE DEF Q
      <3> QED
        BY <2>1, <1>1, <1>2, TrimmedRange
    <2>3. CASE Q[i] # NULL /\ Q[i].base <= va /\ va < Q[i].end
      <3> HIDE DEF Q
      <3> QED
        BY <2>3, <1>8 DEF Extent
    <2>4. CASE Splits(R[i], b, e) /\ e <= va
      <3>1. Split /\ i = J
        BY <2>4, <1>6
      <3> HIDE DEF Q, Split, J
      <3> QED
        BY <3>1, <2>1, <2>4, <1>7, PagemapAssumption DEF Extent
    <2> QED
      BY <2>2, <2>3, <2>4
  <1> HIDE DEF Q
  <1>16. /\ Q \in Ranges /\ Disjoint(Q)
         /\ \A i \in Live(Q) : Q[i].end <= b \/ e <= Q[i].base
         /\ \A i \in Ids \ {k} : R[i] = NULL => Q[i] = NULL
         /\ Q[k] # NULL => e <= Q[k].base
         /\ \A i \in Live(R), va \in Pages :
                 va \in Extent(R[i]) /\ va \notin Between(b, e) =>
                    \/ /\ Q[i] # NULL /\ va \in Extent(Q[i])
                       /\ Q[i].flags = R[i].flags /\ Q[i].type = R[i].type
                    \/ Q[k] # NULL /\ va \in Extent(Q[k])
    BY <1>5, <1>9, <1>11, <1>13, <1>14, <1>15
  <1> QED
    BY <1>16 DEF Q
-----------------------------------------------------------------------------
\* In MemInv, the range around an entry is the one that lists its frame, and
\* two entries never share a frame.
LEMMA EntryFacts ==
    ASSUME MemInv, NEW s \in Spaces, NEW va \in Mapped(s)
    PROVE  /\ va \in Pages /\ va \in Int /\ pte[s][va] \in Entries
           /\ \A i, j \in Live(rng[s]) :
                 va \in Extent(rng[s][i]) /\ va \in Extent(rng[s][j]) => i = j
           /\ \E i \in Live(rng[s]) : /\ va \in Extent(rng[s][i])
                                      /\ pte[s][va].flags = rng[s][i].flags
           /\ pte[s][va].frame # Device =>
                 /\ pte[s][va].frame \in Frames
                 /\ owner[pte[s][va].frame] \in Owners
                 /\ owner[pte[s][va].frame].space = s /\ owner[pte[s][va].frame].addr = va
                 /\ owner[pte[s][va].frame].range \in Live(rng[s])
                 /\ va \in Extent(rng[s][owner[pte[s][va].frame].range])
  <1>1. va \in Pages /\ va \in Int /\ pte[s][va] \in Entries
    BY PagemapAssumption DEF Mapped, MemInv, Pages, Heap, Mmap
  <1>2. \A i \in Live(rng[s]) : rng[s][i] \in Range
    BY DEF Live, MemInv
  <1>3. ASSUME NEW i \in Live(rng[s]), NEW j \in Live(rng[s]), i # j,
               va \in Extent(rng[s][i]), va \in Extent(rng[s][j])
        PROVE  FALSE
    <2>1. rng[s][i].end <= rng[s][j].base \/ rng[s][j].end <= rng[s][i].base
      BY <1>3 DEF MemInv, RangesDisjoint, Disjoint
    <2> QED
      BY <1>1, <1>2, <1>3, <2>1 DEF Extent, Range
  <1>4. \E i \in Live(rng[s]) : va \in Extent(rng[s][i]) /\ pte[s][va].flags = rng[s][i].flags
    BY DEF MemInv, EntriesCurrent
  <1>5. ASSUME pte[s][va].frame # Device
        PROVE  /\ pte[s][va].frame \in Frames
               /\ owner[pte[s][va].frame] \in Owners
               /\ owner[pte[s][va].frame].space = s /\ owner[pte[s][va].frame].addr = va
               /\ owner[pte[s][va].frame].range \in Live(rng[s])
               /\ va \in Extent(rng[s][owner[pte[s][va].frame].range])
    <2>1. pte[s][va].frame \in Frames
      BY <1>1, <1>5 DEF Entries
    <2>2. /\ owner[pte[s][va].frame] # NULL
          /\ owner[pte[s][va].frame].space = s /\ owner[pte[s][va].frame].addr = va
          /\ rng[s][owner[pte[s][va].frame].range] # NULL
          /\ va \in Extent(rng[s][owner[pte[s][va].frame].range])
      BY <1>5 DEF MemInv, EntriesOwned
    <2>3. owner[pte[s][va].frame] \in Owners
      BY <2>1, <2>2 DEF MemInv
    <2> QED
      BY <2>1, <2>2, <2>3 DEF Owners, Live
  <1> QED
    BY <1>1, <1>3, <1>4, <1>5

\* invalidate_pages keeps the page table and the page lists in agreement, when
\* each page that moves goes to a range around it and each page that stays is
\* still in its range.
LEMMA InvalidateStep ==
    ASSUME MemInv, NEW s \in alive, NEW R \in Ranges, Disjoint(R),
           NEW gone \in SUBSET Mapped(s), NEW to, DOMAIN to \subseteq Mapped(s) \ gone,
           \A va \in DOMAIN to : /\ to[va] \in Ids /\ R[to[va]] # NULL
                                 /\ va \in Extent(R[to[va]]),
           \A va \in Mapped(s) \ (gone \cup DOMAIN to), i \in Live(rng[s]) :
              va \in Extent(rng[s][i]) =>
                 R[i] # NULL /\ va \in Extent(R[i]) /\ R[i].flags = rng[s][i].flags,
           invalidate_pages(s, R, gone, to), alive' = alive
    PROVE  /\ MemInv' /\ rng' = [rng EXCEPT ![s] = R]
           /\ \A va \in Mapped(s) \ gone :
                 /\ pte'[s][va] # NULL
                 /\ pte[s][va].frame # Device => pte'[s][va].frame = pte[s][va].frame
  <1> DEFINE D == DOMAIN to
             Foreign == {va \in D : pte[s][va].frame = Device}
             new == CHOOSE g \in Allocations(s, Foreign) : TRUE
             frame == [va \in D |-> IF va \in Foreign THEN new[va] ELSE pte[s][va].frame]
             Freed == {f \in Frames : \/ \E va \in gone : pte[s][va].frame = f
                                      \/ /\ owner[f] # NULL /\ owner[f].space = s
                                         /\ R[owner[f].range] = NULL}
  <1>0. s \in Spaces /\ D \subseteq Mapped(s) /\ D \subseteq Pages /\ Mapped(s) \subseteq Pages
    BY DEF MemInv, Mapped
  <1>1. /\ Allocations(s, Foreign) # {}
        /\ rng' = [rng EXCEPT ![s] = R]
        /\ pte' = [pte EXCEPT ![s] =
              [va \in Pages |-> IF va \in gone THEN NULL
                                ELSE IF va \in D THEN Entry(frame[va], R[to[va]].flags)
                                ELSE pte[s][va]]]
        /\ owner' = [f \in Frames |->
              IF \E va \in D : frame[va] = f
              THEN LET va == CHOOSE va \in D : frame[va] = f
                   IN  Owner(s, to[va], va)
              ELSE IF f \in Freed THEN NULL ELSE owner[f]]
    BY DEF invalidate_pages
  <1>2. /\ new \in [Foreign -> FreeFrames]
        /\ \A x, y \in Foreign : new[x] = new[y] => x = y
    <2>1. new \in Allocations(s, Foreign)
      BY <1>1
    <2> HIDE DEF new, Foreign
    <2> QED
      BY <2>1 DEF Allocations
  <1> HIDE DEF new
  <1>3. \A va \in D : /\ frame[va] \in Frames
                      /\ va \in Foreign => owner[frame[va]] = NULL
                      /\ va \notin Foreign => /\ frame[va] = pte[s][va].frame
                                              /\ pte[s][va].frame # Device
                                              /\ owner[frame[va]] \in Owners
                                              /\ owner[frame[va]].space = s
                                              /\ owner[frame[va]].addr = va
    <2> SUFFICES ASSUME NEW va \in D
                 PROVE  /\ frame[va] \in Frames
                        /\ va \in Foreign => owner[frame[va]] = NULL
                        /\ va \notin Foreign => /\ frame[va] = pte[s][va].frame
                                                /\ pte[s][va].frame # Device
                                                /\ owner[frame[va]] \in Owners
                                                /\ owner[frame[va]].space = s
                                                /\ owner[frame[va]].addr = va
      OBVIOUS
    <2>1. CASE va \in Foreign
      <3>1. frame[va] = new[va]
        BY <2>1
      <3> QED
        BY <2>1, <3>1, <1>2 DEF FreeFrames
    <2>2. CASE va \notin Foreign
      <3>1. frame[va] = pte[s][va].frame /\ pte[s][va].frame # Device
        BY <2>2
      <3> HIDE DEF frame, Foreign
      <3> QED
        BY <2>2, <3>1, <1>0, EntryFacts
    <2> QED
      BY <2>1, <2>2
  <1>4. \A x, y \in D : frame[x] = frame[y] => x = y
    <2> SUFFICES ASSUME NEW x \in D, NEW y \in D, frame[x] = frame[y]
                 PROVE  x = y
      OBVIOUS
    <2>1. CASE x \in Foreign /\ y \in Foreign
      BY <2>1, <1>2
    <2>2. CASE x \notin Foreign /\ y \notin Foreign
      <3> HIDE DEF frame, Foreign
      <3> QED
        BY <2>2, <1>3
    <2>3. CASE (x \in Foreign) # (y \in Foreign)
      <3> HIDE DEF frame, Foreign
      <3> QED
        BY <2>3, <1>3, PagemapAssumption
    <2> QED
      BY <2>1, <2>2, <2>3
  <1>5. \A va \in D : owner'[frame[va]] = Owner(s, to[va], va)
    <2> SUFFICES ASSUME NEW va \in D
                 PROVE  owner'[frame[va]] = Owner(s, to[va], va)
      OBVIOUS
    <2> DEFINE w == CHOOSE x \in D : frame[x] = frame[va]
    <2>1. w \in D /\ frame[w] = frame[va]
      OBVIOUS
    <2>2. w = va
      <3> HIDE DEF w, frame, D
      <3> QED
        BY <2>1, <1>4
    <2>3. frame[va] \in Frames
      BY <1>3
    <2>4. owner'[frame[va]] = Owner(s, to[w], w)
      <3> HIDE DEF frame, D, Freed
      <3> QED
        BY <2>3, <1>1
    <2> QED
      BY <2>2, <2>4
  <1>6. \A f \in Frames : (\A va \in D : frame[va] # f) =>
           owner'[f] = IF f \in Freed THEN NULL ELSE owner[f]
    <2> HIDE DEF frame, D, Freed
    <2> QED
      BY <1>1
  <1>7. /\ \A va \in Pages : pte'[s][va] =
              IF va \in gone THEN NULL
              ELSE IF va \in D THEN Entry(frame[va], R[to[va]].flags) ELSE pte[s][va]
        /\ \A x \in Spaces \ {s} : pte'[x] = pte[x] /\ rng'[x] = rng[x]
        /\ rng'[s] = R
    <2> HIDE DEF frame, D, Freed
    <2> QED
      BY <1>0, <1>1 DEF MemInv
  <1> HIDE DEF frame, Foreign, Freed, D
  <1>8. \A va \in D : /\ to[va] \in Ids /\ R[to[va]] \in Range /\ va \in Extent(R[to[va]])
                      /\ Entry(frame[va], R[to[va]].flags) \in Entries
                      /\ Entry(frame[va], R[to[va]].flags).frame = frame[va]
                      /\ Entry(frame[va], R[to[va]].flags).flags = R[to[va]].flags
                      /\ Entry(frame[va], R[to[va]].flags) # NULL
    <2> SUFFICES ASSUME NEW va \in D
                 PROVE  /\ to[va] \in Ids /\ R[to[va]] \in Range /\ va \in Extent(R[to[va]])
                        /\ Entry(frame[va], R[to[va]].flags) \in Entries
                        /\ Entry(frame[va], R[to[va]].flags).frame = frame[va]
                        /\ Entry(frame[va], R[to[va]].flags).flags = R[to[va]].flags
                        /\ Entry(frame[va], R[to[va]].flags) # NULL
      OBVIOUS
    <2>1. to[va] \in Ids /\ R[to[va]] \in Range /\ va \in Extent(R[to[va]])
      BY DEF D, Ranges
    <2>2. frame[va] \in Frames
      BY <1>3
    <2>3. R[to[va]].flags \in Flags
      BY <2>1 DEF Range
    <2>4. Entry(frame[va], R[to[va]].flags) \in Entries
      BY <2>2, <2>3 DEF Entry, Entries
    <2> QED
      BY <2>1, <2>4, PagemapAssumption DEF Entry
  \* The frames of pages that stay keep their owner.
  <1>9. \A va \in Mapped(s) \ (gone \cup D) : pte[s][va].frame # Device =>
           owner'[pte[s][va].frame] = owner[pte[s][va].frame]
    <2> SUFFICES ASSUME NEW va \in Mapped(s) \ (gone \cup D), pte[s][va].frame # Device
                 PROVE  owner'[pte[s][va].frame] = owner[pte[s][va].frame]
      OBVIOUS
    <2> DEFINE f == pte[s][va].frame
    <2>1. /\ f \in Frames /\ owner[f] \in Owners /\ owner[f].space = s /\ owner[f].addr = va
          /\ owner[f].range \in Live(rng[s]) /\ va \in Extent(rng[s][owner[f].range])
      BY <1>0, EntryFacts
    <2>2. \A x \in D : frame[x] # f
      BY <2>1, <1>3, PagemapAssumption DEF Owners
    <2>3. R[owner[f].range] # NULL
      BY <2>1 DEF D
    <2>4. \A x \in gone : pte[s][x].frame # f
      <3> SUFFICES ASSUME NEW x \in gone, pte[s][x].frame = f PROVE FALSE
        OBVIOUS
      <3>1. owner[pte[s][x].frame].addr = x
        BY <1>0, EntryFacts
      <3> QED
        BY <3>1, <2>1
    <2>5. f \notin Freed
      BY <2>3, <2>4 DEF Freed
    <2> QED
      BY <2>1, <2>2, <2>5, <1>6
  \* Frames of other spaces keep their owner.
  <1>10. \A f \in Frames : owner[f] # NULL /\ owner[f].space # s => owner'[f] = owner[f]
    <2> SUFFICES ASSUME NEW f \in Frames, owner[f] # NULL, owner[f].space # s
                 PROVE  owner'[f] = owner[f]
      OBVIOUS
    <2>1. \A x \in D : frame[x] # f
      BY <1>3
    <2>2. \A x \in gone : pte[s][x].frame # f
      <3> SUFFICES ASSUME NEW x \in gone, pte[s][x].frame = f PROVE FALSE
        OBVIOUS
      <3>1. f # Device
        BY PagemapAssumption
      <3>2. owner[pte[s][x].frame].space = s
        BY <3>1, <1>0, EntryFacts
      <3> QED
        BY <3>2
    <2>3. f \notin Freed
      BY <2>2 DEF Freed
    <2> QED
      BY <2>1, <2>3, <1>6
  <1>11. /\ alive' \subseteq Spaces
         /\ rng' \in [Spaces -> [Ids -> Range \cup {NULL}]]
         /\ pte' \in [Spaces -> [Pages -> Entries \cup {NULL}]]
         /\ owner' \in [Frames -> Owners \cup {NULL}]
    <2>1. alive' \subseteq Spaces /\ rng' \in [Spaces -> [Ids -> Range \cup {NULL}]]
      BY <1>0, <1>1 DEF MemInv, Ranges
    <2>2. \A va \in Pages : pte'[s][va] \in Entries \cup {NULL}
      BY <1>0, <1>7, <1>8 DEF MemInv
    <2>3. pte' \in [Spaces -> [Pages -> Entries \cup {NULL}]]
      <3>1. pte'[s] \in [Pages -> Entries \cup {NULL}]
        BY <2>2, <1>0, <1>1 DEF MemInv
      <3>2. pte' = [x \in Spaces |-> IF x = s THEN pte'[s] ELSE pte[x]]
        BY <1>0, <1>1 DEF MemInv
      <3> QED
        BY <3>1, <3>2 DEF MemInv
    <2>4. \A f \in Frames : owner'[f] \in Owners \cup {NULL}
      <3> SUFFICES ASSUME NEW f \in Frames PROVE owner'[f] \in Owners \cup {NULL}
        OBVIOUS
      <3>1. CASE \E va \in D : frame[va] = f
        <4>1. PICK va \in D : frame[va] = f
          BY <3>1
        <4>2. owner'[frame[va]] = Owner(s, to[va], va)
          BY <1>5
        <4>3. to[va] \in Ids /\ va \in Pages
          BY <1>0, <1>8
        <4>4. Owner(s, to[va], va) \in Owners
          BY <4>3, <1>0 DEF Owner, Owners
        <4> QED
          BY <4>1, <4>2, <4>4
      <3>2. CASE \A va \in D : frame[va] # f
        BY <3>2, <1>6 DEF MemInv
      <3> QED
        BY <3>1, <3>2
    <2>5. owner' = [f \in Frames |-> owner'[f]]
      BY <1>1
    <2> QED
      BY <2>1, <2>3, <2>4, <2>5
  <1>12. RangesDisjoint'
    <2> SUFFICES ASSUME NEW x \in Spaces PROVE Disjoint(rng'[x])
      BY DEF RangesDisjoint, Disjoint, Live
    <2> QED
      BY <1>7 DEF MemInv, RangesDisjoint
  <1>13. ASSUME NEW x \in Spaces, NEW va \in Pages, pte'[x][va] # NULL
         PROVE  /\ \E i \in Ids : /\ rng'[x][i] # NULL /\ va \in Extent(rng'[x][i])
                                  /\ pte'[x][va].flags = rng'[x][i].flags
                /\ pte'[x][va].frame # Device =>
                      LET f == pte'[x][va].frame IN
                      /\ owner'[f] # NULL /\ owner'[f].space = x /\ owner'[f].addr = va
                      /\ rng'[x][owner'[f].range] # NULL
                      /\ va \in Extent(rng'[x][owner'[f].range])
    <2>1. CASE x # s
      <3>1. /\ pte'[x] = pte[x] /\ rng'[x] = rng[x] /\ va \in Mapped(x)
        BY <2>1, <1>7, <1>13 DEF Mapped
      <3>2. \E i \in Live(rng[x]) : va \in Extent(rng[x][i]) /\ pte[x][va].flags = rng[x][i].flags
        BY <3>1, EntryFacts
      <3>3. ASSUME pte[x][va].frame # Device
            PROVE  /\ pte[x][va].frame \in Frames /\ owner[pte[x][va].frame] \in Owners
                   /\ owner[pte[x][va].frame].space = x /\ owner[pte[x][va].frame].addr = va
                   /\ owner[pte[x][va].frame].range \in Live(rng[x])
                   /\ va \in Extent(rng[x][owner[pte[x][va].frame].range])
                   /\ owner'[pte[x][va].frame] = owner[pte[x][va].frame]
        BY <2>1, <3>1, <3>3, <1>10, EntryFacts, PagemapAssumption
      <3> QED
        BY <3>1, <3>2, <3>3, PagemapAssumption DEF Live
    <2>2. CASE x = s /\ va \in D
      <3>1. va \notin gone
        BY <2>2 DEF D
      <3>2. pte'[x][va] = Entry(frame[va], R[to[va]].flags)
        BY <2>2, <3>1, <1>7
      <3>3. owner'[frame[va]] = Owner(s, to[va], va)
        BY <2>2, <1>5
      <3>4. Owner(s, to[va], va) \in Owners
        BY <2>2, <1>0, <1>8 DEF Owner, Owners
      <3>5. Owner(s, to[va], va).space = s /\ Owner(s, to[va], va).addr = va
            /\ Owner(s, to[va], va).range = to[va] /\ Owner(s, to[va], va) # NULL
        BY <3>4, PagemapAssumption DEF Owner
      <3>6. rng'[s] = R /\ to[va] \in Ids /\ R[to[va]] # NULL /\ va \in Extent(R[to[va]])
        <4>1. to[va] \in Ids /\ R[to[va]] \in Range /\ va \in Extent(R[to[va]])
          BY <2>2, <1>8
        <4>2. rng'[s] = R
          BY <1>7
        <4> QED
          BY <4>1, <4>2, PagemapAssumption
      <3>7. pte'[x][va].frame = frame[va] /\ pte'[x][va].flags = R[to[va]].flags
        BY <2>2, <3>2, <1>7, <1>8
      <3> QED
        BY <2>2, <3>3, <3>5, <3>6, <3>7
    <2>3. CASE x = s /\ va \notin D
      <3>1. pte'[s][va] = pte[s][va] /\ va \in Mapped(s) \ (gone \cup D)
        BY <2>3, <1>7, <1>13 DEF Mapped
      <3>2. PICK i \in Live(rng[s]) : /\ va \in Extent(rng[s][i])
                                     /\ pte[s][va].flags = rng[s][i].flags
        BY <3>1, <1>0, EntryFacts
      <3>3. R[i] # NULL /\ va \in Extent(R[i]) /\ R[i].flags = rng[s][i].flags
        BY <3>1, <3>2 DEF D
      <3>4. ASSUME pte[s][va].frame # Device
            PROVE  /\ owner'[pte[s][va].frame] = owner[pte[s][va].frame]
                   /\ owner[pte[s][va].frame] \in Owners
                   /\ owner[pte[s][va].frame].space = s /\ owner[pte[s][va].frame].addr = va
                   /\ owner[pte[s][va].frame].range = i
        BY <3>1, <3>2, <3>4, <1>0, <1>9, EntryFacts
      <3> QED
        BY <2>3, <3>1, <3>2, <3>3, <3>4, <1>7, PagemapAssumption DEF Live
    <2> QED
      BY <2>1, <2>2, <2>3
  <1>14. EntriesCurrent'
    BY <1>13 DEF EntriesCurrent, Mapped, Live
  <1>15. EntriesOwned'
    BY <1>13 DEF EntriesOwned, Mapped
  <1>16. FramesMapped'
    <2> SUFFICES ASSUME NEW f \in Frames, owner'[f] # NULL
                 PROVE  /\ owner'[f].space \in alive
                        /\ pte'[owner'[f].space][owner'[f].addr] # NULL
                        /\ pte'[owner'[f].space][owner'[f].addr].frame = f
      BY DEF FramesMapped
    <2>1. CASE \E va \in D : frame[va] = f
      <3>1. PICK va \in D : frame[va] = f
        BY <2>1
      <3>2. owner'[frame[va]] = Owner(s, to[va], va)
        BY <1>5
      <3>3. owner'[f].space = s /\ owner'[f].addr = va
        BY <3>1, <3>2 DEF Owner
      <3>4. va \in Pages /\ va \notin gone
        BY <1>0 DEF D
      <3>5. pte'[s][va] = Entry(frame[va], R[to[va]].flags)
        BY <3>4, <1>7
      <3> QED
        BY <3>1, <3>3, <3>4, <3>5, <1>8
    <2>2. CASE \A va \in D : frame[va] # f
      <3>1. owner'[f] = owner[f] /\ f \notin Freed
        BY <2>2, <1>6
      <3>2. /\ owner[f].space \in alive /\ owner[f] \in Owners
            /\ pte[owner[f].space][owner[f].addr] # NULL
            /\ pte[owner[f].space][owner[f].addr].frame = f
        BY <3>1 DEF MemInv, FramesMapped
      <3>3. CASE owner[f].space # s
        BY <3>1, <3>2, <3>3, <1>7 DEF MemInv
      <3>4. CASE owner[f].space = s
        <4> DEFINE va == owner[f].addr
        <4>1. va \in Mapped(s) /\ pte[s][va].frame = f /\ f # Device
          BY <3>2, <3>4, PagemapAssumption DEF Mapped, Owners
        <4>2. va \notin gone
          BY <3>1, <4>1 DEF Freed
        <4>3. va \notin D
          <5> SUFFICES ASSUME va \in D PROVE FALSE
            OBVIOUS
          <5>1. frame[va] = f
            BY <4>1, <1>3 DEF Foreign
          <5> QED
            BY <5>1, <2>2
        <4> QED
          BY <3>1, <3>2, <3>4, <4>1, <4>2, <4>3, <1>0, <1>7
      <3> QED
        BY <3>3, <3>4
    <2> QED
      BY <2>1, <2>2
  <1>17. GoneEmpty'
    BY <1>7 DEF MemInv, GoneEmpty
  <1>18. \A va \in Mapped(s) \ gone :
                 /\ pte'[s][va] # NULL
                 /\ pte[s][va].frame # Device => pte'[s][va].frame = pte[s][va].frame
    <2> SUFFICES ASSUME NEW va \in Mapped(s) \ gone
                 PROVE  /\ pte'[s][va] # NULL
                        /\ pte[s][va].frame # Device => pte'[s][va].frame = pte[s][va].frame
      OBVIOUS
    <2>1. CASE va \in D
      BY <2>1, <1>0, <1>3, <1>7, <1>8 DEF Foreign
    <2>2. CASE va \notin D
      BY <2>2, <1>0, <1>7 DEF Mapped
    <2> QED
      BY <2>1, <2>2
  <1> QED
    BY <1>1, <1>11, <1>12, <1>14, <1>15, <1>16, <1>17, <1>18 DEF MemInv

\* add_range puts range r, which covers [b, e), in the place of what it found.
LEMMA PlacedStep ==
    ASSUME MemInv, NEW s \in alive, NEW b \in Int, NEW e \in Int, b < e,
           NEW k \in Ids, rng[s][k] = NULL, NEW i \in Ids, NEW r \in Range,
           LET Q == Resolved(rng[s], b, e, k) IN
              /\ Q[i] = NULL => /\ r.base = b /\ r.end = e
              /\ Q[i] # NULL =>
                    /\ r.flags = Q[i].flags
                    /\ \/ r.base = Q[i].base /\ r.end = e /\ Q[i].end = b
                       \/ r.base = b /\ r.end = Q[i].end /\ Q[i].base = e
              /\ invalidate_pages(s, [Q EXCEPT ![i] = r], Dropped(s, b, e),
                    [va \in Above(s, Q, k) \cup Inside(s, b, e) |->
                        IF va \in Above(s, Q, k) THEN k ELSE i]),
           alive' = alive
    PROVE  /\ MemInv'
           /\ \A x \in Spaces \ {s} : rng'[x] = rng[x]
  <1> DEFINE Q == Resolved(rng[s], b, e, k)
             R == [Q EXCEPT ![i] = r]
             A == Above(s, Q, k)
             D == A \cup Inside(s, b, e)
             to == [va \in D |-> IF va \in A THEN k ELSE i]
  <1>0. s \in Spaces /\ rng[s] \in Ranges /\ Disjoint(rng[s])
    BY DEF MemInv, RangesDisjoint, Ranges
  <1>1. /\ Q \in Ranges /\ Disjoint(Q)
        /\ \A j \in Live(Q) : Q[j].end <= b \/ e <= Q[j].base
        /\ Q[k] # NULL => e <= Q[k].base
        /\ \A j \in Live(rng[s]), va \in Pages :
              va \in Extent(rng[s][j]) /\ va \notin Between(b, e) =>
                 \/ /\ Q[j] # NULL /\ va \in Extent(Q[j])
                    /\ Q[j].flags = rng[s][j].flags /\ Q[j].type = rng[s][j].type
                 \/ Q[k] # NULL /\ va \in Extent(Q[k])
    BY <1>0, ResolvedRanges
  <1>2. /\ Q[i] = NULL => r.base = b /\ r.end = e
        /\ Q[i] # NULL => /\ r.flags = Q[i].flags
                          /\ \/ r.base = Q[i].base /\ r.end = e /\ Q[i].end = b
                             \/ r.base = b /\ r.end = Q[i].end /\ Q[i].base = e
        /\ invalidate_pages(s, R, Dropped(s, b, e), to)
    OBVIOUS
  <1> HIDE DEF Q
  <1>3. /\ R \in Ranges /\ R[i] = r /\ r # NULL
        /\ \A j \in Ids \ {i} : R[j] = Q[j]
    BY <1>1, PagemapAssumption DEF Ranges
  <1>4. /\ \A j \in Live(Q) : Q[j] \in Range /\ Q[j].base < Q[j].end
        /\ \A q \in Range : q.base \in Int /\ q.end \in Int
    BY <1>1 DEF Ranges, Live, Disjoint, Range
  <1>5. /\ r.base <= b /\ e <= r.end /\ r.base < r.end
        /\ Q[i] # NULL => r.base <= Q[i].base /\ Q[i].end <= r.end
    BY <1>2, <1>4 DEF Live
  <1>6. ASSUME NEW j \in Live(Q), j # i
        PROVE  r.end <= Q[j].base \/ Q[j].end <= r.base
    <2>1. Q[j].end <= b \/ e <= Q[j].base
      BY <1>1
    <2>2. Q[i] # NULL => Q[i].end <= Q[j].base \/ Q[j].end <= Q[i].base
      BY <1>1, <1>6 DEF Disjoint, Live
    <2> QED
      BY <1>2, <1>4, <1>6, <2>1, <2>2 DEF Live
  <1>7. Disjoint(R)
    <2> HIDE DEF R
    <2>1. \A j \in Live(R) : j = i \/ (j \in Live(Q) /\ R[j] = Q[j])
      BY <1>3 DEF Live
    <2> SUFFICES ASSUME NEW j \in Live(R)
                 PROVE  /\ R[j].base < R[j].end
                        /\ \A m \in Live(R) \ {j} :
                              R[j].end <= R[m].base \/ R[m].end <= R[j].base
      BY DEF Disjoint
    <2>2. R[j].base < R[j].end
      BY <2>1, <1>3, <1>4, <1>5
    <2>3. ASSUME NEW m \in Live(R) \ {j}
          PROVE  R[j].end <= R[m].base \/ R[m].end <= R[j].base
      BY <2>1, <1>1, <1>3, <1>6 DEF Disjoint
    <2> QED
      BY <2>2, <2>3
  <1>8. /\ Dropped(s, b, e) \subseteq Mapped(s) /\ A \subseteq Mapped(s)
        /\ Inside(s, b, e) \subseteq (Between(b, e) \cap Mapped(s)) \ Dropped(s, b, e)
        /\ \A va \in A : Q[k] # NULL /\ va \in Extent(Q[k])
    BY DEF Dropped, Above, Inside
  <1>9. \A va \in Pages : va \in Int
    BY PagemapAssumption DEF Pages, Heap, Mmap
  <1>10. \A va \in A : va \notin Dropped(s, b, e)
    <2> SUFFICES ASSUME NEW va \in A, va \in Dropped(s, b, e) PROVE FALSE
      OBVIOUS
    <2>1. Q[k] \in Range /\ e <= Q[k].base /\ Q[k].base <= va /\ va \in Int
      BY <1>1, <1>4, <1>8, <1>9 DEF Extent, Live
    <2>2. \E j \in Live(rng[s]) : va < rng[s][j].end /\ rng[s][j].end <= e
      BY DEF Dropped, Covers, Extent
    <2>3. \A j \in Live(rng[s]) : rng[s][j].end \in Int
      BY <1>0, <1>4 DEF Live, Ranges
    <2> QED
      BY <2>1, <2>2, <2>3, <1>4
  <1>11. DOMAIN to = D /\ D \subseteq Mapped(s) \ Dropped(s, b, e)
    BY <1>8, <1>10
  <1>12. ASSUME NEW va \in D
         PROVE  to[va] \in Ids /\ R[to[va]] # NULL /\ va \in Extent(R[to[va]])
    <2>1. CASE va \in A
      <3>1. to[va] = k /\ Q[k] # NULL /\ va \in Extent(Q[k])
        BY <2>1, <1>8
      <3>2. CASE k = i
        <4>1. va \in Int /\ Q[k] \in Range
          BY <3>1, <1>4, <1>9 DEF Extent, Live
        <4> HIDE DEF R, to
        <4> QED
          BY <3>1, <3>2, <4>1, <1>3, <1>4, <1>5 DEF Extent
      <3>3. CASE k # i
        <4> HIDE DEF R, to
        <4> QED
          BY <3>1, <3>3, <1>3
      <3> QED
        BY <3>2, <3>3
    <2>2. CASE va \notin A
      <3>1. to[va] = i /\ va \in Between(b, e)
        BY <2>2, <1>8
      <3> HIDE DEF R, to
      <3> QED
        BY <3>1, <1>3, <1>4, <1>5, <1>9 DEF Extent, Between
    <2> QED
      BY <2>1, <2>2
  <1>13. ASSUME NEW va \in Mapped(s) \ (Dropped(s, b, e) \cup D), NEW j \in Live(rng[s]),
                va \in Extent(rng[s][j])
         PROVE  R[j] # NULL /\ va \in Extent(R[j]) /\ R[j].flags = rng[s][j].flags
    <2>0. va \in Pages /\ va \in Int /\ j \in Ids /\ rng[s][j] \in Range
      BY <1>0, <1>9, <1>13 DEF Extent, Live, Ranges
    <2>1. va \notin Between(b, e)
      <3> SUFFICES ASSUME va \in Between(b, e) PROVE FALSE
        OBVIOUS
      <3>1. Overlaps(rng[s][j], b, e)
        BY <2>0, <1>4, <1>13 DEF Overlaps, Extent, Between
      <3> QED
        BY <3>1 DEF Inside
    <2>2. ~(Q[k] # NULL /\ va \in Extent(Q[k]))
      BY DEF Above
    <2>3. Q[j] # NULL /\ va \in Extent(Q[j]) /\ Q[j].flags = rng[s][j].flags
      BY <2>0, <2>1, <2>2, <1>1, <1>13
    <2>4. CASE j # i
      BY <2>0, <2>3, <2>4, <1>3
    <2>5. CASE j = i
      <3>1. Q[i] \in Range
        BY <2>0, <2>3, <2>5, <1>4 DEF Live
      <3> HIDE DEF R
      <3> QED
        BY <2>0, <2>3, <2>5, <3>1, <1>2, <1>3, <1>4, <1>5 DEF Extent
    <2> QED
      BY <2>4, <2>5
  <1> HIDE DEF R, to, D
  <1>14. /\ MemInv' /\ rng' = [rng EXCEPT ![s] = R]
    BY <1>2, <1>3, <1>7, <1>8, <1>11, <1>12, <1>13, InvalidateStep
  <1> QED
    BY <1>14, <1>0 DEF MemInv

\* add_range of type NONE leaves nothing mapped in [b, e).
LEMMA RemovedStep ==
    ASSUME MemInv, NEW s \in alive, NEW b \in Int, NEW e \in Int, b <= e,
           NEW k \in Ids, rng[s][k] = NULL, NEW gone, NEW up,
           gone = Between(b, e) \cap Mapped(s),
           up = [va \in Above(s, Resolved(rng[s], b, e, k), k) |-> k],
           invalidate_pages(s, Resolved(rng[s], b, e, k), gone, up),
           alive' = alive
    PROVE  /\ MemInv'
           /\ \A x \in Spaces \ {s} : rng'[x] = rng[x]
  <1> DEFINE Q == Resolved(rng[s], b, e, k)
             A == Above(s, Q, k)
             G == Between(b, e) \cap Mapped(s)
             to == [va \in A |-> k]
  <1>0. s \in Spaces /\ rng[s] \in Ranges /\ Disjoint(rng[s])
    BY DEF MemInv, RangesDisjoint, Ranges
  <1>1. /\ Q \in Ranges /\ Disjoint(Q)
        /\ Q[k] # NULL => e <= Q[k].base
        /\ \A j \in Live(rng[s]), va \in Pages :
              va \in Extent(rng[s][j]) /\ va \notin Between(b, e) =>
                 \/ /\ Q[j] # NULL /\ va \in Extent(Q[j])
                    /\ Q[j].flags = rng[s][j].flags /\ Q[j].type = rng[s][j].type
                 \/ Q[k] # NULL /\ va \in Extent(Q[k])
    BY <1>0, ResolvedRanges
  <1>2. invalidate_pages(s, Q, G, to)
    OBVIOUS
  <1> HIDE DEF Q
  <1>3. A \subseteq Mapped(s) /\ \A va \in A : Q[k] # NULL /\ va \in Extent(Q[k])
    BY DEF Above
  <1>4. \A va \in A : va \notin G
    <2> SUFFICES ASSUME NEW va \in A, va \in Between(b, e) PROVE FALSE
      OBVIOUS
    <2>1. Q[k] \in Range /\ e <= Q[k].base /\ Q[k].base <= va
      BY <1>1, <1>3 DEF Extent, Ranges
    <2>2. va \in Int /\ va < e
      BY PagemapAssumption DEF Between, Pages, Heap, Mmap
    <2> QED
      BY <2>1, <2>2 DEF Range
  <1>5. DOMAIN to = A /\ A \subseteq Mapped(s) \ G
    BY <1>3, <1>4
  <1>6. \A va \in A : to[va] \in Ids /\ Q[to[va]] # NULL /\ va \in Extent(Q[to[va]])
    BY <1>3
  <1>7. ASSUME NEW va \in Mapped(s) \ (G \cup A), NEW j \in Live(rng[s]),
               va \in Extent(rng[s][j])
        PROVE  Q[j] # NULL /\ va \in Extent(Q[j]) /\ Q[j].flags = rng[s][j].flags
    <2>1. va \in Pages /\ va \notin Between(b, e) /\ ~(Q[k] # NULL /\ va \in Extent(Q[k]))
      BY DEF Above, Mapped
    <2> QED
      BY <2>1, <1>1, <1>7
  <1> HIDE DEF to, A
  <1>8. MemInv' /\ rng' = [rng EXCEPT ![s] = Q]
    BY <1>1, <1>2, <1>5, <1>6, <1>7, InvalidateStep
  <1> QED
    BY <1>8, <1>0 DEF MemInv

\* The range that add_range finds with keep_pages only changes its flags.
LEMMA FlagsStep ==
    ASSUME MemInv, NEW s \in alive, NEW i \in Live(rng[s]), NEW fl \in Flags,
           ChangesFlags(s, i, fl), alive' = alive
    PROVE  /\ MemInv'
           /\ \A x \in Spaces \ {s} : rng'[x] = rng[x]
  <1> DEFINE R == [rng[s] EXCEPT ![i].flags = fl]
             D == IF rng[s][i].flags = fl THEN {} ELSE Extent(rng[s][i]) \cap Mapped(s)
             to == [va \in D |-> i]
  <1>0. s \in Spaces /\ rng[s] \in Ranges /\ Disjoint(rng[s]) /\ i \in Ids
        /\ rng[s][i] \in Range
    BY DEF MemInv, RangesDisjoint, Ranges, Live
  <1>1. /\ R[i] = [rng[s][i] EXCEPT !.flags = fl] /\ R[i] \in Range
        /\ R[i].base = rng[s][i].base /\ R[i].end = rng[s][i].end /\ R[i].flags = fl
        /\ \A j \in Ids \ {i} : R[j] = rng[s][j]
    BY <1>0 DEF Ranges, Range
  <1>2. R \in Ranges
    BY <1>0, <1>1 DEF Ranges
  <1>3. invalidate_pages(s, R, {}, to)
    BY DEF ChangesFlags
  <1> HIDE DEF R
  <1>4. Live(R) = Live(rng[s]) /\ R[i] # NULL
    BY <1>0, <1>1, PagemapAssumption DEF Live
  <1>5. \A j \in Live(R) : R[j].base = rng[s][j].base /\ R[j].end = rng[s][j].end
    BY <1>1, <1>4 DEF Live
  <1>6. Disjoint(R)
    BY <1>0, <1>4, <1>5 DEF Disjoint
  <1>7. \A j \in Live(R) : Extent(R[j]) = Extent(rng[s][j])
    BY <1>5 DEF Extent
  <1>8. DOMAIN to = D /\ D \subseteq Mapped(s)
    OBVIOUS
  <1>9. \A va \in D : to[va] \in Ids /\ R[to[va]] # NULL /\ va \in Extent(R[to[va]])
    BY <1>0, <1>4, <1>7
  <1>10. ASSUME NEW va \in Mapped(s) \ D, NEW j \in Live(rng[s]), va \in Extent(rng[s][j])
         PROVE  R[j] # NULL /\ va \in Extent(R[j]) /\ R[j].flags = rng[s][j].flags
    <2>1. j = i => rng[s][i].flags = fl
      BY <1>10
    <2> QED
      BY <2>1, <1>1, <1>4, <1>7, <1>10 DEF Live
  <1> HIDE DEF to, D
  <1>11. MemInv' /\ rng' = [rng EXCEPT ![s] = R]
    <2> DEFINE gone == {}
    <2>1. gone \in SUBSET Mapped(s) /\ D \subseteq Mapped(s) \ gone
      BY <1>8
    <2>2. invalidate_pages(s, R, gone, to)
      BY <1>3
    <2>3. \A va \in Mapped(s) \ (gone \cup D) : va \in Mapped(s) \ D
      OBVIOUS
    <2> HIDE DEF gone
    <2> QED
      BY <1>2, <1>6, <1>8, <1>9, <1>10, <2>1, <2>2, <2>3, InvalidateStep
  <1> QED
    BY <1>11, <1>0 DEF MemInv

\* The arguments that the callers of add_range give it.
Callable(b, e, fl, ty) ==
    \/ ty = "NONE" /\ b <= e
    \/ ty \in Types /\ fl \in Flags /\ b < e

\* The two ways in which add_range replaces [b, e): range i becomes r, which is
\* new or was the neighbour of [b, e); or nothing is left there.
Placing(s, b, e, k, i, r) ==
    LET Q == Resolved(rng[s], b, e, k) IN
    /\ k \in Ids /\ rng[s][k] = NULL /\ i \in Ids /\ r \in Range
    /\ Q[i] = NULL => /\ r.base = b /\ r.end = e
    /\ Q[i] # NULL =>
          /\ r.flags = Q[i].flags /\ r.type = Q[i].type
          /\ \/ r.base = Q[i].base /\ r.end = e /\ Q[i].end = b
             \/ r.base = b /\ r.end = Q[i].end /\ Q[i].base = e
    /\ invalidate_pages(s, [Q EXCEPT ![i] = r], Dropped(s, b, e),
          [va \in Above(s, Q, k) \cup Inside(s, b, e) |->
              IF va \in Above(s, Q, k) THEN k ELSE i])
Removing(s, b, e, k) ==
    LET Q == Resolved(rng[s], b, e, k) IN
    /\ k \in Ids /\ rng[s][k] = NULL
    /\ invalidate_pages(s, Q, Between(b, e) \cap Mapped(s), [va \in Above(s, Q, k) |-> k])

LEMMA AddRangeCases ==
    ASSUME MemInv, NEW s \in alive, NEW b \in Int, NEW e \in Int, NEW fl, NEW ty,
           NEW merge \in BOOLEAN, NEW keep \in BOOLEAN,
           Callable(b, e, fl, ty), add_range(s, b, e, fl, ty, merge, keep)
    PROVE  \/ /\ keep /\ ty # "NONE" /\ fl \in Flags
              /\ \E i \in Live(rng[s]) : IsExact(rng[s][i], b, e, ty) /\ ChangesFlags(s, i, fl)
           \/ /\ ty # "NONE" /\ b < e
              /\ ~\E i \in Live(rng[s]) : keep /\ IsExact(rng[s][i], b, e, ty)
              /\ \E k, i \in Ids, r \in Range : Placing(s, b, e, k, i, r)
           \/ /\ ty = "NONE" /\ b <= e
              /\ \E k \in Ids : Removing(s, b, e, k)
  <1> USE DEF Callable
  <1>0. s \in Spaces /\ "NONE" \notin Types /\ rng[s] \in Ranges
    BY DEF MemInv, Types, Ranges
  <1>1. CASE \E i \in Live(rng[s]) :
                keep /\ IsExact(rng[s][i], b, e, ty) /\ ChangesFlags(s, i, fl)
    <2>1. PICK i \in Live(rng[s]) :
             keep /\ IsExact(rng[s][i], b, e, ty) /\ ChangesFlags(s, i, fl)
      BY <1>1
    <2>2. ty \in Types
      BY <2>1, <1>0 DEF IsExact, Ranges, Range, Live
    <2>3. fl \in Flags
      BY <2>2, <1>0
    <2> QED
      BY <2>1, <2>2, <2>3, <1>0
  <1>2. CASE /\ ~\E i \in Live(rng[s]) : keep /\ IsExact(rng[s][i], b, e, ty)
             /\ \E p \in NewIds(s) : Replaces(s, b, e, fl, ty, merge, p[1], p[2])
    <2>1. PICK p \in NewIds(s) : Replaces(s, b, e, fl, ty, merge, p[1], p[2])
      BY <1>2
    <2> DEFINE k == p[1]
               n == p[2]
               Q == Resolved(rng[s], b, e, k)
               To(i) == [va \in Above(s, Q, k) \cup Inside(s, b, e) |->
                            IF va \in Above(s, Q, k) THEN k ELSE i]
               near == IF merge /\ ty = "ANONYMOUS" THEN Neighbours(Q, b, e, fl) ELSE {}
    <2>2. k \in FreshIds(s) /\ n \in FreshIds(s) /\ k # n
      <3> DEFINE F == FreshIds(s)
                 P == CHOOSE q \in F \X F : q[1] # q[2]
      <3>1. (\E x, y \in F : x # y) /\ p = P
        BY DEF NewIds
      <3>2. PICK x \in F, y \in F : x # y
        BY <3>1
      <3>3. <<x, y>> \in F \X F /\ <<x, y>>[1] # <<x, y>>[2]
        BY <3>2
      <3>4. P \in F \X F /\ P[1] # P[2]
        BY <3>3
      <3> HIDE DEF P, F
      <3>5. p \in F \X F /\ p[1] # p[2]
        BY <3>1, <3>4
      <3> QED
        BY <3>5 DEF F
    <2>3. k \in Ids /\ n \in Ids /\ rng[s][k] = NULL /\ rng[s][n] = NULL
      BY <2>2 DEF FreshIds
    <2>4. \/ \E i \in near :
                invalidate_pages(s, [Q EXCEPT ![i] = Grown(@, b, e)], Dropped(s, b, e), To(i))
          \/ /\ ty = "NONE"
             /\ invalidate_pages(s, Q, Between(b, e) \cap Mapped(s),
                                 [va \in Above(s, Q, k) |-> k])
          \/ /\ ty # "NONE" /\ near = {}
             /\ invalidate_pages(s, [Q EXCEPT ![n] = NewRange(b, e, fl, ty)],
                                 Dropped(s, b, e), To(n))
      BY <2>1 DEF Replaces
    <2>5. b <= e /\ Disjoint(rng[s])
      BY DEF MemInv, RangesDisjoint, Types
    <2>6. Q \in Ranges /\ Q[n] = NULL
      <3>1. /\ rng[s] \in Ranges /\ Disjoint(rng[s]) /\ b \in Int /\ e \in Int /\ b <= e
            /\ k \in Ids /\ rng[s][k] = NULL /\ n \in Ids \ {k} /\ rng[s][n] = NULL
        BY <1>0, <2>2, <2>3, <2>5
      <3> HIDE DEF k, n
      <3> QED
        BY <3>1, ResolvedRanges
    <2>7. ASSUME NEW i \in near,
                 invalidate_pages(s, [Q EXCEPT ![i] = Grown(@, b, e)], Dropped(s, b, e), To(i))
          PROVE  ty # "NONE" /\ b < e /\ \E r \in Range : i \in Ids /\ Placing(s, b, e, k, i, r)
      <3>1. /\ i \in Ids /\ Q[i] # NULL /\ b < e /\ Q[i].flags = fl /\ ty # "NONE"
            /\ Q[i].end = b \/ Q[i].base = e
        <4> HIDE DEF Q
        <4> QED
          BY <1>0 DEF Neighbours, Live
      <3>2. Q[i] \in Range
        <4> HIDE DEF Q
        <4> QED
          BY <2>6, <3>1 DEF Ranges
      <3>3. /\ Grown(Q[i], b, e) \in Range /\ Grown(Q[i], b, e).flags = Q[i].flags
            /\ Grown(Q[i], b, e).type = Q[i].type
            /\ LET r == Grown(Q[i], b, e) IN
               \/ r.base = Q[i].base /\ r.end = e /\ Q[i].end = b
               \/ r.base = b /\ r.end = Q[i].end /\ Q[i].base = e
        <4> HIDE DEF Q
        <4> QED
          BY <3>1, <3>2 DEF Grown, Range
      <3>4. invalidate_pages(s, [Q EXCEPT ![i] = Grown(Q[i], b, e)], Dropped(s, b, e), To(i))
        BY <2>7
      <3>5. Placing(s, b, e, k, i, Grown(Q[i], b, e))
        BY <2>3, <3>1, <3>3, <3>4 DEF Placing
      <3> QED
        BY <3>1, <3>3, <3>5
    <2>8. ASSUME ty = "NONE",
                 invalidate_pages(s, Q, Between(b, e) \cap Mapped(s),
                                  [va \in Above(s, Q, k) |-> k])
          PROVE  Removing(s, b, e, k)
      BY <2>3, <2>8 DEF Removing
    <2>9. ASSUME ty # "NONE",
                 invalidate_pages(s, [Q EXCEPT ![n] = NewRange(b, e, fl, ty)],
                                  Dropped(s, b, e), To(n))
          PROVE  b < e /\ \E r \in Range : Placing(s, b, e, k, n, r)
      <3>1. /\ NewRange(b, e, fl, ty) \in Range /\ b < e
            /\ NewRange(b, e, fl, ty).base = b /\ NewRange(b, e, fl, ty).end = e
        BY <2>9 DEF NewRange, Range
      <3>2. Placing(s, b, e, k, n, NewRange(b, e, fl, ty))
        BY <2>3, <2>6, <2>9, <3>1 DEF Placing
      <3> QED
        BY <3>1, <3>2
    <2> HIDE DEF k, n, Q, To, near
    <2> QED
      BY <1>2, <2>3, <2>4, <2>5, <2>7, <2>8, <2>9
  <1> QED
    BY <1>1, <1>2 DEF add_range

\* add_range, with every argument that its callers give it.
LEMMA AddRangeStep ==
    ASSUME MemInv, CacheCurrent, cached \in [Spaces -> Ids \cup {NULL}],
           NEW s \in alive, NEW b \in Int, NEW e \in Int, NEW fl, NEW ty,
           NEW merge \in BOOLEAN, NEW keep \in BOOLEAN,
           Callable(b, e, fl, ty), add_range(s, b, e, fl, ty, merge, keep), alive' = alive
    PROVE  MemInv' /\ CacheCurrent' /\ cached' \in [Spaces -> Ids \cup {NULL}]
  <1>0. s \in Spaces
    BY DEF MemInv
  <1>1. ASSUME NEW i \in Live(rng[s]), fl \in Flags, ChangesFlags(s, i, fl)
        PROVE  MemInv' /\ \A x \in Spaces \ {s} : rng'[x] = rng[x]
    BY <1>1, FlagsStep
  <1>2. ASSUME b < e, NEW k \in Ids, NEW i \in Ids, NEW r \in Range, Placing(s, b, e, k, i, r)
        PROVE  MemInv' /\ \A x \in Spaces \ {s} : rng'[x] = rng[x]
    BY <1>2, PlacedStep DEF Placing
  <1>3. ASSUME b <= e, NEW k \in Ids, Removing(s, b, e, k)
        PROVE  MemInv' /\ \A x \in Spaces \ {s} : rng'[x] = rng[x]
    <2> DEFINE Q == Resolved(rng[s], b, e, k)
               gone == Between(b, e) \cap Mapped(s)
               up == [va \in Above(s, Q, k) |-> k]
    <2>1. gone = Between(b, e) \cap Mapped(s) /\ up = [va \in Above(s, Q, k) |-> k]
      OBVIOUS
    <2>2. rng[s][k] = NULL /\ invalidate_pages(s, Q, gone, up)
      BY <1>3 DEF Removing
    <2> HIDE DEF gone, up
    <2> QED
      BY <1>3, <2>1, <2>2, RemovedStep
  <1>4. MemInv' /\ \A x \in Spaces \ {s} : rng'[x] = rng[x]
    BY <1>1, <1>2, <1>3, AddRangeCases
  <1>5. cached' = [cached EXCEPT ![s] = NULL]
    BY DEF add_range
  <1>6. CacheCurrent'
    BY <1>0, <1>4, <1>5 DEF CacheCurrent
  <1> QED
    BY <1>4, <1>5, <1>6

\* The range that a lookup returns is a range of the space, around the address.
LEMMA LookupRange ==
    ASSUME MemInv, CacheCurrent, cached \in [Spaces -> Ids \cup {NULL}],
           NEW s \in Spaces, NEW va, addr_to_range(s, va) # NULL
    PROVE  /\ addr_to_range(s, va) \in Live(rng[s])
           /\ va \in Extent(rng[s][addr_to_range(s, va)])
  <1> DEFINE i == CHOOSE i \in Live(rng[s]) : va \in Extent(rng[s][i])
  <1>1. CASE cached[s] # NULL /\ rng[s][cached[s]] # NULL /\ va \in Extent(rng[s][cached[s]])
    BY <1>1 DEF addr_to_range, Live
  <1>2. CASE ~(cached[s] # NULL /\ rng[s][cached[s]] # NULL
               /\ va \in Extent(rng[s][cached[s]]))
    <2>1. (\E j \in Live(rng[s]) : va \in Extent(rng[s][j])) /\ addr_to_range(s, va) = i
      BY <1>2 DEF addr_to_range
    <2>2. i \in Live(rng[s]) /\ va \in Extent(rng[s][i])
      BY <2>1
    <2> QED
      BY <2>1, <2>2
  <1> QED
    BY <1>1, <1>2

LEMMA MadviseStep ==
    ASSUME MemInv, CacheCurrent, cached \in [Spaces -> Ids \cup {NULL}],
           NEW s \in Spaces, NEW b, NEW e, madvise(s, b, e)
    PROVE  MemInv' /\ CacheCurrent' /\ cached' \in [Spaces -> Ids \cup {NULL}]
  <1> DEFINE gone == Between(b, e) \cap Mapped(s)
             to == << >>
  <1>1. /\ s \in alive /\ invalidate_pages(s, rng[s], gone, to)
        /\ alive' = alive /\ cached' = cached
    BY DEF madvise
  <1>2. gone \in SUBSET Mapped(s)
    OBVIOUS
  <1>3. DOMAIN to = {}
    OBVIOUS
  <1>4. rng[s] \in Ranges /\ Disjoint(rng[s])
    BY DEF MemInv, RangesDisjoint, Ranges
  <1> HIDE DEF gone, to
  <1>5. /\ DOMAIN to \subseteq Mapped(s) \ gone
        /\ \A va \in DOMAIN to : to[va] \in Ids /\ rng[s][to[va]] # NULL
                                 /\ va \in Extent(rng[s][to[va]])
        /\ \A va \in Mapped(s) \ (gone \cup DOMAIN to), i \in Live(rng[s]) :
              va \in Extent(rng[s][i]) => rng[s][i] # NULL /\ va \in Extent(rng[s][i])
                                          /\ rng[s][i].flags = rng[s][i].flags
    BY <1>3 DEF Live
  <1>6. MemInv' /\ rng' = [rng EXCEPT ![s] = rng[s]]
    BY <1>1, <1>2, <1>4, <1>5, InvalidateStep
  <1>7. rng' = rng
    BY <1>6 DEF MemInv
  <1> QED
    BY <1>1, <1>6, <1>7 DEF CacheCurrent

LEMMA PageFaultStep ==
    ASSUME MemInv, CacheCurrent, cached \in [Spaces -> Ids \cup {NULL}],
           NEW s \in Spaces, NEW va \in Pages, page_fault(s, va)
    PROVE  MemInv' /\ CacheCurrent' /\ cached' \in [Spaces -> Ids \cup {NULL}]
  <1> DEFINE i == addr_to_range(s, va)
             fl == rng[s][i].flags
  <1>1. /\ s \in alive /\ pte[s][va] = NULL /\ i # NULL
        /\ cached' = [cached EXCEPT ![s] = i] /\ alive' = alive /\ rng' = rng
        /\ \/ /\ pte' = [pte EXCEPT ![s][va] = Entry(Device, fl)]
              /\ owner' = owner
           \/ \E g \in Allocations(s, {va}) :
                 /\ pte' = [pte EXCEPT ![s][va] = Entry(g[va], fl)]
                 /\ owner' = [owner EXCEPT ![g[va]] = Owner(s, i, va)]
    BY DEF page_fault
  <1>2. i \in Live(rng[s]) /\ va \in Extent(rng[s][i])
    BY <1>1, LookupRange
  <1> HIDE DEF i
  <1>3. i \in Ids /\ rng[s][i] # NULL /\ rng[s][i] \in Range /\ fl \in Flags
    BY <1>2 DEF Live, MemInv, Range
  <1>4. \E f \in Frames \cup {Device} :
           /\ pte' = [pte EXCEPT ![s][va] = Entry(f, fl)]
           /\ f \in Frames => owner[f] = NULL /\ owner' = [owner EXCEPT ![f] = Owner(s, i, va)]
           /\ f \notin Frames => owner' = owner
    <2>1. CASE /\ pte' = [pte EXCEPT ![s][va] = Entry(Device, fl)]
               /\ owner' = owner
      BY <2>1, PagemapAssumption
    <2>2. CASE \E g \in Allocations(s, {va}) :
                 /\ pte' = [pte EXCEPT ![s][va] = Entry(g[va], fl)]
                 /\ owner' = [owner EXCEPT ![g[va]] = Owner(s, i, va)]
      <3>1. PICK g \in Allocations(s, {va}) :
                 /\ pte' = [pte EXCEPT ![s][va] = Entry(g[va], fl)]
                 /\ owner' = [owner EXCEPT ![g[va]] = Owner(s, i, va)]
        BY <2>2
      <3>2. g[va] \in Frames /\ owner[g[va]] = NULL
        BY DEF Allocations, FreeFrames
      <3> QED
        BY <3>1, <3>2
    <2> QED
      BY <1>1, <2>1, <2>2
  <1>5. PICK f \in Frames \cup {Device} :
           /\ pte' = [pte EXCEPT ![s][va] = Entry(f, fl)]
           /\ f \in Frames => owner[f] = NULL /\ owner' = [owner EXCEPT ![f] = Owner(s, i, va)]
           /\ f \notin Frames => owner' = owner
    BY <1>4
  <1>6. /\ Entry(f, fl) \in Entries /\ Entry(f, fl) # NULL
        /\ Entry(f, fl).frame = f /\ Entry(f, fl).flags = fl
        /\ Owner(s, i, va) \in Owners /\ Owner(s, i, va) # NULL
        /\ Owner(s, i, va).space = s /\ Owner(s, i, va).range = i /\ Owner(s, i, va).addr = va
    BY <1>3, PagemapAssumption DEF Entry, Entries, Owner, Owners
  <1> HIDE DEF fl
  <1>7. /\ pte'[s][va] = Entry(f, fl)
        /\ \A x \in Spaces, w \in Pages : x # s \/ w # va => pte'[x][w] = pte[x][w]
        /\ f \in Frames => owner'[f] = Owner(s, i, va)
        /\ \A h \in Frames : h # f => owner'[h] = owner[h]
        /\ pte' \in [Spaces -> [Pages -> Entries \cup {NULL}]]
        /\ owner' \in [Frames -> Owners \cup {NULL}]
    BY <1>5, <1>6 DEF MemInv
  <1>8. ASSUME NEW x \in Spaces, NEW w \in Pages, pte'[x][w] # NULL
        PROVE  /\ \E j \in Live(rng[x]) : /\ w \in Extent(rng[x][j])
                                          /\ pte'[x][w].flags = rng[x][j].flags
               /\ pte'[x][w].frame # Device =>
                     LET h == pte'[x][w].frame IN
                     /\ owner'[h] # NULL /\ owner'[h].space = x /\ owner'[h].addr = w
                     /\ rng[x][owner'[h].range] # NULL
                     /\ w \in Extent(rng[x][owner'[h].range])
    <2>1. CASE x = s /\ w = va
      <3>1. f # Device => f \in Frames
        BY <1>5
      <3> QED
        BY <2>1, <3>1, <1>2, <1>3, <1>6, <1>7 DEF fl
    <2>2. CASE x # s \/ w # va
      <3>1. pte'[x][w] = pte[x][w] /\ w \in Mapped(x)
        BY <2>2, <1>7, <1>8 DEF Mapped
      <3>2. \E j \in Live(rng[x]) : w \in Extent(rng[x][j]) /\ pte[x][w].flags = rng[x][j].flags
        BY <3>1, EntryFacts
      <3>3. ASSUME pte[x][w].frame # Device
            PROVE  LET h == pte[x][w].frame IN
                   /\ owner'[h] = owner[h] /\ owner[h] # NULL
                   /\ owner[h].space = x /\ owner[h].addr = w
                   /\ rng[x][owner[h].range] # NULL
                   /\ w \in Extent(rng[x][owner[h].range])
        <4> DEFINE h == pte[x][w].frame
        <4>1. /\ h \in Frames /\ owner[h] \in Owners /\ owner[h].space = x /\ owner[h].addr = w
              /\ owner[h].range \in Live(rng[x]) /\ w \in Extent(rng[x][owner[h].range])
          BY <3>1, <3>3, EntryFacts
        <4>2. owner[h] # NULL /\ h # f
          BY <4>1, <1>5, PagemapAssumption
        <4> QED
          BY <4>1, <4>2, <1>7 DEF Live
      <3> QED
        BY <3>1, <3>2, <3>3
    <2> QED
      BY <2>1, <2>2
  <1>9. EntriesCurrent'
    BY <1>1, <1>8 DEF EntriesCurrent, Mapped, Live
  <1>10. EntriesOwned'
    <2> SUFFICES ASSUME NEW x \in Spaces, NEW w \in Pages, pte'[x][w] # NULL
                 PROVE  LET h == pte'[x][w].frame IN
                        h # Device => /\ owner'[h] # NULL /\ owner'[h].space = x /\ owner'[h].addr = w
                                      /\ rng'[x][owner'[h].range] # NULL
                                      /\ w \in Extent(rng'[x][owner'[h].range])
      BY DEF EntriesOwned, Mapped
    <2> QED
      BY <1>1, <1>8
  <1>11. FramesMapped'
    <2> SUFFICES ASSUME NEW h \in Frames, owner'[h] # NULL
                 PROVE  /\ owner'[h].space \in alive
                        /\ pte'[owner'[h].space][owner'[h].addr] # NULL
                        /\ pte'[owner'[h].space][owner'[h].addr].frame = h
      BY <1>1 DEF FramesMapped
    <2>1. CASE h = f
      BY <2>1, <1>1, <1>6, <1>7
    <2>2. CASE h # f
      <3>1. /\ owner'[h] = owner[h] /\ owner[h] \in Owners /\ owner[h].space \in alive
            /\ pte[owner[h].space][owner[h].addr] # NULL
            /\ pte[owner[h].space][owner[h].addr].frame = h
        BY <2>2, <1>7 DEF MemInv, FramesMapped
      <3>2. owner[h].space \in Spaces /\ owner[h].addr \in Pages
        BY <3>1 DEF Owners
      <3> QED
        BY <3>1, <3>2, <1>1, <1>7
    <2> QED
      BY <2>1, <2>2
  <1>12. GoneEmpty'
    BY <1>1, <1>7 DEF MemInv, GoneEmpty
  <1>13. RangesDisjoint' /\ rng' \in [Spaces -> [Ids -> Range \cup {NULL}]]
         /\ alive' \subseteq Spaces
    BY <1>1 DEF MemInv, RangesDisjoint, Disjoint, Live
  <1>14. MemInv'
    BY <1>7, <1>9, <1>10, <1>11, <1>12, <1>13 DEF MemInv
  <1> QED
    BY <1>1, <1>3, <1>14 DEF CacheCurrent

\* The pages that fork copies are at different addresses of the parent.
LEMMA CopiedPages ==
    ASSUME MemInv, NEW s \in Spaces, NEW f \in Copied(s)
    PROVE  /\ f \in Frames /\ owner[f] \in Owners /\ owner[f].space = s
           /\ owner[f].addr \in Pages /\ owner[f].range \in Ids
           /\ rng[s][owner[f].range] \in Range /\ rng[s][owner[f].range] # NULL
           /\ owner[f].addr \in Extent(rng[s][owner[f].range])
           /\ \A h \in Copied(s) : owner[h].addr = owner[f].addr => h = f
  <1>1. \A h \in Copied(s) : /\ h \in Frames /\ owner[h] \in Owners /\ owner[h].space = s
                             /\ pte[s][owner[h].addr] # NULL
                             /\ pte[s][owner[h].addr].frame = h
    BY DEF Copied, MemInv, FramesMapped
  <1>2. owner[f].addr \in Mapped(s) /\ owner[f].addr \in Pages /\ owner[f].range \in Ids
    BY <1>1 DEF Mapped, Owners
  <1>3. f # Device
    BY <1>1, PagemapAssumption
  <1>4. /\ owner[f].range \in Live(rng[s])
        /\ owner[f].addr \in Extent(rng[s][owner[f].range])
    BY <1>1, <1>2, <1>3, EntryFacts
  <1> QED
    BY <1>1, <1>2, <1>4 DEF Live, MemInv

LEMMA ForkStep ==
    ASSUME MemInv, CacheCurrent, cached \in [Spaces -> Ids \cup {NULL}],
           NEW s \in Spaces, NEW c \in Spaces, fork(s, c)
    PROVE  MemInv' /\ CacheCurrent' /\ cached' \in [Spaces -> Ids \cup {NULL}]
  <1> DEFINE A == {owner[f].addr : f \in Copied(s)}
             Original(va) == CHOOSE f \in Copied(s) : owner[f].addr = va
  <1>1. /\ s \in alive /\ c \notin alive /\ alive' = alive \cup {c} /\ c # s
        /\ rng' = [rng EXCEPT ![c] = rng[s]] /\ cached' = [cached EXCEPT ![c] = NULL]
    BY DEF fork
  <1>2. PICK new \in Allocations(c, A) :
          /\ pte' = [pte EXCEPT ![c] = [va \in Pages |->
                IF va \in DOMAIN new
                THEN Entry(new[va], rng[s][owner[Original(va)].range].flags)
                ELSE NULL]]
          /\ owner' = [f \in Frames |->
                IF \E va \in DOMAIN new : new[va] = f
                THEN LET va == CHOOSE va \in DOMAIN new : new[va] = f
                     IN  [owner[Original(va)] EXCEPT !.space = c]
                ELSE owner[f]]
    BY DEF fork
  <1>3. /\ DOMAIN new = A
        /\ \A va \in A : new[va] \in Frames /\ owner[new[va]] = NULL
        /\ \A x, y \in A : new[x] = new[y] => x = y
    <2> HIDE DEF A
    <2> QED
      BY DEF Allocations, FreeFrames
  <1>4. \A va \in A : Original(va) \in Copied(s) /\ owner[Original(va)].addr = va
    OBVIOUS
  <1> HIDE DEF Original
  <1>5. A \subseteq Pages
    BY CopiedPages
  <1> DEFINE rg(va) == owner[Original(va)].range
             en(va) == Entry(new[va], rng[s][rg(va)].flags)
             ow(va) == [owner[Original(va)] EXCEPT !.space = c]
  <1>6. ASSUME NEW va \in A
        PROVE  /\ rg(va) \in Ids /\ rng[s][rg(va)] # NULL /\ va \in Extent(rng[s][rg(va)])
               /\ en(va) \in Entries /\ en(va) # NULL
               /\ en(va).frame = new[va] /\ en(va).flags = rng[s][rg(va)].flags
               /\ ow(va) \in Owners /\ ow(va) # NULL
               /\ ow(va).space = c /\ ow(va).addr = va /\ ow(va).range = rg(va)
    <2> DEFINE f == Original(va)
    <2>1. f \in Copied(s) /\ owner[f].addr = va
      BY <1>4
    <2> HIDE DEF f
    <2>2. /\ owner[f] \in Owners /\ owner[f].range \in Ids
          /\ rng[s][owner[f].range] \in Range /\ rng[s][owner[f].range] # NULL
          /\ va \in Extent(rng[s][owner[f].range])
      BY <2>1, CopiedPages
    <2>3. rng[s][owner[f].range].flags \in Flags /\ new[va] \in Frames
      BY <2>2, <1>3 DEF Range
    <2>4. LET o == [owner[f] EXCEPT !.space = c] IN
          /\ o \in Owners /\ o # NULL /\ o.space = c /\ o.addr = va /\ o.range = owner[f].range
      BY <2>1, <2>2, PagemapAssumption DEF Owners
    <2>5. LET n == Entry(new[va], rng[s][owner[f].range].flags) IN
          /\ n \in Entries /\ n # NULL
          /\ n.frame = new[va] /\ n.flags = rng[s][owner[f].range].flags
      BY <2>3, PagemapAssumption DEF Entry, Entries
    <2> QED
      BY <2>2, <2>4, <2>5 DEF f
  <1>7. \A va \in A : owner'[new[va]] = ow(va)
    <2> SUFFICES ASSUME NEW va \in A PROVE owner'[new[va]] = ow(va)
      OBVIOUS
    <2> DEFINE w == CHOOSE x \in DOMAIN new : new[x] = new[va]
    <2>1. w \in A /\ new[w] = new[va]
      <3>1. \E x \in DOMAIN new : new[x] = new[va]
        BY <1>3
      <3>2. w \in DOMAIN new /\ new[w] = new[va]
        BY <3>1
      <3> QED
        BY <3>2, <1>3
    <2>2. owner'[new[va]] = ow(w)
      <3> HIDE DEF A
      <3> QED
        BY <1>2, <1>3
    <2> HIDE DEF w, ow, A
    <2>3. w = va
      BY <2>1, <1>3
    <2> QED
      BY <2>2, <2>3
  <1> HIDE DEF A
  <1>8. \A f \in Frames : (\A va \in A : new[va] # f) => owner'[f] = owner[f]
    BY <1>2, <1>3
  <1>9. /\ \A va \in Pages : pte'[c][va] = IF va \in A THEN en(va) ELSE NULL
        /\ \A x \in Spaces \ {c} : pte'[x] = pte[x] /\ rng'[x] = rng[x]
        /\ rng'[c] = rng[s]
    BY <1>1, <1>2, <1>3 DEF MemInv
  <1> HIDE DEF rg, en, ow
  <1>10. \A f \in Frames : owner[f] # NULL => owner'[f] = owner[f]
    BY <1>3, <1>8
  <1>11. /\ alive' \subseteq Spaces
         /\ rng' \in [Spaces -> [Ids -> Range \cup {NULL}]]
         /\ pte' \in [Spaces -> [Pages -> Entries \cup {NULL}]]
         /\ owner' \in [Frames -> Owners \cup {NULL}]
    <2>1. alive' \subseteq Spaces /\ rng' \in [Spaces -> [Ids -> Range \cup {NULL}]]
      BY <1>1 DEF MemInv
    <2>2. pte'[c] \in [Pages -> Entries \cup {NULL}]
      <3>1. pte'[c] = [va \in Pages |-> pte'[c][va]]
        BY <1>2 DEF MemInv
      <3>2. \A va \in Pages : pte'[c][va] \in Entries \cup {NULL}
        BY <1>6, <1>9
      <3> QED
        BY <3>1, <3>2
    <2>3. pte' = [x \in Spaces |-> IF x = c THEN pte'[c] ELSE pte[x]]
      BY <1>2 DEF MemInv
    <2>4. \A f \in Frames : owner'[f] \in Owners \cup {NULL}
      <3> SUFFICES ASSUME NEW f \in Frames PROVE owner'[f] \in Owners \cup {NULL}
        OBVIOUS
      <3>1. CASE \E va \in A : new[va] = f
        BY <3>1, <1>6, <1>7
      <3>2. CASE \A va \in A : new[va] # f
        BY <3>2, <1>8 DEF MemInv
      <3> QED
        BY <3>1, <3>2
    <2>5. owner' = [f \in Frames |-> owner'[f]]
      BY <1>2
    <2> QED
      BY <2>1, <2>2, <2>3, <2>4, <2>5 DEF MemInv
  <1>12. RangesDisjoint'
    <2> SUFFICES ASSUME NEW x \in Spaces PROVE Disjoint(rng'[x])
      BY DEF RangesDisjoint, Disjoint, Live
    <2> QED
      BY <1>9 DEF MemInv, RangesDisjoint
  <1>13. ASSUME NEW x \in Spaces, NEW va \in Pages, pte'[x][va] # NULL
         PROVE  /\ \E i \in Ids : /\ rng'[x][i] # NULL /\ va \in Extent(rng'[x][i])
                                  /\ pte'[x][va].flags = rng'[x][i].flags
                /\ pte'[x][va].frame # Device =>
                      LET f == pte'[x][va].frame IN
                      /\ owner'[f] # NULL /\ owner'[f].space = x /\ owner'[f].addr = va
                      /\ rng'[x][owner'[f].range] # NULL
                      /\ va \in Extent(rng'[x][owner'[f].range])
    <2>1. CASE x # c
      <3>1. pte'[x] = pte[x] /\ rng'[x] = rng[x] /\ va \in Mapped(x)
        BY <2>1, <1>9, <1>13 DEF Mapped
      <3>2. \E i \in Live(rng[x]) : va \in Extent(rng[x][i]) /\ pte[x][va].flags = rng[x][i].flags
        BY <3>1, EntryFacts
      <3>3. ASSUME pte[x][va].frame # Device
            PROVE  /\ pte[x][va].frame \in Frames /\ owner[pte[x][va].frame] \in Owners
                   /\ owner[pte[x][va].frame].space = x /\ owner[pte[x][va].frame].addr = va
                   /\ owner[pte[x][va].frame].range \in Live(rng[x])
                   /\ va \in Extent(rng[x][owner[pte[x][va].frame].range])
                   /\ owner'[pte[x][va].frame] = owner[pte[x][va].frame]
        <4> DEFINE f == pte[x][va].frame
        <4>1. /\ f \in Frames /\ owner[f] \in Owners
              /\ owner[f].space = x /\ owner[f].addr = va
              /\ owner[f].range \in Live(rng[x]) /\ va \in Extent(rng[x][owner[f].range])
          BY <3>1, <3>3, EntryFacts
        <4>2. owner[f] # NULL
          BY <4>1, PagemapAssumption
        <4> QED
          BY <4>1, <4>2, <1>10
      <3> QED
        BY <3>1, <3>2, <3>3, PagemapAssumption DEF Live
    <2>2. CASE x = c
      <3>1. va \in A /\ pte'[x][va] = en(va)
        BY <2>2, <1>9, <1>13
      <3>2. owner'[new[va]] = ow(va)
        BY <3>1, <1>7
      <3> QED
        BY <2>2, <3>1, <3>2, <1>6, <1>9
    <2> QED
      BY <2>1, <2>2
  <1>14. EntriesCurrent'
    BY <1>13 DEF EntriesCurrent, Mapped, Live
  <1>15. EntriesOwned'
    BY <1>13 DEF EntriesOwned, Mapped
  <1>16. FramesMapped'
    <2> SUFFICES ASSUME NEW f \in Frames, owner'[f] # NULL
                 PROVE  /\ owner'[f].space \in alive'
                        /\ pte'[owner'[f].space][owner'[f].addr] # NULL
                        /\ pte'[owner'[f].space][owner'[f].addr].frame = f
      BY DEF FramesMapped
    <2>1. CASE \E va \in A : new[va] = f
      <3>1. PICK va \in A : new[va] = f
        BY <2>1
      <3>2. owner'[f] = ow(va)
        BY <3>1, <1>7
      <3>3. pte'[c][va] = en(va)
        BY <1>5, <1>9
      <3> QED
        BY <3>1, <3>2, <3>3, <1>1, <1>6
    <2>2. CASE \A va \in A : new[va] # f
      <3>1. owner'[f] = owner[f]
        BY <2>2, <1>8
      <3>2. /\ owner[f].space \in alive
            /\ pte[owner[f].space][owner[f].addr] # NULL
            /\ pte[owner[f].space][owner[f].addr].frame = f
        BY <3>1 DEF MemInv, FramesMapped
      <3>3. owner[f].space \in Spaces \ {c}
        BY <3>2, <1>1 DEF MemInv
      <3> QED
        BY <3>1, <3>2, <3>3, <1>1, <1>9
    <2> QED
      BY <2>1, <2>2
  <1>17. GoneEmpty'
    BY <1>1, <1>9 DEF MemInv, GoneEmpty
  <1>18. MemInv'
    BY <1>11, <1>12, <1>14, <1>15, <1>16, <1>17 DEF MemInv
  <1>19. CacheCurrent'
    BY <1>1, <1>9 DEF CacheCurrent
  <1> QED
    BY <1>1, <1>18, <1>19

\* The frames that remain after the destructor of a pagemap belong to others.
LEMMA ReleasedFrames ==
    ASSUME MemInv, NEW s \in Spaces
    PROVE  /\ Released(s) \in [Frames -> Owners \cup {NULL}]
           /\ \A f \in Frames : /\ owner[f] = NULL => Released(s)[f] = NULL
                                /\ Released(s)[f] # NULL =>
                                      Released(s)[f] = owner[f] /\ owner[f].space # s
                                /\ owner[f] # NULL /\ owner[f].space # s =>
                                      Released(s)[f] = owner[f]
  BY DEF Released, MemInv

\* The entries and frames of the other spaces are not touched when the pagemap
\* of s is replaced by one that is empty or has a single page.
LEMMA ReplacedSpace ==
    ASSUME MemInv, NEW s \in Spaces, NEW x \in Spaces \ {s}, NEW va \in Mapped(x)
    PROVE  /\ \E i \in Live(rng[x]) : va \in Extent(rng[x][i])
                                      /\ pte[x][va].flags = rng[x][i].flags
           /\ pte[x][va].frame # Device =>
                 LET f == pte[x][va].frame IN
                 /\ f \in Frames /\ owner[f] # NULL /\ Released(s)[f] = owner[f]
                 /\ owner[f].space = x /\ owner[f].addr = va
                 /\ rng[x][owner[f].range] # NULL /\ va \in Extent(rng[x][owner[f].range])
  <1>1. \E i \in Live(rng[x]) : va \in Extent(rng[x][i]) /\ pte[x][va].flags = rng[x][i].flags
    BY EntryFacts
  <1>2. ASSUME pte[x][va].frame # Device
        PROVE  LET f == pte[x][va].frame IN
               /\ f \in Frames /\ owner[f] # NULL /\ Released(s)[f] = owner[f]
               /\ owner[f].space = x /\ owner[f].addr = va
               /\ rng[x][owner[f].range] # NULL /\ va \in Extent(rng[x][owner[f].range])
    <2> DEFINE f == pte[x][va].frame
    <2>1. /\ f \in Frames /\ owner[f] \in Owners /\ owner[f].space = x /\ owner[f].addr = va
          /\ owner[f].range \in Live(rng[x]) /\ va \in Extent(rng[x][owner[f].range])
      BY <1>2, EntryFacts
    <2>2. owner[f] # NULL
      BY <2>1, PagemapAssumption
    <2>3. Released(s)[f] = owner[f]
      BY <2>1, <2>2, ReleasedFrames
    <2> QED
      BY <2>1, <2>2, <2>3 DEF Live
  <1> QED
    BY <1>1, <1>2

LEMMA ZombifyStep ==
    ASSUME MemInv, CacheCurrent, cached \in [Spaces -> Ids \cup {NULL}],
           NEW s \in Spaces, zombify(s)
    PROVE  MemInv' /\ CacheCurrent' /\ cached' \in [Spaces -> Ids \cup {NULL}]
  <1>1. /\ s \in alive /\ alive' = alive \ {s} /\ owner' = Released(s)
        /\ \A i \in Ids : rng'[s][i] = NULL
        /\ \A va \in Pages : pte'[s][va] = NULL
        /\ \A x \in Spaces \ {s} : rng'[x] = rng[x] /\ pte'[x] = pte[x]
        /\ cached' = [cached EXCEPT ![s] = NULL]
        /\ rng' \in [Spaces -> [Ids -> Range \cup {NULL}]]
        /\ pte' \in [Spaces -> [Pages -> Entries \cup {NULL}]]
    BY DEF zombify, MemInv
  <1>2. RangesDisjoint'
    <2> SUFFICES ASSUME NEW x \in Spaces PROVE Disjoint(rng'[x])
      BY DEF RangesDisjoint, Disjoint, Live
    <2>1. CASE x = s
      BY <1>1, <2>1 DEF Disjoint, Live
    <2>2. CASE x # s
      BY <1>1, <2>2 DEF MemInv, RangesDisjoint
    <2> QED
      BY <2>1, <2>2
  <1>3. ASSUME NEW x \in Spaces, NEW va \in Pages, pte'[x][va] # NULL
        PROVE  /\ x # s /\ pte'[x] = pte[x] /\ rng'[x] = rng[x] /\ va \in Mapped(x)
    BY <1>1, <1>3 DEF Mapped
  <1>4. EntriesCurrent'
    BY <1>3, ReplacedSpace DEF EntriesCurrent, Mapped, Live
  <1>5. EntriesOwned'
    <2> SUFFICES ASSUME NEW x \in Spaces, NEW va \in Pages, pte'[x][va] # NULL,
                        pte'[x][va].frame # Device
                 PROVE  LET f == pte'[x][va].frame IN
                        /\ owner'[f] # NULL /\ owner'[f].space = x /\ owner'[f].addr = va
                        /\ rng'[x][owner'[f].range] # NULL
                        /\ va \in Extent(rng'[x][owner'[f].range])
      BY DEF EntriesOwned, Mapped
    <2>1. x \in Spaces \ {s} /\ pte'[x] = pte[x] /\ rng'[x] = rng[x] /\ va \in Mapped(x)
      BY <1>3
    <2> QED
      BY <2>1, <1>1, ReplacedSpace
  <1>6. FramesMapped'
    <2> SUFFICES ASSUME NEW f \in Frames, owner'[f] # NULL
                 PROVE  /\ owner'[f].space \in alive'
                        /\ pte'[owner'[f].space][owner'[f].addr] # NULL
                        /\ pte'[owner'[f].space][owner'[f].addr].frame = f
      BY DEF FramesMapped
    <2>1. owner'[f] = owner[f] /\ owner[f].space # s
      BY <1>1, ReleasedFrames
    <2>2. /\ owner[f].space \in alive /\ pte[owner[f].space][owner[f].addr] # NULL
          /\ pte[owner[f].space][owner[f].addr].frame = f /\ owner[f].space \in Spaces
      BY <2>1 DEF MemInv, FramesMapped
    <2> QED
      BY <2>1, <2>2, <1>1
  <1>7. GoneEmpty'
    BY <1>1 DEF MemInv, GoneEmpty
  <1>8. alive' \subseteq Spaces /\ owner' \in [Frames -> Owners \cup {NULL}]
    BY <1>1, ReleasedFrames DEF MemInv
  <1>9. MemInv'
    BY <1>1, <1>2, <1>4, <1>5, <1>6, <1>7, <1>8 DEF MemInv
  <1>10. CacheCurrent'
    BY <1>1 DEF CacheCurrent
  <1> QED
    BY <1>1, <1>9, <1>10

\* The pagemap that user_exec builds.
LEMMA StackSpace ==
    ASSUME NEW i \in Ids, NEW f \in Frames
    PROVE  /\ StackTop \in Pages
           /\ StackRanges(i) \in Ranges /\ Disjoint(StackRanges(i))
           /\ StackRanges(i)[i] # NULL /\ StackTop \in Extent(StackRanges(i)[i])
           /\ StackRanges(i)[i].flags = StackFlags
           /\ StackEntries(f) \in [Pages -> Entries \cup {NULL}]
           /\ StackEntries(f)[StackTop] = Entry(f, StackFlags)
           /\ Entry(f, StackFlags) # NULL
           /\ Entry(f, StackFlags).frame = f /\ Entry(f, StackFlags).flags = StackFlags
           /\ \A va \in Pages \ {StackTop} : StackEntries(f)[va] = NULL
  <1> DEFINE r == NewRange(MmapBase, StackTop + 1, StackFlags, "ANONYMOUS")
  <1>1. StackTop \in Pages /\ StackTop \in Int /\ MmapBase <= StackTop
    BY PagemapAssumption DEF StackTop, Pages, Mmap
  <1>2. /\ r \in Range /\ r.base = MmapBase /\ r.end = StackTop + 1 /\ r.flags = StackFlags
        /\ r # NULL
    BY <1>1, PagemapAssumption DEF NewRange, Range, Types
  <1>3. /\ StackRanges(i)[i] = r /\ \A j \in Ids \ {i} : StackRanges(i)[j] = NULL
        /\ StackRanges(i) = [j \in Ids |-> IF j = i THEN r ELSE NULL]
    BY DEF StackRanges
  <1> HIDE DEF r
  <1>4. StackRanges(i) \in Ranges
    BY <1>2, <1>3 DEF Ranges
  <1>5. Live(StackRanges(i)) = {i}
    BY <1>2, <1>3 DEF Live
  <1>6. Disjoint(StackRanges(i))
    <2>1. r.base < r.end
      BY <1>1, <1>2, PagemapAssumption
    <2> QED
      BY <2>1, <1>3, <1>5 DEF Disjoint
  <1>7. StackTop \in Extent(StackRanges(i)[i])
    BY <1>1, <1>2, <1>3 DEF Extent
  <1>8. /\ Entry(f, StackFlags) \in Entries /\ Entry(f, StackFlags) # NULL
        /\ Entry(f, StackFlags).frame = f /\ Entry(f, StackFlags).flags = StackFlags
    BY PagemapAssumption DEF Entry, Entries
  <1>9. /\ StackEntries(f) \in [Pages -> Entries \cup {NULL}]
        /\ StackEntries(f)[StackTop] = Entry(f, StackFlags)
        /\ \A va \in Pages \ {StackTop} : StackEntries(f)[va] = NULL
    BY <1>1, <1>8 DEF StackEntries
  <1> QED
    BY <1>1, <1>2, <1>3, <1>4, <1>6, <1>7, <1>8, <1>9

LEMMA ExecStep ==
    ASSUME MemInv, CacheCurrent, cached \in [Spaces -> Ids \cup {NULL}],
           NEW s \in Spaces, user_exec(s)
    PROVE  MemInv' /\ CacheCurrent' /\ cached' \in [Spaces -> Ids \cup {NULL}]
  <1> DEFINE i == FirstId
             o == Owner(s, i, StackTop)
  <1>0. i \in Ids
    BY PagemapAssumption DEF FirstId
  <1> HIDE DEF i
  <1>1. \E g \in Allocations(s, {StackTop}) :
           /\ pte' = [pte EXCEPT ![s] = StackEntries(g[StackTop])]
           /\ owner' = [Released(s) EXCEPT ![g[StackTop]] = o]
    BY DEF user_exec, i
  <1>2. \E f \in Frames : /\ owner[f] = NULL
                          /\ pte' = [pte EXCEPT ![s] = StackEntries(f)]
                          /\ owner' = [Released(s) EXCEPT ![f] = o]
    <2>1. PICK g \in Allocations(s, {StackTop}) :
             /\ pte' = [pte EXCEPT ![s] = StackEntries(g[StackTop])]
             /\ owner' = [Released(s) EXCEPT ![g[StackTop]] = o]
      BY <1>1
    <2>2. g[StackTop] \in Frames /\ owner[g[StackTop]] = NULL
      BY DEF Allocations, FreeFrames
    <2> QED
      BY <2>1, <2>2
  <1>3. PICK f \in Frames : /\ owner[f] = NULL
                            /\ pte' = [pte EXCEPT ![s] = StackEntries(f)]
                            /\ owner' = [Released(s) EXCEPT ![f] = o]
    BY <1>2
  <1> DEFINE n == Entry(f, StackFlags)
  <1>4. /\ StackTop \in Pages
        /\ StackRanges(i) \in Ranges /\ Disjoint(StackRanges(i))
        /\ StackRanges(i)[i] # NULL /\ StackTop \in Extent(StackRanges(i)[i])
        /\ StackRanges(i)[i].flags = StackFlags
        /\ StackEntries(f) \in [Pages -> Entries \cup {NULL}]
        /\ StackEntries(f)[StackTop] = n /\ n # NULL /\ n.frame = f /\ n.flags = StackFlags
        /\ \A va \in Pages \ {StackTop} : StackEntries(f)[va] = NULL
    BY <1>0, StackSpace
  <1>5. o \in Owners /\ o # NULL /\ o.space = s /\ o.range = i /\ o.addr = StackTop
    BY <1>0, <1>4, PagemapAssumption DEF Owner, Owners
  <1> HIDE DEF n, o
  <1>6. /\ s \in alive /\ alive' = alive
        /\ rng'[s] = StackRanges(i) /\ pte'[s] = StackEntries(f)
        /\ \A x \in Spaces \ {s} : rng'[x] = rng[x] /\ pte'[x] = pte[x]
        /\ cached' = [cached EXCEPT ![s] = NULL]
        /\ rng' \in [Spaces -> [Ids -> Range \cup {NULL}]]
        /\ pte' \in [Spaces -> [Pages -> Entries \cup {NULL}]]
    BY <1>3, <1>4 DEF user_exec, MemInv, i, Ranges
  <1>7. /\ owner' \in [Frames -> Owners \cup {NULL}] /\ owner'[f] = o
        /\ \A h \in Frames : h # f => owner'[h] = Released(s)[h]
    BY <1>3, <1>5, ReleasedFrames
  <1>8. RangesDisjoint'
    <2> SUFFICES ASSUME NEW x \in Spaces PROVE Disjoint(rng'[x])
      BY DEF RangesDisjoint, Disjoint, Live
    <2>1. CASE x = s
      BY <1>4, <1>6, <2>1
    <2>2. CASE x # s
      BY <1>6, <2>2 DEF MemInv, RangesDisjoint
    <2> QED
      BY <2>1, <2>2
  <1>9. ASSUME NEW x \in Spaces, NEW va \in Pages, pte'[x][va] # NULL
        PROVE  /\ \E j \in Ids : /\ rng'[x][j] # NULL /\ va \in Extent(rng'[x][j])
                                 /\ pte'[x][va].flags = rng'[x][j].flags
               /\ pte'[x][va].frame # Device =>
                     LET h == pte'[x][va].frame IN
                     /\ owner'[h] # NULL /\ owner'[h].space = x /\ owner'[h].addr = va
                     /\ rng'[x][owner'[h].range] # NULL
                     /\ va \in Extent(rng'[x][owner'[h].range])
    <2>1. CASE x = s
      <3>1. va = StackTop /\ pte'[x][va] = n
        BY <2>1, <1>4, <1>6, <1>9
      <3> QED
        BY <2>1, <3>1, <1>0, <1>4, <1>5, <1>6, <1>7
    <2>2. CASE x # s
      <3>1. pte'[x] = pte[x] /\ rng'[x] = rng[x] /\ va \in Mapped(x)
        BY <2>2, <1>6, <1>9 DEF Mapped
      <3>2. \E j \in Live(rng[x]) : va \in Extent(rng[x][j])
                                    /\ pte[x][va].flags = rng[x][j].flags
        BY <2>2, <3>1, ReplacedSpace
      <3>3. ASSUME pte[x][va].frame # Device
            PROVE  LET h == pte[x][va].frame IN
                   /\ owner'[h] = owner[h] /\ owner[h] # NULL
                   /\ owner[h].space = x /\ owner[h].addr = va
                   /\ rng[x][owner[h].range] # NULL /\ va \in Extent(rng[x][owner[h].range])
        <4> DEFINE h == pte[x][va].frame
        <4>1. /\ h \in Frames /\ owner[h] # NULL /\ Released(s)[h] = owner[h]
              /\ owner[h].space = x /\ owner[h].addr = va
              /\ rng[x][owner[h].range] # NULL /\ va \in Extent(rng[x][owner[h].range])
          BY <2>2, <3>1, <3>3, ReplacedSpace
        <4>2. h # f
          BY <4>1, <1>3
        <4> QED
          BY <4>1, <4>2, <1>7
      <3> QED
        BY <3>1, <3>2, <3>3 DEF Live
    <2> QED
      BY <2>1, <2>2
  <1>10. EntriesCurrent'
    BY <1>9 DEF EntriesCurrent, Mapped, Live
  <1>11. EntriesOwned'
    BY <1>9 DEF EntriesOwned, Mapped
  <1>12. FramesMapped'
    <2> SUFFICES ASSUME NEW h \in Frames, owner'[h] # NULL
                 PROVE  /\ owner'[h].space \in alive
                        /\ pte'[owner'[h].space][owner'[h].addr] # NULL
                        /\ pte'[owner'[h].space][owner'[h].addr].frame = h
      BY <1>6 DEF FramesMapped
    <2>1. CASE h = f
      BY <2>1, <1>4, <1>5, <1>6, <1>7
    <2>2. CASE h # f
      <3>1. owner'[h] = owner[h] /\ owner[h].space # s
        BY <2>2, <1>7, ReleasedFrames
      <3>2. /\ owner[h].space \in alive /\ pte[owner[h].space][owner[h].addr] # NULL
            /\ pte[owner[h].space][owner[h].addr].frame = h /\ owner[h].space \in Spaces
        BY <3>1 DEF MemInv, FramesMapped
      <3> QED
        BY <3>1, <3>2, <1>6
    <2> QED
      BY <2>1, <2>2
  <1>13. GoneEmpty'
    BY <1>6 DEF MemInv, GoneEmpty
  <1>14. MemInv'
    BY <1>6, <1>7, <1>8, <1>10, <1>11, <1>12, <1>13 DEF MemInv
  <1>15. CacheCurrent'
    BY <1>6 DEF CacheCurrent
  <1> QED
    BY <1>6, <1>14, <1>15

LEMMA PagemapInit == Init => PagemapInv
  <1> SUFFICES ASSUME Init PROVE PagemapInv
    OBVIOUS
  <1> DEFINE i == FirstId
             f == FirstFrame
             n == Entry(f, StackFlags)
             o == Owner(InitSpace, i, StackTop)
  <1>0. i \in Ids
    BY PagemapAssumption DEF FirstId
  <1>1. StackTop \in Pages
    BY PagemapAssumption DEF StackTop, Pages, Mmap
  <1>2. f \in Frames
    <2>1. Pool[InitSpace][StackTop] \in (SUBSET Frames) \ {{}}
      BY <1>1, PagemapAssumption
    <2> QED
      BY <2>1 DEF FirstFrame
  <1>3. /\ alive = {InitSpace} /\ InitSpace \in Spaces
        /\ rng = [s \in Spaces |-> IF s = InitSpace THEN StackRanges(i)
                                                    ELSE [j \in Ids |-> NULL]]
        /\ pte = [s \in Spaces |-> IF s = InitSpace THEN StackEntries(f)
                                                    ELSE [va \in Pages |-> NULL]]
        /\ owner = [h \in Frames |-> IF h = f THEN o ELSE NULL]
        /\ cached = [s \in Spaces |-> NULL]
    BY PagemapAssumption DEF Init
  <1> HIDE DEF i, f
  <1>4. /\ StackRanges(i) \in Ranges /\ Disjoint(StackRanges(i))
        /\ StackRanges(i)[i] # NULL /\ StackTop \in Extent(StackRanges(i)[i])
        /\ StackRanges(i)[i].flags = StackFlags
        /\ StackEntries(f) \in [Pages -> Entries \cup {NULL}]
        /\ StackEntries(f)[StackTop] = n /\ n # NULL /\ n.frame = f /\ n.flags = StackFlags
        /\ \A va \in Pages \ {StackTop} : StackEntries(f)[va] = NULL
    BY <1>0, <1>2, StackSpace
  <1>5. o \in Owners /\ o # NULL /\ o.space = InitSpace /\ o.range = i /\ o.addr = StackTop
    BY <1>0, <1>1, PagemapAssumption DEF Owner, Owners
  <1> HIDE DEF n, o
  <1>6. /\ rng[InitSpace] = StackRanges(i) /\ pte[InitSpace] = StackEntries(f)
        /\ \A x \in Spaces \ {InitSpace} : /\ \A j \in Ids : rng[x][j] = NULL
                                           /\ \A va \in Pages : pte[x][va] = NULL
        /\ owner[f] = o /\ \A h \in Frames \ {f} : owner[h] = NULL
        /\ rng \in [Spaces -> [Ids -> Range \cup {NULL}]]
        /\ pte \in [Spaces -> [Pages -> Entries \cup {NULL}]]
        /\ owner \in [Frames -> Owners \cup {NULL}]
    BY <1>2, <1>3, <1>4, <1>5 DEF Ranges
  <1>7. RangesDisjoint
    BY <1>4, <1>6 DEF RangesDisjoint, Disjoint, Live
  <1>8. \A s \in Spaces : \A va \in Mapped(s) :
           s = InitSpace /\ va = StackTop /\ pte[s][va] = n
    BY <1>4, <1>6 DEF Mapped
  <1>9. EntriesCurrent
    BY <1>0, <1>4, <1>6, <1>8 DEF EntriesCurrent, Live
  <1>10. EntriesOwned
    BY <1>4, <1>5, <1>6, <1>8 DEF EntriesOwned
  <1>11. FramesMapped
    BY <1>3, <1>4, <1>5, <1>6 DEF FramesMapped
  <1>12. GoneEmpty
    BY <1>3, <1>6 DEF GoneEmpty
  <1>13. MemInv
    BY <1>3, <1>6, <1>7, <1>9, <1>10, <1>11, <1>12 DEF MemInv
  <1>14. CacheCurrent
    BY <1>3 DEF CacheCurrent
  <1>15. anon_base \in [Spaces -> Int] /\ brk \in [Spaces -> Int] /\ steps \in Nat
    BY PagemapAssumption DEF Init, AnonStart
  <1> QED
    BY <1>3, <1>6, <1>13, <1>14, <1>15 DEF PagemapInv, TypeOK
-----------------------------------------------------------------------------
\* One step per system call, fault and process event.
LEMMA PagemapNext == PagemapInv /\ [Next]_vars => PagemapInv'
  <1> SUFFICES ASSUME PagemapInv, [Next]_vars PROVE PagemapInv'
    OBVIOUS
  <1>0. /\ TypeOK /\ MemInv /\ CacheCurrent /\ cached \in [Spaces -> Ids \cup {NULL}]
        /\ anon_base \in [Spaces -> Int] /\ brk \in [Spaces -> Int] /\ steps \in Nat
    BY DEF PagemapInv, TypeOK
  <1>1. CASE UNCHANGED vars
    <2>1. /\ alive' = alive /\ rng' = rng /\ pte' = pte /\ owner' = owner
          /\ cached' = cached /\ anon_base' = anon_base /\ brk' = brk /\ steps' = steps
      BY <1>1 DEF vars
    <2>2. MemInv' /\ CacheCurrent'
      BY <1>0, <2>1 DEF MemInv, RangesDisjoint, Disjoint, EntriesCurrent, EntriesOwned,
                        FramesMapped, GoneEmpty, CacheCurrent, Mapped, Live
    <2> QED
      BY <1>0, <2>1, <2>2 DEF PagemapInv, TypeOK
  <1>2. CASE Next
    <2> DEFINE Keeps == /\ MemInv' /\ CacheCurrent'
                        /\ cached' \in [Spaces -> Ids \cup {NULL}]
                        /\ anon_base' \in [Spaces -> Int] /\ brk' \in [Spaces -> Int]
    <2>0. /\ \A p \in Points : p \in Int
          /\ \A kind \in Kinds : kind[1] \in Types /\ kind[2] \in Flags
          /\ \A len \in 1 .. MmapTop - MmapBase : len \in Int /\ 0 < len
          /\ AnonStart \in Int /\ HeapBase \in Int
      BY PagemapAssumption DEF Points, AnonStart
    <2>1. ASSUME NEW s \in Spaces, NEW len \in 1 .. MmapTop - MmapBase, NEW kind \in Kinds,
                 mmap(s, len, kind[2], kind[1])
          PROVE  Keeps
      <3> DEFINE b == anon_base[s]
                 e == b + len
                 anon == kind[1] = "ANONYMOUS"
      <3>1. /\ s \in alive /\ alive' = alive /\ brk' = brk
            /\ anon_base' = [anon_base EXCEPT ![s] = e]
            /\ add_range(s, b, e, kind[2], kind[1], anon, anon)
        BY <2>1 DEF mmap
      <3>2. b \in Int /\ e \in Int /\ b < e /\ anon \in BOOLEAN
            /\ kind[1] \in Types /\ kind[2] \in Flags
        BY <1>0, <2>0
      <3> HIDE DEF b, e, anon
      <3>3. MemInv' /\ CacheCurrent' /\ cached' \in [Spaces -> Ids \cup {NULL}]
        BY <1>0, <3>1, <3>2, AddRangeStep DEF Callable
      <3> QED
        BY <1>0, <3>1, <3>2, <3>3
    <2>2. ASSUME NEW s \in Spaces, NEW len \in 1 .. MmapTop - MmapBase, mmap_refused(s, len)
          PROVE  Keeps
      <3>1. /\ alive' = alive /\ rng' = rng /\ pte' = pte /\ owner' = owner
            /\ cached' = cached /\ brk' = brk
            /\ anon_base' = [anon_base EXCEPT ![s] = @ + len]
        BY <2>2 DEF mmap_refused
      <3>2. MemInv' /\ CacheCurrent'
        BY <1>0, <3>1 DEF MemInv, RangesDisjoint, Disjoint, EntriesCurrent, EntriesOwned,
                          FramesMapped, GoneEmpty, CacheCurrent, Mapped, Live
      <3> QED
        BY <1>0, <2>0, <3>1, <3>2
    <2>3. ASSUME NEW s \in Spaces, NEW b \in Points, NEW e \in Points, NEW kind \in Kinds,
                 mmap_fixed(s, b, e, kind[2], kind[1])
          PROVE  Keeps
      <3> DEFINE anon == kind[1] = "ANONYMOUS"
                 keep == FALSE
      <3>1. /\ s \in alive /\ b < e /\ alive' = alive /\ brk' = brk
            /\ anon_base' = [anon_base EXCEPT ![s] = IF @ < e THEN e ELSE @]
            /\ add_range(s, b, e, kind[2], kind[1], anon, keep)
        BY <2>3 DEF mmap_fixed
      <3>2. anon \in BOOLEAN /\ keep \in BOOLEAN
        OBVIOUS
      <3> HIDE DEF anon, keep
      <3>3. MemInv' /\ CacheCurrent' /\ cached' \in [Spaces -> Ids \cup {NULL}]
        BY <1>0, <2>0, <3>1, <3>2, AddRangeStep DEF Callable
      <3> QED
        BY <1>0, <2>0, <3>1, <3>3
    <2>4. ASSUME NEW s \in Spaces, NEW b \in Points, NEW e \in Points, NEW fl \in Flags,
                 mprotect(s, b, e, fl)
          PROVE  Keeps
      <3> DEFINE i == addr_to_range(s, b)
                 yes == TRUE
      <3>1. /\ s \in alive /\ b < e /\ alive' = alive /\ brk' = brk /\ anon_base' = anon_base
            /\ i # NULL /\ add_range(s, b, e, fl, rng[s][i].type, yes, yes)
        BY <2>4 DEF mprotect
      <3>2. i \in Live(rng[s])
        BY <1>0, <3>1, LookupRange
      <3> HIDE DEF i
      <3>3. rng[s][i].type \in Types /\ yes \in BOOLEAN
        BY <1>0, <3>2 DEF MemInv, Live, Range
      <3> HIDE DEF yes
      <3>4. MemInv' /\ CacheCurrent' /\ cached' \in [Spaces -> Ids \cup {NULL}]
        BY <1>0, <2>0, <3>1, <3>3, AddRangeStep DEF Callable
      <3> QED
        BY <1>0, <3>1, <3>4
    <2>5. ASSUME NEW s \in Spaces, NEW b \in Points, NEW e \in Points, munmap(s, b, e)
          PROVE  Keeps
      <3> DEFINE no == FALSE
                 ty == "NONE"
      <3>1. /\ s \in alive /\ b <= e /\ alive' = alive /\ brk' = brk
            /\ anon_base' = [anon_base EXCEPT ![s] = IF @ = e THEN b ELSE @]
            /\ add_range(s, b, e, NULL, ty, no, no) /\ no \in BOOLEAN /\ ty = "NONE"
        BY <2>5 DEF munmap, InArea
      <3> HIDE DEF no, ty
      <3>2. Callable(b, e, NULL, ty)
        BY <3>1 DEF Callable
      <3>3. MemInv' /\ CacheCurrent' /\ cached' \in [Spaces -> Ids \cup {NULL}]
        BY <1>0, <2>0, <3>1, <3>2, AddRangeStep
      <3> QED
        BY <1>0, <2>0, <3>1, <3>3
    <2>6. ASSUME NEW s \in Spaces, NEW b \in Points, NEW e \in Points, madvise(s, b, e)
          PROVE  Keeps
      <3>1. MemInv' /\ CacheCurrent' /\ cached' \in [Spaces -> Ids \cup {NULL}]
        BY <1>0, <2>6, MadviseStep
      <3> QED
        BY <1>0, <2>6, <3>1 DEF madvise
    <2>7. ASSUME NEW s \in Spaces, NEW new \in HeapBase .. HeapTop, set_brk(s, new)
          PROVE  Keeps
      <3> DEFINE old == brk[s]
                 yes == TRUE
                 no == FALSE
                 anon == "ANONYMOUS"
                 ty == "NONE"
      <3>1. /\ s \in alive /\ new # old /\ alive' = alive /\ anon_base' = anon_base
            /\ brk' = [brk EXCEPT ![s] = new]
            /\ \/ new > old /\ add_range(s, old, new, StackFlags, anon, yes, yes)
               \/ ~(new > old) /\ add_range(s, new, old, NULL, ty, no, no)
            /\ yes \in BOOLEAN /\ no \in BOOLEAN /\ ty = "NONE"
        BY <2>7 DEF set_brk
      <3>2. old \in Int /\ new \in Int /\ anon \in Types /\ StackFlags \in Flags
        BY <1>0, PagemapAssumption DEF Types
      <3> HIDE DEF old, yes, no, anon, ty
      <3>3. CASE new > old /\ add_range(s, old, new, StackFlags, anon, yes, yes)
        <4>1. old < new
          BY <3>2, <3>3
        <4>2. MemInv' /\ CacheCurrent' /\ cached' \in [Spaces -> Ids \cup {NULL}]
          BY <1>0, <3>1, <3>2, <3>3, <4>1, AddRangeStep DEF Callable
        <4> QED
          BY <1>0, <3>1, <3>2, <4>2
      <3>4. CASE ~(new > old) /\ add_range(s, new, old, NULL, ty, no, no)
        <4>1. new <= old
          BY <3>2, <3>4
        <4>2. Callable(new, old, NULL, ty)
          BY <3>1, <4>1 DEF Callable
        <4>3. MemInv' /\ CacheCurrent' /\ cached' \in [Spaces -> Ids \cup {NULL}]
          BY <1>0, <3>1, <3>2, <3>4, <4>2, AddRangeStep
        <4> QED
          BY <1>0, <3>1, <3>2, <4>3
      <3> QED
        BY <3>1, <3>3, <3>4
    <2>8. ASSUME NEW s \in Spaces, NEW va \in Pages, page_fault(s, va)
          PROVE  Keeps
      <3>1. MemInv' /\ CacheCurrent' /\ cached' \in [Spaces -> Ids \cup {NULL}]
        BY <1>0, <2>8, PageFaultStep
      <3> QED
        BY <1>0, <2>8, <3>1 DEF page_fault
    <2>9. ASSUME NEW s \in Spaces, NEW c \in Spaces, fork(s, c)
          PROVE  Keeps
      <3>1. MemInv' /\ CacheCurrent' /\ cached' \in [Spaces -> Ids \cup {NULL}]
        BY <1>0, <2>9, ForkStep
      <3>2. anon_base' = [anon_base EXCEPT ![c] = anon_base[s]] /\ brk' = [brk EXCEPT ![c] = brk[s]]
        BY <2>9 DEF fork
      <3> QED
        BY <1>0, <3>1, <3>2
    <2>10. ASSUME NEW s \in Spaces, zombify(s)
           PROVE  Keeps
      <3>1. MemInv' /\ CacheCurrent' /\ cached' \in [Spaces -> Ids \cup {NULL}]
        BY <1>0, <2>10, ZombifyStep
      <3>2. anon_base' = [anon_base EXCEPT ![s] = AnonStart] /\ brk' = [brk EXCEPT ![s] = HeapBase]
        BY <2>10 DEF zombify
      <3> QED
        BY <1>0, <2>0, <3>1, <3>2
    <2>11. ASSUME NEW s \in Spaces, user_exec(s)
           PROVE  Keeps
      <3>1. MemInv' /\ CacheCurrent' /\ cached' \in [Spaces -> Ids \cup {NULL}]
        BY <1>0, <2>11, ExecStep
      <3>2. anon_base' = [anon_base EXCEPT ![s] = AnonStart] /\ brk' = [brk EXCEPT ![s] = HeapBase]
        BY <2>11 DEF user_exec
      <3> QED
        BY <1>0, <2>0, <3>1, <3>2
    <2> HIDE DEF Keeps
    <2>12. Keeps
      BY <1>2, <2>1, <2>2, <2>3, <2>4, <2>5, <2>6, <2>7, <2>8, <2>9, <2>10, <2>11 DEF Next
    <2>13. steps' \in Nat
      BY <1>0, <1>2 DEF Next
    <2> QED
      BY <2>12, <2>13 DEF Keeps, PagemapInv, TypeOK, MemInv
  <1> QED
    BY <1>1, <1>2

\* Whatever is mapped, unmapped, protected, faulted in, forked and executed:
\* ranges, page tables, page lists and the cached lookup agree.
THEOREM PagemapSafe == Spec => []PagemapInv
  BY PagemapInit, PagemapNext, PTL DEF Spec

\* Two mapped ranges of a process never overlap.
THEOREM RangesSafe == Spec => []RangesDisjoint
  <1>1. PagemapInv => RangesDisjoint
    BY DEF PagemapInv, MemInv
  <1> QED
    BY <1>1, PagemapSafe, PTL

\* No entry survives the range it belonged to, and none has stale flags.
THEOREM EntriesSafe == Spec => []EntriesCurrent
  <1>1. PagemapInv => EntriesCurrent
    BY DEF PagemapInv, MemInv
  <1> QED
    BY <1>1, PagemapSafe, PTL

\* No page is freed, or given to another address or process, while an entry
\* maps it.
THEOREM PagesSafe == Spec => []EntriesOwned
  <1>1. PagemapInv => EntriesOwned
    BY DEF PagemapInv, MemInv
  <1> QED
    BY <1>1, PagemapSafe, PTL

\* No page leaks: one that is in use is mapped in a process that exists.
THEOREM NoPageLeaks == Spec => []FramesMapped
  <1>1. PagemapInv => FramesMapped
    BY DEF PagemapInv, MemInv
  <1> QED
    BY <1>1, PagemapSafe, PTL
-----------------------------------------------------------------------------
\* What the steps do to the ends of ranges and to the pages of devices.

\* A page of a device is in a range of device memory.
DeviceDirect ==
    \A s \in Spaces : \A va \in Mapped(s) : pte[s][va].frame = Device =>
        \A i \in Live(rng[s]) : va \in Extent(rng[s][i]) => rng[s][i].type = "DIRECT"

\* Ranges Q and entries F come from R and E: no range ends above those there were
\* and e, ...
EndsKept(R, Q, e) ==
    \A j \in Live(Q) : Q[j].end = e \/ \E i \in Live(R) : Q[j].end <= R[i].end
\* ... the pages of devices that are left are where they were, in ranges of the
\* type they were in, ...
DevicesKept(R, E, Q, F) ==
    \A va \in Pages : F[va] # NULL /\ F[va].frame = Device =>
        /\ E[va] # NULL /\ E[va].frame = Device
        /\ \A j \in Live(Q) : va \in Extent(Q[j]) =>
              R[j] # NULL /\ va \in Extent(R[j]) /\ Q[j].type = R[j].type
\* ... and all pages of memory stay at their addresses.
PagesKept(E, F) ==
    \A va \in Pages : E[va] # NULL =>
        F[va] # NULL /\ (E[va].frame # Device => F[va].frame = E[va].frame)

\* Every range that is left is part of one there was, with its type.
LEMMA ResolvedParts ==
    ASSUME NEW R \in Ranges, Disjoint(R), NEW b \in Int, NEW e \in Int, b <= e,
           NEW k \in Ids, R[k] = NULL, NEW j \in Live(Resolved(R, b, e, k))
    PROVE  LET q == Resolved(R, b, e, k)[j] IN
           \E i \in Live(R) :
              /\ q \in Range /\ R[i] \in Range
              /\ R[i].base <= q.base /\ q.end <= R[i].end /\ q.type = R[i].type
              /\ j # k => i = j
  <1> DEFINE Q == Resolved(R, b, e, k)
             J == CHOOSE m \in Live(R) : Splits(R[m], b, e)
  <1>1. \A i \in Live(R) : i \in Ids /\ R[i] \in Range /\ R[i].base < R[i].end /\ R[i] # NULL
    BY DEF Ranges, Live, Disjoint
  <1>2. Q \in Ranges
    BY ResolvedRanges
  <1>3. j \in Ids /\ Q[j] # NULL /\ Q[j] \in Range
    <2> HIDE DEF Q
    <2>1. j \in Ids /\ Q[j] # NULL
      BY DEF Live, Q
    <2> QED
      BY <1>2, <2>1 DEF Ranges
  <1>4. CASE R[j] # NULL
    <2>1. j \in Live(R) /\ Q[j] = Trimmed(R[j], b, e)
      BY <1>3, <1>4 DEF Resolved, Live
    <2>2. R[j].base <= Q[j].base /\ Q[j].end <= R[j].end /\ Q[j].type = R[j].type
      BY <1>1, <1>3, <2>1, TrimmedRange
    <2> QED
      BY <1>1, <1>3, <2>1, <2>2
  <1>5. CASE R[j] = NULL
    <2>1. j = k /\ (\E m \in Live(R) : Splits(R[m], b, e)) /\ Q[j] = [R[J] EXCEPT !.base = e]
      BY <1>3, <1>5 DEF Resolved
    <2>2. J \in Live(R) /\ Splits(R[J], b, e)
      BY <2>1
    <2> HIDE DEF J, Q
    <2>3. R[J].base <= Q[j].base /\ Q[j].end <= R[J].end /\ Q[j].type = R[J].type
      BY <1>1, <2>1, <2>2 DEF Splits, Range
    <2> QED
      BY <1>1, <1>3, <2>1, <2>2, <2>3 DEF Q
  <1> QED
    BY <1>4, <1>5

\* What invalidate_pages does to the ranges and to each entry.
LEMMA InvalidateEffect ==
    ASSUME MemInv, NEW s \in Spaces, NEW R \in Ranges, NEW gone, NEW to,
           DOMAIN to \subseteq Mapped(s), \A va \in DOMAIN to : to[va] \in Ids /\ R[to[va]] # NULL,
           invalidate_pages(s, R, gone, to)
    PROVE  /\ rng'[s] = R /\ \A x \in Spaces \ {s} : rng'[x] = rng[x] /\ pte'[x] = pte[x]
           /\ \A va \in Pages :
                 /\ va \in gone => pte'[s][va] = NULL
                 /\ va \in DOMAIN to /\ va \notin gone =>
                       /\ pte'[s][va] # NULL /\ pte'[s][va].frame \in Frames
                       /\ pte[s][va].frame # Device => pte'[s][va].frame = pte[s][va].frame
                 /\ va \notin DOMAIN to /\ va \notin gone => pte'[s][va] = pte[s][va]
  <1> DEFINE D == DOMAIN to
             Foreign == {va \in D : pte[s][va].frame = Device}
             new == CHOOSE g \in Allocations(s, Foreign) : TRUE
             frame == [va \in D |-> IF va \in Foreign THEN new[va] ELSE pte[s][va].frame]
  <1>1. /\ Allocations(s, Foreign) # {}
        /\ rng' = [rng EXCEPT ![s] = R]
        /\ pte' = [pte EXCEPT ![s] =
              [va \in Pages |-> IF va \in gone THEN NULL
                                ELSE IF va \in D THEN Entry(frame[va], R[to[va]].flags)
                                ELSE pte[s][va]]]
    BY DEF invalidate_pages
  <1>2. new \in [Foreign -> FreeFrames]
    <2>1. new \in Allocations(s, Foreign)
      BY <1>1
    <2> HIDE DEF new, Foreign
    <2> QED
      BY <2>1 DEF Allocations
  <1> HIDE DEF new
  <1>3. \A va \in D : /\ frame[va] \in Frames
                      /\ pte[s][va].frame # Device => frame[va] = pte[s][va].frame
    <2> SUFFICES ASSUME NEW va \in D
                 PROVE  /\ frame[va] \in Frames
                        /\ pte[s][va].frame # Device => frame[va] = pte[s][va].frame
      OBVIOUS
    <2>1. pte[s][va].frame \in Frames \cup {Device}
      BY DEF Mapped, MemInv, Entries
    <2>2. CASE va \in Foreign
      BY <1>2, <2>2 DEF FreeFrames
    <2>3. CASE va \notin Foreign
      BY <2>1, <2>3
    <2> QED
      BY <2>2, <2>3
  <1> HIDE DEF frame
  <1>4. /\ rng'[s] = R /\ \A x \in Spaces \ {s} : rng'[x] = rng[x] /\ pte'[x] = pte[x]
        /\ pte'[s] = [va \in Pages |->
                         IF va \in gone THEN NULL
                         ELSE IF va \in D THEN Entry(frame[va], R[to[va]].flags)
                         ELSE pte[s][va]]
    BY <1>1 DEF MemInv
  <1>5. \A va \in D : LET n == Entry(frame[va], R[to[va]].flags) IN
                      n.frame = frame[va] /\ n # NULL
    <2> SUFFICES ASSUME NEW va \in D
                 PROVE  LET n == Entry(frame[va], R[to[va]].flags) IN
                        n.frame = frame[va] /\ n # NULL
      OBVIOUS
    <2>1. R[to[va]].flags \in Flags
      BY DEF Ranges, Range
    <2>2. Entry(frame[va], R[to[va]].flags) \in Entries
      BY <1>3, <2>1 DEF Entry, Entries
    <2> QED
      BY <2>2, PagemapAssumption DEF Entry
  <1> QED
    BY <1>3, <1>4, <1>5

\* A page with an entry lies in a range.
LEMMA MappedInRange ==
    ASSUME MemInv, NEW s \in Spaces, NEW va \in Pages, pte[s][va] # NULL
    PROVE  \E m \in Live(rng[s]) : va \in Extent(rng[s][m])
  BY EntryFacts DEF Mapped

\* Changing the flags of a range moves neither ends nor pages.
LEMMA FlagsEffect ==
    ASSUME MemInv, NEW s \in alive, NEW i \in Live(rng[s]), NEW fl \in Flags,
           ChangesFlags(s, i, fl), NEW e
    PROVE  /\ \A x \in Spaces \ {s} : rng'[x] = rng[x] /\ pte'[x] = pte[x]
           /\ EndsKept(rng[s], rng'[s], e)
           /\ DevicesKept(rng[s], pte[s], rng'[s], pte'[s])
           /\ PagesKept(pte[s], pte'[s])
  <1> DEFINE R == [rng[s] EXCEPT ![i].flags = fl]
             gone == {}
             D == IF rng[s][i].flags = fl THEN {} ELSE Extent(rng[s][i]) \cap Mapped(s)
             to == [va \in D |-> i]
  <1>1. /\ s \in Spaces /\ rng[s] \in Ranges /\ i \in Ids /\ rng[s][i] \in Range
        /\ rng[s][i] # NULL
    BY DEF MemInv, Ranges, Live
  <1>2. [rng[s][i] EXCEPT !.flags = fl] \in Range
    BY <1>1 DEF Range
  <1>3. /\ R \in Ranges
        /\ \A j \in Ids : /\ R[j] = NULL <=> rng[s][j] = NULL
                          /\ rng[s][j] # NULL => /\ R[j].end = rng[s][j].end
                                                 /\ R[j].base = rng[s][j].base
                                                 /\ R[j].type = rng[s][j].type
    BY <1>1, <1>2, PagemapAssumption DEF Ranges, Range
  <1>4. invalidate_pages(s, R, gone, to) /\ DOMAIN to \subseteq Mapped(s) /\ gone = {}
        /\ \A va \in DOMAIN to : to[va] \in Ids /\ R[to[va]] # NULL
    BY <1>1, <1>3 DEF ChangesFlags
  <1> HIDE DEF R, gone, to
  <1>5. /\ rng'[s] = R /\ \A x \in Spaces \ {s} : rng'[x] = rng[x] /\ pte'[x] = pte[x]
        /\ \A va \in Pages :
              /\ va \in DOMAIN to =>
                    /\ pte'[s][va] # NULL /\ pte'[s][va].frame \in Frames
                    /\ pte[s][va].frame # Device => pte'[s][va].frame = pte[s][va].frame
              /\ va \notin DOMAIN to => pte'[s][va] = pte[s][va]
    BY <1>1, <1>3, <1>4, InvalidateEffect
  <1>6. EndsKept(rng[s], R, e)
    <2>1. \A j \in Live(R) : R[j].end <= rng[s][j].end /\ j \in Live(rng[s])
      BY <1>1, <1>3 DEF Live, Ranges, Range
    <2> QED
      BY <2>1 DEF EndsKept
  <1>7. DevicesKept(rng[s], pte[s], R, pte'[s])
    <2>1. \A j \in Live(R) : /\ rng[s][j] # NULL /\ Extent(R[j]) = Extent(rng[s][j])
                             /\ R[j].type = rng[s][j].type
      BY <1>3 DEF Live, Extent
    <2>2. Device \notin Frames
      BY PagemapAssumption
    <2> QED
      BY <1>5, <2>1, <2>2 DEF DevicesKept
  <1>8. PagesKept(pte[s], pte'[s])
    BY <1>5 DEF PagesKept
  <1> QED
    BY <1>5, <1>6, <1>7, <1>8

\* A page of [b, e) that has an entry is dropped or moved.
LEMMA InsideMoves ==
    ASSUME MemInv, NEW s \in Spaces, NEW b \in Int, NEW e \in Int, NEW va \in Pages,
           pte[s][va] # NULL, b <= va, va < e
    PROVE  va \in Dropped(s, b, e) \/ va \in Inside(s, b, e)
  <1>1. PICK m \in Live(rng[s]) : va \in Extent(rng[s][m])
    BY MappedInRange
  <1>2. va \in Int /\ rng[s][m] \in Range
    BY PagemapAssumption DEF MemInv, Live, Pages, Heap, Mmap
  <1>3. Overlaps(rng[s][m], b, e)
    BY <1>1, <1>2 DEF Overlaps, Extent, Range
  <1>4. va \in Between(b, e) \cap Mapped(s)
    BY DEF Between, Mapped
  <1> QED
    BY <1>3, <1>4 DEF Inside

\* Placing a range ends it at e or where its neighbour ended, and takes the pages
\* of devices out of it.
LEMMA PlacedEffect ==
    ASSUME MemInv, NEW s \in alive, NEW b \in Int, NEW e \in Int, b < e,
           NEW k \in Ids, NEW i \in Ids, NEW r \in Range, Placing(s, b, e, k, i, r)
    PROVE  /\ \A x \in Spaces \ {s} : rng'[x] = rng[x] /\ pte'[x] = pte[x]
           /\ EndsKept(rng[s], rng'[s], e)
           /\ DevicesKept(rng[s], pte[s], rng'[s], pte'[s])
           /\ Dropped(s, b, e) = {} => PagesKept(pte[s], pte'[s])
  <1> DEFINE Q == Resolved(rng[s], b, e, k)
             R == [Q EXCEPT ![i] = r]
             A == Above(s, Q, k)
             D == A \cup Inside(s, b, e)
             to == [va \in D |-> IF va \in A THEN k ELSE i]
             gone == Dropped(s, b, e)
  <1>0. s \in Spaces /\ rng[s] \in Ranges /\ Disjoint(rng[s]) /\ b <= e /\ rng[s][k] = NULL
    BY DEF MemInv, RangesDisjoint, Ranges, Placing
  <1>1. Q \in Ranges
    BY <1>0, ResolvedRanges
  <1>2. \A j \in Live(Q) : \E m \in Live(rng[s]) :
           /\ Q[j] \in Range /\ rng[s][m] \in Range
           /\ rng[s][m].base <= Q[j].base /\ Q[j].end <= rng[s][m].end
           /\ Q[j].type = rng[s][m].type /\ (j # k => m = j)
    BY <1>0, ResolvedParts
  <1>3. /\ Q[i] = NULL => r.base = b /\ r.end = e
        /\ Q[i] # NULL => /\ r.type = Q[i].type
                          /\ \/ r.base = Q[i].base /\ r.end = e /\ Q[i].end = b
                             \/ r.base = b /\ r.end = Q[i].end /\ Q[i].base = e
        /\ invalidate_pages(s, R, gone, to)
    BY DEF Placing
  <1>4. /\ D \subseteq Mapped(s) /\ A \subseteq D /\ Inside(s, b, e) \subseteq D
        /\ \A va \in A : Q[k] # NULL
        /\ \A va \in Pages : pte[s][va] # NULL /\ Q[k] # NULL /\ va \in Extent(Q[k]) => va \in A
    <2> HIDE DEF Q
    <2> QED
      BY DEF Above, Inside, Mapped
  <1> HIDE DEF Q, A
  <1>5. /\ R \in Ranges /\ R[i] = r /\ r # NULL /\ \A j \in Ids \ {i} : R[j] = Q[j]
    BY <1>1, PagemapAssumption DEF Ranges
  <1>6. \A va \in DOMAIN to : to[va] \in Ids /\ R[to[va]] # NULL
    <2> HIDE DEF R
    <2> QED
      BY <1>4, <1>5
  <1>7. DOMAIN to = D
    OBVIOUS
  <1> HIDE DEF R, to, D, gone
  <1>8. /\ rng'[s] = R /\ \A x \in Spaces \ {s} : rng'[x] = rng[x] /\ pte'[x] = pte[x]
        /\ \A va \in Pages :
              /\ va \in gone => pte'[s][va] = NULL
              /\ va \in D /\ va \notin gone =>
                    /\ pte'[s][va] # NULL /\ pte'[s][va].frame \in Frames
                    /\ pte[s][va].frame # Device => pte'[s][va].frame = pte[s][va].frame
              /\ va \notin D /\ va \notin gone => pte'[s][va] = pte[s][va]
    BY <1>0, <1>3, <1>4, <1>5, <1>6, <1>7, InvalidateEffect
  <1>9. EndsKept(rng[s], R, e)
    <2> SUFFICES ASSUME NEW j \in Live(R)
                 PROVE  R[j].end = e \/ \E m \in Live(rng[s]) : R[j].end <= rng[s][m].end
      BY DEF EndsKept
    <2>1. CASE j # i
      BY <1>2, <1>5, <2>1 DEF Live
    <2>2. CASE j = i
      BY <1>2, <1>3, <1>5, <2>2 DEF Live
    <2> QED
      BY <2>1, <2>2
  <1>10. DevicesKept(rng[s], pte[s], R, pte'[s])
    <2> SUFFICES ASSUME NEW va \in Pages, pte'[s][va] # NULL, pte'[s][va].frame = Device
                 PROVE  /\ pte[s][va] # NULL /\ pte[s][va].frame = Device
                        /\ \A j \in Live(R) : va \in Extent(R[j]) =>
                              /\ rng[s][j] # NULL /\ va \in Extent(rng[s][j])
                              /\ R[j].type = rng[s][j].type
      BY DEF DevicesKept
    <2>1. va \notin gone /\ va \notin D /\ pte[s][va] # NULL /\ pte[s][va].frame = Device
      BY <1>8, PagemapAssumption
    <2>2. va \in Int
      BY PagemapAssumption DEF Pages, Heap, Mmap
    <2>3. ~(b <= va /\ va < e)
      BY <1>0, <1>4, <2>1, InsideMoves DEF gone
    <2>4. Q[k] # NULL => va \notin Extent(Q[k])
      BY <1>4, <2>1
    <2>5. ASSUME NEW j \in Live(R), va \in Extent(R[j])
          PROVE  /\ rng[s][j] # NULL /\ va \in Extent(rng[s][j])
                 /\ R[j].type = rng[s][j].type
      <3>1. j \in Ids /\ R[j] # NULL
        BY DEF Live
      <3>2. Q[j] # NULL /\ va \in Extent(Q[j]) /\ R[j].type = Q[j].type
        <4>1. CASE j # i
          BY <1>5, <2>5, <3>1, <4>1
        <4>2. CASE j = i
          <5>1. r.base <= va /\ va < r.end /\ R[j] = r
            BY <1>5, <2>5, <4>2 DEF Extent
          <5>2. Q[i] # NULL
            BY <1>3, <2>3, <5>1
          <5>3. Q[i] \in Range
            BY <1>1, <5>2 DEF Ranges
          <5>4. Q[i].base <= va /\ va < Q[i].end
            BY <1>3, <2>2, <2>3, <5>1, <5>2, <5>3 DEF Range
          <5> QED
            BY <1>3, <4>2, <5>1, <5>2, <5>4 DEF Extent
        <4> QED
          BY <4>1, <4>2
      <3>3. j # k /\ j \in Live(Q)
        BY <2>4, <3>1, <3>2 DEF Live
      <3>4. /\ j \in Live(rng[s]) /\ Q[j] \in Range /\ rng[s][j] \in Range
            /\ rng[s][j].base <= Q[j].base /\ Q[j].end <= rng[s][j].end
            /\ Q[j].type = rng[s][j].type
        BY <1>2, <3>3
      <3> QED
        BY <2>2, <3>2, <3>4 DEF Extent, Range, Live
    <2> QED
      BY <2>1, <2>5
  <1>11. gone = {} => PagesKept(pte[s], pte'[s])
    BY <1>8 DEF PagesKept
  <1> QED
    BY <1>8, <1>9, <1>10, <1>11 DEF gone

\* After unmapping no range reaches into [b, e), and none ends above those there
\* were.
LEMMA RemovedEffect ==
    ASSUME MemInv, NEW s \in alive, NEW b \in Int, NEW e \in Int, b <= e,
           NEW k \in Ids, Removing(s, b, e, k)
    PROVE  /\ \A x \in Spaces \ {s} : rng'[x] = rng[x] /\ pte'[x] = pte[x]
           /\ \A j \in Live(rng'[s]) :
                 /\ \E m \in Live(rng[s]) : rng'[s][j].end <= rng[s][m].end
                 /\ rng'[s][j].end <= b \/ e < rng'[s][j].end
           /\ DevicesKept(rng[s], pte[s], rng'[s], pte'[s])
  <1> DEFINE Q == Resolved(rng[s], b, e, k)
             A == Above(s, Q, k)
             to == [va \in A |-> k]
             gone == Between(b, e) \cap Mapped(s)
  <1>0. s \in Spaces /\ rng[s] \in Ranges /\ Disjoint(rng[s]) /\ rng[s][k] = NULL
    BY DEF MemInv, RangesDisjoint, Ranges, Removing
  <1>1. /\ Q \in Ranges /\ Disjoint(Q)
        /\ \A j \in Live(Q) : Q[j].end <= b \/ e <= Q[j].base
    BY <1>0, ResolvedRanges
  <1>2. \A j \in Live(Q) : \E m \in Live(rng[s]) :
           /\ Q[j] \in Range /\ rng[s][m] \in Range
           /\ rng[s][m].base <= Q[j].base /\ Q[j].end <= rng[s][m].end
           /\ Q[j].type = rng[s][m].type /\ (j # k => m = j)
    BY <1>0, ResolvedParts
  <1>3. invalidate_pages(s, Q, gone, to)
    BY DEF Removing
  <1>4. /\ A \subseteq Mapped(s) /\ \A va \in A : Q[k] # NULL
        /\ \A va \in Pages : pte[s][va] # NULL /\ Q[k] # NULL /\ va \in Extent(Q[k]) => va \in A
        /\ \A va \in Pages : pte[s][va] # NULL /\ b <= va /\ va < e => va \in gone
    <2> HIDE DEF Q
    <2> QED
      BY DEF Above, Mapped, Between
  <1> HIDE DEF Q, A
  <1>5. DOMAIN to = A /\ \A va \in DOMAIN to : to[va] \in Ids /\ Q[to[va]] # NULL
    BY <1>4
  <1> HIDE DEF to, gone
  <1>6. /\ rng'[s] = Q /\ \A x \in Spaces \ {s} : rng'[x] = rng[x] /\ pte'[x] = pte[x]
        /\ \A va \in Pages :
              /\ va \in gone => pte'[s][va] = NULL
              /\ va \in A /\ va \notin gone =>
                    /\ pte'[s][va] # NULL /\ pte'[s][va].frame \in Frames
                    /\ pte[s][va].frame # Device => pte'[s][va].frame = pte[s][va].frame
              /\ va \notin A /\ va \notin gone => pte'[s][va] = pte[s][va]
    BY <1>0, <1>1, <1>3, <1>4, <1>5, InvalidateEffect
  <1>7. ASSUME NEW j \in Live(Q)
        PROVE  /\ \E m \in Live(rng[s]) : Q[j].end <= rng[s][m].end
               /\ Q[j].end <= b \/ e < Q[j].end
    <2>1. Q[j] \in Range /\ Q[j].base < Q[j].end /\ (Q[j].end <= b \/ e <= Q[j].base)
      BY <1>1, <1>2 DEF Disjoint
    <2> QED
      BY <1>2, <2>1 DEF Range
  <1>8. DevicesKept(rng[s], pte[s], Q, pte'[s])
    <2> SUFFICES ASSUME NEW va \in Pages, pte'[s][va] # NULL, pte'[s][va].frame = Device
                 PROVE  /\ pte[s][va] # NULL /\ pte[s][va].frame = Device
                        /\ \A j \in Live(Q) : va \in Extent(Q[j]) =>
                              /\ rng[s][j] # NULL /\ va \in Extent(rng[s][j])
                              /\ Q[j].type = rng[s][j].type
      BY DEF DevicesKept
    <2>1. va \notin gone /\ va \notin A /\ pte[s][va] # NULL /\ pte[s][va].frame = Device
      BY <1>6, PagemapAssumption
    <2>2. va \in Int
      BY PagemapAssumption DEF Pages, Heap, Mmap
    <2>3. Q[k] # NULL => va \notin Extent(Q[k])
      BY <1>4, <2>1
    <2>4. ASSUME NEW j \in Live(Q), va \in Extent(Q[j])
          PROVE  /\ rng[s][j] # NULL /\ va \in Extent(rng[s][j])
                 /\ Q[j].type = rng[s][j].type
      <3>1. j # k
        BY <2>3, <2>4 DEF Live
      <3>2. /\ j \in Live(rng[s]) /\ Q[j] \in Range /\ rng[s][j] \in Range
            /\ rng[s][j].base <= Q[j].base /\ Q[j].end <= rng[s][j].end
            /\ Q[j].type = rng[s][j].type
        BY <1>2, <3>1
      <3> QED
        BY <2>2, <2>4, <3>2 DEF Extent, Range, Live
    <2> QED
      BY <2>1, <2>4
  <1> QED
    BY <1>6, <1>7, <1>8

\* add_range: the ends of ranges and the pages of devices.
LEMMA AddRangeEffect ==
    ASSUME MemInv, NEW s \in alive, NEW b \in Int, NEW e \in Int, NEW fl, NEW ty,
           NEW merge \in BOOLEAN, NEW keep \in BOOLEAN,
           Callable(b, e, fl, ty), add_range(s, b, e, fl, ty, merge, keep)
    PROVE  /\ \A x \in Spaces \ {s} : rng'[x] = rng[x] /\ pte'[x] = pte[x]
           /\ EndsKept(rng[s], rng'[s], e)
           /\ ty = "NONE" =>
                 \A j \in Live(rng'[s]) :
                    /\ \E m \in Live(rng[s]) : rng'[s][j].end <= rng[s][m].end
                    /\ rng'[s][j].end <= b \/ e < rng'[s][j].end
           /\ DevicesKept(rng[s], pte[s], rng'[s], pte'[s])
  <1> DEFINE Rest == /\ \A x \in Spaces \ {s} : rng'[x] = rng[x] /\ pte'[x] = pte[x]
                     /\ DevicesKept(rng[s], pte[s], rng'[s], pte'[s])
             Cut == \A j \in Live(rng'[s]) :
                       /\ \E m \in Live(rng[s]) : rng'[s][j].end <= rng[s][m].end
                       /\ rng'[s][j].end <= b \/ e < rng'[s][j].end
  <1>1. ASSUME NEW i \in Live(rng[s]), fl \in Flags, ChangesFlags(s, i, fl)
        PROVE  Rest /\ EndsKept(rng[s], rng'[s], e)
    BY <1>1, FlagsEffect
  <1>2. ASSUME b < e, NEW k \in Ids, NEW i \in Ids, NEW r \in Range, Placing(s, b, e, k, i, r)
        PROVE  Rest /\ EndsKept(rng[s], rng'[s], e)
    BY <1>2, PlacedEffect
  <1>3. ASSUME b <= e, NEW k \in Ids, Removing(s, b, e, k)
        PROVE  Rest /\ Cut
    BY <1>3, RemovedEffect
  <1>4. Cut => EndsKept(rng[s], rng'[s], e)
    BY DEF EndsKept
  <1> HIDE DEF Rest, Cut
  <1>5. Rest /\ EndsKept(rng[s], rng'[s], e) /\ (ty = "NONE" => Cut)
    BY <1>1, <1>2, <1>3, <1>4, AddRangeCases
  <1> QED
    BY <1>5 DEF Rest, Cut
-----------------------------------------------------------------------------
\* With the bump pointer above all ranges and devices in their own ranges.
ShortcutInv == PagemapInv /\ AnonBaseAbove /\ DeviceDirect

\* A step that only changes space s, in which no range ends above both the bump
\* pointer and the heap, and no page of a device changes its range.
LEMMA OneSpaceStep ==
    ASSUME ShortcutInv, NEW s \in Spaces,
           \A x \in Spaces \ {s} : /\ rng'[x] = rng[x] /\ pte'[x] = pte[x]
                                   /\ anon_base'[x] = anon_base[x],
           \A j \in Live(rng'[s]) : rng'[s][j].end <= anon_base'[s] \/ rng'[s][j].end <= HeapTop,
           DevicesKept(rng[s], pte[s], rng'[s], pte'[s])
    PROVE  AnonBaseAbove' /\ DeviceDirect'
  <1>1. AnonBaseAbove'
    <2> SUFFICES ASSUME NEW x \in Spaces, NEW j \in Live(rng'[x])
                 PROVE  rng'[x][j].end <= anon_base'[x] \/ rng'[x][j].end <= HeapTop
      BY DEF AnonBaseAbove, Live
    <2>1. CASE x = s
      BY <2>1
    <2>2. CASE x # s
      BY <2>2 DEF ShortcutInv, AnonBaseAbove
    <2> QED
      BY <2>1, <2>2
  <1>2. DeviceDirect'
    <2> SUFFICES ASSUME NEW x \in Spaces, NEW va \in Pages, pte'[x][va] # NULL,
                        pte'[x][va].frame = Device, NEW i \in Live(rng'[x]),
                        va \in Extent(rng'[x][i])
                 PROVE  rng'[x][i].type = "DIRECT"
      BY DEF DeviceDirect, Mapped, Live, Extent
    <2>1. CASE x = s
      <3>1. /\ pte[s][va] # NULL /\ pte[s][va].frame = Device
            /\ rng[s][i] # NULL /\ va \in Extent(rng[s][i]) /\ rng'[s][i].type = rng[s][i].type
        BY <2>1 DEF DevicesKept
      <3>2. i \in Live(rng[s]) /\ va \in Mapped(s)
        BY <3>1 DEF Live, Mapped
      <3> QED
        BY <2>1, <3>1, <3>2 DEF ShortcutInv, DeviceDirect
    <2>2. CASE x # s
      <3>1. va \in Mapped(x) /\ rng'[x] = rng[x] /\ pte'[x] = pte[x]
        BY <2>2 DEF Mapped
      <3> QED
        BY <3>1 DEF ShortcutInv, DeviceDirect
    <2> QED
      BY <2>1, <2>2
  <1> QED
    BY <1>1, <1>2

\* The ranges that add_range leaves end below the bump pointer or the heap's top
\* if e does.
LEMMA AddRangeShortcut ==
    ASSUME ShortcutInv, NEW s \in alive, NEW b \in Int, NEW e \in Int, NEW fl, NEW ty,
           NEW merge \in BOOLEAN, NEW keep \in BOOLEAN,
           Callable(b, e, fl, ty), add_range(s, b, e, fl, ty, merge, keep), MemInv',
           anon_base' \in [Spaces -> Int],
           \A x \in Spaces \ {s} : anon_base'[x] = anon_base[x],
           \/ ty = "NONE" /\ anon_base'[s] = IF anon_base[s] = e THEN b ELSE anon_base[s]
           \/ ty = "NONE" /\ anon_base'[s] = anon_base[s]
           \/ anon_base[s] <= anon_base'[s] /\ (e <= anon_base'[s] \/ e <= HeapTop)
    PROVE  AnonBaseAbove' /\ DeviceDirect'
  <1>1. MemInv /\ s \in Spaces /\ anon_base[s] \in Int /\ anon_base'[s] \in Int /\ HeapTop \in Int
    BY PagemapAssumption DEF ShortcutInv, PagemapInv, MemInv, TypeOK
  <1>2. /\ \A x \in Spaces \ {s} : rng'[x] = rng[x] /\ pte'[x] = pte[x]
        /\ EndsKept(rng[s], rng'[s], e)
        /\ ty = "NONE" =>
              \A j \in Live(rng'[s]) :
                 /\ \E m \in Live(rng[s]) : rng'[s][j].end <= rng[s][m].end
                 /\ rng'[s][j].end <= b \/ e < rng'[s][j].end
        /\ DevicesKept(rng[s], pte[s], rng'[s], pte'[s])
    BY <1>1, AddRangeEffect
  <1>3. \A m \in Live(rng[s]) : /\ rng[s][m].end \in Int
                                /\ rng[s][m].end <= anon_base[s] \/ rng[s][m].end <= HeapTop
    BY <1>1 DEF ShortcutInv, AnonBaseAbove, MemInv, Live, Range
  <1>4. ASSUME NEW j \in Live(rng'[s])
        PROVE  rng'[s][j].end <= anon_base'[s] \/ rng'[s][j].end <= HeapTop
    <2>1. rng'[s][j].end \in Int
      BY <1>1 DEF MemInv, Live, Range
    <2>2. CASE ty = "NONE"
      <3>1. PICK m \in Live(rng[s]) : rng'[s][j].end <= rng[s][m].end
        BY <1>2, <2>2
      <3>2. rng'[s][j].end <= b \/ e < rng'[s][j].end
        BY <1>2, <2>2
      <3> QED
        BY <1>1, <1>3, <2>1, <3>1, <3>2
    <2>3. CASE ty # "NONE"
      <3>1. CASE rng'[s][j].end = e
        BY <2>3, <3>1
      <3>2. CASE \E m \in Live(rng[s]) : rng'[s][j].end <= rng[s][m].end
        BY <1>1, <1>3, <2>1, <2>3, <3>2
      <3> QED
        BY <1>2, <3>1, <3>2 DEF EndsKept
    <2> QED
      BY <2>2, <2>3
  <1> QED
    BY <1>1, <1>2, <1>4, OneSpaceStep

\* A page fault maps a page of a device only where the range is one of devices.
LEMMA FaultShortcut ==
    ASSUME ShortcutInv, NEW s \in Spaces, NEW va \in Pages, page_fault(s, va)
    PROVE  AnonBaseAbove' /\ DeviceDirect'
  <1> DEFINE i == addr_to_range(s, va)
  <1>0. /\ MemInv /\ CacheCurrent /\ cached \in [Spaces -> Ids \cup {NULL}]
        /\ pte \in [Spaces -> [Pages -> Entries \cup {NULL}]]
    BY DEF ShortcutInv, PagemapInv, TypeOK
  <1>1. /\ i # NULL /\ rng' = rng /\ anon_base' = anon_base
        /\ \E f : \E fl : /\ pte' = [pte EXCEPT ![s][va] = Entry(f, fl)]
                          /\ f = Device => rng[s][i].type = "DIRECT"
    <2>1. CASE rng[s][i].type = "DIRECT"
      BY <2>1 DEF page_fault
    <2>2. CASE rng[s][i].type # "DIRECT"
      <3>1. PICK g \in Allocations(s, {va}) :
               pte' = [pte EXCEPT ![s][va] = Entry(g[va], rng[s][i].flags)]
        BY <2>2 DEF page_fault
      <3>2. g[va] # Device
        BY PagemapAssumption DEF Allocations, FreeFrames
      <3> QED
        BY <3>1, <3>2 DEF page_fault
    <2> QED
      BY <2>1, <2>2
  <1>2. i \in Live(rng[s]) /\ va \in Extent(rng[s][i])
    BY <1>0, <1>1, LookupRange
  <1> HIDE DEF i
  <1>3. PICK f, fl : pte' = [pte EXCEPT ![s][va] = Entry(f, fl)]
                     /\ (f = Device => rng[s][i].type = "DIRECT")
    BY <1>1
  <1>4. AnonBaseAbove'
    BY <1>1 DEF ShortcutInv, AnonBaseAbove, Live
  <1>5. DeviceDirect'
    <2> SUFFICES ASSUME NEW x \in Spaces, NEW y \in Pages, pte'[x][y] # NULL,
                        pte'[x][y].frame = Device, NEW j \in Live(rng[x]),
                        y \in Extent(rng[x][j])
                 PROVE  rng[x][j].type = "DIRECT"
      BY <1>1 DEF DeviceDirect, Mapped, Live
    <2>1. CASE x = s /\ y = va
      <3>1. f = Device
        BY <1>0, <1>3, <2>1 DEF Entry
      <3>2. i = j
        <4>1. /\ va \in Int /\ rng[s][i] \in Range /\ rng[s][j] \in Range
          BY <1>0, <1>2, <2>1, PagemapAssumption DEF MemInv, Live, Pages, Heap, Mmap
        <4>2. i # j => rng[s][i].end <= rng[s][j].base \/ rng[s][j].end <= rng[s][i].base
          BY <1>0, <1>2, <2>1 DEF MemInv, RangesDisjoint, Disjoint
        <4> QED
          BY <1>2, <2>1, <4>1, <4>2 DEF Extent, Range
      <3> QED
        BY <1>3, <2>1, <3>1, <3>2
    <2>2. CASE ~(x = s /\ y = va)
      <3>1. pte'[x][y] = pte[x][y]
        BY <1>0, <1>3, <2>2
      <3>2. y \in Mapped(x)
        BY <3>1 DEF Mapped
      <3> QED
        BY <3>1, <3>2 DEF ShortcutInv, DeviceDirect
    <2> QED
      BY <2>1, <2>2
  <1> QED
    BY <1>4, <1>5

\* The pages of a forked, ended or replaced space are no devices.
LEMMA NewSpaceShortcut ==
    ASSUME ShortcutInv, NEW s \in Spaces,
           (\E p \in Spaces : fork(p, s)) \/ zombify(s) \/ user_exec(s)
    PROVE  AnonBaseAbove' /\ DeviceDirect'
  <1>0. /\ rng \in [Spaces -> Ranges] /\ pte \in [Spaces -> [Pages -> Entries \cup {NULL}]]
        /\ anon_base \in [Spaces -> Int] /\ AnonStart \in Int /\ StackTop + 1 <= AnonStart
        /\ HeapTop \in Int /\ Device \notin Frames
    BY PagemapAssumption DEF ShortcutInv, PagemapInv, TypeOK, Ranges, AnonStart, StackTop
  <1>1. CASE zombify(s)
    <2>1. /\ rng' = [rng EXCEPT ![s] = [i \in Ids |-> NULL]]
          /\ pte' = [pte EXCEPT ![s] = [va \in Pages |-> NULL]]
          /\ anon_base' = [anon_base EXCEPT ![s] = AnonStart]
      BY <1>1 DEF zombify
    <2>2. Live(rng'[s]) = {}
      BY <1>0, <2>1 DEF Live
    <2>3. DevicesKept(rng[s], pte[s], rng'[s], pte'[s])
      BY <1>0, <2>1 DEF DevicesKept
    <2> QED
      BY <1>0, <2>1, <2>2, <2>3, OneSpaceStep
  <1>2. CASE user_exec(s)
    <2>1. PICK g \in Allocations(s, {StackTop}) :
             pte' = [pte EXCEPT ![s] = StackEntries(g[StackTop])]
      BY <1>2 DEF user_exec
    <2>2. /\ rng' = [rng EXCEPT ![s] = StackRanges(FirstId)]
          /\ anon_base' = [anon_base EXCEPT ![s] = AnonStart]
      BY <1>2 DEF user_exec
    <2>3. g[StackTop] \in Frames
      BY DEF Allocations, FreeFrames
    <2>4. \A j \in Live(rng'[s]) : rng'[s][j].end = StackTop + 1
      BY <1>0, <2>2 DEF Live, StackRanges, NewRange
    <2>5. DevicesKept(rng[s], pte[s], rng'[s], pte'[s])
      BY <1>0, <2>1, <2>3 DEF DevicesKept, StackEntries, Entry
    <2> QED
      BY <1>0, <2>1, <2>2, <2>4, <2>5, OneSpaceStep
  <1>3. CASE \E p \in Spaces : fork(p, s)
    <2>1. PICK p \in Spaces : fork(p, s)
      BY <1>3
    <2>2. /\ rng' = [rng EXCEPT ![s] = rng[p]]
          /\ anon_base' = [anon_base EXCEPT ![s] = anon_base[p]]
      BY <2>1 DEF fork
    <2> DEFINE D == {owner[f].addr : f \in Copied(p)}
               Original(va) == CHOOSE f \in Copied(p) : owner[f].addr = va
               fl(va) == rng[p][owner[Original(va)].range].flags
    <2>4. PICK new \in Allocations(s, D) :
             pte' = [pte EXCEPT ![s] = [va \in Pages |->
                        IF va \in DOMAIN new THEN Entry(new[va], fl(va)) ELSE NULL]]
      BY <2>1 DEF fork
    <2> HIDE DEF D, fl
    <2>5. \A va \in DOMAIN new : new[va] \in Frames
      BY DEF Allocations, FreeFrames
    <2>6. \A j \in Live(rng'[s]) : rng'[s][j].end <= anon_base'[s] \/ rng'[s][j].end <= HeapTop
      BY <1>0, <2>2 DEF ShortcutInv, AnonBaseAbove
    <2>7. DevicesKept(rng[s], pte[s], rng'[s], pte'[s])
      <3>1. \A va \in Pages : pte'[s][va] # NULL => pte'[s][va].frame # Device
        BY <1>0, <2>4, <2>5 DEF Entry
      <3> QED
        BY <3>1 DEF DevicesKept
    <2> QED
      BY <1>0, <2>2, <2>4, <2>6, <2>7, OneSpaceStep
  <1> QED
    BY <1>1, <1>2, <1>3

LEMMA ShortcutInit == Init => ShortcutInv
  <1> SUFFICES ASSUME Init PROVE AnonBaseAbove /\ DeviceDirect
    BY PagemapInit DEF ShortcutInv
  <1>0. /\ InitSpace \in Spaces /\ FirstFrame \in Frames /\ Device \notin Frames
        /\ AnonStart \in Int /\ StackTop + 1 <= AnonStart /\ StackTop \in Pages
    <2>1. StackTop \in Pages /\ StackTop + 1 <= AnonStart /\ AnonStart \in Int
      BY PagemapAssumption DEF StackTop, AnonStart, Pages, Mmap
    <2>2. Pool[InitSpace][StackTop] \in (SUBSET Frames) \ {{}}
      BY <2>1, PagemapAssumption
    <2> QED
      BY <2>1, <2>2, PagemapAssumption DEF FirstFrame
  <1>1. ASSUME NEW s \in Spaces, NEW i \in Live(rng[s])
        PROVE  rng[s][i].end = StackTop + 1 /\ anon_base[s] = AnonStart
    BY DEF Init, Live, StackRanges, NewRange
  <1>2. ASSUME NEW s \in Spaces, NEW va \in Mapped(s)
        PROVE  pte[s][va].frame = FirstFrame
    BY DEF Init, Mapped, StackEntries, Entry
  <1>3. AnonBaseAbove
    BY <1>0, <1>1 DEF AnonBaseAbove
  <1>4. DeviceDirect
    BY <1>0, <1>2 DEF DeviceDirect
  <1> QED
    BY <1>3, <1>4

LEMMA ShortcutNext == ShortcutInv /\ [Next]_vars => ShortcutInv'
  <1> SUFFICES ASSUME ShortcutInv, [Next]_vars PROVE ShortcutInv'
    OBVIOUS
  <1>0. /\ PagemapInv /\ MemInv /\ CacheCurrent /\ cached \in [Spaces -> Ids \cup {NULL}]
        /\ anon_base \in [Spaces -> Int] /\ brk \in [Spaces -> Int]
    BY DEF ShortcutInv, PagemapInv, TypeOK
  <1>1. PagemapInv'
    BY <1>0, PagemapNext
  <1>2. MemInv' /\ anon_base' \in [Spaces -> Int]
    BY <1>1 DEF PagemapInv, TypeOK
  <1> DEFINE Kept == AnonBaseAbove' /\ DeviceDirect'
  <1>3. CASE UNCHANGED vars
    <2>1. rng' = rng /\ pte' = pte /\ anon_base' = anon_base
      BY <1>3 DEF vars
    <2>2. Kept
      BY <2>1 DEF ShortcutInv, AnonBaseAbove, DeviceDirect, Mapped, Live
    <2> QED
      BY <1>1, <2>2 DEF ShortcutInv
  <1>4. CASE Next
    <2>0. /\ \A p \in Points : p \in Int
          /\ \A kind \in Kinds : kind[1] \in Types /\ kind[2] \in Flags
          /\ \A len \in 1 .. MmapTop - MmapBase : len \in Int /\ 0 < len
          /\ HeapTop \in Int
      BY PagemapAssumption DEF Points
    <2>1. ASSUME NEW s \in Spaces, NEW len \in 1 .. MmapTop - MmapBase, NEW kind \in Kinds,
                 mmap(s, len, kind[2], kind[1])
          PROVE  Kept
      <3> DEFINE b == anon_base[s]
                 e == b + len
                 anon == kind[1] = "ANONYMOUS"
      <3>1. /\ s \in alive /\ anon_base' = [anon_base EXCEPT ![s] = e]
            /\ add_range(s, b, e, kind[2], kind[1], anon, anon)
        BY <2>1 DEF mmap
      <3>2. /\ b \in Int /\ e \in Int /\ b < e /\ anon \in BOOLEAN
            /\ kind[1] \in Types /\ kind[2] \in Flags /\ b = anon_base[s]
        BY <1>0, <2>0
      <3> HIDE DEF b, e, anon
      <3>3. Callable(b, e, kind[2], kind[1])
        BY <3>2 DEF Callable
      <3>4. /\ \A x \in Spaces \ {s} : anon_base'[x] = anon_base[x]
            /\ anon_base'[s] = e /\ anon_base[s] <= anon_base'[s] /\ e <= anon_base'[s]
        BY <1>0, <3>1, <3>2
      <3> QED
        BY <1>2, <3>1, <3>2, <3>3, <3>4, AddRangeShortcut
    <2>2. ASSUME NEW s \in Spaces, NEW len \in 1 .. MmapTop - MmapBase, mmap_refused(s, len)
          PROVE  Kept
      <3>1. rng' = rng /\ pte' = pte /\ anon_base' = [anon_base EXCEPT ![s] = @ + len]
        BY <2>2 DEF mmap_refused
      <3>2. \A j \in Live(rng'[s]) : rng'[s][j].end <= anon_base'[s] \/ rng'[s][j].end <= HeapTop
        <4>1. anon_base[s] <= anon_base'[s] /\ anon_base[s] \in Int /\ anon_base'[s] \in Int
          BY <1>0, <2>0, <3>1
        <4>2. \A j \in Live(rng[s]) : rng[s][j].end \in Int
          BY <1>0 DEF MemInv, Live, Range
        <4> QED
          BY <3>1, <4>1, <4>2 DEF ShortcutInv, AnonBaseAbove
      <3>3. DevicesKept(rng[s], pte[s], rng'[s], pte'[s])
        BY <3>1 DEF DevicesKept, Live
      <3> QED
        BY <1>0, <3>1, <3>2, <3>3, OneSpaceStep
    <2>3. ASSUME NEW s \in Spaces, NEW b \in Points, NEW e \in Points, NEW kind \in Kinds,
                 mmap_fixed(s, b, e, kind[2], kind[1])
          PROVE  Kept
      <3> DEFINE anon == kind[1] = "ANONYMOUS"
                 keep == FALSE
      <3>1. /\ s \in alive /\ b < e
            /\ anon_base' = [anon_base EXCEPT ![s] = IF @ < e THEN e ELSE @]
            /\ add_range(s, b, e, kind[2], kind[1], anon, keep)
        BY <2>3 DEF mmap_fixed
      <3>2. anon \in BOOLEAN /\ keep \in BOOLEAN /\ b \in Int /\ e \in Int
        BY <2>0
      <3> HIDE DEF anon, keep
      <3>3. Callable(b, e, kind[2], kind[1])
        BY <2>0, <3>1 DEF Callable
      <3>4. /\ \A x \in Spaces \ {s} : anon_base'[x] = anon_base[x]
            /\ anon_base[s] <= anon_base'[s] /\ e <= anon_base'[s]
        BY <1>0, <3>1, <3>2
      <3> QED
        BY <1>2, <3>1, <3>2, <3>3, <3>4, AddRangeShortcut
    <2>4. ASSUME NEW s \in Spaces, NEW b \in Points, NEW e \in Points, NEW fl \in Flags,
                 mprotect(s, b, e, fl)
          PROVE  Kept
      <3> DEFINE i == addr_to_range(s, b)
                 yes == TRUE
                 ty == rng[s][i].type
      <3>1. /\ s \in alive /\ b < e /\ anon_base' = anon_base
            /\ i # NULL /\ e <= rng[s][i].end /\ add_range(s, b, e, fl, ty, yes, yes)
        BY <2>4 DEF mprotect
      <3>2. i \in Live(rng[s])
        BY <1>0, <3>1, LookupRange
      <3> HIDE DEF i
      <3>3. ty \in Types /\ rng[s][i].end \in Int /\ yes \in BOOLEAN
        BY <1>0, <3>2 DEF MemInv, Live, Range
      <3>4. rng[s][i].end <= anon_base[s] \/ rng[s][i].end <= HeapTop
        BY <3>2 DEF ShortcutInv, AnonBaseAbove
      <3> HIDE DEF yes, ty
      <3>5. Callable(b, e, fl, ty) /\ b \in Int /\ e \in Int
        BY <2>0, <3>1, <3>3 DEF Callable
      <3>6. e <= anon_base[s] \/ e <= HeapTop
        BY <1>0, <2>0, <3>1, <3>3, <3>4
      <3>7. /\ \A x \in Spaces \ {s} : anon_base'[x] = anon_base[x]
            /\ anon_base[s] <= anon_base'[s] /\ (e <= anon_base'[s] \/ e <= HeapTop)
        BY <1>0, <3>1, <3>6
      <3> QED
        BY <1>2, <3>1, <3>3, <3>5, <3>7, AddRangeShortcut
    <2>5. ASSUME NEW s \in Spaces, NEW b \in Points, NEW e \in Points, munmap(s, b, e)
          PROVE  Kept
      <3> DEFINE no == FALSE
                 ty == "NONE"
      <3>1. /\ s \in alive /\ b <= e
            /\ anon_base' = [anon_base EXCEPT ![s] = IF @ = e THEN b ELSE @]
            /\ add_range(s, b, e, NULL, ty, no, no) /\ no \in BOOLEAN /\ ty = "NONE"
        BY <2>5 DEF munmap, InArea
      <3> HIDE DEF no, ty
      <3>2. Callable(b, e, NULL, ty) /\ b \in Int /\ e \in Int
        BY <2>0, <3>1 DEF Callable
      <3>3. /\ \A x \in Spaces \ {s} : anon_base'[x] = anon_base[x]
            /\ anon_base'[s] = IF anon_base[s] = e THEN b ELSE anon_base[s]
        BY <1>0, <3>1
      <3> QED
        BY <1>2, <3>1, <3>2, <3>3, AddRangeShortcut
    <2>6. ASSUME NEW s \in Spaces, NEW b \in Points, NEW e \in Points, madvise(s, b, e)
          PROVE  Kept
      <3> DEFINE gone == Between(b, e) \cap Mapped(s)
                 to == << >>
      <3>1. invalidate_pages(s, rng[s], gone, to) /\ anon_base' = anon_base
        BY <2>6 DEF madvise
      <3>2. DOMAIN to = {} /\ rng[s] \in Ranges
        BY <1>0 DEF MemInv, Ranges
      <3> HIDE DEF gone, to
      <3>3. /\ rng'[s] = rng[s]
            /\ \A x \in Spaces \ {s} : rng'[x] = rng[x] /\ pte'[x] = pte[x]
            /\ \A va \in Pages : /\ va \in gone => pte'[s][va] = NULL
                                 /\ va \notin gone => pte'[s][va] = pte[s][va]
        <4>1. /\ MemInv /\ DOMAIN to \subseteq Mapped(s)
              /\ \A va \in DOMAIN to : to[va] \in Ids /\ rng[s][to[va]] # NULL
          BY <1>0, <3>2
        <4>2. /\ rng'[s] = rng[s] /\ \A x \in Spaces \ {s} : rng'[x] = rng[x] /\ pte'[x] = pte[x]
              /\ \A va \in Pages :
                    /\ va \in gone => pte'[s][va] = NULL
                    /\ va \notin DOMAIN to /\ va \notin gone => pte'[s][va] = pte[s][va]
          BY <3>1, <3>2, <4>1, InvalidateEffect
        <4> QED
          BY <3>2, <4>2
      <3>4. DevicesKept(rng[s], pte[s], rng'[s], pte'[s])
        BY <3>3 DEF DevicesKept, Live
      <3>5. \A j \in Live(rng'[s]) : rng'[s][j].end <= anon_base'[s] \/ rng'[s][j].end <= HeapTop
        BY <3>1, <3>3 DEF ShortcutInv, AnonBaseAbove
      <3> QED
        BY <3>1, <3>3, <3>4, <3>5, OneSpaceStep
    <2>7. ASSUME NEW s \in Spaces, NEW new \in HeapBase .. HeapTop, set_brk(s, new)
          PROVE  Kept
      <3> DEFINE old == brk[s]
                 yes == TRUE
                 no == FALSE
                 anon == "ANONYMOUS"
                 ty == "NONE"
      <3>1. /\ s \in alive /\ new # old /\ anon_base' = anon_base
            /\ \/ new > old /\ add_range(s, old, new, StackFlags, anon, yes, yes)
               \/ ~(new > old) /\ add_range(s, new, old, NULL, ty, no, no)
            /\ yes \in BOOLEAN /\ no \in BOOLEAN /\ ty = "NONE"
        BY <2>7 DEF set_brk
      <3>2. /\ old \in Int /\ new \in Int /\ new <= HeapTop
            /\ anon \in Types /\ StackFlags \in Flags
        BY <1>0, PagemapAssumption DEF Types
      <3>3. /\ \A x \in Spaces \ {s} : anon_base'[x] = anon_base[x]
            /\ anon_base'[s] = anon_base[s] /\ anon_base[s] <= anon_base'[s]
        BY <1>0, <3>1
      <3> HIDE DEF old, yes, no, anon, ty
      <3>4. CASE new > old /\ add_range(s, old, new, StackFlags, anon, yes, yes)
        <4>1. Callable(old, new, StackFlags, anon)
          BY <3>2, <3>4 DEF Callable
        <4> QED
          BY <1>2, <3>1, <3>2, <3>3, <3>4, <4>1, AddRangeShortcut
      <3>5. CASE ~(new > old) /\ add_range(s, new, old, NULL, ty, no, no)
        <4>1. Callable(new, old, NULL, ty)
          BY <3>1, <3>2, <3>5 DEF Callable
        <4> QED
          BY <1>2, <3>1, <3>2, <3>3, <3>5, <4>1, AddRangeShortcut
      <3> QED
        BY <3>1, <3>4, <3>5
    <2>8. ASSUME NEW s \in Spaces, NEW va \in Pages, page_fault(s, va)
          PROVE  Kept
      BY <2>8, FaultShortcut
    <2>9. ASSUME NEW s \in Spaces,
                 (\E c \in Spaces : fork(c, s)) \/ zombify(s) \/ user_exec(s)
          PROVE  Kept
      BY <2>9, NewSpaceShortcut
    <2> HIDE DEF Kept
    <2>10. Kept
      BY <1>4, <2>1, <2>2, <2>3, <2>4, <2>5, <2>6, <2>7, <2>8, <2>9 DEF Next
    <2> QED
      BY <1>1, <2>10 DEF Kept, ShortcutInv
  <1> QED
    BY <1>3, <1>4

\* The cached range of a lookup exists, and mmap without MAP_FIXED never takes
\* addresses that a range already uses.
THEOREM LookupSafe == Spec => []LookupSound
  <1>1. ShortcutInv => LookupSound
    BY DEF ShortcutInv, PagemapInv, LookupSound
  <1> QED
    BY <1>1, ShortcutInit, ShortcutNext, PTL DEF Spec
-----------------------------------------------------------------------------
\* The range that mprotect finds is the only one it can drop, and add_range keeps
\* that one when it is all of [b, e).
LEMMA MprotectStep ==
    ASSUME PagemapInv, NEW s \in Spaces, NEW b \in Points, NEW e \in Points,
           NEW fl \in Flags, mprotect(s, b, e, fl)
    PROVE  PagesKept(pte[s], pte'[s])
  <1> DEFINE i == addr_to_range(s, b)
             yes == TRUE
             ty == rng[s][i].type
  <1>0. MemInv /\ CacheCurrent /\ cached \in [Spaces -> Ids \cup {NULL}] /\ b \in Int /\ e \in Int
    BY PagemapAssumption DEF PagemapInv, TypeOK, Points
  <1>1. /\ s \in alive /\ b < e /\ i # NULL /\ e <= rng[s][i].end
        /\ add_range(s, b, e, fl, ty, yes, yes)
    BY DEF mprotect
  <1>2. i \in Live(rng[s]) /\ b \in Extent(rng[s][i])
    BY <1>0, <1>1, LookupRange
  <1> HIDE DEF i
  <1>3. /\ ty \in Types /\ yes \in BOOLEAN /\ yes /\ "NONE" \notin Types
        /\ \A j \in Live(rng[s]) : rng[s][j] \in Range /\ rng[s][j].base < rng[s][j].end
    BY <1>0, <1>2 DEF MemInv, RangesDisjoint, Disjoint, Live, Range, Types
  <1>4. ty = rng[s][i].type
    OBVIOUS
  <1> HIDE DEF yes, ty
  <1>5. Callable(b, e, fl, ty)
    BY <1>1, <1>3 DEF Callable
  <1>6. ASSUME NEW j \in Live(rng[s]), ChangesFlags(s, j, fl)
        PROVE  PagesKept(pte[s], pte'[s])
    BY <1>0, <1>1, <1>6, FlagsEffect
  <1>7. ASSUME ~\E j \in Live(rng[s]) : IsExact(rng[s][j], b, e, ty)
        PROVE  Dropped(s, b, e) = {}
    <2> SUFFICES ASSUME NEW j \in Live(rng[s]), Covers(rng[s][j], b, e)
                 PROVE  FALSE
      BY DEF Dropped
    <2>1. j = i
      <3>1. j # i => \/ rng[s][j].end <= rng[s][i].base
                     \/ rng[s][i].end <= rng[s][j].base
        BY <1>0, <1>2 DEF MemInv, RangesDisjoint, Disjoint
      <3>2. rng[s][i].base <= b
        BY <1>2 DEF Extent
      <3>3. b <= rng[s][j].base /\ rng[s][j].end <= e
        BY DEF Covers
      <3>4. /\ rng[s][j].base \in Int /\ rng[s][j].end \in Int /\ rng[s][i].base \in Int
            /\ rng[s][i].end \in Int /\ rng[s][j].base < rng[s][j].end
        BY <1>2, <1>3 DEF Range
      <3> QED
        BY <1>0, <1>1, <3>1, <3>2, <3>3, <3>4
    <2>2. rng[s][i].base = b /\ rng[s][i].end = e
      <3>1. rng[s][i].base <= b /\ b <= rng[s][i].base /\ rng[s][i].end <= e
        BY <1>2, <2>1 DEF Extent, Covers
      <3>2. rng[s][i].base \in Int /\ rng[s][i].end \in Int
        BY <1>2, <1>3 DEF Range
      <3> QED
        BY <1>0, <1>1, <3>1, <3>2
    <2> QED
      BY <1>2, <1>4, <1>7, <2>2 DEF IsExact
  <1>8. ASSUME Dropped(s, b, e) = {}, NEW k \in Ids, NEW j \in Ids, NEW r \in Range,
               Placing(s, b, e, k, j, r)
        PROVE  PagesKept(pte[s], pte'[s])
    BY <1>0, <1>1, <1>8, PlacedEffect
  <1>9. \/ \E j \in Live(rng[s]) : ChangesFlags(s, j, fl)
        \/ /\ ~\E j \in Live(rng[s]) : IsExact(rng[s][j], b, e, ty)
           /\ \E k, j \in Ids, r \in Range : Placing(s, b, e, k, j, r)
    <2>1. ty # "NONE"
      BY <1>3
    <2>2. \/ /\ yes /\ ty # "NONE" /\ fl \in Flags
             /\ \E j \in Live(rng[s]) : IsExact(rng[s][j], b, e, ty) /\ ChangesFlags(s, j, fl)
          \/ /\ ty # "NONE" /\ b < e
             /\ ~\E j \in Live(rng[s]) : yes /\ IsExact(rng[s][j], b, e, ty)
             /\ \E k, j \in Ids, r \in Range : Placing(s, b, e, k, j, r)
          \/ /\ ty = "NONE" /\ b <= e
             /\ \E k \in Ids : Removing(s, b, e, k)
      BY <1>0, <1>1, <1>3, <1>5, AddRangeCases
    <2> QED
      BY <1>3, <2>1, <2>2
  <1> QED
    BY <1>6, <1>7, <1>8, <1>9

\* mprotect of any part of any range, split and merged as it must be, takes no
\* page of memory away and puts none elsewhere.
THEOREM MprotectSafe == Spec => MprotectKeepsPages
  <1>1. ASSUME PagemapInv, [Next]_vars
        PROVE  [\A s \in Spaces : LosesPage(s) =>
                  ~\E b, e \in Points, fl \in Flags : mprotect(s, b, e, fl)]_vars
    <2> SUFFICES ASSUME NEW s \in Spaces, LosesPage(s), NEW b \in Points, NEW e \in Points,
                        NEW fl \in Flags, mprotect(s, b, e, fl)
                 PROVE  FALSE
      OBVIOUS
    <2>1. PagesKept(pte[s], pte'[s])
      BY <1>1, MprotectStep
    <2> QED
      BY <2>1 DEF LosesPage, PagesKept, Mapped
  <1> QED
    BY <1>1, PagemapSafe, PTL DEF Spec, MprotectKeepsPages

\* After fork the child has a page of its own, with the same flags, wherever the
\* parent had private memory.
THEOREM ForkSafe == Spec => ForkCopies
  <1> DEFINE Copy(s, c, va) ==
                \/ \E i \in Live(rng[s]) : va \in Extent(rng[s][i]) /\ rng[s][i].type = "DIRECT"
                \/ /\ pte'[c][va] # NULL /\ pte'[c][va].flags = pte[s][va].flags
                   /\ pte'[c][va].frame # pte'[s][va].frame
  <1>1. ASSUME ShortcutInv, NEW s \in Spaces, NEW c \in Spaces, fork(s, c), NEW va \in Mapped(s)
        PROVE  Copy(s, c, va)
    <2> DEFINE f == pte[s][va].frame
               o == owner[f].range
               Original(x) == CHOOSE h \in Copied(s) : owner[h].addr = x
    <2>0. MemInv /\ pte \in [Spaces -> [Pages -> Entries \cup {NULL}]]
      BY <1>1 DEF ShortcutInv, PagemapInv, TypeOK
    <2>1. /\ va \in Pages
          /\ \A i, j \in Live(rng[s]) :
                va \in Extent(rng[s][i]) /\ va \in Extent(rng[s][j]) => i = j
          /\ \E i \in Live(rng[s]) : va \in Extent(rng[s][i]) /\ pte[s][va].flags = rng[s][i].flags
          /\ f # Device => /\ f \in Frames /\ owner[f] \in Owners
                           /\ owner[f].space = s /\ owner[f].addr = va
                           /\ o \in Live(rng[s]) /\ va \in Extent(rng[s][o])
      BY <2>0, EntryFacts
    <2>2. CASE f = Device
      BY <1>1, <2>1, <2>2 DEF ShortcutInv, DeviceDirect
    <2>3. CASE f # Device /\ rng[s][o].type = "DIRECT"
      BY <2>1, <2>3
    <2>4. CASE f # Device /\ rng[s][o].type # "DIRECT"
      <3>1. s # c /\ rng' = [rng EXCEPT ![c] = rng[s]]
        BY <1>1 DEF fork
      <3>2. f \in Copied(s)
        BY <2>1, <2>4, PagemapAssumption DEF Copied
      <3>3. Original(va) \in Copied(s) /\ owner[Original(va)].addr = va
        BY <2>1, <2>4, <3>2
      <3>4. Original(va) = f
        <4> HIDE DEF Original
        <4> QED
          BY <2>0, <2>1, <2>4, <3>2, <3>3, CopiedPages
      <3> DEFINE A == {owner[h].addr : h \in Copied(s)}
      <3>5. PICK new \in Allocations(c, A) :
               pte' = [pte EXCEPT ![c] = [x \in Pages |->
                          IF x \in DOMAIN new
                          THEN Entry(new[x], rng[s][owner[Original(x)].range].flags)
                          ELSE NULL]]
        BY <1>1 DEF fork
      <3>6. va \in A
        BY <2>1, <2>4, <3>2
      <3>7. DOMAIN new = A /\ new[va] \in Frames /\ owner[new[va]] = NULL
        <4> HIDE DEF A
        <4> QED
          BY <3>6 DEF Allocations, FreeFrames
      <3> HIDE DEF Original, A
      <3>8. /\ pte'[c][va] = Entry(new[va], rng[s][o].flags)
            /\ pte'[s][va] = pte[s][va]
        BY <2>0, <2>1, <3>1, <3>4, <3>5, <3>6, <3>7
      <3>9. pte[s][va].flags = rng[s][o].flags /\ rng[s][o].flags \in Flags
        <4>1. rng[s][o] \in Range
          BY <2>0, <2>1, <2>4 DEF MemInv, Live
        <4>2. PICK i \in Live(rng[s]) : va \in Extent(rng[s][i])
                                       /\ pte[s][va].flags = rng[s][i].flags
          BY <2>1
        <4>3. i = o
          BY <2>1, <2>4, <4>2
        <4> QED
          BY <4>1, <4>2, <4>3 DEF Range
      <3>10. Entry(new[va], rng[s][o].flags) # NULL
        BY <3>7, <3>9, PagemapAssumption DEF Entry, Entries
      <3>11. new[va] # f
        BY <2>1, <2>4, <3>7, PagemapAssumption
      <3>12. Entry(new[va], rng[s][o].flags).flags = rng[s][o].flags
             /\ Entry(new[va], rng[s][o].flags).frame = new[va]
        BY DEF Entry
      <3> QED
        BY <3>8, <3>9, <3>10, <3>11, <3>12
    <2> QED
      BY <2>2, <2>3, <2>4
  <1>2. ASSUME ShortcutInv, [Next]_vars
        PROVE  [\A s, c \in Spaces : fork(s, c) => \A va \in Mapped(s) : Copy(s, c, va)]_vars
    BY <1>1, <1>2
  <1> QED
    BY <1>2, ShortcutInit, ShortcutNext, PTL DEF Spec, ForkCopies
=============================================================================
