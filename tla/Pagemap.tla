------------------------------- MODULE Pagemap -------------------------------
(***************************************************************************)
(* Address spaces: the mapped ranges, the page tables and the page lists   *)
(* of mem/vmm.cpp, with the calls that change them.                        *)
(*                                                                         *)
(* Addresses are page numbers; a range covers base .. end - 1.  A page is  *)
(* mapped on its first access.  The page it gets is linked into page_list  *)
(* of its range, which fork copies and the range's destructor frees, while *)
(* access goes through the page table: the two must agree, whatever has    *)
(* trimmed, split, merged and protected the ranges since.                  *)
(*                                                                         *)
(* range_list is a set here.  Its order decides only with which of two     *)
(* neighbours a new range is merged, and the model takes either.  Offsets  *)
(* into files and devices, the contents of pages and the page table pages  *)
(* are left out, and so are shared mappings of a memfd (DIRECT_VIRTUAL).   *)
(***************************************************************************)
EXTENDS Integers, FiniteSets

CONSTANTS Spaces, InitSpace,
          Frames,      \* the pages of pmm
          Pool,        \* which of them alloc_page may return for a page of a
                       \* space: in the code, any
          Ids,         \* the MappedRange objects of a space; a bound
          NULL,
          Device,      \* physical memory that pmm does not own
          HeapBase, HeapTop, MmapBase, MmapTop,  \* the areas of brk and mmap
          Flags,       \* the values of page_flags
          Kinds,       \* the types and flags that mmap is called with
          StackFlags,  \* PAGE_WRITABLE | PAGE_NO_EXECUTE
          StackPages,  \* user_stack_size
          MaxSteps     \* bound: steps

Heap == HeapBase .. HeapTop - 1
Mmap == MmapBase .. MmapTop - 1
Pages == Heap \cup Mmap
Types == {"DIRECT", "ANONYMOUS", "FILE"}

\* A range, a page table entry, and the list and address of a page in use.
Range == [base : Int, end : Int, flags : Flags, type : Types]
Entries == [frame : Frames \cup {Device}, flags : Flags]
Owners == [space : Spaces, range : Ids, addr : Pages]

ASSUME PagemapAssumption ==
    /\ HeapBase \in Int /\ HeapTop \in Int /\ MmapBase \in Int /\ MmapTop \in Int
    /\ HeapBase <= HeapTop /\ HeapTop < MmapBase /\ MmapBase + StackPages + 1 <= MmapTop
    /\ StackPages \in Nat \ {0}
    /\ Kinds \subseteq Types \X Flags
    /\ MaxSteps \in Nat /\ Ids # {}
    /\ Pool \in [Spaces -> [Pages -> (SUBSET Frames) \ {{}}]]
    /\ InitSpace \in Spaces /\ StackFlags \in Flags
    /\ NULL \notin Ids /\ NULL \notin Range /\ NULL \notin Entries /\ NULL \notin Owners
    /\ Device \notin Frames

VARIABLES alive,      \* the spaces that exist
          rng,        \* range_list: the range of each id, or NULL
          pte,        \* the page table entries: a frame and flags, or NULL
          owner,      \* the page list and mapped_addr of a frame, NULL: free
          cached,     \* Pagemap::cached_range_lookup
          anon_base,  \* Process::mmap_anon_base
          brk,        \* Process::brk
          steps       \* the number of steps so far

vars == <<alive, rng, pte, owner, cached, anon_base, brk, steps>>

NewRange(b, e, fl, ty) == [base |-> b, end |-> e, flags |-> fl, type |-> ty]

\* The pages of a range, and of an argument [b, e).
Extent(r) == {va \in Pages : r.base <= va /\ va < r.end}
Between(b, e) == {va \in Pages : b <= va /\ va < e}

Live(R) == {i \in Ids : R[i] # NULL}
Mapped(s) == {va \in Pages : pte[s][va] # NULL}
FreeFrames == {f \in Frames : owner[f] = NULL}

\* An object that `new` may return is no range and not cached either: memory
\* is not used again.
FreshIds(s) == {i \in Ids : rng[s][i] = NULL /\ cached[s] # i}

\* pmm::alloc_page for the pages D of space s; running out of memory is a
\* panic, and no step.
Allocations(s, D) ==
    {g \in [D -> FreeFrames] : /\ \A x \in D : g[x] \in Pool[s][x]
                               /\ \A x, y \in D : g[x] = g[y] => x = y}

Entry(f, fl) == [frame |-> f, flags |-> fl]
Owner(s, i, va) == [space |-> s, range |-> i, addr |-> va]

\* A pagemap as user_exec leaves it: the stack, whose last page it has written.
\* One page guards the stack.
StackTop == MmapBase + StackPages - 1
AnonStart == MmapBase + StackPages + 1

StackRanges(i) ==
    [j \in Ids |-> IF j = i THEN NewRange(MmapBase, StackTop + 1, StackFlags, "ANONYMOUS")
                            ELSE NULL]
StackEntries(f) ==
    [va \in Pages |-> IF va = StackTop THEN Entry(f, StackFlags) ELSE NULL]

FirstId == CHOOSE i \in Ids : TRUE
FirstFrame == CHOOSE f \in Pool[InitSpace][StackTop] : TRUE

\* The first process after its first user_exec.
Init ==
    /\ alive = {InitSpace}
    /\ rng = [s \in Spaces |-> IF s = InitSpace THEN StackRanges(FirstId)
                                                ELSE [i \in Ids |-> NULL]]
    /\ pte = [s \in Spaces |-> IF s = InitSpace THEN StackEntries(FirstFrame)
                                                ELSE [va \in Pages |-> NULL]]
    /\ owner = [f \in Frames |-> IF f = FirstFrame
                                 THEN Owner(InitSpace, FirstId, StackTop) ELSE NULL]
    /\ cached = [s \in Spaces |-> NULL]
    /\ anon_base = [s \in Spaces |-> AnonStart]
    /\ brk = [s \in Spaces |-> HeapBase]
    /\ steps = 0
-----------------------------------------------------------------------------
\* invalidate_page for many pages of space s at once.  The pages of `gone' are
\* freed (range is nullptr); a page va of DOMAIN to goes to the page list of
\* range to[va] and takes its flags, and a page that pmm does not own is
\* replaced by a new one.  Frames still listed by a range that R no longer
\* has are freed by its destructor.
invalidate_pages(s, R, gone, to) ==
    LET Foreign == {va \in DOMAIN to : pte[s][va].frame = Device}
        new     == CHOOSE g \in Allocations(s, Foreign) : TRUE
        frame   == [va \in DOMAIN to |->
                      IF va \in Foreign THEN new[va] ELSE pte[s][va].frame]
        Freed   == {f \in Frames : \/ \E va \in gone : pte[s][va].frame = f
                                   \/ /\ owner[f] # NULL /\ owner[f].space = s
                                      /\ R[owner[f].range] = NULL}
    IN  /\ Allocations(s, Foreign) # {}
        /\ rng' = [rng EXCEPT ![s] = R]
        /\ pte' = [pte EXCEPT ![s] =
              [va \in Pages |-> IF va \in gone THEN NULL
                                ELSE IF va \in DOMAIN to
                                THEN Entry(frame[va], R[to[va]].flags)
                                ELSE pte[s][va]]]
        /\ owner' = [f \in Frames |->
              IF \E va \in DOMAIN to : frame[va] = f
              THEN LET va == CHOOSE va \in DOMAIN to : frame[va] = f
                   IN  Owner(s, to[va], va)
              ELSE IF f \in Freed THEN NULL ELSE owner[f]]

Overlaps(r, b, e) == b < r.end /\ r.base < e
Covers(r, b, e) == b <= r.base /\ r.end <= e
Splits(r, b, e) == r.base < b /\ e < r.end

\* Mutant: a range that begins inside [b, e) keeps its base.
Trimmed_front(r, b, e) ==
    IF ~Overlaps(r, b, e) THEN r
    ELSE IF Covers(r, b, e) THEN NULL
    ELSE IF b <= r.base THEN r
    ELSE [r EXCEPT !.end = b]

\* What is left of range r outside [b, e); for a split, what is left below b.
Trimmed(r, b, e) ==
    IF ~Overlaps(r, b, e) THEN r
    ELSE IF Covers(r, b, e) THEN NULL
    ELSE IF b <= r.base THEN [r EXCEPT !.base = e]
    ELSE [r EXCEPT !.end = b]

\* The ranges once all overlaps with [b, e) are resolved; the upper part of a
\* range that is split becomes range k.
Resolved(R, b, e, k) ==
    [i \in Ids |->
        IF R[i] # NULL THEN Trimmed(R[i], b, e)
        ELSE IF i = k /\ \E j \in Live(R) : Splits(R[j], b, e)
        THEN LET j == CHOOSE j \in Live(R) : Splits(R[j], b, e)
             IN  [R[j] EXCEPT !.base = e]
        ELSE NULL]

\* The ranges that an anonymous range [b, e) may be merged with.
Neighbours(R, b, e, fl) ==
    {i \in Live(R) : /\ R[i].type = "ANONYMOUS" /\ R[i].flags = fl
                     /\ R[i].end = b \/ R[i].base = e}

Grown(r, b, e) == IF r.end = b THEN [r EXCEPT !.end = e] ELSE [r EXCEPT !.base = b]

\* add_range finds exactly the range it is given and keeps its pages.
IsExact(r, b, e, ty) == r.base = b /\ r.end = e /\ r.type = ty

\* Mutant: the entries keep the old flags.
ChangesFlags_stale(s, i, fl) ==
    invalidate_pages(s, [rng[s] EXCEPT ![i].flags = fl], {}, << >>)

ChangesFlags(s, i, fl) ==
    invalidate_pages(s, [rng[s] EXCEPT ![i].flags = fl], {},
        [va \in IF rng[s][i].flags = fl THEN {} ELSE Extent(rng[s][i]) \cap Mapped(s) |-> i])

\* Two new objects for add_range; which ones makes no difference.
NewIds(s) ==
    LET F == FreshIds(s) IN
    IF \E x, y \in F : x # y THEN {CHOOSE p \in F \X F : p[1] # p[2]} ELSE {}

\* Mutant: the pages above a split stay on the list of the lower range.
Replaces_unmoved(s, b, e, fl, ty, merge, k, n) ==
    /\ ty = "NONE"
    /\ invalidate_pages(s, Resolved(rng[s], b, e, k), Between(b, e) \cap Mapped(s), << >>)

\* The pages that move when [b, e) is replaced: those of a range that goes as a
\* whole, those above a split, and the others in [b, e).
Dropped(s, b, e) ==
    {va \in Mapped(s) : \E i \in Live(rng[s]) :
        va \in Extent(rng[s][i]) /\ Overlaps(rng[s][i], b, e) /\ Covers(rng[s][i], b, e)}
Above(s, R, k) == IF R[k] = NULL THEN {} ELSE Extent(R[k]) \cap Mapped(s)
Inside(s, b, e) ==
    IF \E i \in Live(rng[s]) : Overlaps(rng[s][i], b, e)
    THEN (Between(b, e) \cap Mapped(s)) \ Dropped(s, b, e) ELSE {}

\* Otherwise add_range resolves the overlaps, making range k of the upper part
\* of a range that is split, and then merges, unmaps (NONE) or adds range n.
\* The pages of ranges that disappear are freed first; the other pages in
\* [b, e) move to the range that now covers them, as do those above a split.
Replaces(s, b, e, fl, ty, merge, k, n) ==
    LET R     == Resolved(rng[s], b, e, k)
        above == Above(s, R, k)
        To(i) == [va \in above \cup Inside(s, b, e) |-> IF va \in above THEN k ELSE i]
        near  == IF merge /\ ty = "ANONYMOUS" THEN Neighbours(R, b, e, fl) ELSE {}
    IN  \/ \E i \in near :
              invalidate_pages(s, [R EXCEPT ![i] = Grown(@, b, e)], Dropped(s, b, e), To(i))
        \/ /\ ty = "NONE"
           /\ invalidate_pages(s, R, Between(b, e) \cap Mapped(s), [va \in above |-> k])
        \/ /\ ty # "NONE" /\ near = {}
           /\ invalidate_pages(s, [R EXCEPT ![n] = NewRange(b, e, fl, ty)],
                               Dropped(s, b, e), To(n))

\* Mutant: the cached range is not forgotten.
add_range_cached(s, b, e, fl, ty, merge, keep_pages) ==
    /\ UNCHANGED cached
    /\ \E p \in NewIds(s) : Replaces(s, b, e, fl, ty, merge, p[1], p[2])

add_range(s, b, e, fl, ty, merge, keep_pages) ==
    /\ cached' = [cached EXCEPT ![s] = NULL]
    /\ \/ \E i \in Live(rng[s]) :
             keep_pages /\ IsExact(rng[s][i], b, e, ty) /\ ChangesFlags(s, i, fl)
       \/ /\ ~\E i \in Live(rng[s]) : keep_pages /\ IsExact(rng[s][i], b, e, ty)
          /\ \E p \in NewIds(s) : Replaces(s, b, e, fl, ty, merge, p[1], p[2])
-----------------------------------------------------------------------------
\* The arguments [b, e) of a call lie in one area: the areas are 2^44 bytes
\* apart, and a call that reached from one into the other would walk billions
\* of page table entries.
InArea(b, e) ==
    /\ b <= e
    /\ \/ HeapBase <= b /\ e <= HeapTop
       \/ MmapBase <= b /\ e <= MmapTop

\* mmap without MAP_FIXED; MAP_ANONYMOUS ranges are merged and keep pages.
mmap(s, len, fl, ty) ==
    LET b == anon_base[s] IN
    /\ s \in alive /\ b + len <= MmapTop
    /\ add_range(s, b, b + len, fl, ty, ty = "ANONYMOUS", ty = "ANONYMOUS")
    /\ anon_base' = [anon_base EXCEPT ![s] = b + len]
    /\ UNCHANGED <<alive, brk>>

\* mmap of a descriptor that does not exist or may not be read: the address
\* is already taken from mmap_anon_base.
mmap_refused(s, len) ==
    /\ s \in alive /\ anon_base[s] + len <= MmapTop
    /\ anon_base' = [anon_base EXCEPT ![s] = @ + len]
    /\ UNCHANGED <<alive, rng, pte, owner, cached, brk>>

mmap_fixed(s, b, e, fl, ty) ==
    /\ s \in alive /\ b < e /\ InArea(b, e)
    /\ add_range(s, b, e, fl, ty, ty = "ANONYMOUS", FALSE)
    /\ anon_base' = [anon_base EXCEPT ![s] = IF @ < e THEN e ELSE @]
    /\ UNCHANGED <<alive, brk>>

\* A length of zero is not refused: it splits the range around the address.
munmap(s, b, e) ==
    /\ s \in alive /\ InArea(b, e)
    /\ add_range(s, b, e, NULL, "NONE", FALSE, FALSE)
    /\ anon_base' = [anon_base EXCEPT ![s] = IF @ = e THEN b ELSE @]
    /\ UNCHANGED <<alive, brk>>

\* Pagemap::addr_to_range
addr_to_range(s, va) ==
    IF cached[s] # NULL /\ rng[s][cached[s]] # NULL /\ va \in Extent(rng[s][cached[s]])
    THEN cached[s]
    ELSE IF \E i \in Live(rng[s]) : va \in Extent(rng[s][i])
    THEN CHOOSE i \in Live(rng[s]) : va \in Extent(rng[s][i])
    ELSE NULL

\* Mutant: keep_pages is not given.
mprotect_drop(s, b, e, fl) ==
    LET i == addr_to_range(s, b) IN
    /\ s \in alive /\ b < e /\ InArea(b, e) /\ i # NULL
    /\ e <= rng[s][i].end
    /\ add_range(s, b, e, fl, rng[s][i].type, TRUE, FALSE)
    /\ UNCHANGED <<alive, anon_base, brk>>

\* One iteration of the loop of mprotect, up to the end of the range found; a
\* call that meets several ranges is several steps, up to the first hole.
mprotect(s, b, e, fl) ==
    LET i == addr_to_range(s, b) IN
    /\ s \in alive /\ b < e /\ InArea(b, e) /\ i # NULL
    /\ e <= rng[s][i].end
    /\ add_range(s, b, e, fl, rng[s][i].type, TRUE, TRUE)
    /\ UNCHANGED <<alive, anon_base, brk>>

\* Mutant: the entries are cleared and the pages are not freed.
madvise_leak(s, b, e) ==
    /\ s \in alive /\ b < e /\ InArea(b, e) /\ Between(b, e) \cap Mapped(s) # {}
    /\ pte' = [pte EXCEPT ![s] = [va \in Pages |->
                  IF va \in Between(b, e) THEN NULL ELSE pte[s][va]]]
    /\ UNCHANGED <<alive, rng, owner, cached, anon_base, brk>>

\* madvise with MADV_DONTNEED or MADV_FREE
madvise(s, b, e) ==
    /\ s \in alive /\ b < e /\ InArea(b, e) /\ Between(b, e) \cap Mapped(s) # {}
    /\ invalidate_pages(s, rng[s], Between(b, e) \cap Mapped(s), << >>)
    /\ UNCHANGED <<alive, cached, anon_base, brk>>

set_brk(s, new) ==
    /\ s \in alive /\ new # brk[s]
    /\ IF new > brk[s]
       THEN add_range(s, brk[s], new, StackFlags, "ANONYMOUS", TRUE, TRUE)
       ELSE add_range(s, new, brk[s], NULL, "NONE", FALSE, FALSE)
    /\ brk' = [brk EXCEPT ![s] = new]
    /\ UNCHANGED <<alive, anon_base>>

\* handle_page_fault on a page that no entry maps
page_fault(s, va) ==
    LET i == addr_to_range(s, va) IN
    /\ s \in alive /\ pte[s][va] = NULL /\ i # NULL
    /\ cached' = [cached EXCEPT ![s] = i]
    /\ IF rng[s][i].type = "DIRECT"
       THEN /\ pte' = [pte EXCEPT ![s][va] = Entry(Device, rng[s][i].flags)]
            /\ UNCHANGED owner
       ELSE \E g \in Allocations(s, {va}) :
               /\ pte' = [pte EXCEPT ![s][va] = Entry(g[va], rng[s][i].flags)]
               /\ owner' = [owner EXCEPT ![g[va]] = Owner(s, i, va)]
    /\ UNCHANGED <<alive, rng, anon_base, brk>>

\* Mutant: the pages of file mappings are not copied.
Copied_anonymous(s) ==
    {f \in Frames : /\ owner[f] # NULL /\ owner[f].space = s
                    /\ rng[s][owner[f].range].type = "ANONYMOUS"}

\* Pagemap::fork copies the ranges, and the pages on the page lists of those
\* that are not direct.
Copied(s) ==
    {f \in Frames : /\ owner[f] # NULL /\ owner[f].space = s
                    /\ rng[s][owner[f].range].type # "DIRECT"}

fork(s, c) ==
    /\ s \in alive /\ c \notin alive
    /\ alive' = alive \cup {c}
    /\ rng' = [rng EXCEPT ![c] = rng[s]]
    /\ \E new \in Allocations(c, {owner[f].addr : f \in Copied(s)}) :
          LET Original(va) == CHOOSE f \in Copied(s) : owner[f].addr = va IN
          /\ pte' = [pte EXCEPT ![c] = [va \in Pages |->
                IF va \in DOMAIN new
                THEN Entry(new[va], rng[s][owner[Original(va)].range].flags)
                ELSE NULL]]
          /\ owner' = [f \in Frames |->
                IF \E va \in DOMAIN new : new[va] = f
                THEN LET va == CHOOSE va \in DOMAIN new : new[va] = f
                     IN  [owner[Original(va)] EXCEPT !.space = c]
                ELSE owner[f]]
    /\ cached' = [cached EXCEPT ![c] = NULL]
    /\ anon_base' = [anon_base EXCEPT ![c] = anon_base[s]]
    /\ brk' = [brk EXCEPT ![c] = brk[s]]

\* The destructor of the pagemap: every range frees the pages on its list.
Released(s) == [f \in Frames |-> IF owner[f] # NULL /\ owner[f].space = s
                                 THEN NULL ELSE owner[f]]

\* Process::zombify
zombify(s) ==
    /\ s \in alive
    /\ alive' = alive \ {s}
    /\ rng' = [rng EXCEPT ![s] = [i \in Ids |-> NULL]]
    /\ pte' = [pte EXCEPT ![s] = [va \in Pages |-> NULL]]
    /\ owner' = Released(s)
    /\ cached' = [cached EXCEPT ![s] = NULL]
    /\ anon_base' = [anon_base EXCEPT ![s] = AnonStart]
    /\ brk' = [brk EXCEPT ![s] = HeapBase]

\* user_exec builds a new pagemap before it deletes the old one.
user_exec(s) ==
    /\ s \in alive
    /\ rng' = [rng EXCEPT ![s] = StackRanges(FirstId)]
    /\ \E g \in Allocations(s, {StackTop}) :
          /\ pte' = [pte EXCEPT ![s] = StackEntries(g[StackTop])]
          /\ owner' = [Released(s) EXCEPT ![g[StackTop]] = Owner(s, FirstId, StackTop)]
    /\ cached' = [cached EXCEPT ![s] = NULL]
    /\ anon_base' = [anon_base EXCEPT ![s] = AnonStart]
    /\ brk' = [brk EXCEPT ![s] = HeapBase]
    /\ UNCHANGED alive

Points == HeapBase .. MmapTop

Next ==
    /\ steps < MaxSteps /\ steps' = steps + 1
    /\ \E s \in Spaces :
        \/ \E len \in 1 .. MmapTop - MmapBase :
              \/ \E kind \in Kinds : mmap(s, len, kind[2], kind[1])
              \/ mmap_refused(s, len)
        \/ \E b, e \in Points :
              \/ \E kind \in Kinds : mmap_fixed(s, b, e, kind[2], kind[1])
              \/ \E fl \in Flags : mprotect(s, b, e, fl)
              \/ munmap(s, b, e)
              \/ madvise(s, b, e)
        \/ \E new \in HeapBase .. HeapTop : set_brk(s, new)
        \/ \E va \in Pages : page_fault(s, va)
        \/ \E c \in Spaces : fork(s, c)
        \/ zombify(s)
        \/ user_exec(s)

Spec == Init /\ [][Next]_vars
-----------------------------------------------------------------------------
TypeOK ==
    /\ alive \subseteq Spaces
    /\ rng \in [Spaces -> [Ids -> Range \cup {NULL}]]
    /\ pte \in [Spaces -> [Pages -> Entries \cup {NULL}]]
    /\ owner \in [Frames -> Owners \cup {NULL}]
    /\ cached \in [Spaces -> Ids \cup {NULL}]
    /\ anon_base \in [Spaces -> Int] /\ brk \in [Spaces -> Int] /\ steps \in Nat

\* The ranges of a space are not empty and never overlap: which range a lookup
\* finds, and which one mprotect changes, does not depend on the list order.
Disjoint(R) ==
    \A i \in Live(R) :
        /\ R[i].base < R[i].end
        /\ \A j \in Live(R) \ {i} : R[i].end <= R[j].base \/ R[j].end <= R[i].base
RangesDisjoint == \A s \in Spaces : Disjoint(rng[s])

\* Every entry lies in a range and carries that range's flags: what mprotect
\* took away or munmap removed cannot be used through an old entry.
EntriesCurrent ==
    \A s \in Spaces : \A va \in Mapped(s) :
        \E i \in Live(rng[s]) : va \in Extent(rng[s][i]) /\ pte[s][va].flags = rng[s][i].flags

\* The frame of an entry is on the page list of the range around it: a mapped
\* page is never free and never shared, and fork finds it.
EntriesOwned ==
    \A s \in Spaces : \A va \in Mapped(s) :
        LET f == pte[s][va].frame IN
        f # Device => /\ owner[f] # NULL /\ owner[f].space = s /\ owner[f].addr = va
                      /\ rng[s][owner[f].range] # NULL
                      /\ va \in Extent(rng[s][owner[f].range])

\* Every frame that is not free is mapped where its Page says: none leaks,
\* and no page list holds a page that its space can no longer reach.
FramesMapped ==
    \A f \in Frames : owner[f] # NULL =>
        /\ owner[f].space \in alive
        /\ pte[owner[f].space][owner[f].addr] # NULL
        /\ pte[owner[f].space][owner[f].addr].frame = f

\* The cached range of a lookup still exists.
CacheCurrent == \A s \in Spaces : cached[s] # NULL => rng[s][cached[s]] # NULL

\* mmap without MAP_FIXED takes addresses that no range uses, whatever was
\* mapped, unmapped and forked before: the bump pointer is above them all.
AnonBaseAbove ==
    \A s \in Spaces : \A i \in Live(rng[s]) :
        rng[s][i].end <= anon_base[s] \/ rng[s][i].end <= HeapTop

\* mprotect changes flags and nothing else: every page of private memory
\* stays at its address.
LosesPage(s) ==
    \E va \in Mapped(s) : \/ pte'[s][va] = NULL
                          \/ /\ pte[s][va].frame # Device
                             /\ pte'[s][va].frame # pte[s][va].frame
MprotectKeepsPages ==
    [][\A s \in Spaces : LosesPage(s) =>
          ~\E b, e \in Points, fl \in Flags : mprotect(s, b, e, fl)]_vars

\* After fork the child has its own page wherever the parent had private
\* memory, with the same flags.
ForkCopies ==
    [][\A s, c \in Spaces : fork(s, c) =>
          \A va \in Mapped(s) :
              \/ \E i \in Live(rng[s]) : va \in Extent(rng[s][i]) /\ rng[s][i].type = "DIRECT"
              \/ /\ pte'[c][va] # NULL /\ pte'[c][va].flags = pte[s][va].flags
                 /\ pte'[c][va].frame # pte'[s][va].frame]_vars

\* The inductive invariant of PagemapProofs: a space that does not exist maps
\* nothing, and ranges, page tables and page lists agree.
GoneEmpty ==
    \A s \in Spaces \ alive : /\ \A i \in Ids : rng[s][i] = NULL
                               /\ \A va \in Pages : pte[s][va] = NULL
MemInv ==
    /\ alive \subseteq Spaces
    /\ rng \in [Spaces -> [Ids -> Range \cup {NULL}]]
    /\ pte \in [Spaces -> [Pages -> Entries \cup {NULL}]]
    /\ owner \in [Frames -> Owners \cup {NULL}]
    /\ RangesDisjoint /\ EntriesCurrent /\ EntriesOwned /\ FramesMapped /\ GoneEmpty
PagemapInv == TypeOK /\ MemInv /\ CacheCurrent

\* The two shortcuts of address lookup, the cached range and the base for the
\* next anonymous mapping, agree with the ranges there are.
LookupSound == CacheCurrent /\ AnonBaseAbove
=============================================================================
