--------------------------------- MODULE Pmm ---------------------------------
(***************************************************************************)
(* The physical page allocator (mem/pmm.cpp): regions of pages that are    *)
(* each free or not, and the list of the free ones.  Every operation runs  *)
(* under pmm_lock, or with interrupts disabled, and is one step.           *)
(***************************************************************************)
EXTENDS Integers, Sequences, FiniteSets, Lists

CONSTANTS MemoryMap,     \* usable entries: <<base, length>> in bytes
          PageBytes, PagesPerStruct,  \* a page; pages one page of Page structs is for
          MaxRun         \* pages asked for at once

VARIABLES page_freelist, \* the free pages <<region, index>>, in order
          page_free,     \* those whose free bit is set
          total_free_pages,
          held,          \* history: the runs of pages handed out and not given back
          missed,        \* history: pages the last call looked for in vain, or 0
          astray         \* has a search left the array of a region?

pmm_vars == <<page_freelist, page_free, total_free_pages, held, missed, astray>>
-----------------------------------------------------------------------------
\* absorb_memmap_entry: whole pages only, and the first of them for the Page structs.
PfnStart(e) == e[1] \div PageBytes + (IF e[1] % PageBytes = 0 THEN 0 ELSE 1)
PfnEnd(e) == e[1] \div PageBytes + e[2] \div PageBytes - (IF e[2] % PageBytes = 0 THEN 0 ELSE 1)
NumPages(r) == PfnEnd(MemoryMap[r]) - PfnStart(MemoryMap[r])
NumReserved(r) == (NumPages(r) + PagesPerStruct) \div PagesPerStruct
NumUsable(r) == NumPages(r) - NumReserved(r)
Pfn(page) == PfnStart(MemoryMap[page[1]]) + NumReserved(page[1]) + page[2] - 1
Regions == DOMAIN MemoryMap
PmmPages == UNION {{r} \X (1 .. NumUsable(r)) : r \in Regions}

\* Page structs are smaller than half a page.  The boot loader's usable entries
\* do not overlap, and have at least a whole page.
ASSUME PmmAssumption ==
    /\ {PageBytes, MaxRun} \subseteq Nat \ {0} /\ PagesPerStruct \in Nat \ {0, 1}
    /\ MemoryMap \in Seq(Nat \X Nat)
    /\ \A r \in Regions : NumPages(r) > 0
    /\ \A r, q \in Regions : r = q \/ \/ MemoryMap[r][1] + MemoryMap[r][2] <= MemoryMap[q][1]
                                     \/ MemoryMap[q][1] + MemoryMap[q][2] <= MemoryMap[r][1]

\* The pages of the entries one after the other.
InitialList ==
    LET upto[r \in 0 .. Len(MemoryMap)] ==
          IF r = 0 THEN <<>> ELSE upto[r - 1] \o [i \in 1 .. NumUsable(r) |-> <<r, i>>]
    IN  upto[Len(MemoryMap)]

PmmInit ==
    /\ page_freelist = InitialList
    /\ page_free = PmmPages
    /\ total_free_pages = Cardinality(PmmPages)
    /\ held = {}
    /\ missed = 0
    /\ astray = FALSE
-----------------------------------------------------------------------------
alloc_page ==
    /\ ~astray
    /\ page_freelist # <<>>      \* or else the kernel panics
    /\ LET page == Head(page_freelist) IN
       /\ page_freelist' = Tail(page_freelist)
       /\ page_free' = page_free \ {page}
       /\ held' = held \cup {{page}}
    /\ total_free_pages' = total_free_pages - 1
    /\ missed' = 0
    /\ UNCHANGED astray

RunAt(r, i, n) == {<<r, i + j>> : j \in 0 .. n - 1}
\* Mutant: the search goes on a whole run further.
SkipTo_far(i, j, n) == i + n
SkipTo(i, j, n) == i + j + 1
\* The first free run in a region: after a page that is not free the search goes
\* on behind it.  0: none.
Search(r, n) ==
    LET taken(i) == {j \in 0 .. n - 1 : <<r, i + j>> \notin page_free}
        first(i) == CHOOSE j \in taken(i) : \A k \in taken(i) : j <= k
        at[k \in 0 .. NumUsable(r)] ==
          IF k = 0 THEN 1
          ELSE LET i == at[k - 1] IN
               IF i + n - 1 > NumUsable(r) \/ taken(i) = {} THEN i
               ELSE SkipTo(i, first(i), n)
        stop == at[NumUsable(r)]
    IN  IF stop + n - 1 > NumUsable(r) THEN 0 ELSE stop

\* A region with fewer pages than asked for: usable - num_pages wraps around, and
\* the search leaves the region's array (what it then reads is not modelled).
TooSmall(n) == {r \in Regions : NumUsable(r) < n}
alloc_contiguous_pages(n) ==
    LET found == {r \in Regions : r \notin TooSmall(n) /\ Search(r, n) # 0}
        r == CHOOSE q \in found : \A s \in found : q <= s
        run == RunAt(r, Search(r, n), n)
    IN
    /\ ~astray
    /\ astray' = (\E s \in TooSmall(n) : \A q \in found : s < q)
    /\ IF astray' \/ found = {}
       THEN /\ missed' = (IF astray' THEN 0 ELSE n)
            /\ UNCHANGED <<page_freelist, page_free, total_free_pages, held>>
       ELSE /\ page_freelist' = Select(page_freelist, page_free \ run)
            /\ page_free' = page_free \ run
            /\ total_free_pages' = total_free_pages - n
            /\ held' = held \cup {run}
            /\ missed' = 0

Freed(n) == total_free_pages + n
\* The first region whose addresses, the one behind its end included, hold the frame
\* is the one that has its page; the frames of the Page structs have none.
find_page(pfn) ==
    LET Base(r) == PfnStart(MemoryMap[r])
        within == {r \in Regions : Base(r) <= pfn /\ pfn <= Base(r) + NumPages(r)}
        r == CHOOSE q \in within : \A s \in within : q <= s
    IN  IF within = {} \/ pfn < Base(r) + NumReserved(r) THEN <<>>
        ELSE <<r, pfn - Base(r) - NumReserved(r) + 1>>

\* free_page, and free_contiguous_pages for a run, page by page to the list's front.
free_pages(run) ==
    LET n == Cardinality(run)
        base == Pfn(CHOOSE p \in run : \A q \in run : p[2] <= q[2])
        back == [k \in 1 .. n |-> find_page(base + n - k)]
    IN
    /\ ~astray
    /\ page_freelist' = back \o page_freelist
    /\ page_free' = page_free \cup {back[k] : k \in 1 .. n}
    /\ total_free_pages' = Freed(n)
    /\ held' = held \ {run}
    /\ missed' = 0
    /\ UNCHANGED astray

PmmNext == \/ alloc_page
           \/ \E n \in 1 .. MaxRun : alloc_contiguous_pages(n)
           \/ \E run \in held : free_pages(run)
PmmSpec == PmmInit /\ [][PmmNext]_pmm_vars
-----------------------------------------------------------------------------
\* The list has each free page once and no other, and as many as are counted;
\* the pages of two owners are never the same.
PmmExact ==
    /\ {page_freelist[i] : i \in DOMAIN page_freelist} = page_free
    /\ Len(page_freelist) = Cardinality(page_free)
    /\ total_free_pages = Len(page_freelist)
    /\ page_free = PmmPages \ UNION held
    /\ \A a, b \in held : a = b \/ a \cap b = {}

\* Every page that is free or handed out, and every page that holds Page structs,
\* lies inside its entry of the memory map, and no frame is two pages.
PmmInside ==
    /\ \A r \in Regions : LET e == MemoryMap[r] IN
          PfnStart(e) * PageBytes >= e[1] /\ PfnEnd(e) * PageBytes <= e[1] + e[2]
    /\ \A p, q \in page_free \cup UNION held : Pfn(p) = Pfn(q) => p = q

\* A search for a run of pages fails only where there is none, in any region.
PmmFindsRun ==
    missed # 0 =>
        \A r \in Regions : \A i \in 1 .. NumUsable(r) + 1 - missed :
            ~(RunAt(r, i, missed) \subseteq page_free)

\* The page allocator as a whole: exact lists, pages inside usable memory, and no
\* run of free pages that alloc_contiguous_pages overlooks.
PmmSafe == PmmExact /\ PmmInside /\ PmmFindsRun
=============================================================================
