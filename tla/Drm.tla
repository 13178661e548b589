-------------------------------- MODULE Drm ---------------------------------
(***************************************************************************)
(* The DRM core (drivers/drm): open files, GEM objects with their handles, *)
(* global names and reference counts, framebuffers, the single CRTC of the *)
(* fishix driver, and the DMA pool the objects live in (mem/dma.cpp).      *)
(*                                                                         *)
(* A call runs with interrupts off and is one step.  The device lock is a  *)
(* spinlock: locking it twice spins for ever, which page_flip does (it     *)
(* completes the flip, which takes the lock, while it holds the lock).     *)
(* Memory is never reused: a deleted framebuffer keeps its contents.       *)
(* Calls that only report state (get_resources, getfb, map_dumb, mmap) and *)
(* calls that return an error without a change are not steps.              *)
(***************************************************************************)
EXTENDS Naturals, Sequences, FiniteSets

CONSTANTS DrmFiles,       \* VFS descriptions of /dev/dri/card0
          DumbSizes,      \* sizes in pages a program asks for
          Planes,         \* handles of a framebuffer that programs use, 4 at most
          DmaPages,       \* pages of the coherent pool
          DisplayPages,   \* pages of the driver's display buffer
          DrmWord,        \* reference counts are integers modulo DrmWord
          MaxObjects, MaxFbs, MaxHandles, MaxNames   \* bounds of the counters

\* A count cannot wrap: that would take more calls than there are handles and
\* planes to refer to an object, 2^32 of them in the code.
ASSUME DrmAssumption ==
    /\ Planes \in 1 .. 4 /\ DisplayPages <= DmaPages /\ DumbSizes \subseteq Nat
    /\ {DmaPages, DisplayPages, MaxObjects, MaxFbs, MaxHandles, MaxNames} \subseteq Nat
    /\ IsFiniteSet(DrmFiles) /\ DrmWord \in Nat
    /\ DrmWord > Cardinality(DrmFiles) * MaxHandles + MaxFbs * Planes

VARIABLES drm_file,    \* drm_file of each description
          drm_obj,     \* GEM objects, in the order of their creation
          drm_fb,      \* framebuffers: the objects of their planes, 0 for none
          drm_crtc,
          drm_dev      \* drm_device, with the name counter and the pool.  History:
                       \* destroyed, the framebuffers that are listed all the same,
                       \* and twice, the objects such a one was removed with

drm_vars == <<drm_file, drm_obj, drm_fb, drm_crtc, drm_dev>>

Objects == 1 .. Len(drm_obj)
Framebuffers == 1 .. Len(drm_fb)
Occurrences(s, x) == Cardinality({i \in DOMAIN s : s[i] = x})

NewFile == [open |-> FALSE, master |-> FALSE, objects |-> <<>>]
drm_crtc_create == [fb |-> 0, page_flip_pending |-> FALSE, pending_fb |-> 0]
drm_device_create ==
    [files |-> {}, gem_objects |-> {}, fbs |-> {}, next_handle |-> 1,
     next_gem_name |-> 1, used |-> 0, locked |-> FALSE, destroyed |-> {}, twice |-> {}]

\* fishix_drm_load allocates the display buffer and the CRTC.
DrmInit ==
    /\ drm_file = [f \in DrmFiles |-> NewFile]
    /\ drm_obj = <<>> /\ drm_fb = <<>>
    /\ drm_crtc = drm_crtc_create
    /\ drm_dev = [drm_device_create EXCEPT !.used = DisplayPages]
-----------------------------------------------------------------------------
\* Handle 0 finds nothing: no object in a file's list has it.
drm_gem_object_lookup(f, handle) ==
    {o \in Objects : /\ Occurrences(drm_file[f].objects, o) > 0
                     /\ drm_obj[o].handle = handle /\ handle # 0}

\* drm_gem_object_destroy, n[o] times for every object o.
Released(objs, n) ==
    [o \in DOMAIN objs |->
        [objs[o] EXCEPT !.refcount = (@ + n[o] * (DrmWord - 1)) % DrmWord]]
Freed(objs, n) == {o \in DOMAIN objs : objs[o].refcount \in 1 .. n[o]}
Once(o) == [p \in Objects |-> IF p = o THEN 1 ELSE 0]

drm_gem_object_destroy(n, dev) ==
    /\ drm_obj' = Released(drm_obj, n)
    /\ drm_dev' = [dev EXCEPT !.gem_objects = @ \ Freed(drm_obj, n)]

Unlocked(f) == drm_file[f].open /\ ~drm_dev.locked

drm_open(f) ==
    /\ ~drm_file[f].open /\ ~drm_dev.locked
    /\ drm_file' = [drm_file EXCEPT ![f] =
                      [open |-> TRUE, master |-> drm_dev.files = {}, objects |-> <<>>]]
    /\ drm_dev' = [drm_dev EXCEPT !.files = @ \cup {f}]
    /\ UNCHANGED <<drm_obj, drm_fb, drm_crtc>>

drm_close(f) ==
    /\ Unlocked(f)
    /\ drm_gem_object_destroy([o \in Objects |-> Occurrences(drm_file[f].objects, o)],
                              [drm_dev EXCEPT !.files = @ \ {f}])
    /\ drm_file' = [drm_file EXCEPT ![f] = NewFile]
    /\ UNCHANGED <<drm_fb, drm_crtc>>

\* The pool only grows; the object takes the next pages, its first handle and
\* its place in the lists of the file and of the device.
alloc_coherent(pages) == drm_dev.used + pages <= DmaPages

drm_mode_create_dumb(f, pages) ==
    /\ Unlocked(f) /\ Len(drm_obj) < MaxObjects /\ drm_dev.next_handle <= MaxHandles
    /\ pages # 0 /\ alloc_coherent(pages)
    /\ drm_obj' = Append(drm_obj, [refcount |-> 1, handle |-> drm_dev.next_handle,
                                   name |-> 0, paddr |-> drm_dev.used, size |-> pages])
    /\ drm_file' = [drm_file EXCEPT ![f].objects = Append(@, Len(drm_obj) + 1)]
    /\ drm_dev' = [drm_dev EXCEPT !.next_handle = @ + 1, !.used = @ + pages,
                                  !.gem_objects = @ \cup {Len(drm_obj) + 1}]
    /\ UNCHANGED <<drm_fb, drm_crtc>>

\* Removes the first entry of the object, as vector.remove(i) does.
WithoutFirst(s, o) ==
    LET i == CHOOSE i \in DOMAIN s : s[i] = o /\ \A j \in 1 .. i - 1 : s[j] # o
    IN  SubSeq(s, 1, i - 1) \o SubSeq(s, i + 1, Len(s))

\* GEM_CLOSE and DESTROY_DUMB.
drm_gem_handle_delete(f, handle) ==
    /\ Unlocked(f)
    /\ \E o \in drm_gem_object_lookup(f, handle) :
          /\ drm_file' = [drm_file EXCEPT ![f].objects = WithoutFirst(@, o)]
          /\ drm_gem_object_destroy(Once(o), drm_dev)
    /\ UNCHANGED <<drm_fb, drm_crtc>>

\* The reference of the lookup is given back: the count stays as it is.
drm_gem_flink(f, handle) ==
    /\ Unlocked(f) /\ drm_dev.next_gem_name <= MaxNames
    /\ \E o \in drm_gem_object_lookup(f, handle) :
          drm_obj' = [drm_obj EXCEPT ![o].name = drm_dev.next_gem_name]
    /\ drm_dev' = [drm_dev EXCEPT !.next_gem_name = @ + 1]
    /\ UNCHANGED <<drm_file, drm_fb, drm_crtc>>

\* Mutant: opening by name takes no reference.
drm_gem_open_borrows(f, name) ==
    /\ Unlocked(f) /\ drm_dev.next_handle <= MaxHandles
    /\ \E o \in drm_dev.gem_objects :
          /\ drm_obj[o].name = name /\ name # 0
          /\ drm_obj' = [drm_obj EXCEPT ![o].handle = drm_dev.next_handle]
          /\ drm_file' = [drm_file EXCEPT ![f].objects = Append(@, o)]
    /\ drm_dev' = [drm_dev EXCEPT !.next_handle = @ + 1]
    /\ UNCHANGED <<drm_fb, drm_crtc>>

\* The object's one handle field is overwritten.
drm_gem_open(f, name) ==
    /\ Unlocked(f) /\ drm_dev.next_handle <= MaxHandles
    /\ \E o \in drm_dev.gem_objects :
          /\ drm_obj[o].name = name /\ name # 0
          /\ drm_obj' = [drm_obj EXCEPT ![o].handle = drm_dev.next_handle,
                                        ![o].refcount = (@ + 1) % DrmWord]
          /\ drm_file' = [drm_file EXCEPT ![f].objects = Append(@, o)]
    /\ drm_dev' = [drm_dev EXCEPT !.next_handle = @ + 1]
    /\ UNCHANGED <<drm_fb, drm_crtc>>
-----------------------------------------------------------------------------
\* The objects found for the handles before the first one that is not found.
Attached(f, handles) ==
    [i \in 1 .. Planes |->
        IF \E j \in 1 .. i : handles[j] # 0 /\ drm_gem_object_lookup(f, handles[j]) = {}
        THEN 0
        ELSE IF handles[i] = 0 THEN 0
        ELSE CHOOSE o \in drm_gem_object_lookup(f, handles[i]) : TRUE]
AllFound(f, handles) ==
    \A i \in 1 .. Planes : handles[i] # 0 => drm_gem_object_lookup(f, handles[i]) # {}

\* drm_framebuffer_create enters the framebuffer into mode_config.fbs.  When a
\* handle is not found the framebuffer is destroyed, which gives the references
\* back, but stays in the list.
drm_mode_addfb2(f, handles) ==
    /\ Unlocked(f) /\ Len(drm_fb) < MaxFbs /\ handles[1] # 0
    /\ drm_fb' = Append(drm_fb, Attached(f, handles))
    /\ drm_dev' = [drm_dev EXCEPT !.fbs = @ \cup {Len(drm_fb) + 1},
                      !.destroyed = IF AllFound(f, handles) THEN @ ELSE @ \cup {Len(drm_fb) + 1}]
    /\ drm_obj' = IF AllFound(f, handles)
                  THEN [o \in Objects |->
                          [drm_obj[o] EXCEPT !.refcount =
                             (@ + Occurrences(Attached(f, handles), o)) % DrmWord]]
                  ELSE drm_obj
    /\ UNCHANGED <<drm_file, drm_crtc>>

\* The CRTC that shows the framebuffer keeps its pointer.  A framebuffer that is
\* destroyed already gives its references back once more.
drm_mode_rmfb(f, id) ==
    /\ Unlocked(f) /\ id \in drm_dev.fbs
    /\ drm_gem_object_destroy([o \in Objects |-> Occurrences(drm_fb[id], o)],
                              [drm_dev EXCEPT !.fbs = @ \ {id}, !.destroyed = @ \ {id},
                                 !.twice = @ \cup {drm_fb[id][i] : i \in
                                    IF id \in drm_dev.destroyed THEN 1 .. Planes ELSE {}}])
    /\ UNCHANGED <<drm_file, drm_fb, drm_crtc>>

drm_mode_set_crtc(f, id) ==
    /\ Unlocked(f) /\ id \in drm_dev.fbs \cup {0}
    /\ drm_crtc' = [drm_crtc EXCEPT !.fb = id]
    /\ UNCHANGED <<drm_file, drm_obj, drm_fb, drm_dev>>

\* A framebuffer without an object is refused and the pending state reset.
\* Otherwise fishix_drm_page_flip copies the picture and then waits for the
\* lock that its caller holds.
drm_mode_page_flip(f, id) ==
    /\ Unlocked(f) /\ id \in drm_dev.fbs
    /\ ~drm_crtc.page_flip_pending /\ drm_fb[id][1] # 0
    /\ drm_crtc' = [drm_crtc EXCEPT !.page_flip_pending = TRUE, !.pending_fb = id]
    /\ drm_dev' = [drm_dev EXCEPT !.locked = TRUE]
    /\ UNCHANGED <<drm_file, drm_obj, drm_fb>>

\* Interrupts are off: nothing else runs on the only processor.
drm_spin == drm_dev.locked /\ UNCHANGED drm_vars

DrmNext ==
    \/ \E f \in DrmFiles :
          \/ drm_open(f)
          \/ drm_close(f)
          \/ \E pages \in DumbSizes : drm_mode_create_dumb(f, pages)
          \/ \E h \in 1 .. MaxHandles : drm_gem_handle_delete(f, h)
          \/ \E h \in 1 .. MaxHandles : drm_gem_flink(f, h)
          \/ \E n \in 1 .. MaxNames : drm_gem_open(f, n)
          \/ \E hs \in [1 .. Planes -> 0 .. MaxHandles] : drm_mode_addfb2(f, hs)
          \/ \E id \in Framebuffers : drm_mode_rmfb(f, id)
          \/ \E id \in 0 .. Len(drm_fb) : drm_mode_set_crtc(f, id)
          \/ \E id \in Framebuffers : drm_mode_page_flip(f, id)
    \/ drm_spin

DrmSpec == DrmInit /\ [][DrmNext]_drm_vars
-----------------------------------------------------------------------------
\* Where o is in the lists of the keys, none of which has more than n entries.
Places(keys, n, list, o) ==
    {u \in keys \X (1 .. n) : u[2] \in DOMAIN list[u[1]] /\ list[u[1]][u[2]] = o}

\* The reference count of a GEM object is the number of its entries in open
\* files and of its planes in framebuffers, and an object can be found by its
\* global name exactly while that number is not zero: no call reaches an object
\* that drm_gem_object_destroy has freed.  Left out are the objects of a failed
\* drm_mode_addfb2 whose framebuffer was removed, and so destroyed twice.
FileUses(o) == Places(DrmFiles, MaxHandles, [f \in DrmFiles |-> drm_file[f].objects], o)
PlaneUses(o) == Places(drm_dev.fbs \ drm_dev.destroyed, Planes, drm_fb, o)
DrmRefcounts ==
    \A o \in Objects \ drm_dev.twice :
        /\ drm_obj[o].refcount = Cardinality(FileUses(o)) + Cardinality(PlaneUses(o))
        /\ o \in drm_dev.gem_objects <=> drm_obj[o].refcount > 0

\* At most one open file is master, in spite of files that close in any order.
DrmOneMaster ==
    \A f, g \in DrmFiles : drm_file[f].master /\ drm_file[g].master => f = g

\* No two GEM objects, destroyed ones included, share memory of the pool with
\* each other or with the display buffer: a mapping a program still has never
\* shows another program's picture.
DrmBuffersApart ==
    \A o \in Objects :
        /\ drm_obj[o].paddr >= DisplayPages
        /\ drm_obj[o].paddr + drm_obj[o].size <= DmaPages
        /\ \A p \in Objects \ {o} :
              \/ drm_obj[o].paddr + drm_obj[o].size <= drm_obj[p].paddr
              \/ drm_obj[p].paddr + drm_obj[p].size <= drm_obj[o].paddr

\* DRM: references, the master and the memory of objects.
DrmSafe == DrmRefcounts /\ DrmOneMaster /\ DrmBuffersApart
=============================================================================
