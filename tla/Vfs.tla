--------------------------------- MODULE Vfs ---------------------------------
(***************************************************************************)
(* The tree of names (fs/vfs.cpp: Entry, path_to_entry and the calls that  *)
(* take paths) on tmpfs (fs/tmpfs.cpp), and the bytes of a tmpfs file and  *)
(* of a memfd (userland/memfd.cpp).                                        *)
(*                                                                         *)
(* System calls run with interrupts disabled and nothing here sleeps, so   *)
(* that each is one step.  The entries of a directory belong to its Entry, *)
(* not to its VNode.  A name that was looked up in vain stays as an entry  *)
(* without a vnode.  "." and ".." are never named here.                    *)
(***************************************************************************)
EXTENDS Integers, Sequences, FiniteSets, Lists

CONSTANTS FileNames, Paths,         \* targets of symlinks; paths that are used
          MaxEntries, MaxVnodes,    \* bounds on what is ever made
          LinkDepth,                \* nested symlinks that fit the kernel stack
          FileKinds,                \* {"tmpfs", "memfd"}
          FilePage,                 \* bytes of a page
          FileLength, FileValues    \* longest file; values of a byte, not 0

ASSUME VfsAssumption ==
    /\ {MaxEntries, MaxVnodes, LinkDepth, FilePage, FileLength} \subseteq Nat \ {0}
    /\ 0 \notin FileValues
    /\ Paths \subseteq Seq(FileNames) \ {<<>>}

VARIABLES entries,     \* made so far: vnode (0: none), parent, name, children_list
          vnodes,      \* made so far: node_type, ref_count, the target of a symlink
          cwd,         \* an entry
          description, \* an open file or directory, and the history of its listing
          vfs_crashed, \* why the kernel died, or ""
          vfs_step,    \* history: what the last call removed or moved
          file         \* kind, size, storage; expected: what its bytes should be

tree_vars == <<entries, vnodes, cwd, description, vfs_crashed, vfs_step>>
vfs_vars == <<tree_vars, file>>

Root == 1
Closed == [entry |-> 0, vnode |-> 0, cursor |-> 0, seen |-> <<>>, shrunk |-> FALSE,
           grown |-> FALSE, whole |-> {}]
VfsInit ==
    /\ entries = <<[vnode |-> 1, parent |-> 0, name |-> "", children |-> <<>>]>>
    /\ vnodes = <<[type |-> "dir", refs |-> 0, target |-> <<>>]>>
    /\ cwd = Root
    /\ description = Closed
    /\ vfs_crashed = ""
    /\ vfs_step = [vnode |-> 0, lossy |-> FALSE]
    /\ \E k \in FileKinds :
          file = [kind |-> k, size |-> 0, capacity |-> 0, storage |-> <<>>, expected |-> <<>>,
                  cursor |-> 0, append |-> FALSE]
-----------------------------------------------------------------------------
Members(s) == {s[i] : i \in DOMAIN s}
IsDir(es, e) == es[e].vnode # 0 /\ vnodes[es[e].vnode].type = "dir"
find_child(es, dir, name) == Select(es[dir].children, {c \in DOMAIN es : es[c].name = name})
add_child(es, dir, e) == [es EXCEPT ![dir].children = <<e>> \o @]
remove_from_parent(es, e) ==
    [d \in DOMAIN es |-> [es[d] EXCEPT !.children = Select(@, DOMAIN es \ {e})]]

lookup(es, dir, name) ==
    LET found == find_child(es, dir, name)
        new == Append(es, [vnode |-> 0, parent |-> dir, name |-> name, children |-> <<>>])
    IN  IF found # <<>> THEN [es |-> es, at |-> found[1]]
        ELSE [es |-> add_child(new, dir, Len(new)), at |-> Len(new)]

\* A component of the path: w.dir is the directory and w.path what is left, empty
\* when path_to_entry has returned w.at.  w.depth: frames that fit the stack.
NextComponent(w, follow) ==
    LET l == lookup(w.es, w.dir, Head(w.path))
        v == l.es[l.at].vnode
        last == Len(w.path) = 1
        returns(at) == [w EXCEPT !.es = l.es, !.at = at, !.path = <<>>]
    IN  IF w.path = <<>> THEN w
        ELSE IF w.depth = 0 THEN [w EXCEPT !.overflow = TRUE, !.path = <<>>]
        ELSE IF ~IsDir(w.es, w.dir) THEN [w EXCEPT !.path = <<>>]
        ELSE IF v = 0 THEN returns(IF last THEN l.at ELSE 0)
        ELSE IF (~last \/ follow) /\ vnodes[v].type = "symlink"
        THEN [w EXCEPT !.path = vnodes[v].target \o Tail(@), !.depth = @ - 1]
        ELSE IF last THEN returns(l.at)
        ELSE [w EXCEPT !.dir = l.at, !.path = Tail(@)]
\* The entry a path leads to, or 0 for null_entry.  The target of a symlink is a
\* name, so that the loop has ended after so many rounds.
Walk(es, start, path, follow) ==
    LET rounds == Len(path) + LinkDepth
        after[k \in 0 .. rounds] ==
          IF k = 0
          THEN [es |-> es, dir |-> start, path |-> path, depth |-> LinkDepth,
                at |-> 0, overflow |-> FALSE]
          ELSE NextComponent(after[k - 1], follow)
    IN  after[rounds]
\* The empty sequence is the path "/".
path_to_entry(start, path, follow) ==
    IF path = <<>> THEN [es |-> entries, at |-> Root, overflow |-> FALSE]
    ELSE Walk(entries, start, path, follow)
-----------------------------------------------------------------------------
NewNode(type, target) == Append(vnodes, [type |-> type, refs |-> 0, target |-> target])
Listed(es, e) == IF find_child(es, es[e].parent, es[e].name) = <<>>
                 THEN add_child(es, es[e].parent, e) ELSE es
create(es, vs, e, v) ==
    [es |-> Listed([es EXCEPT ![e].vnode = v], e), vs |-> [vs EXCEPT ![v].refs = @ + 1]]
\* Mutant: the vnode of an entry that is removed keeps its reference.
Dropped_kept(vs, v) == vs
Dropped_ref(vs, v) == [vs EXCEPT ![v].refs = @ - 1]
\* Mutant: all entries of the vnode go, not this one only.
remove_all(es, vs, e) ==
    LET v == es[e].vnode
        gone == {c \in UNION {Members(es[d].children) : d \in DOMAIN es} : es[c].vnode = v}
    IN  [es |-> [d \in DOMAIN es |->
                   [es[d] EXCEPT !.children = Select(@, DOMAIN es \ gone)]],
         vs |-> [vs EXCEPT ![v].refs = @ - Cardinality(gone)]]
remove(es, vs, e) ==
    [es |-> remove_from_parent(es, e), vs |-> Dropped_ref(vs, es[e].vnode)]

\* The call has ended: its entries and vnodes, and what its history says.  The
\* directory that is being listed may have got or lost children.
Ends_with(es, vs, v, lossy) ==
    LET d == description.entry
        before == IF d = 0 THEN <<>> ELSE entries[d].children
        after == IF d = 0 THEN <<>> ELSE es[d].children
    IN
    /\ Len(es) <= MaxEntries /\ Len(vs) <= MaxVnodes
    /\ entries' = es
    /\ vnodes' = vs
    /\ vfs_step' = [vnode |-> v, lossy |-> lossy]
    /\ description' = [description EXCEPT
          !.grown = @ \/ after # Select(before, Members(after)),
          !.shrunk = @ \/ before # Select(after, Members(before)),
          !.whole = {c \in @ : c \in Members(after) /\ es[c].vnode # 0}]
    /\ UNCHANGED <<cwd, vfs_crashed, file>>
Crashes(why) ==
    /\ vfs_crashed' = why
    /\ UNCHANGED <<entries, vnodes, cwd, description, vfs_step, file>>

\* The calls take r, where path_to_entry leads for their (first) path.
\* open with O_CREAT, mkdir, mknod and symlink differ in what they make.
make(r, type, target) ==
    IF r.overflow THEN Crashes("stack")
    ELSE IF r.at = 0 \/ r.es[r.at].vnode # 0 THEN Ends_with(r.es, vnodes, 0, FALSE)
    ELSE LET c == create(r.es, NewNode(type, target), r.at, Len(vnodes) + 1)
         IN  Ends_with(c.es, c.vs, 0, FALSE)

unlinkat(r, removedir) ==
    LET v == IF r.at = 0 THEN 0 ELSE r.es[r.at].vnode
        gone == remove(r.es, vnodes, r.at)
    IN  IF r.overflow THEN Crashes("stack")
        ELSE IF v = 0 \/ (vnodes[v].type = "dir" /\ ~removedir)
        THEN Ends_with(r.es, vnodes, 0, FALSE)
        ELSE Ends_with(gone.es, gone.vs, v, vnodes[v].type = "dir")

\* null_entry has no parent for linkat and renameat to add a child to.
linkat(o, start, new) ==
    LET n == Walk(o.es, start, new, TRUE)
        v == IF o.at = 0 THEN 0 ELSE o.es[o.at].vnode
        c == create(n.es, vnodes, n.at, v)
    IN  IF o.overflow \/ (v # 0 /\ n.overflow) THEN Crashes("stack")
        ELSE IF v = 0 THEN Ends_with(o.es, vnodes, 0, FALSE)
        ELSE IF n.at = 0 THEN Crashes("null")
        ELSE IF n.es[n.at].vnode # 0 THEN Ends_with(n.es, vnodes, 0, FALSE)
        ELSE Ends_with(c.es, c.vs, 0, FALSE)

Cleared(es, e) == IF es[e].vnode = 0 THEN [es |-> es, vs |-> vnodes] ELSE remove(es, vnodes, e)
\* lossy: the children of a directory stay behind, a file that is renamed to
\* itself is removed.
renameat(o, start, new) ==
    LET n == Walk(o.es, start, new, TRUE)
        v == IF o.at = 0 THEN 0 ELSE o.es[o.at].vnode
        cleared == Cleared(n.es, n.at)
        c == create(cleared.es, cleared.vs, n.at, v)
        gone == remove(c.es, c.vs, o.at)
    IN  IF o.overflow \/ (v # 0 /\ n.overflow) THEN Crashes("stack")
        ELSE IF v = 0 THEN Ends_with(o.es, vnodes, 0, FALSE)
        ELSE IF n.at = 0 THEN Crashes("null")
        ELSE Ends_with(gone.es, gone.vs, n.es[n.at].vnode,
                       IsDir(o.es, o.at) \/ IsDir(n.es, n.at) \/ o.at = n.at)

chdir(r) ==
    IF r.overflow THEN Crashes("stack")
    ELSE /\ Len(r.es) <= MaxEntries
         /\ r.at # 0 /\ IsDir(r.es, r.at)
         /\ cwd' = r.at
         /\ UNCHANGED <<entries, vnodes, description, vfs_crashed, vfs_step, file>>
-----------------------------------------------------------------------------
Present(d) == {c \in Members(entries[d].children) : entries[c].vnode # 0}
open(r) ==
    /\ description.entry = 0
    /\ r.at # 0 /\ r.es = entries /\ entries[r.at].vnode # 0
    /\ vnodes' = [vnodes EXCEPT ![entries[r.at].vnode].refs = @ + 1]
    /\ description' = [Closed EXCEPT !.entry = r.at, !.vnode = entries[r.at].vnode,
          !.whole = IF IsDir(entries, r.at) THEN Present(r.at) ELSE {}]
    /\ vfs_step' = [vnode |-> 0, lossy |-> FALSE]
    /\ UNCHANGED <<entries, cwd, vfs_crashed, file>>
close_description ==
    /\ description.entry # 0
    /\ vnodes' = [vnodes EXCEPT ![description.vnode].refs = @ - 1]
    /\ description' = Closed
    /\ vfs_step' = [vnode |-> 0, lossy |-> FALSE]
    /\ UNCHANGED <<entries, cwd, vfs_crashed, file>>

NextCursor(i) == i
\* getdents64 into a buffer for n entries: the cursor counts all children, the
\* ones without a vnode too.
readdir(n) ==
    LET kids == entries[description.entry].children
        new == {i \in description.cursor + 1 .. Len(kids) : entries[kids[i]].vnode # 0}
        stop == {i \in new : Cardinality({j \in new : j < i}) = n}
        end == IF stop = {} THEN Len(kids) ELSE (CHOOSE i \in stop : TRUE) - 1
    IN
    /\ description.entry # 0 /\ vnodes[description.vnode].type = "dir"
    /\ description.cursor < Len(kids)
    /\ description' = [description EXCEPT
          !.cursor = IF stop = {} THEN end ELSE NextCursor(end),
          !.seen = @ \o Select(SubSeq(kids, description.cursor + 1, end),
                               {c \in DOMAIN entries : entries[c].vnode # 0})]
    /\ UNCHANGED <<entries, vnodes, cwd, vfs_crashed, vfs_step, file>>

NameCalls ==
    /\ vfs_crashed = ""
    /\ \E s \in {Root, cwd}, p \in Paths :
          LET r == path_to_entry(s, p, TRUE) IN
          \/ /\ Len(vnodes) < MaxVnodes
             /\ \/ \E t \in {"file", "dir"} : make(r, t, <<>>)
                \/ \E n \in FileNames : make(r, "symlink", <<n>>)
          \/ \E removedir \in BOOLEAN : unlinkat(r, removedir)
          \/ s = cwd /\ \E q \in Paths : linkat(r, s, q) \/ renameat(r, s, q)
          \/ chdir(r)
ListCalls ==
    /\ vfs_crashed = ""
    /\ \/ \E s \in {Root, cwd}, p \in Paths \cup {<<>>} : open(path_to_entry(s, p, TRUE))
       \/ close_description
       \/ \E n \in {1, 2} : readdir(n)
-----------------------------------------------------------------------------
Junk == -1  \* memory of the heap that was never written, or long ago
Unpromised == -2
Resized(s, n, v) == [i \in 1 .. n |-> IF i <= Len(s) THEN s[i] ELSE v]

Quadrupled(capacity, size) ==
    LET after[k \in 0 .. size] ==
          IF k = 0 THEN capacity
          ELSE LET c == after[k - 1] IN
               IF c >= size THEN c ELSE IF c = 0 THEN 1 ELSE c * 4
    IN  after[size]
\* Node::grow_to and MemFD::grow_to.  A memfd that outgrows its pages gets new
\* ones, and its bytes are left behind; hole: what the bytes it gains should be.
grow_to(f, length) ==
    LET tmpfs == f.kind = "tmpfs"
        capacity == IF f.capacity >= length THEN f.capacity
                    ELSE IF tmpfs THEN Quadrupled(f.capacity, length)
                    ELSE ((length + FilePage - 1) \div FilePage) * FilePage
        anew == ~tmpfs /\ capacity > f.capacity
    IN  [f EXCEPT !.size = length, !.capacity = capacity,
           !.storage = IF capacity = f.capacity THEN @
                       ELSE IF tmpfs THEN Resized(@, capacity, Junk)
                       ELSE [i \in 1 .. capacity |-> 0],
           !.expected = Resized(IF anew THEN [i \in DOMAIN @ |-> Unpromised] ELSE @, length,
                                IF tmpfs THEN Unpromised ELSE 0)]
Stored(s, offset, count, v) ==
    [i \in DOMAIN s |-> IF i > offset /\ i <= offset + count THEN v ELSE s[i]]
write_at(f, offset, count, v) ==
    LET g == IF offset + count > f.size THEN grow_to(f, offset + count) ELSE f IN
    [g EXCEPT !.storage = Stored(@, offset, count, v),
              !.expected = Stored(Resized(@, IF offset + count > Len(@) THEN offset + count
                                             ELSE Len(@), Unpromised), offset, count, v)]

\* write, pwrite64 and writev of one value; O_APPEND moves the cursor first.
file_write(count, v) ==
    LET at == IF file.append THEN file.size ELSE file.cursor IN
    /\ at + count <= FileLength
    /\ file' = [write_at(file, at, count, v) EXCEPT !.cursor = at + count]
    /\ UNCHANGED tree_vars
file_pwrite(offset, v) ==
    /\ offset < FileLength
    /\ file' = write_at(file, offset, 1, v)
    /\ UNCHANGED tree_vars
file_read(count) ==
    /\ file.cursor < file.size
    /\ file' = [file EXCEPT !.cursor = IF @ + count > file.size THEN file.size ELSE @ + count]
    /\ UNCHANGED tree_vars
lseek(offset, whence) ==
    LET to == offset + (CASE whence = "set" -> 0 [] whence = "cur" -> file.cursor
                          [] whence = "end" -> file.size)
    IN
    /\ to \in 0 .. FileLength
    /\ file' = [file EXCEPT !.cursor = to]
    /\ UNCHANGED tree_vars
set_append ==
    /\ file' = [file EXCEPT !.append = ~@]
    /\ UNCHANGED tree_vars
\* Shrinking a memfd clears what is cut off; a file of tmpfs keeps it.
Cut(f, length) ==
    IF f.kind = "tmpfs" THEN f.storage
    ELSE [i \in DOMAIN f.storage |-> IF i > length /\ i <= f.size THEN 0 ELSE f.storage[i]]
ftruncate(length) ==
    /\ file' = IF length > file.size THEN grow_to(file, length)
               ELSE [file EXCEPT !.size = length, !.storage = Cut(file, length),
                                 !.expected = SubSeq(@, 1, length)]
    /\ UNCHANGED tree_vars

FileNext ==
    \/ \E v \in FileValues : \/ \E n \in {1, 2} : file_write(n, v)
                             \/ \E o \in 0 .. FileLength - 1 : file_pwrite(o, v)
    \/ \E n \in {1, 2} : file_read(n)
    \/ \E w \in {"set", "cur", "end"}, o \in -1 .. 1 : lseek(o, w)
    \/ set_append
    \/ \E n \in 0 .. FileLength : ftruncate(n)

VfsSpec == VfsInit /\ [][NameCalls \/ ListCalls \/ FileNext]_vfs_vars
-----------------------------------------------------------------------------
\* The places in directories at which a vnode is named.
Children(es) == UNION {{d} \X DOMAIN es[d].children : d \in DOMAIN es}
NamesOf(es, v) == {at \in Children(es) : es[es[at[1]].children[at[2]]].vnode = v}
\* ref_count of a vnode is the number of names and open descriptions it has,
\* whatever was linked, renamed, replaced or removed.
VfsRefcounts ==
    \A v \in DOMAIN vnodes \ {1} :
        vnodes[v].refs
            = Cardinality(NamesOf(entries, v)) + (IF description.vnode = v THEN 1 ELSE 0)

\* A directory has no name twice, counting the names looked up in vain.
VfsNames ==
    \A d \in DOMAIN entries : \A i, j \in DOMAIN entries[d].children :
        entries[entries[d].children[i]].name = entries[entries[d].children[j]].name => i = j

\* The vnodes with a path from the root; its entries, step by step.
Below(es, vs, S) == S \cup UNION {Members(es[e].children) :
                       e \in {x \in S : es[x].vnode # 0 /\ vs[es[x].vnode].type = "dir"}}
Reached(es, vs) ==
    LET within[k \in 0 .. Len(es)] == IF k = 0 THEN {Root} ELSE Below(es, vs, within[k - 1])
    IN  within[Len(es)]
Reach(es, vs) == {es[e].vnode : e \in Reached(es, vs)} \ {0}
\* A call takes no file away but the one it is told to remove or to replace,
\* through links to files, symlinks and directories; except for rename and rmdir
\* of directories, and rename of a file to itself, which lose files.
VfsKept ==
    [][UNCHANGED entries \/ vfs_step'.lossy
        \/ Reach(entries, vnodes)
               \subseteq Reach(entries', vnodes') \cup {vfs_step'.vnode}]_tree_vars

\* Who lists a directory to its end gets every name that was there all the time,
\* unless some name was removed meanwhile, and none twice, unless one was added:
\* also by a lookup in vain.
ReaddirWhole ==
    description.entry # 0 /\ vnodes[description.vnode].type = "dir" =>
        /\ ~description.shrunk
           /\ description.cursor >= Len(entries[description.entry].children)
           => description.whole \subseteq Members(description.seen)
        /\ ~description.grown
           => Cardinality(Members(description.seen)) = Len(description.seen)

\* A byte of a file is the last one written there, or zero; after any sequence of
\* writes, seeks and changes of length.  Two exceptions, where nothing is promised:
\* what a file of tmpfs gains without being written, and the old bytes of a memfd
\* that outgrows its pages.
FileBytes ==
    /\ file.size = Len(file.expected)
    /\ \A i \in 1 .. file.size : file.expected[i] \in {Unpromised, file.storage[i]}

\* The tree of names, what a listing of it shows and what its files hold, as far
\* as each part above says.
VfsSafe == VfsNames /\ VfsRefcounts /\ ReaddirWhole /\ FileBytes
=============================================================================
