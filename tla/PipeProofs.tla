----------------------------- MODULE PipeProofs -----------------------------
(***************************************************************************)
(* Event::wait and Event::trigger lose no wake-up, for any number of       *)
(* threads and events; and no call on a pipe sleeps while it could return, *)
(* for any number of threads and descriptions and any capacity.  The same  *)
(* for pseudo terminals and the console, with what they deliver, for any   *)
(* capacities, buffers, keys, groups and sessions; and the terminal on the *)
(* framebuffer, for any size.                                              *)
(***************************************************************************)
EXTENDS Pipe, Tty, Terminal, ListLemmas, FiniteSetTheorems, TLAPS

\* A bounded, non-empty set of natural numbers has a greatest element.
LEMMA GreatestElement ==
    ASSUME NEW S \in SUBSET Nat, S # {}, NEW b \in Nat, \A x \in S : x <= b
    PROVE  \E m \in S : \A x \in S : x <= m
  <1> DEFINE T == {y \in 0 .. b : b - y \in S}
             l == CHOOSE x \in T : \A y \in T : x <= y
  <1>1. T \in SUBSET Nat /\ T # {}
    <2>1. PICK x \in S : TRUE
      OBVIOUS
    <2>2. b - x \in 0 .. b /\ b - (b - x) = x
      OBVIOUS
    <2>3. b - x \in T
      BY <2>2
    <2>4. T \in SUBSET Nat
      OBVIOUS
    <2> QED BY <2>3, <2>4
  <1>2. l \in T /\ \A y \in T : l <= y
    <2> HIDE DEF T
    <2> QED BY <1>1, LeastElement
  <1> HIDE DEF l
  <1>3. b - l \in S /\ l \in 0 .. b
    BY <1>2
  <1>4. ASSUME NEW x \in S
        PROVE  x <= b - l
    <2>1. b - x \in 0 .. b /\ b - (b - x) = x
      OBVIOUS
    <2>2. b - x \in T
      BY <2>1
    <2>3. l <= b - x
      BY <1>2, <2>2
    <2> QED BY <1>3, <2>3
  <1> QED BY <1>3, <1>4

\* The listeners of a list have bounded places.
LEMMA PlacesBounded ==
    ASSUME NEW q \in Seq(ListenersOf(Threads))
    PROVE  \E b \in Nat : \A i \in 1 .. Len(q) : q[i].which <= b
  <1> DEFINE n == Len(q)
             D == {m \in 0 .. n : \E b \in Nat : \A i \in 1 .. m : q[i].which <= b}
  <1>1. n \in Nat /\ \A i \in 1 .. n : q[i].which \in Nat
    <2>1. n \in Nat /\ \A i \in 1 .. n : q[i] \in ListenersOf(Threads)
      OBVIOUS
    <2> HIDE DEF n
    <2> QED BY <2>1 DEF ListenersOf
  <1>2. 0 \in D
    BY <1>1
  <1>3. ASSUME NEW m \in 0 .. n - 1, m \in D
        PROVE  m + 1 \in D
    <2>1. PICK b \in Nat : \A i \in 1 .. m : q[i].which <= b
      BY <1>3
    <2>2. m + 1 \in 1 .. n /\ m + 1 \in 0 .. n /\ q[m + 1].which \in Nat
      BY <1>1
    <2> DEFINE c == b + q[m + 1].which
    <2>3. c \in Nat /\ b <= c /\ q[m + 1].which <= c
      BY <2>2
    <2> HIDE DEF c
    <2>4. \A i \in 1 .. m + 1 : q[i].which <= c
      <3> TAKE i \in 1 .. m + 1
      <3>1. CASE i = m + 1
        BY <2>3, <3>1
      <3>2. CASE i # m + 1
        <4>1. i \in 1 .. m /\ i \in 1 .. n
          BY <1>1, <2>2, <3>2
        <4>2. q[i].which <= b /\ q[i].which \in Nat
          BY <1>1, <2>1, <4>1
        <4> QED BY <2>3, <4>2
      <3> QED BY <3>1, <3>2
    <2> QED BY <2>2, <2>3, <2>4
  <1>4. 0 .. n \subseteq D
    <2> HIDE DEF D, n
    <2> QED BY <1>1, <1>2, <1>3, UpTo
  <1>5. n \in D
    <2> HIDE DEF D, n
    <2> QED BY <1>1, <1>4
  <1> QED BY <1>5
-----------------------------------------------------------------------------
\* e is one of the events evs.
Among(e, evs) == \E i \in 1 .. Len(evs) : evs[i] = e

\* The list q holds t's listener for its i-th event.
ListedAt(q, t, i) == \E k \in 1 .. Len(q) : q[k] = [thread |-> t, which |-> i]

\* The listeners of the thread u on the list q.
Own(q, u) == Select(q, ListenersOf({u}))

\* The listeners a thread appends are its own and name an event it waits for.
LEMMA ListenersType ==
    ASSUME NEW t \in Threads, NEW evs \in Seq(Events), NEW e
    PROVE  /\ Listeners(t, evs, e) \in Seq(ListenersOf({t}))
           /\ Listeners(t, evs, e) \in Seq(ListenersOf(Threads))
           /\ \A i \in 1 .. Len(evs) : evs[i] = e => ListedAt(Listeners(t, evs, e), t, i)
           /\ \A k \in 1 .. Len(Listeners(t, evs, e)) :
                 Listeners(t, evs, e)[k].which \in 1 .. Len(evs)
           /\ Listeners(t, evs, e) # <<>> => Among(e, evs)
  <1> DEFINE all == [i \in DOMAIN evs |-> [thread |-> t, which |-> i]]
             A == [thread : {t}, which : {i \in DOMAIN evs : evs[i] = e}]
             r == Listeners(t, evs, e)
  <1>1. all \in Seq(ListenersOf({t})) /\ Len(all) = Len(evs)
        /\ \A i \in 1 .. Len(evs) : all[i] = [thread |-> t, which |-> i]
    <2>1. DOMAIN evs = 1 .. Len(evs) /\ Len(evs) \in Nat
      OBVIOUS
    <2>2. \A i \in 1 .. Len(evs) : [thread |-> t, which |-> i] \in ListenersOf({t})
      BY <2>1 DEF ListenersOf
    <2>3. all \in [1 .. Len(evs) -> ListenersOf({t})]
      BY <2>1, <2>2
    <2>4. \A i \in 1 .. Len(evs) : all[i] = [thread |-> t, which |-> i]
      BY <2>1
    <2>5. all \in Seq(ListenersOf({t})) /\ Len(all) = Len(evs)
      <3> DEFINE L == ListenersOf({t})
      <3> HIDE DEF all, L
      <3>1. all \in [1 .. Len(evs) -> L]
        BY <2>3 DEF L
      <3>2. all \in Seq(L) /\ Len(all) = Len(evs)
        BY <2>1, <3>1
      <3> QED BY <3>2 DEF L
    <2> QED BY <2>4, <2>5
  <1>2. r = Select(all, A)
    BY DEF Listeners
  <1> HIDE DEF all, r
  <1>3. /\ r \in Seq(ListenersOf({t}))
        /\ \A k \in 1 .. Len(r) : r[k] \in A
        /\ \A p \in 1 .. Len(evs) : all[p] \in A => \E k \in 1 .. Len(r) : r[k] = all[p]
    <2> DEFINE L == ListenersOf({t})
    <2> HIDE DEF A, L
    <2>1. all \in Seq(L)
      BY <1>1 DEF L
    <2>2. /\ r \in Seq(L)
          /\ \A k \in 1 .. Len(r) : r[k] \in A
          /\ \A p \in 1 .. Len(all) : all[p] \in A => \E k \in 1 .. Len(r) : r[k] = all[p]
      BY <1>2, <2>1, SelectMembers
    <2> QED BY <1>1, <2>2 DEF L
  <1>4. \A i \in 1 .. Len(evs) : evs[i] = e => ListedAt(r, t, i)
    <2> TAKE i \in 1 .. Len(evs)
    <2> HAVE evs[i] = e
    <2>1. all[i] = [thread |-> t, which |-> i] /\ all[i] \in A
      BY <1>1
    <2> QED BY <1>3, <2>1 DEF ListedAt
  <1>5. \A k \in 1 .. Len(r) : r[k].which \in 1 .. Len(evs) /\ evs[r[k].which] = e
    BY <1>3
  <1>6. r \in Seq(ListenersOf(Threads))
    <2>1. \A k \in 1 .. Len(r) : r[k] \in ListenersOf(Threads)
      BY <1>3 DEF ListenersOf
    <2> QED BY <1>3, <2>1
  <1>7. r # <<>> => Among(e, evs)
    <2> SUFFICES ASSUME r # <<>> PROVE \E i \in 1 .. Len(evs) : evs[i] = e
      BY DEF Among
    <2>1. 1 \in 1 .. Len(r)
      BY <1>3
    <2> QED BY <1>5, <2>1
  <1> QED BY <1>3, <1>4, <1>5, <1>6, <1>7 DEF r

LEMMA NoListeners ==
    ASSUME NEW t \in Threads, NEW e
    PROVE  Listeners(t, <<>>, e) = <<>>
  <1> DEFINE r == Listeners(t, <<>>, e)
             none == <<>>
  <1>1. none \in Seq(Events) /\ Len(none) = 0
    OBVIOUS
  <1>2. r \in Seq(ListenersOf({t})) /\ \A k \in 1 .. Len(r) : r[k].which \in 1 .. 0
    <2>1. /\ Listeners(t, none, e) \in Seq(ListenersOf({t}))
          /\ \A k \in 1 .. Len(Listeners(t, none, e)) : Listeners(t, none, e)[k].which \in 1 .. Len(none)
      <3> HIDE DEF none
      <3> QED BY <1>1, ListenersType
    <2> QED BY <1>1, <2>1
  <1> HIDE DEF r
  <1>3. Len(r) \in Nat /\ ~ \E k \in 1 .. Len(r) : TRUE
    BY <1>2
  <1>4. Len(r) = 0
    BY <1>3
  <1>5. r = <<>>
    BY <1>2, <1>4
  <1> QED BY <1>5 DEF r

\* Taking one thread's listeners off a list and leaving the others'.
LEMMA ClearedLists ==
    ASSUME NEW q \in Seq(ListenersOf(Threads)), NEW t \in Threads, NEW u \in Threads
    PROVE  LET r == Select(q, ListenersOf(Threads \ {t}))
           IN  /\ r \in Seq(ListenersOf(Threads))
               /\ r # <<>> => q # <<>>
               /\ Own(r, u) = IF u = t THEN <<>> ELSE Own(q, u)
  <1> DEFINE A == ListenersOf(Threads \ {t})
             B == ListenersOf({u})
             r == Select(q, A)
  <1>1. /\ r \in Seq(ListenersOf(Threads))
        /\ \A i \in 1 .. Len(r) : r[i] \in A /\ \E p \in 1 .. Len(q) : r[i] = q[p]
    <2> HIDE DEF A
    <2> QED BY SelectMembers
  <1> HIDE DEF r
  <1>2. r # <<>> => q # <<>>
    <2> SUFFICES ASSUME r # <<>>, q = <<>> PROVE FALSE
      OBVIOUS
    <2>1. 1 \in 1 .. Len(r)
      BY <1>1
    <2>2. \E p \in 1 .. Len(q) : r[1] = q[p]
      BY <1>1, <2>1
    <2> QED BY <2>2
  <1>3. CASE u = t
    <2>1. \A i \in 1 .. Len(r) : r[i] \notin B
      BY <1>1, <1>3 DEF ListenersOf
    <2>2. Select(r, B) = <<>>
      <3> HIDE DEF A, B
      <3> QED BY <1>1, <2>1, SelectNone
    <2> QED BY <1>1, <1>2, <1>3, <2>2 DEF r, Own
  <1>4. CASE u # t
    <2>1. \A p \in 1 .. Len(q) : q[p] \in B <=> q[p] \in A /\ q[p] \in B
      BY <1>4 DEF ListenersOf
    <2>2. Select(r, B) = Select(q, B)
      <3> HIDE DEF A, B
      <3> QED BY <2>1, SelectTwice DEF r
    <2> QED BY <1>1, <1>2, <1>4, <2>2 DEF r, Own
  <1> QED BY <1>3, <1>4

\* Appending a thread's listeners.
LEMMA AppendedLists ==
    ASSUME NEW q \in Seq(ListenersOf(Threads)), NEW t \in Threads, NEW u \in Threads,
           NEW evs \in Seq(Events), NEW e
    PROVE  LET r == q \o Listeners(t, evs, e)
           IN  /\ r \in Seq(ListenersOf(Threads))
               /\ u = t => Own(r, u) = Own(q, u) \o Listeners(t, evs, e)
               /\ u # t => Own(r, u) = Own(q, u)
  <1> DEFINE B == ListenersOf({u})
             new == Listeners(t, evs, e)
             r == q \o new
  <1>1. /\ new \in Seq(ListenersOf({t})) /\ new \in Seq(ListenersOf(Threads))
    BY ListenersType
  <1>2. \A i \in 1 .. Len(new) : new[i] \in ListenersOf({t})
    BY <1>1
  <1> HIDE DEF new
  <1>3. r \in Seq(ListenersOf(Threads))
    BY <1>1, ConcatProperties
  <1>4. Select(r, B) = Select(q, B) \o Select(new, B)
    <2> HIDE DEF B
    <2> QED BY <1>1, SelectConcat
  <1>5. CASE u = t
    <2>1. Select(new, B) = new
      <3>1. \A i \in 1 .. Len(new) : new[i] \in B
        BY <1>2, <1>5
      <3> HIDE DEF B
      <3> QED BY <1>1, <3>1, SelectAll
    <2> QED BY <1>3, <1>4, <1>5, <2>1 DEF new, Own
  <1>6. CASE u # t
    <2>1. Select(new, B) = <<>>
      <3>1. \A i \in 1 .. Len(new) : new[i] \notin B
        BY <1>2, <1>6 DEF ListenersOf
      <3> HIDE DEF B
      <3> QED BY <1>1, <3>1, SelectNone
    <2>2. Select(q, B) \in Seq(ListenersOf(Threads))
      <3> HIDE DEF B
      <3> QED BY SelectMembers
    <2>3. Select(q, B) \o <<>> = Select(q, B)
      <3> DEFINE x == Select(q, B)
      <3> HIDE DEF x
      <3>1. x \o <<>> = x
        BY <2>2, ConcatEmptySeq DEF x
      <3> QED BY <3>1 DEF x
    <2> QED BY <1>3, <1>4, <1>6, <2>1, <2>3 DEF new, Own
  <1> QED BY <1>5, <1>6
-----------------------------------------------------------------------------
\* The first part of ListenersExact.
ListsAgree ==
    \A e \in Events, t \in Threads :
        Own(queue[e], t) = Listeners(t, listens[t], e)

LEMMA SameLists ==
    ASSUME ListsAgree, queue' = queue, listens' = listens
    PROVE  ListsAgree'
  <1> SUFFICES ASSUME NEW e \in Events, NEW u \in Threads
               PROVE  Own(queue'[e], u) = Listeners(u, listens'[u], e)
    BY DEF ListsAgree, Own, Listeners, ListenersOf
  <1>1. Own(queue[e], u) = Listeners(u, listens[u], e)
    BY DEF ListsAgree
  <1> QED BY <1>1

\* Thread::clear_listeners
LEMMA ClearStep ==
    ASSUME EventTypeOK, ListsAgree, NEW t \in Threads, clear_listeners(t)
    PROVE  /\ queue' \in [Events -> Seq(ListenersOf(Threads))]
           /\ listens' \in [Threads -> Seq(Events)]
           /\ ListsAgree'
           /\ \A e \in Events : queue'[e] # <<>> => queue[e] # <<>>
           /\ listens'[t] = <<>> /\ \A u \in Threads \ {t} : listens'[u] = listens[u]
  <1> DEFINE L == Seq(ListenersOf(Threads))
  <1>1. /\ queue \in [Events -> L] /\ listens \in [Threads -> Seq(Events)]
        /\ queue' = [e \in Events |-> Select(queue[e], ListenersOf(Threads \ {t}))]
        /\ listens' = [listens EXCEPT ![t] = <<>>]
    BY DEF EventTypeOK, clear_listeners, Cleared
  <1>2. \A e \in Events, u \in Threads :
           /\ queue'[e] \in L
           /\ queue'[e] # <<>> => queue[e] # <<>>
           /\ Own(queue'[e], u) = IF u = t THEN <<>> ELSE Own(queue[e], u)
    <2> TAKE e \in Events, u \in Threads
    <2> DEFINE q == queue[e]
    <2>1. q \in L /\ queue'[e] = Select(q, ListenersOf(Threads \ {t}))
      BY <1>1
    <2> HIDE DEF q
    <2>2. LET r == Select(q, ListenersOf(Threads \ {t}))
          IN  /\ r \in Seq(ListenersOf(Threads))
              /\ r # <<>> => q # <<>>
              /\ Own(r, u) = IF u = t THEN <<>> ELSE Own(q, u)
      BY <2>1, ClearedLists
    <2> QED BY <2>1, <2>2 DEF q
  <1> HIDE DEF L
  <1>3. listens'[t] = <<>> /\ \A u \in Threads \ {t} : listens'[u] = listens[u]
    BY <1>1
  <1>4. listens' \in [Threads -> Seq(Events)]
    <2>1. <<>> \in Seq(Events)
      OBVIOUS
    <2> QED BY <1>1, <2>1
  <1>5. queue' \in [Events -> L]
    BY <1>1, <1>2
  <1>6. ListsAgree'
    <2> SUFFICES ASSUME NEW e \in Events, NEW u \in Threads
                 PROVE  Own(queue'[e], u) = Listeners(u, listens'[u], e)
      BY DEF ListsAgree, Own, Listeners, ListenersOf
    <2>1. CASE u = t
      BY <1>2, <1>3, <2>1, NoListeners
    <2>2. CASE u # t
      BY <1>2, <1>3, <2>2 DEF ListsAgree
    <2> QED BY <2>1, <2>2
  <1> QED BY <1>2, <1>3, <1>4, <1>5, <1>6 DEF L

\* Becoming a listener of every event of evs.
LEMMA BlockStep ==
    ASSUME EventTypeOK, ListsAgree, NEW t \in Threads, NEW evs \in Seq(Events),
           block(t, evs)
    PROVE  /\ queue' \in [Events -> Seq(ListenersOf(Threads))]
           /\ listens' \in [Threads -> Seq(Events)]
           /\ ListsAgree'
           /\ \A e \in Events : queue'[e] # <<>> =>
                 queue[e] # <<>> \/ Among(e, evs)
           /\ listens'[t] = evs /\ \A u \in Threads \ {t} : listens'[u] = listens[u]
  <1> DEFINE L == Seq(ListenersOf(Threads))
             C(e) == Select(queue[e], ListenersOf(Threads \ {t}))
  <1>1. /\ queue \in [Events -> L] /\ listens \in [Threads -> Seq(Events)]
        /\ queue' = [e \in Events |-> C(e) \o Listeners(t, evs, e)]
        /\ listens' = [listens EXCEPT ![t] = evs]
    BY DEF EventTypeOK, block, Cleared
  <1>2. \A e \in Events, u \in Threads :
           /\ C(e) \in L
           /\ C(e) # <<>> => queue[e] # <<>>
           /\ Own(C(e), u) = IF u = t THEN <<>> ELSE Own(queue[e], u)
    <2> TAKE e \in Events, u \in Threads
    <2> DEFINE q == queue[e]
    <2>1. q \in L
      BY <1>1
    <2> HIDE DEF q
    <2>2. LET r == Select(q, ListenersOf(Threads \ {t}))
          IN  /\ r \in Seq(ListenersOf(Threads))
              /\ r # <<>> => q # <<>>
              /\ Own(r, u) = IF u = t THEN <<>> ELSE Own(q, u)
      BY <2>1, ClearedLists
    <2> QED BY <2>1, <2>2 DEF q
  <1> HIDE DEF C
  <1>3. \A e \in Events, u \in Threads :
           /\ queue'[e] \in L
           /\ u = t => Own(queue'[e], u) = Own(C(e), u) \o Listeners(t, evs, e)
           /\ u # t => Own(queue'[e], u) = Own(C(e), u)
    <2> TAKE e \in Events, u \in Threads
    <2> DEFINE q == C(e)
    <2>1. q \in L /\ queue'[e] = q \o Listeners(t, evs, e)
      BY <1>1, <1>2
    <2> HIDE DEF q
    <2>2. q \o Listeners(t, evs, e) \in Seq(ListenersOf(Threads))
      BY <2>1, AppendedLists
    <2>3. /\ u = t => Own(q \o Listeners(t, evs, e), u) = Own(q, u) \o Listeners(t, evs, e)
          /\ u # t => Own(q \o Listeners(t, evs, e), u) = Own(q, u)
      BY <2>1, AppendedLists
    <2> QED BY <2>1, <2>2, <2>3 DEF q
  <1>4. listens'[t] = evs /\ \A u \in Threads \ {t} : listens'[u] = listens[u]
    BY <1>1
  <1>5. listens' \in [Threads -> Seq(Events)]
    BY <1>1
  <1>6. queue' \in [Events -> L]
    <2> HIDE DEF L
    <2> QED BY <1>1, <1>3
  <1>7. ListsAgree'
    <2> SUFFICES ASSUME NEW e \in Events, NEW u \in Threads
                 PROVE  Own(queue'[e], u) = Listeners(u, listens'[u], e)
      BY DEF ListsAgree, Own, Listeners, ListenersOf
    <2>1. CASE u = t
      <3>1. Own(queue'[e], u) = <<>> \o Listeners(t, evs, e)
        BY <1>2, <1>3, <2>1
      <3>2. Listeners(t, evs, e) \in Seq(ListenersOf(Threads))
        BY ListenersType
      <3>3. <<>> \o Listeners(t, evs, e) = Listeners(t, evs, e)
        BY <3>2, ConcatEmptySeq
      <3> QED BY <1>4, <2>1, <3>1, <3>3
    <2>2. CASE u # t
      BY <1>2, <1>3, <1>4, <2>2 DEF ListsAgree
    <2> QED BY <2>1, <2>2
  <1>8. \A e \in Events : queue'[e] # <<>> =>
           queue[e] # <<>> \/ Among(e, evs)
    <2> TAKE e \in Events
    <2> HAVE queue'[e] # <<>>
    <2>1. CASE C(e) # <<>>
      BY <1>2, <2>1
    <2>2. CASE C(e) = <<>>
      <3>1. queue'[e] = <<>> \o Listeners(t, evs, e)
        BY <1>1, <2>2
      <3>2. Listeners(t, evs, e) \in Seq(ListenersOf(Threads))
        BY ListenersType
      <3>3. Listeners(t, evs, e) # <<>>
        BY <3>1, <3>2, ConcatEmptySeq
      <3> QED BY <3>3, ListenersType
    <2> QED BY <2>1, <2>2
  <1> QED BY <1>4, <1>5, <1>6, <1>7, <1>8 DEF L

\* Event::trigger wakes the first listeners of the list and nobody else, and
\* remembers the trigger when there is none.
LEMMA TriggerEffect ==
    ASSUME EventTypeOK, NEW q \in [Events -> Seq(ListenersOf(Threads))], NEW e \in Events,
           NEW drop \in BOOLEAN, NEW n, trigger(q, e, drop, n)
    PROVE  /\ state' \in [Threads -> {"READY", "BLOCKED", "ZOMBIE", "NONE"}]
           /\ which' \in [Threads -> Nat]
           /\ by_signal' \in [Threads -> BOOLEAN]
           /\ \A u \in Threads : state'[u] = state[u] \/ (state[u] = "BLOCKED" /\ state'[u] = "READY")
           /\ \A i \in 1 .. Len(q[e]) : i <= n => state'[q[e][i].thread] # "BLOCKED"
           /\ pending' = IF q[e] = <<>> /\ ~drop THEN [pending EXCEPT ![e] = @ + 1] ELSE pending
  <1> DEFINE l == q[e]
             L == FirstListeners(l, n)
             woken == {m.thread : m \in L}
  <1>1. l \in Seq(ListenersOf(Threads)) /\ DOMAIN l = 1 .. Len(l)
    OBVIOUS
  <1>2. \A i \in 1 .. Len(l) : l[i].thread \in Threads /\ l[i].which \in Nat
    <2>1. \A i \in 1 .. Len(l) : l[i] \in ListenersOf(Threads)
      BY <1>1
    <2> HIDE DEF l
    <2> QED BY <2>1 DEF ListenersOf
  <1>3. PICK b \in Nat : \A i \in 1 .. Len(l) : l[i].which <= b
    <2> HIDE DEF l
    <2> QED BY <1>1, PlacesBounded
  <1>4. wake(L) /\ pending' = IF q[e] = <<>> /\ ~drop THEN [pending EXCEPT ![e] = @ + 1] ELSE pending
    BY DEF trigger
  <1> HIDE DEF l
  <1>5. \A m \in L : m.thread \in Threads /\ m.which \in Nat /\ m.which <= b
    BY <1>1, <1>2, <1>3 DEF FirstListeners
  <1>6. \A i \in 1 .. Len(l) : i <= n => l[i] \in L
    BY <1>1 DEF FirstListeners
  <1> HIDE DEF L
  <1>7. which' \in [Threads -> Nat]
    <2> DEFINE W(t) == {m.which : m \in {k \in L : k.thread = t}}
               last(t) == CHOOSE i \in W(t) : \A m \in L : m.thread = t => m.which <= i
    <2>1. which' = [t \in Threads |-> IF t \in woken THEN last(t) ELSE which[t]]
      BY <1>4 DEF wake
    <2>2. ASSUME NEW t \in Threads, t \in woken
          PROVE  last(t) \in Nat
      <3>1. W(t) \in SUBSET Nat /\ W(t) # {} /\ \A x \in W(t) : x <= b
        BY <1>5, <2>2
      <3>2. PICK g \in W(t) : \A x \in W(t) : x <= g
        <4> HIDE DEF W
        <4> QED BY <3>1, GreatestElement
      <3>3. \A m \in L : m.thread = t => m.which <= g
        BY <3>2
      <3>4. last(t) \in W(t)
        <4> HIDE DEF W
        <4> QED BY <3>2, <3>3
      <3> HIDE DEF last, W
      <3> QED BY <3>1, <3>4
    <2> HIDE DEF last, woken
    <2>3. which \in [Threads -> Nat]
      BY DEF EventTypeOK
    <2> QED BY <2>1, <2>2, <2>3
  <1>8. /\ state' = [t \in Threads |-> IF t \in woken /\ state[t] = "BLOCKED" THEN "READY" ELSE state[t]]
        /\ by_signal' = [t \in Threads |-> by_signal[t] /\ ~(t \in woken /\ state[t] = "BLOCKED")]
    BY <1>4 DEF wake
  <1>9. \A i \in 1 .. Len(l) : i <= n => l[i].thread \in woken
    BY <1>6
  <1> HIDE DEF woken
  <1>10. /\ state' \in [Threads -> {"READY", "BLOCKED", "ZOMBIE", "NONE"}]
         /\ \A u \in Threads : state'[u] = state[u] \/ (state[u] = "BLOCKED" /\ state'[u] = "READY")
    BY <1>8 DEF EventTypeOK
  <1>11. by_signal' \in [Threads -> BOOLEAN]
    BY <1>8 DEF EventTypeOK
  <1>12. \A i \in 1 .. Len(l) : i <= n => state'[l[i].thread] # "BLOCKED"
    BY <1>2, <1>8, <1>9
  <1> QED BY <1>4, <1>7, <1>10, <1>11, <1>12 DEF l
-----------------------------------------------------------------------------
\* The second part of ListenersExact.
SleepersListen == \A t \in Threads : state[t] = "BLOCKED" => listens[t] # <<>>

LEMMA EventParts ==
    EventSafe <=> /\ EventTypeOK /\ ListsAgree /\ SleepersListen
                  /\ NoTriggerForgotten /\ SignalWakes
  BY Zenon DEF EventSafe, ListenersExact, ListsAgree, SleepersListen, Own

\* A trigger when nothing but the listeners of a running thread was taken off
\* the lists, which are then q.
LEMMA TriggerSafe ==
    ASSUME EventSafe, NEW q, NEW e \in Events, NEW drop \in BOOLEAN, NEW n,
           trigger(q, e, drop, n), queue' = q, signals' = signals,
           queue' \in [Events -> Seq(ListenersOf(Threads))],
           listens' \in [Threads -> Seq(Events)],
           ListsAgree',
           \A f \in Events : queue'[f] # <<>> => queue[f] # <<>>,
           \A u \in Threads : state[u] = "BLOCKED" => listens'[u] # <<>>,
           q[e] = <<>> => drop \/ CanTrigger(e)
    PROVE  EventSafe'
  <1>1. EventTypeOK /\ SleepersListen /\ NoTriggerForgotten /\ SignalWakes
    BY EventParts
  <1>2. /\ state' \in [Threads -> {"READY", "BLOCKED", "ZOMBIE", "NONE"}]
        /\ which' \in [Threads -> Nat]
        /\ by_signal' \in [Threads -> BOOLEAN]
        /\ \A u \in Threads : state'[u] = state[u] \/ (state[u] = "BLOCKED" /\ state'[u] = "READY")
        /\ pending' = IF q[e] = <<>> /\ ~drop THEN [pending EXCEPT ![e] = @ + 1] ELSE pending
    <2>1. q \in [Events -> Seq(ListenersOf(Threads))]
      OBVIOUS
    <2> QED BY <1>1, <2>1, TriggerEffect
  <1>3. pending' \in [Events -> 0 .. MaxTriggers]
    BY <1>1, <1>2, EventAssumption DEF EventTypeOK, CanTrigger
  <1>4. EventTypeOK'
    BY <1>1, <1>2, <1>3 DEF EventTypeOK
  <1>5. SleepersListen'
    BY <1>2 DEF SleepersListen
  <1>6. NoTriggerForgotten'
    BY <1>1, <1>2 DEF NoTriggerForgotten, EventTypeOK
  <1>7. SignalWakes'
    BY <1>1, <1>2 DEF SignalWakes
  <1>8. (EventTypeOK /\ ListsAgree /\ SleepersListen /\ NoTriggerForgotten /\ SignalWakes)'
    BY <1>4, <1>5, <1>6, <1>7
  <1> QED BY <1>8, EventParts, PTL

\* The steps in which a thread leaves its events or nothing happens to the lists.
LEMMA LeaveSafe ==
    ASSUME EventSafe, NEW t \in Threads, clear_listeners(t),
           UNCHANGED <<state, pending, which, by_signal, signals>>,
           state[t] # "BLOCKED"
    PROVE  EventSafe'
  <1>1. EventTypeOK /\ ListsAgree /\ SleepersListen /\ NoTriggerForgotten /\ SignalWakes
    BY EventParts
  <1>2. /\ queue' \in [Events -> Seq(ListenersOf(Threads))]
        /\ listens' \in [Threads -> Seq(Events)]
        /\ ListsAgree'
        /\ \A e \in Events : queue'[e] # <<>> => queue[e] # <<>>
        /\ listens'[t] = <<>> /\ \A u \in Threads \ {t} : listens'[u] = listens[u]
    BY <1>1, ClearStep
  <1>3. EventTypeOK'
    BY <1>1, <1>2 DEF EventTypeOK
  <1>4. SleepersListen' /\ SignalWakes'
    BY <1>1, <1>2 DEF SleepersListen, SignalWakes
  <1>5. NoTriggerForgotten'
    BY <1>1, <1>2 DEF NoTriggerForgotten
  <1>6. (EventTypeOK /\ ListsAgree /\ SleepersListen /\ NoTriggerForgotten /\ SignalWakes)'
    BY <1>2, <1>3, <1>4, <1>5
  <1> QED BY <1>6, EventParts, PTL

\* Blocking without a pending signal when no trigger of the events is remembered.
LEMMA BlockSafe ==
    ASSUME EventSafe, NEW t \in Threads, NEW evs \in Seq(Events), evs # <<>>,
           block(t, evs), ~signals[t],
           pending' \in [Events -> 0 .. MaxTriggers],
           \A e \in Events : pending'[e] = pending[e] \/ pending'[e] = 0,
           \A i \in 1 .. Len(evs) : pending'[evs[i]] = 0,
           UNCHANGED <<which, by_signal, signals>>
    PROVE  EventSafe'
  <1>1. EventTypeOK /\ ListsAgree /\ SleepersListen /\ NoTriggerForgotten /\ SignalWakes
    BY EventParts
  <1>2. /\ queue' \in [Events -> Seq(ListenersOf(Threads))]
        /\ listens' \in [Threads -> Seq(Events)]
        /\ ListsAgree'
        /\ \A e \in Events : queue'[e] # <<>> => queue[e] # <<>> \/ Among(e, evs)
        /\ listens'[t] = evs /\ \A u \in Threads \ {t} : listens'[u] = listens[u]
    BY <1>1, BlockStep
  <1>3. state' = [state EXCEPT ![t] = "BLOCKED"]
    BY DEF block
  <1>4. EventTypeOK'
    BY <1>1, <1>2, <1>3 DEF EventTypeOK
  <1>5. SleepersListen' /\ SignalWakes'
    BY <1>1, <1>2, <1>3 DEF SleepersListen, SignalWakes, EventTypeOK
  <1>6. NoTriggerForgotten'
    <2> SUFFICES ASSUME NEW e \in Events, queue'[e] # <<>> PROVE pending'[e] = 0
      BY DEF NoTriggerForgotten
    <2>1. CASE queue[e] # <<>>
      BY <1>1, <2>1 DEF NoTriggerForgotten
    <2>2. CASE Among(e, evs)
      BY <2>2 DEF Among
    <2> QED BY <1>2, <2>1, <2>2
  <1>7. (EventTypeOK /\ ListsAgree /\ SleepersListen /\ NoTriggerForgotten /\ SignalWakes)'
    BY <1>2, <1>4, <1>5, <1>6
  <1> QED BY <1>7, EventParts, PTL

\* What happens to a thread whatever it does.
LEMMA EnvironmentSafe ==
    ASSUME EventSafe, NEW t \in Threads,
           \/ \E masked \in BOOLEAN : send_signal(t, masked)
           \/ dispatch_signal(t) \/ terminate_thread(t) \/ destroy(t) \/ create(t)
    PROVE  EventSafe'
  <1>1. EventTypeOK /\ ListsAgree /\ SleepersListen /\ NoTriggerForgotten /\ SignalWakes
    BY EventParts
  <1>2. SUFFICES (EventTypeOK /\ ListsAgree /\ SleepersListen /\ NoTriggerForgotten /\ SignalWakes)'
    BY EventParts, PTL
  <1>3. CASE destroy(t)
    <2>1. /\ clear_listeners(t)
          /\ state[t] = "ZOMBIE" /\ state' = [state EXCEPT ![t] = "NONE"]
          /\ signals' = [signals EXCEPT ![t] = FALSE]
          /\ by_signal' = [by_signal EXCEPT ![t] = FALSE]
          /\ which' = [which EXCEPT ![t] = 0]
          /\ pending' = pending
      BY <1>3 DEF destroy
    <2>2. /\ queue' \in [Events -> Seq(ListenersOf(Threads))]
          /\ listens' \in [Threads -> Seq(Events)]
          /\ ListsAgree'
          /\ \A e \in Events : queue'[e] # <<>> => queue[e] # <<>>
          /\ listens'[t] = <<>> /\ \A u \in Threads \ {t} : listens'[u] = listens[u]
      BY <1>1, <2>1, ClearStep
    <2>3. EventTypeOK'
      BY <1>1, <2>1, <2>2 DEF EventTypeOK
    <2>4. SleepersListen' /\ SignalWakes'
      BY <1>1, <2>1, <2>2 DEF SleepersListen, SignalWakes, EventTypeOK
    <2>5. NoTriggerForgotten'
      BY <1>1, <2>1, <2>2 DEF NoTriggerForgotten
    <2> QED BY <2>2, <2>3, <2>4, <2>5
  <1>4. CASE \/ \E masked \in BOOLEAN : send_signal(t, masked)
             \/ dispatch_signal(t) \/ terminate_thread(t) \/ create(t)
    <2>1. UNCHANGED <<listens, queue, pending, which>>
      BY <1>4 DEF send_signal, dispatch_signal, terminate_thread, create
    <2>2. ListsAgree'
      BY <1>1, <2>1, SameLists
    <2>3. NoTriggerForgotten'
      BY <1>1, <2>1 DEF NoTriggerForgotten
    <2>4. EventTypeOK'
      BY <1>1, <1>4 DEF EventTypeOK, send_signal, dispatch_signal, terminate_thread, create
    <2>5. SleepersListen' /\ SignalWakes'
      BY <1>1, <1>4 DEF SleepersListen, SignalWakes, EventTypeOK, send_signal, dispatch_signal,
                        terminate_thread, create
    <2> QED BY <2>2, <2>3, <2>4, <2>5
  <1> QED BY <1>3, <1>4
-----------------------------------------------------------------------------
\* The first loop of Event::wait finds a remembered trigger if there is one.
LEMMA FirstPendingIsPending ==
    ASSUME NEW evs \in Seq(Events), EventTypeOK
    PROVE  /\ FirstPending(evs) > 0 => FirstPending(evs) \in 1 .. Len(evs)
                                       /\ pending[evs[FirstPending(evs)]] > 0
           /\ ~(FirstPending(evs) > 0) => \A i \in 1 .. Len(evs) : pending[evs[i]] = 0
  <1> DEFINE S == {i \in DOMAIN evs : pending[evs[i]] > 0}
             m == CHOOSE i \in S : \A j \in S : i <= j
  <1>1. FirstPending(evs) = IF S = {} THEN 0 ELSE m
    BY DEF FirstPending
  <1>2. DOMAIN evs = 1 .. Len(evs) /\ Len(evs) \in Nat /\ S \in SUBSET Nat
    OBVIOUS
  <1>3. S # {} => m \in S
    <2> HIDE DEF S
    <2> QED BY <1>2, LeastElement
  <1>4. \A i \in 1 .. Len(evs) : pending[evs[i]] \in Nat
    BY EventAssumption DEF EventTypeOK
  <1> HIDE DEF m
  <1>5. CASE S = {}
    BY <1>1, <1>2, <1>4, <1>5
  <1>6. CASE S # {}
    BY <1>1, <1>2, <1>3, <1>6
  <1> QED BY <1>5, <1>6

\* Event::wait loses nothing: neither a trigger it remembers nor a signal.
LEMMA WaitSafe ==
    ASSUME EventSafe, NEW t \in Threads, NEW evs \in Waits, wait(t, evs)
    PROVE  EventSafe'
  <1>1. EventTypeOK /\ ListsAgree /\ SleepersListen /\ NoTriggerForgotten /\ SignalWakes
    BY EventParts
  <1>2. evs \in Seq(Events) /\ evs # <<>>
    BY EventAssumption
  <1>3. Runs(t) /\ ~signals[t] /\ UNCHANGED <<which, by_signal, signals>>
    BY DEF wait
  <1>4. CASE FirstPending(evs) > 0
    <2> DEFINE e == evs[FirstPending(evs)]
    <2>1. pending' = [pending EXCEPT ![e] = @ - 1] /\ UNCHANGED <<state, listens, queue>>
      BY <1>4 DEF wait
    <2>2. e \in Events /\ pending[e] > 0
      BY <1>1, <1>2, <1>4, FirstPendingIsPending
    <2> HIDE DEF e
    <2>3. EventTypeOK'
      <3>1. pending[e] - 1 \in 0 .. MaxTriggers
        BY <1>1, <2>2, EventAssumption DEF EventTypeOK
      <3> QED
        BY <1>1, <1>3, <2>1, <2>2, <3>1 DEF EventTypeOK
    <2>4. NoTriggerForgotten'
      BY <1>1, <2>1, <2>2 DEF NoTriggerForgotten, EventTypeOK
    <2>5. SleepersListen' /\ SignalWakes'
      BY <1>1, <1>3, <2>1 DEF SleepersListen, SignalWakes
    <2>6. ListsAgree'
      BY <1>1, <2>1, SameLists
    <2>7. (EventTypeOK /\ ListsAgree /\ SleepersListen /\ NoTriggerForgotten /\ SignalWakes)'
      BY <2>3, <2>4, <2>5, <2>6
    <2> QED BY <2>7, EventParts, PTL
  <1>5. CASE ~(FirstPending(evs) > 0)
    <2>1. block(t, evs) /\ pending' = pending
      BY <1>5 DEF wait
    <2>2. \A i \in 1 .. Len(evs) : pending[evs[i]] = 0
      BY <1>1, <1>2, <1>5, FirstPendingIsPending
    <2>3. pending' \in [Events -> 0 .. MaxTriggers]
      BY <1>1, <2>1 DEF EventTypeOK
    <2> QED BY <1>2, <1>3, <2>1, <2>2, <2>3, BlockSafe
  <1> QED BY <1>4, <1>5

LEMMA EventStepSafe == EventSafe /\ [EventNext]_eventVars => EventSafe'
  <1> SUFFICES ASSUME EventSafe, [EventNext]_eventVars PROVE EventSafe'
    OBVIOUS
  <1>1. EventTypeOK /\ ListsAgree /\ SleepersListen /\ NoTriggerForgotten /\ SignalWakes
    BY EventParts
  <1>2. ASSUME NEW t \in Threads, NEW evs \in Waits, wait(t, evs)
        PROVE  EventSafe'
    BY <1>2, WaitSafe
  <1>3. ASSUME NEW t \in Threads, wait_return(t)
        PROVE  EventSafe'
    BY <1>3, LeaveSafe DEF wait_return
  <1>4. ASSUME NEW t \in Threads,
               \/ \E masked \in BOOLEAN : send_signal(t, masked)
               \/ dispatch_signal(t) \/ terminate_thread(t) \/ destroy(t) \/ create(t)
        PROVE  EventSafe'
    BY <1>4, EnvironmentSafe
  <1>5. ASSUME NEW e \in Events, NEW drop \in BOOLEAN, NEW n, TriggerStep(e, drop, n)
        PROVE  EventSafe'
    <2>1. /\ trigger(queue, e, drop, n) /\ queue' = queue /\ listens' = listens
          /\ signals' = signals /\ (drop \/ CanTrigger(e))
      BY <1>5 DEF TriggerStep
    <2>2. ListsAgree'
      BY <1>1, <2>1, SameLists
    <2>3. /\ queue' \in [Events -> Seq(ListenersOf(Threads))]
          /\ listens' \in [Threads -> Seq(Events)]
          /\ \A u \in Threads : state[u] = "BLOCKED" => listens'[u] # <<>>
          /\ \A f \in Events : queue'[f] # <<>> => queue[f] # <<>>
      BY <1>1, <2>1 DEF EventTypeOK, SleepersListen
    <2> QED BY <2>1, <2>2, <2>3, TriggerSafe
  <1>6. CASE UNCHANGED eventVars
    <2>1. ListsAgree'
      BY <1>1, <1>6, SameLists DEF eventVars
    <2>2. (EventTypeOK /\ SleepersListen /\ NoTriggerForgotten /\ SignalWakes)'
      BY <1>1, <1>6 DEF eventVars, EventTypeOK, SleepersListen, NoTriggerForgotten, SignalWakes
    <2>3. (EventTypeOK /\ ListsAgree /\ SleepersListen /\ NoTriggerForgotten /\ SignalWakes)'
      BY <2>1, <2>2
    <2> QED BY <2>3, EventParts, PTL
  <1> QED BY <1>2, <1>3, <1>4, <1>5, <1>6 DEF EventNext

LEMMA EventInitSafe == EventInit => EventSafe
  <1> SUFFICES ASSUME EventInit PROVE EventSafe
    OBVIOUS
  <1>1. EventTypeOK
    <2>1. <<>> \in Seq(Events) /\ <<>> \in Seq(ListenersOf(Threads))
      OBVIOUS
    <2>2. queue \in [Events -> Seq(ListenersOf(Threads))] /\ listens \in [Threads -> Seq(Events)]
      BY <2>1 DEF EventInit
    <2>3. pending \in [Events -> 0 .. MaxTriggers]
      BY EventAssumption DEF EventInit
    <2> QED BY <2>2, <2>3 DEF EventInit, EventTypeOK
  <1>2. ListsAgree
    <2> SUFFICES ASSUME NEW e \in Events, NEW u \in Threads
                 PROVE  Own(queue[e], u) = Listeners(u, listens[u], e)
      BY DEF ListsAgree
    <2>1. queue[e] = <<>> /\ listens[u] = <<>>
      BY DEF EventInit
    <2>2. Listeners(u, <<>>, e) = <<>>
      BY NoListeners
    <2>3. Own(<<>>, u) = <<>>
      <3> DEFINE A == ListenersOf({u})
                 none == <<>>
      <3>1. none \in Seq(Nat) /\ \A p \in 1 .. Len(none) : none[p] \notin A
        OBVIOUS
      <3>2. Select(none, A) = <<>>
        <4> HIDE DEF A, none
        <4> QED BY <3>1, SelectNone
      <3> QED BY <3>2 DEF Own
    <2> QED BY <2>1, <2>2, <2>3
  <1>3. SleepersListen /\ NoTriggerForgotten /\ SignalWakes
    BY DEF EventInit, SleepersListen, NoTriggerForgotten, SignalWakes
  <1> QED BY <1>1, <1>2, <1>3, EventParts

\* EventSafe for any threads, events and waits: whoever sleeps in Event::wait is
\* listed with each of its events, and neither a trigger nor a signal passes it by.
THEOREM NoWakeupLost == EventSpec => []EventSafe
  BY EventInitSafe, EventStepSafe, PTL DEF EventSpec
-----------------------------------------------------------------------------
\* A thread that waits for the pipe alone is on its list once, one that waits for
\* nothing is not on it.
LEMMA ListedOnce ==
    ASSUME NEW u \in Threads, NEW evs \in {<<>>, <<Pipe>>}
    PROVE  Len(Listeners(u, evs, Pipe)) <= 1
  <1>1. CASE evs = <<>>
    BY <1>1, NoListeners
  <1>2. CASE evs = <<Pipe>>
    <2> DEFINE all == [i \in DOMAIN evs |-> [thread |-> u, which |-> i]]
               A == [thread : {u}, which : {i \in DOMAIN evs : evs[i] = Pipe}]
    <2>1. Listeners(u, evs, Pipe) = Select(all, A)
      BY DEF Listeners
    <2>2. DOMAIN evs = 1 .. 1
      BY <1>2
    <2>3. all \in [1 .. 1 -> ListenersOf(Threads)]
      BY <2>2 DEF ListenersOf
    <2> HIDE DEF all, A
    <2>4. all \in Seq(ListenersOf(Threads)) /\ Len(all) = 1
      <3> DEFINE L == ListenersOf(Threads)
                 one == 1
      <3>1. all \in [1 .. one -> L] /\ one \in Nat
        BY <2>3
      <3> HIDE DEF L, one
      <3>2. all \in Seq(L) /\ Len(all) = one
        BY <3>1
      <3> QED BY <3>2 DEF L, one
    <2> QED BY <2>1, <2>4, SelectFromOne
  <1> QED BY <1>1, <1>2

\* A list that agrees with threads which wait for the pipe or for nothing holds
\* every thread that waits, and none twice.
LEMMA PipeList ==
    ASSUME NEW q \in Seq(ListenersOf(Threads)), NEW ls \in [Threads -> {<<>>, <<Pipe>>}],
           \A u \in Threads : Own(q, u) = Listeners(u, ls[u], Pipe)
    PROVE  /\ Len(q) <= AllListeners
           /\ \A u \in Threads : ls[u] # <<>> => \E i \in 1 .. Len(q) : q[i].thread = u
  <1> DEFINE n == Len(q)
  <1>1. n \in Nat /\ \A i \in 1 .. n : q[i] \in ListenersOf(Threads)
    OBVIOUS
  <1>2. ASSUME NEW a \in 1 .. n, NEW b \in 1 .. n, a # b, q[a].thread = q[b].thread
        PROVE  FALSE
    <2> DEFINE u == q[a].thread
    <2>1. u \in Threads /\ q[a] \in ListenersOf({u}) /\ q[b] \in ListenersOf({u})
      BY <1>1, <1>2 DEF ListenersOf
    <2> HIDE DEF u
    <2>2. Len(Own(q, u)) >= 2 /\ Own(q, u) \in Seq(ListenersOf(Threads))
      <3> DEFINE A == ListenersOf({u})
                 S == ListenersOf(Threads)
      <3>1. q \in Seq(S) /\ q[a] \in A /\ q[b] \in A
        BY <2>1
      <3> HIDE DEF A, S
      <3>2. Len(Select(q, A)) >= 2 /\ Select(q, A) \in Seq(S)
        BY <1>2, <3>1, SelectTwoPlaces, SelectMembers
      <3> QED BY <3>2 DEF A, S, Own
    <2>3. Len(Own(q, u)) <= 1
      BY <2>1, ListedOnce
    <2>4. Len(Own(q, u)) \in Nat
      BY <2>2
    <2> QED BY <2>2, <2>3, <2>4
  <1>3. n <= AllListeners
    <2> DEFINE f == [i \in 1 .. n |-> q[i].thread]
    <2>1. f \in [1 .. n -> Threads]
      BY <1>1 DEF ListenersOf
    <2>2. f \in Injection(1 .. n, Threads)
      BY <1>2, <2>1 DEF Injection, IsInjective
    <2> HIDE DEF f
    <2>3. Cardinality(1 .. n) <= Cardinality(Threads)
      BY <2>2, FS_Injection, FiniteAssumption
    <2>4. Cardinality(1 .. n) = n
      <3>1. 1 \in Int /\ n \in Nat
        BY <1>1
      <3> HIDE DEF n
      <3>2. Cardinality(1 .. n) = IF 1 > n THEN 0 ELSE n - 1 + 1
        BY <3>1, FS_Interval
      <3> QED BY <3>1, <3>2
    <2> QED BY <2>3, <2>4 DEF AllListeners
  <1>4. ASSUME NEW u \in Threads, ls[u] # <<>>
        PROVE  \E i \in 1 .. n : q[i].thread = u
    <2> DEFINE evs == <<Pipe>>
               r == Own(q, u)
    <2>1. ls[u] = evs /\ evs \in Seq(Events) /\ evs[1] = Pipe /\ 1 \in 1 .. Len(evs)
      BY <1>4, PipeAssumption
    <2> HIDE DEF evs
    <2>2. PICK k \in 1 .. Len(r) : r[k] = [thread |-> u, which |-> 1]
      <3>1. r = Listeners(u, evs, Pipe)
        BY <2>1
      <3>2. ListedAt(Listeners(u, evs, Pipe), u, 1)
        BY <2>1, ListenersType
      <3> HIDE DEF r
      <3> QED BY <3>1, <3>2 DEF ListedAt
    <2>3. \E p \in 1 .. n : r[k] = q[p]
      <3> DEFINE A == ListenersOf({u})
      <3>1. r = Select(q, A)
        BY DEF Own
      <3> HIDE DEF A, r
      <3> QED BY <2>2, <3>1, SelectMembers
    <2> QED BY <2>2, <2>3
  <1> QED BY <1>3, <1>4
-----------------------------------------------------------------------------
\* A thread of this model waits for the pipe alone, and only in a call.
WaitsInCall ==
    \A t \in Threads : /\ listens[t] \in {<<>>, <<Pipe>>}
                       /\ listens[t] # <<>> => call[t] # NoCall

PipeType == data \in 0 .. Capacity /\ open \subseteq Ends /\ call \in [Threads -> Calls]

\* The inductive invariant.
PipeInv == EventSafe /\ PipeType /\ EndsCounted /\ WaitsInCall /\ NoneStranded

\* The trigger of a pipe wakes every sleeper, so its limit is never too low.
LEMMA NobodySleeps ==
    ASSUME EventTypeOK, NEW q, trigger(q, Pipe, FALSE, AllListeners), queue' = q,
           q \in [Events -> Seq(ListenersOf(Threads))], ListsAgree',
           listens' \in [Threads -> Seq(Events)],
           \A u \in Threads : listens'[u] \in {<<>>, <<Pipe>>},
           \A u \in Threads : state[u] = "BLOCKED" => listens'[u] # <<>>
    PROVE  \A u \in Threads : state'[u] # "BLOCKED"
  <1> DEFINE l == q[Pipe]
             ls == listens'
  <1>1. Pipe \in Events
    BY PipeAssumption
  <1>2. l \in Seq(ListenersOf(Threads))
    BY <1>1
  <1>3. /\ \A u \in Threads : state'[u] = state[u] \/ (state[u] = "BLOCKED" /\ state'[u] = "READY")
        /\ \A i \in 1 .. Len(l) : i <= AllListeners => state'[l[i].thread] # "BLOCKED"
    BY <1>1, TriggerEffect
  <1>4. \A u \in Threads : Own(l, u) = Listeners(u, ls[u], Pipe)
    BY <1>1 DEF ListsAgree, Own, Listeners, ListenersOf
  <1>5. ls \in [Threads -> {<<>>, <<Pipe>>}]
    OBVIOUS
  <1> HIDE DEF l, ls
  <1>6. /\ Len(l) <= AllListeners
        /\ \A u \in Threads : ls[u] # <<>> => \E i \in 1 .. Len(l) : l[i].thread = u
    BY <1>2, <1>4, <1>5, PipeList
  <1>7. Len(l) \in Nat /\ AllListeners \in Nat
    BY <1>2, FiniteAssumption, FS_CardinalityType DEF AllListeners
  <1> SUFFICES ASSUME NEW u \in Threads, state[u] = "BLOCKED" PROVE state'[u] # "BLOCKED"
    BY <1>3
  <1>8. PICK i \in 1 .. Len(l) : l[i].thread = u
    BY <1>6 DEF ls
  <1>9. i <= AllListeners
    BY <1>6, <1>7
  <1> QED BY <1>3, <1>8, <1>9

\* A thread that waits for the pipe is on its list, so that no trigger of it is
\* remembered.
LEMMA ListedNonePending ==
    ASSUME EventSafe, WaitsInCall, NEW t \in Threads, listens[t] # <<>>
    PROVE  CanTrigger(Pipe)
  <1> DEFINE l == queue[Pipe]
             ls == listens
  <1>1. EventTypeOK /\ ListsAgree /\ NoTriggerForgotten /\ Pipe \in Events
    BY EventParts, PipeAssumption
  <1>2. l \in Seq(ListenersOf(Threads)) /\ ls \in [Threads -> {<<>>, <<Pipe>>}]
    BY <1>1 DEF EventTypeOK, WaitsInCall
  <1>3. \A u \in Threads : Own(l, u) = Listeners(u, ls[u], Pipe)
    BY <1>1 DEF ListsAgree
  <1>4. ls[t] # <<>>
    OBVIOUS
  <1> HIDE DEF l, ls
  <1>5. \E i \in 1 .. Len(l) : l[i].thread = t
    BY <1>2, <1>3, <1>4, PipeList
  <1>6. l # <<>>
    BY <1>5
  <1>7. pending[Pipe] = 0
    BY <1>1, <1>6 DEF NoTriggerForgotten, l
  <1> QED BY <1>7, PipeAssumption, EventAssumption DEF CanTrigger

LEMMA CallFields ==
    ASSUME NEW c \in Calls
    PROVE  /\ c.op \in {"none", "read", "write", "poll"}
           /\ c.op = "none" <=> c = NoCall
           /\ c.op \in {"read", "write"} => c.count \in Nat \ {0}
  <1>1. CASE c = NoCall
    BY <1>1 DEF NoCall
  <1>2. CASE c \in [op : {"read"}, fd : ReadEnds, count : Counts]
    <2>1. c.op = "read" /\ c.count \in Counts
      BY <1>2
    <2>2. NoCall.op = "none"
      BY DEF NoCall
    <2> QED BY <2>1, <2>2, PipeAssumption
  <1>3. CASE c \in [op : {"write"}, fd : WriteEnds, count : Counts]
    <2>1. c.op = "write" /\ c.count \in Counts
      BY <1>3
    <2>2. NoCall.op = "none"
      BY DEF NoCall
    <2> QED BY <2>1, <2>2, PipeAssumption
  <1>4. CASE c \in [op : {"poll"}, fd : Ends]
    BY <1>4 DEF NoCall
  <1> QED BY <1>1, <1>2, <1>3, <1>4 DEF Calls

\* A call that ends leaves between nothing and the capacity in the buffer, and
\* changes nothing unless it triggers.
LEMMA TransferBounds ==
    ASSUME PipeType, EndsCounted, NEW c \in Calls, Ready(c)
    PROVE  /\ data + Transfer(c) \in 0 .. Capacity
           /\ ~Triggers(c) => data + Transfer(c) = data
  <1>1. data \in 0 .. Capacity /\ Capacity \in Nat
    BY PipeAssumption DEF PipeType
  <1>2. readers \in Nat
    <2>1. IsFiniteSet(open \cap ReadEnds)
      BY FiniteAssumption, FS_Subset DEF PipeType, Ends
    <2> QED BY <2>1, FS_CardinalityType DEF EndsCounted
  <1>3. CASE c.op = "read"
    BY <1>1, <1>3, CallFields DEF Transfer, Triggers, least
  <1>4. CASE c.op = "write"
    BY <1>1, <1>2, <1>4, CallFields DEF Transfer, Triggers, least
  <1>5. CASE c.op \notin {"read", "write"}
    BY <1>1, <1>5 DEF Transfer, Triggers
  <1> QED BY <1>3, <1>4, <1>5
-----------------------------------------------------------------------------
\* The call of t ends without a trigger: -EWOULDBLOCK, -EINTR, end of file,
\* EPIPE or poll.
LEMMA QuietReturn ==
    ASSUME PipeInv, NEW t \in Threads, state[t] = "READY", Return(t),
           UNCHANGED <<state, pending, which, by_signal, signals, data, readers, writers, open>>
    PROVE  PipeInv'
  <1>1. EventTypeOK /\ ListsAgree /\ EventSafe
    BY EventParts DEF PipeInv
  <1>2. clear_listeners(t) /\ call' = [call EXCEPT ![t] = NoCall]
    BY DEF Return
  <1>3. EventSafe'
    BY <1>1, <1>2, LeaveSafe
  <1>4. listens'[t] = <<>> /\ \A u \in Threads \ {t} : listens'[u] = listens[u]
    BY <1>1, <1>2, ClearStep
  <1>5. PipeType'
    BY <1>2 DEF PipeInv, PipeType, Calls
  <1>6. EndsCounted'
    BY DEF PipeInv, EndsCounted
  <1>7. WaitsInCall'
    BY <1>2, <1>4 DEF PipeInv, WaitsInCall, PipeType
  <1>8. NoneStranded'
    BY <1>2 DEF PipeInv, NoneStranded, Ready, PipeType
  <1> QED BY <1>3, <1>5, <1>6, <1>7, <1>8 DEF PipeInv

\* The call of t ends and triggers.
LEMMA TriggeringReturn ==
    ASSUME PipeInv, NEW t \in Threads, state[t] = "READY", Return(t),
           trigger(Cleared(t), Pipe, FALSE, AllListeners), CanTrigger(Pipe),
           data' \in 0 .. Capacity, UNCHANGED <<signals, readers, writers, open>>
    PROVE  PipeInv'
  <1>1. EventTypeOK /\ ListsAgree /\ SleepersListen /\ EventSafe /\ Pipe \in Events
    BY EventParts, PipeAssumption DEF PipeInv
  <1>2. clear_listeners(t) /\ queue' = Cleared(t) /\ call' = [call EXCEPT ![t] = NoCall]
    BY DEF Return, clear_listeners
  <1>3. /\ queue' \in [Events -> Seq(ListenersOf(Threads))]
        /\ listens' \in [Threads -> Seq(Events)]
        /\ ListsAgree'
        /\ \A e \in Events : queue'[e] # <<>> => queue[e] # <<>>
        /\ listens'[t] = <<>> /\ \A u \in Threads \ {t} : listens'[u] = listens[u]
    BY <1>1, <1>2, ClearStep
  <1>4. /\ \A u \in Threads : listens'[u] \in {<<>>, <<Pipe>>}
        /\ \A u \in Threads : state[u] = "BLOCKED" => listens'[u] # <<>>
    BY <1>1, <1>3 DEF PipeInv, WaitsInCall, SleepersListen
  <1> DEFINE q == Cleared(t)
  <1>5. trigger(q, Pipe, FALSE, AllListeners) /\ queue' = q
    BY <1>2
  <1> HIDE DEF q
  <1>6. EventSafe'
    BY <1>1, <1>3, <1>4, <1>5, TriggerSafe
  <1>7. \A u \in Threads : state'[u] # "BLOCKED"
    BY <1>1, <1>3, <1>4, <1>5, NobodySleeps
  <1>8. PipeType'
    BY <1>2 DEF PipeInv, PipeType, Calls
  <1>9. EndsCounted'
    BY DEF PipeInv, EndsCounted
  <1>10. WaitsInCall'
    BY <1>2, <1>3 DEF PipeInv, WaitsInCall, PipeType
  <1>11. NoneStranded'
    BY <1>7 DEF NoneStranded
  <1> QED BY <1>6, <1>8, <1>9, <1>10, <1>11 DEF PipeInv

\* Blocking in a call whose condition does not hold.
LEMMA SleepStep ==
    ASSUME PipeInv, NEW t \in Threads, NEW c \in Calls \ {NoCall}, sleep(t, c)
    PROVE  PipeInv'
  <1>1. EventTypeOK /\ ListsAgree /\ EventSafe /\ Pipe \in Events
    BY EventParts, PipeAssumption DEF PipeInv
  <1>2. /\ ~Ready(c) /\ ~signals[t]
        /\ pending' = [pending EXCEPT ![Pipe] = 0] /\ block(t, <<Pipe>>)
        /\ call' = [call EXCEPT ![t] = c]
        /\ UNCHANGED <<which, by_signal, signals, data, readers, writers, open>>
    BY DEF sleep
  <1> DEFINE evs == <<Pipe>>
  <1>3. evs \in Seq(Events) /\ evs # <<>> /\ \A i \in 1 .. Len(evs) : evs[i] = Pipe
    BY <1>1
  <1>4. block(t, evs)
    BY <1>2
  <1> HIDE DEF evs
  <1>5. /\ pending' \in [Events -> 0 .. MaxTriggers]
        /\ \A e \in Events : pending'[e] = pending[e] \/ pending'[e] = 0
        /\ \A i \in 1 .. Len(evs) : pending'[evs[i]] = 0
    BY <1>1, <1>2, <1>3, EventAssumption DEF EventTypeOK
  <1>6. EventSafe'
    BY <1>1, <1>2, <1>3, <1>4, <1>5, BlockSafe
  <1>7. listens'[t] = evs /\ \A u \in Threads \ {t} : listens'[u] = listens[u]
    BY <1>1, <1>3, <1>4, BlockStep
  <1>8. PipeType'
    BY <1>2 DEF PipeInv, PipeType
  <1>9. EndsCounted'
    BY <1>2 DEF PipeInv, EndsCounted
  <1>10. WaitsInCall'
    <2> SUFFICES ASSUME NEW u \in Threads
                 PROVE  listens'[u] \in {<<>>, <<Pipe>>} /\ (listens'[u] # <<>> => call'[u] # NoCall)
      BY DEF WaitsInCall, NoCall
    <2>1. call'[t] = c /\ \A v \in Threads \ {t} : call'[v] = call[v]
      BY <1>2 DEF PipeInv, PipeType
    <2>2. CASE u = t
      BY <1>7, <2>1, <2>2 DEF evs
    <2>3. CASE u # t
      BY <1>7, <2>1, <2>3 DEF PipeInv, WaitsInCall
    <2> QED BY <2>2, <2>3
  <1>11. NoneStranded'
    <2> SUFFICES ASSUME NEW u \in Threads, state'[u] = "BLOCKED" PROVE ~Ready(call[u])'
      BY DEF NoneStranded
    <2>1. call'[t] = c /\ \A v \in Threads \ {t} : call'[v] = call[v]
      BY <1>2 DEF PipeInv, PipeType
    <2>2. state' = [state EXCEPT ![t] = "BLOCKED"]
      BY <1>2 DEF block
    <2>3. ~Ready(call'[u])
      <3>1. CASE u = t
        BY <1>2, <2>1, <3>1
      <3>2. CASE u # t
        BY <1>1, <2>1, <2>2, <3>2 DEF PipeInv, NoneStranded, EventTypeOK
      <3> QED BY <3>1, <3>2
    <2> QED BY <1>2, <2>3 DEF Ready
  <1> QED BY <1>6, <1>8, <1>9, <1>10, <1>11 DEF PipeInv

\* One pass through the loop of a call.
LEMMA LoopStep ==
    ASSUME PipeInv, NEW t \in Threads, NEW c \in Calls \ {NoCall}, state[t] = "READY",
           loop(t, c), Ready(c) /\ Triggers(c) => CanTrigger(Pipe)
    PROVE  PipeInv'
  <1>1. CASE complete(t, c)
    <2>1. /\ Ready(c) /\ Return(t) /\ data' = data + Transfer(c)
          /\ UNCHANGED <<signals, readers, writers, open>>
      BY <1>1 DEF complete
    <2>2. data' \in 0 .. Capacity /\ (~Triggers(c) => data' = data)
      BY <2>1, TransferBounds DEF PipeInv
    <2>3. CASE Triggers(c)
      <3>1. trigger(Cleared(t), Pipe, FALSE, AllListeners)
        BY <1>1, <2>3 DEF complete
      <3> QED BY <2>1, <2>2, <2>3, <3>1, TriggeringReturn
    <2>4. CASE ~Triggers(c)
      <3>1. UNCHANGED <<state, pending, which, by_signal>>
        BY <1>1, <2>4 DEF complete
      <3> QED BY <2>1, <2>2, <2>4, <3>1, QuietReturn
    <2> QED BY <2>3, <2>4
  <1>2. CASE would_block(t, c)
    BY <1>2, QuietReturn DEF would_block
  <1>3. CASE interrupted(t, c)
    BY <1>3, QuietReturn DEF interrupted
  <1>4. CASE sleep(t, c)
    BY <1>4, SleepStep
  <1> QED BY <1>1, <1>2, <1>3, <1>4 DEF loop

\* Pipe::open and Pipe::close keep the counters.
LEMMA CountStep ==
    ASSUME NEW A, IsFiniteSet(A), NEW S \in SUBSET A, NEW B \in SUBSET A, NEW d \in A
    PROVE  /\ d \notin S => Cardinality((S \cup {d}) \cap B) =
                               IF d \in B THEN Cardinality(S \cap B) + 1 ELSE Cardinality(S \cap B)
           /\ d \in S => Cardinality((S \ {d}) \cap B) =
                             IF d \in B THEN Cardinality(S \cap B) - 1 ELSE Cardinality(S \cap B)
  <1> DEFINE X == S \cap B
  <1>1. IsFiniteSet(X)
    BY FS_Subset
  <1>2. ASSUME d \notin B
        PROVE  (S \cup {d}) \cap B = X /\ (S \ {d}) \cap B = X
    BY <1>2
  <1>3. ASSUME d \in B
        PROVE  (S \cup {d}) \cap B = X \cup {d} /\ (S \ {d}) \cap B = X \ {d}
    BY <1>3
  <1>4. d \in S /\ d \in B => d \in X
    OBVIOUS
  <1>5. d \notin S => d \notin X
    OBVIOUS
  <1> HIDE DEF X
  <1>6. /\ Cardinality(X \cup {d}) = IF d \in X THEN Cardinality(X) ELSE Cardinality(X) + 1
        /\ Cardinality(X \ {d}) = IF d \in X THEN Cardinality(X) - 1 ELSE Cardinality(X)
    BY <1>1, FS_AddElement, FS_RemoveElement
  <1>7. CASE d \in B
    BY <1>3, <1>4, <1>5, <1>6, <1>7 DEF X
  <1>8. CASE d \notin B
    BY <1>2, <1>8 DEF X
  <1> QED BY <1>7, <1>8

LEMMA OpenStep ==
    ASSUME PipeInv, NEW t \in Threads, NEW d \in Ends, open_end(t, d)
    PROVE  PipeInv'
  <1>1. /\ d \notin open /\ open' = open \cup {d}
        /\ readers' = IF d \in ReadEnds THEN readers + 1 ELSE readers
        /\ writers' = IF d \in WriteEnds THEN writers + 1 ELSE writers
        /\ UNCHANGED eventVars /\ data' = data /\ call' = call
    BY DEF open_end
  <1>2. EventSafe'
    BY <1>1, EventStepSafe DEF PipeInv
  <1>3. PipeType'
    BY <1>1 DEF PipeInv, PipeType
  <1>4. EndsCounted'
    <2>1. ReadEnds \in SUBSET Ends /\ WriteEnds \in SUBSET Ends /\ open \in SUBSET Ends
      BY DEF Ends, PipeInv, PipeType
    <2>2. Cardinality((open \cup {d}) \cap ReadEnds) =
             IF d \in ReadEnds THEN Cardinality(open \cap ReadEnds) + 1
             ELSE Cardinality(open \cap ReadEnds)
      <3>1. /\ IsFiniteSet(Ends) /\ open \in SUBSET Ends /\ ReadEnds \in SUBSET Ends /\ d \in Ends
            /\ d \notin open
        BY <1>1, <2>1, FiniteAssumption
      <3> QED BY <3>1, CountStep
    <2>3. Cardinality((open \cup {d}) \cap WriteEnds) =
             IF d \in WriteEnds THEN Cardinality(open \cap WriteEnds) + 1
             ELSE Cardinality(open \cap WriteEnds)
      <3>1. /\ IsFiniteSet(Ends) /\ open \in SUBSET Ends /\ WriteEnds \in SUBSET Ends /\ d \in Ends
            /\ d \notin open
        BY <1>1, <2>1, FiniteAssumption
      <3> QED BY <3>1, CountStep
    <2> QED BY <1>1, <2>2, <2>3 DEF PipeInv, EndsCounted
  <1>5. WaitsInCall'
    BY <1>1 DEF PipeInv, WaitsInCall, eventVars
  <1>6. readers \in Nat /\ writers \in Nat
    <2>1. IsFiniteSet(open \cap ReadEnds) /\ IsFiniteSet(open \cap WriteEnds)
      BY FiniteAssumption, FS_Subset DEF PipeInv, PipeType
    <2> QED BY <2>1, FS_CardinalityType DEF PipeInv, EndsCounted
  <1>7. NoneStranded'
    BY <1>1, <1>6 DEF PipeInv, NoneStranded, Ready, eventVars
  <1> QED BY <1>2, <1>3, <1>4, <1>5, <1>7 DEF PipeInv

LEMMA CloseStep ==
    ASSUME PipeInv, NEW t \in Threads, NEW d \in Ends, close(t, d)
    PROVE  PipeInv'
  <1>1. /\ d \in open /\ open' = open \ {d} /\ CanTrigger(Pipe)
        /\ readers' = IF d \in ReadEnds THEN readers - 1 ELSE readers
        /\ writers' = IF d \in WriteEnds THEN writers - 1 ELSE writers
        /\ trigger(queue, Pipe, FALSE, AllListeners)
        /\ UNCHANGED <<queue, listens, signals, data, call>>
    BY DEF close
  <1>2. EventTypeOK /\ ListsAgree /\ SleepersListen /\ EventSafe /\ Pipe \in Events
    BY EventParts, PipeAssumption DEF PipeInv
  <1>3. ListsAgree'
    BY <1>1, <1>2, SameLists
  <1>4. /\ queue \in [Events -> Seq(ListenersOf(Threads))]
        /\ listens' \in [Threads -> Seq(Events)]
        /\ \A u \in Threads : listens'[u] \in {<<>>, <<Pipe>>}
        /\ \A u \in Threads : state[u] = "BLOCKED" => listens'[u] # <<>>
    BY <1>1, <1>2 DEF EventTypeOK, PipeInv, WaitsInCall, SleepersListen
  <1>5. EventSafe'
    BY <1>1, <1>2, <1>3, <1>4, TriggerSafe
  <1>6. NoneStranded'
    <2>1. \A u \in Threads : state'[u] # "BLOCKED"
      BY <1>1, <1>2, <1>3, <1>4, NobodySleeps
    <2> QED BY <2>1 DEF NoneStranded
  <1>7. PipeType'
    BY <1>1 DEF PipeInv, PipeType
  <1>8. EndsCounted'
    <2>1. ReadEnds \in SUBSET Ends /\ WriteEnds \in SUBSET Ends /\ open \in SUBSET Ends
      BY DEF Ends, PipeInv, PipeType
    <2>2. Cardinality((open \ {d}) \cap ReadEnds) =
             IF d \in ReadEnds THEN Cardinality(open \cap ReadEnds) - 1
             ELSE Cardinality(open \cap ReadEnds)
      <3>1. /\ IsFiniteSet(Ends) /\ open \in SUBSET Ends /\ ReadEnds \in SUBSET Ends /\ d \in Ends
            /\ d \in open
        BY <1>1, <2>1, FiniteAssumption
      <3> QED BY <3>1, CountStep
    <2>3. Cardinality((open \ {d}) \cap WriteEnds) =
             IF d \in WriteEnds THEN Cardinality(open \cap WriteEnds) - 1
             ELSE Cardinality(open \cap WriteEnds)
      <3>1. /\ IsFiniteSet(Ends) /\ open \in SUBSET Ends /\ WriteEnds \in SUBSET Ends /\ d \in Ends
            /\ d \in open
        BY <1>1, <2>1, FiniteAssumption
      <3> QED BY <3>1, CountStep
    <2> QED BY <1>1, <2>2, <2>3 DEF PipeInv, EndsCounted
  <1>9. WaitsInCall'
    BY <1>1 DEF PipeInv, WaitsInCall
  <1> QED BY <1>5, <1>6, <1>7, <1>8, <1>9 DEF PipeInv

\* Signals, the end of a thread and a new one.
LEMMA ThreadStep ==
    ASSUME PipeInv, NEW t \in Threads,
           \/ \E masked \in BOOLEAN : send_signal(t, masked) /\ UNCHANGED pipeVars
           \/ (dispatch_signal(t) \/ terminate_thread(t) \/ create(t)) /\ UNCHANGED pipeVars
           \/ destroy(t) /\ call' = [call EXCEPT ![t] = NoCall]
                 /\ UNCHANGED <<data, readers, writers, open>>
    PROVE  PipeInv'
  <1>1. EventSafe /\ EventTypeOK /\ ListsAgree
    BY EventParts DEF PipeInv
  <1>2. EventSafe'
    BY <1>1, EnvironmentSafe
  <1>3. /\ UNCHANGED <<data, readers, writers, open>>
        /\ call' = call \/ (call' = [call EXCEPT ![t] = NoCall] /\ destroy(t))
    BY DEF pipeVars
  <1>4. PipeType'
    BY <1>3 DEF PipeInv, PipeType, Calls
  <1>5. EndsCounted'
    BY <1>3 DEF PipeInv, EndsCounted
  <1>6. \/ listens' = listens /\ call' = call
        \/ /\ listens'[t] = <<>> /\ \A u \in Threads \ {t} : listens'[u] = listens[u]
           /\ call' = [call EXCEPT ![t] = NoCall]
    <2>1. CASE destroy(t) /\ call' = [call EXCEPT ![t] = NoCall]
      <3>1. clear_listeners(t)
        BY <2>1 DEF destroy
      <3> QED BY <1>1, <2>1, <3>1, ClearStep
    <2>2. CASE ~(destroy(t) /\ call' = [call EXCEPT ![t] = NoCall])
      BY <2>2 DEF send_signal, dispatch_signal, terminate_thread, create, pipeVars
    <2> QED BY <2>1, <2>2
  <1>7. WaitsInCall'
    BY <1>6 DEF PipeInv, WaitsInCall, PipeType
  <1>8. \A u \in Threads : state'[u] = "BLOCKED" => state[u] = "BLOCKED" /\ (u = t => ~destroy(t))
    BY <1>1 DEF EventTypeOK, send_signal, dispatch_signal, terminate_thread, create, destroy
  <1>9. NoneStranded'
    <2> SUFFICES ASSUME NEW u \in Threads, state'[u] = "BLOCKED" PROVE ~Ready(call[u])'
      BY DEF NoneStranded
    <2>1. call'[u] = call[u] /\ state[u] = "BLOCKED"
      BY <1>3, <1>8 DEF PipeInv, PipeType
    <2>2. ~Ready(call[u])
      BY <2>1 DEF PipeInv, NoneStranded
    <2> QED BY <1>3, <2>1, <2>2 DEF Ready
  <1> QED BY <1>2, <1>4, <1>5, <1>7, <1>9 DEF PipeInv

LEMMA PipeStep == PipeInv /\ [Next]_vars => PipeInv'
  <1> SUFFICES ASSUME PipeInv, [Next]_vars PROVE PipeInv'
    OBVIOUS
  <1>1. ASSUME NEW t \in Threads, NEW c \in Calls, syscall(t, c)
        PROVE  PipeInv'
    BY <1>1, LoopStep DEF syscall, Runs
  <1>2. ASSUME NEW t \in Threads, resume(t)
        PROVE  PipeInv'
    <2>1. state[t] = "READY" /\ listens[t] # <<>> /\ loop(t, call[t])
      BY <1>2 DEF resume
    <2>2. call[t] \in Calls \ {NoCall}
      BY <2>1 DEF PipeInv, PipeType, WaitsInCall
    <2>3. CanTrigger(Pipe)
      BY <2>1, ListedNonePending DEF PipeInv
    <2> QED BY <2>1, <2>2, <2>3, LoopStep
  <1>3. ASSUME NEW t \in Threads, resume_interrupted(t)
        PROVE  PipeInv'
    BY <1>3, QuietReturn DEF resume_interrupted
  <1>4. ASSUME NEW t \in Threads, NEW d \in Ends, open_end(t, d) \/ close(t, d)
        PROVE  PipeInv'
    BY <1>4, OpenStep, CloseStep
  <1>5. CASE UNCHANGED vars
    <2>1. UNCHANGED eventVars /\ UNCHANGED pipeVars
      BY <1>5 DEF vars
    <2>2. EventSafe'
      BY <2>1, EventStepSafe DEF PipeInv
    <2> QED BY <2>1, <2>2 DEF PipeInv, PipeType, EndsCounted, WaitsInCall, NoneStranded, Ready,
                              eventVars, pipeVars
  <1> QED BY <1>1, <1>2, <1>3, <1>4, <1>5, ThreadStep DEF Next

LEMMA PipeInit == Init => PipeInv
  <1> SUFFICES ASSUME Init PROVE PipeInv
    OBVIOUS
  <1>1. EventSafe
    BY EventInitSafe DEF Init
  <1>2. PICK r \in ReadEnds \ WriteEnds, w \in WriteEnds \ ReadEnds : open = {r, w}
    BY DEF Init
  <1>3. PipeType
    BY <1>2, PipeAssumption DEF Init, PipeType, Calls, Ends
  <1>4. EndsCounted
    <2>1. open \cap ReadEnds = {r} /\ open \cap WriteEnds = {w}
      BY <1>2
    <2> QED BY <2>1, FS_Singleton DEF Init, EndsCounted
  <1>5. WaitsInCall /\ NoneStranded
    BY DEF Init, EventInit, WaitsInCall, NoneStranded
  <1> QED BY <1>1, <1>3, <1>4, <1>5 DEF PipeInv

\* The readers and the writers of a pipe are at most the descriptions there are.
LEMMA PipeInvCounts == PipeInv => PipeCounted
  <1> SUFFICES ASSUME PipeInv PROVE PipeCounted
    OBVIOUS
  <1>1. /\ IsFiniteSet(ReadEnds) /\ IsFiniteSet(WriteEnds)
        /\ open \cap ReadEnds \in SUBSET ReadEnds /\ open \cap WriteEnds \in SUBSET WriteEnds
    BY FiniteAssumption, FS_Subset DEF Ends
  <1>2. /\ IsFiniteSet(open \cap ReadEnds) /\ IsFiniteSet(open \cap WriteEnds)
        /\ Cardinality(open \cap ReadEnds) <= Cardinality(ReadEnds)
        /\ Cardinality(open \cap WriteEnds) <= Cardinality(WriteEnds)
    BY <1>1, FS_Subset
  <1>3. readers \in 0 .. Cardinality(ReadEnds) /\ writers \in 0 .. Cardinality(WriteEnds)
    BY <1>1, <1>2, FS_CardinalityType DEF PipeInv, EndsCounted
  <1> QED BY <1>3 DEF PipeInv, PipeType, PipeCounted, TypeOK, EventSafe

\* EventSafe in the calls on a pipe, for any threads, descriptions and capacity.
THEOREM PipeLosesNoWakeup == Spec => []EventSafe
  <1>1. PipeInv => EventSafe
    BY DEF PipeInv
  <1> QED BY <1>1, PipeInit, PipeStep, PTL DEF Spec

\* NoneStranded for any threads, descriptions and capacity: no thread sleeps in
\* read, write or poll of a pipe while what it waits for holds.
THEOREM NoCallStranded == Spec => []NoneStranded
  <1>1. PipeInv => NoneStranded
    BY DEF PipeInv
  <1> QED BY <1>1, PipeInit, PipeStep, PTL DEF Spec

\* PipeCounted for any threads, descriptions and capacity: the buffer keeps its
\* bounds, and the counters that decide end of file and EPIPE are exact.
THEOREM PipeCountsExact == Spec => []PipeCounted
  BY PipeInit, PipeStep, PipeInvCounts, PTL DEF Spec
-----------------------------------------------------------------------------
\* The last k entries of a list.
Suffix(s, k) == SubSeq(s, Len(s) - k + 1, Len(s))

LEMMA SuffixIs ==
    ASSUME NEW S, NEW s \in Seq(S), NEW k \in 0 .. Len(s)
    PROVE  /\ Suffix(s, k) \in Seq(S) /\ Len(Suffix(s, k)) = k
           /\ \A i \in 1 .. k : Suffix(s, k)[i] = s[Len(s) - k + i]
<1> DEFINE m == Len(s) - k + 1
           n == Len(s)
<1>1. n \in Nat /\ k \in Nat /\ m \in 1 .. n + 1 /\ n - m + 1 = k
  OBVIOUS
<1>2. Suffix(s, k) = SubSeq(s, m, n)
  BY DEF Suffix
<1> HIDE DEF m
<1>3. /\ SubSeq(s, m, n) \in Seq(S) /\ Len(SubSeq(s, m, n)) = n - m + 1
      /\ \A i \in 1 .. n - m + 1 : SubSeq(s, m, n)[i] = s[m + i - 1]
  BY <1>1, SubSeqProperties
<1>4. \A i \in 1 .. k : m + i - 1 = n - k + i
  BY <1>1 DEF m
<1> QED BY <1>1, <1>2, <1>3, <1>4

\* Characters that are put behind a list are put behind its suffix.
LEMMA SuffixMore ==
    ASSUME NEW S, NEW s \in Seq(S), NEW c \in Seq(S), NEW k \in 0 .. Len(s)
    PROVE  /\ k + Len(c) \in 0 .. Len(s \o c)
           /\ Suffix(s, k) \o c = Suffix(s \o c, k + Len(c))
<1> DEFINE a == Suffix(s, k)
           n == Len(s)
           m == Len(c)
<1>1. a \in Seq(S) /\ Len(a) = k /\ \A i \in 1 .. k : a[i] = s[n - k + i]
  BY SuffixIs
<1>2. n \in Nat /\ m \in Nat /\ k \in Nat /\ k <= n
  OBVIOUS
<1>3. /\ s \o c \in Seq(S) /\ Len(s \o c) = n + m
      /\ \A i \in 1 .. n + m : (s \o c)[i] = IF i <= n THEN s[i] ELSE c[i - n]
  BY ConcatProperties
<1>4. k + m \in 0 .. n + m
  BY <1>2
<1> DEFINE b == Suffix(s \o c, k + m)
<1>5. b \in Seq(S) /\ Len(b) = k + m /\ \A i \in 1 .. k + m : b[i] = (s \o c)[(n + m) - (k + m) + i]
  <2> DEFINE u == s \o c
             v == k + m
  <2> HIDE DEF u, v
  <2>1. u \in Seq(S) /\ v \in 0 .. Len(u) /\ Len(u) = n + m /\ b = Suffix(u, v)
    BY <1>3, <1>4 DEF u, v
  <2>2. /\ Suffix(u, v) \in Seq(S) /\ Len(Suffix(u, v)) = v
        /\ \A i \in 1 .. v : Suffix(u, v)[i] = u[Len(u) - v + i]
    BY <2>1, SuffixIs
  <2> QED BY <2>1, <2>2 DEF u, v
<1> HIDE DEF a, b
<1>6. /\ a \o c \in Seq(S) /\ Len(a \o c) = k + m
      /\ \A i \in 1 .. k + m : (a \o c)[i] = IF i <= k THEN a[i] ELSE c[i - k]
  BY <1>1, ConcatProperties
<1>7. ASSUME NEW i \in 1 .. k + m PROVE (a \o c)[i] = b[i]
  <2>1. /\ (n + m) - (k + m) + i = n - k + i /\ n - k + i \in 1 .. n + m
        /\ n - k + i <= n <=> i <= k
        /\ (n - k + i) - n = i - k
    BY <1>2
  <2>2. b[i] = (s \o c)[n - k + i]
    BY <1>5, <2>1
  <2>3. (s \o c)[n - k + i] = IF n - k + i <= n THEN s[n - k + i] ELSE c[(n - k + i) - n]
    BY <1>3, <2>1
  <2>4. CASE i <= k
    <3>1. i \in 1 .. k
      BY <1>2, <2>4
    <3> QED BY <1>1, <1>6, <2>1, <2>2, <2>3, <2>4, <3>1
  <2>5. CASE ~(i <= k)
    BY <1>6, <2>1, <2>2, <2>3, <2>5
  <2> QED BY <2>4, <2>5
<1>8. a \o c = b
  BY <1>5, <1>6, <1>7, SeqEqual
<1> QED BY <1>3, <1>4, <1>8 DEF a, b

LEMMA SuffixOfSuffix ==
    ASSUME NEW S, NEW s \in Seq(S), NEW m \in 0 .. Len(s), NEW k \in 0 .. m
    PROVE  Suffix(Suffix(s, m), k) = Suffix(s, k)
<1> DEFINE a == Suffix(s, m)
           n == Len(s)
<1>1. a \in Seq(S) /\ Len(a) = m /\ \A i \in 1 .. m : a[i] = s[n - m + i]
  BY SuffixIs
<1>2. n \in Nat /\ m \in Nat /\ k \in Nat /\ k <= n /\ k <= m /\ k \in 0 .. n
  OBVIOUS
<1> DEFINE b == Suffix(s, k)
<1>3. b \in Seq(S) /\ Len(b) = k /\ \A i \in 1 .. k : b[i] = s[n - k + i]
  BY <1>2, SuffixIs
<1> HIDE DEF a, b
<1> DEFINE c == Suffix(a, k)
<1>4. c \in Seq(S) /\ Len(c) = k /\ \A i \in 1 .. k : c[i] = a[m - k + i]
  BY <1>1, <1>2, SuffixIs
<1> HIDE DEF c
<1>5. ASSUME NEW i \in 1 .. k PROVE c[i] = b[i]
  <2>1. m - k + i \in 1 .. m /\ n - m + (m - k + i) = n - k + i
    BY <1>2
  <2> QED BY <1>1, <1>3, <1>4, <2>1
<1>6. c = b
  BY <1>3, <1>4, <1>5, SeqEqual
<1> QED BY <1>6 DEF a, b, c

\* The state of the loop of write.
PtyStates == [ring : Seq(TtyChars), count : Nat, end : BOOLEAN, cut : BOOLEAN, raised : BOOLEAN]

LEMMA ProcessedIs ==
    ASSUME NEW e, NEW c \in TtyChars
    PROVE  Processed(e, c) \in Seq(TtyChars)
<1>3. "nl" \in TtyChars /\ "cr" \in TtyChars
  BY DEF TtyChars
<1>1. process_output_char(c) \in Seq(TtyChars)
  BY <1>3 DEF process_output_char
<1>2. process_input_char(c) \in Seq(TtyChars)
  <2> DEFINE a == CASE c = "cr" /\ "ICRNL" \in tty.flags -> <<"nl">>
                    [] c = "nl" /\ "INLCR" \in tty.flags -> <<"cr">>
                    [] OTHER -> <<>>
             b == IF Raises(c) THEN <<>> ELSE <<c>>
  <2>1. a \in Seq(TtyChars)
    BY <1>3
  <2>2. b \in Seq(TtyChars)
    OBVIOUS
  <2>3. process_input_char(c) = IF c = "cr" /\ "IGNCR" \in tty.flags THEN <<>> ELSE a \o b
    BY DEF process_input_char
  <2> HIDE DEF a, b
  <2>4. a \o b \in Seq(TtyChars) /\ <<>> \in Seq(TtyChars)
    BY <2>1, <2>2
  <2> QED BY <2>3, <2>4
<1> QED BY <1>1, <1>2 DEF Processed

\* One turn of the loop of write: a character's output is put if it fits; otherwise the
\* ring becomes full and the loop ends.
PutWell(e, st, c, new) ==
    /\ new \in PtyStates /\ Len(new.ring) <= PtyCapacity
    /\ st.end => new = st
    /\ ~st.end /\ ~new.end => /\ new.ring = st.ring \o Processed(e, c) /\ new.count = st.count + 1
                              /\ ~new.cut
    /\ ~st.end /\ new.end => /\ new.count = st.count /\ (~new.cut => new.ring = st.ring)
LEMMA PutIs ==
    ASSUME NEW e, NEW st \in PtyStates, NEW c \in TtyChars, Len(st.ring) <= PtyCapacity
    PROVE  PutWell(e, st, c, Put(e, st, c)) /\ Put(e, st, c) \in PtyStates
<1> DEFINE out == Processed(e, c)
           room == PtyCapacity - Len(st.ring)
           fits == Len(out) <= room
           part == SubSeq(out, 1, IF fits THEN Len(out) ELSE room)
           ring == st.ring \o part
           raised == st.raised \/ (e = "master" /\ Raises(c))
<1>1. st.ring \in Seq(TtyChars) /\ Len(st.ring) \in Nat /\ st.count \in Nat /\ PtyCapacity \in Nat
  BY TtyAssumption DEF PtyStates
<1>2. out \in Seq(TtyChars) /\ Len(out) \in Nat /\ room \in Nat
  BY <1>1, ProcessedIs
<1>3. Put(e, st, c) = IF st.end THEN st
                      ELSE [ring |-> ring, count |-> RingCounted(st, fits), end |-> ~fits,
                            cut |-> ~fits /\ room > 0, raised |-> raised]
  BY DEF Put
<1> HIDE DEF out
<1>4. /\ part \in Seq(TtyChars) /\ Len(part) = (IF fits THEN Len(out) ELSE room)
      /\ fits => part = out
      /\ room = 0 /\ ~fits => part = <<>>
  <2> DEFINE l == IF fits THEN Len(out) ELSE room
  <2>1. l \in 0 .. Len(out) /\ l \in Nat
    BY <1>2
  <2>2. part = SubSeq(out, 1, l)
    OBVIOUS
  <2> HIDE DEF l
  <2>3. /\ part \in Seq(TtyChars) /\ Len(part) = l /\ \A i \in 1 .. l : part[i] = out[i]
    <3>1. 1 \in 1 .. Len(out) + 1 /\ l \in 1 - 1 .. Len(out)
      BY <1>2, <2>1
    <3>2. /\ SubSeq(out, 1, l) \in Seq(TtyChars) /\ Len(SubSeq(out, 1, l)) = l - 1 + 1
          /\ \A i \in 1 .. l - 1 + 1 : SubSeq(out, 1, l)[i] = out[1 + i - 1]
      BY <1>2, <3>1, SubSeqProperties
    <3>3. l - 1 + 1 = l /\ \A i \in 1 .. l : 1 + i - 1 = i
      BY <2>1
    <3> QED BY <2>2, <3>2, <3>3
  <2> HIDE DEF part
  <2>4. ASSUME fits PROVE part = out
    <3>1. l = Len(out)
      BY <2>4 DEF l
    <3> QED BY <1>2, <2>3, <3>1, SeqEqual
  <2>5. ASSUME room = 0, ~fits PROVE part = <<>>
    <3>1. Len(part) = 0
      BY <2>3, <2>5 DEF l
    <3> QED BY <2>3, <3>1
  <2> QED BY <2>3, <2>4, <2>5 DEF l
<1> HIDE DEF part
<1>5. ring \in Seq(TtyChars) /\ Len(ring) = Len(st.ring) + Len(part)
  <2> HIDE DEF fits, room
  <2>1. part \in Seq(TtyChars) /\ st.ring \in Seq(TtyChars)
    BY <1>1, <1>4
  <2> QED BY <2>1, ConcatProperties
<1>6. Len(ring) <= PtyCapacity
  <2> HIDE DEF ring
  <2>1. Len(ring) = Len(st.ring) + Len(part)
    BY <1>5
  <2>2. CASE fits
    <3>1. Len(part) = Len(out)
      BY <1>4, <2>2
    <3> QED BY <1>1, <1>2, <2>1, <2>2, <3>1
  <2>3. CASE ~fits
    <3>1. Len(part) = room
      BY <1>4, <2>3
    <3> QED BY <1>1, <1>2, <2>1, <3>1
  <2> QED BY <2>2, <2>3
<1>7. fits => ring = st.ring \o out
  BY <1>4
<1>8. ~fits /\ ~(room > 0) => ring = st.ring
  <2>1. ASSUME ~fits, ~(room > 0) PROVE part = <<>>
    BY <1>2, <1>4, <2>1
  <2>2. st.ring \o <<>> = st.ring
    BY <1>1, ConcatEmptySeq
  <2> QED BY <2>1, <2>2
<1>9. RingCounted(st, fits) \in Nat /\ RingCounted(st, fits) = (IF fits THEN st.count + 1 ELSE st.count)
  BY <1>1 DEF RingCounted
<1>10. raised \in BOOLEAN
  BY DEF PtyStates
<1>11. CASE st.end
  BY <1>3, <1>11 DEF PutWell
<1>12. CASE ~st.end
  <2> DEFINE new == [ring |-> ring, count |-> RingCounted(st, fits), end |-> ~fits,
                     cut |-> ~fits /\ room > 0, raised |-> raised]
             f == fits
             r == room > 0
  <2> HIDE DEF ring, raised, fits, room
  <2>1. /\ new.ring = ring /\ new.count = RingCounted(st, fits) /\ new.end = ~fits
        /\ new.cut = (~fits /\ room > 0)
    OBVIOUS
  <2>2. new \in PtyStates
    BY <1>5, <1>9, <1>10 DEF PtyStates
  <2>3. Put(e, st, c) = new
    BY <1>3, <1>12
  <2> HIDE DEF new
  <2>4. PutWell(e, st, c, new)
    BY <1>6, <1>7, <1>8, <1>9, <1>12, <2>1, <2>2 DEF PutWell, out
  <2> QED BY <2>2, <2>3, <2>4
<1> QED BY <1>11, <1>12

FitStates == {st \in PtyStates : Len(st.ring) <= PtyCapacity}
FirstState(ring) == [ring |-> ring, count |-> 0, end |-> FALSE, cut |-> FALSE, raised |-> FALSE]

\* The turns of the loop of write.
WriteRun(f, e, buffer, base) ==
    /\ f \in [0 .. Len(buffer) -> FitStates] /\ f[0] = base
    /\ \A i \in 1 .. Len(buffer) : f[i] = Put(e, f[i - 1], buffer[i])
LEMMA WrittenRuns ==
    ASSUME NEW e, NEW buffer \in Seq(TtyChars),
           pty[Peer(e)].ring \in Seq(TtyChars), Len(pty[Peer(e)].ring) <= PtyCapacity
    PROVE  \E f : /\ WriteRun(f, e, buffer, FirstState(pty[Peer(e)].ring))
                  /\ Written(e, buffer) = f[Len(buffer)]
<1> DEFINE n == Len(buffer)
           base == FirstState(pty[Peer(e)].ring)
           next == [i \in 1 .. n |-> [st \in FitStates |-> Put(e, st, buffer[i])]]
           Body(k) == [i \in 0 .. n |-> IF i = 0 THEN base ELSE Put(e, k[i - 1], buffer[i])]
           F == CHOOSE k : k = Body(k)
<1>1. n \in Nat /\ \A i \in 1 .. n : buffer[i] \in TtyChars
  OBVIOUS
<1>2. base \in FitStates
  <2>1. base \in PtyStates /\ base.ring = pty[Peer(e)].ring
    BY DEF FirstState, PtyStates
  <2> QED BY <2>1 DEF FitStates
<1>3. ASSUME NEW i \in 1 .. n, NEW st \in FitStates PROVE Put(e, st, buffer[i]) \in FitStates
  BY <1>1, PutIs DEF FitStates, PutWell
<1>4. next \in [1 .. n -> [FitStates -> FitStates]]
  BY <1>3
<1> HIDE DEF n, base
<1>5. \A i \in 1 .. n, st \in FitStates : next[i][st] = Put(e, st, buffer[i])
  OBVIOUS
<1> HIDE DEF next
<1>6. PICK f : f \in [0 .. n -> FitStates] /\ f[0] = base /\ \A i \in 1 .. n : f[i] = next[i][f[i - 1]]
  <2>1. LoopSteps(next, n, FitStates)
    BY <1>1, <1>4 DEF LoopSteps
  <2>2. \E f : LoopRun(f, next, n, FitStates, base)
    BY <1>2, <2>1, LoopRuns
  <2> QED BY <2>2 DEF LoopRun
<1>7. \A i \in 1 .. n : f[i] = Put(e, f[i - 1], buffer[i])
  <2> SUFFICES ASSUME NEW i \in 1 .. n PROVE f[i] = Put(e, f[i - 1], buffer[i])
    OBVIOUS
  <2>1. i - 1 \in 0 .. n
    BY <1>1
  <2> QED BY <1>5, <1>6, <2>1
<1>8. f = Body(f)
  <2>1. \A i \in 0 .. n : f[i] = Body(f)[i]
    <3> SUFFICES ASSUME NEW i \in 0 .. n PROVE f[i] = Body(f)[i]
      OBVIOUS
    <3>1. CASE i = 0
      BY <1>6, <3>1
    <3>2. CASE i # 0
      <4>1. i \in 1 .. n
        BY <1>1, <3>2
      <4> QED BY <1>7, <3>2, <4>1
    <3> QED BY <3>1, <3>2
  <2>2. f = [i \in 0 .. n |-> f[i]] /\ Body(f) = [i \in 0 .. n |-> Body(f)[i]]
    BY <1>6
  <2> HIDE DEF Body
  <2> QED BY <2>1, <2>2
<1>9. F = Body(F)
  <2> HIDE DEF Body
  <2> QED BY <1>8
<1>10. Written(e, buffer) = F[n]
  BY DEF Written, n, base, FirstState
<1> HIDE DEF F
<1>11. F = f
  <2> DEFINE E == {m \in 0 .. n : F[m] = f[m]}
  <2>1. 0 \in E
    BY <1>1, <1>6, <1>9
  <2>2. ASSUME NEW m \in 0 .. n - 1, m \in E PROVE m + 1 \in E
    <3>1. m + 1 \in 1 .. n /\ (m + 1) - 1 = m /\ m + 1 \in 0 .. n /\ m + 1 # 0
      BY <1>1
    <3>2. F[m + 1] = Put(e, F[m], buffer[m + 1])
      <4>1. F[m + 1] = Body(F)[m + 1]
        <5> HIDE DEF Body
        <5> QED BY <1>9
      <4> QED BY <3>1, <4>1
    <3>3. f[m + 1] = Put(e, f[m], buffer[m + 1])
      BY <1>7, <3>1
    <3> QED BY <2>2, <3>1, <3>2, <3>3
  <2>3. 0 .. n \subseteq E
    <3> HIDE DEF E
    <3> QED BY <1>1, <2>1, <2>2, UpTo
  <2>4. \A m \in 0 .. n : F[m] = f[m]
    BY <2>3
  <2> QED BY <1>6, <1>9, <2>4
<1>12. WriteRun(f, e, buffer, base)
  BY <1>6, <1>7 DEF WriteRun, n
<1> QED BY <1>10, <1>11, <1>12 DEF n, base

\* The characters of a buffer after the line discipline.
OutputRun(g, e, buffer) ==
    /\ g \in [0 .. Len(buffer) -> Seq(TtyChars)] /\ g[0] = <<>>
    /\ \A i \in 1 .. Len(buffer) : g[i] = g[i - 1] \o Processed(e, buffer[i])
LEMMA AcceptedRuns ==
    ASSUME NEW e, NEW buffer \in Seq(TtyChars)
    PROVE  \E g : /\ OutputRun(g, e, buffer)
                  /\ \A k \in 0 .. Len(buffer) : CharsTaken(e, buffer, k) = g[k]
<1> DEFINE n == Len(buffer)
           S == Seq(TtyChars)
           next == [i \in 1 .. n |-> [s \in S |-> s \o Processed(e, buffer[i])]]
           Body(k) == [i \in 0 .. n |-> IF i = 0 THEN <<>> ELSE k[i - 1] \o Processed(e, buffer[i])]
           F == CHOOSE k : k = Body(k)
<1>1. n \in Nat /\ \A i \in 1 .. n : buffer[i] \in TtyChars
  OBVIOUS
<1>2. <<>> \in S
  OBVIOUS
<1>3. ASSUME NEW i \in 1 .. n, NEW s \in S PROVE s \o Processed(e, buffer[i]) \in S
  <2>1. Processed(e, buffer[i]) \in Seq(TtyChars)
    BY <1>1, ProcessedIs
  <2> QED BY <2>1, ConcatProperties
<1>4. next \in [1 .. n -> [S -> S]]
  BY <1>3
<1> HIDE DEF n, S
<1>5. \A i \in 1 .. n, s \in S : next[i][s] = s \o Processed(e, buffer[i])
  OBVIOUS
<1> HIDE DEF next
<1>6. PICK f : f \in [0 .. n -> S] /\ f[0] = <<>> /\ \A i \in 1 .. n : f[i] = next[i][f[i - 1]]
  <2>1. LoopSteps(next, n, S)
    BY <1>1, <1>4 DEF LoopSteps
  <2>2. \E f : LoopRun(f, next, n, S, <<>>)
    BY <1>2, <2>1, LoopRuns
  <2> QED BY <2>2 DEF LoopRun
<1>7. \A i \in 1 .. n : f[i] = f[i - 1] \o Processed(e, buffer[i])
  <2> SUFFICES ASSUME NEW i \in 1 .. n PROVE f[i] = f[i - 1] \o Processed(e, buffer[i])
    OBVIOUS
  <2>1. i - 1 \in 0 .. n
    BY <1>1
  <2> QED BY <1>5, <1>6, <2>1
<1>8. f = Body(f)
  <2>1. \A i \in 0 .. n : f[i] = Body(f)[i]
    <3> SUFFICES ASSUME NEW i \in 0 .. n PROVE f[i] = Body(f)[i]
      OBVIOUS
    <3>1. CASE i = 0
      BY <1>6, <3>1
    <3>2. CASE i # 0
      <4>1. i \in 1 .. n
        BY <1>1, <3>2
      <4> QED BY <1>7, <3>2, <4>1
    <3> QED BY <3>1, <3>2
  <2>2. f = [i \in 0 .. n |-> f[i]] /\ Body(f) = [i \in 0 .. n |-> Body(f)[i]]
    BY <1>6
  <2> HIDE DEF Body
  <2> QED BY <2>1, <2>2
<1>9. F = Body(F)
  <2> HIDE DEF Body
  <2> QED BY <1>8
<1>10. \A k \in 0 .. n : CharsTaken(e, buffer, k) = F[k]
  BY DEF CharsTaken, n
<1> HIDE DEF F
<1>11. F = f
  <2> DEFINE E == {m \in 0 .. n : F[m] = f[m]}
  <2>1. 0 \in E
    BY <1>1, <1>6, <1>9
  <2>2. ASSUME NEW m \in 0 .. n - 1, m \in E PROVE m + 1 \in E
    <3>1. m + 1 \in 1 .. n /\ (m + 1) - 1 = m /\ m + 1 \in 0 .. n /\ m + 1 # 0
      BY <1>1
    <3>2. F[m + 1] = F[m] \o Processed(e, buffer[m + 1])
      <4>1. F[m + 1] = Body(F)[m + 1]
        <5> HIDE DEF Body
        <5> QED BY <1>9
      <4> QED BY <3>1, <4>1
    <3>3. f[m + 1] = f[m] \o Processed(e, buffer[m + 1])
      BY <1>7, <3>1
    <3> QED BY <2>2, <3>1, <3>2, <3>3
  <2>3. 0 .. n \subseteq E
    <3> HIDE DEF E
    <3> QED BY <1>1, <2>1, <2>2, UpTo
  <2>4. \A m \in 0 .. n : F[m] = f[m]
    BY <2>3
  <2> QED BY <1>6, <1>9, <2>4
<1>12. OutputRun(f, e, buffer)
  BY <1>6, <1>7 DEF OutputRun, n, S
<1> QED BY <1>10, <1>11, <1>12 DEF n

JoinsAlike(s, t, u) == (s \o t) \o u = s \o (t \o u)
LEMMA Associative ==
    ASSUME NEW S, NEW s \in Seq(S), NEW t \in Seq(S), NEW u \in Seq(S)
    PROVE  JoinsAlike(s, t, u)
  BY ConcatAssociative DEF JoinsAlike

\* What a call of write leaves in the ring at the other end: what was there and, unless a
\* newline was put by half, all that the counted characters become.
WriteWell(ring, w, accepted) ==
    w \in FitStates /\ accepted \in Seq(TtyChars) /\ (~w.cut => w.ring = ring \o accepted)
\* After i turns.
TurnWell(ring, st, g, i) ==
    /\ st \in FitStates /\ st.count \in 0 .. i
    /\ ~st.end => st.count = i /\ ~st.cut
    /\ ~st.cut => st.ring = ring \o g[st.count]
LEMMA NextTurn ==
    ASSUME NEW e, NEW buffer \in Seq(TtyChars), NEW ring \in Seq(TtyChars), NEW g,
           OutputRun(g, e, buffer), NEW m \in 0 .. Len(buffer) - 1, NEW st,
           TurnWell(ring, st, g, m)
    PROVE  TurnWell(ring, Put(e, st, buffer[m + 1]), g, m + 1)
<1> DEFINE c == buffer[m + 1]
           new == Put(e, st, c)
           out == Processed(e, c)
<1>1. /\ m \in Nat /\ Len(buffer) \in Nat /\ m + 1 \in 1 .. Len(buffer) /\ c \in TtyChars
      /\ m \in 0 .. Len(buffer) /\ (m + 1) - 1 = m
  OBVIOUS
<1>2. st \in PtyStates /\ Len(st.ring) <= PtyCapacity /\ st.count \in 0 .. m
  BY DEF TurnWell, FitStates
<1>3. PutWell(e, st, c, new) /\ new \in PtyStates
  BY <1>1, <1>2, PutIs
<1>4. g[m + 1] = g[m] \o out /\ g[m] \in Seq(TtyChars)
  BY <1>1 DEF OutputRun
<1>5. out \in Seq(TtyChars)
  BY <1>1, ProcessedIs
<1> HIDE DEF c, new, out
<1>6. new \in FitStates
  BY <1>3 DEF PutWell, FitStates
<1>7. CASE st.end
  BY <1>1, <1>2, <1>3, <1>6, <1>7 DEF PutWell, TurnWell, new, c
<1>8. CASE ~st.end /\ new.end
  <2>1. st.count = m /\ st.ring = ring \o g[m]
    BY <1>8 DEF TurnWell
  <2>2. new.count = m /\ (~new.cut => new.ring = ring \o g[m])
    BY <1>3, <1>8, <2>1 DEF PutWell
  <2> QED BY <1>1, <1>6, <1>8, <2>2 DEF TurnWell, new, c
<1>9. CASE ~st.end /\ ~new.end
  <2>1. st.count = m /\ st.ring = ring \o g[m]
    BY <1>9 DEF TurnWell
  <2>2. new.count = m + 1 /\ ~new.cut /\ new.ring = st.ring \o out
    BY <1>3, <1>9, <2>1 DEF PutWell, out
  <2>3. (ring \o g[m]) \o out = ring \o (g[m] \o out)
    <3> DEFINE x == g[m]
    <3>1. x \in Seq(TtyChars)
      BY <1>4
    <3> HIDE DEF x
    <3>2. JoinsAlike(ring, x, out)
      BY <1>5, <3>1, Associative
    <3> QED BY <3>2 DEF JoinsAlike, x
  <2>4. new.ring = ring \o g[m + 1]
    BY <1>4, <2>1, <2>2, <2>3
  <2> QED BY <1>1, <1>6, <1>9, <2>2, <2>4 DEF TurnWell, new, c
<1> QED BY <1>7, <1>8, <1>9

LEMMA WriteIs ==
    ASSUME NEW e, NEW buffer \in Seq(TtyChars),
           pty[Peer(e)].ring \in Seq(TtyChars), Len(pty[Peer(e)].ring) <= PtyCapacity
    PROVE  WriteWell(pty[Peer(e)].ring, Written(e, buffer),
                     CharsTaken(e, buffer, Written(e, buffer).count))
<1> DEFINE n == Len(buffer)
           ring == pty[Peer(e)].ring
<1>1. PICK f : WriteRun(f, e, buffer, FirstState(ring)) /\ Written(e, buffer) = f[n]
  BY WrittenRuns
<1>2. PICK g : OutputRun(g, e, buffer) /\ \A k \in 0 .. n : CharsTaken(e, buffer, k) = g[k]
  BY AcceptedRuns
<1>3. n \in Nat /\ ring \in Seq(TtyChars)
  OBVIOUS
<1>4. /\ f[0] = FirstState(ring) /\ f[0] \in FitStates
      /\ \A i \in 1 .. n : f[i] = Put(e, f[i - 1], buffer[i])
  BY <1>1, <1>3 DEF WriteRun
<1>5. g[0] = <<>> /\ \A k \in 0 .. n : g[k] \in Seq(TtyChars)
  BY <1>2 DEF OutputRun
<1> HIDE DEF n, ring
<1> DEFINE E == {i \in 0 .. n : TurnWell(ring, f[i], g, i)}
<1>6. 0 \in E
  <2> DEFINE st == f[0]
  <2>1. st.count = 0 /\ st.ring = ring /\ ~st.end /\ ~st.cut
    BY <1>4 DEF FirstState
  <2>2. ring \o <<>> = ring
    BY <1>3, ConcatEmptySeq
  <2> HIDE DEF st
  <2>3. TurnWell(ring, st, g, 0)
    <3>1. st.count \in 0 .. 0 /\ st \in FitStates
      BY <1>4, <2>1 DEF st
    <3>2. g[st.count] = <<>>
      BY <1>5, <2>1
    <3>3. st.ring = ring \o g[st.count]
      BY <2>1, <2>2, <3>2
    <3> QED BY <2>1, <3>1, <3>3 DEF TurnWell
  <2> QED BY <1>3, <2>3 DEF st
<1>7. ASSUME NEW m \in 0 .. n - 1, m \in E PROVE m + 1 \in E
  <2>1. m + 1 \in 1 .. n /\ (m + 1) - 1 = m /\ m + 1 \in 0 .. n
    BY <1>3
  <2>2. f[m + 1] = Put(e, f[m], buffer[m + 1])
    BY <1>4, <2>1
  <2>3. TurnWell(ring, f[m], g, m)
    BY <1>7
  <2>4. TurnWell(ring, Put(e, f[m], buffer[m + 1]), g, m + 1)
    BY <1>2, <1>3, <2>3, NextTurn DEF n
  <2> QED BY <2>1, <2>2, <2>4
<1>8. n \in E
  <2> HIDE DEF E
  <2>1. 0 .. n \subseteq E
    BY <1>3, <1>6, <1>7, UpTo
  <2> QED BY <1>3, <2>1
<1> DEFINE w == Written(e, buffer)
<1>9. TurnWell(ring, w, g, n)
  BY <1>1, <1>8
<1> HIDE DEF w
<1>10. w.count \in 0 .. n /\ w \in FitStates /\ (~w.cut => w.ring = ring \o g[w.count])
  BY <1>9 DEF TurnWell
<1>11. CharsTaken(e, buffer, w.count) = g[w.count]
  BY <1>2, <1>10
<1> QED BY <1>5, <1>10, <1>11 DEF WriteWell, w, ring

EndRecs == [ring : Seq(TtyChars), in : {"idle", "asleep", "woken"}, out : Seq(TtyChars), up : BOOLEAN]
\* One end of a pseudo terminal, y the other: a reader sleeps only on an empty ring, a
\* writer only while the other ring is full.
EndWell(x, y) ==
    /\ x \in EndRecs /\ Len(x.ring) <= PtyCapacity
    /\ x.in = "asleep" => x.ring = <<>>
    /\ x.out # <<>> /\ ~x.up => Len(y.ring) = PtyCapacity
EndsWell(p) == p \in [PtyEnds -> EndRecs] /\ \A e \in PtyEnds : EndWell(p[e], p[Peer(e)])
\* What waits in a ring is due, unless a newline was cut.
Due(p, due, cut) ==
    /\ due \in [PtyEnds -> Seq(TtyChars)] /\ cut \in [PtyEnds -> BOOLEAN]
    /\ \A e \in PtyEnds : ~cut[e] => p[e].ring = due[e]
ConsoleWell(c, t) ==
    /\ c \in [buffer : Seq(TtyChars), reader : {"idle", "asleep", "woken"}]
    /\ t \in Seq(TtyChars) /\ Len(t) <= ConsoleCapacity
    /\ Len(c.buffer) <= Len(t) /\ c.buffer = Suffix(t, Len(c.buffer))
    /\ c.reader = "asleep" => c.buffer = <<>>
Terminals ==
    [flags : Termios \cup {{"ICRNL", "ONLCR", "ISIG"}}, fg : TtyGroups \cup {NoGroup},
     session : {SessionOf[g] : g \in TtyGroups} \cup {0}, foreign : BOOLEAN]
ForegroundWell(t) == /\ t \in Terminals
                     /\ t.fg # NoGroup /\ ~t.foreign => SessionOf[t.fg] = t.session

\* The inductive invariant of the terminals.
TtyInv ==
    /\ EndsWell(pty)
    /\ Due(pty, pty_due, pty_cut)
    /\ ForegroundWell(tty)
    /\ ConsoleWell(console, typed)

LEMMA BothEnds ==
    ASSUME NEW e \in PtyEnds
    PROVE  /\ Peer(e) \in PtyEnds /\ Peer(e) # e /\ Peer(Peer(e)) = e
           /\ \A x \in PtyEnds : x = e \/ x = Peer(e)
  BY DEF PtyEnds, Peer

LEMMA TwoEnds ==
    ASSUME NEW e \in PtyEnds, NEW p, DOMAIN p = PtyEnds, p = [x \in PtyEnds |-> p[x]],
           EndWell(p[e], p[Peer(e)]), EndWell(p[Peer(e)], p[e])
    PROVE  EndsWell(p)
<1>1. p \in [PtyEnds -> EndRecs]
  BY BothEnds DEF EndWell
<1>2. \A x \in PtyEnds : EndWell(p[x], p[Peer(x)])
  BY BothEnds
<1> QED BY <1>1, <1>2 DEF EndsWell

\* Told of something, an end keeps its ring and no reader or writer of it sleeps on.
LEMMA TriggerIs ==
    ASSUME NEW p \in [PtyEnds -> EndRecs], NEW e \in PtyEnds
    PROVE  /\ TtyTriggers(p, e) = [x \in PtyEnds |-> TtyTriggers(p, e)[x]]
           /\ TtyTriggers(p, e)[e] \in EndRecs
           /\ TtyTriggers(p, e)[e].ring = p[e].ring /\ TtyTriggers(p, e)[e].in # "asleep"
           /\ TtyTriggers(p, e)[e].out = p[e].out
           /\ TtyTriggers(p, e)[e].up = (p[e].out # <<>>)
           /\ \A x \in PtyEnds : x # e => TtyTriggers(p, e)[x] = p[x]
<1> DEFINE q == TtyTriggers(p, e)
           a == IF p[e].in = "asleep" THEN "woken" ELSE p[e].in
           u == (p[e].out # <<>>)
<1>1. p[e] \in EndRecs
  OBVIOUS
<1>2. q = [p EXCEPT ![e] = [p[e] EXCEPT !.in = a, !.up = u]]
  BY DEF TtyTriggers
<1>3. a \in {"idle", "woken"}
  BY <1>1 DEF EndRecs
<1> HIDE DEF q, a, u
<1>4. u \in BOOLEAN
  BY DEF u
<1> DEFINE r == [p[e] EXCEPT !.in = a, !.up = u]
<1>5. /\ r \in EndRecs /\ r.ring = p[e].ring /\ r.in = a /\ r.out = p[e].out /\ r.up = u
  BY <1>1, <1>3, <1>4 DEF EndRecs
<1> HIDE DEF r
<1>6. q = [p EXCEPT ![e] = r]
  BY <1>2 DEF r
<1>7. q = [x \in PtyEnds |-> q[x]] /\ q[e] = r /\ \A x \in PtyEnds : x # e => q[x] = p[x]
  BY <1>6
<1> QED BY <1>3, <1>5, <1>7 DEF q, u

LEMMA WriteSafe ==
    ASSUME TtyInv, NEW e \in PtyEnds, NEW b \in PtyBuffers, pty_write(e, b)
    PROVE  EndsWell(pty') /\ Due(pty', pty_due', pty_cut')
<1> DEFINE o == Peer(e)
           w == Written(e, b)
           acc == CharsTaken(e, b, w.count)
<1>1. o \in PtyEnds /\ o # e /\ Peer(o) = e /\ \A x \in PtyEnds : x = e \/ x = o
  BY BothEnds
<1>2. /\ pty \in [PtyEnds -> EndRecs] /\ pty[e] \in EndRecs /\ pty[o] \in EndRecs
      /\ EndWell(pty[e], pty[o]) /\ EndWell(pty[o], pty[e])
  BY <1>1 DEF TtyInv, EndsWell
<1>3. /\ pty[o].ring \in Seq(TtyChars) /\ Len(pty[o].ring) <= PtyCapacity
      /\ b \in Seq(TtyChars)
  BY <1>2, TtyAssumption DEF EndRecs, EndWell
<1>4. /\ pty_due \in [PtyEnds -> Seq(TtyChars)] /\ pty_cut \in [PtyEnds -> BOOLEAN]
      /\ \A x \in PtyEnds : ~pty_cut[x] => pty[x].ring = pty_due[x]
  BY DEF TtyInv, Due
<1>5. WriteWell(pty[o].ring, w, acc)
  BY <1>3, WriteIs
<1>6. w \in FitStates /\ w.ring \in Seq(TtyChars) /\ Len(w.ring) <= PtyCapacity /\ w.cut \in BOOLEAN
      /\ acc \in Seq(TtyChars) /\ (~w.cut => w.ring = pty[o].ring \o acc)
  BY <1>5 DEF WriteWell, FitStates, PtyStates
<1>7. CASE Len(pty[o].ring) = PtyCapacity
  <2>1. pty' = [pty EXCEPT ![e].out = b, ![e].up = FALSE] /\ pty_due' = pty_due /\ pty_cut' = pty_cut
    BY <1>7 DEF pty_write
  <2> DEFINE r == [pty[e] EXCEPT !.out = b, !.up = FALSE]
  <2>2. r \in EndRecs /\ r.ring = pty[e].ring /\ r.in = pty[e].in
    BY <1>2, <1>3 DEF EndRecs
  <2>3. pty' = [pty EXCEPT ![e] = r]
    BY <2>1
  <2> HIDE DEF r, o, w, acc
  <2>4. /\ DOMAIN pty' = PtyEnds /\ pty' = [x \in PtyEnds |-> pty'[x]]
        /\ pty'[e] = r /\ pty'[o] = pty[o]
    BY <1>1, <1>2, <2>3
  <2>5. EndWell(r, pty[o]) /\ EndWell(pty[o], r)
    BY <1>2, <1>7, <2>2 DEF EndWell
  <2>6. EndsWell(pty')
    <3>1. EndWell(pty'[e], pty'[Peer(e)]) /\ EndWell(pty'[Peer(e)], pty'[e])
      BY <2>4, <2>5 DEF o
    <3> QED BY <2>4, <3>1, TwoEnds
  <2>7. \A x \in PtyEnds : pty'[x].ring = pty[x].ring
    BY <1>1, <2>2, <2>4
  <2>8. Due(pty', pty_due', pty_cut')
    BY <1>4, <2>1, <2>7 DEF Due
  <2> QED BY <2>6, <2>8
<1>8. CASE Len(pty[o].ring) # PtyCapacity
  <2> DEFINE p == [pty EXCEPT ![o].ring = w.ring, ![e].out = <<>>, ![e].up = FALSE]
             s == [pty[e] EXCEPT !.out = <<>>, !.up = FALSE]
             t == [pty[o] EXCEPT !.ring = w.ring]
  <2>1. /\ pty' = TtyTriggers(p, o)
        /\ pty_cut' = [pty_cut EXCEPT ![o] = pty_cut[o] \/ w.cut]
        /\ pty_due' = [pty_due EXCEPT ![o] = IF pty_cut'[o] THEN <<>> ELSE pty_due[o] \o acc]
    BY <1>8 DEF pty_write
  <2> HIDE DEF o, w, acc
  <2>2. s \in EndRecs /\ s.ring = pty[e].ring /\ s.in = pty[e].in /\ s.out = <<>>
    <3> DEFINE none == <<>>
    <3>1. none \in Seq(TtyChars)
      OBVIOUS
    <3>2. s = [pty[e] EXCEPT !.out = none, !.up = FALSE]
      OBVIOUS
    <3> HIDE DEF none
    <3>3. s \in EndRecs /\ s.ring = pty[e].ring /\ s.in = pty[e].in /\ s.out = none
      BY <1>2, <3>1, <3>2 DEF EndRecs
    <3> QED BY <3>3 DEF none
  <2>3. t \in EndRecs /\ t.ring = w.ring
    BY <1>2, <1>6 DEF EndRecs
  <2>4. p = [pty EXCEPT ![o] = t, ![e] = s]
    BY <1>1, <1>2
  <2> HIDE DEF p, s, t
  <2>5. p \in [PtyEnds -> EndRecs] /\ p[e] = s /\ p[o] = t
    BY <1>1, <1>2, <2>2, <2>3, <2>4
  <2>6. /\ pty' = [x \in PtyEnds |-> pty'[x]] /\ pty'[o] \in EndRecs
        /\ pty'[o].ring = w.ring /\ pty'[o].in # "asleep" /\ pty'[o].out = t.out
        /\ pty'[o].up = (t.out # <<>>) /\ pty'[e] = s
    BY <1>1, <2>1, <2>3, <2>5, TriggerIs
  <2>7. EndWell(pty'[e], pty'[o]) /\ EndWell(pty'[o], pty'[e])
    BY <1>2, <1>6, <2>2, <2>6 DEF EndWell
  <2>8. EndsWell(pty')
    <3>1. DOMAIN pty' = PtyEnds
      BY <2>6
    <3> QED BY <2>6, <2>7, <3>1, TwoEnds DEF o
  <2>9. pty_cut' \in [PtyEnds -> BOOLEAN] /\ pty_cut'[o] = (pty_cut[o] \/ w.cut) /\ pty_cut'[e] = pty_cut[e]
    BY <1>1, <1>4, <1>6, <2>1
  <2> DEFINE d == IF pty_cut'[o] THEN <<>> ELSE pty_due[o] \o acc
  <2>10. d \in Seq(TtyChars)
    <3>1. pty_due[o] \in Seq(TtyChars)
      BY <1>1, <1>4
    <3>2. pty_due[o] \o acc \in Seq(TtyChars)
      BY <1>6, <3>1, ConcatProperties
    <3> QED BY <3>2
  <2>11. ~pty_cut'[o] => d = w.ring
    BY <1>1, <1>4, <1>6, <2>9
  <2> HIDE DEF d
  <2>12. pty_due' \in [PtyEnds -> Seq(TtyChars)] /\ pty_due'[o] = d /\ pty_due'[e] = pty_due[e]
    <3>1. pty_due' = [pty_due EXCEPT ![o] = d]
      BY <2>1 DEF d
    <3> QED BY <1>1, <1>4, <2>10, <3>1
  <2>13. ASSUME NEW x \in PtyEnds, ~pty_cut'[x] PROVE pty'[x].ring = pty_due'[x]
    <3>1. CASE x = o
      BY <2>6, <2>11, <2>12, <2>13, <3>1
    <3>2. CASE x = e
      BY <1>4, <2>2, <2>6, <2>9, <2>12, <2>13, <3>2
    <3> QED BY <1>1, <3>1, <3>2
  <2>14. Due(pty', pty_due', pty_cut')
    BY <2>9, <2>12, <2>13 DEF Due
  <2> QED BY <2>8, <2>14
<1> QED BY <1>7, <1>8

\* What is left of a list from which n entries were read.
LEMMA TailIs ==
    ASSUME NEW S, NEW s \in Seq(S), NEW n \in Nat
    PROVE  /\ n <= Len(s) => /\ SubSeq(s, n + 1, Len(s)) \in Seq(S)
                             /\ Len(SubSeq(s, n + 1, Len(s))) = Len(s) - n
                             /\ SubSeq(s, n + 1, Len(s)) = Suffix(s, Len(s) - n)
           /\ n >= Len(s) => SubSeq(s, n + 1, Len(s)) = <<>>
<1> DEFINE l == Len(s)
<1>1. l \in Nat
  OBVIOUS
<1>2. ASSUME n <= l PROVE /\ SubSeq(s, n + 1, l) = Suffix(s, l - n)
                          /\ Suffix(s, l - n) \in Seq(S) /\ Len(Suffix(s, l - n)) = l - n
  <2>1. l - n \in 0 .. l /\ l - (l - n) + 1 = n + 1
    BY <1>1, <1>2
  <2>2. SubSeq(s, n + 1, l) = Suffix(s, l - n)
    BY <2>1 DEF Suffix
  <2>3. Suffix(s, l - n) \in Seq(S) /\ Len(Suffix(s, l - n)) = l - n
    BY <2>1, SuffixIs
  <2> QED BY <2>2, <2>3
<1>3. ASSUME n >= l PROVE SubSeq(s, n + 1, l) = <<>>
  BY <1>1, <1>3
<1> QED BY <1>2, <1>3

LEMMA ReadSafe ==
    ASSUME TtyInv, NEW e \in PtyEnds, NEW n \in 1 .. PtyCapacity, pty_read(e, n)
    PROVE  EndsWell(pty') /\ Due(pty', pty_due', pty_cut')
<1> DEFINE o == Peer(e)
           ring == pty[e].ring
           want == IF e = "master" /\ packet_mode THEN n - 1 ELSE n
           count == IF want < Len(ring) THEN want ELSE Len(ring)
<1>1. o \in PtyEnds /\ o # e /\ Peer(o) = e /\ \A x \in PtyEnds : x = e \/ x = o
  BY BothEnds
<1>2. /\ pty \in [PtyEnds -> EndRecs] /\ pty[e] \in EndRecs /\ pty[o] \in EndRecs
      /\ EndWell(pty[e], pty[o]) /\ EndWell(pty[o], pty[e])
  BY <1>1 DEF TtyInv, EndsWell
<1>3. ring \in Seq(TtyChars) /\ Len(ring) \in Nat /\ Len(ring) <= PtyCapacity
  BY <1>2 DEF EndRecs, EndWell
<1>4. /\ pty_due \in [PtyEnds -> Seq(TtyChars)] /\ pty_cut \in [PtyEnds -> BOOLEAN]
      /\ \A x \in PtyEnds : ~pty_cut[x] => pty[x].ring = pty_due[x]
  BY DEF TtyInv, Due
<1>5. want \in Nat /\ count \in Nat /\ count <= Len(ring)
  BY <1>3, TtyAssumption
<1>6. pty_cut' = pty_cut
  BY DEF pty_read
<1>7. CASE ring = <<>>
  <2>1. pty' = [pty EXCEPT ![e].in = "asleep"] /\ pty_due' = pty_due
    BY <1>7 DEF pty_read
  <2> DEFINE r == [pty[e] EXCEPT !.in = "asleep"]
  <2>2. r \in EndRecs /\ r.ring = ring /\ r.out = pty[e].out /\ r.up = pty[e].up
    BY <1>2 DEF EndRecs
  <2>3. pty' = [pty EXCEPT ![e] = r]
    BY <2>1
  <2> HIDE DEF r, o, want, count
  <2>4. /\ DOMAIN pty' = PtyEnds /\ pty' = [x \in PtyEnds |-> pty'[x]]
        /\ pty'[e] = r /\ pty'[o] = pty[o]
    BY <1>1, <1>2, <2>3
  <2>5. EndWell(r, pty[o]) /\ EndWell(pty[o], r)
    BY <1>2, <1>7, <2>2 DEF EndWell
  <2>6. EndsWell(pty')
    <3>1. EndWell(pty'[e], pty'[Peer(e)]) /\ EndWell(pty'[Peer(e)], pty'[e])
      BY <2>4, <2>5 DEF o
    <3> QED BY <2>4, <3>1, TwoEnds
  <2>7. \A x \in PtyEnds : pty'[x].ring = pty[x].ring
    BY <1>1, <2>2, <2>4
  <2>8. Due(pty', pty_due', pty_cut')
    BY <1>4, <1>6, <2>1, <2>7 DEF Due
  <2> QED BY <2>6, <2>8
<1>8. CASE ring # <<>>
  <2> DEFINE left == SubSeq(ring, count + 1, Len(ring))
             p == [pty EXCEPT ![e].ring = left, ![e].in = "idle"]
             s == [pty[e] EXCEPT !.ring = left, !.in = "idle"]
             due == pty_due[e]
             d == IF count < Len(due) THEN SubSeq(due, count + 1, Len(due)) ELSE <<>>
  <2>1. /\ pty' = TtyTriggers(p, o) /\ pty_due' = [pty_due EXCEPT ![e] = d]
    BY <1>8 DEF pty_read, Told_peer
  <2>2. left \in Seq(TtyChars) /\ Len(left) <= Len(ring) /\ (count = Len(ring) => left = <<>>)
    <3> HIDE DEF ring, count
    <3>1. left \in Seq(TtyChars) /\ Len(left) = Len(ring) - count
      BY <1>3, <1>5, TailIs
    <3>2. count = Len(ring) => left = <<>>
      BY <1>3, <1>5, TailIs
    <3> QED BY <1>3, <1>5, <3>1, <3>2
  <2>3. due \in Seq(TtyChars) /\ (~pty_cut[e] => due = ring)
    BY <1>4
  <2>4. d \in Seq(TtyChars)
    <3> HIDE DEF due, count
    <3>1. Len(due) \in Nat
      BY <2>3
    <3>2. ASSUME count < Len(due) PROVE SubSeq(due, count + 1, Len(due)) \in Seq(TtyChars)
      BY <1>5, <2>3, <3>1, <3>2, TailIs
    <3> QED BY <3>2
  <2>5. ~pty_cut[e] => d = left
    <3> SUFFICES ASSUME ~pty_cut[e] PROVE d = left
      OBVIOUS
    <3>1. due = ring
      BY <2>3
    <3> HIDE DEF due, ring, count
    <3>2. CASE count < Len(ring)
      BY <3>1, <3>2
    <3>3. CASE ~(count < Len(ring))
      <4>1. count = Len(ring)
        BY <1>3, <1>5, <3>3
      <4> QED BY <2>2, <3>1, <3>3, <4>1
    <3> QED BY <3>2, <3>3
  <2> HIDE DEF o, want, count, left, d, due
  <2>6. s \in EndRecs /\ s.ring = left /\ s.in = "idle" /\ s.out = pty[e].out /\ s.up = pty[e].up
    BY <1>2, <2>2 DEF EndRecs
  <2>7. p = [pty EXCEPT ![e] = s]
    OBVIOUS
  <2> HIDE DEF p, s
  <2>8. p \in [PtyEnds -> EndRecs] /\ p[e] = s /\ p[o] = pty[o]
    BY <1>1, <1>2, <2>6, <2>7
  <2>9. /\ pty' = [x \in PtyEnds |-> pty'[x]] /\ pty'[o] \in EndRecs
        /\ pty'[o].ring = pty[o].ring /\ pty'[o].in # "asleep" /\ pty'[o].out = pty[o].out
        /\ pty'[o].up = (pty[o].out # <<>>) /\ pty'[e] = s
    BY <1>1, <2>1, <2>8, TriggerIs
  <2>10. Len(left) <= PtyCapacity
    <3>1. Len(left) \in Nat
      BY <2>2
    <3> QED BY <1>3, <2>2, <3>1, TtyAssumption
  <2>11. EndWell(pty'[e], pty'[o]) /\ EndWell(pty'[o], pty'[e])
    BY <1>2, <2>6, <2>9, <2>10 DEF EndWell
  <2>12. EndsWell(pty')
    <3>1. DOMAIN pty' = PtyEnds
      BY <2>9
    <3> QED BY <2>9, <2>11, <3>1, TwoEnds DEF o
  <2>13. pty_due' \in [PtyEnds -> Seq(TtyChars)] /\ pty_due'[e] = d /\ pty_due'[o] = pty_due[o]
    BY <1>1, <1>4, <2>1, <2>4
  <2>14. ASSUME NEW x \in PtyEnds, ~pty_cut'[x] PROVE pty'[x].ring = pty_due'[x]
    <3>1. CASE x = e
      BY <1>6, <2>5, <2>6, <2>9, <2>13, <2>14, <3>1
    <3>2. CASE x = o
      BY <1>1, <1>4, <1>6, <2>9, <2>13, <2>14, <3>2
    <3> QED BY <1>1, <3>1, <3>2
  <2>15. Due(pty', pty_due', pty_cut')
    BY <1>4, <1>6, <2>13, <2>14 DEF Due
  <2> QED BY <2>12, <2>15
<1> QED BY <1>7, <1>8

LEMMA InterruptedSafe ==
    ASSUME TtyInv, NEW e \in PtyEnds, pty_interrupted(e)
    PROVE  EndsWell(pty') /\ Due(pty', pty_due', pty_cut')
<1> DEFINE o == Peer(e)
           none == <<>>
<1>1. o \in PtyEnds /\ o # e /\ Peer(o) = e /\ \A x \in PtyEnds : x = e \/ x = o
  BY BothEnds
<1>2. /\ pty \in [PtyEnds -> EndRecs] /\ pty[e] \in EndRecs /\ pty[o] \in EndRecs
      /\ EndWell(pty[e], pty[o]) /\ EndWell(pty[o], pty[e])
  BY <1>1 DEF TtyInv, EndsWell
<1>3. pty_due' = pty_due /\ pty_cut' = pty_cut
  BY DEF pty_interrupted
<1>4. none \in Seq(TtyChars)
  OBVIOUS
<1>5. \/ pty' = [pty EXCEPT ![e].in = "idle"]
      \/ pty' = [pty EXCEPT ![e].out = none]
  BY DEF pty_interrupted
<1> HIDE DEF o, none
<1>6. PICK q \in EndRecs : /\ pty' = [pty EXCEPT ![e] = q]
                           /\ q.ring = pty[e].ring /\ q.up = pty[e].up
                           /\ \/ q.in = "idle" /\ q.out = pty[e].out
                              \/ q.in = pty[e].in /\ q.out = none
  <2>1. CASE pty' = [pty EXCEPT ![e].in = "idle"]
    <3> DEFINE x == [pty[e] EXCEPT !.in = "idle"]
    <3>1. x \in EndRecs /\ x.ring = pty[e].ring /\ x.up = pty[e].up /\ x.in = "idle" /\ x.out = pty[e].out
      BY <1>2 DEF EndRecs
    <3>2. pty' = [pty EXCEPT ![e] = x]
      BY <2>1
    <3> HIDE DEF x
    <3> QED BY <3>1, <3>2
  <2>2. CASE pty' = [pty EXCEPT ![e].out = none]
    <3> DEFINE x == [pty[e] EXCEPT !.out = none]
    <3>1. x \in EndRecs /\ x.ring = pty[e].ring /\ x.up = pty[e].up /\ x.in = pty[e].in /\ x.out = none
      BY <1>2, <1>4 DEF EndRecs
    <3>2. pty' = [pty EXCEPT ![e] = x]
      BY <2>2
    <3> HIDE DEF x
    <3> QED BY <3>1, <3>2
  <2> QED BY <1>5, <2>1, <2>2
<1>7. /\ DOMAIN pty' = PtyEnds /\ pty' = [x \in PtyEnds |-> pty'[x]]
      /\ pty'[e] = q /\ pty'[o] = pty[o]
  BY <1>1, <1>2, <1>6
<1>8. EndWell(q, pty[o]) /\ EndWell(pty[o], q)
  BY <1>2, <1>6 DEF EndWell, none
<1>9. EndsWell(pty')
  <2>1. EndWell(pty'[e], pty'[Peer(e)]) /\ EndWell(pty'[Peer(e)], pty'[e])
    BY <1>7, <1>8 DEF o
  <2> QED BY <1>7, <2>1, TwoEnds
<1>10. \A x \in PtyEnds : pty'[x].ring = pty[x].ring
  BY <1>1, <1>6, <1>7
<1>11. Due(pty', pty_due', pty_cut')
  BY <1>3, <1>10 DEF TtyInv, Due
<1> QED BY <1>9, <1>11

LEMMA SessionSafe ==
    ASSUME TtyInv,
           \/ \E f \in Termios : tcsets(f)
           \/ \E g \in TtyGroups : \/ set_controlling_terminal(g)
                                   \/ \E h \in TtyGroups : tiocspgrp(g, h)
    PROVE  ForegroundWell(tty')
<1>1. ForegroundWell(tty)
  BY DEF TtyInv
<1>2. ASSUME NEW f \in Termios, tcsets(f) PROVE ForegroundWell(tty')
  <2>1. tty' = [tty EXCEPT !.flags = f]
    BY <1>2 DEF tcsets
  <2> QED BY <1>1, <2>1 DEF ForegroundWell, Terminals
<1>3. ASSUME NEW g \in TtyGroups, set_controlling_terminal(g) PROVE ForegroundWell(tty')
  <2>1. tty' = [tty EXCEPT !.session = SessionOf[g], !.fg = g, !.foreign = FALSE]
    BY <1>3 DEF set_controlling_terminal
  <2> QED BY <1>1, <2>1 DEF ForegroundWell, Terminals
<1>4. ASSUME NEW g \in TtyGroups, NEW h \in TtyGroups, tiocspgrp(g, h) PROVE ForegroundWell(tty')
  <2> DEFINE f == (SessionOf[g] # tty.session)
  <2>1. tty' = [tty EXCEPT !.fg = h, !.foreign = f] /\ SessionOf[h] = SessionOf[g]
    BY <1>4 DEF tiocspgrp, MayPut
  <2>2. f \in BOOLEAN /\ (~f => SessionOf[g] = tty.session)
    OBVIOUS
  <2> HIDE DEF f
  <2> QED BY <1>1, <2>1, <2>2 DEF ForegroundWell, Terminals
<1> QED BY <1>2, <1>3, <1>4

\* The latest characters that the buffer keeps, with the new ones behind them.
LEMMA KeySafe ==
    ASSUME TtyInv, NEW chars \in Keys, console_key(chars)
    PROVE  ConsoleWell(console', typed')
<1> DEFINE buf == console.buffer
           lb == Len(buf)
           lc == Len(chars)
           lt == Len(typed)
           all == typed \o chars
           drop == IF ConsoleCapacity - lb < lc THEN (IF lc < lb THEN lc ELSE lb) ELSE 0
           kept == lb - drop
           rest == Suffix(buf, kept)
           long == IF lt + lc > ConsoleCapacity THEN ConsoleCapacity ELSE lt + lc
<1>1. /\ console \in [buffer : Seq(TtyChars), reader : {"idle", "asleep", "woken"}]
      /\ buf \in Seq(TtyChars) /\ typed \in Seq(TtyChars) /\ lt <= ConsoleCapacity
      /\ lb <= lt /\ buf = Suffix(typed, lb)
  BY DEF TtyInv, ConsoleWell
<1>2. chars \in Seq(TtyChars) /\ lc <= ConsoleCapacity /\ ConsoleCapacity \in Nat
  BY TtyAssumption
<1>3. lb \in Nat /\ lc \in Nat /\ lt \in Nat
  BY <1>1, <1>2
<1>4. all \in Seq(TtyChars) /\ Len(all) = lt + lc
  BY <1>1, <1>2, ConcatProperties
<1>5. console' = [buffer |-> write_truncate(buf, chars),
                  reader |-> IF console.reader = "asleep" THEN "woken" ELSE console.reader]
  BY DEF console_key
<1>6. typed' = SubSeq(all, IF Len(all) > ConsoleCapacity THEN Len(all) - ConsoleCapacity + 1 ELSE 1, Len(all))
  BY DEF console_key
<1> HIDE DEF all
<1>7. typed' = Suffix(all, long) /\ long \in 0 .. lt + lc /\ long <= ConsoleCapacity
  <2>1. long \in 0 .. lt + lc /\ long <= ConsoleCapacity
    BY <1>2, <1>3
  <2>2. (IF Len(all) > ConsoleCapacity THEN Len(all) - ConsoleCapacity + 1 ELSE 1) = Len(all) - long + 1
    <3>1. (IF lt + lc > ConsoleCapacity THEN (lt + lc) - ConsoleCapacity + 1 ELSE 1) = (lt + lc) - long + 1
      BY <1>2, <1>3
    <3> QED BY <1>4, <3>1
  <2> QED BY <1>6, <2>1, <2>2 DEF Suffix
<1>8. drop \in 0 .. lb /\ kept \in 0 .. lb /\ kept + lc <= long
  <2> HIDE DEF buf, lb, lc, lt
  <2> QED BY <1>1, <1>2, <1>3
<1>9. write_truncate(buf, chars) = rest \o chars
  <2>1. rest = SubSeq(buf, drop + 1, lb)
    <3>1. lb - kept + 1 = drop + 1
      BY <1>3, <1>8
    <3> QED BY <3>1 DEF Suffix
  <2>2. drop = 0 => rest = buf
    <3>1. SubSeq(buf, 1, lb) = buf
      BY <1>1
    <3> HIDE DEF drop, rest
    <3> QED BY <2>1, <3>1
  <2>3. CASE ConsoleCapacity - lb < lc
    BY <2>1, <2>3 DEF write_truncate
  <2>4. CASE ~(ConsoleCapacity - lb < lc)
    <3>1. drop = 0
      BY <2>4
    <3> HIDE DEF rest
    <3> QED BY <2>2, <2>4, <3>1 DEF write_truncate
  <2> QED BY <2>3, <2>4
<1> HIDE DEF drop, long
<1>10. rest = Suffix(typed, kept)
  <2> HIDE DEF buf, lb, kept
  <2>1. lb \in 0 .. Len(typed)
    BY <1>1, <1>3
  <2> QED BY <1>1, <1>8, <2>1, SuffixOfSuffix
<1> HIDE DEF rest, kept, buf
<1>11. rest \o chars = Suffix(all, kept + lc) /\ kept + lc \in 0 .. lt + lc
  <2>1. kept \in 0 .. Len(typed)
    BY <1>1, <1>3, <1>8
  <2>2. Suffix(typed, kept) \o chars = Suffix(typed \o chars, kept + Len(chars))
    BY <1>1, <1>2, <2>1, SuffixMore
  <2> QED BY <1>3, <1>10, <2>1, <2>2 DEF all
<1> DEFINE new == kept + lc
           b == Suffix(all, new)
<1>12. new \in 0 .. long /\ long \in 0 .. Len(all) /\ new \in 0 .. Len(all)
  BY <1>3, <1>4, <1>7, <1>8, <1>11
<1> HIDE DEF new
<1>13. b \in Seq(TtyChars) /\ Len(b) = new
  BY <1>4, <1>12, SuffixIs
<1>14. typed' \in Seq(TtyChars) /\ Len(typed') = long
  BY <1>4, <1>7, <1>12, SuffixIs
<1>15. b = Suffix(typed', new)
  BY <1>4, <1>7, <1>12, SuffixOfSuffix
<1>16. console'.buffer = b /\ console'.reader # "asleep"
       /\ console' \in [buffer : Seq(TtyChars), reader : {"idle", "asleep", "woken"}]
  <2> DEFINE r == IF console.reader = "asleep" THEN "woken" ELSE console.reader
  <2>1. console' = [buffer |-> b, reader |-> r]
    BY <1>5, <1>9, <1>11 DEF new
  <2>2. r \in {"idle", "woken"}
    BY <1>1
  <2> HIDE DEF b, r
  <2> QED BY <1>13, <2>1, <2>2
<1> HIDE DEF b
<1>17. /\ Len(console'.buffer) <= Len(typed')
       /\ console'.buffer = Suffix(typed', Len(console'.buffer))
       /\ Len(typed') <= ConsoleCapacity
  BY <1>7, <1>12, <1>13, <1>14, <1>15, <1>16
<1> QED BY <1>14, <1>16, <1>17 DEF ConsoleWell

LEMMA ConsoleReadSafe ==
    ASSUME TtyInv, NEW n \in 1 .. ConsoleCapacity, console_read(n)
    PROVE  ConsoleWell(console', typed')
<1> DEFINE buf == console.buffer
           lb == Len(buf)
           lt == Len(typed)
<1>1. /\ console \in [buffer : Seq(TtyChars), reader : {"idle", "asleep", "woken"}]
      /\ buf \in Seq(TtyChars) /\ typed \in Seq(TtyChars) /\ lt <= ConsoleCapacity
      /\ lb <= lt /\ buf = Suffix(typed, lb)
  BY DEF TtyInv, ConsoleWell
<1>2. lb \in Nat /\ lt \in Nat /\ n \in Nat /\ typed' = typed
  BY <1>1, TtyAssumption DEF console_read
<1>3. CASE buf = <<>>
  <2>1. console' = [console EXCEPT !.reader = "asleep"]
    BY <1>3 DEF console_read
  <2>2. console'.buffer = buf /\ console'.reader = "asleep"
        /\ console' \in [buffer : Seq(TtyChars), reader : {"idle", "asleep", "woken"}]
    BY <1>1, <2>1
  <2> QED BY <1>1, <1>2, <1>3, <2>2 DEF ConsoleWell
<1>4. CASE buf # <<>>
  <2> DEFINE left == SubSeq(buf, n + 1, Len(buf))
  <2>1. console' = [buffer |-> left, reader |-> "idle"]
    BY <1>4 DEF console_read
  <2>2. left \in Seq(TtyChars) /\ Len(left) <= lt /\ left = Suffix(typed, Len(left))
    <3>1. CASE n <= lb
      <4>1. left \in Seq(TtyChars) /\ Len(left) = lb - n /\ left = Suffix(buf, lb - n)
        <5>1. buf \in Seq(TtyChars) /\ n \in Nat /\ n <= Len(buf)
          BY <1>1, <1>2, <3>1
        <5> HIDE DEF buf
        <5> QED BY <5>1, TailIs
      <4>2. lb \in 0 .. Len(typed) /\ lb - n \in 0 .. lb
        BY <1>1, <1>2, <3>1
      <4> DEFINE k == lb - n
                 l == lb
      <4> HIDE DEF left, k, l
      <4>3. Suffix(Suffix(typed, l), k) = Suffix(typed, k)
        <5>1. l \in 0 .. Len(typed) /\ k \in 0 .. l
          BY <4>2 DEF k, l
        <5> QED BY <1>1, <5>1, SuffixOfSuffix
      <4>4. left = Suffix(typed, k)
        BY <1>1, <4>1, <4>3 DEF k, l
      <4> QED BY <1>1, <1>2, <4>1, <4>2, <4>4 DEF k
    <3>2. CASE ~(n <= lb)
      <4>1. left = <<>>
        <5> HIDE DEF buf
        <5> QED BY <1>1, <1>2, <3>2, TailIs
      <4>2. Suffix(typed, 0) \in Seq(TtyChars) /\ Len(Suffix(typed, 0)) = 0
        <5>1. 0 \in 0 .. Len(typed)
          BY <1>2
        <5> QED BY <1>1, <5>1, SuffixIs
      <4>3. Suffix(typed, 0) = <<>>
        <5> DEFINE z == Suffix(typed, 0)
        <5>1. z \in Seq(TtyChars) /\ Len(z) = 0
          BY <4>2
        <5> HIDE DEF z
        <5>2. z = <<>>
          BY <5>1
        <5> QED BY <5>2 DEF z
      <4>4. Len(left) = 0 /\ left \in Seq(TtyChars)
        <5> HIDE DEF left
        <5> QED BY <4>1
      <4> HIDE DEF left
      <4> QED BY <1>2, <4>1, <4>3, <4>4
    <3> QED BY <3>1, <3>2
  <2> HIDE DEF left, buf
  <2>3. console'.buffer = left /\ console'.reader # "asleep"
        /\ console' \in [buffer : Seq(TtyChars), reader : {"idle", "asleep", "woken"}]
    BY <2>1, <2>2
  <2> QED BY <1>1, <1>2, <2>2, <2>3 DEF ConsoleWell
<1> QED BY <1>3, <1>4

LEMMA TtyStep ==
    ASSUME TtyInv, [PtyNext \/ SessionNext \/ ConsoleNext]_tty_vars
    PROVE  TtyInv'
<1>1. EndsWell(pty) /\ Due(pty, pty_due, pty_cut) /\ ForegroundWell(tty) /\ ConsoleWell(console, typed)
  BY DEF TtyInv
<1>2. ASSUME NEW e \in PtyEnds, NEW b \in PtyBuffers, pty_write(e, b) PROVE TtyInv'
  <2>1. UNCHANGED <<tty, console, typed>>
    BY <1>2 DEF pty_write, console_vars
  <2>2. EndsWell(pty') /\ Due(pty', pty_due', pty_cut')
    BY <1>2, WriteSafe
  <2> QED BY <1>1, <2>1, <2>2 DEF TtyInv
<1>3. ASSUME NEW e \in PtyEnds, NEW n \in 1 .. PtyCapacity, pty_read(e, n) PROVE TtyInv'
  <2>1. UNCHANGED <<tty, console, typed>>
    BY <1>3 DEF pty_read, console_vars
  <2>2. EndsWell(pty') /\ Due(pty', pty_due', pty_cut')
    BY <1>3, ReadSafe
  <2> QED BY <1>1, <2>1, <2>2 DEF TtyInv
<1>4. ASSUME NEW e \in PtyEnds, pty_interrupted(e) PROVE TtyInv'
  <2>1. UNCHANGED <<tty, console, typed>>
    BY <1>4 DEF pty_interrupted, console_vars
  <2>2. EndsWell(pty') /\ Due(pty', pty_due', pty_cut')
    BY <1>4, InterruptedSafe
  <2> QED BY <1>1, <2>1, <2>2 DEF TtyInv
<1>5. CASE pty_ioctl_packet
  <2>1. UNCHANGED <<pty, pty_due, pty_cut, tty, console, typed>>
    BY <1>5 DEF pty_ioctl_packet, console_vars
  <2> QED BY <1>1, <2>1 DEF TtyInv
<1>6. CASE \/ \E f \in Termios : tcsets(f)
           \/ \E g \in TtyGroups : \/ set_controlling_terminal(g)
                                   \/ \E h \in TtyGroups : tiocspgrp(g, h)
  <2>1. UNCHANGED <<pty, pty_due, pty_cut, console, typed>>
    BY <1>6 DEF tcsets, set_controlling_terminal, tiocspgrp, pty_vars, console_vars
  <2>2. ForegroundWell(tty')
    BY <1>6, SessionSafe
  <2> QED BY <1>1, <2>1, <2>2 DEF TtyInv
<1>7. ASSUME NEW k \in Keys, console_key(k) PROVE TtyInv'
  <2>1. UNCHANGED <<pty, pty_due, pty_cut, tty>>
    BY <1>7 DEF console_key, pty_vars
  <2>2. ConsoleWell(console', typed')
    BY <1>7, KeySafe
  <2> QED BY <1>1, <2>1, <2>2 DEF TtyInv
<1>8. ASSUME NEW n \in 1 .. ConsoleCapacity, console_read(n) PROVE TtyInv'
  <2>1. UNCHANGED <<pty, pty_due, pty_cut, tty>>
    BY <1>8 DEF console_read, pty_vars
  <2>2. ConsoleWell(console', typed')
    BY <1>8, ConsoleReadSafe
  <2> QED BY <1>1, <2>1, <2>2 DEF TtyInv
<1>9. CASE UNCHANGED tty_vars
  <2>1. UNCHANGED <<pty, pty_due, pty_cut, tty, console, typed>>
    BY <1>9 DEF tty_vars
  <2> QED BY <1>1, <2>1 DEF TtyInv
<1>10. CASE PtyNext
  BY <1>2, <1>3, <1>4, <1>5, <1>6, <1>10 DEF PtyNext
<1>11. CASE SessionNext
  BY <1>6, <1>11 DEF SessionNext
<1>12. CASE ConsoleNext
  BY <1>7, <1>8, <1>12 DEF ConsoleNext
<1> QED BY <1>9, <1>10, <1>11, <1>12

\* Pseudo terminals and the console, for any capacity, buffers, keys, flags, groups and
\* sessions: what waits in a ring is what write accepted and nobody read, unless a newline
\* was cut in two; no reader sleeps on characters, no writer on room; the foreground group
\* is of the terminal's session unless another session set it; the console keeps the
\* latest keys.
THEOREM TerminalsSafe == TtySpec => []TtySafe
<1>1. TtyInit => TtyInv
  <2> SUFFICES ASSUME TtyInit PROVE TtyInv
    OBVIOUS
  <2> DEFINE none == <<>>
             z == [ring |-> none, in |-> "idle", out |-> none, up |-> FALSE]
  <2>1. none \in Seq(TtyChars) /\ Len(none) = 0
    OBVIOUS
  <2>2. /\ pty = [e \in PtyEnds |-> z] /\ pty_due = [e \in PtyEnds |-> none]
        /\ pty_cut = [e \in PtyEnds |-> FALSE]
        /\ tty = [flags |-> {"ICRNL", "ONLCR", "ISIG"}, fg |-> NoGroup, session |-> 0, foreign |-> FALSE]
        /\ console = [buffer |-> none, reader |-> "idle"] /\ typed = none
    BY DEF TtyInit
  <2>3. PtyCapacity \in Nat /\ ConsoleCapacity \in Nat
    BY TtyAssumption
  <2>4. Suffix(none, 0) = none
    <3>1. Suffix(none, 0) \in Seq(TtyChars) /\ Len(Suffix(none, 0)) = 0
      <4> HIDE DEF none
      <4>1. 0 \in 0 .. Len(none)
        BY <2>1
      <4> QED BY <2>1, <4>1, SuffixIs
    <3> DEFINE y == Suffix(none, 0)
    <3> HIDE DEF y
    <3>2. y = none
      BY <3>1 DEF y
    <3> QED BY <3>2 DEF y
  <2>5. z \in EndRecs /\ z.ring = none /\ z.in = "idle" /\ z.out = none
    <3> HIDE DEF none
    <3> QED BY <2>1 DEF EndRecs
  <2> HIDE DEF z
  <2>6. EndWell(z, z)
    BY <2>1, <2>3, <2>5 DEF EndWell
  <2>7. \A e \in PtyEnds : Peer(e) \in PtyEnds
    BY BothEnds
  <2> HIDE DEF none
  <2>8. EndsWell(pty)
    BY <2>2, <2>5, <2>6, <2>7 DEF EndsWell
  <2>9. Due(pty, pty_due, pty_cut)
    BY <2>1, <2>2, <2>5 DEF Due
  <2>10. ForegroundWell(tty)
    BY <2>2 DEF ForegroundWell, Terminals
  <2>11. ConsoleWell(console, typed)
    BY <2>1, <2>2, <2>3, <2>4 DEF ConsoleWell
  <2> QED BY <2>8, <2>9, <2>10, <2>11 DEF TtyInv
<1>2. TtyInv /\ [PtyNext \/ SessionNext \/ ConsoleNext]_tty_vars => TtyInv'
  BY TtyStep
<1>3. TtyInv => TtySafe
  <2> SUFFICES ASSUME TtyInv PROVE TtySafe
    OBVIOUS
  <2>1. PtyStream
    BY DEF TtyInv, Due, PtyStream
  <2>2. TtyStranded
    BY DEF TtyInv, EndsWell, EndWell, ConsoleWell, TtyStranded
  <2>3. TtyForeground
    BY DEF TtyInv, ForegroundWell, TtyForeground
  <2>4. ConsoleLatest
    BY DEF TtyInv, ConsoleWell, ConsoleLatest, Suffix
  <2> QED BY <2>1, <2>2, <2>3, <2>4 DEF TtySafe
<1> QED BY <1>1, <1>2, <1>3, PTL DEF TtySpec
-----------------------------------------------------------------------------
Glyphs == [char : {"a", "blank"}, bold : BOOLEAN]
Drawings == [screen : [TermCells -> Glyphs], bars : SUBSET TermCells, undraw : BOOLEAN,
             wild : {"no", "row", "out"}]
Columns == 0 .. TermWidth - 1
Lines == 0 .. TermHeight - 1
Cursors == [x : Columns, y : Lines]

LEMMA CellIs ==
    ASSUME NEW x \in Columns, NEW y \in Lines
    PROVE  y * TermWidth + x \in TermCells /\ x < TermWidth
<1> DEFINE W == TermWidth
           H == TermHeight
<1>1. W \in Nat /\ H \in Nat /\ W > 0 /\ H > 0
  BY TerminalAssumption
<1>2. x \in Nat /\ y \in Nat /\ x <= W - 1 /\ y <= H - 1
  BY <1>1 DEF Columns, Lines
<1> HIDE DEF W, H
<1>3. y * W \in Nat /\ W * H \in Nat
  BY <1>1, <1>2
<1>4. PICK k \in Nat : H = y + (1 + k)
  <2>1. H - y - 1 \in Nat /\ H = y + (1 + (H - y - 1))
    BY <1>1, <1>2
  <2> QED BY <2>1
<1>5. W * H = y * W + W + W * k
  BY <1>1, <1>2, <1>4
<1>6. W * k \in Nat
  BY <1>1, <1>4
<1>7. y * W + x \in 0 .. W * H - 1
  BY <1>1, <1>2, <1>3, <1>5, <1>6
<1>8. x < W
  BY <1>1, <1>2
<1> QED BY <1>7, <1>8 DEF W, H, TermCells

\* Drawing takes bars away, where a character changes.
LEMMA DrawsIs ==
    ASSUME NEW d \in Drawings, NEW new \in [TermCells -> Glyphs]
    PROVE  /\ Draws(d, new) \in Drawings /\ Draws(d, new).wild = d.wild
           /\ Draws(d, new).bars \subseteq d.bars /\ Draws(d, new).screen = new
           /\ \A i \in TermCells : new[i] # d.screen[i] => i \notin Draws(d, new).bars
           /\ new = d.screen => Draws(d, new).undraw = d.undraw
<1> DEFINE changed == {i \in TermCells : new[i] # d.screen[i]}
           b == d.bars \ changed
           u == d.undraw /\ changed = {}
<1>1. Draws(d, new) = [d EXCEPT !.screen = new, !.bars = b, !.undraw = u]
  BY DEF Draws
<1>2. b \in SUBSET TermCells /\ u \in BOOLEAN
  BY DEF Drawings
<1>3. \A i \in TermCells : new[i] # d.screen[i] => i \notin b
  OBVIOUS
<1>4. new = d.screen => u = d.undraw
  BY DEF Drawings
<1> HIDE DEF b, u
<1>5. /\ Draws(d, new) \in Drawings /\ Draws(d, new).wild = d.wild
      /\ Draws(d, new).bars = b /\ Draws(d, new).screen = new /\ Draws(d, new).undraw = u
  BY <1>1, <1>2 DEF Drawings
<1> QED BY <1>3, <1>4, <1>5 DEF b

\* set_char_at on the screen stays in its row and in the buffer.
SetWell(d, x, y, cell, e) ==
    /\ e \in Drawings
    /\ x \in Columns /\ y \in Lines /\ d.wild = "no" =>
          /\ e.wild = "no" /\ e.bars \subseteq d.bars
          /\ cell # d.screen[y * TermWidth + x] => y * TermWidth + x \notin e.bars
          /\ cell = d.screen[y * TermWidth + x] => e.undraw = d.undraw
LEMMA SetIs ==
    ASSUME NEW d \in Drawings, NEW x, NEW y, NEW cell \in Glyphs
    PROVE  SetWell(d, x, y, cell, set_char_at(d, x, y, cell))
<1> DEFINE i == y * TermWidth + x
           wild == IF i \notin TermCells THEN "out" ELSE IF x >= TermWidth THEN "row" ELSE "no"
           new == [d.screen EXCEPT ![i] = cell]
           e == set_char_at(d, x, y, cell)
<1>1. e = IF d.wild = "out" \/ wild = "out" THEN [d EXCEPT !.wild = "out"]
          ELSE [Draws(d, new) EXCEPT !.wild = IF Draws(d, new).wild = "no" THEN wild ELSE Draws(d, new).wild]
  BY DEF set_char_at
<1>2. d.screen \in [TermCells -> Glyphs] /\ d.wild \in {"no", "row", "out"}
  BY DEF Drawings
<1>3. x \in Columns /\ y \in Lines => wild = "no" /\ i \in TermCells
  <2> SUFFICES ASSUME x \in Columns, y \in Lines PROVE wild = "no" /\ i \in TermCells
    OBVIOUS
  <2>1. i \in TermCells /\ x < TermWidth
    BY CellIs
  <2>2. x \in Int /\ TermWidth \in Int
    BY TerminalAssumption DEF Columns
  <2> HIDE DEF i
  <2> QED BY <2>1, <2>2
<1>4. CASE d.wild = "out" \/ wild = "out"
  <2>1. e = [d EXCEPT !.wild = "out"]
    BY <1>1, <1>4
  <2>2. e \in Drawings
    BY <2>1 DEF Drawings
  <2>3. ~(x \in Columns /\ y \in Lines /\ d.wild = "no")
    <3> HIDE DEF wild, e
    <3> QED BY <1>3, <1>4
  <2> QED BY <2>2, <2>3 DEF SetWell
<1>5. CASE ~(d.wild = "out" \/ wild = "out")
  <2> DEFINE f == Draws(d, new)
             w == IF f.wild = "no" THEN wild ELSE f.wild
  <2>1. wild \in {"no", "row"}
    BY <1>5
  <2>2. new \in [TermCells -> Glyphs]
    BY <1>2
  <2>3. /\ f \in Drawings /\ f.wild = d.wild /\ f.bars \subseteq d.bars
        /\ \A j \in TermCells : new[j] # d.screen[j] => j \notin f.bars
        /\ new = d.screen => f.undraw = d.undraw
    <3> HIDE DEF new
    <3> QED BY <2>2, DrawsIs
  <2>4. i \in TermCells => new[i] = cell /\ (cell = d.screen[i] => new = d.screen)
    <3> HIDE DEF i
    <3> QED BY <1>2
  <2>5. e = [f EXCEPT !.wild = w]
    BY <1>1, <1>5
  <2> HIDE DEF f, new, wild, i, e
  <2>6. w \in {"no", "row", "out"}
    BY <1>2, <2>1, <2>3
  <2> HIDE DEF w
  <2>7. e \in Drawings /\ e.wild = w /\ e.bars = f.bars /\ e.undraw = f.undraw
    BY <2>3, <2>5, <2>6 DEF Drawings
  <2>8. ASSUME x \in Columns, y \in Lines, d.wild = "no"
        PROVE  /\ e.wild = "no" /\ e.bars \subseteq d.bars
               /\ cell # d.screen[i] => i \notin e.bars
               /\ cell = d.screen[i] => e.undraw = d.undraw
    BY <1>3, <2>3, <2>4, <2>7, <2>8 DEF w
  <2> QED BY <2>7, <2>8 DEF SetWell, i, e
<1> QED BY <1>4, <1>5
LEMMA BlankIs == Blank \in Glyphs
  BY DEF Blank, Glyphs

LEMMA MoveIs ==
    ASSUME NEW d \in Drawings, NEW from, NEW to, NEW y
    PROVE  /\ move_char(d, from, to, y) \in Drawings
           /\ from \in Columns /\ to \in Columns /\ y \in Lines /\ d.wild = "no"
                 => move_char(d, from, to, y).wild = "no"
<1> DEFINE i == y * TermWidth + from
           e == set_char_at(d, to, y, d.screen[i])
           f == set_char_at(e, from, y, Blank)
           m == move_char(d, from, to, y)
<1>1. m = IF i \notin TermCells THEN [d EXCEPT !.wild = "out"] ELSE f
  BY DEF move_char
<1>2. CASE i \notin TermCells
  <2>1. m = [d EXCEPT !.wild = "out"]
    BY <1>1, <1>2
  <2>2. m \in Drawings
    BY <2>1 DEF Drawings
  <2>3. ~(from \in Columns /\ y \in Lines)
    BY <1>2, CellIs
  <2> QED BY <2>2, <2>3
<1>3. CASE i \in TermCells
  <2> HIDE DEF i
  <2>1. d.screen[i] \in Glyphs
    BY <1>3 DEF Drawings
  <2>2. SetWell(d, to, y, d.screen[i], e)
    BY <2>1, SetIs
  <2> HIDE DEF e
  <2>3. e \in Drawings /\ (to \in Columns /\ y \in Lines /\ d.wild = "no" => e.wild = "no")
    BY <2>2 DEF SetWell
  <2>4. SetWell(e, from, y, Blank, f)
    BY <2>3, BlankIs, SetIs
  <2> HIDE DEF f
  <2>5. f \in Drawings /\ (from \in Columns /\ y \in Lines /\ e.wild = "no" => f.wild = "no")
    BY <2>4 DEF SetWell
  <2>6. m = f
    BY <1>1, <1>3
  <2> HIDE DEF m
  <2> QED BY <2>3, <2>5, <2>6 DEF m
<1> QED BY <1>2, <1>3

\* Characters that move inside of a row stay in it.
ShiftWell(d, y, n, from, to, e) ==
    /\ e \in Drawings
    /\ y \in Lines /\ d.wild = "no" /\ (\A i \in 1 .. n : from[i] \in Columns /\ to[i] \in Columns)
          => e.wild = "no"
LEMMA ShiftedIs ==
    ASSUME NEW d \in Drawings, NEW y, NEW n \in Nat, NEW from, NEW to
    PROVE  ShiftWell(d, y, n, from, to, Shifted(d, y, n, from, to))
<1> DEFINE next == [i \in 1 .. n |-> [e \in Drawings |-> move_char(e, from[i], to[i], y)]]
           Body(k) == [i \in 0 .. n |-> IF i = 0 THEN d ELSE move_char(k[i - 1], from[i], to[i], y)]
           F == CHOOSE k : k = Body(k)
<1>1. n \in Nat
  OBVIOUS
<1>3. ASSUME NEW i \in 1 .. n, NEW e \in Drawings PROVE move_char(e, from[i], to[i], y) \in Drawings
  BY MoveIs
<1>4. next \in [1 .. n -> [Drawings -> Drawings]]
  BY <1>3
<1>5. \A i \in 1 .. n, e \in Drawings : next[i][e] = move_char(e, from[i], to[i], y)
  OBVIOUS
<1> HIDE DEF next
<1>6. PICK f : f \in [0 .. n -> Drawings] /\ f[0] = d /\ \A i \in 1 .. n : f[i] = next[i][f[i - 1]]
  <2>1. LoopSteps(next, n, Drawings)
    BY <1>1, <1>4 DEF LoopSteps
  <2>2. \E f : LoopRun(f, next, n, Drawings, d)
    BY <2>1, LoopRuns
  <2> QED BY <2>2 DEF LoopRun
<1>7. \A i \in 1 .. n : f[i] = move_char(f[i - 1], from[i], to[i], y)
  <2> SUFFICES ASSUME NEW i \in 1 .. n PROVE f[i] = move_char(f[i - 1], from[i], to[i], y)
    OBVIOUS
  <2>1. i - 1 \in 0 .. n
    BY <1>1
  <2> QED BY <1>5, <1>6, <2>1
<1>8. f = Body(f)
  <2>1. \A i \in 0 .. n : f[i] = Body(f)[i]
    <3> SUFFICES ASSUME NEW i \in 0 .. n PROVE f[i] = Body(f)[i]
      OBVIOUS
    <3>1. CASE i = 0
      BY <1>6, <3>1
    <3>2. CASE i # 0
      <4>1. i \in 1 .. n
        BY <1>1, <3>2
      <4> QED BY <1>7, <3>2, <4>1
    <3> QED BY <3>1, <3>2
  <2>2. f = [i \in 0 .. n |-> f[i]] /\ Body(f) = [i \in 0 .. n |-> Body(f)[i]]
    BY <1>6
  <2> HIDE DEF Body
  <2> QED BY <2>1, <2>2
<1>9. F = Body(F)
  <2> HIDE DEF Body
  <2> QED BY <1>8
<1>10. Shifted(d, y, n, from, to) = F[n]
  BY DEF Shifted
<1> HIDE DEF F
<1>11. F = f
  <2> DEFINE E == {m \in 0 .. n : F[m] = f[m]}
  <2>1. 0 \in E
    BY <1>1, <1>6, <1>9
  <2>2. ASSUME NEW m \in 0 .. n - 1, m \in E PROVE m + 1 \in E
    <3>1. m + 1 \in 1 .. n /\ (m + 1) - 1 = m /\ m + 1 \in 0 .. n /\ m + 1 # 0
      BY <1>1
    <3>2. F[m + 1] = move_char(F[m], from[m + 1], to[m + 1], y)
      <4>1. F[m + 1] = Body(F)[m + 1]
        <5> HIDE DEF Body
        <5> QED BY <1>9
      <4> QED BY <3>1, <4>1
    <3>3. f[m + 1] = move_char(f[m], from[m + 1], to[m + 1], y)
      BY <1>7, <3>1
    <3> QED BY <2>2, <3>1, <3>2, <3>3
  <2>3. 0 .. n \subseteq E
    <3> HIDE DEF E
    <3> QED BY <1>1, <2>1, <2>2, UpTo
  <2>4. \A m \in 0 .. n : F[m] = f[m]
    BY <2>3
  <2> QED BY <1>6, <1>9, <2>4
<1>12. ASSUME y \in Lines, d.wild = "no", \A i \in 1 .. n : from[i] \in Columns /\ to[i] \in Columns
       PROVE  f[n].wild = "no"
  <2> DEFINE E == {m \in 0 .. n : f[m].wild = "no"}
  <2>1. 0 \in E
    BY <1>1, <1>6, <1>12
  <2>2. ASSUME NEW m \in 0 .. n - 1, m \in E PROVE m + 1 \in E
    <3>1. m + 1 \in 1 .. n /\ (m + 1) - 1 = m /\ m + 1 \in 0 .. n /\ m \in 0 .. n
      BY <1>1
    <3>2. f[m + 1] = move_char(f[m], from[m + 1], to[m + 1], y)
      BY <1>7, <3>1
    <3>3. f[m] \in Drawings /\ f[m].wild = "no"
      BY <1>6, <2>2, <3>1
    <3>4. move_char(f[m], from[m + 1], to[m + 1], y).wild = "no"
      BY <1>12, <3>1, <3>3, MoveIs
    <3> QED BY <3>1, <3>2, <3>4
  <2>3. 0 .. n \subseteq E
    <3> HIDE DEF E
    <3> QED BY <1>1, <2>1, <2>2, UpTo
  <2> QED BY <1>1, <2>3
<1>13. f[n] \in Drawings
  BY <1>1, <1>6
<1> QED BY <1>10, <1>11, <1>12, <1>13 DEF ShiftWell

LEMMA BoldIs == \A b \in BOOLEAN : \A n : BoldAfter(b, n) \in BOOLEAN
  BY DEF BoldAfter

LEMMA EmboldedIs ==
    ASSUME is_bold \in BOOLEAN, csi.index \in Nat
    PROVE  Embolded \in BOOLEAN
<1> DEFINE n == csi.index + 1
           b == is_bold
           next == [i \in 1 .. n |-> [e \in BOOLEAN |-> BoldAfter(e, csi.args[i - 1])]]
           Body(k) == [i \in 0 .. n |-> IF i = 0 THEN b ELSE BoldAfter(k[i - 1], csi.args[i - 1])]
           F == CHOOSE k : k = Body(k)
<1>1. n \in Nat /\ b \in BOOLEAN
  OBVIOUS
<1>10. Embolded = F[n]
  BY DEF Embolded
<1>4. next \in [1 .. n -> [BOOLEAN -> BOOLEAN]]
  BY BoldIs
<1>5. \A i \in 1 .. n, e \in BOOLEAN : next[i][e] = BoldAfter(e, csi.args[i - 1])
  OBVIOUS
<1> HIDE DEF next, n, b
<1>6. PICK f : f \in [0 .. n -> BOOLEAN] /\ f[0] = b /\ \A i \in 1 .. n : f[i] = next[i][f[i - 1]]
  <2>1. LoopSteps(next, n, BOOLEAN)
    BY <1>1, <1>4 DEF LoopSteps
  <2>2. \E f : LoopRun(f, next, n, BOOLEAN, b)
    BY <1>1, <2>1, LoopRuns
  <2> QED BY <2>2 DEF LoopRun
<1>7. \A i \in 1 .. n : f[i] = BoldAfter(f[i - 1], csi.args[i - 1])
  <2> SUFFICES ASSUME NEW i \in 1 .. n PROVE f[i] = BoldAfter(f[i - 1], csi.args[i - 1])
    OBVIOUS
  <2>1. i - 1 \in 0 .. n
    BY <1>1
  <2> QED BY <1>5, <1>6, <2>1
<1>8. f = Body(f)
  <2>1. \A i \in 0 .. n : f[i] = Body(f)[i]
    <3> SUFFICES ASSUME NEW i \in 0 .. n PROVE f[i] = Body(f)[i]
      OBVIOUS
    <3>1. CASE i = 0
      BY <1>6, <3>1
    <3>2. CASE i # 0
      <4>1. i \in 1 .. n
        BY <1>1, <3>2
      <4> QED BY <1>7, <3>2, <4>1
    <3> QED BY <3>1, <3>2
  <2>2. f = [i \in 0 .. n |-> f[i]] /\ Body(f) = [i \in 0 .. n |-> Body(f)[i]]
    BY <1>6
  <2> HIDE DEF Body
  <2> QED BY <2>1, <2>2
<1>9. F = Body(F)
  <2> HIDE DEF Body
  <2> QED BY <1>8
<1> HIDE DEF F
<1>11. F[n] = f[n]
  <2> DEFINE E == {m \in 0 .. n : F[m] = f[m]}
  <2>1. 0 \in E
    BY <1>1, <1>6, <1>9
  <2>2. ASSUME NEW m \in 0 .. n - 1, m \in E PROVE m + 1 \in E
    <3>1. m + 1 \in 1 .. n /\ (m + 1) - 1 = m /\ m + 1 \in 0 .. n /\ m + 1 # 0
      BY <1>1
    <3>2. F[m + 1] = BoldAfter(F[m], csi.args[m])
      <4>1. F[m + 1] = Body(F)[m + 1]
        <5> HIDE DEF Body
        <5> QED BY <1>9
      <4> QED BY <3>1, <4>1
    <3>3. f[m + 1] = BoldAfter(f[m], csi.args[m])
      BY <1>7, <3>1
    <3> QED BY <2>2, <3>1, <3>2, <3>3
  <2>3. 0 .. n \subseteq E
    <3> HIDE DEF E
    <3> QED BY <1>1, <2>1, <2>2, UpTo
  <2> QED BY <1>1, <2>3
<1> QED BY <1>1, <1>6, <1>10, <1>11

\* Numbers of a control sequence, and where the cursor goes.
LEMMA ClampIs == \A n \in Int, high \in Nat : Clamp(n, high) \in 0 .. high
  BY DEF Clamp
LEMMA WrappedIs ==
    ASSUME NEW n \in Int
    PROVE  Wrapped(n) \in Int
<1> DEFINE m == 2 * (IntMax + 1)
           k == n + IntMax + 1
<1>1. m \in Nat /\ m > 0 /\ k \in Int /\ IntMax \in Nat
  BY TerminalAssumption
<1>2. Wrapped(n) = (k % m) - (IntMax + 1)
  BY DEF Wrapped
<1> HIDE DEF m, k
<1>3. k % m \in Int
  BY <1>1
<1> QED BY <1>1, <1>2, <1>3

CsiRecs == [progress : 0 .. 2, args : [0 .. MaxCsiArgs - 1 -> Int], index : 0 .. MaxCsiArgs - 1,
            count : Nat, question : BOOLEAN, digits : Nat]
Positive(c) == \A i \in 0 .. MaxCsiArgs - 1 : c.args[i] >= 0
LEMMA NoSequenceIs == NoSequence \in CsiRecs /\ Positive(NoSequence)
<1>1. MaxCsiArgs \in Nat /\ MaxCsiArgs > 0
  BY TerminalAssumption
<1> DEFINE a == [i \in 0 .. MaxCsiArgs - 1 |-> 0]
<1>2. a \in [0 .. MaxCsiArgs - 1 -> Int] /\ \A i \in 0 .. MaxCsiArgs - 1 : a[i] = 0
  OBVIOUS
<1>3. NoSequence = [progress |-> 0, args |-> a, index |-> 0, count |-> 0, question |-> FALSE, digits |-> 0]
  BY DEF NoSequence
<1> HIDE DEF a
<1>4. 0 \in 0 .. MaxCsiArgs - 1
  BY <1>1
<1> QED BY <1>2, <1>3, <1>4 DEF CsiRecs, Positive

LEMMA NewCursorIs ==
    ASSUME term_cursor \in Cursors, csi \in CsiRecs, NEW code \in CursorCodes
    PROVE  NewCursor(code) \in Cursors
<1> DEFINE n == csi.args[0]
           m == csi.args[1]
           step == AtLeastOne(n)
           x == term_cursor.x
           y == term_cursor.y
           right == TermWidth - 1
           bottom == TermHeight - 1
<1>1. right \in Nat /\ bottom \in Nat /\ MaxCsiArgs \in Nat /\ MaxCsiArgs > 1
  BY TerminalAssumption
<1>2. x \in 0 .. right /\ y \in 0 .. bottom
  BY DEF Cursors, Columns, Lines
<1>3. n \in Int /\ m \in Int
  BY <1>1 DEF CsiRecs
<1>4. step \in Int
  BY <1>3 DEF AtLeastOne
<1>5. Wrapped(y + step) \in Int /\ Wrapped(x + step) \in Int
  BY <1>2, <1>4, WrappedIs
<1>6. \A k \in Int : Clamp(k, right) \in 0 .. right /\ Clamp(k, bottom) \in 0 .. bottom
  BY <1>1, ClampIs
<1>7. /\ 0 \in 0 .. right /\ 0 \in 0 .. bottom
      /\ Clamp(n - 1, right) \in 0 .. right /\ Clamp(n - 1, bottom) \in 0 .. bottom
      /\ Clamp(m - 1, bottom) \in 0 .. bottom
      /\ Clamp(y - step, bottom) \in 0 .. bottom /\ Clamp(x - step, right) \in 0 .. right
      /\ Clamp(Wrapped(y + step), bottom) \in 0 .. bottom
      /\ Clamp(Wrapped(x + step), right) \in 0 .. right
  <2>1. n - 1 \in Int /\ m - 1 \in Int /\ y - step \in Int /\ x - step \in Int
    BY <1>2, <1>3, <1>4
  <2> HIDE DEF right, bottom, n, m, step, x, y
  <2> QED BY <1>1, <1>5, <1>6, <2>1
<1>8. PICK u \in 0 .. right, v \in 0 .. bottom : NewCursor(code) = [x |-> u, y |-> v]
  <2> HIDE DEF right, bottom, n, m, step, x, y
  <2>1. CASE code \in {"A", "B", "C", "D"}
    BY <1>2, <1>7, <2>1 DEF NewCursor, right, bottom, n, m, step, x, y
  <2>2. CASE code \in {"E", "F", "G"}
    BY <1>2, <1>7, <2>2 DEF NewCursor, right, bottom, n, m, step, x, y
  <2>3. CASE code \in {"H", "d", "r"}
    BY <1>2, <1>7, <2>3 DEF NewCursor, right, bottom, n, m, step, x, y
  <2> QED BY <2>1, <2>2, <2>3 DEF CursorCodes
<1> QED BY <1>8 DEF Cursors, Columns, Lines

\* The bar is at the cursor, and it goes with the next character: it is to be undrawn, or
\* the screen is still as it was at first.
BarWell ==
    /\ ~term_history.odd /\ ~insert_mode /\ term_bars = {Index(term_cursor)}
    /\ ~undraw => term_cursor = [x |-> 0, y |-> 0] /\ screen[0] = Blank
\* The inductive invariant of the terminal.
TermInv ==
    /\ Drawing \in Drawings /\ is_bold \in BOOLEAN /\ insert_mode \in BOOLEAN
    /\ term_cursor \in Cursors /\ old_cursor = term_cursor
    /\ csi \in CsiRecs
    /\ term_history \in [plain : BOOLEAN, odd : BOOLEAN]
    /\ ~term_history.odd => Positive(csi)
    /\ term_wild # "no" => term_history.odd \/ insert_mode
    /\ term_history.plain => BarWell

LEMMA DrawingIs ==
    ASSUME TermInv
    PROVE  /\ Drawing.screen = screen /\ Drawing.bars = term_bars
           /\ Drawing.undraw = undraw /\ Drawing.wild = term_wild
           /\ screen \in [TermCells -> Glyphs] /\ undraw \in BOOLEAN
           /\ term_bars \in SUBSET TermCells /\ term_wild \in {"no", "row", "out"}
  BY DEF TermInv, Drawing, Drawings

\* The new drawing, with what Takes keeps of the bars.
LEMMA TakesIs ==
    ASSUME NEW d \in Drawings, Takes(d)
    PROVE  /\ Drawing' \in Drawings /\ undraw' = d.undraw /\ term_wild' = d.wild
           /\ screen' = d.screen /\ (term_history'.plain => term_bars' = d.bars)
<1>1. screen' = d.screen /\ undraw' = d.undraw /\ term_wild' = d.wild
      /\ term_bars' = IF term_history'.plain THEN d.bars ELSE {}
  BY DEF Takes
<1>2. Drawing' = [screen |-> screen', bars |-> term_bars', undraw |-> undraw', wild |-> term_wild']
  BY DEF Drawing
<1>3. /\ screen' \in [TermCells -> Glyphs] /\ undraw' \in BOOLEAN
      /\ term_bars' \in SUBSET TermCells /\ term_wild' \in {"no", "row", "out"}
  BY <1>1 DEF Drawings
<1>4. Drawing' \in Drawings
  BY <1>2, <1>3 DEF Drawings
<1> QED BY <1>1, <1>4

LEMMA UndrawIs ==
    ASSUME NEW d \in Drawings, NEW u \in BOOLEAN
    PROVE  /\ [d EXCEPT !.undraw = u] \in Drawings
           /\ [d EXCEPT !.undraw = u].bars = d.bars /\ [d EXCEPT !.undraw = u].wild = d.wild
           /\ [d EXCEPT !.undraw = u].screen = d.screen /\ [d EXCEPT !.undraw = u].undraw = u
  BY DEF Drawings

RedrawWell(d, at, e) ==
    /\ e \in Drawings /\ e.wild = d.wild /\ e.screen = d.screen /\ e.undraw = d.undraw
    /\ e.bars = (IF d.undraw THEN d.bars \ {Index(old_cursor)} ELSE d.bars) \cup {Index(at)}
LEMMA RedrawIs ==
    ASSUME NEW d \in Drawings, NEW at \in Cursors
    PROVE  RedrawWell(d, at, redraw_cursor(d, at))
<1> DEFINE b == (IF d.undraw THEN d.bars \ {Index(old_cursor)} ELSE d.bars) \cup {Index(at)}
<1>1. Index(at) \in TermCells
  <2>1. at.x \in Columns /\ at.y \in Lines
    BY DEF Cursors
  <2> QED BY <2>1, CellIs DEF Index
<1>2. b \in SUBSET TermCells
  BY <1>1 DEF Drawings
<1>3. redraw_cursor(d, at) = [d EXCEPT !.bars = b]
  BY DEF redraw_cursor
<1> HIDE DEF b
<1>4. /\ [d EXCEPT !.bars = b] \in Drawings /\ [d EXCEPT !.bars = b].wild = d.wild
      /\ [d EXCEPT !.bars = b].screen = d.screen /\ [d EXCEPT !.bars = b].undraw = d.undraw
      /\ [d EXCEPT !.bars = b].bars = b
  BY <1>2 DEF Drawings
<1> QED BY <1>3, <1>4 DEF RedrawWell, b

LEMMA ScrollIs ==
    ASSUME NEW d \in Drawings
    PROVE  /\ scroll(d) \in Drawings /\ scroll(d).wild = d.wild
           /\ scroll(d).bars \subseteq d.bars /\ scroll(d).undraw = TRUE
<1> DEFINE new == [i \in TermCells |-> IF i + TermWidth \in TermCells THEN d.screen[i + TermWidth] ELSE Blank]
           e == Draws(d, new)
<1>1. new \in [TermCells -> Glyphs]
  BY BlankIs DEF Drawings
<1>2. scroll(d) = [e EXCEPT !.undraw = TRUE]
  BY DEF scroll
<1> HIDE DEF new
<1>3. e \in Drawings /\ e.wild = d.wild /\ e.bars \subseteq d.bars
  BY <1>1, DrawsIs
<1> HIDE DEF e
<1> QED BY <1>2, <1>3, UndrawIs

LEMMA BlankedIs ==
    ASSUME NEW d \in Drawings, NEW cells
    PROVE  Blanked(d, cells) \in Drawings /\ Blanked(d, cells).wild = d.wild
<1> DEFINE new == [i \in TermCells |-> IF i \in cells THEN Blank ELSE d.screen[i]]
<1>1. new \in [TermCells -> Glyphs]
  BY BlankIs DEF Drawings
<1>2. Blanked(d, cells) = Draws(d, new)
  BY DEF Blanked
<1> HIDE DEF new
<1> QED BY <1>1, <1>2, DrawsIs

LEMMA MovesIs ==
    ASSUME NEW d \in Drawings, NEW at \in Cursors, Moves(d, at)
    PROVE  /\ Drawing' \in Drawings /\ term_cursor' \in Cursors /\ term_cursor' = at
           /\ old_cursor' = term_cursor'
           /\ term_wild' = d.wild /\ undraw' = d.undraw
           /\ term_history'.plain /\ d.undraw /\ d.bars \subseteq {Index(old_cursor)}
                 => term_bars' = {Index(at)}
<1> DEFINE e == redraw_cursor(d, at)
<1>1. Takes(e) /\ term_cursor' = at /\ old_cursor' = at
  BY DEF Moves
<1>2. RedrawWell(d, at, e)
  BY RedrawIs
<1> HIDE DEF e
<1>3. e \in Drawings /\ e.wild = d.wild /\ e.undraw = d.undraw
      /\ (d.undraw /\ d.bars \subseteq {Index(old_cursor)} => e.bars = {Index(at)})
  BY <1>2 DEF RedrawWell
<1>4. /\ Drawing' \in Drawings /\ undraw' = e.undraw /\ term_wild' = e.wild
      /\ (term_history'.plain => term_bars' = e.bars)
  BY <1>1, <1>3, TakesIs
<1> QED BY <1>1, <1>3, <1>4

\* What the end of write_char does.  The old bar goes if it is to be undrawn, is already
\* gone, or is where the new one will be.
BarGoes(d, x, y) ==
    /\ d.bars \subseteq {Index(old_cursor)}
    /\ d.undraw \/ d.bars = {} \/ [x |-> x, y |-> y] = old_cursor
LEMMA FinishesIs ==
    ASSUME NEW d \in Drawings, NEW x \in Nat, NEW y \in Nat,
           y <= TermHeight, x >= TermWidth => y < TermHeight, Finishes(d, x, y)
    PROVE  /\ Drawing' \in Drawings /\ term_cursor' \in Cursors /\ old_cursor' = term_cursor'
           /\ term_wild' = d.wild /\ undraw' = TRUE /\ is_bold' = is_bold /\ insert_mode' = insert_mode
           /\ term_history'.plain /\ BarGoes(d, x, y) /\ old_cursor \in Cursors
                 => term_bars' = {Index(term_cursor')}
<1> DEFINE row == IF LeavesRow(x) THEN y + 1 ELSE y
           over == row >= TermHeight
           at == [x |-> IF LeavesRow(x) THEN 0 ELSE x, y |-> IF over THEN row - 1 ELSE row]
           e == IF over THEN scroll(d) ELSE d
           f == redraw_cursor(e, at)
           g == [f EXCEPT !.undraw = TRUE]
<1>1. Takes(g) /\ term_cursor' = at /\ old_cursor' = at /\ is_bold' = is_bold /\ insert_mode' = insert_mode
  BY DEF Finishes
<1>2. TermWidth \in Nat /\ TermHeight \in Nat /\ TermWidth > 0 /\ TermHeight > 0
  BY TerminalAssumption
<1>3. row \in 0 .. TermHeight
  BY <1>2 DEF LeavesRow
<1>4. at \in Cursors
  <2>1. (IF LeavesRow(x) THEN 0 ELSE x) \in Columns
    BY <1>2 DEF LeavesRow, Columns
  <2>2. (IF over THEN row - 1 ELSE row) \in Lines
    <3> HIDE DEF row
    <3> QED BY <1>2, <1>3 DEF Lines
  <2> QED BY <2>1, <2>2 DEF Cursors
<1>5. [x |-> x, y |-> y] = old_cursor /\ old_cursor \in Cursors => at = old_cursor
  <2> SUFFICES ASSUME [x |-> x, y |-> y] = old_cursor, old_cursor \in Cursors PROVE at = old_cursor
    OBVIOUS
  <2>1. x = old_cursor.x /\ y = old_cursor.y
    OBVIOUS
  <2>2. x \in Columns /\ y \in Lines
    BY <2>1 DEF Cursors
  <2>3. ~LeavesRow(x)
    BY <1>2, <2>2 DEF LeavesRow, Columns
  <2>4. row = y
    BY <2>3
  <2>5. ~over
    <3> HIDE DEF row
    <3> QED BY <1>2, <2>2, <2>4 DEF Lines
  <2> HIDE DEF row, over
  <2> QED BY <2>3, <2>4, <2>5
<1> HIDE DEF at
<1>6. e \in Drawings /\ e.wild = d.wild /\ e.bars \subseteq d.bars /\ (e.undraw # d.undraw => e.undraw = TRUE)
  <2> HIDE DEF over
  <2>1. CASE over
    BY <2>1, ScrollIs
  <2>2. CASE ~over
    BY <2>2
  <2> QED BY <2>1, <2>2
<1> HIDE DEF e
<1>7. RedrawWell(e, at, f)
  BY <1>4, <1>6, RedrawIs
<1> HIDE DEF f
<1>8. f \in Drawings /\ f.wild = d.wild
  BY <1>6, <1>7 DEF RedrawWell
<1>9. BarGoes(d, x, y) /\ old_cursor \in Cursors => f.bars = {Index(at)}
  <2> SUFFICES ASSUME BarGoes(d, x, y), old_cursor \in Cursors PROVE f.bars = {Index(at)}
    OBVIOUS
  <2>1. f.bars = (IF e.undraw THEN e.bars \ {Index(old_cursor)} ELSE e.bars) \cup {Index(at)}
    BY <1>7 DEF RedrawWell
  <2>2. d.bars \subseteq {Index(old_cursor)} /\ (d.undraw \/ d.bars = {} \/ at = old_cursor)
    BY <1>5 DEF BarGoes
  <2>3. CASE e.undraw
    BY <1>6, <2>1, <2>2, <2>3
  <2>4. CASE ~e.undraw
    <3>1. e.undraw = d.undraw
      BY <1>6, <2>4
    <3>2. CASE d.bars = {}
      BY <1>6, <2>1, <2>4, <3>2
    <3>3. CASE at = old_cursor
      BY <1>6, <2>1, <2>2, <2>4, <3>3
    <3> QED BY <2>2, <2>4, <3>1, <3>2, <3>3
  <2> QED BY <2>3, <2>4
<1>10. g \in Drawings /\ g.wild = d.wild /\ g.bars = f.bars /\ g.undraw = TRUE
  BY <1>8, UndrawIs
<1> HIDE DEF g
<1>11. /\ Drawing' \in Drawings /\ undraw' = g.undraw /\ term_wild' = g.wild
       /\ (term_history'.plain => term_bars' = g.bars)
  BY <1>1, <1>10, TakesIs
<1> QED BY <1>1, <1>4, <1>9, <1>10, <1>11

\* A character that ends in Finishes keeps the invariant.
LEMMA FinishSafe ==
    ASSUME TermInv, NEW d \in Drawings, NEW x \in Nat, NEW y \in Nat,
           y <= TermHeight, x >= TermWidth => y < TermHeight, Finishes(d, x, y),
           term_history' \in [plain : BOOLEAN, odd : BOOLEAN], term_history'.odd = term_history.odd,
           term_history'.plain => term_history.plain /\ BarGoes(d, x, y),
           d.wild # "no" => term_history.odd \/ insert_mode,
           csi' \in CsiRecs, csi'.args = csi.args
    PROVE  TermInv'
<1>1. /\ Drawing' \in Drawings /\ term_cursor' \in Cursors /\ old_cursor' = term_cursor'
      /\ term_wild' = d.wild /\ undraw' = TRUE /\ is_bold' = is_bold /\ insert_mode' = insert_mode
      /\ term_history'.plain /\ BarGoes(d, x, y) /\ old_cursor \in Cursors
            => term_bars' = {Index(term_cursor')}
  BY FinishesIs
<1>2. /\ is_bold \in BOOLEAN /\ insert_mode \in BOOLEAN /\ old_cursor \in Cursors
      /\ ~term_history.odd => Positive(csi)
      /\ term_history.plain => ~term_history.odd /\ ~insert_mode
  BY DEF TermInv, BarWell
<1>3. ~term_history'.odd => Positive(csi')
  BY <1>2 DEF Positive
<1>4. term_history'.plain => BarWell'
  BY <1>1, <1>2 DEF BarWell, Index
<1>5. term_wild' # "no" => term_history'.odd \/ insert_mode'
  BY <1>1
<1>6. (Positive(csi))' <=> Positive(csi')
  BY DEF Positive
<1> QED BY <1>1, <1>2, <1>3, <1>4, <1>5, <1>6 DEF TermInv

LEMMA InsertedIs ==
    ASSUME TermInv
    PROVE  /\ Inserted(Drawing) \in Drawings
           /\ ~insert_mode => Inserted(Drawing) = Drawing
<1> DEFINE n == TermWidth - term_cursor.x
           from == [i \in 1 .. n |-> TermWidth - i]
           to == [i \in 1 .. n |-> (TermWidth - i) + 1]
           e == Shifted(Drawing, term_cursor.y, n, from, to)
<1>1. n \in Nat
  BY TerminalAssumption DEF TermInv, Cursors, Columns
<1>2. Inserted(Drawing) = IF ~insert_mode THEN Drawing ELSE e
  BY DEF Inserted
<1>3. Drawing \in Drawings
  BY DEF TermInv
<1> HIDE DEF n, from, to
<1>4. ShiftWell(Drawing, term_cursor.y, n, from, to, e)
  BY <1>1, <1>3, ShiftedIs
<1> QED BY <1>2, <1>3, <1>4 DEF ShiftWell

LEMMA GlyphSafe ==
    ASSUME TermInv, NEW c \in {"a", "blank"}, write_glyph(c), UNCHANGED csi,
           term_history' = [term_history EXCEPT !.plain = @ /\ (undraw \/ c # "blank")]
    PROVE  TermInv'
<1> DEFINE x == term_cursor.x
           y == term_cursor.y
           i == y * TermWidth + x
           cell == [char |-> c, bold |-> is_bold]
           e == Inserted(Drawing)
           d == set_char_at(e, x, y, cell)
<1>1. Finishes(d, x + 1, y)
  BY DEF write_glyph
<1>2. /\ x \in Columns /\ y \in Lines /\ cell \in Glyphs /\ term_cursor = [x |-> x, y |-> y]
      /\ old_cursor = term_cursor
  BY DEF TermInv, Cursors, Glyphs
<1>3. x \in Nat /\ y \in Nat /\ x + 1 \in Nat /\ x < TermWidth /\ y < TermHeight /\ y <= TermHeight
  <2> HIDE DEF x, y
  <2>1. TermWidth \in Nat /\ TermHeight \in Nat
    BY TerminalAssumption
  <2>2. x \in 0 .. TermWidth - 1 /\ y \in 0 .. TermHeight - 1
    BY <1>2 DEF Columns, Lines
  <2> QED BY <2>1, <2>2
<1>4. e \in Drawings /\ (~insert_mode => e = Drawing)
  BY InsertedIs
<1> HIDE DEF e, cell
<1>5. SetWell(e, x, y, cell, d)
  BY <1>2, <1>4, SetIs
<1> HIDE DEF d
<1>6. /\ Drawing.screen = screen /\ Drawing.bars = term_bars
      /\ Drawing.undraw = undraw /\ Drawing.wild = term_wild
  BY DrawingIs
<1>7. ASSUME ~term_history.odd, ~insert_mode
      PROVE  /\ d.wild = "no" /\ d.bars \subseteq term_bars
             /\ cell # screen[i] => i \notin d.bars
             /\ cell = screen[i] => d.undraw = undraw
  <2>1. term_wild = "no"
    BY <1>7 DEF TermInv
  <2> QED BY <1>2, <1>4, <1>5, <1>6, <1>7, <2>1 DEF SetWell
<1>8. d \in Drawings /\ (d.wild # "no" => term_history.odd \/ insert_mode)
  BY <1>5, <1>7 DEF SetWell
<1>9. ASSUME term_history'.plain PROVE term_history.plain /\ BarGoes(d, x + 1, y)
  <2>1. term_history.plain /\ (undraw \/ c # "blank")
    BY <1>9 DEF TermInv
  <2>2. /\ ~term_history.odd /\ ~insert_mode /\ term_bars = {i}
        /\ ~undraw => term_cursor = [x |-> 0, y |-> 0] /\ screen[0] = Blank
    BY <2>1 DEF TermInv, BarWell, Index
  <2>3. d.bars \subseteq {Index(old_cursor)}
    BY <1>2, <1>7, <2>2 DEF Index
  <2>4. d.undraw \/ d.bars = {}
    <3>1. CASE cell # screen[i]
      BY <1>7, <2>2, <3>1
    <3>2. CASE cell = screen[i] /\ undraw
      BY <1>7, <2>2, <3>2
    <3>3. CASE cell = screen[i] /\ ~undraw
      <4>1. x = 0 /\ y = 0 /\ screen[0] = Blank /\ c # "blank"
        <5>1. term_cursor = [x |-> 0, y |-> 0] /\ screen[0] = Blank /\ c # "blank"
          BY <2>1, <2>2, <3>3
        <5>2. term_cursor.x = 0 /\ term_cursor.y = 0
          BY <5>1
        <5> QED BY <5>1, <5>2
      <4>2. i = 0
        <5>1. TermWidth \in Nat
          BY TerminalAssumption
        <5> HIDE DEF x, y
        <5> QED BY <4>1, <5>1
      <4>3. cell.char = c /\ Blank.char = "blank"
        BY DEF cell, Blank
      <4> HIDE DEF i
      <4> QED BY <3>3, <4>1, <4>2, <4>3
    <3> QED BY <3>1, <3>2, <3>3
  <2> QED BY <2>1, <2>3, <2>4 DEF BarGoes
<1>10. term_history' \in [plain : BOOLEAN, odd : BOOLEAN] /\ term_history'.odd = term_history.odd
  <2> DEFINE p == term_history.plain /\ (undraw \/ c # "blank")
  <2>1. term_history' = [term_history EXCEPT !.plain = p] /\ p \in BOOLEAN
    OBVIOUS
  <2> HIDE DEF p
  <2> QED BY <2>1 DEF TermInv
<1>11. csi' \in CsiRecs /\ csi'.args = csi.args
  BY DEF TermInv
<1>12. x + 1 >= TermWidth => y < TermHeight
  BY <1>3
<1> HIDE DEF x, y
<1> QED BY <1>1, <1>3, <1>8, <1>9, <1>10, <1>11, <1>12, FinishSafe

\* A tab ends at a later column.
LEMMA TabIs ==
    ASSUME NEW x \in Nat
    PROVE  ((x + TabStop) \div TabStop) * TabStop \in Nat
<1>1. TabStop \in Nat /\ TabStop > 0
  BY TerminalAssumption
<1>2. (x + TabStop) \div TabStop \in Nat
  BY <1>1
<1> DEFINE q == (x + TabStop) \div TabStop
<1> HIDE DEF q
<1>3. q \in Nat
  BY <1>2 DEF q
<1>4. q * TabStop \in Nat
  BY <1>1, <1>3
<1> QED BY <1>4 DEF q

CursorWell(x, y) ==
    /\ x \in Nat /\ y \in Nat /\ x < TermWidth /\ y < TermHeight /\ y <= TermHeight
    /\ y + 1 \in Nat /\ y + 1 <= TermHeight /\ 0 < TermWidth /\ TermWidth \in Nat
LEMMA CursorIs ==
    ASSUME TermInv
    PROVE  /\ CursorWell(term_cursor.x, term_cursor.y)
           /\ old_cursor = [x |-> term_cursor.x, y |-> term_cursor.y]
<1>1. TermWidth \in Nat /\ TermHeight \in Nat /\ TermWidth > 0
  BY TerminalAssumption
<1>2. /\ term_cursor.x \in 0 .. TermWidth - 1 /\ term_cursor.y \in 0 .. TermHeight - 1
      /\ old_cursor = [x |-> term_cursor.x, y |-> term_cursor.y]
  BY DEF TermInv, Cursors, Columns, Lines
<1> QED BY <1>1, <1>2 DEF CursorWell

\* Tabs, returns, newlines and what is not drawn: the drawing d is the old one but for
\* undraw, and a newline sets that.
LEMMA PlainSafe ==
    ASSUME TermInv, NEW d \in Drawings, NEW x \in Nat, NEW y \in Nat, Finishes(d, x, y),
           y <= TermHeight, x >= TermWidth => y < TermHeight,
           d.bars = term_bars, d.wild = term_wild, d.undraw \in {undraw, TRUE},
           term_history' \in [plain : BOOLEAN, odd : BOOLEAN], term_history'.odd = term_history.odd,
           term_history'.plain => term_history.plain,
           term_history'.plain /\ ~d.undraw => [x |-> x, y |-> y] = old_cursor,
           csi' \in CsiRecs, csi'.args = csi.args
    PROVE  TermInv'
<1>1. d.wild # "no" => term_history.odd \/ insert_mode
  BY DEF TermInv
<1>2. term_history'.plain => term_history.plain /\ BarGoes(d, x, y)
  BY DEF TermInv, BarWell, BarGoes
<1> QED BY <1>1, <1>2, FinishSafe

LEMMA CharSafe ==
    ASSUME TermInv, write_char
    PROVE  TermInv'
<1> DEFINE x == term_cursor.x
           y == term_cursor.y
<1>1. CursorWell(x, y) /\ old_cursor = [x |-> x, y |-> y]
  BY CursorIs
<1>2. /\ Drawing \in Drawings /\ Drawing.bars = term_bars /\ Drawing.undraw = undraw
      /\ Drawing.wild = term_wild /\ undraw \in BOOLEAN
  BY DrawingIs DEF TermInv
<1>3. /\ term_history \in [plain : BOOLEAN, odd : BOOLEAN] /\ csi \in CsiRecs
      /\ term_history.plain /\ ~undraw => term_cursor = [x |-> 0, y |-> 0]
  BY DEF TermInv, BarWell
<1>4. ASSUME NEW p \in BOOLEAN, term_history' = [term_history EXCEPT !.plain = term_history.plain /\ p]
      PROVE  /\ term_history' \in [plain : BOOLEAN, odd : BOOLEAN]
             /\ term_history'.odd = term_history.odd
             /\ term_history'.plain => term_history.plain /\ p
  <2> DEFINE q == term_history.plain /\ p
  <2>1. q \in BOOLEAN /\ term_history' = [term_history EXCEPT !.plain = q]
    BY <1>4
  <2> HIDE DEF q
  <2>2. /\ term_history' \in [plain : BOOLEAN, odd : BOOLEAN]
        /\ term_history'.odd = term_history.odd /\ term_history'.plain = q
    BY <1>3, <2>1
  <2> QED BY <2>2 DEF q
<1>5. ASSUME NEW c \in {"a", "blank"},
             term_history' = [term_history EXCEPT !.plain = @ /\ (undraw \/ c # "blank")],
             write_glyph(c), UNCHANGED csi
      PROVE  TermInv'
  BY <1>5, GlyphSafe
<1>6. ASSUME term_history' = [term_history EXCEPT !.plain = @ /\ undraw], write_tab, UNCHANGED csi
      PROVE  TermInv'
  <2> DEFINE t == ((x + TabStop) \div TabStop) * TabStop
  <2>1. Finishes(Drawing, t, y)
    BY <1>6 DEF write_tab
  <2>2. t \in Nat /\ y \in Nat /\ y <= TermHeight /\ y < TermHeight
    BY <1>1, TabIs DEF CursorWell
  <2>3. /\ term_history' \in [plain : BOOLEAN, odd : BOOLEAN] /\ term_history'.odd = term_history.odd
        /\ term_history'.plain => term_history.plain /\ undraw
    BY <1>2, <1>4, <1>6
  <2>4. csi' \in CsiRecs /\ csi'.args = csi.args
    BY <1>3, <1>6
  <2> HIDE DEF t, x, y
  <2> QED BY <1>2, <2>1, <2>2, <2>3, <2>4, PlainSafe
<1>7. ASSUME UNCHANGED <<csi, term_history>>, write_return
      PROVE  TermInv'
  <2>1. Finishes(Drawing, 0, y)
    BY <1>7 DEF write_return
  <2>2. 0 \in Nat /\ y \in Nat /\ y <= TermHeight /\ y < TermHeight
    BY <1>1 DEF CursorWell
  <2>3. term_history'.plain /\ ~Drawing.undraw => [x |-> 0, y |-> y] = old_cursor
    <3> SUFFICES ASSUME term_history.plain, ~undraw PROVE [x |-> 0, y |-> y] = old_cursor
      BY <1>2, <1>7
    <3>1. term_cursor.x = 0
      BY <1>3
    <3> QED BY <1>1, <3>1
  <2>4. csi' \in CsiRecs /\ csi'.args = csi.args /\ term_history' = term_history
    BY <1>3, <1>7
  <2> HIDE DEF x, y
  <2> QED BY <1>2, <1>3, <2>1, <2>2, <2>3, <2>4, PlainSafe
<1>8. ASSUME UNCHANGED <<csi, term_history>>, write_newline
      PROVE  TermInv'
  <2> DEFINE d == [Drawing EXCEPT !.undraw = TRUE]
  <2>1. Finishes(d, 0, y + 1)
    BY <1>8 DEF write_newline
  <2>2. 0 \in Nat /\ y + 1 \in Nat /\ y + 1 <= TermHeight /\ ~(0 >= TermWidth)
    BY <1>1 DEF CursorWell
  <2>3. d \in Drawings /\ d.bars = term_bars /\ d.wild = term_wild /\ d.undraw = TRUE
    BY <1>2, UndrawIs
  <2>4. csi' \in CsiRecs /\ csi'.args = csi.args /\ term_history' = term_history
    BY <1>3, <1>8
  <2> HIDE DEF d, x, y
  <2> QED BY <1>3, <2>1, <2>2, <2>3, <2>4, PlainSafe
<1>9. ASSUME write_nothing, UNCHANGED term_history, csi' \in CsiRecs, csi'.args = csi.args
      PROVE  TermInv'
  <2>1. Finishes(Drawing, x, y)
    BY <1>9 DEF write_nothing
  <2>2. x \in Nat /\ y \in Nat /\ y <= TermHeight /\ y < TermHeight
    BY <1>1 DEF CursorWell
  <2> HIDE DEF x, y
  <2> QED BY <1>1, <1>2, <1>3, <1>9, <2>1, <2>2, PlainSafe
<1>10. ASSUME term_history' = [term_history EXCEPT !.plain = @ /\ term_cursor.x > 0],
              write_backspace, UNCHANGED csi
       PROVE  TermInv'
  <2>2. /\ term_history' \in [plain : BOOLEAN, odd : BOOLEAN] /\ term_history'.odd = term_history.odd
        /\ term_history'.plain => term_history.plain /\ x > 0
    <3> DEFINE p == x > 0
    <3>1. p \in BOOLEAN /\ term_history' = [term_history EXCEPT !.plain = term_history.plain /\ p]
      BY <1>10
    <3> HIDE DEF p
    <3>2. /\ term_history' \in [plain : BOOLEAN, odd : BOOLEAN] /\ term_history'.odd = term_history.odd
          /\ term_history'.plain => term_history.plain /\ p
      BY <1>4, <3>1
    <3> QED BY <3>2 DEF p
  <2>3. /\ is_bold' = is_bold /\ insert_mode' = insert_mode /\ csi' = csi
    BY <1>10 DEF write_backspace
  <2>4. CASE x > 0
    <3> DEFINE d == [Drawing EXCEPT !.undraw = TRUE]
               at == [term_cursor EXCEPT !.x = @ - 1]
    <3>1. Moves(d, at)
      BY <1>10, <2>4 DEF write_backspace
    <3>2. d \in Drawings /\ d.bars = term_bars /\ d.wild = term_wild /\ d.undraw = TRUE
      BY <1>2, UndrawIs
    <3>3. at \in Cursors
      <4>1. x - 1 \in Columns
        BY <1>1, <2>4 DEF CursorWell, Columns
      <4> QED BY <4>1 DEF TermInv, Cursors
    <3> HIDE DEF d, at
    <3>4. /\ Drawing' \in Drawings /\ term_cursor' \in Cursors /\ term_cursor' = at
          /\ old_cursor' = term_cursor' /\ term_wild' = term_wild /\ undraw' = TRUE
          /\ term_history'.plain /\ term_bars \subseteq {Index(old_cursor)} => term_bars' = {Index(at)}
      BY <3>1, <3>2, <3>3, MovesIs
    <3>5. term_history'.plain => BarWell'
      <4> SUFFICES ASSUME term_history'.plain PROVE BarWell'
        OBVIOUS
      <4>1. ~term_history.odd /\ ~insert_mode /\ term_bars \subseteq {Index(old_cursor)}
        BY <2>2 DEF TermInv, BarWell
      <4> QED BY <2>2, <2>3, <3>4, <4>1 DEF BarWell, Index
    <3>6. ~term_history'.odd => Positive(csi)'
      BY <2>2, <2>3 DEF TermInv, Positive
    <3> QED BY <2>2, <2>3, <3>4, <3>5, <3>6 DEF TermInv
  <2>5. CASE ~(x > 0)
    <3> DEFINE d == [Drawing EXCEPT !.undraw = FALSE]
    <3>1. Takes(d) /\ term_cursor' = term_cursor /\ old_cursor' = old_cursor
      BY <1>10, <2>5 DEF write_backspace
    <3>2. d \in Drawings /\ d.wild = term_wild
      BY <1>2, UndrawIs
    <3> HIDE DEF d
    <3>3. Drawing' \in Drawings /\ term_wild' = term_wild
      BY <3>1, <3>2, TakesIs
    <3>4. ~term_history'.plain
      BY <2>2, <2>5
    <3>5. ~term_history'.odd => Positive(csi)'
      BY <2>2, <2>3 DEF TermInv, Positive
    <3> QED BY <2>2, <2>3, <3>1, <3>3, <3>4, <3>5 DEF TermInv
  <2> QED BY <2>4, <2>5
<1>11. ASSUME UNCHANGED term_history, write_nothing, csi' = [csi EXCEPT !.progress = 1]
       PROVE  TermInv'
  <2>1. csi' \in CsiRecs /\ csi'.args = csi.args
    BY <1>3, <1>11 DEF CsiRecs
  <2> QED BY <1>9, <1>11, <2>1
<1>12. ASSUME UNCHANGED <<csi, term_history>>, write_nothing PROVE TermInv'
  BY <1>3, <1>9, <1>12
<1> HIDE DEF x, y
<1> QED BY <1>5, <1>6, <1>7, <1>8, <1>10, <1>11, <1>12 DEF write_char

\* A character inside of a control sequence.
LEMMA CsiStep ==
    ASSUME csi \in CsiRecs, csi_bracket \/ csi_semicolon \/ csi_question \/ csi_other
    PROVE  csi' \in CsiRecs /\ (Positive(csi) => Positive(csi'))
<1>1. CASE csi_bracket
  <2>1. csi' \in CsiRecs /\ csi'.args = csi.args
    BY <1>1 DEF csi_bracket, CsiRecs
  <2> QED BY <2>1 DEF Positive
<1>2. CASE csi_semicolon /\ csi' = NoSequence
  BY <1>2, NoSequenceIs
<1>3. CASE csi_semicolon /\ csi' # NoSequence
  <2> DEFINE k == csi.index + 1
             a == [csi.args EXCEPT ![k] = 0]
  <2>1. MaxCsiArgs \in Nat
    BY TerminalAssumption
  <2>2. k \in Int /\ ~(k >= MaxCsiArgs) /\ csi' = [csi EXCEPT !.index = k, !.args[k] = 0]
    BY <1>3, <2>1 DEF csi_semicolon, CsiRecs
  <2>3. k \in 0 .. MaxCsiArgs - 1
    BY <2>1, <2>2 DEF CsiRecs
  <2>4. csi' = [csi EXCEPT !.index = k, !.args = a]
    BY <2>2
  <2> HIDE DEF k
  <2>5. a \in [0 .. MaxCsiArgs - 1 -> Int] /\ \A i \in 0 .. MaxCsiArgs - 1 : a[i] \in {csi.args[i], 0}
    BY <2>3 DEF CsiRecs
  <2> HIDE DEF a
  <2>6. csi' \in CsiRecs /\ csi'.args = a
    BY <2>3, <2>4, <2>5 DEF CsiRecs
  <2> QED BY <2>5, <2>6 DEF Positive
<1>4. CASE csi_question
  <2>1. csi' \in CsiRecs /\ csi'.args = csi.args
    BY <1>4 DEF csi_question, CsiRecs
  <2> QED BY <2>1 DEF Positive
<1>5. CASE csi_other
  BY <1>5, NoSequenceIs DEF csi_other
<1> QED BY <1>1, <1>2, <1>3, <1>4, <1>5

LEMMA DigitIs ==
    ASSUME TermInv, NEW n \in Digits, csi_digit(n)
    PROVE  /\ csi' \in CsiRecs /\ term_history' \in [plain : BOOLEAN, odd : BOOLEAN]
           /\ ~term_history'.plain /\ (term_history.odd => term_history'.odd)
           /\ ~term_history'.odd => Positive(csi')
<1> DEFINE k == csi.index
           old == csi.args
           value == old[k] * 10 + n
           w == Wrapped(value)
           a == [old EXCEPT ![k] = w]
           o == term_history.odd \/ w # value
<1>1. /\ csi \in CsiRecs /\ k \in 0 .. MaxCsiArgs - 1 /\ k \in Nat
      /\ old \in [0 .. MaxCsiArgs - 1 -> Int] /\ old[k] \in Int
      /\ term_history.odd \in BOOLEAN /\ (~term_history.odd => Positive(csi))
  BY TerminalAssumption DEF TermInv, CsiRecs
<1>2. n \in Nat
  BY TerminalAssumption
<1>3. value \in Int /\ (old[k] >= 0 => value >= 0)
  BY <1>1, <1>2
<1>4. /\ csi' = [csi EXCEPT !.args[k] = w, !.count = k + 1, !.digits = csi.digits + 1]
      /\ term_history' = [plain |-> FALSE, odd |-> o]
  BY DEF csi_digit
<1>5. csi' = [csi EXCEPT !.args = a, !.count = k + 1, !.digits = csi.digits + 1]
  BY <1>4
<1> HIDE DEF value
<1>6. w \in Int
  BY <1>3, WrappedIs
<1> HIDE DEF w
<1>7. a \in [0 .. MaxCsiArgs - 1 -> Int] /\ a[k] = w /\ \A i \in 0 .. MaxCsiArgs - 1 : i # k => a[i] = old[i]
  BY <1>1, <1>6
<1>8. o \in BOOLEAN /\ (term_history.odd => o) /\ (~o => w = value /\ ~term_history.odd)
  BY <1>1
<1> HIDE DEF a, k, o
<1>9. csi' \in CsiRecs /\ csi'.args = a
  <2>1. k + 1 \in Nat /\ csi.digits + 1 \in Nat
    BY <1>1 DEF CsiRecs
  <2> QED BY <1>1, <1>5, <1>7, <2>1 DEF CsiRecs
<1>10. /\ term_history' \in [plain : BOOLEAN, odd : BOOLEAN] /\ ~term_history'.plain
       /\ term_history'.odd = o
  BY <1>4, <1>8
<1>11. ASSUME ~o PROVE Positive(csi')
  <2>1. w = value /\ \A i \in 0 .. MaxCsiArgs - 1 : old[i] >= 0
    BY <1>1, <1>8, <1>11 DEF Positive
  <2>2. w >= 0
    BY <1>1, <1>3, <2>1
  <2>3. \A i \in 0 .. MaxCsiArgs - 1 : a[i] >= 0
    BY <1>7, <2>1, <2>2
  <2> QED BY <1>9, <2>3 DEF Positive
<1> QED BY <1>8, <1>9, <1>10, <1>11

\* Deleting and erasing stay in the row unless a number has wrapped.
LEMMA RemovedIs ==
    ASSUME TermInv, NEW code
    PROVE  /\ Removed(code) \in Drawings
           /\ term_wild = "no" /\ ~term_history.odd /\ Wrapped(AfterCursor) = AfterCursor
                 => Removed(code).wild = "no"
<1> DEFINE x == term_cursor.x
           y == term_cursor.y
           L == LastRemoved
           n == TermWidth - L
           from == [i \in 1 .. n |-> L + (i - 1)]
           to == [i \in 1 .. n |-> x + (i - 1)]
           c == Blanked(Drawing, {y * TermWidth + k : k \in x .. L - 1})
           s == Shifted(c, y, n, from, to)
           k == IF csi.count = 0 THEN 1 ELSE csi.args[0]
<1>1. CursorWell(x, y)
  BY CursorIs
<1>2. x \in Nat /\ TermWidth \in Nat /\ x < TermWidth
  BY <1>1 DEF CursorWell
<1>3. k \in Int /\ AfterCursor = x + k /\ (~term_history.odd => k >= 0)
  <2>1. 0 \in 0 .. MaxCsiArgs - 1
    BY TerminalAssumption
  <2>2. csi.args[0] \in Int /\ (~term_history.odd => csi.args[0] >= 0)
    BY <2>1 DEF TermInv, CsiRecs, Positive
  <2> QED BY <2>2 DEF AfterCursor
<1>4. AfterCursor \in Int
  BY <1>2, <1>3
<1>5. Wrapped(AfterCursor) \in Int
  BY <1>4, WrappedIs
<1>6. L \in 0 .. TermWidth
  BY <1>2, <1>5, ClampIs DEF LastRemoved
<1>7. ~term_history.odd /\ Wrapped(AfterCursor) = AfterCursor => L >= x
  <2> HIDE DEF x, k
  <2> QED BY <1>2, <1>3, <1>4 DEF LastRemoved, Clamp
<1>8. Removed(code) = IF code = "X" THEN c ELSE s
  BY DEF Removed
<1>9. Drawing \in Drawings /\ Drawing.wild = term_wild
  BY DrawingIs DEF TermInv
<1>10. c \in Drawings /\ c.wild = term_wild
  BY <1>9, BlankedIs
<1>11. n \in Nat /\ y \in Lines
  BY <1>2, <1>6 DEF TermInv, Cursors
<1> HIDE DEF c, L, x, y
<1>12. ~term_history.odd /\ Wrapped(AfterCursor) = AfterCursor
           => \A i \in 1 .. n : from[i] \in Columns /\ to[i] \in Columns
  <2> SUFFICES ASSUME ~term_history.odd, Wrapped(AfterCursor) = AfterCursor, NEW i \in 1 .. n
               PROVE  from[i] \in Columns /\ to[i] \in Columns
    OBVIOUS
  <2>1. from[i] = L + (i - 1) /\ to[i] = x + (i - 1)
    OBVIOUS
  <2>2. L >= x
    BY <1>7
  <2>3. L + (i - 1) \in 0 .. TermWidth - 1 /\ x + (i - 1) \in 0 .. TermWidth - 1
    BY <1>2, <1>6, <2>2
  <2> QED BY <2>1, <2>3 DEF Columns
<1> HIDE DEF n, from, to
<1>13. ShiftWell(c, y, n, from, to, s)
  BY <1>10, <1>11, ShiftedIs
<1> HIDE DEF s
<1>14. s \in Drawings /\ (term_wild = "no" /\ ~term_history.odd /\ Wrapped(AfterCursor) = AfterCursor
                             => s.wild = "no")
  BY <1>10, <1>11, <1>12, <1>13 DEF ShiftWell
<1> QED BY <1>8, <1>10, <1>14

LEMMA ApplySafe ==
    ASSUME TermInv, NEW code, csi' = NoSequence, apply_control_sequence(code),
           term_history' = [plain |-> FALSE,
              odd |-> \/ term_history.odd \/ insert_mode
                      \/ code \in {"P", "X"} /\ Wrapped(AfterCursor) # AfterCursor]
    PROVE  TermInv'
<1> DEFINE w == code \in {"P", "X"} /\ Wrapped(AfterCursor) # AfterCursor
           o == term_history.odd \/ insert_mode \/ w
<1>1. /\ Drawing \in Drawings /\ Drawing.wild = term_wild /\ is_bold \in BOOLEAN
      /\ insert_mode \in BOOLEAN /\ term_cursor \in Cursors /\ old_cursor = term_cursor
      /\ csi \in CsiRecs /\ term_history.odd \in BOOLEAN
      /\ term_wild # "no" => term_history.odd \/ insert_mode
  BY DrawingIs DEF TermInv
<1>2. term_history' = [plain |-> FALSE, odd |-> o] /\ o \in BOOLEAN
  BY <1>1
<1>3. (term_history.odd => o) /\ (insert_mode => o) /\ (w => o)
  BY <1>1
<1> HIDE DEF o, w
<1>4. /\ term_history' \in [plain : BOOLEAN, odd : BOOLEAN] /\ ~term_history'.plain /\ term_history'.odd = o
  BY ONLY <1>2
<1>5. csi' \in CsiRecs /\ Positive(csi)'
  <2>1. Positive(csi')
    BY NoSequenceIs
  <2> QED BY <2>1, NoSequenceIs DEF Positive
<1>6. SUFFICES /\ Drawing' \in Drawings /\ is_bold' \in BOOLEAN /\ insert_mode' \in BOOLEAN
               /\ term_cursor' \in Cursors /\ old_cursor' = term_cursor'
               /\ term_wild' # "no" => o
  BY <1>4, <1>5 DEF TermInv
<1>7. term_wild # "no" => o
  BY <1>1, <1>3
<1>8. ASSUME NEW d \in Drawings, Takes(d), d.wild # "no" => o
      PROVE  Drawing' \in Drawings /\ (term_wild' # "no" => o)
  BY <1>8, TakesIs
<1>9. ASSUME code \in CursorCodes, Moves([Drawing EXCEPT !.undraw = TRUE], NewCursor(code)),
             UNCHANGED <<is_bold, insert_mode>>
      PROVE  /\ Drawing' \in Drawings /\ is_bold' \in BOOLEAN /\ insert_mode' \in BOOLEAN
             /\ term_cursor' \in Cursors /\ old_cursor' = term_cursor'
             /\ term_wild' # "no" => o
  <2> DEFINE d == [Drawing EXCEPT !.undraw = TRUE]
             at == NewCursor(code)
  <2>1. d \in Drawings /\ d.wild = term_wild
    BY <1>1, UndrawIs
  <2>2. at \in Cursors
    BY <1>1, <1>9, NewCursorIs
  <2>3. Moves(d, at)
    BY <1>9
  <2> HIDE DEF d, at
  <2>4. Drawing' \in Drawings /\ term_cursor' \in Cursors /\ old_cursor' = term_cursor' /\ term_wild' = d.wild
    BY <2>1, <2>2, <2>3, MovesIs
  <2> QED BY <1>1, <1>7, <1>9, <2>1, <2>4
<1>10. ASSUME Takes(Blanked(Drawing, Erased(code)))
       PROVE  Drawing' \in Drawings /\ (term_wild' # "no" => o)
  <2> DEFINE d == Blanked(Drawing, Erased(code))
  <2>1. d \in Drawings /\ d.wild = term_wild
    BY <1>1, BlankedIs
  <2> HIDE DEF d
  <2> QED BY <1>7, <1>8, <1>10, <2>1 DEF d
<1>11. ASSUME code \in {"P", "X"}, Takes(Removed(code))
       PROVE  Drawing' \in Drawings /\ (term_wild' # "no" => o)
  <2> DEFINE d == Removed(code)
  <2>1. d \in Drawings
    BY RemovedIs
  <2>2. d.wild # "no" => o
    <3> SUFFICES ASSUME ~o PROVE d.wild = "no"
      OBVIOUS
    <3>1. ~term_history.odd /\ ~insert_mode /\ ~w
      BY <1>3
    <3>2. Wrapped(AfterCursor) = AfterCursor /\ term_wild = "no"
      BY <1>1, <1>11, <3>1 DEF w
    <3> QED BY <3>1, <3>2, RemovedIs
  <2> HIDE DEF d
  <2> QED BY <1>8, <1>11, <2>1, <2>2 DEF d
<1>12. ASSUME Takes(Drawing)
       PROVE  Drawing' \in Drawings /\ (term_wild' # "no" => o)
  BY <1>1, <1>7, <1>8, <1>12
<1>13. Embolded \in BOOLEAN
  <2>1. csi.index \in Nat
    BY <1>1, TerminalAssumption DEF CsiRecs
  <2> QED BY <1>1, <2>1, EmboldedIs
<1>14. CASE code \in CursorCodes /\ Moves([Drawing EXCEPT !.undraw = TRUE], NewCursor(code))
            /\ UNCHANGED <<is_bold, insert_mode>>
  BY <1>9, <1>14
<1>15. CASE /\ Takes(Blanked(Drawing, Erased(code)))
            /\ UNCHANGED <<term_cursor, old_cursor, is_bold, insert_mode>>
  BY <1>1, <1>10, <1>15
<1>16. CASE /\ code \in {"P", "X"} /\ Takes(Removed(code))
            /\ UNCHANGED <<term_cursor, old_cursor, is_bold, insert_mode>>
  BY <1>1, <1>11, <1>16
<1>17. CASE /\ Takes(Drawing) /\ is_bold' = Embolded
            /\ UNCHANGED <<term_cursor, old_cursor, insert_mode>>
  BY <1>1, <1>12, <1>13, <1>17
<1>18. CASE /\ Takes(Drawing)
            /\ insert_mode' = IF ~csi.question /\ csi.args[0] = 4 THEN code = "h" ELSE insert_mode
            /\ UNCHANGED <<term_cursor, old_cursor, is_bold>>
  <2>1. insert_mode' \in BOOLEAN
    BY <1>1, <1>18
  <2> QED BY <1>1, <1>12, <1>18, <2>1
<1> QED BY <1>14, <1>15, <1>16, <1>17, <1>18 DEF apply_control_sequence

LEMMA SequenceSafe ==
    ASSUME TermInv, write_in_sequence
    PROVE  TermInv'
<1>1. CASE (csi_bracket \/ csi_semicolon \/ csi_question \/ csi_other) /\ Quiet /\ UNCHANGED term_history
  <2>1. UNCHANGED <<screen, term_bars, undraw, term_cursor, old_cursor, is_bold, insert_mode, term_wild,
                    term_history>>
    BY <1>1 DEF Quiet
  <2>2. csi' \in CsiRecs /\ (Positive(csi) => Positive(csi'))
    BY <1>1, CsiStep DEF TermInv
  <2>3. ~term_history'.odd => Positive(csi)'
    BY <2>1, <2>2 DEF TermInv, Positive
  <2>4. term_history'.plain => BarWell'
    BY <2>1 DEF TermInv, BarWell, Index
  <2>5. Drawing' = Drawing
    BY <2>1 DEF Drawing
  <2> QED BY <2>1, <2>2, <2>3, <2>4, <2>5 DEF TermInv
<1>2. ASSUME NEW n \in Digits, csi_digit(n), term_bars' = {},
             UNCHANGED <<screen, undraw, term_cursor, old_cursor, is_bold, insert_mode, term_wild>>
      PROVE  TermInv'
  <2>1. /\ csi' \in CsiRecs /\ term_history' \in [plain : BOOLEAN, odd : BOOLEAN]
        /\ ~term_history'.plain /\ (term_history.odd => term_history'.odd)
        /\ ~term_history'.odd => Positive(csi')
    BY <1>2, DigitIs
  <2>2. ~term_history'.odd => Positive(csi)'
    BY <2>1 DEF Positive
  <2>3. Drawing' \in Drawings
    BY <1>2, DrawingIs DEF Drawing, Drawings
  <2> QED BY <1>2, <2>1, <2>2, <2>3 DEF TermInv
<1>3. ASSUME NEW code \in Codes, csi' = NoSequence, apply_control_sequence(code),
             term_history' = [plain |-> FALSE,
                odd |-> \/ term_history.odd \/ insert_mode
                        \/ code \in {"P", "X"} /\ Wrapped(AfterCursor) # AfterCursor]
      PROVE  TermInv'
  BY <1>3, ApplySafe
<1> QED BY <1>1, <1>2, <1>3 DEF write_in_sequence

\* The terminal on the framebuffer, for any size, tab stop, digits and width of an int:
\* the cursor stays on the screen, characters stay in their rows and in the buffer until
\* insert mode or a wrapped number, and plain output leaves one bar, at the cursor.
THEOREM ScreenSafe == TerminalSpec => []TermSafe
<1>1. TerminalInit => TermInv
  <2> SUFFICES ASSUME TerminalInit PROVE TermInv
    OBVIOUS
  <2>1. 0 \in Columns /\ 0 \in Lines /\ TermWidth \in Nat
    BY TerminalAssumption DEF Columns, Lines
  <2>2. 0 * TermWidth + 0 = 0
    BY <2>1
  <2>3. 0 \in TermCells
    <3>1. 0 * TermWidth + 0 \in TermCells
      BY <2>1, CellIs
    <3> QED BY <2>2, <3>1
  <2>4. /\ screen = [i \in TermCells |-> Blank] /\ term_bars = {0} /\ undraw = FALSE
        /\ term_cursor = [x |-> 0, y |-> 0] /\ old_cursor = term_cursor
        /\ is_bold = FALSE /\ insert_mode = FALSE /\ csi = NoSequence
        /\ term_wild = "no" /\ term_history = [plain |-> TRUE, odd |-> FALSE]
    BY DEF TerminalInit
  <2>5. Drawing \in Drawings
    <3>1. screen \in [TermCells -> Glyphs]
      BY <2>4, BlankIs
    <3>2. term_bars \in SUBSET TermCells /\ undraw \in BOOLEAN /\ term_wild \in {"no", "row", "out"}
      BY <2>3, <2>4
    <3> QED BY <3>1, <3>2 DEF Drawing, Drawings
  <2>6. term_cursor \in Cursors
    BY <2>1, <2>4 DEF Cursors
  <2>7. BarWell
    <3>1. Index(term_cursor) = 0
      BY <2>2, <2>4 DEF Index
    <3>2. screen[0] = Blank
      BY <2>3, <2>4
    <3> QED BY <2>4, <3>1, <3>2 DEF BarWell
  <2> QED BY <2>4, <2>5, <2>6, <2>7, NoSequenceIs DEF TermInv
<1>2. TermInv /\ [TerminalNext]_terminal_vars => TermInv'
  <2> SUFFICES ASSUME TermInv, [TerminalNext]_terminal_vars PROVE TermInv'
    OBVIOUS
  <2>1. CASE UNCHANGED terminal_vars
    BY <2>1 DEF terminal_vars, TermInv, Drawing, BarWell, Index, Positive
  <2> QED BY <2>1, CharSafe, SequenceSafe DEF TerminalNext
<1>3. TermInv => TermSafe
  BY DEF TermInv, TermSafe, BarWell, Cursors, Columns, Lines
<1> QED BY <1>1, <1>2, <1>3, PTL DEF TerminalSpec
=============================================================================
