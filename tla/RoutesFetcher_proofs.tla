------------------------ MODULE RoutesFetcher_proofs ------------------------
(***************************************************************************)
(* Proofs about RoutesFetcher.tla, for any URIs, messages and arrays.      *)
(***************************************************************************)
EXTENDS RoutesFetcher, SequenceTheorems, TLAPS

Slots == Route \cup {Nil}

LentArrays == Held(SlicesOf(lent))

-----------------------------------------------------------------------------
(* Slices and arrays *)

\* The table as its operations need it: slices lie within their arrays, no
\* reader holds an array of the map, and what no reader holds has routes and
\* nils only.  Of the arrays that readers hold it says nothing.
TableInv ==
  /\ rts \in [Uri -> Slice \cup {NoSlice}]
  /\ lent \in [Readers -> Slice \cup {NoSlice}]
  /\ heap = [a \in Arrays |-> heap[a]]
  /\ \A a \in Arrays \ LentArrays : heap[a] \in Seq(Slots)
  /\ \A k \in Keys : rts[k].arr \notin LentArrays
  /\ SlicesFit

\* A slice of the map has its array among the reachable ones.
LEMMA EntryReachable ==
  ASSUME NEW tab \in [Uri -> Slice \cup {NoSlice}], NEW rds,
         NEW k \in Uri, tab[k] # NoSlice
  PROVE  tab[k].arr \in Reachable(tab, rds)
BY DEF Reachable, Held, SlicesOf

\* So has a slice of a reader.
LEMMA LentReachable ==
  ASSUME NEW tab, NEW rds \in [Readers -> Slice \cup {NoSlice}]
  PROVE  Held(SlicesOf(rds)) \subseteq Reachable(tab, rds)
BY DEF Reachable, Held

\* The arrays readers hold, one by one.
LEMMA LentByReader ==
  ASSUME NEW rds \in [Readers -> Slice \cup {NoSlice}]
  PROVE  Held(SlicesOf(rds)) = {rds[p].arr : p \in {q \in Readers : rds[q] # NoSlice}}
BY DEF Held, SlicesOf

\* A free array is the array of no slice of the map and of no reader.
LEMMA FreeIsUnused ==
  ASSUME TableInv, NEW a \in Free
  PROVE  a \in Arrays \ LentArrays /\ \A k \in Keys : rts[k].arr # a
BY EntryReachable, LentReachable DEF Free, TableInv, Keys, LentArrays

\* A map entry is a slice of an array of routes and nils.
LEMMA KeyIsSlice ==
  ASSUME TableInv, NEW k \in Keys
  PROVE  /\ rts[k] \in Slice /\ rts[k].len \in Nat
         /\ rts[k].arr \in Arrays \ LentArrays
         /\ heap[rts[k].arr] \in Seq(Slots)
         /\ Len(heap[rts[k].arr]) \in Nat
         /\ rts[k].len <= Len(heap[rts[k].arr])
<1>1. rts[k] \in Slice
  BY DEF TableInv, Keys
<1>2. rts[k].arr \in Arrays \ LentArrays /\ rts[k].len \in Nat
  BY <1>1 DEF Slice, TableInv
<1>3. heap[rts[k].arr] \in Seq(Slots)
  BY <1>2 DEF TableInv
<1>4. rts[k].len <= Len(heap[rts[k].arr])
  BY DEF TableInv, SlicesFit
<1> QED
  BY <1>1, <1>2, <1>3, <1>4, LenProperties

\* Entries of a slice are slots.
LEMMA EntryIsSlot ==
  ASSUME TableInv, NEW k \in Keys, NEW i \in 1 .. rts[k].len
  PROVE  Entry(rts[k], i) \in Slots /\ i \in 1 .. Len(heap[rts[k].arr])
<1>1. i \in 1 .. Len(heap[rts[k].arr])
  BY KeyIsSlice
<1> QED
  BY <1>1, KeyIsSlice, ElementOfSeq DEF Entry

\* The array append allocates: the old entries, then the new one, then nil.
LEMMA GrownArray ==
  ASSUME NEW S, Nil \in S, NEW q \in Seq(S), NEW r \in S
  PROVE  /\ Grown(q, r) \in Seq(S)
         /\ Len(Grown(q, r)) >= Len(q) + 1
         /\ \A i \in 1 .. Len(q) : Grown(q, r)[i] = q[i]
         /\ Grown(q, r)[Len(q) + 1] = r
<1> DEFINE n == GrowCap(Len(q))
           e(i) == IF i <= Len(q) THEN q[i] ELSE IF i = Len(q) + 1 THEN r ELSE Nil
<1>1. Len(q) \in Nat /\ \A i \in 1 .. Len(q) : q[i] \in S
  BY LenProperties, ElementOfSeq
<1>2. n \in Nat /\ n >= Len(q) + 1
  BY <1>1 DEF GrowCap
<1>3. \A i \in 1 .. n : e(i) \in S
  BY <1>1, <1>2
<1>4. Grown(q, r) = [i \in 1 .. n |-> e(i)]
  BY DEF Grown
<1>5. Grown(q, r) \in Seq(S)
  <2> HIDE DEF e, n
  <2> QED BY <1>2, <1>3, <1>4, IsASeq
<1>6. Len(Grown(q, r)) = n
  <2> HIDE DEF e
  <2>1. DOMAIN Grown(q, r) = 1 .. n
    BY <1>4
  <2> QED
    BY <1>2, <1>5, <2>1, LenProperties
<1> QED
  BY <1>1, <1>2, <1>4, <1>5, <1>6

\* The index a loop over a slice stops at, when only one satisfies its test.
LEMMA FirstOfSingleton ==
  ASSUME NEW i \in Nat
  PROVE  FirstOf({i}) = i
BY DEF FirstOf

\* Writing to a slot of an array, be it one of its slots or not.
LEMMA SlotWritten ==
  ASSUME NEW S, NEW q \in Seq(S), NEW i, NEW v \in S
  PROVE  [q EXCEPT ![i] = v] \in Seq(S) /\ Len([q EXCEPT ![i] = v]) = Len(q)
<1>1. CASE i \in 1 .. Len(q)
  BY <1>1, ExceptSeq
<1>2. CASE i \notin 1 .. Len(q)
  <2>1. [q EXCEPT ![i] = v] = q
    BY <1>2, LenProperties
  <2> QED
    BY <2>1
<1> QED
  BY <1>1, <1>2

\* The same of the arrays of the map.
LEMMA GrownSlots ==
  ASSUME NEW q \in Seq(Slots), NEW r \in Slots
  PROVE  /\ Grown(q, r) \in Seq(Slots)
         /\ Len(Grown(q, r)) >= Len(q) + 1
         /\ \A i \in 1 .. Len(q) : Grown(q, r)[i] = q[i]
         /\ Grown(q, r)[Len(q) + 1] = r
<1>1. Nil \in Slots
  BY DEF Slots
<1> QED
  BY <1>1, GrownArray

LEMMA SlotsWritten ==
  ASSUME NEW q \in Seq(Slots), NEW i, NEW v \in Slots
  PROVE  [q EXCEPT ![i] = v] \in Seq(Slots) /\ Len([q EXCEPT ![i] = v]) = Len(q)
BY SlotWritten

\* h is heap with contents q in array a, except that arrays which nothing
\* reaches afterwards may have been collected.
Rewritten(h, a, q, live) ==
  /\ h = [b \in Arrays |-> h[b]]
  /\ h[a] = q
  /\ \A b \in Arrays \ {a} : h[b] = heap[b] \/ (b \notin live /\ h[b] = << >>)

\* A write without a collection.
LEMMA WriteRewrites ==
  ASSUME heap = [b \in Arrays |-> heap[b]], NEW a \in Arrays, NEW q, NEW live
  PROVE  Rewritten([heap EXCEPT ![a] = q], a, q, live)
BY DEF Rewritten

\* A write and a collection.
LEMMA CollectedRewrites ==
  ASSUME heap = [b \in Arrays |-> heap[b]], NEW a \in Arrays, NEW q, NEW live, a \in live
  PROVE  Rewritten(Collected([heap EXCEPT ![a] = q], live), a, q, live)
BY DEF Rewritten, Collected

-----------------------------------------------------------------------------
(* A call edits one entry of the map: afterwards the entry of u is the first *)
(* n slots of array a, whose contents are q; a is a free array or one of the *)
(* map, of the same size as before.                                          *)

Edit(u, a, q, n) ==
  /\ u \in Uri
  /\ a \in Arrays \ LentArrays
  /\ a \in Free \/ Len(q) = Len(heap[a])
  /\ q \in Seq(Slots)
  /\ n \in Nat /\ n <= Len(q)
  /\ rts' = [rts EXCEPT ![u] = [arr |-> a, len |-> n]]
  /\ Rewritten(heap', a, q, Reachable(rts', lent))

\* The edited entry, and the arrays that stay as they are: those of readers
\* and those of the other entries, unless they share the one edited.
LEMMA EditedTable ==
  ASSUME TableInv, NEW u, NEW a, NEW q, NEW n, Edit(u, a, q, n)
  PROVE  /\ rts' \in [Uri -> Slice \cup {NoSlice}]
         /\ rts'[u] = [arr |-> a, len |-> n] /\ rts'[u] # NoSlice
         /\ heap'[a] = q
         /\ \A b \in LentArrays : heap'[b] = heap[b]
         /\ \A l \in Uri \ {u} :
              /\ rts'[l] = rts[l]
              /\ rts[l] # NoSlice /\ rts[l].arr # a => heap'[rts[l].arr] = heap[rts[l].arr]
<1>1. /\ rts' \in [Uri -> Slice \cup {NoSlice}]
      /\ rts'[u] = [arr |-> a, len |-> n] /\ rts'[u] # NoSlice
      /\ \A l \in Uri \ {u} : rts'[l] = rts[l]
  BY NoSliceAssumption DEF Edit, TableInv, Slice
<1>2. LentArrays \subseteq Arrays /\ LentArrays \subseteq Reachable(rts', lent)
  BY LentReachable DEF LentArrays, TableInv, Held, SlicesOf, Slice
<1>3. \A b \in LentArrays : heap'[b] = heap[b]
  BY <1>2 DEF Edit, Rewritten
<1>4. ASSUME NEW l \in Uri \ {u}, rts[l] # NoSlice, rts[l].arr # a
      PROVE  heap'[rts[l].arr] = heap[rts[l].arr]
  <2>1. rts[l].arr \in Reachable(rts', lent)
    BY <1>1, <1>4, EntryReachable
  <2>2. rts[l].arr \in Arrays
    BY <1>4 DEF TableInv, Slice
  <2> QED
    BY <1>4, <2>1, <2>2 DEF Edit, Rewritten
<1> QED
  BY <1>1, <1>3, <1>4 DEF Edit, Rewritten

\* An edit keeps the table's invariant.
LEMMA EditKeepsInv ==
  ASSUME TableInv, UNCHANGED lent,
         NEW u, NEW a, NEW q, NEW n, Edit(u, a, q, n)
  PROVE  TableInv'
<1>0. /\ rts'[u] = [arr |-> a, len |-> n] /\ heap'[a] = q
      /\ \A l \in Uri \ {u} :
           /\ rts'[l] = rts[l]
           /\ rts[l] # NoSlice /\ rts[l].arr # a => heap'[rts[l].arr] = heap[rts[l].arr]
      /\ rts' \in [Uri -> Slice \cup {NoSlice}]
  BY EditedTable
<1>e. /\ a \in Arrays \ LentArrays /\ q \in Seq(Slots) /\ n <= Len(q)
      /\ a \in Free \/ Len(q) = Len(heap[a])
  BY DEF Edit
<1>1. LentArrays' = LentArrays
  BY DEF LentArrays, Held, SlicesOf
<1>2. heap' = [b \in Arrays |-> heap'[b]]
  BY DEF Edit, Rewritten
<1>3. ASSUME NEW b \in Arrays \ LentArrays PROVE heap'[b] \in Seq(Slots)
  <2>1. << >> \in Seq(Slots)
    OBVIOUS
  <2>2. heap'[b] \in {q, heap[b], << >>}
    BY DEF Edit, Rewritten
  <2> QED
    BY <1>e, <2>1, <2>2 DEF TableInv
<1>4. ASSUME NEW k \in Keys'
      PROVE  rts'[k].arr \notin LentArrays /\ rts'[k].len <= Len(heap'[rts'[k].arr])
  <2>1. k \in Uri /\ rts'[k] # NoSlice
    BY DEF Keys
  <2>2. CASE k = u
    BY <2>2, <1>0, <1>e
  <2>3. CASE k # u
    <3>1. k \in Keys /\ rts'[k] = rts[k]
      BY <2>1, <2>3, <1>0 DEF Keys
    <3>2. CASE rts[k].arr # a
      BY <3>1, <3>2, <2>3, <1>0, KeyIsSlice DEF Keys
    <3>3. CASE rts[k].arr = a
      BY <3>1, <3>3, <1>0, <1>e, KeyIsSlice, FreeIsUnused
    <3> QED
      BY <3>2, <3>3
  <2> QED
    BY <2>2, <2>3
<1> QED
  BY <1>0, <1>1, <1>2, <1>3, <1>4 DEF TableInv, SlicesFit

-----------------------------------------------------------------------------
(* Each case of the two calls is an edit.                                    *)

\* RegisterRoute of a key without an entry: a new slice of one route.
LEMMA RegisterNewKeyEdit ==
  ASSUME TableInv, NEW k \in Uri, NEW r \in Route, RegisterNewKey(k, r)
  PROVE  \E a \in Free : Edit(k, a, <<r>>, 1)
<1>1. PICK a \in Free : /\ rts'  = [rts EXCEPT ![k] = [arr |-> a, len |-> 1]]
                        /\ heap' = [heap EXCEPT ![a] = <<r>>]
  BY DEF RegisterNewKey
<1>2. a \in Arrays \ LentArrays
  BY FreeIsUnused
<1>3. <<r>> \in Seq(Slots) /\ Len(<<r>>) = 1
  BY DEF Slots
<1>4. Rewritten(heap', a, <<r>>, Reachable(rts', lent))
  BY <1>1, <1>2, WriteRewrites DEF TableInv
<1>5. Edit(k, a, <<r>>, 1)
  BY <1>1, <1>2, <1>3, <1>4 DEF Edit
<1> QED
  BY <1>5

\* RegisterRoute of an instance the entry already holds: a slot of the entry
\* is written, or nothing.
LEMMA UpdateEntryEdit ==
  ASSUME TableInv, NEW k \in Uri, NEW r \in Route, UpdateEntry(k, r)
  PROVE  LET s     == rts[k]
             stale == {j \in EqualAt(s, r) : NeedUpdate(r, Entry(s, j))}
         IN  IF stale = {} THEN UNCHANGED <<heap, rts>>
             ELSE Edit(k, s.arr, [heap[s.arr] EXCEPT ![FirstOf(stale)] = r], s.len)
<1> DEFINE s     == rts[k]
           stale == {j \in EqualAt(s, r) : NeedUpdate(r, Entry(s, j))}
           i     == FirstOf(stale)
           q     == [heap[s.arr] EXCEPT ![i] = r]
<1>1. /\ UNCHANGED rts /\ k \in Keys
      /\ stale = {} => heap' = heap
      /\ stale # {} => heap' = [heap EXCEPT ![s.arr][i] = r]
  BY DEF UpdateEntry, Keys
<1> HIDE DEF i, stale
<1>2. ASSUME stale # {} PROVE Edit(k, s.arr, q, s.len)
  <2>1. /\ s.arr \in Arrays \ LentArrays /\ s \in Slice
        /\ s.len \in Nat /\ s.len <= Len(heap[s.arr])
        /\ heap[s.arr] \in Seq(Slots) /\ r \in Slots
    BY <1>1, KeyIsSlice DEF Slots
  <2>2. q \in Seq(Slots) /\ Len(q) = Len(heap[s.arr])
    BY <2>1, SlotsWritten
  <2>3. heap' = [heap EXCEPT ![s.arr] = q]
    BY <1>1, <1>2
  <2>4. rts' = [rts EXCEPT ![k] = [arr |-> s.arr, len |-> s.len]]
    BY <1>1, <2>1 DEF Slice, TableInv
  <2> HIDE DEF q
  <2>5. Rewritten(heap', s.arr, q, Reachable(rts', lent))
    BY <2>1, <2>3, WriteRewrites DEF TableInv
  <2> QED
    BY <2>1, <2>2, <2>4, <2>5 DEF Edit
<1> QED
  BY <1>1, <1>2 DEF i, stale

\* The new array of an entry that a route was appended to.
Appended(q, old, n, r) ==
  /\ Len(q) \in Nat /\ Len(q) >= n + 1
  /\ \A i \in 1 .. n : q[i] = old[i]
  /\ q[n + 1] = r

\* RegisterRoute of a new instance: append keeps the entries and adds one,
\* whether or not it reallocates.
LEMMA AppendEntryEdit ==
  ASSUME TableInv, NEW k \in Uri, NEW r \in Route, AppendEntry(k, r)
  PROVE  \E a, q :
           /\ a \in Free \cup {rts[k].arr}
           /\ Edit(k, a, q, rts[k].len + 1)
           /\ Appended(q, heap[rts[k].arr], rts[k].len, r)
<1> DEFINE s == rts[k]
           old == heap[s.arr]
<1>0. k \in Keys /\ r \in Slots /\ Nil \in Slots
  BY DEF AppendEntry, Keys, Slots
<1>1. /\ s.arr \in Arrays \ LentArrays /\ s.len \in Nat
      /\ old \in Seq(Slots) /\ Len(old) \in Nat
      /\ heap = [b \in Arrays |-> heap[b]]
      /\ rts \in [Uri -> Slice \cup {NoSlice}]
  BY <1>0, KeyIsSlice DEF TableInv
<1>2. CASE /\ s.len < Len(old)
           /\ heap' = [heap EXCEPT ![s.arr][s.len + 1] = r]
           /\ rts'  = [rts EXCEPT ![k] = [arr |-> s.arr, len |-> s.len + 1]]
  <2> DEFINE q == [old EXCEPT ![s.len + 1] = r]
  <2>1. q \in Seq(Slots) /\ Len(q) = Len(old)
    BY <1>0, <1>1, SlotsWritten
  <2>2. s.len + 1 \in 1 .. Len(old) /\ DOMAIN old = 1 .. Len(old)
    BY <1>1, <1>2, LenProperties
  <2>3. Appended(q, old, s.len, r)
    BY <1>1, <1>2, <2>1, <2>2 DEF Appended
  <2>4. heap' = [heap EXCEPT ![s.arr] = q]
    BY <1>2
  <2> HIDE DEF q
  <2>5. Rewritten(heap', s.arr, q, Reachable(rts', lent))
    BY <1>1, <2>4, WriteRewrites
  <2>6. Edit(k, s.arr, q, s.len + 1)
    BY <1>1, <1>2, <2>1, <2>5 DEF Edit
  <2> QED
    BY <2>3, <2>6
<1>3. ASSUME NEW a \in Free,
             s.len = Len(old),
             rts'  = [rts EXCEPT ![k] = [arr |-> a, len |-> s.len + 1]],
             heap' = Collected([heap EXCEPT ![a] = Grown(old, r)],
                               Reachable(rts', lent))
      PROVE  \E q : /\ Edit(k, a, q, s.len + 1)
                    /\ Appended(q, old, s.len, r)
  <2> DEFINE q == Grown(old, r)
  <2>1. a \in Arrays \ LentArrays
    BY FreeIsUnused
  <2>2. q \in Seq(Slots) /\ Len(q) >= s.len + 1 /\ Appended(q, old, s.len, r)
    <3>1. /\ q \in Seq(Slots) /\ Len(q) >= Len(old) + 1
          /\ \A i \in 1 .. Len(old) : q[i] = old[i]
          /\ q[Len(old) + 1] = r
      BY <1>0, <1>1, GrownSlots
    <3> QED
      BY <1>3, <3>1, LenProperties DEF Appended
  <2> HIDE DEF q
  <2>3. rts' \in [Uri -> Slice \cup {NoSlice}] /\ rts'[k] = [arr |-> a, len |-> s.len + 1]
    BY <1>1, <1>3, <2>1 DEF Slice
  <2>4. a \in Reachable(rts', lent)
    BY <2>1, <2>3, EntryReachable, NoSliceAssumption, <1>1
  <2>5. Rewritten(heap', a, q, Reachable(rts', lent))
    BY <1>1, <1>3, <2>1, <2>4, CollectedRewrites DEF q
  <2>6. Edit(k, a, q, s.len + 1)
    BY <1>1, <1>3, <2>1, <2>2, <2>5 DEF Edit
  <2> QED
    BY <2>2, <2>6
<1> QED
  BY <1>2, <1>3 DEF AppendEntry

\* UnregisterRoute, even of a URI that is not its own key: the last route moves
\* into the hole, its old slot becomes nil, and the shortened slice of the
\* same array is stored under the URI.
LEMMA UnregisterRouteEdit ==
  ASSUME TableInv, NEW uri \in Uri, NEW r, UnregisterRoute(uri, r)
  PROVE  LET s   == rts[RouteKey(uri)]
             i   == FirstOf(EqualAt(s, r))
             old == heap[s.arr]
         IN  IF s = NoSlice \/ EqualAt(s, r) = {} THEN UNCHANGED <<heap, rts>>
             ELSE Edit(uri, s.arr,
                       [[old EXCEPT ![i] = old[s.len]] EXCEPT ![s.len] = Nil], s.len - 1)
<1> DEFINE k   == RouteKey(uri)
           s   == rts[k]
           i   == FirstOf(EqualAt(s, r))
           old == heap[s.arr]
           q1  == [old EXCEPT ![i] = old[s.len]]
           q   == [q1 EXCEPT ![s.len] = Nil]
<1>1. CASE s = NoSlice \/ EqualAt(s, r) = {}
  BY <1>1 DEF UnregisterRoute
<1>2. ASSUME ~ (s = NoSlice \/ EqualAt(s, r) = {})
      PROVE  Edit(uri, s.arr, q, s.len - 1)
  <2>1. /\ rts'  = [rts EXCEPT ![uri] = [arr |-> s.arr, len |-> s.len - 1]]
        /\ heap' = Collected([heap EXCEPT ![s.arr][i]     = old[s.len],
                                          ![s.arr][s.len] = Nil],
                             Reachable(rts', lent))
    BY <1>2 DEF UnregisterRoute, Entry
  <2>2. k \in Keys
    BY <1>2, UriAssumption DEF Keys
  <2>3. /\ s.arr \in Arrays \ LentArrays /\ s.len \in Nat /\ s.len <= Len(old)
        /\ old \in Seq(Slots) /\ Len(old) \in Nat
        /\ heap = [b \in Arrays |-> heap[b]]
        /\ rts \in [Uri -> Slice \cup {NoSlice}]
    BY <2>2, KeyIsSlice DEF TableInv
  <2>4. s.len >= 1
    BY <1>2, <2>3 DEF EqualAt
  <2>5. old[s.len] \in Slots /\ Nil \in Slots
    BY <2>3, <2>4, ElementOfSeq DEF Slots
  <2> HIDE DEF i
  <2>6. q1 \in Seq(Slots) /\ Len(q1) = Len(old)
    <3>1. old \in Seq(Slots) /\ old[s.len] \in Slots
      BY <2>3, <2>5
    <3> HIDE DEF old, s
    <3> QED
      BY <3>1, SlotsWritten
  <2>7. [heap EXCEPT ![s.arr][i] = old[s.len], ![s.arr][s.len] = Nil]
          = [heap EXCEPT ![s.arr] = q]
    BY <2>3
  <2>8. q \in Seq(Slots) /\ Len(q) = Len(old)
    <3> HIDE DEF q1
    <3> QED
      BY <2>5, <2>6, SlotsWritten
  <2> HIDE DEF q
  <2>9. /\ rts' \in [Uri -> Slice \cup {NoSlice}]
        /\ rts'[uri] = [arr |-> s.arr, len |-> s.len - 1]
    BY <2>1, <2>3, <2>4 DEF Slice
  <2>10. s.arr \in Reachable(rts', lent)
    <3>1. rts'[uri] # NoSlice /\ rts'[uri].arr = s.arr
      BY <2>3, <2>4, <2>9, NoSliceAssumption
    <3>2. rts' \in [Uri -> Slice \cup {NoSlice}]
      BY <2>9
    <3>3. rts'[uri].arr \in Reachable(rts', lent)
      BY <3>1, <3>2, EntryReachable
    <3> QED
      BY <3>1, <3>3
  <2>11. Rewritten(heap', s.arr, q, Reachable(rts', lent))
    <3> HIDE DEF s, old
    <3>1. heap' = Collected([heap EXCEPT ![s.arr] = q], Reachable(rts', lent))
      BY <2>1, <2>7
    <3> QED
      BY <2>3, <2>10, <3>1, CollectedRewrites
  <2>12. s.len - 1 \in Nat /\ s.len - 1 <= Len(q)
    BY <2>3, <2>4, <2>8
  <2>13. rts' = [rts EXCEPT ![uri] = [arr |-> s.arr, len |-> s.len - 1]]
    BY <2>1
  <2> HIDE DEF s
  <2> QED
    BY <2>3, <2>8, <2>11, <2>12, <2>13 DEF Edit
<1> QED
  BY <1>1, <1>2

-----------------------------------------------------------------------------
(* Type correctness                                                          *)

\* What is left of a message after one of its URIs.
LEMMA AdvanceType ==
  ASSUME work \in Work(Route), Advance
  PROVE  work' \in Work(Route) \cup {Idle}
<1>1. work.uris \in Seq(Uri) /\ work.uris # << >>
  BY DEF Work
<1>2. CASE Len(work.uris) = 1
  BY <1>2 DEF Advance
<1>3. CASE Len(work.uris) # 1
  <2>1. Tail(work.uris) \in Seq(Uri) /\ Tail(work.uris) # << >>
    <3>1. /\ Tail(work.uris) \in Seq(Uri)
          /\ Len(Tail(work.uris)) = Len(work.uris) - 1
      BY <1>1, HeadTailProperties
    <3>2. Len(work.uris) \in Nat /\ Len(work.uris) # 0
      BY <1>1, EmptySeq, LenProperties
    <3>3. Len(Tail(work.uris)) # 0
      BY <1>3, <3>1, <3>2
    <3>4. Tail(work.uris) # << >>
      BY <3>3, EmptySeq, Zenon
    <3> QED
      BY <3>1, <3>4
  <2>2. work' = [op |-> work.op, route |-> work.route, uris |-> Tail(work.uris)]
    BY <1>3 DEF Advance
  <2> QED
    BY <2>1, <2>2 DEF Work
<1> QED
  BY <1>2, <1>3

\* The table is as before, or one entry is edited.
Edited == UNCHANGED <<heap, rts>> \/ \E u, a, q, n : Edit(u, a, q, n)

\* RegisterRoute is an edit or leaves the table alone.
LEMMA RegisterRouteEdits ==
  ASSUME TableInv, NEW uri \in Uri, NEW r \in Route, RegisterRoute(uri, r)
  PROVE  Edited
<1> DEFINE k == RouteKey(uri)
<1>0. k \in Uri
  BY UriAssumption
<1> HIDE DEF k
<1>1. CASE RegisterNewKey(k, r)
  BY <1>0, <1>1, RegisterNewKeyEdit DEF Edited
<1>2. CASE UpdateEntry(k, r)
  BY <1>0, <1>2, UpdateEntryEdit DEF Edited
<1>3. CASE AppendEntry(k, r)
  BY <1>0, <1>3, AppendEntryEdit DEF Edited
<1> QED
  BY <1>1, <1>2, <1>3 DEF RegisterRoute, k

\* So is every step of the handler, which does not touch what readers hold.
LEMMA HandlerEdits ==
  ASSUME TableInv, work \in Work(Route) \cup {Idle}, FetcherNext
  PROVE  /\ UNCHANGED lent
         /\ work' \in Work(Route) \cup {Idle}
         /\ Edited
<1>1. ASSUME NEW op \in {"register", "unregister"}, NEW m \in Messages, Receive(op, m)
      PROVE  UNCHANGED lent /\ work' \in Work(Route) /\ Edited
  BY <1>1, MessagesAssumption DEF Receive, Work, Route, Edited
<1>2. ASSUME NEW m \in Messages, DropWithoutUris(m)
      PROVE  UNCHANGED <<lent, work>> /\ Edited
  BY <1>2 DEF DropWithoutUris, Edited
<1>3. CASE RegisterNext \/ UnregisterNext
  <2>1. work \in Work(Route) /\ Advance
    BY <1>3 DEF RegisterNext, UnregisterNext
  <2>2. Head(work.uris) \in Uri /\ work.route \in Route
    BY <2>1 DEF Work
  <2>3. work' \in Work(Route) \cup {Idle}
    BY <2>1, AdvanceType
  <2>4. CASE RegisterNext
    BY <2>2, <2>3, <2>4, RegisterRouteEdits DEF RegisterNext, RegisterRoute
  <2>5. CASE UnregisterNext
    <3>1. UNCHANGED lent
      BY <2>5 DEF UnregisterNext, UnregisterRoute
    <3>2. Edited
      BY <2>2, <2>5, UnregisterRouteEdit DEF UnregisterNext, Edited
    <3> QED
      BY <2>3, <3>1, <3>2
  <2> QED
    BY <1>3, <2>4, <2>5
<1> QED
  BY <1>1, <1>2, <1>3 DEF FetcherNext

\* Every step of the handler keeps the table's invariant.
LEMMA HandlerKeepsInv ==
  ASSUME TableInv, work \in Work(Route) \cup {Idle}, FetcherNext
  PROVE  TableInv'
<1>1. /\ UNCHANGED lent
      /\ UNCHANGED <<heap, rts>> \/ \E u, a, q, n : Edit(u, a, q, n)
  BY HandlerEdits DEF Edited
<1>2. CASE UNCHANGED <<heap, rts>>
  BY <1>1, <1>2 DEF TableInv, SlicesFit, Keys, LentArrays, Held, SlicesOf
<1>3. ASSUME NEW u, NEW a, NEW q, NEW n, Edit(u, a, q, n)
      PROVE  TableInv'
  BY <1>1, <1>3, EditKeepsInv
<1> QED
  BY <1>1, <1>2, <1>3

\* Type correctness is inductive together with SlicesFit: UnregisterRoute reads
\* the last entry of a slice, which is a slot only if the slice fits its array.
\* The handler runs without readers here; Requests.tla adds them.
FetcherInv ==
  /\ TableInv
  /\ \A p \in Readers : lent[p] = NoSlice
  /\ work \in Work(Route) \cup {Idle}
  /\ crashed \in BOOLEAN

\* The empty table of NewRoutesFetcher.
LEMMA TableInvInit == TableInit => TableInv
<1> SUFFICES ASSUME TableInit PROVE TableInv
  OBVIOUS
<1>1. << >> \in Seq(Slots)
  OBVIOUS
<1>2. Keys = {}
  BY DEF TableInit, Keys
<1> QED
  BY <1>1, <1>2 DEF TableInit, TableInv, SlicesFit

LEMMA FetcherInvInit == Init => FetcherInv
BY TableInvInit DEF Init, TableInit, FetcherInv

\* Every step of the subscription handler.
LEMMA FetcherInvNext == FetcherInv /\ [FetcherNext]_fetcherVars => FetcherInv'
<1> SUFFICES ASSUME FetcherInv, [FetcherNext]_fetcherVars
             PROVE  FetcherInv'
  OBVIOUS
<1>1. CASE FetcherNext
  <2>1. TableInv' /\ UNCHANGED lent /\ work' \in Work(Route) \cup {Idle}
    BY <1>1, HandlerKeepsInv, HandlerEdits DEF FetcherInv
  <2>2. crashed' \in BOOLEAN
    BY <1>1 DEF FetcherInv, FetcherNext, Receive, DropWithoutUris, RegisterNext, UnregisterNext
  <2> QED
    BY <2>1, <2>2 DEF FetcherInv
<1>2. CASE UNCHANGED fetcherVars
  BY <1>2 DEF fetcherVars, FetcherInv, TableInv, SlicesFit, Keys, LentArrays, Held, SlicesOf
<1> QED
  BY <1>1, <1>2

\* The invariant types every array, as no reader holds one.
LEMMA FetcherInvType == FetcherInv => FetcherTypeOK
<1> SUFFICES ASSUME FetcherInv PROVE FetcherTypeOK
  OBVIOUS
<1>1. LentArrays = {}
  BY DEF FetcherInv, TableInv, LentArrays, Held, SlicesOf
<1>2. heap \in [Arrays -> Seq(Slots)]
  BY <1>1 DEF FetcherInv, TableInv
<1> QED
  BY <1>2 DEF FetcherInv, TableInv, FetcherTypeOK, TableTypeOK, Slots

\* The routing table and the message in hand keep their types whatever is
\* published, URIs that are not keys included; every slice stays within its
\* array.
THEOREM TypeCorrect == FetcherSpec => []FetcherTypeOK
BY FetcherInvInit, FetcherInvNext, FetcherInvType, PTL DEF FetcherSpec

-----------------------------------------------------------------------------
(* Soundness of the table.  A call changes the entry of one key: afterwards  *)
(* it is a slice of length n of an array q that no other entry uses.         *)

Effect(k, q, n) ==
  /\ \A l \in Uri \ {k} :
       /\ rts'[l] = rts[l]
       /\ rts[l] # NoSlice => heap'[rts[l].arr] = heap[rts[l].arr]
  /\ rts'[k] # NoSlice
  /\ rts'[k].len = n
  /\ heap'[rts'[k].arr] = q
  /\ \A l \in Keys \ {k} : rts'[k].arr # rts[l].arr

\* What TableOK says of one entry.
SliceOK(q, n) ==
  /\ n <= Len(q)
  /\ \A i \in 1 .. n : q[i] # Nil
  /\ \A i, j \in 1 .. n : Equal(q[i], q[j]) => i = j

\* The two forms of TableOK.
LEMMA TableOKBySlices ==
  TableOK <=> NoSharing /\ \A k \in Keys : SliceOK(heap[rts[k].arr], rts[k].len)
BY DEF TableOK, SlicesFit, NoNilEntry, OneEntryPerInstance, SliceOK, Entry

\* A call whose new entry is sound keeps the table sound.
LEMMA EffectKeepsTable ==
  ASSUME TableOK, NEW k \in Uri, NEW q, NEW n, Effect(k, q, n), SliceOK(q, n)
  PROVE  TableOK'
<1>1. NoSharing'
  BY DEF NoSharing, TableOK, Effect, Keys
<1>2. ASSUME NEW l \in Keys' PROVE SliceOK(heap'[rts'[l].arr], rts'[l].len)
  <2>1. CASE l = k
    BY <2>1 DEF Effect
  <2>2. CASE l # k
    <3>1. l \in Keys /\ rts'[l] = rts[l] /\ heap'[rts[l].arr] = heap[rts[l].arr]
      BY <2>2 DEF Keys, Effect
    <3> QED
      BY <3>1, TableOKBySlices
  <2> QED
    BY <2>1, <2>2
<1>3. SlicesFit' /\ NoNilEntry' /\ OneEntryPerInstance'
  BY <1>2 DEF SlicesFit, NoNilEntry, OneEntryPerInstance, SliceOK, Entry
<1> QED
  BY <1>1, <1>3 DEF TableOK

\* Such a call is a change of one entry of the abstract table.
LEMMA EffectOnRegistry ==
  ASSUME NEW k \in Uri, NEW q, NEW n, Effect(k, q, n)
  PROVE  Registered' = [Registered EXCEPT ![k] = {q[i] : i \in 1 .. n}]
<1>1. ASSUME NEW l \in Uri \ {k}
      PROVE  Registered'[l] = Registered[l]
  <2>1. rts'[l] = rts[l]
    BY DEF Effect
  <2>2. CASE rts[l] = NoSlice
    BY <2>1, <2>2 DEF Registered
  <2>3. CASE rts[l] # NoSlice
    <3>1. heap'[rts[l].arr] = heap[rts[l].arr]
      BY <2>3 DEF Effect, Keys
    <3>2. Entries(rts[l])' = Entries(rts[l])
      BY <2>1, <3>1 DEF Entries, Entry
    <3> QED
      BY <2>1, <2>3, <3>2 DEF Registered
  <2> QED
    BY <2>2, <2>3
<1>2. Registered'[k] = {q[i] : i \in 1 .. n}
  <2>1. rts'[k] # NoSlice /\ rts'[k].len = n /\ heap'[rts'[k].arr] = q
    BY DEF Effect
  <2>2. Entries(rts[k])' = {q[i] : i \in 1 .. n}
    BY <2>1 DEF Entries, Entry
  <2> QED
    BY <2>1, <2>2 DEF Registered
<1> QED
  BY <1>1, <1>2 DEF Registered

\* In a sound table an instance sits in at most one slot of an entry.
LEMMA OneSlot ==
  ASSUME TableInv, TableOK, NEW k \in Keys, NEW r \in Route, NEW i \in EqualAt(rts[k], r)
  PROVE  EqualAt(rts[k], r) = {i} /\ i \in 1 .. rts[k].len /\ i \in Nat
<1>1. ASSUME NEW j \in EqualAt(rts[k], r) PROVE j = i
  <2>1. i \in 1 .. rts[k].len /\ j \in 1 .. rts[k].len
    BY DEF EqualAt
  <2>2. Equal(Entry(rts[k], i), Entry(rts[k], j))
    BY DEF EqualAt, Equal
  <2> QED
    BY <2>1, <2>2 DEF TableOK, OneEntryPerInstance
<1> QED
  BY <1>1, KeyIsSlice DEF EqualAt

\* An edit of an entry that shares its array with no other has such an effect.
LEMMA EditEffect ==
  ASSUME TableInv, NoSharing, NEW k, NEW a, NEW q, NEW n, Edit(k, a, q, n),
         a \in Free \/ (k \in Keys /\ a = rts[k].arr)
  PROVE  Effect(k, q, n)
<1>1. \A l \in Keys \ {k} : rts[l].arr # a
  BY FreeIsUnused DEF NoSharing
<1>2. k \in Uri
  BY DEF Edit
<1>3. /\ rts'[k] = [arr |-> a, len |-> n] /\ rts'[k] # NoSlice
      /\ heap'[a] = q
      /\ \A l \in Uri \ {k} :
           /\ rts'[l] = rts[l]
           /\ rts[l] # NoSlice /\ rts[l].arr # a => heap'[rts[l].arr] = heap[rts[l].arr]
  BY EditedTable
<1> QED
  BY <1>1, <1>2, <1>3 DEF Effect, Keys

(* The four ways a call changes an entry *)

\* A new key gets a slice of one route in an array nobody uses.
LEMMA RegisterNewKeyEffect ==
  ASSUME TableInv, TableOK, NEW k \in Uri, NEW r \in Route, RegisterNewKey(k, r)
  PROVE  Effect(k, <<r>>, 1) /\ SliceOK(<<r>>, 1)
<1>1. PICK a \in Free : Edit(k, a, <<r>>, 1)
  BY RegisterNewKeyEdit
<1>2. Effect(k, <<r>>, 1)
  BY <1>1, EditEffect DEF TableOK
<1>3. SliceOK(<<r>>, 1)
  BY NilAssumption DEF SliceOK
<1> QED
  BY <1>2, <1>3

\* The known instance with other tags is replaced in its slot.
LEMMA UpdateEntryEffect ==
  ASSUME TableInv, TableOK, NEW k \in Uri, NEW r \in Route, UpdateEntry(k, r),
         NEW i \in EqualAt(rts[k], r), NeedUpdate(r, Entry(rts[k], i))
  PROVE  Effect(k, [heap[rts[k].arr] EXCEPT ![i] = r], rts[k].len)
<1> DEFINE s == rts[k]
           stale == {j \in EqualAt(s, r) : NeedUpdate(r, Entry(s, j))}
<1>1. k \in Keys
  BY DEF UpdateEntry, Keys
<1>2. EqualAt(s, r) = {i} /\ i \in Nat
  BY <1>1, OneSlot
<1>3. stale = {i} /\ stale # {} /\ FirstOf(stale) = i
  BY <1>2, FirstOfSingleton
<1>4. Edit(k, s.arr, [heap[s.arr] EXCEPT ![FirstOf(stale)] = r], s.len)
  BY <1>3, UpdateEntryEdit
<1> QED
  BY <1>1, <1>3, <1>4, EditEffect DEF TableOK

\* append keeps the entries and adds one, whether or not it reallocates.
LEMMA AppendEntryEffect ==
  ASSUME TableInv, TableOK, NEW k \in Uri, NEW r \in Route, AppendEntry(k, r)
  PROVE  \E q : /\ Effect(k, q, rts[k].len + 1)
                /\ Appended(q, heap[rts[k].arr], rts[k].len, r)
<1>1. PICK a, q :
        /\ a \in Free \cup {rts[k].arr}
        /\ Edit(k, a, q, rts[k].len + 1)
        /\ Appended(q, heap[rts[k].arr], rts[k].len, r)
  BY AppendEntryEdit
<1>2. k \in Keys
  BY DEF AppendEntry, Keys
<1>3. Effect(k, q, rts[k].len + 1)
  <2>1. /\ Edit(k, a, q, rts[k].len + 1)
        /\ a \in Free \/ a = rts[k].arr
    BY <1>1
  <2> QED
    BY <1>2, <2>1, EditEffect DEF TableOK
<1> QED
  BY <1>1, <1>3

\* The array of an entry that lost slot i: the last route moved into the hole.
Deleted(q, old, n, i) ==
  /\ Len(old) \in Nat /\ n \in Nat /\ i \in 1 .. n
  /\ Len(q) = Len(old)
  /\ \A j \in 1 .. n - 1 : q[j] = IF j = i THEN old[n] ELSE old[j]

\* Moving the last of n routes to slot i, then clearing its slot, deletes i.
LEMMA SwapDeletes ==
  ASSUME NEW old \in Seq(Slots), NEW n \in 1 .. Len(old), NEW i \in 1 .. n
  PROVE  Deleted([[old EXCEPT ![i] = old[n]] EXCEPT ![n] = Nil], old, n, i)
<1> DEFINE q1 == [old EXCEPT ![i] = old[n]]
           q  == [q1 EXCEPT ![n] = Nil]
<1>1. Len(old) \in Nat /\ DOMAIN old = 1 .. Len(old) /\ old[n] \in Slots /\ Nil \in Slots
  BY LenProperties, ElementOfSeq DEF Slots
<1>2. q1 \in Seq(Slots) /\ Len(q1) = Len(old)
  BY <1>1, SlotsWritten
<1>3. Len(q) = Len(old)
  <2> HIDE DEF q1
  <2> QED
    BY <1>1, <1>2, SlotsWritten
<1>4. ASSUME NEW j \in 1 .. n - 1
      PROVE  q[j] = IF j = i THEN old[n] ELSE old[j]
  <2>1. j \in DOMAIN old /\ j # n
    BY <1>1
  <2> QED
    BY <2>1
<1> QED
  BY <1>3, <1>4 DEF Deleted

\* UnregisterRoute of a URI that is its own key shortens its entry by the slot
\* of the instance and disturbs no other entry.
LEMMA UnregisterRouteEffect ==
  ASSUME TableInv, TableOK, NEW k \in Uri, RouteKey(k) = k, NEW r \in Route,
         UnregisterRoute(k, r), rts[k] # NoSlice, NEW i \in EqualAt(rts[k], r)
  PROVE  \E q : /\ Effect(k, q, rts[k].len - 1)
                /\ Deleted(q, heap[rts[k].arr], rts[k].len, i)
<1> DEFINE s   == rts[k]
           old == heap[s.arr]
           q   == [[old EXCEPT ![i] = old[s.len]] EXCEPT ![s.len] = Nil]
<1>1. k \in Keys
  BY DEF Keys
<1>2. EqualAt(s, r) = {i} /\ EqualAt(s, r) # {} /\ i \in 1 .. s.len
  BY <1>1, OneSlot
<1>3. FirstOf(EqualAt(s, r)) = i
  BY <1>1, <1>2, OneSlot, FirstOfSingleton
<1>4. Edit(k, s.arr, q, s.len - 1)
  BY <1>2, <1>3, UnregisterRouteEdit
<1>5. Deleted(q, old, s.len, i)
  <2>1. old \in Seq(Slots) /\ s.len \in 1 .. Len(old)
    BY <1>1, <1>2, KeyIsSlice
  <2> HIDE DEF s, old
  <2> QED
    BY <1>2, <2>1, SwapDeletes
<1> HIDE DEF q
<1>6. Effect(k, q, s.len - 1)
  BY <1>1, <1>4, EditEffect DEF TableOK
<1> QED
  BY <1>5, <1>6

-----------------------------------------------------------------------------
(* Each of the changed entries is sound, and holds the set the abstract      *)
(* table says.                                                                   *)

FirstN(q, n) == {q[j] : j \in 1 .. n}

KnownIn(S, r) == {x \in S : Equal(r, x)}

\* An instance that is in one slot is one element of the set.
LEMMA KnownIsOne ==
  ASSUME NEW old, NEW n \in Nat, SliceOK(old, n), NEW r, NEW i \in 1 .. n,
         Equal(r, old[i])
  PROVE  KnownIn(FirstN(old, n), r) = {old[i]}
<1>1. ASSUME NEW j \in 1 .. n, Equal(r, old[j]) PROVE j = i
  BY <1>1 DEF SliceOK, Equal
<1> QED
  BY <1>1 DEF KnownIn, FirstN

\* The array of an entry whose slot i was replaced.
Updated(q, old, n, i, r) ==
  /\ Len(q) = Len(old)
  /\ q[i] = r
  /\ \A j \in 1 .. n : j # i => q[j] = old[j]

\* Replacing an instance keeps an entry sound and replaces it in the set.
LEMMA UpdatedSound ==
  ASSUME NEW old \in Seq(Slots), NEW n \in Nat, SliceOK(old, n), NEW r \in Route,
         NEW i \in 1 .. n, Equal(r, old[i]), NEW q, Updated(q, old, n, i, r)
  PROVE  /\ SliceOK(q, n)
         /\ FirstN(q, n) = (FirstN(old, n) \ KnownIn(FirstN(old, n), r)) \cup {r}
<1>1. i \in 1 .. Len(old) /\ n <= Len(old) /\ Len(old) \in Nat
  BY LenProperties DEF SliceOK
<1>2. Len(q) = Len(old) /\ q[i] = r /\ \A j \in 1 .. n : j # i => q[j] = old[j]
  BY DEF Updated
<1>3. r # Nil
  BY NilAssumption
<1>4. SliceOK(q, n)
  <2>1. \A j \in 1 .. n : q[j] # Nil
    BY <1>2, <1>3 DEF SliceOK
  <2>2. ASSUME NEW j \in 1 .. n, NEW l \in 1 .. n, Equal(q[j], q[l])
        PROVE  j = l
    <3>1. Equal(old[j], old[l])
      BY <1>2, <1>3, <2>2 DEF SliceOK, Equal
    <3> QED
      BY <3>1 DEF SliceOK
  <2> QED
    BY <1>1, <1>2, <2>1, <2>2 DEF SliceOK
<1>5. \A j \in 1 .. n : old[j] = old[i] => j = i
  BY DEF SliceOK, Equal
<1>6. FirstN(q, n) = (FirstN(old, n) \ {old[i]}) \cup {r}
  BY <1>2, <1>5 DEF FirstN
<1> QED
  BY <1>4, <1>6, KnownIsOne

\* Appending a new instance keeps an entry sound and adds it to the set.
LEMMA AppendedSound ==
  ASSUME NEW old, NEW n \in Nat, SliceOK(old, n), NEW r \in Route, NEW q,
         \A i \in 1 .. n : ~ Equal(r, old[i]), Appended(q, old, n, r)
  PROVE  /\ SliceOK(q, n + 1)
         /\ KnownIn(FirstN(old, n), r) = {}
         /\ FirstN(q, n + 1) = FirstN(old, n) \cup {r}
<1>1. r # Nil
  BY NilAssumption
<1>2. SliceOK(q, n + 1)
  <2>1. \A j \in 1 .. n + 1 : q[j] # Nil
    BY <1>1 DEF SliceOK, Appended
  <2>2. ASSUME NEW j \in 1 .. n + 1, NEW l \in 1 .. n + 1, Equal(q[j], q[l])
        PROVE  j = l
    <3>1. CASE j \in 1 .. n /\ l \in 1 .. n
      BY <2>2, <3>1 DEF SliceOK, Appended
    <3>2. CASE j = n + 1 /\ l \in 1 .. n
      BY <2>2, <3>2 DEF Appended
    <3>3. CASE j \in 1 .. n /\ l = n + 1
      <4>1. old[j] # Nil /\ ~ Equal(r, old[j])
        BY <3>3 DEF SliceOK
      <4> QED
        BY <2>2, <3>3, <4>1, <1>1 DEF Appended, Equal
    <3> QED
      BY <3>1, <3>2, <3>3
  <2> QED
    BY <2>1, <2>2 DEF SliceOK, Appended
<1>3. FirstN(q, n + 1) = FirstN(old, n) \cup {r}
  <2>1. 1 .. n + 1 = (1 .. n) \cup {n + 1}
    OBVIOUS
  <2>2. \A j \in 1 .. n : q[j] = old[j]
    BY DEF Appended
  <2>3. q[n + 1] = r
    BY DEF Appended
  <2>4. {q[j] : j \in 1 .. n} = FirstN(old, n)
    BY <2>2 DEF FirstN
  <2>5. FirstN(q, n + 1) = {q[j] : j \in (1 .. n) \cup {n + 1}}
    BY <2>1 DEF FirstN
  <2> QED
    BY <2>3, <2>4, <2>5
<1>4. KnownIn(FirstN(old, n), r) = {}
  BY DEF KnownIn, FirstN
<1> QED
  BY <1>2, <1>3, <1>4

\* q has the routes of old, except the instance of r.
Without(q, old, n, r) ==
  FirstN(q, n - 1) = FirstN(old, n) \ KnownIn(FirstN(old, n), r)

\* Swap-and-shorten keeps an entry sound and removes exactly the instance.
LEMMA DeletedSound ==
  ASSUME NEW old, NEW n, SliceOK(old, n), NEW r, NEW i, Equal(r, old[i]),
         NEW q, Deleted(q, old, n, i)
  PROVE  SliceOK(q, n - 1) /\ Without(q, old, n, r)
<1>0. /\ n \in Nat /\ i \in 1 .. n
      /\ Len(old) \in Nat /\ Len(q) = Len(old)
      /\ \A j \in 1 .. n - 1 : q[j] = IF j = i THEN old[n] ELSE old[j]
  BY DEF Deleted
<1> DEFINE from(j) == IF j = i THEN n ELSE j
<1>1. ASSUME NEW j \in 1 .. n - 1
      PROVE  q[j] = old[from(j)] /\ from(j) \in 1 .. n /\ from(j) # i
  BY <1>0
<1>2. \A j, l \in 1 .. n - 1 : from(j) = from(l) => j = l
  BY <1>0
<1>3. \A l \in 1 .. n : l # i => \E j \in 1 .. n - 1 : from(j) = l
  <2> SUFFICES ASSUME NEW l \in 1 .. n, l # i
               PROVE  \E j \in 1 .. n - 1 : from(j) = l
    OBVIOUS
  <2>1. CASE l = n
    <3>1. i \in 1 .. n - 1 /\ from(i) = l
      BY <1>0, <2>1
    <3> QED
      BY <3>1
  <2>2. CASE l # n
    <3>1. l \in 1 .. n - 1 /\ from(l) = l
      BY <1>0, <2>2
    <3> QED
      BY <3>1
  <2> QED
    BY <2>1, <2>2
<1> HIDE DEF from
<1>4. SliceOK(q, n - 1)
  <2>1. n - 1 <= Len(q)
    BY <1>0 DEF SliceOK
  <2>2. \A j \in 1 .. n - 1 : q[j] # Nil
    BY <1>0, <1>1 DEF SliceOK
  <2>3. \A j, l \in 1 .. n - 1 : Equal(q[j], q[l]) => j = l
    BY <1>0, <1>1, <1>2 DEF SliceOK
  <2> QED
    BY <2>1, <2>2, <2>3 DEF SliceOK
<1>5. \A j \in 1 .. n : old[j] = old[i] => j = i
  BY <1>0 DEF SliceOK, Equal
<1>6. FirstN(q, n - 1) = FirstN(old, n) \ {old[i]}
  <2>1. ASSUME NEW x \in FirstN(q, n - 1)
        PROVE  x \in FirstN(old, n) \ {old[i]}
    <3>1. PICK j \in 1 .. n - 1 : x = q[j]
      BY DEF FirstN
    <3> QED
      BY <3>1, <1>1, <1>5 DEF FirstN
  <2>2. ASSUME NEW x \in FirstN(old, n) \ {old[i]}
        PROVE  x \in FirstN(q, n - 1)
    <3>1. PICK l \in 1 .. n : x = old[l] /\ l # i
      BY DEF FirstN
    <3>2. PICK j \in 1 .. n - 1 : from(j) = l
      BY <3>1, <1>3
    <3> QED
      BY <3>1, <3>2, <1>1 DEF FirstN
  <2> QED
    BY <2>1, <2>2
<1> QED
  BY <1>0, <1>4, <1>6, KnownIsOne DEF Without

-----------------------------------------------------------------------------
(* The calls, on the table and on the abstract table                         *)

\* An entry of a sound table, as the lemmas above need it.
LEMMA EntrySound ==
  ASSUME TableInv, TableOK, NEW k \in Keys
  PROVE  /\ SliceOK(heap[rts[k].arr], rts[k].len)
         /\ rts[k].len \in Nat
         /\ heap[rts[k].arr] \in Seq(Slots) /\ Len(heap[rts[k].arr]) \in Nat
         /\ Registered[k] = FirstN(heap[rts[k].arr], rts[k].len)
BY KeyIsSlice, TableOKBySlices
DEF TableInv, Keys, Registered, Entries, Entry, FirstN

\* The abstract table and the model agree on which entries are of an instance.
LEMMA KnownByKnownIn ==
  ASSUME NEW k, NEW r
  PROVE  Registry!Known(k, r) = KnownIn(Registered[k], r)
BY DEF Registry!Known, Registry!Equal, KnownIn, Equal

\* RegisterRoute keeps the table sound and is Register of the abstract table.
LEMMA RegisterRouteSound ==
  ASSUME TableInv, TableOK, NEW uri \in Uri, NEW r \in Route, RegisterRoute(uri, r)
  PROVE  TableOK' /\ Registry!Register(RouteKey(uri), r)
<1> DEFINE k == RouteKey(uri)
           s == rts[k]
           new == (Registered[k] \ KnownIn(Registered[k], r)) \cup {r}
<1>0. k \in Uri
  BY UriAssumption
<1> HIDE DEF k
<1>1. CASE RegisterNewKey(k, r)
  <2>1. Effect(k, <<r>>, 1) /\ SliceOK(<<r>>, 1)
    BY <1>0, <1>1, RegisterNewKeyEffect
  <2>2. TableOK'
    BY <1>0, <2>1, EffectKeepsTable
  <2>3. Registered' = [Registered EXCEPT ![k] = {<<r>>[i] : i \in 1 .. 1}]
    BY <1>0, <2>1, EffectOnRegistry
  <2>4. {<<r>>[i] : i \in 1 .. 1} = {r}
    OBVIOUS
  <2>5. Registered[k] = {}
    BY <1>0, <1>1 DEF RegisterNewKey, Registered
  <2>6. Registry!Known(k, r) = {} /\ Registered' = [Registered EXCEPT ![k] = new]
    BY <2>3, <2>4, <2>5, KnownByKnownIn DEF KnownIn
  <2> QED
    BY <2>2, <2>6, KnownByKnownIn DEF Registry!Register, k
<1>2. CASE UpdateEntry(k, r)
  <2>1. k \in Keys /\ EqualAt(s, r) # {}
    BY <1>0, <1>2 DEF UpdateEntry, Keys
  <2>2. PICK i \in EqualAt(s, r) : TRUE
    BY <2>1
  <2>3. EqualAt(s, r) = {i} /\ i \in 1 .. s.len /\ Equal(r, heap[s.arr][i])
    BY <2>1, <2>2, OneSlot DEF EqualAt, Entry
  <2>4. Registry!Known(k, r) = {heap[s.arr][i]}
    BY <2>1, <2>3, EntrySound, KnownIsOne, KnownByKnownIn
  <2>5. CASE NeedUpdate(r, Entry(s, i))
    <3> DEFINE q == [heap[s.arr] EXCEPT ![i] = r]
    <3>1. Effect(k, q, s.len)
      BY <1>0, <1>2, <2>2, <2>5, UpdateEntryEffect
    <3>2. SliceOK(q, s.len) /\ FirstN(q, s.len) = new
      <4> DEFINE old == heap[s.arr]
                 n == s.len
      <4>1. /\ old \in Seq(Slots) /\ n \in Nat /\ SliceOK(old, n)
            /\ Registered[k] = FirstN(old, n)
        BY <2>1, EntrySound
      <4>2. i \in 1 .. n /\ Equal(r, old[i])
        BY <2>3
      <4>3. i \in 1 .. Len(old) /\ n <= Len(old) /\ Len(old) \in Nat
        BY <4>1, <4>2, LenProperties DEF SliceOK
      <4>4. Updated(q, old, n, i, r)
        BY <4>1, <4>3, ExceptSeq DEF Updated, Slots
      <4> HIDE DEF old, n, q
      <4>5. /\ SliceOK(q, n)
            /\ FirstN(q, n) = (FirstN(old, n) \ KnownIn(FirstN(old, n), r)) \cup {r}
        BY <4>1, <4>2, <4>4, UpdatedSound
      <4> QED
        BY <4>1, <4>5 DEF n
    <3> HIDE DEF q, new
    <3>3. TableOK'
      BY <1>0, <3>1, <3>2, EffectKeepsTable
    <3>4. Registered' = [Registered EXCEPT ![k] = FirstN(q, s.len)]
      BY <1>0, <3>1, EffectOnRegistry DEF FirstN
    <3>5. \E x \in Registry!Known(k, r) : Registry!NeedUpdate(r, x)
      BY <2>4, <2>5 DEF Entry, NeedUpdate, Registry!NeedUpdate
    <3> QED
      BY <3>2, <3>3, <3>4, <3>5, KnownByKnownIn DEF Registry!Register, k, new
  <2>6. CASE ~ NeedUpdate(r, Entry(s, i))
    <3>1. UNCHANGED <<heap, rts>>
      <4>1. {j \in EqualAt(s, r) : NeedUpdate(r, Entry(s, j))} = {}
        BY <2>3, <2>6
      <4> QED
        BY <1>2, <4>1 DEF UpdateEntry
    <3>2. TableOK' /\ Registered' = Registered
      BY <3>1 DEF TableOK, SlicesFit, NoSharing, NoNilEntry, OneEntryPerInstance,
                  Keys, Entry, Entries, Registered
    <3>3. \A x \in Registry!Known(k, r) : ~ Registry!NeedUpdate(r, x)
      BY <2>4, <2>6 DEF Entry, NeedUpdate, Registry!NeedUpdate
    <3> QED
      BY <2>4, <3>2, <3>3 DEF Registry!Register, k
  <2> QED
    BY <2>5, <2>6
<1>3. CASE AppendEntry(k, r)
  <2>1. k \in Keys /\ EqualAt(s, r) = {}
    BY <1>0, <1>3 DEF AppendEntry, Keys
  <2>2. PICK q : Effect(k, q, s.len + 1) /\ Appended(q, heap[s.arr], s.len, r)
    BY <1>0, <1>3, AppendEntryEffect
  <2>3. \A i \in 1 .. s.len : ~ Equal(r, heap[s.arr][i])
    BY <2>1 DEF EqualAt, Entry
  <2>4. /\ SliceOK(q, s.len + 1)
        /\ KnownIn(Registered[k], r) = {}
        /\ FirstN(q, s.len + 1) = Registered[k] \cup {r}
    <3>1. /\ s.len \in Nat /\ SliceOK(heap[s.arr], s.len)
          /\ Registered[k] = FirstN(heap[s.arr], s.len)
      BY <2>1, EntrySound
    <3>2. /\ SliceOK(q, s.len + 1)
          /\ KnownIn(FirstN(heap[s.arr], s.len), r) = {}
          /\ FirstN(q, s.len + 1) = FirstN(heap[s.arr], s.len) \cup {r}
      BY <2>2, <2>3, <3>1, AppendedSound
    <3> QED
      BY <3>1, <3>2
  <2>5. TableOK'
    BY <1>0, <2>2, <2>4, EffectKeepsTable
  <2>6. Registered' = [Registered EXCEPT ![k] = FirstN(q, s.len + 1)]
    BY <1>0, <2>2, EffectOnRegistry DEF FirstN
  <2>7. Registry!Known(k, r) = {} /\ Registered' = [Registered EXCEPT ![k] = new]
    BY <2>4, <2>6, KnownByKnownIn
  <2> QED
    BY <2>5, <2>7, KnownByKnownIn DEF Registry!Register, k
<1> QED
  BY <1>1, <1>2, <1>3 DEF RegisterRoute, k

\* UnregisterRoute of a URI that is its own key does the same for Unregister.
LEMMA UnregisterRouteSound ==
  ASSUME TableInv, TableOK, NEW k \in Uri, RouteKey(k) = k, NEW r \in Route,
         UnregisterRoute(k, r)
  PROVE  TableOK' /\ Registry!Unregister(k, r)
<1> DEFINE s == rts[k]
<1>1. CASE s = NoSlice \/ EqualAt(s, r) = {}
  <2>1. UNCHANGED <<heap, rts>>
    BY <1>1 DEF UnregisterRoute
  <2>2. TableOK' /\ Registered' = Registered
    BY <2>1 DEF TableOK, SlicesFit, NoSharing, NoNilEntry, OneEntryPerInstance,
                Keys, Entry, Entries, Registered
  <2>3. KnownIn(Registered[k], r) = {}
    BY <1>1 DEF KnownIn, Registered, Entries, EqualAt
  <2>4. Registered' = [Registered EXCEPT ![k] = @ \ KnownIn(Registered[k], r)]
    BY <2>2, <2>3 DEF Registered
  <2> QED
    BY <2>2, <2>4, KnownByKnownIn DEF Registry!Unregister
<1>2. CASE s # NoSlice /\ EqualAt(s, r) # {}
  <2>1. k \in Keys
    BY <1>2 DEF Keys
  <2>2. PICK i \in EqualAt(s, r) : TRUE
    BY <1>2
  <2>3. i \in 1 .. s.len /\ Equal(r, heap[s.arr][i])
    BY <2>1, <2>2, OneSlot DEF EqualAt, Entry
  <2>4. PICK q : Effect(k, q, s.len - 1) /\ Deleted(q, heap[s.arr], s.len, i)
    BY <1>2, <2>2, UnregisterRouteEffect
  <2>5. /\ SliceOK(q, s.len - 1)
        /\ FirstN(q, s.len - 1) = Registered[k] \ KnownIn(Registered[k], r)
    <3> DEFINE old == heap[s.arr]
               n == s.len
    <3>1. /\ n \in Nat /\ SliceOK(old, n) /\ Len(old) \in Nat
          /\ Registered[k] = FirstN(old, n)
      BY <2>1, EntrySound
    <3>2. i \in 1 .. n /\ Equal(r, old[i]) /\ Deleted(q, old, n, i)
      BY <2>3, <2>4
    <3> HIDE DEF old, n, s
    <3>3. SliceOK(q, n - 1) /\ Without(q, old, n, r)
      <4>1. SliceOK(old, n) /\ Equal(r, old[i]) /\ Deleted(q, old, n, i)
        BY <3>1, <3>2
      <4> QED
        BY <4>1, DeletedSound
    <3> QED
      BY <3>1, <3>3 DEF n, Without
  <2>6. TableOK'
    BY <2>4, <2>5, EffectKeepsTable
  <2>7. Registered' = [Registered EXCEPT ![k] = FirstN(q, s.len - 1)]
    BY <2>4, EffectOnRegistry DEF FirstN
  <2> QED
    BY <2>5, <2>6, <2>7, KnownByKnownIn DEF Registry!Unregister
<1> QED
  BY <1>1, <1>2

-----------------------------------------------------------------------------
(* The theorems                                                              *)

\* The empty table is sound.
LEMMA TableOKInit == Init => TableOK
BY DEF Init, TableInit, TableOK, SlicesFit, NoSharing, NoNilEntry,
       OneEntryPerInstance, Keys

\* One step of the subscription handler keeps the table sound and is a step of
\* the abstract table, or changes neither.
LEMMA HandlerStep ==
  ASSUME NormalUris, TableInv, TableOK, work \in Work(Route) \cup {Idle},
         [FetcherNext]_fetcherVars
  PROVE  TableOK' /\ [Registry!Next]_<<Registered, work>>
<1>1. ASSUME UNCHANGED <<heap, rts>> PROVE TableOK' /\ UNCHANGED Registered
  BY <1>1 DEF TableOK, SlicesFit, NoSharing, NoNilEntry, OneEntryPerInstance,
              Keys, Entry, Entries, Registered
<1>2. ASSUME NEW op \in {"register", "unregister"}, NEW m \in Messages, Receive(op, m)
      PROVE  TableOK' /\ Registry!Next
  <2>1. work' \in Work(Route)
    BY <1>2, MessagesAssumption DEF Receive, Work, Route
  <2>2. work = Idle /\ UNCHANGED <<heap, rts>>
    BY <1>2 DEF Receive
  <2>3. Registry!Deliver
    BY <1>1, <2>1, <2>2 DEF Registry!Deliver, Work
  <2> QED
    BY <1>1, <2>2, <2>3 DEF Registry!Next
<1>3. CASE RegisterNext \/ UnregisterNext
  <2> DEFINE uri == Head(work.uris)
  <2>1. work \in Work(Route) /\ work # Idle /\ Advance
    BY <1>3 DEF RegisterNext, UnregisterNext
  <2>2. uri \in Uri /\ work.route \in Route
    BY <2>1 DEF Work
  <2>3. RouteKey(uri) = uri
    BY <2>2 DEF NormalUris
  <2> HIDE DEF uri
  <2>4. CASE RegisterNext
    <3>1. TableOK' /\ Registry!Register(RouteKey(uri), work.route)
      BY <2>2, <2>4, RegisterRouteSound DEF RegisterNext, uri
    <3>2. work.op = "register"
      BY <2>4 DEF RegisterNext
    <3> QED
      BY <2>1, <3>1, <3>2 DEF Registry!Next, Registry!Handle, Advance, uri
  <2>5. CASE UnregisterNext
    <3>1. TableOK' /\ Registry!Unregister(RouteKey(uri), work.route)
      BY <2>2, <2>3, <2>5, UnregisterRouteSound DEF UnregisterNext, uri
    <3>2. work.op = "unregister"
      BY <2>5 DEF UnregisterNext
    <3> QED
      BY <2>1, <3>1, <3>2 DEF Registry!Next, Registry!Handle, Advance, uri
  <2> QED
    BY <1>3, <2>4, <2>5
<1>4. CASE UNCHANGED <<heap, rts, work>>
  BY <1>1, <1>4
<1> QED
  BY <1>2, <1>3, <1>4 DEF FetcherNext, DropWithoutUris, fetcherVars

\* While every URI in use is its own key, the routing table is sound after any
\* sequence of messages, for any number of URIs, instances and arrays.
THEOREM TableSound == NormalUris => (FetcherSpec => []TableOK)
<1> SUFFICES ASSUME NormalUris PROVE FetcherSpec => []TableOK
  OBVIOUS
<1>1. Init => FetcherInv /\ TableOK
  BY FetcherInvInit, TableOKInit
<1>2. FetcherInv /\ TableOK /\ [FetcherNext]_fetcherVars => (FetcherInv /\ TableOK)'
  BY FetcherInvNext, HandlerStep DEF FetcherInv
<1> QED
  BY <1>1, <1>2, PTL DEF FetcherSpec

\* Under the same condition the slices implement the abstract table of sets:
\* every message is applied, URI by URI, exactly as RouteRegistry says.
THEOREM Refinement == NormalUris => (FetcherSpec => ImplementsRegistry)
<1> SUFFICES ASSUME NormalUris PROVE FetcherSpec => ImplementsRegistry
  OBVIOUS
<1>1. Init => FetcherInv /\ TableOK
  BY FetcherInvInit, TableOKInit
<1>2. FetcherInv /\ TableOK /\ [FetcherNext]_fetcherVars => (FetcherInv /\ TableOK)'
  BY FetcherInvNext, HandlerStep DEF FetcherInv
<1>3. Init => Registry!Init
  BY DEF Init, TableInit, Registry!Init, Registered
<1>4. FetcherInv /\ TableOK /\ [FetcherNext]_fetcherVars
        => [Registry!Next]_<<Registered, work>>
  BY HandlerStep DEF FetcherInv
<1> QED
  BY <1>1, <1>2, <1>3, <1>4, PTL DEF FetcherSpec, ImplementsRegistry, Registry!Spec
=============================================================================
