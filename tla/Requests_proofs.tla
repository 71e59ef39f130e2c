-------------------------- MODULE Requests_proofs --------------------------
(***************************************************************************)
(* Proofs about Requests.tla, for any number of requests, routes, URIs and *)
(* exporters, when every query is by application id or by path             *)
(* (OwnQueries).  A request then works on a slice of its own, and nothing  *)
(* it does reaches the table; the run shared_append is a counterexample    *)
(* without that hypothesis.                                                *)
(***************************************************************************)
EXTENDS Requests, RoutesFetcher_proofs, FiniteSetTheorems

-----------------------------------------------------------------------------
(* Sequences and finite sets *)

AllRoutes == Route \cup ExporterRoute

AllSlots == AllRoutes \cup {Nil}

\* The elements of a sequence are finitely many.
LEMMA ElementsFinite ==
  ASSUME NEW n \in Nat, NEW q
  PROVE  IsFiniteSet({q[i] : i \in 1 .. n})
<1> DEFINE f == [i \in 1 .. n |-> q[i]]
           T == {q[i] : i \in 1 .. n}
<1>1. f \in Surjection(1 .. n, T)
  BY DEF Surjection
<1>2. IsFiniteSet(1 .. n)
  BY FS_Interval
<1> HIDE DEF f, T
<1>3. IsFiniteSet(T)
  BY <1>1, <1>2, FS_Surjection
<1> QED
  BY <1>3 DEF T

\* SetToSeqs enumerates a finite set: every element once.
LEMMA SetToSeqsEnumerates ==
  ASSUME NEW R, IsFiniteSet(R), NEW s \in SetToSeqs(R)
  PROVE  /\ s \in Seq(R)
         /\ \A r \in R : \E i \in 1 .. Len(s) : s[i] = r
         /\ \A i, j \in 1 .. Len(s) : s[i] = s[j] => i = j
<1> DEFINE n == Cardinality(R)
<1>1. n \in Nat
  BY FS_CardinalityType
<1>2. s \in [1 .. n -> R] /\ \A i, j \in 1 .. n : i # j => s[i] # s[j]
  BY DEF SetToSeqs
<1>3. s \in Seq(R) /\ Len(s) = n
  BY <1>1, <1>2, SeqDef, LenProperties
<1>4. ASSUME NEW r \in R, \A i \in 1 .. n : s[i] # r PROVE FALSE
  <2>1. IsFiniteSet(R \ {r}) /\ Cardinality(R \ {r}) = n - 1
    BY FS_RemoveElement
  <2>2. IsFiniteSet(1 .. n) /\ Cardinality(1 .. n) = n
    BY <1>1, FS_Interval
  <2>3. s \in [1 .. n -> R \ {r}]
    BY <1>2, <1>4
  <2>4. Cardinality(R \ {r}) < Cardinality(1 .. n)
    BY <1>1, <2>1, <2>2
  <2> HIDE DEF n
  <2>5. \E x, y \in 1 .. n : x # y /\ s[x] = s[y]
    BY <2>1, <2>2, <2>3, <2>4, FS_PigeonHole
  <2> QED
    BY <1>2, <2>5
<1> QED
  BY <1>2, <1>3, <1>4

\* A power of two lies between any number up to 256 and its double.
LEMMA BuiltCapBounds ==
  ASSUME NEW n \in Nat, n # 0
  PROVE  BuiltCap(n) \in Nat /\ BuiltCap(n) >= n
<1>1. \E c \in n .. 2 * n - 1 : n > 256 \/ c \in {1, 2, 4, 8, 16, 32, 64, 128, 256}
  <2>1. CASE n > 256
    <3>1. n \in n .. 2 * n - 1
      BY <2>1
    <3> QED
      BY <2>1, <3>1
  <2>2. CASE n <= 256
    <3>1. PICK c \in {1, 2, 4, 8, 16, 32, 64, 128, 256} : n <= c /\ c < 2 * n
      BY <2>2
    <3>2. c \in n .. 2 * n - 1
      BY <3>1
    <3> QED
      BY <3>2
  <2> QED
    BY <2>1, <2>2
<1>2. BuiltCap(n) \in n .. 2 * n - 1
  BY <1>1 DEF BuiltCap
<1> QED
  BY <1>2

\* The array a lookup builds: the routes found, then nil.
LEMMA BuiltArray ==
  ASSUME NEW S, Nil \in S, NEW s \in Seq(S), s # << >>
  PROVE  /\ Built(s) \in Seq(S)
         /\ Len(Built(s)) \in Nat /\ Len(Built(s)) >= Len(s)
         /\ \A i \in 1 .. Len(s) : Built(s)[i] = s[i]
<1> DEFINE n == BuiltCap(Len(s))
           e(i) == IF i <= Len(s) THEN s[i] ELSE Nil
<1>1. Len(s) \in Nat /\ Len(s) # 0 /\ \A i \in 1 .. Len(s) : s[i] \in S
  BY EmptySeq, LenProperties, ElementOfSeq
<1>2. n \in Nat /\ n >= Len(s)
  BY <1>1, BuiltCapBounds
<1>3. \A i \in 1 .. n : e(i) \in S
  BY <1>1, <1>2
<1>4. Built(s) = [i \in 1 .. n |-> e(i)]
  BY DEF Built
<1>5. Built(s) \in Seq(S)
  <2> HIDE DEF e, n
  <2> QED BY <1>2, <1>3, <1>4, IsASeq
<1>6. Len(Built(s)) = n
  <2> HIDE DEF e
  <2>1. DOMAIN Built(s) = 1 .. n
    BY <1>4
  <2> QED
    BY <1>2, <1>5, <2>1, LenProperties
<1> QED
  BY <1>1, <1>2, <1>4, <1>5, <1>6

-----------------------------------------------------------------------------
(* The table *)

\* r is a route that an entry of map t has in its slice, with arrays h.
Stored(h, t, r) ==
  /\ r # Nil
  /\ \E k \in Uri : t[k] # NoSlice /\ \E i \in 1 .. t[k].len : r = h[t[k].arr][i]

\* What it is to be in the table, now and after a step.
LEMMA InTable == \A r : r \in Table <=> Stored(heap, rts, r)
<1> DEFINE K == {u \in Uri : rts[u] # NoSlice}
           F == {Entries(rts[k]) : k \in K}
<1>1. ASSUME NEW r
      PROVE  r \in UNION F
               <=> \E k \in K : \E i \in 1 .. rts[k].len : r = heap[rts[k].arr][i]
  BY DEF Entries, Entry
<1>2. Table = (UNION F) \ {Nil}
  BY DEF Table
<1> HIDE DEF F
<1>3. ASSUME NEW r PROVE r \in Table <=> Stored(heap, rts, r)
  <2>1. r \in Table <=> r \in UNION F /\ r # Nil
    BY <1>2
  <2> QED
    BY <2>1, <1>1 DEF Stored
<1> QED
  BY <1>3

LEMMA InTableNext == \A r : r \in Table' <=> Stored(heap', rts', r)
<1> DEFINE K == {u \in Uri : rts'[u] # NoSlice}
           F == {Entries(rts[k])' : k \in K}
<1>1. ASSUME NEW r
      PROVE  r \in UNION F
               <=> \E k \in K : \E i \in 1 .. rts'[k].len : r = heap'[rts'[k].arr][i]
  BY DEF Entries, Entry
<1>2. Table' = (UNION F) \ {Nil}
  BY DEF Table
<1> HIDE DEF F
<1>3. ASSUME NEW r PROVE r \in Table' <=> Stored(heap', rts', r)
  <2>1. r \in Table' <=> r \in UNION F /\ r # Nil
    BY <1>2
  <2> QED
    BY <2>1, <1>1 DEF Stored
<1> QED
  BY <1>3

\* The table holds routes of messages, whatever readers hold.
LEMMA TableOfRoutes ==
  ASSUME TableInv
  PROVE  Table \subseteq Route
BY InTable, EntryIsSlot DEF Stored, Entry, Slots, Keys

\* It stays finite: an edit adds at most what it wrote.
LEMMA EditKeepsFinite ==
  ASSUME TableInv, IsFiniteSet(Table), NEW u, NEW a, NEW q, NEW n, Edit(u, a, q, n)
  PROVE  IsFiniteSet(Table')
<1> DEFINE W == {q[i] : i \in 1 .. Len(q)}
<1>0. /\ u \in Uri /\ n \in Nat /\ n <= Len(q) /\ Len(q) \in Nat
      /\ a \in Free \/ Len(q) = Len(heap[a])
  BY LenProperties DEF Edit
<1>1. /\ rts'[u] = [arr |-> a, len |-> n] /\ heap'[a] = q
      /\ \A l \in Uri \ {u} :
           /\ rts'[l] = rts[l]
           /\ rts[l] # NoSlice /\ rts[l].arr # a => heap'[rts[l].arr] = heap[rts[l].arr]
  BY EditedTable
<1>2. ASSUME NEW k \in Uri, rts'[k] # NoSlice, NEW i \in 1 .. rts'[k].len,
             heap'[rts'[k].arr][i] # Nil
      PROVE  heap'[rts'[k].arr][i] \in Table \cup W
  <2>1. CASE k = u
    BY <2>1, <1>0, <1>1
  <2>2. CASE k # u
    <3>1. k \in Keys /\ rts'[k] = rts[k] /\ i \in 1 .. rts[k].len
      BY <1>1, <1>2, <2>2 DEF Keys
    <3>2. CASE rts[k].arr = a
      <4>1. i \in 1 .. Len(q)
        BY <1>0, <3>1, <3>2, KeyIsSlice, FreeIsUnused
      <4> QED
        BY <3>1, <3>2, <4>1, <1>1
    <3>3. CASE rts[k].arr # a
      <4>1. heap'[rts'[k].arr][i] = Entry(rts[k], i)
        BY <3>1, <3>3, <2>2, <1>1 DEF Keys, Entry
      <4> QED
        BY <1>2, <3>1, <4>1, InTable DEF Stored, Entry, Keys
    <3> QED
      BY <3>2, <3>3
  <2> QED
    BY <2>1, <2>2
<1>3. Table' \subseteq Table \cup W
  <2> HIDE DEF W
  <2> QED
    BY <1>2, InTableNext DEF Stored
<1>4. IsFiniteSet(W)
  BY <1>0, ElementsFinite
<1> HIDE DEF W
<1> QED
  BY <1>3, <1>4, FS_Union, FS_Subset

\* A step of the handler keeps the table finite and leaves alone what requests
\* hold.
LEMMA HandlerLeavesLent ==
  ASSUME TableInv, IsFiniteSet(Table), work \in Work(Route) \cup {Idle}, FetcherNext
  PROVE  IsFiniteSet(Table') /\ \A b \in LentArrays : heap'[b] = heap[b]
<1>1. UNCHANGED <<heap, rts>> \/ \E u, a, q, n : Edit(u, a, q, n)
  BY HandlerEdits DEF Edited
<1>2. CASE UNCHANGED <<heap, rts>>
  BY <1>2 DEF Table, Entries, Entry
<1>3. ASSUME NEW u, NEW a, NEW q, NEW n, Edit(u, a, q, n)
      PROVE  IsFiniteSet(Table') /\ \A b \in LentArrays : heap'[b] = heap[b]
  BY <1>3, EditKeepsFinite, EditedTable
<1> QED
  BY <1>1, <1>2, <1>3

-----------------------------------------------------------------------------
(* What a request does to the arrays *)

\* The arrays two requests hold are not the same.
Apart ==
  \A p, q \in Readers :
    lent[p] # NoSlice /\ lent[q] # NoSlice /\ lent[p].arr = lent[q].arr => p = q

\* Request p goes on with slice s (or none), in its array or in a free one; of
\* the other arrays only those that nothing reaches may change, by collection,
\* which happens to the array p leaves.
Lend(p, s) ==
  /\ UNCHANGED rts
  /\ lent' = [lent EXCEPT ![p] = s]
  /\ s # NoSlice =>
       s \in Slice /\ (s.arr \in Free \/ (lent[p] # NoSlice /\ s.arr = lent[p].arr))
  /\ heap' = [b \in Arrays |-> heap'[b]]
  /\ \A b \in Arrays :
       \/ heap'[b] = heap[b]
       \/ s # NoSlice /\ b = s.arr
       \/ b \notin Reachable(rts, lent') /\ heap'[b] = << >>
  /\ lent[p] # NoSlice /\ (s = NoSlice \/ s.arr # lent[p].arr) =>
       heap'[lent[p].arr] = << >>

\* A slice of a reader has its array among those lent.
LEMMA ReaderHolds ==
  ASSUME TableInv, NEW p \in Readers, lent[p] # NoSlice
  PROVE  lent[p] \in Slice /\ lent[p].arr \in LentArrays \cap Arrays /\ lent[p].len \in Nat
BY DEF TableInv, LentArrays, Held, SlicesOf, Slice

\* An array p lets go of is reached by nobody.
LEMMA Abandoned ==
  ASSUME TableInv, Apart, NEW p \in Readers, lent[p] # NoSlice,
         NEW s, s = NoSlice \/ s \in Slice, s = NoSlice \/ s.arr # lent[p].arr
  PROVE  lent[p].arr \notin Reachable(rts, [lent EXCEPT ![p] = s])
<1> DEFINE lents == [lent EXCEPT ![p] = s]
<1>1. lents \in [Readers -> Slice \cup {NoSlice}]
  BY DEF TableInv
<1>2. \A q \in Readers : lents[q] # NoSlice => lents[q].arr # lent[p].arr
  BY DEF Apart, TableInv
<1>3. \A k \in Uri : rts[k] # NoSlice => rts[k].arr # lent[p].arr
  BY ReaderHolds DEF TableInv, Keys
<1>4. DOMAIN rts = Uri /\ DOMAIN lents = Readers
  BY <1>1 DEF TableInv
<1> HIDE DEF lents
<1>5. ASSUME NEW x \in SlicesOf(rts) \cup SlicesOf(lents), x # NoSlice
      PROVE  x.arr # lent[p].arr
  BY <1>2, <1>3, <1>4, <1>5 DEF SlicesOf
<1>6. lent[p].arr \notin Reachable(rts, lents)
  BY <1>5 DEF Reachable, Held
<1> QED
  BY <1>6 DEF lents

\* The entries of the map and their routes stay as they are.
EntriesKept ==
  UNCHANGED <<rts, work>> /\ \A k \in Keys : heap'[rts[k].arr] = heap[rts[k].arr]

\* What p does to its slice leaves the table and the other requests alone.
LEMMA LendKeeps ==
  ASSUME TableInv, Apart, NEW p \in Readers, NEW s, Lend(p, s)
  PROVE  /\ TableInv' /\ Apart' /\ Table' = Table
         /\ \A k \in Keys : heap'[rts[k].arr] = heap[rts[k].arr]
         /\ \A q \in Readers \ {p} :
              lent'[q] = lent[q] /\ (lent[q] # NoSlice => heap'[lent[q].arr] = heap[lent[q].arr])
<1>0. /\ rts' = rts /\ lent' = [lent EXCEPT ![p] = s]
      /\ heap' = [b \in Arrays |-> heap'[b]]
  BY DEF Lend
<1>1. /\ lent' \in [Readers -> Slice \cup {NoSlice}] /\ lent'[p] = s
      /\ \A q \in Readers \ {p} : lent'[q] = lent[q]
  BY <1>0 DEF Lend, TableInv
<1>2. /\ LentArrays = {lent[q].arr : q \in {o \in Readers : lent[o] # NoSlice}}
      /\ LentArrays' = {lent'[q].arr : q \in {o \in Readers : lent'[o] # NoSlice}}
  BY <1>1, LentByReader DEF LentArrays, TableInv
<1>3. s # NoSlice =>
        /\ \A k \in Keys : rts[k].arr # s.arr
        /\ \A q \in Readers \ {p} : lent[q] # NoSlice => lent[q].arr # s.arr
  <2> SUFFICES ASSUME s # NoSlice
               PROVE  /\ \A k \in Keys : rts[k].arr # s.arr
                      /\ \A q \in Readers \ {p} : lent[q] # NoSlice => lent[q].arr # s.arr
    OBVIOUS
  <2>1. CASE s.arr \in Free
    BY <2>1, FreeIsUnused, ReaderHolds
  <2>2. CASE lent[p] # NoSlice /\ s.arr = lent[p].arr
    BY <2>2, ReaderHolds DEF Apart, TableInv
  <2> QED
    BY <2>1, <2>2 DEF Lend
<1>4. ASSUME NEW q \in Readers \ {p}, lent[q] # NoSlice
      PROVE  heap'[lent[q].arr] = heap[lent[q].arr]
  <2>1. lent[q].arr \in Reachable(rts, lent')
    BY <1>1, <1>4, LentReachable DEF Held, SlicesOf
  <2> QED
    BY <1>3, <1>4, <2>1, ReaderHolds DEF Lend
<1>5. ASSUME NEW k \in Keys PROVE heap'[rts[k].arr] = heap[rts[k].arr]
  <2>1. rts[k].arr \in Reachable(rts, lent')
    BY EntryReachable DEF TableInv, Keys
  <2> QED
    BY <1>3, <2>1, KeyIsSlice DEF Lend
<1>6. Table' = Table
  <2>1. \A r : Stored(heap', rts', r) <=> Stored(heap, rts, r)
    BY <1>0, <1>5 DEF Stored, Keys
  <2> QED
    BY <2>1, InTable, InTableNext
<1>7. Apart'
  BY <1>1, <1>3 DEF Apart
<1>8. ASSUME NEW b \in Arrays \ LentArrays' PROVE heap'[b] \in Seq(Slots)
  <2>1. << >> \in Seq(Slots)
    OBVIOUS
  <2>2. ~ (s # NoSlice /\ b = s.arr)
    BY <1>1, <1>2
  <2>3. CASE b \notin LentArrays
    BY <2>1, <2>2, <2>3 DEF Lend, TableInv
  <2>4. CASE b \in LentArrays
    <3>1. lent[p] # NoSlice /\ b = lent[p].arr
      BY <1>1, <1>2, <2>4
    <3> QED
      BY <2>1, <2>2, <3>1 DEF Lend
  <2> QED
    BY <2>3, <2>4
<1>9. ASSUME NEW k \in Keys'
      PROVE  rts'[k].arr \notin LentArrays' /\ rts'[k].len <= Len(heap'[rts'[k].arr])
  <2>1. k \in Keys
    BY <1>0 DEF Keys
  <2>2. rts[k].arr \notin LentArrays'
    BY <1>1, <1>2, <1>3, <2>1 DEF TableInv
  <2> QED
    BY <1>0, <1>5, <2>1, <2>2, KeyIsSlice
<1>10. TableInv'
  BY <1>0, <1>1, <1>8, <1>9 DEF TableInv, SlicesFit
<1> QED
  BY <1>1, <1>4, <1>5, <1>6, <1>7, <1>10

-----------------------------------------------------------------------------
(* The lists of routes a request works through *)

\* The first n elements of q are a list for the pool: an instance first, all
\* instances before the exporters, no address of an instance twice, and an
\* instance at every address of need.
ListOK(q, n, need) ==
  /\ n \in Nat /\ n # 0
  /\ \A i \in 1 .. n : q[i] \in AllRoutes
  /\ q[1].type = "web"
  /\ \A i, j \in 1 .. n : i < j /\ q[j].type = "web" => q[i].type = "web"
  /\ \A i, j \in 1 .. n :
       q[i].type = "web" /\ q[j].type = "web" /\ q[i].addr = q[j].addr => i = j
  /\ \A x \in need : \E i \in 1 .. n : q[i].addr = x

\* Less may be needed, and only the first n elements count.
LEMMA ListWeakened ==
  ASSUME NEW q, NEW n, NEW need, ListOK(q, n, need),
         NEW q2, \A i \in 1 .. n : q2[i] = q[i], NEW less, less \subseteq need
  PROVE  ListOK(q2, n, less)
<1>1. 1 \in 1 .. n
  BY DEF ListOK
<1> QED
  BY <1>1 DEF ListOK

\* What a lookup by id or path finds, in any order, is such a list.
LEMMA FoundList ==
  ASSUME NEW W \in SUBSET Route, IsFiniteSet(W), \A r \in W : r.type = "web",
         NEW R \in OnePerAddress(W), R # {}, NEW s \in SetToSeqs(R)
  PROVE  /\ s \in Seq(Route) /\ s # << >>
         /\ ListOK(s, Len(s), {r.addr : r \in W})
<1>1. /\ R \subseteq W
      /\ \A r, q \in R : r.addr = q.addr => r = q
      /\ \A r \in W : \E q \in R : q.addr = r.addr
  BY DEF OnePerAddress
<1>2. IsFiniteSet(R)
  BY <1>1, FS_Subset
<1>3. /\ s \in Seq(R)
      /\ \A r \in R : \E i \in 1 .. Len(s) : s[i] = r
      /\ \A i, j \in 1 .. Len(s) : s[i] = s[j] => i = j
  BY <1>2, SetToSeqsEnumerates
<1>4. Len(s) \in Nat /\ \A i \in 1 .. Len(s) : s[i] \in R
  BY <1>3, LenProperties, ElementOfSeq
<1>5. Len(s) # 0 /\ s # << >>
  <2>1. PICK r \in R : TRUE
    OBVIOUS
  <2>2. PICK i \in 1 .. Len(s) : s[i] = r
    BY <1>3, <2>1
  <2>3. Len(s) # 0
    BY <1>4, <2>2
  <2> QED
    BY <1>3, <2>3, EmptySeq
<1>6. s \in Seq(Route)
  BY <1>1, <1>3, <1>4, SeqDef, LenProperties
<1>7. \A x \in {r.addr : r \in W} : \E i \in 1 .. Len(s) : s[i].addr = x
  <2> SUFFICES ASSUME NEW r \in W PROVE \E i \in 1 .. Len(s) : s[i].addr = r.addr
    OBVIOUS
  <2>1. PICK q \in R : q.addr = r.addr
    BY <1>1
  <2>2. PICK i \in 1 .. Len(s) : s[i] = q
    BY <1>3, <2>1
  <2> QED
    BY <2>1, <2>2
<1>8. \A i \in 1 .. Len(s) : s[i] \in AllRoutes /\ s[i].type = "web"
  BY <1>1, <1>4 DEF AllRoutes
<1>9. \A i, j \in 1 .. Len(s) : s[i].addr = s[j].addr => i = j
  BY <1>1, <1>3, <1>4
<1>10. 1 \in 1 .. Len(s)
  BY <1>4, <1>5
<1>11. ListOK(s, Len(s), {r.addr : r \in W})
  BY <1>4, <1>5, <1>7, <1>8, <1>9, <1>10 DEF ListOK
<1> QED
  BY <1>5, <1>6, <1>11

\* An exporter goes behind the list.
LEMMA ListExtended ==
  ASSUME NEW q, NEW n, NEW need, ListOK(q, n, need), NEW r \in ExporterRoute,
         NEW q2, \A i \in 1 .. n : q2[i] = q[i], q2[n + 1] = r
  PROVE  ListOK(q2, n + 1, need)
<1>1. r.type # "web" /\ r \in AllRoutes
  BY DEF ExporterRoute, ToRoute, AllRoutes
<1>2. n \in Nat /\ n # 0 /\ 1 \in 1 .. n
  BY DEF ListOK
<1>3. \A i \in 1 .. n + 1 : i \in 1 .. n \/ i = n + 1
  BY <1>2
<1>4. \A i \in 1 .. n + 1 : q2[i] \in AllRoutes /\ (q2[i].type = "web" => i \in 1 .. n)
  BY <1>1, <1>3 DEF ListOK
<1>5. q2[1].type = "web"
  BY <1>2 DEF ListOK
<1>6. ASSUME NEW i \in 1 .. n + 1, NEW j \in 1 .. n + 1, i < j, q2[j].type = "web"
      PROVE  q2[i].type = "web"
  <2>1. j \in 1 .. n /\ i \in 1 .. n
    BY <1>2, <1>4, <1>6
  <2> QED
    BY <1>6, <2>1 DEF ListOK
<1>7. ASSUME NEW i \in 1 .. n + 1, NEW j \in 1 .. n + 1,
             q2[i].type = "web", q2[j].type = "web", q2[i].addr = q2[j].addr
      PROVE  i = j
  <2>1. j \in 1 .. n /\ i \in 1 .. n
    BY <1>4, <1>7
  <2> QED
    BY <1>7, <2>1 DEF ListOK
<1>8. \A x \in need : \E i \in 1 .. n + 1 : q2[i].addr = x
  <2> SUFFICES ASSUME NEW x \in need PROVE \E i \in 1 .. n + 1 : q2[i].addr = x
    OBVIOUS
  <2>1. PICK i \in 1 .. n : q[i].addr = x
    BY DEF ListOK
  <2>2. i \in 1 .. n + 1 /\ q2[i].addr = x
    BY <1>2, <2>1
  <2> QED
    BY <2>2
<1> QED
  BY <1>2, <1>4, <1>5, <1>6, <1>7, <1>8 DEF ListOK

-----------------------------------------------------------------------------
(* The inductive invariant *)

\* p has a list in a slice of its own.
HoldsList(p) ==
  /\ lent[p] \in Slice
  /\ heap[lent[p].arr] \in Seq(AllSlots)
  /\ lent[p].len <= Len(heap[lent[p].arr])
  /\ ListOK(heap[lent[p].arr], lent[p].len, steady[p])

\* Where a request is, what it holds and what it has handed over: the list from
\* its lookup to the last call, then what it called, which is the whole list.
RequestOK(p) ==
  /\ pc[p] \in Running \cup {"idle", "done"}
  /\ lent[p] # NoSlice <=> pc[p] \in Running
  /\ query[p] \in Queries \cup {Nil}
  /\ pos[p] \in Nat \ {0}
  /\ pc[p] \in Running => HoldsList(p)
  /\ pc[p] = "tags" => \A i \in 1 .. lent[p].len : heap[lent[p].arr][i] \in Route
  /\ \A a \in DOMAIN tags[p] : \E r \in Route : r.app = a /\ r.path = tags[p][a]
  /\ apps[p] \subseteq DOMAIN tags[p]
  /\ todo[p] \in Seq(ExporterRoute)
  /\ calls[p] \in Seq(AllRoutes)
  /\ pc[p] \notin {"feed", "done"} => calls[p] = << >>
  /\ pc[p] = "feed" =>
       /\ pos[p] <= lent[p].len + 1
       /\ Len(calls[p]) = pos[p] - 1
       /\ \A i \in 1 .. pos[p] - 1 : calls[p][i] = heap[lent[p].arr][i]
  /\ pc[p] = "done" => ListOK(calls[p], Len(calls[p]), steady[p])

\* The variables of the requests have a value for each.
Shaped ==
  /\ pc    = [p \in Readers |-> pc[p]]
  /\ query = [p \in Readers |-> query[p]]
  /\ pos   = [p \in Readers |-> pos[p]]
  /\ tags  = [p \in Readers |-> tags[p]]
  /\ apps  = [p \in Readers |-> apps[p]]
  /\ todo  = [p \in Readers |-> todo[p]]
  /\ calls = [p \in Readers |-> calls[p]]

RequestsInv ==
  /\ TableInv /\ IsFiniteSet(Table)
  /\ work \in Work(Route) \cup {Idle}
  /\ LoggedUris => ~ crashed
  /\ Shaped /\ Apart
  /\ \A p \in Readers : RequestOK(p)

LEMMA RequestsInvInit == RequestInit => RequestsInv
<1> SUFFICES ASSUME RequestInit PROVE RequestsInv
  OBVIOUS
<1>1. TableInv /\ work = Idle /\ ~ crashed
  BY TableInvInit DEF RequestInit, Init
<1>2. IsFiniteSet(Table)
  <2>1. \A r : ~ Stored(heap, rts, r)
    BY DEF RequestInit, Init, TableInit, Stored
  <2>2. Table = {}
    BY <2>1, InTable
  <2> QED
    BY <2>2, FS_EmptySet
<1>3. Shaped
  BY DEF RequestInit, Shaped
<1>4. \A p \in Readers : lent[p] = NoSlice
  BY DEF RequestInit, Init, TableInit
<1>5. ASSUME NEW p \in Readers PROVE RequestOK(p)
  <2>1. \A S : << >> \in Seq(S)
    OBVIOUS
  <2>2. /\ pc[p] = "idle" /\ query[p] = Nil /\ pos[p] = 1
        /\ tags[p] = << >> /\ apps[p] = {} /\ todo[p] = << >> /\ calls[p] = << >>
    BY DEF RequestInit
  <2> QED
    BY <1>4, <2>1, <2>2 DEF RequestOK, Running
<1> QED
  BY <1>1, <1>2, <1>3, <1>4, <1>5 DEF RequestsInv, Apart

\* Addresses leave steady while a request runs, and never enter it.
LEMMA WatchShrinks ==
  ASSUME Watch, NEW p \in Readers, pc[p] # "idle"
  PROVE  steady'[p] \subseteq steady[p]
BY DEF Watch

\* A request that does nothing stays as it is when its slice does.
LEMMA OthersKeep ==
  ASSUME NEW p \in Readers, RequestOK(p), Watch, lent'[p] = lent[p],
         lent[p] # NoSlice => heap'[lent[p].arr] = heap[lent[p].arr],
         pc'[p] = pc[p], query'[p] = query[p], pos'[p] = pos[p], tags'[p] = tags[p],
         apps'[p] = apps[p], todo'[p] = todo[p], calls'[p] = calls[p]
  PROVE  RequestOK(p)'
<1>1. pc[p] \in Running => HoldsList(p)'
  <2> SUFFICES ASSUME pc[p] \in Running PROVE HoldsList(p)'
    OBVIOUS
  <2>1. HoldsList(p) /\ heap'[lent[p].arr] = heap[lent[p].arr]
    BY DEF RequestOK
  <2>2. steady'[p] \subseteq steady[p]
    BY WatchShrinks DEF Running
  <2>3. ListOK(heap[lent[p].arr], lent[p].len, steady'[p])
    BY <2>1, <2>2, ListWeakened DEF HoldsList
  <2> QED
    BY <2>1, <2>3 DEF HoldsList
<1>2. pc[p] = "done" => ListOK(calls[p], Len(calls[p]), steady'[p])
  <2> SUFFICES ASSUME pc[p] = "done" PROVE ListOK(calls[p], Len(calls[p]), steady'[p])
    OBVIOUS
  <2>1. ListOK(calls[p], Len(calls[p]), steady[p]) /\ steady'[p] \subseteq steady[p]
    BY WatchShrinks DEF RequestOK
  <2> QED
    BY <2>1, ListWeakened
<1>3. pc[p] \in Running => heap'[lent[p].arr] = heap[lent[p].arr]
  BY DEF RequestOK
<1> QED
  BY <1>1, <1>2, <1>3 DEF RequestOK, Running

\* A step of p changes the request variables of p only.
OnlyOf(p) ==
  \A q \in Readers \ {p} :
    /\ pc'[q] = pc[q] /\ query'[q] = query[q] /\ pos'[q] = pos[q] /\ tags'[q] = tags[q]
    /\ apps'[q] = apps[q] /\ todo'[q] = todo[q] /\ calls'[q] = calls[q]

\* A step of p that lends as above, keeps its own part of the invariant and
\* changes its own variables only keeps the invariant, and the table.
LEMMA StepKeepsInv ==
  ASSUME RequestsInv, NEW p \in Readers, NEW s, Lend(p, s),
         Shaped', OnlyOf(p), Watch, UNCHANGED <<work, crashed>>, RequestOK(p)'
  PROVE  RequestsInv' /\ EntriesKept
<1>1. /\ TableInv' /\ Apart' /\ Table' = Table
      /\ \A k \in Keys : heap'[rts[k].arr] = heap[rts[k].arr]
      /\ \A q \in Readers \ {p} :
           lent'[q] = lent[q] /\ (lent[q] # NoSlice => heap'[lent[q].arr] = heap[lent[q].arr])
  BY LendKeeps DEF RequestsInv
<1>2. ASSUME NEW q \in Readers \ {p} PROVE RequestOK(q)'
  <2>1. RequestOK(q)
    BY DEF RequestsInv
  <2> QED
    BY <1>1, <2>1, OthersKeep DEF OnlyOf
<1>3. \A q \in Readers : RequestOK(q)'
  BY <1>2
<1>4. IsFiniteSet(Table')
  BY <1>1 DEF RequestsInv
<1> QED
  BY <1>1, <1>3, <1>4 DEF RequestsInv, LoggedUris, EntriesKept, Lend

\* Doing nothing to the slice is a way of lending.
LEMMA LendSame ==
  ASSUME TableInv, NEW p \in Readers, UNCHANGED <<heap, rts, lent>>
  PROVE  Lend(p, lent[p])
BY DEF Lend, TableInv


-----------------------------------------------------------------------------
(* The steps of a request *)

\* Variable f of the requests after a step that gives it a new value at p.
LEMMA SetAt ==
  ASSUME NEW p \in Readers, NEW f, f = [q \in Readers |-> f[q]], NEW x
  PROVE  /\ [f EXCEPT ![p] = x][p] = x
         /\ \A q \in Readers \ {p} : [f EXCEPT ![p] = x][q] = f[q]
         /\ [f EXCEPT ![p] = x] = [q \in Readers |-> [f EXCEPT ![p] = x][q]]
OBVIOUS

\* The list stays good while nobody touches it.
LEMMA StillHolds ==
  ASSUME NEW p \in Readers, HoldsList(p), pc[p] \in Running, Watch,
         UNCHANGED <<heap, lent>>
  PROVE  HoldsList(p)'
<1>1. steady'[p] \subseteq steady[p]
  BY WatchShrinks DEF Running
<1>2. ListOK(heap[lent[p].arr], lent[p].len, steady'[p])
  BY <1>1, ListWeakened DEF HoldsList
<1> QED
  BY <1>2 DEF HoldsList

\* The slot a running request reads next holds a route.
LEMMA NextIsRoute ==
  ASSUME NEW p \in Readers, RequestOK(p), pc[p] \in Running, pos[p] <= lent[p].len
  PROVE  Entry(lent[p], pos[p]) \in AllRoutes /\ Entry(lent[p], pos[p]) # Nil
<1>1. lent[p].len \in Nat /\ pos[p] \in 1 .. lent[p].len
  BY DEF RequestOK, HoldsList, ListOK
<1>2. heap[lent[p].arr][pos[p]] \in AllRoutes
  BY <1>1 DEF RequestOK, HoldsList, ListOK
<1> QED
  BY <1>2, NilAssumption, ExportersAssumption DEF Entry, AllRoutes

LEMMA ReadTagsKeepsInv ==
  ASSUME RequestsInv, NEW p \in Readers, ReadTags(p)
  PROVE  RequestsInv' /\ EntriesKept
<1> DEFINE r == Entry(lent[p], pos[p])
           old == tags[p]
           new == [a \in {r.app} \cup DOMAIN old |-> IF a = r.app THEN r.path ELSE old[a]]
<1>1. RequestOK(p) /\ Shaped /\ TableInv
  BY DEF RequestsInv
<1>2. pc[p] = "tags" /\ pos[p] <= lent[p].len /\ pc[p] \in Running
  BY DEF ReadTags, Running
<1>3. r # Nil
  BY <1>1, <1>2, NextIsRoute
<1>4. r \in Route
  BY <1>1, <1>2 DEF RequestOK, HoldsList, ListOK, Entry
<1>5. /\ tags' = [tags EXCEPT ![p] = new]
      /\ pos' = [pos EXCEPT ![p] = pos[p] + 1]
      /\ UNCHANGED <<pc, heap, lent, query, apps, todo, calls, crashed, rts, work>>
      /\ Watch
  BY <1>3 DEF ReadTags, RequestFrame
<1>6. HoldsList(p)'
  BY <1>1, <1>2, <1>5, StillHolds DEF RequestOK
<1>7. \A a \in DOMAIN new : \E o \in Route : o.app = a /\ o.path = new[a]
  BY <1>1, <1>4 DEF RequestOK
<1>8. DOMAIN old \subseteq DOMAIN new
  OBVIOUS
<1> HIDE DEF new, r
<1>9. Shaped' /\ OnlyOf(p) /\ tags'[p] = new /\ pos'[p] = pos[p] + 1
  BY <1>1, <1>5, SetAt DEF Shaped, OnlyOf
<1>10. RequestOK(p)'
  BY <1>1, <1>2, <1>5, <1>6, <1>7, <1>8, <1>9 DEF RequestOK
<1>11. Lend(p, lent[p])
  BY <1>1, <1>5, LendSame
<1> QED
  BY <1>5, <1>9, <1>10, <1>11, StepKeepsInv

LEMMA PrepareExportersKeepsInv ==
  ASSUME RequestsInv, NEW p \in Readers, PrepareExporters(p)
  PROVE  RequestsInv' /\ EntriesKept
<1> DEFINE new == IF query[p].only_app \/ Exporters = << >> THEN {} ELSE DOMAIN tags[p]
<1>1. RequestOK(p) /\ Shaped /\ TableInv
  BY DEF RequestsInv
<1>2. pc[p] = "tags" /\ pc[p] \in Running
  BY DEF PrepareExporters, Running
<1>3. /\ apps' = [apps EXCEPT ![p] = new]
      /\ pc' = [pc EXCEPT ![p] = "exporters"]
      /\ UNCHANGED <<heap, lent, query, pos, tags, todo, calls, crashed, rts, work>>
      /\ Watch
  BY DEF PrepareExporters, RequestFrame
<1>4. HoldsList(p)'
  BY <1>1, <1>2, <1>3, StillHolds DEF RequestOK
<1>5. new \subseteq DOMAIN tags[p]
  OBVIOUS
<1> HIDE DEF new
<1>6. Shaped' /\ OnlyOf(p) /\ apps'[p] = new /\ pc'[p] = "exporters"
  BY <1>1, <1>3, SetAt DEF Shaped, OnlyOf
<1>7. RequestOK(p)'
  BY <1>1, <1>2, <1>3, <1>4, <1>5, <1>6 DEF RequestOK, Running
<1>8. Lend(p, lent[p])
  BY <1>1, <1>3, LendSame
<1> QED
  BY <1>3, <1>6, <1>7, <1>8, StepKeepsInv

\* What is to be added for an app are routes of exporters.
LEMMA ExportersOf ==
  ASSUME NEW app, NEW path, \E r \in Route : r.app = app /\ r.path = path
  PROVE  [i \in 1 .. Len(Exporters) |-> ToRoute(Exporters[i], app, path)]
           \in Seq(ExporterRoute)
<1> DEFINE e(i) == ToRoute(Exporters[i], app, path)
<1>1. /\ Len(Exporters) \in Nat
      /\ \A i \in 1 .. Len(Exporters) : Exporters[i] \in Range(Exporters)
  BY ExportersAssumption, LenProperties, ElementOfSeq
<1>2. \A i \in 1 .. Len(Exporters) : e(i) \in ExporterRoute
  BY <1>1 DEF ExporterRoute
<1> HIDE DEF e
<1>3. [i \in 1 .. Len(Exporters) |-> e(i)] \in Seq(ExporterRoute)
  BY <1>1, <1>2, IsASeq
<1> QED
  BY <1>3 DEF e

LEMMA NextAppKeepsInv ==
  ASSUME RequestsInv, NEW p \in Readers, NextApp(p)
  PROVE  RequestsInv' /\ EntriesKept
<1>1. RequestOK(p) /\ Shaped /\ TableInv
  BY DEF RequestsInv
<1>2. pc[p] = "exporters" /\ pc[p] \in Running
  BY DEF NextApp, Running
<1>3. PICK app \in apps[p] :
        /\ apps' = [apps EXCEPT ![p] = apps[p] \ {app}]
        /\ todo' = [todo EXCEPT ![p] =
                      [i \in 1 .. Len(Exporters) |->
                         ToRoute(Exporters[i], app, tags[p][app])]]
  BY DEF NextApp
<1>4. /\ UNCHANGED <<heap, lent, pc, query, pos, tags, calls, crashed, rts, work>>
      /\ Watch
  BY DEF NextApp, RequestFrame
<1> DEFINE new == [i \in 1 .. Len(Exporters) |-> ToRoute(Exporters[i], app, tags[p][app])]
<1>5. HoldsList(p)'
  BY <1>1, <1>2, <1>4, StillHolds DEF RequestOK
<1>6. new \in Seq(ExporterRoute)
  <2>1. \E r \in Route : r.app = app /\ r.path = tags[p][app]
    BY <1>1 DEF RequestOK
  <2> QED
    BY <2>1, ExportersOf
<1> HIDE DEF new
<1>7. Shaped' /\ OnlyOf(p) /\ apps'[p] = apps[p] \ {app} /\ todo'[p] = new
  <2>1. todo' = [todo EXCEPT ![p] = new]
    BY <1>3 DEF new
  <2> QED
    BY <1>1, <1>3, <1>4, <2>1, SetAt DEF Shaped, OnlyOf
<1>8. RequestOK(p)'
  BY <1>1, <1>2, <1>4, <1>5, <1>6, <1>7 DEF RequestOK
<1>9. Lend(p, lent[p])
  BY <1>1, <1>4, LendSame
<1> QED
  BY <1>4, <1>7, <1>8, <1>9, StepKeepsInv

LEMMA StartFeedKeepsInv ==
  ASSUME RequestsInv, NEW p \in Readers, StartFeed(p)
  PROVE  RequestsInv' /\ EntriesKept
<1>1. RequestOK(p) /\ Shaped /\ TableInv
  BY DEF RequestsInv
<1>2. pc[p] = "exporters" /\ pc[p] \in Running
  BY DEF StartFeed, Running
<1>3. /\ pc' = [pc EXCEPT ![p] = "feed"]
      /\ pos' = [pos EXCEPT ![p] = 1]
      /\ UNCHANGED <<heap, lent, query, tags, apps, todo, calls, crashed, rts, work>>
      /\ Watch
  BY DEF StartFeed, RequestFrame
<1>4. HoldsList(p)'
  BY <1>1, <1>2, <1>3, StillHolds DEF RequestOK
<1>5. Shaped' /\ OnlyOf(p) /\ pc'[p] = "feed" /\ pos'[p] = 1
  BY <1>1, <1>3, SetAt DEF Shaped, OnlyOf
<1>6. calls[p] = << >> /\ lent[p].len \in Nat
  BY <1>1, <1>2 DEF RequestOK, HoldsList, ListOK
<1>7. RequestOK(p)'
  BY <1>1, <1>2, <1>3, <1>4, <1>5, <1>6 DEF RequestOK, Running
<1>8. Lend(p, lent[p])
  BY <1>1, <1>3, LendSame
<1> QED
  BY <1>3, <1>5, <1>7, <1>8, StepKeepsInv

LEMMA FeedKeepsInv ==
  ASSUME RequestsInv, NEW p \in Readers, Feed(p)
  PROVE  RequestsInv' /\ EntriesKept
<1> DEFINE r == Entry(lent[p], pos[p])
           new == Append(calls[p], r)
<1>1. RequestOK(p) /\ Shaped /\ TableInv
  BY DEF RequestsInv
<1>2. pc[p] = "feed" /\ pos[p] <= lent[p].len /\ pc[p] \in Running
  BY DEF Feed, Running
<1>3. r # Nil /\ r \in AllRoutes
  BY <1>1, <1>2, NextIsRoute
<1>4. /\ calls' = [calls EXCEPT ![p] = new]
      /\ pos' = [pos EXCEPT ![p] = pos[p] + 1]
      /\ UNCHANGED <<pc, heap, lent, crashed, query, tags, apps, todo, rts, work>>
      /\ Watch
  BY <1>3 DEF Feed, RequestFrame
<1>5. HoldsList(p)'
  BY <1>1, <1>2, <1>4, StillHolds DEF RequestOK
<1>6. /\ pos[p] \in Nat \ {0} /\ calls[p] \in Seq(AllRoutes) /\ Len(calls[p]) = pos[p] - 1
      /\ \A i \in 1 .. pos[p] - 1 : calls[p][i] = heap[lent[p].arr][i]
  BY <1>1, <1>2 DEF RequestOK
<1>7. /\ new \in Seq(AllRoutes) /\ Len(new) = pos[p]
      /\ \A i \in 1 .. pos[p] : new[i] = heap[lent[p].arr][i]
  <2>1. /\ new \in Seq(AllRoutes) /\ Len(new) = Len(calls[p]) + 1
        /\ \A i \in 1 .. Len(calls[p]) : new[i] = calls[p][i]
        /\ new[Len(calls[p]) + 1] = r
    BY <1>3, <1>6, AppendProperties
  <2> HIDE DEF new
  <2> QED
    <3>1. \A i \in 1 .. pos[p] : i \in 1 .. pos[p] - 1 \/ i = pos[p]
      BY <1>6
    <3>2. Len(new) = pos[p] /\ new[pos[p]] = heap[lent[p].arr][pos[p]]
      BY <1>6, <2>1 DEF Entry
    <3>3. \A i \in 1 .. pos[p] - 1 : new[i] = heap[lent[p].arr][i]
      BY <1>6, <2>1
    <3> QED
      BY <2>1, <3>1, <3>2, <3>3
<1>8. lent[p].len \in Nat
  BY <1>1, <1>2 DEF RequestOK, HoldsList, ListOK
<1> HIDE DEF new, r
<1>9. Shaped' /\ OnlyOf(p) /\ calls'[p] = new /\ pos'[p] = pos[p] + 1
  BY <1>1, <1>4, SetAt DEF Shaped, OnlyOf
<1>10. RequestOK(p)'
  BY <1>1, <1>2, <1>4, <1>5, <1>6, <1>7, <1>8, <1>9 DEF RequestOK
<1>11. Lend(p, lent[p])
  BY <1>1, <1>4, LendSame
<1> QED
  BY <1>4, <1>9, <1>10, <1>11, StepKeepsInv

LEMMA ReturnKeepsInv ==
  ASSUME RequestsInv, NEW p \in Readers, Return(p)
  PROVE  RequestsInv' /\ EntriesKept
<1>1. RequestOK(p) /\ Shaped /\ TableInv
  BY DEF RequestsInv
<1>2. /\ pc'    = [pc EXCEPT ![p] = "idle"]
      /\ query' = [query EXCEPT ![p] = Nil]
      /\ pos'   = [pos EXCEPT ![p] = 1]
      /\ tags'  = [tags EXCEPT ![p] = << >>]
      /\ apps'  = [apps EXCEPT ![p] = {}]
      /\ todo'  = [todo EXCEPT ![p] = << >>]
      /\ calls' = [calls EXCEPT ![p] = << >>]
      /\ UNCHANGED <<heap, lent, crashed, rts, work>>
      /\ Watch
  BY DEF Return, RequestFrame
<1>3. Shaped' /\ OnlyOf(p)
  BY <1>1, <1>2, SetAt DEF Shaped, OnlyOf
<1>4. /\ pc'[p] = "idle" /\ query'[p] = Nil /\ pos'[p] = 1 /\ tags'[p] = << >>
      /\ apps'[p] = {} /\ todo'[p] = << >> /\ calls'[p] = << >>
  BY <1>1, <1>2 DEF Shaped
<1>5. lent[p] = NoSlice
  <2>1. pc[p] \notin Running
    BY DEF Return, Running
  <2> QED
    BY <1>1, <2>1 DEF RequestOK
<1>6. \A S : << >> \in Seq(S)
  OBVIOUS
<1>7. RequestOK(p)'
  <2>1. lent'[p] = NoSlice
    BY <1>2, <1>5
  <2>2. DOMAIN tags'[p] = {}
    BY <1>4
  <2>3. pc'[p] \notin Running /\ todo'[p] \in Seq(ExporterRoute) /\ calls'[p] \in Seq(AllRoutes)
    BY <1>4, <1>6 DEF Running
  <2> QED
    BY <1>4, <2>1, <2>2, <2>3 DEF RequestOK
<1>8. Lend(p, lent[p])
  BY <1>1, <1>2, LendSame
<1> QED
  BY <1>2, <1>3, <1>7, <1>8, StepKeepsInv

\* BuiltArray for the routes of a lookup.
LEMMA BuiltSlots ==
  ASSUME NEW s \in Seq(Route), s # << >>
  PROVE  /\ Built(s) \in Seq(AllSlots)
         /\ Len(Built(s)) \in Nat /\ Len(Built(s)) >= Len(s)
         /\ \A i \in 1 .. Len(s) : Built(s)[i] = s[i]
<1>1. Nil \in AllSlots /\ s \in Seq(AllSlots)
  BY SeqDef, LenProperties DEF AllSlots, AllRoutes
<1> QED
  BY <1>1, BuiltArray

\* What is steady right after a lookup: all that it should have found.
LEMMA SteadyAtFind ==
  ASSUME NEW p \in Readers, NEW W, NEW q, Watch, pc[p] = "idle", pc'[p] = "tags",
         query'[p] = q,
         \/ q.by = "id"   /\ W = {r \in Table' : r.type = "web" /\ r.app = q.arg}
         \/ q.by = "path" /\ W = {r \in Table' : r.type = "web" /\ r.path = q.arg}
  PROVE  steady'[p] = {r.addr : r \in W}
<1>1. steady'[p] = Answering(query[p])'
  BY DEF Watch, Running
<1>2. Answering(query[p])' = {r.addr : r \in W}
  BY DEF Answering
<1> QED
  BY <1>1, <1>2

LEMMA FindKeepsInv ==
  ASSUME RequestsInv, OwnQueries, NEW p \in Readers, NEW q \in Queries, Find(p, q)
  PROVE  RequestsInv' /\ EntriesKept
<1>1. RequestOK(p) /\ Shaped /\ TableInv /\ IsFiniteSet(Table) /\ Apart
  BY DEF RequestsInv
<1>2. pc[p] = "idle" /\ lent[p] = NoSlice
  BY <1>1 DEF Find, RequestOK, Running
<1>3. PICK W \in SUBSET Table :
        /\ \/ q.by = "id"   /\ W = {r \in Table : r.type = "web" /\ r.app = q.arg}
           \/ q.by = "path" /\ W = {r \in Table : r.type = "web" /\ r.path = q.arg}
        /\ FindCopy(p, OnePerAddress(W))
  <2>1. CASE q.by = "id" /\ FindCopy(p, FindById(q.arg))
    BY <2>1 DEF FindById
  <2>2. CASE q.by = "path" /\ FindCopy(p, FindByOrgSpaceName(q.arg))
    BY <2>2 DEF FindByOrgSpaceName
  <2> QED
    BY <2>1, <2>2 DEF Find, OwnQueries
<1>4. /\ pc'    = [pc EXCEPT ![p] = "tags"]
      /\ query' = [query EXCEPT ![p] = q]
      /\ UNCHANGED <<pos, tags, apps, todo, calls, crashed, rts, work>>
      /\ Watch
  BY DEF Find, RequestFrame
<1>5. PICK R \in OnePerAddress(W) \ {{}} : \E s \in SetToSeqs(R), a \in Free :
        /\ lent' = [lent EXCEPT ![p] = [arr |-> a, len |-> Len(s)]]
        /\ heap' = [heap EXCEPT ![a] = Built(s)]
  BY <1>3 DEF FindCopy
<1>6. PICK s \in SetToSeqs(R), a \in Free :
        /\ lent' = [lent EXCEPT ![p] = [arr |-> a, len |-> Len(s)]]
        /\ heap' = [heap EXCEPT ![a] = Built(s)]
  BY <1>5
<1>7. /\ W \in SUBSET Route /\ IsFiniteSet(W) /\ \A r \in W : r.type = "web"
      /\ R \in OnePerAddress(W) /\ R # {}
  BY <1>1, <1>3, <1>5, TableOfRoutes, FS_Subset
<1>8. /\ s \in Seq(Route) /\ s # << >>
      /\ ListOK(s, Len(s), {r.addr : r \in W})
  BY <1>7, FoundList
<1>9. /\ Built(s) \in Seq(AllSlots)
      /\ Len(Built(s)) >= Len(s)
      /\ \A i \in 1 .. Len(s) : Built(s)[i] = s[i]
  BY <1>8, BuiltSlots
<1> DEFINE sl == [arr |-> a, len |-> Len(s)]
           old == heap
<1>10. a \in Arrays /\ sl \in Slice /\ sl # NoSlice
  <2>1. a \in Arrays /\ Len(s) \in Nat
    BY <1>1, <1>8, FreeIsUnused, LenProperties
  <2>2. sl \in Slice
    BY <2>1 DEF Slice
  <2> QED
    BY <2>1, <2>2, NoSliceAssumption
<1>11. Lend(p, sl)
  BY <1>1, <1>2, <1>4, <1>6, <1>10 DEF Lend, TableInv
<1>12. Table' = Table
  BY <1>1, <1>11, LendKeeps
<1>13. Shaped' /\ OnlyOf(p) /\ pc'[p] = "tags" /\ query'[p] = q
  BY <1>1, <1>4, SetAt DEF Shaped, OnlyOf
<1>14. steady'[p] = {r.addr : r \in W}
  <2>1. Watch /\ pc[p] = "idle" /\ pc'[p] = "tags" /\ query'[p] = q
    BY <1>2, <1>4, <1>13
  <2>2. \/ q.by = "id"   /\ W = {r \in Table' : r.type = "web" /\ r.app = q.arg}
        \/ q.by = "path" /\ W = {r \in Table' : r.type = "web" /\ r.path = q.arg}
    BY <1>3, <1>12
  <2> QED
    BY <2>1, <2>2, SteadyAtFind
<1>15. lent'[p] = sl /\ heap'[a] = Built(s)
  BY <1>1, <1>6, <1>10 DEF TableInv
<1>16. HoldsList(p)'
  <2>1. ListOK(Built(s), Len(s), {r.addr : r \in W})
    BY <1>8, <1>9, ListWeakened
  <2> QED
    BY <1>9, <1>10, <1>14, <1>15, <2>1 DEF HoldsList
<1>17. \A i \in 1 .. lent'[p].len : heap'[lent'[p].arr][i] \in Route
  BY <1>8, <1>9, <1>15, ElementOfSeq
<1>18. RequestOK(p)'
  BY <1>1, <1>2, <1>4, <1>10, <1>13, <1>15, <1>16, <1>17 DEF RequestOK, Running
<1> QED
  BY <1>4, <1>11, <1>13, <1>18, StepKeepsInv

\* SlotWritten and GrownArray for the array of a request.
LEMMA ListWritten ==
  ASSUME NEW q \in Seq(AllSlots), NEW i, NEW v \in AllSlots
  PROVE  [q EXCEPT ![i] = v] \in Seq(AllSlots) /\ Len([q EXCEPT ![i] = v]) = Len(q)
BY SlotWritten

LEMMA ListGrown ==
  ASSUME NEW q \in Seq(AllSlots), NEW r \in AllSlots
  PROVE  /\ Grown(q, r) \in Seq(AllSlots)
         /\ Len(Grown(q, r)) >= Len(q) + 1
         /\ \A i \in 1 .. Len(q) : Grown(q, r)[i] = q[i]
         /\ Grown(q, r)[Len(q) + 1] = r
<1>1. Nil \in AllSlots
  BY DEF AllSlots
<1> QED
  BY <1>1, GrownArray

\* append(routes, exporter): p has the list it had, in an array of its own, and
\* the exporter behind it.
LEMMA AppendLends ==
  ASSUME TableInv, Apart, NEW p \in Readers, lent[p] \in Slice,
         NEW r \in ExporterRoute, UNCHANGED rts, AppendTo(p, r),
         heap[lent[p].arr] \in Seq(AllSlots), lent[p].len <= Len(heap[lent[p].arr])
  PROVE  \E s \in Slice :
           /\ Lend(p, s)
           /\ s.len = lent[p].len + 1
           /\ heap'[s.arr] \in Seq(AllSlots)
           /\ s.len <= Len(heap'[s.arr])
           /\ \A i \in 1 .. lent[p].len : heap'[s.arr][i] = heap[lent[p].arr][i]
           /\ heap'[s.arr][lent[p].len + 1] = r
<1> DEFINE a == lent[p].arr
           n == lent[p].len
           old == heap[a]
<1>1. /\ lent[p] # NoSlice /\ a \in LentArrays /\ a \in Arrays /\ n \in Nat
      /\ heap = [b \in Arrays |-> heap[b]]
      /\ lent \in [Readers -> Slice \cup {NoSlice}]
  BY ReaderHolds, NoSliceAssumption DEF TableInv, Slice
<1>2. Len(old) \in Nat /\ DOMAIN old = 1 .. Len(old) /\ r \in AllSlots /\ Nil \in AllSlots
  BY LenProperties DEF AllSlots, AllRoutes
<1>3. CASE /\ n < Len(old)
           /\ heap' = [heap EXCEPT ![a][n + 1] = r]
           /\ lent' = [lent EXCEPT ![p].len = n + 1]
  <2> DEFINE new == [old EXCEPT ![n + 1] = r]
             s == [arr |-> a, len |-> n + 1]
  <2>1. new \in Seq(AllSlots) /\ Len(new) = Len(old)
    BY <1>2, ListWritten
  <2>2. n + 1 \in DOMAIN old
    BY <1>1, <1>2, <1>3
  <2>3. new[n + 1] = r /\ \A i \in 1 .. n : new[i] = old[i]
    BY <1>1, <2>2
  <2>4. heap' = [heap EXCEPT ![a] = new]
    BY <1>3
  <2>5. s \in Slice /\ s # NoSlice
    <3>1. s \in Slice
      BY <1>1 DEF Slice
    <3> QED
      BY <3>1, NoSliceAssumption DEF Slice
  <2>6. lent' = [lent EXCEPT ![p] = s]
    <3>1. [lent[p] EXCEPT !.len = n + 1] = s
      BY DEF Slice
    <3> QED
      BY <1>3, <3>1
  <2> HIDE DEF new
  <2>7. heap'[a] = new /\ Lend(p, s)
    BY <1>1, <2>4, <2>5, <2>6 DEF Lend
  <2>8. s.arr = a /\ s.len = n + 1 /\ s.len <= Len(heap'[s.arr])
    BY <1>1, <1>2, <1>3, <2>1, <2>7
  <2> QED
    BY <2>1, <2>3, <2>5, <2>7, <2>8
<1>4. ASSUME NEW b \in Free,
             ~ n < Len(old),
             lent' = [lent EXCEPT ![p] = [arr |-> b, len |-> n + 1]],
             heap' = Collected([heap EXCEPT ![b] = Grown(old, r)],
                               Reachable(rts, lent'))
      PROVE  \E s \in Slice :
               /\ Lend(p, s)
               /\ s.len = n + 1
               /\ heap'[s.arr] \in Seq(AllSlots)
               /\ s.len <= Len(heap'[s.arr])
               /\ \A i \in 1 .. n : heap'[s.arr][i] = old[i]
               /\ heap'[s.arr][n + 1] = r
  <2> DEFINE new == Grown(old, r)
             s == [arr |-> b, len |-> n + 1]
             live == Reachable(rts, lent')
  <2>1. n = Len(old)
    BY <1>1, <1>2, <1>4
  <2>2. /\ new \in Seq(AllSlots) /\ Len(new) >= Len(old) + 1
        /\ \A i \in 1 .. Len(old) : new[i] = old[i]
        /\ new[Len(old) + 1] = r
    BY <1>2, ListGrown
  <2>3. b \in Arrays /\ b # a
    BY <1>1, FreeIsUnused
  <2>4. s \in Slice /\ s # NoSlice
    <3>1. s \in Slice
      BY <1>1, <2>3 DEF Slice
    <3> QED
      BY <3>1, NoSliceAssumption DEF Slice
  <2>5. a \notin live
    BY <1>1, <1>4, <2>3, <2>4, Abandoned
  <2>6. b \in live
    <3>1. lent' \in [Readers -> Slice \cup {NoSlice}] /\ lent'[p] = s
      BY <1>1, <1>4, <2>4
    <3>2. b \in Held(SlicesOf(lent'))
      BY <2>4, <3>1 DEF Held, SlicesOf
    <3> QED
      BY <3>1, <3>2, LentReachable
  <2> HIDE DEF new, live
  <2>7. heap' = [c \in Arrays |-> IF c \in live THEN [heap EXCEPT ![b] = new][c] ELSE << >>]
    BY <1>4 DEF Collected, new, live
  <2>8. heap'[b] = new /\ heap'[a] = << >>
    BY <1>1, <2>3, <2>5, <2>6, <2>7
  <2>9. \A c \in Arrays : heap'[c] = heap[c] \/ c = b \/ (c \notin live /\ heap'[c] = << >>)
    BY <1>1, <2>7
  <2>10. heap' = [c \in Arrays |-> heap'[c]]
    BY <2>7
  <2>11. Lend(p, s)
    BY <1>1, <1>4, <2>4, <2>8, <2>9, <2>10 DEF Lend, live
  <2> QED
    BY <2>1, <2>2, <2>4, <2>8, <2>11
<1> QED
  BY <1>3, <1>4 DEF AppendTo

LEMMA AddExporterKeepsInv ==
  ASSUME RequestsInv, NEW p \in Readers, AddExporter(p)
  PROVE  RequestsInv' /\ EntriesKept
<1> DEFINE r == Head(todo[p])
           rest == Tail(todo[p])
<1>1. RequestOK(p) /\ Shaped /\ TableInv /\ Apart
  BY DEF RequestsInv
<1>2. pc[p] = "exporters" /\ pc[p] \in Running /\ HoldsList(p)
  BY <1>1 DEF AddExporter, RequestOK, Running
<1>3. /\ todo' = [todo EXCEPT ![p] = rest]
      /\ UNCHANGED <<pc, query, pos, tags, apps, calls, crashed, rts, work>>
      /\ Watch
  BY DEF AddExporter, RequestFrame
<1>4. r \in ExporterRoute /\ rest \in Seq(ExporterRoute)
  BY <1>1, HeadTailProperties DEF AddExporter, RequestOK
<1> HIDE DEF rest
<1>5. Shaped' /\ OnlyOf(p) /\ todo'[p] = rest
  BY <1>1, <1>3, SetAt DEF Shaped, OnlyOf
<1>6. steady'[p] \subseteq steady[p]
  BY <1>2, <1>3, WatchShrinks
<1>7. CASE AppendTo(p, r)
  <2>1. PICK s \in Slice :
          /\ Lend(p, s)
          /\ s.len = lent[p].len + 1
          /\ heap'[s.arr] \in Seq(AllSlots)
          /\ s.len <= Len(heap'[s.arr])
          /\ \A i \in 1 .. lent[p].len : heap'[s.arr][i] = heap[lent[p].arr][i]
          /\ heap'[s.arr][lent[p].len + 1] = r
    BY <1>1, <1>2, <1>3, <1>4, <1>7, AppendLends DEF HoldsList
  <2>2. lent'[p] = s /\ s # NoSlice
    BY <1>1, <2>1, NoSliceAssumption DEF Lend, TableInv, Slice
  <2>3. ListOK(heap[lent[p].arr], lent[p].len, steady'[p])
    BY <1>2, <1>6, ListWeakened DEF HoldsList
  <2>4. ListOK(heap'[s.arr], lent[p].len + 1, steady'[p])
    BY <1>4, <2>1, <2>3, ListExtended
  <2>5. HoldsList(p)'
    BY <2>1, <2>2, <2>4 DEF HoldsList
  <2>6. RequestOK(p)'
    BY <1>1, <1>2, <1>3, <1>4, <1>5, <2>2, <2>5 DEF RequestOK
  <2> QED
    BY <1>3, <1>5, <2>1, <2>6, StepKeepsInv
<1>8. CASE UNCHANGED <<heap, lent>>
  <2>1. HoldsList(p)'
    BY <1>1, <1>2, <1>3, <1>8, StillHolds
  <2>2. RequestOK(p)'
    BY <1>1, <1>2, <1>3, <1>4, <1>5, <1>8, <2>1 DEF RequestOK
  <2>3. Lend(p, lent[p])
    BY <1>1, <1>3, <1>8, LendSame
  <2> QED
    BY <1>3, <1>5, <2>2, <2>3, StepKeepsInv
<1> QED
  BY <1>7, <1>8 DEF AddExporter

\* All is called: what was called is the list, and the slice is let go of.
LEMMA FedKeepsInv ==
  ASSUME RequestsInv, NEW p \in Readers, Fed(p)
  PROVE  RequestsInv' /\ EntriesKept
<1>1. RequestOK(p) /\ Shaped /\ TableInv /\ Apart
  BY DEF RequestsInv
<1>2. pc[p] = "feed" /\ pos[p] > lent[p].len /\ HoldsList(p) /\ pc[p] \in Running
  BY <1>1 DEF Fed, RequestOK, Running
<1>3. /\ pc' = [pc EXCEPT ![p] = "done"]
      /\ Release(p)
      /\ UNCHANGED <<query, pos, tags, apps, todo, calls, crashed, rts, work>>
      /\ Watch
  BY DEF Fed, RequestFrame
<1>4. Shaped' /\ OnlyOf(p) /\ pc'[p] = "done"
  BY <1>1, <1>3, SetAt DEF Shaped, OnlyOf
<1>5. /\ lent' = [lent EXCEPT ![p] = NoSlice] /\ lent'[p] = NoSlice
      /\ heap' = [b \in Arrays |-> IF b \in Reachable(rts, lent') THEN heap[b] ELSE << >>]
  BY <1>1, <1>3 DEF Release, Collected, TableInv
<1>6. lent[p] # NoSlice /\ lent[p].arr \in Arrays /\ lent[p].arr \notin Reachable(rts, lent')
  <2>1. lent[p] # NoSlice
    BY <1>1, <1>2 DEF RequestOK
  <2> QED
    BY <1>1, <1>5, <2>1, Abandoned, ReaderHolds
<1>7. Lend(p, NoSlice)
  BY <1>3, <1>5, <1>6 DEF Lend
<1>8. ListOK(calls[p], Len(calls[p]), steady'[p])
  <2>1. Len(calls[p]) = lent[p].len
    BY <1>1, <1>2 DEF RequestOK, HoldsList, ListOK
  <2>2. \A i \in 1 .. lent[p].len : calls[p][i] = heap[lent[p].arr][i]
    BY <1>1, <1>2 DEF RequestOK, HoldsList, ListOK
  <2>3. steady'[p] \subseteq steady[p]
    BY <1>2, <1>3, WatchShrinks
  <2> QED
    BY <1>2, <2>1, <2>2, <2>3, ListWeakened DEF HoldsList
<1>9. RequestOK(p)'
  BY <1>1, <1>3, <1>4, <1>5, <1>8 DEF RequestOK, Running
<1> QED
  BY <1>3, <1>4, <1>7, <1>9, StepKeepsInv

-----------------------------------------------------------------------------
(* Every step keeps the invariant *)

\* The subscription changes the table under the running requests.
LEMMA TableStepKeepsInv ==
  ASSUME RequestsInv, TableStep
  PROVE  RequestsInv'
<1>1. /\ TableInv /\ IsFiniteSet(Table) /\ work \in Work(Route) \cup {Idle}
      /\ Shaped /\ Apart /\ \A p \in Readers : RequestOK(p)
  BY DEF RequestsInv
<1>2. /\ FetcherNext /\ Watch
      /\ UNCHANGED <<pc, query, pos, tags, apps, todo, calls>>
  BY DEF TableStep
<1>3. /\ TableInv' /\ UNCHANGED lent /\ work' \in Work(Route) \cup {Idle}
      /\ IsFiniteSet(Table') /\ \A b \in LentArrays : heap'[b] = heap[b]
  BY <1>1, <1>2, HandlerKeepsInv, HandlerEdits, HandlerLeavesLent
<1>4. ASSUME NEW p \in Readers PROVE RequestOK(p)'
  <2>1. lent[p] # NoSlice => heap'[lent[p].arr] = heap[lent[p].arr]
    BY <1>1, <1>3, ReaderHolds
  <2>2. RequestOK(p) /\ lent'[p] = lent[p]
    BY <1>1, <1>3
  <2> QED
    BY <1>2, <2>1, <2>2, OthersKeep
<1>5. LoggedUris => ~ crashed'
  <2> SUFFICES ASSUME LoggedUris PROVE ~ crashed'
    OBVIOUS
  <2>1. \A m \in Messages : ~ DropWithoutUris(m)
    BY DEF DropWithoutUris, LoggedUris
  <2>2. UNCHANGED crashed
    BY <1>2, <2>1 DEF FetcherNext, Receive, RegisterNext, UnregisterNext
  <2> QED
    BY <2>2 DEF RequestsInv
<1>6. Shaped' /\ Apart'
  BY <1>1, <1>2, <1>3 DEF Shaped, Apart
<1>7. LoggedUris' = LoggedUris
  BY DEF LoggedUris
<1> QED
  BY <1>3, <1>4, <1>5, <1>6 DEF RequestsInv, LoggedUris

LEMMA IdleKeepsInv ==
  ASSUME RequestsInv, UNCHANGED allVars
  PROVE  RequestsInv'
<1>1. /\ UNCHANGED <<heap, rts, lent, work, crashed>>
      /\ UNCHANGED <<pc, query, pos, tags, apps, todo, calls, steady>>
  BY DEF allVars, fetcherVars, requestVars
<1>2. Table' = Table
  BY <1>1 DEF Table, Entries, Entry
<1>3. TableInv'
  BY <1>1 DEF RequestsInv, TableInv, LentArrays, Held, SlicesOf, Keys, SlicesFit
<1>4. Shaped' /\ Apart'
  BY <1>1 DEF RequestsInv, Shaped, Apart
<1>5. ASSUME NEW p \in Readers PROVE RequestOK(p)'
  <2>1. RequestOK(p)
    BY DEF RequestsInv
  <2>2. HoldsList(p)' <=> HoldsList(p)
    BY <1>1 DEF HoldsList
  <2> QED
    BY <1>1, <2>1, <2>2 DEF RequestOK
<1>6. IsFiniteSet(Table')
  BY <1>2 DEF RequestsInv
<1> QED
  BY <1>1, <1>3, <1>4, <1>5, <1>6 DEF RequestsInv, LoggedUris

LEMMA RequestStepKeepsInv ==
  ASSUME OwnQueries, RequestsInv, NEW p \in Readers, RequestStep(p)
  PROVE  RequestsInv' /\ EntriesKept
<1>1. CASE \E q \in Queries : Find(p, q)
  BY <1>1, FindKeepsInv
<1>2. CASE ReadTags(p)
  BY <1>2, ReadTagsKeepsInv
<1>3. CASE PrepareExporters(p)
  BY <1>3, PrepareExportersKeepsInv
<1>4. CASE NextApp(p)
  BY <1>4, NextAppKeepsInv
<1>5. CASE AddExporter(p)
  BY <1>5, AddExporterKeepsInv
<1>6. CASE StartFeed(p)
  BY <1>6, StartFeedKeepsInv
<1>7. CASE Feed(p)
  BY <1>7, FeedKeepsInv
<1>8. CASE Fed(p)
  BY <1>8, FedKeepsInv
<1>9. CASE Return(p)
  BY <1>9, ReturnKeepsInv
<1> QED
  BY <1>1, <1>2, <1>3, <1>4, <1>5, <1>6, <1>7, <1>8, <1>9 DEF RequestStep

LEMMA RequestsInvNext ==
  ASSUME OwnQueries, RequestsInv, [RequestNext]_allVars
  PROVE  RequestsInv'
<1>1. ASSUME NEW p \in Readers, RequestStep(p) PROVE RequestsInv'
  BY <1>1, RequestStepKeepsInv
<1>2. CASE TableStep
  BY <1>2, TableStepKeepsInv
<1>3. CASE UNCHANGED allVars
  BY <1>3, IdleKeepsInv
<1> QED
  BY <1>1, <1>2, <1>3 DEF RequestNext

-----------------------------------------------------------------------------
(* What it says *)

\* The routes called so far are the beginning of a list, or none.
LEMMA CallsAreAList ==
  ASSUME NEW p \in Readers, RequestOK(p)
  PROVE  calls[p] = << >> \/ ListOK(calls[p], Len(calls[p]), {})
<1>1. CASE pc[p] = "feed"
  <2> DEFINE n == Len(calls[p])
             q == heap[lent[p].arr]
             m == lent[p].len
  <2>1. /\ ListOK(q, m, steady[p])
        /\ n \in Nat /\ m \in Nat /\ n <= m
        /\ \A i \in 1 .. n : calls[p][i] = q[i]
    BY <1>1 DEF RequestOK, HoldsList, ListOK, Running
  <2>2. CASE n = 0
    BY <2>2, EmptySeq DEF RequestOK
  <2>3. CASE n # 0
    <3>1. 1 .. n \subseteq 1 .. m /\ 1 \in 1 .. n
      BY <2>1, <2>3
    <3> HIDE DEF n, q, m
    <3>2. ListOK(calls[p], n, {})
      BY <2>1, <2>3, <3>1 DEF ListOK
    <3> QED
      BY <3>2 DEF n
  <2> QED
    BY <2>2, <2>3
<1>2. CASE pc[p] = "done"
  <2>1. ListOK(calls[p], Len(calls[p]), steady[p])
    BY <1>2 DEF RequestOK
  <2> QED
    BY <2>1, ListWeakened
<1>3. CASE pc[p] \notin {"feed", "done"}
  BY <1>3 DEF RequestOK
<1> QED
  BY <1>1, <1>2, <1>3

LEMMA InvImpliesType == RequestsInv => RequestTypeOK
<1> SUFFICES ASSUME RequestsInv PROVE RequestTypeOK
  OBVIOUS
<1>1. TableInv /\ Shaped /\ \A p \in Readers : RequestOK(p)
  BY DEF RequestsInv
<1>2. ASSUME NEW a \in Arrays PROVE heap[a] \in Seq(AllSlots)
  <2>1. CASE a \notin LentArrays
    <3>1. heap[a] \in Seq(Slots) /\ Slots \subseteq AllSlots
      BY <1>1, <2>1 DEF TableInv, Slots, AllSlots, AllRoutes
    <3> QED
      BY <3>1, SeqDef, LenProperties
  <2>2. CASE a \in LentArrays
    <3>1. PICK p \in Readers : lent[p] # NoSlice /\ lent[p].arr = a
      BY <1>1, <2>2, LentByReader DEF LentArrays, TableInv
    <3> QED
      BY <1>1, <3>1 DEF RequestOK, HoldsList
  <2> QED
    BY <2>1, <2>2
<1>3. TableTypeOK(Route \cup ExporterRoute \cup {Nil})
  BY <1>1, <1>2 DEF TableTypeOK, TableInv, AllSlots, AllRoutes
<1>4. pc \in [Readers -> Running \cup {"idle", "done", "panicked"}]
  BY <1>1 DEF Shaped, RequestOK
<1>5. query \in [Readers -> Queries \cup {Nil}]
  BY <1>1 DEF Shaped, RequestOK
<1>6. calls \in [Readers -> Seq(Route \cup ExporterRoute)]
  BY <1>1 DEF Shaped, RequestOK, AllRoutes
<1>7. \A p \in Readers : (lent[p] # NoSlice <=> pc[p] \in Running) /\ pos[p] \in Nat
  BY <1>1 DEF RequestOK
<1> QED
  BY <1>3, <1>4, <1>5, <1>6, <1>7 DEF RequestTypeOK

LEMMA InvImpliesAllCalled == RequestsInv => AllInstancesCalled
<1> SUFFICES ASSUME RequestsInv, NEW p \in Readers, pc[p] \in {"done", "panicked"},
                    NEW x \in steady[p]
             PROVE  \E r \in Range(calls[p]) : x = r.addr
  BY DEF AllInstancesCalled
<1>1. ListOK(calls[p], Len(calls[p]), steady[p]) /\ calls[p] \in Seq(AllRoutes)
  BY DEF RequestsInv, RequestOK, Running
<1>2. PICK i \in 1 .. Len(calls[p]) : calls[p][i].addr = x
  BY <1>1 DEF ListOK
<1>3. calls[p][i] \in Range(calls[p])
  BY <1>1, <1>2, LenProperties DEF Range
<1> QED
  BY <1>2, <1>3

LEMMA InvImpliesOnce == RequestsInv => CalledOnce
<1> SUFFICES ASSUME RequestsInv, NEW p \in Readers
             PROVE  \A i, j \in 1 .. Len(calls[p]) :
                      /\ calls[p][i].addr = calls[p][j].addr
                      /\ calls[p][i].type = "web" /\ calls[p][j].type = "web"
                      => i = j
  BY DEF CalledOnce
<1>1. calls[p] = << >> \/ ListOK(calls[p], Len(calls[p]), {})
  BY CallsAreAList DEF RequestsInv
<1>2. CASE calls[p] = << >>
  BY <1>2
<1>3. CASE ListOK(calls[p], Len(calls[p]), {})
  BY <1>3 DEF ListOK
<1> QED
  BY <1>1, <1>2, <1>3

LEMMA InvImpliesFits == RequestsInv => QueueFitsPool
<1> SUFFICES ASSUME RequestsInv, NEW p \in Readers
             PROVE  /\ calls[p] # << >> => calls[p][1].type = "web"
                    /\ \A i, j \in 1 .. Len(calls[p]) :
                         i < j /\ calls[p][j].type = "web" => calls[p][i].type = "web"
                    /\ pc[p] = "done" => calls[p] # << >>
  BY DEF QueueFitsPool
<1>1. calls[p] = << >> \/ ListOK(calls[p], Len(calls[p]), {})
  BY CallsAreAList DEF RequestsInv
<1>2. pc[p] = "done" => calls[p] # << >>
  <2> SUFFICES ASSUME pc[p] = "done" PROVE calls[p] # << >>
    OBVIOUS
  <2>1. Len(calls[p]) # 0
    BY DEF RequestsInv, RequestOK, ListOK
  <2> QED
    BY <2>1
<1>3. CASE calls[p] = << >>
  BY <1>2, <1>3
<1>4. CASE ListOK(calls[p], Len(calls[p]), {})
  BY <1>2, <1>4 DEF ListOK
<1> QED
  BY <1>1, <1>3, <1>4

-----------------------------------------------------------------------------
LEMMA RequestsInvAlways == OwnQueries => (RequestSpec => []RequestsInv)
<1> SUFFICES ASSUME OwnQueries PROVE RequestSpec => []RequestsInv
  OBVIOUS
<1>1. RequestInit => RequestsInv
  BY RequestsInvInit
<1>2. RequestsInv /\ [RequestNext]_allVars => RequestsInv'
  BY RequestsInvNext
<1> QED
  BY <1>1, <1>2, PTL DEF RequestSpec

\* Arrays hold routes and nils, and a request holds a slice exactly while it
\* works on one, however requests and the subscription interleave.
THEOREM RequestsTypeCorrect == OwnQueries => (RequestSpec => []RequestTypeOK)
<1> SUFFICES ASSUME OwnQueries PROVE RequestSpec => []RequestTypeOK
  OBVIOUS
<1>1. RequestSpec => []RequestsInv
  BY RequestsInvAlways
<1>2. RequestsInv => RequestTypeOK
  BY InvImpliesType
<1> QED
  BY <1>1, <1>2, PTL

\* Metrics calls every instance that stays in the table for the query while
\* the request runs.
THEOREM EveryInstanceCalled == OwnQueries => (RequestSpec => []AllInstancesCalled)
<1> SUFFICES ASSUME OwnQueries PROVE RequestSpec => []AllInstancesCalled
  OBVIOUS
<1>1. RequestSpec => []RequestsInv
  BY RequestsInvAlways
<1>2. RequestsInv => AllInstancesCalled
  BY InvImpliesAllCalled
<1> QED
  BY <1>1, <1>2, PTL

\* Metrics calls no instance twice in a request, whatever URIs it is mapped to.
THEOREM NeverCalledTwice == OwnQueries => (RequestSpec => []CalledOnce)
<1> SUFFICES ASSUME OwnQueries PROVE RequestSpec => []CalledOnce
  OBVIOUS
<1>1. RequestSpec => []RequestsInv
  BY RequestsInvAlways
<1>2. RequestsInv => CalledOnce
  BY InvImpliesOnce
<1> QED
  BY <1>1, <1>2, PTL

\* The queue Metrics feeds starts with an instance and has no instance behind
\* an exporter: what the pool of MetricsFetcher.tla takes for granted.
THEOREM QueueAlwaysFitsPool == OwnQueries => (RequestSpec => []QueueFitsPool)
<1> SUFFICES ASSUME OwnQueries PROVE RequestSpec => []QueueFitsPool
  OBVIOUS
<1>1. RequestSpec => []RequestsInv
  BY RequestsInvAlways
<1>2. RequestsInv => QueueFitsPool
  BY InvImpliesFits
<1> QED
  BY <1>1, <1>2, PTL

\* The exporters that requests append to their slices never reach the table.
THEOREM NeverForeignRoutes == OwnQueries => (RequestSpec => []NoForeignRoutes)
<1> SUFFICES ASSUME OwnQueries PROVE RequestSpec => []NoForeignRoutes
  OBVIOUS
<1>1. RequestSpec => []RequestsInv
  BY RequestsInvAlways
<1>2. RequestsInv => NoForeignRoutes
  BY TableOfRoutes DEF RequestsInv, NoForeignRoutes
<1> QED
  BY <1>1, <1>2, PTL

\* No worker is handed nil, and no message ends the process, when each that is
\* dropped has a URI to log.
THEOREM NeverCrashes == OwnQueries /\ LoggedUris => (RequestSpec => []NoCrash)
<1> SUFFICES ASSUME OwnQueries, LoggedUris PROVE RequestSpec => []NoCrash
  OBVIOUS
<1>1. RequestSpec => []RequestsInv
  BY RequestsInvAlways
<1>2. RequestsInv => NoCrash
  BY DEF RequestsInv, NoCrash
<1> QED
  BY <1>1, <1>2, PTL

-----------------------------------------------------------------------------
(* The table with the requests at work *)

\* What a request does is nothing to the table.
LEMMA KeptTable ==
  ASSUME TableOK, EntriesKept
  PROVE  TableOK' /\ UNCHANGED <<Registered, work>>
<1>1. /\ rts' = rts /\ work' = work /\ Keys' = Keys
      /\ \A k \in Keys : heap'[rts[k].arr] = heap[rts[k].arr]
  BY DEF EntriesKept, Keys
<1>2. \A k \in Keys : \A i \in 1 .. rts[k].len : Entry(rts[k], i)' = Entry(rts[k], i)
  BY <1>1 DEF Entry
<1>3. SlicesFit' /\ NoSharing' /\ NoNilEntry'
  BY <1>1, <1>2 DEF TableOK, SlicesFit, NoSharing, NoNilEntry
<1>4. OneEntryPerInstance'
  BY <1>1, <1>2 DEF TableOK, OneEntryPerInstance
<1>5. \A k \in Keys : Entries(rts[k])' = Entries(rts[k])
  BY <1>1, <1>2 DEF Entries
<1>6. Registered' = Registered
  BY <1>1, <1>5 DEF Registered, Keys
<1> QED
  BY <1>1, <1>3, <1>4, <1>6 DEF TableOK

LEMMA TableFollows ==
  ASSUME OwnQueries, NormalUris, RequestsInv, TableOK, [RequestNext]_allVars
  PROVE  TableOK' /\ [Registry!Next]_<<Registered, work>>
<1>1. CASE \E p \in Readers : RequestStep(p)
  BY <1>1, RequestStepKeepsInv, KeptTable
<1>2. ASSUME [FetcherNext]_fetcherVars
      PROVE  TableOK' /\ [Registry!Next]_<<Registered, work>>
  BY <1>2, HandlerStep DEF RequestsInv
<1>3. TableStep \/ UNCHANGED allVars => [FetcherNext]_fetcherVars
  BY DEF TableStep, allVars
<1> QED
  BY <1>1, <1>2, <1>3 DEF RequestNext

LEMMA SoundAlways ==
  OwnQueries /\ NormalUris => (RequestSpec => [](RequestsInv /\ TableOK))
<1> SUFFICES ASSUME OwnQueries, NormalUris
             PROVE  RequestSpec => [](RequestsInv /\ TableOK)
  OBVIOUS
<1>1. RequestInit => RequestsInv /\ TableOK
  BY RequestsInvInit, TableOKInit DEF RequestInit
<1>2. RequestsInv /\ TableOK /\ [RequestNext]_allVars => (RequestsInv /\ TableOK)'
  BY RequestsInvNext, TableFollows
<1> QED
  BY <1>1, <1>2, PTL DEF RequestSpec

\* The table stays sound while requests run: slices apart, no nil entry, one
\* entry per instance.
THEOREM TableSoundWithRequests ==
  OwnQueries /\ NormalUris => (RequestSpec => []TableOK)
<1> SUFFICES ASSUME OwnQueries, NormalUris PROVE RequestSpec => []TableOK
  OBVIOUS
<1> QED
  BY SoundAlways, PTL

\* And it goes on implementing the abstract table: no request is a step of it,
\* though each shares the arrays with the subscription.
THEOREM RefinementWithRequests ==
  OwnQueries /\ NormalUris => (RequestSpec => ImplementsRegistry)
<1> SUFFICES ASSUME OwnQueries, NormalUris PROVE RequestSpec => ImplementsRegistry
  OBVIOUS
<1>1. RequestInit => Registry!Init
  BY DEF RequestInit, Init, TableInit, Registry!Init, Registered
<1>2. RequestsInv /\ TableOK /\ [RequestNext]_allVars
        => [Registry!Next]_<<Registered, work>>
  BY TableFollows
<1> QED
  BY <1>1, <1>2, SoundAlways, PTL DEF RequestSpec, ImplementsRegistry, Registry!Spec
=============================================================================
