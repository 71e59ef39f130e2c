----------------------------- MODULE RouteTable -----------------------------
(***************************************************************************)
(* models/route.go: the in-memory routing table, map[Uri][]*Route, behind  *)
(* one package-level RWMutex.                                              *)
(*                                                                         *)
(* The entries of the map are Go slices, and what can go wrong here is     *)
(* sharing of their backing arrays, so the model keeps them: heap holds    *)
(* the backing arrays (the length of heap[a] is the capacity of array a),  *)
(* a slice is an array and a length, and lent holds the slices that        *)
(* FindByRouteName handed to a caller, which go on using them after the    *)
(* read lock is released.  RegisterRoute and UnregisterRoute hold the      *)
(* write lock for the whole call, so each is one atomic step.              *)
(***************************************************************************)
EXTENDS Naturals, Sequences, FiniteSets, Uris, Routes

CONSTANTS
  Uri,      \* the URIs in use: those of messages and queries, and their keys
  Arrays,   \* backing arrays; finite for TLC, large enough never to run out
  Readers,  \* callers that may hold a slice returned by FindByRouteName
  NoSlice   \* the map has no entry (or a reader holds no slice)

ASSUME UriAssumption ==
  /\ Uri \subseteq UriRecords
  /\ \A u \in Uri : RouteKey(u) \in Uri

ASSUME NoSliceAssumption == NoSlice \notin [arr : Arrays, len : Nat]

\* Every slice may need an array of its own, and append one more.
ASSUME ArraysAssumption ==
  IsFiniteSet(Arrays) =>
    Cardinality(Arrays) > Cardinality(Uri) + Cardinality(Readers)

VARIABLES heap, rts, lent

tableVars == <<heap, rts, lent>>

Slice == [arr : Arrays, len : Nat]

TableInit ==
  /\ heap = [a \in Arrays |-> << >>]
  /\ rts  = [k \in Uri |-> NoSlice]
  /\ lent = [p \in Readers |-> NoSlice]

-----------------------------------------------------------------------------
(* Slices *)

Entry(s, i) == heap[s.arr][i]

Entries(s) == {Entry(s, i) : i \in 1 .. s.len}

Held(slices) == {s.arr : s \in slices \ {NoSlice}}

SlicesOf(f) == {f[x] : x \in DOMAIN f}

\* Arrays a map entry or a reader can reach.
Reachable(table, readers) == Held(SlicesOf(table) \cup SlicesOf(readers))

Free == Arrays \ Reachable(rts, lent)

\* The garbage collector: what nobody reaches is empty again.
Collected(h, live) == [a \in Arrays |-> IF a \in live THEN h[a] ELSE << >>]

\* Capacity append gives a full slice of capacity c (growslice below 256).
GrowCap(c) == IF c = 0 THEN 1 ELSE 2 * c

\* The array append allocates for a full slice: the old entries, the new one,
\* and nil up to the new capacity.
Grown(old, r) ==
  [i \in 1 .. GrowCap(Len(old)) |->
     IF i <= Len(old) THEN old[i] ELSE IF i = Len(old) + 1 THEN r ELSE Nil]

-----------------------------------------------------------------------------
(* The slots of a slice that hold a given instance *)

\* Mutant: the search starts at the second slot.
EqualAtFromSecond(s, r) == {i \in 2 .. s.len : Equal(r, Entry(s, i))}

EqualAt(s, r) == {i \in 1 .. s.len : Equal(r, Entry(s, i))}

FirstOf(I) == CHOOSE i \in I : \A j \in I : i <= j

-----------------------------------------------------------------------------
(* RegisterRoute *)

RegisterNewKey(k, r) ==
  /\ rts[k] = NoSlice
  /\ \E a \in Free :
       /\ rts'  = [rts EXCEPT ![k] = [arr |-> a, len |-> 1]]
       /\ heap' = [heap EXCEPT ![a] = <<r>>]

\* Mutant: a known instance is left as it is.
UpdateEntrySkipped(k, r) ==
  /\ rts[k] # NoSlice
  /\ EqualAt(rts[k], r) # {}
  /\ UNCHANGED <<heap, rts>>

UpdateEntry(k, r) ==
  LET s     == rts[k]
      stale == {i \in EqualAt(s, r) : NeedUpdate(r, Entry(s, i))}
  IN  /\ s # NoSlice
      /\ EqualAt(s, r) # {}
      /\ heap' = IF stale = {} THEN heap
                 ELSE [heap EXCEPT ![s.arr][FirstOf(stale)] = r]
      /\ UNCHANGED rts

\* append: into the spare capacity when there is some, else into a new array.
AppendEntry(k, r) ==
  LET s == rts[k]
  IN  /\ s # NoSlice
      /\ EqualAt(s, r) = {}
      /\ \/ /\ s.len < Len(heap[s.arr])
            /\ heap' = [heap EXCEPT ![s.arr][s.len + 1] = r]
            /\ rts'  = [rts EXCEPT ![k] = [arr |-> s.arr, len |-> s.len + 1]]
         \/ /\ s.len = Len(heap[s.arr])
            /\ \E a \in Free :
                 /\ rts'  = [rts EXCEPT ![k] = [arr |-> a, len |-> s.len + 1]]
                 /\ heap' = Collected([heap EXCEPT ![a] = Grown(heap[s.arr], r)],
                                      Reachable(rts', lent))

RegisterRoute(uri, r) ==
  LET k == RouteKey(uri)
  IN  /\ RegisterNewKey(k, r) \/ UpdateEntry(k, r) \/ AppendEntry(k, r)
      /\ UNCHANGED lent

-----------------------------------------------------------------------------
(* UnregisterRoute: the last entry moves into the hole, its old slot becomes *)
(* nil, and the shortened slice is stored under uri, not under its key.      *)

UnregisterRoute(uri, r) ==
  LET k == RouteKey(uri)
      s == rts[k]
      i == FirstOf(EqualAt(s, r))
  IN  /\ IF s = NoSlice \/ EqualAt(s, r) = {}
         THEN UNCHANGED <<heap, rts>>
         ELSE /\ rts'  = [rts EXCEPT ![uri] = [arr |-> s.arr, len |-> s.len - 1]]
              /\ heap' = Collected(
                           [heap EXCEPT ![s.arr][i]     = Entry(s, s.len),
                                        ![s.arr][s.len] = Nil],
                           Reachable(rts', lent))
      /\ UNCHANGED lent

-----------------------------------------------------------------------------
(* Lookups.  FindById and FindByOrgSpaceName walk the whole map under the    *)
(* read lock and build a new slice: one route of each address, whichever the *)
(* map iteration meets first.  FindByRouteName returns the map's own slice.  *)

Table ==
  (UNION {Entries(rts[k]) : k \in {u \in Uri : rts[u] # NoSlice}}) \ {Nil}

\* Mutant: duplicates are recognised by application.
OnePerApp(R) ==
  {S \in SUBSET R : /\ \A r, q \in S : r.app = q.app => r = q
                    /\ \A r \in R : \E q \in S : q.app = r.app}

\* Mutant: duplicates are kept.
AllOfThem(R) == {R}

OnePerAddress(R) ==
  {S \in SUBSET R : /\ \A r, q \in S : r.addr = q.addr => r = q
                    /\ \A r \in R : \E q \in S : q.addr = r.addr}

FindById(app) ==
  OnePerAddress({r \in Table : r.type = "web" /\ r.app = app})

FindByOrgSpaceName(path) ==
  OnePerAddress({r \in Table : r.type = "web" /\ r.path = path})

FindByRouteName(name) == rts[RouteKey(name)]
=============================================================================
