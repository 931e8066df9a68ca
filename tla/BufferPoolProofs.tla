-------------------------- MODULE BufferPoolProofs --------------------------
(***************************************************************************)
(* For every number of pages, frames and clients and every k: the pool's   *)
(* handles stay valid, its maps and free lists stay consistent, its        *)
(* unchecked accesses are safe, and what it caches is what the file holds. *)
(***************************************************************************)
EXTENDS BufferPoolInvariant, FiniteSetTheorems, TLAPS

-----------------------------------------------------------------------------
(* Lemmas, and fetches that evict nothing.                                 *)

\* Finite parts of the pool have a cardinality.
LEMMA Finite ==
  ASSUME TypeOK
  PROVE  /\ IsFiniteSet(fresh_free) /\ IsFiniteSet(page_free) /\ IsFiniteSet(evictable)
         /\ Cardinality(fresh_free) \in Nat /\ Cardinality(page_free) \in Nat
         /\ Cardinality(evictable) \in Nat
         /\ \A b \in Buffers : IsFiniteSet(Holders(b)) /\ Cardinality(Holders(b)) \in Nat
<1>1. IsFiniteSet(fresh_free) /\ IsFiniteSet(page_free) /\ IsFiniteSet(evictable)
  BY FS_Subset, PoolAssumption DEF TypeOK
<1>2. \A b \in Buffers : IsFiniteSet(Holders(b))
  <2>1. \A b \in Buffers : Holders(b) \in SUBSET Clients
    BY DEF Holders
  <2> QED BY <2>1, FS_Subset, PoolAssumption
<1> QED BY <1>1, <1>2, FS_CardinalityType

\* What the inductive invariant says of the pool's unchecked accesses and of the
\* "pool full" error.
LEMMA Consequences ==
  ASSUME IInv
  PROVE  AcquireSafe /\ FullMeansPinned
<1> USE DEF IInv
<1>1. fresh_free # {} => page_free # {}
  BY Finite, FS_EmptySet DEF FreeMatch
<1>2. evictable_count > 0 => tracked \cap evictable # {}
  <2>1. evictable_count > 0 => evictable # {}
    BY FS_EmptySet DEF ReplacerAgrees
  <2>2. evictable \subseteq tracked
    BY DEF ReplacerAgrees, TypeOK
  <2> QED BY <2>1, <2>2
<1>3. \A f \in tracked \cap evictable : fresh_slots[f] # None /\ pin_count[fresh_slots[f]] = 0
  BY DEF ReplacerAgrees, TypeOK
<1>4. ASSUME fresh_free = {}, evictable_count = 0, NEW f \in Frames
      PROVE  \E c \in Clients : held[c] # None /\ held[c].buf = fresh_slots[f]
  <2>1. fresh_slots[f] \in Buffers
    BY <1>4 DEF TypeOK, PoolConsistent
  <2>2. pin_count[fresh_slots[f]] # 0
    BY <1>4, <2>1, Finite, FS_EmptySet, PoolAssumption, Zenon DEF ReplacerAgrees
  <2>3. Holders(fresh_slots[f]) # {}
    BY <2>1, <2>2, FS_EmptySet DEF PinsExact
  <2> QED BY <2>3 DEF Holders
<1> QED BY <1>1, <1>2, <1>3, <1>4 DEF AcquireSafe, FullMeansPinned

\* The constructor of BufferPool establishes the invariant.
LEMMA InitInv == Init => IInv
<1> SUFFICES ASSUME Init PROVE IInv
  OBVIOUS
<1> USE DEF Init
<1>1. TypeOK
  BY PoolAssumption DEF TypeOK
<1>2. PoolConsistent /\ HandlesValid /\ WritersHold /\ CachedExist /\ Coherent
  BY PoolAssumption DEF PoolConsistent, HandlesValid, WritersHold, CachedExist, Coherent
<1>3. PinsExact
  <2>1. \A b \in Buffers : Holders(b) = {}
    BY DEF Holders
  <2> QED BY <2>1, FS_EmptySet, Zenon DEF PinsExact
<1>4. ReplacerAgrees /\ FreeMatch
  BY FS_EmptySet, PoolAssumption DEF ReplacerAgrees, FreeMatch
<1> QED BY <1>1, <1>2, <1>3, <1>4 DEF IInv
-----------------------------------------------------------------------------
\* A new handle adds one to the holders of its page object.
LEMMA AddHandle ==
  ASSUME TypeOK, NEW c \in Clients, held[c] = None, NEW h \in Handles,
         held' = [held EXCEPT ![c] = h]
  PROVE  \A b \in Buffers :
           Cardinality(Holders(b)') = IF b = h.buf THEN Cardinality(Holders(b)) + 1
                                      ELSE Cardinality(Holders(b))
<1> TAKE b \in Buffers
<1>0. h # None /\ held'[c] = h
  BY PoolAssumption DEF TypeOK
<1>1. CASE b = h.buf
  <2>1. Holders(b)' = Holders(b) \cup {c} /\ c \notin Holders(b)
    BY <1>0, <1>1 DEF Holders, TypeOK
  <2> QED BY <1>1, <2>1, FS_AddElement, Finite, Zenon
<1>2. CASE b # h.buf
  <2>1. Holders(b)' = Holders(b)
    BY <1>0, <1>2 DEF Holders, TypeOK
  <2> QED BY <1>2, <2>1
<1> QED BY <1>1, <1>2

\* A dropped handle takes one away.
LEMMA DropHandle ==
  ASSUME TypeOK, NEW c \in Clients, held[c] # None, held' = [held EXCEPT ![c] = None]
  PROVE  \A b \in Buffers :
           Cardinality(Holders(b)') = IF b = held[c].buf THEN Cardinality(Holders(b)) - 1
                                      ELSE Cardinality(Holders(b))
<1> TAKE b \in Buffers
<1>0. held'[c] = None
  BY DEF TypeOK
<1>1. CASE b = held[c].buf
  <2>1. Holders(b)' = Holders(b) \ {c} /\ c \in Holders(b)
    BY <1>0, <1>1 DEF Holders, TypeOK
  <2> QED BY <1>1, <2>1, FS_RemoveElement, Finite, ZenonT(30)
<1>2. CASE b # held[c].buf
  <2>1. Holders(b)' = Holders(b)
    BY <1>0, <1>2 DEF Holders, TypeOK
  <2> QED BY <1>2, <2>1
<1> QED BY <1>1, <1>2

\* The replacer's count follows its set: pin takes one frame out, unpin puts one in.
LEMMA PinCounts ==
  ASSUME TypeOK, evictable_count = Cardinality(evictable), NEW f \in Frames, pin(f)
  PROVE  /\ evictable' \subseteq Frames /\ evictable_count' \in Nat
         /\ evictable_count' = Cardinality(evictable')
<1>1. evictable_count' = Cardinality(evictable')
  BY FS_RemoveElement, Finite, Zenon DEF pin, CountWithout
<1>2. evictable' \subseteq Frames
  BY DEF TypeOK, pin
<1>3. Cardinality(evictable') \in Nat
  BY <1>2, FS_Subset, FS_CardinalityType, PoolAssumption
<1> QED BY <1>1, <1>2, <1>3

\* What dropping a handle does to the number of handles on each page.
LEMMA UnpinCounts ==
  ASSUME TypeOK, evictable_count = Cardinality(evictable), NEW f \in Frames, unpin(f)
  PROVE  /\ evictable' \subseteq Frames /\ evictable_count' \in Nat
         /\ evictable_count' = Cardinality(evictable')
<1>1. evictable_count' = Cardinality(evictable')
  BY FS_AddElement, Finite, Zenon DEF unpin
<1>2. evictable' \subseteq Frames
  BY DEF TypeOK, unpin
<1>3. evictable_count' \in Nat
  BY DEF TypeOK, unpin
<1> QED BY <1>1, <1>2, <1>3

\* record_access keeps the history a sequence of times.
LEMMA RecordTypes ==
  ASSUME TypeOK, NEW f \in Frames, NEW h \in Seq(Nat), record_access(f, h)
  PROVE  /\ counter' \in Nat /\ tracked' \subseteq Frames
         /\ history' \in [Frames -> Seq(Nat)]
<1>1. counter' \in Nat /\ tracked' \subseteq Frames
  BY DEF TypeOK, record_access
<1>2. Recorded(h, counter') \in Seq(Nat)
  <2>1. Len(h) >= k => h # <<>>
    BY PoolAssumption
  <2> QED BY <1>1, <2>1, PoolAssumption DEF Recorded
<1> QED BY <1>1, <1>2 DEF TypeOK, record_access
-----------------------------------------------------------------------------
(***************************************************************************)
(* One lemma per action: it preserves the inductive invariant.             *)
(***************************************************************************)

\* fetch_page of a cached page preserves the invariant.
LEMMA FetchHitInv ==
  ASSUME IInv, NEW c \in Clients, NEW p \in Pages, FetchHit(c, p)
  PROVE  IInv'
<1> DEFINE f == page_table[p]
           b == fresh_slots[f]
           h == [page |-> p, buf |-> b]
<1> USE DEF IInv
<1>1. f \in Frames /\ b \in Buffers /\ page_id[b] = p /\ b # None
  BY PoolAssumption DEF FetchHit, TypeOK, PoolConsistent
<1>2. h \in Handles /\ h.buf = b /\ h.page = p /\ h # None
  BY <1>1, PoolAssumption DEF Handles
<1>3. /\ held[c] = None /\ held' = [held EXCEPT ![c] = h]
      /\ pin_count' = [pin_count EXCEPT ![b] = @ + 1]
      /\ record_access(f, history[f]) /\ pin(f)
      /\ UNCHANGED <<allocated, disk, page_table, fresh_slots, fresh_free, page_free, page_id,
                     version, unwritten>>
  BY DEF FetchHit
<1> HIDE DEF f, b, h
<1>4. TypeOK'
  <2>1. history[f] \in Seq(Nat)
    BY <1>1 DEF TypeOK
  <2>2. pin_count' \in [Buffers -> Nat]
    BY <1>1, <1>3 DEF TypeOK
  <2>3. held' \in [Clients -> Handles \cup {None}]
    BY <1>2, <1>3 DEF TypeOK
  <2> QED BY <1>1, <1>3, <2>1, <2>2, <2>3, RecordTypes, PinCounts DEF TypeOK, ReplacerAgrees
<1>5. PoolConsistent' /\ FreeMatch' /\ CachedExist'
  BY <1>3 DEF PoolConsistent, FreeMatch, CachedExist
<1>6. HandlesValid' /\ WritersHold'
  <2>1. f = page_table[p] /\ b = fresh_slots[f] /\ f # None
    BY <1>1, PoolAssumption DEF f, b
  <2> QED BY <1>1, <1>2, <1>3, <2>1 DEF HandlesValid, WritersHold, TypeOK
<1>7. PinsExact'
  BY <1>1, <1>2, <1>3, AddHandle, Finite, Zenon DEF PinsExact, TypeOK
<1>8. ReplacerAgrees'
  <2>1. \A g \in Frames : g # f => fresh_slots[g] # b
    BY <1>1 DEF PoolConsistent, b
  <2>2. \A g \in Frames : g \in tracked' <=> fresh_slots'[g] # None
    BY <1>1, <1>3 DEF ReplacerAgrees, record_access, b
  <2>3. \A g \in Frames :
          g \in evictable' <=> fresh_slots'[g] # None /\ pin_count'[fresh_slots'[g]] = 0
    <3> TAKE g \in Frames
    <3>1. CASE g = f
      <4>1. pin_count'[b] # 0 /\ fresh_slots'[f] = b
        BY <1>1, <1>3 DEF TypeOK, b
      <4> QED BY <3>1, <4>1, <1>3 DEF pin
    <3>2. CASE g # f
      <4>1. fresh_slots[g] # None => pin_count'[fresh_slots[g]] = pin_count[fresh_slots[g]]
        BY <1>3, <2>1, <3>2 DEF TypeOK
      <4> QED BY <1>3, <3>2, <4>1 DEF ReplacerAgrees, pin
    <3> QED BY <3>1, <3>2
  <2> QED BY <1>1, <1>3, <2>2, <2>3, PinCounts DEF ReplacerAgrees
<1>9. Coherent'
  BY <1>3 DEF Coherent, WritersHold, TypeOK
<1> QED BY <1>4, <1>5, <1>6, <1>7, <1>8, <1>9
\* A miss gives the client the only handle to page object b: the part of a miss that
\* is the same with and without an eviction.
LEMMA MissHandle ==
  ASSUME TypeOK, PinsExact, WritersHold,
         NEW c \in Clients, NEW p \in Pages, NEW b \in Buffers,
         held[c] = None, Holders(b) = {},
         held' = [held EXCEPT ![c] = [page |-> p, buf |-> b]],
         pin_count' = [pin_count EXCEPT ![b] = 1], UNCHANGED unwritten
  PROVE  PinsExact' /\ WritersHold' /\ held' \in [Clients -> Handles \cup {None}]
<1> DEFINE h == [page |-> p, buf |-> b]
<1>1. h \in Handles /\ h.buf = b /\ h # None
  BY PoolAssumption DEF Handles
<1>2. \A d \in Buffers : Cardinality(Holders(d)') =
                           IF d = b THEN Cardinality(Holders(d)) + 1 ELSE Cardinality(Holders(d))
  BY <1>1, AddHandle, Zenon
<1>3. PinsExact'
  <2>1. Cardinality(Holders(b)) = 0
    BY FS_EmptySet
  <2>2. \A d \in Buffers : pin_count'[d] = IF d = b THEN 1 ELSE pin_count[d]
    BY DEF TypeOK
  <2> QED BY <1>2, <2>1, <2>2 DEF PinsExact
<1>4. WritersHold' /\ held' \in [Clients -> Handles \cup {None}]
  BY <1>1 DEF WritersHold, TypeOK
<1> QED BY <1>3, <1>4

\* fetch_page into a free slot preserves the invariant.
LEMMA FetchFreeInv ==
  ASSUME IInv, NEW c \in Clients, NEW p \in Pages, FetchFree(c, p)
  PROVE  IInv'
<1> USE DEF IInv
<1>0. PICK f \in fresh_free, b \in page_free :
       /\ fresh_free' = fresh_free \ {f} /\ page_free' = page_free \ {b}
       /\ fresh_slots' = [fresh_slots EXCEPT ![f] = b]
       /\ page_table' = [page_table EXCEPT ![p] = f]
       /\ page_id' = [page_id EXCEPT ![b] = p]
       /\ version' = [version EXCEPT ![b] = disk[p]]
       /\ pin_count' = [pin_count EXCEPT ![b] = 1]
       /\ record_access(f, history[f]) /\ pin(f)
       /\ held' = [held EXCEPT ![c] = [page |-> p, buf |-> b]]
  BY Zenon DEF FetchFree
<1>1. /\ held[c] = None /\ page_table[p] = None /\ p \in allocated
      /\ UNCHANGED <<allocated, disk, unwritten>>
  BY DEF FetchFree
<1>2. f \in Frames /\ b \in Buffers /\ b # None /\ f # None /\ p # None
  BY PoolAssumption DEF TypeOK
<1>3. /\ fresh_slots[f] = None
      /\ \A g \in Frames : fresh_slots[g] # b
      /\ \A q \in Pages : page_table[q] # f
  BY <1>2 DEF PoolConsistent
<1>4. \A d \in Clients : held[d] # None => held[d].buf # b /\ held[d].page # p
  BY <1>1, <1>3 DEF HandlesValid, TypeOK, Handles
<1>5. Holders(b) = {}
  BY <1>4 DEF Holders
<1>6. PinsExact' /\ WritersHold' /\ held' \in [Clients -> Handles \cup {None}]
  BY <1>0, <1>1, <1>2, <1>5, MissHandle, Zenon DEF TypeOK
<1>7. TypeOK'
  <2>1. history[f] \in Seq(Nat)
    BY <1>2 DEF TypeOK
  <2>2. /\ page_table' \in [Pages -> Frames \cup {None}]
        /\ fresh_slots' \in [Frames -> Buffers \cup {None}]
        /\ page_id' \in [Buffers -> Pages \cup {None}]
        /\ version' \in [Buffers -> Nat] /\ pin_count' \in [Buffers -> Nat]
    BY <1>0, <1>2 DEF TypeOK
  <2>3. /\ allocated' \subseteq Pages /\ disk' \in [Pages -> Nat] /\ unwritten' \subseteq Clients
        /\ fresh_free' \subseteq Frames /\ page_free' \subseteq Buffers
    BY <1>0, <1>1 DEF TypeOK
  <2> QED BY <1>0, <1>2, <1>6, <2>1, <2>2, <2>3, RecordTypes, PinCounts, Zenon DEF TypeOK, ReplacerAgrees
<1>8. PoolConsistent'
  <2>1. \A g \in Frames : fresh_slots'[g] = IF g = f THEN b ELSE fresh_slots[g]
    BY <1>0 DEF TypeOK
  <2>2. \A q \in Pages : page_table'[q] = IF q = p THEN f ELSE page_table[q]
    BY <1>0 DEF TypeOK
  <2>3. \A d \in Buffers : page_id'[d] = IF d = b THEN p ELSE page_id[d]
    BY <1>0 DEF TypeOK
  <2>4. \A g \in Frames : g \in fresh_free' <=> fresh_slots'[g] = None
    BY <1>0, <1>2, <2>1 DEF PoolConsistent
  <2>5. \A d \in Buffers : d \in page_free' <=> \A g \in Frames : fresh_slots'[g] # d
    BY <1>0, <1>2, <1>3, <2>1, PoolAssumption DEF PoolConsistent
  <2>6. \A g, j \in Frames : fresh_slots'[g] = fresh_slots'[j] /\ fresh_slots'[g] # None => g = j
    BY <1>2, <1>3, <2>1 DEF PoolConsistent
  <2>7. \A g \in Frames : g # f /\ fresh_slots[g] # None =>
          page_id'[fresh_slots[g]] = page_id[fresh_slots[g]] /\ page_id[fresh_slots[g]] # p
    BY <1>1, <1>2, <1>3, <2>3, PoolAssumption DEF PoolConsistent, TypeOK
  <2>8. \A q \in Pages, g \in Frames :
          page_table'[q] = g <=> fresh_slots'[g] # None /\ page_id'[fresh_slots'[g]] = q
    <3> TAKE q \in Pages, g \in Frames
    <3>1. CASE g = f
      BY <1>1, <1>2, <1>3, <2>1, <2>2, <2>3, <3>1
    <3>2. CASE g # f
      BY <1>1, <1>2, <1>3, <2>1, <2>2, <2>7, <3>2, PoolAssumption DEF PoolConsistent
    <3> QED BY <3>1, <3>2
  <2>9. \A g \in Frames : fresh_slots'[g] # None => page_id'[fresh_slots'[g]] \in Pages
    BY <1>2, <2>1, <2>3, <2>7 DEF PoolConsistent
  <2> QED BY <2>4, <2>5, <2>6, <2>8, <2>9 DEF PoolConsistent
<1>9. HandlesValid'
  <2> SUFFICES ASSUME NEW d \in Clients, held'[d] # None
               PROVE  /\ page_table'[held'[d].page] # None
                      /\ fresh_slots'[page_table'[held'[d].page]] = held'[d].buf
                      /\ page_id'[held'[d].buf] = held'[d].page
    BY DEF HandlesValid
  <2>1. CASE d = c
    BY <1>0, <1>2, <2>1 DEF TypeOK
  <2>2. CASE d # c
    <3>1. held'[d] = held[d] /\ held[d] \in Handles /\ held[d].page # p /\ held[d].buf # b
      BY <1>0, <1>4, <2>2 DEF TypeOK
    <3>2. page_table[held[d].page] \in Frames /\ page_table[held[d].page] # f
      BY <1>3, <3>1, <2>2 DEF TypeOK, HandlesValid, Handles
    <3> QED BY <1>0, <3>1, <3>2 DEF HandlesValid, TypeOK, Handles
  <2> QED BY <2>1, <2>2
<1>10. ReplacerAgrees'
  <2>1. \A g \in Frames : g \in tracked' <=> fresh_slots'[g] # None
    BY <1>0, <1>2 DEF ReplacerAgrees, record_access, TypeOK
  <2>2. \A g \in Frames :
          g \in evictable' <=> fresh_slots'[g] # None /\ pin_count'[fresh_slots'[g]] = 0
    BY <1>0, <1>2, <1>3 DEF ReplacerAgrees, pin, TypeOK
  <2> QED BY <1>0, <1>2, <2>1, <2>2, PinCounts DEF ReplacerAgrees
<1>11. FreeMatch'
  <2>1. /\ Cardinality(fresh_free \ {f}) = Cardinality(fresh_free) - 1
        /\ Cardinality(page_free \ {b}) = Cardinality(page_free) - 1
    BY Finite, FS_RemoveElement, Zenon
  <2> QED BY <1>0, <2>1 DEF FreeMatch
<1>12. Coherent'
  <2> SUFFICES ASSUME NEW q \in Pages, page_table'[q] # None,
                      \A d \in unwritten' : held'[d].page # q
               PROVE  version'[fresh_slots'[page_table'[q]]] = disk'[q]
    BY DEF Coherent
  <2>1. CASE q = p
    BY <1>0, <1>1, <1>2, <2>1 DEF TypeOK
  <2>2. CASE q # p
    <3>1. page_table'[q] = page_table[q] /\ page_table[q] \in Frames /\ page_table[q] # f
      BY <1>0, <1>3, <2>2 DEF TypeOK
    <3>2. fresh_slots[page_table[q]] \in Buffers /\ fresh_slots[page_table[q]] # b
      BY <1>3, <3>1 DEF PoolConsistent, TypeOK
    <3>3. version'[fresh_slots'[page_table'[q]]] = version[fresh_slots[page_table[q]]]
      BY <1>0, <3>1, <3>2 DEF TypeOK
    <3>4. \A d \in unwritten : held'[d] = held[d]
      BY <1>0, <1>1 DEF WritersHold, TypeOK
    <3> QED BY <1>1, <3>1, <3>3, <3>4 DEF Coherent
  <2> QED BY <2>1, <2>2
<1>13. CachedExist'
  BY <1>0, <1>1 DEF CachedExist, TypeOK
<1> QED BY <1>6, <1>7, <1>8, <1>9, <1>10, <1>11, <1>12, <1>13

-----------------------------------------------------------------------------
(* Fetches that evict a page.                                              *)

\* The frame victim() chooses holds a page that no handle points to.
LEMMA VictimFree ==
  ASSUME IInv, NEW f \in Victims
  PROVE  /\ f \in Frames /\ f \in evictable /\ f \in tracked /\ f # None
         /\ fresh_slots[f] \in Buffers /\ fresh_slots[f] # None
         /\ page_id[fresh_slots[f]] \in Pages
         /\ page_table[page_id[fresh_slots[f]]] = f
         /\ \A q \in Pages : page_table[q] = f => q = page_id[fresh_slots[f]]
         /\ \A g \in Frames : g # f => fresh_slots[g] # fresh_slots[f]
         /\ pin_count[fresh_slots[f]] = 0
         /\ Holders(fresh_slots[f]) = {}
         /\ \A d \in Clients : held[d] # None =>
              /\ held[d].buf # fresh_slots[f]
              /\ held[d].page # page_id[fresh_slots[f]]
              /\ page_table[held[d].page] \in Frames \ {f}
<1> USE DEF IInv
<1>1. f \in Frames /\ f \in evictable /\ f \in tracked /\ f # None
  BY PoolAssumption DEF Victims, Oldest, TypeOK
<1>2. fresh_slots[f] \in Buffers /\ fresh_slots[f] # None /\ pin_count[fresh_slots[f]] = 0
  BY <1>1 DEF ReplacerAgrees, TypeOK
<1>3. /\ page_id[fresh_slots[f]] \in Pages
      /\ page_table[page_id[fresh_slots[f]]] = f
      /\ \A q \in Pages : page_table[q] = f => q = page_id[fresh_slots[f]]
      /\ \A g \in Frames : g # f => fresh_slots[g] # fresh_slots[f]
  BY <1>1, <1>2 DEF PoolConsistent
<1>4. Holders(fresh_slots[f]) = {}
  BY <1>2, Finite, FS_EmptySet DEF PinsExact
<1>5. \A d \in Clients : held[d] # None =>
              /\ held[d].buf # fresh_slots[f]
              /\ held[d].page # page_id[fresh_slots[f]]
              /\ page_table[held[d].page] \in Frames \ {f}
  <2> SUFFICES ASSUME NEW d \in Clients, held[d] # None
               PROVE  /\ held[d].buf # fresh_slots[f]
                      /\ held[d].page # page_id[fresh_slots[f]]
                      /\ page_table[held[d].page] \in Frames \ {f}
    OBVIOUS
  <2>1. held[d].buf # fresh_slots[f]
    BY <1>4 DEF Holders
  <2>2. page_table[held[d].page] \in Frames /\ fresh_slots[page_table[held[d].page]] = held[d].buf
    BY DEF HandlesValid, TypeOK, Handles
  <2> QED BY <1>3, <2>1, <2>2
<1> QED BY <1>1, <1>2, <1>3, <1>4, <1>5

\* fetch_page with an eviction preserves the invariant: the victim's page
\* leaves every map, its slot and page object go to the new page.
LEMMA FetchEvictInv ==
  ASSUME IInv, NEW c \in Clients, NEW p \in Pages, FetchEvict(c, p)
  PROVE  IInv'
<1> USE DEF IInv
<1>0. PICK f \in Victims : \E b \in page_free \cup {fresh_slots[f]} :
       /\ page_free' = (page_free \cup {fresh_slots[f]}) \ {b}
       /\ fresh_slots' = [fresh_slots EXCEPT ![f] = b]
       /\ page_table' = [Erased(fresh_slots[f]) EXCEPT ![p] = f]
       /\ page_id' = [page_id EXCEPT ![fresh_slots[f]] = None, ![b] = p]
       /\ version' = [version EXCEPT ![b] = disk[p]]
       /\ pin_count' = [pin_count EXCEPT ![fresh_slots[f]] = 0, ![b] = 1]
       /\ record_access(f, <<>>) /\ pin(f)
       /\ held' = [held EXCEPT ![c] = [page |-> p, buf |-> b]]
  BY Zenon DEF FetchEvict
<1> DEFINE b == fresh_slots[f]
           o == page_id[b]
<1>1. /\ held[c] = None /\ page_table[p] = None /\ p \in allocated /\ fresh_free = {}
      /\ UNCHANGED <<allocated, disk, fresh_free, unwritten>>
  BY DEF FetchEvict
<1>2. /\ f \in Frames /\ f \in evictable /\ f \in tracked /\ f # None
      /\ b \in Buffers /\ b # None /\ o \in Pages /\ page_table[o] = f
      /\ \A q \in Pages : page_table[q] = f => q = o
      /\ \A g \in Frames : g # f => fresh_slots[g] # b
      /\ Holders(b) = {}
      /\ \A d \in Clients : held[d] # None =>
              held[d].buf # b /\ held[d].page # o /\ page_table[held[d].page] \in Frames \ {f}
  BY VictimFree
<1>3. page_free = {}
  BY <1>1, Finite, FS_EmptySet DEF FreeMatch
<1>4. /\ page_free' = {} /\ fresh_slots' = fresh_slots
      /\ page_table' = [[page_table EXCEPT ![o] = None] EXCEPT ![p] = f]
      /\ page_id' = [page_id EXCEPT ![b] = p]
      /\ version' = [version EXCEPT ![b] = disk[p]]
      /\ pin_count' = [pin_count EXCEPT ![b] = 1]
      /\ record_access(f, <<>>) /\ pin(f)
      /\ held' = [held EXCEPT ![c] = [page |-> p, buf |-> b]]
  BY <1>0, <1>2, <1>3 DEF Erased, TypeOK
<1>5. p # o /\ \A d \in Clients : held[d] # None => held[d].page # p
  BY <1>1, <1>2, PoolAssumption
<1> HIDE DEF b, o
<1>6. PinsExact' /\ WritersHold' /\ held' \in [Clients -> Handles \cup {None}]
  BY <1>1, <1>2, <1>4, MissHandle, Zenon DEF TypeOK
<1>7. TypeOK'
  <2>1. /\ page_table' \in [Pages -> Frames \cup {None}]
        /\ fresh_slots' \in [Frames -> Buffers \cup {None}]
        /\ page_id' \in [Buffers -> Pages \cup {None}]
        /\ version' \in [Buffers -> Nat] /\ pin_count' \in [Buffers -> Nat]
    BY <1>2, <1>4 DEF TypeOK
  <2>2. /\ allocated' \subseteq Pages /\ disk' \in [Pages -> Nat] /\ unwritten' \subseteq Clients
        /\ fresh_free' \subseteq Frames /\ page_free' \subseteq Buffers
    BY <1>4, <1>1 DEF TypeOK
  <2>3. <<>> \in Seq(Nat)
    OBVIOUS
  <2> QED BY <1>2, <1>4, <1>6, <2>1, <2>2, <2>3, RecordTypes, PinCounts DEF TypeOK, ReplacerAgrees
<1>8. PoolConsistent'
  <2>1. \A q \in Pages : page_table'[q] = IF q = p THEN f ELSE IF q = o THEN None ELSE page_table[q]
    BY <1>2, <1>4 DEF TypeOK
  <2>2. \A d \in Buffers : page_id'[d] = IF d = b THEN p ELSE page_id[d]
    BY <1>4 DEF TypeOK
  <2>3. /\ \A g \in Frames : g \in fresh_free' <=> fresh_slots'[g] = None
        /\ \A d \in Buffers : d \in page_free' <=> \A g \in Frames : fresh_slots'[g] # d
        /\ \A g, j \in Frames : fresh_slots'[g] = fresh_slots'[j] /\ fresh_slots'[g] # None => g = j
    BY <1>1, <1>3, <1>4 DEF PoolConsistent
  <2>4. \A q \in Pages, g \in Frames :
          page_table'[q] = g <=> fresh_slots'[g] # None /\ page_id'[fresh_slots'[g]] = q
    <3> TAKE q \in Pages, g \in Frames
    <3>1. CASE g = f
      <4>1. fresh_slots'[g] = b /\ b # None /\ page_id'[b] = p
        BY <1>2, <1>4, <2>2, <3>1 DEF b
      <4> QED BY <1>2, <2>1, <3>1, <4>1
    <3>2. CASE g # f
      <4>1. fresh_slots[g] # None => page_id'[fresh_slots[g]] = page_id[fresh_slots[g]]
        BY <1>2, <2>2, <3>2 DEF TypeOK
      <4>2. page_table[q] = g <=> fresh_slots[g] # None /\ page_id[fresh_slots[g]] = q
        BY DEF PoolConsistent
      <4>3. page_table'[q] = g <=> page_table[q] = g
        BY <1>1, <1>2, <2>1, <3>2, PoolAssumption
      <4> QED BY <1>4, <4>1, <4>2, <4>3
    <3> QED BY <3>1, <3>2
  <2>5. \A g \in Frames : fresh_slots'[g] # None => page_id'[fresh_slots'[g]] \in Pages
    BY <1>4, <2>2 DEF PoolConsistent, TypeOK
  <2> QED BY <2>3, <2>4, <2>5 DEF PoolConsistent
<1>9. HandlesValid'
  <2> SUFFICES ASSUME NEW d \in Clients, held'[d] # None
               PROVE  /\ page_table'[held'[d].page] # None
                      /\ fresh_slots'[page_table'[held'[d].page]] = held'[d].buf
                      /\ page_id'[held'[d].buf] = held'[d].page
    BY DEF HandlesValid
  <2>1. CASE d = c
    <3>1. held'[d].page = p /\ held'[d].buf = b /\ page_table'[p] = f /\ fresh_slots'[f] = b
      BY <1>2, <1>4, <2>1 DEF TypeOK, b
    <3> QED BY <1>2, <1>4, <3>1 DEF TypeOK
  <2>2. CASE d # c
    <3>1. held'[d] = held[d] /\ held[d] \in Handles /\ held[d].page # p /\ held[d].buf # b
          /\ held[d].page # o
      BY <1>2, <1>4, <1>5, <2>2 DEF TypeOK
    <3> QED BY <1>4, <3>1, <2>2 DEF HandlesValid, TypeOK, Handles
  <2> QED BY <2>1, <2>2
<1>10. ReplacerAgrees'
  <2>1. \A g \in Frames : g \in tracked' <=> fresh_slots'[g] # None
    BY <1>2, <1>4 DEF ReplacerAgrees, record_access
  <2>2. \A g \in Frames :
          g \in evictable' <=> fresh_slots'[g] # None /\ pin_count'[fresh_slots'[g]] = 0
    <3> TAKE g \in Frames
    <3>1. CASE g = f
      <4>1. pin_count'[b] = 1 /\ fresh_slots'[f] = b
        BY <1>2, <1>4 DEF TypeOK, b
      <4> QED BY <1>4, <3>1, <4>1 DEF pin
    <3>2. CASE g # f
      <4>1. fresh_slots[g] # None => pin_count'[fresh_slots[g]] = pin_count[fresh_slots[g]]
        BY <1>2, <1>4, <3>2 DEF TypeOK
      <4> QED BY <1>4, <3>2, <4>1 DEF ReplacerAgrees, pin
    <3> QED BY <3>1, <3>2
  <2> QED BY <1>2, <1>4, <2>1, <2>2, PinCounts DEF ReplacerAgrees
<1>11. FreeMatch'
  BY <1>1, <1>3, <1>4 DEF FreeMatch
<1>12. Coherent'
  <2> SUFFICES ASSUME NEW q \in Pages, page_table'[q] # None,
                      \A d \in unwritten' : held'[d].page # q
               PROVE  version'[fresh_slots'[page_table'[q]]] = disk'[q]
    BY DEF Coherent
  <2>1. CASE q = p
    <3>1. page_table'[q] = f /\ fresh_slots'[f] = b
      BY <1>4, <2>1 DEF TypeOK, b
    <3> QED BY <1>1, <1>2, <1>4, <2>1, <3>1 DEF TypeOK
  <2>2. CASE q # p
    <3>1. page_table'[q] = page_table[q] /\ page_table[q] \in Frames /\ page_table[q] # f
      BY <1>2, <1>4, <2>2 DEF TypeOK
    <3>2. fresh_slots[page_table[q]] \in Buffers /\ fresh_slots[page_table[q]] # b
      BY <1>2, <3>1 DEF PoolConsistent, TypeOK
    <3>3. version'[fresh_slots'[page_table'[q]]] = version[fresh_slots[page_table[q]]]
      BY <1>4, <3>1, <3>2 DEF TypeOK
    <3>4. \A d \in unwritten : held'[d] = held[d]
      BY <1>4, <1>1 DEF WritersHold, TypeOK
    <3> QED BY <1>1, <3>1, <3>3, <3>4 DEF Coherent
  <2> QED BY <2>1, <2>2
<1>13. CachedExist'
  BY <1>1, <1>4 DEF CachedExist, TypeOK
<1> QED BY <1>6, <1>7, <1>8, <1>9, <1>10, <1>11, <1>12, <1>13
\* fetch_page with a failing read preserves the invariant: slot and page object
\* go back to the free lists.
LEMMA FetchErrorInv ==
  ASSUME IInv, NEW c \in Clients, NEW p \in Pages, FetchError(c, p)
  PROVE  IInv'
<1> USE DEF IInv
<1>0. PICK f \in Victims :
       /\ page_free' = page_free \cup {fresh_slots[f]}
       /\ fresh_free' = {f}
       /\ fresh_slots' = [fresh_slots EXCEPT ![f] = None]
       /\ page_table' = Erased(fresh_slots[f])
       /\ page_id' = [page_id EXCEPT ![fresh_slots[f]] = None]
       /\ pin_count' = [pin_count EXCEPT ![fresh_slots[f]] = 0]
       /\ tracked' = tracked \ {f}
       /\ history' = [history EXCEPT ![f] = <<>>]
       /\ pin(f)
  BY Zenon DEF FetchError
<1> DEFINE b == fresh_slots[f]
           o == page_id[b]
<1>1. fresh_free = {} /\ UNCHANGED <<allocated, disk, version, counter, held, unwritten>>
  BY DEF FetchError
<1>2. /\ f \in Frames /\ f \in evictable /\ f \in tracked /\ f # None
      /\ b \in Buffers /\ b # None /\ o \in Pages /\ page_table[o] = f
      /\ \A q \in Pages : page_table[q] = f => q = o
      /\ \A g \in Frames : g # f => fresh_slots[g] # b
      /\ pin_count[b] = 0
      /\ \A d \in Clients : held[d] # None =>
              held[d].buf # b /\ held[d].page # o /\ page_table[held[d].page] \in Frames \ {f}
  BY VictimFree
<1>3. page_free = {}
  BY <1>1, Finite, FS_EmptySet DEF FreeMatch
<1>4. /\ page_free' = {b} /\ fresh_free' = {f}
      /\ \A g \in Frames : fresh_slots'[g] = IF g = f THEN None ELSE fresh_slots[g]
      /\ \A q \in Pages : page_table'[q] = IF q = o THEN None ELSE page_table[q]
      /\ \A d \in Buffers : page_id'[d] = IF d = b THEN None ELSE page_id[d]
      /\ pin_count' = pin_count
  BY <1>0, <1>2, <1>3 DEF Erased, TypeOK
<1>5. TypeOK'
  <2>1. /\ page_table' \in [Pages -> Frames \cup {None}]
        /\ fresh_slots' \in [Frames -> Buffers \cup {None}]
        /\ page_id' \in [Buffers -> Pages \cup {None}]
        /\ history' \in [Frames -> Seq(Nat)]
    BY <1>0, <1>2 DEF TypeOK, Erased
  <2>2. /\ allocated' \subseteq Pages /\ disk' \in [Pages -> Nat] /\ unwritten' \subseteq Clients
        /\ fresh_free' \subseteq Frames /\ page_free' \subseteq Buffers /\ tracked' \subseteq Frames
        /\ version' \in [Buffers -> Nat] /\ pin_count' \in [Buffers -> Nat] /\ counter' \in Nat
        /\ held' \in [Clients -> Handles \cup {None}]
    BY <1>0, <1>1, <1>2, <1>4 DEF TypeOK
  <2> QED BY <1>0, <1>2, <2>1, <2>2, PinCounts DEF TypeOK, ReplacerAgrees
<1> HIDE DEF b, o
<1>6. PoolConsistent'
  <2>1. \A g \in Frames : g \in fresh_free' <=> fresh_slots'[g] = None
    BY SMTT(30), <1>1, <1>4 DEF PoolConsistent
  <2>2. \A d \in Buffers : d \in page_free' <=> \A g \in Frames : fresh_slots'[g] # d
    BY SMTT(30), <1>2, <1>3, <1>4, PoolAssumption DEF PoolConsistent
  <2>3. \A g, j \in Frames : fresh_slots'[g] = fresh_slots'[j] /\ fresh_slots'[g] # None => g = j
    BY SMTT(30), <1>4 DEF PoolConsistent
  <2>4. \A g \in Frames : g # f /\ fresh_slots[g] # None =>
          page_id'[fresh_slots[g]] = page_id[fresh_slots[g]]
    BY SMTT(30), <1>2, <1>4 DEF TypeOK
  <2>5. \A q \in Pages, g \in Frames :
          page_table'[q] = g <=> fresh_slots'[g] # None /\ page_id'[fresh_slots'[g]] = q
    <3> TAKE q \in Pages, g \in Frames
    <3>1. CASE g = f
      BY <1>2, <1>4, <3>1, PoolAssumption
    <3>2. CASE g # f
      <4>1. page_table'[q] = g <=> page_table[q] = g
        BY <1>2, <1>4, <3>2, PoolAssumption
      <4>2. page_table[q] = g <=> fresh_slots[g] # None /\ page_id[fresh_slots[g]] = q
        BY DEF PoolConsistent
      <4>3. fresh_slots'[g] = fresh_slots[g]
        BY <1>4, <3>2
      <4> QED BY <2>4, <3>2, <4>1, <4>2, <4>3
    <3> QED BY <3>1, <3>2
  <2>6. \A g \in Frames : fresh_slots'[g] # None => page_id'[fresh_slots'[g]] \in Pages
    <3> TAKE g \in Frames
    <3>1. fresh_slots[g] # None => page_id[fresh_slots[g]] \in Pages
      BY DEF PoolConsistent
    <3>2. fresh_slots'[g] # None => g # f /\ fresh_slots'[g] = fresh_slots[g]
      BY <1>4
    <3> QED BY <2>4, <3>1, <3>2
  <2> QED BY SMTT(30), <2>1, <2>2, <2>3, <2>5, <2>6 DEF PoolConsistent
<1>7. HandlesValid' /\ WritersHold' /\ PinsExact'
  <2>1. \A d \in Clients : held[d] # None => held[d].page \in Pages /\ held[d].buf \in Buffers
    BY DEF TypeOK, Handles
  <2>2. HandlesValid'
    <3> SUFFICES ASSUME NEW d \in Clients, held[d] # None
                 PROVE  /\ page_table'[held[d].page] # None
                        /\ fresh_slots'[page_table'[held[d].page]] = held[d].buf
                        /\ page_id'[held[d].buf] = held[d].page
      BY <1>1 DEF HandlesValid
    <3>1. page_table'[held[d].page] = page_table[held[d].page]
          /\ page_id'[held[d].buf] = page_id[held[d].buf]
      BY <1>2, <1>4, <2>1
    <3>2. fresh_slots'[page_table[held[d].page]] = fresh_slots[page_table[held[d].page]]
      BY <1>2, <1>4
    <3> QED BY <3>1, <3>2 DEF HandlesValid
  <2>3. \A d \in Buffers : Holders(d)' = Holders(d)
    BY <1>1 DEF Holders
  <2> QED BY <1>1, <1>4, <2>2, <2>3 DEF WritersHold, PinsExact
<1>8. ReplacerAgrees'
  <2>1. \A g \in Frames : g \in tracked' <=> fresh_slots'[g] # None
    BY <1>0, <1>4 DEF ReplacerAgrees
  <2>2. \A g \in Frames :
          g \in evictable' <=> fresh_slots'[g] # None /\ pin_count'[fresh_slots'[g]] = 0
    BY <1>0, <1>4 DEF ReplacerAgrees, pin
  <2> QED BY <1>0, <1>2, <2>1, <2>2, PinCounts DEF ReplacerAgrees
<1>9. FreeMatch'
  BY <1>4, FS_Singleton, Zenon DEF FreeMatch
<1>10. Coherent'
  <2> SUFFICES ASSUME NEW q \in Pages, page_table'[q] # None,
                      \A d \in unwritten : held[d].page # q
               PROVE  version[fresh_slots'[page_table'[q]]] = disk[q]
    BY <1>1 DEF Coherent
  <2>1. page_table'[q] = page_table[q] /\ page_table[q] \in Frames /\ page_table[q] # f
    BY <1>2, <1>4 DEF TypeOK
  <2>2. fresh_slots'[page_table'[q]] = fresh_slots[page_table[q]]
    BY <1>4, <2>1
  <2> QED BY <2>1, <2>2 DEF Coherent
<1>11. CachedExist'
  BY <1>1, <1>4 DEF CachedExist
<1> QED BY <1>5, <1>6, <1>7, <1>8, <1>9, <1>10, <1>11

-----------------------------------------------------------------------------
(* The other steps.                                                        *)

\* unpin_page preserves the invariant.
LEMMA UnpinInv ==
  ASSUME IInv, NEW c \in Clients, Unpin(c)
  PROVE  IInv'
<1> DEFINE p == held[c].page
           f == page_table[p]
           b == fresh_slots[f]
<1> USE DEF IInv
<1>1. /\ held[c] # None /\ c \notin unwritten /\ held' = [held EXCEPT ![c] = None]
      /\ UNCHANGED <<allocated, disk, page_table, fresh_slots, fresh_free, page_free, page_id,
                     version, tracked, history, counter, unwritten>>
  BY DEF Unpin
<1>2. /\ p \in Pages /\ f \in Frames /\ f # None /\ b \in Buffers /\ b = held[c].buf
      /\ f \in tracked /\ \A g \in Frames : g # f => fresh_slots[g] # b
  <2>1. p \in Pages /\ held[c].buf \in Buffers
    BY <1>1 DEF TypeOK, Handles
  <2>2. f \in Frames /\ f # None /\ b = held[c].buf
    BY <1>1, <2>1 DEF HandlesValid, TypeOK
  <2> QED BY <2>1, <2>2, PoolAssumption DEF ReplacerAgrees, PoolConsistent
<1>3. pin_count[b] \in Nat \ {0}
  <2>1. Holders(b) # {}
    BY <1>1, <1>2 DEF Holders
  <2> QED BY <1>2, <2>1, Finite, FS_EmptySet DEF PinsExact
<1>4. /\ pin_count' = [pin_count EXCEPT ![b] = @ - 1]
      /\ IF pin_count[b] = 1 THEN unpin(f) ELSE UNCHANGED <<evictable, evictable_count>>
  BY <1>2, <1>3 DEF Unpin
<1> HIDE DEF p, f, b
<1>5. /\ evictable' \subseteq Frames /\ evictable_count' \in Nat
      /\ evictable_count' = Cardinality(evictable')
  <2>1. CASE pin_count[b] = 1
    BY <1>2, <1>4, <2>1, UnpinCounts DEF ReplacerAgrees
  <2>2. CASE pin_count[b] # 1
    BY <1>4, <2>2 DEF ReplacerAgrees, TypeOK
  <2> QED BY <2>1, <2>2
<1>6. TypeOK'
  BY <1>1, <1>2, <1>3, <1>4, <1>5 DEF TypeOK
<1>7. PoolConsistent' /\ FreeMatch' /\ HandlesValid' /\ WritersHold' /\ CachedExist'
  <2>1. PoolConsistent' /\ FreeMatch' /\ CachedExist'
    BY <1>1 DEF PoolConsistent, FreeMatch, CachedExist
  <2>2. HandlesValid' /\ WritersHold'
    BY <1>1 DEF HandlesValid, WritersHold, TypeOK
  <2> QED BY <2>1, <2>2
<1>8. PinsExact'
  BY <1>1, <1>2, <1>4, DropHandle, Zenon DEF PinsExact, TypeOK
<1>9. ReplacerAgrees'
  <2>1. \A g \in Frames :
          g \in evictable' <=> fresh_slots'[g] # None /\ pin_count'[fresh_slots'[g]] = 0
    <3> TAKE g \in Frames
    <3>1. CASE g = f
      <4>1. fresh_slots'[g] = b /\ b # None /\ pin_count'[b] = pin_count[b] - 1
        BY <1>1, <1>2, <1>4, <3>1, PoolAssumption DEF TypeOK, b
      <4>2. f \in evictable <=> pin_count[b] = 0
        BY <1>2, <4>1, <3>1, <1>1 DEF ReplacerAgrees
      <4> QED BY <1>2, <1>3, <1>4, <3>1, <4>1, <4>2 DEF unpin
    <3>2. CASE g # f
      <4>1. fresh_slots[g] # None => pin_count'[fresh_slots[g]] = pin_count[fresh_slots[g]]
        BY <1>2, <1>4, <3>2 DEF TypeOK
      <4>2. g \in evictable' <=> g \in evictable
        BY <1>4, <3>2 DEF unpin
      <4> QED BY <1>1, <4>1, <4>2 DEF ReplacerAgrees
    <3> QED BY <3>1, <3>2
  <2> QED BY <1>1, <1>5, <2>1 DEF ReplacerAgrees
<1>10. Coherent'
  <2>1. \A d \in unwritten : held'[d] = held[d]
    BY <1>1 DEF TypeOK
  <2> QED BY <1>1, <2>1 DEF Coherent
<1> QED BY <1>6, <1>7, <1>8, <1>9, <1>10
\* A change made through a handle preserves the invariant.
LEMMA ChangeInv ==
  ASSUME IInv, NEW c \in Clients, Change(c)
  PROVE  IInv'
<1> USE DEF IInv
<1>1. /\ held[c] # None
      /\ version' = [version EXCEPT ![held[c].buf] = @ + 1]
      /\ unwritten' = unwritten \cup {c}
      /\ UNCHANGED <<allocated, disk, page_table, fresh_slots, fresh_free, page_free, page_id,
                     pin_count, replacer, held>>
  BY DEF Change
<1>2. held[c].page \in Pages /\ held[c].buf \in Buffers
  BY <1>1 DEF TypeOK, Handles
<1>3. TypeOK'
  BY <1>1, <1>2 DEF TypeOK, replacer
<1>4. PoolConsistent' /\ HandlesValid' /\ ReplacerAgrees' /\ FreeMatch' /\ WritersHold'
        /\ CachedExist'
  <2>1. PoolConsistent' /\ FreeMatch' /\ CachedExist'
    BY <1>1 DEF PoolConsistent, FreeMatch, CachedExist
  <2>2. HandlesValid' /\ WritersHold'
    BY <1>1 DEF HandlesValid, WritersHold
  <2>3. ReplacerAgrees'
    BY <1>1 DEF ReplacerAgrees, replacer
  <2> QED BY <2>1, <2>2, <2>3
<1>5. PinsExact'
  BY <1>1 DEF PinsExact, Holders
<1>6. Coherent'
  <2> SUFFICES ASSUME NEW q \in Pages, page_table[q] # None,
                      \A d \in unwritten' : held[d].page # q
               PROVE  version'[fresh_slots[page_table[q]]] = disk[q]
    BY <1>1 DEF Coherent
  <2>1. q # held[c].page
    BY <1>1
  <2>2. page_table[q] \in Frames /\ fresh_slots[page_table[q]] \in Buffers
        /\ page_id[fresh_slots[page_table[q]]] = q
    BY DEF TypeOK, PoolConsistent
  <2>3. fresh_slots[page_table[q]] # held[c].buf
    BY <1>1, <2>1, <2>2 DEF HandlesValid
  <2>4. version'[fresh_slots[page_table[q]]] = version[fresh_slots[page_table[q]]]
    BY <1>1, <2>2, <2>3 DEF TypeOK
  <2> QED BY <1>1, <2>4 DEF Coherent
<1> QED BY <1>3, <1>4, <1>5, <1>6

\* Writing a changed page through to the file preserves the invariant.
LEMMA WriteThroughInv ==
  ASSUME IInv, NEW c \in Clients, WriteThrough(c)
  PROVE  IInv'
<1> USE DEF IInv
<1>1. /\ c \in unwritten
      /\ disk' = [disk EXCEPT ![page_id[held[c].buf]] = version[held[c].buf]]
      /\ unwritten' = unwritten \ {c}
      /\ UNCHANGED <<allocated, pool, replacer, held>>
  BY DEF WriteThrough
<1>2. held[c] # None /\ held[c].page \in Pages /\ held[c].buf \in Buffers
  BY <1>1 DEF TypeOK, Handles, WritersHold
<1>3. /\ page_id[held[c].buf] = held[c].page
      /\ fresh_slots[page_table[held[c].page]] = held[c].buf
  BY <1>2 DEF HandlesValid
<1>4. TypeOK'
  BY <1>1, <1>2, <1>3 DEF TypeOK, replacer, pool
<1>5. PoolConsistent' /\ HandlesValid' /\ ReplacerAgrees' /\ FreeMatch' /\ WritersHold'
        /\ CachedExist'
  <2>1. PoolConsistent' /\ FreeMatch' /\ CachedExist'
    BY <1>1 DEF PoolConsistent, FreeMatch, CachedExist, pool
  <2>2. HandlesValid' /\ WritersHold'
    BY <1>1 DEF HandlesValid, WritersHold, pool
  <2>3. ReplacerAgrees'
    BY <1>1 DEF ReplacerAgrees, replacer, pool
  <2> QED BY <2>1, <2>2, <2>3
<1>6. PinsExact'
  BY <1>1 DEF PinsExact, Holders, pool
<1>7. Coherent'
  <2> SUFFICES ASSUME NEW q \in Pages, page_table[q] # None,
                      \A d \in unwritten' : held[d].page # q
               PROVE  version[fresh_slots[page_table[q]]] = disk'[q]
    BY <1>1 DEF Coherent, pool
  <2>1. CASE q = held[c].page
    BY <1>1, <1>2, <1>3, <2>1 DEF TypeOK
  <2>2. CASE q # held[c].page
    <3>1. disk'[q] = disk[q]
      BY <1>1, <1>3, <2>2 DEF TypeOK
    <3>2. \A d \in unwritten : held[d].page # q
      BY <1>1, <2>2
    <3> QED BY <3>1, <3>2 DEF Coherent
  <2> QED BY <2>1, <2>2
<1> QED BY <1>4, <1>5, <1>6, <1>7
\* Allocating a page preserves the invariant.
LEMMA AllocateInv ==
  ASSUME IInv, NEW p \in Pages, Allocate(p)
  PROVE  IInv'
<1> USE DEF IInv
<1>1. /\ p \notin allocated /\ allocated' = allocated \cup {p}
      /\ disk' = [disk EXCEPT ![p] = 0]
      /\ UNCHANGED <<pool, replacer, held, unwritten>>
  BY DEF Allocate
<1>2. TypeOK'
  BY <1>1 DEF TypeOK, replacer, pool
<1>3. PoolConsistent' /\ HandlesValid' /\ ReplacerAgrees' /\ FreeMatch' /\ WritersHold'
  <2>1. PoolConsistent' /\ FreeMatch'
    BY <1>1 DEF PoolConsistent, FreeMatch, pool
  <2>2. HandlesValid' /\ WritersHold'
    BY <1>1 DEF HandlesValid, WritersHold, pool
  <2>3. ReplacerAgrees'
    BY <1>1 DEF ReplacerAgrees, replacer, pool
  <2> QED BY <2>1, <2>2, <2>3
<1>4. PinsExact' /\ CachedExist'
  BY <1>1 DEF PinsExact, Holders, CachedExist, pool
<1>5. Coherent'
  <2>1. \A q \in Pages : page_table[q] # None => disk'[q] = disk[q]
    BY <1>1 DEF CachedExist, TypeOK
  <2> QED BY <1>1, <2>1 DEF Coherent, pool
<1> QED BY <1>2, <1>3, <1>4, <1>5

\* Truncating the file and replacing the pool preserves the invariant.
LEMMA TruncateInv ==
  ASSUME IInv, NEW S \in SUBSET allocated, Truncate(S)
  PROVE  IInv'
<1> USE DEF IInv
<1>1. \A c \in Clients : held[c] = None
  BY DEF Truncate
<1>2. TypeOK'
  BY DEF TypeOK, Truncate
<1>3. PoolConsistent' /\ HandlesValid' /\ WritersHold' /\ CachedExist' /\ Coherent'
  BY PoolAssumption, <1>1
     DEF PoolConsistent, HandlesValid, WritersHold, CachedExist, Coherent, Truncate
<1>4. PinsExact'
  <2>1. \A b \in Buffers : Holders(b)' = {}
    BY <1>1 DEF Holders, Truncate
  <2> QED BY <2>1, FS_EmptySet, Zenon DEF PinsExact, Truncate
<1>5. ReplacerAgrees' /\ FreeMatch'
  BY FS_EmptySet, PoolAssumption DEF ReplacerAgrees, FreeMatch, Truncate
<1> QED BY <1>2, <1>3, <1>4, <1>5

-----------------------------------------------------------------------------
(* The theorems.                                                           *)

\* The inductive invariant holds of every reachable state of a pool of any size.
THEOREM PoolInvariant == Spec => []IInv
<1>1. IInv /\ [Next]_vars => IInv'
  <2> SUFFICES ASSUME IInv, [Next]_vars PROVE IInv'
    OBVIOUS
  <2>1. CASE \E c \in Clients, p \in Pages :
               FetchHit(c, p) \/ FetchFree(c, p) \/ FetchEvict(c, p) \/ FetchError(c, p)
    BY <2>1, FetchHitInv, FetchFreeInv, FetchEvictInv, FetchErrorInv
  <2>2. CASE \E c \in Clients : Unpin(c) \/ Change(c) \/ WriteThrough(c)
    BY <2>2, UnpinInv, ChangeInv, WriteThroughInv
  <2>3. CASE \E p \in Pages : Allocate(p)
    BY <2>3, AllocateInv
  <2>4. CASE \E S \in SUBSET allocated : Truncate(S)
    BY <2>4, TruncateInv
  <2>5. CASE UNCHANGED vars
    <3>1. TypeOK'
      BY <2>5 DEF vars, pool, replacer, IInv, TypeOK
    <3>2. PoolConsistent' /\ HandlesValid' /\ FreeMatch'
      BY <2>5 DEF vars, pool, IInv, PoolConsistent, HandlesValid, FreeMatch
    <3>3. PinsExact' /\ ReplacerAgrees'
      BY <2>5 DEF vars, pool, replacer, IInv, PinsExact, Holders, ReplacerAgrees
    <3>4. WritersHold' /\ CachedExist' /\ Coherent'
      BY <2>5 DEF vars, pool, IInv, WritersHold, CachedExist, Coherent
    <3> QED BY <3>1, <3>2, <3>3, <3>4 DEF IInv
  <2> QED BY <2>1, <2>2, <2>3, <2>4, <2>5 DEF Next
<1> QED BY <1>1, InitInv, PTL DEF Spec

\* BufferPool's maps, free lists and counters keep their types.
THEOREM PoolTypes == Spec => []TypeOK
<1>1. IInv => TypeOK
  BY DEF IInv
<1> QED BY <1>1, PoolInvariant, PTL

\* A PageHandle's pointer stays valid until the handle is dropped.
THEOREM HandlesStayValid == Spec => []HandlesValid
<1>1. IInv => HandlesValid
  BY DEF IInv
<1> QED BY <1>1, PoolInvariant, PTL

\* page_table_, fresh_slots_ and the free lists agree.
THEOREM MapsStayConsistent == Spec => []PoolConsistent
<1>1. IInv => PoolConsistent
  BY DEF IInv
<1> QED BY <1>1, PoolInvariant, PTL

\* fetch_page never pops an empty list of page objects and never evicts a pinned
\* page.
THEOREM FetchIsSafe == Spec => []AcquireSafe
<1> QED BY Consequences, PoolInvariant, PTL

\* fetch_page reports a full pool only when every page in it is pinned.
THEOREM FullPoolIsPinned == Spec => []FullMeansPinned
<1> QED BY Consequences, PoolInvariant, PTL

\* A cached page is what the file holds, changes in progress aside: eviction without
\* write back loses nothing.
THEOREM CacheIsCoherent == Spec => []Coherent
<1>1. IInv => Coherent
  BY DEF IInv
<1> QED BY <1>1, PoolInvariant, PTL
=============================================================================
