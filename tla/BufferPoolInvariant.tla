------------------------ MODULE BufferPoolInvariant -------------------------
(***************************************************************************)
(* The inductive invariant of BufferPool.                                  *)
(***************************************************************************)
EXTENDS BufferPool

\* The clients whose handle points to page object b.
Holders(b) == {c \in Clients : held[c] # None /\ held[c].buf = b}

\* pin_count is the number of live handles.
PinsExact == \A b \in Buffers : pin_count[b] = Cardinality(Holders(b))

\* The replacer tracks the used slots and may evict the unpinned ones.
ReplacerAgrees ==
  /\ \A f \in Frames : f \in tracked <=> fresh_slots[f] # None
  /\ \A f \in Frames :
       f \in evictable <=> fresh_slots[f] # None /\ pin_count[fresh_slots[f]] = 0
  /\ evictable_count = Cardinality(evictable)

\* As many free page objects as free slots.
FreeMatch == Cardinality(fresh_free) = Cardinality(page_free)

\* Who has something to write holds a handle.
WritersHold == \A c \in unwritten : held[c] # None

\* Only pages of the file are cached.
CachedExist == \A p \in Pages : page_table[p] # None => p \in allocated

\* The inductive invariant.
IInv ==
  /\ TypeOK /\ PoolConsistent /\ HandlesValid /\ PinsExact /\ ReplacerAgrees
  /\ FreeMatch /\ WritersHold /\ CachedExist /\ Coherent
=============================================================================
