---------------------------- MODULE BufferPool -----------------------------
(***************************************************************************)
(* The buffer pool of one file (storage/memory/buffer_pool.cpp) with its   *)
(* LRU-K replacer (storage/memory/lru_k_replacer.cpp), over the pages of a *)
(* DiskManager, and its users: a client fetches a page, gets a PageHandle  *)
(* with a raw pointer into the pool, may change the page in place and      *)
(* write it through to the file (as BTreeIndex does), and drops the handle.*)
(*                                                                         *)
(* Every pool operation runs under the pool's mutex and is one action.     *)
(* The two free lists are queues in the code; which free slot or page is   *)
(* taken makes no difference here, so they are sets.                       *)
(***************************************************************************)
EXTENDS Naturals, Sequences, FiniteSets

CONSTANTS
  Pages,      \* page ids of the file
  Frames,     \* slots of the pool (64 in the code)
  Buffers,    \* the Page objects of the slab, as many as slots
  Clients,    \* users that hold at most one handle each
  None,       \* null pointer, absent map entry
  k,          \* accesses the replacer remembers per frame (2 in the code)
  MaxCounter, \* bound on the replacer's clock
  MaxVersion  \* bound on the number of changes to a page

\* What a live PageHandle is.
Handles == [page : Pages, buf : Buffers]

ASSUME PoolAssumption ==
  /\ IsFiniteSet(Frames) /\ IsFiniteSet(Buffers) /\ Frames # {}
  /\ Cardinality(Frames) = Cardinality(Buffers)
  /\ None \notin Frames /\ None \notin Buffers /\ None \notin Pages
  /\ k \in Nat \ {0} /\ MaxCounter \in Nat /\ MaxVersion \in Nat
  /\ IsFiniteSet(Clients) /\ None \notin Handles

VARIABLES
  allocated,       \* the pages the file has
  disk,            \* the version of each page in the file
  page_table,      \* page id -> slot
  fresh_slots,     \* slot -> page object
  fresh_free,      \* free slots
  page_free,       \* free page objects
  page_id,         \* page object -> id in its header
  version,         \* page object -> version it holds
  pin_count,       \* page object -> pins
  tracked, evictable, evictable_count, history, counter,  \* the replacer
  held,            \* client -> its handle: page id and page object
  unwritten        \* clients that changed their page and have not written it yet

replacer == <<tracked, evictable, evictable_count, history, counter>>
pool == <<page_table, fresh_slots, fresh_free, page_free, page_id, version, pin_count>>
vars == <<allocated, disk, pool, replacer, held, unwritten>>

\* A pool as its constructor leaves it, over an empty file.
Init ==
  /\ page_table = [p \in Pages |-> None]
  /\ fresh_slots = [f \in Frames |-> None]
  /\ fresh_free = Frames /\ page_free = Buffers
  /\ page_id = [b \in Buffers |-> None]
  /\ version = [b \in Buffers |-> 0]
  /\ pin_count = [b \in Buffers |-> 0]
  /\ tracked = {} /\ evictable = {} /\ evictable_count = 0
  /\ history = [f \in Frames |-> <<>>] /\ counter = 0
  /\ allocated = {} /\ disk = [p \in Pages |-> 0]
  /\ held = [c \in Clients |-> None] /\ unwritten = {}

(***************************************************************************)
(* The replacer: victim, pin, unpin, record_access, remove                 *)
(***************************************************************************)

\* Frames victim() may choose, by the age of the oldest remembered access:
\* frames with fewer than k accesses go first.
Oldest(S) == {f \in S : \A g \in S : Head(history[f]) <= Head(history[g])}

Victims ==
  LET candidates == tracked \cap evictable
      underK == {f \in candidates : Len(history[f]) < k}
  IN  IF underK # {} THEN Oldest(underK) ELSE Oldest(candidates)

\* history after record_access(f): the oldest access is dropped beyond k.
Recorded(h, t) == IF Len(h) < k THEN Append(h, t) ELSE Append(Tail(h), t)

\* Mutants of CountWithout: the frame's own flag is not looked at; no count is kept.
CountWithout_Always(f) == evictable_count - 1
CountWithout_Kept(f) == evictable_count

\* evictable_count once f is no longer evictable.
CountWithout(f) == IF f \in evictable THEN evictable_count - 1 ELSE evictable_count

\* Mutant: a pin does not take the frame from the evictable ones.
pin_Forgotten(f) == UNCHANGED <<evictable, evictable_count>>

\* pin(f), after record_access(f) has made f tracked.
pin(f) ==
  /\ evictable' = evictable \ {f}
  /\ evictable_count' = CountWithout(f)

\* Mutant: the last unpin does not make the frame evictable.
unpin_Forgotten(f) == UNCHANGED <<evictable, evictable_count>>

\* unpin(f): nothing for a frame that is not tracked.
unpin(f) ==
  /\ evictable' = IF f \in tracked THEN evictable \cup {f} ELSE evictable
  /\ evictable_count' = IF f \in tracked /\ f \notin evictable
                        THEN evictable_count + 1 ELSE evictable_count

\* record_access(f) of a frame whose history is h.
record_access(f, h) ==
  /\ counter' = counter + 1
  /\ history' = [history EXCEPT ![f] = Recorded(h, counter')]
  /\ tracked' = tracked \cup {f}

\* Mutant: an evicted page keeps its entry in the page table.
Erased_Kept(b) == page_table

\* page_table_ without the page that b holds.
Erased(b) == [page_table EXCEPT ![page_id[b]] = None]

(***************************************************************************)
(* fetch_page                                                              *)
(***************************************************************************)

\* The page is in the pool: pin it, record the access, make it unevictable.
FetchHit(c, p) ==
  LET f == page_table[p]  b == fresh_slots[f]
  IN  /\ held[c] = None /\ counter < MaxCounter
      /\ page_table[p] # None
      /\ pin_count' = [pin_count EXCEPT ![b] = @ + 1]
      /\ record_access(f, history[f]) /\ pin(f)
      /\ held' = [held EXCEPT ![c] = [page |-> p, buf |-> b]]
      /\ UNCHANGED <<allocated, disk, page_table, fresh_slots, fresh_free, page_free, page_id,
                     version, unwritten>>

\* A miss takes a free slot and a free page object, and reads the page.
FetchFree(c, p) ==
  /\ held[c] = None /\ counter < MaxCounter
  /\ page_table[p] = None /\ p \in allocated
  /\ \E f \in fresh_free, b \in page_free :
       /\ fresh_free' = fresh_free \ {f} /\ page_free' = page_free \ {b}
       /\ fresh_slots' = [fresh_slots EXCEPT ![f] = b]
       /\ page_table' = [page_table EXCEPT ![p] = f]
       /\ page_id' = [page_id EXCEPT ![b] = p]
       /\ version' = [version EXCEPT ![b] = disk[p]]
       /\ pin_count' = [pin_count EXCEPT ![b] = 1]
       /\ record_access(f, history[f]) /\ pin(f)
       /\ held' = [held EXCEPT ![c] = [page |-> p, buf |-> b]]
  /\ UNCHANGED <<allocated, disk, unwritten>>

\* A miss with no free slot evicts: victim() forgets the frame and its history, its
\* page leaves the table and its page object joins the free ones.
FetchEvict(c, p) ==
  /\ held[c] = None /\ counter < MaxCounter
  /\ page_table[p] = None /\ p \in allocated
  /\ fresh_free = {} /\ evictable_count > 0
  /\ \E f \in Victims : \E b \in page_free \cup {fresh_slots[f]} :
       /\ page_free' = (page_free \cup {fresh_slots[f]}) \ {b}
       /\ fresh_slots' = [fresh_slots EXCEPT ![f] = b]
       /\ page_table' = [Erased(fresh_slots[f]) EXCEPT ![p] = f]
       /\ page_id' = [page_id EXCEPT ![fresh_slots[f]] = None, ![b] = p]
       /\ version' = [version EXCEPT ![b] = disk[p]]
       /\ pin_count' = [pin_count EXCEPT ![fresh_slots[f]] = 0, ![b] = 1]
       /\ record_access(f, <<>>) /\ pin(f)
       /\ held' = [held EXCEPT ![c] = [page |-> p, buf |-> b]]
  /\ UNCHANGED <<allocated, disk, fresh_free, unwritten>>

\* The read fails (no such page, short read, bad checksum) after a page was evicted
\* for it: slot and page object are free afterwards.  A read that fails with a slot
\* from the free list gives both back and changes nothing.
FetchError(c, p) ==
  /\ held[c] = None
  /\ page_table[p] = None
  /\ fresh_free = {} /\ evictable_count > 0
  /\ \E f \in Victims :
       /\ page_free' = page_free \cup {fresh_slots[f]}
       /\ fresh_free' = {f}
       /\ fresh_slots' = [fresh_slots EXCEPT ![f] = None]
       /\ page_table' = Erased(fresh_slots[f])
       /\ page_id' = [page_id EXCEPT ![fresh_slots[f]] = None]
       /\ pin_count' = [pin_count EXCEPT ![fresh_slots[f]] = 0]
       /\ tracked' = tracked \ {f}
       /\ history' = [history EXCEPT ![f] = <<>>]
       /\ pin(f)
  /\ UNCHANGED <<allocated, disk, version, counter, held, unwritten>>

(***************************************************************************)
(* unpin_page, called by the destructor of a handle                        *)
(***************************************************************************)

\* The page is looked up again by its id.  With the last pin gone the frame
\* becomes evictable.
Unpin(c) ==
  LET p == held[c].page  f == page_table[p]  b == fresh_slots[f]
  IN  /\ held[c] # None /\ c \notin unwritten
      /\ held' = [held EXCEPT ![c] = None]
      /\ IF page_table[p] = None \/ pin_count[b] = 0
         THEN UNCHANGED <<pin_count, evictable, evictable_count>>
         ELSE /\ pin_count' = [pin_count EXCEPT ![b] = @ - 1]
              /\ IF pin_count[b] = 1 THEN unpin(f) ELSE UNCHANGED <<evictable, evictable_count>>
      /\ UNCHANGED <<allocated, disk, page_table, fresh_slots, fresh_free, page_free, page_id,
                     version, tracked, history, counter, unwritten>>

(***************************************************************************)
(* The users                                                               *)
(***************************************************************************)

\* A client changes the page through its pointer ...
Change(c) ==
  /\ held[c] # None /\ c \notin unwritten
  /\ version[held[c].buf] < MaxVersion
  /\ version' = [version EXCEPT ![held[c].buf] = @ + 1]
  /\ unwritten' = unwritten \cup {c}
  /\ UNCHANGED <<allocated, disk, page_table, fresh_slots, fresh_free, page_free, page_id,
                 pin_count, replacer, held>>

\* Mutant: the write goes to the file from a copy taken before the change.
WriteThrough_OldCopy(c) ==
  /\ c \in unwritten
  /\ unwritten' = unwritten \ {c}
  /\ UNCHANGED <<allocated, disk, pool, replacer, held>>

\* ... and writes the page object as it then is to the file, handle in hand.
\* DiskManager::write_page takes the id from the page's header.
WriteThrough(c) ==
  /\ c \in unwritten
  /\ disk' = [disk EXCEPT ![page_id[held[c].buf]] = version[held[c].buf]]
  /\ unwritten' = unwritten \ {c}
  /\ UNCHANGED <<allocated, pool, replacer, held>>

\* A new page is written straight to the file under the next page id.
Allocate(p) ==
  /\ p \notin allocated
  /\ allocated' = allocated \cup {p}
  /\ disk' = [disk EXCEPT ![p] = 0]
  /\ UNCHANGED <<pool, replacer, held, unwritten>>

\* ColumnFile::truncate and IndexFile::reset_tree cut the file and replace the
\* pool by a new one.  Both run with the table to themselves.
Truncate(S) ==
  /\ \A c \in Clients : held[c] = None
  /\ allocated' = S
  /\ page_table' = [p \in Pages |-> None]
  /\ fresh_slots' = [f \in Frames |-> None]
  /\ fresh_free' = Frames /\ page_free' = Buffers
  /\ page_id' = [b \in Buffers |-> None]
  /\ version' = [b \in Buffers |-> 0]
  /\ pin_count' = [b \in Buffers |-> 0]
  /\ tracked' = {} /\ evictable' = {} /\ evictable_count' = 0
  /\ history' = [f \in Frames |-> <<>>] /\ counter' = 0
  /\ UNCHANGED <<disk, held, unwritten>>

Next ==
  \/ \E c \in Clients, p \in Pages :
       FetchHit(c, p) \/ FetchFree(c, p) \/ FetchEvict(c, p) \/ FetchError(c, p)
  \/ \E c \in Clients : Unpin(c) \/ Change(c) \/ WriteThrough(c)
  \/ \E p \in Pages : Allocate(p)
  \/ \E S \in SUBSET allocated : Truncate(S)

Spec == Init /\ [][Next]_vars
-----------------------------------------------------------------------------
(***************************************************************************)
(* Properties                                                              *)
(***************************************************************************)

\* The pool's maps, free lists, counters and handles have their types.
TypeOK ==
  /\ allocated \subseteq Pages /\ disk \in [Pages -> Nat]
  /\ page_table \in [Pages -> Frames \cup {None}]
  /\ fresh_slots \in [Frames -> Buffers \cup {None}]
  /\ fresh_free \subseteq Frames /\ page_free \subseteq Buffers
  /\ page_id \in [Buffers -> Pages \cup {None}]
  /\ version \in [Buffers -> Nat] /\ pin_count \in [Buffers -> Nat]
  /\ tracked \subseteq Frames /\ evictable \subseteq Frames
  /\ evictable_count \in Nat /\ counter \in Nat
  /\ history \in [Frames -> Seq(Nat)]
  /\ held \in [Clients -> Handles \cup {None}] /\ unwritten \subseteq Clients

\* page_table_, fresh_slots_ and the two free lists describe the same assignment: a
\* slot is free exactly when it has no page object, a page object exactly when no
\* slot has it, and page p is in slot f exactly when f's page object is p's.
PoolConsistent ==
  /\ \A f \in Frames : f \in fresh_free <=> fresh_slots[f] = None
  /\ \A b \in Buffers : b \in page_free <=> \A f \in Frames : fresh_slots[f] # b
  /\ \A f, g \in Frames : fresh_slots[f] = fresh_slots[g] /\ fresh_slots[f] # None => f = g
  /\ \A p \in Pages, f \in Frames :
       page_table[p] = f <=> fresh_slots[f] # None /\ page_id[fresh_slots[f]] = p
  /\ \A f \in Frames : fresh_slots[f] # None => page_id[fresh_slots[f]] \in Pages

\* fetch_page pops page_free_ unchecked, and acquire_fresh_slot_locked dereferences
\* the page of the frame victim() names: whenever a slot can be had there is a page
\* object for it, and whenever the replacer counts a victim there is one, with a page
\* nobody pins.
AcquireSafe ==
  /\ fresh_free # {} => page_free # {}
  /\ evictable_count > 0 => tracked \cap evictable # {}
  /\ \A f \in tracked \cap evictable : fresh_slots[f] # None /\ pin_count[fresh_slots[f]] = 0

\* fetch_page reports a full pool only when it is: with no free slot and no victim,
\* every slot's page is pinned by some live handle.
FullMeansPinned ==
  fresh_free = {} /\ evictable_count = 0 =>
    \A f \in Frames : \E c \in Clients : held[c] # None /\ held[c].buf = fresh_slots[f]

\* A PageHandle's raw pointer stays good however other clients fetch and evict: until
\* it is dropped the page object is in the pool, under the handle's page id.
HandlesValid ==
  \A c \in Clients : held[c] # None =>
    /\ page_table[held[c].page] # None
    /\ fresh_slots[page_table[held[c].page]] = held[c].buf
    /\ page_id[held[c].buf] = held[c].page

\* A cached page that no client has changed without writing it yet is what the file
\* holds, so that dropping it on eviction, without any write back, loses nothing.
Coherent ==
  \A p \in Pages :
    page_table[p] # None /\ (\A c \in unwritten : held[c].page # p) =>
      version[fresh_slots[page_table[p]]] = disk[p]
=============================================================================
