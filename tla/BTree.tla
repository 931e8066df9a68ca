------------------------------- MODULE BTree --------------------------------
(***************************************************************************)
(* A B+ tree index (storage/disk/btree_index.cpp) in its file              *)
(* (storage/disk/index_file.cpp), from CREATE INDEX through inserts,       *)
(* crashes and the rebuild of Catalog::load.                               *)
(*                                                                         *)
(* Pages are written straight to the file, one pwrite each, and every      *)
(* write is an action of its own, so that Crash may fall between any two.  *)
(* The pool behind fetch_page is the subject of BufferPool; here a fetch   *)
(* returns the page as it was last written.  Page ids are handed out in    *)
(* the order in which the pages are written, so that the file is a         *)
(* sequence; page 0, the meta page, is the variable meta.                  *)
(*                                                                         *)
(* An encoded key is a number.  0 stands for the keys with a NULL column:  *)
(* their first byte is smaller, so they sort first.                        *)
(***************************************************************************)
EXTENDS Naturals, Sequences, FiniteSets, SequencesExt

CONSTANTS
  Keys,       \* encoded keys
  Capacity,   \* entries of a leaf, keys of an internal page
  MaxRows,    \* bound: rows that the table ever gets
  FirstRows,  \* bound: rows the table has at CREATE INDEX
  MaxCrashes, \* bound: crashes
  OutOfDate   \* see OrderedIndex

ASSUME BTreeAssumption ==
  /\ Keys \subseteq Nat
  /\ Capacity \in Nat \ {0}
  /\ FirstRows <= MaxRows

VARIABLES
  unique,  \* is_unique of the meta page
  meta,    \* dirty, root_page_id and entry_count of the meta page on disk
  mem,     \* the same fields of the open IndexFile
  file,    \* the pages after the meta page
  up,      \* the file is open
  op,      \* the operation under way and its next step
  rows,    \* rows the table has been given: the next row id
  table,   \* the entries that the index has accepted
  crashes,
  gap      \* a crash left an empty tree that is marked clean

vars == <<unique, meta, mem, file, up, op, rows, table, crashes, gap>>

Entries == Keys \X (1..MaxRows)
NullKey == 0
Invalid == 0   \* INVALID_PAGE_ID as a sibling; also "no root"
Idle == [step |-> "idle"]
Clean == [dirty |-> FALSE, root |-> Invalid, count |-> 0]
NextPage == Len(file) + 1

Leaf(isRoot, es, sibling) == [type |-> "leaf", root |-> isRoot, entries |-> es, right |-> sibling]
Internal(isRoot, ks, cs) == [type |-> "internal", root |-> isRoot, keys |-> ks, children |-> cs]
-----------------------------------------------------------------------------
(* Searching.  The binary searches run over sorted keys, where they find   *)
(* the number of keys that are smaller (or equal).                         *)

\* find_leaf_insert_slot and find_child_slot: after every equal key.
SlotAfter(ks, key) == Cardinality({i \in DOMAIN ks : ks[i] <= key})

\* Mutant: the scan starts after the equal keys.
SlotBefore_Past(ks, key) == Cardinality({i \in DOMAIN ks : ks[i] <= key})

\* find_leaf_scan_start: before every equal key.
SlotBefore(ks, key) == Cardinality({i \in DOMAIN ks : ks[i] < key})

KeysOf(es) == [i \in DOMAIN es |-> es[i][1]]

\* find_leaf_: the internal pages from the root down, each with the slot taken.
RECURSIVE find_leaf(_, _)
find_leaf(page, key) ==
  IF file[page].type = "leaf"
    THEN [leaf |-> page, path |-> <<>>]
    ELSE LET slot == SlotAfter(file[page].keys, key)
             below == find_leaf(file[page].children[slot + 1], key)
         IN [leaf |-> below.leaf, path |-> <<<<page, slot>>>> \o below.path]
-----------------------------------------------------------------------------
(* INSERT                                                                  *)

\* set_dirty(true) writes the meta page.
SetDirty ==
  /\ mem' = [mem EXCEPT !.dirty = TRUE]
  /\ meta' = mem'

\* insert, up to the descent.
BeginInsert(key) ==
  /\ up /\ op = Idle /\ rows < MaxRows
  /\ rows' = rows + 1
  /\ IF mem.root = Invalid \/ ~mem.dirty THEN SetDirty ELSE UNCHANGED <<mem, meta>>
  /\ op' = [step |-> IF mem.root = Invalid THEN "first" ELSE "leaf", entry |-> <<key, rows + 1>>]
  /\ UNCHANGED <<unique, file, up, table, crashes, gap>>

\* The first entry of an empty tree.
FirstLeaf ==
  /\ up /\ op.step = "first"
  /\ file' = Append(file, Leaf(TRUE, <<op.entry>>, Invalid))
  /\ mem' = [mem EXCEPT !.root = NextPage, !.count = 1]
  /\ table' = table \union {op.entry}
  /\ op' = Idle
  /\ UNCHANGED <<unique, meta, up, rows, crashes, gap>>

\* Mutant: a unique index looks at the entry after the slot.
Target_NextEntry ==
  LET found == find_leaf(mem.root, op.entry[1])
      es == file[found.leaf].entries
      slot == SlotAfter(KeysOf(es), op.entry[1])
  IN [leaf |-> found.leaf, path |-> found.path, slot |-> slot,
      refused |-> unique /\ slot < Len(es) /\ op.entry[1] # NullKey /\ es[slot + 1][1] = op.entry[1],
      full |-> Len(es) >= Capacity]

\* Where the entry goes, and whether a unique index refuses it: only the entry
\* before the slot, in the same leaf, is compared.
Target ==
  LET found == find_leaf(mem.root, op.entry[1])
      es == file[found.leaf].entries
      slot == SlotAfter(KeysOf(es), op.entry[1])
  IN [leaf |-> found.leaf, path |-> found.path, slot |-> slot,
      refused |-> unique /\ slot > 0 /\ op.entry[1] # NullKey /\ es[slot][1] = op.entry[1],
      full |-> Len(es) >= Capacity]

RefuseDuplicate ==
  /\ up /\ op.step = "leaf" /\ Target.refused
  /\ op' = Idle
  /\ UNCHANGED <<unique, meta, mem, file, up, rows, table, crashes, gap>>

PlaceInLeaf ==
  /\ up /\ op.step = "leaf" /\ ~Target.refused /\ ~Target.full
  /\ file' = [file EXCEPT ![Target.leaf].entries = InsertAt(@, Target.slot + 1, op.entry)]
  /\ mem' = [mem EXCEPT !.count = @ + 1]
  /\ table' = table \union {op.entry}
  /\ op' = Idle
  /\ UNCHANGED <<unique, meta, up, rows, crashes, gap>>

\* Mutant: the right half does not take over the left one's sibling.
SplitLeaf_ChainCut ==
  /\ up /\ op.step = "leaf" /\ ~Target.refused /\ Target.full
  /\ LET left == file[Target.leaf]
         tmp == InsertAt(left.entries, Target.slot + 1, op.entry)
         mid == Len(tmp) \div 2
     IN /\ file' = [file EXCEPT ![Target.leaf] =
                      Leaf(left.root, SubSeq(tmp, 1, mid), NextPage)]
        /\ op' = [step |-> "right", entry |-> op.entry, path |-> Target.path,
                  sep |-> tmp[mid + 1][1],
                  new |-> Leaf(FALSE, SubSeq(tmp, mid + 1, Len(tmp)), Invalid)]
  /\ table' = table \union {op.entry}
  /\ UNCHANGED <<unique, meta, mem, up, rows, crashes, gap>>

\* split_leaf_: the left half is written first, already naming its new sibling.
\* entry_count stays as it is, here and in the rest of the insert.
SplitLeaf ==
  /\ up /\ op.step = "leaf" /\ ~Target.refused /\ Target.full
  /\ LET left == file[Target.leaf]
         tmp == InsertAt(left.entries, Target.slot + 1, op.entry)
         mid == Len(tmp) \div 2
     IN /\ file' = [file EXCEPT ![Target.leaf] =
                      Leaf(left.root, SubSeq(tmp, 1, mid), NextPage)]
        /\ op' = [step |-> "right", entry |-> op.entry, path |-> Target.path,
                  sep |-> tmp[mid + 1][1],
                  new |-> Leaf(FALSE, SubSeq(tmp, mid + 1, Len(tmp)), left.right)]
  /\ table' = table \union {op.entry}
  /\ UNCHANGED <<unique, meta, mem, up, rows, crashes, gap>>

\* The right half of a split, and the separator goes up.
WriteRight ==
  /\ up /\ op.step = "right"
  /\ file' = Append(file, op.new)
  /\ op' = [step |-> "ascend", entry |-> op.entry, path |-> op.path, sep |-> op.sep,
            right |-> NextPage]
  /\ UNCHANGED <<unique, meta, mem, up, rows, table, crashes, gap>>

\* The parent with the separator and the new child after the slot taken.
Grown(node, slot) ==
  [node EXCEPT !.keys = InsertAt(@, slot + 1, op.sep),
               !.children = InsertAt(@, slot + 2, op.right)]

InsertInParent ==
  /\ up /\ op.step = "ascend" /\ op.path # <<>>
  /\ LET parent == Last(op.path) IN
     /\ Len(file[parent[1]].keys) < Capacity
     /\ file' = [file EXCEPT ![parent[1]] = Grown(@, parent[2])]
  /\ op' = Idle
  /\ UNCHANGED <<unique, meta, mem, up, rows, table, crashes, gap>>

\* split_internal_: the middle key goes up and stays in neither half.
SplitInternal ==
  /\ up /\ op.step = "ascend" /\ op.path # <<>>
  /\ LET parent == Last(op.path)
         node == file[parent[1]]
         tmp == Grown(node, parent[2])
         mid == Len(tmp.keys) \div 2
     IN /\ Len(node.keys) >= Capacity
        /\ file' = [file EXCEPT ![parent[1]] =
             Internal(node.root, SubSeq(tmp.keys, 1, mid), SubSeq(tmp.children, 1, mid + 1))]
        /\ op' = [step |-> "right", entry |-> op.entry, path |-> Front(op.path),
                  sep |-> tmp.keys[mid + 1],
                  new |-> Internal(FALSE, SubSeq(tmp.keys, mid + 2, Len(tmp.keys)),
                                   SubSeq(tmp.children, mid + 2, Len(tmp.children)))]
  /\ UNCHANGED <<unique, meta, mem, up, rows, table, crashes, gap>>

NewRoot ==
  /\ up /\ op.step = "ascend" /\ op.path = <<>>
  /\ file' = Append(file, Internal(TRUE, <<op.sep>>, <<mem.root, op.right>>))
  /\ op' = [step |-> "unflag", root |-> NextPage]
  /\ UNCHANGED <<unique, meta, mem, up, rows, table, crashes, gap>>

\* The old root loses its flag; only then does the open file know the new one.
ClearRootFlag ==
  /\ up /\ op.step = "unflag"
  /\ file' = [file EXCEPT ![mem.root].root = FALSE]
  /\ mem' = [mem EXCEPT !.root = op.root]
  /\ op' = Idle
  /\ UNCHANGED <<unique, meta, up, rows, table, crashes, gap>>

\* Mutant: the meta page keeps the root it had.
Flush_OldRoot ==
  /\ up /\ op = Idle /\ mem.dirty
  /\ mem' = [mem EXCEPT !.dirty = FALSE]
  /\ meta' = [meta EXCEPT !.dirty = FALSE]
  /\ UNCHANGED <<unique, file, up, op, rows, table, crashes, gap>>

\* flush_all flushes an index that is dirty.
Flush ==
  /\ up /\ op = Idle /\ mem.dirty
  /\ mem' = [mem EXCEPT !.dirty = FALSE]
  /\ meta' = mem'
  /\ UNCHANGED <<unique, file, up, op, rows, table, crashes, gap>>
-----------------------------------------------------------------------------
(* bulk_build, by CREATE INDEX and by the rebuild of a dirty index          *)

\* The rows as bulk_build_index_ passes them: sorted by key.  std::sort leaves
\* the order of equal keys open; here it is the order of the rows.
Sorted(set) == SetToSortSeq(set, LAMBDA d, e : d[1] < e[1] \/ (d[1] = e[1] /\ d[2] < e[2]))

\* Leaves are filled to three quarters.
Fill == Max({1, (Capacity * 3) \div 4})

BuildStart ==
  /\ up /\ op.step = "build"
  /\ IF op.todo = <<>>
       THEN op' = [step |-> "flush"] /\ UNCHANGED <<mem, meta>>
       ELSE /\ SetDirty
            /\ op' = [step |-> "leaves", todo |-> op.todo, prev |-> Invalid,
                      level |-> <<>>, above |-> <<>>, total |-> Len(op.todo)]
  /\ UNCHANGED <<unique, file, up, rows, table, crashes, gap>>

\* One leaf; the leaf before it is linked by the next write.
BuildLeaf ==
  /\ up /\ op.step = "leaves" /\ op.todo # <<>>
  /\ LET take == IF Fill < Len(op.todo) THEN Fill ELSE Len(op.todo) IN
     /\ file' = Append(file, Leaf(FALSE, SubSeq(op.todo, 1, take), Invalid))
     /\ op' = [op EXCEPT !.step = IF op.prev = Invalid THEN "leaves" ELSE "link",
                         !.todo = SubSeq(@, take + 1, Len(@)),
                         !.prev = IF @ = Invalid THEN NextPage ELSE @,
                         !.level = Append(@, [page |-> NextPage, first |-> op.todo[1][1]])]
  /\ UNCHANGED <<unique, meta, mem, up, rows, table, crashes, gap>>

LinkLeaf ==
  /\ up /\ op.step = "link"
  /\ file' = [file EXCEPT ![op.prev].right = Len(file)]
  /\ op' = [op EXCEPT !.step = "leaves", !.prev = Len(file)]
  /\ UNCHANGED <<unique, meta, mem, up, rows, table, crashes, gap>>

\* One internal page over the next children of the level below; the last one
\* completes its level.
BuildNode ==
  /\ up /\ op.step = "leaves" /\ op.todo = <<>> /\ Len(op.level) + Len(op.above) > 1
  /\ LET nc == IF Capacity + 1 < Len(op.level) THEN Capacity + 1 ELSE Len(op.level)
         above == Append(op.above, [page |-> NextPage, first |-> op.level[1].first])
     IN /\ file' = Append(file, Internal(FALSE, [j \in 1..(nc - 1) |-> op.level[j + 1].first],
                                                [j \in 1..nc |-> op.level[j].page]))
        /\ op' = IF nc = Len(op.level)
                   THEN [op EXCEPT !.level = above, !.above = <<>>]
                   ELSE [op EXCEPT !.level = SubSeq(@, nc + 1, Len(@)), !.above = above]
  /\ UNCHANGED <<unique, meta, mem, up, rows, table, crashes, gap>>

MarkRoot ==
  /\ up /\ op.step = "leaves" /\ op.todo = <<>> /\ Len(op.level) = 1 /\ op.above = <<>>
  /\ file' = [file EXCEPT ![op.level[1].page].root = TRUE]
  /\ mem' = [mem EXCEPT !.root = op.level[1].page, !.count = op.total]
  /\ op' = [step |-> "flush"]
  /\ UNCHANGED <<unique, meta, up, rows, table, crashes, gap>>

\* The build ends with a flush, and the index goes into service.
BuildFlush ==
  /\ up /\ op.step = "flush"
  /\ mem' = [mem EXCEPT !.dirty = FALSE]
  /\ meta' = mem'
  /\ op' = Idle
  /\ gap' = FALSE
  /\ UNCHANGED <<unique, file, up, rows, table, crashes>>
-----------------------------------------------------------------------------
(* Crash and restart                                                       *)

\* The process ends; what was written stays.
Crash ==
  /\ up /\ crashes < MaxCrashes
  /\ up' = FALSE
  /\ crashes' = crashes + 1
  /\ gap' = (gap \/ (op.step = "build" /\ op.todo # <<>>))
  /\ op' = IF op.step \in {"first", "leaf"}
             THEN [step |-> "down", inFlight |-> {op.entry}]
             ELSE [step |-> "down", inFlight |-> {}]
  /\ UNCHANGED <<unique, meta, mem, file, rows, table>>

\* IndexFile::open reads the meta page.
OpenClean ==
  /\ ~up /\ ~meta.dirty
  /\ up' = TRUE
  /\ mem' = meta
  /\ op' = Idle
  /\ UNCHANGED <<unique, meta, file, rows, table, crashes, gap>>

\* A dirty index is rebuilt from the rows that the table has now; the rows appended
\* last may not have reached the disk.  Opening only reads; reset_tree's first write
\* truncates the file.
OpenDirty ==
  /\ ~up /\ meta.dirty
  /\ up' = TRUE
  /\ mem' = meta
  /\ file' = <<>>
  /\ \E last \in 0..rows :
       /\ table' = {e \in table \union op.inFlight : e[2] <= last}
       /\ op' = [step |-> "reset", todo |-> Sorted(table')]
  /\ UNCHANGED <<unique, meta, rows, crashes, gap>>

\* reset_tree's second write: the meta page now says clean.
ResetMeta ==
  /\ up /\ op.step = "reset"
  /\ mem' = Clean
  /\ meta' = mem'
  /\ op' = [op EXCEPT !.step = "build"]
  /\ UNCHANGED <<unique, file, up, rows, table, crashes, gap>>
-----------------------------------------------------------------------------
\* CREATE INDEX on a table with some rows: the file has been created, with a meta
\* page that says clean and empty (IndexFile::create).
Init ==
  /\ unique \in BOOLEAN
  /\ rows \in 0..FirstRows
  /\ table \in {{<<f[r], r>> : r \in 1..rows} : f \in [1..rows -> Keys]}
  /\ meta = Clean /\ mem = Clean
  /\ file = <<>>
  /\ up = TRUE
  /\ op = [step |-> "build", todo |-> Sorted(table)]
  /\ crashes = 0
  /\ gap = FALSE

InsertSteps ==
  \/ \E key \in Keys : BeginInsert(key)
  \/ FirstLeaf \/ RefuseDuplicate \/ PlaceInLeaf \/ SplitLeaf \/ WriteRight
  \/ InsertInParent \/ SplitInternal \/ NewRoot \/ ClearRootFlag

BuildSteps ==
  BuildStart \/ BuildLeaf \/ LinkLeaf \/ BuildNode \/ MarkRoot \/ BuildFlush

Next ==
  \/ InsertSteps
  \/ Flush
  \/ BuildSteps
  \/ Crash
  \/ OpenClean
  \/ OpenDirty
  \/ ResetMeta

Spec == Init /\ [][Next]_vars
-----------------------------------------------------------------------------
(* Scans                                                                   *)

\* The leaf at which range_scan starts: the leftmost one without a lower bound.
RECURSIVE ScanLeaf(_, _)
ScanLeaf(page, lo) ==
  IF file[page].type = "leaf" THEN page
  ELSE ScanLeaf(file[page].children[1 + IF lo = {} THEN 0
                                        ELSE SlotAfter(file[page].keys, CHOOSE l \in lo : TRUE)],
                lo)

\* The entries of a leaf and of the leaves to its right.
RECURSIVE Chain(_)
Chain(page) ==
  IF page = Invalid THEN <<>> ELSE file[page].entries \o Chain(file[page].right)

\* Entries up to the first one past the upper bound.
RECURSIVE Until(_, _, _)
Until(es, hi, hiIncl) ==
  IF es = <<>> \/ (\E h \in hi : es[1][1] > h \/ (~hiIncl /\ es[1][1] = h)) THEN <<>>
  ELSE <<es[1]>> \o Until(Tail(es), hi, hiIncl)

\* range_scan from a root page.  A bound is a set: empty, or one key.  An
\* exclusive lower bound skips one equal entry, the first.
range_scan(root, lo, loIncl, hi, hiIncl) ==
  IF root = Invalid THEN <<>>
  ELSE LET start == ScanLeaf(root, lo)
           es == file[start].entries
           from == IF lo = {} THEN 0 ELSE SlotBefore(KeysOf(es), CHOOSE l \in lo : TRUE)
           skip == IF ~loIncl /\ from < Len(es) /\ (\E l \in lo : es[from + 1][1] = l) THEN 1 ELSE 0
       IN Until(SubSeq(es, from + skip + 1, Len(es)) \o Chain(file[start].right), hi, hiIncl)
-----------------------------------------------------------------------------
(* Properties                                                              *)

Serving == up /\ op.step \notin {"build", "leaves", "link", "flush", "reset"}

\* An entry per key and row, the steps in their order, pages that exist.
TypeOK ==
  /\ unique \in BOOLEAN /\ up \in BOOLEAN /\ gap \in BOOLEAN
  /\ {meta, mem} \subseteq [dirty : BOOLEAN, root : Nat, count : 0..MaxRows]
  /\ up /\ op = Idle => mem.root <= Len(file)
  /\ rows \in 0..MaxRows
  /\ table \subseteq Entries
  /\ \A p \in DOMAIN file : file[p].type = "leaf" => file[p].entries \in Seq(Entries)

\* The leaves below a page, from left to right.
RECURSIVE LeavesBelow(_)
LeavesBelow(page) ==
  IF file[page].type = "leaf" THEN <<page>>
  ELSE FlattenSeq([i \in DOMAIN file[page].children |-> LeavesBelow(file[page].children[i])])

RECURSIVE Depths(_)
Depths(page) ==
  IF file[page].type = "leaf" THEN {0}
  ELSE UNION {{d + 1 : d \in Depths(file[page].children[i])} : i \in DOMAIN file[page].children}

RECURSIVE KeysBelow(_)
KeysBelow(page) ==
  IF file[page].type = "leaf" THEN {file[page].entries[i][1] : i \in DOMAIN file[page].entries}
  ELSE UNION {KeysBelow(file[page].children[i]) : i \in DOMAIN file[page].children}

\* Between two inserts the pages are a search tree, whatever splits and builds
\* have happened: all leaves at one depth, every separator between its two
\* children, no page past its capacity, the sibling chain of split_leaf_ and
\* bulk_build visits the leaves from left to right and no other, only the root
\* has the root flag, and no page is lost.
TreeShape ==
  up /\ op = Idle /\ mem.root # Invalid =>
    LET leaves == LeavesBelow(mem.root) IN
    /\ Cardinality(Depths(mem.root)) = 1
    /\ \A p \in DOMAIN file : IF file[p].type = "leaf" THEN Len(file[p].entries) <= Capacity
         ELSE Len(file[p].keys) <= Capacity /\ Len(file[p].children) = Len(file[p].keys) + 1
    /\ \A p \in DOMAIN file : file[p].type = "internal" => \A i \in DOMAIN file[p].keys :
         /\ \A key \in KeysBelow(file[p].children[i]) : key <= file[p].keys[i]
         /\ \A key \in KeysBelow(file[p].children[i + 1]) : file[p].keys[i] <= key
    /\ \A i \in DOMAIN leaves : file[leaves[i]].right = IF i < Len(leaves) THEN leaves[i + 1] ELSE Invalid
    /\ \A p \in DOMAIN file : file[p].root <=> p = mem.root
    /\ ToSet(leaves) = {p \in DOMAIN file : file[p].type = "leaf"}

Bounds == {{}} \union {{key} : key \in Keys \ {NullKey}}

Above(e, lo, incl) == \A l \in lo : e[1] > l \/ (incl /\ e[1] = l)
Below(e, hi, incl) == \A h \in hi : e[1] < h \/ (incl /\ e[1] = h)

\* range_scan returns what the bounds ask for, in the order of the keys and each
\* row once, for every pair of bounds.  The exception is a lower bound that several
\* entries share: those of them in leaves further left are passed over, and an
\* exclusive bound drops only one.  With one entry per key, as behind a unique
\* constraint, there is no exception.
RangeScanExact ==
  up /\ op = Idle =>
    \A lo, hi \in Bounds, loIncl, hiIncl \in BOOLEAN :
      LET found == range_scan(mem.root, lo, loIncl, hi, hiIncl)
          asked == {e \in table : Above(e, lo, loIncl) /\ Below(e, hi, hiIncl)}
          AtLow(set) == {e \in set : \E l \in lo : e[1] = l}
      IN /\ \A i \in 1..(Len(found) - 1) : found[i][1] <= found[i + 1][1]
         /\ Cardinality(ToSet(found)) = Len(found)
         /\ IF Cardinality(AtLow(table)) <= 1
              THEN gap \/ ToSet(found) = asked
              ELSE gap \/ ToSet(found) \ AtLow(table) = asked \ AtLow(table)

\* What the file holds below a root page.
Reachable(root) ==
  IF root = Invalid THEN {} ELSE ToSet(Chain(LeavesBelow(root)[1]))

\* The dirty flag protects the tree: whenever the meta page on disk says clean,
\* in a stopped process too, the pages below its root are exactly the entries that
\* were accepted, so that Catalog::load may use them as they are.  The one exception
\* is the window of rebuild_index_ and add_index between a meta page that says
\* clean and empty and bulk_build's set_dirty.
CleanMeansComplete ==
  ~meta.dirty /\ ~gap /\ op.step # "build" => Reachable(meta.root) = table

\* EntryCountTracked of tests/unit/storage/disk/btree_index_test.cpp: entry_count
\* is the number of entries.
EntryCountTracked == up /\ op = Idle /\ ~gap => mem.count = Cardinality(table)

\* In the middle of an insert the entries are those of all leaves in the file and
\* of the right half that is still to be written.
HeldEntries ==
  UNION ({ToSet(file[p].entries) : p \in {q \in DOMAIN file : file[q].type = "leaf"}}
         \union IF op.step = "right" /\ op.new.type = "leaf" THEN {ToSet(op.new.entries)} ELSE {})

Abstract == INSTANCE OrderedIndex WITH
  serving <- Serving,
  entries <- IF Serving THEN HeldEntries ELSE {},
  saved <- IF meta.dirty THEN OutOfDate ELSE Reachable(meta.root)

\* The tree of pages implements the index as a set: splits, root changes and the
\* steps of a build lose, invent and duplicate nothing, a unique index takes no
\* second entry with a key although it compares with one neighbour only, and a
\* restart serves what was saved or rebuilds.
ImplementsIndex == Abstract!Spec
=============================================================================
