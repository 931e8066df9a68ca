---------------------------- MODULE OrderedIndex ----------------------------
(***************************************************************************)
(* What an index promises: a set of entries that only grows while it is in *)
(* service, and a durable copy of it.  The copy is either the set that was *)
(* saved last or known to be out of date, in which case a restart rebuilds *)
(* the set from the table.  BTree is shown to implement this.              *)
(***************************************************************************)
EXTENDS Naturals

CONSTANTS
  Entries,  \* pairs of a key and a row id; the key 0 has a NULL column
  OutOfDate \* the durable copy is marked as not to be trusted

VARIABLES
  unique,   \* whether the index refuses a second entry with the same key
  serving,  \* whether statements can use the index
  entries,  \* what the index holds
  saved     \* the durable copy: a set of entries, or OutOfDate

vars == <<unique, serving, entries, saved>>

Init ==
  /\ unique \in BOOLEAN
  /\ ~serving
  /\ entries = {}
  /\ saved = {}

\* The copy is distrusted before the first change that it will not have.
Distrust ==
  /\ saved' = OutOfDate
  /\ UNCHANGED <<unique, serving, entries>>

\* One more entry.  A unique index takes no second entry with the same key, unless
\* the key has a NULL.
Insert ==
  /\ serving /\ saved = OutOfDate
  /\ entries \subseteq entries'
  /\ \E e \in entries' \ entries :
       /\ e \in Entries
       /\ entries' = entries \union {e}
       /\ unique /\ e[1] # 0 => \A f \in entries : f[1] # e[1]
  /\ UNCHANGED <<unique, serving, saved>>

Save ==
  /\ serving
  /\ saved' = entries
  /\ UNCHANGED <<unique, serving, entries>>

Stop ==
  /\ serving
  /\ serving' = FALSE
  /\ entries' = {}
  /\ UNCHANGED <<unique, saved>>

\* A trusted copy is served as it is.
Resume ==
  /\ ~serving /\ saved # OutOfDate
  /\ serving' = TRUE
  /\ entries' = saved
  /\ UNCHANGED <<unique, saved>>

\* A rebuild starts from nothing.  Until it distrusts the copy again, the
\* empty copy counts as trusted.
Clear ==
  /\ ~serving
  /\ saved' = {}
  /\ UNCHANGED <<unique, serving, entries>>

\* A rebuild ends with the rows of the table served and saved.
Rebuilt ==
  /\ ~serving
  /\ serving' = TRUE
  /\ entries' \subseteq Entries
  /\ saved' = entries'
  /\ UNCHANGED unique

Next == Distrust \/ Insert \/ Save \/ Stop \/ Resume \/ Clear \/ Rebuilt

Spec == Init /\ [][Next]_vars
=============================================================================
