------------------------------ MODULE IdIndex ------------------------------
(***************************************************************************)
(* What an index with external ids promises its caller (spec.md sec. 4.3, *)
(* 4.5 and 8): a set of present ids, each unique, and an ntotal equal to  *)
(* the number of present ids.  add_with_ids inserts ids that are not      *)
(* present, remove_ids(S) removes exactly the present ids in S, reset     *)
(* empties the index; nothing else changes the ids.                        *)
(*                                                                         *)
(* IndexFacade's IDMap handles implement this specification: see          *)
(* IdIndexRefined there.                                                   *)
(***************************************************************************)
EXTENDS Naturals, FiniteSets

CONSTANTS
  Handle,   \* handles an id index can live at
  Id,       \* external ids
  NULL      \* no id index at a handle

VARIABLES
  present,  \* present[h]: the ids stored in the index at h, or NULL
  count     \* count[h]: the ntotal the index at h reports

vars == <<present, count>>

Init ==
  /\ present = [h \in Handle |-> NULL]
  /\ count = [h \in Handle |-> 0]

\* A new, empty id index at h.
Create(h) ==
  /\ present[h] = NULL
  /\ present' = [present EXCEPT ![h] = {}]
  /\ UNCHANGED count

\* add_with_ids of one id that is not present.
Insert(h, id) ==
  /\ present[h] # NULL /\ id \notin present[h]
  /\ present' = [present EXCEPT ![h] = @ \cup {id}]
  /\ count' = [count EXCEPT ![h] = @ + 1]

\* remove_ids(S): the present ids in S go, ntotal drops by their number.
Remove(h, S) ==
  /\ present[h] # NULL
  /\ present' = [present EXCEPT ![h] = @ \ S]
  /\ count' = [count EXCEPT ![h] = @ - Cardinality(present[h] \cap S)]

\* reset: no ids, ntotal 0.
Clear(h) ==
  /\ present[h] # NULL
  /\ present' = [present EXCEPT ![h] = {}]
  /\ count' = [count EXCEPT ![h] = 0]

Next ==
  \E h \in Handle :
    \/ Create(h)
    \/ \E id \in Id : Insert(h, id)
    \/ \E S \in SUBSET Id : Remove(h, S)
    \/ Clear(h)

Spec == Init /\ [][Next]_vars

=============================================================================
