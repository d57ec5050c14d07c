----------------------------- MODULE PairStore ------------------------------
(***************************************************************************)
(* What the store of sync pairs promises to the threads that share it,     *)
(* without list, pointers or mutex: each call takes effect at one moment   *)
(* on a set of entries, and returns what it found there.                   *)
(*                                                                         *)
(* SyncStore is compared with this module (SyncStore!ActsAsPairStore).     *)
(***************************************************************************)
EXTENDS Integers, FiniteSets

CONSTANTS Threads, Sources

VARIABLES entries,   \* the sources that were added, active or not
          result     \* what the last call returned, and to which thread

psvars == <<entries, result>>

Known(s) == \E e \in entries : e.source = s

Return(t, call, value) == result' = [to |-> t, call |-> call, value |-> value]

Add(t, s) ==
  IF Known(s)
  THEN Return(t, "add", 1) /\ UNCHANGED entries
  ELSE /\ entries' = entries \cup {[source |-> s, active |-> TRUE]}
       /\ Return(t, "add", 0)

Lookup(t, s) ==
  /\ Return(t, "find", IF Known(s) THEN 0 ELSE 1)
  /\ UNCHANGED entries

Remove(t, s) ==
  /\ Return(t, "remove", IF Known(s) THEN 0 ELSE 1)
  /\ entries' = {e \in entries : e.source # s}

Deactivate(t, s) ==
  /\ Return(t, "deactivate", IF Known(s) THEN 0 ELSE 1)
  /\ entries' = {IF e.source = s THEN [e EXCEPT !.active = FALSE] ELSE e : e \in entries}

Count(t) ==
  /\ Return(t, "count", Cardinality(entries))
  /\ UNCHANGED entries

\* create_sync_info finds no memory
NoMemory(t) == Return(t, "add", -1) /\ UNCHANGED entries

Clear == entries' = {} /\ UNCHANGED result

PSNext ==
  \/ Clear
  \/ \E t \in Threads :
       \/ Count(t) \/ NoMemory(t)
       \/ \E s \in Sources : Add(t, s) \/ Lookup(t, s) \/ Remove(t, s) \/ Deactivate(t, s)
=============================================================================
