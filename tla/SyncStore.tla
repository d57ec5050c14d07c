----------------------------- MODULE SyncStore ------------------------------
(***************************************************************************)
(* The store of sync pairs (src/sync_info.c) as what its header offers: a  *)
(* linked list in the heap behind a mutex, shared by threads that call its *)
(* operations in any order.  A critical section is one action;             *)
(* deactivate_sync_info has two, and holds a pointer in between.           *)
(*                                                                         *)
(* The caller's part is that of handle_add_command, which frees an entry   *)
(* that was not taken, and of cleanup_manager, which destroys the store    *)
(* when nobody else is using it.                                           *)
(***************************************************************************)
EXTENDS Integers, FiniteSets, Functions

CONSTANTS Threads,
          Sources,   \* what find_sync_info compares: host, port, directory
          Nodes,     \* bound: the addresses that malloc can return
          NULL

ASSUME StoreAssumption == IsFiniteSet(Nodes) /\ NULL \notin Nodes

VARIABLES
  heap,      \* the sync_info_t that are allocated, by address
  head,      \* store->head
  count,     \* store->count
  exists,    \* the store has been created, and not destroyed
  pc,        \* where each thread is
  info,      \* its local pointer
  result,    \* what the last call returned, and to which thread
  stale,     \* history: its pointer's entry has been freed since
  strayed    \* history: a stale pointer was written through

vars == <<heap, head, count, exists, pc, info, result, stale, strayed>>
locals == <<pc, info, stale>>

Init ==
  /\ heap = <<>> /\ head = NULL /\ count = 0 /\ exists = FALSE
  /\ pc = [t \in Threads |-> "idle"] /\ info = [t \in Threads |-> NULL]
  /\ result = [to |-> NULL, call |-> "none", value |-> 0]
  /\ stale = {} /\ strayed = FALSE
-----------------------------------------------------------------------------
(***************************************************************************)
(* The list                                                                *)
(***************************************************************************)
Allocated == DOMAIN heap

\* The i-th pointer from the head
Pointer[i \in 1..Cardinality(Nodes) + 1] ==
  IF i = 1 THEN head
  ELSE IF Pointer[i - 1] \in Allocated THEN heap[Pointer[i - 1]].next
  ELSE NULL

Linked == {Pointer[i] : i \in DOMAIN Pointer} \ {NULL}

\* A walk that begins behind the first entry
PositionsBehindHead(s) ==
  {i \in DOMAIN Pointer : i > 1 /\ Pointer[i] \in Allocated /\ heap[Pointer[i]].source = s}

Positions(s) ==
  {i \in DOMAIN Pointer : Pointer[i] \in Allocated /\ heap[Pointer[i]].source = s}

\* Where the walk stops
Position(s) == CHOOSE i \in Positions(s) : \A k \in Positions(s) : i <= k

Found(s) == IF Positions(s) = {} THEN NULL ELSE Pointer[Position(s)]

Without(n) == [m \in Allocated \ {n} |-> heap[m]]

Return(t, call, value) == result' = [to |-> t, call |-> call, value |-> value]

Goto(t, label, pointer) ==
  /\ pc' = [pc EXCEPT ![t] = label]
  /\ info' = [info EXCEPT ![t] = pointer]
-----------------------------------------------------------------------------
create_sync_info_store ==
  /\ ~exists /\ exists' = TRUE
  /\ head' = NULL /\ count' = 0
  /\ UNCHANGED <<heap, locals, result, strayed>>

destroy_sync_info_store ==
  /\ exists /\ exists' = FALSE
  /\ \A t \in Threads : pc[t] = "idle"
  /\ heap' = Restrict(heap, Allocated \ Linked)
  /\ head' = NULL /\ count' = 0
  /\ UNCHANGED <<locals, result, strayed>>

Idle(t) == exists /\ pc[t] = "idle"

\* An entry whose active flag is whatever the memory held before
NewInfoUnset(s) == {[source |-> s, active |-> a, next |-> NULL] : a \in BOOLEAN}

NewInfo(s) == {[source |-> s, active |-> TRUE, next |-> NULL]}

create_sync_info(t, s) ==
  /\ Idle(t)
  /\ \E n \in Nodes \ Allocated, new \in NewInfo(s) :
       /\ heap' = [m \in Allocated \cup {n} |-> IF m = n THEN new ELSE heap[m]]
       /\ Goto(t, "created", n)
  /\ UNCHANGED <<head, count, exists, result, stale, strayed>>

CreateFails(t) ==
  /\ Idle(t) /\ Allocated = Nodes
  /\ Return(t, "add", -1)
  /\ UNCHANGED <<heap, head, count, exists, locals, strayed>>

add_sync_info(t) ==
  /\ pc[t] = "created"
  /\ IF Found(heap[info[t]].source) # NULL
     THEN /\ Return(t, "add", 1)
          /\ Goto(t, "refused", info[t])
          /\ UNCHANGED <<heap, head, count>>
     ELSE /\ heap' = [heap EXCEPT ![info[t]].next = head]
          /\ head' = info[t] /\ count' = count + 1
          /\ Return(t, "add", 0)
          /\ Goto(t, "idle", NULL)
  /\ UNCHANGED <<exists, stale, strayed>>

\* The caller gives back the entry that was not taken
free_sync_info(t) ==
  /\ pc[t] = "refused"
  /\ heap' = Without(info[t])
  /\ Goto(t, "idle", NULL)
  /\ UNCHANGED <<head, count, exists, result, stale, strayed>>

find_sync_info(t, s) ==
  /\ Idle(t)
  /\ Return(t, "find", IF Found(s) # NULL THEN 0 ELSE 1)
  /\ UNCHANGED <<heap, head, count, exists, locals, strayed>>

\* A removal that takes every entry for the first one
UnlinkFirst(i) ==
  /\ head' = heap[Pointer[i]].next
  /\ heap' = Without(Pointer[i])

\* prev is NULL for the first entry
Unlink(i) ==
  LET n == Pointer[i]
  IN /\ head' = IF i = 1 THEN heap[n].next ELSE head
     /\ heap' = [m \in Allocated \ {n} |->
                   IF i > 1 /\ m = Pointer[i - 1] THEN [heap[m] EXCEPT !.next = heap[n].next]
                   ELSE heap[m]]

\* A removal that forgets to count
StillCounted(c) == c

CountedOff(c) == c - 1

remove_sync_info(t, s) ==
  /\ Idle(t)
  /\ IF Positions(s) = {}
     THEN Return(t, "remove", 1) /\ UNCHANGED <<heap, head, count, stale>>
     ELSE /\ Unlink(Position(s))
          /\ count' = CountedOff(count)
          /\ stale' = stale \cup {u \in Threads : pc[u] = "found" /\ info[u] = Found(s)}
          /\ Return(t, "remove", 0)
  /\ UNCHANGED <<exists, pc, info, strayed>>

\* deactivate_sync_info: the call of find_sync_info ...
DeactivateFinds(t, s) ==
  /\ Idle(t)
  /\ IF Found(s) = NULL
     THEN Return(t, "deactivate", 1) /\ UNCHANGED <<pc, info>>
     ELSE Goto(t, "found", Found(s)) /\ UNCHANGED result
  /\ UNCHANGED <<heap, head, count, exists, stale, strayed>>

(***************************************************************************)
(* ... and the write.  In freed memory it is not seen, as the next         *)
(* create_sync_info sets the field anew; in memory that was allocated      *)
(* again it is a write to another entry.                                   *)
(***************************************************************************)
DeactivateWrites(t) ==
  /\ pc[t] = "found"
  /\ heap' = [n \in Allocated |->
                IF n = info[t] THEN [heap[n] EXCEPT !.active = FALSE] ELSE heap[n]]
  /\ strayed' = (strayed \/ t \in stale)
  /\ stale' = stale \ {t}
  /\ Return(t, "deactivate", 0)
  /\ Goto(t, "idle", NULL)
  /\ UNCHANGED <<head, count, exists>>

get_sync_info_count(t) ==
  /\ Idle(t)
  /\ Return(t, "count", count)
  /\ UNCHANGED <<heap, head, count, exists, locals, strayed>>

Next ==
  \/ create_sync_info_store \/ destroy_sync_info_store
  \/ \E t \in Threads :
       \/ CreateFails(t) \/ add_sync_info(t) \/ free_sync_info(t)
       \/ DeactivateWrites(t) \/ get_sync_info_count(t)
       \/ \E s \in Sources :
            \/ create_sync_info(t, s) \/ find_sync_info(t, s)
            \/ remove_sync_info(t, s) \/ DeactivateFinds(t, s)

Spec == Init /\ [][Next]_vars
-----------------------------------------------------------------------------
(***************************************************************************)
(* Types; and count stays within the memory there is, so that no sequence  *)
(* of adds and removes makes it drift.                                     *)
(***************************************************************************)
TypeOK ==
  /\ Allocated \subseteq Nodes
  /\ \A n \in Allocated :
       heap[n] \in [source : Sources, active : BOOLEAN, next : Nodes \cup {NULL}]
  /\ head \in Nodes \cup {NULL}
  /\ count \in 0..Cardinality(Nodes)
  /\ exists \in BOOLEAN /\ strayed \in BOOLEAN
  /\ pc \in [Threads -> {"idle", "created", "refused", "found"}]
  /\ info \in [Threads -> Nodes \cup {NULL}]
  /\ result \in [to : Threads \cup {NULL}, value : {-1, 1} \cup 0..Cardinality(Nodes),
                call : {"none", "add", "find", "remove", "deactivate", "count"}]
  /\ stale \subseteq {t \in Threads : pc[t] = "found"}

\* The entries that a thread has created and not yet handed over
Private(t) == IF pc[t] \in {"created", "refused"} THEN {info[t]} ELSE {}

(***************************************************************************)
(* The list is sound after any operations of any threads, stray writes     *)
(* included: it ends, has no freed entry and no source twice, count is its *)
(* length, each allocated entry is either in it or with exactly one        *)
(* thread, and none outlives the store.                                    *)
(***************************************************************************)
ListSound ==
  /\ Pointer[Cardinality(Nodes) + 1] = NULL
  /\ Linked \subseteq Allocated
  /\ \A m, n \in Linked : heap[m].source = heap[n].source => m = n
  /\ count = Cardinality(Linked)
  /\ Allocated = Linked \cup UNION {Private(t) : t \in Threads}
  /\ \A t, u \in Threads : Private(t) \cap Private(u) # {} => t = u
  /\ \A t \in Threads : Private(t) \cap Linked = {}
  /\ ~exists => Allocated = {}

Pairs == INSTANCE PairStore WITH
           entries <- {[source |-> heap[n].source, active |-> heap[n].active] :
                         n \in Linked \cap Allocated}

(***************************************************************************)
(* "Thread-safe" (sync_info.h:5): in every step the store does what the    *)
(* abstract store does, deactivate_sync_info with its two critical         *)
(* sections included, until a removal overtakes a deactivation of the same *)
(* entry, whose pointer is then written through.                           *)
(***************************************************************************)
ActsAsPairStore == [][strayed' \/ Pairs!PSNext \/ UNCHANGED Pairs!psvars]_vars
=============================================================================
