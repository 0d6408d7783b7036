---------------------------- MODULE SharedMemory ----------------------------
(***************************************************************************)
(* Named shared memory regions (pal/linux/shm.rs): processes create, open  *)
(* and drop the region of one name, one system call at a time, and any     *)
(* call may fail.                                                          *)
(*                                                                         *)
(* The operating system is external: a name leads to an object, an object  *)
(* has a size and lives on while it is open or mapped.                     *)
(***************************************************************************)
EXTENDS Integers, FiniteSets

CONSTANTS
    Processes,
    Length,         \* the length all processes agree on
    MaxObjects,     \* bound: calls of create that get past shm_open
    MaxFailures,    \* bound: failures while a region is set up
    CleanFailures,  \* bound: failures while a region is dropped
    Ordered         \* open is called only while a region is set up

VARIABLES
    pc,         \* process -> the next call of create, open or drop
    shm,        \* process -> its SharedMemory
    linked,     \* the object the name leads to, 0 for none
    objects,    \* number of objects made so far
    length,     \* object -> its size
    fds, maps,  \* <<process, object>>: open descriptors, mappings
    failures, cleanFailures
vars == <<pc, shm, linked, objects, length, fds, maps, failures, cleanFailures>>

Nothing == [was_created |-> FALSE, object |-> 0, size |-> 0, mapped |-> FALSE]

Init ==
    /\ pc = [p \in Processes |-> "none"]
    /\ shm = [p \in Processes |-> Nothing]
    /\ linked = 0 /\ objects = 0
    /\ length = [o \in 1 .. MaxObjects |-> 0]
    /\ fds = {} /\ maps = {}
    /\ failures = 0 /\ cleanFailures = 0

Goto(p, label) == pc' = [pc EXCEPT ![p] = label]

-----------------------------------------------------------------------------
(* create and open.                                                        *)

ShmOpen(p, created, object) ==
    /\ shm' = [shm EXCEPT ![p] = [Nothing EXCEPT !.was_created = created, !.object = object]]
    /\ fds' = fds \cup {<<p, object>>}

Create(p) ==
    /\ pc[p] = "none"
    /\ linked = 0
    /\ objects < MaxObjects
    /\ objects' = objects + 1
    /\ linked' = objects'
    /\ ShmOpen(p, TRUE, objects')
    /\ Goto(p, "truncate")
    /\ UNCHANGED <<length, maps, failures, cleanFailures>>

Open(p) ==
    /\ pc[p] = "none"
    /\ linked /= 0
    /\ Ordered => \E q \in Processes : pc[q] = "ready" /\ shm[q].was_created
    /\ ShmOpen(p, FALSE, linked)
    /\ Goto(p, "map")
    /\ UNCHANGED <<linked, objects, length, maps, failures, cleanFailures>>

Truncate(p) ==
    /\ pc[p] = "truncate"
    /\ length' = [length EXCEPT ![shm[p].object] = Length]
    /\ shm' = [shm EXCEPT ![p].size = Length]
    /\ Goto(p, "map")
    /\ UNCHANGED <<linked, objects, fds, maps, failures, cleanFailures>>

Map(p) ==
    /\ pc[p] = "map"
    /\ maps' = maps \cup {<<p, shm[p].object>>}
    /\ shm' = [shm EXCEPT ![p].mapped = TRUE, ![p].size = Length]
    /\ Goto(p, "ready")
    /\ UNCHANGED <<linked, objects, length, fds, failures, cleanFailures>>

(***************************************************************************)
(* A call fails: the half-made region goes out of scope.                   *)
(***************************************************************************)

Fail(p) ==
    /\ pc[p] \in {"truncate", "map"}
    /\ failures < MaxFailures
    /\ failures' = failures + 1
    /\ Goto(p, "unmap")
    /\ UNCHANGED <<shm, linked, objects, length, fds, maps, cleanFailures>>

-----------------------------------------------------------------------------
(* drop: three steps, each of which only prints an error when it fails.    *)

Dropped(p) ==
    /\ pc[p] = "ready"
    /\ Goto(p, "unmap")
    /\ UNCHANGED <<shm, linked, objects, length, fds, maps, failures, cleanFailures>>

CleanFailed(failed) ==
    /\ failed => cleanFailures < CleanFailures
    /\ cleanFailures' = IF failed THEN cleanFailures + 1 ELSE cleanFailures

(***************************************************************************)
(* A region of size zero is not unmapped; munmap of the null address has   *)
(* no effect.                                                              *)
(***************************************************************************)
Unmap(p) ==
    /\ pc[p] = "unmap"
    /\ \E failed \in BOOLEAN :
          /\ CleanFailed(failed)
          /\ maps' = IF failed \/ shm[p].size = 0 \/ ~shm[p].mapped THEN maps
                     ELSE maps \ {<<p, shm[p].object>>}
    /\ Goto(p, "close")
    /\ UNCHANGED <<shm, linked, objects, length, fds, failures>>

MutClose(p) ==
    /\ pc[p] = "close"
    /\ fds' = fds \ {<<p, shm[p].object>>}
    /\ Goto(p, "unlink")
    /\ UNCHANGED <<shm, linked, objects, length, maps, failures, cleanFailures>>

Close(p) ==
    /\ pc[p] = "close"
    /\ \E failed \in BOOLEAN :
          /\ CleanFailed(failed)
          /\ fds' = IF failed THEN fds ELSE fds \ {<<p, shm[p].object>>}
    /\ IF shm[p].was_created
       THEN Goto(p, "unlink") /\ UNCHANGED shm
       ELSE Goto(p, "none") /\ shm' = [shm EXCEPT ![p] = Nothing]
    /\ UNCHANGED <<linked, objects, length, maps, failures>>

Unlink(p) ==
    /\ pc[p] = "unlink"
    /\ \E failed \in BOOLEAN :
          /\ CleanFailed(failed)
          /\ linked' = IF failed THEN linked ELSE 0
    /\ Goto(p, "none")
    /\ shm' = [shm EXCEPT ![p] = Nothing]
    /\ UNCHANGED <<objects, length, fds, maps, failures>>

Next ==
    \E p \in Processes :
        \/ Create(p) \/ Open(p) \/ Truncate(p) \/ Map(p) \/ Fail(p)
        \/ Dropped(p) \/ Unmap(p) \/ Close(p) \/ Unlink(p)

Spec == Init /\ [][Next]_vars

-----------------------------------------------------------------------------
(***************************************************************************)
(* Unless a clean-up call itself fails, a process that has no region, also *)
(* one whose create or open failed half way, holds no descriptor and no    *)
(* mapping, and the name goes with its creator (Drop for SharedMemory).    *)
(***************************************************************************)
NothingLeaks ==
    cleanFailures = 0 =>
        /\ \A p \in Processes : pc[p] = "none" =>
              \A o \in 1 .. objects : <<p, o>> \notin fds \cup maps
        /\ linked /= 0 => \E p \in Processes : shm[p].was_created /\ shm[p].object = linked

(***************************************************************************)
(* A process takes away the name of the region it has created and never    *)
(* that of a later region (was_created in drop).                           *)
(***************************************************************************)
UnlinksItsOwn ==
    [][\A p \in Processes : (pc[p] = "unlink" /\ pc'[p] /= "unlink") =>
          linked \in {0, shm[p].object} /\ shm[p].was_created]_vars

(***************************************************************************)
(* size() returns the size of the region: all of it is backed by memory.   *)
(***************************************************************************)
SizeIsTheRegions ==
    \A p \in Processes : pc[p] = "ready" => shm[p].size = length[shm[p].object]
=============================================================================
