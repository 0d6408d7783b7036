----------------------------- MODULE Scheduler ------------------------------
(***************************************************************************)
(* The coroutine scheduler (src/rust/scheduler): tasks live in a PinSlab;  *)
(* a WakerPage holds, for WAKER_BIT_LENGTH consecutive keys, the bits      *)
(* notified, completed and dropped, and a count of the references to it    *)
(* (the page vector, handles, wakers).  poll() runs the notified tasks     *)
(* page by page; while a task runs the scheduler is not borrowed, so the   *)
(* task, or what it calls, may insert tasks, drop handles and wake tasks.  *)
(*                                                                         *)
(* A task is spawned by a protocol, which keeps the SchedulerHandle, or by *)
(* an operation of the application, which keeps the raw key ("token").     *)
(* The wakers of a task are held by the timers and watched values that it  *)
(* waits for and go with it: WaitFuture and WatchFuture unregister when    *)
(* they are dropped, and the wakers kept in a control block or a socket    *)
(* are taken by the wake-up that lets the task finish.                     *)
(***************************************************************************)
EXTENDS Integers, FiniteSets, FiniteSetsExt

(***************************************************************************)
(* The slab that holds the coroutines of the scheduler                     *)
(* (src/rust/scheduler/pin_slab.rs): regions ("slots") of immovable        *)
(* entries, the first two of FIRST_SLOT_SIZE entries and each later one    *)
(* twice as long as the one before, and a free list threaded through the   *)
(* vacant entries.  A slab is a record, its operations are operators.      *)
(* An entry is addressed by its key; the entries of a region that has not  *)
(* been allocated are "none" and are only reached through `slots'.         *)
(***************************************************************************)
CONSTANTS
    FIRST_SLOT_SIZE,   \* a power of two; 16 in the code
    MaxKey,            \* bound: keys are 0..MaxKey
    None               \* no task

Keys == 0 .. MaxKey

(***************************************************************************)
(* usize::BITS - leading_zeros(key): the number of binary digits of key.   *)
(***************************************************************************)
BitLength(key) ==
    IF key = 0 THEN 0 ELSE CHOOSE n \in 1 .. key : 2 ^ (n - 1) <= key /\ key < 2 ^ n

FIRST_SLOT_MASK == BitLength(FIRST_SLOT_SIZE) - 1

(***************************************************************************)
(* The (slot, offset, len) of a key.                                       *)
(***************************************************************************)

CalculateKey(key) ==
    LET slot == IF BitLength(key) > FIRST_SLOT_MASK THEN BitLength(key) - FIRST_SLOT_MASK ELSE 0
        start == IF key < FIRST_SLOT_SIZE THEN 0 ELSE FIRST_SLOT_SIZE * 2 ^ (slot - 1)
        end == IF key < FIRST_SLOT_SIZE THEN FIRST_SLOT_SIZE ELSE FIRST_SLOT_SIZE * 2 ^ slot
    IN  [slot |-> slot, offset |-> key - start, len |-> end - start]

(***************************************************************************)
(* The length of the n-th region, as clear() assumes it when it frees it.  *)
(***************************************************************************)
SlotSize(n) == IF n <= 1 THEN FIRST_SLOT_SIZE ELSE FIRST_SLOT_SIZE * 2 ^ (n - 1)

Untouched == [st |-> "none", task |-> None, next |-> 0]
Vacant(n) == [st |-> "vacant", task |-> None, next |-> n]
Occupied(t) == [st |-> "occupied", task |-> t, next |-> 0]

EmptySlab == [slots |-> 0, len |-> 0, next |-> 0, entry |-> [k \in Keys |-> Untouched]]

(***************************************************************************)
(* The key at which a new region of index `n' begins.                      *)
(***************************************************************************)
RegionStart(n) == IF n = 0 THEN 0 ELSE FIRST_SLOT_SIZE * 2 ^ (n - 1)

(***************************************************************************)
(* insert_at(next, t).  A new region is pushed at the end of `slots' and   *)
(* the value goes to its first entry, whatever the offset of the key.      *)
(* The third branch of the match is unreachable!().                        *)
(***************************************************************************)
InsertUnreachable(s) ==
    /\ CalculateKey(s.next).slot < s.slots
    /\ s.entry[s.next].st = "occupied"

SlabInsert(s, t) ==
    IF CalculateKey(s.next).slot < s.slots
    THEN [s EXCEPT !.next = IF s.entry[s.next].st = "none" THEN s.next + 1 ELSE s.entry[s.next].next,
                   !.entry[s.next] = Occupied(t),
                   !.len = @ + 1]
    ELSE [s EXCEPT !.slots = @ + 1,
                   !.next = s.next + 1,
                   !.entry[RegionStart(s.slots)] = Occupied(t),
                   !.len = @ + 1]

SlabHas(s, key) ==
    /\ CalculateKey(key).slot < s.slots
    /\ s.entry[key].st = "occupied"

(***************************************************************************)
(* remove and remove_unpin: the entry becomes the head of the free list.   *)
(* Removing what is not there has no effect.                               *)
(***************************************************************************)

SlabRemove(s, key) ==
    IF SlabHas(s, key)
    THEN [s EXCEPT !.entry[key] = Vacant(s.next), !.next = key, !.len = @ - 1]
    ELSE s

(***************************************************************************)
(* What the addressing must provide: calculate_key maps the keys one to    *)
(* one onto the entries of consecutive regions, in the order in which the  *)
(* regions are allocated, and agrees with slot_sizes() on their lengths    *)
(* (clear() rebuilds each region's Vec with that length).  In particular   *)
(* the key that opens a region has offset 0, where insert_at writes.       *)
(***************************************************************************)
SlotsTile(s) ==
    \A k \in 0 .. s.next :
        LET c == CalculateKey(k)
        IN  /\ c.offset \in 0 .. c.len - 1
            /\ c.len = SlotSize(c.slot)
            /\ RegionStart(c.slot) + c.offset = k
            /\ k > 0 => \/ c = [CalculateKey(k - 1) EXCEPT !.offset = @ + 1]
                        \/ /\ c.offset = 0
                           /\ c.slot = CalculateKey(k - 1).slot + 1
                           /\ CalculateKey(k - 1).offset = CalculateKey(k - 1).len - 1

-----------------------------------------------------------------------------

CONSTANTS
    Tasks,             \* the futures; one can be spawned again after it is gone
    WAKER_BIT_LENGTH,  \* keys per page; 64 in the code
    MaxWakers          \* bound: wakers of a task that are registered somewhere

VARIABLES
    slab, pages,       \* Inner: the slab and the number of pages
    refcount,          \* per page
    notified, completed, dropped,   \* the bits of all pages, as sets of keys
    handle,            \* per task: the key its owner knows it by, and how
    wakers,            \* per key: the registered wakers
    done,              \* tasks that have returned Ready
    poll,              \* where poll() stands
    panicked

vars == <<slab, pages, refcount, notified, completed, dropped, handle, wakers, done, poll, panicked>>
flags == <<notified, completed, dropped>>

NoKey == -1
Idle == [page |-> NoKey, limit |-> 0, todo |-> {}, drop |-> {}, cur |-> NoKey]
NoHandle == [key |-> NoKey, kind |-> "none"]

Page(key) == key \div WAKER_BIT_LENGTH
SubPage(key) == key % WAKER_BIT_LENGTH
PageKeys(p) == {k \in Keys : Page(k) = p}

Init ==
    /\ slab = EmptySlab
    /\ pages = 0
    /\ refcount = [p \in 0 .. Page(MaxKey) |-> 0]
    /\ notified = {} /\ completed = {} /\ dropped = {}
    /\ handle = [t \in Tasks |-> NoHandle]
    /\ wakers = [k \in Keys |-> 0]
    /\ done = {}
    /\ poll = Idle
    /\ panicked = FALSE

(***************************************************************************)
(* Code outside the scheduler runs between polls and inside a task's poll. *)
(***************************************************************************)
Runs == ~panicked /\ (poll = Idle \/ poll.cur /= NoKey)

InSlab(t) == \E k \in Keys : SlabHas(slab, k) /\ slab.entry[k].task = t

(***************************************************************************)
(* WakerPage::initialize: a new task is notified, so that it is polled.    *)
(***************************************************************************)
Initialize(key) ==
    /\ notified' = notified \union {key}
    /\ completed' = completed \ {key}
    /\ dropped' = dropped \ {key}

(***************************************************************************)
(* n references to page p are made, or dropped when n is negative.         *)
(***************************************************************************)
AddRefs(p, n) == refcount' = [refcount EXCEPT ![p] = @ + n]

(***************************************************************************)
(* Scheduler::insert: the pages grow until one covers the key.  The handle *)
(* is a clone of the page reference.                                       *)
(***************************************************************************)
Insert(t) ==
    LET key == slab.next
        grown == {p \in 0 .. Page(key) : p >= pages}
    IN  /\ Runs
        /\ ~InSlab(t)
        /\ panicked' = InsertUnreachable(slab)
        /\ slab' = SlabInsert(slab, t)
        /\ pages' = Max({pages, Page(key) + 1})
        /\ refcount' = [p \in DOMAIN refcount |->
                          (IF p \in grown THEN 1 ELSE refcount[p])
                          + (IF p = Page(key) THEN 1 ELSE 0)]
        /\ Initialize(key)
        /\ handle' = [handle EXCEPT ![t] = [key |-> key, kind |-> "handle"]]
        /\ done' = done \ {t}
        /\ UNCHANGED <<wakers, poll>>

(***************************************************************************)
(* SchedulerHandle::into_raw: the owner keeps only the key.                *)
(***************************************************************************)
IntoRaw(t) ==
    /\ Runs
    /\ handle[t].kind = "handle"
    /\ handle' = [handle EXCEPT ![t].kind = "token"]
    /\ AddRefs(Page(handle[t].key), -1)
    /\ UNCHANGED <<slab, pages, flags, wakers, done, poll, panicked>>

(***************************************************************************)
(* Drop for SchedulerHandle.                                               *)
(***************************************************************************)

DropHandle(t) ==
    /\ Runs
    /\ handle[t].kind = "handle"
    /\ dropped' = dropped \union {handle[t].key}
    /\ AddRefs(Page(handle[t].key), -1)
    /\ handle' = [handle EXCEPT ![t] = NoHandle]
    /\ UNCHANGED <<slab, pages, notified, completed, wakers, done, poll, panicked>>

(***************************************************************************)
(* What the removal of a task takes with it: its wakers, and with them     *)
(* their references to the page.                                           *)
(***************************************************************************)
Unregister(key) ==
    /\ wakers' = [wakers EXCEPT ![key] = 0]
    /\ AddRefs(Page(key), -wakers[key])

Clear(key) ==
    /\ notified' = notified \ {key}
    /\ completed' = completed \ {key}
    /\ dropped' = dropped \ {key}

(***************************************************************************)
(* from_raw_handle, has_completed and take, as the waiting calls use them: *)
(* a task that has not completed is left alone (take_key).  take asserts   *)
(* that the dropped bit is not set.                                        *)
(***************************************************************************)
Take(t) ==
    LET key == handle[t].key
    IN  /\ ~panicked /\ poll = Idle
        /\ handle[t].kind = "token"
        /\ SlabHas(slab, key)
        /\ key \in completed
        /\ key \notin dropped
        /\ slab' = SlabRemove(slab, key)
        /\ Clear(key)
        /\ Unregister(key)
        /\ handle' = [handle EXCEPT ![t] = NoHandle]
        /\ UNCHANGED <<pages, done, poll, panicked>>

(***************************************************************************)
(* WakerRef::wake consumes the waker.                                      *)
(***************************************************************************)

Wake(key) ==
    /\ Runs
    /\ wakers[key] > 0
    /\ notified' = notified \union {key}
    /\ wakers' = [wakers EXCEPT ![key] = @ - 1]
    /\ AddRefs(Page(key), -1)
    /\ UNCHANGED <<slab, pages, completed, dropped, handle, done, poll, panicked>>

-----------------------------------------------------------------------------
(***************************************************************************)
(* poll().  The pages are those that exist when it starts.                 *)
(***************************************************************************)

TakePage(p, limit) ==
    /\ poll' = [page |-> p, limit |-> limit, cur |-> NoKey,
                todo |-> ((notified \intersect PageKeys(p)) \ completed) \ dropped,
                drop |-> dropped \intersect PageKeys(p)]
    /\ notified' = notified \ PageKeys(p)
    /\ dropped' = dropped \ PageKeys(p)

PollPage ==
    /\ ~panicked
    /\ poll.todo = {} /\ poll.drop = {} /\ poll.cur = NoKey
    /\ \/ /\ poll = Idle
          /\ pages > 0
          /\ TakePage(0, pages)
       \/ /\ poll /= Idle
          /\ poll.page + 1 < poll.limit
          /\ TakePage(poll.page + 1, poll.limit)
       \/ /\ poll /= Idle
          /\ poll.page + 1 = poll.limit
          /\ poll' = Idle
          /\ UNCHANGED <<notified, dropped>>
    /\ UNCHANGED <<slab, pages, refcount, completed, handle, wakers, done, panicked>>


BeginPoll ==
    LET key == Min(poll.todo)
    IN  /\ ~panicked
        /\ poll.todo /= {} /\ poll.cur = NoKey
        /\ poll' = [poll EXCEPT !.todo = @ \ {key}, !.cur = key]
        /\ AddRefs(poll.page, 1)
        /\ panicked' = (~SlabHas(slab, key) \/ slab.entry[key].task \in done)
        /\ UNCHANGED <<slab, pages, flags, handle, wakers, done>>

(***************************************************************************)
(* The future returns and its waker is dropped.                            *)
(* Pending: it now has n wakers registered, or has called wake_by_ref.     *)
(***************************************************************************)
Pending(key, n) ==
    /\ wakers' = [wakers EXCEPT ![key] = n]
    /\ AddRefs(Page(key), n - wakers[key] - 1)
    /\ notified' \in {notified, notified \union {key}}
    /\ UNCHANGED <<completed, done>>

Ready(key) ==
    /\ completed' = completed \union {key}
    /\ done' = done \union {slab.entry[key].task}
    /\ wakers' = [wakers EXCEPT ![key] = 0]
    /\ AddRefs(Page(key), -wakers[key] - 1)
    /\ UNCHANGED notified

EndPoll ==
    /\ ~panicked
    /\ poll.cur /= NoKey
    /\ \/ \E n \in 0 .. MaxWakers : Pending(poll.cur, n)
       \/ Ready(poll.cur)
    /\ poll' = [poll EXCEPT !.cur = NoKey]
    /\ UNCHANGED <<slab, pages, dropped, handle, panicked>>

(***************************************************************************)
(* After the notified tasks of a page, its dropped ones are removed;       *)
(* the one in the first place of a page is skipped.                        *)
(***************************************************************************)

Reap ==
    LET key == Min(poll.drop)
    IN  /\ ~panicked
        /\ poll.todo = {} /\ poll.cur = NoKey /\ poll.drop /= {}
        /\ poll' = [poll EXCEPT !.drop = @ \ {key}]
        /\ IF SubPage(key) = 0
           THEN UNCHANGED <<slab, refcount, flags, wakers>>
           ELSE /\ slab' = SlabRemove(slab, key)
                /\ Clear(key)
                /\ Unregister(key)
        /\ UNCHANGED <<pages, handle, done, panicked>>

Poll == PollPage \/ BeginPoll \/ EndPoll \/ Reap

Next ==
    \/ \E t \in Tasks : Insert(t) \/ IntoRaw(t) \/ DropHandle(t) \/ Take(t)
    \/ \E key \in Keys : Wake(key)
    \/ Poll

Spec == Init /\ [][Next]_vars

(***************************************************************************)
(* The waiting calls of the application run poll() in a loop, and the poll *)
(* of a future returns.                                                    *)
(***************************************************************************)
FairSpec == Spec /\ WF_vars(Poll)

-----------------------------------------------------------------------------
(***************************************************************************)
(* Types, with the bounds of the page and slab data.                       *)
(***************************************************************************)
TypeOK ==
    /\ slab.entry \in [Keys -> [st : {"none", "vacant", "occupied"}, task : Tasks \union {None}, next : 0 .. MaxKey + 1]]
    /\ slab.next \in 0 .. MaxKey + 1
    /\ pages \in 0 .. Page(MaxKey) + 1
    /\ refcount \in [0 .. Page(MaxKey) -> Nat]
    /\ notified \union completed \union dropped \subseteq Keys
    /\ \A t \in Tasks : handle[t].key \in Keys \union {NoKey}
    /\ wakers \in [Keys -> 0 .. MaxWakers]

(***************************************************************************)
(* No panic of the scheduler is reached: the entry of a notified task is   *)
(* occupied (the unwrap in poll), no future is polled after completion     *)
(* (FutureResult::poll), and the free list never offers an occupied entry  *)
(* (unreachable!() in insert_at).                                          *)
(***************************************************************************)
NeverPanics == ~panicked

(***************************************************************************)
(* A handle or a token names the task it was given out for, through every  *)
(* reuse of slab entries, and a token whose completed bit is set can be    *)
(* taken (the assertion in take holds).                                    *)
(***************************************************************************)
HandleNamesTask ==
    \A t \in Tasks : handle[t].kind /= "none" =>
        /\ SlabHas(slab, handle[t].key)
        /\ slab.entry[handle[t].key].task = t
        /\ handle[t].key \notin dropped

(***************************************************************************)
(* The free list: `next' leads through every vacant entry exactly once and *)
(* ends at the first key that was never used; len counts the occupied.     *)
(***************************************************************************)
FreeListSound ==
    LET vacant == {k \in Keys : slab.entry[k].st = "vacant"}
        used == {k \in Keys : slab.entry[k].st /= "none"}
        chain[i \in 0 .. Cardinality(vacant)] ==
            IF i = 0 THEN slab.next
            ELSE IF chain[i - 1] \in vacant THEN slab.entry[chain[i - 1]].next ELSE NoKey
    IN  /\ {chain[i] : i \in 0 .. Cardinality(vacant) - 1} = vacant
        /\ chain[Cardinality(vacant)] = Cardinality(used)
        /\ used = 0 .. Cardinality(used) - 1
        /\ slab.len = Cardinality(used) - Cardinality(vacant)

(***************************************************************************)
(* Every key handed out so far, and the next one, has an entry of its own, *)
(* at the place where insert_at writes it (see SlotsTile).                 *)
(***************************************************************************)
KeysTile == SlotsTile(slab)

(***************************************************************************)
(* The reference count of a page is the number of references to it, so it  *)
(* is freed neither while a handle or waker points into it nor never.      *)
(***************************************************************************)
RefcountExact ==
    \A p \in 0 .. pages - 1 :
        refcount[p] = 1 + Cardinality({t \in Tasks : handle[t].kind = "handle" /\ Page(handle[t].key) = p})
                        + MapThenSumSet(LAMBDA k : wakers[k], PageKeys(p))
                        + (IF poll.cur \in PageKeys(p) THEN 1 ELSE 0)

(***************************************************************************)
(* The completed bit of an occupied entry tells whether its task is done:  *)
(* a waiting call takes only operations that hold a result, and none that  *)
(* holds one is missed.                                                    *)
(***************************************************************************)
CompletedIsDone ==
    \A k \in Keys : SlabHas(slab, k) => (k \in completed <=> slab.entry[k].task \in done)

(***************************************************************************)
(* A wake-up is not lost: a task that is notified, also during its own     *)
(* poll, is polled, unless its owner drops it.                             *)
(***************************************************************************)
WokenIsPolled ==
    \A t \in Tasks :
        (handle[t].key \in notified /\ t \notin done) ~> (handle[t] = NoHandle \/ poll.cur = handle[t].key)

(***************************************************************************)
(* A task whose handle was dropped is removed from the scheduler.          *)
(***************************************************************************)
Abandoned(t) == InSlab(t) /\ handle[t] = NoHandle

DroppedIsFreed == \A t \in Tasks : Abandoned(t) ~> ~Abandoned(t)

(***************************************************************************)
(* The part of it that the code provides: removal of the tasks that are    *)
(* not in the first place of a page.                                       *)
(***************************************************************************)
DroppedElsewhereIsFreed ==
    \A k \in Keys : SubPage(k) /= 0 =>
        (SlabHas(slab, k) /\ Abandoned(slab.entry[k].task)) ~> (~SlabHas(slab, k) \/ ~Abandoned(slab.entry[k].task))
=============================================================================
