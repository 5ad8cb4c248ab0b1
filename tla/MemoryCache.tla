------------------------------ MODULE MemoryCache ------------------------------
(***************************************************************************)
(* Cache of back/internal/infrastructure/cache/cache.go: a map with a size *)
(* limit, an access count per item and one transaction at a time, behind a *)
(* read-write lock of the cache and one of each transaction.               *)
(*                                                                         *)
(* A step is what a goroutine does between two points where it may wait or *)
(* be overtaken; as an eviction may run without the lock, also every use   *)
(* of the size and of the map that it can overtake is a step of its own.   *)
(* The race may also make Go's runtime stop the process, with nothing left *)
(* to model.  Values are told apart by the number of the Set that made     *)
(* them.  The statistics, which nothing depends on, are left out.          *)
(***************************************************************************)
EXTENDS Integers, FiniteSets, FiniteSetsExt

CONSTANTS
    Procs,      \* goroutines
    Keys,
    Sizes,      \* what calculateItemSize returns for the values of each key
    maxSize,
    None,
    Expiring,   \* the calls of Set with a short duration
    MaxSets,    \* bound on the calls of Set
    MaxTransactions

ASSUME MemoryAssumption ==
    /\ \A k \in Keys : Sizes[k] \subseteq Nat \ {0}
    /\ maxSize \in Nat /\ MaxSets \in Nat /\ MaxTransactions \in Nat
    /\ IsFiniteSet(Procs) /\ IsFiniteSet(Keys)
    /\ None \notin Procs \cup Keys \cup Nat
    /\ None \notin [set : Nat, size : Nat, accessed : BOOLEAN]

VARIABLES
    items,         \* the map: the item under each key, or None
    currentSize,
    mu,            \* the goroutine that holds the cache's lock for writing, or None
    transaction,   \* the active transaction, or None
    buffers,       \* the items of every transaction there was
    at,            \* where each goroutine is, and its locals
    loop,          \* the iteration of each goroutine that evicts, or None
    sets,          \* calls of Set so far
    late,          \* the items that have expired
    leaked,        \* history until raced: sizes of items removed or replaced without giving
                   \* them back, less those of items that came back without being added
    raced          \* history: a size has been overwritten, or one counted that was not evicted

memory == <<items, currentSize, mu, transaction, buffers, at, loop, sets, late, leaked, raced>>

Idle == [pc |-> "idle", key |-> None, item |-> None, tx |-> None, todo |-> {}, size |-> 0]

SizeOf(item) == IF item = None THEN 0 ELSE item.size
StoredSize == SumFunction([k \in Keys |-> SizeOf(items[k])])

MemoryInit ==
    /\ items = [k \in Keys |-> None] /\ currentSize = 0
    /\ mu = None /\ transaction = None
    /\ buffers = [t \in 1..MaxTransactions |-> [k \in Keys |-> None]]
    /\ at = [p \in Procs |-> Idle] /\ loop = [p \in Procs |-> None]
    /\ sets = 0 /\ late = {} /\ leaked = 0 /\ raced = FALSE

Calls(p) == at[p].pc = "idle" /\ mu = None
Ranging == {"range", "delete", "reduce", "reduced"}
Evicting == Ranging \cup {"evict"}
Goes(p, local) == at' = [at EXCEPT ![p] = local]
Leaks(size) == leaked' = IF raced THEN 0 ELSE leaked + size
Races(wrong) == raced' = (raced \/ wrong) /\ leaked' = IF raced \/ wrong THEN 0 ELSE leaked

-----------------------------------------------------------------------------
(* Set, and what it shares with a commit: an item is stored, its size is   *)
(* added, and items are evicted to make room.                              *)

NewItem(size) == [set |-> sets + 1, size |-> size, accessed |-> FALSE]

Room(item) == currentSize + item.size <= maxSize

Set(p, key, size) ==
    LET item == NewItem(size) IN
    /\ Calls(p) /\ transaction = None /\ sets < MaxSets
    /\ sets' = sets + 1
    /\ mu' = p
    /\ Goes(p, [Idle EXCEPT !.pc = IF Room(item) THEN "store" ELSE "evict",
                            !.key = key, !.item = item])
    /\ UNCHANGED <<items, currentSize, transaction, buffers, loop, late, leaked, raced>>

Store(p) ==
    LET key == at[p].key IN
    /\ at[p].pc = "store"
    /\ items' = [items EXCEPT ![key] = at[p].item]
    /\ Leaks(SizeOf(items[key]))
    /\ Goes(p, [at[p] EXCEPT !.pc = "add", !.size = currentSize])
    /\ UNCHANGED <<currentSize, mu, transaction, buffers, loop, sets, late, raced>>

\* The size is the one that was read, and the item's, also where it replaced one.  Set returns,
\* and a commit goes on.
Add(p) ==
    /\ at[p].pc = "add"
    /\ currentSize' = at[p].size + at[p].item.size
    /\ Races(currentSize # at[p].size)
    /\ IF at[p].tx = None THEN mu' = None /\ Goes(p, Idle)
       ELSE /\ Goes(p, [Idle EXCEPT !.pc = "commit", !.tx = at[p].tx,
                                    !.todo = at[p].todo \ {at[p].key}])
            /\ UNCHANGED mu
    /\ UNCHANGED <<items, transaction, buffers, loop, sets, late>>

\* A range yields every key that stays, and may yield one that comes or comes back meanwhile.
EvictItems(p) ==
    /\ at[p].pc = "evict"
    /\ Goes(p, [at[p] EXCEPT !.pc = "range"])
    /\ loop' = [loop EXCEPT ![p] = [map |-> None, scan |-> Keys, now |-> late,
                                    key |-> None, size |-> 0]]
    /\ UNCHANGED <<items, currentSize, mu, transaction, buffers, sets, late, leaked, raced>>

\* The map of the range, which ClearAll may have put aside.
Ranged(p) == IF loop[p].map = None THEN items ELSE loop[p].map

\* Items that have expired or were never read make room.
Evictable(p, item) == item # None /\ (item.set \in loop[p].now \/ ~ item.accessed)

Meet(p, key) ==
    LET item == Ranged(p)[key] IN
    /\ at[p].pc = "range" /\ key \in loop[p].scan
    /\ IF Evictable(p, item)
       THEN /\ loop' = [loop EXCEPT ![p].key = key, ![p].size = item.size,
                                    ![p].scan = IF loop[p].map = None THEN @ ELSE @ \ {key}]
            /\ Goes(p, [at[p] EXCEPT !.pc = "delete"])
       ELSE loop' = [loop EXCEPT ![p].scan = @ \ {key}] /\ UNCHANGED at
    /\ UNCHANGED <<items, currentSize, mu, transaction, buffers, sets, late, leaked, raced>>

\* Faulty variant of EvictDelete: the size is that of what the deletion left under the key.
SizeOfWhatIsLeft(p) ==
    LET key == loop[p].key IN
    /\ at[p].pc = "delete"
    /\ items' = [items EXCEPT ![key] = None]
    /\ Races(SizeOf(items[key]) # loop[p].size)
    /\ Goes(p, [at[p] EXCEPT !.pc = "reduce"])
    /\ loop' = [loop EXCEPT ![p].key = None, ![p].size = 0]
    /\ UNCHANGED <<currentSize, mu, transaction, buffers, sets, late>>

\* Whatever is under the key by now is deleted, from the map the cache has by now.
EvictDelete(p) ==
    LET key == loop[p].key IN
    /\ at[p].pc = "delete"
    /\ items' = [items EXCEPT ![key] = None]
    /\ Races(SizeOf(items[key]) # loop[p].size)
    /\ Goes(p, [at[p] EXCEPT !.pc = "reduce"])
    /\ loop' = [loop EXCEPT ![p].key = None]
    /\ UNCHANGED <<currentSize, mu, transaction, buffers, sets, late>>

SizeRead(p) ==
    /\ at[p].pc = "reduce"
    /\ Goes(p, [at[p] EXCEPT !.pc = "reduced", !.size = currentSize])
    /\ UNCHANGED <<items, currentSize, mu, transaction, buffers, loop, sets, late, leaked, raced>>

SizeWritten(p) ==
    /\ at[p].pc = "reduced"
    /\ currentSize' = at[p].size - loop[p].size
    /\ Races(currentSize # at[p].size)
    /\ Goes(p, [at[p] EXCEPT !.pc = "range", !.size = 0])
    /\ loop' = [loop EXCEPT ![p].size = 0]
    /\ UNCHANGED <<items, mu, transaction, buffers, sets, late>>

Evicted(p) == at[p].pc = "range" /\ loop[p].scan = {}

\* Set has kept the lock, and checks again.
CheckAgain(p) ==
    /\ Evicted(p) /\ at[p].tx = None
    /\ loop' = [loop EXCEPT ![p] = None]
    /\ IF Room(at[p].item) THEN Goes(p, [at[p] EXCEPT !.pc = "store"]) /\ UNCHANGED mu
       ELSE mu' = None /\ Goes(p, Idle)
    /\ UNCHANGED <<items, currentSize, transaction, buffers, sets, late, leaked, raced>>

-----------------------------------------------------------------------------
(* The other operations that hold the lock.                                *)

\* With a transaction, Set waits for its lock, holding the cache's.
SetInTransaction(p, key, size) ==
    /\ Calls(p) /\ transaction # None /\ sets < MaxSets
    /\ sets' = sets + 1
    /\ mu' = p
    /\ Goes(p, [Idle EXCEPT !.pc = "buffer", !.key = key, !.item = NewItem(size),
                            !.tx = transaction])
    /\ UNCHANGED <<items, currentSize, transaction, buffers, loop, late, leaked, raced>>

Reading(t) == {q \in Procs : at[q].pc \in {"upgrade", "return"} /\ at[q].tx = t}

\* A commit that has given its lock up iterates over the same map, and may meet a new key.
Buffer(p) ==
    LET t == at[p].tx
        overtaken == {q \in Procs : at[q].pc \in Evicting /\ at[q].tx = t}
    IN
    /\ at[p].pc = "buffer" /\ Reading(t) = {}
    /\ buffers' = [buffers EXCEPT ![t][at[p].key] = at[p].item]
    /\ mu' = None
    /\ \E met \in IF buffers[t][at[p].key] = None THEN SUBSET overtaken ELSE {{}} :
          at' = [q \in Procs |-> IF q = p THEN Idle
                                 ELSE IF q \in met THEN [at[q] EXCEPT !.todo = @ \cup {at[p].key}]
                                 ELSE at[q]]
    /\ UNCHANGED <<items, currentSize, transaction, loop, sets, late, leaked, raced>>

\* Nothing is given back.
Removes(removed) ==
    /\ items' = [k \in Keys |-> IF k \in removed THEN None ELSE items[k]]
    /\ Leaks(SumFunction([k \in removed |-> SizeOf(items[k])]))
    /\ UNCHANGED currentSize

Delete(p, key) ==
    /\ Calls(p) /\ Removes({key})
    /\ UNCHANGED <<mu, transaction, buffers, at, loop, sets, late, raced>>

\* The cache gets a new map, and a range goes on over the old one.
ClearAll(p) ==
    /\ Calls(p) /\ Removes(Keys)
    /\ loop' = [q \in Procs |-> IF at[q].pc \in Ranging /\ loop[q].map = None
                                THEN [loop[q] EXCEPT !.map = items] ELSE loop[q]]
    /\ UNCHANGED <<mu, transaction, buffers, at, sets, late, raced>>

\* The ticker's goroutine.
cleanup ==
    /\ mu = None
    /\ Removes({k \in Keys : items[k] # None /\ items[k].set \in late})
    /\ UNCHANGED <<mu, transaction, buffers, at, loop, sets, late, raced>>

Expire(k) ==
    /\ items[k] # None /\ items[k].set \in Expiring
    /\ late' = late \cup {items[k].set}
    /\ UNCHANGED <<items, currentSize, mu, transaction, buffers, at, loop, sets, leaked, raced>>

-----------------------------------------------------------------------------
(* Get gives its read lock up to take the write lock, and takes it again.  *)

\* What is found first: the transaction's item, or a live one of the map.
Get(p, key) ==
    LET buffered == IF transaction = None THEN None ELSE buffers[transaction][key]
        found == buffered = None /\ items[key] # None /\ items[key].set \notin late
    IN
    /\ Calls(p)
    /\ Goes(p, [Idle EXCEPT !.pc = "upgrade", !.tx = transaction,
                            !.key = IF found THEN key ELSE None,
                            !.item = IF found THEN items[key] ELSE None])
    /\ UNCHANGED <<items, currentSize, mu, transaction, buffers, loop, sets, late, leaked, raced>>

\* The item that was found is written back with its count, whatever became of it.
Upgrade(p) ==
    LET found == at[p].item IN
    /\ at[p].pc = "upgrade" /\ mu = None
    /\ IF found = None THEN UNCHANGED <<items, leaked>>
       ELSE /\ items' = [items EXCEPT ![at[p].key] = [found EXCEPT !.accessed = TRUE]]
            /\ Leaks(SizeOf(items[at[p].key]) - found.size)
    /\ Goes(p, [Idle EXCEPT !.pc = "return", !.tx = at[p].tx])
    /\ UNCHANGED <<currentSize, mu, transaction, buffers, loop, sets, late, raced>>

Return(p) ==
    /\ at[p].pc = "return" /\ mu = None
    /\ Goes(p, Idle)
    /\ UNCHANGED <<items, currentSize, mu, transaction, buffers, loop, sets, late, leaked, raced>>

-----------------------------------------------------------------------------
(* Transactions.                                                           *)

StartTransaction(p) ==
    /\ Calls(p) /\ transaction = None
    /\ \E t \in DOMAIN buffers :
          /\ buffers[t] = [k \in Keys |-> None]
          /\ \A q \in Procs : at[q].tx # t
          /\ transaction' = t
    /\ UNCHANGED <<items, currentSize, mu, buffers, at, loop, sets, late, leaked, raced>>

RollbackTransaction(p) ==
    /\ Calls(p) /\ transaction # None
    /\ transaction' = None
    /\ UNCHANGED <<items, currentSize, mu, buffers, at, loop, sets, late, leaked, raced>>

CommitTransaction(p) ==
    /\ Calls(p) /\ transaction # None
    /\ mu' = p
    /\ Goes(p, [Idle EXCEPT !.pc = "commit", !.tx = transaction,
                            !.todo = {k \in Keys : buffers[transaction][k] # None}])
    /\ UNCHANGED <<items, currentSize, transaction, buffers, loop, sets, late, leaked, raced>>

Buffered(p, key) == buffers[at[p].tx][key]

\* One item after another, in the order of the map's iteration.
CommitItem(p, key) ==
    LET item == Buffered(p, key) IN
    /\ at[p].pc = "commit" /\ key \in at[p].todo
    /\ Room(item)
    /\ Goes(p, [at[p] EXCEPT !.pc = "store", !.key = key, !.item = item])
    /\ UNCHANGED <<items, currentSize, mu, transaction, buffers, loop, sets, late, leaked, raced>>

\* Without room the lock is given up for the eviction.
CommitNoRoom(p, key) ==
    LET item == Buffered(p, key) IN
    /\ at[p].pc = "commit" /\ key \in at[p].todo
    /\ ~ Room(item)
    /\ mu' = None
    /\ Goes(p, [at[p] EXCEPT !.pc = "evict", !.key = key, !.item = item])
    /\ UNCHANGED <<items, currentSize, transaction, buffers, loop, sets, late, leaked, raced>>

\* Faulty variant of Relock: the lock is not taken again.
RelockForgotten(p) ==
    /\ Evicted(p) /\ at[p].tx # None /\ mu = None
    /\ loop' = [loop EXCEPT ![p] = None]
    /\ IF Room(at[p].item) THEN Goes(p, [at[p] EXCEPT !.pc = "store"]) /\ UNCHANGED transaction
       ELSE transaction' = None /\ Goes(p, Idle)
    /\ UNCHANGED <<items, currentSize, mu, buffers, sets, late, leaked, raced>>

\* Faulty variant of Relock: the size is not checked again.
RelockUnchecked(p) ==
    /\ Evicted(p) /\ at[p].tx # None /\ mu = None
    /\ loop' = [loop EXCEPT ![p] = None]
    /\ mu' = p /\ Goes(p, [at[p] EXCEPT !.pc = "store"])
    /\ UNCHANGED <<items, currentSize, transaction, buffers, sets, late, leaked, raced>>

\* The item is the one the iteration met, whatever the transaction holds by now.
Relock(p) ==
    /\ Evicted(p) /\ at[p].tx # None /\ mu = None
    /\ loop' = [loop EXCEPT ![p] = None]
    /\ IF Room(at[p].item)
       THEN mu' = p /\ Goes(p, [at[p] EXCEPT !.pc = "store"]) /\ UNCHANGED transaction
       ELSE transaction' = None /\ Goes(p, Idle) /\ UNCHANGED mu
    /\ UNCHANGED <<items, currentSize, buffers, sets, late, leaked, raced>>

\* Faulty variant of CommitEnds: the lock is kept.
CommitEndsLocked(p) ==
    /\ at[p].pc = "commit" /\ at[p].todo = {}
    /\ transaction' = None
    /\ Goes(p, Idle)
    /\ UNCHANGED <<items, currentSize, mu, buffers, loop, sets, late, leaked, raced>>

CommitEnds(p) ==
    /\ at[p].pc = "commit" /\ at[p].todo = {}
    /\ transaction' = None /\ mu' = None
    /\ Goes(p, Idle)
    /\ UNCHANGED <<items, currentSize, buffers, loop, sets, late, leaked, raced>>

Step(p) ==
    \/ Buffer(p) \/ Upgrade(p) \/ Return(p)
    \/ Store(p) \/ Add(p)
    \/ EvictItems(p) \/ (\E key \in Keys : Meet(p, key)) \/ EvictDelete(p)
    \/ SizeRead(p) \/ SizeWritten(p) \/ CheckAgain(p)
    \/ \E key \in Keys : CommitItem(p, key) \/ CommitNoRoom(p, key)
    \/ Relock(p) \/ CommitEnds(p)

MemoryNext ==
    \/ \E p \in Procs :
          \/ Step(p)
          \/ ClearAll(p) \/ StartTransaction(p) \/ RollbackTransaction(p) \/ CommitTransaction(p)
          \/ \E key \in Keys :
                \/ Get(p, key) \/ Delete(p, key)
                \/ \E size \in Sizes[key] : Set(p, key, size) \/ SetInTransaction(p, key, size)
    \/ cleanup
    \/ \E k \in Keys : Expire(k)

\* Goroutines run, and a waiting one gets a lock of sync in the end.
MemorySpec == MemoryInit /\ [][MemoryNext]_memory /\ \A p \in Procs : SF_memory(Step(p))

-----------------------------------------------------------------------------
(* Properties.                                                             *)

\* Where a goroutine holds the cache's lock: a commit evicts without it, a Set with it.
Holds(p) == \/ at[p].pc \in {"buffer", "commit", "store", "add"}
            \/ at[p].pc \in Evicting /\ at[p].tx = None

\* Type invariant: the lock is held exactly by those who are in its sections, also after a
\* commit that gave it up and took it back.
MemoryTypeOK ==
    /\ currentSize \in Int /\ mu \in Procs \cup {None}
    /\ \A p \in Procs : mu = p <=> Holds(p)
    /\ transaction \in DOMAIN buffers \cup {None}
    /\ \A k \in Keys : items[k] # None => items[k].set \in 1..sets /\ items[k].size \in Nat

\* The limit, which a call checks some steps before it adds: nothing comes between that could
\* break it, unless an eviction without the lock and another use of the size overwrite each
\* other, or the eviction deletes an item of another size than the one it met.
SizeLimited == ~ raced => currentSize <= maxSize

\* Until then, the size that limits the cache is what is stored, and what was removed without
\* giving it back, less what a Get brought back; but for the item that a goroutine has evicted
\* or stored and not yet counted.
BooksBalance ==
    LET uncounted(p) == IF at[p].pc \in {"reduce", "reduced"} THEN loop[p].size
                        ELSE IF at[p].pc = "add" THEN - at[p].item.size ELSE 0
    IN  ~ raced =>
           currentSize = StoredSize + leaked + SumFunction([p \in Procs |-> uncounted(p)])

\* A Set that waits for a transaction's lock and the Get that holds it wait for each other.
Deadlocked == \E p \in Procs : at[p].pc = "buffer" /\ Reading(at[p].tx) # {}

\* Every call returns, but for that one deadlock.
CallsReturn ==
    \A p \in Procs : (at[p].pc # "idle") ~> (at[p].pc = "idle" \/ Deadlocked)
=============================================================================
