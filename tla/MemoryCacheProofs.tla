-------------------------- MODULE MemoryCacheProofs --------------------------
(***************************************************************************)
(* Theorems about MemoryCache, for any number of goroutines, keys, sizes   *)
(* and transactions: its type invariant with the discipline of its lock,   *)
(* and, until a size is overwritten or an eviction counts another size     *)
(* than it deletes, the limit of its size and the balance of its books.    *)
(***************************************************************************)
EXTENDS MemoryCache, Sums

-----------------------------------------------------------------------------
(* The inductive invariant.                                                *)

Item(n) == [set : 1..n, size : Nat, accessed : BOOLEAN]
Map(n) == [Keys -> Item(n) \cup {None}]
Transactions == 1..MaxTransactions

Local(n) == [pc : {"idle", "buffer", "upgrade", "return", "commit", "store", "add"} \cup Evicting,
             key : Keys \cup {None}, item : Item(n) \cup {None},
             tx : Transactions \cup {None}, todo : SUBSET Keys, size : Int]

Loop(n) == [map : Map(n) \cup {None}, scan : SUBSET Keys, now : SUBSET Nat,
            key : Keys \cup {None}, size : Nat]

\* The sections of a goroutine that has an item to store.
Storing == {"store", "add"} \cup Evicting

\* What a goroutine with the iteration lp holds where it is: n calls of Set have been made, and
\* bufs are the transactions' items.
Fits(l, lp, bufs, n) ==
    /\ l \in Local(n)
    /\ l.pc = "buffer" => l.item \in Item(n) /\ l.key \in Keys /\ l.tx \in Transactions
    /\ l.pc = "upgrade" /\ l.item # None => l.key \in Keys
    /\ l.pc = "commit" => l.tx \in Transactions
    /\ l.pc \in Storing => l.item \in Item(n) /\ l.key \in Keys
    /\ l.tx \in Transactions => \A k \in l.todo : bufs[l.tx][k] # None
    /\ l.pc \in Ranging => lp \in Loop(n)
    /\ l.pc = "delete" => lp.key \in Keys

Typed ==
    /\ currentSize \in Int /\ leaked \in Int /\ sets \in Nat /\ raced \in BOOLEAN
    /\ late \in SUBSET Nat
    /\ items \in Map(sets)
    /\ buffers \in [Transactions -> Map(sets)]
    /\ transaction \in Transactions \cup {None}
    /\ at = [p \in Procs |-> at[p]] /\ loop = [p \in Procs |-> loop[p]]
    /\ \A p \in Procs : Fits(at[p], loop[p], buffers, sets)

Holding(l) == \/ l.pc \in {"buffer", "commit", "store", "add"}
              \/ l.pc \in Evicting /\ l.tx = None

Locked ==
    /\ mu \in Procs \cup {None}
    /\ \A p \in Procs : mu = p <=> Holding(at[p])

\* Who is about to add has checked, and no other size has been written since but smaller ones.
HasRoom ==
    ~ raced => /\ currentSize <= maxSize
               /\ \A p \in Procs : at[p].pc \in {"store", "add"} => Room(at[p].item)

MemoryInv == Typed /\ Locked /\ HasRoom /\ BooksBalance

-----------------------------------------------------------------------------
(* Sizes.                                                                  *)

Total(map) == SumFunction([k \in Keys |-> SizeOf(map[k])])

LEMMA SizeIsNat ==
    ASSUME NEW n \in Nat, NEW item \in Item(n) \cup {None}
    PROVE  SizeOf(item) \in Nat
BY DEF SizeOf, Item

LEMMA ItemIsNotNone ==
    ASSUME NEW n \in Nat, NEW item \in Item(n)
    PROVE  item # None /\ SizeOf(item) = item.size /\ item.size \in Nat
<1>1. item \in [set : Nat, size : Nat, accessed : BOOLEAN] /\ item.size \in Nat
  <2>1. 1..n \subseteq Nat
    OBVIOUS
  <2>2. item \in [set : 1..n, size : Nat, accessed : BOOLEAN]
    BY DEF Item
  <2>3. item.set \in Nat /\ item.size \in Nat /\ item.accessed \in BOOLEAN
    BY <2>1, <2>2
  <2>4. item = [set |-> item.set, size |-> item.size, accessed |-> item.accessed]
    BY <2>2
  <2>5. QED
    BY <2>3, <2>4, Zenon
<1>2. item # None
  BY <1>1, MemoryAssumption, Zenon
<1>3. QED
  BY <1>1, <1>2 DEF SizeOf

LEMMA ItemsStay ==
    ASSUME NEW n \in Nat, NEW m \in Nat, n <= m
    PROVE  /\ Item(n) \subseteq Item(m) /\ Map(n) \subseteq Map(m)
           /\ Local(n) \subseteq Local(m) /\ Loop(n) \subseteq Loop(m)
<1>1. Item(n) \subseteq Item(m)
  BY DEF Item
<1>2. Map(n) \subseteq Map(m)
  BY <1>1 DEF Map
<1>3. Local(n) \subseteq Local(m) /\ Loop(n) \subseteq Loop(m)
  BY <1>1, <1>2 DEF Local, Loop
<1>4. QED
  BY <1>1, <1>2, <1>3

\* What is put under a key takes the place of what was there.
LEMMA TotalPut ==
    ASSUME NEW n \in Nat, NEW map \in Map(n), NEW key \in Keys, NEW item \in Item(n) \cup {None}
    PROVE  Total([map EXCEPT ![key] = item]) = Total(map) - SizeOf(map[key]) + SizeOf(item)
<1> DEFINE f == [k \in Keys |-> SizeOf(map[k])]
           g == [k \in Keys |-> SizeOf([map EXCEPT ![key] = item][k])]
<1>1. \A k \in Keys : f[k] \in Int /\ g[k] \in Int /\ (k # key => f[k] = g[k])
  BY SizeIsNat DEF Map
<1>2. f[key] = SizeOf(map[key]) /\ g[key] = SizeOf(item) /\ DOMAIN f = Keys /\ DOMAIN g = Keys
  BY DEF Map
<1>3. Total(map) = SumFunction(f) /\ Total([map EXCEPT ![key] = item]) = SumFunction(g)
  BY DEF Total
<1> HIDE DEF f, g
<1>4. SumFunctionOnSet(g, Keys) = SumFunctionOnSet(f, Keys) - f[key] + g[key]
  BY <1>1, MemoryAssumption, SumUpdate
<1>5. QED
  BY <1>2, <1>3, <1>4 DEF SumFunction

\* What is removed is what the removed keys held.
LEMMA TotalRemoved ==
    ASSUME NEW n \in Nat, NEW map \in Map(n), NEW removed \in SUBSET Keys
    PROVE  /\ Total([k \in Keys |-> IF k \in removed THEN None ELSE map[k]])
                 = Total(map) - SumFunction([k \in removed |-> SizeOf(map[k])])
           /\ Total(map) \in Nat
           /\ SumFunction([k \in removed |-> SizeOf(map[k])]) \in Nat
<1> DEFINE left == [k \in Keys |-> IF k \in removed THEN None ELSE map[k]]
           f == [k \in Keys |-> SizeOf(map[k])]
           g == [k \in Keys |-> SizeOf(left[k])]
           h == [k \in Keys |-> IF k \in removed THEN SizeOf(map[k]) ELSE 0]
           r == [k \in removed |-> SizeOf(map[k])]
<1>1. \A k \in Keys : SizeOf(map[k]) \in Nat /\ SizeOf(left[k]) \in Nat
  BY SizeIsNat DEF Map
<1>2. \A k \in Keys : SizeOf(left[k]) = IF k \in removed THEN 0 ELSE SizeOf(map[k])
  BY DEF SizeOf
<1>3. /\ \A k \in Keys : f[k] \in Nat /\ g[k] \in Nat /\ h[k] \in Nat /\ f[k] = g[k] + h[k]
      /\ \A k \in Keys : k \notin removed => h[k] = 0
      /\ \A k \in removed : h[k] \in Nat /\ h[k] = r[k]
  BY <1>1, <1>2
<1>4. /\ DOMAIN f = Keys /\ DOMAIN g = Keys /\ DOMAIN r = removed
      /\ Total(map) = SumFunction(f) /\ Total(left) = SumFunction(g)
  BY DEF Total
<1> HIDE DEF f, g, h, r
<1>5. IsFiniteSet(Keys) /\ IsFiniteSet(removed)
  BY MemoryAssumption, FS_Subset
<1>6. SumFunctionOnSet(f, Keys) = SumFunctionOnSet(g, Keys) + SumFunctionOnSet(h, Keys)
  BY <1>3, <1>5, SumAdds
<1>7. SumFunctionOnSet(h, Keys) = SumFunctionOnSet(h, removed)
  BY <1>3, <1>5, SumSupport
<1>8. SumFunctionOnSet(h, removed) = SumFunctionOnSet(r, removed)
  BY <1>3, <1>5, SumSame
<1>9. SumFunctionOnSet(f, Keys) \in Nat /\ SumFunctionOnSet(g, Keys) \in Nat
  BY <1>3, <1>5, SumNat
<1>10. SumFunctionOnSet(r, removed) \in Nat
  BY <1>3, <1>5, SumNat
<1>11. Total(left) = Total(map) - SumFunction(r) /\ Total(map) \in Nat /\ SumFunction(r) \in Nat
  BY <1>4, <1>6, <1>7, <1>8, <1>9, <1>10 DEF SumFunction
<1>12. QED
  BY <1>11 DEF r

LEMMA TotalNat ==
    ASSUME NEW n \in Nat, NEW map \in Map(n)
    PROVE  Total(map) \in Nat
<1>1. {} \in SUBSET Keys
  OBVIOUS
<1>2. QED
  BY <1>1, TotalRemoved

-----------------------------------------------------------------------------
(* Goroutines.                                                             *)

\* What a goroutine has evicted and not yet taken off the size, less what it has stored and not
\* yet added.
Owes(l, lp) == IF l.pc \in {"reduce", "reduced"} THEN lp.size
               ELSE IF l.pc = "add" THEN - l.item.size ELSE 0
Owed(locals, loops) == SumFunction([p \in Procs |-> Owes(locals[p], loops[p])])

LEMMA BalanceIs ==
    BooksBalance <=> (~ raced => currentSize = Total(items) + leaked + Owed(at, loop))
BY DEF BooksBalance, StoredSize, Total, Owed, Owes

LEMMA FitsStays ==
    ASSUME NEW n \in Nat, NEW m \in Nat, n <= m, NEW l, NEW lp, NEW bufs, Fits(l, lp, bufs, n)
    PROVE  Fits(l, lp, bufs, m)
<1>1. Item(n) \subseteq Item(m) /\ Local(n) \subseteq Local(m) /\ Loop(n) \subseteq Loop(m)
  BY ItemsStay
<1>2. QED
  BY <1>1 DEF Fits

LEMMA OwesInt ==
    ASSUME NEW n \in Nat, NEW bufs, NEW l, NEW lp, Fits(l, lp, bufs, n)
    PROVE  Owes(l, lp) \in Int
<1>1. CASE l.pc \in {"reduce", "reduced"}
  BY <1>1 DEF Fits, Owes, Loop, Ranging
<1>2. CASE l.pc = "add"
  <2>1. l.item.size \in Nat
    BY <1>2 DEF Fits, Storing, Item
  <2>2. QED
    BY <1>2, <2>1 DEF Owes
<1>3. CASE l.pc \notin {"reduce", "reduced", "add"}
  BY <1>3 DEF Owes
<1>4. QED
  BY <1>1, <1>2, <1>3

LEMMA OwedInt ==
    ASSUME Typed
    PROVE  Owed(at, loop) \in Int
<1> DEFINE f == [p \in Procs |-> Owes(at[p], loop[p])]
<1>1. Owed(at, loop) = SumFunction(f) /\ DOMAIN f = Procs /\ \A p \in Procs : f[p] \in Int
  BY OwesInt DEF Owed, Typed
<1> HIDE DEF f
<1>2. QED
  BY <1>1, MemoryAssumption, SumInt DEF SumFunction

\* p goes on with the iteration lp, and the others keep theirs.
Loops(p, lp) == /\ loop' = [q \in Procs |-> loop'[q]]
                /\ \A q \in Procs : loop'[q] = IF q = p THEN lp ELSE loop[q]

LEMMA LoopStays ==
    ASSUME Typed, NEW p \in Procs, UNCHANGED loop
    PROVE  Loops(p, loop[p])
BY DEF Typed, Loops

LEMMA LoopChanges ==
    ASSUME Typed, NEW p \in Procs, NEW lp, loop' = [loop EXCEPT ![p] = lp]
    PROVE  Loops(p, lp)
BY DEF Typed, Loops

\* One goroutine goes on, the others stay where they are.
LEMMA GoesFits ==
    ASSUME Typed, NEW p \in Procs, NEW l, NEW lp, Goes(p, l), Loops(p, lp),
           sets' \in Nat, sets <= sets', buffers' = buffers, Fits(l, lp, buffers, sets')
    PROVE  /\ at' = [q \in Procs |-> at'[q]] /\ loop' = [q \in Procs |-> loop'[q]]
           /\ \A q \in Procs : at'[q] = IF q = p THEN l ELSE at[q]
           /\ \A q \in Procs : Fits(at'[q], loop'[q], buffers', sets')
           /\ Owed(at', loop') = Owed(at, loop) - Owes(at[p], loop[p]) + Owes(l, lp)
           /\ Owed(at, loop) \in Int /\ Owes(at[p], loop[p]) \in Int /\ Owes(l, lp) \in Int
<1>1. /\ sets \in Nat /\ at = [q \in Procs |-> at[q]]
      /\ \A q \in Procs : Fits(at[q], loop[q], buffers, sets)
  BY DEF Typed
<1>2. \A q \in Procs : Fits(at[q], loop[q], buffers, sets')
  BY <1>1, FitsStays
<1>3. /\ at' = [q \in Procs |-> at'[q]] /\ loop' = [q \in Procs |-> loop'[q]]
      /\ \A q \in Procs : at'[q] = IF q = p THEN l ELSE at[q]
      /\ \A q \in Procs : loop'[q] = IF q = p THEN lp ELSE loop[q]
  BY <1>1 DEF Goes, Loops
<1>4. \A q \in Procs : Fits(at'[q], loop'[q], buffers', sets')
  BY <1>2, <1>3
<1> DEFINE f == [q \in Procs |-> Owes(at[q], loop[q])]
           g == [q \in Procs |-> Owes(at'[q], loop'[q])]
<1>5. \A q \in Procs : Owes(at[q], loop[q]) \in Int /\ Owes(at'[q], loop'[q]) \in Int
  BY <1>2, <1>4, OwesInt
<1>6. /\ \A q \in Procs : f[q] \in Int /\ g[q] \in Int /\ (q # p => f[q] = g[q])
      /\ DOMAIN f = Procs /\ DOMAIN g = Procs
      /\ f[p] = Owes(at[p], loop[p]) /\ g[p] = Owes(l, lp)
      /\ Owed(at, loop) = SumFunction(f) /\ Owed(at', loop') = SumFunction(g)
  BY <1>3, <1>5 DEF Owed
<1> HIDE DEF f, g
<1>7. IsFiniteSet(Procs)
  BY MemoryAssumption
<1>8. SumFunctionOnSet(g, Procs) = SumFunctionOnSet(f, Procs) - f[p] + g[p]
  BY <1>6, <1>7, SumUpdate
<1>9. SumFunctionOnSet(f, Procs) \in Int
  BY <1>6, <1>7, SumInt
<1>10. QED
  BY <1>3, <1>4, <1>6, <1>8, <1>9 DEF SumFunction

\* The books still balance after a step that changes both sides by the same.
LEMMA StillBalances ==
    ASSUME MemoryInv, Typed', raced => raced',
           ~ raced' => currentSize' - currentSize =
               (Total(items') - Total(items)) + (Owed(at', loop') - Owed(at, loop))
                                              + (leaked' - leaked)
    PROVE  BooksBalance'
<1>1. BooksBalance' <=> (~ raced' => currentSize' = Total(items') + leaked' + Owed(at', loop'))
  BY DEF BooksBalance, StoredSize, Total, Owed, Owes
<1>2. ~ raced => currentSize = Total(items) + leaked + Owed(at, loop)
  BY BalanceIs DEF MemoryInv
<1>3. /\ sets \in Nat /\ items \in Map(sets) /\ currentSize \in Int /\ leaked \in Int
      /\ sets' \in Nat /\ items' \in Map(sets') /\ currentSize' \in Int /\ leaked' \in Int
  BY DEF MemoryInv, Typed
<1>4. Total(items) \in Nat /\ Total(items') \in Nat
  BY <1>3, TotalNat
<1>5. Owed(at, loop) \in Int
  BY OwedInt DEF MemoryInv
<1>6. Owed(at', loop') \in Int
  <2> DEFINE f == [p \in Procs |-> Owes(at'[p], loop'[p])]
  <2>1. /\ Owed(at', loop') = SumFunction(f) /\ DOMAIN f = Procs
        /\ \A p \in Procs : f[p] \in Int
    BY <1>3, OwesInt DEF Owed, Typed
  <2> HIDE DEF f
  <2>2. QED
    BY <2>1, MemoryAssumption, SumInt DEF SumFunction
<1>7. QED
  BY <1>1, <1>2, <1>3, <1>4, <1>5, <1>6

-----------------------------------------------------------------------------
(* Every step keeps the invariant.                                         *)

LEMMA MemoryInitInv ==
    ASSUME MemoryInit
    PROVE  MemoryInv
<1> USE DEF MemoryInit
<1>1. Typed
  <2>1. Idle \in Local(0) /\ \A bufs : Fits(Idle, None, bufs, 0)
    BY MemoryAssumption DEF Idle, Local, Fits, Storing, Evicting, Ranging
  <2>2. items \in Map(0) /\ buffers \in [Transactions -> Map(0)]
    BY DEF Map, Transactions
  <2>3. /\ at = [p \in Procs |-> at[p]] /\ loop = [p \in Procs |-> loop[p]]
        /\ \A p \in Procs : Fits(at[p], loop[p], buffers, 0)
    <3>1. at = [p \in Procs |-> Idle] /\ loop = [p \in Procs |-> None]
      OBVIOUS
    <3>2. QED
      BY <2>1, <3>1
  <2>4. /\ currentSize = 0 /\ leaked = 0 /\ sets = 0 /\ raced = FALSE /\ transaction = None
        /\ late = {}
    OBVIOUS
  <2> HIDE DEF MemoryInit
  <2>5. /\ currentSize \in Int /\ leaked \in Int /\ sets \in Nat /\ late \in SUBSET Nat
        /\ transaction \in Transactions \cup {None}
    BY <2>4
  <2>6. raced \in BOOLEAN
    BY <2>4
  <2>7. QED
    BY <2>2, <2>3, <2>4, <2>5, <2>6, Zenon DEF Typed
<1>2. Locked
  BY MemoryAssumption DEF Locked, Idle, Holding, Evicting, Ranging
<1>3. HasRoom
  BY MemoryAssumption DEF HasRoom, Idle
<1>4. BooksBalance
  <2>1. \A k \in Keys : SizeOf(items[k]) = 0
    BY DEF SizeOf
  <2>2. \A p \in Procs : Owes(at[p], loop[p]) = 0
    BY DEF Owes, Idle
  <2> DEFINE f == [k \in Keys |-> SizeOf(items[k])]
             g == [p \in Procs |-> Owes(at[p], loop[p])]
  <2>3. /\ DOMAIN f = Keys /\ \A k \in Keys : f[k] = 0
        /\ DOMAIN g = Procs /\ \A p \in Procs : g[p] = 0
        /\ Total(items) = SumFunction(f) /\ Owed(at, loop) = SumFunction(g)
    BY <2>1, <2>2 DEF Total, Owed
  <2> HIDE DEF f, g
  <2>4. Total(items) = 0 /\ Owed(at, loop) = 0
    BY <2>3, MemoryAssumption, SumZero DEF SumFunction
  <2>5. QED
    BY <2>4, BalanceIs
<1>5. QED
  BY <1>1, <1>2, <1>3, <1>4 DEF MemoryInv

\* The size within its limit, also for the one who goes on to add to it; only who holds the
\* lock makes it larger.
Roomy(p, l) ==
    ~ raced' => /\ currentSize' <= maxSize
                /\ l.pc \in {"store", "add"} => currentSize' + l.item.size <= maxSize
                /\ currentSize' <= currentSize \/ mu = p

\* A step of one goroutine that touches no transaction's items.
LEMMA StepInv ==
    ASSUME MemoryInv, NEW p \in Procs, NEW l, NEW lp, Goes(p, l), Loops(p, lp),
           UNCHANGED <<buffers, late>>,
           sets' \in Nat, sets <= sets', Fits(l, lp, buffers, sets'),
           items' \in Map(sets'), currentSize' \in Int, leaked' \in Int,
           raced' \in BOOLEAN, transaction' \in Transactions \cup {None},
           Holding(l) => mu \in {None, p},
           mu' = IF Holding(l) THEN p ELSE IF mu = p THEN None ELSE mu,
           raced => raced', Roomy(p, l),
           ~ raced' => currentSize' - currentSize =
               (Total(items') - Total(items)) + (Owes(l, lp) - Owes(at[p], loop[p]))
                                              + (leaked' - leaked)
    PROVE  MemoryInv'
<1>1. Typed /\ Locked /\ HasRoom /\ sets \in Nat /\ items \in Map(sets) /\ currentSize \in Int
  BY DEF MemoryInv, Typed
<1>2. /\ at' = [q \in Procs |-> at'[q]] /\ loop' = [q \in Procs |-> loop'[q]]
      /\ \A q \in Procs : at'[q] = IF q = p THEN l ELSE at[q]
      /\ \A q \in Procs : Fits(at'[q], loop'[q], buffers', sets')
      /\ Owed(at', loop') = Owed(at, loop) - Owes(at[p], loop[p]) + Owes(l, lp)
      /\ Owed(at, loop) \in Int /\ Owes(at[p], loop[p]) \in Int /\ Owes(l, lp) \in Int
  BY <1>1, GoesFits
<1>3. buffers' \in [Transactions -> Map(sets')] /\ late' \in SUBSET Nat
  BY <1>1, ItemsStay DEF Typed
<1>4. Typed'
  BY <1>2, <1>3 DEF Typed
<1>5. Locked'
  <2>1. None \notin Procs
    BY MemoryAssumption
  <2>2. /\ mu \in Procs \cup {None} /\ \A q \in Procs : mu = q <=> Holding(at[q])
    BY <1>1 DEF Locked
  <2>3. \A q \in Procs : mu' = q <=> Holding(at'[q])
    BY <1>2, <2>1, <2>2
  <2>4. QED
    BY <2>2, <2>3 DEF Locked, Holding
<1>6. HasRoom'
  <2> SUFFICES ASSUME ~ raced'
               PROVE  /\ currentSize' <= maxSize
                      /\ \A q \in Procs : at'[q].pc \in {"store", "add"} =>
                             currentSize' + at'[q].item.size <= maxSize
    BY DEF HasRoom, Room
  <2>1. /\ currentSize' <= maxSize
        /\ l.pc \in {"store", "add"} => currentSize' + l.item.size <= maxSize
        /\ currentSize' <= currentSize \/ mu = p
    BY DEF Roomy
  <2>2. ASSUME NEW q \in Procs, at'[q].pc \in {"store", "add"}, q # p
        PROVE  currentSize' + at'[q].item.size <= maxSize
    <3>1. at'[q] = at[q]
      BY <1>2, <2>2
    <3>2. mu = q
      BY <1>1, <2>2, <3>1 DEF Locked, Holding
    <3>3. currentSize + at[q].item.size <= maxSize
      BY <1>1, <2>2, <3>1 DEF HasRoom, Room
    <3>4. at[q].item.size \in Nat
      BY <1>1, <2>2, <3>1 DEF Typed, Fits, Storing, Item
    <3>5. QED
      BY <1>1, <2>1, <2>2, <3>1, <3>2, <3>3, <3>4, MemoryAssumption
  <2>3. QED
    BY <1>2, <2>1, <2>2
<1>7. Total(items) \in Nat /\ Total(items') \in Nat
  BY <1>1, TotalNat
<1>8. ~ raced' => currentSize' - currentSize =
          (Total(items') - Total(items)) + (Owed(at', loop') - Owed(at, loop))
                                         + (leaked' - leaked)
  <2>1. Owed(at', loop') - Owed(at, loop) = Owes(l, lp) - Owes(at[p], loop[p])
    BY <1>2
  <2>2. QED
    BY <2>1
<1>9. BooksBalance'
  BY <1>4, <1>8, StillBalances
<1>10. QED
  BY <1>4, <1>5, <1>6, <1>9 DEF MemoryInv

Uncounted == {"reduce", "reduced", "add"}

\* A step that only moves a goroutine on.
LEMMA QuietStepInv ==
    ASSUME MemoryInv, NEW p \in Procs, NEW l, NEW lp, Goes(p, l), Loops(p, lp),
           UNCHANGED <<items, currentSize, buffers, late, leaked, raced>>,
           sets' \in Nat, sets <= sets', Fits(l, lp, buffers, sets'),
           transaction' \in Transactions \cup {None},
           Holding(l) => mu \in {None, p},
           mu' = IF Holding(l) THEN p ELSE IF mu = p THEN None ELSE mu,
           l.pc = "store" => Room(l.item),
           at[p].pc \notin Uncounted, l.pc \notin Uncounted
    PROVE  MemoryInv'
<1>1. /\ sets \in Nat /\ items \in Map(sets) /\ currentSize \in Int /\ leaked \in Int
      /\ raced \in BOOLEAN /\ (~ raced => currentSize <= maxSize)
  BY DEF MemoryInv, Typed, HasRoom
<1>2. items' \in Map(sets')
  BY <1>1, ItemsStay
<1>3. Owes(l, lp) = 0 /\ Owes(at[p], loop[p]) = 0
  BY DEF Owes, Uncounted
<1>4. Total(items) \in Nat /\ Total(items') = Total(items)
  BY <1>1, TotalNat
<1>5. currentSize' - currentSize =
         (Total(items') - Total(items)) + (Owes(l, lp) - Owes(at[p], loop[p]))
                                        + (leaked' - leaked)
  BY <1>1, <1>3, <1>4
<1>6. (raced => raced') /\ UNCHANGED <<buffers, late>>
  OBVIOUS
<1>7. currentSize' \in Int /\ leaked' \in Int /\ currentSize' = currentSize /\ raced' = raced
  BY <1>1
<1>8. raced' \in BOOLEAN
  BY <1>1
<1>9. Roomy(p, l)
  BY <1>1, <1>7 DEF Roomy, Room, Uncounted
<1>10. QED
  BY <1>2, <1>5, <1>6, <1>7, <1>8, <1>9, StepInv

LEMMA LocalIs ==
    ASSUME NEW l, l = [x \in {"pc", "key", "item", "tx", "todo", "size"} |-> l[x]]
    PROVE  l = [pc |-> l.pc, key |-> l.key, item |-> l.item, tx |-> l.tx, todo |-> l.todo,
                size |-> l.size]
<1> DEFINE D == {"pc", "key", "item", "tx", "todo", "size"}
           r == [pc |-> l.pc, key |-> l.key, item |-> l.item, tx |-> l.tx, todo |-> l.todo,
                 size |-> l.size]
<1>1. r = [x \in D |-> r[x]] /\ l = [x \in D |-> l[x]]
  OBVIOUS
<1>2. \A x \in D : l[x] = r[x]
  <2>1. /\ l.pc = r.pc /\ l.key = r.key /\ l.item = r.item /\ l.tx = r.tx /\ l.todo = r.todo
        /\ l.size = r.size
    OBVIOUS
  <2> HIDE DEF r
  <2>2. QED
    BY <2>1
<1> HIDE DEF r, D
<1>3. l = r
  BY <1>1, <1>2
<1>4. QED
  BY <1>3 DEF r

-----------------------------------------------------------------------------
(* Steps that only move a goroutine on.                                    *)


LEMMA IdleFits ==
    ASSUME NEW n, NEW lp, NEW bufs
    PROVE  Fits(Idle, lp, bufs, n) /\ ~ Holding(Idle) /\ Idle.pc = "idle"
BY MemoryAssumption DEF Fits, Local, Idle, Holding, Storing, Evicting, Ranging

LEMMA SetInv ==
    ASSUME MemoryInv, NEW p \in Procs, NEW key \in Keys, NEW size \in Sizes[key],
           Set(p, key, size)
    PROVE  MemoryInv'
<1> DEFINE item == NewItem(size)
           pc == IF Room(item) THEN "store" ELSE "evict"
           l == [Idle EXCEPT !.pc = pc, !.key = key, !.item = item]
<1>1. /\ Typed /\ sets \in Nat /\ sets' = sets + 1 /\ transaction \in Transactions \cup {None}
      /\ at[p].pc = "idle" /\ mu = None /\ mu' = p /\ Goes(p, l)
      /\ UNCHANGED <<items, currentSize, transaction, buffers, loop, late, leaked, raced>>
  BY DEF MemoryInv, Typed, Set, Calls
<1>2. item \in Item(sets')
  BY <1>1, MemoryAssumption DEF NewItem, Item
<1>3. pc \in {"store", "evict"} /\ (pc = "store" => Room(item))
  OBVIOUS
<1> HIDE DEF item, pc
<1>4. /\ l = [x \in {"pc", "key", "item", "tx", "todo", "size"} |-> l[x]]
      /\ l.pc = pc /\ l.key = key /\ l.item = item /\ l.tx = None /\ l.todo = {} /\ l.size = 0
  BY DEF Idle
<1> HIDE DEF l
<1>5. Fits(l, loop[p], buffers, sets')
  <2>1. l \in Local(sets')
    BY <1>2, <1>3, <1>4, LocalIs DEF Local, Evicting
  <2>2. QED
    BY <1>2, <1>3, <1>4, <2>1 DEF Fits, Ranging, Storing, Evicting
<1>6. Holding(l) /\ l.pc \notin Uncounted /\ at[p].pc \notin Uncounted
  BY <1>1, <1>3, <1>4 DEF Holding, Uncounted, Evicting
<1>7. Loops(p, loop[p])
  BY <1>1, LoopStays
<1>8. QED
  BY <1>1, <1>3, <1>4, <1>5, <1>6, <1>7, QuietStepInv

LEMMA SetInTransactionInv ==
    ASSUME MemoryInv, NEW p \in Procs, NEW key \in Keys, NEW size \in Sizes[key],
           SetInTransaction(p, key, size)
    PROVE  MemoryInv'
<1> DEFINE item == NewItem(size)
           l == [Idle EXCEPT !.pc = "buffer", !.key = key, !.item = item, !.tx = transaction]
<1>1. /\ Typed /\ sets \in Nat /\ sets' = sets + 1 /\ transaction \in Transactions
      /\ at[p].pc = "idle" /\ mu = None /\ mu' = p /\ Goes(p, l)
      /\ UNCHANGED <<items, currentSize, transaction, buffers, loop, late, leaked, raced>>
  BY DEF MemoryInv, Typed, SetInTransaction, Calls
<1>2. item \in Item(sets')
  BY <1>1, MemoryAssumption DEF NewItem, Item
<1> HIDE DEF item
<1>3. /\ l = [x \in {"pc", "key", "item", "tx", "todo", "size"} |-> l[x]]
      /\ l.pc = "buffer" /\ l.key = key /\ l.item = item /\ l.tx = transaction /\ l.todo = {}
      /\ l.size = 0
  BY DEF Idle
<1> HIDE DEF l
<1>4. Fits(l, loop[p], buffers, sets')
  <2>1. l \in Local(sets')
    BY <1>1, <1>2, <1>3, LocalIs DEF Local
  <2>2. QED
    BY <1>1, <1>2, <1>3, <2>1 DEF Fits, Ranging, Storing, Evicting
<1>5. Holding(l) /\ l.pc \notin Uncounted /\ at[p].pc \notin Uncounted
  BY <1>1, <1>3 DEF Holding, Uncounted
<1>6. Loops(p, loop[p])
  BY <1>1, LoopStays
<1>7. QED
  BY <1>1, <1>3, <1>4, <1>5, <1>6, QuietStepInv

LEMMA GetInv ==
    ASSUME MemoryInv, NEW p \in Procs, NEW key \in Keys, Get(p, key)
    PROVE  MemoryInv'
<1> DEFINE buffered == IF transaction = None THEN None ELSE buffers[transaction][key]
           found == buffered = None /\ items[key] # None /\ items[key].set \notin late
           its == IF found THEN items[key] ELSE None
           under == IF found THEN key ELSE None
           l == [Idle EXCEPT !.pc = "upgrade", !.tx = transaction, !.key = under, !.item = its]
<1>1. /\ Typed /\ sets \in Nat /\ sets' = sets /\ transaction \in Transactions \cup {None}
      /\ at[p].pc = "idle" /\ mu = None /\ mu' = mu /\ Goes(p, l)
      /\ UNCHANGED <<items, currentSize, transaction, buffers, loop, late, leaked, raced>>
  BY DEF MemoryInv, Typed, Get, Calls
<1>2. /\ its \in Item(sets) \cup {None} /\ under \in Keys \cup {None}
      /\ its # None => under \in Keys
  BY DEF MemoryInv, Typed, Map
<1> HIDE DEF its, under
<1>3. /\ l = [x \in {"pc", "key", "item", "tx", "todo", "size"} |-> l[x]]
      /\ l.pc = "upgrade" /\ l.key = under /\ l.item = its /\ l.tx = transaction /\ l.todo = {}
      /\ l.size = 0
  BY DEF Idle
<1> HIDE DEF l
<1>4. Fits(l, loop[p], buffers, sets')
  <2>1. l \in Local(sets')
    BY <1>1, <1>2, <1>3, LocalIs DEF Local
  <2>2. QED
    BY <1>1, <1>2, <1>3, <2>1 DEF Fits, Ranging, Storing, Evicting
<1>5. ~ Holding(l) /\ l.pc \notin Uncounted /\ at[p].pc \notin Uncounted /\ mu # p
  BY <1>1, <1>3, MemoryAssumption DEF Holding, Uncounted, Evicting, Ranging
<1>6. Loops(p, loop[p])
  BY <1>1, LoopStays
<1>7. QED
  BY <1>1, <1>3, <1>4, <1>5, <1>6, QuietStepInv

LEMMA ReturnInv ==
    ASSUME MemoryInv, NEW p \in Procs, Return(p)
    PROVE  MemoryInv'
<1>1. /\ Typed /\ sets \in Nat /\ sets' = sets /\ transaction \in Transactions \cup {None}
      /\ at[p].pc = "return" /\ mu = None /\ mu' = mu /\ Goes(p, Idle)
      /\ UNCHANGED <<items, currentSize, transaction, buffers, loop, late, leaked, raced>>
  BY DEF MemoryInv, Typed, Return
<1>2. mu # p /\ Idle.pc \notin Uncounted /\ at[p].pc \notin Uncounted /\ Idle.pc # "store"
  BY <1>1, MemoryAssumption DEF Uncounted, Idle
<1>3. Loops(p, loop[p])
  BY <1>1, LoopStays
<1>4. QED
  BY <1>1, <1>2, <1>3, IdleFits, QuietStepInv

LEMMA CommitTransactionInv ==
    ASSUME MemoryInv, NEW p \in Procs, CommitTransaction(p)
    PROVE  MemoryInv'
<1> DEFINE todo == {k \in Keys : buffers[transaction][k] # None}
           l == [Idle EXCEPT !.pc = "commit", !.tx = transaction, !.todo = todo]
<1>1. /\ Typed /\ sets \in Nat /\ sets' = sets /\ transaction \in Transactions
      /\ at[p].pc = "idle" /\ mu = None /\ mu' = p /\ Goes(p, l)
      /\ UNCHANGED <<items, currentSize, transaction, buffers, loop, late, leaked, raced>>
  BY DEF MemoryInv, Typed, CommitTransaction, Calls
<1>2. todo \in SUBSET Keys /\ \A k \in todo : buffers[transaction][k] # None
  OBVIOUS
<1> HIDE DEF todo
<1>3. /\ l = [x \in {"pc", "key", "item", "tx", "todo", "size"} |-> l[x]]
      /\ l.pc = "commit" /\ l.key = None /\ l.item = None /\ l.tx = transaction /\ l.todo = todo
      /\ l.size = 0
  BY DEF Idle
<1> HIDE DEF l
<1>4. Fits(l, loop[p], buffers, sets')
  <2>1. l \in Local(sets')
    BY <1>1, <1>2, <1>3, LocalIs DEF Local
  <2>2. QED
    BY <1>1, <1>2, <1>3, <2>1 DEF Fits, Ranging, Storing, Evicting
<1>5. Holding(l) /\ l.pc \notin Uncounted /\ at[p].pc \notin Uncounted
  BY <1>1, <1>3 DEF Holding, Uncounted
<1>6. Loops(p, loop[p])
  BY <1>1, LoopStays
<1>7. QED
  BY <1>1, <1>3, <1>4, <1>5, <1>6, QuietStepInv

LEMMA CommitEndsInv ==
    ASSUME MemoryInv, NEW p \in Procs, CommitEnds(p)
    PROVE  MemoryInv'
<1>1. /\ Typed /\ sets \in Nat /\ sets' = sets /\ transaction' \in Transactions \cup {None}
      /\ at[p].pc = "commit" /\ mu' = None /\ Goes(p, Idle)
      /\ UNCHANGED <<items, currentSize, buffers, loop, late, leaked, raced>>
  BY DEF MemoryInv, Typed, CommitEnds
<1>2. mu = p
  BY <1>1 DEF MemoryInv, Locked, Holding
<1>3. Idle.pc \notin Uncounted /\ at[p].pc \notin Uncounted /\ Idle.pc # "store"
  BY <1>1 DEF Uncounted, Idle
<1>4. Loops(p, loop[p])
  BY <1>1, LoopStays
<1>5. QED
  BY <1>1, <1>2, <1>3, <1>4, IdleFits, QuietStepInv

\* The item of a goroutine that goes through its transaction's.
LEMMA BufferedIsItem ==
    ASSUME Typed, NEW p \in Procs, NEW key \in Keys, at[p].pc = "commit", key \in at[p].todo
    PROVE  Buffered(p, key) \in Item(sets) /\ at[p].tx \in Transactions
<1>1. Fits(at[p], loop[p], buffers, sets) /\ buffers \in [Transactions -> Map(sets)]
  BY DEF Typed
<1>2. at[p].tx \in Transactions /\ buffers[at[p].tx][key] # None
  BY <1>1 DEF Fits
<1>3. QED
  BY <1>1, <1>2 DEF Buffered, Map

LEMMA CommitsInv ==
    ASSUME MemoryInv, NEW p \in Procs, NEW key \in Keys, CommitItem(p, key) \/ CommitNoRoom(p, key)
    PROVE  MemoryInv'
<1> DEFINE item == Buffered(p, key)
           pc == IF CommitItem(p, key) THEN "store" ELSE "evict"
           l == [at[p] EXCEPT !.pc = pc, !.key = key, !.item = item]
<1>1. /\ Typed /\ sets \in Nat /\ sets' = sets /\ transaction \in Transactions \cup {None}
      /\ at[p].pc = "commit" /\ key \in at[p].todo
      /\ UNCHANGED <<items, currentSize, transaction, buffers, loop, late, leaked, raced>>
  BY DEF MemoryInv, Typed, CommitItem, CommitNoRoom
<1>2. mu = p /\ Fits(at[p], loop[p], buffers, sets)
  BY <1>1 DEF MemoryInv, Typed, Locked, Holding
<1>3. item \in Item(sets) /\ at[p].tx \in Transactions
  BY <1>1, BufferedIsItem
<1>4. /\ pc = "store" => Room(item) /\ mu' = mu
      /\ pc = "evict" => mu' = None
      /\ pc \in {"store", "evict"} /\ Goes(p, l)
  BY <1>1 DEF CommitItem, CommitNoRoom
<1> HIDE DEF item, pc
<1>5. /\ l = [x \in {"pc", "key", "item", "tx", "todo", "size"} |-> l[x]]
      /\ l.pc = pc /\ l.key = key /\ l.item = item /\ l.tx = at[p].tx /\ l.todo = at[p].todo
      /\ l.size = at[p].size
  BY <1>2 DEF Fits, Local
<1> HIDE DEF l
<1>6. Fits(l, loop[p], buffers, sets')
  <2>1. l \in Local(sets')
    BY <1>1, <1>2, <1>3, <1>4, <1>5, LocalIs DEF Fits, Local, Evicting
  <2>2. QED
    BY <1>1, <1>2, <1>3, <1>4, <1>5, <2>1 DEF Fits, Ranging, Storing, Evicting
<1>7. at[p].tx # None
  BY <1>3, MemoryAssumption DEF Transactions
<1>8. (Holding(l) <=> pc = "store") /\ l.pc \notin Uncounted /\ at[p].pc \notin Uncounted
  BY <1>1, <1>4, <1>5, <1>7 DEF Holding, Uncounted, Evicting, Ranging
<1>9. Loops(p, loop[p])
  BY <1>1, LoopStays
<1>10. QED
  BY <1>1, <1>2, <1>4, <1>5, <1>6, <1>8, <1>9, QuietStepInv

-----------------------------------------------------------------------------
(* Evictions.                                                              *)

\* What is the same of every goroutine that evicts.
LEMMA EvictsWhere ==
    ASSUME MemoryInv, NEW p \in Procs, at[p].pc \in Evicting
    PROVE  /\ Typed /\ sets \in Nat /\ sets <= sets /\ items \in Map(sets)
           /\ currentSize \in Int /\ leaked \in Int /\ raced \in BOOLEAN
           /\ transaction \in Transactions \cup {None}
           /\ Fits(at[p], loop[p], buffers, sets) /\ at[p] \in Local(sets)
           /\ at[p].pc \in Ranging => loop[p] \in Loop(sets)
           /\ mu = p <=> at[p].tx = None
           /\ mu \in Procs \cup {None}
BY DEF MemoryInv, Typed, Fits, Locked, Holding, Evicting, Ranging

\* A goroutine that goes on evicting.
LEMMA EvictsOn ==
    ASSUME NEW n, NEW bufs, NEW l, NEW lp, NEW m, NEW lq, Fits(l, lp, bufs, n),
           l.pc \in Evicting, m \in Local(n), m.pc \in Evicting,
           m.key = l.key, m.item = l.item, m.tx = l.tx, m.todo = l.todo,
           m.pc \in Ranging => lq \in Loop(n), m.pc = "delete" => lq.key \in Keys
    PROVE  Fits(m, lq, bufs, n) /\ (Holding(m) <=> l.tx = None) /\ m.pc \notin {"store", "add"}
BY DEF Fits, Holding, Storing, Evicting, Ranging

\* One whose pc and size change, and one whose pc changes.
LEMMA GoesOn ==
    ASSUME NEW n, NEW l \in Local(n), NEW m,
           m = [x \in {"pc", "key", "item", "tx", "todo", "size"} |-> m[x]],
           m.pc \in {"commit", "store", "add"} \/ m.pc \in Evicting,
           m.key = l.key, m.item = l.item, m.tx = l.tx, m.todo = l.todo, m.size \in Int
    PROVE  m \in Local(n)
BY LocalIs DEF Local, Evicting, Ranging

LEMMA PcGoesOn ==
    ASSUME NEW n, NEW l \in Local(n), NEW c \in {"commit", "store", "add"} \cup Evicting,
           NEW m, m = [l EXCEPT !.pc = c]
    PROVE  /\ m \in Local(n) /\ m.pc = c /\ m.key = l.key /\ m.item = l.item
           /\ m.tx = l.tx /\ m.todo = l.todo
BY DEF Local

LEMMA LoopIs ==
    ASSUME NEW n, NEW lp, lp = [x \in {"map", "scan", "now", "key", "size"} |-> lp[x]],
           lp.map \in Map(n) \cup {None}, lp.scan \in SUBSET Keys, lp.now \in SUBSET Nat,
           lp.key \in Keys \cup {None}, lp.size \in Nat
    PROVE  lp \in Loop(n)
<1> DEFINE D == {"map", "scan", "now", "key", "size"}
           r == [map |-> lp.map, scan |-> lp.scan, now |-> lp.now, key |-> lp.key,
                 size |-> lp.size]
<1>1. r = [x \in D |-> r[x]] /\ lp = [x \in D |-> lp[x]]
  OBVIOUS
<1>2. \A x \in D : lp[x] = r[x]
  <2>1. /\ lp.map = r.map /\ lp.scan = r.scan /\ lp.now = r.now /\ lp.key = r.key
        /\ lp.size = r.size
    OBVIOUS
  <2> HIDE DEF r
  <2>2. QED
    BY <2>1
<1> HIDE DEF r, D
<1>3. lp = r
  BY <1>1, <1>2
<1>4. QED
  BY <1>3 DEF r, Loop

\* What a step that may go wrong leaves of the history.
LEMMA RacesMarks ==
    ASSUME raced \in BOOLEAN, leaked \in Int, NEW wrong \in BOOLEAN, Races(wrong)
    PROVE  /\ raced' \in BOOLEAN /\ (raced => raced') /\ leaked' \in Int
           /\ ~ raced' => ~ raced /\ ~ wrong /\ leaked' = leaked
<1>1. raced' = (raced \/ wrong) /\ leaked' = IF raced \/ wrong THEN 0 ELSE leaked
  BY DEF Races
<1>2. CASE raced \/ wrong
  <2>1. raced' = TRUE /\ leaked' = 0
    BY <1>1, <1>2, Zenon
  <2>2. QED
    BY <2>1
<1>3. CASE ~ (raced \/ wrong)
  <2>1. raced' = FALSE /\ leaked' = leaked
    BY <1>1, <1>3, Zenon
  <2>2. QED
    BY <1>3, <2>1
<1>4. QED
  BY <1>2, <1>3

LEMMA EvictItemsInv ==
    ASSUME MemoryInv, NEW p \in Procs, EvictItems(p)
    PROVE  MemoryInv'
<1> DEFINE l == [at[p] EXCEPT !.pc = "range"]
           lp == [map |-> None, scan |-> Keys, now |-> late, key |-> None, size |-> 0]
<1>1. /\ at[p].pc = "evict" /\ Goes(p, l) /\ loop' = [loop EXCEPT ![p] = lp]
      /\ UNCHANGED <<items, currentSize, mu, transaction, buffers, sets, late, leaked, raced>>
  BY DEF EvictItems
<1>2. /\ Typed /\ sets \in Nat /\ sets <= sets /\ transaction \in Transactions \cup {None}
      /\ Fits(at[p], loop[p], buffers, sets) /\ at[p] \in Local(sets)
      /\ mu = p <=> at[p].tx = None
  BY <1>1, EvictsWhere DEF Evicting
<1>3. lp \in Loop(sets)
  BY <1>2 DEF Loop, Typed
<1>4. l = [at[p] EXCEPT !.pc = "range"] /\ "range" \in Evicting
  BY DEF Evicting, Ranging
<1> HIDE DEF l, lp
<1>5. /\ l \in Local(sets) /\ l.pc = "range" /\ l.key = at[p].key /\ l.item = at[p].item
      /\ l.tx = at[p].tx /\ l.todo = at[p].todo
  BY <1>2, <1>4, PcGoesOn
<1>6. Fits(l, lp, buffers, sets) /\ (Holding(l) <=> at[p].tx = None)
  BY <1>1, <1>2, <1>3, <1>5, EvictsOn DEF Evicting, Ranging
<1>7. l.pc \notin Uncounted /\ at[p].pc \notin Uncounted
  BY <1>1, <1>5 DEF Uncounted
<1>8. Loops(p, lp)
  BY <1>1, <1>2, LoopChanges
<1>9. QED
  BY <1>1, <1>2, <1>5, <1>6, <1>7, <1>8, QuietStepInv

LEMMA MeetInv ==
    ASSUME MemoryInv, NEW p \in Procs, NEW key \in Keys, Meet(p, key)
    PROVE  MemoryInv'
<1> DEFINE item == Ranged(p)[key]
           left == loop[p].scan \ {key}
           scan == IF loop[p].map = None THEN loop[p].scan ELSE left
<1>1. /\ at[p].pc = "range"
      /\ UNCHANGED <<items, currentSize, mu, transaction, buffers, sets, late, leaked, raced>>
  BY DEF Meet
<1>2. /\ Typed /\ sets \in Nat /\ sets <= sets /\ transaction \in Transactions \cup {None}
      /\ items \in Map(sets)
      /\ Fits(at[p], loop[p], buffers, sets) /\ at[p] \in Local(sets) /\ loop[p] \in Loop(sets)
      /\ mu = p <=> at[p].tx = None
  BY <1>1, EvictsWhere DEF Evicting, Ranging
<1>3. item \in Item(sets) \cup {None} /\ left \in SUBSET Keys /\ scan \in SUBSET Keys
  BY <1>2 DEF Ranged, Loop, Map
<1>4. loop = [q \in Procs |-> loop[q]]
  BY <1>2 DEF Typed
<1>5. CASE Evictable(p, item)
  <2> DEFINE l == [at[p] EXCEPT !.pc = "delete"]
             lp == [loop[p] EXCEPT !.key = key, !.size = item.size, !.scan = scan]
  <2>1. /\ Goes(p, l)
        /\ loop' = [loop EXCEPT ![p].key = key, ![p].size = item.size, ![p].scan = scan]
    BY <1>5 DEF Meet
  <2>2. item.size \in Nat
    BY <1>3, <1>5 DEF Evictable, Item
  <2> HIDE DEF item, scan, left
  <2>3. loop' = [loop EXCEPT ![p] = lp]
    BY <1>4, <2>1
  <2>4. lp \in Loop(sets) /\ lp.key = key
    <3>1. /\ lp = [x \in {"map", "scan", "now", "key", "size"} |-> lp[x]]
          /\ lp.map = loop[p].map /\ lp.scan = scan /\ lp.now = loop[p].now /\ lp.key = key
          /\ lp.size = item.size
      BY <1>2 DEF Loop
    <3>2. loop[p].map \in Map(sets) \cup {None} /\ loop[p].now \in SUBSET Nat
      BY <1>2 DEF Loop
    <3> HIDE DEF lp
    <3>3. QED
      BY <1>3, <2>2, <3>1, <3>2, LoopIs
  <2>5. l = [at[p] EXCEPT !.pc = "delete"] /\ "delete" \in Evicting
    BY DEF Evicting, Ranging
  <2> HIDE DEF l, lp
  <2>6. /\ l \in Local(sets) /\ l.pc = "delete" /\ l.key = at[p].key /\ l.item = at[p].item
        /\ l.tx = at[p].tx /\ l.todo = at[p].todo
    BY <1>2, <2>5, PcGoesOn
  <2>7. Fits(l, lp, buffers, sets) /\ (Holding(l) <=> at[p].tx = None)
    BY <1>1, <1>2, <2>4, <2>6, EvictsOn DEF Evicting, Ranging
  <2>8. l.pc \notin Uncounted /\ at[p].pc \notin Uncounted
    BY <1>1, <2>6 DEF Uncounted
  <2>9. Loops(p, lp)
    BY <1>2, <2>3, LoopChanges
  <2>10. QED
    BY <1>1, <1>2, <2>1, <2>6, <2>7, <2>8, <2>9, QuietStepInv
<1>6. CASE ~ Evictable(p, item)
  <2> DEFINE lp == [loop[p] EXCEPT !.scan = left]
  <2>1. loop' = [loop EXCEPT ![p].scan = left] /\ UNCHANGED at
    BY <1>6 DEF Meet
  <2> HIDE DEF item, scan, left
  <2>2. loop' = [loop EXCEPT ![p] = lp]
    BY <1>4, <2>1
  <2>3. lp \in Loop(sets)
    BY <1>2, <1>3 DEF Loop
  <2> HIDE DEF lp
  <2>4. Goes(p, at[p])
    BY <1>2, <2>1 DEF Goes, Typed
  <2>5. Fits(at[p], lp, buffers, sets) /\ (Holding(at[p]) <=> at[p].tx = None)
    BY <1>1, <1>2, <2>3, EvictsOn DEF Evicting, Ranging
  <2>6. at[p].pc \notin Uncounted
    BY <1>1 DEF Uncounted
  <2>7. Loops(p, lp)
    BY <1>2, <2>2, LoopChanges
  <2>8. QED
    BY <1>1, <1>2, <2>4, <2>5, <2>6, <2>7, QuietStepInv
<1>7. QED
  BY <1>5, <1>6

LEMMA SizeReadInv ==
    ASSUME MemoryInv, NEW p \in Procs, SizeRead(p)
    PROVE  MemoryInv'
<1> DEFINE l == [at[p] EXCEPT !.pc = "reduced", !.size = currentSize]
<1>1. /\ at[p].pc = "reduce" /\ Goes(p, l)
      /\ UNCHANGED <<items, currentSize, mu, transaction, buffers, loop, sets, late, leaked, raced>>
  BY DEF SizeRead
<1>2. /\ Typed /\ sets \in Nat /\ sets <= sets /\ transaction \in Transactions \cup {None}
      /\ items \in Map(sets) /\ currentSize \in Int /\ leaked \in Int /\ raced \in BOOLEAN
      /\ Fits(at[p], loop[p], buffers, sets) /\ at[p] \in Local(sets) /\ loop[p] \in Loop(sets)
      /\ mu = p <=> at[p].tx = None
  BY <1>1, EvictsWhere DEF Evicting, Ranging
<1>3. /\ l \in Local(sets) /\ l.pc = "reduced" /\ l.key = at[p].key /\ l.item = at[p].item
      /\ l.tx = at[p].tx /\ l.todo = at[p].todo
  <2>1. /\ l = [x \in {"pc", "key", "item", "tx", "todo", "size"} |-> l[x]]
        /\ l.pc = "reduced" /\ l.key = at[p].key /\ l.item = at[p].item
        /\ l.tx = at[p].tx /\ l.todo = at[p].todo /\ l.size = currentSize
    BY <1>2 DEF Local
  <2> HIDE DEF l
  <2>2. QED
    BY <1>2, <2>1, GoesOn DEF Evicting, Ranging
<1> HIDE DEF l
<1>4. /\ Fits(l, loop[p], buffers, sets) /\ (Holding(l) <=> at[p].tx = None)
      /\ l.pc \notin {"store", "add"}
  BY <1>1, <1>2, <1>3, EvictsOn DEF Evicting, Ranging
<1>5. Owes(l, loop[p]) = loop[p].size /\ Owes(at[p], loop[p]) = loop[p].size
  BY <1>1, <1>3 DEF Owes
<1>6. loop[p].size \in Nat /\ Total(items) \in Nat /\ Total(items') = Total(items)
  BY <1>1, <1>2, TotalNat DEF Loop
<1>7. currentSize' - currentSize =
         (Total(items') - Total(items)) + (Owes(l, loop[p]) - Owes(at[p], loop[p]))
                                        + (leaked' - leaked)
  BY <1>1, <1>2, <1>5, <1>6
<1>8. Roomy(p, l)
  BY <1>1, <1>2, <1>4 DEF Roomy, MemoryInv, HasRoom
<1>9. Loops(p, loop[p])
  BY <1>1, <1>2, LoopStays
<1>10. QED
  BY <1>1, <1>2, <1>4, <1>7, <1>8, <1>9, StepInv

LEMMA SizeWrittenInv ==
    ASSUME MemoryInv, NEW p \in Procs, SizeWritten(p)
    PROVE  MemoryInv'
<1> DEFINE l == [at[p] EXCEPT !.pc = "range", !.size = 0]
           lp == [loop[p] EXCEPT !.size = 0]
           stale == currentSize # at[p].size
<1>1. /\ at[p].pc = "reduced" /\ Goes(p, l) /\ loop' = [loop EXCEPT ![p].size = 0]
      /\ currentSize' = at[p].size - loop[p].size /\ Races(stale)
      /\ UNCHANGED <<items, mu, transaction, buffers, sets, late>>
  BY DEF SizeWritten
<1>2. /\ Typed /\ sets \in Nat /\ sets <= sets /\ transaction \in Transactions \cup {None}
      /\ items \in Map(sets) /\ currentSize \in Int /\ leaked \in Int /\ raced \in BOOLEAN
      /\ Fits(at[p], loop[p], buffers, sets) /\ at[p] \in Local(sets) /\ loop[p] \in Loop(sets)
      /\ mu = p <=> at[p].tx = None
  BY <1>1, EvictsWhere DEF Evicting, Ranging
<1>3. /\ raced' \in BOOLEAN /\ (raced => raced') /\ leaked' \in Int
      /\ ~ raced' => ~ raced /\ currentSize = at[p].size /\ leaked' = leaked
  <2>1. stale \in BOOLEAN /\ (stale <=> currentSize # at[p].size)
    OBVIOUS
  <2> HIDE DEF stale
  <2>2. QED
    BY <1>1, <1>2, <2>1, RacesMarks
<1>4. /\ l \in Local(sets) /\ l.pc = "range" /\ l.key = at[p].key /\ l.item = at[p].item
      /\ l.tx = at[p].tx /\ l.todo = at[p].todo
  <2>1. /\ l = [x \in {"pc", "key", "item", "tx", "todo", "size"} |-> l[x]]
        /\ l.pc = "range" /\ l.key = at[p].key /\ l.item = at[p].item
        /\ l.tx = at[p].tx /\ l.todo = at[p].todo /\ l.size = 0
    BY <1>2 DEF Local
  <2> HIDE DEF l
  <2>2. QED
    BY <1>2, <2>1, GoesOn DEF Evicting, Ranging
<1>5. loop' = [loop EXCEPT ![p] = lp] /\ lp \in Loop(sets)
  BY <1>1, <1>2 DEF Typed, Loop
<1>6. loop[p].size \in Nat /\ at[p].size \in Int
  BY <1>2 DEF Loop, Local
<1> HIDE DEF l, lp, stale
<1>7. /\ Fits(l, lp, buffers, sets) /\ (Holding(l) <=> at[p].tx = None)
      /\ l.pc \notin {"store", "add"}
  BY <1>1, <1>2, <1>4, <1>5, EvictsOn DEF Evicting, Ranging
<1>8. Owes(l, lp) = 0 /\ Owes(at[p], loop[p]) = loop[p].size
  BY <1>1, <1>4 DEF Owes
<1>9. Total(items) \in Nat /\ Total(items') = Total(items)
  BY <1>1, <1>2, TotalNat
<1>10. ~ raced' => currentSize' - currentSize =
         (Total(items') - Total(items)) + (Owes(l, lp) - Owes(at[p], loop[p]))
                                        + (leaked' - leaked)
  BY <1>1, <1>2, <1>3, <1>6, <1>8, <1>9
<1>11. Roomy(p, l)
  BY <1>1, <1>2, <1>3, <1>6, <1>7, MemoryAssumption DEF Roomy, MemoryInv, HasRoom
<1>12. Loops(p, lp)
  BY <1>2, <1>5, LoopChanges
<1>13. currentSize' \in Int
  BY <1>1, <1>6
<1>14. QED
  BY <1>1, <1>2, <1>3, <1>7, <1>10, <1>11, <1>12, <1>13, StepInv

\* The key is deleted, and what was met under it is still to be taken off.
LEMMA EvictDeleteInv ==
    ASSUME MemoryInv, NEW p \in Procs, EvictDelete(p)
    PROVE  MemoryInv'
<1> DEFINE key == loop[p].key
           l == [at[p] EXCEPT !.pc = "reduce"]
           lp == [loop[p] EXCEPT !.key = None]
           other == SizeOf(items[key]) # loop[p].size
<1>1. /\ at[p].pc = "delete" /\ Goes(p, l) /\ loop' = [loop EXCEPT ![p].key = None]
      /\ items' = [items EXCEPT ![key] = None] /\ Races(other)
      /\ UNCHANGED <<currentSize, mu, transaction, buffers, sets, late>>
  BY DEF EvictDelete
<1>2. /\ Typed /\ sets \in Nat /\ sets <= sets /\ transaction \in Transactions \cup {None}
      /\ items \in Map(sets) /\ currentSize \in Int /\ leaked \in Int /\ raced \in BOOLEAN
      /\ Fits(at[p], loop[p], buffers, sets) /\ at[p] \in Local(sets) /\ loop[p] \in Loop(sets)
      /\ mu = p <=> at[p].tx = None
  BY <1>1, EvictsWhere DEF Evicting, Ranging
<1>3. key \in Keys /\ loop[p].size \in Nat /\ SizeOf(items[key]) \in Nat
  <2>1. key \in Keys /\ loop[p].size \in Nat
    BY <1>1, <1>2 DEF Fits, Loop
  <2>2. QED
    BY <1>2, <2>1, SizeIsNat DEF Map
<1>4. /\ raced' \in BOOLEAN /\ (raced => raced') /\ leaked' \in Int
      /\ ~ raced' => ~ raced /\ SizeOf(items[key]) = loop[p].size /\ leaked' = leaked
  <2>1. other \in BOOLEAN /\ (other <=> SizeOf(items[key]) # loop[p].size)
    OBVIOUS
  <2> HIDE DEF other
  <2>2. QED
    BY <1>1, <1>2, <2>1, RacesMarks
<1>5. /\ l \in Local(sets) /\ l.pc = "reduce" /\ l.key = at[p].key /\ l.item = at[p].item
      /\ l.tx = at[p].tx /\ l.todo = at[p].todo
  <2>1. l = [at[p] EXCEPT !.pc = "reduce"] /\ "reduce" \in Evicting
    BY DEF Evicting, Ranging
  <2> HIDE DEF l
  <2>2. QED
    BY <1>2, <2>1, PcGoesOn
<1>6. loop' = [loop EXCEPT ![p] = lp] /\ lp \in Loop(sets) /\ lp.size = loop[p].size
  BY <1>1, <1>2 DEF Typed, Loop
<1>7. items' \in Map(sets) /\ Total(items') = Total(items) - SizeOf(items[key]) + SizeOf(None)
  <2>1. None \in Item(sets) \cup {None}
    OBVIOUS
  <2> HIDE DEF key
  <2>2. items' \in Map(sets)
    BY <1>1, <1>2, <1>3 DEF Map
  <2>3. Total([items EXCEPT ![key] = None]) = Total(items) - SizeOf(items[key]) + SizeOf(None)
    BY <1>2, <1>3, <2>1, TotalPut
  <2>4. QED
    BY <1>1, <2>2, <2>3
<1> HIDE DEF l, lp, other, key
<1>8. /\ Fits(l, lp, buffers, sets) /\ (Holding(l) <=> at[p].tx = None)
      /\ l.pc \notin {"store", "add"}
  BY <1>1, <1>2, <1>5, <1>6, EvictsOn DEF Evicting, Ranging
<1>9. Owes(l, lp) = loop[p].size /\ Owes(at[p], loop[p]) = 0 /\ SizeOf(None) = 0
  BY <1>1, <1>5, <1>6 DEF Owes, SizeOf
<1>10. Total(items) \in Nat
  BY <1>2, TotalNat
<1>11. ~ raced' => currentSize' - currentSize =
         (Total(items') - Total(items)) + (Owes(l, lp) - Owes(at[p], loop[p]))
                                        + (leaked' - leaked)
  BY <1>1, <1>2, <1>3, <1>4, <1>7, <1>9, <1>10
<1>12. Roomy(p, l)
  BY <1>1, <1>2, <1>4, <1>8 DEF Roomy, MemoryInv, HasRoom
<1>13. Loops(p, lp)
  BY <1>2, <1>6, LoopChanges
<1>14. QED
  BY <1>1, <1>2, <1>4, <1>7, <1>8, <1>11, <1>12, <1>13, StepInv

LEMMA CheckAgainInv ==
    ASSUME MemoryInv, NEW p \in Procs, CheckAgain(p) \/ Relock(p)
    PROVE  MemoryInv'
<1> DEFINE l == [at[p] EXCEPT !.pc = "store"]
<1>1. /\ at[p].pc = "range" /\ loop' = [loop EXCEPT ![p] = None]
      /\ at[p].tx # None => mu = None
      /\ UNCHANGED <<items, currentSize, buffers, sets, late, leaked, raced>>
      /\ IF Room(at[p].item) THEN Goes(p, l) /\ mu' = p ELSE Goes(p, Idle) /\ mu' = None
      /\ transaction' \in Transactions \cup {None}
  <2>1. CASE CheckAgain(p)
    <3>1. mu = p
      BY <2>1, EvictsWhere DEF CheckAgain, Evicted, Evicting, Ranging
    <3>2. QED
      BY <2>1, <3>1 DEF CheckAgain, Evicted, MemoryInv, Typed
  <2>2. CASE Relock(p)
    BY <2>2 DEF Relock, Evicted, MemoryInv, Typed
  <2>3. QED
    BY <2>1, <2>2
<1>2. /\ Typed /\ sets \in Nat /\ sets <= sets
      /\ Fits(at[p], loop[p], buffers, sets) /\ at[p] \in Local(sets)
      /\ mu = p <=> at[p].tx = None
      /\ mu \in Procs \cup {None}
  BY <1>1, EvictsWhere DEF Evicting, Ranging
<1>3. mu \in {None, p} /\ at[p].pc \notin Uncounted
  BY <1>1, <1>2 DEF Uncounted
<1>4. Loops(p, None)
  BY <1>1, <1>2, LoopChanges
<1>5. CASE Room(at[p].item)
  <2>1. /\ l \in Local(sets) /\ l.pc = "store" /\ l.key = at[p].key /\ l.item = at[p].item
        /\ l.tx = at[p].tx /\ l.todo = at[p].todo
    <3>1. l = [at[p] EXCEPT !.pc = "store"]
      OBVIOUS
    <3> HIDE DEF l
    <3>2. QED
      BY <1>2, <3>1, PcGoesOn
  <2>2. Goes(p, l) /\ mu' = p
    BY <1>1, <1>5
  <2> HIDE DEF l
  <2>3. Fits(l, None, buffers, sets)
    BY <1>1, <1>2, <2>1 DEF Fits, Storing, Evicting, Ranging
  <2>4. Holding(l) /\ l.pc \notin Uncounted
    BY <2>1 DEF Holding, Uncounted
  <2>5. QED
    BY <1>1, <1>2, <1>3, <1>4, <1>5, <2>1, <2>2, <2>3, <2>4, QuietStepInv
<1>6. CASE ~ Room(at[p].item)
  <2>1. Goes(p, Idle) /\ mu' = None
    BY <1>1, <1>6
  <2>2. Idle.pc \notin Uncounted /\ Idle.pc # "store"
    BY DEF Uncounted, Idle
  <2>3. mu' = IF mu = p THEN None ELSE mu
    BY <1>3, <2>1
  <2>4. QED
    BY <1>1, <1>2, <1>3, <1>4, <2>1, <2>2, <2>3, IdleFits, QuietStepInv
<1>7. QED
  BY <1>5, <1>6

-----------------------------------------------------------------------------
(* Steps that store and add an item.                                       *)

LEMMA StoreInv ==
    ASSUME MemoryInv, NEW p \in Procs, Store(p)
    PROVE  MemoryInv'
<1> DEFINE key == at[p].key
           item == at[p].item
           l == [at[p] EXCEPT !.pc = "add", !.size = currentSize]
<1>1. /\ at[p].pc = "store" /\ Goes(p, l)
      /\ items' = [items EXCEPT ![key] = item] /\ Leaks(SizeOf(items[key]))
      /\ UNCHANGED <<currentSize, mu, transaction, buffers, loop, sets, late, raced>>
  BY DEF Store
<1>2. /\ Typed /\ sets \in Nat /\ sets <= sets /\ transaction \in Transactions \cup {None}
      /\ items \in Map(sets) /\ currentSize \in Int /\ leaked \in Int /\ raced \in BOOLEAN
      /\ Fits(at[p], loop[p], buffers, sets) /\ at[p] \in Local(sets)
      /\ mu = p
  BY <1>1 DEF MemoryInv, Typed, Fits, Locked, Holding
<1>3. key \in Keys /\ item \in Item(sets)
  BY <1>1, <1>2 DEF Fits, Storing
<1>4. SizeOf(item) = item.size /\ item.size \in Nat /\ SizeOf(items[key]) \in Nat
  BY <1>2, <1>3, ItemIsNotNone, SizeIsNat DEF Map
<1>5. /\ l = [x \in {"pc", "key", "item", "tx", "todo", "size"} |-> l[x]]
      /\ l.pc = "add" /\ l.key = key /\ l.item = item /\ l.tx = at[p].tx
      /\ l.todo = at[p].todo /\ l.size = currentSize
  BY <1>2 DEF Local
<1> HIDE DEF l, key, item
<1>6. items' \in Map(sets) /\ Total(items') = Total(items) - SizeOf(items[key]) + SizeOf(item)
  BY <1>1, <1>2, <1>3, TotalPut DEF Map
<1>7. l \in Local(sets)
  BY <1>2, <1>5, GoesOn DEF key, item
<1>8. Fits(l, loop[p], buffers, sets)
  BY <1>2, <1>3, <1>5, <1>7 DEF Fits, Storing, Evicting, Ranging
<1>9. Holding(l)
  BY <1>5 DEF Holding
<1>10. Owes(l, loop[p]) = - item.size /\ Owes(at[p], loop[p]) = 0
  BY <1>1, <1>5 DEF Owes
<1>11. Total(items) \in Nat
  BY <1>2, TotalNat
<1>12. leaked' = IF raced THEN 0 ELSE leaked + SizeOf(items[key])
  BY <1>1 DEF Leaks
<1>13. ~ raced' => currentSize' - currentSize =
         (Total(items') - Total(items)) + (Owes(l, loop[p]) - Owes(at[p], loop[p]))
                                        + (leaked' - leaked)
  BY <1>1, <1>2, <1>4, <1>6, <1>10, <1>11, <1>12
<1>14. Roomy(p, l)
  BY <1>1, <1>2, <1>5 DEF Roomy, MemoryInv, HasRoom, Room, item
<1>15. Loops(p, loop[p])
  BY <1>1, <1>2, LoopStays
<1>16. leaked' \in Int /\ (raced => raced')
  BY <1>1, <1>2, <1>4, <1>12
<1>17. QED
  BY <1>1, <1>2, <1>6, <1>8, <1>9, <1>13, <1>14, <1>15, <1>16, StepInv

LEMMA AddInv ==
    ASSUME MemoryInv, NEW p \in Procs, Add(p)
    PROVE  MemoryInv'
<1> DEFINE item == at[p].item
           left == at[p].todo \ {at[p].key}
           goes == [Idle EXCEPT !.pc = "commit", !.tx = at[p].tx, !.todo = left]
           l == IF at[p].tx = None THEN Idle ELSE goes
           stale == currentSize # at[p].size
<1>1. /\ at[p].pc = "add" /\ currentSize' = at[p].size + item.size /\ Races(stale)
      /\ Goes(p, l) /\ mu' = IF at[p].tx = None THEN None ELSE mu
      /\ UNCHANGED <<items, transaction, buffers, loop, sets, late>>
  BY DEF Add
<1>2. /\ Typed /\ sets \in Nat /\ sets <= sets /\ transaction \in Transactions \cup {None}
      /\ items \in Map(sets) /\ currentSize \in Int /\ leaked \in Int /\ raced \in BOOLEAN
      /\ Fits(at[p], loop[p], buffers, sets) /\ at[p] \in Local(sets)
      /\ mu = p
  BY <1>1 DEF MemoryInv, Typed, Fits, Locked, Holding
<1>3. at[p].size \in Int /\ item.size \in Nat /\ left \in SUBSET Keys
  BY <1>1, <1>2 DEF Fits, Storing, Local, Item
<1>4. /\ raced' \in BOOLEAN /\ (raced => raced') /\ leaked' \in Int
      /\ ~ raced' => ~ raced /\ currentSize = at[p].size /\ leaked' = leaked
  <2>1. stale \in BOOLEAN /\ (stale <=> currentSize # at[p].size)
    OBVIOUS
  <2> HIDE DEF stale
  <2>2. QED
    BY <1>1, <1>2, <2>1, RacesMarks
<1>5. /\ Fits(l, loop[p], buffers, sets) /\ l.pc \notin Uncounted /\ l.pc # "store"
      /\ Holding(l) <=> at[p].tx # None
  <2>1. CASE at[p].tx = None
    <3>1. l = Idle
      BY <2>1
    <3>2. QED
      BY <2>1, <3>1, IdleFits DEF Uncounted
  <2>2. CASE at[p].tx # None
    <3>1. /\ goes = [x \in {"pc", "key", "item", "tx", "todo", "size"} |-> goes[x]]
          /\ goes.pc = "commit" /\ goes.key = None /\ goes.item = None /\ goes.tx = at[p].tx
          /\ goes.todo = left /\ goes.size = 0
      BY DEF Idle
    <3>2. at[p].tx \in Transactions /\ \A k \in left : buffers[at[p].tx][k] # None
      BY <1>2, <2>2 DEF Fits, Local
    <3>3. l = goes
      BY <2>2
    <3> HIDE DEF goes, left, l
    <3>4. goes \in Local(sets)
      BY <1>3, <3>1, <3>2, LocalIs DEF Local
    <3>5. Fits(goes, loop[p], buffers, sets)
      BY <3>1, <3>2, <3>4 DEF Fits, Storing, Evicting, Ranging
    <3>6. QED
      BY <2>2, <3>1, <3>3, <3>5 DEF Holding, Uncounted
  <2>3. QED
    BY <2>1, <2>2
<1> HIDE DEF l, stale
<1>6. Owes(l, loop[p]) = 0 /\ Owes(at[p], loop[p]) = - item.size
  BY <1>1, <1>5 DEF Owes, Uncounted
<1>7. Total(items) \in Nat /\ Total(items') = Total(items)
  BY <1>1, <1>2, TotalNat
<1>8. ~ raced => currentSize + item.size <= maxSize
  BY <1>1 DEF MemoryInv, HasRoom, Room
<1> HIDE DEF item
<1>9. ~ raced' => currentSize' - currentSize =
         (Total(items') - Total(items)) + (Owes(l, loop[p]) - Owes(at[p], loop[p]))
                                        + (leaked' - leaked)
  BY <1>1, <1>2, <1>3, <1>4, <1>6, <1>7
<1>10. Roomy(p, l)
  BY <1>1, <1>2, <1>3, <1>4, <1>5, <1>8 DEF Roomy, Uncounted
<1>11. Loops(p, loop[p])
  BY <1>1, <1>2, LoopStays
<1>12. currentSize' \in Int /\ items' \in Map(sets')
  BY <1>1, <1>2, <1>3
<1>13. mu' = IF Holding(l) THEN p ELSE IF mu = p THEN None ELSE mu
  BY <1>1, <1>2, <1>5
<1>14. QED
  BY <1>1, <1>2, <1>4, <1>5, <1>9, <1>10, <1>11, <1>12, <1>13, StepInv

LEMMA UpgradeInv ==
    ASSUME MemoryInv, NEW p \in Procs, Upgrade(p)
    PROVE  MemoryInv'
<1> DEFINE found == at[p].item
           key == at[p].key
           new == [found EXCEPT !.accessed = TRUE]
           l == [Idle EXCEPT !.pc = "return", !.tx = at[p].tx]
<1>1. /\ at[p].pc = "upgrade" /\ mu = None /\ Goes(p, l)
      /\ UNCHANGED <<currentSize, mu, transaction, buffers, loop, sets, late, raced>>
  BY DEF Upgrade
<1>2. /\ Typed /\ sets \in Nat /\ sets <= sets /\ transaction \in Transactions \cup {None}
      /\ items \in Map(sets) /\ currentSize \in Int /\ leaked \in Int /\ raced \in BOOLEAN
      /\ Fits(at[p], loop[p], buffers, sets) /\ at[p] \in Local(sets)
  BY DEF MemoryInv, Typed, Fits
<1>3. found \in Item(sets) \cup {None} /\ (found # None => key \in Keys)
      /\ at[p].tx \in Transactions \cup {None}
  BY <1>1, <1>2 DEF Fits, Local
<1>4. /\ items' \in Map(sets) /\ leaked' \in Int
      /\ ~ raced => 0 = (Total(items') - Total(items)) + (leaked' - leaked)
      /\ Total(items) \in Nat /\ Total(items') \in Nat
  <2>1. CASE found = None
    <3>1. items' = items /\ leaked' = leaked
      BY <2>1 DEF Upgrade
    <3>2. Total(items) \in Nat
      BY <1>2, TotalNat
    <3>3. QED
      BY <1>2, <3>1, <3>2
  <2>2. CASE found # None
    <3>1. /\ items' = [items EXCEPT ![key] = new]
          /\ leaked' = IF raced THEN 0 ELSE leaked + (SizeOf(items[key]) - found.size)
      BY <2>2 DEF Upgrade, Leaks
    <3>2. new \in Item(sets) /\ new.size = found.size
      BY <1>3, <2>2 DEF Item
    <3>3. found.size \in Nat /\ SizeOf(items[key]) \in Nat /\ SizeOf(new) = found.size
      BY <1>2, <1>3, <2>2, <3>2, ItemIsNotNone, SizeIsNat DEF Map
    <3> HIDE DEF new, found, key, l
    <3>4. items' \in Map(sets)
      BY <1>2, <1>3, <2>2, <3>1, <3>2 DEF Map
    <3>5. Total(items') = Total(items) - SizeOf(items[key]) + SizeOf(new)
      BY <1>2, <1>3, <2>2, <3>1, <3>2, TotalPut
    <3>6. Total(items) \in Nat /\ Total(items') \in Nat
      BY <1>2, <3>4, TotalNat
    <3>7. QED
      BY <1>2, <3>1, <3>3, <3>4, <3>5, <3>6
  <2>3. QED
    BY <2>1, <2>2
<1>5. /\ l = [x \in {"pc", "key", "item", "tx", "todo", "size"} |-> l[x]]
      /\ l.pc = "return" /\ l.key = None /\ l.item = None /\ l.tx = at[p].tx /\ l.todo = {}
      /\ l.size = 0
  BY DEF Idle
<1> HIDE DEF l
<1>6. Fits(l, loop[p], buffers, sets)
  <2>1. l \in Local(sets)
    BY <1>3, <1>5, LocalIs DEF Local
  <2>2. QED
    BY <1>5, <2>1 DEF Fits, Storing, Evicting, Ranging
<1>7. ~ Holding(l) /\ l.pc \notin {"store", "add"} /\ mu # p
  BY <1>1, <1>5, MemoryAssumption DEF Holding, Evicting, Ranging
<1>8. Owes(l, loop[p]) = 0 /\ Owes(at[p], loop[p]) = 0
  BY <1>1, <1>5 DEF Owes
<1>9. ~ raced' => currentSize' - currentSize =
         (Total(items') - Total(items)) + (Owes(l, loop[p]) - Owes(at[p], loop[p]))
                                        + (leaked' - leaked)
  BY <1>1, <1>2, <1>4, <1>8
<1>10. Roomy(p, l)
  BY <1>1, <1>2, <1>7 DEF Roomy, MemoryInv, HasRoom
<1>11. Loops(p, loop[p])
  BY <1>1, <1>2, LoopStays
<1>12. raced => raced'
  BY <1>1
<1>13. QED
  BY <1>1, <1>2, <1>4, <1>6, <1>7, <1>9, <1>10, <1>11, <1>12, StepInv

-----------------------------------------------------------------------------
(* Steps that leave the goroutines where they are.                         *)

LEMMA RemovesInv ==
    ASSUME MemoryInv, NEW removed \in SUBSET Keys, Removes(removed),
           UNCHANGED <<mu, transaction, buffers, at, sets, late, raced>>,
           loop' = [q \in Procs |-> loop'[q]],
           \A q \in Procs : /\ Fits(at[q], loop'[q], buffers, sets)
                            /\ Owes(at[q], loop'[q]) = Owes(at[q], loop[q])
    PROVE  MemoryInv'
<1> DEFINE gone == SumFunction([k \in removed |-> SizeOf(items[k])])
<1>1. /\ Typed /\ sets \in Nat /\ items \in Map(sets) /\ currentSize \in Int /\ leaked \in Int
  BY DEF MemoryInv, Typed
<1>2. /\ items' = [k \in Keys |-> IF k \in removed THEN None ELSE items[k]]
      /\ leaked' = IF raced THEN 0 ELSE leaked + gone
      /\ currentSize' = currentSize
  BY DEF Removes, Leaks
<1>3. gone \in Nat /\ Total(items) \in Nat /\ Total(items') = Total(items) - gone
  BY <1>1, <1>2, TotalRemoved
<1> HIDE DEF gone
<1>4. items' \in Map(sets)
  BY <1>1, <1>2 DEF Map
<1>5. currentSize' \in Int /\ leaked' \in Int
  BY <1>1, <1>2, <1>3
<1>6. Typed'
  BY <1>1, <1>4, <1>5 DEF Typed
<1>7. Locked' /\ HasRoom'
  BY <1>2 DEF MemoryInv, Locked, HasRoom, Room
<1>8. Owed(at', loop') = Owed(at, loop) /\ Owed(at, loop) \in Int
  <2>1. [q \in Procs |-> Owes(at'[q], loop'[q])] = [q \in Procs |-> Owes(at[q], loop[q])]
    OBVIOUS
  <2>2. QED
    BY <1>1, <2>1, OwedInt DEF Owed
<1>9. ~ raced' => currentSize' - currentSize =
         (Total(items') - Total(items)) + (Owed(at', loop') - Owed(at, loop)) + (leaked' - leaked)
  BY <1>1, <1>2, <1>3, <1>8
<1>10. BooksBalance'
  BY <1>6, <1>9, StillBalances
<1>11. QED
  BY <1>6, <1>7, <1>10 DEF MemoryInv

\* An iteration that has gone on over the old map is one over what the items were.
LEMMA ClearAllInv ==
    ASSUME MemoryInv, NEW p \in Procs, ClearAll(p)
    PROVE  MemoryInv'
<1>1. Removes(Keys) /\ UNCHANGED <<mu, transaction, buffers, at, sets, late, raced>>
  BY Zenon DEF ClearAll
<1>2. /\ sets \in Nat /\ items \in Map(sets)
      /\ \A q \in Procs : Fits(at[q], loop[q], buffers, sets)
  BY DEF MemoryInv, Typed
<1>3. loop' = [q \in Procs |-> IF at[q].pc \in Ranging /\ loop[q].map = None
                               THEN [loop[q] EXCEPT !.map = items] ELSE loop[q]]
  BY DEF ClearAll
<1>4. loop' = [q \in Procs |-> loop'[q]]
  BY <1>3
<1>5. ASSUME NEW q \in Procs
      PROVE  /\ Fits(at[q], loop'[q], buffers, sets)
             /\ Owes(at[q], loop'[q]) = Owes(at[q], loop[q])
  <2>1. CASE at[q].pc \in Ranging /\ loop[q].map = None
    <3>1. loop'[q] = [loop[q] EXCEPT !.map = items] /\ loop[q] \in Loop(sets)
      BY <1>2, <1>3, <2>1 DEF Fits
    <3>2. /\ loop'[q] \in Loop(sets)
          /\ loop'[q].key = loop[q].key /\ loop'[q].size = loop[q].size
      BY <1>2, <3>1 DEF Loop
    <3>3. Fits(at[q], loop[q], buffers, sets)
      BY <1>2
    <3>4. QED
      BY <3>2, <3>3 DEF Fits, Owes
  <2>2. CASE ~ (at[q].pc \in Ranging /\ loop[q].map = None)
    <3>1. loop'[q] = loop[q]
      BY <1>3, <2>2
    <3>2. QED
      BY <1>2, <3>1
  <2>3. QED
    BY <2>1, <2>2
<1>6. QED
  BY <1>1, <1>4, <1>5, RemovesInv

\* Delete and the ticker leave the iterations alone.
LEMMA RemovalInv ==
    ASSUME MemoryInv, NEW removed \in SUBSET Keys, Removes(removed),
           UNCHANGED <<mu, transaction, buffers, at, loop, sets, late, raced>>
    PROVE  MemoryInv'
<1>1. loop' = [q \in Procs |-> loop'[q]] /\ \A q \in Procs : Fits(at[q], loop[q], buffers, sets)
  BY DEF MemoryInv, Typed
<1>2. QED
  BY <1>1, RemovesInv

\* An expiry, and the beginning and the end of a transaction.
LEMMA OthersInv ==
    ASSUME MemoryInv,
           UNCHANGED <<items, currentSize, mu, buffers, at, loop, sets, leaked, raced>>,
           transaction' \in Transactions \cup {None}, late' \in SUBSET Nat
    PROVE  MemoryInv'
<1>1. Typed'
  BY DEF MemoryInv, Typed
<1>2. Locked' /\ HasRoom'
  BY DEF MemoryInv, Locked, HasRoom, Room
<1>3. BooksBalance'
  BY DEF MemoryInv, BooksBalance, StoredSize
<1>4. QED
  BY <1>1, <1>2, <1>3 DEF MemoryInv

\* The item goes into the transaction, and the commits that meet its key have one more to do.
LEMMA BufferInv ==
    ASSUME MemoryInv, NEW p \in Procs, Buffer(p)
    PROVE  MemoryInv'
<1> DEFINE t == at[p].tx
           key == at[p].key
           item == at[p].item
           overtaken == {q \in Procs : at[q].pc \in Evicting /\ at[q].tx = t}
<1>1. /\ Typed /\ Locked /\ sets \in Nat /\ sets' = sets /\ items \in Map(sets)
      /\ at[p].pc = "buffer" /\ mu' = None
      /\ buffers' = [buffers EXCEPT ![t][key] = item]
      /\ UNCHANGED <<items, currentSize, transaction, loop, late, leaked, raced>>
  BY DEF MemoryInv, Typed, Buffer
<1>2. /\ \A q \in Procs : Fits(at[q], loop[q], buffers, sets)
      /\ buffers \in [Transactions -> Map(sets)]
  BY <1>1 DEF Typed
<1>3. item \in Item(sets) /\ key \in Keys /\ t \in Transactions /\ item # None
  BY <1>1, <1>2, ItemIsNotNone DEF Fits
<1>4. PICK met \in SUBSET overtaken :
          at' = [q \in Procs |-> IF q = p THEN Idle
                                 ELSE IF q \in met THEN [at[q] EXCEPT !.todo = @ \cup {key}]
                                 ELSE at[q]]
  BY DEF Buffer
<1> HIDE DEF t, key, item
<1>5. /\ buffers' \in [Transactions -> Map(sets)]
      /\ \A s \in Transactions, k \in Keys : buffers[s][k] # None => buffers'[s][k] # None
      /\ buffers'[t][key] # None
  BY <1>1, <1>2, <1>3 DEF Map
<1>6. ASSUME NEW q \in Procs
      PROVE  /\ Fits(at'[q], loop[q], buffers', sets)
             /\ Owes(at'[q], loop[q]) = Owes(at[q], loop[q])
             /\ at'[q].pc = IF q = p THEN "idle" ELSE at[q].pc
             /\ q # p => at'[q].tx = at[q].tx /\ at'[q].item = at[q].item
  <2>1. Fits(at[q], loop[q], buffers', sets)
    BY <1>2, <1>5 DEF Fits, Local
  <2>2. CASE q = p
    <3>1. at'[q] = Idle
      BY <1>4, <2>2
    <3>2. Fits(Idle, loop[q], buffers', sets) /\ Idle.pc = "idle"
      BY <1>1, IdleFits DEF Idle
    <3>3. QED
      BY <1>1, <2>2, <3>1, <3>2 DEF Owes
  <2>3. CASE q # p /\ q \in met
    <3>1. at'[q] = [at[q] EXCEPT !.todo = @ \cup {key}]
      BY <1>4, <2>3
    <3>2. at[q].tx = t /\ at[q].pc \in Evicting
      BY <1>4, <2>3
    <3>3. /\ at'[q] = [x \in {"pc", "key", "item", "tx", "todo", "size"} |-> at'[q][x]]
          /\ at'[q].pc = at[q].pc /\ at'[q].key = at[q].key /\ at'[q].item = at[q].item
          /\ at'[q].tx = at[q].tx /\ at'[q].todo = at[q].todo \cup {key}
          /\ at'[q].size = at[q].size
      BY <2>1, <3>1 DEF Fits, Local
    <3>4. at'[q] \in Local(sets)
      BY <1>3, <2>1, <3>3, LocalIs DEF Fits, Local
    <3>5. Fits(at'[q], loop[q], buffers', sets)
      BY <1>5, <2>1, <3>2, <3>3, <3>4 DEF Fits
    <3>6. QED
      BY <2>3, <3>3, <3>5 DEF Owes
  <2>4. CASE q # p /\ q \notin met
    BY <1>4, <2>1, <2>4
  <2>5. QED
    BY <2>2, <2>3, <2>4
<1>7. Typed'
  <2>1. at' = [q \in Procs |-> at'[q]]
    BY <1>4
  <2>2. QED
    BY <1>1, <1>5, <1>6, <2>1 DEF Typed
<1>8. Locked'
  <2>1. mu = p /\ None \notin Procs
    BY <1>1, MemoryAssumption DEF Locked, Holding
  <2>2. \A q \in Procs : Holding(at'[q]) <=> q # p /\ Holding(at[q])
    BY <1>6 DEF Holding, Evicting, Ranging
  <2>3. \A q \in Procs : ~ Holding(at'[q])
    BY <1>1, <2>1, <2>2 DEF Locked
  <2>4. QED
    BY <1>1, <2>1, <2>3 DEF Locked
<1>9. HasRoom'
  BY <1>1, <1>6 DEF MemoryInv, HasRoom, Room
<1>10. BooksBalance'
  <2>1. Owed(at', loop') = Owed(at, loop)
    <3>1. [q \in Procs |-> Owes(at'[q], loop'[q])] = [q \in Procs |-> Owes(at[q], loop[q])]
      BY <1>1, <1>6
    <3>2. QED
      BY <3>1 DEF Owed
  <2>2. Owed(at, loop) \in Int /\ Total(items) \in Nat /\ currentSize \in Int /\ leaked \in Int
    BY <1>1, OwedInt, TotalNat DEF Typed
  <2>3. /\ raced => raced'
        /\ currentSize' - currentSize = (Total(items') - Total(items))
                + (Owed(at', loop') - Owed(at, loop)) + (leaked' - leaked)
    BY <1>1, <2>1, <2>2
  <2>4. QED
    BY <1>7, <2>3, StillBalances
<1>11. QED
  BY <1>7, <1>8, <1>9, <1>10 DEF MemoryInv

-----------------------------------------------------------------------------
(* The theorems.                                                           *)

LEMMA GoroutineInv ==
    ASSUME MemoryInv, NEW p \in Procs, Step(p)
    PROVE  MemoryInv'
<1>1. CASE Buffer(p)
  BY <1>1, BufferInv
<1>2. CASE Upgrade(p)
  BY <1>2, UpgradeInv
<1>3. CASE Return(p)
  BY <1>3, ReturnInv
<1>4. CASE Store(p)
  BY <1>4, StoreInv
<1>5. CASE Add(p)
  BY <1>5, AddInv
<1>6. CASE EvictItems(p)
  BY <1>6, EvictItemsInv
<1>7. ASSUME NEW key \in Keys, Meet(p, key)
      PROVE  MemoryInv'
  BY <1>7, MeetInv
<1>8. CASE EvictDelete(p)
  BY <1>8, EvictDeleteInv
<1>9. CASE SizeRead(p)
  BY <1>9, SizeReadInv
<1>10. CASE SizeWritten(p)
  BY <1>10, SizeWrittenInv
<1>11. CASE CheckAgain(p) \/ Relock(p)
  BY <1>11, CheckAgainInv
<1>12. ASSUME NEW key \in Keys, CommitItem(p, key) \/ CommitNoRoom(p, key)
       PROVE  MemoryInv'
  BY <1>12, CommitsInv
<1>13. CASE CommitEnds(p)
  BY <1>13, CommitEndsInv
<1>14. QED
  BY <1>1, <1>2, <1>3, <1>4, <1>5, <1>6, <1>7, <1>8, <1>9, <1>10, <1>11, <1>12, <1>13, Zenon
     DEF Step

LEMMA CallInv ==
    ASSUME MemoryInv, NEW p \in Procs,
           \/ ClearAll(p) \/ StartTransaction(p) \/ RollbackTransaction(p) \/ CommitTransaction(p)
           \/ \E key \in Keys :
                 \/ Get(p, key) \/ Delete(p, key)
                 \/ \E size \in Sizes[key] : Set(p, key, size) \/ SetInTransaction(p, key, size)
    PROVE  MemoryInv'
<1>1. CASE ClearAll(p)
  BY <1>1, ClearAllInv
<1>2. CASE StartTransaction(p)
  <2>1. DOMAIN buffers = Transactions /\ late \in SUBSET Nat
    BY DEF MemoryInv, Typed
  <2>2. QED
    BY <1>2, <2>1, OthersInv DEF StartTransaction
<1>3. CASE RollbackTransaction(p)
  BY <1>3, OthersInv DEF RollbackTransaction, MemoryInv, Typed
<1>4. CASE CommitTransaction(p)
  BY <1>4, CommitTransactionInv
<1>5. ASSUME NEW key \in Keys, Get(p, key)
      PROVE  MemoryInv'
  BY <1>5, GetInv
<1>6. ASSUME NEW key \in Keys, Delete(p, key)
      PROVE  MemoryInv'
  <2>1. Removes({key}) /\ UNCHANGED <<mu, transaction, buffers, at, loop, sets, late, raced>>
    BY <1>6, Zenon DEF Delete
  <2>2. QED
    BY <2>1, RemovalInv
<1>7. ASSUME NEW key \in Keys, NEW size \in Sizes[key], Set(p, key, size)
      PROVE  MemoryInv'
  BY <1>7, SetInv
<1>8. ASSUME NEW key \in Keys, NEW size \in Sizes[key], SetInTransaction(p, key, size)
      PROVE  MemoryInv'
  BY <1>8, SetInTransactionInv
<1>9. QED
  BY <1>1, <1>2, <1>3, <1>4, <1>5, <1>6, <1>7, <1>8, Zenon

LEMMA ExpireInv ==
    ASSUME MemoryInv, NEW k \in Keys, Expire(k)
    PROVE  MemoryInv'
<1>1. items[k].set \in Nat
  <2>1. items[k] \in Item(sets) /\ sets \in Nat
    BY DEF MemoryInv, Typed, Map, Expire
  <2>2. QED
    BY <2>1 DEF Item
<1>2. late' \in SUBSET Nat /\ transaction' \in Transactions \cup {None}
  BY <1>1 DEF Expire, MemoryInv, Typed
<1>3. QED
  BY <1>2, OthersInv DEF Expire

LEMMA MemoryStep == MemoryInv /\ [MemoryNext]_memory => MemoryInv'
<1> SUFFICES ASSUME MemoryInv, [MemoryNext]_memory
             PROVE  MemoryInv'
  OBVIOUS
<1>1. ASSUME NEW p \in Procs, Step(p)
      PROVE  MemoryInv'
  BY <1>1, GoroutineInv
<1>2. CASE cleanup
  <2> DEFINE expired == {k \in Keys : items[k] # None /\ items[k].set \in late}
  <2>1. Removes(expired) /\ UNCHANGED <<mu, transaction, buffers, at, loop, sets, late, raced>>
    BY <1>2, Zenon DEF cleanup
  <2>2. expired \in SUBSET Keys
    OBVIOUS
  <2> HIDE DEF expired
  <2>3. QED
    BY <2>1, <2>2, RemovalInv
<1>3. ASSUME NEW k \in Keys, Expire(k)
      PROVE  MemoryInv'
  BY <1>3, ExpireInv
<1>4. CASE UNCHANGED memory
  BY <1>4, OthersInv DEF memory, MemoryInv, Typed
<1>5. QED
  BY <1>1, <1>2, <1>3, <1>4, CallInv, Zenon DEF MemoryNext

LEMMA MemoryAlways == MemorySpec => []MemoryInv
BY MemoryInitInv, MemoryStep, PTL DEF MemorySpec

\* The lock is held by exactly those who are in its sections: by a Set through its eviction, by
\* a commit not while it evicts and again after it, by no one who has returned.
THEOREM MemoryTypeOKHolds == MemorySpec => []MemoryTypeOK
<1>1. MemoryInv => MemoryTypeOK
  <2> SUFFICES ASSUME MemoryInv
               PROVE  MemoryTypeOK
    OBVIOUS
  <2>1. /\ currentSize \in Int /\ mu \in Procs \cup {None}
        /\ transaction \in DOMAIN buffers \cup {None}
    BY DEF MemoryInv, Typed, Locked
  <2>2. \A p \in Procs : mu = p <=> Holds(p)
    BY DEF MemoryInv, Locked, Holding, Holds
  <2>3. \A k \in Keys : items[k] # None => items[k].set \in 1..sets /\ items[k].size \in Nat
    BY DEF MemoryInv, Typed, Map, Item
  <2>4. QED
    BY <2>1, <2>2, <2>3 DEF MemoryTypeOK
<1>2. QED
  BY <1>1, MemoryAlways, PTL

\* Between the check of the limit and the addition of the size nothing makes the size larger,
\* as the lock is held from the one to the other and an eviction without it only makes the size
\* smaller: until a size is overwritten, or one taken off that is not the deleted item's, the
\* size is within its limit.
THEOREM SizeLimitedHolds == MemorySpec => []SizeLimited
<1>1. MemoryInv => SizeLimited
  BY DEF MemoryInv, HasRoom, SizeLimited
<1>2. QED
  BY <1>1, MemoryAlways, PTL

\* Until then the size that limits the cache is what the items hold and what the removals and
\* replacements leaked, and what goroutines have deleted and not taken off, or stored and not
\* added, yet.
THEOREM BooksBalanceHolds == MemorySpec => []BooksBalance
<1>1. MemoryInv => BooksBalance
  BY DEF MemoryInv
<1>2. QED
  BY <1>1, MemoryAlways, PTL
=============================================================================
