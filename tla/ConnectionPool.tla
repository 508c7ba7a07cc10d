--------------------------- MODULE ConnectionPool ---------------------------
(***************************************************************************)
(* One ConnectionPool<RedisConnectionImpl> shared by several threads       *)
(* (src/src/internal/connection_pool.h).                                   *)
(*                                                                         *)
(* Grain of atomicity.  idle_ is only touched with mutex_ held and         *)
(* mem_pool_ only with pool_mtx_ held, so a critical section is one step;  *)
(* active_cnt_ is updated by __sync builtins, each one step, and read      *)
(* without a lock by Get, a step of its own.  Everything between two such  *)
(* points works on a block no other thread can reach and is folded into    *)
(* the neighbouring step.                                                  *)
(*                                                                         *)
(* A block is the memory of one ListItem<Type> with its Type behind it.    *)
(* Mutated forms, named Bug..., sit next to what they mutate: no           *)
(* specification uses them.                                                *)
(***************************************************************************)
EXTENDS Integers, Sequences, FiniteSets, Functions

CONSTANTS
  Thread,        \* callers of Get and Put
  Block,         \* the memory malloc can provide
  NoBlock,       \* the null pointer
  MaxActive,     \* option_.max_active; <= 0 is NUMBER_UNLIMITED
  MaxIdle,       \* option_.max_idle; <= 0 is NUMBER_UNLIMITED
  IdleTimeout,   \* option_.idle_timeout_ms; <= 0 is NUMBER_UNLIMITED
  MaxLife,       \* option_.max_conn_life_time; <= 0 is NUMBER_UNLIMITED
  MaxTime,       \* bound on the clock
  TimeWrap,      \* 2^64 of the code's uint64_t subtraction
  MonotoneClock  \* FALSE: gettimeofday may step back

ASSUME FiniteAssumption == IsFiniteSet(Thread) /\ IsFiniteSet(Block)
ASSUME NoBlockAssumption == NoBlock \notin Block
ASSUME OptionAssumption ==
  MaxActive \in Int /\ MaxIdle \in Int /\ IdleTimeout \in Int /\ MaxLife \in Int
ASSUME ClockAssumption ==
  /\ MaxTime \in Nat /\ TimeWrap \in Nat /\ TimeWrap > MaxTime
  /\ MonotoneClock \in BOOLEAN

VARIABLES
  idle,        \* idle_: the blocks of the IdleList, front first
  memPool,     \* mem_pool_: destroyed blocks kept for reuse
  heap,        \* blocks never malloc'ed
  activeCnt,   \* active_cnt_
  inUse,       \* blocks handed to the application by Get and not yet Put
  activeTime,  \* ListItem::active_time
  createTime,  \* ListItem::create_time
  now,         \* __get_current_time_ms()
  pc,          \* where each thread stands in Get, Put or Gc
  cur,         \* the block a thread is working on
  ret          \* where Gc returns to

poolVars == <<idle, memPool, heap, activeCnt, inUse>>
timeVars == <<activeTime, createTime, now>>
vars == <<idle, memPool, heap, activeCnt, inUse, activeTime, createTime, now,
          pc, cur, ret>>

Time == 0 .. MaxTime

\* Program points that own the block in cur, and all of them.
Owning == {"count", "init", "gc", "push"}
PC == Owning \cup
      {"ready", "refused", "expire", "take", "new", "malloc", "uncount"}

\* The blocks on the idle list.
Pooled == Range(idle)

\* The blocks that threads are working on.
Working == {cur[t] : t \in {u \in Thread : pc[u] \in Owning}}

(***************************************************************************)
(* IdleList and the tests Get and Put make.                                *)
(***************************************************************************)
PushFront(list, b) == <<b>> \o list

BugPopFront(list) == list
PopFront(list) == Tail(list)

PopBack(list) == SubSeq(list, 1, Len(list) - 1)

BugOverloaded == MaxActive > 0 /\ activeCnt > MaxActive
Overloaded == MaxActive > 0 /\ activeCnt >= MaxActive

Expired(b) == activeTime[b] + IdleTimeout < now
Young(b) == MaxLife <= 0 \/ (now - createTime[b]) % TimeWrap < MaxLife

BugOverIdle(list) == MaxIdle > 0 /\ Len(list) > MaxIdle + 1
OverIdle(list) == MaxIdle > 0 /\ Len(list) > MaxIdle

\* The __sync builtins on active_cnt_.
Increment == activeCnt' = activeCnt + 1
BugDecrement == UNCHANGED activeCnt
Decrement == activeCnt' = activeCnt - 1

Goto(t, where) == pc' = [pc EXCEPT ![t] = where]
Hold(t, b) == cur' = [cur EXCEPT ![t] = b]

\* Call Gc on b and continue at next: "ready" leaves Get or Put.
BugCallGc(t, b, next) == Goto(t, next) /\ UNCHANGED <<cur, ret>>
CallGc(t, b, next) ==
  /\ Goto(t, "gc")
  /\ Hold(t, b)
  /\ ret' = [ret EXCEPT ![t] = next]

Init ==
  /\ idle = <<>>
  /\ memPool = {}
  /\ heap = Block
  /\ activeCnt = 0
  /\ inUse = {}
  /\ activeTime = [b \in Block |-> 0]
  /\ createTime = [b \in Block |-> 0]
  /\ now = 0
  /\ pc = [t \in Thread |-> "ready"]
  /\ cur = [t \in Thread |-> NoBlock]
  /\ ret = [t \in Thread |-> "ready"]

(***************************************************************************)
(* Get.                                                                    *)
(***************************************************************************)

\* Where Get goes once the unlocked test of active_cnt_ has let it in.
Admitted == IF IdleTimeout > 0 THEN "expire" ELSE "take"

\* Entry: the test of active_cnt_ against max_active, without a lock.
Get(t) ==
  /\ pc[t] = "ready"
  /\ Goto(t, IF Overloaded THEN "refused" ELSE Admitted)
  /\ UNCHANGED <<poolVars, timeVars, cur, ret>>

\* ++overload_error and return NULL (the counter itself has no reader).
BugRefuse(t) ==
  /\ pc[t] = "refused" /\ ~Overloaded
  /\ Goto(t, "ready")
  /\ UNCHANGED <<poolVars, timeVars, cur, ret>>

Refuse(t) ==
  /\ pc[t] = "refused"
  /\ Goto(t, "ready")
  /\ UNCHANGED <<poolVars, timeVars, cur, ret>>

\* Mutant: the item stays on the list while Gc runs without the lock.
BugExpireBack(t) ==
  /\ pc[t] = "expire"
  /\ IF idle # <<>> /\ Expired(idle[Len(idle)])
       THEN CallGc(t, idle[Len(idle)], "expire")
       ELSE Goto(t, "take") /\ UNCHANGED <<cur, ret>>
  /\ UNCHANGED <<idle, memPool, heap, activeCnt, inUse, timeVars>>

\* One turn of the idle-timeout loop, from lock to unlock: take the item at
\* the back for Gc if it has expired, otherwise leave the loop.
ExpireBack(t) ==
  /\ pc[t] = "expire"
  /\ IF idle # <<>> /\ Expired(idle[Len(idle)])
       THEN /\ CallGc(t, idle[Len(idle)], "expire")
            /\ idle' = PopBack(idle)
       ELSE /\ Goto(t, "take")
            /\ UNCHANGED <<idle, cur, ret>>
  /\ UNCHANGED <<memPool, heap, activeCnt, inUse, timeVars>>

\* Mutant: what has lived too long is popped and not given to Gc.
BugTakeFront(t) ==
  /\ pc[t] = "take"
  /\ IF idle # <<>> /\ Young(Head(idle))
       THEN Goto(t, "ready") /\ inUse' = inUse \cup {Head(idle)}
       ELSE Goto(t, IF idle = <<>> THEN "new" ELSE "take") /\ UNCHANGED inUse
  /\ idle' = IF idle = <<>> THEN idle ELSE PopFront(idle)
  /\ UNCHANGED <<memPool, heap, activeCnt, timeVars, cur, ret>>

\* One turn of the second loop: pop the front and return it, or Gc it when it
\* has lived too long; with nothing left, make a new instance.
TakeFront(t) ==
  /\ pc[t] = "take"
  /\ \/ /\ idle = <<>>
        /\ Goto(t, "new")
        /\ UNCHANGED <<idle, inUse, cur, ret>>
     \/ /\ idle # <<>> /\ Young(Head(idle))
        /\ Goto(t, "ready")
        /\ idle' = PopFront(idle)
        /\ inUse' = inUse \cup {Head(idle)}
        /\ UNCHANGED <<cur, ret>>
     \/ /\ idle # <<>> /\ ~Young(Head(idle))
        /\ CallGc(t, Head(idle), "take")
        /\ idle' = PopFront(idle)
        /\ UNCHANGED inUse
  /\ UNCHANGED <<memPool, heap, activeCnt, timeVars>>

(***************************************************************************)
(* GetNewInstance.                                                         *)
(***************************************************************************)

\* Under pool_mtx_: reuse a block of mem_pool_ (which one does not matter).
ReuseBlock(t) ==
  /\ pc[t] = "new"
  /\ \/ \E b \in memPool :
          /\ memPool' = memPool \ {b}
          /\ Hold(t, b)
          /\ Goto(t, "count")
     \/ /\ memPool = {}
        /\ Goto(t, "malloc")
        /\ UNCHANGED <<memPool, cur>>
  /\ UNCHANGED <<idle, heap, activeCnt, inUse, timeVars, ret>>

\* malloc: a fresh block, or ++malloc_fail_ and return NULL.
Malloc(t) ==
  /\ pc[t] = "malloc"
  /\ \/ \E b \in heap :
          /\ heap' = heap \ {b}
          /\ Hold(t, b)
          /\ Goto(t, "count")
     \/ /\ Goto(t, "ready")
        /\ UNCHANGED <<heap, cur>>
  /\ UNCHANGED <<idle, memPool, activeCnt, inUse, timeVars, ret>>

\* The atomic increment and the two placement news.
Construct(t) ==
  /\ pc[t] = "count"
  /\ Increment
  /\ activeTime' = [activeTime EXCEPT ![cur[t]] = now]
  /\ createTime' = [createTime EXCEPT ![cur[t]] = now]
  /\ Goto(t, "init")
  /\ UNCHANGED <<idle, memPool, heap, inUse, now, cur, ret>>

\* init_handler_ connects: the new instance is returned, or Gc'ed and NULL is.
InitHandler(t) ==
  /\ pc[t] = "init"
  /\ \/ /\ inUse' = inUse \cup {cur[t]}
        /\ Hold(t, NoBlock)
        /\ Goto(t, "ready")
        /\ UNCHANGED ret
     \/ /\ CallGc(t, cur[t], "ready")
        /\ UNCHANGED inUse
  /\ UNCHANGED <<idle, memPool, heap, activeCnt, timeVars>>

(***************************************************************************)
(* Gc: destroy the object and put its memory in mem_pool_, then decrement. *)
(* The times of a destroyed ListItem are dead until it is built again.     *)
(***************************************************************************)
GcRecycle(t) ==
  /\ pc[t] = "gc"
  /\ memPool' = memPool \cup {cur[t]}
  /\ activeTime' = [activeTime EXCEPT ![cur[t]] = 0]
  /\ createTime' = [createTime EXCEPT ![cur[t]] = 0]
  /\ Hold(t, NoBlock)
  /\ Goto(t, "uncount")
  /\ UNCHANGED <<idle, heap, activeCnt, inUse, now, ret>>

GcUncount(t) ==
  /\ pc[t] = "uncount"
  /\ Decrement
  /\ Goto(t, ret[t])
  /\ ret' = [ret EXCEPT ![t] = "ready"]
  /\ UNCHANGED <<idle, memPool, heap, inUse, timeVars, cur>>

(***************************************************************************)
(* Put.  Any thread may put a block in use: handles move between threads.  *)
(***************************************************************************)

\* Entry: Gc a broken connection, or stamp active_time (outside the lock).
Put(t) ==
  /\ pc[t] = "ready"
  /\ \E b \in inUse :
       /\ inUse' = inUse \ {b}
       /\ \/ /\ CallGc(t, b, "ready")
             /\ UNCHANGED activeTime
          \/ /\ activeTime' = [activeTime EXCEPT ![b] = now]
             /\ Hold(t, b)
             /\ Goto(t, "push")
             /\ UNCHANGED ret
  /\ UNCHANGED <<idle, memPool, heap, activeCnt, createTime, now>>

\* The critical section: push at the front, and evict the back for Gc when
\* the list has outgrown max_idle.
PushIdle(t) ==
  /\ pc[t] = "push"
  /\ LET list == PushFront(idle, cur[t])
     IN IF OverIdle(list)
          THEN /\ idle' = PopBack(list)
               /\ CallGc(t, list[Len(list)], "ready")
          ELSE /\ idle' = list
               /\ Hold(t, NoBlock)
               /\ Goto(t, "ready")
               /\ UNCHANGED ret
  /\ UNCHANGED <<memPool, heap, activeCnt, inUse, timeVars>>

\* The wall clock moves; unless MonotoneClock, also backwards.
AdvanceClock ==
  /\ \E n \in Time :
       /\ n # now
       /\ MonotoneClock => n > now
       /\ now' = n
  /\ UNCHANGED <<poolVars, activeTime, createTime, pc, cur, ret>>

\* The steps of a call already entered.
Continue(t) ==
  \/ Refuse(t) \/ ExpireBack(t) \/ TakeFront(t)
  \/ ReuseBlock(t) \/ Malloc(t) \/ Construct(t) \/ InitHandler(t)
  \/ GcRecycle(t) \/ GcUncount(t) \/ PushIdle(t)

Next ==
  \/ \E t \in Thread : Get(t) \/ Put(t) \/ Continue(t)
  \/ AdvanceClock

\* Threads inside a call are scheduled; nobody has to enter one.
Fairness == \A t \in Thread : WF_vars(Continue(t))

Spec == Init /\ [][Next]_vars
FairSpec == Spec /\ Fairness
-----------------------------------------------------------------------------
(***************************************************************************)
(* Properties.                                                             *)
(***************************************************************************)
TypeOK ==
  /\ idle \in Seq(Block)
  /\ memPool \subseteq Block /\ heap \subseteq Block /\ inUse \subseteq Block
  /\ activeCnt \in Int
  /\ activeTime \in [Block -> Time] /\ createTime \in [Block -> Time]
  /\ now \in Time
  /\ pc \in [Thread -> PC]
  /\ cur \in [Thread -> Block \cup {NoBlock}]
  /\ \A t \in Thread : pc[t] \in Owning <=> cur[t] # NoBlock
  /\ ret \in [Thread -> {"ready", "expire", "take"}]

\* No block is on the idle list twice.
IdleDistinct == IsInjective(idle)

\* No two threads work on the same block.
WorkDistinct ==
  \A t, u \in Thread :
    pc[t] \in Owning /\ pc[u] \in Owning /\ cur[t] = cur[u] => t = u

\* The places a block can be in exclude each other.
PlacesDisjoint ==
  /\ heap \cap (memPool \cup Pooled \cup inUse \cup Working) = {}
  /\ memPool \cap (Pooled \cup inUse \cup Working) = {}
  /\ Pooled \cap (inUse \cup Working) = {}
  /\ inUse \cap Working = {}

\* However Gets, Puts and Gcs of several threads interleave, a connection has
\* one owner: the application, the idle list, mem_pool_ or one call in
\* progress.  No connection is handed to two callers, none is handed out after
\* its destruction and no memory is recycled twice.
SingleOwner == IdleDistinct /\ WorkDistinct /\ PlacesDisjoint

\* No path through Get, Gc and Put, the failing ones (malloc, init_handler_, a
\* broken connection, an eviction) included, loses a block: each one is unused,
\* pooled as memory, idle, in use or in the hands of a call.
NothingLost == heap \cup memPool \cup Pooled \cup inUse \cup Working = Block

\* Blocks that hold a constructed object.
Counting == {cur[t] : t \in {u \in Thread : pc[u] = "count"}}
Constructed == Block \ (heap \cup memPool \cup Counting)

\* Threads between the push to mem_pool_ and the decrement in Gc.
Uncounting == {t \in Thread : pc[t] = "uncount"}

\* active_cnt_ counts the constructed objects, plus the ones a Gc has already
\* recycled and not yet subtracted: it never undercounts.
ActiveCountExact ==
  activeCnt = Cardinality(Constructed) + Cardinality(Uncounting)

\* What RedisManager::ConnectionInUse computes (active_cnt minus conn_in_pool)
\* is the number of connections in use whenever no call is in progress.
InUseAtRest ==
  (\A t \in Thread : pc[t] = "ready") =>
    activeCnt - Len(idle) = Cardinality(inUse)

\* The idle list never outgrows max_idle, not even inside Put's eviction.
IdleCap == MaxIdle > 0 => Len(idle) <= MaxIdle

\* Threads that Get has let in and that have not incremented active_cnt_ yet.
InFlight ==
  {t \in Thread :
     \/ pc[t] \in {"expire", "take", "new", "malloc", "count"}
     \/ pc[t] \in {"gc", "uncount"} /\ ret[t] # "ready"}

\* Why the overrun is bounded: a call in flight is a claim on max_active that
\* Get admitted while at least one unit was free.
Reservation ==
  MaxActive > 0 =>
    activeCnt + Cardinality(InFlight) <= MaxActive + Cardinality(Thread) - 1

\* The unlocked test of active_cnt_ lets the limit be overrun, by at most one
\* connection for each other thread.
OvershootBound ==
  MaxActive > 0 => activeCnt <= MaxActive + Cardinality(Thread) - 1

\* "Maximum number of connections allocated by the pool at a given time"
\* (connection_pool.h:130): active_cnt_ never exceeds max_active.
ActiveCap == MaxActive > 0 => activeCnt <= MaxActive

\* max_active limits the connections allocated (connection_pool.h:130), and an
\* idle one needs no allocation: Get refuses for overload only when the idle
\* list is empty.
RefusesOnlyWhenEmpty ==
  [][\A t \in Thread :
       pc[t] = "ready" /\ pc'[t] = "refused" => idle = <<>>]_vars

(***************************************************************************)
(* The pool implements its contract.  In it a block is alive from the      *)
(* atomic increment to its return to mem_pool_, and racing Gets stretch    *)
(* max_active by one connection for each other thread.                     *)
(***************************************************************************)
Owner ==
  [b \in Block |->
     IF b \in Pooled THEN "idle"
     ELSE IF b \in inUse THEN "app"
     ELSE IF b \in Constructed THEN "call"
     ELSE "none"]

Limit ==
  IF MaxActive > 0 THEN MaxActive + Cardinality(Thread) - 1
  ELSE Cardinality(Block)

Contract == INSTANCE PoolContract WITH owner <- Owner

\* Every step of every thread is a step of the contract or invisible in it: an
\* object is lent only after it was built or while it was idle, kept only after
\* it was given back and destroyed only out of a call, within both limits.
KeepsContract == Contract!Spec

\* Every Get and Put returns, whatever the other threads do: neither loop of Get
\* can be kept busy for ever, unless the clock moves for ever meanwhile (then other
\* threads may feed the loops with connections that expire at once).
CallsReturn ==
  \/ \A t \in Thread : pc[t] # "ready" ~> pc[t] = "ready"
  \/ []<><<AdvanceClock>>_now
=============================================================================
