----------------------------- MODULE RedisManager -----------------------------
(***************************************************************************)
(* A RedisManager and the pools it creates, one for each database of the   *)
(* master and of every slave, when a Get first needs it                    *)
(* (src/src/cloredis.cc).                                                  *)
(*                                                                         *)
(* The manager has no lock.  Get may run in several threads, and each of   *)
(* its accesses to the tables is a step; Init, InitEx, Flush and the       *)
(* destructor run while no Get is in progress.  A pool is a pair of        *)
(* counters that moves as PoolContract allows.                             *)
(*                                                                         *)
(* Pools and arrays that were freed are never allocated again here, so a   *)
(* use after free always shows; the first invalid access sets crashed and  *)
(* nothing is said of what follows it.  Slots are numbered from 1.         *)
(***************************************************************************)
EXTENDS Naturals, Sequences, FiniteSets, FiniteSetsExt

CONSTANTS
  Thread,       \* callers of Get
  DB,           \* database numbers, below MAX_DB_NUM
  Addr,         \* service addresses
  NoAddr,       \* master_addr_ before the first Init
  Pool,         \* RedisConnectionPool objects new can provide
  NoPool,       \* the null pointer
  Garbage,      \* an array entry never written
  Array,        \* slave arrays malloc can provide
  NoArray,      \* the null pointer
  MaxSlaveCnt,  \* MAX_SLAVE_CNT: longer slave lists are ignored
  SlaveLists,   \* lists InitEx is called with; {} if it is never called
  ConnLimit,    \* connections a pool may have alive
  Uses,         \* the roles and databases each thread asks for
  FlushAfter    \* results of Init after which the application calls Flush

DefaultDB == 0
Role == {"MASTER", "SLAVE"}

ASSUME DBAssumption == DefaultDB \in DB
ASSUME NullAssumption ==
  /\ NoPool \notin Pool /\ Garbage \notin Pool \cup {NoPool}
  /\ NoArray \notin Array /\ NoAddr \notin Addr
ASSUME PoolAssumption == IsFiniteSet(Pool)  \* memory is finite
ASSUME ListAssumption == MaxSlaveCnt \in Nat /\ SlaveLists \subseteq Seq(Addr)
ASSUME UseAssumption ==
  ConnLimit \in Nat \ {0} /\ Uses \in [Thread -> SUBSET (Role \X DB)]
ASSUME FlushAssumption == FlushAfter \subseteq {"bad host", "unreachable", "ok"}

VARIABLES
  initResult,  \* what the last Init returned; "none" is inited_ = false
  masterAddr,  \* master_addr_
  slaveAddr,   \* slave_addr_
  master,      \* master_
  slave,       \* slave_
  array,       \* the arrays slave_ points to
  pool,        \* the pools
  call,        \* where each thread stands in Get, and its role, database, slot
  exited,      \* the destructor has run
  crashed      \* an invalid pointer was used

config == <<initResult, masterAddr, slaveAddr>>
tables == <<master, slave, array, pool>>
vars == <<config, tables, call, exited, crashed>>

SlaveCnt == Len(slaveAddr)

(***************************************************************************)
(* Pools.                                                                  *)
(***************************************************************************)
\* A pool constructed for a role, a database and an address; "none" is memory
\* not allocated yet.
NewPool(role, db, addr) ==
  [state |-> "alive", role |-> role, db |-> db, addr |-> addr, lent |-> 0, idle |-> 0]
Unallocated == [NewPool("MASTER", DefaultDB, NoAddr) EXCEPT !.state = "none"]

FreshPool == {p \in Pool : pool[p].state = "none"}
FreshArray == {a \in Array : array[a].state = "none"}
Alive(p) == p \in Pool /\ pool[p].state = "alive"

\* Get on a pool: refused; an idle connection lent once the expired are gone; or
\* none idle is left and a new one is lent, or cannot be made.
PoolGet(r) ==
  {r} \cup {[r EXCEPT !.idle = i, !.lent = @ + 1] : i \in 0 .. r.idle - 1}
      \cup IF r.lent + r.idle >= ConnLimit THEN {}
           ELSE {[r EXCEPT !.idle = 0], [r EXCEPT !.idle = 0, !.lent = @ + 1]}

\* Put on a pool: the connection is kept, or destroyed (or another one for it).
BugPoolPut(r) == {[r EXCEPT !.idle = @ + 1]}
PoolPut(r) == {[r EXCEPT !.lent = @ - 1, !.idle = @ + 1], [r EXCEPT !.lent = @ - 1]}

\* The connection an Init opens and gives back at once, if it can.
Probe(r, reached) == IF reached THEN [r EXCEPT !.idle = 1] ELSE r

(***************************************************************************)
(* The tables.                                                             *)
(***************************************************************************)
LiveArray(a) == a \in Array /\ array[a].state = "live"

\* The entries of the slave array of a database, if it has one.
SlaveSlots(db) == IF LiveArray(slave[db]) THEN array[slave[db]].slot ELSE <<>>

\* The pools the counting functions visit for a role: null entries are skipped.
BugPoolsOf(role) ==
  IF role = "MASTER" THEN {master[d] : d \in DB} \cap Pool
  ELSE (UNION {{SlaveSlots(d)[i] : i \in 1 .. Len(SlaveSlots(d)) - 1} : d \in DB})
         \cap Pool
PoolsOf(role) ==
  IF role = "MASTER" THEN {master[d] : d \in DB} \cap Pool
  ELSE (UNION {{SlaveSlots(d)[i] : i \in DOMAIN SlaveSlots(d)} : d \in DB}) \cap Pool

ActiveConnectionCount(role) ==
  MapThenSumSet(LAMBDA p : pool[p].lent + pool[p].idle, PoolsOf(role))
ConnectionInPool(role) == MapThenSumSet(LAMBDA p : pool[p].idle, PoolsOf(role))
ConnectionInUse(role) == ActiveConnectionCount(role) - ConnectionInPool(role)

\* A call of Get not in progress.
Idle == [at |-> "ready", role |-> "MASTER", db |-> DefaultDB, slot |-> 0]

Crash == crashed' = TRUE /\ UNCHANGED <<config, tables, call, exited>>

\* No Get in progress and the manager exists: Init, InitEx and Flush may run.
Quiet == ~crashed /\ ~exited /\ \A t \in Thread : call[t] = Idle

Start ==
  /\ initResult = "none" /\ masterAddr = NoAddr /\ slaveAddr = <<>>
  /\ master = [d \in DB |-> NoPool]
  /\ slave = [d \in DB |-> NoArray]
  /\ array = [a \in Array |-> [state |-> "none", slot |-> <<>>]]
  /\ pool = [p \in Pool |-> Unallocated]
  /\ call = [t \in Thread |-> Idle]
  /\ exited = FALSE /\ crashed = FALSE

\* Init and InitEx with a master host that does not parse: inited_ stays set.
BadHost ==
  /\ Quiet /\ initResult = "none"
  /\ initResult' = "bad host"
  /\ UNCHANGED <<masterAddr, slaveAddr, tables, call, exited, crashed>>

\* Init: a pool for the default database, and a first connection.
Init(a) ==
  /\ Quiet /\ initResult = "none"
  /\ masterAddr' = a
  /\ \E p \in FreshPool, reached \in BOOLEAN :
       /\ master' = [master EXCEPT ![DefaultDB] = p]
       /\ pool' = [pool EXCEPT ![p] = Probe(NewPool("MASTER", DefaultDB, a), reached)]
       /\ initResult' = IF reached THEN "ok" ELSE "unreachable"
  /\ UNCHANGED <<slaveAddr, slave, array, call, exited, crashed>>

\* slave_addr_ after InitEx: a list that is not too long is appended.
WithSlaves(list) == IF Len(list) < MaxSlaveCnt THEN slaveAddr \o list ELSE slaveAddr

\* InitEx: pools for the default database of the master and of the first slave.
\* With no slave it reads slave_addr_[0], with a freed array it writes to it.
InitEx(a, list) ==
  /\ Quiet /\ initResult = "none"
  /\ IF WithSlaves(list) = <<>> \/ slave[DefaultDB] # NoArray
       THEN Crash
       ELSE
         /\ masterAddr' = a /\ slaveAddr' = WithSlaves(list)
         /\ \E p, q \in FreshPool, r \in FreshArray, onMaster, onSlave \in BOOLEAN :
              /\ p # q
              /\ master' = [master EXCEPT ![DefaultDB] = p]
              /\ slave' = [slave EXCEPT ![DefaultDB] = r]
              /\ array' = [array EXCEPT ![r] =
                   [state |-> "live",
                    slot |-> [i \in DOMAIN slaveAddr' |-> IF i = 1 THEN q ELSE NoPool]]]
              /\ pool' = [pool EXCEPT
                   ![p] = Probe(NewPool("MASTER", DefaultDB, a), onMaster),
                   ![q] = Probe(NewPool("SLAVE", DefaultDB, slaveAddr'[1]), onSlave)]
              /\ initResult' = IF onMaster /\ onSlave THEN "ok" ELSE "unreachable"
         /\ UNCHANGED <<call, exited, crashed>>

(***************************************************************************)
(* Flush deletes what the tables point to and leaves the pointers.         *)
(***************************************************************************)
Dangling ==
  \/ \E d \in DB : master[d] # NoPool /\ ~Alive(master[d])
  \/ \E d \in DB : slave[d] # NoArray /\ ~LiveArray(slave[d])
  \/ \E d \in DB : \E i \in DOMAIN SlaveSlots(d) :
       SlaveSlots(d)[i] # NoPool /\ ~Alive(SlaveSlots(d)[i])

BugFreed(arrays, S) == arrays
Freed(arrays, S) ==
  [a \in Array |-> IF a \in S THEN [state |-> "freed", slot |-> <<>>] ELSE arrays[a]]

DeleteAll ==
  /\ pool' = [p \in Pool |-> IF p \in PoolsOf("MASTER") \cup PoolsOf("SLAVE")
                             THEN [pool[p] EXCEPT !.state = "deleted", !.idle = 0]
                             ELSE pool[p]]
  /\ array' = Freed(array, {slave[d] : d \in DB})
  /\ UNCHANGED <<master, slave>>

Flush ==
  /\ Quiet /\ initResult \in FlushAfter
  /\ IF Dangling THEN Crash
     ELSE /\ DeleteAll
          /\ initResult' = "none"
          /\ UNCHANGED <<masterAddr, slaveAddr, call, exited, crashed>>

\* The destructor, which Singleton runs at exit: handles are gone by then.
Destroy ==
  /\ Quiet /\ \A p \in Pool : pool[p].lent = 0
  /\ IF Dangling THEN Crash
     ELSE /\ DeleteAll
          /\ exited' = TRUE
          /\ initResult' = "none"
          /\ UNCHANGED <<masterAddr, slaveAddr, call, crashed>>

(***************************************************************************)
(* Get and InitConnectionPool, access by access.                           *)
(***************************************************************************)
At(t, where) == ~crashed /\ call[t].at = where
Goto(t, where) == call' = [call EXCEPT ![t].at = where]

\* Entry: without slaves the role is ignored; the slot of a slave is the index
\* given, or a random one.
Get(t, role, db) ==
  /\ At(t, "ready") /\ ~exited /\ initResult \in {"ok", "unreachable"}
  /\ IF role = "MASTER" \/ SlaveCnt < 1
       THEN call' = [call EXCEPT ![t] = [Idle EXCEPT !.at = "master", !.db = db]]
       ELSE \E i \in 1 .. SlaveCnt :
              call' = [call EXCEPT ![t] =
                        [at |-> "slave", role |-> "SLAVE", db |-> db, slot |-> i]]
  /\ UNCHANGED <<config, tables, exited, crashed>>

\* if (master_[db])
BugTestMaster(t) ==
  /\ At(t, "master")
  /\ Goto(t, "newMaster")
  /\ UNCHANGED <<config, tables, exited, crashed>>
TestMaster(t) ==
  /\ At(t, "master")
  /\ Goto(t, IF master[call[t].db] # NoPool THEN "use" ELSE "newMaster")
  /\ UNCHANGED <<config, tables, exited, crashed>>

\* master_[db] = new RedisConnectionPool(...)
NewMaster(t) ==
  /\ At(t, "newMaster")
  /\ \E p \in FreshPool :
       /\ pool' = [pool EXCEPT ![p] = NewPool("MASTER", call[t].db, masterAddr)]
       /\ master' = [master EXCEPT ![call[t].db] = p]
  /\ Goto(t, "use")
  /\ UNCHANGED <<config, slave, array, exited, crashed>>

\* The entry of a slave array, read or written through slave_[db].
Entry(db, i) == array[slave[db]].slot[i]

\* if (slave_[db] && slave_[db][real_index]): garbage reads as anything.
TestSlave(t) ==
  /\ At(t, "slave")
  /\ LET db == call[t].db
         i  == call[t].slot
     IN CASE slave[db] = NoArray ->
               Goto(t, "testArray") /\ UNCHANGED <<config, tables, exited, crashed>>
          [] slave[db] # NoArray /\ i \notin DOMAIN SlaveSlots(db) ->
               Crash
          [] OTHER ->
               /\ \/ Entry(db, i) # NoPool /\ Goto(t, "use")
                  \/ Entry(db, i) \in {NoPool, Garbage} /\ Goto(t, "testArray")
               /\ UNCHANGED <<config, tables, exited, crashed>>

\* if (!slave_[db])
TestArray(t) ==
  /\ At(t, "testArray")
  /\ Goto(t, IF slave[call[t].db] = NoArray THEN "malloc" ELSE "newSlave")
  /\ UNCHANGED <<config, tables, exited, crashed>>

\* slave_[db] = malloc(...): the array is visible before it is cleared.
MallocArray(t) ==
  /\ At(t, "malloc")
  /\ \E r \in FreshArray :
       /\ array' = [array EXCEPT ![r] =
                     [state |-> "live", slot |-> [i \in 1 .. SlaveCnt |-> Garbage]]]
       /\ slave' = [slave EXCEPT ![call[t].db] = r]
  /\ Goto(t, "memset")
  /\ UNCHANGED <<config, master, pool, exited, crashed>>

\* memset(slave_[db], 0, ...)
BugClearArray(t) ==
  /\ At(t, "memset")
  /\ Goto(t, "newSlave")
  /\ UNCHANGED <<config, tables, exited, crashed>>
ClearArray(t) ==
  /\ At(t, "memset")
  /\ array' = [array EXCEPT ![slave[call[t].db]].slot = [i \in DOMAIN @ |-> NoPool]]
  /\ Goto(t, "newSlave")
  /\ UNCHANGED <<config, master, slave, pool, exited, crashed>>

\* slave_[db][slave_slot] = new RedisConnectionPool(...), for the address of the
\* slot.
BugSlotAddr(i) == slaveAddr[1]
SlotAddr(i) == slaveAddr[i]
NewSlave(t) ==
  /\ At(t, "newSlave")
  /\ \E p \in FreshPool :
       /\ pool' = [pool EXCEPT ![p] =
                    NewPool("SLAVE", call[t].db, SlotAddr(call[t].slot))]
       /\ array' = [array EXCEPT ![slave[call[t].db]].slot[call[t].slot] = p]
  /\ Goto(t, "use")
  /\ UNCHANGED <<config, master, slave, exited, crashed>>

\* The entry of the table is read again, and Get called on it.
UsePool(t) ==
  /\ At(t, "use")
  /\ LET p == IF call[t].role = "MASTER" THEN master[call[t].db]
              ELSE Entry(call[t].db, call[t].slot)
     IN IF ~Alive(p) THEN Crash
        ELSE /\ \E r \in PoolGet(pool[p]) : pool' = [pool EXCEPT ![p] = r]
             /\ call' = [call EXCEPT ![t] = Idle]
             /\ UNCHANGED <<config, master, slave, array, exited, crashed>>

\* A handle gives a connection back to the pool it remembers.
Put(p) ==
  /\ ~crashed /\ pool[p].lent > 0
  /\ IF ~Alive(p) THEN Crash
     ELSE /\ \E r \in PoolPut(pool[p]) : pool' = [pool EXCEPT ![p] = r]
          /\ UNCHANGED <<config, master, slave, array, call, exited, crashed>>

Step(t) ==
  \/ \E u \in Uses[t] : Get(t, u[1], u[2])
  \/ TestMaster(t) \/ NewMaster(t)
  \/ TestSlave(t) \/ TestArray(t) \/ MallocArray(t) \/ ClearArray(t) \/ NewSlave(t)
  \/ UsePool(t)

Next ==
  \/ BadHost
  \/ \E a \in Addr : Init(a)
  \/ \E a \in Addr, list \in SlaveLists : InitEx(a, list)
  \/ Flush
  \/ Destroy
  \/ \E t \in Thread : Step(t)
  \/ \E p \in Pool : Put(p)

Spec == Start /\ [][Next]_vars
-----------------------------------------------------------------------------
PoolRecord ==
  [state : {"none", "alive", "deleted"}, role : Role, db : DB,
   addr : Addr \cup {NoAddr}, lent : 0 .. ConnLimit, idle : 0 .. ConnLimit]

TypeOK ==
  /\ initResult \in {"none", "bad host", "unreachable", "ok"}
  /\ masterAddr \in Addr \cup {NoAddr} /\ slaveAddr \in Seq(Addr)
  /\ master \in [DB -> Pool \cup {NoPool}]
  /\ slave \in [DB -> Array \cup {NoArray}]
  /\ DOMAIN array = Array
  /\ \A a \in Array : /\ array[a].state \in {"none", "live", "freed"}
                      /\ array[a].slot \in Seq(Pool \cup {NoPool, Garbage})
  /\ pool \in [Pool -> PoolRecord]
  /\ call \in [Thread -> [at : {"ready", "master", "newMaster", "slave", "testArray",
                                "malloc", "memset", "newSlave", "use"},
                          role : Role, db : DB, slot : Nat]]
  /\ exited \in BOOLEAN /\ crashed \in BOOLEAN

\* No null, uninitialised or freed pool or array is ever used, by Get, by the
\* return of a connection, by Flush or by the destructor, and none is freed twice.
MemorySafe == ~crashed

\* The same as long as no Flush but the destructor's has deleted a pool: only the
\* pointers Flush leaves behind are ever used in vain.
SafeUntilFlush == crashed => \E p \in Pool : pool[p].state = "deleted"

\* The places the tables keep a pool in.
Places(p) ==
  {<<"MASTER", d, 0>> : d \in {e \in DB : master[e] = p}} \cup
  UNION {{<<"SLAVE", d, i>> : i \in {j \in DOMAIN SlaveSlots(d) : SlaveSlots(d)[j] = p}} :
           d \in DB}

\* A pool is created once for each role, database and slave: as long as it lives
\* exactly one entry of the tables leads to it, so its connections are counted
\* and it is deleted at the end.
NoPoolLost ==
  ~crashed => \A p \in Pool : Alive(p) => Cardinality(Places(p)) = 1

\* ConnectionInUse tells how many connections of a role the application holds
\* (test.cc:34-47), as long as Flush has left no dangling pointer to count by.
InUseExact ==
  Quiet /\ ~Dangling => \A role \in Role :
    ConnectionInUse(role) =
      MapThenSumSet(LAMBDA p : pool[p].lent,
                    {p \in Pool : Alive(p) /\ pool[p].role = role})

\* A pool found in a table connects to the server, and selects the database, of
\* its place there: a Get for a slave never reaches another one or the master.
RightServer ==
  ~crashed => \A p \in Pool : Alive(p) =>
    \A place \in Places(p) :
      /\ pool[p].role = place[1] /\ pool[p].db = place[2]
      /\ pool[p].addr = IF place[1] = "MASTER" THEN masterAddr ELSE slaveAddr[place[3]]

\* The destructor leaves nothing allocated (README_cn.md:13).
NothingLeaked ==
  exited => /\ \A p \in Pool : pool[p].state # "alive"
            /\ \A a \in Array : array[a].state # "live"
=============================================================================
