-------------------------- MODULE RedisManagerProofs --------------------------
(***************************************************************************)
(* Theorems about RedisManager, for any number of threads, databases,      *)
(* addresses, pools and arrays.                                            *)
(*                                                                         *)
(* Two invariants are inductive.  Base holds whatever the threads ask for, *)
(* and gives RightServer.  Own holds as well when no two threads ask for   *)
(* the same database: then what a thread read of its entries is still true *)
(* when it acts on it, and no pool and no array is lost.  NoPoolLost,      *)
(* NothingLeaked, SafeUntilFlush and InUseExact follow from the two.       *)
(*                                                                         *)
(* An invalid access changes nothing but crashed, which neither mentions.  *)
(***************************************************************************)
EXTENDS RedisManager, Induction

Entries == Pool \cup {NoPool, Garbage}

ArrayRecord == [state : {"none", "live", "freed"}, slot : Seq(Entries)]

CallRecord ==
  [at : {"ready", "master", "newMaster", "slave", "testArray",
         "malloc", "memset", "newSlave", "use"},
   role : Role, db : DB, slot : Nat]

Working == {"ok", "unreachable"}

(***************************************************************************)
(* Base.                                                                   *)
(***************************************************************************)
ConfigTyped ==
  /\ initResult \in {"none", "bad host"} \cup Working
  /\ masterAddr \in Addr \cup {NoAddr} /\ slaveAddr \in Seq(Addr)

TablesTyped ==
  /\ master \in [DB -> Pool \cup {NoPool}]
  /\ slave \in [DB -> Array \cup {NoArray}]
  /\ array \in [Array -> ArrayRecord]
  /\ pool \in [Pool -> PoolRecord]
  /\ \A p \in Pool : pool[p].lent + pool[p].idle <= ConnLimit

\* What the tables and the arrays name was allocated.
Allocated ==
  /\ \A d \in DB : master[d] \in Pool => pool[master[d]].state # "none"
  /\ \A d \in DB : slave[d] \in Array => array[slave[d]].state # "none"
  /\ \A a \in Array : \A i \in DOMAIN array[a].slot :
       array[a].slot[i] \in Pool => pool[array[a].slot[i]].state # "none"

\* No array is in two tables and no pool in two entries.
Separate ==
  /\ \A d, e \in DB : slave[d] = slave[e] /\ slave[d] # NoArray => d = e
  /\ \A a, b \in Array : \A i \in DOMAIN array[a].slot, j \in DOMAIN array[b].slot :
       array[a].slot[i] = array[b].slot[j] /\ array[a].slot[i] \in Pool =>
         a = b /\ i = j

\* An array in use has an entry for each slave.
Wide == \A d \in DB : LiveArray(slave[d]) => Len(array[slave[d]].slot) = SlaveCnt

\* A pool in a table is for its place there.
MasterRight(d) ==
  Alive(master[d]) =>
    /\ pool[master[d]].role = "MASTER" /\ pool[master[d]].db = d
    /\ pool[master[d]].addr = masterAddr
SlaveRight(d) ==
  LiveArray(slave[d]) => \A i \in DOMAIN array[slave[d]].slot :
    LET p == array[slave[d]].slot[i]
    IN Alive(p) => /\ pool[p].role = "SLAVE" /\ pool[p].db = d
                   /\ pool[p].addr = slaveAddr[i]
Right == \A d \in DB : MasterRight(d) /\ SlaveRight(d)

\* Before Init, and after Flush, the tables hold nothing that could be used.
Nothing == \A d \in DB : ~Alive(master[d]) /\ ~LiveArray(slave[d])

\* A thread within Get: nobody flushes, and what it has found stays there.
InGet(k) ==
  /\ k.at = "ready" => k = Idle
  /\ k.at # "ready" => initResult \in Working
  /\ k.at \in {"master", "newMaster"} => k.role = "MASTER"
  /\ k.at \in {"slave", "testArray", "malloc", "memset", "newSlave"} => k.role = "SLAVE"
  /\ k.role = "SLAVE" => k.slot \in 1 .. SlaveCnt
  /\ k.at \in {"testArray", "malloc"} => slave[k.db] = NoArray \/ LiveArray(slave[k.db])
  /\ k.at \in {"memset", "newSlave"} \/ (k.at = "use" /\ k.role = "SLAVE") =>
       LiveArray(slave[k.db])
  /\ k.at = "use" /\ k.role = "MASTER" => master[k.db] \in Pool

Base ==
  /\ ConfigTyped /\ TablesTyped /\ call \in [Thread -> CallRecord]
  /\ exited \in BOOLEAN /\ (exited => initResult = "none")
  /\ Allocated /\ Separate /\ Wide /\ Right
  /\ initResult \notin Working => Nothing
  /\ \A t \in Thread : InGet(call[t])

(***************************************************************************)
(* Own.                                                                    *)
(***************************************************************************)
\* No two threads ask for the same database.
Disjoint ==
  \A t, u \in Thread : \A x \in Uses[t], y \in Uses[u] : x[2] = y[2] => t = u

\* The slave lists of the application can be used.
Usable == \A list \in SlaveLists : list # <<>> /\ Len(list) < MaxSlaveCnt

InTables(p) ==
  \/ \E d \in DB : master[d] = p
  \/ \E d \in DB : LiveArray(slave[d]) /\ \E i \in DOMAIN array[slave[d]].slot :
       array[slave[d]].slot[i] = p

\* Every pool and array that was not deleted is in a table.
Kept ==
  /\ \A p \in Pool : Alive(p) => InTables(p)
  /\ \A a \in Array : LiveArray(a) => \E d \in DB : slave[d] = a

\* A thread within Get works on a database of its own and finds what it expects.
InOwnGet(t) ==
  LET k == call[t]
  IN /\ k.at # "ready" => \E x \in Uses[t] : x[2] = k.db
     /\ k.at = "newMaster" => master[k.db] = NoPool
     /\ k.at = "testArray" /\ slave[k.db] # NoArray =>
          array[slave[k.db]].slot[k.slot] = NoPool
     /\ k.at = "malloc" => slave[k.db] = NoArray
     /\ k.at = "memset" => \A i \in DOMAIN array[slave[k.db]].slot :
                              array[slave[k.db]].slot[i] = Garbage
     /\ k.at = "newSlave" => array[slave[k.db]].slot[k.slot] = NoPool
     /\ k.at = "use" /\ k.role = "SLAVE" => array[slave[k.db]].slot[k.slot] \in Pool

\* An entry never written is the business of the thread about to clear the array.
Cleared ==
  \A d \in DB : LiveArray(slave[d]) => \A i \in DOMAIN array[slave[d]].slot :
    array[slave[d]].slot[i] = Garbage =>
      \E t \in Thread : call[t].at = "memset" /\ call[t].db = d

Deleted == \E p \in Pool : pool[p].state = "deleted"

\* As long as nothing was deleted the tables are as after Init, or empty.
Founded ==
  /\ initResult \in Working => Alive(master[DefaultDB])
  /\ initResult \notin Working =>
       Deleted \/ \A d \in DB : master[d] = NoPool /\ slave[d] = NoArray
  /\ \A a \in Array : array[a].state = "freed" => Deleted
  /\ \A p \in Pool : pool[p].state = "none" => pool[p].lent = 0

Own ==
  /\ Kept /\ Cleared /\ Founded
  /\ \A t \in Thread : InOwnGet(t)
-----------------------------------------------------------------------------
(***************************************************************************)
(* Base is inductive.                                                      *)
(***************************************************************************)
\* A new pool is typed, and of the role, database and address it is made for.
LEMMA NewPoolFacts ==
  ASSUME NEW role \in Role, NEW db \in DB, NEW addr \in Addr \cup {NoAddr}
  PROVE  /\ NewPool(role, db, addr) \in PoolRecord
         /\ NewPool(role, db, addr).lent + NewPool(role, db, addr).idle <= ConnLimit
         /\ NewPool(role, db, addr).state = "alive"
         /\ NewPool(role, db, addr).role = role
         /\ NewPool(role, db, addr).db = db
         /\ NewPool(role, db, addr).addr = addr
         /\ NewPool(role, db, addr).lent = 0
BY UseAssumption DEF NewPool, PoolRecord

\* So is one whose first connection has been asked for, had or not.
LEMMA ProbedPoolFacts ==
  ASSUME NEW role \in Role, NEW db \in DB, NEW addr \in Addr \cup {NoAddr}, NEW reached
  PROVE  LET p == Probe(NewPool(role, db, addr), reached)
         IN /\ p \in PoolRecord /\ p.lent + p.idle <= ConnLimit
            /\ p.state = "alive" /\ p.role = role /\ p.db = db /\ p.addr = addr
            /\ p.lent = 0
BY UseAssumption DEF Probe, NewPool, PoolRecord

\* A step of Get that only reads the tables.
LEMMA ReadKeepsBase ==
  ASSUME Base, UNCHANGED <<config, tables, exited>>,
         call' \in [Thread -> CallRecord],
         \A t \in Thread : InGet(call'[t])
  PROVE  Base'
<1>1. UNCHANGED <<initResult, masterAddr, slaveAddr, master, slave, array, pool, exited>>
  BY DEF config, tables
<1>2. ASSUME NEW t \in Thread PROVE InGet(call[t])'
  <2>1. InGet(call'[t])
    OBVIOUS
  <2> QED
    BY <1>1, <2>1 DEF InGet, LiveArray, SlaveCnt, Idle
<1>3. ConfigTyped' /\ TablesTyped'
  BY <1>1 DEF Base, ConfigTyped, TablesTyped
<1>4. Allocated' /\ Separate' /\ Wide'
  BY <1>1 DEF Base, Allocated, Separate, Wide, LiveArray, SlaveCnt
<1>5. Right' /\ (initResult \notin Working => Nothing)'
  BY <1>1 DEF Base, Right, MasterRight, SlaveRight, Nothing, LiveArray, Alive
<1> QED
  BY <1>1, <1>2, <1>3, <1>4, <1>5 DEF Base

\* A step that only changes the counters of a pool that is alive.
LEMMA CountKeepsBase ==
  ASSUME Base, NEW p \in Pool, Alive(p),
         NEW r \in PoolRecord, r.lent + r.idle <= ConnLimit,
         r.state = pool[p].state, r.role = pool[p].role, r.db = pool[p].db,
         r.addr = pool[p].addr,
         pool' = [pool EXCEPT ![p] = r],
         UNCHANGED <<config, master, slave, array, exited>>,
         call' \in [Thread -> CallRecord],
         \A t \in Thread : call'[t] \in {call[t], Idle}
  PROVE  Base'
<1> USE DEF Base
<1>1. UNCHANGED <<initResult, masterAddr, slaveAddr, master, slave, array, exited>>
  BY DEF config
<1>2. /\ pool' \in [Pool -> PoolRecord]
      /\ \A q \in Pool : pool'[q].lent + pool'[q].idle <= ConnLimit
      /\ \A q \in Pool : /\ pool'[q].state = pool[q].state
                         /\ pool'[q].role = pool[q].role
                         /\ pool'[q].db = pool[q].db
                         /\ pool'[q].addr = pool[q].addr
  BY DEF TablesTyped
<1> HIDE DEF Base
<1>3. ConfigTyped' /\ TablesTyped'
  BY <1>1, <1>2 DEF Base, ConfigTyped, TablesTyped
<1>4. \A q : Alive(q)' <=> Alive(q)
  BY <1>2 DEF Alive
<1>5. Allocated' /\ Separate' /\ Wide'
  BY <1>1, <1>2 DEF Base, Allocated, Separate, Wide, LiveArray, SlaveCnt, TablesTyped
<1>6. Right'
  <2>1. \A d \in DB : MasterRight(d)'
    BY <1>1, <1>2, <1>4 DEF Base, Right, MasterRight, Alive
  <2>2. \A d \in DB : SlaveRight(d)'
    BY <1>1, <1>2, <1>4 DEF Base, Right, SlaveRight, Alive, LiveArray
  <2> QED
    BY <2>1, <2>2 DEF Right
<1>7. (initResult \notin Working => Nothing)'
  BY <1>1, <1>4 DEF Base, Nothing, LiveArray
<1>8. \A t \in Thread : InGet(call[t])'
  BY <1>1 DEF Base, InGet, LiveArray, SlaveCnt, Idle, Working
<1> QED
  BY <1>1, <1>3, <1>5, <1>6, <1>7, <1>8 DEF Base

\* An invalid access changes nothing that Base speaks of.
LEMMA CrashKeepsBase ==
  ASSUME Base, Crash PROVE Base'
<1>1. UNCHANGED <<config, tables, exited>> /\ call' = call
  BY DEF Crash
<1> QED
  BY <1>1, ReadKeepsBase DEF Base

\* Where Get goes next: Goto changes one field of one call.
LEMMA GotoFacts ==
  ASSUME Base, NEW t \in Thread, NEW where, Goto(t, where),
         where \in {"master", "newMaster", "slave", "testArray",
                    "malloc", "memset", "newSlave", "use"}
  PROVE  /\ call' \in [Thread -> CallRecord]
         /\ \A u \in Thread : u # t => call'[u] = call[u]
         /\ call'[t].at = where /\ call'[t].role = call[t].role
         /\ call'[t].db = call[t].db /\ call'[t].slot = call[t].slot
BY DEF Base, Goto, CallRecord

LEMMA GetKeepsBase ==
  ASSUME Base, NEW t \in Thread, NEW u \in Uses[t], Get(t, u[1], u[2])
  PROVE  Base'
<1>1. u[1] \in Role /\ u[2] \in DB
  BY UseAssumption
<1>2. UNCHANGED <<config, tables, exited>> /\ initResult \in Working
  BY DEF Get, Working
<1>3. CASE call' = [call EXCEPT ![t] = [Idle EXCEPT !.at = "master", !.db = u[2]]]
  <2> DEFINE k == [Idle EXCEPT !.at = "master", !.db = u[2]]
  <2>1. k \in CallRecord /\ InGet(k)
    BY <1>1, <1>2 DEF Idle, CallRecord, Role, InGet
  <2> HIDE DEF k
  <2> QED
    BY <1>2, <1>3, <2>1, ReadKeepsBase DEF Base, k
<1>4. ASSUME NEW i \in 1 .. SlaveCnt,
             call' = [call EXCEPT ![t] =
                       [at |-> "slave", role |-> "SLAVE", db |-> u[2], slot |-> i]]
      PROVE  Base'
  <2> DEFINE k == [at |-> "slave", role |-> "SLAVE", db |-> u[2], slot |-> i]
  <2>0. i \in Nat
    <3>1. slaveAddr \in Seq(Addr)
      BY DEF Base, ConfigTyped
    <3>2. Len(slaveAddr) \in Nat
      BY <3>1
    <3> QED
      BY <3>2 DEF SlaveCnt
  <2>1. k \in CallRecord /\ InGet(k)
    BY <1>1, <1>2, <2>0 DEF Idle, CallRecord, Role, InGet
  <2> HIDE DEF k
  <2> QED
    BY <1>2, <1>4, <2>1, ReadKeepsBase DEF Base, k
<1> QED
  BY <1>3, <1>4 DEF Get

LEMMA TestsKeepBase ==
  ASSUME Base, NEW t \in Thread, TestMaster(t) \/ TestSlave(t) \/ TestArray(t)
  PROVE  Base'
<1> DEFINE k == call[t]
<1>1. k \in CallRecord /\ InGet(k)
  BY DEF Base
<1>2. ASSUME NEW where \in {"newMaster", "use", "testArray", "malloc", "newSlave"},
             Goto(t, where), UNCHANGED <<config, tables, exited>>,
             InGet([k EXCEPT !.at = where])
      PROVE  Base'
  <2>1. call' \in [Thread -> CallRecord]
    BY <1>2, GotoFacts
  <2>2. call' = [call EXCEPT ![t] = [k EXCEPT !.at = where]]
    BY <1>2 DEF Goto
  <2> QED
    BY <1>2, <2>1, <2>2, ReadKeepsBase DEF Base
<1>3. CASE TestMaster(t)
  <2> DEFINE where == IF master[k.db] # NoPool THEN "use" ELSE "newMaster"
  <2>1. k.at = "master" /\ Goto(t, where) /\ UNCHANGED <<config, tables, exited>>
    BY <1>3 DEF TestMaster, At
  <2>2. master[k.db] \in Pool \cup {NoPool}
    BY <1>1 DEF Base, TablesTyped, CallRecord
  <2>3. InGet([k EXCEPT !.at = where])
    BY <1>1, <2>1, <2>2 DEF InGet, CallRecord
  <2> QED
    BY <1>2, <2>1, <2>3
<1>4. CASE TestSlave(t) /\ ~Crash
  <2>1. k.at = "slave"
    BY <1>4 DEF TestSlave, At
  <2>2. CASE slave[k.db] = NoArray
    <3>1. Goto(t, "testArray") /\ UNCHANGED <<config, tables, exited>>
      BY <1>4, <2>2 DEF TestSlave
    <3>2. InGet([k EXCEPT !.at = "testArray"])
      BY <1>1, <2>1, <2>2 DEF InGet, CallRecord
    <3> QED
      BY <1>2, <3>1, <3>2
  <2>3. CASE slave[k.db] # NoArray /\ k.slot \in DOMAIN SlaveSlots(k.db)
    <3>1. PICK where \in {"use", "testArray"} :
            Goto(t, where) /\ UNCHANGED <<config, tables, exited>>
      BY <1>4, <2>3 DEF TestSlave
    <3>2. LiveArray(slave[k.db])
      BY <2>3 DEF SlaveSlots
    <3>3. InGet([k EXCEPT !.at = where])
      BY <1>1, <2>1, <3>2 DEF InGet, CallRecord
    <3> QED
      BY <1>2, <3>1, <3>3
  <2> QED
    BY <1>4, <2>2, <2>3 DEF TestSlave
<1>5. CASE TestArray(t)
  <2> DEFINE where == IF slave[k.db] = NoArray THEN "malloc" ELSE "newSlave"
  <2>1. k.at = "testArray" /\ Goto(t, where) /\ UNCHANGED <<config, tables, exited>>
    BY <1>5 DEF TestArray, At
  <2>2. InGet([k EXCEPT !.at = where])
    BY <1>1, <2>1 DEF InGet, CallRecord
  <2> QED
    BY <1>2, <2>1, <2>2
<1> QED
  BY <1>3, <1>4, <1>5, CrashKeepsBase

\* What the calls of a pool do to its counters.
LEMMA PoolCallFacts ==
  ASSUME NEW r \in PoolRecord, r.lent + r.idle <= ConnLimit,
         NEW q \in PoolGet(r) \cup (IF r.lent > 0 THEN PoolPut(r) ELSE {})
  PROVE  /\ q \in PoolRecord /\ q.lent + q.idle <= ConnLimit
         /\ q.state = r.state /\ q.role = r.role /\ q.db = r.db /\ q.addr = r.addr
<1>0. /\ ConnLimit \in Nat
      /\ r.lent \in Nat /\ r.idle \in Nat /\ r.lent + r.idle <= ConnLimit
  BY UseAssumption DEF PoolRecord
<1>1. ASSUME NEW l \in Nat, NEW i \in Nat, l + i <= ConnLimit,
             q = [r EXCEPT !.idle = i, !.lent = l]
      PROVE  /\ q \in PoolRecord /\ q.lent + q.idle <= ConnLimit
             /\ q.state = r.state /\ q.role = r.role /\ q.db = r.db /\ q.addr = r.addr
  <2>1. l \in 0 .. ConnLimit /\ i \in 0 .. ConnLimit
    BY <1>0, <1>1
  <2> QED
    BY <1>1, <2>1 DEF PoolRecord
<1>2. CASE q = r
  BY <1>2
<1>3. ASSUME NEW i \in 0 .. r.idle - 1, q = [r EXCEPT !.idle = i, !.lent = @ + 1]
      PROVE  q = [r EXCEPT !.idle = i, !.lent = r.lent + 1]
             /\ i \in Nat /\ r.lent + 1 \in Nat /\ r.lent + 1 + i <= ConnLimit
  BY <1>0, <1>3 DEF PoolRecord
<1>4. CASE ~(r.lent + r.idle >= ConnLimit) /\
           q \in {[r EXCEPT !.idle = 0], [r EXCEPT !.idle = 0, !.lent = @ + 1]}
  <2>1. \E l \in {r.lent, r.lent + 1} : q = [r EXCEPT !.idle = 0, !.lent = l]
    BY <1>4 DEF PoolRecord
  <2>2. 0 \in Nat /\ r.lent + 1 \in Nat /\ r.lent + 1 + 0 <= ConnLimit /\ r.lent + 0 <= ConnLimit
    BY <1>0, <1>4
  <2> QED
    BY <1>0, <1>1, <2>1, <2>2
<1>5. CASE r.lent > 0 /\
           q \in {[r EXCEPT !.lent = @ - 1, !.idle = @ + 1], [r EXCEPT !.lent = @ - 1]}
  <2>1. \E i \in {r.idle, r.idle + 1} : q = [r EXCEPT !.idle = i, !.lent = r.lent - 1]
    BY <1>5 DEF PoolRecord
  <2>2. r.lent - 1 \in Nat /\ r.idle + 1 \in Nat
        /\ r.lent - 1 + (r.idle + 1) <= ConnLimit /\ r.lent - 1 + r.idle <= ConnLimit
    BY <1>0, <1>5
  <2> QED
    BY <1>0, <1>1, <2>1, <2>2
<1>6. CASE q \in PoolGet(r)
  BY <1>0, <1>1, <1>2, <1>3, <1>4, <1>6 DEF PoolGet
<1> QED
  BY <1>5, <1>6 DEF PoolPut

LEMMA UsePoolKeepsBase ==
  ASSUME Base, NEW t \in Thread, UsePool(t)
  PROVE  Base'
<1> DEFINE p == IF call[t].role = "MASTER" THEN master[call[t].db]
                ELSE Entry(call[t].db, call[t].slot)
<1>1. CASE ~Alive(p)
  BY <1>1, CrashKeepsBase DEF UsePool
<1>2. CASE Alive(p)
  <2>1. PICK r \in PoolGet(pool[p]) : pool' = [pool EXCEPT ![p] = r]
    BY <1>2 DEF UsePool
  <2>2. /\ call' = [call EXCEPT ![t] = Idle]
        /\ UNCHANGED <<config, master, slave, array, exited>>
    BY <1>2 DEF UsePool
  <2> HIDE DEF p
  <2>3. p \in Pool /\ pool[p] \in PoolRecord /\ pool[p].lent + pool[p].idle <= ConnLimit
    BY <1>2 DEF Base, TablesTyped, Alive
  <2>4. /\ r \in PoolRecord /\ r.lent + r.idle <= ConnLimit
        /\ r.state = pool[p].state /\ r.role = pool[p].role
        /\ r.db = pool[p].db /\ r.addr = pool[p].addr
    BY <2>3, PoolCallFacts
  <2>5. call' \in [Thread -> CallRecord] /\ \A u \in Thread : call'[u] \in {call[u], Idle}
    BY <2>2, DBAssumption DEF Base, Idle, CallRecord, Role
  <2> QED
    BY <1>2, <2>1, <2>2, <2>3, <2>4, <2>5, CountKeepsBase
<1> QED
  BY <1>1, <1>2

LEMMA PutKeepsBase ==
  ASSUME Base, NEW p \in Pool, Put(p)
  PROVE  Base'
<1>1. CASE ~Alive(p)
  BY <1>1, CrashKeepsBase DEF Put
<1>2. CASE Alive(p)
  <2>1. PICK r \in PoolPut(pool[p]) : pool' = [pool EXCEPT ![p] = r]
    BY <1>2 DEF Put
  <2>2. UNCHANGED <<config, master, slave, array, call, exited>> /\ pool[p].lent > 0
    BY <1>2 DEF Put
  <2>3. pool[p] \in PoolRecord /\ pool[p].lent + pool[p].idle <= ConnLimit
    BY DEF Base, TablesTyped
  <2>4. /\ r \in PoolRecord /\ r.lent + r.idle <= ConnLimit
        /\ r.state = pool[p].state /\ r.role = pool[p].role
        /\ r.db = pool[p].db /\ r.addr = pool[p].addr
    BY <2>2, <2>3, PoolCallFacts
  <2> QED
    BY <1>2, <2>1, <2>2, <2>4, CountKeepsBase DEF Base
<1> QED
  BY <1>1, <1>2

\* A pool or array never allocated is in no table.
LEMMA FreshFacts ==
  ASSUME Base
  PROVE  /\ \A p \in FreshPool :
              /\ p \in Pool /\ p # NoPool /\ p # Garbage /\ ~Alive(p)
              /\ \A d \in DB : master[d] # p
              /\ \A a \in Array : \A i \in DOMAIN array[a].slot : array[a].slot[i] # p
         /\ \A r \in FreshArray :
              /\ r \in Array /\ r # NoArray /\ ~LiveArray(r)
              /\ \A d \in DB : slave[d] # r
BY NullAssumption DEF Base, Allocated, FreshPool, FreshArray, Alive, LiveArray

\* A pool is created and its pointer stored in the table of the master.
LEMMA NewMasterKeepsBase ==
  ASSUME Base, NEW t \in Thread, NewMaster(t)
  PROVE  Base'
<1> DEFINE k == call[t]
           d == k.db
<1>1. k \in CallRecord /\ InGet(k) /\ k.at = "newMaster"
  BY DEF Base, NewMaster, At
<1>2. PICK p \in FreshPool :
        /\ pool' = [pool EXCEPT ![p] = NewPool("MASTER", d, masterAddr)]
        /\ master' = [master EXCEPT ![d] = p]
  BY DEF NewMaster
<1> DEFINE new == NewPool("MASTER", d, masterAddr)
<1>3. /\ UNCHANGED <<initResult, masterAddr, slaveAddr, slave, array, exited>>
      /\ Goto(t, "use")
  BY DEF NewMaster, config
<1>4. d \in DB
  BY <1>1 DEF CallRecord
<1>5. /\ new \in PoolRecord /\ new.lent + new.idle <= ConnLimit
      /\ new.state = "alive" /\ new.role = "MASTER" /\ new.db = d
      /\ new.addr = masterAddr
  <2>1. "MASTER" \in Role /\ masterAddr \in Addr \cup {NoAddr}
    BY DEF Base, ConfigTyped, Role
  <2> QED
    BY <1>4, <2>1, NewPoolFacts
<1>6. /\ p \in Pool /\ p # NoPool
      /\ \A e \in DB : master[e] # p
      /\ \A a \in Array : \A i \in DOMAIN array[a].slot : array[a].slot[i] # p
  BY FreshFacts
<1>7. pool' = [pool EXCEPT ![p] = new]
  BY <1>2
<1> HIDE DEF new, k, d
<1>8. ConfigTyped' /\ TablesTyped'
  <2>1. pool \in [Pool -> PoolRecord] /\ master \in [DB -> Pool \cup {NoPool}]
    BY DEF Base, TablesTyped
  <2>2. pool' \in [Pool -> PoolRecord]
    BY <1>5, <1>6, <1>7, <2>1
  <2>3. \A q \in Pool : pool'[q].lent + pool'[q].idle <= ConnLimit
    BY <1>5, <1>6, <1>7, <2>1 DEF Base, TablesTyped
  <2>4. master' \in [DB -> Pool \cup {NoPool}]
    BY <1>2, <1>4, <1>6, <2>1
  <2> QED
    BY <1>3, <2>2, <2>3, <2>4 DEF Base, ConfigTyped, TablesTyped
<1>9. \A q \in Pool : q # p => pool'[q] = pool[q] /\ Alive(q)' = Alive(q)
  BY <1>7 DEF Base, TablesTyped, Alive
<1>10. \A e \in DB : master'[e] = IF e = d THEN p ELSE master[e]
  BY <1>2 DEF Base, TablesTyped
<1>11. pool'[p] = new
  BY <1>6, <1>7 DEF Base, TablesTyped
<1>12. Allocated'
  BY <1>3, <1>5, <1>6, <1>9, <1>10, <1>11 DEF Base, Allocated
<1>13. Separate' /\ Wide'
  BY <1>3 DEF Base, Separate, Wide, LiveArray, SlaveCnt
<1>14. Right'
  <2>1. ASSUME NEW e \in DB PROVE MasterRight(e)'
    <3>1. CASE e = d
      BY <1>3, <1>5, <1>10, <1>11, <3>1 DEF MasterRight
    <3>2. CASE e # d
      BY <1>3, <1>6, <1>9, <1>10, <3>2 DEF Base, Right, MasterRight, Alive
    <3> QED
      BY <3>1, <3>2
  <2>2. ASSUME NEW e \in DB PROVE SlaveRight(e)'
    BY <1>3, <1>6, <1>9 DEF Base, Right, SlaveRight, Alive, LiveArray
  <2> QED
    BY <2>1, <2>2 DEF Right
<1>15. initResult \in Working
  BY <1>1 DEF InGet, k
<1>16. ASSUME NEW u \in Thread PROVE InGet(call[u])'
  <2>1. InGet(call[u])
    BY DEF Base
  <2>2. CASE u # t
    <3>1. call'[u] = call[u] /\ call[u].db \in DB
      BY <1>3, <2>2, GotoFacts DEF Base, CallRecord
    <3> QED
      BY <1>3, <1>6, <1>10, <2>1, <3>1 DEF InGet, LiveArray, SlaveCnt
  <2>3. CASE u = t
    <3>1. /\ call'[t].at = "use" /\ call'[t].role = k.role /\ call'[t].db = d
          /\ call'[t].slot = k.slot
      BY <1>3, GotoFacts DEF k, d
    <3>2. k.role = "MASTER"
      BY <1>1 DEF InGet
    <3> QED
      BY <1>3, <1>4, <1>6, <1>10, <1>15, <2>3, <3>1, <3>2 DEF InGet
  <2> QED
    BY <2>2, <2>3
<1>17. call' \in [Thread -> CallRecord]
  BY <1>3, GotoFacts
<1> QED
  BY <1>3, <1>8, <1>12, <1>13, <1>14, <1>15, <1>16, <1>17 DEF Base

\* What the steps of Get that write an array have in common: one array gets new
\* entries, null or not written yet or of its place, and everybody else's is left
\* alone.
LEMMA ArrayKeepsBase ==
  ASSUME Base, NEW t \in Thread, call[t].db \in DB,
         initResult \in Working,
         UNCHANGED <<initResult, masterAddr, slaveAddr, master, exited>>,
         NEW r \in Array,
         TablesTyped', Allocated', Separate',
         \A e \in DB : e # call[t].db => slave'[e] = slave[e],
         slave'[call[t].db] = r,
         \A a \in Array : a # r => array'[a] = array[a],
         array'[r].state = "live", Len(array'[r].slot) = SlaveCnt,
         \A e \in DB : MasterRight(e)', \A e \in DB : SlaveRight(e)',
         call' \in [Thread -> CallRecord],
         \A u \in Thread : u # t => call'[u] = call[u],
         call'[t].at \in {"memset", "newSlave", "use"},
         call'[t].role = "SLAVE", call'[t].db = call[t].db,
         call'[t].slot \in 1 .. SlaveCnt
  PROVE  Base'
<1>1. LiveArray(r)'
  BY DEF LiveArray
<1>3. \A e \in DB : slave'[e] # r => LiveArray(slave[e])' = LiveArray(slave[e])
  BY DEF LiveArray
<1>4. Wide'
  BY <1>1, <1>3 DEF Wide, Base, LiveArray, SlaveCnt
<1>5. ASSUME NEW u \in Thread PROVE InGet(call[u])'
  <2>1. InGet(call[u]) /\ call[u].db \in DB
    BY DEF Base, CallRecord
  <2>2. CASE u # t
    <3>1. call'[u] = call[u]
      BY <2>2
    <3>2. LiveArray(slave[call[u].db]) => LiveArray(slave[call[u].db])'
      BY <1>1, <1>3, <2>1, <3>1
    <3>3. slave[call[u].db] = NoArray =>
            slave'[call[u].db] = NoArray \/ LiveArray(slave[call[u].db])'
      BY <1>1, <2>1, <3>1
    <3> QED
      BY <2>1, <3>1, <3>2, <3>3 DEF InGet, SlaveCnt
  <2>3. CASE u = t
    BY <1>1, <2>3 DEF InGet, SlaveCnt
  <2> QED
    BY <2>2, <2>3
<1> QED
  BY <1>4, <1>5 DEF Base, ConfigTyped, Right

\* The entries of an array, all the same.
LEMMA ConstantSeq ==
  ASSUME NEW n \in Nat, NEW e \in Entries
  PROVE  LET s == [i \in 1 .. n |-> e]
         IN s \in Seq(Entries) /\ Len(s) = n /\ DOMAIN s = 1 .. n
OBVIOUS

LEMMA MallocKeepsBase ==
  ASSUME Base, NEW t \in Thread, MallocArray(t)
  PROVE  Base'
<1> DEFINE k == call[t]
           d == k.db
           new == [state |-> "live", slot |-> [i \in 1 .. SlaveCnt |-> Garbage]]
<1>1. k \in CallRecord /\ InGet(k) /\ k.at = "malloc"
  BY DEF Base, MallocArray, At
<1>2. PICK r \in FreshArray : array' = [array EXCEPT ![r] = new]
                              /\ slave' = [slave EXCEPT ![d] = r]
  BY DEF MallocArray
<1>3. /\ UNCHANGED <<initResult, masterAddr, slaveAddr, master, pool, exited>>
      /\ Goto(t, "memset")
  BY DEF MallocArray, config
<1>4. d \in DB /\ k.role = "SLAVE" /\ k.slot \in 1 .. SlaveCnt /\ initResult \in Working
  BY <1>1 DEF CallRecord, InGet
<1>5. SlaveCnt \in Nat
  <2>1. slaveAddr \in Seq(Addr)
    BY DEF Base, ConfigTyped
  <2> QED
    BY <2>1 DEF SlaveCnt
<1>6. /\ new \in ArrayRecord /\ new.state = "live" /\ Len(new.slot) = SlaveCnt
      /\ \A i \in DOMAIN new.slot : new.slot[i] = Garbage
  <2>1. /\ new.slot \in Seq(Entries) /\ Len(new.slot) = SlaveCnt
        /\ DOMAIN new.slot = 1 .. SlaveCnt
    BY <1>5, ConstantSeq DEF Entries
  <2> QED
    BY <2>1 DEF ArrayRecord
<1>7. /\ r \in Array /\ r # NoArray /\ ~LiveArray(r)
      /\ \A e \in DB : slave[e] # r
  BY FreshFacts
<1> HIDE DEF new, d, k
<1>8. /\ array' \in [Array -> ArrayRecord] /\ array'[r] = new
      /\ \A a \in Array : a # r => array'[a] = array[a]
  BY <1>2, <1>6, <1>7 DEF Base, TablesTyped
<1>9. /\ slave' \in [DB -> Array \cup {NoArray}]
      /\ \A e \in DB : slave'[e] = IF e = d THEN r ELSE slave[e]
  BY <1>2, <1>4, <1>7 DEF Base, TablesTyped
<1>10. TablesTyped'
  BY <1>3, <1>8, <1>9 DEF Base, TablesTyped
<1>11. Allocated'
  <2>1. \A e \in DB : slave'[e] \in Array => array'[slave'[e]].state # "none"
    BY <1>6, <1>7, <1>8, <1>9 DEF Base, Allocated
  <2>2. \A a \in Array : \A i \in DOMAIN array'[a].slot :
          array'[a].slot[i] \in Pool => pool[array'[a].slot[i]].state # "none"
    BY <1>6, <1>8, NullAssumption DEF Base, Allocated
  <2> QED
    BY <1>3, <2>1, <2>2 DEF Base, Allocated
<1>12. Separate'
  <2>1. \A e, f \in DB : slave'[e] = slave'[f] /\ slave'[e] # NoArray => e = f
    BY <1>7, <1>9 DEF Base, Separate
  <2>2. \A a, b \in Array : \A i \in DOMAIN array'[a].slot, j \in DOMAIN array'[b].slot :
          array'[a].slot[i] = array'[b].slot[j] /\ array'[a].slot[i] \in Pool =>
            a = b /\ i = j
    BY <1>6, <1>8, NullAssumption DEF Base, Separate
  <2> QED
    BY <2>1, <2>2 DEF Separate
<1>13. \A q : Alive(q)' <=> Alive(q)
  BY <1>3 DEF Alive
<1>14. \A e \in DB : MasterRight(e)'
  BY <1>3 DEF Base, Right, MasterRight, Alive
<1>15. ASSUME NEW e \in DB PROVE SlaveRight(e)'
  <2>1. CASE e = d
    BY <1>6, <1>8, <1>9, <2>1, NullAssumption DEF SlaveRight, Alive
  <2>2. CASE e # d
    BY <1>3, <1>7, <1>8, <1>9, <2>2 DEF Base, Right, SlaveRight, Alive, LiveArray
  <2> QED
    BY <2>1, <2>2
<1>16. /\ call' \in [Thread -> CallRecord]
       /\ \A u \in Thread : u # t => call'[u] = call[u]
       /\ call'[t].at = "memset" /\ call'[t].role = k.role
       /\ call'[t].db = d /\ call'[t].slot = k.slot
  BY <1>3, GotoFacts DEF k, d
<1> QED
  BY <1>3, <1>4, <1>6, <1>7, <1>8, <1>9, <1>10, <1>11, <1>12, <1>14, <1>15, <1>16,
     ArrayKeepsBase DEF d, k

LEMMA ClearKeepsBase ==
  ASSUME Base, NEW t \in Thread, ClearArray(t)
  PROVE  Base'
<1> DEFINE k == call[t]
           d == k.db
           r == slave[d]
           new == [array[r] EXCEPT !.slot = [i \in DOMAIN @ |-> NoPool]]
<1>1. k \in CallRecord /\ InGet(k) /\ k.at = "memset"
  BY DEF Base, ClearArray, At
<1>2. array' = [array EXCEPT ![r] = new]
  BY DEF ClearArray
<1>3. /\ UNCHANGED <<initResult, masterAddr, slaveAddr, master, slave, pool, exited>>
      /\ Goto(t, "newSlave")
  BY DEF ClearArray, config
<1>4. /\ d \in DB /\ k.role = "SLAVE" /\ k.slot \in 1 .. SlaveCnt
      /\ initResult \in Working /\ LiveArray(r)
  BY <1>1 DEF CallRecord, InGet
<1>5. r \in Array /\ array[r] \in ArrayRecord /\ array[r].state = "live"
      /\ Len(array[r].slot) = SlaveCnt
  BY <1>4 DEF LiveArray, Base, TablesTyped, Wide
<1>6. /\ new \in ArrayRecord /\ new.state = "live" /\ Len(new.slot) = SlaveCnt
      /\ \A i \in DOMAIN new.slot : new.slot[i] = NoPool
  <2>1. array[r].slot \in Seq(Entries) /\ Len(array[r].slot) \in Nat
        /\ DOMAIN array[r].slot = 1 .. SlaveCnt
    BY <1>5 DEF ArrayRecord
  <2>2. new.slot = [i \in 1 .. SlaveCnt |-> NoPool]
    BY <1>5, <2>1 DEF ArrayRecord
  <2>3. /\ new.slot \in Seq(Entries) /\ Len(new.slot) = SlaveCnt
        /\ DOMAIN new.slot = 1 .. SlaveCnt
    BY <1>5, <2>1, <2>2, ConstantSeq DEF Entries
  <2> QED
    BY <1>5, <2>2, <2>3 DEF ArrayRecord
<1> HIDE DEF new, k, d, r
<1>7. /\ array' \in [Array -> ArrayRecord] /\ array'[r] = new
      /\ \A a \in Array : a # r => array'[a] = array[a]
  BY <1>2, <1>5, <1>6 DEF Base, TablesTyped
<1>8. TablesTyped'
  BY <1>3, <1>7 DEF Base, TablesTyped
<1>9. Allocated'
  <2>1. \A e \in DB : slave'[e] \in Array => array'[slave'[e]].state # "none"
    BY <1>3, <1>6, <1>7 DEF Base, Allocated
  <2>2. \A a \in Array : \A i \in DOMAIN array'[a].slot :
          array'[a].slot[i] \in Pool => pool[array'[a].slot[i]].state # "none"
    BY <1>6, <1>7, NullAssumption DEF Base, Allocated
  <2> QED
    BY <1>3, <2>1, <2>2 DEF Base, Allocated
<1>10. Separate'
  <2>1. \A a, b \in Array : \A i \in DOMAIN array'[a].slot, j \in DOMAIN array'[b].slot :
          array'[a].slot[i] = array'[b].slot[j] /\ array'[a].slot[i] \in Pool =>
            a = b /\ i = j
    BY <1>6, <1>7, NullAssumption DEF Base, Separate
  <2> QED
    BY <1>3, <2>1 DEF Base, Separate
<1>11. \A e \in DB : MasterRight(e)'
  BY <1>3 DEF Base, Right, MasterRight, Alive
<1>12. ASSUME NEW e \in DB PROVE SlaveRight(e)'
  <2>1. CASE slave[e] = r
    BY <1>3, <1>6, <1>7, <2>1, NullAssumption DEF SlaveRight, Alive
  <2>2. CASE slave[e] # r
    BY <1>3, <1>7, <2>2 DEF Base, Right, SlaveRight, Alive, LiveArray
  <2> QED
    BY <2>1, <2>2
<1>13. /\ call' \in [Thread -> CallRecord]
       /\ \A u \in Thread : u # t => call'[u] = call[u]
       /\ call'[t].at = "newSlave" /\ call'[t].role = k.role
       /\ call'[t].db = d /\ call'[t].slot = k.slot
  BY <1>3, GotoFacts DEF k, d
<1>14. slave'[d] = r /\ \A e \in DB : slave'[e] = slave[e]
  BY <1>3 DEF r
<1> QED
  BY <1>3, <1>4, <1>5, <1>6, <1>7, <1>8, <1>9, <1>10, <1>11, <1>12, <1>13, <1>14,
     ArrayKeepsBase DEF d, k

LEMMA NewSlaveKeepsBase ==
  ASSUME Base, NEW t \in Thread, NewSlave(t)
  PROVE  Base'
<1> DEFINE k == call[t]
           d == k.db
           j == k.slot
           r == slave[d]
           pnew == NewPool("SLAVE", d, slaveAddr[j])
<1>1. k \in CallRecord /\ InGet(k) /\ k.at = "newSlave"
  BY DEF Base, NewSlave, At
<1>2. PICK p \in FreshPool :
        /\ pool' = [pool EXCEPT ![p] = pnew]
        /\ array' = [array EXCEPT ![r].slot[j] = p]
  BY DEF NewSlave, SlotAddr
<1> DEFINE new == [array[r] EXCEPT !.slot = [@ EXCEPT ![j] = p]]
<1>3. /\ UNCHANGED <<initResult, masterAddr, slaveAddr, master, slave, exited>>
      /\ Goto(t, "use")
  BY DEF NewSlave, config
<1>4. /\ d \in DB /\ k.role = "SLAVE" /\ j \in 1 .. SlaveCnt
      /\ initResult \in Working /\ LiveArray(r)
  BY <1>1 DEF CallRecord, InGet
<1>5. r \in Array /\ array[r] \in ArrayRecord /\ array[r].state = "live"
      /\ Len(array[r].slot) = SlaveCnt
  BY <1>4 DEF LiveArray, Base, TablesTyped, Wide
<1>6. /\ p \in Pool /\ p # NoPool /\ ~Alive(p)
      /\ \A e \in DB : master[e] # p
      /\ \A a \in Array : \A i \in DOMAIN array[a].slot : array[a].slot[i] # p
  BY FreshFacts
<1>7. /\ pnew \in PoolRecord /\ pnew.lent + pnew.idle <= ConnLimit
      /\ pnew.state = "alive" /\ pnew.role = "SLAVE" /\ pnew.db = d
      /\ pnew.addr = slaveAddr[j]
  <2>1. slaveAddr \in Seq(Addr)
    BY DEF Base, ConfigTyped
  <2>2. slaveAddr[j] \in Addr \cup {NoAddr}
    BY <1>4, <2>1 DEF SlaveCnt
  <2>3. "SLAVE" \in Role
    BY SMTT(60) DEF Role
  <2> QED
    BY <1>4, <2>2, <2>3, NewPoolFacts
<1>8. /\ new \in ArrayRecord /\ new.state = "live"
      /\ Len(new.slot) = SlaveCnt /\ DOMAIN new.slot = DOMAIN array[r].slot
      /\ j \in DOMAIN new.slot /\ new.slot[j] = p
      /\ \A i \in DOMAIN new.slot : i # j => new.slot[i] = array[r].slot[i]
  <2>1. array[r].slot \in Seq(Entries) /\ j \in 1 .. Len(array[r].slot)
        /\ p \in Entries
    BY <1>4, <1>5, <1>6 DEF ArrayRecord, Entries
  <2> DEFINE s == [array[r].slot EXCEPT ![j] = p]
  <2>2. /\ s \in Seq(Entries) /\ Len(s) = Len(array[r].slot)
        /\ DOMAIN s = DOMAIN array[r].slot /\ j \in DOMAIN s /\ s[j] = p
        /\ \A i \in DOMAIN s : i # j => s[i] = array[r].slot[i]
    BY <2>1
  <2>3. new = [array[r] EXCEPT !.slot = s]
    OBVIOUS
  <2> HIDE DEF s, new
  <2> QED
    BY <1>5, <2>2, <2>3 DEF ArrayRecord
<1>9. array' = [array EXCEPT ![r] = new]
  BY <1>2
<1> HIDE DEF new, k, d, j, r, pnew
<1>10. /\ array' \in [Array -> ArrayRecord] /\ array'[r] = new
       /\ \A a \in Array : a # r => array'[a] = array[a]
  BY <1>5, <1>8, <1>9 DEF Base, TablesTyped
<1>11. /\ pool' \in [Pool -> PoolRecord] /\ pool'[p] = pnew
       /\ \A q \in Pool : q # p => pool'[q] = pool[q] /\ Alive(q)' = Alive(q)
  BY <1>2, <1>6, <1>7 DEF Base, TablesTyped, Alive
<1>12. TablesTyped'
  BY <1>3, <1>7, <1>10, <1>11 DEF Base, TablesTyped
<1>13. Allocated'
  <2>1. \A e \in DB : slave'[e] \in Array => array'[slave'[e]].state # "none"
    BY <1>3, <1>8, <1>10 DEF Base, Allocated
  <2>2. \A q \in Pool : pool[q].state # "none" => pool'[q].state # "none"
    BY <1>7, <1>11
  <2>3. \A e \in DB : master'[e] \in Pool => pool'[master'[e]].state # "none"
    BY <1>3, <2>2 DEF Base, Allocated
  <2>4. ASSUME NEW a \in Array, NEW i \in DOMAIN array'[a].slot, array'[a].slot[i] \in Pool
        PROVE  pool'[array'[a].slot[i]].state # "none"
    <3>1. CASE a = r /\ i = j
      BY <1>7, <1>8, <1>10, <1>11, <3>1
    <3>2. CASE ~(a = r /\ i = j)
      <4>1. i \in DOMAIN array[a].slot /\ array'[a].slot[i] = array[a].slot[i]
        BY <1>8, <1>10, <2>4, <3>2
      <4> QED
        BY <2>2, <2>4, <4>1 DEF Base, Allocated
    <3> QED
      BY <3>1, <3>2
  <2> QED
    BY <2>1, <2>3, <2>4 DEF Allocated
<1>14. Separate'
  <2>1. ASSUME NEW a \in Array, NEW i \in DOMAIN array'[a].slot, ~(a = r /\ i = j)
        PROVE  i \in DOMAIN array[a].slot /\ array'[a].slot[i] = array[a].slot[i]
               /\ array'[a].slot[i] # p
    BY <1>6, <1>8, <1>10, <2>1
  <2>2. j \in DOMAIN array'[r].slot /\ array'[r].slot[j] = p
    BY <1>8, <1>10
  <2>3. ASSUME NEW a \in Array, NEW b \in Array,
               NEW i \in DOMAIN array'[a].slot, NEW m \in DOMAIN array'[b].slot,
               array'[a].slot[i] = array'[b].slot[m], array'[a].slot[i] \in Pool
        PROVE  a = b /\ i = m
    <3>1. CASE a = r /\ i = j
      BY <2>1, <2>2, <2>3, <3>1
    <3>2. CASE b = r /\ m = j
      BY <2>1, <2>2, <2>3, <3>2
    <3>3. CASE ~(a = r /\ i = j) /\ ~(b = r /\ m = j)
      <4>1. /\ i \in DOMAIN array[a].slot /\ m \in DOMAIN array[b].slot
            /\ array[a].slot[i] = array[b].slot[m] /\ array[a].slot[i] \in Pool
        BY <2>1, <2>3, <3>3
      <4> QED
        BY <4>1 DEF Base, Separate
    <3> QED
      BY <3>1, <3>2, <3>3
  <2> QED
    BY <1>3, <2>3 DEF Base, Separate
<1>15. ASSUME NEW e \in DB PROVE MasterRight(e)'
  BY <1>3, <1>6, <1>11 DEF Base, Right, MasterRight, Alive
<1>16. ASSUME NEW e \in DB PROVE SlaveRight(e)'
  <2>1. CASE slave[e] = r
    <3>1. e = d
      BY <1>4, <1>5, <2>1, NullAssumption DEF Base, Separate, r
    <3>2. ASSUME NEW i \in DOMAIN array'[r].slot,
                 NEW q, q = array'[r].slot[i], q \in Pool /\ pool'[q].state = "alive"
          PROVE  /\ pool'[q].role = "SLAVE" /\ pool'[q].db = e
                 /\ pool'[q].addr = slaveAddr[i]
      <4>1. CASE i = j
        BY <1>7, <1>8, <1>10, <1>11, <3>1, <3>2, <4>1
      <4>2. CASE i # j
        <5>1. /\ i \in DOMAIN array[r].slot /\ array'[r].slot[i] = array[r].slot[i]
              /\ array[r].slot[i] # p
          BY <1>5, <1>6, <1>8, <1>10, <3>2, <4>2
        <5>2. q = array[r].slot[i] /\ Alive(q) /\ pool'[q] = pool[q]
          BY <1>11, <3>2, <5>1 DEF Alive
        <5>3. SlaveRight(e) /\ LiveArray(slave[e])
          BY <1>4, <2>1 DEF Base, Right
        <5> QED
          BY <2>1, <5>1, <5>2, <5>3 DEF SlaveRight
      <4> QED
        BY <4>1, <4>2
    <3>3. slave'[e] = r /\ slaveAddr' = slaveAddr
      BY <1>3, <2>1
    <3> QED
      BY <3>2, <3>3, Zenon DEF SlaveRight, Alive
  <2>2. CASE slave[e] # r
    BY <1>3, <1>6, <1>10, <1>11, <2>2 DEF Base, Right, SlaveRight, Alive, LiveArray
  <2> QED
    BY <2>1, <2>2
<1>17. /\ call' \in [Thread -> CallRecord]
       /\ \A u \in Thread : u # t => call'[u] = call[u]
       /\ call'[t].at = "use" /\ call'[t].role = k.role
       /\ call'[t].db = d /\ call'[t].slot = k.slot
  BY <1>3, GotoFacts DEF k, d
<1>18. slave'[d] = r /\ \A e \in DB : slave'[e] = slave[e]
  BY <1>3 DEF r
<1>19. d = call[t].db /\ k = call[t] /\ j = call[t].slot
  BY DEF d, k, j
<1> QED
  BY <1>3, <1>4, <1>5, <1>8, <1>10, <1>12, <1>13, <1>14, <1>15, <1>16, <1>17, <1>18,
     <1>19, ArrayKeepsBase

\* No Get is in progress.
LEMMA QuietCalls ==
  ASSUME Base, Quiet, call' = call
  PROVE  /\ call' \in [Thread -> CallRecord]
         /\ \A t \in Thread : InGet(call[t])'
<1>1. \A t \in Thread : call'[t] = Idle
  BY DEF Quiet
<1> QED
  BY <1>1 DEF Base, Idle, InGet

LEMMA BadHostKeepsBase ==
  ASSUME Base, BadHost
  PROVE  Base'
<1>1. /\ UNCHANGED <<masterAddr, slaveAddr, master, slave, array, pool, call, exited>>
      /\ initResult = "none" /\ initResult' = "bad host" /\ Quiet
  BY DEF BadHost, tables
<1>2. ConfigTyped' /\ TablesTyped'
  <2>1. ConfigTyped'
    BY <1>1 DEF Base, ConfigTyped
  <2>2. TablesTyped'
    BY <1>1 DEF Base, TablesTyped
  <2> QED
    BY <2>1, <2>2
<1>3. Allocated' /\ Separate' /\ Wide'
  <2>1. Allocated' /\ Separate'
    <3>1. master' = master /\ slave' = slave /\ array' = array /\ pool' = pool
      BY <1>1
    <3>2. Allocated'
      BY <3>1 DEF Base, Allocated
    <3>3. Separate'
      BY <3>1 DEF Base, Separate
    <3> QED
      BY <3>2, <3>3
  <2>2. Wide'
    BY <1>1 DEF Base, Wide, LiveArray, SlaveCnt
  <2> QED
    BY <2>1, <2>2
<1>4. Right' /\ Nothing'
  BY <1>1, ZenonT(60) DEF Base, Right, MasterRight, SlaveRight, Nothing, LiveArray, Alive, Working
<1>5. exited = FALSE
  BY <1>1 DEF Base, Quiet
<1> QED
  BY <1>1, <1>2, <1>3, <1>4, <1>5, QuietCalls DEF Base

LEMMA InitKeepsBase ==
  ASSUME Base, NEW a \in Addr, Init(a)
  PROVE  Base'
<1>1. PICK p \in FreshPool, reached \in BOOLEAN :
        /\ master' = [master EXCEPT ![DefaultDB] = p]
        /\ pool' = [pool EXCEPT ![p] = Probe(NewPool("MASTER", DefaultDB, a), reached)]
        /\ initResult' = IF reached THEN "ok" ELSE "unreachable"
  BY DEF Init
<1> DEFINE new == Probe(NewPool("MASTER", DefaultDB, a), reached)
<1>2. /\ masterAddr' = a /\ initResult = "none" /\ Quiet
      /\ UNCHANGED <<slaveAddr, slave, array, call, exited>>
  BY DEF Init
<1>3. /\ new \in PoolRecord /\ new.lent + new.idle <= ConnLimit
      /\ new.state = "alive" /\ new.role = "MASTER" /\ new.db = DefaultDB
      /\ new.addr = a
  <2>1. "MASTER" \in Role /\ a \in Addr \cup {NoAddr}
    BY DEF Role
  <2> QED
    BY <2>1, DBAssumption, ProbedPoolFacts
<1>4. /\ p \in Pool /\ p # NoPool /\ ~Alive(p)
      /\ \A e \in DB : master[e] # p
      /\ \A b \in Array : \A i \in DOMAIN array[b].slot : array[b].slot[i] # p
  BY FreshFacts
<1>5. pool' = [pool EXCEPT ![p] = new]
  BY <1>1
<1> HIDE DEF new
<1>6. /\ pool' \in [Pool -> PoolRecord] /\ pool'[p] = new
      /\ \A q \in Pool : q # p => pool'[q] = pool[q] /\ Alive(q)' = Alive(q)
  BY <1>3, <1>4, <1>5 DEF Base, TablesTyped, Alive
<1>7. \A e \in DB : master'[e] = IF e = DefaultDB THEN p ELSE master[e]
  BY <1>1 DEF Base, TablesTyped
<1>8. ConfigTyped' /\ TablesTyped'
  BY <1>1, <1>2, <1>3, <1>4, <1>6 DEF Base, ConfigTyped, TablesTyped, Working
<1>9. Allocated'
  BY <1>2, <1>3, <1>4, <1>6, <1>7 DEF Base, Allocated
<1>10. Separate' /\ Wide'
  BY <1>2 DEF Base, Separate, Wide, LiveArray, SlaveCnt
<1>11. Nothing
  BY <1>2 DEF Base, Working
<1>12. Right'
  <2>1. ASSUME NEW e \in DB PROVE MasterRight(e)'
    <3>1. CASE e = DefaultDB
      BY <1>2, <1>3, <1>6, <1>7, <3>1 DEF MasterRight
    <3>2. CASE e # DefaultDB
      BY <1>4, <1>6, <1>7, <1>11, <3>2 DEF Nothing, MasterRight, Alive
    <3> QED
      BY <3>1, <3>2
  <2>2. ASSUME NEW e \in DB PROVE SlaveRight(e)'
    BY <1>2, <1>11 DEF Nothing, SlaveRight, LiveArray
  <2> QED
    BY <2>1, <2>2 DEF Right
<1>13. initResult' \in Working /\ exited = FALSE
  BY <1>1, <1>2 DEF Working, Base, Quiet
<1> QED
  BY <1>2, <1>8, <1>9, <1>10, <1>12, <1>13, QuietCalls DEF Base

LEMMA InitExKeepsBase ==
  ASSUME Base, NEW a \in Addr, NEW list \in SlaveLists, InitEx(a, list)
  PROVE  Base'
<1>1. CASE Crash
  BY <1>1, CrashKeepsBase
<1>2. CASE ~Crash
  <2>1. /\ masterAddr' = a /\ slaveAddr' = WithSlaves(list)
        /\ UNCHANGED <<call, exited>> /\ Quiet /\ initResult = "none"
        /\ WithSlaves(list) # <<>> /\ slave[DefaultDB] = NoArray
    BY <1>2 DEF InitEx
  <2>2. PICK p \in FreshPool, q \in FreshPool, r \in FreshArray,
             onMaster \in BOOLEAN, onSlave \in BOOLEAN :
          /\ p # q
          /\ master' = [master EXCEPT ![DefaultDB] = p]
          /\ slave' = [slave EXCEPT ![DefaultDB] = r]
          /\ array' = [array EXCEPT ![r] =
               [state |-> "live",
                slot |-> [i \in DOMAIN slaveAddr' |-> IF i = 1 THEN q ELSE NoPool]]]
          /\ pool' = [pool EXCEPT
               ![p] = Probe(NewPool("MASTER", DefaultDB, a), onMaster),
               ![q] = Probe(NewPool("SLAVE", DefaultDB, slaveAddr'[1]), onSlave)]
          /\ initResult' = IF onMaster /\ onSlave THEN "ok" ELSE "unreachable"
    BY <1>2 DEF InitEx
  <2> DEFINE pnew == Probe(NewPool("MASTER", DefaultDB, a), onMaster)
             qnew == Probe(NewPool("SLAVE", DefaultDB, slaveAddr'[1]), onSlave)
             new == [state |-> "live",
                     slot |-> [i \in DOMAIN slaveAddr' |-> IF i = 1 THEN q ELSE NoPool]]
  <2>3. slaveAddr' \in Seq(Addr) /\ slaveAddr' # <<>>
    <3>1. slaveAddr \in Seq(Addr) /\ list \in Seq(Addr)
      BY ListAssumption DEF Base, ConfigTyped
    <3>2. WithSlaves(list) \in Seq(Addr)
      BY <3>1 DEF WithSlaves
    <3> QED
      BY <2>1, <3>2
  <2>4. /\ p \in Pool /\ p # NoPool /\ q \in Pool /\ q # NoPool
        /\ \A e \in DB : master[e] # p /\ master[e] # q
        /\ \A b \in Array : \A i \in DOMAIN array[b].slot :
             array[b].slot[i] # p /\ array[b].slot[i] # q
        /\ r \in Array /\ r # NoArray /\ \A e \in DB : slave[e] # r
    BY FreshFacts
  <2>5. /\ pnew \in PoolRecord /\ pnew.lent + pnew.idle <= ConnLimit
        /\ pnew.state = "alive" /\ pnew.role = "MASTER" /\ pnew.db = DefaultDB
        /\ pnew.addr = a
        /\ qnew \in PoolRecord /\ qnew.lent + qnew.idle <= ConnLimit
        /\ qnew.state = "alive" /\ qnew.role = "SLAVE" /\ qnew.db = DefaultDB
        /\ qnew.addr = slaveAddr'[1]
    <3>1. /\ "MASTER" \in Role /\ "SLAVE" \in Role /\ a \in Addr \cup {NoAddr}
          /\ slaveAddr'[1] \in Addr \cup {NoAddr}
      BY <2>3 DEF Role
    <3> QED
      BY <3>1, DBAssumption, ProbedPoolFacts
  <2>6. /\ new \in ArrayRecord /\ new.state = "live" /\ Len(new.slot) = Len(slaveAddr')
        /\ \A i \in DOMAIN new.slot : new.slot[i] = IF i = 1 THEN q ELSE NoPool
    <3>1. Len(slaveAddr') \in Nat /\ DOMAIN slaveAddr' = 1 .. Len(slaveAddr')
      BY <2>3
    <3> DEFINE n == Len(slaveAddr')
               s == [i \in 1 .. n |-> IF i = 1 THEN q ELSE NoPool]
    <3>2. new = [state |-> "live", slot |-> s]
      BY <3>1
    <3> HIDE DEF n, new
    <3>3. s \in Seq(Entries) /\ Len(s) = n /\ DOMAIN s = 1 .. n
          /\ \A i \in DOMAIN s : s[i] = IF i = 1 THEN q ELSE NoPool
      BY <2>4, <3>1 DEF Entries, n
    <3> HIDE DEF s
    <3> QED
      BY <3>2, <3>3 DEF ArrayRecord, n
  <2>7. /\ pool' = [pool EXCEPT ![p] = pnew, ![q] = qnew]
        /\ array' = [array EXCEPT ![r] = new]
    BY <2>2
  <2> HIDE DEF pnew, qnew, new
  <2>8. /\ pool' \in [Pool -> PoolRecord] /\ pool'[p] = pnew /\ pool'[q] = qnew
        /\ \A x \in Pool : x # p /\ x # q => pool'[x] = pool[x]
    BY <2>2, <2>4, <2>5, <2>7 DEF Base, TablesTyped
  <2>9. /\ array' \in [Array -> ArrayRecord] /\ array'[r] = new
        /\ \A b \in Array : b # r => array'[b] = array[b]
    BY <2>4, <2>6, <2>7 DEF Base, TablesTyped
  <2>10. /\ \A e \in DB : master'[e] = IF e = DefaultDB THEN p ELSE master[e]
         /\ \A e \in DB : slave'[e] = IF e = DefaultDB THEN r ELSE slave[e]
         /\ master' \in [DB -> Pool \cup {NoPool}] /\ slave' \in [DB -> Array \cup {NoArray}]
    BY <2>2, <2>4 DEF Base, TablesTyped
  <2>11. TablesTyped'
    BY <2>4, <2>5, <2>8, <2>9, <2>10 DEF Base, TablesTyped
  <2>12. ConfigTyped' /\ initResult' \in Working
    BY <2>1, <2>2, <2>3 DEF ConfigTyped, Working
  <2>13. \A x \in Pool : pool[x].state # "none" => pool'[x].state # "none"
    BY <2>5, <2>8
  <2>14. Allocated'
    <3>1. \A e \in DB : master'[e] \in Pool => pool'[master'[e]].state # "none"
      BY <2>5, <2>8, <2>10, <2>13 DEF Base, Allocated
    <3>2. \A e \in DB : slave'[e] \in Array => array'[slave'[e]].state # "none"
      BY <2>6, <2>9, <2>10 DEF Base, Allocated
    <3>3. \A b \in Array : \A i \in DOMAIN array'[b].slot :
            array'[b].slot[i] \in Pool => pool'[array'[b].slot[i]].state # "none"
      BY <2>5, <2>6, <2>8, <2>9, <2>13, NullAssumption DEF Base, Allocated
    <3> QED
      BY <3>1, <3>2, <3>3 DEF Allocated
  <2>15. Separate'
    <3>1. \A e, f \in DB : slave'[e] = slave'[f] /\ slave'[e] # NoArray => e = f
      BY <2>4, <2>10 DEF Base, Separate
    <3>2. \A b, c \in Array : \A i \in DOMAIN array'[b].slot, j \in DOMAIN array'[c].slot :
            array'[b].slot[i] = array'[c].slot[j] /\ array'[b].slot[i] \in Pool =>
              b = c /\ i = j
      BY <2>4, <2>6, <2>9, NullAssumption DEF Base, Separate
    <3> QED
      BY <3>1, <3>2 DEF Separate
  <2>16. Nothing
    BY <2>1 DEF Base, Working
  <2>17. \A e \in DB : e # DefaultDB => ~LiveArray(slave[e])' /\ ~Alive(master[e])'
    BY <2>4, <2>8, <2>9, <2>10, <2>16 DEF Nothing, LiveArray, Alive
  <2>18. Wide'
    BY <2>6, <2>9, <2>10, <2>17 DEF Wide, SlaveCnt
  <2>19. Right'
    <3>1. ASSUME NEW e \in DB PROVE MasterRight(e)'
      BY <2>1, <2>5, <2>8, <2>10, <2>17 DEF MasterRight
    <3>2. ASSUME NEW e \in DB PROVE SlaveRight(e)'
      BY <2>5, <2>6, <2>8, <2>9, <2>10, <2>17, NullAssumption DEF SlaveRight, Alive
    <3> QED
      BY <3>1, <3>2 DEF Right
  <2>20. exited = FALSE
    BY <2>1 DEF Base, Quiet
  <2> QED
    BY <2>1, <2>11, <2>12, <2>14, <2>15, <2>18, <2>19, <2>20, QuietCalls DEF Base
<1> QED
  BY <1>1, <1>2

\* Flush and the destructor: what the tables lead to is deleted, and the pointers
\* stay.
LEMMA DeleteFacts ==
  ASSUME Base, DeleteAll
  PROVE  /\ TablesTyped' /\ Allocated' /\ Separate' /\ Nothing'
         /\ UNCHANGED <<master, slave>>
         /\ \A p \in Pool :
              \/ pool'[p] = pool[p] /\ p \notin PoolsOf("MASTER") \cup PoolsOf("SLAVE")
              \/ pool'[p].state = "deleted" /\ p \in PoolsOf("MASTER") \cup PoolsOf("SLAVE")
                 /\ pool'[p].lent = pool[p].lent
         /\ \A a \in Array :
              \/ array'[a] = array[a] /\ \A d \in DB : slave[d] # a
              \/ array'[a] = [state |-> "freed", slot |-> <<>>] /\ \E d \in DB : slave[d] = a
<1> DEFINE S == PoolsOf("MASTER") \cup PoolsOf("SLAVE")
           A == {slave[d] : d \in DB}
           gone == [state |-> "freed", slot |-> <<>>]
<1>1. /\ pool' = [p \in Pool |-> IF p \in S THEN [pool[p] EXCEPT !.state = "deleted", !.idle = 0]
                                 ELSE pool[p]]
      /\ array' = [a \in Array |-> IF a \in A THEN gone ELSE array[a]]
      /\ UNCHANGED <<master, slave>>
  BY DEF DeleteAll, Freed
<1>2. /\ gone \in ArrayRecord /\ gone.state = "freed" /\ gone.slot = <<>>
      /\ DOMAIN gone.slot = {}
  BY DEF ArrayRecord
<1>3. \A d \in DB : master[d] \in Pool => master[d] \in S
  BY DEF PoolsOf
<1> HIDE DEF S, gone
<1>4. \A p \in Pool :
        LET q == [pool[p] EXCEPT !.state = "deleted", !.idle = 0]
        IN /\ q \in PoolRecord /\ q.state = "deleted" /\ q.lent = pool[p].lent
           /\ q.lent + q.idle <= ConnLimit
  <2> TAKE p \in Pool
  <2>1. pool[p] \in PoolRecord /\ pool[p].lent + pool[p].idle <= ConnLimit
        /\ pool[p].lent \in Nat /\ pool[p].idle \in Nat /\ ConnLimit \in Nat
    BY UseAssumption DEF Base, TablesTyped, PoolRecord
  <2>2. 0 \in 0 .. ConnLimit /\ pool[p].lent + 0 <= ConnLimit
    BY <2>1
  <2> QED
    BY <2>1, <2>2 DEF PoolRecord
<1>5. \A p \in Pool :
        \/ pool'[p] = pool[p] /\ p \notin S
        \/ /\ p \in S /\ pool'[p] \in PoolRecord /\ pool'[p].state = "deleted"
           /\ pool'[p].lent = pool[p].lent
           /\ pool'[p].lent + pool'[p].idle <= ConnLimit
  BY <1>1, <1>4
<1>6. \A a \in Array :
        \/ array'[a] = array[a] /\ \A d \in DB : slave[d] # a
        \/ array'[a] = gone /\ \E d \in DB : slave[d] = a
  BY <1>1
<1>7. TablesTyped'
  <2>1. pool' \in [Pool -> PoolRecord]
    BY <1>1, <1>4 DEF Base, TablesTyped
  <2>2. array' \in [Array -> ArrayRecord]
    BY <1>1, <1>2 DEF Base, TablesTyped
  <2>3. \A p \in Pool : pool'[p].lent + pool'[p].idle <= ConnLimit
    BY <1>5 DEF Base, TablesTyped
  <2> QED
    BY <1>1, <2>1, <2>2, <2>3 DEF Base, TablesTyped
<1>8. Allocated'
  <2>1. \A p \in Pool : pool[p].state # "none" => pool'[p].state # "none"
    BY <1>5
  <2>2. \A d \in DB : master'[d] \in Pool => pool'[master'[d]].state # "none"
    BY <1>1, <2>1 DEF Base, Allocated
  <2>3. \A d \in DB : slave'[d] \in Array => array'[slave'[d]].state # "none"
    BY <1>1, <1>2, <1>6
  <2>4. ASSUME NEW a \in Array, NEW i \in DOMAIN array'[a].slot, array'[a].slot[i] \in Pool
        PROVE  pool'[array'[a].slot[i]].state # "none"
    <3>1. array'[a] = array[a]
      BY <1>2, <1>6
    <3> QED
      BY <2>1, <2>4, <3>1 DEF Base, Allocated
  <2> QED
    BY <2>2, <2>3, <2>4 DEF Allocated
<1>9. Separate'
  <2>1. \A a \in Array : \A i \in DOMAIN array'[a].slot : array'[a] = array[a]
    BY <1>2, <1>6
  <2>2. \A a, b \in Array : \A i \in DOMAIN array'[a].slot, j \in DOMAIN array'[b].slot :
          array'[a].slot[i] = array'[b].slot[j] /\ array'[a].slot[i] \in Pool =>
            a = b /\ i = j
    BY <2>1 DEF Base, Separate
  <2>3. \A d, e \in DB : slave'[d] = slave'[e] /\ slave'[d] # NoArray => d = e
    BY <1>1 DEF Base, Separate
  <2> QED
    BY <2>2, <2>3 DEF Separate
<1>10. Nothing'
  BY <1>1, <1>2, <1>3, <1>5, <1>6 DEF Nothing, Alive, LiveArray
<1> QED
  BY <1>1, <1>5, <1>6, <1>7, <1>8, <1>9, <1>10 DEF S, gone

LEMMA DeleteKeepsBase ==
  ASSUME Base, Flush \/ Destroy
  PROVE  Base'
<1>1. CASE Crash
  BY <1>1, CrashKeepsBase
<1>2. CASE ~Crash
  <2>1. /\ DeleteAll /\ initResult' = "none" /\ Quiet
        /\ UNCHANGED <<masterAddr, slaveAddr, call>>
        /\ exited' \in BOOLEAN
    BY <1>2 DEF Flush, Destroy, Base
  <2>2. /\ TablesTyped' /\ Allocated' /\ Separate' /\ Nothing'
        /\ UNCHANGED <<master, slave>>
    BY <2>1, DeleteFacts
  <2>3. ConfigTyped'
    BY <2>1 DEF Base, ConfigTyped
  <2>4. Right' /\ Wide'
    BY <2>2 DEF Nothing, Right, MasterRight, SlaveRight, Wide
  <2> QED
    BY <2>1, <2>2, <2>3, <2>4, QuietCalls DEF Base
<1> QED
  BY <1>1, <1>2

LEMMA StartBase == Start => Base
<1> SUFFICES ASSUME Start PROVE Base
  OBVIOUS
<1>1. Unallocated \in PoolRecord /\ Unallocated.lent + Unallocated.idle <= ConnLimit
      /\ Unallocated.state = "none" /\ Unallocated.lent = 0
  BY UseAssumption, DBAssumption DEF Unallocated, NewPool, PoolRecord, Role
<1> DEFINE none == [state |-> "none", slot |-> <<>>]
<1>2. none \in ArrayRecord /\ none.state = "none" /\ DOMAIN none.slot = {}
  BY DEF ArrayRecord
<1> HIDE DEF none
<1>3. /\ initResult = "none" /\ masterAddr = NoAddr /\ slaveAddr = <<>>
      /\ master = [d \in DB |-> NoPool] /\ slave = [d \in DB |-> NoArray]
      /\ array = [a \in Array |-> none]
      /\ pool = [p \in Pool |-> Unallocated]
      /\ call = [t \in Thread |-> Idle] /\ exited = FALSE
  BY DEF Start, none
<1>4. ConfigTyped
  BY <1>3 DEF ConfigTyped
<1>5. TablesTyped
  BY <1>1, <1>2, <1>3 DEF TablesTyped
<1>6. Allocated /\ Separate
  BY <1>2, <1>3, NullAssumption DEF Allocated, Separate
<1>7. Nothing
  BY <1>3, NullAssumption DEF Nothing, Alive, LiveArray
<1>8. Wide /\ Right
  BY <1>7 DEF Nothing, Wide, Right, MasterRight, SlaveRight
<1>9. Idle \in CallRecord /\ InGet(Idle)
  BY DBAssumption DEF Idle, CallRecord, Role, InGet
<1> QED
  BY <1>3, <1>4, <1>5, <1>6, <1>7, <1>8, <1>9 DEF Base

LEMMA NextBase ==
  ASSUME Base, [Next]_vars
  PROVE  Base'
<1>1. CASE UNCHANGED vars
  BY <1>1, ReadKeepsBase DEF vars, Base
<1>2. CASE Next
  BY <1>2, BadHostKeepsBase, InitKeepsBase, InitExKeepsBase, DeleteKeepsBase,
     GetKeepsBase, TestsKeepBase, NewMasterKeepsBase, MallocKeepsBase, ClearKeepsBase,
     NewSlaveKeepsBase, UsePoolKeepsBase, PutKeepsBase DEF Next, Step
<1> QED
  BY <1>1, <1>2

LEMMA BaseHolds == Spec => []Base
<1>1. Base /\ [Next]_vars => Base'
  BY NextBase
<1> QED
  BY <1>1, StartBase, PTL DEF Spec
-----------------------------------------------------------------------------
(***************************************************************************)
(* What follows from Base alone.                                           *)
(***************************************************************************)
\* The variables of the manager keep their types.
THEOREM ManagerTypes == Spec => []TypeOK
<1> DEFINE Rest == crashed \in BOOLEAN
<1>1. Start => Rest
  BY DEF Start
<1>2. Base /\ Rest /\ [Next]_vars => Rest'
  <2> SUFFICES ASSUME Base, Rest, [Next]_vars PROVE Rest'
    OBVIOUS
  <2>1. CASE UNCHANGED vars
    BY <2>1 DEF vars
  <2>2. CASE Next
    BY <2>2 DEF Next, BadHost, Init, InitEx, Flush, Destroy, Put, Step, Get, TestMaster,
       NewMaster, TestSlave, TestArray, MallocArray, ClearArray, NewSlave, UsePool, Crash
  <2> QED
    BY <2>1, <2>2
<1>3. Base /\ Rest => TypeOK
  BY DEF Base, ConfigTyped, TablesTyped, TypeOK, ArrayRecord, CallRecord, Entries, Working
<1> QED
  BY <1>1, <1>2, <1>3, BaseHolds, PTL DEF Spec

\* The pool a Get finds in a table was made for the database and the server of its
\* place there, whatever threads do to each other (cloredis.cc, InitConnectionPool).
THEOREM RightServers == Spec => []RightServer
<1>1. Base => RightServer
  <2> SUFFICES ASSUME Base, NEW p \in Pool, Alive(p), NEW place \in Places(p)
               PROVE  /\ pool[p].role = place[1] /\ pool[p].db = place[2]
                      /\ pool[p].addr = IF place[1] = "MASTER" THEN masterAddr
                                        ELSE slaveAddr[place[3]]
    BY DEF RightServer
  <2>1. CASE \E d \in DB : master[d] = p /\ place = <<"MASTER", d, 0>>
    BY <2>1 DEF Base, Right, MasterRight
  <2>2. CASE \E d \in DB : \E i \in DOMAIN SlaveSlots(d) :
               SlaveSlots(d)[i] = p /\ place = <<"SLAVE", d, i>>
    <3>a. PICK d \in DB : \E i \in DOMAIN SlaveSlots(d) :
            SlaveSlots(d)[i] = p /\ place = <<"SLAVE", d, i>>
      BY <2>2
    <3>1. PICK i \in DOMAIN SlaveSlots(d) :
            SlaveSlots(d)[i] = p /\ place = <<"SLAVE", d, i>>
      BY <3>a
    <3>2. LiveArray(slave[d]) /\ i \in DOMAIN array[slave[d]].slot
          /\ array[slave[d]].slot[i] = p
      BY <3>1 DEF SlaveSlots
    <3>3. SlaveRight(d)
      BY DEF Base, Right
    <3> QED
      BY <3>1, <3>2, <3>3 DEF SlaveRight
  <2> QED
    BY <2>1, <2>2 DEF Places
<1> QED
  BY <1>1, BaseHolds, PTL
-----------------------------------------------------------------------------
(***************************************************************************)
(* Own is inductive when the databases of the threads are disjoint.        *)
(***************************************************************************)
\* Threads within Get work on different databases.
LEMMA OwnDatabase ==
  ASSUME Own, Disjoint, NEW t \in Thread, NEW u \in Thread, t # u,
         call[t].at # "ready", call[u].at # "ready"
  PROVE  call[t].db # call[u].db
<1>1. PICK x \in Uses[t], y \in Uses[u] : x[2] = call[t].db /\ y[2] = call[u].db
  BY DEF Own, InOwnGet
<1> QED
  BY <1>1 DEF Disjoint

\* A step that changes nothing but counters of pools and the place of threads that
\* are not about to clear an array.
LEMMA ReadKeepsOwn ==
  ASSUME Base, Own,
         UNCHANGED <<initResult, master, slave, array>>,
         pool' \in [Pool -> PoolRecord],
         \A p \in Pool : pool'[p].state = pool[p].state,
         \A p \in Pool : pool[p].state = "none" => pool'[p].lent = 0,
         \A u \in Thread :
           call'[u] = call[u] \/ (call[u].at # "memset" /\ InOwnGet(u)')
  PROVE  Own'
<1>1. /\ initResult' = initResult /\ master' = master /\ slave' = slave
      /\ array' = array
  OBVIOUS
<1>2. \A p : Alive(p)' <=> Alive(p)
  BY DEF Alive
<1>3. Kept'
  <2>1. \A p \in Pool : InTables(p) => InTables(p)'
    BY <1>1 DEF InTables, LiveArray
  <2>2. \A a : LiveArray(a)' <=> LiveArray(a)
    BY <1>1 DEF LiveArray
  <2> QED
    BY <1>1, <1>2, <2>1, <2>2 DEF Own, Kept
<1>4. Cleared'
  BY <1>1 DEF Own, Cleared, LiveArray
<1>5. Deleted' <=> Deleted
  BY DEF Deleted
<1>6. Founded'
  BY <1>1, <1>2, <1>5 DEF Own, Founded
<1>7. ASSUME NEW u \in Thread PROVE InOwnGet(u)'
  <2>1. CASE call'[u] = call[u]
    <3>1. InOwnGet(u)
      BY DEF Own
    <3> QED
      BY <1>1, <2>1, <3>1 DEF InOwnGet
  <2> QED
    BY <2>1
<1> QED
  BY <1>3, <1>4, <1>6, <1>7 DEF Own

\* An invalid access changes nothing that Own speaks of.
LEMMA StutterKeepsOwn ==
  ASSUME Base, Own, UNCHANGED <<config, tables, call>>
  PROVE  Own'
<1>1. /\ initResult' = initResult /\ master' = master /\ slave' = slave
      /\ array' = array /\ pool' = pool /\ call' = call
  BY DEF config, tables
<1>2. Kept' /\ Cleared'
  BY <1>1 DEF Own, Kept, InTables, LiveArray, Alive, Cleared
<1>3. Founded'
  BY <1>1 DEF Own, Founded, Deleted, Alive
<1>4. \A u \in Thread : InOwnGet(u)'
  BY <1>1 DEF Own, InOwnGet
<1> QED
  BY <1>2, <1>3, <1>4 DEF Own

LEMMA GetKeepsOwn ==
  ASSUME Base, Own, NEW t \in Thread, NEW u \in Uses[t], Get(t, u[1], u[2])
  PROVE  Own'
<1>1. /\ UNCHANGED <<initResult, master, slave, array, pool>>
      /\ call[t].at = "ready"
  BY DEF Get, At, config, tables
<1>2. ASSUME NEW k, call' = [call EXCEPT ![t] = k],
             k.at \in {"master", "slave"}, k.db = u[2]
      PROVE  Own'
  <2>1. call'[t] = k /\ \A v \in Thread : v # t => call'[v] = call[v]
    BY <1>2 DEF Base
  <2>2. InOwnGet(t)'
    BY <1>2, <2>1 DEF InOwnGet
  <2> QED
    BY <1>1, <2>1, <2>2, ReadKeepsOwn DEF Base, TablesTyped, Own, Founded
<1>3. CASE call' = [call EXCEPT ![t] = [Idle EXCEPT !.at = "master", !.db = u[2]]]
  <2> DEFINE k == [Idle EXCEPT !.at = "master", !.db = u[2]]
  <2>1. k.at = "master" /\ k.db = u[2]
    BY DEF Idle
  <2>2. call' = [call EXCEPT ![t] = k]
    BY <1>3
  <2> HIDE DEF k
  <2> QED
    BY <1>2, <2>1, <2>2
<1>4. ASSUME NEW i, call' = [call EXCEPT ![t] =
                       [at |-> "slave", role |-> "SLAVE", db |-> u[2], slot |-> i]]
      PROVE  Own'
  <2> DEFINE k == [at |-> "slave", role |-> "SLAVE", db |-> u[2], slot |-> i]
  <2>1. k.at = "slave" /\ k.db = u[2]
    OBVIOUS
  <2>2. call' = [call EXCEPT ![t] = k]
    BY <1>4
  <2> HIDE DEF k
  <2> QED
    BY <1>2, <2>1, <2>2
<1> QED
  BY <1>3, <1>4 DEF Get

LEMMA TestsKeepOwn ==
  ASSUME Base, Own, Disjoint, NEW t \in Thread,
         TestMaster(t) \/ TestSlave(t) \/ TestArray(t)
  PROVE  Own'
<1> DEFINE k == call[t]
<1>1. k \in CallRecord /\ InGet(k) /\ InOwnGet(t)
  BY DEF Base, Own
<1>2. ASSUME NEW where \in {"newMaster", "use", "testArray", "malloc", "newSlave"},
             Goto(t, where), UNCHANGED <<config, tables>>, k.at \notin {"ready", "memset"},
             where = "newMaster" => master[k.db] = NoPool,
             where = "malloc" => slave[k.db] = NoArray,
             where = "testArray" /\ slave[k.db] # NoArray =>
               array[slave[k.db]].slot[k.slot] = NoPool,
             where = "newSlave" => array[slave[k.db]].slot[k.slot] = NoPool,
             where = "use" /\ k.role = "SLAVE" =>
               array[slave[k.db]].slot[k.slot] \in Pool
      PROVE  Own'
  <2>1. /\ \A u \in Thread : u # t => call'[u] = call[u]
        /\ call'[t].at = where /\ call'[t].role = k.role
        /\ call'[t].db = k.db /\ call'[t].slot = k.slot
    BY <1>2, GotoFacts
  <2>2. /\ UNCHANGED <<initResult, master, slave, array, pool>>
    BY <1>2 DEF config, tables
  <2>3. InOwnGet(t)'
    BY <1>1, <1>2, <2>1, <2>2 DEF InOwnGet
  <2> QED
    BY <1>2, <2>1, <2>2, <2>3, ReadKeepsOwn DEF Base, TablesTyped, Own, Founded
<1>3. CASE TestMaster(t)
  <2> DEFINE where == IF master[k.db] # NoPool THEN "use" ELSE "newMaster"
  <2>1. k.at = "master" /\ Goto(t, where) /\ UNCHANGED <<config, tables>>
    BY <1>3 DEF TestMaster, At
  <2>2. k.role = "MASTER"
    BY <1>1, <2>1 DEF InGet
  <2> QED
    BY <1>2, <2>1, <2>2
<1>4. CASE TestSlave(t) /\ ~Crash
  <2>1. k.at = "slave"
    BY <1>4 DEF TestSlave, At
  <2>2. CASE slave[k.db] = NoArray
    <3>1. Goto(t, "testArray") /\ UNCHANGED <<config, tables>>
      BY <1>4, <2>2 DEF TestSlave
    <3> QED
      BY <1>2, <2>1, <2>2, <3>1
  <2>3. CASE slave[k.db] # NoArray /\ k.slot \in DOMAIN SlaveSlots(k.db)
    <3> DEFINE e == array[slave[k.db]].slot[k.slot]
    <3>1. PICK where \in {"use", "testArray"} :
            /\ Goto(t, where) /\ UNCHANGED <<config, tables>>
            /\ where = "use" => e # NoPool
            /\ where = "testArray" => e \in {NoPool, Garbage}
      BY <1>4, <2>3 DEF TestSlave, Entry
    <3>2. /\ LiveArray(slave[k.db]) /\ k.db \in DB
          /\ k.slot \in DOMAIN array[slave[k.db]].slot
      BY <1>1, <2>3 DEF SlaveSlots, CallRecord
    <3>3. e \in Entries
      BY <3>2 DEF Base, TablesTyped, ArrayRecord, LiveArray
    <3>4. e # Garbage
      <4>1. SUFFICES ASSUME e = Garbage PROVE FALSE
        OBVIOUS
      <4>2. PICK u \in Thread : call[u].at = "memset" /\ call[u].db = k.db
        BY <3>2, <4>1 DEF Own, Cleared
      <4> QED
        BY <2>1, <4>2, OwnDatabase
    <3> QED
      BY <1>2, <2>1, <3>1, <3>3, <3>4 DEF Entries
  <2> QED
    BY <1>4, <2>2, <2>3 DEF TestSlave
<1>5. CASE TestArray(t)
  <2> DEFINE where == IF slave[k.db] = NoArray THEN "malloc" ELSE "newSlave"
  <2>1. k.at = "testArray" /\ Goto(t, where) /\ UNCHANGED <<config, tables>>
    BY <1>5 DEF TestArray, At
  <2>2. slave[k.db] # NoArray => array[slave[k.db]].slot[k.slot] = NoPool
    BY <1>1, <2>1 DEF InOwnGet
  <2> QED
    BY <1>2, <2>1, <2>2
<1>6. CASE Crash
  BY <1>6, StutterKeepsOwn DEF Crash
<1> QED
  BY <1>3, <1>4, <1>5, <1>6

LEMMA CountsKeepOwn ==
  ASSUME Base, Own, NEW t \in Thread, UsePool(t)
  PROVE  Own'
<1> DEFINE p == IF call[t].role = "MASTER" THEN master[call[t].db]
                ELSE Entry(call[t].db, call[t].slot)
<1>1. CASE ~Alive(p)
  BY <1>1, StutterKeepsOwn DEF UsePool, Crash
<1>2. CASE Alive(p)
  <2>1. PICK r \in PoolGet(pool[p]) : pool' = [pool EXCEPT ![p] = r]
    BY <1>2 DEF UsePool
  <2>2. /\ call' = [call EXCEPT ![t] = Idle] /\ call[t].at = "use"
        /\ UNCHANGED <<initResult, master, slave, array>>
    BY <1>2 DEF UsePool, config, At
  <2> HIDE DEF p
  <2>3. /\ p \in Pool /\ pool[p] \in PoolRecord /\ pool[p].state = "alive"
        /\ pool[p].lent + pool[p].idle <= ConnLimit
    BY <1>2 DEF Base, TablesTyped, Alive
  <2>4. r \in PoolRecord /\ r.state = pool[p].state
    BY <2>3, PoolCallFacts
  <2>5. /\ pool' \in [Pool -> PoolRecord]
        /\ \A q \in Pool : pool'[q].state = pool[q].state
        /\ \A q \in Pool : pool[q].state = "none" => pool'[q].lent = 0
    BY <2>1, <2>3, <2>4 DEF Base, TablesTyped, Own, Founded
  <2>6. call'[t] = Idle /\ \A u \in Thread : u # t => call'[u] = call[u]
    BY <2>2 DEF Base
  <2>7. InOwnGet(t)'
    BY <2>6 DEF InOwnGet, Idle
  <2> QED
    BY <2>2, <2>5, <2>6, <2>7, ReadKeepsOwn
<1> QED
  BY <1>1, <1>2

LEMMA PutKeepsOwn ==
  ASSUME Base, Own, NEW p \in Pool, Put(p)
  PROVE  Own'
<1>1. CASE ~Alive(p)
  BY <1>1, StutterKeepsOwn DEF Put, Crash
<1>2. CASE Alive(p)
  <2>1. PICK r \in PoolPut(pool[p]) : pool' = [pool EXCEPT ![p] = r]
    BY <1>2 DEF Put
  <2>2. /\ call' = call /\ pool[p].lent > 0
        /\ UNCHANGED <<initResult, master, slave, array>>
    BY <1>2 DEF Put, config
  <2>3. /\ pool[p] \in PoolRecord /\ pool[p].state = "alive"
        /\ pool[p].lent + pool[p].idle <= ConnLimit
    BY <1>2 DEF Base, TablesTyped, Alive
  <2>4. r \in PoolRecord /\ r.state = pool[p].state
    BY <2>2, <2>3, PoolCallFacts
  <2>5. /\ pool' \in [Pool -> PoolRecord]
        /\ \A q \in Pool : pool'[q].state = pool[q].state
        /\ \A q \in Pool : pool[q].state = "none" => pool'[q].lent = 0
    BY <2>1, <2>3, <2>4 DEF Base, TablesTyped, Own, Founded
  <2> QED
    BY <2>2, <2>5, ReadKeepsOwn
<1> QED
  BY <1>1, <1>2

\* What a thread finds in its own entries is not touched by a step of another one:
\* the entries of every other database are as before.
LEMMA OthersKeepOwn ==
  ASSUME Base, Own, Disjoint, NEW t \in Thread, call[t].at # "ready",
         \A u \in Thread : u # t => call'[u] = call[u],
         \A d \in DB : d # call[t].db =>
           /\ master'[d] = master[d] /\ slave'[d] = slave[d]
           /\ LiveArray(slave[d]) => array'[slave[d]] = array[slave[d]],
         NEW u \in Thread, u # t
  PROVE  InOwnGet(u)'
<1> DEFINE k == call[u]
<1>1. call'[u] = k /\ k \in CallRecord /\ InGet(k) /\ InOwnGet(u)
  BY DEF Base, Own
<1>2. CASE k.at = "ready"
  BY <1>1, <1>2 DEF InOwnGet
<1>3. CASE k.at # "ready"
  <2>1. k.db \in DB /\ k.db # call[t].db
    BY <1>1, <1>3, OwnDatabase DEF CallRecord
  <2>2. /\ master'[k.db] = master[k.db] /\ slave'[k.db] = slave[k.db]
        /\ LiveArray(slave[k.db]) => array'[slave[k.db]] = array[slave[k.db]]
    BY <2>1
  <2>3. /\ k.at \in {"memset", "newSlave"} => LiveArray(slave[k.db])
        /\ k.at = "use" /\ k.role = "SLAVE" => LiveArray(slave[k.db])
        /\ k.at = "testArray" /\ slave[k.db] # NoArray => LiveArray(slave[k.db])
    BY <1>1 DEF InGet
  <2> HIDE DEF k
  <2> QED
    BY <1>1, <2>2, <2>3 DEF InOwnGet
<1> QED
  BY <1>2, <1>3

\* A pool is added at a place where there was none.
LEMMA NewMasterKeepsOwn ==
  ASSUME Base, Own, Disjoint, NEW t \in Thread, NewMaster(t)
  PROVE  Own'
<1> DEFINE d == call[t].db
<1>1. /\ call[t] \in CallRecord /\ InGet(call[t]) /\ InOwnGet(t)
      /\ call[t].at = "newMaster"
  BY DEF Base, Own, NewMaster, At
<1>2. PICK p \in FreshPool :
        /\ pool' = [pool EXCEPT ![p] = NewPool("MASTER", d, masterAddr)]
        /\ master' = [master EXCEPT ![d] = p]
  BY DEF NewMaster
<1>3. UNCHANGED <<initResult, slave, array>> /\ Goto(t, "use")
  BY DEF NewMaster, config
<1>4. d \in DB /\ master[d] = NoPool /\ initResult \in Working /\ call[t].role = "MASTER"
  BY <1>1 DEF CallRecord, InOwnGet, InGet
<1>5. p \in Pool /\ p # NoPool /\ ~Alive(p)
  BY FreshFacts
<1>6. /\ pool'[p].state = "alive"
      /\ \A q \in Pool : q # p => pool'[q] = pool[q]
  BY <1>2, <1>5 DEF Base, TablesTyped, NewPool
<1>7. \A e \in DB : master'[e] = IF e = d THEN p ELSE master[e]
  BY <1>2 DEF Base, TablesTyped
<1>8. /\ call' \in [Thread -> CallRecord]
      /\ \A u \in Thread : u # t => call'[u] = call[u]
      /\ call'[t].at = "use" /\ call'[t].role = "MASTER" /\ call'[t].db = d
  BY <1>3, <1>4, GotoFacts
<1>9. ASSUME NEW u \in Thread PROVE InOwnGet(u)'
  <2>1. CASE u = t
    BY <1>1, <1>8, <2>1 DEF InOwnGet
  <2>2. CASE u # t
    BY <1>1, <1>3, <1>7, <1>8, <2>2, OthersKeepOwn
  <2> QED
    BY <2>1, <2>2
<1> HIDE DEF d
<1>10. Kept'
  <2>1. ASSUME NEW q \in Pool, Alive(q)' PROVE InTables(q)'
    <3>1. CASE q = p
      BY <1>4, <1>7, <3>1 DEF InTables
    <3>2. CASE q # p
      <4>1. InTables(q)
        BY <1>6, <2>1, <3>2 DEF Own, Kept, Alive
      <4>2. CASE \E e \in DB : master[e] = q
        BY <1>4, <1>7, <4>2, NullAssumption DEF InTables
      <4>3. CASE ~\E e \in DB : master[e] = q
        BY <1>3, <4>1, <4>3 DEF InTables, LiveArray
      <4> QED
        BY <4>2, <4>3
    <3> QED
      BY <3>1, <3>2
  <2>2. \A a \in Array : LiveArray(a)' => \E e \in DB : slave'[e] = a
    BY <1>3 DEF Own, Kept, LiveArray
  <2> QED
    BY <2>1, <2>2 DEF Kept
<1>11. Cleared'
  BY <1>1, <1>3, <1>8 DEF Own, Cleared, LiveArray
<1>12. Deleted => Deleted'
  BY <1>5, <1>6 DEF Deleted, FreshPool
<1>13. Founded'
  <2>1. Alive(master[DefaultDB]) /\ initResult' = initResult
    BY <1>3, <1>4 DEF Own, Founded
  <2>2. Alive(master[DefaultDB])'
    BY <1>4, <1>5, <1>6, <1>7, <2>1, DBAssumption DEF Alive
  <2>3. \A a \in Array : array'[a].state = "freed" => Deleted'
    BY <1>3, <1>12 DEF Own, Founded
  <2>4. \A q \in Pool : pool'[q].state = "none" => pool'[q].lent = 0
    BY <1>6 DEF Own, Founded
  <2> QED
    BY <1>4, <2>1, <2>2, <2>3, <2>4 DEF Founded
<1> QED
  BY <1>9, <1>10, <1>11, <1>13 DEF Own

\* An array is added where there was none, and nobody else will find it empty.
LEMMA MallocKeepsOwn ==
  ASSUME Base, Own, Disjoint, NEW t \in Thread, MallocArray(t)
  PROVE  Own'
<1> DEFINE d == call[t].db
           new == [state |-> "live", slot |-> [i \in 1 .. SlaveCnt |-> Garbage]]
<1>1. /\ call[t] \in CallRecord /\ InGet(call[t]) /\ InOwnGet(t)
      /\ call[t].at = "malloc"
  BY DEF Base, Own, MallocArray, At
<1>2. PICK r \in FreshArray : array' = [array EXCEPT ![r] = new]
                              /\ slave' = [slave EXCEPT ![d] = r]
  BY DEF MallocArray
<1>3. UNCHANGED <<initResult, master, pool>> /\ Goto(t, "memset")
  BY DEF MallocArray, config
<1>4. d \in DB /\ slave[d] = NoArray /\ initResult \in Working
  BY <1>1 DEF CallRecord, InOwnGet, InGet
<1>5. r \in Array /\ r # NoArray /\ ~LiveArray(r) /\ \A e \in DB : slave[e] # r
  BY FreshFacts
<1>6. new.state = "live" /\ \A i \in DOMAIN new.slot : new.slot[i] = Garbage
  OBVIOUS
<1> HIDE DEF new
<1>7. /\ array'[r] = new
      /\ \A a \in Array : a # r => array'[a] = array[a]
  BY <1>2, <1>5 DEF Base, TablesTyped
<1>8. \A e \in DB : slave'[e] = IF e = d THEN r ELSE slave[e]
  BY <1>2 DEF Base, TablesTyped
<1>9. /\ \A u \in Thread : u # t => call'[u] = call[u]
      /\ call'[t].at = "memset" /\ call'[t].db = d
  BY <1>3, GotoFacts
<1>10. ASSUME NEW u \in Thread PROVE InOwnGet(u)'
  <2>1. CASE u = t
    BY <1>1, <1>4, <1>6, <1>7, <1>8, <1>9, <2>1 DEF InOwnGet
  <2>2. CASE u # t
    BY <1>1, <1>3, <1>5, <1>7, <1>8, <1>9, <2>2, OthersKeepOwn DEF LiveArray
  <2> QED
    BY <2>1, <2>2
<1> HIDE DEF d
<1>11. Kept'
  <2>1. ASSUME NEW q \in Pool, InTables(q) PROVE InTables(q)'
    <3>1. CASE \E e \in DB : master[e] = q
      BY <1>3, <3>1 DEF InTables
    <3>2. CASE ~\E e \in DB : master[e] = q
      <4>1. PICK e \in DB : LiveArray(slave[e]) /\ \E i \in DOMAIN array[slave[e]].slot :
                              array[slave[e]].slot[i] = q
        BY <2>1, <3>2 DEF InTables
      <4>2. e # d /\ slave'[e] = slave[e] /\ array'[slave[e]] = array[slave[e]]
        BY <1>4, <1>5, <1>7, <1>8, <4>1, NullAssumption DEF LiveArray
      <4> QED
        BY <4>1, <4>2 DEF InTables, LiveArray
    <3> QED
      BY <3>1, <3>2
  <2>2. ASSUME NEW a \in Array, LiveArray(a)' PROVE \E e \in DB : slave'[e] = a
    <3>1. CASE a = r
      BY <1>4, <1>8, <3>1
    <3>2. CASE a # r
      <4>1. PICK e \in DB : slave[e] = a
        BY <1>7, <2>2, <3>2 DEF Own, Kept, LiveArray
      <4>2. e # d
        BY <1>4, <4>1, NullAssumption
      <4> QED
        BY <1>8, <4>1, <4>2
    <3> QED
      BY <3>1, <3>2
  <2>3. \A q \in Pool : Alive(q)' => Alive(q)
    BY <1>3 DEF Alive
  <2> QED
    BY <2>1, <2>2, <2>3 DEF Own, Kept
<1>12. Cleared'
  <2> SUFFICES ASSUME NEW e \in DB, LiveArray(slave[e])',
                      NEW i \in DOMAIN array'[slave'[e]].slot,
                      array'[slave'[e]].slot[i] = Garbage
               PROVE  \E u \in Thread : call'[u].at = "memset" /\ call'[u].db = e
    BY DEF Cleared
  <2>1. CASE e = d
    BY <1>9, <2>1
  <2>2. CASE e # d
    <3>1. slave'[e] = slave[e] /\ slave[e] # r /\ LiveArray(slave[e])
          /\ array'[slave[e]] = array[slave[e]]
      BY <1>5, <1>7, <1>8, <2>2 DEF LiveArray
    <3>2. PICK u \in Thread : call[u].at = "memset" /\ call[u].db = e
      BY <3>1 DEF Own, Cleared
    <3>3. u # t
      BY <1>1, <3>2
    <3> QED
      BY <1>9, <3>2, <3>3
  <2> QED
    BY <2>1, <2>2
<1>13. Founded'
  <2>1. Alive(master[DefaultDB])' /\ (Deleted => Deleted')
    BY <1>3, <1>4 DEF Own, Founded, Alive, Deleted
  <2>2. \A a \in Array : array'[a].state = "freed" => Deleted'
    BY <1>6, <1>7, <2>1 DEF Own, Founded
  <2>3. \A q \in Pool : pool'[q].state = "none" => pool'[q].lent = 0
    BY <1>3 DEF Own, Founded
  <2> QED
    BY <1>3, <1>4, <2>1, <2>2, <2>3 DEF Founded
<1> QED
  BY <1>10, <1>11, <1>12, <1>13 DEF Own

\* The array that is cleared held nothing.
LEMMA ClearKeepsOwn ==
  ASSUME Base, Own, Disjoint, NEW t \in Thread, ClearArray(t)
  PROVE  Own'
<1> DEFINE d == call[t].db
           r == slave[d]
           new == [array[r] EXCEPT !.slot = [i \in DOMAIN @ |-> NoPool]]
<1>1. /\ call[t] \in CallRecord /\ InGet(call[t]) /\ InOwnGet(t)
      /\ call[t].at = "memset"
  BY DEF Base, Own, ClearArray, At
<1>2. array' = [array EXCEPT ![r] = new]
  BY DEF ClearArray
<1>3. UNCHANGED <<initResult, master, slave, pool>> /\ Goto(t, "newSlave")
  BY DEF ClearArray, config
<1>4. /\ d \in DB /\ LiveArray(r) /\ initResult \in Working
      /\ call[t].role = "SLAVE" /\ call[t].slot \in 1 .. SlaveCnt
      /\ \A i \in DOMAIN array[r].slot : array[r].slot[i] = Garbage
  BY <1>1 DEF CallRecord, InOwnGet, InGet
<1>5. r \in Array /\ array[r] \in ArrayRecord /\ DOMAIN array[r].slot = 1 .. SlaveCnt
  BY <1>4 DEF LiveArray, Base, TablesTyped, Wide, ArrayRecord
<1>6. /\ new.state = array[r].state /\ DOMAIN new.slot = DOMAIN array[r].slot
      /\ \A i \in DOMAIN new.slot : new.slot[i] = NoPool
  BY <1>5 DEF ArrayRecord
<1> HIDE DEF new
<1>7. /\ array'[r] = new
      /\ \A a \in Array : a # r => array'[a] = array[a]
  BY <1>2, <1>5 DEF Base, TablesTyped
<1>8. /\ \A u \in Thread : u # t => call'[u] = call[u]
      /\ call'[t].at = "newSlave" /\ call'[t].db = d /\ call'[t].slot = call[t].slot
  BY <1>3, GotoFacts
<1>9. \A e \in DB : e # d => slave[e] # r
  BY <1>4, <1>5, NullAssumption DEF Base, Separate
<1>10. ASSUME NEW u \in Thread PROVE InOwnGet(u)'
  <2>1. CASE u = t
    <3>1. array'[slave'[d]].slot[call[t].slot] = NoPool
      BY <1>3, <1>4, <1>5, <1>6, <1>7
    <3> QED
      BY <1>1, <1>8, <2>1, <3>1 DEF InOwnGet
  <2>2. CASE u # t
    BY <1>1, <1>3, <1>7, <1>8, <1>9, <2>2, OthersKeepOwn DEF LiveArray
  <2> QED
    BY <2>1, <2>2
<1> HIDE DEF d, r
<1>11. \A a \in Array : array'[a].state = array[a].state
  BY <1>6, <1>7
<1>12. Kept'
  <2>1. ASSUME NEW q \in Pool, InTables(q) PROVE InTables(q)'
    <3>1. CASE \E e \in DB : master[e] = q
      BY <1>3, <3>1 DEF InTables
    <3>2. CASE ~\E e \in DB : master[e] = q
      <4>1. PICK e \in DB : LiveArray(slave[e]) /\ \E i \in DOMAIN array[slave[e]].slot :
                              array[slave[e]].slot[i] = q
        BY <2>1, <3>2 DEF InTables
      <4>2. slave[e] # r
        BY <1>4, <4>1, NullAssumption
      <4>3. array'[slave[e]] = array[slave[e]]
        BY <1>7, <4>1, <4>2 DEF LiveArray
      <4> QED
        BY <1>3, <4>1, <4>3 DEF InTables, LiveArray
    <3> QED
      BY <3>1, <3>2
  <2>2. \A a \in Array : LiveArray(a)' => \E e \in DB : slave'[e] = a
    BY <1>3, <1>11 DEF Own, Kept, LiveArray
  <2>3. \A q \in Pool : Alive(q)' => Alive(q)
    BY <1>3 DEF Alive
  <2> QED
    BY <2>1, <2>2, <2>3 DEF Own, Kept
<1>13. Cleared'
  <2> SUFFICES ASSUME NEW e \in DB, LiveArray(slave[e])',
                      NEW i \in DOMAIN array'[slave'[e]].slot,
                      array'[slave'[e]].slot[i] = Garbage
               PROVE  \E u \in Thread : call'[u].at = "memset" /\ call'[u].db = e
    BY DEF Cleared
  <2>1. slave[e] # r
    BY <1>3, <1>6, <1>7, NullAssumption
  <2>2. LiveArray(slave[e]) /\ array'[slave[e]] = array[slave[e]]
    BY <1>3, <1>7, <2>1 DEF LiveArray
  <2>3. PICK u \in Thread : call[u].at = "memset" /\ call[u].db = e
    BY <1>3, <2>2 DEF Own, Cleared
  <2>4. u # t
    BY <2>1, <2>3 DEF d, r
  <2> QED
    BY <1>8, <2>3, <2>4
<1>14. Founded'
  <2>1. Alive(master[DefaultDB])' /\ (Deleted => Deleted')
    BY <1>3, <1>4 DEF Own, Founded, Alive, Deleted
  <2>2. \A a \in Array : array'[a].state = "freed" => Deleted'
    BY <1>11, <2>1 DEF Own, Founded
  <2>3. \A q \in Pool : pool'[q].state = "none" => pool'[q].lent = 0
    BY <1>3 DEF Own, Founded
  <2> QED
    BY <1>3, <1>4, <2>1, <2>2, <2>3 DEF Founded
<1> QED
  BY <1>10, <1>12, <1>13, <1>14 DEF Own

\* The pool is created in the entry the thread found empty.
LEMMA NewSlaveKeepsOwn ==
  ASSUME Base, Own, Disjoint, NEW t \in Thread, NewSlave(t)
  PROVE  Own'
<1> DEFINE d == call[t].db
           j == call[t].slot
           r == slave[d]
           pnew == NewPool("SLAVE", d, slaveAddr[j])
<1>1. /\ call[t] \in CallRecord /\ InGet(call[t]) /\ InOwnGet(t)
      /\ call[t].at = "newSlave"
  BY DEF Base, Own, NewSlave, At
<1>2. PICK p \in FreshPool :
        /\ pool' = [pool EXCEPT ![p] = pnew]
        /\ array' = [array EXCEPT ![r].slot[j] = p]
  BY DEF NewSlave, SlotAddr
<1> DEFINE new == [array[r] EXCEPT !.slot = [@ EXCEPT ![j] = p]]
<1>3. UNCHANGED <<initResult, master, slave>> /\ Goto(t, "use")
  BY DEF NewSlave, config
<1>4. /\ d \in DB /\ LiveArray(r) /\ initResult \in Working
      /\ j \in 1 .. SlaveCnt /\ array[r].slot[j] = NoPool
  BY <1>1 DEF CallRecord, InOwnGet, InGet
<1>5. r \in Array /\ array[r] \in ArrayRecord /\ DOMAIN array[r].slot = 1 .. SlaveCnt
  BY <1>4 DEF LiveArray, Base, TablesTyped, Wide, ArrayRecord
<1>6. p \in Pool /\ p # NoPool /\ p # Garbage /\ ~Alive(p) /\ pool[p].state = "none"
  BY FreshFacts DEF FreshPool
<1>7. /\ new.state = array[r].state /\ DOMAIN new.slot = DOMAIN array[r].slot
      /\ j \in DOMAIN new.slot /\ new.slot[j] = p
      /\ \A i \in DOMAIN new.slot : i # j => new.slot[i] = array[r].slot[i]
  BY <1>4, <1>5 DEF ArrayRecord
<1>8. pnew.state = "alive"
  BY DEF NewPool
<1>9. array' = [array EXCEPT ![r] = new]
  BY <1>2
<1> HIDE DEF new, pnew
<1>10. /\ array'[r] = new
       /\ \A a \in Array : a # r => array'[a] = array[a]
  BY <1>5, <1>9 DEF Base, TablesTyped
<1>11. /\ pool'[p].state = "alive"
       /\ \A q \in Pool : q # p => pool'[q] = pool[q]
  BY <1>2, <1>6, <1>8 DEF Base, TablesTyped
<1>12. /\ \A u \in Thread : u # t => call'[u] = call[u]
       /\ call'[t].at = "use" /\ call'[t].db = d /\ call'[t].slot = j
  BY <1>3, GotoFacts
<1>13. \A e \in DB : e # d => slave[e] # r
  BY <1>4, <1>5, NullAssumption DEF Base, Separate
<1>14. ASSUME NEW u \in Thread PROVE InOwnGet(u)'
  <2>1. CASE u = t
    <3>1. array'[slave'[d]].slot[j] \in Pool
      BY <1>3, <1>6, <1>7, <1>10
    <3> QED
      BY <1>1, <1>12, <2>1, <3>1 DEF InOwnGet
  <2>2. CASE u # t
    BY <1>1, <1>3, <1>10, <1>12, <1>13, <2>2, OthersKeepOwn DEF LiveArray
  <2> QED
    BY <2>1, <2>2
<1> HIDE DEF d, j, r
<1>15. \A a \in Array : array'[a].state = array[a].state
  BY <1>7, <1>10
<1>16. /\ d \in DB /\ slave'[d] = r /\ r \in Array /\ array'[r].state = "live"
       /\ j \in DOMAIN array'[r].slot /\ array'[r].slot[j] = p
  <2>1. d \in DB /\ slave'[d] = r
    BY <1>3, <1>4 DEF r
  <2> QED
    BY <1>4, <1>5, <1>7, <1>10, <1>15, <2>1 DEF LiveArray
<1>17. \A a \in Array : \A i \in DOMAIN array'[a].slot :
         ~(a = r /\ i = j) => i \in DOMAIN array[a].slot
                              /\ array'[a].slot[i] = array[a].slot[i]
  BY <1>7, <1>10
<1>18. \A a \in Array : \A i \in DOMAIN array[a].slot :
         ~(a = r /\ i = j) => i \in DOMAIN array'[a].slot
                              /\ array'[a].slot[i] = array[a].slot[i]
  BY <1>7, <1>10
<1>19. Kept'
  <2>1. ASSUME NEW q \in Pool, InTables(q) PROVE InTables(q)'
    <3>1. CASE \E e \in DB : master[e] = q
      BY <1>3, <3>1 DEF InTables
    <3>2. CASE ~\E e \in DB : master[e] = q
      <4>1. PICK e \in DB : LiveArray(slave[e]) /\ \E i \in DOMAIN array[slave[e]].slot :
                              array[slave[e]].slot[i] = q
        BY <2>1, <3>2 DEF InTables
      <4>2. PICK i \in DOMAIN array[slave[e]].slot : array[slave[e]].slot[i] = q
        BY <4>1
      <4>3. ~(slave[e] = r /\ i = j)
        BY <1>4, <4>2, NullAssumption
      <4>4. i \in DOMAIN array'[slave[e]].slot /\ array'[slave[e]].slot[i] = q
        BY <1>18, <4>1, <4>2, <4>3 DEF LiveArray
      <4>5. LiveArray(slave[e])'
        BY <1>3, <1>15, <4>1 DEF LiveArray
      <4> QED
        BY <1>3, <4>4, <4>5 DEF InTables
    <3> QED
      BY <3>1, <3>2
  <2>2. InTables(p)'
    BY <1>16 DEF InTables, LiveArray
  <2>3. \A a \in Array : LiveArray(a)' => \E e \in DB : slave'[e] = a
    BY <1>3, <1>15 DEF Own, Kept, LiveArray
  <2>4. \A q \in Pool : Alive(q)' => q = p \/ Alive(q)
    BY <1>11 DEF Alive
  <2> QED
    BY <2>1, <2>2, <2>3, <2>4 DEF Own, Kept
<1>20. Cleared'
  <2> SUFFICES ASSUME NEW e \in DB, LiveArray(slave[e])',
                      NEW i \in DOMAIN array'[slave'[e]].slot,
                      array'[slave'[e]].slot[i] = Garbage
               PROVE  \E u \in Thread : call'[u].at = "memset" /\ call'[u].db = e
    BY DEF Cleared
  <2>1. LiveArray(slave[e]) /\ slave[e] \in Array
    BY <1>3, <1>15 DEF LiveArray
  <2>2. ~(slave[e] = r /\ i = j)
    BY <1>3, <1>6, <1>16
  <2>3. i \in DOMAIN array[slave[e]].slot /\ array[slave[e]].slot[i] = Garbage
    BY <1>3, <1>17, <2>1, <2>2
  <2>4. PICK u \in Thread : call[u].at = "memset" /\ call[u].db = e
    BY <2>1, <2>3 DEF Own, Cleared
  <2>5. u # t
    BY <1>1, <2>4
  <2> QED
    BY <1>12, <2>4, <2>5
<1>21. Founded'
  <2>1. Alive(master[DefaultDB])
    BY <1>4 DEF Own, Founded
  <2>2. Alive(master[DefaultDB])' /\ (Deleted => Deleted')
    BY <1>3, <1>6, <1>11, <2>1 DEF Alive, Deleted
  <2>3. \A a \in Array : array'[a].state = "freed" => Deleted'
    BY <1>15, <2>2 DEF Own, Founded
  <2>4. \A q \in Pool : pool'[q].state = "none" => pool'[q].lent = 0
    BY <1>11 DEF Own, Founded
  <2> QED
    BY <1>3, <1>4, <2>2, <2>3, <2>4 DEF Founded
<1> QED
  BY <1>14, <1>19, <1>20, <1>21 DEF Own

\* No Get is in progress.
LEMMA QuietOwn ==
  ASSUME Base, Quiet, call' = call
  PROVE  \A t \in Thread : InOwnGet(t)'
<1>1. \A t \in Thread : call'[t] = Idle
  BY DEF Quiet
<1> QED
  BY <1>1 DEF Idle, InOwnGet

\* While no Init stands, nothing is alive.
LEMMA NoneAlive ==
  ASSUME Base, Own, initResult \notin Working
  PROVE  /\ \A p \in Pool : ~Alive(p)
         /\ \A a \in Array : ~LiveArray(a)
<1>1. Nothing
  BY DEF Base
<1>2. \A a \in Array : ~LiveArray(a)
  BY <1>1 DEF Nothing, Own, Kept
<1>3. ASSUME NEW p \in Pool, Alive(p) PROVE FALSE
  <2>1. InTables(p)
    BY <1>3 DEF Own, Kept
  <2> QED
    BY <1>1, <1>3, <2>1 DEF Nothing, InTables
<1> QED
  BY <1>2, <1>3

LEMMA BadHostKeepsOwn ==
  ASSUME Base, Own, BadHost
  PROVE  Own'
<1>1. /\ UNCHANGED <<master, slave, array, pool, call>>
      /\ initResult = "none" /\ initResult' = "bad host" /\ Quiet
  BY DEF BadHost, tables
<1>2. Kept' /\ Cleared'
  <2>1. master' = master /\ slave' = slave /\ array' = array /\ pool' = pool
        /\ call' = call
    BY <1>1
  <2>2. Kept'
    BY <2>1 DEF Own, Kept, InTables, LiveArray, Alive
  <2>3. Cleared'
    BY <2>1 DEF Own, Cleared, LiveArray
  <2> QED
    BY <2>2, <2>3
<1>3. Founded'
  <2>1. initResult \notin Working /\ initResult' \notin Working
    BY <1>1 DEF Working
  <2> QED
    BY <1>1, <2>1 DEF Own, Founded, Deleted, Alive
<1> QED
  BY <1>1, <1>2, <1>3, QuietOwn DEF Own

LEMMA InitKeepsOwn ==
  ASSUME Base, Own, NEW a \in Addr, Init(a)
  PROVE  Own'
<1>1. PICK p \in FreshPool, reached \in BOOLEAN :
        /\ master' = [master EXCEPT ![DefaultDB] = p]
        /\ pool' = [pool EXCEPT ![p] = Probe(NewPool("MASTER", DefaultDB, a), reached)]
        /\ initResult' = IF reached THEN "ok" ELSE "unreachable"
  BY DEF Init
<1> DEFINE new == Probe(NewPool("MASTER", DefaultDB, a), reached)
<1>2. initResult = "none" /\ Quiet /\ UNCHANGED <<slave, array, call>>
  BY DEF Init
<1>3. new.state = "alive"
  BY DEF Probe, NewPool
<1>4. p \in Pool /\ pool[p].state = "none"
  BY DEF FreshPool
<1>5. pool' = [pool EXCEPT ![p] = new]
  BY <1>1
<1> HIDE DEF new
<1>6. pool'[p].state = "alive" /\ \A q \in Pool : q # p => pool'[q] = pool[q]
  BY <1>3, <1>4, <1>5 DEF Base, TablesTyped
<1>7. master'[DefaultDB] = p /\ initResult \notin Working /\ initResult' \in Working
  BY <1>1, <1>2, DBAssumption DEF Base, TablesTyped, Working
<1>8. (\A q \in Pool : ~Alive(q)) /\ \A b \in Array : ~LiveArray(b)
  BY <1>7, NoneAlive
<1>9. \A b : ~LiveArray(b)'
  BY <1>2, <1>8 DEF LiveArray
<1>10. \A q \in Pool : Alive(q)' => q = p
  BY <1>6, <1>8 DEF Alive
<1>11. Kept' /\ Cleared'
  BY <1>7, <1>9, <1>10, DBAssumption DEF Kept, InTables, Cleared
<1>12. Founded'
  <2>1. Deleted => Deleted'
    BY <1>4, <1>6 DEF Deleted
  <2>2. \A b \in Array : array'[b].state = "freed" => Deleted'
    BY <1>2, <2>1 DEF Own, Founded
  <2>3. Alive(master[DefaultDB])'
    BY <1>4, <1>6, <1>7 DEF Alive
  <2>4. \A q \in Pool : pool'[q].state = "none" => pool'[q].lent = 0
    BY <1>6 DEF Own, Founded
  <2> QED
    BY <1>7, <2>2, <2>3, <2>4 DEF Founded
<1> QED
  BY <1>2, <1>11, <1>12, QuietOwn DEF Own

LEMMA InitExKeepsOwn ==
  ASSUME Base, Own, NEW a \in Addr, NEW list \in SlaveLists, InitEx(a, list)
  PROVE  Own'
<1>1. CASE Crash
  BY <1>1, StutterKeepsOwn DEF Crash
<1>2. CASE ~Crash
  <2>1. /\ slaveAddr' = WithSlaves(list) /\ WithSlaves(list) # <<>>
        /\ call' = call /\ Quiet /\ initResult = "none"
    BY <1>2 DEF InitEx
  <2>2. PICK p \in FreshPool, q \in FreshPool, r \in FreshArray,
             onMaster \in BOOLEAN, onSlave \in BOOLEAN :
          /\ p # q
          /\ master' = [master EXCEPT ![DefaultDB] = p]
          /\ slave' = [slave EXCEPT ![DefaultDB] = r]
          /\ array' = [array EXCEPT ![r] =
               [state |-> "live",
                slot |-> [i \in DOMAIN slaveAddr' |-> IF i = 1 THEN q ELSE NoPool]]]
          /\ pool' = [pool EXCEPT
               ![p] = Probe(NewPool("MASTER", DefaultDB, a), onMaster),
               ![q] = Probe(NewPool("SLAVE", DefaultDB, slaveAddr'[1]), onSlave)]
          /\ initResult' = IF onMaster /\ onSlave THEN "ok" ELSE "unreachable"
    BY <1>2 DEF InitEx
  <2> DEFINE pnew == Probe(NewPool("MASTER", DefaultDB, a), onMaster)
             qnew == Probe(NewPool("SLAVE", DefaultDB, slaveAddr'[1]), onSlave)
             new == [state |-> "live",
                     slot |-> [i \in DOMAIN slaveAddr' |-> IF i = 1 THEN q ELSE NoPool]]
  <2>3. 1 \in DOMAIN slaveAddr'
    <3>1. slaveAddr \in Seq(Addr) /\ list \in Seq(Addr)
      BY ListAssumption DEF Base, ConfigTyped
    <3>2. WithSlaves(list) \in Seq(Addr)
      BY <3>1 DEF WithSlaves
    <3> QED
      BY <2>1, <3>2
  <2>4. /\ p \in Pool /\ p # NoPool /\ p # Garbage /\ pool[p].state = "none"
        /\ q \in Pool /\ q # NoPool /\ q # Garbage /\ pool[q].state = "none"
        /\ r \in Array
    BY FreshFacts DEF FreshPool
  <2>5. pnew.state = "alive" /\ qnew.state = "alive"
    BY DEF Probe, NewPool
  <2>6. /\ new.state = "live" /\ 1 \in DOMAIN new.slot /\ new.slot[1] = q
        /\ \A i \in DOMAIN new.slot : new.slot[i] # Garbage
    BY <2>3, <2>4, NullAssumption
  <2>7. /\ pool' = [pool EXCEPT ![p] = pnew, ![q] = qnew]
        /\ array' = [array EXCEPT ![r] = new]
    BY <2>2
  <2> HIDE DEF pnew, qnew, new
  <2>8. /\ pool'[p].state = "alive" /\ pool'[q].state = "alive"
        /\ \A x \in Pool : x # p /\ x # q => pool'[x] = pool[x]
    BY <2>2, <2>4, <2>5, <2>7 DEF Base, TablesTyped
  <2>9. array'[r] = new /\ \A b \in Array : b # r => array'[b] = array[b]
    BY <2>4, <2>7 DEF Base, TablesTyped
  <2>10. master'[DefaultDB] = p /\ slave'[DefaultDB] = r
    BY <2>2, DBAssumption DEF Base, TablesTyped
  <2>11. initResult' \in Working /\ initResult \notin Working
    BY <2>1, <2>2 DEF Working
  <2>12. /\ \A x \in Pool : Alive(x)' => x = p \/ x = q
         /\ \A b : LiveArray(b)' => b = r
    BY <2>8, <2>9, <2>11, NoneAlive DEF Alive, LiveArray
  <2>13. LiveArray(slave[DefaultDB])'
    BY <2>4, <2>6, <2>9, <2>10 DEF LiveArray
  <2>14. Kept'
    <3>1. InTables(p)' /\ InTables(q)'
      BY <2>6, <2>9, <2>10, <2>13, DBAssumption DEF InTables
    <3> QED
      BY <2>10, <2>12, <3>1, DBAssumption DEF Kept
  <2>15. Cleared'
    BY <2>6, <2>9, <2>12 DEF Cleared
  <2>16. Founded'
    <3>1. Deleted => Deleted'
      BY <2>4, <2>8 DEF Deleted
    <3>2. \A b \in Array : array'[b].state = "freed" => Deleted'
      BY <2>6, <2>9, <3>1 DEF Own, Founded
    <3>3. Alive(master[DefaultDB])'
      BY <2>4, <2>8, <2>10 DEF Alive
    <3>4. \A x \in Pool : pool'[x].state = "none" => pool'[x].lent = 0
      BY <2>8 DEF Own, Founded
    <3> QED
      BY <2>11, <3>2, <3>3, <3>4 DEF Founded
  <2> QED
    BY <2>1, <2>14, <2>15, <2>16, QuietOwn DEF Own
<1> QED
  BY <1>1, <1>2

\* Every pool is in a table, so deleting what the tables lead to deletes them all.
LEMMA DeleteKeepsOwn ==
  ASSUME Base, Own, Flush \/ Destroy
  PROVE  Own'
<1>1. CASE Crash
  BY <1>1, StutterKeepsOwn DEF Crash
<1>2. CASE ~Crash
  <2>1. DeleteAll /\ initResult' = "none" /\ Quiet /\ call' = call
    BY <1>2 DEF Flush, Destroy
  <2> DEFINE S == PoolsOf("MASTER") \cup PoolsOf("SLAVE")
  <2>2. /\ UNCHANGED <<master, slave>>
        /\ \A p \in Pool : \/ pool'[p] = pool[p] /\ p \notin S
                           \/ pool'[p].state = "deleted" /\ p \in S
        /\ \A a \in Array :
             \/ array'[a] = array[a] /\ \A d \in DB : slave[d] # a
             \/ array'[a] = [state |-> "freed", slot |-> <<>>] /\ \E d \in DB : slave[d] = a
    BY <2>1, DeleteFacts
  <2>3. \A p \in Pool : InTables(p) => p \in S
    <3>1. \A d \in DB : master[d] \in Pool => master[d] \in PoolsOf("MASTER")
      BY DEF PoolsOf
    <3>2. \A d \in DB : LiveArray(slave[d]) => \A i \in DOMAIN array[slave[d]].slot :
            array[slave[d]].slot[i] \in Pool => array[slave[d]].slot[i] \in PoolsOf("SLAVE")
      <4> TAKE d \in DB
      <4> SUFFICES ASSUME LiveArray(slave[d]), NEW i \in DOMAIN array[slave[d]].slot,
                          array[slave[d]].slot[i] \in Pool
                   PROVE  array[slave[d]].slot[i] \in PoolsOf("SLAVE")
        OBVIOUS
      <4>1. SlaveSlots(d) = array[slave[d]].slot
        BY DEF SlaveSlots
      <4>2. SlaveSlots(d)[i] \in {SlaveSlots(d)[j] : j \in DOMAIN SlaveSlots(d)}
        BY <4>1
      <4>3. SlaveSlots(d)[i] \in
              UNION {{SlaveSlots(e)[j] : j \in DOMAIN SlaveSlots(e)} : e \in DB}
        BY <4>2
      <4> QED
        BY <4>1, <4>3 DEF PoolsOf
    <3> QED
      BY <3>1, <3>2 DEF InTables
  <2>4. \A d \in DB : master[d] \in Pool => master[d] \in S
    BY <2>3 DEF InTables
  <2> HIDE DEF S
  <2>5. \A p \in Pool : ~Alive(p)'
    BY <2>2, <2>3 DEF Own, Kept, Alive
  <2>6. \A a : ~LiveArray(a)'
    BY <2>2 DEF Own, Kept, LiveArray
  <2>7. Kept' /\ Cleared'
    BY <2>5, <2>6 DEF Kept, Cleared
  <2>8. initResult' \notin Working
    BY <2>1 DEF Working
  <2>9. Deleted => Deleted'
    BY <2>2 DEF Deleted
  <2>10. initResult \in Working => Deleted'
    BY <2>2, <2>4, DBAssumption DEF Own, Founded, Alive, Deleted
  <2>11. Deleted' \/ \A d \in DB : master[d] = NoPool /\ slave[d] = NoArray
    BY <2>9, <2>10 DEF Own, Founded
  <2>12. \A a \in Array : array'[a].state = "freed" => Deleted'
    BY <2>2, <2>9, <2>11, NullAssumption DEF Own, Founded
  <2>13. \A p \in Pool : pool'[p].state = "none" => pool'[p].lent = 0
    BY <2>2 DEF Own, Founded
  <2>14. Founded'
    BY <2>2, <2>8, <2>11, <2>12, <2>13 DEF Founded
  <2> QED
    BY <2>1, <2>7, <2>14, QuietOwn DEF Own
<1> QED
  BY <1>1, <1>2

LEMMA StartOwn == Start => Own
<1> SUFFICES ASSUME Start PROVE Own
  OBVIOUS
<1>1. /\ master = [d \in DB |-> NoPool] /\ slave = [d \in DB |-> NoArray]
      /\ array = [a \in Array |-> [state |-> "none", slot |-> <<>>]]
      /\ pool = [p \in Pool |-> Unallocated]
      /\ call = [t \in Thread |-> Idle] /\ initResult = "none"
  BY DEF Start
<1>2. Unallocated.state = "none" /\ Unallocated.lent = 0
  BY DEF Unallocated, NewPool
<1>3. (\A p : ~Alive(p)) /\ \A a : ~LiveArray(a)
  BY <1>1, <1>2 DEF Alive, LiveArray
<1>4. Kept /\ Cleared
  BY <1>3 DEF Kept, Cleared
<1>5. Founded
  BY <1>1, <1>2 DEF Founded, Working
<1>6. \A t \in Thread : InOwnGet(t)
  BY <1>1 DEF InOwnGet, Idle
<1> QED
  BY <1>4, <1>5, <1>6 DEF Own

LEMMA NextOwn ==
  ASSUME Base, Own, Disjoint, [Next]_vars
  PROVE  Own'
<1>1. CASE UNCHANGED vars
  BY <1>1, StutterKeepsOwn DEF vars
<1>2. CASE Next
  <2>1. ASSUME NEW t \in Thread, Step(t) PROVE Own'
    BY <2>1, GetKeepsOwn, TestsKeepOwn, NewMasterKeepsOwn, MallocKeepsOwn,
       ClearKeepsOwn, NewSlaveKeepsOwn, CountsKeepOwn DEF Step
  <2> QED
    BY <1>2, <2>1, BadHostKeepsOwn, InitKeepsOwn, InitExKeepsOwn, DeleteKeepsOwn,
       PutKeepsOwn DEF Next
<1> QED
  BY <1>1, <1>2

LEMMA OwnHolds == ASSUME Disjoint PROVE Spec => [](Base /\ Own)
<1>1. Start => Base /\ Own
  BY StartBase, StartOwn
<1>2. Base /\ Own /\ [Next]_vars => (Base /\ Own)'
  BY NextBase, NextOwn
<1> QED
  BY <1>1, <1>2, PTL DEF Spec
-----------------------------------------------------------------------------
(***************************************************************************)
(* What follows for threads on different databases.                        *)
(***************************************************************************)
\* A pool alive is in one place: the place its role and database name, or the
\* entry of the one array that holds it.
LEMMA OnePlace ==
  ASSUME Base, Own, NEW p \in Pool, Alive(p)
  PROVE  \E place : Places(p) = {place}
<1>1. InTables(p)
  BY DEF Own, Kept
<1>2. \A d \in DB : MasterRight(d) /\ SlaveRight(d)
  BY DEF Base, Right
<1>3. \A d \in DB : master[d] = p => pool[p].role = "MASTER" /\ pool[p].db = d
  BY <1>2 DEF MasterRight
<1>4. \A d \in DB : \A i \in DOMAIN SlaveSlots(d) : SlaveSlots(d)[i] = p =>
        /\ LiveArray(slave[d]) /\ i \in DOMAIN array[slave[d]].slot
        /\ array[slave[d]].slot[i] = p /\ pool[p].role = "SLAVE" /\ pool[p].db = d
  <2> TAKE d \in DB
  <2> TAKE i \in DOMAIN SlaveSlots(d)
  <2> SUFFICES ASSUME SlaveSlots(d)[i] = p
               PROVE  /\ LiveArray(slave[d]) /\ i \in DOMAIN array[slave[d]].slot
                      /\ array[slave[d]].slot[i] = p
                      /\ pool[p].role = "SLAVE" /\ pool[p].db = d
    OBVIOUS
  <2>1. LiveArray(slave[d]) /\ SlaveSlots(d) = array[slave[d]].slot
    BY DEF SlaveSlots
  <2>2. SlaveRight(d)
    BY <1>2
  <2> QED
    BY <2>1, <2>2 DEF SlaveRight
<1>5. CASE \E d \in DB : master[d] = p
  <2>1. PICK d \in DB : master[d] = p
    BY <1>5
  <2>2. {e \in DB : master[e] = p} = {d}
    BY <1>3, <2>1
  <2>3. \A e \in DB : {j \in DOMAIN SlaveSlots(e) : SlaveSlots(e)[j] = p} = {}
    BY <1>3, <1>4, <2>1
  <2>4. Places(p) = {<<"MASTER", d, 0>>}
    BY <2>2, <2>3 DEF Places
  <2> QED
    BY <2>4
<1>6. CASE ~\E d \in DB : master[d] = p
  <2>1. PICK d \in DB : /\ LiveArray(slave[d])
                        /\ \E i \in DOMAIN array[slave[d]].slot : array[slave[d]].slot[i] = p
    BY <1>1, <1>6 DEF InTables
  <2>2. PICK i \in DOMAIN array[slave[d]].slot : array[slave[d]].slot[i] = p
    BY <2>1
  <2>3. SlaveSlots(d) = array[slave[d]].slot /\ slave[d] \in Array
    BY <2>1 DEF SlaveSlots, LiveArray
  <2>4. ASSUME NEW e \in DB, NEW j \in DOMAIN SlaveSlots(e), SlaveSlots(e)[j] = p
        PROVE  e = d /\ j = i
    <3>1. e = d
      BY <1>4, <2>2, <2>3, <2>4
    <3>2. j \in DOMAIN array[slave[d]].slot /\ array[slave[d]].slot[j] = p
      BY <2>3, <2>4, <3>1
    <3>3. Separate
      BY DEF Base
    <3> QED
      BY <2>2, <2>3, <3>1, <3>2, <3>3 DEF Separate
  <2>5. {e \in DB : master[e] = p} = {}
    BY <1>6
  <2>6. Places(p) = {<<"SLAVE", d, i>>}
    <3>1. {j \in DOMAIN SlaveSlots(d) : SlaveSlots(d)[j] = p} = {i}
      BY <2>2, <2>3, <2>4
    <3>2. \A e \in DB : e # d => {j \in DOMAIN SlaveSlots(e) : SlaveSlots(e)[j] = p} = {}
      BY <2>4
    <3> QED
      BY <2>5, <3>1, <3>2 DEF Places
  <2> QED
    BY <2>6
<1> QED
  BY <1>5, <1>6

\* While each thread keeps to databases of its own, a pool that lives is in exactly
\* one place: InitConnectionPool (cloredis.cc:72-96) creates no pool twice.
THEOREM PoolsCreatedOnce == ASSUME Disjoint PROVE Spec => []NoPoolLost
<1>1. ASSUME Base, Own, NEW p \in Pool, Alive(p) PROVE Cardinality(Places(p)) = 1
  <2>1. PICK place : Places(p) = {place}
    BY <1>1, OnePlace
  <2> QED
    BY <2>1, FS_Singleton
<1>2. Base /\ Own => NoPoolLost
  BY <1>1 DEF NoPoolLost
<1> QED
  BY <1>2, OwnHolds, PTL

\* While each thread keeps to databases of its own, the destructor leaves no pool
\* and no array behind (cloredis.cc:48-66).
THEOREM DestructorFreesAll == ASSUME Disjoint PROVE Spec => []NothingLeaked
<1>1. Base /\ Own => NothingLeaked
  BY NoneAlive DEF Base, Working, NothingLeaked, Alive, LiveArray
<1> QED
  BY <1>1, OwnHolds, PTL

\* What the tables name and cannot be used was deleted.
LEMMA DanglingDeleted ==
  ASSUME Base, Own, Quiet, Dangling
  PROVE  Deleted
<1> USE NullAssumption
<1>1. TablesTyped /\ Allocated
  BY DEF Base
<1>2. ASSUME NEW d \in DB, master[d] # NoPool /\ ~Alive(master[d]) PROVE Deleted
  <2>1. master[d] \in Pool
    BY <1>1, <1>2 DEF TablesTyped
  <2>2. pool[master[d]].state \in {"none", "alive", "deleted"}
    BY <1>1, <2>1 DEF TablesTyped, PoolRecord
  <2> QED
    BY <1>1, <1>2, <2>1, <2>2 DEF Allocated, Alive, Deleted
<1>3. ASSUME NEW d \in DB, slave[d] # NoArray /\ ~LiveArray(slave[d]) PROVE Deleted
  <2>1. slave[d] \in Array
    BY <1>1, <1>3 DEF TablesTyped
  <2>2. array[slave[d]].state \in {"none", "live", "freed"}
    BY <1>1, <2>1 DEF TablesTyped, ArrayRecord
  <2>3. array[slave[d]].state = "freed"
    BY <1>1, <1>3, <2>1, <2>2 DEF Allocated, LiveArray
  <2> QED
    BY <2>1, <2>3 DEF Own, Founded
<1>4. ASSUME NEW d \in DB, NEW i \in DOMAIN SlaveSlots(d),
             SlaveSlots(d)[i] # NoPool /\ ~Alive(SlaveSlots(d)[i])
      PROVE  Deleted
  <2>1. LiveArray(slave[d]) /\ SlaveSlots(d) = array[slave[d]].slot
    BY <1>4 DEF SlaveSlots
  <2> DEFINE p == array[slave[d]].slot[i]
  <2>2. p \in Entries
    BY <1>1, <1>4, <2>1 DEF TablesTyped, ArrayRecord, LiveArray
  <2>3. p # Garbage
    <3>1. \A t \in Thread : call[t].at # "memset"
      BY DEF Quiet, Idle
    <3> QED
      BY <1>4, <2>1, <3>1 DEF Own, Cleared
  <2>4. p \in Pool /\ ~Alive(p)
    BY <1>4, <2>1, <2>2, <2>3 DEF Entries
  <2>5. pool[p].state # "none"
    BY <1>1, <1>4, <2>1, <2>4 DEF Allocated, LiveArray
  <2>6. pool[p].state \in {"none", "alive", "deleted"}
    BY <1>1, <2>4 DEF TablesTyped, PoolRecord
  <2> QED
    BY <2>4, <2>5, <2>6 DEF Alive, Deleted
<1> QED
  BY <1>2, <1>3, <1>4 DEF Dangling

\* Nothing is done after an invalid access, and one only happens when something
\* was deleted.
LEMMA StepSafe ==
  ASSUME Base, Own, Usable, Next
  PROVE  ~crashed /\ (crashed' = crashed \/ (Deleted /\ pool' = pool))
<1> USE NullAssumption
<1>1. Crash => pool' = pool
  BY DEF Crash, tables
<1>2. TablesTyped /\ Allocated /\ Wide
  BY DEF Base
<1>3. ASSUME NEW p \in Pool, ~Alive(p), pool[p].state # "none" PROVE Deleted
  <2>1. pool[p].state \in {"none", "alive", "deleted"}
    BY <1>2 DEF TablesTyped, PoolRecord
  <2> QED
    BY <1>3, <2>1 DEF Alive, Deleted
<1>4. CASE BadHost \/ \E a \in Addr : Init(a)
  BY <1>4 DEF BadHost, Init, Quiet
<1>5. ASSUME NEW a \in Addr, NEW list \in SlaveLists, InitEx(a, list)
      PROVE  ~crashed /\ (crashed' = crashed \/ (Deleted /\ pool' = pool))
  <2>1. ~crashed /\ initResult \notin Working
    BY <1>5 DEF InitEx, Quiet, Working
  <2>2. WithSlaves(list) # <<>>
    <3>1. /\ list \in Seq(Addr) /\ slaveAddr \in Seq(Addr)
          /\ list # <<>> /\ Len(list) < MaxSlaveCnt
      BY ListAssumption DEF Usable, Base, ConfigTyped
    <3>2. slaveAddr \o list # <<>>
      BY <3>1
    <3> QED
      BY <3>1, <3>2 DEF WithSlaves
  <2>3. slave[DefaultDB] # NoArray => Deleted
    BY <2>1, DBAssumption DEF Own, Founded
  <2> QED
    BY <1>1, <1>5, <2>1, <2>2, <2>3 DEF InitEx
<1>6. CASE Flush \/ Destroy
  BY <1>1, <1>6, DanglingDeleted DEF Flush, Destroy, Quiet
<1>7. ASSUME NEW t \in Thread, TestSlave(t)
      PROVE  ~crashed /\ (crashed' = crashed \/ (Deleted /\ pool' = pool))
  <2> DEFINE k == call[t]
  <2>1. k \in CallRecord /\ InGet(k) /\ k.at = "slave" /\ ~crashed
    BY <1>7 DEF Base, TestSlave, At
  <2>2. k.db \in DB /\ k.role = "SLAVE" /\ k.slot \in 1 .. SlaveCnt
    BY <2>1 DEF CallRecord, InGet
  <2>3. CASE slave[k.db] # NoArray /\ k.slot \notin DOMAIN SlaveSlots(k.db)
    <3>1. pool' = pool
      BY <1>1, <1>7, <2>3 DEF TestSlave
    <3>2. slave[k.db] \in Array
      BY <1>2, <2>2, <2>3 DEF TablesTyped
    <3>3. ~LiveArray(slave[k.db])
      <4>1. SUFFICES ASSUME LiveArray(slave[k.db]) PROVE FALSE
        OBVIOUS
      <4>2. array[slave[k.db]].slot \in Seq(Entries)
        BY <1>2, <3>2 DEF TablesTyped, ArrayRecord
      <4>3. Len(array[slave[k.db]].slot) = SlaveCnt
        BY <1>2, <2>2, <4>1 DEF Wide
      <4> QED
        BY <2>2, <2>3, <4>1, <4>2, <4>3 DEF SlaveSlots
    <3>4. array[slave[k.db]].state \in {"none", "live", "freed"}
      BY <1>2, <3>2 DEF TablesTyped, ArrayRecord
    <3>5. array[slave[k.db]].state = "freed"
      BY <1>2, <2>2, <3>2, <3>3, <3>4 DEF Allocated, LiveArray
    <3>6. Deleted
      BY <3>2, <3>5 DEF Own, Founded
    <3> QED
      BY <2>1, <3>1, <3>6
  <2>4. CASE ~(slave[k.db] # NoArray /\ k.slot \notin DOMAIN SlaveSlots(k.db))
    BY <1>7, <2>1, <2>4 DEF TestSlave
  <2> QED
    BY <2>3, <2>4
<1>8. ASSUME NEW t \in Thread, UsePool(t)
      PROVE  ~crashed /\ (crashed' = crashed \/ (Deleted /\ pool' = pool))
  <2> DEFINE k == call[t]
             p == IF k.role = "MASTER" THEN master[k.db] ELSE Entry(k.db, k.slot)
  <2>1. k \in CallRecord /\ InGet(k) /\ InOwnGet(t) /\ k.at = "use" /\ ~crashed
    BY <1>8 DEF Base, Own, UsePool, At
  <2>2. k.db \in DB /\ k.role \in {"MASTER", "SLAVE"}
    BY <2>1 DEF CallRecord, Role
  <2>3. p \in Pool /\ pool[p].state # "none"
    <3>1. CASE k.role = "MASTER"
      BY <1>2, <2>1, <2>2, <3>1 DEF InGet, Allocated
    <3>2. CASE k.role = "SLAVE"
      <4>1. LiveArray(slave[k.db]) /\ k.slot \in 1 .. SlaveCnt
        BY <2>1, <3>2 DEF InGet
      <4>2. array[slave[k.db]].slot[k.slot] \in Pool
        BY <2>1, <3>2 DEF InOwnGet
      <4>3. k.slot \in DOMAIN array[slave[k.db]].slot
        BY <1>2, <2>2, <4>1 DEF Wide, TablesTyped, ArrayRecord, LiveArray
      <4>4. pool[array[slave[k.db]].slot[k.slot]].state # "none"
        BY <1>2, <4>1, <4>2, <4>3 DEF Allocated, LiveArray
      <4> QED
        BY <3>2, <4>2, <4>4 DEF Entry
    <3> QED
      BY <2>2, <3>1, <3>2
  <2>4. ~Alive(p) => pool' = pool
    BY <1>1, <1>8 DEF UsePool
  <2>5. Alive(p) => crashed' = crashed
    BY <1>8, SMTT(60) DEF UsePool
  <2> HIDE DEF p
  <2> QED
    BY <1>3, <2>1, <2>3, <2>4, <2>5
<1>9. ASSUME NEW t \in Thread, Step(t), ~TestSlave(t), ~UsePool(t)
      PROVE  ~crashed /\ crashed' = crashed
  BY <1>9 DEF Step, At, Get, TestMaster, NewMaster, TestArray, MallocArray, ClearArray,
     NewSlave
<1>10. ASSUME NEW p \in Pool, Put(p)
       PROVE  ~crashed /\ (crashed' = crashed \/ (Deleted /\ pool' = pool))
  <2>1. pool[p].state # "none"
    <3>1. pool[p].state = "none" => pool[p].lent = 0
      BY DEF Own, Founded
    <3> QED
      BY <1>10, <3>1 DEF Put
  <2> QED
    BY <1>1, <1>3, <1>10, <2>1 DEF Put
<1> QED
  BY <1>4, <1>5, <1>6, <1>7, <1>8, <1>9, <1>10 DEF Next

\* While each thread keeps to databases of its own, and the application gives
\* InitEx lists it can use, nothing invalid is accessed until a Flush (or the
\* destructor) has deleted a pool and left its pointers (cloredis.cc:53-66).
THEOREM SafeBeforeFlush == ASSUME Disjoint, Usable PROVE Spec => []SafeUntilFlush
<1>1. Start => SafeUntilFlush
  BY DEF Start, SafeUntilFlush
<1>2. ASSUME Base, Own, SafeUntilFlush, [Next]_vars PROVE SafeUntilFlush'
  <2>1. CASE UNCHANGED vars
    BY <1>2, <2>1 DEF vars, tables, SafeUntilFlush
  <2>2. CASE Next
    BY <1>2, <2>2, StepSafe DEF SafeUntilFlush, Deleted
  <2> QED
    BY <1>2, <2>1, <2>2
<1> QED
  BY <1>1, <1>2, OwnHolds, PTL DEF Spec

(***************************************************************************)
(* The counters.                                                           *)
(***************************************************************************)
\* Without dangling pointers the counting functions visit the pools of a role
\* that are alive, and no others.
LEMMA PoolsCounted ==
  ASSUME Base, Own, ~Dangling, NEW role \in Role
  PROVE  PoolsOf(role) = {p \in Pool : Alive(p) /\ pool[p].role = role}
<1> USE NullAssumption
<1>1. Kept /\ Right
  BY DEF Own, Base
<1>2. ASSUME NEW d \in DB, master[d] \in Pool
      PROVE  Alive(master[d]) /\ pool[master[d]].role = "MASTER"
  BY <1>1, <1>2 DEF Dangling, Right, MasterRight
<1>3. ASSUME NEW d \in DB, NEW i \in DOMAIN SlaveSlots(d), SlaveSlots(d)[i] \in Pool
      PROVE  Alive(SlaveSlots(d)[i]) /\ pool[SlaveSlots(d)[i]].role = "SLAVE"
  <2>1. Alive(SlaveSlots(d)[i])
    BY <1>3 DEF Dangling
  <2>2. LiveArray(slave[d]) /\ SlaveSlots(d) = array[slave[d]].slot
    BY DEF SlaveSlots
  <2> QED
    BY <1>1, <2>1, <2>2 DEF Right, SlaveRight
<1>4. ASSUME NEW p \in Pool, Alive(p)
      PROVE  \/ \E d \in DB : master[d] = p
             \/ \E d \in DB : \E i \in DOMAIN SlaveSlots(d) : SlaveSlots(d)[i] = p
  BY <1>1, <1>4 DEF Kept, InTables, SlaveSlots
<1>5. CASE role = "MASTER"
  <2>1. PoolsOf(role) = {master[d] : d \in DB} \cap Pool
    BY <1>5 DEF PoolsOf
  <2> QED
    BY <1>2, <1>3, <1>4, <1>5, <2>1
<1>6. CASE role = "SLAVE"
  <2>1. PoolsOf(role) =
          (UNION {{SlaveSlots(d)[i] : i \in DOMAIN SlaveSlots(d)} : d \in DB}) \cap Pool
    BY <1>6 DEF PoolsOf
  <2> QED
    BY <1>2, <1>3, <1>4, <1>6, <2>1
<1> QED
  BY <1>5, <1>6 DEF Role

\* The difference of the two counters is the sum of what the pools have lent.
LEMMA CountersSubtract ==
  ASSUME TablesTyped, NEW S \in SUBSET Pool
  PROVE  MapThenSumSet(LAMBDA p : pool[p].lent + pool[p].idle, S)
           - MapThenSumSet(LAMBDA p : pool[p].idle, S)
         = MapThenSumSet(LAMBDA p : pool[p].lent, S)
<1> DEFINE L == [p \in S |-> pool[p].lent]
           I == [p \in S |-> pool[p].idle]
           A == [p \in S |-> pool[p].lent + pool[p].idle]
           Ls(f) == f = [T \in SUBSET S |->
                          IF T = {} THEN 0 ELSE pool[Pick(T)].lent + f[T \ {Pick(T)}]]
           Is(f) == f = [T \in SUBSET S |->
                          IF T = {} THEN 0 ELSE pool[Pick(T)].idle + f[T \ {Pick(T)}]]
           As(f) == f = [T \in SUBSET S |->
                          IF T = {} THEN 0
                          ELSE pool[Pick(T)].lent + pool[Pick(T)].idle + f[T \ {Pick(T)}]]
<1>1. IsFiniteSet(S)
  BY PoolAssumption, FS_Subset
<1>2. L \in [S -> Int] /\ I \in [S -> Int] /\ A \in [S -> Int]
  BY UseAssumption DEF TablesTyped, PoolRecord
<1>3. \A p \in S : L[p] = A[p] - I[p]
  BY <1>2
<1>4. \A T \in SUBSET S : T # {} =>
        /\ L[Pick(T)] = pool[Pick(T)].lent /\ I[Pick(T)] = pool[Pick(T)].idle
        /\ A[Pick(T)] = pool[Pick(T)].lent + pool[Pick(T)].idle
  BY DEF Pick
<1> HIDE DEF L, I, A
<1>5. \A f \in [SUBSET S -> Int] : /\ Sums(f, L, S) => Ls(f)
                                   /\ Sums(f, I, S) => Is(f)
                                   /\ Sums(f, A, S) => As(f)
  BY <1>4 DEF Sums
<1>6. \A f : /\ Ls(f) => Sums(f, L, S)
             /\ Is(f) => Sums(f, I, S)
             /\ As(f) => Sums(f, A, S)
  BY <1>4 DEF Sums
<1> HIDE DEF Ls, Is, As
<1>7. (\E f : Ls(f)) /\ (\E f : Is(f)) /\ (\E f : As(f))
  BY <1>1, <1>2, <1>5, SumExists
<1> DEFINE l == CHOOSE f : Ls(f)
           i == CHOOSE f : Is(f)
           a == CHOOSE f : As(f)
<1>8. Ls(l) /\ Is(i) /\ As(a)
  BY <1>7
<1>9. Sums(l, L, S) /\ Sums(i, I, S) /\ Sums(a, A, S)
  BY <1>6, <1>8
<1>10. /\ l[S] = MapThenSumSet(LAMBDA p : pool[p].lent, S)
       /\ i[S] = MapThenSumSet(LAMBDA p : pool[p].idle, S)
       /\ a[S] = MapThenSumSet(LAMBDA p : pool[p].lent + pool[p].idle, S)
  BY DEF Ls, Is, As, Pick, MapThenSumSet, MapThenFoldSet
<1> HIDE DEF l, i, a
<1>11. l[S] = a[S] - i[S]
  BY <1>1, <1>2, <1>3, <1>9, SumDifference
<1> QED
  BY <1>10, <1>11 DEF MapThenSumSet, MapThenFoldSet

\* ConnectionInUse is the number of connections the application holds (test.cc:
\* 34-47): while each thread keeps to databases of its own no pool that lends
\* connections is missing from the tables, and until Flush leaves dangling
\* pointers nothing else is counted.
THEOREM InUseCounted == ASSUME Disjoint PROVE Spec => []InUseExact
<1>1. ASSUME Base, Own PROVE InUseExact
  <2> SUFFICES ASSUME ~Dangling, NEW role \in Role
               PROVE  ConnectionInUse(role) =
                        MapThenSumSet(LAMBDA p : pool[p].lent,
                                      {p \in Pool : Alive(p) /\ pool[p].role = role})
    BY DEF InUseExact
  <2> DEFINE S == {p \in Pool : Alive(p) /\ pool[p].role = role}
  <2>1. PoolsOf(role) = S
    BY <1>1, PoolsCounted
  <2>2. TablesTyped /\ S \in SUBSET Pool
    BY <1>1 DEF Base
  <2> HIDE DEF S
  <2>3. MapThenSumSet(LAMBDA p : pool[p].lent + pool[p].idle, S)
           - MapThenSumSet(LAMBDA p : pool[p].idle, S)
         = MapThenSumSet(LAMBDA p : pool[p].lent, S)
    BY <2>2, CountersSubtract DEF MapThenSumSet, MapThenFoldSet
  <2>4. ConnectionInUse(role) = MapThenSumSet(LAMBDA p : pool[p].lent, S)
    BY <2>1, <2>3 DEF ConnectionInUse, ActiveConnectionCount, ConnectionInPool,
       MapThenSumSet, MapThenFoldSet
  <2> QED
    BY <2>4 DEF S, MapThenSumSet, MapThenFoldSet
<1> QED
  BY <1>1, OwnHolds, PTL
=============================================================================
