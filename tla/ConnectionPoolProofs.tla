------------------------ MODULE ConnectionPoolProofs ------------------------
(***************************************************************************)
(* Theorems about ConnectionPool, for every number of threads and blocks   *)
(* and every setting of the options.                                       *)
(***************************************************************************)
EXTENDS ConnectionPool, FiniteSetTheorems, SequenceTheorems, TLAPS

(***************************************************************************)
(* The idle list as a sequence.                                            *)
(***************************************************************************)

\* What popping the front of a list leaves: its blocks but the first, once.
LEMMA PopFrontProperties ==
  ASSUME NEW S, NEW list \in Seq(S), list # <<>>
  PROVE  /\ PopFront(list) \in Seq(S)
         /\ Len(PopFront(list)) = Len(list) - 1
         /\ \A i \in 1 .. Len(list) - 1 : PopFront(list)[i] = list[i + 1]
         /\ Head(list) = list[1] /\ list[1] \in S
BY DEF PopFront

\* What popping the back of a list leaves: its blocks but the last, once.
LEMMA PopBackProperties ==
  ASSUME NEW S, NEW list \in Seq(S), list # <<>>
  PROVE  /\ PopBack(list) \in Seq(S)
         /\ Len(PopBack(list)) = Len(list) - 1
         /\ \A i \in 1 .. Len(list) - 1 : PopBack(list)[i] = list[i]
         /\ list[Len(list)] \in S
<1>1. Len(list) \in Nat \ {0} /\ list \in [1 .. Len(list) -> S]
  OBVIOUS
<1>2. \A i \in 1 .. Len(list) - 1 : list[i] \in S
  BY <1>1
<1>3. /\ PopBack(list) \in Seq(S)
      /\ Len(PopBack(list)) = Len(list) - 1
      /\ \A i \in 1 .. Len(list) - 1 : PopBack(list)[i] = list[i]
  BY <1>1, <1>2, SubSeqProperties DEF PopBack
<1> QED BY <1>1, <1>3

\* What pushing a block makes of a list: the block, then the old list.
LEMMA PushFrontProperties ==
  ASSUME NEW S, NEW list \in Seq(S), NEW b \in S
  PROVE  /\ PushFront(list, b) \in Seq(S)
         /\ Len(PushFront(list, b)) = Len(list) + 1
         /\ PushFront(list, b)[1] = b
         /\ \A i \in 1 .. Len(list) : PushFront(list, b)[i + 1] = list[i]
         /\ PushFront(list, b) # <<>>
BY DEF PushFront

(***************************************************************************)
(* Types.                                                                  *)
(***************************************************************************)
LEMMA TypeInit == Init => TypeOK
BY NoBlockAssumption, ClockAssumption DEF Init, TypeOK, Time, PC, Owning

LEMMA TypeStep == TypeOK /\ [Next]_vars => TypeOK'
<1> SUFFICES ASSUME TypeOK, [Next]_vars PROVE TypeOK'
  OBVIOUS
<1> USE NoBlockAssumption DEF TypeOK, PC, Owning, Goto, Hold, CallGc, poolVars, timeVars
<1>1. ASSUME NEW t \in Thread, Get(t) PROVE TypeOK'
  BY <1>1 DEF Get, Admitted
<1>2. ASSUME NEW t \in Thread, Refuse(t) PROVE TypeOK'
  BY <1>2 DEF Refuse
<1>3. ASSUME NEW t \in Thread, ExpireBack(t) PROVE TypeOK'
  <2>1. CASE idle # <<>> /\ Expired(idle[Len(idle)])
    <3>1. idle[Len(idle)] \in Block /\ PopBack(idle) \in Seq(Block)
      BY <2>1, PopBackProperties
    <3> QED BY <1>3, <2>1, <3>1, ZenonT(60) DEF ExpireBack
  <2>2. CASE ~(idle # <<>> /\ Expired(idle[Len(idle)]))
    BY <1>3, <2>2 DEF ExpireBack
  <2> QED BY <2>1, <2>2
<1>4. ASSUME NEW t \in Thread, TakeFront(t) PROVE TypeOK'
  <2>1. CASE idle = <<>>
    BY <1>4, <2>1 DEF TakeFront
  <2>2. CASE idle # <<>>
    <3>1. Head(idle) \in Block /\ PopFront(idle) \in Seq(Block)
      BY <2>2, PopFrontProperties
    <3> QED BY <1>4, <2>2, <3>1, ZenonT(60) DEF TakeFront
  <2> QED BY <2>1, <2>2
<1>5. ASSUME NEW t \in Thread, ReuseBlock(t) PROVE TypeOK'
  BY <1>5 DEF ReuseBlock
<1>6. ASSUME NEW t \in Thread, Malloc(t) PROVE TypeOK'
  BY <1>6 DEF Malloc
<1>7. ASSUME NEW t \in Thread, Construct(t) PROVE TypeOK'
  BY <1>7 DEF Construct, Increment
<1>8. ASSUME NEW t \in Thread, InitHandler(t) PROVE TypeOK'
  BY <1>8 DEF InitHandler
<1>9. ASSUME NEW t \in Thread, GcRecycle(t) PROVE TypeOK'
  BY <1>9, ClockAssumption DEF GcRecycle, Time
<1>10. ASSUME NEW t \in Thread, GcUncount(t) PROVE TypeOK'
  BY <1>10 DEF GcUncount, Decrement
<1>11. ASSUME NEW t \in Thread, Put(t) PROVE TypeOK'
  BY <1>11 DEF Put
<1>12. ASSUME NEW t \in Thread, PushIdle(t) PROVE TypeOK'
  <2> DEFINE list == PushFront(idle, cur[t])
  <2>1. cur[t] \in Block
    BY <1>12 DEF PushIdle
  <2>2. /\ list \in Seq(Block) /\ list # <<>>
        /\ PopBack(list) \in Seq(Block) /\ list[Len(list)] \in Block
    BY <2>1, PushFrontProperties, PopBackProperties
  <2> HIDE DEF list
  <2>3. CASE OverIdle(list)
    BY <1>12, <2>2, <2>3 DEF PushIdle, list
  <2>4. CASE ~OverIdle(list)
    BY <1>12, <2>2, <2>4 DEF PushIdle, list
  <2> QED BY <2>3, <2>4
<1>13. CASE AdvanceClock
  BY <1>13 DEF AdvanceClock
<1>14. CASE UNCHANGED vars
  BY <1>14 DEF vars
<1> QED
  BY <1>1, <1>2, <1>3, <1>4, <1>5, <1>6, <1>7, <1>8, <1>9, <1>10, <1>11,
     <1>12, <1>13, <1>14 DEF Next, Continue

\* Every variable of the pool keeps its type, and a thread holds a block exactly
\* at the program points of Get, Gc and Put that own one.
THEOREM TypeCorrect == Spec => []TypeOK
BY TypeInit, TypeStep, PTL DEF Spec

(***************************************************************************)
(* Ownership.                                                              *)
(***************************************************************************)

\* Popping the front of a list without repetitions takes one block out of it.
LEMMA PopFrontRange ==
  ASSUME NEW S, NEW list \in Seq(S), list # <<>>, IsInjective(list)
  PROVE  /\ IsInjective(PopFront(list))
         /\ Range(list) = {Head(list)} \cup Range(PopFront(list))
         /\ Head(list) \notin Range(PopFront(list))
<1> DEFINE rest == PopFront(list)
<1>1. /\ rest \in Seq(S) /\ Len(rest) = Len(list) - 1
      /\ \A i \in 1 .. Len(list) - 1 : rest[i] = list[i + 1]
      /\ Head(list) = list[1]
  BY PopFrontProperties
<1> HIDE DEF rest
<1>2. DOMAIN rest = 1 .. Len(list) - 1 /\ DOMAIN list = 1 .. Len(list)
  BY <1>1
<1>3. Len(list) \in Nat /\ Len(list) > 0
  OBVIOUS
<1>4. IsInjective(rest)
  <2>1. SUFFICES ASSUME NEW i \in 1 .. Len(list) - 1, NEW j \in 1 .. Len(list) - 1,
                        rest[i] = rest[j]
                 PROVE  i = j
    BY <1>2 DEF IsInjective
  <2>2. /\ i + 1 \in DOMAIN list /\ j + 1 \in DOMAIN list
        /\ list[i + 1] = list[j + 1]
    BY <1>1, <1>2, <1>3, <2>1
  <2>3. i + 1 = j + 1
    BY <2>2 DEF IsInjective
  <2> QED BY <2>3
<1>5. Head(list) \notin Range(rest)
  BY <1>1, <1>2, <1>3 DEF IsInjective, Range
<1>6. \A i \in 1 .. Len(list) :
        i = 1 \/ (i - 1 \in DOMAIN rest /\ list[i] = rest[i - 1])
  BY <1>1, <1>2, <1>3
<1>7. Range(list) \subseteq {Head(list)} \cup Range(rest)
  BY <1>1, <1>2, <1>6 DEF Range
<1>8. {Head(list)} \cup Range(rest) \subseteq Range(list)
  BY <1>1, <1>2, <1>3 DEF Range
<1> QED BY <1>4, <1>5, <1>7, <1>8 DEF rest

\* Popping the back of a list without repetitions takes one block out of it.
LEMMA PopBackRange ==
  ASSUME NEW S, NEW list \in Seq(S), list # <<>>, IsInjective(list)
  PROVE  /\ IsInjective(PopBack(list))
         /\ Range(list) = {list[Len(list)]} \cup Range(PopBack(list))
         /\ list[Len(list)] \notin Range(PopBack(list))
<1> DEFINE rest == PopBack(list)
<1>1. /\ rest \in Seq(S) /\ Len(rest) = Len(list) - 1
      /\ \A i \in 1 .. Len(list) - 1 : rest[i] = list[i]
  BY PopBackProperties
<1> HIDE DEF rest
<1>2. DOMAIN rest = 1 .. Len(list) - 1 /\ DOMAIN list = 1 .. Len(list)
  BY <1>1
<1>3. Len(list) \in Nat /\ Len(list) > 0
  OBVIOUS
<1>4. IsInjective(rest)
  BY <1>1, <1>2, <1>3 DEF IsInjective
<1>5. list[Len(list)] \notin Range(rest)
  BY <1>1, <1>2, <1>3 DEF IsInjective, Range
<1>6. Range(list) = {list[Len(list)]} \cup Range(rest)
  BY <1>1, <1>2, <1>3 DEF Range
<1> QED BY <1>4, <1>5, <1>6 DEF rest

\* Pushing a block that a list does not hold adds it to the list, once.
LEMMA PushFrontRange ==
  ASSUME NEW S, NEW list \in Seq(S), NEW b \in S,
         IsInjective(list), b \notin Range(list)
  PROVE  /\ IsInjective(PushFront(list, b))
         /\ Range(PushFront(list, b)) = {b} \cup Range(list)
<1> DEFINE more == PushFront(list, b)
<1>1. /\ more \in Seq(S) /\ Len(more) = Len(list) + 1 /\ more[1] = b
      /\ \A i \in 1 .. Len(list) : more[i + 1] = list[i]
  BY PushFrontProperties
<1> HIDE DEF more
<1>2. DOMAIN more = 1 .. Len(list) + 1 /\ DOMAIN list = 1 .. Len(list)
  BY <1>1
<1>3. Len(list) \in Nat
  OBVIOUS
<1>4. \A i \in 1 .. Len(list) + 1 :
        i = 1 \/ (i - 1 \in 1 .. Len(list) /\ more[i] = list[i - 1])
  BY <1>1, <1>3
<1>5. IsInjective(more)
  <2>1. SUFFICES ASSUME NEW i \in 1 .. Len(list) + 1,
                        NEW j \in 1 .. Len(list) + 1, more[i] = more[j]
                 PROVE  i = j
    BY <1>2 DEF IsInjective
  <2>2. \A k \in 1 .. Len(list) : list[k] # b
    BY <1>2 DEF Range
  <2>3. CASE i = 1 \/ j = 1
    BY <1>1, <1>4, <2>1, <2>2, <2>3
  <2>4. CASE i # 1 /\ j # 1
    <3>1. list[i - 1] = list[j - 1]
      BY <1>4, <2>1, <2>4
    <3> QED BY <1>2, <1>3, <1>4, <2>4, <3>1 DEF IsInjective
  <2> QED BY <2>3, <2>4
<1>6. Range(more) \subseteq {b} \cup Range(list)
  BY <1>1, <1>2, <1>4 DEF Range
<1>7. {b} \cup Range(list) \subseteq Range(more)
  BY <1>1, <1>2, <1>3 DEF Range
<1> QED BY <1>5, <1>6, <1>7 DEF more

\* A thread exchanges the block it holds for another, or for none.
LEMMA Exchange ==
  ASSUME TypeOK, TypeOK', WorkDistinct, NEW t \in Thread,
         NEW b \in Block \cup {NoBlock}, b \notin Working \ {cur[t]},
         cur' = [cur EXCEPT ![t] = b]
  PROVE  /\ WorkDistinct'
         /\ Working' = (Working \ {cur[t]}) \cup ({b} \ {NoBlock})
<1>1. Working = {cur[u] : u \in Thread} \ {NoBlock}
  BY DEF TypeOK, Working
<1>2. Working' = {cur'[u] : u \in Thread} \ {NoBlock}
  BY DEF TypeOK, Working
<1>3. \A u, v \in Thread : cur[u] = cur[v] /\ cur[u] # NoBlock => u = v
  BY DEF TypeOK, WorkDistinct
<1>4. cur'[t] = b /\ \A u \in Thread \ {t} : cur'[u] = cur[u]
  BY DEF TypeOK
<1>5. \A u \in Thread \ {t} : cur[u] # NoBlock => cur[u] \in Working \ {cur[t]}
  BY <1>1, <1>3
<1>6. \A u, v \in Thread : cur'[u] = cur'[v] /\ cur'[u] # NoBlock => u = v
  BY <1>3, <1>4, <1>5
<1>7. WorkDistinct'
  BY <1>6 DEF TypeOK, WorkDistinct
<1>8. Working' \subseteq (Working \ {cur[t]}) \cup ({b} \ {NoBlock})
  BY <1>2, <1>4, <1>5
<1>9. (Working \ {cur[t]}) \cup ({b} \ {NoBlock}) \subseteq Working'
  BY <1>1, <1>2, <1>4
<1> QED BY <1>7, <1>8, <1>9

\* A thread that holds none takes hold of a block that nobody works on.
LEMMA Acquire ==
  ASSUME TypeOK, TypeOK', WorkDistinct, NEW t \in Thread, cur[t] = NoBlock,
         NEW b \in Block, b \notin Working, cur' = [cur EXCEPT ![t] = b]
  PROVE  WorkDistinct' /\ Working' = Working \cup {b}
<1>1. NoBlock \notin Working
  BY DEF TypeOK, Working
<1>2. Working \ {cur[t]} = Working /\ {b} \ {NoBlock} = {b}
  BY <1>1, NoBlockAssumption
<1> QED BY <1>2, Exchange

\* The threads hold what they held.
LEMMA NoExchange ==
  ASSUME TypeOK, TypeOK', WorkDistinct, cur' = cur
  PROVE  WorkDistinct' /\ Working' = Working
BY DEF TypeOK, WorkDistinct, Working

LEMMA OwnershipStep ==
  TypeOK /\ TypeOK' /\ SingleOwner /\ NothingLost /\ [Next]_vars
    => SingleOwner' /\ NothingLost'
<1> SUFFICES ASSUME TypeOK, TypeOK', SingleOwner, NothingLost, [Next]_vars
             PROVE  SingleOwner' /\ NothingLost'
  OBVIOUS
<1> USE NoBlockAssumption
<1> DEFINE Owned ==
      /\ IdleDistinct' /\ WorkDistinct' /\ PlacesDisjoint' /\ NothingLost'
<1>a. IsInjective(idle) /\ WorkDistinct /\ PlacesDisjoint
  BY DEF SingleOwner, IdleDistinct
<1>b. /\ idle \in Seq(Block) /\ cur \in [Thread -> Block \cup {NoBlock}]
      /\ \A t \in Thread : pc[t] \in Owning => cur[t] \in Working
      /\ \A t \in Thread : pc[t] \notin Owning => cur[t] = NoBlock
      /\ NoBlock \notin Working
  BY DEF TypeOK, Working
<1>1. ASSUME NEW t \in Thread, Get(t) \/ Refuse(t) \/ Construct(t) \/ GcUncount(t)
      PROVE  Owned
  <2>1. UNCHANGED <<idle, memPool, heap, inUse, cur>>
    BY <1>1 DEF Get, Refuse, Construct, GcUncount, poolVars, timeVars
  <2>2. WorkDistinct' /\ Working' = Working
    BY <1>a, <2>1, NoExchange
  <2> QED BY <1>a, <2>1, <2>2 DEF IdleDistinct, PlacesDisjoint, NothingLost, Pooled
<1>2. ASSUME NEW t \in Thread, ExpireBack(t) PROVE Owned
  <2>1. UNCHANGED <<memPool, heap, inUse>> /\ pc[t] = "expire"
    BY <1>2 DEF ExpireBack
  <2>2. CASE UNCHANGED <<idle, cur>>
    BY <1>a, <2>1, <2>2, NoExchange DEF IdleDistinct, PlacesDisjoint, NothingLost, Pooled
  <2>3. CASE /\ idle # <<>> /\ idle' = PopBack(idle)
             /\ cur' = [cur EXCEPT ![t] = idle[Len(idle)]]
    <3> DEFINE b == idle[Len(idle)]
    <3>1. cur[t] = NoBlock
      BY <1>b, <2>1 DEF Owning
    <3>2. /\ IsInjective(idle') /\ b \in Block
          /\ Pooled = {b} \cup Pooled' /\ b \notin Pooled'
      BY <1>a, <1>b, <2>3, PopBackRange, PopBackProperties DEF Pooled
    <3> HIDE DEF b
    <3>3. b \notin Working
      BY <1>a, <3>2 DEF PlacesDisjoint
    <3>4. WorkDistinct' /\ Working' = Working \cup {b}
      BY <1>a, <1>b, <2>3, <3>1, <3>2, <3>3, Acquire DEF b
    <3> QED BY <1>a, <2>1, <3>2, <3>4
          DEF IdleDistinct, PlacesDisjoint, NothingLost
  <2> QED BY <1>2, <2>2, <2>3 DEF ExpireBack, CallGc, Hold
<1>3. ASSUME NEW t \in Thread, TakeFront(t) PROVE Owned
  <2>1. UNCHANGED <<memPool, heap>> /\ pc[t] = "take"
    BY <1>3 DEF TakeFront
  <2>2. CASE UNCHANGED <<idle, inUse, cur>>
    BY <1>a, <2>1, <2>2, NoExchange DEF IdleDistinct, PlacesDisjoint, NothingLost, Pooled
  <2>3. CASE idle # <<>> /\ idle' = PopFront(idle)
    <3> DEFINE b == Head(idle)
    <3>1. cur[t] = NoBlock
      BY <1>b, <2>1 DEF Owning
    <3>2. /\ IsInjective(idle') /\ b \in Block
          /\ Pooled = {b} \cup Pooled' /\ b \notin Pooled'
      BY <1>a, <1>b, <2>3, PopFrontRange, PopFrontProperties DEF Pooled
    <3> HIDE DEF b
    <3>3. b \notin Working
      BY <1>a, <3>2 DEF PlacesDisjoint
    <3>4. CASE inUse' = inUse \cup {b} /\ cur' = cur
      BY <1>a, <2>1, <3>2, <3>4, NoExchange
      DEF IdleDistinct, PlacesDisjoint, NothingLost
    <3>5. CASE inUse' = inUse /\ cur' = [cur EXCEPT ![t] = b]
      <4>1. WorkDistinct' /\ Working' = Working \cup {b}
        BY <1>a, <1>b, <3>1, <3>2, <3>3, <3>5, Acquire
      <4> QED BY <1>a, <2>1, <3>2, <3>5, <4>1
            DEF IdleDistinct, PlacesDisjoint, NothingLost
    <3> QED BY <1>3, <2>3, <3>4, <3>5 DEF TakeFront, CallGc, Hold, b
  <2> QED BY <1>3, <2>2, <2>3 DEF TakeFront
<1>4. ASSUME NEW t \in Thread, ReuseBlock(t) \/ Malloc(t) PROVE Owned
  <2>1. UNCHANGED <<idle, inUse>> /\ pc[t] \in {"new", "malloc"}
    BY <1>4 DEF ReuseBlock, Malloc
  <2>2. CASE UNCHANGED <<memPool, heap, cur>>
    BY <1>a, <2>1, <2>2, NoExchange DEF IdleDistinct, PlacesDisjoint, NothingLost, Pooled
  <2>3. ASSUME NEW b \in memPool \cup heap, Hold(t, b),
               memPool' = memPool \ {b}, heap' = heap \ {b}
        PROVE  Owned
    <3>1. b \notin Working /\ b \in Block /\ cur[t] = NoBlock
      BY <1>a, <1>b, <2>1, <2>3 DEF PlacesDisjoint, TypeOK, Owning
    <3>2. WorkDistinct' /\ Working' = Working \cup {b}
      BY <1>a, <1>b, <2>3, <3>1, Acquire DEF Hold
    <3> QED BY <1>a, <2>1, <2>3, <3>2
          DEF IdleDistinct, PlacesDisjoint, NothingLost, Pooled
  <2>4. memPool \cap heap = {}
    BY <1>a DEF PlacesDisjoint
  <2>5. CASE ReuseBlock(t)
    BY <2>2, <2>3, <2>4, <2>5 DEF ReuseBlock
  <2>6. CASE Malloc(t)
    BY <2>2, <2>3, <2>4, <2>6 DEF Malloc
  <2> QED BY <1>4, <2>5, <2>6
<1>5. ASSUME NEW t \in Thread, InitHandler(t) \/ GcRecycle(t) PROVE Owned
  <2>1. UNCHANGED <<idle, heap>> /\ cur[t] \in Working /\ cur[t] \in Block
    BY <1>5, <1>b DEF InitHandler, GcRecycle, Owning
  <2>2. CASE cur' = cur /\ UNCHANGED <<memPool, inUse>>
    BY <1>a, <2>1, <2>2, NoExchange DEF IdleDistinct, PlacesDisjoint, NothingLost, Pooled
  <2>3. CASE /\ cur' = [cur EXCEPT ![t] = NoBlock]
             /\ \/ memPool' = memPool \cup {cur[t]} /\ inUse' = inUse
                \/ inUse' = inUse \cup {cur[t]} /\ memPool' = memPool
    <3>1. WorkDistinct' /\ Working' = Working \ {cur[t]}
      BY <1>a, <1>b, <2>3, Exchange, ZenonT(60)
    <3> QED BY <1>a, <2>1, <2>3, <3>1
          DEF IdleDistinct, PlacesDisjoint, NothingLost, Pooled
  <2>4. [cur EXCEPT ![t] = cur[t]] = cur
    BY <1>b
  <2> QED BY <1>5, <2>2, <2>3, <2>4 DEF InitHandler, GcRecycle, CallGc, Hold
<1>6. ASSUME NEW t \in Thread, Put(t) PROVE Owned
  <2>1. UNCHANGED <<idle, memPool, heap>> /\ cur[t] = NoBlock
    BY <1>6, <1>b DEF Put, Owning
  <2>2. PICK b \in inUse : inUse' = inUse \ {b} /\ cur' = [cur EXCEPT ![t] = b]
    BY <1>6 DEF Put, CallGc, Hold
  <2>3. b \notin Working /\ b \in Block
    BY <1>a, <2>2 DEF PlacesDisjoint, TypeOK
  <2>4. WorkDistinct' /\ Working' = Working \cup {b}
    BY <1>a, <1>b, <2>1, <2>2, <2>3, Acquire
  <2> QED BY <1>a, <2>1, <2>2, <2>4
        DEF IdleDistinct, PlacesDisjoint, NothingLost, Pooled
<1>7. ASSUME NEW t \in Thread, PushIdle(t) PROVE Owned
  <2> DEFINE list == PushFront(idle, cur[t])
             b == list[Len(list)]
  <2>1. /\ UNCHANGED <<memPool, heap, inUse>>
        /\ cur[t] \in Working /\ cur[t] \in Block
    BY <1>7, <1>b DEF PushIdle, Owning
  <2>2. cur[t] \notin Range(idle)
    BY <1>a, <2>1 DEF PlacesDisjoint, Pooled
  <2>3. /\ list \in Seq(Block) /\ list # <<>> /\ IsInjective(list)
        /\ Range(list) = {cur[t]} \cup Pooled
    BY <1>a, <1>b, <2>1, <2>2, PushFrontRange, PushFrontProperties DEF Pooled
  <2>4. /\ IsInjective(PopBack(list)) /\ b \in Block
        /\ Range(list) = {b} \cup Range(PopBack(list))
        /\ b \notin Range(PopBack(list))
    BY <2>3, PopBackRange, PopBackProperties
  <2> HIDE DEF list, b
  <2>5. CASE idle' = list /\ cur' = [cur EXCEPT ![t] = NoBlock]
    <3>1. WorkDistinct' /\ Working' = Working \ {cur[t]}
      BY <1>a, <1>b, <2>5, Exchange
    <3> QED BY <1>a, <2>1, <2>3, <2>5, <3>1
          DEF IdleDistinct, PlacesDisjoint, NothingLost, Pooled
  <2>6. CASE idle' = PopBack(list) /\ cur' = [cur EXCEPT ![t] = b]
    <3>1. b \notin Working \ {cur[t]}
      BY <1>a, <2>3, <2>4 DEF PlacesDisjoint
    <3>2. WorkDistinct' /\ Working' = (Working \ {cur[t]}) \cup {b}
      <4>1. {b} \ {NoBlock} = {b}
        BY <2>4
      <4> QED BY <1>a, <1>b, <2>4, <2>6, <3>1, <4>1, Exchange
    <3> QED BY <1>a, <2>1, <2>3, <2>4, <2>6, <3>2
          DEF IdleDistinct, PlacesDisjoint, NothingLost, Pooled
  <2> QED BY <1>7, <2>5, <2>6 DEF PushIdle, CallGc, Hold, list, b
<1>8. CASE AdvanceClock \/ UNCHANGED vars
  <2>1. UNCHANGED <<idle, memPool, heap, inUse, cur>>
    BY <1>8 DEF AdvanceClock, poolVars, vars
  <2>2. WorkDistinct' /\ Working' = Working
    BY <1>a, <2>1, NoExchange
  <2> QED BY <1>a, <2>1, <2>2
        DEF SingleOwner, IdleDistinct, PlacesDisjoint, NothingLost, Pooled
<1> QED
  BY <1>1, <1>2, <1>3, <1>4, <1>5, <1>6, <1>7, <1>8
  DEF Next, Continue, SingleOwner

LEMMA OwnershipInit == Init => SingleOwner /\ NothingLost
BY DEF Init, SingleOwner, NothingLost, IdleDistinct, WorkDistinct,
       PlacesDisjoint, Pooled, Working, Owning, IsInjective, Range

\* A connection has one owner at every moment: Get, Put and Gc of any number of
\* threads never hand one out twice, recycle one in use or lose one.
THEOREM Ownership == Spec => [](SingleOwner /\ NothingLost)
<1>1. TypeOK /\ SingleOwner /\ NothingLost /\ [Next]_vars
        => (TypeOK /\ SingleOwner /\ NothingLost)'
  BY TypeStep, OwnershipStep
<1> QED BY TypeInit, OwnershipInit, <1>1, PTL DEF Spec

\* No block is lost: each of them is free, idle, lent or in the hands of the call
\* that moves it, so the allocation lists of the pool never leak one.
THEOREM NoneForgotten == Spec => []NothingLost
BY Ownership, PTL

(***************************************************************************)
(* Counting.                                                               *)
(***************************************************************************)
LEMMA OwnershipFacts ==
  ASSUME TypeOK, SingleOwner
  PROVE  /\ cur \in [Thread -> Block \cup {NoBlock}] /\ pc \in [Thread -> PC]
         /\ heap \subseteq Block /\ memPool \subseteq Block
         /\ heap \cap memPool = {}
         /\ \A t \in Thread : pc[t] \in Owning <=> cur[t] # NoBlock
         /\ \A t \in Thread : pc[t] \in Owning => cur[t] \notin heap \cup memPool
         /\ \A t, u \in Thread :
              pc[t] \in Owning /\ pc[u] \in Owning /\ cur[t] = cur[u] => t = u
BY DEF TypeOK, SingleOwner, WorkDistinct, PlacesDisjoint, Working

\* Only Construct and GcRecycle change which blocks hold an object.
LEMMA ConstructedSame ==
  ASSUME TypeOK, SingleOwner, NEW t \in Thread,
         \/ Get(t) \/ Refuse(t) \/ ExpireBack(t) \/ TakeFront(t) \/ ReuseBlock(t)
         \/ Malloc(t) \/ InitHandler(t) \/ Put(t) \/ PushIdle(t)
  PROVE  /\ activeCnt' = activeCnt
         /\ Constructed' = Constructed /\ Uncounting' = Uncounting
<1> USE NoBlockAssumption
<1>a. /\ cur \in [Thread -> Block \cup {NoBlock}] /\ pc \in [Thread -> PC]
      /\ heap \subseteq Block /\ memPool \subseteq Block
      /\ heap \cap memPool = {}
  BY OwnershipFacts
<1>1. CASE \/ Get(t) \/ Refuse(t) \/ ExpireBack(t) \/ TakeFront(t)
           \/ InitHandler(t) \/ Put(t) \/ PushIdle(t)
  <2>1. UNCHANGED <<heap, memPool, activeCnt>>
    BY <1>1 DEF Get, Refuse, ExpireBack, TakeFront, InitHandler, Put, PushIdle,
                poolVars
  <2>2. /\ pc[t] \notin {"count", "uncount"} /\ pc'[t] \notin {"count", "uncount"}
        /\ \A u \in Thread \ {t} : pc'[u] = pc[u] /\ cur'[u] = cur[u]
    BY <1>1, <1>a DEF Get, Refuse, ExpireBack, TakeFront, InitHandler, Put,
       PushIdle, Admitted, Goto, Hold, CallGc
  <2>3. Uncounting' = Uncounting
    BY <2>2 DEF Uncounting
  <2>4. Counting' = Counting
    BY <2>2 DEF Counting
  <2> QED BY <2>1, <2>3, <2>4 DEF Constructed
<1>2. CASE ReuseBlock(t) \/ Malloc(t)
  <2>1. /\ activeCnt' = activeCnt /\ pc[t] \in {"new", "malloc"}
        /\ pc'[t] \in {"count", "malloc", "ready"}
        /\ \A u \in Thread \ {t} : pc'[u] = pc[u] /\ cur'[u] = cur[u]
    BY <1>2, <1>a DEF ReuseBlock, Malloc, Goto, Hold
  <2>2. Uncounting' = Uncounting
    BY <2>1 DEF Uncounting
  <2>3. CASE UNCHANGED <<memPool, heap, cur>> /\ pc'[t] # "count"
    <3>1. Counting' = Counting
      BY <2>1, <2>3 DEF Counting
    <3> QED BY <2>1, <2>2, <2>3, <3>1 DEF Constructed
  <2>4. ASSUME NEW b \in memPool \cup heap, cur'[t] = b, pc'[t] = "count",
               memPool' = memPool \ {b}, heap' = heap \ {b}
        PROVE  Constructed' = Constructed
    <3>1. Counting' = Counting \cup {b}
      BY <2>1, <2>4 DEF Counting
    <3> QED BY <2>4, <3>1 DEF Constructed
  <2>5. CASE ReuseBlock(t)
    BY <1>a, <2>1, <2>2, <2>3, <2>4, <2>5 DEF ReuseBlock, Hold, Goto
  <2>6. CASE Malloc(t)
    BY <1>a, <2>1, <2>2, <2>3, <2>4, <2>6 DEF Malloc, Hold, Goto
  <2> QED BY <1>2, <2>5, <2>6
<1> QED BY <1>1, <1>2

\* Construct makes an object of a block that held none.
LEMMA ConstructAdds ==
  ASSUME TypeOK, SingleOwner, NEW t \in Thread, Construct(t)
  PROVE  /\ activeCnt' = activeCnt + 1 /\ Uncounting' = Uncounting
         /\ cur[t] \in Block \ Constructed
         /\ Constructed' = Constructed \cup {cur[t]}
<1>1. /\ activeCnt' = activeCnt + 1 /\ UNCHANGED <<heap, memPool, cur>>
      /\ pc[t] = "count" /\ pc'[t] = "init"
      /\ \A u \in Thread \ {t} : pc'[u] = pc[u]
  BY OwnershipFacts DEF Construct, Increment, Goto
<1>2. Uncounting' = Uncounting
  BY <1>1 DEF Uncounting
<1>3. Counting' = Counting \ {cur[t]} /\ cur[t] \in Counting
  BY <1>1, OwnershipFacts DEF Counting, Owning
<1>4. cur[t] \in Block /\ cur[t] \notin heap \cup memPool
  BY <1>1, OwnershipFacts DEF Owning
<1> QED BY <1>1, <1>2, <1>3, <1>4 DEF Constructed

\* GcRecycle ends the life of an object.
LEMMA RecycleRemoves ==
  ASSUME TypeOK, SingleOwner, NEW t \in Thread, GcRecycle(t)
  PROVE  /\ activeCnt' = activeCnt
         /\ Uncounting' = Uncounting \cup {t} /\ t \notin Uncounting
         /\ cur[t] \in Constructed /\ Constructed' = Constructed \ {cur[t]}
<1>1. /\ UNCHANGED <<activeCnt, heap>> /\ memPool' = memPool \cup {cur[t]}
      /\ pc[t] = "gc" /\ pc'[t] = "uncount"
      /\ \A u \in Thread \ {t} : pc'[u] = pc[u] /\ cur'[u] = cur[u]
  BY OwnershipFacts DEF GcRecycle, Goto, Hold
<1>2. Counting' = Counting /\ cur[t] \notin Counting
  BY <1>1, OwnershipFacts DEF Counting, Owning
<1>3. cur[t] \in Block /\ cur[t] \notin heap \cup memPool
  BY <1>1, OwnershipFacts DEF Owning
<1>4. Uncounting' = Uncounting \cup {t} /\ t \notin Uncounting
  BY <1>1 DEF Uncounting
<1> QED BY <1>1, <1>2, <1>3, <1>4 DEF Constructed

\* GcUncount settles the decrement that GcRecycle left open.
LEMMA UncountSettles ==
  ASSUME TypeOK, SingleOwner, NEW t \in Thread, GcUncount(t)
  PROVE  /\ activeCnt' = activeCnt - 1 /\ Constructed' = Constructed
         /\ Uncounting' = Uncounting \ {t} /\ t \in Uncounting
<1>1. /\ activeCnt' = activeCnt - 1 /\ UNCHANGED <<heap, memPool, cur>>
      /\ pc[t] = "uncount" /\ pc'[t] \in {"ready", "expire", "take"}
      /\ \A u \in Thread \ {t} : pc'[u] = pc[u]
  BY OwnershipFacts DEF GcUncount, Decrement, Goto, TypeOK
<1>2. Constructed' = Constructed
  BY <1>1 DEF Constructed, Counting
<1>3. Uncounting' = Uncounting \ {t} /\ t \in Uncounting
  BY <1>1 DEF Uncounting
<1> QED BY <1>1, <1>2, <1>3

LEMMA CountStep ==
  TypeOK /\ SingleOwner /\ ActiveCountExact /\ [Next]_vars => ActiveCountExact'
<1> SUFFICES ASSUME TypeOK, SingleOwner, ActiveCountExact, [Next]_vars
             PROVE  ActiveCountExact'
  OBVIOUS
<1>a. IsFiniteSet(Constructed) /\ IsFiniteSet(Uncounting)
  BY FiniteAssumption, FS_Subset DEF Constructed, Uncounting
<1>b. Cardinality(Constructed) \in Nat /\ Cardinality(Uncounting) \in Nat
  BY <1>a, FS_CardinalityType
<1>c. activeCnt = Cardinality(Constructed) + Cardinality(Uncounting)
  BY DEF ActiveCountExact
<1>1. ASSUME NEW t \in Thread,
             \/ Get(t) \/ Refuse(t) \/ ExpireBack(t) \/ TakeFront(t) \/ ReuseBlock(t)
             \/ Malloc(t) \/ InitHandler(t) \/ Put(t) \/ PushIdle(t)
      PROVE  ActiveCountExact'
  BY <1>1, <1>c, ConstructedSame DEF ActiveCountExact
<1>2. ASSUME NEW t \in Thread, Construct(t) PROVE ActiveCountExact'
  <2>1. Cardinality(Constructed') = Cardinality(Constructed) + 1
    BY <1>2, <1>a, ConstructAdds, FS_AddElement
  <2> QED BY <1>2, <1>b, <1>c, <2>1, ConstructAdds DEF ActiveCountExact
<1>3. ASSUME NEW t \in Thread, GcRecycle(t) PROVE ActiveCountExact'
  <2>1. Cardinality(Constructed') = Cardinality(Constructed) - 1
    BY <1>3, <1>a, RecycleRemoves, FS_RemoveElement
  <2>2. Cardinality(Uncounting') = Cardinality(Uncounting) + 1
    BY <1>3, <1>a, RecycleRemoves, FS_AddElement
  <2> QED BY <1>3, <1>b, <1>c, <2>1, <2>2, RecycleRemoves DEF ActiveCountExact
<1>4. ASSUME NEW t \in Thread, GcUncount(t) PROVE ActiveCountExact'
  <2>1. Cardinality(Uncounting') = Cardinality(Uncounting) - 1
    BY <1>4, <1>a, UncountSettles, FS_RemoveElement
  <2> QED BY <1>4, <1>b, <1>c, <2>1, UncountSettles DEF ActiveCountExact
<1>5. CASE AdvanceClock \/ UNCHANGED vars
  BY <1>5, <1>c DEF AdvanceClock, vars, poolVars, Constructed, Counting,
     Uncounting, ActiveCountExact
<1> QED
  BY <1>1, <1>2, <1>3, <1>4, <1>5 DEF Next, Continue

LEMMA CountInit == Init => ActiveCountExact
<1> SUFFICES ASSUME Init PROVE ActiveCountExact
  OBVIOUS
<1>1. Constructed = {} /\ Uncounting = {} /\ activeCnt = 0
  BY DEF Init, Constructed, Counting, Uncounting
<1> QED BY <1>1, FS_EmptySet DEF ActiveCountExact

\* active_cnt_ never drifts: whatever mix of reuses, mallocs, failed connects,
\* evictions and expiries the threads run, it is the number of constructed
\* objects plus the decrements still to come.
THEOREM CountExact == Spec => []ActiveCountExact
<1> DEFINE Inv == TypeOK /\ SingleOwner /\ NothingLost /\ ActiveCountExact
<1>1. Init => Inv
  BY TypeInit, OwnershipInit, CountInit
<1>2. Inv /\ [Next]_vars => Inv'
  BY TypeStep, OwnershipStep, CountStep
<1>3. Inv => ActiveCountExact
  OBVIOUS
<1> QED BY <1>1, <1>2, <1>3, PTL DEF Spec

\* An idle list without repetitions holds as many connections as it is long.
LEMMA PooledCardinality ==
  ASSUME idle \in Seq(Block), IdleDistinct
  PROVE  IsFiniteSet(Pooled) /\ Cardinality(Pooled) = Len(idle)
<1>1. Len(idle) \in Nat /\ DOMAIN idle = 1 .. Len(idle)
  OBVIOUS
<1>2. idle \in [1 .. Len(idle) -> Pooled]
  BY <1>1 DEF Pooled, Range
<1>3. idle \in Bijection(1 .. Len(idle), Pooled)
  BY <1>1, <1>2 DEF Pooled, Range, IdleDistinct, IsInjective, Bijection,
                    Injection, Surjection
<1>4. ExistsBijection(1 .. Len(idle), Pooled)
  BY <1>3 DEF ExistsBijection
<1>5. IsFiniteSet(1 .. Len(idle)) /\ Cardinality(1 .. Len(idle)) = Len(idle)
  BY <1>1, FS_Interval
<1> QED BY <1>4, <1>5, FS_Bijection

\* ConnectionInUse subtracts two counters that no lock relates; with no call in
\* progress the difference is nevertheless the number of handles out.
THEOREM InUseCorrect == Spec => []InUseAtRest
<1> DEFINE Inv == TypeOK /\ SingleOwner /\ NothingLost /\ ActiveCountExact
<1>1. Init => Inv
  BY TypeInit, OwnershipInit, CountInit
<1>2. Inv /\ [Next]_vars => Inv'
  BY TypeStep, OwnershipStep, CountStep
<1>3. Inv => InUseAtRest
  <2> SUFFICES ASSUME Inv, \A t \in Thread : pc[t] = "ready"
               PROVE  activeCnt - Len(idle) = Cardinality(inUse)
    BY DEF InUseAtRest
  <2>1. Working = {} /\ Counting = {} /\ Uncounting = {}
    BY DEF Working, Counting, Uncounting, Owning
  <2>2. Constructed = Pooled \cup inUse /\ Pooled \cap inUse = {}
    BY <2>1 DEF Constructed, SingleOwner, PlacesDisjoint, NothingLost
  <2>3. IsFiniteSet(inUse)
    BY FiniteAssumption, FS_Subset DEF TypeOK
  <2>4. /\ IsFiniteSet(Pooled) /\ Cardinality(Pooled) = Len(idle)
        /\ Len(idle) \in Nat
    BY PooledCardinality DEF TypeOK, SingleOwner
  <2>5. Cardinality(Constructed) = Len(idle) + Cardinality(inUse)
    <3>1. Cardinality(Pooled \cup inUse)
            = Cardinality(Pooled) + Cardinality(inUse) - Cardinality({})
      BY <2>2, <2>3, <2>4, FS_Union
    <3>2. Cardinality({}) = 0 /\ Cardinality(inUse) \in Nat
      BY <2>3, FS_EmptySet, FS_CardinalityType
    <3> QED BY <2>2, <2>4, <3>1, <3>2
  <2>6. activeCnt = Len(idle) + Cardinality(inUse)
    BY <2>1, <2>3, <2>4, <2>5, FS_EmptySet, FS_CardinalityType DEF ActiveCountExact
  <2> QED BY <2>3, <2>4, <2>6, FS_CardinalityType
<1> QED BY <1>1, <1>2, <1>3, PTL DEF Spec

(***************************************************************************)
(* Limits.                                                                 *)
(***************************************************************************)

\* A call that leaves flight, or stays in it, leaves room for active_cnt_.
LEMMA InFlightShrinks ==
  ASSUME TypeOK, Reservation, InFlight' \subseteq InFlight,
         activeCnt' \in Int, activeCnt' <= activeCnt
  PROVE  Reservation'
<1>1. IsFiniteSet(InFlight) /\ IsFiniteSet(Thread)
  BY FiniteAssumption, FS_Subset DEF InFlight
<1>2. /\ Cardinality(InFlight') <= Cardinality(InFlight)
      /\ Cardinality(InFlight') \in Nat /\ Cardinality(InFlight) \in Nat
      /\ Cardinality(Thread) \in Nat
  BY <1>1, FS_Subset, FS_CardinalityType
<1> QED BY <1>2, OptionAssumption DEF Reservation, TypeOK

LEMMA ReservationStep ==
  TypeOK /\ TypeOK' /\ Reservation /\ [Next]_vars => Reservation'
<1> SUFFICES ASSUME TypeOK, TypeOK', Reservation, [Next]_vars
             PROVE  Reservation'
  OBVIOUS
<1> USE FiniteAssumption, OptionAssumption
<1>a. pc \in [Thread -> PC] /\ ret \in [Thread -> {"ready", "expire", "take"}]
  BY DEF TypeOK
<1>b. activeCnt \in Int /\ activeCnt' \in Int
  BY DEF TypeOK
<1>c. IsFiniteSet(InFlight) /\ Cardinality(InFlight) \in Nat
      /\ Cardinality(Thread) \in Nat
  BY FS_Subset, FS_CardinalityType DEF InFlight
<1>1. ASSUME NEW t \in Thread, Get(t) PROVE Reservation'
  <2>1. /\ activeCnt' = activeCnt /\ ret' = ret
        /\ \A u \in Thread \ {t} : pc'[u] = pc[u]
    BY <1>1, <1>a DEF Get, Goto, poolVars
  <2>2. CASE Overloaded
    <3>1. InFlight' \subseteq InFlight
      BY <1>1, <1>a, <2>1, <2>2 DEF Get, Goto, InFlight
    <3> QED BY <1>b, <2>1, <3>1, InFlightShrinks
  <2>3. CASE ~Overloaded /\ MaxActive > 0
    <3>1. IsFiniteSet(InFlight') /\ Cardinality(InFlight') <= Cardinality(Thread)
          /\ Cardinality(InFlight') \in Nat
      BY FS_Subset, FS_CardinalityType DEF InFlight
    <3> QED BY <1>b, <1>c, <2>1, <2>3, <3>1 DEF Overloaded, Reservation
  <2> QED BY <2>2, <2>3 DEF Reservation
<1>2. ASSUME NEW t \in Thread, Construct(t) PROVE Reservation'
  <2>1. InFlight' = InFlight \ {t} /\ t \in InFlight
    BY <1>2, <1>a DEF Construct, Goto, InFlight
  <2>2. Cardinality(InFlight') = Cardinality(InFlight) - 1
    BY <1>c, <2>1, FS_RemoveElement
  <2>3. activeCnt' = activeCnt + 1
    BY <1>2 DEF Construct, Increment
  <2> QED BY <1>b, <1>c, <2>2, <2>3 DEF Reservation
<1>3. ASSUME NEW t \in Thread,
             \/ Refuse(t) \/ ExpireBack(t) \/ TakeFront(t) \/ ReuseBlock(t)
             \/ Malloc(t) \/ InitHandler(t) \/ GcRecycle(t) \/ GcUncount(t)
             \/ Put(t) \/ PushIdle(t)
      PROVE  Reservation'
  <2>1. activeCnt' \in {activeCnt, activeCnt - 1}
    BY <1>3 DEF Refuse, ExpireBack, TakeFront, ReuseBlock, Malloc, InitHandler,
                GcRecycle, GcUncount, Put, PushIdle, poolVars, Decrement
  <2>2. \A u \in Thread \ {t} : pc'[u] = pc[u] /\ ret'[u] = ret[u]
    BY <1>3, <1>a DEF Refuse, ExpireBack, TakeFront, ReuseBlock, Malloc,
       InitHandler, GcRecycle, GcUncount, Put, PushIdle, Goto, CallGc
  <2>3. t \in InFlight' => t \in InFlight
    BY <1>3, <1>a DEF Refuse, ExpireBack, TakeFront, ReuseBlock, Malloc,
       InitHandler, GcRecycle, GcUncount, Put, PushIdle, Goto, CallGc, InFlight
  <2>4. InFlight' \subseteq InFlight
    BY <2>2, <2>3 DEF InFlight
  <2> QED BY <1>b, <2>1, <2>4, InFlightShrinks
<1>4. CASE AdvanceClock \/ UNCHANGED vars
  BY <1>4 DEF AdvanceClock, vars, poolVars, Reservation, InFlight
<1> QED
  BY <1>1, <1>2, <1>3, <1>4 DEF Next, Continue

LEMMA ReservationInit == Init => Reservation
<1> SUFFICES ASSUME Init PROVE Reservation
  OBVIOUS
<1>1. Cardinality(Thread) \in Nat
  BY FiniteAssumption, FS_CardinalityType
<1>2. InFlight = {} /\ activeCnt = 0
  BY DEF Init, InFlight
<1> QED BY <1>1, <1>2, FS_EmptySet, OptionAssumption DEF Reservation

\* However many threads race through the unlocked test of Get, the pool never
\* constructs more than one connection over max_active for each other thread.
THEOREM OvershootBounded == Spec => []OvershootBound
<1> DEFINE Inv == TypeOK /\ Reservation
<1>1. Init => Inv
  BY TypeInit, ReservationInit
<1>2. Inv /\ [Next]_vars => Inv'
  BY TypeStep, ReservationStep
<1>3. Inv => OvershootBound
  <2>1. Cardinality(InFlight) \in Nat /\ Cardinality(Thread) \in Nat
    BY FiniteAssumption, FS_Subset, FS_CardinalityType DEF InFlight
  <2> QED BY <2>1, OptionAssumption DEF Reservation, OvershootBound, TypeOK
<1> QED BY <1>1, <1>2, <1>3, PTL DEF Spec

LEMMA IdleCapInit == Init => IdleCap
BY OptionAssumption DEF Init, IdleCap

LEMMA IdleCapStep == TypeOK /\ IdleCap /\ [Next]_vars => IdleCap'
<1> SUFFICES ASSUME TypeOK, IdleCap, [Next]_vars PROVE IdleCap'
  OBVIOUS
<1> USE OptionAssumption
<1>1. idle \in Seq(Block) /\ Len(idle) \in Nat
  BY DEF TypeOK
<1>2. ASSUME Len(idle') \in Nat, Len(idle') <= Len(idle) PROVE IdleCap'
  BY <1>1, <1>2 DEF IdleCap
<1>3. ASSUME idle' = idle PROVE IdleCap'
  BY <1>1, <1>2, <1>3
<1>4. ASSUME NEW t \in Thread, ExpireBack(t) PROVE IdleCap'
  <2>1. CASE idle # <<>> /\ idle' = PopBack(idle)
    BY <1>1, <1>2, <2>1, PopBackProperties
  <2> QED BY <1>3, <1>4, <2>1 DEF ExpireBack
<1>5. ASSUME NEW t \in Thread, TakeFront(t) PROVE IdleCap'
  <2>1. CASE idle # <<>> /\ idle' = PopFront(idle)
    BY <1>1, <1>2, <2>1, PopFrontProperties
  <2> QED BY <1>3, <1>5, <2>1 DEF TakeFront
<1>6. ASSUME NEW t \in Thread, PushIdle(t) PROVE IdleCap'
  <2> DEFINE list == PushFront(idle, cur[t])
  <2>1. cur[t] \in Block
    BY <1>6 DEF PushIdle, TypeOK, Owning
  <2>2. list \in Seq(Block) /\ list # <<>> /\ Len(list) = Len(idle) + 1
    <3>1. list \in Seq(Block) /\ Len(list) = Len(idle) + 1
      BY <1>1, <2>1, PushFrontProperties
    <3> HIDE DEF list
    <3> QED BY <1>1, <3>1
  <2>3. Len(PopBack(list)) = Len(idle)
    BY <1>1, <2>2, PopBackProperties
  <2> HIDE DEF list
  <2>4. CASE idle' = PopBack(list)
    BY <1>1, <1>2, <2>3, <2>4
  <2>5. CASE idle' = list /\ ~OverIdle(list)
    BY <1>1, <2>2, <2>5 DEF OverIdle, IdleCap
  <2> QED BY <1>6, <2>4, <2>5 DEF PushIdle, list
<1>7. ASSUME NEW t \in Thread,
             \/ Get(t) \/ Put(t) \/ Refuse(t) \/ ReuseBlock(t) \/ Malloc(t)
             \/ Construct(t) \/ InitHandler(t) \/ GcRecycle(t) \/ GcUncount(t)
      PROVE  IdleCap'
  BY <1>3, <1>7 DEF Get, Put, Refuse, ReuseBlock, Malloc, Construct,
     InitHandler, GcRecycle, GcUncount, poolVars
<1>8. CASE AdvanceClock \/ UNCHANGED vars
  BY <1>3, <1>8 DEF AdvanceClock, vars, poolVars
<1> QED
  BY <1>4, <1>5, <1>6, <1>7, <1>8 DEF Next, Continue

\* The idle list obeys max_idle at every moment, because Put evicts inside the
\* critical section that pushes.
THEOREM IdleCapped == Spec => []IdleCap
<1>1. TypeOK /\ IdleCap /\ [Next]_vars => (TypeOK /\ IdleCap)'
  BY TypeStep, IdleCapStep
<1> QED BY TypeInit, IdleCapInit, <1>1, PTL DEF Spec

(***************************************************************************)
(* ConnectionPool implements PoolContract.                                 *)
(***************************************************************************)
\* What the argument needs of a reachable state.
PoolInv ==
  /\ TypeOK /\ SingleOwner /\ NothingLost
  /\ ActiveCountExact /\ Reservation /\ IdleCap

LEMMA PoolInvInit == Init => PoolInv
BY TypeInit, OwnershipInit, CountInit, ReservationInit, IdleCapInit DEF PoolInv

LEMMA PoolInvStep == PoolInv /\ [Next]_vars => PoolInv'
<1> SUFFICES ASSUME PoolInv, [Next]_vars PROVE PoolInv'
  OBVIOUS
<1>1. TypeOK'
  BY TypeStep DEF PoolInv
<1>2. SingleOwner' /\ NothingLost'
  BY <1>1, OwnershipStep DEF PoolInv
<1>3. ActiveCountExact'
  BY CountStep DEF PoolInv
<1>4. Reservation'
  BY <1>1, ReservationStep DEF PoolInv
<1>5. IdleCap'
  BY IdleCapStep DEF PoolInv
<1> QED BY <1>1, <1>2, <1>3, <1>4, <1>5 DEF PoolInv

\* The owner of a block, by the place the block is in.
OwnerFacts ==
  /\ Owner \in [Block -> {"none", "call", "idle", "app"}]
  /\ \A b \in Block :
       /\ Owner[b] = "idle" <=> b \in Pooled
       /\ Owner[b] = "app" <=> b \in inUse
       /\ Owner[b] = "call" <=> b \in Constructed \cap Working
       /\ Owner[b] = "none" <=> b \notin Constructed
  /\ Pooled \subseteq Constructed /\ inUse \subseteq Constructed

LEMMA OwnerOf == PoolInv => OwnerFacts
<1> SUFFICES ASSUME PoolInv PROVE OwnerFacts
  OBVIOUS
<1>1. /\ Pooled \cap inUse = {} /\ Pooled \cap Working = {} /\ inUse \cap Working = {}
      /\ heap \cap Pooled = {} /\ memPool \cap Pooled = {}
      /\ heap \cap inUse = {} /\ memPool \cap inUse = {}
      /\ heap \cup memPool \cup Pooled \cup inUse \cup Working = Block
  BY DEF PoolInv, SingleOwner, PlacesDisjoint, NothingLost
<1>2. Counting \subseteq Working
  BY DEF Counting, Working, Owning
<1>3. \A b \in Block : b \in Constructed <=>
                         b \notin heap /\ b \notin memPool /\ b \notin Counting
  BY DEF Constructed
<1>4. Pooled \subseteq Constructed /\ inUse \subseteq Constructed
  BY <1>1, <1>2, <1>3
<1>5. \A b \in Block : b \in Constructed =>
                         b \in Pooled \/ b \in inUse \/ b \in Working
  BY <1>1, <1>3
<1> HIDE DEF Pooled, Constructed, Working
<1>6. Owner \in [Block -> {"none", "call", "idle", "app"}]
  BY DEF Owner
<1> QED BY <1>1, <1>4, <1>5, <1>6 DEF Owner, OwnerFacts

\* One block changes its owner.
LEMMA OwnerMove ==
  ASSUME PoolInv, PoolInv', NEW b \in Block, NEW to, Owner'[b] = to,
         \A c \in Block \ {b} :
            /\ c \in Pooled <=> c \in Pooled'
            /\ c \in inUse <=> c \in inUse'
            /\ c \in Constructed <=> c \in Constructed'
  PROVE  Owner' = [Owner EXCEPT ![b] = to]
<1>1. \A c \in Block \ {b} : Owner'[c] = Owner[c]
  BY DEF Owner
<1>2. Owner' = [c \in Block |-> Owner'[c]] /\ Owner = [c \in Block |-> Owner[c]]
  BY DEF Owner
<1> QED BY <1>1, <1>2

\* No block changes its owner.
LEMMA OwnerSame ==
  ASSUME Pooled' = Pooled, inUse' = inUse, Constructed' = Constructed
  PROVE  Owner' = Owner
BY DEF Owner

\* The contract counts as the pool does.
LEMMA SameCardinality == \A S : Contract!Cardinality(S) = Cardinality(S)
BY DEF Contract!Cardinality, Cardinality, Contract!IsFiniteSet, IsFiniteSet

LEMMA ContractStep ==
  ASSUME PoolInv, PoolInv', [Next]_vars
  PROVE  Contract!Next \/ UNCHANGED Owner
<1> USE NoBlockAssumption, FiniteAssumption, OptionAssumption
<1> DEFINE Done == Contract!Next \/ Owner' = Owner
<1>a. TypeOK /\ SingleOwner /\ IsInjective(idle)
  BY DEF PoolInv, SingleOwner, IdleDistinct
<1>b. /\ idle \in Seq(Block) /\ cur \in [Thread -> Block \cup {NoBlock}]
      /\ inUse \subseteq Block /\ Constructed \subseteq Block
      /\ \A t \in Thread : pc[t] \in Owning => cur[t] \in Working /\ cur[t] \in Block
  BY <1>a DEF TypeOK, Working, Constructed
<1>c. OwnerFacts
  BY OwnerOf
<1>d. OwnerFacts'
  BY OwnerOf, PTL
<1>e. ASSUME NEW b \in Block, NEW from, NEW to, Owner[b] = from, Owner'[b] = to,
             \A c \in Block \ {b} :
                /\ c \in Pooled <=> c \in Pooled'
                /\ c \in inUse <=> c \in inUse'
                /\ c \in Constructed <=> c \in Constructed'
      PROVE  Contract!Move(b, from, to)
  BY <1>e, OwnerMove DEF Contract!Move
<1>1. ASSUME NEW t \in Thread, Get(t) \/ Refuse(t) \/ ReuseBlock(t) \/ Malloc(t)
      PROVE  Done
  <2>1. UNCHANGED <<idle, inUse>>
    BY <1>1 DEF Get, Refuse, ReuseBlock, Malloc, poolVars
  <2> QED BY <1>1, <1>a, <2>1, ConstructedSame, OwnerSame DEF Pooled
<1>2. ASSUME NEW t \in Thread, GcUncount(t) PROVE Done
  <2>1. UNCHANGED <<idle, inUse>>
    BY <1>2 DEF GcUncount
  <2> QED BY <1>2, <1>a, <2>1, UncountSettles, OwnerSame DEF Pooled
<1>3. ASSUME NEW t \in Thread, ExpireBack(t) PROVE Done
  <2>1. inUse' = inUse /\ Constructed' = Constructed
    BY <1>3, <1>a, ConstructedSame DEF ExpireBack
  <2>2. CASE idle' = idle
    BY <2>1, <2>2, OwnerSame DEF Pooled
  <2>3. CASE idle # <<>> /\ idle' = PopBack(idle)
    <3> DEFINE b == idle[Len(idle)]
    <3>1. b \in Block /\ Pooled = {b} \cup Pooled' /\ b \notin Pooled'
      BY <1>a, <1>b, <2>3, PopBackRange, PopBackProperties DEF Pooled
    <3> HIDE DEF b
    <3>2. Owner[b] = "idle"
      BY <1>c, <3>1 DEF OwnerFacts
    <3>3. Owner'[b] = "call"
      BY <1>c, <1>d, <2>1, <3>1, <3>2 DEF OwnerFacts
    <3>4. Contract!Move(b, "idle", "call")
      BY <1>e, <2>1, <3>1, <3>2, <3>3
    <3> QED BY <3>1, <3>4 DEF Contract!Next, Contract!Retire
  <2> QED BY <1>3, <2>2, <2>3 DEF ExpireBack
<1>4. ASSUME NEW t \in Thread, TakeFront(t) PROVE Done
  <2>1. Constructed' = Constructed
    BY <1>4, <1>a, ConstructedSame
  <2>2. CASE UNCHANGED <<idle, inUse>>
    BY <2>1, <2>2, OwnerSame DEF Pooled
  <2>3. CASE idle # <<>> /\ idle' = PopFront(idle)
    <3> DEFINE b == Head(idle)
    <3>1. b \in Block /\ Pooled = {b} \cup Pooled' /\ b \notin Pooled'
      BY <1>a, <1>b, <2>3, PopFrontRange, PopFrontProperties DEF Pooled
    <3>2. inUse' = inUse \cup {b} \/ inUse' = inUse
      BY <1>4, <2>3 DEF TakeFront
    <3> HIDE DEF b
    <3>3. Owner[b] = "idle"
      BY <1>c, <3>1 DEF OwnerFacts
    <3>4. Owner'[b] = "app" \/ Owner'[b] = "call"
      BY <1>c, <1>d, <2>1, <3>1, <3>3 DEF OwnerFacts
    <3>5. Contract!Move(b, "idle", Owner'[b])
      BY <1>e, <2>1, <3>1, <3>2, <3>3
    <3> QED BY <3>1, <3>4, <3>5 DEF Contract!Next, Contract!Retire, Contract!Lend
  <2> QED BY <1>4, <2>2, <2>3 DEF TakeFront
<1>5. ASSUME NEW t \in Thread, Construct(t) PROVE Done
  <2> DEFINE b == cur[t]
  <2>1. /\ UNCHANGED <<idle, inUse, cur>> /\ Pooled' = Pooled
        /\ pc[t] = "count" /\ pc'[t] = "init"
    BY <1>5, <1>a DEF Construct, Goto, Pooled, TypeOK
  <2>2. b \in Block \ Constructed /\ Constructed' = Constructed \cup {b}
    BY <1>5, <1>a, ConstructAdds
  <2>3. Owner[b] = "none" /\ Owner'[b] = "call"
    BY <1>c, <1>d, <2>1, <2>2 DEF OwnerFacts
  <2>4. Contract!Move(b, "none", "call")
    BY <1>e, <2>1, <2>2, <2>3
  <2>5. Contract!Alive = Constructed
    BY <1>c DEF Contract!Alive, Contract!In, OwnerFacts, Constructed
  <2>6. Cardinality(Constructed) < Limit
    <3>1. IsFiniteSet(Constructed) /\ Cardinality(Constructed) \in Nat
      BY FS_Subset, FS_CardinalityType DEF Constructed
    <3>2. CASE MaxActive > 0
      <4>1. t \in InFlight /\ IsFiniteSet(InFlight)
        BY <2>1, FS_Subset DEF InFlight
      <4>2. Cardinality(InFlight) \in Nat \ {0}
        BY <4>1, FS_CardinalityType, FS_EmptySet
      <4>3. IsFiniteSet(Uncounting) /\ Cardinality(Uncounting) \in Nat
        BY FS_Subset, FS_CardinalityType DEF Uncounting
      <4>4. Cardinality(Thread) \in Nat
        BY FS_CardinalityType
      <4> QED BY <3>1, <3>2, <4>2, <4>3, <4>4
            DEF PoolInv, Reservation, ActiveCountExact, Limit
    <3>3. CASE ~(MaxActive > 0)
      <4>1. /\ Cardinality(Constructed) <= Cardinality(Block)
            /\ Cardinality(Constructed) # Cardinality(Block)
        BY <2>2, FS_Subset DEF Constructed
      <4>2. Cardinality(Block) \in Nat
        BY FS_CardinalityType
      <4> QED BY <3>1, <3>3, <4>1, <4>2 DEF Limit
    <3> QED BY <3>2, <3>3
  <2>7. Contract!Create(b)
    BY <2>4, <2>5, <2>6, SameCardinality DEF Contract!Create
  <2> QED BY <2>2, <2>7 DEF Contract!Next
<1>6. ASSUME NEW t \in Thread, InitHandler(t) PROVE Done
  <2>1. /\ Pooled' = Pooled /\ Constructed' = Constructed
        /\ cur[t] \in Block /\ cur[t] \in Working /\ pc[t] = "init"
        /\ inUse' = inUse \/ inUse' = inUse \cup {cur[t]}
    BY <1>6, <1>a, <1>b, ConstructedSame DEF InitHandler, Pooled, Owning
  <2>2. CASE inUse' = inUse
    BY <2>1, <2>2, OwnerSame
  <2>3. CASE inUse' = inUse \cup {cur[t]}
    <3>1. cur[t] \notin Counting /\ cur[t] \notin heap \cup memPool
      BY <1>a, <2>1, OwnershipFacts DEF Counting, Owning
    <3>2. Owner[cur[t]] = "call" /\ Owner'[cur[t]] = "app"
      BY <1>c, <1>d, <2>1, <2>3, <3>1 DEF OwnerFacts, Constructed
    <3>3. Contract!Move(cur[t], "call", "app")
      BY <1>e, <2>1, <2>3, <3>2
    <3> QED BY <2>1, <3>3 DEF Contract!Next, Contract!Lend
  <2> QED BY <2>1, <2>2, <2>3
<1>7. ASSUME NEW t \in Thread, GcRecycle(t) PROVE Done
  <2>1. UNCHANGED <<inUse, idle>> /\ Pooled' = Pooled /\ pc[t] = "gc"
    BY <1>7 DEF GcRecycle, Pooled
  <2>2. cur[t] \in Block /\ cur[t] \in Working
    BY <1>b, <2>1 DEF Owning
  <2>3. cur[t] \in Constructed /\ Constructed' = Constructed \ {cur[t]}
    BY <1>7, <1>a, RecycleRemoves
  <2>4. Owner[cur[t]] = "call" /\ Owner'[cur[t]] = "none"
    BY <1>c, <1>d, <2>2, <2>3 DEF OwnerFacts
  <2>5. Contract!Move(cur[t], "call", "none")
    BY <1>e, <2>1, <2>2, <2>3, <2>4
  <2> QED BY <2>2, <2>5 DEF Contract!Next, Contract!Destroy
<1>8. ASSUME NEW t \in Thread, Put(t) PROVE Done
  <2>1. Pooled' = Pooled /\ Constructed' = Constructed
    BY <1>8, <1>a, ConstructedSame DEF Put, Pooled
  <2>2. PICK b \in inUse : inUse' = inUse \ {b}
    BY <1>8 DEF Put
  <2>3. Owner[b] = "app" /\ Owner'[b] = "call" /\ b \in Block
    BY <1>b, <1>c, <1>d, <2>1, <2>2 DEF OwnerFacts
  <2>4. Contract!Move(b, "app", "call")
    BY <1>e, <2>1, <2>2, <2>3
  <2> QED BY <2>3, <2>4 DEF Contract!Next, Contract!Return
<1>9. ASSUME NEW t \in Thread, PushIdle(t) PROVE Done
  <2> DEFINE list == PushFront(idle, cur[t])
             v == list[Len(list)]
  <2>1. /\ inUse' = inUse /\ Constructed' = Constructed /\ pc[t] = "push"
        /\ cur[t] \in Block /\ cur[t] \in Working
    BY <1>9, <1>a, <1>b, ConstructedSame DEF PushIdle, Owning
  <2>2. cur[t] \notin Counting /\ cur[t] \notin heap \cup memPool
    BY <1>a, <2>1, OwnershipFacts DEF Counting, Owning
  <2>3. Owner[cur[t]] = "call" /\ cur[t] \notin Pooled
    BY <1>c, <2>1, <2>2 DEF OwnerFacts, Constructed
  <2>4. /\ list \in Seq(Block) /\ Len(list) = Len(idle) + 1 /\ list[1] = cur[t]
        /\ IsInjective(list) /\ Range(list) = {cur[t]} \cup Pooled
    BY <1>a, <1>b, <2>1, <2>3, PushFrontRange, PushFrontProperties DEF Pooled
  <2>5. Len(idle) \in Nat
    BY <1>b
  <2> HIDE DEF list, v
  <2>6. list # <<>>
    BY <2>4, <2>5
  <2>7. CASE idle' = list /\ ~OverIdle(list)
    <3>1. Pooled' = {cur[t]} \cup Pooled
      BY <2>4, <2>7 DEF Pooled
    <3>2. Owner'[cur[t]] = "idle"
      BY <1>d, <2>1, <3>1 DEF OwnerFacts
    <3>3. Contract!Move(cur[t], "call", "idle")
      BY <1>e, <2>1, <2>3, <3>1, <3>2
    <3>4. Contract!In("idle") = Pooled
      BY <1>b, <1>c, RangeOfSeq DEF Contract!In, OwnerFacts, Pooled
    <3>5. Cardinality(Pooled) = Len(idle)
      BY <1>a, <1>b, PooledCardinality DEF SingleOwner
    <3>6. MaxIdle > 0 => Cardinality(Pooled) < MaxIdle
      BY <2>4, <2>5, <2>7, <3>5 DEF OverIdle
    <3>7. Contract!Keep(cur[t])
      BY <3>3, <3>4, <3>6, SameCardinality DEF Contract!Keep
    <3> QED BY <2>1, <3>7 DEF Contract!Next
  <2>8. CASE idle' = PopBack(list) /\ OverIdle(list)
    <3>1. /\ v \in Block /\ v \notin Pooled'
          /\ {cur[t]} \cup Pooled = {v} \cup Pooled'
      BY <2>4, <2>6, <2>8, PopBackRange, PopBackProperties DEF Pooled, v
    <3>2. v # cur[t]
      <4>1. Len(list) # 1 /\ Len(list) \in Nat /\ Len(list) > 0
        BY <2>4, <2>5, <2>8 DEF OverIdle
      <4>2. 1 \in DOMAIN list /\ Len(list) \in DOMAIN list
        BY <2>4, <4>1
      <4> QED BY <2>4, <4>1, <4>2 DEF IsInjective, v
    <3>3. Owner[v] = "idle" /\ Owner'[cur[t]] = "idle"
      BY <1>c, <1>d, <2>1, <3>1, <3>2 DEF OwnerFacts
    <3>4. Owner'[v] = "call"
      BY <1>c, <1>d, <2>1, <3>1, <3>3 DEF OwnerFacts
    <3>5. \A c \in Block \ {cur[t], v} : Owner'[c] = Owner[c]
      BY <2>1, <3>1 DEF Owner
    <3>6. Owner' = [Owner EXCEPT ![cur[t]] = "idle", ![v] = "call"]
      <4>1. /\ Owner' = [c \in Block |-> Owner'[c]]
            /\ Owner = [c \in Block |-> Owner[c]]
        BY DEF Owner
      <4> QED BY <2>1, <3>1, <3>2, <3>3, <3>4, <3>5, <4>1
    <3>7. Contract!Replace(cur[t], v)
      BY <2>3, <3>3, <3>6 DEF Contract!Replace
    <3> QED BY <2>1, <3>1, <3>7 DEF Contract!Next
  <2> QED BY <1>9, <2>7, <2>8 DEF PushIdle, list
<1>10. CASE AdvanceClock \/ UNCHANGED vars
  <2>1. Pooled' = Pooled /\ inUse' = inUse /\ Constructed' = Constructed
    BY <1>10 DEF AdvanceClock, vars, poolVars, Pooled, Constructed, Counting
  <2> QED BY <2>1, OwnerSame
<1> QED
  BY <1>1, <1>2, <1>3, <1>4, <1>5, <1>6, <1>7, <1>8, <1>9, <1>10
  DEF Next, Continue

\* The pool implements the contract: whatever its callers, its clock, malloc and
\* the server do, each step is a step of a connection's life cycle, within the
\* limits on live and on idle connections, or invisible.
THEOREM PoolImplementsContract == Spec => KeepsContract
<1>1. Init => Contract!Init
  BY DEF Init, Contract!Init, Owner, Pooled, Constructed, Range
<1>2. PoolInv /\ [Next]_vars => PoolInv'
  BY PoolInvStep
<1>3. PoolInv /\ PoolInv' /\ [Next]_vars => [Contract!Next]_Owner
  BY ContractStep
<1> QED BY PoolInvInit, <1>1, <1>2, <1>3, PTL DEF Spec, KeepsContract, Contract!Spec
=============================================================================
