-------------------------- MODULE RedisAnswersProofs --------------------------
(***************************************************************************)
(* Whose answer a callback is given, and how often it runs, for any        *)
(* programs, topics, fragments and orders of events.  First, where the     *)
(* callbacks are (Placed, Closing); then, which of them the messages on    *)
(* their way are for (Posted); last, what has been called, and with what   *)
(* (Counts, Given, Reasoned).                                              *)
(***************************************************************************)
EXTENDS RedisAsyncProofs

(***************************************************************************)
(* The messages that are complete in a buffer                              *)
(***************************************************************************)
LetterIn == [p \in PieceOf(AnyMessage) |-> IF p.last THEN <<p.msg>> ELSE <<>>]
Letters(s) == Through(LetterIn, s)

LEMMA LettersLaws ==
    LET P == PieceOf(AnyMessage) IN
    /\ \A s \in Seq(P) : Letters(s) \in Seq(AnyMessage)
    /\ \A s, u \in Seq(P) : Letters(s \o u) = Letters(s) \o Letters(u)
    /\ Letters(<<>>) = <<>>
    /\ \A s \in Seq(P) : Whole(s) => Letters(s) = <<First(s)>> \o Letters(Behind(s))
    /\ \A m \in AnyMessage : Letters(Pieces(m)) = <<m>>
    /\ Letters(<<Garbage>>) = <<Garbage.msg>>
<1> DEFINE M == AnyMessage
           Q == PieceOf(M)
           g == LetterIn
           e == Garbage
<1>1. \A m \in M : <<m>> \in Seq(M) /\ <<>> \in Seq(M)
  <2> HIDE DEF M
  <2> QED OBVIOUS
<1>2. \A p \in Q : p.last \in BOOLEAN /\ p.msg \in M
  <2> HIDE DEF M
  <2> QED BY DEF PieceOf
<1>3. /\ g \in Gives(Q, M)
      /\ \A p \in Q : g[p] = IF p.last THEN <<p.msg>> ELSE <<>>
  <2> HIDE DEF M
  <2>1. g = [p \in Q |-> IF p.last THEN <<p.msg>> ELSE <<>>]
    BY DEF LetterIn, M
  <2> HIDE DEF g, Q
  <2> QED BY <1>1, <1>2, <2>1 DEF Gives
<1>4. \A k \in M : Pieces(k) \in Seq(PieceOf(M)) /\ Whole(Pieces(k)) /\ First(Pieces(k)) = k /\ Behind(Pieces(k)) = <<>>
  <2> HIDE DEF M
  <2> QED BY PiecesTyped
<1>5. /\ \A s \in Seq(Q) : Through(g, s) \in Seq(M)
      /\ \A s, u \in Seq(Q) : Through(g, s \o u) = Through(g, s) \o Through(g, u)
      /\ Through(g, <<>>) = <<>>
      /\ \A p \in Q : Through(g, <<p>>) = g[p]
  <2> HIDE DEF g, Q, M
  <2> QED BY <1>3, AmountLaws
<1>6. ASSUME NEW s \in Seq(Q), Whole(s)
      PROVE  Through(g, s) = <<First(s)>> \o Through(g, Behind(s))
  <2> HIDE DEF g, M
  <2>1. \A p \in PieceOf(M) : ~p.last => g[p] = <<>>
    BY <1>3
  <2>2. Through(g, s) = g[s[End(s)]] \o Through(g, Behind(s))
    BY <1>3, <1>6, <2>1, ThroughWhole
  <2>3. s[End(s)] \in PieceOf(M) /\ s[End(s)].last
    BY <1>6, AroundEnd
  <2>4. g[s[End(s)]] = <<First(s)>>
    BY <1>3, <2>3 DEF First
  <2> QED BY <2>2, <2>4
<1>7. ASSUME NEW k \in M PROVE Through(g, Pieces(k)) = <<k>>
  <2> HIDE DEF g, M
  <2>1. Through(g, Pieces(k)) = <<k>> \o <<>>
    BY <1>4, <1>5, <1>6
  <2>2. <<k>> \in Seq(M)
    BY <1>1
  <2> QED BY <2>1, <2>2, ConcatEmptySeq
<1>8. e \in Q /\ e.last
  BY DEF Garbage, PieceOf, AnyMessage
<1>9. Through(g, <<e>>) = <<e.msg>>
  <2> HIDE DEF g, Q, M, e
  <2> QED BY <1>3, <1>5, <1>8
<1> HIDE DEF g, e
<1> QED BY <1>5, <1>6, <1>7, <1>9 DEF Letters, g, e

(***************************************************************************)
(* The queues of callbacks                                                 *)
(***************************************************************************)
\* A queue has regular commands out of w only, the oldest first.
Queue(q, w) ==
    /\ \A i \in 1..Len(q) : /\ q[i].id \in 1..Len(w) /\ w[q[i].id].op = "get"
                            /\ q[i].fn = w[q[i].id].fn
    /\ \A i, j \in 1..Len(q) : i < j => q[i].id < q[j].id
Ids(q) == {q[i].id : i \in 1..Len(q)}

LEMMA QueueTail ==
    ASSUME NEW w, NEW q \in Seq(Callbacks), Queue(q, w), q # <<>>
    PROVE  /\ Tail(q) \in Seq(Callbacks) /\ Queue(Tail(q), w)
           /\ Head(q) \in Callbacks /\ Head(q).id \in Ids(q)
           /\ Head(q).id \in 1..Len(w) /\ w[Head(q).id].op = "get"
           /\ Head(q).fn = w[Head(q).id].fn
           /\ Ids(Tail(q)) = Ids(q) \ {Head(q).id}
           /\ \A k \in Ids(q) : k = Head(q).id \/ Head(q).id < k
<1> DEFINE n == Len(q)
           u == Tail(q)
<1>1. /\ n \in Nat /\ n > 0 /\ u \in Seq(Callbacks) /\ Len(u) = n - 1 /\ Head(q) \in Callbacks
      /\ Head(q) = q[1] /\ \A i \in 1..n - 1 : u[i] = q[i + 1]
  <2> HIDE DEF u
  <2>1. u = Tail(q)
    BY DEF u
  <2> QED BY <2>1, HeadTailProperties, EmptySeq
<1> HIDE DEF n, u
<1>2. /\ \A i \in 1..n : q[i].id \in 1..Len(w) /\ w[q[i].id].op = "get" /\ q[i].fn = w[q[i].id].fn
      /\ \A i, j \in 1..n : i < j => q[i].id < q[j].id
  BY DEF Queue, n
<1>3. Queue(u, w)
  <2>1. \A i \in 1..n - 1 : i + 1 \in 1..n
    BY <1>1
  <2>2. ASSUME NEW i \in 1..n - 1, NEW j \in 1..n - 1, i < j PROVE u[i].id < u[j].id
    <3>1. i + 1 < j + 1
      BY <1>1, <2>2
    <3> QED BY <1>1, <1>2, <2>1, <3>1
  <2>3. \A i \in 1..n - 1 : u[i].id \in 1..Len(w) /\ w[u[i].id].op = "get" /\ u[i].fn = w[u[i].id].fn
    BY <1>1, <1>2, <2>1
  <2> QED BY <1>1, <2>2, <2>3 DEF Queue
<1>4. \A i \in 1..n : q[i].id \in Nat
  <2>1. \A i \in 1..n : q[i] \in Callbacks
    BY ElementOfSeq DEF n
  <2> QED BY <2>1 DEF Callbacks
<1>5. 1 \in 1..n /\ \A i \in 1..n : i = 1 \/ (1 < i /\ i - 1 \in 1..n - 1 /\ (i - 1) + 1 = i)
  BY <1>1
<1>6. Ids(u) = Ids(q) \ {q[1].id}
  <2>1. Ids(q) = {q[i].id : i \in 1..n} /\ Ids(u) = {u[i].id : i \in 1..n - 1}
    BY <1>1 DEF Ids, n
  <2>2. ASSUME NEW k \in Ids(u) PROVE k \in Ids(q) \ {q[1].id}
    <3>1. PICK i \in 1..n - 1 : k = u[i].id
      BY <2>1
    <3>2. i + 1 \in 1..n /\ 1 < i + 1 /\ k = q[i + 1].id
      BY <1>1, <3>1
    <3>3. q[1].id < k
      BY <1>2, <1>5, <3>2
    <3>4. q[1].id # k
      BY <1>4, <1>5, <3>2, <3>3
    <3> QED BY <2>1, <3>2, <3>4
  <2>3. ASSUME NEW k \in Ids(q), k # q[1].id PROVE k \in Ids(u)
    <3>1. PICK i \in 1..n : k = q[i].id
      BY <2>1
    <3>2. i # 1
      BY <2>3, <3>1
    <3>3. i - 1 \in 1..n - 1 /\ u[i - 1] = q[i]
      BY <1>1, <1>5, <3>2
    <3> QED BY <2>1, <3>1, <3>3
  <2> QED BY <2>2, <2>3
<1>7. \A k \in Ids(q) : k = q[1].id \/ q[1].id < k
  BY <1>2, <1>5 DEF Ids, n
<1>8. q[1].id \in Ids(q)
  BY <1>5 DEF Ids, n
<1> QED BY <1>1, <1>2, <1>3, <1>5, <1>6, <1>7, <1>8 DEF u

\* A further command, whose callback may join the queue.
LEMMA QueueGrows ==
    ASSUME NEW w \in Seq(CommandType), NEW m \in CommandType, NEW q \in Seq(Callbacks), Queue(q, w),
           NEW cb \in Callbacks, cb.id = Len(w) + 1, cb.fn = m.fn
    PROVE  /\ Queue(q, Append(w, m)) /\ Ids(q) \subseteq 1..Len(w)
           /\ m.op = "get" => Queue(Append(q, cb), Append(w, m))
           /\ Ids(Append(q, cb)) = Ids(q) \cup {cb.id}
<1> DEFINE n == Len(q)
           v == Append(w, m)
           u == Append(q, cb)
<1>1. /\ n \in Nat /\ Len(u) = n + 1 /\ u[n + 1] = cb /\ \A i \in 1..n : u[i] = q[i]
      /\ Len(w) \in Nat /\ Len(v) = Len(w) + 1 /\ v[Len(w) + 1] = m
      /\ \A i \in 1..Len(w) : v[i] = w[i]
  BY AppendProperties, LenProperties
<1> HIDE DEF u, v
<1>2. /\ \A i \in 1..n : q[i].id \in 1..Len(w) /\ w[q[i].id].op = "get" /\ q[i].fn = w[q[i].id].fn
      /\ \A i, j \in 1..n : i < j => q[i].id < q[j].id
  BY DEF Queue
<1> HIDE DEF n
<1>3. 1..Len(w) \subseteq 1..Len(v) /\ Len(w) + 1 \in 1..Len(v)
  BY <1>1
<1>4. Queue(q, v)
  <2>1. \A i \in 1..n : q[i].id \in 1..Len(v) /\ v[q[i].id].op = "get" /\ q[i].fn = v[q[i].id].fn
    BY <1>1, <1>2, <1>3
  <2> QED BY <1>2, <2>1 DEF Queue, n
<1>5. \A i \in 1..n + 1 : i \in 1..n \/ i = n + 1
  BY <1>1
<1>6. ASSUME m.op = "get" PROVE Queue(u, v)
  <2>1. ASSUME NEW i \in 1..n + 1
        PROVE  u[i].id \in 1..Len(v) /\ v[u[i].id].op = "get" /\ u[i].fn = v[u[i].id].fn
    <3>1. CASE i \in 1..n
      BY <1>1, <1>2, <1>3, <3>1, SMTT(60)
    <3>2. CASE i = n + 1
      BY <1>1, <1>3, <1>6, <3>2
    <3> QED BY <1>5, <3>1, <3>2
  <2>2. ASSUME NEW i \in 1..n + 1, NEW j \in 1..n + 1, i < j PROVE u[i].id < u[j].id
    <3>1. i \in 1..n
      BY <1>1, <2>2
    <3>2. CASE j \in 1..n
      BY <1>1, <1>2, <2>2, <3>1, <3>2
    <3>3. CASE j = n + 1
      <4>1. u[i].id \in 1..Len(w) /\ u[j].id = Len(w) + 1
        BY <1>1, <1>2, <3>1, <3>3
      <4> QED BY <1>1, <4>1
    <3> QED BY <1>5, <3>2, <3>3
  <2> QED BY <1>1, <2>1, <2>2 DEF Queue
<1>7. Ids(u) = Ids(q) \cup {cb.id}
  <2>1. Ids(u) = {u[i].id : i \in 1..n + 1} /\ Ids(q) = {q[i].id : i \in 1..n}
    BY <1>1 DEF Ids, n
  <2>2. 1..n + 1 = 1..n \cup {n + 1}
    BY <1>1
  <2> QED BY <1>1, <2>1, <2>2
<1>8. Ids(q) \subseteq 1..Len(w)
  BY <1>2 DEF Ids, n
<1> QED BY <1>4, <1>6, <1>7, <1>8 DEF u, v

(***************************************************************************)
(* The entries of the dictionaries                                         *)
(***************************************************************************)
\* Command k out of w subscribes to a topic; the entries of a dictionary are
\* callbacks of such commands, and so are those a free has still to run.
Names(w, k, pattern, t) ==
    /\ k \in 1..Len(w) /\ w[k].op = "subscribe" /\ w[k].pattern = pattern
    /\ t \in ToSet(w[k].topics)
Enters(d, w, pattern) ==
    \A t \in DOMAIN Hash : dictHas(d, t) => Names(w, dictFind(d, t).id, pattern, t)
Subscribes(s, w) == \A i \in 1..Len(s) : s[i].id \in 1..Len(w) /\ w[s[i].id].op = "subscribe"

LEMMA NamesGrow ==
    ASSUME NEW w \in Seq(CommandType), NEW m \in CommandType
    PROVE  /\ \A k, pattern, t : Names(w, k, pattern, t) => Names(Append(w, m), k, pattern, t)
           /\ \A d, pattern : Enters(d, w, pattern) => Enters(d, Append(w, m), pattern)
           /\ \A s : Subscribes(s, w) => Subscribes(s, Append(w, m))
<1> DEFINE v == Append(w, m)
<1>1. Len(v) = Len(w) + 1 /\ Len(w) \in Nat /\ \A i \in 1..Len(w) : v[i] = w[i]
  BY AppendProperties, LenProperties
<1> HIDE DEF v
<1>2. 1..Len(w) \subseteq 1..Len(v)
  BY <1>1
<1>3. \A k, pattern, t : Names(w, k, pattern, t) => Names(v, k, pattern, t)
  BY <1>1, <1>2 DEF Names
<1>4. \A s : Subscribes(s, w) => Subscribes(s, v)
  BY <1>1, <1>2 DEF Subscribes
<1> QED BY <1>3, <1>4 DEF Enters, v

LEMMA JoinEnters ==
    ASSUME NEW cb \in Callbacks, NEW w, NEW pattern, NEW a \in Pending, Enters(a.d, w, pattern),
           NEW x \in DOMAIN Hash, Names(w, cb.id, pattern, x)
    PROVE  Joins(cb)[<<a, x>>] \in Pending /\ Enters(Joins(cb)[<<a, x>>].d, w, pattern)
<1> DEFINE e == a.d
           n == IF dictHas(e, x) THEN dictFind(e, x).pending + 1 ELSE a.n
           v == [cb EXCEPT !.pending = n]
           y == dictReplace(e, x, v)
           b == Joins(cb)[<<a, x>>]
<1>1. e \in Table /\ a.n \in Int
  BY DEF Pending
<1>2. dictHas(e, x) => dictFind(e, x) \in Callbacks
  BY <1>1, ValueTyped DEF Table
<1>3. n \in Int
  BY <1>1, <1>2 DEF Callbacks
<1>4. b.d = y
  BY DEF Joins
<1>5. b \in Pending
  BY JoinsTyped
<1> HIDE DEF n, b
<1>6. v \in Callbacks /\ v.id = cb.id
  BY <1>3 DEF Callbacks
<1> HIDE DEF v, e
<1>7. /\ \A j \in DOMAIN Hash : dictHas(y, j) <=> dictHas(e, j) \/ j = x
      /\ dictFind(y, x) = v
      /\ \A j \in DOMAIN Hash \ {x} : dictHas(e, j) => dictFind(y, j) = dictFind(e, j)
  <2>1. Sound(e, Callbacks)
    BY <1>1 DEF Table
  <2> QED BY <1>6, <2>1, ReplaceLaw
<1>8. Enters(e, w, pattern)
  BY DEF e
<1> HIDE DEF y
<1>9. Enters(y, w, pattern)
  <2> SUFFICES ASSUME NEW j \in DOMAIN Hash, dictHas(y, j) PROVE Names(w, dictFind(y, j).id, pattern, j)
    BY DEF Enters
  <2>1. CASE j = x
    BY <1>6, <1>7, <2>1
  <2>2. CASE j # x
    BY <1>7, <1>8, <2>2 DEF Enters
  <2> QED BY <2>1, <2>2
<1> QED BY <1>4, <1>5, <1>9 DEF b

\* The topics of a SUBSCRIBE are entered.
LEMMA SubscribedEnters ==
    ASSUME NEW d \in Table, NEW w, NEW pattern, Enters(d, w, pattern),
           NEW topics \in Seq(DOMAIN Hash), NEW cb \in Callbacks,
           \A i \in 1..Len(topics) : Names(w, cb.id, pattern, topics[i])
    PROVE  Enters(Subscribed(d, topics, cb), w, pattern)
<1> DEFINE n == Len(topics)
           base == [d |-> d, n |-> cb.pending]
           P == [i \in 0..n |-> {a \in Pending : Enters(a.d, w, pattern)}]
<1>1. PICK f \in [SUBSET (1..n) -> Pending] :
        Folds(f, Joins(cb), base, topics, n) /\ Subscribed(d, topics, cb) = f[1..n].d
  BY SubscribedIs
<1>2. n \in Nat /\ 0 \in 0..n /\ n \in 0..n
  BY LenProperties
<1>3. base \in P[0]
  BY <1>2 DEF Pending, Callbacks
<1>4. \A i \in 0..n - 1 : \A a \in P[i] : Joins(cb)[<<a, topics[i + 1]>>] \in P[i + 1]
  <2> TAKE i \in 0..n - 1
  <2> TAKE a \in P[i]
  <2>1. i \in 0..n /\ i + 1 \in 0..n /\ i + 1 \in 1..n
    BY <1>2
  <2> DEFINE x == topics[i + 1]
  <2>2. x \in DOMAIN Hash /\ Names(w, cb.id, pattern, x)
    BY <2>1, ElementOfSeq
  <2>3. a \in Pending /\ Enters(a.d, w, pattern)
    BY <2>1
  <2> HIDE DEF x, P
  <2>4. Joins(cb)[<<a, x>>] \in Pending /\ Enters(Joins(cb)[<<a, x>>].d, w, pattern)
    BY <2>2, <2>3, JoinEnters
  <2> QED BY <2>1, <2>4 DEF P, x
<1>5. f[1..n] \in P[n]
  <2> HIDE DEF P, base
  <2> QED BY <1>1, <1>2, <1>3, <1>4, FoldsInduction
<1> QED BY <1>1, <1>2, <1>5

\* What a free finds in a dictionary.
LEMMA ValuesSubscribe ==
    ASSUME NEW d \in Table, NEW w, NEW pattern, Enters(d, w, pattern)
    PROVE  Subscribes(Values(d), w)
<1>1. /\ dictNext(d) \in Seq(Entry(Callbacks))
      /\ \A e : e \in Entries(d) <=> \E i \in 1..Len(dictNext(d)) : dictNext(d)[i] = e
  BY Iterated DEF Table
<1>2. DOMAIN dictNext(d) = 1..Len(dictNext(d)) /\ Len(dictNext(d)) \in Nat
  BY <1>1, LenProperties
<1>3. /\ Len(Values(d)) = Len(dictNext(d))
      /\ \A i \in 1..Len(dictNext(d)) : Values(d)[i] = dictNext(d)[i].val
  BY <1>2 DEF Values
<1>4. ASSUME NEW i \in 1..Len(dictNext(d))
      PROVE  dictNext(d)[i].val.id \in 1..Len(w) /\ w[dictNext(d)[i].val.id].op = "subscribe"
  <2> DEFINE e == dictNext(d)[i]
  <2>1. e \in Entries(d)
    BY <1>1
  <2> HIDE DEF e
  <2>2. e \in Entry(Callbacks) /\ dictHas(d, e.key) /\ e.val = dictFind(d, e.key)
    BY <2>1, Holds DEF Table
  <2>3. e.key \in DOMAIN Hash
    BY <2>2 DEF Entry
  <2>4. Names(w, e.val.id, pattern, e.key)
    BY <2>2, <2>3 DEF Enters
  <2> QED BY <2>4 DEF Names, e
<1> QED BY <1>3, <1>4 DEF Subscribes

(***************************************************************************)
(* Where the callbacks are, whatever goes wrong: the queues, unless a      *)
(* command was MONITOR, and the dictionaries.                              *)
(***************************************************************************)
Queued(a, w) ==
    Queue(a.replies, w) /\ Queue(a.invalid, w) /\ Ids(a.replies) \cap Ids(a.invalid) = {}
Entered(a, w) == Enters(a.channels, w, FALSE) /\ Enters(a.patterns, w, TRUE)

Placed ==
    /\ pc \in InLoop \cup {"gone"} /\ ~Monitored => Queued(ac, cmds)
    /\ pc \in InLoop => Entered(ac, cmds) /\ Subscribes(frame.todo, cmds)
    /\ pc \in InLoop \ {"crashed"} =>
         (Has(c, "MONITORING") <=> Monitored) /\ (server.monitor => Monitored)

\* A free goes through the queues first; a clean disconnect has none; and a
\* handler that is to give up knows why.
Closing ==
    /\ "clean" \notin faults
    /\ pc \in {"free", "freecallback"} =>
         /\ Has(c, "DISCONNECTING") \/ Has(c, "FREEING")
         /\ frame.phase # "replies" => ac.replies = <<>>
         /\ frame.phase = "topics" => ac.invalid = <<>>
    /\ pc \in {"connected", "event"} /\ frame.then = "abort" => c.err # "ok"

\* A step that leaves all callbacks where they are.
SameQueues(a) ==
    /\ a.replies = ac.replies /\ a.invalid = ac.invalid
    /\ a.channels = ac.channels /\ a.patterns = ac.patterns
SameMode(k) == Has(k, "MONITORING") <=> Has(c, "MONITORING")
Aside ==
    /\ SameQueues(ac') /\ SameMode(c')
    /\ cmds' = cmds /\ calls' = calls /\ faults \subseteq faults'
    /\ frame'.todo \in {frame.todo, <<>>}
    /\ server'.monitor => server.monitor \/ Monitored

LEMMA AsidePlaced ==
    ASSUME Placed, Aside, pc \in InLoop \ {"crashed"}, pc' \in InLoop
    PROVE  Placed'
<1>1. Monitored' <=> Monitored
  BY DEF Aside, Monitored
<1>2. Queued(ac, cmds)' <=> Queued(ac, cmds)
  BY DEF Aside, SameQueues, Queued, Queue, Ids
<1>3. Entered(ac, cmds)' <=> Entered(ac, cmds)
  BY DEF Aside, SameQueues, Entered, Enters, Names
<1>4. Subscribes(frame.todo, cmds) => Subscribes(frame.todo, cmds)'
  <2>1. Subscribes(<<>>, cmds)
    <3>1. Len(<<>>) = 0 /\ 1..0 = {}
      OBVIOUS
    <3> QED BY <3>1 DEF Subscribes
  <2> QED BY <2>1 DEF Aside, Subscribes
<1>5. (Has(c, "MONITORING") <=> Monitored)' /\ (server.monitor => Monitored)'
  BY <1>1 DEF Placed, Aside, SameMode
<1> QED BY <1>1, <1>2, <1>3, <1>4, <1>5 DEF Placed, InLoop

\* A free begins.
LEMMA ShutAside ==
    ASSUME Typed, pc \in InLoop, cmds' = cmds, Closing,
           NEW k \in Contexts(issued), SameMode(k), NEW a \in AsyncContexts, SameQueues(a),
           \/ StartFree(k, a) /\ (Has(k, "DISCONNECTING") \/ Has(k, "FREEING"))
           \/ Disconnect(k, a) /\ (k.err = "ok" => a.replies = <<>> /\ Has(k, "DISCONNECTING"))
    PROVE  Aside /\ Closing'
<1>1. ASSUME NEW j \in Contexts(issued), SameMode(j), Has(j, "DISCONNECTING") \/ Has(j, "FREEING"),
             NEW b \in AsyncContexts, SameQueues(b), StartFree(j, b)
      PROVE  Aside /\ Closing'
  <2>1. /\ c'.flags = j.flags /\ ac' = b /\ pc' = "free" /\ server'.monitor = FALSE
        /\ calls' = calls /\ faults' = faults
    BY <1>1 DEF StartFree, Contexts, NoServer
  <2>2. frame'.todo = <<>> /\ frame'.phase = "replies"
    BY <1>1 DEF StartFree, NoFrame
  <2>3. Aside
    BY <1>1, <2>1, <2>2 DEF Aside, SameQueues, SameMode, Has
  <2> QED BY <1>1, <2>1, <2>2, <2>3 DEF Closing, Has
<1>2. CASE StartFree(k, a) /\ (Has(k, "DISCONNECTING") \/ Has(k, "FREEING"))
  BY <1>1, <1>2
<1>3. CASE Disconnect(k, a) /\ (k.err = "ok" => a.replies = <<>> /\ Has(k, "DISCONNECTING"))
  <2> DEFINE b == [a EXCEPT !.err = k.err]
             d == Set(k, "DISCONNECTING")
  <2>1. b \in AsyncContexts /\ SameQueues(b)
    <3>1. k.err \in Errors
      BY DEF Contexts
    <3> QED BY <3>1 DEF AsyncContexts, SameQueues
  <2>2. d \in Contexts(issued) /\ SameMode(d) /\ Has(d, "DISCONNECTING")
    <3>1. d \in Contexts(issued)
      BY ErrorTyped, FlagsKnown
    <3> QED BY <3>1 DEF Contexts, SameMode, Has, Set
  <2> HIDE DEF b, d
  <2>3. CASE k.err = "ok"
    <3>1. StartFree(k, b) /\ Has(k, "DISCONNECTING")
      BY <1>3, <2>3 DEF Disconnect, b
    <3> QED BY <1>1, <2>1, <3>1
  <2>4. CASE k.err # "ok"
    <3>1. StartFree(d, b)
      BY <1>3, <2>4 DEF Disconnect, b, d
    <3> QED BY <1>1, <2>1, <2>2, <3>1
  <2> QED BY <2>3, <2>4
<1> QED BY <1>2, <1>3

LEMMA SameFields ==
    ASSUME NEW k \in Contexts(issued), SameMode(k)
    PROVE  /\ \A f : f # "MONITORING" => SameMode(Set(k, f)) /\ SameMode(Unset(k, f))
           /\ \A f : Has(Set(k, f), f)
           /\ \A f, g : Has(k, f) => Has(Set(k, g), f)
           /\ \A f, g : f # g /\ Has(k, f) => Has(Unset(k, g), f)
           /\ \A e : SameMode(SetError(k, e)) /\ SetError(k, e).err = e
           /\ \A e, f : Has(SetError(k, e), f) <=> Has(k, f)
           /\ \A s : SameMode([k EXCEPT !.inbuf = s]) /\ SameMode([k EXCEPT !.obuf = s])
           /\ \A s, f : (Has([k EXCEPT !.inbuf = s], f) <=> Has(k, f)) /\ [k EXCEPT !.inbuf = s].err = k.err
BY DEF Contexts, SameMode, Has, Set, Unset, SetError

\* The handlers of read and write events.
LEMMA TransferAside ==
    ASSUME Typed, pc \in InLoop, cmds' = cmds, Closing, NEW a \in AsyncContexts, SameQueues(a),
           ReadEvent(c, a) \/ WriteEvent(c, a)
    PROVE  Aside /\ Closing'
<1>1. c \in Contexts(issued) /\ SameMode(c)
  BY NowTyped DEF SameMode
<1>2. CASE c.err # "ok" /\ Disconnect(c, a)
  BY <1>1, <1>2, ShutAside
<1>3. ASSUME NEW e \in {"io", "eof"}, Disconnect(SetError(c, e), a) PROVE Aside /\ Closing'
  <2> DEFINE k == SetError(c, e)
  <2>1. k \in Contexts(issued) /\ SameMode(k) /\ k.err # "ok"
    BY <1>1, ErrorTyped, SameFields
  <2> HIDE DEF k
  <2>2. Disconnect(k, a)
    BY <1>3 DEF k
  <2> QED BY <2>1, <2>2, ShutAside
<1>4. ASSUME \/ \E s : c' = [c EXCEPT !.inbuf = s]
             \/ \E s : c' = [c EXCEPT !.obuf = s],
             \E s : ac' = [a EXCEPT !.ev = s],
             pc' \in {"process", "loop"}, frame' = NoFrame, UNCHANGED <<server, calls, faults>>
      PROVE  Aside /\ Closing'
  <2>0. \A s : SameMode([c EXCEPT !.inbuf = s]) /\ SameMode([c EXCEPT !.obuf = s])
    BY <1>1, SameFields
  <2>1. SameMode(c')
    <3>1. CASE \E s : c' = [c EXCEPT !.inbuf = s]
      <4>1. PICK s : c' = [c EXCEPT !.inbuf = s]
        BY <3>1
      <4> DEFINE k == [c EXCEPT !.inbuf = s]
      <4>2. SameMode(k)
        BY <2>0
      <4> HIDE DEF k
      <4> QED BY <4>1, <4>2 DEF SameMode, k
    <3>2. CASE \E s : c' = [c EXCEPT !.obuf = s]
      <4>1. PICK s : c' = [c EXCEPT !.obuf = s]
        BY <3>2
      <4> DEFINE k == [c EXCEPT !.obuf = s]
      <4>2. SameMode(k)
        BY <2>0
      <4> HIDE DEF k
      <4> QED BY <4>1, <4>2 DEF SameMode, k
    <3> QED BY <1>4, <3>1, <3>2
  <2>2. SameQueues(ac')
    BY <1>4 DEF SameQueues, AsyncContexts
  <2>3. frame'.todo = <<>>
    BY <1>4 DEF NoFrame
  <2> QED BY <1>4, <2>1, <2>2, <2>3 DEF Aside, Closing
<1>5. CASE ReadEvent(c, a)
  BY <1>2, <1>3, <1>4, <1>5 DEF ReadEvent
<1>6. CASE WriteEvent(c, a)
  BY <1>2, <1>3, <1>4, <1>6 DEF WriteEvent
<1> QED BY <1>5, <1>6

LEMMA AsideSteps ==
    ASSUME Typed, Control, Closing,
           \/ AppFree \/ AppDisconnect \/ HandleRead \/ HandleWrite \/ ConnectCallbackReturns
           \/ HandleEvent \/ CallbackReturns \/ FreeCallbackReturns
    PROVE  Aside /\ Closing'
<1>1. pc \in InLoop /\ Quiet /\ cmds' = cmds
  BY DEF AppFree, AppDisconnect, App, HandleRead, HandleWrite, ConnectCallbackReturns, HandleEvent,
         CallbackReturns, FreeCallbackReturns, Quiet, InLoop
<1>2. c \in Contexts(issued) /\ ac \in AsyncContexts /\ SameMode(c) /\ SameQueues(ac)
  BY NowTyped DEF SameMode, SameQueues
<1>3. ASSUME NEW f \in {"DISCONNECTING", "FREEING", "IN_CALLBACK", "CONNECTED"}
      PROVE  /\ Set(c, f) \in Contexts(issued) /\ SameMode(Set(c, f)) /\ Has(Set(c, f), f)
             /\ Unset(c, f) \in Contexts(issued) /\ SameMode(Unset(c, f))
             /\ Has(c, "DISCONNECTING") => Has(Set(c, f), "DISCONNECTING")
             /\ Has(c, "FREEING") => Has(Set(c, f), "FREEING")
             /\ Has(c, "DISCONNECTING") => Has(Unset(c, "IN_CALLBACK"), "DISCONNECTING")
             /\ Has(c, "FREEING") => Has(Unset(c, "IN_CALLBACK"), "FREEING")
  <2>1. f \in Flags /\ f # "MONITORING"
    BY FlagsKnown
  <2> QED BY <1>2, <2>1, ErrorTyped, SameFields
<1>4. ASSUME NEW f \in {"DISCONNECTING", "FREEING"}, c' = Set(c, f), Still,
             UNCHANGED <<pc, ac, frame, calls, faults>>
      PROVE  Aside /\ Closing'
  <2>1. c'.err = c.err
    BY <1>2, <1>4 DEF Set, Contexts
  <2>2. Aside
    BY <1>1, <1>2, <1>3, <1>4 DEF Aside, SameQueues, Still
  <2> QED BY <1>3, <1>4, <2>1, <2>2 DEF Closing
<1>5. CASE AppFree
  <2>1. StartFree(Set(c, "FREEING"), ac) => Aside /\ Closing'
    BY <1>1, <1>2, <1>3, ShutAside
  <2> QED BY <1>4, <1>5, <2>1 DEF AppFree
<1>6. CASE AppDisconnect
  <2>1. Disconnect(Set(c, "DISCONNECTING"), ac) /\ ac.replies = <<>> => Aside /\ Closing'
    BY <1>1, <1>2, <1>3, ShutAside
  <2> QED BY <1>4, <1>6, <2>1 DEF AppDisconnect
<1>7. ASSUME NEW then, NEW a \in AsyncContexts, SameQueues(a), then # "abort", FirstEvent(then, a)
      PROVE Aside /\ Closing'
  <2>1. SameMode(SetError(c, "io")) /\ SetError(c, "io").err # "ok" /\ SameMode(Set(c, "CONNECTED"))
    BY <1>2, <1>3, SameFields
  <2>2. SameMode(c') /\ frame'.todo = <<>> /\ (frame'.then = "abort" => c'.err # "ok")
    BY <1>7, <2>1 DEF FirstEvent, NoFrame
  <2>3. Aside
    BY <1>1, <1>7, <2>2 DEF FirstEvent, Aside, Still
  <2> QED BY <1>7, <2>2, <2>3 DEF Closing, FirstEvent
<1>8. \A e : [ac EXCEPT !.ev = @ \ {e}] \in AsyncContexts /\ SameQueues([ac EXCEPT !.ev = @ \ {e}])
  BY <1>2 DEF AsyncContexts, SameQueues
<1>9. CASE HandleRead
  <2> DEFINE a == [ac EXCEPT !.ev = @ \ {"read"}]
  <2>1. a \in AsyncContexts /\ SameQueues(a)
    BY <1>8
  <2>2. ReadEvent(c, a) \/ FirstEvent("read", a)
    BY <1>9 DEF HandleRead
  <2> HIDE DEF a
  <2> QED BY <1>1, <1>7, <2>1, <2>2, TransferAside
<1>10. CASE HandleWrite
  <2> DEFINE a == [ac EXCEPT !.ev = @ \ {"write"}]
  <2>1. a \in AsyncContexts /\ SameQueues(a)
    BY <1>8
  <2>2. WriteEvent(c, a) \/ FirstEvent("write", a)
    BY <1>10 DEF HandleWrite
  <2> HIDE DEF a
  <2> QED BY <1>1, <1>7, <2>1, <2>2, TransferAside
<1>11. CASE ConnectCallbackReturns
  BY <1>1, <1>2, <1>11 DEF ConnectCallbackReturns, Aside, Closing, SameQueues, Still, SameMode
<1>12. CASE HandleEvent
  <2>1. frame.then \in {"abort", "read", "write"} /\ pc = "event"
    BY <1>12 DEF HandleEvent, Control, Resumes
  <2>2. frame.then = "abort" => c.err # "ok"
    BY <2>1 DEF Closing
  <2>3. (c.err # "ok" /\ Disconnect(c, ac)) \/ ReadEvent(c, ac) \/ WriteEvent(c, ac)
    BY <1>12, <2>1, <2>2 DEF HandleEvent
  <2> QED BY <1>1, <1>2, <2>3, ShutAside, TransferAside
<1>13. CASE CallbackReturns
  <2>1. CASE Has(c, "FREEING")
    <3>1. Has(Unset(c, "IN_CALLBACK"), "FREEING") /\ StartFree(Unset(c, "IN_CALLBACK"), ac)
      BY <1>3, <1>13, <2>1 DEF CallbackReturns
    <3> QED BY <1>1, <1>2, <1>3, <3>1, ShutAside
  <2>2. CASE ~Has(c, "FREEING")
    <3>1. /\ c' = Unset(c, "IN_CALLBACK") /\ pc' = "process" /\ Still /\ UNCHANGED <<ac, calls, faults>>
          /\ frame' = [frame EXCEPT !.reply = NoFrame.reply]
      BY <1>13, <2>2 DEF CallbackReturns
    <3>2. frame'.todo = frame.todo
      BY <3>1, NowTyped DEF Frames
    <3>3. Aside
      BY <1>1, <1>2, <1>3, <3>1, <3>2 DEF Aside, Still, SameQueues
    <3> QED BY <3>1, <3>3 DEF Closing
  <2> QED BY <2>1, <2>2
<1>14. CASE FreeCallbackReturns
  <2>1. Aside
    BY <1>1, <1>2, <1>3, <1>14 DEF FreeCallbackReturns, Aside, Still, SameQueues
  <2> QED BY <1>3, <1>14, <2>1 DEF FreeCallbackReturns, Closing
<1> QED BY <1>5, <1>6, <1>9, <1>10, <1>11, <1>12, <1>13, <1>14

(***************************************************************************)
(* What a turn of redisProcessCallbacks comes to                           *)
(***************************************************************************)
Msg == First(c.inbuf)
Rest == [c EXCEPT !.inbuf = Behind(@)]

\* It gives up, or finds no message.
GivesUp ==
    \E k \in Contexts(issued) :
        /\ SameMode(k) /\ Disconnect(k, ac)
        /\ k.err = "ok" => ac.replies = <<>> /\ Has(k, "DISCONNECTING")
Waits ==
    /\ ac' = IF Has(c, "MONITORING") THEN [ac EXCEPT !.replies = Append(@, frame.cb)] ELSE ac
    /\ pc' = "loop" /\ frame' = NoFrame /\ Still /\ UNCHANGED <<c, calls, faults>>

\* The message goes to the oldest callback, or to the oldest put aside.
ToOldest ==
    /\ ac.replies # <<>> /\ Run(Rest, [ac EXCEPT !.replies = Tail(@)], Head(ac.replies), Msg)
    /\ faults' = faults \cup Confusion(Head(ac.replies), Msg)
ToAside ==
    /\ ac.replies = <<>> /\ ac.invalid # <<>> /\ Msg.op \in {"answer", "line"}
    /\ Run(Rest, [ac EXCEPT !.invalid = Tail(@)], Head(ac.invalid), Msg) /\ faults' = faults

\* The variable cb is as it was.
ToAnother ==
    /\ ac.replies = <<>> /\ Msg.op # "error" /\ Run(Rest, ac, frame.cb, Msg)
    /\ \/ /\ Msg.op \in Kinds /\ ~dictHas(DictOf(ac, Msg.pattern), Msg.topic)
          /\ faults' = IF frame.cb.fn THEN faults \cup {"stale"} ELSE faults
       \/ /\ Msg.op \in {"answer", "line"} /\ ac.invalid = <<>> /\ faults' = faults
       \/ Has(c, "MONITORING") /\ faults' = faults

\* The message is about a topic that has an entry, which may change or go.
Heeding(d, e, r) ==
    /\ e \in Table /\ dictHas(d, r.topic)
    /\ \A t \in DOMAIN Hash : dictHas(e, t) => dictHas(d, t) /\ dictFind(e, t).id = dictFind(d, t).id
    /\ \A t \in DOMAIN Hash : dictHas(d, t) /\ ~dictHas(e, t) =>
         t = r.topic /\ r.op = "unsubscribe" /\ dictFind(d, t).pending = 0
ToTopic ==
    /\ ac.replies = <<>> /\ Msg.op \in Kinds /\ Msg.topic \in DOMAIN Hash /\ faults' = faults
    /\ \E e \in Table, cb \in Callbacks, k \in {Rest, Unset(Rest, "SUBSCRIBED")} :
         LET a == WithDict(ac, Msg.pattern, e) IN
         /\ Heeding(DictOf(ac, Msg.pattern), e, Msg)
         /\ cb.id = dictFind(DictOf(ac, Msg.pattern), Msg.topic).id
         /\ k = Rest \/ \A pattern \in BOOLEAN, t \in DOMAIN Hash : ~dictHas(DictOf(a, pattern), t)
         /\ Run(k, a, cb, Msg)

Asserts ==
    /\ ac.replies = <<>> /\ Msg.op # "error" /\ UNCHANGED <<c, ac>>
    /\ \/ Crash("topic")
       \/ Crash("mode") /\ ~Has(c, "SUBSCRIBED") /\ ~Has(c, "MONITORING")

LEMMA HeardTopicIs ==
    ASSUME Typed, Whole(c.inbuf), Msg \in AnyMessage, Msg.op \in Kinds, Msg.topic # "nil",
           dictHas(DictOf(ac, Msg.pattern), Msg.topic), HeardTopic(Rest, Msg), ac.replies = <<>>
    PROVE  ToTopic
<1> DEFINE k == Rest
           r == Msg
           p == r.pattern
           y == r.topic
           d == DictOf(ac, p)
           v == dictFind(d, y)
           n == IF r.op = "subscribe" THEN [v EXCEPT !.pending = @ - 1] ELSE v
           e == CASE r.op = "subscribe" -> dictSetVal(d, y, n)
                  [] r.op = "unsubscribe" /\ v.pending = 0 -> dictDelete(d, y)
                  [] OTHER -> d
           a == WithDict(ac, p, e)
           last == r.op = "unsubscribe" /\ r.count = 0 /\ a.channels.used = 0 /\ a.patterns.used = 0
           j == IF last THEN Unset(k, "SUBSCRIBED") ELSE k
<1>1. ac \in AsyncContexts
  BY NowTyped
<1>2. y \in DOMAIN Hash /\ p \in BOOLEAN
  <2> HIDE DEF r
  <2> QED BY NoticeTyped DEF Kinds, r
<1>3. d \in Table /\ Sound(d, Callbacks) /\ dictHas(d, y)
  BY <1>1, <1>2, AsyncFieldsTyped DEF Table
<1>4. v \in Callbacks
  <2> HIDE DEF d, y
  <2> QED BY <1>2, <1>3, ValueTyped
<1>5. n \in Callbacks /\ n.id = v.id
  <2> HIDE DEF v
  <2> QED BY <1>4 DEF Callbacks
<1>6. /\ Sound(dictSetVal(d, y, n), Callbacks)
      /\ \A t \in DOMAIN Hash :
            /\ dictHas(dictSetVal(d, y, n), t) <=> dictHas(d, t)
            /\ dictHas(d, t) => dictFind(dictSetVal(d, y, n), t) = IF t = y THEN n ELSE dictFind(d, t)
  <2> HIDE DEF d, y, n
  <2> QED BY <1>2, <1>3, <1>5, SetLaw
<1>7. /\ Sound(dictDelete(d, y), Callbacks)
      /\ \A t \in DOMAIN Hash :
            /\ dictHas(dictDelete(d, y), t) <=> dictHas(d, t) /\ t # y
            /\ dictHas(dictDelete(d, y), t) => dictFind(dictDelete(d, y), t) = dictFind(d, t)
  <2> HIDE DEF d, y
  <2> QED BY <1>2, <1>3, DeleteLaw
<1>8. Run(j, a, n, r) /\ faults' = faults
  BY DEF HeardTopic
<1>9. Heeding(d, e, r)
  <2>1. CASE r.op = "subscribe"
    <3>1. e = dictSetVal(d, y, n)
      BY <2>1
    <3>2. v = dictFind(d, y)
      OBVIOUS
    <3> HIDE DEF d, n, e, v
    <3> QED BY <1>3, <1>5, <1>6, <3>1, <3>2 DEF Heeding, Table, Sound
  <2>2. CASE r.op = "unsubscribe" /\ v.pending = 0
    <3>1. e = dictDelete(d, y)
      BY <2>2
    <3>2. v = dictFind(d, y)
      OBVIOUS
    <3> HIDE DEF d, n, e, v
    <3> QED BY <1>3, <1>7, <2>2, <3>1, <3>2 DEF Heeding, Table, Sound
  <2>3. CASE r.op # "subscribe" /\ ~(r.op = "unsubscribe" /\ v.pending = 0)
    <3>1. e = d
      BY <2>3
    <3> HIDE DEF d, n, e, v
    <3> QED BY <1>3, <3>1 DEF Heeding
  <2> QED BY <2>1, <2>2, <2>3
<1>10. e \in Table
  <2> HIDE DEF d, e, r
  <2> QED BY <1>9 DEF Heeding
<1>11. last => \A q \in BOOLEAN, t \in DOMAIN Hash : ~dictHas(DictOf(a, q), t)
  <2> SUFFICES ASSUME last, NEW q \in BOOLEAN, NEW t \in DOMAIN Hash PROVE ~dictHas(DictOf(a, q), t)
    OBVIOUS
  <2>1. DictOf(a, q).used = 0
    <3>1. a.channels.used = 0 /\ a.patterns.used = 0
      OBVIOUS
    <3> HIDE DEF a
    <3> QED BY <3>1 DEF DictOf
  <2>2. Sound(DictOf(a, q), Callbacks)
    <3>1. a \in AsyncContexts
      <4> HIDE DEF e
      <4> QED BY <1>1, <1>2, <1>10, AsyncFieldsTyped
    <3> HIDE DEF a
    <3> QED BY <3>1, AsyncFieldsTyped DEF Table
  <2> HIDE DEF a
  <2> QED BY <2>1, <2>2, EmptyLaw
<1>12. j \in {k, Unset(k, "SUBSCRIBED")} /\ (j = k \/ last)
  <2> HIDE DEF last, k
  <2> QED OBVIOUS
<1>13. d = DictOf(ac, p) /\ n.id = dictFind(d, y).id /\ a = WithDict(ac, p, e)
  BY <1>5
<1> HIDE DEF d, v, n, e, a, last, j
<1> QED BY <1>2, <1>5, <1>8, <1>9, <1>10, <1>11, <1>12, <1>13 DEF ToTopic

LEMMA TurnIs ==
    ASSUME Typed, ProcessCallbacks
    PROVE  \/ GivesUp
           \/ ~Whole(c.inbuf) /\ Waits
           \/ /\ Whole(c.inbuf) /\ Msg \in AnyMessage /\ Msg.op # "garbage"
              /\ ToOldest \/ ToAside \/ ToAnother \/ ToTopic \/ Asserts
<1>1. c \in Contexts(issued) /\ SameMode(c) /\ ac \in AsyncContexts
  BY NowTyped DEF SameMode
<1>2. ASSUME NEW k \in Contexts(issued), SameMode(k), NEW e \in Errors \ {"ok"},
             Disconnect(SetError(k, e), ac)
      PROVE  GivesUp
  <2>1. SetError(k, e) \in Contexts(issued)
    BY <1>2, ErrorTyped DEF Errors
  <2>2. SameMode(SetError(k, e)) /\ SetError(k, e).err # "ok"
    BY <1>2, SameFields
  <2> QED BY <1>2, <2>1, <2>2 DEF GivesUp
<1>3. CASE c.rerr # "ok" /\ Disconnect(SetError(c, c.rerr), ac)
  <2>1. c.rerr \in Errors \ {"ok"}
    BY <1>1, <1>3 DEF Contexts, Errors
  <2> QED BY <1>1, <1>2, <1>3, <2>1
<1>4. CASE ~Whole(c.inbuf) /\ NoReply
  <2>1. CASE Has(c, "DISCONNECTING") /\ c.obuf.len = 0 /\ ac.replies = <<>> /\ Disconnect(c, ac)
    BY <1>1, <2>1 DEF GivesUp
  <2>2. CASE Waits
    BY <1>4, <2>2
  <2> QED BY <1>4, <2>1, <2>2 DEF NoReply, Waits
<1>5. CASE Disconnect(SetError([c EXCEPT !.rerr = "protocol"], "protocol"), ac)
  <2> DEFINE k == [c EXCEPT !.rerr = "protocol"]
  <2>1. k \in Contexts(issued) /\ SameMode(k)
    BY <1>1 DEF Contexts, SameMode, Has
  <2> HIDE DEF k
  <2>2. Disconnect(SetError(k, "protocol"), ac)
    BY <1>5 DEF k
  <2> QED BY <1>2, <2>1, <2>2 DEF Errors
<1>6. CASE Whole(c.inbuf) /\ Msg.op # "garbage" /\ Dispatch(Rest, Msg)
  <2>1. Msg \in AnyMessage /\ Rest \in Contexts(issued)
    <3>1. Msg \in AnyMessage /\ Behind(c.inbuf) \in Seq(PieceOf(AnyMessage))
      BY <1>6, StreamsTyped, BehindTyped DEF Msg
    <3> QED BY <1>1, <3>1, NowTyped, FieldsTyped DEF Rest
  <2>2. SameMode(Rest) /\ \A f : Has(Rest, f) <=> Has(c, f)
    BY <1>1, SameFields DEF Rest
  <2>3. /\ Msg.op \in Kinds => Msg.topic \in DOMAIN Hash \cup {"nil"} /\ Msg.pattern \in BOOLEAN
        /\ Msg.op \notin Kinds /\ Msg.op # "error" => Msg.op \in {"answer", "line"}
        /\ Msg.op \in Kinds => Msg.op # "error"
    BY <1>6, <2>1, NoticeTyped DEF Kinds
  <2>4. CASE ac.replies # <<>>
    BY <1>6, <2>1, <2>4 DEF Dispatch, ToOldest
  <2>5. CASE ac.replies = <<>> /\ Msg.op = "error"
    <3>1. Disconnect(SetError(Rest, "other"), ac)
      BY <1>6, <2>5 DEF Dispatch
    <3> QED BY <1>2, <2>1, <2>2, <3>1 DEF Errors
  <2>6. CASE ac.replies = <<>> /\ Msg.op # "error" /\ Has(Rest, "SUBSCRIBED")
    <3>1. GetSubscribeCallback(Rest, Msg)
      BY <1>6, <2>6 DEF Dispatch
    <3>2. CASE Msg.op \in Kinds /\ Msg.topic = "nil"
      <4>1. UNCHANGED <<c, ac>> /\ Crash("topic")
        BY <3>1, <3>2 DEF GetSubscribeCallback, Kinds
      <4>2. Asserts
        BY <2>6, <4>1 DEF Asserts
      <4> QED BY <1>6, <2>1, <4>2
    <3>3. CASE Msg.op \in Kinds /\ Msg.topic # "nil" /\ dictHas(DictOf(ac, Msg.pattern), Msg.topic)
      <4>1. HeardTopic(Rest, Msg)
        BY <3>1, <3>3 DEF GetSubscribeCallback, Kinds
      <4>2. ToTopic
        BY <1>6, <2>1, <2>6, <3>3, <4>1, HeardTopicIs
      <4> QED BY <1>6, <2>1, <4>2
    <3>4. CASE Msg.op \in Kinds /\ Msg.topic # "nil" /\ ~dictHas(DictOf(ac, Msg.pattern), Msg.topic)
      <4>1. Run(Rest, ac, frame.cb, Msg) /\ faults' = IF frame.cb.fn THEN faults \cup {"stale"} ELSE faults
        BY <3>1, <3>4 DEF GetSubscribeCallback, Kinds
      <4>2. ToAnother
        BY <2>6, <3>4, <4>1 DEF ToAnother
      <4> QED BY <1>6, <2>1, <4>2
    <3>5. CASE Msg.op \notin Kinds
      <4>1. /\ UNCHANGED faults
            /\ IF ac.invalid = <<>> THEN Run(Rest, ac, frame.cb, Msg)
               ELSE Run(Rest, [ac EXCEPT !.invalid = Tail(@)], Head(ac.invalid), Msg)
        BY <3>1, <3>5 DEF GetSubscribeCallback, Kinds
      <4>2. Msg.op \in {"answer", "line"}
        BY <2>3, <2>6, <3>5
      <4>3. ToAnother \/ ToAside
        BY <2>6, <4>1, <4>2 DEF ToAnother, ToAside
      <4> QED BY <1>6, <2>1, <4>3
    <3> QED BY <3>2, <3>3, <3>4, <3>5
  <2>7. CASE ac.replies = <<>> /\ Msg.op # "error" /\ ~Has(Rest, "SUBSCRIBED") /\ Has(Rest, "MONITORING")
    <3>1. Run(Rest, ac, frame.cb, Msg) /\ UNCHANGED faults
      BY <1>6, <2>7 DEF Dispatch
    <3>2. ToAnother
      BY <2>2, <2>7, <3>1 DEF ToAnother
    <3> QED BY <1>6, <2>1, <3>2
  <2>8. CASE ac.replies = <<>> /\ Msg.op # "error" /\ ~Has(Rest, "SUBSCRIBED") /\ ~Has(Rest, "MONITORING")
    <3>1. UNCHANGED <<c, ac>> /\ Crash("mode")
      BY <1>6, <2>8 DEF Dispatch
    <3>2. Asserts
      BY <2>2, <2>8, <3>1 DEF Asserts
    <3> QED BY <1>6, <2>1, <3>2
  <2> QED BY <2>4, <2>5, <2>6, <2>7, <2>8
<1> QED BY <1>3, <1>4, <1>5, <1>6 DEF ProcessCallbacks, Msg, Rest

LEMMA RunPlaced ==
    ASSUME Typed, Placed, Closing, pc = "process", cmds' = cmds, NEW k \in Contexts(issued), SameMode(k),
           NEW a, Entered(a, cmds), ~Monitored => Queued(a, cmds), NEW cb, NEW r, Run(k, a, cb, r),
           "clean" \notin faults'
    PROVE  Placed' /\ Closing'
<1>1. ac' = a /\ server' = server /\ pc' \in {"process", "callback"} /\ frame'.todo = frame.todo
  BY NowTyped DEF Run, Still, Frames
<1>2. SameMode(c')
  <2>1. SameMode(Set(k, "IN_CALLBACK"))
    BY SameFields
  <2> QED BY <2>1 DEF Run, SameMode
<1>3. Monitored' <=> Monitored
  BY DEF Monitored
<1>4. Queued(ac, cmds)' <=> Queued(a, cmds)
  BY <1>1 DEF Queued, Queue, Ids
<1>5. Entered(ac, cmds)' <=> Entered(a, cmds)
  BY <1>1 DEF Entered, Enters, Names
<1>6. Subscribes(frame.todo, cmds)' <=> Subscribes(frame.todo, cmds)
  BY <1>1 DEF Subscribes
<1>7. Placed'
  BY <1>1, <1>2, <1>3, <1>4, <1>5, <1>6 DEF Placed, SameMode, InLoop
<1> QED BY <1>1, <1>7 DEF Closing

LEMMA TailQueued ==
    ASSUME Typed, NEW w, Queued(ac, w)
    PROVE  /\ ac.replies # <<>> => Queued([ac EXCEPT !.replies = Tail(@)], w)
           /\ ac.invalid # <<>> => Queued([ac EXCEPT !.invalid = Tail(@)], w)
<1> DEFINE q == ac.replies
           v == ac.invalid
<1>1. q \in Seq(Callbacks) /\ v \in Seq(Callbacks) /\ ac \in AsyncContexts
  BY NowTyped DEF AsyncContexts
<1>2. [ac EXCEPT !.replies = Tail(@)].replies = Tail(q) /\ [ac EXCEPT !.replies = Tail(@)].invalid = v
  BY <1>1 DEF AsyncContexts
<1>3. [ac EXCEPT !.invalid = Tail(@)].invalid = Tail(v) /\ [ac EXCEPT !.invalid = Tail(@)].replies = q
  BY <1>1 DEF AsyncContexts
<1>4. Queue(q, w) /\ Queue(v, w) /\ Ids(q) \cap Ids(v) = {}
  BY DEF Queued
<1> HIDE DEF q, v
<1>5. q # <<>> => Queue(Tail(q), w) /\ Ids(Tail(q)) \subseteq Ids(q)
  BY <1>1, <1>4, QueueTail
<1>6. v # <<>> => Queue(Tail(v), w) /\ Ids(Tail(v)) \subseteq Ids(v)
  BY <1>1, <1>4, QueueTail
<1>7. q # <<>> => Queued([ac EXCEPT !.replies = Tail(@)], w)
  BY <1>2, <1>4, <1>5 DEF Queued
<1>8. v # <<>> => Queued([ac EXCEPT !.invalid = Tail(@)], w)
  BY <1>3, <1>4, <1>6 DEF Queued
<1> QED BY <1>7, <1>8 DEF q, v

LEMMA TurnPlaced ==
    ASSUME Typed, Placed, Closing, ProcessCallbacks
    PROVE  Placed' /\ Closing'
<1>1. pc = "process" /\ Quiet /\ cmds' = cmds /\ pc \in InLoop \ {"crashed"}
  BY DEF ProcessCallbacks, Quiet, InLoop
<1>2. c \in Contexts(issued) /\ ac \in AsyncContexts /\ SameMode(c) /\ SameQueues(ac)
  BY NowTyped DEF SameMode, SameQueues
<1>3. Entered(ac, cmds) /\ (~Monitored => Queued(ac, cmds)) /\ (Has(c, "MONITORING") <=> Monitored)
  BY <1>1 DEF Placed
<1>4. "clean" \notin faults
  BY DEF Closing
<1>5. Monitored' <=> Monitored
  BY <1>1 DEF Monitored
<1>6. CASE GivesUp
  <2>1. Aside /\ Closing'
    BY <1>1, <1>2, <1>6, ShutAside DEF GivesUp
  <2>2. pc' \in InLoop
    BY <1>6 DEF GivesUp, Disconnect, StartFree, Crash, InLoop
  <2> QED BY <1>1, <2>1, <2>2, AsidePlaced
<1>7. CASE Waits
  <2>1. Closing' /\ pc' \in InLoop
    BY <1>4, <1>7 DEF Waits, Closing, InLoop
  <2>2. CASE ~Has(c, "MONITORING")
    <3>1. Aside
      BY <1>1, <1>2, <1>7, <2>2 DEF Waits, Aside, Still, NoFrame
    <3> QED BY <1>1, <2>1, <3>1, AsidePlaced
  <2>3. CASE Has(c, "MONITORING")
    <3>1. Monitored'
      BY <1>3, <1>5, <2>3
    <3>2. ac'.channels = ac.channels /\ ac'.patterns = ac.patterns
      BY <1>2, <1>7, <2>3 DEF Waits, AsyncContexts
    <3>3. Entered(ac, cmds)'
      BY <1>1, <1>3, <3>2 DEF Entered, Enters, Names
    <3>4. Subscribes(frame.todo, cmds)'
      <4>1. Len(<<>>) = 0 /\ 1..0 = {}
        OBVIOUS
      <4> QED BY <1>7, <4>1 DEF Subscribes, Waits, NoFrame
    <3>5. Has(c, "MONITORING")'
      BY <1>7, <2>3 DEF Waits
    <3>6. pc' = "loop" /\ (Has(c, "MONITORING") <=> Monitored)' /\ (server.monitor => Monitored)'
      BY <1>7, <3>1, <3>5 DEF Waits
    <3> QED BY <2>1, <3>1, <3>3, <3>4, <3>6 DEF Placed, InLoop
  <2> QED BY <2>2, <2>3
<1>8. SUFFICES ASSUME Msg \in AnyMessage, Whole(c.inbuf), ToOldest \/ ToAside \/ ToAnother \/ ToTopic \/ Asserts
               PROVE  Placed' /\ Closing'
  BY <1>6, <1>7, TurnIs
<1>9. Rest \in Contexts(issued) /\ SameMode(Rest)
  <2>1. Behind(c.inbuf) \in Seq(PieceOf(AnyMessage))
    BY <1>8, StreamsTyped, BehindTyped
  <2> QED BY <1>2, <2>1, NowTyped, FieldsTyped, SameFields DEF Rest
<1>10. CASE ToOldest
  <2> DEFINE a == [ac EXCEPT !.replies = Tail(@)]
  <2>1. ~Monitored => Queued(a, cmds)
    BY <1>3, <1>10, TailQueued DEF ToOldest
  <2>2. Entered(a, cmds)
    BY <1>2, <1>3 DEF Entered, AsyncContexts
  <2>3. "clean" \notin faults'
    BY <1>4, <1>10 DEF ToOldest, Confusion
  <2>4. Run(Rest, a, Head(ac.replies), Msg)
    BY <1>10 DEF ToOldest
  <2> HIDE DEF a
  <2> QED BY <1>1, <1>9, <2>1, <2>2, <2>3, <2>4, RunPlaced
<1>11. CASE ToAside
  <2> DEFINE a == [ac EXCEPT !.invalid = Tail(@)]
  <2>1. ~Monitored => Queued(a, cmds)
    BY <1>3, <1>11, TailQueued DEF ToAside
  <2>2. Entered(a, cmds)
    BY <1>2, <1>3 DEF Entered, AsyncContexts
  <2>3. "clean" \notin faults'
    BY <1>4, <1>11 DEF ToAside
  <2>4. Run(Rest, a, Head(ac.invalid), Msg)
    BY <1>11 DEF ToAside
  <2> HIDE DEF a
  <2> QED BY <1>1, <1>9, <2>1, <2>2, <2>3, <2>4, RunPlaced
<1>12. CASE ToAnother
  <2>1. "clean" \notin faults'
    BY <1>4, <1>12 DEF ToAnother
  <2>2. Run(Rest, ac, frame.cb, Msg)
    BY <1>12 DEF ToAnother
  <2> QED BY <1>1, <1>3, <1>9, <2>1, <2>2, RunPlaced
<1>13. CASE ToTopic
  <2>1. PICK e \in Table, cb \in Callbacks, k \in {Rest, Unset(Rest, "SUBSCRIBED")} :
          /\ Heeding(DictOf(ac, Msg.pattern), e, Msg)
          /\ Run(k, WithDict(ac, Msg.pattern, e), cb, Msg)
    BY <1>13 DEF ToTopic
  <2>2. k \in Contexts(issued) /\ SameMode(k)
    BY <1>9, <2>1, ErrorTyped, FlagsKnown, SameFields
  <2> DEFINE a == WithDict(ac, Msg.pattern, e)
             p == Msg.pattern
  <2>3. p \in BOOLEAN
    BY <1>8, <1>13, NoticeTyped DEF ToTopic, Kinds
  <2>4. Enters(e, cmds, p)
    <3>1. Enters(DictOf(ac, p), cmds, p)
      BY <1>3, <2>3 DEF Entered, DictOf
    <3> HIDE DEF p
    <3>2. \A t \in DOMAIN Hash :
            dictHas(e, t) => dictHas(DictOf(ac, p), t) /\ dictFind(e, t).id = dictFind(DictOf(ac, p), t).id
      BY <2>1 DEF Heeding, p
    <3> QED BY <3>1, <3>2 DEF Enters
  <2>5. Entered(a, cmds) /\ (~Monitored => Queued(a, cmds))
    <3> HIDE DEF p
    <3>1. /\ a.replies = ac.replies /\ a.invalid = ac.invalid
          /\ p => a.patterns = e /\ a.channels = ac.channels
          /\ ~p => a.channels = e /\ a.patterns = ac.patterns
      BY <1>2, <2>3 DEF WithDict, AsyncContexts, p
    <3> HIDE DEF a
    <3>2. Entered(a, cmds)
      BY <1>3, <2>3, <2>4, <3>1 DEF Entered
    <3> QED BY <1>3, <3>1, <3>2 DEF Queued
  <2>6. "clean" \notin faults'
    BY <1>4, <1>13 DEF ToTopic
  <2>7. Run(k, a, cb, Msg)
    BY <2>1
  <2> HIDE DEF a
  <2> QED BY <1>1, <2>2, <2>5, <2>6, <2>7, RunPlaced
<1>14. CASE Asserts
  <2>1. /\ c' = c /\ ac' = ac /\ pc' = "crashed" /\ Still /\ frame' = frame /\ calls' = calls
        /\ faults' \in {faults \cup {"topic"}, faults \cup {"mode"}}
    BY <1>14 DEF Asserts, Crash
  <2>2. Closing'
    BY <1>4, <2>1 DEF Closing
  <2>3. Aside
    BY <1>1, <1>2, <2>1 DEF Aside, Still
  <2> QED BY <1>1, <2>1, <2>2, <2>3, AsidePlaced DEF InLoop
<1> QED BY <1>8, <1>10, <1>11, <1>12, <1>13, <1>14

(***************************************************************************)
(* The other steps                                                         *)
(***************************************************************************)
LEMMA NothingQueued ==
    ASSUME NEW w, NEW a
    PROVE  /\ Subscribes(<<>>, w) /\ Ids(<<>>) = {}
           /\ a.replies = <<>> /\ a.invalid = <<>> => Queued(a, w)
           /\ a.channels = dictCreate /\ a.patterns = dictCreate => Entered(a, w)
<1>1. Len(<<>>) = 0 /\ 1..0 = {}
  OBVIOUS
<1>2. Queue(<<>>, w) /\ Ids(<<>>) = {} /\ Subscribes(<<>>, w)
  BY <1>1 DEF Queue, Ids, Subscribes
<1>3. a.replies = <<>> /\ a.invalid = <<>> => Queued(a, w)
  BY <1>2 DEF Queued
<1>4. \A t \in DOMAIN Hash : ~dictHas(dictCreate, t)
  <2>1. dictCreate.used = 0 /\ Sound(dictCreate, Callbacks)
    BY EmptyDict DEF dictCreate
  <2> QED BY <2>1, EmptyLaw
<1>5. a.channels = dictCreate /\ a.patterns = dictCreate => Entered(a, w)
  BY <1>4 DEF Entered, Enters
<1> QED BY <1>2, <1>3, <1>5

\* A free gives NULL to one callback, or turns to the next kind.
LEMMA FreeNextPlaced ==
    ASSUME Typed, Placed, Closing, FreeNext
    PROVE  Placed' /\ Closing'
<1>1. /\ pc = "free" /\ UNCHANGED <<peer, up, down, server, cmds, faults>> /\ ac \in AsyncContexts
      /\ frame \in Frames /\ c \in Contexts(issued)
  BY NowTyped DEF FreeNext, Quiet, Still
<1>2. /\ Entered(ac, cmds) /\ Subscribes(frame.todo, cmds)
      /\ ~Monitored => Queued(ac, cmds)
      /\ (Has(c, "MONITORING") <=> Monitored) /\ (server.monitor => Monitored)
  BY <1>1 DEF Placed, InLoop
<1>3. /\ "clean" \notin faults
      /\ Has(c, "DISCONNECTING") \/ Has(c, "FREEING")
      /\ frame.phase # "replies" => ac.replies = <<>>
      /\ frame.phase = "topics" => ac.invalid = <<>>
  BY <1>1 DEF Closing
<1>4. Monitored' <=> Monitored
  BY <1>1 DEF Monitored
<1>5. ASSUME SameMode(c'), Has(c, "DISCONNECTING") => Has(c', "DISCONNECTING"),
             Has(c, "FREEING") => Has(c', "FREEING"), pc' \in {"free", "freecallback"},
             NEW a, NEW f, ac' = a, frame' = f,
             Entered(a, cmds), ~Monitored => Queued(a, cmds), Subscribes(f.todo, cmds),
             f.phase # "replies" => a.replies = <<>>, f.phase = "topics" => a.invalid = <<>>
      PROVE  Placed' /\ Closing'
  <2>1. Entered(ac, cmds)' /\ Subscribes(frame.todo, cmds)'
    BY <1>1, <1>5 DEF Entered, Enters, Names, Subscribes
  <2>2. Queued(ac, cmds)' <=> Queued(a, cmds)
    BY <1>1, <1>5 DEF Queued, Queue, Ids
  <2>3. (Has(c, "MONITORING") <=> Monitored)' /\ (server.monitor => Monitored)'
    BY <1>1, <1>2, <1>4, <1>5 DEF SameMode
  <2>4. Placed'
    BY <1>4, <1>5, <2>1, <2>2, <2>3 DEF Placed
  <2> QED BY <1>1, <1>3, <1>5, <2>4 DEF Closing
<1>6. ASSUME NEW cb, NEW a, NEW f, RunNull(cb, a, f)
      PROVE  /\ Has(c, "DISCONNECTING") => Has(c', "DISCONNECTING")
             /\ Has(c, "FREEING") => Has(c', "FREEING")
             /\ SameMode(c') /\ pc' \in {"free", "freecallback"}
             /\ ac' = a /\ frame' = f
  <2>1. SameMode(Set(c, "IN_CALLBACK")) /\ \A g : Has(c, g) => Has(Set(c, "IN_CALLBACK"), g)
    BY <1>1, SameFields DEF SameMode
  <2> QED BY <1>1, <1>6, <2>1 DEF RunNull, SameMode
<1>7. ASSUME NEW f, NextPhase(f)
      PROVE  /\ Has(c, "DISCONNECTING") => Has(c', "DISCONNECTING")
             /\ Has(c, "FREEING") => Has(c', "FREEING")
             /\ SameMode(c') /\ pc' \in {"free", "freecallback"}
             /\ ac' = ac /\ frame' = f
  BY <1>1, <1>7 DEF NextPhase, SameMode
<1>8. CASE frame.phase = "replies" /\ ac.replies # <<>>
           /\ RunNull(Head(ac.replies), [ac EXCEPT !.replies = Tail(@)], frame)
  <2> DEFINE a == [ac EXCEPT !.replies = Tail(@)]
  <2>1. Entered(a, cmds)
    BY <1>1, <1>2 DEF Entered, AsyncContexts
  <2>2. ~Monitored => Queued(a, cmds)
    BY <1>2, <1>8, TailQueued
  <2> HIDE DEF a
  <2>3. RunNull(Head(ac.replies), a, frame)
    BY <1>8 DEF a
  <2> QED BY <1>2, <1>5, <1>6, <1>8, <2>1, <2>2, <2>3
<1>9. CASE frame.phase = "replies" /\ ac.replies = <<>> /\ NextPhase([frame EXCEPT !.phase = "invalid"])
  <2> DEFINE f == [frame EXCEPT !.phase = "invalid"]
  <2>1. f.phase = "invalid" /\ f.todo = frame.todo
    BY <1>1 DEF Frames
  <2> HIDE DEF f
  <2>2. NextPhase(f)
    BY <1>9 DEF f
  <2> QED BY <1>2, <1>5, <1>7, <1>9, <2>1, <2>2
<1>10. CASE frame.phase = "invalid" /\ ac.invalid # <<>>
            /\ RunNull(Head(ac.invalid), [ac EXCEPT !.invalid = Tail(@)], frame)
  <2> DEFINE a == [ac EXCEPT !.invalid = Tail(@)]
  <2>1. Entered(a, cmds) /\ a.replies = ac.replies
    BY <1>1, <1>2 DEF Entered, AsyncContexts
  <2>2. ~Monitored => Queued(a, cmds)
    BY <1>2, <1>10, TailQueued
  <2> HIDE DEF a
  <2>3. RunNull(Head(ac.invalid), a, frame)
    BY <1>10 DEF a
  <2> QED BY <1>2, <1>3, <1>5, <1>6, <1>10, <2>1, <2>2, <2>3
<1>11. CASE frame.phase = "invalid" /\ ac.invalid = <<>>
            /\ NextPhase([frame EXCEPT !.phase = "topics",
                                       !.todo = Values(ac.channels) \o Values(ac.patterns)])
  <2> DEFINE x == Values(ac.channels)
             y == Values(ac.patterns)
             f == [frame EXCEPT !.phase = "topics", !.todo = x \o y]
  <2>1. ac.channels \in Table /\ ac.patterns \in Table
    BY <1>1 DEF AsyncContexts
  <2>2. Subscribes(x, cmds) /\ Subscribes(y, cmds)
    BY <1>2, <2>1, ValuesSubscribe DEF Entered
  <2>3. x \in Seq(Callbacks) /\ y \in Seq(Callbacks)
    BY <2>1, ValuesTyped
  <2>4. f.phase = "topics" /\ f.todo = x \o y
    BY <1>1 DEF Frames
  <2>5. NextPhase(f)
    BY <1>11
  <2> HIDE DEF x, y, f
  <2>6. Subscribes(x \o y, cmds)
    <3>1. /\ Len(x \o y) = Len(x) + Len(y) /\ Len(x) \in Nat /\ Len(y) \in Nat
          /\ \A i \in 1..Len(x) + Len(y) : (x \o y)[i] = IF i <= Len(x) THEN x[i] ELSE y[i - Len(x)]
      BY <2>3, ConcatProperties, LenProperties
    <3>2. \A i \in 1..Len(x) + Len(y) : (i <= Len(x) /\ i \in 1..Len(x)) \/ (~(i <= Len(x)) /\ i - Len(x) \in 1..Len(y))
      BY <3>1
    <3> QED BY <2>2, <3>1, <3>2 DEF Subscribes
  <2>7. frame.phase = "invalid" /\ ac.invalid = <<>> /\ ac.replies = <<>>
    BY <1>3, <1>11
  <2>8. Subscribes(f.todo, cmds) /\ f.phase = "topics"
    BY <2>4, <2>6
  <2> QED BY <1>2, <1>5, <1>7, <2>5, <2>7, <2>8
<1>12. CASE frame.phase = "topics" /\ frame.todo # <<>>
            /\ RunNull(Head(frame.todo), ac, [frame EXCEPT !.todo = Tail(@)])
  <2> DEFINE s == frame.todo
             f == [frame EXCEPT !.todo = Tail(s)]
  <2>1. s \in Seq(Callbacks) /\ f.todo = Tail(s) /\ f.phase = frame.phase
    BY <1>1 DEF Frames
  <2>2. RunNull(Head(s), ac, f)
    BY <1>12
  <2>3. Subscribes(s, cmds) /\ s # <<>>
    BY <1>2, <1>12
  <2> HIDE DEF s, f
  <2>4. Subscribes(Tail(s), cmds)
    <3>1. /\ Len(s) \in Nat /\ Len(s) > 0 /\ Len(Tail(s)) = Len(s) - 1
          /\ \A i \in 1..Len(s) - 1 : Tail(s)[i] = s[i + 1]
      BY <2>1, <2>3, HeadTailProperties, EmptySeq
    <3>2. \A i \in 1..Len(s) - 1 : i + 1 \in 1..Len(s)
      BY <3>1
    <3> QED BY <2>3, <3>1, <3>2 DEF Subscribes
  <2>5. frame.phase = "topics" /\ ac.invalid = <<>> /\ ac.replies = <<>>
    BY <1>3, <1>12
  <2>6. Subscribes(f.todo, cmds) /\ f.phase = "topics"
    BY <2>1, <2>4, <2>5
  <2> QED BY <1>2, <1>5, <1>6, <2>2, <2>5, <2>6
<1> QED BY <1>8, <1>9, <1>10, <1>11, <1>12 DEF FreeNext

\* A command is registered as the next one.
LEMMA RegisteredPlaced ==
    ASSUME NEW w \in Seq(CommandType), NEW m \in CommandType, NEW a \in AsyncContexts,
           NEW cb \in Callbacks, cb.id = Len(w) + 1, cb.fn = m.fn
    PROVE  LET b == Registered(a, m, cb)
               v == Append(w, m)
               new == IF m.op = "get" THEN {cb.id} ELSE {}
           IN  /\ Entered(a, w) => Entered(b, v)
               /\ m.op # "monitor" /\ Queued(a, w) => Queued(b, v)
               /\ m.op # "monitor" => /\ Ids(b.replies) \cup Ids(b.invalid) =
                                           Ids(a.replies) \cup Ids(a.invalid) \cup new
                                      /\ Ids(b.replies) \subseteq Ids(a.replies) \cup new
                                      /\ Has(c, "SUBSCRIBED") => Ids(b.replies) = Ids(a.replies)
<1> DEFINE b == Registered(a, m, cb)
           v == Append(w, m)
<1>1. /\ a.replies \in Seq(Callbacks) /\ a.invalid \in Seq(Callbacks)
      /\ a.channels \in Table /\ a.patterns \in Table
  BY DEF AsyncContexts
<1>2. /\ m.op \in {"get", "monitor", "subscribe", "unsubscribe"} /\ m.pattern \in BOOLEAN
      /\ m.topics \in Seq(DOMAIN Hash)
  BY DEF CommandType
<1>3. /\ Len(v) = Len(w) + 1 /\ Len(w) \in Nat /\ v[Len(w) + 1] = m
  BY AppendProperties, LenProperties
<1>4. Entered(a, w) => Entered(a, v)
  BY NamesGrow DEF Entered
<1>5. /\ \A q \in Seq(Callbacks) : Queue(q, w) =>
            /\ Queue(q, v) /\ Ids(q) \subseteq 1..Len(w)
            /\ m.op = "get" => Queue(Append(q, cb), v)
  BY QueueGrows
<1>6. \A q \in Seq(Callbacks) : Ids(Append(q, cb)) = Ids(q) \cup {cb.id}
  <2> TAKE q \in Seq(Callbacks)
  <2> DEFINE n == Len(q)
             u == Append(q, cb)
  <2>1. n \in Nat /\ Len(u) = n + 1 /\ u[n + 1] = cb /\ \A i \in 1..n : u[i] = q[i]
    BY AppendProperties, LenProperties
  <2> HIDE DEF u
  <2>2. Ids(u) = {u[i].id : i \in 1..n + 1} /\ Ids(q) = {q[i].id : i \in 1..n}
    BY <2>1 DEF Ids
  <2> HIDE DEF n
  <2>3. 1..n + 1 = 1..n \cup {n + 1}
    BY <2>1
  <2> QED BY <2>1, <2>2, <2>3 DEF u
<1>7. cb.id \notin 1..Len(w)
  BY <1>3
<1>8. CASE m.op = "subscribe"
  <2> DEFINE d == DictOf(a, m.pattern)
             e == Subscribed(d, m.topics, cb)
  <2>1. b = WithDict(a, m.pattern, e)
    BY <1>8 DEF Registered
  <2>2. Entered(a, w) => Enters(e, v, m.pattern)
    <3> SUFFICES ASSUME Entered(a, w) PROVE Enters(e, v, m.pattern)
      OBVIOUS
    <3>1. d \in Table /\ Enters(d, v, m.pattern)
      BY <1>1, <1>2, <1>4 DEF Entered, DictOf
    <3>2. ASSUME NEW i \in 1..Len(m.topics) PROVE Names(v, cb.id, m.pattern, m.topics[i])
      <4>1. cb.id \in 1..Len(v) /\ v[cb.id] = m
        BY <1>3
      <4>2. m.topics[i] \in ToSet(m.topics)
        BY <1>2, LenProperties DEF ToSet
      <4> HIDE DEF v
      <4> QED BY <1>8, <4>1, <4>2 DEF Names
    <3> HIDE DEF d, v
    <3> QED BY <1>2, <3>1, <3>2, SubscribedEnters
  <2> HIDE DEF e, v
  <2>3. /\ b.replies = a.replies /\ b.invalid = a.invalid
        /\ m.pattern => b.patterns = e /\ b.channels = a.channels
        /\ ~m.pattern => b.channels = e /\ b.patterns = a.patterns
    BY <1>2, <2>1 DEF WithDict, AsyncContexts
  <2> HIDE DEF b
  <2>4. Entered(a, w) => Entered(b, v)
    BY <1>2, <1>4, <2>2, <2>3 DEF Entered, v
  <2>5. Queued(a, w) => Queued(b, v)
    BY <1>1, <1>5, <2>3 DEF Queued
  <2> QED BY <1>8, <2>3, <2>4, <2>5 DEF b, v
<1>9. CASE m.op = "unsubscribe"
  <2>1. b = a
    BY <1>9 DEF Registered
  <2> HIDE DEF b, v
  <2>2. Queued(a, w) => Queued(b, v)
    BY <1>1, <1>5, <2>1 DEF Queued
  <2> QED BY <1>4, <1>9, <2>1, <2>2 DEF b, v
<1>10. CASE m.op = "get" /\ Has(c, "SUBSCRIBED")
  <2>1. b = [a EXCEPT !.invalid = Append(@, cb)]
    BY <1>10 DEF Registered
  <2>2. /\ b.replies = a.replies /\ b.invalid = Append(a.invalid, cb)
        /\ b.channels = a.channels /\ b.patterns = a.patterns
    BY <2>1 DEF AsyncContexts
  <2> HIDE DEF b, v
  <2>3. Ids(b.invalid) = Ids(a.invalid) \cup {cb.id}
    BY <1>1, <1>6, <2>2
  <2>4. Queued(a, w) => Queued(b, v)
    BY <1>1, <1>5, <1>7, <1>10, <2>2, <2>3 DEF Queued
  <2>5. Entered(a, w) => Entered(b, v)
    BY <1>4, <2>2 DEF Entered, v
  <2> QED BY <1>10, <2>2, <2>3, <2>4, <2>5 DEF b, v
<1>11. CASE m.op \in {"get", "monitor"} /\ ~(m.op = "get" /\ Has(c, "SUBSCRIBED"))
  <2>1. b = [a EXCEPT !.replies = Append(@, cb)]
    <3>1. m.op # "subscribe" /\ m.op # "unsubscribe"
      BY <1>11
    <3> QED BY <1>11, <3>1, Zenon DEF Registered
  <2>2. /\ b.invalid = a.invalid /\ b.replies = Append(a.replies, cb)
        /\ b.channels = a.channels /\ b.patterns = a.patterns
    BY <2>1 DEF AsyncContexts
  <2> HIDE DEF b, v
  <2>3. Ids(b.replies) = Ids(a.replies) \cup {cb.id}
    BY <1>1, <1>6, <2>2
  <2>4. m.op = "get" /\ Queued(a, w) => Queued(b, v)
    BY <1>1, <1>5, <1>7, <2>2, <2>3 DEF Queued
  <2>5. Entered(a, w) => Entered(b, v)
    BY <1>4, <2>2 DEF Entered, v
  <2> QED BY <1>11, <2>2, <2>3, <2>4, <2>5 DEF b, v
<1> QED BY <1>2, <1>8, <1>9, <1>10, <1>11

LEMMA MonitoredGrows ==
    ASSUME cmds \in Seq(CommandType), NEW m \in CommandType, cmds' = Append(cmds, m)
    PROVE  Monitored' <=> Monitored \/ m.op = "monitor"
<1> DEFINE v == Append(cmds, m)
           n == Len(cmds)
<1>1. /\ n \in Nat /\ DOMAIN v = 1..n + 1 /\ DOMAIN cmds = 1..n /\ v[n + 1] = m
      /\ \A i \in 1..n : v[i] = cmds[i]
  BY AppendProperties, LenProperties
<1> HIDE DEF n
<1>2. 1..n + 1 = 1..n \cup {n + 1}
  BY <1>1
<1>3. cmds' = v
  OBVIOUS
<1> HIDE DEF v
<1>4. Monitored' <=> \E k \in 1..n + 1 : v[k].op = "monitor"
  BY <1>1, <1>3 DEF Monitored
<1> QED BY <1>1, <1>2, <1>4 DEF Monitored

LEMMA CommandPlaced ==
    ASSUME Typed, Placed, Closing, AsyncCommand
    PROVE  Placed' /\ Closing'
<1>1. PICK m \in CommandType :
        /\ ac' = [Registered(ac, m, Callback(issued + 1, m.fn)) EXCEPT !.ev = @ \cup {"write"}]
        /\ c' \in {Flagged(Appended, m), Flagged(SetError(c, "oom"), m)}
        /\ cmds' = Append(cmds, m)
        /\ Accepted(m)
  BY CommandIssued
<1> DEFINE cb == Callback(issued + 1, m.fn)
           b == Registered(ac, m, cb)
           v == Append(cmds, m)
<1>2. /\ App /\ pc' = pc /\ UNCHANGED <<frame, server, faults>> /\ pc \in InLoop \ {"crashed"}
      /\ ac \in AsyncContexts /\ c \in Contexts(issued) /\ cmds \in Seq(CommandType) /\ Len(cmds) = issued
      /\ issued \in Nat
  BY NowTyped DEF AsyncCommand, App, InLoop, Typed, Counted, Answering
<1>3. cb \in Callbacks /\ cb.id = Len(cmds) + 1 /\ cb.fn = m.fn
  BY <1>2 DEF Callback, Callbacks, CommandType
<1>4. pc \notin {"free", "freecallback"}
  BY <1>1, <1>2 DEF Accepted, Closing, App
<1>5. /\ Entered(ac, cmds) /\ Subscribes(frame.todo, cmds)
      /\ ~Monitored => Queued(ac, cmds)
      /\ (Has(c, "MONITORING") <=> Monitored) /\ (server.monitor => Monitored)
  BY <1>2 DEF Placed
<1>6. ac'.replies = b.replies /\ ac'.invalid = b.invalid /\ ac'.channels = b.channels /\ ac'.patterns = b.patterns
  <2>1. ac' = [b EXCEPT !.ev = @ \cup {"write"}]
    BY <1>1
  <2> HIDE DEF b
  <2> QED BY <2>1
<1>7. Monitored' <=> Monitored \/ m.op = "monitor"
  BY <1>1, <1>2, MonitoredGrows
<1>8. (Has(c', "MONITORING") <=> Has(c, "MONITORING") \/ m.op = "monitor") /\ c'.err \in {c.err, "oom"}
  <2>1. Appended.flags = c.flags /\ Appended.err = c.err
    BY <1>2 DEF Appended, Contexts
  <2>2. SetError(c, "oom").flags = c.flags /\ SetError(c, "oom").err = "oom"
    BY <1>2 DEF SetError, Contexts
  <2>3. DOMAIN Appended = DOMAIN c /\ DOMAIN SetError(c, "oom") = DOMAIN c /\ "flags" \in DOMAIN c
    BY <1>2 DEF Appended, SetError, Contexts
  <2>4. ASSUME NEW k, k.flags = c.flags, DOMAIN k = DOMAIN c
        PROVE  /\ Has(Flagged(k, m), "MONITORING") <=> Has(c, "MONITORING") \/ m.op = "monitor"
               /\ Flagged(k, m).err = k.err
    BY <2>3, <2>4 DEF Flagged, Set, Has
  <2> QED BY <1>1, <2>1, <2>2, <2>3, <2>4
<1> HIDE DEF cb, b
<1>9. Entered(b, v) /\ (m.op # "monitor" /\ Queued(ac, cmds) => Queued(b, v))
  BY <1>2, <1>3, <1>5, RegisteredPlaced DEF b
<1>10. Subscribes(frame.todo, v)
  BY <1>2, <1>5, NamesGrow
<1>11. cmds' = v
  BY <1>1
<1> HIDE DEF v
<1>12. Entered(ac, cmds)' /\ (Queued(ac, cmds)' <=> Queued(b, v)) /\ Subscribes(frame.todo, cmds)'
  BY <1>2, <1>6, <1>9, <1>10, <1>11 DEF Entered, Enters, Names, Queued, Queue, Ids, Subscribes
<1>13. (Has(c, "MONITORING") <=> Monitored)' /\ (server.monitor => Monitored)'
  BY <1>2, <1>5, <1>7, <1>8
<1>14. Placed'
  BY <1>2, <1>5, <1>7, <1>9, <1>12, <1>13 DEF Placed
<1>15. Closing'
  BY <1>2, <1>4, <1>8 DEF Closing
<1> QED BY <1>14, <1>15

\* The server, which looks at nothing else, and a context that is left alone.
LEMMA ServerAside ==
    ASSUME Typed, Control, pc \in InLoop,
           \/ AsyncServe \/ Publish \/ Resolve \/ ((Closes \/ Garbles) /\ UNCHANGED asyncVars)
           \/ UNCHANGED vars
    PROVE  Aside /\ UNCHANGED <<c, pc, ac, frame, cmds, calls, faults>>
<1>1. UNCHANGED <<c, pc, ac, frame, cmds, calls, faults>>
  BY DEF AsyncServe, Publish, Resolve, Closes, Garbles, asyncVars, vars, contextVars
<1>2. server'.monitor => server.monitor \/ Monitored
  <2>1. CASE AsyncServe
    <3> DEFINE k == First(up)
               m == cmds[k]
    <3>1. k \in 1..issued /\ Len(cmds) = issued /\ cmds \in Seq(CommandType)
      BY <2>1, WholeTyped DEF AsyncServe, Typed, Counted, Answering
    <3>2. k \in DOMAIN cmds
      BY <3>1
    <3>3. m \in CommandType
      BY <3>1, ElementOfSeq
    <3>4. CASE server' = server
      BY <3>4
    <3>5. CASE server' = [server EXCEPT !.subs = Confirm(m, k).subs]
      <4> HIDE DEF m, k
      <4>1. server'.monitor = server.monitor
        BY <3>5, NowTyped DEF Servers
      <4> QED BY <4>1
    <3>6. CASE server' = [server EXCEPT !.monitor = @ \/ m.op = "monitor"]
      <4>1. server'.monitor => server.monitor \/ m.op = "monitor"
        <5> HIDE DEF m, k
        <5> QED BY <3>6, NowTyped DEF Servers
      <4> QED BY <3>2, <4>1 DEF Monitored
    <3>7. \/ server' = server \/ server' = [server EXCEPT !.subs = Confirm(m, k).subs]
          \/ server' = [server EXCEPT !.monitor = @ \/ m.op = "monitor"]
      <4>1. CASE m.op \in {"subscribe", "unsubscribe"} /\ Topics(m) # <<>>
        BY <2>1, <4>1 DEF AsyncServe
      <4>2. CASE m.op = "unsubscribe" /\ Topics(m) = <<>>
        BY <2>1, <4>2 DEF AsyncServe
      <4>3. CASE m.op \in {"get", "monitor"} /\ server.subs # {}
        BY <2>1, <4>3 DEF AsyncServe
      <4>4. CASE m.op \in {"get", "monitor"} /\ server.subs = {}
        <5>1. ~(m.op \in {"subscribe", "unsubscribe"}) /\ m.op # "unsubscribe"
          BY <4>4
        <5> HIDE DEF m, k
        <5> QED BY <2>1, <4>4, <5>1, Zenon DEF AsyncServe, k, m
      <4>5. m.op = "subscribe" => Topics(m) # <<>>
        BY <3>3 DEF CommandType, Topics
      <4> QED BY <3>3, <4>1, <4>2, <4>3, <4>4, <4>5 DEF CommandType
    <3> QED BY <3>4, <3>5, <3>6, <3>7
  <2>2. CASE Publish
    BY <2>2, NowTyped DEF Publish, Servers
  <2>3. CASE Resolve \/ ((Closes \/ Garbles) /\ UNCHANGED asyncVars) \/ UNCHANGED vars
    BY <2>3 DEF Resolve, asyncVars, vars
  <2> QED BY <2>1, <2>2, <2>3
<1> QED BY <1>1, <1>2 DEF Aside, SameQueues, SameMode

LEMMA StartPlaced ==
    ASSUME Typed, Begun, Control, Initialize
    PROVE  Placed' /\ Closing'
<1>1. /\ frame = NoFrame /\ server = NoServer /\ faults = {} /\ cmds = <<>> /\ pc = "init"
      /\ c \in Contexts(issued)
  BY NowTyped DEF Initialize, Begun, Outside, Typed, Counted
<1>2. c.flags \subseteq {"CONNECTED", "REUSEADDR"}
  BY <1>1 DEF Begun, Control, Mode
<1>3. /\ c'.flags \subseteq c.flags /\ frame' = NoFrame /\ server' = NoServer /\ faults' = {}
      /\ cmds' = <<>> /\ pc' = "loop"
  BY <1>1 DEF Initialize, Unset, Contexts, Quiet, Still
<1>4. ~Has(c', "MONITORING") /\ ~Monitored'
  BY <1>2, <1>3 DEF Has, Monitored
<1>5. /\ ac'.replies = <<>> /\ ac'.invalid = <<>>
      /\ ac'.channels = dictCreate /\ ac'.patterns = dictCreate /\ frame'.todo = <<>>
  BY <1>3 DEF Initialize, NoContext, NoFrame
<1>6. Queued(ac, cmds)' /\ Entered(ac, cmds)' /\ Subscribes(frame.todo, cmds)'
  BY <1>5, NothingQueued
<1>7. ~server'.monitor
  BY <1>3 DEF NoServer
<1>8. Placed'
  BY <1>3, <1>4, <1>6, <1>7 DEF Placed
<1> QED BY <1>3, <1>8 DEF Closing

\* A step of a context that is not in its event loop.
LEMMA OutsidePlaced ==
    ASSUME Typed, Begun, Begun', Placed, Closing, pc \notin InLoop, pc' \notin InLoop, UNCHANGED asyncVars
    PROVE  Placed' /\ Closing'
<1>1. pc' # "connected" /\ pc' # "event" /\ pc' # "free" /\ pc' # "freecallback" /\ faults' = faults
  BY DEF InLoop, asyncVars
<1>2. Closing'
  BY <1>1 DEF Closing
<1>3. pc' = "gone" => Queued(ac, cmds)' \/ Monitored'
  <2>1. CASE pc = "gone"
    <3>1. Monitored' <=> Monitored
      BY DEF Monitored, asyncVars
    <3>2. Queued(ac, cmds)' <=> Queued(ac, cmds)
      BY DEF Queued, Queue, Ids, asyncVars
    <3> QED BY <2>1, <3>1, <3>2 DEF Placed
  <2>2. CASE pc # "gone"
    <3>1. ac = NoContext
      BY <2>2 DEF Begun, Typed, Counted
    <3>2. ac'.replies = <<>> /\ ac'.invalid = <<>>
      BY <3>1 DEF asyncVars, NoContext
    <3> QED BY <3>2, NothingQueued
  <2> QED BY <2>1, <2>2
<1> QED BY <1>2, <1>3 DEF Placed

LEMMA EndPlaced ==
    ASSUME Typed, Placed, Closing, FreeEnds
    PROVE  Placed' /\ Closing'
<1>1. /\ ac' = NoContext /\ frame' = NoFrame /\ pc' \in {"gone", "crashed"}
      /\ faults' \subseteq faults \cup {"freed"}
      /\ cmds' = cmds
  BY DEF FreeEnds
<1>2. Closing'
  BY <1>1 DEF Closing
<1>3. /\ ac'.replies = <<>> /\ ac'.invalid = <<>>
      /\ ac'.channels = dictCreate /\ ac'.patterns = dictCreate /\ frame'.todo = <<>>
  BY <1>1 DEF NoContext, NoFrame
<1>4. Queued(ac, cmds)' /\ Entered(ac, cmds)' /\ Subscribes(frame.todo, cmds)'
  BY <1>3, NothingQueued
<1>5. pc' \notin InLoop \ {"crashed"}
  BY <1>1 DEF InLoop
<1> QED BY <1>2, <1>4, <1>5 DEF Placed

\* Of the steps that are not the event loop's, these happen while it runs.
LEMMA ContextInLoop ==
    ASSUME Control, Typed, ContextNext
    PROVE  (pc \in InLoop <=> pc' \in InLoop) /\ (pc \in InLoop => Closes \/ Garbles)
<1>1. pc \in InLoop => "BLOCK" \notin c.flags
  BY DEF Control, Mode, InLoop
<1>2. Closes \/ Garbles => pc' = pc
  BY DEF Closes, Garbles
<1>3. CASE pc \in InLoop
  <2>1. pc \notin {"none", "address", "idle", "init", "write", "read"}
    BY <1>3 DEF InLoop
  <2>2. ~Connect /\ ~Connecting /\ ~Free /\ ~OthersOpen
    BY <2>1 DEF Connect, Connecting, Free, OthersOpen, NoSocket, Unreachable, SocketFails, SocketKept,
                ReuseFails, AddressBusy, Established, Exhausted, Trying
  <2>3. ~Blocking
    <3>1. ~Reconnect /\ ~AppendCommand /\ ~GetReply /\ ~Command /\ ~BufferWrite /\ ~BufferRead
          /\ ~SocketError /\ ~SetTimeout /\ ~EnableKeepAlive
      BY <2>1 DEF Reconnect, AppendCommand, GetReply, Command, BufferWrite, BufferRead, SocketError,
                  SetTimeout, EnableKeepAlive, Calls
    <3>2. ~Serve
      BY <1>1, <1>3 DEF Serve
    <3> QED BY <3>1, <3>2 DEF Blocking
  <2> QED BY <1>2, <1>3, <2>2, <2>3 DEF ContextNext
<1>4. CASE pc \notin InLoop
  <2>1. \A k : Return(k) => pc' \in {"idle", "init"}
    BY DEF Return
  <2>2. \A k, s : Connected(k, s) => pc' \in {"idle", "init"}
    BY <2>1 DEF Connected
  <2>3. \A k, o, t : StartTcp(k, o, t) \/ ConnectUnix(k, o, t) \/ ConnectFd(k, t) => pc' \in {"idle", "init", "address"}
    BY <2>1, <2>2 DEF StartTcp, ConnectUnix, ConnectFd
  <2>4. Connect \/ Reconnect => pc' \notin InLoop
    BY <2>3 DEF Connect, Reconnect, InLoop
  <2>5. Connecting => pc' \notin InLoop
    <3>1. Connecting => pc' = pc \/ pc' \in {"idle", "init"}
      BY <2>1, <2>2 DEF Connecting, NoSocket, Unreachable, SocketFails, SocketKept, ReuseFails, AddressBusy,
                Established, Exhausted, AddressFails
    <3> QED BY <1>4, <3>1 DEF InLoop
  <2>6. \A k : Fail(k) => pc' = "idle"
    BY DEF Fail
  <2>7. \A k, w, next : Look(k, w, next) => pc' \in {"idle", next}
    BY <2>6 DEF Look
  <2>8. AppendCommand \/ GetReply \/ Command \/ SetTimeout \/ EnableKeepAlive \/ SocketError => pc' \notin InLoop
    BY <1>4, <2>6, <2>7 DEF AppendCommand, GetReply, Command, SetTimeout, EnableKeepAlive, SocketError,
                  CannotAppend, InLoop
  <2>9. BufferWrite \/ BufferRead => pc' \notin InLoop
    BY <2>6, <2>7 DEF BufferWrite, BufferRead, EndOfFile, InLoop
  <2>10. Serve \/ Closes \/ Garbles \/ OthersOpen => pc' = pc
    BY DEF Serve, Closes, Garbles, OthersOpen
  <2>11. Free => pc' = "gone"
    BY DEF Free, redisFree, Gone
  <2> QED BY <1>4, <2>4, <2>5, <2>8, <2>9, <2>10, <2>11 DEF ContextNext, Blocking, InLoop
<1> QED BY <1>3, <1>4

\* These steps stay in the event loop.
LEMMA LoopSteps ==
    ASSUME Control,
           \/ AppFree \/ AppDisconnect \/ HandleRead \/ HandleWrite \/ ConnectCallbackReturns
           \/ HandleEvent \/ CallbackReturns \/ FreeCallbackReturns
    PROVE  pc \in InLoop \ {"crashed"} /\ pc' \in InLoop
<1> USE DEF InLoop
<1>1. \A k, a : StartFree(k, a) => pc' \in InLoop
  BY DEF StartFree
<1>2. \A k, a : Disconnect(k, a) => pc' \in InLoop
  BY <1>1 DEF Disconnect, Crash
<1>3. \A k, a : ReadEvent(k, a) \/ WriteEvent(k, a) => pc' \in InLoop
  BY <1>2 DEF ReadEvent, WriteEvent
<1>4. \A then, a : FirstEvent(then, a) => pc' \in InLoop
  BY DEF FirstEvent
<1>5. CASE AppFree \/ AppDisconnect
  BY <1>1, <1>2, <1>5 DEF AppFree, AppDisconnect, App
<1>6. CASE HandleRead \/ HandleWrite
  <2>1. pc = "loop"
    BY <1>6 DEF HandleRead, HandleWrite
  <2>2. pc' \in InLoop
    BY <1>3, <1>4, <1>6 DEF HandleRead, HandleWrite
  <2> QED BY <2>1, <2>2
<1>7. CASE HandleEvent
  <2>1. pc = "event" /\ frame.then \in {"abort", "read", "write"}
    BY <1>7 DEF HandleEvent, Control, Resumes
  <2>2. pc' \in InLoop
    BY <1>2, <1>3, <1>7, <2>1 DEF HandleEvent
  <2> QED BY <2>1, <2>2
<1>8. CASE ConnectCallbackReturns \/ CallbackReturns \/ FreeCallbackReturns
  BY <1>1, <1>8 DEF ConnectCallbackReturns, CallbackReturns, FreeCallbackReturns
<1> QED BY <1>5, <1>6, <1>7, <1>8

LEMMA NextPlaced ==
    ASSUME Control, Typed, Begun, Begun', Placed, Closing, [Next]_vars
    PROVE  Placed' /\ Closing'
<1>1. ASSUME pc \in InLoop,
             \/ AsyncServe \/ Publish \/ Resolve \/ ((Closes \/ Garbles) /\ UNCHANGED asyncVars)
             \/ UNCHANGED vars
      PROVE  Placed' /\ Closing'
  <2>1. Aside /\ UNCHANGED <<c, pc, ac, frame, cmds, calls, faults>>
    BY <1>1, ServerAside
  <2>2. Closing'
    BY <2>1 DEF Closing
  <2>3. CASE pc # "crashed"
    BY <1>1, <2>1, <2>2, <2>3, AsidePlaced
  <2>4. CASE pc = "crashed"
    <3>1. Monitored' <=> Monitored
      BY <2>1 DEF Monitored
    <3>2. (Queued(ac, cmds)' <=> Queued(ac, cmds)) /\ (Entered(ac, cmds)' <=> Entered(ac, cmds))
          /\ (Subscribes(frame.todo, cmds)' <=> Subscribes(frame.todo, cmds))
      BY <2>1 DEF Queued, Queue, Ids, Entered, Enters, Names, Subscribes
    <3> QED BY <1>1, <2>1, <2>2, <2>4, <3>1, <3>2 DEF Placed
  <2> QED BY <2>3, <2>4
<1>2. CASE ContextNext /\ UNCHANGED asyncVars
  <2>1. CASE pc \in InLoop
    <3>1. pc' \in InLoop => Closes \/ Garbles
      BY <1>2, <2>1, ContextInLoop
    <3> QED BY <1>1, <1>2, <2>1, <3>1, ContextInLoop
  <2>2. CASE pc \notin InLoop
    BY <1>2, <2>2, ContextInLoop, OutsidePlaced
  <2> QED BY <2>1, <2>2
<1>3. CASE Initialize
  BY <1>3, StartPlaced
<1>4. CASE AsyncCommand
  BY <1>4, CommandPlaced
<1>5. CASE \/ AppFree \/ AppDisconnect \/ HandleRead \/ HandleWrite \/ ConnectCallbackReturns
           \/ HandleEvent \/ CallbackReturns \/ FreeCallbackReturns
  <2>1. Aside /\ Closing'
    BY <1>5, AsideSteps
  <2>2. pc \in InLoop \ {"crashed"} /\ pc' \in InLoop
    BY <1>5, LoopSteps
  <2> QED BY <2>1, <2>2, AsidePlaced
<1>6. CASE ProcessCallbacks
  BY <1>6, TurnPlaced
<1>7. CASE FreeNext
  BY <1>7, FreeNextPlaced
<1>8. CASE FreeEnds
  BY <1>8, EndPlaced
<1>9. CASE AsyncServe \/ Publish \/ Resolve
  <2>1. pc \in {"idle", "write", "read", "loop"} /\ pc' = pc
    BY <1>9 DEF AsyncServe, Publish, Resolve, Peer
  <2>2. AsyncServe => pc = "loop"
    BY <2>1 DEF AsyncServe, Control, Mode, Has
  <2>3. Publish => server # NoServer
    BY DEF Publish, NoServer
  <2>4. pc # "loop" => server = NoServer
    BY <2>1 DEF Begun, Outside
  <2>5. CASE pc = "loop"
    BY <1>1, <1>9, <2>5 DEF InLoop
  <2>6. CASE pc # "loop"
    <3>1. Resolve /\ pc \notin InLoop
      BY <1>9, <2>1, <2>2, <2>3, <2>4, <2>6 DEF InLoop
    <3> QED BY <2>1, <3>1, OutsidePlaced DEF Resolve
  <2> QED BY <2>5, <2>6
<1>10. CASE UNCHANGED vars
  <2>1. pc \notin InLoop => pc' \notin InLoop
    BY <1>10 DEF vars, contextVars
  <2> QED BY <1>1, <1>10, <2>1, OutsidePlaced DEF vars
<1> QED BY <1>2, <1>3, <1>4, <1>5, <1>6, <1>7, <1>8, <1>9, <1>10
        DEF Next, AsyncNext, Handlers

(***************************************************************************)
(* Sequences that rise                                                     *)
(***************************************************************************)
Of(s) == {s[i] : i \in 1..Len(s)}
Rising(s) == \A i, j \in 1..Len(s) : i < j => s[i] < s[j]
Below(X, Y) == \A x \in X, y \in Y : x < y

LEMMA OfLaws ==
    ASSUME NEW V
    PROVE  /\ Of(<<>>) = {} /\ Rising(<<>>)
           /\ \A x \in V : Of(<<x>>) = {x} /\ Rising(<<x>>)
           /\ \A s, u \in Seq(V) : Of(s \o u) = Of(s) \cup Of(u)
           /\ \A s \in Seq(V) : Of(s) \subseteq V /\ (Of(s) = {} <=> s = <<>>)
<1>1. Len(<<>>) = 0 /\ 1..0 = {}
  OBVIOUS
<1>2. \A x : Len(<<x>>) = 1 /\ <<x>>[1] = x
  OBVIOUS
<1>3. 1..1 = {1} /\ ~(1 < 1)
  OBVIOUS
<1>4. \A x : Of(<<x>>) = {x} /\ Rising(<<x>>)
  BY <1>2, <1>3 DEF Of, Rising
<1>5. ASSUME NEW s \in Seq(V), NEW u \in Seq(V) PROVE Of(s \o u) = Of(s) \cup Of(u)
  <2> DEFINE n == Len(s)
             m == Len(u)
             z == s \o u
  <2>1. /\ n \in Nat /\ m \in Nat /\ Len(z) = n + m
        /\ \A i \in 1..n + m : z[i] = IF i <= n THEN s[i] ELSE u[i - n]
    BY ConcatProperties, LenProperties
  <2> HIDE DEF z
  <2>2. Of(z) = {z[i] : i \in 1..n + m} /\ Of(s) = {s[i] : i \in 1..n} /\ Of(u) = {u[i] : i \in 1..m}
    BY <2>1 DEF Of
  <2> HIDE DEF n, m
  <2>3. \A i \in 1..n : i \in 1..n + m /\ z[i] = s[i]
    BY <2>1
  <2>4. \A i \in 1..m : i + n \in 1..n + m /\ z[i + n] = u[i]
    <3> TAKE i \in 1..m
    <3>1. i + n \in 1..n + m /\ ~(i + n <= n) /\ (i + n) - n = i
      BY <2>1
    <3> QED BY <2>1, <3>1
  <2>5. \A i \in 1..n + m : (i \in 1..n /\ z[i] = s[i]) \/ (i - n \in 1..m /\ z[i] = u[i - n])
    BY <2>1
  <2> QED BY <2>2, <2>3, <2>4, <2>5 DEF z
<1>6. ASSUME NEW s \in Seq(V) PROVE Of(s) \subseteq V /\ (Of(s) = {} <=> s = <<>>)
  <2>1. Len(s) \in Nat /\ (Len(s) = 0 <=> s = <<>>) /\ \A i \in 1..Len(s) : s[i] \in V
    BY EmptySeq, ElementOfSeq, LenProperties
  <2>2. Len(s) # 0 => 1 \in 1..Len(s)
    BY <2>1
  <2>3. Len(s) = 0 => 1..Len(s) = {}
    BY <2>1
  <2> QED BY <2>1, <2>2, <2>3 DEF Of
<1>7. Of(<<>>) = {} /\ Rising(<<>>)
  BY <1>1 DEF Of, Rising
<1> QED BY <1>4, <1>5, <1>6, <1>7

LEMMA NumbersAssociate == \A s, u, v \in Seq(Nat) : (s \o u) \o v = s \o (u \o v)
<1> TAKE s, u, v \in Seq(Nat)
<1> QED BY ConcatAssociative, SMTT(60)

LEMMA RisingConcat ==
    ASSUME NEW s \in Seq(Nat), NEW u \in Seq(Nat)
    PROVE  Rising(s \o u) <=> Rising(s) /\ Rising(u) /\ Below(Of(s), Of(u))
<1> DEFINE n == Len(s)
           m == Len(u)
           z == s \o u
<1>1. /\ n \in Nat /\ m \in Nat /\ Len(z) = n + m
      /\ \A i \in 1..n + m : z[i] = IF i <= n THEN s[i] ELSE u[i - n]
  BY ConcatProperties, LenProperties
<1> HIDE DEF z
<1>2. /\ Rising(z) <=> \A i, j \in 1..n + m : i < j => z[i] < z[j]
      /\ Rising(s) <=> \A i, j \in 1..n : i < j => s[i] < s[j]
      /\ Rising(u) <=> \A i, j \in 1..m : i < j => u[i] < u[j]
      /\ Below(Of(s), Of(u)) <=> \A i \in 1..n, j \in 1..m : s[i] < u[j]
  BY <1>1 DEF Rising, Below, Of
<1> HIDE DEF n, m
<1>3. \A i \in 1..n : i \in 1..n + m /\ z[i] = s[i] /\ \A j \in 1..m : i < j + n
  BY <1>1
<1>4. \A i \in 1..m : i + n \in 1..n + m /\ z[i + n] = u[i]
  <2> TAKE i \in 1..m
  <2>1. i + n \in 1..n + m /\ ~(i + n <= n) /\ (i + n) - n = i
    BY <1>1
  <2> QED BY <1>1, <2>1
<1>5. \A i, j \in 1..m : i < j => i + n < j + n
  BY <1>1
<1>6. ASSUME Rising(z) PROVE Rising(s) /\ Rising(u) /\ Below(Of(s), Of(u))
  <2>1. Rising(s)
    BY <1>2, <1>3, <1>6
  <2>2. ASSUME NEW i \in 1..m, NEW j \in 1..m, i < j PROVE u[i] < u[j]
    <3>1. i + n \in 1..n + m /\ j + n \in 1..n + m /\ i + n < j + n
      BY <1>4, <1>5, <2>2
    <3>2. z[i + n] < z[j + n]
      BY <1>2, <1>6, <3>1
    <3> QED BY <1>4, <3>2
  <2>3. ASSUME NEW i \in 1..n, NEW j \in 1..m PROVE s[i] < u[j]
    <3>1. i \in 1..n + m /\ j + n \in 1..n + m /\ i < j + n
      BY <1>3, <1>4
    <3>2. z[i] < z[j + n]
      BY <1>2, <1>6, <3>1
    <3> QED BY <1>3, <1>4, <3>2
  <2> QED BY <1>2, <2>1, <2>2, <2>3
<1>7. ASSUME Rising(s), Rising(u), Below(Of(s), Of(u)) PROVE Rising(z)
  <2>1. SUFFICES ASSUME NEW i \in 1..n + m, NEW j \in 1..n + m, i < j PROVE z[i] < z[j]
    BY <1>2
  <2>2. CASE i \in 1..n /\ j \in 1..n
    BY <1>2, <1>3, <1>7, <2>1, <2>2
  <2>3. CASE i \in 1..n /\ j \notin 1..n
    <3>1. j - n \in 1..m /\ z[j] = u[j - n]
      BY <1>1, <2>3
    <3> QED BY <1>2, <1>3, <1>7, <2>3, <3>1
  <2>4. CASE i \notin 1..n
    <3>1. i - n \in 1..m /\ z[i] = u[i - n] /\ j - n \in 1..m /\ z[j] = u[j - n] /\ i - n < j - n
      BY <1>1, <2>1, <2>4
    <3> QED BY <1>2, <1>7, <3>1
  <2> QED BY <2>2, <2>3, <2>4
<1> QED BY <1>6, <1>7 DEF z

\* What a function of elements gives for a sequence comes from one of them.
LEMMA ThroughOf ==
    ASSUME NEW P, NEW V, NEW g \in Gives(P, V)
    PROVE  \A s \in Seq(P) : \A v : v \in Of(Through(g, s)) <=> \E i \in 1..Len(s) : v \in Of(g[s[i]])
<1> DEFINE Q == {s \in Seq(P) : \A v : v \in Of(Through(g, s)) <=> \E i \in 1..Len(s) : v \in Of(g[s[i]])}
<1>1. <<>> \in Q
  <2>1. Through(g, <<>>) = <<>>
    BY AmountLaws
  <2>2. Len(<<>>) = 0 /\ 1..0 = {} /\ <<>> \in Seq(P)
    OBVIOUS
  <2> QED BY <2>1, <2>2, OfLaws
<1>2. ASSUME NEW s \in Seq(P), NEW x \in P, s \in Q PROVE Append(s, x) \in Q
  <2> DEFINE n == Len(s)
             z == Append(s, x)
  <2>1. n \in Nat /\ z \in Seq(P) /\ Len(z) = n + 1 /\ z[n + 1] = x /\ \A i \in 1..n : z[i] = s[i]
    BY AppendProperties, LenProperties
  <2>2. z = s \o <<x>> /\ <<x>> \in Seq(P)
    BY AppendIsConcat
  <2>3. Through(g, z) = Through(g, s) \o g[x] /\ Through(g, s) \in Seq(V) /\ g[x] \in Seq(V)
    <3>0. <<x>> \in Seq(P)
      BY <2>2
    <3>a. \A u, t \in Seq(P) : Through(g, u \o t) = Through(g, u) \o Through(g, t)
      BY ThroughConcat
    <3> DEFINE y == <<x>>
    <3>b. y \in Seq(P)
      BY <3>0
    <3> HIDE DEF y
    <3>1. Through(g, s \o y) = Through(g, s) \o Through(g, y)
      BY <3>a, <3>b
    <3>2. Through(g, <<x>>) = g[x]
      BY AmountLaws
    <3>3. g[x] \in Seq(V) /\ Through(g, s) \in Seq(V)
      BY AmountLaws DEF Gives
    <3> QED BY <2>2, <3>1, <3>2, <3>3 DEF y
  <2> HIDE DEF z
  <2>4. Of(Through(g, z)) = Of(Through(g, s)) \cup Of(g[x])
    BY <2>3, OfLaws
  <2>5. \A v : v \in Of(Through(g, s)) <=> \E i \in 1..n : v \in Of(g[s[i]])
    BY <1>2
  <2> HIDE DEF n
  <2>6. 1..n + 1 = 1..n \cup {n + 1}
    BY <2>1
  <2>7. ASSUME NEW v PROVE v \in Of(Through(g, z)) <=> \E i \in 1..n + 1 : v \in Of(g[z[i]])
    BY <2>1, <2>4, <2>5, <2>6
  <2> QED BY <2>1, <2>7 DEF z
<1>3. Seq(P) \subseteq Q
  <2> HIDE DEF Q
  <2> QED BY <1>1, <1>2, SeqSetInduction
<1> QED BY <1>3

(***************************************************************************)
(* The replies among the letters to a context, and what is on its way      *)
(***************************************************************************)
\* The command that a letter answers, if any.
AnswersOf(m) == IF m.op \in {"answer", "error"} /\ m.req # 0 THEN <<m.req>> ELSE <<>>
AnswerIn == [m \in AnyMessage |-> AnswersOf(m)]
Answered(l) == Through(AnswerIn, l)

LEMMA AnsweredLaws ==
    /\ \A m \in AnyMessage : AnswersOf(m) \in Seq(Nat) /\ Answered(<<m>>) = AnswersOf(m)
    /\ \A l \in Seq(AnyMessage) : Answered(l) \in Seq(Nat)
    /\ \A l, x \in Seq(AnyMessage) : Answered(l \o x) = Answered(l) \o Answered(x)
    /\ Answered(<<>>) = <<>>
    /\ \A l \in Seq(AnyMessage) : \A k :
          k \in Of(Answered(l)) <=> \E i \in 1..Len(l) : AnswersOf(l[i]) = <<k>>
<1> DEFINE M == AnyMessage
           g == AnswerIn
<1>1. \A m \in M : m.req \in Nat
  BY DEF AnyMessage
<1>2. \A m \in M : AnswersOf(m) \in Seq(Nat)
  <2> TAKE m \in M
  <2>1. <<m.req>> \in Seq(Nat) /\ <<>> \in Seq(Nat)
    BY <1>1
  <2> QED BY <2>1 DEF AnswersOf
<1>3. g \in Gives(M, Nat) /\ \A m \in M : g[m] = AnswersOf(m)
  <2>1. g = [m \in M |-> AnswersOf(m)]
    BY DEF AnswerIn
  <2> HIDE DEF g, M
  <2> QED BY <1>2, <2>1 DEF Gives
<1> HIDE DEF g, M
<1>4. /\ \A l \in Seq(M) : Through(g, l) \in Seq(Nat)
      /\ \A l, x \in Seq(M) : Through(g, l \o x) = Through(g, l) \o Through(g, x)
      /\ \A m \in M : Through(g, <<m>>) = g[m]
      /\ Through(g, <<>>) = <<>>
  BY <1>3, AmountLaws
<1>5. \A l \in Seq(M) : \A k : k \in Of(Through(g, l)) <=> \E i \in 1..Len(l) : k \in Of(g[l[i]])
  BY <1>3, ThroughOf
<1>6. \A m \in M : \A k : k \in Of(AnswersOf(m)) <=> AnswersOf(m) = <<k>>
  <2> SUFFICES ASSUME NEW m \in M, NEW k PROVE k \in Of(AnswersOf(m)) <=> AnswersOf(m) = <<k>>
    OBVIOUS
  <2>1. CASE AnswersOf(m) = <<>>
    <3>1. Of(<<>>) = {}
      BY OfLaws
    <3>2. <<>> # <<k>>
      OBVIOUS
    <3> QED BY <2>1, <3>1, <3>2
  <2>2. CASE AnswersOf(m) = <<m.req>>
    <3>1. Of(<<m.req>>) = {m.req}
      BY <1>1, OfLaws
    <3>2. <<m.req>> = <<k>> <=> m.req = k
      OBVIOUS
    <3> QED BY <2>2, <3>1, <3>2
  <2> QED BY <2>1, <2>2 DEF AnswersOf
<1>7. \A l \in Seq(M) : \A k : k \in Of(Through(g, l)) <=> \E i \in 1..Len(l) : AnswersOf(l[i]) = <<k>>
  <2> SUFFICES ASSUME NEW l \in Seq(M), NEW k
               PROVE  k \in Of(Through(g, l)) <=> \E i \in 1..Len(l) : AnswersOf(l[i]) = <<k>>
    OBVIOUS
  <2>1. \A i \in 1..Len(l) : l[i] \in M
    BY ElementOfSeq
  <2>2. \A i \in 1..Len(l) : k \in Of(g[l[i]]) <=> AnswersOf(l[i]) = <<k>>
    BY <1>3, <1>6, <2>1
  <2> QED BY <1>5, <2>2
<1> QED BY <1>2, <1>3, <1>4, <1>7 DEF Answered, g, M

\* The first of a sequence and the others; two sequences in a row.
LEMMA Headed ==
    ASSUME NEW M, NEW m \in M, NEW l \in Seq(M)
    PROVE  LET z == <<m>> \o l IN
           /\ z \in Seq(M) /\ Len(z) = Len(l) + 1 /\ Len(l) \in Nat /\ z[1] = m
           /\ \A i \in 1..Len(l) : i + 1 \in 1..Len(z) /\ z[i + 1] = l[i]
<1> DEFINE y == <<m>>
           z == y \o l
<1>1. y \in Seq(M) /\ Len(y) = 1 /\ y[1] = m
  OBVIOUS
<1> HIDE DEF y
<1>2. /\ z \in Seq(M) /\ Len(z) = Len(y) + Len(l) /\ Len(l) \in Nat
      /\ \A i \in 1..Len(y) + Len(l) : z[i] = IF i <= Len(y) THEN y[i] ELSE l[i - Len(y)]
  BY <1>1, ConcatProperties, LenProperties
<1> HIDE DEF z
<1> DEFINE n == Len(l)
<1>3. Len(z) = n + 1 /\ n \in Nat /\ \A i \in 1..n + 1 : z[i] = IF i <= 1 THEN y[i] ELSE l[i - 1]
  <2> HIDE DEF n
  <2>1. 1 + n = n + 1 /\ n \in Nat
    BY <1>2 DEF n
  <2> QED BY <1>1, <1>2, <2>1 DEF n
<1> HIDE DEF n
<1>4. z[1] = m
  BY <1>1, <1>3
<1>5. \A i \in 1..n : i + 1 \in 1..n + 1 /\ ~(i + 1 <= 1) /\ (i + 1) - 1 = i
  BY <1>3
<1>6. \A i \in 1..n : i + 1 \in 1..n + 1 /\ z[i + 1] = l[i]
  BY <1>3, <1>5
<1> QED BY <1>2, <1>3, <1>4, <1>6 DEF n, z, y

LEMMA InARow ==
    ASSUME NEW M, NEW l \in Seq(M), NEW x \in Seq(M)
    PROVE  LET z == l \o x IN
           /\ z \in Seq(M) /\ Len(z) = Len(l) + Len(x) /\ Len(l) \in Nat /\ Len(x) \in Nat
           /\ \A i \in 1..Len(l) : i \in 1..Len(z) /\ z[i] = l[i]
           /\ \A i \in 1..Len(z) : i \in 1..Len(l) \/ (i > Len(l) /\ i - Len(l) \in 1..Len(x) /\ z[i] = x[i - Len(l)])
<1> DEFINE z == l \o x
           n == Len(l)
           k == Len(x)
<1>1. /\ z \in Seq(M) /\ Len(z) = n + k /\ n \in Nat /\ k \in Nat
      /\ \A i \in 1..n + k : z[i] = IF i <= n THEN l[i] ELSE x[i - n]
  BY ConcatProperties, LenProperties
<1> HIDE DEF z, n, k
<1>2. \A i \in 1..n : i \in 1..n + k /\ z[i] = l[i]
  BY <1>1
<1>3. \A i \in 1..n + k : i \in 1..n \/ (i > n /\ i - n \in 1..k /\ z[i] = x[i - n])
  BY <1>1
<1> QED BY <1>1, <1>2, <1>3 DEF z, n, k

(***************************************************************************)
(* The invariant.  Commands are answered in the order in which they were   *)
(* issued, and those that are to be have their callbacks waiting in z, q;  *)
(* the others waiting are later, and their answers will not come.          *)
(***************************************************************************)
Flow(w, z, q, alive, tidy) ==
    /\ Rising(z) /\ Of(z) \subseteq 1..Len(w)
    /\ tidy =>
         /\ \A k \in Of(z) : w[k].op = "get" => k \in q
         /\ \A k \in q : k \in Of(z) \/ (~alive /\ \A j \in Of(z) : j < k)

\* What answers nothing, or will not be answered, leaves the way.
LEMMA FlowDrops ==
    ASSUME NEW w, NEW z, NEW q, NEW alive, NEW tidy, Flow(w, z, q, alive, tidy),
           NEW z2, Rising(z2), Of(z2) \subseteq Of(z), NEW alive2, alive2 => alive,
           NEW tidy2, tidy2 => tidy,
           tidy2 => \A k \in q : w[k].op = "get",
           \A k \in Of(z) \ Of(z2) : w[k].op # "get" \/ (~alive2 /\ \A j \in Of(z2) : j < k)
    PROVE  Flow(w, z2, q, alive2, tidy2)
BY DEF Flow

\* The oldest one is answered.
LEMMA FlowTakes ==
    ASSUME NEW w, NEW a \in Nat, NEW z \in Seq(Nat), NEW q, NEW alive, NEW tidy,
           Flow(w, <<a>> \o z, q, alive, tidy), NEW tidy2, tidy2 => tidy
    PROVE  /\ Flow(w, z, q \ {a}, alive, tidy2)
           /\ a \in 1..Len(w)
           /\ (tidy /\ w[a].op = "get") => a \in q /\ \A k \in q : k = a \/ a < k
<1> DEFINE y == <<a>>
           x == y \o z
<1>1. y \in Seq(Nat) /\ Of(y) = {a}
  BY OfLaws
<1> HIDE DEF y
<1>2. Of(x) = Of(y) \cup Of(z)
  BY <1>1, OfLaws
<1>3. Rising(x) /\ Of(x) \subseteq 1..Len(w)
  BY DEF Flow, y
<1>4. Rising(z) /\ Below(Of(y), Of(z))
  BY <1>1, <1>3, RisingConcat
<1>5. \A k \in Of(z) : a < k /\ k # a /\ k \in Nat
  <2>1. \A k \in Of(z) : a < k
    BY <1>1, <1>4 DEF Below
  <2>2. Of(z) \subseteq Nat
    BY OfLaws
  <2> QED BY <2>1, <2>2
<1>6. tidy => /\ \A k \in Of(x) : w[k].op = "get" => k \in q
              /\ \A k \in q : k \in Of(x) \/ (~alive /\ \A j \in Of(x) : j < k)
  BY DEF Flow, y
<1> HIDE DEF x
<1>7. Flow(w, z, q \ {a}, alive, tidy2)
  BY <1>1, <1>2, <1>3, <1>4, <1>5, <1>6 DEF Flow
<1>8. (tidy /\ w[a].op = "get") => a \in q /\ \A k \in q : k = a \/ a < k
  BY <1>1, <1>2, <1>5, <1>6
<1> QED BY <1>1, <1>2, <1>3, <1>7, <1>8

\* A further command is issued, and will reach the server if alive.
LEMMA FlowIssues ==
    ASSUME NEW w \in Seq(CommandType), NEW m \in CommandType, NEW z \in Seq(Nat), NEW q, NEW alive, NEW tidy,
           Flow(w, z, q, alive, tidy),
           NEW z2, z2 = IF alive THEN z \o <<Len(w) + 1>> ELSE z,
           NEW tidy2, tidy2 => tidy /\ m.op # "monitor",
           NEW q2, q2 = IF m.op = "get" THEN q \cup {Len(w) + 1} ELSE q
    PROVE  Flow(Append(w, m), z2, q2, alive, tidy2)
<1> DEFINE n == Len(w) + 1
           v == Append(w, m)
           y == <<n>>
<1>1. /\ n \in Nat /\ Len(v) = n /\ v[n] = m /\ \A i \in 1..Len(w) : v[i] = w[i] /\ i \in 1..n /\ i < n
      /\ n \in 1..n
  <2>1. Len(w) \in Nat /\ Len(v) = Len(w) + 1 /\ v[Len(w) + 1] = m /\ \A i \in 1..Len(w) : v[i] = w[i]
    BY AppendProperties, LenProperties
  <2> HIDE DEF v
  <2> QED BY <2>1
<1> HIDE DEF v, n
<1>2. y \in Seq(Nat) /\ Of(y) = {n} /\ Rising(y)
  BY <1>1, OfLaws
<1> HIDE DEF y
<1>3. Rising(z) /\ Of(z) \subseteq 1..Len(w)
  BY DEF Flow
<1>4. \A k \in Of(z) : k < n /\ v[k] = w[k] /\ k \in 1..n
  BY <1>1, <1>3
<1>5. Of(z \o y) = Of(z) \cup {n}
  BY <1>2, OfLaws
<1>6. Rising(z \o y)
  <2>1. Below(Of(z), Of(y))
    BY <1>2, <1>4 DEF Below
  <2> QED BY <1>2, <1>3, <2>1, RisingConcat
<1>7. tidy => /\ \A k \in Of(z) : w[k].op = "get" => k \in q
              /\ \A k \in q : k \in Of(z) \/ (~alive /\ \A j \in Of(z) : j < k)
  BY DEF Flow
<1>8. q2 = IF m.op = "get" THEN q \cup {n} ELSE q
  BY DEF n
<1>9. CASE alive
  <2>1. z2 = z \o y
    BY <1>9 DEF y, n
  <2>2. Of(z2) = Of(z) \cup {n} /\ Rising(z2)
    BY <1>5, <1>6, <2>1
  <2>3. Of(z2) \subseteq 1..Len(v)
    BY <1>1, <1>4, <2>2
  <2>4. tidy2 => /\ \A k \in Of(z2) : v[k].op = "get" => k \in q2
                 /\ \A k \in q2 : k \in Of(z2)
    BY <1>1, <1>4, <1>7, <1>8, <1>9, <2>2
  <2> QED BY <2>2, <2>3, <2>4 DEF Flow, v
<1>10. CASE ~alive
  <2>1. z2 = z
    BY <1>10
  <2>2. Of(z2) \subseteq 1..Len(v)
    BY <1>1, <1>4, <2>1
  <2>3. tidy2 => /\ \A k \in Of(z2) : v[k].op = "get" => k \in q2
                 /\ \A k \in q2 : k \in Of(z2) \/ \A j \in Of(z2) : j < k
    BY <1>1, <1>4, <1>7, <1>8, <2>1
  <2> QED BY <1>3, <1>10, <2>1, <2>2, <2>3 DEF Flow, v
<1> QED BY <1>9, <1>10

(***************************************************************************)
(* What the letters l may be when the commands are w: replies to commands  *)
(* that ask for one, lines if there is a monitor, and news of topics; or   *)
(* one error, from a server that is not open and answers nothing.          *)
(***************************************************************************)
Stamped(w, m, alone, mon) ==
    /\ m.op \in {"answer", "error"} =>
         \/ m.req \in 1..Len(w) /\ w[m.req].op \in {"get", "monitor"}
         \/ m.op = "error" /\ m.req = 0 /\ alone
    /\ m.op = "line" => mon
    /\ m.op \in {"subscribe", "message"} => m.topic \in DOMAIN Hash
Stamps(w, l, open, mon) == \A i \in 1..Len(l) : Stamped(w, l[i], Len(l) = 1 /\ ~open, mon)

\* The replies to the commands in r come before letter n.
Foremost(l, n, r) == \A k \in r : \E j \in 1..n - 1 : AnswersOf(l[j]) = <<k>>

\* Before any news of a subscription, and before a SUBSCRIBE in z is served, the
\* commands in r are answered, if subs is what the server has subscribed.
Ordered(w, l, z, r, subs) ==
    /\ \A i \in 1..Len(l) : l[i].op \in {"subscribe", "message"} => Foremost(l, i, r)
    /\ \A s \in Of(z) : w[s].op = "subscribe" => \A k \in r : k < s
    /\ subs # {} => Foremost(l, Len(l) + 1, r)

About(m, op, pattern, t) == m.op = op /\ m.pattern = pattern /\ m.topic = t

\* Before letter n, no subscription to the topic ends and is not made anew.
Settled(l, n, pattern, t) ==
    \A j \in 1..n - 1 : About(l[j], "unsubscribe", pattern, t) =>
        \E i \in j + 1..n - 1 : About(l[i], "subscribe", pattern, t)
Told1(m, a, s) == s /\ dictHas(DictOf(a, m.pattern), m.topic)
News(l, a, s) ==
    \A i \in 1..Len(l) : l[i].op = "message" =>
        Told1(l[i], a, s) /\ Settled(l, i, l[i].pattern, l[i].topic)

\* The first letter is read.
LEMMA TakenStamps ==
    ASSUME NEW w, NEW m \in AnyMessage, NEW l \in Seq(AnyMessage), NEW open, NEW mon,
           Stamps(w, <<m>> \o l, open, mon)
    PROVE  /\ Stamps(w, l, open, mon) /\ Stamped(w, m, l = <<>> /\ ~open, mon)
<1> DEFINE z == <<m>> \o l
<1>1. /\ z \in Seq(AnyMessage) /\ Len(z) = Len(l) + 1 /\ Len(l) \in Nat /\ z[1] = m
      /\ \A i \in 1..Len(l) : i + 1 \in 1..Len(z) /\ z[i + 1] = l[i]
  BY Headed
<1>2. Stamps(w, z, open, mon)
  OBVIOUS
<1> HIDE DEF z
<1>3. Len(l) = 0 => l = <<>>
  BY EmptySeq
<1>4. Stamped(w, m, l = <<>> /\ ~open, mon)
  <2>1. Stamped(w, z[1], Len(z) = 1 /\ ~open, mon)
    <3>1. 1 \in 1..Len(z)
      BY <1>1
    <3> QED BY <1>2, <3>1 DEF Stamps
  <2>2. Len(z) = 1 => l = <<>>
    BY <1>1, <1>3
  <2> QED BY <1>1, <2>1, <2>2 DEF Stamped
<1>5. ASSUME NEW i \in 1..Len(l) PROVE Stamped(w, l[i], Len(l) = 1 /\ ~open, mon)
  <2>1. Stamped(w, z[i + 1], Len(z) = 1 /\ ~open, mon)
    BY <1>1, <1>2 DEF Stamps
  <2>2. Len(z) # 1
    BY <1>1
  <2> QED BY <1>1, <2>1, <2>2 DEF Stamped
<1> QED BY <1>4, <1>5 DEF Stamps

LEMMA TakenOrdered ==
    ASSUME NEW w, NEW m \in AnyMessage, NEW l \in Seq(AnyMessage), NEW z, NEW r, NEW subs,
           Ordered(w, <<m>> \o l, z, r, subs),
           NEW z2, Of(z2) \subseteq Of(z), NEW r2, r2 \subseteq r, \A k \in r2 : AnswersOf(m) # <<k>>
    PROVE  /\ Ordered(w, l, z2, r2, subs)
           /\ m.op \in {"subscribe", "message"} => r = {}
<1> DEFINE x == <<m>> \o l
<1>1. /\ x \in Seq(AnyMessage) /\ Len(x) = Len(l) + 1 /\ Len(l) \in Nat /\ x[1] = m
      /\ \A i \in 1..Len(l) : i + 1 \in 1..Len(x) /\ x[i + 1] = l[i]
  BY Headed
<1>2. Ordered(w, x, z, r, subs)
  OBVIOUS
<1> HIDE DEF x
<1>3. ASSUME NEW n \in 1..Len(l) + 1, Foremost(x, n + 1, r) PROVE Foremost(l, n, r2)
  <2> SUFFICES ASSUME NEW k \in r2 PROVE \E j \in 1..n - 1 : AnswersOf(l[j]) = <<k>>
    BY DEF Foremost
  <2>1. PICK j \in 1..(n + 1) - 1 : AnswersOf(x[j]) = <<k>>
    BY <1>3 DEF Foremost
  <2>2. j # 1
    BY <1>1, <2>1
  <2>3. j - 1 \in 1..n - 1 /\ j - 1 \in 1..Len(l) /\ (j - 1) + 1 = j
    BY <1>1, <2>2
  <2>4. x[j] = l[j - 1]
    BY <1>1, <2>3
  <2> QED BY <2>1, <2>3, <2>4
<1>4. ASSUME NEW i \in 1..Len(l), l[i].op \in {"subscribe", "message"} PROVE Foremost(l, i, r2)
  <2>1. Foremost(x, i + 1, r)
    BY <1>1, <1>2, <1>4 DEF Ordered
  <2>2. i \in 1..Len(l) + 1
    BY <1>1
  <2> QED BY <1>3, <2>1, <2>2
<1>5. subs # {} => Foremost(l, Len(l) + 1, r2)
  <2>1. subs # {} => Foremost(x, (Len(l) + 1) + 1, r)
    BY <1>1, <1>2 DEF Ordered
  <2>2. Len(l) + 1 \in 1..Len(l) + 1
    BY <1>1
  <2> QED BY <1>3, <2>1, <2>2
<1>6. m.op \in {"subscribe", "message"} => r = {}
  <2>1. 1 \in 1..Len(x)
    BY <1>1
  <2>2. m.op \in {"subscribe", "message"} => Foremost(x, 1, r)
    BY <1>1, <1>2, <2>1 DEF Ordered
  <2>3. 1..1 - 1 = {}
    OBVIOUS
  <2> QED BY <2>2, <2>3 DEF Foremost
<1>7. \A s \in Of(z2) : w[s].op = "subscribe" => \A k \in r2 : k < s
  BY <1>2 DEF Ordered
<1> QED BY <1>4, <1>5, <1>6, <1>7 DEF Ordered

LEMMA TakenNews ==
    ASSUME NEW m \in AnyMessage, NEW l \in Seq(AnyMessage), NEW a, NEW s, News(<<m>> \o l, a, s)
    PROVE  /\ m.op = "message" => Told1(m, a, s)
           /\ \A i \in 1..Len(l) : l[i].op = "message" =>
                /\ Told1(l[i], a, s) /\ Settled(l, i, l[i].pattern, l[i].topic)
                /\ About(m, "unsubscribe", l[i].pattern, l[i].topic) =>
                     \E j \in 1..Len(l) : About(l[j], "subscribe", l[i].pattern, l[i].topic)
<1> DEFINE x == <<m>> \o l
<1>1. /\ x \in Seq(AnyMessage) /\ Len(x) = Len(l) + 1 /\ Len(l) \in Nat /\ x[1] = m
      /\ \A i \in 1..Len(l) : i + 1 \in 1..Len(x) /\ x[i + 1] = l[i]
  BY Headed
<1>2. News(x, a, s)
  OBVIOUS
<1> HIDE DEF x
<1>3. m.op = "message" => Told1(m, a, s)
  <2>1. 1 \in 1..Len(x)
    BY <1>1
  <2> QED BY <1>1, <1>2, <2>1 DEF News
<1>4. ASSUME NEW i \in 1..Len(l), l[i].op = "message"
      PROVE  /\ Told1(l[i], a, s) /\ Settled(l, i, l[i].pattern, l[i].topic)
             /\ About(m, "unsubscribe", l[i].pattern, l[i].topic) =>
                  \E j \in 1..Len(l) : About(l[j], "subscribe", l[i].pattern, l[i].topic)
  <2> DEFINE p == l[i].pattern
             t == l[i].topic
  <2>1. Told1(l[i], a, s) /\ Settled(x, i + 1, p, t)
    BY <1>1, <1>2, <1>4 DEF News
  <2> HIDE DEF p, t
  <2>2. ASSUME NEW j \in 1..(i + 1) - 1, About(x[j], "unsubscribe", p, t)
        PROVE  \E n \in j..i - 1 : n \in 1..Len(l) /\ About(l[n], "subscribe", p, t)
    <3>1. PICK n \in j + 1..(i + 1) - 1 : About(x[n], "subscribe", p, t)
      BY <2>1, <2>2 DEF Settled
    <3>2. n - 1 \in j..i - 1 /\ n - 1 \in 1..Len(l) /\ (n - 1) + 1 = n
      BY <1>1
    <3>3. x[n] = l[n - 1]
      BY <1>1, <3>2
    <3> QED BY <3>1, <3>2, <3>3
  <2>3. About(m, "unsubscribe", p, t) => \E n \in 1..Len(l) : About(l[n], "subscribe", p, t)
    <3>1. 1 \in 1..(i + 1) - 1
      OBVIOUS
    <3> QED BY <1>1, <2>2, <3>1
  <2>4. Settled(l, i, p, t)
    <3> SUFFICES ASSUME NEW j \in 1..i - 1, About(l[j], "unsubscribe", p, t)
                 PROVE  \E n \in j + 1..i - 1 : About(l[n], "subscribe", p, t)
      BY DEF Settled
    <3>1. j + 1 \in 1..(i + 1) - 1 /\ j \in 1..Len(l)
      BY <1>1
    <3>2. x[j + 1] = l[j]
      BY <1>1, <3>1
    <3> QED BY <2>2, <3>1, <3>2
  <2> QED BY <2>1, <2>3, <2>4 DEF p, t
<1> QED BY <1>3, <1>4

\* Letters join them, with a command more or none.
LEMMA JoinedStamps ==
    ASSUME NEW w, NEW l \in Seq(AnyMessage), NEW x \in Seq(AnyMessage), NEW open, NEW mon,
           Stamps(w, l, open, mon), open \/ x = <<>> \/ l = <<>>,
           NEW open2, open2 => open, NEW mon2, mon => mon2,
           \A i \in 1..Len(x) : Stamped(w, x[i], l = <<>> /\ Len(x) = 1 /\ ~open2, mon2)
    PROVE  Stamps(w, l \o x, open2, mon2)
<1> DEFINE z == l \o x
<1>1. /\ z \in Seq(AnyMessage) /\ Len(z) = Len(l) + Len(x) /\ Len(l) \in Nat /\ Len(x) \in Nat
      /\ \A i \in 1..Len(l) : i \in 1..Len(z) /\ z[i] = l[i]
      /\ \A i \in 1..Len(z) : i \in 1..Len(l) \/ (i > Len(l) /\ i - Len(l) \in 1..Len(x) /\ z[i] = x[i - Len(l)])
  BY InARow
<1> HIDE DEF z
<1>2. (Len(l) = 0 <=> l = <<>>) /\ (Len(x) = 0 <=> x = <<>>)
  BY EmptySeq
<1> SUFFICES ASSUME NEW i \in 1..Len(z) PROVE Stamped(w, z[i], Len(z) = 1 /\ ~open2, mon2)
  BY DEF Stamps, z
<1>3. CASE i \in 1..Len(l)
  <2>1. Stamped(w, l[i], Len(l) = 1 /\ ~open, mon)
    BY <1>3 DEF Stamps
  <2>2. z[i] = l[i]
    BY <1>1, <1>3
  <2>3. Len(l) = 1 /\ ~open => Len(z) = 1 /\ ~open2
    BY <1>1, <1>2, <1>3
  <2> QED BY <2>1, <2>2, <2>3 DEF Stamped
<1>4. CASE i \notin 1..Len(l)
  <2> DEFINE j == i - Len(l)
  <2>1. j \in 1..Len(x) /\ z[i] = x[j]
    BY <1>1, <1>4
  <2> HIDE DEF j
  <2>2. l = <<>> /\ Len(x) = 1 => Len(z) = 1
    BY <1>1, <1>2
  <2> QED BY <2>1, <2>2 DEF Stamped
<1> QED BY <1>3, <1>4

LEMMA GrownStamps ==
    ASSUME NEW w \in Seq(CommandType), NEW m \in CommandType, NEW l, NEW open, NEW mon,
           Stamps(w, l, open, mon), NEW open2, open2 => open, NEW mon2, mon => mon2
    PROVE  Stamps(Append(w, m), l, open2, mon2)
<1> DEFINE v == Append(w, m)
<1>1. Len(v) = Len(w) + 1 /\ Len(w) \in Nat /\ \A i \in 1..Len(w) : v[i] = w[i]
  BY AppendProperties, LenProperties
<1> HIDE DEF v
<1>2. \A i \in 1..Len(w) : i \in 1..Len(v) /\ v[i] = w[i]
  BY <1>1
<1> QED BY <1>2 DEF Stamps, Stamped, v

LEMMA JoinedOrdered ==
    ASSUME NEW w, NEW l \in Seq(AnyMessage), NEW x \in Seq(AnyMessage), NEW z, NEW r, NEW subs,
           Ordered(w, l, z, r, subs),
           NEW z2, Of(z2) \subseteq Of(z), NEW subs2,
           ((\E i \in 1..Len(x) : x[i].op \in {"subscribe", "message"}) \/ subs2 # {}) => Foremost(l, Len(l) + 1, r)
    PROVE  Ordered(w, l \o x, z2, r, subs2)
<1> DEFINE y == l \o x
<1>1. /\ y \in Seq(AnyMessage) /\ Len(y) = Len(l) + Len(x) /\ Len(l) \in Nat /\ Len(x) \in Nat
      /\ \A i \in 1..Len(l) : i \in 1..Len(y) /\ y[i] = l[i]
      /\ \A i \in 1..Len(y) : i \in 1..Len(l) \/ (i > Len(l) /\ i - Len(l) \in 1..Len(x) /\ y[i] = x[i - Len(l)])
  BY InARow
<1> HIDE DEF y
<1>2. ASSUME NEW n \in 1..Len(l) + 1, NEW n2 \in Nat, n <= n2, Foremost(l, n, r) PROVE Foremost(y, n2, r)
  <2> SUFFICES ASSUME NEW k \in r PROVE \E j \in 1..n2 - 1 : AnswersOf(y[j]) = <<k>>
    BY DEF Foremost
  <2>1. PICK j \in 1..n - 1 : AnswersOf(l[j]) = <<k>>
    BY <1>2 DEF Foremost
  <2>2. j \in 1..n2 - 1 /\ j \in 1..Len(l)
    BY <1>1, <1>2
  <2> QED BY <1>1, <2>1, <2>2
<1>3. ASSUME NEW i \in 1..Len(y), y[i].op \in {"subscribe", "message"} PROVE Foremost(y, i, r)
  <2>1. CASE i \in 1..Len(l)
    <3>1. Foremost(l, i, r)
      BY <1>1, <1>3, <2>1 DEF Ordered
    <3>2. i \in 1..Len(l) + 1 /\ i \in Nat /\ i <= i
      BY <1>1, <2>1
    <3> QED BY <1>2, <3>1, <3>2
  <2>2. CASE i \notin 1..Len(l)
    <3>1. i > Len(l) /\ i - Len(l) \in 1..Len(x) /\ y[i] = x[i - Len(l)]
      BY <1>1, <2>2
    <3>2. Foremost(l, Len(l) + 1, r)
      BY <1>3, <3>1
    <3>3. Len(l) + 1 \in 1..Len(l) + 1 /\ i \in Nat /\ Len(l) + 1 <= i
      BY <1>1, <3>1
    <3> QED BY <1>2, <3>2, <3>3
  <2> QED BY <2>1, <2>2
<1>4. subs2 # {} => Foremost(y, Len(y) + 1, r)
  <2>1. Len(l) + 1 \in 1..Len(l) + 1 /\ Len(y) + 1 \in Nat /\ Len(l) + 1 <= Len(y) + 1
    BY <1>1
  <2> QED BY <1>2, <2>1
<1>5. \A s \in Of(z2) : w[s].op = "subscribe" => \A k \in r : k < s
  BY DEF Ordered
<1> QED BY <1>3, <1>4, <1>5 DEF Ordered, y

LEMMA JoinedNews ==
    ASSUME NEW l \in Seq(AnyMessage), NEW x \in Seq(AnyMessage), NEW a, NEW s, News(l, a, s),
           \A i \in 1..Len(x) : x[i].op = "message" =>
             /\ Told1(x[i], a, s) /\ Settled(l, Len(l) + 1, x[i].pattern, x[i].topic)
             /\ \A j \in 1..Len(x) : x[j].op # "unsubscribe"
    PROVE  News(l \o x, a, s)
<1> DEFINE y == l \o x
<1>1. /\ y \in Seq(AnyMessage) /\ Len(y) = Len(l) + Len(x) /\ Len(l) \in Nat /\ Len(x) \in Nat
      /\ \A i \in 1..Len(l) : i \in 1..Len(y) /\ y[i] = l[i]
      /\ \A i \in 1..Len(y) : i \in 1..Len(l) \/ (i > Len(l) /\ i - Len(l) \in 1..Len(x) /\ y[i] = x[i - Len(l)])
  BY InARow
<1> HIDE DEF y
<1> SUFFICES ASSUME NEW i \in 1..Len(y), y[i].op = "message"
             PROVE  Told1(y[i], a, s) /\ Settled(y, i, y[i].pattern, y[i].topic)
  BY DEF News, y
<1> DEFINE p == y[i].pattern
           t == y[i].topic
<1>2. CASE i \in 1..Len(l)
  <2>1. Told1(l[i], a, s) /\ Settled(l, i, p, t) /\ y[i] = l[i]
    BY <1>1, <1>2 DEF News
  <2> HIDE DEF p, t
  <2>2. \A j \in 1..i - 1 : j \in 1..Len(l)
    BY <1>1, <1>2
  <2>3. \A j \in 1..i - 1 : \A n \in j + 1..i - 1 : n \in 1..Len(l)
    BY <1>1, <1>2
  <2>4. Settled(y, i, p, t)
    BY <1>1, <2>1, <2>2, <2>3 DEF Settled
  <2> QED BY <2>1, <2>4 DEF p, t
<1>3. CASE i \notin 1..Len(l)
  <2> DEFINE h == i - Len(l)
  <2>1. i > Len(l) /\ h \in 1..Len(x) /\ y[i] = x[h]
    BY <1>1, <1>3
  <2> HIDE DEF h
  <2>2. Told1(x[h], a, s) /\ Settled(l, Len(l) + 1, p, t) /\ \A j \in 1..Len(x) : x[j].op # "unsubscribe"
    BY <2>1
  <2> HIDE DEF p, t
  <2>3. ASSUME NEW j \in 1..i - 1, About(y[j], "unsubscribe", p, t)
        PROVE  \E n \in j + 1..i - 1 : About(y[n], "subscribe", p, t)
    <3>1. j \in 1..Len(y)
      BY <1>1
    <3>2. j \in 1..Len(l)
      BY <1>1, <2>2, <2>3, <3>1 DEF About
    <3>3. j \in 1..(Len(l) + 1) - 1 /\ About(l[j], "unsubscribe", p, t)
      BY <1>1, <2>3, <3>2
    <3>4. PICK n \in j + 1..(Len(l) + 1) - 1 : About(l[n], "subscribe", p, t)
      BY <2>2, <3>3 DEF Settled
    <3>5. n \in 1..Len(l) /\ n \in j + 1..i - 1
      BY <1>1, <2>1, <3>2
    <3> QED BY <1>1, <3>4, <3>5
  <2> QED BY <2>1, <2>2, <2>3 DEF Settled, p, t
<1> QED BY <1>2, <1>3

(***************************************************************************)
(* What the letters say of subscriptions                                   *)
(***************************************************************************)
LEMMA ThroughLetters ==
    ASSUME NEW V, NEW h \in Gives(AnyMessage, V), NEW k \in Gives(PieceOf(AnyMessage), V),
           \A p \in PieceOf(AnyMessage) : k[p] = IF p.last THEN h[p.msg] ELSE <<>>
    PROVE  \A s \in Seq(PieceOf(AnyMessage)) : Through(h, Letters(s)) = Through(k, s)
<1> DEFINE M == AnyMessage
           P == PieceOf(M)
           g == LetterIn
<1>1. \A p \in P : p.last \in BOOLEAN /\ p.msg \in M
  <2> HIDE DEF M
  <2> QED BY DEF PieceOf
<1>2. g \in Gives(P, M) /\ \A p \in P : g[p] = IF p.last THEN <<p.msg>> ELSE <<>>
  <2> HIDE DEF M
  <2>1. g = [p \in P |-> IF p.last THEN <<p.msg>> ELSE <<>>]
    BY DEF LetterIn, M
  <2>2. \A m \in M : <<m>> \in Seq(M) /\ <<>> \in Seq(M)
    OBVIOUS
  <2> HIDE DEF g, P
  <2>3. \A p \in P : (IF p.last THEN <<p.msg>> ELSE <<>>) \in Seq(M)
    <3> SUFFICES ASSUME NEW p \in P PROVE (IF p.last THEN <<p.msg>> ELSE <<>>) \in Seq(M)
      OBVIOUS
    <3>1. p.msg \in M
      BY <1>1
    <3> QED BY <2>2, <3>1
  <2> QED BY <2>1, <2>3 DEF Gives
<1> HIDE DEF M, P, g
<1>3. h \in Gives(M, V) /\ k \in Gives(P, V)
  BY DEF M, P
<1>4. \A p \in P : k[p] = Through(h, g[p])
  <2>1. Through(h, <<>>) = <<>> /\ \A m \in M : Through(h, <<m>>) = h[m]
    BY <1>3, AmountLaws
  <2>2. \A p \in P : k[p] = IF p.last THEN h[p.msg] ELSE <<>>
    BY DEF P, M
  <2> QED BY <1>1, <1>2, <2>1, <2>2
<1>5. \A s \in Seq(P) : Through(h, Through(g, s)) = Through(k, s)
  BY <1>2, <1>3, <1>4, ThroughThrough
<1> QED BY <1>5 DEF Letters, P, M, g

\* A letter that confirms a subscription counts.
LEMMA SaidLetter ==
    ASSUME NEW pattern \in BOOLEAN, NEW t \in DOMAIN Hash, NEW s \in Seq(PieceOf(AnyMessage)),
           NEW i \in 1..Len(Letters(s)), About(Letters(s)[i], "subscribe", pattern, t)
    PROVE  Said(pattern, t, s) > 0
<1> DEFINE M == AnyMessage
           V == DOMAIN Hash
           h == [m \in M |-> Says(m, pattern, t)]
           k == SayIn(pattern, t)
           l == Letters(s)
<1>1. h \in Gives(M, V) /\ k \in Gives(PieceOf(M), V) /\ \A m \in M : h[m] = Says(m, pattern, t)
  <2>1. (\A m \in M : Says(m, pattern, t) \in Seq(V)) /\ k \in Gives(PieceOf(M), V)
    BY HeardGiven
  <2> HIDE DEF M, V, k
  <2> QED BY <2>1 DEF Gives
<1>2. \A p \in PieceOf(M) : k[p] = IF p.last THEN Says(p.msg, pattern, t) ELSE <<>>
  BY HeardGiven
<1> HIDE DEF h, k
<1>3. \A p \in PieceOf(M) : p.msg \in M
  <2> HIDE DEF M
  <2> QED BY DEF PieceOf
<1>4. \A p \in PieceOf(M) : k[p] = IF p.last THEN h[p.msg] ELSE <<>>
  <2> HIDE DEF M
  <2> QED BY <1>1, <1>2, <1>3
<1>5. Through(h, l) = Through(k, s)
  <2>1. \A u \in Seq(PieceOf(AnyMessage)) : Through(h, Letters(u)) = Through(k, u)
    BY <1>1, <1>4, ThroughLetters
  <2> QED BY <2>1
<1>6. l \in Seq(M)
  BY LettersLaws
<1> DEFINE m == l[i]
<1>7. m \in M /\ h[m] = <<t>>
  <2>1. m \in M
    BY <1>6, ElementOfSeq
  <2>2. Says(m, pattern, t) = <<t>>
    BY DEF Says, About
  <2> QED BY <1>1, <2>1, <2>2
<1>8. t \in Of(Through(h, l))
  <2>1. t \in Of(<<t>>)
    <3>1. Of(<<t>>) = {t}
      <4>1. \A V2, x : x \in V2 => Of(<<x>>) = {x}
        BY OfLaws
      <4> QED BY <4>1
    <3> QED BY <3>1
  <2> HIDE DEF l, M, V
  <2>2. \A v : v \in Of(Through(h, l)) <=> \E n \in 1..Len(l) : v \in Of(h[l[n]])
    BY <1>1, <1>6, ThroughOf
  <2>3. t \in Of(h[l[i]])
    BY <1>7, <2>1
  <2>4. i \in 1..Len(l)
    BY DEF l
  <2> QED BY <2>2, <2>3, <2>4
<1>9. Through(k, s) \in Seq(V) /\ Through(k, s) # <<>>
  <2>1. Through(k, s) \in Seq(V)
    <3> HIDE DEF M, V
    <3>1. s \in Seq(PieceOf(M))
      BY DEF M
    <3> QED BY <1>1, <3>1, AmountLaws
  <2>2. Of(<<>>) = {}
    BY OfLaws
  <2> QED BY <1>5, <1>8, <2>1, <2>2
<1>10. Len(Through(k, s)) > 0
  <2> HIDE DEF V
  <2> QED BY <1>9, EmptySeq, LenProperties
<1> QED BY <1>10 DEF Said, k

\* If the last letter about a topic says that it is subscribed, none after it
\* says otherwise.
LEMMA LastSettles ==
    ASSUME NEW pattern \in BOOLEAN, NEW t \in DOMAIN Hash, NEW s \in Seq(PieceOf(AnyMessage)),
           LastWord(Talk(pattern, t, s), TRUE)
    PROVE  Settled(Letters(s), Len(Letters(s)) + 1, pattern, t)
<1> DEFINE M == AnyMessage
           V == {"subscribe", "unsubscribe"}
           h == [m \in M |-> Tells(m, pattern, t)]
           k == TellIn(pattern, t)
           Q == {l \in Seq(M) : LastWord(Through(h, l), TRUE) => Settled(l, Len(l) + 1, pattern, t)}
<1>1. h \in Gives(M, V) /\ k \in Gives(PieceOf(M), V) /\ \A m \in M : h[m] = Tells(m, pattern, t)
  <2>1. (\A m \in M : Tells(m, pattern, t) \in Seq(V)) /\ k \in Gives(PieceOf(M), V)
    BY HeardGiven
  <2> HIDE DEF M, V, k
  <2> QED BY <2>1 DEF Gives
<1>2. \A p \in PieceOf(M) : k[p] = IF p.last THEN Tells(p.msg, pattern, t) ELSE <<>>
  BY HeardGiven
<1> HIDE DEF h, k
<1>3. \A p \in PieceOf(M) : p.msg \in M
  <2> HIDE DEF M
  <2> QED BY DEF PieceOf
<1>4. \A p \in PieceOf(M) : k[p] = IF p.last THEN h[p.msg] ELSE <<>>
  <2> HIDE DEF M
  <2> QED BY <1>1, <1>2, <1>3
<1>5. Through(h, Letters(s)) = Through(k, s) /\ Letters(s) \in Seq(M)
  <2>1. \A u \in Seq(PieceOf(AnyMessage)) : Through(h, Letters(u)) = Through(k, u)
    BY <1>1, <1>4, ThroughLetters
  <2> QED BY <2>1, LettersLaws
<1>6. <<>> \in Q
  <2>1. 1..(Len(<<>>) + 1) - 1 = {} /\ <<>> \in Seq(M)
    OBVIOUS
  <2>2. Settled(<<>>, Len(<<>>) + 1, pattern, t)
    BY <2>1 DEF Settled
  <2> QED BY <2>1, <2>2
<1>7. ASSUME NEW l \in Seq(M), NEW m \in M, l \in Q PROVE Append(l, m) \in Q
  <2> HIDE DEF M
  <2> DEFINE n == Len(l)
             z == Append(l, m)
             x == Through(h, l)
             y == h[m]
  <2>1. n \in Nat /\ z \in Seq(M) /\ Len(z) = n + 1 /\ z[n + 1] = m /\ \A i \in 1..n : z[i] = l[i]
    BY AppendProperties, LenProperties
  <2>2. Through(h, z) = x \o y /\ x \in Seq(V) /\ y \in Seq(V)
    <3>1. z = l \o <<m>> /\ <<m>> \in Seq(M)
      BY AppendIsConcat
    <3> DEFINE o == <<m>>
    <3>2. o \in Seq(M) /\ z = l \o o
      BY <3>1
    <3> HIDE DEF o, z
    <3>3. Through(h, l \o o) = Through(h, l) \o Through(h, o)
      BY <1>1, <3>2, ThroughConcat
    <3>4. Through(h, o) = h[m] /\ Through(h, l) \in Seq(V)
      BY <1>1, AmountLaws DEF o
    <3>5. h[m] \in Seq(V)
      BY <1>1 DEF Gives
    <3> QED BY <3>2, <3>3, <3>4, <3>5
  <2>3. y = Tells(m, pattern, t)
    BY <1>1
  <2>4. LastWord(x, TRUE) => Settled(l, n + 1, pattern, t)
    BY <1>7
  <2> HIDE DEF x, y, z, n
  <2>5. /\ y # <<>> => x \o y # <<>> /\ (x \o y)[Len(x \o y)] = y[Len(y)]
        /\ y = <<>> => x \o y = x
    BY <2>2, LastOfConcat
  <2> SUFFICES ASSUME LastWord(x \o y, TRUE) PROVE Settled(z, (n + 1) + 1, pattern, t)
    BY <2>1, <2>2 DEF z
  <2> SUFFICES ASSUME NEW j \in 1..n + 1, About(z[j], "unsubscribe", pattern, t)
               PROVE  \E i \in j + 1..n + 1 : About(z[i], "subscribe", pattern, t)
    <3>1. ((n + 1) + 1) - 1 = n + 1
      BY <2>1
    <3> QED BY <3>1 DEF Settled
  <2>6. CASE m.op \in V /\ m.pattern = pattern /\ m.topic = t
    <3>1. y = <<m.op>>
      BY <2>3, <2>6 DEF Tells
    <3>2. y # <<>> /\ y[Len(y)] = m.op
      BY <3>1
    <3>3. m.op = "subscribe"
      BY <2>5, <3>2 DEF LastWord
    <3>4. About(z[n + 1], "subscribe", pattern, t)
      BY <2>1, <2>6, <3>3 DEF About
    <3>5. j # n + 1
      BY <3>4 DEF About
    <3>6. n + 1 \in j + 1..n + 1
      BY <2>1, <3>5
    <3> QED BY <3>4, <3>6
  <2>7. CASE ~(m.op \in V /\ m.pattern = pattern /\ m.topic = t)
    <3>1. y = <<>>
      BY <2>3, <2>7 DEF Tells
    <3>2. Settled(l, n + 1, pattern, t)
      BY <2>4, <2>5, <3>1
    <3>3. j # n + 1
      BY <2>1, <2>7 DEF About
    <3>4. j \in 1..(n + 1) - 1 /\ j \in 1..n
      BY <2>1, <3>3
    <3>5. PICK i \in j + 1..(n + 1) - 1 : About(l[i], "subscribe", pattern, t)
      BY <2>1, <3>2, <3>4 DEF Settled
    <3>6. i \in 1..n /\ i \in j + 1..n + 1
      BY <2>1, <3>4
    <3> QED BY <2>1, <3>5, <3>6
  <2> QED BY <2>6, <2>7
<1>8. Seq(M) \subseteq Q
  <2> HIDE DEF Q, M
  <2> QED BY <1>6, <1>7, SeqSetInduction
<1>9. LastWord(Through(h, Letters(s)), TRUE)
  BY <1>5 DEF Talk, k
<1>10. Letters(s) \in Q
  BY <1>5, <1>8
<1> QED BY <1>9, <1>10

\* A SUBSCRIBE on its way asks for something.
LEMMA AskedSubscribe ==
    ASSUME NEW q \in Seq(CommandType), NEW s \in Seq(Numbered(Len(q))), NEW k \in Of(Commands(s)),
           q[k].op = "subscribe"
    PROVE  \E pattern \in BOOLEAN, t \in DOMAIN Hash : Asked(q, pattern, t, s) > 0
<1> DEFINE n == Len(q)
           P == PieceOf(Nat)
<1>1. n \in Nat /\ \A p \in Numbered(n) : p \in P /\ p.msg \in 1..n /\ p.last \in BOOLEAN
  <2>1. n \in Nat
    BY LenProperties
  <2> HIDE DEF n
  <2> QED BY <2>1 DEF Numbered, PieceOf
<1>2. s \in Seq(P) /\ s \in Seq(Numbered(n)) /\ \A i \in 1..Len(s) : s[i] \in Numbered(n)
  <2>1. \A i \in 1..Len(s) : s[i] \in Numbered(n)
    BY ElementOfSeq
  <2>2. Numbered(n) \subseteq P
    BY <1>1
  <2> HIDE DEF P, n
  <2>3. s \in Seq(Numbered(n))
    BY DEF n
  <2> QED BY <2>1, <2>2, <2>3
<1> HIDE DEF n
<1>3. PICK i \in 1..Len(s) : k \in Of(CommandIn[s[i]])
  <2> HIDE DEF P
  <2>1. CommandIn \in Gives(P, Nat) /\ Commands(s) = Through(CommandIn, s)
    BY <1>2, CommandsGiven DEF P
  <2>2. \A v : v \in Of(Through(CommandIn, s)) <=> \E i \in 1..Len(s) : v \in Of(CommandIn[s[i]])
    BY <1>2, <2>1, ThroughOf
  <2> QED BY <2>1, <2>2
<1>4. s[i].last /\ s[i].msg = k /\ s[i] \in Numbered(n) /\ k \in 1..n
  <2>1. s[i] \in P /\ s[i] \in Numbered(n)
    BY <1>1, <1>2
  <2>2. CommandIn[s[i]] = IF s[i].last THEN <<s[i].msg>> ELSE <<>>
    BY <2>1 DEF CommandIn
  <2>3. Of(<<>>) = {} /\ Of(<<s[i].msg>>) = {s[i].msg}
    BY OfLaws
  <2>4. s[i].last /\ k = s[i].msg
    BY <1>3, <2>2, <2>3
  <2> QED BY <1>1, <2>1, <2>4
<1> DEFINE m == q[k]
<1>5. m \in CommandType /\ m.op = "subscribe" /\ m.pattern \in BOOLEAN /\ m.topics \in Seq(DOMAIN Hash) /\ m.topics # <<>>
  <2>1. m \in CommandType
    BY <1>4, ElementOfSeq DEF n
  <2> QED BY <2>1 DEF CommandType
<1>6. 1 \in 1..Len(m.topics) /\ m.topics[1] \in DOMAIN Hash
  <2> DEFINE V == DOMAIN Hash
             x == m.topics
  <2>1. x \in Seq(V) /\ x # <<>>
    BY <1>5
  <2> HIDE DEF V, x
  <2>2. 1 \in 1..Len(x) /\ x[1] \in V
    <3>1. Len(x) \in Nat /\ Len(x) # 0
      BY <2>1, EmptySeq, LenProperties
    <3> QED BY <2>1, <3>1, ElementOfSeq
  <2> QED BY <2>2 DEF V, x
<1> DEFINE t == m.topics[1]
           p == m.pattern
<1>7. Len(Asks(m, p, t)) > 0 /\ Asks(m, p, t) \in Seq(DOMAIN Hash)
  <2> DEFINE V == DOMAIN Hash
             x == m.topics
             g == TopicIn(t)
  <2>1. g \in Gives(V, V) /\ g[t] = <<t>>
    BY <1>6, TopicsGiven DEF TopicIn
  <2>2. Through(g, x) \in Seq(V) /\ t \in Of(Through(g, x))
    <3>1. x \in Seq(V) /\ 1 \in 1..Len(x) /\ x[1] = t
      BY <1>5, <1>6
    <3>2. t \in Of(<<t>>)
      <4> DEFINE o == t
      <4>1. o \in V
        BY <1>6
      <4> HIDE DEF o
      <4>2. Of(<<o>>) = {o}
        BY <4>1, OfLaws
      <4> QED BY <4>2 DEF o
    <3> HIDE DEF V, g, x, t
    <3>3. \A v : v \in Of(Through(g, x)) <=> \E j \in 1..Len(x) : v \in Of(g[x[j]])
      BY <2>1, <3>1, ThroughOf
    <3>4. Through(g, x) \in Seq(V)
      BY <2>1, <3>1, AmountLaws
    <3> QED BY <2>1, <3>1, <3>2, <3>3, <3>4
  <2>3. Len(Through(g, x)) > 0
    <3> DEFINE y == Through(g, x)
    <3>1. y # <<>>
      BY <2>2, OfLaws
    <3>2. y \in Seq(V)
      BY <2>2
    <3> HIDE DEF y, V
    <3>3. Len(y) > 0
      BY <3>1, <3>2, EmptySeq, LenProperties
    <3> QED BY <3>3 DEF y
  <2>4. Times(t, x) > 0
    BY <2>3 DEF Times
  <2> HIDE DEF g
  <2>5. /\ Asks(m, p, t) \in Seq(DOMAIN Hash)
        /\ Len(Asks(m, p, t)) = IF m.op = "subscribe" /\ m.pattern = p THEN Times(t, m.topics) ELSE 0
    <3> DEFINE o == t
    <3>1. o \in DOMAIN Hash /\ p \in BOOLEAN
      BY <1>5, <1>6
    <3> HIDE DEF o, p
    <3>2. /\ Asks(m, p, o) \in Seq(DOMAIN Hash)
          /\ Len(Asks(m, p, o)) = IF m.op = "subscribe" /\ m.pattern = p THEN Times(o, m.topics) ELSE 0
      BY <1>5, <3>1, AsksGiven
    <3> QED BY <3>2 DEF o
  <2> QED BY <1>5, <2>4, <2>5
<1>8. p \in BOOLEAN /\ t \in DOMAIN Hash
  BY <1>5, <1>6
<1> DEFINE h == AskIn(q, p, t)
<1>9. /\ h \in Gives(Numbered(n), DOMAIN Hash) /\ h[s[i]] = Asks(m, p, t)
  <2>1. h = [x \in Numbered(n) |-> IF x.last THEN Asks(q[x.msg], p, t) ELSE <<>>]
    BY DEF AskIn, n
  <2>2. \A j \in 1..n : q[j] \in CommandType
    BY ElementOfSeq DEF n
  <2> HIDE DEF h, p, t
  <2>3. \A j \in 1..n : Asks(q[j], p, t) \in Seq(DOMAIN Hash)
    BY <1>8, <2>2, AsksGiven
  <2>4. \A x \in Numbered(n) : (IF x.last THEN Asks(q[x.msg], p, t) ELSE <<>>) \in Seq(DOMAIN Hash)
    <3>1. <<>> \in Seq(DOMAIN Hash)
      OBVIOUS
    <3> QED BY <1>1, <2>3, <3>1
  <2> QED BY <1>4, <2>1, <2>4 DEF Gives
<1> HIDE DEF h, p, t, m
<1>10. Asks(m, p, t)[1] \in Of(Asks(m, p, t))
  <2>1. Len(Asks(m, p, t)) \in Nat
    BY <1>7, LenProperties
  <2> QED BY <1>7, <2>1 DEF Of
<1>11. Asks(m, p, t)[1] \in Of(Through(h, s)) /\ Through(h, s) \in Seq(DOMAIN Hash)
  <2> DEFINE N == Numbered(n)
             V == DOMAIN Hash
  <2>1. h \in Gives(N, V) /\ s \in Seq(N)
    BY <1>2, <1>9
  <2> HIDE DEF N, V
  <2>2. Through(h, s) \in Seq(V) /\ \A v : v \in Of(Through(h, s)) <=> \E j \in 1..Len(s) : v \in Of(h[s[j]])
    BY <2>1, ThroughOf, AmountLaws
  <2> QED BY <1>9, <1>10, <2>2 DEF V
<1>12. Len(Through(h, s)) > 0
  <2> DEFINE V == DOMAIN Hash
             y == Through(h, s)
  <2>1. y \in Seq(V) /\ y # <<>>
    BY <1>11, OfLaws
  <2> HIDE DEF V, y
  <2>2. Len(y) > 0
    BY <2>1, EmptySeq, LenProperties
  <2> QED BY <2>2 DEF y
<1> QED BY <1>8, <1>12 DEF Asked, h

(***************************************************************************)
(* What is on its way to an asynchronous context and from it.  Commands in *)
(* the output buffer will reach the server if the connection is alive.     *)
(***************************************************************************)
Incoming == Letters(c.inbuf \o down)
Open == peer \in {"up", "pending"}
Alive == c.err = "ok" /\ Open
Sending == Commands(up) \o IF Alive THEN Commands(c.obuf.chars) ELSE <<>>

\* No answer went astray, and none will by a MONITOR.
Tidy == ~Monitored /\ "overtaken" \notin faults /\ "mistaken" \notin faults

Everyone(a) == Ids(a.replies) \cup Ids(a.invalid)
Posts(w, l, x, a, s, subs, open, alive, mon, tidy) ==
    /\ Stamps(w, l, open, mon)
    /\ Flow(w, Answered(l) \o x, Everyone(a), alive, tidy)
    /\ tidy => Ordered(w, l, Answered(l) \o x, Ids(a.replies), subs)
    /\ News(l, a, s)
Posted ==
    pc \in Served =>
        /\ peer # "up" => up = <<>>
        /\ pc # "loop" => peer # "pending"
        /\ Posts(cmds, Incoming, Sending, ac, Has(c, "SUBSCRIBED"), server.subs, Open, Alive, Monitored, Tidy)

\* Who is waiting, and what for, is the same.
LEMMA SamePosts ==
    ASSUME NEW w, NEW l, NEW x, NEW a, NEW s, NEW subs, NEW open, NEW alive, NEW mon, NEW tidy,
           Posts(w, l, x, a, s, subs, open, alive, mon, tidy),
           NEW b, b.channels = a.channels, b.patterns = a.patterns,
           NEW s2, s => s2, NEW tidy2, tidy2 => tidy,
           tidy2 => Everyone(b) = Everyone(a) /\ Ids(b.replies) = Ids(a.replies)
    PROVE  Posts(w, l, x, b, s2, subs, open, alive, mon, tidy2)
<1>1. News(l, b, s2)
  BY DEF Posts, News, Told1, DictOf
<1>2. Flow(w, Answered(l) \o x, Everyone(b), alive, tidy2)
  <2> DEFINE z == Answered(l) \o x
  <2>1. Flow(w, z, Everyone(a), alive, tidy)
    BY DEF Posts
  <2> HIDE DEF z
  <2>2. Flow(w, z, Everyone(b), alive, tidy2)
    BY <2>1 DEF Flow
  <2> QED BY <2>2 DEF z
<1>3. tidy2 => Ordered(w, l, Answered(l) \o x, Ids(b.replies), subs)
  BY DEF Posts
<1> QED BY <1>1, <1>2, <1>3 DEF Posts

LEMMA SamePosted ==
    ASSUME Posted, pc \in Served, pc' \in Served, cmds' = cmds, peer' = peer,
           Incoming' = Incoming, Sending' = Sending, Alive' <=> Alive,
           peer' # "up" => up' = <<>>, pc' # "loop" => peer' # "pending",
           ac'.channels = ac.channels, ac'.patterns = ac.patterns, server'.subs = server.subs,
           Has(c, "SUBSCRIBED") => Has(c', "SUBSCRIBED"), faults \subseteq faults',
           Monitored \/ (ac'.replies = ac.replies /\ ac'.invalid = ac.invalid)
    PROVE  Posted'
<1>1. PICK w, l, x, a, s, subs, open, alive, mon, tidy :
        /\ w = cmds /\ l = Incoming /\ x = Sending /\ a = ac /\ s = Has(c, "SUBSCRIBED") /\ subs = server.subs
        /\ open = Open /\ alive = Alive /\ mon = Monitored /\ tidy = Tidy
  OBVIOUS
<1>2. Posts(w, l, x, a, s, subs, open, alive, mon, tidy)
  BY <1>1 DEF Posted
<1>3. PICK b, s2, tidy2 : b = ac' /\ s2 = Has(c, "SUBSCRIBED")' /\ tidy2 = Tidy'
  OBVIOUS
<1>4. Monitored' = Monitored
  BY DEF Monitored
<1>5. b.channels = a.channels /\ b.patterns = a.patterns /\ (s => s2) /\ (tidy2 => tidy)
  <2>1. Has(c, "SUBSCRIBED")' = Has(c', "SUBSCRIBED")
    BY DEF Has
  <2> QED BY <1>1, <1>3, <1>4, <2>1 DEF Tidy
<1>6. tidy2 => Everyone(b) = Everyone(a) /\ Ids(b.replies) = Ids(a.replies)
  <2>1. tidy2 => b.replies = a.replies /\ b.invalid = a.invalid
    BY <1>1, <1>3, <1>4 DEF Tidy
  <2> QED BY <2>1 DEF Everyone
<1>7. Posts(w, l, x, b, s2, subs, open, alive, mon, tidy2)
  BY <1>2, <1>5, <1>6, SamePosts, ZenonT(60)
<1>8. /\ w = cmds' /\ l = Incoming' /\ x = Sending' /\ b = ac' /\ s2 = Has(c, "SUBSCRIBED")'
      /\ subs = server.subs' /\ open = Open' /\ alive = Alive' /\ mon = Monitored' /\ tidy2 = Tidy'
  <2>1. Open' = Open
    BY DEF Open
  <2>2. alive = Alive'
    BY <1>1 DEF Alive
  <2> QED BY <1>1, <1>3, <1>4, <2>1, <2>2
<1> QED BY <1>7, <1>8 DEF Posted

(***************************************************************************)
(* The application and the events                                          *)
(***************************************************************************)
\* A step that only looks at flags, at an error or at who is waiting.
LEMMA NothingMoved ==
    ASSUME Posted, pc \in Served, pc' \in Served, cmds' = cmds, UNCHANGED <<peer, up, down, server>>,
           c'.inbuf = c.inbuf, c'.obuf = c.obuf, Alive' <=> Alive, pc' # "loop" => peer # "pending",
           ac'.channels = ac.channels, ac'.patterns = ac.patterns,
           Has(c, "SUBSCRIBED") => Has(c', "SUBSCRIBED"), faults \subseteq faults',
           Monitored \/ (ac'.replies = ac.replies /\ ac'.invalid = ac.invalid)
    PROVE  Posted'
<1>1. Incoming' = Incoming
  BY DEF Incoming, Letters
<1>2. Sending' = Sending
  BY DEF Sending, Commands
<1>3. peer' # "up" => up' = <<>>
  BY DEF Posted
<1> QED BY <1>1, <1>2, <1>3, SamePosted

LEMMA FlagsKeepErr ==
    ASSUME NEW n, NEW k \in Contexts(n)
    PROVE  /\ \A f : Set(k, f).err = k.err /\ Unset(k, f).err = k.err
           /\ \A e : SetError(k, e).err = e
BY DEF Set, Unset, SetError, Contexts

LEMMA FlagStepsPosted ==
    ASSUME Typed, Posted, pc \in Served, pc' \in Served,
           AppFree \/ AppDisconnect \/ ConnectCallbackReturns \/ CallbackReturns
    PROVE  Posted'
<1>1. c \in Contexts(issued)
  BY NowTyped
<1>2. /\ c' \in {Set(c, "FREEING"), Set(c, "DISCONNECTING"), c, Unset(c, "IN_CALLBACK")}
      /\ ac' = ac /\ Still /\ cmds' = cmds /\ faults' = faults
      /\ pc' = pc \/ pc \in {"connected", "callback"}
  <2>1. CASE AppFree
    BY <2>1, FreeingStops DEF AppFree, Quiet
  <2>2. CASE AppDisconnect
    BY <2>2, FreeingStops DEF AppDisconnect, Quiet
  <2>3. CASE ConnectCallbackReturns
    BY <2>3 DEF ConnectCallbackReturns, Quiet
  <2>4. CASE CallbackReturns
    <3>1. c' = Unset(c, "IN_CALLBACK") /\ pc = "callback" /\ ac' = ac /\ Still /\ cmds' = cmds /\ faults' = faults
      BY <2>4, FreeingStops DEF CallbackReturns, Quiet
    <3> QED BY <3>1
  <2> QED BY <2>1, <2>2, <2>3, <2>4
<1>3. Alike(c', c) /\ c'.err = c.err
  <2>1. Alike(Set(c, "FREEING"), c) /\ Alike(Set(c, "DISCONNECTING"), c) /\ Alike(Unset(c, "IN_CALLBACK"), c)
    BY <1>1, FlagsAlike
  <2>2. Alike(c, c)
    BY DEF Alike
  <2> QED BY <1>1, <1>2, <2>1, <2>2, FlagsKeepErr
<1>4. Alive' <=> Alive
  BY <1>2, <1>3 DEF Alive, Open, Still
<1>5. pc' # "loop" => peer # "pending"
  BY <1>2 DEF Posted
<1> QED BY <1>2, <1>3, <1>4, <1>5, NothingMoved DEF Alike, Still

LEMMA ReadEventPosted ==
    ASSUME Typed, Heard, Posted, pc \in Served, pc' \in Served, cmds' = cmds,
           NEW a \in AsyncContexts, SameQueues(a), ReadEvent(c, a)
    PROVE  Posted'
<1>1. c \in Contexts(issued) /\ down \in Seq(PieceOf(AnyMessage)) /\ pc \in InLoop
  BY NowTyped DEF Served, InLoop
<1>2. PICK n \in 1..Len(down) : /\ c' = [c EXCEPT !.inbuf = @ \o SubSeq(down, 1, n)]
                                /\ down' = SubSeq(down, n + 1, Len(down))
                                /\ ac' = [a EXCEPT !.ev = @ \cup {"read"}]
                                /\ UNCHANGED <<peer, up, server, faults>>
  BY FreeingStops DEF ReadEvent
<1> DEFINE x == SubSeq(down, 1, n)
           y == SubSeq(down, n + 1, Len(down))
<1>3. x \in Seq(PieceOf(AnyMessage)) /\ y \in Seq(PieceOf(AnyMessage)) /\ x \o y = down /\ n \in Nat
  BY <1>1, TakenApart
<1>4. c'.obuf = c.obuf /\ c'.inbuf = c.inbuf \o x /\ c'.flags = c.flags /\ c'.err = c.err
  BY <1>1, <1>2 DEF Contexts
<1>5. SameQueues(ac')
  BY <1>2 DEF AsyncContexts, SameQueues
<1>6. c.inbuf \in Seq(PieceOf(AnyMessage)) /\ down' = y
  BY <1>1, <1>2 DEF Contexts
<1>7. c'.inbuf \o down' = c.inbuf \o down
  <2> HIDE DEF x, y
  <2>1. (c.inbuf \o x) \o y = c.inbuf \o (x \o y)
    <3> DEFINE S == PieceOf(AnyMessage)
               b == c.inbuf
    <3>1. b \in Seq(S) /\ x \in Seq(S) /\ y \in Seq(S)
      BY <1>3, <1>6
    <3> HIDE DEF S, b
    <3> (b \o x) \o y = b \o (x \o y)
      BY <3>1, ConcatAssociative, SMTT(60)
    <3> QED BY DEF b
  <2> QED BY <1>3, <1>4, <1>6, <2>1
<1>8. peer # "pending"
  <2>1. down # <<>>
    <3> SUFFICES ASSUME down = <<>> PROVE FALSE
      OBVIOUS
    <3>1. Len(down) = 0
      OBVIOUS
    <3> QED BY <3>1
  <2> QED BY <2>1 DEF Heard
<1> HIDE DEF x, y
<1>9. Alive' <=> Alive
  BY <1>2, <1>4 DEF Alive, Open
<1>10. Incoming' = Incoming
  BY <1>7 DEF Incoming, Letters
<1>11. Sending' = Sending
  BY <1>2, <1>4, <1>9 DEF Sending, Commands
<1>12. peer' # "up" => up' = <<>>
  BY <1>2 DEF Posted
<1>13. Has(c, "SUBSCRIBED") => Has(c', "SUBSCRIBED")
  BY <1>4 DEF Has
<1> QED BY <1>2, <1>5, <1>8, <1>9, <1>10, <1>11, <1>12, <1>13, SamePosted DEF SameQueues

\* Commands in the buffers as they would be without bounds.
LEMMA NumberedCommands ==
    ASSUME NEW n
    PROVE  /\ Seq(Numbered(n)) \subseteq Seq(PieceOf(1..n))
           /\ n \in Nat => Seq(Numbered(n)) \subseteq Seq(PieceOf(Nat))
<1>1. Numbered(n) = PieceOf(1..n) /\ (n \in Nat => PieceOf(1..n) \subseteq PieceOf(Nat))
  BY DEF Numbered, PieceOf
<1> DEFINE X == PieceOf(1..n)
           Y == PieceOf(Nat)
<1> HIDE DEF X, Y
<1>2. Numbered(n) = X /\ (n \in Nat => X \subseteq Y)
  BY <1>1 DEF X, Y
<1> QED BY <1>2 DEF X, Y

LEMMA WriteEventPosted ==
    ASSUME Typed, Heard, Posted, pc \in Served, pc' \in Served, cmds' = cmds,
           NEW a \in AsyncContexts, SameQueues(a), peer # "pending", WriteEvent(c, a)
    PROVE  Posted'
<1>1. c \in Contexts(issued) /\ pc \in InLoop /\ issued \in Nat
  BY NowTyped DEF Served, InLoop
<1>2. PICK n \in 0..c.obuf.len :
        /\ c' = [c EXCEPT !.obuf = Sent(n).obuf] /\ up' = Arrives(n)
        /\ ac' = [a EXCEPT !.ev = (@ \ {"write"}) \cup {"read"} \cup
                                    IF n < c.obuf.len THEN {"write"} ELSE {}]
        /\ UNCHANGED <<peer, down, server, faults>>
  BY FreeingStops DEF WriteEvent
<1> DEFINE s == c.obuf.chars
           x == SubSeq(s, 1, n)
           y == SubSeq(s, n + 1, Len(s))
           P == PieceOf(Nat)
<1>3. c'.obuf.chars = y /\ c'.inbuf = c.inbuf /\ c'.flags = c.flags /\ c'.err = c.err
  <2>1. c'.obuf = Sent(n).obuf /\ c'.inbuf = c.inbuf /\ c'.flags = c.flags /\ c'.err = c.err
    BY <1>1, <1>2 DEF Contexts
  <2> QED BY <2>1, SentChars
<1>4. SameQueues(ac')
  BY <1>2 DEF AsyncContexts, SameQueues
<1>5. s \in Seq(P) /\ up \in Seq(P) /\ c.obuf.len = Len(s)
  BY <1>1, StreamsTyped, NumberedCommands
<1>6. x \in Seq(P) /\ y \in Seq(P) /\ x \o y = s
  <2> HIDE DEF s, P
  <2> QED BY <1>5, TakenApart
<1>7. up' = IF peer = "up" THEN up \o x ELSE up
  BY <1>2 DEF Arrives
<1>8. c'.inbuf \o down' = c.inbuf \o down
  BY <1>2, <1>3
<1>9. Alive' <=> Alive
  BY <1>2, <1>3 DEF Alive, Open
<1>10. Incoming' = Incoming
  BY <1>8 DEF Incoming, Letters
<1>11. Sending' = Sending
  <2>0. Sending' = Commands(up') \o IF Alive THEN Commands(y) ELSE <<>>
    BY <1>3, <1>9 DEF Sending, Commands
  <2> HIDE DEF s, x, y
  <2>1. CASE peer = "up"
    <3>1. Commands(up \o x) = Commands(up) \o Commands(x) /\ Commands(s) = Commands(x) \o Commands(y)
      BY <1>5, <1>6, CommandsConcat
    <3>2. (Commands(up) \o Commands(x)) \o Commands(y) = Commands(up) \o (Commands(x) \o Commands(y))
      <4> DEFINE f == Commands(up)
                 g == Commands(x)
                 h == Commands(y)
      <4>1. f \in Seq(Nat) /\ g \in Seq(Nat) /\ h \in Seq(Nat)
        BY <1>5, <1>6, CommandsType
      <4> HIDE DEF f, g, h
      <4>2. (f \o g) \o h = f \o (g \o h)
        BY <4>1, NumbersAssociate
      <4> QED BY <4>2 DEF f, g, h
    <3>3. up' = up \o x
      BY <1>7, <2>1
    <3>4. Alive
      \/ ~Alive
      OBVIOUS
    <3>5. CASE Alive
      <4>1. Sending' = Commands(up \o x) \o Commands(y)
        BY <2>0, <3>3, <3>5
      <4>2. Sending = Commands(up) \o Commands(s)
        BY <3>5 DEF Sending, s
      <4> QED BY <3>1, <3>2, <4>1, <4>2
    <3>6. CASE ~Alive
      <4>1. c.err # "ok"
        BY <2>1, <3>6 DEF Alive, Open
      <4>2. FALSE
        BY <4>1, FreeingStops DEF WriteEvent
      <4> QED BY <4>2
    <3> QED BY <3>5, <3>6
  <2>2. CASE peer # "up"
    <3>1. up' = up /\ ~Alive
      BY <1>7, <2>2 DEF Alive, Open
    <3> QED BY <2>0, <3>1 DEF Sending
  <2> QED BY <2>1, <2>2, ZenonT(60)
<1>12. peer' # "up" => up' = <<>>
  BY <1>2, <1>7 DEF Posted
<1>13. Has(c, "SUBSCRIBED") => Has(c', "SUBSCRIBED")
  BY <1>3 DEF Has
<1>14. pc' # "loop" => peer' # "pending"
  BY <1>2
<1> QED BY <1>2, <1>4, <1>9, <1>10, <1>11, <1>12, <1>13, <1>14, SamePosted DEF SameQueues

LEMMA EventsPosted ==
    ASSUME Typed, Control, Heard, Posted, pc \in Served, pc' \in Served,
           HandleRead \/ HandleWrite \/ HandleEvent
    PROVE  Posted'
<1>1. c \in Contexts(issued) /\ ac \in AsyncContexts
  BY NowTyped
<1>2. cmds' = cmds
  BY DEF HandleRead, HandleWrite, HandleEvent, Quiet
<1>3. \A ev \in SUBSET {"read", "write"} :
         [ac EXCEPT !.ev = ev] \in AsyncContexts /\ SameQueues([ac EXCEPT !.ev = ev])
  BY <1>1 DEF AsyncContexts, SameQueues
<1>4. SameQueues(ac) /\ ac.ev \in SUBSET {"read", "write"}
  BY <1>1 DEF SameQueues, AsyncContexts
<1>5. ASSUME NEW a \in AsyncContexts, SameQueues(a), ReadEvent(c, a) \/ (WriteEvent(c, a) /\ peer # "pending")
      PROVE  Posted'
  BY <1>2, <1>5, ReadEventPosted, WriteEventPosted
<1>6. ASSUME NEW then, NEW a, SameQueues(a), FirstEvent(then, a), peer # "pending"
      PROVE  Posted'
  <2>1. /\ c' = IF peer = "refused" THEN SetError(c, "io") ELSE Set(c, "CONNECTED")
        /\ ac' = a /\ Still /\ faults' = faults
    BY <1>6 DEF FirstEvent
  <2>2. Alike(c', c)
    <3>1. Alike(SetError(c, "io"), c) /\ Alike(Set(c, "CONNECTED"), c)
      BY <1>1, FlagsAlike
    <3> QED BY <2>1, <3>1
  <2>3. Alive' <=> Alive
    <3>1. CASE peer = "refused"
      BY <2>1, <3>1 DEF Alive, Open, Still
    <3>2. CASE peer # "refused"
      <4>1. c'.err = c.err
        BY <1>1, <2>1, <3>2, FlagsKeepErr
      <4> QED BY <2>1, <4>1 DEF Alive, Open, Still
    <3> QED BY <3>1, <3>2
  <2> QED BY <1>2, <1>6, <2>1, <2>2, <2>3, NothingMoved DEF Alike, Still, SameQueues
<1>7. CASE HandleRead
  <2> DEFINE a == [ac EXCEPT !.ev = @ \ {"read"}]
  <2>1. a \in AsyncContexts /\ SameQueues(a)
    BY <1>3, <1>4
  <2>2. ReadEvent(c, a) \/ FirstEvent("read", a)
    BY <1>7 DEF HandleRead
  <2>3. peer # "pending"
    BY <1>7 DEF HandleRead, Heard
  <2> HIDE DEF a
  <2> QED BY <1>5, <1>6, <2>1, <2>2, <2>3
<1>8. CASE HandleWrite
  <2> DEFINE a == [ac EXCEPT !.ev = @ \ {"write"}]
  <2>1. a \in AsyncContexts /\ SameQueues(a)
    BY <1>3, <1>4
  <2>2. (WriteEvent(c, a) \/ FirstEvent("write", a)) /\ peer # "pending"
    BY <1>8 DEF HandleWrite
  <2> HIDE DEF a
  <2> QED BY <1>5, <1>6, <2>1, <2>2
<1>9. CASE HandleEvent
  <2>1. pc = "event" /\ frame.then \in {"abort", "read", "write"}
    BY <1>9 DEF HandleEvent, Control, Resumes
  <2>2. Disconnect(c, ac) \/ ReadEvent(c, ac) \/ WriteEvent(c, ac)
    BY <1>9, <2>1 DEF HandleEvent
  <2>3. ReadEvent(c, ac) \/ WriteEvent(c, ac)
    BY <2>2, FreeingStops
  <2>4. peer # "pending"
    BY <2>1 DEF Posted
  <2> QED BY <1>1, <1>4, <1>5, <2>3, <2>4
<1> QED BY <1>7, <1>8, <1>9

(***************************************************************************)
(* A message is read                                                       *)
(***************************************************************************)
\* It is news and goes to whom it may concern, or the oldest of all that wait
\* takes it, or nobody waits for an answer.
Unclaimed(m, a, b) ==
    /\ Everyone(b) = Everyone(a) /\ Ids(b.replies) = Ids(a.replies)
    /\ Ids(a.replies) = {} /\ m.op \in Kinds
Claimed(m, a, b, k) ==
    /\ k \in Everyone(a) /\ \A j \in Everyone(a) : j = k \/ k < j
    /\ Everyone(b) = Everyone(a) \ {k} /\ Ids(b.replies) = Ids(a.replies) \ {k}
    /\ m.op \notin {"unsubscribe", "garbage"}
    /\ Ids(a.replies) # {} \/ m.op \in {"answer", "line"}
Nobodys(m, a) == Everyone(a) = {} /\ m.op \in {"answer", "line"}

Dealt(m, a, b) == Unclaimed(m, a, b) \/ (\E k : Claimed(m, a, b, k)) \/ Nobodys(m, a)

\* Whoever takes it has asked for it, or it is an error that nobody asked for.
Fits(m, a, b) ==
    /\ ~Nobodys(m, a)
    /\ \A k : Claimed(m, a, b, k) => m.op \in {"answer", "error"} /\ m.req \in {k, 0}

Took(w, m, l, x, a, b, s, subs, open, alive, mon, tidy) ==
    Posts(w, l, x, b, s, subs, open, alive, mon, tidy) /\ (tidy => Fits(m, a, b))

LEMMA TakenPosts ==
    ASSUME NEW w, NEW m \in AnyMessage, NEW l \in Seq(AnyMessage), NEW x \in Seq(Nat), NEW a, NEW s, NEW subs,
           NEW open, NEW alive, NEW mon, NEW tidy,
           Posts(w, <<m>> \o l, x, a, s, subs, open, alive, mon, tidy),
           alive => open, ~open => x = <<>>, tidy => ~mon /\ \A k \in 1..Len(w) : w[k].op # "monitor",
           Everyone(a) \subseteq Nat,
           NEW b, NEW s2, NEW tidy2, tidy2 => tidy, News(l, b, s2),
           tidy2 => Dealt(m, a, b)
    PROVE  Took(w, m, l, x, a, b, s2, subs, open, alive, mon, tidy2)
<1> DEFINE e == <<m>>
           y == Answered(l) \o x
           z == Answered(e \o l) \o x
           q == Everyone(a)
           r == Ids(a.replies)
<1>0. tidy2 => \/ Unclaimed(m, a, b) \/ (\E k : Claimed(m, a, b, k)) \/ Nobodys(m, a)
  BY DEF Dealt
<1>1. Stamps(w, l, open, mon) /\ Stamped(w, m, l = <<>> /\ ~open, mon)
  BY TakenStamps DEF Posts
<1>2. Answered(l) \in Seq(Nat) /\ AnswersOf(m) \in Seq(Nat) /\ y \in Seq(Nat) /\ z = AnswersOf(m) \o y
  <2>1. e \in Seq(AnyMessage)
    <3> DEFINE M == AnyMessage
    <3>1. m \in M
      OBVIOUS
    <3> HIDE DEF M
    <3> QED BY <3>1
  <2> HIDE DEF e
  <2>2. Answered(e \o l) = Answered(e) \o Answered(l) /\ Answered(l) \in Seq(Nat)
    BY <2>1, AnsweredLaws
  <2>3. Answered(e) = AnswersOf(m) /\ AnswersOf(m) \in Seq(Nat)
    BY AnsweredLaws DEF e
  <2> DEFINE f == AnswersOf(m)
             g == Answered(l)
  <2>4. f \in Seq(Nat) /\ g \in Seq(Nat) /\ z = (f \o g) \o x
    BY <2>2, <2>3
  <2> HIDE DEF f, g, z
  <2>5. (f \o g) \o x = f \o (g \o x) /\ g \o x \in Seq(Nat)
    BY <2>4, ConcatAssociative, ConcatProperties, SMTT(60)
  <2> QED BY <2>2, <2>3, <2>4, <2>5 DEF f, g
<1>3. Flow(w, z, q, alive, tidy) /\ (tidy => Ordered(w, e \o l, z, r, subs))
  BY DEF Posts
<1>4. m.op \in {"answer", "error", "line", "garbage"} \cup Kinds /\ m.req \in Nat
  BY DEF AnyMessage
<1>5. r \subseteq q
  BY DEF Everyone
<1>6. Of(y) \subseteq Of(z)
  <2> DEFINE f == AnswersOf(m)
  <2>1. f \in Seq(Nat) /\ y \in Seq(Nat) /\ z = f \o y
    BY <1>2
  <2> HIDE DEF f, y, z
  <2>2. Of(f \o y) = Of(f) \cup Of(y)
    BY <2>1, OfLaws
  <2> QED BY <2>1, <2>2
<1>7. ASSUME tidy2, NEW r2, r2 \subseteq r, \A k \in r2 : AnswersOf(m) # <<k>>
      PROVE  Ordered(w, l, y, r2, subs) /\ (m.op \in {"subscribe", "message"} => r = {})
  <2>1. Ordered(w, <<m>> \o l, z, r, subs)
    BY <1>3, <1>7
  <2> HIDE DEF y, z, r
  <2> QED BY <1>6, <1>7, <2>1, TakenOrdered
<1> HIDE DEF y, z, e
<1>8. CASE m.op \in {"answer", "error"} /\ m.req # 0
  <2> DEFINE k == m.req
  <2>1. AnswersOf(m) = <<k>> /\ k \in Nat /\ w[k].op \in {"get", "monitor"}
    BY <1>1, <1>4, <1>8 DEF AnswersOf, Stamped
  <2>2. /\ Flow(w, y, q \ {k}, alive, tidy2)
        /\ k \in 1..Len(w)
        /\ (tidy /\ w[k].op = "get") => k \in q /\ \A j \in q : j = k \/ k < j
    <3> HIDE DEF k, q
    <3>1. Flow(w, <<k>> \o y, q, alive, tidy)
      BY <1>2, <1>3, <2>1
    <3> QED BY <1>2, <2>1, <3>1, FlowTakes
  <2> HIDE DEF k
  <2>3. tidy2 => k \in q /\ \A j \in q : j = k \/ k < j
    BY <2>1, <2>2
  <2>4. tidy2 => ~Nobodys(m, a) /\ ~Unclaimed(m, a, b)
    BY <1>8, <2>3 DEF Nobodys, Unclaimed, Kinds
  <2>5. tidy2 => \A j : Claimed(m, a, b, j) => j = k
    <3> SUFFICES ASSUME tidy2, NEW j, Claimed(m, a, b, j) PROVE j = k
      OBVIOUS
    <3>1. j \in q /\ (k = j \/ j < k) /\ (j = k \/ k < j)
      BY <2>3 DEF Claimed
    <3>2. j \in Nat
      BY <3>1
    <3> QED BY <2>1, <3>1, <3>2
  <2>6. tidy2 => Claimed(m, a, b, k)
    BY <1>0, <2>4, <2>5
  <2>7. Flow(w, y, Everyone(b), alive, tidy2)
    <3>1. tidy2 => Everyone(b) = q \ {k}
      BY <2>6 DEF Claimed
    <3> QED BY <2>2, <3>1 DEF Flow
  <2>8. tidy2 => Ordered(w, l, y, Ids(b.replies), subs)
    <3> SUFFICES ASSUME tidy2 PROVE Ordered(w, l, y, Ids(b.replies), subs)
      OBVIOUS
    <3>1. Ids(b.replies) = r \ {k}
      BY <2>6 DEF Claimed
    <3>2. \A j \in r \ {k} : <<k>> # <<j>>
      OBVIOUS
    <3> QED BY <1>7, <2>1, <3>1, <3>2
  <2>9. Posts(w, l, x, b, s2, subs, open, alive, mon, tidy2)
    BY <1>1, <2>7, <2>8 DEF Posts, y
  <2>10. tidy2 => Fits(m, a, b)
    BY <1>8, <2>4, <2>5 DEF Fits, k
  <2> QED BY <2>9, <2>10 DEF Took
<1>9. CASE ~(m.op \in {"answer", "error"} /\ m.req # 0)
  <2>1. AnswersOf(m) = <<>> /\ z = y
    <3>1. AnswersOf(m) = <<>>
      BY <1>9 DEF AnswersOf
    <3> QED BY <1>2, <3>1, ConcatEmptySeq
  <2>2. \A k : <<>> # <<k>>
    OBVIOUS
  <2>3. m.op = "answer" => FALSE
    BY <1>1, <1>9 DEF Stamped
  <2>4. tidy2 => m.op # "line"
    BY <1>1 DEF Stamped
  <2>5. tidy2 => ~Nobodys(m, a)
    BY <2>3, <2>4 DEF Nobodys
  <2>6. tidy2 => (m.op \in {"subscribe", "message"} => r = {})
    BY <1>7, <2>1, <2>2
  <2>7. tidy2 => \A k : Claimed(m, a, b, k) => m.op = "error" /\ m.req = 0 /\ l = <<>> /\ ~open
    <3>1. tidy2 => \A k : Claimed(m, a, b, k) => m.op = "error"
      BY <1>4, <2>3, <2>4, <2>6 DEF Claimed, Kinds
    <3> QED BY <1>1, <1>9, <3>1 DEF Stamped
  <2>8. Flow(w, y, Everyone(b), alive, tidy2)
    <3>1. CASE tidy2 /\ Unclaimed(m, a, b)
      BY <1>3, <2>1, <3>1 DEF Flow, Unclaimed
    <3>2. CASE tidy2 /\ \E k : Claimed(m, a, b, k)
      <4>1. l = <<>> /\ ~open /\ x = <<>>
        BY <2>7, <3>2
      <4>2. y = <<>>
        <5>1. y = <<>> \o <<>>
          BY <4>1, AnsweredLaws DEF y
        <5> QED BY <5>1
      <4>3. Of(y) = {} /\ Rising(y)
        BY <4>2, OfLaws
      <4>4. ~alive
        BY <4>1
      <4> QED BY <4>3, <4>4 DEF Flow
    <3>3. CASE ~tidy2
      BY <1>3, <2>1, <3>3 DEF Flow
    <3> QED BY <1>0, <2>5, <3>1, <3>2, <3>3
  <2>9. tidy2 => Ordered(w, l, y, Ids(b.replies), subs)
    <3> SUFFICES ASSUME tidy2 PROVE Ordered(w, l, y, Ids(b.replies), subs)
      OBVIOUS
    <3>1. Ids(b.replies) \subseteq r
      BY <1>0, <2>5 DEF Claimed, Unclaimed
    <3> QED BY <1>7, <2>1, <2>2, <3>1
  <2>10. Posts(w, l, x, b, s2, subs, open, alive, mon, tidy2)
    BY <1>1, <2>8, <2>9 DEF Posts, y
  <2>11. tidy2 => Fits(m, a, b)
    BY <2>5, <2>7 DEF Fits
  <2> QED BY <2>10, <2>11 DEF Took
<1> QED BY <1>8, <1>9

\* A topic whose subscription ends, and is not to be made anew, has no news to
\* come.
LEMMA RestNews ==
    ASSUME NEW m \in AnyMessage, NEW u \in Seq(PieceOf(AnyMessage)), NEW a, NEW s,
           News(<<m>> \o Letters(u), a, s), NEW b, NEW s2,
           \A i \in 1..Len(Letters(u)) : Letters(u)[i].op = "message" => Letters(u)[i].topic \in DOMAIN Hash,
           \A p \in BOOLEAN, t \in DOMAIN Hash :
              s /\ dictHas(DictOf(a, p), t) =>
                (s2 /\ dictHas(DictOf(b, p), t)) \/ About(m, "unsubscribe", p, t),
           \A p \in BOOLEAN, t \in DOMAIN Hash : Said(p, t, u) > 0 => s2 /\ dictHas(DictOf(b, p), t)
    PROVE  News(Letters(u), b, s2)
<1> DEFINE l == Letters(u)
<1>1. l \in Seq(AnyMessage)
  BY LettersLaws
<1>2. \A i \in 1..Len(l) : l[i].op = "message" =>
                /\ Told1(l[i], a, s) /\ Settled(l, i, l[i].pattern, l[i].topic)
                /\ About(m, "unsubscribe", l[i].pattern, l[i].topic) =>
                     \E j \in 1..Len(l) : About(l[j], "subscribe", l[i].pattern, l[i].topic)
  <2>1. News(<<m>> \o l, a, s)
    OBVIOUS
  <2> HIDE DEF l
  <2> QED BY <1>1, <2>1, TakenNews
<1> SUFFICES ASSUME NEW i \in 1..Len(l), l[i].op = "message"
             PROVE  Told1(l[i], b, s2) /\ Settled(l, i, l[i].pattern, l[i].topic)
  BY DEF News
<1> DEFINE p == l[i].pattern
           t == l[i].topic
<1>3. p \in BOOLEAN /\ t \in DOMAIN Hash
  <2>1. l[i] \in AnyMessage
    BY <1>1, ElementOfSeq
  <2> QED BY <2>1, NoticeTyped
<1>4. s /\ dictHas(DictOf(a, p), t)
  BY <1>2 DEF Told1
<1>5. CASE About(m, "unsubscribe", p, t)
  <2>1. PICK j \in 1..Len(l) : About(l[j], "subscribe", p, t)
    BY <1>2, <1>5
  <2>2. Said(p, t, u) > 0
    BY <1>3, <2>1, SaidLetter
  <2> QED BY <1>2, <1>3, <2>2 DEF Told1
<1>6. CASE ~About(m, "unsubscribe", p, t)
  BY <1>2, <1>3, <1>4, <1>6 DEF Told1
<1> QED BY <1>5, <1>6

LEMMA SendingTyped ==
    ASSUME Typed, Posted, pc \in Served
    PROVE  /\ Sending \in Seq(Nat) /\ (~Open => Sending = <<>>)
           /\ Commands(up) \in Seq(Nat) /\ Commands(c.obuf.chars) \in Seq(Nat)
           /\ Commands(<<>>) = <<>> /\ issued \in Nat
           /\ up \in Seq(PieceOf(Nat)) /\ c.obuf.chars \in Seq(PieceOf(Nat))
<1>1. up \in Seq(PieceOf(Nat)) /\ c.obuf.chars \in Seq(PieceOf(Nat)) /\ issued \in Nat
  BY StreamsTyped, NumberedCommands, NowTyped
<1>2. Commands(up) \in Seq(Nat) /\ Commands(c.obuf.chars) \in Seq(Nat) /\ Commands(<<>>) = <<>>
  BY <1>1, CommandsType
<1>3. Sending \in Seq(Nat)
  <2> DEFINE f == Commands(up)
             g == IF Alive THEN Commands(c.obuf.chars) ELSE <<>>
  <2>1. f \in Seq(Nat) /\ g \in Seq(Nat)
    BY <1>2
  <2> HIDE DEF f, g
  <2>2. f \o g \in Seq(Nat)
    BY <2>1, ConcatProperties
  <2> QED BY <2>2 DEF Sending, f, g
<1>4. ~Open => Sending = <<>>
  <2> SUFFICES ASSUME ~Open PROVE Sending = <<>>
    OBVIOUS
  <2>1. up = <<>> /\ ~Alive
    BY DEF Posted, Open, Alive
  <2>2. Sending = <<>> \o <<>>
    BY <1>2, <2>1 DEF Sending
  <2> QED BY <2>2
<1> QED BY <1>1, <1>2, <1>3, <1>4

\* What is on its way to a context that has a message.
LEMMA IncomingIs ==
    ASSUME Typed
    PROVE  /\ Incoming \in Seq(AnyMessage)
           /\ Whole(c.inbuf) =>
                /\ Msg \in AnyMessage /\ Behind(c.inbuf) \in Seq(PieceOf(AnyMessage))
                /\ Behind(c.inbuf) \o down \in Seq(PieceOf(AnyMessage))
                /\ Incoming = <<Msg>> \o Letters(Behind(c.inbuf) \o down)
<1> DEFINE P == PieceOf(AnyMessage)
           b == c.inbuf
           r == Behind(b)
<1>1. b \in Seq(P) /\ down \in Seq(P) /\ b \o down \in Seq(P)
  BY StreamsTyped
<1>2. Incoming \in Seq(AnyMessage)
  <2> HIDE DEF P, b
  <2>1. Letters(b \o down) \in Seq(AnyMessage)
    BY <1>1, LettersLaws DEF P
  <2> QED BY <2>1 DEF Incoming, b
<1>3. ASSUME Whole(b)
      PROVE  Msg \in AnyMessage /\ r \in Seq(P) /\ r \o down \in Seq(P) /\ Incoming = <<Msg>> \o Letters(r \o down)
  <2>1. First(b) \in AnyMessage /\ r \in Seq(P)
    BY <1>1, <1>3, BehindTyped
  <2> DEFINE y == <<First(b)>>
  <2>2. y \in Seq(AnyMessage)
    <3> DEFINE m == First(b)
               M == AnyMessage
    <3>1. m \in M
      BY <2>1
    <3> HIDE DEF m, M
    <3>2. <<m>> \in Seq(M)
      BY <3>1
    <3> QED BY <3>2 DEF m, M
  <2>3. Letters(b) = y \o Letters(r)
    <3> HIDE DEF b, r
    <3>1. b \in Seq(PieceOf(AnyMessage))
      BY <1>1
    <3> QED BY <1>3, <3>1, LettersLaws DEF r
  <2> HIDE DEF y, b, r
  <2>4. r \o down \in Seq(P)
    <3> HIDE DEF P
    <3> QED BY <1>1, <2>1, ConcatProperties
  <2>5. Letters(b \o down) = Letters(b) \o Letters(down) /\ Letters(r \o down) = Letters(r) \o Letters(down)
    BY <1>1, <2>1, LettersLaws
  <2>6. (y \o Letters(r)) \o Letters(down) = y \o (Letters(r) \o Letters(down))
    <3> DEFINE M == AnyMessage
               f == Letters(r)
               g == Letters(down)
    <3>1. f \in Seq(M) /\ g \in Seq(M) /\ y \in Seq(M)
      BY <1>1, <2>1, <2>2, LettersLaws
    <3> HIDE DEF M, f, g
    <3>2. (y \o f) \o g = y \o (f \o g)
      BY <3>1, ConcatAssociative, SMTT(60)
    <3> QED BY <3>2 DEF f, g
  <2>7. Incoming = y \o Letters(r \o down)
    BY <2>3, <2>5, <2>6 DEF Incoming, b
  <2> QED BY <2>1, <2>4, <2>7 DEF Msg, y, b
<1> QED BY <1>2, <1>3

\* A message is taken out of the reader, and somebody or nobody is given it.
LEMMA MessagePosted ==
    ASSUME Typed, Heard, Heard', Posted, pc = "process", pc' \in Served, Whole(c.inbuf), cmds' = cmds,
           UNCHANGED <<peer, up, down, server>>,
           c'.inbuf = Behind(c.inbuf), c'.obuf = c.obuf, c'.err = c.err, faults \subseteq faults',
           \A p \in BOOLEAN, t \in DOMAIN Hash :
              Has(c, "SUBSCRIBED") /\ dictHas(DictOf(ac, p), t) =>
                (Has(c', "SUBSCRIBED") /\ dictHas(DictOf(ac', p), t)) \/ About(Msg, "unsubscribe", p, t),
           Tidy' => Dealt(Msg, ac, ac')
    PROVE  /\ Posted'
           /\ Tidy' => Fits(Msg, ac, ac')
<1> DEFINE v == Behind(c.inbuf) \o down
<1>1. PICK u : u = v
  OBVIOUS
<1>2. PICK w, l, x, a, s, subs, open, alive, mon, tidy :
        /\ w = cmds /\ l = Letters(u) /\ x = Sending /\ a = ac /\ s = Has(c, "SUBSCRIBED") /\ subs = server.subs
        /\ open = Open /\ alive = Alive /\ mon = Monitored /\ tidy = Tidy
  OBVIOUS
<1>3. PICK m : m = Msg
  OBVIOUS
<1>4. PICK b, s2, tidy2 : b = ac' /\ s2 = Has(c, "SUBSCRIBED")' /\ tidy2 = Tidy'
  OBVIOUS
<1>5. m \in AnyMessage /\ u \in Seq(PieceOf(AnyMessage)) /\ Incoming = <<m>> \o l
  BY <1>1, <1>2, <1>3, IncomingIs
<1>6. l \in Seq(AnyMessage)
  BY <1>2, <1>5, LettersLaws
<1>7. Posts(w, <<m>> \o l, x, a, s, subs, open, alive, mon, tidy)
  BY <1>2, <1>5 DEF Posted, Served
<1>8. Monitored' = Monitored
  BY DEF Monitored
<1>9. (tidy2 => tidy) /\ s2 = Has(c', "SUBSCRIBED")
  BY <1>2, <1>4, <1>8 DEF Tidy, Has
<1>10. x \in Seq(Nat) /\ (~open => x = <<>>) /\ (alive => open)
  BY <1>2, SendingTyped DEF Alive, Served
<1>11. tidy => ~mon /\ \A k \in 1..Len(w) : w[k].op # "monitor"
  <2>1. DOMAIN cmds = 1..Len(cmds)
    <3>1. cmds \in Seq(CommandType)
      BY DEF Typed, Answering
    <3> QED BY <3>1, LenProperties
  <2> QED BY <1>2, <2>1 DEF Tidy, Monitored
<1>12. Everyone(a) \subseteq Nat
  <2>1. ac.replies \in Seq(Callbacks) /\ ac.invalid \in Seq(Callbacks)
    BY NowTyped DEF AsyncContexts
  <2>2. \A q \in Seq(Callbacks) : Ids(q) \subseteq Nat
    <3> TAKE q \in Seq(Callbacks)
    <3>1. \A i \in 1..Len(q) : q[i] \in Callbacks
      BY ElementOfSeq
    <3> QED BY <3>1 DEF Ids, Callbacks
  <2> QED BY <1>2, <2>1, <2>2 DEF Everyone
<1>13. \A p \in BOOLEAN, t \in DOMAIN Hash : Said(p, t, u) > 0 => s2 /\ dictHas(DictOf(b, p), t)
  <2> SUFFICES ASSUME NEW p \in BOOLEAN, NEW t \in DOMAIN Hash, Said(p, t, u) > 0
               PROVE  s2 /\ dictHas(DictOf(b, p), t)
    OBVIOUS
  <2>1. PICK n \in Nat : n = Asked(cmds, p, t, up \o c.obuf.chars)
    BY OwedTyped DEF InLoop
  <2>2. PICK i : i = Said(p, t, u)
    OBVIOUS
  <2>3. i \in Nat /\ i > 0
    <3> HIDE DEF v
    <3> QED BY <1>5, <2>2, SaidLaws
  <2>4. n + i > 0
    BY <2>3
  <2>5. Owed(p, t)' = n + i
    BY <1>1, <2>1, <2>2 DEF Owed, Asked, AskIn, Said
  <2>6. Kept1(p, t)'
    BY DEF Heard
  <2>7. Covered(c, DictOf(ac, p), t, Owed(p, t), <<p, t>> \in server.subs)'
    BY <2>6 DEF Kept1
  <2>8. Has(c', "SUBSCRIBED") /\ dictHas(DictOf(ac', p), t)
    BY <2>4, <2>5, <2>7 DEF Covered, Has
  <2> QED BY <1>4, <1>9, <2>8
<1>14. \A p \in BOOLEAN, t \in DOMAIN Hash :
          s /\ dictHas(DictOf(a, p), t) =>
            (s2 /\ dictHas(DictOf(b, p), t)) \/ About(m, "unsubscribe", p, t)
  BY <1>2, <1>3, <1>4, <1>9
<1>15. \A i \in 1..Len(l) : l[i].op = "message" => l[i].topic \in DOMAIN Hash
  <2> HIDE DEF v
  <2>1. Stamps(w, <<m>> \o l, open, mon)
    BY <1>7 DEF Posts
  <2>2. Stamps(w, l, open, mon)
    BY <1>5, <1>6, <2>1, TakenStamps
  <2> QED BY <2>2 DEF Stamps, Stamped
<1>16. News(l, b, s2)
  <2> HIDE DEF v
  <2>1. News(<<m>> \o l, a, s)
    BY <1>7 DEF Posts
  <2> QED BY <1>2, <1>5, <1>13, <1>14, <1>15, <2>1, RestNews, SMTT(60)
<1>17. tidy2 => Dealt(m, a, b)
  <2>1. CASE ~tidy2
    BY <2>1
  <2>2. CASE tidy2
    BY <1>2, <1>3, <1>4, <2>2
  <2> QED BY <2>1, <2>2
<1>18. /\ Posts(w, l, x, b, s2, subs, open, alive, mon, tidy2)
       /\ tidy2 => Fits(m, a, b)
  <2> HIDE DEF v
  <2>1. tidy2 => tidy
    BY <1>9
  <2>2. alive => open
    BY <1>10
  <2>3. ~open => x = <<>>
    BY <1>10
  <2>4. x \in Seq(Nat) /\ m \in AnyMessage
    BY <1>5, <1>10
  <2>5. Took(w, m, l, x, a, b, s2, subs, open, alive, mon, tidy2)
    BY <1>6, <1>7, <1>11, <1>12, <1>16, <1>17, <2>1, <2>2, <2>3, <2>4, TakenPosts
  <2> QED BY <2>5 DEF Took
<1>19. /\ w = cmds' /\ l = Incoming' /\ x = Sending' /\ b = ac' /\ s2 = Has(c, "SUBSCRIBED")'
       /\ subs = server.subs' /\ open = Open' /\ alive = Alive' /\ mon = Monitored' /\ tidy2 = Tidy'
  <2>1. Open' = Open /\ Alive' = Alive
    BY DEF Open, Alive
  <2>2. Incoming' = Letters(u)
    BY <1>1 DEF Incoming, Letters
  <2>3. Sending' = Sending
    BY <2>1 DEF Sending, Commands
  <2> QED BY <1>2, <1>4, <1>8, <2>1, <2>2, <2>3
<1>20. (peer' # "up" => up' = <<>>) /\ peer' # "pending"
  BY DEF Posted, Served
<1>21. Posted'
  BY <1>18, <1>19, <1>20 DEF Posted
<1>22. Tidy' => Fits(Msg, ac, ac')
  BY <1>2, <1>3, <1>4, <1>18
<1> QED BY <1>21, <1>22

\* Who takes it, if no answer went astray.
LEMMA TurnDeals ==
    ASSUME Typed, Placed, pc = "process", cmds' = cmds, Tidy', Msg \in AnyMessage, Msg.op # "garbage"
    PROVE  /\ ToOldest => Claimed(Msg, ac, ac', Head(ac.replies).id)
           /\ ToAside => Claimed(Msg, ac, ac', Head(ac.invalid).id)
           /\ ToAnother => Unclaimed(Msg, ac, ac') \/ Nobodys(Msg, ac)
           /\ ToTopic => Unclaimed(Msg, ac, ac')
<1>1. ~Monitored /\ ~Has(c, "MONITORING") /\ Queued(ac, cmds)
  <2>1. Monitored' = Monitored
    BY DEF Monitored
  <2> QED BY <2>1 DEF Tidy, Placed, InLoop
<1>2. ac \in AsyncContexts /\ ac.replies \in Seq(Callbacks) /\ ac.invalid \in Seq(Callbacks)
  BY NowTyped DEF AsyncContexts
<1>3. ASSUME ToOldest PROVE Claimed(Msg, ac, ac', Head(ac.replies).id)
  <2> DEFINE q == ac.replies
             x == ac.invalid
             k == Head(q).id
  <2>1. ac' = [ac EXCEPT !.replies = Tail(q)] /\ q # <<>> /\ faults' = faults \cup Confusion(Head(q), Msg)
    BY <1>3 DEF ToOldest, Run
  <2>2. ac'.replies = Tail(q) /\ ac'.invalid = x
    BY <1>2, <2>1 DEF AsyncContexts
  <2>3. /\ k \in Ids(q) /\ Ids(Tail(q)) = Ids(q) \ {k} /\ k \in Nat
        /\ \A j \in Ids(q) : j = k \/ k < j
    BY <1>1, <1>2, <2>1, QueueTail DEF Queued, Callbacks
  <2>4. ~Overtakes(Head(q)) /\ Msg.op # "unsubscribe"
    BY <2>1 DEF Tidy, Confusion
  <2>5. DOMAIN x = 1..Len(x) /\ \A i \in 1..Len(x) : x[i].id \in Nat
    <3>1. \A i \in 1..Len(x) : x[i] \in Callbacks
      BY <1>2, ElementOfSeq
    <3> QED BY <1>2, <3>1, LenProperties DEF Callbacks
  <2>6. \A j \in Ids(x) : j = k \/ k < j
    <3> TAKE j \in Ids(x)
    <3>1. PICK i \in 1..Len(x) : j = x[i].id
      BY DEF Ids
    <3>2. ~(x[i].id < k)
      BY <2>4, <2>5 DEF Overtakes
    <3> QED BY <2>3, <2>5, <3>1, <3>2
  <2>7. k \notin Ids(x)
    BY <1>1, <2>3 DEF Queued
  <2> HIDE DEF k, q, x
  <2>8. Everyone(ac) = Ids(q) \cup Ids(x) /\ Everyone(ac') = Ids(Tail(q)) \cup Ids(x)
    BY <2>2 DEF Everyone, q, x
  <2>9. Ids(ac.replies) = Ids(q) /\ Ids(ac'.replies) = Ids(Tail(q))
    BY <2>2 DEF q
  <2>10. Claimed(Msg, ac, ac', k)
    BY <2>3, <2>4, <2>6, <2>7, <2>8, <2>9 DEF Claimed
  <2> QED BY <2>10 DEF k, q
<1>4. ASSUME ToAside PROVE Claimed(Msg, ac, ac', Head(ac.invalid).id)
  <2> DEFINE q == ac.invalid
             k == Head(q).id
  <2>1. ac' = [ac EXCEPT !.invalid = Tail(q)] /\ q # <<>> /\ ac.replies = <<>> /\ Msg.op \in {"answer", "line"}
    BY <1>4 DEF ToAside, Run
  <2>2. ac'.invalid = Tail(q) /\ ac'.replies = <<>>
    BY <1>2, <2>1 DEF AsyncContexts
  <2>3. /\ k \in Ids(q) /\ Ids(Tail(q)) = Ids(q) \ {k} /\ k \in Nat
        /\ \A j \in Ids(q) : j = k \/ k < j
    BY <1>1, <1>2, <2>1, QueueTail DEF Queued, Callbacks
  <2>4. Ids(<<>>) = {}
    BY NothingQueued
  <2> HIDE DEF k, q
  <2>5. Everyone(ac) = Ids(q) /\ Everyone(ac') = Ids(Tail(q))
    BY <2>1, <2>2, <2>4 DEF Everyone, q
  <2>6. Ids(ac.replies) = {} /\ Ids(ac'.replies) = {}
    BY <2>1, <2>2, <2>4
  <2>7. Claimed(Msg, ac, ac', k)
    BY <2>1, <2>3, <2>5, <2>6 DEF Claimed
  <2> QED BY <2>7 DEF k, q
<1>5. ASSUME ToAnother PROVE Unclaimed(Msg, ac, ac') \/ Nobodys(Msg, ac)
  <2>1. ac' = ac /\ Ids(ac.replies) = {}
    BY <1>5, NothingQueued DEF ToAnother, Run
  <2>2. Msg.op \in Kinds \/ (Msg.op \in {"answer", "line"} /\ Ids(ac.invalid) = {})
    BY <1>1, <1>5, NothingQueued DEF ToAnother
  <2> QED BY <2>1, <2>2 DEF Unclaimed, Nobodys, Everyone
<1>6. ASSUME ToTopic PROVE Unclaimed(Msg, ac, ac')
  <2>1. PICK e : ac' = WithDict(ac, Msg.pattern, e)
    BY <1>6 DEF ToTopic, Run
  <2>2. ac'.replies = ac.replies /\ ac'.invalid = ac.invalid
    BY <1>2, <2>1 DEF WithDict, AsyncContexts
  <2>3. Ids(ac.replies) = {} /\ Msg.op \in Kinds
    BY <1>6, NothingQueued DEF ToTopic
  <2> QED BY <2>2, <2>3 DEF Unclaimed, Everyone
<1> QED BY <1>3, <1>4, <1>5, <1>6

\* The context after the message was taken and its callback called, if any.
LEMMA RunMoves ==
    ASSUME Typed, pc = "process", Whole(c.inbuf), NEW k \in {Rest, Unset(Rest, "SUBSCRIBED")},
           NEW a, NEW cb, NEW r, Run(k, a, cb, r)
    PROVE  /\ c'.inbuf = Behind(c.inbuf) /\ c'.obuf = c.obuf /\ c'.err = c.err
           /\ pc' \in {"process", "callback"} /\ ac' = a /\ UNCHANGED <<peer, up, down, server>>
           /\ k = Rest => (Has(c', "SUBSCRIBED") <=> Has(c, "SUBSCRIBED"))
<1>1. c \in Contexts(issued) /\ DOMAIN c = DOMAIN redisContextInit
  BY NowTyped DEF Contexts, redisContextInit
<1>2. /\ Rest.inbuf = Behind(c.inbuf) /\ Rest.obuf = c.obuf /\ Rest.err = c.err /\ Rest.flags = c.flags
      /\ DOMAIN Rest = DOMAIN c
  BY <1>1 DEF Rest, Contexts
<1> HIDE DEF Rest
<1>3. /\ k.inbuf = Behind(c.inbuf) /\ k.obuf = c.obuf /\ k.err = c.err
      /\ DOMAIN k = DOMAIN c
      /\ k = Rest => k.flags = c.flags
  BY <1>1, <1>2 DEF Unset, redisContextInit
<1>4. c' \in {k, Set(k, "IN_CALLBACK")} /\ pc' \in {"process", "callback"} /\ ac' = a /\ UNCHANGED <<peer, up, down, server>>
  BY DEF Run, Still
<1>5. CASE c' = k
  BY <1>3, <1>4, <1>5 DEF Has
<1>6. CASE c' = Set(k, "IN_CALLBACK")
  <2>1. c'.inbuf = k.inbuf /\ c'.obuf = k.obuf /\ c'.err = k.err /\ c'.flags = k.flags \cup {"IN_CALLBACK"}
    BY <1>1, <1>3, <1>6 DEF Set, redisContextInit
  <2> QED BY <1>3, <1>4, <2>1 DEF Has
<1> QED BY <1>4, <1>5, <1>6

\* Whatever callback is called or not, if it is one of those that may be.
LEMMA RunPosted ==
    ASSUME Typed, Heard, Heard', Posted, pc = "process", Whole(c.inbuf), cmds' = cmds,
           NEW k \in {Rest, Unset(Rest, "SUBSCRIBED")}, NEW a, NEW cb, NEW r, Run(k, a, cb, r),
           faults \subseteq faults',
           \A p \in BOOLEAN, t \in DOMAIN Hash : dictHas(DictOf(ac, p), t) =>
              (k = Rest /\ dictHas(DictOf(a, p), t)) \/ About(Msg, "unsubscribe", p, t),
           Tidy' => Dealt(Msg, ac, ac')
    PROVE  Posted' /\ (Tidy' => Fits(Msg, ac, ac'))
<1>1. /\ c'.inbuf = Behind(c.inbuf) /\ c'.obuf = c.obuf /\ c'.err = c.err
      /\ pc' \in Served /\ ac' = a /\ UNCHANGED <<peer, up, down, server>>
      /\ k = Rest => (Has(c', "SUBSCRIBED") <=> Has(c, "SUBSCRIBED"))
  BY RunMoves DEF Served
<1>2. \A p \in BOOLEAN, t \in DOMAIN Hash :
         Has(c, "SUBSCRIBED") /\ dictHas(DictOf(ac, p), t) =>
           (Has(c', "SUBSCRIBED") /\ dictHas(DictOf(ac', p), t)) \/ About(Msg, "unsubscribe", p, t)
  <2> SUFFICES ASSUME NEW p \in BOOLEAN, NEW t \in DOMAIN Hash, Has(c, "SUBSCRIBED"), dictHas(DictOf(ac, p), t),
                      ~About(Msg, "unsubscribe", p, t)
               PROVE  Has(c', "SUBSCRIBED") /\ dictHas(DictOf(ac', p), t)
    OBVIOUS
  <2>1. k = Rest /\ dictHas(DictOf(a, p), t)
    OBVIOUS
  <2>2. Has(c', "SUBSCRIBED")
    BY <1>1, <2>1
  <2>3. ac' = a
    BY <1>1
  <2> QED BY <2>1, <2>2, <2>3
<1> QED BY <1>1, <1>2, MessagePosted

LEMMA TurnPosted ==
    ASSUME Typed, Placed, Heard, Heard', Posted, ProcessCallbacks, pc' \in Served
    PROVE  Posted' /\ (Tidy' /\ pc' # "loop" => Whole(c.inbuf) /\ Fits(Msg, ac, ac'))
<1>1. pc = "process" /\ cmds' = cmds /\ ac \in AsyncContexts /\ pc \in Served
  BY NowTyped DEF ProcessCallbacks, Quiet, Served
<1>2. CASE GivesUp
  BY <1>2, FreeingStops DEF GivesUp
<1>3. CASE Asserts
  BY <1>3 DEF Asserts, Crash, Served
<1>4. CASE ~Whole(c.inbuf) /\ Waits
  <2>1. UNCHANGED <<c, peer, up, down, server, faults>> /\ pc' = "loop"
    BY <1>4 DEF Waits, Still
  <2>2. ac'.channels = ac.channels /\ ac'.patterns = ac.patterns
    BY <1>1, <1>4 DEF Waits, AsyncContexts
  <2>3. Monitored \/ (ac'.replies = ac.replies /\ ac'.invalid = ac.invalid)
    BY <1>1, <1>4 DEF Waits, Placed, InLoop
  <2>4. Alive' <=> Alive
    BY <2>1 DEF Alive, Open
  <2>5. Has(c, "SUBSCRIBED") => Has(c', "SUBSCRIBED")
    BY <2>1
  <2>6. Posted'
    BY <1>1, <2>1, <2>2, <2>3, <2>4, <2>5, NothingMoved
  <2> QED BY <2>1, <2>6
<1>5. CASE /\ Whole(c.inbuf) /\ Msg \in AnyMessage /\ Msg.op # "garbage"
           /\ ToOldest \/ ToAside \/ ToAnother \/ ToTopic
  <2>1. Tidy' => Dealt(Msg, ac, ac')
    BY <1>1, <1>5, TurnDeals DEF Dealt
  <2>2. faults \subseteq faults'
    BY <1>5 DEF ToOldest, ToAside, ToAnother, ToTopic
  <2>3. ASSUME NEW a, NEW cb, a.channels = ac.channels, a.patterns = ac.patterns, Run(Rest, a, cb, Msg)
        PROVE  Posted' /\ (Tidy' => Fits(Msg, ac, ac'))
    <3>1. \A p \in BOOLEAN, t \in DOMAIN Hash : dictHas(DictOf(ac, p), t) =>
              (Rest = Rest /\ dictHas(DictOf(a, p), t)) \/ About(Msg, "unsubscribe", p, t)
      BY <2>3 DEF DictOf
    <3> QED BY <1>1, <1>5, <2>1, <2>2, <2>3, <3>1, RunPosted
  <2>4. CASE ToOldest
    <3> DEFINE a == [ac EXCEPT !.replies = Tail(@)]
    <3>1. a.channels = ac.channels /\ a.patterns = ac.patterns
      BY <1>1 DEF AsyncContexts
    <3>2. Run(Rest, a, Head(ac.replies), Msg)
      BY <2>4 DEF ToOldest
    <3> HIDE DEF a
    <3> QED BY <1>5, <2>3, <3>1, <3>2
  <2>5. CASE ToAside
    <3> DEFINE a == [ac EXCEPT !.invalid = Tail(@)]
    <3>1. a.channels = ac.channels /\ a.patterns = ac.patterns
      BY <1>1 DEF AsyncContexts
    <3>2. Run(Rest, a, Head(ac.invalid), Msg)
      BY <2>5 DEF ToAside
    <3> HIDE DEF a
    <3> QED BY <1>5, <2>3, <3>1, <3>2
  <2>6. CASE ToAnother
    BY <1>5, <2>3, <2>6 DEF ToAnother
  <2>7. CASE ToTopic
    <3>1. PICK e, cb, k, a :
             /\ k \in {Rest, Unset(Rest, "SUBSCRIBED")} /\ a = WithDict(ac, Msg.pattern, e)
             /\ e \in Table /\ Heeding(DictOf(ac, Msg.pattern), e, Msg)
             /\ k = Rest \/ \A pattern \in BOOLEAN, t \in DOMAIN Hash : ~dictHas(DictOf(a, pattern), t)
             /\ Run(k, a, cb, Msg)
      BY <2>7 DEF ToTopic
    <3>2. Msg.pattern \in BOOLEAN
      BY <1>5, <2>7, NoticeTyped DEF ToTopic, Kinds
    <3>3. \A p \in BOOLEAN : DictOf(a, p) = IF p = Msg.pattern THEN e ELSE DictOf(ac, p)
      BY <1>1, <3>1, <3>2 DEF WithDict, DictOf, AsyncContexts
    <3>4. \A p \in BOOLEAN, t \in DOMAIN Hash : dictHas(DictOf(ac, p), t) =>
             dictHas(DictOf(a, p), t) \/ About(Msg, "unsubscribe", p, t)
      <4> SUFFICES ASSUME NEW p \in BOOLEAN, NEW t \in DOMAIN Hash, dictHas(DictOf(ac, p), t),
                          ~dictHas(DictOf(a, p), t)
                   PROVE  About(Msg, "unsubscribe", p, t)
        OBVIOUS
      <4>1. p = Msg.pattern /\ ~dictHas(e, t)
        BY <3>3
      <4> QED BY <3>1, <4>1 DEF Heeding, About
    <3>5. \A p \in BOOLEAN, t \in DOMAIN Hash : dictHas(DictOf(ac, p), t) =>
             (k = Rest /\ dictHas(DictOf(a, p), t)) \/ About(Msg, "unsubscribe", p, t)
      BY <3>1, <3>4
    <3> QED BY <1>1, <1>5, <2>1, <2>2, <3>1, <3>5, RunPosted
  <2> QED BY <1>5, <2>4, <2>5, <2>6, <2>7
<1> QED BY <1>1, <1>2, <1>3, <1>4, <1>5, TurnIs

(***************************************************************************)
(* A command is issued                                                     *)
(***************************************************************************)
\* It is the last of all, and comes before no subscription; y is what will never
\* be written, if the command could not be appended.
IssuedFrom(w, m, l, x, y, a, s, subs, open, alive, mon, tidy, alive2, x2, b, s2, mon2, tidy2, new) ==
    /\ Posts(w, l, x \o y, a, s, subs, open, alive, mon, tidy)
    /\ tidy => \A k \in Everyone(a) : k \in 1..Len(w) /\ w[k].op = "get"
    /\ alive2 => alive
    /\ alive2 => y = <<>>
    /\ x2 = IF alive2 THEN x \o <<Len(w) + 1>> ELSE x
    /\ ~s => subs = {}
    /\ ~s => \A i \in 1..Len(l) : l[i].op # "subscribe"
    /\ ~s => \A k \in Of(x \o y) : w[k].op # "subscribe"
    /\ s => s2
    /\ \A p \in BOOLEAN, t \in DOMAIN Hash : dictHas(DictOf(a, p), t) => dictHas(DictOf(b, p), t)
    /\ mon => mon2
    /\ tidy2 => tidy
    /\ tidy2 => m.op # "monitor"
    /\ new = IF m.op = "get" THEN {Len(w) + 1} ELSE {}
    /\ tidy2 => Everyone(b) = Everyone(a) \cup new
    /\ tidy2 => Ids(b.replies) \subseteq Ids(a.replies) \cup IF s THEN {} ELSE new

LEMMA IssuedPosts ==
    ASSUME NEW w \in Seq(CommandType), NEW m \in CommandType, NEW l \in Seq(AnyMessage),
           NEW x \in Seq(Nat), NEW y \in Seq(Nat), NEW a, NEW s, NEW subs, NEW open, NEW alive, NEW mon, NEW tidy,
           NEW alive2, NEW x2, NEW b, NEW s2, NEW mon2, NEW tidy2, NEW new,
           IssuedFrom(w, m, l, x, y, a, s, subs, open, alive, mon, tidy, alive2, x2, b, s2, mon2, tidy2, new)
    PROVE  Posts(Append(w, m), l, x2, b, s2, subs, open, alive2, mon2, tidy2)
<1>a. /\ Posts(w, l, x \o y, a, s, subs, open, alive, mon, tidy)
      /\ tidy => \A k \in Everyone(a) : k \in 1..Len(w) /\ w[k].op = "get"
      /\ alive2 => alive
      /\ alive2 => y = <<>>
      /\ x2 = IF alive2 THEN x \o <<Len(w) + 1>> ELSE x
      /\ ~s => subs = {}
      /\ ~s => \A i \in 1..Len(l) : l[i].op # "subscribe"
      /\ ~s => \A k \in Of(x \o y) : w[k].op # "subscribe"
      /\ s => s2
      /\ \A p \in BOOLEAN, t \in DOMAIN Hash : dictHas(DictOf(a, p), t) => dictHas(DictOf(b, p), t)
  BY DEF IssuedFrom
<1>b. /\ mon => mon2
      /\ tidy2 => tidy
      /\ tidy2 => m.op # "monitor"
      /\ new = IF m.op = "get" THEN {Len(w) + 1} ELSE {}
      /\ tidy2 => Everyone(b) = Everyone(a) \cup new
      /\ tidy2 => Ids(b.replies) \subseteq Ids(a.replies) \cup IF s THEN {} ELSE new
  BY DEF IssuedFrom
<1> USE <1>a, <1>b
<1> DEFINE n == Len(w) + 1
           f == Answered(l)
           v == Append(w, m)
           z == f \o (x \o y)
           z1 == f \o x
           z2 == f \o x2
           q == Everyone(a)
           r == Ids(a.replies)
<1>1. /\ Len(w) \in Nat /\ n \in Nat /\ v \in Seq(CommandType) /\ v[n] = m
      /\ \A i \in 1..Len(w) : v[i] = w[i]
  BY AppendProperties, LenProperties
<1>2. f \in Seq(Nat) /\ z1 \in Seq(Nat) /\ z = z1 \o y /\ <<n>> \in Seq(Nat) /\ x \o <<n>> \in Seq(Nat)
      /\ f \o (x \o <<n>>) = z1 \o <<n>>
  <2>1. f \in Seq(Nat)
    BY AnsweredLaws
  <2> DEFINE e == <<n>>
  <2>2. e \in Seq(Nat)
    BY <1>1
  <2> HIDE DEF e, f
  <2>3. f \o x \in Seq(Nat) /\ x \o e \in Seq(Nat)
    BY <2>1, <2>2, ConcatProperties
  <2>4. (f \o x) \o y = f \o (x \o y)
    BY <2>1, NumbersAssociate
  <2>5. (f \o x) \o e = f \o (x \o e)
    BY <2>1, <2>2, NumbersAssociate
  <2> QED BY <2>1, <2>2, <2>3, <2>4, <2>5 DEF e
<1>3. Stamps(w, l, open, mon) /\ Flow(w, z, q, alive, tidy) /\ News(l, a, s)
      /\ (tidy => Ordered(w, l, z, r, subs))
  BY DEF Posts
<1>4. z2 = IF alive2 THEN z1 \o <<n>> ELSE z1
  BY <1>2
<1>0. \A p, u \in Seq(Nat) : Of(p \o u) = Of(p) \cup Of(u)
  BY OfLaws
<1>5. Rising(z1) /\ Of(z) = Of(z1) \cup Of(y) /\ Below(Of(z1), Of(y)) /\ Of(z) = Of(f) \cup Of(x \o y)
  <2>1. Rising(z)
    BY <1>3 DEF Flow
  <2>2. x \o y \in Seq(Nat)
    BY ConcatProperties
  <2> DEFINE g == x \o y
  <2> HIDE DEF z1, f, g
  <2>3. Rising(z1 \o y) /\ z = f \o g /\ z = z1 \o y
    BY <1>2, <2>1 DEF g
  <2> HIDE DEF z
  <2>4. Rising(z1) /\ Below(Of(z1), Of(y))
    BY <1>2, <2>3, RisingConcat
  <2>5. Of(z1 \o y) = Of(z1) \cup Of(y) /\ Of(f \o g) = Of(f) \cup Of(g)
    BY <1>0, <1>2, <2>2 DEF g
  <2> QED BY <2>3, <2>4, <2>5 DEF g
<1>6. Flow(w, z1, q, alive2, tidy)
  <2> HIDE DEF z, z1, q
  <2>1. alive2 => Of(y) = {}
    BY OfLaws
  <2>2. \A k \in Of(z) \ Of(z1) : w[k].op # "get" \/ (~alive2 /\ \A j \in Of(z1) : j < k)
    BY <1>5, <2>1 DEF Below
  <2>3. tidy => \A k \in q : w[k].op = "get"
    BY DEF q
  <2>4. Of(z1) \subseteq Of(z)
    BY <1>5
  <2>5. Rising(z1)
    BY <1>5
  <2>6. alive2 => alive
    OBVIOUS
  <2>7. Flow(w, z, q, alive, tidy)
    BY <1>3
  <2> QED BY ONLY <2>2, <2>3, <2>4, <2>5, <2>6, <2>7, FlowDrops
<1>7. Flow(v, z2, Everyone(b), alive2, tidy2)
  <2> DEFINE q2 == IF m.op = "get" THEN q \cup {Len(w) + 1} ELSE q
  <2>1. tidy2 => tidy /\ m.op # "monitor"
    OBVIOUS
  <2>2. tidy2 => Everyone(b) = q2
    OBVIOUS
  <2>3. Flow(v, z2, q2, alive2, tidy2)
    <3> HIDE DEF z1, z2, q
    <3> QED BY <1>2, <1>4, <1>6, <2>1, FlowIssues
  <2> HIDE DEF q2, z2, v, n
  <2> QED BY <2>2, <2>3 DEF Flow
<1>8. Stamps(v, l, open, mon2)
  BY <1>3, GrownStamps
<1>9. \A i \in 1..Len(l) : /\ l[i] \in AnyMessage
                           /\ l[i].op = "message" => l[i].topic \in DOMAIN Hash /\ l[i].pattern \in BOOLEAN
  <2> TAKE i \in 1..Len(l)
  <2>1. l[i] \in AnyMessage
    BY ElementOfSeq
  <2>2. Stamped(w, l[i], Len(l) = 1 /\ ~open, mon)
    BY <1>3 DEF Stamps
  <2> QED BY <2>1, <2>2, NoticeTyped DEF Stamped
<1>10. News(l, b, s2)
  BY <1>3, <1>9 DEF News, Told1
<1>11. ASSUME tidy2 PROVE Ordered(v, l, z2, Ids(b.replies), subs)
  <2> DEFINE r2 == Ids(b.replies)
             none == ~\E i \in 1..Len(l) : l[i].op \in {"subscribe", "message"}
  <2>1. Ordered(w, l, z, r, subs) /\ r \subseteq 1..Len(w) /\ Of(z) \subseteq 1..Len(w) /\ r \subseteq q
    BY <1>3, <1>11 DEF Flow, Everyone
  <2>2. Of(z2) \subseteq Of(z) \cup {n}
    <3>1. Of(z1 \o <<n>>) = Of(z1) \cup {n}
      <4> DEFINE e == <<n>>
      <4>1. e \in Seq(Nat) /\ Of(e) = {n}
        BY <1>1, OfLaws, SMTT(60)
      <4> HIDE DEF e, z1
      <4>2. Of(z1 \o e) = Of(z1) \cup Of(e)
        BY <1>0, <1>2, <4>1
      <4> QED BY <4>1, <4>2 DEF e
    <3> QED BY <1>4, <1>5, <3>1
  <2>3. CASE s \/ m.op # "get"
    <3>1. r2 \subseteq r
      BY <1>11, <2>3
    <3>2. \A i \in 1..Len(l) : l[i].op \in {"subscribe", "message"} => Foremost(l, i, r2)
      BY <2>1, <3>1 DEF Ordered, Foremost
    <3>3. \A j \in Of(z2) : v[j].op = "subscribe" => \A k \in r2 : k < j
      <4> SUFFICES ASSUME NEW j \in Of(z2), v[j].op = "subscribe", NEW k \in r2 PROVE k < j
        OBVIOUS
      <4>1. k \in r /\ k \in 1..Len(w)
        BY <2>1, <3>1
      <4>2. CASE j = n
        BY <1>1, <4>1, <4>2
      <4>3. CASE j \in Of(z)
        <5>1. w[j].op = "subscribe"
          BY <1>1, <2>1, <4>3
        <5> QED BY <2>1, <4>1, <4>3, <5>1 DEF Ordered
      <4> QED BY <2>2, <4>2, <4>3
    <3>4. subs # {} => Foremost(l, Len(l) + 1, r2)
      BY <2>1, <3>1 DEF Ordered, Foremost
    <3> QED BY <3>2, <3>3, <3>4 DEF Ordered
  <2>4. CASE ~s /\ m.op = "get"
    <3>1. subs = {} /\ \A i \in 1..Len(l) : l[i].op \notin {"subscribe", "message"}
      BY <1>3, <2>4 DEF News, Told1
    <3>2. \A j \in Of(z2) : v[j].op # "subscribe"
      <4> TAKE j \in Of(z2)
      <4>1. CASE j = n
        BY <1>1, <2>4, <4>1
      <4>2. CASE j \in Of(x \o y)
        <5>1. j \in 1..Len(w) /\ w[j].op # "subscribe"
          BY <1>5, <2>1, <2>4, <4>2
        <5> QED BY <1>1, <5>1
      <4>3. CASE j \in Of(f)
        <5>1. j \in 1..Len(w)
          BY <1>5, <2>1, <4>3
        <5>2. PICK i \in 1..Len(l) : AnswersOf(l[i]) = <<j>>
          BY <4>3, AnsweredLaws
        <5>3. l[i].op \in {"answer", "error"} /\ l[i].req # 0 /\ l[i].req = j
          BY <5>2 DEF AnswersOf
        <5>4. w[j].op \in {"get", "monitor"}
          BY <1>3, <5>3 DEF Stamps, Stamped
        <5> QED BY <1>1, <5>1, <5>4
      <4> QED BY <1>5, <2>2, <4>1, <4>2, <4>3
    <3> QED BY <3>1, <3>2 DEF Ordered
  <2> QED BY <2>3, <2>4
<1> HIDE DEF z2, v, f
<1>12. Posts(v, l, x2, b, s2, subs, open, alive2, mon2, tidy2)
  BY <1>7, <1>8, <1>10, <1>11 DEF Posts, z2, f
<1> QED BY <1>12 DEF v

\* Outside of subscribed mode there is no subscription, none is asked for, and
\* none is confirmed.
LEMMA Unsubscribed ==
    ASSUME Typed, Heard, Posted, pc \in Served, ~Has(c, "SUBSCRIBED")
    PROVE  /\ server.subs = {}
           /\ \A i \in 1..Len(Incoming) : Incoming[i].op \notin {"subscribe", "message"}
           /\ \A k \in Of(Sending) : cmds[k].op # "subscribe"
<1> DEFINE u == c.inbuf \o down
           v == up \o c.obuf.chars
<1>1. \A p \in BOOLEAN, t \in DOMAIN Hash :
         /\ <<p, t>> \notin server.subs
         /\ ~(Asked(cmds, p, t, v) > 0) /\ ~(Said(p, t, u) > 0)
  <2> TAKE p \in BOOLEAN, t \in DOMAIN Hash
  <2>1. ~(Owed(p, t) > 0) /\ <<p, t>> \notin server.subs
    BY DEF Heard, Kept1, Covered
  <2>2. Asked(cmds, p, t, v) \in Nat /\ Said(p, t, u) \in Nat
    BY OwedTyped DEF Served, InLoop
  <2>3. PICK i, j : i = Asked(cmds, p, t, v) /\ j = Said(p, t, u)
    OBVIOUS
  <2>4. i \in Nat /\ j \in Nat /\ ~(i + j > 0)
    BY <2>1, <2>2, <2>3 DEF Owed
  <2>5. ~(i > 0) /\ ~(j > 0)
    BY <2>4
  <2> QED BY <2>1, <2>3, <2>5
<1>2. server.subs = {}
  <2>1. server.subs \subseteq BOOLEAN \X DOMAIN Hash
    BY NowTyped DEF Servers
  <2> QED BY <1>1, <2>1
<1>3. /\ Stamps(cmds, Incoming, Open, Monitored) /\ News(Incoming, ac, Has(c, "SUBSCRIBED"))
      /\ Incoming \in Seq(AnyMessage) /\ u \in Seq(PieceOf(AnyMessage))
  BY IncomingIs, StreamsTyped DEF Posted, Posts
<1>4. \A i \in 1..Len(Incoming) : Incoming[i].op # "subscribe"
  <2> SUFFICES ASSUME NEW i \in 1..Len(Incoming), Incoming[i].op = "subscribe" PROVE FALSE
    OBVIOUS
  <2>1. Incoming[i] \in AnyMessage
    BY <1>3, ElementOfSeq
  <2>2. Incoming[i].topic \in DOMAIN Hash /\ Incoming[i].pattern \in BOOLEAN
    BY <1>3, <2>1, NoticeTyped DEF Stamps, Stamped
  <2>3. PICK p \in BOOLEAN, t \in DOMAIN Hash : About(Letters(u)[i], "subscribe", p, t)
    BY <2>2 DEF About, Incoming
  <2>4. i \in 1..Len(Letters(u))
    BY DEF Incoming
  <2>5. Said(p, t, u) > 0
    <3> HIDE DEF u
    <3> QED BY <1>3, <2>3, <2>4, SaidLetter
  <2> QED BY <1>1, <2>5
<1>5. \A i \in 1..Len(Incoming) : Incoming[i].op # "message"
  BY <1>3 DEF News, Told1
<1>6. \A k \in Of(Sending) : cmds[k].op # "subscribe"
  <2> SUFFICES ASSUME NEW k \in Of(Sending), cmds[k].op = "subscribe" PROVE FALSE
    OBVIOUS
  <2>1. cmds \in Seq(CommandType) /\ Len(cmds) = issued /\ v \in Seq(Numbered(issued))
    BY StreamsTyped DEF Typed, Answering, Counted, Served, InLoop
  <2>2. k \in Of(Commands(v))
    <3> DEFINE f == Commands(up)
               g == Commands(c.obuf.chars)
    <3>1. f \in Seq(Nat) /\ g \in Seq(Nat)
      BY SendingTyped
    <3>2. Commands(v) = f \o g
      BY SendingTyped, CommandsConcat
    <3>3. Sending \in {f, f \o g}
      <4>1. Sending = f \o g \/ Sending = f \o <<>>
        BY DEF Sending
      <4> HIDE DEF f, g
      <4> QED BY <3>1, <4>1, ConcatEmptySeq
    <3> HIDE DEF f, g, v
    <3>4. Of(f \o g) = Of(f) \cup Of(g)
      BY <3>1, OfLaws
    <3> QED BY <3>2, <3>3, <3>4
  <2>3. PICK p \in BOOLEAN, t \in DOMAIN Hash : Asked(cmds, p, t, v) > 0
    <3> HIDE DEF v
    <3> QED BY <2>1, <2>2, AskedSubscribe
  <2> QED BY <1>1, <2>3
<1> QED BY <1>2, <1>4, <1>5, <1>6

LEMMA AppendedIs ==
    ASSUME Typed
    PROVE  /\ Appended.obuf.chars = c.obuf.chars \o Pieces(issued + 1)
           /\ Appended.inbuf = c.inbuf /\ Appended.flags = c.flags /\ Appended.err = c.err
<1> DEFINE n == issued + 1
<1>1. c \in Contexts(issued) /\ issued \in Nat /\ n \in 1..n
  BY NowTyped
<1>2. Appended.obuf = sdscatlen(c.obuf, Pieces(n)) /\ Appended.inbuf = c.inbuf
      /\ Appended.flags = c.flags /\ Appended.err = c.err
  BY <1>1 DEF Appended, Contexts
<1>3. c.obuf \in String(Numbered(n)) /\ c.obuf.type # 0
  <2>1. c.obuf \in Buffers(issued) /\ Buffers(issued) \subseteq Buffers(n)
    BY <1>1, ContextsGrow DEF Contexts
  <2> HIDE DEF n
  <2> QED BY <2>1 DEF Buffers
<1>4. Pieces(n) \in Seq(Numbered(n))
  <2> HIDE DEF n
  <2> QED BY <1>1, PiecesTyped DEF Numbered
<1> DEFINE S == Numbered(n)
           x == Pieces(n)
           o == c.obuf
<1>5. o \in String(S) /\ o.type # 0 /\ x \in Seq(S)
  BY <1>3, <1>4
<1> HIDE DEF S, x, o
<1>6. sdscatlen(o, x).chars = o.chars \o x
  BY <1>5, AppendExact
<1> QED BY <1>2, <1>6 DEF x, o

\* What will reach the server, when a command is appended or not.
LEMMA SendingGrows ==
    ASSUME Typed, Posted, pc \in Served, UNCHANGED <<up, peer>>,
           \/ c'.obuf = Appended.obuf /\ c'.err = c.err
           \/ c'.obuf = c.obuf /\ c'.err = "oom"
    PROVE  \E x, y \in Seq(Nat) :
             /\ Sending = x \o y /\ (Alive' => y = <<>>) /\ (Alive' => Alive)
             /\ Sending' = IF Alive' THEN x \o <<issued + 1>> ELSE x
<1> DEFINE f == Commands(up)
           g == Commands(c.obuf.chars)
           n == issued + 1
<1>1. /\ f \in Seq(Nat) /\ g \in Seq(Nat) /\ Sending \in Seq(Nat)
      /\ up \in Seq(PieceOf(Nat)) /\ c.obuf.chars \in Seq(PieceOf(Nat)) /\ n \in Nat
  BY SendingTyped
<1>2. <<>> \in Seq(Nat) /\ \A s \in Seq(Nat) : s \o <<>> = s
  BY ConcatEmptySeq
<1>3. Open' = Open
  BY DEF Open
<1>4. Sending' = Commands(up) \o IF Alive' THEN Commands(c'.obuf.chars) ELSE <<>>
  BY DEF Sending, Commands
<1>5. CASE ~Alive
  <2>1. ~Alive'
    BY <1>3, <1>5 DEF Alive
  <2>2. Sending = f \o <<>> /\ Sending' = f \o <<>>
    BY <1>4, <1>5, <2>1 DEF Sending
  <2> HIDE DEF f
  <2> QED BY <1>1, <1>2, <2>1, <2>2
<1>6. CASE Alive /\ c'.obuf = c.obuf /\ c'.err = "oom"
  <2>1. ~Alive'
    BY <1>6 DEF Alive
  <2>2. Sending = f \o g /\ Sending' = f \o <<>>
    BY <1>4, <1>6, <2>1 DEF Sending
  <2> HIDE DEF f, g
  <2> QED BY <1>1, <1>2, <2>1, <2>2
<1>7. CASE Alive /\ c'.obuf = Appended.obuf /\ c'.err = c.err
  <2>1. Alive'
    BY <1>3, <1>7 DEF Alive
  <2>2. c'.obuf.chars = c.obuf.chars \o Pieces(n)
    BY <1>7, AppendedIs
  <2>3. Pieces(n) \in Seq(PieceOf(Nat)) /\ Commands(Pieces(n)) = <<n>>
    BY <1>1, CommandsPieces
  <2>4. Commands(c'.obuf.chars) = g \o <<n>>
    <3> DEFINE u == Pieces(n)
               v == c.obuf.chars
    <3>1. u \in Seq(PieceOf(Nat)) /\ v \in Seq(PieceOf(Nat))
      BY <1>1, <2>3
    <3> HIDE DEF u, v
    <3>2. Commands(v \o u) = Commands(v) \o Commands(u)
      BY <3>1, CommandsConcat
    <3> QED BY <2>2, <2>3, <3>2 DEF u, v
  <2> DEFINE e == <<n>>
  <2>5. e \in Seq(Nat)
    BY <1>1
  <2>6. Sending = f \o g /\ Sending' = f \o (g \o e)
    BY <1>4, <1>7, <2>1, <2>4 DEF Sending
  <2>a. f \in Seq(Nat) /\ g \in Seq(Nat)
    BY <1>1
  <2> HIDE DEF f, g, e
  <2>7. (f \o g) \o e = f \o (g \o e)
    BY <2>a, <2>5, NumbersAssociate
  <2>8. Sending = Sending \o <<>> /\ Sending' = Sending \o e
    BY <1>1, <1>2, <2>6, <2>7
  <2>b. PICK x \in Seq(Nat), y \in Seq(Nat) : x = Sending /\ y = <<>>
    BY <1>1, <1>2
  <2>9. Sending = x \o y /\ Sending' = IF Alive' THEN x \o <<issued + 1>> ELSE x
    BY <2>1, <2>8, <2>b DEF e
  <2> QED BY <1>7, <2>9, <2>b
<1> QED BY <1>5, <1>6, <1>7

LEMMA AsyncCommandPosted ==
    ASSUME Typed, Placed, Heard, Posted, pc \in Served, AsyncCommand
    PROVE  Posted'
<1>1. PICK m \in CommandType :
        /\ ac' = [Registered(ac, m, Callback(issued + 1, m.fn)) EXCEPT !.ev = @ \cup {"write"}]
        /\ c' \in {Flagged(Appended, m), Flagged(SetError(c, "oom"), m)}
        /\ cmds' = Append(cmds, m)
  BY CommandIssued
<1> DEFINE cb == Callback(issued + 1, m.fn)
           reg == Registered(ac, m, cb)
<1>2. /\ pc' = pc /\ UNCHANGED <<peer, up, down, server, faults>> /\ pc \in InLoop /\ issued \in Nat
      /\ ac \in AsyncContexts /\ c \in Contexts(issued) /\ cmds \in Seq(CommandType) /\ Len(cmds) = issued
  BY NowTyped DEF AsyncCommand, Served, InLoop, Typed, Counted, Answering
<1>3. cb \in Callbacks /\ cb.id = Len(cmds) + 1 /\ cb.fn = m.fn /\ cb.pending = 1
  BY <1>2 DEF Callback, Callbacks, CommandType
<1>4. ac'.replies = reg.replies /\ ac'.invalid = reg.invalid /\ ac'.channels = reg.channels /\ ac'.patterns = reg.patterns
  <2>1. ac' = [reg EXCEPT !.ev = @ \cup {"write"}]
    BY <1>1
  <2> HIDE DEF reg
  <2> QED BY <2>1
<1>5. /\ \/ c'.obuf = Appended.obuf /\ c'.err = c.err
         \/ c'.obuf = c.obuf /\ c'.err = "oom"
      /\ c'.inbuf = c.inbuf /\ (Has(c, "SUBSCRIBED") => Has(c', "SUBSCRIBED"))
  <2>1. Appended \in Contexts(issued + 1) /\ SetError(c, "oom") \in Contexts(issued)
    BY <1>2, AppendedTyped, ErrorTyped
  <2>2. /\ SetError(c, "oom").inbuf = c.inbuf /\ SetError(c, "oom").flags = c.flags
        /\ SetError(c, "oom").obuf = c.obuf /\ SetError(c, "oom").err = "oom"
    BY <1>2 DEF SetError, Contexts
  <2>3. ASSUME NEW i, NEW k \in Contexts(i), k.flags = c.flags, k.inbuf = c.inbuf
        PROVE  /\ Flagged(k, m).obuf = k.obuf /\ Flagged(k, m).inbuf = c.inbuf /\ Flagged(k, m).err = k.err
               /\ Has(c, "SUBSCRIBED") => Has(Flagged(k, m), "SUBSCRIBED")
    <3>1. Flagged(k, m).err = k.err
      BY <2>3 DEF Flagged, Set, Contexts
    <3> QED BY <2>3, <3>1, FlaggedIs DEF Has
  <2>4. CASE c' = Flagged(Appended, m)
    BY <2>1, <2>3, <2>4, AppendedIs
  <2>5. CASE c' = Flagged(SetError(c, "oom"), m)
    BY <2>1, <2>2, <2>3, <2>5
  <2> QED BY <1>1, <2>4, <2>5
<1>6. PICK x, y \in Seq(Nat) :
        /\ Sending = x \o y /\ (Alive' => y = <<>>) /\ (Alive' => Alive)
        /\ Sending' = IF Alive' THEN x \o <<issued + 1>> ELSE x
  BY <1>2, <1>5, SendingGrows
<1>7. Monitored' <=> Monitored \/ m.op = "monitor"
  BY <1>1, <1>2, MonitoredGrows
<1>8. (Tidy' => Tidy) /\ (Tidy' => m.op # "monitor")
  BY <1>2, <1>7 DEF Tidy
<1>9. Tidy => Queued(ac, cmds)
  BY <1>2 DEF Tidy, Placed
<1>10. Tidy => \A k \in Everyone(ac) : k \in 1..Len(cmds) /\ cmds[k].op = "get"
  BY <1>9 DEF Queued, Queue, Ids, Everyone
<1> DEFINE new == IF m.op = "get" THEN {Len(cmds) + 1} ELSE {}
<1>a. m.op # "monitor" =>
        /\ Ids(reg.replies) \cup Ids(reg.invalid) = Ids(ac.replies) \cup Ids(ac.invalid) \cup new
        /\ Ids(reg.replies) \subseteq Ids(ac.replies) \cup new
        /\ Has(c, "SUBSCRIBED") => Ids(reg.replies) = Ids(ac.replies)
  <2> DEFINE nw == IF m.op = "get" THEN {cb.id} ELSE {}
  <2>1. new = nw
    BY <1>3
  <2> HIDE DEF cb, new
  <2>2. m.op # "monitor" =>
        /\ Ids(reg.replies) \cup Ids(reg.invalid) = Ids(ac.replies) \cup Ids(ac.invalid) \cup nw
        /\ Ids(reg.replies) \subseteq Ids(ac.replies) \cup nw
        /\ Has(c, "SUBSCRIBED") => Ids(reg.replies) = Ids(ac.replies)
    BY <1>2, <1>3, RegisteredPlaced
  <2> HIDE DEF nw, reg
  <2> QED BY <2>1, <2>2
<1>11. Tidy' => Everyone(ac') = Everyone(ac) \cup new
  <2> SUFFICES ASSUME Tidy' PROVE Everyone(ac') = Everyone(ac) \cup new
    OBVIOUS
  <2> HIDE DEF reg, cb, new
  <2> QED BY <1>4, <1>8, <1>a DEF Everyone
<1>12. Tidy' => Ids(ac'.replies) \subseteq Ids(ac.replies) \cup IF Has(c, "SUBSCRIBED") THEN {} ELSE new
  <2> SUFFICES ASSUME Tidy'
               PROVE  Ids(ac'.replies) \subseteq Ids(ac.replies) \cup IF Has(c, "SUBSCRIBED") THEN {} ELSE new
    OBVIOUS
  <2> HIDE DEF reg, cb, new
  <2> QED BY <1>4, <1>8, <1>a
<1>13. \A p \in BOOLEAN, t \in DOMAIN Hash : dictHas(DictOf(ac, p), t) => dictHas(DictOf(ac', p), t)
  <2> TAKE p \in BOOLEAN, t \in DOMAIN Hash
  <2>1. NonNegative(ac.channels) /\ NonNegative(ac.patterns)
    BY DEF Heard
  <2>2. Raised(DictOf(reg, p), DictOf(ac, p), t, Len(Asks(m, p, t)))
    <3> HIDE DEF cb
    <3> QED BY <1>2, <1>3, <2>1, RegisteredRaises
  <2>3. DictOf(ac', p) = DictOf(reg, p)
    <3> HIDE DEF reg
    <3> QED BY <1>4 DEF DictOf
  <2> QED BY <2>2, <2>3 DEF Raised
<1> HIDE DEF cb, reg
<1>14. PICK w, l, a, s, subs, open, alive, mon, tidy :
        /\ w = cmds /\ l = Incoming /\ a = ac /\ s = Has(c, "SUBSCRIBED") /\ subs = server.subs
        /\ open = Open /\ alive = Alive /\ mon = Monitored /\ tidy = Tidy
  OBVIOUS
<1>15. PICK b, s2, alive2, mon2, tidy2, x2 :
        /\ b = ac' /\ s2 = Has(c, "SUBSCRIBED")' /\ alive2 = Alive' /\ mon2 = Monitored' /\ tidy2 = Tidy'
        /\ x2 = Sending'
  OBVIOUS
<1>16. w \in Seq(CommandType) /\ l \in Seq(AnyMessage) /\ Len(w) = issued
  BY <1>2, <1>14, IncomingIs
<1>17. Posts(w, l, x \o y, a, s, subs, open, alive, mon, tidy)
  BY <1>6, <1>14 DEF Posted
<1>18. tidy => \A k \in Everyone(a) : k \in 1..Len(w) /\ w[k].op = "get"
  BY <1>10, <1>14
<1>19. (alive2 => alive) /\ (alive2 => y = <<>>) /\ x2 = IF alive2 THEN x \o <<Len(w) + 1>> ELSE x
  BY <1>2, <1>6, <1>14, <1>15
<1>20. /\ ~s => subs = {}
       /\ ~s => \A i \in 1..Len(l) : l[i].op # "subscribe"
       /\ ~s => \A k \in Of(x \o y) : w[k].op # "subscribe"
  BY <1>6, <1>14, Unsubscribed
<1>21. s => s2
  BY <1>5, <1>14, <1>15 DEF Has
<1>22. \A p \in BOOLEAN, t \in DOMAIN Hash : dictHas(DictOf(a, p), t) => dictHas(DictOf(b, p), t)
  BY <1>13, <1>14, <1>15
<1>23. (mon => mon2) /\ (tidy2 => tidy) /\ (tidy2 => m.op # "monitor")
  BY <1>7, <1>8, <1>14, <1>15
<1>24. PICK nw : nw = new
  OBVIOUS
<1>25. /\ nw = IF m.op = "get" THEN {Len(w) + 1} ELSE {}
       /\ tidy2 => Everyone(b) = Everyone(a) \cup nw
       /\ tidy2 => Ids(b.replies) \subseteq Ids(a.replies) \cup IF s THEN {} ELSE nw
  BY <1>11, <1>12, <1>14, <1>15, <1>24
<1> HIDE DEF new
<1>26. Posts(Append(w, m), l, x2, b, s2, subs, open, alive2, mon2, tidy2)
  <2>1. IssuedFrom(w, m, l, x, y, a, s, subs, open, alive, mon, tidy, alive2, x2, b, s2, mon2, tidy2, nw)
    BY <1>16, <1>17, <1>18, <1>19, <1>20, <1>21, <1>22, <1>23, <1>25 DEF IssuedFrom
  <2> QED BY <1>16, <2>1, IssuedPosts
<1>27. Incoming' = l /\ Open' = open /\ Append(w, m) = cmds' /\ subs = server.subs'
  <2>1. c'.inbuf \o down' = c.inbuf \o down
    BY <1>2, <1>5
  <2>2. Incoming' = Incoming
    BY <2>1 DEF Incoming, Letters
  <2> QED BY <1>1, <1>2, <1>14, <2>2 DEF Open
<1>28. Posts(cmds, Incoming, Sending, ac, Has(c, "SUBSCRIBED"), server.subs, Open, Alive, Monitored, Tidy)'
  BY <1>15, <1>26, <1>27
<1> QED BY <1>2, <1>28 DEF Posted

(***************************************************************************)
(* The server                                                              *)
(***************************************************************************)
\* What the server says of a command about subscriptions.
Confirming(m) == {r \in AnyMessage : r.op = m.op /\ (r.op = "subscribe" => r.topic \in DOMAIN Hash)}

LEMMA ConfirmLetters ==
    ASSUME Typed, NEW m \in CommandType, m.op \in {"subscribe", "unsubscribe"}, NEW k \in Nat
    PROVE  /\ Letters(Confirm(m, k).out) \in Seq(Confirming(m))
           /\ m.op = "unsubscribe" => Confirm(m, k).subs \subseteq server.subs
<1> DEFINE topics == Topics(m)
           n == Len(topics)
           base == [subs |-> server.subs, out |-> <<>>]
           B == {a \in Known : /\ Letters(a.out) \in Seq(Confirming(m))
                               /\ m.op = "unsubscribe" => a.subs \subseteq server.subs}
           P == [i \in 0..n |-> B]
<1>1. PICK f \in [SUBSET (1..n) -> Known] :
        Folds(f, Confirms(m, k), base, topics, n) /\ Confirm(m, k) = f[1..n]
  BY ConfirmIs
<1>2. topics \in Seq(DOMAIN Hash)
  BY TopicsTyped
<1> HIDE DEF topics
<1>3. n \in Nat /\ \A i \in 1..n : topics[i] \in DOMAIN Hash
  BY <1>2, LenProperties, ElementOfSeq
<1>4. base \in B
  <2>1. base \in Known
    BY NowTyped DEF Known, Servers
  <2>2. <<>> \in Seq(Confirming(m)) /\ Letters(<<>>) = <<>>
    BY LettersLaws
  <2>3. base.out = <<>> /\ base.subs = server.subs
    OBVIOUS
  <2> HIDE DEF base
  <2> QED BY <2>1, <2>2, <2>3
<1>5. ASSUME NEW a \in B, NEW t \in DOMAIN Hash PROVE Confirms(m, k)[<<a, t>>] \in B
  <2> DEFINE s == Changed(a.subs, m, t)
             r == Notice(m.op, k, t, m.pattern, Cardinality(s))
             b == Confirms(m, k)[<<a, t>>]
  <2>1. a \in Known
    OBVIOUS
  <2>2. b \in Known
    BY <2>1, ConfirmsTyped
  <2>3. b.subs = s /\ b.out = a.out \o Pieces(r)
    BY <2>1 DEF Confirms, Told
  <2>4. r \in Confirming(m)
    <3>1. s \in SUBSET (BOOLEAN \X DOMAIN Hash) /\ IsFiniteSet(s)
      BY <2>1, ChangedTyped DEF Known
    <3> HIDE DEF s
    <3>2. Cardinality(s) \in Nat
      BY <3>1, FS_CardinalityType
    <3> QED BY <3>2 DEF Notice, AnyMessage, Kinds, CommandType, Confirming
  <2>5. s \subseteq a.subs \/ m.op # "unsubscribe"
    BY DEF Changed
  <2> HIDE DEF s, r, b
  <2>6. r \in AnyMessage /\ a.out \in Seq(PieceOf(AnyMessage))
    BY <2>1, <2>4 DEF Confirming, Known
  <2>7. Letters(b.out) = Letters(a.out) \o <<r>>
    <3> DEFINE u == Pieces(r)
               v == a.out
               M == PieceOf(AnyMessage)
    <3>1. u \in Seq(M) /\ v \in Seq(M) /\ Letters(u) = <<r>>
      BY <2>6, PiecesTyped, LettersLaws
    <3>2. b.out = v \o u
      BY <2>3
    <3>3. \A x, y \in Seq(M) : Letters(x \o y) = Letters(x) \o Letters(y)
      BY LettersLaws
    <3> HIDE DEF u, v, M
    <3>4. Letters(v \o u) = Letters(v) \o Letters(u)
      BY <3>1, <3>3
    <3> QED BY <3>1, <3>2, <3>4 DEF v
  <2>8. Letters(b.out) \in Seq(Confirming(m))
    <3> DEFINE e == <<r>>
               g == Letters(a.out)
               M == Confirming(m)
    <3>1. e \in Seq(M) /\ g \in Seq(M)
      BY <2>4
    <3> HIDE DEF e, g, M
    <3>2. g \o e \in Seq(M)
      BY <3>1, ConcatProperties
    <3> QED BY <2>7, <3>2 DEF e, g, M
  <2> QED BY <2>2, <2>3, <2>5, <2>8 DEF b
<1> HIDE DEF base, B
<1>6. \A i \in 0..n - 1 : \A a \in P[i] : Confirms(m, k)[<<a, topics[i + 1]>>] \in P[i + 1]
  <2> TAKE i \in 0..n - 1
  <2> TAKE a \in P[i]
  <2>1. i \in 0..n /\ i + 1 \in 0..n /\ i + 1 \in 1..n
    BY <1>3
  <2>2. a \in B /\ topics[i + 1] \in DOMAIN Hash
    BY <1>3, <2>1
  <2> QED BY <1>5, <2>1, <2>2
<1>7. 0 \in 0..n /\ n \in 0..n
  BY <1>3
<1>8. base \in P[0]
  BY <1>4, <1>7
<1>9. f[1..n] \in P[n]
  <2> HIDE DEF P
  <2> QED BY <1>1, <1>3, <1>6, <1>8, FoldsInduction
<1>10. Confirm(m, k) \in B
  BY <1>1, <1>7, <1>9
<1> QED BY <1>10 DEF B

\* The server serves command k and sends the letters n.
ServedFrom(w, k, l, n, x, a, s, subs, open, alive, mon, tidy, subs2) ==
    /\ Posts(w, l, <<k>> \o x, a, s, subs, open, alive, mon, tidy)
    /\ tidy => \A j \in Everyone(a) : j \in Nat /\ w[j].op = "get"
    /\ open
    /\ \/ /\ w[k].op \in {"get", "monitor"} /\ subs2 = subs
          /\ \E r \in AnyMessage : n = <<r>> /\ r.op \in {"answer", "error"} /\ r.req = k
       \/ /\ w[k].op = "subscribe"
          /\ \A i \in 1..Len(n) : n[i].op = "subscribe" /\ n[i].topic \in DOMAIN Hash
       \/ /\ w[k].op = "unsubscribe" /\ subs2 \subseteq subs
          /\ \A i \in 1..Len(n) : n[i].op = "unsubscribe"

LEMMA ServedPosts ==
    ASSUME NEW w \in Seq(CommandType), NEW k \in 1..Len(w), NEW l \in Seq(AnyMessage),
           NEW n \in Seq(AnyMessage), NEW x \in Seq(Nat), NEW a, NEW s, NEW subs, NEW open, NEW alive,
           NEW mon, NEW tidy, NEW subs2,
           ServedFrom(w, k, l, n, x, a, s, subs, open, alive, mon, tidy, subs2)
    PROVE  Posts(w, l \o n, x, a, s, subs2, open, alive, mon, tidy)
<1> DEFINE e == <<k>>
           f == Answered(l)
           g == Answered(n)
           z == f \o (e \o x)
           z2 == (f \o g) \o x
           q == Everyone(a)
           r == Ids(a.replies)
<1>1. /\ Stamps(w, l, open, mon) /\ Flow(w, z, q, alive, tidy) /\ News(l, a, s)
      /\ tidy => Ordered(w, l, z, r, subs)
      /\ open
      /\ tidy => \A j \in q : j \in Nat /\ w[j].op = "get"
  BY DEF Posts, ServedFrom
<1>2. /\ f \in Seq(Nat) /\ g \in Seq(Nat) /\ e \in Seq(Nat) /\ k \in Nat /\ Len(w) \in Nat /\ Of(e) = {k}
      /\ Answered(l \o n) = f \o g
  <2>1. f \in Seq(Nat) /\ g \in Seq(Nat)
    BY AnsweredLaws
  <2>2. k \in Nat /\ Len(w) \in Nat
    BY LenProperties
  <2>3. e \in Seq(Nat) /\ Of(e) = {k}
    BY <2>2, OfLaws
  <2>4. \A p, u \in Seq(AnyMessage) : Answered(p \o u) = Answered(p) \o Answered(u)
    BY AnsweredLaws
  <2> QED BY <2>1, <2>2, <2>3, <2>4
<1>3. (w[k].op \in {"get", "monitor"} /\ g = e) \/ (w[k].op \in {"subscribe", "unsubscribe"} /\ g = <<>>)
  <2>1. CASE w[k].op \in {"get", "monitor"}
    <3>1. PICK y \in AnyMessage : n = <<y>> /\ y.op \in {"answer", "error"} /\ y.req = k
      BY <2>1 DEF ServedFrom
    <3>2. AnswersOf(y) = e /\ Answered(<<y>>) = AnswersOf(y)
      BY <3>1, AnsweredLaws DEF AnswersOf
    <3> QED BY <2>1, <3>1, <3>2
  <2>2. CASE w[k].op \notin {"get", "monitor"}
    <3>1. /\ w[k].op \in {"subscribe", "unsubscribe"}
          /\ \A i \in 1..Len(n) : n[i].op \in {"subscribe", "unsubscribe"}
      BY <2>2 DEF ServedFrom
    <3>2. \A i \in 1..Len(n) : AnswersOf(n[i]) = <<>>
      BY <3>1 DEF AnswersOf
    <3>3. \A j : j \notin Of(g)
      <4> SUFFICES ASSUME NEW j, j \in Of(g) PROVE FALSE
        OBVIOUS
      <4>1. PICK i \in 1..Len(n) : AnswersOf(n[i]) = <<j>>
        BY AnsweredLaws
      <4>2. <<j>> # <<>>
        OBVIOUS
      <4> QED BY <3>2, <4>1, <4>2
    <3>4. Of(g) = {}
      BY <3>3
    <3>5. g = <<>>
      <4> HIDE DEF g
      <4> QED BY <1>2, <3>4, OfLaws
    <3> QED BY <3>1, <3>5
  <2> QED BY <2>1, <2>2
<1> HIDE DEF e, f, g, q, r
<1>4. /\ (f \o e) \o x = z /\ e \o x \in Seq(Nat) /\ f \o e \in Seq(Nat) /\ f \o g \in Seq(Nat) /\ f \o <<>> = f
      /\ z \in Seq(Nat) /\ z2 \in Seq(Nat) /\ f \o x \in Seq(Nat)
  <2>0. f \in Seq(Nat) /\ e \in Seq(Nat)
    BY <1>2
  <2>1. (f \o e) \o x = f \o (e \o x)
    BY <2>0, NumbersAssociate
  <2>2. e \o x \in Seq(Nat) /\ f \o e \in Seq(Nat) /\ f \o g \in Seq(Nat) /\ f \o x \in Seq(Nat)
    BY <1>2, ConcatProperties
  <2> DEFINE y == e \o x
             v == f \o g
  <2>3. y \in Seq(Nat) /\ v \in Seq(Nat)
    BY <2>2
  <2> HIDE DEF y, v
  <2>4. f \o y \in Seq(Nat) /\ v \o x \in Seq(Nat)
    BY <1>2, <2>3, ConcatProperties
  <2> QED BY <1>2, <2>1, <2>2, <2>4, ConcatEmptySeq DEF y, v
<1>0. \A p, u \in Seq(Nat) : /\ Of(p \o u) = Of(p) \cup Of(u)
                             /\ Rising(p \o u) <=> Rising(p) /\ Rising(u) /\ Below(Of(p), Of(u))
  BY OfLaws, RisingConcat
<1>5. /\ Rising(z) /\ Of(z) = Of(f) \cup ({k} \cup Of(x)) /\ Rising(f) /\ Rising(x)
      /\ \A i \in Of(f), j \in {k} \cup Of(x) : i < j
      /\ \A j \in Of(x) : k < j
  <2>1. Rising(z)
    BY <1>1 DEF Flow
  <2> DEFINE y == e \o x
  <2>2. y \in Seq(Nat) /\ z = f \o y
    BY <1>4
  <2> HIDE DEF z
  <2>3. Rising(y) /\ Of(y) = {k} \cup Of(x) /\ Below({k}, Of(x)) /\ Rising(x)
    <3>1. Rising(y)
      <4> HIDE DEF y
      <4> QED BY <1>0, <1>2, <2>1, <2>2
    <3> QED BY <1>0, <1>2, <3>1
  <2> HIDE DEF y
  <2>4. Of(z) = Of(f) \cup Of(y) /\ Rising(f) /\ Below(Of(f), Of(y))
    BY <1>0, <1>2, <2>1, <2>2
  <2> QED BY <2>1, <2>3, <2>4 DEF Below
<1>6. Rising(z2) /\ Of(z2) \subseteq Of(z) /\ (w[k].op \in {"get", "monitor"} => z2 = z)
      /\ Of(z) \ Of(z2) \subseteq {k}
  <2>1. CASE g = e /\ w[k].op \in {"get", "monitor"}
    <3>1. z2 = z
      BY <1>4, <2>1
    <3> HIDE DEF z, z2
    <3> QED BY <1>5, <3>1
  <2>2. CASE g = <<>> /\ w[k].op \in {"subscribe", "unsubscribe"}
    <3>1. z2 = f \o x
      BY <1>4, <2>2
    <3> HIDE DEF z, z2
    <3>2. Of(f \o x) = Of(f) \cup Of(x) /\ (Rising(f \o x) <=> Rising(f) /\ Rising(x) /\ Below(Of(f), Of(x)))
      BY <1>0, <1>2
    <3>3. Below(Of(f), Of(x))
      BY <1>5 DEF Below
    <3> QED BY <1>5, <2>2, <3>1, <3>2, <3>3
  <2> QED BY <1>3, <2>1, <2>2
<1> HIDE DEF z, z2
<1>7. Flow(w, z2, q, alive, tidy)
  <2>1. CASE w[k].op \in {"get", "monitor"}
    BY <1>1, <1>6, <2>1
  <2>2. CASE w[k].op \in {"subscribe", "unsubscribe"}
    <3>1. \A j \in Of(z) \ Of(z2) : w[j].op # "get" \/ (~alive /\ \A i \in Of(z2) : i < j)
      BY <1>6, <2>2
    <3>2. tidy => \A j \in q : w[j].op = "get"
      BY <1>1
    <3>3. Flow(w, z, q, alive, tidy) /\ Rising(z2) /\ Of(z2) \subseteq Of(z)
      BY <1>1, <1>6
    <3>4. (alive => alive) /\ (tidy => tidy)
      OBVIOUS
    <3> QED BY ONLY <3>1, <3>2, <3>3, <3>4, FlowDrops
  <2> QED BY <1>3, <2>1, <2>2
<1>8. Stamps(w, l \o n, open, mon)
  <2>1. \A i \in 1..Len(n) : Stamped(w, n[i], l = <<>> /\ Len(n) = 1 /\ ~open, mon)
    <3>1. CASE w[k].op \in {"get", "monitor"}
      <4>1. PICK y \in AnyMessage : n = <<y>> /\ y.op \in {"answer", "error"} /\ y.req = k
        BY <3>1 DEF ServedFrom
      <4>2. \A i \in 1..Len(n) : n[i] = y
        BY <4>1
      <4> QED BY <3>1, <4>1, <4>2 DEF Stamped
    <3>2. CASE w[k].op = "subscribe"
      <4>1. \A i \in 1..Len(n) : n[i].op = "subscribe" /\ n[i].topic \in DOMAIN Hash
        BY <3>2 DEF ServedFrom
      <4> QED BY <4>1 DEF Stamped
    <3>3. CASE w[k].op = "unsubscribe"
      <4>1. \A i \in 1..Len(n) : n[i].op = "unsubscribe"
        BY <3>3 DEF ServedFrom
      <4> QED BY <4>1 DEF Stamped
    <3> QED BY <1>3, <3>1, <3>2, <3>3
  <2>2. (open => open) /\ (mon => mon) /\ (open \/ n = <<>> \/ l = <<>>)
    BY <1>1
  <2>3. Stamps(w, l, open, mon)
    BY <1>1
  <2> QED BY ONLY <2>1, <2>2, <2>3, l \in Seq(AnyMessage), n \in Seq(AnyMessage), JoinedStamps
<1>9. tidy => Ordered(w, l \o n, z2, r, subs2)
  <2> SUFFICES ASSUME tidy PROVE Ordered(w, l \o n, z2, r, subs2)
    OBVIOUS
  <2>1. Ordered(w, l, z, r, subs)
    BY <1>1
  <2>2. (\E i \in 1..Len(n) : n[i].op \in {"subscribe", "message"}) \/ subs2 # {} => Foremost(l, Len(l) + 1, r)
    <3>1. CASE w[k].op \in {"get", "monitor"}
      <4>1. PICK y \in AnyMessage : n = <<y>> /\ y.op \in {"answer", "error"} /\ subs2 = subs
        BY <3>1 DEF ServedFrom
      <4>2. \A i \in 1..Len(n) : n[i] = y
        BY <4>1
      <4> QED BY <2>1, <4>1, <4>2 DEF Ordered
    <3>2. CASE w[k].op = "subscribe"
      <4>1. k \in Of(z)
        BY <1>5
      <4>2. \A j \in r : j < k
        BY <2>1, <3>2, <4>1 DEF Ordered
      <4>3. \A j \in r : j \in Of(f)
        <5> SUFFICES ASSUME NEW j \in r PROVE j \in Of(f)
          OBVIOUS
        <5>1. j \in q
          BY DEF q, r, Everyone
        <5>2. j \in Nat /\ j < k
          BY <1>1, <4>2, <5>1
        <5>3. j \in Of(z) \/ \A i \in Of(z) : i < j
          BY <1>1, <5>1 DEF Flow
        <5>4. j \in Of(z)
          BY <1>2, <4>1, <5>2, <5>3
        <5>5. j # k /\ j \notin Of(x)
          BY <1>2, <1>5, <5>2
        <5> QED BY <1>5, <5>4, <5>5
      <4>4. \A j \in Of(f) : \E i \in 1..Len(l) : AnswersOf(l[i]) = <<j>>
        BY AnsweredLaws DEF f
      <4>5. (Len(l) + 1) - 1 = Len(l)
        BY LenProperties
      <4> QED BY <4>3, <4>4, <4>5 DEF Foremost
    <3>3. CASE w[k].op = "unsubscribe"
      <4>1. (\A i \in 1..Len(n) : n[i].op = "unsubscribe") /\ subs2 \subseteq subs
        BY <3>3 DEF ServedFrom
      <4> QED BY <2>1, <4>1 DEF Ordered
    <3> QED BY <1>3, <3>1, <3>2, <3>3
  <2>3. Of(z2) \subseteq Of(z)
    BY <1>6
  <2> QED BY ONLY <2>1, <2>2, <2>3, l \in Seq(AnyMessage), n \in Seq(AnyMessage), JoinedOrdered
<1>10. News(l \o n, a, s)
  <2>1. \A i \in 1..Len(n) : n[i].op # "message"
    <3>1. CASE w[k].op \in {"get", "monitor"}
      <4>1. PICK y \in AnyMessage : n = <<y>> /\ y.op \in {"answer", "error"}
        BY <3>1 DEF ServedFrom
      <4> QED BY <4>1
    <3>2. CASE w[k].op \in {"subscribe", "unsubscribe"}
      BY <3>2 DEF ServedFrom
    <3> QED BY <1>3, <3>1, <3>2
  <2>2. News(l, a, s)
    BY <1>1
  <2> QED BY ONLY <2>1, <2>2, l \in Seq(AnyMessage), n \in Seq(AnyMessage), JoinedNews
<1>11. Answered(l \o n) \o x = z2
  BY <1>2 DEF z2
<1> QED BY <1>7, <1>8, <1>9, <1>10, <1>11 DEF Posts, q, r

LEMMA IncomingGrows ==
    ASSUME Typed, UNCHANGED c, NEW d \in Seq(PieceOf(AnyMessage)), down' = down \o d
    PROVE  Incoming' = Incoming \o Letters(d) /\ Letters(d) \in Seq(AnyMessage)
<1> DEFINE P == PieceOf(AnyMessage)
           i == c.inbuf
           u == down
           h == i \o u
<1>1. i \in Seq(P) /\ u \in Seq(P) /\ d \in Seq(P)
  BY StreamsTyped
<1>2. Incoming' = Letters(i \o (u \o d))
  BY DEF Incoming, Letters
<1> HIDE DEF P, i, u
<1>3. i \o (u \o d) = h \o d /\ h \in Seq(P)
  BY ONLY <1>1, ConcatAssociative, ConcatProperties, SMTT(60)
<1>4. /\ \A x, y \in Seq(P) : Letters(x \o y) = Letters(x) \o Letters(y)
      /\ \A x \in Seq(P) : Letters(x) \in Seq(AnyMessage)
  BY LettersLaws DEF P
<1>5. Incoming = Letters(h)
  BY DEF Incoming, i, u
<1> HIDE DEF h
<1>6. Letters(h \o d) = Letters(h) \o Letters(d)
  BY <1>1, <1>3, <1>4
<1> QED BY <1>1, <1>2, <1>3, <1>4, <1>5, <1>6

\* The regular commands of those who wait, if no answer went astray.
LEMMA WaitingGet ==
    ASSUME Typed, Placed, pc \in Served, Tidy
    PROVE  \A k \in Everyone(ac) : k \in 1..Len(cmds) /\ cmds[k].op = "get"
<1>1. Queued(ac, cmds)
  BY DEF Tidy, Placed, Served, InLoop
<1> QED BY <1>1 DEF Queued, Queue, Ids, Everyone

LEMMA AsyncServePosted ==
    ASSUME Typed, Placed, Heard, Posted, pc \in Served, AsyncServe, Control
    PROVE  Posted'
<1> DEFINE k == First(up)
           m == cmds[k]
           v == Letters(c.inbuf \o down)
<1>1. pc = "loop" /\ UNCHANGED <<pc, c, ac, cmds, peer, faults>> /\ Whole(up) /\ up' = Behind(up)
  BY DEF AsyncServe, Peer, Has, Control, Mode
<1>2. pc \in Served /\ pc \in InLoop
  BY <1>1 DEF Served, InLoop
<1>3. k \in 1..Len(cmds) /\ Len(cmds) = issued /\ cmds \in Seq(CommandType)
  BY <1>1, <1>2, WholeTyped DEF Typed, Counted, Answering
<1>4. m \in CommandType /\ k \in Nat
  BY <1>3, ElementOfSeq
<1>5. peer = "up"
  <2> SUFFICES ASSUME peer # "up" PROVE FALSE
    OBVIOUS
  <2>1. up = <<>>
    BY DEF Posted
  <2> QED BY <1>1, <2>1, StreamsTyped, EmptyNotWhole DEF Numbered
<1>6. Sending = <<k>> \o Sending' /\ Sending' \in Seq(Nat)
  <2> DEFINE g == IF Alive THEN Commands(c.obuf.chars) ELSE <<>>
             b == Commands(Behind(up))
             e == <<k>>
  <2>1. up \in Seq(PieceOf(Nat)) /\ c.obuf.chars \in Seq(PieceOf(Nat)) /\ Behind(up) \in Seq(PieceOf(Nat))
    BY <1>1, SendingTyped, CommandsWhole
  <2>2. Commands(up) = e \o b
    BY <1>1, <2>1, CommandsWhole
  <2>3. g \in Seq(Nat) /\ b \in Seq(Nat) /\ e \in Seq(Nat)
    BY <1>4, <2>1, CommandsType
  <2>4. Sending = Commands(up) \o g
    BY DEF Sending
  <2>5. Sending' = b \o g
    BY <1>1 DEF Sending, Alive, Open, Commands
  <2> HIDE DEF g, b, e
  <2>6. (e \o b) \o g = e \o (b \o g)
    BY <2>3, NumbersAssociate
  <2>7. b \o g \in Seq(Nat)
    BY <2>3, ConcatProperties
  <2> QED BY <2>2, <2>4, <2>5, <2>6, <2>7 DEF e
<1> DEFINE x == Topics(m) # <<>>
           no == Notice("unsubscribe", k, "nil", m.pattern, Cardinality(server.subs))
<1>a. no \in AnyMessage
  <2>1. Cardinality(server.subs) \in Nat
    BY NowTyped, FS_CardinalityType DEF Servers
  <2> QED BY <1>4, <2>1 DEF Notice, AnyMessage, Kinds, CommandType
<1>b. \A op \in {"answer", "error"} : Reply(op, k) \in AnyMessage /\ Reply(op, k).op = op /\ Reply(op, k).req = k
  BY <1>4 DEF Reply, AnyMessage
<1>c. \A r \in AnyMessage : Pieces(r) \in Seq(PieceOf(AnyMessage)) /\ Letters(Pieces(r)) = <<r>>
  BY PiecesTyped, LettersLaws
<1>7. PICK d \in Seq(PieceOf(AnyMessage)) :
        /\ down' = down \o d
        /\ \/ /\ m.op \in {"get", "monitor"} /\ server'.subs = server.subs
              /\ \E r \in AnyMessage : Letters(d) = <<r>> /\ r.op \in {"answer", "error"} /\ r.req = k
           \/ m.op = "subscribe" /\ Letters(d) \in Seq(Confirming(m))
           \/ /\ m.op = "unsubscribe" /\ server'.subs \subseteq server.subs
              /\ Letters(d) \in Seq(Confirming(m))
  <2>1. CASE m.op \in {"subscribe", "unsubscribe"} /\ x
    <3>1. down' = down \o Confirm(m, k).out /\ server'.subs = Confirm(m, k).subs
      BY <2>1, NowTyped DEF AsyncServe, Servers
    <3> HIDE DEF k, m, x
    <3>2. Confirm(m, k) \in Known
      BY <1>4, <2>1, ConfirmTyped
    <3>3. Confirm(m, k).out \in Seq(PieceOf(AnyMessage))
      BY <3>2 DEF Known
    <3>4. /\ Letters(Confirm(m, k).out) \in Seq(Confirming(m))
          /\ m.op = "unsubscribe" => Confirm(m, k).subs \subseteq server.subs
      BY <1>4, <2>1, ConfirmLetters
    <3> QED BY <2>1, <3>1, <3>3, <3>4
  <2>2. CASE m.op = "unsubscribe" /\ ~x
    <3>1. down' = down \o Pieces(no) /\ server' = server
      BY <2>2 DEF AsyncServe
    <3>2. no \in Confirming(m)
      BY <1>a, <2>2 DEF Confirming, Notice
    <3> HIDE DEF k, m, x, no
    <3>3. <<no>> \in Seq(Confirming(m))
      BY <3>2
    <3> QED BY <1>a, <1>c, <2>2, <3>1, <3>3
  <2>3. CASE m.op \in {"get", "monitor"} /\ server.subs # {}
    <3>1. down' = down \o Pieces(Reply("error", k)) /\ server' = server
      BY <2>3 DEF AsyncServe
    <3> HIDE DEF k, m, x, no
    <3> QED BY <1>b, <1>c, <2>3, <3>1
  <2>4. CASE m.op \in {"get", "monitor"} /\ server.subs = {}
    <3>1. down' = down \o Pieces(Reply("answer", k)) /\ server'.subs = server.subs
      <4>1. server' = [server EXCEPT !.monitor = @ \/ m.op = "monitor"] /\ down' = down \o Pieces(Reply("answer", k))
        BY <2>4 DEF AsyncServe
      <4> HIDE DEF m, k, x, no
      <4> QED BY <4>1, NowTyped DEF Servers
    <3> HIDE DEF k, m, x, no
    <3> QED BY <1>b, <1>c, <2>4, <3>1
  <2>5. m.op = "subscribe" => x
    <3>1. m.op = "subscribe" => m.topics # <<>>
      BY <1>4 DEF CommandType
    <3> HIDE DEF k, m
    <3> QED BY <3>1 DEF Topics
  <2>6. m.op \in {"get", "monitor", "subscribe", "unsubscribe"}
    BY <1>4 DEF CommandType
  <2> HIDE DEF k, m, no, x
  <2> QED BY <2>1, <2>2, <2>3, <2>4, <2>5, <2>6
<1> HIDE DEF k, m, v, x, no
<1>8. Incoming' = Incoming \o Letters(d) /\ Letters(d) \in Seq(AnyMessage) /\ Incoming \in Seq(AnyMessage)
  BY <1>1, <1>7, IncomingGrows, IncomingIs
<1>9. PICK w, l, n, y, a, s, subs, open, alive, mon, tidy, subs2 :
        /\ w = cmds /\ l = Incoming /\ n = Letters(d) /\ y = Sending' /\ a = ac /\ s = Has(c, "SUBSCRIBED")
        /\ subs = server.subs /\ open = Open /\ alive = Alive /\ mon = Monitored /\ tidy = Tidy /\ subs2 = server'.subs
  OBVIOUS
<1>10. ServedFrom(w, k, l, n, y, a, s, subs, open, alive, mon, tidy, subs2)
  <2>1. Posts(w, l, <<k>> \o y, a, s, subs, open, alive, mon, tidy)
    BY <1>6, <1>9 DEF Posted
  <2>2. tidy => \A j \in Everyone(a) : j \in Nat /\ w[j].op = "get"
    BY <1>3, <1>9, WaitingGet
  <2>3. open
    BY <1>5, <1>9 DEF Open
  <2>4. \/ /\ w[k].op \in {"get", "monitor"} /\ subs2 = subs
           /\ \E r \in AnyMessage : n = <<r>> /\ r.op \in {"answer", "error"} /\ r.req = k
        \/ w[k].op = "subscribe" /\ n \in Seq(Confirming(m))
        \/ w[k].op = "unsubscribe" /\ subs2 \subseteq subs /\ n \in Seq(Confirming(m))
    BY <1>7, <1>9 DEF m
  <2>5. ASSUME n \in Seq(Confirming(m))
        PROVE  \A i \in 1..Len(n) : n[i].op = m.op /\ (n[i].op = "subscribe" => n[i].topic \in DOMAIN Hash)
    <3>1. \A i \in 1..Len(n) : n[i] \in Confirming(m)
      BY <2>5, ElementOfSeq
    <3> QED BY <3>1 DEF Confirming
  <2>6. m = w[k]
    BY <1>9 DEF m
  <2>7. \/ /\ w[k].op \in {"get", "monitor"} /\ subs2 = subs
           /\ \E r \in AnyMessage : n = <<r>> /\ r.op \in {"answer", "error"} /\ r.req = k
        \/ /\ w[k].op = "subscribe"
           /\ \A i \in 1..Len(n) : n[i].op = "subscribe" /\ n[i].topic \in DOMAIN Hash
        \/ /\ w[k].op = "unsubscribe" /\ subs2 \subseteq subs
           /\ \A i \in 1..Len(n) : n[i].op = "unsubscribe"
    BY <2>4, <2>5, <2>6
  <2> QED BY <2>1, <2>2, <2>3, <2>7 DEF ServedFrom
<1>11. w \in Seq(CommandType) /\ k \in 1..Len(w) /\ l \in Seq(AnyMessage) /\ n \in Seq(AnyMessage) /\ y \in Seq(Nat)
  BY <1>3, <1>6, <1>8, <1>9
<1>12. Posts(w, l \o n, y, a, s, subs2, open, alive, mon, tidy)
  BY <1>10, <1>11, ServedPosts
<1>13. /\ w = cmds' /\ l \o n = Incoming' /\ y = Sending' /\ a = ac' /\ s = Has(c, "SUBSCRIBED")' /\ subs2 = server'.subs
       /\ open = Open' /\ alive = Alive' /\ mon = Monitored' /\ tidy = Tidy'
  BY <1>1, <1>8, <1>9 DEF Open, Alive, Monitored, Tidy, Has
<1>14. Posts(cmds, Incoming, Sending, ac, Has(c, "SUBSCRIBED"), server.subs, Open, Alive, Monitored, Tidy)'
  BY <1>12, <1>13
<1> QED BY <1>1, <1>5, <1>14 DEF Posted

\* The server sends r of its own: what is no reply, a line if there is a monitor,
\* or a message about a topic that it has subscribed.
PublishedFrom(w, l, r, x, a, s, subs, open, alive, mon, tidy) ==
    /\ Posts(w, l, x, a, s, subs, open, alive, mon, tidy)
    /\ open
    /\ \/ r.op = "garbage"
       \/ r.op = "line" /\ mon
       \/ /\ r.op = "message" /\ subs # {} /\ r.topic \in DOMAIN Hash
          /\ Told1(r, a, s) /\ Settled(l, Len(l) + 1, r.pattern, r.topic)

LEMMA PublishedPosts ==
    ASSUME NEW w, NEW l \in Seq(AnyMessage), NEW r \in AnyMessage, NEW x \in Seq(Nat), NEW a, NEW s, NEW subs,
           NEW open, NEW alive, NEW mon, NEW tidy,
           PublishedFrom(w, l, r, x, a, s, subs, open, alive, mon, tidy)
    PROVE  Posts(w, l \o <<r>>, x, a, s, subs, open, alive, mon, tidy)
<1> DEFINE n == <<r>>
           f == Answered(l)
           z == f \o x
<1>1. /\ Stamps(w, l, open, mon) /\ Flow(w, z, Everyone(a), alive, tidy) /\ News(l, a, s)
      /\ tidy => Ordered(w, l, z, Ids(a.replies), subs)
      /\ open /\ r.op \in {"garbage", "line", "message"} /\ (r.op = "line" => mon)
      /\ r.op = "message" => /\ subs # {} /\ r.topic \in DOMAIN Hash
                             /\ Told1(r, a, s) /\ Settled(l, Len(l) + 1, r.pattern, r.topic)
  BY DEF Posts, PublishedFrom
<1>2. n \in Seq(AnyMessage) /\ Len(n) = 1 /\ n[1] = r /\ \A i \in 1..Len(n) : n[i] = r
  OBVIOUS
<1>3. Answered(n) = <<>> /\ f \in Seq(Nat)
  <2>1. Answered(n) = AnswersOf(r) /\ f \in Seq(Nat)
    BY AnsweredLaws
  <2> QED BY <1>1, <2>1 DEF AnswersOf
<1> HIDE DEF n
<1>4. Answered(l \o n) = f
  <2>1. \A p, u \in Seq(AnyMessage) : Answered(p \o u) = Answered(p) \o Answered(u)
    BY AnsweredLaws
  <2>2. Answered(l \o n) = f \o <<>>
    BY <1>2, <1>3, <2>1
  <2> HIDE DEF f
  <2> QED BY <1>3, <2>2, ConcatEmptySeq
<1> HIDE DEF f, z
<1>5. Stamps(w, l \o n, open, mon)
  <2>1. \A i \in 1..Len(n) : Stamped(w, n[i], l = <<>> /\ Len(n) = 1 /\ ~open, mon)
    BY <1>1, <1>2 DEF Stamped
  <2>2. (open => open) /\ (mon => mon) /\ (open \/ n = <<>> \/ l = <<>>)
    BY <1>1
  <2>3. Stamps(w, l, open, mon) /\ n \in Seq(AnyMessage)
    BY <1>1, <1>2
  <2> QED BY ONLY <2>1, <2>2, <2>3, l \in Seq(AnyMessage), JoinedStamps
<1>6. tidy => Ordered(w, l \o n, z, Ids(a.replies), subs)
  <2> SUFFICES ASSUME tidy PROVE Ordered(w, l \o n, z, Ids(a.replies), subs)
    OBVIOUS
  <2>1. Ordered(w, l, z, Ids(a.replies), subs)
    BY <1>1
  <2>2. (\E i \in 1..Len(n) : n[i].op \in {"subscribe", "message"}) \/ subs # {} =>
          Foremost(l, Len(l) + 1, Ids(a.replies))
    BY <1>1, <1>2, <2>1 DEF Ordered
  <2>3. Of(z) \subseteq Of(z) /\ n \in Seq(AnyMessage)
    BY <1>2
  <2> QED BY ONLY <2>1, <2>2, <2>3, l \in Seq(AnyMessage), JoinedOrdered
<1>7. News(l \o n, a, s)
  <2>1. \A i \in 1..Len(n) : n[i].op = "message" =>
          /\ Told1(n[i], a, s) /\ Settled(l, Len(l) + 1, n[i].pattern, n[i].topic)
          /\ \A j \in 1..Len(n) : n[j].op # "unsubscribe"
    BY <1>1, <1>2
  <2>2. News(l, a, s) /\ n \in Seq(AnyMessage)
    BY <1>1, <1>2
  <2> QED BY ONLY <2>1, <2>2, l \in Seq(AnyMessage), JoinedNews
<1> QED BY <1>1, <1>4, <1>5, <1>6, <1>7 DEF Posts, n, z

LEMMA PublishPosted ==
    ASSUME Typed, Placed, Heard, Posted, pc \in Served, Publish
    PROVE  Posted'
<1>1. UNCHANGED <<pc, c, ac, cmds, up, peer, faults>> /\ peer = "up" /\ server'.subs = server.subs
  <2>1. server' = [server EXCEPT !.published = @ + 1]
    BY DEF Publish
  <2> QED BY <2>1, NowTyped DEF Publish, Servers
<1>2. PICK r \in {Notice("message", 0, s[2], s[1], 0) : s \in server.subs} \cup
                    IF server.monitor THEN {Reply("line", 0)} ELSE {} : down' = down \o Pieces(r)
  BY DEF Publish
<1>3. /\ r \in AnyMessage
      /\ \/ r.op = "line" /\ Monitored
         \/ /\ r.op = "message" /\ server.subs # {} /\ r.topic \in DOMAIN Hash
            /\ Told1(r, ac, Has(c, "SUBSCRIBED")) /\ Settled(Incoming, Len(Incoming) + 1, r.pattern, r.topic)
  <2>1. CASE r = Reply("line", 0) /\ server.monitor
    <3>1. Monitored
      BY <2>1 DEF Placed, Served, InLoop
    <3> QED BY <2>1, <3>1 DEF Reply, AnyMessage
  <2>2. CASE \E s \in server.subs : r = Notice("message", 0, s[2], s[1], 0)
    <3>1. PICK s \in server.subs : r = Notice("message", 0, s[2], s[1], 0)
      BY <2>2
    <3>2. s \in BOOLEAN \X DOMAIN Hash
      BY <3>1, NowTyped DEF Servers
    <3>3. PICK p \in BOOLEAN, t \in DOMAIN Hash : s = <<p, t>> /\ r = Notice("message", 0, t, p, 0)
      BY <3>1, <3>2
    <3>4. r \in AnyMessage /\ r.op = "message" /\ r.topic = t /\ r.pattern = p /\ <<p, t>> \in server.subs
      BY <3>1, <3>3 DEF Notice, AnyMessage, Kinds
    <3>5. Kept1(p, t)
      BY DEF Heard
    <3>6. Has(c, "SUBSCRIBED") /\ dictHas(DictOf(ac, p), t) /\ LastWord(Word(p, t), TRUE)
      BY <3>4, <3>5 DEF Kept1, Covered, LastWord
    <3>7. Told1(r, ac, Has(c, "SUBSCRIBED"))
      BY <3>4, <3>6 DEF Told1
    <3>8. Settled(Incoming, Len(Incoming) + 1, p, t)
      <4> DEFINE u == c.inbuf \o down
      <4>1. u \in Seq(PieceOf(AnyMessage))
        <5> DEFINE i == c.inbuf
                   P == PieceOf(AnyMessage)
        <5>1. i \in Seq(P) /\ down \in Seq(P)
          BY StreamsTyped
        <5> HIDE DEF i, P
        <5>2. i \o down \in Seq(P)
          BY <5>1, ConcatProperties
        <5> QED BY <5>2 DEF i, P
      <4>2. LastWord(Talk(p, t, u), TRUE)
        BY <3>6 DEF Word
      <4>3. Incoming = Letters(u)
        BY DEF Incoming
      <4> HIDE DEF u
      <4> QED BY <4>1, <4>2, <4>3, LastSettles
    <3> QED BY <3>4, <3>7, <3>8
  <2> QED BY <1>2, <2>1, <2>2
<1>4. Pieces(r) \in Seq(PieceOf(AnyMessage)) /\ Letters(Pieces(r)) = <<r>>
  BY <1>3, PiecesTyped, LettersLaws
<1>5. Incoming' = Incoming \o <<r>> /\ Incoming \in Seq(AnyMessage)
  <2>1. down' = down \o Pieces(r)
    BY <1>2
  <2> QED BY <1>1, <1>4, <2>1, IncomingGrows, IncomingIs
<1>6. Sending' = Sending /\ Sending \in Seq(Nat)
  BY <1>1, SendingTyped DEF Sending, Alive, Open, Commands
<1>7. PICK w, l, y, a, s, subs, open, alive, mon, tidy :
        /\ w = cmds /\ l = Incoming /\ y = Sending /\ a = ac /\ s = Has(c, "SUBSCRIBED")
        /\ subs = server.subs /\ open = Open /\ alive = Alive /\ mon = Monitored /\ tidy = Tidy
  OBVIOUS
<1>8. PublishedFrom(w, l, r, y, a, s, subs, open, alive, mon, tidy)
  <2>1. Posts(w, l, y, a, s, subs, open, alive, mon, tidy)
    BY <1>7 DEF Posted
  <2>2. open
    BY <1>1, <1>7 DEF Open
  <2> QED BY <1>3, <1>7, <2>1, <2>2 DEF PublishedFrom
<1>9. Posts(w, l \o <<r>>, y, a, s, subs, open, alive, mon, tidy)
  <2>1. l \in Seq(AnyMessage) /\ y \in Seq(Nat) /\ r \in AnyMessage
    BY <1>3, <1>5, <1>6, <1>7
  <2> QED BY <1>8, <2>1, PublishedPosts
<1>10. /\ w = cmds' /\ l \o <<r>> = Incoming' /\ y = Sending' /\ a = ac' /\ s = Has(c, "SUBSCRIBED")'
       /\ subs = server'.subs
       /\ open = Open' /\ alive = Alive' /\ mon = Monitored' /\ tidy = Tidy'
  BY <1>1, <1>5, <1>6, <1>7 DEF Open, Alive, Monitored, Tidy, Has
<1>11. Posts(cmds, Incoming, Sending, ac, Has(c, "SUBSCRIBED"), server.subs, Open, Alive, Monitored, Tidy)'
  BY <1>9, <1>10
<1> QED BY <1>1, <1>11 DEF Posted

\* The connection ends; if it never was, there may be one error.
EndedFrom(w, l, n, x, a, s, subs, open, alive, mon, tidy) ==
    /\ Posts(w, l, x, a, s, subs, open, alive, mon, tidy)
    /\ tidy => \A j \in Everyone(a) : j \in Nat /\ w[j].op = "get"
    /\ \/ n = <<>>
       \/ l = <<>> /\ \E r \in AnyMessage : n = <<r>> /\ r.op = "error" /\ r.req = 0

LEMMA EndedPosts ==
    ASSUME NEW w, NEW l \in Seq(AnyMessage), NEW n \in Seq(AnyMessage), NEW x \in Seq(Nat), NEW a, NEW s, NEW subs,
           NEW open, NEW alive, NEW mon, NEW tidy, EndedFrom(w, l, n, x, a, s, subs, open, alive, mon, tidy),
           NEW open2, ~open2, NEW alive2, ~alive2
    PROVE  Posts(w, l \o n, <<>>, a, s, subs, open2, alive2, mon, tidy)
<1> DEFINE f == Answered(l)
           z == f \o x
           q == Everyone(a)
           r == Ids(a.replies)
<1>1. /\ Stamps(w, l, open, mon) /\ Flow(w, z, q, alive, tidy) /\ News(l, a, s)
      /\ tidy => Ordered(w, l, z, r, subs)
      /\ tidy => \A j \in q : j \in Nat /\ w[j].op = "get"
  BY DEF Posts, EndedFrom
<1>2. /\ n = <<>> \/ (l = <<>> /\ Len(n) = 1)
      /\ \A i \in 1..Len(n) : n[i].op = "error" /\ n[i].req = 0
  <2>1. CASE n = <<>>
    <3>1. Len(n) = 0
      BY <2>1
    <3> QED BY <2>1, <3>1
  <2>2. CASE n # <<>>
    <3>1. PICK y \in AnyMessage : n = <<y>> /\ y.op = "error" /\ y.req = 0 /\ l = <<>>
      BY <2>2 DEF EndedFrom
    <3>2. Len(n) = 1 /\ \A i \in 1..Len(n) : n[i] = y
      BY <3>1
    <3> QED BY <3>1, <3>2
  <2> QED BY <2>1, <2>2
<1>3. Answered(n) = <<>>
  <2> DEFINE g == Answered(n)
  <2>1. g \in Seq(Nat) /\ \A k : k \in Of(g) <=> \E i \in 1..Len(n) : AnswersOf(n[i]) = <<k>>
    BY AnsweredLaws
  <2>2. \A i \in 1..Len(n) : AnswersOf(n[i]) = <<>>
    BY <1>2 DEF AnswersOf
  <2>3. \A k : <<k>> # <<>>
    OBVIOUS
  <2> HIDE DEF g
  <2>4. Of(g) = {}
    BY <2>1, <2>2, <2>3
  <2>5. g = <<>>
    BY <2>1, <2>4, OfLaws
  <2> QED BY <2>5 DEF g
<1>4. f \in Seq(Nat) /\ f \o <<>> = f
  <2>1. f \in Seq(Nat)
    BY AnsweredLaws
  <2> HIDE DEF f
  <2> QED BY <2>1, ConcatEmptySeq
<1>5. Answered(l \o n) \o <<>> = f
  <2>1. \A p, u \in Seq(AnyMessage) : Answered(p \o u) = Answered(p) \o Answered(u)
    BY AnsweredLaws
  <2>2. Answered(l \o n) = f \o <<>>
    BY <1>3, <2>1
  <2> QED BY <1>4, <2>2
<1> HIDE DEF f, q, r
<1>6. Rising(f) /\ Of(z) = Of(f) \cup Of(x) /\ Below(Of(f), Of(x))
  <2>1. Rising(z)
    BY <1>1 DEF Flow
  <2> QED BY <1>4, <2>1, OfLaws, RisingConcat
<1> HIDE DEF z
<1>7. Flow(w, f, q, alive2, tidy)
  <2>1. \A k \in Of(z) \ Of(f) : w[k].op # "get" \/ (~alive2 /\ \A j \in Of(f) : j < k)
    BY <1>6 DEF Below
  <2>2. tidy => \A j \in q : w[j].op = "get"
    BY <1>1
  <2>3. Flow(w, z, q, alive, tidy) /\ Rising(f) /\ Of(f) \subseteq Of(z) /\ (alive2 => alive) /\ (tidy => tidy)
    BY <1>1, <1>6
  <2> QED BY ONLY <2>1, <2>2, <2>3, FlowDrops
<1>8. Stamps(w, l \o n, open2, mon)
  <2>1. CASE n = <<>>
    <3>1. l \o n = l
      BY <2>1, ConcatEmptySeq
    <3> QED BY <1>1, <3>1 DEF Stamps, Stamped
  <2>2. CASE l = <<>> /\ Len(n) = 1
    <3>1. l \o n = n
      BY <2>2, ConcatEmptySeq
    <3> QED BY <1>2, <2>2, <3>1 DEF Stamps, Stamped
  <2> QED BY <1>2, <2>1, <2>2
<1>9. tidy => Ordered(w, l \o n, f, r, subs)
  <2> SUFFICES ASSUME tidy PROVE Ordered(w, l \o n, f, r, subs)
    OBVIOUS
  <2>1. Ordered(w, l, z, r, subs)
    BY <1>1
  <2>2. (\E i \in 1..Len(n) : n[i].op \in {"subscribe", "message"}) \/ subs # {} => Foremost(l, Len(l) + 1, r)
    BY <1>2, <2>1 DEF Ordered
  <2>3. Of(f) \subseteq Of(z)
    BY <1>6
  <2> QED BY ONLY <2>1, <2>2, <2>3, l \in Seq(AnyMessage), n \in Seq(AnyMessage), JoinedOrdered
<1>10. News(l \o n, a, s)
  <2>1. \A i \in 1..Len(n) : n[i].op # "message"
    BY <1>2
  <2>2. News(l, a, s)
    BY <1>1
  <2> QED BY ONLY <2>1, <2>2, l \in Seq(AnyMessage), n \in Seq(AnyMessage), JoinedNews
<1> QED BY <1>5, <1>7, <1>8, <1>9, <1>10 DEF Posts, q, r

\* The steps of the server that take no command.
LEMMA ServerEndsPosted ==
    ASSUME Typed, Placed, Heard, Posted, pc \in Served, UNCHANGED <<pc, c, ac, cmds, faults>>,
           server'.subs = server.subs, up' = <<>>, peer' \in {"closed", "refused"},
           NEW d \in Seq(PieceOf(AnyMessage)), down' = down \o d,
           \/ Letters(d) = <<>>
           \/ /\ Incoming = <<>>
              /\ \E r \in AnyMessage : Letters(d) = <<r>> /\ r.op = "error" /\ r.req = 0
    PROVE  Posted'
<1>1. Incoming' = Incoming \o Letters(d) /\ Letters(d) \in Seq(AnyMessage) /\ Incoming \in Seq(AnyMessage)
  BY IncomingGrows, IncomingIs
<1>2. ~Open' /\ ~Alive'
  BY DEF Open, Alive
<1>3. Sending' = <<>> /\ Sending \in Seq(Nat)
  <2>1. Commands(<<>>) = <<>> /\ <<>> \o <<>> = <<>> /\ Sending \in Seq(Nat)
    <3>1. <<>> \in Seq(Nat) /\ \A y \in Seq(Nat) : y \o <<>> = y
      BY ConcatEmptySeq
    <3> QED BY <3>1, SendingTyped
  <2>2. Sending' = Commands(<<>>) \o <<>>
    BY <1>2 DEF Sending, Commands
  <2> QED BY <2>1, <2>2
<1>4. PICK w, l, n, y, a, s, subs, open, alive, mon, tidy :
        /\ w = cmds /\ l = Incoming /\ n = Letters(d) /\ y = Sending /\ a = ac /\ s = Has(c, "SUBSCRIBED")
        /\ subs = server.subs /\ open = Open /\ alive = Alive /\ mon = Monitored /\ tidy = Tidy
  OBVIOUS
<1>5. PICK open2, alive2 : open2 = Open' /\ alive2 = Alive'
  OBVIOUS
<1>6. EndedFrom(w, l, n, y, a, s, subs, open, alive, mon, tidy)
  <2>1. Posts(w, l, y, a, s, subs, open, alive, mon, tidy)
    BY <1>4 DEF Posted
  <2>2. tidy => \A j \in Everyone(a) : j \in Nat /\ w[j].op = "get"
    <3>1. Len(cmds) \in Nat
      BY <1>4 DEF Typed, Counted, Answering, Served, InLoop
    <3> QED BY <1>4, <3>1, WaitingGet
  <2> QED BY <1>4, <2>1, <2>2 DEF EndedFrom
<1>7. Posts(w, l \o n, <<>>, a, s, subs, open2, alive2, mon, tidy)
  <2>1. l \in Seq(AnyMessage) /\ n \in Seq(AnyMessage) /\ y \in Seq(Nat) /\ ~open2 /\ ~alive2
    BY <1>1, <1>2, <1>3, <1>4, <1>5
  <2> QED BY <1>6, <2>1, EndedPosts
<1>8. /\ w = cmds' /\ l \o n = Incoming' /\ <<>> = Sending' /\ a = ac' /\ s = Has(c, "SUBSCRIBED")'
      /\ subs = server'.subs /\ mon = Monitored' /\ tidy = Tidy'
  BY <1>1, <1>3, <1>4 DEF Monitored, Tidy, Has
<1>9. Posts(cmds, Incoming, Sending, ac, Has(c, "SUBSCRIBED"), server.subs, Open, Alive, Monitored, Tidy)'
  BY <1>5, <1>7, <1>8
<1> QED BY <1>9 DEF Posted

LEMMA OtherServerPosted ==
    ASSUME Typed, Placed, Heard, Posted, pc \in Served,
           Resolve \/ ((Closes \/ Garbles) /\ UNCHANGED asyncVars)
    PROVE  Posted'
<1>1. \A y \in Seq(PieceOf(AnyMessage)) : y \o <<>> = y
  BY ConcatEmptySeq
<1>2. <<>> \in Seq(PieceOf(AnyMessage)) /\ Letters(<<>>) = <<>> /\ down \in Seq(PieceOf(AnyMessage))
  BY LettersLaws, StreamsTyped
<1>3. CASE Resolve
  <2>1. UNCHANGED <<pc, c, ac, cmds, up, server, faults>> /\ peer = "pending"
    BY <1>3 DEF Resolve, asyncVars
  <2>2. up = <<>> /\ down = <<>> /\ c.inbuf = <<>>
    BY <2>1 DEF Heard
  <2>3. CASE peer' = "up" /\ down' = down
    <3>1. Incoming' = Incoming /\ Sending' = Sending /\ Alive' = Alive /\ Open' = Open
      BY <2>1, <2>3 DEF Incoming, Letters, Sending, Commands, Alive, Open
    <3>2. Posts(cmds, Incoming, Sending, ac, Has(c, "SUBSCRIBED"), server.subs, Open, Alive, Monitored, Tidy)'
      BY <2>1, <3>1 DEF Posted, Has, Monitored, Tidy
    <3> QED BY <2>1, <2>3, <3>2 DEF Posted
  <2>4. CASE peer' = "refused" /\ down' = down
    <3>1. down' = down \o <<>>
      BY <1>1, <1>2, <2>4
    <3>2. UNCHANGED <<pc, c, ac, cmds, faults>> /\ server'.subs = server.subs /\ up' = <<>> /\ peer' \in {"closed", "refused"}
      BY <2>1, <2>2, <2>4
    <3> QED BY <1>2, <3>1, <3>2, ServerEndsPosted
  <2>5. CASE peer' = "closed" /\ down' = Pieces(Reply("error", 0))
    <3> DEFINE r == Reply("error", 0)
               d == Pieces(r)
    <3>1. r \in AnyMessage /\ r.op = "error" /\ r.req = 0
      BY DEF Reply, AnyMessage
    <3> HIDE DEF r
    <3>2. d \in Seq(PieceOf(AnyMessage)) /\ Letters(d) = <<r>>
      BY <3>1, PiecesTyped, LettersLaws
    <3>3. down' = down \o d /\ Incoming = <<>>
      <4>1. down' = d
        BY <2>5 DEF r
      <4> HIDE DEF d
      <4> DEFINE P == PieceOf(AnyMessage)
      <4>2. d \in Seq(P) /\ <<>> \in Seq(P)
        BY <3>2
      <4> HIDE DEF P
      <4>3. <<>> \o d = d /\ <<>> \o <<>> = <<>>
        BY <4>2, ConcatEmptySeq
      <4>4. c.inbuf \o down = <<>>
        BY <2>2, <4>3
      <4> QED BY <1>2, <2>2, <4>1, <4>3, <4>4 DEF Incoming
    <3> HIDE DEF d
    <3>4. UNCHANGED <<pc, c, ac, cmds, faults>> /\ server'.subs = server.subs /\ up' = <<>> /\ peer' \in {"closed", "refused"}
      BY <2>1, <2>2, <2>5
    <3> QED BY <3>1, <3>2, <3>3, <3>4, ServerEndsPosted
  <2> QED BY <1>3, <2>3, <2>4, <2>5 DEF Resolve
<1>4. CASE Closes /\ UNCHANGED asyncVars
  <2>1. /\ UNCHANGED <<pc, c, ac, cmds, faults>> /\ server'.subs = server.subs /\ up' = <<>>
        /\ peer' \in {"closed", "refused"} /\ down' = down \o <<>>
    BY <1>1, <1>2, <1>4 DEF Closes, asyncVars
  <2> QED BY <1>2, <2>1, ServerEndsPosted
<1>5. CASE Garbles /\ UNCHANGED asyncVars
  <2> DEFINE r == Garbage.msg
             g == Garbage
             P == PieceOf(AnyMessage)
  <2>1. UNCHANGED <<pc, c, ac, cmds, up, server, faults, peer>> /\ peer = "up" /\ down' = Append(down, g)
    BY <1>5 DEF Garbles, asyncVars
  <2>2. g \in P /\ r \in AnyMessage /\ r.op = "garbage" /\ Letters(<<g>>) = <<r>>
    BY LettersLaws DEF Garbage, PieceOf, AnyMessage
  <2> HIDE DEF g, r
  <2>3. down' = down \o <<g>> /\ <<g>> \in Seq(P)
    <3>1. down \in Seq(P) /\ g \in P
      BY <1>2, <2>2
    <3> HIDE DEF P
    <3> QED BY <2>1, <3>1, AppendIsConcat
  <2>4. Incoming' = Incoming \o <<r>> /\ Incoming \in Seq(AnyMessage)
    <3> DEFINE d == <<g>>
    <3>1. d \in Seq(P) /\ down' = down \o d
      BY <2>3
    <3>2. Letters(d) = <<r>>
      BY <2>2
    <3> HIDE DEF d
    <3>3. UNCHANGED c
      BY <2>1
    <3> QED BY <3>1, <3>2, <3>3, IncomingGrows, IncomingIs
  <2>5. Sending' = Sending /\ Sending \in Seq(Nat)
    BY <2>1, SendingTyped DEF Sending, Alive, Open, Commands
  <2>6. PICK w, l, y, a, s, subs, open, alive, mon, tidy :
          /\ w = cmds /\ l = Incoming /\ y = Sending /\ a = ac /\ s = Has(c, "SUBSCRIBED")
          /\ subs = server.subs /\ open = Open /\ alive = Alive /\ mon = Monitored /\ tidy = Tidy
    OBVIOUS
  <2>7. PublishedFrom(w, l, r, y, a, s, subs, open, alive, mon, tidy)
    <3>1. Posts(w, l, y, a, s, subs, open, alive, mon, tidy)
      BY <2>6 DEF Posted
    <3>2. open
      BY <2>1, <2>6 DEF Open
    <3> QED BY <2>2, <3>1, <3>2 DEF PublishedFrom
  <2>8. Posts(w, l \o <<r>>, y, a, s, subs, open, alive, mon, tidy)
    <3>1. l \in Seq(AnyMessage) /\ y \in Seq(Nat) /\ r \in AnyMessage
      BY <2>2, <2>4, <2>5, <2>6
    <3> QED BY <2>7, <3>1, PublishedPosts
  <2>9. /\ w = cmds' /\ l \o <<r>> = Incoming' /\ y = Sending' /\ a = ac' /\ s = Has(c, "SUBSCRIBED")'
        /\ subs = server'.subs
        /\ open = Open' /\ alive = Alive' /\ mon = Monitored' /\ tidy = Tidy'
    BY <2>1, <2>4, <2>5, <2>6 DEF Open, Alive, Monitored, Tidy, Has
  <2>10. Posts(cmds, Incoming, Sending, ac, Has(c, "SUBSCRIBED"), server.subs, Open, Alive, Monitored, Tidy)'
    BY <2>8, <2>9
  <2> QED BY <2>1, <2>10 DEF Posted
<1> QED BY <1>3, <1>4, <1>5

(***************************************************************************)
(* Every step                                                              *)
(***************************************************************************)
LEMMA InitializePosted ==
    ASSUME Typed, Begun, Initialize
    PROVE  Posted'
<1>1. c.inbuf = <<>> /\ c.obuf = sdsempty /\ up = <<>> /\ down = <<>> /\ c \in Contexts(issued)
  BY NowTyped DEF Initialize, Begun, Outside
<1>2. /\ c' = Unset(c, "CONNECTED") /\ UNCHANGED <<up, down, server, cmds, peer>> /\ pc' = "loop"
      /\ ac'.replies = <<>> /\ ac'.invalid = <<>>
      /\ server = NoServer
  BY DEF Initialize, Quiet, Still, NoContext, Begun, Outside
<1>3. c'.inbuf = <<>> /\ c'.obuf = sdsempty
  BY <1>1, <1>2 DEF Unset, Contexts
<1>4. sdsempty.chars = <<>> /\ <<>> \o <<>> = <<>> /\ Commands(<<>>) = <<>>
  <2>1. <<>> \in Seq(Nat)
    OBVIOUS
  <2>2. \A e \in Seq(Nat) : e \o <<>> = e
    BY ConcatEmptySeq
  <2>3. <<>> \o <<>> = <<>>
    BY <2>1, <2>2
  <2>4. <<>> \in Seq(PieceOf(Nat))
    OBVIOUS
  <2>5. Commands(<<>>) = <<>>
    BY <2>4, CommandsType
  <2> QED BY <2>3, <2>5, EmptyString
<1>5. Incoming' = <<>> /\ Sending' = <<>>
  <2>1. Incoming' = Letters(c'.inbuf \o down') /\ Letters(<<>>) = <<>>
    BY LettersLaws DEF Incoming, Letters
  <2>2. Sending' = Commands(up') \o IF Alive' THEN Commands(c'.obuf.chars) ELSE <<>>
    BY DEF Sending, Commands
  <2> QED BY <1>1, <1>2, <1>3, <1>4, <2>1, <2>2
<1>6. Everyone(ac') = {} /\ Ids(ac'.replies) = {}
  <2>1. Len(<<>>) = 0 /\ 1..0 = {} /\ DOMAIN <<>> = {}
    OBVIOUS
  <2>2. Ids(<<>>) = {}
    BY <2>1 DEF Ids
  <2> QED BY <1>2, <2>2 DEF Everyone
<1>7. server'.subs = {}
  BY <1>2 DEF NoServer
<1>8. ASSUME NEW w, NEW a, NEW s, NEW subs, subs = {}, NEW open, NEW alive, NEW mon, NEW tidy,
             Everyone(a) = {}, Ids(a.replies) = {}
      PROVE  Posts(w, <<>>, <<>>, a, s, subs, open, alive, mon, tidy)
  <2>1. Answered(<<>>) \o <<>> = <<>>
    BY <1>4, AnsweredLaws
  <2>2. Len(<<>>) = 0 /\ 1..0 = {}
    OBVIOUS
  <2>3. Of(<<>>) = {} /\ Rising(<<>>)
    BY OfLaws
  <2> QED BY <1>8, <2>1, <2>2, <2>3 DEF Posts, Stamps, Flow, Ordered, News, Foremost
<1>9. PICK w, a, s, subs, open, alive, mon, tidy :
        /\ w = cmds' /\ a = ac' /\ s = Has(c, "SUBSCRIBED")' /\ subs = server'.subs
        /\ open = Open' /\ alive = Alive' /\ mon = Monitored' /\ tidy = Tidy'
  OBVIOUS
<1>10. Posts(w, <<>>, <<>>, a, s, subs, open, alive, mon, tidy)
  BY <1>6, <1>7, <1>8, <1>9
<1>11. Posts(cmds, Incoming, Sending, ac, Has(c, "SUBSCRIBED"), server.subs, Open, Alive, Monitored, Tidy)'
  BY <1>5, <1>9, <1>10
<1> QED BY <1>1, <1>2, <1>11 DEF Posted

LEMMA NextPosted ==
    ASSUME Control, Typed, Begun, Placed, Heard, Heard', Posted, [Next]_vars
    PROVE  Posted'
<1> SUFFICES ASSUME pc' \in Served PROVE Posted'
  BY DEF Posted
<1>1. CASE ContextNext /\ UNCHANGED asyncVars
  <2>1. pc \in Served
    BY <1>1, ContextServed DEF asyncVars
  <2> QED BY <1>1, <2>1, ContextServed, OtherServerPosted
<1>2. CASE Initialize
  BY <1>2, InitializePosted
<1>3. CASE AsyncCommand
  <2>1. pc \in Served
    BY <1>3 DEF AsyncCommand
  <2> QED BY <1>3, <2>1, AsyncCommandPosted
<1>4. CASE AppDisconnect \/ AppFree \/ ConnectCallbackReturns \/ CallbackReturns
  <2>1. pc \in Served
    BY <1>4 DEF AppDisconnect, AppFree, ConnectCallbackReturns, CallbackReturns, App, Served, StartFree,
                Disconnect, Crash
  <2> QED BY <1>4, <2>1, FlagStepsPosted
<1>5. CASE HandleRead \/ HandleWrite \/ HandleEvent
  <2>1. pc \in Served
    BY <1>5 DEF HandleRead, HandleWrite, HandleEvent, Served
  <2> QED BY <1>5, <2>1, EventsPosted
<1>6. CASE ProcessCallbacks
  BY <1>6, TurnPosted
<1>7. CASE FreeNext \/ FreeCallbackReturns \/ FreeEnds
  BY <1>7 DEF FreeNext, FreeCallbackReturns, FreeEnds, RunNull, NextPhase, Served
<1>8. CASE AsyncServe
  <2>1. pc \in Served
    BY <1>8 DEF AsyncServe
  <2> QED BY <1>8, <2>1, AsyncServePosted
<1>9. CASE Publish \/ Resolve
  <2>1. pc \in Served
    BY <1>9 DEF Publish, Resolve, asyncVars
  <2> QED BY <1>9, <2>1, PublishPosted, OtherServerPosted
<1>10. CASE UNCHANGED vars
  <2>1. UNCHANGED <<c, ac, pc, peer, up, down, server, cmds, faults>>
    BY <1>10 DEF vars, contextVars, asyncVars
  <2>2. Incoming' = Incoming /\ Sending' = Sending /\ Alive' = Alive /\ Open' = Open
    BY <2>1 DEF Incoming, Letters, Sending, Commands, Alive, Open
  <2>3. Posts(cmds, Incoming, Sending, ac, Has(c, "SUBSCRIBED"), server.subs, Open, Alive, Monitored, Tidy)'
    BY <2>1, <2>2 DEF Posted, Has, Monitored, Tidy
  <2> QED BY <2>1, <2>3 DEF Posted
<1> QED BY <1>1, <1>2, <1>3, <1>4, <1>5, <1>6, <1>7, <1>8, <1>9, <1>10
        DEF Next, AsyncNext, Handlers

(***************************************************************************)
(* How often a callback has run, and what it is given                      *)
(***************************************************************************)
\* The callbacks of the regular commands among w have run once, by the counters
\* n, but for those in q and those that are NULL.
Tally(w, n, q) ==
    \A k \in 1..Len(w) : w[k].op = "get" => n[k] = IF w[k].fn /\ k \notin q THEN 1 ELSE 0

LEMMA TallyTakes ==
    ASSUME NEW w \in Seq(CommandType), NEW n \in Seq(Nat), Len(n) = Len(w), NEW q, Tally(w, n, q),
           NEW k \in q, k \in 1..Len(w), w[k].op = "get",
           NEW n2, n2 = IF w[k].fn THEN [n EXCEPT ![k] = @ + 1] ELSE n
    PROVE  Tally(w, n2, q \ {k})
<1>1. DOMAIN n = 1..Len(w)
  BY LenProperties
<1>2. n[k] = 0
  BY DEF Tally
<1>3. \A j \in 1..Len(w) : n2[j] = IF j = k /\ w[k].fn THEN 1 ELSE n[j]
  BY <1>1, <1>2
<1> QED BY <1>2, <1>3 DEF Tally

LEMMA TallyKeeps ==
    ASSUME NEW w \in Seq(CommandType), NEW n \in Seq(Nat), Len(n) = Len(w), NEW q, Tally(w, n, q),
           NEW k \in 1..Len(w), w[k].op # "get", NEW n2 \in {n, [n EXCEPT ![k] = @ + 1]}
    PROVE  Tally(w, n2, q)
<1>1. DOMAIN n = 1..Len(w)
  BY LenProperties
<1>2. \A j \in 1..Len(w) : j # k => n2[j] = n[j]
  BY <1>1
<1> QED BY <1>2 DEF Tally

LEMMA TallyGrows ==
    ASSUME NEW w \in Seq(CommandType), NEW n \in Seq(Nat), Len(n) = Len(w), NEW q, Tally(w, n, q),
           q \subseteq 1..Len(w), NEW m \in CommandType,
           NEW q2, q2 = q \cup IF m.op = "get" THEN {Len(w) + 1} ELSE {}
    PROVE  Tally(Append(w, m), Append(n, 0), q2)
<1> DEFINE v == Append(w, m)
           x == Append(n, 0)
           l == Len(w)
<1>1. /\ l \in Nat /\ Len(v) = l + 1 /\ v[l + 1] = m /\ x[l + 1] = 0
      /\ \A i \in 1..l : v[i] = w[i] /\ x[i] = n[i]
  BY AppendProperties, LenProperties
<1> HIDE DEF v, x, l
<1>2. 1..l + 1 = 1..l \cup {l + 1} /\ \A i \in 1..l : i # l + 1
  BY <1>1
<1>3. \A k \in 1..l : v[k].op = "get" => x[k] = IF v[k].fn /\ k \notin q2 THEN 1 ELSE 0
  BY <1>1, <1>2 DEF Tally, l
<1>4. v[l + 1].op = "get" => x[l + 1] = IF v[l + 1].fn /\ l + 1 \notin q2 THEN 1 ELSE 0
  BY <1>1 DEF l
<1>5. Tally(v, x, q2)
  BY <1>1, <1>2, <1>3, <1>4 DEF Tally
<1> QED BY <1>5 DEF v, x

Undisturbed == faults = {} /\ ~Monitored

\* The invariant: whoever does not wait has been called, nobody waits in the end,
\* and the callback that runs is given what it asked for.
Counts ==
    /\ pc \in InLoop \cup {"gone"} /\ Undisturbed => Tally(cmds, calls, Everyone(ac))
    /\ pc = "gone" => Everyone(ac) = {}
Given ==
    pc = "callback" /\ Undisturbed => frame.cb.id \in 1..Len(cmds) /\ Own(frame.cb, frame.reply)

LEMMA UndisturbedStays ==
    ASSUME cmds' = cmds, faults \subseteq faults', Undisturbed'
    PROVE  Undisturbed /\ (Tidy' /\ Tidy)
<1>1. Monitored' <=> Monitored
  BY DEF Monitored
<1> QED BY <1>1 DEF Undisturbed, Tidy

LEMMA CountsMove ==
    ASSUME Counts, pc \in InLoop, pc' \in InLoop, cmds' = cmds, faults \subseteq faults',
           Undisturbed' /\ Tally(cmds, calls, Everyone(ac)) => Tally(cmds, calls', Everyone(ac'))
    PROVE  Counts'
<1>1. pc' # "gone"
  BY DEF InLoop
<1>2. Undisturbed' => Tally(cmds, calls, Everyone(ac))
  BY UndisturbedStays DEF Counts
<1>3. Undisturbed' => Tally(cmds, calls', Everyone(ac'))
  BY <1>2
<1>4. Tally(cmds, calls, Everyone(ac))' <=> Tally(cmds', calls', Everyone(ac'))
  BY DEF Tally, Everyone, Ids
<1> QED BY <1>1, <1>3, <1>4 DEF Counts

LEMMA AsideCounts ==
    ASSUME Counts, pc \in InLoop, pc' \in InLoop, Aside
    PROVE  Counts'
<1>1. cmds' = cmds /\ calls' = calls /\ faults \subseteq faults' /\ Everyone(ac') = Everyone(ac)
  BY DEF Aside, SameQueues, Everyone
<1> QED BY <1>1, CountsMove

LEMMA RunCalls ==
    ASSUME Typed, pc = "process", NEW k, NEW a, NEW cb, NEW r, Run(k, a, cb, r)
    PROVE  /\ pc' \in {"process", "callback"} /\ ac' = a
           /\ calls' = IF cb.fn THEN [calls EXCEPT ![cb.id] = @ + 1] ELSE calls
           /\ pc' = "callback" => cb.fn /\ frame'.cb = cb /\ frame'.reply = r
<1>1. frame \in Frames
  BY NowTyped
<1> QED BY <1>1 DEF Run, Frames

\* The oldest callback of a queue runs, or the oldest of both, and is given its
\* answer.
LEMMA ClaimedCounts ==
    ASSUME Typed, Placed, Counts, pc = "process", cmds' = cmds, faults \subseteq faults',
           NEW cb, NEW q \in Seq(Callbacks), Queue(q, cmds), q # <<>>, cb = Head(q),
           NEW k, NEW a, Run(k, a, cb, Msg), Tidy' => Claimed(Msg, ac, ac', cb.id) /\ Fits(Msg, ac, ac')
    PROVE  Counts' /\ Given'
<1>1. /\ cb.id \in 1..Len(cmds) /\ cmds[cb.id].op = "get" /\ cb.fn = cmds[cb.id].fn
  BY QueueTail
<1>2. cmds \in Seq(CommandType) /\ calls \in Seq(Nat) /\ Len(calls) = Len(cmds)
  BY DEF Typed, Answering, Counted
<1>3. /\ pc' \in {"process", "callback"} /\ ac' = a
      /\ calls' = IF cmds[cb.id].fn THEN [calls EXCEPT ![cb.id] = @ + 1] ELSE calls
      /\ pc' = "callback" => frame'.cb = cb /\ frame'.reply = Msg
  BY <1>1, RunCalls
<1>4. Undisturbed' => Claimed(Msg, ac, ac', cb.id) /\ Fits(Msg, ac, ac')
  BY UndisturbedStays
<1>5. Undisturbed' /\ Tally(cmds, calls, Everyone(ac)) => Tally(cmds, calls', Everyone(ac'))
  <2> SUFFICES ASSUME Undisturbed', Tally(cmds, calls, Everyone(ac)) PROVE Tally(cmds, calls', Everyone(ac'))
    OBVIOUS
  <2>1. cb.id \in Everyone(ac) /\ Everyone(ac') = Everyone(ac) \ {cb.id}
    BY <1>4 DEF Claimed
  <2>2. Tally(cmds, calls', Everyone(ac) \ {cb.id})
    BY <1>1, <1>2, <1>3, <2>1, TallyTakes
  <2> QED BY <2>1, <2>2
<1>6. Counts'
  BY <1>3, <1>5, CountsMove DEF InLoop
<1>7. Given'
  <2> SUFFICES ASSUME pc' = "callback", Undisturbed' PROVE (frame.cb.id \in 1..Len(cmds) /\ Own(frame.cb, frame.reply))'
    BY DEF Given
  <2>1. Msg.op \in {"answer", "error"} /\ Msg.req \in {cb.id, 0}
    BY <1>4 DEF Fits
  <2>2. frame'.cb = cb /\ frame'.reply = Msg
    BY <1>3
  <2>3. Own(frame.cb, frame.reply)'
    BY <2>1, <2>2 DEF Own
  <2> QED BY <1>1, <2>2, <2>3
<1> QED BY <1>6, <1>7

\* The callback of a topic runs, and is given news of that topic.
LEMMA TopicCounts ==
    ASSUME Typed, Placed, Counts, pc = "process", cmds' = cmds, Msg \in AnyMessage, ToTopic
    PROVE  Counts' /\ Given'
<1>1. PICK e \in Table, cb \in Callbacks, k \in {Rest, Unset(Rest, "SUBSCRIBED")} :
        /\ Heeding(DictOf(ac, Msg.pattern), e, Msg)
        /\ cb.id = dictFind(DictOf(ac, Msg.pattern), Msg.topic).id
        /\ Run(k, WithDict(ac, Msg.pattern, e), cb, Msg)
  BY DEF ToTopic
<1>2. Msg.op \in Kinds /\ Msg.topic \in DOMAIN Hash /\ faults' = faults /\ Msg.pattern \in BOOLEAN
  BY NoticeTyped DEF ToTopic, Kinds
<1>3. Names(cmds, cb.id, Msg.pattern, Msg.topic)
  <2>1. Entered(ac, cmds)
    BY DEF Placed, InLoop
  <2>2. dictHas(DictOf(ac, Msg.pattern), Msg.topic)
    BY <1>1 DEF Heeding
  <2> QED BY <1>1, <1>2, <2>1, <2>2 DEF Entered, Enters, DictOf
<1>4. cmds \in Seq(CommandType) /\ calls \in Seq(Nat) /\ Len(calls) = Len(cmds)
  BY DEF Typed, Answering, Counted
<1>5. cb.id \in 1..Len(cmds) /\ cmds[cb.id].op = "subscribe"
  BY <1>3 DEF Names
<1>6. /\ pc' \in {"process", "callback"} /\ calls' \in {calls, [calls EXCEPT ![cb.id] = @ + 1]}
      /\ pc' = "callback" => frame'.cb = cb /\ frame'.reply = Msg
      /\ ac' = WithDict(ac, Msg.pattern, e)
  BY <1>1, RunCalls
<1>7. Everyone(ac') = Everyone(ac)
  <2>1. ac'.replies = ac.replies /\ ac'.invalid = ac.invalid
    BY <1>6, NowTyped DEF WithDict, AsyncContexts
  <2> QED BY <2>1 DEF Everyone
<1>8. Tally(cmds, calls, Everyone(ac)) => Tally(cmds, calls', Everyone(ac'))
  BY <1>4, <1>5, <1>6, <1>7, TallyKeeps
<1>9. Counts'
  BY <1>2, <1>6, <1>8, CountsMove DEF InLoop
<1>10. Given'
  <2> SUFFICES ASSUME pc' = "callback" PROVE (frame.cb.id \in 1..Len(cmds) /\ Own(frame.cb, frame.reply))'
    BY DEF Given
  <2>1. frame'.cb = cb /\ frame'.reply = Msg
    BY <1>6
  <2>2. Own(frame.cb, frame.reply)'
    BY <1>2, <1>3, <2>1 DEF Own, Names, Kinds
  <2> QED BY <1>5, <2>1, <2>2
<1> QED BY <1>9, <1>10

LEMMA TurnCounts ==
    ASSUME Typed, Placed, Closing, Heard, Heard', Posted, Counts, ProcessCallbacks
    PROVE  Counts' /\ Given'
<1>1. pc = "process" /\ cmds' = cmds /\ Quiet /\ ac \in AsyncContexts /\ c \in Contexts(issued)
  BY NowTyped DEF ProcessCallbacks, Quiet
<1>2. CASE GivesUp
  <2>1. Aside
    BY <1>1, <1>2, ShutAside DEF GivesUp, InLoop, SameQueues
  <2>2. pc' \in InLoop /\ pc' # "callback"
    BY <1>2 DEF GivesUp, Disconnect, StartFree, Crash, InLoop
  <2> QED BY <1>1, <2>1, <2>2, AsideCounts DEF Given, InLoop
<1>3. CASE Waits
  <2>1. cmds' = cmds /\ calls' = calls /\ faults' = faults /\ pc' = "loop" /\ UNCHANGED c
    BY <1>1, <1>3 DEF Waits
  <2>2. ~Monitored => ac' = ac
    BY <1>1, <1>3 DEF Waits, Placed, InLoop
  <2>3. Undisturbed' => ac' = ac
    BY <2>1, <2>2, UndisturbedStays DEF Undisturbed
  <2>4. Undisturbed' /\ Tally(cmds, calls, Everyone(ac)) => Tally(cmds, calls', Everyone(ac'))
    BY <2>1, <2>3
  <2>5. Counts'
    BY <1>1, <2>1, <2>4, CountsMove DEF InLoop
  <2> QED BY <2>1, <2>5 DEF Given
<1>4. SUFFICES ASSUME Msg \in AnyMessage, Msg.op # "garbage", Whole(c.inbuf),
                      ToOldest \/ ToAside \/ ToAnother \/ ToTopic \/ Asserts
               PROVE  Counts' /\ Given'
  BY <1>2, <1>3, TurnIs
<1>5. CASE Asserts
  <2>1. pc' = "crashed" /\ faults' # {}
    BY <1>5 DEF Asserts, Crash
  <2>2. ~Undisturbed'
    BY <2>1 DEF Undisturbed
  <2> QED BY <2>1, <2>2 DEF Counts, Given
<1>6. ASSUME ToOldest \/ ToAside \/ ToAnother
      PROVE  /\ faults \subseteq faults' /\ pc' \in Served /\ pc' # "loop"
             /\ Tidy' => Fits(Msg, ac, ac')
  <2>1. faults \subseteq faults'
    BY <1>6 DEF ToOldest, ToAside, ToAnother
  <2>2. pc' \in {"process", "callback"}
    BY <1>1, <1>6, RunCalls DEF ToOldest, ToAside, ToAnother
  <2> QED BY <2>1, <2>2, TurnPosted DEF Served
<1>7. Tidy' => ~Monitored
  BY <1>1 DEF Tidy, Monitored
<1>8. ~Monitored => Queue(ac.replies, cmds) /\ Queue(ac.invalid, cmds)
  BY <1>1 DEF Placed, Queued, InLoop
<1>9. ac.replies \in Seq(Callbacks) /\ ac.invalid \in Seq(Callbacks)
  BY <1>1 DEF AsyncContexts
<1>10. ASSUME Monitored, ToOldest \/ ToAside \/ ToAnother \/ ToTopic PROVE Counts' /\ Given'
  <2>1. pc' \in {"process", "callback"}
    BY <1>1, <1>10, RunCalls DEF ToOldest, ToAside, ToAnother, ToTopic
  <2>2. ~Undisturbed'
    BY <1>1, <1>10 DEF Undisturbed, Monitored
  <2> QED BY <2>1, <2>2 DEF Counts, Given
<1>11. CASE ToOldest /\ ~Monitored
  <2>1. /\ Run(Rest, [ac EXCEPT !.replies = Tail(@)], Head(ac.replies), Msg) /\ ac.replies # <<>>
    BY <1>11 DEF ToOldest
  <2>2. Tidy' => Claimed(Msg, ac, ac', Head(ac.replies).id) /\ Fits(Msg, ac, ac')
    BY <1>1, <1>4, <1>6, <1>11, TurnDeals
  <2> QED BY <1>1, <1>6, <1>8, <1>9, <1>11, <2>1, <2>2, ClaimedCounts
<1>12. CASE ToAside /\ ~Monitored
  <2>1. /\ Run(Rest, [ac EXCEPT !.invalid = Tail(@)], Head(ac.invalid), Msg) /\ ac.invalid # <<>>
    BY <1>12 DEF ToAside
  <2>2. Tidy' => Claimed(Msg, ac, ac', Head(ac.invalid).id) /\ Fits(Msg, ac, ac')
    BY <1>1, <1>4, <1>6, <1>12, TurnDeals
  <2> QED BY <1>1, <1>6, <1>8, <1>9, <1>12, <2>1, <2>2, ClaimedCounts
<1>13. CASE ToAnother /\ ~Monitored
  <2>1. Run(Rest, ac, frame.cb, Msg)
    BY <1>13 DEF ToAnother
  <2>2. /\ pc' \in {"process", "callback"} /\ ac' = ac
        /\ ~frame.cb.fn => calls' = calls /\ pc' = "process"
    BY <1>1, <2>1, RunCalls
  <2>3. Tidy' => Msg.op \in Kinds
    BY <1>1, <1>4, <1>6, <1>13, TurnDeals DEF Fits, Unclaimed
  <2>4. ~Has(c, "MONITORING")
    BY <1>1, <1>13 DEF Placed, InLoop
  <2>5. Undisturbed' => ~frame.cb.fn
    <3> SUFFICES ASSUME Undisturbed' PROVE ~frame.cb.fn
      OBVIOUS
    <3>1. Msg.op \in Kinds
      BY <1>1, <1>6, <1>13, <2>3, UndisturbedStays
    <3>2. faults' = {}
      BY DEF Undisturbed
    <3>3. faults' = IF frame.cb.fn THEN faults \cup {"stale"} ELSE faults
      BY <1>13, <2>4, <3>1 DEF ToAnother, Kinds
    <3> QED BY <3>2, <3>3
  <2>6. Counts'
    BY <1>1, <1>6, <1>13, <2>2, <2>5, CountsMove DEF InLoop
  <2> QED BY <2>2, <2>5, <2>6 DEF Given
<1>14. CASE ToTopic /\ ~Monitored
  BY <1>1, <1>4, <1>14, TopicCounts
<1> QED BY <1>4, <1>5, <1>10, <1>11, <1>12, <1>13, <1>14

\* Who waits once a command is issued.
LEMMA CommandWaits ==
    ASSUME Typed, NEW m \in CommandType, m.op # "monitor",
           ac' = [Registered(ac, m, Callback(issued + 1, m.fn)) EXCEPT !.ev = @ \cup {"write"}],
           pc \in InLoop
    PROVE  Everyone(ac') = Everyone(ac) \cup IF m.op = "get" THEN {Len(cmds) + 1} ELSE {}
<1> DEFINE cb == Callback(issued + 1, m.fn)
           reg == Registered(ac, m, cb)
<1>1. ac \in AsyncContexts /\ cmds \in Seq(CommandType) /\ Len(cmds) = issued /\ issued \in Nat
  BY NowTyped DEF Typed, Counted, Answering
<1>2. cb \in Callbacks /\ cb.id = Len(cmds) + 1 /\ cb.fn = m.fn
  BY <1>1 DEF Callback, Callbacks, CommandType
<1>3. ac'.replies = reg.replies /\ ac'.invalid = reg.invalid
  <2>1. ac' = [reg EXCEPT !.ev = @ \cup {"write"}]
    OBVIOUS
  <2> HIDE DEF reg
  <2> QED BY ONLY <2>1
<1> DEFINE new == IF m.op = "get" THEN {cb.id} ELSE {}
<1> HIDE DEF cb
<1>4. Ids(reg.replies) \cup Ids(reg.invalid) = Ids(ac.replies) \cup Ids(ac.invalid) \cup new
  BY <1>1, <1>2, RegisteredPlaced
<1> HIDE DEF reg
<1> QED BY <1>2, <1>3, <1>4 DEF Everyone

LEMMA CommandCounts ==
    ASSUME Typed, Placed, Counts, Given, AsyncCommand
    PROVE  Counts' /\ Given'
<1>1. PICK m \in CommandType :
        /\ ac' = [Registered(ac, m, Callback(issued + 1, m.fn)) EXCEPT !.ev = @ \cup {"write"}]
        /\ cmds' = Append(cmds, m)
  BY CommandIssued
<1>2. /\ pc \in InLoop /\ pc' = pc /\ pc \in InLoop /\ frame' = frame /\ faults' = faults /\ calls' = Append(calls, 0)
      /\ cmds \in Seq(CommandType) /\ calls \in Seq(Nat) /\ Len(calls) = Len(cmds)
  BY DEF AsyncCommand, App, InLoop, Typed, Counted, Answering
<1>3. Undisturbed' => Undisturbed /\ m.op # "monitor"
  BY <1>1, <1>2, MonitoredGrows DEF Undisturbed
<1>4. Undisturbed' => Everyone(ac') = Everyone(ac) \cup IF m.op = "get" THEN {Len(cmds) + 1} ELSE {}
  BY <1>1, <1>2, <1>3, CommandWaits
<1>5. Undisturbed => Everyone(ac) \subseteq 1..Len(cmds)
  BY <1>2 DEF Undisturbed, Placed, Queued, Queue, Everyone, Ids
<1>6. Undisturbed' => Tally(Append(cmds, m), Append(calls, 0), Everyone(ac'))
  <2> SUFFICES ASSUME Undisturbed' PROVE Tally(Append(cmds, m), Append(calls, 0), Everyone(ac'))
    OBVIOUS
  <2>1. Tally(cmds, calls, Everyone(ac))
    BY <1>2, <1>3 DEF Counts
  <2> QED BY <1>2, <1>3, <1>4, <1>5, <2>1, TallyGrows
<1>7. Counts'
  <2>1. Undisturbed' => Tally(cmds', calls', Everyone(ac'))
    BY <1>1, <1>2, <1>6
  <2>2. Tally(cmds, calls, Everyone(ac))' <=> Tally(cmds', calls', Everyone(ac'))
    BY DEF Tally, Everyone, Ids
  <2>3. pc' # "gone"
    BY <1>2 DEF InLoop
  <2> QED BY <2>1, <2>2, <2>3 DEF Counts
<1>8. Given'
  <2> SUFFICES ASSUME pc' = "callback", Undisturbed' PROVE (frame.cb.id \in 1..Len(cmds) /\ Own(frame.cb, frame.reply))'
    BY DEF Given
  <2> DEFINE k == frame.cb.id
             v == Append(cmds, m)
  <2>1. k \in 1..Len(cmds) /\ Own(frame.cb, frame.reply)
    BY <1>2, <1>3 DEF Given
  <2>2. k \in 1..Len(v) /\ v[k] = cmds[k]
    BY <1>2, <2>1, AppendProperties, LenProperties
  <2>3. cmds' = v
    BY <1>1
  <2> HIDE DEF v
  <2>4. Own(frame.cb, frame.reply)'
    BY <1>2, <2>1, <2>2, <2>3 DEF Own
  <2> QED BY <1>2, <2>2, <2>3, <2>4
<1> QED BY <1>7, <1>8

\* A free runs the callbacks of the queues, and then those of the topics.
LEMMA FreeNextCounts ==
    ASSUME Typed, Placed, Counts, FreeNext
    PROVE  Counts' /\ Given'
<1>1. /\ pc = "free" /\ cmds' = cmds /\ faults' = faults /\ ac \in AsyncContexts /\ frame \in Frames
      /\ cmds \in Seq(CommandType) /\ calls \in Seq(Nat) /\ Len(calls) = Len(cmds)
  BY NowTyped DEF FreeNext, Quiet, Typed, Counted, Answering
<1>2. ac.replies \in Seq(Callbacks) /\ ac.invalid \in Seq(Callbacks)
  BY <1>1 DEF AsyncContexts
<1>3. Undisturbed => Queue(ac.replies, cmds) /\ Queue(ac.invalid, cmds) /\ Ids(ac.replies) \cap Ids(ac.invalid) = {}
  BY <1>1 DEF Undisturbed, Placed, Queued, InLoop
<1>4. Subscribes(frame.todo, cmds)
  BY <1>1 DEF Placed, InLoop
<1>5. ASSUME pc' \in {"free", "freecallback"},
             Undisturbed' /\ Tally(cmds, calls, Everyone(ac)) => Tally(cmds, calls', Everyone(ac'))
      PROVE  Counts' /\ Given'
  <2>1. Counts'
    BY <1>1, <1>5, CountsMove DEF InLoop
  <2> QED BY <1>5, <2>1 DEF Given
<1>6. ASSUME NEW cb, NEW a, NEW f, RunNull(cb, a, f)
      PROVE  /\ pc' \in {"free", "freecallback"} /\ ac' = a
             /\ calls' = IF cb.fn THEN [calls EXCEPT ![cb.id] = @ + 1] ELSE calls
  BY <1>1, <1>6 DEF RunNull
<1>7. ASSUME NEW q \in Seq(Callbacks), q # <<>>, NEW a, NEW f, RunNull(Head(q), a, f), Undisturbed => Queue(q, cmds),
             Undisturbed => Head(q).id \in Everyone(ac) /\ Everyone(a) = Everyone(ac) \ {Head(q).id}
      PROVE  Counts' /\ Given'
  <2> SUFFICES ASSUME Undisturbed', Tally(cmds, calls, Everyone(ac)) PROVE Tally(cmds, calls', Everyone(ac'))
    BY <1>5, <1>6, <1>7
  <2>1. Undisturbed
    BY <1>1, UndisturbedStays
  <2> DEFINE k == Head(q).id
  <2>2. k \in 1..Len(cmds) /\ cmds[k].op = "get" /\ Head(q).fn = cmds[k].fn
    BY <1>7, <2>1, QueueTail
  <2>3. calls' = IF cmds[k].fn THEN [calls EXCEPT ![k] = @ + 1] ELSE calls
    BY <1>6, <1>7, <2>2
  <2>4. k \in Everyone(ac) /\ ac' = a /\ Everyone(a) = Everyone(ac) \ {k}
    BY <1>6, <1>7, <2>1
  <2> HIDE DEF k
  <2>5. Tally(cmds, calls', Everyone(ac) \ {k})
    BY <1>1, <2>2, <2>3, <2>4, TallyTakes
  <2> QED BY <2>4, <2>5
<1>8. CASE frame.phase = "replies" /\ ac.replies # <<>>
           /\ RunNull(Head(ac.replies), [ac EXCEPT !.replies = Tail(@)], frame)
  <2> DEFINE q == ac.replies
             a == [ac EXCEPT !.replies = Tail(q)]
             k == Head(q).id
  <2>1. a.replies = Tail(q) /\ a.invalid = ac.invalid
    BY <1>1 DEF AsyncContexts
  <2>2. RunNull(Head(q), a, frame) /\ q # <<>> /\ q \in Seq(Callbacks)
    BY <1>2, <1>8
  <2>3. Undisturbed => Queue(q, cmds) /\ Ids(q) \cap Ids(ac.invalid) = {}
    BY <1>3
  <2>4. Everyone(ac) = Ids(q) \cup Ids(ac.invalid)
    BY DEF Everyone
  <2> HIDE DEF q, a
  <2>5. Undisturbed => k \in Everyone(ac) /\ Everyone(a) = Everyone(ac) \ {k}
    <3> SUFFICES ASSUME Undisturbed PROVE k \in Everyone(ac) /\ Everyone(a) = Everyone(ac) \ {k}
      OBVIOUS
    <3>1. k \in Ids(q) /\ Ids(Tail(q)) = Ids(q) \ {k}
      BY <2>2, <2>3, QueueTail
    <3>2. Everyone(a) = Ids(Tail(q)) \cup Ids(ac.invalid)
      BY <2>1 DEF Everyone
    <3> HIDE DEF k
    <3> QED BY <2>3, <2>4, <3>1, <3>2
  <2> QED BY <1>7, <2>2, <2>3, <2>5
<1>9. CASE frame.phase = "invalid" /\ ac.invalid # <<>>
           /\ RunNull(Head(ac.invalid), [ac EXCEPT !.invalid = Tail(@)], frame)
  <2> DEFINE q == ac.invalid
             a == [ac EXCEPT !.invalid = Tail(q)]
             k == Head(q).id
  <2>1. a.invalid = Tail(q) /\ a.replies = ac.replies
    BY <1>1 DEF AsyncContexts
  <2>2. RunNull(Head(q), a, frame) /\ q # <<>> /\ q \in Seq(Callbacks)
    BY <1>2, <1>9
  <2>3. Undisturbed => Queue(q, cmds) /\ Ids(ac.replies) \cap Ids(q) = {}
    BY <1>3
  <2>4. Everyone(ac) = Ids(ac.replies) \cup Ids(q)
    BY DEF Everyone
  <2> HIDE DEF q, a
  <2>5. Undisturbed => k \in Everyone(ac) /\ Everyone(a) = Everyone(ac) \ {k}
    <3> SUFFICES ASSUME Undisturbed PROVE k \in Everyone(ac) /\ Everyone(a) = Everyone(ac) \ {k}
      OBVIOUS
    <3>1. k \in Ids(q) /\ Ids(Tail(q)) = Ids(q) \ {k}
      BY <2>2, <2>3, QueueTail
    <3>2. Everyone(a) = Ids(ac.replies) \cup Ids(Tail(q))
      BY <2>1 DEF Everyone
    <3> HIDE DEF k
    <3> QED BY <2>3, <2>4, <3>1, <3>2
  <2> QED BY <1>7, <2>2, <2>3, <2>5
<1>10. ASSUME NEW f, NextPhase(f) PROVE Counts' /\ Given'
  <2>1. pc' = "free" /\ ac' = ac /\ calls' = calls
    BY <1>1, <1>10 DEF NextPhase
  <2> QED BY <1>5, <2>1
<1>11. CASE frame.phase = "topics" /\ frame.todo # <<>>
            /\ RunNull(Head(frame.todo), ac, [frame EXCEPT !.todo = Tail(@)])
  <2> DEFINE s == frame.todo
             k == Head(s).id
  <2>1. k \in 1..Len(cmds) /\ cmds[k].op = "subscribe"
    <3>1. s \in Seq(Callbacks) /\ s # <<>>
      BY <1>1, <1>11 DEF Frames
    <3>2. Head(s) = s[1] /\ 1 \in 1..Len(s)
      BY <3>1, HeadTailProperties, EmptySeq, LenProperties
    <3> QED BY <1>4, <3>2 DEF Subscribes
  <2>2. pc' \in {"free", "freecallback"} /\ ac' = ac /\ calls' \in {calls, [calls EXCEPT ![k] = @ + 1]}
    BY <1>6, <1>11
  <2> HIDE DEF k
  <2>3. Tally(cmds, calls, Everyone(ac)) => Tally(cmds, calls', Everyone(ac))
    BY <1>1, <2>1, <2>2, TallyKeeps
  <2> QED BY <1>5, <2>2, <2>3
<1> QED BY <1>8, <1>9, <1>10, <1>11 DEF FreeNext

\* A context that is not in its event loop has issued no command, or is gone.
LEMMA OutsideCounts ==
    ASSUME Typed, Begun, Counts, pc \notin InLoop, pc' \notin InLoop, UNCHANGED asyncVars
    PROVE  Counts' /\ Given'
<1>1. cmds' = cmds /\ calls' = calls /\ faults' = faults /\ ac' = ac
  BY DEF asyncVars
<1>2. Undisturbed' = Undisturbed /\ Everyone(ac') = Everyone(ac)
  BY <1>1 DEF Undisturbed, Monitored, Everyone
<1>3. Tally(cmds, calls, Everyone(ac))' <=> Tally(cmds, calls, Everyone(ac))
  BY <1>1 DEF Tally, Everyone, Ids
<1>4. CASE pc = "gone"
  <2>1. Undisturbed' => Tally(cmds, calls, Everyone(ac))'
    BY <1>2, <1>3, <1>4 DEF Counts
  <2>2. Everyone(ac)' = {}
    BY <1>2, <1>4 DEF Counts, Everyone, Ids
  <2> QED BY <2>1, <2>2 DEF Counts, Given, InLoop
<1>5. CASE pc # "gone"
  <2>1. ac = NoContext /\ cmds = <<>>
    BY <1>5 DEF Begun, Typed, Counted
  <2>2. Everyone(ac') = {} /\ Len(cmds') = 0 /\ 1..0 = {}
    BY <1>1, <2>1, NothingQueued DEF Everyone, NoContext
  <2>3. Tally(cmds, calls, Everyone(ac))'
    BY <2>2 DEF Tally
  <2> QED BY <2>2, <2>3 DEF Counts, Given, InLoop
<1> QED BY <1>4, <1>5

LEMMA EndCounts ==
    ASSUME Typed, Closing, Counts, FreeEnds
    PROVE  Counts' /\ Given'
<1>1. /\ ac' = NoContext /\ cmds' = cmds /\ calls' = calls /\ pc' \in {"gone", "crashed"} /\ pc \in InLoop
      /\ faults \subseteq faults'
  BY DEF FreeEnds, InLoop
<1>2. ac.replies = <<>> /\ ac.invalid = <<>>
  BY DEF Closing, FreeEnds
<1>3. Everyone(ac) = {} /\ Everyone(ac') = {}
  BY <1>1, <1>2, NothingQueued DEF Everyone, NoContext
<1>4. Undisturbed' => Tally(cmds, calls, Everyone(ac))
  BY <1>1, UndisturbedStays DEF Counts
<1>5. Tally(cmds, calls, Everyone(ac))' <=> Tally(cmds, calls, Everyone(ac))
  BY <1>1, <1>3 DEF Tally
<1> QED BY <1>1, <1>3, <1>4, <1>5 DEF Counts, Given

\* A step after which a callback runs that ran before, and what it was given is
\* the same.
LEMMA GivenStays ==
    ASSUME Given, cmds' = cmds, faults \subseteq faults', pc' = "callback" => pc = "callback" /\ frame' = frame
    PROVE  Given'
<1> SUFFICES ASSUME pc' = "callback", Undisturbed' PROVE (frame.cb.id \in 1..Len(cmds) /\ Own(frame.cb, frame.reply))'
  BY DEF Given
<1>1. frame.cb.id \in 1..Len(cmds) /\ Own(frame.cb, frame.reply)
  BY UndisturbedStays DEF Given
<1>2. frame' = frame
  OBVIOUS
<1>3. Own(frame.cb, frame.reply)'
  BY <1>1, <1>2 DEF Own
<1> QED BY <1>1, <1>2, <1>3

LEMMA AsideGiven ==
    ASSUME Control, Given, Aside,
           \/ AppFree \/ AppDisconnect \/ HandleRead \/ HandleWrite \/ ConnectCallbackReturns
           \/ HandleEvent \/ CallbackReturns \/ FreeCallbackReturns
    PROVE  Given'
<1>1. \A k, a : StartFree(k, a) \/ Disconnect(k, a) => pc' # "callback"
  BY DEF StartFree, Disconnect, Crash
<1>2. \A k, a : ReadEvent(k, a) \/ WriteEvent(k, a) => pc' # "callback"
  BY <1>1 DEF ReadEvent, WriteEvent
<1>3. \A then, a : FirstEvent(then, a) => pc' # "callback"
  BY DEF FirstEvent
<1>4. HandleRead \/ HandleWrite => pc' # "callback"
  BY <1>2, <1>3 DEF HandleRead, HandleWrite
<1>5. HandleEvent => pc' # "callback"
  <2>1. HandleEvent => frame.then \in {"abort", "read", "write"}
    BY DEF HandleEvent, Control, Resumes
  <2> QED BY <1>1, <1>2, <2>1 DEF HandleEvent
<1>6. ConnectCallbackReturns \/ CallbackReturns \/ FreeCallbackReturns => pc' # "callback"
  BY <1>1 DEF ConnectCallbackReturns, CallbackReturns, FreeCallbackReturns
<1>7. AppFree \/ AppDisconnect => (pc' = "callback" => pc = "callback" /\ frame' = frame)
  BY <1>1 DEF AppFree, AppDisconnect
<1> QED BY <1>4, <1>5, <1>6, <1>7, GivenStays DEF Aside

LEMMA NextCounts ==
    ASSUME Control, Typed, Begun, Placed, Closing, Heard, Heard', Posted, Counts, Given, [Next]_vars
    PROVE  Counts' /\ Given'
<1>1. ASSUME pc \in InLoop,
             \/ AsyncServe \/ Publish \/ Resolve \/ ((Closes \/ Garbles) /\ UNCHANGED asyncVars)
             \/ UNCHANGED vars
      PROVE  Counts' /\ Given'
  <2>1. Aside /\ UNCHANGED <<c, pc, ac, frame, cmds, calls, faults>>
    BY <1>1, ServerAside
  <2> QED BY <1>1, <2>1, AsideCounts, GivenStays
<1>2. CASE ContextNext /\ UNCHANGED asyncVars
  <2>1. CASE pc \in InLoop
    <3>1. pc' \in InLoop => Closes \/ Garbles
      BY <1>2, <2>1, ContextInLoop
    <3> QED BY <1>1, <1>2, <2>1, <3>1, ContextInLoop
  <2>2. CASE pc \notin InLoop
    BY <1>2, <2>2, ContextInLoop, OutsideCounts
  <2> QED BY <2>1, <2>2
<1>3. CASE Initialize
  <2>1. cmds' = <<>> /\ pc' = "loop"
    BY <1>3 DEF Initialize, Quiet, Outside, Typed, Counted
  <2>2. Tally(cmds, calls, Everyone(ac))'
    <3>1. Len(<<>>) = 0 /\ 1..0 = {}
      OBVIOUS
    <3> QED BY <2>1, <3>1 DEF Tally
  <2> QED BY <2>1, <2>2 DEF Counts, Given
<1>4. CASE AsyncCommand
  BY <1>4, CommandCounts
<1>5. CASE \/ AppFree \/ AppDisconnect \/ HandleRead \/ HandleWrite \/ ConnectCallbackReturns
           \/ HandleEvent \/ CallbackReturns \/ FreeCallbackReturns
  <2>1. Aside /\ pc \in InLoop /\ pc' \in InLoop
    BY <1>5, AsideSteps, LoopSteps
  <2> QED BY <1>5, <2>1, AsideCounts, AsideGiven
<1>6. CASE ProcessCallbacks
  BY <1>6, TurnCounts
<1>7. CASE FreeNext
  BY <1>7, FreeNextCounts
<1>8. CASE FreeEnds
  BY <1>8, EndCounts
<1>9. CASE AsyncServe \/ Publish \/ Resolve
  <2>1. pc \in {"idle", "write", "read", "loop"} /\ pc' = pc
    BY <1>9 DEF AsyncServe, Publish, Resolve, Peer
  <2>2. AsyncServe => pc = "loop"
    BY <2>1 DEF AsyncServe, Control, Mode, Has
  <2>3. Publish => server # NoServer
    BY DEF Publish, NoServer
  <2>4. pc # "loop" => server = NoServer
    BY <2>1 DEF Begun, Outside
  <2>5. CASE pc = "loop"
    BY <1>1, <1>9, <2>5 DEF InLoop
  <2>6. CASE pc # "loop"
    <3>1. Resolve /\ pc \notin InLoop
      BY <1>9, <2>1, <2>2, <2>3, <2>4, <2>6 DEF InLoop
    <3> QED BY <2>1, <3>1, OutsideCounts DEF Resolve
  <2> QED BY <2>5, <2>6
<1>10. CASE UNCHANGED vars
  <2>1. pc \notin InLoop => pc' \notin InLoop
    BY <1>10 DEF vars, contextVars
  <2> QED BY <1>1, <1>10, <2>1, OutsideCounts DEF vars
<1> QED BY <1>2, <1>3, <1>4, <1>5, <1>6, <1>7, <1>8, <1>9, <1>10
        DEF Next, AsyncNext, Handlers

(***************************************************************************)
(* The assertion about the mode                                            *)
(***************************************************************************)
Reasoned ==
    "mode" \in faults =>
        /\ pc = "crashed"
        /\ {"overtaken", "mistaken"} \cap faults # {} \/ ac.invalid # <<>> \/ First(c.inbuf).op = "unsubscribe"

\* If no answer went astray and nobody waits, only the confirmation of an
\* UNSUBSCRIBE comes outside of subscribed mode.
LEMMA OnlyUnsubscribe ==
    ASSUME Typed, Placed, Heard, Posted, pc = "process", Whole(c.inbuf), Msg.op \notin {"garbage", "error"},
           ac.replies = <<>>, ac.invalid = <<>>, ~Has(c, "SUBSCRIBED"), ~Has(c, "MONITORING"),
           {"overtaken", "mistaken"} \cap faults = {}
    PROVE  Msg.op = "unsubscribe"
<1> DEFINE l == Letters(Behind(c.inbuf) \o down)
<1>1. /\ Msg \in AnyMessage /\ Incoming = <<Msg>> \o l /\ l \in Seq(AnyMessage)
  BY IncomingIs, LettersLaws
<1>2. pc \in Served /\ Tidy
  BY DEF Served, Tidy, Placed, InLoop
<1>3. Everyone(ac) = {}
  BY NothingQueued DEF Everyone
<1>4. PICK m, w, x, s, subs, open, alive, mon, tidy :
        /\ m = Msg /\ w = cmds /\ x = Sending /\ s = Has(c, "SUBSCRIBED") /\ subs = server.subs
        /\ open = Open /\ alive = Alive /\ mon = Monitored /\ tidy = Tidy
  OBVIOUS
<1>5. Posts(w, <<m>> \o l, x, ac, s, subs, open, alive, mon, tidy)
  BY <1>1, <1>2, <1>4 DEF Posted
<1>6. x \in Seq(Nat) /\ (alive => open) /\ (~open => x = <<>>)
  BY <1>2, <1>4, SendingTyped DEF Alive
<1>7. tidy => ~mon /\ \A k \in 1..Len(w) : w[k].op # "monitor"
  <2>1. DOMAIN cmds = 1..Len(cmds)
    BY LenProperties DEF Typed, Answering
  <2> QED BY <1>4, <2>1 DEF Tidy, Monitored
<1>8. \A i \in 1..Len(Incoming) : Incoming[i].op \notin {"subscribe", "message"}
  BY <1>2, Unsubscribed
<1> HIDE DEF l
<1>9. /\ Len(Incoming) = Len(l) + 1 /\ Len(l) \in Nat /\ Incoming[1] = Msg
      /\ \A i \in 1..Len(l) : i + 1 \in 1..Len(Incoming) /\ Incoming[i + 1] = l[i]
  BY <1>1, Headed
<1>10. News(l, ac, s)
  BY <1>8, <1>9 DEF News
<1>11. Msg.op \notin {"subscribe", "message"}
  <2>1. 1 \in 1..Len(Incoming)
    BY <1>9
  <2> QED BY <1>8, <1>9, <2>1
<1>12. Msg.op \notin {"answer", "line"}
  <2> SUFFICES ASSUME Msg.op \in {"answer", "line"} PROVE FALSE
    OBVIOUS
  <2>1. Nobodys(m, ac)
    BY <1>3, <1>4 DEF Nobodys
  <2>2. tidy => Dealt(m, ac, ac)
    BY <2>1 DEF Dealt
  <2>3. m \in AnyMessage /\ Everyone(ac) \subseteq Nat
    BY <1>1, <1>3, <1>4
  <2>4. Took(w, m, l, x, ac, ac, s, subs, open, alive, mon, tidy)
    BY <1>1, <1>5, <1>6, <1>7, <1>10, <2>2, <2>3, TakenPosts
  <2>5. tidy
    BY <1>2, <1>4
  <2> QED BY <2>1, <2>4, <2>5 DEF Took, Fits
<1> QED BY <1>1, <1>11, <1>12 DEF AnyMessage, Kinds

LEMMA NextReasoned ==
    ASSUME Control, Typed, Begun, Placed, Heard, Posted, Reasoned, [Next]_vars
    PROVE  Reasoned'
<1>1. ASSUME UNCHANGED <<c, pc, ac, faults>> PROVE Reasoned'
  BY <1>1 DEF Reasoned
<1>2. ASSUME "mode" \notin faults, faults' \subseteq faults \cup {"topic", "freed", "clean", "stale", "overtaken", "mistaken"}
      PROVE  Reasoned'
  BY <1>2 DEF Reasoned
<1>3. pc # "crashed" => "mode" \notin faults
  BY DEF Reasoned
<1>4. \A k, a : StartFree(k, a) \/ Disconnect(k, a) => faults' \subseteq faults \cup {"clean"}
  BY DEF StartFree, Disconnect, Crash
<1>5. CASE ContextNext /\ UNCHANGED asyncVars
  <2>1. CASE pc \in InLoop
    <3>1. UNCHANGED c /\ pc' = pc
      BY <1>5, <2>1, ContextInLoop DEF Closes, Garbles
    <3> QED BY <1>1, <1>5, <3>1 DEF asyncVars
  <2>2. CASE pc \notin InLoop
    BY <1>2, <1>3, <1>5, <2>2 DEF InLoop, asyncVars
  <2> QED BY <2>1, <2>2
<1>6. CASE AsyncServe \/ Publish \/ Resolve \/ UNCHANGED vars
  BY <1>1, <1>6 DEF AsyncServe, Publish, Resolve, asyncVars, vars, contextVars
<1>7. CASE Initialize \/ AsyncCommand
  <2>1. pc # "crashed" /\ faults' = faults
    BY <1>7 DEF Initialize, AsyncCommand, App
  <2> QED BY <1>2, <1>3, <2>1
<1>8. CASE \/ AppFree \/ AppDisconnect \/ HandleRead \/ HandleWrite \/ ConnectCallbackReturns
           \/ HandleEvent \/ CallbackReturns \/ FreeCallbackReturns
  <2>1. \A k, a : ReadEvent(k, a) \/ WriteEvent(k, a) => faults' \subseteq faults \cup {"clean"}
    BY <1>4 DEF ReadEvent, WriteEvent
  <2>2. \A then, a : FirstEvent(then, a) => faults' = faults
    BY DEF FirstEvent
  <2>3. HandleEvent => frame.then \in {"abort", "read", "write"}
    BY DEF HandleEvent, Control, Resumes
  <2>4. faults' \subseteq faults \cup {"clean"}
    <3>1. CASE AppFree \/ AppDisconnect \/ CallbackReturns
      BY <1>4, <3>1 DEF AppFree, AppDisconnect, CallbackReturns
    <3>2. CASE HandleRead \/ HandleWrite
      BY <2>1, <2>2, <3>2 DEF HandleRead, HandleWrite
    <3>3. CASE HandleEvent
      BY <1>4, <2>1, <2>3, <3>3 DEF HandleEvent
    <3>4. CASE ConnectCallbackReturns \/ FreeCallbackReturns
      BY <3>4 DEF ConnectCallbackReturns, FreeCallbackReturns
    <3> QED BY <1>8, <3>1, <3>2, <3>3, <3>4
  <2>5. pc # "crashed"
    BY <1>8, LoopSteps
  <2> QED BY <1>2, <1>3, <2>4, <2>5
<1>9. CASE FreeNext \/ FreeEnds
  <2>1. pc # "crashed" /\ faults' \subseteq faults \cup {"freed"}
    BY <1>9 DEF FreeNext, FreeEnds
  <2> QED BY <1>2, <1>3, <2>1
<1>10. CASE ProcessCallbacks
  <2>1. pc = "process" /\ "mode" \notin faults
    BY <1>3, <1>10 DEF ProcessCallbacks
  <2>2. CASE GivesUp
    BY <1>2, <1>4, <2>1, <2>2 DEF GivesUp
  <2>3. CASE Waits
    BY <1>2, <2>1, <2>3 DEF Waits
  <2>4. SUFFICES ASSUME Whole(c.inbuf), Msg \in AnyMessage, Msg.op # "garbage",
                        ToOldest \/ ToAside \/ ToAnother \/ ToTopic \/ Asserts
                 PROVE  Reasoned'
    BY <1>10, <2>2, <2>3, TurnIs
  <2>5. CASE ToOldest \/ ToAside \/ ToAnother \/ ToTopic
    BY <1>2, <2>1, <2>5 DEF ToOldest, ToAside, ToAnother, ToTopic, Confusion
  <2>6. CASE Asserts
    <3>1. CASE Crash("topic")
      BY <1>2, <2>1, <3>1 DEF Crash
    <3>2. CASE Crash("mode") /\ ~Has(c, "SUBSCRIBED") /\ ~Has(c, "MONITORING")
      <4>1. /\ UNCHANGED <<c, ac>> /\ pc' = "crashed" /\ faults' = faults \cup {"mode"}
            /\ ac.replies = <<>> /\ Msg.op # "error"
        BY <2>6, <3>2 DEF Asserts, Crash
      <4>2. {"overtaken", "mistaken"} \cap faults # {} \/ ac.invalid # <<>> \/ Msg.op = "unsubscribe"
        BY <2>1, <2>4, <3>2, <4>1, OnlyUnsubscribe
      <4>3. First(c.inbuf)' = Msg
        BY <4>1 DEF Msg
      <4> QED BY <4>1, <4>2, <4>3 DEF Reasoned
    <3> QED BY <2>6, <3>1, <3>2 DEF Asserts
  <2> QED BY <2>4, <2>5, <2>6
<1> QED BY <1>5, <1>6, <1>7, <1>8, <1>9, <1>10
        DEF Next, AsyncNext, Handlers

(***************************************************************************)
(* The properties                                                          *)
(***************************************************************************)
Answers == Placed /\ Closing /\ Heard /\ Posted /\ Counts /\ Given /\ Reasoned

LEMMA AnswersHold == Spec => [](Typed /\ Answers)
<1>1. Init => Answers
  <2> SUFFICES ASSUME Init PROVE Answers
    OBVIOUS
  <2>1. pc = "none" /\ faults = {}
    BY DEF Init, ContextInit
  <2> QED BY <2>1 DEF Answers, Placed, Closing, Heard, Posted, Counts, Given, Reasoned, Served, InLoop
<1>2. Control /\ Typed /\ Begun /\ Begun' /\ Answers /\ [Next]_vars => Answers'
  <2> SUFFICES ASSUME Control, Typed, Begun, Begun', Answers, [Next]_vars PROVE Answers'
    OBVIOUS
  <2>1. Placed /\ Closing /\ Heard /\ Posted /\ Counts /\ Given /\ Reasoned
    BY DEF Answers
  <2>2. Placed' /\ Closing'
    BY <2>1, NextPlaced
  <2>3. Heard'
    BY <2>1, NextHeard
  <2>4. Posted'
    BY <2>1, <2>3, NextPosted
  <2>5. Counts' /\ Given'
    BY <2>1, <2>3, NextCounts
  <2>6. Reasoned'
    BY <2>1, NextReasoned
  <2> QED BY <2>2, <2>3, <2>4, <2>5, <2>6 DEF Answers
<1> QED BY <1>1, <1>2, TypesHold, PTL DEF Spec

\* A callback is given the reply to its own command, an error that nobody asked
\* for, or news of a topic it subscribed to, whatever the callbacks do in between,
\* unless the code dealt a reply to another before (async.c:381, 455, 655) or a
\* MONITOR was issued (async.c:449).
THEOREM AnswersOwned == Spec => []OwnAnswers
<1>1. Answers => OwnAnswers
  BY DEF Answers, Given, Undisturbed, OwnAnswers
<1> QED BY <1>1, AnswersHold, PTL

\* The callback of a regular command runs at most once, with its answer or with
\* NULL, and has run when the context is gone (async.c:282), with the same
\* exceptions.
THEOREM CallbacksOnce == Spec => []AnsweredOnce
<1>1. Typed /\ Answers => AnsweredOnce
  <2> SUFFICES ASSUME Typed, Counts, Undisturbed, NEW k \in DOMAIN calls, Regular(k)
               PROVE  calls[k] <= 1 /\ (pc = "gone" /\ cmds[k].fn => calls[k] = 1)
    BY DEF Answers, AnsweredOnce, Undisturbed
  <2>1. DOMAIN calls = 1..Len(cmds)
    BY LenProperties DEF Typed, Answering, Counted
  <2>2. pc \in InLoop \cup {"gone"}
    <3>1. cmds = <<>> => Len(cmds) = 0 /\ 1..0 = {}
      OBVIOUS
    <3> QED BY <2>1, <3>1 DEF Typed, Counted
  <2>3. calls[k] = IF cmds[k].fn /\ k \notin Everyone(ac) THEN 1 ELSE 0
    BY <2>1, <2>2 DEF Counts, Tally, Regular
  <2>4. pc = "gone" => k \notin Everyone(ac)
    BY DEF Counts
  <2> QED BY <2>3, <2>4
<1> QED BY <1>1, AnswersHold, PTL

\* The assertion that a clean disconnect leaves no callback (async.c:342) holds,
\* and the one about the mode (async.c:477) fails only at the answer to a command
\* whose callback was put aside or was given another answer, or at the confirmation
\* of one UNSUBSCRIBE too many.
THEOREM AssertionsJustified == Spec => []AssertionsHold
<1>1. Answers => AssertionsHold
  BY DEF Answers, Closing, Reasoned, AssertionsHold
<1> QED BY <1>1, AnswersHold, PTL
=============================================================================
