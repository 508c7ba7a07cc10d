------------------------------ MODULE ContainersProofs ------------------------------
(***************************************************************************)
(* The containers of hiredis, for any contents: its dynamic strings, for   *)
(* headers of any widths, in which no field is ever too narrow for what is *)
(* put in it and no character is lost or overwritten; and its hash table,  *)
(* for any hash of the keys, which is a function from keys to values       *)
(* however it grows.                                                       *)
(***************************************************************************)
EXTENDS Sds, Dict, Induction

(***************************************************************************)
(* Dynamic strings                                                         *)
(***************************************************************************)
\* The largest room a header can describe.
Describes(t, alloc) ==
    /\ t = 0 => alloc < Limit[0]
    /\ t \in 1..3 => alloc <= Limit[t]

\* The strings over a set of characters.
String(S) ==
    {s \in [type : HeaderType, len : Nat, alloc : Nat, chars : Seq(S)] :
        SdsOK(s) /\ Describes(s.type, s.alloc)}

LEMMA LimitFacts ==
    /\ \A t \in 0..3 : Limit[t] \in Nat
    /\ 0 < Limit[0] /\ Limit[0] < Limit[1] /\ Limit[1] < Limit[2] /\ Limit[2] < Limit[3]
BY LimitAssumption

\* A field keeps what its header describes.
LEMMA FieldKeeps ==
    ASSUME NEW t \in HeaderType, NEW alloc \in Nat, NEW n \in 0..alloc, Describes(t, alloc)
    PROVE  Field(t, n) = n
<1>1. \A a, b \in Nat : a < b => a % b = a
  OBVIOUS
<1>2. CASE t = 0
  BY <1>1, <1>2, LimitFacts DEF Describes, Field
<1>3. CASE t \in 1..3
  <2>1. n < Limit[t] + 1 /\ Limit[t] + 1 \in Nat
    BY <1>3, LimitFacts DEF Describes
  <2> QED BY <1>1, <1>3, <2>1 DEF Field
<1>4. CASE t = 4
  BY <1>4 DEF Field
<1> QED BY <1>2, <1>3, <1>4 DEF HeaderType

\* sdsReqType chooses a header that describes the length; one of type 5 may be
\* replaced by one of type 8.
LEMMA ReqTypeDescribes ==
    ASSUME NEW n \in Nat
    PROVE  /\ sdsReqType(n) \in HeaderType /\ Describes(sdsReqType(n), n)
           /\ sdsReqType(n) = 0 => Describes(1, n)
BY LimitFacts DEF sdsReqType, Describes, HeaderType

LEMMA HeaderString ==
    ASSUME NEW S, NEW t \in HeaderType, NEW chars \in Seq(S), NEW alloc \in Nat,
           Len(chars) <= alloc, Describes(t, alloc), t = 0 => alloc = Len(chars)
    PROVE  /\ Header(t, Len(chars), alloc, chars) \in String(S)
           /\ Header(t, Len(chars), alloc, chars) =
                [type |-> t, len |-> Len(chars), alloc |-> alloc, chars |-> chars]
<1>1. Field(t, Len(chars)) = Len(chars) /\ Field(t, alloc) = alloc
  BY FieldKeeps
<1> QED BY <1>1 DEF Header, String, SdsOK

LEMMA StringFacts ==
    ASSUME NEW S, NEW s \in String(S)
    PROVE  /\ s.type \in HeaderType /\ s.len \in Nat /\ s.alloc \in Nat /\ s.chars \in Seq(S)
           /\ s.len = Len(s.chars) /\ s.len <= s.alloc
           /\ s.type = 0 => s.alloc = s.len
           /\ Describes(s.type, s.alloc)
           /\ SubSeq(s.chars, 1, s.len) = s.chars
BY SubSeqFull DEF String, SdsOK

LEMMA EmptyString ==
    ASSUME NEW S
    PROVE  sdsempty \in String(S) /\ sdsempty.chars = <<>> /\ sdsempty.type # 0
<1>1. sdsReqType(0) = 0 /\ Len(<<>>) = 0 /\ <<>> \in Seq(S)
  BY LimitFacts DEF sdsReqType
<1>2. sdsempty = Header(1, 0, 0, <<>>)
  BY <1>1 DEF sdsempty, sdsnewlen
<1>3. 1 \in HeaderType /\ Describes(1, 0)
  BY LimitFacts DEF HeaderType, Describes
<1>4. PICK e \in Seq(S), a \in Nat : e = <<>> /\ Len(e) = 0 /\ a = 0
  BY <1>1
<1>5. Len(e) <= a /\ Describes(1, a) /\ 1 # 0
  BY <1>3, <1>4
<1>6. /\ Header(1, Len(e), a, e) \in String(S)
      /\ Header(1, Len(e), a, e).chars = e
      /\ Header(1, Len(e), a, e).type = 1
  BY <1>3, <1>5, HeaderString
<1> QED BY <1>2, <1>4, <1>6

\* After sdsMakeRoomFor there is room, and the string is the same.
LEMMA RoomMade ==
    ASSUME NEW S, NEW s \in String(S), NEW addlen \in Nat
    PROVE  LET r == sdsMakeRoomFor(s, addlen)
           IN  r \in String(S) /\ r.chars = s.chars /\ r.len = s.len
               /\ s.len + addlen <= r.alloc /\ (r.type = 0 => addlen = 0 /\ s.type = 0)
<1>1. CASE sdsavail(s) >= addlen
  BY <1>1, StringFacts DEF sdsMakeRoomFor, sdsavail
<1>2. CASE ~(sdsavail(s) >= addlen)
  <2> DEFINE newlen == IF s.len + addlen < MaxPrealloc
                       THEN 2 * (s.len + addlen) ELSE s.len + addlen + MaxPrealloc
             t == IF sdsReqType(newlen) = 0 THEN 1 ELSE sdsReqType(newlen)
  <2>1. newlen \in Nat /\ s.len + addlen <= newlen /\ s.len <= newlen
    BY StringFacts, PreallocAssumption
  <2> HIDE DEF newlen
  <2>2. t \in HeaderType /\ t # 0 /\ Describes(t, newlen)
    BY <2>1, ReqTypeDescribes DEF HeaderType
  <2> HIDE DEF t
  <2>3. sdsMakeRoomFor(s, addlen) = Header(t, s.len, newlen, s.chars)
    BY <1>2, StringFacts DEF sdsMakeRoomFor, newlen, t
  <2>4. /\ Header(t, s.len, newlen, s.chars) \in String(S)
        /\ Header(t, s.len, newlen, s.chars) =
             [type |-> t, len |-> s.len, alloc |-> newlen, chars |-> s.chars]
    BY <2>1, <2>2, StringFacts, HeaderString
  <2> QED BY <2>1, <2>2, <2>3, <2>4
<1> QED BY <1>1, <1>2

\* What is appended to a string of any length comes behind it, whole, and its
\* length is right in whatever header it now has (sdscatlen).
THEOREM AppendExact ==
    ASSUME NEW S, NEW s \in String(S), NEW t \in Seq(S)
    PROVE  /\ sdscatlen(s, t) \in String(S) /\ sdscatlen(s, t).chars = s.chars \o t
           /\ s.type # 0 => sdscatlen(s, t).type # 0
<1> DEFINE r == sdsMakeRoomFor(s, Len(t))
<1>1. Len(t) \in Nat
  OBVIOUS
<1>2. /\ r \in String(S) /\ r.chars = s.chars /\ r.len = s.len
      /\ s.len + Len(t) <= r.alloc /\ (r.type = 0 => Len(t) = 0 /\ s.type = 0)
  BY <1>1, RoomMade
<1> HIDE DEF r
<1>3. s.chars \o t \in Seq(S) /\ Len(s.chars \o t) = s.len + Len(t)
  BY StringFacts, ConcatProperties
<1>4. sdscatlen(s, t) = Header(r.type, s.len + Len(t), r.alloc, s.chars \o t)
  BY <1>2, StringFacts DEF sdscatlen, r
<1>5. /\ r.type \in HeaderType /\ r.alloc \in Nat /\ Describes(r.type, r.alloc)
      /\ r.type = 0 => r.alloc = s.len + Len(t)
  BY <1>1, <1>2, StringFacts
<1> DEFINE all == s.chars \o t
<1>6. sdscatlen(s, t) = Header(r.type, Len(all), r.alloc, all)
  BY <1>3, <1>4
<1>7. all \in Seq(S) /\ Len(all) <= r.alloc /\ (r.type = 0 => r.alloc = Len(all))
  BY <1>2, <1>3, <1>5
<1> HIDE DEF all
<1>8. /\ Header(r.type, Len(all), r.alloc, all) \in String(S)
      /\ Header(r.type, Len(all), r.alloc, all).chars = all
      /\ Header(r.type, Len(all), r.alloc, all).type = r.type
  BY <1>5, <1>7, HeaderString
<1> QED BY <1>2, <1>6, <1>8 DEF all

\* sdsrange drops from the front what was sent and keeps the rest; a string of
\* type 5 has to lose nothing, for it has no field for the room it leaves.
THEOREM RestExact ==
    ASSUME NEW S, NEW s \in String(S), s.type # 0, NEW n \in Nat
    PROVE  /\ sdsrange(s, n) \in String(S) /\ sdsrange(s, n).type # 0
           /\ sdsrange(s, n).chars = SubSeq(s.chars, n + 1, s.len)
<1>1. CASE s.len = 0
  BY <1>1, StringFacts, SubSeqEmpty DEF sdsrange
<1>2. CASE s.len # 0
  <2> DEFINE newlen == IF n > s.len - 1 THEN 0 ELSE s.len - n
             rest == SubSeq(s.chars, n + 1, n + newlen)
  <2>1. newlen \in Nat /\ newlen <= s.len /\ (newlen # 0 => n + newlen = s.len)
    BY StringFacts
  <2>2. rest = SubSeq(s.chars, n + 1, s.len)
    BY <2>1, StringFacts, SubSeqEmpty
  <2>3. rest \in Seq(S) /\ Len(rest) = newlen
    <3>1. \A i \in n + 1 .. n + newlen : s.chars[i] \in S
      BY <2>1, StringFacts
    <3> QED BY <2>1, <3>1, SubSeqProperties
  <2>4. sdsrange(s, n) = Header(s.type, newlen, s.alloc, rest)
    BY <1>2, StringFacts DEF sdsrange
  <2> HIDE DEF newlen, rest
  <2>5. /\ Header(s.type, Len(rest), s.alloc, rest) \in String(S)
        /\ Header(s.type, Len(rest), s.alloc, rest).chars = rest
        /\ Header(s.type, Len(rest), s.alloc, rest).type = s.type
    BY <2>1, <2>3, StringFacts, HeaderString
  <2> QED BY <2>2, <2>3, <2>4, <2>5
<1> QED BY <1>1, <1>2

(***************************************************************************)
(* The hash table                                                          *)
(***************************************************************************)
Entry(V) == [key : DOMAIN Hash, val : V]
Dicts(V) == [used : Nat, table : Seq(Seq(Entry(V)))]

Entries(d) == UNION {ToSet(d.table[s]) : s \in DOMAIN d.table}

\* Every entry is in the chain of its slot; no chain has a key twice.
Sorted(d) ==
    \A s \in 1..size(d) : \A i \in 1..Len(d.table[s]) : Slot(d.table[s][i].key, size(d)) = s
Single(d) ==
    \A s \in 1..size(d) : \A i, j \in 1..Len(d.table[s]) :
        d.table[s][i].key = d.table[s][j].key => i = j

\* A dictionary with values out of V, as its operations leave it.
Sound(d, V) ==
    /\ d \in Dicts(V) /\ Sorted(d) /\ Single(d)
    /\ IsFiniteSet(Entries(d)) /\ d.used = Cardinality(Entries(d)) /\ d.used <= size(d)

LEMMA SlotRange ==
    ASSUME NEW k \in DOMAIN Hash, NEW n \in Nat \ {0}
    PROVE  Slot(k, n) \in 1..n
<1>1. Hash[k] \in Nat
  BY HashAssumption
<1>2. Hash[k] % n \in 0..n - 1
  BY <1>1
<1> QED BY <1>2 DEF Slot

LEMMA DictTyped ==
    ASSUME NEW V, NEW d \in Dicts(V)
    PROVE  /\ size(d) \in Nat /\ DOMAIN d.table = 1..size(d) /\ d.used \in Nat
           /\ \A s \in 1..size(d) : /\ d.table[s] \in Seq(Entry(V)) /\ Len(d.table[s]) \in Nat
                                    /\ DOMAIN d.table[s] = 1..Len(d.table[s])
                                    /\ \A i \in 1..Len(d.table[s]) : d.table[s][i] \in Entry(V)
           /\ \A e : e \in Entries(d) <=>
                \E s \in 1..size(d) : \E i \in 1..Len(d.table[s]) : e = d.table[s][i]
<1>1. d.table \in Seq(Seq(Entry(V))) /\ d.used \in Nat
  BY DEF Dicts
<1>2. size(d) \in Nat /\ DOMAIN d.table = 1..size(d)
  BY <1>1, LenProperties DEF size
<1>3. ASSUME NEW s \in 1..size(d)
      PROVE  /\ d.table[s] \in Seq(Entry(V)) /\ Len(d.table[s]) \in Nat
             /\ DOMAIN d.table[s] = 1..Len(d.table[s])
             /\ \A i \in 1..Len(d.table[s]) : d.table[s][i] \in Entry(V)
  <2>1. d.table[s] \in Seq(Entry(V))
    BY <1>1, <1>3, ElementOfSeq DEF size
  <2> QED BY <2>1, LenProperties, ElementOfSeq
<1>4. ASSUME NEW e
      PROVE  e \in Entries(d) <=>
               \E s \in 1..size(d) : \E i \in 1..Len(d.table[s]) : e = d.table[s][i]
  <2>1. e \in Entries(d) <=> \E s \in 1..size(d) : e \in ToSet(d.table[s])
    BY <1>2 DEF Entries
  <2>2. \A s \in 1..size(d) : e \in ToSet(d.table[s]) <=> \E i \in 1..Len(d.table[s]) : e = d.table[s][i]
    BY <1>3 DEF ToSet
  <2> QED BY <2>1, <2>2
<1> QED BY <1>1, <1>2, <1>3, <1>4

Held(e, d) == \E s \in 1..size(d) : \E i \in 1..Len(d.table[s]) : e = d.table[s][i]

LEMMA EntriesAre ==
    ASSUME NEW V, NEW d \in Dicts(V), NEW e
    PROVE  e \in Entries(d) <=> Held(e, d)
<1>1. \A r : r \in Entries(d) <=>
                \E s \in 1..size(d) : \E i \in 1..Len(d.table[s]) : r = d.table[s][i]
  BY DictTyped
<1> QED BY <1>1 DEF Held

\* dictFind finds the one entry with the key.
LEMMA Found ==
    ASSUME NEW V, NEW d, Sound(d, V), NEW k \in DOMAIN Hash
    PROVE  /\ dictHas(d, k) <=> \E e \in Entries(d) : e.key = k
           /\ dictHas(d, k) => /\ size(d) \in Nat \ {0} /\ Slot(k, size(d)) \in 1..size(d)
                               /\ Place(d, k) \in 1..Len(d.table[Slot(k, size(d))])
                               /\ d.table[Slot(k, size(d))][Place(d, k)].key = k
                               /\ [key |-> k, val |-> dictFind(d, k)] \in Entries(d)
           /\ \A e \in Entries(d) : e.key = k => e.val = dictFind(d, k)
<1> DEFINE n == size(d)
           h == Slot(k, n)
           ch == d.table[h]
           I == {i \in 1..Len(ch) : ch[i].key = k}
<1>0. d \in Dicts(V) /\ Sorted(d) /\ Single(d)
  BY DEF Sound
<1>1. n \in Nat
  BY <1>0, DictTyped
<1>2. CASE n = 0
  <2>1. ~dictHas(d, k) /\ Entries(d) = {}
    BY <1>0, <1>2, DictTyped DEF dictHas, Place
  <2> QED BY <2>1
<1>3. CASE n # 0
  <2>1. h \in 1..n
    BY <1>1, <1>3, SlotRange
  <2>2. ch \in Seq(Entry(V)) /\ Len(ch) \in Nat /\ \A i \in 1..Len(ch) : ch[i] \in Entry(V) /\ ch[i] \in Entries(d)
    BY <1>0, <2>1, DictTyped
  <2>3. Place(d, k) = IF I # {} THEN CHOOSE x \in I : \A y \in I : x <= y ELSE 0
    BY <1>3 DEF Place, SelectInSeq, Min, size
  <2>4. \A e \in Entries(d) : e.key = k => \E i \in I : e = ch[i]
    <3> SUFFICES ASSUME NEW e \in Entries(d), e.key = k PROVE \E i \in I : e = ch[i]
      OBVIOUS
    <3>1. PICK s \in 1..n : \E i \in 1..Len(d.table[s]) : e = d.table[s][i]
      BY <1>0, DictTyped
    <3>2. PICK i \in 1..Len(d.table[s]) : e = d.table[s][i]
      BY <3>1
    <3>3. s = h
      BY <1>0, <3>2 DEF Sorted
    <3> QED BY <3>2, <3>3
  <2>5. I # {} => Place(d, k) \in I
    <3>1. I \in SUBSET Nat
      BY <2>2
    <3> HIDE DEF I
    <3>2. I # {} => \E m \in I : \A i \in I : m <= i
      BY <3>1, LeastNumber
    <3> QED BY <2>3, <3>2
  <2>6. dictHas(d, k) <=> I # {}
    <3>1. I = {} => Place(d, k) = 0
      BY <2>3
    <3>2. I # {} => Place(d, k) > 0
      BY <2>2, <2>5
    <3> HIDE DEF I
    <3> QED BY <3>1, <3>2 DEF dictHas
  <2>7. \A i \in I : i = Place(d, k)
    <3> SUFFICES ASSUME NEW i \in I PROVE i = Place(d, k)
      OBVIOUS
    <3>1. Place(d, k) \in I
      BY <2>5
    <3> QED BY <1>0, <2>1, <3>1 DEF Single
  <2>8. dictFind(d, k) = ch[Place(d, k)].val
    BY DEF dictFind
  <2>9. ASSUME dictHas(d, k)
        PROVE  /\ Place(d, k) \in 1..Len(ch) /\ ch[Place(d, k)].key = k
               /\ [key |-> k, val |-> dictFind(d, k)] \in Entries(d)
    <3>1. Place(d, k) \in I
      BY <2>5, <2>6, <2>9
    <3>2. ch[Place(d, k)] \in Entry(V) /\ ch[Place(d, k)] \in Entries(d)
      BY <2>2, <3>1
    <3>3. ch[Place(d, k)] = [key |-> k, val |-> dictFind(d, k)]
      BY <2>8, <3>1, <3>2 DEF Entry
    <3> QED BY <3>1, <3>2, <3>3
  <2>10. dictHas(d, k) <=> \E e \in Entries(d) : e.key = k
    <3>1. dictHas(d, k) => [key |-> k, val |-> dictFind(d, k)].key = k
      OBVIOUS
    <3>2. (\E e \in Entries(d) : e.key = k) => I # {}
      BY <2>4
    <3> HIDE DEF I
    <3> QED BY <2>6, <2>9, <3>1, <3>2
  <2>11. \A e \in Entries(d) : e.key = k => e.val = dictFind(d, k)
    BY <2>4, <2>7, <2>8
  <2> QED BY <1>1, <1>3, <2>1, <2>9, <2>10, <2>11
<1> QED BY <1>2, <1>3

LEMMA EmptyDict ==
    ASSUME NEW V
    PROVE  Sound(dictCreate, V) /\ Entries(dictCreate) = {}
<1>1. dictCreate \in Dicts(V) /\ size(dictCreate) = 0
  BY DEF dictCreate, Dicts, size
<1>2. Entries(dictCreate) = {}
  <2>1. \A e : ~(e \in Entries(dictCreate))
    BY <1>1, DictTyped
  <2> QED BY <2>1
<1>3. Sorted(dictCreate) /\ Single(dictCreate)
  BY <1>1 DEF Sorted, Single
<1>4. dictCreate.used = 0
  BY DEF dictCreate
<1> QED BY <1>1, <1>2, <1>3, <1>4, FS_EmptySet DEF Sound

\* What a sequence of sequences gives is what they have.
LEMMA FlattenRange ==
    ASSUME NEW V, NEW s \in Seq(Seq(V))
    PROVE  \A x : (\E a \in 1..Len(FlattenSeq(s)) : FlattenSeq(s)[a] = x) <=>
                 \E i \in 1..Len(s) : \E b \in 1..Len(s[i]) : s[i][b] = x
<1> DEFINE P == {r \in Seq(Seq(V)) :
                   \A x \in V : (\E a \in 1..Len(FlattenSeq(r)) : FlattenSeq(r)[a] = x) <=>
                                \E i \in 1..Len(r) : \E b \in 1..Len(r[i]) : r[i][b] = x}
<1>1. <<>> \in P
  <2>1. <<>> \in Seq(Seq(V)) /\ Len(<<>>) = 0 /\ FlattenSeq(<<>>) = <<>>
    BY FlattenEmpty
  <2> QED BY <2>1
<1>2. ASSUME NEW r \in Seq(Seq(V)), NEW y \in Seq(V), r \in P PROVE Append(r, y) \in P
  <2> DEFINE t == Append(r, y)
             f == FlattenSeq(r)
             n == Len(r)
  <2>1. /\ t \in Seq(Seq(V)) /\ Len(t) = n + 1 /\ t[n + 1] = y /\ \A i \in 1..n : t[i] = r[i]
        /\ n \in Nat
    BY AppendProperties, LenProperties
  <2>2. f \in Seq(V) /\ FlattenSeq(t) = f \o y
    BY FlattenType, FlattenAppend
  <2>3. /\ Len(f) \in Nat /\ Len(y) \in Nat /\ Len(f \o y) = Len(f) + Len(y)
        /\ \A a \in 1..Len(f) + Len(y) : (f \o y)[a] = IF a <= Len(f) THEN f[a] ELSE y[a - Len(f)]
    BY <2>2, ConcatProperties, LenProperties
  <2> HIDE DEF t, f
  <2>4. ASSUME NEW x \in V
        PROVE  (\E a \in 1..Len(f \o y) : (f \o y)[a] = x) <=>
                 (\E a \in 1..Len(f) : f[a] = x) \/ (\E b \in 1..Len(y) : y[b] = x)
    <3>1. ASSUME NEW a \in 1..Len(f), f[a] = x PROVE a \in 1..Len(f \o y) /\ (f \o y)[a] = x
      BY <2>3, <3>1
    <3>2. ASSUME NEW b \in 1..Len(y), y[b] = x
          PROVE  Len(f) + b \in 1..Len(f \o y) /\ (f \o y)[Len(f) + b] = x
      BY <2>3, <3>2
    <3>3. ASSUME NEW a \in 1..Len(f \o y), (f \o y)[a] = x
          PROVE  (a \in 1..Len(f) /\ f[a] = x) \/ (a - Len(f) \in 1..Len(y) /\ y[a - Len(f)] = x)
      BY <2>3, <3>3
    <3> QED BY <3>1, <3>2, <3>3
  <2>5. ASSUME NEW x \in V
        PROVE  (\E i \in 1..Len(t) : \E b \in 1..Len(t[i]) : t[i][b] = x) <=>
                 (\E i \in 1..n : \E b \in 1..Len(r[i]) : r[i][b] = x) \/ (\E b \in 1..Len(y) : y[b] = x)
    <3>1. ASSUME NEW i \in 1..Len(t), NEW b \in 1..Len(t[i]), t[i][b] = x
          PROVE  \/ i \in 1..n /\ b \in 1..Len(r[i]) /\ r[i][b] = x
                 \/ b \in 1..Len(y) /\ y[b] = x
      BY <2>1, <3>1
    <3>2. ASSUME NEW i \in 1..n, NEW b \in 1..Len(r[i]), r[i][b] = x
          PROVE  i \in 1..Len(t) /\ b \in 1..Len(t[i]) /\ t[i][b] = x
      BY <2>1, <3>2, SMTT(60)
    <3>3. ASSUME NEW b \in 1..Len(y), y[b] = x
          PROVE  n + 1 \in 1..Len(t) /\ b \in 1..Len(t[n + 1]) /\ t[n + 1][b] = x
      BY <2>1, <3>3
    <3> QED BY <3>1, <3>2, <3>3
  <2>6. \A x \in V : (\E a \in 1..Len(f) : f[a] = x) <=>
                     \E i \in 1..n : \E b \in 1..Len(r[i]) : r[i][b] = x
    BY <1>2 DEF f
  <2> QED BY <2>1, <2>2, <2>4, <2>5, <2>6, ZenonT(60) DEF t
<1>3. s \in P
  <2> HIDE DEF P
  <2> QED BY <1>1, <1>2, SeqSetInduction
<1>4. \A a \in 1..Len(FlattenSeq(s)) : FlattenSeq(s)[a] \in V
  BY FlattenType, ElementOfSeq
<1>5. \A i \in 1..Len(s) : \A b \in 1..Len(s[i]) : s[i][b] \in V
  BY ElementOfSeq
<1> QED BY <1>3, <1>4, <1>5

\* No two elements have the same key, in one sequence or in any of several.
Distinct(q) == \A a, b \in 1..Len(q) : q[a].key = q[b].key => a = b
Apart(s) ==
    \A i, j \in 1..Len(s) : \A a \in 1..Len(s[i]), b \in 1..Len(s[j]) :
        s[i][a].key = s[j][b].key => i = j /\ a = b

LEMMA FlattenDistinct ==
    ASSUME NEW V, NEW s \in Seq(Seq(V)), Apart(s)
    PROVE  Distinct(FlattenSeq(s))
<1> DEFINE P == {r \in Seq(Seq(V)) : Apart(r) => Distinct(FlattenSeq(r))}
<1>1. <<>> \in P
  <2>1. <<>> \in Seq(Seq(V)) /\ FlattenSeq(<<>>) = <<>> /\ Len(<<>>) = 0
    BY FlattenEmpty
  <2> QED BY <2>1 DEF Distinct
<1>2. ASSUME NEW r \in Seq(Seq(V)), NEW y \in Seq(V), r \in P PROVE Append(r, y) \in P
  <2> DEFINE t == Append(r, y)
             f == FlattenSeq(r)
             n == Len(r)
  <2>1. /\ t \in Seq(Seq(V)) /\ Len(t) = n + 1 /\ t[n + 1] = y /\ \A i \in 1..n : t[i] = r[i]
        /\ n \in Nat
    BY AppendProperties, LenProperties
  <2>2. f \in Seq(V) /\ FlattenSeq(t) = f \o y
    BY FlattenType, FlattenAppend
  <2>3. /\ Len(f) \in Nat /\ Len(y) \in Nat /\ Len(f \o y) = Len(f) + Len(y)
        /\ \A a \in 1..Len(f) + Len(y) : (f \o y)[a] = IF a <= Len(f) THEN f[a] ELSE y[a - Len(f)]
    BY <2>2, ConcatProperties, LenProperties
  <2>a. \A a \in 1..Len(f) : \E i \in 1..n : \E b \in 1..Len(r[i]) : r[i][b] = f[a]
    <3>1. \A x : (\E a \in 1..Len(FlattenSeq(r)) : FlattenSeq(r)[a] = x) <=>
                \E i \in 1..n : \E b \in 1..Len(r[i]) : r[i][b] = x
      BY FlattenRange
    <3> TAKE a \in 1..Len(f)
    <3>2. \E b \in 1..Len(f) : f[b] = f[a]
      OBVIOUS
    <3> QED BY <3>1, <3>2
  <2> HIDE DEF t, f
  <2> SUFFICES ASSUME Apart(t) PROVE Distinct(f \o y)
    BY <2>1, <2>2 DEF t
  <2>4. Distinct(f)
    <3>1. Apart(r)
      <4> SUFFICES ASSUME NEW i \in 1..n, NEW j \in 1..n,
                          NEW a \in 1..Len(r[i]), NEW b \in 1..Len(r[j]), r[i][a].key = r[j][b].key
                   PROVE  i = j /\ a = b
        BY DEF Apart
      <4>1. i \in 1..Len(t) /\ j \in 1..Len(t) /\ t[i] = r[i] /\ t[j] = r[j]
        BY <2>1
      <4>2. a \in 1..Len(t[i]) /\ b \in 1..Len(t[j]) /\ t[i][a].key = t[j][b].key
        BY <4>1
      <4> QED BY <4>1, <4>2, SMTT(60) DEF Apart
    <3> QED BY <1>2, <3>1 DEF f
  <2>5. \A a, b \in 1..Len(y) : y[a].key = y[b].key => a = b
    <3>1. n + 1 \in 1..Len(t)
      BY <2>1
    <3> QED BY <2>1, <3>1 DEF Apart
  <2>6. \A a \in 1..Len(f), b \in 1..Len(y) : f[a].key # y[b].key
    <3> SUFFICES ASSUME NEW a \in 1..Len(f), NEW b \in 1..Len(y), f[a].key = y[b].key PROVE FALSE
      OBVIOUS
    <3>1. PICK i \in 1..n : \E d \in 1..Len(r[i]) : r[i][d] = f[a]
      BY <2>a
    <3>2. PICK d \in 1..Len(r[i]) : r[i][d] = f[a]
      BY <3>1
    <3>3. /\ i \in 1..Len(t) /\ n + 1 \in 1..Len(t) /\ t[i] = r[i] /\ t[n + 1] = y /\ i # n + 1
      BY <2>1
    <3> QED BY <3>2, <3>3, SMTT(60) DEF Apart
  <2>7. ASSUME NEW a \in 1..Len(f \o y), NEW b \in 1..Len(f \o y),
               (f \o y)[a].key = (f \o y)[b].key
        PROVE  a = b
    <3> DEFINE m == Len(f)
    <3>0. a \in 1..m + Len(y) /\ b \in 1..m + Len(y) /\ m \in Nat /\ Len(y) \in Nat
      BY <2>3
    <3>1. CASE a <= m /\ b <= m
      <4>1. a \in 1..m /\ b \in 1..m /\ f[a].key = f[b].key
        BY <2>3, <2>7, <3>0, <3>1
      <4> QED BY <2>4, <4>1 DEF Distinct
    <3>2. CASE a <= m /\ b > m
      <4>1. a \in 1..m /\ b - m \in 1..Len(y) /\ f[a].key = y[b - m].key
        BY <2>3, <2>7, <3>0, <3>2
      <4> QED BY <2>6, <4>1
    <3>3. CASE a > m /\ b <= m
      <4>1. b \in 1..m /\ a - m \in 1..Len(y) /\ f[b].key = y[a - m].key
        BY <2>3, <2>7, <3>0, <3>3
      <4> QED BY <2>6, <4>1
    <3>4. CASE a > m /\ b > m
      <4>1. a - m \in 1..Len(y) /\ b - m \in 1..Len(y) /\ y[a - m].key = y[b - m].key
        BY <2>3, <2>7, <3>0, <3>4
      <4>2. a - m = b - m
        BY <2>5, <4>1
      <4> QED BY <3>0, <4>2
    <3> QED BY <3>0, <3>1, <3>2, <3>3, <3>4
  <2> QED BY <2>7 DEF Distinct
<1>3. s \in P
  <2> HIDE DEF P
  <2> QED BY <1>1, <1>2, SeqSetInduction
<1> QED BY <1>3

\* An iterator meets every entry once (dict.c:268).
THEOREM Iterated ==
    ASSUME NEW V, NEW d, Sound(d, V)
    PROVE  /\ dictNext(d) \in Seq(Entry(V)) /\ Distinct(dictNext(d))
           /\ \A e : e \in Entries(d) <=> \E i \in 1..Len(dictNext(d)) : dictNext(d)[i] = e
<1>0. d \in Dicts(V) /\ d.table \in Seq(Seq(Entry(V))) /\ Len(d.table) = size(d)
  BY DEF Sound, Dicts, size
<1>1. dictNext(d) \in Seq(Entry(V))
  BY <1>0, FlattenType DEF dictNext
<1>2. Apart(d.table)
  <2> SUFFICES ASSUME NEW s \in 1..size(d), NEW r \in 1..size(d),
                      NEW a \in 1..Len(d.table[s]), NEW b \in 1..Len(d.table[r]),
                      d.table[s][a].key = d.table[r][b].key
               PROVE  s = r /\ a = b
    BY <1>0 DEF Apart
  <2>1. s = r
    BY DEF Sound, Sorted
  <2> QED BY <2>1 DEF Sound, Single
<1>3. Distinct(dictNext(d))
  BY <1>0, <1>2, FlattenDistinct DEF dictNext
<1>4. \A e : (\E i \in 1..Len(dictNext(d)) : dictNext(d)[i] = e) <=>
            \E s \in 1..size(d) : \E i \in 1..Len(d.table[s]) : d.table[s][i] = e
  <2> DEFINE t == d.table
             T == Entry(V)
  <2>1. t \in Seq(Seq(T)) /\ Len(t) = size(d) /\ dictNext(d) = FlattenSeq(t)
    BY <1>0 DEF dictNext
  <2> HIDE DEF t, T
  <2>2. \A x : (\E a \in 1..Len(FlattenSeq(t)) : FlattenSeq(t)[a] = x) <=>
                 \E i \in 1..Len(t) : \E b \in 1..Len(t[i]) : t[i][b] = x
    BY <2>1, FlattenRange
  <2> QED BY <2>1, <2>2 DEF t
<1>5. \A e : e \in Entries(d) <=>
            \E s \in 1..size(d) : \E i \in 1..Len(d.table[s]) : e = d.table[s][i]
  BY <1>0, DictTyped
<1> QED BY <1>1, <1>3, <1>4, <1>5

\* What DictOK says of a table holds of one that is sound.
LEMMA SoundIsOK ==
    ASSUME NEW V, NEW d, Sound(d, V)
    PROVE  DictOK(d)
<1>0. d \in Dicts(V)
  BY DEF Sound
<1> DEFINE q == dictNext(d)
           E == Entries(d)
           f == [i \in 1..Len(q) |-> q[i]]
<1>1. /\ q \in Seq(Entry(V)) /\ Distinct(q) /\ Len(q) \in Nat
      /\ \A e : e \in E <=> \E i \in 1..Len(q) : q[i] = e
  BY Iterated, LenProperties
<1>2. DOMAIN q = 1..Len(q)
  BY <1>1, LenProperties
<1>3. Cardinality(E) = Len(q)
  <2> HIDE DEF q, E
  <2>1. f \in [1..Len(q) -> E]
    BY <1>1
  <2>2. \A a, b \in 1..Len(q) : f[a] = f[b] => a = b
    BY <1>1 DEF Distinct
  <2>3. \A e \in E : \E a \in 1..Len(q) : f[a] = e
    BY <1>1
  <2> HIDE DEF f
  <2>4. f \in Bijection(1..Len(q), E)
    BY <2>1, <2>2, <2>3 DEF Bijection, Injection, Surjection, IsInjective
  <2>5. ExistsBijection(1..Len(q), E)
    BY <2>4 DEF ExistsBijection
  <2> QED BY <1>1, <2>5, FS_CountingElements
<1>4. \A s \in 1..size(d) : DOMAIN d.table[s] = 1..Len(d.table[s])
  BY <1>0, DictTyped
<1> QED BY <1>1, <1>2, <1>3, <1>4, SMTT(60) DEF Sound, DictOK, Sorted, Distinct

(***************************************************************************)
(* The table grows.                                                        *)
(***************************************************************************)
\* The doubling of _dictNextPower, as far as n.
Doubles(f, n) == \A i \in 0..n : f[i] = IF i = 0 THEN InitialSize ELSE 2 * f[i - 1]

LEMMA DoublingExists == \A n \in Nat : \E f \in [0..n -> Nat] : Doubles(f, n)
<1> DEFINE S == {n \in Nat : \E f \in [0..n -> Nat] : Doubles(f, n)}
<1>1. 0 \in S
  <2> DEFINE f == [i \in 0..0 |-> InitialSize]
  <2>1. f \in [0..0 -> Nat] /\ Doubles(f, 0)
    BY InitialSizeAssumption DEF Doubles
  <2> QED BY <2>1
<1>2. ASSUME NEW n \in Nat, n \in S PROVE n + 1 \in S
  <2>1. PICK f \in [0..n -> Nat] : Doubles(f, n)
    BY <1>2
  <2> DEFINE g == [i \in 0..n + 1 |-> IF i = n + 1 THEN 2 * f[n] ELSE f[i]]
  <2>2. f[n] \in Nat
    BY <2>1
  <2>3. g \in [0..n + 1 -> Nat]
    BY <2>1, <2>2
  <2>4. Doubles(g, n + 1)
    <3> SUFFICES ASSUME NEW i \in 0..n + 1
                 PROVE  g[i] = IF i = 0 THEN InitialSize ELSE 2 * g[i - 1]
      BY DEF Doubles
    <3>1. CASE i = n + 1
      <4>1. i # 0 /\ i - 1 = n /\ n \in 0..n + 1 /\ n # n + 1
        BY <3>1
      <4>2. g[i] = 2 * f[n] /\ g[n] = f[n]
        BY <3>1, <4>1
      <4> HIDE DEF g
      <4> QED BY <4>1, <4>2
    <3>2. CASE i # n + 1
      <4>1. i \in 0..n /\ (i # 0 => i - 1 \in 0..n /\ i - 1 # n + 1 /\ i - 1 \in 0..n + 1)
        BY <3>2
      <4>2. f[i] = IF i = 0 THEN InitialSize ELSE 2 * f[i - 1]
        BY <2>1, <4>1 DEF Doubles
      <4>3. g[i] = f[i] /\ (i # 0 => g[i - 1] = f[i - 1])
        BY <3>2, <4>1
      <4> HIDE DEF g
      <4> QED BY <4>2, <4>3
    <3> QED BY <3>1, <3>2
  <2> QED BY <2>3, <2>4
<1>3. Nat \subseteq S
  <2> HIDE DEF S
  <2> QED BY <1>1, <1>2, NatSetInduction
<1> QED BY <1>3

LEMMA DoublingUnique ==
    ASSUME NEW m \in Nat, NEW n \in Nat, NEW f, NEW g, Doubles(f, m), Doubles(g, n)
    PROVE  \A i \in Nat : i <= m /\ i <= n => f[i] = g[i]
<1> DEFINE S == {i \in Nat : i <= m /\ i <= n => f[i] = g[i]}
<1>1. 0 \in S
  BY DEF Doubles
<1>2. ASSUME NEW i \in Nat, i \in S PROVE i + 1 \in S
  <2> SUFFICES ASSUME i + 1 <= m, i + 1 <= n PROVE f[i + 1] = g[i + 1]
    OBVIOUS
  <2>1. f[i] = g[i] /\ i + 1 \in 0..m /\ i + 1 \in 0..n /\ (i + 1) - 1 = i /\ i + 1 # 0
    BY <1>2
  <2> QED BY <2>1 DEF Doubles
<1>3. Nat \subseteq S
  <2> HIDE DEF S
  <2> QED BY <1>1, <1>2, NatSetInduction
<1> QED BY <1>3

\* The size that is found is one, and large enough.
LEMMA NextPower ==
    ASSUME NEW n \in Nat
    PROVE  dictNextPower(n) \in Nat \ {0} /\ dictNextPower(n) >= n
<1> DEFINE Is(f) == f = [i \in Nat |-> IF i = 0 THEN InitialSize ELSE 2 * f[i - 1]]
           h == CHOOSE f : Is(f)
           F(m) == CHOOSE f \in [0..m -> Nat] : Doubles(f, m)
           g == [i \in Nat |-> F(i)[i]]
<1>1. \A m \in Nat : F(m) \in [0..m -> Nat] /\ Doubles(F(m), m)
  BY DoublingExists
<1>2. Is(g)
  <2> HIDE DEF F
  <2>1. ASSUME NEW i \in Nat PROVE g[i] = IF i = 0 THEN InitialSize ELSE 2 * g[i - 1]
    <3>1. CASE i = 0
      BY <1>1, <3>1 DEF Doubles
    <3>2. CASE i # 0
      <4>1. i - 1 \in Nat /\ i - 1 <= i /\ i \in 0..i
        BY <3>2
      <4>2. F(i)[i] = 2 * F(i)[i - 1]
        BY <1>1, <3>2, <4>1 DEF Doubles
      <4>3. F(i)[i - 1] = F(i - 1)[i - 1]
        BY <1>1, <4>1, DoublingUnique
      <4> QED BY <3>2, <4>1, <4>2, <4>3
    <3> QED BY <3>1, <3>2
  <2> QED BY <2>1
<1>3. Is(h)
  <2> HIDE DEF Is
  <2> QED BY <1>2
<1>4. \A i \in Nat : h[i] = IF i = 0 THEN InitialSize ELSE 2 * h[i - 1]
  BY <1>3
<1> HIDE DEF h
<1> DEFINE S == {i \in Nat : h[i] \in Nat /\ h[i] >= i + 1}
<1>5. Nat \subseteq S
  <2>1. 0 \in S
    BY <1>4, InitialSizeAssumption
  <2>2. ASSUME NEW i \in Nat, i \in S PROVE i + 1 \in S
    <3>1. h[i + 1] = 2 * h[i]
      BY <1>4
    <3> QED BY <2>2, <3>1
  <2> HIDE DEF S
  <2> QED BY <2>1, <2>2, NatSetInduction
<1> DEFINE I == {i \in 0..n : h[i] >= n}
           least == CHOOSE i \in 0..n : h[i] >= n /\ \A j \in 0..i - 1 : h[j] < n
<1>6. \E i \in 0..n : h[i] >= n /\ \A j \in 0..i - 1 : h[j] < n
  <2>1. n \in I
    BY <1>5
  <2>2. I \in SUBSET Nat
    OBVIOUS
  <2>3. PICK m \in I : \A i \in I : m <= i
    <3> HIDE DEF I
    <3> QED BY <2>1, <2>2, LeastNumber
  <2>4. \A j \in 0..m - 1 : j \in 0..n /\ j \notin I
    BY <2>3
  <2>5. \A j \in 0..m - 1 : h[j] < n
    <3> TAKE j \in 0..m - 1
    <3>1. ~(h[j] >= n) /\ h[j] \in Nat
      BY <1>5, <2>4
    <3> QED BY <3>1
  <2> QED BY <2>3, <2>5
<1>7. least \in 0..n /\ h[least] >= n
  BY <1>6
<1>8. dictNextPower(n) = h[least]
  BY DEF dictNextPower, h
<1>9. h[least] \in Nat /\ h[least] >= 1
  <2>1. least \in Nat
    BY <1>7
  <2> HIDE DEF least
  <2> QED BY <1>5, <2>1
<1> QED BY <1>7, <1>8, <1>9

\* The chain of slot s in a table of n slots with the entries of e.
Chosen(e, n, s) ==
    Reverse(FlattenSeq([i \in DOMAIN e |-> IF Slot(e[i].key, n) = s THEN <<e[i]>> ELSE <<>>]))

LEMMA ChosenAre ==
    ASSUME NEW T, NEW e \in Seq(T), Distinct(e), NEW n, NEW s
    PROVE  /\ Chosen(e, n, s) \in Seq(T) /\ Distinct(Chosen(e, n, s))
           /\ \A x : (\E a \in 1..Len(Chosen(e, n, s)) : Chosen(e, n, s)[a] = x) <=>
                    \E i \in 1..Len(e) : e[i] = x /\ Slot(x.key, n) = s
<1> DEFINE g == [i \in DOMAIN e |-> IF Slot(e[i].key, n) = s THEN <<e[i]>> ELSE <<>>]
           f == FlattenSeq(g)
           r == Reverse(f)
           m == Len(f)
<1>0. DOMAIN e = 1..Len(e) /\ Len(e) \in Nat /\ \A i \in 1..Len(e) : e[i] \in T
  BY LenProperties, ElementOfSeq
<1>1. g \in Seq(Seq(T)) /\ Len(g) = Len(e)
  <2>1. \A i \in 1..Len(e) : (IF Slot(e[i].key, n) = s THEN <<e[i]>> ELSE <<>>) \in Seq(T)
    BY <1>0
  <2> QED BY <1>0, <2>1
<1>2. \A i \in 1..Len(e) : \A b \in 1..Len(g[i]) : b = 1 /\ g[i][b] = e[i] /\ Slot(e[i].key, n) = s
  <2> TAKE i \in 1..Len(e)
  <2>1. g[i] = IF Slot(e[i].key, n) = s THEN <<e[i]>> ELSE <<>>
    BY <1>0
  <2> QED BY <2>1
<1>3. \A i \in 1..Len(e) : Slot(e[i].key, n) = s => Len(g[i]) = 1 /\ g[i][1] = e[i]
  BY <1>0
<1> HIDE DEF g
<1>4. Apart(g)
  <2> SUFFICES ASSUME NEW i \in 1..Len(e), NEW j \in 1..Len(e),
                      NEW a \in 1..Len(g[i]), NEW b \in 1..Len(g[j]), g[i][a].key = g[j][b].key
               PROVE  i = j /\ a = b
    BY <1>1 DEF Apart
  <2>1. a = 1 /\ b = 1 /\ e[i].key = e[j].key
    BY <1>2
  <2> QED BY <2>1 DEF Distinct
<1>5. f \in Seq(T) /\ Distinct(f) /\ m \in Nat
  BY <1>1, <1>4, FlattenType, FlattenDistinct, LenProperties
<1>6. \A x : (\E a \in 1..m : f[a] = x) <=> \E i \in 1..Len(e) : e[i] = x /\ Slot(x.key, n) = s
  <2>1. \A x : (\E a \in 1..Len(FlattenSeq(g)) : FlattenSeq(g)[a] = x) <=>
              \E i \in 1..Len(g) : \E b \in 1..Len(g[i]) : g[i][b] = x
    BY <1>1, FlattenRange
  <2>2. ASSUME NEW x, NEW i \in 1..Len(e), e[i] = x, Slot(x.key, n) = s
        PROVE  i \in 1..Len(g) /\ 1 \in 1..Len(g[i]) /\ g[i][1] = x
    <3>1. Slot(e[i].key, n) = s
      BY <2>2
    <3>2. Len(g[i]) = 1 /\ g[i][1] = e[i] /\ i \in 1..Len(g)
      BY <1>1, <1>3, <3>1
    <3> QED BY <2>2, <3>2
  <2>3. ASSUME NEW x, NEW i \in 1..Len(g), NEW b \in 1..Len(g[i]), g[i][b] = x
        PROVE  i \in 1..Len(e) /\ e[i] = x /\ Slot(x.key, n) = s
    BY <1>1, <1>2, <2>3
  <2> TAKE x
  <2> HIDE DEF f
  <2>4. (\E a \in 1..m : f[a] = x) <=> \E i \in 1..Len(g) : \E b \in 1..Len(g[i]) : g[i][b] = x
    BY <2>1 DEF f
  <2> QED BY <2>2, <2>3, <2>4
<1> HIDE DEF f
<1>7. /\ r \in Seq(T) /\ Len(r) = m /\ \A i \in 1..m : r[i] = f[m - i + 1] /\ m - i + 1 \in 1..m
  <2>1. \A i \in 1..m : m - i + 1 \in 1..m /\ f[m - i + 1] \in T
    BY <1>5, ElementOfSeq
  <2> QED BY <1>5, <2>1 DEF Reverse
<1> HIDE DEF r, m
<1>8. Distinct(r)
  <2> SUFFICES ASSUME NEW a \in 1..m, NEW b \in 1..m, r[a].key = r[b].key PROVE a = b
    BY <1>7 DEF Distinct
  <2>1. /\ m - a + 1 \in 1..m /\ m - b + 1 \in 1..m
        /\ f[m - a + 1].key = f[m - b + 1].key
    BY <1>7
  <2>2. \A i, j \in 1..m : f[i].key = f[j].key => i = j
    BY <1>5 DEF Distinct, m
  <2>3. m - a + 1 = m - b + 1
    BY <2>1, <2>2
  <2> QED BY <1>5, <2>3
<1>9. \A x : (\E a \in 1..m : r[a] = x) <=> \E a \in 1..m : f[a] = x
  <2>1. ASSUME NEW a \in 1..m PROVE r[a] = f[m - a + 1] /\ m - a + 1 \in 1..m
    BY <1>7
  <2>2. ASSUME NEW a \in 1..m PROVE f[a] = r[m - a + 1] /\ m - a + 1 \in 1..m
    <3>1. m - a + 1 \in 1..m /\ m - (m - a + 1) + 1 = a
      BY <1>5
    <3> QED BY <1>7, <3>1
  <2> QED BY <2>1, <2>2
<1>10. Chosen(e, n, s) = r
  BY DEF Chosen, r, f, g
<1> QED BY <1>6, <1>7, <1>8, <1>9, <1>10

LEMMA Expanded ==
    ASSUME NEW V, NEW d, Sound(d, V), NEW n \in Nat
    PROVE  /\ Sound(dictExpand(d, n), V) /\ Entries(dictExpand(d, n)) = Entries(d)
           /\ dictExpand(d, n).used = d.used
           /\ d.used <= n => size(dictExpand(d, n)) >= n /\ size(dictExpand(d, n)) > 0
<1>0. d \in Dicts(V) /\ d.used \in Nat
  BY DEF Sound, Dicts
<1>1. CASE d.used > n
  <2>1. dictExpand(d, n) = d
    BY <1>1 DEF dictExpand
  <2> QED BY <1>0, <1>1, <2>1
<1>2. CASE ~(d.used > n)
  <2> DEFINE e == dictNext(d)
             to == dictNextPower(n)
             x == [d EXCEPT !.table = [s \in 1..to |-> Chosen(e, to, s)]]
             T == Entry(V)
  <2>1. dictExpand(d, n) = x
    BY <1>2 DEF dictExpand, Chosen
  <2>2. to \in Nat \ {0} /\ to >= n
    BY NextPower
  <2>3. /\ e \in Seq(T) /\ Distinct(e)
        /\ \A y : y \in Entries(d) <=> \E i \in 1..Len(e) : e[i] = y
    BY Iterated
  <2>4. /\ DOMAIN x.table = 1..to /\ x.used = d.used
        /\ \A s \in 1..to : x.table[s] = Chosen(e, to, s)
    BY <1>0 DEF Dicts
  <2>5. \A s \in 1..to : Chosen(e, to, s) \in Seq(T)
    BY <2>3, ChosenAre
  <2>6. x \in Dicts(V) /\ size(x) = to
    <3>1. [s \in 1..to |-> Chosen(e, to, s)] \in Seq(Seq(T)) /\ Len([s \in 1..to |-> Chosen(e, to, s)]) = to
      BY <2>2, <2>5
    <3> QED BY <1>0, <3>1 DEF Dicts, size
  <2> HIDE DEF x, e, to
  <2>7. ASSUME NEW s \in 1..to
        PROVE  /\ Distinct(x.table[s])
               /\ \A y : (\E a \in 1..Len(x.table[s]) : x.table[s][a] = y) <=>
                        \E i \in 1..Len(e) : e[i] = y /\ Slot(y.key, to) = s
    <3>1. x.table[s] = Chosen(e, to, s)
      BY <2>4
    <3>2. \A y : (\E a \in 1..Len(Chosen(e, to, s)) : Chosen(e, to, s)[a] = y) <=>
                \E i \in 1..Len(e) : e[i] = y /\ Slot(y.key, to) = s
      BY <2>3, ChosenAre
    <3>3. Distinct(Chosen(e, to, s))
      BY <2>3, ChosenAre
    <3> QED BY <3>1, <3>2, <3>3
  <2>8. Sorted(x)
    <3> SUFFICES ASSUME NEW s \in 1..to, NEW i \in 1..Len(x.table[s])
                 PROVE  Slot(x.table[s][i].key, to) = s
      BY <2>6 DEF Sorted
    <3> QED BY <2>7
  <2>9. Single(x)
    BY <2>6, <2>7 DEF Single, Distinct
  <2>10. Entries(x) = Entries(d)
    <3>1. \A y : y \in Entries(x) <=> \E s \in 1..to : \E i \in 1..Len(x.table[s]) : y = x.table[s][i]
      <4>1. \A y : y \in Entries(x) <=>
                \E s \in 1..size(x) : \E i \in 1..Len(x.table[s]) : y = x.table[s][i]
        BY <2>6, DictTyped
      <4> QED BY <2>6, <4>1
    <3>2. ASSUME NEW y, y \in Entries(x) PROVE y \in Entries(d)
      <4>1. PICK s \in 1..to : \E a \in 1..Len(x.table[s]) : x.table[s][a] = y
        BY <3>1, <3>2
      <4>2. \E i \in 1..Len(e) : e[i] = y
        BY <2>7, <4>1, ZenonT(60)
      <4> QED BY <2>3, <4>2
    <3>3. ASSUME NEW y, y \in Entries(d) PROVE y \in Entries(x)
      <4>1. PICK i \in 1..Len(e) : e[i] = y
        BY <2>3, <3>3
      <4>2. y.key \in DOMAIN Hash
        <5>1. e[i] \in T
          BY <2>3, ElementOfSeq
        <5> QED BY <4>1, <5>1 DEF Entry
      <4>3. Slot(y.key, to) \in 1..to
        BY <2>2, <4>2, SlotRange
      <4>4. \E a \in 1..Len(x.table[Slot(y.key, to)]) : x.table[Slot(y.key, to)][a] = y
        BY <2>7, <4>1, <4>3
      <4> QED BY <3>1, <4>3, <4>4
    <3> QED BY <3>2, <3>3
  <2>11. x.used <= size(x)
    BY <1>0, <1>2, <2>2, <2>4, <2>6
  <2> QED BY <2>1, <2>2, <2>4, <2>6, <2>8, <2>9, <2>10, <2>11 DEF Sound
<1> QED BY <1>1, <1>2

LEMMA Grown ==
    ASSUME NEW V, NEW d, Sound(d, V)
    PROVE  /\ Sound(dictExpandIfNeeded(d), V) /\ Entries(dictExpandIfNeeded(d)) = Entries(d)
           /\ dictExpandIfNeeded(d).used = d.used
           /\ dictExpandIfNeeded(d).used < size(dictExpandIfNeeded(d))
<1>0. size(d) \in Nat /\ d.used \in Nat /\ d.used <= size(d)
  BY DictTyped DEF Sound
<1>1. CASE size(d) = 0
  <2>1. d.used <= InitialSize /\ InitialSize \in Nat /\ d.used = 0
    BY <1>0, <1>1, InitialSizeAssumption
  <2>2. dictExpandIfNeeded(d) = dictExpand(d, InitialSize)
    BY <1>1 DEF dictExpandIfNeeded
  <2> QED BY <2>1, <2>2, Expanded
<1>2. CASE size(d) # 0 /\ d.used = size(d)
  <2> DEFINE n == size(d) * 2
  <2>1. d.used <= n /\ n \in Nat /\ d.used < n
    BY <1>0, <1>2
  <2>2. dictExpandIfNeeded(d) = dictExpand(d, n)
    BY <1>2 DEF dictExpandIfNeeded
  <2>3. Sound(dictExpand(d, n), V)
    BY <2>1, Expanded
  <2>4. size(dictExpand(d, n)) \in Nat
    BY <2>3, DictTyped DEF Sound
  <2> HIDE DEF n
  <2>5. /\ Entries(dictExpand(d, n)) = Entries(d) /\ dictExpand(d, n).used = d.used
        /\ size(dictExpand(d, n)) >= n
    BY <2>1, Expanded
  <2> QED BY <1>0, <2>1, <2>2, <2>3, <2>4, <2>5
<1>3. CASE size(d) # 0 /\ d.used # size(d)
  <2>1. dictExpandIfNeeded(d) = d
    BY <1>3 DEF dictExpandIfNeeded
  <2> QED BY <1>0, <1>3, <2>1
<1> QED BY <1>1, <1>2, <1>3

(***************************************************************************)
(* One chain changes.                                                      *)
(***************************************************************************)
In(e, ch) == \E i \in 1..Len(ch) : ch[i] = e

WithChain(d, h, ch, u) == [used |-> u, table |-> [d.table EXCEPT ![h] = ch]]

LEMMA ChainChanged ==
    ASSUME NEW V, NEW d, Sound(d, V), NEW h \in 1..size(d), NEW u \in Nat,
           NEW ch \in Seq(Entry(V)), Distinct(ch),
           \A i \in 1..Len(ch) : Slot(ch[i].key, size(d)) = h
    PROVE  LET x == WithChain(d, h, ch, u)
           IN  /\ x \in Dicts(V) /\ Sorted(x) /\ Single(x) /\ size(x) = size(d) /\ x.used = u
               /\ \A e : e \in Entries(x) <=>
                    In(e, ch) \/ (e \in Entries(d) /\ Slot(e.key, size(d)) # h)
<1> DEFINE x == WithChain(d, h, ch, u)
           n == size(d)
           t == [d.table EXCEPT ![h] = ch]
<1>0. d \in Dicts(V) /\ d.table \in Seq(Seq(Entry(V))) /\ n \in Nat /\ n = Len(d.table)
  BY LenProperties DEF Sound, Dicts, size
<1>1. /\ t \in Seq(Seq(Entry(V))) /\ Len(t) = n /\ t[h] = ch
      /\ \A s \in 1..n : s # h => t[s] = d.table[s]
  <2> DEFINE T == Seq(Entry(V))
             tab == d.table
  <2>1. tab \in Seq(T) /\ h \in 1..Len(tab) /\ ch \in T
    BY <1>0
  <2> HIDE DEF T, tab
  <2>2. /\ [tab EXCEPT ![h] = ch] \in Seq(T) /\ Len([tab EXCEPT ![h] = ch]) = Len(tab)
        /\ \A s \in 1..Len(tab) : [tab EXCEPT ![h] = ch][s] = IF s = h THEN ch ELSE tab[s]
    BY <2>1, ExceptSeq
  <2> QED BY <1>0, <2>1, <2>2 DEF tab, T
<1> HIDE DEF t
<1>2. x = [used |-> u, table |-> t]
  BY DEF t, WithChain
<1> HIDE DEF x
<1>3. x \in Dicts(V) /\ size(x) = n /\ x.used = u /\ x.table = t
  <2>1. x.used = u /\ x.table = t
    BY <1>2
  <2>2. size(x) = Len(x.table)
    BY DEF size
  <2> HIDE DEF n
  <2>3. x \in Dicts(V)
    BY <1>1, <1>2 DEF Dicts
  <2> QED BY <1>1, <2>1, <2>2, <2>3
<1>4. Sorted(x)
  <2> SUFFICES ASSUME NEW s \in 1..n, NEW i \in 1..Len(t[s]) PROVE Slot(t[s][i].key, n) = s
    <3> HIDE DEF n
    <3> QED BY <1>3 DEF Sorted
  <2>1. CASE s = h
    BY <1>1, <2>1
  <2>2. CASE s # h
    BY <1>1, <2>2 DEF Sound, Sorted
  <2> QED BY <2>1, <2>2
<1>5. Single(x)
  <2> SUFFICES ASSUME NEW s \in 1..n, NEW i \in 1..Len(t[s]), NEW j \in 1..Len(t[s]),
                      t[s][i].key = t[s][j].key
               PROVE  i = j
    <3> HIDE DEF n
    <3> QED BY <1>3 DEF Single
  <2>1. CASE s = h
    BY <1>1, <2>1 DEF Distinct
  <2>2. CASE s # h
    BY <1>1, <2>2 DEF Sound, Single
  <2> QED BY <2>1, <2>2
<1>6. ASSUME NEW e
      PROVE  e \in Entries(x) <=> In(e, ch) \/ (e \in Entries(d) /\ Slot(e.key, n) # h)
  <2>1. e \in Entries(x) <=> \E s \in 1..n : \E i \in 1..Len(t[s]) : e = t[s][i]
    <3>1. e \in Entries(x) <=> \E s \in 1..size(x) : \E i \in 1..Len(x.table[s]) : e = x.table[s][i]
      <4>1. x \in Dicts(V)
        BY <1>3
      <4>2. e \in Entries(x) <=> Held(e, x)
        BY <4>1, EntriesAre
      <4> QED BY <4>2 DEF Held
    <3> HIDE DEF n
    <3> QED BY <1>3, <3>1
  <2>2. e \in Entries(d) <=> \E s \in 1..n : \E i \in 1..Len(d.table[s]) : e = d.table[s][i]
    <3>1. \A r : r \in Entries(d) <=> \E s \in 1..size(d) : \E i \in 1..Len(d.table[s]) : r = d.table[s][i]
      BY <1>0, DictTyped
    <3> QED BY <3>1
  <2>3. ASSUME NEW s \in 1..n, NEW i \in 1..Len(t[s]), e = t[s][i]
        PROVE  In(e, ch) \/ (e \in Entries(d) /\ Slot(e.key, n) # h)
    <3>1. CASE s = h
      BY <1>1, <2>3, <3>1 DEF In
    <3>2. CASE s # h
      <4>1. t[s] = d.table[s] /\ e = d.table[s][i] /\ i \in 1..Len(d.table[s])
        BY <1>1, <2>3, <3>2
      <4>2. Slot(e.key, n) = s
        BY <4>1 DEF Sound, Sorted
      <4> QED BY <2>2, <3>2, <4>1, <4>2
    <3> QED BY <3>1, <3>2
  <2>4. ASSUME In(e, ch) PROVE h \in 1..n /\ \E i \in 1..Len(t[h]) : e = t[h][i]
    BY <1>1, <2>4 DEF In
  <2>5. ASSUME e \in Entries(d), Slot(e.key, n) # h
        PROVE  \E s \in 1..n : \E i \in 1..Len(t[s]) : e = t[s][i]
    <3>1. PICK s \in 1..n : \E i \in 1..Len(d.table[s]) : e = d.table[s][i]
      BY <2>2, <2>5
    <3>2. PICK i \in 1..Len(d.table[s]) : e = d.table[s][i]
      BY <3>1
    <3>3. Slot(e.key, n) = s
      BY <3>2 DEF Sound, Sorted
    <3>4. t[s] = d.table[s]
      BY <1>1, <2>5, <3>3
    <3> QED BY <3>2, <3>4
  <2> QED BY <2>1, <2>3, <2>4, <2>5
<1> QED BY <1>3, <1>4, <1>5, <1>6 DEF x

\* The chain of a slot and the entries of the table in it.
LEMMA ChainOf ==
    ASSUME NEW V, NEW d, Sound(d, V), NEW h \in 1..size(d)
    PROVE  /\ d.table[h] \in Seq(Entry(V)) /\ Distinct(d.table[h])
           /\ \A i \in 1..Len(d.table[h]) : Slot(d.table[h][i].key, size(d)) = h
           /\ \A e : In(e, d.table[h]) <=> e \in Entries(d) /\ Slot(e.key, size(d)) = h
<1>0. d \in Dicts(V)
  BY DEF Sound
<1>1. d.table[h] \in Seq(Entry(V))
  BY <1>0, DictTyped
<1>2. /\ Distinct(d.table[h])
      /\ \A i \in 1..Len(d.table[h]) : Slot(d.table[h][i].key, size(d)) = h
  BY DEF Sound, Single, Sorted, Distinct
<1>3. \A e : e \in Entries(d) <=>
            \E s \in 1..size(d) : \E i \in 1..Len(d.table[s]) : e = d.table[s][i]
  BY <1>0, DictTyped
<1>4. ASSUME NEW e, In(e, d.table[h]) PROVE e \in Entries(d) /\ Slot(e.key, size(d)) = h
  BY <1>2, <1>3, <1>4 DEF In
<1>5. ASSUME NEW e, e \in Entries(d), Slot(e.key, size(d)) = h PROVE In(e, d.table[h])
  <2>1. PICK s \in 1..size(d) : \E i \in 1..Len(d.table[s]) : e = d.table[s][i]
    BY <1>3, <1>5
  <2>2. s = h
    BY <1>5, <2>1 DEF Sound, Sorted
  <2> QED BY <2>1, <2>2 DEF In
<1> QED BY <1>1, <1>2, <1>4, <1>5

Pair(k, v) == [key |-> k, val |-> v]

LEMMA Added ==
    ASSUME NEW V, NEW d, Sound(d, V), NEW k \in DOMAIN Hash, NEW v \in V
    PROVE  /\ Sound(dictAdd(d, k, v), V)
           /\ dictHas(d, k) => Entries(dictAdd(d, k, v)) = Entries(d)
           /\ ~dictHas(d, k) => Entries(dictAdd(d, k, v)) = Entries(d) \cup {Pair(k, v)}
<1> DEFINE x == dictExpandIfNeeded(d)
           h == Slot(k, size(x))
           old == x.table[h]
           ch == <<Pair(k, v)>> \o old
           y == WithChain(x, h, ch, x.used + 1)
<1>1. Sound(x, V) /\ Entries(x) = Entries(d) /\ x.used < size(x) /\ x.used = d.used
  BY Grown
<1> HIDE DEF x
<1>2. dictHas(x, k) <=> dictHas(d, k)
  <2>1. dictHas(x, k) <=> \E e \in Entries(x) : e.key = k
    BY <1>1, Found
  <2>2. dictHas(d, k) <=> \E e \in Entries(d) : e.key = k
    BY Found
  <2> QED BY <1>1, <2>1, <2>2
<1>3. CASE dictHas(x, k)
  <2>1. dictAdd(d, k, v) = x
    BY <1>3 DEF dictAdd, x
  <2> QED BY <1>1, <1>2, <1>3, <2>1
<1>4. CASE ~dictHas(x, k)
  <2>0. x.used \in Nat /\ size(x) \in Nat
    BY <1>1, DictTyped DEF Sound
  <2>1. h \in 1..size(x)
    <3>1. size(x) \in Nat \ {0}
      BY <1>1, <2>0
    <3> QED BY <3>1, SlotRange
  <2>2. dictAdd(d, k, v) = y
    BY <1>4, <2>1 DEF dictAdd, x, size, Pair, WithChain
  <2>3. /\ old \in Seq(Entry(V)) /\ Distinct(old)
        /\ \A i \in 1..Len(old) : Slot(old[i].key, size(x)) = h
        /\ \A e : In(e, old) <=> e \in Entries(x) /\ Slot(e.key, size(x)) = h
    BY <1>1, <2>1, ChainOf
  <2> DEFINE p == Pair(k, v)
  <2>4. p \in Entry(V) /\ p.key = k /\ \A e \in Entries(x) : e.key # k
    BY <1>1, <1>4, Found DEF Entry, Pair
  <2> HIDE DEF old, p, h
  <2>5. /\ ch \in Seq(Entry(V)) /\ Len(ch) = Len(old) + 1 /\ Len(old) \in Nat /\ ch[1] = p
        /\ \A i \in 1..Len(old) : ch[i + 1] = old[i]
        /\ \A i \in 1..Len(ch) : i # 1 => i - 1 \in 1..Len(old) /\ ch[i] = old[i - 1]
    <3>1. <<p>> \in Seq(Entry(V)) /\ Len(<<p>>) = 1 /\ <<p>>[1] = p
      BY <2>4
    <3>2. /\ <<p>> \o old \in Seq(Entry(V)) /\ Len(<<p>> \o old) = 1 + Len(old)
          /\ \A i \in 1..1 + Len(old) :
                (<<p>> \o old)[i] = IF i <= 1 THEN <<p>>[i] ELSE old[i - 1]
      BY <2>3, <3>1, ConcatProperties
    <3>3. Len(old) \in Nat
      BY <2>3, LenProperties
    <3> DEFINE q == <<p>> \o old
    <3>4. ch = q
      BY DEF p
    <3> HIDE DEF q, ch
    <3> QED BY <3>1, <3>2, <3>3, <3>4 DEF q
  <2> HIDE DEF ch
  <2>6. \A i \in 1..Len(ch) : Slot(ch[i].key, size(x)) = h
    <3> TAKE i \in 1..Len(ch)
    <3>1. CASE i = 1
      BY <2>4, <2>5, <3>1 DEF h
    <3>2. CASE i # 1
      BY <2>3, <2>5, <3>2
    <3> QED BY <3>1, <3>2
  <2>7. \A i \in 1..Len(old) : old[i].key # k
    BY <2>3, <2>4 DEF In
  <2>8. Distinct(ch)
    <3> SUFFICES ASSUME NEW a \in 1..Len(ch), NEW b \in 1..Len(ch), ch[a].key = ch[b].key
                 PROVE  a = b
      BY DEF Distinct
    <3>1. CASE a = 1 /\ b # 1
      BY <2>4, <2>5, <2>7, <3>1
    <3>2. CASE a # 1 /\ b = 1
      BY <2>4, <2>5, <2>7, <3>2
    <3>3. CASE a # 1 /\ b # 1
      <4>1. /\ a - 1 \in 1..Len(old) /\ b - 1 \in 1..Len(old)
            /\ old[a - 1].key = old[b - 1].key
        BY <2>5, <3>3
      <4>2. a - 1 = b - 1
        BY <2>3, <4>1 DEF Distinct
      <4> QED BY <2>5, <4>2
    <3> QED BY <3>1, <3>2, <3>3
  <2>9. \A e : In(e, ch) <=> e = p \/ In(e, old)
    <3>1. ASSUME NEW e, In(e, ch) PROVE e = p \/ In(e, old)
      <4>1. PICK i \in 1..Len(ch) : ch[i] = e
        BY <3>1 DEF In
      <4> QED BY <2>5, <4>1 DEF In
    <3>2. In(p, ch)
      <4>1. 1 \in 1..Len(ch)
        BY <2>5
      <4> QED BY <2>5, <4>1 DEF In
    <3>3. ASSUME NEW e, In(e, old) PROVE In(e, ch)
      <4>1. PICK i \in 1..Len(old) : old[i] = e
        BY <3>3 DEF In
      <4>2. i + 1 \in 1..Len(ch) /\ ch[i + 1] = e
        BY <2>5, <4>1
      <4> QED BY <4>2 DEF In
    <3> QED BY <3>1, <3>2, <3>3
  <2> HIDE DEF y
  <2>10. /\ y \in Dicts(V) /\ Sorted(y) /\ Single(y) /\ size(y) = size(x) /\ y.used = x.used + 1
         /\ \A e : e \in Entries(y) <=> In(e, ch) \/ (e \in Entries(x) /\ Slot(e.key, size(x)) # h)
    <3>1. x.used + 1 \in Nat
      BY <2>0
    <3> QED BY <1>1, <2>1, <2>5, <2>6, <2>8, <3>1, ChainChanged DEF y
  <2>11. Entries(y) = Entries(x) \cup {p}
    BY <2>3, <2>9, <2>10
  <2>12. p \notin Entries(x)
    BY <2>4
  <2>13. IsFiniteSet(Entries(y)) /\ y.used = Cardinality(Entries(y))
    BY <1>1, <2>10, <2>11, <2>12, FS_AddElement DEF Sound
  <2>14. y.used <= size(y)
    BY <1>1, <2>0, <2>10
  <2>15. Sound(y, V)
    BY <2>10, <2>13, <2>14 DEF Sound
  <2> QED BY <1>1, <1>2, <1>4, <2>2, <2>11, <2>15 DEF p
<1> QED BY <1>3, <1>4

LEMMA SetInPlace ==
    ASSUME NEW V, NEW d, Sound(d, V), NEW k \in DOMAIN Hash, dictHas(d, k), NEW v \in V
    PROVE  /\ Sound(dictSetVal(d, k, v), V)
           /\ Entries(dictSetVal(d, k, v)) =
                (Entries(d) \ {Pair(k, dictFind(d, k))}) \cup {Pair(k, v)}
<1> DEFINE h == Slot(k, size(d))
           i == Place(d, k)
           old == d.table[h]
           p == Pair(k, v)
           ch == [old EXCEPT ![i] = p]
           q == Pair(k, dictFind(d, k))
           x == WithChain(d, h, ch, d.used)
<1>1. /\ h \in 1..size(d) /\ i \in 1..Len(old) /\ old[i].key = k /\ size(d) \in Nat
      /\ q \in Entries(d)
  BY Found DEF Pair
<1>2. /\ old \in Seq(Entry(V)) /\ Distinct(old)
      /\ \A j \in 1..Len(old) : Slot(old[j].key, size(d)) = h
      /\ \A e : In(e, old) <=> e \in Entries(d) /\ Slot(e.key, size(d)) = h
  BY <1>1, ChainOf
<1>3. old[i] \in Entry(V) /\ old[i] = q
  <2>1. old[i] \in Entry(V)
    BY <1>1, <1>2, ElementOfSeq
  <2>2. dictFind(d, k) = old[i].val
    BY DEF dictFind
  <2> QED BY <1>1, <2>1, <2>2 DEF Entry, Pair
<1>4. dictSetVal(d, k, v) = x
  <2>1. d \in Dicts(V)
    BY DEF Sound
  <2>2. [old[i] EXCEPT !.val = v] = p
    BY <1>1, <1>3 DEF Entry, Pair
  <2>3. dictSetVal(d, k, v) =
          [d EXCEPT !.table = [d.table EXCEPT ![h] = [old EXCEPT ![i] = [old[i] EXCEPT !.val = v]]]]
    BY DEF dictSetVal
  <2> DEFINE tab == [d.table EXCEPT ![h] = ch]
  <2>4. dictSetVal(d, k, v) = [d EXCEPT !.table = tab]
    BY <2>2, <2>3
  <2>5. x = [used |-> d.used, table |-> tab]
    BY DEF WithChain
  <2> HIDE DEF tab, x
  <2> QED BY <2>1, <2>4, <2>5 DEF Dicts
<1>5. p \in Entry(V) /\ p.key = k /\ q.key = k
  BY DEF Entry, Pair
<1>6. dictFind(d, k) = q.val
  BY DEF Pair
<1>7. \A e \in Entries(d) : e.key = k => e = q
  <2>0. \A e \in Entries(d) : e.key = k => e.val = dictFind(d, k)
    BY Found
  <2> TAKE e \in Entries(d)
  <2> HAVE e.key = k
  <2>1. e.val = dictFind(d, k)
    BY <2>0
  <2>2. e \in Entry(V)
    <3>0. d \in Dicts(V)
      BY DEF Sound
    <3>1. Held(e, d)
      BY <3>0, EntriesAre
    <3>2. PICK s \in 1..size(d) : \E j \in 1..Len(d.table[s]) : e = d.table[s][j]
      BY <3>1 DEF Held
    <3>3. d.table[s] \in Seq(Entry(V))
      BY ChainOf
    <3> QED BY <3>2, <3>3, ElementOfSeq
  <2> QED BY <2>1, <2>2 DEF Entry, Pair
<1> HIDE DEF old, p, q, h, i
<1>8. /\ ch \in Seq(Entry(V)) /\ Len(ch) = Len(old) /\ ch[i] = p
      /\ \A j \in 1..Len(old) : j # i => ch[j] = old[j]
  BY <1>1, <1>2, <1>5, ExceptSeq
<1> HIDE DEF ch, x
<1>9. \A j \in 1..Len(old) : ch[j].key = old[j].key
  BY <1>1, <1>5, <1>8
<1>10. \A j \in 1..Len(ch) : Slot(ch[j].key, size(d)) = h
  BY <1>2, <1>8, <1>9
<1>11. Distinct(ch)
  BY <1>2, <1>8, <1>9 DEF Distinct
<1>12. d.used \in Nat
  BY DictTyped DEF Sound
<1>13. /\ x \in Dicts(V) /\ Sorted(x) /\ Single(x) /\ size(x) = size(d) /\ x.used = d.used
       /\ \A e : e \in Entries(x) <=> In(e, ch) \/ (e \in Entries(d) /\ Slot(e.key, size(d)) # h)
  BY <1>1, <1>8, <1>10, <1>11, <1>12, ChainChanged DEF x
<1>14. \A e : In(e, ch) <=> e = p \/ (In(e, old) /\ e # q)
  <2>1. ASSUME NEW e, In(e, ch) PROVE e = p \/ (In(e, old) /\ e # q)
    <3>1. PICK j \in 1..Len(ch) : ch[j] = e
      BY <2>1 DEF In
    <3>2. CASE j = i
      BY <1>8, <3>1, <3>2
    <3>3. CASE j # i
      <4>1. j \in 1..Len(old) /\ old[j] = e
        BY <1>8, <3>1, <3>3
      <4>2. e # q
        BY <1>1, <1>2, <1>3, <3>3, <4>1 DEF Distinct
      <4> QED BY <4>1, <4>2 DEF In
    <3> QED BY <3>2, <3>3
  <2>2. In(p, ch)
    BY <1>1, <1>8 DEF In
  <2>3. ASSUME NEW e, In(e, old), e # q PROVE In(e, ch)
    <3>1. PICK j \in 1..Len(old) : old[j] = e
      BY <2>3 DEF In
    <3>2. j # i
      BY <1>3, <2>3, <3>1
    <3> QED BY <1>8, <3>1, <3>2 DEF In
  <2> QED BY <2>1, <2>2, <2>3
<1>15. Entries(x) = (Entries(d) \ {q}) \cup {p}
  <2>1. Slot(q.key, size(d)) = h
    BY <1>5 DEF h
  <2> QED BY <1>2, <1>13, <1>14, <2>1
<1>16. IsFiniteSet(Entries(x)) /\ Cardinality(Entries(x)) = Cardinality(Entries(d))
  <2> DEFINE R == Entries(d) \ {q}
  <2>1. IsFiniteSet(R) /\ Cardinality(R) = Cardinality(Entries(d)) - 1
    BY <1>1, FS_RemoveElement DEF Sound
  <2>2. p \notin R
    BY <1>5, <1>7
  <2>3. Cardinality(R) \in Nat /\ Cardinality(Entries(d)) \in Nat
    BY <2>1, FS_CardinalityType DEF Sound
  <2> HIDE DEF R
  <2>4. IsFiniteSet(R \cup {p}) /\ Cardinality(R \cup {p}) = Cardinality(R) + 1
    BY <2>1, <2>2, FS_AddElement
  <2>5. Entries(x) = R \cup {p}
    BY <1>15 DEF R
  <2> QED BY <2>1, <2>3, <2>4, <2>5
<1>17. Sound(x, V)
  BY <1>13, <1>16 DEF Sound
<1> QED BY <1>4, <1>15, <1>17 DEF p, q

LEMMA Deleted ==
    ASSUME NEW V, NEW d, Sound(d, V), NEW k \in DOMAIN Hash
    PROVE  /\ Sound(dictDelete(d, k), V)
           /\ ~dictHas(d, k) => Entries(dictDelete(d, k)) = Entries(d)
           /\ dictHas(d, k) => Entries(dictDelete(d, k)) = Entries(d) \ {Pair(k, dictFind(d, k))}
<1>0. CASE ~dictHas(d, k)
  <2>1. dictDelete(d, k) = d
    BY <1>0 DEF dictDelete
  <2> QED BY <1>0, <2>1
<1>a. CASE dictHas(d, k)
  <2> DEFINE h == Slot(k, size(d))
             i == Place(d, k)
             old == d.table[h]
             m == Len(old)
             ch == RemoveAt(old, i)
             q == Pair(k, dictFind(d, k))
             x == WithChain(d, h, ch, d.used - 1)
  <2>1. /\ h \in 1..size(d) /\ i \in 1..Len(old) /\ old[i].key = k /\ size(d) \in Nat
        /\ q \in Entries(d)
    BY <1>a, Found DEF Pair
  <2>2. /\ old \in Seq(Entry(V)) /\ Distinct(old)
        /\ \A j \in 1..Len(old) : Slot(old[j].key, size(d)) = h
        /\ \A e : In(e, old) <=> e \in Entries(d) /\ Slot(e.key, size(d)) = h
    BY <2>1, ChainOf
  <2>3. old[i] = q
    <3>1. old[i] \in Entry(V)
      BY <2>1, <2>2, ElementOfSeq
    <3>2. dictFind(d, k) = old[i].val
      BY DEF dictFind
    <3> QED BY <2>1, <3>1, <3>2 DEF Entry, Pair
  <2>4. dictDelete(d, k) = x
    BY <1>a, <2>1 DEF dictDelete, WithChain, size
  <2>5. q.key = k
    BY DEF Pair
  <2>6. Slot(q.key, size(d)) = h
    BY <2>5
  <2> HIDE DEF old, q, h, i
  <2>7. /\ ch \in Seq(Entry(V)) /\ Len(ch) = m - 1 /\ m \in Nat
        /\ \A j \in 1..m - 1 : ch[j] = IF j < i THEN old[j] ELSE old[j + 1]
    <3> DEFINE T == Entry(V)
               a == SubSeq(old, 1, i - 1)
               b == SubSeq(old, i + 1, m)
    <3>0. old \in Seq(T) /\ m \in Nat
      BY <2>2, LenProperties
    <3> HIDE DEF T
    <3>1. a \in Seq(T) /\ Len(a) = i - 1 /\ \A j \in 1..i - 1 : a[j] = old[j]
      <4>1. i - 1 \in 0..m /\ 1 \in 1..m + 1
        BY <2>1, <3>0
      <4> QED BY <2>1, <3>0, <4>1, SubSeqProperties
    <3>2. b \in Seq(T) /\ Len(b) = m - i /\ \A j \in 1..m - i : b[j] = old[i + j]
      <4>1. i + 1 \in 1..m + 1 /\ m \in i..m
        BY <2>1, <3>0
      <4> QED BY <2>1, <3>0, <4>1, SubSeqProperties
    <3>3. ch = a \o b
      BY DEF RemoveAt
    <3> HIDE DEF a, b, ch
    <3>4. /\ a \o b \in Seq(T) /\ Len(a \o b) = Len(a) + Len(b)
          /\ \A j \in 1..Len(a) + Len(b) : (a \o b)[j] = IF j <= Len(a) THEN a[j] ELSE b[j - Len(a)]
      BY <3>1, <3>2, ConcatProperties
    <3>5. ASSUME NEW j \in 1..m - 1
          PROVE  (a \o b)[j] = IF j < i THEN old[j] ELSE old[j + 1]
      <4>0. i \in 1..m /\ Len(a) + Len(b) = m - 1
        BY <2>1, <3>0, <3>1, <3>2
      <4>1. CASE j < i
        <5>1. j <= Len(a) /\ j \in 1..i - 1
          BY <3>1, <4>0, <4>1
        <5> QED BY <3>1, <3>4, <4>0, <4>1, <5>1
      <4>2. CASE ~(j < i)
        <5>1. ~(j <= Len(a)) /\ j - Len(a) \in 1..m - i /\ i + (j - Len(a)) = j + 1
          BY <3>0, <3>1, <4>0, <4>2
        <5>2. (a \o b)[j] = b[j - Len(a)]
          BY <3>4, <4>0, <5>1
        <5> QED BY <3>2, <4>2, <5>1, <5>2
      <4> QED BY <4>1, <4>2
    <3> QED BY <2>1, <3>0, <3>1, <3>2, <3>3, <3>4, <3>5 DEF T
  <2> HIDE DEF ch, x
  <2> DEFINE At(j) == IF j < i THEN j ELSE j + 1
  <2>8. \A j \in 1..Len(ch) : At(j) \in 1..m /\ At(j) # i /\ ch[j] = old[At(j)]
    BY <2>1, <2>7
  <2>9. \A a, b \in 1..Len(ch) : At(a) = At(b) => a = b
    BY <2>1, <2>7
  <2>10. \A j \in 1..m : j # i => \E b \in 1..Len(ch) : At(b) = j
    <3> TAKE j \in 1..m
    <3> HAVE j # i
    <3>1. CASE j < i
      <4>1. j \in 1..Len(ch) /\ At(j) = j
        BY <2>1, <2>7, <3>1
      <4> HIDE DEF At
      <4> QED BY <4>1
    <3>2. CASE j > i
      <4>1. j - 1 \in 1..Len(ch) /\ At(j - 1) = j
        BY <2>1, <2>7, <3>2
      <4> HIDE DEF At
      <4> QED BY <4>1
    <3> QED BY <2>1, <2>7, <3>1, <3>2
  <2> HIDE DEF At
  <2>11. \A j \in 1..Len(ch) : Slot(ch[j].key, size(d)) = h
    BY <2>2, <2>8
  <2>12. Distinct(ch)
    BY <2>2, <2>8, <2>9 DEF Distinct
  <2>13. d.used \in Nat /\ d.used = Cardinality(Entries(d)) /\ IsFiniteSet(Entries(d)) /\ d.used <= size(d)
    BY DictTyped DEF Sound
  <2> DEFINE R == Entries(d) \ {q}
  <2>14. IsFiniteSet(R) /\ Cardinality(R) = d.used - 1 /\ d.used - 1 \in Nat
    <3>1. IsFiniteSet(R) /\ Cardinality(R) = Cardinality(Entries(d)) - 1
      BY <2>1, <2>13, FS_RemoveElement
    <3> QED BY <2>13, <3>1, FS_CardinalityType
  <2>15. /\ x \in Dicts(V) /\ Sorted(x) /\ Single(x) /\ size(x) = size(d) /\ x.used = d.used - 1
         /\ \A e : e \in Entries(x) <=> In(e, ch) \/ (e \in Entries(d) /\ Slot(e.key, size(d)) # h)
    BY <2>1, <2>7, <2>11, <2>12, <2>14, ChainChanged DEF x
  <2>16. \A e : In(e, ch) <=> (In(e, old) /\ e # q)
    <3>1. ASSUME NEW e, In(e, ch) PROVE In(e, old) /\ e # q
      <4>1. PICK j \in 1..Len(ch) : ch[j] = e
        BY <3>1 DEF In
      <4>2. At(j) \in 1..m /\ At(j) # i /\ old[At(j)] = e
        BY <2>8, <4>1
      <4>3. e # q
        BY <2>1, <2>2, <2>3, <4>2 DEF Distinct
      <4> QED BY <4>2, <4>3 DEF In
    <3>2. ASSUME NEW e, In(e, old), e # q PROVE In(e, ch)
      <4>1. PICK j \in 1..m : old[j] = e
        BY <3>2 DEF In
      <4>2. j # i
        BY <2>3, <3>2, <4>1
      <4>3. PICK b \in 1..Len(ch) : At(b) = j
        BY <2>10, <4>1, <4>2
      <4> QED BY <2>8, <4>1, <4>3 DEF In
    <3> QED BY <3>1, <3>2
  <2>17. Entries(x) = R
    BY <2>2, <2>6, <2>15, <2>16
  <2>18. Sound(x, V)
    <3>1. d.used - 1 <= size(d)
      BY <2>1, <2>13
    <3> HIDE DEF R
    <3> QED BY <2>14, <2>15, <2>17, <3>1 DEF Sound
  <2> QED BY <1>a, <2>4, <2>17, <2>18 DEF q
<1> QED BY <1>0, <1>a

(***************************************************************************)
(* A dictionary is a function from keys to values.                         *)
(***************************************************************************)
\* The pairs of key and value are the entries.
LEMMA Holds ==
    ASSUME NEW V, NEW d, Sound(d, V), NEW e
    PROVE  e \in Entries(d) <=>
             /\ e \in Entry(V) /\ dictHas(d, e.key) /\ e.val = dictFind(d, e.key)
<1>0. d \in Dicts(V)
  BY DEF Sound
<1>1. ASSUME e \in Entries(d) PROVE e \in Entry(V)
  <2>1. Held(e, d)
    BY <1>0, <1>1, EntriesAre
  <2>2. PICK s \in 1..size(d) : \E j \in 1..Len(d.table[s]) : e = d.table[s][j]
    BY <2>1 DEF Held
  <2>3. d.table[s] \in Seq(Entry(V))
    BY ChainOf
  <2> QED BY <2>2, <2>3, ElementOfSeq
<1>2. ASSUME e \in Entry(V)
      PROVE  e \in Entries(d) <=> dictHas(d, e.key) /\ e.val = dictFind(d, e.key)
  <2> DEFINE k == e.key
  <2>1. k \in DOMAIN Hash /\ e = Pair(k, e.val)
    BY <1>2 DEF Entry, Pair
  <2> HIDE DEF k
  <2>2. /\ dictHas(d, k) <=> \E r \in Entries(d) : r.key = k
        /\ dictHas(d, k) => Pair(k, dictFind(d, k)) \in Entries(d)
        /\ \A r \in Entries(d) : r.key = k => r.val = dictFind(d, k)
    BY <2>1, Found DEF Pair
  <2> QED BY <2>1, <2>2 DEF k
<1> QED BY <1>1, <1>2

LEMMA ValueTyped ==
    ASSUME NEW V, NEW d, Sound(d, V), NEW k \in DOMAIN Hash, dictHas(d, k)
    PROVE  dictFind(d, k) \in V
<1>1. Pair(k, dictFind(d, k)) \in Entries(d)
  BY Found DEF Pair
<1>2. Pair(k, dictFind(d, k)) \in Entry(V)
  BY <1>1, Holds
<1> QED BY <1>2 DEF Entry, Pair

\* dictHas and dictFind depend on the entries only.
LEMMA SameEntries ==
    ASSUME NEW V, NEW d, Sound(d, V), NEW x, Sound(x, V), NEW k \in DOMAIN Hash,
           \A e : e.key = k => (e \in Entries(x) <=> e \in Entries(d))
    PROVE  /\ dictHas(x, k) <=> dictHas(d, k)
           /\ dictHas(d, k) => dictFind(x, k) = dictFind(d, k)
<1>1. /\ dictHas(d, k) <=> \E r \in Entries(d) : r.key = k
      /\ dictHas(d, k) => Pair(k, dictFind(d, k)) \in Entries(d)
  BY Found DEF Pair
<1>2. /\ dictHas(x, k) <=> \E r \in Entries(x) : r.key = k
      /\ \A r \in Entries(x) : r.key = k => r.val = dictFind(x, k)
  BY Found, ZenonT(60)
<1>3. \A v : Pair(k, v).key = k /\ Pair(k, v).val = v
  BY DEF Pair
<1> QED BY <1>1, <1>2, <1>3

\* A table counts no entry when it has no key.
LEMMA EmptyLaw ==
    ASSUME NEW V, NEW d, Sound(d, V)
    PROVE  d.used = 0 <=> \A k \in DOMAIN Hash : ~dictHas(d, k)
<1>1. IsFiniteSet(Entries(d)) /\ d.used = Cardinality(Entries(d))
  BY DEF Sound
<1>2. d.used = 0 <=> Entries(d) = {}
  BY <1>1, FS_EmptySet
<1>3. ASSUME Entries(d) = {}, NEW k \in DOMAIN Hash PROVE ~dictHas(d, k)
  <2>1. dictHas(d, k) <=> \E e \in Entries(d) : e.key = k
    BY Found
  <2> QED BY <1>3, <2>1
<1>4. ASSUME NEW e \in Entries(d) PROVE e.key \in DOMAIN Hash /\ dictHas(d, e.key)
  <2>1. e \in Entry(V) /\ dictHas(d, e.key)
    BY Holds
  <2> QED BY <2>1 DEF Entry
<1> QED BY <1>2, <1>3, <1>4

\* dictAdd leaves a key that is there alone.
LEMMA AddLaw ==
    ASSUME NEW V, NEW d, Sound(d, V), NEW k \in DOMAIN Hash, NEW v \in V
    PROVE  LET x == dictAdd(d, k, v)
           IN  /\ Sound(x, V)
               /\ \A j \in DOMAIN Hash : dictHas(x, j) <=> dictHas(d, j) \/ j = k
               /\ \A j \in DOMAIN Hash : dictHas(d, j) => dictFind(x, j) = dictFind(d, j)
               /\ ~dictHas(d, k) => dictFind(x, k) = v
<1> DEFINE x == dictAdd(d, k, v)
           p == Pair(k, v)
<1>1. /\ Sound(x, V)
      /\ dictHas(d, k) => Entries(x) = Entries(d)
      /\ ~dictHas(d, k) => Entries(x) = Entries(d) \cup {p}
  BY Added
<1> HIDE DEF x
<1>2. p.key = k /\ p.val = v
  BY DEF Pair
<1> HIDE DEF p
<1>3. ASSUME NEW j \in DOMAIN Hash, j # k \/ dictHas(d, k)
      PROVE  /\ dictHas(x, j) <=> dictHas(d, j)
             /\ dictHas(d, j) => dictFind(x, j) = dictFind(d, j)
  <2>1. \A e : e.key = j => (e \in Entries(x) <=> e \in Entries(d))
    BY <1>1, <1>2, <1>3
  <2> QED BY <1>1, <2>1, SameEntries
<1>4. ASSUME ~dictHas(d, k) PROVE dictHas(x, k) /\ dictFind(x, k) = v
  <2>1. p \in Entries(x)
    BY <1>1, <1>4
  <2>2. dictHas(x, p.key) /\ p.val = dictFind(x, p.key)
    BY <1>1, <2>1, Holds
  <2> QED BY <1>2, <2>2
<1> QED BY <1>1, <1>3, <1>4 DEF x

\* dictSetVal changes the value of one key.
LEMMA SetLaw ==
    ASSUME NEW V, NEW d, Sound(d, V), NEW k \in DOMAIN Hash, dictHas(d, k), NEW v \in V
    PROVE  LET x == dictSetVal(d, k, v)
           IN  /\ Sound(x, V)
               /\ \A j \in DOMAIN Hash : dictHas(x, j) <=> dictHas(d, j)
               /\ \A j \in DOMAIN Hash :
                    dictHas(d, j) => dictFind(x, j) = IF j = k THEN v ELSE dictFind(d, j)
<1> DEFINE x == dictSetVal(d, k, v)
           p == Pair(k, v)
           q == Pair(k, dictFind(d, k))
<1>1. Sound(x, V) /\ Entries(x) = (Entries(d) \ {q}) \cup {p}
  BY SetInPlace
<1> HIDE DEF x
<1>2. p.key = k /\ p.val = v /\ q.key = k
  BY DEF Pair
<1> HIDE DEF p, q
<1>3. ASSUME NEW j \in DOMAIN Hash, j # k
      PROVE  /\ dictHas(x, j) <=> dictHas(d, j)
             /\ dictHas(d, j) => dictFind(x, j) = dictFind(d, j)
  <2>1. \A e : e.key = j => (e \in Entries(x) <=> e \in Entries(d))
    BY <1>1, <1>2, <1>3
  <2> QED BY <1>1, <2>1, SameEntries
<1>4. dictHas(x, k) /\ dictFind(x, k) = v
  <2>1. p \in Entries(x)
    BY <1>1
  <2>2. dictHas(x, p.key) /\ p.val = dictFind(x, p.key)
    BY <1>1, <2>1, Holds
  <2> QED BY <1>2, <2>2
<1> QED BY <1>1, <1>3, <1>4 DEF x

\* dictDelete takes one key away and leaves every other with its value, wherever
\* in a chain its entry is (dict.c:182).
THEOREM DeleteLaw ==
    ASSUME NEW V, NEW d, Sound(d, V), NEW k \in DOMAIN Hash
    PROVE  LET x == dictDelete(d, k)
           IN  /\ Sound(x, V)
               /\ \A j \in DOMAIN Hash : dictHas(x, j) <=> dictHas(d, j) /\ j # k
               /\ \A j \in DOMAIN Hash : dictHas(x, j) => dictFind(x, j) = dictFind(d, j)
<1> DEFINE x == dictDelete(d, k)
           q == Pair(k, dictFind(d, k))
<1>1. /\ Sound(x, V)
      /\ ~dictHas(d, k) => Entries(x) = Entries(d)
      /\ dictHas(d, k) => Entries(x) = Entries(d) \ {q}
  BY Deleted
<1> HIDE DEF x
<1>2. q.key = k
  BY DEF Pair
<1>3. ASSUME NEW j \in DOMAIN Hash, j # k \/ ~dictHas(d, k)
      PROVE  /\ dictHas(x, j) <=> dictHas(d, j)
             /\ dictHas(d, j) => dictFind(x, j) = dictFind(d, j)
  <2> HIDE DEF q
  <2>1. \A e : e.key = j => (e \in Entries(x) <=> e \in Entries(d))
    BY <1>1, <1>2, <1>3
  <2> QED BY <1>1, <2>1, SameEntries
<1>4. ASSUME dictHas(d, k) PROVE ~dictHas(x, k)
  <2>1. dictHas(x, k) <=> \E e \in Entries(x) : e.key = k
    BY <1>1, Found
  <2>2. ASSUME NEW e \in Entries(d), e.key = k PROVE e = q
    <3>1. e \in Entry(V) /\ e.val = dictFind(d, e.key)
      BY Holds
    <3> QED BY <2>2, <3>1 DEF Entry, Pair
  <2> HIDE DEF q
  <2> QED BY <1>1, <1>4, <2>1, <2>2
<1> QED BY <1>1, <1>3, <1>4 DEF x

LEMMA GrownLaw ==
    ASSUME NEW V, NEW d, Sound(d, V), NEW k \in DOMAIN Hash
    PROVE  /\ Sound(dictExpandIfNeeded(d), V)
           /\ dictHas(dictExpandIfNeeded(d), k) <=> dictHas(d, k)
<1> DEFINE x == dictExpandIfNeeded(d)
<1>1. Sound(x, V) /\ Entries(x) = Entries(d)
  BY Grown
<1> HIDE DEF x
<1> QED BY <1>1, SameEntries DEF x

\* dictReplace gives one key the value and leaves every other with its own,
\* whether the key was there or not and whether the table grows on the way, with
\* every entry moved to the chain of its new slot (dict.c:160, 88).
THEOREM ReplaceLaw ==
    ASSUME NEW V, NEW d, Sound(d, V), NEW k \in DOMAIN Hash, NEW v \in V
    PROVE  LET x == dictReplace(d, k, v)
           IN  /\ Sound(x, V)
               /\ \A j \in DOMAIN Hash : dictHas(x, j) <=> dictHas(d, j) \/ j = k
               /\ dictFind(x, k) = v
               /\ \A j \in DOMAIN Hash \ {k} : dictHas(d, j) => dictFind(x, j) = dictFind(d, j)
<1> DEFINE y == dictAdd(d, k, v)
           x == dictReplace(d, k, v)
<1>1. dictHas(dictExpandIfNeeded(d), k) <=> dictHas(d, k)
  BY GrownLaw
<1>2. /\ Sound(y, V)
      /\ \A j \in DOMAIN Hash : dictHas(y, j) <=> dictHas(d, j) \/ j = k
      /\ \A j \in DOMAIN Hash : dictHas(d, j) => dictFind(y, j) = dictFind(d, j)
      /\ ~dictHas(d, k) => dictFind(y, k) = v
  BY AddLaw
<1>3. x = IF dictHas(d, k) THEN dictSetVal(y, k, v) ELSE y
  BY <1>1 DEF dictReplace
<1> HIDE DEF x, y
<1>4. CASE ~dictHas(d, k)
  BY <1>2, <1>3, <1>4 DEF x
<1>5. CASE dictHas(d, k)
  <2>1. x = dictSetVal(y, k, v) /\ dictHas(y, k)
    BY <1>2, <1>3, <1>5
  <2>2. /\ Sound(x, V)
        /\ \A j \in DOMAIN Hash : dictHas(x, j) <=> dictHas(y, j)
        /\ \A j \in DOMAIN Hash :
             dictHas(y, j) => dictFind(x, j) = IF j = k THEN v ELSE dictFind(y, j)
    BY <1>2, <2>1, SetLaw
  <2> QED BY <1>2, <2>1, <2>2 DEF x
<1> QED BY <1>4, <1>5
=====================================================================================
