-------------------------- MODULE RespReaderProofs --------------------------
(***************************************************************************)
(* For every set of messages, every encoding, every depth and every way to *)
(* cut the stream into reads: the stack of the parser describes the        *)
(* unfinished reply and stays inside rstack; the replies handed out are    *)
(* those the server sent; and a protocol error is the fault of the reply   *)
(* it is reported for.                                                     *)
(***************************************************************************)
EXTENDS RespReader, SequenceTheorems, Induction, TLAPS

TokenSet == [kind : STRING, val : STRING, n : Int]

\* Where the items of a stack are in the reply.
Place(s, i) == [k \in 1..(i - 1) |-> s[k + 1].idx]
ArrayAt(p) == [path |-> p, type |-> "array", val |-> ""]

\* A stack s whose arrays are nodes of r.
Describes(s, r) ==
    \A i \in 1..(Len(s) - 1) :
        /\ s[i].type = "array"
        /\ ArrayAt(Place(s, i)) \in r
        /\ 0 <= s[i + 1].idx /\ s[i + 1].idx < s[i].elements

\* StackDescribesReply needs to know that a read header is a number, so the
\* type of the tokens is part of the inductive invariant.
RInv ==
    /\ wire \in Seq(TokenSet) /\ buf \in Seq(TokenSet)
    /\ TypeOK
    /\ Describes(stack, reply)
    /\ stack = <<>> /\ (~calling \/ err # "none") => reply = {}

-----------------------------------------------------------------------------
(* The place of an item depends on the tasks below it only.                *)
LEMMA SamePlace ==
    ASSUME NEW s, NEW t, NEW i \in Nat,
           \A k \in 2..i : s[k].idx = t[k].idx
    PROVE  Place(s, i) = Place(t, i)
<1>1. \A k \in 1..(i - 1) : s[k + 1].idx = t[k + 1].idx
  OBVIOUS
<1> QED BY <1>1 DEF Place

(* The first n elements of a sequence with the last of them replaced.      *)
LEMMA ReplaceLast ==
    ASSUME NEW S, NEW s \in Seq(S), NEW n \in 1..Len(s), NEW x \in S
    PROVE  /\ [SubSeq(s, 1, n) EXCEPT ![n] = x] \in Seq(S)
           /\ Len([SubSeq(s, 1, n) EXCEPT ![n] = x]) = n
           /\ \A k \in 1..(n - 1) : [SubSeq(s, 1, n) EXCEPT ![n] = x][k] = s[k]
           /\ [SubSeq(s, 1, n) EXCEPT ![n] = x][n] = x
<1> DEFINE p == SubSeq(s, 1, n)
<1>1. p \in Seq(S) /\ Len(p) = n /\ \A k \in 1..n : p[k] = s[k]
  BY SubSeqProperties
<1> HIDE DEF p
<1>2. [p EXCEPT ![n] = x] \in Seq(S) /\ Len([p EXCEPT ![n] = x]) = n
  BY <1>1
<1>3. \A k \in 1..n : [p EXCEPT ![n] = x][k] = IF k = n THEN x ELSE s[k]
  BY <1>1
<1> QED BY <1>2, <1>3 DEF p

(* moveToNextTask leaves a stack that describes the reply, grown or not.   *)
LEMMA NextTaskDescribes ==
    ASSUME stack \in Seq(Task), Describes(stack, reply), NEW r, reply \subseteq r
    PROVE  /\ NextTask \in Seq(Task)
           /\ Len(NextTask) <= Len(stack)
           /\ Describes(NextTask, r)
<1>1. CASE Resume = {}
  BY <1>1 DEF NextTask, Describes
<1>2. CASE Resume # {}
  <2> DEFINE j == CHOOSE k \in Resume : TRUE
             t == [SubSeq(stack, 1, j) EXCEPT ![j] =
                     [type |-> Unread, elements |-> -1, idx |-> stack[j].idx + 1]]
  <2>1. j \in Resume
    BY <1>2
  <2>2. j \in 2..Len(stack) /\ stack[j].idx # stack[j - 1].elements - 1
    BY <2>1 DEF Resume, Finished
  <2>3. NextTask = t
    BY <1>2 DEF NextTask
  <2>6. Len(stack) \in Nat /\ \A k \in 1..Len(stack) : stack[k] \in Task
    OBVIOUS
  <2>7. [type |-> Unread, elements |-> -1, idx |-> stack[j].idx + 1] \in Task
    <3> HIDE DEF j
    <3>1. stack[j].idx \in Int
      BY <2>2, <2>6 DEF Task
    <3> QED BY <3>1 DEF Task
  <2>8. t \in Seq(Task) /\ Len(t) = j
    <3> HIDE DEF j
    <3> QED BY <2>2, <2>6, <2>7, ReplaceLast
  <2>9. /\ \A k \in 1..(j - 1) : t[k] = stack[k]
        /\ t[j].idx = stack[j].idx + 1
    <3> HIDE DEF j
    <3> QED BY <2>2, <2>6, <2>7, ReplaceLast
  <2>10. Describes(t, r)
    <3> SUFFICES ASSUME NEW i \in 1..(j - 1)
                 PROVE  /\ t[i].type = "array"
                        /\ ArrayAt(Place(t, i)) \in r
                        /\ 0 <= t[i + 1].idx /\ t[i + 1].idx < t[i].elements
      BY <2>8 DEF Describes
    <3> HIDE DEF j, t
    <3>1. /\ stack[i].type = "array"
          /\ ArrayAt(Place(stack, i)) \in r
          /\ 0 <= stack[i + 1].idx /\ stack[i + 1].idx < stack[i].elements
      BY <2>2, <2>6 DEF Describes
    <3>2. t[i] = stack[i]
      BY <2>9
    <3>3. Place(t, i) = Place(stack, i)
      <4>1. \A k \in 2..i : t[k].idx = stack[k].idx
        BY <2>9, <2>2
      <4> QED BY <4>1, SamePlace
    <3>4. 0 <= t[i + 1].idx /\ t[i + 1].idx < stack[i].elements
      <4>1. CASE i = j - 1
        <5>1. stack[i].elements \in Int /\ stack[j].idx \in Int
          <6>1. i \in 1..Len(stack) /\ j \in 1..Len(stack)
            BY <2>2, <2>6
          <6>2. stack[i] \in Task /\ stack[j] \in Task
            BY <6>1, <2>6
          <6> QED BY <6>2 DEF Task
        <5>2. i + 1 = j /\ j - 1 = i
          BY <4>1, <2>2
        <5>3. t[i + 1].idx = stack[j].idx + 1
          BY <5>2, <2>9
        <5>4. stack[j].idx # stack[i].elements - 1
          BY <5>2, <2>2
        <5>5. 0 <= stack[j].idx /\ stack[j].idx < stack[i].elements
          BY <5>2, <3>1
        <5> QED BY <5>1, <5>3, <5>4, <5>5
      <4>2. CASE i # j - 1
        <5>1. t[i + 1] = stack[i + 1]
          BY <4>2, <2>2, <2>9
        <5> QED BY <5>1, <3>1
      <4> QED BY <4>1, <4>2
    <3> QED BY <3>1, <3>2, <3>3, <3>4
  <2> QED BY <2>2, <2>3, <2>6, <2>8, <2>10
<1> QED BY <1>1, <1>2
-----------------------------------------------------------------------------
(* The steps, one lemma each.                                              *)
LEMMA Initially == Init => RInv
<1> SUFFICES ASSUME Init PROVE RInv
  OBVIOUS
<1>1. wire \in Seq(TokenSet) /\ buf \in Seq(TokenSet) /\ stack \in Seq(Task)
  BY DEF Init
<1>2. Len(stack) = 0 /\ Len(buf) = 0
  BY DEF Init
<1>3. TypeOK
  <2>1. pos \in 0..Len(buf) /\ Len(stack) <= MaxDepth + 1
    BY <1>2, DepthAssumption DEF Init
  <2>2. /\ err \in {"none", "protocol", "oom"} /\ calling \in BOOLEAN
        /\ last \in {"none", "fed", "reply", "error"}
    BY DEF Init
  <2> QED BY <1>1, <2>1, <2>2 DEF TypeOK
<1>4. Describes(stack, reply)
  BY <1>2 DEF Describes
<1> QED BY <1>1, <1>3, <1>4 DEF Init, RInv

(* An error leaves no task, no input and no partial reply.                 *)
LEMMA ErrorStep ==
    ASSUME RInv, NEW kind \in {"protocol", "oom"}, SetError(kind)
    PROVE  RInv'
<1>1. buf' = <<>> /\ stack' = <<>> /\ reply' = {}
  BY DEF SetError
<1>2. wire' \in Seq(TokenSet) /\ buf' \in Seq(TokenSet)
  BY <1>1 DEF RInv, SetError
<1>3. TypeOK'
  BY <1>1, DepthAssumption DEF RInv, SetError, TypeOK
<1> QED BY <1>1, <1>2, <1>3 DEF RInv, Describes

LEMMA FinishStep ==
    ASSUME RInv, calling, err = "none", NEW node, NEW n \in Nat, pos + n <= Len(buf),
           Finish(node, n)
    PROVE  RInv'
<1>1. /\ NextTask \in Seq(Task)
      /\ Len(NextTask) <= Len(stack)
      /\ Describes(NextTask, reply')
  <2>1. reply \subseteq reply'
    BY DEF Finish, Attach
  <2>2. stack \in Seq(Task) /\ Describes(stack, reply)
    BY DEF RInv, TypeOK
  <2> QED BY <2>1, <2>2, NextTaskDescribes
<1>2. /\ stack' = NextTask /\ pos' = pos + n
      /\ UNCHANGED <<sent, wire, buf, err, calling, last, replies>>
  BY DEF Finish
<1>3. TypeOK'
  <2>1. Len(stack) \in Nat /\ Len(stack') \in Nat /\ Len(stack) <= MaxDepth + 1
    BY <1>1, <1>2 DEF RInv, TypeOK
  <2>2. Len(stack') <= MaxDepth + 1
    BY <1>1, <1>2, <2>1, DepthAssumption
  <2>3. pos' \in 0..Len(buf')
    BY <1>2 DEF RInv, TypeOK
  <2> QED BY <1>1, <1>2, <2>2, <2>3 DEF RInv, TypeOK
<1> QED BY <1>1, <1>2, <1>3 DEF RInv

(* A token at the cursor is one of the buffer.                             *)
LEMMA TokenType ==
    ASSUME RInv, NEW k \in {1, 2}, Arrived(k)
    PROVE  Token(k) \in TokenSet
<1>1. buf \in Seq(TokenSet) /\ pos \in Nat /\ Len(buf) \in Nat
  BY DEF RInv, TypeOK
<1>2. pos + k \in 1..Len(buf)
  BY <1>1 DEF Arrived
<1> QED BY <1>1, <1>2 DEF Token

LEMMA ReadTypeStep ==
    ASSUME RInv, ReadType
    PROVE  RInv'
<1>1. CASE Token(1).val \notin Types
  BY <1>1, ErrorStep DEF ReadType
<1>2. CASE Token(1).val \in Types
  <2> DEFINE top == Len(stack)
             t == [stack EXCEPT ![top].type = Token(1).val]
  <2>1. stack \in Seq(Task) /\ stack # <<>> /\ top \in Nat \ {0}
    BY DEF RInv, TypeOK, ReadType, Looping
  <2>2. /\ stack' = t /\ pos' = pos + 1
        /\ UNCHANGED <<sent, wire, buf, reply, err, calling, last, replies>>
    BY <1>2 DEF ReadType
  <2>3. [stack[top] EXCEPT !.type = Token(1).val] \in Task
    <3>1. stack[top] \in Task
      BY <2>1
    <3> QED BY <3>1, <1>2 DEF Task
  <2>4. /\ t \in Seq(Task) /\ Len(t) = top
        /\ \A k \in 1..(top - 1) : t[k] = stack[k]
        /\ t[top].idx = stack[top].idx
    <3>1. \A k \in 1..top : stack[k] \in Task
      BY <2>1
    <3> QED BY <2>1, <2>3, <3>1 DEF Task
  <2>5. pos' \in 0..Len(buf')
    BY <2>2 DEF RInv, TypeOK, ReadType, Arrived
  <2>6. TypeOK'
    BY <2>1, <2>2, <2>4, <2>5 DEF RInv, TypeOK
  <2>7. Describes(t, reply)
    <3> HIDE DEF t
    <3> SUFFICES ASSUME NEW i \in 1..(top - 1)
                 PROVE  /\ t[i].type = "array"
                        /\ ArrayAt(Place(t, i)) \in reply
                        /\ 0 <= t[i + 1].idx /\ t[i + 1].idx < t[i].elements
      BY <2>4 DEF Describes
    <3>1. /\ stack[i].type = "array"
          /\ ArrayAt(Place(stack, i)) \in reply
          /\ 0 <= stack[i + 1].idx /\ stack[i + 1].idx < stack[i].elements
      BY <2>1 DEF RInv, Describes
    <3>2. t[i] = stack[i] /\ \A k \in 1..top : t[k].idx = stack[k].idx
      <4>1. \A k \in 1..top : k = top \/ k \in 1..(top - 1)
        BY <2>1
      <4> QED BY <2>4, <4>1
    <3>3. Place(t, i) = Place(stack, i)
      <4>1. i \in Nat /\ \A k \in 2..i : t[k].idx = stack[k].idx
        BY <3>2, <2>1
      <4> QED BY <4>1, SamePlace
    <3>4. t[i + 1].idx = stack[i + 1].idx
      <4>1. i + 1 \in 1..top
        BY <2>1
      <4> QED BY <4>1, <3>2
    <3> QED BY <3>1, <3>2, <3>3, <3>4
  <2>8. stack' # <<>>
    BY <2>1, <2>2, <2>4
  <2> QED BY <2>2, <2>6, <2>7, <2>8 DEF RInv
<1> QED BY <1>1, <1>2

LEMMA LineStep ==
    ASSUME RInv, Line
    PROVE  RInv'
<1>1. CASE SetError("protocol")
  BY <1>1, ErrorStep
<1>2. CASE Finish(Node(cur.type, Token(1).val), 1)
  BY <1>2, FinishStep DEF Line, Looping, Arrived
<1> QED BY <1>1, <1>2 DEF Line

LEMMA BulkStep ==
    ASSUME RInv, Bulk
    PROVE  RInv'
<1>1. CASE SetError("protocol")
  BY <1>1, ErrorStep
<1>2. CASE Finish(Node("nil", ""), 1)
  BY <1>2, FinishStep DEF Bulk, Looping, Arrived
<1>3. CASE Arrived(2) /\ Finish(Node("string", Token(2).val), 2)
  BY <1>3, FinishStep DEF Bulk, Looping, Arrived
<1> QED BY <1>1, <1>2, <1>3 DEF Bulk

(* The one step that makes the stack grow: the depth was tested before.    *)
LEMMA DescendStep ==
    ASSUME RInv, Looping, cur.type = "array", ~TooDeep, Arrived(1),
           NEW n \in Int, n > 0, Descend(n)
    PROVE  RInv'
<1> DEFINE top == Len(stack)
           t == [stack EXCEPT ![top].elements = n]
<1>1. stack \in Seq(Task) /\ top \in Nat \ {0} /\ top <= MaxDepth + 1
  BY DEF RInv, TypeOK, Looping
<1>2. \A k \in 1..top : stack[k] \in Task
  BY <1>1
<1>3. /\ t \in Seq(Task) /\ Len(t) = top
      /\ \A k \in 1..(top - 1) : t[k] = stack[k]
      /\ t[top].type = "array" /\ t[top].idx = stack[top].idx
      /\ t[top].elements = n
  <2>1. stack[top] \in Task
    BY <1>1
  <2>2. stack[top].type = "array" /\ [stack[top] EXCEPT !.elements = n] \in Task
    <3>1. stack[top].type = "array"
      BY DEF cur
    <3>2. [stack[top] EXCEPT !.elements = n] \in Task
      BY <2>1 DEF Task
    <3> QED BY <3>1, <3>2
  <2>3. t = [stack EXCEPT ![top] = [stack[top] EXCEPT !.elements = n]]
    OBVIOUS
  <2>4. /\ t \in Seq(Task) /\ Len(t) = top
        /\ \A k \in 1..(top - 1) : t[k] = stack[k]
        /\ t[top] = [stack[top] EXCEPT !.elements = n]
    <3> DEFINE x == [stack[top] EXCEPT !.elements = n]
    <3> HIDE DEF x, t
    <3> QED BY <1>1, <2>2, <2>3 DEF x
  <2>5. /\ [stack[top] EXCEPT !.elements = n].type = "array"
        /\ [stack[top] EXCEPT !.elements = n].idx = stack[top].idx
        /\ [stack[top] EXCEPT !.elements = n].elements = n
    BY <2>1, <2>2 DEF Task
  <2> HIDE DEF t
  <2> QED BY <2>4, <2>5
<1> HIDE DEF t
<1>4. stack' = Append(t, ItemTask) /\ ItemTask \in Task
  <2>1. stack' = Append(t, ItemTask)
    BY DEF t, Descend
  <2>2. ItemTask \in Task
    BY DEF ItemTask, Task
  <2> QED BY <2>1, <2>2
<1>5. /\ stack' \in Seq(Task) /\ Len(stack') = top + 1
      /\ \A k \in 1..top : stack'[k] = t[k]
      /\ stack'[top + 1] = ItemTask
  BY <1>1, <1>3, <1>4
<1>6. top + 1 <= MaxDepth + 1
  BY <1>1, DepthAssumption DEF TooDeep, ridx
<1>7. pos' \in 0..Len(buf')
  <2>1. pos' = pos + 1 /\ buf' = buf
    BY DEF Descend
  <2>2. pos \in Nat /\ pos + 1 <= Len(buf)
    BY DEF RInv, TypeOK, Arrived
  <2> QED BY <2>1, <2>2
<1>8. TypeOK'
  BY <1>5, <1>6, <1>7 DEF RInv, TypeOK, Descend
<1>9. \A k \in 1..top : stack'[k].idx = stack[k].idx
  <2>1. \A k \in 1..top : k = top \/ k \in 1..(top - 1)
    BY <1>1
  <2> QED BY <2>1, <1>3, <1>5
<1>10. \A i \in 1..top : Place(stack', i) = Place(stack, i)
  <2> SUFFICES ASSUME NEW i \in 1..top
               PROVE  Place(stack', i) = Place(stack, i)
    OBVIOUS
  <2>1. i \in Nat /\ \A k \in 2..i : stack'[k].idx = stack[k].idx
    BY <1>1, <1>9
  <2> QED BY <2>1, SamePlace
<1>11. Describes(stack', reply')
  <2> SUFFICES ASSUME NEW i \in 1..top
               PROVE  /\ stack'[i].type = "array"
                      /\ ArrayAt(Place(stack', i)) \in reply'
                      /\ 0 <= stack'[i + 1].idx
                      /\ stack'[i + 1].idx < stack'[i].elements
    BY <1>1, <1>5 DEF Describes
  <2>1. CASE i = top
    <3>1. Place(stack, top) = Path
      BY <1>1 DEF Place, Path, ridx
    <3>2. ArrayAt(Place(stack, top)) \in reply'
      BY <3>1 DEF Descend, Attach, Node, ArrayAt
    <3> QED BY <2>1, <3>2, <1>3, <1>5, <1>10 DEF ItemTask
  <2>2. CASE i # top
    <3>1. i \in 1..(Len(stack) - 1) /\ i + 1 \in 1..top /\ i \in 1..(top - 1)
      BY <2>2, <1>1
    <3>2. /\ stack[i].type = "array"
          /\ ArrayAt(Place(stack, i)) \in reply
          /\ 0 <= stack[i + 1].idx /\ stack[i + 1].idx < stack[i].elements
      BY <3>1 DEF RInv, Describes
    <3>3. stack'[i] = stack[i]
      BY <3>1, <1>3, <1>5
    <3>4. ArrayAt(Place(stack', i)) \in reply'
      BY <3>2, <1>10 DEF Descend, Attach
    <3> QED BY <3>1, <3>2, <3>3, <3>4, <1>9
  <2> QED BY <2>1, <2>2
<1>12. stack' # <<>>
  BY <1>5, <1>1
<1> QED BY <1>8, <1>11, <1>12 DEF RInv, Descend

LEMMA MultiBulkStep ==
    ASSUME RInv, MultiBulk
    PROVE  RInv'
<1>1. CASE SetError("protocol")
  BY <1>1, ErrorStep
<1>2. CASE Arrived(1) /\ Finish(Node("nil", ""), 1)
  BY <1>2, FinishStep DEF MultiBulk, Looping, Arrived
<1>3. CASE Arrived(1) /\ Finish(Node("array", ""), 1)
  BY <1>3, FinishStep DEF MultiBulk, Looping, Arrived
<1>4. CASE ~TooDeep /\ Arrived(1) /\ Token(1).n > 0 /\ Descend(Token(1).n)
  <2>1. Token(1).n \in Int
    BY <1>4, TokenType DEF TokenSet
  <2> QED BY <1>4, <2>1, DescendStep DEF MultiBulk
<1> QED BY <1>1, <1>2, <1>3, <1>4 DEF MultiBulk
-----------------------------------------------------------------------------
(* The calls of the context.                                               *)
LEMMA SendStep ==
    ASSUME RInv, NEW m \in Message, Send(m)
    PROVE  RInv'
<1>1. Encoding[m] \in Seq(TokenSet)
  BY MessageAssumption DEF TokenSet
<1>2. wire' \in Seq(TokenSet)
  BY <1>1 DEF RInv, Send
<1>3. TypeOK'
  BY DEF RInv, Send, TypeOK
<1> QED BY <1>2, <1>3 DEF RInv, Send

LEMMA FeedStep ==
    ASSUME RInv, NEW n \in 1..Len(wire), Feed(n)
    PROVE  RInv'
<1>1. CASE SetError("oom")
  BY <1>1, ErrorStep
<1>2. CASE err # "none" /\ last' = "error"
           /\ UNCHANGED <<sent, wire, buf, pos, stack, reply, err, calling, replies>>
  <2>1. TypeOK'
    BY <1>2 DEF RInv, TypeOK
  <2> QED BY <1>2, <2>1 DEF RInv
<1>3. CASE /\ buf' = buf \o SubSeq(wire, 1, n)
           /\ wire' = SubSeq(wire, n + 1, Len(wire))
           /\ last' = "fed"
           /\ UNCHANGED <<sent, pos, stack, reply, err, calling, replies>>
  <2>1. wire \in Seq(TokenSet) /\ buf \in Seq(TokenSet) /\ Len(wire) \in Nat
    BY DEF RInv
  <2>2. \A k \in 1..Len(wire) : wire[k] \in TokenSet
    BY <2>1
  <2>3. SubSeq(wire, 1, n) \in Seq(TokenSet)
    BY <2>1, <2>2, SubSeqProperties
  <2>4. SubSeq(wire, n + 1, Len(wire)) \in Seq(TokenSet)
    BY <2>1, <2>2, SubSeqProperties
  <2>5. /\ buf \o SubSeq(wire, 1, n) \in Seq(TokenSet)
        /\ Len(buf \o SubSeq(wire, 1, n)) >= Len(buf)
    <3> DEFINE chunk == SubSeq(wire, 1, n)
    <3>1. chunk \in Seq(TokenSet) /\ Len(chunk) \in Nat /\ Len(buf) \in Nat
      BY <2>1, <2>3
    <3> HIDE DEF chunk
    <3>2. buf \o chunk \in Seq(TokenSet) /\ Len(buf \o chunk) = Len(buf) + Len(chunk)
      BY <2>1, <3>1
    <3>3. Len(buf \o chunk) >= Len(buf)
      BY <3>1, <3>2
    <3> QED BY <3>2, <3>3 DEF chunk
  <2>6. pos' \in 0..Len(buf') /\ buf' \in Seq(TokenSet) /\ wire' \in Seq(TokenSet)
    <3>1. pos \in 0..Len(buf) /\ Len(buf) \in Nat /\ Len(buf') >= Len(buf) /\ Len(buf') \in Nat
      BY <1>3, <2>1, <2>5 DEF RInv, TypeOK
    <3> QED BY <3>1, <1>3, <2>4, <2>5
  <2>7. TypeOK'
    BY <1>3, <2>6 DEF RInv, TypeOK
  <2> QED BY <1>3, <2>6, <2>7 DEF RInv
<1> QED BY <1>1, <1>2, <1>3 DEF Feed

LEMMA GetReplyStep ==
    ASSUME RInv, GetReply
    PROVE  RInv'
<1>1. /\ UNCHANGED <<sent, wire, buf, pos, reply, err, replies>>
      /\ ~calling
  BY DEF GetReply
<1>2. CASE last' \in {"error", "none"} /\ UNCHANGED <<stack, calling>>
  <2>1. TypeOK'
    BY <1>1, <1>2 DEF RInv, TypeOK
  <2> QED BY <1>1, <1>2, <2>1 DEF RInv
<1>3. CASE /\ err = "none"
           /\ stack' = IF stack = <<>> THEN <<RootTask>> ELSE stack
           /\ calling' = TRUE
           /\ UNCHANGED last
  <2>1. CASE stack # <<>>
    <3>1. stack' = stack
      BY <1>3, <2>1
    <3>2. TypeOK'
      BY <1>1, <1>3, <3>1 DEF RInv, TypeOK
    <3> QED BY <1>1, <2>1, <3>1, <3>2 DEF RInv
  <2>2. CASE stack = <<>>
    <3>1. stack' = <<RootTask>> /\ RootTask \in Task
      BY <1>3, <2>2 DEF RootTask, Task
    <3>2. stack' \in Seq(Task) /\ Len(stack') = 1
      BY <3>1
    <3>3. TypeOK'
      BY <1>1, <1>3, <3>2, DepthAssumption DEF RInv, TypeOK
    <3>4. Describes(stack', reply')
      BY <3>2 DEF Describes
    <3> QED BY <1>1, <3>1, <3>3, <3>4 DEF RInv
  <2> QED BY <2>1, <2>2
<1> QED BY <1>2, <1>3 DEF GetReply

LEMMA ReturnStep ==
    ASSUME RInv, Return
    PROVE  RInv'
<1>1. calling /\ calling' = FALSE /\ UNCHANGED <<sent, wire, stack, err>>
  BY DEF Return
<1>2. CASE err # "none" /\ last' = "error" /\ UNCHANGED <<buf, pos, reply, replies>>
  <2>1. TypeOK'
    BY <1>1, <1>2 DEF RInv, TypeOK
  <2> QED BY <1>1, <1>2, <2>1 DEF RInv
<1>3. CASE /\ err = "none"
           /\ IF pos >= TrimAt
              THEN buf' = SubSeq(buf, pos + 1, Len(buf)) /\ pos' = 0
              ELSE UNCHANGED <<buf, pos>>
           /\ IF stack = <<>>
              THEN /\ replies' = Append(replies, reply)
                   /\ reply' = {} /\ last' = "reply"
              ELSE /\ last' = "none"
                   /\ UNCHANGED <<reply, replies>>
  <2>1. buf' \in Seq(TokenSet) /\ pos' \in 0..Len(buf')
    <3>1. buf \in Seq(TokenSet) /\ pos \in 0..Len(buf) /\ Len(buf) \in Nat
      BY DEF RInv, TypeOK
    <3>2. SubSeq(buf, pos + 1, Len(buf)) \in Seq(TokenSet)
      <4>1. \A k \in (pos + 1)..Len(buf) : buf[k] \in TokenSet
        BY <3>1
      <4> QED BY <3>1, <4>1, SubSeqProperties
    <3>3. CASE pos >= TrimAt
      <4>1. buf' \in Seq(TokenSet) /\ pos' = 0
        BY <1>3, <3>2, <3>3
      <4>2. Len(buf') \in Nat
        BY <4>1
      <4> QED BY <4>1, <4>2
    <3>4. CASE ~(pos >= TrimAt)
      BY <1>3, <3>1, <3>4
    <3> QED BY <3>3, <3>4
  <2>2. TypeOK'
    BY <1>1, <1>3, <2>1 DEF RInv, TypeOK
  <2>3. stack = <<>> => reply' = {}
    BY <1>3
  <2>4. Describes(stack', reply')
    <3>1. CASE stack = <<>>
      <4>1. Len(stack') = 0
        BY <1>1, <3>1
      <4> QED BY <4>1 DEF Describes
    <3>2. CASE stack # <<>>
      BY <1>1, <1>3, <3>2 DEF RInv
    <3> QED BY <3>1, <3>2
  <2> QED BY <1>1, <2>1, <2>2, <2>3, <2>4 DEF RInv
<1> QED BY <1>2, <1>3 DEF Return

LEMMA NextStep == RInv /\ [Next]_vars => RInv'
<1> SUFFICES ASSUME RInv, [Next]_vars
             PROVE  RInv'
  OBVIOUS
<1>1. CASE \E m \in Message : Send(m)
  BY <1>1, SendStep
<1>2. CASE \E n \in 1..Len(wire) : Feed(n)
  BY <1>2, FeedStep
<1>3. CASE GetReply
  BY <1>3, GetReplyStep
<1>4. CASE ReadType
  BY <1>4, ReadTypeStep
<1>5. CASE Line
  BY <1>5, LineStep
<1>6. CASE Bulk
  BY <1>6, BulkStep
<1>7. CASE MultiBulk
  BY <1>7, MultiBulkStep
<1>8. CASE OutOfMemory
  BY <1>8, ErrorStep DEF OutOfMemory
<1>9. CASE Return
  BY <1>9, ReturnStep
<1>10. CASE UNCHANGED vars
  <2>1. TypeOK'
    BY <1>10 DEF RInv, TypeOK, vars
  <2> QED BY <1>10, <2>1 DEF RInv, vars
<1> QED BY <1>1, <1>2, <1>3, <1>4, <1>5, <1>6, <1>7, <1>8, <1>9, <1>10 DEF Next

-----------------------------------------------------------------------------
(* The inductive invariant of the parser (read.c) and what it implies.     *)
THEOREM ParserInvariant == Spec => []RInv
<1> QED BY Initially, NextStep, PTL DEF Spec

(* The cursor never leaves the buffer and the stack never leaves rstack    *)
(* (processMultiBulkItem, read.c:373), whatever the server sends.          *)
THEOREM ParserTypes == Spec => []TypeOK
<1>1. RInv => TypeOK
  BY DEF RInv
<1> QED BY <1>1, ParserInvariant, PTL

(* The assertions of moveToNextTask hold, every element is written inside  *)
(* its array, and nothing is left over between two replies or after an     *)
(* error (read.c:47, 235).                                                 *)
THEOREM ParserStack == Spec => []StackDescribesReply
<1>1. RInv => StackDescribesReply
  <2> SUFFICES ASSUME RInv PROVE StackDescribesReply
    OBVIOUS
  <2>1. \A i : PathTo(i) = Place(stack, i)
    BY DEF PathTo, Place
  <2>2. \A i :
          [path |-> PathTo(i), type |-> "array", val |-> ""] = ArrayAt(Place(stack, i))
    BY <2>1 DEF ArrayAt
  <2> QED BY <2>2 DEF RInv, Describes, StackDescribesReply
<1> QED BY <1>1, ParserInvariant, PTL

-----------------------------------------------------------------------------
(* The order of the items of a reply.                                      *)
LEMMA BeforeStrict ==
    ASSUME NEW p \in Seq(Nat), NEW q \in Seq(Nat), Before(p, q)
    PROVE  p # q /\ ~Before(q, p)
<1>1. Len(p) \in Nat /\ Len(q) \in Nat
  OBVIOUS
<1>2. (\A k \in 1..Len(p) : p[k] \in Nat) /\ (\A k \in 1..Len(q) : q[k] \in Nat)
  OBVIOUS
<1>3. PICK d \in 1..Len(q) :
        /\ d - 1 <= Len(p) /\ \A k \in 1..(d - 1) : p[k] = q[k]
        /\ d <= Len(p) => p[d] < q[d]
  BY DEF Before
<1>4. p # q
  <2> SUFFICES ASSUME p = q PROVE FALSE
    OBVIOUS
  <2>1. q[d] < q[d] /\ q[d] \in Nat
    BY <1>2, <1>3
  <2> QED BY <2>1
<1>5. ~Before(q, p)
  <2> SUFFICES ASSUME NEW e \in 1..Len(p),
                      e - 1 <= Len(q), \A k \in 1..(e - 1) : q[k] = p[k],
                      e <= Len(q) => q[e] < p[e]
               PROVE  FALSE
    BY DEF Before
  <2>1. CASE e < d
    <3>1. e \in 1..(d - 1) /\ e <= Len(q)
      BY <2>1, <1>1
    <3>2. p[e] = q[e] /\ q[e] < p[e] /\ p[e] \in Nat
      BY <3>1, <1>2, <1>3
    <3> QED BY <3>2
  <2>2. CASE d < e
    <3>1. d \in 1..(e - 1) /\ d <= Len(p)
      BY <2>2, <1>1
    <3>2. q[d] = p[d] /\ p[d] < q[d] /\ p[d] \in Nat
      BY <3>1, <1>2, <1>3
    <3> QED BY <3>2
  <2>3. CASE d = e
    <3>1. p[d] < q[d] /\ q[d] < p[d] /\ p[d] \in Nat /\ q[d] \in Nat
      BY <2>3, <1>2, <1>3
    <3> QED BY <3>1
  <2> QED BY <2>1, <2>2, <2>3
<1> QED BY <1>4, <1>5

(* What the layout says of one message.                                    *)
Nested(m) ==
    /\ \A i \in 1..Len(Items[m]) : \A j \in 1..(i - 1) : Before(PathOf(m, j), PathOf(m, i))
    /\ \A i \in 1..Len(Items[m]) : \A x \in 0..(Elements(m, i) - 1) :
         \E j \in 1..Len(Items[m]) : PathOf(m, j) = Append(PathOf(m, i), x)
    /\ \A i \in 1..Len(Items[m]) : \A d \in 1..Len(PathOf(m, i)) :
         \E j \in 1..Len(Items[m]) : /\ PathOf(m, j) = SubSeq(PathOf(m, i), 1, d - 1)
                                   /\ PathOf(m, i)[d] < Elements(m, j)
Successive(m) ==
    /\ Items[m][1].at = 1
    /\ \A i \in 1..Len(Items[m]) :
         Items[m][i].at + Size(m, i) =
            IF i = Len(Items[m]) THEN Len(Encoding[m]) + 1 ELSE Items[m][i + 1].at

LEMMA LayoutIs ==
    ASSUME NEW m \in Message
    PROVE  Nested(m) /\ Successive(m)
BY LayoutAssumption DEF Nested, Successive

LEMMA MessageTyped ==
    ASSUME NEW m \in Message
    PROVE  /\ Encoding[m] \in Seq(TokenSet) /\ Len(Encoding[m]) \in Nat
           /\ Len(Items[m]) \in Nat \ {0}
           /\ \A i \in 1..Len(Items[m]) :
                PathOf(m, i) \in Seq(Nat) /\ Items[m][i].at \in Nat \ {0} /\ Size(m, i) \in {2, 3}
<1>1. Encoding[m] \in Seq(TokenSet)
  BY MessageAssumption DEF TokenSet
<1>2. Items[m] \in Seq([path : Seq(Nat), at : Nat \ {0}]) /\ Items[m] # <<>>
  BY MessageAssumption
<1> DEFINE T == [path : Seq(Nat), at : Nat \ {0}]
           s == Items[m]
<1> HIDE DEF T
<1>3. Len(s) \in Nat \ {0} /\ \A i \in 1..Len(s) : s[i] \in T
  BY <1>2, EmptySeq, LenProperties, ElementOfSeq DEF T
<1>4. \A i \in 1..Len(s) : s[i].path \in Seq(Nat) /\ s[i].at \in Nat \ {0}
  BY <1>3 DEF T
<1> QED BY <1>1, <1>3, <1>4 DEF PathOf, Size

(* Items follow one another: each has its tokens inside the encoding.      *)
LEMMA TokensInside ==
    ASSUME NEW m \in Message, NEW i \in 1..Len(Items[m])
    PROVE  Items[m][i].at + Size(m, i) <= Len(Encoding[m]) + 1
<1> DEFINE N == Len(Items[m])
           L == Len(Encoding[m])
           End2(k) == Items[m][k].at + Size(m, k)
           S == {n \in Nat : \A k \in 1..N : N - k <= n => End2(k) <= L + 1}
<1>1. /\ N \in Nat \ {0} /\ L \in Nat
      /\ \A k \in 1..N : Items[m][k].at \in Nat \ {0} /\ Size(m, k) \in {2, 3}
  BY MessageTyped
<1>2. \A k \in 1..N : End2(k) \in Nat /\ Items[m][k].at <= End2(k)
  BY <1>1, SMTT(60)
<1>3. \A k \in 1..N : End2(k) = IF k = N THEN L + 1 ELSE Items[m][k + 1].at
  BY LayoutIs DEF Successive
<1> HIDE DEF End2, N, L
<1>4. 0 \in S
  BY <1>1, <1>3
<1>5. ASSUME NEW n \in Nat, n \in S PROVE n + 1 \in S
  <2> SUFFICES ASSUME NEW k \in 1..N, N - k <= n + 1 PROVE End2(k) <= L + 1
    OBVIOUS
  <2>1. CASE k = N
    BY <2>1, <1>1, <1>3
  <2>2. CASE k # N
    <3>1. k + 1 \in 1..N /\ N - (k + 1) <= n
      BY <2>2, <1>1
    <3>2. End2(k + 1) <= L + 1 /\ End2(k) = Items[m][k + 1].at
      BY <2>2, <3>1, <1>3, <1>5
    <3>3. Items[m][k + 1].at <= End2(k + 1) /\ End2(k + 1) \in Nat /\ End2(k) \in Nat
      BY <3>1, <1>2
    <3> QED BY <3>2, <3>3, <1>1
  <2> QED BY <2>1, <2>2
<1> HIDE DEF S
<1>6. N - i \in S
  <2>1. Nat \subseteq S
    BY <1>4, <1>5, NatSetInduction
  <2>2. i \in 1..N
    BY DEF N
  <2> QED BY <2>1, <2>2, <1>1
<1>7. End2(i) <= L + 1
  <2>1. i \in 1..N /\ N - i <= N - i
    BY <1>1 DEF N
  <2> QED BY <2>1, <1>6 DEF S
<1> QED BY <1>7 DEF End2, L

(* The type, the header and the payload of an item are tokens.             *)
LEMMA ItemTokens ==
    ASSUME NEW m \in Message, NEW i \in 1..Len(Items[m])
    PROVE  /\ Items[m][i].at + 1 <= Len(Encoding[m])
           /\ HasPayload(m, i) => Items[m][i].at + 2 <= Len(Encoding[m])
           /\ HeaderOf(m, i) \in TokenSet
           /\ Elements(m, i) \in Nat
<1> DEFINE a == Items[m][i].at
           L == Len(Encoding[m])
<1>1. a \in Nat \ {0} /\ L \in Nat /\ Size(m, i) \in {2, 3} /\ Encoding[m] \in Seq(TokenSet)
  BY MessageTyped
<1>2. a + Size(m, i) <= L + 1
  BY TokensInside
<1> HIDE DEF a, L
<1>3. a + 1 <= L /\ (HasPayload(m, i) => a + 2 <= L)
  <2>1. HasPayload(m, i) => Size(m, i) = 3
    BY DEF Size
  <2> QED BY <1>1, <1>2, <2>1
<1>4. HeaderOf(m, i) \in TokenSet
  <2>1. a + 1 \in 1..Len(Encoding[m])
    BY <1>1, <1>3 DEF L
  <2> QED BY <2>1, <1>1, ElementOfSeq DEF HeaderOf, a
<1>5. HeaderOf(m, i).n \in Int
  BY <1>4 DEF TokenSet
<1>6. Elements(m, i) \in Nat
  BY <1>5 DEF Elements
<1> QED BY <1>3, <1>4, <1>6 DEF a, L

(* The paths of the items are in their order.                              *)
LEMMA PathsDiffer ==
    ASSUME NEW m \in Message, NEW i \in 1..Len(Items[m]), NEW j \in 1..Len(Items[m]),
           PathOf(m, i) = PathOf(m, j)
    PROVE  i = j
<1>1. i \in Nat /\ j \in Nat /\ PathOf(m, i) \in Seq(Nat) /\ PathOf(m, j) \in Seq(Nat)
  BY MessageTyped
<1>2. CASE i < j
  <2>1. i \in 1..(j - 1)
    BY <1>1, <1>2
  <2> QED BY <1>1, <2>1, LayoutIs, BeforeStrict DEF Nested
<1>3. CASE j < i
  <2>1. j \in 1..(i - 1)
    BY <1>1, <1>3
  <2> QED BY <1>1, <2>1, LayoutIs, BeforeStrict DEF Nested
<1> QED BY <1>1, <1>2, <1>3

LEMMA InOrder ==
    ASSUME NEW m \in Message, NEW i \in 1..Len(Items[m]), NEW j \in 1..Len(Items[m]),
           Before(PathOf(m, i), PathOf(m, j))
    PROVE  i < j
<1>1. i \in Nat /\ j \in Nat /\ PathOf(m, i) \in Seq(Nat) /\ PathOf(m, j) \in Seq(Nat)
  BY MessageTyped
<1>2. i # j
  <2> SUFFICES ASSUME i = j PROVE FALSE
    OBVIOUS
  <2>1. PathOf(m, i) = PathOf(m, j)
    OBVIOUS
  <2> QED BY <1>1, <2>1, BeforeStrict
<1>3. ~(j < i)
  <2> SUFFICES ASSUME j < i PROVE FALSE
    OBVIOUS
  <2>1. j \in 1..(i - 1)
    BY <1>1
  <2> QED BY <1>1, <2>1, LayoutIs, BeforeStrict DEF Nested
<1> QED BY <1>1, <1>2, <1>3

(* An item that nothing comes between is the next one.                     *)
LEMMA NothingBetween ==
    ASSUME NEW m \in Message, NEW c \in 1..Len(Items[m]), NEW d \in 1..Len(Items[m]),
           Before(PathOf(m, c), PathOf(m, d)),
           \A x \in 1..Len(Items[m]) :
              ~(Before(PathOf(m, c), PathOf(m, x)) /\ Before(PathOf(m, x), PathOf(m, d)))
    PROVE  d = c + 1
<1>1. c < d /\ c \in Nat /\ d \in Nat /\ Len(Items[m]) \in Nat
  BY InOrder, MessageTyped
<1>2. ASSUME d # c + 1 PROVE FALSE
  <2>1. c + 1 \in 1..Len(Items[m]) /\ c \in 1..((c + 1) - 1) /\ c + 1 \in 1..(d - 1)
    BY <1>1, <1>2
  <2>2. Before(PathOf(m, c), PathOf(m, c + 1)) /\ Before(PathOf(m, c + 1), PathOf(m, d))
    BY <2>1, LayoutIs DEF Nested
  <2> QED BY <2>1, <2>2
<1> QED BY <1>2

LEMMA RootPath ==
    ASSUME NEW m \in Message
    PROVE  PathOf(m, 1) = <<>>
<1> DEFINE q == PathOf(m, 1)
<1>1. 1 \in 1..Len(Items[m]) /\ q \in Seq(Nat) /\ Len(q) \in Nat
  BY MessageTyped
<1>2. ASSUME q # <<>> PROVE FALSE
  <2>1. 1 \in 1..Len(q)
    BY <1>1, <1>2, EmptySeq
  <2>2. PICK d \in 1..Len(Items[m]) : PathOf(m, d) = SubSeq(q, 1, 1 - 1)
    BY <1>1, <2>1, LayoutIs DEF Nested
  <2>3. SubSeq(q, 1, 1 - 1) = <<>>
    BY SubSeqEmpty
  <2>4. d # 1
    BY <1>2, <2>2, <2>3
  <2>5. 1 \in 1..(d - 1)
    BY <2>4
  <2>6. Before(q, <<>>)
    BY <2>2, <2>3, <2>5, LayoutIs DEF Nested
  <2> QED BY <2>6 DEF Before
<1> QED BY <1>2

(* After an array that has elements comes its first one.                   *)
LEMMA FirstElement ==
    ASSUME NEW m \in Message, NEW c \in 1..Len(Items[m]), Elements(m, c) > 0
    PROVE  c + 1 \in 1..Len(Items[m]) /\ PathOf(m, c + 1) = Append(PathOf(m, c), 0)
<1> DEFINE p == PathOf(m, c)
           q == Append(p, 0)
           n == Len(p)
<1>1. p \in Seq(Nat) /\ n \in Nat /\ \A k \in 1..n : p[k] \in Nat
  BY MessageTyped
<1>2. /\ q \in Seq(Nat) /\ Len(q) = n + 1 /\ q[n + 1] = 0
      /\ \A k \in 1..n : q[k] = p[k]
  BY <1>1, AppendProperties
<1>3. 0 \in 0..(Elements(m, c) - 1)
  BY ItemTokens
<1>4. PICK d \in 1..Len(Items[m]) : PathOf(m, d) = q
  BY <1>3, LayoutIs DEF Nested
<1> HIDE DEF q, n, p
<1>5. Before(p, q)
  <2>1. n + 1 \in 1..Len(q) /\ (n + 1) - 1 <= n /\ ~(n + 1 <= n)
    BY <1>1, <1>2
  <2>2. \A k \in 1..((n + 1) - 1) : p[k] = q[k]
    BY <1>1, <1>2
  <2> QED BY <2>1, <2>2 DEF Before, n
<1>6. ASSUME NEW x \in 1..Len(Items[m]), Before(p, PathOf(m, x)), Before(PathOf(m, x), q)
      PROVE  FALSE
  <2> DEFINE X == PathOf(m, x)
  <2>1. X \in Seq(Nat) /\ Len(X) \in Nat /\ \A k \in 1..Len(X) : X[k] \in Nat
    BY MessageTyped
  <2> HIDE DEF X
  <2>2. PICK e \in 1..Len(X) : /\ e - 1 <= n /\ \A k \in 1..(e - 1) : p[k] = X[k]
                               /\ e <= n => p[e] < X[e]
    BY <1>6 DEF Before, X, n
  <2>3. PICK f \in 1..Len(q) : /\ f - 1 <= Len(X) /\ \A k \in 1..(f - 1) : X[k] = q[k]
                               /\ f <= Len(X) => X[f] < q[f]
    BY <1>6 DEF Before, X
  <2>4. CASE e <= n
    <3>1. e \in 1..Len(q) /\ e - 1 <= Len(X) /\ e \in 1..n
      BY <2>1, <2>2, <2>4, <1>1, <1>2
    <3>2. q[e] = p[e] /\ p[e] < X[e]
      BY <1>2, <2>2, <2>4, <3>1
    <3>3. \A k \in 1..(e - 1) : q[k] = X[k]
      BY <1>1, <1>2, <2>2, <3>1
    <3>4. Before(q, X)
      <4>1. e - 1 <= Len(q)
        BY <1>1, <1>2, <3>1
      <4> QED BY <3>2, <3>3, <4>1 DEF Before
    <3>5. Before(X, q)
      BY <1>6 DEF X
    <3> QED BY <1>2, <2>1, <3>4, <3>5, BeforeStrict
  <2>5. CASE ~(e <= n)
    <3>1. e = n + 1 /\ n + 1 <= Len(X)
      BY <2>1, <2>2, <2>5, <1>1
    <3>2. f \in 1..(n + 1) /\ f <= Len(X)
      BY <1>1, <1>2, <2>1, <2>3, <3>1
    <3>3. X[f] < q[f]
      BY <2>3, <3>2
    <3>4. CASE f = n + 1
      <4>1. X[f] \in Nat /\ q[f] = 0
        BY <1>2, <2>1, <3>2, <3>4
      <4> QED BY <3>3, <4>1
    <3>5. CASE f # n + 1
      <4>1. f \in 1..n /\ f \in 1..(e - 1)
        BY <1>1, <3>1, <3>2, <3>5
      <4>2. X[f] = p[f] /\ q[f] = p[f] /\ p[f] \in Nat
        BY <1>1, <1>2, <2>2, <4>1
      <4> QED BY <3>3, <4>2
    <3> QED BY <3>4, <3>5
  <2> QED BY <2>4, <2>5
<1>7. d = c + 1
  BY <1>4, <1>5, <1>6, NothingBetween DEF p
<1> QED BY <1>4, <1>7 DEF q, p

(* An item after one that has no elements turns off from the path to it.   *)
TurnsOff(p, q, e) ==
    /\ e \in 1..Len(p) /\ e \in 1..Len(q)
    /\ \A k \in 1..(e - 1) : p[k] = q[k]
    /\ p[e] < q[e]

LEMMA ItemTurnsOff ==
    ASSUME NEW m \in Message, NEW c \in 1..Len(Items[m]), Elements(m, c) = 0,
           NEW x \in 1..Len(Items[m]), Before(PathOf(m, c), PathOf(m, x))
    PROVE  \E e \in 1..Len(PathOf(m, c)) : TurnsOff(PathOf(m, c), PathOf(m, x), e)
<1> DEFINE p == PathOf(m, c)
           q == PathOf(m, x)
<1>1. /\ p \in Seq(Nat) /\ Len(p) \in Nat
      /\ q \in Seq(Nat) /\ Len(q) \in Nat /\ \A k \in 1..Len(q) : q[k] \in Nat
  BY MessageTyped
<1>2. PICK e \in 1..Len(q) : /\ e - 1 <= Len(p) /\ \A k \in 1..(e - 1) : p[k] = q[k]
                             /\ e <= Len(p) => p[e] < q[e]
  BY DEF Before
<1>3. e <= Len(p)
  <2> SUFFICES ASSUME ~(e <= Len(p)) PROVE FALSE
    OBVIOUS
  <2>2. PICK j \in 1..Len(Items[m]) : PathOf(m, j) = SubSeq(q, 1, e - 1) /\ q[e] < Elements(m, j)
    BY LayoutIs DEF Nested
  <2> HIDE DEF p, q
  <2>1. e = Len(p) + 1 /\ e - 1 = Len(p)
    BY <1>1, <1>2
  <2>3. SubSeq(q, 1, e - 1) = p
    <3> DEFINE s == SubSeq(q, 1, e - 1)
    <3>1. \A k \in 1..(e - 1) : q[k] \in Nat
      BY <1>1
    <3>2. s \in Seq(Nat) /\ Len(s) = Len(p) /\ \A k \in 1..Len(p) : s[k] = q[k]
      BY <1>1, <2>1, <3>1, SubSeqProperties
    <3> HIDE DEF s
    <3>3. s = p
      BY <1>1, <1>2, <2>1, <3>2, SeqEqual
    <3> QED BY <3>3 DEF s
  <2>4. j = c
    BY <2>2, <2>3, PathsDiffer DEF p
  <2> QED BY <1>1, <2>2, <2>4
<1> QED BY <1>1, <1>2, <1>3 DEF TurnsOff

(* Nothing turns off where the path leads to the last element.             *)
LastOfArray(m, p, k) ==
    \E a \in 1..Len(Items[m]) : PathOf(m, a) = SubSeq(p, 1, k - 1) /\ p[k] = Elements(m, a) - 1

LEMMA NoneAfterLast ==
    ASSUME NEW m \in Message, NEW p \in Seq(Nat), NEW x \in 1..Len(Items[m]), NEW e,
           TurnsOff(p, PathOf(m, x), e), LastOfArray(m, p, e)
    PROVE  FALSE
<1> DEFINE q == PathOf(m, x)
<1>1. /\ q \in Seq(Nat) /\ Len(q) \in Nat /\ \A k \in 1..Len(q) : q[k] \in Nat
      /\ Len(p) \in Nat /\ \A k \in 1..Len(p) : p[k] \in Nat
  BY MessageTyped
<1>2. PICK a \in 1..Len(Items[m]) : PathOf(m, a) = SubSeq(p, 1, e - 1) /\ p[e] = Elements(m, a) - 1
  BY DEF LastOfArray
<1>3. e \in 1..Len(q) /\ e \in 1..Len(p) /\ (\A k \in 1..(e - 1) : p[k] = q[k]) /\ p[e] < q[e]
  BY DEF TurnsOff
<1>4. PICK j \in 1..Len(Items[m]) : PathOf(m, j) = SubSeq(q, 1, e - 1) /\ q[e] < Elements(m, j)
  BY <1>3, LayoutIs DEF Nested
<1> HIDE DEF q
<1>5. SubSeq(q, 1, e - 1) = SubSeq(p, 1, e - 1)
  <2> DEFINE s == SubSeq(q, 1, e - 1)
             t == SubSeq(p, 1, e - 1)
  <2>1. \A k \in 1..(e - 1) : q[k] \in Nat /\ p[k] \in Nat
    BY <1>1, <1>3, SMTT(60)
  <2>2. e \in Nat /\ e - 1 \in Nat
    BY <1>1, <1>3
  <2>3. /\ s \in Seq(Nat) /\ Len(s) = e - 1 /\ \A k \in 1..(e - 1) : s[k] = q[k]
        /\ t \in Seq(Nat) /\ Len(t) = e - 1 /\ \A k \in 1..(e - 1) : t[k] = p[k]
    BY <2>1, <2>2, SubSeqProperties
  <2> HIDE DEF s, t
  <2>4. s = t
    BY <1>3, <2>3, SeqEqual
  <2> QED BY <2>4 DEF s, t
<1>6. j = a
  BY <1>2, <1>4, <1>5, PathsDiffer
<1>7. p[e] \in Nat /\ q[e] \in Nat /\ Elements(m, a) \in Nat
  BY <1>1, <1>3, ItemTokens
<1> QED BY <1>2, <1>3, <1>4, <1>6, <1>7

(* When all indices of its path are the last ones, an item without         *)
(* elements is the last of the reply.                                      *)
LEMMA LastItem ==
    ASSUME NEW m \in Message, NEW c \in 1..Len(Items[m]), Elements(m, c) = 0,
           \A k \in 1..Len(PathOf(m, c)) : LastOfArray(m, PathOf(m, c), k)
    PROVE  c = Len(Items[m])
<1>1. c \in Nat /\ Len(Items[m]) \in Nat /\ PathOf(m, c) \in Seq(Nat)
  BY MessageTyped
<1>2. ASSUME c # Len(Items[m]) PROVE FALSE
  <2>1. c + 1 \in 1..Len(Items[m]) /\ c \in 1..((c + 1) - 1)
    BY <1>1, <1>2
  <2>2. Before(PathOf(m, c), PathOf(m, c + 1))
    BY <2>1, LayoutIs DEF Nested
  <2>3. PICK e \in 1..Len(PathOf(m, c)) : TurnsOff(PathOf(m, c), PathOf(m, c + 1), e)
    BY <2>1, <2>2, ItemTurnsOff
  <2> QED BY <1>1, <2>1, <2>3, NoneAfterLast
<1> QED BY <1>2

(* Otherwise the item after it is the next element of the innermost array  *)
(* that has one.                                                           *)
LEMMA NextSibling ==
    ASSUME NEW m \in Message, NEW c \in 1..Len(Items[m]), Elements(m, c) = 0,
           NEW l \in 1..Len(PathOf(m, c)), NEW a \in 1..Len(Items[m]),
           PathOf(m, a) = SubSeq(PathOf(m, c), 1, l - 1),
           PathOf(m, c)[l] + 1 < Elements(m, a),
           \A k \in (l + 1)..Len(PathOf(m, c)) : LastOfArray(m, PathOf(m, c), k)
    PROVE  /\ c + 1 \in 1..Len(Items[m])
           /\ PathOf(m, c + 1) = Append(SubSeq(PathOf(m, c), 1, l - 1), PathOf(m, c)[l] + 1)
<1> DEFINE p == PathOf(m, c)
           s == SubSeq(p, 1, l - 1)
           y == p[l] + 1
           q == Append(s, y)
<1>1. p \in Seq(Nat) /\ Len(p) \in Nat /\ \A k \in 1..Len(p) : p[k] \in Nat
  BY MessageTyped, SMTT(60)
<1>2. l \in Nat \ {0} /\ y \in Nat /\ p[l] \in Nat
  BY <1>1
<1>3. PICK d \in 1..Len(Items[m]) : PathOf(m, d) = q
  <2>1. y \in 0..(Elements(m, a) - 1)
    BY <1>2, ItemTokens
  <2>2. \E j \in 1..Len(Items[m]) : PathOf(m, j) = Append(PathOf(m, a), y)
    BY <2>1, LayoutIs DEF Nested
  <2>3. PathOf(m, a) = s
    OBVIOUS
  <2> HIDE DEF y, s
  <2> QED BY <2>2, <2>3
<1>4. /\ q \in Seq(Nat) /\ Len(q) = l /\ q[l] = y
      /\ \A k \in 1..(l - 1) : q[k] = p[k]
  <2> HIDE DEF y
  <2>1. \A k \in 1..(l - 1) : p[k] \in Nat
    BY <1>1, <1>2
  <2>2. s \in Seq(Nat) /\ Len(s) = l - 1 /\ \A k \in 1..(l - 1) : s[k] = p[k]
    BY <1>2, <2>1, SubSeqProperties
  <2> HIDE DEF s
  <2> QED BY <1>2, <2>2, AppendProperties
<1> HIDE DEF q, s
<1>5. Before(p, q)
  <2>1. l \in 1..Len(q) /\ l - 1 <= Len(p) /\ p[l] < q[l]
    BY <1>1, <1>2, <1>4
  <2>2. \A k \in 1..(l - 1) : p[k] = q[k]
    BY <1>4
  <2> QED BY <2>1, <2>2 DEF Before
<1>6. ASSUME NEW x \in 1..Len(Items[m]), Before(p, PathOf(m, x)), Before(PathOf(m, x), q)
      PROVE  FALSE
  <2> DEFINE X == PathOf(m, x)
  <2>1. X \in Seq(Nat) /\ Len(X) \in Nat /\ \A k \in 1..Len(X) : X[k] \in Nat
    <3>1. X \in Seq(Nat)
      BY MessageTyped
    <3> HIDE DEF X
    <3> QED BY <3>1
  <2>2. PICK e \in 1..Len(p) : TurnsOff(p, X, e)
    BY <1>6, ItemTurnsOff
  <2>3. e \in 1..Len(X) /\ (\A k \in 1..(e - 1) : p[k] = X[k]) /\ p[e] < X[e]
    BY <2>2 DEF TurnsOff
  <2>4. CASE e < l
    <3> HIDE DEF X, p
    <3>1. e \in 1..(l - 1) /\ e \in 1..Len(q) /\ e - 1 <= Len(X) /\ e - 1 <= Len(q)
      BY <1>1, <1>2, <1>4, <2>1, <2>3, <2>4
    <3>2. q[e] < X[e] /\ \A k \in 1..(e - 1) : q[k] = X[k]
      BY <1>2, <1>4, <2>3, <3>1, SMTT(60)
    <3>3. Before(q, X)
      BY <2>3, <3>1, <3>2 DEF Before
    <3>4. Before(X, q)
      BY <1>6 DEF X
    <3> QED BY <1>4, <2>1, <3>3, <3>4, BeforeStrict
  <2>5. CASE e = l
    <3> HIDE DEF X, p
    <3>1. PICK f \in 1..Len(q) : /\ f - 1 <= Len(X) /\ \A k \in 1..(f - 1) : X[k] = q[k]
                                 /\ f <= Len(X) => X[f] < q[f]
      BY <1>6 DEF Before, X
    <3>2. f \in 1..l /\ f \in 1..Len(X) /\ X[f] < q[f]
      <4>1. f \in 1..l /\ l \in 1..Len(X)
        BY <1>4, <2>3, <2>5, <3>1
      <4>2. f \in 1..Len(X) /\ f <= Len(X)
        BY <1>2, <2>1, <4>1
      <4> QED BY <3>1, <4>1, <4>2
    <3>3. CASE f = l
      <4>1. X[l] \in Nat /\ p[l] < X[l] /\ X[l] < p[l] + 1
        BY <1>4, <2>1, <2>3, <2>5, <3>2, <3>3
      <4> QED BY <1>2, <4>1
    <3>4. CASE f # l
      <4>1. f \in 1..(l - 1)
        BY <1>2, <3>2, <3>4
      <4>2. X[f] = p[f] /\ q[f] = p[f] /\ X[f] \in Nat
        BY <1>4, <2>1, <2>3, <2>5, <3>2, <4>1
      <4> QED BY <3>2, <4>2
    <3> QED BY <3>3, <3>4
  <2>6. CASE l < e
    <3>1. e \in (l + 1)..Len(p)
      BY <1>1, <1>2, <2>6
    <3>2. LastOfArray(m, p, e)
      BY <3>1
    <3> QED BY <1>1, <2>2, <3>2, NoneAfterLast
  <2> QED BY <1>2, <2>4, <2>5, <2>6
<1>7. d = c + 1
  BY <1>3, <1>5, <1>6, NothingBetween
<1> QED BY <1>3, <1>7 DEF q, s

-----------------------------------------------------------------------------
(* The stack and the order of the items.                                   *)
LEMMA PlaceIs ==
    ASSUME NEW s, NEW n \in Nat \ {0}, \A k \in 2..n : s[k].idx \in Nat
    PROVE  /\ Place(s, n) \in Seq(Nat) /\ Len(Place(s, n)) = n - 1
           /\ \A k \in 1..(n - 1) : Place(s, n)[k] = s[k + 1].idx
           /\ \A k \in 1..n : SubSeq(Place(s, n), 1, k - 1) = Place(s, k)
<1>0. \A k \in 1..n : /\ Place(s, k) \in Seq(Nat) /\ Len(Place(s, k)) = k - 1
                      /\ \A i \in 1..(k - 1) : Place(s, k)[i] = s[i + 1].idx
  <2> SUFFICES ASSUME NEW k \in 1..n
               PROVE  /\ Place(s, k) \in Seq(Nat) /\ Len(Place(s, k)) = k - 1
                      /\ \A i \in 1..(k - 1) : Place(s, k)[i] = s[i + 1].idx
    OBVIOUS
  <2>1. k - 1 \in Nat /\ \A i \in 1..(k - 1) : s[i + 1].idx \in Nat
    OBVIOUS
  <2> QED BY <2>1 DEF Place
<1>1. /\ Place(s, n) \in Seq(Nat) /\ Len(Place(s, n)) = n - 1
      /\ \A i \in 1..(n - 1) : Place(s, n)[i] = s[i + 1].idx
  <2>1. n \in 1..n
    OBVIOUS
  <2> QED BY <2>1, <1>0
<1>2. ASSUME NEW k \in 1..n PROVE SubSeq(Place(s, n), 1, k - 1) = Place(s, k)
  <2> DEFINE q == Place(s, n)
             t == Place(s, k)
             u == SubSeq(q, 1, k - 1)
  <2>1. \A i \in 1..(k - 1) : q[i] = s[i + 1].idx /\ q[i] \in Nat
    BY <1>1
  <2>2. k - 1 \in Nat
    OBVIOUS
  <2>3. /\ t \in Seq(Nat) /\ Len(t) = k - 1
        /\ \A i \in 1..(k - 1) : t[i] = s[i + 1].idx
    BY <1>0
  <2> HIDE DEF q, t
  <2>4. u \in Seq(Nat) /\ Len(u) = k - 1 /\ \A i \in 1..(k - 1) : u[i] = q[i]
    BY <2>1, <2>2, SubSeqProperties
  <2> HIDE DEF u
  <2>5. u = t
    BY <2>1, <2>3, <2>4, SeqEqual
  <2> QED BY <2>5 DEF u, t, q
<1> QED BY <1>1, <1>2

(* The indices of a stack are natural numbers.                             *)
LEMMA IndicesNatural ==
    ASSUME RInv
    PROVE  /\ stack \in Seq(Task) /\ Len(stack) \in Nat
           /\ \A k \in 2..Len(stack) : stack[k].idx \in Nat
           /\ \A k \in 1..Len(stack) :
                stack[k] \in Task /\ stack[k].idx \in Int /\ stack[k].elements \in Int
<1>1. stack \in Seq(Task) /\ Len(stack) \in Nat
  BY DEF RInv, TypeOK
<1>2. \A k \in 1..Len(stack) : stack[k] \in Task
  BY <1>1
<1>3. \A k \in 1..Len(stack) : stack[k].idx \in Int /\ stack[k].elements \in Int
  BY <1>2 DEF Task
<1>4. ASSUME NEW k \in 2..Len(stack) PROVE stack[k].idx \in Nat
  <2> DEFINE i == k - 1
  <2>1. i \in 1..(Len(stack) - 1) /\ i + 1 = k /\ k \in 1..Len(stack)
    BY <1>1
  <2> HIDE DEF i
  <2>2. 0 <= stack[i + 1].idx
    BY <2>1 DEF RInv, Describes
  <2> QED BY <1>3, <2>1, <2>2
<1> QED BY <1>1, <1>2, <1>3, <1>4

(* Some task has a next sibling, or all are finished.                      *)
LEMMA ResumeOrDone ==
    ASSUME RInv, Resume = {}
    PROVE  \A i \in 2..Len(stack) : Finished(i)
<1> DEFINE n == Len(stack)
           S == {x \in Nat : \A i \in 2..n : n - i <= x => Finished(i)}
<1>1. n \in Nat
  BY IndicesNatural
<1>2. \A i \in 2..n : (\A k \in (i + 1)..n : Finished(k)) => Finished(i)
  BY DEF Resume
<1> HIDE DEF n
<1>3. 0 \in S
  <2> SUFFICES ASSUME NEW i \in 2..n, n - i <= 0 PROVE Finished(i)
    OBVIOUS
  <2>1. (i + 1)..n = {}
    BY <1>1
  <2> QED BY <2>1, <1>2
<1>4. ASSUME NEW x \in Nat, x \in S PROVE x + 1 \in S
  <2> SUFFICES ASSUME NEW i \in 2..n, n - i <= x + 1 PROVE Finished(i)
    OBVIOUS
  <2>1. \A k \in (i + 1)..n : k \in 2..n /\ n - k <= x
    BY <1>1
  <2>2. \A k \in (i + 1)..n : Finished(k)
    BY <2>1, <1>4
  <2> QED BY <2>2, <1>2
<1> HIDE DEF S
<1>5. n \in S
  BY <1>1, <1>3, <1>4, NatSetInduction
<1>6. \A i \in 2..n : n - i <= n
  BY <1>1
<1> QED BY <1>5, <1>6 DEF S, n

\* The tasks below the last are arrays of m with all their elements.
Arrays(m, s) ==
    \A i \in 1..(Len(s) - 1) : \E a \in 1..Len(Items[m]) :
        PathOf(m, a) = Place(s, i) /\ Elements(m, a) = s[i].elements

(* moveToNextTask after an item without elements: to the item after it,    *)
(* or out of the reply if it was the last.                                 *)
LEMMA NextTaskIsNext ==
    ASSUME RInv, stack # <<>>, NEW m \in Message, NEW c \in 1..Len(Items[m]),
           Elements(m, c) = 0,
           Place(stack, Len(stack)) = PathOf(m, c), Arrays(m, stack)
    PROVE  /\ NextTask = <<>> => c = Len(Items[m])
           /\ NextTask # <<>> =>
                /\ c + 1 \in 1..Len(Items[m])
                /\ Place(NextTask, Len(NextTask)) = PathOf(m, c + 1)
                /\ Arrays(m, NextTask)
                /\ NextTask[Len(NextTask)].type = Unread
<1> DEFINE n == Len(stack)
           p == PathOf(m, c)
<1>1. /\ n \in Nat \ {0}
      /\ \A k \in 2..n : stack[k].idx \in Nat
      /\ \A k \in 1..n : stack[k] \in Task /\ stack[k].elements \in Int /\ stack[k].idx \in Int
  <2>1. stack \in Seq(Task)
    BY IndicesNatural
  <2>2. n # 0
    BY <2>1
  <2> QED BY <2>2, IndicesNatural
<1>2. /\ p \in Seq(Nat) /\ Len(p) = n - 1
      /\ \A k \in 1..(n - 1) : p[k] = stack[k + 1].idx
      /\ \A k \in 1..n : SubSeq(p, 1, k - 1) = Place(stack, k)
  <2>1. Place(stack, n) = p
    OBVIOUS
  <2> HIDE DEF n, p
  <2>2. /\ Place(stack, n) \in Seq(Nat) /\ Len(Place(stack, n)) = n - 1
        /\ \A k \in 1..(n - 1) : Place(stack, n)[k] = stack[k + 1].idx
        /\ \A k \in 1..n : SubSeq(Place(stack, n), 1, k - 1) = Place(stack, k)
    BY <1>1, PlaceIs
  <2> QED BY <2>1, <2>2
<1>3. ASSUME NEW i \in 2..n, Finished(i) PROVE LastOfArray(m, p, i - 1)
  <2> DEFINE k == i - 1
  <2>1. k \in 1..(Len(stack) - 1) /\ k \in 1..n /\ k \in 1..(n - 1) /\ k + 1 = i
    BY <1>1
  <2>2. PICK d \in 1..Len(Items[m]) :
          PathOf(m, d) = Place(stack, k) /\ Elements(m, d) = stack[k].elements
    BY <2>1 DEF Arrays
  <2>3. stack[i].idx = stack[k].elements - 1
    BY <1>3 DEF Finished
  <2> HIDE DEF k, p, n
  <2>4. PathOf(m, d) = SubSeq(p, 1, k - 1) /\ p[k] = Elements(m, d) - 1
    BY <1>2, <2>1, <2>2, <2>3
  <2>5. LastOfArray(m, p, k)
    BY <2>4 DEF LastOfArray
  <2> QED BY <2>5 DEF k
<1>4. CASE Resume = {}
  <2>1. \A i \in 2..n : Finished(i)
    BY <1>4, ResumeOrDone
  <2>2. \A k \in 1..Len(p) : LastOfArray(m, p, k)
    <3> SUFFICES ASSUME NEW k \in 1..Len(p) PROVE LastOfArray(m, p, k)
      OBVIOUS
    <3> DEFINE i == k + 1
    <3>1. i \in 2..n /\ i - 1 = k
      BY <1>1, <1>2
    <3> HIDE DEF i
    <3>2. LastOfArray(m, p, i - 1)
      BY <1>3, <2>1, <3>1
    <3> QED BY <3>1, <3>2
  <2>3. c = Len(Items[m])
    BY <2>2, LastItem
  <2>4. NextTask = <<>>
    BY <1>4 DEF NextTask
  <2> QED BY <2>3, <2>4
<1>5. CASE Resume # {}
  <2> DEFINE j == CHOOSE k \in Resume : TRUE
             x == [type |-> Unread, elements |-> -1, idx |-> stack[j].idx + 1]
             t == [SubSeq(stack, 1, j) EXCEPT ![j] = x]
  <2>1. j \in Resume
    BY <1>5
  <2>2. NextTask = t
    BY <1>5 DEF NextTask
  <2> HIDE DEF j
  <2>3. /\ j \in 2..n /\ ~Finished(j) /\ \A k \in (j + 1)..n : Finished(k)
    BY <2>1 DEF Resume
  <2>4. x \in Task /\ x.idx = stack[j].idx + 1 /\ x.type = Unread
    <3>1. stack[j].idx \in Int
      BY <1>1, <2>3
    <3> QED BY <3>1 DEF Task
  <2> HIDE DEF x
  <2>5. /\ t \in Seq(Task) /\ Len(t) = j
        /\ \A k \in 1..(j - 1) : t[k] = stack[k]
        /\ t[j] = x
    <3>1. stack \in Seq(Task) /\ j \in 1..Len(stack)
      BY <1>1, <2>3, IndicesNatural
    <3> QED BY <2>4, <3>1, ReplaceLast
  <2> HIDE DEF t
  <2> DEFINE l == j - 1
  <2>6. l \in 1..(n - 1) /\ l + 1 = j /\ l \in 1..n /\ l \in 1..(Len(stack) - 1) /\ l \in 1..Len(p)
    <3>1. l \in 1..(n - 1) /\ l + 1 = j /\ l \in 1..n
      BY <1>1, <2>3
    <3> QED BY <1>2, <3>1
  <2> HIDE DEF l
  <2>7. PICK a \in 1..Len(Items[m]) :
          PathOf(m, a) = Place(stack, l) /\ Elements(m, a) = stack[l].elements
    BY <2>6 DEF Arrays
  <2>8. PathOf(m, a) = SubSeq(p, 1, l - 1) /\ p[l] + 1 < Elements(m, a)
    <3>1. stack[l + 1].idx < stack[l].elements /\ stack[j].idx # stack[l].elements - 1
      <4>1. stack[l + 1].idx < stack[l].elements
        BY <2>6 DEF RInv, Describes
      <4>2. l = j - 1
        BY DEF l
      <4> QED BY <2>3, <4>1, <4>2 DEF Finished
    <3> HIDE DEF p, n
    <3>2. p[l] = stack[j].idx /\ p[l] \in Int /\ stack[l].elements \in Int
      <4>1. p[l] = stack[l + 1].idx /\ l + 1 = j
        BY <1>2, <2>6
      <4>2. j \in 1..n
        BY <1>1, <2>3
      <4>3. stack[j].idx \in Int /\ stack[l].elements \in Int
        BY <1>1, <2>6, <4>2
      <4> QED BY <4>1, <4>3
    <3>3. p[l] + 1 < Elements(m, a)
      BY <2>6, <2>7, <3>1, <3>2, SMTT(60)
    <3> QED BY <1>2, <2>6, <2>7, <3>3
  <2>9. \A k \in (l + 1)..Len(p) : LastOfArray(m, p, k)
    <3> SUFFICES ASSUME NEW k \in (l + 1)..Len(p) PROVE LastOfArray(m, p, k)
      OBVIOUS
    <3> DEFINE i == k + 1
    <3>1. i \in 2..n /\ i \in (j + 1)..n /\ i - 1 = k
      BY <1>1, <1>2, <2>3, <2>6
    <3> HIDE DEF i
    <3>2. LastOfArray(m, p, i - 1)
      BY <1>3, <2>3, <3>1
    <3> QED BY <3>1, <3>2
  <2>10. /\ c + 1 \in 1..Len(Items[m])
         /\ PathOf(m, c + 1) = Append(SubSeq(p, 1, l - 1), p[l] + 1)
    BY <2>6, <2>8, <2>9, NextSibling
  <2>11. \A k \in 2..j : t[k].idx \in Nat
    <3> SUFFICES ASSUME NEW k \in 2..j PROVE t[k].idx \in Nat
      OBVIOUS
    <3>1. CASE k = j
      <4>1. stack[j].idx \in Nat
        BY <1>1, <2>3
      <4> QED BY <3>1, <4>1, <2>4, <2>5
    <3>2. CASE k # j
      <4>1. k \in 1..(j - 1) /\ k \in 2..n
        BY <3>2, <2>3, <1>1
      <4> QED BY <4>1, <1>1, <2>5
    <3> QED BY <3>1, <3>2
  <2>12. \A k \in 1..l : Place(t, k) = Place(stack, k)
    <3> SUFFICES ASSUME NEW k \in 1..l PROVE Place(t, k) = Place(stack, k)
      OBVIOUS
    <3>1. k \in Nat /\ \A i \in 2..k : i \in 1..(j - 1)
      BY <2>3, <2>6
    <3>2. \A i \in 2..k : t[i].idx = stack[i].idx
      BY <2>5, <3>1
    <3> QED BY <3>1, <3>2, SamePlace
  <2>13. Place(t, j) = PathOf(m, c + 1)
    <3> DEFINE q == Place(t, j)
               s == SubSeq(q, 1, l - 1)
               y == q[l]
    <3>1. /\ q \in Seq(Nat) /\ Len(q) = j - 1
          /\ \A k \in 1..(j - 1) : q[k] = t[k + 1].idx
          /\ \A k \in 1..j : SubSeq(q, 1, k - 1) = Place(t, k)
      <4>1. j \in Nat \ {0}
        BY <2>3
      <4> QED BY <4>1, <2>11, PlaceIs
    <3> HIDE DEF q
    <3>2. l \in Nat \ {0} /\ l \in 1..(j - 1) /\ l \in 1..j /\ j - 1 = l
      BY <2>3, <2>6
    <3>3. Len(q) = l /\ q[l] = t[j].idx /\ s = Place(t, l)
      BY <2>6, <3>1, <3>2
    <3>4. p[l] = stack[j].idx /\ SubSeq(p, 1, l - 1) = Place(stack, l)
      <4> HIDE DEF p, n
      <4> QED BY <1>2, <2>6
    <3>5. y = p[l] + 1 /\ y \in Nat
      <4>1. t[j].idx = stack[j].idx + 1
        BY <2>4, <2>5
      <4>2. q[l] \in Nat
        BY <3>1, <3>2
      <4> HIDE DEF p
      <4> QED BY <3>3, <3>4, <4>1, <4>2
    <3>6. s = SubSeq(p, 1, l - 1)
      <4>1. l \in 1..l
        BY <3>2
      <4> QED BY <2>12, <3>3, <3>4, <4>1
    <3>7. q = Append(s, y)
      <4>1. \A k \in 1..(l - 1) : q[k] \in Nat
        BY <3>1, <3>2, SMTT(60)
      <4>2. s \in Seq(Nat) /\ Len(s) = l - 1 /\ \A k \in 1..(l - 1) : s[k] = q[k]
        BY <3>2, <4>1, SubSeqProperties
      <4>3. y = q[l]
        OBVIOUS
      <4> HIDE DEF s, y
      <4> DEFINE w == Append(s, y)
      <4>4. /\ w \in Seq(Nat) /\ Len(w) = l /\ w[l] = y
            /\ \A k \in 1..(l - 1) : w[k] = s[k]
        BY <3>2, <3>5, <4>2, AppendProperties
      <4> HIDE DEF w
      <4>5. \A k \in 1..l : w[k] = q[k]
        <5> SUFFICES ASSUME NEW k \in 1..l PROVE w[k] = q[k]
          OBVIOUS
        <5>1. CASE k = l
          BY <5>1, <4>3, <4>4
        <5>2. CASE k # l
          <6>1. k \in 1..(l - 1)
            BY <3>2, <5>2
          <6> QED BY <6>1, <4>2, <4>4
        <5> QED BY <5>1, <5>2
      <4>6. w = q
        BY <3>1, <3>3, <4>4, <4>5, SeqEqual
      <4> QED BY <4>6 DEF w
    <3> HIDE DEF s, y
    <3> QED BY <2>10, <3>5, <3>6, <3>7 DEF q
  <2>14. Arrays(m, t)
    <3> SUFFICES ASSUME NEW i \in 1..(j - 1)
                 PROVE  \E b \in 1..Len(Items[m]) :
                           PathOf(m, b) = Place(t, i) /\ Elements(m, b) = t[i].elements
      BY <2>5 DEF Arrays
    <3>1. i \in 1..l /\ i \in 1..(Len(stack) - 1)
      BY <1>1, <2>3, <2>6
    <3>2. Place(t, i) = Place(stack, i) /\ t[i] = stack[i]
      BY <2>5, <2>12, <3>1
    <3> QED BY <3>1, <3>2 DEF Arrays
  <2>15. NextTask # <<>> /\ Len(NextTask) = j /\ NextTask[j].type = Unread
    BY <2>2, <2>3, <2>4, <2>5
  <2> QED BY <2>2, <2>10, <2>13, <2>14, <2>15
<1> QED BY <1>4, <1>5

-----------------------------------------------------------------------------
(* What the parser makes of the stream.                                    *)

\* How many tokens of the messages sent come before each of them.
Offsets ==
    {off \in [1..(Len(sent) + 1) -> Nat] :
        /\ off[1] = 0
        /\ \A i \in 1..Len(sent) : /\ off[i + 1] = off[i] + Len(Encoding[sent[i]])
                                 /\ off[i + 1] <= off[Len(sent) + 1]}

\* The tokens ahead of the cursor: how many, and which.
Left == Len(buf) - pos + Len(wire)
Ahead(j) == IF j <= Len(buf) - pos THEN buf[pos + j] ELSE wire[j - (Len(buf) - pos)]

\* All of the stream but its first g tokens is ahead of the cursor.
InTransit(off, g) ==
    /\ off[Len(sent) + 1] = g + Left
    /\ \A i \in 1..Len(sent) : \A x \in 1..Len(Encoding[sent[i]]) :
         off[i] + x > g => Ahead(off[i] + x - g) = Encoding[sent[i]][x]

\* The parser is at item c of m: the items before it are legal and in the
\* partial reply, and the tasks below it are arrays of m.
Parsing(m, c) ==
    /\ stack # <<>> /\ c \in 1..Len(Items[m])
    /\ Place(stack, Len(stack)) = PathOf(m, c)
    /\ stack[Len(stack)].type \in {Unread, TypeOf(m, c)}
    /\ Arrays(m, stack)
    /\ \A i \in 1..(c - 1) : LegalItem(m, i)
    /\ reply = {NodeOf(m, i) : i \in 1..(c - 1)}

\* The tokens of m that are consumed: the type byte is, once it is known.
Consumed(m, c) ==
    IF stack[Len(stack)].type = Unread THEN Items[m][c].at - 1 ELSE Items[m][c].at

\* The message whose reply is under construction, or is next.
Current == sent[Len(replies) + 1]

\* Where the parser is in the stream: it has handed out all replies before
\* the current one.
Progress(off, g) ==
    LET k == Len(replies)
    IN  /\ stack = <<>> /\ ~calling => g = off[k + 1]
        /\ stack = <<>> /\ calling =>
             k < Len(sent) /\ g = off[k + 2] /\ reply = Meaning[Current]
        /\ stack # <<>> /\ k = Len(sent) =>
             stack = <<RootTask>> /\ g = off[k + 1] /\ reply = {}
        /\ stack # <<>> /\ k < Len(sent) =>
             \E c \in 1..Len(Items[Current]) :
                Parsing(Current, c) /\ g = off[k + 1] + Consumed(Current, c)

\* The inductive invariant that Faithful and ErrorJustified need.
Handed ==
    /\ sent \in Seq(Message)
    /\ replies \in Seq({Meaning[m] : m \in Message})
    /\ Len(replies) <= Len(sent)
    /\ \A i \in 1..Len(replies) : replies[i] = Meaning[sent[i]]
Blamed ==
    /\ err = "protocol" => Len(replies) < Len(sent) /\ Current \notin WellFormed
    /\ err = "oom" => MayFail
    /\ err # "none" => stack = <<>>
InStep ==
    err = "none" =>
        \E off \in Offsets : \E g \in Nat : InTransit(off, g) /\ Progress(off, g)
SInv == Handed /\ Blamed /\ InStep

-----------------------------------------------------------------------------
(* The tokens ahead of the cursor.                                         *)
LEMMA BufferTyped ==
    ASSUME RInv
    PROVE  /\ buf \in Seq(TokenSet) /\ wire \in Seq(TokenSet)
           /\ Len(buf) \in Nat /\ Len(wire) \in Nat
           /\ pos \in Nat /\ pos <= Len(buf) /\ Left \in Nat
<1>1. buf \in Seq(TokenSet) /\ wire \in Seq(TokenSet) /\ pos \in 0..Len(buf)
  BY DEF RInv, TypeOK
<1>2. Len(buf) \in Nat /\ Len(wire) \in Nat
  BY <1>1
<1>3. pos \in Nat /\ pos <= Len(buf)
  BY <1>1, <1>2
<1> QED BY <1>1, <1>2, <1>3 DEF Left

LEMMA CurrentTyped ==
    ASSUME Handed
    PROVE  /\ Len(sent) \in Nat /\ Len(replies) \in Nat
           /\ \A i \in 1..Len(sent) : sent[i] \in Message
           /\ Len(replies) < Len(sent) =>
                Len(replies) + 1 \in 1..Len(sent) /\ Current \in Message
<1>1. sent \in Seq(Message) /\ replies \in Seq({Meaning[m] : m \in Message})
  BY DEF Handed
<1>2. Len(sent) \in Nat /\ Len(replies) \in Nat /\ \A i \in 1..Len(sent) : sent[i] \in Message
  BY <1>1, LenProperties
<1>3. Len(replies) < Len(sent) => Len(replies) + 1 \in 1..Len(sent)
  BY <1>2
<1> QED BY <1>2, <1>3 DEF Current

LEMMA OffsetsAre ==
    ASSUME Handed, NEW off \in Offsets
    PROVE  /\ \A i \in 1..(Len(sent) + 1) : off[i] \in Nat
           /\ \A i \in 1..Len(sent) : /\ i \in 1..(Len(sent) + 1) /\ i + 1 \in 1..(Len(sent) + 1)
                                     /\ Len(Encoding[sent[i]]) \in Nat
                                     /\ off[i + 1] = off[i] + Len(Encoding[sent[i]])
                                     /\ off[i + 1] <= off[Len(sent) + 1]
<1>1. Len(sent) \in Nat /\ \A i \in 1..Len(sent) : sent[i] \in Message
  BY CurrentTyped
<1>2. \A i \in 1..Len(sent) : Len(Encoding[sent[i]]) \in Nat
  BY <1>1, MessageTyped
<1>3. \A i \in 1..Len(sent) : i \in 1..(Len(sent) + 1) /\ i + 1 \in 1..(Len(sent) + 1)
  BY <1>1
<1> QED BY <1>2, <1>3 DEF Offsets

(* When n of the tokens ahead are consumed the others stay in transit.     *)
LEMMA ConsumeTransit ==
    ASSUME RInv, Handed, NEW off \in Offsets, NEW g \in Nat, InTransit(off, g),
           NEW n \in Nat, pos + n <= Len(buf), pos' = pos + n, UNCHANGED <<buf, wire, sent>>
    PROVE  InTransit(off, g + n)'
<1> DEFINE b == Len(buf)
           w == Len(wire)
           top == off[Len(sent) + 1]
<1>1. b \in Nat /\ w \in Nat /\ pos \in Nat
  BY BufferTyped
<1>2. Left = b - pos + w /\ Left' = b - (pos + n) + w
  BY DEF Left
<1>3. top = g + Left /\ off[Len(sent') + 1] = top
  BY DEF InTransit
<1>4. top = (g + n) + Left'
  <2> HIDE DEF b, w, top
  <2> QED BY <1>1, <1>2, <1>3
<1>5. ASSUME NEW i \in 1..Len(sent), NEW x \in 1..Len(Encoding[sent[i]]), off[i] + x > g + n
      PROVE  Ahead(off[i] + x - (g + n))' = Encoding[sent[i]][x]
  <2> DEFINE j == off[i] + x - (g + n)
  <2>1. off[i] \in Nat /\ Len(Encoding[sent[i]]) \in Nat
    BY OffsetsAre
  <2>2. j \in Nat \ {0} /\ off[i] + x > g /\ off[i] + x - g = j + n
    BY <1>5, <2>1, SMTT(60)
  <2>3. Ahead(j + n) = Encoding[sent[i]][x]
    BY <2>2 DEF InTransit
  <2> HIDE DEF j
  <2>4. Ahead(j)' = IF j <= b - (pos + n) THEN buf[pos + n + j] ELSE wire[j - (b - (pos + n))]
    BY DEF Ahead
  <2>5. Ahead(j + n) = IF j + n <= b - pos THEN buf[pos + (j + n)] ELSE wire[(j + n) - (b - pos)]
    BY DEF Ahead
  <2> HIDE DEF b
  <2>6. /\ pos + n + j = pos + (j + n) /\ j - (b - (pos + n)) = (j + n) - (b - pos)
        /\ j <= b - (pos + n) <=> j + n <= b - pos
    BY <1>1, <2>2
  <2>7. Ahead(j)' = Ahead(j + n)
    BY <2>4, <2>5, <2>6
  <2> QED BY <2>3, <2>7 DEF j
<1> QED BY <1>3, <1>4, <1>5 DEF InTransit

(* What leaves the tokens ahead as they are leaves them in transit.        *)
LEMMA SameTransit ==
    ASSUME RInv, Handed, NEW off \in Offsets, NEW g \in Nat, InTransit(off, g),
           sent' = sent, Left' = Left, \A j \in 1..Left : Ahead(j)' = Ahead(j)
    PROVE  InTransit(off, g)'
<1>1. Left \in Nat
  BY BufferTyped
<1>2. ASSUME NEW i \in 1..Len(sent), NEW x \in 1..Len(Encoding[sent[i]]), off[i] + x > g
      PROVE  Ahead(off[i] + x - g)' = Encoding[sent[i]][x]
  <2> DEFINE j == off[i] + x - g
             e == Len(Encoding[sent[i]])
             top == off[Len(sent) + 1]
  <2>1. off[i] \in Nat /\ e \in Nat /\ off[i + 1] = off[i] + e /\ off[i + 1] <= top
    BY OffsetsAre
  <2>2. top = g + Left
    BY DEF InTransit
  <2>3. x \in 1..e
    OBVIOUS
  <2> HIDE DEF e, top
  <2>4. j \in 1..Left
    BY <1>1, <1>2, <2>1, <2>2, <2>3
  <2>5. Ahead(j) = Encoding[sent[i]][x]
    BY <1>2 DEF InTransit
  <2> HIDE DEF j
  <2>6. Ahead(j)' = Encoding[sent[i]][x]
    BY <2>4, <2>5
  <2> QED BY <2>6 DEF j
<1> QED BY <1>2 DEF InTransit

(* What has arrived at the cursor is the next part of the stream.          *)
LEMMA TokenHere ==
    ASSUME RInv, Handed, NEW off \in Offsets, NEW g \in Nat, InTransit(off, g),
           Len(replies) < Len(sent), NEW k \in {1, 2}, Arrived(k),
           NEW x \in 1..Len(Encoding[Current]), off[Len(replies) + 1] + x = g + k
    PROVE  Token(k) = Encoding[Current][x]
<1> DEFINE i == Len(replies) + 1
<1>1. i \in 1..Len(sent) /\ sent[i] = Current
  BY CurrentTyped DEF Current
<1>2. off[i] \in Nat /\ Len(Encoding[sent[i]]) \in Nat
  BY <1>1, OffsetsAre
<1> HIDE DEF i
<1>3. off[i] + x > g /\ off[i] + x - g = k
  <2>1. off[i] + x = g + k /\ x \in Nat
    BY <1>1, <1>2 DEF i
  <2> QED BY <1>2, <2>1
<1>4. Ahead(off[i] + x - g) = Encoding[sent[i]][x]
  BY <1>1, <1>3 DEF InTransit
<1>5. Ahead(k) = Encoding[Current][x]
  BY <1>1, <1>3, <1>4
<1>6. k <= Len(buf) - pos
  BY BufferTyped DEF Arrived
<1> QED BY <1>5, <1>6 DEF Ahead, Token

LEMMA NothingHere ==
    ASSUME RInv, Handed, NEW off \in Offsets, NEW g \in Nat, InTransit(off, g),
           g = off[Len(sent) + 1]
    PROVE  ~Arrived(1)
<1>1. g = g + Left
  BY DEF InTransit
<1>2. Left = 0
  BY <1>1, BufferTyped
<1> QED BY <1>2, BufferTyped DEF Left, Arrived

-----------------------------------------------------------------------------
(* The item the parser is at.                                              *)
Here(off, g, m, c) ==
    /\ RInv /\ Handed /\ err = "none"
    /\ off \in Offsets /\ g \in Nat /\ InTransit(off, g)
    /\ Len(replies) < Len(sent) /\ m = Current /\ m \in Message
    /\ Parsing(m, c) /\ g = off[Len(replies) + 1] + Consumed(m, c)

LEMMA SomewhereHere ==
    ASSUME RInv, SInv, Looping, Arrived(1) \/ cur.type # Unread
    PROVE  \E off, g, m, c : Here(off, g, m, c)
<1>1. Handed /\ InStep /\ err = "none" /\ stack # <<>>
  BY DEF SInv, Looping
<1>2. PICK off \in Offsets : \E g \in Nat : InTransit(off, g) /\ Progress(off, g)
  BY <1>1 DEF InStep
<1>3. PICK g \in Nat : InTransit(off, g) /\ Progress(off, g)
  BY <1>2
<1>4. Len(replies) # Len(sent)
  <2> SUFFICES ASSUME Len(replies) = Len(sent) PROVE FALSE
    OBVIOUS
  <2>1. stack = <<RootTask>> /\ g = off[Len(sent) + 1]
    BY <1>1, <1>3 DEF Progress
  <2>2. ~Arrived(1)
    BY <1>1, <1>3, <2>1, NothingHere
  <2>3. cur.type = Unread
    BY <2>1 DEF cur, RootTask
  <2> QED BY <2>2, <2>3
<1>5. Len(replies) < Len(sent)
  BY <1>1, <1>4, CurrentTyped DEF Handed
<1>6. PICK c \in 1..Len(Items[Current]) :
        Parsing(Current, c) /\ g = off[Len(replies) + 1] + Consumed(Current, c)
  BY <1>1, <1>3, <1>5 DEF Progress
<1>7. Here(off, g, Current, c)
  BY <1>1, <1>3, <1>5, <1>6, CurrentTyped DEF Here
<1> QED BY <1>7

LEMMA PathHere ==
    ASSUME NEW off, NEW g, NEW m, NEW c, Here(off, g, m, c)
    PROVE  /\ Path = PathOf(m, c) /\ Len(stack) \in Nat \ {0}
           /\ ridx = Len(PathOf(m, c))
<1>1. RInv /\ stack # <<>> /\ Place(stack, Len(stack)) = PathOf(m, c)
  BY DEF Here, Parsing
<1>2. stack \in Seq(Task)
  BY <1>1, IndicesNatural
<1>3. Len(stack) \in Nat \ {0}
  BY <1>1, <1>2, EmptySeq
<1>4. Path = Place(stack, Len(stack))
  BY DEF Path, Place, ridx
<1>5. Len(Place(stack, Len(stack))) = Len(stack) - 1
  BY <1>1, <1>3, IndicesNatural, PlaceIs
<1> QED BY <1>1, <1>3, <1>4, <1>5 DEF ridx

(* What is read where an item starts is its type, and what is read when    *)
(* the type is known are its header and its payload.                       *)
LEMMA ItemHere ==
    ASSUME NEW off, NEW g, NEW m, NEW c, Here(off, g, m, c)
    PROVE  /\ c \in 1..Len(Items[m]) /\ m \in Message
           /\ cur.type = Unread /\ Arrived(1) => Token(1).val = TypeOf(m, c)
           /\ cur.type # Unread =>
                /\ cur.type = TypeOf(m, c)
                /\ Arrived(1) => Token(1) = HeaderOf(m, c)
                /\ Arrived(2) /\ HasPayload(m, c) =>
                     Token(2) = Encoding[m][Items[m][c].at + 2]
<1> DEFINE a == Items[m][c].at
           k == Len(replies) + 1
<1>1. /\ RInv /\ Handed /\ off \in Offsets /\ g \in Nat /\ InTransit(off, g)
      /\ Len(replies) < Len(sent) /\ m = Current /\ m \in Message
      /\ c \in 1..Len(Items[m]) /\ g = off[k] + Consumed(m, c)
      /\ stack[Len(stack)].type \in {Unread, TypeOf(m, c)}
  BY DEF Here, Parsing
<1>2. a \in Nat \ {0} /\ Len(Encoding[m]) \in Nat /\ off[k] \in Nat
  <2>1. k \in 1..Len(sent)
    BY <1>1, CurrentTyped
  <2> QED BY <1>1, <2>1, MessageTyped, OffsetsAre
<1>3. a + 1 <= Len(Encoding[m]) /\ (HasPayload(m, c) => a + 2 <= Len(Encoding[m]))
  BY <1>1, ItemTokens
<1> HIDE DEF a, k
<1>4. ASSUME cur.type = Unread, Arrived(1) PROVE Token(1).val = TypeOf(m, c)
  <2>1. g = off[k] + (a - 1)
    BY <1>1, <1>4 DEF Consumed, cur, a
  <2>2. a \in 1..Len(Encoding[m]) /\ off[k] + a = g + 1
    BY <1>2, <1>3, <2>1
  <2>3. Token(1) = Encoding[m][a]
    BY <1>1, <1>4, <2>2, TokenHere DEF k
  <2> QED BY <2>3 DEF TypeOf, a
<1>5. ASSUME cur.type # Unread
      PROVE  /\ cur.type = TypeOf(m, c)
             /\ Arrived(1) => Token(1) = HeaderOf(m, c)
             /\ Arrived(2) /\ HasPayload(m, c) => Token(2) = Encoding[m][a + 2]
  <2>1. cur.type = TypeOf(m, c) /\ g = off[k] + a
    BY <1>1, <1>5 DEF Consumed, cur, a
  <2>2. ASSUME Arrived(1) PROVE Token(1) = HeaderOf(m, c)
    <3>1. a + 1 \in 1..Len(Encoding[m]) /\ off[k] + (a + 1) = g + 1
      BY <1>2, <1>3, <2>1
    <3>2. Token(1) = Encoding[m][a + 1]
      BY <1>1, <2>2, <3>1, TokenHere DEF k
    <3> QED BY <3>2 DEF HeaderOf, a
  <2>3. ASSUME Arrived(2), HasPayload(m, c) PROVE Token(2) = Encoding[m][a + 2]
    <3>1. a + 2 \in 1..Len(Encoding[m]) /\ off[k] + (a + 2) = g + 2
      BY <1>2, <1>3, <2>1, <2>3
    <3> QED BY <1>1, <2>3, <3>1, TokenHere DEF k
  <2> QED BY <2>1, <2>2, <2>3
<1> QED BY <1>1, <1>4, <1>5 DEF a

(* Errors.                                                                 *)
LEMMA ErrorInStep ==
    ASSUME SInv, NEW kind \in {"protocol", "oom"}, SetError(kind),
           kind = "protocol" => Len(replies) < Len(sent) /\ Current \notin WellFormed,
           kind = "oom" => MayFail
    PROVE  SInv'
<1>1. /\ stack' = <<>> /\ err' = kind /\ sent' = sent /\ replies' = replies
      /\ Current' = Current
  BY DEF SetError, Current
<1>2. Handed'
  BY <1>1 DEF SInv, Handed
<1>3. Blamed'
  BY <1>1 DEF Blamed
<1>4. InStep'
  BY <1>1 DEF InStep
<1> QED BY <1>2, <1>3, <1>4 DEF SInv

LEMMA IllegalItem ==
    ASSUME NEW m \in Message, NEW c \in 1..Len(Items[m]), ~LegalItem(m, c)
    PROVE  m \notin WellFormed
<1>1. DOMAIN Items[m] = 1..Len(Items[m])
  BY MessageAssumption
<1> QED BY <1>1, MeaningAssumption

LEMMA BlamedItem ==
    ASSUME SInv, NEW off, NEW g, NEW m, NEW c, Here(off, g, m, c),
           ~LegalItem(m, c), SetError("protocol")
    PROVE  SInv'
<1>1. m \notin WellFormed
  BY ItemHere, IllegalItem
<1>2. Len(replies) < Len(sent) /\ Current \notin WellFormed
  BY <1>1 DEF Here
<1> QED BY <1>2, ErrorInStep

(* The objects of the first items with one more, and those of all.         *)
LEMMA OneMoreNode ==
    ASSUME NEW m, NEW c \in Nat \ {0}
    PROVE  {NodeOf(m, i) : i \in 1..(c - 1)} \cup {NodeOf(m, c)} = {NodeOf(m, i) : i \in 1..((c + 1) - 1)}
<1>1. \A i : i \in 1..((c + 1) - 1) <=> i \in 1..(c - 1) \/ i = c
  OBVIOUS
<1> QED BY <1>1

LEMMA AllNodes ==
    ASSUME NEW m \in Message, \A i \in 1..Len(Items[m]) : LegalItem(m, i)
    PROVE  {NodeOf(m, i) : i \in 1..Len(Items[m])} = Meaning[m]
<1>1. DOMAIN Items[m] = 1..Len(Items[m])
  BY MessageAssumption
<1> QED BY <1>1, MeaningAssumption

(* The parser stays within the current message.                            *)
LEMMA StaysInStep ==
    ASSUME SInv, NEW off, NEW g, NEW m, NEW c, Here(off, g, m, c),
           UNCHANGED <<sent, wire, buf, err, replies>>,
           NEW n \in Nat, Arrived(n), pos' = pos + n, Progress(off, g + n)'
    PROVE  SInv'
<1>1. Handed' /\ Current' = Current
  BY DEF Here, Handed, Current
<1>2. Blamed'
  BY DEF Here, Blamed
<1>3. off \in Offsets'
  BY DEF Here, Offsets
<1>4. InTransit(off, g + n)'
  BY ConsumeTransit DEF Here, Arrived
<1>5. g + n \in Nat
  BY DEF Here
<1> QED BY <1>1, <1>2, <1>3, <1>4, <1>5 DEF SInv, InStep

(* An item is finished: the parser is at the next one, or has built what   *)
(* the message means.                                                      *)
LEMMA FinishInStep ==
    ASSUME SInv, calling, NEW off, NEW g, NEW m, NEW c, Here(off, g, m, c),
           cur.type # Unread, LegalItem(m, c), Elements(m, c) = 0,
           NEW n \in Nat, n + 1 = Size(m, c), Arrived(n), Finish(NodeOf(m, c), n)
    PROVE  SInv'
<1> DEFINE k == Len(replies)
           a == Items[m][c].at
           N == Len(Items[m])
           L == Len(Encoding[m])
<1>1. /\ reply' = reply \cup {NodeOf(m, c)} /\ pos' = pos + n /\ stack' = NextTask
      /\ UNCHANGED <<sent, wire, buf, err, calling, last, replies>>
  BY DEF Finish, Attach
<1>2. /\ RInv /\ Handed /\ off \in Offsets /\ g \in Nat /\ k < Len(sent)
      /\ m = Current /\ m \in Message /\ c \in 1..N
      /\ Parsing(m, c) /\ g = off[k + 1] + Consumed(m, c)
  BY DEF Here, Parsing
<1>3. /\ a \in Nat \ {0} /\ N \in Nat \ {0} /\ L \in Nat /\ c \in Nat \ {0}
      /\ a + Size(m, c) = IF c = N THEN L + 1 ELSE Items[m][c + 1].at
  BY <1>2, MessageTyped, LayoutIs DEF Successive
<1>4. k + 1 \in 1..Len(sent) /\ off[k + 1] \in Nat /\ off[k + 2] = off[k + 1] + L /\ k \in Nat
  <2>1. k \in Nat /\ Len(sent) \in Nat /\ k + 1 \in 1..Len(sent) /\ (k + 1) + 1 = k + 2
    BY <1>2, CurrentTyped
  <2>2. sent[k + 1] = m
    BY <1>2 DEF Current
  <2>3. off[(k + 1) + 1] = off[k + 1] + Len(Encoding[sent[k + 1]]) /\ off[k + 1] \in Nat
    BY <1>2, <2>1, OffsetsAre
  <2> QED BY <2>1, <2>2, <2>3
<1>5. Current' = m /\ Len(replies') = k /\ Len(sent') = Len(sent) /\ calling'
  BY <1>1, <1>2 DEF Current
<1>6. reply' = {NodeOf(m, i) : i \in 1..((c + 1) - 1)} /\ \A i \in 1..((c + 1) - 1) : LegalItem(m, i)
  <2>1. reply = {NodeOf(m, i) : i \in 1..(c - 1)} /\ \A i \in 1..(c - 1) : LegalItem(m, i)
    BY <1>2 DEF Parsing
  <2>2. \A i \in 1..((c + 1) - 1) : i \in 1..(c - 1) \/ i = c
    BY <1>3
  <2> QED BY <1>1, <1>3, <2>1, <2>2, OneMoreNode
<1>7. g = off[k + 1] + a
  BY <1>2 DEF Consumed, cur
<1>8. Elements(m, c) = 0 /\ stack # <<>> /\ Place(stack, Len(stack)) = PathOf(m, c) /\ Arrays(m, stack)
  BY <1>2 DEF Parsing
<1>9. CASE NextTask = <<>>
  <2>1. c = N
    BY <1>2, <1>8, <1>9, NextTaskIsNext
  <2>2. reply' = Meaning[m]
    <3>1. (c + 1) - 1 = N
      BY <1>3, <2>1
    <3> QED BY <1>2, <1>6, <3>1, AllNodes
  <2>3. g + n = off[k + 2]
    <3> HIDE DEF a, N, L
    <3>1. a + n = L
      BY <1>3, <2>1
    <3> QED BY <1>3, <1>4, <1>7, <3>1, SMTT(60)
  <2>4. Progress(off, g + n)'
    <3> HIDE DEF k
    <3>1. stack' = <<>>
      BY <1>1, <1>9
    <3>2. (Len(replies) < Len(sent) /\ g + n = off[Len(replies) + 2] /\ reply = Meaning[Current])'
      BY <1>2, <1>5, <2>2, <2>3
    <3> QED BY <1>5, <3>1, <3>2 DEF Progress
  <2> QED BY <1>1, <2>4, StaysInStep
<1>10. CASE NextTask # <<>>
  <2>1. /\ c + 1 \in 1..N
        /\ Place(NextTask, Len(NextTask)) = PathOf(m, c + 1)
        /\ Arrays(m, NextTask)
        /\ NextTask[Len(NextTask)].type = Unread
    BY <1>2, <1>8, <1>10, NextTaskIsNext
  <2>2. Parsing(m, c + 1)'
    BY <1>1, <1>6, <1>10, <2>1 DEF Parsing
  <2>3. g + n = off[k + 1] + (Items[m][c + 1].at - 1)
    <3>1. c # N
      BY <1>3, <2>1
    <3> DEFINE b == Items[m][c + 1].at
    <3>2. b \in Nat
      BY <1>2, <2>1, MessageTyped
    <3>3. a + (n + 1) = b
      BY <1>3, <3>1
    <3> HIDE DEF a, b
    <3>4. a + n = b - 1
      BY <1>3, <3>2, <3>3
    <3> QED BY <1>3, <1>4, <1>7, <3>2, <3>4 DEF b
  <2>4. Consumed(m, c + 1)' = Items[m][c + 1].at - 1
    BY <1>1, <2>1 DEF Consumed
  <2>5. Progress(off, g + n)'
    <3>1. stack' # <<>> /\ Len(replies') # Len(sent')
      BY <1>1, <1>2, <1>4, <1>5, <1>10
    <3>2. (Parsing(Current, c + 1) /\ g + n = off[Len(replies) + 1] + Consumed(Current, c + 1))'
      BY <1>5, <2>2, <2>3, <2>4
    <3>3. (\E d \in 1..Len(Items[Current]) :
              Parsing(Current, d) /\ g + n = off[Len(replies) + 1] + Consumed(Current, d))'
      BY <1>5, <2>1, <3>2
    <3> QED BY <3>1, <3>3 DEF Progress
  <2> QED BY <1>1, <2>5, StaysInStep
<1> QED BY <1>9, <1>10

(* The objects of arrays and of nil.                                       *)
ArrayNode == Node("array", "")
NilNode == Node("nil", "")

(* An array with elements: the parser is at its first one.                 *)
LEMMA DescendInStep ==
    ASSUME SInv, NEW off, NEW g, NEW m, NEW c, Here(off, g, m, c),
           cur.type = "array", LegalItem(m, c),
           NEW e \in Int, e > 0, e = Elements(m, c), Arrived(1),
           NodeOf(m, c) = ArrayNode, Descend(e)
    PROVE  SInv'
<1> DEFINE k == Len(replies)
           top == Len(stack)
           t == [stack EXCEPT ![top].elements = e]
           p == PathOf(m, c)
<1>1. /\ reply' = reply \cup {NodeOf(m, c)} /\ pos' = pos + 1 /\ stack' = Append(t, ItemTask)
      /\ UNCHANGED <<sent, wire, buf, err, calling, last, replies>>
  BY DEF Descend, Attach, ArrayNode
<1>2. /\ RInv /\ Handed /\ off \in Offsets /\ g \in Nat /\ k < Len(sent)
      /\ m = Current /\ m \in Message /\ c \in 1..Len(Items[m]) /\ c \in Nat \ {0}
      /\ Parsing(m, c) /\ g = off[k + 1] + Consumed(m, c)
  BY DEF Here, Parsing
<1>3. /\ stack \in Seq(Task) /\ top \in Nat \ {0} /\ top \in 1..top
      /\ \A i \in 1..top : stack[i] \in Task
      /\ \A i \in 2..top : stack[i].idx \in Nat
  BY <1>2, PathHere, IndicesNatural
<1>4. c + 1 \in 1..Len(Items[m]) /\ PathOf(m, c + 1) = Append(p, 0)
  BY <1>2, FirstElement
<1>5. /\ t \in Seq(Task) /\ Len(t) = top
      /\ \A i \in 1..(top - 1) : t[i] = stack[i]
      /\ t[top].idx = stack[top].idx /\ t[top].elements = e
  <2>1. stack[top] \in Task
    BY <1>3
  <2> DEFINE x == [stack[top] EXCEPT !.elements = e]
  <2>2. x \in Task /\ x.idx = stack[top].idx /\ x.elements = e
    BY <2>1 DEF Task
  <2>3. t = [stack EXCEPT ![top] = x]
    OBVIOUS
  <2> HIDE DEF x, t
  <2>4. t \in Seq(Task) /\ Len(t) = top /\ t[top] = x /\ \A i \in 1..(top - 1) : t[i] = stack[i]
    BY <1>3, <2>2, <2>3
  <2> QED BY <2>2, <2>4
<1> DEFINE u == Append(t, ItemTask)
<1> HIDE DEF t
<1>6. /\ u \in Seq(Task) /\ Len(u) = top + 1 /\ u # <<>>
      /\ \A i \in 1..top : u[i] = t[i]
      /\ u[top + 1] = ItemTask
  <2>1. ItemTask \in Task
    BY DEF ItemTask, Task
  <2> QED BY <1>5, <2>1, AppendProperties
<1>7. stack' = u
  BY <1>1
<1> HIDE DEF u
<1>8. \A i \in 1..top : u[i].idx = stack[i].idx
  <2>1. \A i \in 1..top : i = top \/ i \in 1..(top - 1)
    BY <1>3
  <2> QED BY <1>5, <1>6, <2>1
<1>9. \A i \in 1..top : Place(u, i) = Place(stack, i)
  <2> SUFFICES ASSUME NEW i \in 1..top PROVE Place(u, i) = Place(stack, i)
    OBVIOUS
  <2>1. i \in Nat /\ \A j \in 2..i : u[j].idx = stack[j].idx
    BY <1>3, <1>8
  <2> QED BY <2>1, SamePlace
<1>10. Place(stack, top) = p /\ p \in Seq(Nat) /\ Len(p) = top - 1
  <2>1. Place(stack, top) = p /\ p \in Seq(Nat)
    BY <1>2, MessageTyped DEF Parsing
  <2>2. Len(Place(stack, top)) = top - 1
    BY <1>3, PlaceIs
  <2> QED BY <2>1, <2>2
<1>11. Place(u, top + 1) = Append(p, 0)
  <2> DEFINE q == Place(u, top + 1)
             w == Append(p, 0)
  <2>1. \A i \in 2..(top + 1) : u[i].idx \in Nat
    <3> SUFFICES ASSUME NEW i \in 2..(top + 1) PROVE u[i].idx \in Nat
      OBVIOUS
    <3>1. CASE i = top + 1
      BY <3>1, <1>6 DEF ItemTask
    <3>2. CASE i # top + 1
      <4>1. i \in 2..top /\ i \in 1..top
        BY <1>3, <3>2
      <4> QED BY <4>1, <1>3, <1>8
    <3> QED BY <3>1, <3>2
  <2>2. /\ q \in Seq(Nat) /\ Len(q) = top
        /\ \A i \in 1..top : q[i] = u[i + 1].idx
    <3>1. top + 1 \in Nat \ {0} /\ (top + 1) - 1 = top
      BY <1>3
    <3> QED BY <2>1, <3>1, PlaceIs
  <2>3. /\ w \in Seq(Nat) /\ Len(w) = top /\ w[top] = 0
        /\ \A i \in 1..(top - 1) : w[i] = p[i]
    <3>1. Len(p) + 1 = top
      BY <1>3, <1>10
    <3> QED BY <1>10, <3>1, AppendProperties
  <2>4. \A i \in 1..(top - 1) : p[i] = stack[i + 1].idx
    <3>1. \A i \in 1..(top - 1) : Place(stack, top)[i] = stack[i + 1].idx
      BY <1>3, PlaceIs
    <3> QED BY <1>10, <3>1
  <2> HIDE DEF q, w
  <2>5. \A i \in 1..top : q[i] = w[i]
    <3> SUFFICES ASSUME NEW i \in 1..top PROVE q[i] = w[i]
      OBVIOUS
    <3>1. CASE i = top
      <4>1. u[top + 1].idx = 0
        BY <1>6 DEF ItemTask
      <4> QED BY <1>3, <2>2, <2>3, <3>1, <4>1
    <3>2. CASE i # top
      <4>1. i \in 1..(top - 1) /\ i + 1 \in 1..top
        BY <1>3, <3>2
      <4> QED BY <1>8, <2>2, <2>3, <2>4, <4>1
    <3> QED BY <3>1, <3>2
  <2>6. q = w
    BY <2>2, <2>3, <2>5, SeqEqual
  <2> QED BY <2>6 DEF q, w
<1>12. Arrays(m, u)
  <2> SUFFICES ASSUME NEW i \in 1..top
               PROVE  \E b \in 1..Len(Items[m]) :
                         PathOf(m, b) = Place(u, i) /\ Elements(m, b) = u[i].elements
    BY <1>3, <1>6 DEF Arrays
  <2>1. CASE i = top
    <3>1. PathOf(m, c) = Place(u, top) /\ u[top].elements = e
      BY <1>3, <1>5, <1>6, <1>9, <1>10
    <3> QED BY <1>2, <2>1, <3>1
  <2>2. CASE i # top
    <3>1. i \in 1..(top - 1) /\ i \in 1..(Len(stack) - 1)
      BY <1>3, <2>2
    <3>2. Place(u, i) = Place(stack, i) /\ u[i] = stack[i]
      BY <1>5, <1>6, <1>9, <3>1
    <3>3. Arrays(m, stack)
      BY <1>2 DEF Parsing
    <3> QED BY <3>1, <3>2, <3>3 DEF Arrays
  <2> QED BY <2>1, <2>2
<1>13. reply' = {NodeOf(m, i) : i \in 1..((c + 1) - 1)} /\ \A i \in 1..((c + 1) - 1) : LegalItem(m, i)
  <2>1. reply = {NodeOf(m, i) : i \in 1..(c - 1)} /\ \A i \in 1..(c - 1) : LegalItem(m, i)
    BY <1>2 DEF Parsing
  <2>2. \A i \in 1..((c + 1) - 1) : i \in 1..(c - 1) \/ i = c
    BY <1>2
  <2> QED BY <1>1, <1>2, <2>1, <2>2, OneMoreNode
<1>14. Parsing(m, c + 1)' /\ Consumed(m, c + 1)' = Items[m][c + 1].at - 1
  <2>1. u[Len(u)].type = Unread
    BY <1>6 DEF ItemTask
  <2>2. Place(u, Len(u)) = PathOf(m, c + 1)
    BY <1>4, <1>6, <1>11
  <2> QED BY <1>4, <1>6, <1>7, <1>12, <1>13, <2>1, <2>2 DEF Parsing, Consumed
<1>15. g + 1 = off[k + 1] + (Items[m][c + 1].at - 1)
  <2> DEFINE a == Items[m][c].at
             b == Items[m][c + 1].at
  <2>1. a \in Nat /\ b \in Nat
    BY <1>2, <1>4, MessageTyped
  <2>2. g = off[k + 1] + a
    BY <1>2 DEF Consumed, cur, Unread
  <2>3. off[k + 1] \in Nat
    <3>1. k + 1 \in 1..Len(sent)
      BY <1>2, CurrentTyped
    <3> QED BY <1>2, <3>1, OffsetsAre
  <2>4. a + Size(m, c) = b
    <3>1. c # Len(Items[m])
      BY <1>2, <1>4, MessageTyped
    <3> QED BY <1>2, <3>1, LayoutIs DEF Successive
  <2>5. Size(m, c) = 2
    <3>1. TypeOf(m, c) = "array"
      <4>1. cur.type # Unread
        BY DEF Unread
      <4> QED BY <4>1, ItemHere
    <3> QED BY <3>1 DEF Size, HasPayload
  <2> HIDE DEF a, b
  <2>6. a + 1 = b - 1
    BY <2>1, <2>4, <2>5
  <2> QED BY <2>1, <2>2, <2>3, <2>6 DEF b
<1>16. Progress(off, g + 1)'
  <2>1. Current' = m /\ Len(replies') = k /\ Len(sent') = Len(sent) /\ stack' # <<>>
    BY <1>1, <1>2, <1>6, <1>7 DEF Current
  <2>2. Len(replies') # Len(sent')
    BY <1>2, <2>1, CurrentTyped
  <2>3. (Parsing(Current, c + 1) /\ g + 1 = off[Len(replies) + 1] + Consumed(Current, c + 1))'
    BY <2>1, <1>14, <1>15
  <2>4. (\E d \in 1..Len(Items[Current]) :
            Parsing(Current, d) /\ g + 1 = off[Len(replies) + 1] + Consumed(Current, d))'
    BY <1>4, <2>1, <2>3
  <2> QED BY <2>1, <2>2, <2>4 DEF Progress
<1> QED BY <1>1, <1>16, StaysInStep

(* What each kind of item is made of, and the object it becomes.           *)
LEMMA LineObject ==
    ASSUME NEW off, NEW g, NEW m, NEW c, Here(off, g, m, c), Arrived(1),
           cur.type \in {"status", "error", "integer"}
    PROVE  /\ Elements(m, c) = 0 /\ Size(m, c) = 2
           /\ NodeOf(m, c) = Node(cur.type, Token(1).val)
<1>1. Path = PathOf(m, c) /\ cur.type = TypeOf(m, c) /\ Token(1) = HeaderOf(m, c)
  <2>1. cur.type # Unread
    BY DEF Unread
  <2> QED BY <2>1, PathHere, ItemHere
<1>2. TypeOf(m, c) \notin {"string", "array"}
  BY <1>1
<1>3. ~HasPayload(m, c) /\ Elements(m, c) = 0 /\ Size(m, c) = 2
  BY <1>2 DEF HasPayload, Elements, Size
<1> DEFINE type == TypeOf(m, c)
           h == HeaderOf(m, c)
<1>4. NodeOf(m, c) = [path |-> PathOf(m, c), type |-> type, val |-> h.val]
  BY <1>2, <1>3 DEF NodeOf
<1> QED BY <1>1, <1>3, <1>4 DEF Node

LEMMA NilObject ==
    ASSUME NEW off, NEW g, NEW m, NEW c, Here(off, g, m, c), Arrived(1),
           cur.type \in {"string", "array"}, Token(1).n = -1
    PROVE  /\ Elements(m, c) = 0 /\ Size(m, c) = 2
           /\ NodeOf(m, c) = NilNode
<1>1. Path = PathOf(m, c) /\ cur.type = TypeOf(m, c) /\ Token(1) = HeaderOf(m, c)
  <2>1. cur.type # Unread
    BY DEF Unread
  <2> QED BY <2>1, PathHere, ItemHere
<1>2. TypeOf(m, c) \in {"string", "array"} /\ HeaderOf(m, c).n = -1
  BY <1>1
<1>3. ~HasPayload(m, c) /\ Elements(m, c) = 0 /\ Size(m, c) = 2
  BY <1>2 DEF HasPayload, Elements, Size
<1>4. NodeOf(m, c) = NilNode
  <2>1. (TypeOf(m, c) \in {"string", "array"} /\ HeaderOf(m, c).n = -1) = TRUE
    BY <1>2
  <2>2. HasPayload(m, c) = FALSE
    BY <1>3 DEF HasPayload
  <2> QED BY <1>1, <2>1, <2>2, Zenon DEF NodeOf, NilNode, Node
<1> QED BY <1>3, <1>4

LEMMA PayloadObject ==
    ASSUME NEW off, NEW g, NEW m, NEW c, Here(off, g, m, c), Arrived(1), Arrived(2),
           cur.type = "string", Token(1).val # NotNumber, Token(1).n >= 0
    PROVE  /\ Elements(m, c) = 0 /\ Size(m, c) = 3
           /\ NodeOf(m, c) = Node("string", Token(2).val)
<1>1. Path = PathOf(m, c) /\ cur.type = TypeOf(m, c) /\ Token(1) = HeaderOf(m, c)
  <2>1. cur.type # Unread
    BY DEF Unread
  <2> QED BY <2>1, PathHere, ItemHere
<1>2. HasPayload(m, c) /\ TypeOf(m, c) = "string" /\ HeaderOf(m, c).n # -1
  BY <1>1 DEF HasPayload
<1>3. Elements(m, c) = 0 /\ Size(m, c) = 3
  BY <1>2 DEF Elements, Size
<1> DEFINE x == Encoding[m][Items[m][c].at + 2]
<1>4. Token(2) = x
  <2>1. cur.type # Unread
    BY DEF Unread
  <2> QED BY <1>2, <2>1, ItemHere
<1>5. NodeOf(m, c) = [path |-> PathOf(m, c), type |-> "string", val |-> x.val]
  BY <1>2 DEF NodeOf
<1> HIDE DEF x
<1> QED BY <1>1, <1>3, <1>4, <1>5 DEF Node

LEMMA ArrayObject ==
    ASSUME NEW off, NEW g, NEW m, NEW c, Here(off, g, m, c), Arrived(1),
           cur.type = "array", Token(1).val # NotNumber, Token(1).n >= 0
    PROVE  /\ Elements(m, c) = Token(1).n /\ Size(m, c) = 2
           /\ NodeOf(m, c) = ArrayNode
<1>1. Path = PathOf(m, c) /\ cur.type = TypeOf(m, c) /\ Token(1) = HeaderOf(m, c)
  <2>1. cur.type # Unread
    BY DEF Unread
  <2> QED BY <2>1, PathHere, ItemHere
<1>2. TypeOf(m, c) = "array" /\ HeaderOf(m, c).n >= 0 /\ HeaderOf(m, c).val # NotNumber
  BY <1>1
<1>3. HeaderOf(m, c).n \in Int
  <2>1. HeaderOf(m, c) \in TokenSet
    BY ItemHere, ItemTokens
  <2> QED BY <2>1 DEF TokenSet
<1>4. ~HasPayload(m, c) /\ Size(m, c) = 2
  BY <1>2 DEF HasPayload, Size
<1>5. Elements(m, c) = HeaderOf(m, c).n
  BY <1>2, <1>3 DEF Elements
<1>6. NodeOf(m, c) = ArrayNode
  <2>1. (TypeOf(m, c) \in {"string", "array"} /\ HeaderOf(m, c).n = -1) = FALSE
    BY <1>2, <1>3
  <2>2. (TypeOf(m, c) = "array") = TRUE
    BY <1>2
  <2>3. HasPayload(m, c) = FALSE
    BY <1>4 DEF HasPayload
  <2> QED BY <1>1, <2>1, <2>2, <2>3, Zenon DEF NodeOf, ArrayNode, Node
<1> QED BY <1>1, <1>4, <1>5, <1>6

-----------------------------------------------------------------------------
(* The steps of the parser.                                                *)
LEMMA ReadTypeInStep ==
    ASSUME RInv, SInv, ReadType
    PROVE  SInv'
<1>1. Looping /\ cur.type = Unread /\ Arrived(1)
  BY DEF ReadType
<1>2. PICK off, g, m, c : Here(off, g, m, c)
  BY <1>1, SomewhereHere
<1>3. Token(1).val = TypeOf(m, c)
  BY <1>1, <1>2, ItemHere
<1>4. CASE TypeOf(m, c) \notin Types
  <2>1. SetError("protocol")
    BY <1>3, <1>4 DEF ReadType
  <2>2. ~LegalItem(m, c)
    BY <1>4 DEF LegalItem
  <2> QED BY <1>2, <2>1, <2>2, BlamedItem
<1>5. CASE TypeOf(m, c) \in Types
  <2> DEFINE k == Len(replies)
             top == Len(stack)
             type == TypeOf(m, c)
             t == [stack EXCEPT ![top].type = type]
  <2>1. /\ stack' = t /\ pos' = pos + 1
        /\ UNCHANGED <<sent, wire, buf, reply, err, calling, last, replies>>
    BY <1>3, <1>5 DEF ReadType
  <2>2. /\ RInv /\ Handed /\ off \in Offsets /\ g \in Nat /\ k < Len(sent)
        /\ m = Current /\ m \in Message /\ c \in 1..Len(Items[m]) /\ c \in Nat \ {0}
        /\ Parsing(m, c) /\ g = off[k + 1] + Consumed(m, c)
    BY <1>2 DEF Here, Parsing
  <2>3. stack \in Seq(Task) /\ top \in Nat \ {0} /\ \A i \in 1..top : stack[i] \in Task
    BY <1>2, <2>2, PathHere, IndicesNatural
  <2>4. type \in Types /\ type # Unread
    BY <1>5 DEF Types, Unread
  <2> HIDE DEF type
  <2>5. /\ t \in Seq(Task) /\ Len(t) = top /\ t # <<>>
        /\ \A i \in 1..top : t[i].idx = stack[i].idx /\ t[i].elements = stack[i].elements
        /\ t[top].type = type
    <3>1. stack[top] \in Task
      BY <2>3
    <3> DEFINE x == [stack[top] EXCEPT !.type = type]
    <3>2. x \in Task /\ x.idx = stack[top].idx /\ x.elements = stack[top].elements /\ x.type = type
      BY <2>4, <3>1 DEF Task
    <3>3. t = [stack EXCEPT ![top] = x]
      OBVIOUS
    <3> HIDE DEF x, t
    <3>4. t \in Seq(Task) /\ Len(t) = top /\ t[top] = x /\ \A i \in 1..(top - 1) : t[i] = stack[i]
      BY <2>3, <3>2, <3>3
    <3>5. \A i \in 1..top : i = top \/ i \in 1..(top - 1)
      BY <2>3
    <3>6. t # <<>>
      BY <2>3, <3>4
    <3> QED BY <3>2, <3>4, <3>5, <3>6
  <2> HIDE DEF t
  <2>6. \A i \in 1..top : Place(t, i) = Place(stack, i)
    <3> SUFFICES ASSUME NEW i \in 1..top PROVE Place(t, i) = Place(stack, i)
      OBVIOUS
    <3>1. i \in Nat /\ \A j \in 2..i : t[j].idx = stack[j].idx
      BY <2>3, <2>5
    <3> QED BY <3>1, SamePlace
  <2>7. Place(t, Len(t)) = PathOf(m, c)
    <3>1. top \in 1..top
      BY <2>3
    <3>2. Place(stack, top) = PathOf(m, c)
      BY <2>2 DEF Parsing
    <3> QED BY <2>5, <2>6, <3>1, <3>2
  <2>8. Arrays(m, t)
    <3> SUFFICES ASSUME NEW i \in 1..(top - 1)
                 PROVE  \E b \in 1..Len(Items[m]) :
                           PathOf(m, b) = Place(t, i) /\ Elements(m, b) = t[i].elements
      BY <2>5 DEF Arrays
    <3>1. i \in 1..top /\ i \in 1..(Len(stack) - 1)
      BY <2>3
    <3>2. Place(t, i) = Place(stack, i) /\ t[i].elements = stack[i].elements
      BY <2>5, <2>6, <3>1
    <3>3. Arrays(m, stack)
      BY <2>2 DEF Parsing
    <3> QED BY <3>1, <3>2, <3>3 DEF Arrays
  <2>9. Parsing(m, c)' /\ Consumed(m, c)' = Items[m][c].at
    <3>1. t[Len(t)].type \in {Unread, TypeOf(m, c)} /\ t[Len(t)].type # Unread
      BY <2>4, <2>5 DEF type
    <3>2. /\ \A i \in 1..(c - 1) : LegalItem(m, i)
          /\ reply' = {NodeOf(m, i) : i \in 1..(c - 1)}
      BY <2>1, <2>2 DEF Parsing
    <3> QED BY <2>1, <2>2, <2>5, <2>7, <2>8, <3>1, <3>2 DEF Parsing, Consumed
  <2>10. g + 1 = off[k + 1] + Items[m][c].at
    <3> DEFINE a == Items[m][c].at
    <3>1. a \in Nat
      BY <2>2, MessageTyped
    <3>2. g = off[k + 1] + (a - 1)
      BY <1>1, <2>2 DEF Consumed, cur
    <3>3. off[k + 1] \in Nat
      <4>1. k + 1 \in 1..Len(sent)
        BY <2>2, CurrentTyped
      <4> QED BY <2>2, <4>1, OffsetsAre
    <3> HIDE DEF a
    <3>4. g + 1 = off[k + 1] + a
      BY <3>1, <3>2, <3>3
    <3> QED BY <3>4 DEF a
  <2>11. Progress(off, g + 1)'
    <3>1. Current' = m /\ Len(replies') = k /\ Len(sent') = Len(sent) /\ stack' # <<>>
      BY <2>1, <2>2, <2>5 DEF Current
    <3>2. Len(replies') # Len(sent')
      BY <2>2, <3>1, CurrentTyped
    <3>3. (Parsing(Current, c) /\ g + 1 = off[Len(replies) + 1] + Consumed(Current, c))'
      BY <2>9, <2>10, <3>1
    <3>4. (\E d \in 1..Len(Items[Current]) :
              Parsing(Current, d) /\ g + 1 = off[Len(replies) + 1] + Consumed(Current, d))'
      BY <2>2, <3>1, <3>3
    <3> QED BY <3>1, <3>2, <3>4 DEF Progress
  <2> QED BY <1>1, <1>2, <2>1, <2>11, StaysInStep
<1> QED BY <1>4, <1>5

LEMMA LineInStep ==
    ASSUME RInv, SInv, Line
    PROVE  SInv'
<1>1. Looping /\ cur.type \in {"status", "error", "integer"} /\ Arrived(1) /\ cur.type # Unread
  BY DEF Line, Unread
<1>2. PICK off, g, m, c : Here(off, g, m, c)
  BY <1>1, SomewhereHere
<1>3. cur.type = TypeOf(m, c) /\ Token(1) = HeaderOf(m, c)
  BY <1>1, <1>2, ItemHere
<1>4. CASE cur.type = "integer" /\ Token(1).val = NotNumber
  <2>1. SetError("protocol")
    BY <1>4 DEF Line
  <2>2. ~LegalItem(m, c)
    BY <1>3, <1>4 DEF LegalItem
  <2> QED BY <1>2, <2>1, <2>2, BlamedItem
<1>5. CASE ~(cur.type = "integer" /\ Token(1).val = NotNumber)
  <2>1. Finish(Node(cur.type, Token(1).val), 1)
    BY <1>5 DEF Line
  <2>2. /\ Elements(m, c) = 0 /\ Size(m, c) = 1 + 1
        /\ NodeOf(m, c) = Node(cur.type, Token(1).val)
    BY <1>1, <1>2, LineObject
  <2>3. LegalItem(m, c)
    BY <1>1, <1>3, <1>5 DEF LegalItem, Types
  <2> QED BY <1>1, <1>2, <2>1, <2>2, <2>3, FinishInStep DEF Looping
<1> QED BY <1>4, <1>5

LEMMA BulkInStep ==
    ASSUME RInv, SInv, Bulk
    PROVE  SInv'
<1>1. Looping /\ calling /\ cur.type = "string" /\ Arrived(1) /\ cur.type # Unread
  BY DEF Bulk, Unread, Looping
<1>2. PICK off, g, m, c : Here(off, g, m, c)
  BY <1>1, SomewhereHere
<1>3. cur.type = TypeOf(m, c) /\ Token(1) = HeaderOf(m, c) /\ TypeOf(m, c) = "string"
  BY <1>1, <1>2, ItemHere
<1>4. Token(1).n \in Int
  BY <1>1, TokenType DEF TokenSet
<1>5. \/ (Token(1).val = NotNumber \/ Token(1).n < -1) /\ SetError("protocol")
      \/ Token(1).val # NotNumber /\ Token(1).n = -1 /\ Finish(NilNode, 1)
      \/ /\ Token(1).val # NotNumber /\ Token(1).n >= 0 /\ Arrived(2)
         /\ Finish(Node("string", Token(2).val), 2)
  BY DEF Bulk, NilNode
<1>6. CASE (Token(1).val = NotNumber \/ Token(1).n < -1) /\ SetError("protocol")
  <2>1. ~LegalItem(m, c)
    BY <1>3, <1>4, <1>6 DEF LegalItem
  <2> QED BY <1>2, <1>6, <2>1, BlamedItem
<1>7. CASE Token(1).val # NotNumber /\ Token(1).n = -1 /\ Finish(NilNode, 1)
  <2>1. Elements(m, c) = 0 /\ Size(m, c) = 1 + 1 /\ NodeOf(m, c) = NilNode
    BY <1>1, <1>2, <1>7, NilObject
  <2>2. LegalItem(m, c)
    BY <1>3, <1>7 DEF LegalItem, Types
  <2>3. Finish(NodeOf(m, c), 1)
    BY <1>7, <2>1
  <2> QED BY <1>1, <1>2, <2>1, <2>2, <2>3, FinishInStep
<1>8. CASE /\ Token(1).val # NotNumber /\ Token(1).n >= 0 /\ Arrived(2)
           /\ Finish(Node("string", Token(2).val), 2)
  <2>1. /\ Elements(m, c) = 0 /\ Size(m, c) = 2 + 1
        /\ NodeOf(m, c) = Node("string", Token(2).val)
    BY <1>1, <1>2, <1>8, PayloadObject
  <2>2. LegalItem(m, c)
    BY <1>3, <1>4, <1>8 DEF LegalItem, Types
  <2>3. Finish(NodeOf(m, c), 2)
    BY <1>8, <2>1
  <2> QED BY <1>1, <1>2, <1>8, <2>1, <2>2, <2>3, FinishInStep
<1> QED BY <1>5, <1>6, <1>7, <1>8

LEMMA MultiBulkInStep ==
    ASSUME RInv, SInv, MultiBulk
    PROVE  SInv'
<1>1. Looping /\ calling /\ cur.type = "array" /\ cur.type # Unread
  BY DEF MultiBulk, Unread, Looping
<1>2. PICK off, g, m, c : Here(off, g, m, c)
  BY <1>1, SomewhereHere
<1>3. /\ TypeOf(m, c) = "array" /\ (Arrived(1) => Token(1) = HeaderOf(m, c))
      /\ ridx = Len(PathOf(m, c))
  BY <1>1, <1>2, ItemHere, PathHere
<1>4. Arrived(1) => Token(1).n \in Int
  BY TokenType DEF TokenSet
<1>5. \/ TooDeep /\ SetError("protocol")
      \/ /\ Arrived(1) /\ (Token(1).val = NotNumber \/ Token(1).n < -1)
         /\ SetError("protocol")
      \/ /\ ~TooDeep /\ Arrived(1) /\ Token(1).val # NotNumber
         /\ \/ Token(1).n = -1 /\ Finish(NilNode, 1)
            \/ Token(1).n = 0 /\ Finish(ArrayNode, 1)
            \/ Token(1).n > 0 /\ Descend(Token(1).n)
  BY DEF MultiBulk, NilNode, ArrayNode
<1>6. CASE TooDeep /\ SetError("protocol")
  <2>1. ~LegalItem(m, c)
    BY <1>3, <1>6 DEF LegalItem, TooDeep
  <2> QED BY <1>2, <1>6, <2>1, BlamedItem
<1>7. CASE /\ Arrived(1) /\ (Token(1).val = NotNumber \/ Token(1).n < -1)
           /\ SetError("protocol")
  <2>1. ~LegalItem(m, c)
    BY <1>3, <1>4, <1>7 DEF LegalItem
  <2> QED BY <1>2, <1>7, <2>1, BlamedItem
<1>8. ASSUME ~TooDeep, Arrived(1), Token(1).val # NotNumber, Token(1).n >= -1
      PROVE  LegalItem(m, c)
  BY <1>3, <1>8 DEF LegalItem, TooDeep, Types
<1>9. CASE /\ ~TooDeep /\ Arrived(1) /\ Token(1).val # NotNumber
           /\ Token(1).n = -1 /\ Finish(NilNode, 1)
  <2>1. Elements(m, c) = 0 /\ Size(m, c) = 1 + 1 /\ NodeOf(m, c) = NilNode
    BY <1>1, <1>2, <1>9, NilObject
  <2>2. LegalItem(m, c) /\ Finish(NodeOf(m, c), 1)
    BY <1>8, <1>9, <2>1
  <2> QED BY <1>1, <1>2, <1>9, <2>1, <2>2, FinishInStep
<1>10. CASE /\ ~TooDeep /\ Arrived(1) /\ Token(1).val # NotNumber
            /\ Token(1).n = 0 /\ Finish(ArrayNode, 1)
  <2>1. Elements(m, c) = 0 /\ Size(m, c) = 1 + 1 /\ NodeOf(m, c) = ArrayNode
    BY <1>1, <1>2, <1>10, ArrayObject
  <2>2. LegalItem(m, c) /\ Finish(NodeOf(m, c), 1)
    BY <1>8, <1>10, <2>1
  <2> QED BY <1>1, <1>2, <1>10, <2>1, <2>2, FinishInStep
<1>11. CASE /\ ~TooDeep /\ Arrived(1) /\ Token(1).val # NotNumber
            /\ Token(1).n > 0 /\ Descend(Token(1).n)
  <2>1. Token(1).n >= 0 /\ Token(1).n >= -1 /\ Token(1).n \in Int
    BY <1>4, <1>11
  <2>2. Elements(m, c) = Token(1).n /\ NodeOf(m, c) = ArrayNode
    BY <1>1, <1>2, <1>11, <2>1, ArrayObject
  <2>3. LegalItem(m, c)
    BY <1>8, <1>11, <2>1
  <2> QED BY <1>1, <1>2, <1>11, <2>1, <2>2, <2>3, DescendInStep
<1> QED BY <1>5, <1>6, <1>7, <1>9, <1>10, <1>11

LEMMA OutOfMemoryInStep ==
    ASSUME SInv, MayFail, SetError("oom")
    PROVE  SInv'
BY ErrorInStep

-----------------------------------------------------------------------------
(* The steps of the server, the socket and the caller.                     *)

\* The parser that is about to read a reply is at its first item.
LEMMA RootIsFirst ==
    ASSUME NEW m \in Message, stack' = <<RootTask>>, reply' = {}
    PROVE  Parsing(m, 1)' /\ Consumed(m, 1)' = 0 /\ 1 \in 1..Len(Items[m])
<1> DEFINE t == <<RootTask>>
<1>1. /\ t # <<>> /\ Len(t) = 1 /\ t[Len(t)] = RootTask /\ RootTask.type = Unread
      /\ 1 \in 1..Len(Items[m]) /\ Items[m][1].at = 1
  <2>1. t # <<>> /\ Len(t) = 1 /\ t[Len(t)] = RootTask /\ RootTask.type = Unread
    BY DEF RootTask
  <2>2. Len(Items[m]) \in Nat \ {0} /\ Items[m][1].at = 1
    BY MessageTyped, LayoutIs DEF Successive
  <2> HIDE DEF t
  <2> QED BY <2>1, <2>2
<1>2. Place(t, Len(t)) = PathOf(m, 1)
  <2>1. Place(t, 1) = <<>>
    <3>1. Place(t, 1) \in Seq(Nat) /\ Len(Place(t, 1)) = 0
      <4>1. \A i \in 2..1 : t[i].idx \in Nat
        OBVIOUS
      <4>2. 1 \in Nat \ {0} /\ 1 - 1 = 0
        OBVIOUS
      <4> HIDE DEF t
      <4> QED BY <4>1, <4>2, PlaceIs
    <3> DEFINE q == Place(t, 1)
    <3> HIDE DEF q, t
    <3>2. q = <<>>
      BY <3>1, EmptySeq DEF q
    <3> QED BY <3>2 DEF q
  <2> HIDE DEF t
  <2> QED BY <1>1, <2>1, RootPath
<1> HIDE DEF t
<1>3. Arrays(m, t)
  BY <1>1 DEF Arrays
<1>4. stack' = t
  BY DEF t
<1>5. 1..(1 - 1) = {}
  OBVIOUS
<1>6. {NodeOf(m, i) : i \in 1..(1 - 1)} = {} /\ \A i \in 1..(1 - 1) : LegalItem(m, i)
  BY <1>5
<1> QED BY <1>1, <1>2, <1>3, <1>4, <1>6 DEF Parsing, Consumed

LEMMA GetReplyInStep ==
    ASSUME RInv, SInv, GetReply
    PROVE  SInv'
<1>1. ~calling /\ UNCHANGED <<sent, wire, buf, pos, reply, err, replies>>
  BY DEF GetReply
<1>2. Current' = Current /\ Handed' /\ Handed
  BY <1>1 DEF Current, SInv, Handed
<1>3. stack' = stack \/ (err = "none" /\ stack = <<>> /\ stack' = <<RootTask>> /\ calling')
  BY DEF GetReply
<1>4. Blamed'
  BY <1>1, <1>2, <1>3 DEF SInv, Blamed
<1>5. ASSUME err = "none" PROVE InStep'
  <2>1. PICK off \in Offsets : \E g \in Nat : InTransit(off, g) /\ Progress(off, g)
    BY <1>5 DEF SInv, InStep
  <2>2. PICK g \in Nat : InTransit(off, g) /\ Progress(off, g)
    BY <2>1
  <2>3. off \in Offsets'
    BY <1>1 DEF Offsets
  <2>4. InTransit(off, g)'
    <3>1. Left' = Left /\ \A j \in 1..Left : Ahead(j)' = Ahead(j)
      BY <1>1 DEF Left, Ahead
    <3> QED BY <1>1, <1>2, <2>2, <3>1, SameTransit
  <2>5. CASE stack' = stack /\ calling' = calling
    <3>1. Progress(off, g)'
      BY <1>1, <1>2, <2>2, <2>5 DEF Progress, Parsing, Consumed
    <3> QED BY <2>3, <2>4, <3>1 DEF InStep
  <2>6. CASE stack' = stack /\ stack # <<>>
    <3>1. Progress(off, g)'
      BY <1>1, <1>2, <2>2, <2>6 DEF Progress, Parsing, Consumed
    <3> QED BY <2>3, <2>4, <3>1 DEF InStep
  <2>7. CASE stack = <<>> /\ stack' = <<RootTask>> /\ calling'
    <3> DEFINE k == Len(replies)
    <3>1. reply = {} /\ g = off[k + 1]
      BY <1>1, <2>2, <2>7 DEF RInv, Progress
    <3>2. stack' # <<>>
      BY <2>7
    <3>3. CASE k = Len(sent)
      <4>1. ~(k < Len(sent))
        BY <1>2, <3>3, CurrentTyped
      <4>2. Progress(off, g)'
        BY <1>1, <2>7, <3>1, <3>2, <4>1 DEF Progress
      <4> QED BY <2>3, <2>4, <4>2 DEF InStep
    <3>4. CASE k < Len(sent)
      <4>1. PICK m \in Message : m = Current
        BY <1>2, <3>4, CurrentTyped
      <4>2. Parsing(m, 1)' /\ Consumed(m, 1)' = 0 /\ 1 \in 1..Len(Items[m])
        BY <1>1, <2>7, <3>1, RootIsFirst
      <4>3. k + 1 \in 1..Len(sent) /\ off[k + 1] \in Nat
        BY <1>2, <3>4, CurrentTyped, OffsetsAre
      <4>4. g = off[k + 1] + 0
        BY <3>1, <4>3
      <4>5. (Parsing(Current, 1) /\ g = off[Len(replies) + 1] + Consumed(Current, 1))'
        BY <1>1, <1>2, <4>1, <4>2, <4>4
      <4>6. (\E d \in 1..Len(Items[Current]) :
                Parsing(Current, d) /\ g = off[Len(replies) + 1] + Consumed(Current, d))'
        BY <1>2, <4>1, <4>2, <4>5
      <4>7. k # Len(sent)
        BY <1>2, <3>4, CurrentTyped
      <4>8. Progress(off, g)'
        BY <1>1, <3>2, <4>6, <4>7 DEF Progress
      <4> QED BY <2>3, <2>4, <4>8 DEF InStep
    <3> QED BY <1>2, <3>3, <3>4, CurrentTyped DEF Handed
  <2>8. \/ stack' = stack /\ calling' = calling
        \/ stack' = (IF stack = <<>> THEN <<RootTask>> ELSE stack) /\ calling'
    BY DEF GetReply
  <2>9. CASE stack = <<>>
    BY <2>5, <2>7, <2>8, <2>9
  <2>10. CASE stack # <<>>
    BY <2>5, <2>6, <2>8, <2>10
  <2> QED BY <2>9, <2>10
<1>6. InStep'
  BY <1>1, <1>5 DEF InStep
<1> QED BY <1>2, <1>4, <1>6 DEF SInv

LEMMA ReturnInStep ==
    ASSUME RInv, SInv, Return
    PROVE  SInv'
<1>1. calling /\ calling' = FALSE /\ UNCHANGED <<sent, wire, stack, err>>
  BY DEF Return
<1>2. CASE err # "none" /\ UNCHANGED <<reply, replies>>
  <2>1. Current' = Current
    BY <1>1, <1>2 DEF Current
  <2> QED BY <1>1, <1>2, <2>1 DEF SInv, Handed, Blamed, InStep
<1>3. CASE err = "none"
  <2> DEFINE k == Len(replies)
  <2>1. PICK off \in Offsets : \E g \in Nat : InTransit(off, g) /\ Progress(off, g)
    BY <1>3 DEF SInv, InStep
  <2>2. PICK g \in Nat : InTransit(off, g) /\ Progress(off, g)
    BY <2>1
  <2>3. off \in Offsets' /\ Handed
    BY <1>1 DEF Offsets, SInv
  <2>4. InTransit(off, g)'
    <3> DEFINE b == Len(buf)
               s == SubSeq(buf, pos + 1, b)
    <3>1. /\ buf \in Seq(TokenSet) /\ b \in Nat /\ Len(wire) \in Nat
          /\ pos \in Nat /\ pos <= b
      BY BufferTyped
    <3>2. CASE buf' = s /\ pos' = 0
      <4>1. /\ Len(s) = b - pos
            /\ \A i \in 1..(b - pos) : s[i] = buf[pos + i]
        <5>1. pos + 1 \in 1..(b + 1) /\ b \in pos..b
          BY <3>1
        <5>2. \A i \in (pos + 1)..b : buf[i] \in TokenSet
          BY <3>1
        <5> HIDE DEF b
        <5>3. Len(s) = (IF pos + 1 <= b THEN b - (pos + 1) + 1 ELSE 0)
              /\ \A i \in 1..(b - (pos + 1) + 1) : s[i] = buf[(pos + 1) + i - 1]
          BY <3>1, <5>1, <5>2, SubSeqProperties DEF b
        <5>4. b - (pos + 1) + 1 = b - pos
          BY <3>1
        <5>5. \A i \in 1..(b - pos) : (pos + 1) + i - 1 = pos + i
          BY <3>1
        <5>6. Len(s) = b - pos
          BY <3>1, <5>3
        <5> HIDE DEF s
        <5> QED BY <5>3, <5>4, <5>5, <5>6
      <4> HIDE DEF s, b
      <4>2. Left' = Left
        <5>1. Left' = Len(s) - 0 + Len(wire) /\ Left = b - pos + Len(wire)
          BY <1>1, <3>2 DEF Left, b
        <5> QED BY <3>1, <4>1, <5>1
      <4>3. ASSUME NEW j \in 1..Left PROVE Ahead(j)' = Ahead(j)
        <5>0. j \in Nat \ {0}
          BY BufferTyped
        <5>1. Ahead(j) = IF j <= b - pos THEN buf[pos + j] ELSE wire[j - (b - pos)]
          BY DEF Ahead, b
        <5>2. Ahead(j)' = IF j <= Len(s) - 0 THEN s[0 + j] ELSE wire[j - (Len(s) - 0)]
          BY <1>1, <3>2 DEF Ahead
        <5>3. Len(s) - 0 = b - pos /\ 0 + j = j
          BY <3>1, <4>1, <5>0
        <5>4. j <= b - pos => s[j] = buf[pos + j]
          BY <3>1, <4>1, <5>0
        <5> QED BY <5>1, <5>2, <5>3, <5>4
      <4> QED BY <1>1, <2>2, <2>3, <4>2, <4>3, SameTransit
    <3>3. CASE UNCHANGED <<buf, pos>>
      <4>1. Left' = Left /\ \A j \in 1..Left : Ahead(j)' = Ahead(j)
        BY <1>1, <3>3 DEF Left, Ahead
      <4> QED BY <1>1, <2>2, <2>3, <4>1, SameTransit
    <3> QED BY <1>3, <3>2, <3>3 DEF Return
  <2>5. CASE stack = <<>>
    <3>1. replies' = Append(replies, reply)
      BY <1>3, <2>5 DEF Return
    <3>2. k < Len(sent) /\ g = off[k + 2] /\ reply = Meaning[Current]
      BY <1>1, <2>2, <2>5 DEF Progress
    <3>3. k \in Nat /\ Len(sent) \in Nat /\ Current \in Message /\ Current = sent[k + 1]
      BY <2>3, <3>2, CurrentTyped DEF Current
    <3> DEFINE R == {Meaning[m] : m \in Message}
    <3>4. reply \in R
      BY <3>2, <3>3
    <3>5. replies \in Seq(R) /\ \A i \in 1..k : replies[i] = Meaning[sent[i]]
      BY <2>3 DEF Handed
    <3> HIDE DEF R
    <3>6. /\ replies' \in Seq(R) /\ Len(replies') = k + 1 /\ replies'[k + 1] = reply
          /\ \A i \in 1..k : replies'[i] = replies[i]
      BY <3>1, <3>4, <3>5, AppendProperties
    <3>7. \A i \in 1..Len(replies') : replies'[i] = Meaning[sent[i]]
      <4>1. \A i \in 1..(k + 1) : i = k + 1 \/ i \in 1..k
        BY <3>3
      <4> QED BY <3>2, <3>3, <3>5, <3>6, <4>1
    <3>8. Len(replies') <= Len(sent)
      BY <3>2, <3>3, <3>6
    <3>9. Handed'
      BY <1>1, <2>3, <3>6, <3>7, <3>8 DEF Handed, R
    <3>10. Blamed'
      BY <1>1, <1>3 DEF Blamed
    <3>11. (k + 1) + 1 = k + 2
      BY <3>3
    <3>12. Progress(off, g)'
      BY <1>1, <2>5, <3>2, <3>6, <3>11 DEF Progress
    <3> QED BY <2>3, <2>4, <3>9, <3>10, <3>12 DEF SInv, InStep
  <2>6. CASE stack # <<>>
    <3>1. UNCHANGED <<reply, replies>>
      BY <1>3, <2>6 DEF Return
    <3>2. Current' = Current /\ Handed' /\ Blamed'
      BY <1>1, <1>3, <2>3, <3>1 DEF Current, Handed, Blamed
    <3>3. Progress(off, g)'
      BY <1>1, <2>2, <2>6, <3>1, <3>2 DEF Progress, Parsing, Consumed
    <3> QED BY <2>3, <2>4, <3>2, <3>3 DEF SInv, InStep
  <2> QED BY <2>5, <2>6
<1> QED BY <1>2, <1>3 DEF Return

LEMMA FeedInStep ==
    ASSUME RInv, SInv, NEW n \in 1..Len(wire), Feed(n)
    PROVE  SInv'
<1>1. CASE MayFail /\ SetError("oom")
  BY <1>1, ErrorInStep
<1>2. CASE err # "none" /\ UNCHANGED <<sent, stack, err, replies>>
  <2>1. Current' = Current
    BY <1>2 DEF Current
  <2> QED BY <1>2, <2>1 DEF SInv, Handed, Blamed, InStep
<1>3. CASE /\ err = "none"
           /\ buf' = buf \o SubSeq(wire, 1, n)
           /\ wire' = SubSeq(wire, n + 1, Len(wire))
           /\ UNCHANGED <<sent, pos, stack, reply, err, calling, replies>>
  <2> DEFINE b == Len(buf)
             w == Len(wire)
             s == SubSeq(wire, 1, n)
             t == SubSeq(wire, n + 1, w)
             u == buf \o s
  <2>1. PICK off \in Offsets : \E g \in Nat : InTransit(off, g) /\ Progress(off, g)
    BY <1>3 DEF SInv, InStep
  <2>2. PICK g \in Nat : InTransit(off, g) /\ Progress(off, g)
    BY <2>1
  <2>3. Current' = Current /\ Handed /\ Handed' /\ Blamed' /\ off \in Offsets'
    BY <1>3 DEF Current, SInv, Handed, Blamed, Offsets
  <2>4. /\ buf \in Seq(TokenSet) /\ wire \in Seq(TokenSet) /\ b \in Nat /\ w \in Nat
        /\ pos \in Nat /\ pos <= b
    BY BufferTyped
  <2>5. /\ s \in Seq(TokenSet) /\ Len(s) = n /\ \A i \in 1..n : s[i] = wire[i]
        /\ Len(t) = w - n /\ \A i \in 1..(w - n) : t[i] = wire[n + i]
    <3>1. n \in 1..w /\ n \in Nat
      BY <2>4
    <3>2. (\A i \in 1..n : wire[i] \in TokenSet) /\ (\A i \in (n + 1)..w : wire[i] \in TokenSet)
      BY <2>4, <3>1
    <3>3. /\ s \in Seq(TokenSet) /\ Len(s) = (IF 1 <= n THEN n - 1 + 1 ELSE 0)
          /\ \A i \in 1..(n - 1 + 1) : s[i] = wire[1 + i - 1]
      BY <3>1, <3>2, SubSeqProperties
    <3>4. /\ Len(t) = (IF n + 1 <= w THEN w - (n + 1) + 1 ELSE 0)
          /\ \A i \in 1..(w - (n + 1) + 1) : t[i] = wire[(n + 1) + i - 1]
      <4> HIDE DEF w
      <4>1. n + 1 \in Int /\ w \in Int
        BY <2>4, <3>1
      <4> QED BY <3>2, <4>1, SubSeqProperties
    <3> HIDE DEF s, t, w
    <3>5. Len(s) = n /\ \A i \in 1..n : s[i] = wire[i]
      BY <3>1, <3>3
    <3>6. Len(t) = w - n
      BY <2>4, <3>1, <3>4
    <3>7. \A i \in 1..(w - n) : t[i] = wire[n + i]
      <4>1. w - (n + 1) + 1 = w - n
        BY <2>4, <3>1
      <4>2. \A i \in 1..(w - n) : (n + 1) + i - 1 = n + i
        BY <2>4, <3>1
      <4> QED BY <3>4, <4>1, <4>2
    <3> QED BY <3>3, <3>5, <3>6, <3>7
  <2> HIDE DEF s, t
  <2>6. Len(u) = b + n /\ \A i \in 1..(b + n) : u[i] = IF i <= b THEN buf[i] ELSE s[i - b]
    <3>1. /\ Len(u) = Len(buf) + Len(s)
          /\ \A i \in 1..(Len(buf) + Len(s)) : u[i] = IF i <= Len(buf) THEN buf[i] ELSE s[i - Len(buf)]
      BY <2>4, <2>5, ConcatProperties
    <3> HIDE DEF u
    <3> QED BY <2>5, <3>1
  <2>7. buf' = u /\ wire' = t /\ pos' = pos
    BY <1>3 DEF s, t
  <2> HIDE DEF u
  <2>8. n \in Nat /\ n <= w
    BY <2>4
  <2>9. Left = b - pos + w
    BY DEF Left
  <2>10. Left' = Left
    <3>1. Left' = Len(u) - pos + Len(t)
      BY <2>7 DEF Left
    <3> HIDE DEF b, w
    <3> QED BY <2>4, <2>5, <2>6, <2>8, <2>9, <3>1
  <2>11. ASSUME NEW j \in 1..Left PROVE Ahead(j)' = Ahead(j)
    <3>1. Ahead(j) = IF j <= b - pos THEN buf[pos + j] ELSE wire[j - (b - pos)]
      BY DEF Ahead
    <3>2. Ahead(j)' = IF j <= Len(u) - pos THEN u[pos + j] ELSE t[j - (Len(u) - pos)]
      BY <2>7 DEF Ahead
    <3>3. j \in Nat \ {0} /\ j <= Left
      BY BufferTyped
    <3> HIDE DEF b, w
    <3>4. CASE j <= b - pos
      <4>1. pos + j \in 1..(b + n) /\ pos + j <= b /\ j <= Len(u) - pos
        BY <2>4, <2>6, <2>8, <3>3, <3>4
      <4> QED BY <2>6, <3>1, <3>2, <3>4, <4>1
    <3>5. CASE j > b - pos /\ j <= b - pos + n
      <4>1. /\ pos + j \in 1..(b + n) /\ ~(pos + j <= b) /\ j <= Len(u) - pos
            /\ (pos + j) - b = j - (b - pos) /\ j - (b - pos) \in 1..n
            /\ ~(j <= b - pos)
        BY <2>4, <2>6, <2>8, <3>3, <3>5
      <4>2. u[pos + j] = s[(pos + j) - b]
        BY <2>6, <4>1
      <4>3. s[j - (b - pos)] = wire[j - (b - pos)]
        BY <2>5, <4>1
      <4> QED BY <3>1, <3>2, <4>1, <4>2, <4>3
    <3>6. CASE j > b - pos + n
      <4>1. /\ ~(j <= Len(u) - pos) /\ ~(j <= b - pos)
            /\ j - (Len(u) - pos) \in 1..(w - n)
            /\ n + (j - (Len(u) - pos)) = j - (b - pos)
        BY <2>4, <2>6, <2>8, <2>9, <3>3, <3>6
      <4>2. t[j - (Len(u) - pos)] = wire[n + (j - (Len(u) - pos))]
        BY <2>5, <4>1
      <4> QED BY <3>1, <3>2, <4>1, <4>2
    <3> QED BY <2>4, <2>8, <3>3, <3>4, <3>5, <3>6
  <2>12. InTransit(off, g)'
    BY <1>3, <2>2, <2>3, <2>10, <2>11, SameTransit
  <2>13. Progress(off, g)'
    BY <1>3, <2>2, <2>3 DEF Progress, Parsing, Consumed
  <2> QED BY <2>3, <2>12, <2>13 DEF SInv, InStep
<1> QED BY <1>1, <1>2, <1>3 DEF Feed

LEMMA SendInStep ==
    ASSUME RInv, SInv, NEW m \in Message, Send(m)
    PROVE  SInv'
<1> DEFINE n == Len(sent)
           k == Len(replies)
           E == Encoding[m]
           l == Len(E)
           s == Append(sent, m)
<1>1. /\ sent' = s /\ wire' = wire \o E
      /\ UNCHANGED <<buf, pos, stack, reply, err, calling, last, replies>>
  BY DEF Send
<1>2. /\ Handed /\ n \in Nat /\ k \in Nat /\ k <= n /\ E \in Seq(TokenSet) /\ l \in Nat
  BY CurrentTyped, MessageTyped DEF SInv, Handed
<1>3. /\ s \in Seq(Message) /\ Len(s) = n + 1 /\ s[n + 1] = m
      /\ \A i \in 1..n : s[i] = sent[i]
  BY <1>2, AppendProperties DEF Handed
<1> HIDE DEF s, E, l
<1>4. k < n => Current' = Current
  <2>1. k < n => k + 1 \in 1..n
    BY <1>2
  <2> QED BY <1>1, <1>3, <2>1 DEF Current
<1>5. Handed'
  <2>1. replies \in Seq({Meaning[x] : x \in Message})
    BY <1>2 DEF Handed
  <2>2. k <= Len(s)
    BY <1>2, <1>3
  <2>3. \A i \in 1..k : replies[i] = Meaning[s[i]]
    <3>1. \A i \in 1..k : i \in 1..n
      BY <1>2
    <3> QED BY <1>2, <1>3, <3>1 DEF Handed
  <2> QED BY <1>1, <1>3, <2>1, <2>2, <2>3 DEF Handed
<1>6. Blamed'
  <2>1. /\ err = "protocol" => k < n /\ Current \notin WellFormed
        /\ err = "oom" => MayFail
        /\ err # "none" => stack = <<>>
    BY DEF SInv, Blamed
  <2>2. k < n => k < n + 1
    BY <1>2
  <2> QED BY <1>1, <1>3, <1>4, <2>1, <2>2 DEF Blamed
<1>7. ASSUME err = "none" PROVE InStep'
  <2>1. PICK off \in Offsets : \E g \in Nat : InTransit(off, g) /\ Progress(off, g)
    BY <1>7 DEF SInv, InStep
  <2>2. PICK g \in Nat : InTransit(off, g) /\ Progress(off, g)
    BY <2>1
  <2> DEFINE T == off[n + 1]
  <2>3. /\ \A i \in 1..(n + 1) : off[i] \in Nat
        /\ off[1] = 0
        /\ \A i \in 1..n : /\ off[i + 1] = off[i] + Len(Encoding[sent[i]])
                           /\ off[i + 1] <= T
                           /\ Len(Encoding[sent[i]]) \in Nat
    BY <1>2, OffsetsAre DEF Offsets
  <2>4. PICK f : f = [i \in 1..(n + 2) |-> IF i <= n + 1 THEN off[i] ELSE T + l]
    OBVIOUS
  <2>5. T \in Nat /\ T = g + Left /\ Left \in Nat
    <3>1. n + 1 \in 1..(n + 1)
      BY <1>2
    <3> QED BY <2>2, <2>3, <3>1, BufferTyped DEF InTransit
  <2>6. /\ \A i \in 1..(n + 1) : f[i] = off[i]
        /\ f[n + 2] = T + l
        /\ f \in [1..(n + 2) -> Nat]
    <3> HIDE DEF T, n
    <3>1. \A i \in 1..(n + 1) : i \in 1..(n + 2) /\ i <= n + 1
      BY <1>2 DEF n
    <3>2. n + 2 \in 1..(n + 2) /\ ~(n + 2 <= n + 1)
      BY <1>2 DEF n
    <3>3. \A i \in 1..(n + 2) : i <= n + 1 => i \in 1..(n + 1)
      BY <1>2 DEF n
    <3>4. (\A i \in 1..(n + 1) : off[i] \in Nat) /\ T + l \in Nat
      BY <1>2, <2>3, <2>5 DEF n
    <3> QED BY <2>4, <3>1, <3>2, <3>3, <3>4
  <2> HIDE DEF T
  <2>7. \A i \in 1..(n + 1) : /\ f[i + 1] = f[i] + Len(Encoding[s[i]])
                              /\ f[i + 1] <= f[n + 2]
    <3> SUFFICES ASSUME NEW i \in 1..(n + 1)
                 PROVE  f[i + 1] = f[i] + Len(Encoding[s[i]]) /\ f[i + 1] <= f[n + 2]
      OBVIOUS
    <3>1. CASE i = n + 1
      <4>1. i + 1 = n + 2 /\ f[i] = T /\ s[i] = m
        BY <1>2, <1>3, <2>6, <3>1 DEF T
      <4>2. Len(Encoding[s[i]]) = l
        BY <4>1 DEF E, l
      <4>3. f[i + 1] = T + l /\ T + l \in Nat
        BY <1>2, <2>5, <2>6, <4>1
      <4> QED BY <2>6, <4>1, <4>2, <4>3
    <3>2. CASE i # n + 1
      <4>1. i \in 1..n /\ i + 1 \in 1..(n + 1)
        BY <1>2, <3>2
      <4>2. f[i + 1] = off[i + 1] /\ f[i] = off[i] /\ s[i] = sent[i]
        BY <1>3, <2>6, <4>1
      <4>3. off[i + 1] \in Nat /\ off[i + 1] <= T
        BY <2>3, <4>1
      <4> QED BY <1>2, <2>3, <2>5, <2>6, <4>1, <4>2, <4>3
    <3> QED BY <3>1, <3>2
  <2>8. f \in Offsets'
    <3>1. f[1] = 0
      BY <1>2, <2>3, <2>6
    <3>2. (n + 1) + 1 = n + 2
      BY <1>2
    <3> HIDE DEF n
    <3>3. Len(sent') = n + 1 /\ sent' = s
      BY <1>1, <1>3
    <3>4. Offsets' = {o \in [1..(Len(sent') + 1) -> Nat] :
                        /\ o[1] = 0
                        /\ \A i \in 1..Len(sent') : /\ o[i + 1] = o[i] + Len(Encoding[sent'[i]])
                                                  /\ o[i + 1] <= o[Len(sent') + 1]}
      BY DEF Offsets
    <3> QED BY <2>6, <2>7, <3>1, <3>2, <3>3, <3>4
  <2>9. InTransit(f, g)'
    <3> DEFINE b == Len(buf)
               w == Len(wire)
               e == wire \o E
    <3>1. b \in Nat /\ w \in Nat /\ pos \in Nat /\ pos <= b /\ wire \in Seq(TokenSet)
      BY BufferTyped
    <3>2. /\ Len(e) = w + l
          /\ \A i \in 1..(w + l) : e[i] = IF i <= w THEN wire[i] ELSE E[i - w]
      BY <1>2, <3>1, ConcatProperties DEF l
    <3>3. wire' = e
      BY <1>1
    <3> HIDE DEF e, b, w
    <3>4. Left = b - pos + w /\ Left' = b - pos + (w + l)
      BY <1>1, <3>2, <3>3 DEF Left, b, w
    <3>5. \A j : /\ Ahead(j) = IF j <= b - pos THEN buf[pos + j] ELSE wire[j - (b - pos)]
                 /\ Ahead(j)' = IF j <= b - pos THEN buf[pos + j] ELSE e[j - (b - pos)]
      BY <1>1, <3>3 DEF Ahead, b
    <3>6. ASSUME NEW j \in 1..Left PROVE Ahead(j)' = Ahead(j)
      <4>1. CASE j <= b - pos
        BY <3>5, <4>1
      <4>2. CASE ~(j <= b - pos)
        <5>1. j - (b - pos) \in 1..(w + l) /\ j - (b - pos) <= w
          BY <1>2, <2>5, <3>1, <3>4, <4>2
        <5>2. e[j - (b - pos)] = wire[j - (b - pos)]
          BY <3>2, <5>1
        <5> QED BY <3>5, <4>2, <5>2
      <4> QED BY <4>1, <4>2
    <3>7. ASSUME NEW x \in 1..l, NEW j, j = Left + x PROVE Ahead(j)' = E[x]
      <4>1. /\ ~(j <= b - pos) /\ j - (b - pos) \in 1..(w + l)
            /\ ~(j - (b - pos) <= w) /\ (j - (b - pos)) - w = x
        BY <1>2, <2>5, <3>1, <3>4, <3>7
      <4>2. e[j - (b - pos)] = E[x]
        BY <3>2, <4>1
      <4> QED BY <3>5, <4>1, <4>2
    <3>8. f[Len(s) + 1] = g + Left'
      <4>1. Len(s) + 1 = n + 2
        BY <1>2, <1>3
      <4> QED BY <1>2, <2>5, <2>6, <3>1, <3>4, <4>1
    <3>9. ASSUME NEW i \in 1..(n + 1), NEW x \in 1..Len(Encoding[s[i]]), f[i] + x > g
          PROVE  Ahead(f[i] + x - g)' = Encoding[s[i]][x]
      <4>1. CASE i = n + 1
        <5>1. s[i] = m /\ f[i] = T
          BY <1>3, <2>6, <4>1 DEF T
        <5>2. x \in 1..l
          BY <5>1 DEF l, E
        <5>3. f[i] + x - g = Left + x
          BY <1>2, <2>5, <5>1, <5>2
        <5>4. PICK d : d = Left + x
          OBVIOUS
        <5>5. Ahead(d)' = E[x]
          BY <3>7, <5>2, <5>4
        <5> QED BY <5>1, <5>3, <5>4, <5>5 DEF E
      <4>2. CASE i # n + 1
        <5>1. i \in 1..n /\ i \in 1..(n + 1)
          BY <1>2, <4>2
        <5>2. s[i] = sent[i] /\ f[i] = off[i]
          BY <1>3, <2>6, <5>1
        <5> DEFINE le == Len(Encoding[sent[i]])
        <5>3. le \in Nat /\ off[i] \in Nat /\ off[i + 1] = off[i] + le /\ off[i + 1] <= T /\ x \in 1..le
          BY <2>3, <5>1, <5>2
        <5> HIDE DEF le
        <5>4. PICK d : d = off[i] + x - g
          OBVIOUS
        <5>5. d \in 1..Left
          <6>1. off[i] + x > g
            BY <3>9, <5>2
          <6> DEFINE o == off[i]
          <6>2. o \in Nat /\ o + le <= g + Left /\ o + x > g /\ d = o + x - g
            BY <2>5, <5>3, <5>4, <6>1
          <6> HIDE DEF o
          <6> QED BY <2>5, <5>3, <6>2
        <5>6. Ahead(d) = Encoding[sent[i]][x]
          BY <2>2, <3>9, <5>1, <5>2, <5>4 DEF InTransit
        <5> QED BY <3>6, <5>2, <5>4, <5>5, <5>6
      <4> QED BY <4>1, <4>2
    <3>10. Len(sent') = n + 1 /\ sent' = s
      BY <1>1, <1>3
    <3> HIDE DEF n
    <3> QED BY <1>3, <3>8, <3>9, <3>10 DEF InTransit
  <2>10. Progress(f, g)'
    <3>1. /\ k + 1 \in 1..(n + 1) /\ (k < n => k + 2 \in 1..(n + 1))
      BY <1>2
    <3>2. f[k + 1] = off[k + 1] /\ (k < n => f[k + 2] = off[k + 2])
      BY <2>6, <3>1
    <3>3. Len(replies') = k /\ Len(sent') = n + 1 /\ k < n + 1 /\ k # n + 1
      BY <1>1, <1>2, <1>3
    <3>4. CASE stack = <<>>
      <4>1. ~calling => g = f[k + 1]
        BY <2>2, <3>2, <3>4 DEF Progress
      <4>2. calling => k < n /\ g = f[k + 2] /\ reply = Meaning[Current]
        BY <2>2, <3>2, <3>4 DEF Progress
      <4> QED BY <1>1, <1>4, <3>3, <3>4, <4>1, <4>2 DEF Progress
    <3>5. CASE stack # <<>> /\ k < n
      <4>1. PICK c \in 1..Len(Items[Current]) :
              Parsing(Current, c) /\ g = off[k + 1] + Consumed(Current, c)
        BY <2>2, <3>5 DEF Progress
      <4>2. PICK d : d = Current
        OBVIOUS
      <4>3. Parsing(d, c)' /\ Consumed(d, c)' = Consumed(d, c) /\ Current' = d
        BY <1>1, <1>4, <3>5, <4>1, <4>2 DEF Parsing, Consumed
      <4>4. (Parsing(Current, c) /\ g = f[Len(replies) + 1] + Consumed(Current, c))'
        BY <3>2, <3>3, <4>1, <4>2, <4>3
      <4>5. c \in 1..Len(Items[Current'])
        BY <4>1, <4>2, <4>3
      <4>6. (\E c2 \in 1..Len(Items[Current]) :
                Parsing(Current, c2) /\ g = f[Len(replies) + 1] + Consumed(Current, c2))'
        BY <4>4, <4>5
      <4> QED BY <1>1, <3>3, <3>5, <4>6 DEF Progress
    <3>6. CASE stack # <<>> /\ k = n
      <4>1. stack = <<RootTask>> /\ g = off[k + 1] /\ reply = {}
        BY <2>2, <3>6 DEF Progress
      <4>2. Parsing(m, 1)' /\ Consumed(m, 1)' = 0 /\ 1 \in 1..Len(Items[m])
        BY <1>1, <4>1, RootIsFirst
      <4>3. Current' = m
        BY <1>1, <1>3, <3>6 DEF Current
      <4>4. g = f[k + 1] + 0
        BY <2>3, <3>1, <3>2, <4>1
      <4>5. (Parsing(Current, 1) /\ g = f[Len(replies) + 1] + Consumed(Current, 1))'
        BY <3>3, <4>2, <4>3, <4>4
      <4>6. (\E c2 \in 1..Len(Items[Current]) :
                Parsing(Current, c2) /\ g = f[Len(replies) + 1] + Consumed(Current, c2))'
        BY <4>2, <4>3, <4>5
      <4> QED BY <1>1, <3>3, <3>6, <4>6 DEF Progress
    <3> QED BY <1>2, <3>4, <3>5, <3>6
  <2> QED BY <2>8, <2>9, <2>10 DEF InStep
<1>8. InStep'
  BY <1>1, <1>7 DEF InStep
<1> QED BY <1>5, <1>6, <1>8 DEF SInv

LEMMA InitiallyInStep == Init => SInv
<1> SUFFICES ASSUME Init PROVE SInv
  OBVIOUS
<1>1. /\ Len(sent) = 0 /\ Len(replies) = 0 /\ sent = <<>> /\ replies = <<>>
      /\ err = "none" /\ stack = <<>> /\ ~calling /\ Left = 0
  BY DEF Init, Left
<1>2. Handed
  BY <1>1 DEF Handed
<1>3. Blamed
  BY <1>1 DEF Blamed
<1>4. InStep
  <2>1. PICK off : off = [i \in 1..1 |-> 0]
    OBVIOUS
  <2>2. off \in Offsets /\ off[1] = 0 /\ off[0 + 1] = 0 + 0 /\ off[0 + 1] = 0
    BY <1>1, <2>1 DEF Offsets
  <2>3. InTransit(off, 0)
    BY <1>1, <2>2 DEF InTransit
  <2>4. Progress(off, 0)
    BY <1>1, <2>2 DEF Progress
  <2> QED BY <2>2, <2>3, <2>4 DEF InStep
<1> QED BY <1>2, <1>3, <1>4 DEF SInv

LEMMA NextInStep == RInv /\ SInv /\ [Next]_vars => SInv'
<1> SUFFICES ASSUME RInv, SInv, [Next]_vars
             PROVE  SInv'
  OBVIOUS
<1>1. CASE \E m \in Message : Send(m)
  BY <1>1, SendInStep
<1>2. CASE \E n \in 1..Len(wire) : Feed(n)
  BY <1>2, FeedInStep
<1>3. CASE GetReply
  BY <1>3, GetReplyInStep
<1>4. CASE ReadType
  BY <1>4, ReadTypeInStep
<1>5. CASE Line
  BY <1>5, LineInStep
<1>6. CASE Bulk
  BY <1>6, BulkInStep
<1>7. CASE MultiBulk
  BY <1>7, MultiBulkInStep
<1>8. CASE OutOfMemory
  BY <1>8, ErrorInStep DEF OutOfMemory
<1>9. CASE Return
  BY <1>9, ReturnInStep
<1>10. CASE UNCHANGED vars
  <2>1. Current' = Current
    BY <1>10 DEF vars, Current
  <2>2. Handed' /\ Blamed'
    BY <1>10, <2>1 DEF vars, SInv, Handed, Blamed
  <2>3. InStep'
    <3>1. UNCHANGED <<sent, wire, buf, pos, stack, reply, err, calling, replies>>
      BY <1>10 DEF vars
    <3> SUFFICES ASSUME err = "none" PROVE InStep'
      BY <3>1 DEF InStep
    <3>2. PICK off \in Offsets : \E g \in Nat : InTransit(off, g) /\ Progress(off, g)
      BY DEF SInv, InStep
    <3>3. PICK g \in Nat : InTransit(off, g) /\ Progress(off, g)
      BY <3>2
    <3>4. off \in Offsets' /\ Handed
      BY <3>1 DEF Offsets, SInv
    <3>5. InTransit(off, g)'
      <4>1. Left' = Left /\ \A j \in 1..Left : Ahead(j)' = Ahead(j)
        BY <3>1 DEF Left, Ahead
      <4> QED BY <3>1, <3>3, <3>4, <4>1, SameTransit
    <3>6. Progress(off, g)'
      BY <2>1, <3>1, <3>3 DEF Progress, Parsing, Consumed
    <3> QED BY <3>4, <3>5, <3>6 DEF InStep
  <2> QED BY <2>2, <2>3 DEF SInv
<1> QED BY <1>1, <1>2, <1>3, <1>4, <1>5, <1>6, <1>7, <1>8, <1>9, <1>10 DEF Next

\* No node of the partial reply is where the next one goes.
LEMMA PlaceIsFree ==
    ASSUME RInv, SInv, stack # <<>>, NEW node \in reply
    PROVE  node.path # Path
<1>1. Handed /\ err = "none"
  BY DEF SInv, Blamed
<1>2. PICK off \in Offsets : \E g \in Nat : InTransit(off, g) /\ Progress(off, g)
  BY <1>1 DEF SInv, InStep
<1>3. PICK g \in Nat : InTransit(off, g) /\ Progress(off, g)
  BY <1>2
<1>4. Len(replies) # Len(sent)
  BY <1>3 DEF Progress
<1>5. Len(replies) < Len(sent)
  BY <1>1, <1>4, CurrentTyped DEF Handed
<1>6. PICK c \in 1..Len(Items[Current]) :
        Parsing(Current, c) /\ g = off[Len(replies) + 1] + Consumed(Current, c)
  BY <1>3, <1>5 DEF Progress
<1>7. PICK m : m = Current /\ m \in Message /\ c \in 1..Len(Items[m])
  BY <1>1, <1>5, <1>6, CurrentTyped
<1>8. Here(off, g, m, c)
  BY <1>1, <1>3, <1>5, <1>6, <1>7 DEF Here
<1>9. Path = PathOf(m, c)
  BY <1>8, PathHere
<1>10. PICK i \in 1..(c - 1) : node = NodeOf(m, i)
  BY <1>6, <1>7 DEF Parsing
<1>11. i \in 1..Len(Items[m]) /\ i # c
  BY <1>7, <1>10, MessageTyped
<1>12. PathOf(m, i) # PathOf(m, c)
  BY <1>7, <1>11, PathsDiffer
<1>13. node.path = PathOf(m, i)
  BY <1>10 DEF NodeOf
<1> QED BY <1>9, <1>12, <1>13

-----------------------------------------------------------------------------
(* The inductive invariant of the parser and the stream it reads.          *)
LEMMA StreamInvariant == Spec => []SInv
<1> QED BY InitiallyInStep, NextInStep, ParserInvariant, PTL DEF Spec

(* However the stream is cut into reads, the caller gets the replies the   *)
(* server sent, in order and complete, and moveToNextTask (read.c:235)     *)
(* never goes back to an element that is written (redisReaderGetReply,     *)
(* read.c:550).                                                            *)
THEOREM RepliesFaithful == Spec => []Faithful
<1>1. RInv /\ SInv => Faithful
  <2> SUFFICES ASSUME RInv, SInv PROVE Faithful
    OBVIOUS
  <2>1. Handed
    BY DEF SInv
  <2>2. /\ DOMAIN replies = 1..Len(replies) /\ Len(replies) \in Nat /\ Len(sent) \in Nat
        /\ Len(replies) <= Len(sent)
    BY <2>1, CurrentTyped DEF Handed
  <2>3. \A i \in DOMAIN replies : i <= Len(sent) /\ replies[i] = Meaning[sent[i]]
    BY <2>1, <2>2 DEF Handed
  <2> QED BY <2>3, PlaceIsFree DEF Faithful
<1> QED BY <1>1, ParserInvariant, StreamInvariant, PTL

(* A protocol error (__redisReaderSetError, read.c:47, called from         *)
(* processItem and what it calls) is the fault of the reply the caller is  *)
(* waiting for, and all replies before it were handed out.                 *)
THEOREM ErrorsJustified == Spec => []ErrorJustified
<1>1. SInv => ErrorJustified
  BY DEF SInv, Blamed, Current, ErrorJustified
<1> QED BY <1>1, StreamInvariant, PTL
=============================================================================
