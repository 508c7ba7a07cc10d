----------------------------- MODULE RespReader -----------------------------
(***************************************************************************)
(* The reply parser of hiredis (read.c), which every connection of the     *)
(* library reads its replies through.  The server sends whole replies; the *)
(* socket delivers them in pieces of any size (redisReaderFeed) and the    *)
(* caller asks for a reply whenever it likes (redisReaderGetReply).  What  *)
(* has been parsed of an unfinished reply is kept between calls in a stack *)
(* of tasks, one for each level of nesting.                                *)
(*                                                                         *)
(* The bytes of the stream are abstracted to tokens: a type byte, a line   *)
(* up to its CRLF, the payload of a bulk string with its CRLF.  A token is *)
(* in the buffer or not: a line without its CRLF is to the code what a     *)
(* missing line is.  A reply object is the set of its nodes, each with     *)
(* the indices that lead to it from the root.                              *)
(***************************************************************************)
EXTENDS Integers, Sequences, FiniteSets, SequencesExt

CONSTANTS
    Message,      \* the replies a server may send
    Encoding,     \* Message -> the tokens it sends
    Items,        \* Message -> its values, each before its elements: the indices
                  \* that lead to it from the root, and its first token
    Meaning,      \* Message -> the nodes of the reply object it stands for
    WellFormed,   \* the messages the parser must accept
    MaxMessages,  \* how many of them a behaviour carries
    MaxDepth,     \* the task index that may not hold an array: 8 in the code
    TrimAt,       \* consumed input that is worth discarding: 1024 in the code
    MayFail       \* allocations may fail

Types == {"status", "error", "integer", "string", "array"}

\* What a token carries: the type it announces, or the text of the line or
\* payload and the number the line stands for, NotNumber when it is not one.
NotNumber == "not a number"

ASSUME DepthAssumption == MaxDepth \in Nat /\ TrimAt \in Nat \ {0}
ASSUME MessageAssumption ==
    /\ WellFormed \subseteq Message
    /\ MayFail \in BOOLEAN
    /\ Encoding \in [Message -> Seq([kind : STRING, val : STRING, n : Int])]
    /\ Items \in [Message -> Seq([path : Seq(Nat), at : Nat \ {0}]) \ {<<>>}]

-----------------------------------------------------------------------------
(* The replies of the protocol, as the server composes them: what an item  *)
(* of a reply is made of, which items are legal, and how they are nested.  *)

TypeOf(m, i) == Encoding[m][Items[m][i].at].val
HeaderOf(m, i) == Encoding[m][Items[m][i].at + 1]
PathOf(m, i) == Items[m][i].path

\* A bulk string that is not nil has a payload after its header.
HasPayload(m, i) ==
    TypeOf(m, i) = "string" /\ HeaderOf(m, i).val # NotNumber /\ HeaderOf(m, i).n >= 0
Size(m, i) == IF HasPayload(m, i) THEN 3 ELSE 2

\* How many elements follow.
Elements(m, i) ==
    IF TypeOf(m, i) = "array" /\ HeaderOf(m, i).val # NotNumber /\ HeaderOf(m, i).n > 0
    THEN HeaderOf(m, i).n ELSE 0

LegalItem(m, i) ==
    LET type == TypeOf(m, i)  h == HeaderOf(m, i)
    IN  /\ type \in Types
        /\ type \in {"integer", "string", "array"} => h.val # NotNumber
        /\ type \in {"string", "array"} => h.n >= -1
        /\ type = "array" => Len(PathOf(m, i)) # MaxDepth

\* The object an item becomes.
NodeOf(m, i) ==
    LET type == TypeOf(m, i)  h == HeaderOf(m, i)
        nil == type \in {"string", "array"} /\ h.n = -1
    IN  [path |-> PathOf(m, i),
         type |-> IF nil THEN "nil" ELSE type,
         val |-> CASE nil \/ type = "array" -> ""
                   [] HasPayload(m, i) -> Encoding[m][Items[m][i].at + 2].val
                   [] OTHER -> h.val]

\* p comes before q: it leads to q, or turns off to a lower index.
Before(p, q) ==
    \E d \in 1..Len(q) :
        /\ d - 1 <= Len(p) /\ \A k \in 1..(d - 1) : p[k] = q[k]
        /\ d <= Len(p) => p[d] < q[d]

\* The items follow one another in the encoding, each before its elements and
\* these in the order of their indices; an array has all its elements and
\* every item but the root is the element of an array.
ASSUME LayoutAssumption ==
    \A m \in Message :
        LET N == Len(Items[m])
        IN  /\ Items[m][1].at = 1
            /\ \A i \in 1..N :
                 Items[m][i].at + Size(m, i) =
                    IF i = N THEN Len(Encoding[m]) + 1 ELSE Items[m][i + 1].at
            /\ \A i \in 1..N : \A j \in 1..(i - 1) : Before(PathOf(m, j), PathOf(m, i))
            /\ \A i \in 1..N : \A x \in 0..(Elements(m, i) - 1) :
                 \E j \in 1..N : PathOf(m, j) = Append(PathOf(m, i), x)
            /\ \A i \in 1..N : \A d \in 1..Len(PathOf(m, i)) :
                 \E j \in 1..N : /\ PathOf(m, j) = SubSeq(PathOf(m, i), 1, d - 1)
                               /\ PathOf(m, i)[d] < Elements(m, j)

\* A reply is well formed when its items are, and stands for their objects.
ASSUME MeaningAssumption ==
    /\ \A m \in WellFormed : \A i \in DOMAIN Items[m] : LegalItem(m, i)
    /\ \A m \in Message : (\A i \in DOMAIN Items[m] : LegalItem(m, i)) =>
         Meaning[m] = {NodeOf(m, i) : i \in DOMAIN Items[m]}

VARIABLES
    sent,     \* the messages the server has sent, in order
    wire,     \* the tokens not delivered yet
    buf,      \* r->buf
    pos,      \* r->pos: how many tokens of buf are consumed
    stack,    \* r->rstack[0 .. ridx]: type, number of elements, index in the parent
    reply,    \* r->reply: the nodes built so far, {} for NULL
    err,      \* r->err
    calling,  \* redisReaderGetReply is running
    last,     \* what the last call returned
    replies   \* the replies handed to the caller

vars == <<sent, wire, buf, pos, stack, reply, err, calling, last, replies>>

Unread == "unread"   \* the type -1 of a task
RootTask == [type |-> Unread, elements |-> -1, idx |-> -1]
ItemTask == [type |-> Unread, elements |-> -1, idx |-> 0]

Init ==
    /\ sent = <<>> /\ wire = <<>>
    /\ buf = <<>> /\ pos = 0 /\ stack = <<>> /\ reply = {}
    /\ err = "none" /\ calling = FALSE /\ last = "none" /\ replies = <<>>

-----------------------------------------------------------------------------
(* The steps the parser is made of.                                        *)

\* Mutant: the error is not remembered.
BugSetError(kind) ==
    /\ reply' = {} /\ buf' = <<>> /\ pos' = 0 /\ stack' = <<>> /\ err' = "none"
    /\ UNCHANGED <<sent, wire, calling, last, replies>>

\* __redisReaderSetError: the partial reply is freed, the input and the
\* stack are dropped.
SetError(kind) ==
    /\ reply' = {} /\ buf' = <<>> /\ pos' = 0 /\ stack' = <<>> /\ err' = kind
    /\ UNCHANGED <<sent, wire, calling, last, replies>>

ridx == Len(stack) - 1
cur == stack[Len(stack)]

\* The token at the cursor, when it has arrived (readBytes, seekNewline).
Arrived(k) == pos + k <= Len(buf)
Token(k) == buf[pos + k]

\* The place of the current item below the root.
Path == [i \in 1..ridx |-> stack[i + 1].idx]

Node(type, val) == [path |-> Path, type |-> type, val |-> val]

\* Mutant: an array is finished one element late.
BugFinished(i) == stack[i].idx = stack[i - 1].elements

\* moveToNextTask: it leaves every task that was the last element of its
\* array and goes on with the next sibling of the first that was not.
Finished(i) == stack[i].idx = stack[i - 1].elements - 1
Resume == {i \in 2..Len(stack) :
              ~Finished(i) /\ \A k \in (i + 1)..Len(stack) : Finished(k)}

\* Mutant: the index of the item is not advanced.
BugNextTask ==
    IF Resume = {} THEN <<>>
    ELSE LET i == CHOOSE j \in Resume : TRUE
         IN  [SubSeq(stack, 1, i) EXCEPT ![i] =
                [type |-> Unread, elements |-> -1, idx |-> stack[i].idx]]

NextTask ==
    IF Resume = {} THEN <<>>
    ELSE LET i == CHOOSE j \in Resume : TRUE
         IN  [SubSeq(stack, 1, i) EXCEPT ![i] =
                [type |-> Unread, elements |-> -1, idx |-> stack[i].idx + 1]]

\* create*Object and its place in the tree: the root is r->reply, any other
\* object is stored by the create function in the array it belongs to.
Attach(node) == reply' = reply \cup {node}

\* A finished item: n tokens are consumed and the parser moves on.
Finish(node, n) ==
    /\ Attach(node)
    /\ pos' = pos + n
    /\ stack' = NextTask
    /\ UNCHANGED <<sent, wire, buf, err, calling, last, replies>>

\* processItem is called again while there is a task and no error.
Looping == calling /\ stack # <<>> /\ err = "none"

\* processItem, when the type is not known yet: the byte is consumed even
\* if the item is not there.
ReadType ==
    /\ Looping /\ cur.type = Unread /\ Arrived(1)
    /\ IF Token(1).val \in Types
       THEN /\ stack' = [stack EXCEPT ![Len(stack)].type = Token(1).val]
            /\ pos' = pos + 1
            /\ UNCHANGED <<sent, wire, buf, reply, err, calling, last, replies>>
       ELSE SetError("protocol")

\* processLineItem
Line ==
    /\ Looping /\ cur.type \in {"status", "error", "integer"} /\ Arrived(1)
    /\ IF cur.type = "integer" /\ Token(1).val = NotNumber
       THEN SetError("protocol")
       ELSE Finish(Node(cur.type, Token(1).val), 1)

\* processBulkItem: the header is consumed only together with the payload.
Bulk ==
    /\ Looping /\ cur.type = "string" /\ Arrived(1)
    /\ \/ /\ Token(1).val = NotNumber \/ Token(1).n < -1
          /\ SetError("protocol")
       \/ /\ Token(1).val # NotNumber /\ Token(1).n = -1
          /\ Finish(Node("nil", ""), 1)
       \/ /\ Token(1).val # NotNumber /\ Token(1).n >= 0 /\ Arrived(2)
          /\ Finish(Node("string", Token(2).val), 2)

\* Mutants: the bound on the depth one too high, one too low.
BugNoBound == ridx = MaxDepth + 1
BugTooDeep == ridx = MaxDepth - 1
TooDeep == ridx = MaxDepth

\* An array of n elements is stored and its first element is next.
Descend(n) ==
    /\ Attach(Node("array", ""))
    /\ pos' = pos + 1
    /\ stack' = Append([stack EXCEPT ![Len(stack)].elements = n], ItemTask)
    /\ UNCHANGED <<sent, wire, buf, err, calling, last, replies>>

\* processMultiBulkItem
MultiBulk ==
    /\ Looping /\ cur.type = "array"
    /\ \/ TooDeep /\ SetError("protocol")
       \/ /\ ~TooDeep /\ Arrived(1)
          /\ Token(1).val = NotNumber \/ Token(1).n < -1
          /\ SetError("protocol")
       \/ /\ ~TooDeep /\ Arrived(1) /\ Token(1).val # NotNumber
          /\ \/ Token(1).n = -1 /\ Finish(Node("nil", ""), 1)
             \/ Token(1).n = 0 /\ Finish(Node("array", ""), 1)
             \/ Token(1).n > 0 /\ Descend(Token(1).n)

\* Any item whose object cannot be allocated.
OutOfMemory ==
    /\ MayFail /\ Looping /\ cur.type # Unread
    /\ Arrived(1) /\ Token(1).val # NotNumber
    /\ cur.type = "string" => Token(1).n = -1 \/ (Token(1).n >= 0 /\ Arrived(2))
    /\ cur.type = "array" => Token(1).n >= -1 /\ ~TooDeep
    /\ SetError("oom")

\* processItem returns REDIS_ERR without an error: the input does not reach.
Stalled ==
    /\ Looping
    /\ \/ ~Arrived(1) /\ ~(cur.type = "array" /\ TooDeep)
       \/ /\ cur.type = "string" /\ Arrived(1) /\ ~Arrived(2)
          /\ Token(1).val # NotNumber /\ Token(1).n >= 0

ProcessItem == ReadType \/ Line \/ Bulk \/ MultiBulk \/ OutOfMemory

-----------------------------------------------------------------------------
(* The calls of the context that owns the reader.                          *)

\* redisReaderFeed with what one read of the socket returned.
Feed(n) ==
    /\ ~calling /\ n <= Len(wire)
    /\ \/ /\ err # "none"
          /\ last' = "error"
          /\ UNCHANGED <<sent, wire, buf, pos, stack, reply, err, calling, replies>>
       \/ /\ err = "none"
          /\ buf' = buf \o SubSeq(wire, 1, n)
          /\ wire' = SubSeq(wire, n + 1, Len(wire))
          /\ last' = "fed"
          /\ UNCHANGED <<sent, pos, stack, reply, err, calling, replies>>
       \/ MayFail /\ err = "none" /\ SetError("oom")

\* redisReaderGetReply up to its loop.  The caller does not ask again before
\* it has read more: the answer would be the same.
GetReply ==
    /\ ~calling /\ last # "none"
    /\ \/ /\ err # "none"
          /\ last' = "error"
          /\ UNCHANGED <<stack, calling>>
       \/ /\ err = "none" /\ buf = <<>>
          /\ last' = "none"
          /\ UNCHANGED <<stack, calling>>
       \/ /\ err = "none" /\ buf # <<>>
          /\ stack' = IF stack = <<>> THEN <<RootTask>> ELSE stack
          /\ calling' = TRUE
          /\ UNCHANGED last
    /\ UNCHANGED <<sent, wire, buf, pos, reply, err, replies>>

\* redisReaderGetReply after its loop.
Return ==
    /\ calling
    /\ calling' = FALSE
    /\ \/ /\ err # "none"
          /\ last' = "error"
          /\ UNCHANGED <<buf, pos, reply, replies>>
       \/ /\ err = "none" /\ (stack # <<>> => Stalled)
          /\ IF pos >= TrimAt
             THEN buf' = SubSeq(buf, pos + 1, Len(buf)) /\ pos' = 0
             ELSE UNCHANGED <<buf, pos>>
          /\ IF stack = <<>>
             THEN /\ replies' = Append(replies, reply)
                  /\ reply' = {} /\ last' = "reply"
             ELSE /\ last' = "none"
                  /\ UNCHANGED <<reply, replies>>
    /\ UNCHANGED <<sent, wire, stack, err>>

\* The server sends another reply.
Send(m) ==
    /\ Len(sent) < MaxMessages
    /\ sent' = Append(sent, m)
    /\ wire' = wire \o Encoding[m]
    /\ UNCHANGED <<buf, pos, stack, reply, err, calling, last, replies>>

Next ==
    \/ \E m \in Message : Send(m)
    \/ \E n \in 1..Len(wire) : Feed(n)
    \/ GetReply
    \/ ReadType \/ Line \/ Bulk \/ MultiBulk \/ OutOfMemory
    \/ Return

Spec == Init /\ [][Next]_vars

\* A call in progress runs on, the caller asks for the replies it waits for
\* and goes back to the socket when there is none (the loop of redisGetReply),
\* and the socket delivers what was sent.
Fairness ==
    /\ WF_vars(ProcessItem) /\ WF_vars(Return) /\ WF_vars(GetReply)
    /\ WF_vars(\E n \in 1..Len(wire) : Feed(n))

FairSpec == Spec /\ Fairness

-----------------------------------------------------------------------------
(* Type invariant.  The cursor stays in the buffer, the stack in rstack.   *)
Task == [type : Types \cup {Unread}, elements : Int, idx : Int]

TypeOK ==
    /\ pos \in 0..Len(buf)
    /\ stack \in Seq(Task) /\ Len(stack) <= MaxDepth + 1
    /\ err \in {"none", "protocol", "oom"}
    /\ calling \in BOOLEAN /\ last \in {"none", "fed", "reply", "error"}

(***************************************************************************)
(* The stack describes the unfinished reply: every task but the last is an *)
(* array with elements to come, its node is in the partial reply, and the  *)
(* index of the task above it is below its length.  The assertions of      *)
(* moveToNextTask and of the create functions hold, and element[idx] is    *)
(* written inside the array.  Between two replies, and after an error,     *)
(* nothing is left over.                                                   *)
(***************************************************************************)
PathTo(i) == [k \in 1..(i - 1) |-> stack[k + 1].idx]
StackDescribesReply ==
    /\ \A i \in 1..(Len(stack) - 1) :
         /\ stack[i].type = "array"
         /\ [path |-> PathTo(i), type |-> "array", val |-> ""] \in reply
         /\ 0 <= stack[i + 1].idx /\ stack[i + 1].idx < stack[i].elements
    /\ stack = <<>> /\ (~calling \/ err # "none") => reply = {}

(***************************************************************************)
(* However the stream is cut into reads, the replies the caller gets are   *)
(* the replies the server sent, in order, each with all its elements at    *)
(* their indices; no element of an unfinished reply is about to be         *)
(* overwritten.                                                            *)
(***************************************************************************)
Faithful ==
    /\ \A i \in DOMAIN replies : i <= Len(sent) /\ replies[i] = Meaning[sent[i]]
    /\ stack # <<>> => \A node \in reply : node.path # Path

(***************************************************************************)
(* A protocol error is the fault of the reply the caller is waiting for,   *)
(* and all replies before it were handed out.                              *)
(***************************************************************************)
ErrorJustified ==
    /\ err = "protocol" =>
         Len(replies) < Len(sent) /\ sent[Len(replies) + 1] \notin WellFormed
    /\ err = "oom" => MayFail

(***************************************************************************)
(* A caller that reads the socket until it gets its reply gets all of them *)
(* or an error; no call loops for ever over the input it has.              *)
(***************************************************************************)
AllAnswered ==
    \A k \in 1..MaxMessages :
        Len(sent) = k ~> Len(replies) >= k \/ err # "none"
=============================================================================
