---------------------------- MODULE MCRespReader ----------------------------
(* Instance of RespReader: the encoding and the meaning of a few replies,   *)
(* defined by recursion over the tree of a reply.                           *)
EXTENDS RespReader

Leaf(type, val) == [type |-> type, val |-> val, items |-> <<>>]
Arr(items) == [type |-> "array", val |-> "", items |-> items]

Tok(kind, val, n) == [kind |-> kind, val |-> val, n |-> n]
Header(type, n) == <<Tok("type", type, 0), Tok("line", "", n)>>

\* The tokens of a reply, in preorder.
RECURSIVE Encode(_)
Encode(m) ==
    CASE m.type = "array" ->
           Header("array", Len(m.items))
           \o FlattenSeq([i \in DOMAIN m.items |-> Encode(m.items[i])])
      [] m.type = "string" -> Header("string", 1) \o <<Tok("bulk", m.val, 0)>>
      [] m.type = "nil" -> Header(m.val, -1)
      [] m.type = "out of range" -> Header(m.val, -2)
      [] m.type = "bad" -> <<Tok("type", m.val, 0), Tok("line", NotNumber, 0)>>
      [] OTHER -> <<Tok("type", m.type, 0), Tok("line", m.val, 0)>>

\* The values of a reply whose root is at path and starts at token n.
RECURSIVE Values(_, _, _)
Values(m, path, n) ==
    LET RECURSIVE Rest(_, _)
        Rest(i, at) == IF i > Len(m.items) THEN <<>>
                       ELSE Values(m.items[i], Append(path, i - 1), at)
                            \o Rest(i + 1, at + Len(Encode(m.items[i])))
    IN  <<[path |-> path, at |-> n]>> \o Rest(1, n + 2)

\* The nodes of a reply whose root is at path.
RECURSIVE Nodes(_, _)
Nodes(m, path) ==
    {[path |-> path, type |-> m.type, val |-> IF m.type = "nil" THEN "" ELSE m.val]}
    \cup UNION {Nodes(m.items[i], Append(path, i - 1)) : i \in DOMAIN m.items}

\* A reply is legal when its leaves are, and no array lies too deep.
RECURSIVE Legal(_, _)
Legal(m, depth) ==
    /\ m.type \in Types \cup {"nil"}
    /\ m.type = "array" \/ (m.type = "nil" /\ m.val = "array") => depth < MaxDepth
    /\ \A i \in DOMAIN m.items : Legal(m.items[i], depth + 1)

A == Leaf("status", "a")
I == Leaf("integer", "i")
S == Leaf("string", "s")
E == Leaf("error", "e")
MCMessage ==
    { A, S, Leaf("nil", "string"), Leaf("nil", "array"),
      Arr(<<>>), Arr(<<S, I>>), Arr(<<Arr(<<A>>), Arr(<<>>), E>>),
      Arr(<<Arr(<<A, Arr(<<S>>)>>)>>),
      Arr(<<Arr(<<I, Leaf("nil", "string")>>), Arr(<<S>>)>>),
      Leaf("unknown", ""), Leaf("bad", "integer"), Leaf("out of range", "array"),
      Arr(<<A, Leaf("bad", "string")>>), Leaf("out of range", "string") }
MCEncoding == [m \in MCMessage |-> Encode(m)]
MCItems == [m \in MCMessage |-> Values(m, <<>>, 1)]
MCWellFormed == {m \in MCMessage : Legal(m, 0)}
MCMeaning == [m \in MCMessage |-> IF Legal(m, 0) THEN Nodes(m, <<>>) ELSE {}]
=============================================================================
