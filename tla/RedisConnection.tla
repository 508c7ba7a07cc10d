--------------------------- MODULE RedisConnection ---------------------------
(***************************************************************************)
(* RedisConnection handles and the RedisConnectionImpl objects they borrow *)
(* from the pools of a RedisManager, one pool for each database            *)
(* (src/src/connection.cc, and reply.cc for the state of the last reply).  *)
(*                                                                         *)
(* A pool is used as PoolContract describes it: Get hands out an idle      *)
(* object, builds one or returns NULL; Put keeps an object or destroys it. *)
(* Operations on handles run to completion; what concurrent Gets and Puts  *)
(* do to each other is ConnectionPool's subject.                           *)
(***************************************************************************)
EXTENDS Naturals, FiniteSets

CONSTANTS
  Handle,        \* RedisConnection objects of the application
  Conn,          \* RedisConnectionImpl objects
  NoConn,        \* the null pointer
  DB,            \* database numbers
  HasPassword,   \* password_ is not empty
  NeedsAuth,     \* the server refuses commands before AUTH
  UserSelects,   \* the application sends SELECT itself
  MoveAssigns    \* the application move-assigns handles

DefaultDB == 0

ASSUME NoConnAssumption == NoConn \notin Conn
ASSUME DBAssumption == DefaultDB \in DB
ASSUME FlagAssumption ==
  {HasPassword, NeedsAuth, UserSelects, MoveAssigns} \subseteq BOOLEAN

VARIABLES
  obj,     \* the fields of every RedisConnectionImpl
  impl,    \* RedisConnection::impl_ of every handle
  live,    \* handles constructed and not yet destroyed
  dummy    \* RedisConnection::dummy_conn_impl

vars == <<obj, impl, live, dummy>>

(***************************************************************************)
(* A RedisConnectionImpl: where it is, the pool it belongs to, its context *)
(* ("broken": redisContext::err is set), what the server knows of it, and  *)
(* the last reply and err_state_.                                          *)
(***************************************************************************)
Object ==
  [place : {"none", "idle", "lent"}, home : DB,
   ctx : {"none", "good", "broken"}, db : DB, authed : BOOLEAN,
   reply : {"none", "ok", "error"}, err : {"OK", "HIREDIS", "INVOKE"}]

\* RedisReply::Init leaves a new object without reply in state INVOKE.
NewObject(d) ==
  [place |-> "lent", home |-> d, ctx |-> "none", db |-> DefaultDB,
   authed |-> FALSE, reply |-> "none", err |-> "INVOKE"]

Update(o, reply, err) == [o EXCEPT !.reply = reply, !.err = err]

Ok(o) == o.reply = "ok"
IsRawConnection(o) == o.reply = "none" /\ o.err = "OK"

\* How the server may answer a command: "fail" is any I/O error or timeout.
Outcome(o) ==
  IF NeedsAuth /\ ~o.authed THEN {"error", "fail"} ELSE {"ok", "error", "fail"}

\* __Do: without a context, with a context that fails or has failed (its error
\* is sticky), or with a reply.
BugDo(o, outcome) ==
  IF o.ctx = "none" \/ outcome = "fail" THEN Update(o, "none", "INVOKE")
  ELSE Update(o, outcome, IF outcome = "ok" THEN "OK" ELSE "COMMAND")
BugRetry(o, outcome) ==
  CASE o.ctx = "none"   -> Update(o, "none", "INVOKE")
    [] o.ctx # "none" /\ outcome = "fail" -> Update([o EXCEPT !.ctx = "broken"], "none", "HIREDIS")
    [] OTHER            -> Update(o, outcome, "OK")
Do(o, outcome) ==
  CASE o.ctx = "none"
         -> Update(o, "none", "INVOKE")
    [] o.ctx = "broken" \/ (o.ctx = "good" /\ outcome = "fail")
         -> Update([o EXCEPT !.ctx = "broken"], "none", "HIREDIS")
    [] OTHER
         -> Update(o, outcome, "OK")

\* The server answers OK to SELECT d by switching the session to d.
DoSelect(o, outcome, d) ==
  LET p == Do(o, outcome) IN IF Ok(p) THEN [p EXCEPT !.db = d] ELSE p

\* AUTH is answered before authentication; a wrong password gets an error.
DoAuth(o, outcome) ==
  LET p == Do(o, outcome) IN IF Ok(p) THEN [p EXCEPT !.authed = TRUE] ELSE p

\* The objects Connect may leave behind for database d.
Reached(d) == {[NewObject(d) EXCEPT !.ctx = c] : c \in {"none", "good", "broken"}}

BugConnect(o, d) ==
  IF o.ctx = "good" THEN {DoAuth(o, a) : a \in {"ok", "error", "fail"}}
  ELSE {Update(o, "none", "HIREDIS")}
Connect(o, d) ==
  CASE o.ctx = "none"   -> {Update(o, "none", "INVOKE")}
    [] o.ctx = "broken" -> {Update(o, "none", "HIREDIS")}
    [] o.ctx = "good" /\ ~HasPassword -> {Update(o, "none", "OK")}
    [] OTHER            ->
         UNION {{DoSelect(DoAuth(o, a), s, d) : s \in Outcome(DoAuth(o, a))} :
                  a \in {"ok", "error", "fail"}}

\* What Connect returns.
BugConnected(o) == o.ctx = "good"
Connected(o) == Ok(o) \/ (~HasPassword /\ IsRawConnection(o))

(***************************************************************************)
(* The pools.  Each operator yields the states of the objects it may lead  *)
(* to; Get also yields the object handed out.                              *)
(***************************************************************************)
IdleOf(objs, d) == {c \in Conn : objs[c].place = "idle" /\ objs[c].home = d}

Destroyed(objs, S) ==
  [c \in Conn |-> IF c \in S THEN [NewObject(DefaultDB) EXCEPT !.place = "none"]
                  ELSE objs[c]]

\* The overload test refuses at once; otherwise expired objects are destroyed,
\* and the result is an idle one or, when none is left, a new one if malloc and
\* Connect succeed.
PoolGet(objs, d) ==
  {[objs |-> objs, conn |-> NoConn]} \cup
  UNION {LET rest == Destroyed(objs, swept)
             idle == IdleOf(rest, d)
         IN IF idle # {}
            THEN {[objs |-> [rest EXCEPT ![c].place = "lent"], conn |-> c] :
                    c \in idle}
            ELSE {[objs |-> rest, conn |-> NoConn]} \cup
                 {[objs |-> [rest EXCEPT ![co[1]] = co[2]], conn |-> co[1]] :
                    co \in {c \in Conn : rest[c].place = "none"} \X
                           {o \in UNION {Connect(p, d) : p \in Reached(d)} :
                              Connected(o)}}
         : swept \in SUBSET IdleOf(objs, d)}

\* Put destroys a broken object; otherwise it keeps it, and may destroy another
\* idle one of the pool to make room.
PoolPut(objs, c, isOk) ==
  IF ~isOk THEN {Destroyed(objs, {c})}
  ELSE LET kept == [objs EXCEPT ![c].place = "idle"]
       IN {kept} \cup
          {Destroyed(kept, {v}) : v \in IdleOf(objs, objs[c].home)}

\* Done: look at the last reply, reset to a raw connection, put it back.
BugDone(objs, c) == PoolPut([objs EXCEPT ![c] = Update(@, "none", "OK")], c, TRUE)
Done(objs, c) ==
  IF c = NoConn THEN {objs}
  ELSE PoolPut([objs EXCEPT ![c] = Update(@, "none", "OK")], c,
               Ok(objs[c]) \/ IsRawConnection(objs[c]))

Init ==
  /\ obj = Destroyed([c \in Conn |-> NewObject(DefaultDB)], Conn)
  /\ impl = [h \in Handle |-> NoConn]
  /\ live = {}
  /\ dummy = NewObject(DefaultDB)

\* RedisConnection h = manager->Get(d).
Open(h, d) ==
  /\ h \notin live
  /\ \E r \in PoolGet(obj, d) :
       obj' = r.objs /\ impl' = [impl EXCEPT ![h] = r.conn]
  /\ live' = live \cup {h}
  /\ UNCHANGED dummy

\* h = manager->Get(d): Get runs before the old connection is given back.
BugReassign(h, d) ==
  /\ h \in live
  /\ \E r \in PoolGet(obj, d) :
       obj' = r.objs /\ impl' = [impl EXCEPT ![h] = r.conn]
  /\ UNCHANGED <<live, dummy>>
Reassign(h, d) ==
  /\ h \in live
  /\ \E r \in PoolGet(obj, d) :
       /\ obj' \in Done(r.objs, impl[h])
       /\ impl' = [impl EXCEPT ![h] = r.conn]
  /\ UNCHANGED <<live, dummy>>

\* RedisConnection h = std::move(g).
BugMoveConstruct(h, g) ==
  /\ h \notin live /\ g \in live
  /\ impl' = [impl EXCEPT ![h] = impl[g]]
  /\ live' = live \cup {h}
  /\ UNCHANGED <<obj, dummy>>
MoveConstruct(h, g) ==
  /\ h \notin live /\ g \in live
  /\ impl' = [impl EXCEPT ![h] = impl[g], ![g] = NoConn]
  /\ live' = live \cup {h}
  /\ UNCHANGED <<obj, dummy>>

\* h = std::move(g): what h held is not given back.
MoveAssign(h, g) ==
  /\ MoveAssigns /\ h \in live /\ g \in live
  /\ impl' = [impl EXCEPT ![h] = impl[g], ![g] = NoConn]
  /\ UNCHANGED <<obj, live, dummy>>

\* The destructor of h.
Drop(h) ==
  /\ h \in live
  /\ obj' \in Done(obj, impl[h])
  /\ impl' = [impl EXCEPT ![h] = NoConn]
  /\ live' = live \ {h}
  /\ UNCHANGED dummy

\* h->Do(...): on the object of h, or on the dummy all null handles share.
Command(h) ==
  /\ h \in live
  /\ IF impl[h] = NoConn
       THEN /\ \E outcome \in Outcome(dummy) : dummy' = Do(dummy, outcome)
            /\ UNCHANGED obj
       ELSE /\ \E outcome \in Outcome(obj[impl[h]]) :
                 obj' = [obj EXCEPT ![impl[h]] = Do(@, outcome)]
            /\ UNCHANGED dummy
  /\ UNCHANGED <<impl, live>>

\* h->Do("SELECT d") by the application itself.
Select(h, d) ==
  /\ UserSelects /\ h \in live /\ impl[h] # NoConn
  /\ \E outcome \in Outcome(obj[impl[h]]) :
       obj' = [obj EXCEPT ![impl[h]] = DoSelect(@, outcome, d)]
  /\ UNCHANGED <<impl, live, dummy>>

Next ==
  \E h \in Handle :
    \/ Drop(h) \/ Command(h)
    \/ \E d \in DB : Open(h, d) \/ Reassign(h, d) \/ Select(h, d)
    \/ \E g \in Handle : MoveConstruct(h, g) \/ MoveAssign(h, g)

Spec == Init /\ [][Next]_vars
-----------------------------------------------------------------------------
TypeOK ==
  /\ obj \in [Conn -> Object]
  /\ impl \in [Handle -> Conn \cup {NoConn}]
  /\ live \subseteq Handle
  /\ dummy \in Object

\* A connection answers to one handle: constructing, assigning, moving and
\* destroying handles never leave two of them with the same connection, nor one
\* with a connection that went back to its pool or was destroyed.
HandlesExclusive ==
  /\ \A g, h \in Handle : impl[g] = impl[h] /\ impl[g] # NoConn => g = h
  /\ \A h \in Handle :
       impl[h] # NoConn => h \in live /\ obj[impl[h]].place = "lent"

\* No connection leak (README_cn.md:13): a connection out of its pool is held by
\* a handle, whose destructor gives it back.
Held(c) == \E h \in live : impl[h] = c
NoLeak == \A c \in Conn : obj[c].place = "lent" => Held(c)

\* Move assignment is the only operation that loses a connection: after any other
\* one, a connection that is lent and held is still held or went back.
OnlyMoveAssignLeaks ==
  [][(\A c \in Conn : obj'[c].place = "lent" =>
        Held(c)' \/ (obj[c].place = "lent" /\ ~Held(c)))
     \/ \E h, g \in Handle : MoveAssign(h, g)]_vars

\* Whatever was done through a handle, an idle connection has a context without
\* error and no trace of the last reply: a connection that failed is never lent
\* to anybody else, although Done judges it by the last reply alone.
PooledReady ==
  \A c \in Conn :
    obj[c].place = "idle" => obj[c].ctx = "good" /\ IsRawConnection(obj[c])

\* "select specific db" (README.md:30): a connection taken from the pool of a
\* database talks to that database.
Diverted(o) == o.place # "none" /\ o.db # o.home
RightDatabase == \A c \in Conn : ~Diverted(obj[c])

\* With a password set, only a SELECT sent by the application leads a connection
\* away from the database of its pool (it stays so when it is lent again).
OnlySelectDiverts ==
  [][\A c \in Conn :
       Diverted(obj'[c]) =>
         \/ Diverted(obj[c])
         \/ \E h \in Handle, d \in DB : impl[h] = c /\ Select(h, d)]_vars

\* With a password configured, no connection the server would refuse to serve
\* enters circulation: an AUTH that failed is caught by the SELECT after it.
Authenticated ==
  HasPassword /\ NeedsAuth =>
    \A c \in Conn : obj[c].place # "none" => obj[c].authed

\* hiredis errors are sticky: once a context is broken the handle sees no reply
\* from it again, and its object does not survive the handle.
BrokenForGood ==
  [][\A c \in Conn :
       obj[c].ctx = "broken" =>
         \/ obj'[c].place = "none"
         \/ obj'[c].place = "lent" /\ obj'[c].ctx = "broken"
            /\ obj'[c].reply = "none"]_vars
=============================================================================
