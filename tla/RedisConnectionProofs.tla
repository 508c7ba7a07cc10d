------------------------ MODULE RedisConnectionProofs ------------------------
(***************************************************************************)
(* Theorems about RedisConnection, for any number of handles, connections  *)
(* and databases, whatever the application does.                           *)
(*                                                                         *)
(* A step changes at most three connections: the one a pool hands out, the *)
(* one that is given back, and those destroyed to make room.  The lemmas   *)
(* GetFacts and DoneFacts say how; the inductive invariant HInv says what  *)
(* every object is like (Sound), wherever it is.                           *)
(***************************************************************************)
EXTENDS RedisConnection, TLAPS

(***************************************************************************)
(* An object outside of its pool may be in any state, but not one in which *)
(* Done would take it for healthy though its context is not; and a context *)
(* that failed shows no reply.                                             *)
(***************************************************************************)
Healthy(o) == Ok(o) \/ IsRawConnection(o)

Sound(o) ==
  /\ o.place = "none" => o.ctx = "none"
  /\ Healthy(o) /\ o.place # "none" => o.ctx = "good"
  /\ o.ctx = "broken" => o.reply = "none"
  /\ o.place = "idle" => o.ctx = "good" /\ IsRawConnection(o)
  /\ HasPassword /\ NeedsAuth /\ o.place # "none" => o.authed

AllSound(objs) == \A c \in Conn : Sound(objs[c])

HInv ==
  /\ TypeOK
  /\ HandlesExclusive
  /\ AllSound(obj)

Answers == {"ok", "error", "fail"}
-----------------------------------------------------------------------------
\* The answers a server may give are answers.
LEMMA OutcomeAnswers == ASSUME NEW o PROVE Outcome(o) \subseteq Answers
BY DEF Outcome, Answers

\* A command changes the context and the last reply of an object and nothing
\* else, and leaves no failed context that looks healthy.
LEMMA DoFacts ==
  ASSUME NEW o \in Object, NEW outcome \in Answers
  PROVE  LET p == Do(o, outcome)
         IN /\ p \in Object
            /\ p.place = o.place /\ p.home = o.home
            /\ p.db = o.db /\ p.authed = o.authed
            /\ p.ctx = "none" <=> o.ctx = "none"
            /\ o.ctx = "broken" => p.ctx = "broken"
            /\ Healthy(p) => p.ctx = "good"
            /\ p.ctx = "broken" => p.reply = "none"
            /\ Ok(p) <=> o.ctx = "good" /\ outcome = "ok"
<1>1. CASE o.ctx = "none"
  BY <1>1 DEF Do, Update, Object, Answers, Healthy, Ok, IsRawConnection
<1>2. CASE o.ctx = "broken"
  BY <1>2 DEF Do, Update, Object, Answers, Healthy, Ok, IsRawConnection
<1>3. CASE o.ctx = "good" /\ outcome = "fail"
  BY <1>3 DEF Do, Update, Object, Answers, Healthy, Ok, IsRawConnection
<1>4. CASE o.ctx = "good" /\ outcome \in {"ok", "error"}
  BY <1>4 DEF Do, Update, Object, Answers, Healthy, Ok, IsRawConnection
<1> QED
  BY <1>1, <1>2, <1>3, <1>4 DEF Object, Answers

\* A SELECT is a command that may also change the database of the session.
LEMMA SelectFacts ==
  ASSUME NEW o \in Object, NEW outcome \in Answers, NEW d \in DB
  PROVE  LET p == Do(o, outcome)
             q == DoSelect(o, outcome, d)
         IN /\ q \in Object
            /\ q.place = p.place /\ q.home = p.home /\ q.authed = p.authed
            /\ q.ctx = p.ctx /\ q.reply = p.reply /\ q.err = p.err
            /\ Ok(p) => q.db = d
            /\ ~Ok(p) => q = p
<1> DEFINE p == Do(o, outcome)
<1>1. p \in Object
  BY DoFacts
<1> HIDE DEF p
<1>2. DoSelect(o, outcome, d) = IF Ok(p) THEN [p EXCEPT !.db = d] ELSE p
  BY DEF DoSelect, p
<1>3. LET q == IF Ok(p) THEN [p EXCEPT !.db = d] ELSE p
      IN /\ q \in Object
         /\ q.place = p.place /\ q.home = p.home /\ q.authed = p.authed
         /\ q.ctx = p.ctx /\ q.reply = p.reply /\ q.err = p.err
         /\ Ok(p) => q.db = d
         /\ ~Ok(p) => q = p
  BY <1>1 DEF Object
<1> QED
  BY <1>2, <1>3 DEF p

\* AUTH is a command that may also authenticate the session.
LEMMA AuthFacts ==
  ASSUME NEW o \in Object, NEW outcome \in Answers
  PROVE  LET p == Do(o, outcome)
             q == DoAuth(o, outcome)
         IN /\ q \in Object
            /\ q.place = p.place /\ q.home = p.home
            /\ q.ctx = p.ctx
            /\ o.authed => q.authed
<1> DEFINE p == Do(o, outcome)
<1>1. p \in Object /\ p.authed = o.authed
  BY DoFacts
<1> HIDE DEF p
<1>2. DoAuth(o, outcome) = IF Ok(p) THEN [p EXCEPT !.authed = TRUE] ELSE p
  BY DEF DoAuth, p
<1>3. LET q == IF Ok(p) THEN [p EXCEPT !.authed = TRUE] ELSE p
      IN /\ q \in Object
         /\ q.place = p.place /\ q.home = p.home
         /\ q.ctx = p.ctx
         /\ o.authed => q.authed
  BY <1>1 DEF Object
<1> QED
  BY <1>2, <1>3 DEF p

\* Init of a RedisConnectionImpl: an object that Connect reports as connected has
\* a good context, was authenticated if the server asks for it, and with a
\* password has selected its database.
LEMMA ConnectFacts ==
  ASSUME NEW d \in DB, NEW p \in Reached(d), NEW o \in Connect(p, d), Connected(o)
  PROVE  /\ o \in Object /\ Sound(o)
         /\ o.place = "lent" /\ o.home = d
         /\ HasPassword => o.db = o.home
<1>1. /\ p \in Object
      /\ p.place = "lent" /\ p.home = d /\ p.authed = FALSE /\ p.reply = "none"
  BY DBAssumption DEF Reached, NewObject, Object
<1>f. HasPassword \in BOOLEAN
  BY FlagAssumption
<1> DEFINE Entered ==
      UNION {{DoSelect(DoAuth(p, a), s, d) : s \in Outcome(DoAuth(p, a))} :
               a \in Answers}
<1>b. o \in (CASE p.ctx = "none"   -> {Update(p, "none", "INVOKE")}
              [] p.ctx = "broken" -> {Update(p, "none", "HIREDIS")}
              [] p.ctx = "good" /\ ~HasPassword -> {Update(p, "none", "OK")}
              [] OTHER            -> Entered)
  BY Zenon DEF Connect, Answers
<1> HIDE DEF Entered
<1>2. CASE p.ctx = "none"
  <2>1. o = Update(p, "none", "INVOKE")
    BY <1>b, <1>2, <1>f
  <2> QED
    BY <1>1, <2>1 DEF Update, Connected, Ok, IsRawConnection, Object
<1>a. CASE p.ctx = "broken"
  <2>1. o = Update(p, "none", "HIREDIS")
    BY <1>a, <1>b, <1>f
  <2> QED
    BY <1>1, <2>1 DEF Update, Connected, Ok, IsRawConnection, Object
<1>3. CASE p.ctx = "good" /\ ~HasPassword
  <2>1. o = Update(p, "none", "OK")
    BY <1>3, <1>b
  <2> QED
    BY <1>1, <1>3, <2>1
    DEF Update, Sound, Healthy, Ok, IsRawConnection, Object
<1>4. CASE p.ctx = "good" /\ HasPassword
  <2>a. PICK a \in Answers :
          o \in {DoSelect(DoAuth(p, a), s, d) : s \in Outcome(DoAuth(p, a))}
    BY <1>4, <1>b DEF Entered
  <2>1. PICK s \in Outcome(DoAuth(p, a)) : o = DoSelect(DoAuth(p, a), s, d)
    BY <2>a
  <2> DEFINE q == DoAuth(p, a)
  <2>2. /\ q \in Object /\ q.place = "lent" /\ q.home = d
    BY <1>1, AuthFacts, DoFacts
  <2>3. s \in Answers
    BY OutcomeAnswers
  <2>4. s \in Outcome(q) /\ o = DoSelect(q, s, d)
    BY <2>1
  <2> HIDE DEF q
  <2> DEFINE r == Do(q, s)
  <2>5. /\ r \in Object /\ r.place = q.place /\ r.home = q.home /\ r.authed = q.authed
        /\ Healthy(r) => r.ctx = "good"
        /\ Ok(r) <=> q.ctx = "good" /\ s = "ok"
    BY <2>2, <2>3, DoFacts
  <2>6. /\ o \in Object
        /\ o.place = r.place /\ o.home = r.home /\ o.authed = r.authed
        /\ o.ctx = r.ctx /\ o.reply = r.reply /\ o.err = r.err
        /\ Ok(r) => o.db = d
    BY <2>2, <2>3, <2>4, SelectFacts
  <2> HIDE DEF r
  <2>7. Ok(o) /\ Ok(r)
    BY <1>4, <2>6 DEF Connected, Ok
  <2>8. NeedsAuth => q.authed
    BY <2>2, <2>4, <2>5, <2>7 DEF Outcome, Object
  <2> QED
    BY <2>2, <2>5, <2>6, <2>7, <2>8
    DEF Sound, Healthy, Ok, IsRawConnection, Object
<1> QED
  BY <1>1, <1>2, <1>a, <1>3, <1>4 DEF Object
-----------------------------------------------------------------------------
(***************************************************************************)
(* What the calls of a pool do to the objects.                             *)
(***************************************************************************)
\* x is as before, or was idle and has been destroyed.
Kept(before, after, x) ==
  \/ after[x] = before[x]
  \/ before[x].place = "idle" /\ after[x].place = "none"

Gone == [NewObject(DefaultDB) EXCEPT !.place = "none"]

\* A destroyed object is typed and sound, and nothing else is touched.
LEMMA DestroyedFacts ==
  ASSUME NEW objs \in [Conn -> Object], AllSound(objs), NEW S \in SUBSET Conn
  PROVE  LET after == Destroyed(objs, S)
         IN /\ after \in [Conn -> Object]
            /\ AllSound(after)
            /\ \A x \in Conn \ S : after[x] = objs[x]
            /\ \A x \in S : after[x].place = "none"
<1>1. Gone \in Object /\ Sound(Gone) /\ Gone.place = "none"
  BY DBAssumption
  DEF Gone, NewObject, Object, Sound, Healthy, Ok, IsRawConnection
<1>2. Destroyed(objs, S) = [c \in Conn |-> IF c \in S THEN Gone ELSE objs[c]]
  BY DEF Destroyed, Gone
<1> HIDE DEF Gone
<1> QED
  BY <1>1, <1>2 DEF AllSound

\* Lending an idle object, or putting one back as idle, keeps it sound.
LEMMA LendFacts ==
  ASSUME NEW o \in Object, Sound(o), o.place = "idle"
  PROVE  LET p == [o EXCEPT !.place = "lent"]
         IN /\ p \in Object /\ Sound(p) /\ p.place = "lent"
            /\ Diverted(p) => Diverted(o)
BY DEF Object, Sound, Healthy, Ok, IsRawConnection, Diverted

LEMMA KeepFacts ==
  ASSUME NEW o \in Object, Sound(o), o.place = "lent", Healthy(o)
  PROVE  LET p == [Update(o, "none", "OK") EXCEPT !.place = "idle"]
         IN /\ p \in Object /\ Sound(p) /\ p.place = "idle"
            /\ Diverted(p) => Diverted(o)
BY DEF Object, Sound, Healthy, Ok, IsRawConnection, Diverted, Update

\* What is in PoolGet: NULL; an idle object or a new one, once expired ones are
\* destroyed; or NULL when there is neither.
LEMMA GetCases ==
  ASSUME NEW objs, NEW d, NEW r \in PoolGet(objs, d)
  PROVE  \/ r = [objs |-> objs, conn |-> NoConn]
         \/ \E swept \in SUBSET IdleOf(objs, d) :
              LET rest == Destroyed(objs, swept)
              IN \/ r = [objs |-> rest, conn |-> NoConn]
                 \/ \E c \in IdleOf(rest, d) :
                      r = [objs |-> [rest EXCEPT ![c].place = "lent"], conn |-> c]
                 \/ \E c \in Conn, p \in Reached(d) : \E o \in Connect(p, d) :
                      /\ rest[c].place = "none" /\ Connected(o)
                      /\ r = [objs |-> [rest EXCEPT ![c] = o], conn |-> c]
<1> SUFFICES ASSUME r # [objs |-> objs, conn |-> NoConn]
             PROVE  \E swept \in SUBSET IdleOf(objs, d) :
                      LET rest == Destroyed(objs, swept)
                      IN \/ r = [objs |-> rest, conn |-> NoConn]
                         \/ \E c \in IdleOf(rest, d) :
                              r = [objs |-> [rest EXCEPT ![c].place = "lent"], conn |-> c]
                         \/ \E c \in Conn, p \in Reached(d) : \E o \in Connect(p, d) :
                              /\ rest[c].place = "none" /\ Connected(o)
                              /\ r = [objs |-> [rest EXCEPT ![c] = o], conn |-> c]
  OBVIOUS
<1> DEFINE Lent(rest) ==
      {[objs |-> [rest EXCEPT ![c].place = "lent"], conn |-> c] : c \in IdleOf(rest, d)}
    Fresh == {o \in UNION {Connect(p, d) : p \in Reached(d)} : Connected(o)}
    Built(rest) ==
      {[objs |-> rest, conn |-> NoConn]} \cup
      {[objs |-> [rest EXCEPT ![co[1]] = co[2]], conn |-> co[1]] :
         co \in {c \in Conn : rest[c].place = "none"} \X Fresh}
<1>1. PICK swept \in SUBSET IdleOf(objs, d) :
        LET rest == Destroyed(objs, swept)
        IN r \in (IF IdleOf(rest, d) # {} THEN Lent(rest) ELSE Built(rest))
  BY DEF PoolGet
<1> DEFINE rest == Destroyed(objs, swept)
<1>2. r \in Lent(rest) \/ r \in Built(rest)
  BY <1>1
<1> HIDE DEF rest
<1>3. CASE r \in Lent(rest)
  BY <1>3 DEF rest
<1>4. CASE r \in Built(rest) /\ r # [objs |-> rest, conn |-> NoConn]
  <2>1. PICK co \in {c \in Conn : rest[c].place = "none"} \X Fresh :
          r = [objs |-> [rest EXCEPT ![co[1]] = co[2]], conn |-> co[1]]
    BY <1>4
  <2>2. co[1] \in Conn /\ rest[co[1]].place = "none" /\ co[2] \in Fresh
    BY <2>1
  <2>3. PICK p \in Reached(d) : co[2] \in Connect(p, d)
    BY <2>2
  <2> QED
    BY <2>1, <2>2, <2>3 DEF rest
<1> QED
  BY <1>2, <1>3, <1>4 DEF rest

\* r is a result of Get: the connection handed out was nobody's, is sound and, with
\* a password, in the database it was in or in the one of the pool.
Handed(objs, r) ==
  /\ r.objs \in [Conn -> Object]
  /\ AllSound(r.objs)
  /\ r.conn \in Conn \cup {NoConn}
  /\ \A x \in Conn : x # r.conn => Kept(objs, r.objs, x)
  /\ r.conn # NoConn =>
       /\ objs[r.conn].place # "lent" /\ r.objs[r.conn].place = "lent"
       /\ HasPassword /\ Diverted(r.objs[r.conn]) => Diverted(objs[r.conn])

\* What Get returns is as Handed says.
LEMMA GetFacts ==
  ASSUME NEW objs \in [Conn -> Object], AllSound(objs), NEW d \in DB,
         NEW r \in PoolGet(objs, d)
  PROVE  Handed(objs, r)
<1>1. CASE r = [objs |-> objs, conn |-> NoConn]
  BY <1>1, NoConnAssumption DEF Handed, Kept
<1>2. ASSUME NEW swept \in SUBSET IdleOf(objs, d)
      PROVE  LET rest == Destroyed(objs, swept)
             IN /\ rest \in [Conn -> Object] /\ AllSound(rest)
                /\ \A x \in Conn : Kept(objs, rest, x)
                /\ \A x \in Conn : rest[x].place = "lent" => objs[x].place = "lent"
  <2>1. swept \in SUBSET Conn /\ \A x \in swept : objs[x].place = "idle"
    BY DEF IdleOf
  <2> QED
    BY <2>1, DestroyedFacts DEF Kept
<1>3. CASE r # [objs |-> objs, conn |-> NoConn]
  <2>1. PICK swept \in SUBSET IdleOf(objs, d) :
          LET rest == Destroyed(objs, swept)
          IN \/ r = [objs |-> rest, conn |-> NoConn]
             \/ \E c \in IdleOf(rest, d) :
                  r = [objs |-> [rest EXCEPT ![c].place = "lent"], conn |-> c]
             \/ \E c \in Conn, p \in Reached(d) : \E o \in Connect(p, d) :
                  /\ rest[c].place = "none" /\ Connected(o)
                  /\ r = [objs |-> [rest EXCEPT ![c] = o], conn |-> c]
    BY <1>3, GetCases
  <2> DEFINE rest == Destroyed(objs, swept)
  <2>2. /\ rest \in [Conn -> Object] /\ AllSound(rest)
        /\ \A x \in Conn : Kept(objs, rest, x)
        /\ \A x \in Conn : rest[x].place = "lent" => objs[x].place = "lent"
    BY <1>2
  <2>3. \/ r = [objs |-> rest, conn |-> NoConn]
        \/ \E c \in IdleOf(rest, d) :
             r = [objs |-> [rest EXCEPT ![c].place = "lent"], conn |-> c]
        \/ \E c \in Conn, p \in Reached(d) : \E o \in Connect(p, d) :
             /\ rest[c].place = "none" /\ Connected(o)
             /\ r = [objs |-> [rest EXCEPT ![c] = o], conn |-> c]
    BY <2>1
  <2> HIDE DEF rest
  <2>4. CASE r = [objs |-> rest, conn |-> NoConn]
    BY <2>2, <2>4, NoConnAssumption DEF Handed
  <2>5. ASSUME NEW c \in IdleOf(rest, d),
               r = [objs |-> [rest EXCEPT ![c].place = "lent"], conn |-> c]
        PROVE  Handed(objs, r)
    <3>1. c \in Conn /\ rest[c].place = "idle" /\ rest[c] = objs[c]
      BY <2>2, <2>5 DEF IdleOf, Kept
    <3> DEFINE o == [rest[c] EXCEPT !.place = "lent"]
    <3>2. o \in Object /\ Sound(o) /\ o.place = "lent"
          /\ (Diverted(o) => Diverted(objs[c]))
      BY <2>2, <3>1, LendFacts DEF AllSound
    <3>3. r.objs = [rest EXCEPT ![c] = o] /\ r.conn = c
      BY <2>5
    <3> HIDE DEF o
    <3> QED
      BY <2>2, <3>1, <3>2, <3>3, NoConnAssumption DEF Handed, AllSound, Kept
  <2>6. ASSUME NEW c \in Conn, NEW p \in Reached(d), NEW o \in Connect(p, d),
               rest[c].place = "none", Connected(o),
               r = [objs |-> [rest EXCEPT ![c] = o], conn |-> c]
        PROVE  Handed(objs, r)
    <3>1. /\ o \in Object /\ Sound(o) /\ o.place = "lent"
          /\ HasPassword => ~Diverted(o)
      BY <2>6, ConnectFacts DEF Diverted
    <3>2. objs[c].place # "lent"
      BY <2>2, <2>6 DEF Kept
    <3> QED
      BY <2>2, <2>6, <3>1, <3>2, NoConnAssumption DEF Handed, AllSound, Kept
  <2> QED
    BY <2>3, <2>4, <2>5, <2>6
<1> QED
  BY <1>1, <1>3

\* after is a result of giving c back: it left the application, alive only if it
\* was healthy, and others are as before.
GivenBack(objs, c, after) ==
  /\ after \in [Conn -> Object]
  /\ AllSound(after)
  /\ \A x \in Conn : x # c => Kept(objs, after, x)
  /\ after[c].place # "lent"
  /\ Diverted(after[c]) => Diverted(objs[c])
  /\ objs[c].ctx = "broken" => after[c].place = "none"

\* Done on a connection that is held gives it back.
LEMMA DoneFacts ==
  ASSUME NEW objs \in [Conn -> Object], AllSound(objs), NEW c \in Conn,
         objs[c].place = "lent", NEW after \in Done(objs, c)
  PROVE  GivenBack(objs, c, after)
<1> DEFINE raw == [objs EXCEPT ![c] = Update(@, "none", "OK")]
           kept == [raw EXCEPT ![c].place = "idle"]
           o == [Update(objs[c], "none", "OK") EXCEPT !.place = "idle"]
<1>1. after \in PoolPut(raw, c, Healthy(objs[c]))
  BY NoConnAssumption DEF Done, Healthy
<1>2. CASE ~Healthy(objs[c])
  <2>1. after = Destroyed(raw, {c})
    BY <1>1, <1>2 DEF PoolPut
  <2>2. after = Destroyed(objs, {c})
    BY <2>1 DEF Destroyed
  <2> QED
    BY <2>2, DestroyedFacts DEF GivenBack, Kept, Diverted
<1>3. CASE Healthy(objs[c])
  <2>1. o \in Object /\ Sound(o) /\ o.place = "idle"
        /\ (Diverted(o) => Diverted(objs[c]))
    BY <1>3, KeepFacts DEF AllSound
  <2>2. kept = [objs EXCEPT ![c] = o]
    BY DEF Update
  <2>3. \/ after = kept
        \/ \E v \in IdleOf(raw, raw[c].home) : after = Destroyed(kept, {v})
    BY <1>1, <1>3 DEF PoolPut
  <2>4. \A v \in IdleOf(raw, raw[c].home) : v \in Conn /\ v # c /\ objs[v].place = "idle"
    BY DEF IdleOf, Update, Object
  <2> HIDE DEF raw, kept, o
  <2>5. objs[c].ctx # "broken"
    BY <1>3 DEF AllSound, Sound, Object
  <2>6. GivenBack(objs, c, kept)
    BY <2>1, <2>2, <2>5 DEF GivenBack, AllSound, Kept
  <2>7. ASSUME NEW v \in Conn, v # c, objs[v].place = "idle",
               after = Destroyed(kept, {v})
        PROVE  GivenBack(objs, c, after)
    <3>1. /\ after \in [Conn -> Object] /\ AllSound(after)
          /\ \A x \in Conn \ {v} : after[x] = kept[x]
          /\ after[v].place = "none"
      BY <2>6, <2>7, DestroyedFacts DEF GivenBack
    <3> QED
      BY <2>5, <2>6, <2>7, <3>1 DEF GivenBack, Kept
  <2> QED
    BY <2>3, <2>4, <2>6, <2>7
<1> QED
  BY <1>2, <1>3

-----------------------------------------------------------------------------
(***************************************************************************)
(* The steps, as far as they touch connections: HInv is kept, and every    *)
(* connection moves in one of the ways Moves lists.                        *)
(***************************************************************************)
\* The new state of the fields of connection c.
Moves(c) ==
  \/ obj'[c] = obj[c]
  \/ obj'[c].place = "none"
  \/ /\ obj[c].place # "lent" /\ obj'[c].place = "lent"
     /\ HasPassword /\ Diverted(obj'[c]) => Diverted(obj[c])
  \/ /\ obj[c].place = "lent" /\ obj'[c].place = "idle" /\ obj[c].ctx # "broken"
     /\ Diverted(obj'[c]) => Diverted(obj[c])
  \/ /\ obj[c].place = "lent" /\ obj'[c].place = "lent"
     /\ obj[c].ctx = "broken" => obj'[c].ctx = "broken"
     /\ Diverted(obj'[c]) =>
          Diverted(obj[c]) \/ \E h \in Handle, d \in DB : impl[h] = c /\ Select(h, d)

\* Nothing but move assignment loses a connection.
NoneLost ==
  \A c \in Conn : obj'[c].place = "lent" =>
     Held(c)' \/ (obj[c].place = "lent" /\ ~Held(c))

\* What every action but move assignment does.
Step == HInv' /\ (\A c \in Conn : Moves(c)) /\ NoneLost

\* A handle that is constructed from a pointer takes it from the pool.
LEMMA OpenStep ==
  ASSUME HInv, NEW h \in Handle, NEW d \in DB, Open(h, d)
  PROVE  Step
<1> USE DEF HInv, TypeOK
<1>1. PICK r \in PoolGet(obj, d) :
        obj' = r.objs /\ impl' = [impl EXCEPT ![h] = r.conn]
  BY DEF Open
<1>2. Handed(obj, r)
  BY <1>1, GetFacts
<1>3. live' = live \cup {h} /\ dummy' = dummy /\ h \notin live
  BY DEF Open
<1>4. impl[h] = NoConn
  BY <1>3 DEF HandlesExclusive
<1>5. TypeOK' /\ AllSound(obj)'
  BY <1>1, <1>2, <1>3 DEF Handed, AllSound
<1>6. \A g \in Handle : impl[g] # NoConn =>
        impl[g] # r.conn /\ obj'[impl[g]] = obj[impl[g]]
  BY <1>1, <1>2 DEF Handed, HandlesExclusive, Kept
<1>7. HandlesExclusive'
  BY <1>1, <1>2, <1>3, <1>4, <1>6 DEF Handed, HandlesExclusive
<1>8. ASSUME NEW c \in Conn PROVE Moves(c)
  <2>1. CASE c = r.conn
    <3>1. /\ obj[c].place # "lent" /\ obj'[c].place = "lent"
          /\ HasPassword /\ Diverted(obj'[c]) => Diverted(obj[c])
      BY <1>1, <1>2, <2>1, NoConnAssumption DEF Handed
    <3> QED
      BY <3>1 DEF Moves
  <2>2. CASE c # r.conn
    <3>1. obj'[c] = obj[c] \/ obj'[c].place = "none"
      BY <1>1, <1>2, <2>2 DEF Handed, Kept
    <3> QED
      BY <3>1 DEF Moves
  <2> QED
    BY <2>1, <2>2
<1>9. NoneLost
  BY <1>1, <1>2, <1>3, <1>4 DEF NoneLost, Held, Handed, Kept, HandlesExclusive
<1> QED
  BY <1>5, <1>7, <1>8, <1>9 DEF Step

\* A destructor gives the connection of its handle back.
LEMMA DropStep ==
  ASSUME HInv, NEW h \in Handle, Drop(h)
  PROVE  Step
<1> USE DEF HInv, TypeOK
<1>1. /\ obj' \in Done(obj, impl[h])
      /\ impl' = [impl EXCEPT ![h] = NoConn]
      /\ live' = live \ {h} /\ dummy' = dummy
  BY DEF Drop
<1>2. CASE impl[h] = NoConn
  <2>1. obj' = obj
    BY <1>1, <1>2 DEF Done
  <2>2. impl' = impl
    BY <1>1, <1>2
  <2> QED
    BY <1>1, <1>2, <2>1, <2>2, NoConnAssumption
    DEF Step, HandlesExclusive, AllSound, Moves, NoneLost, Held
<1>3. CASE impl[h] # NoConn
  <2>1. impl[h] \in Conn /\ obj[impl[h]].place = "lent"
    BY <1>3 DEF HandlesExclusive
  <2>2. GivenBack(obj, impl[h], obj')
    BY <1>1, <2>1, DoneFacts
  <2>3. TypeOK' /\ AllSound(obj)'
    BY <1>1, <2>2 DEF GivenBack, AllSound
  <2>4. \A g \in Handle : g # h /\ impl[g] # NoConn => obj'[impl[g]] = obj[impl[g]]
    BY <1>3, <2>2 DEF GivenBack, HandlesExclusive, Kept
  <2>5. HandlesExclusive'
    BY <1>1, <2>4 DEF HandlesExclusive
  <2>6. ASSUME NEW c \in Conn PROVE Moves(c)
    <3>1. CASE c = impl[h]
      BY <2>1, <2>2, <2>3, <3>1 DEF GivenBack, Moves, Object
    <3>2. CASE c # impl[h]
      BY <2>2, <3>2 DEF GivenBack, Kept, Moves
    <3> QED
      BY <3>1, <3>2
  <2>7. NoneLost
    BY <1>1, <2>1, <2>2 DEF NoneLost, Held, GivenBack, Kept
  <2> QED
    BY <2>3, <2>5, <2>6, <2>7 DEF Step
<1> QED
  BY <1>2, <1>3

\* Assignment from a pointer takes a connection first and gives the old one back
\* then, and they are never the same.
LEMMA ReassignStep ==
  ASSUME HInv, NEW h \in Handle, NEW d \in DB, Reassign(h, d)
  PROVE  Step
<1> USE DEF HInv, TypeOK
<1>1. PICK r \in PoolGet(obj, d) :
        /\ obj' \in Done(r.objs, impl[h])
        /\ impl' = [impl EXCEPT ![h] = r.conn]
  BY DEF Reassign
<1>2. Handed(obj, r)
  BY <1>1, GetFacts
<1>3. live' = live /\ dummy' = dummy /\ h \in live
  BY DEF Reassign
<1>4. \A g \in Handle : impl[g] # NoConn =>
        /\ impl[g] \in Conn /\ impl[g] # r.conn
        /\ obj[impl[g]].place = "lent" /\ r.objs[impl[g]] = obj[impl[g]]
  BY <1>2 DEF Handed, HandlesExclusive, Kept
<1>5. /\ obj' \in [Conn -> Object] /\ AllSound(obj')
      /\ \A c \in Conn : c # impl[h] => Kept(r.objs, obj', c)
      /\ impl[h] # NoConn =>
           /\ obj'[impl[h]].place # "lent"
           /\ Diverted(obj'[impl[h]]) => Diverted(obj[impl[h]])
           /\ obj[impl[h]].ctx = "broken" => obj'[impl[h]].place = "none"
  <2>1. CASE impl[h] = NoConn
    BY <1>1, <1>2, <2>1 DEF Done, Handed, Kept
  <2>2. CASE impl[h] # NoConn
    <3>1. GivenBack(r.objs, impl[h], obj')
      BY <1>1, <1>2, <1>4, <2>2, DoneFacts DEF Handed
    <3> QED
      BY <1>4, <2>2, <3>1 DEF GivenBack
  <2> QED
    BY <2>1, <2>2
<1>6. TypeOK' /\ AllSound(obj)'
  BY <1>1, <1>2, <1>3, <1>5 DEF Handed, AllSound
<1>7. r.conn # NoConn =>
        r.conn \in Conn /\ r.conn # impl[h] /\ obj'[r.conn] = r.objs[r.conn]
  BY <1>2, <1>4, <1>5, NoConnAssumption DEF Handed, Kept
<1>8. \A g \in Handle : g # h /\ impl[g] # NoConn => obj'[impl[g]] = obj[impl[g]]
  BY <1>4, <1>5 DEF Kept, HandlesExclusive
<1>9. HandlesExclusive'
  BY <1>1, <1>2, <1>3, <1>4, <1>7, <1>8 DEF Handed, HandlesExclusive
<1>10. ASSUME NEW c \in Conn PROVE Moves(c)
  <2>1. CASE c = r.conn
    <3>1. /\ obj[c].place # "lent" /\ obj'[c].place = "lent"
          /\ HasPassword /\ Diverted(obj'[c]) => Diverted(obj[c])
      BY <1>2, <1>7, <2>1, NoConnAssumption DEF Handed
    <3> QED
      BY <3>1 DEF Moves
  <2>2. CASE c = impl[h]
    <3>1. /\ obj[c].place = "lent"
          /\ obj'[c].place # "lent"
          /\ Diverted(obj'[c]) => Diverted(obj[c])
          /\ obj[c].ctx = "broken" => obj'[c].place = "none"
      BY <1>4, <1>5, <2>2, NoConnAssumption
    <3>2. obj'[c].place \in {"none", "idle"}
      BY <1>5, <3>1 DEF Object
    <3> QED
      BY <3>1, <3>2 DEF Moves
  <2>3. CASE c # r.conn /\ c # impl[h]
    <3>1. obj'[c] = obj[c] \/ obj'[c].place = "none"
      BY <1>2, <1>5, <2>3 DEF Handed, Kept
    <3> QED
      BY <3>1 DEF Moves
  <2> QED
    BY <2>1, <2>2, <2>3
<1>11. NoneLost
  <2>1. SUFFICES ASSUME NEW c \in Conn, obj'[c].place = "lent"
                 PROVE  Held(c)' \/ (obj[c].place = "lent" /\ ~Held(c))
    BY DEF NoneLost
  <2>2. CASE c = r.conn
    BY <1>1, <1>3, <2>2 DEF Held
  <2>3. CASE c # r.conn
    <3>1. c # impl[h] /\ obj[c].place = "lent"
      BY <1>2, <1>5, <2>1, <2>3, NoConnAssumption DEF Handed, Kept
    <3> QED
      BY <1>1, <1>3, <3>1 DEF Held
  <2> QED
    BY <2>2, <2>3
<1> QED
  BY <1>6, <1>9, <1>10, <1>11 DEF Step

\* A command through a handle, SELECT or another: o is what becomes of the object.
LEMMA UseStep ==
  ASSUME HInv, NEW c \in Conn, NEW h \in live, impl[h] = c, NEW o \in Object,
         obj' = [obj EXCEPT ![c] = o], UNCHANGED <<impl, live, dummy>>,
         o.place = obj[c].place, o.authed = obj[c].authed,
         Healthy(o) => o.ctx = "good",
         o.ctx = "broken" => o.reply = "none",
         obj[c].ctx = "broken" => o.ctx = "broken",
         Diverted(o) => Diverted(obj[c]) \/ \E g \in Handle, d \in DB : impl[g] = c /\ Select(g, d)
  PROVE  Step
<1> USE DEF HInv, TypeOK
<1>1. obj[c].place = "lent"
  BY NoConnAssumption DEF HandlesExclusive
<1>2. Sound(o)
  BY <1>1 DEF AllSound, Sound
<1>3. TypeOK' /\ AllSound(obj)'
  BY <1>2 DEF AllSound
<1>4. HandlesExclusive'
  BY DEF HandlesExclusive
<1>5. \A x \in Conn : Moves(x)
  BY <1>1 DEF Moves
<1>6. NoneLost
  BY <1>1 DEF NoneLost, Held
<1> QED
  BY <1>3, <1>4, <1>5, <1>6 DEF Step

LEMMA CommandStep ==
  ASSUME HInv, NEW h \in Handle, Command(h)
  PROVE  Step
<1> USE DEF HInv, TypeOK
<1>1. CASE impl[h] = NoConn
  <2>1. PICK outcome \in Outcome(dummy) : dummy' = Do(dummy, outcome)
    BY <1>1 DEF Command
  <2>2. dummy' \in Object
    BY <2>1, OutcomeAnswers, DoFacts
  <2>3. UNCHANGED <<obj, impl, live>>
    BY <1>1 DEF Command
  <2> QED
    BY <2>2, <2>3 DEF Step, HandlesExclusive, AllSound, Moves, NoneLost, Held
<1>2. CASE impl[h] # NoConn
  <2> DEFINE c == impl[h]
  <2>1. c \in Conn /\ h \in live
    BY <1>2 DEF HandlesExclusive
  <2>2. PICK outcome \in Outcome(obj[c]) :
          obj' = [obj EXCEPT ![c] = Do(obj[c], outcome)]
    BY <1>2, <2>1 DEF Command
  <2>3. UNCHANGED <<impl, live, dummy>>
    BY <1>2 DEF Command
  <2> DEFINE o == Do(obj[c], outcome)
  <2>4. /\ o \in Object
        /\ o.place = obj[c].place /\ o.home = obj[c].home
        /\ o.db = obj[c].db /\ o.authed = obj[c].authed
        /\ obj[c].ctx = "broken" => o.ctx = "broken"
        /\ Healthy(o) => o.ctx = "good"
        /\ o.ctx = "broken" => o.reply = "none"
    BY <2>1, OutcomeAnswers, DoFacts
  <2>5. Diverted(o) => Diverted(obj[c])
    BY <2>4 DEF Diverted
  <2>6. obj' = [obj EXCEPT ![c] = o]
    BY <2>2
  <2> HIDE DEF o
  <2> QED
    BY <2>1, <2>3, <2>4, <2>5, <2>6, UseStep
<1> QED
  BY <1>1, <1>2

LEMMA SelectStep ==
  ASSUME HInv, NEW h \in Handle, NEW d \in DB, Select(h, d)
  PROVE  Step
<1> USE DEF HInv, TypeOK
<1> DEFINE c == impl[h]
<1>1. c \in Conn /\ h \in live
  BY DEF Select
<1>2. PICK outcome \in Outcome(obj[c]) :
        obj' = [obj EXCEPT ![c] = DoSelect(obj[c], outcome, d)]
  BY <1>1 DEF Select
<1>3. UNCHANGED <<impl, live, dummy>>
  BY DEF Select
<1> DEFINE p == Do(obj[c], outcome)
           o == DoSelect(obj[c], outcome, d)
<1>4. outcome \in Answers /\ obj[c] \in Object
  BY <1>1, OutcomeAnswers
<1>5. /\ p.place = obj[c].place /\ p.authed = obj[c].authed
      /\ obj[c].ctx = "broken" => p.ctx = "broken"
      /\ Healthy(p) => p.ctx = "good"
      /\ p.ctx = "broken" => p.reply = "none"
  BY <1>4, DoFacts
<1>6. /\ o \in Object
      /\ o.place = p.place /\ o.authed = p.authed
      /\ o.ctx = p.ctx /\ o.reply = p.reply /\ o.err = p.err
  BY <1>4, SelectFacts
<1>7. Healthy(o) <=> Healthy(p)
  BY <1>6 DEF Healthy, Ok, IsRawConnection
<1>8. \E g \in Handle, e \in DB : impl[g] = c /\ Select(g, e)
  OBVIOUS
<1>9. obj' = [obj EXCEPT ![c] = o]
  BY <1>2
<1> HIDE DEF o, p
<1> QED
  BY <1>1, <1>3, <1>5, <1>6, <1>7, <1>8, <1>9, UseStep

\* Move construction passes the connection on.
LEMMA MoveConstructStep ==
  ASSUME HInv, NEW h \in Handle, NEW g \in Handle, MoveConstruct(h, g)
  PROVE  Step
<1> USE DEF HInv, TypeOK
<1>1. /\ impl' = [impl EXCEPT ![h] = impl[g], ![g] = NoConn]
      /\ live' = live \cup {h} /\ h \notin live /\ g \in live
      /\ UNCHANGED <<obj, dummy>>
  BY DEF MoveConstruct
<1>2. impl[h] = NoConn /\ h # g
  BY <1>1 DEF HandlesExclusive
<1>3. TypeOK' /\ AllSound(obj)'
  BY <1>1 DEF AllSound
<1>4. HandlesExclusive'
  BY <1>1, <1>2 DEF HandlesExclusive
<1>5. NoneLost
  BY <1>1, <1>2, NoConnAssumption DEF NoneLost, Held
<1> QED
  BY <1>1, <1>3, <1>4, <1>5 DEF Step, Moves

\* So does move assignment, and it forgets what the target held.
LEMMA MoveAssignStep ==
  ASSUME HInv, NEW h \in Handle, NEW g \in Handle, MoveAssign(h, g)
  PROVE  HInv' /\ \A c \in Conn : Moves(c)
<1> USE DEF HInv, TypeOK
<1>1. /\ impl' = [impl EXCEPT ![h] = impl[g], ![g] = NoConn]
      /\ h \in live /\ g \in live
      /\ UNCHANGED <<obj, live, dummy>>
  BY DEF MoveAssign
<1>2. TypeOK' /\ AllSound(obj)'
  BY <1>1 DEF AllSound
<1>3. HandlesExclusive'
  BY <1>1 DEF HandlesExclusive
<1> QED
  BY <1>1, <1>2, <1>3 DEF Moves
-----------------------------------------------------------------------------
(***************************************************************************)
(* The theorems.                                                           *)
(***************************************************************************)
LEMMA InitHolds == Init => HInv
<1> SUFFICES ASSUME Init PROVE HInv
  OBVIOUS
<1>1. obj = [c \in Conn |-> Gone]
  BY DEF Init, Destroyed, Gone
<1>2. Gone \in Object /\ Sound(Gone) /\ NewObject(DefaultDB) \in Object
  BY DBAssumption
  DEF Gone, NewObject, Object, Sound, Healthy, Ok, IsRawConnection
<1> HIDE DEF Gone
<1> QED
  BY <1>1, <1>2 DEF Init, HInv, TypeOK, HandlesExclusive, AllSound

LEMMA NextHolds ==
  ASSUME HInv, [Next]_vars
  PROVE  /\ HInv' /\ \A c \in Conn : Moves(c)
         /\ NoneLost \/ \E h, g \in Handle : MoveAssign(h, g)
<1>1. CASE UNCHANGED vars
  BY <1>1 DEF vars, HInv, TypeOK, HandlesExclusive, AllSound, Moves, NoneLost, Held
<1>2. CASE Next
  BY <1>2, OpenStep, ReassignStep, DropStep, CommandStep, SelectStep,
     MoveConstructStep, MoveAssignStep DEF Next, Step
<1> QED
  BY <1>1, <1>2

LEMMA HInvHolds == Spec => []HInv
<1>1. HInv /\ [Next]_vars => HInv'
  BY NextHolds
<1> QED
  BY <1>1, InitHolds, PTL DEF Spec

\* The fields of handles and objects keep their types.
THEOREM HandleTypes == Spec => []TypeOK
<1>1. HInv => TypeOK
  BY DEF HInv
<1> QED
  BY <1>1, HInvHolds, PTL

\* A connection answers to at most one handle, and a handle to none that went back
\* to its pool or was destroyed, whatever handles the application constructs,
\* assigns, moves and destroys (RedisConnection, connection.cc).
THEOREM OneHandle == Spec => []HandlesExclusive
<1>1. HInv => HandlesExclusive
  BY DEF HInv
<1> QED
  BY <1>1, HInvHolds, PTL

\* Done judges a connection by its last reply alone, and yet nothing that failed is
\* ever idle in a pool.
THEOREM PoolsStayReady == Spec => []PooledReady
<1>1. HInv => PooledReady
  BY DEF HInv, PooledReady, AllSound, Sound
<1> QED
  BY <1>1, HInvHolds, PTL

\* With a password configured no connection enters circulation that the server
\* would refuse to serve, although Connect ignores the answer to AUTH.
THEOREM AllAuthenticated == Spec => []Authenticated
<1>1. HInv => Authenticated
  BY DEF HInv, Authenticated, AllSound, Sound
<1> QED
  BY <1>1, HInvHolds, PTL

\* Once a context has failed, its handle sees no reply and its object does not
\* survive the handle.
THEOREM ErrorsStick == Spec => BrokenForGood
<1>1. ASSUME HInv, [Next]_vars
      PROVE  \A c \in Conn :
               obj[c].ctx = "broken" =>
                 \/ obj'[c].place = "none"
                 \/ obj'[c].place = "lent" /\ obj'[c].ctx = "broken"
                    /\ obj'[c].reply = "none"
  <2> SUFFICES ASSUME NEW c \in Conn, obj[c].ctx = "broken", obj'[c].place # "none"
               PROVE  obj'[c].place = "lent" /\ obj'[c].ctx = "broken"
                      /\ obj'[c].reply = "none"
    OBVIOUS
  <2>1. obj[c].place = "lent"
    BY <1>1 DEF HInv, TypeOK, AllSound, Sound, Object
  <2>2. obj'[c].place = "lent" /\ obj'[c].ctx = "broken"
    BY <1>1, <2>1, NextHolds DEF Moves
  <2> QED
    BY <1>1, <2>2, NextHolds DEF HInv, AllSound, Sound
<1> QED
  BY <1>1, HInvHolds, PTL DEF Spec, BrokenForGood

\* Move assignment is the only operation of a handle that loses a connection.
THEOREM OthersLoseNone == Spec => OnlyMoveAssignLeaks
<1>1. ASSUME HInv, [Next]_vars
      PROVE  \/ \A c \in Conn : obj'[c].place = "lent" =>
                  Held(c)' \/ (obj[c].place = "lent" /\ ~Held(c))
             \/ \E h, g \in Handle : MoveAssign(h, g)
  BY <1>1, NextHolds DEF NoneLost
<1> QED
  BY <1>1, HInvHolds, PTL DEF Spec, OnlyMoveAssignLeaks

\* An application that move-assigns no handle loses no connection.
THEOREM NoLeakWithoutMoves == ~MoveAssigns => (Spec => []NoLeak)
<1> SUFFICES ASSUME ~MoveAssigns PROVE Spec => []NoLeak
  OBVIOUS
<1>1. Init => NoLeak
  BY DEF Init, NoLeak, Destroyed, NewObject
<1>2. HInv /\ NoLeak /\ [Next]_vars => NoLeak'
  BY NextHolds DEF NoLeak, NoneLost, MoveAssign
<1> QED
  BY <1>1, <1>2, HInvHolds, PTL DEF Spec

\* With a password set, only a SELECT sent by the application leads a connection
\* away from the database of its pool.
THEOREM OthersStay == HasPassword => (Spec => OnlySelectDiverts)
<1> SUFFICES ASSUME HasPassword PROVE Spec => OnlySelectDiverts
  OBVIOUS
<1>1. ASSUME HInv, [Next]_vars
      PROVE  \A c \in Conn :
               Diverted(obj'[c]) =>
                 \/ Diverted(obj[c])
                 \/ \E h \in Handle, d \in DB : impl[h] = c /\ Select(h, d)
  BY <1>1, NextHolds DEF Moves, Diverted
<1> QED
  BY <1>1, HInvHolds, PTL DEF Spec, OnlySelectDiverts
=============================================================================
