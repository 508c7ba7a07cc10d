------------------------------ MODULE RedisAsync ------------------------------
(***************************************************************************)
(* The asynchronous API of hiredis (async.c) over a RedisContext: events   *)
(* of the event library, the queue of callbacks, subscriptions, and        *)
(* callbacks that issue commands, disconnect or free the context.          *)
(*                                                                         *)
(* The application connects either a blocking context, which then behaves  *)
(* as RedisContext says, or an asynchronous one.  One thread runs the      *)
(* event loop and everything it calls; pc says where it is.  An event is   *)
(* reported once for each time it was asked for, as with libevent.         *)
(***************************************************************************)
EXTENDS RedisContext, Dict

CONSTANTS
    Programs,     \* the sequences of commands the application may issue
    MaxPublished  \* messages published or monitored

\* The server answers SUBSCRIBE without a topic, and what it does not know, with
\* an error like any other; no program does that.
ASSUME ProgramsAssumption ==
    /\ Programs \subseteq Seq([op : {"get", "monitor", "subscribe", "unsubscribe"},
                             topics : Seq(DOMAIN Hash), pattern : BOOLEAN, fn : BOOLEAN])
    /\ \A p \in Programs : \A i \in DOMAIN p : p[i].op = "subscribe" => p[i].topics # <<>>
ASSUME MaxPublishedAssumption == MaxPublished \in Nat

VARIABLES
    ac,     \* the redisAsyncContext around c
    frame,  \* what the functions in progress hold in local variables
    cmds,   \* the command with each number
    server, \* its subscriptions, whether it feeds a monitor, messages so far
    calls,  \* how often the callback of each command ran
    faults  \* ways to go wrong that have been taken

asyncVars == <<ac, frame, cmds, server, calls, faults>>
vars == <<contextVars, asyncVars>>

\* A redisCallback: fn may be NULL.
Callback(k, fn) == [id |-> k, fn |-> fn, pending |-> 1]
NoCallback == [id |-> 0, fn |-> FALSE, pending |-> 0]

NoContext ==
    [err |-> "ok", replies |-> <<>>, invalid |-> <<>>,
     channels |-> dictCreate, patterns |-> dictCreate, ev |-> {}]
NoFrame ==
    [cb |-> NoCallback, reply |-> [op |-> "null", req |-> 0], then |-> "none",
     phase |-> "replies", todo |-> <<>>]
NoServer == [subs |-> {}, monitor |-> FALSE, published |-> 0]

Has(k, flag) == flag \in k.flags
Set(k, flag) == [k EXCEPT !.flags = @ \cup {flag}]
Unset(k, flag) == [k EXCEPT !.flags = @ \ {flag}]
DictOf(a, pattern) == IF pattern THEN a.patterns ELSE a.channels
WithDict(a, pattern, d) ==
    IF pattern THEN [a EXCEPT !.patterns = d] ELSE [a EXCEPT !.channels = d]

\* No step of a handler touches these, and few touch the socket.
Quiet == UNCHANGED <<try, fds, issued, waiting, ret, reconnects, cmds>>
Still == UNCHANGED <<peer, up, down, server>>

(***************************************************************************)
(* redisAsyncConnect: the context connects anew with the first event.  If  *)
(* there is no error yet the application attaches an event library and     *)
(* sets a connect callback, which asks for a write event.                  *)
(***************************************************************************)
Initialize ==
    /\ pc = "init" /\ pc' = "loop"
    /\ c' = Unset(c, "CONNECTED")
    /\ ac' = [NoContext EXCEPT !.err = c.err, !.ev = IF c.err = "ok" THEN {"write"} ELSE {}]
    /\ Quiet /\ Still /\ UNCHANGED <<frame, calls, faults>>

(***************************************************************************)
(* __redisAsyncFree begins.  The buffers and the socket are not looked at  *)
(* again.                                                                  *)
(***************************************************************************)
StartFree(k, a) ==
    /\ c' = [k EXCEPT !.obuf = sdsempty, !.inbuf = <<>>]
    /\ ac' = a /\ pc' = "free"
    /\ frame' = [NoFrame EXCEPT !.then = IF pc = "connected" THEN frame.then ELSE "none"]
    /\ peer' = "none" /\ up' = <<>> /\ down' = <<>> /\ server' = NoServer
    /\ UNCHANGED <<calls, faults>>

Crash(kind) ==
    /\ pc' = "crashed" /\ faults' = faults \cup {kind}
    /\ Still /\ UNCHANGED <<frame, calls>>

\* __redisAsyncDisconnect.  Mutant: pending callbacks may issue commands.
BugDisconnect(k, a) ==
    LET copied == [a EXCEPT !.err = k.err] IN
    IF k.err = "ok" /\ a.replies # <<>>
    THEN c' = k /\ ac' = copied /\ Crash("clean")
    ELSE StartFree(k, copied)
Disconnect(k, a) ==
    LET copied == [a EXCEPT !.err = k.err] IN
    IF k.err = "ok" /\ a.replies # <<>>
    THEN c' = k /\ ac' = copied /\ Crash("clean")
    ELSE StartFree(IF k.err = "ok" THEN k ELSE Set(k, "DISCONNECTING"), copied)

(***************************************************************************)
(* What the application may do in the event loop or in a callback.         *)
(***************************************************************************)
App == pc \in {"loop", "connected", "callback", "freecallback"}

\* redisAsyncFree: inside a callback it only leaves a flag.
AppFree ==
    /\ App /\ Quiet
    /\ IF Has(c, "IN_CALLBACK")
       THEN c' = Set(c, "FREEING") /\ Still /\ UNCHANGED <<pc, ac, frame, calls, faults>>
       ELSE StartFree(Set(c, "FREEING"), ac)

\* Mutant of the next: at once in any case.
BugAppDisconnect ==
    /\ App /\ Quiet /\ ~Has(c, "IN_CALLBACK")
    /\ Disconnect(Set(c, "DISCONNECTING"), ac)

\* redisAsyncDisconnect: at once if nothing is pending, or else later.
AppDisconnect ==
    /\ App /\ Quiet
    /\ IF ~Has(c, "IN_CALLBACK") /\ ac.replies = <<>>
       THEN Disconnect(Set(c, "DISCONNECTING"), ac)
       ELSE c' = Set(c, "DISCONNECTING") /\ Still /\ UNCHANGED <<pc, ac, frame, calls, faults>>

\* Mutant: the counter starts anew.
BugSubscribed(d, topics, cb) ==
    FoldLeft(LAMBDA acc, t : dictReplace(acc, t, cb), d, topics)

\* Every topic of a SUBSCRIBE gets the callback.  The counter found for one
\* topic is where the next one starts from.
Subscribed(d, topics, cb) ==
    FoldLeft(LAMBDA acc, t :
               LET n == IF dictHas(acc.d, t) THEN dictFind(acc.d, t).pending + 1 ELSE acc.n
               IN  [d |-> dictReplace(acc.d, t, [cb EXCEPT !.pending = n]), n |-> n],
             [d |-> d, n |-> cb.pending], topics).d

\* Mutant of Registered: subscribed mode makes no difference.
BugRegistered(a, m, cb) ==
    CASE m.op = "subscribe"   -> WithDict(a, m.pattern, Subscribed(DictOf(a, m.pattern), m.topics, cb))
      [] m.op = "unsubscribe" -> a
      [] OTHER                -> [a EXCEPT !.replies = Append(@, cb)]

\* Where the callback is kept.  A command issued in subscribed mode is expected
\* to fail, out of order with the messages; UNSUBSCRIBE has no callback.
Registered(a, m, cb) ==
    CASE m.op = "subscribe"   -> WithDict(a, m.pattern, Subscribed(DictOf(a, m.pattern), m.topics, cb))
      [] m.op = "unsubscribe" -> a
      [] m.op = "get" /\ Has(c, "SUBSCRIBED") -> [a EXCEPT !.invalid = Append(@, cb)]
      [] OTHER                -> [a EXCEPT !.replies = Append(@, cb)]

Flagged(k, m) ==
    CASE m.op = "subscribe" -> Set(k, "SUBSCRIBED")
      [] m.op = "monitor"   -> Set(k, "MONITORING")
      [] OTHER              -> k

Accepted(m) ==
    /\ ~Has(c, "DISCONNECTING") /\ ~Has(c, "FREEING")
    /\ m.op = "unsubscribe" => Has(c, "SUBSCRIBED")

\* __redisAsyncCommand.  That appending failed is not looked at.  An application
\* that finds a new context in error issues nothing.
AsyncCommand ==
    /\ App
    /\ pc = "loop" => ac.err = "ok"
    /\ \E p \in {p \in Programs : IsStrictPrefix(cmds, p)} :
         LET m == p[issued + 1] IN
         /\ Accepted(m)
         /\ ac' = [Registered(ac, m, Callback(issued + 1, m.fn)) EXCEPT !.ev = @ \cup {"write"}]
         /\ c' \in {Flagged(Appended, m), Flagged(SetError(c, "oom"), m)}
         /\ cmds' = Append(cmds, m)
    /\ issued' = issued + 1 /\ calls' = Append(calls, 0)
    /\ UNCHANGED <<pc, try, fds, peer, up, down, waiting, ret, reconnects, frame, server, faults>>

(***************************************************************************)
(* Read and write events                                                   *)
(***************************************************************************)
\* redisBufferRead on a socket that does not block.
ReadEvent(k, a) ==
    \/ k.err # "ok" /\ Disconnect(k, a)
    \/ /\ k.err = "ok"
       /\ \E n \in 1..Len(down) :
            /\ c' = [k EXCEPT !.inbuf = @ \o SubSeq(down, 1, n)]
            /\ down' = SubSeq(down, n + 1, Len(down))
       /\ ac' = [a EXCEPT !.ev = @ \cup {"read"}]
       /\ pc' = "process" /\ frame' = NoFrame
       /\ UNCHANGED <<peer, up, server, calls, faults>>
    \/ k.err = "ok" /\ peer = "closed" /\ down = <<>> /\ Disconnect(SetError(k, "eof"), a)
    \/ k.err = "ok" /\ Disconnect(SetError(k, "io"), a)

\* redisBufferWrite: n = 0 is EAGAIN.  Mutant: no write event is asked for when
\* a part is left.
BugWriteEvent(k, a) ==
    \/ k.err # "ok" /\ Disconnect(k, a)
    \/ /\ k.err = "ok" /\ (peer = "none" => k.obuf.len = 0)
       /\ \E n \in 0..k.obuf.len :
            /\ c' = [k EXCEPT !.obuf = Sent(n).obuf] /\ up' = Arrives(n)
       /\ ac' = [a EXCEPT !.ev = (@ \ {"write"}) \cup {"read"}]
       /\ pc' = "loop" /\ frame' = NoFrame
       /\ UNCHANGED <<peer, down, server, calls, faults>>
WriteEvent(k, a) ==
    \/ k.err # "ok" /\ Disconnect(k, a)
    \/ /\ k.err = "ok" /\ (peer = "none" => k.obuf.len = 0)
       /\ \E n \in 0..k.obuf.len :
            /\ c' = [k EXCEPT !.obuf = Sent(n).obuf] /\ up' = Arrives(n)
            /\ ac' = [a EXCEPT !.ev = (@ \ {"write"}) \cup {"read"} \cup
                                      IF n < k.obuf.len THEN {"write"} ELSE {}]
       /\ pc' = "loop" /\ frame' = NoFrame
       /\ UNCHANGED <<peer, down, server, calls, faults>>
    \/ k.err = "ok" /\ k.obuf.len > 0 /\ Disconnect(SetError(k, "io"), a)

\* __redisAsyncHandleConnect up to the connect callback, which is called
\* outside of IN_CALLBACK.
FirstEvent(then, a) ==
    /\ IF peer = "refused"
       THEN c' = SetError(c, "io") /\ frame' = [NoFrame EXCEPT !.then = "abort"]
       ELSE c' = Set(c, "CONNECTED") /\ frame' = [NoFrame EXCEPT !.then = then]
    /\ pc' = "connected" /\ ac' = a
    /\ Still /\ UNCHANGED <<calls, faults>>

HandleRead ==
    /\ pc = "loop" /\ Quiet /\ "read" \in ac.ev
    /\ down # <<>> \/ peer \in {"none", "closed", "refused"}
    /\ LET a == [ac EXCEPT !.ev = @ \ {"read"}]
       IN  IF Has(c, "CONNECTED") THEN ReadEvent(c, a) ELSE FirstEvent("read", a)

HandleWrite ==
    /\ pc = "loop" /\ Quiet /\ "write" \in ac.ev /\ peer # "pending"
    /\ LET a == [ac EXCEPT !.ev = @ \ {"write"}]
       IN  IF Has(c, "CONNECTED") THEN WriteEvent(c, a) ELSE FirstEvent("write", a)

ConnectCallbackReturns ==
    /\ pc = "connected" /\ pc' = "event"
    /\ Quiet /\ Still /\ UNCHANGED <<c, ac, frame, calls, faults>>

\* The handler goes on.
HandleEvent ==
    /\ pc = "event" /\ Quiet
    /\ CASE frame.then = "abort" -> Disconnect(c, ac)
         [] frame.then = "read"  -> ReadEvent(c, ac)
         [] frame.then = "write" -> WriteEvent(c, ac)

(***************************************************************************)
(* redisProcessCallbacks                                                   *)
(***************************************************************************)
Regular(k) == cmds[k].op = "get"

\* __redisRunCallback, if there is one; the variable cb stays for the next turn.
Run(k, a, cb, reply) ==
    /\ ac' = a /\ Still
    /\ IF cb.fn
       THEN /\ c' = Set(k, "IN_CALLBACK") /\ pc' = "callback"
            /\ frame' = [frame EXCEPT !.cb = cb, !.reply = reply]
            /\ calls' = [calls EXCEPT ![cb.id] = @ + 1]
       ELSE /\ c' = k /\ frame' = [frame EXCEPT !.cb = cb]
            /\ UNCHANGED <<pc, calls>>

\* __redisGetSubscribeCallback for a message about a topic that has an entry.
HeardTopic(k, r) ==
    LET d == DictOf(ac, r.pattern)
        v == dictFind(d, r.topic)
        n == IF r.op = "subscribe" THEN [v EXCEPT !.pending = @ - 1] ELSE v
        e == CASE r.op = "subscribe" -> dictSetVal(d, r.topic, n)
               [] r.op = "unsubscribe" /\ v.pending = 0 -> dictDelete(d, r.topic)
               [] OTHER -> d
        a == WithDict(ac, r.pattern, e)
        last == r.op = "unsubscribe" /\ r.count = 0 /\ a.channels.used = 0 /\ a.patterns.used = 0
    IN  Run(IF last THEN Unset(k, "SUBSCRIBED") ELSE k, a, n, r) /\ UNCHANGED faults

\* __redisGetSubscribeCallback: a topic without entry leaves cb as it was.
GetSubscribeCallback(k, r) ==
    \/ /\ r.op \in {"subscribe", "unsubscribe", "message"} /\ r.topic = "nil"
       /\ UNCHANGED <<c, ac>> /\ Crash("topic")
    \/ /\ r.op \in {"subscribe", "unsubscribe", "message"} /\ r.topic # "nil"
       /\ IF dictHas(DictOf(ac, r.pattern), r.topic) THEN HeardTopic(k, r)
          ELSE /\ Run(k, ac, frame.cb, r)
               /\ faults' = IF frame.cb.fn THEN faults \cup {"stale"} ELSE faults
    \/ /\ r.op \notin {"subscribe", "unsubscribe", "message"}
       /\ UNCHANGED faults
       /\ IF ac.invalid = <<>> THEN Run(k, ac, frame.cb, r)
          ELSE Run(k, [ac EXCEPT !.invalid = Tail(@)], Head(ac.invalid), r)

\* A command issued later may have been overtaken by one that subscribed mode
\* put aside, although the server answers them in order.
Overtakes(cb) == \E i \in DOMAIN ac.invalid : ac.invalid[i].id < cb.id

\* What the oldest regular callback is given, whatever it is: also the
\* confirmation of a second UNSUBSCRIBE, when the first ended subscribed mode.
Confusion(cb, r) ==
    (IF Overtakes(cb) THEN {"overtaken"} ELSE {}) \cup
    (IF r.op = "unsubscribe" THEN {"mistaken"} ELSE {})

Dispatch(k, r) ==
    IF ac.replies # <<>>
    THEN /\ Run(k, [ac EXCEPT !.replies = Tail(@)], Head(ac.replies), r)
         /\ faults' = faults \cup Confusion(Head(ac.replies), r)
    ELSE CASE r.op = "error" -> Disconnect(SetError(k, "other"), ac)
           [] r.op # "error" /\ Has(k, "SUBSCRIBED") -> GetSubscribeCallback(k, r)
           [] r.op # "error" /\ ~Has(k, "SUBSCRIBED") /\ Has(k, "MONITORING") ->
                Run(k, ac, frame.cb, r) /\ UNCHANGED faults
           [] OTHER -> UNCHANGED <<c, ac>> /\ Crash("mode")

\* No reply is left: the cue to disconnect, or to wait for the next event.
NoReply ==
    IF Has(c, "DISCONNECTING") /\ c.obuf.len = 0 /\ ac.replies = <<>>
    THEN Disconnect(c, ac)
    ELSE /\ ac' = IF Has(c, "MONITORING") THEN [ac EXCEPT !.replies = Append(@, frame.cb)] ELSE ac
         /\ pc' = "loop" /\ frame' = NoFrame
         /\ Still /\ UNCHANGED <<c, calls, faults>>

\* One turn of the loop in redisProcessCallbacks.
ProcessCallbacks ==
    /\ pc = "process" /\ Quiet
    /\ \/ c.rerr # "ok" /\ Disconnect(SetError(c, c.rerr), ac)
       \/ c.rerr = "ok" /\ ~Whole(c.inbuf) /\ NoReply
       \/ /\ c.rerr = "ok" /\ Whole(c.inbuf) /\ First(c.inbuf).op = "garbage"
          /\ Disconnect(SetError([c EXCEPT !.rerr = "protocol"], "protocol"), ac)
       \/ /\ c.rerr = "ok" /\ Whole(c.inbuf) /\ First(c.inbuf).op # "garbage"
          /\ Dispatch([c EXCEPT !.inbuf = Behind(@)], First(c.inbuf))

CallbackReturns ==
    /\ pc = "callback" /\ Quiet
    /\ IF Has(c, "FREEING") THEN StartFree(Unset(c, "IN_CALLBACK"), ac)
       ELSE /\ c' = Unset(c, "IN_CALLBACK") /\ pc' = "process"
            /\ frame' = [frame EXCEPT !.reply = NoFrame.reply]
            /\ Still /\ UNCHANGED <<ac, calls, faults>>

(***************************************************************************)
(* __redisAsyncFree, one callback at a time, each with a NULL reply: those *)
(* in the two queues, then those of the two dictionaries.                  *)
(***************************************************************************)
RunNull(cb, a, f) ==
    /\ ac' = a /\ frame' = f
    /\ IF cb.fn
       THEN /\ c' = Set(c, "IN_CALLBACK") /\ pc' = "freecallback"
            /\ calls' = [calls EXCEPT ![cb.id] = @ + 1]
       ELSE UNCHANGED <<c, pc, calls>>

Values(d) == [i \in DOMAIN dictNext(d) |-> dictNext(d)[i].val]
NextPhase(f) == frame' = f /\ UNCHANGED <<c, pc, ac, calls>>

FreeNext ==
    /\ pc = "free" /\ Quiet /\ Still /\ UNCHANGED faults
    /\ \/ /\ frame.phase = "replies" /\ ac.replies # <<>>
          /\ RunNull(Head(ac.replies), [ac EXCEPT !.replies = Tail(@)], frame)
       \/ /\ frame.phase = "replies" /\ ac.replies = <<>>
          /\ NextPhase([frame EXCEPT !.phase = "invalid"])
       \/ /\ frame.phase = "invalid" /\ ac.invalid # <<>>
          /\ RunNull(Head(ac.invalid), [ac EXCEPT !.invalid = Tail(@)], frame)
       \/ /\ frame.phase = "invalid" /\ ac.invalid = <<>>
          /\ NextPhase([frame EXCEPT !.phase = "topics",
                                     !.todo = Values(ac.channels) \o Values(ac.patterns)])
       \/ /\ frame.phase = "topics" /\ frame.todo # <<>>
          /\ RunNull(Head(frame.todo), ac, [frame EXCEPT !.todo = Tail(@)])

FreeCallbackReturns ==
    /\ pc = "freecallback" /\ Quiet /\ Still
    /\ c' = Unset(c, "IN_CALLBACK") /\ pc' = "free"
    /\ UNCHANGED <<ac, frame, calls, faults>>

\* The end of __redisAsyncFree.  A free called by the connect callback returns
\* to a handler that goes on with the context.
FreeEnds ==
    /\ pc = "free" /\ frame.phase = "topics" /\ frame.todo = <<>>
    /\ ac' = NoContext /\ frame' = NoFrame
    /\ c' = redisContextInit /\ fds' = Closed(fds, c.fd)
    /\ IF frame.then = "none" THEN pc' = "gone" /\ UNCHANGED faults
       ELSE pc' = "crashed" /\ faults' = faults \cup {"freed"}
    /\ Still /\ UNCHANGED <<try, issued, waiting, ret, reconnects, cmds, calls>>

(***************************************************************************)
(* The server.  A subscribed client may only subscribe and unsubscribe.    *)
(***************************************************************************)
Reply(op, k) == [op |-> op, req |-> k]
Notice(op, k, topic, pattern, count) ==
    [op |-> op, req |-> k, topic |-> topic, pattern |-> pattern, count |-> count]

\* The topics a command is about, one confirmation for each.
Topics(m) ==
    IF m.op = "unsubscribe" /\ m.topics = <<>>
    THEN SetToSeq({t \in DOMAIN Hash : <<m.pattern, t>> \in server.subs})
    ELSE m.topics

Changed(subs, m, t) ==
    IF m.op = "subscribe" THEN subs \cup {<<m.pattern, t>>} ELSE subs \ {<<m.pattern, t>>}

Confirm(m, k) ==
    FoldLeft(LAMBDA acc, t :
               LET s == Changed(acc.subs, m, t)
               IN  [subs |-> s,
                    out  |-> acc.out \o Pieces(Notice(m.op, k, t, m.pattern, Cardinality(s)))],
             [subs |-> server.subs, out |-> <<>>], Topics(m))

AsyncServe ==
    /\ Peer /\ ~Has(c, "BLOCK") /\ Whole(up) /\ up' = Behind(up)
    /\ LET k == First(up)
           m == cmds[k]
       IN  CASE m.op \in {"subscribe", "unsubscribe"} /\ Topics(m) # <<>> ->
                  /\ server' = [server EXCEPT !.subs = Confirm(m, k).subs]
                  /\ down' = down \o Confirm(m, k).out
             [] m.op = "unsubscribe" /\ Topics(m) = <<>> ->
                  /\ down' = down \o
                       Pieces(Notice("unsubscribe", k, "nil", m.pattern, Cardinality(server.subs)))
                  /\ UNCHANGED server
             [] m.op \in {"get", "monitor"} /\ server.subs # {} ->
                  down' = down \o Pieces(Reply("error", k)) /\ UNCHANGED server
             [] OTHER ->
                  /\ down' = down \o Pieces(Reply("answer", k))
                  /\ server' = [server EXCEPT !.monitor = @ \/ m.op = "monitor"]
    /\ UNCHANGED <<c, pc, try, fds, peer, issued, waiting, ret, reconnects,
                   ac, frame, cmds, calls, faults>>

\* A message for a subscriber, or a line for a monitor.
Publish ==
    /\ Peer /\ peer = "up" /\ server.published < MaxPublished
    /\ \E r \in {Notice("message", 0, s[2], s[1], 0) : s \in server.subs} \cup
                 IF server.monitor THEN {Reply("line", 0)} ELSE {} :
         down' = down \o Pieces(r)
    /\ server' = [server EXCEPT !.published = @ + 1]
    /\ UNCHANGED <<c, pc, try, fds, peer, up, issued, waiting, ret, reconnects,
                   ac, frame, cmds, calls, faults>>

\* The connect in progress ends: accepted, refused, or accepted by a server that
\* has too many clients, says so and closes.
Resolve ==
    /\ Peer /\ peer = "pending"
    /\ \/ peer' \in {"up", "refused"} /\ UNCHANGED down
       \/ peer' = "closed" /\ down' = Pieces(Reply("error", 0))
    /\ UNCHANGED <<c, pc, try, fds, up, issued, waiting, ret, reconnects, asyncVars>>

Init == ContextInit /\ ac = NoContext /\ frame = NoFrame /\ cmds = <<>>
        /\ server = NoServer /\ calls = <<>> /\ faults = {}

\* The steps of one thread; what the application does between them; the server.
Handlers ==
    \/ HandleRead \/ HandleWrite \/ ConnectCallbackReturns \/ HandleEvent
    \/ ProcessCallbacks \/ CallbackReturns
    \/ FreeNext \/ FreeCallbackReturns \/ FreeEnds

AsyncNext ==
    \/ Initialize \/ AsyncCommand \/ AppDisconnect \/ AppFree
    \/ Handlers \/ AsyncServe \/ Publish \/ Resolve

Next == (ContextNext /\ UNCHANGED asyncVars) \/ AsyncNext

Spec ==
    /\ Init /\ [][Next]_vars
    /\ WF_vars((Connecting \/ BufferWrite \/ BufferRead \/ Serve) /\ UNCHANGED asyncVars)
    /\ WF_vars(Initialize) /\ WF_vars(AsyncServe) /\ WF_vars(Resolve)
    /\ WF_vars(HandleRead) /\ WF_vars(HandleWrite)
    /\ WF_vars(Handlers)

(***************************************************************************)
(* Properties                                                              *)
(***************************************************************************)
\* Type invariant, with both dictionaries well formed.
TypeOK ==
    /\ ContextTypeOK
    /\ pc \in {"none", "address", "idle", "init", "write", "read", "gone", "loop",
              "connected", "event", "process", "callback", "free", "freecallback", "crashed"}
    /\ ac.ev \subseteq {"read", "write"}
    /\ DictOK(ac.channels) /\ DictOK(ac.patterns)
    /\ Len(cmds) = Len(calls) /\ Len(cmds) \in {0, issued}
    /\ faults \subseteq {"stale", "overtaken", "mistaken", "mode", "topic", "freed", "clean"}

Monitored == \E k \in DOMAIN cmds : cmds[k].op = "monitor"

\* A callback is given the answer to its own command, or news of a topic it
\* subscribed to, whatever callbacks do in between.  The exceptions are the
\* faults "stale" (async.c:381), "overtaken" (async.c:655) and "mistaken"
\* (async.c:455), and monitors (async.c:449); an error nobody asked for goes to
\* the oldest command.
Own(cb, r) ==
    IF r.op \in {"answer", "error"} THEN r.req \in {cb.id, 0}
    ELSE /\ cmds[cb.id].op = "subscribe" /\ cmds[cb.id].pattern = r.pattern
         /\ r.topic \in ToSet(cmds[cb.id].topics)

OwnAnswers ==
    (pc = "callback" /\ faults = {} /\ ~Monitored) => Own(frame.cb, frame.reply)

\* The callback of a regular command runs at most once, and has run when the
\* context is gone, with an answer or with NULL (async.c:282).
AnsweredOnce ==
    (faults = {} /\ ~Monitored) =>
        \A k \in DOMAIN calls : Regular(k) =>
            /\ calls[k] <= 1
            /\ pc = "gone" /\ cmds[k].fn => calls[k] = 1

\* The confirmations of a topic that a command asks for, and that a message is.
Asks(m, pattern, t) ==
    IF m.op = "subscribe" /\ m.pattern = pattern
    THEN FlattenSeq([i \in DOMAIN m.topics |-> IF m.topics[i] = t THEN <<t>> ELSE <<>>])
    ELSE <<>>
Says(m, pattern, t) ==
    IF m.op = "subscribe" /\ m.pattern = pattern /\ m.topic = t THEN <<t>> ELSE <<>>

\* How many are on their way, or will be once the commands in the buffers are
\* served.
Outstanding(pattern, t) ==
    LET asked == Commands(up \o c.obuf.chars)
        heard == c.inbuf \o down
    IN  Len(FlattenSeq([i \in DOMAIN asked |-> Asks(cmds[asked[i]], pattern, t)])
            \o FlattenSeq([i \in DOMAIN heard |->
                   IF heard[i].last THEN Says(heard[i].msg, pattern, t) ELSE <<>>]))

\* A topic the server has subscribed, or will have, has its callback, and the
\* counter that keeps UNSUBSCRIBE from removing it is high enough, whatever went
\* wrong before (async.c:399, 641).
SubscriptionHeard ==
    pc \in {"loop", "connected", "event", "process", "callback"} =>
        \A pattern \in BOOLEAN, t \in DOMAIN Hash :
            LET d == DictOf(ac, pattern)
                n == Outstanding(pattern, t)
            IN  (n > 0 \/ <<pattern, t>> \in server.subs) =>
                    /\ Has(c, "SUBSCRIBED")
                    /\ dictHas(d, t) /\ dictFind(d, t).pending >= n

\* "No more regular callbacks and no errors, the context *must* be subscribed or
\* monitoring" (async.c:476).
ModeAsserted == "mode" \notin faults

\* The assertion that a clean disconnect has no callback pending (async.c:342)
\* holds.  The one about the mode (async.c:477) fails only at the answer to a
\* command whose callback is put aside or was used for another answer, or to a
\* further UNSUBSCRIBE.
AssertionsHold ==
    /\ "clean" \notin faults
    /\ "mode" \in faults =>
         \/ {"overtaken", "mistaken"} \cap faults # {} \/ ac.invalid # <<>>
         \/ First(c.inbuf).op = "unsubscribe"

\* Regular commands whose callback has not run.
Unanswered == {k \in DOMAIN cmds : Regular(k) /\ cmds[k].fn /\ calls[k] = 0}

\* Every regular command that was accepted has its callback run, with its answer
\* or with NULL, if the server answers what it has been sent: also one whose
\* bytes could not be appended, which nobody looks at (async.c:669), and one
\* for which the connection has no socket.
CommandAnswered == (Unanswered # {}) ~> (Unanswered = {} \/ faults # {} \/ Monitored)

\* A disconnect asked for happens, if the server answers what it has been sent
\* (async.c:358, 439).
DisconnectCompletes ==
    Has(c, "DISCONNECTING") ~> (pc \in {"gone", "crashed"} \/ Monitored)
=============================================================================
