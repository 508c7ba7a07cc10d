----------------------------- MODULE RedisContext -----------------------------
(***************************************************************************)
(* A connection of hiredis and its descriptor (hiredis.c, net.c): the      *)
(* functions that connect, the buffers on both sides of the socket, and    *)
(* the blocking calls on top of them.                                      *)
(*                                                                         *)
(* A command is its number, and a reply names the command it answers.      *)
(* Either travels in pieces, and a read or a write may end after any one.  *)
(* The reader is seen from outside: it yields the replies fed to it in     *)
(* order, or an error for good, which is what RespReader shows of it.      *)
(***************************************************************************)
EXTENDS Sds, FiniteSets, SequencesExt

CONSTANTS
    Fragments,      \* pieces of a command and of a reply, by whether calls block
    MaxCommands,    \* commands on a blocking context
    MaxReconnects,  \* its calls of redisReconnect
    MaxAddrs,       \* addresses a host name may have
    ConnectRetries, \* REDIS_CONNECT_RETRIES
    Fds,            \* descriptors other than 0
    Options         \* the ways to connect that are used, out of ConnectOptions

ASSUME CountAssumption ==
    /\ Fragments \in [BOOLEAN -> Nat \ {0}]
    /\ {MaxAddrs, ConnectRetries} \subseteq Nat \ {0}
    /\ {MaxCommands, MaxReconnects} \subseteq Nat
ASSUME FdsAssumption == Fds \subseteq Nat \ {0} /\ IsFiniteSet(Fds) /\ Cardinality(Fds) >= 2

VARIABLES
    c,           \* the redisContext
    pc,          \* where the call in progress stands
    try,         \* addresses left to connect to, and EADDRNOTAVAIL so far
    fds,         \* who has each descriptor
    peer,        \* the other end of the socket
    up, down,    \* pieces on their way to the server and back
    issued,      \* commands appended so far
    waiting,     \* those on this connection whose reply the caller has not got
    ret,         \* what the last call returned
    reconnects   \* calls of redisReconnect so far

contextVars == <<c, pc, try, fds, peer, up, down, issued, waiting, ret, reconnects>>

(***************************************************************************)
(* The ways to connect: kind of address, flags, timeout, source address.   *)
(***************************************************************************)
Option(kind, flags, timeout, bind) ==
    [kind |-> kind, flags |-> flags, timeout |-> timeout, bind |-> bind, host |-> kind = "tcp"]

ConnectOptions ==
    {Option("tcp", {"BLOCK"}, t, FALSE) : t \in {"none", "good", "bad"}} \cup
    {Option("unix", {"BLOCK"}, t, FALSE) : t \in {"none", "good", "bad"}} \cup
    {Option(k, {}, "none", FALSE) : k \in {"tcp", "unix"}} \cup
    {Option("tcp", f, "none", TRUE) : f \in {{}, {"REUSEADDR"}}} \cup
    {Option("fd", {"BLOCK", "CONNECTED"}, "none", FALSE)}

Flags ==
    {"BLOCK", "CONNECTED", "DISCONNECTING", "FREEING", "IN_CALLBACK", "SUBSCRIBED",
     "MONITORING", "REUSEADDR"}

ASSUME OptionsAssumption == Options \subseteq ConnectOptions

\* redisContextInit: calloc makes the descriptor 0 and the connection type
\* REDIS_CONN_TCP, without a host.
redisContextInit ==
    [flags |-> {}, err |-> "ok", fd |-> 0, type |-> "tcp", host |-> FALSE,
     bind |-> FALSE, timeout |-> "none", obuf |-> sdsempty, inbuf |-> <<>>, rerr |-> "ok"]

Pieces(msg) ==
    LET n == Fragments["BLOCK" \in c.flags]
    IN  [i \in 1..n |-> [msg |-> msg, last |-> i = n]]

\* A message is there when its last piece is.
End(s) == SelectInSeq(s, LAMBDA p : p.last)
Whole(s) == End(s) > 0
First(s) == s[End(s)].msg
Behind(s) == SubSeq(s, End(s) + 1, Len(s))

Answer(k) == [op |-> "answer", req |-> k]
Garbage == [msg |-> [op |-> "garbage", req |-> 0], last |-> TRUE]

NoTry == [addrs |-> 0, reuses |-> 0]
NoRet == [ok |-> TRUE, got |-> 0, due |-> 0]
Failed == [ok |-> FALSE, got |-> 0, due |-> 0]

SetError(k, e) == [k EXCEPT !.err = e]

\* socket(2) takes the lowest descriptor that is free.
Lowest(t) == CHOOSE f \in Fds : t[f] = "free" /\ \A g \in Fds : g < f => t[g] # "free"
Taken(t) == [t EXCEPT ![Lowest(t)] = "ours"]
HasFree(t) == \E f \in Fds : t[f] = "free"
Closed(t, f) == IF f \in Fds THEN [t EXCEPT ![f] = "free"] ELSE t

Opened(k, t) == [k EXCEPT !.fd = Lowest(t)]
\* Mutant: the error is not recorded.
BugCloseFd(k) == [k EXCEPT !.fd = -1]
\* redisContextCloseFd, after the error was recorded.
CloseFd(k) == SetError([k EXCEPT !.fd = -1], "io")

\* A connect function returns: the application goes on, or redisAsyncConnect.
Return(k) ==
    /\ c' = k
    /\ pc' = IF "BLOCK" \in k.flags THEN "idle" ELSE "init"
    /\ try' = NoTry

NotConnected == peer' = "none" /\ up' = <<>> /\ down' = <<>>

Connected(k, state) ==
    /\ Return([k EXCEPT !.flags = @ \cup {"CONNECTED"}])
    /\ peer' = state /\ up' = <<>> /\ down' = <<>>

\* A connect that has not failed has happened, or is in progress on a socket
\* that does not block.
Outcomes(k) == IF "BLOCK" \in k.flags THEN {"up"} ELSE {"up", "pending"}

(***************************************************************************)
(* _redisContextConnectTcp up to the loop over the addresses: the options  *)
(* are kept for redisReconnect, except that a timeout out of range returns *)
(* before the source address is looked at.                                 *)
(***************************************************************************)
StartTcp(k, o, t) ==
    LET kept  == [k EXCEPT !.type = "tcp", !.host = o.host, !.timeout = o.timeout]
        bound == [kept EXCEPT !.bind = o.bind]
    IN  /\ NotConnected /\ fds' = t
        /\ \/ o.timeout = "bad" /\ Return(SetError(kept, "io"))
           \/ o.timeout # "bad" /\ Return(SetError(bound, "other"))  \* getaddrinfo
           \/ /\ o.timeout # "bad"
              /\ c' = bound /\ pc' = "address"
              /\ \E n \in 1..MaxAddrs : try' = [addrs |-> n, reuses |-> 0]

(***************************************************************************)
(* One turn of that loop for each way it can go.                           *)
(***************************************************************************)
Trying == pc = "address" /\ try.addrs > 0

AddressFails(k) ==
    /\ c' = k /\ try' = [try EXCEPT !.addrs = @ - 1]
    /\ UNCHANGED <<pc, fds, peer, up, down>>

\* socket fails: the next address.
NoSocket == Trying /\ AddressFails(c)

\* connect says EHOSTUNREACH: the next address.
Unreachable == Trying /\ HasFree(fds) /\ AddressFails([c EXCEPT !.fd = -1])

\* redisSetBlocking, connect, the poll of redisContextWaitReady or TCP_NODELAY
\* fails, or the time is up.
SocketFails ==
    /\ Trying /\ HasFree(fds)
    /\ Return(CloseFd(c))
    /\ UNCHANGED <<fds, peer, up, down>>

\* The source address is unknown or cannot be bound, or SO_ERROR is set after
\* poll: the error is recorded and the descriptor stays open.
SocketKept ==
    /\ Trying /\ HasFree(fds)
    /\ \/ c.bind /\ Return(SetError(Opened(c, fds), "other"))
       \/ "BLOCK" \in c.flags /\ Return(SetError(Opened(c, fds), "io"))
    /\ fds' = Taken(fds)
    /\ UNCHANGED <<peer, up, down>>

\* SO_REUSEADDR cannot be set: no error is recorded.
ReuseFails ==
    /\ Trying /\ HasFree(fds)
    /\ c.bind /\ "REUSEADDR" \in c.flags
    /\ Return(Opened(c, fds)) /\ fds' = Taken(fds)
    /\ UNCHANGED <<peer, up, down>>

\* connect says EADDRNOTAVAIL: the same address again, up to ConnectRetries
\* times; then no error is recorded.
AddressBusy ==
    /\ Trying /\ HasFree(fds) /\ "REUSEADDR" \in c.flags
    /\ IF try.reuses + 1 >= ConnectRetries
       THEN Return(Opened(c, fds)) /\ fds' = Taken(fds)
       ELSE /\ c' = [c EXCEPT !.fd = -1]
            /\ try' = [try EXCEPT !.reuses = @ + 1]
            /\ UNCHANGED <<pc, fds>>
    /\ UNCHANGED <<peer, up, down>>

\* Without a host the address is port 0 of this machine, where nobody listens.
Established ==
    /\ Trying /\ HasFree(fds) /\ c.host
    /\ \E s \in Outcomes(c) : Connected(Opened(c, fds), s)
    /\ fds' = Taken(fds)

Exhausted ==
    /\ pc = "address" /\ try.addrs = 0
    /\ Return(SetError(c, "other"))
    /\ UNCHANGED <<fds, peer, up, down>>

Connecting ==
    /\ \/ NoSocket \/ Unreachable \/ SocketFails \/ SocketKept \/ ReuseFails
       \/ AddressBusy \/ Established \/ Exhausted
    /\ UNCHANGED <<issued, waiting, ret, reconnects>>

(***************************************************************************)
(* redisContextConnectUnix.  The type and the options are kept once there  *)
(* is a socket; a timeout out of range returns with no error recorded.     *)
(***************************************************************************)
ConnectUnix(k, o, t) ==
    LET kept == [Opened(k, t) EXCEPT !.type = "unix", !.timeout = o.timeout] IN
    \/ /\ Return(SetError(k, "io"))                                  \* socket
       /\ fds' = t /\ NotConnected
    \/ /\ HasFree(t) /\ fds' = t /\ NotConnected
       /\ \/ Return(CloseFd(k))                                      \* fcntl
          \/ o.timeout # "bad" /\ Return(CloseFd(kept))              \* connect, poll
    \/ /\ HasFree(t) /\ fds' = Taken(t) /\ NotConnected
       /\ \/ o.timeout = "bad" /\ Return(kept)
          \/ o.timeout # "bad" /\ "BLOCK" \in k.flags /\ Return(SetError(kept, "io"))
    \/ /\ HasFree(t) /\ fds' = Taken(t)
       /\ o.timeout # "bad" /\ \E s \in Outcomes(k) : Connected(kept, s)

\* redisConnectFd: the connection type stays as calloc left it.
ConnectFd(k, t) ==
    /\ HasFree(t) /\ Return(Opened(k, t)) /\ fds' = Taken(t)
    /\ peer' = "up" /\ up' = <<>> /\ down' = <<>>

Connect ==
    /\ pc = "none"
    /\ \E o \in Options :
         LET k == [redisContextInit EXCEPT !.flags = o.flags] IN
         \/ o.kind = "tcp" /\ StartTcp(k, o, fds)
         \/ o.kind = "unix" /\ ConnectUnix(k, o, fds)
         \/ o.kind = "fd" /\ ConnectFd(k, fds)
    /\ UNCHANGED <<issued, waiting, ret, reconnects>>

(***************************************************************************)
(* redisReconnect.  The descriptor is closed and its number stays in the   *)
(* context until there is a new socket.                                    *)
(***************************************************************************)
\* Mutant: the reader is kept.
BugFresh(k) == [k EXCEPT !.err = "ok", !.obuf = sdsempty, !.rerr = "ok"]
Fresh(k) == [k EXCEPT !.err = "ok", !.obuf = sdsempty, !.inbuf = <<>>, !.rerr = "ok"]

Reconnect ==
    /\ pc = "idle" /\ reconnects < MaxReconnects
    /\ reconnects' = reconnects + 1
    /\ LET o == [kind |-> c.type, timeout |-> c.timeout, bind |-> c.bind, host |-> c.host]
           t == Closed(fds, c.fd)
       IN  \/ c.type = "tcp" /\ StartTcp(Fresh(c), o, t)
           \/ c.type = "unix" /\ ConnectUnix(Fresh(c), o, t)
    /\ waiting' = <<>> /\ ret' = NoRet
    /\ UNCHANGED issued

(***************************************************************************)
(* redisGetReplyFromReader, and what the caller does with the result: it   *)
(* returns an error or a reply, or goes on at pc = next.                   *)
(***************************************************************************)
Fail(k) == c' = k /\ pc' = "idle" /\ ret' = Failed

Look(k, w, next) ==
    \/ /\ k.rerr # "ok"
       /\ Fail(SetError(k, k.rerr)) /\ waiting' = w
    \/ /\ k.rerr = "ok" /\ ~Whole(k.inbuf)
       /\ c' = k /\ pc' = next /\ waiting' = w /\ UNCHANGED ret
    \/ /\ k.rerr = "ok" /\ Whole(k.inbuf) /\ First(k.inbuf).op = "garbage"
       /\ Fail(SetError([k EXCEPT !.rerr = "protocol", !.inbuf = <<>>], "protocol"))
       /\ waiting' = w
    \/ /\ k.rerr = "ok" /\ Whole(k.inbuf) /\ First(k.inbuf).op # "garbage"
       /\ c' = [k EXCEPT !.inbuf = Behind(@)] /\ pc' = "idle"
       /\ ret' = [ok |-> TRUE, got |-> First(k.inbuf).req, due |-> Head(w)]
       /\ waiting' = Tail(w)

Calls == pc = "idle" /\ UNCHANGED <<try, fds, peer, up, down, reconnects>>

\* The command is formatted and appended to the output buffer.
Appended == [c EXCEPT !.obuf = sdscatlen(@, Pieces(issued + 1))]
Appends == issued < MaxCommands /\ issued' = issued + 1

\* Formatting fails (-1: no memory, -2: bad format), or appending does.
\* Mutant: no error is recorded.
BugCannotAppend == Fail(c) /\ UNCHANGED <<issued, waiting>>
CannotAppend ==
    /\ \E e \in {"oom", "other"} : Fail(SetError(c, e))
    /\ UNCHANGED <<issued, waiting>>

AppendCommand ==
    /\ Calls
    /\ \/ /\ Appends /\ c' = Appended
          /\ waiting' = Append(waiting, issued + 1) /\ ret' = NoRet
          /\ UNCHANGED pc
       \/ CannotAppend

\* One reply is asked for each command appended.
GetReply ==
    /\ Calls /\ waiting # <<>>
    /\ Look(c, waiting, "write")
    /\ UNCHANGED issued

\* redisCommand: the reply read is the oldest one that is due.
Command ==
    /\ Calls
    /\ \/ Appends /\ Look(Appended, Append(waiting, issued + 1), "write")
       \/ CannotAppend

(***************************************************************************)
(* redisBufferWrite and redisBufferRead.  Both return early when there is  *)
(* an error; EINTR is a call that changes nothing.  SocketError is what    *)
(* either may meet at any time: a reset, or SO_RCVTIMEO or SO_SNDTIMEO.    *)
(***************************************************************************)
Sent(n) == [c EXCEPT !.obuf = IF n = @.len THEN sdsempty ELSE sdsrange(@, n)]

\* What is written to a connection the server has closed is lost.
Arrives(n) == IF peer = "up" THEN up \o SubSeq(c.obuf.chars, 1, n) ELSE up

BufferWrite ==
    /\ pc = "write" /\ UNCHANGED <<try, fds, peer, down, issued, waiting, reconnects>>
    /\ \/ c.err # "ok" /\ Fail(c) /\ UNCHANGED up
       \/ /\ c.err = "ok" /\ c.obuf.len = 0
          /\ pc' = "read" /\ UNCHANGED <<c, up, ret>>
       \/ /\ c.err = "ok" /\ peer # "none"
          /\ \E n \in 1..c.obuf.len :
               /\ c' = Sent(n) /\ up' = Arrives(n)
               /\ pc' = IF n = c.obuf.len THEN "read" ELSE "write"
          /\ UNCHANGED ret
       \/ /\ c.err = "ok" /\ peer = "none" /\ c.obuf.len > 0
          /\ Fail(SetError(c, "io")) /\ UNCHANGED up

Fed(n) == [c EXCEPT !.inbuf = @ \o SubSeq(down, 1, n)]
\* Mutant: the end of the connection is taken for nothing to read yet.
BugEndOfFile == pc = "read" /\ peer = "closed" /\ down = <<>> /\ UNCHANGED <<c, pc, ret>>
EndOfFile ==
    /\ pc = "read" /\ c.err = "ok" /\ peer = "closed" /\ down = <<>>
    /\ Fail(SetError(c, "eof"))

BufferRead ==
    /\ pc = "read" /\ UNCHANGED <<try, fds, peer, up, issued, reconnects>>
    /\ \/ c.err # "ok" /\ Fail(c) /\ UNCHANGED <<down, waiting>>
       \/ /\ c.err = "ok"
          /\ \E n \in 1..Len(down) :
               /\ down' = SubSeq(down, n + 1, Len(down))
               /\ Look(Fed(n), waiting, "read")
       \/ /\ c.err = "ok" /\ down # <<>>                             \* redisReaderFeed
          /\ Fail(SetError([c EXCEPT !.rerr = "oom", !.inbuf = <<>>], "oom"))
          /\ down' = <<>> /\ UNCHANGED waiting
       \/ EndOfFile /\ UNCHANGED <<down, waiting>>
       \/ /\ c.err = "ok" /\ peer = "none"
          /\ Fail(SetError(c, "io")) /\ UNCHANGED <<down, waiting>>

SocketError ==
    /\ c.err = "ok"
    /\ \/ pc = "read"
       \/ pc = "write" /\ c.obuf.len > 0
    /\ Fail(SetError(c, "io"))
    /\ UNCHANGED <<try, fds, peer, up, down, issued, waiting, reconnects>>

\* redisSetTimeout and redisEnableKeepAlive change the context when setsockopt
\* fails.
SetTimeout == Calls /\ Fail(SetError(c, "io")) /\ UNCHANGED <<issued, waiting>>
EnableKeepAlive == Calls /\ Fail(SetError(c, "other")) /\ UNCHANGED <<issued, waiting>>

Gone(t) ==
    /\ c' = redisContextInit /\ pc' = "gone" /\ fds' = t
    /\ peer' = "none" /\ up' = <<>> /\ down' = <<>>
    /\ UNCHANGED <<try, issued, reconnects>>

\* Mutant: a context in error is freed without its descriptor.
BugFree == Gone(IF c.fd \in Fds /\ c.err = "ok" THEN Closed(fds, c.fd) ELSE fds)

\* redisFree, and redisFreeKeepFd, which leaves the descriptor to the caller.
redisFree == Gone(Closed(fds, c.fd))
Free ==
    /\ pc \in {"idle", "init"}
    /\ \/ redisFree
       \/ Gone(IF c.fd \in Fds /\ fds[c.fd] = "ours" THEN [fds EXCEPT ![c.fd] = "kept"] ELSE fds)
    /\ waiting' = <<>> /\ ret' = NoRet

(***************************************************************************)
(* The server answers commands in order, may send what is no reply, and    *)
(* may close the connection.  While functions run that do not look at the  *)
(* socket, it need not act.  Another part of the process may open files.   *)
(***************************************************************************)
Peer == pc \in {"idle", "write", "read", "loop"}

Closes ==
    /\ Peer /\ peer = "up" /\ peer' = "closed" /\ up' = <<>>
    /\ UNCHANGED <<c, pc, try, fds, down, issued, waiting, ret, reconnects>>

Garbles ==
    /\ Peer /\ peer = "up" /\ Garbage \notin ToSet(down)
    /\ down' = Append(down, Garbage)
    /\ UNCHANGED <<c, pc, try, fds, peer, up, issued, waiting, ret, reconnects>>

Serve ==
    /\ Peer /\ "BLOCK" \in c.flags /\ Whole(up)
    /\ up' = Behind(up) /\ down' = down \o Pieces(Answer(First(up)))
    /\ UNCHANGED <<c, pc, try, fds, peer, issued, waiting, ret, reconnects>>

OthersOpen ==
    /\ pc = "idle" /\ HasFree(fds) /\ \A f \in Fds : fds[f] # "others"
    /\ fds' = [fds EXCEPT ![Lowest(fds)] = "others"]
    /\ UNCHANGED <<c, pc, try, peer, up, down, issued, waiting, ret, reconnects>>

ContextInit ==
    /\ c = redisContextInit /\ pc = "none" /\ try = NoTry
    /\ fds = [f \in Fds |-> "free"]
    /\ peer = "none" /\ up = <<>> /\ down = <<>>
    /\ issued = 0 /\ waiting = <<>> /\ ret = NoRet /\ reconnects = 0

Blocking ==
    \/ Reconnect \/ AppendCommand \/ GetReply \/ Command \/ BufferWrite \/ BufferRead
    \/ SocketError \/ SetTimeout \/ EnableKeepAlive \/ Serve

ContextNext ==
    \/ Connect \/ Connecting \/ Blocking \/ Free \/ Closes \/ Garbles \/ OthersOpen

ContextSpec ==
    /\ ContextInit /\ [][ContextNext]_contextVars
    /\ WF_contextVars(Connecting) /\ WF_contextVars(BufferWrite)
    /\ WF_contextVars(BufferRead) /\ WF_contextVars(Serve)

(***************************************************************************)
(* Properties                                                              *)
(***************************************************************************)
\* Type invariant; the output buffer is a well-formed string at every moment.
ContextTypeOK ==
    /\ c.flags \subseteq Flags
    /\ c.err \in {"ok", "io", "eof", "protocol", "oom", "other"}
    /\ c.rerr \in {"ok", "protocol", "oom"}
    /\ c.fd \in {-1, 0} \cup Fds
    /\ c.type \in {"tcp", "unix"} /\ c.timeout \in {"none", "good", "bad"}
    /\ {c.host, c.bind} \subseteq BOOLEAN
    /\ SdsOK(c.obuf)
    /\ try.addrs \in 0..MaxAddrs /\ try.reuses \in 0..ConnectRetries - 1
    /\ fds \in [Fds -> {"free", "ours", "others", "kept"}]
    /\ peer \in {"none", "pending", "refused", "up", "closed"}
    /\ issued \in Nat /\ reconnects \in 0..MaxReconnects
    /\ \A i \in DOMAIN waiting : waiting[i] \in 1..issued
    /\ ret.ok \in BOOLEAN

\* The replies and the commands that are complete in a buffer.
Replies(s) ==
    FlattenSeq([i \in DOMAIN s |->
        IF s[i].last /\ s[i].msg.op # "garbage" THEN <<s[i].msg.req>> ELSE <<>>])
Commands(s) ==
    FlattenSeq([i \in DOMAIN s |-> IF s[i].last THEN <<s[i].msg>> ELSE <<>>])

\* Nothing is lost, doubled or reordered between the buffers and the socket:
\* the replies in the reader and on their way, and then the commands the server
\* has and those in the output buffer, are the ones the caller waits for, and
\* a reply returned is the one that was due (redisBufferWrite, redisReconnect).
AnswersInOrder ==
    /\ ret.got = ret.due
    /\ ("BLOCK" \in c.flags /\ peer = "up" /\ c.rerr = "ok") =>
         Replies(c.inbuf \o down) \o Commands(up \o c.obuf.chars) = waiting

\* "When NULL is returned in a blocking context, the error field in the context
\* will be set" (hiredis.c:974), and so it is when a function that connects
\* returns a context without connection (hiredis.c:653).  Not so when
\* SO_REUSEADDR or its retries fail, and when a timeout is out of range for a
\* Unix socket: these leave a socket that is open and not connected, so only with
\* one may an error be missing.
FailureReported ==
    /\ ~ret.ok => c.err # "ok"
    /\ (pc \in {"idle", "init"} /\ peer = "none" /\ c.err = "ok") =>
         /\ c.fd \in Fds /\ fds[c.fd] = "ours"
         /\ \/ "REUSEADDR" \in c.flags
            \/ c.type = "unix" /\ c.timeout = "bad"

\* The one descriptor open for a context is the one it names, so that redisFree
\* leaves none open, and a context without error names no descriptor of others:
\* after redisReconnect closed one and got no other, the error is what keeps
\* reads and writes away from whoever has the number now.
DescriptorOwned ==
    /\ \A f \in Fds : fds[f] = "ours" => c.fd = f
    /\ (pc \in {"idle", "init", "write", "read"} /\ c.err = "ok") =>
         c.fd \in Fds /\ fds[c.fd] = "ours"

\* A blocking call ends when the server answers or closes the connection, also
\* when no read or write meets an error or times out (redisGetReply).
CallEnds == (pc \in {"address", "write", "read"}) ~> (pc \in {"idle", "init", "gone"})
=============================================================================
