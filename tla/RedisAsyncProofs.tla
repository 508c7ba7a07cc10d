--------------------------- MODULE RedisAsyncProofs ---------------------------
(***************************************************************************)
(* Theorems about a context, blocking or asynchronous, for any number of   *)
(* descriptors, addresses, retries and commands, however messages are cut  *)
(* and whatever programs the application runs: its descriptor and its      *)
(* errors, its output buffer, the order of replies, the types, and what    *)
(* becomes of subscriptions.                                               *)
(***************************************************************************)
EXTENDS RedisAsync, ContainersProofs, Induction, FiniteSetTheorems, TLAPS

NoneOurs(t) == \A f \in Fds : t[f] # "ours"

\* Where a connect that ended may have left a context without a connection.
Live == {"idle", "init", "write", "read"}
Excused == "REUSEADDR" \in c.flags \/ (c.type = "unix" /\ c.timeout = "bad")

(***************************************************************************)
(* The inductive invariant.  DescriptorOwned and FailureReported speak of  *)
(* moments between calls; what carries them over a step is that there is   *)
(* no descriptor of ours while a connect looks for one (NotYet), that a    *)
(* context without error keeps its descriptor and its connection within a  *)
(* call too (OpenIfSound, ConnectedIfSound), that only a blocking call can *)
(* have failed (FailureKept), that a handler which called the connect      *)
(* callback knows how to go on (Resumes), and that a context never changes *)
(* between blocking and not (Mode).                                        *)
(***************************************************************************)
Shape == DOMAIN c = DOMAIN redisContextInit /\ DOMAIN fds = Fds
NotYet == pc \in {"none", "address", "gone"} => NoneOurs(fds)
Named == \A f \in Fds : fds[f] = "ours" => c.fd = f
OpenIfSound == (pc \in Live /\ c.err = "ok") => c.fd \in Fds /\ fds[c.fd] = "ours"
ConnectedIfSound == (pc \in Live /\ peer = "none" /\ c.err = "ok") => Excused
FailureKept == ~ret.ok => pc \in {"idle", "write", "read"} /\ c.err # "ok"
Resumes == pc \in {"connected", "event"} => frame.then \in {"abort", "read", "write"}
Mode ==
    /\ "BLOCK" \in c.flags => pc \in {"address", "idle", "write", "read"}
    /\ pc \in {"idle", "write", "read"} => "BLOCK" \in c.flags

Control ==
    /\ Shape /\ NotYet /\ Named /\ OpenIfSound /\ ConnectedIfSound
    /\ FailureKept /\ Resumes /\ Mode

(***************************************************************************)
(* Descriptors                                                             *)
(***************************************************************************)
\* socket(2) returns a descriptor that was free: among the free ones there is
\* a least.
LEMMA LowestFree ==
    ASSUME NEW t, HasFree(t)
    PROVE  Lowest(t) \in Fds /\ t[Lowest(t)] = "free"
<1> DEFINE F == {f \in Fds : t[f] = "free"}
           Below(x) == {g \in F : g < x}
           T == {Below(x) : x \in F}
<1>1. F \subseteq Nat /\ F # {}
  BY FdsAssumption DEF HasFree
<1>2. IsWellFoundedOn(StrictSubsetOrdering(Fds), FiniteSubsetsOf(Fds))
  BY FdsAssumption, FS_StrictSubsetOrderingWellFounded
<1>3. T \subseteq FiniteSubsetsOf(Fds) /\ T # {}
  <2>1. \A x \in F : Below(x) \in FiniteSubsetsOf(Fds)
    BY FdsAssumption, FS_Subset DEF FiniteSubsetsOf
  <2> QED BY <1>1, <2>1
<1>4. PICK M \in T : \A y \in T : ~(<<y, M>> \in StrictSubsetOrdering(Fds))
  BY <1>2, <1>3, WFMin, Zenon
<1>5. PICK m \in F : M = Below(m)
  OBVIOUS
<1>6. \A g \in F : ~(g < m)
  <2> SUFFICES ASSUME NEW g \in F, g < m PROVE FALSE
    OBVIOUS
  <2>1. Below(g) \subseteq Below(m) /\ g \in Below(m) /\ g \notin Below(g)
    BY <1>1
  <2>2. Below(g) \in T /\ Below(g) \in FiniteSubsetsOf(Fds) /\ Below(m) \in FiniteSubsetsOf(Fds)
    BY <1>3
  <2> QED BY <1>4, <1>5, <2>1, <2>2 DEF StrictSubsetOrdering
<1>7. \A g \in Fds : g < m => t[g] # "free"
  BY <1>6
<1> QED BY <1>5, <1>7 DEF Lowest

LEMMA TakenOwned ==
    ASSUME NEW t, DOMAIN t = Fds, NoneOurs(t), HasFree(t)
    PROVE  /\ Lowest(t) \in Fds /\ Taken(t)[Lowest(t)] = "ours"
           /\ \A f \in Fds : Taken(t)[f] = "ours" => Lowest(t) = f
           /\ DOMAIN Taken(t) = Fds
BY LowestFree DEF Taken, NoneOurs

LEMMA ClosedNone ==
    ASSUME NEW t, NEW k, DOMAIN t = Fds, \A f \in Fds : t[f] = "ours" => k = f
    PROVE  NoneOurs(Closed(t, k)) /\ DOMAIN Closed(t, k) = Fds
BY DEF Closed, NoneOurs

(***************************************************************************)
(* The functions that connect, from any context without error and any      *)
(* table without a descriptor of ours: redisConnect and redisReconnect.    *)
(***************************************************************************)
Ready(k, t) ==
    /\ DOMAIN k = DOMAIN redisContextInit /\ k.err = "ok"
    /\ DOMAIN t = Fds /\ NoneOurs(t)

LEMMA StartTcpKeeps ==
    ASSUME NEW k, NEW o, NEW t, Ready(k, t), StartTcp(k, o, t), ret'.ok
    PROVE  Control'
BY DEF Ready, StartTcp, Return, SetError, NotConnected, Control, Shape, NotYet, Named,
   OpenIfSound, ConnectedIfSound, FailureKept, Resumes, Mode, NoneOurs, Live, Excused, redisContextInit

LEMMA ConnectUnixKeeps ==
    ASSUME NEW k, NEW o, NEW t, Ready(k, t), ConnectUnix(k, o, t), ret'.ok
    PROVE  Control'
<1> DEFINE kept == [Opened(k, t) EXCEPT !.type = "unix", !.timeout = o.timeout]
<1> USE DEF Ready, Return, SetError, Control, Shape, NotYet, Named, OpenIfSound,
    ConnectedIfSound, FailureKept, Resumes, Mode, NoneOurs, Live, Excused, redisContextInit
<1>1. CASE Return(SetError(k, "io")) /\ fds' = t
  BY <1>1
<1>2. CASE fds' = t /\ (Return(CloseFd(k)) \/ Return(CloseFd(kept)))
  BY <1>2 DEF CloseFd, Opened
<1>3. ASSUME HasFree(t), fds' = Taken(t), o.timeout = "bad", Return(kept)
      PROVE  Control'
  BY <1>3, TakenOwned DEF Opened
<1>4. ASSUME HasFree(t), fds' = Taken(t), Return(SetError(kept, "io"))
      PROVE  Control'
  BY <1>4, TakenOwned DEF Opened
<1>5. ASSUME HasFree(t), fds' = Taken(t), NEW s \in {"up", "pending"}, Connected(kept, s)
      PROVE  Control'
  BY <1>5, TakenOwned DEF Opened, Connected
<1> QED BY <1>1, <1>2, <1>3, <1>4, <1>5 DEF ConnectUnix, NotConnected, Outcomes

LEMMA ConnectFdKeeps ==
    ASSUME NEW k, NEW t, Ready(k, t), ConnectFd(k, t), ret'.ok
    PROVE  Control'
BY TakenOwned DEF Ready, ConnectFd, Return, Opened, Control, Shape, NotYet, Named,
   OpenIfSound, ConnectedIfSound, FailureKept, Resumes, Mode, NoneOurs, Live, Excused, redisContextInit

(***************************************************************************)
(* The steps of a context                                                  *)
(***************************************************************************)
\* The loop over the addresses ends, or goes on without a descriptor.
LEMMA ConnectingKeeps ==
    ASSUME Control, Connecting
    PROVE  Control'
<1> USE DEF Control, Shape, NotYet, Named, OpenIfSound, ConnectedIfSound, FailureKept,
    Resumes, Mode, NoneOurs, Live, Excused, redisContextInit, Connecting, Trying
<1>1. CASE NoSocket \/ Unreachable
  BY <1>1 DEF NoSocket, Unreachable, AddressFails
<1>2. CASE SocketFails
  <2>1. /\ c'.err = "io" /\ DOMAIN c' = DOMAIN c
        /\ fds' = fds /\ ret' = ret /\ c'.flags = c.flags
        /\ pc' = IF "BLOCK" \in c.flags THEN "idle" ELSE "init"
    BY <1>2 DEF SocketFails, Return, CloseFd, SetError
  <2> QED BY <1>2, <2>1 DEF SocketFails
<1>7. CASE Exhausted
  BY <1>7 DEF Exhausted, Return, SetError
<1>3. CASE SocketKept
  <2>1. /\ c'.err # "ok" /\ DOMAIN c' = DOMAIN c /\ c'.fd = Lowest(fds)
        /\ fds' = Taken(fds) /\ ret' = ret /\ c'.flags = c.flags
        /\ pc' = IF "BLOCK" \in c.flags THEN "idle" ELSE "init"
    BY <1>3 DEF SocketKept, Return, SetError, Opened
  <2> QED BY <1>3, <2>1, TakenOwned DEF SocketKept
<1>4. CASE ReuseFails
  BY <1>4, TakenOwned DEF ReuseFails, Return, Opened
<1>5. CASE AddressBusy
  BY <1>5, TakenOwned DEF AddressBusy, Return, Opened
<1>6. CASE Established
  BY <1>6, TakenOwned DEF Established, Connected, Outcomes, Return, Opened
<1> QED BY <1>1, <1>2, <1>3, <1>4, <1>5, <1>6, <1>7

LEMMA ConnectKeeps ==
    ASSUME Control, Connect
    PROVE  Control'
<1>1. PICK o \in Options :
        LET k == [redisContextInit EXCEPT !.flags = o.flags] IN
        \/ StartTcp(k, o, fds) \/ ConnectUnix(k, o, fds) \/ ConnectFd(k, fds)
  BY DEF Connect
<1>2. Ready([redisContextInit EXCEPT !.flags = o.flags], fds) /\ ret'.ok
  BY DEF Connect, Control, Shape, NotYet, FailureKept, Ready, redisContextInit
<1> QED BY <1>1, <1>2, StartTcpKeeps, ConnectUnixKeeps, ConnectFdKeeps

LEMMA ReconnectKeeps ==
    ASSUME Control, Reconnect
    PROVE  Control'
<1> DEFINE o == [kind |-> c.type, timeout |-> c.timeout, bind |-> c.bind, host |-> c.host]
<1>1. Ready(Fresh(c), Closed(fds, c.fd))
  BY ClosedNone DEF Control, Shape, Named, Ready, Fresh, redisContextInit
<1>2. ret'.ok
  BY DEF Reconnect, NoRet
<1>3. \/ StartTcp(Fresh(c), o, Closed(fds, c.fd))
      \/ ConnectUnix(Fresh(c), o, Closed(fds, c.fd))
  BY DEF Reconnect
<1> QED BY <1>1, <1>2, <1>3, StartTcpKeeps, ConnectUnixKeeps

\* What a step of a blocking call does to the context, at most: an error stays,
\* and a call that fails leaves one.
SameConnection(k) ==
    /\ DOMAIN k = DOMAIN c
    /\ k.fd = c.fd /\ k.flags = c.flags /\ k.type = c.type /\ k.timeout = c.timeout

InCall ==
    /\ SameConnection(c') /\ (c.err # "ok" => c'.err # "ok")
    /\ fds' = fds /\ peer' = peer /\ frame' = frame
    /\ pc \in {"idle", "write", "read"} /\ pc' \in {"idle", "write", "read"}
    /\ \/ ret'.ok
       \/ ~ret'.ok /\ c'.err # "ok"
       \/ ret' = ret

LEMMA InCallKeeps ==
    ASSUME Control, InCall
    PROVE  Control'
<1> USE DEF Control, InCall, SameConnection
<1>1. Shape' /\ NotYet' /\ Named' /\ Resumes' /\ Mode'
  BY DEF Shape, NotYet, Named, Resumes, Mode
<1>2. OpenIfSound'
  BY DEF OpenIfSound, Live
<1>3. ConnectedIfSound'
  BY DEF ConnectedIfSound, Live, Excused
<1>4. FailureKept'
  BY DEF FailureKept
<1> QED BY <1>1, <1>2, <1>3, <1>4

\* redisGetReplyFromReader on a context k that is c but for its buffers.
LEMMA LookInCall ==
    ASSUME Control, NEW k, NEW w, NEW next \in {"write", "read"},
           SameConnection(k), k.err = c.err,
           Look(k, w, next), fds' = fds, peer' = peer, frame' = frame,
           pc \in {"idle", "write", "read"}
    PROVE  InCall
<1> USE DEF InCall, SameConnection, Control, Shape, redisContextInit
<1>1. CASE k.rerr # "ok" /\ Fail(SetError(k, k.rerr))
  BY <1>1 DEF Fail, Failed, SetError
<1>2. CASE c' = k /\ pc' = next /\ ret' = ret
  BY <1>2
<1>3. CASE Fail(SetError([k EXCEPT !.rerr = "protocol", !.inbuf = <<>>], "protocol"))
  BY <1>3 DEF Fail, Failed, SetError
<1>4. CASE c' = [k EXCEPT !.inbuf = Behind(@)] /\ pc' = "idle" /\ ret'.ok
  BY <1>4
<1> QED BY <1>1, <1>2, <1>3, <1>4 DEF Look

LEMMA BlockingKeeps ==
    ASSUME Control, frame' = frame,
           AppendCommand \/ GetReply \/ Command \/ BufferWrite \/ BufferRead \/ SocketError
           \/ SetTimeout \/ EnableKeepAlive
    PROVE  Control'
<1> SUFFICES InCall
  BY InCallKeeps
<1> DEFINE FailsWith(k) == Fail(k) /\ SameConnection(k) /\ k.err # "ok"
<1>a. DOMAIN c = DOMAIN redisContextInit
  BY DEF Control, Shape
<1>b. SameConnection(c) /\ \A e : SameConnection(SetError(c, e)) /\ SetError(c, e).err = e
  BY <1>a DEF SameConnection, SetError, redisContextInit
<1>c. ASSUME NEW k, FailsWith(k), fds' = fds, peer' = peer, pc \in {"idle", "write", "read"}
      PROVE  InCall
  BY <1>c DEF InCall, Fail, Failed
<1>1. ASSUME CannotAppend, Calls PROVE InCall
  BY <1>1, <1>b, <1>c DEF CannotAppend, Calls
<1>2. SameConnection(Appended) /\ Appended.err = c.err
  BY <1>a DEF SameConnection, Appended, redisContextInit
<1>3. CASE AppendCommand
  <2>1. CASE Calls /\ CannotAppend
    BY <1>1, <2>1
  <2>2. CASE Calls /\ c' = Appended /\ ret' = NoRet /\ UNCHANGED pc
    BY <1>2, <2>2 DEF InCall, Calls, NoRet
  <2> QED BY <1>3, <2>1, <2>2 DEF AppendCommand
<1>4. CASE GetReply
  BY <1>4, <1>b, LookInCall DEF GetReply, Calls
<1>5. CASE Command
  BY <1>5, <1>1, <1>2, LookInCall DEF Command, Calls
<1>6. CASE BufferWrite
  <2>1. CASE c.err # "ok" /\ Fail(c)
    BY <1>6, <2>1, <1>b, <1>c DEF BufferWrite
  <2>2. CASE UNCHANGED <<c, ret>> /\ pc' = "read"
    BY <1>6, <2>2, <1>b DEF BufferWrite, InCall
  <2>3. ASSUME NEW n, c' = Sent(n), pc' = IF n = c.obuf.len THEN "read" ELSE "write", UNCHANGED ret
        PROVE  InCall
    <3>1. SameConnection(Sent(n)) /\ Sent(n).err = c.err
      BY <1>a DEF SameConnection, Sent, redisContextInit
    <3> QED BY <1>6, <2>3, <3>1 DEF BufferWrite, InCall
  <2>4. CASE Fail(SetError(c, "io"))
    BY <1>6, <2>4, <1>b, <1>c DEF BufferWrite
  <2> QED BY <1>6, <2>1, <2>2, <2>3, <2>4 DEF BufferWrite
<1>7. CASE BufferRead
  <2>1. CASE c.err # "ok" /\ Fail(c)
    BY <1>7, <2>1, <1>b, <1>c DEF BufferRead
  <2>2. ASSUME NEW n, Look(Fed(n), waiting, "read")
        PROVE  InCall
    <3>1. SameConnection(Fed(n)) /\ Fed(n).err = c.err
      BY <1>a DEF SameConnection, Fed, redisContextInit
    <3> QED BY <1>7, <2>2, <3>1, LookInCall DEF BufferRead
  <2>3. CASE Fail(SetError([c EXCEPT !.rerr = "oom", !.inbuf = <<>>], "oom"))
    <3>1. LET k == SetError([c EXCEPT !.rerr = "oom", !.inbuf = <<>>], "oom")
          IN  SameConnection(k) /\ k.err = "oom"
      BY <1>a DEF SameConnection, SetError, redisContextInit
    <3> QED BY <1>7, <2>3, <3>1, <1>c DEF BufferRead
  <2>4. CASE Fail(SetError(c, "eof")) \/ Fail(SetError(c, "io"))
    BY <1>7, <2>4, <1>b, <1>c DEF BufferRead
  <2> QED BY <1>7, <2>1, <2>2, <2>3, <2>4 DEF BufferRead, EndOfFile
<1>8. CASE SocketError
  BY <1>8, <1>b, <1>c DEF SocketError
<1>9. CASE SetTimeout \/ EnableKeepAlive
  BY <1>9, <1>b, <1>c DEF SetTimeout, EnableKeepAlive, Calls
<1> QED BY <1>3, <1>4, <1>5, <1>6, <1>7, <1>8, <1>9

\* redisFree and redisFreeKeepFd: afterwards no descriptor is ours.
LEMMA FreeKeeps ==
    ASSUME Control, Free
    PROVE  Control'
<1> USE DEF Control, Shape, NotYet, Named, OpenIfSound, ConnectedIfSound, FailureKept,
    Resumes, Mode, NoneOurs, Live, Gone, NoRet
<1>1. CASE redisFree
  BY <1>1, ClosedNone DEF Free, redisFree, redisContextInit
<1>2. CASE Gone(IF c.fd \in Fds /\ fds[c.fd] = "ours" THEN [fds EXCEPT ![c.fd] = "kept"] ELSE fds)
  BY <1>2 DEF Free, redisContextInit
<1> QED BY <1>1, <1>2 DEF Free

\* The server and the rest of the process: a connection is not undone by them,
\* and a descriptor that others get was free.
LEMMA EnvironmentKeeps ==
    ASSUME Control,
           UNCHANGED <<c, pc, ret>>, frame' = frame,
           peer' = "none" => peer = "none",
           fds' = fds \/ OthersOpen
    PROVE  Control'
<1>1. CASE fds' = fds
  BY <1>1 DEF Control, Shape, NotYet, Named, OpenIfSound, ConnectedIfSound, FailureKept,
    Resumes, Mode, NoneOurs, Live, Excused
<1>2. CASE OthersOpen
  <2>1. Lowest(fds) \in Fds /\ fds[Lowest(fds)] = "free"
    BY <1>2, LowestFree DEF OthersOpen
  <2> QED BY <1>2, <2>1 DEF OthersOpen, Control, Shape, NotYet, Named, OpenIfSound,
    ConnectedIfSound, FailureKept, Resumes, Mode, NoneOurs, Live, Excused
<1> QED BY <1>1, <1>2

LEMMA ContextKeeps ==
    ASSUME Control, ContextNext, frame' = frame
    PROVE  Control'
<1>1. CASE Connect \/ Connecting \/ Reconnect \/ Free
  BY <1>1, ConnectKeeps, ConnectingKeeps, ReconnectKeeps, FreeKeeps
<1>2. CASE Serve \/ Closes \/ Garbles \/ OthersOpen
  BY <1>2, EnvironmentKeeps DEF Serve, Closes, Garbles, OthersOpen
<1> QED BY <1>1, <1>2, BlockingKeeps DEF ContextNext, Blocking

(***************************************************************************)
(* The steps of the asynchronous API.  None but the last of a free touches *)
(* the descriptor or its number.                                           *)
(***************************************************************************)
InLoop == {"loop", "connected", "event", "process", "callback", "free", "freecallback", "crashed"}

SameFd(k) ==
    /\ DOMAIN k = DOMAIN redisContextInit /\ k.fd = c.fd
    /\ "BLOCK" \in k.flags => "BLOCK" \in c.flags

\* What the handlers leave behind.
Handled == SameFd(c') /\ pc' \in InLoop \ {"connected", "event"}

AsyncStep ==
    /\ SameFd(c') /\ fds' = fds /\ ret' = ret
    /\ pc \in InLoop \cup {"init"} /\ pc' \in InLoop
    /\ Resumes'

LEMMA AsyncStepKeeps ==
    ASSUME Control, AsyncStep
    PROVE  Control'
BY DEF Control, Shape, NotYet, Named, OpenIfSound, ConnectedIfSound, FailureKept, Mode,
   NoneOurs, Live, AsyncStep, SameFd, InLoop, redisContextInit

LEMMA FieldsKeepFd ==
    ASSUME NEW k, SameFd(k)
    PROVE  /\ \A f : f # "BLOCK" => SameFd(Set(k, f))
           /\ \A f : SameFd(Unset(k, f))
           /\ \A e : SameFd(SetError(k, e))
           /\ \A s : SameFd([k EXCEPT !.inbuf = s]) /\ SameFd([k EXCEPT !.obuf = s])
           /\ \A e : SameFd([k EXCEPT !.rerr = e])
           /\ SameFd([k EXCEPT !.obuf = sdsempty, !.inbuf = <<>>])
<1>1. ASSUME NEW f, f # "BLOCK" PROVE SameFd(Set(k, f))
  BY <1>1 DEF SameFd, Set, redisContextInit
<1>2. ASSUME NEW f PROVE SameFd(Unset(k, f))
  BY <1>2 DEF SameFd, Unset, redisContextInit
<1>3. ASSUME NEW e PROVE SameFd(SetError(k, e)) /\ SameFd([k EXCEPT !.rerr = e])
  BY <1>3 DEF SameFd, SetError, redisContextInit
<1>4. ASSUME NEW s
      PROVE  /\ SameFd([k EXCEPT !.inbuf = s]) /\ SameFd([k EXCEPT !.obuf = s])
             /\ SameFd([k EXCEPT !.obuf = sdsempty, !.inbuf = <<>>])
  BY <1>4 DEF SameFd, redisContextInit
<1> QED BY <1>1, <1>2, <1>3, <1>4

LEMMA StartFreeHandles ==
    ASSUME NEW k, NEW a, SameFd(k), StartFree(k, a)
    PROVE  Handled
BY FieldsKeepFd DEF StartFree, Handled, InLoop

LEMMA DisconnectHandles ==
    ASSUME NEW k, NEW a, SameFd(k), Disconnect(k, a)
    PROVE  Handled
<1>1. CASE c' = k /\ Crash("clean")
  BY <1>1 DEF Crash, Handled, InLoop
<1>2. CASE \E j, b : j \in {k, Set(k, "DISCONNECTING")} /\ StartFree(j, b)
  BY <1>2, FieldsKeepFd, StartFreeHandles
<1> QED BY <1>1, <1>2 DEF Disconnect

LEMMA ReadEventHandles ==
    ASSUME NEW k, NEW a, SameFd(k), ReadEvent(k, a)
    PROVE  Handled
<1>1. CASE \E e : Disconnect(SetError(k, e), a)
  BY <1>1, FieldsKeepFd, DisconnectHandles
<1>2. CASE Disconnect(k, a)
  BY <1>2, DisconnectHandles
<1>3. CASE \E s : c' = [k EXCEPT !.inbuf = s] /\ pc' = "process"
  BY <1>3 DEF SameFd, redisContextInit, Handled, InLoop
<1> QED BY <1>1, <1>2, <1>3 DEF ReadEvent

LEMMA WriteEventHandles ==
    ASSUME NEW k, NEW a, SameFd(k), WriteEvent(k, a)
    PROVE  Handled
<1>1. CASE Disconnect(SetError(k, "io"), a)
  BY <1>1, FieldsKeepFd, DisconnectHandles
<1>2. CASE Disconnect(k, a)
  BY <1>2, DisconnectHandles
<1>3. CASE \E s : c' = [k EXCEPT !.obuf = s] /\ pc' = "loop"
  BY <1>3 DEF SameFd, redisContextInit, Handled, InLoop
<1> QED BY <1>1, <1>2, <1>3 DEF WriteEvent

LEMMA RunHandles ==
    ASSUME NEW k, NEW a, NEW cb, NEW r, SameFd(k), pc = "process", Run(k, a, cb, r)
    PROVE  Handled
<1>1. SameFd(k) /\ SameFd(Set(k, "IN_CALLBACK"))
  BY FieldsKeepFd
<1> QED BY <1>1 DEF Run, Handled, InLoop

LEMMA DispatchHandles ==
    ASSUME NEW k, NEW r, SameFd(k), SameFd(c), pc = "process", Dispatch(k, r)
    PROVE  Handled
<1>1. CASE \E a, cb : Run(k, a, cb, r)
  BY <1>1, RunHandles
<1>2. CASE \E a : Disconnect(SetError(k, "other"), a)
  BY <1>2, FieldsKeepFd, DisconnectHandles
<1>3. CASE c' = c /\ \E kind : Crash(kind)
  BY <1>3 DEF Crash, Handled, InLoop
<1>4. CASE HeardTopic(k, r)
  <2>1. PICK j \in {k, Unset(k, "SUBSCRIBED")} : \E a, cb : Run(j, a, cb, r)
    BY <1>4 DEF HeardTopic
  <2> QED BY <2>1, FieldsKeepFd, RunHandles
<1>5. CASE GetSubscribeCallback(k, r)
  BY <1>1, <1>3, <1>4, <1>5 DEF GetSubscribeCallback
<1> QED BY <1>1, <1>2, <1>3, <1>5 DEF Dispatch

LEMMA HandledSteps ==
    ASSUME Control, Handled, Quiet, pc \in InLoop
    PROVE  AsyncStep
BY DEF Handled, Quiet, AsyncStep, Resumes, InLoop

\* The events of the event library, up to the connect callback or to the end.
LEMMA EventSteps ==
    ASSUME Control, HandleRead \/ HandleWrite \/ HandleEvent
    PROVE  AsyncStep
<1>1. SameFd(c)
  BY DEF Control, Shape, SameFd
<1>2. ASSUME NEW then \in {"read", "write"}, NEW a, FirstEvent(then, a), Quiet, pc = "loop"
      PROVE  AsyncStep
  <2>1. SameFd(c') /\ frame'.then \in {"abort", "read", "write"} /\ pc' = "connected"
    BY <1>1, <1>2 DEF FirstEvent, NoFrame, SameFd, Set, SetError, redisContextInit
  <2> QED BY <1>2, <2>1 DEF Quiet, AsyncStep, Resumes, InLoop
<1>3. ASSUME NEW a, ReadEvent(c, a) \/ WriteEvent(c, a) \/ Disconnect(c, a),
             Quiet, pc \in {"loop", "event"}
      PROVE  AsyncStep
  <2>1. Handled
    BY <1>1, <1>3, ReadEventHandles, WriteEventHandles, DisconnectHandles
  <2> QED BY <1>3, <2>1, HandledSteps DEF InLoop
<1>4. CASE HandleRead \/ HandleWrite
  BY <1>2, <1>3, <1>4 DEF HandleRead, HandleWrite
<1>5. CASE HandleEvent
  <2>1. frame.then \in {"abort", "read", "write"}
    BY <1>5 DEF HandleEvent, Control, Resumes
  <2> QED BY <1>3, <1>5, <2>1 DEF HandleEvent
<1> QED BY <1>4, <1>5

\* What the application calls in the event loop and in callbacks.
LEMMA AppSteps ==
    ASSUME Control, AsyncCommand \/ AppDisconnect \/ AppFree
    PROVE  AsyncStep
<1>1. SameFd(c) /\ \A f : f # "BLOCK" => SameFd(Set(c, f))
  BY FieldsKeepFd DEF Control, Shape, SameFd
<1>2. pc \in InLoop
  BY DEF AsyncCommand, AppDisconnect, AppFree, App, InLoop
<1>3. ASSUME SameFd(c'), UNCHANGED <<fds, ret, pc, frame>> PROVE AsyncStep
  BY <1>2, <1>3 DEF AsyncStep, Control, Resumes
<1>4. CASE AsyncCommand
  <2>1. PICK m : c' \in {Flagged(Appended, m), Flagged(SetError(c, "oom"), m)}
    BY <1>4 DEF AsyncCommand
  <2>2. SameFd(Appended) /\ SameFd(SetError(c, "oom"))
    BY <1>1 DEF SameFd, Appended, SetError, redisContextInit
  <2>3. ASSUME NEW k, SameFd(k) PROVE SameFd(Flagged(k, m))
    <3>1. Flagged(k, m) \in {Set(k, "SUBSCRIBED"), Set(k, "MONITORING"), k}
      BY DEF Flagged
    <3> QED BY <2>3, <3>1, FieldsKeepFd
  <2>4. SameFd(c')
    BY <2>1, <2>2, <2>3
  <2> QED BY <1>3, <1>4, <2>4 DEF AsyncCommand
<1>5. ASSUME Quiet, \E k, a : SameFd(k) /\ (Disconnect(k, a) \/ StartFree(k, a))
      PROVE  AsyncStep
  BY <1>2, <1>5, DisconnectHandles, StartFreeHandles, HandledSteps
<1>6. ASSUME Quiet, UNCHANGED <<pc, frame>>, \E f : f # "BLOCK" /\ c' = Set(c, f)
      PROVE  AsyncStep
  BY <1>1, <1>3, <1>6 DEF Quiet
<1>7. CASE AppDisconnect \/ AppFree
  BY <1>1, <1>5, <1>6, <1>7 DEF AppDisconnect, AppFree
<1> QED BY <1>4, <1>7

\* redisProcessCallbacks, and the free but for its end.
LEMMA CallbackSteps ==
    ASSUME Control,
           Initialize \/ ConnectCallbackReturns \/ ProcessCallbacks \/ CallbackReturns
           \/ FreeNext \/ FreeCallbackReturns
    PROVE  AsyncStep
<1>1. SameFd(c) /\ \A f : (f # "BLOCK" => SameFd(Set(c, f))) /\ SameFd(Unset(c, f))
  BY FieldsKeepFd DEF Control, Shape, SameFd
<1>2. CASE Initialize
  BY <1>1, <1>2 DEF Initialize, Quiet, AsyncStep, Resumes, InLoop
<1>3. CASE ConnectCallbackReturns
  BY <1>1, <1>3
     DEF ConnectCallbackReturns, Quiet, AsyncStep, Control, Resumes, InLoop
<1>4. CASE ProcessCallbacks
  <2>a. ASSUME NEW k, SameFd(k), Disconnect(k, ac) PROVE Handled
    BY <2>a, DisconnectHandles
  <2>1. ASSUME Disconnect(SetError(c, c.rerr), ac) PROVE Handled
    <3>1. SameFd(SetError(c, c.rerr))
      BY <1>1, FieldsKeepFd
    <3> QED BY <2>1, <2>a, <3>1
  <2>2. ASSUME NoReply PROVE Handled
    <3>1. CASE Disconnect(c, ac)
      BY <1>1, <2>a, <3>1
    <3>2. CASE c' = c /\ pc' = "loop"
      BY <1>1, <3>2 DEF Handled, InLoop
    <3> QED BY <2>2, <3>1, <3>2 DEF NoReply
  <2>3. ASSUME Disconnect(SetError([c EXCEPT !.rerr = "protocol"], "protocol"), ac) PROVE Handled
    <3>1. SameFd(SetError([c EXCEPT !.rerr = "protocol"], "protocol"))
      BY <1>1 DEF SameFd, SetError, redisContextInit
    <3> QED BY <2>3, <2>a, <3>1
  <2>4. ASSUME Dispatch([c EXCEPT !.inbuf = Behind(@)], First(c.inbuf)) PROVE Handled
    <3>1. SameFd([c EXCEPT !.inbuf = Behind(@)])
      BY <1>1 DEF SameFd, redisContextInit
    <3> QED BY <1>1, <1>4, <2>4, <3>1, DispatchHandles DEF ProcessCallbacks
  <2>5. Handled
    BY <1>4, <2>1, <2>2, <2>3, <2>4 DEF ProcessCallbacks
  <2> QED BY <1>4, <2>5, HandledSteps DEF ProcessCallbacks, InLoop
<1>5. CASE CallbackReturns
  <2>1. Handled
    BY <1>1, <1>5, StartFreeHandles DEF CallbackReturns, Handled, InLoop
  <2> QED BY <1>5, <2>1, HandledSteps DEF CallbackReturns, InLoop
<1>6. CASE FreeNext
  <2>1. Handled
    BY <1>1, <1>6 DEF FreeNext, RunNull, NextPhase, Handled, InLoop
  <2> QED BY <1>6, <2>1, HandledSteps DEF FreeNext, InLoop
<1>7. CASE FreeCallbackReturns
  <2>1. Handled
    BY <1>1, <1>7 DEF FreeCallbackReturns, Handled, InLoop
  <2> QED BY <1>7, <2>1, HandledSteps DEF FreeCallbackReturns, InLoop
<1> QED BY <1>2, <1>3, <1>4, <1>5, <1>6, <1>7

\* The end of a free closes the descriptor the context names.
LEMMA FreeEndsKeeps ==
    ASSUME Control, FreeEnds
    PROVE  Control'
<1>1. NoneOurs(Closed(fds, c.fd)) /\ DOMAIN Closed(fds, c.fd) = Fds
  BY ClosedNone DEF Control, Shape, Named
<1> QED BY <1>1 DEF FreeEnds, Control, Shape, NotYet, Named, OpenIfSound, ConnectedIfSound,
  FailureKept, Resumes, Mode, NoneOurs, Live, redisContextInit

(***************************************************************************)
(* The theorems                                                            *)
(***************************************************************************)
LEMMA InitControl == Init => Control
BY DEF Init, ContextInit, Control, Shape, NotYet, Named, OpenIfSound, ConnectedIfSound,
   FailureKept, Resumes, Mode, NoneOurs, Live, NoRet, redisContextInit

LEMMA NextControl == Control /\ [Next]_vars => Control'
<1> SUFFICES ASSUME Control, [Next]_vars PROVE Control'
  OBVIOUS
<1>1. CASE ContextNext /\ UNCHANGED asyncVars
  BY <1>1, ContextKeeps DEF asyncVars
<1>2. CASE Initialize \/ Handlers
  BY <1>2, EventSteps, CallbackSteps, AsyncStepKeeps, FreeEndsKeeps DEF Handlers
<1>3. CASE AsyncCommand \/ AppDisconnect \/ AppFree
  BY <1>3, AppSteps, AsyncStepKeeps
<1>4. CASE AsyncServe
  BY <1>4, EnvironmentKeeps DEF AsyncServe
<1>5. CASE Publish
  BY <1>5, EnvironmentKeeps DEF Publish
<1>6. CASE Resolve
  BY <1>6, EnvironmentKeeps DEF Resolve, asyncVars
<1>7. CASE UNCHANGED vars
  BY <1>7, EnvironmentKeeps DEF vars, contextVars, asyncVars
<1> QED BY <1>1, <1>2, <1>3, <1>4, <1>5, <1>6, <1>7 DEF Next, AsyncNext

\* The invariant that carries the theorems below, for blocking and asynchronous
\* contexts (hiredis.c, net.c, async.c).
THEOREM ContextControl == Spec => []Control
<1>1. Control /\ [Next]_vars => Control'
  BY NextControl
<1> QED BY InitControl, <1>1, PTL DEF Spec

\* A context is the only owner of at most one descriptor, the one it names, from
\* the socket call to redisFree or the end of __redisAsyncFree, and between calls
\* a context without error has one (net.c:60, hiredis.c:604, async.c:316).
THEOREM OneDescriptor == Spec => []DescriptorOwned
<1>1. Control => DescriptorOwned
  BY DEF Control, Named, OpenIfSound, DescriptorOwned, Live
<1> QED BY <1>1, ContextControl, PTL

\* Every call of a blocking context that failed leaves its error in the context,
\* until redisReconnect (hiredis.c:974), and so does a connect that came back
\* without a connection, except where net.c:355, 383 and 457 do not and leave a
\* socket open.
THEOREM ErrorsReported == Spec => []FailureReported
<1>1. Control => FailureReported
  BY DEF Control, FailureKept, OpenIfSound, ConnectedIfSound, FailureReported, Live, Excused
<1> QED BY <1>1, ContextControl, PTL

(***************************************************************************)
(* The output buffer.                                                      *)
(***************************************************************************)
Piece == [msg : Nat, last : BOOLEAN]

\* A context whose output buffer is a string of pieces of commands, with a
\* header that has a field for the room left.
Buffered(k) ==
    /\ DOMAIN k = DOMAIN redisContextInit
    /\ k.obuf \in String(Piece) /\ k.obuf.type # 0

BufferSound == issued \in Nat /\ Buffered(c)

\* Both functions of sds.c the buffer goes through.
LEMMA AppendedBuffered ==
    ASSUME BufferSound
    PROVE  Buffered(Appended)
<1>1. Pieces(issued + 1) \in Seq(Piece)
  <2> DEFINE n == Fragments["BLOCK" \in c.flags]
             all == [i \in 1..n |-> [msg |-> issued + 1, last |-> i = n]]
  <2>1. Fragments \in [BOOLEAN -> Nat] /\ ("BLOCK" \in c.flags) \in BOOLEAN
    BY CountAssumption
  <2>2. n \in Nat
    BY <2>1, Zenon
  <2> HIDE DEF n
  <2>3. \A i \in 1..n : [msg |-> issued + 1, last |-> i = n] \in Piece
    BY DEF BufferSound, Piece
  <2>4. all \in Seq(Piece)
    BY <2>2, <2>3
  <2> QED BY <2>4 DEF Pieces, n
<1>2. /\ sdscatlen(c.obuf, Pieces(issued + 1)) \in String(Piece)
      /\ sdscatlen(c.obuf, Pieces(issued + 1)).type # 0
  BY <1>1, AppendExact DEF BufferSound, Buffered
<1> QED BY <1>2 DEF BufferSound, Buffered, Appended, redisContextInit

LEMMA SentBuffered ==
    ASSUME BufferSound, NEW n \in Nat
    PROVE  Buffered(Sent(n)) /\ Sent(n).obuf \in String(Piece) /\ Sent(n).obuf.type # 0
<1>1. sdsrange(c.obuf, n) \in String(Piece) /\ sdsrange(c.obuf, n).type # 0
  BY RestExact DEF BufferSound, Buffered
<1> QED BY <1>1, EmptyString DEF BufferSound, Buffered, Sent, redisContextInit

\* Every other assignment to a context leaves the buffer alone or empties it.
SameBuffer(j, k) ==
    /\ DOMAIN j = DOMAIN redisContextInit
    /\ j.obuf \in {k.obuf, sdsempty}

LEMMA BufferKept ==
    ASSUME NEW k, Buffered(k), NEW j, SameBuffer(j, k)
    PROVE  Buffered(j)
BY EmptyString DEF Buffered, SameBuffer

LEMMA StartTcpBuffer ==
    ASSUME NEW k, NEW o, NEW t, DOMAIN k = DOMAIN redisContextInit,
           StartTcp(k, o, t) \/ ConnectUnix(k, o, t) \/ ConnectFd(k, t)
    PROVE  SameBuffer(c', k)
<1> USE DEF SameBuffer, Return, SetError, Opened, redisContextInit
<1>1. CASE StartTcp(k, o, t)
  BY <1>1 DEF StartTcp
<1>2. CASE ConnectUnix(k, o, t)
  <2> DEFINE kept == [Opened(k, t) EXCEPT !.type = "unix", !.timeout = o.timeout]
  <2>1. SameBuffer(kept, k) /\ SameBuffer(CloseFd(k), k) /\ SameBuffer(CloseFd(kept), k)
    BY DEF CloseFd
  <2>2. ASSUME NEW s, Connected(kept, s) PROVE SameBuffer(c', k)
    BY <2>2 DEF Connected
  <2>3. ASSUME NEW j \in {SetError(k, "io"), CloseFd(k), CloseFd(kept), kept, SetError(kept, "io")},
               Return(j)
        PROVE  SameBuffer(c', k)
    BY <2>1, <2>3
  <2> HIDE DEF kept, SameBuffer, Return, SetError, Opened, redisContextInit
  <2> QED BY <1>2, <2>2, <2>3 DEF ConnectUnix, kept
<1>3. CASE ConnectFd(k, t)
  BY <1>3 DEF ConnectFd
<1> QED BY <1>1, <1>2, <1>3

\* The two functions that are handed a context and change nothing in its buffer.
LEMMA LookBuffer ==
    ASSUME NEW k, NEW w, NEW next, DOMAIN k = DOMAIN redisContextInit, Look(k, w, next)
    PROVE  SameBuffer(c', k)
BY DEF Look, Fail, SetError, SameBuffer, redisContextInit

LEMMA DisconnectBuffer ==
    ASSUME NEW k, NEW a, DOMAIN k = DOMAIN redisContextInit,
           Disconnect(k, a) \/ StartFree(k, a)
    PROVE  SameBuffer(c', k)
BY DEF Disconnect, StartFree, Crash, Set, SameBuffer, redisContextInit

LEMMA ContextBuffer ==
    ASSUME BufferSound, ContextNext
    PROVE  BufferSound'
<1>0. DOMAIN c = DOMAIN redisContextInit /\ SameBuffer(c, c)
  BY DEF BufferSound, Buffered, SameBuffer
<1>1. issued' \in Nat
  <2>1. issued' \in {issued, issued + 1}
    BY DEF ContextNext, Connect, Connecting, Blocking, Free, Closes, Garbles, OthersOpen, Reconnect,
       AppendCommand, GetReply, Command, BufferWrite, BufferRead, SocketError, SetTimeout,
       EnableKeepAlive, Serve, Appends, CannotAppend, Gone, redisFree
  <2> QED BY <2>1 DEF BufferSound
<1> SUFFICES Buffered(c')
  BY <1>1 DEF BufferSound
<1>2. ASSUME SameBuffer(c', c) PROVE Buffered(c')
  BY <1>2, BufferKept DEF BufferSound
<1>3. CASE Connect \/ Reconnect
  <2>1. PICK k, o, t : /\ StartTcp(k, o, t) \/ ConnectUnix(k, o, t) \/ ConnectFd(k, t)
                       /\ DOMAIN k = DOMAIN redisContextInit /\ k.obuf = sdsempty
    <3>1. ASSUME NEW o \in Options, NEW k, k = [redisContextInit EXCEPT !.flags = o.flags]
          PROVE  DOMAIN k = DOMAIN redisContextInit /\ k.obuf = sdsempty
      BY <3>1 DEF redisContextInit
    <3>2. DOMAIN Fresh(c) = DOMAIN redisContextInit /\ Fresh(c).obuf = sdsempty
      BY <1>0 DEF Fresh, redisContextInit
    <3>3. CASE Connect
      <4>1. PICK o \in Options :
              LET k == [redisContextInit EXCEPT !.flags = o.flags] IN
              StartTcp(k, o, fds) \/ ConnectUnix(k, o, fds) \/ ConnectFd(k, fds)
        BY <3>3 DEF Connect
      <4> QED BY <3>1, <4>1
    <3>4. CASE Reconnect
      BY <3>2, <3>4 DEF Reconnect
    <3> QED BY <1>3, <3>3, <3>4
  <2> QED BY <2>1, StartTcpBuffer, EmptyString DEF SameBuffer, Buffered
<1>4. CASE Connecting
  BY <1>0, <1>2, <1>4 DEF Connecting, NoSocket, Unreachable, SocketFails, SocketKept, ReuseFails,
     AddressBusy, Established, Exhausted, AddressFails, Connected, Return, CloseFd, SetError, Opened,
     SameBuffer, redisContextInit
<1>5. CASE AppendCommand \/ Command
  <2>1. CASE c' = Appended
    BY <2>1, AppendedBuffered
  <2>2. CASE CannotAppend
    BY <1>0, <1>2, <2>2 DEF CannotAppend, Fail, SetError, SameBuffer, redisContextInit
  <2>3. CASE \E w, next : Look(Appended, w, next)
    BY <2>3, LookBuffer, AppendedBuffered, BufferKept DEF Buffered
  <2> QED BY <1>5, <2>1, <2>2, <2>3 DEF AppendCommand, Command
<1>6. CASE GetReply
  BY <1>0, <1>2, <1>6, LookBuffer DEF GetReply
<1>7. CASE BufferWrite
  <2>1. CASE \E n \in 1..c.obuf.len : c' = Sent(n)
    BY <2>1, SentBuffered, StringFacts DEF BufferSound, Buffered
  <2>2. CASE c' \in {c, SetError(c, "io")}
    BY <1>0, <1>2, <2>2 DEF SetError, SameBuffer, redisContextInit
  <2> QED BY <1>7, <2>1, <2>2 DEF BufferWrite, Fail
<1>8. CASE BufferRead
  <2>1. ASSUME NEW n, Look(Fed(n), waiting, "read") PROVE SameBuffer(c', c)
    <3>1. SameBuffer(Fed(n), c)
      BY <1>0 DEF Fed, SameBuffer, redisContextInit
    <3> QED BY <2>1, <3>1, LookBuffer DEF SameBuffer
  <2>2. ASSUME c' \in {c, SetError(c, "io"), SetError(c, "eof"),
                       SetError([c EXCEPT !.rerr = "oom", !.inbuf = <<>>], "oom")}
        PROVE  SameBuffer(c', c)
    BY <1>0, <2>2 DEF SetError, SameBuffer, redisContextInit
  <2> QED BY <1>2, <1>8, <2>1, <2>2 DEF BufferRead, EndOfFile, Fail
<1>9. CASE SocketError \/ SetTimeout \/ EnableKeepAlive
  BY <1>0, <1>2, <1>9 DEF SocketError, SetTimeout, EnableKeepAlive, Fail, SetError, SameBuffer,
     redisContextInit
<1>10. CASE Free
  BY <1>2, <1>10 DEF Free, redisFree, Gone, SameBuffer, redisContextInit
<1>11. CASE Serve \/ Closes \/ Garbles \/ OthersOpen
  BY <1>0, <1>2, <1>11 DEF Serve, Closes, Garbles, OthersOpen
<1> QED BY <1>3, <1>4, <1>5, <1>6, <1>7, <1>8, <1>9, <1>10, <1>11 DEF ContextNext, Blocking

\* What the application and the server do around the handlers.
LEMMA AppBuffer ==
    ASSUME BufferSound, Initialize \/ AsyncCommand \/ AppDisconnect \/ AppFree
    PROVE  Buffered(c')
<1>0. DOMAIN c = DOMAIN redisContextInit /\ Buffered(c)
  BY DEF BufferSound, Buffered
<1>1. ASSUME SameBuffer(c', c) PROVE Buffered(c')
  BY <1>0, <1>1, BufferKept
<1>2. ASSUME NEW f PROVE SameBuffer(Set(c, f), c) /\ DOMAIN Set(c, f) = DOMAIN redisContextInit
  BY <1>0 DEF Set, SameBuffer, redisContextInit
<1>3. CASE Initialize
  BY <1>0, <1>1, <1>3 DEF Initialize, Unset, SameBuffer, redisContextInit
<1>4. CASE AsyncCommand
  <2>1. PICK m : c' \in {Flagged(Appended, m), Flagged(SetError(c, "oom"), m)}
    BY <1>4 DEF AsyncCommand
  <2>2. ASSUME NEW k, DOMAIN k = DOMAIN redisContextInit PROVE SameBuffer(Flagged(k, m), k)
    <3>1. Flagged(k, m) \in {Set(k, "SUBSCRIBED"), Set(k, "MONITORING"), k}
      BY DEF Flagged
    <3> QED BY <2>2, <3>1 DEF Set, SameBuffer, redisContextInit
  <2>3. Buffered(Appended) /\ Buffered(SetError(c, "oom"))
    BY <1>0, AppendedBuffered DEF Buffered, SetError, redisContextInit
  <2> QED BY <2>1, <2>2, <2>3, BufferKept DEF Buffered
<1>5. CASE AppDisconnect \/ AppFree
  <2>1. CASE \E f : c' = Set(c, f)
    BY <1>1, <1>2, <2>1
  <2>2. CASE \E f, a : Disconnect(Set(c, f), a) \/ StartFree(Set(c, f), a)
    <3>1. PICK f, a : Disconnect(Set(c, f), a) \/ StartFree(Set(c, f), a)
      BY <2>2
    <3>2. SameBuffer(c', Set(c, f))
      BY <1>2, <3>1, DisconnectBuffer
    <3> QED BY <1>1, <1>2, <3>2 DEF SameBuffer
  <2> QED BY <1>5, <2>1, <2>2 DEF AppDisconnect, AppFree
<1> QED BY <1>3, <1>4, <1>5

\* Reads, writes and disconnects of the handlers, on a context k.
LEMMA EventBuffer ==
    ASSUME BufferSound, NEW k, SameBuffer(k, c), NEW a,
           ReadEvent(k, a) \/ WriteEvent(k, a) \/ Disconnect(k, a)
    PROVE  Buffered(c')
<1>0. Buffered(k) /\ DOMAIN k = DOMAIN redisContextInit
  BY BufferKept DEF BufferSound, SameBuffer
<1>1. ASSUME NEW j, SameBuffer(j, k), Disconnect(j, a) PROVE Buffered(c')
  BY <1>0, <1>1, DisconnectBuffer, BufferKept DEF SameBuffer
<1>2. ASSUME NEW e PROVE SameBuffer(SetError(k, e), k)
  BY <1>0 DEF SetError, SameBuffer, redisContextInit
<1>3. CASE Disconnect(k, a) \/ \E e : Disconnect(SetError(k, e), a)
  <2>1. SameBuffer(k, k)
    BY <1>0 DEF SameBuffer
  <2> QED BY <1>1, <1>2, <1>3, <2>1
<1>4. CASE \E s : c' = [k EXCEPT !.inbuf = s]
  BY <1>0, <1>4 DEF Buffered, redisContextInit
<1>5. CASE \E n \in 0..k.obuf.len : c' = [k EXCEPT !.obuf = Sent(n).obuf]
  <2>1. PICK n \in 0..k.obuf.len : c' = [k EXCEPT !.obuf = Sent(n).obuf]
    BY <1>5
  <2>2. Sent(n).obuf \in String(Piece) /\ Sent(n).obuf.type # 0
    BY <1>0, <2>1, StringFacts, SentBuffered DEF Buffered
  <2> QED BY <1>0, <2>1, <2>2 DEF Buffered, redisContextInit
<1> QED BY <1>3, <1>4, <1>5 DEF ReadEvent, WriteEvent

LEMMA DispatchBuffer ==
    ASSUME BufferSound, NEW k, SameBuffer(k, c), NEW r, Dispatch(k, r)
    PROVE  Buffered(c')
<1>0. Buffered(k) /\ Buffered(c) /\ DOMAIN k = DOMAIN redisContextInit
  BY BufferKept DEF BufferSound, SameBuffer
<1>1. ASSUME NEW j, SameBuffer(j, k), NEW a, NEW cb, Run(j, a, cb, r) PROVE Buffered(c')
  <2>1. Buffered(j) /\ SameBuffer(Set(j, "IN_CALLBACK"), j)
    BY <1>0, <1>1, BufferKept DEF Set, SameBuffer, redisContextInit
  <2> QED BY <1>1, <2>1, BufferKept DEF Run
<1>2. SameBuffer(k, k) /\ SameBuffer(Unset(k, "SUBSCRIBED"), k)
  BY <1>0 DEF Unset, SameBuffer, redisContextInit
<1>3. CASE \E a, cb : Run(k, a, cb, r)
  BY <1>1, <1>2, <1>3
<1>4. CASE HeardTopic(k, r)
  <2>1. PICK j \in {k, Unset(k, "SUBSCRIBED")} : \E a, cb : Run(j, a, cb, r)
    BY <1>4 DEF HeardTopic
  <2> QED BY <1>1, <1>2, <2>1
<1>5. CASE GetSubscribeCallback(k, r)
  BY <1>0, <1>3, <1>4, <1>5 DEF GetSubscribeCallback
<1>6. CASE Disconnect(SetError(k, "other"), ac)
  <2>1. SameBuffer(SetError(k, "other"), c)
    BY <1>0 DEF SameBuffer, SetError, redisContextInit
  <2> QED BY <1>6, <2>1, EventBuffer
<1> QED BY <1>0, <1>3, <1>5, <1>6 DEF Dispatch

LEMMA HandlersBuffer ==
    ASSUME Control, BufferSound, Handlers
    PROVE  Buffered(c')
<1>0. DOMAIN c = DOMAIN redisContextInit /\ Buffered(c) /\ SameBuffer(c, c)
  BY DEF BufferSound, Buffered, SameBuffer
<1>1. ASSUME SameBuffer(c', c) PROVE Buffered(c')
  BY <1>0, <1>1, BufferKept
<1>2. ASSUME NEW then, NEW a, FirstEvent(then, a) PROVE Buffered(c')
  BY <1>0, <1>1, <1>2 DEF FirstEvent, Set, SetError, SameBuffer, redisContextInit
<1>3. CASE HandleRead \/ HandleWrite
  BY <1>0, <1>2, <1>3, EventBuffer DEF HandleRead, HandleWrite
<1>4. CASE HandleEvent
  BY <1>0, <1>4, EventBuffer DEF HandleEvent, Control, Resumes
<1>5. CASE ConnectCallbackReturns \/ FreeNext \/ FreeCallbackReturns
  BY <1>0, <1>1, <1>5 DEF ConnectCallbackReturns, FreeNext, FreeCallbackReturns, RunNull, NextPhase,
     Set, Unset, SameBuffer, redisContextInit
<1>6. CASE ProcessCallbacks
  <2>1. ASSUME NEW e, NEW k \in {c, [c EXCEPT !.rerr = "protocol"]}, Disconnect(SetError(k, e), ac)
        PROVE  Buffered(c')
    <3>1. SameBuffer(SetError(k, e), c)
      BY <1>0, <2>1 DEF SetError, SameBuffer, redisContextInit
    <3> QED BY <2>1, <3>1, EventBuffer
  <2>2. CASE NoReply
    BY <1>0, <1>1, <2>2, EventBuffer DEF NoReply
  <2>3. ASSUME Dispatch([c EXCEPT !.inbuf = Behind(@)], First(c.inbuf))
        PROVE  Buffered(c')
    <3>1. SameBuffer([c EXCEPT !.inbuf = Behind(@)], c)
      BY <1>0 DEF SameBuffer, redisContextInit
    <3> QED BY <2>3, <3>1, DispatchBuffer
  <2> QED BY <1>6, <2>1, <2>2, <2>3 DEF ProcessCallbacks
<1>7. CASE CallbackReturns
  <2>1. SameBuffer(Unset(c, "IN_CALLBACK"), c) /\ DOMAIN Unset(c, "IN_CALLBACK") = DOMAIN redisContextInit
    BY <1>0 DEF Unset, SameBuffer, redisContextInit
  <2>2. ASSUME NEW a, StartFree(Unset(c, "IN_CALLBACK"), a) PROVE Buffered(c')
    <3>1. SameBuffer(c', Unset(c, "IN_CALLBACK"))
      BY <2>1, <2>2, DisconnectBuffer
    <3> QED BY <1>1, <2>1, <3>1 DEF SameBuffer
  <2> QED BY <1>1, <1>7, <2>1, <2>2 DEF CallbackReturns
<1>8. CASE FreeEnds
  BY <1>1, <1>8 DEF FreeEnds, SameBuffer, redisContextInit
<1> QED BY <1>3, <1>4, <1>5, <1>6, <1>7, <1>8 DEF Handlers

\* Whatever is appended and sent, cut wherever the socket cuts it, the output
\* buffer stays a string whose header is wide enough for its length and its room
\* (sds.c:194, 376, 712; hiredis.c:838).
THEOREM BufferAlwaysSound == Spec => []BufferSound
<1>1. Init => BufferSound
  BY EmptyString DEF Init, ContextInit, BufferSound, Buffered, redisContextInit
<1>2. Control /\ BufferSound /\ [Next]_vars => BufferSound'
  <2> SUFFICES ASSUME Control, BufferSound, [Next]_vars PROVE BufferSound'
    OBVIOUS
  <2>1. CASE ContextNext
    BY <2>1, ContextBuffer
  <2>2. CASE AsyncServe \/ Publish \/ Resolve \/ UNCHANGED vars
    BY <2>2 DEF AsyncServe, Publish, Resolve, vars, contextVars, BufferSound, Buffered
  <2>3. CASE Initialize \/ AsyncCommand \/ AppDisconnect \/ AppFree \/ Handlers
    <3>1. Buffered(c')
      BY <2>3, AppBuffer, HandlersBuffer
    <3>2. issued' \in {issued, issued + 1}
      BY <2>3 DEF Initialize, AsyncCommand, AppDisconnect, AppFree, Handlers, HandleRead, HandleWrite,
         ConnectCallbackReturns, HandleEvent, ProcessCallbacks, CallbackReturns, FreeNext,
         FreeCallbackReturns, FreeEnds, Quiet
    <3> QED BY <3>1, <3>2 DEF BufferSound
  <2> QED BY <2>1, <2>2, <2>3 DEF Next, AsyncNext
<1> QED BY <1>1, <1>2, ContextControl, PTL DEF Spec

(***************************************************************************)
(* Messages in pieces                                                      *)
(***************************************************************************)
\* The pieces of messages out of M.
PieceOf(M) == [msg : M, last : BOOLEAN]

\* The end of a message is the first last piece.
LEMMA EndFacts ==
    ASSUME NEW M, NEW s \in Seq(PieceOf(M))
    PROVE  /\ Whole(s) => /\ End(s) \in 1..Len(s) /\ s[End(s)].last
                          /\ \A i \in 1..End(s) - 1 : ~s[i].last
                          /\ First(s) \in M /\ Behind(s) \in Seq(PieceOf(M))
           /\ ~Whole(s) => \A i \in 1..Len(s) : ~s[i].last
<1> DEFINE I == {i \in 1..Len(s) : s[i].last}
<1>1. Len(s) \in Nat /\ \A i \in 1..Len(s) : s[i] \in PieceOf(M)
  BY LenProperties, ElementOfSeq
<1>2. End(s) = IF I # {} THEN CHOOSE x \in I : \A y \in I : x <= y ELSE 0
  BY DEF End, SelectInSeq, Min
<1>3. CASE I = {}
  BY <1>2, <1>3 DEF Whole
<1>4. CASE I # {}
  <2>1. I \in SUBSET Nat
    BY <1>1
  <2>2. \E m \in I : \A i \in I : m <= i
    <3> HIDE DEF I
    <3> QED BY <1>4, <2>1, LeastNumber
  <2>3. End(s) \in I /\ \A i \in I : End(s) <= i
    <3> HIDE DEF I
    <3> QED BY <1>2, <1>4, <2>2
  <2>4. End(s) \in 1..Len(s) /\ s[End(s)].last
    BY <2>3
  <2>5. \A i \in 1..End(s) - 1 : ~s[i].last
    BY <1>1, <2>3, <2>4
  <2>6. First(s) \in M
    BY <1>1, <2>4 DEF First, PieceOf
  <2>7. Behind(s) \in Seq(PieceOf(M))
    <3>1. End(s) + 1 \in Int /\ Len(s) \in Int /\ \A i \in End(s) + 1..Len(s) : s[i] \in PieceOf(M)
      BY <1>1, <2>4
    <3> QED BY <3>1, SubSeqProperties DEF Behind
  <2> QED BY <1>1, <2>4, <2>5, <2>6, <2>7 DEF Whole
<1> QED BY <1>3, <1>4

\* A buffer is what comes before the end of the first message, the piece that
\* ends it, and what is behind.
LEMMA AroundEnd ==
    ASSUME NEW M, NEW s \in Seq(PieceOf(M)), Whole(s)
    PROVE  /\ SubSeq(s, 1, End(s) - 1) \in Seq(PieceOf(M))
           /\ s[End(s)] \in PieceOf(M) /\ s[End(s)].last
           /\ s = SubSeq(s, 1, End(s) - 1) \o (<<s[End(s)]>> \o Behind(s))
           /\ Len(SubSeq(s, 1, End(s) - 1)) = End(s) - 1
           /\ \A i \in 1..End(s) - 1 : ~SubSeq(s, 1, End(s) - 1)[i].last
<1> DEFINE e == End(s)
<1>1. /\ Len(s) \in Nat /\ \A i \in 1..Len(s) : s[i] \in PieceOf(M)
      /\ e \in 1..Len(s) /\ s[e].last /\ \A i \in 1..e - 1 : ~s[i].last
  BY EndFacts, LenProperties, ElementOfSeq
<1> HIDE DEF e
<1>2. /\ SubSeq(s, 1, e - 1) \in Seq(PieceOf(M)) /\ Len(SubSeq(s, 1, e - 1)) = e - 1
      /\ \A i \in 1..e - 1 : SubSeq(s, 1, e - 1)[i] = s[i]
  <2>1. 1 \in Int /\ e - 1 \in Int /\ \A i \in 1..e - 1 : s[i] \in PieceOf(M)
    BY <1>1
  <2>2. /\ SubSeq(s, 1, e - 1) \in Seq(PieceOf(M))
        /\ Len(SubSeq(s, 1, e - 1)) = IF 1 <= e - 1 THEN (e - 1) - 1 + 1 ELSE 0
        /\ \A i \in 1..(e - 1) - 1 + 1 : SubSeq(s, 1, e - 1)[i] = s[1 + i - 1]
    BY <2>1, SubSeqProperties
  <2>3. (e - 1) - 1 + 1 = e - 1 /\ \A i \in 1..e - 1 : 1 + i - 1 = i
    BY <1>1
  <2> QED BY <1>1, <2>2, <2>3
<1>3. SubSeq(s, e, Len(s)) = <<s[e]>> \o SubSeq(s, e + 1, Len(s))
  <2>1. e \in 1..Len(s) /\ Len(s) \in e..Len(s)
    BY <1>1
  <2> QED BY <2>1, SubSeqRecursiveFirst
<1>4. SubSeq(s, 1, e - 1) \o SubSeq(s, e, Len(s)) = s
  <2>1. /\ 1 \in 1..Len(s) + 1 /\ e - 1 \in 1 - 1..Len(s) /\ Len(s) \in e - 1..Len(s)
        /\ (e - 1) + 1 = e
    BY <1>1
  <2>2. SubSeq(s, 1, e - 1) \o SubSeq(s, (e - 1) + 1, Len(s)) = SubSeq(s, 1, Len(s))
    BY <2>1, ConcatAdjacentSubSeq
  <2> QED BY <2>1, <2>2, SubSeqFull
<1> QED BY <1>1, <1>2, <1>3, <1>4 DEF Behind, e

\* What a function of pieces, with nothing for a piece within a message, gives
\* for a buffer: what it gives for the end of the first message, then the rest.
LEMMA ThroughWhole ==
    ASSUME NEW M, NEW V, NEW g \in Gives(PieceOf(M), V), NEW s \in Seq(PieceOf(M)),
           \A p \in PieceOf(M) : ~p.last => g[p] = <<>>
    PROVE  /\ Whole(s) => Through(g, s) = g[s[End(s)]] \o Through(g, Behind(s))
           /\ ~Whole(s) => Through(g, s) = <<>>
<1>1. CASE ~Whole(s)
  <2>1. \A i \in 1..Len(s) : s[i] \in PieceOf(M) /\ ~s[i].last
    BY <1>1, EndFacts, ElementOfSeq
  <2> QED BY <1>1, <2>1, ThroughNothing
<1>2. CASE Whole(s)
  <2> DEFINE a == SubSeq(s, 1, End(s) - 1)
             p == s[End(s)]
             b == Behind(s)
  <2>1. /\ a \in Seq(PieceOf(M)) /\ p \in PieceOf(M) /\ s = a \o (<<p>> \o b)
        /\ \A i \in 1..Len(a) : ~a[i].last
    BY <1>2, AroundEnd
  <2>2. b \in Seq(PieceOf(M))
    BY <1>2, EndFacts
  <2> HIDE DEF a, p, b
  <2>3. \A i \in 1..Len(a) : a[i] \in PieceOf(M)
    BY <2>1, ElementOfSeq
  <2>4. Through(g, a) = <<>>
    BY <2>1, <2>3, ThroughNothing
  <2>5. <<p>> \in Seq(PieceOf(M)) /\ <<p>> \o b \in Seq(PieceOf(M))
    BY <2>1, <2>2, ConcatProperties
  <2> DEFINE Q == PieceOf(M)
  <2>6. /\ g \in Gives(Q, V) /\ p \in Q /\ a \in Seq(Q) /\ b \in Seq(Q) /\ <<p>> \in Seq(Q)
        /\ <<p>> \o b \in Seq(Q)
    BY <2>1, <2>2, <2>5
  <2> HIDE DEF Q
  <2>0. ASSUME NEW x \in Seq(Q), NEW y \in Seq(Q)
        PROVE  Through(g, x \o y) = Through(g, x) \o Through(g, y)
    BY <2>6, ThroughConcat, SMTT(60)
  <2>7. Through(g, <<p>> \o b) = Through(g, <<p>>) \o Through(g, b)
    BY <2>6, <2>0
  <2>8. Through(g, <<p>>) = g[p]
    BY <2>6, ThroughOne
  <2>9. Through(g, a \o (<<p>> \o b)) = Through(g, a) \o Through(g, <<p>> \o b)
    BY <2>6, <2>0
  <2>10. Through(g, b) \in Seq(V) /\ g[p] \in Seq(V)
    BY <2>6, ThroughTyped DEF Gives
  <2>11. g[p] \o Through(g, b) \in Seq(V)
    BY <2>10, ConcatProperties
  <2>12. Through(g, s) = <<>> \o (g[p] \o Through(g, b))
    BY <2>1, <2>4, <2>7, <2>8, <2>9
  <2> QED BY <1>2, <2>11, <2>12, ConcatEmptySeq DEF p, b
<1> QED BY <1>1, <1>2

\* A message cut in pieces.
LEMMA PiecesTyped ==
    ASSUME NEW M, NEW m \in M
    PROVE  /\ Pieces(m) \in Seq(PieceOf(M)) /\ Whole(Pieces(m)) /\ First(Pieces(m)) = m
           /\ Behind(Pieces(m)) = <<>>
<1> DEFINE n == Fragments["BLOCK" \in c.flags]
           s == Pieces(m)
<1>1. n \in Nat \ {0}
  <2>1. Fragments \in [BOOLEAN -> Nat \ {0}] /\ ("BLOCK" \in c.flags) \in BOOLEAN
    BY CountAssumption
  <2> QED BY <2>1, Zenon
<1>2. s = [i \in 1..n |-> [msg |-> m, last |-> i = n]]
  BY DEF Pieces
<1> HIDE DEF n, s
<1>3. s \in Seq(PieceOf(M)) /\ Len(s) = n
  <2>1. \A i \in 1..n : [msg |-> m, last |-> i = n] \in PieceOf(M)
    BY DEF PieceOf
  <2> QED BY <1>1, <1>2, <2>1
<1>4. \A i \in 1..n : s[i].msg = m /\ (s[i].last <=> i = n)
  BY <1>2
<1>5. Whole(s)
  <2>1. n \in 1..Len(s) /\ s[n].last
    BY <1>1, <1>3, <1>4
  <2> QED BY <1>3, <2>1, EndFacts
<1>6. End(s) = n
  BY <1>1, <1>3, <1>4, <1>5, EndFacts
<1>7. First(s) = m
  BY <1>1, <1>4, <1>6 DEF First
<1>8. Behind(s) = <<>>
  BY <1>1, <1>3, <1>6, SubSeqEmpty DEF Behind
<1> QED BY <1>3, <1>5, <1>7, <1>8 DEF s

(***************************************************************************)
(* The commands and the replies that are complete in a buffer              *)
(***************************************************************************)
\* What a blocking context is sent.
Message == [op : {"answer", "garbage"}, req : Nat]

CommandIn == [p \in PieceOf(Nat) |-> IF p.last THEN <<p.msg>> ELSE <<>>]
ReplyIn ==
    [p \in PieceOf(Message) |-> IF p.last /\ p.msg.op # "garbage" THEN <<p.msg.req>> ELSE <<>>]

\* The reply that a message is, if any.
Reply1(m) == IF m.op # "garbage" THEN <<m.req>> ELSE <<>>

LEMMA CommandsGiven ==
    /\ CommandIn \in Gives(PieceOf(Nat), Nat)
    /\ \A p \in PieceOf(Nat) : ~p.last => CommandIn[p] = <<>>
    /\ \A s \in Seq(PieceOf(Nat)) : Commands(s) = Through(CommandIn, s)
<1>1. CommandIn \in Gives(PieceOf(Nat), Nat)
  BY DEF CommandIn, Gives, PieceOf
<1>2. ASSUME NEW s \in Seq(PieceOf(Nat)) PROVE Commands(s) = Through(CommandIn, s)
  <2>1. \A i \in DOMAIN s : CommandIn[s[i]] = IF s[i].last THEN <<s[i].msg>> ELSE <<>>
    BY ElementOfSeq, LenProperties DEF CommandIn
  <2> QED BY <2>1 DEF Commands, Through
<1> QED BY <1>1, <1>2 DEF CommandIn

LEMMA RepliesGiven ==
    /\ ReplyIn \in Gives(PieceOf(Message), Nat)
    /\ \A p \in PieceOf(Message) : ~p.last => ReplyIn[p] = <<>>
    /\ \A p \in PieceOf(Message) : p.last => ReplyIn[p] = Reply1(p.msg)
    /\ \A s \in Seq(PieceOf(Message)) : Replies(s) = Through(ReplyIn, s)
<1>1. ReplyIn \in Gives(PieceOf(Message), Nat)
  BY DEF ReplyIn, Gives, PieceOf, Message
<1>2. ASSUME NEW s \in Seq(PieceOf(Message)) PROVE Replies(s) = Through(ReplyIn, s)
  <2>1. \A i \in DOMAIN s :
          ReplyIn[s[i]] = IF s[i].last /\ s[i].msg.op # "garbage" THEN <<s[i].msg.req>> ELSE <<>>
    BY ElementOfSeq, LenProperties DEF ReplyIn
  <2> QED BY <2>1 DEF Replies, Through
<1> QED BY <1>1, <1>2 DEF ReplyIn, Reply1

\* The laws of Commands and of Replies.
LEMMA CommandsType ==
    ASSUME NEW s \in Seq(PieceOf(Nat))
    PROVE  Commands(s) \in Seq(Nat) /\ Commands(<<>>) = <<>>
<1> DEFINE Q == PieceOf(Nat)
<1>1. CommandIn \in Gives(Q, Nat) /\ s \in Seq(Q) /\ <<>> \in Seq(Q)
  BY CommandsGiven
<1>2. Commands(s) = Through(CommandIn, s) /\ Commands(<<>>) = Through(CommandIn, <<>>)
  BY <1>1, CommandsGiven
<1> HIDE DEF Q
<1>3. Through(CommandIn, s) \in Seq(Nat)
  BY <1>1, ThroughTyped
<1>4. Through(CommandIn, <<>>) = <<>>
  BY DEF Through, FlattenSeq
<1> QED BY <1>2, <1>3, <1>4

LEMMA CommandsConcat ==
    ASSUME NEW s \in Seq(PieceOf(Nat)), NEW t \in Seq(PieceOf(Nat))
    PROVE  s \o t \in Seq(PieceOf(Nat)) /\ Commands(s \o t) = Commands(s) \o Commands(t)
<1> DEFINE Q == PieceOf(Nat)
<1>1. s \in Seq(Q) /\ t \in Seq(Q) /\ s \o t \in Seq(Q)
  BY ConcatProperties
<1>2. /\ CommandIn \in Gives(Q, Nat) /\ Commands(s) = Through(CommandIn, s) /\ Commands(t) = Through(CommandIn, t)
      /\ Commands(s \o t) = Through(CommandIn, s \o t)
  BY <1>1, CommandsGiven
<1> HIDE DEF Q
<1>3. Through(CommandIn, s \o t) = Through(CommandIn, s) \o Through(CommandIn, t)
  <2> DEFINE N == Nat
  <2>1. CommandIn \in Gives(Q, N)
    BY <1>2
  <2> HIDE DEF N
  <2>2. ASSUME NEW x \in Seq(Q), NEW y \in Seq(Q)
        PROVE  Through(CommandIn, x \o y) = Through(CommandIn, x) \o Through(CommandIn, y)
    BY <2>1, ThroughConcat
  <2> QED BY <1>1, <2>2
<1> QED BY <1>1, <1>2, <1>3 DEF Q

LEMMA CommandsWhole ==
    ASSUME NEW s \in Seq(PieceOf(Nat))
    PROVE  /\ Whole(s) => /\ First(s) \in Nat /\ Behind(s) \in Seq(PieceOf(Nat))
                          /\ Commands(s) = <<First(s)>> \o Commands(Behind(s))
           /\ ~Whole(s) => Commands(s) = <<>>
<1> DEFINE Q == PieceOf(Nat)
<1>1. /\ CommandIn \in Gives(Q, Nat) /\ s \in Seq(Q) /\ Commands(s) = Through(CommandIn, s)
      /\ \A p \in Q : ~p.last => CommandIn[p] = <<>>
  BY CommandsGiven
<1>2. /\ Whole(s) => Through(CommandIn, s) = CommandIn[s[End(s)]] \o Through(CommandIn, Behind(s))
      /\ ~Whole(s) => Through(CommandIn, s) = <<>>
  <2>1. \A p \in PieceOf(Nat) : ~p.last => CommandIn[p] = <<>>
    BY <1>1
  <2> QED BY <1>1, <2>1, ThroughWhole
<1>3. ASSUME Whole(s)
      PROVE  /\ First(s) \in Nat /\ Behind(s) \in Seq(Q) /\ Commands(Behind(s)) = Through(CommandIn, Behind(s))
             /\ CommandIn[s[End(s)]] = <<First(s)>>
  <2>1. Behind(s) \in Seq(Q) /\ First(s) \in Nat
    BY <1>3, EndFacts
  <2>2. s[End(s)] \in Q /\ s[End(s)].last
    BY <1>3, AroundEnd
  <2>3. CommandIn[s[End(s)]] = <<First(s)>>
    BY <2>2, CommandsGiven DEF CommandIn, First
  <2> QED BY <2>1, <2>3, CommandsGiven
<1> HIDE DEF Q
<1> QED BY <1>1, <1>2, <1>3 DEF Q

LEMMA CommandsPieces ==
    ASSUME NEW m \in Nat
    PROVE  Pieces(m) \in Seq(PieceOf(Nat)) /\ Commands(Pieces(m)) = <<m>>
<1>1. /\ Pieces(m) \in Seq(PieceOf(Nat)) /\ Whole(Pieces(m)) /\ First(Pieces(m)) = m
      /\ Behind(Pieces(m)) = <<>>
  BY PiecesTyped
<1>2. Commands(Pieces(m)) = <<m>> \o <<>>
  BY <1>1, CommandsWhole, CommandsType
<1>3. <<m>> \in Seq(Nat)
  BY SMT
<1> QED BY <1>1, <1>2, <1>3, ConcatEmptySeq

LEMMA RepliesType ==
    ASSUME NEW s \in Seq(PieceOf(Message))
    PROVE  Replies(s) \in Seq(Nat) /\ Replies(<<>>) = <<>>
<1> DEFINE Q == PieceOf(Message)
<1>1. ReplyIn \in Gives(Q, Nat) /\ s \in Seq(Q) /\ <<>> \in Seq(Q)
  BY RepliesGiven
<1>2. Replies(s) = Through(ReplyIn, s) /\ Replies(<<>>) = Through(ReplyIn, <<>>)
  BY <1>1, RepliesGiven
<1> HIDE DEF Q
<1>3. Through(ReplyIn, s) \in Seq(Nat)
  BY <1>1, ThroughTyped
<1>4. Through(ReplyIn, <<>>) = <<>>
  BY DEF Through, FlattenSeq
<1> QED BY <1>2, <1>3, <1>4

LEMMA RepliesConcat ==
    ASSUME NEW s \in Seq(PieceOf(Message)), NEW t \in Seq(PieceOf(Message))
    PROVE  s \o t \in Seq(PieceOf(Message)) /\ Replies(s \o t) = Replies(s) \o Replies(t)
<1> DEFINE Q == PieceOf(Message)
<1>1. s \in Seq(Q) /\ t \in Seq(Q) /\ s \o t \in Seq(Q)
  BY ConcatProperties
<1>2. /\ ReplyIn \in Gives(Q, Nat) /\ Replies(s) = Through(ReplyIn, s) /\ Replies(t) = Through(ReplyIn, t)
      /\ Replies(s \o t) = Through(ReplyIn, s \o t)
  BY <1>1, RepliesGiven
<1> HIDE DEF Q
<1>3. Through(ReplyIn, s \o t) = Through(ReplyIn, s) \o Through(ReplyIn, t)
  <2> DEFINE N == Nat
  <2>1. ReplyIn \in Gives(Q, N)
    BY <1>2
  <2> HIDE DEF N
  <2>2. ASSUME NEW x \in Seq(Q), NEW y \in Seq(Q)
        PROVE  Through(ReplyIn, x \o y) = Through(ReplyIn, x) \o Through(ReplyIn, y)
    BY <2>1, ThroughConcat
  <2> QED BY <1>1, <2>2
<1> QED BY <1>1, <1>2, <1>3 DEF Q

LEMMA RepliesWhole ==
    ASSUME NEW s \in Seq(PieceOf(Message))
    PROVE  /\ Whole(s) => /\ First(s) \in Message /\ Behind(s) \in Seq(PieceOf(Message))
                          /\ Replies(s) = Reply1(First(s)) \o Replies(Behind(s))
           /\ ~Whole(s) => Replies(s) = <<>>
<1> DEFINE Q == PieceOf(Message)
<1>1. /\ ReplyIn \in Gives(Q, Nat) /\ s \in Seq(Q) /\ Replies(s) = Through(ReplyIn, s)
      /\ \A p \in Q : ~p.last => ReplyIn[p] = <<>>
  BY RepliesGiven
<1>2. /\ Whole(s) => Through(ReplyIn, s) = ReplyIn[s[End(s)]] \o Through(ReplyIn, Behind(s))
      /\ ~Whole(s) => Through(ReplyIn, s) = <<>>
  <2>1. \A p \in PieceOf(Message) : ~p.last => ReplyIn[p] = <<>>
    BY <1>1
  <2> QED BY <1>1, <2>1, ThroughWhole
<1>3. ASSUME Whole(s)
      PROVE  /\ First(s) \in Message /\ Behind(s) \in Seq(Q) /\ Replies(Behind(s)) = Through(ReplyIn, Behind(s))
             /\ ReplyIn[s[End(s)]] = Reply1(First(s))
  <2>1. Behind(s) \in Seq(Q) /\ First(s) \in Message
    BY <1>3, EndFacts
  <2>2. s[End(s)] \in Q /\ s[End(s)].last
    BY <1>3, AroundEnd
  <2>3. ReplyIn[s[End(s)]] = Reply1(First(s))
    BY <2>2, RepliesGiven DEF First
  <2> QED BY <2>1, <2>3, RepliesGiven
<1> HIDE DEF Q
<1> QED BY <1>1, <1>2, <1>3 DEF Q

LEMMA RepliesPieces ==
    ASSUME NEW m \in Message
    PROVE  Pieces(m) \in Seq(PieceOf(Message)) /\ Replies(Pieces(m)) = Reply1(m)
<1>1. /\ Pieces(m) \in Seq(PieceOf(Message)) /\ Whole(Pieces(m)) /\ First(Pieces(m)) = m
      /\ Behind(Pieces(m)) = <<>>
  BY PiecesTyped
<1>2. Replies(Pieces(m)) = Reply1(m) \o <<>>
  BY <1>1, RepliesWhole, RepliesType
<1>3. Reply1(m) \in Seq(Nat)
  BY DEF Reply1, Message
<1> QED BY <1>1, <1>2, <1>3, ConcatEmptySeq

(***************************************************************************)
(* The inductive invariant.  AnswersInOrder speaks of a connection that is *)
(* up; when the server has closed it, what it had not read is lost, and    *)
(* the replies that are still to be read are those to the oldest commands. *)
(***************************************************************************)
\* The commands whose replies are due: those of the replies in the reader of k
\* and on their way in d, and then those in u and in the output buffer of k.
Streams(k, w, u, d, p) ==
    /\ w \in Seq(Nat) /\ u \in Seq(PieceOf(Nat))
    /\ k.inbuf \in Seq(PieceOf(Message)) /\ d \in Seq(PieceOf(Message))
    /\ k.rerr = "ok" =>
         \E x \in Seq(Nat) : /\ w = Replies(k.inbuf \o d) \o x
                             /\ p = "up" => x = Commands(u \o k.obuf.chars)
                             /\ p # "up" => u = <<>>

\* No connection yet, or no longer one.
Untouched ==
    pc \in {"none", "address"} =>
        /\ waiting = <<>> /\ up = <<>> /\ down = <<>> /\ peer = "none"
        /\ c.inbuf = <<>> /\ c.obuf = sdsempty /\ server = NoServer

InStep ==
    "BLOCK" \in c.flags =>
        /\ Streams(c, waiting, up, down, peer)
        /\ peer \in {"none", "up", "closed"} /\ server = NoServer

Due == Untouched /\ InStep /\ ret.got = ret.due

(***************************************************************************)
(* What the parts of a call do to the streams                              *)
(***************************************************************************)
LEMMA StreamsKept ==
    ASSUME NEW k, NEW w, NEW u, NEW d, NEW p, Streams(k, w, u, d, p),
           NEW j, j.inbuf = k.inbuf, j.obuf = k.obuf, j.rerr = k.rerr
    PROVE  Streams(j, w, u, d, p)
BY DEF Streams

\* The reader is in error for good.
LEMMA StreamsBroken ==
    ASSUME NEW k, NEW w, NEW u, NEW d, NEW p, Streams(k, w, u, d, p),
           NEW j, j.inbuf = <<>>, j.rerr # "ok"
    PROVE  Streams(j, w, u, d, p) /\ Streams(j, w, u, <<>>, p)
BY DEF Streams

\* A new connection, or none.
LEMMA NoStreams ==
    ASSUME NEW k, k.inbuf = <<>>, k.obuf = sdsempty, NEW p
    PROVE  Streams(k, <<>>, <<>>, <<>>, p)
<1>1. <<>> \in Seq(Nat) /\ <<>> \in Seq(PieceOf(Nat)) /\ <<>> \in Seq(PieceOf(Message))
  OBVIOUS
<1>2. Replies(<<>>) = <<>> /\ Commands(<<>>) = <<>>
  BY <1>1, RepliesType, CommandsType
<1>3. sdsempty.chars = <<>>
  BY EmptyString
<1>4. <<>> \o <<>> = <<>>
  OBVIOUS
<1> QED BY <1>1, <1>2, <1>3, <1>4 DEF Streams

\* A command joins those in the output buffer.
LEMMA AppendStreams ==
    ASSUME BufferSound, Streams(c, waiting, up, down, peer)
    PROVE  Streams(Appended, Append(waiting, issued + 1), up, down, peer)
<1> DEFINE n == issued + 1
<1>1. n \in Nat /\ c.obuf \in String(Piece) /\ Piece = PieceOf(Nat)
  BY DEF BufferSound, Buffered, Piece, PieceOf
<1>2. c.obuf.chars \in Seq(PieceOf(Nat))
  BY <1>1, StringFacts
<1>3. Pieces(n) \in Seq(PieceOf(Nat)) /\ Commands(Pieces(n)) = <<n>>
  BY <1>1, CommandsPieces
<1>4. Appended.obuf.chars = c.obuf.chars \o Pieces(n)
  <2>1. sdscatlen(c.obuf, Pieces(n)).chars = c.obuf.chars \o Pieces(n)
    BY <1>1, <1>3, AppendExact
  <2> QED BY <2>1 DEF Appended, BufferSound, Buffered, redisContextInit
<1>5. Appended.inbuf = c.inbuf /\ Appended.rerr = c.rerr
  BY DEF Appended, BufferSound, Buffered, redisContextInit
<1> DEFINE R == Replies(c.inbuf \o down)
           C == Commands(up \o c.obuf.chars)
<1>6. /\ waiting \in Seq(Nat) /\ up \in Seq(PieceOf(Nat))
      /\ c.inbuf \in Seq(PieceOf(Message)) /\ down \in Seq(PieceOf(Message))
  BY DEF Streams
<1>7. R \in Seq(Nat)
  BY <1>6, RepliesConcat, RepliesType
<1>8. C \in Seq(Nat) /\ Commands(up \o Appended.obuf.chars) = C \o <<n>>
  <2>1. up \o c.obuf.chars \in Seq(PieceOf(Nat))
    BY <1>2, <1>6, CommandsConcat
  <2>2. up \o (c.obuf.chars \o Pieces(n)) = (up \o c.obuf.chars) \o Pieces(n)
    <3> DEFINE Q == PieceOf(Nat)
               v == c.obuf.chars
               m == Pieces(n)
    <3>1. up \in Seq(Q) /\ v \in Seq(Q) /\ m \in Seq(Q)
      BY <1>2, <1>3, <1>6
    <3> HIDE DEF Q, v, m
    <3>2. up \o (v \o m) = (up \o v) \o m
      BY <3>1, ConcatAssociative, SMTT(60)
    <3> QED BY <3>2 DEF v, m
  <2>3. Commands((up \o c.obuf.chars) \o Pieces(n)) = C \o Commands(Pieces(n))
    BY <1>3, <2>1, CommandsConcat
  <2>4. C \in Seq(Nat)
    BY <2>1, CommandsType
  <2> QED BY <1>3, <1>4, <2>2, <2>3, <2>4
<1>9. ASSUME NEW x \in Seq(Nat), waiting = R \o x
      PROVE  x \o <<n>> \in Seq(Nat) /\ Append(waiting, n) = R \o (x \o <<n>>)
  <2>1. <<n>> \in Seq(Nat) /\ Append(waiting, n) = waiting \o <<n>>
    BY <1>1, <1>6, AppendIsConcat
  <2>2. x \o <<n>> \in Seq(Nat)
    BY <2>1, ConcatProperties
  <2>3. (R \o x) \o <<n>> = R \o (x \o <<n>>)
    BY <1>7, <2>1, ConcatAssociative, SMTT(60)
  <2> QED BY <1>9, <2>1, <2>2, <2>3
<1>10. Append(waiting, n) \in Seq(Nat)
  BY <1>1, <1>6, AppendProperties
<1>11. ASSUME c.rerr = "ok"
       PROVE  \E x \in Seq(Nat) : /\ Append(waiting, n) = R \o x
                                  /\ peer = "up" => x = Commands(up \o Appended.obuf.chars)
                                  /\ peer # "up" => up = <<>>
  <2>1. PICK x \in Seq(Nat) : waiting = R \o x /\ (peer = "up" => x = C) /\ (peer # "up" => up = <<>>)
    BY <1>11 DEF Streams
  <2>2. x \o <<n>> \in Seq(Nat) /\ Append(waiting, n) = R \o (x \o <<n>>)
    BY <1>9, <2>1
  <2> HIDE DEF R, C, n
  <2> QED BY <1>8, <2>1, <2>2
<1> HIDE DEF C
<1> QED BY <1>5, <1>6, <1>10, <1>11 DEF Streams

\* A reply that is returned was due: it is the oldest.
LEMMA LookStreams ==
    ASSUME NEW k, DOMAIN k = DOMAIN redisContextInit, NEW w, NEW u, NEW d, NEW p,
           Streams(k, w, u, d, p), NEW next, Look(k, w, next), ret.got = ret.due
    PROVE  Streams(c', waiting', u, d, p) /\ ret'.got = ret'.due
<1>1. CASE k.rerr # "ok" /\ Fail(SetError(k, k.rerr)) /\ waiting' = w
  <2>1. c'.inbuf = k.inbuf /\ c'.obuf = k.obuf /\ c'.rerr = k.rerr /\ ret' = Failed
    BY <1>1 DEF Fail, SetError, redisContextInit
  <2> QED BY <1>1, <2>1, StreamsKept DEF Failed
<1>2. CASE c' = k /\ waiting' = w /\ UNCHANGED ret
  BY <1>2
<1>3. CASE /\ Fail(SetError([k EXCEPT !.rerr = "protocol", !.inbuf = <<>>], "protocol"))
           /\ waiting' = w
  <2>1. c'.inbuf = <<>> /\ c'.rerr = "protocol" /\ ret' = Failed
    BY <1>3 DEF Fail, SetError, redisContextInit
  <2> QED BY <1>3, <2>1, StreamsBroken DEF Failed
<1>4. CASE /\ k.rerr = "ok" /\ Whole(k.inbuf) /\ First(k.inbuf).op # "garbage"
           /\ c' = [k EXCEPT !.inbuf = Behind(@)]
           /\ ret' = [ok |-> TRUE, got |-> First(k.inbuf).req, due |-> Head(w)]
           /\ waiting' = Tail(w)
  <2> DEFINE q == First(k.inbuf).req
             b == Behind(k.inbuf)
  <2>1. /\ k.inbuf \in Seq(PieceOf(Message)) /\ d \in Seq(PieceOf(Message))
        /\ w \in Seq(Nat) /\ u \in Seq(PieceOf(Nat))
    BY DEF Streams
  <2>2. /\ First(k.inbuf) \in Message /\ b \in Seq(PieceOf(Message))
        /\ Replies(k.inbuf) = Reply1(First(k.inbuf)) \o Replies(b)
    BY <1>4, <2>1, RepliesWhole
  <2>3. q \in Nat /\ Replies(k.inbuf) = <<q>> \o Replies(b) /\ <<q>> \in Seq(Nat)
    BY <1>4, <2>2 DEF Reply1, Message
  <2>4. /\ Replies(k.inbuf \o d) = (<<q>> \o Replies(b)) \o Replies(d)
        /\ Replies(b \o d) = Replies(b) \o Replies(d) /\ Replies(b \o d) \in Seq(Nat)
        /\ Replies(b) \in Seq(Nat) /\ Replies(d) \in Seq(Nat)
    BY <2>1, <2>2, <2>3, RepliesConcat, RepliesType
  <2> HIDE DEF q, b
  <2>5. Replies(k.inbuf \o d) = <<q>> \o Replies(b \o d)
    BY <2>3, <2>4, ConcatAssociative, SMTT(60)
  <2> DEFINE all == Replies(k.inbuf \o d)
             r == Replies(b \o d)
             sent == Commands(u \o k.obuf.chars)
             N == Nat
  <2>6. all = <<q>> \o r /\ r \in Seq(N) /\ <<q>> \in Seq(N)
    BY <2>3, <2>4, <2>5
  <2>7. \E x \in Seq(N) : w = all \o x /\ (p = "up" => x = sent) /\ (p # "up" => u = <<>>)
    BY <1>4 DEF Streams
  <2>8. c'.inbuf = b /\ c'.obuf = k.obuf /\ c'.rerr = k.rerr
    BY <1>4 DEF b, redisContextInit
  <2> HIDE DEF all, r, sent, N
  <2>9. PICK x \in Seq(N) : w = all \o x /\ (p = "up" => x = sent) /\ (p # "up" => u = <<>>)
    BY <2>7
  <2> DEFINE y == r \o x
  <2>10. y \in Seq(N) /\ (<<q>> \o r) \o x = <<q>> \o y
    BY <2>6, <2>9, ConcatAssociative, ConcatProperties, SMTT(60)
  <2>11. w = <<q>> \o y
    BY <2>6, <2>9, <2>10
  <2>12. Head(w) = q /\ Tail(w) = y
    <3> HIDE DEF y
    <3>1. y \in Seq(Nat)
      BY <2>10 DEF N
    <3>2. Head(<<q>> \o y) = q /\ Tail(<<q>> \o y) = y
      BY <2>3, <3>1
    <3> QED BY <2>11, <3>2
  <2>13. ret'.got = ret'.due
    BY <1>4, <2>12 DEF q
  <2>14. waiting' = r \o x /\ waiting' \in Seq(N)
    BY <1>4, <2>10, <2>12
  <2>15. \E z \in Seq(N) : waiting' = r \o z /\ (p = "up" => z = sent) /\ (p # "up" => u = <<>>)
    BY <2>9, <2>14
  <2> HIDE DEF y
  <2> QED BY <2>1, <2>2, <2>8, <2>13, <2>14, <2>15 DEF Streams, r, sent, N, b
<1> QED BY <1>1, <1>2, <1>3, <1>4 DEF Look

\* Cut in two, and put together again.
LEMMA TakenApart ==
    ASSUME NEW S, NEW s \in Seq(S), NEW n \in 0..Len(s)
    PROVE  /\ SubSeq(s, 1, n) \in Seq(S) /\ SubSeq(s, n + 1, Len(s)) \in Seq(S)
           /\ SubSeq(s, 1, n) \o SubSeq(s, n + 1, Len(s)) = s
<1>1. Len(s) \in Nat /\ \A i \in 1..Len(s) : s[i] \in S
  BY LenProperties, ElementOfSeq
<1>2. /\ 1 \in 1..Len(s) + 1 /\ n \in 1 - 1..Len(s) /\ Len(s) \in n..Len(s)
  BY <1>1
<1>3. SubSeq(s, 1, n) \o SubSeq(s, n + 1, Len(s)) = SubSeq(s, 1, Len(s))
  BY <1>2, ConcatAdjacentSubSeq
<1>4. SubSeq(s, 1, n) \in Seq(S)
  <2>1. 1 \in Int /\ n \in Int /\ \A i \in 1..n : s[i] \in S
    BY <1>1
  <2> QED BY <2>1, SubSeqProperties
<1>5. SubSeq(s, n + 1, Len(s)) \in Seq(S)
  <2>1. n + 1 \in Int /\ Len(s) \in Int /\ \A i \in n + 1..Len(s) : s[i] \in S
    BY <1>1
  <2> QED BY <2>1, SubSeqProperties
<1> QED BY <1>3, <1>4, <1>5, SubSeqFull

\* A write moves pieces from the output buffer to the connection.
LEMMA WriteStreams ==
    ASSUME BufferSound, Streams(c, waiting, up, down, peer), NEW n \in 1..c.obuf.len
    PROVE  Streams(Sent(n), waiting, Arrives(n), down, peer)
<1> DEFINE v == c.obuf.chars
           Q == PieceOf(Nat)
           a == SubSeq(v, 1, n)
           b == SubSeq(v, n + 1, Len(v))
<1>1. c.obuf \in String(Q) /\ DOMAIN c = DOMAIN redisContextInit /\ c.obuf.type # 0
  BY DEF BufferSound, Buffered, Piece, PieceOf
<1>2. v \in Seq(Q) /\ c.obuf.len = Len(v) /\ n \in 0..Len(v) /\ n \in Nat
  BY <1>1, StringFacts
<1>3. a \in Seq(Q) /\ b \in Seq(Q) /\ a \o b = v
  <2> HIDE DEF v, Q
  <2> QED BY <1>2, TakenApart
<1>4. Sent(n).obuf.chars = b
  <2>1. CASE n = c.obuf.len
    <3>1. b = <<>>
      BY <1>2, <2>1, SubSeqEmpty
    <3>2. Sent(n).obuf = sdsempty
      BY <1>1, <2>1 DEF Sent, redisContextInit
    <3> QED BY <3>1, <3>2, EmptyString
  <2>2. CASE n # c.obuf.len
    <3>1. sdsrange(c.obuf, n).chars = b
      BY <1>1, <1>2, RestExact
    <3>2. Sent(n).obuf = sdsrange(c.obuf, n)
      BY <1>1, <2>2 DEF Sent, redisContextInit
    <3> QED BY <3>1, <3>2
  <2> QED BY <2>1, <2>2
<1>5. Sent(n).inbuf = c.inbuf /\ Sent(n).rerr = c.rerr
  BY <1>1 DEF Sent, redisContextInit
<1>6. CASE peer = "up"
  <2>1. Arrives(n) = up \o a /\ up \in Seq(Q)
    BY <1>6 DEF Arrives, Streams
  <2> HIDE DEF a, b, v, Q
  <2>2. up \o a \in Seq(Q) /\ (up \o a) \o b = up \o v
    <3>1. up \in Seq(Q) /\ a \in Seq(Q) /\ b \in Seq(Q)
      BY <1>3, <2>1
    <3>2. up \o a \in Seq(Q)
      BY <3>1, ConcatProperties
    <3>3. up \o (a \o b) = (up \o a) \o b
      BY <3>1, ConcatAssociative, SMTT(60)
    <3> QED BY <1>3, <3>2, <3>3
  <2> QED BY <1>4, <1>5, <1>6, <2>1, <2>2 DEF Streams, v, Q
<1>7. CASE peer # "up"
  BY <1>5, <1>7 DEF Arrives, Streams
<1> QED BY <1>6, <1>7

\* A read moves pieces from the connection to the reader.
LEMMA ReadStreams ==
    ASSUME DOMAIN c = DOMAIN redisContextInit,
           Streams(c, waiting, up, down, peer), NEW n \in 1..Len(down)
    PROVE  Streams(Fed(n), waiting, up, SubSeq(down, n + 1, Len(down)), peer)
<1> DEFINE Q == PieceOf(Message)
           i == c.inbuf
           a == SubSeq(down, 1, n)
           b == SubSeq(down, n + 1, Len(down))
<1>1. i \in Seq(Q) /\ down \in Seq(Q) /\ n \in 0..Len(down)
  BY DEF Streams
<1>2. Fed(n).inbuf = i \o a /\ Fed(n).obuf = c.obuf /\ Fed(n).rerr = c.rerr
  BY DEF Fed, redisContextInit
<1> HIDE DEF Q, i
<1>3. a \in Seq(Q) /\ b \in Seq(Q) /\ a \o b = down
  BY <1>1, TakenApart
<1> HIDE DEF a, b
<1>4. i \o a \in Seq(Q) /\ (i \o a) \o b = i \o down
  <2>1. i \o a \in Seq(Q)
    BY <1>1, <1>3, ConcatProperties
  <2>2. i \o (a \o b) = (i \o a) \o b
    <3>1. i \in Seq(Q) /\ a \in Seq(Q) /\ b \in Seq(Q)
      BY <1>1, <1>3
    <3> QED BY <3>1, ConcatAssociative, SMTT(60)
  <2> QED BY <1>3, <2>1, <2>2
<1>5. Streams(Fed(n), waiting, up, b, peer)
  BY <1>2, <1>3, <1>4 DEF Streams, Q, i
<1> QED BY <1>5 DEF b

\* The server reads a command and answers it.
LEMMA ServeStreams ==
    ASSUME BufferSound, Streams(c, waiting, up, down, peer), Whole(up)
    PROVE  Streams(c, waiting, Behind(up), down \o Pieces(Answer(First(up))), peer)
<1> DEFINE f == First(up)
           P == PieceOf(Nat)
           Q == PieceOf(Message)
           v == c.obuf.chars
           i == c.inbuf
           m == Pieces(Answer(f))
           b == Behind(up)
<1>1. i \in Seq(Q) /\ down \in Seq(Q) /\ up \in Seq(P)
  BY DEF Streams
<1>2. v \in Seq(P)
  BY StringFacts DEF BufferSound, Buffered, Piece, PieceOf
<1>3. f \in Nat /\ b \in Seq(P) /\ Commands(up) = <<f>> \o Commands(b)
  BY <1>1, CommandsWhole
<1>4. m \in Seq(Q) /\ Replies(m) = <<f>>
  <2>1. Answer(f) \in Message
    BY <1>3 DEF Answer, Message
  <2>2. Reply1(Answer(f)) = <<f>>
    BY DEF Reply1, Answer
  <2> QED BY <2>1, <2>2, RepliesPieces
<1>5. /\ Commands(up \o v) = (<<f>> \o Commands(b)) \o Commands(v)
      /\ Commands(b \o v) = Commands(b) \o Commands(v)
      /\ Commands(b) \in Seq(Nat) /\ Commands(v) \in Seq(Nat) /\ Commands(b \o v) \in Seq(Nat)
  <2> HIDE DEF b, v, f
  <2>1. Commands(b \o v) = Commands(b) \o Commands(v) /\ b \o v \in Seq(P)
    BY <1>2, <1>3, CommandsConcat
  <2>2. Commands(up \o v) = Commands(up) \o Commands(v)
    BY <1>1, <1>2, CommandsConcat
  <2>3. Commands(b) \in Seq(Nat) /\ Commands(v) \in Seq(Nat) /\ Commands(b \o v) \in Seq(Nat)
    BY <1>2, <1>3, <2>1, CommandsType
  <2> QED BY <1>3, <2>1, <2>2, <2>3
<1>6. /\ down \o m \in Seq(Q) /\ Replies(i \o (down \o m)) = Replies(i \o down) \o <<f>>
      /\ Replies(i \o down) \in Seq(Nat)
  <2> HIDE DEF m, i, f
  <2>1. down \o m \in Seq(Q) /\ i \o down \in Seq(Q)
    BY <1>1, <1>4, RepliesConcat
  <2>2. i \o (down \o m) = (i \o down) \o m
    <3> HIDE DEF Q
    <3> QED BY <1>1, <1>4, ConcatAssociative, SMTT(60)
  <2>3. Replies((i \o down) \o m) = Replies(i \o down) \o Replies(m)
    BY <1>4, <2>1, RepliesConcat
  <2> QED BY <1>4, <2>1, <2>2, <2>3, RepliesType
<1> DEFINE r == Replies(i \o down)
           s == Commands(b \o v)
           N == Nat
<1>7. /\ <<f>> \in Seq(N) /\ r \in Seq(N) /\ s \in Seq(N)
      /\ Commands(up \o v) = <<f>> \o s
  <2>1. <<f>> \in Seq(N)
    BY <1>3
  <2> DEFINE x == Commands(b)
             y == Commands(v)
             g == <<f>>
  <2>2. x \in Seq(N) /\ y \in Seq(N) /\ g \in Seq(N)
    BY <1>5, <2>1
  <2> HIDE DEF x, y, g, N
  <2>3. (g \o x) \o y = g \o (x \o y)
    BY <2>2, ConcatAssociative, SMTT(60)
  <2> QED BY <1>5, <1>6, <2>1, <2>3 DEF x, y, g, N
<1>8. ASSUME c.rerr = "ok"
      PROVE  \E x \in Seq(N) : /\ waiting = Replies(i \o (down \o m)) \o x
                               /\ peer = "up" => x = s
                               /\ peer # "up" => b = <<>>
  <2>1. \E x \in Seq(N) : waiting = r \o x /\ (peer = "up" => x = Commands(up \o v))
                         /\ (peer # "up" => up = <<>>)
    BY <1>8 DEF Streams
  <2>2. ~Whole(<<>>)
    <3>1. <<>> \in Seq(P) /\ ~\E e : e \in 1..Len(<<>>)
      OBVIOUS
    <3> QED BY <3>1, EndFacts
  <2>3. waiting = r \o (<<f>> \o s) /\ peer = "up"
    <3> HIDE DEF r, s, f, N, v
    <3> QED BY <1>7, <2>1, <2>2
  <2> HIDE DEF r, s, f, N
  <2>4. r \o (<<f>> \o s) = (r \o <<f>>) \o s
    BY <1>7, ConcatAssociative, SMTT(60)
  <2> QED BY <1>6, <1>7, <2>3, <2>4 DEF r, f
<1> QED BY <1>1, <1>3, <1>6, <1>8 DEF Streams

\* What the server has not read when it closes the connection is lost; what is
\* no reply comes between replies.
LEMMA ServerStreams ==
    ASSUME Streams(c, waiting, up, down, peer)
    PROVE  /\ peer = "up" => Streams(c, waiting, <<>>, down, "closed")
           /\ Streams(c, waiting, up, Append(down, Garbage), peer)
<1>1. Streams(c, waiting, <<>>, down, "closed")
  <2>1. <<>> \in Seq(PieceOf(Nat)) /\ "closed" # "up"
    OBVIOUS
  <2>2. ASSUME c.rerr = "ok" PROVE \E x \in Seq(Nat) : waiting = Replies(c.inbuf \o down) \o x
    BY <2>2 DEF Streams
  <2> QED BY <2>1, <2>2 DEF Streams
<1> DEFINE Q == PieceOf(Message)
           i == c.inbuf
           g == <<Garbage>>
<1>2. i \in Seq(Q) /\ down \in Seq(Q)
  BY DEF Streams
<1>3. Garbage \in Q /\ ReplyIn[Garbage] = <<>>
  BY DEF Garbage, PieceOf, Message, ReplyIn
<1>4. g \in Seq(Q) /\ Replies(g) = <<>>
  <2>1. g \in Seq(Q)
    BY <1>3
  <2>2. Replies(g) = Through(ReplyIn, g) /\ ReplyIn \in Gives(Q, Nat)
    BY <2>1, RepliesGiven
  <2>3. Through(ReplyIn, <<Garbage>>) = ReplyIn[Garbage]
    <3> HIDE DEF Q
    <3> QED BY <1>3, <2>2, ThroughOne
  <2> QED BY <1>3, <2>1, <2>2, <2>3
<1>5. Append(down, Garbage) = down \o g /\ down \o g \in Seq(Q)
  BY <1>2, <1>3, <1>4, AppendIsConcat, ConcatProperties
<1>6. Replies(i \o (down \o g)) = Replies(i \o down)
  <2>1. i \o down \in Seq(Q)
    BY <1>2, RepliesConcat
  <2>2. i \o (down \o g) = (i \o down) \o g
    <3> HIDE DEF Q, g, i
    <3> QED BY <1>2, <1>4, ConcatAssociative, SMTT(60)
  <2>3. Replies((i \o down) \o g) = Replies(i \o down) \o Replies(g)
    <3> HIDE DEF g
    <3> QED BY <1>4, <2>1, RepliesConcat
  <2>4. Replies(i \o down) \in Seq(Nat)
    BY <2>1, RepliesType
  <2> QED BY <1>4, <2>2, <2>3, <2>4, ConcatEmptySeq
<1>7. Streams(c, waiting, up, down \o g, peer)
  BY <1>5, <1>6 DEF Streams
<1> QED BY <1>1, <1>5, <1>7

(***************************************************************************)
(* Every step                                                              *)
(***************************************************************************)
\* The calls of a blocking context.
LEMMA CallsDue ==
    ASSUME Control, BufferSound, Due, server' = server,
           \/ AppendCommand \/ GetReply \/ Command \/ BufferWrite \/ BufferRead
           \/ SocketError \/ SetTimeout \/ EnableKeepAlive
    PROVE  Due'
<1>0. DOMAIN c = DOMAIN redisContextInit
  BY DEF Control, Shape
<1>1. /\ pc \in {"idle", "write", "read"} /\ pc' \in {"idle", "write", "read"} /\ peer' = peer
  BY DEF AppendCommand, GetReply, Command, BufferWrite, BufferRead, SocketError, SetTimeout,
     EnableKeepAlive, Calls, CannotAppend, Look, Fail, EndOfFile
<1>2. Streams(c, waiting, up, down, peer) /\ ret.got = ret.due
  BY <1>1 DEF Due, InStep, Control, Mode
<1> SUFFICES Streams(c', waiting', up', down', peer) /\ ret'.got = ret'.due
  BY <1>1, <1>2 DEF Due, Untouched, InStep, Control, Mode
<1>3. ASSUME NEW k, k = c \/ \E e : k = SetError(c, e), Fail(k), UNCHANGED <<waiting, up, down>>
      PROVE  Streams(c', waiting', up', down', peer) /\ ret'.got = ret'.due
  <2>1. c'.inbuf = c.inbuf /\ c'.obuf = c.obuf /\ c'.rerr = c.rerr /\ ret' = Failed
    BY <1>0, <1>3 DEF Fail, SetError, redisContextInit
  <2> QED BY <1>2, <1>3, <2>1, StreamsKept DEF Failed
<1>4. CASE AppendCommand \/ Command
  <2>1. UNCHANGED <<up, down>>
    BY <1>4 DEF AppendCommand, Command, Calls
  <2>2. CASE CannotAppend
    BY <1>3, <2>1, <2>2 DEF CannotAppend
  <2>3. Streams(Appended, Append(waiting, issued + 1), up, down, peer)
    BY <1>2, AppendStreams
  <2>4. CASE c' = Appended /\ waiting' = Append(waiting, issued + 1) /\ ret' = NoRet
    BY <2>1, <2>3, <2>4 DEF NoRet
  <2>5. CASE Look(Appended, Append(waiting, issued + 1), "write")
    <3>1. DOMAIN Appended = DOMAIN redisContextInit
      BY <1>0 DEF Appended
    <3> QED BY <1>2, <2>1, <2>3, <2>5, <3>1, LookStreams
  <2> QED BY <1>4, <2>2, <2>4, <2>5 DEF AppendCommand, Command
<1>5. CASE GetReply
  BY <1>0, <1>2, <1>5, LookStreams DEF GetReply, Calls
<1>6. CASE BufferWrite
  <2>1. UNCHANGED <<down, waiting>>
    BY <1>6 DEF BufferWrite
  <2>2. ASSUME NEW n \in 1..c.obuf.len, c' = Sent(n), up' = Arrives(n), UNCHANGED ret
        PROVE  Streams(c', waiting', up', down', peer) /\ ret'.got = ret'.due
    BY <1>2, <2>1, <2>2, WriteStreams
  <2>3. CASE UNCHANGED <<c, up, ret>>
    BY <1>2, <2>1, <2>3
  <2>4. CASE UNCHANGED up /\ (Fail(c) \/ Fail(SetError(c, "io")))
    BY <1>3, <2>1, <2>4
  <2> QED BY <1>6, <2>2, <2>3, <2>4 DEF BufferWrite
<1>7. CASE BufferRead
  <2>1. up' = up
    BY <1>7 DEF BufferRead
  <2>2. ASSUME NEW n \in 1..Len(down), down' = SubSeq(down, n + 1, Len(down)),
               Look(Fed(n), waiting, "read")
        PROVE  Streams(c', waiting', up', down', peer) /\ ret'.got = ret'.due
    <3>1. Streams(Fed(n), waiting, up, down', peer)
      BY <1>0, <1>2, <2>2, ReadStreams
    <3>2. DOMAIN Fed(n) = DOMAIN redisContextInit
      BY <1>0 DEF Fed
    <3> QED BY <1>2, <2>1, <2>2, <3>1, <3>2, LookStreams
  <2>3. CASE /\ Fail(SetError([c EXCEPT !.rerr = "oom", !.inbuf = <<>>], "oom"))
             /\ down' = <<>> /\ UNCHANGED waiting
    <3>1. c'.inbuf = <<>> /\ c'.rerr = "oom" /\ ret' = Failed
      BY <1>0, <2>3 DEF Fail, SetError, redisContextInit
    <3> QED BY <1>2, <2>1, <2>3, <3>1, StreamsBroken DEF Failed
  <2>4. CASE /\ Fail(c) \/ Fail(SetError(c, "io")) \/ EndOfFile
             /\ UNCHANGED <<down, waiting>>
    BY <1>3, <2>1, <2>4 DEF EndOfFile
  <2> QED BY <1>7, <2>2, <2>3, <2>4 DEF BufferRead
<1>8. CASE SocketError \/ SetTimeout \/ EnableKeepAlive
  BY <1>3, <1>8 DEF SocketError, SetTimeout, EnableKeepAlive, Calls
<1> QED BY <1>4, <1>5, <1>6, <1>7, <1>8

\* The server, the network and the rest of the process.
LEMMA AroundDue ==
    ASSUME Control, BufferSound, Due,
           \/ (Serve \/ Closes \/ Garbles \/ OthersOpen) /\ server' = server
           \/ AsyncServe \/ Publish \/ Resolve \/ UNCHANGED vars
    PROVE  Due'
<1>1. CASE UNCHANGED vars
  BY <1>1 DEF Due, Untouched, InStep, vars, contextVars, asyncVars
<1>2. CASE ~UNCHANGED vars
  <2>1. UNCHANGED <<c, pc, waiting, ret>> /\ pc \in {"idle", "write", "read", "loop"}
    BY <1>2 DEF Serve, Closes, Garbles, OthersOpen, AsyncServe, Publish, Resolve, Peer
  <2>2. Untouched' /\ ret'.got = ret'.due
    BY <2>1 DEF Due, Untouched
  <2>3. ASSUME "BLOCK" \in c.flags
        PROVE  /\ Streams(c', waiting', up', down', peer')
               /\ peer' \in {"none", "up", "closed"} /\ server' = NoServer
    <3>1. /\ Streams(c, waiting, up, down, peer)
          /\ peer \in {"none", "up", "closed"} /\ server = NoServer
      BY <2>3 DEF Due, InStep
    <3>2. ~AsyncServe /\ ~Resolve
      BY <2>3, <3>1 DEF AsyncServe, Resolve, Has
    <3>3. ~Publish
      BY <3>1 DEF Publish, NoServer
    <3>4. CASE Serve
      BY <2>1, <3>1, <3>2, <3>3, <3>4, ServeStreams, <1>2 DEF Serve
    <3>5. CASE Closes
      BY <2>1, <3>1, <3>2, <3>3, <3>5, ServerStreams, <1>2 DEF Closes
    <3>6. CASE Garbles
      BY <2>1, <3>1, <3>2, <3>3, <3>6, ServerStreams, <1>2 DEF Garbles
    <3>7. CASE OthersOpen
      BY <2>1, <3>1, <3>2, <3>3, <3>7, <1>2 DEF OthersOpen
    <3> QED BY <1>2, <3>2, <3>3, <3>4, <3>5, <3>6, <3>7
  <2> QED BY <2>1, <2>2, <2>3 DEF Due, InStep
<1> QED BY <1>1, <1>2

\* A context that is connected, anew or not, has nothing left of another
\* connection.
LEMMA ConnectsDue ==
    ASSUME Control, Due, server' = server, Connect \/ Connecting \/ Reconnect
    PROVE  Due'
<1>0. DOMAIN c = DOMAIN redisContextInit
  BY DEF Control, Shape
<1> DEFINE Empty == /\ waiting' = <<>> /\ up' = <<>> /\ down' = <<>> /\ ret'.got = ret'.due
                    /\ c'.inbuf = <<>> /\ c'.obuf = sdsempty /\ server' = NoServer
                    /\ peer' = "none" \/ pc' \in {"idle", "init"}
                    /\ "BLOCK" \in c'.flags => peer' \in {"none", "up", "closed"}
<1>1. Empty => Due'
  BY NoStreams DEF Due, Untouched, InStep
<1>2. ASSUME NEW k, NEW o, NEW t, DOMAIN k = DOMAIN redisContextInit,
             k.inbuf = <<>>, k.obuf = sdsempty,
             StartTcp(k, o, t) \/ ConnectUnix(k, o, t) \/ ConnectFd(k, t),
             waiting' = <<>>, ret'.got = ret'.due, server' = NoServer
      PROVE  Empty
  <2>1. CASE StartTcp(k, o, t)
    BY <1>2, <2>1 DEF StartTcp, NotConnected, Return, SetError, redisContextInit
  <2>2. CASE ConnectUnix(k, o, t)
    <3> DEFINE kept == [Opened(k, t) EXCEPT !.type = "unix", !.timeout = o.timeout]
    <3>1. ASSUME NEW j, j.inbuf = <<>>, j.obuf = sdsempty, Return(j), NotConnected PROVE Empty
      BY <1>2, <3>1 DEF Return, NotConnected
    <3>2. /\ kept.inbuf = <<>> /\ kept.obuf = sdsempty /\ kept.flags = k.flags
          /\ DOMAIN kept = DOMAIN redisContextInit
      BY <1>2 DEF Opened, redisContextInit
    <3>3. ASSUME NEW j \in {k, kept}
          PROVE  /\ CloseFd(j).inbuf = <<>> /\ CloseFd(j).obuf = sdsempty
                 /\ SetError(j, "io").inbuf = <<>> /\ SetError(j, "io").obuf = sdsempty
      BY <1>2, <3>2, <3>3 DEF CloseFd, SetError, redisContextInit
    <3>4. ASSUME NEW s \in Outcomes(k), Connected(kept, s) PROVE Empty
      BY <1>2, <3>2, <3>4 DEF Connected, Return, Outcomes, redisContextInit
    <3> HIDE DEF kept, Empty
    <3> QED BY <1>2, <2>2, <3>1, <3>2, <3>3, <3>4 DEF ConnectUnix, kept
  <2>3. CASE ConnectFd(k, t)
    BY <1>2, <2>3 DEF ConnectFd, Return, Opened, redisContextInit
  <2> QED BY <1>2, <2>1, <2>2, <2>3
<1>3. CASE Connect
  <2>1. PICK o \in Options :
          LET k == [redisContextInit EXCEPT !.flags = o.flags] IN
          StartTcp(k, o, fds) \/ ConnectUnix(k, o, fds) \/ ConnectFd(k, fds)
    BY <1>3 DEF Connect
  <2>2. waiting' = <<>> /\ ret'.got = ret'.due /\ server' = NoServer
    BY <1>3 DEF Connect, Due, Untouched
  <2> DEFINE k == [redisContextInit EXCEPT !.flags = o.flags]
  <2>3. k.inbuf = <<>> /\ k.obuf = sdsempty /\ DOMAIN k = DOMAIN redisContextInit
    BY DEF redisContextInit
  <2> HIDE DEF Empty
  <2> QED BY <1>1, <1>2, <2>1, <2>2, <2>3
<1>4. CASE Reconnect
  <2>1. PICK o, t : StartTcp(Fresh(c), o, t) \/ ConnectUnix(Fresh(c), o, t)
    BY <1>4 DEF Reconnect
  <2>2. waiting' = <<>> /\ ret'.got = ret'.due
    BY <1>4 DEF Reconnect, NoRet
  <2>3. server' = NoServer
    BY <1>4 DEF Reconnect, Due, InStep, Control, Mode
  <2>4. Fresh(c).inbuf = <<>> /\ Fresh(c).obuf = sdsempty /\ DOMAIN Fresh(c) = DOMAIN redisContextInit
    BY <1>0 DEF Fresh, redisContextInit
  <2> HIDE DEF Empty
  <2> QED BY <1>1, <1>2, <2>1, <2>2, <2>3, <2>4
<1>5. CASE Connecting
  <2>1. pc = "address" /\ UNCHANGED <<waiting, ret>>
    BY <1>5 DEF Connecting, NoSocket, Unreachable, SocketFails, SocketKept, ReuseFails, AddressBusy,
       Established, Exhausted, Trying
  <2>2. /\ waiting = <<>> /\ up = <<>> /\ down = <<>> /\ peer = "none" /\ ret.got = ret.due
        /\ c.inbuf = <<>> /\ c.obuf = sdsempty /\ server = NoServer
    BY <2>1 DEF Due, Untouched
  <2>3. CASE NoSocket \/ Unreachable
    BY <1>0, <1>1, <2>1, <2>2, <2>3 DEF NoSocket, Unreachable, AddressFails, redisContextInit
  <2>4. CASE SocketFails \/ Exhausted
    BY <1>0, <1>1, <2>1, <2>2, <2>4
       DEF SocketFails, Exhausted, Return, CloseFd, SetError, redisContextInit
  <2>5. CASE SocketKept \/ ReuseFails
    BY <1>0, <1>1, <2>1, <2>2, <2>5
       DEF SocketKept, ReuseFails, Return, Opened, SetError, redisContextInit
  <2>6. CASE AddressBusy
    BY <1>0, <1>1, <2>1, <2>2, <2>6 DEF AddressBusy, Return, Opened, redisContextInit
  <2>7. CASE Established
    BY <1>0, <1>1, <2>1, <2>2, <2>7
       DEF Established, Connected, Outcomes, Return, Opened, redisContextInit
  <2> QED BY <1>5, <2>3, <2>4, <2>5, <2>6, <2>7 DEF Connecting
<1> QED BY <1>3, <1>4, <1>5

\* What is asynchronous, and a context that is gone.
LEMMA OthersDue ==
    ASSUME Control', Due, Free \/ AsyncStep \/ FreeEnds
    PROVE  Due'
<1>1. pc' \in InLoop \cup {"gone"} /\ ret'.got = ret'.due
  BY DEF Due, Free, redisFree, Gone, NoRet, AsyncStep, FreeEnds, InLoop
<1>2. "BLOCK" \notin c'.flags
  BY <1>1 DEF Control, Mode, InLoop
<1> QED BY <1>1, <1>2 DEF Due, Untouched, InStep, InLoop

LEMMA NextDue ==
    ASSUME Control, Control', BufferSound, Due, [Next]_vars
    PROVE  Due'
<1>1. CASE ContextNext /\ UNCHANGED asyncVars
  BY <1>1, CallsDue, AroundDue, ConnectsDue, OthersDue DEF ContextNext, Blocking, asyncVars
<1>2. CASE Initialize \/ Handlers
  BY <1>2, EventSteps, CallbackSteps, OthersDue DEF Handlers
<1>3. CASE AsyncCommand \/ AppDisconnect \/ AppFree
  BY <1>3, AppSteps, OthersDue
<1>4. CASE AsyncServe \/ Publish \/ Resolve \/ UNCHANGED vars
  BY <1>4, AroundDue
<1> QED BY <1>1, <1>2, <1>3, <1>4 DEF Next, AsyncNext

\* A blocking context loses, doubles and reorders nothing, however messages are
\* cut, written and read, and what redisGetReply and redisCommand return is the
\* oldest reply that is due, also when the server closes the connection or sends
\* what is no reply, and after redisReconnect (hiredis.c:665, 835, 905).
THEOREM RepliesInOrder == Spec => []AnswersInOrder
<1>1. Init => Due
  BY DEF Init, ContextInit, Due, Untouched, InStep, NoRet, redisContextInit
<1>2. Control /\ Control' /\ BufferSound /\ Due /\ [Next]_vars => Due'
  BY NextDue
<1>3. BufferSound /\ Due => AnswersInOrder
  <2> SUFFICES ASSUME Due, "BLOCK" \in c.flags, peer = "up", c.rerr = "ok"
               PROVE  Replies(c.inbuf \o down) \o Commands(up \o c.obuf.chars) = waiting
    BY DEF Due, AnswersInOrder
  <2> QED BY DEF Due, InStep, Streams
<1> QED BY <1>1, <1>2, <1>3, ContextControl, BufferAlwaysSound, PTL DEF Spec

(***************************************************************************)
(* Types                                                                   *)
(***************************************************************************)
Errors == {"ok", "io", "eof", "protocol", "oom", "other"}
Kinds == {"subscribe", "unsubscribe", "message"}
Faults == {"stale", "overtaken", "mistaken", "mode", "topic", "freed", "clean"}
Asynchronous == InLoop \cup {"init", "gone"}
Outside == {"none", "address", "idle", "init", "write", "read"}

\* What any context is sent, and the pieces of the first n commands.
AnyMessage ==
    [op : {"answer", "error", "line", "garbage"}, req : Nat] \cup
    [op : Kinds, req : Nat, topic : DOMAIN Hash \cup {"nil"}, pattern : BOOLEAN, count : Nat]
Numbered(n) == PieceOf(1..n)
Buffers(n) == {s \in String(Numbered(n)) : s.type # 0}
Tries == [addrs : 0..MaxAddrs, reuses : 0..ConnectRetries - 1]
Tables == [Fds -> {"free", "ours", "others", "kept"}]
Descriptors == {-1, 0} \cup Fds

\* A redisContext with pieces of the first n commands in its output buffer.
Contexts(n) ==
    [flags : SUBSET Flags, err : Errors, fd : Descriptors, type : {"tcp", "unix"},
     host : BOOLEAN, bind : BOOLEAN, timeout : {"none", "good", "bad"},
     obuf : Buffers(n), inbuf : Seq(PieceOf(AnyMessage)),
     rerr : {"ok", "protocol", "oom"}]

Callbacks == [id : Nat, fn : BOOLEAN, pending : Int]
Table == {d \in Dicts(Callbacks) : Sound(d, Callbacks)}
AsyncContexts ==
    [err : Errors, replies : Seq(Callbacks), invalid : Seq(Callbacks),
     channels : Table, patterns : Table, ev : SUBSET {"read", "write"}]
Frames ==
    [cb : Callbacks, reply : AnyMessage \cup {NoFrame.reply}, then : {"none", "abort", "read", "write"},
     phase : {"replies", "invalid", "topics"}, todo : Seq(Callbacks)]
Servers ==
    {s \in [subs : SUBSET (BOOLEAN \X DOMAIN Hash), monitor : BOOLEAN, published : Nat] :
        IsFiniteSet(s.subs)}
CommandType ==
    {m \in [op : {"get", "monitor", "subscribe", "unsubscribe"}, topics : Seq(DOMAIN Hash),
            pattern : BOOLEAN, fn : BOOLEAN] : m.op = "subscribe" => m.topics # <<>>}

\* What the functions that connect and the blocking calls work on, what the
\* handlers and the server do, and how far the commands are counted.
Calling ==
    /\ issued \in Nat /\ c \in Contexts(issued)
    /\ try \in Tries /\ fds \in Tables
    /\ peer \in {"none", "pending", "refused", "up", "closed"}
    /\ up \in Seq(Numbered(issued)) /\ down \in Seq(PieceOf(AnyMessage))
    /\ waiting \in Seq(1..issued) /\ ret.ok \in BOOLEAN
    /\ reconnects \in 0..MaxReconnects

Answering ==
    /\ ac \in AsyncContexts /\ frame \in Frames /\ server \in Servers
    /\ cmds \in Seq(CommandType) /\ calls \in Seq(Nat) /\ faults \subseteq Faults

Counted ==
    /\ pc \in Outside \cup InLoop \cup {"gone"}
    /\ pc \in Outside => cmds = <<>> /\ calls = <<>>
    /\ pc \in InLoop => Len(cmds) = issued
    /\ Len(cmds) = Len(calls) /\ Len(cmds) \in {0, issued}
    /\ pc \in {"none", "init"} \/ (pc = "address" /\ "BLOCK" \notin c.flags) => issued = 0

\* The handlers and the server have nothing to do with a blocking context, a
\* context that connects has empty buffers, and a call that reads waits for a
\* reply.
Begun ==
    /\ pc \in Outside => ac = NoContext /\ frame = NoFrame /\ server = NoServer /\ faults = {}
    /\ pc \in {"none", "address", "init"} =>
         /\ c.inbuf = <<>> /\ c.obuf = sdsempty /\ c.rerr = "ok"
         /\ up = <<>> /\ down = <<>> /\ waiting = <<>>
         /\ peer \in IF pc = "init" THEN {"none", "up", "pending"} ELSE {"none"}
         /\ "BLOCK" \in c.flags \/ c.flags \subseteq {"CONNECTED", "REUSEADDR"}
    /\ pc \in {"write", "read"} => waiting # <<>>

Typed == Calling /\ Answering /\ Counted

LEMMA FieldsTyped ==
    ASSUME NEW n \in Nat, NEW k \in Contexts(n)
    PROVE  /\ \A f \in Flags : Set(k, f) \in Contexts(n) /\ Unset(k, f) \in Contexts(n)
           /\ \A e \in Errors : SetError(k, e) \in Contexts(n)
           /\ \A s \in Seq(PieceOf(AnyMessage)) : [k EXCEPT !.inbuf = s] \in Contexts(n)
           /\ \A s \in Buffers(n) : [k EXCEPT !.obuf = s] \in Contexts(n)
           /\ \A e \in {"ok", "protocol", "oom"} : [k EXCEPT !.rerr = e] \in Contexts(n)
           /\ \A f \in Descriptors : [k EXCEPT !.fd = f] \in Contexts(n)
<1>1. \A f \in Flags : k.flags \cup {f} \in SUBSET Flags /\ k.flags \ {f} \in SUBSET Flags
  BY DEF Contexts
<1>2. \A f \in Flags : Set(k, f) \in Contexts(n) /\ Unset(k, f) \in Contexts(n)
  BY <1>1 DEF Contexts, Set, Unset
<1> QED BY <1>2 DEF Contexts, SetError

LEMMA InitTyped ==
    ASSUME NEW n \in Nat
    PROVE  redisContextInit \in Contexts(n) /\ sdsempty \in Buffers(n) /\ <<>> \in Seq(PieceOf(AnyMessage))
<1>1. sdsempty \in Buffers(n)
  BY EmptyString DEF Buffers
<1> QED BY <1>1 DEF redisContextInit, Contexts, Errors, Descriptors

\* More commands have been issued.
LEMMA ContextsGrow ==
    ASSUME NEW n \in Nat, NEW k \in Contexts(n)
    PROVE  /\ k \in Contexts(n + 1)
           /\ \A s \in Seq(Numbered(n)) : s \in Seq(Numbered(n + 1))
           /\ Buffers(n) \subseteq Buffers(n + 1)
<1>1. Numbered(n) \subseteq Numbered(n + 1)
  BY DEF Numbered, PieceOf
<1>2. Seq(Numbered(n)) \subseteq Seq(Numbered(n + 1))
  <2> HIDE DEF Numbered
  <2> QED BY <1>1, SeqMonotonic
<1>3. Buffers(n) \subseteq Buffers(n + 1)
  BY <1>2 DEF Buffers, String
<1>4. k \in Contexts(n + 1)
  BY <1>3 DEF Contexts
<1> QED BY <1>2, <1>3, <1>4

LEMMA DescriptorsTyped ==
    ASSUME NEW t \in Tables
    PROVE  /\ HasFree(t) => Taken(t) \in Tables /\ Lowest(t) \in Descriptors
           /\ \A f : Closed(t, f) \in Tables
<1>1. \A f : Closed(t, f) \in Tables
  BY DEF Closed, Tables
<1>2. HasFree(t) => Taken(t) \in Tables /\ Lowest(t) \in Descriptors
  BY LowestFree DEF Taken, Tables, Descriptors
<1> QED BY <1>1, <1>2

(***************************************************************************)
(* The functions that connect                                              *)
(***************************************************************************)
\* The buffers stay, a context stays blocking or not, and nothing is on its way.
Same(j, k) ==
    /\ j.flags \in {k.flags, k.flags \cup {"CONNECTED"}}
    /\ j.inbuf = k.inbuf /\ j.obuf = k.obuf /\ j.rerr = k.rerr
Attempted(n, k) ==
    /\ c' \in Contexts(n) /\ Same(c', k)
    /\ try' \in Tries /\ fds' \in Tables
    /\ pc' = "address" \/ pc' = IF "BLOCK" \in c'.flags THEN "idle" ELSE "init"

LEMMA Returned ==
    ASSUME NEW n, NEW k, NEW j \in Contexts(n), Same(j, k), fds' \in Tables, Return(j)
    PROVE  Attempted(n, k)
<1>1. NoTry \in Tries
  BY CountAssumption DEF NoTry, Tries
<1> QED BY <1>1 DEF Return, Attempted

LEMMA ConnectedTyped ==
    ASSUME NEW n \in Nat, NEW k, NEW j \in Contexts(n), Same(j, k),
           fds' \in Tables, NEW s, Connected(j, s)
    PROVE  Attempted(n, k)
<1> DEFINE i == [j EXCEPT !.flags = @ \cup {"CONNECTED"}]
<1>1. i \in Contexts(n)
  <2>1. "CONNECTED" \in Flags
    BY DEF Flags
  <2>2. Set(j, "CONNECTED") \in Contexts(n)
    BY <2>1, FieldsTyped
  <2> QED BY <2>2 DEF Set
<1>2. Same(i, k)
  BY DEF Same, Contexts
<1> QED BY <1>1, <1>2, Returned DEF Connected

\* The options of a connect, or those kept for redisReconnect.
Kept(o) == o.timeout \in {"none", "good", "bad"} /\ o.bind \in BOOLEAN /\ o.host \in BOOLEAN
NothingSent == peer' \in {"none", "pending", "up"} /\ up' = <<>> /\ down' = <<>>

LEMMA StartTcpTyped ==
    ASSUME NEW n \in Nat, NEW k \in Contexts(n), NEW o, Kept(o), NEW t \in Tables, StartTcp(k, o, t)
    PROVE  Attempted(n, k) /\ NothingSent
<1> DEFINE kept == [k EXCEPT !.type = "tcp", !.host = o.host, !.timeout = o.timeout]
           bound == [kept EXCEPT !.bind = o.bind]
<1>1. kept \in Contexts(n) /\ bound \in Contexts(n)
  BY DEF Contexts, Kept
<1>2. Same(kept, k) /\ Same(bound, k)
  BY <1>1 DEF Same, Contexts
<1>3. ASSUME NEW j \in {kept, bound}, NEW e \in Errors
      PROVE  SetError(j, e) \in Contexts(n) /\ Same(SetError(j, e), k)
  <2>1. j \in Contexts(n) /\ Same(j, k)
    BY <1>1, <1>2
  <2>2. SetError(j, e) \in Contexts(n)
    BY <2>1, FieldsTyped
  <2> QED BY <2>1, <2>2 DEF SetError, Same, Contexts
<1>4. NothingSent /\ fds' \in Tables
  BY DEF StartTcp, NotConnected, NothingSent
<1>5. CASE Return(SetError(kept, "io")) \/ Return(SetError(bound, "other"))
  <2>1. {"io", "other"} \subseteq Errors
    BY DEF Errors
  <2> HIDE DEF kept, bound
  <2> QED BY <1>3, <1>4, <1>5, <2>1, Returned
<1>6. CASE c' = bound /\ pc' = "address" /\ \E m \in 1..MaxAddrs : try' = [addrs |-> m, reuses |-> 0]
  <2>1. try' \in Tries
    BY <1>6, CountAssumption DEF Tries
  <2> QED BY <1>1, <1>2, <1>4, <1>6, <2>1 DEF Attempted
<1> HIDE DEF kept, bound, Attempted
<1> QED BY <1>4, <1>5, <1>6 DEF StartTcp, kept, bound

LEMMA OpenedTyped ==
    ASSUME NEW n \in Nat, NEW k \in Contexts(n), NEW t \in Tables, HasFree(t)
    PROVE  Opened(k, t) \in Contexts(n) /\ Same(Opened(k, t), k)
<1>1. Lowest(t) \in Descriptors
  BY DescriptorsTyped
<1> QED BY <1>1 DEF Opened, Contexts, Same

LEMMA ClosedTyped ==
    ASSUME NEW n \in Nat, NEW k \in Contexts(n)
    PROVE  CloseFd(k) \in Contexts(n) /\ Same(CloseFd(k), k)
BY DEF CloseFd, SetError, Contexts, Same, Errors, Descriptors

LEMMA ConnectUnixTyped ==
    ASSUME NEW n \in Nat, NEW k \in Contexts(n), NEW o, Kept(o), NEW t \in Tables, ConnectUnix(k, o, t)
    PROVE  Attempted(n, k) /\ NothingSent
<1> DEFINE kept == [Opened(k, t) EXCEPT !.type = "unix", !.timeout = o.timeout]
<1>1. ASSUME HasFree(t) PROVE kept \in Contexts(n) /\ Same(kept, k)
  <2> DEFINE x == Opened(k, t)
  <2>1. x \in Contexts(n) /\ Same(x, k)
    BY <1>1, OpenedTyped
  <2> HIDE DEF x
  <2>2. [x EXCEPT !.type = "unix", !.timeout = o.timeout] \in Contexts(n)
    BY <2>1 DEF Contexts, Kept
  <2>3. Same([x EXCEPT !.type = "unix", !.timeout = o.timeout], k)
    BY <2>1 DEF Contexts, Same
  <2> QED BY <2>2, <2>3 DEF x
<1>2. ASSUME NEW j \in Contexts(n), Same(j, k)
      PROVE  /\ SetError(j, "io") \in Contexts(n) /\ Same(SetError(j, "io"), k)
             /\ CloseFd(j) \in Contexts(n) /\ Same(CloseFd(j), k)
  <2>1. SetError(j, "io") \in Contexts(n) /\ CloseFd(j) \in Contexts(n)
    BY <1>2, FieldsTyped, ClosedTyped DEF Errors
  <2> QED BY <1>2, <2>1 DEF SetError, CloseFd, Same, Contexts
<1>3. Same(k, k)
  BY DEF Same
<1>4. fds' \in Tables
  BY DescriptorsTyped DEF ConnectUnix
<1> HIDE DEF kept, Same
<1>5. CASE Return(SetError(k, "io")) /\ NotConnected
  BY <1>2, <1>3, <1>4, <1>5, Returned DEF NotConnected, NothingSent
<1>6. CASE HasFree(t) /\ NotConnected /\ (Return(CloseFd(k)) \/ Return(CloseFd(kept)))
  BY <1>1, <1>2, <1>3, <1>4, <1>6, Returned DEF NotConnected, NothingSent
<1>7. CASE HasFree(t) /\ NotConnected /\ (Return(kept) \/ Return(SetError(kept, "io")))
  BY <1>1, <1>2, <1>4, <1>7, Returned DEF NotConnected, NothingSent
<1>8. CASE HasFree(t) /\ \E s \in Outcomes(k) : Connected(kept, s)
  <2>1. PICK s \in {"up", "pending"} : Connected(kept, s)
    BY <1>8 DEF Outcomes
  <2> QED BY <1>1, <1>4, <1>8, <2>1, ConnectedTyped DEF Connected, NothingSent
<1> QED BY <1>5, <1>6, <1>7, <1>8 DEF ConnectUnix, kept

LEMMA ConnectFdTyped ==
    ASSUME NEW n \in Nat, NEW k \in Contexts(n), NEW t \in Tables, ConnectFd(k, t)
    PROVE  Attempted(n, k) /\ NothingSent
<1>1. fds' \in Tables
  BY DescriptorsTyped DEF ConnectFd
<1> QED BY <1>1, OpenedTyped, Returned DEF ConnectFd, NothingSent

\* A function that connects has been called, by the application or for
\* redisReconnect, with empty buffers.
LEMMA AttemptedBegins ==
    ASSUME Typed, Begun, NEW k, Attempted(issued, k), NothingSent,
           k.inbuf = <<>> /\ k.obuf = sdsempty /\ k.rerr = "ok",
           pc \in {"none", "address", "idle"},
           "BLOCK" \in k.flags \/ (k.flags \subseteq {"CONNECTED", "REUSEADDR"} /\ issued = 0),
           pc' = "address" => peer' = "none",
           waiting' = <<>> /\ ret'.ok \in BOOLEAN /\ reconnects' \in 0..MaxReconnects,
           issued' = issued, UNCHANGED asyncVars
    PROVE  Typed' /\ Begun'
<1>1. Calling'
  BY DEF Typed, Calling, Attempted, NothingSent
<1>2. Answering'
  BY DEF Typed, Answering, asyncVars
<1>3. pc' \in {"address", "idle", "init"} /\ pc \in Outside
  BY DEF Attempted, Outside
<1>4. "BLOCK" \in c'.flags <=> "BLOCK" \in k.flags
  BY DEF Attempted, Same
<1>5. Counted'
  BY <1>3, <1>4 DEF Attempted, Typed, Counted, asyncVars, Outside, InLoop
<1>6. Begun'
  <2>1. c'.inbuf = <<>> /\ c'.obuf = sdsempty /\ c'.rerr = "ok"
    BY DEF Attempted, Same
  <2>2. "BLOCK" \in c'.flags \/ c'.flags \subseteq {"CONNECTED", "REUSEADDR"}
    BY DEF Attempted, Same
  <2>3. ac' = NoContext /\ frame' = NoFrame /\ server' = NoServer /\ faults' = {}
    BY <1>3 DEF Begun, asyncVars
  <2>4. pc' = "idle" \/ peer' \in IF pc' = "init" THEN {"none", "up", "pending"} ELSE {"none"}
    BY <1>3 DEF NothingSent
  <2> QED BY <1>3, <2>1, <2>2, <2>3, <2>4 DEF Begun, NothingSent
<1> QED BY <1>1, <1>2, <1>5, <1>6 DEF Typed

\* Where the address comes first there is no connection yet.
LEMMA AddressFirst ==
    ASSUME NEW k, NEW o, NEW t,
           StartTcp(k, o, t) \/ ConnectUnix(k, o, t) \/ ConnectFd(k, t)
    PROVE  pc' = "address" => peer' = "none"
BY DEF StartTcp, ConnectUnix, ConnectFd, Return, Connected, NotConnected

Usual(x) ==
    /\ x.timeout \in {"none", "good", "bad"} /\ x.bind \in BOOLEAN /\ x.host \in BOOLEAN
    /\ x.flags \in {{"BLOCK"}, {}, {"REUSEADDR"}, {"BLOCK", "CONNECTED"}}

LEMMA OptionsKnown ==
    ASSUME NEW o \in ConnectOptions
    PROVE  Usual(o)
<1>1. /\ \A k \in {"tcp", "unix"} : Usual(Option(k, {}, "none", FALSE))
      /\ \A t \in {"none", "good", "bad"} :
           Usual(Option("tcp", {"BLOCK"}, t, FALSE)) /\ Usual(Option("unix", {"BLOCK"}, t, FALSE))
      /\ \A f \in {{}, {"REUSEADDR"}} : Usual(Option("tcp", f, "none", TRUE))
      /\ Usual(Option("fd", {"BLOCK", "CONNECTED"}, "none", FALSE))
  BY DEF Option, Usual
<1> QED BY <1>1 DEF ConnectOptions

LEMMA ConnectTyped ==
    ASSUME Typed, Begun, Connect, UNCHANGED asyncVars
    PROVE  Typed' /\ Begun'
<1>1. PICK o \in Options :
        LET k == [redisContextInit EXCEPT !.flags = o.flags] IN
        \/ StartTcp(k, o, fds) \/ ConnectUnix(k, o, fds) \/ ConnectFd(k, fds)
  BY DEF Connect
<1>2. /\ Kept(o) /\ o.flags \subseteq Flags
      /\ "BLOCK" \in o.flags \/ o.flags \subseteq {"CONNECTED", "REUSEADDR"}
  <2>1. /\ o.timeout \in {"none", "good", "bad"} /\ o.bind \in BOOLEAN /\ o.host \in BOOLEAN
        /\ o.flags \in {{"BLOCK"}, {}, {"REUSEADDR"}, {"BLOCK", "CONNECTED"}}
    BY OptionsKnown, OptionsAssumption DEF Usual
  <2>2. \A f \in {{"BLOCK"}, {}, {"REUSEADDR"}, {"BLOCK", "CONNECTED"}} :
          f \subseteq Flags /\ ("BLOCK" \in f \/ f \subseteq {"CONNECTED", "REUSEADDR"})
    BY DEF Flags
  <2> QED BY <2>1, <2>2 DEF Kept
<1> DEFINE k == [redisContextInit EXCEPT !.flags = o.flags]
<1>3. k \in Contexts(issued)
  BY <1>2, InitTyped DEF Typed, Calling, Contexts
<1>4. fds \in Tables /\ issued \in Nat
  BY DEF Typed, Calling
<1>5. k.inbuf = <<>> /\ k.obuf = sdsempty /\ k.rerr = "ok" /\ k.flags = o.flags
  BY DEF redisContextInit
<1>6. /\ pc = "none" /\ issued = 0 /\ waiting = <<>> /\ waiting' = waiting
      /\ ret'.ok \in BOOLEAN /\ reconnects' \in 0..MaxReconnects /\ issued' = issued
  BY DEF Connect, Typed, Calling, Counted, Begun
<1>7. StartTcp(k, o, fds) \/ ConnectUnix(k, o, fds) \/ ConnectFd(k, fds)
  BY <1>1
<1> HIDE DEF k
<1>8. Attempted(issued, k) /\ NothingSent
  BY <1>2, <1>3, <1>4, <1>7, StartTcpTyped, ConnectUnixTyped, ConnectFdTyped
<1>9. pc' = "address" => peer' = "none"
  BY <1>7, AddressFirst
<1> QED BY <1>2, <1>5, <1>6, <1>8, <1>9, AttemptedBegins

LEMMA ReconnectTyped ==
    ASSUME Typed, Begun, "BLOCK" \in c.flags, Reconnect, UNCHANGED asyncVars
    PROVE  Typed' /\ Begun'
<1> DEFINE o == [kind |-> c.type, timeout |-> c.timeout, bind |-> c.bind, host |-> c.host]
           k == Fresh(c)
           t == Closed(fds, c.fd)
<1>1. c \in Contexts(issued) /\ issued \in Nat /\ fds \in Tables
  BY DEF Typed, Calling
<1>2. Kept(o)
  BY <1>1 DEF Contexts, Kept
<1>3. k \in Contexts(issued) /\ t \in Tables
  BY <1>1, InitTyped, DescriptorsTyped DEF Fresh, Contexts, Errors
<1>4. k.inbuf = <<>> /\ k.obuf = sdsempty /\ k.rerr = "ok" /\ k.flags = c.flags
  BY <1>1 DEF Fresh, Contexts
<1>5. /\ pc = "idle" /\ waiting' = <<>> /\ ret'.ok \in BOOLEAN /\ issued' = issued
      /\ reconnects' \in 0..MaxReconnects
  BY CountAssumption DEF Reconnect, Typed, Calling, NoRet
<1>6. StartTcp(k, o, t) \/ ConnectUnix(k, o, t)
  BY DEF Reconnect
<1> HIDE DEF k, o, t
<1>7. Attempted(issued, k) /\ NothingSent
  BY <1>1, <1>2, <1>3, <1>6, StartTcpTyped, ConnectUnixTyped
<1>8. pc' = "address" => peer' = "none"
  BY <1>6, AddressFirst
<1> QED BY <1>4, <1>5, <1>7, <1>8, AttemptedBegins

\* One turn of the loop over the addresses.
LEMMA ConnectingTyped ==
    ASSUME Typed, Begun, Connecting, UNCHANGED asyncVars
    PROVE  Typed' /\ Begun'
<1>1. /\ c \in Contexts(issued) /\ issued \in Nat /\ fds \in Tables /\ try \in Tries
      /\ pc = "address" /\ c.inbuf = <<>> /\ c.obuf = sdsempty /\ c.rerr = "ok"
      /\ waiting = <<>> /\ peer = "none" /\ up = <<>> /\ down = <<>>
      /\ "BLOCK" \in c.flags \/ c.flags \subseteq {"CONNECTED", "REUSEADDR"}
      /\ "BLOCK" \in c.flags \/ issued = 0
  BY DEF Connecting, NoSocket, Unreachable, SocketFails, SocketKept, ReuseFails, AddressBusy,
         Established, Exhausted, Trying, Typed, Calling, Counted, Begun
<1>2. /\ ret' = ret /\ reconnects' = reconnects /\ issued' = issued /\ waiting' = waiting
  BY DEF Connecting
<1>3. Same(c, c)
  BY DEF Same
<1>4. HasFree(fds) => Opened(c, fds) \in Contexts(issued) /\ Same(Opened(c, fds), c) /\ Taken(fds) \in Tables
  BY <1>1, OpenedTyped, DescriptorsTyped
<1>5. \A j \in Contexts(issued) : \A e \in {"io", "other"} :
        Same(j, c) => SetError(j, e) \in Contexts(issued) /\ Same(SetError(j, e), c)
  <2> TAKE j \in Contexts(issued), e \in {"io", "other"}
  <2>1. SetError(j, e) \in Contexts(issued)
    BY <1>1, FieldsTyped DEF Errors
  <2> QED BY <2>1 DEF SetError, Same, Contexts
<1>6. CloseFd(c) \in Contexts(issued) /\ Same(CloseFd(c), c)
  BY <1>1, ClosedTyped
<1>7. [c EXCEPT !.fd = -1] \in Contexts(issued) /\ Same([c EXCEPT !.fd = -1], c)
  BY <1>1 DEF Contexts, Descriptors, Same
<1>8. Attempted(issued, c) /\ (peer' = "none" \/ pc' # "address") /\ NothingSent
  <2> USE DEF NothingSent
  <2>1. ASSUME NEW j \in Contexts(issued), Same(j, c), Return(j), fds' \in {fds} \cup {Taken(fds)},
               fds' = fds \/ HasFree(fds), UNCHANGED <<peer, up, down>>
        PROVE  Attempted(issued, c) /\ peer' = "none" /\ NothingSent
    BY <1>1, <1>4, <2>1, Returned
  <2>2. ASSUME NEW j \in Contexts(issued), Same(j, c), c' = j, try' \in Tries,
               UNCHANGED <<pc, fds, peer, up, down>>
        PROVE  Attempted(issued, c) /\ peer' = "none" /\ NothingSent
    BY <1>1, <2>2 DEF Attempted
  <2>3. CASE NoSocket \/ Unreachable
    <3>1. [try EXCEPT !.addrs = @ - 1] \in Tries
      BY <1>1, <2>3, CountAssumption DEF Tries, NoSocket, Unreachable, Trying
    <3> QED BY <1>1, <1>3, <1>7, <2>2, <2>3, <3>1 DEF NoSocket, Unreachable, AddressFails
  <2>4. CASE SocketFails
    BY <1>6, <2>1, <2>4 DEF SocketFails
  <2>5. CASE SocketKept
    BY <1>4, <1>5, <2>1, <2>5 DEF SocketKept
  <2>6. CASE ReuseFails
    BY <1>4, <2>1, <2>6 DEF ReuseFails
  <2>7. CASE AddressBusy
    <3>1. CASE try.reuses + 1 >= ConnectRetries
      BY <1>4, <2>1, <2>7, <3>1 DEF AddressBusy
    <3>2. CASE ~(try.reuses + 1 >= ConnectRetries)
      <4>1. [try EXCEPT !.reuses = @ + 1] \in Tries
        BY <1>1, <3>2, CountAssumption DEF Tries
      <4> QED BY <1>7, <2>2, <2>7, <3>2, <4>1 DEF AddressBusy
    <3> QED BY <3>1, <3>2
  <2>8. CASE Established
    <3>1. PICK s \in {"up", "pending"} : Connected(Opened(c, fds), s)
      BY <2>8 DEF Established, Outcomes
    <3>2. HasFree(fds) /\ fds' = Taken(fds)
      BY <2>8 DEF Established
    <3>3. Attempted(issued, c)
      BY <1>1, <1>4, <3>1, <3>2, ConnectedTyped
    <3>4. pc' # "address"
      BY <3>1 DEF Connected, Return
    <3> QED BY <3>1, <3>3, <3>4 DEF Connected
  <2>9. CASE Exhausted
    BY <1>1, <1>3, <1>5, <2>1, <2>9 DEF Exhausted
  <2> HIDE DEF NothingSent
  <2> QED BY <2>3, <2>4, <2>5, <2>6, <2>7, <2>8, <2>9 DEF Connecting
<1>9. ret'.ok \in BOOLEAN /\ reconnects' \in 0..MaxReconnects
  BY <1>2 DEF Typed, Calling
<1> QED BY <1>1, <1>2, <1>8, <1>9, AttemptedBegins

(***************************************************************************)
(* The blocking calls                                                      *)
(***************************************************************************)
LEMMA InCallTyped ==
    ASSUME Typed, Begun, pc \in {"idle", "write", "read"}, pc' \in {"idle", "write", "read"},
           Calling', pc' \in {"write", "read"} => waiting' # <<>>, UNCHANGED asyncVars
    PROVE  Typed' /\ Begun'
BY DEF Typed, Answering, Counted, Begun, asyncVars, Outside, InLoop

LEMMA BehindTyped ==
    ASSUME NEW s \in Seq(PieceOf(AnyMessage)), Whole(s)
    PROVE  First(s) \in AnyMessage /\ Behind(s) \in Seq(PieceOf(AnyMessage))
BY EndFacts

LEMMA LookTyped ==
    ASSUME NEW n \in Nat, NEW k \in Contexts(n), NEW w \in Seq(1..n), w # <<>>, NEW next,
           ret.ok \in BOOLEAN, Look(k, w, next)
    PROVE  /\ c' \in Contexts(n) /\ waiting' \in Seq(1..n) /\ ret'.ok \in BOOLEAN
           /\ pc' = "idle" \/ (pc' = next /\ waiting' # <<>>)
<1>1. /\ \A e \in {"protocol", "oom"} : SetError(k, e) \in Contexts(n)
      /\ k.rerr \in {"ok", "protocol", "oom"} /\ k.inbuf \in Seq(PieceOf(AnyMessage))
  <2>1. {"protocol", "oom"} \subseteq Errors
    BY DEF Errors
  <2>2. \A e \in {"protocol", "oom"} : SetError(k, e) \in Contexts(n)
    BY <2>1, FieldsTyped
  <2> QED BY <2>2 DEF Contexts
<1>0. Failed.ok \in BOOLEAN
  BY DEF Failed
<1> HIDE DEF Failed
<1>2. CASE k.rerr # "ok"
  <2>1. SetError(k, k.rerr) \in Contexts(n)
    BY <1>1, <1>2
  <2> QED BY <1>0, <1>2, <2>1 DEF Look, Fail
<1>3. CASE k.rerr = "ok" /\ ~Whole(k.inbuf)
  BY <1>3 DEF Look
<1>4. CASE k.rerr = "ok" /\ Whole(k.inbuf) /\ First(k.inbuf).op = "garbage"
  <2> DEFINE j == [k EXCEPT !.rerr = "protocol", !.inbuf = <<>>]
  <2>1. j \in Contexts(n)
    BY InitTyped DEF Contexts
  <2>2. SetError(j, "protocol") \in Contexts(n)
    <3>1. "protocol" \in Errors
      BY DEF Errors
    <3> HIDE DEF j
    <3>2. \A e \in Errors : SetError(j, e) \in Contexts(n)
      BY <2>1, FieldsTyped
    <3> QED BY <3>1, <3>2
  <2> QED BY <1>0, <1>4, <2>2 DEF Look, Fail
<1>5. CASE k.rerr = "ok" /\ Whole(k.inbuf) /\ First(k.inbuf).op # "garbage"
  <2>1. [k EXCEPT !.inbuf = Behind(@)] \in Contexts(n)
    BY <1>1, <1>5, BehindTyped DEF Contexts
  <2>2. Tail(w) \in Seq(1..n)
    <3> DEFINE S == 1..n
    <3>1. w \in Seq(S)
      OBVIOUS
    <3> HIDE DEF S
    <3>2. Tail(w) \in Seq(S)
      BY <3>1, HeadTailProperties
    <3> QED BY <3>2 DEF S
  <2>3. [ok |-> TRUE, got |-> First(k.inbuf).req, due |-> Head(w)].ok \in BOOLEAN
    OBVIOUS
  <2> QED BY <1>5, <2>1, <2>2, <2>3 DEF Look
<1> QED BY <1>2, <1>3, <1>4, <1>5

\* Appending the next command.
LEMMA AppendedTyped ==
    ASSUME Typed
    PROVE  /\ Appended \in Contexts(issued + 1)
           /\ Append(waiting, issued + 1) \in Seq(1..issued + 1) /\ Append(waiting, issued + 1) # <<>>
           /\ up \in Seq(Numbered(issued + 1))
<1>1. c \in Contexts(issued) /\ issued \in Nat /\ up \in Seq(Numbered(issued)) /\ waiting \in Seq(1..issued)
  BY DEF Typed, Calling
<1>2. c \in Contexts(issued + 1) /\ up \in Seq(Numbered(issued + 1))
  BY <1>1, ContextsGrow
<1>3. Pieces(issued + 1) \in Seq(Numbered(issued + 1))
  <2>1. issued + 1 \in 1..issued + 1
    BY <1>1
  <2> QED BY <2>1, PiecesTyped DEF Numbered
<1>4. sdscatlen(c.obuf, Pieces(issued + 1)) \in Buffers(issued + 1)
  <2> DEFINE S == Numbered(issued + 1)
  <2>1. c.obuf \in String(S) /\ c.obuf.type # 0 /\ Pieces(issued + 1) \in Seq(S)
    BY <1>2, <1>3 DEF Contexts, Buffers
  <2> HIDE DEF S
  <2>2. sdscatlen(c.obuf, Pieces(issued + 1)) \in String(S) /\ sdscatlen(c.obuf, Pieces(issued + 1)).type # 0
    BY <2>1, AppendExact
  <2> QED BY <2>2 DEF Buffers, S
<1>5. Appended \in Contexts(issued + 1)
  BY <1>2, <1>4 DEF Contexts, Appended
<1>6. Append(waiting, issued + 1) \in Seq(1..issued + 1) /\ Append(waiting, issued + 1) # <<>>
  <2>1. 1..issued \subseteq 1..issued + 1 /\ issued + 1 \in 1..issued + 1
    BY <1>1
  <2>2. waiting \in Seq(1..issued + 1)
    BY <1>1, <2>1, SeqMonotonic
  <2> QED BY <2>1, <2>2, AppendProperties
<1> QED BY <1>2, <1>5, <1>6

\* A call that fails leaves an error in the context.
LEMMA FailTyped ==
    ASSUME NEW n \in Nat, NEW k \in Contexts(n), Fail(k)
    PROVE  c' \in Contexts(n) /\ pc' = "idle" /\ ret'.ok \in BOOLEAN
BY DEF Fail, Failed

LEMMA NextCommandTyped ==
    ASSUME Typed, Begun, AppendCommand \/ GetReply \/ Command, UNCHANGED asyncVars
    PROVE  Typed' /\ Begun'
<1>1. /\ issued \in Nat /\ c \in Contexts(issued) /\ up \in Seq(Numbered(issued))
      /\ waiting \in Seq(1..issued) /\ ret.ok \in BOOLEAN
  BY DEF Typed, Calling
<1>2. pc = "idle" /\ UNCHANGED <<try, fds, peer, up, down, reconnects>>
  BY DEF AppendCommand, GetReply, Command, Calls
<1>3. ASSUME /\ issued' \in {issued, issued + 1}
             /\ c' \in Contexts(issued') /\ waiting' \in Seq(1..issued') /\ ret'.ok \in BOOLEAN
             /\ pc' = "idle" \/ (pc' = "write" /\ waiting' # <<>>)
      PROVE  Typed' /\ Begun'
  <2>1. issued' \in Nat /\ up' \in Seq(Numbered(issued'))
    BY <1>1, <1>2, <1>3, AppendedTyped
  <2>2. Calling'
    BY <1>2, <1>3, <2>1 DEF Typed, Calling
  <2> QED BY <1>2, <1>3, <2>2, InCallTyped
<1>4. ASSUME CannotAppend PROVE Typed' /\ Begun'
  <2>1. PICK e \in {"oom", "other"} : Fail(SetError(c, e))
    BY <1>4 DEF CannotAppend
  <2>2. e \in Errors
    BY DEF Errors
  <2>3. SetError(c, e) \in Contexts(issued)
    BY <1>1, <2>2, FieldsTyped
  <2>4. c' \in Contexts(issued) /\ pc' = "idle" /\ ret'.ok \in BOOLEAN
    BY <1>1, <2>1, <2>3, FailTyped
  <2> QED BY <1>1, <1>3, <1>4, <2>4 DEF CannotAppend
<1>5. ASSUME Appends, c' = Appended, waiting' = Append(waiting, issued + 1), ret' = NoRet, UNCHANGED pc
      PROVE  Typed' /\ Begun'
  <2>1. ret'.ok \in BOOLEAN
    BY <1>5 DEF NoRet
  <2> QED BY <1>2, <1>3, <1>5, <2>1, AppendedTyped DEF Appends
<1>6. ASSUME waiting # <<>>, Look(c, waiting, "write"), UNCHANGED issued PROVE Typed' /\ Begun'
  BY <1>1, <1>3, <1>6, LookTyped
<1>7. ASSUME Appends, Look(Appended, Append(waiting, issued + 1), "write") PROVE Typed' /\ Begun'
  <2>1. issued + 1 \in Nat /\ issued' = issued + 1
    BY <1>1, <1>7 DEF Appends
  <2>2. /\ c' \in Contexts(issued + 1) /\ waiting' \in Seq(1..issued + 1) /\ ret'.ok \in BOOLEAN
        /\ pc' = "idle" \/ (pc' = "write" /\ waiting' # <<>>)
    <3> DEFINE k == Appended
               w == Append(waiting, issued + 1)
               n == issued + 1
    <3>1. k \in Contexts(n) /\ w \in Seq(1..n) /\ w # <<>> /\ n \in Nat /\ Look(k, w, "write")
      BY <1>7, <2>1, AppendedTyped
    <3> HIDE DEF k, w, n
    <3>2. /\ c' \in Contexts(n) /\ waiting' \in Seq(1..n) /\ ret'.ok \in BOOLEAN
          /\ pc' = "idle" \/ (pc' = "write" /\ waiting' # <<>>)
      BY <1>1, <3>1, LookTyped
    <3> QED BY <3>2 DEF n
  <2> QED BY <1>3, <2>1, <2>2
<1> QED BY <1>4, <1>5, <1>6, <1>7 DEF AppendCommand, GetReply, Command

\* The first n pieces of a sequence, and the rest.
LEMMA CutTyped ==
    ASSUME NEW S, NEW s \in Seq(S), NEW n \in 0..Len(s)
    PROVE  SubSeq(s, 1, n) \in Seq(S) /\ SubSeq(s, n + 1, Len(s)) \in Seq(S)
<1>1. Len(s) \in Nat /\ \A i \in 1..Len(s) : s[i] \in S
  BY LenProperties, ElementOfSeq
<1>2. 1 \in Int /\ n \in Int /\ n + 1 \in Int /\ Len(s) \in Int
  BY <1>1
<1>3. \A i \in 1..n : s[i] \in S
  BY <1>1
<1>4. \A i \in n + 1..Len(s) : s[i] \in S
  BY <1>1
<1> QED BY <1>2, <1>3, <1>4, SubSeqProperties

\* What is written to the socket, and what is left.
LEMMA SentTyped ==
    ASSUME NEW m \in Nat, c \in Contexts(m), up \in Seq(Numbered(m)), NEW n \in 0..c.obuf.len
    PROVE  Sent(n) \in Contexts(m) /\ Sent(n).obuf \in Buffers(m) /\ Arrives(n) \in Seq(Numbered(m))
<1> DEFINE S == Numbered(m)
<1>1. c.obuf \in String(S) /\ c.obuf.type # 0
  BY DEF Contexts, Buffers
<1>2. c.obuf.len \in Nat /\ c.obuf.chars \in Seq(S) /\ Len(c.obuf.chars) = c.obuf.len
  <2> HIDE DEF S
  <2> QED BY <1>1, StringFacts
<1>3. sdsrange(c.obuf, n) \in Buffers(m)
  <2> HIDE DEF S
  <2>1. n \in Nat
    BY <1>2
  <2>2. sdsrange(c.obuf, n) \in String(S) /\ sdsrange(c.obuf, n).type # 0
    BY <1>1, <2>1, RestExact
  <2> QED BY <2>2 DEF Buffers, S
<1>4. Sent(n).obuf \in Buffers(m) /\ Sent(n) \in Contexts(m)
  BY <1>3, InitTyped DEF Sent, Contexts
<1>5. SubSeq(c.obuf.chars, 1, n) \in Seq(S)
  <2> HIDE DEF S
  <2> QED BY <1>2, CutTyped
<1>6. up \o SubSeq(c.obuf.chars, 1, n) \in Seq(S)
  <2>1. up \in Seq(S)
    OBVIOUS
  <2> HIDE DEF S
  <2> QED BY <1>5, <2>1, ConcatProperties
<1> QED BY <1>4, <1>6 DEF Arrives

LEMMA TransferTyped ==
    ASSUME Typed, Begun, BufferWrite \/ BufferRead \/ SocketError \/ SetTimeout \/ EnableKeepAlive,
           UNCHANGED asyncVars
    PROVE  Typed' /\ Begun'
<1>1. /\ issued \in Nat /\ c \in Contexts(issued) /\ up \in Seq(Numbered(issued))
      /\ down \in Seq(PieceOf(AnyMessage)) /\ waiting \in Seq(1..issued) /\ ret.ok \in BOOLEAN
      /\ c.inbuf \in Seq(PieceOf(AnyMessage))
      /\ pc \in {"write", "read"} => waiting # <<>>
  BY DEF Typed, Calling, Begun, Contexts
<1>2. UNCHANGED <<try, fds, peer, issued, reconnects>> /\ pc \in {"idle", "write", "read"}
  BY DEF BufferWrite, BufferRead, EndOfFile, SocketError, SetTimeout, EnableKeepAlive, Calls
<1>3. ASSUME c' \in Contexts(issued), waiting' \in Seq(1..issued), ret'.ok \in BOOLEAN,
             up' \in Seq(Numbered(issued)), down' \in Seq(PieceOf(AnyMessage)),
             pc' = "idle" \/ (pc' \in {"write", "read"} /\ waiting' # <<>>)
      PROVE  Typed' /\ Begun'
  <2>1. Calling'
    BY <1>2, <1>3 DEF Typed, Calling
  <2> QED BY <1>2, <1>3, <2>1, InCallTyped
<1>4. \A e \in {"io", "eof", "other", "oom"} : SetError(c, e) \in Contexts(issued)
  <2>1. {"io", "eof", "other", "oom"} \subseteq Errors
    BY DEF Errors
  <2> QED BY <1>1, <2>1, FieldsTyped
<1>5. ASSUME NEW k \in Contexts(issued), Fail(k), UNCHANGED waiting,
             up' = up, down' \in {down, <<>>}
      PROVE  Typed' /\ Begun'
  <2>1. c' \in Contexts(issued) /\ pc' = "idle" /\ ret'.ok \in BOOLEAN
    BY <1>1, <1>5, FailTyped
  <2>2. down' \in Seq(PieceOf(AnyMessage))
    BY <1>1, <1>5, InitTyped
  <2> QED BY <1>1, <1>3, <1>5, <2>1, <2>2
<1>6. CASE BufferWrite
  <2>1. waiting' = waiting /\ pc = "write" /\ down' = down
    BY <1>6 DEF BufferWrite
  <2>2. CASE up' = up /\ (Fail(c) \/ Fail(SetError(c, "io")))
    BY <1>1, <1>4, <1>5, <2>1, <2>2
  <2>3. CASE pc' = "read" /\ UNCHANGED <<c, up, ret>>
    BY <1>1, <1>3, <2>1, <2>3
  <2>4. CASE /\ \E n \in 1..c.obuf.len : /\ c' = Sent(n) /\ up' = Arrives(n)
                                          /\ pc' = IF n = c.obuf.len THEN "read" ELSE "write"
             /\ UNCHANGED ret
    <3>1. PICK n \in 1..c.obuf.len : /\ c' = Sent(n) /\ up' = Arrives(n)
                                     /\ pc' = IF n = c.obuf.len THEN "read" ELSE "write"
      BY <2>4
    <3>2. n \in 0..c.obuf.len
      OBVIOUS
    <3>3. c' \in Contexts(issued) /\ up' \in Seq(Numbered(issued))
      BY <1>1, <3>1, <3>2, SentTyped
    <3>4. pc' \in {"write", "read"}
      BY <3>1
    <3> QED BY <1>1, <1>3, <2>1, <2>4, <3>3, <3>4
  <2> QED BY <1>6, <2>2, <2>3, <2>4 DEF BufferWrite
<1>7. CASE BufferRead
  <2>1. pc = "read" /\ up' = up
    BY <1>7 DEF BufferRead
  <2>2. CASE UNCHANGED <<down, waiting>> /\ (Fail(c) \/ Fail(SetError(c, "eof")) \/ Fail(SetError(c, "io")))
    BY <1>1, <1>4, <1>5, <2>1, <2>2
  <2>3. CASE \E n \in 1..Len(down) : /\ down' = SubSeq(down, n + 1, Len(down))
                                     /\ Look(Fed(n), waiting, "read")
    <3>1. PICK n \in 1..Len(down) : /\ down' = SubSeq(down, n + 1, Len(down))
                                    /\ Look(Fed(n), waiting, "read")
      BY <2>3
    <3>2. /\ SubSeq(down, 1, n) \in Seq(PieceOf(AnyMessage))
          /\ SubSeq(down, n + 1, Len(down)) \in Seq(PieceOf(AnyMessage))
      <4>1. n \in 0..Len(down)
        OBVIOUS
      <4> QED BY <1>1, <4>1, CutTyped
    <3>3. c.inbuf \o SubSeq(down, 1, n) \in Seq(PieceOf(AnyMessage))
      BY <1>1, <3>2, ConcatProperties
    <3>4. Fed(n) \in Contexts(issued)
      BY <1>1, <3>3 DEF Fed, Contexts
    <3>5. /\ c' \in Contexts(issued) /\ waiting' \in Seq(1..issued) /\ ret'.ok \in BOOLEAN
          /\ pc' = "idle" \/ (pc' = "read" /\ waiting' # <<>>)
      BY <1>1, <2>1, <3>1, <3>4, LookTyped
    <3> QED BY <1>1, <1>3, <2>1, <3>1, <3>2, <3>5
  <2>4. CASE /\ Fail(SetError([c EXCEPT !.rerr = "oom", !.inbuf = <<>>], "oom"))
             /\ down' = <<>> /\ UNCHANGED waiting
    <3> DEFINE j == [c EXCEPT !.rerr = "oom", !.inbuf = <<>>]
    <3>1. j \in Contexts(issued)
      BY <1>1, InitTyped DEF Contexts
    <3>2. SetError(j, "oom") \in Contexts(issued)
      <4>1. "oom" \in Errors
        BY DEF Errors
      <4> HIDE DEF j
      <4>2. \A e \in Errors : SetError(j, e) \in Contexts(issued)
        BY <1>1, <3>1, FieldsTyped
      <4> QED BY <4>1, <4>2
    <3> QED BY <1>5, <2>1, <2>4, <3>2
  <2> QED BY <1>7, <2>2, <2>3, <2>4 DEF BufferRead, EndOfFile
<1>8. CASE SocketError \/ SetTimeout \/ EnableKeepAlive
  BY <1>4, <1>5, <1>8 DEF SocketError, SetTimeout, EnableKeepAlive, Calls
<1> QED BY <1>6, <1>7, <1>8

\* The server, the other end of the socket and other parts of the process leave
\* everything else alone.
LEMMA OutsideTyped ==
    ASSUME Typed, Begun,
           UNCHANGED <<c, pc, try, issued, waiting, ret, reconnects>>,
           UNCHANGED <<ac, frame, cmds, calls, faults>>,
           pc \in Outside \ {"none", "address", "init"} => UNCHANGED server,
           pc \notin {"none", "address", "init"},
           fds' \in Tables, peer' \in {"none", "pending", "refused", "up", "closed"},
           up' \in Seq(Numbered(issued)), down' \in Seq(PieceOf(AnyMessage)), server' \in Servers
    PROVE  Typed' /\ Begun'
<1>1. Calling' /\ Answering' /\ Counted'
  BY DEF Typed, Calling, Answering, Counted
<1>2. Begun'
  BY DEF Begun, Outside
<1> QED BY <1>1, <1>2 DEF Typed

LEMMA WholeTyped ==
    ASSUME Typed, Whole(up)
    PROVE  First(up) \in 1..issued /\ Behind(up) \in Seq(Numbered(issued))
<1> DEFINE M == 1..issued
<1>1. up \in Seq(PieceOf(M))
  BY DEF Typed, Calling, Numbered
<1> HIDE DEF M
<1>2. First(up) \in M /\ Behind(up) \in Seq(PieceOf(M))
  BY <1>1, EndFacts
<1> QED BY <1>2 DEF M, Numbered

LEMMA DownTyped ==
    ASSUME Typed, NEW r \in AnyMessage
    PROVE  down \o Pieces(r) \in Seq(PieceOf(AnyMessage)) /\ Pieces(r) \in Seq(PieceOf(AnyMessage))
<1>1. Pieces(r) \in Seq(PieceOf(AnyMessage)) /\ down \in Seq(PieceOf(AnyMessage))
  BY PiecesTyped DEF Typed, Calling
<1> QED BY <1>1, ConcatProperties

LEMMA EnvironmentTyped ==
    ASSUME Typed, Begun, Serve \/ Closes \/ Garbles \/ OthersOpen, UNCHANGED asyncVars
    PROVE  Typed' /\ Begun'
<1>1. /\ fds \in Tables /\ peer \in {"none", "pending", "refused", "up", "closed"}
      /\ up \in Seq(Numbered(issued)) /\ down \in Seq(PieceOf(AnyMessage)) /\ server \in Servers
      /\ issued \in Nat
  BY DEF Typed, Calling, Answering
<1>2. UNCHANGED <<ac, frame, cmds, server, calls, faults>>
  BY DEF asyncVars
<1>3. CASE Serve
  <2>1. Answer(First(up)) \in AnyMessage
    BY <1>1, <1>3, WholeTyped DEF Serve, Answer, AnyMessage
  <2>2. down' \in Seq(PieceOf(AnyMessage)) /\ up' \in Seq(Numbered(issued))
    BY <1>3, <2>1, WholeTyped, DownTyped DEF Serve
  <2> QED BY <1>1, <1>2, <1>3, <2>2, OutsideTyped DEF Serve, Peer
<1>4. CASE Closes
  <2>1. <<>> \in Seq(Numbered(issued))
    OBVIOUS
  <2> QED BY <1>1, <1>2, <1>4, <2>1, OutsideTyped DEF Closes, Peer
<1>5. CASE Garbles
  <2>1. Garbage \in PieceOf(AnyMessage)
    BY DEF Garbage, PieceOf, AnyMessage
  <2>2. Append(down, Garbage) \in Seq(PieceOf(AnyMessage))
    BY <1>1, <2>1, AppendProperties
  <2> QED BY <1>1, <1>2, <1>5, <2>2, OutsideTyped DEF Garbles, Peer
<1>6. CASE OthersOpen
  <2>1. fds' \in Tables
    BY <1>1, <1>6 DEF OthersOpen, Tables
  <2> QED BY <1>1, <1>2, <1>6, <2>1, OutsideTyped DEF OthersOpen, Peer
<1> QED BY <1>3, <1>4, <1>5, <1>6

\* redisFree, and redisFreeKeepFd.
LEMMA FreeTyped ==
    ASSUME Typed, Begun, Free, UNCHANGED asyncVars
    PROVE  Typed' /\ Begun'
<1>1. PICK t \in Tables : Gone(t)
  <2>1. fds \in Tables
    BY DEF Typed, Calling
  <2>2. Closed(fds, c.fd) \in Tables
    BY <2>1, DescriptorsTyped
  <2>3. (IF c.fd \in Fds /\ fds[c.fd] = "ours" THEN [fds EXCEPT ![c.fd] = "kept"] ELSE fds) \in Tables
    BY <2>1 DEF Tables
  <2> QED BY <2>2, <2>3 DEF Free, redisFree
<1>2. waiting' = <<>> /\ ret'.ok \in BOOLEAN
  BY DEF Free, NoRet
<1>3. c' \in Contexts(issued) /\ issued \in Nat
  BY <1>1, InitTyped DEF Gone, Typed, Calling
<1>4. Calling'
  BY <1>1, <1>2, <1>3 DEF Typed, Calling, Gone
<1>5. Answering'
  BY DEF Typed, Answering, asyncVars
<1>6. pc' = "gone" /\ issued' = issued /\ pc \in Outside
  BY <1>1 DEF Gone, Free, Outside
<1>7. Counted' /\ Begun'
  BY <1>6 DEF Typed, Counted, Begun, asyncVars, Outside, InLoop
<1> QED BY <1>4, <1>5, <1>7 DEF Typed

LEMMA ContextTyped ==
    ASSUME Typed, Begun, Control, ContextNext, UNCHANGED asyncVars
    PROVE  Typed' /\ Begun'
<1>1. Reconnect => "BLOCK" \in c.flags
  BY DEF Control, Mode, Reconnect
<1>2. CASE Connect \/ Connecting \/ Reconnect
  BY <1>1, <1>2, ConnectTyped, ConnectingTyped, ReconnectTyped
<1>3. CASE AppendCommand \/ GetReply \/ Command
  BY <1>3, NextCommandTyped
<1>4. CASE BufferWrite \/ BufferRead \/ SocketError \/ SetTimeout \/ EnableKeepAlive
  BY <1>4, TransferTyped
<1>5. CASE Serve \/ Closes \/ Garbles \/ OthersOpen
  BY <1>5, EnvironmentTyped
<1>6. CASE Free
  BY <1>6, FreeTyped
<1> QED BY <1>2, <1>3, <1>4, <1>5, <1>6 DEF ContextNext, Blocking

(***************************************************************************)
(* The handlers                                                            *)
(***************************************************************************)
\* What every step of a handler leaves behind.
Left ==
    /\ pc' \in InLoop
    /\ c' \in Contexts(issued) /\ ac' \in AsyncContexts /\ frame' \in Frames /\ server' \in Servers
    /\ peer' \in {"none", "pending", "refused", "up", "closed"}
    /\ up' \in Seq(Numbered(issued)) /\ down' \in Seq(PieceOf(AnyMessage))
    /\ calls' \in Seq(Nat) /\ Len(calls') = Len(calls) /\ faults' \subseteq Faults

LEMMA LeftTyped ==
    ASSUME Typed, Left, Quiet, pc \in InLoop \cup {"init"}
    PROVE  Typed' /\ Begun'
<1>1. Calling'
  BY DEF Typed, Calling, Left, Quiet
<1>2. Answering'
  BY DEF Typed, Answering, Left, Quiet
<1>3. pc = "init" => cmds = <<>> /\ issued = 0
  BY DEF Typed, Counted, Outside
<1>4. Len(cmds) = issued
  BY <1>3 DEF Typed, Counted
<1>5. pc' \in InLoop /\ pc' \notin Outside
  BY DEF Left, Outside, InLoop
<1>6. Counted'
  <2>1. cmds' = cmds /\ issued' = issued /\ Len(calls') = Len(calls) /\ Len(cmds) = Len(calls)
    BY DEF Left, Quiet, Typed, Counted
  <2> QED BY <1>4, <1>5, <2>1 DEF Counted, Outside
<1>7. Begun'
  BY <1>5 DEF Begun, Outside
<1> QED BY <1>1, <1>2, <1>6, <1>7 DEF Typed

\* Nothing has happened yet: a step is described by what it changes.
LEMMA NowTyped ==
    ASSUME Typed
    PROVE  /\ issued \in Nat /\ c \in Contexts(issued) /\ ac \in AsyncContexts /\ frame \in Frames
           /\ server \in Servers /\ peer \in {"none", "pending", "refused", "up", "closed"}
           /\ up \in Seq(Numbered(issued)) /\ down \in Seq(PieceOf(AnyMessage))
           /\ calls \in Seq(Nat) /\ faults \subseteq Faults
BY DEF Typed, Calling, Answering

LEMMA NoneTyped ==
    /\ NoFrame \in Frames /\ NoServer \in Servers /\ NoContext \in AsyncContexts
    /\ NoCallback \in Callbacks
    /\ \A then \in {"none", "abort", "read", "write"} : [NoFrame EXCEPT !.then = then] \in Frames
<1>1. NoCallback \in Callbacks
  BY DEF NoCallback, Callbacks
<1>2. <<>> \in Seq(Callbacks)
  OBVIOUS
<1>3. NoFrame \in Frames /\ \A then \in {"none", "abort", "read", "write"} : [NoFrame EXCEPT !.then = then] \in Frames
  BY <1>1, <1>2 DEF NoFrame, Frames
<1>4. NoServer \in Servers
  <2>1. IsFiniteSet({})
    BY FS_EmptySet
  <2> QED BY <2>1 DEF NoServer, Servers
<1>5. dictCreate \in Table
  BY EmptyDict DEF Table, Sound
<1>6. NoContext \in AsyncContexts
  BY <1>2, <1>5 DEF NoContext, AsyncContexts, Errors
<1> QED BY <1>1, <1>3, <1>4, <1>6

LEMMA AsyncFieldsTyped ==
    ASSUME NEW a \in AsyncContexts
    PROVE  /\ \A e \in Errors : [a EXCEPT !.err = e] \in AsyncContexts
           /\ \A ev \in SUBSET {"read", "write"} : [a EXCEPT !.ev = ev] \in AsyncContexts
           /\ \A s \in Seq(Callbacks) :
                [a EXCEPT !.replies = s] \in AsyncContexts /\ [a EXCEPT !.invalid = s] \in AsyncContexts
           /\ \A d \in Table, pattern \in BOOLEAN : WithDict(a, pattern, d) \in AsyncContexts
           /\ \A pattern \in BOOLEAN : DictOf(a, pattern) \in Table
BY DEF AsyncContexts, WithDict, DictOf

LEMMA StartFreeTyped ==
    ASSUME Typed, NEW k \in Contexts(issued), NEW a \in AsyncContexts, StartFree(k, a)
    PROVE  Left
<1>1. [k EXCEPT !.obuf = sdsempty, !.inbuf = <<>>] \in Contexts(issued)
  BY InitTyped, NowTyped DEF Contexts
<1>2. (IF pc = "connected" THEN frame.then ELSE "none") \in {"none", "abort", "read", "write"}
  BY NowTyped DEF Frames
<1>3. frame' \in Frames
  BY <1>2, NoneTyped DEF StartFree
<1>4. pc' \in InLoop
  BY DEF StartFree, InLoop
<1>5. calls' = calls /\ faults' = faults /\ server' = NoServer
  BY DEF StartFree
<1>6. up' \in Seq(Numbered(issued)) /\ down' \in Seq(PieceOf(AnyMessage)) /\ peer' = "none"
  BY DEF StartFree
<1>7. c' \in Contexts(issued) /\ ac' \in AsyncContexts
  BY <1>1 DEF StartFree
<1> QED BY <1>3, <1>4, <1>5, <1>6, <1>7, NowTyped, NoneTyped DEF Left

LEMMA CrashTyped ==
    ASSUME Typed, NEW kind \in Faults, Crash(kind), c' \in Contexts(issued), ac' \in AsyncContexts
    PROVE  Left
BY NowTyped DEF Crash, Still, Left, InLoop

LEMMA DisconnectTyped ==
    ASSUME Typed, NEW k \in Contexts(issued), NEW a \in AsyncContexts, Disconnect(k, a)
    PROVE  Left
<1> DEFINE copied == [a EXCEPT !.err = k.err]
<1>1. copied \in AsyncContexts
  <2>1. k.err \in Errors
    BY DEF Contexts
  <2> QED BY <2>1, AsyncFieldsTyped
<1>2. Set(k, "DISCONNECTING") \in Contexts(issued)
  <2>1. "DISCONNECTING" \in Flags
    BY DEF Flags
  <2>2. \A f \in Flags : Set(k, f) \in Contexts(issued)
    BY NowTyped, FieldsTyped
  <2> QED BY <2>1, <2>2
<1>3. "clean" \in Faults
  BY DEF Faults
<1> HIDE DEF copied
<1>4. CASE c' = k /\ ac' = copied /\ Crash("clean")
  BY <1>1, <1>3, <1>4, CrashTyped
<1>5. CASE \E j \in {k, Set(k, "DISCONNECTING")} : StartFree(j, copied)
  BY <1>1, <1>2, <1>5, StartFreeTyped
<1> QED BY <1>4, <1>5 DEF Disconnect, copied

LEMMA ErrorTyped ==
    ASSUME Typed, NEW k \in Contexts(issued)
    PROVE  /\ \A e \in {"io", "eof", "protocol", "oom", "other"} : SetError(k, e) \in Contexts(issued)
           /\ \A f \in Flags : Set(k, f) \in Contexts(issued) /\ Unset(k, f) \in Contexts(issued)
<1>1. \A e \in Errors : SetError(k, e) \in Contexts(issued)
  BY NowTyped, FieldsTyped
<1>2. {"io", "eof", "protocol", "oom", "other"} \subseteq Errors
  BY DEF Errors
<1>3. \A f \in Flags : Set(k, f) \in Contexts(issued) /\ Unset(k, f) \in Contexts(issued)
  BY NowTyped, FieldsTyped
<1> QED BY <1>1, <1>2, <1>3

LEMMA FlagsKnown ==
    {"CONNECTED", "DISCONNECTING", "FREEING", "IN_CALLBACK", "SUBSCRIBED", "MONITORING"} \subseteq Flags
BY DEF Flags

LEMMA ApplicationTyped ==
    ASSUME Typed, Begun, Initialize \/ AppFree \/ AppDisconnect
    PROVE  Typed' /\ Begun'
<1>1. \A f \in {"CONNECTED", "DISCONNECTING", "FREEING"} :
        Set(c, f) \in Contexts(issued) /\ Unset(c, f) \in Contexts(issued)
  BY NowTyped, ErrorTyped, FlagsKnown
<1>2. CASE Initialize
  <2> DEFINE ev == IF c.err = "ok" THEN {"write"} ELSE {}
  <2>1. c.err \in Errors
    BY NowTyped DEF Contexts
  <2>2. [NoContext EXCEPT !.err = c.err, !.ev = ev] \in AsyncContexts
    BY <2>1, NoneTyped DEF AsyncContexts
  <2>3. Left
    BY <1>1, <1>2, <2>2, NowTyped DEF Initialize, Left, Still, InLoop
  <2> QED BY <1>2, <2>3, LeftTyped DEF Initialize
<1>3. CASE AppFree
  <2>1. pc \in InLoop
    BY <1>3 DEF AppFree, App, InLoop
  <2>2. CASE StartFree(Set(c, "FREEING"), ac)
    BY <1>1, <1>3, <2>1, <2>2, StartFreeTyped, LeftTyped, NowTyped DEF AppFree
  <2>3. CASE c' = Set(c, "FREEING") /\ Still /\ UNCHANGED <<pc, ac, frame, calls, faults>>
    <3>1. Left
      BY <1>1, <2>1, <2>3, NowTyped DEF Left, Still
    <3> QED BY <1>3, <2>1, <3>1, LeftTyped DEF AppFree
  <2> QED BY <1>3, <2>2, <2>3 DEF AppFree
<1>4. CASE AppDisconnect
  <2>1. pc \in InLoop
    BY <1>4 DEF AppDisconnect, App, InLoop
  <2>2. CASE Disconnect(Set(c, "DISCONNECTING"), ac)
    BY <1>1, <1>4, <2>1, <2>2, DisconnectTyped, LeftTyped, NowTyped DEF AppDisconnect
  <2>3. CASE c' = Set(c, "DISCONNECTING") /\ Still /\ UNCHANGED <<pc, ac, frame, calls, faults>>
    <3>1. Left
      BY <1>1, <2>1, <2>3, NowTyped DEF Left, Still
    <3> QED BY <1>4, <2>1, <3>1, LeftTyped DEF AppDisconnect
  <2> QED BY <1>4, <2>2, <2>3 DEF AppDisconnect
<1> QED BY <1>2, <1>3, <1>4

LEMMA ReadEventTyped ==
    ASSUME Typed, NEW k \in Contexts(issued), NEW a \in AsyncContexts, ReadEvent(k, a)
    PROVE  Left
<1>1. CASE Disconnect(k, a) \/ Disconnect(SetError(k, "eof"), a) \/ Disconnect(SetError(k, "io"), a)
  BY <1>1, ErrorTyped, DisconnectTyped
<1>2. CASE /\ \E n \in 1..Len(down) :
                /\ c' = [k EXCEPT !.inbuf = @ \o SubSeq(down, 1, n)]
                /\ down' = SubSeq(down, n + 1, Len(down))
           /\ ac' = [a EXCEPT !.ev = @ \cup {"read"}]
           /\ pc' = "process" /\ frame' = NoFrame
           /\ UNCHANGED <<peer, up, server, calls, faults>>
  <2>1. PICK n \in 1..Len(down) : /\ c' = [k EXCEPT !.inbuf = @ \o SubSeq(down, 1, n)]
                                  /\ down' = SubSeq(down, n + 1, Len(down))
    BY <1>2
  <2>2. /\ SubSeq(down, 1, n) \in Seq(PieceOf(AnyMessage))
        /\ SubSeq(down, n + 1, Len(down)) \in Seq(PieceOf(AnyMessage))
    <3>1. n \in 0..Len(down) /\ down \in Seq(PieceOf(AnyMessage))
      BY NowTyped
    <3> QED BY <3>1, CutTyped
  <2>3. k.inbuf \o SubSeq(down, 1, n) \in Seq(PieceOf(AnyMessage))
    BY <2>2, ConcatProperties DEF Contexts
  <2>4. c' \in Contexts(issued)
    BY <2>1, <2>3 DEF Contexts
  <2>5. ac' \in AsyncContexts
    BY <1>2 DEF AsyncContexts
  <2>6. pc' \in InLoop
    BY <1>2 DEF InLoop
  <2> QED BY <1>2, <2>1, <2>2, <2>4, <2>5, <2>6, NowTyped, NoneTyped DEF Left
<1> QED BY <1>1, <1>2 DEF ReadEvent

LEMMA WriteEventTyped ==
    ASSUME Typed, NEW k \in Contexts(issued), k.obuf = c.obuf, NEW a \in AsyncContexts, WriteEvent(k, a)
    PROVE  Left
<1>1. CASE Disconnect(k, a) \/ Disconnect(SetError(k, "io"), a)
  BY <1>1, ErrorTyped, DisconnectTyped
<1>2. CASE /\ \E n \in 0..k.obuf.len :
                /\ c' = [k EXCEPT !.obuf = Sent(n).obuf] /\ up' = Arrives(n)
                /\ ac' = [a EXCEPT !.ev = (@ \ {"write"}) \cup {"read"} \cup
                                          IF n < k.obuf.len THEN {"write"} ELSE {}]
           /\ pc' = "loop" /\ frame' = NoFrame
           /\ UNCHANGED <<peer, down, server, calls, faults>>
  <2>1. PICK n \in 0..c.obuf.len :
            /\ c' = [k EXCEPT !.obuf = Sent(n).obuf] /\ up' = Arrives(n)
            /\ ac' = [a EXCEPT !.ev = (@ \ {"write"}) \cup {"read"} \cup
                                      IF n < k.obuf.len THEN {"write"} ELSE {}]
    BY <1>2
  <2>2. Sent(n).obuf \in Buffers(issued) /\ up' \in Seq(Numbered(issued))
    BY <2>1, SentTyped, NowTyped
  <2>3. c' \in Contexts(issued)
    BY <2>1, <2>2 DEF Contexts
  <2>4. ac' \in AsyncContexts
    BY <2>1 DEF AsyncContexts
  <2>5. pc' \in InLoop
    BY <1>2 DEF InLoop
  <2> QED BY <1>2, <2>1, <2>2, <2>3, <2>4, <2>5, NowTyped, NoneTyped DEF Left
<1> QED BY <1>1, <1>2 DEF WriteEvent

LEMMA EventsTyped ==
    ASSUME Typed, Begun, Control, HandleRead \/ HandleWrite \/ ConnectCallbackReturns \/ HandleEvent
    PROVE  Typed' /\ Begun'
<1>1. pc \in InLoop /\ Quiet
  BY DEF HandleRead, HandleWrite, ConnectCallbackReturns, HandleEvent, InLoop
<1>2. SUFFICES Left
  BY <1>1, LeftTyped
<1>3. c \in Contexts(issued) /\ ac \in AsyncContexts
  BY NowTyped
<1>4. [ac EXCEPT !.ev = @ \ {"read"}] \in AsyncContexts /\ [ac EXCEPT !.ev = @ \ {"write"}] \in AsyncContexts
  BY <1>3 DEF AsyncContexts
<1>5. ASSUME NEW then \in {"read", "write"}, NEW a \in AsyncContexts, FirstEvent(then, a) PROVE Left
  <2>1. SetError(c, "io") \in Contexts(issued) /\ Set(c, "CONNECTED") \in Contexts(issued)
    BY <1>3, ErrorTyped, FlagsKnown
  <2>2. c' \in Contexts(issued) /\ frame' \in Frames
    BY <1>5, <2>1, NoneTyped DEF FirstEvent
  <2> QED BY <1>5, <2>2, NowTyped DEF FirstEvent, Left, Still, InLoop
<1>6. CASE HandleRead
  BY <1>3, <1>4, <1>5, <1>6, ReadEventTyped DEF HandleRead
<1>7. CASE HandleWrite
  BY <1>3, <1>4, <1>5, <1>7, WriteEventTyped DEF HandleWrite
<1>8. CASE ConnectCallbackReturns
  BY <1>8, NowTyped DEF ConnectCallbackReturns, Left, Still, InLoop
<1>9. CASE HandleEvent
  <2>1. frame.then \in {"abort", "read", "write"}
    BY <1>9 DEF HandleEvent, Control, Resumes
  <2>2. Disconnect(c, ac) \/ ReadEvent(c, ac) \/ WriteEvent(c, ac)
    BY <1>9, <2>1 DEF HandleEvent
  <2> QED BY <1>3, <2>2, DisconnectTyped, ReadEventTyped, WriteEventTyped
<1> QED BY <1>6, <1>7, <1>8, <1>9

LEMMA CountTyped ==
    ASSUME Typed, NEW i
    PROVE  [calls EXCEPT ![i] = @ + 1] \in Seq(Nat) /\ Len([calls EXCEPT ![i] = @ + 1]) = Len(calls)
<1>1. calls \in Seq(Nat)
  BY NowTyped
<1>2. DOMAIN calls = 1..Len(calls) /\ Len(calls) \in Nat /\ \A j \in 1..Len(calls) : calls[j] \in Nat
  BY <1>1, LenProperties, ElementOfSeq
<1> DEFINE s == [calls EXCEPT ![i] = @ + 1]
<1>3. s = [j \in 1..Len(calls) |-> IF j = i THEN calls[j] + 1 ELSE calls[j]]
  BY <1>1, <1>2
<1>4. \A j \in 1..Len(calls) : (IF j = i THEN calls[j] + 1 ELSE calls[j]) \in Nat
  BY <1>2
<1> HIDE DEF s
<1>5. s \in [1..Len(calls) -> Nat]
  BY <1>3, <1>4
<1>6. s \in Seq(Nat) /\ Len(s) = Len(calls)
  BY <1>2, <1>5
<1> QED BY <1>6 DEF s

LEMMA RunTyped ==
    ASSUME Typed, pc \in InLoop, NEW k \in Contexts(issued), NEW a \in AsyncContexts,
           NEW cb \in Callbacks, NEW r \in AnyMessage, Run(k, a, cb, r), faults' \subseteq Faults
    PROVE  Left
<1>1. Set(k, "IN_CALLBACK") \in Contexts(issued)
  BY ErrorTyped, FlagsKnown
<1>2. /\ [frame EXCEPT !.cb = cb, !.reply = r] \in Frames
      /\ [frame EXCEPT !.cb = cb] \in Frames
  BY NowTyped DEF Frames
<1>3. c' \in Contexts(issued) /\ frame' \in Frames /\ pc' \in InLoop
  BY <1>1, <1>2 DEF Run, InLoop
<1>4. calls' \in Seq(Nat) /\ Len(calls') = Len(calls)
  BY CountTyped, NowTyped DEF Run
<1> QED BY <1>3, <1>4, NowTyped DEF Run, Left, Still

\* Notices name topics.
LEMMA NoticeTyped ==
    ASSUME NEW r \in AnyMessage
    PROVE  /\ r.op \in {"subscribe", "unsubscribe", "message"} =>
                r.topic \in DOMAIN Hash \cup {"nil"} /\ r.pattern \in BOOLEAN
           /\ r.op \notin {"subscribe", "unsubscribe", "message"} =>
                r.op \in {"answer", "error", "line", "garbage"}
BY DEF AnyMessage, Kinds

LEMMA HeardTopicTyped ==
    ASSUME Typed, pc \in InLoop, NEW k \in Contexts(issued), NEW r \in AnyMessage,
           r.op \in {"subscribe", "unsubscribe", "message"}, r.topic # "nil",
           dictHas(DictOf(ac, r.pattern), r.topic), HeardTopic(k, r)
    PROVE  Left
<1> DEFINE d == DictOf(ac, r.pattern)
           t == r.topic
           v == dictFind(d, t)
           n == IF r.op = "subscribe" THEN [v EXCEPT !.pending = @ - 1] ELSE v
           e == CASE r.op = "subscribe" -> dictSetVal(d, t, n)
                  [] r.op = "unsubscribe" /\ v.pending = 0 -> dictDelete(d, t)
                  [] OTHER -> d
           a == WithDict(ac, r.pattern, e)
           last == r.op = "unsubscribe" /\ r.count = 0 /\ a.channels.used = 0 /\ a.patterns.used = 0
<1>1. t \in DOMAIN Hash /\ r.pattern \in BOOLEAN /\ d \in Table /\ dictHas(d, t)
  BY NoticeTyped, NowTyped, AsyncFieldsTyped
<1>2. Sound(d, Callbacks)
  BY <1>1 DEF Table
<1>3. v \in Callbacks
  <2> HIDE DEF d, t
  <2> QED BY <1>1, <1>2, ValueTyped
<1>4. n \in Callbacks
  <2> HIDE DEF v
  <2> QED BY <1>3 DEF Callbacks
<1>5. Sound(dictSetVal(d, t, n), Callbacks) /\ Sound(dictDelete(d, t), Callbacks)
  <2> HIDE DEF d, t, n
  <2> QED BY <1>1, <1>2, <1>4, SetLaw, DeleteLaw
<1>6. e \in Table
  <2>1. \A x : Sound(x, Callbacks) => x \in Table
    BY DEF Table, Sound
  <2> HIDE DEF d, t, n, v
  <2> QED BY <1>1, <1>5, <2>1
<1>7. a \in AsyncContexts
  <2> HIDE DEF e
  <2> QED BY <1>1, <1>6, NowTyped, AsyncFieldsTyped
<1>8. Unset(k, "SUBSCRIBED") \in Contexts(issued)
  BY ErrorTyped, FlagsKnown
<1>9. Run(IF last THEN Unset(k, "SUBSCRIBED") ELSE k, a, n, r) /\ UNCHANGED faults
  BY DEF HeardTopic
<1> HIDE DEF d, t, v, n, e, a, last
<1> QED BY <1>4, <1>7, <1>8, <1>9, RunTyped, NowTyped

LEMMA SubscribeCallbackTyped ==
    ASSUME Typed, pc \in InLoop, NEW k \in Contexts(issued), NEW r \in AnyMessage,
           GetSubscribeCallback(k, r)
    PROVE  Left
<1>1. frame.cb \in Callbacks /\ ac \in AsyncContexts /\ faults \subseteq Faults
  BY NowTyped DEF Frames
<1>2. CASE UNCHANGED <<c, ac>> /\ Crash("topic")
  <2>1. "topic" \in Faults
    BY DEF Faults
  <2> QED BY <1>2, <2>1, NowTyped, CrashTyped
<1>3. CASE /\ r.op \in {"subscribe", "unsubscribe", "message"} /\ r.topic # "nil"
           /\ dictHas(DictOf(ac, r.pattern), r.topic) /\ HeardTopic(k, r)
  BY <1>3, HeardTopicTyped
<1>4. CASE /\ Run(k, ac, frame.cb, r)
           /\ faults' = IF frame.cb.fn THEN faults \cup {"stale"} ELSE faults
  <2>1. faults' \subseteq Faults
    BY <1>1, <1>4 DEF Faults
  <2> QED BY <1>1, <1>4, <2>1, RunTyped
<1>5. CASE Run(k, ac, frame.cb, r) /\ UNCHANGED faults
  BY <1>1, <1>5, RunTyped
<1>6. CASE ac.invalid # <<>> /\ Run(k, [ac EXCEPT !.invalid = Tail(@)], Head(ac.invalid), r) /\ UNCHANGED faults
  <2>1. Tail(ac.invalid) \in Seq(Callbacks) /\ Head(ac.invalid) \in Callbacks
    BY <1>1, <1>6, HeadTailProperties DEF AsyncContexts
  <2>2. [ac EXCEPT !.invalid = Tail(@)] \in AsyncContexts
    BY <1>1, <2>1 DEF AsyncContexts
  <2> QED BY <1>1, <1>6, <2>1, <2>2, RunTyped
<1> QED BY <1>2, <1>3, <1>4, <1>5, <1>6 DEF GetSubscribeCallback

LEMMA DispatchTyped ==
    ASSUME Typed, pc \in InLoop, NEW k \in Contexts(issued), NEW r \in AnyMessage, Dispatch(k, r)
    PROVE  Left
<1>1. frame.cb \in Callbacks /\ ac \in AsyncContexts /\ faults \subseteq Faults
  BY NowTyped DEF Frames
<1>2. CASE /\ ac.replies # <<>>
           /\ Run(k, [ac EXCEPT !.replies = Tail(@)], Head(ac.replies), r)
           /\ faults' = faults \cup Confusion(Head(ac.replies), r)
  <2>1. Tail(ac.replies) \in Seq(Callbacks) /\ Head(ac.replies) \in Callbacks
    BY <1>1, <1>2, HeadTailProperties DEF AsyncContexts
  <2>2. [ac EXCEPT !.replies = Tail(@)] \in AsyncContexts
    BY <1>1, <2>1 DEF AsyncContexts
  <2>3. faults' \subseteq Faults
    BY <1>1, <1>2 DEF Confusion, Faults
  <2> QED BY <1>2, <2>1, <2>2, <2>3, RunTyped
<1>3. CASE Disconnect(SetError(k, "other"), ac)
  BY <1>1, <1>3, ErrorTyped, DisconnectTyped
<1>4. CASE GetSubscribeCallback(k, r)
  BY <1>4, SubscribeCallbackTyped
<1>5. CASE Run(k, ac, frame.cb, r) /\ UNCHANGED faults
  BY <1>1, <1>5, RunTyped
<1>6. CASE UNCHANGED <<c, ac>> /\ Crash("mode")
  <2>1. "mode" \in Faults
    BY DEF Faults
  <2> QED BY <1>6, <2>1, NowTyped, CrashTyped
<1>7. \/ r.op = "error" \/ (r.op # "error" /\ Has(k, "SUBSCRIBED"))
      \/ (r.op # "error" /\ ~Has(k, "SUBSCRIBED") /\ Has(k, "MONITORING"))
      \/ (r.op # "error" /\ ~Has(k, "SUBSCRIBED") /\ ~Has(k, "MONITORING"))
  OBVIOUS
<1> QED BY <1>2, <1>3, <1>4, <1>5, <1>6, <1>7 DEF Dispatch

LEMMA CallbacksTyped ==
    ASSUME Typed, Begun, ProcessCallbacks \/ CallbackReturns
    PROVE  Typed' /\ Begun'
<1>1. pc \in InLoop /\ Quiet
  BY DEF ProcessCallbacks, CallbackReturns, InLoop
<1>2. SUFFICES Left
  BY <1>1, LeftTyped
<1>3. c \in Contexts(issued) /\ ac \in AsyncContexts /\ frame \in Frames
  BY NowTyped
<1>4. Unset(c, "IN_CALLBACK") \in Contexts(issued)
  BY <1>3, ErrorTyped, FlagsKnown
<1>5. CASE CallbackReturns
  <2>1. CASE StartFree(Unset(c, "IN_CALLBACK"), ac)
    BY <1>3, <1>4, <2>1, StartFreeTyped
  <2>2. CASE /\ c' = Unset(c, "IN_CALLBACK") /\ pc' = "process"
             /\ frame' = [frame EXCEPT !.reply = NoFrame.reply]
             /\ Still /\ UNCHANGED <<ac, calls, faults>>
    <3>1. frame' \in Frames
      BY <1>3, <2>2 DEF Frames
    <3> QED BY <1>4, <2>2, <3>1, NowTyped DEF Left, Still, InLoop
  <2> QED BY <1>5, <2>1, <2>2 DEF CallbackReturns
<1>6. CASE ProcessCallbacks
  <2>1. CASE c.rerr # "ok" /\ Disconnect(SetError(c, c.rerr), ac)
    <3>1. c.rerr \in {"protocol", "oom"}
      BY <1>3, <2>1 DEF Contexts
    <3> QED BY <1>3, <2>1, <3>1, ErrorTyped, DisconnectTyped
  <2>2. CASE NoReply
    <3>1. CASE Disconnect(c, ac)
      BY <1>3, <3>1, DisconnectTyped
    <3>2. CASE /\ ac' \in {[ac EXCEPT !.replies = Append(@, frame.cb)], ac}
               /\ pc' = "loop" /\ frame' = NoFrame
               /\ Still /\ UNCHANGED <<c, calls, faults>>
      <4>1. Append(ac.replies, frame.cb) \in Seq(Callbacks)
        BY <1>3, AppendProperties DEF AsyncContexts, Frames
      <4>2. ac' \in AsyncContexts
        BY <1>3, <3>2, <4>1 DEF AsyncContexts
      <4> QED BY <3>2, <4>2, NowTyped, NoneTyped DEF Left, Still, InLoop
    <3> QED BY <2>2, <3>1, <3>2 DEF NoReply
  <2>3. CASE Disconnect(SetError([c EXCEPT !.rerr = "protocol"], "protocol"), ac)
    <3> DEFINE j == [c EXCEPT !.rerr = "protocol"]
    <3>1. j \in Contexts(issued)
      BY <1>3 DEF Contexts
    <3>2. SetError(j, "protocol") \in Contexts(issued)
      <4> HIDE DEF j
      <4> QED BY <3>1, ErrorTyped
    <3> QED BY <1>3, <2>3, <3>2, DisconnectTyped
  <2>4. CASE Whole(c.inbuf) /\ Dispatch([c EXCEPT !.inbuf = Behind(@)], First(c.inbuf))
    <3>1. c.inbuf \in Seq(PieceOf(AnyMessage))
      BY <1>3 DEF Contexts
    <3>2. First(c.inbuf) \in AnyMessage /\ Behind(c.inbuf) \in Seq(PieceOf(AnyMessage))
      BY <2>4, <3>1, BehindTyped
    <3>3. [c EXCEPT !.inbuf = Behind(@)] \in Contexts(issued)
      BY <1>3, <3>2 DEF Contexts
    <3> QED BY <1>1, <2>4, <3>2, <3>3, DispatchTyped
  <2> QED BY <1>6, <2>1, <2>2, <2>3, <2>4 DEF ProcessCallbacks
<1> QED BY <1>5, <1>6

\* The values of a dictionary, in the order in which a free meets them.
LEMMA ValuesTyped ==
    ASSUME NEW d \in Table
    PROVE  Values(d) \in Seq(Callbacks)
<1>1. dictNext(d) \in Seq(Entry(Callbacks))
  BY Iterated DEF Table
<1>2. DOMAIN dictNext(d) = 1..Len(dictNext(d)) /\ Len(dictNext(d)) \in Nat
  BY <1>1, LenProperties
<1>3. \A i \in 1..Len(dictNext(d)) : dictNext(d)[i].val \in Callbacks
  <2>1. \A i \in 1..Len(dictNext(d)) : dictNext(d)[i] \in Entry(Callbacks)
    BY <1>1, ElementOfSeq
  <2> QED BY <2>1 DEF Entry
<1> QED BY <1>2, <1>3 DEF Values

LEMMA FreesTyped ==
    ASSUME Typed, Begun, FreeNext \/ FreeCallbackReturns
    PROVE  Typed' /\ Begun'
<1>1. pc \in InLoop /\ Quiet /\ Still /\ UNCHANGED faults
  BY DEF FreeNext, FreeCallbackReturns, InLoop
<1>2. SUFFICES Left
  BY <1>1, LeftTyped
<1>3. c \in Contexts(issued) /\ ac \in AsyncContexts /\ frame \in Frames
  BY NowTyped
<1>4. Unset(c, "IN_CALLBACK") \in Contexts(issued) /\ Set(c, "IN_CALLBACK") \in Contexts(issued)
  BY <1>3, ErrorTyped, FlagsKnown
<1>5. ASSUME NEW cb \in Callbacks, NEW a \in AsyncContexts, NEW f \in Frames, RunNull(cb, a, f) PROVE Left
  <2>1. calls' \in Seq(Nat) /\ Len(calls') = Len(calls) /\ c' \in Contexts(issued) /\ pc' \in InLoop
    BY <1>1, <1>4, <1>5, CountTyped, NowTyped DEF RunNull, InLoop
  <2> QED BY <1>1, <1>5, <2>1, NowTyped DEF RunNull, Left, Still
<1>6. ASSUME NEW f \in Frames, NextPhase(f) PROVE Left
  BY <1>1, <1>6, NowTyped DEF NextPhase, Left, Still
<1>7. ASSUME NEW s \in Seq(Callbacks), s # <<>>
      PROVE  Head(s) \in Callbacks /\ Tail(s) \in Seq(Callbacks)
  BY <1>7, HeadTailProperties
<1>8. CASE FreeCallbackReturns
  BY <1>1, <1>4, <1>8, NowTyped DEF FreeCallbackReturns, Left, Still, InLoop
<1>9. CASE FreeNext
  <2>1. CASE frame.phase = "replies" /\ ac.replies # <<>>
             /\ RunNull(Head(ac.replies), [ac EXCEPT !.replies = Tail(@)], frame)
    <3>1. Head(ac.replies) \in Callbacks /\ [ac EXCEPT !.replies = Tail(@)] \in AsyncContexts
      BY <1>3, <1>7, <2>1 DEF AsyncContexts
    <3> QED BY <1>3, <1>5, <2>1, <3>1
  <2>2. CASE NextPhase([frame EXCEPT !.phase = "invalid"])
    <3>1. [frame EXCEPT !.phase = "invalid"] \in Frames
      BY <1>3 DEF Frames
    <3> QED BY <1>6, <2>2, <3>1
  <2>3. CASE frame.phase = "invalid" /\ ac.invalid # <<>>
             /\ RunNull(Head(ac.invalid), [ac EXCEPT !.invalid = Tail(@)], frame)
    <3>1. Head(ac.invalid) \in Callbacks /\ [ac EXCEPT !.invalid = Tail(@)] \in AsyncContexts
      BY <1>3, <1>7, <2>3 DEF AsyncContexts
    <3> QED BY <1>3, <1>5, <2>3, <3>1
  <2>4. CASE NextPhase([frame EXCEPT !.phase = "topics",
                                     !.todo = Values(ac.channels) \o Values(ac.patterns)])
    <3>1. Values(ac.channels) \in Seq(Callbacks) /\ Values(ac.patterns) \in Seq(Callbacks)
      BY <1>3, ValuesTyped DEF AsyncContexts
    <3>2. Values(ac.channels) \o Values(ac.patterns) \in Seq(Callbacks)
      BY <3>1, ConcatProperties
    <3>3. [frame EXCEPT !.phase = "topics",
                        !.todo = Values(ac.channels) \o Values(ac.patterns)] \in Frames
      BY <1>3, <3>2 DEF Frames
    <3> QED BY <1>6, <2>4, <3>3
  <2>5. CASE frame.todo # <<>> /\ RunNull(Head(frame.todo), ac, [frame EXCEPT !.todo = Tail(@)])
    <3>1. Head(frame.todo) \in Callbacks /\ [frame EXCEPT !.todo = Tail(@)] \in Frames
      BY <1>3, <1>7, <2>5 DEF Frames
    <3> QED BY <1>3, <1>5, <2>5, <3>1
  <2> QED BY <1>9, <2>1, <2>2, <2>3, <2>4, <2>5 DEF FreeNext
<1> QED BY <1>8, <1>9

LEMMA FreeEndsTyped ==
    ASSUME Typed, Begun, FreeEnds
    PROVE  Typed' /\ Begun'
<1>1. pc = "free" /\ pc' \in {"gone", "crashed"}
  BY DEF FreeEnds
<1>2. UNCHANGED <<try, issued, waiting, ret, reconnects, cmds, calls, peer, up, down, server>>
  BY DEF FreeEnds, Still
<1>3. c' \in Contexts(issued) /\ fds' \in Tables
  BY InitTyped, DescriptorsTyped, NowTyped DEF FreeEnds, Typed, Calling
<1>4. Calling'
  BY <1>2, <1>3 DEF Typed, Calling
<1>5. ac' \in AsyncContexts /\ frame' \in Frames /\ faults' \subseteq Faults
  BY NoneTyped, NowTyped DEF FreeEnds, Faults
<1>6. Answering'
  BY <1>2, <1>5 DEF Typed, Answering
<1>7. Counted' /\ Begun'
  BY <1>1, <1>2 DEF Typed, Counted, Begun, Outside, InLoop
<1> QED BY <1>4, <1>6, <1>7 DEF Typed

(***************************************************************************)
(* The commands and the server                                             *)
(***************************************************************************)
\* What the topics of a SUBSCRIBE are folded into, and one turn of the fold.
Pending == [d : Table, n : Int]
Joins(cb) ==
    [q \in Pending \X DOMAIN Hash |->
        LET n == IF dictHas(q[1].d, q[2]) THEN dictFind(q[1].d, q[2]).pending + 1 ELSE q[1].n
        IN  [d |-> dictReplace(q[1].d, q[2], [cb EXCEPT !.pending = n]), n |-> n]]

LEMMA JoinsTyped ==
    ASSUME NEW cb \in Callbacks
    PROVE  Joins(cb) \in [Pending \X DOMAIN Hash -> Pending]
<1> DEFINE n(a, t) == IF dictHas(a.d, t) THEN dictFind(a.d, t).pending + 1 ELSE a.n
           v(a, t) == [cb EXCEPT !.pending = n(a, t)]
<1>1. ASSUME NEW a \in Pending, NEW t \in DOMAIN Hash
      PROVE  [d |-> dictReplace(a.d, t, v(a, t)), n |-> n(a, t)] \in Pending
  <2>1. Sound(a.d, Callbacks) /\ a.n \in Int
    BY DEF Pending, Table
  <2>2. dictHas(a.d, t) => dictFind(a.d, t) \in Callbacks
    BY <2>1, ValueTyped
  <2>3. n(a, t) \in Int
    BY <2>1, <2>2 DEF Callbacks
  <2>4. v(a, t) \in Callbacks
    <3> HIDE DEF n
    <3> QED BY <2>3 DEF Callbacks
  <2> HIDE DEF n, v
  <2>5. Sound(dictReplace(a.d, t, v(a, t)), Callbacks)
    BY <2>1, <2>4, ReplaceLaw
  <2>6. dictReplace(a.d, t, v(a, t)) \in Table
    BY <2>5 DEF Table, Sound
  <2> QED BY <2>3, <2>6 DEF Pending
<1>2. Joins(cb) = [q \in Pending \X DOMAIN Hash |->
                     [d |-> dictReplace(q[1].d, q[2], v(q[1], q[2])), n |-> n(q[1], q[2])]]
  BY DEF Joins
<1>3. ASSUME NEW q \in Pending \X DOMAIN Hash
      PROVE  [d |-> dictReplace(q[1].d, q[2], v(q[1], q[2])), n |-> n(q[1], q[2])] \in Pending
  <2>1. q[1] \in Pending /\ q[2] \in DOMAIN Hash
    OBVIOUS
  <2> HIDE DEF n, v
  <2> QED BY <1>1, <2>1
<1> HIDE DEF n, v
<1> QED BY <1>2, <1>3

\* Every topic of a SUBSCRIBE, one after the other.
LEMMA SubscribedIs ==
    ASSUME NEW d \in Table, NEW topics \in Seq(DOMAIN Hash), NEW cb \in Callbacks
    PROVE  \E f \in [SUBSET (1..Len(topics)) -> Pending] :
             /\ Folds(f, Joins(cb), [d |-> d, n |-> cb.pending], topics, Len(topics))
             /\ Subscribed(d, topics, cb) = f[1..Len(topics)].d
<1> DEFINE base == [d |-> d, n |-> cb.pending]
           m == Len(topics)
           Is(g) == g = [s \in SUBSET (DOMAIN topics) |->
                      IF s = {} THEN base
                      ELSE LET x == Max(s)
                               acc == g[s \ {x}]
                               n == IF dictHas(acc.d, topics[x])
                                    THEN dictFind(acc.d, topics[x]).pending + 1 ELSE acc.n
                           IN  [d |-> dictReplace(acc.d, topics[x], [cb EXCEPT !.pending = n]), n |-> n]]
           h == CHOOSE g : Is(g)
<1>1. base \in Pending
  BY DEF Pending, Callbacks
<1>2. PICK f \in [SUBSET (1..m) -> Pending] : Folds(f, Joins(cb), base, topics, m)
  <2> HIDE DEF base
  <2> QED BY <1>1, JoinsTyped, FoldsExist
<1>3. DOMAIN topics = 1..m /\ m \in Nat /\ \A i \in 1..m : topics[i] \in DOMAIN Hash
  BY LenProperties, ElementOfSeq
<1> DEFINE turn(acc, t) ==
             LET n == IF dictHas(acc.d, t) THEN dictFind(acc.d, t).pending + 1 ELSE acc.n
             IN  [d |-> dictReplace(acc.d, t, [cb EXCEPT !.pending = n]), n |-> n]
<1>4. \A a \in Pending, t \in DOMAIN Hash : Joins(cb)[<<a, t>>] = turn(a, t)
  BY DEF Joins
<1>5. ASSUME NEW s \in SUBSET (1..m)
      PROVE  f[s] = IF s = {} THEN base ELSE turn(f[s \ {Max(s)}], topics[Max(s)])
  <2>1. CASE s = {}
    BY <1>2, <2>1 DEF Folds
  <2>2. CASE s # {}
    <3>1. Max(s) \in 1..m /\ s \ {Max(s)} \in SUBSET (1..m)
      BY <1>3, <2>2, MaxWithin
    <3>2. f[s \ {Max(s)}] \in Pending /\ topics[Max(s)] \in DOMAIN Hash
      BY <1>2, <1>3, <3>1
    <3>3. f[s] = Joins(cb)[<<f[s \ {Max(s)}], topics[Max(s)]>>]
      BY <1>2, <2>2, ZenonT(60) DEF Folds
    <3> HIDE DEF turn, base
    <3> QED BY <1>4, <2>2, <3>2, <3>3
  <2> QED BY <2>1, <2>2
<1>6. Is(f)
  <2>1. f = [s \in SUBSET (1..m) |-> IF s = {} THEN base ELSE turn(f[s \ {Max(s)}], topics[Max(s)])]
    <3> HIDE DEF turn, base
    <3> QED BY <1>2, <1>5
  <2> QED BY <1>3, <2>1
<1>7. Is(h)
  <2> HIDE DEF Is
  <2> QED BY <1>6
<1>8. Subscribed(d, topics, cb) = h[DOMAIN topics].d
  BY DEF Subscribed, FoldLeft, MapThenFoldSet
<1>9. h[1..m] = f[1..m]
  <2> DEFINE N == {i \in Nat : i <= m => h[1..i] = f[1..i]}
  <2>1. \A s \in SUBSET (1..m) :
          h[s] = IF s = {} THEN base ELSE turn(h[s \ {Max(s)}], topics[Max(s)])
    <3>1. h = [s \in SUBSET (1..m) |-> IF s = {} THEN base ELSE turn(h[s \ {Max(s)}], topics[Max(s)])]
      <4> HIDE DEF h
      <4> QED BY <1>3, <1>7
    <3> HIDE DEF h, turn, base
    <3> QED BY <3>1
  <2> HIDE DEF h, turn, base
  <2>2. 0 \in N
    <3>1. 1..0 = {} /\ 1..0 \in SUBSET (1..m)
      OBVIOUS
    <3> QED BY <1>5, <2>1, <3>1
  <2>3. ASSUME NEW i \in Nat, i \in N PROVE i + 1 \in N
    <3> SUFFICES ASSUME i + 1 <= m PROVE h[1..i + 1] = f[1..i + 1]
      OBVIOUS
    <3>1. i \in 0..m - 1
      BY <1>3
    <3>2. /\ 1..i + 1 \in SUBSET (1..m) /\ 1..i + 1 # {} /\ Max(1..i + 1) = i + 1
          /\ (1..i + 1) \ {Max(1..i + 1)} = 1..i
      BY <1>3, <3>1, FoldTop
    <3>3. h[1..i] = f[1..i]
      BY <1>3, <2>3, <3>1
    <3>4. h[1..i + 1] = turn(h[1..i], topics[i + 1]) /\ f[1..i + 1] = turn(f[1..i], topics[i + 1])
      BY <1>5, <2>1, <3>2
    <3> QED BY <3>3, <3>4
  <2> HIDE DEF N
  <2>4. m \in N
    BY <1>3, <2>2, <2>3, NatSetInduction
  <2> QED BY <2>4, <1>3 DEF N
<1>10. Subscribed(d, topics, cb) = f[1..m].d
  <2> HIDE DEF h
  <2> QED BY <1>3, <1>8, <1>9
<1> QED BY <1>2, <1>10

LEMMA SubscribedTyped ==
    ASSUME NEW d \in Table, NEW topics \in Seq(DOMAIN Hash), NEW cb \in Callbacks
    PROVE  Subscribed(d, topics, cb) \in Table
<1>1. PICK f \in [SUBSET (1..Len(topics)) -> Pending] : Subscribed(d, topics, cb) = f[1..Len(topics)].d
  BY SubscribedIs
<1>2. f[1..Len(topics)] \in Pending
  OBVIOUS
<1> QED BY <1>1, <1>2 DEF Pending

\* A finite set as a sequence.
LEMMA SetToSeqIs ==
    ASSUME NEW S, IsFiniteSet(S)
    PROVE  /\ SetToSeq(S) \in Seq(S) /\ Len(SetToSeq(S)) = Cardinality(S)
           /\ \A x \in S : \E i \in 1..Len(SetToSeq(S)) : SetToSeq(S)[i] = x
<1> DEFINE n == Cardinality(S)
           Is(f) == f \in [1..n -> S] /\ IsInjective(f)
           s == CHOOSE f \in [1..n -> S] : IsInjective(f)
<1>1. n \in Nat /\ ExistsBijection(1..n, S)
  BY FS_CardinalityType
<1>2. \E f \in [1..n -> S] : IsInjective(f)
  BY <1>1 DEF ExistsBijection, Bijection, Injection
<1>3. s \in [1..n -> S] /\ IsInjective(s)
  <2> HIDE DEF n
  <2> QED BY <1>2
<1>4. SetToSeq(S) = s
  BY DEF SetToSeq
<1> HIDE DEF s
<1>5. s \in Seq(S) /\ Len(s) = n
  <2> HIDE DEF n
  <2> QED BY <1>1, <1>3
<1>6. s \in Injection(1..n, S)
  BY <1>3 DEF Injection
<1>7. Cardinality(1..n) = n
  <2> HIDE DEF n
  <2> QED BY <1>1, FS_Interval
<1>8. s \in Surjection(1..n, S)
  <2>1. Cardinality(1..n) = Cardinality(S)
    BY <1>7
  <2> HIDE DEF n
  <2> QED BY <1>6, <2>1, FS_Injection
<1>9. \A x \in S : \E i \in 1..n : s[i] = x
  BY <1>8 DEF Surjection
<1> QED BY <1>4, <1>5, <1>9

LEMMA TopicsTyped ==
    ASSUME Typed, NEW m \in CommandType
    PROVE  Topics(m) \in Seq(DOMAIN Hash)
<1> DEFINE S == {t \in DOMAIN Hash : <<m.pattern, t>> \in server.subs}
           f == [t \in S |-> <<m.pattern, t>>]
<1>1. IsFiniteSet(server.subs)
  BY NowTyped DEF Servers
<1>2. f \in Injection(S, server.subs)
  BY DEF Injection, IsInjective
<1>3. IsFiniteSet(S)
  <2> HIDE DEF f, S
  <2> QED BY <1>1, <1>2, FS_Injection
<1>4. SetToSeq(S) \in Seq(S)
  <2> HIDE DEF S
  <2> QED BY <1>3, SetToSeqIs
<1>5. SetToSeq(S) \in Seq(DOMAIN Hash)
  <2>1. S \subseteq DOMAIN Hash
    OBVIOUS
  <2> HIDE DEF S
  <2> QED BY <1>4, <2>1, SeqMonotonic
<1>6. m.topics \in Seq(DOMAIN Hash)
  BY DEF CommandType
<1> QED BY <1>5, <1>6 DEF Topics

\* What the topics of a command are folded into at the server, and one turn.
Known ==
    {a \in [subs : SUBSET (BOOLEAN \X DOMAIN Hash), out : Seq(PieceOf(AnyMessage))] :
        IsFiniteSet(a.subs)}
Told(m, k, t, s) == Pieces(Notice(m.op, k, t, m.pattern, Cardinality(s)))
Confirms(m, k) ==
    [q \in Known \X DOMAIN Hash |->
        [subs |-> Changed(q[1].subs, m, q[2]),
         out  |-> q[1].out \o Told(m, k, q[2], Changed(q[1].subs, m, q[2]))]]

LEMMA ChangedTyped ==
    ASSUME NEW m \in CommandType, NEW s \in SUBSET (BOOLEAN \X DOMAIN Hash), IsFiniteSet(s),
           NEW t \in DOMAIN Hash
    PROVE  Changed(s, m, t) \in SUBSET (BOOLEAN \X DOMAIN Hash) /\ IsFiniteSet(Changed(s, m, t))
<1>1. m.pattern \in BOOLEAN
  BY DEF CommandType
<1>2. IsFiniteSet(s \cup {<<m.pattern, t>>}) /\ IsFiniteSet(s \ {<<m.pattern, t>>})
  BY FS_AddElement, FS_RemoveElement
<1> QED BY <1>1, <1>2 DEF Changed

LEMMA ConfirmsTyped ==
    ASSUME NEW m \in CommandType, m.op \in {"subscribe", "unsubscribe"}, NEW k \in Nat
    PROVE  Confirms(m, k) \in [Known \X DOMAIN Hash -> Known]
<1>1. ASSUME NEW a \in Known, NEW t \in DOMAIN Hash
      PROVE  [subs |-> Changed(a.subs, m, t), out |-> a.out \o Told(m, k, t, Changed(a.subs, m, t))] \in Known
  <2> DEFINE s == Changed(a.subs, m, t)
  <2>1. s \in SUBSET (BOOLEAN \X DOMAIN Hash) /\ IsFiniteSet(s)
    BY ChangedTyped DEF Known
  <2> HIDE DEF s
  <2>2. Cardinality(s) \in Nat
    BY <2>1, FS_CardinalityType
  <2>3. Notice(m.op, k, t, m.pattern, Cardinality(s)) \in AnyMessage
    BY <2>2 DEF Notice, AnyMessage, Kinds, CommandType
  <2>4. Told(m, k, t, s) \in Seq(PieceOf(AnyMessage))
    BY <2>3, PiecesTyped DEF Told
  <2>5. a.out \o Told(m, k, t, s) \in Seq(PieceOf(AnyMessage))
    BY <2>4, ConcatProperties DEF Known
  <2>6. [subs |-> s, out |-> a.out \o Told(m, k, t, s)] \in Known
    BY <2>1, <2>5 DEF Known
  <2> QED BY <2>6 DEF s
<1> QED BY <1>1 DEF Confirms

\* Every topic of a SUBSCRIBE or an UNSUBSCRIBE, one after the other.
LEMMA ConfirmIs ==
    ASSUME Typed, NEW m \in CommandType, m.op \in {"subscribe", "unsubscribe"}, NEW k \in Nat
    PROVE  \E f \in [SUBSET (1..Len(Topics(m))) -> Known] :
             /\ Folds(f, Confirms(m, k), [subs |-> server.subs, out |-> <<>>], Topics(m), Len(Topics(m)))
             /\ Confirm(m, k) = f[1..Len(Topics(m))]
<1> DEFINE base == [subs |-> server.subs, out |-> <<>>]
           topics == Topics(m)
           n == Len(topics)
           Is(g) == g = [s \in SUBSET (DOMAIN topics) |->
                      IF s = {} THEN base
                      ELSE LET x == Max(s)
                               acc == g[s \ {x}]
                               t == Changed(acc.subs, m, topics[x])
                           IN  [subs |-> t,
                                out |-> acc.out \o Pieces(Notice(m.op, k, topics[x], m.pattern, Cardinality(t)))]]
           h == CHOOSE g : Is(g)
<1>1. base \in Known
  BY NowTyped DEF Known, Servers
<1>2. topics \in Seq(DOMAIN Hash)
  BY TopicsTyped
<1>3. PICK f \in [SUBSET (1..n) -> Known] : Folds(f, Confirms(m, k), base, topics, n)
  <2> HIDE DEF base, topics
  <2> QED BY <1>1, <1>2, ConfirmsTyped, FoldsExist
<1>4. DOMAIN topics = 1..n /\ n \in Nat /\ \A i \in 1..n : topics[i] \in DOMAIN Hash
  <2> HIDE DEF topics
  <2> QED BY <1>2, LenProperties, ElementOfSeq
<1> DEFINE turn(acc, t) ==
             LET s == Changed(acc.subs, m, t)
             IN  [subs |-> s, out |-> acc.out \o Pieces(Notice(m.op, k, t, m.pattern, Cardinality(s)))]
<1>5. \A a \in Known, t \in DOMAIN Hash : Confirms(m, k)[<<a, t>>] = turn(a, t)
  BY DEF Confirms, Told
<1>6. ASSUME NEW s \in SUBSET (1..n)
      PROVE  f[s] = IF s = {} THEN base ELSE turn(f[s \ {Max(s)}], topics[Max(s)])
  <2>1. CASE s = {}
    BY <1>3, <2>1 DEF Folds
  <2>2. CASE s # {}
    <3>1. Max(s) \in 1..n /\ s \ {Max(s)} \in SUBSET (1..n)
      BY <1>4, <2>2, MaxWithin
    <3>2. f[s \ {Max(s)}] \in Known /\ topics[Max(s)] \in DOMAIN Hash
      BY <1>3, <1>4, <3>1
    <3>3. f[s] = Confirms(m, k)[<<f[s \ {Max(s)}], topics[Max(s)]>>]
      BY <1>3, <2>2, ZenonT(60) DEF Folds
    <3> HIDE DEF turn, base, topics
    <3> QED BY <1>5, <2>2, <3>2, <3>3
  <2> QED BY <2>1, <2>2
<1>7. Is(f)
  <2>1. f = [s \in SUBSET (1..n) |-> IF s = {} THEN base ELSE turn(f[s \ {Max(s)}], topics[Max(s)])]
    <3> HIDE DEF turn, base, topics
    <3> QED BY <1>3, <1>6
  <2>2. DOMAIN topics = 1..n
    BY <1>4
  <2> HIDE DEF topics, base
  <2> QED BY <2>1, <2>2
<1>8. Is(h)
  <2> HIDE DEF Is
  <2> QED BY <1>7
<1>9. Confirm(m, k) = h[DOMAIN topics]
  BY DEF Confirm, FoldLeft, MapThenFoldSet
<1>10. h[1..n] = f[1..n]
  <2> DEFINE N == {i \in Nat : i <= n => h[1..i] = f[1..i]}
  <2>1. \A s \in SUBSET (1..n) :
          h[s] = IF s = {} THEN base ELSE turn(h[s \ {Max(s)}], topics[Max(s)])
    <3>1. h = [s \in SUBSET (1..n) |-> IF s = {} THEN base ELSE turn(h[s \ {Max(s)}], topics[Max(s)])]
      <4>1. DOMAIN topics = 1..n
        BY <1>4
      <4> HIDE DEF h, topics, base
      <4> QED BY <1>8, <4>1
    <3> HIDE DEF h, turn, base, topics
    <3> QED BY <3>1
  <2> HIDE DEF h, turn, base, topics
  <2>2. 0 \in N
    <3>1. 1..0 = {} /\ 1..0 \in SUBSET (1..n)
      OBVIOUS
    <3> QED BY <1>6, <2>1, <3>1
  <2>3. ASSUME NEW i \in Nat, i \in N PROVE i + 1 \in N
    <3> SUFFICES ASSUME i + 1 <= n PROVE h[1..i + 1] = f[1..i + 1]
      OBVIOUS
    <3>1. i \in 0..n - 1
      BY <1>4
    <3>2. /\ 1..i + 1 \in SUBSET (1..n) /\ 1..i + 1 # {} /\ Max(1..i + 1) = i + 1
          /\ (1..i + 1) \ {Max(1..i + 1)} = 1..i
      BY <1>4, <3>1, FoldTop
    <3>3. h[1..i] = f[1..i]
      BY <1>4, <2>3, <3>1
    <3>4. h[1..i + 1] = turn(h[1..i], topics[i + 1]) /\ f[1..i + 1] = turn(f[1..i], topics[i + 1])
      BY <1>6, <2>1, <3>2
    <3> QED BY <3>3, <3>4
  <2> HIDE DEF N
  <2>4. n \in N
    BY <1>4, <2>2, <2>3, NatSetInduction
  <2> QED BY <2>4, <1>4 DEF N
<1>11. Confirm(m, k) = f[1..n]
  <2> HIDE DEF h, topics
  <2> QED BY <1>4, <1>9, <1>10
<1> QED BY <1>3, <1>11

LEMMA ConfirmTyped ==
    ASSUME Typed, NEW m \in CommandType, m.op \in {"subscribe", "unsubscribe"}, NEW k \in Nat
    PROVE  Confirm(m, k) \in Known
<1>1. PICK f \in [SUBSET (1..Len(Topics(m))) -> Known] : Confirm(m, k) = f[1..Len(Topics(m))]
  BY ConfirmIs
<1> QED BY <1>1

\* The server answers a command, publishes a message, or accepts a connection.
LEMMA AsyncServeTyped ==
    ASSUME Typed, Begun, Control, AsyncServe
    PROVE  Typed' /\ Begun'
<1> DEFINE k == First(up)
           m == cmds[k]
<1>1. /\ fds \in Tables /\ peer \in {"none", "pending", "refused", "up", "closed"}
      /\ up \in Seq(Numbered(issued)) /\ down \in Seq(PieceOf(AnyMessage)) /\ server \in Servers
      /\ issued \in Nat /\ cmds \in Seq(CommandType)
  BY DEF Typed, Calling, Answering
<1>2. pc = "loop"
  BY DEF AsyncServe, Peer, Has, Control, Mode
<1>3. k \in 1..issued /\ up' \in Seq(Numbered(issued)) /\ Len(cmds) = issued
  BY <1>2, WholeTyped DEF AsyncServe, Typed, Counted, InLoop
<1>4. m \in CommandType /\ k \in Nat
  BY <1>1, <1>3, ElementOfSeq
<1> HIDE DEF k, m
<1>5. \A r \in AnyMessage : down \o Pieces(r) \in Seq(PieceOf(AnyMessage))
  BY DownTyped
<1>6. server' \in Servers /\ down' \in Seq(PieceOf(AnyMessage))
  <2>1. CASE m.op \in {"subscribe", "unsubscribe"} /\ Topics(m) # <<>>
    <3>1. Confirm(m, k) \in Known
      BY <1>4, <2>1, ConfirmTyped
    <3>2. server' = [server EXCEPT !.subs = Confirm(m, k).subs] /\ down' = down \o Confirm(m, k).out
      BY <2>1 DEF AsyncServe, k, m
    <3>3. server' \in Servers
      BY <1>1, <3>1, <3>2 DEF Servers, Known
    <3>4. down \o Confirm(m, k).out \in Seq(PieceOf(AnyMessage))
      <4>1. Confirm(m, k).out \in Seq(PieceOf(AnyMessage))
        BY <3>1 DEF Known
      <4> QED BY <1>1, <4>1, ConcatProperties
    <3> QED BY <3>2, <3>3, <3>4
  <2>2. CASE m.op = "unsubscribe" /\ Topics(m) = <<>>
    <3>1. Cardinality(server.subs) \in Nat
      BY <1>1, FS_CardinalityType DEF Servers
    <3>2. Notice("unsubscribe", k, "nil", m.pattern, Cardinality(server.subs)) \in AnyMessage
      BY <1>4, <3>1 DEF Notice, AnyMessage, Kinds, CommandType
    <3>3. /\ server' = server
          /\ down' = down \o Pieces(Notice("unsubscribe", k, "nil", m.pattern, Cardinality(server.subs)))
      BY <2>2 DEF AsyncServe, k, m
    <3> QED BY <1>1, <1>5, <3>2, <3>3
  <2>3. CASE m.op \in {"get", "monitor"}
    <3>1. Reply("error", k) \in AnyMessage /\ Reply("answer", k) \in AnyMessage
      BY <1>4 DEF Reply, AnyMessage
    <3>2. \/ server' = server /\ down' = down \o Pieces(Reply("error", k))
          \/ /\ server' = [server EXCEPT !.monitor = @ \/ m.op = "monitor"]
             /\ down' = down \o Pieces(Reply("answer", k))
      BY <2>3 DEF AsyncServe, k, m
    <3>3. [server EXCEPT !.monitor = @ \/ m.op = "monitor"] \in Servers
      BY <1>1 DEF Servers
    <3> QED BY <1>1, <1>5, <3>1, <3>2, <3>3
  <2>4. CASE m.op = "subscribe" /\ Topics(m) = <<>>
    BY <1>4, <2>4 DEF CommandType, Topics
  <2> QED BY <1>4, <2>1, <2>2, <2>3, <2>4 DEF CommandType
<1> QED BY <1>1, <1>2, <1>3, <1>6, OutsideTyped DEF AsyncServe, Outside

LEMMA PublishTyped ==
    ASSUME Typed, Begun, Publish
    PROVE  Typed' /\ Begun'
<1>1. /\ fds \in Tables /\ peer \in {"none", "pending", "refused", "up", "closed"}
      /\ up \in Seq(Numbered(issued)) /\ server \in Servers
  BY DEF Typed, Calling, Answering
<1>2. PICK r \in {Notice("message", 0, s[2], s[1], 0) : s \in server.subs} \cup
                 IF server.monitor THEN {Reply("line", 0)} ELSE {} :
        down' = down \o Pieces(r)
  BY DEF Publish
<1>3. r \in AnyMessage
  <2>1. CASE r = Reply("line", 0)
    BY <2>1 DEF Reply, AnyMessage
  <2>2. ASSUME NEW s \in server.subs, r = Notice("message", 0, s[2], s[1], 0)
        PROVE  r \in AnyMessage
    <3>1. s[1] \in BOOLEAN /\ s[2] \in DOMAIN Hash
      BY <1>1 DEF Servers
    <3> QED BY <2>2, <3>1 DEF Notice, AnyMessage, Kinds
  <2> QED BY <1>2, <2>1, <2>2
<1>4. down' \in Seq(PieceOf(AnyMessage))
  BY <1>2, <1>3, DownTyped
<1>5. server' \in Servers
  <2>1. server' = [server EXCEPT !.published = @ + 1]
    BY DEF Publish
  <2> QED BY <1>1, <2>1 DEF Servers
<1>6. pc \in {"idle", "write", "read"} => server = NoServer
  BY DEF Begun, Outside
<1>7. pc = "loop"
  BY <1>6 DEF Publish, Peer, NoServer
<1> QED BY <1>1, <1>4, <1>5, <1>7, OutsideTyped DEF Publish, Outside

LEMMA ResolveTyped ==
    ASSUME Typed, Begun, Resolve
    PROVE  Typed' /\ Begun'
<1>1. /\ fds \in Tables /\ server \in Servers
      /\ up \in Seq(Numbered(issued)) /\ down \in Seq(PieceOf(AnyMessage))
  BY DEF Typed, Calling, Answering
<1>2. Reply("error", 0) \in AnyMessage
  BY DEF Reply, AnyMessage
<1>3. down' \in Seq(PieceOf(AnyMessage))
  BY <1>1, <1>2, DownTyped DEF Resolve
<1> QED BY <1>1, <1>3, OutsideTyped DEF Resolve, Peer, asyncVars

\* The command that is issued, which the application may.
LEMMA CommandIssued ==
    ASSUME Typed, AsyncCommand
    PROVE  \E m \in CommandType :
             /\ ac' = [Registered(ac, m, Callback(issued + 1, m.fn)) EXCEPT !.ev = @ \cup {"write"}]
             /\ c' \in {Flagged(Appended, m), Flagged(SetError(c, "oom"), m)}
             /\ cmds' = Append(cmds, m)
             /\ Accepted(m)
<1>1. PICK p \in Programs :
        /\ IsStrictPrefix(cmds, p)
        /\ ac' = [Registered(ac, p[issued + 1], Callback(issued + 1, p[issued + 1].fn))
                    EXCEPT !.ev = @ \cup {"write"}]
        /\ c' \in {Flagged(Appended, p[issued + 1]), Flagged(SetError(c, "oom"), p[issued + 1])}
        /\ cmds' = Append(cmds, p[issued + 1])
        /\ Accepted(p[issued + 1])
  BY DEF AsyncCommand
<1> DEFINE m == p[issued + 1]
<1>2. Len(cmds) = issued /\ issued \in Nat
  BY DEF AsyncCommand, App, InLoop, Typed, Calling, Counted
<1>3. m \in CommandType
  <2> DEFINE T == [op : {"get", "monitor", "subscribe", "unsubscribe"}, topics : Seq(DOMAIN Hash),
                   pattern : BOOLEAN, fn : BOOLEAN]
  <2>1. p \in Seq(T) /\ \A i \in DOMAIN p : p[i].op = "subscribe" => p[i].topics # <<>>
    BY ProgramsAssumption
  <2>2. Len(cmds) <= Len(p) /\ cmds = SubSeq(p, 1, Len(cmds)) /\ cmds # p
    <3>1. cmds \in Seq(CommandType)
      BY DEF Typed, Answering
    <3>2. SubSeq(cmds, 1, Len(cmds)) = cmds
      BY <3>1, SubSeqFull
    <3> QED BY <1>1, <3>2 DEF IsStrictPrefix, IsPrefix
  <2> HIDE DEF T
  <2>3. Len(p) \in Nat /\ issued <= Len(p) /\ DOMAIN p = 1..Len(p)
    BY <1>2, <2>1, <2>2, LenProperties
  <2>4. issued # Len(p)
    <3> SUFFICES ASSUME issued = Len(p) PROVE FALSE
      OBVIOUS
    <3>1. SubSeq(p, 1, Len(p)) = p
      BY <2>1, SubSeqFull
    <3>2. Len(cmds) = Len(p)
      BY <1>2
    <3> QED BY <2>2, <3>1, <3>2
  <2>5. issued + 1 \in DOMAIN p
    <3>1. \A i, n \in Nat : i <= n /\ i # n => i + 1 \in 1..n
      OBVIOUS
    <3>2. issued + 1 \in 1..Len(p)
      BY <1>2, <2>3, <2>4, <3>1, Zenon
    <3> QED BY <2>3, <3>2
  <2>6. p[issued + 1] \in T
    BY <2>1, <2>3, <2>5, ElementOfSeq
  <2> QED BY <2>1, <2>5, <2>6 DEF CommandType, T
<1> QED BY <1>1, <1>3

\* A command is accepted: its callback is kept and its number is one more.
LEMMA AsyncCommandTyped ==
    ASSUME Typed, Begun, AsyncCommand
    PROVE  Typed' /\ Begun'
<1>1. PICK m \in CommandType :
        /\ ac' = [Registered(ac, m, Callback(issued + 1, m.fn)) EXCEPT !.ev = @ \cup {"write"}]
        /\ c' \in {Flagged(Appended, m), Flagged(SetError(c, "oom"), m)}
        /\ cmds' = Append(cmds, m)
  BY CommandIssued
<1> DEFINE cb == Callback(issued + 1, m.fn)
<1>2. pc \in InLoop /\ Len(cmds) = issued /\ Len(calls) = issued /\ issued' = issued + 1 /\ issued \in Nat
  BY DEF AsyncCommand, App, InLoop, Typed, Calling, Counted
<1>3. m \in CommandType
  OBVIOUS
<1>4. cb \in Callbacks
  BY <1>2, <1>3 DEF Callback, Callbacks, CommandType
<1> HIDE DEF cb
<1>5. Registered(ac, m, cb) \in AsyncContexts
  <2>1. ac \in AsyncContexts
    BY NowTyped
  <2>2. CASE m.op = "subscribe"
    <3>1. m.pattern \in BOOLEAN /\ m.topics \in Seq(DOMAIN Hash)
      BY <1>3 DEF CommandType
    <3>2. DictOf(ac, m.pattern) \in Table
      BY <2>1, <3>1, AsyncFieldsTyped
    <3>3. Subscribed(DictOf(ac, m.pattern), m.topics, cb) \in Table
      BY <1>4, <3>1, <3>2, SubscribedTyped
    <3> QED BY <2>1, <2>2, <3>1, <3>3, AsyncFieldsTyped DEF Registered
  <2>3. Append(ac.replies, cb) \in Seq(Callbacks) /\ Append(ac.invalid, cb) \in Seq(Callbacks)
    BY <1>4, <2>1, AppendProperties DEF AsyncContexts
  <2>4. CASE m.op # "subscribe"
    BY <2>1, <2>3, <2>4, AsyncFieldsTyped DEF Registered
  <2> QED BY <2>2, <2>4
<1>6. ac' \in AsyncContexts
  <2> DEFINE a == Registered(ac, m, cb)
  <2>1. ac' = [a EXCEPT !.ev = @ \cup {"write"}]
    BY <1>1 DEF cb
  <2> HIDE DEF a
  <2> QED BY <1>5, <2>1 DEF AsyncContexts, a
<1>7. c' \in Contexts(issued')
  <2>1. Appended \in Contexts(issued + 1) /\ SetError(c, "oom") \in Contexts(issued + 1)
    <3>1. c \in Contexts(issued + 1)
      <4>1. c \in Contexts(issued)
        BY NowTyped
      <4> QED BY <1>2, <4>1, ContextsGrow
    <3>2. issued + 1 \in Nat /\ "oom" \in Errors
      BY <1>2 DEF Errors
    <3> QED BY <3>1, <3>2, AppendedTyped, FieldsTyped
  <2>2. \A k \in Contexts(issued + 1) : Flagged(k, m) \in Contexts(issued + 1)
    <3> TAKE k \in Contexts(issued + 1)
    <3>1. issued + 1 \in Nat /\ {"SUBSCRIBED", "MONITORING"} \subseteq Flags
      BY <1>2 DEF Flags
    <3>2. \A f \in Flags : Set(k, f) \in Contexts(issued + 1)
      BY <3>1, FieldsTyped
    <3> QED BY <3>1, <3>2 DEF Flagged
  <2>3. c' \in {Flagged(Appended, m), Flagged(SetError(c, "oom"), m)}
    BY <1>1
  <2> QED BY <1>2, <2>1, <2>2, <2>3
<1>8. Calling'
  <2>1. up \in Seq(Numbered(issued + 1))
    BY AppendedTyped
  <2>2. waiting \in Seq(1..issued + 1)
    <3>1. waiting \in Seq(1..issued) /\ 1..issued \subseteq 1..issued + 1
      BY <1>2 DEF Typed, Calling
    <3> QED BY <3>1, SeqMonotonic
  <2> QED BY <1>2, <1>7, <2>1, <2>2 DEF Typed, Calling, AsyncCommand
<1>9. cmds' \in Seq(CommandType) /\ calls' \in Seq(Nat) /\ Len(cmds') = issued + 1 /\ Len(calls') = issued + 1
  BY <1>1, <1>2, <1>3, AppendProperties DEF AsyncCommand, Typed, Answering
<1>10. Answering'
  BY <1>6, <1>9 DEF Typed, Answering, AsyncCommand
<1>11. Counted' /\ Begun'
  BY <1>2, <1>9 DEF Typed, Counted, Begun, AsyncCommand, InLoop, Outside
<1> QED BY <1>8, <1>10, <1>11 DEF Typed

(***************************************************************************)
(* Every step                                                              *)
(***************************************************************************)
LEMMA StartTyped == Init => Typed /\ Begun
<1> SUFFICES ASSUME Init PROVE Typed /\ Begun
  OBVIOUS
<1> USE DEF Init, ContextInit
<1>1. c \in Contexts(0)
  BY InitTyped
<1>2. NoTry \in Tries /\ reconnects \in 0..MaxReconnects /\ fds \in Tables
  BY CountAssumption DEF NoTry, Tries, Tables
<1>3. <<>> \in Seq(Numbered(0)) /\ <<>> \in Seq(PieceOf(AnyMessage)) /\ <<>> \in Seq(1..0)
      /\ <<>> \in Seq(CommandType) /\ <<>> \in Seq(Nat) /\ Len(<<>>) = 0
  OBVIOUS
<1>4. Calling
  BY <1>1, <1>2, <1>3 DEF Calling, NoRet
<1>5. Answering
  BY <1>3, NoneTyped DEF Answering
<1>6. Counted
  BY <1>3 DEF Counted, Outside, InLoop
<1>7. Begun
  BY DEF Begun, redisContextInit
<1> QED BY <1>4, <1>5, <1>6, <1>7 DEF Typed

LEMMA StutterTyped ==
    ASSUME Typed, Begun, UNCHANGED vars
    PROVE  Typed' /\ Begun'
BY DEF vars, contextVars, asyncVars, Typed, Calling, Answering, Counted, Begun

LEMMA NextTyped ==
    ASSUME Control, Typed, Begun, [Next]_vars
    PROVE  Typed' /\ Begun'
<1>1. CASE ContextNext /\ UNCHANGED asyncVars
  BY <1>1, ContextTyped
<1>2. CASE Initialize \/ AppDisconnect \/ AppFree
  BY <1>2, ApplicationTyped
<1>3. CASE HandleRead \/ HandleWrite \/ ConnectCallbackReturns \/ HandleEvent
  BY <1>3, EventsTyped
<1>4. CASE ProcessCallbacks \/ CallbackReturns
  BY <1>4, CallbacksTyped
<1>5. CASE FreeNext \/ FreeCallbackReturns \/ FreeEnds
  BY <1>5, FreesTyped, FreeEndsTyped
<1>6. CASE AsyncCommand \/ AsyncServe \/ Publish \/ Resolve
  BY <1>6, AsyncCommandTyped, AsyncServeTyped, PublishTyped, ResolveTyped
<1>7. CASE UNCHANGED vars
  BY <1>7, StutterTyped
<1> QED BY <1>1, <1>2, <1>3, <1>4, <1>5, <1>6, <1>7 DEF Next, AsyncNext, Handlers

LEMMA TypesHold == Spec => [](Control /\ Typed /\ Begun)
<1>1. Init => Control /\ Typed /\ Begun
  BY InitControl, StartTyped
<1>2. Control /\ Typed /\ Begun /\ [Next]_vars => (Control /\ Typed /\ Begun)'
  BY NextControl, NextTyped
<1> QED BY <1>1, <1>2, PTL DEF Spec

\* Type correctness of a context, blocking or asynchronous: in particular both
\* dictionaries are well formed whatever callbacks do to them, and the string in
\* the output buffer is, at every moment (async.c, dict.c, sds.c).
THEOREM TypesKept == Spec => []TypeOK
<1>1. Typed => TypeOK
  <2> SUFFICES ASSUME Typed PROVE TypeOK
    OBVIOUS
  <2>1. ContextTypeOK
    <3>1. SdsOK(c.obuf)
      BY DEF Typed, Calling, Contexts, Buffers, String
    <3>2. \A i \in DOMAIN waiting : waiting[i] \in 1..issued
      BY ElementOfSeq DEF Typed, Calling
    <3> QED BY <3>1, <3>2 DEF Typed, Calling, Contexts, Errors, Descriptors, Tries, Tables, ContextTypeOK
  <2>2. DictOK(ac.channels) /\ DictOK(ac.patterns)
    BY SoundIsOK DEF Typed, Answering, AsyncContexts, Table
  <2> QED BY <2>1, <2>2 DEF Typed, Answering, Counted, AsyncContexts, Faults, Outside, InLoop, TypeOK
<1> QED BY <1>1, TypesHold, PTL

(***************************************************************************)
(* Subscriptions                                                           *)
(***************************************************************************)
\* How often a topic is in a sequence of topics, how many confirmations of it
\* the commands in a buffer ask for, how many are among the messages in a
\* buffer, and what these say about it, in order.
TopicIn(t) == [x \in DOMAIN Hash |-> IF x = t THEN <<t>> ELSE <<>>]
AskIn(q, pattern, t) ==
    [p \in Numbered(Len(q)) |-> IF p.last THEN Asks(q[p.msg], pattern, t) ELSE <<>>]
SayIn(pattern, t) ==
    [p \in PieceOf(AnyMessage) |-> IF p.last THEN Says(p.msg, pattern, t) ELSE <<>>]
Tells(m, pattern, t) ==
    IF m.op \in {"subscribe", "unsubscribe"} /\ m.pattern = pattern /\ m.topic = t THEN <<m.op>> ELSE <<>>
TellIn(pattern, t) ==
    [p \in PieceOf(AnyMessage) |-> IF p.last THEN Tells(p.msg, pattern, t) ELSE <<>>]

Times(t, topics) == Len(Through(TopicIn(t), topics))
Asked(q, pattern, t, s) == Len(Through(AskIn(q, pattern, t), s))
Said(pattern, t, s) == Len(Through(SayIn(pattern, t), s))
Talk(pattern, t, s) == Through(TellIn(pattern, t), s)

(***************************************************************************)
(* The inductive invariant                                                 *)
(***************************************************************************)
Owed(pattern, t) == Asked(cmds, pattern, t, up \o c.obuf.chars) + Said(pattern, t, c.inbuf \o down)
Word(pattern, t) == Talk(pattern, t, c.inbuf \o down)

Served == {"loop", "connected", "event", "process", "callback"}

\* The last word on the way about a topic is where the server stands.
LastWord(talk, b) == talk # <<>> => (talk[Len(talk)] = "subscribe" <=> b)
NonNegative(d) == \A t \in DOMAIN Hash : dictHas(d, t) => dictFind(d, t).pending >= 0
Covered(k, d, t, n, b) ==
    (n > 0 \/ b) => Has(k, "SUBSCRIBED") /\ dictHas(d, t) /\ dictFind(d, t).pending >= n

Kept1(pattern, t) ==
    LET b == <<pattern, t>> \in server.subs
    IN  /\ Covered(c, DictOf(ac, pattern), t, Owed(pattern, t), b)
        /\ LastWord(Word(pattern, t), b)

Heard ==
    pc \in Served =>
        /\ peer = "pending" => up = <<>> /\ down = <<>> /\ c.inbuf = <<>>
        /\ NonNegative(ac.channels) /\ NonNegative(ac.patterns)
        /\ \A pattern \in BOOLEAN, t \in DOMAIN Hash : Kept1(pattern, t)

(***************************************************************************)
(* The laws of these counts                                                *)
(***************************************************************************)
LEMMA AmountLaws ==
    ASSUME NEW P, NEW V, NEW g \in Gives(P, V)
    PROVE  /\ \A s \in Seq(P) : Through(g, s) \in Seq(V) /\ Len(Through(g, s)) \in Nat
           /\ \A s, t \in Seq(P) : /\ s \o t \in Seq(P)
                                 /\ Through(g, s \o t) = Through(g, s) \o Through(g, t)
                                 /\ Len(Through(g, s \o t)) = Len(Through(g, s)) + Len(Through(g, t))
           /\ \A p \in P : Through(g, <<p>>) = g[p] /\ <<p>> \in Seq(P)
           /\ Through(g, <<>>) = <<>> /\ Len(Through(g, <<>>)) = 0
<1>1. ASSUME NEW s \in Seq(P) PROVE Through(g, s) \in Seq(V) /\ Len(Through(g, s)) \in Nat
  <2>1. Through(g, s) \in Seq(V)
    BY ThroughTyped
  <2> QED BY <2>1, LenProperties
<1>2. ASSUME NEW s \in Seq(P), NEW t \in Seq(P)
      PROVE  /\ s \o t \in Seq(P)
             /\ Through(g, s \o t) = Through(g, s) \o Through(g, t)
             /\ Len(Through(g, s \o t)) = Len(Through(g, s)) + Len(Through(g, t))
  <2>1. s \o t \in Seq(P)
    BY ConcatProperties
  <2>2. Through(g, s \o t) = Through(g, s) \o Through(g, t)
    BY ThroughConcat
  <2>3. Through(g, s) \in Seq(V) /\ Through(g, t) \in Seq(V)
    BY <1>1
  <2>4. Len(Through(g, s) \o Through(g, t)) = Len(Through(g, s)) + Len(Through(g, t))
    BY <2>3, ConcatProperties
  <2> QED BY <2>1, <2>2, <2>4
<1>3. ASSUME NEW p \in P PROVE Through(g, <<p>>) = g[p] /\ <<p>> \in Seq(P)
  <2>1. Through(g, <<p>>) = g[p]
    BY ThroughOne
  <2> QED BY <2>1
<1>4. Through(g, <<>>) = <<>>
  BY DEF Through, FlattenSeq
<1>5. Len(<<>>) = 0
  OBVIOUS
<1> QED BY <1>1, <1>2, <1>3, <1>4, <1>5

LEMMA TopicsGiven ==
    ASSUME NEW t \in DOMAIN Hash
    PROVE  TopicIn(t) \in Gives(DOMAIN Hash, DOMAIN Hash)
<1> DEFINE K == DOMAIN Hash
<1>0. t \in K
  OBVIOUS
<1>1. <<t>> \in Seq(K) /\ <<>> \in Seq(K)
  <2> HIDE DEF K
  <2> QED BY <1>0
<1>2. TopicIn(t) = [x \in K |-> IF x = t THEN <<t>> ELSE <<>>]
  BY DEF TopicIn
<1> HIDE DEF K
<1>3. TopicIn(t) \in [K -> Seq(K)]
  BY <1>1, <1>2
<1> QED BY <1>3 DEF Gives, K

LEMMA TimesLaws ==
    ASSUME NEW t \in DOMAIN Hash
    PROVE  /\ \A s \in Seq(DOMAIN Hash) : Times(t, s) \in Nat
           /\ \A s \in Seq(DOMAIN Hash), x \in DOMAIN Hash :
                Times(t, Append(s, x)) = Times(t, s) + IF x = t THEN 1 ELSE 0
           /\ Times(t, <<>>) = 0
<1> DEFINE K == DOMAIN Hash
           g == TopicIn(t)
<1>1. g \in Gives(K, K) /\ \A x \in K : g[x] = IF x = t THEN <<t>> ELSE <<>>
  BY TopicsGiven DEF TopicIn
<1> HIDE DEF K, g
<1>2. /\ \A s \in Seq(K) : Through(g, s) \in Seq(K) /\ Len(Through(g, s)) \in Nat
      /\ \A s, u \in Seq(K) : Len(Through(g, s \o u)) = Len(Through(g, s)) + Len(Through(g, u))
      /\ \A x \in K : Through(g, <<x>>) = g[x] /\ <<x>> \in Seq(K)
      /\ Len(Through(g, <<>>)) = 0
  BY <1>1, AmountLaws
<1>3. ASSUME NEW s \in Seq(K), NEW x \in K
      PROVE  Len(Through(g, Append(s, x))) = Len(Through(g, s)) + IF x = t THEN 1 ELSE 0
  <2>1. Append(s, x) = s \o <<x>> /\ <<x>> \in Seq(K)
    BY <1>2, AppendIsConcat
  <2>2. Len(Through(g, <<x>>)) = IF x = t THEN 1 ELSE 0
    <3>1. Len(<<t>>) = 1 /\ Len(<<>>) = 0
      OBVIOUS
    <3> QED BY <1>1, <1>2, <3>1
  <2> QED BY <1>2, <2>1, <2>2
<1> QED BY <1>2, <1>3 DEF Times, K, g

\* The confirmations that one command asks for.
LEMMA AsksGiven ==
    ASSUME NEW m \in CommandType, NEW pattern \in BOOLEAN, NEW t \in DOMAIN Hash
    PROVE  /\ Asks(m, pattern, t) \in Seq(DOMAIN Hash)
           /\ Len(Asks(m, pattern, t)) =
                IF m.op = "subscribe" /\ m.pattern = pattern THEN Times(t, m.topics) ELSE 0
<1> DEFINE K == DOMAIN Hash
           g == TopicIn(t)
           s == m.topics
<1>1. g \in Gives(K, K) /\ s \in Seq(K)
  BY TopicsGiven DEF CommandType
<1>2. Through(g, s) = FlattenSeq([i \in DOMAIN s |-> IF s[i] = t THEN <<t>> ELSE <<>>])
  <2>1. \A i \in DOMAIN s : g[s[i]] = IF s[i] = t THEN <<t>> ELSE <<>>
    BY <1>1, ElementOfSeq, LenProperties DEF TopicIn
  <2> HIDE DEF s, g
  <2> QED BY <2>1 DEF Through
<1>3. Through(g, s) \in Seq(K)
  <2> HIDE DEF g, s, K
  <2> QED BY <1>1, AmountLaws
<1>4. <<>> \in Seq(K) /\ Len(<<>>) = 0
  OBVIOUS
<1>5. CASE m.op = "subscribe" /\ m.pattern = pattern
  <2>1. Asks(m, pattern, t) = Through(g, s)
    BY <1>2, <1>5 DEF Asks
  <2> QED BY <1>3, <1>5, <2>1 DEF Times
<1>6. CASE ~(m.op = "subscribe" /\ m.pattern = pattern)
  <2>1. Asks(m, pattern, t) = <<>>
    BY <1>6, Zenon DEF Asks
  <2> QED BY <1>4, <1>6, <2>1
<1> QED BY <1>5, <1>6

\* The commands in a buffer.
LEMMA AskedLaws ==
    ASSUME NEW q \in Seq(CommandType), NEW pattern \in BOOLEAN, NEW t \in DOMAIN Hash
    PROVE  LET P == Numbered(Len(q)) IN
           /\ \A s \in Seq(P) : Asked(q, pattern, t, s) \in Nat
           /\ \A s, u \in Seq(P) :
                 Asked(q, pattern, t, s \o u) = Asked(q, pattern, t, s) + Asked(q, pattern, t, u)
           /\ Asked(q, pattern, t, <<>>) = 0
           /\ \A s \in Seq(P) : Whole(s) =>
                 Asked(q, pattern, t, s) =
                   Len(Asks(q[First(s)], pattern, t)) + Asked(q, pattern, t, Behind(s))
           /\ \A k \in 1..Len(q) : Asked(q, pattern, t, Pieces(k)) = Len(Asks(q[k], pattern, t))
<1> DEFINE M == 1..Len(q)
           K == DOMAIN Hash
           g == AskIn(q, pattern, t)
<1>1. \A k \in M : Asks(q[k], pattern, t) \in Seq(K)
  BY AsksGiven, ElementOfSeq
<1>2. \A p \in PieceOf(M) : p.msg \in M
  BY DEF PieceOf
<1>3. /\ g \in Gives(PieceOf(M), K)
      /\ \A p \in PieceOf(M) : g[p] = IF p.last THEN Asks(q[p.msg], pattern, t) ELSE <<>>
  <2>1. g = [p \in PieceOf(M) |-> IF p.last THEN Asks(q[p.msg], pattern, t) ELSE <<>>]
    BY DEF AskIn, Numbered
  <2>2. \A p \in PieceOf(M) : (IF p.last THEN Asks(q[p.msg], pattern, t) ELSE <<>>) \in Seq(K)
    <3>1. <<>> \in Seq(K)
      OBVIOUS
    <3> HIDE DEF M, K
    <3> QED BY <1>1, <1>2, <3>1
  <2> HIDE DEF g, M, K
  <2> QED BY <2>1, <2>2 DEF Gives
<1>4. \A k \in M : Pieces(k) \in Seq(PieceOf(M)) /\ Whole(Pieces(k)) /\ First(Pieces(k)) = k /\ Behind(Pieces(k)) = <<>>
  <2> HIDE DEF M
  <2> QED BY PiecesTyped
<1> DEFINE Q == PieceOf(M)
<1>5. /\ \A s \in Seq(Q) : Through(g, s) \in Seq(K) /\ Len(Through(g, s)) \in Nat
      /\ \A s, u \in Seq(Q) : Len(Through(g, s \o u)) = Len(Through(g, s)) + Len(Through(g, u))
      /\ Len(Through(g, <<>>)) = 0
  <2> HIDE DEF g, Q, K
  <2> QED BY <1>3, AmountLaws DEF Q
<1>6. ASSUME NEW s \in Seq(Q), Whole(s)
      PROVE  Len(Through(g, s)) = Len(Asks(q[First(s)], pattern, t)) + Len(Through(g, Behind(s)))
  <2> HIDE DEF g, M, K
  <2>1. \A p \in PieceOf(M) : ~p.last => g[p] = <<>>
    BY <1>3
  <2>2. Through(g, s) = g[s[End(s)]] \o Through(g, Behind(s))
    BY <1>3, <1>6, <2>1, ThroughWhole
  <2>3. /\ s[End(s)] \in PieceOf(M) /\ s[End(s)].last /\ Behind(s) \in Seq(PieceOf(M)) /\ First(s) \in M
    BY <1>6, AroundEnd, EndFacts
  <2>4. g[s[End(s)]] = Asks(q[First(s)], pattern, t)
    BY <1>3, <2>3 DEF First
  <2>5. Asks(q[First(s)], pattern, t) \in Seq(K) /\ Through(g, Behind(s)) \in Seq(K)
    BY <1>1, <1>5, <2>3
  <2>6. Len(Asks(q[First(s)], pattern, t) \o Through(g, Behind(s))) =
          Len(Asks(q[First(s)], pattern, t)) + Len(Through(g, Behind(s)))
    BY <2>5, ConcatProperties
  <2> QED BY <2>2, <2>4, <2>6
<1>7. ASSUME NEW k \in M PROVE Len(Through(g, Pieces(k))) = Len(Asks(q[k], pattern, t))
  <2>1. Len(Asks(q[k], pattern, t)) \in Nat
    BY <1>1, LenProperties
  <2>2. Len(Through(g, Pieces(k))) = Len(Asks(q[k], pattern, t)) + 0
    BY <1>4, <1>5, <1>6
  <2> QED BY <2>1, <2>2
<1> HIDE DEF g
<1> QED BY <1>5, <1>6, <1>7 DEF Asked, Numbered, g

\* A further command changes nothing about those before.
LEMMA AskedBefore ==
    ASSUME NEW q \in Seq(CommandType), NEW pattern, NEW t,
           NEW m \in CommandType, NEW s \in Seq(Numbered(Len(q)))
    PROVE  Asked(Append(q, m), pattern, t, s) = Asked(q, pattern, t, s)
<1>1. /\ Len(q) \in Nat /\ Len(Append(q, m)) = Len(q) + 1
      /\ \A k \in 1..Len(q) : Append(q, m)[k] = q[k]
  BY AppendProperties, LenProperties
<1>2. Numbered(Len(q)) \subseteq Numbered(Len(q) + 1)
  BY <1>1 DEF Numbered, PieceOf
<1>3. \A x \in Numbered(Len(q)) : AskIn(Append(q, m), pattern, t)[x] = AskIn(q, pattern, t)[x]
  <2> TAKE x \in Numbered(Len(q))
  <2>1. x \in Numbered(Len(q) + 1) /\ x.msg \in 1..Len(q)
    BY <1>2 DEF Numbered, PieceOf
  <2> QED BY <1>1, <2>1 DEF AskIn
<1>4. \A i \in DOMAIN s : s[i] \in Numbered(Len(q))
  BY ElementOfSeq, LenProperties
<1>5. [i \in DOMAIN s |-> AskIn(Append(q, m), pattern, t)[s[i]]] = [i \in DOMAIN s |-> AskIn(q, pattern, t)[s[i]]]
  BY <1>3, <1>4
<1> QED BY <1>5 DEF Asked, Through

LEMMA HeardGiven ==
    ASSUME NEW pattern \in BOOLEAN, NEW t \in DOMAIN Hash
    PROVE  LET P == PieceOf(AnyMessage) IN
           /\ \A m \in AnyMessage :
                /\ Says(m, pattern, t) \in Seq(DOMAIN Hash) /\ Len(Says(m, pattern, t)) \in Nat
                /\ Tells(m, pattern, t) \in Seq({"subscribe", "unsubscribe"})
           /\ SayIn(pattern, t) \in Gives(P, DOMAIN Hash)
           /\ TellIn(pattern, t) \in Gives(P, {"subscribe", "unsubscribe"})
           /\ \A p \in P :
                /\ SayIn(pattern, t)[p] = IF p.last THEN Says(p.msg, pattern, t) ELSE <<>>
                /\ TellIn(pattern, t)[p] = IF p.last THEN Tells(p.msg, pattern, t) ELSE <<>>
<1> DEFINE K == DOMAIN Hash
           W == {"subscribe", "unsubscribe"}
           M == AnyMessage
           Q == PieceOf(M)
           g == SayIn(pattern, t)
           h == TellIn(pattern, t)
<1>1. \A m \in M : Says(m, pattern, t) \in Seq(K) /\ Len(Says(m, pattern, t)) \in Nat
  <2>1. <<t>> \in Seq(K) /\ <<>> \in Seq(K)
    <3>1. t \in K
      OBVIOUS
    <3> HIDE DEF K
    <3> QED BY <3>1
  <2>2. Len(<<t>>) = 1 /\ Len(<<>>) = 0
    OBVIOUS
  <2>3. 1 \in Nat /\ 0 \in Nat
    OBVIOUS
  <2> QED BY <2>1, <2>2, <2>3, Zenon DEF Says
<1>2. \A m \in M : Tells(m, pattern, t) \in Seq(W)
  <2>1. <<"subscribe">> \in Seq(W) /\ <<"unsubscribe">> \in Seq(W) /\ <<>> \in Seq(W)
    OBVIOUS
  <2>2. \A m \in M : Tells(m, pattern, t) \in {<<"subscribe">>, <<"unsubscribe">>, <<>>}
    BY DEF Tells
  <2> HIDE DEF W, M
  <2> QED BY <2>1, <2>2
<1>3. \A p \in Q : p.msg \in M
  BY DEF PieceOf
<1>4. <<>> \in Seq(K) /\ <<>> \in Seq(W)
  OBVIOUS
<1>5. /\ g = [p \in Q |-> IF p.last THEN Says(p.msg, pattern, t) ELSE <<>>]
      /\ h = [p \in Q |-> IF p.last THEN Tells(p.msg, pattern, t) ELSE <<>>]
  BY DEF SayIn, TellIn
<1> HIDE DEF g, h, M, K, Q, W
<1>6. /\ \A p \in Q : (IF p.last THEN Says(p.msg, pattern, t) ELSE <<>>) \in Seq(K)
      /\ \A p \in Q : (IF p.last THEN Tells(p.msg, pattern, t) ELSE <<>>) \in Seq(W)
  BY <1>1, <1>2, <1>3, <1>4
<1>7. g \in Gives(Q, K) /\ h \in Gives(Q, W)
  BY <1>5, <1>6 DEF Gives
<1>8. \A p \in Q :
        /\ g[p] = IF p.last THEN Says(p.msg, pattern, t) ELSE <<>>
        /\ h[p] = IF p.last THEN Tells(p.msg, pattern, t) ELSE <<>>
  BY <1>5
<1> QED BY <1>1, <1>2, <1>7, <1>8 DEF g, h, M, K, Q, W

\* The messages in a buffer.
LEMMA SaidLaws ==
    ASSUME NEW pattern \in BOOLEAN, NEW t \in DOMAIN Hash
    PROVE  LET P == PieceOf(AnyMessage) IN
           /\ \A s \in Seq(P) : Said(pattern, t, s) \in Nat
           /\ \A s, u \in Seq(P) : Said(pattern, t, s \o u) = Said(pattern, t, s) + Said(pattern, t, u)
           /\ Said(pattern, t, <<>>) = 0
           /\ \A s \in Seq(P) : Whole(s) =>
                 Said(pattern, t, s) = Len(Says(First(s), pattern, t)) + Said(pattern, t, Behind(s))
           /\ \A m \in AnyMessage : Said(pattern, t, Pieces(m)) = Len(Says(m, pattern, t))
<1> DEFINE K == DOMAIN Hash
           M == AnyMessage
           Q == PieceOf(M)
           g == SayIn(pattern, t)
<1>1. \A m \in M : Says(m, pattern, t) \in Seq(K) /\ Len(Says(m, pattern, t)) \in Nat
  BY HeardGiven
<1>3. /\ g \in Gives(Q, K)
      /\ \A p \in Q : g[p] = IF p.last THEN Says(p.msg, pattern, t) ELSE <<>>
  BY HeardGiven
<1>4. \A k \in M : Pieces(k) \in Seq(PieceOf(M)) /\ Whole(Pieces(k)) /\ First(Pieces(k)) = k /\ Behind(Pieces(k)) = <<>>
  <2> HIDE DEF M
  <2> QED BY PiecesTyped
<1>5. /\ \A s \in Seq(Q) : Through(g, s) \in Seq(K) /\ Len(Through(g, s)) \in Nat
      /\ \A s, u \in Seq(Q) : Len(Through(g, s \o u)) = Len(Through(g, s)) + Len(Through(g, u))
      /\ Len(Through(g, <<>>)) = 0
  <2> HIDE DEF g, Q, K
  <2> QED BY <1>3, AmountLaws DEF Q
<1>6. ASSUME NEW s \in Seq(Q), Whole(s)
      PROVE  Len(Through(g, s)) = Len(Says(First(s), pattern, t)) + Len(Through(g, Behind(s)))
  <2> HIDE DEF g, M, K
  <2>1. \A p \in PieceOf(M) : ~p.last => g[p] = <<>>
    BY <1>3
  <2>2. Through(g, s) = g[s[End(s)]] \o Through(g, Behind(s))
    BY <1>3, <1>6, <2>1, ThroughWhole
  <2>3. /\ s[End(s)] \in PieceOf(M) /\ s[End(s)].last /\ Behind(s) \in Seq(PieceOf(M)) /\ First(s) \in M
    BY <1>6, AroundEnd, EndFacts
  <2>4. g[s[End(s)]] = Says(First(s), pattern, t)
    BY <1>3, <2>3 DEF First
  <2>5. Says(First(s), pattern, t) \in Seq(K) /\ Through(g, Behind(s)) \in Seq(K)
    BY <1>1, <1>5, <2>3
  <2>6. Len(Says(First(s), pattern, t) \o Through(g, Behind(s))) =
          Len(Says(First(s), pattern, t)) + Len(Through(g, Behind(s)))
    BY <2>5, ConcatProperties
  <2> QED BY <2>2, <2>4, <2>6
<1>7. ASSUME NEW k \in M PROVE Len(Through(g, Pieces(k))) = Len(Says(k, pattern, t))
  <2>2. Len(Through(g, Pieces(k))) = Len(Says(k, pattern, t)) + 0
    BY <1>4, <1>5, <1>6
  <2> QED BY <1>1, <2>2
<1> HIDE DEF g
<1> QED BY <1>5, <1>6, <1>7 DEF Said, g

\* What they say.
LEMMA TalkLaws ==
    ASSUME NEW pattern \in BOOLEAN, NEW t \in DOMAIN Hash
    PROVE  LET P == PieceOf(AnyMessage) IN
           /\ \A s \in Seq(P) : Talk(pattern, t, s) \in Seq({"subscribe", "unsubscribe"})
           /\ \A s, u \in Seq(P) : Talk(pattern, t, s \o u) = Talk(pattern, t, s) \o Talk(pattern, t, u)
           /\ Talk(pattern, t, <<>>) = <<>>
           /\ \A s \in Seq(P) : Whole(s) =>
                 Talk(pattern, t, s) = Tells(First(s), pattern, t) \o Talk(pattern, t, Behind(s))
           /\ \A m \in AnyMessage : Talk(pattern, t, Pieces(m)) = Tells(m, pattern, t)
<1> DEFINE K == {"subscribe", "unsubscribe"}
           M == AnyMessage
           Q == PieceOf(M)
           g == TellIn(pattern, t)
<1>1. \A m \in M : Tells(m, pattern, t) \in Seq(K)
  BY HeardGiven
<1>3. /\ g \in Gives(Q, K)
      /\ \A p \in Q : g[p] = IF p.last THEN Tells(p.msg, pattern, t) ELSE <<>>
  BY HeardGiven
<1>4. \A k \in M : Pieces(k) \in Seq(PieceOf(M)) /\ Whole(Pieces(k)) /\ First(Pieces(k)) = k /\ Behind(Pieces(k)) = <<>>
  <2> HIDE DEF M
  <2> QED BY PiecesTyped
<1>5. /\ \A s \in Seq(Q) : Through(g, s) \in Seq(K)
      /\ \A s, u \in Seq(Q) : Through(g, s \o u) = Through(g, s) \o Through(g, u)
      /\ Through(g, <<>>) = <<>>
  <2> HIDE DEF g, Q, K
  <2> QED BY <1>3, AmountLaws DEF Q
<1>6. ASSUME NEW s \in Seq(Q), Whole(s)
      PROVE  Through(g, s) = Tells(First(s), pattern, t) \o Through(g, Behind(s))
  <2> HIDE DEF g, M, K
  <2>1. \A p \in PieceOf(M) : ~p.last => g[p] = <<>>
    BY <1>3
  <2>2. Through(g, s) = g[s[End(s)]] \o Through(g, Behind(s))
    BY <1>3, <1>6, <2>1, ThroughWhole
  <2>3. s[End(s)] \in PieceOf(M) /\ s[End(s)].last
    BY <1>6, AroundEnd
  <2>4. g[s[End(s)]] = Tells(First(s), pattern, t)
    BY <1>3, <2>3 DEF First
  <2> QED BY <2>2, <2>4
<1>7. ASSUME NEW k \in M PROVE Through(g, Pieces(k)) = Tells(k, pattern, t)
  <2> HIDE DEF g, K, M
  <2>1. Through(g, Pieces(k)) = Tells(k, pattern, t) \o <<>>
    BY <1>4, <1>5, <1>6
  <2>2. Tells(k, pattern, t) \in Seq(K)
    BY <1>1
  <2> QED BY <2>1, <2>2, ConcatEmptySeq
<1> HIDE DEF g
<1> QED BY <1>5, <1>6, <1>7 DEF Talk, g

\* With no confirmation of a subscription on the way, no word is "subscribe".
LEMMA NothingSaid ==
    ASSUME NEW pattern \in BOOLEAN, NEW t \in DOMAIN Hash, NEW s \in Seq(PieceOf(AnyMessage)),
           Said(pattern, t, s) = 0
    PROVE  Talk(pattern, t, s) \in Seq({"unsubscribe"})
<1> DEFINE Q == PieceOf(AnyMessage)
           U == {"unsubscribe"}
           N == {x \in Seq(Q) : Said(pattern, t, x) = 0 => Talk(pattern, t, x) \in Seq(U)}
<1>1. <<>> \in N
  <2>1. <<>> \in Seq(Q) /\ <<>> \in Seq(U)
    OBVIOUS
  <2> QED BY <2>1, TalkLaws
<1>2. ASSUME NEW x \in Seq(Q), NEW p \in Q, x \in N PROVE Append(x, p) \in N
  <2>1. Append(x, p) = x \o <<p>> /\ <<p>> \in Seq(Q) /\ Append(x, p) \in Seq(Q)
    <3> HIDE DEF Q
    <3> QED BY AppendIsConcat, AppendProperties
  <2>2. /\ Said(pattern, t, x \o <<p>>) = Said(pattern, t, x) + Said(pattern, t, <<p>>)
        /\ Said(pattern, t, x) \in Nat /\ Said(pattern, t, <<p>>) \in Nat
    BY <2>1, SaidLaws, ZenonT(60)
  <2>3. Talk(pattern, t, x \o <<p>>) = Talk(pattern, t, x) \o Talk(pattern, t, <<p>>)
    BY <2>1, TalkLaws, ZenonT(60)
  <2>4. ASSUME Said(pattern, t, <<p>>) = 0 PROVE Talk(pattern, t, <<p>>) \in Seq(U)
    <3>1. SayIn(pattern, t) \in Gives(Q, DOMAIN Hash) /\ TellIn(pattern, t) \in Gives(Q, {"subscribe", "unsubscribe"})
      BY HeardGiven
    <3>2. Said(pattern, t, <<p>>) = Len(SayIn(pattern, t)[p]) /\ Talk(pattern, t, <<p>>) = TellIn(pattern, t)[p]
      BY <3>1, AmountLaws DEF Said, Talk
    <3>3. CASE ~p.last
      <4>1. Talk(pattern, t, <<p>>) = <<>>
        BY <3>2, <3>3, HeardGiven
      <4> QED BY <4>1
    <3>4. CASE p.last
      <4>1. Len(Says(p.msg, pattern, t)) = 0 /\ Talk(pattern, t, <<p>>) = Tells(p.msg, pattern, t)
        BY <2>4, <3>2, <3>4, HeardGiven
      <4>2. Says(p.msg, pattern, t) # <<t>>
        <5>1. Len(<<t>>) # 0
          OBVIOUS
        <5> QED BY <4>1, <5>1, Zenon
      <4>3. Tells(p.msg, pattern, t) \in {<<>>, <<"unsubscribe">>}
        <5> DEFINE m == p.msg
        <5> HIDE DEF m
        <5>1. ~(m.op = "subscribe" /\ m.pattern = pattern /\ m.topic = t)
          BY <4>2 DEF Says, m
        <5>2. Tells(m, pattern, t) \in {<<>>, <<"unsubscribe">>}
          BY <5>1 DEF Tells
        <5> QED BY <5>2 DEF m
      <4>4. <<>> \in Seq(U) /\ <<"unsubscribe">> \in Seq(U)
        OBVIOUS
      <4> HIDE DEF U
      <4> QED BY <4>1, <4>3, <4>4
    <3> QED BY <3>3, <3>4
  <2>5. ASSUME Said(pattern, t, x \o <<p>>) = 0 PROVE Talk(pattern, t, x \o <<p>>) \in Seq(U)
    <3>1. Said(pattern, t, x) = 0 /\ Said(pattern, t, <<p>>) = 0
      BY <2>2, <2>5
    <3>2. Talk(pattern, t, x) \in Seq(U) /\ Talk(pattern, t, <<p>>) \in Seq(U)
      BY <1>2, <2>4, <3>1
    <3> HIDE DEF U
    <3> QED BY <2>3, <3>2, ConcatProperties
  <2> QED BY <2>1, <2>5
<1> HIDE DEF N, Q
<1>3. Seq(Q) \subseteq N
  BY <1>1, <1>2, SeqSetInduction
<1> QED BY <1>3 DEF N, Q

\* What the commands in a buffer give, one after the other.
LEMMA ThroughThrough ==
    ASSUME NEW P, NEW Q, NEW V, NEW g \in Gives(P, Q), NEW h \in Gives(Q, V), NEW k \in Gives(P, V),
           \A p \in P : k[p] = Through(h, g[p])
    PROVE  \A s \in Seq(P) : Through(h, Through(g, s)) = Through(k, s)
<1>0. /\ Through(g, <<>>) = <<>> /\ Through(h, <<>>) = <<>> /\ Through(k, <<>>) = <<>>
      /\ \A s \in Seq(P) : Through(g, s) \in Seq(Q)
      /\ \A s, u \in Seq(P) : Through(g, s \o u) = Through(g, s) \o Through(g, u)
      /\ \A p \in P : Through(g, <<p>>) = g[p] /\ <<p>> \in Seq(P)
  BY AmountLaws, SMTT(60)
<1>c. \A p \in P : g[p] \in Seq(Q)
  BY DEF Gives
<1>a. /\ \A s, u \in Seq(P) : Through(k, s \o u) = Through(k, s) \o Through(k, u)
      /\ \A p \in P : Through(k, <<p>>) = k[p]
  BY AmountLaws, SMTT(60)
<1>b. \A s, u \in Seq(Q) : Through(h, s \o u) = Through(h, s) \o Through(h, u)
  BY AmountLaws
<1> DEFINE N == {s \in Seq(P) : Through(h, Through(g, s)) = Through(k, s)}
<1>1. <<>> \in N
  <2>1. <<>> \in Seq(P)
    OBVIOUS
  <2> QED BY <1>0, <2>1
<1>2. ASSUME NEW s \in Seq(P), NEW p \in P, s \in N PROVE Append(s, p) \in N
  <2>1. Append(s, p) = s \o <<p>> /\ Append(s, p) \in Seq(P)
    BY AppendIsConcat, AppendProperties
  <2>2. Through(g, s \o <<p>>) = Through(g, s) \o g[p]
    BY <1>0
  <2>3. Through(k, s \o <<p>>) = Through(k, s) \o k[p]
    BY <1>0, <1>a
  <2>4. Through(h, Through(g, s) \o g[p]) = Through(h, Through(g, s)) \o k[p]
    BY <1>0, <1>b, <1>c, ZenonT(60)
  <2> QED BY <1>2, <2>1, <2>2, <2>3, <2>4
<1>3. Seq(P) \subseteq N
  <2> HIDE DEF N
  <2> QED BY <1>1, <1>2, SeqSetInduction
<1> QED BY <1>3

LEMMA AskedIs ==
    ASSUME NEW q \in Seq(CommandType), NEW pattern \in BOOLEAN, NEW t \in DOMAIN Hash,
           NEW s \in Seq(Numbered(Len(q)))
    PROVE  LET x == FlattenSeq([i \in DOMAIN Commands(s) |-> Asks(q[Commands(s)[i]], pattern, t)])
           IN  x \in Seq(DOMAIN Hash) /\ Len(x) = Asked(q, pattern, t, s)
<1> DEFINE M == 1..Len(q)
           K == DOMAIN Hash
           g == [p \in PieceOf(M) |-> IF p.last THEN <<p.msg>> ELSE <<>>]
           h == [n \in M |-> Asks(q[n], pattern, t)]
           k == AskIn(q, pattern, t)
<1>1. \A n \in M : Asks(q[n], pattern, t) \in Seq(K)
  BY AsksGiven, ElementOfSeq
<1>2. \A p \in PieceOf(M) : p.msg \in M
  BY DEF PieceOf
<1>3. k = [p \in PieceOf(M) |-> IF p.last THEN Asks(q[p.msg], pattern, t) ELSE <<>>]
  BY DEF AskIn, Numbered
<1>4. \A n \in M : <<n>> \in Seq(M)
  OBVIOUS
<1>5. <<>> \in Seq(M) /\ <<>> \in Seq(K)
  OBVIOUS
<1>6. s \in Seq(PieceOf(M))
  BY DEF Numbered
<1> HIDE DEF M, K
<1>7. g \in Gives(PieceOf(M), M)
  BY <1>2, <1>4, <1>5 DEF Gives
<1>8. h \in Gives(M, K)
  BY <1>1 DEF Gives
<1>9. k \in Gives(PieceOf(M), K)
  <2> \A p \in PieceOf(M) : (IF p.last THEN Asks(q[p.msg], pattern, t) ELSE <<>>) \in Seq(K)
    BY <1>1, <1>2, <1>5
  <2> HIDE DEF k
  <2> QED BY <1>3 DEF Gives
<1>10. \A p \in PieceOf(M) : k[p] = Through(h, g[p])
  <2> TAKE p \in PieceOf(M)
  <2>1. CASE p.last
    <3>1. p.msg \in M /\ g[p] = <<p.msg>> /\ k[p] = h[p.msg]
      BY <1>2, <1>3, <2>1
    <3>2. Through(h, <<p.msg>>) = h[p.msg]
      <4> HIDE DEF h
      <4> QED BY <1>8, <3>1, ThroughOne
    <3> QED BY <3>1, <3>2
  <2>2. CASE ~p.last
    <3>1. g[p] = <<>> /\ k[p] = <<>>
      BY <1>3, <2>2
    <3>2. Through(h, <<>>) = <<>>
      <4> HIDE DEF h
      <4> QED BY <1>8, AmountLaws
    <3> QED BY <3>1, <3>2
  <2> QED BY <2>1, <2>2
<1>11. Commands(s) = Through(g, s)
  <2>1. \A i \in DOMAIN s : s[i] \in PieceOf(M)
    BY <1>6, ElementOfSeq, LenProperties
  <2>2. [i \in DOMAIN s |-> IF s[i].last THEN <<s[i].msg>> ELSE <<>>] = [i \in DOMAIN s |-> g[s[i]]]
    BY <2>1
  <2> HIDE DEF g
  <2> QED BY <2>2 DEF Commands, Through
<1>12. Commands(s) \in Seq(M)
  <2> HIDE DEF g
  <2> QED BY <1>6, <1>7, <1>11, ThroughTyped
<1>13. FlattenSeq([i \in DOMAIN Commands(s) |-> Asks(q[Commands(s)[i]], pattern, t)]) = Through(h, Commands(s))
  <2> DEFINE a == Commands(s)
  <2> HIDE DEF a
  <2>1. \A i \in DOMAIN a : a[i] \in M
    BY <1>12, ElementOfSeq, LenProperties DEF a
  <2>2. [i \in DOMAIN a |-> Asks(q[a[i]], pattern, t)] = [i \in DOMAIN a |-> h[a[i]]]
    BY <2>1
  <2>3. FlattenSeq([i \in DOMAIN a |-> Asks(q[a[i]], pattern, t)]) = Through(h, a)
    <3> HIDE DEF h
    <3> QED BY <2>2 DEF Through
  <2> QED BY <2>3 DEF a
<1> HIDE DEF g, h, k
<1>14. Through(h, Commands(s)) = Through(k, s)
  BY <1>6, <1>7, <1>8, <1>9, <1>10, <1>11, ThroughThrough
<1>15. Through(k, s) \in Seq(K)
  BY <1>6, <1>9, ThroughTyped
<1> QED BY <1>13, <1>14, <1>15 DEF Asked, k, K

LEMMA StreamsTyped ==
    ASSUME Typed
    PROVE  /\ up \in Seq(Numbered(issued)) /\ c.obuf.chars \in Seq(Numbered(issued))
           /\ up \o c.obuf.chars \in Seq(Numbered(issued))
           /\ c.inbuf \in Seq(PieceOf(AnyMessage)) /\ down \in Seq(PieceOf(AnyMessage))
           /\ c.inbuf \o down \in Seq(PieceOf(AnyMessage))
           /\ c.obuf \in String(Numbered(issued)) /\ c.obuf.len = Len(c.obuf.chars)
<1>1. /\ c \in Contexts(issued) /\ up \in Seq(Numbered(issued)) /\ down \in Seq(PieceOf(AnyMessage))
  BY NowTyped
<1>2. c.obuf \in String(Numbered(issued)) /\ c.inbuf \in Seq(PieceOf(AnyMessage))
  BY <1>1 DEF Contexts, Buffers
<1>3. c.obuf.chars \in Seq(Numbered(issued)) /\ c.obuf.len = Len(c.obuf.chars)
  BY <1>2, StringFacts
<1> QED BY <1>1, <1>2, <1>3, ConcatProperties

LEMMA OutstandingIs ==
    ASSUME Typed, pc \in InLoop, NEW pattern \in BOOLEAN, NEW t \in DOMAIN Hash
    PROVE  Outstanding(pattern, t) = Owed(pattern, t)
<1> DEFINE a == up \o c.obuf.chars
           b == c.inbuf \o down
           x == FlattenSeq([i \in DOMAIN Commands(a) |-> Asks(cmds[Commands(a)[i]], pattern, t)])
           y == FlattenSeq([i \in DOMAIN b |-> IF b[i].last THEN Says(b[i].msg, pattern, t) ELSE <<>>])
<1>1. Len(cmds) = issued /\ cmds \in Seq(CommandType)
  BY DEF Typed, Answering, Counted
<1>2. a \in Seq(Numbered(issued)) /\ b \in Seq(PieceOf(AnyMessage))
  BY StreamsTyped
<1>3. x \in Seq(DOMAIN Hash) /\ Len(x) = Asked(cmds, pattern, t, a)
  <2> HIDE DEF a
  <2> QED BY <1>1, <1>2, AskedIs
<1>4. y = Through(SayIn(pattern, t), b)
  <2> HIDE DEF b
  <2>1. \A i \in DOMAIN b : b[i] \in PieceOf(AnyMessage)
    BY <1>2, ElementOfSeq, LenProperties
  <2>2. \A i \in DOMAIN b :
          SayIn(pattern, t)[b[i]] = IF b[i].last THEN Says(b[i].msg, pattern, t) ELSE <<>>
    BY <2>1, HeardGiven
  <2> QED BY <2>2 DEF Through
<1>5. y \in Seq(DOMAIN Hash) /\ Len(y) = Said(pattern, t, b)
  <2> HIDE DEF b, y
  <2>1. SayIn(pattern, t) \in Gives(PieceOf(AnyMessage), DOMAIN Hash)
    BY HeardGiven
  <2> QED BY <1>2, <1>4, <2>1, ThroughTyped DEF Said
<1>6. Outstanding(pattern, t) = Len(x \o y)
  BY DEF Outstanding
<1> HIDE DEF a, b, x, y
<1>7. Len(x \o y) = Len(x) + Len(y)
  BY <1>3, <1>5, ConcatProperties
<1> QED BY <1>3, <1>5, <1>6, <1>7 DEF Owed, a, b

(***************************************************************************)
(* What a SUBSCRIBE does to the counters                                   *)
(***************************************************************************)
LEMMA Beginnings ==
    ASSUME NEW V, NEW s \in Seq(V)
    PROVE  /\ Len(s) \in Nat /\ SubSeq(s, 1, 0) = <<>> /\ SubSeq(s, 1, Len(s)) = s
           /\ \A i \in 0..Len(s) : SubSeq(s, 1, i) \in Seq(V)
           /\ \A i \in 0..Len(s) - 1 :
                s[i + 1] \in V /\ SubSeq(s, 1, i + 1) = Append(SubSeq(s, 1, i), s[i + 1])
<1>1. Len(s) \in Nat
  BY LenProperties
<1>2. SubSeq(s, 1, 0) = <<>> /\ SubSeq(s, 1, Len(s)) = s
  BY <1>1, SubSeqEmpty, SubSeqFull
<1>3. \A i \in 0..Len(s) : SubSeq(s, 1, i) \in Seq(V)
  BY <1>1, TakenApart
<1>4. ASSUME NEW i \in 0..Len(s) - 1
      PROVE  s[i + 1] \in V /\ SubSeq(s, 1, i + 1) = Append(SubSeq(s, 1, i), s[i + 1])
  <2>1. s[i + 1] \in V
    BY <1>1, ElementOfSeq
  <2> DEFINE x == SubSeq(s, 1, i)
             y == SubSeq(s, 1, i + 1)
  <2>2. i \in 0..Len(s) /\ i + 1 \in 0..Len(s)
    BY <1>1
  <2>3. x \in Seq(V) /\ y \in Seq(V) /\ Len(x) = i /\ Len(y) = i + 1
    BY <1>1, <1>3, <2>2, SubSeqProperties
  <2>4. /\ \A j \in 1..i : x[j] = s[j]
        /\ \A j \in 1..i + 1 : y[j] = s[j]
    BY <1>1, <2>2, SubSeqProperties
  <2> HIDE DEF x, y
  <2>5. /\ Append(x, s[i + 1]) \in Seq(V) /\ Len(Append(x, s[i + 1])) = i + 1
        /\ \A j \in 1..i : Append(x, s[i + 1])[j] = x[j]
        /\ Append(x, s[i + 1])[i + 1] = s[i + 1]
    BY <2>1, <2>3, AppendProperties
  <2>6. \A j \in 1..i + 1 : Append(x, s[i + 1])[j] = y[j]
    BY <2>2, <2>4, <2>5
  <2>7. y = Append(x, s[i + 1])
    BY <2>3, <2>5, <2>6, SeqEqual
  <2> QED BY <2>1, <2>7 DEF x, y
<1> QED BY <1>1, <1>2, <1>3, <1>4

\* The dictionary x after m further confirmations of t were asked for.
Raised(x, d, t, m) ==
    /\ dictHas(x, t) <=> dictHas(d, t) \/ m > 0
    /\ dictHas(x, t) =>
         dictFind(x, t).pending >= (IF dictHas(d, t) THEN dictFind(d, t).pending ELSE 0) + m

LEMMA JoinRaises ==
    ASSUME NEW cb \in Callbacks, NEW d \in Table, NEW t \in DOMAIN Hash, NEW m \in Nat,
           NEW a \in Pending, a.n >= 1, NonNegative(a.d), Raised(a.d, d, t, m), NEW x \in DOMAIN Hash
    PROVE  LET b == Joins(cb)[<<a, x>>]
           IN  /\ b \in Pending /\ b.n >= 1 /\ NonNegative(b.d)
               /\ Raised(b.d, d, t, m + IF x = t THEN 1 ELSE 0)
<1> DEFINE e == a.d
           n == IF dictHas(e, x) THEN dictFind(e, x).pending + 1 ELSE a.n
           v == [cb EXCEPT !.pending = n]
           y == dictReplace(e, x, v)
           b == Joins(cb)[<<a, x>>]
<1>1. e \in Table /\ a.n \in Int
  BY DEF Pending
<1>2. \A j \in DOMAIN Hash : dictHas(e, j) => dictFind(e, j) \in Callbacks
  BY <1>1, ValueTyped DEF Table
<1>3. n \in Int /\ n >= 1 /\ (dictHas(e, x) => n = dictFind(e, x).pending + 1)
  <2>1. dictHas(e, x) => dictFind(e, x).pending \in Int /\ dictFind(e, x).pending >= 0
    BY <1>2 DEF Callbacks, NonNegative
  <2> QED BY <1>1, <2>1
<1>4. b = [d |-> y, n |-> n]
  BY DEF Joins
<1>5. b \in Pending
  BY JoinsTyped
<1> HIDE DEF n
<1>6. v \in Callbacks /\ v.pending = n
  BY <1>3 DEF Callbacks
<1> HIDE DEF v, e
<1>7. /\ \A j \in DOMAIN Hash : dictHas(y, j) <=> dictHas(e, j) \/ j = x
      /\ dictFind(y, x) = v
      /\ \A j \in DOMAIN Hash \ {x} : dictHas(e, j) => dictFind(y, j) = dictFind(e, j)
  <2>1. Sound(e, Callbacks)
    BY <1>1 DEF Table
  <2> QED BY <1>6, <2>1, ReplaceLaw
<1> HIDE DEF y
<1>8. NonNegative(y)
  <2>1. NonNegative(e)
    BY DEF e
  <2> SUFFICES ASSUME NEW j \in DOMAIN Hash, dictHas(y, j) PROVE dictFind(y, j).pending >= 0
    BY DEF NonNegative
  <2>2. CASE j = x
    BY <1>3, <1>6, <1>7, <2>2
  <2>3. CASE j # x
    BY <1>7, <2>1, <2>3 DEF NonNegative
  <2> QED BY <2>2, <2>3
<1>9. Raised(y, d, t, m + IF x = t THEN 1 ELSE 0)
  <2>1. Raised(e, d, t, m)
    BY DEF e
  <2>2. CASE x # t
    <3>1. (dictHas(y, t) <=> dictHas(e, t)) /\ (dictHas(e, t) => dictFind(y, t) = dictFind(e, t))
      BY <1>7, <2>2
    <3>2. Raised(y, d, t, m)
      BY <2>1, <3>1 DEF Raised
    <3>3. m + (IF x = t THEN 1 ELSE 0) = m
      BY <2>2
    <3> QED BY <3>2, <3>3
  <2>3. CASE x = t
    <3>1. dictHas(y, t) /\ dictFind(y, t).pending = n
      BY <1>6, <1>7, <2>3
    <3> DEFINE w == IF dictHas(d, t) THEN dictFind(d, t).pending ELSE 0
    <3>2. w \in Int
      <4>1. dictHas(d, t) => dictFind(d, t) \in Callbacks
        BY ValueTyped DEF Table
      <4> QED BY <4>1 DEF Callbacks
    <3>3. n >= w + (m + 1)
      <4>1. CASE dictHas(e, t)
        <5>1. dictFind(e, t).pending >= w + m /\ n = dictFind(e, t).pending + 1
          BY <1>3, <2>1, <2>3, <4>1 DEF Raised
        <5>2. dictFind(e, t).pending \in Int
          BY <1>2, <4>1 DEF Callbacks
        <5> HIDE DEF w
        <5> QED BY <3>2, <5>1, <5>2
      <4>2. CASE ~dictHas(e, t)
        <5>1. w = 0 /\ m = 0
          BY <2>1, <4>2 DEF Raised
        <5> HIDE DEF w
        <5> QED BY <1>3, <5>1
      <4> QED BY <4>1, <4>2
    <3>4. m + (IF x = t THEN 1 ELSE 0) = m + 1 /\ m + 1 > 0
      BY <2>3
    <3> QED BY <3>1, <3>3, <3>4 DEF Raised
  <2> QED BY <2>2, <2>3
<1> QED BY <1>3, <1>4, <1>5, <1>8, <1>9

LEMMA SubscribedCounts ==
    ASSUME NEW d \in Table, NonNegative(d), NEW topics \in Seq(DOMAIN Hash),
           NEW cb \in Callbacks, cb.pending = 1, NEW t \in DOMAIN Hash
    PROVE  /\ NonNegative(Subscribed(d, topics, cb))
           /\ Raised(Subscribed(d, topics, cb), d, t, Times(t, topics))
<1> DEFINE n == Len(topics)
           at(i) == Times(t, SubSeq(topics, 1, i))
           base == [d |-> d, n |-> cb.pending]
           P == [i \in 0..n |-> {a \in Pending : a.n >= 1 /\ NonNegative(a.d) /\ Raised(a.d, d, t, at(i))}]
<1>1. PICK f \in [SUBSET (1..n) -> Pending] :
        Folds(f, Joins(cb), base, topics, n) /\ Subscribed(d, topics, cb) = f[1..n].d
  BY SubscribedIs
<1>2. n \in Nat /\ at(0) = 0 /\ at(n) = Times(t, topics)
  BY Beginnings, TimesLaws
<1>3. \A i \in 0..n - 1 :
        /\ topics[i + 1] \in DOMAIN Hash /\ at(i) \in Nat
        /\ at(i + 1) = at(i) + IF topics[i + 1] = t THEN 1 ELSE 0
  <2> TAKE i \in 0..n - 1
  <2>1. /\ topics[i + 1] \in DOMAIN Hash /\ SubSeq(topics, 1, i) \in Seq(DOMAIN Hash)
        /\ SubSeq(topics, 1, i + 1) = Append(SubSeq(topics, 1, i), topics[i + 1])
    BY <1>2, Beginnings
  <2> DEFINE u == SubSeq(topics, 1, i)
             x == topics[i + 1]
  <2>2. u \in Seq(DOMAIN Hash) /\ x \in DOMAIN Hash
    BY <2>1
  <2>3. at(i) = Times(t, u) /\ at(i + 1) = Times(t, Append(u, x))
    BY <2>1
  <2> HIDE DEF u, x, at
  <2>4. Times(t, u) \in Nat /\ Times(t, Append(u, x)) = Times(t, u) + IF x = t THEN 1 ELSE 0
    BY <2>2, TimesLaws
  <2>5. x \in DOMAIN Hash /\ at(i) \in Nat /\ at(i + 1) = at(i) + IF x = t THEN 1 ELSE 0
    BY <2>2, <2>3, <2>4
  <2> QED BY <2>5 DEF x
<1> HIDE DEF at
<1>4. base \in P[0]
  <2>1. base \in Pending
    BY DEF Pending, Callbacks
  <2>2. dictHas(d, t) => dictFind(d, t).pending \in Int
    <3>1. dictHas(d, t) => dictFind(d, t) \in Callbacks
      BY ValueTyped DEF Table
    <3> QED BY <3>1 DEF Callbacks
  <2>3. Raised(d, d, t, 0)
    BY <2>2 DEF Raised
  <2>4. 0 \in 0..n /\ base.n = 1 /\ base.d = d
    BY <1>2
  <2> HIDE DEF base
  <2> QED BY <1>2, <2>1, <2>3, <2>4
<1>5. \A i \in 0..n - 1 : \A a \in P[i] : Joins(cb)[<<a, topics[i + 1]>>] \in P[i + 1]
  <2> TAKE i \in 0..n - 1
  <2> TAKE a \in P[i]
  <2>1. i \in 0..n /\ i + 1 \in 0..n
    BY <1>2
  <2>2. a \in Pending /\ a.n >= 1 /\ NonNegative(a.d) /\ Raised(a.d, d, t, at(i))
    BY <2>1
  <2> DEFINE x == topics[i + 1]
             m == at(i)
             b == Joins(cb)[<<a, x>>]
  <2>3. x \in DOMAIN Hash /\ m \in Nat /\ at(i + 1) = m + IF x = t THEN 1 ELSE 0
    BY <1>3
  <2> HIDE DEF x, m, P
  <2>4. b \in Pending /\ b.n >= 1 /\ NonNegative(b.d) /\ Raised(b.d, d, t, m + IF x = t THEN 1 ELSE 0)
    BY <2>2, <2>3, JoinRaises DEF m
  <2> HIDE DEF b
  <2>5. b \in P[i + 1]
    BY <2>1, <2>3, <2>4 DEF P
  <2> QED BY <2>5 DEF b, x
<1>6. f[1..n] \in P[n]
  <2> HIDE DEF P, base
  <2> QED BY <1>1, <1>2, <1>4, <1>5, FoldsInduction
<1>7. n \in 0..n
  BY <1>2
<1>8. NonNegative(f[1..n].d) /\ Raised(f[1..n].d, d, t, at(n))
  BY <1>6, <1>7
<1> QED BY <1>1, <1>2, <1>8

(***************************************************************************)
(* What the server says when it serves a SUBSCRIBE or UNSUBSCRIBE          *)
(***************************************************************************)
\* After n confirmations of t by the command m.
Spoken(a, m, pattern, t, n) ==
    /\ Said(pattern, t, a.out) = IF m.op = "subscribe" THEN n ELSE 0
    /\ n = 0 => /\ Talk(pattern, t, a.out) = <<>>
                /\ <<pattern, t>> \in a.subs <=> <<pattern, t>> \in server.subs
    /\ n > 0 => /\ Talk(pattern, t, a.out) # <<>>
                /\ Talk(pattern, t, a.out)[Len(Talk(pattern, t, a.out))] = m.op
                /\ <<pattern, t>> \in a.subs <=> m.op = "subscribe"

LEMMA LastOfConcat ==
    ASSUME NEW V, NEW s \in Seq(V), NEW u \in Seq(V)
    PROVE  /\ u # <<>> => s \o u # <<>> /\ (s \o u)[Len(s \o u)] = u[Len(u)]
           /\ u = <<>> => s \o u = s
<1>1. Len(s) \in Nat /\ Len(u) \in Nat /\ Len(s \o u) = Len(s) + Len(u) /\ s \o u \in Seq(V)
  BY ConcatProperties, LenProperties
<1>2. CASE u = <<>>
  BY <1>2, ConcatEmptySeq
<1>3. CASE u # <<>>
  <2>1. Len(u) > 0
    BY <1>1, <1>3, EmptySeq
  <2>2. (s \o u)[Len(s) + Len(u)] = u[Len(s) + Len(u) - Len(s)]
    BY <1>1, <2>1, ConcatProperties
  <2>3. Len(s) + Len(u) - Len(s) = Len(u)
    BY <1>1
  <2>4. Len(s \o u) # 0
    BY <1>1, <2>1
  <2>5. s \o u # <<>>
    BY <2>4, EmptySeq
  <2> QED BY <1>1, <1>3, <2>2, <2>3, <2>5
<1> QED BY <1>2, <1>3

LEMMA ConfirmsSpeak ==
    ASSUME NEW m \in CommandType, m.op \in {"subscribe", "unsubscribe"}, NEW k \in Nat,
           NEW pattern \in BOOLEAN, NEW t \in DOMAIN Hash, NEW n \in Nat,
           NEW a \in Known, Spoken(a, m, pattern, t, n), NEW x \in DOMAIN Hash
    PROVE  Spoken(Confirms(m, k)[<<a, x>>], m, pattern, t,
                  n + IF m.pattern = pattern /\ x = t THEN 1 ELSE 0)
<1> DEFINE s == Changed(a.subs, m, x)
           r == Notice(m.op, k, x, m.pattern, Cardinality(s))
           b == Confirms(m, k)[<<a, x>>]
           w == Talk(pattern, t, a.out)
<1>1. a.subs \in SUBSET (BOOLEAN \X DOMAIN Hash) /\ IsFiniteSet(a.subs) /\ a.out \in Seq(PieceOf(AnyMessage))
  BY DEF Known
<1>2. Cardinality(s) \in Nat
  BY <1>1, ChangedTyped, FS_CardinalityType
<1>3. /\ r \in AnyMessage /\ r.op = m.op /\ r.topic = x /\ r.pattern = m.pattern
  BY <1>2 DEF Notice, AnyMessage, Kinds, CommandType
<1>4. b.subs = s /\ b.out = a.out \o Pieces(r)
  BY DEF Confirms, Told
<1>5. Changed(a.subs, m, x) =
        IF m.op = "subscribe" THEN a.subs \cup {<<m.pattern, x>>} ELSE a.subs \ {<<m.pattern, x>>}
  BY DEF Changed
<1> HIDE DEF r, s, b
<1>6. /\ Pieces(r) \in Seq(PieceOf(AnyMessage))
      /\ Said(pattern, t, Pieces(r)) = Len(Says(r, pattern, t))
      /\ Talk(pattern, t, Pieces(r)) = Tells(r, pattern, t)
  BY <1>3, PiecesTyped, SaidLaws, TalkLaws
<1>7. /\ Said(pattern, t, b.out) = Said(pattern, t, a.out) + Len(Says(r, pattern, t))
      /\ Talk(pattern, t, b.out) = w \o Tells(r, pattern, t)
      /\ w \in Seq({"subscribe", "unsubscribe"}) /\ Said(pattern, t, a.out) \in Nat
  <2> DEFINE o == a.out
             u == Pieces(r)
  <2>1. o \in Seq(PieceOf(AnyMessage)) /\ u \in Seq(PieceOf(AnyMessage)) /\ b.out = o \o u
    BY <1>1, <1>4, <1>6
  <2> HIDE DEF o, u
  <2>2. Said(pattern, t, o \o u) = Said(pattern, t, o) + Said(pattern, t, u) /\ Said(pattern, t, o) \in Nat
    BY <2>1, SaidLaws
  <2>3. /\ Talk(pattern, t, o \o u) = Talk(pattern, t, o) \o Talk(pattern, t, u)
        /\ Talk(pattern, t, o) \in Seq({"subscribe", "unsubscribe"})
    BY <2>1, TalkLaws
  <2> QED BY <1>6, <2>1, <2>2, <2>3 DEF o, u
<1>8. Len(<<t>>) = 1 /\ Len(<<>>) = 0 /\ <<>> # <<m.op>> /\ Len(<<m.op>>) = 1 /\ <<m.op>>[1] = m.op
  OBVIOUS
<1>9. CASE m.pattern = pattern /\ x = t
  <2>1. Says(r, pattern, t) = IF m.op = "subscribe" THEN <<t>> ELSE <<>>
    BY <1>3, <1>9 DEF Says
  <2>2. Tells(r, pattern, t) = <<m.op>>
    BY <1>3, <1>9 DEF Tells
  <2>3. <<m.op>> \in Seq({"subscribe", "unsubscribe"})
    OBVIOUS
  <2>4. w \o <<m.op>> # <<>> /\ (w \o <<m.op>>)[Len(w \o <<m.op>>)] = m.op
    <3> HIDE DEF w
    <3> QED BY <1>7, <1>8, <2>3, LastOfConcat
  <2>5. <<pattern, t>> \in b.subs <=> m.op = "subscribe"
    BY <1>4, <1>5, <1>9 DEF s
  <2>6. Said(pattern, t, b.out) = IF m.op = "subscribe" THEN n + 1 ELSE 0
    <3>1. Said(pattern, t, a.out) = IF m.op = "subscribe" THEN n ELSE 0
      BY DEF Spoken
    <3>2. Len(Says(r, pattern, t)) = IF m.op = "subscribe" THEN 1 ELSE 0
      BY <1>8, <2>1
    <3> QED BY <1>7, <3>1, <3>2
  <2>7. n + (IF m.pattern = pattern /\ x = t THEN 1 ELSE 0) = n + 1 /\ n + 1 # 0
    BY <1>9
  <2>8. Talk(pattern, t, b.out) # <<>> /\ Talk(pattern, t, b.out)[Len(Talk(pattern, t, b.out))] = m.op
    BY <1>7, <2>2, <2>4
  <2> HIDE DEF w
  <2>9. Spoken(b, m, pattern, t, n + 1)
    BY <2>5, <2>6, <2>7, <2>8 DEF Spoken
  <2> QED BY <2>7, <2>9 DEF b
<1>10. CASE ~(m.pattern = pattern /\ x = t)
  <2>1. Says(r, pattern, t) = <<>> /\ Tells(r, pattern, t) = <<>>
    BY <1>3, <1>10 DEF Says, Tells
  <2>2. Talk(pattern, t, b.out) = w
    <3> HIDE DEF w
    <3> QED BY <1>7, <2>1, ConcatEmptySeq
  <2>3. Said(pattern, t, b.out) = Said(pattern, t, a.out)
    BY <1>7, <1>8, <2>1
  <2>4. <<pattern, t>> \in b.subs <=> <<pattern, t>> \in a.subs
    BY <1>4, <1>5, <1>10 DEF s
  <2>5. n + (IF m.pattern = pattern /\ x = t THEN 1 ELSE 0) = n
    BY <1>10
  <2>6. Spoken(b, m, pattern, t, n)
    BY <2>2, <2>3, <2>4 DEF Spoken
  <2> QED BY <2>5, <2>6 DEF b
<1> QED BY <1>9, <1>10

LEMMA ConfirmSpeaks ==
    ASSUME Typed, NEW m \in CommandType, m.op \in {"subscribe", "unsubscribe"}, NEW k \in Nat,
           NEW pattern \in BOOLEAN, NEW t \in DOMAIN Hash
    PROVE  Spoken(Confirm(m, k), m, pattern, t, IF m.pattern = pattern THEN Times(t, Topics(m)) ELSE 0)
<1> DEFINE topics == Topics(m)
           n == Len(topics)
           at(i) == IF m.pattern = pattern THEN Times(t, SubSeq(topics, 1, i)) ELSE 0
           base == [subs |-> server.subs, out |-> <<>>]
           P == [i \in 0..n |-> {a \in Known : Spoken(a, m, pattern, t, at(i))}]
<1>1. PICK f \in [SUBSET (1..n) -> Known] :
        Folds(f, Confirms(m, k), base, topics, n) /\ Confirm(m, k) = f[1..n]
  BY ConfirmIs
<1>2. topics \in Seq(DOMAIN Hash)
  BY TopicsTyped
<1> HIDE DEF topics
<1>3. n \in Nat /\ at(0) = 0 /\ at(n) = IF m.pattern = pattern THEN Times(t, topics) ELSE 0
  BY <1>2, Beginnings, TimesLaws
<1>4. \A i \in 0..n - 1 :
        /\ topics[i + 1] \in DOMAIN Hash /\ at(i) \in Nat
        /\ at(i + 1) = at(i) + IF m.pattern = pattern /\ topics[i + 1] = t THEN 1 ELSE 0
  <2> TAKE i \in 0..n - 1
  <2> DEFINE u == SubSeq(topics, 1, i)
             x == topics[i + 1]
  <2>1. i \in 0..n
    BY <1>3
  <2>2. u \in Seq(DOMAIN Hash) /\ x \in DOMAIN Hash /\ SubSeq(topics, 1, i + 1) = Append(u, x)
    BY <1>2, <2>1, Beginnings
  <2>3. /\ at(i) = IF m.pattern = pattern THEN Times(t, u) ELSE 0
        /\ at(i + 1) = IF m.pattern = pattern THEN Times(t, Append(u, x)) ELSE 0
    BY <2>2
  <2> HIDE DEF u, x, at
  <2>4. Times(t, u) \in Nat /\ Times(t, Append(u, x)) = Times(t, u) + IF x = t THEN 1 ELSE 0
    BY <2>2, TimesLaws
  <2>5. /\ x \in DOMAIN Hash /\ at(i) \in Nat
        /\ at(i + 1) = at(i) + IF m.pattern = pattern /\ x = t THEN 1 ELSE 0
    BY <2>2, <2>3, <2>4
  <2> QED BY <2>5 DEF x
<1> HIDE DEF at
<1>5. base \in P[0]
  <2>1. base \in Known
    BY NowTyped DEF Known, Servers
  <2>2. Said(pattern, t, <<>>) = 0 /\ Talk(pattern, t, <<>>) = <<>>
    BY SaidLaws, TalkLaws
  <2>3. base.out = <<>> /\ base.subs = server.subs
    OBVIOUS
  <2> HIDE DEF base
  <2>4. Spoken(base, m, pattern, t, 0)
    BY <2>2, <2>3 DEF Spoken
  <2>5. 0 \in 0..n
    BY <1>3
  <2> QED BY <1>3, <2>1, <2>4, <2>5
<1>6. \A i \in 0..n - 1 : \A a \in P[i] : Confirms(m, k)[<<a, topics[i + 1]>>] \in P[i + 1]
  <2> TAKE i \in 0..n - 1
  <2> TAKE a \in P[i]
  <2>1. i \in 0..n /\ i + 1 \in 0..n
    BY <1>3
  <2>2. a \in Known /\ Spoken(a, m, pattern, t, at(i))
    BY <2>1
  <2> DEFINE x == topics[i + 1]
             l == at(i)
             b == Confirms(m, k)[<<a, x>>]
  <2>3. x \in DOMAIN Hash /\ l \in Nat /\ at(i + 1) = l + IF m.pattern = pattern /\ x = t THEN 1 ELSE 0
    BY <1>4
  <2> HIDE DEF x, l, P
  <2>4. b \in Known
    BY <2>2, <2>3, ConfirmsTyped
  <2>5. Spoken(b, m, pattern, t, l + IF m.pattern = pattern /\ x = t THEN 1 ELSE 0)
    BY <2>2, <2>3, ConfirmsSpeak DEF l
  <2> HIDE DEF b
  <2>6. b \in P[i + 1]
    BY <2>1, <2>3, <2>4, <2>5 DEF P
  <2> QED BY <2>6 DEF b, x
<1>7. f[1..n] \in P[n]
  <2> HIDE DEF P, base
  <2> QED BY <1>1, <1>3, <1>5, <1>6, FoldsInduction
<1>8. n \in 0..n
  BY <1>3
<1>9. Spoken(f[1..n], m, pattern, t, at(n))
  BY <1>7, <1>8
<1> QED BY <1>1, <1>3, <1>9 DEF topics

(***************************************************************************)
(* Steps that ask for nothing and change no subscription                   *)
(***************************************************************************)
LEMMA OwedTyped ==
    ASSUME Typed, pc \in InLoop, NEW pattern \in BOOLEAN, NEW t \in DOMAIN Hash
    PROVE  /\ Owed(pattern, t) \in Nat /\ Word(pattern, t) \in Seq({"subscribe", "unsubscribe"})
           /\ Asked(cmds, pattern, t, up \o c.obuf.chars) \in Nat
           /\ Said(pattern, t, c.inbuf \o down) \in Nat
<1> DEFINE a == up \o c.obuf.chars
           b == c.inbuf \o down
<1>1. a \in Seq(Numbered(issued)) /\ b \in Seq(PieceOf(AnyMessage))
  BY StreamsTyped
<1>2. Len(cmds) = issued /\ cmds \in Seq(CommandType)
  BY DEF Typed, Answering, Counted
<1> HIDE DEF a, b
<1>3. Asked(cmds, pattern, t, a) \in Nat
  BY <1>1, <1>2, AskedLaws
<1>4. Said(pattern, t, b) \in Nat
  BY <1>1, SaidLaws
<1>5. Talk(pattern, t, b) \in Seq({"subscribe", "unsubscribe"})
  BY <1>1, TalkLaws
<1> QED BY <1>3, <1>4, <1>5 DEF Owed, Word, a, b

\* No more is owed, and the last word about the topic is the same or was heard.
Eased(pattern, t) ==
    /\ Owed(pattern, t)' \in Nat /\ Owed(pattern, t)' <= Owed(pattern, t)
    /\ Word(pattern, t)' # <<>> =>
         /\ Word(pattern, t) # <<>>
         /\ Word(pattern, t)'[Len(Word(pattern, t)')] = Word(pattern, t)[Len(Word(pattern, t))]

Calm ==
    /\ Has(c, "SUBSCRIBED") => Has(c', "SUBSCRIBED")
    /\ ac'.channels = ac.channels /\ ac'.patterns = ac.patterns
    /\ server'.subs = server.subs
    /\ peer' = "pending" => peer = "pending" /\ up' = up /\ down' = down /\ c'.inbuf = c.inbuf

LEMMA CalmKeeps ==
    ASSUME Typed, Heard, pc \in Served, pc' \in Served, Calm,
           \A pattern \in BOOLEAN, t \in DOMAIN Hash : Eased(pattern, t)
    PROVE  Heard'
<1>1. peer' = "pending" => up' = <<>> /\ down' = <<>> /\ c'.inbuf = <<>>
  BY DEF Heard, Calm
<1>2. NonNegative(ac.channels)' /\ NonNegative(ac.patterns)'
  BY DEF Heard, Calm, NonNegative
<1>3. ASSUME NEW pattern \in BOOLEAN, NEW t \in DOMAIN Hash PROVE Kept1(pattern, t)'
  <2>1. Kept1(pattern, t) /\ Eased(pattern, t)
    BY DEF Heard
  <2>2. Owed(pattern, t) \in Nat /\ Owed(pattern, t)' \in Nat
    <3>1. pc \in InLoop
      BY DEF Served, InLoop
    <3>2. Owed(pattern, t) \in Nat
      BY <3>1, OwedTyped
    <3> QED BY <2>1, <3>2 DEF Eased
  <2> DEFINE n == Owed(pattern, t)
             l == Owed(pattern, t)'
             w == Word(pattern, t)
             x == Word(pattern, t)'
             d == DictOf(ac, pattern)
             b == <<pattern, t>> \in server.subs
  <2>3. DictOf(ac', pattern) = d /\ (<<pattern, t>> \in server'.subs <=> b)
    BY DEF Calm, DictOf
  <2>4. Covered(c', DictOf(ac', pattern), t, l, <<pattern, t>> \in server'.subs)
    <3>1. Covered(c, d, t, n, b)
      BY <2>1 DEF Kept1
    <3>2. l <= n
      BY <2>1 DEF Eased
    <3>3. (l > 0 \/ b) => (n > 0 \/ b)
      <4> HIDE DEF n, l, b
      <4> QED BY <2>2, <3>2 DEF n, l
    <3>4. (l > 0 \/ b) => dictFind(d, t).pending >= l
      <4>1. d \in Table
        BY NowTyped, AsyncFieldsTyped
      <4>2. dictHas(d, t) => dictFind(d, t).pending \in Int
        <5>1. dictHas(d, t) => dictFind(d, t) \in Callbacks
          BY <4>1, ValueTyped DEF Table
        <5> QED BY <5>1 DEF Callbacks
      <4> HIDE DEF n, l, b, d
      <4> QED BY <2>2, <3>1, <3>2, <3>3, <4>2 DEF Covered, n, l
    <3> HIDE DEF n, l, b, d
    <3> QED BY <2>3, <3>1, <3>3, <3>4 DEF Covered, Calm
  <2>5. LastWord(x, <<pattern, t>> \in server'.subs)
    <3>1. LastWord(w, b)
      BY <2>1 DEF Kept1
    <3>2. x # <<>> => w # <<>> /\ x[Len(x)] = w[Len(w)]
      BY <2>1 DEF Eased
    <3> HIDE DEF w, x, b
    <3> QED BY <2>3, <3>1, <3>2 DEF LastWord
  <2> HIDE DEF Word, Owed
  <2> QED BY <2>4, <2>5 DEF Kept1
<1>4. \A pattern \in BOOLEAN, t \in DOMAIN Hash : Kept1(pattern, t)'
  BY <1>3
<1> QED BY <1>1, <1>2, <1>4 DEF Heard

\* What is in the buffers moves on, or nothing does.
LEMMA FlowEases ==
    ASSUME Typed, pc \in InLoop, cmds' = cmds, up' \o c'.obuf.chars = up \o c.obuf.chars,
           c'.inbuf \o down' = c.inbuf \o down, NEW pattern \in BOOLEAN, NEW t \in DOMAIN Hash
    PROVE  Eased(pattern, t)
<1>1. Owed(pattern, t)' = Owed(pattern, t)
  BY DEF Owed, Asked, Said
<1>2. Word(pattern, t)' = Word(pattern, t)
  BY DEF Word, Talk
<1>3. Owed(pattern, t) \in Nat
  BY OwedTyped
<1> HIDE DEF Owed, Word
<1>4. Owed(pattern, t)' \in Nat /\ Owed(pattern, t)' <= Owed(pattern, t)
  BY <1>1, <1>3
<1> QED BY <1>2, <1>4 DEF Eased

LEMMA StillKeeps ==
    ASSUME Typed, Heard, pc \in Served, pc' \in Served,
           Has(c, "SUBSCRIBED") => Has(c', "SUBSCRIBED"),
           ac'.channels = ac.channels /\ ac'.patterns = ac.patterns,
           c'.obuf = c.obuf /\ c'.inbuf = c.inbuf, UNCHANGED <<peer, up, down, server, cmds>>
    PROVE  Heard'
<1>1. Calm
  BY DEF Calm
<1>2. pc \in InLoop
  BY DEF Served, InLoop
<1>3. \A pattern \in BOOLEAN, t \in DOMAIN Hash : Eased(pattern, t)
  BY <1>2, FlowEases
<1> QED BY <1>1, <1>3, CalmKeeps

LEMMA FreeingStops ==
    ASSUME NEW k, NEW a, StartFree(k, a) \/ Disconnect(k, a)
    PROVE  pc' \notin Served
BY DEF StartFree, Disconnect, Crash, Served

\* The buffers and subscribed mode of a context with other flags or an error.
Alike(j, k) ==
    /\ j.obuf = k.obuf /\ j.inbuf = k.inbuf
    /\ Has(k, "SUBSCRIBED") => Has(j, "SUBSCRIBED")

LEMMA FlagsAlike ==
    ASSUME NEW n, NEW k \in Contexts(n)
    PROVE  /\ \A f : Alike(Set(k, f), k)
           /\ \A f : f # "SUBSCRIBED" => Alike(Unset(k, f), k)
           /\ \A e : Alike(SetError(k, e), k)
<1>1. ASSUME NEW f PROVE Alike(Set(k, f), k)
  BY DEF Alike, Set, Has, Contexts
<1>2. ASSUME NEW f, f # "SUBSCRIBED" PROVE Alike(Unset(k, f), k)
  BY <1>2 DEF Alike, Unset, Has, Contexts
<1>3. ASSUME NEW e PROVE Alike(SetError(k, e), k)
  BY DEF Alike, SetError, Has, Contexts
<1> QED BY <1>1, <1>2, <1>3

LEMMA FlagStepsHeard ==
    ASSUME Typed, Heard, pc \in Served, pc' \in Served,
           AppFree \/ AppDisconnect \/ ConnectCallbackReturns \/ CallbackReturns
    PROVE  Heard'
<1>1. c \in Contexts(issued)
  BY NowTyped
<1>2. /\ c' \in {Set(c, "FREEING"), Set(c, "DISCONNECTING"), c, Unset(c, "IN_CALLBACK")}
      /\ ac' = ac /\ Still /\ cmds' = cmds
  <2>1. CASE AppFree
    BY <2>1, FreeingStops DEF AppFree, Quiet
  <2>2. CASE AppDisconnect
    BY <2>2, FreeingStops DEF AppDisconnect, Quiet
  <2>3. CASE ConnectCallbackReturns
    BY <2>3 DEF ConnectCallbackReturns, Quiet
  <2>4. CASE CallbackReturns
    BY <2>4, FreeingStops DEF CallbackReturns, Quiet
  <2> QED BY <2>1, <2>2, <2>3, <2>4
<1>3. Alike(c', c)
  <2>1. Alike(Set(c, "FREEING"), c) /\ Alike(Set(c, "DISCONNECTING"), c) /\ Alike(Unset(c, "IN_CALLBACK"), c)
    BY <1>1, FlagsAlike
  <2>2. Alike(c, c)
    BY DEF Alike
  <2> QED BY <1>2, <2>1, <2>2
<1> QED BY <1>2, <1>3, StillKeeps DEF Alike, Still

(***************************************************************************)
(* Read and write events                                                   *)
(***************************************************************************)
LEMMA ReadEventHeard ==
    ASSUME Typed, Heard, pc \in Served, pc' \in Served, cmds' = cmds,
           NEW a, a.channels = ac.channels, a.patterns = ac.patterns, DOMAIN a = DOMAIN NoContext,
           ReadEvent(c, a)
    PROVE  Heard'
<1>1. c \in Contexts(issued) /\ down \in Seq(PieceOf(AnyMessage)) /\ pc \in InLoop
  BY NowTyped DEF Served, InLoop
<1>2. PICK n \in 1..Len(down) : /\ c' = [c EXCEPT !.inbuf = @ \o SubSeq(down, 1, n)]
                                /\ down' = SubSeq(down, n + 1, Len(down))
                                /\ ac' = [a EXCEPT !.ev = @ \cup {"read"}]
                                /\ UNCHANGED <<peer, up, server>>
  BY FreeingStops DEF ReadEvent
<1> DEFINE x == SubSeq(down, 1, n)
           y == SubSeq(down, n + 1, Len(down))
<1>3. x \in Seq(PieceOf(AnyMessage)) /\ y \in Seq(PieceOf(AnyMessage)) /\ x \o y = down /\ n \in Nat
  BY <1>1, TakenApart
<1>4. c'.obuf = c.obuf /\ c'.inbuf = c.inbuf \o x /\ c'.flags = c.flags
  BY <1>1, <1>2 DEF Contexts
<1>5. ac'.channels = ac.channels /\ ac'.patterns = ac.patterns
  BY <1>2 DEF NoContext
<1>6. c.inbuf \in Seq(PieceOf(AnyMessage)) /\ down' = y
  BY <1>1, <1>2 DEF Contexts
<1>7. c'.inbuf \o down' = c.inbuf \o down
  <2> HIDE DEF x, y
  <2>1. (c.inbuf \o x) \o y = c.inbuf \o (x \o y)
    <3> DEFINE S == PieceOf(AnyMessage)
               b == c.inbuf
    <3>1. b \in Seq(S) /\ x \in Seq(S) /\ y \in Seq(S)
      BY <1>3, <1>6
    <3> HIDE DEF S, b
    <3> (b \o x) \o y = b \o (x \o y)
      BY <3>1, ConcatAssociative, SMTT(60)
    <3> QED BY DEF b
  <2> QED BY <1>3, <1>4, <1>6, <2>1
<1>8. peer # "pending"
  <2>1. down # <<>>
    <3> SUFFICES ASSUME down = <<>> PROVE FALSE
      OBVIOUS
    <3>1. Len(down) = 0
      OBVIOUS
    <3> QED BY <3>1
  <2> QED BY <2>1 DEF Heard
<1>9. Calm
  BY <1>2, <1>4, <1>5, <1>8 DEF Calm, Has
<1>10. \A pattern \in BOOLEAN, t \in DOMAIN Hash : Eased(pattern, t)
  BY <1>1, <1>2, <1>4, <1>7, FlowEases
<1> QED BY <1>9, <1>10, CalmKeeps

LEMMA SentChars ==
    ASSUME Typed, NEW n \in 0..c.obuf.len
    PROVE  Sent(n).obuf.chars = SubSeq(c.obuf.chars, n + 1, Len(c.obuf.chars))
<1> DEFINE s == c.obuf
<1>1. c \in Contexts(issued)
  BY NowTyped
<1>2. s \in String(Numbered(issued)) /\ s.type # 0
  BY <1>1 DEF Contexts, Buffers
<1>3. s.len = Len(s.chars) /\ s.len \in Nat /\ s.chars \in Seq(Numbered(issued))
  BY <1>2, StringFacts
<1>4. Sent(n).obuf = IF n = s.len THEN sdsempty ELSE sdsrange(s, n)
  BY <1>1 DEF Sent, Contexts
<1>5. n \in Nat
  BY <1>3
<1> HIDE DEF s
<1>6. CASE n = s.len
  <2>1. SubSeq(s.chars, n + 1, Len(s.chars)) = <<>>
    BY <1>3, <1>6, SubSeqEmpty
  <2> QED BY <1>4, <1>6, <2>1, EmptyString DEF s
<1>7. CASE n # s.len
  <2>1. sdsrange(s, n).chars = SubSeq(s.chars, n + 1, s.len)
    BY <1>2, <1>5, RestExact
  <2> QED BY <1>3, <1>4, <1>7, <2>1 DEF s
<1> QED BY <1>6, <1>7

LEMMA WriteEventHeard ==
    ASSUME Typed, Heard, pc \in Served, pc' \in Served, cmds' = cmds,
           NEW a, a.channels = ac.channels, a.patterns = ac.patterns, DOMAIN a = DOMAIN NoContext,
           WriteEvent(c, a)
    PROVE  Heard'
<1>1. c \in Contexts(issued) /\ pc \in InLoop
  BY NowTyped DEF Served, InLoop
<1>2. PICK n \in 0..c.obuf.len :
        /\ c' = [c EXCEPT !.obuf = Sent(n).obuf] /\ up' = Arrives(n)
        /\ ac' = [a EXCEPT !.ev = (@ \ {"write"}) \cup {"read"} \cup
                                    IF n < c.obuf.len THEN {"write"} ELSE {}]
        /\ UNCHANGED <<peer, down, server>>
  BY FreeingStops DEF WriteEvent
<1> DEFINE s == c.obuf.chars
           x == SubSeq(s, 1, n)
           y == SubSeq(s, n + 1, Len(s))
<1>3. c'.obuf.chars = y /\ c'.inbuf = c.inbuf /\ c'.flags = c.flags
  <2>1. c'.obuf = Sent(n).obuf /\ c'.inbuf = c.inbuf /\ c'.flags = c.flags
    BY <1>1, <1>2 DEF Contexts
  <2> QED BY <2>1, SentChars
<1>4. ac'.channels = ac.channels /\ ac'.patterns = ac.patterns
  BY <1>2 DEF NoContext
<1>5. s \in Seq(Numbered(issued)) /\ up \in Seq(Numbered(issued)) /\ c.obuf.len = Len(s)
  BY StreamsTyped
<1>6. x \in Seq(Numbered(issued)) /\ y \in Seq(Numbered(issued)) /\ x \o y = s
  <2> HIDE DEF s
  <2> QED BY <1>5, TakenApart
<1>7. up' = IF peer = "up" THEN up \o x ELSE up
  BY <1>2 DEF Arrives
<1>8. Calm
  <2>1. peer = "pending" => up' = up
    BY <1>7
  <2> QED BY <1>2, <1>3, <1>4, <2>1 DEF Calm, Has
<1>9. c'.inbuf \o down' = c.inbuf \o down
  BY <1>2, <1>3
<1> HIDE DEF s, x, y
<1>10. CASE peer = "up"
  <2>a. (up \o x) \o y = up \o (x \o y)
    <3> DEFINE S == Numbered(issued)
    <3>1. up \in Seq(S) /\ x \in Seq(S) /\ y \in Seq(S)
      BY <1>5, <1>6
    <3> HIDE DEF S
    <3> QED BY <3>1, ConcatAssociative, SMTT(60)
  <2>1. up' \o c'.obuf.chars = up \o s
    BY <1>3, <1>6, <1>7, <1>10, <2>a
  <2>2. \A pattern \in BOOLEAN, t \in DOMAIN Hash : Eased(pattern, t)
    BY <1>1, <1>9, <2>1, FlowEases DEF s
  <2> QED BY <1>8, <2>2, CalmKeeps
<1>11. CASE peer # "up"
  <2>1. ASSUME NEW pattern \in BOOLEAN, NEW t \in DOMAIN Hash PROVE Eased(pattern, t)
    <3>1. Len(cmds) = issued /\ cmds \in Seq(CommandType)
      BY <1>1 DEF Typed, Answering, Counted
    <3> DEFINE A(q) == Asked(cmds, pattern, t, q)
    <3>2. /\ A(up \o s) = A(up) + A(s) /\ A(s) = A(x) + A(y) /\ A(up \o y) = A(up) + A(y)
          /\ A(x) \in Nat /\ A(up) \in Nat /\ A(y) \in Nat
      <4>1. /\ \A q \in Seq(Numbered(issued)) : A(q) \in Nat
            /\ \A q, r \in Seq(Numbered(issued)) : A(q \o r) = A(q) + A(r)
        BY <3>1, AskedLaws
      <4> HIDE DEF A
      <4> QED BY <1>5, <1>6, <4>1
    <3>3. Owed(pattern, t) = A(up \o s) + Said(pattern, t, c.inbuf \o down)
      BY DEF Owed, s
    <3>4. Owed(pattern, t)' = A(up \o y) + Said(pattern, t, c.inbuf \o down)
      <4>1. Owed(pattern, t)' = Asked(cmds', pattern, t, up' \o c'.obuf.chars) + Said(pattern, t, c'.inbuf \o down')
        BY DEF Owed, Asked, Said
      <4> QED BY <1>3, <1>7, <1>9, <1>11, <4>1
    <3>5. Word(pattern, t)' = Word(pattern, t)
      BY <1>9 DEF Word, Talk
    <3>6. Said(pattern, t, c.inbuf \o down) \in Nat
      BY <1>1, OwedTyped
    <3> HIDE DEF A
    <3>7. Owed(pattern, t)' \in Nat /\ Owed(pattern, t)' <= Owed(pattern, t)
      <4> DEFINE o == Owed(pattern, t)
                 l == Owed(pattern, t)'
      <4>1. o = A(up \o s) + Said(pattern, t, c.inbuf \o down)
            /\ l = A(up \o y) + Said(pattern, t, c.inbuf \o down)
        BY <3>3, <3>4
      <4> HIDE DEF o, l
      <4>2. l \in Nat /\ l <= o
        BY <3>2, <3>6, <4>1
      <4> QED BY <4>2 DEF o, l
    <3> QED BY <3>5, <3>7 DEF Eased
  <2> QED BY <1>8, <2>1, CalmKeeps
<1> QED BY <1>10, <1>11

LEMMA EventsHeard ==
    ASSUME Typed, Control, Heard, pc \in Served, pc' \in Served,
           HandleRead \/ HandleWrite \/ HandleEvent
    PROVE  Heard'
<1>1. c \in Contexts(issued) /\ ac \in AsyncContexts
  BY NowTyped
<1>2. cmds' = cmds
  BY DEF HandleRead, HandleWrite, HandleEvent, Quiet
<1>3. \A ev : /\ [ac EXCEPT !.ev = ev].channels = ac.channels /\ [ac EXCEPT !.ev = ev].patterns = ac.patterns
              /\ DOMAIN [ac EXCEPT !.ev = ev] = DOMAIN NoContext
  BY <1>1 DEF AsyncContexts, NoContext
<1>4. DOMAIN ac = DOMAIN NoContext
  BY <1>1 DEF AsyncContexts, NoContext
<1>5. ASSUME NEW a, a.channels = ac.channels, a.patterns = ac.patterns, DOMAIN a = DOMAIN NoContext,
             ReadEvent(c, a) \/ WriteEvent(c, a)
      PROVE  Heard'
  <2>1. CASE ReadEvent(c, a)
    BY <1>2, <1>5, <2>1, ReadEventHeard
  <2>2. CASE WriteEvent(c, a)
    BY <1>2, <1>5, <2>2, WriteEventHeard
  <2> QED BY <1>5, <2>1, <2>2
<1>6. ASSUME NEW then, NEW a, a.channels = ac.channels, a.patterns = ac.patterns, FirstEvent(then, a)
      PROVE  Heard'
  <2>1. /\ c' \in {SetError(c, "io"), Set(c, "CONNECTED")} /\ ac' = a /\ Still
    BY <1>6 DEF FirstEvent
  <2>2. Alike(c', c)
    <3>1. Alike(SetError(c, "io"), c) /\ Alike(Set(c, "CONNECTED"), c)
      BY <1>1, FlagsAlike
    <3> QED BY <2>1, <3>1
  <2> QED BY <1>2, <1>6, <2>1, <2>2, StillKeeps DEF Alike, Still
<1>7. CASE HandleRead
  <2> DEFINE a == [ac EXCEPT !.ev = @ \ {"read"}]
  <2>1. a.channels = ac.channels /\ a.patterns = ac.patterns /\ DOMAIN a = DOMAIN NoContext
    BY <1>3
  <2>2. ReadEvent(c, a) \/ FirstEvent("read", a)
    BY <1>7 DEF HandleRead
  <2> HIDE DEF a
  <2> QED BY <1>5, <1>6, <2>1, <2>2
<1>8. CASE HandleWrite
  <2> DEFINE a == [ac EXCEPT !.ev = @ \ {"write"}]
  <2>1. a.channels = ac.channels /\ a.patterns = ac.patterns /\ DOMAIN a = DOMAIN NoContext
    BY <1>3
  <2>2. WriteEvent(c, a) \/ FirstEvent("write", a)
    BY <1>8 DEF HandleWrite
  <2> HIDE DEF a
  <2> QED BY <1>5, <1>6, <2>1, <2>2
<1>9. CASE HandleEvent
  <2>1. pc = "event" /\ frame.then \in {"abort", "read", "write"}
    BY <1>9 DEF HandleEvent, Control, Resumes
  <2>2. Disconnect(c, ac) \/ ReadEvent(c, ac) \/ WriteEvent(c, ac)
    BY <1>9, <2>1 DEF HandleEvent
  <2>3. ReadEvent(c, ac) \/ WriteEvent(c, ac)
    BY <2>2, FreeingStops
  <2> QED BY <1>4, <1>5, <2>3
<1> QED BY <1>7, <1>8, <1>9

(***************************************************************************)
(* Replies                                                                 *)
(***************************************************************************)
\* The first message is taken out of the reader.
LEMMA TakenHeard ==
    ASSUME Typed, pc \in InLoop, Whole(c.inbuf), cmds' = cmds, up' = up, down' = down,
           c'.obuf = c.obuf, c'.inbuf = Behind(c.inbuf),
           NEW pattern \in BOOLEAN, NEW t \in DOMAIN Hash
    PROVE  /\ Owed(pattern, t) = Owed(pattern, t)' + Len(Says(First(c.inbuf), pattern, t))
           /\ Word(pattern, t) = Tells(First(c.inbuf), pattern, t) \o Word(pattern, t)'
           /\ Owed(pattern, t)' \in Nat /\ Word(pattern, t)' \in Seq({"subscribe", "unsubscribe"})
           /\ Said(pattern, t, c.inbuf \o down) \in Nat
           /\ Asked(cmds, pattern, t, up \o c.obuf.chars) \in Nat
<1> DEFINE Q == PieceOf(AnyMessage)
           s == c.inbuf
           r == First(s)
           b == Behind(s)
           A == Asked(cmds, pattern, t, up \o c.obuf.chars)
           W == {"subscribe", "unsubscribe"}
<1>1. s \in Seq(Q) /\ down \in Seq(Q) /\ r \in AnyMessage /\ b \in Seq(Q) /\ Whole(s)
  BY StreamsTyped, BehindTyped
<1>2. Owed(pattern, t) = A + Said(pattern, t, s \o down) /\ Word(pattern, t) = Talk(pattern, t, s \o down)
  BY DEF Owed, Word
<1>3. Owed(pattern, t)' = A + Said(pattern, t, b \o down) /\ Word(pattern, t)' = Talk(pattern, t, b \o down)
  BY DEF Owed, Word, Asked, Said, Talk
<1>4. A \in Nat /\ Said(pattern, t, s \o down) \in Nat
  BY OwedTyped
<1> HIDE DEF Q, s, r, b, A, W
<1>5. /\ Said(pattern, t, s \o down) = Said(pattern, t, s) + Said(pattern, t, down)
      /\ Said(pattern, t, b \o down) = Said(pattern, t, b) + Said(pattern, t, down)
      /\ Said(pattern, t, s) = Len(Says(r, pattern, t)) + Said(pattern, t, b)
      /\ Said(pattern, t, b) \in Nat /\ Said(pattern, t, down) \in Nat
  BY <1>1, SaidLaws DEF Q, r, b
<1>6. /\ Talk(pattern, t, s \o down) = Talk(pattern, t, s) \o Talk(pattern, t, down)
      /\ Talk(pattern, t, b \o down) = Talk(pattern, t, b) \o Talk(pattern, t, down)
      /\ Talk(pattern, t, s) = Tells(r, pattern, t) \o Talk(pattern, t, b)
      /\ Talk(pattern, t, b) \in Seq(W) /\ Talk(pattern, t, down) \in Seq(W)
  BY <1>1, TalkLaws, ZenonT(60) DEF Q, r, b, W
<1>7. Len(Says(r, pattern, t)) \in Nat /\ Tells(r, pattern, t) \in Seq(W)
  BY <1>1, HeardGiven DEF W
<1>8. Word(pattern, t) = Tells(r, pattern, t) \o Word(pattern, t)'
  <2> DEFINE x == Tells(r, pattern, t)
             y == Talk(pattern, t, b)
             z == Talk(pattern, t, down)
  <2>1. x \in Seq(W) /\ y \in Seq(W) /\ z \in Seq(W)
    BY <1>6, <1>7
  <2>2. Word(pattern, t) = (x \o y) \o z
    BY <1>2, <1>6
  <2>3. Word(pattern, t)' = y \o z
    BY <1>3, <1>6
  <2> HIDE DEF x, y, z
  <2>4. (x \o y) \o z = x \o (y \o z)
    BY <2>1, ConcatAssociative, SMTT(60)
  <2> QED BY <2>2, <2>3, <2>4 DEF x
<1>9. Word(pattern, t)' \in Seq(W)
  BY <1>3, <1>6, ConcatProperties
<1>10. /\ Owed(pattern, t) = Owed(pattern, t)' + Len(Says(r, pattern, t))
       /\ Owed(pattern, t)' \in Nat
  <2> DEFINE o == Owed(pattern, t)
             l == Owed(pattern, t)'
  <2>1. o = A + Said(pattern, t, s \o down) /\ l = A + Said(pattern, t, b \o down)
    BY <1>2, <1>3
  <2> HIDE DEF o, l
  <2>2. o = l + Len(Says(r, pattern, t)) /\ l \in Nat
    BY <1>4, <1>5, <1>7, <2>1
  <2> QED BY <2>2 DEF o, l
<1> QED BY <1>4, <1>8, <1>9, <1>10 DEF r, s, W, A

\* It is forgotten: no more is owed.
LEMMA TakenEases ==
    ASSUME Typed, pc \in InLoop, Whole(c.inbuf), cmds' = cmds, up' = up, down' = down,
           c'.obuf = c.obuf, c'.inbuf = Behind(c.inbuf),
           NEW pattern \in BOOLEAN, NEW t \in DOMAIN Hash
    PROVE  Eased(pattern, t)
<1> DEFINE r == First(c.inbuf)
           W == {"subscribe", "unsubscribe"}
           x == Tells(r, pattern, t)
           y == Word(pattern, t)'
           w == Word(pattern, t)
           o == Owed(pattern, t)
           l == Owed(pattern, t)'
           e == Len(Says(r, pattern, t))
<1>1. o = l + e /\ w = x \o y /\ l \in Nat /\ y \in Seq(W)
  BY TakenHeard
<1>2. e \in Nat /\ x \in Seq(W)
  <2>1. r \in AnyMessage
    BY StreamsTyped, BehindTyped
  <2> QED BY <2>1, HeardGiven
<1> HIDE DEF r, W, x, y, w, o, l, e
<1>3. l \in Nat /\ l <= o
  BY <1>1, <1>2
<1>4. y # <<>> => w # <<>> /\ w[Len(w)] = y[Len(y)]
  BY <1>1, <1>2, LastOfConcat
<1> QED BY <1>3, <1>4 DEF Eased, y, w, o, l

LEMMA WholeHere ==
    ASSUME Typed, Heard, pc \in Served, Whole(c.inbuf)
    PROVE  peer # "pending" /\ First(c.inbuf) \in AnyMessage
<1>1. c.inbuf \in Seq(PieceOf(AnyMessage))
  BY StreamsTyped
<1>2. End(c.inbuf) \in 1..Len(c.inbuf)
  BY <1>1, EndFacts
<1>3. c.inbuf # <<>>
  <2> SUFFICES ASSUME c.inbuf = <<>> PROVE FALSE
    OBVIOUS
  <2>1. Len(c.inbuf) = 0
    OBVIOUS
  <2> QED BY <1>2, <2>1
<1> QED BY <1>1, <1>3, BehindTyped DEF Heard

\* A callback runs, or none, for a message that ends no subscription.
LEMMA RunHeard ==
    ASSUME Typed, Heard, pc \in Served, pc' \in Served, cmds' = cmds, Whole(c.inbuf),
           NEW a, a.channels = ac.channels, a.patterns = ac.patterns, NEW cb, NEW r,
           Run([c EXCEPT !.inbuf = Behind(@)], a, cb, r)
    PROVE  Heard'
<1> DEFINE k == [c EXCEPT !.inbuf = Behind(@)]
<1>1. c \in Contexts(issued) /\ pc \in InLoop
  BY NowTyped DEF Served, InLoop
<1>2. k \in Contexts(issued)
  <2>1. Behind(c.inbuf) \in Seq(PieceOf(AnyMessage))
    BY StreamsTyped, BehindTyped
  <2> QED BY <1>1, <2>1, NowTyped, FieldsTyped
<1>3. k.obuf = c.obuf /\ k.inbuf = Behind(c.inbuf) /\ k.flags = c.flags
  BY <1>1 DEF Contexts
<1>4. ac' = a /\ Still /\ c' \in {k, Set(k, "IN_CALLBACK")}
  BY DEF Run
<1> HIDE DEF k
<1>5. Alike(c', k)
  <2>1. Alike(Set(k, "IN_CALLBACK"), k) /\ Alike(k, k)
    BY <1>2, FlagsAlike DEF Alike
  <2> QED BY <1>4, <2>1
<1>6. c'.obuf = c.obuf /\ c'.inbuf = Behind(c.inbuf) /\ (Has(c, "SUBSCRIBED") => Has(c', "SUBSCRIBED"))
  BY <1>3, <1>5 DEF Alike, Has
<1>7. peer # "pending"
  BY WholeHere
<1>8. Calm
  BY <1>4, <1>6, <1>7 DEF Calm, Still
<1>9. \A pattern \in BOOLEAN, t \in DOMAIN Hash : Eased(pattern, t)
  BY <1>1, <1>4, <1>6, TakenEases DEF Still
<1> QED BY <1>8, <1>9, CalmKeeps

LEMMA SaysOf ==
    ASSUME NEW r, NEW pattern, NEW t
    PROVE  /\ Len(Says(r, pattern, t)) =
                IF r.op = "subscribe" /\ r.pattern = pattern /\ r.topic = t THEN 1 ELSE 0
           /\ r.op \notin {"subscribe", "unsubscribe"} => Tells(r, pattern, t) = <<>>
           /\ ~(r.pattern = pattern /\ r.topic = t) => Tells(r, pattern, t) = <<>>
           /\ r.op \in {"subscribe", "unsubscribe"} /\ r.pattern = pattern /\ r.topic = t =>
                Tells(r, pattern, t) = <<r.op>>
<1>1. Len(<<t>>) = 1 /\ Len(<<>>) = 0
  OBVIOUS
<1>2. Says(r, pattern, t) =
        IF r.op = "subscribe" /\ r.pattern = pattern /\ r.topic = t THEN <<t>> ELSE <<>>
  BY DEF Says
<1>3. Len(Says(r, pattern, t)) =
        IF r.op = "subscribe" /\ r.pattern = pattern /\ r.topic = t THEN 1 ELSE 0
  BY <1>1, <1>2
<1>4. Tells(r, pattern, t) =
        IF r.op \in {"subscribe", "unsubscribe"} /\ r.pattern = pattern /\ r.topic = t
        THEN <<r.op>> ELSE <<>>
  BY DEF Tells
<1> QED BY <1>3, <1>4

\* News of one topic: what the message r takes from what is owed, and what it
\* does to the dictionary.
Hears(r, pattern, t, d, n, l, b, w, x) ==
    /\ n = l + Len(Says(r, pattern, t)) /\ w = Tells(r, pattern, t) \o x
    /\ n = 0 => w \in Seq({"unsubscribe"})
    /\ (n > 0 \/ b) => dictHas(d, t) /\ dictFind(d, t).pending >= n
    /\ LastWord(w, b)
    /\ dictHas(d, t) => dictFind(d, t).pending >= 0

Heeds(r, pattern, t, d, e) ==
    /\ ~(r.pattern = pattern /\ r.topic = t) =>
         /\ dictHas(e, t) <=> dictHas(d, t)
         /\ dictHas(d, t) => dictFind(e, t) = dictFind(d, t)
    /\ r.pattern = pattern /\ r.topic = t =>
         /\ dictHas(d, t)
         /\ r.op = "subscribe" => dictHas(e, t) /\ dictFind(e, t).pending = dictFind(d, t).pending - 1
         /\ r.op # "subscribe" =>
              \/ r.op = "unsubscribe" /\ dictFind(d, t).pending = 0 /\ ~dictHas(e, t)
              \/ dictHas(e, t) /\ dictFind(e, t) = dictFind(d, t)

Heeded(t, e, l, b, x) ==
    /\ (l > 0 \/ b) => dictHas(e, t) /\ dictFind(e, t).pending >= l
    /\ LastWord(x, b)
    /\ dictHas(e, t) => dictFind(e, t).pending >= 0

LEMMA HeardTopicKeeps ==
    ASSUME NEW pattern \in BOOLEAN, NEW t \in DOMAIN Hash, NEW r \in AnyMessage, r.op \in Kinds,
           NEW d \in Table, NEW n \in Nat, NEW l \in Nat, NEW b \in BOOLEAN,
           NEW w, NEW x \in Seq({"subscribe", "unsubscribe"}),
           Hears(r, pattern, t, d, n, l, b, w, x), NEW e, Heeds(r, pattern, t, d, e)
    PROVE  Heeded(t, e, l, b, x)
<1>a. /\ n = l + Len(Says(r, pattern, t)) /\ w = Tells(r, pattern, t) \o x
      /\ n = 0 => w \in Seq({"unsubscribe"})
      /\ (n > 0 \/ b) => dictHas(d, t) /\ dictFind(d, t).pending >= n
      /\ LastWord(w, b)
      /\ dictHas(d, t) => dictFind(d, t).pending >= 0
  BY DEF Hears
<1>b. /\ ~(r.pattern = pattern /\ r.topic = t) =>
           /\ dictHas(e, t) <=> dictHas(d, t)
           /\ dictHas(d, t) => dictFind(e, t) = dictFind(d, t)
      /\ r.pattern = pattern /\ r.topic = t =>
           /\ dictHas(d, t)
           /\ r.op = "subscribe" => dictHas(e, t) /\ dictFind(e, t).pending = dictFind(d, t).pending - 1
           /\ r.op # "subscribe" =>
                \/ r.op = "unsubscribe" /\ dictFind(d, t).pending = 0 /\ ~dictHas(e, t)
                \/ dictHas(e, t) /\ dictFind(e, t) = dictFind(d, t)
  BY DEF Heeds
<1> USE <1>a, <1>b
<1> SUFFICES /\ (l > 0 \/ b) => dictHas(e, t) /\ dictFind(e, t).pending >= l
             /\ LastWord(x, b)
             /\ dictHas(e, t) => dictFind(e, t).pending >= 0
  BY DEF Heeded
<1> DEFINE W == {"subscribe", "unsubscribe"}
           y == Tells(r, pattern, t)
<1>1. y \in Seq(W)
  BY HeardGiven
<1>2. LastWord(x, b)
  <2> SUFFICES ASSUME x # <<>> PROVE x[Len(x)] = "subscribe" <=> b
    BY DEF LastWord
  <2>1. w # <<>> /\ w[Len(w)] = x[Len(x)]
    <3> HIDE DEF y, W
    <3>1. w = y \o x /\ x \in Seq(W)
      BY DEF y, W
    <3> QED BY <1>1, <3>1, LastOfConcat
  <2> QED BY <2>1 DEF LastWord
<1>3. dictHas(d, t) => dictFind(d, t).pending \in Int
  <2>1. dictHas(d, t) => dictFind(d, t) \in Callbacks
    BY ValueTyped DEF Table
  <2> QED BY <2>1 DEF Callbacks
<1> DEFINE z == dictFind(d, t).pending
<1>4. CASE ~(r.pattern = pattern /\ r.topic = t)
  <2>1. n = l
    <3>1. Len(Says(r, pattern, t)) = 0
      BY <1>4, SaysOf
    <3> QED BY <3>1
  <2> QED BY <1>2, <1>4, <2>1
<1>5. CASE r.pattern = pattern /\ r.topic = t /\ r.op = "subscribe"
  <2>1. n = l + 1 /\ dictHas(d, t) /\ dictHas(e, t) /\ dictFind(e, t).pending = z - 1
    <3>1. Len(Says(r, pattern, t)) = 1
      BY <1>5, SaysOf
    <3> QED BY <1>5, <3>1
  <2>2. z >= n /\ z \in Int
    BY <1>3, <2>1
  <2> HIDE DEF z
  <2>3. z - 1 >= l /\ z - 1 >= 0
    BY <2>1, <2>2
  <2> QED BY <1>2, <2>1, <2>3
<1>6. CASE r.pattern = pattern /\ r.topic = t /\ r.op # "subscribe"
  <2>1. n = l
    <3>1. Len(Says(r, pattern, t)) = 0
      BY <1>6, SaysOf
    <3> QED BY <3>1
  <2>2. CASE dictHas(e, t) /\ dictFind(e, t) = dictFind(d, t)
    BY <1>2, <1>6, <2>1, <2>2
  <2>3. CASE r.op = "unsubscribe" /\ z = 0 /\ ~dictHas(e, t)
    <3>1. n = 0
      BY <1>6, <2>3
    <3>2. y = <<"unsubscribe">>
      BY <1>6, <2>3, SaysOf
    <3>3. w # <<>>
      <4>1. <<"unsubscribe">> # <<>>
        OBVIOUS
      <4>2. w = y \o x /\ x \in Seq(W)
        OBVIOUS
      <4> HIDE DEF y, W
      <4> QED BY <1>1, <3>2, <4>1, <4>2, ConcatProperties
    <3>4. w[Len(w)] = "unsubscribe"
      <4>1. w \in Seq({"unsubscribe"})
        BY <3>1
      <4>2. Len(w) \in 1..Len(w)
        BY <3>3, <4>1, LenProperties, EmptySeq
      <4>3. w[Len(w)] \in {"unsubscribe"}
        BY <4>1, <4>2, ElementOfSeq
      <4> QED BY <4>3
    <3>5. ~b
      BY <3>3, <3>4 DEF LastWord
    <3> QED BY <1>2, <2>1, <2>3, <3>1, <3>5
  <2> QED BY <1>6, <2>2, <2>3
<1> QED BY <1>4, <1>5, <1>6 DEF Kinds

LEMMA HeardTopicHeard ==
    ASSUME Typed, Heard, pc \in Served, cmds' = cmds, Whole(c.inbuf),
           First(c.inbuf).op \in Kinds, First(c.inbuf).topic # "nil",
           dictHas(DictOf(ac, First(c.inbuf).pattern), First(c.inbuf).topic),
           HeardTopic([c EXCEPT !.inbuf = Behind(@)], First(c.inbuf))
    PROVE  Heard'
<1> DEFINE k == [c EXCEPT !.inbuf = Behind(@)]
           r == First(c.inbuf)
           p == r.pattern
           y == r.topic
           d == DictOf(ac, p)
           v == dictFind(d, y)
           n == IF r.op = "subscribe" THEN [v EXCEPT !.pending = @ - 1] ELSE v
           e == CASE r.op = "subscribe" -> dictSetVal(d, y, n)
                  [] r.op = "unsubscribe" /\ v.pending = 0 -> dictDelete(d, y)
                  [] OTHER -> d
           a == WithDict(ac, p, e)
           last == r.op = "unsubscribe" /\ r.count = 0 /\ a.channels.used = 0 /\ a.patterns.used = 0
           j == IF last THEN Unset(k, "SUBSCRIBED") ELSE k
<1>1. c \in Contexts(issued) /\ ac \in AsyncContexts /\ pc \in InLoop
  BY NowTyped DEF Served, InLoop
<1>2. r \in AnyMessage /\ y \in DOMAIN Hash /\ p \in BOOLEAN /\ peer # "pending" /\ r.op \in Kinds
  BY WholeHere, NoticeTyped DEF Kinds
<1>3. k \in Contexts(issued)
  <2>1. Behind(c.inbuf) \in Seq(PieceOf(AnyMessage))
    BY StreamsTyped, BehindTyped
  <2> QED BY <1>1, <2>1, NowTyped, FieldsTyped
<1>4. k.obuf = c.obuf /\ k.inbuf = Behind(c.inbuf) /\ k.flags = c.flags
  BY <1>1 DEF Contexts
<1>5. d \in Table /\ Sound(d, Callbacks) /\ dictHas(d, y)
  BY <1>1, <1>2, AsyncFieldsTyped DEF Table
<1>6. v \in Callbacks /\ v.pending \in Int
  <2>1. v \in Callbacks
    <3> HIDE DEF d, y
    <3> QED BY <1>2, <1>5, ValueTyped
  <2> QED BY <2>1 DEF Callbacks
<1>7. n \in Callbacks /\ (r.op = "subscribe" => n.pending = v.pending - 1)
  <2> HIDE DEF v
  <2> QED BY <1>6 DEF Callbacks
<1>8. /\ Sound(dictSetVal(d, y, n), Callbacks)
      /\ \A t \in DOMAIN Hash :
            /\ dictHas(dictSetVal(d, y, n), t) <=> dictHas(d, t)
            /\ dictHas(d, t) => dictFind(dictSetVal(d, y, n), t) = IF t = y THEN n ELSE dictFind(d, t)
  <2> HIDE DEF d, y, n
  <2> QED BY <1>2, <1>5, <1>7, SetLaw
<1>9. /\ Sound(dictDelete(d, y), Callbacks)
      /\ \A t \in DOMAIN Hash :
            /\ dictHas(dictDelete(d, y), t) <=> dictHas(d, t) /\ t # y
            /\ dictHas(dictDelete(d, y), t) => dictFind(dictDelete(d, y), t) = dictFind(d, t)
  <2> HIDE DEF d, y
  <2> QED BY <1>2, <1>5, DeleteLaw, ZenonT(60)
<1>10. Run(j, a, n, r)
  BY ZenonT(60) DEF HeardTopic
<1>11. ac' = a /\ Still /\ c' \in {j, Set(j, "IN_CALLBACK")}
  BY <1>10 DEF Run
<1>a. e \in {dictSetVal(d, y, n), dictDelete(d, y), d}
  OBVIOUS
<1>12. Sound(e, Callbacks)
  <2> HIDE DEF d, y, n, e
  <2> QED BY <1>5, <1>8, <1>9, <1>a
<1>13. \A t \in DOMAIN Hash : t # y =>
         /\ dictHas(e, t) <=> dictHas(d, t)
         /\ dictHas(d, t) => dictFind(e, t) = dictFind(d, t)
  <2> HIDE DEF d, y, n, e
  <2> QED BY <1>8, <1>9, <1>a, ZenonT(60)
<1>14. /\ r.op = "subscribe" => dictHas(e, y) /\ dictFind(e, y).pending = v.pending - 1
       /\ r.op # "subscribe" =>
             \/ r.op = "unsubscribe" /\ v.pending = 0 /\ ~dictHas(e, y)
             \/ dictHas(e, y) /\ dictFind(e, y) = v
  <2>1. CASE r.op = "subscribe"
    <3>1. e = dictSetVal(d, y, n)
      BY <2>1
    <3>2. dictHas(e, y) /\ dictFind(e, y) = n
      <4> HIDE DEF d, y, n, e
      <4> QED BY <1>2, <1>5, <1>8, <3>1
    <3> HIDE DEF e, n, v, y, d
    <3> QED BY <1>7, <2>1, <3>2
  <2>2. CASE r.op = "unsubscribe" /\ v.pending = 0
    <3>1. e = dictDelete(d, y)
      BY <2>2
    <3>2. ~dictHas(e, y)
      <4> HIDE DEF d, y, e
      <4> QED BY <1>2, <1>9, <3>1
    <3> HIDE DEF e, n, v, y, d
    <3> QED BY <2>2, <3>2
  <2>3. CASE r.op # "subscribe" /\ ~(r.op = "unsubscribe" /\ v.pending = 0)
    <3>1. e = d
      BY <2>3
    <3> HIDE DEF e, n
    <3> QED BY <1>5, <2>3, <3>1
  <2> QED BY <2>1, <2>2, <2>3
<1>15. /\ DictOf(a, p) = e
       /\ \A q \in BOOLEAN : q # p => DictOf(a, q) = DictOf(ac, q)
  <2> HIDE DEF e
  <2> QED BY <1>1, <1>2 DEF WithDict, DictOf, AsyncContexts
<1>b. \A q \in BOOLEAN : DictOf(ac, q) \in Table
  BY <1>1, AsyncFieldsTyped
<1>16. last => \A q \in BOOLEAN, t \in DOMAIN Hash : ~dictHas(DictOf(a, q), t)
  <2> SUFFICES ASSUME last, NEW q \in BOOLEAN, NEW t \in DOMAIN Hash PROVE ~dictHas(DictOf(a, q), t)
    OBVIOUS
  <2>1. DictOf(a, q).used = 0
    <3>1. a.channels.used = 0 /\ a.patterns.used = 0
      OBVIOUS
    <3> HIDE DEF a
    <3> QED BY <3>1 DEF DictOf
  <2>2. Sound(DictOf(a, q), Callbacks)
    <3> HIDE DEF e, a
    <3> QED BY <1>12, <1>15, <1>b DEF Table
  <2> HIDE DEF a
  <2> QED BY <2>1, <2>2, EmptyLaw
<1>17. /\ c'.obuf = c.obuf /\ c'.inbuf = Behind(c.inbuf)
       /\ ~last => (Has(c, "SUBSCRIBED") => Has(c', "SUBSCRIBED"))
  <2>1. j \in Contexts(issued)
    <3> HIDE DEF k, last
    <3>1. Unset(k, "SUBSCRIBED") \in Contexts(issued)
      BY <1>3, ErrorTyped, FlagsKnown
    <3> QED BY <1>3, <3>1
  <2>2. j.obuf = k.obuf /\ j.inbuf = k.inbuf /\ (~last => j = k)
    <3> HIDE DEF k, last
    <3> QED BY <1>3 DEF Unset, Contexts
  <2> HIDE DEF j, k, last
  <2>3. Alike(c', j)
    <3>1. Alike(Set(j, "IN_CALLBACK"), j) /\ Alike(j, j)
      BY <2>1, FlagsAlike DEF Alike
    <3> QED BY <1>11, <3>1
  <2> QED BY <1>4, <2>2, <2>3 DEF Alike, Has
<1> HIDE DEF k, r, p, y, d, v, n, e, a, last, j
<1>18. ASSUME NEW q \in BOOLEAN, NEW t \in DOMAIN Hash
       PROVE  /\ Kept1(q, t)'
              /\ dictHas(DictOf(a, q), t) => dictFind(DictOf(a, q), t).pending >= 0
  <2> DEFINE o == Owed(q, t)
             l == Owed(q, t)'
             w == Word(q, t)
             x == Word(q, t)'
             b == <<q, t>> \in server.subs
             f == DictOf(ac, q)
             g == DictOf(a, q)
             A == Asked(cmds, q, t, up \o c.obuf.chars)
             S == Said(q, t, c.inbuf \o down)
  <2>1. /\ o = l + Len(Says(r, q, t)) /\ w = Tells(r, q, t) \o x /\ l \in Nat
        /\ x \in Seq({"subscribe", "unsubscribe"}) /\ S \in Nat /\ A \in Nat
    BY <1>1, <1>11, <1>17, TakenHeard DEF r, Still
  <2>2. o = A + S /\ w = Talk(q, t, c.inbuf \o down) /\ o \in Nat
    <3>1. o \in Nat
      BY <1>1, OwedTyped
    <3> QED BY <3>1 DEF Owed, Word
  <2>3. o = 0 => w \in Seq({"unsubscribe"})
    <3> SUFFICES ASSUME o = 0 PROVE w \in Seq({"unsubscribe"})
      OBVIOUS
    <3>1. S = 0
      <4> HIDE DEF o, S, A
      <4> QED BY <2>1, <2>2
    <3> DEFINE s == c.inbuf \o down
    <3>2. s \in Seq(PieceOf(AnyMessage)) /\ Said(q, t, s) = 0
      BY <3>1, StreamsTyped
    <3> HIDE DEF s
    <3>3. Talk(q, t, s) \in Seq({"unsubscribe"})
      BY <3>2, NothingSaid
    <3> QED BY <2>2, <3>3 DEF s
  <2>4. Covered(c, f, t, o, b) /\ LastWord(w, b)
    BY DEF Heard, Kept1
  <2>5. dictHas(f, t) => dictFind(f, t).pending >= 0
    BY DEF Heard, NonNegative, DictOf
  <2>6. f \in Table
    BY <1>b
  <2>7. ~(p = q /\ y = t) =>
           /\ dictHas(g, t) <=> dictHas(f, t)
           /\ dictHas(f, t) => dictFind(g, t) = dictFind(f, t)
    <3>1. CASE q # p
      BY <1>15, <3>1
    <3>2. CASE q = p /\ y # t
      <4>1. g = e /\ f = d
        BY <1>15, <3>2 DEF d
      <4> HIDE DEF f, g
      <4> QED BY <1>13, <3>2, <4>1
    <3> QED BY <3>1, <3>2
  <2>8. p = q /\ y = t =>
           /\ dictHas(f, t)
           /\ r.op = "subscribe" => dictHas(g, t) /\ dictFind(g, t).pending = dictFind(f, t).pending - 1
           /\ r.op # "subscribe" =>
                 \/ r.op = "unsubscribe" /\ dictFind(f, t).pending = 0 /\ ~dictHas(g, t)
                 \/ dictHas(g, t) /\ dictFind(g, t) = dictFind(f, t)
    <3> SUFFICES ASSUME p = q, y = t
                 PROVE  /\ dictHas(f, t)
                        /\ r.op = "subscribe" => dictHas(g, t) /\ dictFind(g, t).pending = dictFind(f, t).pending - 1
                        /\ r.op # "subscribe" =>
                             \/ r.op = "unsubscribe" /\ dictFind(f, t).pending = 0 /\ ~dictHas(g, t)
                             \/ dictHas(g, t) /\ dictFind(g, t) = dictFind(f, t)
      OBVIOUS
    <3>1. g = e /\ f = d
      BY <1>15 DEF d
    <3> HIDE DEF f, g
    <3> QED BY <1>5, <1>14, <3>1 DEF v
  <2>9. p = r.pattern /\ y = r.topic
    BY DEF p, y
  <2>10. b \in BOOLEAN
    OBVIOUS
  <2>11. DictOf(ac', q) = g /\ (<<q, t>> \in server'.subs <=> b)
    BY <1>11 DEF Still
  <2>12. /\ (o > 0 \/ b) => Has(c, "SUBSCRIBED")
         /\ (o > 0 \/ b) => dictHas(f, t) /\ dictFind(f, t).pending >= o
    BY <2>4 DEF Covered
  <2>13. LastWord(w, b)
    BY <2>4
  <2>a. Len(Says(r, q, t)) \in Nat
    BY <1>2, HeardGiven
  <2> HIDE DEF o, l, w, x, f, g, A, S, b
  <2>14. /\ (l > 0 \/ b) => dictHas(g, t) /\ dictFind(g, t).pending >= l
         /\ LastWord(x, b)
         /\ dictHas(g, t) => dictFind(g, t).pending >= 0
    <3>1. Hears(r, q, t, f, o, l, b, w, x)
      BY <2>1, <2>3, <2>5, <2>12, <2>13 DEF Hears
    <3>2. Heeds(r, q, t, f, g)
      BY <2>7, <2>8, <2>9 DEF Heeds
    <3>3. r \in AnyMessage /\ r.op \in Kinds /\ f \in Table /\ o \in Nat /\ l \in Nat /\ b \in BOOLEAN
          /\ x \in Seq({"subscribe", "unsubscribe"})
      BY <1>2, <2>1, <2>2, <2>6, <2>10
    <3>4. Heeded(t, g, l, b, x)
      BY <3>1, <3>2, <3>3, HeardTopicKeeps
    <3> QED BY <3>4 DEF Heeded
  <2>15. (l > 0 \/ b) => (o > 0 \/ b)
    BY <2>1, <2>2, <2>a
  <2>16. (l > 0 \/ b) => Has(c', "SUBSCRIBED")
    <3>1. last => ~dictHas(g, t)
      BY <1>16 DEF g
    <3> QED BY <1>17, <2>12, <2>14, <2>15, <3>1
  <2>17. Covered(c', DictOf(ac', q), t, l, <<q, t>> \in server'.subs)
    BY <2>11, <2>14, <2>16 DEF Covered
  <2>18. LastWord(x, <<q, t>> \in server'.subs)
    BY <2>11, <2>14
  <2>19. Kept1(q, t)'
    BY <2>17, <2>18 DEF Kept1, l, x
  <2> QED BY <2>14, <2>19 DEF g
<1>19. NonNegative(ac.channels)' /\ NonNegative(ac.patterns)'
  <2>1. \A t \in DOMAIN Hash :
          /\ dictHas(DictOf(a, FALSE), t) => dictFind(DictOf(a, FALSE), t).pending >= 0
          /\ dictHas(DictOf(a, TRUE), t) => dictFind(DictOf(a, TRUE), t).pending >= 0
    BY <1>18
  <2>2. ac'.channels = DictOf(a, FALSE) /\ ac'.patterns = DictOf(a, TRUE)
    BY <1>11 DEF DictOf
  <2>3. \A t \in DOMAIN Hash :
          /\ dictHas(ac'.channels, t) => dictFind(ac'.channels, t).pending >= 0
          /\ dictHas(ac'.patterns, t) => dictFind(ac'.patterns, t).pending >= 0
    BY <2>1, <2>2
  <2> QED BY <2>3 DEF NonNegative
<1>20. peer' # "pending"
  BY <1>2, <1>11 DEF Still
<1>21. \A q \in BOOLEAN, t \in DOMAIN Hash : Kept1(q, t)'
  BY <1>18
<1> QED BY <1>19, <1>20, <1>21 DEF Heard

LEMMA NoReplyHeard ==
    ASSUME Typed, Heard, pc \in Served, pc' \in Served, cmds' = cmds, NoReply
    PROVE  Heard'
<1> DEFINE leaves == Has(c, "DISCONNECTING") /\ c.obuf.len = 0 /\ ac.replies = <<>>
<1>1. CASE leaves
  <2>1. Disconnect(c, ac)
    BY <1>1 DEF NoReply
  <2> QED BY <2>1, FreeingStops
<1>2. CASE ~leaves
  <2>1. ac' = IF Has(c, "MONITORING") THEN [ac EXCEPT !.replies = Append(@, frame.cb)] ELSE ac
    BY <1>2 DEF NoReply
  <2>2. Still /\ UNCHANGED c
    BY <1>2 DEF NoReply
  <2> HIDE DEF leaves
  <2>3. ac'.channels = ac.channels /\ ac'.patterns = ac.patterns
    BY <2>1, NowTyped DEF AsyncContexts
  <2>4. UNCHANGED <<peer, up, down, server, cmds>>
    BY <2>2 DEF Still
  <2> QED BY <2>2, <2>3, <2>4, StillKeeps
<1> QED BY <1>1, <1>2

\* The message is taken, and a callback is found for it.
LEMMA DispatchHeard ==
    ASSUME Typed, Heard, pc \in Served, pc' \in Served, cmds' = cmds, Whole(c.inbuf),
           First(c.inbuf).op # "garbage",
           Dispatch([c EXCEPT !.inbuf = Behind(@)], First(c.inbuf))
    PROVE  Heard'
<1> DEFINE k == [c EXCEPT !.inbuf = Behind(@)]
           r == First(c.inbuf)
<1>1. r \in AnyMessage
  BY StreamsTyped, BehindTyped
<1>2. \A a, cb : a.channels = ac.channels /\ a.patterns = ac.patterns /\ Run(k, a, cb, r)
                   => Heard'
  BY RunHeard
<1>3. [ac EXCEPT !.replies = Tail(@)].channels = ac.channels
      /\ [ac EXCEPT !.replies = Tail(@)].patterns = ac.patterns
      /\ [ac EXCEPT !.invalid = Tail(@)].channels = ac.channels
      /\ [ac EXCEPT !.invalid = Tail(@)].patterns = ac.patterns
  BY NowTyped DEF AsyncContexts
<1>4. \A kind : Crash(kind) => pc' = "crashed"
  BY DEF Crash
<1>5. "crashed" \notin Served
  BY DEF Served
<1>6. Dispatch(k, r)
  OBVIOUS
<1> HIDE DEF k
<1>7. CASE ac.replies # <<>>
  <2>1. Run(k, [ac EXCEPT !.replies = Tail(@)], Head(ac.replies), r)
    BY <1>6, <1>7 DEF Dispatch
  <2> QED BY <1>2, <1>3, <2>1
<1>8. CASE ac.replies = <<>> /\ r.op = "error"
  <2>1. Disconnect(SetError(k, "other"), ac)
    BY <1>6, <1>8 DEF Dispatch
  <2> QED BY <2>1, FreeingStops
<1>9. CASE ac.replies = <<>> /\ r.op # "error" /\ Has(k, "SUBSCRIBED")
  <2>1. GetSubscribeCallback(k, r)
    BY <1>6, <1>9 DEF Dispatch
  <2>2. CASE r.op \in Kinds /\ r.topic = "nil"
    <3>1. Crash("topic")
      BY <2>1, <2>2 DEF GetSubscribeCallback, Kinds
    <3> QED BY <1>4, <1>5, <3>1
  <2>3. CASE r.op \in Kinds /\ r.topic # "nil" /\ dictHas(DictOf(ac, r.pattern), r.topic)
    <3>1. HeardTopic(k, r)
      BY <2>1, <2>3 DEF GetSubscribeCallback, Kinds
    <3> QED BY <2>3, <3>1, HeardTopicHeard DEF k
  <2>4. CASE r.op \in Kinds /\ r.topic # "nil" /\ ~dictHas(DictOf(ac, r.pattern), r.topic)
    <3>1. Run(k, ac, frame.cb, r)
      BY <2>1, <2>4 DEF GetSubscribeCallback, Kinds
    <3> QED BY <1>2, <3>1
  <2>5. CASE r.op \notin Kinds
    <3>1. IF ac.invalid = <<>> THEN Run(k, ac, frame.cb, r)
          ELSE Run(k, [ac EXCEPT !.invalid = Tail(@)], Head(ac.invalid), r)
      BY <2>1, <2>5 DEF GetSubscribeCallback, Kinds
    <3> QED BY <1>2, <1>3, <3>1
  <2> QED BY <2>2, <2>3, <2>4, <2>5
<1>10. CASE ac.replies = <<>> /\ r.op # "error" /\ ~Has(k, "SUBSCRIBED")
  <2>1. Run(k, ac, frame.cb, r) \/ Crash("mode")
    BY <1>6, <1>10 DEF Dispatch
  <2> QED BY <1>2, <1>4, <1>5, <2>1
<1> QED BY <1>7, <1>8, <1>9, <1>10

LEMMA ProcessCallbacksHeard ==
    ASSUME Typed, Heard, pc' \in Served, ProcessCallbacks
    PROVE  Heard'
<1>1. pc = "process" /\ Quiet
  BY DEF ProcessCallbacks
<1>2. pc \in Served /\ cmds' = cmds
  BY <1>1 DEF Served, Quiet
<1>3. \/ \E k : Disconnect(k, ac)
      \/ NoReply
      \/ /\ Whole(c.inbuf) /\ First(c.inbuf).op # "garbage"
         /\ Dispatch([c EXCEPT !.inbuf = Behind(@)], First(c.inbuf))
  BY DEF ProcessCallbacks
<1>4. CASE \E k : Disconnect(k, ac)
  BY <1>4, FreeingStops
<1>5. CASE NoReply
  BY <1>2, <1>5, NoReplyHeard
<1>6. CASE /\ Whole(c.inbuf) /\ First(c.inbuf).op # "garbage"
           /\ Dispatch([c EXCEPT !.inbuf = Behind(@)], First(c.inbuf))
  BY <1>2, <1>6, DispatchHeard
<1> QED BY <1>3, <1>4, <1>5, <1>6

(***************************************************************************)
(* The server                                                              *)
(***************************************************************************)
\* What it sends, d, confirms no more than it takes from the commands on their
\* way, and its last word on a topic is what its table says.
Honest(pattern, t, d) ==
    LET o  == Asked(cmds, pattern, t, up)
        x  == Talk(pattern, t, d)
        b  == <<pattern, t>> \in server.subs
        b2 == <<pattern, t>> \in server'.subs
    IN  /\ Asked(cmds, pattern, t, up') + Said(pattern, t, d) <= o
        /\ LastWord(x, b2)
        /\ x = <<>> => (b2 <=> b)
        /\ b2 => b \/ o > 0

LEMMA SendingHeard ==
    ASSUME Typed, Heard, pc \in Served, UNCHANGED <<c, ac, cmds>>, peer' # "pending",
           up' \in Seq(Numbered(issued)), NEW d \in Seq(PieceOf(AnyMessage)), down' = down \o d,
           \A pattern \in BOOLEAN, t \in DOMAIN Hash : Honest(pattern, t, d)
    PROVE  Heard'
<1>1. pc \in InLoop
  BY DEF Served, InLoop
<1>2. ASSUME NEW pattern \in BOOLEAN, NEW t \in DOMAIN Hash
      PROVE  Kept1(pattern, t)'
  <2> DEFINE a == Asked(cmds, pattern, t, up)
             a2 == Asked(cmds, pattern, t, up')
             e == Asked(cmds, pattern, t, c.obuf.chars)
             h == c.inbuf \o down
             s == Said(pattern, t, h)
             sd == Said(pattern, t, d)
             y == Talk(pattern, t, h)
             yd == Talk(pattern, t, d)
             W == {"subscribe", "unsubscribe"}
             o == Owed(pattern, t)
             l == Owed(pattern, t)'
             w == Word(pattern, t)
             x == Word(pattern, t)'
             b == <<pattern, t>> \in server.subs
             b2 == <<pattern, t>> \in server'.subs
             f == DictOf(ac, pattern)
  <2>1. /\ up \in Seq(Numbered(issued)) /\ c.obuf.chars \in Seq(Numbered(issued))
        /\ h \in Seq(PieceOf(AnyMessage)) /\ c.inbuf \in Seq(PieceOf(AnyMessage))
        /\ down \in Seq(PieceOf(AnyMessage))
    BY StreamsTyped
  <2>2. Len(cmds) = issued /\ cmds \in Seq(CommandType)
    BY <1>1 DEF Typed, Counted, Answering
  <2>3. /\ a \in Nat /\ a2 \in Nat /\ e \in Nat
        /\ Asked(cmds, pattern, t, up \o c.obuf.chars) = a + e
        /\ Asked(cmds, pattern, t, up' \o c.obuf.chars) = a2 + e
    BY <2>1, <2>2, AskedLaws, SMTT(60)
  <2>4. c.inbuf \o down' = h \o d
    <3> DEFINE P == PieceOf(AnyMessage)
    <3>1. c.inbuf \in Seq(P) /\ down \in Seq(P) /\ d \in Seq(P)
      BY <2>1
    <3> HIDE DEF P
    <3> DEFINE i == c.inbuf
               n == down
    <3>2. i \in Seq(P) /\ n \in Seq(P)
      BY <3>1
    <3> HIDE DEF i, n
    <3>3. (i \o n) \o d = i \o (n \o d)
      BY <3>1, <3>2, ConcatAssociative, SMTT(60)
    <3> QED BY <3>3 DEF i, n
  <2>5. s \in Nat /\ sd \in Nat /\ Said(pattern, t, h \o d) = s + sd
    <3> HIDE DEF h
    <3> QED BY <2>1, SaidLaws
  <2>6. y \in Seq(W) /\ yd \in Seq(W) /\ Talk(pattern, t, h \o d) = y \o yd
    <3> HIDE DEF h
    <3> QED BY <2>1, TalkLaws
  <2>7. o = a + e + s /\ w = y
    <3>1. o = Asked(cmds, pattern, t, up \o c.obuf.chars) + s /\ w = y
      BY DEF Owed, Word
    <3> HIDE DEF o, w, a, e, s, y
    <3> QED BY <2>3, <3>1
  <2>8. l = a2 + e + (s + sd) /\ x = y \o yd
    <3>1. l = Asked(cmds, pattern, t, up' \o c.obuf.chars) + Said(pattern, t, c.inbuf \o down')
      BY DEF Owed, Asked, Said
    <3>2. x = Talk(pattern, t, c.inbuf \o down')
      BY DEF Word, Talk
    <3> HIDE DEF a2, e, s, sd, l, x, h, y, yd
    <3> QED BY <2>3, <2>4, <2>5, <2>6, <3>1, <3>2
  <2>9. /\ a2 + sd <= a /\ LastWord(yd, b2)
        /\ yd = <<>> => (b2 <=> b)
        /\ b2 => b \/ a > 0
    BY DEF Honest
  <2>10. Covered(c, f, t, o, b) /\ LastWord(w, b)
    BY DEF Heard, Kept1
  <2>11. dictHas(f, t) => dictFind(f, t).pending \in Int
    <3>1. f \in Table
      BY NowTyped, AsyncFieldsTyped
    <3> HIDE DEF f
    <3>2. dictHas(f, t) => dictFind(f, t) \in Callbacks
      BY <3>1, ValueTyped DEF Table
    <3> QED BY <3>2 DEF Callbacks
  <2>12. DictOf(ac', pattern) = f /\ c' = c
    OBVIOUS
  <2> HIDE DEF a, a2, e, h, s, sd, y, yd, o, l, w, x, b, b2, f
  <2>13. l \in Nat /\ o \in Nat /\ l <= o /\ (b2 => b \/ o > 0)
    BY <2>3, <2>5, <2>7, <2>8, <2>9
  <2>14. Covered(c, f, t, l, b2)
    <3> DEFINE z == dictFind(f, t).pending
    <3>1. (l > 0 \/ b2) => o > 0 \/ b
      BY <2>13
    <3>2. (l > 0 \/ b2) => Has(c, "SUBSCRIBED") /\ dictHas(f, t) /\ z >= o /\ z \in Int
      BY <2>10, <2>11, <3>1 DEF Covered
    <3> HIDE DEF z
    <3>3. (l > 0 \/ b2) => Has(c, "SUBSCRIBED") /\ dictHas(f, t) /\ z >= l
      BY <2>13, <3>2
    <3> QED BY <3>3 DEF z, Covered
  <2>15. LastWord(x, b2)
    <3> HIDE DEF W
    <3>1. CASE yd = <<>>
      <4>1. x = w
        BY <2>6, <2>7, <2>8, <3>1, LastOfConcat
      <4> QED BY <2>9, <2>10, <3>1, <4>1 DEF LastWord
    <3>2. CASE yd # <<>>
      <4>1. x # <<>> /\ x[Len(x)] = yd[Len(yd)]
        BY <2>6, <2>8, <3>2, LastOfConcat
      <4> QED BY <2>9, <3>2, <4>1 DEF LastWord
    <3> QED BY <3>1, <3>2
  <2> QED BY <2>12, <2>14, <2>15 DEF Kept1, l, x, b2
<1>3. NonNegative(ac.channels)' /\ NonNegative(ac.patterns)'
  BY DEF Heard, NonNegative
<1> QED BY <1>2, <1>3 DEF Heard

\* What says nothing of subscriptions.
LEMMA QuietMessage ==
    ASSUME Typed, NEW r \in AnyMessage, r.op \notin {"subscribe", "unsubscribe"},
           NEW pattern \in BOOLEAN, NEW t \in DOMAIN Hash
    PROVE  /\ Said(pattern, t, Pieces(r)) = 0 /\ Talk(pattern, t, Pieces(r)) = <<>>
           /\ Said(pattern, t, <<>>) = 0 /\ Talk(pattern, t, <<>>) = <<>>
<1>1. Len(Says(r, pattern, t)) = 0 /\ Tells(r, pattern, t) = <<>>
  BY SaysOf
<1>2. Said(pattern, t, Pieces(r)) = Len(Says(r, pattern, t)) /\ Said(pattern, t, <<>>) = 0
  BY SaidLaws
<1>3. Talk(pattern, t, Pieces(r)) = Tells(r, pattern, t) /\ Talk(pattern, t, <<>>) = <<>>
  BY TalkLaws
<1> QED BY <1>1, <1>2, <1>3

LEMMA QuietHonest ==
    ASSUME Typed, pc \in InLoop, server'.subs = server.subs, NEW d, NEW pattern \in BOOLEAN,
           NEW t \in DOMAIN Hash,
           Said(pattern, t, d) = 0, Talk(pattern, t, d) = <<>>,
           Asked(cmds, pattern, t, up') <= Asked(cmds, pattern, t, up),
           Asked(cmds, pattern, t, up') \in Nat
    PROVE  Honest(pattern, t, d)
BY DEF Honest, LastWord

LEMMA UpAsked ==
    ASSUME Typed, pc \in InLoop, NEW pattern \in BOOLEAN, NEW t \in DOMAIN Hash
    PROVE  Asked(cmds, pattern, t, up) \in Nat /\ Asked(cmds, pattern, t, <<>>) = 0
<1>1. Len(cmds) = issued /\ cmds \in Seq(CommandType)
  BY DEF Typed, Counted, Answering
<1> QED BY <1>1, StreamsTyped, AskedLaws

LEMMA OtherServerHeard ==
    ASSUME Typed, Control, Heard, pc \in Served,
           Publish \/ Resolve \/ ((Closes \/ Garbles) /\ UNCHANGED asyncVars)
    PROVE  Heard'
<1>1. pc \in InLoop
  BY DEF Served, InLoop
<1>2. up \in Seq(Numbered(issued)) /\ down \in Seq(PieceOf(AnyMessage))
  BY StreamsTyped
<1>a. <<>> \in Seq(Numbered(issued)) /\ <<>> \in Seq(PieceOf(AnyMessage))
  OBVIOUS
<1>3. CASE Publish
  <2>1. /\ UNCHANGED <<c, ac, cmds, up, peer>> /\ peer # "pending" /\ server'.subs = server.subs
    <3>1. server' = [server EXCEPT !.published = @ + 1]
      BY <1>3 DEF Publish
    <3> QED BY <1>3, <3>1, NowTyped DEF Publish, Servers
  <2>2. PICK r \in {Notice("message", 0, s[2], s[1], 0) : s \in server.subs} \cup
                      IF server.monitor THEN {Reply("line", 0)} ELSE {} : down' = down \o Pieces(r)
    BY <1>3 DEF Publish
  <2>3. r \in AnyMessage /\ r.op \notin {"subscribe", "unsubscribe"}
    <3>1. CASE r = Reply("line", 0)
      BY <3>1 DEF Reply, AnyMessage
    <3>2. CASE \E s \in server.subs : r = Notice("message", 0, s[2], s[1], 0)
      <4>1. PICK s \in server.subs : r = Notice("message", 0, s[2], s[1], 0)
        BY <3>2
      <4>2. s \in BOOLEAN \X DOMAIN Hash
        BY <4>1, NowTyped DEF Servers
      <4> QED BY <4>1, <4>2 DEF Notice, AnyMessage, Kinds
    <3> QED BY <2>2, <3>1, <3>2
  <2>4. Pieces(r) \in Seq(PieceOf(AnyMessage))
    BY <2>3, DownTyped
  <2>5. \A pattern \in BOOLEAN, t \in DOMAIN Hash : Honest(pattern, t, Pieces(r))
    <3> SUFFICES ASSUME NEW pattern \in BOOLEAN, NEW t \in DOMAIN Hash
                 PROVE  Honest(pattern, t, Pieces(r))
      OBVIOUS
    <3>1. Said(pattern, t, Pieces(r)) = 0 /\ Talk(pattern, t, Pieces(r)) = <<>>
      BY <2>3, QuietMessage
    <3>2. Asked(cmds, pattern, t, up) \in Nat
      BY <1>1, UpAsked
    <3>3. Asked(cmds, pattern, t, up') = Asked(cmds, pattern, t, up)
      BY <2>1
    <3>4. Asked(cmds, pattern, t, up') <= Asked(cmds, pattern, t, up) /\ Asked(cmds, pattern, t, up') \in Nat
      BY <3>2, <3>3
    <3> QED BY <1>1, <2>1, <3>1, <3>4, QuietHonest
  <2>6. up' \in Seq(Numbered(issued)) /\ peer' # "pending" /\ UNCHANGED <<c, ac, cmds>>
    BY <1>2, <2>1
  <2> QED BY <2>2, <2>4, <2>5, <2>6, SendingHeard
<1>4. CASE Resolve
  <2>1. UNCHANGED <<c, ac, cmds, up, server>> /\ peer' # "pending" /\ peer = "pending"
    BY <1>4 DEF Resolve, asyncVars
  <2>2. down = <<>>
    BY <2>1 DEF Heard
  <2>3. Reply("error", 0) \in AnyMessage /\ Reply("error", 0).op \notin {"subscribe", "unsubscribe"}
    BY DEF Reply, AnyMessage
  <2>4. down' = <<>> \/ down' = Pieces(Reply("error", 0))
    BY <1>4, <2>2 DEF Resolve
  <2>5. down' \in Seq(PieceOf(AnyMessage)) /\ down' = down \o down'
    <3>1. down' \in Seq(PieceOf(AnyMessage))
      BY <1>a, <2>3, <2>4, DownTyped
    <3> DEFINE d == down'
               P == PieceOf(AnyMessage)
    <3>2. d \in Seq(P)
      BY <3>1
    <3> HIDE DEF d, P
    <3>3. <<>> \o d = d
      BY <3>2, ConcatEmptySeq
    <3> QED BY <2>2, <3>1, <3>3 DEF d
  <2>6. \A pattern \in BOOLEAN, t \in DOMAIN Hash : Honest(pattern, t, down')
    <3> SUFFICES ASSUME NEW pattern \in BOOLEAN, NEW t \in DOMAIN Hash
                 PROVE  Honest(pattern, t, down')
      OBVIOUS
    <3>1. Said(pattern, t, down') = 0 /\ Talk(pattern, t, down') = <<>>
      BY <2>3, <2>4, QuietMessage
    <3>2. Asked(cmds, pattern, t, up) \in Nat
      BY <1>1, UpAsked
    <3>3. Asked(cmds, pattern, t, up') = Asked(cmds, pattern, t, up)
      BY <2>1
    <3>4. Asked(cmds, pattern, t, up') <= Asked(cmds, pattern, t, up) /\ Asked(cmds, pattern, t, up') \in Nat
      BY <3>2, <3>3
    <3> QED BY <1>1, <2>1, <3>1, <3>4, QuietHonest
  <2>7. up' \in Seq(Numbered(issued)) /\ UNCHANGED <<c, ac, cmds>>
    BY <1>2, <2>1
  <2> QED BY <2>1, <2>5, <2>6, <2>7, SendingHeard
<1>5. CASE Closes /\ UNCHANGED asyncVars
  <2>1. UNCHANGED <<c, ac, cmds, down, server>> /\ peer' # "pending" /\ up' = <<>>
    BY <1>5 DEF Closes, asyncVars
  <2>2. Reply("error", 0) \in AnyMessage /\ Reply("error", 0).op \notin {"subscribe", "unsubscribe"}
    BY DEF Reply, AnyMessage
  <2>3. down' = down \o <<>>
    <3> DEFINE P == PieceOf(AnyMessage)
    <3>1. down \in Seq(P)
      BY <1>2
    <3> HIDE DEF P
    <3> QED BY <2>1, <3>1, ConcatEmptySeq
  <2>4. \A pattern \in BOOLEAN, t \in DOMAIN Hash : Honest(pattern, t, <<>>)
    <3> SUFFICES ASSUME NEW pattern \in BOOLEAN, NEW t \in DOMAIN Hash
                 PROVE  Honest(pattern, t, <<>>)
      OBVIOUS
    <3>1. Said(pattern, t, <<>>) = 0 /\ Talk(pattern, t, <<>>) = <<>>
      BY <2>2, QuietMessage
    <3>2. Asked(cmds, pattern, t, up) \in Nat /\ Asked(cmds, pattern, t, <<>>) = 0
      BY <1>1, UpAsked
    <3>3. Asked(cmds, pattern, t, up') = 0
      BY <2>1, <3>2
    <3>4. Asked(cmds, pattern, t, up') <= Asked(cmds, pattern, t, up) /\ Asked(cmds, pattern, t, up') \in Nat
      BY <3>2, <3>3
    <3> QED BY <1>1, <2>1, <3>1, <3>4, QuietHonest
  <2>5. up' \in Seq(Numbered(issued)) /\ UNCHANGED <<c, ac, cmds>>
    BY <1>a, <2>1
  <2> QED BY <1>a, <2>1, <2>3, <2>4, <2>5, SendingHeard
<1>6. CASE Garbles /\ UNCHANGED asyncVars
  <2>1. UNCHANGED <<c, ac, cmds, up, server>> /\ peer' # "pending" /\ down' = Append(down, Garbage)
    BY <1>6 DEF Garbles, asyncVars
  <2>2. Garbage \in PieceOf(AnyMessage)
    BY DEF Garbage, PieceOf, AnyMessage
  <2>3. down' = down \o <<Garbage>> /\ <<Garbage>> \in Seq(PieceOf(AnyMessage))
    <3> DEFINE P == PieceOf(AnyMessage)
               g == Garbage
    <3>1. down \in Seq(P) /\ g \in P
      BY <1>2, <2>2
    <3> HIDE DEF P, g
    <3>2. Append(down, g) = down \o <<g>> /\ <<g>> \in Seq(P)
      BY <3>1, AppendIsConcat
    <3> QED BY <2>1, <3>2 DEF P, g
  <2>4. \A pattern \in BOOLEAN, t \in DOMAIN Hash : Honest(pattern, t, <<Garbage>>)
    <3> SUFFICES ASSUME NEW pattern \in BOOLEAN, NEW t \in DOMAIN Hash
                 PROVE  Honest(pattern, t, <<Garbage>>)
      OBVIOUS
    <3>1. Said(pattern, t, <<Garbage>>) = 0 /\ Talk(pattern, t, <<Garbage>>) = <<>>
      <4> DEFINE P == PieceOf(AnyMessage)
                 g == Garbage
      <4>1. /\ SayIn(pattern, t) \in Gives(P, DOMAIN Hash)
            /\ TellIn(pattern, t) \in Gives(P, {"subscribe", "unsubscribe"})
            /\ g \in P /\ SayIn(pattern, t)[g] = <<>> /\ TellIn(pattern, t)[g] = <<>>
        <5>1. g.last /\ g.msg.op = "garbage"
          BY DEF Garbage
        <5>2. Says(g.msg, pattern, t) = <<>> /\ Tells(g.msg, pattern, t) = <<>>
          BY <5>1 DEF Says, Tells
        <5> QED BY <2>2, <5>1, <5>2, HeardGiven
      <4> HIDE DEF P, g
      <4>2. Through(SayIn(pattern, t), <<g>>) = <<>> /\ Through(TellIn(pattern, t), <<g>>) = <<>>
        BY <4>1, AmountLaws
      <4> QED BY <4>2 DEF Said, Talk, g
    <3>2. Asked(cmds, pattern, t, up) \in Nat
      BY <1>1, UpAsked
    <3>3. Asked(cmds, pattern, t, up') = Asked(cmds, pattern, t, up)
      BY <2>1
    <3>4. Asked(cmds, pattern, t, up') <= Asked(cmds, pattern, t, up) /\ Asked(cmds, pattern, t, up') \in Nat
      BY <3>2, <3>3
    <3> QED BY <1>1, <2>1, <3>1, <3>4, QuietHonest
  <2>5. up' \in Seq(Numbered(issued)) /\ UNCHANGED <<c, ac, cmds>>
    BY <1>2, <2>1
  <2> QED BY <2>1, <2>3, <2>4, <2>5, SendingHeard
<1> QED BY <1>3, <1>4, <1>5, <1>6

\* A topic that an UNSUBSCRIBE without arguments does not find is not subscribed.
LEMMA NoTopics ==
    ASSUME Typed, NEW m \in CommandType, m.op = "unsubscribe", Topics(m) = <<>>,
           NEW t \in DOMAIN Hash
    PROVE  <<m.pattern, t>> \notin server.subs
<1> DEFINE S == {x \in DOMAIN Hash : <<m.pattern, x>> \in server.subs}
<1> SUFFICES ASSUME <<m.pattern, t>> \in server.subs PROVE FALSE
  OBVIOUS
<1>1. t \in S
  OBVIOUS
<1>2. IsFiniteSet(S)
  <2> DEFINE f == [y \in S |-> <<m.pattern, y>>]
  <2>1. IsFiniteSet(server.subs)
    BY NowTyped DEF Servers
  <2>2. f \in Injection(S, server.subs)
    BY DEF Injection, IsInjective
  <2> HIDE DEF f, S
  <2> QED BY <2>1, <2>2, FS_Injection
<1>3. SetToSeq(S) = <<>>
  BY DEF Topics
<1> HIDE DEF S
<1>4. Len(SetToSeq(S)) = Cardinality(S) /\ \E i \in 1..Len(SetToSeq(S)) : SetToSeq(S)[i] = t
  BY <1>1, <1>2, SetToSeqIs
<1>5. Len(SetToSeq(S)) = 0
  BY <1>3
<1> QED BY <1>4, <1>5

LEMMA EmptyNotWhole ==
    ASSUME NEW s \in Seq(PieceOf(1..issued)), s = <<>>
    PROVE  ~Whole(s)
<1>1. Whole(s) => End(s) \in 1..Len(s)
  BY EndFacts
<1>2. Len(s) = 0
  OBVIOUS
<1> QED BY <1>1, <1>2

LEMMA AsyncServeHeard ==
    ASSUME Typed, Control, Heard, AsyncServe
    PROVE  Heard'
<1> DEFINE k == First(up)
           m == cmds[k]
           e == IF m.op \in {"subscribe", "unsubscribe"}
                THEN IF Topics(m) # <<>> THEN Confirm(m, k).out
                     ELSE Pieces(Notice("unsubscribe", k, "nil", m.pattern, Cardinality(server.subs)))
                ELSE IF server.subs # {} THEN Pieces(Reply("error", k)) ELSE Pieces(Reply("answer", k))
<1>1. pc = "loop" /\ UNCHANGED <<c, ac, cmds, peer>> /\ Whole(up) /\ up' = Behind(up)
  BY DEF AsyncServe, Peer, Has, Control, Mode
<1>2. pc \in Served /\ pc \in InLoop
  BY <1>1 DEF Served, InLoop
<1>3. k \in 1..issued /\ up' \in Seq(Numbered(issued)) /\ Len(cmds) = issued /\ cmds \in Seq(CommandType)
  BY <1>1, <1>2, WholeTyped DEF Typed, Counted, Answering
<1>4. m \in CommandType /\ k \in Nat
  BY <1>3, ElementOfSeq
<1>5. peer' # "pending"
  <2> SUFFICES ASSUME peer = "pending" PROVE FALSE
    BY <1>1
  <2>1. up = <<>>
    BY <1>2 DEF Heard
  <2> QED BY <1>1, <2>1, StreamsTyped, EmptyNotWhole DEF Numbered
<1> DEFINE x == Topics(m) # <<>>
<1>6. CASE m.op \in {"subscribe", "unsubscribe"} /\ x
  <2>1. down' = down \o Confirm(m, k).out /\ server'.subs = Confirm(m, k).subs
    BY <1>6, NowTyped DEF AsyncServe, Servers
  <2> HIDE DEF k, m, x
  <2>2. Confirm(m, k) \in Known
    BY <1>4, <1>6, ConfirmTyped
  <2>3. Confirm(m, k).out \in Seq(PieceOf(AnyMessage))
    BY <2>2 DEF Known
  <2>4. ASSUME NEW pattern \in BOOLEAN, NEW t \in DOMAIN Hash
        PROVE  Honest(pattern, t, Confirm(m, k).out)
    <3> DEFINE n == IF m.pattern = pattern THEN Times(t, Topics(m)) ELSE 0
    <3>1. Spoken(Confirm(m, k), m, pattern, t, n)
      BY <1>4, <1>6, ConfirmSpeaks
    <3>2. n \in Nat
      <4>1. Topics(m) \in Seq(DOMAIN Hash)
        BY <1>4, TopicsTyped
      <4> QED BY <4>1, TimesLaws
    <3>3. Asked(cmds, pattern, t, up) = Len(Asks(m, pattern, t)) + Asked(cmds, pattern, t, up')
          /\ Asked(cmds, pattern, t, up') \in Nat
      <4>1. up \in Seq(Numbered(issued))
        BY StreamsTyped
      <4> QED BY <1>1, <1>3, <4>1, AskedLaws DEF k, m
    <3>4. Len(Asks(m, pattern, t)) = IF m.op = "subscribe" THEN n ELSE 0
      <4>1. m.op = "subscribe" => Topics(m) = m.topics
        BY DEF Topics
      <4> QED BY <1>4, <4>1, AsksGiven
    <3> HIDE DEF n
    <3> DEFINE o == Asked(cmds, pattern, t, up)
               o2 == Asked(cmds, pattern, t, up')
               b == <<pattern, t>> \in server.subs
               b2 == <<pattern, t>> \in server'.subs
               s == Said(pattern, t, Confirm(m, k).out)
               y == Talk(pattern, t, Confirm(m, k).out)
    <3>5. /\ s = IF m.op = "subscribe" THEN n ELSE 0
          /\ n = 0 => y = <<>> /\ (b2 <=> b)
          /\ n > 0 => y # <<>> /\ y[Len(y)] = m.op /\ (b2 <=> m.op = "subscribe")
      BY <2>1, <3>1 DEF Spoken
    <3> HIDE DEF o, o2, b, b2, s, y
    <3>6. o2 + s <= o /\ o2 \in Nat
      BY <3>2, <3>3, <3>4, <3>5 DEF o, o2
    <3>7. (y = <<>> => (b2 <=> b)) /\ LastWord(y, b2)
      BY <3>2, <3>5 DEF LastWord
    <3>8. b2 => b \/ o > 0
      <4> SUFFICES ASSUME b2, ~b PROVE o > 0
        OBVIOUS
      <4>1. n > 0 /\ m.op = "subscribe"
        BY <3>2, <3>5
      <4> QED BY <3>2, <3>3, <3>4, <4>1 DEF o
    <3> QED BY <3>6, <3>7, <3>8 DEF Honest, o, o2, b, b2, s, y
  <2> QED BY <1>1, <1>2, <1>3, <1>5, <2>1, <2>3, <2>4, SendingHeard
<1>7. CASE ~(m.op \in {"subscribe", "unsubscribe"} /\ x)
  <2> DEFINE r == IF m.op = "unsubscribe"
                  THEN Notice("unsubscribe", k, "nil", m.pattern, Cardinality(server.subs))
                  ELSE IF server.subs # {} THEN Reply("error", k) ELSE Reply("answer", k)
  <2>1. m.op = "subscribe" => x
    BY <1>4 DEF CommandType, Topics
  <2>2. server'.subs = server.subs
    BY <1>7, <2>1, NowTyped DEF AsyncServe, Servers
  <2>3. down' = down \o Pieces(r)
    BY <1>4, <1>7, <2>1 DEF AsyncServe, CommandType
  <2>4. r \in AnyMessage
    <3>1. Cardinality(server.subs) \in Nat
      BY NowTyped, FS_CardinalityType DEF Servers
    <3> HIDE DEF k, m, x
    <3> QED BY <1>4, <3>1 DEF Notice, Reply, AnyMessage, Kinds, CommandType
  <2>5. Pieces(r) \in Seq(PieceOf(AnyMessage))
    BY <2>4, DownTyped
  <2>6. /\ r.op # "subscribe"
        /\ r.op = "unsubscribe" => m.op = "unsubscribe" /\ r.pattern = m.pattern
    BY DEF Notice, Reply
  <2> HIDE DEF k, m, r
  <2>7. ASSUME NEW pattern \in BOOLEAN, NEW t \in DOMAIN Hash
        PROVE  Honest(pattern, t, Pieces(r))
    <3>1. Asked(cmds, pattern, t, up) = Len(Asks(m, pattern, t)) + Asked(cmds, pattern, t, up')
          /\ Asked(cmds, pattern, t, up') \in Nat
      <4>1. up \in Seq(Numbered(issued))
        BY StreamsTyped
      <4> QED BY <1>1, <1>3, <4>1, AskedLaws DEF k, m
    <3>2. Len(Asks(m, pattern, t)) = 0
      BY <1>4, <1>7, <2>1, AsksGiven
    <3>3. Said(pattern, t, Pieces(r)) = 0
      <4>1. Len(Says(r, pattern, t)) = 0
        BY <2>6, SaysOf
      <4> QED BY <2>4, <4>1, SaidLaws
    <3>4. LastWord(Talk(pattern, t, Pieces(r)), <<pattern, t>> \in server'.subs)
      <4>1. Talk(pattern, t, Pieces(r)) = Tells(r, pattern, t)
        BY <2>4, TalkLaws
      <4>2. CASE r.op = "unsubscribe" /\ r.pattern = pattern /\ r.topic = t
        <5>1. Tells(r, pattern, t) = <<"unsubscribe">>
          BY <4>2, SaysOf
        <5>2. <<m.pattern, t>> \notin server.subs
          BY <1>4, <1>7, <2>6, <4>2, NoTopics
        <5>3. <<"unsubscribe">>[Len(<<"unsubscribe">>)] = "unsubscribe"
          OBVIOUS
        <5> QED BY <2>2, <2>6, <4>1, <4>2, <5>1, <5>2, <5>3 DEF LastWord
      <4>3. CASE ~(r.op = "unsubscribe" /\ r.pattern = pattern /\ r.topic = t)
        <5>1. Tells(r, pattern, t) = <<>>
          BY <2>6, <4>3, SaysOf
        <5> QED BY <4>1, <5>1 DEF LastWord
      <4> QED BY <4>2, <4>3
    <3> QED BY <2>2, <3>1, <3>2, <3>3, <3>4 DEF Honest
  <2> QED BY <1>1, <1>2, <1>3, <1>5, <2>3, <2>5, <2>7, SendingHeard
<1> QED BY <1>6, <1>7

(***************************************************************************)
(* A command is issued                                                     *)
(***************************************************************************)
\* The output buffer has the command at its end, or has not grown.
LEMMA AppendedAsks ==
    ASSUME Typed, pc \in InLoop, NEW m \in CommandType, cmds' = Append(cmds, m), up' = up,
           c'.obuf \in {Appended.obuf, c.obuf}, c'.inbuf = c.inbuf, down' = down,
           NEW pattern \in BOOLEAN, NEW t \in DOMAIN Hash
    PROVE  /\ Owed(pattern, t)' \in {Owed(pattern, t), Owed(pattern, t) + Len(Asks(m, pattern, t))}
           /\ Word(pattern, t)' = Word(pattern, t)
<1> DEFINE q == Append(cmds, m)
           n == issued + 1
           s == up \o c.obuf.chars
           e == Asked(cmds, pattern, t, s)
           i == Said(pattern, t, c.inbuf \o down)
           a == Len(Asks(m, pattern, t))
<1>1. /\ Len(cmds) = issued /\ cmds \in Seq(CommandType) /\ issued \in Nat
      /\ q \in Seq(CommandType) /\ Len(q) = n /\ q[n] = m
  <2>1. Len(cmds) = issued /\ cmds \in Seq(CommandType) /\ issued \in Nat
    BY DEF Typed, Counted, Answering, Calling
  <2> QED BY <2>1, AppendProperties
<1>2. /\ s \in Seq(Numbered(issued)) /\ up \in Seq(Numbered(issued))
      /\ c.obuf.chars \in Seq(Numbered(issued))
      /\ c.obuf \in String(Numbered(issued)) /\ c.obuf.len = Len(c.obuf.chars)
  BY StreamsTyped
<1>3. /\ s \in Seq(Numbered(n)) /\ up \in Seq(Numbered(n)) /\ c.obuf.chars \in Seq(Numbered(n))
  BY <1>1, <1>2, NowTyped, ContextsGrow
<1>4. n \in 1..Len(q)
  BY <1>1
<1>5. Pieces(n) \in Seq(Numbered(n))
  <2>1. n \in 1..n
    BY <1>1
  <2> HIDE DEF n
  <2> QED BY <2>1, PiecesTyped DEF Numbered
<1>6. Asked(q, pattern, t, s) = e /\ e \in Nat
  <2> HIDE DEF q, s
  <2> QED BY <1>1, <1>2, AskedBefore, AskedLaws DEF q
<1>7. Asked(q, pattern, t, Pieces(n)) = a
  <2> HIDE DEF q, n
  <2> QED BY <1>1, <1>4, AskedLaws
<1>8. a \in Nat
  BY AsksGiven, LenProperties
<1>9. Appended.obuf.chars = c.obuf.chars \o Pieces(n)
  <2>1. c \in Contexts(issued)
    BY NowTyped
  <2>2. Appended.obuf = sdscatlen(c.obuf, Pieces(n))
    BY <2>1 DEF Appended, Contexts
  <2>3. c.obuf \in String(Numbered(n)) /\ c.obuf.type # 0
    <3>1. c.obuf \in Buffers(issued) /\ Buffers(issued) \subseteq Buffers(n)
      BY <1>1, <2>1, ContextsGrow DEF Contexts
    <3> HIDE DEF n
    <3> QED BY <3>1 DEF Buffers
  <2> DEFINE S == Numbered(n)
             x == Pieces(n)
             o == c.obuf
  <2>4. o \in String(S) /\ o.type # 0 /\ x \in Seq(S)
    BY <1>5, <2>3
  <2> HIDE DEF S, x, o
  <2>5. sdscatlen(o, x).chars = o.chars \o x
    BY <2>4, AppendExact
  <2> QED BY <2>2, <2>5 DEF x, o
<1>10. up \o (c.obuf.chars \o Pieces(n)) = s \o Pieces(n)
  <2> DEFINE S == Numbered(n)
             x == Pieces(n)
             o == c.obuf.chars
             u == up
  <2>1. u \in Seq(S) /\ o \in Seq(S) /\ x \in Seq(S)
    BY <1>3, <1>5
  <2> HIDE DEF S, x, o, u
  <2>2. (u \o o) \o x = u \o (o \o x)
    BY <2>1, ConcatAssociative, SMTT(60)
  <2> QED BY <2>2 DEF x, o, u
<1>11. Asked(q, pattern, t, s \o Pieces(n)) = e + a
  <2> HIDE DEF q, n, s
  <2>1. Asked(q, pattern, t, s \o Pieces(n)) = Asked(q, pattern, t, s) + Asked(q, pattern, t, Pieces(n))
    BY <1>1, <1>3, <1>5, AskedLaws
  <2> QED BY <2>1, <1>6, <1>7
<1>12. i \in Nat
  BY OwedTyped
<1>13. Owed(pattern, t) = e + i
  BY DEF Owed
<1>14. Owed(pattern, t)' = Asked(q, pattern, t, up \o c'.obuf.chars) + i
  BY DEF Owed, Asked, Said
<1>15. Word(pattern, t)' = Word(pattern, t)
  BY DEF Word, Talk
<1>16. CASE c'.obuf = c.obuf
  <2>1. up \o c'.obuf.chars = s
    BY <1>16
  <2> HIDE DEF q, e, i, a, s
  <2> QED BY <1>6, <1>13, <1>14, <1>15, <2>1
<1>17. CASE c'.obuf = Appended.obuf
  <2>1. up \o c'.obuf.chars = s \o Pieces(n)
    BY <1>9, <1>10, <1>17
  <2>2. Owed(pattern, t)' = (e + a) + i
    BY <1>11, <1>14, <2>1
  <2> HIDE DEF q, e, i, a, s
  <2>3. (e + a) + i = (e + i) + a
    BY <1>6, <1>8, <1>12
  <2> QED BY <1>13, <1>15, <2>2, <2>3 DEF a
<1> QED BY <1>16, <1>17

\* What one topic of a dictionary owes after the command, if it asks for it k times.
LEMMA AskingKeeps ==
    ASSUME NEW d \in Table, NEW e \in Table, NEW t \in DOMAIN Hash, NEW k \in Nat, NEW n \in Nat, NEW l \in Nat,
           NEW b \in BOOLEAN, l \in {n, n + k}, NEW u \in BOOLEAN, NEW v \in BOOLEAN,
           (n > 0 \/ b) => u /\ dictHas(d, t) /\ dictFind(d, t).pending >= n,
           NonNegative(d), Raised(e, d, t, k), u => v, k > 0 => v
    PROVE  (l > 0 \/ b) => v /\ dictHas(e, t) /\ dictFind(e, t).pending >= l
<1> DEFINE x == dictFind(d, t).pending
           y == dictFind(e, t).pending
           g == dictHas(d, t)
           h == dictHas(e, t)
<1>1. (g => x \in Int) /\ (h => y \in Int)
  <2>1. (g => dictFind(d, t) \in Callbacks) /\ (h => dictFind(e, t) \in Callbacks)
    BY ValueTyped DEF Table
  <2> QED BY <2>1 DEF Callbacks
<1>2. /\ (n > 0 \/ b) => u /\ g /\ x >= n
      /\ g => x >= 0
      /\ h <=> g \/ k > 0
      /\ h => y >= (IF g THEN x ELSE 0) + k
  BY DEF NonNegative, Raised
<1> HIDE DEF x, y, g, h
<1>3. (l > 0 \/ b) => v /\ h /\ y >= l
  <2>1. CASE g
    BY <1>1, <1>2, <2>1
  <2>2. CASE ~g
    BY <1>1, <1>2, <2>2
  <2> QED BY <2>1, <2>2
<1> QED BY <1>3 DEF h, y

\* Where the callback goes, and what that does to the dictionaries.
LEMMA RegisteredRaises ==
    ASSUME NEW a \in AsyncContexts, NonNegative(a.channels), NonNegative(a.patterns),
           NEW m \in CommandType, NEW cb \in Callbacks, cb.pending = 1,
           NEW pattern \in BOOLEAN, NEW t \in DOMAIN Hash
    PROVE  LET d == DictOf(a, pattern)
               e == DictOf(Registered(a, m, cb), pattern)
           IN  e \in Table /\ NonNegative(e) /\ Raised(e, d, t, Len(Asks(m, pattern, t)))
<1> DEFINE d == DictOf(a, pattern)
           e == DictOf(Registered(a, m, cb), pattern)
           s == Subscribed(d, m.topics, cb)
<1>1. d \in Table /\ NonNegative(d)
  BY AsyncFieldsTyped DEF DictOf
<1>2. m.topics \in Seq(DOMAIN Hash) /\ m.pattern \in BOOLEAN
  BY DEF CommandType
<1>3. Len(Asks(m, pattern, t)) = IF m.op = "subscribe" /\ m.pattern = pattern THEN Times(t, m.topics) ELSE 0
  BY AsksGiven
<1>4. CASE m.op = "subscribe" /\ m.pattern = pattern
  <2>1. e = s
    BY <1>2, <1>4 DEF Registered, WithDict, DictOf, AsyncContexts
  <2> HIDE DEF d, e
  <2>2. s \in Table
    BY <1>1, <1>2, SubscribedTyped
  <2>3. NonNegative(s) /\ Raised(s, d, t, Times(t, m.topics))
    BY <1>1, <1>2, SubscribedCounts
  <2> QED BY <1>3, <1>4, <2>1, <2>2, <2>3 DEF d, e
<1>5. CASE ~(m.op = "subscribe" /\ m.pattern = pattern)
  <2>1. e = d
    BY <1>2, <1>5 DEF Registered, WithDict, DictOf, AsyncContexts
  <2> HIDE DEF d, e
  <2>2. dictHas(d, t) => dictFind(d, t).pending \in Int
    <3>1. dictHas(d, t) => dictFind(d, t) \in Callbacks
      BY <1>1, ValueTyped DEF Table
    <3> QED BY <3>1 DEF Callbacks
  <2>3. Raised(d, d, t, 0)
    <3> DEFINE x == dictFind(d, t).pending
    <3>1. dictHas(d, t) => x \in Int
      BY <2>2
    <3> HIDE DEF x
    <3>2. dictHas(d, t) => x >= x + 0
      BY <3>1
    <3> QED BY <3>2 DEF Raised, x
  <2>4. Len(Asks(m, pattern, t)) = 0
    BY <1>3, <1>5
  <2> QED BY <1>1, <2>1, <2>3, <2>4 DEF d, e
<1> QED BY <1>4, <1>5

\* The first of a command's effects on the context is only that it is subscribed.
LEMMA FlaggedIs ==
    ASSUME NEW n, NEW k \in Contexts(n), NEW m
    PROVE  /\ Flagged(k, m).obuf = k.obuf /\ Flagged(k, m).inbuf = k.inbuf
           /\ Has(k, "SUBSCRIBED") \/ m.op = "subscribe" => Has(Flagged(k, m), "SUBSCRIBED")
BY DEF Flagged, Set, Has, Contexts

LEMMA AsyncCommandHeard ==
    ASSUME Typed, Heard, pc \in Served, AsyncCommand
    PROVE  Heard'
<1>1. PICK m \in CommandType :
        /\ ac' = [Registered(ac, m, Callback(issued + 1, m.fn)) EXCEPT !.ev = @ \cup {"write"}]
        /\ c' \in {Flagged(Appended, m), Flagged(SetError(c, "oom"), m)}
        /\ cmds' = Append(cmds, m)
  BY CommandIssued
<1> DEFINE cb == Callback(issued + 1, m.fn)
           a == Registered(ac, m, cb)
<1>2. pc \in InLoop /\ issued \in Nat /\ UNCHANGED <<peer, up, down, server>>
  BY DEF Served, InLoop, Typed, Calling, AsyncCommand
<1>3. cb \in Callbacks /\ cb.pending = 1
  BY <1>2 DEF Callback, Callbacks, CommandType
<1>4. ac \in AsyncContexts /\ c \in Contexts(issued) /\ NonNegative(ac.channels) /\ NonNegative(ac.patterns)
  BY NowTyped DEF Heard
<1>5. ac' = [a EXCEPT !.ev = @ \cup {"write"}]
  BY <1>1
<1>6. \A pattern \in BOOLEAN : DictOf(ac', pattern) = DictOf(a, pattern)
  <2> HIDE DEF a
  <2>1. ac'.channels = a.channels /\ ac'.patterns = a.patterns
    BY <1>5
  <2> QED BY <2>1 DEF DictOf
<1>7. /\ c'.obuf \in {Appended.obuf, c.obuf} /\ c'.inbuf = c.inbuf
      /\ Has(c, "SUBSCRIBED") \/ m.op = "subscribe" => Has(c', "SUBSCRIBED")
  <2>1. Appended \in Contexts(issued + 1)
    BY AppendedTyped
  <2>2. SetError(c, "oom") \in Contexts(issued)
    BY <1>4, ErrorTyped
  <2>3. Appended.inbuf = c.inbuf /\ Appended.flags = c.flags
    BY <1>4 DEF Appended, Contexts
  <2>4. SetError(c, "oom").inbuf = c.inbuf /\ SetError(c, "oom").flags = c.flags
        /\ SetError(c, "oom").obuf = c.obuf
    BY <1>4 DEF SetError, Contexts
  <2>5. CASE c' = Flagged(Appended, m)
    BY <2>1, <2>3, <2>5, FlaggedIs DEF Has
  <2>6. CASE c' = Flagged(SetError(c, "oom"), m)
    BY <2>2, <2>4, <2>6, FlaggedIs DEF Has
  <2> QED BY <1>1, <2>5, <2>6
<1> HIDE DEF cb, a
<1>8. ASSUME NEW pattern \in BOOLEAN, NEW t \in DOMAIN Hash
      PROVE  Kept1(pattern, t)'
  <2> DEFINE d == DictOf(ac, pattern)
             e == DictOf(a, pattern)
             k == Len(Asks(m, pattern, t))
             n == Owed(pattern, t)
             l == Owed(pattern, t)'
             b == <<pattern, t>> \in server.subs
             u == Has(c, "SUBSCRIBED")
             v == Has(c', "SUBSCRIBED")
  <2>1. l \in {n, n + k} /\ Word(pattern, t)' = Word(pattern, t) /\ n \in Nat
    BY <1>1, <1>2, <1>7, AppendedAsks, OwedTyped
  <2>2. k \in Nat /\ (k > 0 => m.op = "subscribe")
    <3>1. k \in Nat
      BY AsksGiven, LenProperties
    <3>2. m.op # "subscribe" => k = 0
      BY AsksGiven
    <3> HIDE DEF k
    <3> QED BY <3>1, <3>2
  <2>3. e \in Table /\ NonNegative(e) /\ Raised(e, d, t, k)
    BY <1>3, <1>4, RegisteredRaises DEF a
  <2>4. d \in Table /\ NonNegative(d)
    BY <1>4, AsyncFieldsTyped DEF DictOf
  <2>5. /\ (n > 0 \/ b) => u /\ dictHas(d, t) /\ dictFind(d, t).pending >= n
        /\ LastWord(Word(pattern, t), b)
    BY DEF Heard, Kept1, Covered
  <2>6. (u => v) /\ (k > 0 => v)
    BY <1>7, <2>2
  <2>7. u \in BOOLEAN /\ v \in BOOLEAN /\ b \in BOOLEAN
    BY DEF Has
  <2>8. DictOf(ac', pattern) = e /\ server' = server
    BY <1>2, <1>6
  <2> HIDE DEF d, e, k, n, l, b, u, v
  <2>9. l \in Nat
    BY <2>1, <2>2
  <2>10. (l > 0 \/ b) => v /\ dictHas(e, t) /\ dictFind(e, t).pending >= l
    BY <2>1, <2>2, <2>3, <2>4, <2>5, <2>6, <2>7, <2>9, AskingKeeps
  <2> QED BY <2>1, <2>5, <2>8, <2>10 DEF Kept1, Covered, b, l, v
<1>9. NonNegative(ac.channels)' /\ NonNegative(ac.patterns)'
  <2>1. \A pattern \in BOOLEAN, t \in DOMAIN Hash :
           dictHas(DictOf(a, pattern), t) => dictFind(DictOf(a, pattern), t).pending >= 0
    BY <1>3, <1>4, RegisteredRaises DEF a, NonNegative
  <2>2. /\ ac'.channels = DictOf(a, FALSE) /\ ac'.patterns = DictOf(a, TRUE)
    BY <1>6 DEF DictOf
  <2>3. \A t \in DOMAIN Hash :
          /\ dictHas(ac'.channels, t) => dictFind(ac'.channels, t).pending >= 0
          /\ dictHas(ac'.patterns, t) => dictFind(ac'.patterns, t).pending >= 0
    BY <2>1, <2>2
  <2> QED BY <2>3 DEF NonNegative
<1>10. peer' = "pending" => up' = <<>> /\ down' = <<>> /\ c'.inbuf = <<>>
  BY <1>2, <1>7 DEF Heard
<1> QED BY <1>8, <1>9, <1>10 DEF Heard

(***************************************************************************)
(* Every step                                                              *)
(***************************************************************************)
LEMMA InitializeHeard ==
    ASSUME Typed, Begun, Initialize
    PROVE  Heard'
<1>1. /\ c.inbuf = <<>> /\ c.obuf = sdsempty /\ up = <<>> /\ down = <<>> /\ server = NoServer
      /\ c \in Contexts(issued) /\ cmds \in Seq(CommandType)
  BY NowTyped DEF Initialize, Begun, Outside, Typed, Answering
<1>2. /\ c' = Unset(c, "CONNECTED") /\ UNCHANGED <<up, down, server, cmds, peer>>
      /\ ac'.channels = dictCreate /\ ac'.patterns = dictCreate
  BY DEF Initialize, Quiet, Still, NoContext
<1>3. c'.inbuf = <<>> /\ c'.obuf = sdsempty
  BY <1>1, <1>2 DEF Unset, Contexts
<1>4. \A t \in DOMAIN Hash : ~dictHas(dictCreate, t)
  <2>1. dictCreate.used = 0 /\ Sound(dictCreate, Callbacks)
    BY EmptyDict DEF dictCreate
  <2> QED BY <2>1, EmptyLaw
<1>5. NonNegative(ac.channels)' /\ NonNegative(ac.patterns)'
  BY <1>2, <1>4 DEF NonNegative
<1>6. ASSUME NEW pattern \in BOOLEAN, NEW t \in DOMAIN Hash
      PROVE  Kept1(pattern, t)'
  <2>1. sdsempty.chars = <<>> /\ <<>> \o <<>> = <<>>
    <3>1. <<>> \in Seq(1..1)
      OBVIOUS
    <3>2. \A e \in Seq(1..1) : e \o <<>> = e
      BY ConcatEmptySeq
    <3>3. <<>> \o <<>> = <<>>
      BY <3>1, <3>2
    <3> QED BY <3>3, EmptyString
  <2>2. Owed(pattern, t)' = Asked(cmds, pattern, t, up' \o c'.obuf.chars) + Said(pattern, t, c'.inbuf \o down')
    BY <1>2 DEF Owed, Asked, Said
  <2>3. Word(pattern, t)' = Talk(pattern, t, c'.inbuf \o down')
    BY DEF Word, Talk
  <2>4. up' \o c'.obuf.chars = <<>> /\ c'.inbuf \o down' = <<>>
    BY <1>1, <1>2, <1>3, <2>1
  <2>5. Asked(cmds, pattern, t, <<>>) = 0
    BY <1>1, AskedLaws
  <2>6. Said(pattern, t, <<>>) = 0
    BY SaidLaws
  <2>7. Talk(pattern, t, <<>>) = <<>>
    BY TalkLaws
  <2>8. Owed(pattern, t)' = 0 /\ Word(pattern, t)' = <<>>
    BY <2>2, <2>3, <2>4, <2>5, <2>6, <2>7
  <2>9. <<pattern, t>> \notin server'.subs
    BY <1>1, <1>2 DEF NoServer
  <2> QED BY <2>8, <2>9 DEF Kept1, Covered, LastWord
<1> QED BY <1>1, <1>2, <1>3, <1>5, <1>6 DEF Heard

\* Of the steps that are not the event loop's, these happen while it runs.
LEMMA ContextServed ==
    ASSUME Control, ContextNext, pc' \in Served
    PROVE  pc = pc' /\ (Closes \/ Garbles)
<1> USE DEF Served
<1>1. CASE Connect
  BY <1>1 DEF Connect, StartTcp, ConnectUnix, ConnectFd, Connected, Return
<1>2. CASE Connecting
  <2>1. pc = "address"
    BY <1>2 DEF Connecting, NoSocket, Unreachable, SocketFails, SocketKept, ReuseFails, AddressBusy,
                Established, Exhausted, Trying
  <2>2. pc' = pc \/ \E k : Return(k)
    BY <1>2 DEF Connecting, NoSocket, Unreachable, SocketFails, SocketKept, ReuseFails, AddressBusy,
                Established, Exhausted, AddressFails, Connected
  <2> QED BY <2>1, <2>2 DEF Return
<1>3. CASE Blocking
  <2>1. CASE Reconnect
    BY <2>1 DEF Reconnect, StartTcp, ConnectUnix, Connected, Return
  <2>2. CASE AppendCommand \/ GetReply \/ Command \/ SetTimeout \/ EnableKeepAlive \/ SocketError
    BY <2>2 DEF AppendCommand, GetReply, Command, SetTimeout, EnableKeepAlive, SocketError, Calls,
                CannotAppend, Fail, Look
  <2>3. CASE BufferWrite \/ BufferRead
    <3>1. \A k : Fail(k) => pc' = "idle"
      BY DEF Fail
    <3>2. \A k, w : Look(k, w, "read") => pc' \in {"idle", "read"}
      BY <3>1 DEF Look
    <3>3. pc' \in {"idle", "read", "write"}
      BY <2>3, <3>1, <3>2 DEF BufferWrite, BufferRead, EndOfFile
    <3> QED BY <3>3
  <2>4. CASE Serve
    BY <2>4 DEF Serve, Peer, Control, Mode
  <2> QED BY <1>3, <2>1, <2>2, <2>3, <2>4 DEF Blocking
<1>4. CASE Free
  BY <1>4 DEF Free, redisFree, Gone
<1>5. CASE OthersOpen
  BY <1>5 DEF OthersOpen
<1>6. CASE Closes \/ Garbles
  BY <1>6 DEF Closes, Garbles
<1> QED BY <1>1, <1>2, <1>3, <1>4, <1>5, <1>6 DEF ContextNext

LEMMA NextHeard ==
    ASSUME Control, Typed, Begun, Heard, [Next]_vars
    PROVE  Heard'
<1> SUFFICES ASSUME pc' \in Served PROVE Heard'
  BY DEF Heard
<1>1. CASE ContextNext /\ UNCHANGED asyncVars
  <2>1. pc \in Served
    BY <1>1, ContextServed DEF asyncVars
  <2> QED BY <1>1, <2>1, ContextServed, OtherServerHeard
<1>2. CASE Initialize
  BY <1>2, InitializeHeard
<1>3. CASE AsyncCommand
  <2>1. pc \in Served
    BY <1>3 DEF AsyncCommand
  <2> QED BY <1>3, <2>1, AsyncCommandHeard
<1>4. CASE AppDisconnect \/ AppFree \/ ConnectCallbackReturns \/ CallbackReturns
  <2>1. pc \in Served
    BY <1>4 DEF AppDisconnect, AppFree, ConnectCallbackReturns, CallbackReturns, App, Served, StartFree,
                Disconnect, Crash
  <2> QED BY <1>4, <2>1, FlagStepsHeard
<1>5. CASE HandleRead \/ HandleWrite \/ HandleEvent
  <2>1. pc \in Served
    BY <1>5 DEF HandleRead, HandleWrite, HandleEvent, Served
  <2> QED BY <1>5, <2>1, EventsHeard
<1>6. CASE ProcessCallbacks
  BY <1>6, ProcessCallbacksHeard
<1>7. CASE FreeNext \/ FreeCallbackReturns \/ FreeEnds
  BY <1>7 DEF FreeNext, FreeCallbackReturns, FreeEnds, RunNull, NextPhase, Served
<1>8. CASE AsyncServe
  BY <1>8, AsyncServeHeard
<1>9. CASE Publish \/ Resolve
  <2>1. pc \in Served
    BY <1>9 DEF Publish, Resolve, asyncVars
  <2> QED BY <1>9, <2>1, OtherServerHeard
<1>10. CASE UNCHANGED vars
  <2>1. /\ UNCHANGED <<c, ac, pc, peer, up, down, server, cmds>>
    BY <1>10 DEF vars, contextVars, asyncVars
  <2> QED BY <2>1, StillKeeps
<1> QED BY <1>1, <1>2, <1>3, <1>4, <1>5, <1>6, <1>7, <1>8, <1>9, <1>10
        DEF Next, AsyncNext, Handlers

\* A topic the server has subscribed, or will have once the commands in the
\* buffers are served, has its callback, and its counter is at least the number
\* of confirmations to come, whatever went wrong before (async.c:399, 641): an
\* UNSUBSCRIBE that is confirmed removes no callback a later SUBSCRIBE needs.
THEOREM SubscriptionsKept == Spec => []SubscriptionHeard
<1>1. Init => Heard
  BY DEF Init, ContextInit, Heard, Served
<1>2. Control /\ Typed /\ Begun /\ Heard /\ [Next]_vars => Heard'
  BY NextHeard
<1>3. Control /\ Typed /\ Begun /\ Heard => SubscriptionHeard
  <2> SUFFICES ASSUME Typed, Heard, pc \in Served, NEW pattern \in BOOLEAN, NEW t \in DOMAIN Hash,
                      Outstanding(pattern, t) > 0 \/ <<pattern, t>> \in server.subs
               PROVE  /\ Has(c, "SUBSCRIBED")
                      /\ dictHas(DictOf(ac, pattern), t)
                      /\ dictFind(DictOf(ac, pattern), t).pending >= Outstanding(pattern, t)
    BY DEF SubscriptionHeard, Served
  <2>1. Outstanding(pattern, t) = Owed(pattern, t)
    BY OutstandingIs DEF Served, InLoop
  <2>2. Covered(c, DictOf(ac, pattern), t, Owed(pattern, t), <<pattern, t>> \in server.subs)
    BY DEF Heard, Kept1
  <2> HIDE DEF Outstanding
  <2> QED BY <2>1, <2>2 DEF Covered
<1>4. Spec => [](Control /\ Typed /\ Begun)
  BY TypesHold
<1> QED BY <1>1, <1>2, <1>3, <1>4, PTL DEF Spec
=============================================================================
