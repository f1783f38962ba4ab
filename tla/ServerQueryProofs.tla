------------------------- MODULE ServerQueryProofs -------------------------
(***************************************************************************)
(* Proofs about the ServerQuery connection, for every set of calls and     *)
(* every number of sockets.                                                *)
(*                                                                         *)
(* The inductive invariant says where each command is: not yet sent, on    *)
(* the wire of one socket, or answered by the lines that socket still      *)
(* carries; and that only the socket created last can be alive.            *)
(***************************************************************************)
EXTENDS ServerQueryConnection, SequenceTheorems, TLAPS

\* Only the last socket can be alive; an open one is this.socket, and no
\* destroyed socket still has its 'close' event to come.
SocketInv ==
  /\ socket \in {0, gen}
  /\ closed => socket = 0 /\ ~connected
  /\ connecting => gen \in Sockets
  /\ connected => /\ ~connecting
                  /\ socket = gen /\ gen \in Sockets
                  /\ sock[gen] \in {"open", "dying"}
  /\ \A s \in Sockets :
       /\ sock[s] = "unused" <=> s > gen
       /\ sock[s] \in {"handshake", "open"} => s = gen /\ socket = gen
       /\ sock[s] = "handshake" => connecting
       /\ sock[s] = "open" => connected /\ \A t \in Sockets : sock[t] # "dying"

\* The queue holds each queued call once.
QueueInv ==
  /\ \A i, j \in 1..Len(queue) : queue[i] = queue[j] => i = j
  /\ \A c \in Cmds : call[c] = "queued" <=> Queued(c)

\* A queued command has a socket whose 'close' event will end it at the
\* latest, and a ready continuation finds the connection up or closed.
LifeInv ==
  /\ queue # <<>> => \E s \in Sockets : sock[s] \in {"open", "dying"}
  /\ (\E c \in Cmds : call[c] = "ready") => connected \/ closed

\* c is on the wire of socket s.
OnWire(c, s) == toServer[s] = <<c>>

\* c never reached a wire.
Unsent(c) == executions[c] = 0 /\ \A s \in Sockets : ~OnWire(c, s)

\* The lines f are what is left of the reply to c: they end with the error
\* line, the only one, and it bears the verdict of the server.
RestOfReply(f, c) ==
  /\ executions[c] = 1
  /\ f # <<>>
  /\ \A i \in 1..Len(f) : f[i].type = "error" <=> i = Len(f)
  /\ f[Len(f)].id = executed[c]

\* What an open socket carries, given the queue.
OpenWire(s) ==
  \/ queue = <<>> /\ toServer[s] = <<>> /\ fromServer[s] = <<>>
  \/ queue # <<>> /\ toServer[s] = <<Head(queue)>> /\ fromServer[s] = <<>>
  \/ queue # <<>> /\ toServer[s] = <<>> /\ RestOfReply(fromServer[s], Head(queue))

WireInv ==
  \A s \in Sockets :
    /\ toServer[s] = <<>> \/ \E c \in Cmds : OnWire(c, s)
    /\ sock[s] # "open" => fromServer[s] = <<>>
    /\ sock[s] \in {"unused", "handshake"} => toServer[s] = <<>>
    /\ sock[s] = "open" => OpenWire(s)

\* A command on a wire was not executed, is on no other wire, and its call is
\* still in the queue or failed.
SentInv ==
  /\ \A c \in Cmds, s \in Sockets : OnWire(c, s) =>
       /\ executions[c] = 0
       /\ call[c] \in {"queued", "failed"}
       /\ \A t \in Sockets : OnWire(c, t) => t = s
  /\ \A c \in Cmds : call[c] \in {"idle", "waiting", "ready"} => Unsent(c)
  /\ \A i \in 2..Len(queue) : Unsent(queue[i])

\* The history variables agree, and a call that was answered was executed.
VerdictInv ==
  /\ AtMostOnce
  /\ \A c \in Cmds : executions[c] = 0 <=> executed[c] = "none"
  /\ OwnVerdict

IInv ==
  TypeOK /\ SocketInv /\ LifeInv /\ QueueInv /\ HeadTimed /\ WireInv /\ SentInv /\ VerdictInv

-----------------------------------------------------------------------------
\* The invariant holds before the first call.
LEMMA InitIInv == Init => IInv
<1> SUFFICES ASSUME Init PROVE IInv
  OBVIOUS
<1> USE MaxSocketsAssumption DEF Init, Sockets
<1>1. TypeOK
  <2>1. ConnType
    BY Zenon DEF ConnType
  <2>2. SocketType /\ CallType
    BY DEF SocketType, CallType, Calls
  <2>3. WireType
    BY DEF WireType, Outcomes
  <2> QED
    BY <2>1, <2>2, <2>3 DEF TypeOK
<1>2. SocketInv /\ LifeInv
  BY DEF SocketInv, LifeInv
<1>3. QueueInv /\ HeadTimed
  BY DEF QueueInv, HeadTimed, Queued
<1>4. WireInv /\ SentInv
  BY DEF WireInv, SentInv, OnWire, Unsent
<1>5. VerdictInv
  BY DEF VerdictInv, AtMostOnce, OwnVerdict, Verdicts
<1> QED
  BY <1>1, <1>2, <1>3, <1>4, <1>5 DEF IInv

-----------------------------------------------------------------------------
(***************************************************************************)
(* Steps that leave the queue alone: what they may do to the calls and to  *)
(* the sockets.                                                            *)
(***************************************************************************)
CallsMove ==
  \A c \in Cmds : \/ call'[c] = call[c]
                  \/ call[c] \in {"idle", "waiting", "ready"} /\ call'[c] \in {"waiting", "ready", "failed"}

SocketsMove ==
  \A s \in Sockets :
    \/ /\ sock'[s] = "open" /\ sock[s] = "open"
       /\ fromServer'[s] = fromServer[s]
    \/ /\ sock'[s] = "open" /\ sock[s] = "handshake" /\ queue = <<>>
       /\ fromServer'[s] = fromServer[s]
    \/ /\ sock'[s] # "open" /\ fromServer'[s] = <<>>
       /\ sock'[s] \in {"unused", "handshake"} => sock[s] \in {"unused", "handshake"}

\* Such a step keeps what is known of the queue, the wires and the verdicts.
LEMMA QuietStep ==
  ASSUME IInv, TypeOK', CallsMove, SocketsMove,
         UNCHANGED <<queue, timers, toServer, executed, executions>>
  PROVE  QueueInv' /\ HeadTimed' /\ WireInv' /\ SentInv' /\ VerdictInv'
<1>1. QueueInv' /\ HeadTimed'
  BY DEF IInv, QueueInv, HeadTimed, Queued, CallsMove
<1>2. WireInv'
  <2> SUFFICES ASSUME NEW s \in Sockets
               PROVE  /\ toServer'[s] = <<>> \/ \E c \in Cmds : OnWire(c, s)'
                      /\ sock'[s] # "open" => fromServer'[s] = <<>>
                      /\ sock'[s] \in {"unused", "handshake"} => toServer'[s] = <<>>
                      /\ sock'[s] = "open" => OpenWire(s)'
    BY DEF WireInv
  <2>1. fromServer'[s] = fromServer[s] => OpenWire(s)' = OpenWire(s)
    BY Zenon DEF OpenWire, RestOfReply
  <2>2. sock'[s] = "open" => OpenWire(s)'
    BY <2>1 DEF SocketsMove, IInv, WireInv, OpenWire
  <2> QED
    BY <2>2 DEF IInv, WireInv, OnWire, SocketsMove
<1>3. SentInv'
  BY DEF IInv, SentInv, OnWire, Unsent, CallsMove
<1>4. VerdictInv'
  BY DEF IInv, VerdictInv, AtMostOnce, OwnVerdict, Verdicts, CallsMove
<1> QED
  BY <1>1, <1>2, <1>3, <1>4

\* command() up to its await keeps the invariant: a new socket is the last one.
LEMMA CallStep ==
  ASSUME IInv, NEW c \in Cmds, Call(c)
  PROVE  IInv'
<1> USE MaxSocketsAssumption DEF Sockets
<1>1. UNCHANGED <<queue, timers, pendingData, entries, toServer, fromServer, executed, executions>>
  BY DEF Call, wires, ghost
<1>2. call[c] = "idle" /\ \E x \in {"ready", "waiting", "failed"} : call' = [call EXCEPT ![c] = x]
  BY DEF Call
<1>3. \/ UNCHANGED <<closed, connected, connecting, step, gen, socket, sock>>
      \/ /\ ~connected /\ ~connecting /\ ~closed /\ gen < MaxSockets /\ gen' = gen + 1
         /\ socket' = gen + 1 /\ sock' = [sock EXCEPT ![gen + 1] = "handshake"]
         /\ connecting' = TRUE /\ step' = "banner" /\ UNCHANGED <<closed, connected>>
  BY Zenon DEF Call, conn
<1>4. TypeOK'
  <2>1. ConnType'
    BY <1>3, Zenon DEF IInv, TypeOK, ConnType
  <2>2. SocketType'
    BY <1>3 DEF IInv, TypeOK, SocketType
  <2>3. CallType' /\ WireType'
    BY <1>1, <1>2 DEF IInv, TypeOK, CallType, WireType, Calls
  <2> QED
    BY <2>1, <2>2, <2>3 DEF TypeOK
<1>5. SocketInv'
  BY <1>3 DEF IInv, TypeOK, SocketType, SocketInv
<1>6. LifeInv'
  <2>1. \A s \in Sockets : sock[s] \in {"open", "dying"} => sock'[s] = sock[s]
    BY <1>3 DEF IInv, TypeOK, SocketType, SocketInv
  <2>2. \A d \in Cmds : call'[d] = "ready" => call[d] = "ready" \/ (d = c /\ connected)
    BY DEF Call, IInv, TypeOK, CallType
  <2>3. connected \/ closed => connected' \/ closed'
    BY <1>3
  <2> QED
    BY <1>1, <1>2, <1>3, <2>1, <2>2, <2>3 DEF IInv, LifeInv
<1>7. CallsMove /\ SocketsMove
  <2>1. CallsMove
    BY <1>2 DEF IInv, TypeOK, CallType, CallsMove
  <2>2. SocketsMove
    BY <1>1, <1>3 DEF IInv, TypeOK, SocketType, SocketInv, WireInv, SocketsMove
  <2> QED
    BY <2>1, <2>2
<1> QED
  BY <1>1, <1>4, <1>5, <1>6, <1>7, QuietStep DEF IInv

\* The timer of the handshake keeps the invariant.
LEMMA HandshakeTimeoutStep ==
  ASSUME IInv, HandshakeTimeout
  PROVE  IInv'
<1> USE MaxSocketsAssumption DEF Sockets
<1>1. /\ connecting /\ connecting' = FALSE
      /\ UNCHANGED <<closed, connected, step, gen, socket, queue, timers, pendingData, entries,
                     toServer, executed, executions>>
      /\ call' = [c \in Cmds |-> IF call[c] = "waiting" THEN "failed" ELSE call[c]]
      /\ Destroy(gen)
      /\ Idle
  BY DEF HandshakeTimeout, RejectConnect, ghost
<1>2. ~connected /\ \A s \in Sockets : sock[s] # "open"
  BY <1>1 DEF IInv, SocketInv
<1>3. \/ /\ gen \in Sockets /\ sock[gen] = "handshake"
         /\ sock' = [sock EXCEPT ![gen] = "dying"] /\ fromServer' = [fromServer EXCEPT ![gen] = <<>>]
      \/ /\ \A s \in Sockets : sock[s] # "handshake"
         /\ UNCHANGED <<sock, fromServer>>
  BY <1>1, <1>2 DEF Destroy, IInv, TypeOK, SocketType, SocketInv
<1>4. TypeOK'
  <2>1. ConnType'
    BY <1>1, Zenon DEF IInv, TypeOK, ConnType
  <2>2. SocketType' /\ CallType'
    BY <1>1, <1>3 DEF IInv, TypeOK, SocketType, CallType, Calls
  <2>3. WireType'
    BY <1>1, <1>3, <<>> \in Seq(Lines) DEF IInv, TypeOK, WireType
  <2> QED
    BY <2>1, <2>2, <2>3 DEF TypeOK
<1>5. SocketInv'
  BY <1>1, <1>2, <1>3 DEF IInv, TypeOK, SocketType, SocketInv
<1>6. LifeInv'
  BY <1>1, <1>2, <1>3 DEF IInv, TypeOK, SocketType, CallType, LifeInv, Idle
<1>7. CallsMove
  BY <1>1 DEF CallsMove
<1>8. SocketsMove
  BY <1>1, <1>2, <1>3 DEF IInv, TypeOK, SocketType, WireType, WireInv, SocketsMove
<1> QED
  BY <1>1, <1>4, <1>5, <1>6, <1>7, <1>8, QuietStep DEF IInv

\* A line of the handshake keeps the invariant: the connection comes up with an
\* empty queue and nothing on the wire.
LEMMA HandshakeLineStep ==
  ASSUME IInv, NEW line \in HandshakeLines, HandshakeLine(line)
  PROVE  IInv'
<1> USE MaxSocketsAssumption DEF Sockets
<1>1. /\ Idle /\ connecting /\ sock[gen] = "handshake"
      /\ \A s \in Sockets : sock[s] # "dying"
      /\ UNCHANGED <<closed, gen, socket, queue, timers, pendingData, entries, toServer,
                     executed, executions>>
  BY DEF HandshakeLine, ghost
<1>2. gen \in Sockets /\ queue = <<>> /\ ~connected /\ \A s \in Sockets : sock[s] # "open"
  BY <1>1 DEF IInv, TypeOK, SocketType, SocketInv, LifeInv
<1>3. CASE step' \in {"login", "use"} /\ UNCHANGED <<connected, connecting, sock, call, fromServer>>
  <2>1. TypeOK'
    BY <1>1, <1>3 DEF IInv, TypeOK, ConnType, SocketType, CallType, WireType
  <2>2. SocketInv' /\ LifeInv'
    BY <1>1, <1>3 DEF IInv, SocketInv, LifeInv
  <2>3. CallsMove /\ SocketsMove
    BY <1>1, <1>2, <1>3 DEF IInv, WireInv, CallsMove, SocketsMove
  <2> QED
    BY <1>1, <2>1, <2>2, <2>3, QuietStep DEF IInv
<1>4. CASE ResolveConnect /\ UNCHANGED step
  <2>0. /\ connecting' = FALSE /\ connected' = TRUE
        /\ sock' = [sock EXCEPT ![gen] = "open"]
        /\ call' = [c \in Cmds |-> IF call[c] = "waiting" THEN "ready" ELSE call[c]]
        /\ UNCHANGED <<step, fromServer>>
    BY <1>4 DEF ResolveConnect
  <2>1. TypeOK'
    <3>1. ConnType'
      BY <1>1, <2>0, Zenon DEF IInv, TypeOK, ConnType
    <3>2. SocketType' /\ CallType' /\ WireType'
      BY <1>1, <2>0 DEF IInv, TypeOK, SocketType, CallType, WireType, Calls
    <3> QED
      BY <3>1, <3>2 DEF TypeOK
  <2>2. SocketInv'
    BY <1>1, <1>2, <2>0 DEF IInv, TypeOK, SocketType, SocketInv
  <2>3. LifeInv'
    BY <1>1, <1>2, <2>0 DEF LifeInv
  <2>4. CallsMove /\ SocketsMove
    BY <1>1, <1>2, <2>0 DEF IInv, TypeOK, SocketType, WireInv, CallsMove, SocketsMove
  <2> QED
    BY <1>1, <2>1, <2>2, <2>3, <2>4, QuietStep DEF IInv
<1>5. CASE RejectConnect /\ UNCHANGED <<connected, step>>
  BY <1>1, <1>5, HandshakeTimeoutStep DEF HandshakeTimeout, ghost
<1> QED
  BY <1>3, <1>4, <1>5, Zenon DEF HandshakeLine

\* The orderly end of a connection keeps the invariant: nothing unread is lost.
LEMMA PeerEndStep ==
  ASSUME IInv, NEW s \in Sockets, PeerEnd(s)
  PROVE  IInv'
<1> USE MaxSocketsAssumption DEF Sockets
<1>1. /\ Idle /\ sock[s] \in {"handshake", "open"} /\ fromServer[s] = <<>>
      /\ sock' = [sock EXCEPT ![s] = "dying"]
      /\ UNCHANGED <<closed, connected, connecting, step, gen, socket, call, queue, timers,
                     pendingData, entries, toServer, fromServer, executed, executions>>
  BY DEF PeerEnd, conn, wires, ghost
<1>2. TypeOK'
  BY <1>1 DEF IInv, TypeOK, ConnType, SocketType, CallType, WireType
<1>3. SocketInv' /\ LifeInv'
  BY <1>1 DEF IInv, TypeOK, SocketType, SocketInv, LifeInv
<1>4. CallsMove /\ SocketsMove
  BY <1>1 DEF IInv, TypeOK, SocketType, WireInv, CallsMove, SocketsMove
<1> QED
  BY <1>1, <1>2, <1>3, <1>4, QuietStep DEF IInv

\* close() keeps the invariant: the queue is left to the 'close' event.
LEMMA CloseStep ==
  ASSUME IInv, Close
  PROVE  IInv'
<1> USE MaxSocketsAssumption DEF Sockets
<1>1. /\ closed' = TRUE /\ connected' = FALSE /\ socket' = 0
      /\ Destroy(socket)
      /\ UNCHANGED <<connecting, step, gen, call, queue, timers, pendingData, entries, toServer,
                     executed, executions>>
  BY DEF Close, ghost
<1>2. \/ /\ socket = gen /\ gen \in Sockets /\ sock[gen] \in {"handshake", "open"}
         /\ sock' = [sock EXCEPT ![gen] = "dying"] /\ fromServer' = [fromServer EXCEPT ![gen] = <<>>]
      \/ /\ \A s \in Sockets : sock[s] \notin {"handshake", "open"}
         /\ UNCHANGED <<sock, fromServer>>
  BY <1>1 DEF Destroy, IInv, TypeOK, SocketType, SocketInv
<1>3. TypeOK'
  <2>1. ConnType'
    BY <1>1, Zenon DEF IInv, TypeOK, ConnType
  <2>2. SocketType' /\ CallType'
    BY <1>1, <1>2 DEF IInv, TypeOK, SocketType, CallType
  <2>3. WireType'
    BY <1>1, <1>2, <<>> \in Seq(Lines) DEF IInv, TypeOK, WireType
  <2> QED
    BY <2>1, <2>2, <2>3 DEF TypeOK
<1>4. SocketInv'
  BY <1>1, <1>2 DEF IInv, TypeOK, SocketType, SocketInv
<1>5. LifeInv'
  BY <1>1, <1>2 DEF IInv, TypeOK, SocketType, LifeInv
<1>6. CallsMove
  BY <1>1 DEF CallsMove
<1>7. SocketsMove
  BY <1>1, <1>2 DEF IInv, TypeOK, SocketType, WireType, SocketInv, WireInv, SocketsMove
<1> QED
  BY <1>1, <1>3, <1>4, <1>5, <1>6, <1>7, QuietStep DEF IInv

-----------------------------------------------------------------------------
(***************************************************************************)
(* Steps that fail everything queued, with no open socket left.            *)
(***************************************************************************)
CallsFail ==
  \A c \in Cmds : \/ call[c] = "queued" /\ call'[c] = "failed"
                  \/ call[c] # "queued" /\ call'[c] = call[c]
                  \/ call[c] = "waiting" /\ call'[c] = "failed"

SocketsDown ==
  \A s \in Sockets : /\ sock'[s] # "open" /\ fromServer'[s] = <<>>
                     /\ sock'[s] \in {"unused", "handshake"} => sock[s] \in {"unused", "handshake"}

\* Such a step keeps what is known of the queue, the wires and the verdicts.
LEMMA FailAllStep ==
  ASSUME IInv, TypeOK', CallsFail, SocketsDown, queue' = <<>>, timers' = {},
         UNCHANGED <<toServer, executed, executions>>
  PROVE  QueueInv' /\ HeadTimed' /\ WireInv' /\ SentInv' /\ VerdictInv'
<1>1. QueueInv' /\ HeadTimed'
  BY DEF CallsFail, QueueInv, HeadTimed, Queued
<1>2. WireInv'
  BY DEF SocketsDown, IInv, WireInv, OnWire
<1>3. SentInv'
  BY DEF CallsFail, IInv, SentInv, OnWire, Unsent
<1>4. VerdictInv'
  BY DEF CallsFail, IInv, VerdictInv, AtMostOnce, OwnVerdict, Verdicts
<1> QED
  BY <1>1, <1>2, <1>3, <1>4

\* failAll() fails exactly the queued calls and leaves no timer.
LEMMA FailAllEffect ==
  ASSUME IInv, FailAll
  PROVE  /\ queue' = <<>> /\ timers' = {}
         /\ call' = [c \in Cmds |-> IF call[c] = "queued" THEN "failed" ELSE call[c]]
         /\ CallType' <=> pendingData' \in Seq(Cmds) /\ entries' \in [Cmds -> Seq(Cmds)]
<1>1. call' = [c \in Cmds |-> IF call[c] = "queued" THEN "failed" ELSE call[c]]
  BY DEF FailAll, IInv, QueueInv
<1>2. queue' = <<>> /\ timers' = {}
  BY DEF FailAll, IInv, HeadTimed, TypeOK, CallType, Queued
<1> QED
  BY <1>1, <1>2 DEF IInv, TypeOK, CallType, Calls

\* The timer of the head keeps the invariant: its socket never answers again.
LEMMA CommandTimeoutStep ==
  ASSUME IInv, NEW c \in Cmds, CommandTimeout(c)
  PROVE  IInv'
<1> USE MaxSocketsAssumption DEF Sockets
<1>1. /\ Idle /\ c \in timers /\ FailAll /\ Destroy(socket)
      /\ UNCHANGED <<closed, connected, connecting, step, gen, socket, pendingData, entries,
                     toServer, executed, executions>>
  BY DEF CommandTimeout, conn, ghost
<1>2. \/ /\ socket = gen /\ gen \in Sockets /\ sock[gen] \in {"handshake", "open"}
         /\ sock' = [sock EXCEPT ![gen] = "dying"] /\ fromServer' = [fromServer EXCEPT ![gen] = <<>>]
      \/ /\ \A s \in Sockets : sock[s] \notin {"handshake", "open"}
         /\ UNCHANGED <<sock, fromServer>>
  BY <1>1 DEF Destroy, IInv, TypeOK, SocketType, SocketInv
<1>3. /\ queue' = <<>> /\ timers' = {}
      /\ call' = [d \in Cmds |-> IF call[d] = "queued" THEN "failed" ELSE call[d]]
  BY <1>1, FailAllEffect
<1>4. TypeOK'
  <2>1. ConnType'
    BY <1>1, Zenon DEF IInv, TypeOK, ConnType
  <2>2. SocketType'
    BY <1>1, <1>2 DEF IInv, TypeOK, SocketType
  <2>3. CallType'
    BY <1>1, FailAllEffect DEF IInv, TypeOK, CallType
  <2>4. WireType'
    BY <1>1, <1>2, <<>> \in Seq(Lines) DEF IInv, TypeOK, WireType
  <2> QED
    BY <2>1, <2>2, <2>3, <2>4 DEF TypeOK
<1>5. SocketInv'
  BY <1>1, <1>2 DEF IInv, TypeOK, SocketType, SocketInv
<1>6. LifeInv'
  BY <1>1, <1>3 DEF LifeInv, Idle
<1>7. CallsFail
  BY <1>3 DEF CallsFail
<1>8. SocketsDown
  BY <1>1, <1>2 DEF IInv, TypeOK, SocketType, WireType, SocketInv, WireInv, SocketsDown
<1> QED
  BY <1>1, <1>3, <1>4, <1>5, <1>6, <1>7, <1>8, FailAllStep DEF IInv

\* The 'error' event keeps the invariant.
LEMMA SocketErrorStep ==
  ASSUME IInv, NEW s \in Sockets, SocketError(s)
  PROVE  IInv'
<1> USE MaxSocketsAssumption DEF Sockets
<1>1. /\ Idle /\ sock[s] \in {"handshake", "open"}
      /\ sock' = [sock EXCEPT ![s] = "dying"] /\ fromServer' = [fromServer EXCEPT ![s] = <<>>]
      /\ connecting' = IF sock[s] = "handshake" THEN FALSE ELSE connecting
      /\ UNCHANGED <<closed, connected, step, gen, socket, pendingData, entries, toServer,
                     executed, executions>>
  BY DEF SocketError, ghost
<1>2. call' = [c \in Cmds |-> IF call[c] = "queued" \/ (sock[s] = "handshake" /\ call[c] = "waiting")
                              THEN "failed" ELSE call[c]]
  BY DEF SocketError, IInv, QueueInv
<1>3. queue' = <<>> /\ timers' = {}
  BY DEF SocketError, IInv, HeadTimed, TypeOK, CallType, Queued
<1>4. s = gen
  BY <1>1 DEF IInv, SocketInv
<1>5. TypeOK'
  <2>1. ConnType'
    BY <1>1, Zenon DEF IInv, TypeOK, ConnType
  <2>2. SocketType' /\ CallType'
    BY <1>1, <1>2, <1>3 DEF IInv, TypeOK, SocketType, CallType, Calls
  <2>3. WireType'
    BY <1>1, <<>> \in Seq(Lines) DEF IInv, TypeOK, WireType
  <2> QED
    BY <2>1, <2>2, <2>3 DEF TypeOK
<1>6. SocketInv'
  BY <1>1, <1>4 DEF IInv, TypeOK, SocketType, SocketInv
<1>7. LifeInv'
  BY <1>1, <1>2, <1>3 DEF LifeInv, Idle
<1>8. CallsFail
  BY <1>2 DEF CallsFail
<1>9. SocketsDown
  BY <1>1, <1>4 DEF IInv, TypeOK, SocketType, WireType, SocketInv, WireInv, SocketsDown
<1> QED
  BY <1>1, <1>3, <1>5, <1>6, <1>7, <1>8, <1>9, FailAllStep DEF IInv

\* The 'close' event keeps the invariant.
LEMMA CloseEventStep ==
  ASSUME IInv, NEW s \in Sockets, CloseEvent(s)
  PROVE  IInv'
<1> USE MaxSocketsAssumption DEF Sockets
<1>1. /\ Idle /\ sock[s] = "dying" /\ sock' = [sock EXCEPT ![s] = "gone"]
      /\ connected' = FALSE /\ FailAll
      /\ UNCHANGED <<closed, connecting, step, gen, socket, pendingData, entries,
                     toServer, fromServer, executed, executions>>
  BY DEF CloseEvent, wires, ghost
<1>2. /\ queue' = <<>> /\ timers' = {}
      /\ call' = [d \in Cmds |-> IF call[d] = "queued" THEN "failed" ELSE call[d]]
  BY <1>1, FailAllEffect
<1>3. \A t \in Sockets : sock[t] # "open"
  BY <1>1 DEF IInv, SocketInv
<1>4. TypeOK'
  <2>1. ConnType'
    BY <1>1, Zenon DEF IInv, TypeOK, ConnType
  <2>2. SocketType' /\ WireType'
    BY <1>1 DEF IInv, TypeOK, SocketType, WireType
  <2>3. CallType'
    BY <1>1, FailAllEffect DEF IInv, TypeOK, CallType
  <2> QED
    BY <2>1, <2>2, <2>3 DEF TypeOK
<1>5. SocketInv'
  BY <1>1, <1>3 DEF IInv, TypeOK, SocketType, SocketInv
<1>6. LifeInv'
  BY <1>1, <1>2 DEF LifeInv, Idle
<1>7. CallsFail
  BY <1>2 DEF CallsFail
<1>8. SocketsDown
  BY <1>1, <1>3 DEF IInv, TypeOK, SocketType, WireType, WireInv, SocketsDown
<1> QED
  BY <1>1, <1>2, <1>4, <1>5, <1>6, <1>7, <1>8, FailAllStep DEF IInv

-----------------------------------------------------------------------------
(***************************************************************************)
(* The steps that move a command: into the queue, to the server, and out   *)
(* of the queue with its response.                                         *)
(***************************************************************************)
LEMMA EnqueueStep ==
  ASSUME IInv, NEW c \in Cmds, Enqueue(c)
  PROVE  IInv'
<1> USE MaxSocketsAssumption DEF Sockets
<1>1. /\ call[c] = "ready"
      /\ UNCHANGED <<closed, connected, connecting, step, gen, socket, sock, pendingData, entries,
                     fromServer, executed, executions>>
  BY DEF Enqueue, conn, ghost
<1>2. CASE socket = 0
  <2>1. call' = [call EXCEPT ![c] = "failed"] /\ UNCHANGED <<queue, timers, toServer>>
    BY <1>2 DEF Enqueue
  <2>2. TypeOK'
    BY <1>1, <2>1 DEF IInv, TypeOK, ConnType, SocketType, CallType, WireType, Calls
  <2>3. SocketInv' /\ LifeInv'
    BY <1>1, <2>1 DEF IInv, TypeOK, CallType, SocketInv, LifeInv
  <2>4. CallsMove /\ SocketsMove
    BY <1>1, <2>1 DEF IInv, TypeOK, CallType, WireInv, CallsMove, SocketsMove
  <2> QED
    BY <1>1, <2>1, <2>2, <2>3, <2>4, QuietStep DEF IInv
<1>3. CASE socket # 0
  <2>1. call' = [call EXCEPT ![c] = "queued"] /\ queue' = Append(queue, c)
    BY <1>3 DEF Enqueue
  <2>2. connected /\ socket = gen /\ gen \in Sockets /\ sock[gen] \in {"open", "dying"}
    BY <1>1, <1>3 DEF IInv, LifeInv, SocketInv
  <2>3. \/ queue # <<>> /\ UNCHANGED <<timers, toServer>>
        \/ /\ queue = <<>> /\ timers' = timers \cup {c}
           /\ toServer' = IF sock[gen] = "open"
                          THEN [toServer EXCEPT ![gen] = Append(@, c)] ELSE toServer
    BY <1>3, <2>1, <2>2 DEF Enqueue, SendHead
  <2>4. TypeOK'
    <3>1. ConnType' /\ SocketType'
      BY <1>1 DEF IInv, TypeOK, ConnType, SocketType
    <3>2. CallType'
      BY <1>1, <2>1, <2>3, AppendProperties DEF IInv, TypeOK, CallType, Calls
    <3>3. toServer' \in [Sockets -> Seq(Cmds)]
      <4>1. toServer[gen] \in Seq(Cmds) /\ Append(toServer[gen], c) \in Seq(Cmds)
        BY <2>2, AppendProperties DEF IInv, TypeOK, WireType
      <4> QED
        BY <2>3, <4>1 DEF IInv, TypeOK, WireType
    <3>4. WireType'
      BY <1>1, <3>3 DEF IInv, TypeOK, WireType
    <3> QED
      BY <3>1, <3>2, <3>4 DEF TypeOK
  <2>5. SocketInv' /\ LifeInv'
    BY <1>1, <2>1, <2>2 DEF IInv, TypeOK, CallType, SocketInv, LifeInv
  <2>6. /\ queue' # <<>> /\ Len(queue') = Len(queue) + 1 /\ queue'[Len(queue')] = c
        /\ \A i \in 1..Len(queue) : queue'[i] = queue[i]
        /\ Len(queue) \in Nat /\ DOMAIN queue' = 1..Len(queue') /\ DOMAIN queue = 1..Len(queue)
        /\ queue # <<>> => Head(queue') = Head(queue)
        /\ queue = <<>> => Head(queue') = c /\ Len(queue) = 0
    <3>1. queue \in Seq(Cmds)
      BY DEF IInv, TypeOK, CallType
    <3> HIDE DEF IInv
    <3> QED
      BY <2>1, <3>1, AppendProperties, HeadTailAppend, EmptySeq, LenProperties
  <2>7. ~Queued(c) /\ Unsent(c) /\ executions[c] = 0
    BY <1>1 DEF IInv, QueueInv, SentInv, Unsent
  <2>8. QueueInv'
    <3>1. \A i, j \in 1..Len(queue') : queue'[i] = queue'[j] => i = j
      BY <2>6, <2>7 DEF IInv, QueueInv, Queued
    <3>2. \A d \in Cmds : Queued(d)' <=> Queued(d) \/ d = c
      BY <2>6 DEF Queued
    <3> QED
      BY <2>1, <3>1, <3>2 DEF IInv, TypeOK, CallType, QueueInv
  <2>9. HeadTimed'
    BY <2>3, <2>6 DEF IInv, HeadTimed
  <2>10. \A s \in Sockets : \/ toServer'[s] = toServer[s]
                            \/ /\ s = gen /\ sock[s] = "open" /\ queue = <<>>
                               /\ toServer'[s] = <<c>>
    <3>1. queue = <<>> /\ sock[gen] = "open" => toServer[gen] = <<>>
      BY <2>2 DEF IInv, WireInv, OpenWire
    <3>2. Append(<<>>, c) = <<c>>
      OBVIOUS
    <3> QED
      BY <2>2, <2>3, <3>1, <3>2 DEF IInv, TypeOK, WireType
  <2>11. WireInv'
    <3> SUFFICES ASSUME NEW s \in Sockets
                 PROVE  /\ toServer'[s] = <<>> \/ \E d \in Cmds : OnWire(d, s)'
                        /\ sock'[s] # "open" => fromServer'[s] = <<>>
                        /\ sock'[s] \in {"unused", "handshake"} => toServer'[s] = <<>>
                        /\ sock'[s] = "open" => OpenWire(s)'
      BY DEF WireInv
    <3>1. sock[s] = "open" => s = gen
      BY DEF IInv, SocketInv
    <3>2. sock[s] = "open" => OpenWire(s)'
      <4>1. CASE queue = <<>>
        <5>1. sock[s] = "open" => toServer[s] = <<>> /\ fromServer[s] = <<>>
          BY <4>1 DEF IInv, WireInv, OpenWire
        <5>2. sock[s] = "open" => toServer'[s] = <<c>>
          <6>1. Append(<<>>, c) = <<c>>
            OBVIOUS
          <6> QED
            BY <2>3, <3>1, <4>1, <5>1, <6>1 DEF IInv, TypeOK, WireType
        <5> QED
          BY <1>1, <2>6, <4>1, <5>1, <5>2 DEF OpenWire
      <4>2. CASE queue # <<>>
        <5>1. RestOfReply(fromServer[s], Head(queue)) => RestOfReply(fromServer[s], Head(queue))'
          BY <1>1, <2>6, <4>2 DEF RestOfReply
        <5> QED
          BY <1>1, <2>3, <2>6, <4>2, <5>1 DEF IInv, WireInv, OpenWire
      <4> QED
        BY <4>1, <4>2
    <3> QED
      BY <1>1, <2>10, <3>2 DEF IInv, WireInv, OnWire
  <2>12. SentInv'
    <3>1. \A d \in Cmds, s \in Sockets : OnWire(d, s)' => OnWire(d, s) \/ (d = c /\ s = gen)
      BY <2>10 DEF OnWire
    <3>2. OnWire(c, gen)' => \A t \in Sockets : OnWire(c, t)' => t = gen
      BY <2>7, <3>1 DEF Unsent
    <3>3. \A d \in Cmds : Unsent(d) /\ d # c => Unsent(d)'
      BY <1>1, <3>1 DEF Unsent
    <3>4. \A d \in Cmds, s \in Sockets : OnWire(d, s)' =>
             executions'[d] = 0 /\ call'[d] \in {"queued", "failed"} /\ \A t \in Sockets : OnWire(d, t)' => t = s
      BY <1>1, <2>1, <2>7, <3>1, <3>2 DEF IInv, TypeOK, CallType, SentInv, Unsent
    <3>5. \A d \in Cmds : call'[d] \in {"idle", "waiting", "ready"} => Unsent(d)'
      BY <2>1, <3>3 DEF IInv, TypeOK, CallType, SentInv
    <3>6. queue # <<>> => (Unsent(c) => Unsent(c)')
      BY <1>1, <2>3 DEF Unsent, OnWire
    <3>7. ASSUME NEW i \in 2..Len(queue')
          PROVE  \E d \in Cmds : d = queue'[i] /\ Unsent(d)'
      <4>1. CASE i \in 2..Len(queue)
        <5>1. i \in 1..Len(queue) /\ queue'[i] = queue[i]
          BY <2>6, <4>1
        <5>2. PICK d \in Cmds : d = queue[i]
          BY <5>1, ElementOfSeq DEF IInv, TypeOK, CallType
        <5>3. Unsent(d) /\ d # c
          BY <2>6, <2>7, <4>1, <5>1, <5>2 DEF IInv, SentInv, Queued
        <5> QED
          BY <3>3, <5>1, <5>2, <5>3, Zenon
      <4>2. CASE i = Len(queue')
        <5>1. queue'[i] = c /\ queue # <<>>
          BY <2>6, <4>2
        <5> QED
          BY <2>7, <3>6, <5>1, Zenon
      <4> QED
        BY <2>6, <4>1, <4>2
    <3>8. \A i \in 2..Len(queue') : Unsent(queue[i])'
      BY <3>7, Zenon
    <3> QED
      BY <3>4, <3>5, <3>8, Zenon DEF SentInv
  <2>13. VerdictInv'
    BY <1>1, <2>1 DEF IInv, TypeOK, CallType, VerdictInv, AtMostOnce, OwnVerdict, Verdicts
  <2> QED
    BY <2>4, <2>5, <2>8, <2>9, <2>11, <2>12, <2>13 DEF IInv
<1> QED
  BY <1>2, <1>3

\* The server executes a command that was not executed, and replies behind
\* nothing else.
LEMMA ServerExecuteStep ==
  ASSUME IInv, NEW s \in Sockets, NEW id \in Verdicts, ServerExecute(s, id)
  PROVE  IInv'
<1> USE MaxSocketsAssumption DEF Sockets
<1>1. PICK c \in Cmds : OnWire(c, s)
  BY DEF ServerExecute, IInv, WireInv
<1>2. toServer[s] = <<c>> /\ Head(toServer[s]) = c /\ Tail(toServer[s]) = <<>>
  BY <1>1 DEF OnWire
<1>3. /\ toServer' = [toServer EXCEPT ![s] = <<>>]
      /\ executed' = [executed EXCEPT ![c] = id]
      /\ executions' = [executions EXCEPT ![c] = executions[c] + 1]
      /\ \/ /\ sock[s] = "open"
            /\ \E reply \in Replies(c, id) :
                 fromServer' = [fromServer EXCEPT ![s] = fromServer[s] \o reply]
         \/ sock[s] # "open" /\ fromServer' = fromServer
      /\ UNCHANGED <<closed, connected, connecting, step, gen, socket, sock, call, queue, timers,
                     pendingData, entries>>
  BY <1>2 DEF ServerExecute, conn
<1>4. /\ executions[c] = 0 /\ executed[c] = "none"
      /\ call[c] \in {"queued", "failed"}
      /\ \A t \in Sockets : OnWire(c, t) => t = s
  BY <1>1 DEF IInv, SentInv, VerdictInv
<1>5. /\ \A d \in Cmds : d # c => executions'[d] = executions[d] /\ executed'[d] = executed[d]
      /\ executions'[c] = 1 /\ executed'[c] = id
      /\ \A t \in Sockets : toServer'[t] = IF t = s THEN <<>> ELSE toServer[t]
  BY <1>3, <1>4 DEF IInv, TypeOK, WireType
<1>6. \A reply \in Replies(c, id) :
        /\ reply \in Seq(Lines) /\ reply # <<>>
        /\ \A i \in 1..Len(reply) : reply[i].type = "error" <=> i = Len(reply)
        /\ reply[Len(reply)].id = id
  <2> DEFINE l(t) == [type |-> t, cmd |-> c, id |-> id]
  <2>1. \A t \in {"data", "error", "notify"} : l(t) \in Lines /\ l(t).type = t /\ l(t).id = id
    BY DEF Lines
  <2> HIDE DEF l
  <2>2. ASSUME NEW reply, reply = <<l("error")>> \/ reply = <<l("data"), l("error")>>
                                \/ reply = <<l("data"), l("notify"), l("error")>>
        PROVE  /\ reply \in Seq(Lines) /\ reply # <<>>
               /\ \A i \in 1..Len(reply) : reply[i].type = "error" <=> i = Len(reply)
               /\ reply[Len(reply)].id = id
    <3>1. CASE reply = <<l("error")>>
      <4>1. Len(reply) = 1 /\ reply[1] = l("error")
        BY <3>1
      <4> QED
        BY <2>1, <3>1, <4>1
    <3>2. CASE reply = <<l("data"), l("error")>>
      <4>1. Len(reply) = 2 /\ reply[1] = l("data") /\ reply[2] = l("error")
        BY <3>2
      <4> QED
        BY <2>1, <3>2, <4>1
    <3>3. CASE reply = <<l("data"), l("notify"), l("error")>>
      <4>1. Len(reply) = 3 /\ reply[1] = l("data") /\ reply[2] = l("notify") /\ reply[3] = l("error")
        BY <3>3
      <4> QED
        BY <2>1, <3>3, <4>1
    <3> QED
      BY <2>2, <3>1, <3>2, <3>3
  <2> QED
    BY <2>2, Zenon DEF Replies, l
<1>7. sock[s] = "open" =>
        /\ s = gen /\ queue # <<>> /\ Head(queue) = c /\ fromServer[s] = <<>>
        /\ \E reply \in Replies(c, id) : fromServer' = [fromServer EXCEPT ![s] = reply]
  <2>1. ASSUME sock[s] = "open"
        PROVE  s = gen /\ queue # <<>> /\ Head(queue) = c /\ fromServer[s] = <<>>
    BY <1>2, <2>1 DEF IInv, SocketInv, WireInv, OpenWire
  <2>2. \A reply \in Replies(c, id) : <<>> \o reply = reply
    BY <1>6, ConcatEmptySeq
  <2> QED
    BY <1>3, <2>1, <2>2
<1>8. TypeOK'
  <2>1. ConnType' /\ SocketType' /\ CallType'
    BY <1>3 DEF IInv, TypeOK, ConnType, SocketType, CallType
  <2>2. fromServer' \in [Sockets -> Seq(Lines)]
    BY <1>3, <1>6, <1>7 DEF IInv, TypeOK, WireType
  <2>3. WireType'
    BY <1>3, <1>4, <2>2 DEF IInv, TypeOK, WireType, Outcomes
  <2> QED
    BY <2>1, <2>3 DEF TypeOK
<1>9. SocketInv' /\ LifeInv' /\ QueueInv' /\ HeadTimed'
  BY <1>3 DEF IInv, SocketInv, LifeInv, QueueInv, Queued, HeadTimed
<1>10. WireInv'
  <2> SUFFICES ASSUME NEW t \in Sockets
               PROVE  /\ toServer'[t] = <<>> \/ \E d \in Cmds : OnWire(d, t)'
                      /\ sock'[t] # "open" => fromServer'[t] = <<>>
                      /\ sock'[t] \in {"unused", "handshake"} => toServer'[t] = <<>>
                      /\ sock'[t] = "open" => OpenWire(t)'
    BY DEF WireInv
  <2>1. CASE t = s
    <3>1. sock[s] = "open" => RestOfReply(fromServer[s], Head(queue))'
      <4>1. ASSUME sock[s] = "open", NEW reply \in Replies(c, id),
                   fromServer' = [fromServer EXCEPT ![s] = reply]
            PROVE  RestOfReply(fromServer[s], Head(queue))'
        <5>1. fromServer'[s] = reply
          BY <4>1 DEF IInv, TypeOK, WireType
        <5> QED
          BY <1>3, <1>5, <1>6, <1>7, <4>1, <5>1 DEF RestOfReply
      <4> QED
        BY <1>7, <4>1
    <3> QED
      BY <1>3, <1>5, <1>7, <2>1, <3>1 DEF IInv, WireInv, OpenWire
  <2>2. CASE t # s
    <3>1. toServer'[t] = toServer[t] /\ fromServer'[t] = fromServer[t]
      BY <1>3, <1>5, <1>7, <2>2 DEF IInv, TypeOK, WireType
    <3>2. \A d \in Cmds : OnWire(d, t)' <=> OnWire(d, t)
      BY <3>1 DEF OnWire
    <3>3. sock[t] = "open" => OpenWire(t)'
      <4>1. sock[t] = "open" => queue = <<>> \/ RestOfReply(fromServer[t], Head(queue)) \/ toServer[t] = <<Head(queue)>>
        BY DEF IInv, WireInv, OpenWire
      <4>2. sock[t] = "open" /\ RestOfReply(fromServer[t], Head(queue)) /\ queue # <<>> => RestOfReply(fromServer[t], Head(queue))'
        <5>1. queue # <<>> => Head(queue) \in Cmds
          BY HeadTailProperties DEF IInv, TypeOK, CallType
        <5>2. executions[c] # 1
          BY <1>4
        <5> QED
          BY <1>3, <1>5, <3>1, <5>1, <5>2 DEF RestOfReply
      <4> QED
        BY <1>3, <3>1, <4>2 DEF IInv, WireInv, OpenWire
    <3> QED
      BY <1>3, <3>1, <3>2, <3>3 DEF IInv, WireInv
  <2> QED
    BY <2>1, <2>2
<1>11. SentInv'
  <2>1. \A d \in Cmds, t \in Sockets : OnWire(d, t)' => OnWire(d, t) /\ d # c
    BY <1>4, <1>5 DEF OnWire
  <2>2. \A d \in Cmds : Unsent(d) /\ d # c => Unsent(d)'
    BY <1>5, <2>1 DEF Unsent
  <2>3. ~Unsent(c)
    BY <1>1 DEF Unsent
  <2>4. \A i \in 2..Len(queue) : queue[i] \in Cmds
    BY ElementOfSeq DEF IInv, TypeOK, CallType
  <2> QED
    BY <1>3, <1>5, <2>1, <2>2, <2>3, <2>4 DEF IInv, SentInv
<1>12. VerdictInv'
  <2>1. \A d \in Cmds : executions'[d] <= 1 /\ (executions'[d] = 0 <=> executed'[d] = "none")
    <3>1. \A d \in Cmds : executions[d] <= 1 /\ (executions[d] = 0 <=> executed[d] = "none")
      BY DEF IInv, VerdictInv, AtMostOnce
    <3> QED
      BY <1>5, <3>1 DEF Verdicts
  <2>2. OwnVerdict'
    BY <1>3, <1>4, <1>5 DEF IInv, VerdictInv, OwnVerdict, Verdicts
  <2> QED
    BY <2>1, <2>2 DEF VerdictInv, AtMostOnce
<1> QED
  BY <1>8, <1>9, <1>10, <1>11, <1>12 DEF IInv

\* handleLine() keeps the invariant: an error line is the one of the head, and
\* the next command goes onto a free wire.
LEMMA ReadStep ==
  ASSUME IInv, NEW s \in Sockets, Read(s)
  PROVE  IInv'
<1> USE MaxSocketsAssumption DEF Sockets
<1>1. /\ Idle /\ sock[s] = "open" /\ fromServer[s] # <<>>
      /\ fromServer' = [fromServer EXCEPT ![s] = Tail(fromServer[s])]
      /\ UNCHANGED <<closed, connected, connecting, step, gen, socket, sock, executed, executions>>
  BY DEF Read, conn, ghost
<1>2. /\ s = gen /\ socket = gen /\ queue # <<>> /\ toServer[s] = <<>>
      /\ RestOfReply(fromServer[s], Head(queue))
      /\ \A t \in Sockets : t # s => sock[t] # "open"
  BY <1>1 DEF IInv, SocketInv, WireInv, OpenWire
<1> DEFINE h == Head(queue)
           f == fromServer[s]
<1>3. /\ f \in Seq(Lines) /\ Head(f) \in Lines /\ Head(f) = f[1]
      /\ Tail(f) \in Seq(Lines) /\ Len(f) \in Nat /\ Len(f) > 0 /\ Len(Tail(f)) = Len(f) - 1
      /\ \A i \in 1..Len(Tail(f)) : Tail(f)[i] = f[i + 1]
  <2>1. f \in Seq(Lines)
    BY DEF IInv, TypeOK, WireType
  <2> QED
    BY <1>1, <2>1, HeadTailProperties, EmptySeq
<1>4. /\ queue \in Seq(Cmds) /\ h \in Cmds /\ Tail(queue) \in Seq(Cmds) /\ h = queue[1]
      /\ Len(queue) \in Nat /\ Len(queue) > 0 /\ Len(Tail(queue)) = Len(queue) - 1
      /\ \A i \in 1..Len(Tail(queue)) : Tail(queue)[i] = queue[i + 1]
  <2>1. queue \in Seq(Cmds)
    BY DEF IInv, TypeOK, CallType
  <2> QED
    BY <1>2, <2>1, HeadTailProperties, EmptySeq
<1>5. /\ call[h] = "queued" /\ \A d \in Cmds : call[d] = "queued" <=> Queued(d)
      /\ executions[h] = 1
  BY <1>2, <1>4 DEF IInv, QueueInv, Queued, RestOfReply
<1>6. fromServer' \in [Sockets -> Seq(Lines)]
  BY <1>1, <1>3 DEF IInv, TypeOK, WireType
<1>7. SocketInv'
  BY <1>1 DEF IInv, SocketInv
<1>8. CASE /\ Head(f).type # "error"
           /\ pendingData' \in {pendingData, Append(pendingData, Head(f).cmd)}
           /\ UNCHANGED <<call, queue, timers, entries, toServer>>
  <2>1. TypeOK'
    <3>1. pendingData' \in Seq(Cmds)
      <4>1. Head(f).cmd \in Cmds
        BY <1>3 DEF Lines
      <4>2. pendingData \in Seq(Cmds)
        BY DEF IInv, TypeOK, CallType
      <4> HIDE DEF f
      <4> QED
        BY <1>8, <4>1, <4>2, AppendProperties
    <3> QED
      BY <1>1, <1>6, <1>8, <3>1 DEF IInv, TypeOK, ConnType, SocketType, CallType, WireType
  <2>2. LifeInv' /\ QueueInv' /\ HeadTimed'
    BY <1>1, <1>8 DEF IInv, LifeInv, QueueInv, Queued, HeadTimed
  <2>3. RestOfReply(fromServer[s], Head(queue))'
    <3>1. fromServer'[s] = Tail(f)
      BY <1>1 DEF IInv, TypeOK, WireType
    <3>2. Len(f) > 1
      BY <1>2, <1>3, <1>8 DEF RestOfReply
    <3>3. Tail(f) # <<>> /\ Tail(f)[Len(Tail(f))] = f[Len(f)]
      BY <1>3, <3>2, EmptySeq
    <3>4. \A i \in 1..Len(Tail(f)) : Tail(f)[i].type = "error" <=> i = Len(Tail(f))
      BY <1>2, <1>3, <3>2 DEF RestOfReply
    <3> HIDE DEF f
    <3> QED
      BY <1>1, <1>2, <1>8, <3>1, <3>3, <3>4 DEF RestOfReply, f
  <2>4. WireInv'
    BY <1>1, <1>2, <1>8, <2>3 DEF IInv, TypeOK, WireType, WireInv, OpenWire, OnWire
  <2>5. SentInv' /\ VerdictInv'
    BY <1>1, <1>8 DEF IInv, SentInv, OnWire, Unsent, VerdictInv, AtMostOnce, OwnVerdict
  <2> QED
    BY <1>7, <2>1, <2>2, <2>4, <2>5 DEF IInv
<1>9. CASE Head(f).type = "error" /\ pendingData' = <<>> /\ SettleHead(Head(f).id)
  <2> DEFINE q == Tail(queue)
  <2>1. Head(f).id = executed[h] /\ Head(f).id \in Verdicts /\ Tail(f) = <<>>
    <3>0. \A i \in 1..Len(f) : f[i].type = "error" <=> i = Len(f)
      BY <1>2 DEF RestOfReply
    <3>1. Len(f) = 1
      <4>1. f[1].type = "error"
        BY <1>3, <1>9, Zenon
      <4>2. 1 \in 1..Len(f)
        BY <1>3
      <4> QED
        BY <3>0, <4>1, <4>2, Zenon
    <3>2. Tail(f) = <<>>
      <4>1. Tail(f) \in Seq(Lines) /\ Len(Tail(f)) = 0
        BY <1>3, <3>1
      <4> QED
        BY <4>1, EmptySeq
    <3> QED
      BY <1>2, <1>3, <3>1, <3>2 DEF RestOfReply, Lines
  <2>2. timers \ {h} = {}
    BY <1>2 DEF IInv, HeadTimed
  <2>3. /\ call' = [call EXCEPT ![h] = executed[h]]
        /\ entries' = [entries EXCEPT ![h] = pendingData]
        /\ queue' = q
        /\ SendHead(q, {})
    BY <1>2, <1>9, <2>1, <2>2 DEF SettleHead
  <2>4. \/ q = <<>> /\ timers' = {} /\ toServer' = toServer
        \/ /\ q # <<>> /\ timers' = {Head(q)}
           /\ toServer' = [toServer EXCEPT ![s] = <<Head(q)>>]
    <3>1. Append(<<>>, Head(q)) = <<Head(q)>>
      OBVIOUS
    <3>2. socket = s /\ socket # 0 /\ sock[socket] = "open"
      BY <1>1, <1>2
    <3> QED
      BY <1>2, <2>3, <3>1, <3>2 DEF SendHead
  <2>5. /\ q # <<>> => /\ Head(q) \in Cmds /\ Head(q) = queue[2] /\ 2 \in 2..Len(queue)
                       /\ Head(q) # h
        /\ \A i \in 1..Len(q) : q[i] \in Cmds /\ q[i] = queue[i + 1] /\ q[i] # h
        /\ Len(q) \in Nat /\ Len(q) = Len(queue) - 1
    <3>1. \A i \in 2..Len(queue) : queue[i] # h /\ queue[i] \in Cmds
      <4>1. \A i \in 2..Len(queue) : queue[i] # h
        BY <1>4 DEF IInv, QueueInv
      <4>2. \A i \in 2..Len(queue) : queue[i] \in Cmds
        BY <1>4, ElementOfSeq
      <4> QED
        BY <4>1, <4>2
    <3>2. q # <<>> => Len(q) > 0 /\ Head(q) = q[1]
      BY <1>4, EmptySeq
    <3>3. Len(q) \in Nat /\ Len(q) = Len(queue) - 1
      BY <1>4
    <3>4. \A i \in 1..Len(q) : q[i] = queue[i + 1] /\ i + 1 \in 2..Len(queue)
      BY <1>4
    <3>5. q # <<>> => 1 \in 1..Len(q)
      BY <3>2, <3>3
    <3> HIDE DEF q
    <3> QED
      BY <3>1, <3>2, <3>3, <3>4, <3>5
  <2>6. TypeOK'
    <3>1. ConnType' /\ SocketType'
      BY <1>1 DEF IInv, TypeOK, ConnType, SocketType
    <3>2. CallType'
      <4>1. call' \in [Cmds -> Calls] /\ entries' \in [Cmds -> Seq(Cmds)]
        BY <2>1, <2>3 DEF IInv, TypeOK, CallType, Calls
      <4>2. pendingData' \in Seq(Cmds) /\ queue' \in Seq(Cmds) /\ timers' \in SUBSET Cmds
        BY <1>4, <1>9, <2>3, <2>4, <2>5
      <4> QED
        BY <4>1, <4>2 DEF CallType
    <3>3. toServer' \in [Sockets -> Seq(Cmds)]
      <4>1. q # <<>> => <<Head(q)>> \in Seq(Cmds)
        BY <2>5
      <4>2. toServer \in [Sockets -> Seq(Cmds)]
        BY DEF IInv, TypeOK, WireType
      <4> HIDE DEF q
      <4> QED
        BY <2>4, <4>1, <4>2
    <3>4. WireType'
      BY <1>1, <1>6, <3>3 DEF IInv, TypeOK, WireType
    <3> QED
      BY <3>1, <3>2, <3>4 DEF TypeOK
  <2>7. LifeInv'
    BY <1>1, <2>1, <2>3 DEF IInv, TypeOK, CallType, LifeInv, Verdicts, Idle
  <2>8. QueueInv'
    <3>1. \A i, j \in 1..Len(queue') : queue'[i] = queue'[j] => i = j
      <4>1. \A i \in 1..Len(q) : i + 1 \in 1..Len(queue) /\ q[i] = queue[i + 1]
        BY <1>4, <2>5
      <4>2. \A i, j \in 1..Len(q) : queue[i + 1] = queue[j + 1] => i + 1 = j + 1
        BY <4>1 DEF IInv, QueueInv
      <4> HIDE DEF q
      <4> QED
        BY <2>3, <2>5, <4>1, <4>2
    <3>2. \A d \in Cmds : Queued(d)' <=> Queued(d) /\ d # h
      <4>1. DOMAIN queue = 1..Len(queue) /\ DOMAIN q = 1..Len(q)
        BY <1>4
      <4>2. \A i \in 1..Len(queue) : i = 1 \/ (i - 1 \in 1..Len(q) /\ q[i - 1] = queue[i])
        BY <1>4
      <4>3. \A i \in 1..Len(q) : q[i] # h /\ q[i] = queue[i + 1] /\ i + 1 \in 1..Len(queue)
        BY <1>4, <2>5
      <4> HIDE DEF q
      <4>4. ASSUME NEW d \in Cmds, Queued(d)'
            PROVE  Queued(d) /\ d # h
        BY <2>3, <4>1, <4>3, <4>4 DEF Queued
      <4>5. ASSUME NEW d \in Cmds, Queued(d), d # h
            PROVE  Queued(d)'
        BY <1>4, <2>3, <4>1, <4>2, <4>5 DEF Queued
      <4> QED
        BY <4>4, <4>5
    <3>3. \A d \in Cmds : call'[d] = "queued" <=> call[d] = "queued" /\ d # h
      BY <2>1, <2>3 DEF IInv, TypeOK, CallType, Verdicts
    <3> QED
      BY <1>5, <3>1, <3>2, <3>3 DEF QueueInv
  <2>9. HeadTimed'
    BY <2>3, <2>4 DEF HeadTimed
  <2>10. /\ fromServer'[s] = <<>>
         /\ toServer'[s] = IF q = <<>> THEN <<>> ELSE <<Head(q)>>
         /\ \A t \in Sockets : t # s => toServer'[t] = toServer[t] /\ fromServer'[t] = fromServer[t]
    BY <1>1, <1>2, <2>1, <2>4 DEF IInv, TypeOK, WireType
  <2>11. WireInv'
    <3>1. OpenWire(s)'
      BY <2>3, <2>10 DEF OpenWire
    <3>2. toServer'[s] = <<>> \/ \E d \in Cmds : OnWire(d, s)'
      BY <2>5, <2>10 DEF OnWire
    <3>3. \A t \in Sockets : t # s => \A d \in Cmds : OnWire(d, t)' <=> OnWire(d, t)
      BY <2>10 DEF OnWire
    <3> QED
      BY <1>1, <1>2, <2>10, <3>1, <3>2, <3>3 DEF IInv, WireInv
  <2>12. SentInv'
    <3>1. \A d \in Cmds, t \in Sockets :
             OnWire(d, t)' => OnWire(d, t) \/ (q # <<>> /\ d = Head(q) /\ t = s)
      BY <2>10 DEF OnWire
    <3>2. \A d \in Cmds : OnWire(d, s)' => q # <<>> /\ d = Head(q)
      BY <2>10 DEF OnWire
    <3>3. q # <<>> => Unsent(Head(q)) /\ Queued(Head(q))
      <4>1. q # <<>> => Unsent(queue[2]) /\ 2 \in DOMAIN queue
        BY <1>4, <2>5 DEF IInv, SentInv
      <4> QED
        BY <2>5, <4>1 DEF Queued, Unsent, OnWire
    <3>4. \A d \in Cmds, t \in Sockets : OnWire(d, t)' =>
            /\ executions'[d] = 0
            /\ call'[d] \in {"queued", "failed"}
            /\ \A u \in Sockets : OnWire(d, u)' => u = t
      <4> SUFFICES ASSUME NEW d \in Cmds, NEW t \in Sockets, OnWire(d, t)'
                   PROVE  /\ executions'[d] = 0
                          /\ call'[d] \in {"queued", "failed"}
                          /\ \A u \in Sockets : OnWire(d, u)' => u = t
        OBVIOUS
      <4>1. executions[d] = 0 /\ call[d] \in {"queued", "failed"} /\ d # h
        BY <1>5, <2>5, <3>1, <3>3 DEF IInv, SentInv, Unsent
      <4>2. \A u \in Sockets : OnWire(d, u)' => u = t
        BY <3>1, <3>2, <3>3 DEF IInv, SentInv, Unsent
      <4> QED
        BY <1>1, <2>3, <4>1, <4>2 DEF IInv, TypeOK, CallType
    <3>5. \A d \in Cmds : Unsent(d) /\ (q = <<>> \/ d # Head(q)) => Unsent(d)'
      BY <1>1, <3>1 DEF Unsent
    <3>6. \A d \in Cmds : call'[d] \in {"idle", "waiting", "ready"} => Unsent(d)'
      <4>1. \A d \in Cmds : call'[d] \in {"idle", "waiting", "ready"} => call'[d] = call[d]
        BY <2>1, <2>3 DEF IInv, TypeOK, CallType, Verdicts
      <4> QED
        BY <1>5, <3>3, <3>5, <4>1 DEF IInv, SentInv
    <3>7. ASSUME NEW i \in 2..Len(queue')
          PROVE  \E d \in Cmds : d = queue'[i] /\ Unsent(d)'
      <4>1. i \in 1..Len(q) /\ 1 \in 1..Len(q) /\ i + 1 \in 2..Len(queue) /\ q # <<>> /\ i # 1
        <5>1. queue' = q /\ Len(q) \in Nat /\ Len(q) = Len(queue) - 1 /\ Len(queue) \in Nat
          BY <1>4, <2>3
        <5> HIDE DEF q
        <5>2. q = <<>> => Len(q) = 0
          OBVIOUS
        <5> QED
          BY <5>1, <5>2
      <4>2. PICK d \in Cmds : d = q[i]
        BY <2>5, <4>1
      <4>3. d = queue[i + 1] /\ Unsent(d)
        BY <2>5, <4>1, <4>2 DEF IInv, SentInv
      <4>4. d # Head(q)
        BY <1>4, <2>5, <4>1, <4>3 DEF IInv, QueueInv
      <4> QED
        BY <2>3, <3>5, <4>2, <4>3, <4>4
    <3>8. \A i \in 2..Len(queue') : Unsent(queue[i])'
      BY <3>7, Zenon
    <3> QED
      BY <3>4, <3>6, <3>8, Zenon DEF SentInv
  <2>13. VerdictInv'
    BY <1>1, <1>5, <2>1, <2>3 DEF IInv, TypeOK, CallType, VerdictInv, AtMostOnce, OwnVerdict
  <2> QED
    BY <1>7, <2>6, <2>7, <2>8, <2>9, <2>11, <2>12, <2>13 DEF IInv
<1> QED
  <2>1. Head(f).type \in {"data", "error", "notify"}
    BY <1>3 DEF Lines
  <2> QED
    BY <1>1, <1>8, <1>9, <2>1 DEF Read

-----------------------------------------------------------------------------
(***************************************************************************)
(* The theorems.                                                           *)
(***************************************************************************)
LEMMA NextIInv == IInv /\ [Next]_vars => IInv'
<1> SUFFICES ASSUME IInv, [Next]_vars PROVE IInv'
  OBVIOUS
<1>1. CASE UNCHANGED vars
  <2>1. QueueInv' /\ WireInv' /\ SentInv'
    BY <1>1 DEF vars, IInv, QueueInv, Queued, WireInv, OpenWire, RestOfReply, SentInv, OnWire, Unsent
  <2>2. TypeOK' /\ SocketInv' /\ LifeInv' /\ HeadTimed' /\ VerdictInv'
    BY <1>1 DEF vars, IInv, TypeOK, ConnType, SocketType, CallType, WireType, SocketInv, LifeInv,
                HeadTimed, VerdictInv, AtMostOnce, OwnVerdict
  <2> QED
    BY <2>1, <2>2 DEF IInv
<1>2. ASSUME NEW c \in Cmds, Call(c) \/ Enqueue(c) \/ CommandTimeout(c)
      PROVE  IInv'
  BY <1>2, CallStep, EnqueueStep, CommandTimeoutStep
<1>3. ASSUME NEW s \in Sockets, Read(s) \/ SocketError(s) \/ PeerEnd(s) \/ CloseEvent(s)
      PROVE  IInv'
  BY <1>3, ReadStep, SocketErrorStep, PeerEndStep, CloseEventStep
<1> QED
  BY <1>1, <1>2, <1>3, HandshakeLineStep, HandshakeTimeoutStep, ServerExecuteStep, CloseStep DEF Next

\* The invariant contains Serialized.
LEMMA IInvSerialized == IInv => Serialized
<1> SUFFICES ASSUME IInv, NEW s \in Sockets
             PROVE  Len(toServer[s]) <= 1 /\ (fromServer[s] # <<>> => toServer[s] = <<>>)
  BY DEF Serialized
<1>1. toServer[s] = <<>> \/ \E c \in Cmds : toServer[s] = <<c>>
  BY DEF IInv, WireInv, OnWire
<1>2. fromServer[s] # <<>> => toServer[s] = <<>>
  BY DEF IInv, WireInv, OpenWire
<1>3. Len(toServer[s]) <= 1
  <2>1. CASE toServer[s] = <<>>
    <3>1. Len(<<>>) = 0
      OBVIOUS
    <3> QED
      BY <2>1, <3>1
  <2>2. CASE \E c \in Cmds : toServer[s] = <<c>>
    BY <2>2
  <2> QED
    BY <1>1, <2>1, <2>2
<1> QED
  BY <1>1, <1>2, <1>3

\* In every reachable state the inductive invariant holds.
LEMMA Invariance == Spec => []IInv
BY InitIInv, NextIInv, PTL DEF Spec

\* The state of the connection is well typed: every command has one place in it,
\* every reply is in the buffer of one socket (connection.ts).
THEOREM TypesHold == Spec => []TypeOK
<1>1. IInv => TypeOK
  BY DEF IInv
<1> QED
  BY Invariance, <1>1, PTL

\* For any calls and any number of reconnections, at most one command is
\* outstanding on a socket (sendHead()).
THEOREM OneOutstanding == Spec => []Serialized
<1>1. IInv => Serialized
  BY IInvSerialized
<1> QED
  BY Invariance, <1>1, PTL

\* Every response is the verdict of the one execution of its own command,
\* whatever timed out or reconnected before (settleHead()).
THEOREM OwnVerdicts == Spec => []OwnVerdict
<1>1. IInv => OwnVerdict
  BY DEF IInv, VerdictInv
<1> QED
  BY Invariance, <1>1, PTL

\* Neither the queue nor a reconnection sends a command a second time.
THEOREM NeverSentTwice == Spec => []AtMostOnce
<1>1. IInv => AtMostOnce
  BY DEF IInv, VerdictInv
<1> QED
  BY Invariance, <1>1, PTL

\* Exactly the head of the queue has an armed timer: no silence of the server
\* blocks the queue for good.
THEOREM TimedHead == Spec => []HeadTimed
<1>1. IInv => HeadTimed
  BY DEF IInv
<1> QED
  BY Invariance, <1>1, PTL

\* After close() no socket is alive and the connection is not up.
LEMMA NoSocketWhenClosed ==
  ASSUME IInv, closed
  PROVE  ~connected /\ \A s \in Sockets : sock[s] \notin {"handshake", "open"}
BY DEF IInv, SocketInv, Sockets

\* After close() the connection never comes up and no call succeeds, for any
\* calls and any number of sockets.
THEOREM CloseIsFinal == Spec => ClosedForGood
<1> DEFINE Final == closed => /\ ~connected'
                              /\ \A c \in Cmds : call'[c] \in Verdicts => call'[c] = call[c]
<1>1. IInv /\ IInv' /\ [Next]_vars => [Final]_vars
  <2> SUFFICES ASSUME IInv, IInv', Next, closed
               PROVE  /\ ~connected'
                      /\ \A c \in Cmds : call'[c] \in Verdicts => call'[c] = call[c]
    BY DEF vars
  <2>1. ~connected /\ \A s \in Sockets : sock[s] \notin {"handshake", "open"}
    BY NoSocketWhenClosed
  <2>2. closed'
    BY <2>1 DEF Next, Call, Enqueue, CommandTimeout, HandshakeLine, HandshakeTimeout, Read,
                SocketError, PeerEnd, CloseEvent, ServerExecute, Close, conn
  <2>3. ~connected'
    BY <2>2 DEF IInv, SocketInv
  <2> DEFINE NoAnswer == \A c \in Cmds : call'[c] \in Verdicts => call'[c] = call[c]
  <2>4. NoAnswer
    <3>1. call \in [Cmds -> Calls]
      BY DEF IInv, TypeOK, CallType
    <3>2. \A c \in Cmds : Call(c) \/ Enqueue(c) => NoAnswer
      BY <3>1 DEF Call, Enqueue, Verdicts
    <3>3. (\E c \in Cmds : CommandTimeout(c)) \/ (\E s \in Sockets : CloseEvent(s)) => NoAnswer
      BY <3>1 DEF CommandTimeout, CloseEvent, FailAll, Verdicts
    <3>4. (\E line \in HandshakeLines : HandshakeLine(line)) \/ HandshakeTimeout => NoAnswer
      BY <3>1 DEF HandshakeLine, HandshakeTimeout, RejectConnect, ResolveConnect, Verdicts
    <3>5. \A s \in Sockets : ~Read(s) /\ ~SocketError(s) /\ ~PeerEnd(s)
      BY <2>1 DEF Read, SocketError, PeerEnd
    <3>6. Close \/ (\E s \in Sockets, id \in Verdicts : ServerExecute(s, id)) => NoAnswer
      BY DEF Close, ServerExecute
    <3> QED
      BY <3>2, <3>3, <3>4, <3>5, <3>6 DEF Next
  <2> QED
    BY <2>3, <2>4
<1> QED
  BY InitIInv, NextIInv, <1>1, PTL DEF Spec, ClosedForGood

-----------------------------------------------------------------------------
(***************************************************************************)
(* Refinement: every step of the connection is a step of QueryService or   *)
(* leaves the promises and the history of the server alone.                *)
(***************************************************************************)
StatusMap == [c \in Cmds |-> Status(c)]

\* Failing a set of calls that wait is a Fail step of the service.
LEMMA FailStep ==
  ASSUME call \in [Cmds -> Calls], UNCHANGED executed, NEW S \in SUBSET Cmds,
         \A c \in S : call[c] \in {"idle", "waiting", "ready", "queued"},
         call' = [c \in Cmds |-> IF c \in S THEN "failed" ELSE call[c]]
  PROVE  Service!Next
<1>1. \A c \in S : StatusMap[c] \in {"idle", "pending"}
  BY DEF StatusMap, Status
<1>2. StatusMap' = [c \in Cmds |-> IF c \in S THEN "failed" ELSE StatusMap[c]]
  BY DEF StatusMap, Status
<1>3. Service!Fail(S)
  BY <1>1, <1>2 DEF Service!Fail, StatusMap
<1> QED
  BY <1>3 DEF Service!Next

\* A step that changes no promise and no verdict is a stutter of the service.
LEMMA StatusStutter ==
  ASSUME \A c \in Cmds : Status(c)' = Status(c), UNCHANGED executed
  PROVE  UNCHANGED Service!svars
<1>1. StatusMap' = StatusMap
  BY Zenon DEF StatusMap
<1> QED
  BY <1>1 DEF Service!svars, StatusMap

\* command() up to its await submits the call, or fails it at once.
LEMMA CallRefines ==
  ASSUME IInv, NEW c \in Cmds, Call(c)
  PROVE  Service!Next
<1>1. call \in [Cmds -> Calls] /\ call[c] = "idle" /\ UNCHANGED executed
  BY DEF IInv, TypeOK, CallType, Call, ghost
<1>2. CASE call' = [call EXCEPT ![c] = "failed"]
  <2>1. call' = [d \in Cmds |-> IF d \in {c} THEN "failed" ELSE call[d]]
    BY <1>1, <1>2
  <2> QED
    BY <1>1, <2>1, FailStep
<1>3. CASE \E x \in {"ready", "waiting"} : call' = [call EXCEPT ![c] = x]
  <2>1. StatusMap[c] = "idle" /\ StatusMap' = [StatusMap EXCEPT ![c] = "pending"]
    BY <1>1, <1>3 DEF StatusMap, Status
  <2>2. Service!Submit(c)
    BY <1>1, <2>1 DEF Service!Submit, StatusMap
  <2> QED
    BY <2>2 DEF Service!Next
<1> QED
  BY <1>2, <1>3 DEF Call

\* command() after its await is a stutter, or fails the call.
LEMMA EnqueueRefines ==
  ASSUME IInv, NEW c \in Cmds, Enqueue(c)
  PROVE  Service!Next \/ UNCHANGED Service!svars
<1>1. call \in [Cmds -> Calls] /\ call[c] = "ready" /\ UNCHANGED executed
  BY DEF IInv, TypeOK, CallType, Enqueue, ghost
<1>2. CASE call' = [call EXCEPT ![c] = "failed"]
  <2>1. call' = [d \in Cmds |-> IF d \in {c} THEN "failed" ELSE call[d]]
    BY <1>1, <1>2
  <2> QED
    BY <1>1, <2>1, FailStep
<1>3. CASE call' = [call EXCEPT ![c] = "queued"]
  BY <1>1, <1>3, StatusStutter DEF Status
<1> QED
  BY <1>2, <1>3 DEF Enqueue

\* failAll() is a Fail step.
LEMMA FailAllRefines ==
  ASSUME IInv, FailAll, UNCHANGED executed
  PROVE  Service!Next
<1> DEFINE S == {c \in Cmds : call[c] = "queued"}
<1>1. call' = [c \in Cmds |-> IF c \in S THEN "failed" ELSE call[c]]
  BY FailAllEffect
<1> QED
  BY <1>1, FailStep DEF IInv, TypeOK, CallType

\* A rejected connect() fails every call that waits for it.
LEMMA RejectRefines ==
  ASSUME IInv, RejectConnect, UNCHANGED executed
  PROVE  Service!Next
<1> DEFINE S == {c \in Cmds : call[c] = "waiting"}
<1>1. call' = [c \in Cmds |-> IF c \in S THEN "failed" ELSE call[c]]
  BY DEF RejectConnect
<1> QED
  BY <1>1, FailStep DEF IInv, TypeOK, CallType

\* A line of the handshake fails the waiting calls or changes no promise.
LEMMA HandshakeLineRefines ==
  ASSUME IInv, NEW line \in HandshakeLines, HandshakeLine(line)
  PROVE  Service!Next \/ UNCHANGED Service!svars
<1>1. UNCHANGED executed
  BY DEF HandshakeLine, ghost
<1>2. CASE RejectConnect
  BY <1>1, <1>2, RejectRefines
<1>3. CASE ResolveConnect \/ UNCHANGED call
  <2>1. \A c \in Cmds : Status(c)' = Status(c)
    BY <1>3 DEF ResolveConnect, Status
  <2> QED
    BY <1>1, <2>1, StatusStutter
<1> QED
  BY <1>2, <1>3 DEF HandshakeLine

\* The line that ends a response answers the head with the verdict of its own
\* execution; every other line is a stutter.
LEMMA ReadRefines ==
  ASSUME IInv, NEW s \in Sockets, Read(s)
  PROVE  Service!Next \/ UNCHANGED Service!svars
<1>1. UNCHANGED executed /\ call \in [Cmds -> Calls]
  BY DEF Read, ghost, IInv, TypeOK, CallType
<1>2. CASE UNCHANGED call
  BY <1>1, <1>2, StatusStutter DEF Status
<1>3. CASE Head(fromServer[s]).type = "error" /\ SettleHead(Head(fromServer[s]).id)
  <2> DEFINE h == Head(queue)
  <2>1. /\ queue # <<>> /\ h \in Cmds /\ call[h] = "queued"
        /\ executed[h] = Head(fromServer[s]).id /\ executed[h] \in Verdicts
    <3>1. queue # <<>> /\ RestOfReply(fromServer[s], h)
      BY DEF Read, IInv, WireInv, OpenWire
    <3>2. fromServer[s] \in Seq(Lines) /\ queue \in Seq(Cmds)
      BY DEF IInv, TypeOK, WireType, CallType
    <3>3. /\ Len(fromServer[s]) \in Nat /\ Len(fromServer[s]) > 0
          /\ Head(fromServer[s]) = fromServer[s][1]
      BY <3>1, <3>2, EmptySeq DEF RestOfReply
    <3>4. h \in Cmds /\ h = queue[1] /\ 1 \in DOMAIN queue
      BY <3>1, <3>2, EmptySeq
    <3>5. 1 = Len(fromServer[s])
      <4>1. \A i \in 1..Len(fromServer[s]) :
              fromServer[s][i].type = "error" <=> i = Len(fromServer[s])
        BY <3>1 DEF RestOfReply
      <4>2. fromServer[s][1].type = "error"
        BY <1>3, <3>3, Zenon
      <4>3. 1 \in 1..Len(fromServer[s])
        BY <3>3
      <4> QED
        BY <4>1, <4>2, <4>3, Zenon
    <3>6. call[h] = "queued"
      BY <3>4 DEF IInv, QueueInv, Queued
    <3>7. fromServer[s][1].id \in Verdicts
      <4>1. fromServer[s][1] \in Lines
        BY <3>2, <3>3, ElementOfSeq
      <4> QED
        BY <4>1 DEF Lines
    <3> QED
      BY <3>1, <3>3, <3>4, <3>5, <3>6, <3>7 DEF RestOfReply
  <2>2. call' = [call EXCEPT ![h] = executed[h]]
    BY <1>3, <2>1 DEF SettleHead
  <2>3. StatusMap[h] = "pending" /\ StatusMap' = [StatusMap EXCEPT ![h] = executed[h]]
    BY <1>1, <2>1, <2>2 DEF StatusMap, Status, Verdicts
  <2>4. Service!Answer(h)
    BY <1>1, <2>1, <2>3 DEF Service!Answer, StatusMap, Verdicts
  <2> QED
    BY <2>1, <2>4 DEF Service!Next
<1> QED
  BY <1>2, <1>3 DEF Read

\* The 'error' event fails the queued calls, and the waiting ones of a handshake.
LEMMA SocketErrorRefines ==
  ASSUME IInv, NEW s \in Sockets, SocketError(s)
  PROVE  Service!Next
<1> DEFINE S == {c \in Cmds : call[c] = "queued" \/ (sock[s] = "handshake" /\ call[c] = "waiting")}
<1>1. call' = [c \in Cmds |-> IF c \in S THEN "failed" ELSE call[c]]
  BY DEF SocketError, IInv, QueueInv
<1> QED
  BY <1>1, FailStep DEF SocketError, ghost, IInv, TypeOK, CallType

\* The server executes a command whose caller still waits or gave up.
LEMMA ExecuteRefines ==
  ASSUME IInv, NEW s \in Sockets, NEW id \in Verdicts, ServerExecute(s, id)
  PROVE  Service!Next
<1>1. PICK c \in Cmds : toServer[s] = <<c>>
  BY DEF ServerExecute, IInv, WireInv, OnWire
<1>2. call[c] \in {"queued", "failed"} /\ executed[c] = "none"
  BY <1>1 DEF IInv, SentInv, OnWire, VerdictInv
<1>3. executed' = [executed EXCEPT ![c] = id] /\ UNCHANGED call
  BY <1>1 DEF ServerExecute
<1>4. StatusMap[c] \in {"pending", "failed"} /\ UNCHANGED StatusMap
  BY <1>2, <1>3 DEF StatusMap, Status
<1>5. Service!Execute(c, id)
  BY <1>2, <1>3, <1>4 DEF Service!Execute, StatusMap
<1> QED
  BY <1>5 DEF Service!Next

\* What callers of command() rely on: a call fails, or returns the verdict the
\* server reached when it executed that very command.
THEOREM Refinement == Spec => ImplementsService
<1>1. Init => Service!Init
  BY DEF Init, Service!Init, Status
<1>2. IInv /\ [Next]_vars => [Service!Next]_(Service!svars)
  <2> SUFFICES ASSUME IInv, [Next]_vars PROVE Service!Next \/ UNCHANGED Service!svars
    OBVIOUS
  <2>1. CASE UNCHANGED vars
    BY <2>1, StatusStutter DEF vars, Status
  <2>2. ASSUME NEW c \in Cmds, CommandTimeout(c)
        PROVE  Service!Next
    BY <2>2, FailAllRefines DEF CommandTimeout, ghost
  <2>3. ASSUME NEW s \in Sockets, CloseEvent(s)
        PROVE  Service!Next
    BY <2>3, FailAllRefines DEF CloseEvent, ghost
  <2>4. CASE HandshakeTimeout
    BY <2>4, RejectRefines DEF HandshakeTimeout, ghost
  <2>5. ASSUME Close \/ \E s \in Sockets : PeerEnd(s)
        PROVE  UNCHANGED Service!svars
    BY <2>5, StatusStutter DEF Close, PeerEnd, ghost, Status
  <2> QED
    BY <2>1, <2>2, <2>3, <2>4, <2>5, CallRefines, EnqueueRefines, HandshakeLineRefines, ReadRefines,
       SocketErrorRefines, ExecuteRefines DEF Next
<1> QED
  BY InitIInv, NextIInv, <1>1, <1>2, PTL DEF Spec, ImplementsService, Service!Spec
=============================================================================
