------------------------ MODULE ServerQueryConnection ------------------------
(***************************************************************************)
(* The long-lived TeamSpeak ServerQuery TCP connection of                  *)
(* apps/ts3-manager/src/ts3/serverQueryConnection.ts: calls that await a   *)
(* shared connect(), a queue whose head alone is on the wire, the timer of *)
(* the head, the line parser with its pendingData buffer, and the events   *)
(* of the socket.                                                          *)
(*                                                                         *)
(* One element of Cmds is one call of command().  Sockets are numbered in  *)
(* the order openConnection() creates them; a destroyed socket stays       *)
(* "dying" until Node delivers its 'close' event.  JavaScript runs to      *)
(* completion, so an action is one callback or one continuation of a       *)
(* promise; a macrotask (data, timer, socket event) never runs while a     *)
(* continuation is ready.                                                  *)
(***************************************************************************)
EXTENDS Naturals, Sequences

CONSTANTS
  Cmds,        \* calls of command()
  MaxSockets   \* bound: sockets openConnection() may create

ASSUME MaxSocketsAssumption == MaxSockets \in Nat

VARIABLES
  closed,      \* this.closed
  connected,   \* this.connected
  connecting,  \* this.connecting # undefined
  step,        \* what the handshake waits for: "banner", "login" or "use"
  gen,         \* sockets created so far
  socket,      \* this.socket, 0 when undefined
  sock,        \* sock[s]: state of socket s
  call,        \* call[c]: where call c stands
  queue,       \* this.queue
  timers,      \* commands whose pending.timer is armed
  pendingData, \* this.pendingData: the command each data line answered
  entries,     \* entries[c]: the command each data line of c's response answered
  toServer,    \* toServer[s]: commands written and not yet executed
  fromServer,  \* fromServer[s]: lines sent and not yet read
  executed,    \* history: the verdict of the server on c, "none" before
  executions   \* history: how often the server executed c

conn  == <<closed, connected, connecting, step, gen, socket>>
wires == <<toServer, fromServer>>
ghost == <<executed, executions>>
vars  == <<closed, connected, connecting, step, gen, socket, sock, call, queue, timers,
           pendingData, entries, toServer, fromServer, executed, executions>>

Sockets  == 1..MaxSockets
Verdicts == {"ok", "refused"}
Outcomes == Verdicts \cup {"none"}
Calls    == {"idle", "waiting", "ready", "queued", "failed"} \cup Verdicts
Lines    == [type : {"data", "error", "notify"}, cmd : Cmds, id : Verdicts]

Init ==
  /\ closed = FALSE /\ connected = FALSE /\ connecting = FALSE
  /\ step = "banner" /\ gen = 0 /\ socket = 0
  /\ sock = [s \in Sockets |-> "unused"]
  /\ call = [c \in Cmds |-> "idle"]
  /\ queue = <<>> /\ timers = {} /\ pendingData = <<>>
  /\ entries = [c \in Cmds |-> <<>>]
  /\ toServer = [s \in Sockets |-> <<>>]
  /\ fromServer = [s \in Sockets |-> <<>>]
  /\ executed = [c \in Cmds |-> "none"]
  /\ executions = [c \in Cmds |-> 0]

-----------------------------------------------------------------------------
\* No continuation is ready: the event loop may start a macrotask.
Idle == \A c \in Cmds : call[c] # "ready"

Queued(c) == \E i \in DOMAIN queue : queue[i] = c

\* sendHead(): arm the timer of the head of q and write it to this.socket,
\* which loses it when the socket is destroyed already.  T: the timers armed
\* before.
SendHead(q, T) ==
  IF q = <<>> \/ socket = 0
  THEN timers' = T /\ UNCHANGED toServer
  ELSE /\ timers' = T \cup {Head(q)}
       /\ toServer' = IF sock[socket] = "open"
                      THEN [toServer EXCEPT ![socket] = Append(@, Head(q))]
                      ELSE toServer

\* A failAll() that stops after the head of the queue.
FailAllHeadOnly ==
  LET doomed == IF queue = <<>> THEN {} ELSE {Head(queue)} IN
  /\ call' = [c \in Cmds |-> IF c \in doomed THEN "failed" ELSE call[c]]
  /\ timers' = timers \ doomed
  /\ queue' = IF queue = <<>> THEN <<>> ELSE Tail(queue)

\* A failAll() that resolves what it should reject.
FailAllResolves ==
  /\ call' = [c \in Cmds |-> IF Queued(c) THEN "ok" ELSE call[c]]
  /\ timers' = {c \in timers : ~Queued(c)}
  /\ queue' = <<>>

\* failAll(): every queued command is rejected and its timer cleared.
FailAll ==
  /\ call' = [c \in Cmds |-> IF Queued(c) THEN "failed" ELSE call[c]]
  /\ timers' = {c \in timers : ~Queued(c)}
  /\ queue' = <<>>

\* socket.destroy() on s: nothing more is read from it, and its 'close' event
\* will come.
Destroy(s) ==
  IF s # 0 /\ sock[s] \in {"handshake", "open"}
  THEN /\ sock' = [sock EXCEPT ![s] = "dying"]
       /\ fromServer' = [fromServer EXCEPT ![s] = <<>>]
  ELSE UNCHANGED <<sock, fromServer>>

-----------------------------------------------------------------------------
\* command() up to its await: connect() returns, joins the connection being
\* opened, refuses because close() was called, or opens a socket.
Call(c) ==
  /\ call[c] = "idle"
  /\ \/ /\ connected
        /\ call' = [call EXCEPT ![c] = "ready"]
        /\ UNCHANGED <<conn, sock>>
     \/ /\ ~connected /\ connecting
        /\ call' = [call EXCEPT ![c] = "waiting"]
        /\ UNCHANGED <<conn, sock>>
     \/ /\ ~connected /\ ~connecting /\ closed
        /\ call' = [call EXCEPT ![c] = "failed"]
        /\ UNCHANGED <<conn, sock>>
     \/ /\ ~connected /\ ~connecting /\ ~closed
        /\ gen < MaxSockets
        /\ gen' = gen + 1
        /\ socket' = gen + 1
        /\ sock' = [sock EXCEPT ![gen + 1] = "handshake"]
        /\ connecting' = TRUE
        /\ step' = "banner"
        /\ call' = [call EXCEPT ![c] = "waiting"]
        /\ UNCHANGED <<closed, connected>>
  /\ UNCHANGED <<queue, timers, pendingData, entries, wires, ghost>>

\* A command() that calls sendHead() whatever waits before it.
EnqueueAlwaysSends(c) ==
  /\ call[c] = "ready" /\ socket # 0
  /\ call' = [call EXCEPT ![c] = "queued"]
  /\ queue' = Append(queue, c)
  /\ SendHead(queue', timers)
  /\ UNCHANGED <<conn, sock, pendingData, entries, fromServer, ghost>>

\* A command() that writes its text at once, behind what is outstanding.
EnqueuePipelined(c) ==
  /\ call[c] = "ready" /\ socket # 0
  /\ call' = [call EXCEPT ![c] = "queued"]
  /\ queue' = Append(queue, c)
  /\ SendHead(<<c>>, timers)
  /\ UNCHANGED <<conn, sock, pendingData, entries, fromServer, ghost>>

\* command() after its await: this.socket is looked at again.
Enqueue(c) ==
  /\ call[c] = "ready"
  /\ IF socket = 0
     THEN /\ call' = [call EXCEPT ![c] = "failed"]
          /\ UNCHANGED <<queue, timers, toServer>>
     ELSE /\ call' = [call EXCEPT ![c] = "queued"]
          /\ queue' = Append(queue, c)
          /\ IF queue = <<>> THEN SendHead(queue', timers)
                             ELSE UNCHANGED <<timers, toServer>>
  /\ UNCHANGED <<conn, sock, pendingData, entries, fromServer, ghost>>

-----------------------------------------------------------------------------
\* settle(error) of the handshake: destroy its socket and reject connect(),
\* which every waiting call awaits.
RejectConnect ==
  /\ connecting' = FALSE
  /\ Destroy(gen)
  /\ call' = [c \in Cmds |-> IF call[c] = "waiting" THEN "failed" ELSE call[c]]

\* settle(): connect() resolves, and every waiting call may go on.
ResolveConnect ==
  /\ connecting' = FALSE
  /\ connected' = TRUE
  /\ sock' = [sock EXCEPT ![gen] = "open"]
  /\ call' = [c \in Cmds |-> IF call[c] = "waiting" THEN "ready" ELSE call[c]]
  /\ UNCHANGED fromServer

\* The handshake of socket gen reads one line.  A destroyed socket reports
\* 'close' in the loop iteration that destroyed it, before a later socket has
\* read anything.  The welcome line after the banner is skipped.
HandshakeLine(line) ==
  /\ Idle
  /\ connecting /\ sock[gen] = "handshake"
  /\ \A s \in Sockets : sock[s] # "dying"
  /\ ~(step = "login" /\ line = "Welcome")
  /\ \/ /\ step = "banner" /\ line = "TS3"
        /\ step' = "login"
        /\ UNCHANGED <<connected, connecting, sock, call, fromServer>>
     \/ /\ step = "login" /\ line = "ok"
        /\ step' = "use"
        /\ UNCHANGED <<connected, connecting, sock, call, fromServer>>
     \/ /\ step = "use" /\ line = "ok"
        /\ ResolveConnect
        /\ UNCHANGED step
     \/ /\ \/ step = "banner" /\ line # "TS3"
           \/ step \in {"login", "use"} /\ line # "ok"
        /\ RejectConnect
        /\ UNCHANGED <<connected, step>>
  /\ UNCHANGED <<closed, gen, socket, queue, timers, pendingData, entries, toServer, ghost>>

\* The timer of the handshake: it also ends a handshake whose socket closed
\* without an error.
HandshakeTimeout ==
  /\ Idle
  /\ connecting
  /\ RejectConnect
  /\ UNCHANGED <<closed, connected, step, gen, socket, queue, timers, pendingData, entries,
                 toServer, ghost>>

-----------------------------------------------------------------------------
\* A settleHead() that forgets clearTimeout().
SettleHeadKeepsTimer(id) ==
  IF queue = <<>>
  THEN UNCHANGED <<call, queue, timers, entries, toServer>>
  ELSE /\ call' = [call EXCEPT ![Head(queue)] = id]
       /\ entries' = [entries EXCEPT ![Head(queue)] = pendingData]
       /\ queue' = Tail(queue)
       /\ SendHead(Tail(queue), timers)

\* A settleHead() that lost the id of the error line.
SettleHeadNoId(id) ==
  IF queue = <<>>
  THEN UNCHANGED <<call, queue, timers, entries, toServer>>
  ELSE /\ call' = [call EXCEPT ![Head(queue)] = "none"]
       /\ entries' = [entries EXCEPT ![Head(queue)] = pendingData]
       /\ queue' = Tail(queue)
       /\ SendHead(Tail(queue), timers \ {Head(queue)})

\* settleHead(): the head leaves the queue with its response and the next
\* command is sent.
SettleHead(id) ==
  IF queue = <<>>
  THEN UNCHANGED <<call, queue, timers, entries, toServer>>
  ELSE /\ call' = [call EXCEPT ![Head(queue)] = id]
       /\ entries' = [entries EXCEPT ![Head(queue)] = pendingData]
       /\ queue' = Tail(queue)
       /\ SendHead(Tail(queue), timers \ {Head(queue)})

\* handleLine(): notifications are handed to the callback, data lines are
\* kept, an error line ends the response of the head of the queue.  assertOk
\* turns a non-zero error id into an exception: the call ends "refused".
Read(s) ==
  /\ Idle
  /\ sock[s] = "open" /\ fromServer[s] # <<>>
  /\ fromServer' = [fromServer EXCEPT ![s] = Tail(@)]
  /\ LET line == Head(fromServer[s]) IN
     \/ /\ line.type = "notify"
        /\ UNCHANGED <<call, queue, timers, pendingData, entries, toServer>>
     \/ /\ line.type = "data"
        /\ pendingData' = Append(pendingData, line.cmd)
        /\ UNCHANGED <<call, queue, timers, entries, toServer>>
     \/ /\ line.type = "error"
        /\ pendingData' = <<>>
        /\ SettleHead(line.id)
  /\ UNCHANGED <<conn, sock, ghost>>

\* A command timeout that leaves the socket alone.
CommandTimeoutKeepsSocket(c) ==
  /\ Idle
  /\ c \in timers
  /\ FailAll
  /\ UNCHANGED <<conn, sock, pendingData, entries, wires, ghost>>

\* The timer of command c: everything queued fails and the socket goes.
CommandTimeout(c) ==
  /\ Idle
  /\ c \in timers
  /\ FailAll
  /\ Destroy(socket)
  /\ UNCHANGED <<conn, pendingData, entries, toServer, ghost>>

\* The socket's 'error' event: it ends the handshake, if that is still on, and
\* everything queued.  What the server sent and was not read is lost.
SocketError(s) ==
  /\ Idle
  /\ sock[s] \in {"handshake", "open"}
  /\ sock' = [sock EXCEPT ![s] = "dying"]
  /\ fromServer' = [fromServer EXCEPT ![s] = <<>>]
  /\ call' = [c \in Cmds |-> IF Queued(c) \/ (sock[s] = "handshake" /\ call[c] = "waiting")
                             THEN "failed" ELSE call[c]]
  /\ timers' = {c \in timers : ~Queued(c)}
  /\ queue' = <<>>
  /\ connecting' = IF sock[s] = "handshake" THEN FALSE ELSE connecting
  /\ UNCHANGED <<closed, connected, step, gen, socket, pendingData, entries, toServer, ghost>>

\* The server closes the connection in order: all it sent was read.
PeerEnd(s) ==
  /\ Idle
  /\ sock[s] \in {"handshake", "open"} /\ fromServer[s] = <<>>
  /\ sock' = [sock EXCEPT ![s] = "dying"]
  /\ UNCHANGED <<conn, call, queue, timers, pendingData, entries, wires, ghost>>

\* The socket's 'close' event.
CloseEvent(s) ==
  /\ Idle
  /\ sock[s] = "dying"
  /\ sock' = [sock EXCEPT ![s] = "gone"]
  /\ connected' = FALSE
  /\ FailAll
  /\ UNCHANGED <<closed, connecting, step, gen, socket, pendingData, entries, wires, ghost>>

\* A close() that only forgets the socket.
CloseKeepsSocket ==
  /\ ~closed
  /\ closed' = TRUE
  /\ connected' = FALSE
  /\ socket' = 0
  /\ UNCHANGED <<connecting, step, gen, sock, call, queue, timers, pendingData, entries, wires,
                 ghost>>

\* close(): may come at any time, between two continuations too.
Close ==
  /\ ~closed
  /\ closed' = TRUE
  /\ connected' = FALSE
  /\ Destroy(socket)
  /\ socket' = 0
  /\ UNCHANGED <<connecting, step, gen, call, queue, timers, pendingData, entries, toServer,
                 ghost>>

-----------------------------------------------------------------------------
\* The reply to c: at most one data line, at most one notification before the
\* error line.
Replies(c, id) ==
  LET l(t) == [type |-> t, cmd |-> c, id |-> id]
  IN {<<l("error")>>, <<l("data"), l("error")>>, <<l("data"), l("notify"), l("error")>>}

\* The TeamSpeak server executes the oldest command written to socket s, even
\* one written to a socket the client gave up, and replies if it can.
ServerExecute(s, id) ==
  /\ toServer[s] # <<>>
  /\ toServer' = [toServer EXCEPT ![s] = Tail(@)]
  /\ LET c == Head(toServer[s]) IN
     /\ executed' = [executed EXCEPT ![c] = id]
     /\ executions' = [executions EXCEPT ![c] = @ + 1]
     /\ IF sock[s] = "open"
        THEN \E reply \in Replies(c, id) :
               fromServer' = [fromServer EXCEPT ![s] = @ \o reply]
        ELSE UNCHANGED fromServer
  /\ UNCHANGED <<conn, sock, call, queue, timers, pendingData, entries>>

HandshakeLines == {"TS3", "Welcome", "ok", "refused"}

Next ==
  \/ \E c \in Cmds : Call(c) \/ Enqueue(c) \/ CommandTimeout(c)
  \/ \E line \in HandshakeLines : HandshakeLine(line)
  \/ HandshakeTimeout
  \/ \E s \in Sockets : Read(s) \/ SocketError(s) \/ PeerEnd(s) \/ CloseEvent(s)
  \/ \E s \in Sockets, id \in Verdicts : ServerExecute(s, id)
  \/ Close

Spec == Init /\ [][Next]_vars

\* Node runs ready continuations, fires timers and delivers 'close' events;
\* nothing is assumed of the server, the network or the callers.
Fairness ==
  /\ \A c \in Cmds : WF_vars(Enqueue(c)) /\ WF_vars(CommandTimeout(c))
  /\ WF_vars(HandshakeTimeout)
  /\ \A s \in Sockets : WF_vars(CloseEvent(s))

FairSpec == Spec /\ Fairness

-----------------------------------------------------------------------------
ConnType ==
  /\ closed \in BOOLEAN /\ connected \in BOOLEAN /\ connecting \in BOOLEAN

SocketType ==
  /\ step \in {"banner", "login", "use"}
  /\ gen \in 0..MaxSockets /\ socket \in 0..MaxSockets
  /\ sock \in [Sockets -> {"unused", "handshake", "open", "dying", "gone"}]

CallType ==
  /\ call \in [Cmds -> Calls]
  /\ queue \in Seq(Cmds) /\ timers \in SUBSET Cmds
  /\ pendingData \in Seq(Cmds)
  /\ entries \in [Cmds -> Seq(Cmds)]

WireType ==
  /\ toServer \in [Sockets -> Seq(Cmds)]
  /\ fromServer \in [Sockets -> Seq(Lines)]
  /\ executed \in [Cmds -> Outcomes]
  /\ executions \in [Cmds -> Nat]

TypeOK == ConnType /\ SocketType /\ CallType /\ WireType

\* "Commands are serialized (one outstanding at a time)": a socket never
\* carries two commands the server has not answered, nor an unread reply
\* beside a command.
Serialized ==
  \A s \in Sockets :
    /\ Len(toServer[s]) <= 1
    /\ fromServer[s] # <<>> => toServer[s] = <<>>

\* The response of a call is the verdict of the one execution of its own
\* command: settleHead() never hands a reply to another call, whatever timed
\* out or reconnected before.
OwnVerdict ==
  \A c \in Cmds : call[c] \in Verdicts => executed[c] = call[c] /\ executions[c] = 1

\* No command reaches the server twice: neither the queue nor a reconnection
\* sends one again.
AtMostOnce == \A c \in Cmds : executions[c] <= 1

\* The head of the queue is timed as long as it waits, and no command that was
\* settled or not sent is: a head without a timer would block the queue for
\* good when the server stays silent.
HeadTimed == timers = IF queue = <<>> THEN {} ELSE {Head(queue)}

\* A response holds only data lines of its own command.
OwnData ==
  \A c \in Cmds : call[c] \in Verdicts =>
    \A i \in DOMAIN entries[c] : entries[c][i] = c

\* After close() no call succeeds, the one on the wire and the ones waiting for
\* the handshake included, and the connection never comes up.
ClosedForGood ==
  [][closed => /\ ~connected'
               /\ \A c \in Cmds : call'[c] \in Verdicts => call'[c] = call[c]]_vars

\* Every call comes to an end although the server may stay silent, the
\* handshake may hang and close() may come in between.
Settles ==
  \A c \in Cmds : call[c] \in {"waiting", "ready", "queued"}
                     ~> call[c] \in Verdicts \cup {"failed"}

\* The promise of a call, as the caller sees it.
Status(c) == IF call[c] \in {"waiting", "ready", "queued"} THEN "pending" ELSE call[c]

Service == INSTANCE QueryService WITH status <- [c \in Cmds |-> Status(c)]

\* The connection implements the service its callers rely on.
ImplementsService == Service!Spec
=============================================================================
