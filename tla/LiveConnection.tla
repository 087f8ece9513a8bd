--------------------------- MODULE LiveConnection ---------------------------
(***************************************************************************)
(* One mailbox's IMAP connection in the web app: the Connection of         *)
(* apps/web/src/relay/live.ts, from its first task until close or closeAll *)
(* has ended it.  Every IMAP command of the mailbox is part of a task on    *)
(* its queue; a pump runs the tasks one after another, opens the socket    *)
(* they need, and leaves the connection resting in IDLE.                   *)
(*                                                                         *)
(* The module's processes are the async functions of the file: the pump,   *)
(* idleUntilNeeded (more than one call may be under way), the keepalive's  *)
(* stopIdle, and shutdown.  A step is what one of them does between two    *)
(* awaits.  A step that awaits nothing still pending is taken before any   *)
(* timer, answer or failure, as the event loop takes it (Settled).         *)
(*                                                                         *)
(* A socket is the relayed TLS connection with its IMAP client, whose      *)
(* commands go out one at a time: `wire' is the client's command queue.    *)
(* Which folder the server has selected is `at'.                           *)
(***************************************************************************)
EXTENDS Naturals, Sequences, FiniteSets

CONSTANTS
  Tasks,        \* what is asked of the mailbox, each once
  UserTasks,    \* the tasks with priority "user"
  Retryable,    \* the tasks with retry: true
  OtherTasks,   \* the tasks that work in another folder than INBOX
  Idlers,       \* names for calls of idleUntilNeeded
  Sockets,      \* names for sockets, used again once nothing refers to them
  None,
  MaxDrops,     \* how many connections may be lost
  MaxReopens    \* how many dropped IDLEs are opened again; a further one was too soon

ASSUME TasksAssumption == UserTasks \cup Retryable \cup OtherTasks \subseteq Tasks
ASSUME NamesAssumption ==
  /\ None \notin Idlers \cup Sockets \cup Tasks \cup {"task", "logout", "pump"}
  /\ Idlers \cap {"task", "logout"} = {}
  /\ Sockets \cap (Idlers \cup {"pump"}) = {}
ASSUME BoundsAssumption == {MaxDrops, MaxReopens} \subseteq Nat

VARIABLES
  task,     \* what became of each task
  starts,   \* how often each task was started (history)
  queue,    \* conn.userQueue and conn.backgroundQueue
  pump,     \* the pump: where it is, its task and socket, what it awaits
  idler,    \* each call of idleUntilNeeded
  asked,    \* the calls whose IDLE was told done()
  refresh,  \* the keepalive's stopIdle, then rest
  rests,    \* setTimer(() => rest(conn), 0) not yet fired
  conn,     \* conn.socket, conn.abort, conn.teardown
  keepalive,
  sock,     \* each socket
  wire,     \* each socket's commands, the first one at the server
  shut,     \* shutdown
  drops, reopens

vars == <<task, starts, queue, pump, idler, asked, refresh, rests, conn,
          keepalive, sock, wire, shut, drops, reopens>>
-----------------------------------------------------------------------------
Folders == {"inbox", "other"}
FolderOf(t) == IF t \in OtherTasks THEN "other" ELSE "inbox"
Queues == {"user", "background"}
QueueOf(t) == IF t \in UserTasks THEN "user" ELSE "background"

\* The await the pump is at, and that of a call of idleUntilNeeded, of the keepalive's stopIdle, of
\* shutdown; the socket each works on, and what it waits for (`on').
PumpPcs == {"off", "stopIdle", "next", "drop", "settle", "connect", "select",
            "command", "lost", "giveUp", "end", "ending"}
WaiterPcs == {"off", "selecting", "idling", "closing", "settle", "connect", "rest",
              "stopIdle", "pumping", "done"}
Pumps == [pc : PumpPcs, task : Tasks \cup {None}, sock : Sockets \cup {None},
          on : Sockets \cup Idlers \cup {None}, tries : 0..1]
Waiters == [pc : WaiterPcs, sock : Sockets \cup {None},
            on : Sockets \cup Idlers \cup {None, "pump"}]

\* A process that is not running.
Off == [pc |-> "off", sock |-> None, on |-> None]
PumpOff == [pc |-> "off", task |-> None, sock |-> None, on |-> None, tries |-> 0]

\* What a command is and who awaits it: the pump's task, an idler, or closeSocket.
Commands == [by : {"task", "logout"} \cup Idlers,
             does : {"select", "command", "idle", "logout"}]
Command(by, does) == [by |-> by, does |-> does]

Conns == [socket : Sockets \cup {None}, abort : Sockets \cup {None},
          teardown : Sockets \cup {None}]
SocketStates == [state : {"closed", "opening", "open", "closing"}, alive : BOOLEAN,
                 selected : Folders \cup {"none"}, at : Folders \cup {"none"},
                 idle : Idlers \cup {None}]

\* `at' is the server's; the rest is the Socket record of live.ts.
Closed == [state |-> "closed", alive |-> FALSE, selected |-> "none",
           at |-> "none", idle |-> None]

\* A socket nothing refers to any more: its name can be used for a new one.
Unused == {s \in Sockets : /\ sock[s].state = "closed"
                           /\ s \notin {pump.sock, conn.abort}
                           /\ \A i \in Idlers : idler[i].sock # s}
\* Names are taken in an order of their own: which one is taken makes no difference.
AnUnused == CHOOSE s \in Unused : TRUE
Resters == {i \in Idlers : idler[i].pc = "off"}
ARester == CHOOSE i \in Resters : TRUE

Released(p, x) == IF p.on = x THEN [p EXCEPT !.on = None] ELSE p
NoTask == \A q \in Queues : queue[q] = <<>>
CanRest == pump.pc = "off" /\ NoTask
HasWork == pump.pc # "off" \/ ~NoTask
-----------------------------------------------------------------------------
\* An await with nothing left to wait for: it is continued before anything else happens.
PumpIsReady ==
  \/ pump.pc \in {"stopIdle", "next", "drop", "settle", "lost", "giveUp", "end", "ending"}
       /\ pump.on = None
  \/ pump.pc \in {"connect", "select", "command"} /\ ~sock[pump.sock].alive
IdlerIsReady(i) ==
  \/ idler[i].pc \in {"closing", "settle", "rest"} /\ idler[i].on = None
  \/ idler[i].pc \in {"selecting", "idling", "connect"} /\ ~sock[idler[i].sock].alive
Settled ==
  /\ ~PumpIsReady
  /\ \A i \in Idlers : ~IdlerIsReady(i)
  /\ refresh.pc = "off" \/ refresh.on # None
  /\ shut.pc \in {"off", "done"} \/ shut.on # None
  /\ \A s \in Sockets : sock[s].state = "closing" => sock[s].alive
-----------------------------------------------------------------------------
\* closeSocket: detaches the socket now, sends DONE and LOGOUT behind what is queued on it.
TeardownAfter == IF conn.socket = None THEN conn.teardown ELSE conn.socket
CloseSocket ==
  LET s == conn.socket IN
  IF s = None THEN UNCHANGED <<conn, keepalive, asked, sock, wire>>
  ELSE /\ conn' = [conn EXCEPT !.socket = None, !.teardown = s]
       /\ keepalive' = FALSE
       /\ asked' = asked \cup ({sock[s].idle} \ {None})
       /\ sock' = [sock EXCEPT ![s] = [@ EXCEPT !.state = "closing", !.idle = None]]
       /\ wire' = [wire EXCEPT ![s] = Append(@, Command("logout", "logout"))]

\* stopIdle: takes the IDLE held, if any, and tells it to end.
HeldIdle == IF conn.socket = None THEN None ELSE sock[conn.socket].idle
TakeIdle ==
  /\ keepalive' = FALSE
  /\ asked' = asked \cup ({HeldIdle} \ {None})
  /\ sock' = IF HeldIdle = None THEN sock ELSE [sock EXCEPT ![conn.socket].idle = None]

\* A new socket for the process `p', which becomes the one a stall ends.
StartConnect(s) ==
  /\ sock' = [sock EXCEPT ![s] = [Closed EXCEPT !.state = "opening", !.alive = TRUE]]
  /\ conn' = [conn EXCEPT !.abort = s]
-----------------------------------------------------------------------------
StartPump == TakeIdle /\ pump' = [PumpOff EXCEPT !.pc = "stopIdle", !.on = HeldIdle]

\* manager.run: the task joins its queue, and the pump starts unless it is running.
Run(t) ==
  /\ task[t] = "new" /\ shut.pc = "off"
  /\ task' = [task EXCEPT ![t] = "queued"]
  /\ queue' = [queue EXCEPT ![QueueOf(t)] = Append(@, t)]
  /\ IF pump.pc = "off" THEN StartPump ELSE UNCHANGED <<pump, keepalive, asked, sock>>
  /\ UNCHANGED <<starts, idler, refresh, rests, conn, wire, shut, drops, reopens>>

\* The task's signal aborts while it is still queued.
Cancel(t) ==
  /\ Settled /\ task[t] = "queued"
  /\ task' = [task EXCEPT ![t] = "done"]
  /\ \E q \in Queues : \E k \in 1..Len(queue[q]) :
       /\ queue[q][k] = t
       /\ queue' = [queue EXCEPT ![q] = SubSeq(@, 1, k - 1) \o SubSeq(@, k + 1, Len(@))]
  /\ UNCHANGED <<starts, pump, idler, asked, refresh, rests, conn, keepalive, sock,
                 wire, shut, drops, reopens>>

\* Mutant of RejectQueued: the background tasks stay in their queue.
MutRejectQueued ==
  /\ task' = [t \in Tasks |-> IF task[t] = "queued" THEN "done" ELSE task[t]]
  /\ queue' = [queue EXCEPT !["user"] = <<>>]

\* rejectQueued
RejectQueued ==
  /\ task' = [t \in Tasks |-> IF task[t] = "queued" THEN "done" ELSE task[t]]
  /\ queue' = [q \in Queues |-> <<>>]

IdleStopped ==
  /\ pump.pc = "stopIdle" /\ pump.on = None
  /\ pump' = [pump EXCEPT !.pc = "next"]
  /\ UNCHANGED <<task, starts, queue, idler, asked, refresh, rests, conn, keepalive,
                 sock, wire, shut, drops, reopens>>

\* The loop of pump: a user task before a background one.
Next1 ==
  LET q == IF queue["user"] # <<>> THEN "user" ELSE "background" IN
  /\ pump.pc = "next"
  /\ IF queue[q] = <<>>
     THEN pump' = [pump EXCEPT !.pc = "ending"] /\ UNCHANGED <<task, queue>>
     ELSE /\ pump' = [pc |-> "drop", task |-> Head(queue[q]), sock |-> None,
                       on |-> conn.teardown, tries |-> 0]
          /\ task' = [task EXCEPT ![Head(queue[q])] = "running"]
          /\ queue' = [queue EXCEPT ![q] = Tail(@)]
  /\ UNCHANGED <<starts, idler, asked, refresh, rests, conn, keepalive, sock, wire,
                 shut, drops, reopens>>

\* task.run on an open socket: ensureSelected, then the task's command, which stands for its commands.
Begin(t, s, open) ==
  /\ starts' = [starts EXCEPT ![t] = @ + 1]
  /\ IF open[s].selected = FolderOf(t)
     THEN /\ pump' = [pump EXCEPT !.pc = "command", !.sock = s]
          /\ wire' = [wire EXCEPT ![s] = Append(@, Command("task", "command"))]
          /\ sock' = open
     ELSE /\ pump' = [pump EXCEPT !.pc = "select", !.sock = s]
          /\ wire' = [wire EXCEPT ![s] = Append(@, Command("task", "select"))]
          /\ sock' = [open EXCEPT ![s] = [@ EXCEPT !.selected = "none"]]

\* attempt, once no teardown is under way: on the open socket, or on a new one.
Attempt ==
  /\ pump.pc = "drop" /\ pump.on = None
  /\ IF conn.socket # None
     THEN Begin(pump.task, conn.socket, sock)
     ELSE /\ pump' = [pump EXCEPT !.pc = "settle", !.on = conn.teardown]
          /\ UNCHANGED <<starts, sock, wire>>
  /\ UNCHANGED <<task, queue, idler, asked, refresh, rests, conn, keepalive, shut,
                 drops, reopens>>

PumpConnects ==
  /\ pump.pc = "settle" /\ pump.on = None
  /\ Unused # {} /\ StartConnect(AnUnused)
  /\ pump' = [pump EXCEPT !.pc = "connect", !.sock = AnUnused]
  /\ UNCHANGED <<task, starts, queue, idler, asked, refresh, rests, keepalive, wire,
                 shut, drops, reopens>>

PumpConnected ==
  LET s == pump.sock IN
  /\ Settled /\ pump.pc = "connect"
  /\ conn' = [conn EXCEPT !.socket = s]
  /\ Begin(pump.task, s, [sock EXCEPT ![s] = [@ EXCEPT !.state = "open"]])
  /\ UNCHANGED <<task, queue, idler, asked, refresh, rests, keepalive, shut, drops,
                 reopens>>

\* The server cannot be reached or refuses the login, or the watchdog ended it.
PumpConnectFails ==
  LET s == pump.sock IN
  /\ pump.pc = "connect" /\ (Settled \/ ~sock[s].alive)
  /\ sock' = [sock EXCEPT ![s] = Closed]
  /\ pump' = [pump EXCEPT !.pc = "end", !.sock = None]
  /\ UNCHANGED <<task, starts, queue, idler, asked, refresh, rests, conn, keepalive,
                 wire, shut, drops, reopens>>
-----------------------------------------------------------------------------
\* The server answers the first command on `s', which is `c'.
Answers(s, c) == Settled /\ sock[s].alive /\ wire[s] # <<>> /\ Head(wire[s]) = c

\* What select leaves in the Socket once `folder', or "none" for a refusal, is its answer: nothing
\* when a later SELECT is on its way.
Selected(s, folder) ==
  LET isLast == \A k \in 2..Len(wire[s]) : wire[s][k].does # "select" IN
  [sock[s] EXCEPT !.at = folder, !.selected = IF isLast THEN folder ELSE @]

TaskSelected ==
  LET s == pump.sock IN
  /\ pump.pc = "select" /\ Answers(s, Command("task", "select"))
  /\ \/ /\ sock' = [sock EXCEPT ![s] = Selected(s, FolderOf(pump.task))]
        /\ wire' = [wire EXCEPT ![s] = Append(Tail(@), Command("task", "command"))]
        /\ pump' = [pump EXCEPT !.pc = "command"]
     \/ /\ sock' = [sock EXCEPT ![s] = Selected(s, "none")]
        /\ wire' = [wire EXCEPT ![s] = Tail(@)]
        /\ pump' = [pump EXCEPT !.pc = "end", !.sock = None]
  /\ UNCHANGED <<task, starts, queue, idler, asked, refresh, rests, conn, keepalive,
                 shut, drops, reopens>>

TaskAnswered ==
  LET s == pump.sock IN
  /\ pump.pc = "command" /\ Answers(s, Command("task", "command"))
  /\ wire' = [wire EXCEPT ![s] = Tail(@)]
  /\ pump' = [pump EXCEPT !.pc = "end", !.sock = None]
  /\ UNCHANGED <<task, starts, queue, idler, asked, refresh, rests, conn, keepalive,
                 sock, shut, drops, reopens>>

\* Mutants of TaskLost: a task that may run twice runs until a connection lasts; every task is
\* taken for one that may.
MutLostForEver ==
  /\ pump.pc \in {"select", "command"} /\ ~sock[pump.sock].alive
  /\ CloseSocket
  /\ pump' = [pc |-> IF pump.task \in Retryable THEN "lost" ELSE "giveUp",
               task |-> pump.task, sock |-> None, on |-> TeardownAfter, tries |-> pump.tries + 1]
  /\ UNCHANGED <<task, starts, queue, idler, refresh, rests, shut, drops, reopens>>
MutLostTwice ==
  /\ pump.pc \in {"select", "command"} /\ ~sock[pump.sock].alive
  /\ CloseSocket
  /\ pump' = [pc |-> IF pump.tries = 0 THEN "lost" ELSE "giveUp",
               task |-> pump.task, sock |-> None, on |-> TeardownAfter, tries |-> 1]
  /\ UNCHANGED <<task, starts, queue, idler, refresh, rests, shut, drops, reopens>>

\* The socket died under the task: it is closed, and the task runs once more if it may.
TaskLost ==
  /\ pump.pc \in {"select", "command"} /\ ~sock[pump.sock].alive
  /\ CloseSocket
  /\ pump' = [pc |-> IF pump.task \in Retryable /\ pump.tries = 0 THEN "lost" ELSE "giveUp",
               task |-> pump.task, sock |-> None, on |-> TeardownAfter, tries |-> 1]
  /\ UNCHANGED <<task, starts, queue, idler, refresh, rests, shut, drops, reopens>>

TryAgain ==
  /\ pump.pc = "lost" /\ pump.on = None
  /\ pump' = [pump EXCEPT !.pc = "drop", !.on = conn.teardown]
  /\ UNCHANGED <<task, starts, queue, idler, asked, refresh, rests, conn, keepalive,
                 sock, wire, shut, drops, reopens>>

\* resolve(last.result)
Resolve ==
  /\ pump.pc \in {"end", "giveUp"} /\ pump.on = None
  /\ task' = [task EXCEPT ![pump.task] = "done"]
  /\ pump' = [PumpOff EXCEPT !.pc = "next"]
  /\ UNCHANGED <<starts, queue, idler, asked, refresh, rests, conn, keepalive, sock,
                 wire, shut, drops, reopens>>

\* The pump's finally: it starts again for a task queued since it looked, or lets the connection rest.
PumpEnds ==
  /\ pump.pc = "ending"
  /\ shut' = Released(shut, "pump")
  /\ IF NoTask
     THEN /\ pump' = PumpOff /\ rests' = rests + 1
          /\ UNCHANGED <<keepalive, asked, sock>>
     ELSE StartPump /\ UNCHANGED rests
  /\ UNCHANGED <<task, starts, queue, idler, refresh, conn, wire, drops, reopens>>
-----------------------------------------------------------------------------
\* The call `i' of idleUntilNeeded sends IDLE on the socket `s', whose state is `open'.
Idle(i, s, open) ==
  /\ idler' = [idler EXCEPT ![i] = [pc |-> "idling", sock |-> s, on |-> None]]
  /\ sock' = [sock EXCEPT ![s] = [open EXCEPT !.idle = i]]
  /\ keepalive' = TRUE

\* Mutant of Rest: while its SELECT is on its way, the folder selected last is believed.
MutRest(i) ==
  LET s == conn.socket IN
  IF s = None \/ ~CanRest \/ HeldIdle # None \/ keepalive
  THEN idler' = [idler EXCEPT ![i] = Off] /\ UNCHANGED <<sock, wire, keepalive>>
  ELSE IF sock[s].selected = "inbox"
  THEN /\ Idle(i, s, sock[s])
       /\ wire' = [wire EXCEPT ![s] = Append(@, Command(i, "idle"))]
  ELSE /\ idler' = [idler EXCEPT ![i] = [pc |-> "selecting", sock |-> s, on |-> None]]
       /\ wire' = [wire EXCEPT ![s] = Append(@, Command(i, "select"))]
       /\ UNCHANGED <<keepalive, sock>>

\* rest, in whose name idleUntilNeeded runs as `i'.
Rest(i) ==
  LET s == conn.socket IN
  IF s = None \/ ~CanRest \/ HeldIdle # None \/ keepalive
  THEN idler' = [idler EXCEPT ![i] = Off] /\ UNCHANGED <<sock, wire, keepalive>>
  ELSE IF sock[s].selected = "inbox"
  THEN /\ Idle(i, s, sock[s])
       /\ wire' = [wire EXCEPT ![s] = Append(@, Command(i, "idle"))]
  ELSE /\ idler' = [idler EXCEPT ![i] = [pc |-> "selecting", sock |-> s, on |-> None]]
       /\ sock' = [sock EXCEPT ![s] = [@ EXCEPT !.selected = "none"]]
       /\ wire' = [wire EXCEPT ![s] = Append(@, Command(i, "select"))]
       /\ UNCHANGED keepalive

RestTimer ==
  /\ Settled /\ rests > 0
  /\ rests' = rests - 1
  /\ Resters # {} /\ Rest(ARester)
  /\ UNCHANGED <<task, starts, queue, pump, asked, refresh, conn, shut, drops, reopens>>

\* INBOX is selected for resting: IDLE, unless a task came or the socket was detached meanwhile.
IdlerSelected(i) ==
  LET s == idler[i].sock IN
  /\ idler[i].pc = "selecting" /\ Answers(s, Command(i, "select"))
  /\ \/ /\ CanRest /\ conn.socket = s
        /\ Idle(i, s, Selected(s, "inbox"))
        /\ wire' = [wire EXCEPT ![s] = Append(Tail(@), Command(i, "idle"))]
     \/ /\ ~CanRest \/ conn.socket # s
        /\ idler' = [idler EXCEPT ![i] = Off]
        /\ sock' = [sock EXCEPT ![s] = Selected(s, "inbox")]
        /\ wire' = [wire EXCEPT ![s] = Tail(@)]
        /\ UNCHANGED keepalive
     \/ /\ idler' = [idler EXCEPT ![i] = Off]
        /\ sock' = [sock EXCEPT ![s] = Selected(s, "none")]
        /\ wire' = [wire EXCEPT ![s] = Tail(@)]
        /\ UNCHANGED keepalive
  /\ UNCHANGED <<task, starts, queue, pump, asked, refresh, rests, conn, shut, drops,
                 reopens>>

IdlerLost(i) ==
  /\ idler[i].pc = "selecting" /\ ~sock[idler[i].sock].alive
  /\ idler' = [idler EXCEPT ![i] = Off]
  /\ IF conn.socket = idler[i].sock THEN CloseSocket
     ELSE UNCHANGED <<conn, keepalive, asked, sock, wire>>
  /\ UNCHANGED <<task, starts, queue, pump, refresh, rests, shut, drops, reopens>>

\* The IDLE of `i' is over: DONE was answered, or the connection is gone.  Whoever asked goes on; if
\* nobody did, the server dropped it.
IdleEnds(i) ==
  LET s == idler[i].sock IN
  /\ idler[i].pc = "idling"
  /\ ~sock[s].alive \/ (i \in asked /\ Answers(s, Command(i, "idle")))
  /\ pump' = Released(pump, i)
  /\ refresh' = Released(refresh, i)
  /\ LET left == IF sock[s].alive THEN Tail(wire[s]) ELSE wire[s] IN
     IF sock[s].idle = i /\ conn.socket = s
     THEN /\ idler' = [idler EXCEPT ![i] = [pc |-> "closing", sock |-> None, on |-> s]]
          /\ conn' = [conn EXCEPT !.socket = None, !.teardown = s]
          /\ keepalive' = FALSE
          /\ sock' = [sock EXCEPT ![s] = [@ EXCEPT !.state = "closing", !.idle = None]]
          /\ wire' = [wire EXCEPT ![s] = Append(left, Command("logout", "logout"))]
     ELSE /\ idler' = [idler EXCEPT ![i] = Off]
          /\ sock' = IF sock[s].idle = i THEN [sock EXCEPT ![s] = [@ EXCEPT !.idle = None]] ELSE sock
          /\ wire' = [wire EXCEPT ![s] = left]
          /\ UNCHANGED <<conn, keepalive>>
  /\ asked' = asked \ {i}
  /\ UNCHANGED <<task, starts, queue, rests, shut, drops, reopens>>

\* After a dropped IDLE: given up when the last drop was within the minute, else opened again.
Reopen(i) ==
  /\ idler[i].pc = "closing" /\ idler[i].on = None
  /\ \/ idler' = [idler EXCEPT ![i] = Off] /\ UNCHANGED reopens
     \/ /\ reopens < MaxReopens
        /\ reopens' = reopens + 1
        /\ idler' = [idler EXCEPT ![i] = [@ EXCEPT !.pc = "settle", !.on = conn.teardown]]
  /\ UNCHANGED <<task, starts, queue, pump, asked, refresh, rests, conn, keepalive,
                 sock, wire, shut, drops>>

IdlerConnects(i) ==
  /\ idler[i].pc = "settle" /\ idler[i].on = None
  /\ Unused # {} /\ StartConnect(AnUnused)
  /\ idler' = [idler EXCEPT ![i] = [@ EXCEPT !.pc = "connect", !.sock = AnUnused]]
  /\ UNCHANGED <<task, starts, queue, pump, asked, refresh, rests, keepalive, wire,
                 shut, drops, reopens>>

IdlerConnected(i) ==
  LET s == idler[i].sock IN
  /\ Settled /\ idler[i].pc = "connect"
  /\ conn' = [conn EXCEPT !.socket = s]
  /\ sock' = [sock EXCEPT ![s] = [@ EXCEPT !.state = "open"]]
  /\ idler' = [idler EXCEPT ![i] = [@ EXCEPT !.pc = "rest", !.sock = None]]
  /\ UNCHANGED <<task, starts, queue, pump, asked, refresh, rests, keepalive, wire,
                 shut, drops, reopens>>

IdlerConnectFails(i) ==
  LET s == idler[i].sock IN
  /\ idler[i].pc = "connect" /\ (Settled \/ ~sock[s].alive)
  /\ sock' = [sock EXCEPT ![s] = Closed]
  /\ idler' = [idler EXCEPT ![i] = Off]
  /\ UNCHANGED <<task, starts, queue, pump, asked, refresh, rests, conn, keepalive,
                 wire, shut, drops, reopens>>

RestAgain(i) ==
  /\ idler[i].pc = "rest"
  /\ Rest(i)
  /\ UNCHANGED <<task, starts, queue, pump, asked, refresh, rests, conn, shut, drops,
                 reopens>>

\* The keepalive: IDLE is ended and taken up again, well within a server's half hour.
KeepaliveFires ==
  /\ Settled /\ keepalive /\ refresh.pc = "off"
  /\ TakeIdle
  /\ refresh' = [Off EXCEPT !.pc = "stopIdle", !.on = HeldIdle]
  /\ UNCHANGED <<task, starts, queue, pump, idler, rests, conn, wire, shut, drops,
                 reopens>>

Refreshed ==
  /\ refresh.pc = "stopIdle" /\ refresh.on = None
  /\ refresh' = Off
  /\ Resters # {} /\ Rest(ARester)
  /\ UNCHANGED <<task, starts, queue, pump, asked, rests, conn, shut, drops, reopens>>
-----------------------------------------------------------------------------
\* A detached socket's LOGOUT is answered, or its connection is gone: whoever waits for it goes on.
TeardownEnds(s) ==
  /\ sock[s].state = "closing"
  /\ ~sock[s].alive \/ Answers(s, Command("logout", "logout"))
  /\ sock' = [sock EXCEPT ![s] = Closed]
  /\ wire' = [wire EXCEPT ![s] = <<>>]
  /\ conn' = [conn EXCEPT !.teardown = IF @ = s THEN None ELSE @]
  /\ pump' = Released(pump, s)
  /\ idler' = [i \in Idlers |-> Released(idler[i], s)]
  /\ shut' = Released(shut, s)
  /\ UNCHANGED <<task, starts, queue, asked, refresh, rests, keepalive, drops, reopens>>

\* The network or the server ends a connection.
Drop(s) ==
  /\ Settled /\ drops < MaxDrops /\ sock[s].alive
  /\ sock' = [sock EXCEPT ![s] = [@ EXCEPT !.alive = FALSE]]
  /\ drops' = drops + 1
  /\ UNCHANGED <<task, starts, queue, pump, idler, asked, refresh, rests, conn,
                 keepalive, wire, shut, reopens>>

\* Mutant of Stall: it closes the socket, with a LOGOUT behind the command that is not answered.
MutStall ==
  /\ Settled /\ HasWork
  /\ RejectQueued
  /\ CloseSocket
  /\ UNCHANGED <<starts, pump, idler, refresh, rests, shut, drops, reopens>>

\* The watchdog: work that waited out its limit is rejected, and the last socket opened is ended.
Stall ==
  /\ Settled /\ HasWork
  /\ RejectQueued
  /\ sock' = IF conn.abort = None THEN sock ELSE [sock EXCEPT ![conn.abort].alive = FALSE]
  /\ UNCHANGED <<starts, pump, idler, asked, refresh, rests, conn, keepalive, wire,
                 shut, drops, reopens>>

\* Mutant of BeginShutdown: it does not wait for the running task.
MutBeginShutdown ==
  /\ Settled /\ shut.pc = "off"
  /\ RejectQueued
  /\ shut' = [Off EXCEPT !.pc = "pumping"]
  /\ UNCHANGED <<starts, pump, idler, asked, refresh, rests, conn, keepalive, sock,
                 wire, drops, reopens>>

\* shutdown, for close (an address edited or removed) and closeAll (a lock): the runner hands the
\* connection no task from here on.
BeginShutdown ==
  /\ Settled /\ shut.pc = "off"
  /\ RejectQueued
  /\ shut' = [Off EXCEPT !.pc = "pumping", !.on = IF pump.pc = "off" THEN None ELSE "pump"]
  /\ UNCHANGED <<starts, pump, idler, asked, refresh, rests, conn, keepalive, sock,
                 wire, drops, reopens>>

ShutdownCloses ==
  /\ shut.pc = "pumping" /\ shut.on = None
  /\ CloseSocket
  /\ shut' = [shut EXCEPT !.pc = "closing", !.on = TeardownAfter]
  /\ UNCHANGED <<task, starts, queue, pump, idler, refresh, rests, drops, reopens>>

ShutdownEnds ==
  /\ shut.pc = "closing" /\ shut.on = None
  /\ shut' = [Off EXCEPT !.pc = "done"]
  /\ UNCHANGED <<task, starts, queue, pump, idler, asked, refresh, rests, conn,
                 keepalive, sock, wire, drops, reopens>>
-----------------------------------------------------------------------------
Init ==
  /\ task = [t \in Tasks |-> "new"]
  /\ starts = [t \in Tasks |-> 0]
  /\ queue = [q \in Queues |-> <<>>]
  /\ pump = PumpOff
  /\ idler = [i \in Idlers |-> Off]
  /\ asked = {}
  /\ refresh = Off
  /\ rests = 0
  /\ conn = [socket |-> None, abort |-> None, teardown |-> None]
  /\ keepalive = FALSE
  /\ sock = [s \in Sockets |-> Closed]
  /\ wire = [s \in Sockets |-> <<>>]
  /\ shut = Off
  /\ drops = 0 /\ reopens = 0

Pumping ==
  \/ IdleStopped \/ Next1 \/ Attempt \/ PumpConnects \/ PumpConnected \/ PumpConnectFails
  \/ TaskSelected \/ TaskAnswered \/ TaskLost \/ TryAgain \/ Resolve \/ PumpEnds
Resting ==
  \/ RestTimer \/ KeepaliveFires \/ Refreshed
  \/ \E i \in Idlers : \/ IdlerSelected(i) \/ IdlerLost(i) \/ IdleEnds(i) \/ Reopen(i)
                       \/ IdlerConnects(i) \/ IdlerConnected(i) \/ IdlerConnectFails(i)
                       \/ RestAgain(i)
Callers == \E t \in Tasks : Run(t) \/ Cancel(t)
Closing == BeginShutdown \/ ShutdownCloses \/ ShutdownEnds \/ \E s \in Sockets : TeardownEnds(s)
Faults == Stall \/ \E s \in Sockets : Drop(s)
Next == Pumping \/ Resting \/ Callers \/ Closing \/ Faults

Spec == Init /\ [][Next]_vars
-----------------------------------------------------------------------------
TasksType ==
  /\ task \in [Tasks -> {"new", "queued", "running", "done"}]
  /\ starts \in [Tasks -> Nat]
  /\ queue \in [Queues -> Seq(Tasks)]
PumpType == pump \in Pumps
RestType ==
  /\ idler \in [Idlers -> Waiters]
  /\ asked \subseteq Idlers
  /\ refresh \in Waiters
  /\ rests \in Nat
  /\ keepalive \in BOOLEAN
ConnType == conn \in Conns
SockType == sock \in [Sockets -> SocketStates]
WireType == wire \in [Sockets -> Seq(Commands)]
ShutType == shut \in Waiters
CountType == drops \in 0..MaxDrops /\ reopens \in 0..MaxReopens

\* Values keep the shape of live.ts's records.
TypeOK ==
  /\ TasksType /\ PumpType /\ RestType /\ ConnType
  /\ SockType /\ WireType /\ ShutType /\ CountType

\* The server has the folder selected that the command it is about to run was meant for, whatever
\* SELECTs of tasks and of resting overlapped before: no uid is read, flagged or moved in another
\* folder.
RunsInItsFolder ==
  \A s \in Sockets :
    (sock[s].alive /\ wire[s] # <<>> /\ Head(wire[s]).does = "command") =>
      sock[s].at = FolderOf(pump.task)

\* stopIdle "ends the current IDLE, if any": the one that a socket's server is running is the one
\* the socket holds, or was already told to end.  An IDLE nobody can end blocks whatever is queued.
EveryIdleCanBeEnded ==
  \A s \in Sockets :
    (sock[s].alive /\ wire[s] # <<>> /\ Head(wire[s]).does = "idle") =>
      Head(wire[s]).by \in asked \cup {sock[s].idle}

\* A task that may not run twice (a move, an APPEND) is started once, however its connection ended.
StartsAsAllowed == \A t \in Tasks : starts[t] <= IF t \in Retryable THEN 2 ELSE 1

\* Once a task has been answered (ended, failed, cancelled, rejected) it is not run any more.
NothingAfterSettling ==
  [][\A t \in Tasks : task[t] = "done" => task'[t] = "done" /\ starts'[t] = starts[t]]_vars

\* The status a closed mailbox is left with says that nothing of it is open: every connection made
\* for it, by whichever of its processes, is closed or lost.
ClosedMeansNothingOpen ==
  shut.pc = "done" => \A s \in Sockets : sock[s].state = "closed" \/ ~sock[s].alive

\* The same of a mailbox none of whose dropped IDLEs was opened again, which is where it fails:
\* shutdown waits for the pump, so a socket being opened for a task is closed as well.
ClosedUnlessReopened == reopens = 0 => ClosedMeansNothingOpen

\* What the event loop and the watchdog do by themselves.  Nothing obliges a server to answer.
Fairness ==
  /\ WF_vars(Pumping /\ ~Settled)
  /\ WF_vars(Resting /\ ~Settled)
  /\ WF_vars(Closing /\ ~Settled)
  /\ WF_vars(Stall)
LiveSpec == Spec /\ Fairness

\* Every task is answered, even by a server that says nothing, in a mailbox none of whose dropped
\* IDLEs was opened again.
EveryTaskSettles == \A t \in Tasks : task[t] = "queued" ~> (task[t] = "done" \/ reopens > 0)
=============================================================================
