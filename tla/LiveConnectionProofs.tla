------------------------ MODULE LiveConnectionProofs ------------------------
(***************************************************************************)
(* The invariants of LiveConnection, for any tasks, sockets, calls of      *)
(* idleUntilNeeded, lost connections and reopened IDLEs.                   *)
(***************************************************************************)
EXTENDS LiveConnection, SequenceTheorems, TLAPS

-----------------------------------------------------------------------------
(* Type correctness: first what the helpers of the actions do. *)

\* An EXCEPT at any name keeps the sockets, if what it puts at a socket is one's state.
LEMMA SockSet ==
  ASSUME SockType, NEW s, NEW r, s \in Sockets => r \in SocketStates
  PROVE  [sock EXCEPT ![s] = r] \in [Sockets -> SocketStates]
  BY DEF SockType

\* The fields of a socket's state that the actions change.
LEMMA SocketFields ==
  ASSUME NEW r \in SocketStates
  PROVE /\ \A v \in {"closed", "opening", "open", "closing"} :
             [r EXCEPT !.state = v] \in SocketStates
        /\ [r EXCEPT !.alive = FALSE] \in SocketStates
        /\ \A v \in Folders \cup {"none"} : [r EXCEPT !.selected = v] \in SocketStates
        /\ \A f, v \in Folders \cup {"none"} :
             [r EXCEPT !.at = f, !.selected = v] \in SocketStates
        /\ \A v \in Idlers \cup {None} : [r EXCEPT !.idle = v] \in SocketStates
        /\ [r EXCEPT !.state = "closing", !.idle = None] \in SocketStates
  BY DEF SocketStates

\* Both of a closed socket and of one being opened.
LEMMA NewSocket ==
  Closed \in SocketStates /\ [Closed EXCEPT !.state = "opening", !.alive = TRUE] \in SocketStates
  BY DEF SocketStates, Closed, Folders

\* The same of the command queues.
LEMMA WireSet ==
  ASSUME WireType, NEW s, NEW q, s \in Sockets => q \in Seq(Commands)
  PROVE  [wire EXCEPT ![s] = q] \in [Sockets -> Seq(Commands)]
  BY DEF WireType

\* A command may be appended to a queue, or to what is left of one.
LEMMA WireSteps ==
  ASSUME NEW q \in Seq(Commands), NEW c \in Commands
  PROVE  /\ Append(q, c) \in Seq(Commands)
         /\ q # <<>> => Tail(q) \in Seq(Commands) /\ Append(Tail(q), c) \in Seq(Commands)
  OBVIOUS

\* Every command the module sends.
LEMMA CommandType ==
  /\ \A d \in {"select", "command"} : Command("task", d) \in Commands
  /\ \A i \in Idlers : Command(i, "select") \in Commands /\ Command(i, "idle") \in Commands
  /\ Command("logout", "logout") \in Commands
  BY DEF Command, Commands

\* The pump's moves.
LEMMA PumpSet ==
  ASSUME PumpType, NEW pc \in PumpPcs, NEW s \in Sockets \cup {None},
         NEW o \in Sockets \cup Idlers \cup {None}
  PROVE /\ [pump EXCEPT !.pc = pc] \in Pumps
        /\ [pump EXCEPT !.on = o] \in Pumps
        /\ [pump EXCEPT !.pc = pc, !.sock = s] \in Pumps
        /\ [pump EXCEPT !.pc = pc, !.on = o] \in Pumps
  BY DEF PumpType, Pumps

\* A pump at rest, and one that starts.
LEMMA PumpStarts ==
  ASSUME NEW pc \in PumpPcs, NEW o \in Sockets \cup Idlers \cup {None}
  PROVE /\ PumpOff \in Pumps
        /\ [PumpOff EXCEPT !.pc = pc] \in Pumps
        /\ [PumpOff EXCEPT !.pc = pc, !.on = o] \in Pumps
<1>1. PumpOff \in Pumps
  BY DEF PumpOff, Pumps, PumpPcs
<1>2. ASSUME NEW p \in Pumps PROVE [p EXCEPT !.pc = pc, !.on = o] \in Pumps
  BY DEF Pumps
<1>3. ASSUME NEW p \in Pumps PROVE [p EXCEPT !.pc = pc] \in Pumps
  BY DEF Pumps
<1> QED
  BY <1>1, <1>2, <1>3

\* What a process waits for may come to pass.
LEMMA ReleasedType ==
  /\ \A p \in Pumps : \A x : Released(p, x) \in Pumps
  /\ \A p \in Waiters : \A x : Released(p, x) \in Waiters
  BY DEF Released, Pumps, Waiters

\* The moves of the other processes.
LEMMA WaiterSet ==
  ASSUME NEW p \in Waiters, NEW pc \in WaiterPcs, NEW s \in Sockets \cup {None},
         NEW o \in Sockets \cup Idlers \cup {None, "pump"}
  PROVE /\ [p EXCEPT !.pc = pc, !.sock = s] \in Waiters
        /\ [p EXCEPT !.pc = pc, !.on = o] \in Waiters
  BY DEF Waiters

\* A process that is not running, and one that starts.
LEMMA WaiterStarts ==
  /\ Off \in Waiters
  /\ \A pc \in WaiterPcs : [Off EXCEPT !.pc = pc] \in Waiters
  /\ \A pc \in WaiterPcs, o \in Sockets \cup Idlers \cup {None, "pump"} :
       [Off EXCEPT !.pc = pc, !.on = o] \in Waiters
  /\ \A pc \in WaiterPcs, s \in Sockets \cup {None}, o \in Sockets \cup {None} :
       [pc |-> pc, sock |-> s, on |-> o] \in Waiters
  BY DEF Off, Waiters, WaiterPcs

\* An EXCEPT at any name keeps the calls of idleUntilNeeded.
LEMMA IdlerSet ==
  ASSUME RestType, NEW i, NEW p \in Waiters
  PROVE  [idler EXCEPT ![i] = p] \in [Idlers -> Waiters]
  BY DEF RestType

\* What closeSocket leaves behind.
LEMMA CloseSocketType ==
  ASSUME TypeOK, CloseSocket
  PROVE  /\ ConnType' /\ SockType' /\ WireType'
         /\ keepalive' \in BOOLEAN /\ asked' \subseteq Idlers
<1>1. CASE conn.socket = None
  BY <1>1 DEF TypeOK, CloseSocket, ConnType, SockType, WireType, RestType
<1>2. CASE conn.socket # None
  <2>1. conn.socket \in Sockets
    BY <1>2 DEF TypeOK, ConnType, Conns
  <2>2. sock[conn.socket] \in SocketStates /\ wire[conn.socket] \in Seq(Commands)
    BY <2>1 DEF TypeOK, SockType, WireType
  <2>3. ConnType'
    BY <1>2, <2>1 DEF TypeOK, CloseSocket, ConnType, Conns
  <2>4. SockType'
    <3>1. [sock[conn.socket] EXCEPT !.state = "closing", !.idle = None] \in SocketStates
      BY <2>2, SocketFields
    <3> QED
      BY <1>2, <3>1, SockSet DEF TypeOK, CloseSocket, SockType
  <2>5. WireType'
    <3>1. Append(wire[conn.socket], Command("logout", "logout")) \in Seq(Commands)
      BY <2>2, CommandType, WireSteps
    <3> QED
      BY <1>2, <3>1, WireSet DEF TypeOK, CloseSocket, WireType
  <2>6. keepalive' \in BOOLEAN /\ asked' \subseteq Idlers
    BY <1>2, <2>2 DEF TypeOK, CloseSocket, RestType, SocketStates
  <2> QED
    BY <2>3, <2>4, <2>5, <2>6
<1> QED
  BY <1>1, <1>2

\* What there is to wait for, and to end.
LEMMA WaitsFor ==
  ASSUME TypeOK
  PROVE  /\ TeardownAfter \in Sockets \cup {None} /\ conn.teardown \in Sockets \cup {None}
         /\ HeldIdle \in Idlers \cup {None}
  BY DEF TypeOK, ConnType, Conns, SockType, SocketStates, TeardownAfter, HeldIdle

\* What stopIdle takes.
LEMMA TakeIdleType ==
  ASSUME TypeOK, TakeIdle
  PROVE  SockType' /\ keepalive' \in BOOLEAN /\ asked' \subseteq Idlers
<1>1. SockType'
  <2>1. conn.socket \in Sockets => sock[conn.socket] \in SocketStates
    BY DEF TypeOK, SockType
  <2> QED
    BY <2>1, SocketFields, SockSet DEF TypeOK, TakeIdle, SockType
<1>2. keepalive' \in BOOLEAN /\ asked' \subseteq Idlers
  BY WaitsFor DEF TypeOK, TakeIdle, RestType
<1> QED
  BY <1>1, <1>2

\* A socket for a new connection.
LEMMA StartConnectType ==
  ASSUME TypeOK, Unused # {}, StartConnect(AnUnused)
  PROVE  AnUnused \in Sockets /\ SockType' /\ ConnType'
<1>1. AnUnused \in Sockets
  BY DEF Unused, AnUnused
<1>2. SockType'
  BY NewSocket, SockSet DEF TypeOK, StartConnect, SockType
<1>3. ConnType'
  BY <1>1 DEF TypeOK, StartConnect, ConnType, Conns
<1> QED
  BY <1>1, <1>2, <1>3

\* A task that begins on a socket.
LEMMA BeginType ==
  ASSUME TypeOK, NEW t \in Tasks \cup {None}, NEW s \in Sockets \cup {None},
         NEW open \in [Sockets -> SocketStates], Begin(t, s, open)
  PROVE  starts' \in [Tasks -> Nat] /\ PumpType' /\ SockType' /\ WireType'
<1>1. s \in Sockets => wire[s] \in Seq(Commands) /\ open[s] \in SocketStates
  BY DEF TypeOK, WireType
<1>2. starts' \in [Tasks -> Nat]
  <2>1. t \in Tasks => starts[t] + 1 \in Nat
    BY DEF TypeOK, TasksType
  <2> QED
    BY <2>1 DEF TypeOK, TasksType, Begin
<1>3. PumpType'
  BY PumpSet DEF TypeOK, Begin, PumpType, PumpPcs
<1>4. SockType'
  <2>1. s \in Sockets => [open[s] EXCEPT !.selected = "none"] \in SocketStates
    BY <1>1, SocketFields
  <2> QED
    BY <2>1 DEF Begin, SockType
<1>5. WireType'
  <2>1. \A d \in {"select", "command"} :
          s \in Sockets => Append(wire[s], Command("task", d)) \in Seq(Commands)
    BY <1>1, CommandType, WireSteps
  <2> QED
    BY <2>1, WireSet DEF TypeOK, Begin, WireType
<1> QED
  BY <1>2, <1>3, <1>4, <1>5

\* A socket's state once a SELECT on it was answered.
LEMMA SelectedType ==
  ASSUME TypeOK, NEW s \in Sockets, NEW f \in Folders \cup {"none"}
  PROVE  Selected(s, f) \in SocketStates
<1>1. sock[s] \in SocketStates
  BY DEF TypeOK, SockType
<1>2. sock[s].selected \in Folders \cup {"none"}
  BY <1>1 DEF SocketStates
<1> QED
  BY <1>1, <1>2, SocketFields DEF Selected

\* A call that takes up IDLE.
LEMMA IdleType ==
  ASSUME TypeOK, NEW i \in Idlers, NEW s \in Sockets \cup {None},
         NEW r, s \in Sockets => r \in SocketStates, Idle(i, s, r)
  PROVE  idler' \in [Idlers -> Waiters] /\ SockType' /\ keepalive' \in BOOLEAN
<1>1. idler' \in [Idlers -> Waiters]
  BY WaiterStarts, IdlerSet DEF TypeOK, RestType, Idle, WaiterPcs
<1>2. SockType'
  BY SocketFields, SockSet DEF TypeOK, SockType, Idle
<1> QED
  BY <1>1, <1>2 DEF Idle

\* A call of rest.
LEMMA RestStep ==
  ASSUME TypeOK, NEW i \in Idlers, Rest(i)
  PROVE  idler' \in [Idlers -> Waiters] /\ SockType' /\ WireType' /\ keepalive' \in BOOLEAN
<1> DEFINE s == conn.socket
<1>1. s \in Sockets \cup {None}
  BY DEF TypeOK, ConnType, Conns
<1>2. s \in Sockets => sock[s] \in SocketStates /\ wire[s] \in Seq(Commands)
  BY DEF TypeOK, SockType, WireType
<1>3. CASE s = None \/ ~CanRest \/ HeldIdle # None \/ keepalive
  BY <1>3, WaiterStarts, IdlerSet DEF Rest, TypeOK, RestType, SockType, WireType, WaiterPcs
<1>4. CASE ~(s = None \/ ~CanRest \/ HeldIdle # None \/ keepalive) /\ sock[s].selected = "inbox"
  <2>1. Idle(i, s, sock[s]) /\ wire' = [wire EXCEPT ![s] = Append(@, Command(i, "idle"))]
    BY <1>4 DEF Rest
  <2>2. idler' \in [Idlers -> Waiters] /\ SockType' /\ keepalive' \in BOOLEAN
    BY <1>1, <1>2, <2>1, IdleType
  <2>3. WireType'
    BY <1>2, <2>1, CommandType, WireSteps, WireSet DEF TypeOK, WireType
  <2> QED
    BY <2>2, <2>3
<1>5. CASE ~(s = None \/ ~CanRest \/ HeldIdle # None \/ keepalive) /\ sock[s].selected # "inbox"
  <2>1. idler' \in [Idlers -> Waiters]
    <3>1. [pc |-> "selecting", sock |-> s, on |-> None] \in Waiters
      BY <1>1 DEF Waiters, WaiterPcs
    <3> QED
      BY <1>5, <3>1, IdlerSet DEF Rest, TypeOK
  <2>2. SockType'
    <3>1. s \in Sockets => [sock[s] EXCEPT !.selected = "none"] \in SocketStates
      BY <1>2, SocketFields
    <3> QED
      BY <1>5, <3>1, SockSet DEF Rest, TypeOK, SockType
  <2>3. WireType'
    <3>1. s \in Sockets => Append(wire[s], Command(i, "select")) \in Seq(Commands)
      BY <1>2, CommandType, WireSteps
    <3> QED
      BY <1>5, <3>1, WireSet DEF Rest, TypeOK, WireType
  <2>4. keepalive' \in BOOLEAN
    BY <1>5 DEF Rest, TypeOK, RestType
  <2> QED
    BY <2>1, <2>2, <2>3, <2>4
<1> QED
  BY <1>3, <1>4, <1>5

\* The steps of the pump.
LEMMA PumpingType == ASSUME TypeOK, Pumping PROVE TypeOK'
<1>1. CASE IdleStopped
  <2>1. /\ TasksType' /\ RestType' /\ ConnType' /\ SockType' /\ WireType' /\ ShutType'
        /\ CountType'
    BY <1>1 DEF TypeOK, IdleStopped, TasksType, RestType, ConnType, SockType, WireType,
         ShutType, CountType
  <2>2. PumpType'
    BY <1>1, PumpSet, PumpStarts DEF TypeOK, IdleStopped, PumpType, PumpPcs
  <2> QED
    BY <2>1, <2>2 DEF TypeOK
<1>2. CASE Next1
  <2>1. "user" \in Queues /\ "background" \in Queues
    BY DEF Queues
  <2>2. /\ pump.tries \in 0..1 /\ pump.sock \in Sockets \cup {None}
        /\ pump.task \in Tasks \cup {None} /\ pump.on \in Sockets \cup Idlers \cup {None}
    BY DEF TypeOK, PumpType, Pumps
  <2>3. \A q \in Queues : queue[q] # <<>> => Head(queue[q]) \in Tasks /\ Tail(queue[q]) \in
       Seq(Tasks)
    BY DEF TypeOK, TasksType
  <2>4. RestType' /\ ConnType' /\ SockType' /\ WireType' /\ ShutType' /\ CountType'
    BY <1>2 DEF TypeOK, Next1, RestType, ConnType, SockType, WireType, ShutType, CountType
  <2>5. TasksType'
    BY <1>2, <2>1, <2>2, <2>3 DEF TypeOK, Next1, TasksType, Queues
  <2>6. PumpType'
    BY <1>2, <2>1, <2>2, <2>3, WaitsFor DEF TypeOK, Next1, PumpType, Pumps, PumpPcs, Queues
  <2> QED
    BY <2>4, <2>5, <2>6 DEF TypeOK
<1>3. CASE Attempt
  <2>1. /\ pump.task \in Tasks \cup {None} /\ conn.socket \in Sockets \cup {None}
        /\ sock \in [Sockets -> SocketStates]
    BY DEF TypeOK, PumpType, Pumps, ConnType, Conns, SockType
  <2>2. conn.socket # None => starts' \in [Tasks -> Nat] /\ PumpType' /\ SockType' /\ WireType'
    BY <1>3, <2>1, BeginType DEF Attempt
  <2>3. [pump EXCEPT !.pc = "settle", !.on = conn.teardown] \in Pumps
    BY PumpSet, WaitsFor DEF TypeOK, PumpPcs
  <2>4. RestType' /\ ConnType' /\ ShutType' /\ CountType'
    BY <1>3 DEF TypeOK, Attempt, RestType, ConnType, ShutType, CountType
  <2>5. TasksType'
    BY <1>3, <2>2 DEF TypeOK, Attempt, TasksType
  <2>6. PumpType'
    BY <1>3, <2>2, <2>3 DEF TypeOK, Attempt, PumpType, PumpPcs
  <2>7. SockType'
    BY <1>3, <2>2 DEF TypeOK, Attempt, SockType
  <2>8. WireType'
    BY <1>3, <2>2 DEF TypeOK, Attempt, WireType
  <2> QED
    BY <2>4, <2>5, <2>6, <2>7, <2>8 DEF TypeOK
<1>4. CASE PumpConnects
  <2>1. AnUnused \in Sockets /\ SockType' /\ ConnType'
    BY <1>4, StartConnectType DEF PumpConnects
  <2>2. TasksType' /\ RestType' /\ WireType' /\ ShutType' /\ CountType'
    BY <1>4 DEF TypeOK, PumpConnects, TasksType, RestType, WireType, ShutType, CountType
  <2>3. PumpType'
    BY <1>4, <2>1, PumpSet DEF TypeOK, PumpConnects, PumpType, PumpPcs
  <2>4. SockType'
    BY <1>4, <2>1 DEF TypeOK, PumpConnects, SockType
  <2>5. ConnType'
    BY <1>4, <2>1 DEF TypeOK, PumpConnects, ConnType
  <2> QED
    BY <2>2, <2>3, <2>4, <2>5 DEF TypeOK
<1>5. CASE PumpConnected
  <2>1. pump.sock \in Sockets \cup {None} /\ pump.task \in Tasks \cup {None}
    BY DEF TypeOK, PumpType, Pumps
  <2>2. [sock EXCEPT ![pump.sock] = [@ EXCEPT !.state = "open"]] \in [Sockets -> SocketStates]
    BY SocketFields, SockSet DEF TypeOK, SockType
  <2>3. starts' \in [Tasks -> Nat] /\ PumpType' /\ SockType' /\ WireType'
    BY <1>5, <2>1, <2>2, BeginType DEF PumpConnected
  <2>4. RestType' /\ ShutType' /\ CountType'
    BY <1>5 DEF TypeOK, PumpConnected, RestType, ShutType, CountType
  <2>5. TasksType'
    BY <1>5, <2>3 DEF TypeOK, PumpConnected, TasksType
  <2>6. PumpType'
    BY <1>5, <2>3 DEF TypeOK, PumpConnected, PumpType
  <2>7. ConnType'
    BY <1>5, <2>1 DEF TypeOK, PumpConnected, ConnType, Conns
  <2>8. SockType'
    BY <1>5, <2>3 DEF TypeOK, PumpConnected, SockType
  <2>9. WireType'
    BY <1>5, <2>3 DEF TypeOK, PumpConnected, WireType
  <2> QED
    BY <2>4, <2>5, <2>6, <2>7, <2>8, <2>9 DEF TypeOK
<1>6. CASE PumpConnectFails
  <2>1. TasksType' /\ RestType' /\ ConnType' /\ WireType' /\ ShutType' /\ CountType'
    BY <1>6 DEF TypeOK, PumpConnectFails, TasksType, RestType, ConnType, WireType, ShutType,
         CountType
  <2>2. PumpType'
    BY <1>6, PumpSet DEF TypeOK, PumpConnectFails, PumpType, PumpPcs
  <2>3. SockType'
    BY <1>6, NewSocket, SockSet DEF TypeOK, PumpConnectFails, SockType
  <2> QED
    BY <2>1, <2>2, <2>3 DEF TypeOK
<1>7. CASE TaskSelected
  <2>1. pump.sock \in Sockets \cup {None} /\ pump.task \in Tasks \cup {None}
    BY DEF TypeOK, PumpType, Pumps
  <2>2. pump.sock \in Sockets => Selected(pump.sock, FolderOf(pump.task)) \in SocketStates
       /\ Selected(pump.sock, "none") \in SocketStates
    BY SelectedType DEF FolderOf, Folders
  <2>3. pump.sock \in Sockets => Append(Tail(wire[pump.sock]), Command("task", "command")) \in
       Seq(Commands) /\ Tail(wire[pump.sock]) \in Seq(Commands)
    BY <1>7, CommandType, WireSteps DEF TypeOK, WireType, TaskSelected, Answers
  <2>4. TasksType' /\ RestType' /\ ConnType' /\ ShutType' /\ CountType'
    BY <1>7 DEF TypeOK, TaskSelected, TasksType, RestType, ConnType, ShutType, CountType
  <2>5. PumpType'
    BY <1>7, PumpSet DEF TypeOK, TaskSelected, PumpType, PumpPcs
  <2>6. SockType'
    BY <1>7, <2>1, <2>2, SockSet DEF TypeOK, TaskSelected, SockType
  <2>7. WireType'
    BY <1>7, <2>1, <2>3, WireSet DEF TypeOK, TaskSelected, WireType
  <2> QED
    BY <2>4, <2>5, <2>6, <2>7 DEF TypeOK
<1>8. CASE TaskAnswered
  <2>1. pump.sock \in Sockets => Tail(wire[pump.sock]) \in Seq(Commands)
    BY <1>8, WireSteps, CommandType DEF TypeOK, WireType, TaskAnswered, Answers
  <2>2. TasksType' /\ RestType' /\ ConnType' /\ SockType' /\ ShutType' /\ CountType'
    BY <1>8 DEF TypeOK, TaskAnswered, TasksType, RestType, ConnType, SockType, ShutType,
         CountType
  <2>3. PumpType'
    BY <1>8, PumpSet DEF TypeOK, TaskAnswered, PumpType, PumpPcs
  <2>4. WireType'
    BY <1>8, <2>1, WireSet DEF TypeOK, TaskAnswered, WireType
  <2> QED
    BY <2>2, <2>3, <2>4 DEF TypeOK
<1>9. CASE TaskLost
  <2>1. /\ ConnType' /\ SockType' /\ WireType' /\ keepalive' \in BOOLEAN
        /\ asked' \subseteq Idlers
    BY <1>9, CloseSocketType DEF TaskLost
  <2>2. TasksType' /\ ShutType' /\ CountType'
    BY <1>9 DEF TypeOK, TaskLost, TasksType, ShutType, CountType
  <2>3. PumpType'
    BY <1>9, WaitsFor DEF TypeOK, TaskLost, PumpType, Pumps, PumpPcs
  <2>4. RestType'
    BY <1>9, <2>1 DEF TypeOK, TaskLost, RestType
  <2>5. ConnType'
    BY <1>9, <2>1 DEF TypeOK, TaskLost, ConnType
  <2>6. SockType'
    BY <1>9, <2>1 DEF TypeOK, TaskLost, SockType
  <2>7. WireType'
    BY <1>9, <2>1 DEF TypeOK, TaskLost, WireType
  <2> QED
    BY <2>2, <2>3, <2>4, <2>5, <2>6, <2>7 DEF TypeOK
<1>10. CASE TryAgain
  <2>1. /\ TasksType' /\ RestType' /\ ConnType' /\ SockType' /\ WireType' /\ ShutType'
        /\ CountType'
    BY <1>10 DEF TypeOK, TryAgain, TasksType, RestType, ConnType, SockType, WireType, ShutType,
         CountType
  <2>2. PumpType'
    BY <1>10, PumpSet, WaitsFor DEF TypeOK, TryAgain, PumpType, PumpPcs
  <2> QED
    BY <2>1, <2>2 DEF TypeOK
<1>11. CASE Resolve
  <2>1. RestType' /\ ConnType' /\ SockType' /\ WireType' /\ ShutType' /\ CountType'
    BY <1>11 DEF TypeOK, Resolve, RestType, ConnType, SockType, WireType, ShutType, CountType
  <2>2. TasksType'
    BY <1>11 DEF TypeOK, Resolve, TasksType
  <2>3. PumpType'
    BY <1>11, PumpStarts DEF TypeOK, Resolve, PumpType, PumpPcs
  <2> QED
    BY <2>1, <2>2, <2>3 DEF TypeOK
<1>12. CASE PumpEnds
  <2>1. TasksType' /\ ConnType' /\ WireType' /\ CountType'
    BY <1>12 DEF TypeOK, PumpEnds, TasksType, ConnType, WireType, CountType
  <2>2. PumpType'
    BY <1>12, PumpStarts, WaitsFor DEF TypeOK, PumpEnds, PumpType, PumpPcs, StartPump
  <2>3. ShutType'
    BY <1>12, ReleasedType DEF TypeOK, PumpEnds, ShutType
  <2>4. SockType'
    BY <1>12, TakeIdleType DEF TypeOK, PumpEnds, SockType, StartPump
  <2>5. RestType'
    BY <1>12, TakeIdleType DEF TypeOK, PumpEnds, RestType, StartPump
  <2> QED
    BY <2>1, <2>2, <2>3, <2>4, <2>5 DEF TypeOK
<1> QED
  BY <1>1, <1>2, <1>3, <1>4, <1>5, <1>6, <1>7, <1>8, <1>9, <1>10, <1>11, <1>12 DEF Pumping

\* The steps of rest, of the calls of idleUntilNeeded and of the keepalive.
LEMMA RestingType == ASSUME TypeOK, Resting PROVE TypeOK'
<1>1. CASE RestTimer
  <2>1. ARester \in Idlers
    BY <1>1 DEF RestTimer, Resters, ARester
  <2>2. idler' \in [Idlers -> Waiters] /\ SockType' /\ WireType' /\ keepalive' \in BOOLEAN
    BY <1>1, <2>1, RestStep DEF RestTimer
  <2>3. TasksType' /\ PumpType' /\ ConnType' /\ ShutType' /\ CountType'
    BY <1>1 DEF TypeOK, RestTimer, TasksType, PumpType, ConnType, ShutType, CountType
  <2>4. RestType'
    BY <1>1, <2>2 DEF TypeOK, RestTimer, RestType
  <2>5. SockType'
    BY <1>1, <2>2 DEF TypeOK, RestTimer, SockType
  <2>6. WireType'
    BY <1>1, <2>2 DEF TypeOK, RestTimer, WireType
  <2> QED
    BY <2>3, <2>4, <2>5, <2>6 DEF TypeOK
<1>2. CASE KeepaliveFires
  <2>1. TasksType' /\ PumpType' /\ ConnType' /\ WireType' /\ ShutType' /\ CountType'
    BY <1>2 DEF TypeOK, KeepaliveFires, TasksType, PumpType, ConnType, WireType, ShutType,
         CountType
  <2>2. RestType'
    BY <1>2, TakeIdleType, WaiterStarts, WaitsFor DEF TypeOK, KeepaliveFires, RestType,
         WaiterPcs
  <2>3. SockType'
    BY <1>2, TakeIdleType DEF TypeOK, KeepaliveFires, SockType
  <2> QED
    BY <2>1, <2>2, <2>3 DEF TypeOK
<1>3. CASE Refreshed
  <2>1. ARester \in Idlers
    BY <1>3 DEF Refreshed, Resters, ARester
  <2>2. idler' \in [Idlers -> Waiters] /\ SockType' /\ WireType' /\ keepalive' \in BOOLEAN
    BY <1>3, <2>1, RestStep DEF Refreshed
  <2>3. TasksType' /\ PumpType' /\ ConnType' /\ ShutType' /\ CountType'
    BY <1>3 DEF TypeOK, Refreshed, TasksType, PumpType, ConnType, ShutType, CountType
  <2>4. RestType'
    BY <1>3, <2>2, WaiterStarts DEF TypeOK, Refreshed, RestType
  <2>5. SockType'
    BY <1>3, <2>2 DEF TypeOK, Refreshed, SockType
  <2>6. WireType'
    BY <1>3, <2>2 DEF TypeOK, Refreshed, WireType
  <2> QED
    BY <2>3, <2>4, <2>5, <2>6 DEF TypeOK
<1>4. ASSUME NEW i \in Idlers, IdlerSelected(i) PROVE TypeOK'
  <2>1. idler[i] \in Waiters /\ idler[i].sock \in Sockets \cup {None}
    BY DEF TypeOK, RestType, Waiters
  <2>2. idler[i].sock \in Sockets => Selected(idler[i].sock, "inbox") \in SocketStates
       /\ Selected(idler[i].sock, "none") \in SocketStates
    BY SelectedType DEF Folders
  <2>3. idler[i].sock \in Sockets => Append(Tail(wire[idler[i].sock]), Command(i, "idle")) \in
       Seq(Commands) /\ Tail(wire[idler[i].sock]) \in Seq(Commands)
    BY <1>4, CommandType, WireSteps DEF TypeOK, WireType, IdlerSelected, Answers
  <2>4. [idler EXCEPT ![i] = Off] \in [Idlers -> Waiters]
    BY WaiterStarts, IdlerSet DEF TypeOK
  <2>5. idler' \in [Idlers -> Waiters] /\ SockType' /\ keepalive' \in BOOLEAN
    BY <1>4, <2>1, <2>2, <2>4, IdleType, SockSet DEF IdlerSelected, TypeOK, SockType, RestType
  <2>6. TasksType' /\ PumpType' /\ ConnType' /\ ShutType' /\ CountType'
    BY <1>4 DEF TypeOK, IdlerSelected, TasksType, PumpType, ConnType, ShutType, CountType
  <2>7. RestType'
    BY <1>4, <2>5 DEF TypeOK, IdlerSelected, RestType
  <2>8. SockType'
    BY <1>4, <2>5 DEF TypeOK, IdlerSelected, SockType
  <2>9. WireType'
    BY <1>4, <2>1, <2>3, WireSet DEF TypeOK, IdlerSelected, WireType
  <2> QED
    BY <2>6, <2>7, <2>8, <2>9 DEF TypeOK
<1>5. ASSUME NEW i \in Idlers, IdlerLost(i) PROVE TypeOK'
  <2>1. [idler EXCEPT ![i] = Off] \in [Idlers -> Waiters]
    BY WaiterStarts, IdlerSet DEF TypeOK
  <2>2. /\ ConnType' /\ SockType' /\ WireType' /\ keepalive' \in BOOLEAN
        /\ asked' \subseteq Idlers
    BY <1>5, CloseSocketType DEF IdlerLost, TypeOK, ConnType, SockType, WireType, RestType
  <2>3. TasksType' /\ PumpType' /\ ShutType' /\ CountType'
    BY <1>5 DEF TypeOK, IdlerLost, TasksType, PumpType, ShutType, CountType
  <2>4. RestType'
    BY <1>5, <2>1, <2>2 DEF TypeOK, IdlerLost, RestType
  <2>5. ConnType'
    BY <1>5, <2>2 DEF TypeOK, IdlerLost, ConnType
  <2>6. SockType'
    BY <1>5, <2>2 DEF TypeOK, IdlerLost, SockType
  <2>7. WireType'
    BY <1>5, <2>2 DEF TypeOK, IdlerLost, WireType
  <2> QED
    BY <2>3, <2>4, <2>5, <2>6, <2>7 DEF TypeOK
<1>6. ASSUME NEW i \in Idlers, IdleEnds(i) PROVE TypeOK'
  <2> DEFINE s == idler[i].sock
  <2>1. idler[i] \in Waiters /\ idler[i].sock \in Sockets \cup {None}
    BY DEF TypeOK, RestType, Waiters
  <2>2. Off \in Waiters /\ [pc |-> "closing", sock |-> None, on |-> s] \in Waiters
    BY <2>1, WaiterStarts DEF WaiterPcs
  <2>3. s \in Sockets => [sock[s] EXCEPT !.state = "closing", !.idle = None] \in SocketStates
       /\ [sock[s] EXCEPT !.idle = None] \in SocketStates
    BY SocketFields DEF TypeOK, SockType
  <2>4. s \in Sockets => (IF sock[s].alive THEN Tail(wire[s]) ELSE wire[s]) \in Seq(Commands)
    BY <1>6, WireSteps, CommandType DEF TypeOK, WireType, IdleEnds, Answers
  <2>5. s \in Sockets => Append(IF sock[s].alive THEN Tail(wire[s]) ELSE wire[s],
       Command("logout", "logout")) \in Seq(Commands)
    BY <2>4, WireSteps, CommandType
  <2>6. TasksType' /\ ShutType' /\ CountType'
    BY <1>6 DEF TypeOK, IdleEnds, TasksType, ShutType, CountType
  <2>7. PumpType'
    BY <1>6, ReleasedType DEF TypeOK, IdleEnds, PumpType
  <2>8. RestType'
    BY <1>6, <2>1, <2>2, ReleasedType DEF TypeOK, IdleEnds, RestType
  <2>9. ConnType'
    BY <1>6, <2>1 DEF TypeOK, IdleEnds, ConnType, Conns
  <2>10. SockType'
    BY <1>6, <2>1, <2>3, SockSet DEF TypeOK, IdleEnds, SockType
  <2>11. WireType'
    BY <1>6, <2>1, <2>4, <2>5, WireSet DEF TypeOK, IdleEnds, WireType
  <2> QED
    BY <2>6, <2>7, <2>8, <2>9, <2>10, <2>11 DEF TypeOK
<1>7. ASSUME NEW i \in Idlers, Reopen(i) PROVE TypeOK'
  <2>1. Off \in Waiters /\ [idler[i] EXCEPT !.pc = "settle", !.on = conn.teardown] \in Waiters
    BY WaiterSet, WaiterStarts, WaitsFor DEF TypeOK, RestType, WaiterPcs
  <2>2. TasksType' /\ PumpType' /\ ConnType' /\ SockType' /\ WireType' /\ ShutType'
    BY <1>7 DEF TypeOK, Reopen, TasksType, PumpType, ConnType, SockType, WireType, ShutType
  <2>3. RestType'
    BY <1>7, <2>1, IdlerSet DEF TypeOK, Reopen, RestType
  <2>4. CountType'
    BY <1>7, BoundsAssumption DEF TypeOK, Reopen, CountType
  <2> QED
    BY <2>2, <2>3, <2>4 DEF TypeOK
<1>8. ASSUME NEW i \in Idlers, IdlerConnects(i) PROVE TypeOK'
  <2>1. AnUnused \in Sockets /\ SockType' /\ ConnType'
    BY <1>8, StartConnectType DEF IdlerConnects
  <2>2. [idler[i] EXCEPT !.pc = "connect", !.sock = AnUnused] \in Waiters
    BY <2>1, WaiterSet DEF TypeOK, RestType, WaiterPcs
  <2>3. TasksType' /\ PumpType' /\ WireType' /\ ShutType' /\ CountType'
    BY <1>8 DEF TypeOK, IdlerConnects, TasksType, PumpType, WireType, ShutType, CountType
  <2>4. RestType'
    BY <1>8, <2>2, IdlerSet DEF TypeOK, IdlerConnects, RestType
  <2>5. SockType'
    BY <1>8, <2>1 DEF TypeOK, IdlerConnects, SockType
  <2>6. ConnType'
    BY <1>8, <2>1 DEF TypeOK, IdlerConnects, ConnType
  <2> QED
    BY <2>3, <2>4, <2>5, <2>6 DEF TypeOK
<1>9. ASSUME NEW i \in Idlers, IdlerConnected(i) PROVE TypeOK'
  <2>1. idler[i] \in Waiters /\ idler[i].sock \in Sockets \cup {None}
    BY DEF TypeOK, RestType, Waiters
  <2>2. [idler[i] EXCEPT !.pc = "rest", !.sock = None] \in Waiters
    BY <2>1, WaiterSet DEF WaiterPcs
  <2>3. TasksType' /\ PumpType' /\ WireType' /\ ShutType' /\ CountType'
    BY <1>9 DEF TypeOK, IdlerConnected, TasksType, PumpType, WireType, ShutType, CountType
  <2>4. RestType'
    BY <1>9, <2>2, IdlerSet DEF TypeOK, IdlerConnected, RestType
  <2>5. SockType'
    BY <1>9, SocketFields, SockSet DEF TypeOK, IdlerConnected, SockType
  <2>6. ConnType'
    BY <1>9, <2>1 DEF TypeOK, IdlerConnected, ConnType, Conns
  <2> QED
    BY <2>3, <2>4, <2>5, <2>6 DEF TypeOK
<1>10. ASSUME NEW i \in Idlers, IdlerConnectFails(i) PROVE TypeOK'
  <2>1. TasksType' /\ PumpType' /\ ConnType' /\ WireType' /\ ShutType' /\ CountType'
    BY <1>10 DEF TypeOK, IdlerConnectFails, TasksType, PumpType, ConnType, WireType, ShutType,
         CountType
  <2>2. RestType'
    BY <1>10, WaiterStarts, IdlerSet DEF TypeOK, IdlerConnectFails, RestType, WaiterPcs
  <2>3. SockType'
    BY <1>10, NewSocket, SockSet DEF TypeOK, IdlerConnectFails, SockType
  <2> QED
    BY <2>1, <2>2, <2>3 DEF TypeOK
<1>11. ASSUME NEW i \in Idlers, RestAgain(i) PROVE TypeOK'
  <2>1. idler' \in [Idlers -> Waiters] /\ SockType' /\ WireType' /\ keepalive' \in BOOLEAN
    BY <1>11, RestStep DEF RestAgain
  <2>2. TasksType' /\ PumpType' /\ ConnType' /\ ShutType' /\ CountType'
    BY <1>11 DEF TypeOK, RestAgain, TasksType, PumpType, ConnType, ShutType, CountType
  <2>3. RestType'
    BY <1>11, <2>1 DEF TypeOK, RestAgain, RestType
  <2>4. SockType'
    BY <1>11, <2>1 DEF TypeOK, RestAgain, SockType
  <2>5. WireType'
    BY <1>11, <2>1 DEF TypeOK, RestAgain, WireType
  <2> QED
    BY <2>2, <2>3, <2>4, <2>5 DEF TypeOK
<1> QED
  BY <1>1, <1>2, <1>3, <1>4, <1>5, <1>6, <1>7, <1>8, <1>9, <1>10, <1>11 DEF Resting

\* What the mailbox is asked, and what its callers take back.
LEMMA CallersType == ASSUME TypeOK, Callers PROVE TypeOK'
<1>1. ASSUME NEW t \in Tasks, Run(t) PROVE TypeOK'
  <2>1. ConnType' /\ WireType' /\ ShutType' /\ CountType'
    BY <1>1 DEF TypeOK, Run, ConnType, WireType, ShutType, CountType
  <2>2. TasksType'
    BY <1>1 DEF TypeOK, Run, TasksType, QueueOf, Queues
  <2>3. PumpType'
    BY <1>1, PumpStarts, WaitsFor DEF TypeOK, Run, PumpType, StartPump, PumpPcs
  <2>4. RestType'
    BY <1>1, TakeIdleType DEF TypeOK, Run, RestType, StartPump
  <2>5. SockType'
    BY <1>1, TakeIdleType DEF TypeOK, Run, SockType, StartPump
  <2> QED
    BY <2>1, <2>2, <2>3, <2>4, <2>5 DEF TypeOK
<1>2. ASSUME NEW t \in Tasks, Cancel(t) PROVE TypeOK'
  <2>1. \A q \in Queues : \A k \in 1..Len(queue[q]) : SubSeq(queue[q], 1, k - 1) \o
       SubSeq(queue[q], k + 1, Len(queue[q])) \in Seq(Tasks)
    BY DEF TypeOK, TasksType
  <2>2. /\ PumpType' /\ RestType' /\ ConnType' /\ SockType' /\ WireType' /\ ShutType'
        /\ CountType'
    BY <1>2 DEF TypeOK, Cancel, PumpType, RestType, ConnType, SockType, WireType, ShutType,
         CountType
  <2>3. TasksType'
    BY <1>2, <2>1 DEF TypeOK, Cancel, TasksType
  <2> QED
    BY <2>2, <2>3 DEF TypeOK
<1> QED
  BY <1>1, <1>2 DEF Callers

\* The steps of shutdown and of the sockets it and others detached.
LEMMA ClosingType == ASSUME TypeOK, Closing PROVE TypeOK'
<1>1. CASE BeginShutdown
  <2>1. PumpType' /\ RestType' /\ ConnType' /\ SockType' /\ WireType' /\ CountType'
    BY <1>1 DEF TypeOK, BeginShutdown, PumpType, RestType, ConnType, SockType, WireType,
         CountType
  <2>2. TasksType'
    BY <1>1 DEF TypeOK, BeginShutdown, TasksType, RejectQueued
  <2>3. ShutType'
    BY <1>1, WaiterStarts DEF TypeOK, BeginShutdown, ShutType, WaiterPcs
  <2> QED
    BY <2>1, <2>2, <2>3 DEF TypeOK
<1>2. CASE ShutdownCloses
  <2>1. TasksType' /\ PumpType' /\ CountType'
    BY <1>2 DEF TypeOK, ShutdownCloses, TasksType, PumpType, CountType
  <2>2. RestType'
    BY <1>2, CloseSocketType DEF TypeOK, ShutdownCloses, RestType
  <2>3. ConnType'
    BY <1>2, CloseSocketType DEF TypeOK, ShutdownCloses, ConnType
  <2>4. SockType'
    BY <1>2, CloseSocketType DEF TypeOK, ShutdownCloses, SockType
  <2>5. WireType'
    BY <1>2, CloseSocketType DEF TypeOK, ShutdownCloses, WireType
  <2>6. ShutType'
    BY <1>2, WaiterSet, WaitsFor DEF TypeOK, ShutdownCloses, ShutType, WaiterPcs
  <2> QED
    BY <2>1, <2>2, <2>3, <2>4, <2>5, <2>6 DEF TypeOK
<1>3. CASE ShutdownEnds
  <2>1. /\ TasksType' /\ PumpType' /\ RestType' /\ ConnType' /\ SockType' /\ WireType'
        /\ CountType'
    BY <1>3 DEF TypeOK, ShutdownEnds, TasksType, PumpType, RestType, ConnType, SockType,
         WireType, CountType
  <2>2. ShutType'
    BY <1>3, WaiterStarts DEF TypeOK, ShutdownEnds, ShutType, WaiterPcs
  <2> QED
    BY <2>1, <2>2 DEF TypeOK
<1>4. ASSUME NEW s \in Sockets, TeardownEnds(s) PROVE TypeOK'
  <2>1. TasksType' /\ CountType'
    BY <1>4 DEF TypeOK, TeardownEnds, TasksType, CountType
  <2>2. SockType'
    BY <1>4, NewSocket, SockSet DEF TypeOK, TeardownEnds, SockType
  <2>3. WireType'
    BY <1>4, WireSet DEF TypeOK, TeardownEnds, WireType
  <2>4. ConnType'
    BY <1>4 DEF TypeOK, TeardownEnds, ConnType, Conns
  <2>5. PumpType'
    BY <1>4, ReleasedType DEF TypeOK, TeardownEnds, PumpType
  <2>6. RestType'
    BY <1>4, ReleasedType DEF TypeOK, TeardownEnds, RestType
  <2>7. ShutType'
    BY <1>4, ReleasedType DEF TypeOK, TeardownEnds, ShutType
  <2> QED
    BY <2>1, <2>2, <2>3, <2>4, <2>5, <2>6, <2>7 DEF TypeOK
<1> QED
  BY <1>1, <1>2, <1>3, <1>4 DEF Closing

\* A lost connection, and the watchdog.
LEMMA FaultsType == ASSUME TypeOK, Faults PROVE TypeOK'
<1>1. CASE Stall
  <2>1. conn.abort \in Sockets => [sock[conn.abort] EXCEPT !.alive = FALSE] \in SocketStates
    BY SocketFields DEF TypeOK, SockType
  <2>2. PumpType' /\ RestType' /\ ConnType' /\ WireType' /\ ShutType' /\ CountType'
    BY <1>1 DEF TypeOK, Stall, PumpType, RestType, ConnType, WireType, ShutType, CountType
  <2>3. TasksType'
    BY <1>1 DEF TypeOK, Stall, TasksType, RejectQueued
  <2>4. SockType'
    BY <1>1, <2>1, SockSet DEF TypeOK, Stall, SockType
  <2> QED
    BY <2>2, <2>3, <2>4 DEF TypeOK
<1>2. ASSUME NEW s \in Sockets, Drop(s) PROVE TypeOK'
  <2>1. TasksType' /\ PumpType' /\ RestType' /\ ConnType' /\ WireType' /\ ShutType'
    BY <1>2 DEF TypeOK, Drop, TasksType, PumpType, RestType, ConnType, WireType, ShutType
  <2>2. SockType'
    BY <1>2, SocketFields, SockSet DEF TypeOK, Drop, SockType
  <2>3. CountType'
    BY <1>2, BoundsAssumption DEF TypeOK, Drop, CountType
  <2> QED
    BY <2>1, <2>2, <2>3 DEF TypeOK
<1> QED
  BY <1>1, <1>2 DEF Faults

\* Every value keeps its shape, in whatever order the steps of the connection's functions, the
\* callers, the server, the network and the watchdog are taken.
THEOREM TypeCorrect == Spec => []TypeOK
<1>1. Init => TypeOK
  <2> SUFFICES ASSUME Init PROVE TypeOK
    OBVIOUS
  <2>1. TasksType /\ ConnType /\ CountType
    BY BoundsAssumption DEF Init, TasksType, ConnType, Conns, CountType, Queues
  <2>2. PumpType
    BY PumpStarts DEF Init, PumpType, PumpPcs
  <2>3. RestType /\ ShutType
    BY WaiterStarts DEF Init, RestType, ShutType
  <2>4. SockType /\ WireType
    BY NewSocket DEF Init, SockType, WireType
  <2> QED
    BY <2>1, <2>2, <2>3, <2>4 DEF TypeOK
<1>2. TypeOK /\ [Next]_vars => TypeOK'
  <2> SUFFICES ASSUME TypeOK, [Next]_vars PROVE TypeOK'
    OBVIOUS
  <2>1. CASE Next
    BY <2>1, PumpingType, RestingType, CallersType, ClosingType, FaultsType DEF Next
  <2>2. CASE UNCHANGED vars
    BY <2>2 DEF vars, TypeOK, TasksType, PumpType, RestType, ConnType, SockType, WireType,
       ShutType, CountType
  <2> QED
    BY <2>1, <2>2
<1> QED
  BY <1>1, <1>2, PTL DEF Spec

-----------------------------------------------------------------------------
(* What becomes of a task: the invariant says which tasks the queues hold, which one the pump     *)
(* holds, and how often each was started so far.                                                  *)

\* Where the pump has a task.
Working == {"drop", "settle", "connect", "select", "command", "lost", "giveUp", "end"}

\* The pump's task is the running one; tries counts the connections it lost before, and a second
\* attempt is only made for a task that may run twice.
PumpOK ==
  pump.pc \in Working =>
    /\ pump.task \in Tasks /\ task[pump.task] = "running"
    /\ pump.pc \in {"drop", "settle", "connect"} => starts[pump.task] = pump.tries
    /\ pump.pc \in {"select", "command"} => starts[pump.task] = pump.tries + 1
    /\ pump.pc = "lost" => starts[pump.task] = 1 /\ pump.tries = 1
    /\ (pump.pc # "giveUp" /\ pump.tries = 1) => pump.task \in Retryable

\* The queues hold tasks that wait, each in its own queue and once.
QueuesOK ==
  \A q \in Queues : \A k \in 1..Len(queue[q]) :
    /\ task[queue[q][k]] = "queued" /\ QueueOf(queue[q][k]) = q
    /\ \A j \in 1..Len(queue[q]) : queue[q][j] = queue[q][k] => j = k

StartsOK ==
  StartsAsAllowed /\ \A t \in Tasks : task[t] \in {"new", "queued"} => starts[t] = 0

WorkOK == PumpOK /\ QueuesOK /\ StartsOK
IInv == TypeOK /\ WorkOK

\* What NothingAfterSettling says of a step.
Stay == \A t \in Tasks : task[t] = "done" => task'[t] = "done" /\ starts'[t] = starts[t]

\* A step that leaves the tasks, their queues and the pump's task alone.
LEMMA OtherStep ==
  ASSUME IInv, UNCHANGED <<task, starts, queue>>, pump'.pc = pump.pc, pump'.task = pump.task,
         pump'.tries = pump.tries
  PROVE  WorkOK' /\ Stay
  BY DEF IInv, WorkOK, PumpOK, QueuesOK, StartsOK, StartsAsAllowed, Stay

\* A step of the pump between two awaits of its task.
LEMMA PumpStep ==
  ASSUME IInv, UNCHANGED <<task, starts, queue>>, PumpOK'
  PROVE  WorkOK' /\ Stay
  BY DEF IInv, WorkOK, QueuesOK, StartsOK, StartsAsAllowed, Stay

\* What waited in a queue is rejected.
LEMMA RejectStep ==
  ASSUME IInv, RejectQueued, UNCHANGED <<starts, pump>>
  PROVE  WorkOK' /\ Stay
<1>1. PumpOK'
  BY DEF IInv, TypeOK, TasksType, WorkOK, PumpOK, RejectQueued
<1>2. QueuesOK'
  BY DEF QueuesOK, RejectQueued
<1>3. StartsOK'
  BY DEF IInv, TypeOK, TasksType, WorkOK, StartsOK, StartsAsAllowed, RejectQueued
<1>4. Stay
  BY DEF Stay, RejectQueued
<1> QED
  BY <1>1, <1>2, <1>3, <1>4 DEF WorkOK

\* The pump's task begins on a socket.
LEMMA BeginStep ==
  ASSUME IInv, pump.pc \in {"drop", "connect"}, UNCHANGED <<task, queue>>,
         NEW s, NEW open, Begin(pump.task, s, open)
  PROVE  WorkOK' /\ Stay
<1> DEFINE t == pump.task
<1>1. /\ t \in Tasks /\ task[t] = "running" /\ starts[t] = pump.tries
      /\ pump.tries = 1 => t \in Retryable
  BY DEF IInv, WorkOK, PumpOK, Working
<1>2. /\ pump \in Pumps /\ pump.tries \in 0..1
      /\ starts \in [Tasks -> Nat]
  BY DEF IInv, TypeOK, PumpType, Pumps, TasksType
<1>3. /\ starts' = [starts EXCEPT ![t] = @ + 1]
      /\ pump'.pc \in {"select", "command"} /\ pump'.task = t /\ pump'.tries = pump.tries
  BY <1>2 DEF Begin, Pumps
<1>4. PumpOK'
  BY <1>1, <1>2, <1>3 DEF PumpOK
<1>5. QueuesOK'
  BY DEF IInv, WorkOK, QueuesOK
<1>6. StartsOK'
  <2> SUFFICES ASSUME NEW u \in Tasks
               PROVE  /\ starts'[u] <= IF u \in Retryable THEN 2 ELSE 1
                      /\ task'[u] \in {"new", "queued"} => starts'[u] = 0
    BY DEF StartsOK, StartsAsAllowed
  <2>1. CASE u = t
    BY <1>1, <1>2, <1>3, <2>1
  <2>2. CASE u # t
    BY <1>3, <1>2, <2>2 DEF IInv, WorkOK, StartsOK, StartsAsAllowed
  <2> QED
    BY <2>1, <2>2
<1>7. Stay
  BY <1>1, <1>2, <1>3 DEF Stay
<1> QED
  BY <1>4, <1>5, <1>6, <1>7 DEF WorkOK

\* Where a task came to wait.
LEMMA RunStep ==
  ASSUME IInv, NEW t \in Tasks, Run(t)
  PROVE  WorkOK' /\ Stay
<1>1. /\ task[t] = "new" /\ task' = [task EXCEPT ![t] = "queued"] /\ starts' = starts
      /\ queue' = [queue EXCEPT ![QueueOf(t)] = Append(@, t)]
      /\ task \in [Tasks -> {"new", "queued", "running", "done"}]
      /\ queue \in [Queues -> Seq(Tasks)] /\ QueueOf(t) \in Queues
  BY DEF Run, IInv, TypeOK, TasksType, QueueOf, Queues
<1>2. PumpOK'
  <2>1. CASE pump.pc = "off"
    BY <2>1 DEF Run, StartPump, PumpOff, PumpOK, Working
  <2>2. CASE pump.pc # "off"
    BY <1>1, <2>2 DEF Run, IInv, WorkOK, PumpOK
  <2> QED
    BY <2>1, <2>2
<1>3. QueuesOK'
  <2> SUFFICES ASSUME NEW q \in Queues, NEW k \in 1..Len(queue'[q])
               PROVE  /\ task'[queue'[q][k]] = "queued" /\ QueueOf(queue'[q][k]) = q
                      /\ \A j \in 1..Len(queue'[q]) : queue'[q][j] = queue'[q][k] => j = k
    BY DEF QueuesOK
  <2>1. /\ queue[q] \in Seq(Tasks)
        /\ \A m \in 1..Len(queue[q]) : task[queue[q][m]] = "queued" /\ queue[q][m] # t
    BY <1>1 DEF IInv, WorkOK, QueuesOK
  <2>2. CASE q # QueueOf(t)
    <3>1. queue'[q] = queue[q]
      BY <1>1, <2>2
    <3> QED
      BY <1>1, <2>1, <3>1 DEF IInv, WorkOK, QueuesOK
  <2>3. CASE q = QueueOf(t)
    <3>1. queue'[q] = Append(queue[q], t)
      BY <1>1, <2>3
    <3>2. /\ Len(queue'[q]) = Len(queue[q]) + 1 /\ queue'[q][Len(queue[q]) + 1] = t
          /\ \A m \in 1..Len(queue[q]) : queue'[q][m] = queue[q][m]
      BY <2>1, <3>1
    <3>3. task'[queue'[q][k]] = "queued" /\ QueueOf(queue'[q][k]) = q
      BY <1>1, <2>1, <2>3, <3>2 DEF IInv, WorkOK, QueuesOK
    <3>4. ASSUME NEW j \in 1..Len(queue'[q]), queue'[q][j] = queue'[q][k] PROVE j = k
      BY <2>1, <3>2, <3>4 DEF IInv, WorkOK, QueuesOK
    <3> QED
      BY <3>3, <3>4
  <2> QED
    BY <2>2, <2>3
<1>4. StartsOK'
  BY <1>1 DEF IInv, WorkOK, StartsOK, StartsAsAllowed
<1>5. Stay
  BY <1>1 DEF Stay
<1> QED
  BY <1>2, <1>3, <1>4, <1>5 DEF WorkOK

\* What is left of a sequence once one of its elements was taken out.
LEMMA Splice ==
  ASSUME NEW S, NEW old \in Seq(S), NEW n \in 1..Len(old)
  PROVE  LET new == SubSeq(old, 1, n - 1) \o SubSeq(old, n + 1, Len(old)) IN
         /\ Len(new) = Len(old) - 1
         /\ \A k \in 1..Len(new) : new[k] = old[IF k >= n THEN k + 1 ELSE k]
<1> DEFINE a == SubSeq(old, 1, n - 1)
           b == SubSeq(old, n + 1, Len(old))
<1>1. /\ a \in Seq(S) /\ Len(a) = n - 1
      /\ \A i \in 1..(n - 1) : a[i] = old[i]
  BY SubSeqProperties
<1>2. /\ b \in Seq(S) /\ Len(b) = Len(old) - n
      /\ \A i \in 1..(Len(old) - n) : b[i] = old[n + i]
  BY SubSeqProperties
<1>3. /\ Len(a \o b) = Len(a) + Len(b)
      /\ \A i \in 1..(Len(a) + Len(b)) : (a \o b)[i] = IF i <= Len(a) THEN a[i] ELSE b[i - Len(a)]
  BY <1>1, <1>2, ConcatProperties
<1> HIDE DEF a, b
<1>4. Len(a \o b) = Len(old) - 1
  BY <1>1, <1>2, <1>3
<1>5. ASSUME NEW k \in 1..(Len(old) - 1)
      PROVE  (a \o b)[k] = old[IF k >= n THEN k + 1 ELSE k]
  BY <1>1, <1>2, <1>3
<1> QED
  BY <1>4, <1>5 DEF a, b

\* A task taken out of its queue, by its caller.
LEMMA CancelStep ==
  ASSUME IInv, NEW t \in Tasks, Cancel(t)
  PROVE  WorkOK' /\ Stay
<1>0. PICK q \in Queues : \E n \in 1..Len(queue[q]) :
        /\ queue[q][n] = t
        /\ queue' = [queue EXCEPT ![q] = SubSeq(@, 1, n - 1) \o SubSeq(@, n + 1, Len(@))]
  BY DEF Cancel
<1>1. PICK n \in 1..Len(queue[q]) :
        /\ queue[q][n] = t
        /\ queue' = [queue EXCEPT ![q] = SubSeq(@, 1, n - 1) \o SubSeq(@, n + 1, Len(@))]
  BY <1>0
<1>2. /\ task[t] = "queued" /\ task' = [task EXCEPT ![t] = "done"]
      /\ starts' = starts /\ pump' = pump
      /\ task \in [Tasks -> {"new", "queued", "running", "done"}]
      /\ queue \in [Queues -> Seq(Tasks)]
  BY DEF Cancel, IInv, TypeOK, TasksType
<1>3. PumpOK'
  BY <1>2 DEF IInv, WorkOK, PumpOK
<1>4. ASSUME NEW p \in Queues, NEW k \in 1..Len(queue'[p])
      PROVE  \E m \in 1..Len(queue[p]) :
               /\ queue'[p][k] = queue[p][m] /\ queue[p][m] # t
               /\ m = IF p = q /\ k >= n THEN k + 1 ELSE k
  <2>1. CASE p # q
    <3>1. queue'[p] = queue[p] /\ k \in 1..Len(queue[p])
      BY <1>1, <1>2, <2>1
    <3>2. queue[p][k] # t
      BY <1>1, <2>1, <3>1 DEF IInv, WorkOK, QueuesOK
    <3> QED
      BY <2>1, <3>1, <3>2
  <2>2. CASE p = q
    <3> DEFINE old == queue[q]
               m == IF k >= n THEN k + 1 ELSE k
    <3>1. queue'[p] = SubSeq(old, 1, n - 1) \o SubSeq(old, n + 1, Len(old)) /\ old \in Seq(Tasks)
      BY <1>1, <1>2, <2>2
    <3>2. /\ Len(queue'[p]) = Len(old) - 1
          /\ queue'[p][k] = old[m]
      BY <3>1, Splice
    <3>3. m \in 1..Len(old) /\ m # n
      <4>1. Len(old) \in Nat
        BY <3>1
      <4>2. k \in 1..(Len(old) - 1)
        BY <3>2
      <4> QED
        BY <4>1, <4>2
    <3>4. old[m] # t
      BY <1>1, <3>3 DEF IInv, WorkOK, QueuesOK
    <3> QED
      BY <2>2, <3>2, <3>3, <3>4
  <2> QED
    BY <2>1, <2>2
<1>5. QueuesOK'
  <2> SUFFICES ASSUME NEW p \in Queues, NEW k \in 1..Len(queue'[p])
               PROVE  /\ task'[queue'[p][k]] = "queued" /\ QueueOf(queue'[p][k]) = p
                      /\ \A j \in 1..Len(queue'[p]) : queue'[p][j] = queue'[p][k] => j = k
    BY DEF QueuesOK
  <2>1. PICK m \in 1..Len(queue[p]) : /\ queue'[p][k] = queue[p][m] /\ queue[p][m] # t
                                      /\ m = IF p = q /\ k >= n THEN k + 1 ELSE k
    BY <1>4
  <2>2. task[queue[p][m]] = "queued" /\ QueueOf(queue[p][m]) = p /\ queue[p][m] \in Tasks
    BY <1>2 DEF IInv, WorkOK, QueuesOK
  <2>3. ASSUME NEW j \in 1..Len(queue'[p]), queue'[p][j] = queue'[p][k] PROVE j = k
    <3>1. PICK i \in 1..Len(queue[p]) : /\ queue'[p][j] = queue[p][i] /\ queue[p][i] # t
                                        /\ i = IF p = q /\ j >= n THEN j + 1 ELSE j
      BY <1>4
    <3>2. i = m
      BY <2>1, <2>3, <3>1 DEF IInv, WorkOK, QueuesOK
    <3> QED
      BY <2>1, <3>1, <3>2
  <2> QED
    BY <1>2, <2>1, <2>2, <2>3
<1>6. StartsOK'
  BY <1>2 DEF IInv, WorkOK, StartsOK, StartsAsAllowed
<1>7. Stay
  BY <1>2 DEF Stay
<1> QED
  BY <1>3, <1>5, <1>6, <1>7 DEF WorkOK

\* The pump takes the task at the head of a queue, which no other place of the queues holds.
LEMMA Next1Step ==
  ASSUME IInv, Next1
  PROVE  WorkOK' /\ Stay
<1> DEFINE q == IF queue["user"] # <<>> THEN "user" ELSE "background"
<1>1. CASE queue[q] = <<>>
  <2>1. pump' = [pump EXCEPT !.pc = "ending"] /\ UNCHANGED <<task, starts, queue>>
    BY <1>1 DEF Next1
  <2>2. PumpOK'
    BY <2>1 DEF PumpOK, Working, IInv, TypeOK, PumpType, Pumps
  <2> QED
    BY <2>1, <2>2, PumpStep
<1>2. CASE queue[q] # <<>>
  <2> DEFINE t == Head(queue[q])
  <2>1. q \in Queues /\ queue \in [Queues -> Seq(Tasks)] /\ starts' = starts
        /\ task \in [Tasks -> {"new", "queued", "running", "done"}]
    BY DEF Queues, IInv, TypeOK, TasksType, Next1
  <2>2. t \in Tasks /\ t = queue[q][1] /\ 1 \in 1..Len(queue[q]) /\ task[t] = "queued"
    <3>1. queue[q] \in Seq(Tasks)
      BY <2>1
    <3>2. t \in Tasks /\ t = queue[q][1] /\ 1 \in 1..Len(queue[q])
      BY <1>2, <3>1
    <3> QED
      BY <2>1, <3>2 DEF IInv, WorkOK, QueuesOK
  <2>3. /\ pump' = [pc |-> "drop", task |-> t, sock |-> None, on |-> conn.teardown, tries |-> 0]
        /\ task' = [task EXCEPT ![t] = "running"]
        /\ queue' = [queue EXCEPT ![q] = Tail(@)]
    BY <1>2 DEF Next1
  <2>4. PumpOK'
    BY <2>1, <2>2, <2>3 DEF PumpOK, IInv, WorkOK, StartsOK
  <2>5. ASSUME NEW p \in Queues, NEW k \in 1..Len(queue'[p])
        PROVE  \E m \in 1..Len(queue[p]) : /\ queue'[p][k] = queue[p][m] /\ queue[p][m] # t
                                           /\ m = IF p = q THEN k + 1 ELSE k
    <3>1. CASE p # q
      <4>1. queue'[p] = queue[p]
        BY <2>1, <2>3, <3>1
      <4>2. queue[p][k] # t
        BY <2>1, <2>2, <3>1, <4>1 DEF IInv, WorkOK, QueuesOK
      <4> QED
        BY <3>1, <4>1, <4>2
    <3>2. CASE p = q
      <4>1. queue'[p] = Tail(queue[q]) /\ queue[q] \in Seq(Tasks)
        BY <2>1, <2>3, <3>2
      <4>2. k + 1 \in 1..Len(queue[q]) /\ queue'[p][k] = queue[q][k + 1]
        BY <1>2, <4>1
      <4>3. queue[q][k + 1] # t
        BY <2>1, <2>2, <4>2 DEF IInv, WorkOK, QueuesOK
      <4> QED
        BY <3>2, <4>2, <4>3
    <3> QED
      BY <3>1, <3>2
  <2>6. QueuesOK'
    <3> SUFFICES ASSUME NEW p \in Queues, NEW k \in 1..Len(queue'[p])
                 PROVE  /\ task'[queue'[p][k]] = "queued" /\ QueueOf(queue'[p][k]) = p
                        /\ \A j \in 1..Len(queue'[p]) : queue'[p][j] = queue'[p][k] => j = k
      BY DEF QueuesOK
    <3>1. PICK m \in 1..Len(queue[p]) : /\ queue'[p][k] = queue[p][m] /\ queue[p][m] # t
                                        /\ m = IF p = q THEN k + 1 ELSE k
      BY <2>5
    <3>2. task[queue[p][m]] = "queued" /\ QueueOf(queue[p][m]) = p /\ queue[p][m] \in Tasks
      BY <2>1 DEF IInv, WorkOK, QueuesOK
    <3>3. ASSUME NEW j \in 1..Len(queue'[p]), queue'[p][j] = queue'[p][k] PROVE j = k
      <4>1. PICK i \in 1..Len(queue[p]) : /\ queue'[p][j] = queue[p][i] /\ queue[p][i] # t
                                          /\ i = IF p = q THEN j + 1 ELSE j
        BY <2>5
      <4>2. i = m
        BY <3>1, <3>3, <4>1 DEF IInv, WorkOK, QueuesOK
      <4> QED
        BY <3>1, <4>1, <4>2
    <3> QED
      BY <2>1, <2>3, <3>1, <3>2, <3>3
  <2>7. StartsOK'
    BY <2>1, <2>2, <2>3 DEF IInv, WorkOK, StartsOK, StartsAsAllowed
  <2>8. Stay
    BY <2>1, <2>2, <2>3 DEF Stay
  <2> QED
    BY <2>4, <2>6, <2>7, <2>8 DEF WorkOK
<1> QED
  BY <1>1, <1>2

\* The pump's task is answered.
LEMMA ResolveStep ==
  ASSUME IInv, Resolve
  PROVE  WorkOK' /\ Stay
<1>1. /\ pump.task \in Tasks /\ task[pump.task] = "running"
      /\ task' = [task EXCEPT ![pump.task] = "done"] /\ UNCHANGED <<starts, queue>>
      /\ pump' = [PumpOff EXCEPT !.pc = "next"]
      /\ task \in [Tasks -> {"new", "queued", "running", "done"}]
      /\ queue \in [Queues -> Seq(Tasks)]
  BY DEF Resolve, IInv, TypeOK, TasksType, WorkOK, PumpOK, Working
<1>2. PumpOK'
  BY <1>1 DEF PumpOK, PumpOff, Working
<1>3. QueuesOK'
  BY <1>1 DEF IInv, WorkOK, QueuesOK
<1>4. StartsOK'
  BY <1>1 DEF IInv, WorkOK, StartsOK, StartsAsAllowed
<1>5. Stay
  BY <1>1 DEF Stay
<1> QED
  BY <1>2, <1>3, <1>4, <1>5 DEF WorkOK

\* The steps of the pump: the task begins where the pump has a socket for it, is told of a loss at
\* most once, and is let go only when it is answered.
LEMMA PumpingStep ==
  ASSUME IInv, Pumping
  PROVE  WorkOK' /\ Stay
<1> USE DEF Working
<1>0. /\ pump \in Pumps /\ pump.tries \in 0..1 /\ PumpOK
      /\ starts \in [Tasks -> Nat] /\ StartsAsAllowed
  BY DEF IInv, TypeOK, PumpType, Pumps, TasksType, WorkOK, StartsOK
<1>1. CASE IdleStopped
  <2>1. PumpOK'
    BY <1>0, <1>1 DEF IdleStopped, Pumps, PumpOK
  <2> QED
    BY <1>1, <2>1, PumpStep DEF IdleStopped
<1>2. CASE Next1
  BY <1>2, Next1Step
<1>3. CASE Attempt
  <2>1. CASE conn.socket # None
    BY <1>3, <2>1, BeginStep DEF Attempt
  <2>2. CASE conn.socket = None
    <3>1. UNCHANGED <<task, starts, queue>>
          /\ pump' = [pump EXCEPT !.pc = "settle", !.on = conn.teardown] /\ pump.pc = "drop"
      BY <1>3, <2>2 DEF Attempt
    <3>2. PumpOK'
      BY <1>0, <3>1 DEF Pumps, PumpOK
    <3> QED
      BY <3>1, <3>2, PumpStep
  <2> QED
    BY <2>1, <2>2
<1>4. CASE PumpConnects
  <2>1. PumpOK'
    BY <1>0, <1>4 DEF PumpConnects, Pumps, PumpOK
  <2> QED
    BY <1>4, <2>1, PumpStep DEF PumpConnects
<1>5. CASE PumpConnected
  BY <1>5, BeginStep DEF PumpConnected
<1>6. CASE PumpConnectFails
  <2>1. PumpOK'
    BY <1>0, <1>6 DEF PumpConnectFails, Pumps, PumpOK
  <2> QED
    BY <1>6, <2>1, PumpStep DEF PumpConnectFails
<1>7. CASE TaskSelected
  <2>1. PumpOK'
    BY <1>0, <1>7 DEF TaskSelected, Pumps, PumpOK
  <2> QED
    BY <1>7, <2>1, PumpStep DEF TaskSelected
<1>8. CASE TaskAnswered
  <2>1. PumpOK'
    BY <1>0, <1>8 DEF TaskAnswered, Pumps, PumpOK
  <2> QED
    BY <1>8, <2>1, PumpStep DEF TaskAnswered
<1>9. CASE TaskLost
  <2>1. PumpOK'
    BY <1>0, <1>9 DEF TaskLost, Pumps, PumpOK
  <2> QED
    BY <1>9, <2>1, PumpStep DEF TaskLost
<1>10. CASE TryAgain
  <2>1. PumpOK'
    BY <1>0, <1>10 DEF TryAgain, Pumps, PumpOK
  <2> QED
    BY <1>10, <2>1, PumpStep DEF TryAgain
<1>11. CASE Resolve
  BY <1>11, ResolveStep
<1>12. CASE PumpEnds
  <2>1. pump'.pc \in {"off", "stopIdle"}
    <3>1. CASE NoTask
      BY <1>12, <3>1 DEF PumpEnds, PumpOff
    <3>2. CASE ~NoTask
      BY <1>12, <3>2 DEF PumpEnds, StartPump, PumpOff
    <3> QED
      BY <3>1, <3>2
  <2>2. PumpOK'
    BY <2>1 DEF PumpOK
  <2> QED
    BY <1>12, <2>2, PumpStep DEF PumpEnds
<1> QED
  BY <1>1, <1>2, <1>3, <1>4, <1>5, <1>6, <1>7, <1>8, <1>9, <1>10, <1>11, <1>12 DEF Pumping

\* The steps of resting leave the tasks alone: they only let a pump that waits go on.
LEMMA RestingStep ==
  ASSUME IInv, Resting
  PROVE  WorkOK' /\ Stay
<1>1. UNCHANGED <<task, starts, queue>>
  BY DEF Resting, RestTimer, KeepaliveFires, Refreshed, IdlerSelected, IdlerLost, IdleEnds,
         Reopen, IdlerConnects, IdlerConnected, IdlerConnectFails, RestAgain
<1>2. pump' = pump \/ \E x : pump' = Released(pump, x)
  BY DEF Resting, RestTimer, KeepaliveFires, Refreshed, IdlerSelected, IdlerLost, IdleEnds,
         Reopen, IdlerConnects, IdlerConnected, IdlerConnectFails, RestAgain
<1>3. pump'.pc = pump.pc /\ pump'.task = pump.task /\ pump'.tries = pump.tries
  BY <1>2 DEF Released, IInv, TypeOK, PumpType, Pumps
<1> QED
  BY <1>1, <1>3, OtherStep

\* Closing rejects what waits, and what it closes lets a pump that waits go on.
LEMMA ClosingStep ==
  ASSUME IInv, Closing
  PROVE  WorkOK' /\ Stay
<1>1. CASE BeginShutdown
  BY <1>1, RejectStep DEF BeginShutdown
<1>2. CASE ShutdownCloses \/ ShutdownEnds
  BY <1>2, OtherStep DEF ShutdownCloses, ShutdownEnds
<1>3. ASSUME NEW s \in Sockets, TeardownEnds(s) PROVE WorkOK' /\ Stay
  <2>1. UNCHANGED <<task, starts, queue>> /\ pump' = Released(pump, s)
    BY <1>3 DEF TeardownEnds
  <2>2. pump'.pc = pump.pc /\ pump'.task = pump.task /\ pump'.tries = pump.tries
    BY <2>1 DEF Released, IInv, TypeOK, PumpType, Pumps
  <2> QED
    BY <2>1, <2>2, OtherStep
<1> QED
  BY <1>1, <1>2, <1>3 DEF Closing

\* Every step.
LEMMA WorkStep ==
  ASSUME IInv, [Next]_vars
  PROVE  WorkOK' /\ Stay
<1>1. CASE Callers
  BY <1>1, RunStep, CancelStep DEF Callers
<1>2. CASE Faults
  <2>1. CASE Stall
    BY <2>1, RejectStep DEF Stall
  <2>2. ASSUME NEW s \in Sockets, Drop(s) PROVE WorkOK' /\ Stay
    BY <2>2, OtherStep DEF Drop
  <2> QED
    BY <1>2, <2>1, <2>2 DEF Faults
<1>3. CASE UNCHANGED vars
  BY <1>3, OtherStep DEF vars
<1> QED
  BY <1>1, <1>2, <1>3, PumpingStep, RestingStep, ClosingStep DEF Next

\* The invariant holds in every reachable state.
THEOREM Invariance == Spec => []IInv
<1>1. Init => WorkOK
  BY DEF Init, WorkOK, PumpOK, PumpOff, Working, QueuesOK, StartsOK, StartsAsAllowed
<1>2. TypeOK /\ WorkOK /\ [Next]_vars => WorkOK'
  BY WorkStep DEF IInv
<1> QED
  BY <1>1, <1>2, TypeCorrect, PTL DEF Spec, IInv

\* A move or an APPEND is started at most once, and what may run twice at most twice, whenever
\* connections are lost, tasks are cancelled, the watchdog stalls or the mailbox is closed.
THEOREM NeverStartedTooOften == Spec => []StartsAsAllowed
<1>1. IInv => StartsAsAllowed
  BY DEF IInv, WorkOK, StartsOK
<1> QED
  BY <1>1, Invariance, PTL

\* Once answered, a task is neither answered again nor run again.
THEOREM SettlingIsFinal == Spec => NothingAfterSettling
<1>1. IInv /\ [Next]_vars =>
        [\A t \in Tasks : task[t] = "done" => task'[t] = "done" /\ starts'[t] = starts[t]]_vars
  BY WorkStep DEF Stay
<1> QED
  BY <1>1, Invariance, PTL DEF Spec, NothingAfterSettling

-----------------------------------------------------------------------------
(* What is open of a mailbox: while no dropped IDLE was opened again, the pump alone opens        *)
(* sockets, one after the other, so shutdown has at most one to close.                            *)

\* Shutdown waits for the pump, which finds no task any more.
ShutOK ==
  /\ shut.pc \in {"off", "pumping", "closing", "done"}
  /\ shut.pc # "off" => NoTask
  /\ shut.pc = "pumping" => (pump.pc = "off" \/ shut.on = "pump")
  /\ shut.pc \in {"closing", "done"} => pump.pc = "off"

\* A call that selects or idles does so on a socket.
IdlersOK == \A i \in Idlers : idler[i].pc \in {"selecting", "idling"} => idler[i].sock # None

\* A socket is the one the pump opens, the mailbox's, or the one it closes; and who waits for a
\* teardown waits for that one.
OneSocket ==
  /\ \A s \in Sockets :
       /\ sock[s].state = "opening" => pump.pc = "connect" /\ pump.sock = s
       /\ sock[s].state = "open" => conn.socket = s
       /\ sock[s].state = "closing" => conn.teardown = s
  /\ conn.socket # None => conn.teardown = None
  /\ pump.pc \in {"settle", "connect"} => conn.socket = None
  /\ pump.pc = "settle" => pump.on = conn.teardown
  /\ pump.pc = "connect" => conn.teardown = None
  /\ \A i \in Idlers : idler[i].pc \notin {"settle", "connect", "rest"}
  /\ shut.pc \in {"closing", "done"} => conn.socket = None
  /\ shut.pc = "closing" => shut.on = conn.teardown
  /\ shut.pc = "done" => conn.teardown = None

\* Who waits for something else goes on waiting, and stays where it is.
LEMMA ReleasedIs ==
  /\ \A p \in Pumps : \A x : Released(p, x).pc = p.pc /\ Released(p, x).sock = p.sock
                             /\ Released(p, x).on = IF p.on = x THEN None ELSE p.on
  /\ \A p \in Waiters : \A x : Released(p, x).pc = p.pc /\ Released(p, x).sock = p.sock
                               /\ Released(p, x).on = IF p.on = x THEN None ELSE p.on
  BY DEF Released, Pumps, Waiters

\* No step but the end of the pump, and the closing, changes what shutdown waits for.
LEMMA ShutStep ==
  ASSUME TypeOK, ShutOK, Next
  PROVE  ShutOK'
<1>0. pump \in Pumps /\ shut \in Waiters /\ queue \in [Queues -> Seq(Tasks)]
  BY DEF TypeOK, PumpType, ShutType, TasksType
<1>1. ASSUME UNCHANGED shut, NoTask => NoTask', pump.pc = "off" /\ NoTask => pump'.pc = "off"
      PROVE  ShutOK'
  BY <1>1 DEF ShutOK
<1>2. CASE Pumping
  <2>1. CASE PumpEnds
    <3>1. shut'.pc = shut.pc /\ UNCHANGED queue /\ pump.pc = "ending"
      BY <1>0, <2>1, ReleasedIs DEF PumpEnds
    <3>2. NoTask => pump'.pc = "off"
      BY <2>1 DEF PumpEnds, PumpOff
    <3> QED
      BY <3>1, <3>2 DEF ShutOK, NoTask
  <2>2. CASE Next1
    <3>1. NoTask => UNCHANGED queue
      BY <2>2 DEF Next1, NoTask, Queues
    <3> QED
      BY <1>1, <2>2, <3>1 DEF Next1, NoTask
  <2>3. CASE ~PumpEnds /\ ~Next1
    <3>1. UNCHANGED <<shut, queue>> /\ pump.pc # "off"
      BY <1>2, <2>3 DEF Pumping, IdleStopped, Attempt, PumpConnects, PumpConnected, PumpConnectFails,
                        TaskSelected, TaskAnswered, TaskLost, TryAgain, Resolve
    <3> QED
      BY <1>1, <3>1 DEF NoTask
  <2> QED
    BY <2>1, <2>2, <2>3
<1>3. CASE Resting
  <2>1. UNCHANGED <<shut, queue>>
    BY <1>3 DEF Resting, RestTimer, KeepaliveFires, Refreshed, IdlerSelected, IdlerLost, IdleEnds,
                Reopen, IdlerConnects, IdlerConnected, IdlerConnectFails, RestAgain
  <2>2. pump' = pump \/ \E x : pump' = Released(pump, x)
    BY <1>3 DEF Resting, RestTimer, KeepaliveFires, Refreshed, IdlerSelected, IdlerLost, IdleEnds,
                Reopen, IdlerConnects, IdlerConnected, IdlerConnectFails, RestAgain
  <2>3. pump'.pc = pump.pc
    BY <1>0, <2>2, ReleasedIs
  <2> QED
    BY <1>1, <2>1, <2>3 DEF NoTask
<1>4. ASSUME NEW t \in Tasks, Run(t) PROVE ShutOK'
  BY <1>4 DEF Run, ShutOK
<1>5. ASSUME NEW t \in Tasks, Cancel(t) PROVE ShutOK'
  <2>1. ~NoTask /\ UNCHANGED <<shut, pump>>
    BY <1>5 DEF Cancel, NoTask
  <2> QED
    BY <2>1 DEF ShutOK
<1>6. CASE BeginShutdown
  BY <1>6 DEF BeginShutdown, RejectQueued, NoTask, ShutOK, Off
<1>7. CASE ShutdownCloses
  <2>1. shut'.pc = "closing" /\ pump.pc = "off" /\ NoTask /\ UNCHANGED <<pump, queue>>
    BY <1>0, <1>7, NamesAssumption DEF ShutdownCloses, ShutOK, Waiters
  <2> QED
    BY <2>1 DEF ShutOK, NoTask
<1>8. CASE ShutdownEnds
  BY <1>8 DEF ShutdownEnds, ShutOK, NoTask, Off
<1>9. ASSUME NEW s \in Sockets, TeardownEnds(s) PROVE ShutOK'
  <2>1. /\ pump'.pc = pump.pc /\ shut'.pc = shut.pc /\ UNCHANGED queue
        /\ shut'.on = IF shut.on = s THEN None ELSE shut.on
    BY <1>0, <1>9, ReleasedIs DEF TeardownEnds
  <2> QED
    BY <2>1, NamesAssumption DEF ShutOK, NoTask
<1>10. CASE Stall
  BY <1>1, <1>10 DEF Stall, RejectQueued, NoTask
<1>11. ASSUME NEW s \in Sockets, Drop(s) PROVE ShutOK'
  BY <1>1, <1>11 DEF Drop, NoTask
<1> QED
  BY <1>2, <1>3, <1>4, <1>5, <1>6, <1>7, <1>8, <1>9, <1>10, <1>11 DEF Next, Callers, Closing, Faults

\* A call that comes to select or to idle is given the mailbox's socket.
LEMMA RestIdlers ==
  ASSUME TypeOK, NEW i \in Idlers, Rest(i)
  PROVE  /\ \A j \in Idlers \ {i} : idler'[j] = idler[j]
         /\ idler'[i].pc \in {"off", "selecting", "idling"}
         /\ idler'[i].pc # "off" => idler'[i].sock # None
         /\ \A s \in Sockets : sock'[s].state = sock[s].state
<1>0. idler \in [Idlers -> Waiters] /\ sock \in [Sockets -> SocketStates]
  BY DEF TypeOK, RestType, SockType
<1>1. CASE conn.socket = None \/ ~CanRest \/ HeldIdle # None \/ keepalive
  BY <1>0, <1>1 DEF Rest, Off
<1>2. CASE ~(conn.socket = None \/ ~CanRest \/ HeldIdle # None \/ keepalive)
  <2>1. CASE sock[conn.socket].selected = "inbox"
    <3>1. Idle(i, conn.socket, sock[conn.socket])
      BY <1>2, <2>1 DEF Rest
    <3>2. idler'[i] = [pc |-> "idling", sock |-> conn.socket, on |-> None]
      BY <1>0, <3>1 DEF Idle
    <3>3. \A j \in Idlers \ {i} : idler'[j] = idler[j]
      BY <1>0, <3>1 DEF Idle
    <3>4. \A s \in Sockets : sock'[s].state = sock[s].state
      BY <1>0, <3>1 DEF Idle, SocketStates
    <3> QED
      BY <1>2, <3>2, <3>3, <3>4
  <2>2. CASE sock[conn.socket].selected # "inbox"
    <3>1. /\ idler' = [idler EXCEPT ![i] = [pc |-> "selecting", sock |-> conn.socket, on |-> None]]
          /\ sock' = [sock EXCEPT ![conn.socket] = [@ EXCEPT !.selected = "none"]]
      BY <1>2, <2>2 DEF Rest
    <3>2. \A s \in Sockets : sock'[s].state = sock[s].state
      BY <1>0, <3>1 DEF SocketStates
    <3>3. idler'[i] = [pc |-> "selecting", sock |-> conn.socket, on |-> None]
      BY <1>0, <3>1
    <3>4. \A j \in Idlers \ {i} : idler'[j] = idler[j]
      BY <1>0, <3>1
    <3> QED
      BY <1>2, <3>2, <3>3, <3>4
  <2> QED
    BY <2>1, <2>2
<1> QED
  BY <1>1, <1>2

\* An answered SELECT, an IDLE taken or ended, and a lost connection leave each socket's state.
LEMMA StatesStand ==
  ASSUME TypeOK
  PROVE  /\ \A s \in Sockets : \A f : Selected(s, f).state = sock[s].state
         /\ TakeIdle => \A s \in Sockets : sock'[s].state = sock[s].state
         /\ Stall => \A s \in Sockets : sock'[s].state = sock[s].state
         /\ \A r \in Sockets : Drop(r) => \A s \in Sockets : sock'[s].state = sock[s].state
  BY DEF TypeOK, SockType, SocketStates, Selected, TakeIdle, Stall, Drop

\* The call of an idler that its SELECT was answered goes on on its socket, or is over.
LEMMA IdlerSelectedStep ==
  ASSUME TypeOK, NEW i \in Idlers, IdlerSelected(i)
  PROVE  /\ \A j \in Idlers \ {i} : idler'[j] = idler[j]
         /\ idler'[i].pc \in {"off", "idling"}
         /\ idler'[i].pc # "off" => idler'[i].sock = idler[i].sock
         /\ \A s \in Sockets : sock'[s].state = sock[s].state
<1>0. /\ idler \in [Idlers -> Waiters] /\ sock \in [Sockets -> SocketStates]
      /\ idler[i].sock \in Sockets \cup {None}
  BY DEF TypeOK, RestType, SockType, Waiters
<1> DEFINE s == idler[i].sock
<1>1. CASE Idle(i, s, Selected(s, "inbox"))
  <2>1. idler' = [idler EXCEPT ![i] = [pc |-> "idling", sock |-> s, on |-> None]]
        /\ sock' = [sock EXCEPT ![s] = [Selected(s, "inbox") EXCEPT !.idle = i]]
    BY <1>1 DEF Idle
  <2>2. ASSUME NEW r \in Sockets PROVE sock'[r].state = sock[r].state
    <3>1. CASE r = s
      <4>1. Selected(s, "inbox") \in SocketStates /\ Selected(s, "inbox").state = sock[s].state
        BY <3>1, SelectedType, StatesStand DEF Folders
      <4> QED
        BY <1>0, <2>1, <3>1, <4>1 DEF SocketStates
    <3>2. CASE r # s
      BY <1>0, <2>1, <3>2
    <3> QED
      BY <3>1, <3>2
  <2>3. idler'[i] = [pc |-> "idling", sock |-> s, on |-> None] /\ \A j \in Idlers \ {i} : idler'[j] = idler[j]
    BY <1>0, <2>1
  <2> QED
    BY <2>2, <2>3
<1>2. ASSUME NEW f, idler' = [idler EXCEPT ![i] = Off], sock' = [sock EXCEPT ![s] = Selected(s, f)]
      PROVE  /\ \A j \in Idlers \ {i} : idler'[j] = idler[j]
             /\ idler'[i].pc = "off"
             /\ \A r \in Sockets : sock'[r].state = sock[r].state
  BY <1>0, <1>2, StatesStand DEF Off
<1> QED
  BY <1>1, <1>2 DEF IdlerSelected

\* What a call that idles or selects has for its socket.
LEMMA IdlersStep ==
  ASSUME TypeOK, IdlersOK, Next
  PROVE  IdlersOK'
<1>0. idler \in [Idlers -> Waiters]
  BY DEF TypeOK, RestType
<1>1. ASSUME NEW i \in Idlers, \A j \in Idlers \ {i} : idler'[j] = idler[j],
             idler'[i].pc \in {"selecting", "idling"} => idler'[i].sock # None
      PROVE  IdlersOK'
  BY <1>1 DEF IdlersOK
<1>2. CASE UNCHANGED idler
  BY <1>2 DEF IdlersOK
<1>3. CASE RestTimer \/ Refreshed
  <2>1. ARester \in Idlers /\ Rest(ARester)
    BY <1>3 DEF RestTimer, Refreshed, ARester, Resters
  <2> QED
    BY <1>1, <2>1, RestIdlers
<1>4. ASSUME NEW i \in Idlers, RestAgain(i) PROVE IdlersOK'
  BY <1>1, <1>4, RestIdlers DEF RestAgain
<1>5. ASSUME NEW i \in Idlers, IdlerSelected(i) PROVE IdlersOK'
  BY <1>1, <1>5, IdlerSelectedStep DEF IdlerSelected, IdlersOK
<1>6. ASSUME NEW i \in Idlers,
             \/ IdlerLost(i) \/ IdleEnds(i) \/ Reopen(i) \/ IdlerConnects(i) \/ IdlerConnected(i)
             \/ IdlerConnectFails(i)
      PROVE  IdlersOK'
  <2>1. /\ \A j \in Idlers \ {i} : idler'[j] = idler[j]
        /\ idler'[i].pc \notin {"selecting", "idling"}
    <3>1. CASE IdlerLost(i) \/ IdleEnds(i) \/ IdlerConnectFails(i)
      BY <1>0, <3>1 DEF IdlerLost, IdleEnds, IdlerConnectFails, Off
    <3>2. ASSUME NEW w, idler' = [idler EXCEPT ![i] = w], w.pc \notin {"selecting", "idling"}
          PROVE  /\ \A j \in Idlers \ {i} : idler'[j] = idler[j]
                 /\ idler'[i].pc \notin {"selecting", "idling"}
      BY <1>0, <3>2
    <3>3. idler[i] \in Waiters
      BY <1>0
    <3>4. CASE Reopen(i)
      <4>1. [idler[i] EXCEPT !.pc = "settle", !.on = conn.teardown].pc = "settle"
        BY <3>3 DEF Waiters
      <4> QED
        BY <3>2, <3>4, <4>1 DEF Reopen, Off
    <3>5. CASE IdlerConnects(i)
      <4>1. [idler[i] EXCEPT !.pc = "connect", !.sock = AnUnused].pc = "connect"
        BY <3>3 DEF Waiters
      <4> QED
        BY <3>2, <3>5, <4>1 DEF IdlerConnects
    <3>6. CASE IdlerConnected(i)
      <4>1. [idler[i] EXCEPT !.pc = "rest", !.sock = None].pc = "rest"
        BY <3>3 DEF Waiters
      <4> QED
        BY <3>2, <3>6, <4>1 DEF IdlerConnected
    <3> QED
      BY <1>6, <3>1, <3>4, <3>5, <3>6
  <2> QED
    BY <1>1, <2>1
<1>7. ASSUME NEW s \in Sockets, TeardownEnds(s) PROVE IdlersOK'
  <2>1. \A i \in Idlers : idler'[i] = Released(idler[i], s)
    BY <1>7 DEF TeardownEnds
  <2> QED
    BY <1>0, <2>1, ReleasedIs DEF IdlersOK
<1>8. CASE Pumping
  <2>1. UNCHANGED idler
    BY <1>8 DEF Pumping, IdleStopped, Next1, Attempt, PumpConnects, PumpConnected, PumpConnectFails,
                TaskSelected, TaskAnswered, TaskLost, TryAgain, Resolve, PumpEnds
  <2> QED
    BY <1>2, <2>1
<1>9. CASE KeepaliveFires \/ BeginShutdown \/ ShutdownCloses \/ ShutdownEnds \/ Stall
  BY <1>2, <1>9 DEF KeepaliveFires, BeginShutdown, ShutdownCloses, ShutdownEnds, Stall
<1>10. ASSUME NEW t \in Tasks, Run(t) \/ Cancel(t) PROVE IdlersOK'
  BY <1>2, <1>10 DEF Run, Cancel
<1>11. ASSUME NEW s \in Sockets, Drop(s) PROVE IdlersOK'
  BY <1>2, <1>11 DEF Drop
<1> QED
  BY <1>3, <1>4, <1>5, <1>6, <1>7, <1>8, <1>9, <1>10, <1>11 DEF Next, Resting, Callers, Closing, Faults

\* A step that neither opens nor closes a socket, and leaves the pump where it is or away from
\* opening one.
LEMMA SocketsStand ==
  ASSUME TypeOK, OneSocket,
         conn'.socket = conn.socket, conn'.teardown = conn.teardown,
         \A s \in Sockets : sock'[s].state = sock[s].state,
         \A i \in Idlers : idler'[i].pc \notin {"settle", "connect", "rest"},
         shut' = shut,
         \/ pump' = pump
         \/ pump.pc # "connect" /\ pump'.pc \notin {"settle", "connect"}
  PROVE  OneSocket'
  BY DEF OneSocket

\* closeSocket takes the mailbox's socket and leaves none behind but the one it closes.
LEMMA SocketCloses ==
  ASSUME TypeOK, OneSocket, CloseSocket
  PROVE  /\ conn'.socket = None /\ conn'.teardown = TeardownAfter
         /\ \A s \in Sockets :
              /\ sock'[s].state = "opening" => pump.pc = "connect" /\ pump.sock = s
              /\ sock'[s].state = "closing" => conn'.teardown = s
              /\ sock'[s].state # "open"
         /\ conn.socket = None => conn'.teardown = conn.teardown
<1>0. conn \in Conns /\ sock \in [Sockets -> SocketStates] /\ None \notin Sockets
  BY NamesAssumption DEF TypeOK, ConnType, SockType
<1>1. CASE conn.socket = None
  <2>1. UNCHANGED <<conn, sock>> /\ TeardownAfter = conn.teardown
    BY <1>1 DEF CloseSocket, TeardownAfter
  <2> QED
    BY <1>0, <1>1, <2>1 DEF OneSocket
<1>2. CASE conn.socket # None
  <2>1. /\ conn' = [conn EXCEPT !.socket = None, !.teardown = conn.socket]
        /\ sock' = [sock EXCEPT ![conn.socket] = [@ EXCEPT !.state = "closing", !.idle = None]]
        /\ TeardownAfter = conn.socket
    BY <1>2 DEF CloseSocket, TeardownAfter
  <2>2. conn'.socket = None /\ conn'.teardown = conn.socket
    BY <1>0, <2>1 DEF Conns
  <2>3. ASSUME NEW s \in Sockets
        PROVE  IF s = conn.socket THEN sock'[s].state = "closing" ELSE sock'[s] = sock[s]
    BY <1>0, <2>1 DEF SocketStates
  <2> QED
    BY <1>0, <1>2, <2>1, <2>2, <2>3 DEF OneSocket
<1> QED
  BY <1>1, <1>2

\* Which leaves the mailbox as it should be, while no shutdown waits for an earlier teardown.
LEMMA ClosingStands ==
  ASSUME TypeOK, OneSocket, CloseSocket, UNCHANGED <<shut>>,
         shut.pc \in {"closing", "done"} => pump.pc = "off",
         \A i \in Idlers : idler'[i].pc \notin {"settle", "connect", "rest"},
         pump' = pump \/ (pump.pc # "connect" /\ pump'.pc \notin {"settle", "connect"})
  PROVE  OneSocket'
<1>1. CASE conn.socket = None
  BY <1>1, SocketsStand DEF CloseSocket
<1>2. CASE conn.socket # None
  <2>1. pump.pc \notin {"settle", "connect"} /\ shut.pc \notin {"closing", "done"}
    BY <1>2 DEF OneSocket
  <2>2. pump'.pc \notin {"settle", "connect"}
    BY <2>1
  <2> QED
    BY <2>1, <2>2, SocketCloses DEF OneSocket
<1> QED
  BY <1>1, <1>2

\* The pump opens a socket only once the one before is closed.
LEMMA PumpOpens ==
  ASSUME TypeOK, ShutOK, OneSocket, Pumping
  PROVE  OneSocket'
<1>0. /\ pump \in Pumps /\ sock \in [Sockets -> SocketStates] /\ conn \in Conns
      /\ \A i \in Idlers : idler[i].pc \notin {"settle", "connect", "rest"}
      /\ pump.pc # "off" => shut.pc \notin {"closing", "done"}
  BY DEF TypeOK, PumpType, SockType, ConnType, OneSocket, ShutOK
<1>2. CASE IdleStopped \/ TryAgain \/ Resolve
  <2>1. pump'.pc \notin {"settle", "connect"} /\ pump.pc # "connect"
    BY <1>0, <1>2 DEF IdleStopped, TryAgain, Resolve, Pumps, PumpOff
  <2> QED
    BY <1>0, <1>2, <2>1, SocketsStand DEF IdleStopped, TryAgain, Resolve
<1>3. CASE Next1
  <2>1. pump'.pc \notin {"settle", "connect"} /\ pump.pc = "next"
    BY <1>0, <1>3 DEF Next1, Pumps
  <2> QED
    BY <1>0, <1>3, <2>1, SocketsStand DEF Next1
<1>4. CASE Attempt
  <2>1. CASE conn.socket # None
    <3>1. Begin(pump.task, conn.socket, sock)
      BY <1>4, <2>1 DEF Attempt
    <3>2. pump'.pc \in {"command", "select"}
      BY <1>0, <3>1 DEF Begin, Pumps
    <3>3. \A s \in Sockets : sock'[s].state = sock[s].state
      BY <1>0, <3>1 DEF Begin, SocketStates
    <3> QED
      BY <1>0, <1>4, <3>2, <3>3, SocketsStand DEF Attempt
  <2>2. CASE conn.socket = None
    <3>1. pump'.pc = "settle" /\ pump'.on = conn.teardown /\ pump.pc = "drop"
      BY <1>0, <1>4, <2>2 DEF Attempt, Pumps
    <3> QED
      BY <1>4, <2>2, <3>1 DEF Attempt, OneSocket
  <2> QED
    BY <2>1, <2>2
<1>5. CASE PumpConnects
  <2>1. /\ pump.pc = "settle" /\ pump.on = None /\ conn.teardown = None /\ conn.socket = None
        /\ AnUnused \in Sockets
        /\ sock' = [sock EXCEPT ![AnUnused] = [Closed EXCEPT !.state = "opening", !.alive = TRUE]]
        /\ conn' = [conn EXCEPT !.abort = AnUnused]
        /\ pump' = [pump EXCEPT !.pc = "connect", !.sock = AnUnused]
    BY <1>5, StartConnectType DEF PumpConnects, StartConnect, OneSocket
  <2>2. pump'.pc = "connect" /\ pump'.sock = AnUnused /\ conn'.teardown = None /\ conn'.socket = None
    BY <1>0, <2>1 DEF Pumps, Conns
  <2>3. \A s \in Sockets \ {AnUnused} : sock'[s] = sock[s]
    BY <1>0, <2>1
  <2>4. sock'[AnUnused].state = "opening"
    BY <1>0, <2>1 DEF Closed
  <2> QED
    BY <1>0, <1>5, <2>1, <2>2, <2>3, <2>4 DEF OneSocket, PumpConnects
<1>6. CASE PumpConnected
  <2>1. Begin(pump.task, pump.sock, [sock EXCEPT ![pump.sock] = [@ EXCEPT !.state = "open"]])
        /\ conn' = [conn EXCEPT !.socket = pump.sock] /\ pump.pc = "connect"
    BY <1>6 DEF PumpConnected
  <2>2. conn'.socket = pump.sock /\ conn'.teardown = None /\ conn.socket = None
    BY <1>0, <2>1 DEF Conns, OneSocket
  <2>3. pump'.pc \in {"command", "select"}
    BY <1>0, <2>1 DEF Begin, Pumps
  <2>4. DEFINE open == [sock EXCEPT ![pump.sock] = [@ EXCEPT !.state = "open"]]
  <2>5. \A s \in Sockets : /\ open[s] \in SocketStates
                           /\ open[s].state = IF s = pump.sock THEN "open" ELSE sock[s].state
    BY <1>0 DEF SocketStates
  <2>6. open \in [Sockets -> SocketStates]
    BY <1>0, <2>5
  <2>7. \A s \in Sockets : sock'[s].state = open[s].state
    <3>1. sock' = open \/ sock' = [open EXCEPT ![pump.sock] = [@ EXCEPT !.selected = "none"]]
      BY <2>1 DEF Begin
    <3> HIDE DEF open
    <3> QED
      BY <2>6, <3>1 DEF SocketStates
  <2>8. \A s \in Sockets : sock'[s].state = IF s = pump.sock THEN "open" ELSE sock[s].state
    BY <2>5, <2>7
  <2>9. ASSUME NEW s \in Sockets
        PROVE  /\ sock'[s].state # "opening"
               /\ sock'[s].state = "open" => conn'.socket = s
               /\ sock'[s].state = "closing" => conn'.teardown = s
    <3>1. /\ sock[s].state = "opening" => pump.sock = s
          /\ sock[s].state # "open"
          /\ sock[s].state = "closing" => s = None
      BY <2>1, NamesAssumption DEF OneSocket
    <3> QED
      BY <2>2, <2>8, <3>1
  <2>10. shut.pc \notin {"closing", "done"} /\ UNCHANGED <<shut, idler>>
    BY <1>0, <1>6, <2>1 DEF PumpConnected
  <2> QED
    BY <1>0, <2>2, <2>3, <2>9, <2>10 DEF OneSocket
<1>7. CASE PumpConnectFails
  <2>1. /\ pump.pc = "connect" /\ sock' = [sock EXCEPT ![pump.sock] = Closed]
        /\ pump'.pc = "end" /\ UNCHANGED <<conn, idler, shut>>
    BY <1>0, <1>7 DEF PumpConnectFails, Pumps
  <2>2. \A s \in Sockets : IF s = pump.sock THEN sock'[s].state = "closed" ELSE sock'[s] = sock[s]
    BY <1>0, <2>1 DEF Closed
  <2> QED
    BY <2>1, <2>2 DEF OneSocket
<1>8. CASE TaskSelected
  <2>1. pump'.pc \in {"command", "end"} /\ pump.pc = "select"
    BY <1>0, <1>8 DEF TaskSelected, Pumps
  <2>2. \E f : sock' = [sock EXCEPT ![pump.sock] = Selected(pump.sock, f)]
    BY <1>8 DEF TaskSelected
  <2>3. \A s \in Sockets : sock'[s].state = sock[s].state
    BY <1>0, <2>2, StatesStand
  <2> QED
    BY <1>0, <1>8, <2>1, <2>3, SocketsStand DEF TaskSelected
<1>9. CASE TaskAnswered
  <2>1. pump'.pc = "end" /\ pump.pc = "command"
    BY <1>0, <1>9 DEF TaskAnswered, Pumps
  <2> QED
    BY <1>0, <1>9, <2>1, SocketsStand DEF TaskAnswered
<1>10. CASE TaskLost
  <2>1. pump'.pc \in {"lost", "giveUp"} /\ pump.pc \in {"select", "command"} /\ CloseSocket
        /\ UNCHANGED <<shut, idler>>
    BY <1>10 DEF TaskLost
  <2> QED
    BY <1>0, <2>1, ClosingStands
<1>11. CASE PumpEnds
  <2>1. pump.pc = "ending" /\ pump'.pc \in {"off", "stopIdle"}
    <3>1. CASE NoTask
      BY <1>11, <3>1 DEF PumpEnds, PumpOff
    <3>2. CASE ~NoTask
      BY <1>11, <3>2 DEF PumpEnds, PumpOff, StartPump
    <3> QED
      BY <3>1, <3>2
  <2>2. \A s \in Sockets : sock'[s].state = sock[s].state
    BY <1>11, StatesStand DEF PumpEnds, StartPump
  <2>3. shut'.pc = shut.pc /\ UNCHANGED <<conn, idler>>
    BY <1>11, ReleasedIs DEF PumpEnds, TypeOK, ShutType
  <2> QED
    BY <1>0, <2>1, <2>2, <2>3 DEF OneSocket
<1> QED
  BY <1>2, <1>3, <1>4, <1>5, <1>6, <1>7, <1>8, <1>9, <1>10, <1>11 DEF Pumping

\* Resting opens no socket until it opens a dropped IDLE again, and closes the mailbox's alone.
LEMMA RestingOpens ==
  ASSUME TypeOK, ShutOK, IdlersOK, OneSocket, Resting, reopens' = 0
  PROVE  OneSocket'
<1>0. /\ pump \in Pumps /\ sock \in [Sockets -> SocketStates] /\ conn \in Conns
      /\ idler \in [Idlers -> Waiters] /\ reopens \in Nat
      /\ \A i \in Idlers : idler[i].pc \notin {"settle", "connect", "rest"}
      /\ shut.pc \in {"closing", "done"} => pump.pc = "off"
  BY BoundsAssumption DEF TypeOK, PumpType, SockType, ConnType, RestType, CountType, OneSocket, ShutOK
<1>1. CASE RestTimer \/ Refreshed
  <2>1. ARester \in Idlers /\ Rest(ARester)
    BY <1>1 DEF RestTimer, Refreshed, ARester, Resters
  <2>2. \A j \in Idlers : idler'[j].pc \notin {"settle", "connect", "rest"}
    BY <1>0, <2>1, RestIdlers
  <2> QED
    BY <1>1, <2>1, <2>2, RestIdlers, SocketsStand DEF RestTimer, Refreshed
<1>2. CASE KeepaliveFires
  BY <1>0, <1>2, StatesStand, SocketsStand DEF KeepaliveFires
<1>3. ASSUME NEW i \in Idlers, IdlerSelected(i) PROVE OneSocket'
  <2>1. \A j \in Idlers : idler'[j].pc \notin {"settle", "connect", "rest"}
    BY <1>0, <1>3, IdlerSelectedStep
  <2> QED
    BY <1>3, <2>1, IdlerSelectedStep, SocketsStand DEF IdlerSelected
<1>4. ASSUME NEW i \in Idlers, IdlerLost(i) PROVE OneSocket'
  <2>1. \A j \in Idlers : idler'[j].pc \notin {"settle", "connect", "rest"}
    BY <1>0, <1>4 DEF IdlerLost, Off
  <2>2. CASE conn.socket = idler[i].sock
    BY <1>0, <1>4, <2>1, <2>2, ClosingStands DEF IdlerLost
  <2>3. CASE conn.socket # idler[i].sock
    BY <1>4, <2>1, <2>3, SocketsStand DEF IdlerLost
  <2> QED
    BY <2>2, <2>3
<1>5. ASSUME NEW i \in Idlers, IdleEnds(i) PROVE OneSocket'
  <2> DEFINE s == idler[i].sock
  <2>1. s \in Sockets /\ UNCHANGED shut
    BY <1>0, <1>5 DEF IdlersOK, IdleEnds, Waiters
  <2>2. pump'.pc = pump.pc /\ pump'.sock = pump.sock /\ (pump.pc = "settle" => pump'.on = pump.on)
    <3>1. conn.teardown # i
      BY <1>0, NamesAssumption DEF Conns
    <3> QED
      BY <1>0, <1>5, <3>1, ReleasedIs DEF IdleEnds, OneSocket
  <2>3. \A j \in Idlers : idler'[j].pc \notin {"settle", "connect", "rest"}
    BY <1>0, <1>5 DEF IdleEnds, Off
  <2>4. CASE sock[s].idle = i /\ conn.socket = s
    <3>1. /\ conn' = [conn EXCEPT !.socket = None, !.teardown = s]
          /\ sock' = [sock EXCEPT ![s] = [@ EXCEPT !.state = "closing", !.idle = None]]
      BY <1>5, <2>4 DEF IdleEnds
    <3>2. conn'.socket = None /\ conn'.teardown = s
      BY <1>0, <3>1 DEF Conns
    <3>3. \A r \in Sockets : IF r = s THEN sock'[r].state = "closing" ELSE sock'[r] = sock[r]
      BY <1>0, <3>1 DEF SocketStates
    <3>4. /\ pump.pc \notin {"settle", "connect"} /\ shut.pc \notin {"closing", "done"}
          /\ conn.socket # None
      BY <2>1, <2>4, NamesAssumption DEF OneSocket
    <3>5. \A r \in Sockets : /\ sock'[r].state \notin {"opening", "open"}
                             /\ sock'[r].state = "closing" => r = s
      BY <2>4, <3>3, <3>4, NamesAssumption DEF OneSocket
    <3> QED
      BY <2>1, <2>2, <2>3, <3>2, <3>4, <3>5 DEF OneSocket
  <2>5. CASE ~(sock[s].idle = i /\ conn.socket = s)
    <3>1. /\ UNCHANGED conn
          /\ \/ UNCHANGED sock
             \/ sock' = [sock EXCEPT ![s] = [@ EXCEPT !.idle = None]]
      BY <1>5, <2>5 DEF IdleEnds
    <3>2. \A r \in Sockets : sock'[r].state = sock[r].state
      BY <1>0, <3>1 DEF SocketStates
    <3> QED
      BY <2>1, <2>2, <2>3, <3>1, <3>2 DEF OneSocket
  <2> QED
    BY <2>4, <2>5
<1>6. ASSUME NEW i \in Idlers, Reopen(i) PROVE OneSocket'
  <2>1. idler' = [idler EXCEPT ![i] = Off]
    BY <1>0, <1>6 DEF Reopen
  <2>2. \A j \in Idlers : idler'[j].pc \notin {"settle", "connect", "rest"}
    BY <1>0, <2>1 DEF Off
  <2> QED
    BY <1>6, <2>2, SocketsStand DEF Reopen
<1>7. ASSUME NEW i \in Idlers PROVE ~IdlerConnects(i) /\ ~IdlerConnected(i) /\ ~IdlerConnectFails(i) /\ ~RestAgain(i)
  BY <1>0 DEF IdlerConnects, IdlerConnected, IdlerConnectFails, RestAgain
<1> QED
  BY <1>1, <1>2, <1>3, <1>4, <1>5, <1>6, <1>7 DEF Resting

\* Shutdown, once the pump is off, closes what there is and waits until it is closed.
LEMMA ClosingOpens ==
  ASSUME TypeOK, ShutOK, OneSocket, Closing
  PROVE  OneSocket'
<1>0. /\ pump \in Pumps /\ shut \in Waiters /\ sock \in [Sockets -> SocketStates] /\ conn \in Conns
      /\ idler \in [Idlers -> Waiters]
      /\ \A i \in Idlers : idler[i].pc \notin {"settle", "connect", "rest"}
  BY DEF TypeOK, PumpType, ShutType, SockType, ConnType, RestType, OneSocket
<1>1. CASE BeginShutdown
  BY <1>1 DEF BeginShutdown, OneSocket, Off
<1>2. CASE ShutdownCloses
  <2>1. /\ pump.pc = "off" /\ CloseSocket /\ UNCHANGED <<pump, idler>>
        /\ shut'.pc = "closing" /\ shut'.on = TeardownAfter
    BY <1>0, <1>2, NamesAssumption DEF ShutdownCloses, ShutOK, Waiters
  <2> QED
    BY <1>0, <2>1, SocketCloses DEF OneSocket
<1>3. CASE ShutdownEnds
  <2>1. shut'.pc = "done" /\ conn.teardown = None /\ conn.socket = None
    BY <1>3 DEF ShutdownEnds, OneSocket, Off
  <2> QED
    BY <1>3, <2>1 DEF ShutdownEnds, OneSocket
<1>4. ASSUME NEW s \in Sockets, TeardownEnds(s) PROVE OneSocket'
  <2>1. /\ sock[s].state = "closing" /\ sock' = [sock EXCEPT ![s] = Closed]
        /\ conn' = [conn EXCEPT !.teardown = IF @ = s THEN None ELSE @]
        /\ pump' = Released(pump, s) /\ shut' = Released(shut, s)
        /\ idler' = [i \in Idlers |-> Released(idler[i], s)]
    BY <1>4 DEF TeardownEnds
  <2>2. conn.teardown = s /\ conn.socket = None
    BY <2>1, NamesAssumption DEF OneSocket
  <2>3. conn'.teardown = None /\ conn'.socket = None
    BY <1>0, <2>1, <2>2 DEF Conns
  <2>4. /\ pump'.pc = pump.pc /\ pump'.sock = pump.sock /\ pump'.on = IF pump.on = s THEN None ELSE pump.on
        /\ shut'.pc = shut.pc /\ shut'.on = IF shut.on = s THEN None ELSE shut.on
    BY <1>0, <2>1, ReleasedIs
  <2>5. \A i \in Idlers : idler'[i].pc = idler[i].pc
    BY <1>0, <2>1, ReleasedIs
  <2>6. \A r \in Sockets : IF r = s THEN sock'[r].state = "closed" ELSE sock'[r] = sock[r]
    BY <1>0, <2>1 DEF Closed
  <2> QED
    BY <1>0, <2>2, <2>3, <2>4, <2>5, <2>6 DEF OneSocket
<1> QED
  BY <1>1, <1>2, <1>3, <1>4 DEF Closing

\* Every step.
LEMMA OneSocketStep ==
  ASSUME TypeOK, ShutOK, IdlersOK, OneSocket, [Next]_vars, reopens' = 0
  PROVE  OneSocket'
<1>0. pump \in Pumps /\ \A i \in Idlers : idler[i].pc \notin {"settle", "connect", "rest"}
  BY DEF TypeOK, PumpType, OneSocket
<1>1. ASSUME NEW t \in Tasks, Run(t) PROVE OneSocket'
  <2>1. CASE pump.pc = "off"
    <3>1. pump'.pc = "stopIdle" /\ TakeIdle
      BY <1>1, <2>1 DEF Run, StartPump, PumpOff
    <3> QED
      BY <1>0, <1>1, <2>1, <3>1, StatesStand, SocketsStand DEF Run
  <2>2. CASE pump.pc # "off"
    BY <1>0, <1>1, <2>2, SocketsStand DEF Run
  <2> QED
    BY <2>1, <2>2
<1>2. ASSUME NEW t \in Tasks, Cancel(t) PROVE OneSocket'
  BY <1>0, <1>2, SocketsStand DEF Cancel
<1>3. CASE Stall
  BY <1>0, <1>3, StatesStand, SocketsStand DEF Stall
<1>4. ASSUME NEW s \in Sockets, Drop(s) PROVE OneSocket'
  BY <1>0, <1>4, StatesStand, SocketsStand DEF Drop
<1>5. CASE UNCHANGED vars
  BY <1>0, <1>5, SocketsStand DEF vars
<1> QED
  BY <1>1, <1>2, <1>3, <1>4, <1>5, PumpOpens, RestingOpens, ClosingOpens DEF Next, Callers, Faults

\* An IDLE that was opened again is remembered.
LEMMA ReopensGrow ==
  ASSUME TypeOK, [Next]_vars, reopens' = 0
  PROVE  reopens = 0
<1>1. CASE \E i \in Idlers : Reopen(i)
  BY <1>1, BoundsAssumption DEF Reopen, TypeOK, CountType
<1>2. CASE Pumping
  BY <1>2 DEF Pumping, IdleStopped, Next1, Attempt, PumpConnects, PumpConnected, PumpConnectFails,
              TaskSelected, TaskAnswered, TaskLost, TryAgain, Resolve, PumpEnds
<1>3. ASSUME Resting, ~ \E i \in Idlers : Reopen(i) PROVE reopens = 0
  BY <1>3 DEF Resting, RestTimer, KeepaliveFires, Refreshed, IdlerSelected, IdlerLost, IdleEnds,
              IdlerConnects, IdlerConnected, IdlerConnectFails, RestAgain
<1>4. Callers \/ Closing \/ Faults \/ UNCHANGED vars => reopens = 0
  BY DEF Callers, Run, Cancel, Closing, BeginShutdown, ShutdownCloses, ShutdownEnds, TeardownEnds, Faults,
         Stall, Drop, vars
<1> QED
  BY <1>1, <1>2, <1>3, <1>4 DEF Next

ShutInv == ShutOK /\ IdlersOK /\ (reopens = 0 => OneSocket)

\* A mailbox none of whose dropped IDLEs was opened again is closed when its shutdown says so,
\* wherever that found its pump, its calls of idleUntilNeeded and an earlier teardown.
THEOREM ClosedForGood == Spec => []ClosedUnlessReopened
<1>1. Init => ShutInv
  BY DEF Init, ShutInv, ShutOK, IdlersOK, OneSocket, Off, PumpOff, Closed
<1>2. TypeOK /\ ShutInv /\ [Next]_vars => ShutInv'
  <2> SUFFICES ASSUME TypeOK, ShutInv, [Next]_vars PROVE ShutInv'
    OBVIOUS
  <2>1. ShutOK' /\ IdlersOK'
    <3>1. CASE Next
      BY <3>1, ShutStep, IdlersStep DEF ShutInv
    <3>2. CASE UNCHANGED vars
      BY <3>2 DEF ShutInv, ShutOK, IdlersOK, NoTask, vars
    <3> QED
      BY <3>1, <3>2
  <2>2. reopens' = 0 => OneSocket'
    BY OneSocketStep, ReopensGrow DEF ShutInv
  <2> QED
    BY <2>1, <2>2 DEF ShutInv
<1>3. TypeOK /\ ShutInv => ClosedUnlessReopened
  <2> SUFFICES ASSUME TypeOK, ShutOK, OneSocket, shut.pc = "done", NEW s \in Sockets
               PROVE  sock[s].state = "closed"
    BY DEF ShutInv, ClosedUnlessReopened, ClosedMeansNothingOpen
  <2>1. sock[s].state \in {"closed", "opening", "open", "closing"}
    BY DEF TypeOK, SockType, SocketStates
  <2>2. pump.pc = "off" /\ conn.socket = None /\ conn.teardown = None
    BY DEF ShutOK, OneSocket
  <2> QED
    BY <2>1, <2>2, NamesAssumption DEF OneSocket
<1> QED
  BY <1>1, <1>2, <1>3, TypeCorrect, PTL DEF Spec

=============================================================================
