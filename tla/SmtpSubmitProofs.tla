-------------------------- MODULE SmtpSubmitProofs --------------------------
(***************************************************************************)
(* The relay carries all it accepts, for every cast, window, batch and     *)
(* frame size that RelayPipe's assumptions allow.                          *)
(***************************************************************************)
EXTENDS SmtpSubmit, SequenceTheorems, TLAPS

-----------------------------------------------------------------------------
(* Type correctness of what the client does. *)

\* A command's frame is a frame, and so is the end of the message.
LEMMA FramesAre ==
  ASSUME NEW c \in Commands
  PROVE  /\ Line(c) \in Frames /\ <<Line(c)>> \in Seq(Frames) /\ Dot \in Lines
         /\ <<[line |-> Dot, size |-> 1]>> \in Seq(Frames)
<1>1. Line(c) \in Frames
  BY DEF Line, Frames
<1>2. Dot \in Lines
  BY DEF Dot, Lines
<1>3. [line |-> Dot, size |-> 1] \in Frames
  BY <1>2 DEF Frames
<1> QED
  BY <1>1, <1>2, <1>3

\* A message, stuffed or with its last line ended, is still lines.
LEMMA Stuffed ==
  ASSUME NEW s \in Seq(Lines)
  PROVE  Ended1(s) \in Seq(Lines) /\ DotStuff(s) \in Seq(Lines) /\ DOMAIN DotStuff(s) = DOMAIN s
<1>1. Len(s) \in Nat /\ DOMAIN s = 1..Len(s) /\ \A i \in 1..Len(s) : s[i] \in Lines
  OBVIOUS
<1>2. ASSUME NEW l \in Lines
      PROVE  [l EXCEPT !.lf = TRUE] \in Lines /\ [l EXCEPT !.dots = @ + 1] \in Lines
  <2>1. l.dots + 1 \in Nat
    BY DEF Lines
  <2>2. [l EXCEPT !.lf = TRUE] \in Lines
    BY DEF Lines
  <2>3. [l EXCEPT !.dots = @ + 1] \in Lines
    BY <2>1 DEF Lines
  <2> QED
    BY <2>2, <2>3
<1>3. Ended1(s) \in Seq(Lines) /\ DOMAIN Ended1(s) = DOMAIN s
  <2>1. CASE s = <<>>
    BY <2>1 DEF Ended1
  <2>2. CASE s # <<>>
    <3>0. Len(s) \in 1..Len(s)
      BY <2>2, EmptySeq
    <3>1. Len(s) \in 1..Len(s) /\ [s[Len(s)] EXCEPT !.lf = TRUE] \in Lines
      BY <1>1, <1>2, <3>0
    <3>2. Ended1(s) = [s EXCEPT ![Len(s)] = [s[Len(s)] EXCEPT !.lf = TRUE]]
      BY <2>2 DEF Ended1
    <3> QED
      BY <3>1, <3>2
  <2> QED
    BY <2>1, <2>2
<1>4. \A i \in 1..Len(s) : Ended1(s)[i] \in Lines
  BY <1>1, <1>3
<1>5. \A i \in 1..Len(s) :
        (IF s[i].dots > 0 THEN [Ended1(s)[i] EXCEPT !.dots = @ + 1] ELSE Ended1(s)[i]) \in Lines
  BY <1>2, <1>4
<1>6. DotStuff(s) \in [1..Len(s) -> Lines]
  BY <1>1, <1>5 DEF DotStuff
<1> QED
  BY <1>1, <1>3, <1>6

\* The frames of the message's lines are frames.
LEMMA Bodies ==
  ASSUME cast \in DOMAIN Casts
  PROVE  BodyFrames \in Seq(Frames)
<1>1. Play.data \in Seq(Lines)
  BY CastsAssumption DEF Play
<1>2. Len(Play.data) \in Nat /\ DOMAIN Play.data = 1..Len(Play.data)
  BY <1>1
<1>3. \A i \in 1..Len(Play.data) : DotStuff(Play.data)[i] \in Lines
  BY <1>1, <1>2, Stuffed
<1>4. \A i \in 1..Len(Play.data) : [line |-> DotStuff(Play.data)[i], size |-> MaxFrame] \in Frames
  BY <1>3 DEF Frames
<1>5. BodyFrames \in [1..Len(Play.data) -> Frames]
  BY <1>2, <1>4 DEF BodyFrames
<1> QED
  BY <1>2, <1>5

\* What the client's steps assign is a client.
LEMMA ClientFields ==
  ASSUME NEW c \in Clients, NEW p \in Pcs, NEW s \in {"write", "flush", "reply"},
         NEW l \in Seq(Frames), NEW n \in Nat
  PROVE  /\ [c EXCEPT !.left = l] \in Clients
         /\ [c EXCEPT !.sub = s] \in Clients
         /\ [c EXCEPT !.rcpt = @ + 1] \in Clients
         /\ [c EXCEPT !.code = n] \in Clients
         /\ [c EXCEPT !.pc = p, !.sub = s] \in Clients
         /\ [c EXCEPT !.pc = p, !.sub = s, !.left = l] \in Clients
         /\ [c EXCEPT !.pc = p, !.sub = s, !.left = l, !.code = n] \in Clients
         /\ [c EXCEPT !.pc = p, !.sub = s, !.code = n] \in Clients
<1>1. [c EXCEPT !.left = l] \in Clients
  BY DEF Clients
<1>2. [c EXCEPT !.sub = s] \in Clients
  BY DEF Clients
<1>8. [c EXCEPT !.rcpt = @ + 1] \in Clients
  <2>1. c.rcpt + 1 \in Nat
    BY DEF Clients
  <2> QED
    BY <2>1 DEF Clients
<1>3. [c EXCEPT !.code = n] \in Clients
  BY DEF Clients
<1>4. [c EXCEPT !.pc = p, !.sub = s] \in Clients
  BY DEF Clients
<1>5. [c EXCEPT !.pc = p, !.sub = s, !.left = l] \in Clients
  BY DEF Clients
<1>6. [c EXCEPT !.pc = p, !.sub = s, !.left = l, !.code = n] \in Clients
  BY DEF Clients
<1>7. [c EXCEPT !.pc = p, !.sub = s, !.code = n] \in Clients
  BY DEF Clients
<1> QED
  BY <1>1, <1>2, <1>3, <1>4, <1>5, <1>6, <1>7, <1>8

\* However it stops, it is a client.
LEMMA Stops ==
  ASSUME NEW c \in Clients
  PROVE  /\ Closing(c) \in Clients /\ Quitting(c) \in Clients /\ Abandoned(c) \in Clients
         /\ \A a \in {"sent", "refused", "unconfirmed"} : Says(c, a) \in Clients
         /\ Unconfirmed(c) \in Clients /\ Failed(c) \in Clients
<1>1. ASSUME NEW d \in Clients
      PROVE  Closing(d) \in Clients
  <2>1. <<>> \in Seq(Frames) /\ <<Line("bye")>> \in Seq(Frames) /\ "bye" \in Pcs
    BY FramesAre DEF Commands, Pcs
  <2> QED
    BY <2>1, ClientFields DEF Closing
<1>2. ASSUME NEW d \in Clients
      PROVE  Quitting(d) \in Clients
  <2>1. <<Line("quit")>> \in Seq(Frames) /\ "quit" \in Pcs
    BY FramesAre DEF Commands, Pcs
  <2> QED
    BY <1>1, <2>1, ClientFields DEF Quitting
<1>3. \A d \in Clients : Abandoned(d) \in Clients
  BY DEF Abandoned, Clients
<1>4. \A d \in Clients : \A a \in {"sent", "refused", "unconfirmed"} : Says(d, a) \in Clients
  BY DEF Says, Clients
<1>5. Unconfirmed(c) \in Clients
  BY <1>2, <1>3, <1>4 DEF Unconfirmed
<1>6. [c EXCEPT !.left = <<>>] \in Clients
  <2>1. <<>> \in Seq(Frames)
    OBVIOUS
  <2> QED
    BY <2>1 DEF Clients
<1>7. Failed(c) \in Clients
  BY <1>1, <1>2, <1>4, <1>5, <1>6 DEF Failed
<1> QED
  BY <1>1, <1>2, <1>3, <1>4, <1>5, <1>7

\* Whatever it goes on with, it is a client.
LEMMA GoesOn ==
  ASSUME cl \in Clients, cast \in DOMAIN Casts
  PROVE  /\ \A pc \in Commands : Command(pc) \in Clients
         /\ \A code \in Nat : Replied(code) \in Clients
<1>1. ASSUME NEW pc \in Commands
      PROVE  Command(pc) \in Clients
  <2>1. <<Line(pc)>> \in Seq(Frames) /\ pc \in Pcs
    BY FramesAre DEF Pcs
  <2> QED
    BY <2>1, ClientFields DEF Command
<1>2. AuthStep \in Clients /\ Envelope \in Clients
  BY <1>1, Stops DEF AuthStep, Envelope, Commands
<1>3. AfterRcpt \in Clients
  <2>1. Command("rcpt") \in Clients /\ Command("data") \in Clients
    BY <1>1 DEF Commands
  <2>2. [Command("rcpt") EXCEPT !.rcpt = @ + 1] \in Clients
    <3> DEFINE c == Command("rcpt")
    <3>1. c \in Clients
      BY <2>1
    <3> HIDE DEF c
    <3>2. [c EXCEPT !.rcpt = @ + 1] \in Clients
      <4>1. <<>> \in Seq(Frames) /\ "open" \in Pcs
        BY DEF Pcs
      <4> QED
        BY <3>1, <4>1, ClientFields
    <3> QED
      BY <3>2 DEF c
  <2> QED
    BY <2>1, <2>2 DEF AfterRcpt
<1>4. [cl EXCEPT !.pc = "body", !.sub = "write", !.left = BodyFrames] \in Clients
  BY Bodies, ClientFields DEF Pcs
<1>5. NextStep \in Clients
  BY <1>1, <1>2, <1>3, <1>4, Stops DEF NextStep, Commands
<1>6. \A code \in Nat : Answered(code) \in Clients
  BY Stops DEF Answered
<1>7. \A code \in Nat : Replied(code) \in Clients
  BY <1>5, <1>6, Stops DEF Replied
<1> QED
  BY <1>1, <1>7

-----------------------------------------------------------------------------
(* Type correctness of the pipe. *)

\* What the steps of the client's end assign is one.
LEMMA BrowserFields ==
  ASSUME NEW b \in Browsers
  PROVE  /\ Ended(b) \in Browsers
         /\ \A n \in Nat : [b EXCEPT !.sent = n] \in Browsers /\ [b EXCEPT !.acked = n] \in Browsers
         /\ \A c \in Seq(Seq(Syms)) : [b EXCEPT !.chunks = c] \in Browsers
<1>1. Ended(b) \in Browsers
  BY DEF Ended, Browsers
<1>2. \A n \in Nat : [b EXCEPT !.sent = n] \in Browsers /\ [b EXCEPT !.acked = n] \in Browsers
  BY DEF Browsers
<1>3. \A c \in Seq(Seq(Syms)) : [b EXCEPT !.chunks = c] \in Browsers
  BY DEF Browsers
<1> QED
  BY <1>1, <1>2, <1>3

\* What anyone's steps make of the socket is one.
LEMMA SocketFields ==
  ASSUME NEW t \in Sockets
  PROVE  /\ [t EXCEPT !.dead = TRUE] \in Sockets /\ [t EXCEPT !.fin = TRUE] \in Sockets
         /\ \A i \in Seq(Frames) : /\ [t EXCEPT !.in = i] \in Sockets
                                   /\ \A b \in BOOLEAN : [t EXCEPT !.in = i, !.over = b] \in Sockets
         /\ \A o \in Seq(Syms) : /\ [t EXCEPT !.out = o] \in Sockets
                                 /\ [t EXCEPT !.dead = TRUE, !.out = o] \in Sockets
                                 /\ [t EXCEPT !.out = o, !.over = TRUE] \in Sockets
         /\ \A i \in Seq(Frames), o \in Seq(Syms), b \in BOOLEAN :
              [t EXCEPT !.in = i, !.out = o, !.over = b] \in Sockets
<1>1. \A i \in Seq(Frames) : [t EXCEPT !.in = i] \in Sockets
  BY DEF Sockets
<1>2. [t EXCEPT !.dead = TRUE] \in Sockets /\ [t EXCEPT !.fin = TRUE] \in Sockets
  BY DEF Sockets
<1>3. \A o \in Seq(Syms) : [t EXCEPT !.dead = TRUE, !.out = o] \in Sockets
  BY DEF Sockets
<1>4. \A o \in Seq(Syms) : [t EXCEPT !.out = o, !.over = TRUE] \in Sockets
  BY DEF Sockets
<1>5. \A i \in Seq(Frames), b \in BOOLEAN : [t EXCEPT !.in = i, !.over = b] \in Sockets
  BY DEF Sockets
<1>6. \A i \in Seq(Frames), o \in Seq(Syms), b \in BOOLEAN :
        [t EXCEPT !.in = i, !.out = o, !.over = b] \in Sockets
  BY DEF Sockets
<1>7. \A o \in Seq(Syms) : [t EXCEPT !.out = o] \in Sockets
  BY DEF Sockets
<1> QED
  BY <1>1, <1>2, <1>3, <1>4, <1>5, <1>6, <1>7

\* What the relay's steps assign is a relay.
LEMMA RelayFields ==
  ASSUME NEW r \in Relays
  PROVE  /\ Abort(r) \in Relays /\ EndWriter(r) \in Relays
         /\ \A q \in Seq(Marked) : /\ [r EXCEPT !.queue = q] \in Relays
                                   /\ \A z \in Int : [r EXCEPT !.queue = q, !.queued = z] \in Relays
         /\ [r EXCEPT !.wsClosed = TRUE] \in Relays /\ [r EXCEPT !.tooLarge = TRUE] \in Relays
         /\ [r EXCEPT !.read = "done", !.wsClosed = TRUE] \in Relays
         /\ [r EXCEPT !.read = "draining"] \in Relays
         /\ \A n \in Nat : [r EXCEPT !.written = n] \in Relays /\ [r EXCEPT !.acked = n] \in Relays
<1>1. Abort(r) \in Relays
  BY DEF Abort, Relays
<1>2. EndWriter(r) \in Relays
  <2>1. Append(r.queue, Gone) \in Seq(Marked)
    BY DEF Relays, Marked
  <2>2. [r EXCEPT !.ended = TRUE, !.queue = Append(r.queue, Gone)] \in Relays
    BY <2>1 DEF Relays
  <2> QED
    BY <2>2 DEF EndWriter
<1>3. \A q \in Seq(Marked) : /\ [r EXCEPT !.queue = q] \in Relays
                              /\ \A z \in Int : [r EXCEPT !.queue = q, !.queued = z] \in Relays
  BY DEF Relays
<1>4. [r EXCEPT !.wsClosed = TRUE] \in Relays /\ [r EXCEPT !.tooLarge = TRUE] \in Relays
  BY DEF Relays
<1>5. [r EXCEPT !.read = "done", !.wsClosed = TRUE] \in Relays
  BY DEF Relays
<1>6. [r EXCEPT !.read = "draining"] \in Relays
  BY DEF Relays
<1>7. \A n \in Nat : [r EXCEPT !.written = n] \in Relays /\ [r EXCEPT !.acked = n] \in Relays
  BY DEF Relays
<1> QED
  BY <1>1, <1>2, <1>3, <1>4, <1>5, <1>6, <1>7

\* A frame has a size, and is none of the marks.
LEMMA FrameIs ==
  ASSUME NEW f \in Frames
  PROVE  f # Gone /\ f.size \in Nat /\ f.size > 0 /\ f.size <= MaxFrame
<1>2. f # Gone
  BY NamesAssumption
<1>3. f.size \in {1, MaxFrame}
  BY DEF Frames
<1> QED
  BY <1>2, <1>3, WindowFits

\* A part of what is on its way is of the same kind.
LEMMA Parts ==
  ASSUME NEW S, NEW s \in Seq(S), NEW n \in 1..Len(s)
  PROVE  SubSeq(s, 1, n) \in Seq(S) /\ SubSeq(s, n + 1, Len(s)) \in Seq(S)
<1>1. n \in Int /\ n + 1 \in Int /\ Len(s) \in Int /\ \A i \in 1..Len(s) : s[i] \in S
  BY ElementOfSeq, LenProperties
<1>2. \A i \in 1..n : s[i] \in S
  BY <1>1
<1>3. \A i \in (n + 1)..Len(s) : s[i] \in S
  BY <1>1
<1> QED
  BY <1>1, <1>2, <1>3, SubSeqProperties


\* The end of the transport keeps the types.
LEMMA EndTypes ==
  ASSUME PipeOK, EndTransport
  PROVE  PipeOK'
<1>1. CASE browser.ended
  BY <1>1 DEF EndTransport, transport, PipeOK
<1>2. CASE ~browser.ended
  <2>1. browser' \in Browsers
    BY <1>2, BrowserFields DEF EndTransport, PipeOK
  <2>2. tcp' \in Sockets
    BY <1>2, SocketFields DEF EndTransport, PipeOK
  <2>3. up' \in Seq(Marked)
    BY <1>2 DEF EndTransport, PipeOK, Marked
  <2> QED
    BY <1>2, <2>1, <2>2, <2>3 DEF EndTransport, PipeOK
<1> QED
  BY <1>1, <1>2

\* So does a frame that is sent.
LEMMA SendTypes ==
  ASSUME PipeOK, NEW f \in Frames, SendFrame(f)
  PROVE  PipeOK'
<1>1. browser.sent + f.size \in Nat
  BY FrameIs DEF PipeOK, Browsers
<1>2. browser' \in Browsers
  BY <1>1, BrowserFields DEF SendFrame, PipeOK
<1>3. Append(tcp.in, f) \in Seq(Frames)
  BY DEF PipeOK, Sockets
<1>4. tcp' \in Sockets
  BY <1>3, SocketFields DEF SendFrame, PipeOK
<1>5. up' \in Seq(Marked)
  BY DEF SendFrame, PipeOK, Marked
<1> QED
  BY <1>2, <1>4, <1>5 DEF SendFrame, PipeOK

\* So does what the client's end takes.
LEMMA TakeTypes ==
  ASSUME PipeOK, TakeDown \/ TakeSocket
  PROVE  PipeOK'
<1>1. CASE TakeDown
  <2> DEFINE d == Head(down)
  <2>1. d \in Downs /\ Tail(down) \in Seq(Downs)
    BY <1>1, HeadTailProperties DEF TakeDown, PipeOK
  <2>2. Append(up, Gone) \in Seq(Marked) /\ Ended(browser) \in Browsers
    BY BrowserFields DEF PipeOK, Marked
  <2>3. browser' \in Browsers
    <3>1. CASE d = Gone
      BY <1>1, <2>2, <3>1 DEF TakeDown
    <3>2. CASE d # Gone /\ d.kind = "ack"
      <4>1. d.n \in Nat
        BY <2>1, <3>2 DEF Downs
      <4>2. [browser EXCEPT !.acked = d.n] \in Browsers
        BY <4>1, BrowserFields DEF PipeOK
      <4> QED
        BY <1>1, <2>2, <3>2, <4>2 DEF TakeDown
    <3>3. CASE d # Gone /\ d.kind # "ack"
      <4>1. d.syms \in Seq(Syms)
        BY <2>1, <3>3 DEF Downs
      <4>2. Append(browser.chunks, d.syms) \in Seq(Seq(Syms))
        BY <4>1 DEF PipeOK, Browsers
      <4>3. [browser EXCEPT !.chunks = Append(browser.chunks, d.syms)] \in Browsers
        BY <4>2, BrowserFields DEF PipeOK
      <4> QED
        BY <1>1, <3>3, <4>3 DEF TakeDown
    <3> QED
      BY <3>1, <3>2, <3>3
  <2>4. up' \in Seq(Marked)
    BY <1>1, <2>2 DEF TakeDown, PipeOK
  <2> QED
    BY <1>1, <2>1, <2>3, <2>4 DEF TakeDown, PipeOK
<1>2. CASE TakeSocket
  <2>1. CASE tcp.out # <<>>
    <3>1. PICK n \in 1..Len(tcp.out) :
            /\ browser' = [browser EXCEPT !.chunks = Append(@, SubSeq(tcp.out, 1, n))]
            /\ tcp' = [tcp EXCEPT !.out = SubSeq(@, n + 1, Len(@))]
      BY <1>2, <2>1 DEF TakeSocket
    <3>2. tcp.out \in Seq(Syms) /\ browser.chunks \in Seq(Seq(Syms))
      BY DEF PipeOK, Sockets, Browsers
    <3>3. SubSeq(tcp.out, 1, n) \in Seq(Syms) /\ SubSeq(tcp.out, n + 1, Len(tcp.out)) \in Seq(Syms)
      BY <3>2, Parts
    <3>4. Append(browser.chunks, SubSeq(tcp.out, 1, n)) \in Seq(Seq(Syms))
      BY <3>2, <3>3
    <3>5. browser' \in Browsers /\ tcp' \in Sockets
      BY <3>1, <3>3, <3>4, BrowserFields, SocketFields DEF PipeOK
    <3> QED
      BY <1>2, <3>5 DEF TakeSocket, PipeOK
  <2>2. CASE tcp.out = <<>>
    BY <1>2, <2>2, BrowserFields DEF TakeSocket, PipeOK
  <2> QED
    BY <2>1, <2>2
<1> QED
  BY <1>1, <1>2

\* The close of the WebSocket is one more frame for the client, or none.
LEMMA CloseTypes ==
  ASSUME PipeOK
  PROVE  CloseWs(relay, down) \in Seq(Downs)
<1>1. Gone \in Downs
  BY DEF Downs
<1> QED
  BY <1>1 DEF CloseWs, PipeOK

\* What a relay makes of a frame, the types it keeps.
LEMMA RelayTakesTypes ==
  ASSUME PipeOK, RelayTakes
  PROVE  PipeOK'
<1> DEFINE f == Head(up)
<1>1. f \in Marked /\ Tail(up) \in Seq(Marked)
  BY HeadTailProperties DEF RelayTakes, PipeOK
<1>2. CASE f = Gone
  <2>1. [relay EXCEPT !.wsClosed = TRUE] \in Relays
    BY RelayFields DEF PipeOK
  <2>2. EndWriter([relay EXCEPT !.wsClosed = TRUE]) \in Relays
    BY <2>1, RelayFields
  <2> QED
    BY <1>1, <1>2, <2>2 DEF RelayTakes, PipeOK
<1>3. CASE f # Gone /\ (relay.wsClosed \/ relay.ended)
  BY <1>1, <1>3 DEF RelayTakes, PipeOK
<1>4. CASE f # Gone /\ ~(relay.wsClosed \/ relay.ended) /\ relay.queued + f.size > MaxQueued
  <2>1. Abort(relay) \in Relays
    BY RelayFields DEF PipeOK
  <2>2. [Abort(relay) EXCEPT !.tooLarge = TRUE] \in Relays
    BY <2>1, RelayFields
  <2>3. [tcp EXCEPT !.dead = TRUE] \in Sockets
    BY SocketFields DEF PipeOK
  <2> QED
    BY <1>1, <1>4, <2>2, <2>3, CloseTypes DEF RelayTakes, PipeOK
<1>5. CASE f # Gone /\ ~(relay.wsClosed \/ relay.ended) /\ ~(relay.queued + f.size > MaxQueued)
  <2>1. relay.queued + f.size \in Int
    BY <1>1, <1>5, FrameIs DEF PipeOK, Relays, Marked
  <2>2. Append(relay.queue, f) \in Seq(Marked)
    BY <1>1 DEF PipeOK, Relays
  <2>3. [relay EXCEPT !.queue = Append(@, f), !.queued = @ + f.size] \in Relays
    BY <2>1, <2>2, RelayFields DEF PipeOK
  <2> QED
    BY <1>1, <1>5, <2>3 DEF RelayTakes, PipeOK
<1> QED
  BY <1>2, <1>3, <1>4, <1>5

\* The relay as a write leaves it, before it acknowledges anything.
Wrote(f) ==
  LET rest == [relay EXCEPT !.queue = Tail(@), !.queued = @ - f.size] IN
  IF tcp.dead THEN (IF relay.ended THEN rest ELSE Abort(rest))
  ELSE [rest EXCEPT !.written = @ + f.size]

\* What a write is, with the relay it leaves named.
LEMMA WriteIs ==
  ASSUME PipeOK, RelayWrites
  PROVE  LET f == Head(relay.queue)
             r == Wrote(f)
             ack == Acknowledged(r) IN
         /\ f \in Frames /\ r \in Relays /\ ack.n = r.written
         /\ r.queue = Tail(relay.queue) /\ r.queued = relay.queued - f.size
         /\ r.ended = (relay.ended \/ tcp.dead) /\ r.tooLarge = relay.tooLarge
         /\ r.read = relay.read
         /\ r.written = IF tcp.dead THEN relay.written ELSE relay.written + f.size
         /\ relay' = IF ack.due THEN [r EXCEPT !.acked = ack.n] ELSE r
         /\ down' = IF tcp.dead /\ ~relay.ended THEN CloseWs(relay, down)
                    ELSE IF ack.due THEN Append(down, [kind |-> "ack", n |-> r.written]) ELSE down
         /\ tcp' = IF tcp.dead THEN tcp ELSE [tcp EXCEPT !.in = Append(@, f)]
         /\ UNCHANGED <<browser, up>>
<1> DEFINE f == Head(relay.queue)
           rest == [relay EXCEPT !.queue = Tail(@), !.queued = @ - f.size]
           r == Wrote(f)
<1>1. f \in Frames /\ Tail(relay.queue) \in Seq(Marked)
  BY HeadTailProperties DEF RelayWrites, PipeOK, Relays, Marked
<1>2. f.size \in Nat /\ relay.queued - f.size \in Int /\ relay.written + f.size \in Nat
  BY <1>1, FrameIs DEF PipeOK, Relays
<1>3. rest \in Relays
  BY <1>1, <1>2, RelayFields DEF PipeOK
<1>4. /\ rest.queue = Tail(relay.queue) /\ rest.queued = relay.queued - f.size
      /\ rest.ended = relay.ended /\ rest.tooLarge = relay.tooLarge /\ rest.read = relay.read
      /\ rest.written = relay.written
  BY DEF PipeOK, Relays
<1>5. r = IF tcp.dead THEN (IF relay.ended THEN rest ELSE Abort(rest))
          ELSE [rest EXCEPT !.written = @ + f.size]
  BY DEF Wrote
<1>6. /\ r \in Relays
      /\ r.queue = rest.queue /\ r.queued = rest.queued
      /\ r.tooLarge = rest.tooLarge /\ r.read = rest.read
      /\ r.ended = (rest.ended \/ tcp.dead)
      /\ r.written = IF tcp.dead THEN rest.written ELSE rest.written + f.size
  <2> HIDE DEF f, rest, r
  <2>1. CASE tcp.dead /\ relay.ended
    BY <1>3, <1>4, <1>5, <2>1
  <2>2. CASE tcp.dead /\ ~relay.ended
    BY <1>3, <1>4, <1>5, <2>2, RelayFields DEF Abort, Relays
  <2>3. CASE ~tcp.dead
    <3>1. rest.written + f.size \in Nat
      BY <1>2, <1>4
    <3>2. r = [rest EXCEPT !.written = @ + f.size]
      BY <1>5, <2>3
    <3>3. r \in Relays
      BY <1>3, <3>1, <3>2, RelayFields
    <3>4. tcp.dead \in BOOLEAN
      BY DEF PipeOK, Sockets
    <3> QED
      BY <1>3, <2>3, <3>2, <3>3, <3>4 DEF Relays
  <2> QED
    BY <2>1, <2>2, <2>3
<1>7. Acknowledged(r).n = r.written
  BY DEF Acknowledged
<1>8. /\ relay' = IF Acknowledged(r).due THEN [r EXCEPT !.acked = Acknowledged(r).n] ELSE r
      /\ down' = IF tcp.dead /\ ~relay.ended THEN CloseWs(relay, down)
                 ELSE IF Acknowledged(r).due
                 THEN Append(down, [kind |-> "ack", n |-> Acknowledged(r).n]) ELSE down
      /\ tcp' = IF tcp.dead THEN tcp ELSE [tcp EXCEPT !.in = Append(@, f)]
      /\ UNCHANGED <<browser, up>>
  BY DEF RelayWrites, Wrote
<1> HIDE DEF f, rest, r
<1>9. /\ r.queue = Tail(relay.queue) /\ r.queued = relay.queued - f.size
      /\ r.ended = (relay.ended \/ tcp.dead) /\ r.tooLarge = relay.tooLarge
      /\ r.read = relay.read
      /\ r.written = IF tcp.dead THEN relay.written ELSE relay.written + f.size
  BY <1>4, <1>6
<1> QED
  BY <1>1, <1>6, <1>7, <1>8, <1>9 DEF f, r

\* A write keeps the types.
LEMMA RelayWritesTypes ==
  ASSUME PipeOK, RelayWrites
  PROVE  PipeOK'
<1> DEFINE f == Head(relay.queue)
           r == Wrote(f)
           ack == Acknowledged(r)
<1>1. /\ f \in Frames /\ r \in Relays /\ ack.n = r.written
      /\ relay' = IF ack.due THEN [r EXCEPT !.acked = ack.n] ELSE r
      /\ down' = IF tcp.dead /\ ~relay.ended THEN CloseWs(relay, down)
                 ELSE IF ack.due THEN Append(down, [kind |-> "ack", n |-> r.written]) ELSE down
      /\ tcp' = IF tcp.dead THEN tcp ELSE [tcp EXCEPT !.in = Append(@, f)]
      /\ UNCHANGED <<browser, up>>
  BY WriteIs
<1> HIDE DEF f, r, ack
<1>2. r.written \in Nat
  BY <1>1 DEF Relays
<1>3. relay' \in Relays
  BY <1>1, <1>2, RelayFields
<1>4. Append(down, [kind |-> "ack", n |-> r.written]) \in Seq(Downs)
  BY <1>2 DEF PipeOK, Downs
<1>5. down' \in Seq(Downs)
  BY <1>1, <1>4, CloseTypes DEF PipeOK
<1>6. Append(tcp.in, f) \in Seq(Frames)
  BY <1>1 DEF PipeOK, Sockets
<1>7. tcp' \in Sockets
  BY <1>1, <1>6, SocketFields DEF PipeOK
<1> QED
  BY <1>1, <1>3, <1>5, <1>7 DEF PipeOK

\* Everything else the relay does keeps the types.
LEMMA RelayTypes ==
  ASSUME PipeOK, RelayFins \/ RelayReads \/ RelayReadEnds \/ RelayEnds
  PROVE  PipeOK'
<1>1. /\ [tcp EXCEPT !.dead = TRUE] \in Sockets /\ [tcp EXCEPT !.fin = TRUE] \in Sockets
      /\ [relay EXCEPT !.read = "done", !.wsClosed = TRUE] \in Relays
      /\ CloseWs(relay, down) \in Seq(Downs)
  BY SocketFields, RelayFields, CloseTypes DEF PipeOK
<1>2. CASE RelayFins
  <2>1. Tail(relay.queue) \in Seq(Marked)
    BY <1>2, HeadTailProperties DEF RelayFins, PipeOK, Relays
  <2>2. [relay EXCEPT !.queue = Tail(@)] \in Relays
    BY <2>1, RelayFields DEF PipeOK
  <2> QED
    BY <1>1, <1>2, <2>2 DEF RelayFins, PipeOK
<1>3. CASE RelayReads
  <2>1. ASSUME NEW n \in 1..Len(tcp.out),
               tcp' = [tcp EXCEPT !.out = SubSeq(@, n + 1, Len(@))],
               down' = IF relay.wsClosed THEN down
                       ELSE Append(down, [kind |-> "data", syms |-> SubSeq(tcp.out, 1, n)]),
               UNCHANGED relay
        PROVE  PipeOK'
    <3>1. tcp.out \in Seq(Syms)
      BY DEF PipeOK, Sockets
    <3>2. SubSeq(tcp.out, 1, n) \in Seq(Syms) /\ SubSeq(tcp.out, n + 1, Len(tcp.out)) \in Seq(Syms)
      BY <3>1, Parts
    <3>3. [kind |-> "data", syms |-> SubSeq(tcp.out, 1, n)] \in Downs
      BY <3>2 DEF Downs
    <3>4. down' \in Seq(Downs)
      BY <2>1, <3>3 DEF PipeOK
    <3>5. tcp' \in Sockets
      BY <2>1, <3>2, SocketFields DEF PipeOK
    <3> QED
      BY <1>3, <2>1, <3>4, <3>5 DEF RelayReads, PipeOK
  <2>2. CASE ReadFailed
    BY <1>1, <1>3, <2>2 DEF RelayReads, ReadFailed, PipeOK
  <2> QED
    BY <1>3, <2>1, <2>2 DEF RelayReads
<1>4. CASE RelayReadEnds
  <2>1. EndWriter(relay) \in Relays
    BY RelayFields DEF PipeOK
  <2>2. [EndWriter(relay) EXCEPT !.read = "draining"] \in Relays
    BY <2>1, RelayFields
  <2> QED
    BY <1>1, <1>4, <2>2 DEF RelayReadEnds, ReadFailed, PipeOK
<1>5. CASE RelayEnds
  BY <1>1, <1>5 DEF RelayEnds, PipeOK
<1> QED
  BY <1>2, <1>3, <1>4, <1>5

\* So do the faults of the connection.
LEMMA FaultTypes ==
  ASSUME PipeOK, WsDrops \/ TcpDies
  PROVE  PipeOK'
<1>1. CASE WsDrops
  <2>1. <<Gone>> \in Seq(Marked) /\ <<Gone>> \in Seq(Downs)
    BY DEF Marked, Downs
  <2> QED
    BY <1>1, <2>1 DEF WsDrops, PipeOK
<1>2. CASE TcpDies
  <2>1. PICK arrived \in BOOLEAN :
          tcp' = [tcp EXCEPT !.dead = TRUE, !.out = IF arrived THEN @ ELSE <<>>]
    BY <1>2 DEF TcpDies
  <2>2. tcp.out \in Seq(Syms) /\ <<>> \in Seq(Syms)
    BY DEF PipeOK, Sockets
  <2>3. tcp' \in Sockets
    BY <2>1, <2>2, SocketFields DEF PipeOK
  <2> QED
    BY <1>2, <2>3 DEF TcpDies, PipeOK
<1> QED
  BY <1>1, <1>2

-----------------------------------------------------------------------------
(* Type correctness of the client's steps and the server's. *)

\* What the client takes from a reply line, and how it was paired.
LEMMA LineFields ==
  ASSUME NEW c \in Clients
  PROVE  /\ \A b \in Seq(Syms) : [c EXCEPT !.buf = b] \in Clients
         /\ \A a \in {"none", "sent", "refused", "unconfirmed"} :
              [c EXCEPT !.pc = "closed", !.answer = a] \in Clients
         /\ [c EXCEPT !.pc = "closed"] \in Clients
         /\ \A b \in BOOLEAN : [c EXCEPT !.paired = b] \in Clients
<1>1. \A b \in Seq(Syms) : [c EXCEPT !.buf = b] \in Clients
  BY DEF Clients
<1>2. \A a \in {"none", "sent", "refused", "unconfirmed"} :
        [c EXCEPT !.pc = "closed", !.answer = a] \in Clients
  BY DEF Clients, Pcs
<1>3. [c EXCEPT !.pc = "closed"] \in Clients
  BY DEF Clients, Pcs
<1>4. \A b \in BOOLEAN : [c EXCEPT !.paired = b] \in Clients
  BY DEF Clients
<1> QED
  BY <1>1, <1>2, <1>3, <1>4

\* Whatever it does with a reply, what it has read beyond it stays.
LEMMA BufStays ==
  ASSUME cl \in Clients, cast \in DOMAIN Casts
  PROVE  /\ Failed(cl).buf = cl.buf
         /\ \A n \in Nat : Replied(n).buf = cl.buf
<1>1. \A c \in Clients : Closing(c).buf = c.buf
  BY DEF Closing, Clients
<1>2. \A c \in Clients : Quitting(c).buf = c.buf
  BY <1>1 DEF Quitting, Clients
<1>3. \A c \in Clients : Abandoned(c).buf = c.buf
  BY DEF Abandoned, Clients
<1>4. \A c \in Clients : \A a \in {"sent", "refused"} : Says(c, a).buf = c.buf
  BY DEF Says, Clients
<1>5. \A c \in Clients : Unconfirmed(c).buf = c.buf
  <2>1. \A c \in Clients : Says(c, "unconfirmed").buf = c.buf
    BY DEF Says, Clients
  <2> QED
    BY <1>2, <1>3, <2>1, Stops DEF Unconfirmed
<1>6. Failed(cl).buf = cl.buf
  <2>1. [cl EXCEPT !.left = <<>>].buf = cl.buf
    BY DEF Clients
  <2> QED
    BY <1>1, <1>2, <1>4, <1>5, <2>1, Stops DEF Failed
<1>7. \A pc \in Commands : Command(pc).buf = cl.buf
  BY DEF Command, Clients
<1>8. AuthStep.buf = cl.buf /\ Envelope.buf = cl.buf
  BY <1>2, <1>4, <1>7, Stops DEF AuthStep, Envelope, Commands
<1>9. AfterRcpt.buf = cl.buf
  <2> DEFINE c == Command("rcpt")
  <2>1. c \in Clients /\ c.buf = cl.buf
    BY <1>7, GoesOn DEF Commands
  <2> HIDE DEF c
  <2>2. [c EXCEPT !.rcpt = @ + 1].buf = cl.buf
    BY <2>1 DEF Clients
  <2> QED
    BY <1>7, <2>2 DEF AfterRcpt, c, Commands
<1>10. [cl EXCEPT !.pc = "body", !.sub = "write", !.left = BodyFrames].buf = cl.buf
  BY DEF Clients
<1>11. NextStep.buf = cl.buf
  BY <1>1, <1>7, <1>8, <1>9, <1>10 DEF NextStep, Commands
<1>12. \A n \in Nat : Answered(n).buf = cl.buf
  BY <1>2, <1>4, <1>5, Stops DEF Answered
<1>13. \A n \in Nat : Replied(n).buf = cl.buf
  BY <1>6, <1>11, <1>12 DEF Replied
<1> QED
  BY <1>6, <1>13

\* A reply line leaves a client.
LEMMA ReadLineClient ==
  ASSUME TypeOK, ReadLine
  PROVE  cl' \in Clients /\ PipeOK'
<1>1. CASE cl.buf = <<>> /\ browser.chunks # <<>>
  <2>1. Head(browser.chunks) \in Seq(Syms) /\ Tail(browser.chunks) \in Seq(Seq(Syms))
    BY <1>1, HeadTailProperties DEF TypeOK, PipeOK, Browsers
  <2>2. cl' = [cl EXCEPT !.buf = Head(browser.chunks)]
        /\ browser' = [browser EXCEPT !.chunks = Tail(@)] /\ UNCHANGED <<up, down, relay, tcp>>
    BY <1>1 DEF ReadLine
  <2> QED
    BY <2>1, <2>2, LineFields, BrowserFields DEF TypeOK, PipeOK
<1>2. CASE cl.buf # <<>>
  <2> DEFINE l == Head(cl.buf)
             rest(c) == [c EXCEPT !.buf = Tail(@)]
  <2>1. l \in Syms /\ cl \in Clients
    BY <1>2, HeadTailProperties DEF TypeOK, Clients
  <2>2. ASSUME NEW c \in Clients, c.buf = cl.buf
        PROVE  rest(c) \in Clients
    <3>1. Tail(c.buf) \in Seq(Syms)
      BY <1>2, <2>2, HeadTailProperties DEF Clients
    <3> QED
      BY <3>1, LineFields
  <2>3. /\ UNCHANGED transport
        /\ cl' = IF l = Junk \/ (cl.code # 0 /\ l.code # cl.code) THEN rest(Failed(cl))
                 ELSE IF l.more THEN [rest(cl) EXCEPT !.code = l.code]
                 ELSE [rest(Replied(l.code)) EXCEPT !.paired = @ /\ l.to \in {cl.pc, "any"}]
    BY <1>2 DEF ReadLine
  <2>4. Failed(cl) \in Clients /\ Failed(cl).buf = cl.buf
    BY <2>1, Stops, BufStays DEF TypeOK
  <2>5. \A n \in Nat : Replied(n) \in Clients /\ Replied(n).buf = cl.buf
    BY GoesOn, BufStays DEF TypeOK
  <2>6. PipeOK'
    BY <2>3 DEF transport, TypeOK, PipeOK
  <2>7. CASE l = Junk \/ (cl.code # 0 /\ l.code # cl.code)
    <3>1. cl' = rest(Failed(cl))
      BY <2>3, <2>7
    <3>2. rest(Failed(cl)) \in Clients
      BY <2>2, <2>4
    <3> QED
      BY <2>6, <3>1, <3>2
  <2>8. CASE ~(l = Junk \/ (cl.code # 0 /\ l.code # cl.code))
    <3>1. l.code \in Nat
      BY <2>1, <2>8 DEF Syms, Replies
    <3>2. rest(cl) \in Clients /\ rest(Replied(l.code)) \in Clients
      BY <2>1, <2>2, <2>5, <3>1
    <3>3. CASE l.more
      <4> DEFINE c == rest(cl)
      <4>1. cl' = [c EXCEPT !.code = l.code]
        BY <2>3, <2>8, <3>3
      <4>2. c \in Clients
        BY <3>2
      <4> HIDE DEF c, l
      <4>3. [c EXCEPT !.code = l.code] \in Clients
        BY <3>1, <4>2, EmptySeq, ClientFields DEF Pcs
      <4> QED
        BY <2>6, <4>1, <4>3
    <3>4. CASE ~l.more
      <4> DEFINE c == rest(Replied(l.code))
                 p == c.paired /\ l.to \in {cl.pc, "any"}
      <4>1. cl' = [c EXCEPT !.paired = p]
        BY <2>3, <2>8, <3>4
      <4>2. c \in Clients
        BY <3>2
      <4>3. p \in BOOLEAN
        OBVIOUS
      <4> HIDE DEF c, p
      <4>4. [c EXCEPT !.paired = p] \in Clients
        BY <4>2, <4>3, LineFields
      <4> QED
        BY <2>6, <4>1, <4>4
    <3> QED
      BY <3>3, <3>4
  <2> QED
    BY <2>7, <2>8
<1>3. CASE cl.buf = <<>> /\ browser.chunks = <<>>
  BY <1>3, Stops DEF ReadLine, transport, TypeOK, PipeOK
<1> QED
  BY <1>1, <1>2, <1>3

\* The client's steps keep the types.
LEMMA ClientTypes ==
  ASSUME TypeOK, Client \/ ReplyTimeout \/ AckStall
  PROVE  cl' \in Clients /\ PipeOK' /\ wire' \in Nat /\ UNCHANGED <<cast, sv>>
<1> USE DEF TypeOK
<1>1. CASE Open
  <2>1. [cl EXCEPT !.pc = "greeting", !.sub = "reply"] \in Clients
    BY EmptySeq, ClientFields DEF Pcs
  <2>2. [cl EXCEPT !.pc = "closed", !.answer = "refused"] \in Clients
    BY LineFields
  <2> QED
    BY <1>1, <2>1, <2>2 DEF Open, transport, PipeOK
<1>2. CASE WriteFrame
  <2>1. Head(cl.left) \in Frames /\ Tail(cl.left) \in Seq(Frames)
    BY <1>2, HeadTailProperties DEF WriteFrame, Clients
  <2> QED
    BY <1>2, <2>1, SendTypes, ClientFields DEF WriteFrame, Pcs
<1>3. CASE WriteFails
  <2>1. Failed(Abandoned(cl)) \in Clients /\ Unconfirmed(cl) \in Clients /\ Failed(cl) \in Clients
    BY Stops
  <2> QED
    BY <1>3, <2>1 DEF WriteFails, transport, PipeOK
<1>4. CASE Written
  <2>1. [cl EXCEPT !.sub = "flush"] \in Clients /\ [cl EXCEPT !.sub = "reply"] \in Clients
    BY EmptySeq, ClientFields DEF Pcs
  <2>2. [cl EXCEPT !.pc = "answer", !.sub = "reply", !.code = 0] \in Clients
    BY EmptySeq, ClientFields DEF Pcs
  <2> QED
    BY <1>4, <2>1, <2>2 DEF Written, transport, PipeOK
<1>5. CASE Flush
  <2>1. <<[line |-> Dot, size |-> 1]>> \in Seq(Frames)
    BY FramesAre DEF Commands
  <2>2. [cl EXCEPT !.pc = "dot", !.sub = "write", !.left = <<[line |-> Dot, size |-> 1]>>] \in Clients
    BY <2>1, ClientFields DEF Pcs
  <2>3. Failed(Abandoned(cl)) \in Clients
    BY Stops
  <2> QED
    BY <1>5, <2>2, <2>3 DEF Flush, transport, PipeOK
<1>6. CASE ReadLine
  BY <1>6, ReadLineClient DEF ReadLine
<1>7. CASE Close
  BY <1>7, EndTypes, LineFields DEF Close
<1>8. CASE ReplyTimeout
  <2>1. Failed(Abandoned(cl)) \in Clients
    BY Stops
  <2> QED
    BY <1>8, <2>1 DEF ReplyTimeout, TimedOut, Late, transport, PipeOK
<1>9. CASE AckStall
  BY <1>9, EndTypes DEF AckStall, Late
<1> QED
  BY <1>1, <1>2, <1>3, <1>4, <1>5, <1>6, <1>7, <1>8, <1>9 DEF Client

\* A reply, of however many lines, is of symbols.
LEMMA RepliesAre == \A n \in Nat, to \in Pcs \cup {"line"} : Reply(n, to) \in Seq(Syms)
  BY DEF Reply, Syms, Replies

LEMMA AnswersAre ==
  ASSUME NEW cmd \in Commands \cup {"line"}
  PROVE  ReplyTo(cmd) \in Seq(Syms) /\ Odd(cmd) \subseteq Seq(Syms) /\ <<Junk>> \in Seq(Syms)
<1>1. cmd \in Pcs \cup {"line"} /\ "ehlo" \in Pcs
  BY DEF Pcs, Commands
<1>2. [code |-> 250, more |-> TRUE, to |-> cmd] \in Syms
      /\ [code |-> 250, more |-> TRUE, to |-> "ehlo"] \in Syms /\ Junk \in Syms
  BY <1>1 DEF Syms, Replies
<1>3. ReplyTo(cmd) \in Seq(Syms)
  <2>1. CASE cmd = "ehlo"
    <3>1. Reply(250, "ehlo") \in Seq(Syms)
      BY <1>1, RepliesAre
    <3> QED
      BY <1>2, <2>1, <3>1 DEF ReplyTo
  <2>2. CASE cmd = "bye"
    BY <2>2, EmptySeq DEF ReplyTo
  <2>3. CASE cmd \notin {"ehlo", "bye"}
    <3>1. Honest[cmd] \in Nat
      BY <2>3 DEF Honest, Commands
    <3>2. Reply(Honest[cmd], cmd) \in Seq(Syms)
      BY <1>1, <3>1, RepliesAre
    <3> QED
      BY <2>3, <3>2 DEF ReplyTo
  <2> QED
    BY <2>1, <2>2, <2>3
<1>4. Odd(cmd) \subseteq Seq(Syms)
  <2>0. \A n \in Nat : Reply(n, cmd) \in Seq(Syms)
    BY <1>1, RepliesAre
  <2>1. Reply(450, cmd) \in Seq(Syms) /\ Reply(550, cmd) \in Seq(Syms)
    BY <2>0
  <2>3. Reply(299, cmd) \in Seq(Syms) /\ Reply(251, cmd) \in Seq(Syms)
    BY <2>0
  <2>2. <<[code |-> 250, more |-> TRUE, to |-> cmd]>> \o Reply(251, cmd) \in Seq(Syms)
    BY <1>2, <2>3
  <2> QED
    BY <1>2, <2>1, <2>2, <2>3, EmptySeq DEF Odd
<1> QED
  BY <1>2, <1>3, <1>4

\* What the server does with its state, and with the socket, keeps their types.
LEMMA ServerFields ==
  ASSUME NEW s \in Servers
  PROVE  /\ \A m \in {"start", "cmd", "data", "gone"} :
              /\ [s EXCEPT !.mode = m] \in Servers
              /\ \A t \in Seq(Seq(Lines)) : [s EXCEPT !.mode = m, !.taken = t, !.lines = <<>>] \in Servers
         /\ \A l \in Seq(Lines) : [s EXCEPT !.lines = l] \in Servers
<1>1. \A m \in {"start", "cmd", "data", "gone"} : [s EXCEPT !.mode = m] \in Servers
  BY DEF Servers
<1>2. \A l \in Seq(Lines) : [s EXCEPT !.lines = l] \in Servers
  BY DEF Servers
<1>3. \A m \in {"start", "cmd", "data", "gone"}, t \in Seq(Seq(Lines)) :
        [s EXCEPT !.mode = m, !.taken = t, !.lines = <<>>] \in Servers
  <2>1. <<>> \in Seq(Lines)
    BY EmptySeq
  <2> QED
    BY <2>1 DEF Servers
<1> QED
  BY <1>1, <1>2, <1>3

\* What is read of a message is lines.
LEMMA ReadIs ==
  ASSUME NEW s \in Seq(Lines), NEW l \in Lines
  PROVE  Read(s, l) \in Seq(Lines)
<1>1. [l EXCEPT !.dots = IF @ > 0 THEN @ - 1 ELSE 0] \in Lines
  <2>1. (IF l.dots > 0 THEN l.dots - 1 ELSE 0) \in Nat
    BY DEF Lines
  <2> QED
    BY <2>1 DEF Lines
<1>2. CASE Joins(s)
  <2>1. Len(s) \in 1..Len(s) /\ s[Len(s)] \in Lines
    BY <1>2, EmptySeq, ElementOfSeq DEF Joins
  <2>2. [s[Len(s)] EXCEPT !.text = TRUE] \in Lines
    BY <2>1 DEF Lines
  <2>3. \A m \in Lines : [m EXCEPT !.lf = l.lf] \in Lines
    BY DEF Lines
  <2> DEFINE t == [s EXCEPT ![Len(s)].text = TRUE]
  <2>4. t \in Seq(Lines) /\ Len(t) = Len(s)
    BY <2>1, <2>2
  <2> HIDE DEF t
  <2>5. t[Len(s)] \in Lines
    BY <2>1, <2>4
  <2>6. [t EXCEPT ![Len(s)].lf = l.lf] \in Seq(Lines)
    BY <2>1, <2>3, <2>4, <2>5
  <2> QED
    BY <1>2, <2>6 DEF Read, t
<1>3. CASE ~Joins(s)
  BY <1>1, <1>3 DEF Read
<1> QED
  BY <1>2, <1>3

\* The server's steps keep the types.
LEMMA ServerTypes ==
  ASSUME TypeOK, Server
  PROVE  sv' \in Servers /\ tcp' \in Sockets /\ wire' \in Nat /\ UNCHANGED <<cast, cl, browser, up, down, relay>>
<1> USE DEF TypeOK, PipeOK
<1>1. CASE ServerGreets
  <2>1. Reply(220, "greeting") \in Seq(Syms) /\ Reply(554, "greeting") \in Seq(Syms)
    BY RepliesAre DEF Pcs
  <2>2. <<Junk>> \in Seq(Syms) /\ <<>> \in Seq(Syms)
    BY DEF Syms
  <2>3. sv' \in Servers
    BY <1>1, ServerFields DEF ServerGreets
  <2>4. tcp' \in Sockets
    <3>1. CASE tcp' = [tcp EXCEPT !.out = Reply(220, "greeting")]
      BY <2>1, <3>1, SocketFields
    <3>2. ASSUME NEW syms \in {Reply(554, "greeting"), <<Junk>>, <<>>},
                 tcp' = [tcp EXCEPT !.out = syms, !.over = TRUE]
          PROVE  tcp' \in Sockets
      <4>1. syms \in Seq(Syms)
        BY <2>1, <2>2
      <4> QED
        BY <3>2, <4>1, SocketFields
    <3> QED
      BY <1>1, <3>1, <3>2 DEF ServerGreets
  <2>5. wire' \in Nat
    BY <1>1 DEF ServerGreets
  <2> QED
    BY <1>1, <2>3, <2>4, <2>5 DEF ServerGreets
<1>2. CASE ServerAnswers
  <2> DEFINE f == Head(tcp.in)
             cmd == IF "cmd" \in DOMAIN f THEN f.cmd ELSE "line"
  <2>1. f \in Frames /\ Tail(tcp.in) \in Seq(Frames)
    BY <1>2, HeadTailProperties DEF ServerAnswers, Sockets
  <2>2. cmd \in Commands \cup {"line"}
    BY <2>1 DEF Frames
  <2> HIDE DEF cmd
  <2>3. ReplyTo(cmd) \in Seq(Syms) /\ Odd(cmd) \subseteq Seq(Syms)
    BY <2>2, AnswersAre
  <2>4. ASSUME NEW syms \in Seq(Syms), NEW mode \in {"start", "cmd", "data", "gone"},
               NEW over \in BOOLEAN, Answers(syms, mode, over)
        PROVE  sv' \in Servers /\ tcp' \in Sockets
    <3>1. tcp.out \o syms \in Seq(Syms)
      BY DEF Sockets
    <3> QED
      BY <2>1, <2>4, <3>1, SocketFields, ServerFields DEF Answers
  <2>5. ASSUME Answers(ReplyTo(cmd), After(cmd), cmd \in {"quit", "bye"})
        PROVE  sv' \in Servers /\ tcp' \in Sockets
    <3>1. After(cmd) \in {"start", "cmd", "data", "gone"} /\ (cmd \in {"quit", "bye"}) \in BOOLEAN
      BY DEF After
    <3> QED
      BY <2>3, <2>4, <2>5, <3>1
  <2>6. ASSUME NEW syms \in Odd(cmd), NEW over \in BOOLEAN,
               Answers(syms, IF over THEN "gone" ELSE "cmd", over)
        PROVE  sv' \in Servers /\ tcp' \in Sockets
    BY <2>3, <2>4, <2>6
  <2>7. sv' \in Servers /\ tcp' \in Sockets
    BY <1>2, <2>5, <2>6 DEF ServerAnswers, cmd
  <2>8. wire' \in Nat /\ UNCHANGED <<cast, cl, browser, up, down, relay>>
    BY <1>2 DEF ServerAnswers
  <2> QED
    BY <2>7, <2>8
<1>3. CASE ServerReadsMessage
  <2> DEFINE f == Head(tcp.in)
             said(syms, really, mode, over) ==
               /\ sv' = [sv EXCEPT !.mode = mode, !.taken = Took(really), !.lines = <<>>]
               /\ tcp' = [tcp EXCEPT !.in = Tail(@), !.out = @ \o syms, !.over = over]
  <2>1. f \in Frames /\ Tail(tcp.in) \in Seq(Frames)
    BY <1>3, HeadTailProperties DEF ServerReadsMessage, Sockets
  <2>2. sv.lines \in Seq(Lines) /\ sv.taken \in Seq(Seq(Lines)) /\ tcp.out \in Seq(Syms)
    BY DEF Servers, Sockets
  <2>3. \A really \in BOOLEAN : Took(really) \in Seq(Seq(Lines))
    BY <2>2 DEF Took
  <2>4. ASSUME NEW syms \in Seq(Syms), NEW really \in BOOLEAN,
               NEW mode \in {"start", "cmd", "data", "gone"}, NEW over \in BOOLEAN,
               said(syms, really, mode, over)
        PROVE  sv' \in Servers /\ tcp' \in Sockets
    <3>1. tcp.out \o syms \in Seq(Syms)
      BY <2>2
    <3> QED
      BY <2>1, <2>3, <2>4, <3>1, SocketFields, ServerFields
  <2>5. \A n \in Nat : Reply(n, "answer") \in Seq(Syms)
    BY RepliesAre DEF Pcs
  <2>6. <<Junk>> \in Seq(Syms) /\ <<>> \in Seq(Syms)
    BY DEF Syms
  <2>7. CASE ~EndsMessage(f)
    <3>1. sv' = (IF "line" \in DOMAIN f THEN [sv EXCEPT !.lines = Read(@, f.line)]
                 ELSE [sv EXCEPT !.mode = "gone"])
      BY <1>3, <2>7 DEF ServerReadsMessage
    <3>2. tcp' = [tcp EXCEPT !.in = Tail(@), !.over = "line" \notin DOMAIN f]
      BY <1>3, <2>7 DEF ServerReadsMessage
    <3>3. "line" \in DOMAIN f => f.line \in Lines
      BY <2>1 DEF Frames
    <3>4. sv' \in Servers
      BY <2>2, <3>1, <3>3, ReadIs, ServerFields
    <3>5. ("line" \notin DOMAIN f) \in BOOLEAN
      OBVIOUS
    <3>6. tcp' \in Sockets
      BY <2>1, <3>2, <3>5, SocketFields
    <3>7. wire' \in Nat
      BY <1>3, <2>7 DEF ServerReadsMessage
    <3> QED
      BY <1>3, <3>4, <3>6, <3>7 DEF ServerReadsMessage
  <2>8. CASE EndsMessage(f)
    <3>1. ASSUME said(Reply(250, "answer"), TRUE, "cmd", FALSE)
          PROVE  sv' \in Servers /\ tcp' \in Sockets
      <4>1. Reply(250, "answer") \in Seq(Syms)
        BY <2>5
      <4> QED
        BY <2>4, <3>1, <4>1
    <3>2. ASSUME NEW code \in {450, 550}, said(Reply(code, "answer"), FALSE, "cmd", FALSE)
          PROVE  sv' \in Servers /\ tcp' \in Sockets
      <4>1. Reply(code, "answer") \in Seq(Syms)
        BY <2>5
      <4> QED
        BY <2>4, <3>2, <4>1
    <3>3. ASSUME NEW syms \in {Reply(354, "answer"), <<Junk>>, <<>>}, NEW really \in BOOLEAN,
                 NEW over \in BOOLEAN, said(syms, really, IF over THEN "gone" ELSE "cmd", over)
          PROVE  sv' \in Servers /\ tcp' \in Sockets
      <4>1. syms \in Seq(Syms)
        <5>1. Reply(354, "answer") \in Seq(Syms)
          BY <2>5
        <5> QED
          BY <2>6, <5>1
      <4> QED
        BY <2>4, <3>3, <4>1
    <3>4. \/ said(Reply(250, "answer"), TRUE, "cmd", FALSE) /\ UNCHANGED wire
          \/ /\ wire < Play.odd /\ wire' = wire + 1
             /\ \/ \E code \in {450, 550} : said(Reply(code, "answer"), FALSE, "cmd", FALSE)
                \/ \E syms \in {Reply(354, "answer"), <<Junk>>, <<>>}, really, over \in BOOLEAN :
                     said(syms, really, IF over THEN "gone" ELSE "cmd", over)
      BY <1>3, <2>8 DEF ServerReadsMessage
    <3> HIDE DEF said
    <3>5. sv' \in Servers /\ tcp' \in Sockets
      <4>1. CASE said(Reply(250, "answer"), TRUE, "cmd", FALSE)
        BY <3>1, <4>1
      <4>2. CASE \E code \in {450, 550} : said(Reply(code, "answer"), FALSE, "cmd", FALSE)
        BY <3>2, <4>2
      <4>3. CASE \E syms \in {Reply(354, "answer"), <<Junk>>, <<>>}, really, over \in BOOLEAN :
                   said(syms, really, IF over THEN "gone" ELSE "cmd", over)
        BY <3>3, <4>3
      <4> QED
        BY <3>4, <4>1, <4>2, <4>3
    <3>6. wire' = wire \/ wire' = wire + 1
      BY <3>4
    <3>7. wire' \in Nat
      BY <3>6
    <3> QED
      BY <1>3, <3>5, <3>7 DEF ServerReadsMessage
  <2> QED
    BY <2>7, <2>8
<1>4. CASE ServerLeaves
  <2>1. <<>> \in Seq(Frames)
    OBVIOUS
  <2> QED
    BY <1>4, <2>1, SocketFields, ServerFields DEF ServerLeaves
<1> QED
  BY <1>1, <1>2, <1>3, <1>4 DEF Server

\* The types are inductive.
LEMMA TypeStep ==
  ASSUME TypeOK, [Next]_vars
  PROVE  TypeOK'
<1>1. CASE Client \/ ReplyTimeout \/ AckStall
  BY <1>1, ClientTypes DEF TypeOK
<1>2. CASE Server
  BY <1>2, ServerTypes DEF TypeOK, PipeOK
<1>3. CASE Transport
  <2>1. PipeOK'
    BY <1>3, TakeTypes, RelayTakesTypes, RelayWritesTypes, RelayTypes DEF Transport, Moves, TypeOK
  <2> QED
    BY <1>3, <2>1 DEF Transport, TypeOK
<1>4. CASE Fault
  <2>1. PipeOK'
    BY <1>4, FaultTypes DEF Fault, TypeOK
  <2> QED
    BY <1>4, <2>1 DEF Fault, TypeOK
<1>5. CASE UNCHANGED vars
  BY <1>5 DEF vars, transport, TypeOK, PipeOK
<1> QED
  BY <1>1, <1>2, <1>3, <1>4, <1>5 DEF Next, Rest

LEMMA TypeInit == Init => TypeOK
<1> SUFFICES ASSUME Init PROVE TypeOK
  OBVIOUS
<1>1. cl \in Clients
  BY DEF Init, Clients, Pcs
<1>2. sv \in Servers
  BY DEF Init, Servers
<1>3. browser \in Browsers
  BY DEF Init, TransportInit, Browsers
<1>4. relay \in Relays
  BY DEF Init, TransportInit, Relays, Direct
<1>5. tcp \in Sockets
  BY DEF Init, TransportInit, Sockets
<1> QED
  BY <1>1, <1>2, <1>3, <1>4, <1>5 DEF Init, TransportInit, TypeOK, PipeOK

-----------------------------------------------------------------------------
(* Sums over a sequence of frames, without recursion: s adds up to n when  *)
(* some running total of its sizes ends in n.                              *)

SizeOf(f) == IF f = Gone THEN 0 ELSE f.size

Totals(s, e) ==
  /\ e \in [0..Len(s) -> Nat] /\ e[0] = 0
  /\ \A i \in 1..Len(s) : e[i] = e[i - 1] + SizeOf(s[i])
  /\ \A i, j \in 0..Len(s) : i <= j => e[i] <= e[j]

Adds(s, n) == \E e : Totals(s, e) /\ n = e[Len(s)]

\* A frame counts for its size, the mark of an end for nothing.
LEMMA Sizes ==
  /\ SizeOf(Gone) = 0
  /\ \A f \in Frames : SizeOf(f) = f.size
  /\ \A f \in Marked : SizeOf(f) \in Nat
<1>1. \A f \in Frames : SizeOf(f) = f.size /\ SizeOf(f) \in Nat
  BY FrameIs DEF SizeOf
<1>2. SizeOf(Gone) = 0
  BY DEF SizeOf
<1> QED
  BY <1>1, <1>2 DEF Marked

\* A sum is a number, and nothing adds up to nothing.
LEMMA AddsNothing ==
  /\ Adds(<<>>, 0)
  /\ \A n : Adds(<<>>, n) => n = 0
  /\ \A s \in Seq(Marked) : \A n : Adds(s, n) => n \in Nat
<1>1. Len(<<>>) = 0
  OBVIOUS
<1>2. Adds(<<>>, 0)
  <2> DEFINE e == [i \in 0..0 |-> 0]
  <2>1. Totals(<<>>, e)
    BY <1>1 DEF Totals
  <2> QED
    BY <1>1, <2>1 DEF Adds
<1>3. \A n : Adds(<<>>, n) => n = 0
  BY <1>1 DEF Adds, Totals
<1>4. \A s \in Seq(Marked) : \A n : Adds(s, n) => n \in Nat
  <2>1. \A s \in Seq(Marked) : Len(s) \in 0..Len(s)
    OBVIOUS
  <2> QED
    BY <2>1 DEF Adds, Totals
<1> QED
  BY <1>2, <1>3, <1>4

\* What is put behind a sequence is added to its sum.
LEMMA AddsAppend ==
  ASSUME NEW s \in Seq(Marked), NEW n, Adds(s, n), NEW f \in Marked
  PROVE  Adds(Append(s, f), n + SizeOf(f))
<1>1. PICK e : Totals(s, e) /\ n = e[Len(s)]
  BY DEF Adds
<1>2. /\ Len(s) \in Nat /\ Len(Append(s, f)) = Len(s) + 1 /\ SizeOf(f) \in Nat /\ n \in Nat
      /\ \A i \in 1..Len(s) : Append(s, f)[i] = s[i]
      /\ Append(s, f)[Len(s) + 1] = f
  BY Sizes, AddsNothing, AppendProperties, LenProperties
<1> DEFINE l == Len(s)
           t == Append(s, f)
           d == [i \in 0..(l + 1) |-> IF i = l + 1 THEN n + SizeOf(f) ELSE e[i]]
<1>3. /\ \A i \in 0..l : e[i] \in Nat /\ d[i] = e[i]
      /\ d[l + 1] = n + SizeOf(f)
  BY <1>1, <1>2 DEF Totals
<1>4. d \in [0..Len(t) -> Nat]
  BY <1>2, <1>3
<1>5. d[0] = 0
  BY <1>1, <1>2, <1>3 DEF Totals
<1> HIDE DEF d, t
<1>6. ASSUME NEW i \in 1..Len(t)
      PROVE  d[i] = d[i - 1] + SizeOf(t[i])
  <2>1. CASE i \in 1..l
    <3>1. i - 1 \in 0..l /\ i \in 0..l
      BY <1>2, <2>1
    <3>2. e[i] = e[i - 1] + SizeOf(s[i])
      BY <1>1, <2>1 DEF Totals
    <3> QED
      BY <1>2, <1>3, <2>1, <3>1, <3>2 DEF t
  <2>2. CASE i = l + 1
    <3>1. i - 1 = l /\ l \in 0..l
      BY <1>2, <2>2
    <3> QED
      BY <1>1, <1>2, <1>3, <2>2, <3>1 DEF t
  <2> QED
    BY <1>2, <2>1, <2>2 DEF t
<1>7. ASSUME NEW i \in 0..Len(t), NEW j \in 0..Len(t), i <= j
      PROVE  d[i] <= d[j]
  <2>1. CASE j \in 0..l
    <3>1. i \in 0..l
      BY <1>2, <1>7, <2>1 DEF t
    <3>2. e[i] <= e[j]
      BY <1>1, <1>7, <2>1, <3>1 DEF Totals
    <3> QED
      BY <1>3, <2>1, <3>1, <3>2
  <2>2. CASE j = l + 1 /\ i \in 0..l
    <3>1. e[i] <= e[l]
      BY <1>1, <1>2, <2>2 DEF Totals
    <3>2. e[i] <= n /\ e[i] \in Nat
      BY <1>1, <1>3, <2>2, <3>1
    <3> QED
      BY <1>2, <1>3, <2>2, <3>2
  <2>3. CASE j = l + 1 /\ i = l + 1
    BY <1>2, <1>3, <2>3
  <2> QED
    BY <1>2, <2>1, <2>2, <2>3 DEF t
<1>8. Totals(t, d)
  BY <1>4, <1>5, <1>6, <1>7 DEF Totals
<1> QED
  BY <1>2, <1>3, <1>8 DEF Adds, t

\* What is taken off the front is taken off the sum.
LEMMA AddsTail ==
  ASSUME NEW s \in Seq(Marked), s # <<>>, NEW n, Adds(s, n)
  PROVE  /\ Adds(Tail(s), n - SizeOf(Head(s)))
         /\ SizeOf(Head(s)) <= n
<1>1. PICK e : Totals(s, e) /\ n = e[Len(s)]
  BY DEF Adds
<1>2. /\ Len(s) \in Nat /\ Len(s) >= 1 /\ Len(Tail(s)) = Len(s) - 1 /\ Head(s) = s[1]
      /\ \A i \in 1..(Len(s) - 1) : Tail(s)[i] = s[i + 1]
  BY EmptySeq, HeadTailProperties, LenProperties
<1> DEFINE l == Len(s)
           t == Tail(s)
           d == [i \in 0..(l - 1) |-> e[i + 1] - e[1]]
<1>3. \A i \in 0..l : e[i] \in Nat
  BY <1>1 DEF Totals
<1>4. e[1] = SizeOf(Head(s))
  <2>1. 1 \in 1..l /\ 1 - 1 = 0
    BY <1>2
  <2>2. e[1] = e[1 - 1] + SizeOf(s[1])
    BY <1>1, <2>1 DEF Totals
  <2>3. SizeOf(s[1]) \in Nat
    BY <1>2, <2>1, Sizes, ElementOfSeq
  <2> QED
    BY <1>1, <1>2, <2>1, <2>2, <2>3 DEF Totals
<1>5. ASSUME NEW i \in 0..(l - 1)
      PROVE  /\ i + 1 \in 0..l /\ 1 \in 0..l /\ e[i + 1] \in Nat /\ e[1] \in Nat
             /\ d[i] = e[i + 1] - e[1] /\ d[i] \in Nat
  <2>1. i + 1 \in 0..l /\ 1 \in 0..l /\ 1 <= i + 1
    BY <1>2
  <2>2. e[1] <= e[i + 1]
    BY <1>1, <2>1 DEF Totals
  <2>3. e[i + 1] \in Nat /\ e[1] \in Nat
    BY <1>3, <2>1
  <2> QED
    BY <2>1, <2>2, <2>3
<1>6. d \in [0..Len(t) -> Nat]
  BY <1>2, <1>5
<1>7. d[0] = 0
  <2>1. 0 \in 0..(l - 1) /\ 0 + 1 = 1
    BY <1>2
  <2>2. d[0] = e[0 + 1] - e[1] /\ e[1] \in Nat
    BY <1>5, <2>1
  <2> QED
    BY <2>1, <2>2
<1> HIDE DEF d, t
<1>8. ASSUME NEW i \in 1..Len(t)
      PROVE  d[i] = d[i - 1] + SizeOf(t[i])
  <2>1. i \in 0..(l - 1) /\ i - 1 \in 0..(l - 1) /\ i + 1 \in 1..l /\ (i - 1) + 1 = i /\ (i + 1) - 1 = i
    BY <1>2 DEF t
  <2>2. e[i + 1] = e[i] + SizeOf(s[i + 1])
    <3>1. e[i + 1] = e[(i + 1) - 1] + SizeOf(s[i + 1])
      BY <1>1, <2>1 DEF Totals
    <3> QED
      BY <2>1, <3>1
  <2>3. t[i] = s[i + 1]
    BY <1>2 DEF t
  <2>4. d[i] = e[i + 1] - e[1] /\ d[i - 1] = e[i] - e[1] /\ e[i] \in Nat /\ e[i + 1] \in Nat /\ e[1] \in Nat
    <3>1. d[i - 1] = e[(i - 1) + 1] - e[1] /\ e[(i - 1) + 1] \in Nat
      BY <1>5, <2>1
    <3> QED
      BY <1>5, <2>1, <3>1
  <2>5. SizeOf(s[i + 1]) \in Nat
    BY <2>1, Sizes, ElementOfSeq
  <2> QED
    BY <2>2, <2>3, <2>4, <2>5
<1>9. ASSUME NEW i \in 0..Len(t), NEW j \in 0..Len(t), i <= j
      PROVE  d[i] <= d[j]
  <2>1. i \in 0..(l - 1) /\ j \in 0..(l - 1) /\ i + 1 \in 0..l /\ j + 1 \in 0..l /\ i + 1 <= j + 1
    BY <1>2, <1>9 DEF t
  <2>2. e[i + 1] <= e[j + 1]
    BY <1>1, <2>1 DEF Totals
  <2>3. /\ d[i] = e[i + 1] - e[1] /\ d[j] = e[j + 1] - e[1]
        /\ e[i + 1] \in Nat /\ e[j + 1] \in Nat /\ e[1] \in Nat
    BY <1>5, <2>1
  <2> QED
    BY <2>2, <2>3
<1>10. Totals(t, d)
  BY <1>6, <1>7, <1>8, <1>9 DEF Totals
<1>11. n - SizeOf(Head(s)) = d[Len(t)] /\ SizeOf(Head(s)) <= n
  <2>1. l - 1 \in 0..(l - 1) /\ (l - 1) + 1 = l /\ Len(t) = l - 1
    BY <1>2 DEF t
  <2>2. d[l - 1] = e[(l - 1) + 1] - e[1] /\ d[l - 1] \in Nat /\ e[1] \in Nat /\ e[(l - 1) + 1] \in Nat
    BY <1>5, <2>1
  <2> QED
    BY <1>1, <1>4, <2>1, <2>2
<1> QED
  BY <1>10, <1>11 DEF Adds, t

-----------------------------------------------------------------------------
(* The inductive invariant. *)

\* The command line's socket goes past the relay.
Apart == Direct => up = <<>> /\ down = <<>> /\ relay.queue = <<>> /\ relay.read = "done"

\* The relay counts what it queues; nothing is queued behind the end, nor once the end is written.
Queueing ==
  /\ Adds(relay.queue, relay.queued) /\ ~relay.tooLarge
  /\ \A i \in DOMAIN relay.queue : relay.queue[i] = Gone => i = Len(relay.queue) /\ relay.ended
  /\ tcp.fin => relay.ended /\ relay.queue = <<>>

\* What is acknowledged was written, whenever it was and however late the client hears of it.
Acknowledging ==
  /\ browser.acked <= relay.written
  /\ \A i \in DOMAIN down : down[i] # Gone /\ down[i].kind = "ack" => down[i].n <= relay.written

\* What is under way to the relay or in it was sent and not yet written, and the window
\* bounds that.
Windowed ==
  /\ \E m : Adds(up, m) /\ m + relay.queued + relay.written <= browser.sent
  /\ ~Direct => browser.sent - relay.written <= Window - 1 + MaxFrame

Carries == Apart /\ Queueing /\ Acknowledging /\ Windowed

Inv == TypeOK /\ Carries

\* The numbers of it.
LEMMA Counts ==
  ASSUME PipeOK, Queueing
  PROVE  /\ relay.queued \in Nat /\ relay.written \in Nat /\ browser.sent \in Nat /\ browser.acked \in Nat
         /\ relay.queue \in Seq(Marked)
<1>1. relay.queue \in Seq(Marked) /\ relay.written \in Nat /\ browser.sent \in Nat /\ browser.acked \in Nat
  BY DEF PipeOK, Relays, Browsers
<1> QED
  BY <1>1, AddsNothing DEF Queueing

\* What neither moves a frame nor counts one.
LEMMA CarriesStands ==
  ASSUME Carries, UNCHANGED <<cast, relay, up, down>>, tcp'.fin = tcp.fin,
         browser'.sent = browser.sent, browser'.acked = browser.acked
  PROVE  Carries'
<1>1. Apart'
  BY DEF Carries, Apart, Direct
<1>2. Queueing'
  BY DEF Carries, Queueing
<1>3. Acknowledging'
  BY DEF Carries, Acknowledging
<1>4. Windowed'
  BY DEF Carries, Windowed, Direct
<1> QED
  BY <1>1, <1>2, <1>3, <1>4 DEF Carries

\* The mark of an end behind what is under way adds nothing to it.
LEMMA GoneAdds ==
  ASSUME PipeOK, NEW m, Adds(up, m)
  PROVE  Adds(Append(up, Gone), m)
<1>1. Gone \in Marked /\ up \in Seq(Marked) /\ SizeOf(Gone) = 0 /\ m \in Nat
  BY Sizes, AddsNothing DEF Marked, PipeOK
<1>2. Adds(Append(up, Gone), m + SizeOf(Gone))
  BY <1>1, AddsAppend
<1> QED
  BY <1>1, <1>2

\* The end of the transport.
LEMMA EndCarries ==
  ASSUME PipeOK, Carries, UNCHANGED cast, EndTransport
  PROVE  Carries'
<1>1. CASE browser.ended
  BY <1>1, CarriesStands DEF EndTransport, transport
<1>2. CASE ~browser.ended
  <2>1. browser'.sent = browser.sent /\ browser'.acked = browser.acked /\ tcp'.fin = tcp.fin
        /\ UNCHANGED <<down, relay>>
    BY <1>2 DEF EndTransport, Ended, PipeOK, Browsers, Sockets
  <2>2. CASE Direct
    <3>1. UNCHANGED up
      BY <1>2, <2>2 DEF EndTransport
    <3> QED
      BY <2>1, <3>1, CarriesStands
  <2>3. CASE ~Direct
    <3>1. up' = Append(up, Gone)
      BY <1>2, <2>3 DEF EndTransport
    <3>2. Windowed'
      BY <2>1, <3>1, GoneAdds DEF Carries, Windowed, Direct
    <3>3. Apart' /\ Queueing' /\ Acknowledging'
      BY <2>1, <2>3 DEF Carries, Apart, Queueing, Acknowledging, Direct
    <3> QED
      BY <3>2, <3>3 DEF Carries
  <2> QED
    BY <2>2, <2>3
<1> QED
  BY <1>1, <1>2

\* A write within the window.
LEMMA SendCarries ==
  ASSUME PipeOK, Carries, UNCHANGED cast, NEW f \in Frames, SendFrame(f), MaySend(f)
  PROVE  Carries'
<1>1. /\ f.size \in Nat /\ f.size <= MaxFrame /\ f \in Marked /\ SizeOf(f) = f.size
      /\ relay.queued \in Nat /\ relay.written \in Nat /\ browser.sent \in Nat /\ browser.acked \in Nat
  BY FrameIs, Sizes, Counts DEF Marked, Carries
<1>2. /\ browser'.sent = browser.sent + f.size /\ browser'.acked = browser.acked
      /\ tcp'.fin = tcp.fin /\ UNCHANGED <<down, relay>> /\ ~browser.ended
  BY DEF SendFrame, PipeOK, Browsers, Sockets
<1>3. PICK m : Adds(up, m) /\ m + relay.queued + relay.written <= browser.sent
  BY DEF Carries, Windowed
<1>4. m \in Nat
  BY <1>3, AddsNothing DEF PipeOK
<1>5. CASE Direct
  <2>1. UNCHANGED up
    BY <1>5 DEF SendFrame
  <2>2. Windowed'
    <3>1. m + relay.queued + relay.written <= browser.sent + f.size
      BY <1>1, <1>3, <1>4
    <3> QED
      BY <1>2, <1>3, <1>5, <2>1, <3>1 DEF Windowed, Direct
  <2>3. Apart' /\ Queueing' /\ Acknowledging'
    BY <1>2, <2>1 DEF Carries, Apart, Queueing, Acknowledging, Direct
  <2> QED
    BY <2>2, <2>3 DEF Carries
<1>6. CASE ~Direct
  <2>1. up' = Append(up, f)
    BY <1>6 DEF SendFrame
  <2>2. Adds(up', m + f.size)
    BY <1>1, <1>3, <2>1, AddsAppend DEF PipeOK
  <2>3. (m + f.size) + relay.queued + relay.written <= browser.sent + f.size
    BY <1>1, <1>3, <1>4
  <2>4. browser.sent - browser.acked < Window /\ browser.acked <= relay.written
    BY <1>2, <1>6 DEF MaySend, Carries, Acknowledging
  <2>5. (browser.sent + f.size) - relay.written <= Window - 1 + MaxFrame
    BY <1>1, <2>4, WindowFits
  <2>6. Windowed'
    <3>1. \E k : Adds(up', k) /\ k + relay.queued + relay.written <= browser.sent + f.size
      BY <2>2, <2>3
    <3>2. \E k : Adds(up', k) /\ k + relay'.queued + relay'.written <= browser'.sent
      BY <1>2, <3>1
    <3>3. browser'.sent - relay'.written <= Window - 1 + MaxFrame
      <4>1. relay'.written = relay.written
        BY <1>2
      <4>2. browser'.sent = browser.sent + f.size
        BY <1>2
      <4> QED
        BY <2>5, <4>1, <4>2
    <3> QED
      BY <3>2, <3>3 DEF Windowed
  <2>7. Apart' /\ Queueing' /\ Acknowledging'
    BY <1>2, <1>6 DEF Carries, Apart, Queueing, Acknowledging, Direct
  <2> QED
    BY <2>6, <2>7 DEF Carries
<1> QED
  BY <1>5, <1>6

\* What the client's end takes: an acknowledgement is of what was written.
LEMMA TakeCarries ==
  ASSUME PipeOK, Carries, UNCHANGED cast, TakeDown \/ TakeSocket
  PROVE  Carries'
<1>1. CASE TakeSocket
  <2>1. /\ browser'.sent = browser.sent /\ browser'.acked = browser.acked /\ tcp'.fin = tcp.fin
        /\ UNCHANGED <<up, down, relay>>
    <3>1. CASE tcp.out # <<>>
      BY <1>1, <3>1 DEF TakeSocket, PipeOK, Browsers, Sockets
    <3>2. CASE tcp.out = <<>>
      BY <1>1, <3>2 DEF TakeSocket, Ended, PipeOK, Browsers
    <3> QED
      BY <3>1, <3>2
  <2> QED
    BY <2>1, CarriesStands
<1>2. CASE TakeDown
  <2> DEFINE d == Head(down)
  <2>1. /\ d \in Downs /\ down # <<>> /\ down' = Tail(down) /\ Tail(down) \in Seq(Downs)
        /\ UNCHANGED <<relay, tcp>>
    BY <1>2, HeadTailProperties DEF TakeDown, PipeOK
  <2>2. ~Direct
    BY <2>1 DEF Carries, Apart
  <2>3. /\ browser'.sent = browser.sent
        /\ browser'.acked = browser.acked \/ (d # Gone /\ d.kind = "ack" /\ browser'.acked = d.n)
    BY <1>2 DEF TakeDown, Ended, PipeOK, Browsers
  <2>4. up' = up \/ up' = Append(up, Gone)
    BY <1>2 DEF TakeDown
  <2>5. Windowed'
    <3>1. PICK m : Adds(up, m) /\ m + relay.queued + relay.written <= browser.sent
      BY DEF Carries, Windowed
    <3>2. Adds(up', m)
      BY <2>4, <3>1, GoneAdds
    <3>3. relay' = relay
      BY <2>1
    <3>4. m + relay'.queued + relay'.written <= browser'.sent
      BY <2>3, <3>1, <3>3
    <3>5. browser'.sent - relay'.written <= Window - 1 + MaxFrame
      BY <2>2, <2>3, <3>3 DEF Carries, Windowed
    <3> QED
      BY <3>2, <3>4, <3>5 DEF Windowed
  <2>6. Acknowledging'
    <3>1. /\ Len(down) \in Nat /\ Len(down) >= 1 /\ d = down[1] /\ Len(down') = Len(down) - 1
          /\ \A i \in 1..Len(down') : down'[i] = down[i + 1]
          /\ DOMAIN down = 1..Len(down) /\ DOMAIN down' = 1..Len(down')
      BY <2>1, EmptySeq, HeadTailProperties DEF PipeOK
    <3>2. \A i \in DOMAIN down : down[i] # Gone /\ down[i].kind = "ack" => down[i].n <= relay.written
      BY DEF Carries, Acknowledging
    <3>3. d # Gone /\ d.kind = "ack" => d.n <= relay.written
      BY <3>1, <3>2
    <3>4. relay'.written = relay.written
      BY <2>1
    <3>5. browser'.acked <= relay'.written
      BY <2>3, <3>3, <3>4 DEF Carries, Acknowledging
    <3>6. ASSUME NEW i \in DOMAIN down', down'[i] # Gone, down'[i].kind = "ack"
          PROVE  down'[i].n <= relay'.written
      <4>1. i + 1 \in DOMAIN down /\ down'[i] = down[i + 1]
        BY <3>1
      <4> QED
        BY <3>2, <3>4, <3>6, <4>1
    <3> QED
      BY <3>5, <3>6 DEF Acknowledging
  <2>7. Apart' /\ Queueing'
    BY <2>1, <2>2 DEF Carries, Apart, Queueing, Direct
  <2> QED
    BY <2>5, <2>6, <2>7 DEF Carries
<1> QED
  BY <1>1, <1>2

\* The end goes behind what is queued, once.
LEMMA EndQueues ==
  ASSUME PipeOK, Queueing, NEW r \in Relays, r.queue = relay.queue, r.queued = relay.queued,
         r.ended = relay.ended, r.tooLarge = relay.tooLarge,
         relay'.queue = EndWriter(r).queue, relay'.queued = EndWriter(r).queued,
         relay'.ended = EndWriter(r).ended, relay'.tooLarge = EndWriter(r).tooLarge,
         tcp'.fin = tcp.fin
  PROVE  Queueing'
<1>1. CASE relay.ended
  BY <1>1 DEF EndWriter, Queueing
<1>2. CASE ~relay.ended
  <2>1. EndWriter(r) = [r EXCEPT !.ended = TRUE, !.queue = Append(@, Gone)]
    BY <1>2 DEF EndWriter
  <2>2. /\ relay'.queue = Append(relay.queue, Gone) /\ relay'.queued = relay.queued
        /\ relay'.ended /\ relay'.tooLarge = relay.tooLarge
    BY <2>1 DEF Relays
  <2>3. Gone \in Marked /\ SizeOf(Gone) = 0 /\ relay.queue \in Seq(Marked) /\ relay.queued \in Nat
    BY Sizes, Counts DEF Marked
  <2>4. Adds(Append(relay.queue, Gone), relay.queued + SizeOf(Gone))
    BY <2>3, AddsAppend DEF Queueing
  <2>5. Adds(relay'.queue, relay'.queued)
    BY <2>2, <2>3, <2>4
  <2>6. \A i \in DOMAIN relay.queue : relay.queue[i] # Gone
    BY <1>2 DEF Queueing
  <2>7. ASSUME NEW i \in DOMAIN relay'.queue, relay'.queue[i] = Gone
        PROVE  i = Len(relay'.queue)
    BY <2>2, <2>3, <2>6, <2>7, AppendProperties
  <2>8. ~tcp'.fin
    BY <1>2 DEF Queueing
  <2> QED
    BY <2>2, <2>5, <2>7, <2>8 DEF Queueing
<1> QED
  BY <1>1, <1>2

\* A frame that comes to the relay is queued, is dropped once it is closing, or is none.
LEMMA RelayTakesCarries ==
  ASSUME PipeOK, Carries, UNCHANGED cast, RelayTakes
  PROVE  Carries'
<1> DEFINE f == Head(up)
<1>1. /\ up # <<>> /\ up' = Tail(up) /\ UNCHANGED browser /\ f \in Marked /\ SizeOf(f) \in Nat
      /\ up \in Seq(Marked)
  BY HeadTailProperties, Sizes DEF RelayTakes, PipeOK
<1>2. ~Direct
  BY <1>1 DEF Carries, Apart
<1>3. PICK m : Adds(up, m) /\ m + relay.queued + relay.written <= browser.sent
  BY DEF Carries, Windowed
<1>4. /\ m \in Nat /\ relay.queued \in Nat /\ relay.written \in Nat /\ browser.sent \in Nat
      /\ relay.queue \in Seq(Marked)
      /\ browser.sent - relay.written <= Window - 1 + MaxFrame
  BY <1>1, <1>2, <1>3, AddsNothing, Counts DEF Carries, Windowed
<1>5. Adds(up', m - SizeOf(f)) /\ SizeOf(f) <= m
  BY <1>1, <1>3, AddsTail
<1>6. ASSUME UNCHANGED <<down, tcp>>, relay'.queued = relay.queued, relay'.written = relay.written
      PROVE  Windowed' /\ Acknowledging'
  <2>1. (m - SizeOf(f)) + relay'.queued + relay'.written <= browser'.sent
    BY <1>1, <1>3, <1>4, <1>5, <1>6
  <2>2. browser'.sent - relay'.written <= Window - 1 + MaxFrame
    BY <1>1, <1>4, <1>6
  <2>3. Windowed'
    BY <1>5, <2>1, <2>2 DEF Windowed
  <2>4. Acknowledging'
    BY <1>1, <1>6 DEF Carries, Acknowledging
  <2> QED
    BY <2>3, <2>4
<1>7. CASE f = Gone
  <2> DEFINE r == [relay EXCEPT !.wsClosed = TRUE]
  <2>1. relay' = EndWriter(r) /\ UNCHANGED <<down, tcp>>
    BY <1>7 DEF RelayTakes
  <2>2. /\ r.queue = relay.queue /\ r.queued = relay.queued /\ r.written = relay.written
        /\ r.ended = relay.ended /\ r.tooLarge = relay.tooLarge /\ r \in Relays
    BY RelayFields DEF PipeOK, Relays
  <2> HIDE DEF r
  <2>3. EndWriter(r).queued = r.queued /\ EndWriter(r).written = r.written
    BY <2>2 DEF EndWriter, Relays
  <2>4. Queueing'
    BY <2>1, <2>2, EndQueues DEF Carries
  <2>5. Apart'
    BY <1>2 DEF Apart, Direct
  <2> QED
    BY <1>6, <2>1, <2>2, <2>3, <2>4, <2>5 DEF Carries
<1>8. CASE f # Gone /\ (relay.wsClosed \/ relay.ended)
  <2>1. UNCHANGED <<relay, down, tcp>>
    BY <1>8 DEF RelayTakes
  <2>2. Apart' /\ Queueing'
    BY <1>2, <2>1 DEF Carries, Apart, Queueing, Direct
  <2> QED
    BY <1>6, <2>1, <2>2 DEF Carries
<1>9. CASE f # Gone /\ ~(relay.wsClosed \/ relay.ended)
  <2>1. f \in Frames /\ SizeOf(f) = f.size /\ f.size \in Nat
    BY <1>1, <1>9, Sizes DEF Marked
  <2>2. ~(relay.queued + f.size > MaxQueued)
    BY <1>3, <1>4, <1>5, <2>1, WindowFits
  <2>3. relay' = [relay EXCEPT !.queue = Append(@, f), !.queued = @ + f.size] /\ UNCHANGED <<down, tcp>>
    BY <1>9, <2>2 DEF RelayTakes
  <2>4. /\ relay'.queue = Append(relay.queue, f) /\ relay'.queued = relay.queued + f.size
        /\ relay'.written = relay.written /\ relay'.ended = relay.ended
        /\ relay'.tooLarge = relay.tooLarge
    BY <2>3 DEF PipeOK, Relays
  <2>5. Queueing'
    <3>1. Adds(relay'.queue, relay'.queued)
      BY <1>1, <1>4, <2>1, <2>4, AddsAppend DEF Carries, Queueing
    <3>2. \A i \in DOMAIN relay.queue : relay.queue[i] # Gone
      BY <1>9 DEF Carries, Queueing
    <3>3. \A i \in DOMAIN relay'.queue : relay'.queue[i] # Gone
      BY <1>1, <1>4, <1>9, <2>4, <3>2, AppendProperties
    <3>4. ~tcp'.fin
      BY <1>9, <2>3 DEF Carries, Queueing
    <3> QED
      BY <2>4, <3>1, <3>3, <3>4 DEF Carries, Queueing
  <2>6. Windowed'
    <3>1. (m - SizeOf(f)) + relay'.queued + relay'.written <= browser'.sent
      BY <1>1, <1>3, <1>4, <2>1, <2>4
    <3>2. browser'.sent - relay'.written <= Window - 1 + MaxFrame
      BY <1>1, <1>4, <2>4
    <3> QED
      BY <1>5, <3>1, <3>2 DEF Windowed
  <2>7. Apart' /\ Acknowledging'
    BY <1>1, <1>2, <2>3, <2>4 DEF Carries, Apart, Acknowledging, Direct
  <2> QED
    BY <2>5, <2>6, <2>7 DEF Carries
<1> QED
  BY <1>7, <1>8, <1>9


\* What goes down to the client acknowledges no more than is written.
LEMMA DownAcknowledges ==
  ASSUME PipeOK, Acknowledging, UNCHANGED browser, relay.written <= relay'.written,
         relay'.written \in Nat, NEW d \in Downs,
         d # Gone /\ d.kind = "ack" => d.n = relay'.written,
         down' = down \/ down' = Append(down, d)
  PROVE  Acknowledging'
<1>1. /\ browser'.acked = browser.acked /\ browser.acked \in Nat /\ relay.written \in Nat
      /\ down \in Seq(Downs) /\ Len(down) \in Nat
  BY LenProperties DEF PipeOK, Browsers, Relays
<1>2. browser'.acked <= relay'.written
  BY <1>1 DEF Acknowledging
<1>3. ASSUME NEW i \in DOMAIN down, down[i] # Gone, down[i].kind = "ack"
      PROVE  down[i].n <= relay'.written
  <2>1. down[i] \in Downs
    BY <1>1, ElementOfSeq
  <2>2. down[i] \in [kind : {"ack"}, n : Nat]
    BY <1>3, <2>1 DEF Downs
  <2>3. down[i].n \in Nat /\ down[i].n <= relay.written
    BY <1>3, <2>2 DEF Acknowledging
  <2> QED
    BY <1>1, <2>3
<1>4. ASSUME NEW i \in DOMAIN down', down'[i] # Gone, down'[i].kind = "ack"
      PROVE  down'[i].n <= relay'.written
  <2>1. CASE down' = down
    BY <1>3, <1>4, <2>1
  <2>2. CASE down' = Append(down, d) /\ i \in DOMAIN down
    <3>1. down'[i] = down[i]
      BY <1>1, <2>2, AppendProperties
    <3> QED
      BY <1>3, <1>4, <2>2, <3>1
  <2>3. CASE down' = Append(down, d) /\ i \notin DOMAIN down
    <3>1. i = Len(down) + 1
      BY <1>1, <2>3, AppendProperties
    <3>2. down'[i] = d
      BY <1>1, <2>3, <3>1, AppendProperties
    <3> QED
      BY <1>4, <3>2
  <2> QED
    BY <2>1, <2>2, <2>3
<1> QED
  BY <1>2, <1>4 DEF Acknowledging

\* A write: the frame leaves the queue and is counted as written, unless the socket is dead.
LEMMA RelayWritesCarries ==
  ASSUME PipeOK, Carries, UNCHANGED cast, RelayWrites
  PROVE  Carries'
<1> DEFINE f == Head(relay.queue)
           r == Wrote(f)
           ack == Acknowledged(r)
<1>1. /\ f \in Frames /\ r \in Relays /\ ack.n = r.written
      /\ r.queue = Tail(relay.queue) /\ r.queued = relay.queued - f.size
      /\ r.ended = (relay.ended \/ tcp.dead) /\ r.tooLarge = relay.tooLarge
      /\ r.written = IF tcp.dead THEN relay.written ELSE relay.written + f.size
      /\ relay' = IF ack.due THEN [r EXCEPT !.acked = ack.n] ELSE r
      /\ down' = IF tcp.dead /\ ~relay.ended THEN CloseWs(relay, down)
                 ELSE IF ack.due THEN Append(down, [kind |-> "ack", n |-> r.written]) ELSE down
      /\ tcp' = IF tcp.dead THEN tcp ELSE [tcp EXCEPT !.in = Append(@, f)]
      /\ UNCHANGED <<browser, up>>
  BY WriteIs
<1>2. relay.queue # <<>>
  BY DEF RelayWrites
<1> HIDE DEF f, r, ack
<1>3. /\ relay'.queue = Tail(relay.queue) /\ relay'.queued = relay.queued - f.size
      /\ relay'.ended = (relay.ended \/ tcp.dead) /\ relay'.tooLarge = relay.tooLarge
      /\ relay'.written = r.written
  BY <1>1 DEF Relays
<1>4. /\ f.size \in Nat /\ SizeOf(f) = f.size
      /\ relay.queue \in Seq(Marked) /\ relay.queued \in Nat /\ relay.written \in Nat
      /\ browser.sent \in Nat /\ Adds(relay.queue, relay.queued)
  BY <1>1, FrameIs, Sizes, Counts DEF Carries, Queueing
<1>5. Adds(Tail(relay.queue), relay.queued - f.size) /\ f.size <= relay.queued
  BY <1>2, <1>4, AddsTail DEF f
<1>6. relay.written <= r.written /\ r.written <= relay.written + f.size /\ r.written \in Nat
  BY <1>1, <1>4
<1>7. ~Direct
  BY <1>2 DEF Carries, Apart
<1>8. Queueing'
  <2>1. Adds(relay'.queue, relay'.queued)
    BY <1>3, <1>5
  <2>2. /\ Len(relay.queue) \in Nat /\ DOMAIN relay.queue = 1..Len(relay.queue)
        /\ Len(relay'.queue) = Len(relay.queue) - 1 /\ DOMAIN relay'.queue = 1..Len(relay'.queue)
        /\ \A i \in 1..Len(relay'.queue) : relay'.queue[i] = relay.queue[i + 1]
    BY <1>2, <1>3, <1>4, HeadTailProperties
  <2>3. ASSUME NEW i \in DOMAIN relay'.queue, relay'.queue[i] = Gone
        PROVE  i = Len(relay'.queue) /\ relay'.ended
    <3>1. i + 1 \in DOMAIN relay.queue /\ relay.queue[i + 1] = Gone
      BY <2>2, <2>3
    <3>2. i + 1 = Len(relay.queue) /\ relay.ended
      BY <3>1 DEF Carries, Queueing
    <3>3. i = Len(relay'.queue)
      BY <2>2, <3>2
    <3>4. relay'.ended
      BY <1>3, <3>2
    <3> QED
      BY <3>3, <3>4
  <2>4. ~tcp.fin
    BY <1>2 DEF Carries, Queueing
  <2>5. ~tcp'.fin
    BY <1>1, <2>4 DEF PipeOK, Sockets
  <2>6. ~relay'.tooLarge
    BY <1>3 DEF Carries, Queueing
  <2> QED
    BY <2>1, <2>3, <2>5, <2>6 DEF Queueing
<1>9. Acknowledging'
  <2>1. [kind |-> "ack", n |-> r.written] \in Downs /\ Gone \in Downs
    BY <1>6 DEF Downs
  <2>2. CASE down' = Append(down, [kind |-> "ack", n |-> r.written])
    BY <1>1, <1>3, <1>6, <2>1, <2>2, DownAcknowledges DEF Carries
  <2>3. CASE down' = down \/ down' = Append(down, Gone)
    BY <1>1, <1>3, <1>6, <2>1, <2>3, DownAcknowledges DEF Carries
  <2> QED
    BY <1>1, <2>2, <2>3 DEF CloseWs
<1>10. Windowed'
  <2>1. PICK m : Adds(up, m) /\ m + relay.queued + relay.written <= browser.sent
    BY DEF Carries, Windowed
  <2>2. m \in Nat
    BY <2>1, AddsNothing DEF PipeOK
  <2>3. m + (relay.queued - f.size) + r.written <= browser.sent
    BY <1>4, <1>5, <1>6, <2>1, <2>2
  <2>4. m + relay'.queued + relay'.written <= browser'.sent
    BY <1>1, <1>3, <2>3
  <2>5. browser.sent - relay.written <= Window - 1 + MaxFrame
    BY <1>7 DEF Carries, Windowed
  <2>6. browser.sent - r.written <= Window - 1 + MaxFrame
    BY <1>4, <1>6, <2>5, WindowFits
  <2>7. browser'.sent - relay'.written <= Window - 1 + MaxFrame
    BY <1>1, <1>3, <2>6
  <2> QED
    BY <1>1, <2>1, <2>4, <2>7 DEF Windowed
<1>11. Apart'
  BY <1>7 DEF Apart, Direct
<1> QED
  BY <1>8, <1>9, <1>10, <1>11 DEF Carries

\* The FIN goes when nothing else is queued.
LEMMA RelayFinsCarries ==
  ASSUME PipeOK, Carries, UNCHANGED cast, RelayFins
  PROVE  Carries'
<1>1. /\ relay.queue # <<>> /\ Head(relay.queue) = Gone
      /\ relay' = [relay EXCEPT !.queue = Tail(@)] /\ UNCHANGED <<browser, up, down>>
  BY DEF RelayFins
<1>2. /\ relay'.queue = Tail(relay.queue) /\ relay'.queued = relay.queued
      /\ relay'.written = relay.written /\ relay'.ended = relay.ended
      /\ relay'.tooLarge = relay.tooLarge
  BY <1>1 DEF PipeOK, Relays
<1>3. /\ relay.queue \in Seq(Marked) /\ relay.queued \in Nat /\ SizeOf(Gone) = 0
      /\ Adds(relay.queue, relay.queued)
  BY Counts, Sizes DEF Carries, Queueing
<1>4. Adds(relay'.queue, relay'.queued)
  <2>1. Adds(Tail(relay.queue), relay.queued - SizeOf(Gone))
    BY <1>1, <1>3, AddsTail
  <2>2. relay.queued - SizeOf(Gone) = relay.queued
    BY <1>3
  <2> QED
    BY <1>2, <2>1, <2>2
<1>5. relay'.queue = <<>> /\ relay.ended
  <2>1. /\ 1 \in DOMAIN relay.queue /\ relay.queue[1] = Gone /\ Len(relay.queue) \in Nat
        /\ Tail(relay.queue) \in Seq(Marked) /\ Len(Tail(relay.queue)) = Len(relay.queue) - 1
    BY <1>1, <1>3, EmptySeq, HeadTailProperties
  <2>2. 1 = Len(relay.queue) /\ relay.ended
    BY <2>1 DEF Carries, Queueing
  <2>3. Len(Tail(relay.queue)) = 0
    BY <2>1, <2>2
  <2> QED
    BY <1>2, <2>1, <2>2, <2>3, EmptySeq
<1>6. Queueing'
  <2>1. ~relay'.tooLarge /\ relay'.ended
    BY <1>2, <1>5 DEF Carries, Queueing
  <2>2. \A i : i \notin DOMAIN relay'.queue
    BY <1>5
  <2> QED
    BY <1>4, <1>5, <2>1, <2>2 DEF Queueing
<1>7. Acknowledging' /\ Windowed'
  BY <1>1, <1>2 DEF Carries, Acknowledging, Windowed, Direct
<1>8. Apart'
  BY <1>1 DEF Carries, Apart, Direct
<1> QED
  BY <1>6, <1>7, <1>8 DEF Carries

\* What is read from the server, and the close of the WebSocket, move no frame of the client's.
LEMMA DownCarries ==
  ASSUME PipeOK, Carries, ~Direct, UNCHANGED <<cast, browser, up>>, Queueing',
         relay'.queued = relay.queued, relay'.written = relay.written,
         NEW d \in Downs, d = Gone \/ d.kind = "data", down' = down \/ down' = Append(down, d)
  PROVE  Carries'
<1>1. relay.written \in Nat
  BY DEF PipeOK, Relays
<1>2. Acknowledging'
  BY <1>1, DownAcknowledges DEF Carries
<1>3. Apart' /\ Windowed'
  BY DEF Carries, Apart, Windowed, Direct
<1> QED
  BY <1>2, <1>3 DEF Carries

\* The relay's loop of reads and its end.
LEMMA RelayReadsCarries ==
  ASSUME PipeOK, Carries, UNCHANGED cast, RelayReads \/ RelayReadEnds \/ RelayEnds
  PROVE  Carries'
<1>1. ~Direct
  BY DEF Carries, Apart, RelayReads, RelayReadEnds, RelayEnds
<1>2. UNCHANGED <<browser, up>> /\ Gone \in Downs
  BY DEF RelayReads, RelayReadEnds, RelayEnds, Downs
<1>3. ASSUME relay' = [relay EXCEPT !.read = "done", !.wsClosed = TRUE],
             down' = CloseWs(relay, down), tcp' = [tcp EXCEPT !.dead = TRUE]
      PROVE  Carries'
  <2>1. /\ relay'.queue = relay.queue /\ relay'.queued = relay.queued
        /\ relay'.written = relay.written /\ relay'.ended = relay.ended
        /\ relay'.tooLarge = relay.tooLarge /\ tcp'.fin = tcp.fin
    BY <1>3 DEF PipeOK, Relays, Sockets
  <2>2. Queueing'
    BY <2>1 DEF Carries, Queueing
  <2>3. down' = down \/ down' = Append(down, Gone)
    BY <1>3 DEF CloseWs
  <2> QED
    BY <1>1, <1>2, <2>1, <2>2, <2>3, DownCarries
<1>4. ASSUME NEW n \in 1..Len(tcp.out),
             tcp' = [tcp EXCEPT !.out = SubSeq(@, n + 1, Len(@))],
             down' = IF relay.wsClosed THEN down
                     ELSE Append(down, [kind |-> "data", syms |-> SubSeq(tcp.out, 1, n)]),
             UNCHANGED relay
      PROVE  Carries'
  <2> DEFINE d == [kind |-> "data", syms |-> SubSeq(tcp.out, 1, n)]
  <2>1. tcp.out \in Seq(Syms) /\ tcp'.fin = tcp.fin
    BY <1>4 DEF PipeOK, Sockets
  <2>2. d \in Downs /\ d.kind = "data"
    BY <2>1, Parts DEF Downs
  <2>3. Queueing'
    BY <1>4, <2>1 DEF Carries, Queueing
  <2>4. down' = down \/ down' = Append(down, d)
    BY <1>4
  <2> HIDE DEF d
  <2> QED
    BY <1>1, <1>2, <1>4, <2>2, <2>3, <2>4, DownCarries
<1>5. ASSUME relay' = [EndWriter(relay) EXCEPT !.read = "draining"], UNCHANGED <<down, tcp>>
      PROVE  Carries'
  <2>1. EndWriter(relay) \in Relays /\ relay \in Relays
    BY RelayFields DEF PipeOK
  <2>2. /\ relay'.queue = EndWriter(relay).queue /\ relay'.queued = EndWriter(relay).queued
        /\ relay'.ended = EndWriter(relay).ended /\ relay'.tooLarge = EndWriter(relay).tooLarge
        /\ relay'.written = EndWriter(relay).written
    BY <1>5, <2>1 DEF Relays
  <2>3. EndWriter(relay).queued = relay.queued /\ EndWriter(relay).written = relay.written
    BY <2>1 DEF EndWriter, Relays
  <2>4. Queueing'
    BY <1>5, <2>1, <2>2, EndQueues DEF Carries
  <2> QED
    BY <1>1, <1>2, <1>5, <2>2, <2>3, <2>4, DownCarries
<1>6. CASE RelayReads
  BY <1>3, <1>4, <1>6 DEF RelayReads, ReadFailed
<1>7. CASE RelayReadEnds
  BY <1>3, <1>5, <1>7 DEF RelayReadEnds, ReadFailed
<1>8. CASE RelayEnds
  BY <1>3, <1>8 DEF RelayEnds
<1> QED
  BY <1>6, <1>7, <1>8

\* A fault loses what was under way and adds nothing.
LEMMA FaultCarries ==
  ASSUME PipeOK, Carries, UNCHANGED cast, WsDrops \/ TcpDies
  PROVE  Carries'
<1>1. CASE TcpDies
  <2>1. tcp'.fin = tcp.fin /\ UNCHANGED <<browser, up, down, relay>>
    BY <1>1 DEF TcpDies, PipeOK, Sockets
  <2> QED
    BY <2>1, CarriesStands
<1>2. CASE WsDrops
  <2>1. ~Direct /\ up' = <<Gone>> /\ down' = <<Gone>> /\ UNCHANGED <<browser, relay, tcp>>
    BY <1>2 DEF WsDrops
  <2>2. Adds(<<Gone>>, 0)
    <3>1. <<>> \in Seq(Marked) /\ Gone \in Marked /\ Append(<<>>, Gone) = <<Gone>>
      BY DEF Marked
    <3>2. Adds(Append(<<>>, Gone), 0 + SizeOf(Gone))
      BY <3>1, AddsNothing, AddsAppend
    <3> QED
      BY <3>1, <3>2, Sizes
  <2>3. Windowed'
    <3>1. PICK m : Adds(up, m) /\ m + relay.queued + relay.written <= browser.sent
      BY DEF Carries, Windowed
    <3>2. m \in Nat /\ relay.queued \in Nat /\ relay.written \in Nat /\ browser.sent \in Nat
      BY <3>1, AddsNothing, Counts DEF PipeOK, Carries
    <3>3. 0 + relay.queued + relay.written <= browser.sent
      BY <3>1, <3>2
    <3> QED
      BY <2>1, <2>2, <3>3 DEF Carries, Windowed, Direct
  <2>4. Acknowledging'
    <3>1. \A i \in DOMAIN down' : down'[i] = Gone
      BY <2>1
    <3> QED
      BY <2>1, <3>1 DEF Carries, Acknowledging
  <2>5. Apart' /\ Queueing'
    BY <2>1 DEF Carries, Apart, Queueing, Direct
  <2> QED
    BY <2>3, <2>4, <2>5 DEF Carries
<1> QED
  BY <1>1, <1>2

\* The client's steps write within the window, read, or end the transport.
LEMMA ClientCarries ==
  ASSUME TypeOK, Carries, Client \/ ReplyTimeout \/ AckStall
  PROVE  Carries'
<1>1. PipeOK
  BY DEF TypeOK
<1>2. CASE Open \/ WriteFails \/ Written \/ Flush \/ ReplyTimeout
  <2>1. UNCHANGED <<cast, transport>>
    BY <1>2 DEF Open, WriteFails, Written, Flush, ReplyTimeout
  <2> QED
    BY <2>1, CarriesStands DEF transport
<1>3. CASE WriteFrame
  <2>1. Head(cl.left) \in Frames
    BY <1>3, HeadTailProperties DEF WriteFrame, TypeOK, Clients
  <2> QED
    BY <1>1, <1>3, <2>1, SendCarries DEF WriteFrame
<1>4. CASE ReadLine
  <2>1. /\ UNCHANGED <<cast, relay, up, down>> /\ tcp'.fin = tcp.fin
        /\ browser'.sent = browser.sent /\ browser'.acked = browser.acked
    BY <1>1, <1>4 DEF ReadLine, transport, PipeOK, Browsers
  <2> QED
    BY <2>1, CarriesStands
<1>5. CASE AckStall \/ Close
  BY <1>1, <1>5, EndCarries DEF AckStall, Close
<1> QED
  BY <1>2, <1>3, <1>4, <1>5 DEF Client

\* The server moves nothing of the relay's.
LEMMA ServerCarries ==
  ASSUME TypeOK, Carries, Server
  PROVE  Carries'
<1>1. UNCHANGED <<cast, relay, up, down, browser>>
  BY DEF Server, ServerGreets, ServerAnswers, ServerReadsMessage, ServerLeaves
<1>2. tcp'.fin = tcp.fin
  <2>2. CASE ServerGreets \/ ServerLeaves
    BY <2>2 DEF ServerGreets, ServerLeaves, TypeOK, PipeOK, Sockets
  <2>3. CASE ServerAnswers
    <3>1. \A syms, mode, over : Answers(syms, mode, over) => tcp'.fin = tcp.fin
      BY DEF Answers, TypeOK, PipeOK, Sockets
    <3> QED
      BY <2>3, <3>1 DEF ServerAnswers
  <2>4. CASE ServerReadsMessage
    <3> DEFINE said(syms, really, mode, over) ==
                 /\ sv' = [sv EXCEPT !.mode = mode, !.taken = Took(really), !.lines = <<>>]
                 /\ tcp' = [tcp EXCEPT !.in = Tail(@), !.out = @ \o syms, !.over = over]
    <3>1. ASSUME NEW syms, NEW really, NEW mode, NEW over, said(syms, really, mode, over)
          PROVE  tcp'.fin = tcp.fin
      BY <3>1 DEF TypeOK, PipeOK, Sockets
    <3>2. CASE ~EndsMessage(Head(tcp.in))
      BY <2>4, <3>2 DEF ServerReadsMessage, TypeOK, PipeOK, Sockets
    <3>3. CASE EndsMessage(Head(tcp.in))
      <4>1. \/ said(Reply(250, "answer"), TRUE, "cmd", FALSE)
            \/ \E code \in {450, 550} : said(Reply(code, "answer"), FALSE, "cmd", FALSE)
            \/ \E syms \in {Reply(354, "answer"), <<Junk>>, <<>>}, really, over \in BOOLEAN :
                 said(syms, really, IF over THEN "gone" ELSE "cmd", over)
        BY <2>4, <3>3 DEF ServerReadsMessage
      <4> HIDE DEF said
      <4> QED
        BY <3>1, <4>1
    <3> QED
      BY <3>2, <3>3
  <2> QED
    BY <2>2, <2>3, <2>4 DEF Server
<1> QED
  BY <1>1, <1>2, CarriesStands

-----------------------------------------------------------------------------
(* The theorems. *)

\* Nothing is under way at the start.
LEMMA InvInit == Init => Inv
<1> SUFFICES ASSUME Init PROVE Inv
  OBVIOUS
<1>1. TypeOK
  BY TypeInit
<1>2. Apart
  BY DEF Init, TransportInit, Apart
<1>3. Queueing
  BY AddsNothing DEF Init, TransportInit, Queueing
<1>4. Acknowledging
  BY DEF Init, TransportInit, Acknowledging
<1>5. Windowed
  <2>1. 0 + 0 + 0 <= 0 /\ 0 - 0 <= Window - 1 + MaxFrame
    BY WindowFits
  <2> QED
    BY <2>1, AddsNothing DEF Init, TransportInit, Windowed
<1> QED
  BY <1>1, <1>2, <1>3, <1>4, <1>5 DEF Inv, Carries

\* Every step keeps the invariant.
LEMMA InvStep == Inv /\ [Next]_vars => Inv'
<1> SUFFICES ASSUME Inv, [Next]_vars PROVE Inv'
  OBVIOUS
<1>1. TypeOK'
  BY TypeStep DEF Inv
<1>2. TypeOK /\ PipeOK /\ Carries
  BY DEF Inv, TypeOK
<1>3. CASE Client \/ ReplyTimeout \/ AckStall
  BY <1>1, <1>2, <1>3, ClientCarries DEF Inv
<1>4. CASE Server
  BY <1>1, <1>2, <1>4, ServerCarries DEF Inv
<1>5. CASE Transport
  BY <1>1, <1>2, <1>5, TakeCarries, RelayTakesCarries, RelayWritesCarries, RelayFinsCarries,
     RelayReadsCarries DEF Transport, Moves, Inv
<1>6. CASE Fault
  BY <1>1, <1>2, <1>6, FaultCarries DEF Fault, Inv
<1>7. CASE UNCHANGED vars
  BY <1>1, <1>2, <1>7, CarriesStands DEF vars, transport, Inv
<1> QED
  BY <1>3, <1>4, <1>5, <1>6, <1>7 DEF Next, Rest

\* The inductive invariant holds of every submission.
THEOREM Invariance == Spec => []Inv
BY InvInit, InvStep, PTL DEF Spec

\* Whatever the network and the server do, every part of a submission holds what it may.
THEOREM SubmissionTypeCorrect == Spec => []TypeOK
<1>1. Inv => TypeOK
  BY DEF Inv
<1> QED
  BY <1>1, Invariance, PTL

\* The relay's queue never overflows, and the FIN goes behind the last byte of it: for every
\* window and frame size that WindowFits allows, however slow the server and whatever is lost.
THEOREM RelayCarries == Spec => []RelayCarriesAll
<1>1. Inv => RelayCarriesAll
  <2> SUFFICES ASSUME Inv PROVE RelayCarriesAll
    OBVIOUS
  <2>1. PipeOK /\ Carries
    BY DEF Inv, TypeOK
  <2>2. /\ relay.queued \in Nat /\ relay.written \in Nat /\ browser.sent \in Nat
        /\ Adds(relay.queue, relay.queued)
    BY <2>1, Counts DEF Carries, Queueing
  <2>3. relay.queue = <<>> => relay.queued = 0
    BY <2>2, AddsNothing
  <2>4. relay.queued <= MaxQueued
    <3>1. CASE Direct
      BY <2>1, <2>3, <3>1, WindowFits DEF Carries, Apart
    <3>2. CASE ~Direct
      <4>1. PICK m : Adds(up, m) /\ m + relay.queued + relay.written <= browser.sent
        BY <2>1 DEF Carries, Windowed
      <4>2. m \in Nat
        BY <2>1, <4>1, AddsNothing DEF PipeOK
      <4>3. browser.sent - relay.written <= Window - 1 + MaxFrame
        BY <2>1, <3>2 DEF Carries, Windowed
      <4> QED
        BY <2>2, <4>1, <4>2, <4>3, WindowFits
    <3> QED
      BY <3>1, <3>2
  <2>5. ~relay.tooLarge /\ (tcp.fin => relay.queued = 0)
    BY <2>1, <2>3 DEF Carries, Queueing
  <2> QED
    BY <2>4, <2>5 DEF RelayCarriesAll, NoUploadIsCut, QueuedBytesGoFirst
<1> QED
  BY <1>1, Invariance, PTL

-----------------------------------------------------------------------------
(***************************************************************************)
(* No reply is taken for the answer to another line: for every message,    *)
(* every server and every way the network fails.                           *)
(***************************************************************************)

-----------------------------------------------------------------------------
(* The invariant: what may be under way while the client waits. *)

\* The client still speaks: it has neither begun to close, nor lost its end with a line to write.
Live ==
  /\ cl.pc \notin {"bye", "closed"}
  /\ ~(browser.ended /\ cl.sub = "write" /\ cl.left # <<>>)

\* A frame that the server answers.
Ends(f) == f # Gone /\ ("cmd" \in DOMAIN f \/ f.line = Dot)

OnlyGone(s) == \A i \in DOMAIN s : s[i] = Gone
HasEnd(s)   == \E i \in DOMAIN s : Ends(s[i])
EndLast(s)  == \A i, j \in DOMAIN s : Ends(s[i]) /\ i < j => s[j] = Gone

\* The frames that may be under way where the client is: of a message that is being written
\* only its lines, and otherwise the line itself, once it is written.
Fit(c) ==
  {f \in Frames : IF c.pc \in {"body", "dot", "answer"}
                  THEN "line" \in DOMAIN f /\ (f.line = Dot => c.pc # "body" /\ c.left = <<>>)
                  ELSE "cmd" \in DOMAIN f /\ f.cmd = c.pc /\ c.left = <<>>}

Framed ==
  /\ tcp.in \in Seq(Fit(cl))
  /\ relay.queue \in Seq(Fit(cl) \cup {Gone}) /\ up \in Seq(Fit(cl) \cup {Gone})

Quieted == OnlyGone(tcp.in) /\ OnlyGone(relay.queue) /\ OnlyGone(up)

\* A frame that is answered is the last under way.
InTurn ==
  /\ EndLast(tcp.in) /\ EndLast(relay.queue) /\ EndLast(up)
  /\ HasEnd(tcp.in) => OnlyGone(relay.queue) /\ OnlyGone(up)
  /\ HasEnd(relay.queue) => OnlyGone(up)

\* The end of a reply, and the lines that may be of the reply the client waits for.
Final(y) == y = Junk \/ ~y.more
Awaited  == IF cl.pc = "dot" THEN "answer" ELSE cl.pc
Heard(to, mode) ==
  {y \in Syms : y # Junk => /\ y.to = to /\ (y.more => y.code = 250)
                            /\ to = "data" /\ y.code = 354 => mode \in {"data", "gone"}}

HasFinal(s)  == \E i \in DOMAIN s : Final(s[i])
FinalLast(s) == \A i \in DOMAIN s : Final(s[i]) => i = Len(s)

\* The same of a reply in pieces.
Nothing(ps)   == \A i \in DOMAIN ps : ps[i] = <<>>
SomeFinal(ps) == \E i \in DOMAIN ps : HasFinal(ps[i])
Pieced(ps) ==
  /\ \A i \in DOMAIN ps : FinalLast(ps[i])
  /\ \A i, j \in DOMAIN ps : HasFinal(ps[i]) /\ i < j => ps[j] = <<>>

\* What a frame for the client brings of a reply.
Brings(d) == IF d # Gone /\ d.kind = "data" THEN d.syms ELSE <<>>
Data == [i \in DOMAIN down |-> Brings(down[i])]

Silent == cl.buf = <<>> /\ Nothing(browser.chunks) /\ Nothing(Data) /\ tcp.out = <<>>

\* What is on its way is of the reply to the client's line, and the end of it is the last.
Answering ==
  /\ cl.buf \in Seq(Heard(Awaited, sv.mode)) /\ browser.chunks \in Seq(Seq(Heard(Awaited, sv.mode)))
  /\ Data \in Seq(Seq(Heard(Awaited, sv.mode))) /\ tcp.out \in Seq(Heard(Awaited, sv.mode))

Ending ==
  /\ FinalLast(cl.buf) /\ Pieced(browser.chunks) /\ Pieced(Data) /\ FinalLast(tcp.out)
  /\ HasFinal(cl.buf) => Nothing(browser.chunks) /\ Nothing(Data) /\ tcp.out = <<>>
  /\ SomeFinal(browser.chunks) => Nothing(Data) /\ tcp.out = <<>>
  /\ SomeFinal(Data) => tcp.out = <<>>

\* A client that has written its line, and is not in the middle of a message.
Listens == cl.left = <<>> /\ cl.sub # "flush" /\ cl.pc \notin {"open", "body"}

\* Where the server is: it has read the 354 as the client has, and greets first.
Following ==
  /\ sv.mode = "start" => cl.pc \in {"open", "greeting"} /\ Silent
  /\ cl.pc \in {"body", "dot", "answer"} /\ sv.mode \notin {"data", "gone"} => Quieted /\ Listens

BodyLine == {f \in Frames : "line" \in DOMAIN f /\ f.line # Dot}
DotFrame == [line |-> Dot, size |-> 1]

\* Where the client is, and what it may still have to write there.
Stepping ==
  /\ cl.code \in {0, 250}
  /\ cl.abandoned => cl.pc \in {"bye", "closed"}
  /\ cl.sub = "reply" => cl.left = <<>> /\ (cl.pc \in DOMAIN Takes \/ cl.pc = "answer")
  /\ cl.sub = "flush" => cl.left = <<>> /\ cl.pc = "body"
  /\ cl.pc \in {"bye", "closed"} => cl.sub = "write"
  /\ cl.left # <<>> => \/ cl.pc \in Commands /\ cl.left = <<Line(cl.pc)>>
                       \/ cl.pc = "body" /\ cl.left \in Seq(BodyLine)
                       \/ cl.pc = "dot" /\ cl.left = <<DotFrame>>

Speaking ==
  /\ Framed /\ InTurn /\ Answering /\ Ending /\ Following
  /\ ~Silent => Listens /\ Quieted

Pairing == cl.paired /\ Stepping /\ (Live => Speaking)

-----------------------------------------------------------------------------
(* Frames under way. *)

\* s2 holds no more than s1: its frames that are answered come last, and it has one only if s1 has.
Fewer(s1, s2) ==
  /\ EndLast(s1) => EndLast(s2)
  /\ HasEnd(s2) => HasEnd(s1)
  /\ OnlyGone(s1) => OnlyGone(s2)

\* What is taken off the front.
LEMMA FewerTail ==
  ASSUME NEW S, NEW s \in Seq(S), s # <<>>
  PROVE  /\ Fewer(s, Tail(s)) /\ Tail(s) \in Seq(S) /\ Head(s) \in S
         /\ EndLast(s) /\ Ends(Head(s)) => OnlyGone(Tail(s))
         /\ Ends(Head(s)) => HasEnd(s)
<1>1. /\ Len(s) \in Nat /\ Len(s) >= 1 /\ DOMAIN s = 1..Len(s) /\ Head(s) = s[1] /\ Head(s) \in S
      /\ Tail(s) \in Seq(S) /\ Len(Tail(s)) = Len(s) - 1 /\ DOMAIN Tail(s) = 1..Len(Tail(s))
      /\ \A i \in 1..Len(Tail(s)) : Tail(s)[i] = s[i + 1]
  BY EmptySeq, HeadTailProperties, ElementOfSeq
<1>2. /\ 1 \in DOMAIN s
      /\ \A i \in DOMAIN Tail(s) : i + 1 \in DOMAIN s /\ 1 < i + 1 /\ Tail(s)[i] = s[i + 1]
      /\ \A i, j \in DOMAIN Tail(s) : i < j => i + 1 < j + 1
  BY <1>1
<1>3. EndLast(s) => EndLast(Tail(s))
  BY <1>2 DEF EndLast
<1>4. HasEnd(Tail(s)) => HasEnd(s)
  BY <1>2 DEF HasEnd
<1>5. OnlyGone(s) => OnlyGone(Tail(s))
  BY <1>2 DEF OnlyGone
<1>6. EndLast(s) /\ Ends(Head(s)) => OnlyGone(Tail(s))
  BY <1>1, <1>2 DEF EndLast, OnlyGone
<1>7. Ends(Head(s)) => HasEnd(s)
  BY <1>1, <1>2 DEF HasEnd
<1> QED
  BY <1>1, <1>3, <1>4, <1>5, <1>6, <1>7 DEF Fewer

\* What is put behind.
LEMMA EndsAppend ==
  ASSUME NEW S, NEW s \in Seq(S), NEW f \in S
  PROVE  /\ Append(s, f) \in Seq(S)
         /\ ~HasEnd(s) => EndLast(Append(s, f))
         /\ HasEnd(Append(s, f)) => HasEnd(s) \/ Ends(f)
         /\ f = Gone => Fewer(s, Append(s, f))
<1> DEFINE t == Append(s, f)
<1>1. /\ t \in Seq(S) /\ Len(s) \in Nat /\ DOMAIN s = 1..Len(s) /\ DOMAIN t = 1..(Len(s) + 1)
      /\ \A i \in DOMAIN s : i \in DOMAIN t /\ t[i] = s[i]
      /\ t[Len(s) + 1] = f
  BY AppendProperties, LenProperties
<1> HIDE DEF t
<1>2. /\ \A i \in DOMAIN t : i \in DOMAIN s \/ (i = Len(s) + 1 /\ t[i] = f)
      /\ \A i, j \in DOMAIN t : i < j => i \in DOMAIN s
  BY <1>1
<1>3. ~HasEnd(s) => EndLast(t)
  BY <1>1, <1>2 DEF HasEnd, EndLast
<1>4. HasEnd(t) => HasEnd(s) \/ Ends(f)
  BY <1>1, <1>2 DEF HasEnd
<1>5. f = Gone => Fewer(s, t)
  <2> SUFFICES ASSUME f = Gone PROVE Fewer(s, t)
    OBVIOUS
  <2>1. EndLast(s) => EndLast(t)
    BY <1>1, <1>2 DEF EndLast
  <2>2. HasEnd(t) => HasEnd(s)
    BY <1>4 DEF Ends
  <2>3. OnlyGone(s) => OnlyGone(t)
    BY <1>1, <1>2 DEF OnlyGone
  <2> QED
    BY <2>1, <2>2, <2>3 DEF Fewer
<1> QED
  BY <1>1, <1>3, <1>4, <1>5 DEF t

\* Nothing but marks holds no frame that is answered, and marks are nothing more.
LEMMA Marks ==
  /\ \A s : OnlyGone(s) => ~HasEnd(s) /\ EndLast(s)
  /\ \A s : Fewer(s, s) /\ Fewer(s, <<Gone>>) /\ Fewer(s, <<>>)
<1>1. \A s : OnlyGone(s) => ~HasEnd(s) /\ EndLast(s)
  BY DEF OnlyGone, HasEnd, EndLast, Ends
<1>2. OnlyGone(<<Gone>>) /\ OnlyGone(<<>>)
  BY DEF OnlyGone
<1> QED
  BY <1>1, <1>2 DEF Fewer

\* Each of the three pipes may lose frames from its front, and gain marks.
LEMMA FewerInTurn ==
  ASSUME InTurn, Fewer(tcp.in, tcp'.in), Fewer(relay.queue, relay'.queue), Fewer(up, up')
  PROVE  InTurn' /\ (Quieted => Quieted')
BY DEF InTurn, Quieted, Fewer

-----------------------------------------------------------------------------
(* Replies on their way. *)

\* What is left of a reply after its first line.
LEMMA FinalTail ==
  ASSUME NEW S, NEW s \in Seq(S), s # <<>>, FinalLast(s)
  PROVE  /\ FinalLast(Tail(s)) /\ (HasFinal(Tail(s)) => HasFinal(s))
         /\ Final(Head(s)) => Tail(s) = <<>> /\ HasFinal(s)
         /\ Head(s) \in S /\ Tail(s) \in Seq(S)
<1>1. /\ Len(s) \in Nat /\ Len(s) >= 1 /\ DOMAIN s = 1..Len(s) /\ Head(s) = s[1] /\ Head(s) \in S
      /\ Tail(s) \in Seq(S) /\ Len(Tail(s)) = Len(s) - 1 /\ DOMAIN Tail(s) = 1..Len(Tail(s))
      /\ \A i \in 1..Len(Tail(s)) : Tail(s)[i] = s[i + 1]
  BY EmptySeq, HeadTailProperties, ElementOfSeq
<1>2. /\ 1 \in DOMAIN s
      /\ \A i \in DOMAIN Tail(s) : i + 1 \in DOMAIN s /\ Tail(s)[i] = s[i + 1]
                                   /\ (i + 1 = Len(s) => i = Len(Tail(s)))
  BY <1>1
<1>3. FinalLast(Tail(s))
  BY <1>2 DEF FinalLast
<1>4. HasFinal(Tail(s)) => HasFinal(s)
  BY <1>2 DEF HasFinal
<1>5. Final(Head(s)) => Tail(s) = <<>> /\ HasFinal(s)
  <2> SUFFICES ASSUME Final(Head(s)) PROVE Tail(s) = <<>> /\ HasFinal(s)
    OBVIOUS
  <2>1. HasFinal(s)
    BY <1>1, <1>2 DEF HasFinal
  <2>2. 1 = Len(s)
    BY <1>1, <1>2 DEF FinalLast
  <2>3. Len(Tail(s)) = Len(s) - 1 /\ Tail(s) \in Seq(S)
    BY <1>1
  <2>4. Len(Tail(s)) = 0
    BY <2>2, <2>3
  <2> QED
    BY <2>1, <2>3, <2>4, EmptySeq
<1> QED
  BY <1>1, <1>3, <1>4, <1>5

\* A reply cut in two: the end is in one of the parts, and the last of it.
LEMMA FinalParts ==
  ASSUME NEW S, NEW s \in Seq(S), FinalLast(s), NEW n \in 1..Len(s)
  PROVE  LET first == SubSeq(s, 1, n)
             rest == SubSeq(s, n + 1, Len(s)) IN
         /\ first \in Seq(S) /\ rest \in Seq(S) /\ first # <<>>
         /\ FinalLast(first) /\ FinalLast(rest)
         /\ HasFinal(first) => HasFinal(s) /\ rest = <<>>
         /\ HasFinal(rest) => HasFinal(s)
<1> DEFINE first == SubSeq(s, 1, n)
           rest == SubSeq(s, n + 1, Len(s))
<1>1. first \in Seq(S) /\ rest \in Seq(S)
  BY Parts
<1>2. /\ n \in Nat /\ Len(s) \in Nat /\ n >= 1 /\ n <= Len(s) /\ DOMAIN s = 1..Len(s)
      /\ \A i \in 1..Len(s) : s[i] \in S
  BY ElementOfSeq, LenProperties
<1>3. /\ Len(first) = n /\ DOMAIN first = 1..n
      /\ \A i \in 1..n : i \in 1..Len(s) /\ first[i] = s[i]
  <2>1. \A i \in 1..n : i \in 1..Len(s) /\ s[i] \in S
    BY <1>2
  <2>2. Len(first) = n - 1 + 1 /\ \A i \in 1..(n - 1 + 1) : first[i] = s[1 + i - 1]
    BY <1>2, <2>1, SubSeqProperties
  <2>3. n - 1 + 1 = n /\ \A i \in 1..n : 1 + i - 1 = i
    BY <1>2
  <2>4. DOMAIN first = 1..Len(first)
    BY <1>1, LenProperties
  <2> QED
    BY <2>1, <2>2, <2>3, <2>4
<1>4. /\ Len(rest) = Len(s) - n /\ DOMAIN rest = 1..(Len(s) - n)
      /\ \A i \in 1..(Len(s) - n) : n + i \in 1..Len(s) /\ rest[i] = s[n + i]
  <2>1. n + 1 \in Int /\ Len(s) \in Int /\ \A i \in (n + 1)..Len(s) : s[i] \in S
    BY <1>2
  <2>2. /\ Len(rest) = (IF n + 1 <= Len(s) THEN Len(s) - (n + 1) + 1 ELSE 0)
        /\ \A i \in 1..(Len(s) - (n + 1) + 1) : rest[i] = s[(n + 1) + i - 1]
    BY <2>1, SubSeqProperties
  <2>3. DOMAIN rest = 1..Len(rest)
    BY <1>1, LenProperties
  <2>4. \A k, l \in Nat : k <= l =>
          /\ l - (k + 1) + 1 = l - k
          /\ (IF k + 1 <= l THEN l - (k + 1) + 1 ELSE 0) = l - k
          /\ \A i \in 1..(l - k) : (k + 1) + i - 1 = k + i /\ k + i \in 1..l
    OBVIOUS
  <2>5. /\ Len(s) - (n + 1) + 1 = Len(s) - n
        /\ (IF n + 1 <= Len(s) THEN Len(s) - (n + 1) + 1 ELSE 0) = Len(s) - n
        /\ \A i \in 1..(Len(s) - n) : (n + 1) + i - 1 = n + i /\ n + i \in 1..Len(s)
    BY <1>2, <2>4
  <2> QED
    BY <2>2, <2>3, <2>5
<1> HIDE DEF first, rest
<1>5. \A i \in DOMAIN first : i \in DOMAIN s /\ first[i] = s[i] /\ i <= n /\ i \in Nat
  BY <1>2, <1>3
<1>6. \A i \in DOMAIN rest : n + i \in DOMAIN s /\ rest[i] = s[n + i] /\ (n + i = Len(s) => i = Len(rest))
  BY <1>2, <1>4
<1>7. FinalLast(first)
  <2>1. \A i \in DOMAIN first : i = Len(s) => i = Len(first)
    BY <1>2, <1>3, <1>5
  <2> QED
    BY <1>5, <2>1 DEF FinalLast
<1>8. FinalLast(rest)
  BY <1>6 DEF FinalLast
<1>9. HasFinal(first) => HasFinal(s) /\ rest = <<>>
  <2> SUFFICES ASSUME HasFinal(first) PROVE HasFinal(s) /\ rest = <<>>
    OBVIOUS
  <2>1. PICK i \in DOMAIN first : Final(first[i])
    BY DEF HasFinal
  <2>2. i \in DOMAIN s /\ Final(s[i])
    BY <1>5, <2>1
  <2>3. i = Len(s)
    BY <2>2 DEF FinalLast
  <2>4. Len(rest) = 0
    <3>1. i <= n /\ i \in Nat /\ Len(rest) = Len(s) - n
      BY <1>4, <1>5, <2>1
    <3>2. n = Len(s)
      <4>1. \A k, l \in Nat : l <= k /\ k <= l => k = l
        OBVIOUS
      <4>2. Len(s) <= n /\ n <= Len(s) /\ n \in Nat /\ Len(s) \in Nat
        BY <1>2, <2>3, <3>1
      <4> QED
        BY <4>1, <4>2
    <3> QED
      BY <1>2, <3>1, <3>2
  <2>5. rest = <<>>
    BY <1>1, <2>4, EmptySeq DEF rest
  <2> QED
    BY <2>2, <2>5 DEF HasFinal
<1>10. HasFinal(rest) => HasFinal(s)
  BY <1>6 DEF HasFinal
<1>11. first # <<>>
  BY <1>2, <1>3
<1> QED
  BY <1>1, <1>7, <1>8, <1>9, <1>10, <1>11 DEF first, rest

\* The first piece of a reply, and those behind it.
LEMMA PieceTail ==
  ASSUME NEW S, NEW ps \in Seq(S), ps # <<>>, Pieced(ps)
  PROVE  /\ Tail(ps) \in Seq(S) /\ Head(ps) \in S
         /\ Pieced(Tail(ps)) /\ FinalLast(Head(ps))
         /\ HasFinal(Head(ps)) => Nothing(Tail(ps)) /\ SomeFinal(ps)
         /\ SomeFinal(Tail(ps)) => SomeFinal(ps)
         /\ Nothing(ps) => Nothing(Tail(ps)) /\ Head(ps) = <<>>
<1>1. /\ Len(ps) \in Nat /\ Len(ps) >= 1 /\ DOMAIN ps = 1..Len(ps) /\ Head(ps) = ps[1] /\ Head(ps) \in S
      /\ Tail(ps) \in Seq(S) /\ Len(Tail(ps)) = Len(ps) - 1 /\ DOMAIN Tail(ps) = 1..Len(Tail(ps))
      /\ \A i \in 1..Len(Tail(ps)) : Tail(ps)[i] = ps[i + 1]
  BY EmptySeq, HeadTailProperties, ElementOfSeq
<1>2. /\ 1 \in DOMAIN ps
      /\ \A i \in DOMAIN Tail(ps) : i + 1 \in DOMAIN ps /\ Tail(ps)[i] = ps[i + 1] /\ 1 < i + 1
      /\ \A i, j \in DOMAIN Tail(ps) : i < j => i + 1 < j + 1
  BY <1>1
<1>3. Pieced(Tail(ps))
  BY <1>2 DEF Pieced
<1>4. FinalLast(Head(ps)) /\ (HasFinal(Head(ps)) => Nothing(Tail(ps)) /\ SomeFinal(ps))
  BY <1>1, <1>2 DEF Pieced, Nothing, SomeFinal
<1>5. SomeFinal(Tail(ps)) => SomeFinal(ps)
  BY <1>2 DEF SomeFinal
<1>6. Nothing(ps) => Nothing(Tail(ps)) /\ Head(ps) = <<>>
  BY <1>1, <1>2 DEF Nothing
<1> QED
  BY <1>1, <1>3, <1>4, <1>5, <1>6

\* A piece that comes behind the others.
LEMMA PieceAppend ==
  ASSUME NEW S, NEW ps \in Seq(S), NEW p \in S
  PROVE  /\ Append(ps, p) \in Seq(S)
         /\ Pieced(ps) /\ FinalLast(p) /\ (SomeFinal(ps) => p = <<>>) => Pieced(Append(ps, p))
         /\ SomeFinal(Append(ps, p)) => SomeFinal(ps) \/ HasFinal(p)
         /\ Nothing(ps) /\ p = <<>> => Nothing(Append(ps, p))
<1> DEFINE qs == Append(ps, p)
<1>1. /\ qs \in Seq(S) /\ Len(ps) \in Nat /\ DOMAIN ps = 1..Len(ps) /\ DOMAIN qs = 1..(Len(ps) + 1)
      /\ \A i \in DOMAIN ps : i \in DOMAIN qs /\ qs[i] = ps[i]
      /\ qs[Len(ps) + 1] = p
  BY AppendProperties, LenProperties
<1> HIDE DEF qs
<1>2. /\ \A i \in DOMAIN qs : i \in DOMAIN ps \/ (i = Len(ps) + 1 /\ qs[i] = p)
      /\ \A i, j \in DOMAIN qs : i < j => i \in DOMAIN ps
  BY <1>1
<1>3. ASSUME Pieced(ps), FinalLast(p), SomeFinal(ps) => p = <<>>
      PROVE  Pieced(qs)
  <2>1. \A i \in DOMAIN qs : FinalLast(qs[i])
    BY <1>1, <1>2, <1>3 DEF Pieced
  <2>2. ASSUME NEW i \in DOMAIN qs, NEW j \in DOMAIN qs, HasFinal(qs[i]), i < j
        PROVE  qs[j] = <<>>
    <3>1. i \in DOMAIN ps /\ HasFinal(ps[i])
      BY <1>1, <1>2, <2>2
    <3>2. CASE j \in DOMAIN ps
      BY <1>1, <1>3, <2>2, <3>1, <3>2 DEF Pieced
    <3>3. CASE j \notin DOMAIN ps
      BY <1>2, <1>3, <3>1, <3>3 DEF SomeFinal
    <3> QED
      BY <3>2, <3>3
  <2> QED
    BY <2>1, <2>2 DEF Pieced
<1>4. SomeFinal(qs) => SomeFinal(ps) \/ HasFinal(p)
  BY <1>1, <1>2 DEF SomeFinal
<1>5. Nothing(ps) /\ p = <<>> => Nothing(qs)
  BY <1>1, <1>2 DEF Nothing
<1> QED
  BY <1>1, <1>3, <1>4, <1>5 DEF qs

\* Nothing has no end in it.
LEMMA NoReply ==
  /\ ~HasFinal(<<>>) /\ FinalLast(<<>>) /\ Nothing(<<>>) /\ Pieced(<<>>)
  /\ \A ps : Nothing(ps) => ~SomeFinal(ps) /\ Pieced(ps)
<1>1. ~HasFinal(<<>>) /\ FinalLast(<<>>) /\ Nothing(<<>>) /\ Pieced(<<>>)
  BY DEF HasFinal, FinalLast, Nothing, Pieced
<1>2. \A ps : Nothing(ps) => ~SomeFinal(ps) /\ Pieced(ps)
  BY <1>1 DEF Nothing, SomeFinal, Pieced
<1> QED
  BY <1>1, <1>2

\* The pieces on their way down are as many as the frames.
LEMMA DataSeq ==
  ASSUME NEW ds \in Seq(Downs)
  PROVE  /\ \A d \in Downs : Brings(d) \in Seq(Syms)
         /\ [i \in DOMAIN ds |-> Brings(ds[i])] \in Seq(Seq(Syms))
         /\ Len([i \in DOMAIN ds |-> Brings(ds[i])]) = Len(ds)
<1>1. \A d \in Downs : Brings(d) \in Seq(Syms)
  BY DEF Brings, Downs
<1>2. Len(ds) \in Nat /\ DOMAIN ds = 1..Len(ds) /\ \A i \in 1..Len(ds) : ds[i] \in Downs
  BY LenProperties, ElementOfSeq
<1> DEFINE t == [i \in DOMAIN ds |-> Brings(ds[i])]
<1>3. t \in [1..Len(ds) -> Seq(Syms)]
  BY <1>1, <1>2
<1>4. t \in Seq(Seq(Syms))
  BY <1>2, <1>3
<1>5. Len(t) = Len(ds)
  BY <1>2, <1>3, <1>4, LenProperties
<1> QED
  BY <1>1, <1>4, <1>5

\* What comes on the way down, and what is taken.
LEMMA DataIs ==
  ASSUME down \in Seq(Downs)
  PROVE  /\ Data \in Seq(Seq(Syms)) /\ \A d \in Downs : Brings(d) \in Seq(Syms)
         /\ \A d \in Downs : down' = Append(down, d) => Data' = Append(Data, Brings(d))
         /\ down # <<>> /\ down' = Tail(down) => /\ Data # <<>> /\ Data' = Tail(Data)
                                                 /\ Head(Data) = Brings(Head(down))
         /\ down = <<>> => Data = <<>>
         /\ Brings(Gone) = <<>> /\ \A n \in Nat : Brings([kind |-> "ack", n |-> n]) = <<>>
<1>1. \A d \in Downs : Brings(d) \in Seq(Syms)
  BY DataSeq
<1>2. Brings(Gone) = <<>> /\ \A n \in Nat : Brings([kind |-> "ack", n |-> n]) = <<>>
  BY DEF Brings
<1>3. Len(down) \in Nat /\ DOMAIN down = 1..Len(down) /\ \A i \in 1..Len(down) : down[i] \in Downs
  BY LenProperties, ElementOfSeq
<1>4. /\ Data \in Seq(Seq(Syms)) /\ Len(Data) = Len(down) /\ DOMAIN Data = 1..Len(down)
      /\ \A i \in 1..Len(down) : Data[i] = Brings(down[i])
  BY <1>3, DataSeq DEF Data
<1>8. down' \in Seq(Downs) => Data' \in Seq(Seq(Syms)) /\ Len(Data') = Len(down')
  <2>1. Data' = [i \in DOMAIN down' |-> Brings(down'[i])]
    BY DEF Data, Brings
  <2> QED
    BY <2>1, DataSeq
<1>5. ASSUME NEW d \in Downs, down' = Append(down, d)
      PROVE  Data' = Append(Data, Brings(d))
  <2>1. /\ down' \in Seq(Downs) /\ DOMAIN down' = 1..(Len(down) + 1) /\ Len(down') = Len(down) + 1
        /\ \A i \in 1..Len(down) : down'[i] = down[i]
        /\ down'[Len(down) + 1] = d
    BY <1>3, <1>5, AppendProperties
  <2> DEFINE t == Append(Data, Brings(d))
  <2>2. /\ t \in Seq(Seq(Syms)) /\ Len(t) = Len(down) + 1
        /\ \A i \in 1..Len(down) : t[i] = Data[i]
        /\ t[Len(down) + 1] = Brings(d)
    BY <1>1, <1>4, AppendProperties
  <2>3. DOMAIN t = 1..(Len(down) + 1)
    BY <2>2, LenProperties
  <2>4. /\ DOMAIN Data' = DOMAIN down' /\ \A i \in DOMAIN down' : Data'[i] = Brings(down'[i])
    BY DEF Data, Brings
  <2> HIDE DEF t
  <2>6. \A i \in 1..(Len(down) + 1) : t[i] = Brings(down'[i])
    <3>1. \A i \in 1..(Len(down) + 1) : i \in 1..Len(down) \/ i = Len(down) + 1
      BY <1>3
    <3> QED
      BY <1>4, <2>1, <2>2, <3>1
  <2>7. Data' \in Seq(Seq(Syms)) /\ Len(Data') = Len(down) + 1
    BY <1>1, <2>1, <1>8
  <2>8. \A i \in 1..Len(Data') : Data'[i] = t[i]
    BY <2>1, <2>4, <2>6, <2>7
  <2>9. Data' = t
    BY <2>2, <2>7, <2>8, SeqEqual
  <2> QED
    BY <2>9 DEF t
<1>6. ASSUME down # <<>>, down' = Tail(down)
      PROVE  Data # <<>> /\ Data' = Tail(Data) /\ Head(Data) = Brings(Head(down))
  <2>1. /\ Len(down) >= 1 /\ down' \in Seq(Downs) /\ Len(down') = Len(down) - 1 /\ DOMAIN down' = 1..(Len(down) - 1)
        /\ \A i \in 1..(Len(down) - 1) : down'[i] = down[i + 1]
        /\ Head(down) = down[1] /\ 1 \in 1..Len(down)
    BY <1>3, <1>6, EmptySeq, HeadTailProperties
  <2>2. Data # <<>>
    BY <1>4, <2>1
  <2> DEFINE t == Tail(Data)
  <2>3. /\ t \in Seq(Seq(Syms)) /\ Len(t) = Len(down) - 1 /\ DOMAIN t = 1..(Len(down) - 1)
        /\ \A i \in 1..(Len(down) - 1) : t[i] = Data[i + 1]
        /\ Head(Data) = Data[1]
    BY <1>4, <2>2, HeadTailProperties
  <2>4. /\ DOMAIN Data' = DOMAIN down' /\ \A i \in DOMAIN down' : Data'[i] = Brings(down'[i])
    BY DEF Data, Brings
  <2> HIDE DEF t
  <2>6. \A i \in 1..(Len(down) - 1) : t[i] = Brings(down'[i])
    <3>1. \A i \in 1..(Len(down) - 1) : i + 1 \in 1..Len(down)
      BY <1>3
    <3> QED
      BY <1>4, <2>1, <2>3, <3>1
  <2>7. Data' \in Seq(Seq(Syms)) /\ Len(Data') = Len(down) - 1
    BY <2>1, <1>8
  <2>8. \A i \in 1..Len(Data') : Data'[i] = t[i]
    BY <2>1, <2>4, <2>6, <2>7
  <2>9. Data' = t
    BY <2>3, <2>7, <2>8, SeqEqual
  <2> QED
    BY <1>4, <2>1, <2>2, <2>3, <2>9 DEF t
<1>7. down = <<>> => Data = <<>>
  BY <1>4, EmptySeq
<1> QED
  BY <1>1, <1>2, <1>4, <1>5, <1>6, <1>7

-----------------------------------------------------------------------------
(* The network's steps. *)

\* What is under way may shrink, be lost, or gain a mark.
Thins(s, t) ==
  t = s \/ t = Append(s, Gone) \/ t = <<Gone>> \/ t = <<>> \/ (s # <<>> /\ t = Tail(s))

LEMMA ThinsFewer ==
  ASSUME NEW S, Gone \in S, NEW s \in Seq(S), NEW t, Thins(s, t)
  PROVE  Fewer(s, t) /\ t \in Seq(S)
<1>1. CASE t = Append(s, Gone)
  BY <1>1, EndsAppend
<1>2. CASE s # <<>> /\ t = Tail(s)
  BY <1>2, FewerTail
<1>3. CASE t = s \/ t = <<Gone>> \/ t = <<>>
  <2>1. <<Gone>> \in Seq(S) /\ <<>> \in Seq(S)
    OBVIOUS
  <2>2. Fewer(s, t)
    BY <1>3, Marks
  <2> QED
    BY <1>3, <2>1, <2>2
<1> QED
  BY <1>1, <1>2, <1>3 DEF Thins

\* No frame joins.
LEMMA FramesThin ==
  ASSUME Framed, InTurn, UNCHANGED cl, tcp'.in = tcp.in \/ tcp'.in = <<>>,
         Thins(relay.queue, relay'.queue), Thins(up, up')
  PROVE  Framed' /\ InTurn' /\ (Quieted => Quieted')
<1> DEFINE S == Fit(cl) \cup {Gone}
<1>1. /\ Fewer(relay.queue, relay'.queue) /\ relay'.queue \in Seq(S)
      /\ Fewer(up, up') /\ up' \in Seq(S)
  <2>1. Gone \in S /\ relay.queue \in Seq(S) /\ up \in Seq(S)
    BY DEF Framed
  <2> HIDE DEF S
  <2> QED
    BY <2>1, ThinsFewer
<1>2. Fewer(tcp.in, tcp'.in) /\ tcp'.in \in Seq(Fit(cl))
  <2>1. <<>> \in Seq(Fit(cl)) /\ tcp.in \in Seq(Fit(cl))
    BY DEF Framed
  <2>2. Fewer(tcp.in, tcp'.in)
    BY Marks
  <2> QED
    BY <2>1, <2>2
<1>3. Framed'
  BY <1>1, <1>2 DEF Framed, Fit
<1> QED
  BY <1>1, <1>2, <1>3, FewerInTurn

\* A frame goes from the front of one pipe to the end of the next.
LEMMA FrameMoves ==
  ASSUME NEW S, NEW s \in Seq(S), NEW t \in Seq(S), t # <<>>, Head(t) # Gone,
         EndLast(t), HasEnd(s) => OnlyGone(t)
  PROVE  LET s2 == Append(s, Head(t)) IN
         /\ EndLast(s2) /\ Fewer(t, Tail(t)) /\ s2 \in Seq(S) /\ Tail(t) \in Seq(S)
         /\ HasEnd(s2) => OnlyGone(Tail(t)) /\ HasEnd(t)
         /\ ~OnlyGone(t) /\ ~HasEnd(s)
<1>1. /\ Fewer(t, Tail(t)) /\ Tail(t) \in Seq(S) /\ Head(t) \in S
      /\ Ends(Head(t)) => OnlyGone(Tail(t)) /\ HasEnd(t)
  BY FewerTail
<1>2. ~OnlyGone(t)
  <2>1. 1 \in DOMAIN t /\ t[1] = Head(t)
    BY EmptySeq, LenProperties
  <2> QED
    BY <2>1 DEF OnlyGone
<1>3. ~HasEnd(s)
  BY <1>2
<1>4. /\ Append(s, Head(t)) \in Seq(S) /\ EndLast(Append(s, Head(t)))
      /\ HasEnd(Append(s, Head(t))) => Ends(Head(t))
  BY <1>1, <1>3, EndsAppend
<1> QED
  BY <1>1, <1>2, <1>3, <1>4

\* No part of a reply joins.
LEMMA RepliesStay ==
  ASSUME Answering, Ending, UNCHANGED <<cl, sv>>, browser'.chunks = browser.chunks,
         tcp'.out = tcp.out \/ tcp'.out = <<>>,
         Data' = Data \/ Data' = Append(Data, <<>>) \/ Data' = << <<>> >>
  PROVE  Answering' /\ Ending' /\ (Silent => Silent')
<1> DEFINE H == Heard(Awaited, sv.mode)
<1>1. Awaited' = Awaited
  BY DEF Awaited
<1>2. /\ cl.buf \in Seq(H) /\ browser.chunks \in Seq(Seq(H)) /\ Data \in Seq(Seq(H)) /\ tcp.out \in Seq(H)
      /\ H' = H
  BY <1>1 DEF Answering, Heard
<1> HIDE DEF H
<1>3. /\ Data' \in Seq(Seq(H))
      /\ Pieced(Data') /\ (SomeFinal(Data') => SomeFinal(Data)) /\ (Nothing(Data) => Nothing(Data'))
  <2>1. CASE Data' = Data
    BY <1>2, <2>1 DEF Ending
  <2>2. CASE Data' = Append(Data, <<>>)
    <3>1. <<>> \in Seq(H)
      OBVIOUS
    <3>2. Pieced(Data) /\ Data \in Seq(Seq(H))
      BY <1>2 DEF Ending
    <3> HIDE DEF Data
    <3> QED
      BY <2>2, <3>1, <3>2, NoReply, PieceAppend
  <2>3. CASE Data' = << <<>> >>
    <3>1. Nothing(<< <<>> >>) /\ << <<>> >> \in Seq(Seq(H))
      BY DEF Nothing
    <3> QED
      BY <2>3, <3>1, NoReply
  <2> QED
    BY <2>1, <2>2, <2>3
<1>4. tcp'.out \in Seq(H) /\ FinalLast(tcp'.out) /\ (tcp.out = <<>> => tcp'.out = <<>>)
  <2>1. <<>> \in Seq(H)
    OBVIOUS
  <2> QED
    BY <1>2, <2>1, NoReply DEF Ending
<1>5. Answering'
  BY <1>1, <1>2, <1>3, <1>4 DEF Answering, H
<1>6. Ending'
  <2>1. Pieced(Data)' /\ (SomeFinal(Data)' => SomeFinal(Data)) /\ (Nothing(Data) => Nothing(Data)')
    BY <1>3 DEF Pieced, SomeFinal, Nothing, HasFinal, FinalLast
  <2> QED
    BY <1>4, <2>1 DEF Ending
<1>7. Silent => Silent'
  <2>1. Nothing(Data) => Nothing(Data)'
    BY <1>3 DEF Nothing
  <2> QED
    BY <1>4, <2>1 DEF Silent
<1> QED
  BY <1>5, <1>6, <1>7

\* Marks and acknowledgements bring nothing of a reply.
LEMMA DataStays ==
  ASSUME down \in Seq(Downs)
  PROVE  /\ down' = down => Data' = Data
         /\ down' = CloseWs(relay, down) => Data' = Data \/ Data' = Append(Data, <<>>)
         /\ \A n \in Nat : down' = Append(down, [kind |-> "ack", n |-> n]) => Data' = Append(Data, <<>>)
         /\ down' = <<Gone>> => Data' = << <<>> >>
<1>1. down' = down => Data' = Data
  BY DEF Data, Brings
<1>2. Gone \in Downs /\ \A n \in Nat : [kind |-> "ack", n |-> n] \in Downs
  BY DEF Downs
<1>3. /\ down' = Append(down, Gone) => Data' = Append(Data, <<>>)
      /\ \A n \in Nat : down' = Append(down, [kind |-> "ack", n |-> n]) => Data' = Append(Data, <<>>)
  BY <1>2, DataIs
<1>4. down' = CloseWs(relay, down) => Data' = Data \/ Data' = Append(Data, <<>>)
  BY <1>1, <1>3 DEF CloseWs
<1>5. down' = <<Gone>> => Data' = << <<>> >>
  <2> SUFFICES ASSUME down' = <<Gone>> PROVE Data' = << <<>> >>
    OBVIOUS
  <2>1. DOMAIN down' = 1..1 /\ down'[1] = Gone
    OBVIOUS
  <2>2. Data' = [i \in 1..1 |-> Brings(down'[i])]
    BY <2>1 DEF Data, Brings
  <2>3. Data' = [i \in 1..1 |-> <<>>]
    BY <2>1, <2>2 DEF Brings
  <2> QED
    BY <2>3
<1> QED
  BY <1>1, <1>3, <1>4, <1>5

\* What neither brings a frame or a reply nor loses its place.
LEMMA SpeakingMoves ==
  ASSUME Speaking, UNCHANGED <<cl, sv>>, Framed', InTurn', Quieted => Quieted',
         Answering', Ending', Silent => Silent'
  PROVE  Speaking'
<1>1. Listens' = Listens
  BY DEF Listens
<1>2. Following'
  BY <1>1 DEF Speaking, Following
<1>3. ~Silent' => Listens' /\ Quieted'
  BY <1>1 DEF Speaking
<1> QED
  BY <1>2, <1>3 DEF Speaking

\* Losses, marks and acknowledgements.
LEMMA ThinSpeaks ==
  ASSUME Speaking, UNCHANGED <<cl, sv>>, browser'.chunks = browser.chunks,
         tcp'.in = tcp.in \/ tcp'.in = <<>>, tcp'.out = tcp.out \/ tcp'.out = <<>>,
         Thins(relay.queue, relay'.queue), Thins(up, up'),
         Data' = Data \/ Data' = Append(Data, <<>>) \/ Data' = << <<>> >>
  PROVE  Speaking'
<1>1. Framed' /\ InTurn' /\ (Quieted => Quieted')
  BY FramesThin DEF Speaking
<1>2. Answering' /\ Ending' /\ (Silent => Silent')
  BY RepliesStay DEF Speaking
<1> QED
  BY <1>1, <1>2, SpeakingMoves

\* The end of the transport.
LEMMA EndSpeaks ==
  ASSUME PipeOK, Speaking, UNCHANGED <<cl, sv>>, EndTransport
  PROVE  Speaking'
<1>1. /\ browser'.chunks = browser.chunks /\ tcp'.in = tcp.in /\ tcp'.out = tcp.out
      /\ UNCHANGED <<down, relay>> /\ (up' = up \/ up' = Append(up, Gone))
  BY DEF EndTransport, transport, Ended, PipeOK, Browsers, Sockets
<1>2. Data' = Data
  BY <1>1, DataStays DEF PipeOK
<1> QED
  BY <1>1, <1>2, ThinSpeaks DEF Thins

\* The client's end takes a piece of a reply.
LEMMA TakeSpeaks ==
  ASSUME PipeOK, Apart, Speaking, UNCHANGED <<cl, sv>>, TakeDown \/ TakeSocket
  PROVE  Speaking'
<1> DEFINE H == Heard(Awaited, sv.mode)
<1>1. Awaited' = Awaited
  BY DEF Awaited
<1>2. /\ cl.buf \in Seq(H) /\ browser.chunks \in Seq(Seq(H)) /\ Data \in Seq(Seq(H)) /\ tcp.out \in Seq(H)
      /\ H' = H
  BY <1>1 DEF Speaking, Answering, Heard
<1> HIDE DEF H
<1>3. ASSUME NEW p \in Seq(H), FinalLast(p), browser'.chunks = Append(browser.chunks, p),
             SomeFinal(browser.chunks) => p = <<>>,
             HasFinal(cl.buf) \/ Silent => p = <<>>,
             tcp'.out \in Seq(H), FinalLast(tcp'.out), tcp.out = <<>> => tcp'.out = <<>>,
             Data' \in Seq(Seq(H)), Pieced(Data)', Nothing(Data) => Nothing(Data)',
             HasFinal(p) => Nothing(Data)' /\ tcp'.out = <<>>,
             SomeFinal(Data)' => tcp'.out = <<>>
      PROVE  Answering' /\ Ending' /\ (Silent => Silent')
  <2>1. /\ browser'.chunks \in Seq(Seq(H))
        /\ Pieced(browser'.chunks)
        /\ SomeFinal(browser'.chunks) => SomeFinal(browser.chunks) \/ HasFinal(p)
        /\ Nothing(browser.chunks) /\ p = <<>> => Nothing(browser'.chunks)
    BY <1>2, <1>3, PieceAppend DEF Speaking, Ending
  <2>2. Answering'
    BY <1>1, <1>2, <1>3, <2>1 DEF Answering, H
  <2>3. Ending'
    BY <1>3, <2>1 DEF Speaking, Ending
  <2>4. Silent => Silent'
    BY <1>3, <2>1 DEF Silent
  <2> QED
    BY <2>2, <2>3, <2>4
<1>4. CASE TakeDown
  <2> DEFINE d == Head(down)
  <2>1. /\ d \in Downs /\ down # <<>> /\ down' = Tail(down) /\ UNCHANGED <<relay, tcp>>
        /\ up' = up \/ up' = Append(up, Gone)
    BY <1>4, HeadTailProperties DEF TakeDown, PipeOK
  <2>2. /\ Data # <<>> /\ Data' = Tail(Data) /\ Head(Data) = Brings(d)
    BY <2>1, DataIs DEF PipeOK
  <2>3. /\ Tail(Data) \in Seq(Seq(H)) /\ Brings(d) \in Seq(H)
        /\ Pieced(Tail(Data)) /\ FinalLast(Brings(d))
        /\ HasFinal(Brings(d)) => Nothing(Tail(Data)) /\ SomeFinal(Data)
        /\ SomeFinal(Tail(Data)) => SomeFinal(Data)
        /\ Nothing(Data) => Nothing(Tail(Data)) /\ Brings(d) = <<>>
    <3>1. Data \in Seq(Seq(H)) /\ Pieced(Data) /\ Data # <<>>
      BY <1>2, <2>2 DEF Speaking, Ending
    <3> HIDE DEF Data
    <3> QED
      BY <2>2, <3>1, PieceTail
  <2>4. /\ Data' \in Seq(Seq(H)) /\ Pieced(Data)' /\ (Nothing(Data) => Nothing(Data)')
        /\ HasFinal(Brings(d)) => Nothing(Data)'
        /\ SomeFinal(Data)' => SomeFinal(Data)
    BY <2>2, <2>3 DEF Pieced, Nothing, SomeFinal, HasFinal, FinalLast
  <2>5. Framed' /\ InTurn' /\ (Quieted => Quieted')
    BY <2>1, FramesThin DEF Thins, Speaking
  <2>6. CASE browser'.chunks = browser.chunks
    <3>1. Answering'
      BY <1>1, <1>2, <2>1, <2>4, <2>6 DEF Answering, H
    <3>2. Ending'
      BY <2>1, <2>4, <2>6 DEF Speaking, Ending
    <3>3. Silent => Silent'
      BY <2>1, <2>4, <2>6 DEF Silent
    <3> QED
      BY <2>5, <3>1, <3>2, <3>3, SpeakingMoves
  <2>7. CASE browser'.chunks = Append(browser.chunks, Brings(d))
    <3>1. /\ SomeFinal(browser.chunks) => Brings(d) = <<>>
          /\ HasFinal(cl.buf) \/ Silent => Brings(d) = <<>>
          /\ HasFinal(Brings(d)) => tcp.out = <<>>
          /\ SomeFinal(Data)' => tcp.out = <<>>
      BY <2>3, <2>4 DEF Speaking, Ending, Silent
    <3>2. tcp'.out = tcp.out /\ FinalLast(tcp.out)
      BY <2>1 DEF Speaking, Ending
    <3>3. Answering' /\ Ending' /\ (Silent => Silent')
      BY <1>2, <1>3, <2>3, <2>4, <2>7, <3>1, <3>2
    <3> QED
      BY <2>5, <3>3, SpeakingMoves
  <2>8. browser'.chunks = browser.chunks \/ browser'.chunks = Append(browser.chunks, Brings(d))
    <3>1. d # Gone /\ d.kind # "ack" => d.kind = "data" /\ Brings(d) = d.syms
      BY <2>1 DEF Downs, Brings
    <3>2. CASE d = Gone \/ d.kind = "ack"
      BY <1>4, <3>2 DEF TakeDown, Ended, PipeOK, Browsers
    <3>3. CASE d # Gone /\ d.kind # "ack"
      <4>1. browser' = [browser EXCEPT !.chunks = Append(@, d.syms)]
        BY <1>4, <3>3 DEF TakeDown
      <4>2. browser'.chunks = Append(browser.chunks, d.syms)
        BY <4>1 DEF PipeOK, Browsers
      <4> QED
        BY <3>1, <3>3, <4>2
    <3> QED
      BY <3>2, <3>3
  <2> QED
    BY <2>6, <2>7, <2>8
<1>5. CASE TakeSocket
  <2>1. Direct /\ UNCHANGED <<up, down, relay>>
    BY <1>5 DEF TakeSocket
  <2>2. Data = <<>> /\ Data' = Data
    BY <2>1, DataIs, DataStays DEF Apart, PipeOK
  <2>3. CASE tcp.out # <<>>
    <3>1. PICK n \in 1..Len(tcp.out) :
            /\ browser' = [browser EXCEPT !.chunks = Append(@, SubSeq(tcp.out, 1, n))]
            /\ tcp' = [tcp EXCEPT !.out = SubSeq(@, n + 1, Len(@))]
      BY <1>5, <2>3 DEF TakeSocket
    <3> DEFINE p == SubSeq(tcp.out, 1, n)
               rest == SubSeq(tcp.out, n + 1, Len(tcp.out))
    <3>2. browser'.chunks = Append(browser.chunks, p) /\ tcp'.out = rest /\ tcp'.in = tcp.in
      BY <3>1 DEF PipeOK, Browsers, Sockets
    <3>3. /\ p \in Seq(H) /\ rest \in Seq(H) /\ FinalLast(p) /\ FinalLast(rest)
          /\ HasFinal(p) => HasFinal(tcp.out) /\ rest = <<>>
      <4>1. tcp.out \in Seq(H) /\ FinalLast(tcp.out)
        BY <1>2 DEF Speaking, Ending
      <4> QED
        BY <4>1, FinalParts
    <3>4. /\ SomeFinal(browser.chunks) => p = <<>>
          /\ HasFinal(cl.buf) \/ Silent => p = <<>>
      BY <2>3 DEF Speaking, Ending, Silent
    <3>5. /\ Data' \in Seq(Seq(H)) /\ Pieced(Data)' /\ (Nothing(Data) => Nothing(Data)')
          /\ Nothing(Data)' /\ ~SomeFinal(Data)'
      <4>1. Nothing(Data)' /\ ~SomeFinal(Data)' /\ Pieced(Data)'
        BY <2>2, NoReply DEF Nothing, SomeFinal, Pieced
      <4> QED
        BY <1>2, <2>2, <4>1
    <3> HIDE DEF p, rest
    <3>6. Answering' /\ Ending' /\ (Silent => Silent')
      BY <1>3, <2>3, <3>2, <3>3, <3>4, <3>5
    <3>7. Framed' /\ InTurn' /\ (Quieted => Quieted')
      BY <2>1, <3>2, FramesThin DEF Thins, Speaking
    <3> QED
      BY <3>6, <3>7, SpeakingMoves
  <2>4. CASE tcp.out = <<>>
    <3>1. browser'.chunks = browser.chunks /\ UNCHANGED tcp
      BY <1>5, <2>4 DEF TakeSocket, Ended, PipeOK, Browsers
    <3> QED
      BY <2>1, <2>2, <3>1, ThinSpeaks DEF Thins
  <2> QED
    BY <2>3, <2>4
<1> QED
  BY <1>4, <1>5

\* What the relay takes of the client's frames.
LEMMA RelayTakesSpeaks ==
  ASSUME PipeOK, Speaking, UNCHANGED <<cl, sv>>, RelayTakes
  PROVE  Speaking'
<1> DEFINE f == Head(up)
<1>1. up # <<>> /\ up' = Tail(up) /\ UNCHANGED browser
  BY DEF RelayTakes
<1>2. tcp'.in = tcp.in /\ tcp'.out = tcp.out
  BY DEF RelayTakes, PipeOK, Sockets
<1>3. down' = down \/ down' = CloseWs(relay, down)
  BY DEF RelayTakes
<1>4. Data' = Data \/ Data' = Append(Data, <<>>)
  BY <1>3, DataStays DEF PipeOK
<1>5. CASE relay'.queue = relay.queue \/ relay'.queue = Append(relay.queue, Gone)
  BY <1>1, <1>2, <1>4, <1>5, ThinSpeaks DEF Thins
<1>6. CASE f # Gone /\ relay'.queue = Append(relay.queue, f)
  <2> DEFINE S == Fit(cl) \cup {Gone}
  <2>1. relay.queue \in Seq(S) /\ up \in Seq(S) /\ EndLast(up) /\ (HasEnd(relay.queue) => OnlyGone(up))
    BY DEF Speaking, Framed, InTurn
  <2> HIDE DEF S
  <2>2. /\ EndLast(relay'.queue) /\ Fewer(up, up')
        /\ relay'.queue \in Seq(S) /\ up' \in Seq(S)
        /\ HasEnd(relay'.queue) => OnlyGone(up') /\ HasEnd(up)
        /\ ~OnlyGone(up) /\ ~HasEnd(relay.queue)
    BY <1>1, <1>6, <2>1, FrameMoves
  <2>3. Framed'
    BY <1>2, <2>2 DEF Speaking, Framed, Fit, S
  <2>4. InTurn'
    BY <1>2, <2>2 DEF Speaking, InTurn, Fewer
  <2>5. ~Quieted
    BY <2>2 DEF Quieted
  <2>6. Answering' /\ Ending' /\ (Silent => Silent')
    BY <1>1, <1>2, <1>4, RepliesStay DEF Speaking
  <2> QED
    BY <2>3, <2>4, <2>5, <2>6, SpeakingMoves
<1>7. \/ relay'.queue = relay.queue \/ relay'.queue = Append(relay.queue, Gone)
      \/ f # Gone /\ relay'.queue = Append(relay.queue, f)
  <2>1. CASE f = Gone
    <3>1. relay' = EndWriter([relay EXCEPT !.wsClosed = TRUE])
      BY <2>1 DEF RelayTakes
    <3> QED
      BY <3>1 DEF EndWriter, PipeOK, Relays
  <2>2. CASE f # Gone
    BY <2>2 DEF RelayTakes, Abort, PipeOK, Relays
  <2> QED
    BY <2>1, <2>2
<1> QED
  BY <1>5, <1>6, <1>7

\* What the relay writes of them.
LEMMA RelayWritesSpeaks ==
  ASSUME PipeOK, Speaking, UNCHANGED <<cl, sv>>, RelayWrites
  PROVE  Speaking'
<1> DEFINE f == Head(relay.queue)
           r == Wrote(f)
           ack == Acknowledged(r)
<1>1. /\ f \in Frames /\ r \in Relays /\ ack.n = r.written
      /\ r.queue = Tail(relay.queue)
      /\ relay' = IF ack.due THEN [r EXCEPT !.acked = ack.n] ELSE r
      /\ down' = IF tcp.dead /\ ~relay.ended THEN CloseWs(relay, down)
                 ELSE IF ack.due THEN Append(down, [kind |-> "ack", n |-> r.written]) ELSE down
      /\ tcp' = IF tcp.dead THEN tcp ELSE [tcp EXCEPT !.in = Append(@, f)]
      /\ UNCHANGED <<browser, up>>
  BY WriteIs
<1>2. relay.queue # <<>> /\ f # Gone
  BY DEF RelayWrites
<1> HIDE DEF f, r, ack
<1>3. relay'.queue = Tail(relay.queue) /\ r.written \in Nat
  BY <1>1 DEF Relays
<1>4. tcp'.out = tcp.out /\ (tcp'.in = tcp.in \/ tcp'.in = Append(tcp.in, f))
  BY <1>1 DEF PipeOK, Sockets
<1>5. Data' = Data \/ Data' = Append(Data, <<>>)
  BY <1>1, <1>3, DataStays DEF PipeOK
<1>6. CASE tcp'.in = tcp.in
  BY <1>1, <1>2, <1>3, <1>4, <1>5, <1>6, ThinSpeaks DEF Thins
<1>7. CASE tcp'.in = Append(tcp.in, f)
  <2> DEFINE S == Fit(cl) \cup {Gone}
  <2>1. /\ tcp.in \in Seq(Fit(cl)) /\ relay.queue \in Seq(S) /\ EndLast(relay.queue)
        /\ HasEnd(tcp.in) => OnlyGone(relay.queue)
    BY DEF Speaking, Framed, InTurn
  <2>2. tcp.in \in Seq(S) /\ f \in S
    BY <1>2, <2>1, FewerTail DEF f
  <2>3. tcp'.in \in Seq(Fit(cl))
    <3>1. f \in Fit(cl)
      BY <1>2, <2>2
    <3> QED
      BY <1>7, <2>1, <3>1
  <2> HIDE DEF S
  <2>4. /\ EndLast(tcp'.in) /\ Fewer(relay.queue, relay'.queue) /\ relay'.queue \in Seq(S)
        /\ HasEnd(tcp'.in) => OnlyGone(relay'.queue) /\ HasEnd(relay.queue)
        /\ ~OnlyGone(relay.queue) /\ ~HasEnd(tcp.in)
    BY <1>2, <1>3, <1>7, <2>1, <2>2, FrameMoves DEF f
  <2>5. Framed'
    BY <1>1, <2>3, <2>4 DEF Speaking, Framed, Fit, S
  <2>6. InTurn'
    BY <1>1, <2>4 DEF Speaking, InTurn, Fewer
  <2>7. ~Quieted
    BY <2>4 DEF Quieted
  <2>8. Answering' /\ Ending' /\ (Silent => Silent')
    BY <1>1, <1>4, <1>5, RepliesStay DEF Speaking
  <2> QED
    BY <2>5, <2>6, <2>7, <2>8, SpeakingMoves
<1> QED
  BY <1>4, <1>6, <1>7

\* The relay's loop of reads, the end of it and the FIN.
LEMMA RelayReadsSpeaks ==
  ASSUME PipeOK, Speaking, UNCHANGED <<cl, sv>>, RelayFins \/ RelayReads \/ RelayReadEnds \/ RelayEnds
  PROVE  Speaking'
<1>1. UNCHANGED <<browser, up>>
  BY DEF RelayFins, RelayReads, RelayReadEnds, RelayEnds
<1>2. ASSUME relay' = [relay EXCEPT !.read = "done", !.wsClosed = TRUE],
             down' = CloseWs(relay, down), tcp' = [tcp EXCEPT !.dead = TRUE]
      PROVE  Speaking'
  <2>1. relay'.queue = relay.queue /\ tcp'.in = tcp.in /\ tcp'.out = tcp.out
    BY <1>2 DEF PipeOK, Relays, Sockets
  <2>2. Data' = Data \/ Data' = Append(Data, <<>>)
    BY <1>2, DataStays DEF PipeOK
  <2> QED
    BY <1>1, <2>1, <2>2, ThinSpeaks DEF Thins
<1>3. CASE RelayFins
  <2>1. /\ relay.queue # <<>> /\ relay'.queue = Tail(relay.queue) /\ UNCHANGED down
        /\ tcp'.in = tcp.in /\ tcp'.out = tcp.out
    BY <1>3 DEF RelayFins, PipeOK, Relays, Sockets
  <2>2. Data' = Data
    BY <2>1, DataStays DEF PipeOK
  <2> QED
    BY <1>1, <2>1, <2>2, ThinSpeaks DEF Thins
<1>4. CASE RelayEnds
  BY <1>2, <1>4 DEF RelayEnds
<1>5. CASE RelayReadEnds
  <2>1. CASE ReadFailed
    BY <1>2, <2>1 DEF ReadFailed
  <2>2. CASE relay' = [EndWriter(relay) EXCEPT !.read = "draining"] /\ UNCHANGED <<down, tcp>>
    <3>1. relay'.queue = relay.queue \/ relay'.queue = Append(relay.queue, Gone)
      <4>1. EndWriter(relay) \in Relays
        BY RelayFields DEF PipeOK
      <4>2. relay'.queue = EndWriter(relay).queue
        BY <2>2, <4>1 DEF Relays
      <4> QED
        BY <4>2 DEF EndWriter, PipeOK, Relays
    <3>2. Data' = Data
      BY <2>2, DataStays DEF PipeOK
    <3> QED
      BY <1>1, <2>2, <3>1, <3>2, ThinSpeaks DEF Thins
  <2> QED
    BY <1>5, <2>1, <2>2 DEF RelayReadEnds
<1>6. CASE RelayReads
  <2>1. CASE ReadFailed
    BY <1>2, <2>1 DEF ReadFailed
  <2>2. CASE \E n \in 1..Len(tcp.out) :
               /\ tcp' = [tcp EXCEPT !.out = SubSeq(@, n + 1, Len(@))]
               /\ down' = IF relay.wsClosed THEN down
                          ELSE Append(down, [kind |-> "data", syms |-> SubSeq(tcp.out, 1, n)])
               /\ UNCHANGED relay
    <3>1. PICK n \in 1..Len(tcp.out) :
            /\ tcp' = [tcp EXCEPT !.out = SubSeq(@, n + 1, Len(@))]
            /\ down' = IF relay.wsClosed THEN down
                       ELSE Append(down, [kind |-> "data", syms |-> SubSeq(tcp.out, 1, n)])
            /\ UNCHANGED relay
      BY <2>2
    <3> DEFINE H == Heard(Awaited, sv.mode)
               p == SubSeq(tcp.out, 1, n)
               rest == SubSeq(tcp.out, n + 1, Len(tcp.out))
               d == [kind |-> "data", syms |-> p]
    <3>2. Awaited' = Awaited
      BY DEF Awaited
    <3>3. /\ cl.buf \in Seq(H) /\ browser.chunks \in Seq(Seq(H)) /\ Data \in Seq(Seq(H)) /\ tcp.out \in Seq(H)
          /\ H' = H /\ FinalLast(tcp.out) /\ Pieced(Data)
      BY <3>2 DEF Speaking, Answering, Ending, Heard
    <3> HIDE DEF H
    <3>4. tcp'.in = tcp.in /\ tcp'.out = rest
      BY <3>1 DEF PipeOK, Sockets
    <3>5. /\ p \in Seq(H) /\ rest \in Seq(H) /\ FinalLast(p) /\ FinalLast(rest) /\ p # <<>>
          /\ HasFinal(p) => HasFinal(tcp.out) /\ rest = <<>>
          /\ tcp.out # <<>>
      <4>1. tcp.out # <<>>
        BY <1>6 DEF RelayReads
      <4> QED
        BY <3>3, <4>1, FinalParts
    <3>6. d \in Downs /\ Brings(d) \in {p, <<>>}
      <4>1. tcp.out \in Seq(Syms)
        BY DEF PipeOK, Sockets
      <4>2. p \in Seq(Syms)
        BY <4>1, Parts
      <4>3. d \in [kind : {"data"}, syms : Seq(Syms)]
        BY <4>2
      <4>4. Brings(d) = IF d # Gone THEN p ELSE <<>>
        BY DEF Brings
      <4> QED
        BY <4>3, <4>4 DEF Downs
    <3> HIDE DEF p, rest, d
    <3>7. Data' = Data \/ Data' = Append(Data, p) \/ Data' = Append(Data, <<>>)
      BY <3>1, <3>6, DataIs, DataStays DEF PipeOK, d, p
    <3>8. ~SomeFinal(Data) /\ ~HasFinal(cl.buf) /\ ~SomeFinal(browser.chunks) /\ ~Silent
      BY <3>5 DEF Speaking, Ending, Silent
    <3>9. /\ Data' \in Seq(Seq(H)) /\ Pieced(Data') /\ (SomeFinal(Data') => HasFinal(p))
      <4> HIDE DEF Data
      <4>1. CASE Data' = Data
        BY <3>3, <3>8, <4>1
      <4>2. CASE Data' = Append(Data, p)
        BY <3>3, <3>5, <3>8, <4>2, PieceAppend
      <4>3. CASE Data' = Append(Data, <<>>)
        <5>1. <<>> \in Seq(H)
          OBVIOUS
        <5> QED
          BY <3>3, <3>8, <4>3, <5>1, NoReply, PieceAppend
      <4> QED
        BY <3>7, <4>1, <4>2, <4>3
    <3>10. Pieced(Data)' /\ (SomeFinal(Data)' => tcp'.out = <<>>)
      BY <3>4, <3>5, <3>9 DEF Pieced, SomeFinal, HasFinal, FinalLast
    <3>11. Answering'
      BY <1>1, <3>2, <3>3, <3>4, <3>5, <3>9 DEF Answering, H
    <3>12. Ending'
      BY <1>1, <3>4, <3>5, <3>8, <3>10 DEF Speaking, Ending
    <3>13. Framed' /\ InTurn' /\ (Quieted => Quieted')
      BY <1>1, <3>1, <3>4, FramesThin DEF Thins, Speaking
    <3> QED
      BY <3>8, <3>11, <3>12, <3>13, SpeakingMoves
  <2> QED
    BY <1>6, <2>1, <2>2 DEF RelayReads
<1> QED
  BY <1>3, <1>4, <1>5, <1>6

\* The faults of the connection.
LEMMA FaultSpeaks ==
  ASSUME PipeOK, Speaking, UNCHANGED <<cl, sv>>, WsDrops \/ TcpDies
  PROVE  Speaking'
<1>1. CASE WsDrops
  <2>1. up' = <<Gone>> /\ down' = <<Gone>> /\ UNCHANGED <<browser, relay, tcp>>
    BY <1>1 DEF WsDrops
  <2>2. Data' = << <<>> >>
    BY <2>1, DataStays DEF PipeOK
  <2> QED
    BY <2>1, <2>2, ThinSpeaks DEF Thins
<1>2. CASE TcpDies
  <2>1. /\ UNCHANGED <<browser, up, down, relay>> /\ tcp'.in = tcp.in
        /\ tcp'.out = tcp.out \/ tcp'.out = <<>>
    BY <1>2 DEF TcpDies, PipeOK, Sockets
  <2>2. Data' = Data
    BY <2>1, DataStays DEF PipeOK
  <2> QED
    BY <2>1, <2>2, ThinSpeaks DEF Thins
<1> QED
  BY <1>1, <1>2

-----------------------------------------------------------------------------
(* The server's steps. *)

\* A frame of the client's is no mark, and one kind or the other.
LEMMA FitFrames ==
  ASSUME NEW f \in Fit(cl)
  PROVE  /\ f \in Frames /\ f # Gone /\ ("cmd" \in DOMAIN f \/ "line" \in DOMAIN f)
         /\ ~("cmd" \in DOMAIN f /\ "line" \in DOMAIN f)
         /\ "cmd" \in DOMAIN f => f.cmd \in Commands
BY NamesAssumption DEF Fit, Frames

\* Whoever waits for the server's next line has none under way of its own.
LEMMA NotQuiet ==
  ASSUME Speaking, tcp.in # <<>>
  PROVE  Head(tcp.in) \in Fit(cl) /\ ~Quieted /\ Silent
<1>1. Head(tcp.in) \in Fit(cl) /\ 1 \in DOMAIN tcp.in /\ tcp.in[1] = Head(tcp.in)
  BY FewerTail, EmptySeq, LenProperties DEF Speaking, Framed
<1>2. ~Quieted
  BY <1>1, FitFrames DEF Quieted, OnlyGone
<1> QED
  BY <1>1, <1>2 DEF Speaking

\* Nothing is a reply in no pieces, whoever it might be for.
LEMMA NothingIn == \A S, ps : ps \in Seq(Seq(Syms)) /\ Nothing(ps) => ps \in Seq(Seq(S))
<1> SUFFICES ASSUME NEW S, NEW ps \in Seq(Seq(Syms)), Nothing(ps) PROVE ps \in Seq(Seq(S))
  OBVIOUS
<1>1. /\ Len(ps) \in Nat /\ ps \in [1..Len(ps) -> Seq(Syms)] /\ DOMAIN ps = 1..Len(ps)
      /\ <<>> \in Seq(S)
  BY LenProperties
<1> DEFINE T == Seq(S)
<1>2. ps \in [1..Len(ps) -> T]
  BY <1>1 DEF Nothing
<1> HIDE DEF T
<1>3. ps \in Seq(T)
  BY <1>1, <1>2
<1> QED
  BY <1>3 DEF T

\* Where nothing was said, the server's word is all that is on its way.
LEMMA ServerSays ==
  ASSUME TypeOK, Silent, UNCHANGED <<cl, browser, down>>,
         tcp'.out \in Seq(Heard(Awaited, sv'.mode)), FinalLast(tcp'.out)
  PROVE  Answering' /\ Ending' /\ (tcp'.out = <<>> => Silent')
<1>1. Data' = Data /\ Awaited' = Awaited
  BY DataStays DEF Awaited, TypeOK, PipeOK
<1>2. /\ cl.buf = <<>> /\ Nothing(browser.chunks) /\ Nothing(Data)
      /\ browser.chunks \in Seq(Seq(Syms)) /\ Data \in Seq(Seq(Syms))
  BY DataIs DEF Silent, TypeOK, PipeOK, Browsers
<1>3. \A S, ps : ps \in Seq(Seq(Syms)) /\ Nothing(ps) => ps \in Seq(Seq(S))
  BY NothingIn
<1> HIDE DEF Data
<1>4. Answering'
  <2>1. /\ cl.buf \in Seq(Heard(Awaited, sv'.mode))
        /\ browser.chunks \in Seq(Seq(Heard(Awaited, sv'.mode)))
        /\ Data \in Seq(Seq(Heard(Awaited, sv'.mode)))
    <3>1. cl.buf \in Seq(Heard(Awaited, sv'.mode))
      BY <1>2
    <3> QED
      BY <1>2, <1>3, <3>1
  <2> QED
    BY <1>1, <2>1 DEF Answering, Heard
<1>5. Ending'
  <2>1. Pieced(Data)' /\ ~SomeFinal(Data)'
    BY <1>1, <1>2, NoReply DEF Pieced, SomeFinal, HasFinal, FinalLast
  <2>2. /\ FinalLast(cl.buf) /\ ~HasFinal(cl.buf) /\ Pieced(browser.chunks) /\ ~SomeFinal(browser.chunks)
    BY <1>2, NoReply
  <2> QED
    BY <2>1, <2>2 DEF Ending
<1>6. tcp'.out = <<>> => Silent'
  BY <1>1, <1>2 DEF Silent, Nothing
<1> QED
  BY <1>4, <1>5, <1>6

\* The server answers the line that is answered.
LEMMA ServerReplies ==
  ASSUME TypeOK, Speaking, UNCHANGED <<cl, browser, up, down, relay>>, tcp.in # <<>>,
         tcp'.in = Tail(tcp.in), Ends(Head(tcp.in)), Listens, sv'.mode # "start",
         tcp'.out \in Seq(Heard(Awaited, sv'.mode)), FinalLast(tcp'.out)
  PROVE  Speaking'
<1>1. /\ Tail(tcp.in) \in Seq(Fit(cl)) /\ Fewer(tcp.in, Tail(tcp.in))
      /\ OnlyGone(Tail(tcp.in)) /\ HasEnd(tcp.in)
  BY FewerTail DEF Speaking, Framed, InTurn
<1>2. Framed'
  BY <1>1 DEF Speaking, Framed, Fit
<1>3. InTurn'
  BY <1>1, Marks, FewerInTurn DEF Speaking
<1>4. Quieted'
  BY <1>1 DEF Speaking, InTurn, Quieted
<1>5. Answering' /\ Ending'
  BY NotQuiet, ServerSays
<1>6. Listens'
  BY DEF Listens
<1>7. Following'
  BY <1>4, <1>6 DEF Following
<1> QED
  BY <1>2, <1>3, <1>4, <1>5, <1>6, <1>7 DEF Speaking

\* The server reads a line that it does not answer.
LEMMA ServerHears ==
  ASSUME TypeOK, Speaking, UNCHANGED <<cl, browser, up, down, relay>>, tcp.in # <<>>,
         tcp'.in = Tail(tcp.in), tcp'.out = tcp.out, sv'.mode \in {"data", "gone"}
  PROVE  Speaking'
<1>1. Tail(tcp.in) \in Seq(Fit(cl)) /\ Fewer(tcp.in, Tail(tcp.in))
  BY FewerTail DEF Speaking, Framed
<1>2. Framed'
  BY <1>1 DEF Speaking, Framed, Fit
<1>3. InTurn'
  BY <1>1, Marks, FewerInTurn DEF Speaking
<1>4. Silent /\ tcp.out = <<>>
  BY NotQuiet DEF Silent
<1>5. tcp'.out \in Seq(Heard(Awaited, sv'.mode)) /\ FinalLast(tcp'.out)
  <2>1. <<>> \in Seq(Heard(Awaited, sv'.mode))
    OBVIOUS
  <2> QED
    BY <1>4, <2>1, NoReply
<1>6. Answering' /\ Ending' /\ Silent'
  BY <1>4, <1>5, ServerSays
<1>7. Following'
  BY DEF Following
<1> QED
  BY <1>2, <1>3, <1>6, <1>7 DEF Speaking

\* What may be said to the client's line, by a server that is then in mode m.
Said(to, m, syms) == syms \in Seq(Heard(to, m)) /\ FinalLast(syms)
Goes(to)          == [code |-> 250, more |-> TRUE, to |-> to]

\* One line, and another.
LEMMA TwoLines == \A x, y : <<x>> \o <<y>> = <<x, y>>
<1> SUFFICES ASSUME NEW x, NEW y PROVE <<x>> \o <<y>> = <<x, y>>
  OBVIOUS
<1> DEFINE t == <<x>> \o <<y>>
<1>1. /\ <<x>> \in Seq({x, y}) /\ <<y>> \in Seq({x, y}) /\ <<x, y>> \in Seq({x, y})
      /\ Len(<<x>>) = 1 /\ Len(<<y>>) = 1 /\ Len(<<x, y>>) = 2
  OBVIOUS
<1>2. /\ t \in Seq({x, y}) /\ Len(t) = 1 + 1
      /\ \A i \in 1..(1 + 1) : t[i] = IF i <= 1 THEN <<x>>[i] ELSE <<y>>[i - 1]
  BY <1>1, ConcatProperties
<1> HIDE DEF t
<1>3. t[1] = x /\ t[2] = y
  <2>1. 1 \in 1..(1 + 1) /\ 2 \in 1..(1 + 1) /\ 1 <= 1 /\ ~(2 <= 1) /\ 2 - 1 = 1
    OBVIOUS
  <2>2. t[1] = <<x>>[1] /\ t[2] = <<y>>[1]
    BY <1>2, <2>1
  <2> QED
    BY <2>2
<1>4. \A i \in 1..Len(t) : t[i] = <<x, y>>[i]
  <2>1. 1..Len(t) = {1, 2}
    BY <1>2
  <2> QED
    BY <1>3, <2>1
<1>5. t = <<x, y>>
  BY <1>1, <1>2, <1>4, SeqEqual
<1> QED
  BY <1>5 DEF t

\* What the server may say: a line, a babble, nothing, or two lines of which the first goes on.
LEMMA Sayings ==
  ASSUME NEW to \in Pcs, NEW m \in {"start", "cmd", "data", "gone"}
  PROVE  /\ \A n \in Nat : (to = "data" /\ n = 354 => m \in {"data", "gone"}) => Said(to, m, Reply(n, to))
         /\ Said(to, m, <<Junk>>) /\ Said(to, m, <<>>)
         /\ \A n \in {250, 251} : Said(to, m, <<Goes(to)>> \o Reply(n, to))
<1>1. ASSUME NEW n \in Nat, to = "data" /\ n = 354 => m \in {"data", "gone"}
      PROVE  [code |-> n, more |-> FALSE, to |-> to] \in Heard(to, m)
  <2>1. [code |-> n, more |-> FALSE, to |-> to] \in Syms
    BY DEF Syms, Replies
  <2> QED
    BY <1>1, <2>1 DEF Heard
<1>2. Goes(to) \in Heard(to, m)
  <2>1. Goes(to) \in Syms
    BY DEF Syms, Replies, Goes
  <2> QED
    BY <2>1 DEF Heard, Goes
<1>3. \A y : FinalLast(<<y>>)
  BY DEF FinalLast
<1>4. ~Final(Goes(to))
  <2>1. Goes(to) \in Replies
    BY DEF Replies, Goes
  <2> QED
    BY <2>1, NamesAssumption DEF Final, Goes
<1>5. \A x, y : ~Final(x) => FinalLast(<<x, y>>)
  <2> SUFFICES ASSUME NEW x, NEW y, ~Final(x), NEW i \in DOMAIN <<x, y>>, Final(<<x, y>>[i])
               PROVE  i = Len(<<x, y>>)
    BY DEF FinalLast
  <2>1. i \in {1, 2} /\ Len(<<x, y>>) = 2 /\ <<x, y>>[1] = x
    OBVIOUS
  <2> QED
    BY <2>1
<1>6. Said(to, m, <<Junk>>)
  BY <1>3 DEF Heard, Syms, Said
<1>7. ASSUME NEW n \in {250, 251}
      PROVE  Said(to, m, <<Goes(to)>> \o Reply(n, to))
  <2> DEFINE y == [code |-> n, more |-> FALSE, to |-> to]
  <2>1. y \in Heard(to, m)
    <3>1. n \in Nat /\ n # 354
      OBVIOUS
    <3> QED
      BY <1>1, <3>1
  <2>2. Reply(n, to) = <<y>>
    BY DEF Reply
  <2> HIDE DEF y
  <2>3. <<Goes(to)>> \o Reply(n, to) = <<Goes(to), y>>
    BY <2>2, TwoLines
  <2>4. <<Goes(to), y>> \in Seq(Heard(to, m)) /\ FinalLast(<<Goes(to), y>>)
    BY <1>2, <1>4, <1>5, <2>1
  <2> QED
    BY <2>3, <2>4 DEF Said
<1>8. Said(to, m, <<>>)
  BY NoReply DEF Said
<1>9. \A n \in Nat : (to = "data" /\ n = 354 => m \in {"data", "gone"}) => Said(to, m, Reply(n, to))
  BY <1>1, <1>3 DEF Reply, Said
<1> QED
  BY <1>6, <1>7, <1>8, <1>9

\* A command's answers are answers to it, and a 354 to DATA begins the message.
LEMMA CommandSays ==
  ASSUME NEW cmd \in Commands
  PROVE  /\ Said(cmd, After(cmd), ReplyTo(cmd)) /\ After(cmd) \in {"cmd", "data", "gone"}
         /\ \A syms \in Odd(cmd), m \in {"cmd", "gone"} : Said(cmd, m, syms)
<1>1. cmd \in Pcs /\ After(cmd) \in {"start", "cmd", "data", "gone"} /\ After(cmd) \in {"cmd", "data", "gone"}
  BY DEF Pcs, After
<1>2. Said(cmd, After(cmd), ReplyTo(cmd))
  <2> DEFINE m == After(cmd)
  <2>0. m \in {"start", "cmd", "data", "gone"} /\ (cmd = "data" => m = "data")
    BY <1>1 DEF After
  <2> HIDE DEF m
  <2>1. /\ \A n \in Nat : (cmd = "data" /\ n = 354 => m \in {"data", "gone"}) => Said(cmd, m, Reply(n, cmd))
        /\ Said(cmd, m, <<>>) /\ Said(cmd, m, <<Goes(cmd)>> \o Reply(250, cmd))
    BY <1>1, <2>0, Sayings
  <2>2. CASE cmd = "ehlo"
    <3>1. ReplyTo(cmd) = <<Goes(cmd)>> \o Reply(250, cmd)
      BY <2>2 DEF ReplyTo, Goes
    <3> QED
      BY <2>1, <3>1 DEF m
  <2>3. CASE cmd = "bye"
    <3>1. ReplyTo(cmd) = <<>>
      BY <2>3 DEF ReplyTo
    <3> QED
      BY <2>1, <3>1 DEF m
  <2>4. CASE cmd \notin {"ehlo", "bye"}
    <3>1. Honest[cmd] \in Nat
      BY <2>4 DEF Honest, Commands
    <3>2. ReplyTo(cmd) = Reply(Honest[cmd], cmd)
      BY <2>4 DEF ReplyTo
    <3>3. Said(cmd, m, Reply(Honest[cmd], cmd))
      <4> HIDE DEF Honest
      <4> QED
        BY <2>0, <2>1, <3>1
    <3> QED
      BY <3>2, <3>3 DEF m
  <2> QED
    BY <2>2, <2>3, <2>4
<1>3. ASSUME NEW m \in {"cmd", "gone"}, NEW syms \in Odd(cmd)
      PROVE  Said(cmd, m, syms)
  <2>1. /\ \A n \in Nat : (cmd = "data" /\ n = 354 => m \in {"data", "gone"}) => Said(cmd, m, Reply(n, cmd))
        /\ Said(cmd, m, <<Junk>>) /\ Said(cmd, m, <<>>)
        /\ \A n \in {250, 251} : Said(cmd, m, <<Goes(cmd)>> \o Reply(n, cmd))
    <3>1. m \in {"start", "cmd", "data", "gone"}
      OBVIOUS
    <3> QED
      BY <1>1, <3>1, Sayings
  <2>2. \/ syms = Reply(450, cmd) \/ syms = Reply(550, cmd) \/ syms = Reply(299, cmd)
        \/ syms = <<Junk>> \/ syms = <<>> \/ syms = <<Goes(cmd)>> \o Reply(251, cmd)
    BY DEF Odd, Goes
  <2>3. Said(cmd, m, Reply(450, cmd))
    BY <2>1
  <2>4. Said(cmd, m, Reply(550, cmd))
    BY <2>1
  <2>5. Said(cmd, m, Reply(299, cmd))
    BY <2>1
  <2>6. Said(cmd, m, <<Goes(cmd)>> \o Reply(251, cmd))
    BY <2>1
  <2>7. Said(cmd, m, <<Junk>>) /\ Said(cmd, m, <<>>)
    BY <2>1
  <2>8. CASE syms = Reply(450, cmd)
    BY <2>3, <2>8
  <2>9. CASE syms = Reply(550, cmd)
    BY <2>4, <2>9
  <2>10. CASE syms = Reply(299, cmd)
    BY <2>5, <2>10
  <2>11. CASE syms = <<Junk>> \/ syms = <<>>
    BY <2>7, <2>11
  <2>12. CASE syms = <<Goes(cmd)>> \o Reply(251, cmd)
    BY <2>6, <2>12
  <2> QED
    BY <2>2, <2>8, <2>9, <2>10, <2>11, <2>12
<1> QED
  BY <1>1, <1>2, <1>3

\* Where a server may say more, the lines heard are heard still.
LEMMA HeardIn ==
  \A a, m : /\ Seq(Heard(a, m)) \subseteq Seq(Heard(a, "gone"))
            /\ Seq(Seq(Heard(a, m))) \subseteq Seq(Seq(Heard(a, "gone")))
<1>1. \A S, T : S \subseteq T => Seq(S) \subseteq Seq(T)
  OBVIOUS
<1>2. \A a, m : Heard(a, m) \subseteq Heard(a, "gone")
  BY DEF Heard
<1> QED
  BY <1>1, <1>2

\* The answer to the line that the client waits at.
LEMMA ServerAnswersIt ==
  ASSUME TypeOK, Speaking, UNCHANGED <<cl, browser, up, down, relay>>, tcp.in # <<>>,
         Ends(Head(tcp.in)), Listens, NEW syms, Said(Awaited, sv'.mode, syms), sv'.mode # "start",
         tcp'.in = Tail(tcp.in), tcp'.out = tcp.out \o syms
  PROVE  Speaking'
<1>1. tcp.out = <<>>
  BY NotQuiet DEF Silent
<1>2. tcp'.out = syms
  <2>1. syms \in Seq(Heard(Awaited, sv'.mode))
    BY DEF Said
  <2>2. <<>> \o syms = syms
    BY <2>1, ConcatEmptySeq
  <2> QED
    BY <1>1, <2>2
<1> QED
  BY <1>2, ServerReplies DEF Said

\* The server's greeting: nothing was asked before it.
LEMMA ServerGreetsSpeaks ==
  ASSUME TypeOK, Stepping, Speaking, ServerGreets
  PROVE  Speaking'
<1>1. cl.pc = "greeting" /\ Silent
  BY DEF ServerGreets, Speaking, Following
<1>2. cl.left = <<>> /\ cl.sub # "flush" /\ Listens
  BY <1>1 DEF Stepping, Commands, Listens
<1>3. UNCHANGED <<cl, browser, up, down, relay>>
  BY DEF ServerGreets
<1>4. /\ tcp'.in = tcp.in /\ sv'.mode \in {"cmd", "gone"}
      /\ \/ tcp'.out = Reply(220, "greeting") \/ tcp'.out = Reply(554, "greeting")
         \/ tcp'.out = <<Junk>> \/ tcp'.out = <<>>
  <2>1. sv'.mode \in {"cmd", "gone"}
    BY DEF ServerGreets, TypeOK, Servers
  <2>2. \/ tcp' = [tcp EXCEPT !.out = Reply(220, "greeting")]
        \/ \E syms \in {Reply(554, "greeting"), <<Junk>>, <<>>} : tcp' = [tcp EXCEPT !.out = syms, !.over = TRUE]
    BY DEF ServerGreets
  <2>3. \A x : [tcp EXCEPT !.out = x].in = tcp.in /\ [tcp EXCEPT !.out = x].out = x
    BY DEF TypeOK, PipeOK, Sockets
  <2>4. \A x : [tcp EXCEPT !.out = x, !.over = TRUE].in = tcp.in /\ [tcp EXCEPT !.out = x, !.over = TRUE].out = x
    BY DEF TypeOK, PipeOK, Sockets
  <2>5. CASE tcp' = [tcp EXCEPT !.out = Reply(220, "greeting")]
    BY <2>1, <2>3, <2>5
  <2>6. CASE \E syms \in {Reply(554, "greeting"), <<Junk>>, <<>>} : tcp' = [tcp EXCEPT !.out = syms, !.over = TRUE]
    <3>1. PICK syms : /\ syms = Reply(554, "greeting") \/ syms = <<Junk>> \/ syms = <<>>
                      /\ tcp' = [tcp EXCEPT !.out = syms, !.over = TRUE]
      BY <2>6
    <3>2. tcp'.in = tcp.in /\ tcp'.out = syms
      BY <2>4, <3>1
    <3> QED
      BY <2>1, <3>1, <3>2
  <2> QED
    BY <2>2, <2>5, <2>6
<1>5. Said("greeting", sv'.mode, tcp'.out)
  <2> DEFINE m == sv'.mode
  <2>1. m \in {"start", "cmd", "data", "gone"} /\ "greeting" \in Pcs
    BY <1>4 DEF Pcs
  <2> HIDE DEF m
  <2>2. /\ \A n \in Nat : ("greeting" = "data" /\ n = 354 => m \in {"data", "gone"}) => Said("greeting", m, Reply(n, "greeting"))
        /\ Said("greeting", m, <<Junk>>) /\ Said("greeting", m, <<>>)
    BY <2>1, Sayings
  <2>3. Said("greeting", m, Reply(220, "greeting"))
    BY <2>2
  <2>4. Said("greeting", m, Reply(554, "greeting"))
    BY <2>2
  <2>5. Said("greeting", m, <<Junk>>) /\ Said("greeting", m, <<>>)
    BY <2>2
  <2>6. Said("greeting", m, tcp'.out)
    <3>1. CASE tcp'.out = Reply(220, "greeting")
      BY <2>3, <3>1
    <3>2. CASE tcp'.out = Reply(554, "greeting")
      BY <2>4, <3>2
    <3>3. CASE tcp'.out = <<Junk>> \/ tcp'.out = <<>>
      BY <2>5, <3>3
    <3> QED
      BY <1>4, <3>1, <3>2, <3>3
  <2> QED
    BY <2>6 DEF m
<1>6. Quieted /\ Quieted'
  <2>1. Fit(cl) = {}
    BY <1>1 DEF Fit, Frames, Commands
  <2>2. /\ tcp.in \in Seq({}) /\ relay.queue \in Seq({Gone}) /\ up \in Seq({Gone})
    <3>1. {} \cup {Gone} = {Gone}
      OBVIOUS
    <3> QED
      BY <2>1, <3>1 DEF Speaking, Framed
  <2>3. Quieted
    BY <2>2 DEF Quieted, OnlyGone
  <2> QED
    BY <1>3, <1>4, <2>3 DEF Quieted
<1>7. Awaited = "greeting"
  BY <1>1 DEF Awaited
<1>8. Answering' /\ Ending'
  BY <1>1, <1>3, <1>5, <1>7, ServerSays DEF Said
<1>9. Framed' /\ InTurn' /\ Listens'
  BY <1>2, <1>3, <1>4 DEF Speaking, Framed, Fit, InTurn, Listens
<1>10. Following'
  BY <1>1, <1>3, <1>4 DEF Following
<1> QED
  BY <1>6, <1>8, <1>9, <1>10 DEF Speaking

\* Its answer to a command, which is the client's.
LEMMA ServerAnswersSpeaks ==
  ASSUME TypeOK, Stepping, Speaking, ServerAnswers
  PROVE  Speaking'
<1> DEFINE f == Head(tcp.in)
           cmd == IF "cmd" \in DOMAIN f THEN f.cmd ELSE "line"
<1>1. tcp.in # <<>> /\ sv.mode = "cmd" /\ UNCHANGED <<cl, browser, up, down, relay>>
  BY DEF ServerAnswers
<1>2. f \in Fit(cl) /\ ~Quieted /\ cl.pc \notin {"body", "dot", "answer"}
  BY <1>1, NotQuiet DEF Speaking, Following
<1>3. /\ "cmd" \in DOMAIN f /\ f.cmd = cl.pc /\ cl.left = <<>> /\ cmd = cl.pc /\ cl.pc \in Commands
      /\ Ends(f)
  BY <1>2, FitFrames DEF Fit, Ends
<1>4. Listens /\ Awaited = cl.pc
  BY <1>2, <1>3 DEF Listens, Stepping, Commands, Awaited
<1>5. \/ Answers(ReplyTo(cmd), After(cmd), cmd \in {"quit", "bye"})
      \/ \E syms \in Odd(cmd), over \in BOOLEAN : Answers(syms, IF over THEN "gone" ELSE "cmd", over)
  BY DEF ServerAnswers
<1> HIDE DEF f, cmd
<1>6. ASSUME NEW syms, NEW m \in {"cmd", "data", "gone"}, NEW over, Answers(syms, m, over), Said(cmd, m, syms)
      PROVE  Speaking'
  <2>1. sv'.mode = m /\ tcp'.in = Tail(tcp.in) /\ tcp'.out = tcp.out \o syms
    BY <1>6 DEF Answers, TypeOK, PipeOK, Sockets, Servers
  <2>2. sv'.mode # "start"
    BY <2>1
  <2>3. Said(Awaited, sv'.mode, syms)
    BY <1>3, <1>4, <1>6, <2>1
  <2>4. Ends(Head(tcp.in))
    BY <1>3 DEF f
  <2> QED
    BY <1>1, <1>4, <2>1, <2>2, <2>3, <2>4, ServerAnswersIt
<1>7. CASE Answers(ReplyTo(cmd), After(cmd), cmd \in {"quit", "bye"})
  <2>1. Said(cmd, After(cmd), ReplyTo(cmd)) /\ After(cmd) \in {"cmd", "data", "gone"}
    BY <1>3, CommandSays
  <2> QED
    BY <1>6, <1>7, <2>1
<1>8. CASE \E syms \in Odd(cmd), over \in BOOLEAN : Answers(syms, IF over THEN "gone" ELSE "cmd", over)
  <2>1. PICK syms \in Odd(cmd), over \in BOOLEAN : Answers(syms, IF over THEN "gone" ELSE "cmd", over)
    BY <1>8
  <2> DEFINE m == IF over THEN "gone" ELSE "cmd"
  <2>2. m \in {"cmd", "gone"} /\ m \in {"cmd", "data", "gone"}
    OBVIOUS
  <2> HIDE DEF m
  <2>3. Said(cmd, m, syms)
    BY <1>3, <2>2, CommandSays
  <2>4. Answers(syms, m, over)
    BY <2>1 DEF m
  <2> QED
    BY <1>6, <2>2, <2>3, <2>4
<1> QED
  BY <1>5, <1>7, <1>8

\* A line of the message, or the end of it, which the client waits to hear of.
LEMMA ServerReadsSpeaks ==
  ASSUME TypeOK, Stepping, Speaking, ServerReadsMessage
  PROVE  Speaking'
<1> DEFINE f == Head(tcp.in)
           said(syms, really, mode, over) ==
             /\ sv' = [sv EXCEPT !.mode = mode, !.taken = Took(really), !.lines = <<>>]
             /\ tcp' = [tcp EXCEPT !.in = Tail(@), !.out = @ \o syms, !.over = over]
<1>1. tcp.in # <<>> /\ sv.mode = "data" /\ UNCHANGED <<cl, browser, up, down, relay>>
  BY DEF ServerReadsMessage
<1>2. f \in Fit(cl)
  BY <1>1, NotQuiet
<1>3. CASE ~EndsMessage(f)
  <2>1. sv'.mode \in {"data", "gone"}
    BY <1>1, <1>3 DEF ServerReadsMessage, TypeOK, Servers
  <2>2. tcp'.in = Tail(tcp.in) /\ tcp'.out = tcp.out
    BY <1>3 DEF ServerReadsMessage, TypeOK, PipeOK, Sockets
  <2> QED
    BY <1>1, <2>1, <2>2, ServerHears
<1>4. CASE EndsMessage(f)
  <2>1. "line" \in DOMAIN f /\ f.line = Dot
    BY <1>4 DEF EndsMessage
  <2>2. /\ Ends(f) /\ cl.pc \in {"body", "dot", "answer"} /\ cl.pc # "body" /\ cl.left = <<>>
    BY <1>2, <2>1, FitFrames DEF Fit, Ends
  <2>3. Listens /\ Awaited = "answer"
    BY <2>2 DEF Listens, Stepping, Awaited
  <2>4. \/ said(Reply(250, "answer"), TRUE, "cmd", FALSE)
        \/ \E code \in {450, 550} : said(Reply(code, "answer"), FALSE, "cmd", FALSE)
        \/ \E syms \in {Reply(354, "answer"), <<Junk>>, <<>>}, really, over \in BOOLEAN :
             said(syms, really, IF over THEN "gone" ELSE "cmd", over)
    BY <1>4 DEF ServerReadsMessage
  <2> HIDE DEF f
  <2>5. ASSUME NEW syms, NEW really, NEW m \in {"cmd", "gone"}, NEW over,
               said(syms, really, m, over), Said("answer", m, syms)
        PROVE  Speaking'
    <3>1. sv'.mode = m /\ tcp'.in = Tail(tcp.in) /\ tcp'.out = tcp.out \o syms
      BY <2>5 DEF TypeOK, PipeOK, Sockets, Servers
    <3>2. sv'.mode # "start" /\ Said(Awaited, sv'.mode, syms) /\ Ends(Head(tcp.in))
      BY <2>2, <2>3, <2>5, <3>1 DEF f
    <3> QED
      BY <1>1, <2>3, <3>1, <3>2, ServerAnswersIt
  <2> HIDE DEF said
  <2>6. ASSUME NEW m \in {"cmd", "gone"}
        PROVE  /\ \A n \in Nat : Said("answer", m, Reply(n, "answer"))
               /\ Said("answer", m, <<Junk>>) /\ Said("answer", m, <<>>)
    <3>1. "answer" \in Pcs /\ m \in {"start", "cmd", "data", "gone"}
      BY DEF Pcs
    <3> QED
      BY <3>1, Sayings
  <2>7. CASE said(Reply(250, "answer"), TRUE, "cmd", FALSE)
    <3>1. Said("answer", "cmd", Reply(250, "answer"))
      BY <2>6
    <3> QED
      BY <2>5, <2>7, <3>1
  <2>8. CASE \E code \in {450, 550} : said(Reply(code, "answer"), FALSE, "cmd", FALSE)
    <3>1. PICK code \in {450, 550} : said(Reply(code, "answer"), FALSE, "cmd", FALSE)
      BY <2>8
    <3>2. code \in Nat
      OBVIOUS
    <3>3. Said("answer", "cmd", Reply(code, "answer"))
      BY <2>6, <3>2
    <3> QED
      BY <2>5, <3>1, <3>3
  <2>9. CASE \E syms \in {Reply(354, "answer"), <<Junk>>, <<>>}, really, over \in BOOLEAN :
               said(syms, really, IF over THEN "gone" ELSE "cmd", over)
    <3>1. PICK syms \in {Reply(354, "answer"), <<Junk>>, <<>>}, really \in BOOLEAN, over \in BOOLEAN :
            said(syms, really, IF over THEN "gone" ELSE "cmd", over)
      BY <2>9
    <3> DEFINE m == IF over THEN "gone" ELSE "cmd"
    <3>2. m \in {"cmd", "gone"} /\ said(syms, really, m, over)
      BY <3>1
    <3> HIDE DEF m
    <3>3. CASE syms = Reply(354, "answer")
      <4>1. Said("answer", m, Reply(354, "answer"))
        BY <2>6, <3>2
      <4> QED
        BY <2>5, <3>2, <3>3, <4>1
    <3>4. CASE syms = <<Junk>> \/ syms = <<>>
      <4>1. Said("answer", m, <<Junk>>) /\ Said("answer", m, <<>>)
        BY <2>6, <3>2
      <4>2. Said("answer", m, syms)
        BY <3>4, <4>1
      <4> QED
        BY <2>5, <3>2, <4>2
    <3> QED
      BY <3>1, <3>3, <3>4
  <2> QED
    BY <2>4, <2>7, <2>8, <2>9
<1> QED
  BY <1>3, <1>4

\* A server that goes says nothing more, and loses what comes.
LEMMA ServerLeavesSpeaks ==
  ASSUME TypeOK, Speaking, ServerLeaves
  PROVE  Speaking'
<1>1. /\ UNCHANGED <<cl, browser, up, down, relay>> /\ sv'.mode = "gone"
      /\ tcp'.in = <<>> /\ tcp'.out = tcp.out
  BY DEF ServerLeaves, TypeOK, PipeOK, Sockets, Servers
<1>2. Framed' /\ InTurn' /\ (Quieted => Quieted')
  BY <1>1, FramesThin DEF Thins, Speaking
<1>3. Data' = Data /\ Awaited' = Awaited
  BY <1>1, DataStays DEF TypeOK, PipeOK, Awaited
<1>4. Answering'
  <2> DEFINE G == Heard(Awaited, "gone")
  <2>1. /\ cl.buf \in Seq(G) /\ browser.chunks \in Seq(Seq(G))
        /\ Data \in Seq(Seq(G)) /\ tcp.out \in Seq(G)
    BY HeardIn DEF Speaking, Answering
  <2>2. Heard(Awaited, sv.mode)' = G
    BY <1>1, <1>3 DEF Heard
  <2> HIDE DEF G
  <2> QED
    BY <1>1, <1>3, <2>1, <2>2 DEF Answering
<1>5. Ending' /\ (Silent' <=> Silent)
  <2>1. (Pieced(Data)' <=> Pieced(Data)) /\ (SomeFinal(Data)' <=> SomeFinal(Data)) /\ (Nothing(Data)' <=> Nothing(Data))
    BY <1>3 DEF Pieced, SomeFinal, Nothing, HasFinal, FinalLast
  <2> QED
    BY <1>1, <2>1 DEF Speaking, Ending, Silent
<1>6. Following' /\ (Listens' <=> Listens)
  BY <1>1 DEF Following, Listens
<1> QED
  BY <1>2, <1>4, <1>5, <1>6 DEF Speaking

\* The server, whatever it does.
LEMMA ServerSpeaks ==
  ASSUME TypeOK, Stepping, Speaking, Server
  PROVE  Speaking' /\ UNCHANGED <<cl, browser>>
<1>1. UNCHANGED <<cl, browser>>
  BY DEF Server, ServerGreets, ServerAnswers, ServerReadsMessage, ServerLeaves
<1> QED
  BY <1>1, ServerGreetsSpeaks, ServerAnswersSpeaks, ServerReadsSpeaks, ServerLeavesSpeaks DEF Server

-----------------------------------------------------------------------------
(* Where the client's steps take it. *)

\* It closes; it asks the next line; and what such a step leaves as it is.
Leaves(d)   == d.pc = "bye" /\ d.sub = "write" /\ (d.left = <<>> \/ d.left = <<Line("bye")>>)
Asks(d)     == d.pc \in Commands /\ d.sub = "write" /\ d.left = <<Line(d.pc)>> /\ ~d.abandoned
Keeps(c, d) == d.buf = c.buf /\ d.paired = c.paired /\ d.code \in {0, c.code}

\* The ends of a submission: what is said of it changes nothing else.
LEMMA Endings ==
  ASSUME NEW c \in Clients
  PROVE  /\ Leaves(Closing(c)) /\ Keeps(c, Closing(c))
         /\ (c.abandoned /\ Leaves(Quitting(c))) \/ (~c.abandoned /\ Asks(Quitting(c)))
         /\ Keeps(c, Quitting(c))
         /\ \A a \in {"sent", "refused", "unconfirmed"} :
              /\ Says(c, a) \in Clients /\ Keeps(c, Says(c, a)) /\ Says(c, a).abandoned = c.abandoned
         /\ Abandoned(c) \in Clients /\ Keeps(c, Abandoned(c)) /\ Abandoned(c).abandoned
         /\ Abandoned(c).pc = c.pc /\ Abandoned(c).sub = c.sub
<1>1. Leaves(Closing(c)) /\ Keeps(c, Closing(c))
  BY DEF Clients, Closing, Leaves, Keeps
<1>2. Abandoned(c) \in Clients /\ Says(c, "sent") \in Clients
  BY Stops
<1>3. \A a \in {"sent", "refused", "unconfirmed"} :
        /\ Says(c, a) \in Clients /\ Keeps(c, Says(c, a)) /\ Says(c, a).abandoned = c.abandoned
  <2>1. \A a \in {"sent", "refused", "unconfirmed"} : Says(c, a) \in Clients
    BY Stops
  <2> QED
    BY <2>1 DEF Says, Clients, Keeps
<1>4. /\ Keeps(c, Abandoned(c)) /\ Abandoned(c).abandoned
      /\ Abandoned(c).pc = c.pc /\ Abandoned(c).sub = c.sub
  BY DEF Abandoned, Clients, Keeps
<1>5. CASE c.abandoned
  BY <1>1, <1>2, <1>3, <1>4, <1>5 DEF Quitting
<1>6. CASE ~c.abandoned
  <2> DEFINE q == [c EXCEPT !.pc = "quit", !.sub = "write", !.left = <<Line("quit")>>, !.code = 0]
  <2>1. q = Quitting(c)
    BY <1>6 DEF Quitting
  <2>2. /\ q.pc = "quit" /\ q.sub = "write" /\ q.left = <<Line("quit")>> /\ q.code = 0
        /\ q.abandoned = c.abandoned /\ q.buf = c.buf /\ q.paired = c.paired
    BY DEF Clients
  <2> HIDE DEF q
  <2>3. Asks(q) /\ Keeps(c, q)
    BY <1>6, <2>2 DEF Asks, Keeps, Commands
  <2> QED
    BY <1>1, <1>2, <1>3, <1>4, <1>6, <2>1, <2>3
<1> QED
  BY <1>5, <1>6

\* A failure closes the connection or says QUIT; once it is abandoned, it closes.
LEMMA FailedIs ==
  ASSUME NEW c \in Clients, c.pc = "bye" => c.sub = "write"
  PROVE  /\ Leaves(Failed(c)) \/ (~c.abandoned /\ Asks(Failed(c)))
         /\ Keeps(c, Failed(c))
         /\ Leaves(Unconfirmed(c)) /\ Keeps(c, Unconfirmed(c))
         /\ Leaves(Failed(Abandoned(c))) /\ Keeps(c, Failed(Abandoned(c)))
<1>2. \A d, e, g : Keeps(d, e) /\ Keeps(e, g) => Keeps(d, g)
  BY DEF Keeps
<1>3. ASSUME NEW d \in Clients
      PROVE  Leaves(Unconfirmed(d)) /\ Keeps(d, Unconfirmed(d))
  <2> DEFINE e == Says(d, "unconfirmed")
             g == Abandoned(e)
  <2>1. e \in Clients /\ Keeps(d, e)
    BY Endings
  <2> HIDE DEF e
  <2>2. g \in Clients /\ Keeps(e, g) /\ g.abandoned
    BY <2>1, Endings
  <2> HIDE DEF g
  <2>3. Leaves(Quitting(g)) /\ Keeps(g, Quitting(g))
    BY <2>2, Endings
  <2>4. Unconfirmed(d) = Quitting(g)
    BY DEF Unconfirmed, g, e
  <2> QED
    BY <1>2, <2>1, <2>2, <2>3, <2>4
<1>4. ASSUME NEW d \in Clients, d.pc = "bye" => d.sub = "write"
      PROVE  /\ Leaves(Failed(d)) \/ (~d.abandoned /\ Asks(Failed(d)))
             /\ Keeps(d, Failed(d))
  <2> DEFINE e == Says(d, "refused")
  <2>1. e \in Clients /\ Keeps(d, e) /\ e.abandoned = d.abandoned
    BY Endings
  <2> HIDE DEF e
  <2>2. Leaves(Closing(e)) /\ Keeps(d, Closing(e)) /\ Leaves(Closing(d)) /\ Keeps(d, Closing(d))
    BY <1>2, <2>1, Endings
  <2>3. /\ (d.abandoned /\ Leaves(Quitting(e))) \/ (~d.abandoned /\ Asks(Quitting(e)))
        /\ Keeps(d, Quitting(e))
    BY <1>2, <2>1, Endings
  <2>4. CASE d.pc \in {"greeting", "ehlo"}
    <3>1. Failed(d) = Closing(e)
      BY <2>4 DEF Failed, e
    <3> QED
      BY <2>2, <3>1
  <2>5. CASE d.pc = "answer"
    <3>1. Failed(d) = Unconfirmed(d)
      BY <2>5 DEF Failed
    <3> QED
      BY <1>3, <3>1
  <2>6. CASE d.pc = "quit"
    <3>1. Failed(d) = Closing(d)
      BY <2>6 DEF Failed
    <3> QED
      BY <2>2, <3>1
  <2>7. CASE d.pc = "bye"
    <3>1. Failed(d) = [d EXCEPT !.left = <<>>]
      BY <2>7 DEF Failed
    <3>2. /\ Failed(d).pc = d.pc /\ Failed(d).sub = d.sub /\ Failed(d).left = <<>>
          /\ Failed(d).buf = d.buf /\ Failed(d).paired = d.paired /\ Failed(d).code = d.code
      BY <3>1 DEF Clients
    <3> QED
      BY <1>4, <2>7, <3>2 DEF Leaves, Keeps
  <2>8. CASE d.pc \notin {"greeting", "ehlo", "answer", "quit", "bye"}
    <3>1. Failed(d) = Quitting(e)
      BY <2>8 DEF Failed, e
    <3> QED
      BY <2>3, <3>1
  <2> QED
    BY <2>4, <2>5, <2>6, <2>7, <2>8
<1>5. Leaves(Failed(Abandoned(c))) /\ Keeps(c, Failed(Abandoned(c)))
  <2> DEFINE d == Abandoned(c)
  <2>1. d \in Clients /\ Keeps(c, d) /\ d.abandoned /\ d.pc = c.pc /\ d.sub = c.sub
    BY Endings
  <2> HIDE DEF d
  <2>2. Leaves(Failed(d)) /\ Keeps(d, Failed(d))
    BY <1>4, <2>1
  <2>3. Leaves(Failed(d)) /\ Keeps(c, Failed(d))
    BY <1>2, <2>1, <2>2
  <2> QED
    BY <2>3 DEF d
<1> QED
  BY <1>3, <1>4, <1>5

\* A stuffed line is never the end of the message.
LEMMA BodiesAreLines ==
  ASSUME cast \in DOMAIN Casts
  PROVE  BodyFrames \in Seq(BodyLine)
<1>1. Play.data \in Seq(Lines)
  BY CastsAssumption DEF Play
<1>2. Len(Play.data) \in Nat /\ DOMAIN Play.data = 1..Len(Play.data) /\ \A i \in 1..Len(Play.data) : Play.data[i] \in Lines
  BY <1>1
<1>3. BodyFrames \in Seq(Frames)
  BY Bodies
<1>4. BodyFrames = [i \in 1..Len(Play.data) |-> [line |-> DotStuff(Play.data)[i], size |-> MaxFrame]]
  BY <1>2 DEF BodyFrames
<1>5. \A i \in 1..Len(Play.data) : BodyFrames[i] \in Frames
  <2>1. Len(BodyFrames) = Len(Play.data)
    BY <1>2, <1>3, <1>4, LenProperties
  <2> QED
    BY <1>3, <2>1, ElementOfSeq
<1>6. \A i \in 1..Len(Play.data) : Ended1(Play.data)[i].dots = Play.data[i].dots /\ Ended1(Play.data)[i] \in Lines
  <2> DEFINE d == Play.data
  <2>1. d \in Seq(Lines)
    BY <1>1
  <2>2. Len(d) \in Nat /\ DOMAIN d = 1..Len(d) /\ \A i \in 1..Len(d) : d[i] \in Lines
    BY <1>2
  <2> HIDE DEF d
  <2> DEFINE Same(i) == Ended1(d)[i].dots = d[i].dots /\ Ended1(d)[i] \in Lines
  <2>4. CASE d = <<>>
    <3>1. 1..Len(d) = {}
      BY <2>4
    <3> HIDE DEF Same
    <3>2. \A i \in 1..Len(d) : Same(i)
      BY <3>1
    <3> QED
      BY <3>2 DEF d, Same
  <2>5. CASE d # <<>>
    <3>1. Ended1(d) = [d EXCEPT ![Len(d)] = [d[Len(d)] EXCEPT !.lf = TRUE]]
      BY <2>5 DEF Ended1
    <3>2. \A i \in 1..Len(d) : Ended1(d)[i] = IF i = Len(d) THEN [d[i] EXCEPT !.lf = TRUE] ELSE d[i]
      BY <2>2, <3>1
    <3>3. \A l \in Lines : [l EXCEPT !.lf = TRUE] \in Lines /\ [l EXCEPT !.lf = TRUE].dots = l.dots
      BY DEF Lines
    <3>4. \A i \in 1..Len(d) : Same(i)
      BY <2>2, <3>2, <3>3
    <3> QED
      BY <3>4 DEF d
  <2> QED
    BY <2>4, <2>5
<1>7. \A i \in 1..Len(Play.data) : DotStuff(Play.data)[i].dots # 1
  <2>1. \A i \in 1..Len(Play.data) :
          DotStuff(Play.data)[i] = IF Play.data[i].dots > 0 THEN [Ended1(Play.data)[i] EXCEPT !.dots = @ + 1]
                                   ELSE Ended1(Play.data)[i]
    BY <1>2 DEF DotStuff
  <2>2. \A l \in Lines : [l EXCEPT !.dots = @ + 1].dots = l.dots + 1 /\ l.dots \in Nat
    BY DEF Lines
  <2>3. \A n \in Nat : n > 0 => n + 1 # 1
    OBVIOUS
  <2>4. \A n \in Nat : ~(n > 0) => n # 1
    OBVIOUS
  <2> HIDE DEF Play
  <2> SUFFICES ASSUME NEW i \in 1..Len(Play.data) PROVE DotStuff(Play.data)[i].dots # 1
    OBVIOUS
  <2> DEFINE e == Ended1(Play.data)[i]
             n == Play.data[i].dots
  <2>5. e \in Lines /\ e.dots = n /\ n \in Nat
    BY <1>2, <1>6 DEF Lines
  <2>6. DotStuff(Play.data)[i] = IF n > 0 THEN [e EXCEPT !.dots = @ + 1] ELSE e
    BY <2>1
  <2> HIDE DEF e, n
  <2>7. CASE n > 0
    <3>1. DotStuff(Play.data)[i].dots = n + 1
      BY <2>2, <2>5, <2>6, <2>7
    <3> QED
      BY <2>3, <2>5, <2>7, <3>1
  <2>8. CASE ~(n > 0)
    BY <2>4, <2>5, <2>6, <2>8
  <2> QED
    BY <2>7, <2>8
<1>8. \A i \in 1..Len(Play.data) : BodyFrames[i] \in BodyLine
  <2> SUFFICES ASSUME NEW i \in 1..Len(Play.data) PROVE BodyFrames[i] \in BodyLine
    OBVIOUS
  <2>1. BodyFrames[i] = [line |-> DotStuff(Play.data)[i], size |-> MaxFrame]
    BY <1>4
  <2>2. DotStuff(Play.data)[i] # Dot
    BY <1>7 DEF Dot
  <2>3. BodyFrames[i].line = DotStuff(Play.data)[i] /\ "line" \in DOMAIN BodyFrames[i]
    BY <2>1
  <2> QED
    BY <1>5, <2>2, <2>3 DEF BodyLine
<1>9. BodyFrames \in [1..Len(Play.data) -> BodyLine]
  BY <1>4, <1>8
<1> QED
  BY <1>2, <1>9

\* The message begins.
Begins(d) == d.pc = "body" /\ d.sub = "write" /\ d.left \in Seq(BodyLine) /\ ~d.abandoned

\* An answer leads to the next line, to the message after a 354 to DATA, or to the end.
LEMMA RepliedIs ==
  ASSUME TypeOK, Stepping, cl.sub = "reply", NEW code \in Nat
  PROVE  LET d == Replied(code) IN
         /\ Keeps(cl, d)
         /\ Leaves(d) \/ Asks(d) \/ (cl.pc = "data" /\ code = 354 /\ Begins(d))
<1> DEFINE Fine(d) == Keeps(cl, d) /\ (Leaves(d) \/ Asks(d))
<1>1. /\ cl \in Clients /\ cl.pc \notin {"bye", "closed"} /\ ~cl.abandoned
      /\ cl.pc \in DOMAIN Takes \/ cl.pc = "answer"
  BY DEF TypeOK, Stepping, Takes
<1>2. Fine(Failed(cl)) /\ Fine(Unconfirmed(cl)) /\ Fine(Closing(cl)) /\ Fine(Quitting(cl))
  BY <1>1, FailedIs, Endings
<1>3. \A a \in {"sent", "refused", "unconfirmed"} : Fine(Quitting(Says(cl, a)))
  <2> SUFFICES ASSUME NEW a \in {"sent", "refused", "unconfirmed"} PROVE Fine(Quitting(Says(cl, a)))
    OBVIOUS
  <2> DEFINE e == Says(cl, a)
  <2>1. e \in Clients /\ Keeps(cl, e)
    BY <1>1, Endings
  <2> HIDE DEF e
  <2>2. Keeps(e, Quitting(e)) /\ (Leaves(Quitting(e)) \/ Asks(Quitting(e)))
    BY <2>1, Endings
  <2>3. Fine(Quitting(e))
    BY <2>1, <2>2 DEF Keeps
  <2> QED
    BY <2>3 DEF e
<1>4. \A q \in Commands : Fine(Command(q)) /\ Command(q) \in Clients
  <2> SUFFICES ASSUME NEW q \in Commands PROVE Fine(Command(q)) /\ Command(q) \in Clients
    OBVIOUS
  <2> DEFINE d == Command(q)
  <2>1. /\ d.pc = q /\ d.sub = "write" /\ d.left = <<Line(q)>> /\ d.code = 0
        /\ d.abandoned = cl.abandoned /\ d.buf = cl.buf /\ d.paired = cl.paired
    BY <1>1 DEF Command, Clients
  <2> HIDE DEF d
  <2>2. Fine(d)
    BY <1>1, <2>1 DEF Asks, Keeps
  <2>3. Command(q) \in Clients
    BY GoesOn DEF TypeOK
  <2> QED
    BY <2>2, <2>3 DEF d
<1> HIDE DEF Fine
<1>5. Fine(AuthStep) /\ Fine(Envelope)
  <2>1. Fine(AuthStep)
    BY <1>3, <1>4 DEF AuthStep, Commands
  <2>2. Fine(Envelope)
    BY <1>3, <1>4 DEF Envelope, Commands
  <2> QED
    BY <2>1, <2>2
<1>6. Fine(AfterRcpt)
  <2> DEFINE c == Command("rcpt")
             d == [c EXCEPT !.rcpt = @ + 1]
  <2>1. c \in Clients /\ Fine(c) /\ Fine(Command("data"))
    BY <1>4 DEF Commands
  <2> HIDE DEF c
  <2>2. /\ d.pc = c.pc /\ d.sub = c.sub /\ d.left = c.left /\ d.code = c.code
        /\ d.abandoned = c.abandoned /\ d.buf = c.buf /\ d.paired = c.paired
    BY <2>1 DEF Clients
  <2> HIDE DEF d
  <2>3. Fine(d)
    BY <2>1, <2>2 DEF Fine, Keeps, Leaves, Asks
  <2> QED
    BY <2>1, <2>3 DEF AfterRcpt, d, c
<1>7. CASE cl.pc = "answer"
  <2>1. Replied(code) = Answered(code)
    BY <1>7 DEF Replied
  <2>2. Fine(Answered(code))
    BY <1>2, <1>3 DEF Answered
  <2> QED
    BY <2>1, <2>2 DEF Fine
<1>8. CASE cl.pc # "answer" /\ code \notin Takes[cl.pc]
  <2>1. Replied(code) = Failed(cl)
    BY <1>8 DEF Replied
  <2> QED
    BY <1>2, <2>1 DEF Fine
<1>9. CASE cl.pc = "data" /\ code \in Takes[cl.pc]
  <2> DEFINE d == [cl EXCEPT !.pc = "body", !.sub = "write", !.left = BodyFrames]
  <2>1. Replied(code) = d /\ code = 354
    BY <1>9 DEF Replied, NextStep, Takes
  <2>2. /\ d.pc = "body" /\ d.sub = "write" /\ d.left = BodyFrames /\ d.code = cl.code
        /\ d.abandoned = cl.abandoned /\ d.buf = cl.buf /\ d.paired = cl.paired
    BY <1>1 DEF Clients
  <2> HIDE DEF d
  <2>3. Begins(d) /\ Keeps(cl, d)
    BY <1>1, <2>2, BodiesAreLines DEF TypeOK, Begins, Keeps
  <2> QED
    BY <1>9, <2>1, <2>3
<1>10. CASE cl.pc \notin {"answer", "data"} /\ code \in Takes[cl.pc]
  <2>1. Replied(code) = NextStep
    BY <1>10 DEF Replied
  <2>2. Fine(Command("ehlo")) /\ Fine(Command("user")) /\ Fine(Command("pass")) /\ Fine(Command("rcpt"))
    BY <1>4 DEF Commands
  <2>3. Fine(NextStep)
    BY <1>2, <1>5, <1>6, <1>10, <2>2 DEF NextStep
  <2> QED
    BY <2>1, <2>3 DEF Fine
<1> QED
  BY <1>7, <1>8, <1>9, <1>10

\* Where such a step leads, the client is where it may be.
LEMMA StepsTo ==
  ASSUME cl'.code \in {0, 250}, Leaves(cl') \/ Asks(cl') \/ Begins(cl')
  PROVE  Stepping' /\ cl'.sub = "write"
<1>1. CASE Leaves(cl')
  BY <1>1 DEF Leaves, Stepping, Commands
<1>2. CASE Asks(cl')
  BY <1>2 DEF Asks, Stepping, Commands
<1>3. CASE Begins(cl')
  BY <1>3 DEF Begins, Stepping, Commands
<1> QED
  BY <1>1, <1>2, <1>3

-----------------------------------------------------------------------------
(* The client's steps. *)

\* What may be under way of the client's may be still.
LEMMA FramesFit ==
  ASSUME Framed, UNCHANGED transport, Fit(cl) \subseteq Fit(cl')
  PROVE  Framed'
<1> DEFINE F == Fit(cl)
           G == Fit(cl')
<1>1. /\ tcp.in \in Seq(F) /\ relay.queue \in Seq(F \cup {Gone}) /\ up \in Seq(F \cup {Gone}) /\ F \subseteq G
      /\ UNCHANGED <<tcp, relay, up>>
  BY DEF Framed, transport
<1> HIDE DEF F, G
<1>2. F \cup {Gone} \subseteq G \cup {Gone}
  BY <1>1
<1>3. \A S, T : S \subseteq T => Seq(S) \subseteq Seq(T)
  OBVIOUS
<1>4. tcp'.in \in Seq(G) /\ relay'.queue \in Seq(G \cup {Gone}) /\ up' \in Seq(G \cup {Gone})
  BY <1>1, <1>2, <1>3
<1>5. Fit(cl)' = G
  BY DEF Fit, G
<1> QED
  BY <1>4, <1>5 DEF Framed

\* Where no frame is under way, none is the wrong one.
LEMMA QuietFrames ==
  ASSUME TypeOK, Quieted, UNCHANGED transport
  PROVE  Framed'
<1>1. \A S, s : s \in Seq(S) /\ OnlyGone(s) => s \in Seq({Gone})
  <2> SUFFICES ASSUME NEW S, NEW s \in Seq(S), OnlyGone(s) PROVE s \in Seq({Gone})
    OBVIOUS
  <2>1. Len(s) \in Nat /\ s \in [1..Len(s) -> S] /\ DOMAIN s = 1..Len(s)
    BY LenProperties
  <2>2. s \in [1..Len(s) -> {Gone}]
    BY <2>1 DEF OnlyGone
  <2> QED
    BY <2>1, <2>2
<1>2. relay.queue \in Seq({Gone}) /\ up \in Seq({Gone})
  BY <1>1 DEF TypeOK, PipeOK, Relays, Quieted
<1>3. tcp.in = <<>>
  <2>1. tcp.in \in Seq(Frames)
    BY DEF TypeOK, PipeOK, Sockets
  <2>2. CASE tcp.in # <<>>
    <3>1. 1 \in DOMAIN tcp.in /\ tcp.in[1] \in Frames
      BY <2>1, <2>2, EmptySeq, LenProperties, ElementOfSeq
    <3> QED
      BY <3>1, NamesAssumption DEF Quieted, OnlyGone
  <2> QED
    BY <2>2
<1>4. \A T : Seq({Gone}) \subseteq Seq(T \cup {Gone})
  <2>1. \A S, T : S \subseteq T => Seq(S) \subseteq Seq(T)
    OBVIOUS
  <2>2. \A T : {Gone} \subseteq T \cup {Gone}
    OBVIOUS
  <2> QED
    BY <2>1, <2>2
<1>5. tcp'.in = <<>> /\ relay'.queue \in Seq({Gone}) /\ up' \in Seq({Gone})
  BY <1>2, <1>3 DEF transport
<1> DEFINE G == Fit(cl)'
<1>6. tcp'.in \in Seq(G) /\ relay'.queue \in Seq(G \cup {Gone}) /\ up' \in Seq(G \cup {Gone})
  <2> HIDE DEF G
  <2>1. <<>> \in Seq(G)
    OBVIOUS
  <2> QED
    BY <1>4, <1>5, <2>1
<1> QED
  BY <1>6 DEF Framed

\* A client that has read all that was said, wherever it goes.
LEMMA Rests ==
  ASSUME TypeOK, InTurn, UNCHANGED transport, cl'.buf = <<>>, Nothing(browser.chunks), Nothing(Data), tcp.out = <<>>,
         Framed', Following'
  PROVE  Speaking'
<1>1. UNCHANGED <<browser, up, down, relay, tcp>>
  BY DEF transport
<1>2. Data' = Data /\ Data \in Seq(Seq(Syms)) /\ browser.chunks \in Seq(Seq(Syms))
  BY <1>1, DataIs, DataStays DEF TypeOK, PipeOK, Browsers
<1>3. InTurn'
  BY <1>1 DEF InTurn
<1> HIDE DEF Data
<1>4. Answering'
  <2> DEFINE H == Heard(Awaited, sv.mode)'
  <2>1. browser.chunks \in Seq(Seq(H)) /\ Data \in Seq(Seq(H)) /\ <<>> \in Seq(H)
    <3> HIDE DEF H
    <3> QED
      BY <1>2, NothingIn
  <2>2. cl'.buf \in Seq(H) /\ browser'.chunks \in Seq(Seq(H)) /\ Data' \in Seq(Seq(H)) /\ tcp'.out \in Seq(H)
    <3> HIDE DEF H
    <3> QED
      BY <1>1, <1>2, <2>1
  <2> QED
    BY <2>2 DEF Answering
<1>5. Silent'
  BY <1>1, <1>2 DEF Silent, Nothing
<1>6. Ending'
  <2>1. Pieced(Data)' /\ ~SomeFinal(Data)'
    BY <1>2, NoReply DEF Pieced, SomeFinal, HasFinal, FinalLast
  <2>2. FinalLast(cl'.buf) /\ ~HasFinal(cl'.buf) /\ Pieced(browser.chunks) /\ ~SomeFinal(browser.chunks)
        /\ FinalLast(tcp'.out)
    BY <1>1, NoReply
  <2> QED
    BY <1>1, <2>1, <2>2 DEF Ending
<1> QED
  BY <1>3, <1>4, <1>5, <1>6 DEF Speaking

\* A client that has heard all, and is heard by nobody yet, asks the next line or begins its message.
LEMMA Anew ==
  ASSUME TypeOK, InTurn, UNCHANGED <<transport, sv>>, Quieted,
         cl'.buf = <<>>, Nothing(browser.chunks), Nothing(Data), tcp.out = <<>>, sv.mode # "start",
         Asks(cl') \/ (Begins(cl') /\ sv.mode \in {"data", "gone"})
  PROVE  Speaking'
<1>1. Framed'
  BY QuietFrames DEF transport
<1>2. Following'
  BY DEF Following, Asks, Begins, Commands
<1> QED
  BY <1>1, <1>2, Rests DEF transport

\* What a client that does not listen has heard, and how far the server is.
LEMMA Unheard ==
  ASSUME Speaking, ~Listens
  PROVE  /\ cl.buf = <<>> /\ Nothing(browser.chunks) /\ Nothing(Data) /\ tcp.out = <<>>
         /\ cl.pc \in {"body", "dot", "answer"} => sv.mode \in {"data", "gone"}
         /\ sv.mode = "start" => cl.pc \in {"open", "greeting"}
  BY DEF Speaking, Silent, Following

\* The connection is open, or was refused.
LEMMA OpenPairs ==
  ASSUME TypeOK, Pairing, Live, Open
  PROVE  Pairing'
<1>1. /\ cl \in Clients /\ cl.pc = "open" /\ UNCHANGED <<transport, sv>> /\ Speaking
      /\ cl.paired /\ cl.code \in {0, 250}
  BY DEF TypeOK, Open, Pairing, Stepping
<1>2. ~cl.abandoned /\ cl.left = <<>> /\ cl.sub = "write"
  BY <1>1 DEF Pairing, Stepping, Commands, Takes, Clients
<1>3. CASE cl' = [cl EXCEPT !.pc = "greeting", !.sub = "reply"]
  <2>1. /\ cl'.pc = "greeting" /\ cl'.sub = "reply" /\ cl'.left = cl.left /\ cl'.buf = cl.buf
        /\ cl'.code = cl.code /\ cl'.abandoned = cl.abandoned /\ cl'.paired = cl.paired
    BY <1>1, <1>3 DEF Clients
  <2>2. Stepping'
    BY <1>1, <1>2, <2>1 DEF Stepping, Takes
  <2>3. cl.buf = <<>> /\ Nothing(browser.chunks) /\ Nothing(Data) /\ tcp.out = <<>>
    BY <1>1, Unheard DEF Listens
  <2>4. Framed'
    <3>1. Fit(cl) \subseteq Fit(cl')
      BY <1>1 DEF Fit, Frames, Commands
    <3> QED
      BY <1>1, <3>1, FramesFit DEF Speaking
  <2>5. Following'
    <3>1. Data' = Data /\ UNCHANGED <<browser, tcp>>
      BY <1>1, DataStays DEF transport, TypeOK, PipeOK
    <3>2. Silent'
      BY <2>1, <2>3, <3>1 DEF Silent, Nothing
    <3> QED
      BY <2>1, <3>2 DEF Following
  <2>6. Speaking'
    BY <1>1, <2>1, <2>3, <2>4, <2>5, Rests DEF Speaking
  <2> QED
    BY <1>1, <2>1, <2>2, <2>6 DEF Pairing
<1>4. CASE cl' = [cl EXCEPT !.pc = "closed", !.answer = "refused"]
  <2>1. /\ cl'.pc = "closed" /\ cl'.sub = cl.sub /\ cl'.left = cl.left
        /\ cl'.code = cl.code /\ cl'.paired = cl.paired
    BY <1>1, <1>4 DEF Clients
  <2>2. Stepping' /\ ~Live'
    BY <1>1, <1>2, <2>1 DEF Stepping, Live
  <2> QED
    BY <1>1, <2>1, <2>2 DEF Pairing
<1> QED
  BY <1>3, <1>4 DEF Open

\* What a client has still to write, and what it then has under way.
LEMMA ToWrite ==
  ASSUME TypeOK, Stepping, Speaking, cl.sub = "write", cl.left # <<>>
  PROVE  /\ ~Listens /\ cl.pc \notin {"open", "closed", "answer"} /\ (~cl.abandoned \/ cl.pc = "bye")
         /\ ~HasEnd(tcp.in) /\ ~HasEnd(relay.queue) /\ ~HasEnd(up)
         /\ cl.pc \notin {"body", "dot"} => Fit(cl) = {}
<1>1. cl.pc \notin {"body", "dot"} => cl.pc # "answer" /\ Fit(cl) = {}
  BY DEF Stepping, Commands, Fit
<1>2. \A f \in Fit(cl) : ~Ends(f)
  <2>1. CASE cl.pc \in {"body", "dot"}
    <3>1. \A f \in Fit(cl) : "line" \in DOMAIN f /\ f.line # Dot /\ "cmd" \notin DOMAIN f
      BY <2>1, FitFrames DEF Fit
    <3> QED
      BY <3>1 DEF Ends
  <2>2. CASE cl.pc \notin {"body", "dot"}
    BY <1>1, <2>2
  <2> QED
    BY <2>1, <2>2
<1>3. \A S, s : s \in Seq(S) /\ (\A f \in S : ~Ends(f)) => ~HasEnd(s)
  <2> SUFFICES ASSUME NEW S, NEW s \in Seq(S), \A f \in S : ~Ends(f) PROVE ~HasEnd(s)
    OBVIOUS
  <2>1. \A i \in DOMAIN s : s[i] \in S
    BY LenProperties, ElementOfSeq
  <2> QED
    BY <2>1 DEF HasEnd
<1>4. \A f \in Fit(cl) \cup {Gone} : ~Ends(f)
  BY <1>2 DEF Ends
<1>5. ~HasEnd(tcp.in) /\ ~HasEnd(relay.queue) /\ ~HasEnd(up)
  BY <1>2, <1>3, <1>4 DEF Speaking, Framed
<1>6. ~Listens
  BY DEF Listens
<1>7. cl.pc \notin {"open", "closed", "answer"} /\ (~cl.abandoned \/ cl.pc = "bye")
  BY DEF Stepping, Commands
<1> QED
  BY <1>1, <1>5, <1>6, <1>7

\* A frame joins those under way.
LEMMA WritePairs ==
  ASSUME TypeOK, Apart, Pairing, Live, WriteFrame
  PROVE  Pairing'
<1> DEFINE f == Head(cl.left)
<1>1. /\ cl \in Clients /\ cl.sub = "write" /\ cl.left # <<>> /\ UNCHANGED sv /\ Speaking /\ Stepping
      /\ cl.paired /\ cl.left \in Seq(Frames)
  BY DEF TypeOK, WriteFrame, Pairing, Clients
<1>2. /\ cl'.pc = cl.pc /\ cl'.sub = cl.sub /\ cl'.left = Tail(cl.left) /\ cl'.buf = cl.buf
      /\ cl'.code = cl.code /\ cl'.abandoned = cl.abandoned /\ cl'.paired = cl.paired
  BY <1>1 DEF WriteFrame, Clients
<1>3. /\ ~Listens /\ cl.pc \notin {"open", "closed", "answer"}
      /\ ~HasEnd(tcp.in) /\ ~HasEnd(relay.queue) /\ ~HasEnd(up)
      /\ cl.pc \notin {"body", "dot"} => Fit(cl) = {}
  BY <1>1, ToWrite DEF Live, Stepping
<1>4. /\ cl.pc \in Commands => f = Line(cl.pc) /\ Tail(cl.left) = <<>>
      /\ cl.pc = "body" => f \in BodyLine /\ Tail(cl.left) \in Seq(BodyLine)
      /\ cl.pc = "dot" => f = DotFrame /\ Tail(cl.left) = <<>>
      /\ cl.pc \in Commands \/ cl.pc \in {"body", "dot"}
  <2>1. \A x : Head(<<x>>) = x /\ Tail(<<x>>) = <<>>
    OBVIOUS
  <2>2. CASE cl.pc \in Commands
    <3>1. cl.left = <<Line(cl.pc)>> /\ cl.pc \notin {"body", "dot"}
      BY <1>1, <2>2 DEF Stepping, Commands
    <3> QED
      BY <2>1, <2>2, <3>1
  <2>3. CASE cl.pc = "body"
    <3>1. cl.left \in Seq(BodyLine) /\ "body" \notin Commands
      BY <1>1, <2>3 DEF Stepping, Commands
    <3>2. f \in BodyLine /\ Tail(cl.left) \in Seq(BodyLine)
      BY <1>1, <3>1, HeadTailProperties
    <3> QED
      BY <2>3, <3>1, <3>2
  <2>4. CASE cl.pc = "dot"
    <3>1. cl.left = <<DotFrame>> /\ "dot" \notin Commands
      BY <1>1, <2>4 DEF Stepping, Commands
    <3> QED
      BY <2>1, <2>4, <3>1
  <2> QED
    BY <1>1, <2>2, <2>3, <2>4 DEF Stepping
<1>5. f \in Frames
  BY <1>1, HeadTailProperties
<1>6. Stepping'
  BY <1>1, <1>2, <1>4 DEF Stepping
<1> HIDE DEF f
<1>7. f \in Fit(cl') /\ Fit(cl) \subseteq Fit(cl') /\ f # Gone
  <2>1. CASE cl.pc \in Commands
    <3>1. f = Line(cl.pc) /\ cl'.left = <<>> /\ cl'.pc = cl.pc /\ cl.pc \notin {"body", "dot", "answer"}
      BY <1>2, <1>4, <2>1 DEF Commands
    <3>2. "cmd" \in DOMAIN f /\ f.cmd = cl.pc
      BY <3>1 DEF Line
    <3> QED
      BY <1>3, <1>5, <3>1, <3>2, NamesAssumption DEF Fit
  <2>2. CASE cl.pc = "body"
    BY <1>2, <1>4, <1>5, <2>2, NamesAssumption DEF Fit, BodyLine
  <2>3. CASE cl.pc = "dot"
    <3>1. "line" \in DOMAIN f /\ cl'.left = <<>>
      BY <1>2, <1>4, <2>3 DEF DotFrame
    <3> QED
      BY <1>2, <1>5, <2>3, <3>1, NamesAssumption DEF Fit
  <2> QED
    BY <1>4, <2>1, <2>2, <2>3
<1>8. /\ browser'.chunks = browser.chunks /\ UNCHANGED <<down, relay>> /\ tcp'.out = tcp.out
      /\ \/ Direct /\ UNCHANGED up /\ (tcp'.in = tcp.in \/ tcp'.in = Append(tcp.in, f))
         \/ up' = Append(up, f) /\ tcp'.in = tcp.in
  BY <1>1 DEF WriteFrame, SendFrame, TypeOK, PipeOK, Browsers, Sockets, f
<1> DEFINE F == Fit(cl)
           G == Fit(cl')
<1>9. /\ tcp.in \in Seq(G) /\ relay.queue \in Seq(G \cup {Gone}) /\ up \in Seq(G \cup {Gone})
      /\ f \in G /\ f \in G \cup {Gone}
  <2>1. F \subseteq G /\ F \cup {Gone} \subseteq G \cup {Gone} /\ f \in G
    BY <1>7
  <2>2. tcp.in \in Seq(F) /\ relay.queue \in Seq(F \cup {Gone}) /\ up \in Seq(F \cup {Gone})
    BY <1>1 DEF Speaking, Framed
  <2> HIDE DEF F, G
  <2>3. \A S, T : S \subseteq T => Seq(S) \subseteq Seq(T)
    OBVIOUS
  <2> QED
    BY <2>1, <2>2, <2>3
<1>10. Fit(cl)' = G
  BY DEF Fit
<1> HIDE DEF F, G
<1>11. Framed' /\ InTurn'
  <2>1. CASE Direct /\ UNCHANGED up /\ tcp'.in = tcp.in
    BY <1>1, <1>8, <1>9, <1>10, <2>1 DEF Speaking, Framed, InTurn
  <2>2. CASE Direct /\ UNCHANGED up /\ tcp'.in = Append(tcp.in, f)
    <3>1. tcp'.in \in Seq(G) /\ EndLast(tcp'.in)
      BY <1>3, <1>9, <2>2, EndsAppend
    <3>2. OnlyGone(relay.queue) /\ OnlyGone(up)
      BY <2>2 DEF Apart, OnlyGone
    <3> QED
      BY <1>1, <1>8, <1>9, <1>10, <2>2, <3>1, <3>2 DEF Speaking, Framed, InTurn
  <2>3. CASE up' = Append(up, f) /\ tcp'.in = tcp.in
    <3>1. up' \in Seq(G \cup {Gone}) /\ EndLast(up')
      BY <1>3, <1>9, <2>3, EndsAppend
    <3> QED
      BY <1>1, <1>3, <1>8, <1>9, <1>10, <2>3, <3>1 DEF Speaking, Framed, InTurn
  <2> QED
    BY <1>8, <2>1, <2>2, <2>3
<1>12. Data' = Data /\ Awaited' = Awaited
  BY <1>2, <1>8, DataStays DEF TypeOK, PipeOK, Awaited
<1>13. Answering' /\ Ending' /\ Silent'
  <2>1. Answering'
    BY <1>1, <1>2, <1>8, <1>12 DEF Speaking, Answering, Heard
  <2>2. Ending'
    <3>1. (Pieced(Data)' <=> Pieced(Data)) /\ (SomeFinal(Data)' <=> SomeFinal(Data)) /\ (Nothing(Data)' <=> Nothing(Data))
      BY <1>12 DEF Pieced, SomeFinal, Nothing, HasFinal, FinalLast
    <3> QED
      BY <1>1, <1>2, <1>8, <3>1 DEF Speaking, Ending
  <2>3. Silent'
    BY <1>1, <1>2, <1>3, <1>8, <1>12 DEF Speaking, Silent, Nothing
  <2> QED
    BY <2>1, <2>2, <2>3
<1>14. Following'
  <2>1. /\ cl.pc \in {"body", "dot", "answer"} => sv.mode \in {"data", "gone"}
        /\ sv.mode = "start" => cl.pc \in {"open", "greeting"}
    BY <1>1, <1>3, Unheard
  <2> QED
    BY <1>1, <1>2, <1>13, <2>1 DEF Following
<1> QED
  BY <1>1, <1>2, <1>6, <1>11, <1>13, <1>14 DEF Pairing, Speaking

\* A client that goes closes, and says nothing more that is answered.
LEMMA LeavesPairs ==
  ASSUME Pairing, cl'.paired = cl.paired, cl'.code \in {0, 250}, Leaves(cl')
  PROVE  Pairing' /\ ~Live'
<1>1. Stepping' /\ ~Live'
  BY StepsTo DEF Leaves, Live
<1> QED
  BY <1>1 DEF Pairing

\* A write that fails ends the submission, or the exchange: then nothing of it is under way.
LEMMA WriteFailsPairs ==
  ASSUME TypeOK, Pairing, Live, WriteFails
  PROVE  Pairing'
<1>1. /\ cl \in Clients /\ cl.sub = "write" /\ cl.left # <<>> /\ UNCHANGED <<transport, sv>> /\ Speaking
      /\ Stepping /\ cl.paired /\ cl.pc # "bye" /\ cl.code \in {0, 250}
  BY DEF TypeOK, WriteFails, Pairing, Live, Stepping
<1>2. /\ cl' = CASE cl.pc = "body" -> Failed(Abandoned(cl))
                 [] cl.pc = "dot" -> Unconfirmed(cl)
                 [] OTHER -> Failed(cl)
  BY DEF WriteFails
<1>3. /\ Leaves(Failed(cl)) \/ Asks(Failed(cl))
      /\ Keeps(cl, Failed(cl))
      /\ Leaves(Unconfirmed(cl)) /\ Keeps(cl, Unconfirmed(cl))
      /\ Leaves(Failed(Abandoned(cl))) /\ Keeps(cl, Failed(Abandoned(cl)))
  BY <1>1, FailedIs
<1>4. Keeps(cl, cl')
  BY <1>2, <1>3
<1>5. cl'.code \in {0, 250} /\ cl'.paired = cl.paired /\ cl'.buf = cl.buf
  BY <1>1, <1>4 DEF Keeps
<1>6. CASE Leaves(cl')
  BY <1>5, <1>6, LeavesPairs
<1>7. CASE ~Leaves(cl')
  <2>1. cl.pc \notin {"body", "dot"} /\ Asks(cl')
    BY <1>2, <1>3, <1>7
  <2>2. ~Listens /\ cl.pc \notin {"open", "answer"} /\ Fit(cl) = {}
    BY <1>1, <2>1, ToWrite
  <2>3. Quieted
    <3>1. tcp.in \in Seq({}) /\ relay.queue \in Seq({Gone}) /\ up \in Seq({Gone})
      <4>1. {} \cup {Gone} = {Gone}
        OBVIOUS
      <4> QED
        BY <1>1, <2>2, <4>1 DEF Speaking, Framed
    <3> QED
      BY <3>1 DEF Quieted, OnlyGone
  <2>4. /\ cl.buf = <<>> /\ Nothing(browser.chunks) /\ Nothing(Data) /\ tcp.out = <<>> /\ sv.mode # "start"
    <3>1. cl.pc # "greeting"
      BY <1>1 DEF Stepping, Commands
    <3> QED
      BY <1>1, <2>2, <3>1, Unheard
  <2>5. Speaking'
    BY <1>1, <1>5, <2>1, <2>3, <2>4, Anew DEF Speaking
  <2>6. Stepping'
    BY <1>5, <2>1, StepsTo
  <2> QED
    BY <1>1, <1>5, <2>5, <2>6 DEF Pairing
<1> QED
  BY <1>6, <1>7

\* Nothing is left to write: the client flushes, or waits for the reply, which may be there.
LEMMA WrittenPairs ==
  ASSUME TypeOK, Pairing, Live, Written
  PROVE  Pairing'
<1>1. /\ cl \in Clients /\ cl.sub = "write" /\ cl.left = <<>> /\ UNCHANGED <<transport, sv>> /\ Speaking
      /\ Stepping /\ cl.paired /\ cl.pc \notin {"bye", "open", "closed"} /\ cl.code \in {0, 250} /\ ~cl.abandoned
  BY DEF TypeOK, Written, Pairing, Stepping
<1>2. /\ cl'.left = <<>> /\ cl'.buf = cl.buf /\ cl'.code \in {0, 250}
      /\ cl'.abandoned = cl.abandoned /\ cl'.paired = cl.paired
      /\ cl.pc = "body" => cl'.pc = "body" /\ cl'.sub = "flush"
      /\ cl.pc = "dot" => cl'.pc = "answer" /\ cl'.sub = "reply"
      /\ cl.pc \notin {"body", "dot"} => cl'.pc = cl.pc /\ cl'.sub = "reply"
  <2>1. CASE cl.pc = "body"
    BY <1>1, <2>1 DEF Written, Clients
  <2>2. CASE cl.pc = "dot"
    BY <1>1, <2>2 DEF Written, Clients
  <2>3. CASE cl.pc \notin {"body", "dot"}
    BY <1>1, <2>3 DEF Written, Clients
  <2> QED
    BY <2>1, <2>2, <2>3
<1>3. cl.pc \in {"body", "dot"} \/ cl.pc = "answer" \/ cl.pc \in DOMAIN Takes
  BY <1>1 DEF Clients, Pcs, Commands, Takes
<1>4. Stepping'
  BY <1>1, <1>2, <1>3 DEF Stepping, Takes
<1>5. Framed'
  <2>1. Fit(cl) \subseteq Fit(cl')
    BY <1>1, <1>2 DEF Fit
  <2> QED
    BY <1>1, <2>1, FramesFit DEF Speaking
<1>6. UNCHANGED <<browser, up, down, relay, tcp>>
  BY <1>1 DEF transport
<1>7. Data' = Data /\ Awaited' = Awaited
  BY <1>2, <1>6, DataStays DEF TypeOK, PipeOK, Awaited
<1>8. Answering'
  BY <1>1, <1>2, <1>6, <1>7 DEF Speaking, Answering, Heard
<1>9. Ending' /\ InTurn'
  <2>1. (Pieced(Data)' <=> Pieced(Data)) /\ (SomeFinal(Data)' <=> SomeFinal(Data)) /\ (Nothing(Data)' <=> Nothing(Data))
    BY <1>7 DEF Pieced, SomeFinal, Nothing, HasFinal, FinalLast
  <2> QED
    BY <1>1, <1>2, <1>6, <2>1 DEF Speaking, Ending, InTurn
<1>10. (Silent => Silent') /\ (Quieted => Quieted') /\ (Listens => Listens')
  BY <1>1, <1>2, <1>6, <1>7 DEF Silent, Nothing, Quieted, Listens
<1>11. Following'
  BY <1>1, <1>2, <1>10 DEF Speaking, Following
<1> QED
  BY <1>1, <1>2, <1>4, <1>5, <1>8, <1>9, <1>10, <1>11 DEF Pairing, Speaking

\* The end of the message follows its lines.
LEMMA FlushPairs ==
  ASSUME TypeOK, Pairing, Live, Flush
  PROVE  Pairing'
<1>1. /\ cl \in Clients /\ cl.sub = "flush" /\ cl.left = <<>> /\ cl.pc = "body" /\ UNCHANGED <<transport, sv>>
      /\ Speaking /\ Stepping /\ cl.paired /\ cl.code \in {0, 250} /\ ~cl.abandoned
  BY DEF TypeOK, Flush, Pairing, Stepping
<1>2. CASE cl' = Failed(Abandoned(cl))
  <2>1. Leaves(cl') /\ Keeps(cl, cl')
    BY <1>1, <1>2, FailedIs
  <2> QED
    BY <1>1, <2>1, LeavesPairs DEF Keeps
<1>3. CASE cl' = [cl EXCEPT !.pc = "dot", !.sub = "write", !.left = <<DotFrame>>]
  <2>1. /\ cl'.pc = "dot" /\ cl'.sub = "write" /\ cl'.left = <<DotFrame>> /\ cl'.buf = cl.buf
        /\ cl'.code = cl.code /\ cl'.abandoned = cl.abandoned /\ cl'.paired = cl.paired
    BY <1>1, <1>3 DEF Clients
  <2>2. Stepping'
    BY <1>1, <2>1 DEF Stepping, Commands
  <2>3. /\ cl.buf = <<>> /\ Nothing(browser.chunks) /\ Nothing(Data) /\ tcp.out = <<>>
        /\ sv.mode \in {"data", "gone"}
    BY <1>1, Unheard DEF Listens
  <2>4. Framed'
    <3>1. Fit(cl) \subseteq Fit(cl')
      BY <1>1, <2>1 DEF Fit
    <3> QED
      BY <1>1, <3>1, FramesFit DEF Speaking
  <2>5. Following'
    BY <1>1, <2>3 DEF Following
  <2>6. Speaking'
    BY <1>1, <2>1, <2>3, <2>4, <2>5, Rests DEF Speaking
  <2> QED
    BY <1>1, <2>1, <2>2, <2>6 DEF Pairing
<1> QED
  BY <1>2, <1>3 DEF Flush, DotFrame

\* The reply never came.
LEMMA TimeoutPairs ==
  ASSUME TypeOK, Pairing, ReplyTimeout
  PROVE  Pairing'
<1>1. cl \in Clients /\ cl.sub = "reply" /\ cl' = Failed(Abandoned(cl)) /\ cl.code \in {0, 250}
      /\ (cl.pc = "bye" => cl.sub = "write")
  BY DEF TypeOK, ReplyTimeout, TimedOut, Pairing, Stepping
<1>2. Leaves(cl') /\ Keeps(cl, cl')
  BY <1>1, FailedIs
<1> QED
  BY <1>1, <1>2, LeavesPairs DEF Keeps

\* A client that goes on but for the line it read.
LEMMA RestOf ==
  ASSUME NEW d \in Clients
  PROVE  LET r == [d EXCEPT !.buf = Tail(@)] IN
         /\ r.buf = Tail(d.buf) /\ r.pc = d.pc /\ r.sub = d.sub /\ r.left = d.left /\ r.code = d.code
         /\ r.abandoned = d.abandoned /\ r.paired = d.paired
         /\ \A p : LET q == [r EXCEPT !.paired = p] IN
              /\ q.buf = Tail(d.buf) /\ q.pc = d.pc /\ q.sub = d.sub /\ q.left = d.left /\ q.code = d.code
              /\ q.abandoned = d.abandoned /\ q.paired = p
         /\ \A n : LET q == [r EXCEPT !.code = n] IN
              /\ q.buf = Tail(d.buf) /\ q.pc = d.pc /\ q.sub = d.sub /\ q.left = d.left /\ q.code = n
              /\ q.abandoned = d.abandoned /\ q.paired = d.paired
<1> DEFINE r == [d EXCEPT !.buf = Tail(@)]
<1>1. r = [d EXCEPT !.buf = Tail(d.buf)]
  BY DEF Clients
<1>2. /\ r.buf = Tail(d.buf) /\ r.pc = d.pc /\ r.sub = d.sub /\ r.left = d.left /\ r.code = d.code
      /\ r.abandoned = d.abandoned /\ r.paired = d.paired
      /\ DOMAIN r = DOMAIN d /\ {"buf", "pc", "sub", "left", "code", "abandoned", "paired"} \subseteq DOMAIN r
  BY <1>1 DEF Clients
<1> HIDE DEF r
<1>3. \A p : LET q == [r EXCEPT !.paired = p] IN
        /\ q.buf = Tail(d.buf) /\ q.pc = d.pc /\ q.sub = d.sub /\ q.left = d.left /\ q.code = d.code
        /\ q.abandoned = d.abandoned /\ q.paired = p
  BY <1>2
<1>4. \A n : LET q == [r EXCEPT !.code = n] IN
        /\ q.buf = Tail(d.buf) /\ q.pc = d.pc /\ q.sub = d.sub /\ q.left = d.left /\ q.code = n
        /\ q.abandoned = d.abandoned /\ q.paired = d.paired
  BY <1>2
<1> QED
  BY <1>2, <1>3, <1>4 DEF r

\* The client's next chunk is what it reads from.
LEMMA RefillSpeaks ==
  ASSUME TypeOK, Speaking, cl.buf = <<>>, browser.chunks # <<>>,
         cl' = [cl EXCEPT !.buf = Head(browser.chunks)],
         browser' = [browser EXCEPT !.chunks = Tail(@)], UNCHANGED <<up, down, relay, tcp, sv>>
  PROVE  Speaking'
<1> DEFINE H == Heard(Awaited, sv.mode)
           h == Head(browser.chunks)
           t == Tail(browser.chunks)
<1>1. /\ cl'.pc = cl.pc /\ cl'.sub = cl.sub /\ cl'.left = cl.left /\ cl'.buf = h /\ browser'.chunks = t
  BY DEF TypeOK, PipeOK, Browsers, Clients
<1>2. Fit(cl)' = Fit(cl) /\ Awaited' = Awaited /\ Data' = Data /\ (Listens' <=> Listens)
  BY <1>1, DataStays DEF Fit, Awaited, TypeOK, PipeOK, Listens
<1>3. Framed' /\ InTurn' /\ (Quieted' <=> Quieted)
  BY <1>2 DEF Speaking, Framed, InTurn, Quieted
<1>4. /\ browser.chunks \in Seq(Seq(H)) /\ Data \in Seq(Seq(H)) /\ tcp.out \in Seq(H) /\ H' = H
      /\ Pieced(browser.chunks)
  BY <1>2 DEF Speaking, Answering, Ending, Heard
<1> HIDE DEF H
<1>5. /\ t \in Seq(Seq(H)) /\ h \in Seq(H) /\ Pieced(t) /\ FinalLast(h)
      /\ HasFinal(h) => Nothing(t) /\ SomeFinal(browser.chunks)
      /\ SomeFinal(t) => SomeFinal(browser.chunks)
      /\ Nothing(browser.chunks) => Nothing(t) /\ h = <<>>
  BY <1>4, PieceTail
<1> HIDE DEF h, t
<1>6. Answering'
  BY <1>1, <1>2, <1>4, <1>5 DEF Answering, H
<1>7. (Pieced(Data)' <=> Pieced(Data)) /\ (SomeFinal(Data)' <=> SomeFinal(Data)) /\ (Nothing(Data)' <=> Nothing(Data))
  BY <1>2 DEF Pieced, SomeFinal, Nothing, HasFinal, FinalLast
<1>8. Ending'
  BY <1>1, <1>5, <1>7 DEF Speaking, Ending
<1>9. Silent => Silent'
  BY <1>1, <1>5, <1>7 DEF Silent
<1>10. Following'
  BY <1>1, <1>2, <1>3, <1>9 DEF Speaking, Following
<1> QED
  BY <1>2, <1>3, <1>6, <1>8, <1>9, <1>10 DEF Speaking

\* A line after which more come.
LEMMA MoreSpeaks ==
  ASSUME TypeOK, Speaking, cl.buf # <<>>, UNCHANGED <<transport, sv>>, cl'.buf = Tail(cl.buf),
         cl'.pc = cl.pc, cl'.sub = cl.sub, cl'.left = cl.left
  PROVE  Speaking'
<1> DEFINE H == Heard(Awaited, sv.mode)
<1>1. UNCHANGED <<browser, up, down, relay, tcp>>
  BY DEF transport
<1>2. Fit(cl)' = Fit(cl) /\ Awaited' = Awaited /\ Data' = Data /\ (Listens' <=> Listens)
  BY <1>1, DataStays DEF Fit, Awaited, TypeOK, PipeOK, Listens
<1>3. Framed' /\ InTurn' /\ (Quieted' <=> Quieted)
  BY <1>1, <1>2 DEF Speaking, Framed, InTurn, Quieted
<1>4. /\ cl.buf \in Seq(H) /\ browser.chunks \in Seq(Seq(H)) /\ Data \in Seq(Seq(H)) /\ tcp.out \in Seq(H)
      /\ H' = H /\ FinalLast(cl.buf)
  BY <1>2 DEF Speaking, Answering, Ending, Heard
<1> HIDE DEF H
<1>5. cl'.buf \in Seq(H) /\ FinalLast(cl'.buf) /\ (HasFinal(cl'.buf) => HasFinal(cl.buf))
  BY <1>4, FinalTail
<1>6. Answering'
  BY <1>1, <1>2, <1>4, <1>5 DEF Answering, H
<1>7. (Pieced(Data)' <=> Pieced(Data)) /\ (SomeFinal(Data)' <=> SomeFinal(Data)) /\ (Nothing(Data)' <=> Nothing(Data))
  BY <1>2 DEF Pieced, SomeFinal, Nothing, HasFinal, FinalLast
<1>8. Ending'
  BY <1>1, <1>5, <1>7 DEF Speaking, Ending
<1>9. ~Silent
  BY DEF Silent
<1>10. Following' /\ Listens' /\ Quieted'
  BY <1>2, <1>3, <1>9 DEF Speaking, Following
<1> QED
  BY <1>3, <1>6, <1>8, <1>10 DEF Speaking

\* A line of the reply: what it is, and that the end of a reply leaves nothing behind it.
LEMMA LineIs ==
  ASSUME TypeOK, Stepping, Speaking, cl.sub = "reply", cl.buf # <<>>
  PROVE  LET l == Head(cl.buf) IN
         /\ l \in Syms /\ Quieted /\ sv.mode # "start"
         /\ l # Junk => /\ l.to = cl.pc /\ l.code \in Nat /\ (l.more => l.code = 250)
                        /\ cl.pc = "data" /\ l.code = 354 => sv.mode \in {"data", "gone"}
         /\ Final(l) => /\ Tail(cl.buf) = <<>> /\ Nothing(browser.chunks) /\ Nothing(Data) /\ tcp.out = <<>>
<1> DEFINE l == Head(cl.buf)
           H == Heard(cl.pc, sv.mode)
<1>1. ~Silent /\ Quieted /\ sv.mode # "start"
  BY DEF Speaking, Following, Silent
<1>2. Awaited = cl.pc
  BY DEF Stepping, Takes, Awaited
<1>3. cl.buf \in Seq(H) /\ FinalLast(cl.buf)
  BY <1>2 DEF Speaking, Answering, Ending
<1> HIDE DEF H
<1>4. l \in H /\ (Final(l) => Tail(cl.buf) = <<>> /\ HasFinal(cl.buf))
  BY <1>3, FinalTail
<1>5. l # Junk => l.code \in Nat
  BY <1>4 DEF H, Heard, Syms, Replies
<1> HIDE DEF l
<1>6. Final(l) => Tail(cl.buf) = <<>> /\ Nothing(browser.chunks) /\ Nothing(Data) /\ tcp.out = <<>>
  BY <1>4 DEF Speaking, Ending
<1>7. /\ l \in Syms
      /\ l # Junk => /\ l.to = cl.pc /\ (l.more => l.code = 250)
                     /\ cl.pc = "data" /\ l.code = 354 => sv.mode \in {"data", "gone"}
  BY <1>4 DEF H, Heard
<1> QED
  BY <1>1, <1>5, <1>6, <1>7 DEF l

\* The client reads its reply: the line is of it, and at its end nothing else is on its way.
LEMMA ReadPairs ==
  ASSUME TypeOK, Pairing, ReadLine
  PROVE  Pairing'
<1>1. /\ cl \in Clients /\ cl.sub = "reply" /\ UNCHANGED sv /\ cl.paired /\ Stepping
      /\ cl.pc \notin {"bye", "closed"} /\ cl.code \in {0, 250}
  BY DEF TypeOK, ReadLine, Pairing, Stepping, Takes
<1>2. Speaking
  BY <1>1 DEF Live, Pairing
<1>3. /\ Leaves(Failed(cl)) \/ Asks(Failed(cl))
      /\ Keeps(cl, Failed(cl)) /\ Failed(cl) \in Clients
  BY <1>1, FailedIs, Stops
<1>4. CASE cl.buf = <<>> /\ browser.chunks # <<>>
  <2>1. /\ cl' = [cl EXCEPT !.buf = Head(browser.chunks)]
        /\ browser' = [browser EXCEPT !.chunks = Tail(@)] /\ UNCHANGED <<up, down, relay, tcp>>
    BY <1>4 DEF ReadLine
  <2>2. Speaking'
    BY <1>1, <1>2, <1>4, <2>1, RefillSpeaks
  <2>3. /\ cl'.pc = cl.pc /\ cl'.sub = cl.sub /\ cl'.left = cl.left /\ cl'.code = cl.code
        /\ cl'.abandoned = cl.abandoned /\ cl'.paired = cl.paired
    BY <1>1, <2>1 DEF Clients
  <2>4. Stepping'
    BY <1>1, <2>3 DEF Stepping
  <2> QED
    BY <1>1, <2>2, <2>3, <2>4 DEF Pairing
<1>5. CASE cl.buf = <<>> /\ browser.chunks = <<>>
  <2>1. browser.ended /\ cl' = Failed(cl) /\ UNCHANGED transport
    BY <1>5 DEF ReadLine
  <2>2. browser'.ended
    BY <2>1 DEF transport
  <2>3. Stepping' /\ ~Live'
    <3>1. Stepping'
      BY <1>1, <1>3, <2>1, StepsTo DEF Keeps
    <3>2. CASE Leaves(cl')
      BY <3>1, <3>2 DEF Leaves, Live
    <3>3. CASE Asks(cl')
      <4>1. cl'.left # <<>> /\ cl'.sub = "write"
        BY <3>3 DEF Asks
      <4> QED
        BY <2>2, <3>1, <4>1 DEF Live
    <3> QED
      BY <1>3, <2>1, <3>1, <3>2, <3>3
  <2> QED
    BY <1>1, <1>3, <2>1, <2>3 DEF Pairing, Keeps
<1>6. CASE cl.buf # <<>>
  <2> DEFINE l == Head(cl.buf)
             rest(c) == [c EXCEPT !.buf = Tail(@)]
  <2>1. /\ UNCHANGED transport
        /\ cl' = IF l = Junk \/ (cl.code # 0 /\ l.code # cl.code) THEN rest(Failed(cl))
                 ELSE IF l.more THEN [rest(cl) EXCEPT !.code = l.code]
                 ELSE [rest(Replied(l.code)) EXCEPT !.paired = @ /\ l.to \in {cl.pc, "any"}]
    BY <1>6 DEF ReadLine
  <2>2. /\ l \in Syms /\ Quieted /\ sv.mode # "start"
        /\ l # Junk => /\ l.to = cl.pc /\ l.code \in Nat /\ (l.more => l.code = 250)
                       /\ cl.pc = "data" /\ l.code = 354 => sv.mode \in {"data", "gone"}
        /\ Final(l) => /\ Tail(cl.buf) = <<>> /\ Nothing(browser.chunks) /\ Nothing(Data) /\ tcp.out = <<>>
    BY <1>1, <1>2, <1>6, LineIs
  <2> HIDE DEF l
  <2>3. ASSUME NEW d \in Clients, Keeps(cl, d), Final(l),
               cl'.buf = Tail(d.buf), cl'.pc = d.pc, cl'.sub = d.sub, cl'.left = d.left, cl'.code = d.code,
               cl'.abandoned = d.abandoned, cl'.paired,
               Leaves(d) \/ Asks(d) \/ (Begins(d) /\ sv.mode \in {"data", "gone"})
        PROVE  Pairing'
    <3>1. Leaves(cl') \/ Asks(cl') \/ (Begins(cl') /\ sv.mode \in {"data", "gone"})
      BY <2>3 DEF Leaves, Asks, Begins
    <3>2. cl'.code \in {0, 250} /\ cl'.buf = <<>>
      BY <1>1, <2>2, <2>3 DEF Keeps
    <3>3. Stepping'
      BY <3>1, <3>2, StepsTo
    <3>4. CASE Leaves(cl')
      BY <2>3, <3>3, <3>4 DEF Pairing, Live, Leaves
    <3>5. CASE ~Leaves(cl')
      <4>1. Speaking'
        BY <1>1, <1>2, <2>1, <2>2, <2>3, <3>1, <3>2, <3>5, Anew DEF Speaking
      <4> QED
        BY <2>3, <3>3, <4>1 DEF Pairing
    <3> QED
      BY <3>4, <3>5
  <2>4. CASE l = Junk \/ (cl.code # 0 /\ l.code # cl.code)
    <3> DEFINE d == Failed(cl)
    <3>1. Final(l)
      BY <1>1, <2>2, <2>4 DEF Final
    <3>2. cl' = [d EXCEPT !.buf = Tail(@)]
      BY <2>1, <2>4
    <3>3. d \in Clients /\ Keeps(cl, d) /\ (Leaves(d) \/ Asks(d))
      BY <1>3
    <3> HIDE DEF d
    <3>4. /\ cl'.buf = Tail(d.buf) /\ cl'.pc = d.pc /\ cl'.sub = d.sub /\ cl'.left = d.left /\ cl'.code = d.code
          /\ cl'.abandoned = d.abandoned /\ cl'.paired = d.paired
      BY <3>2, <3>3, RestOf
    <3>5. cl'.paired
      BY <1>1, <3>3, <3>4 DEF Keeps
    <3> QED
      BY <2>3, <3>1, <3>3, <3>4, <3>5
  <2>5. CASE l # Junk /\ ~(cl.code # 0 /\ l.code # cl.code) /\ l.more
    <3> DEFINE c == cl
               n == l.code
               r == [c EXCEPT !.buf = Tail(@)]
    <3>1. cl' = [r EXCEPT !.code = n] /\ c \in Clients
      BY <1>1, <2>1, <2>5
    <3> HIDE DEF c, n
    <3>0. /\ cl'.buf = Tail(c.buf) /\ cl'.pc = c.pc /\ cl'.sub = c.sub /\ cl'.left = c.left /\ cl'.code = n
          /\ cl'.abandoned = c.abandoned /\ cl'.paired = c.paired
      BY <3>1, RestOf
    <3>2. /\ cl'.buf = Tail(cl.buf) /\ cl'.pc = cl.pc /\ cl'.sub = cl.sub /\ cl'.left = cl.left /\ cl'.code = l.code
          /\ cl'.abandoned = cl.abandoned /\ cl'.paired = cl.paired
      BY <3>0 DEF c, n
    <3>3. Speaking'
      BY <1>1, <1>2, <1>6, <2>1, <3>2, MoreSpeaks
    <3>4. Stepping'
      BY <1>1, <2>2, <2>5, <3>2 DEF Stepping
    <3> QED
      BY <1>1, <3>2, <3>3, <3>4 DEF Pairing
  <2>6. CASE l # Junk /\ ~(cl.code # 0 /\ l.code # cl.code) /\ ~l.more
    <3> DEFINE d == Replied(l.code)
               r == [d EXCEPT !.buf = Tail(@)]
               q == r.paired /\ l.to \in {cl.pc, "any"}
    <3>1. Final(l)
      BY <2>6 DEF Final
    <3>2. cl' = [r EXCEPT !.paired = q]
      BY <2>1, <2>6
    <3>3. l.code \in Nat /\ l.to = cl.pc /\ (cl.pc = "data" /\ l.code = 354 => sv.mode \in {"data", "gone"})
      BY <2>2, <2>6
    <3>4. /\ d \in Clients /\ Keeps(cl, d)
          /\ Leaves(d) \/ Asks(d) \/ (cl.pc = "data" /\ l.code = 354 /\ Begins(d))
      BY <1>1, <3>3, GoesOn, RepliedIs DEF TypeOK
    <3> HIDE DEF d
    <3>5. r.paired = d.paired
      BY <3>4, RestOf
    <3>6. q
      BY <1>1, <3>3, <3>4, <3>5 DEF Keeps
    <3> HIDE DEF q
    <3>7. /\ cl'.buf = Tail(d.buf) /\ cl'.pc = d.pc /\ cl'.sub = d.sub /\ cl'.left = d.left /\ cl'.code = d.code
          /\ cl'.abandoned = d.abandoned /\ cl'.paired = q
      BY <3>2, <3>4, RestOf
    <3>8. cl'.paired
      BY <3>6, <3>7
    <3> QED
      BY <2>3, <3>1, <3>3, <3>4, <3>7, <3>8
  <2> QED
    BY <2>4, <2>5, <2>6
<1> QED
  BY <1>4, <1>5, <1>6

\* A client that speaks no more only closes.
LEMMA DeadPairs ==
  ASSUME TypeOK, Pairing, ~Live, Open \/ WriteFrame \/ WriteFails \/ Written \/ Flush \/ Close
  PROVE  Pairing'
<1>1. /\ cl \in Clients /\ cl.paired /\ Stepping /\ cl.code \in {0, 250}
      /\ cl.pc \in {"bye", "closed"} => cl.sub = "write"
      /\ cl.pc \in {"bye", "closed"} \/ (browser.ended /\ cl.sub = "write" /\ cl.left # <<>>)
  BY DEF TypeOK, Pairing, Stepping, Live
<1>2. cl.left # <<>> => cl.pc \notin {"open", "closed"} /\ (cl.pc = "bye" => cl.left = <<Line("bye")>>)
  BY <1>1 DEF Stepping, Commands
<1>3. CASE Open \/ Written \/ Flush
  BY <1>1, <1>2, <1>3 DEF Open, Written, Flush, Stepping
<1>4. CASE WriteFrame
  <2>1. cl.pc = "bye" /\ cl.left = <<Line("bye")>> /\ cl.sub = "write"
    BY <1>1, <1>2, <1>4 DEF WriteFrame
  <2>2. Tail(cl.left) = <<>>
    BY <2>1
  <2>3. /\ cl'.pc = "bye" /\ cl'.left = <<>> /\ cl'.sub = "write" /\ cl'.code = cl.code
        /\ cl'.paired = cl.paired
    BY <1>1, <1>4, <2>1, <2>2 DEF WriteFrame, Clients
  <2>4. Leaves(cl')
    BY <2>3 DEF Leaves
  <2> QED
    BY <1>1, <2>3, <2>4, LeavesPairs
<1>5. CASE WriteFails
  <2>1. /\ Leaves(Failed(cl)) \/ Asks(Failed(cl))
        /\ Keeps(cl, Failed(cl))
        /\ Leaves(Unconfirmed(cl)) /\ Keeps(cl, Unconfirmed(cl))
        /\ Leaves(Failed(Abandoned(cl))) /\ Keeps(cl, Failed(Abandoned(cl)))
    BY <1>1, FailedIs
  <2>2. /\ cl' = Failed(cl) \/ cl' = Unconfirmed(cl) \/ cl' = Failed(Abandoned(cl))
        /\ UNCHANGED transport
    BY <1>5 DEF WriteFails
  <2>3. Keeps(cl, cl') /\ (Leaves(cl') \/ Asks(cl'))
    BY <2>1, <2>2
  <2>4. CASE Leaves(cl')
    BY <1>1, <2>3, <2>4, LeavesPairs DEF Keeps
  <2>5. CASE ~Leaves(cl')
    <3>1. Asks(cl') /\ cl'.code \in {0, 250} /\ cl'.paired
      BY <1>1, <2>3, <2>5 DEF Keeps
    <3>2. Stepping'
      BY <3>1, StepsTo
    <3>3. browser.ended
      <4>1. CASE cl.pc \in {"bye", "closed"}
        <5>1. cl.pc = "bye"
          BY <1>2, <1>5, <4>1 DEF WriteFails
        <5>2. cl' = Failed(cl) /\ Failed(cl) = [cl EXCEPT !.left = <<>>]
          BY <1>5, <5>1 DEF WriteFails, Failed
        <5>3. Leaves(cl')
          <6>1. cl'.pc = cl.pc /\ cl'.sub = cl.sub /\ cl'.left = <<>>
            BY <1>1, <5>2 DEF Clients
          <6> QED
            BY <1>1, <5>1, <6>1 DEF Leaves
        <5> QED
          BY <2>5, <5>3
      <4> QED
        BY <1>1, <4>1
    <3>4. ~Live'
      <4>1. cl'.left # <<>> /\ cl'.sub = "write" /\ browser'.ended
        BY <2>2, <3>1, <3>3 DEF Asks, transport
      <4> QED
        BY <4>1 DEF Live
    <3> QED
      BY <3>1, <3>2, <3>4 DEF Pairing
  <2> QED
    BY <2>4, <2>5
<1>6. CASE Close
  <2>1. cl.pc = "bye" /\ cl.left = <<>> /\ cl.sub = "write"
    BY <1>1, <1>6 DEF Close
  <2>2. /\ cl'.pc = "closed" /\ cl'.left = cl.left /\ cl'.sub = cl.sub /\ cl'.code = cl.code
        /\ cl'.paired = cl.paired
    BY <1>1, <1>6 DEF Close, Clients
  <2>3. Stepping' /\ ~Live'
    BY <1>1, <2>1, <2>2 DEF Stepping, Live
  <2> QED
    BY <1>1, <2>2, <2>3 DEF Pairing
<1> QED
  BY <1>3, <1>4, <1>5, <1>6

\* The client's steps, and its timer.
LEMMA ClientPairs ==
  ASSUME TypeOK, Apart, Pairing, Client \/ ReplyTimeout
  PROVE  Pairing'
<1>1. CASE ReplyTimeout
  BY <1>1, TimeoutPairs
<1>2. CASE ReadLine
  BY <1>2, ReadPairs
<1>3. CASE ~Live /\ Client /\ ~ReadLine
  BY <1>3, DeadPairs DEF Client
<1>4. CASE Live /\ Client /\ ~ReadLine
  <2>1. ~Close
    BY <1>4 DEF Close, Live
  <2> QED
    BY <1>4, <2>1, OpenPairs, WritePairs, WriteFailsPairs, WrittenPairs, FlushPairs DEF Client
<1> QED
  BY <1>1, <1>2, <1>3, <1>4

\* An end that has closed stays closed, whatever moves.
LEMMA EndedStays ==
  ASSUME TypeOK, Server \/ Transport \/ AckStall \/ Fault, browser.ended
  PROVE  browser'.ended
<1>1. browser \in Browsers
  BY DEF TypeOK, PipeOK
<1>2. CASE Server
  BY <1>2 DEF Server, ServerGreets, ServerAnswers, ServerReadsMessage, ServerLeaves
<1>3. CASE Transport
  <2>1. CASE TakeDown
    BY <1>1, <2>1 DEF TakeDown, Ended, Browsers
  <2>2. CASE RelayTakes \/ RelayWrites \/ RelayFins \/ RelayReads \/ RelayReadEnds \/ RelayEnds
    BY <2>2 DEF RelayTakes, RelayWrites, RelayFins, RelayReads, RelayReadEnds, RelayEnds
  <2> QED
    BY <1>3, <2>1, <2>2 DEF Transport, Moves, TakeSocket
<1>4. CASE AckStall
  BY <1>4 DEF AckStall, EndTransport, transport
<1>5. CASE Fault
  BY <1>5 DEF Fault, WsDrops, TcpDies
<1> QED
  BY <1>2, <1>3, <1>4, <1>5

\* The server, the network and the watchdogs of the connection.
LEMMA OtherPairs ==
  ASSUME TypeOK, Apart, Pairing, Server \/ Transport \/ AckStall \/ Fault
  PROVE  Pairing'
<1>1. UNCHANGED cl /\ PipeOK
  BY DEF TypeOK, Server, ServerGreets, ServerAnswers, ServerReadsMessage, ServerLeaves, Transport, AckStall, Fault
<1>2. cl'.paired /\ Stepping'
  BY <1>1 DEF Pairing, Stepping
<1>3. Live' => Live
  BY <1>1, EndedStays DEF Live
<1>4. ASSUME Live
      PROVE  Speaking'
  <2>1. Speaking /\ Stepping
    BY <1>4 DEF Pairing
  <2>2. CASE Server
    BY <2>1, <2>2, ServerSpeaks
  <2>3. CASE Transport
    <3>1. UNCHANGED <<cl, sv>>
      BY <2>3 DEF Transport
    <3> QED
      BY <1>1, <2>1, <2>3, <3>1, TakeSpeaks, RelayTakesSpeaks, RelayWritesSpeaks, RelayReadsSpeaks
         DEF Transport, Moves
  <2>4. CASE AckStall
    BY <1>1, <2>1, <2>4, EndSpeaks DEF AckStall
  <2>5. CASE Fault
    BY <1>1, <2>1, <2>5, FaultSpeaks DEF Fault
  <2> QED
    BY <2>2, <2>3, <2>4, <2>5
<1> QED
  BY <1>2, <1>3, <1>4 DEF Pairing

\* At first nothing was written and nothing said.
LEMMA PairInit == Init => Pairing
<1> SUFFICES ASSUME Init PROVE Pairing
  OBVIOUS
<1>1. /\ cl.pc = "open" /\ cl.sub = "write" /\ cl.left = <<>> /\ cl.buf = <<>> /\ cl.code = 0
      /\ cl.abandoned = FALSE /\ cl.paired = TRUE /\ sv.mode = "start"
      /\ browser.chunks = <<>> /\ up = <<>> /\ down = <<>> /\ relay.queue = <<>>
      /\ tcp.in = <<>> /\ tcp.out = <<>>
  BY DEF Init, TransportInit
<1>2. Data = <<>>
  BY <1>1 DEF Data
<1>3. Silent /\ Quieted
  BY <1>1, <1>2, NoReply DEF Silent, Quieted, OnlyGone
<1>4. Framed /\ InTurn
  <2>1. Framed
    BY <1>1 DEF Framed
  <2>2. InTurn
    BY <1>3, Marks DEF InTurn, Quieted
  <2> QED
    BY <2>1, <2>2
<1> HIDE DEF Data
<1>5. Answering /\ Ending
  BY <1>1, <1>2, NoReply DEF Answering, Ending
<1>6. Following
  BY <1>1, <1>3 DEF Following
<1>7. Stepping
  BY <1>1 DEF Stepping
<1> QED
  BY <1>1, <1>3, <1>4, <1>5, <1>6, <1>7 DEF Pairing, Speaking

\* Every step keeps the pairing.
LEMMA PairStep == Inv /\ Pairing /\ [Next]_vars => Pairing'
<1> SUFFICES ASSUME Inv, Pairing, [Next]_vars PROVE Pairing'
  OBVIOUS
<1>1. TypeOK /\ Apart
  BY DEF Inv, Carries
<1>2. CASE Client \/ ReplyTimeout
  BY <1>1, <1>2, ClientPairs
<1>3. CASE Server \/ Transport \/ AckStall \/ Fault
  BY <1>1, <1>3, OtherPairs
<1>4. CASE UNCHANGED vars
  <2>1. UNCHANGED <<cl, sv, browser, up, down, relay, tcp>>
    BY <1>4 DEF vars, transport
  <2>2. UNCHANGED transport
    BY <1>4 DEF vars
  <2>3. cl'.paired /\ Stepping' /\ (Live' => Live)
    BY <2>1 DEF Pairing, Stepping, Live
  <2>4. ASSUME Live PROVE Speaking'
    <3>1. Data' = Data
      BY <1>1, <2>1, DataStays DEF TypeOK, PipeOK
    <3> QED
      BY <2>1, <2>4, <3>1, ThinSpeaks DEF Pairing, Thins
  <2> QED
    BY <2>3, <2>4 DEF Pairing
<1> QED
  BY <1>2, <1>3, <1>4 DEF Next, Rest

\* For every message, every server and every fault of the network, no reply the client acts on
\* is the answer to another of its lines, however late it comes: the reader of
\* `readReply`, the QUIT after an abandoned exchange and the split end of the message.
THEOREM RepliesMatch == Spec => []RepliesAreTheirs
<1>1. Init => Inv /\ Pairing
  BY InvInit, PairInit
<1>2. Inv /\ Pairing /\ [Next]_vars => (Inv /\ Pairing)'
  BY InvStep, PairStep
<1>3. Inv /\ Pairing => RepliesAreTheirs
  BY DEF Pairing, RepliesAreTheirs
<1> QED
  BY <1>1, <1>2, <1>3, PTL DEF Spec

-----------------------------------------------------------------------------
(* The invariant: how much of the message is where. *)

\* The message on the wire: its lines, stuffed, and the line that ends it.
Size    == Len(Play.data)
Part(i) == IF i <= Size THEN BodyFrames[i] ELSE DotFrame

IsLine(f) == "line" \in DOMAIN f

\* What may still reach the server, in the order it will: a dead socket and a relay that has
\* ended take no more, and nothing behind a mark arrives.
Shut   == relay.wsClosed \/ relay.ended
Coming == IF tcp.dead THEN <<>> ELSE IF Shut THEN relay.queue ELSE relay.queue \o up
Stream == tcp.in \o Coming

Clear(s, x) == \A y \in 1..x : s[y] # Gone
Whole == ~tcp.dead /\ (Direct \/ ~Shut) /\ Clear(Stream, Len(Stream))

\* Of the message, what is on its way goes on behind its first i frames, with no command between.
Told(s, i) ==
  \A x \in 1..Len(s) : Clear(s, x) /\ IsLine(s[x]) =>
    /\ i + x <= Size + 1 /\ s[x] = Part(i + x)
    /\ \A y \in 1..x : IsLine(s[y])

NoDot(s) == \A x \in 1..Len(s) : Clear(s, x) /\ IsLine(s[x]) => s[x].line # Dot

\* The server has the lines of the message it has read.
Got == IF sv.mode = "data" THEN Len(sv.lines) ELSE Size + 1
Reading ==
  /\ sv.mode \in {"start", "cmd"} => sv.lines = <<>>
  /\ sv.mode = "data" => /\ Len(sv.lines) <= Size
                         /\ \A i \in 1..Len(sv.lines) : sv.lines[i] = Ended1(Play.data)[i]
  /\ sv.mode # "gone" => Told(Stream, Got)

\* While nothing was lost, the client goes on where what is on its way ends.
Before == {"open", "greeting", "ehlo", "plain", "login", "user", "pass", "mail", "rcpt"}
Writing ==
  sv.mode = "data" /\ Live =>
    /\ cl.pc \notin Before
    /\ cl.pc = "data" => cl.left = <<>> /\ (Whole => Stream = <<>> /\ sv.lines = <<>>)
    /\ cl.pc = "body" /\ Whole =>
         /\ Got + Len(Stream) + Len(cl.left) = Size
         /\ \A i \in 1..Len(cl.left) : cl.left[i] = Part(Got + Len(Stream) + i)
    /\ cl.pc = "dot" /\ cl.left # <<>> /\ Whole => Got + Len(Stream) = Size

\* The end of the message is written; and none is on its way.
Done == {"quit", "bye", "closed"}
Away == cl.pc \in Done \cup {"answer"} \/ (cl.pc = "dot" /\ cl.left = <<>>)
Over == sv.mode # "gone" => NoDot(Stream)

\* A message is taken once, and not before its end is written.
Taking ==
  /\ sv.taken = <<>> \/ (sv.taken = <<Ended1(Play.data)>> /\ Over)
  /\ ~Away => sv.taken = <<>> /\ Over

\* A verdict on its way is the truth, and stays it.
Verdicts ==
  {y \in Syms : y # Junk /\ y.to = "answer" =>
     /\ Away /\ Over
     /\ y.code \in 200..299 => sv.taken # <<>>
     /\ y.code \in 400..599 => sv.taken = <<>>}
Judged ==
  /\ cl.buf \in Seq(Verdicts) /\ browser.chunks \in Seq(Seq(Verdicts))
  /\ Data \in Seq(Seq(Verdicts)) /\ tcp.out \in Seq(Verdicts)

Telling ==
  /\ cl.answer # "none" => cl.pc \in Done
  /\ cl.answer = "sent" => sv.taken # <<>>
  /\ cl.answer = "refused" => sv.taken = <<>> /\ Over

Promising == Reading /\ Writing /\ Taking /\ Judged /\ Telling

-----------------------------------------------------------------------------
(* What is on its way, as it shrinks. *)

\* t brings no more than s, up to its first mark.
Less(s, t) ==
  \A x \in 1..Len(t) : Clear(t, x) => x \in 1..Len(s) /\ \A y \in 1..x : s[y] = t[y]

\* Less is as right and as far from an end.
LEMMA LessTold ==
  ASSUME NEW s, NEW t, Less(s, t), Len(t) \in Nat
  PROVE  /\ \A i : Told(s, i) => Told(t, i)
         /\ NoDot(s) => NoDot(t)
<1>1. ASSUME NEW x \in 1..Len(t), Clear(t, x)
      PROVE  x \in 1..Len(s) /\ x \in 1..x /\ s[x] = t[x] /\ Clear(s, x) /\ \A y \in 1..x : s[y] = t[y]
  <2>1. x \in 1..Len(s) /\ \A y \in 1..x : s[y] = t[y]
    BY <1>1 DEF Less
  <2>2. x \in 1..x
    OBVIOUS
  <2> QED
    BY <1>1, <2>1, <2>2 DEF Clear
<1>2. ASSUME NEW i, Told(s, i)
      PROVE  Told(t, i)
  <2> SUFFICES ASSUME NEW x \in 1..Len(t), Clear(t, x), IsLine(t[x])
               PROVE  /\ i + x <= Size + 1 /\ t[x] = Part(i + x)
                      /\ \A y \in 1..x : IsLine(t[y])
    BY DEF Told
  <2>1. x \in 1..Len(s) /\ s[x] = t[x] /\ Clear(s, x) /\ \A y \in 1..x : s[y] = t[y]
    BY <1>1
  <2>2. /\ i + x <= Size + 1 /\ s[x] = Part(i + x)
        /\ \A y \in 1..x : IsLine(s[y])
    BY <1>2, <2>1 DEF Told
  <2> QED
    BY <2>1, <2>2
<1>3. NoDot(s) => NoDot(t)
  BY <1>1 DEF NoDot
<1> QED
  BY <1>2, <1>3

\* What lies behind a point may be lost, or cut off by a mark.
LEMMA Cut ==
  ASSUME NEW a \in Seq(Marked), NEW u \in Seq(Marked), NEW v \in Seq(Marked),
         v = <<>> \/ v[1] = Gone
  PROVE  Less(a \o u, a \o v)
<1>1. /\ Len(a) \in Nat /\ Len(u) \in Nat /\ Len(v) \in Nat
      /\ Len(a \o u) = Len(a) + Len(u) /\ Len(a \o v) = Len(a) + Len(v)
      /\ \A i \in 1..(Len(a) + Len(u)) : (a \o u)[i] = IF i <= Len(a) THEN a[i] ELSE u[i - Len(a)]
      /\ \A i \in 1..(Len(a) + Len(v)) : (a \o v)[i] = IF i <= Len(a) THEN a[i] ELSE v[i - Len(a)]
  BY ConcatProperties, LenProperties
<1> SUFFICES ASSUME NEW x \in 1..Len(a \o v), Clear(a \o v, x)
             PROVE  x \in 1..Len(a \o u) /\ \A y \in 1..x : (a \o u)[y] = (a \o v)[y]
  BY DEF Less
<1>2. x <= Len(a)
  <2> SUFFICES ASSUME ~(x <= Len(a)) PROVE FALSE
    OBVIOUS
  <2>1. v # <<>>
    <3>1. Len(v) > 0
      BY <1>1
    <3> QED
      BY <3>1
  <2>2. \A k, m, n \in Nat : n \in 1..(k + m) /\ ~(n <= k) =>
          k + 1 \in 1..(k + m) /\ k + 1 \in 1..n /\ ~(k + 1 <= k) /\ (k + 1) - k = 1
    OBVIOUS
  <2>3. /\ Len(a) + 1 \in 1..(Len(a) + Len(v)) /\ Len(a) + 1 \in 1..x
        /\ ~(Len(a) + 1 <= Len(a)) /\ (Len(a) + 1) - Len(a) = 1
    <3>1. x \in Nat /\ x \in 1..(Len(a) + Len(v))
      BY <1>1
    <3> QED
      BY <1>1, <2>2, <3>1
  <2>4. (a \o v)[Len(a) + 1] = Gone
    BY <1>1, <2>1, <2>3
  <2> QED
    BY <2>3, <2>4 DEF Clear
<1>3. \A y \in 1..x : y \in 1..(Len(a) + Len(u)) /\ y \in 1..(Len(a) + Len(v)) /\ y <= Len(a)
  BY <1>1, <1>2
<1>4. x \in 1..Len(a \o u)
  BY <1>1, <1>2
<1> QED
  BY <1>1, <1>3, <1>4

\* Frames moved along, and put behind.
LEMMA Along ==
  ASSUME NEW S, NEW a \in Seq(S), NEW b \in Seq(S)
  PROVE  /\ b # <<>> => Append(a, Head(b)) \o Tail(b) = a \o b
         /\ a # <<>> => Head(a \o b) = Head(a) /\ Tail(a \o b) = Tail(a) \o b /\ a \o b # <<>>
<1>1. \A s \in Seq(S), e \in S : Append(s, e) = s \o <<e>> /\ <<e>> \in Seq(S)
  OBVIOUS
<1>3. \A s \in Seq(S) : s # <<>> => Head(s) \in S /\ Tail(s) \in Seq(S) /\ s = <<Head(s)>> \o Tail(s)
  <2> SUFFICES ASSUME NEW s \in Seq(S), s # <<>>
               PROVE  Head(s) \in S /\ Tail(s) \in Seq(S) /\ s = <<Head(s)>> \o Tail(s)
    OBVIOUS
  <2>1. /\ Head(s) \in S /\ Tail(s) \in Seq(S) /\ Len(Tail(s)) = Len(s) - 1
        /\ \A i \in 1..Len(Tail(s)) : Tail(s)[i] = s[i + 1]
        /\ Len(s) \in Nat /\ Len(s) >= 1 /\ Head(s) = s[1]
    BY HeadTailProperties, EmptySeq
  <2> DEFINE h == <<Head(s)>>
             t == h \o Tail(s)
  <2>2. h \in Seq(S) /\ Len(h) = 1 /\ h[1] = s[1]
    BY <2>1
  <2> HIDE DEF h
  <2>3. /\ t \in Seq(S) /\ Len(t) = 1 + Len(Tail(s))
        /\ \A i \in 1..(1 + Len(Tail(s))) : t[i] = IF i <= 1 THEN h[i] ELSE Tail(s)[i - 1]
    <3>1. \A p, q \in Seq(S) :
            /\ p \o q \in Seq(S) /\ Len(p \o q) = Len(p) + Len(q)
            /\ \A i \in 1..(Len(p) + Len(q)) : (p \o q)[i] = IF i <= Len(p) THEN p[i] ELSE q[i - Len(p)]
      BY ConcatProperties
    <3>2. /\ t \in Seq(S) /\ Len(t) = Len(h) + Len(Tail(s))
          /\ \A i \in 1..(Len(h) + Len(Tail(s))) :
               t[i] = IF i <= Len(h) THEN h[i] ELSE Tail(s)[i - Len(h)]
      BY <2>1, <2>2, <3>1
    <3> QED
      BY <2>2, <3>2
  <2>4. Len(t) = Len(s)
    BY <2>1, <2>3
  <2>5. \A i \in 1..Len(s) : t[i] = s[i]
    <3> SUFFICES ASSUME NEW i \in 1..Len(s) PROVE t[i] = s[i]
      OBVIOUS
    <3>1. i \in 1..(1 + Len(Tail(s)))
      BY <2>1
    <3>2. CASE i <= 1
      BY <2>1, <2>2, <2>3, <3>1, <3>2
    <3>3. CASE ~(i <= 1)
      <4>1. i - 1 \in 1..Len(Tail(s)) /\ (i - 1) + 1 = i
        BY <2>1, <3>3
      <4>2. Tail(s)[i - 1] = s[i]
        BY <2>1, <4>1
      <4> QED
        BY <2>3, <3>1, <3>3, <4>2
    <3> QED
      BY <3>2, <3>3
  <2> HIDE DEF t
  <2>6. t = s
    BY <2>3, <2>4, <2>5, SeqEqual
  <2> QED
    BY <2>1, <2>6 DEF t, h
<1>4. b # <<>> => Append(a, Head(b)) \o Tail(b) = a \o b
  <2> SUFFICES ASSUME b # <<>> PROVE Append(a, Head(b)) \o Tail(b) = a \o b
    OBVIOUS
  <2>1. Head(b) \in S /\ Tail(b) \in Seq(S) /\ <<Head(b)>> \o Tail(b) = b /\ <<Head(b)>> \in Seq(S)
    BY <1>1, <1>3
  <2>2. (a \o <<Head(b)>>) \o Tail(b) = a \o (<<Head(b)>> \o Tail(b))
    BY <2>1, ConcatAssociative
  <2>3. Append(a, Head(b)) = a \o <<Head(b)>>
    BY <1>1, <2>1
  <2> QED
    BY <2>1, <2>2, <2>3
<1>5. a # <<>> => Head(a \o b) = Head(a) /\ Tail(a \o b) = Tail(a) \o b /\ a \o b # <<>>
  <2> SUFFICES ASSUME a # <<>>
               PROVE  Head(a \o b) = Head(a) /\ Tail(a \o b) = Tail(a) \o b /\ a \o b # <<>>
    OBVIOUS
  <2>1. Head(a) \in S /\ Tail(a) \in Seq(S) /\ <<Head(a)>> \o Tail(a) = a /\ <<Head(a)>> \in Seq(S)
    BY <1>1, <1>3
  <2> DEFINE t == Tail(a) \o b
  <2>2. a \o b = <<Head(a)>> \o t /\ t \in Seq(S)
    BY <2>1, ConcatAssociative, ConcatProperties
  <2> HIDE DEF t
  <2>3. \A e \in S : Head(<<e>> \o t) = e /\ Tail(<<e>> \o t) = t /\ <<e>> \o t # <<>>
    BY <2>2
  <2> QED
    BY <2>1, <2>2, <2>3 DEF t
<1> QED
  BY <1>4, <1>5

-----------------------------------------------------------------------------
(* The network's steps take from what is on its way, and put marks behind it. *)

Flows == Less(Stream, Stream') /\ (Whole' => Whole /\ Stream' = Stream)

\* Concatenation is associative.
LEMMA Joined ==
  \A a, b, c \in Seq(Marked) : (a \o b) \o c = a \o (b \o c)
BY ConcatAssociative

\* Concatenation, of frames and marks.
LEMMA Joins2 ==
  \A a, b \in Seq(Marked) : a \o b \in Seq(Marked) /\ a \o <<>> = a
BY ConcatProperties, ConcatEmptySeq

\* A frame put behind.
LEMMA Put ==
  \A a \in Seq(Marked), f \in Marked :
    Append(a, f) \in Seq(Marked) /\ Append(a, f) = a \o <<f>> /\ <<f>> \in Seq(Marked)
OBVIOUS

\* A frame put behind two in a row is put behind the second.
LEMMA PutBehind ==
  \A a, b \in Seq(Marked), f \in Marked : a \o Append(b, f) = Append(a \o b, f)
<1> SUFFICES ASSUME NEW a \in Seq(Marked), NEW b \in Seq(Marked), NEW f \in Marked
             PROVE  a \o Append(b, f) = Append(a \o b, f)
  OBVIOUS
<1>1. a \o (b \o <<f>>) = (a \o b) \o <<f>>
  BY Put, Joined
<1>2. a \o b \in Seq(Marked)
  BY Joins2
<1> QED
  BY <1>1, <1>2, Put

\* A frame handed on from one place to the next, and one taken off the first.
LEMMA HandedOn ==
  \A a, b \in Seq(Marked) :
    /\ b # <<>> => Append(a, Head(b)) \o Tail(b) = a \o b
    /\ a # <<>> => Head(a \o b) = Head(a) /\ Tail(a \o b) = Tail(a) \o b /\ a \o b # <<>>
BY Along

\* What is on its way is frames and marks.
LEMMA StreamIs ==
  ASSUME PipeOK
  PROVE  /\ tcp.in \in Seq(Marked) /\ relay.queue \in Seq(Marked) /\ up \in Seq(Marked)
         /\ Coming \in Seq(Marked) /\ Stream \in Seq(Marked) /\ <<>> \in Seq(Marked)
         /\ Gone \in Marked /\ <<Gone>> \in Seq(Marked)
<1>1. Gone \in Marked /\ <<Gone>> \in Seq(Marked) /\ <<>> \in Seq(Marked)
  BY DEF Marked
<1>2. tcp.in \in Seq(Marked)
  <2>1. tcp.in \in Seq(Frames) /\ Frames \subseteq Marked
    BY DEF PipeOK, Sockets, Marked
  <2> QED
    BY <2>1, SeqMonotonic
<1>3. relay.queue \in Seq(Marked) /\ up \in Seq(Marked)
  BY DEF PipeOK, Relays
<1>4. Coming \in Seq(Marked)
  BY <1>1, <1>3, ConcatProperties DEF Coming
<1> QED
  BY <1>1, <1>2, <1>3, <1>4, ConcatProperties DEF Stream

\* What stays, stays as whole as it was.
LEMMA SameFlows ==
  ASSUME PipeOK, Stream' = Stream, Whole' => Whole
  PROVE  Flows
<1>1. Less(Stream, Stream)
  BY DEF Less
<1> QED
  BY <1>1 DEF Flows

\* A socket that dies takes no more.
LEMMA DeathFlows ==
  ASSUME PipeOK, tcp'.dead, tcp'.in = tcp.in
  PROVE  Flows
<1>1. Stream' = tcp.in \o <<>>
  BY DEF Stream, Coming
<1>2. Less(tcp.in \o Coming, tcp.in \o <<>>)
  BY StreamIs, Cut
<1>3. ~Whole'
  BY DEF Whole
<1> QED
  BY <1>1, <1>2, <1>3 DEF Flows, Stream

\* A relay that ends takes no more of what is up.
LEMMA ShutFlows ==
  ASSUME PipeOK, ~Direct', Shut', tcp' = tcp,
         relay'.queue = relay.queue \/ relay'.queue = Append(relay.queue, Gone)
  PROVE  Flows
<1>1. /\ tcp.in \in Seq(Marked) /\ relay.queue \in Seq(Marked) /\ up \in Seq(Marked)
      /\ <<>> \in Seq(Marked) /\ Gone \in Marked /\ <<Gone>> \in Seq(Marked)
      /\ tcp.in \o relay.queue \in Seq(Marked)
  BY StreamIs, ConcatProperties
<1>2. ~Whole'
  BY DEF Whole
<1>3. CASE tcp.dead
  BY <1>3, DeathFlows
<1>4. CASE ~tcp.dead
  <2>1. Stream' = tcp.in \o relay'.queue
    BY <1>4 DEF Stream, Coming
  <2>2. PICK u \in Seq(Marked) : Stream = (tcp.in \o relay.queue) \o u
    <3>1. CASE Shut
      <4>1. Stream = (tcp.in \o relay.queue) \o <<>>
        BY <1>1, <1>4, <3>1, Joins2 DEF Stream, Coming
      <4> QED
        BY <1>1, <4>1
    <3>2. CASE ~Shut
      <4>1. Stream = tcp.in \o (relay.queue \o up)
        BY <1>4, <3>2 DEF Stream, Coming
      <4>2. (tcp.in \o relay.queue) \o up = tcp.in \o (relay.queue \o up)
        BY <1>1, Joined
      <4> QED
        BY <1>1, <4>1, <4>2
    <3> QED
      BY <3>1, <3>2
  <2>3. PICK v \in {<<>>, <<Gone>>} : Stream' = (tcp.in \o relay.queue) \o v
    <3>1. CASE relay'.queue = relay.queue
      <4>1. Stream' = (tcp.in \o relay.queue) \o <<>>
        BY <1>1, <2>1, <3>1, Joins2
      <4> QED
        BY <4>1
    <3>2. CASE relay'.queue = Append(relay.queue, Gone)
      <4>1. tcp.in \o Append(relay.queue, Gone) = Append(tcp.in \o relay.queue, Gone)
        BY <1>1, PutBehind
      <4>2. \A s \in Seq(Marked) : Append(s, Gone) = s \o <<Gone>>
        BY <1>1
      <4>3. Stream' = (tcp.in \o relay.queue) \o <<Gone>>
        BY <1>1, <2>1, <3>2, <4>1, <4>2
      <4> QED
        BY <4>3
    <3> QED
      BY <3>1, <3>2
  <2>4. v \in Seq(Marked) /\ (v = <<>> \/ v[1] = Gone)
    <3>1. <<Gone>>[1] = Gone
      OBVIOUS
    <3> QED
      BY <1>1, <2>3, <3>1
  <2>5. Less((tcp.in \o relay.queue) \o u, (tcp.in \o relay.queue) \o v)
    BY <1>1, <2>4, Cut
  <2> QED
    BY <1>2, <2>2, <2>3, <2>5 DEF Flows
<1> QED
  BY <1>3, <1>4

\* A mark goes up.
LEMMA UpFlows ==
  ASSUME PipeOK, ~Direct, Direct' = Direct, UNCHANGED relay, tcp'.in = tcp.in, tcp'.dead = tcp.dead,
         up' = up \/ up' = Append(up, Gone) \/ (up' = <<Gone>> /\ ~relay.wsClosed)
  PROVE  Flows
<1>1. /\ tcp.in \in Seq(Marked) /\ relay.queue \in Seq(Marked) /\ up \in Seq(Marked)
      /\ <<>> \in Seq(Marked) /\ Gone \in Marked /\ <<Gone>> \in Seq(Marked)
      /\ tcp.in \o relay.queue \in Seq(Marked) /\ relay.queue \o up \in Seq(Marked)
      /\ tcp.in \o (relay.queue \o up) \in Seq(Marked)
  BY StreamIs, ConcatProperties
<1>2. CASE tcp.dead \/ Shut \/ up' = up
  <2>1. Coming' = Coming
    BY <1>2 DEF Coming, Shut
  <2>2. Stream' = Stream
    BY <2>1 DEF Stream
  <2>3. Whole' => Whole
    BY <2>2 DEF Whole, Shut
  <2> QED
    BY <2>2, <2>3, SameFlows
<1>3. CASE ~tcp.dead /\ ~Shut /\ up' # up
  <2>1. Stream = tcp.in \o (relay.queue \o up) /\ Stream' = tcp.in \o (relay.queue \o up')
    BY <1>3 DEF Stream, Coming, Shut
  <2>2. ASSUME NEW a \in Seq(Marked), NEW u \in Seq(Marked), Stream = a \o u, Stream' = a \o <<Gone>>
        PROVE  Flows
    <3>1. <<Gone>>[1] = Gone
      OBVIOUS
    <3>2. Less(a \o u, a \o <<Gone>>)
      BY <1>1, <2>2, <3>1, Cut
    <3>3. ~Whole'
      <4>1. /\ Len(a) \in Nat /\ Len(a \o <<Gone>>) = Len(a) + 1
            /\ (a \o <<Gone>>)[Len(a) + 1] = Gone
        BY <1>1
      <4>2. Len(a) + 1 \in 1..Len(a \o <<Gone>>)
        BY <4>1
      <4>3. ~Clear(Stream', Len(Stream'))
        BY <2>2, <4>1, <4>2 DEF Clear
      <4> QED
        BY <4>3 DEF Whole, Clear
    <3> QED
      BY <2>2, <3>2, <3>3 DEF Flows
  <2>3. CASE up' = Append(up, Gone)
    <3>1. relay.queue \o Append(up, Gone) = Append(relay.queue \o up, Gone)
      BY <1>1, PutBehind
    <3>5. /\ tcp.in \o Append(relay.queue \o up, Gone)
             = Append(tcp.in \o (relay.queue \o up), Gone)
      BY <1>1, PutBehind
    <3>2. Stream' = Append(tcp.in \o (relay.queue \o up), Gone)
      BY <2>1, <2>3, <3>1, <3>5
    <3> DEFINE s == tcp.in \o (relay.queue \o up)
    <3>3. s \in Seq(Marked) /\ Stream = s /\ Stream' = Append(s, Gone)
      BY <1>1, <2>1, <3>2
    <3> HIDE DEF s
    <3>4. s = s \o <<>> /\ Append(s, Gone) = s \o <<Gone>>
      BY <1>1, <3>3
    <3> QED
      BY <1>1, <2>2, <3>3, <3>4
  <2>4. CASE up' = <<Gone>>
    <3>1. PICK g \in Seq(Marked) : g = <<Gone>>
      BY <1>1
    <3>2. /\ (tcp.in \o relay.queue) \o up = tcp.in \o (relay.queue \o up)
          /\ (tcp.in \o relay.queue) \o g = tcp.in \o (relay.queue \o g)
      <4>1. tcp.in \in Seq(Marked) /\ relay.queue \in Seq(Marked) /\ up \in Seq(Marked)
        BY <1>1
      <4>2. (tcp.in \o relay.queue) \o up = tcp.in \o (relay.queue \o up)
        BY <4>1, Joined
      <4>3. (tcp.in \o relay.queue) \o g = tcp.in \o (relay.queue \o g)
        BY <4>1, Joined
      <4> QED
        BY <4>2, <4>3
    <3>3. Stream = (tcp.in \o relay.queue) \o up /\ Stream' = (tcp.in \o relay.queue) \o g
      <4>1. up' = g
        BY <2>4, <3>1
      <4> QED
        BY <2>1, <3>2, <4>1
    <3>4. Stream' = (tcp.in \o relay.queue) \o <<Gone>>
      BY <3>1, <3>3
    <3> QED
      BY <1>1, <2>2, <3>3, <3>4
  <2> QED
    BY <1>3, <2>3, <2>4
<1> QED
  BY <1>2, <1>3

\* The client's end closes behind what it sent.
LEMMA EndFlows ==
  ASSUME PipeOK, UNCHANGED cast, EndTransport
  PROVE  Flows
<1>1. CASE browser.ended
  <2>1. UNCHANGED <<up, relay, tcp>>
    BY <1>1 DEF EndTransport, transport
  <2>2. Stream' = Stream /\ (Whole' => Whole)
    BY <2>1 DEF Stream, Coming, Shut, Whole, Direct, Clear
  <2> QED
    BY <2>2, SameFlows
<1>2. CASE ~browser.ended /\ Direct
  <2>1. tcp'.dead /\ tcp'.in = tcp.in
    BY <1>2 DEF EndTransport, PipeOK, Sockets
  <2> QED
    BY <2>1, DeathFlows
<1>3. CASE ~browser.ended /\ ~Direct
  <2>1. UNCHANGED <<relay, tcp>> /\ up' = Append(up, Gone) /\ Direct' = Direct
    BY <1>3 DEF EndTransport, Direct
  <2> QED
    BY <1>3, <2>1, UpFlows
<1> QED
  BY <1>1, <1>2, <1>3

\* What brings the client something, or reads for it, leaves what is on its way to the server.
LEMMA StillFlows ==
  ASSUME PipeOK, UNCHANGED <<cast, up>>, tcp'.in = tcp.in, tcp'.dead = tcp.dead,
         relay'.queue = relay.queue, relay'.wsClosed = relay.wsClosed, relay'.ended = relay.ended
  PROVE  Flows
<1>1. Stream' = Stream /\ (Whole' => Whole)
  BY DEF Stream, Coming, Shut, Whole, Direct, Clear
<1> QED
  BY <1>1, SameFlows

\* What the client takes is none of what is on its way to the server.
LEMMA TakesFlows ==
  ASSUME PipeOK, Apart, UNCHANGED cast, TakeDown \/ TakeSocket
  PROVE  Flows
<1>1. CASE TakeDown
  <2>1. down # <<>> /\ UNCHANGED <<relay, tcp>> /\ (up' = up \/ up' = Append(up, Gone))
    BY <1>1 DEF TakeDown
  <2>2. ~Direct /\ Direct' = Direct
    BY <2>1 DEF Apart, Direct
  <2> QED
    BY <2>1, <2>2, UpFlows
<1>2. CASE TakeSocket
  <2>1. UNCHANGED <<up, relay>> /\ tcp'.in = tcp.in /\ tcp'.dead = tcp.dead
    BY <1>2 DEF TakeSocket, PipeOK, Sockets
  <2> QED
    BY <2>1, StillFlows
<1> QED
  BY <1>1, <1>2

\* The relay takes a frame, refuses it, or sees the close.
LEMMA RelayTakesFlows ==
  ASSUME PipeOK, Apart, UNCHANGED cast, RelayTakes
  PROVE  Flows
<1> DEFINE f == Head(up)
<1>1. /\ up # <<>> /\ up' = Tail(up) /\ ~Direct /\ ~Direct'
      /\ tcp.in \in Seq(Marked) /\ relay.queue \in Seq(Marked) /\ up \in Seq(Marked)
      /\ Gone \in Marked /\ relay \in Relays /\ tcp \in Sockets
  BY StreamIs DEF RelayTakes, Apart, Direct, PipeOK
<1>2. CASE f = Gone
  <2>1. relay' = EndWriter([relay EXCEPT !.wsClosed = TRUE]) /\ tcp' = tcp
    BY <1>2 DEF RelayTakes
  <2>2. /\ relay'.wsClosed
        /\ relay'.queue = relay.queue \/ relay'.queue = Append(relay.queue, Gone)
    BY <1>1, <2>1 DEF EndWriter, Relays
  <2> QED
    BY <1>1, <2>1, <2>2, ShutFlows DEF Shut
<1>3. CASE f # Gone /\ Shut
  <2>1. UNCHANGED <<relay, tcp>>
    BY <1>3 DEF RelayTakes, Shut
  <2>2. Coming' = Coming
    BY <1>3, <2>1 DEF Coming, Shut
  <2>3. Stream' = Stream
    BY <2>1, <2>2 DEF Stream
  <2>4. ~Whole'
    BY <1>1, <1>3, <2>1 DEF Whole, Shut
  <2> QED
    BY <2>3, <2>4, SameFlows
<1>4. CASE f # Gone /\ ~Shut /\ relay.queued + f.size > MaxQueued
  <2>1. tcp' = [tcp EXCEPT !.dead = TRUE]
    BY <1>4 DEF RelayTakes, Shut
  <2>2. tcp'.dead /\ tcp'.in = tcp.in
    BY <1>1, <2>1 DEF Sockets
  <2> QED
    BY <2>2, DeathFlows
<1>5. CASE f # Gone /\ ~Shut /\ ~(relay.queued + f.size > MaxQueued)
  <2>1. /\ relay' = [relay EXCEPT !.queue = Append(@, f), !.queued = @ + f.size]
        /\ UNCHANGED <<down, tcp>>
    BY <1>5 DEF RelayTakes, Shut
  <2>2. /\ relay'.queue = Append(relay.queue, f) /\ relay'.wsClosed = relay.wsClosed
        /\ relay'.ended = relay.ended
    BY <1>1, <2>1 DEF Relays
  <2>3. Append(relay.queue, Head(up)) \o Tail(up) = relay.queue \o up
    BY <1>1, HandedOn
  <2>4. Coming' = Coming
    BY <1>1, <1>5, <2>1, <2>2, <2>3 DEF Coming, Shut
  <2>5. Stream' = Stream
    BY <2>1, <2>4 DEF Stream
  <2>6. Whole' => Whole
    BY <1>1, <1>5, <2>1, <2>5 DEF Whole
  <2> QED
    BY <2>5, <2>6, SameFlows
<1> QED
  BY <1>2, <1>3, <1>4, <1>5

\* The relay writes a frame to its socket, or loses it.
LEMMA RelayWritesFlows ==
  ASSUME PipeOK, Apart, UNCHANGED cast, RelayWrites
  PROVE  Flows
<1> DEFINE f == Head(relay.queue)
           r == Wrote(f)
           ack == Acknowledged(r)
<1>1. /\ f \in Frames /\ r \in Relays /\ r.queue = Tail(relay.queue)
      /\ relay' = IF ack.due THEN [r EXCEPT !.acked = ack.n] ELSE r
      /\ tcp' = IF tcp.dead THEN tcp ELSE [tcp EXCEPT !.in = Append(@, f)]
      /\ UNCHANGED <<browser, up>>
  BY WriteIs
<1>2. relay.queue # <<>> /\ tcp \in Sockets /\ ~Direct' /\ ~Direct
  BY DEF RelayWrites, PipeOK, Apart, Direct
<1>3. relay'.queue = Tail(relay.queue) /\ relay'.wsClosed = r.wsClosed /\ relay'.ended = r.ended
  <2> HIDE DEF r, ack, f
  <2> QED
    BY <1>1 DEF Relays
<1>4. CASE tcp.dead
  <2>1. tcp'.dead /\ tcp'.in = tcp.in
    BY <1>1, <1>4
  <2> QED
    BY <2>1, DeathFlows
<1>5. CASE ~tcp.dead
  <2>1. tcp'.in = Append(tcp.in, f) /\ tcp'.dead = tcp.dead
    BY <1>1, <1>2, <1>5 DEF Sockets
  <2>2. relay'.wsClosed = relay.wsClosed /\ relay'.ended = relay.ended
    BY <1>3, <1>5 DEF Wrote, PipeOK, Relays
  <2>3. /\ tcp.in \in Seq(Marked) /\ relay.queue \in Seq(Marked) /\ up \in Seq(Marked)
        /\ f \in Marked /\ Append(tcp.in, f) \in Seq(Marked) /\ Tail(relay.queue) \in Seq(Marked)
    BY <1>1, <1>2, StreamIs, HeadTailProperties DEF Marked
  <2>4. Append(tcp.in, f) \o Tail(relay.queue) = tcp.in \o relay.queue
    BY <1>2, <2>3, HandedOn
  <2>5. CASE Shut
    <3>1. Stream = tcp.in \o relay.queue
      BY <1>5, <2>5 DEF Stream, Coming
    <3>2. Stream' = tcp'.in \o relay'.queue
      BY <1>5, <2>1, <2>2, <2>5 DEF Stream, Coming, Shut
    <3>3. Stream' = Stream
      BY <1>3, <2>1, <2>4, <3>1, <3>2
    <3>4. ~Whole'
      BY <1>2, <2>2, <2>5 DEF Whole, Shut
    <3> QED
      BY <3>3, <3>4, SameFlows
  <2>6. CASE ~Shut
    <3>1. Stream = tcp.in \o (relay.queue \o up)
      BY <1>5, <2>6 DEF Stream, Coming
    <3>2. Stream' = tcp'.in \o (relay'.queue \o up)
      BY <1>1, <1>5, <2>1, <2>2, <2>6 DEF Stream, Coming, Shut
    <3>3. (tcp.in \o relay.queue) \o up = tcp.in \o (relay.queue \o up)
      BY <2>3, Joined
    <3>4. (Append(tcp.in, f) \o Tail(relay.queue)) \o up = Append(tcp.in, f) \o (Tail(relay.queue) \o up)
      BY <2>3, Joined
    <3>5. Stream' = Append(tcp.in, f) \o (Tail(relay.queue) \o up)
      BY <1>3, <2>1, <3>2
    <3>6. Stream' = Stream
      BY <2>4, <3>1, <3>3, <3>4, <3>5
    <3>7. Whole' => Whole
      BY <1>5, <2>6, <3>6 DEF Whole
    <3> QED
      BY <3>6, <3>7, SameFlows
  <2> QED
    BY <2>5, <2>6
<1> QED
  BY <1>4, <1>5

\* The relay's reading ends, and with it the socket.
LEMMA RelayReadsFlows ==
  ASSUME PipeOK, Apart, Queueing, UNCHANGED cast,
         RelayFins \/ RelayReads \/ RelayReadEnds \/ RelayEnds
  PROVE  Flows
<1>1. relay \in Relays /\ tcp \in Sockets /\ UNCHANGED up
  BY DEF PipeOK, RelayFins, RelayReads, RelayReadEnds, RelayEnds
<1>2. tcp' = [tcp EXCEPT !.dead = TRUE] => Flows
  BY <1>1, DeathFlows DEF Sockets
<1>3. CASE RelayFins
  <2>1. /\ relay.queue # <<>> /\ Head(relay.queue) = Gone /\ relay.queue \in Seq(Marked)
        /\ relay'.queue = Tail(relay.queue) /\ relay'.ended = relay.ended
        /\ tcp'.in = tcp.in /\ tcp'.dead = tcp.dead /\ ~Direct'
    BY <1>1, <1>3, StreamIs DEF RelayFins, Relays, Sockets, Apart, Direct
  <2>2. Len(relay.queue) = 1 /\ relay.ended
    <3>1. 1 \in DOMAIN relay.queue /\ relay.queue[1] = Gone
      BY <2>1, EmptySeq, LenProperties
    <3> QED
      BY <3>1 DEF Queueing
  <2>3. relay'.queue = <<>>
    <3>1. Tail(relay.queue) \in Seq(Marked) /\ Len(Tail(relay.queue)) = Len(relay.queue) - 1
      BY <2>1, HeadTailProperties
    <3>2. Len(Tail(relay.queue)) = 0
      BY <2>2, <3>1
    <3>3. Tail(relay.queue) = <<>>
      BY <3>1, <3>2, EmptySeq
    <3> QED
      BY <2>1, <3>3
  <2>4. CASE tcp.dead
    BY <2>1, <2>4, DeathFlows
  <2>5. CASE ~tcp.dead
    <3>1. Stream = tcp.in \o relay.queue
      BY <2>2, <2>5 DEF Stream, Coming, Shut
    <3>2. Stream' = tcp.in \o <<>>
      BY <2>1, <2>2, <2>3, <2>5 DEF Stream, Coming, Shut
    <3>3. Less(tcp.in \o relay.queue, tcp.in \o <<>>)
      BY <2>1, StreamIs, Cut
    <3>4. ~Whole'
      BY <2>1, <2>2 DEF Whole, Shut
    <3> QED
      BY <3>1, <3>2, <3>3, <3>4 DEF Flows
  <2> QED
    BY <2>4, <2>5
<1>4. CASE RelayEnds
  BY <1>2, <1>4 DEF RelayEnds
<1>5. CASE RelayReadEnds
  <2>1. CASE ReadFailed
    BY <1>2, <2>1 DEF ReadFailed
  <2>2. CASE relay' = [EndWriter(relay) EXCEPT !.read = "draining"] /\ UNCHANGED <<down, tcp>>
    <3>1. EndWriter(relay) \in Relays
      BY <1>1, RelayFields
    <3>2. /\ relay'.ended = EndWriter(relay).ended /\ relay'.queue = EndWriter(relay).queue
      BY <2>2, <3>1 DEF Relays
    <3>3. relay'.queue = relay.queue \/ relay'.queue = Append(relay.queue, Gone)
      BY <1>1, <3>2 DEF EndWriter, Relays
    <3>4. relay'.ended
      BY <1>1, <3>2 DEF EndWriter, Relays
    <3>5. ~Direct'
      BY <1>5 DEF RelayReadEnds, Apart, Direct
    <3> QED
      BY <2>2, <3>3, <3>4, <3>5, ShutFlows DEF Shut
  <2> QED
    BY <1>5, <2>1, <2>2 DEF RelayReadEnds
<1>6. CASE RelayReads
  <2>1. CASE ReadFailed
    BY <1>2, <2>1 DEF ReadFailed
  <2>2. CASE \E n \in 1..Len(tcp.out) : /\ tcp' = [tcp EXCEPT !.out = SubSeq(@, n + 1, Len(@))]
                                        /\ UNCHANGED relay
    <3>1. tcp'.in = tcp.in /\ tcp'.dead = tcp.dead /\ UNCHANGED relay
      BY <1>1, <2>2 DEF Sockets
    <3> QED
      BY <1>1, <3>1, StillFlows
  <2> QED
    BY <1>6, <2>1, <2>2 DEF RelayReads
<1> QED
  BY <1>3, <1>4, <1>5, <1>6

\* The network fails.
LEMMA FaultFlows ==
  ASSUME PipeOK, UNCHANGED cast, WsDrops \/ TcpDies
  PROVE  Flows
<1>1. CASE WsDrops
  <2>1. up' = <<Gone>> /\ UNCHANGED <<relay, tcp>> /\ ~relay.wsClosed /\ ~Direct /\ Direct' = Direct
    BY <1>1 DEF WsDrops, Direct
  <2> QED
    BY <2>1, UpFlows
<1>2. CASE TcpDies
  <2>1. tcp'.dead /\ tcp'.in = tcp.in
    BY <1>2 DEF TcpDies, PipeOK, Sockets
  <2> QED
    BY <2>1, DeathFlows
<1> QED
  BY <1>1, <1>2

-----------------------------------------------------------------------------
(* What is on its way to the client is handed on, and may be lost. *)

\* What comes down joins what was on its way, a piece more or none.
LEMMA PieceJoins ==
  ASSUME NEW H, Data \in Seq(Seq(H)), down \in Seq(Downs)
  PROVE  /\ UNCHANGED down => Data' \in Seq(Seq(H))
         /\ down' = CloseWs(relay, down) => Data' \in Seq(Seq(H))
         /\ \A n \in Nat : down' = Append(down, [kind |-> "ack", n |-> n]) => Data' \in Seq(Seq(H))
         /\ down' = <<Gone>> => Data' \in Seq(Seq(H))
         /\ \A d \in Downs : Brings(d) \in Seq(H) /\ down' = Append(down, d) => Data' \in Seq(Seq(H))
<1>1. <<>> \in Seq(H) /\ << <<>> >> \in Seq(Seq(H))
  <2> DEFINE T == Seq(H)
  <2>1. <<>> \in T
    OBVIOUS
  <2> HIDE DEF T
  <2>2. << <<>> >> \in Seq(T)
    BY <2>1
  <2> QED
    BY <2>1, <2>2 DEF T
<1> DEFINE T == Seq(H)
<1>2. Data \in Seq(T) /\ <<>> \in T /\ << <<>> >> \in Seq(T)
  BY <1>1
<1> HIDE DEF T
<1>3. \A p \in T : Append(Data, p) \in Seq(T)
  BY <1>2, AppendProperties
<1>4. /\ UNCHANGED down => Data' \in Seq(T)
      /\ down' = CloseWs(relay, down) => Data' \in Seq(T)
      /\ \A n \in Nat : down' = Append(down, [kind |-> "ack", n |-> n]) => Data' \in Seq(T)
      /\ down' = <<Gone>> => Data' \in Seq(T)
  BY <1>2, <1>3, DataStays
<1>5. \A d \in Downs : Brings(d) \in T /\ down' = Append(down, d) => Data' \in Seq(T)
  BY <1>3, DataIs
<1> QED
  BY <1>4, <1>5 DEF T

\* Whatever holds of every line on its way holds of it further on.
LEMMA HandsOn ==
  ASSUME NEW H, PipeOK, Apart, Moves \/ WsDrops \/ TcpDies \/ EndTransport,
         browser.chunks \in Seq(Seq(H)), Data \in Seq(Seq(H)), tcp.out \in Seq(H)
  PROVE  browser'.chunks \in Seq(Seq(H)) /\ Data' \in Seq(Seq(H)) /\ tcp'.out \in Seq(H)
<1> DEFINE T == Seq(H)
<1>1. <<>> \in T /\ <<>> \in Seq(H)
  OBVIOUS
<1>2. /\ down \in Seq(Downs) /\ browser \in Browsers /\ tcp \in Sockets /\ relay \in Relays
      /\ browser.chunks \in Seq(T) /\ Data \in Seq(T)
  BY DEF PipeOK
<1> HIDE DEF T
<1>3. /\ UNCHANGED down => Data' \in Seq(T)
      /\ down' = CloseWs(relay, down) => Data' \in Seq(T)
      /\ \A n \in Nat : down' = Append(down, [kind |-> "ack", n |-> n]) => Data' \in Seq(T)
      /\ down' = <<Gone>> => Data' \in Seq(T)
      /\ \A d \in Downs : Brings(d) \in T /\ down' = Append(down, d) => Data' \in Seq(T)
  <2>1. Data \in Seq(Seq(H))
    BY <1>2 DEF T
  <2> QED
    BY <1>2, <2>1, PieceJoins DEF T
<1>4. tcp' = [tcp EXCEPT !.dead = TRUE] => tcp'.out = tcp.out
  BY <1>2 DEF Sockets
<1>5. CASE EndTransport
  <2>1. browser'.chunks = browser.chunks /\ tcp'.out = tcp.out /\ UNCHANGED down
    BY <1>2, <1>5 DEF EndTransport, transport, Ended, Browsers, Sockets
  <2> QED
    BY <1>2, <1>3, <2>1 DEF T
<1>6. CASE WsDrops
  BY <1>2, <1>3, <1>6 DEF WsDrops, T
<1>7. CASE TcpDies
  <2>1. UNCHANGED <<browser, down>> /\ (tcp'.out = tcp.out \/ tcp'.out = <<>>)
    BY <1>2, <1>7 DEF TcpDies, Sockets
  <2> QED
    BY <1>1, <1>2, <1>3, <2>1 DEF T
<1>8. CASE TakeDown
  <2> DEFINE d == Head(down)
  <2>1. d \in Downs /\ down # <<>> /\ down' = Tail(down) /\ UNCHANGED <<relay, tcp>>
    BY <1>2, <1>8, HeadTailProperties DEF TakeDown
  <2>2. Data # <<>> /\ Data' = Tail(Data) /\ Head(Data) = Brings(d)
    BY <1>2, <2>1, DataIs
  <2>3. Data' \in Seq(T) /\ Brings(d) \in T
    <3> HIDE DEF Data
    <3> QED
      BY <1>2, <2>2, HeadTailProperties
  <2>4. browser'.chunks = browser.chunks \/ browser'.chunks = Append(browser.chunks, Brings(d))
    <3>1. CASE d = Gone \/ d.kind = "ack"
      BY <1>2, <1>8, <3>1 DEF TakeDown, Ended, Browsers
    <3>2. CASE d # Gone /\ d.kind # "ack"
      <4>1. Brings(d) = d.syms
        BY <2>1, <3>2 DEF Downs, Brings
      <4>2. browser' = [browser EXCEPT !.chunks = Append(@, d.syms)]
        BY <1>8, <3>2 DEF TakeDown
      <4>3. browser'.chunks = Append(browser.chunks, d.syms)
        BY <1>2, <4>2 DEF Browsers
      <4> QED
        BY <4>1, <4>3
    <3> QED
      BY <3>1, <3>2
  <2>5. browser'.chunks \in Seq(T)
    <3>1. \A p \in T : Append(browser.chunks, p) \in Seq(T)
      BY <1>2, AppendProperties
    <3> HIDE DEF d
    <3> QED
      BY <1>2, <2>3, <2>4, <3>1
  <2>6. tcp'.out \in Seq(H)
    BY <2>1
  <2> HIDE DEF d
  <2> QED
    BY <2>3, <2>5, <2>6 DEF T
<1>9. CASE TakeSocket
  <2>1. UNCHANGED <<up, down, relay>>
    BY <1>9 DEF TakeSocket
  <2>2. CASE tcp.out # <<>>
    <3>1. PICK n \in 1..Len(tcp.out) :
            /\ browser' = [browser EXCEPT !.chunks = Append(@, SubSeq(tcp.out, 1, n))]
            /\ tcp' = [tcp EXCEPT !.out = SubSeq(@, n + 1, Len(@))]
      BY <1>9, <2>2 DEF TakeSocket
    <3> DEFINE p == SubSeq(tcp.out, 1, n)
               rest == SubSeq(tcp.out, n + 1, Len(tcp.out))
    <3>2. browser'.chunks = Append(browser.chunks, p) /\ tcp'.out = rest
      BY <1>2, <3>1 DEF Browsers, Sockets
    <3>3. p \in Seq(H) /\ rest \in Seq(H)
      BY Parts
    <3> HIDE DEF p, rest
    <3>4. browser'.chunks \in Seq(T)
      <4>1. p \in T
        BY <3>3 DEF T
      <4> QED
        BY <1>2, <3>2, <4>1, AppendProperties
    <3> QED
      BY <1>3, <2>1, <3>2, <3>3, <3>4 DEF T
  <2>3. CASE tcp.out = <<>>
    <3>1. browser'.chunks = browser.chunks /\ UNCHANGED tcp
      BY <1>2, <1>9, <2>3 DEF TakeSocket, Ended, Browsers
    <3> QED
      BY <1>2, <1>3, <2>1, <3>1 DEF T
  <2> QED
    BY <2>2, <2>3
<1>10. CASE RelayTakes
  <2>1. /\ UNCHANGED browser /\ tcp'.out = tcp.out
        /\ UNCHANGED down \/ down' = CloseWs(relay, down)
    BY <1>4, <1>10 DEF RelayTakes
  <2> QED
    BY <1>2, <1>3, <2>1 DEF T
<1>11. CASE RelayWrites
  <2> DEFINE f == Head(relay.queue)
             r == Wrote(f)
             ack == Acknowledged(r)
  <2>1. /\ r \in Relays
        /\ down' = IF tcp.dead /\ ~relay.ended THEN CloseWs(relay, down)
                   ELSE IF ack.due THEN Append(down, [kind |-> "ack", n |-> r.written]) ELSE down
        /\ tcp' = IF tcp.dead THEN tcp ELSE [tcp EXCEPT !.in = Append(@, f)]
        /\ UNCHANGED browser
    BY <1>11, WriteIs
  <2> HIDE DEF r, ack
  <2>2. r.written \in Nat /\ tcp'.out = tcp.out
    BY <1>2, <2>1 DEF Relays, Sockets
  <2> QED
    BY <1>2, <1>3, <2>1, <2>2 DEF T
<1>12. CASE ReadFailed /\ UNCHANGED <<browser, up>>
  BY <1>2, <1>3, <1>4, <1>12 DEF ReadFailed, T
<1>13. CASE RelayFins
  <2>1. UNCHANGED <<browser, down>> /\ tcp'.out = tcp.out
    BY <1>2, <1>13 DEF RelayFins, Sockets
  <2> QED
    BY <1>2, <1>3, <2>1 DEF T
<1>14. CASE RelayEnds
  BY <1>2, <1>3, <1>4, <1>14 DEF RelayEnds, T
<1>15. CASE RelayReadEnds
  <2>1. CASE UNCHANGED <<browser, down, tcp>>
    BY <1>2, <1>3, <2>1 DEF T
  <2> QED
    BY <1>12, <1>15, <2>1 DEF RelayReadEnds
<1>16. CASE RelayReads
  <2>1. CASE \E n \in 1..Len(tcp.out) :
               /\ tcp' = [tcp EXCEPT !.out = SubSeq(@, n + 1, Len(@))]
               /\ down' = IF relay.wsClosed THEN down
                          ELSE Append(down, [kind |-> "data", syms |-> SubSeq(tcp.out, 1, n)])
    <3>1. PICK n \in 1..Len(tcp.out) :
            /\ tcp' = [tcp EXCEPT !.out = SubSeq(@, n + 1, Len(@))]
            /\ down' = IF relay.wsClosed THEN down
                       ELSE Append(down, [kind |-> "data", syms |-> SubSeq(tcp.out, 1, n)])
      BY <2>1
    <3> DEFINE p == SubSeq(tcp.out, 1, n)
               rest == SubSeq(tcp.out, n + 1, Len(tcp.out))
               d == [kind |-> "data", syms |-> p]
    <3>2. tcp'.out = rest /\ UNCHANGED browser
      BY <1>2, <1>16, <3>1 DEF Sockets, RelayReads
    <3>3. p \in Seq(H) /\ rest \in Seq(H)
      BY Parts
    <3>4. d \in Downs /\ Brings(d) \in {p, <<>>}
      <4>1. tcp.out \in Seq(Syms)
        BY <1>2 DEF Sockets
      <4>2. p \in Seq(Syms)
        BY <4>1, Parts
      <4>3. d \in [kind : {"data"}, syms : Seq(Syms)]
        BY <4>2
      <4>4. Brings(d) = IF d # Gone THEN p ELSE <<>>
        BY DEF Brings
      <4> QED
        BY <4>3, <4>4 DEF Downs
    <3>5. UNCHANGED down \/ down' = Append(down, d)
      BY <3>1
    <3> HIDE DEF p, rest, d
    <3>6. Brings(d) \in T
      BY <1>1, <3>3, <3>4 DEF T
    <3> QED
      BY <1>2, <1>3, <3>2, <3>3, <3>4, <3>5, <3>6 DEF T
  <2> QED
    BY <1>12, <1>16, <2>1 DEF RelayReads
<1> QED
  BY <1>5, <1>6, <1>7, <1>8, <1>9, <1>10, <1>11, <1>13, <1>14, <1>15, <1>16 DEF Moves

\* The message stays what it was.
LEMMA SamePlay ==
  ASSUME UNCHANGED cast
  PROVE  /\ Play' = Play /\ Size' = Size /\ BodyFrames' = BodyFrames /\ \A i : Part(i)' = Part(i)
         /\ \A s, i : Told(s, i)' = Told(s, i)
<1>1. Play' = Play
  BY DEF Play
<1>2. Size' = Size /\ BodyFrames' = BodyFrames
  BY <1>1 DEF Size, BodyFrames, DotStuff, Ended1
<1>3. \A i : Part(i)' = Part(i)
  BY <1>2 DEF Part, DotFrame, Dot
<1>4. \A s, i : Told(s, i)' = Told(s, i)
  BY <1>2, <1>3 DEF Told
<1> QED
  BY <1>1, <1>2, <1>3, <1>4

\* What will be on its way is frames and marks.
LEMMA StreamNext ==
  ASSUME PipeOK'
  PROVE  Stream' \in Seq(Marked) /\ Len(Stream') \in Nat
<1>1. tcp'.in \in Seq(Marked)
  <2>1. tcp'.in \in Seq(Frames) /\ Frames \subseteq Marked
    BY DEF PipeOK, Sockets, Marked
  <2> QED
    BY <2>1, SeqMonotonic
<1>2. relay'.queue \in Seq(Marked) /\ up' \in Seq(Marked) /\ <<>> \in Seq(Marked)
  BY DEF PipeOK, Relays
<1>3. Coming' \in Seq(Marked)
  BY <1>2, ConcatProperties DEF Coming
<1>4. Stream' \in Seq(Marked)
  BY <1>1, <1>3, ConcatProperties DEF Stream
<1> QED
  BY <1>4, LenProperties

\* A line that was a verdict stays one, as long as the server took no more and no end comes.
LEMMA VerdictsStay ==
  ASSUME sv'.taken = sv.taken, Away => Away', Away /\ Over => Over'
  PROVE  Verdicts \subseteq Verdicts'
BY DEF Verdicts

\* Lines that stay verdicts stay judged.
LEMMA StaysJudged ==
  ASSUME Verdicts \subseteq Verdicts', cl'.buf \in Seq(Verdicts),
         browser'.chunks \in Seq(Seq(Verdicts)), Data' \in Seq(Seq(Verdicts)), tcp'.out \in Seq(Verdicts)
  PROVE  Judged'
<1>1. ASSUME NEW S, NEW R, S \subseteq R
      PROVE  Seq(S) \subseteq Seq(R)
  BY <1>1, SeqMonotonic
<1>2. Seq(Verdicts) \subseteq Seq(Verdicts')
  BY <1>1
<1>3. Seq(Seq(Verdicts)) \subseteq Seq(Seq(Verdicts'))
  BY <1>1, <1>2
<1> QED
  BY <1>2, <1>3 DEF Judged

\* What takes from what is on its way, and gives the client and the server nothing, keeps it.
LEMMA FlowsKeep ==
  ASSUME UNCHANGED <<cast, sv>>, cl'.answer = cl.answer, Away' <=> Away,
         cl.pc \in Done => cl'.pc \in Done, Live' => Live /\ UNCHANGED cl,
         Promising, Flows, PipeOK'
  PROVE  Reading' /\ Writing' /\ Taking' /\ Telling' /\ Verdicts \subseteq Verdicts'
<1>1. /\ Reading /\ Writing /\ Taking /\ Telling /\ Less(Stream, Stream') /\ Len(Stream') \in Nat
      /\ Whole' => Whole /\ Stream' = Stream
  BY StreamNext DEF Promising, Flows
<1>2. /\ \A i : Told(Stream, i) => Told(Stream', i)
      /\ NoDot(Stream) => NoDot(Stream')
  BY <1>1, LessTold
<1>3. /\ Play' = Play /\ Size' = Size /\ BodyFrames' = BodyFrames /\ \A i : Part(i)' = Part(i)
      /\ \A s, i : Told(s, i)' = Told(s, i)
  BY SamePlay
<1>4. Got' = Got /\ Ended1(Play.data)' = Ended1(Play.data)
  BY <1>3 DEF Got, Ended1
<1>5. Told(Stream, Got)' = Told(Stream', Got)
  BY <1>3, <1>4
<1>6. Over => Over'
  BY <1>2 DEF Over
<1>7. Reading'
  <2>1. sv.mode # "gone" => Told(Stream, Got)'
    BY <1>1, <1>2, <1>5 DEF Reading
  <2>2. sv.mode \in {"start", "cmd"} => sv.lines = <<>>
    BY <1>1 DEF Reading
  <2>3. sv.mode = "data" => /\ Len(sv.lines) <= Size
                            /\ \A i \in 1..Len(sv.lines) : sv.lines[i] = Ended1(Play.data)[i]
    BY <1>1 DEF Reading
  <2> QED
    BY <1>3, <1>4, <2>1, <2>2, <2>3 DEF Reading
<1>8. Writing'
  BY <1>1, <1>3, <1>4 DEF Writing
<1>9. Taking'
  BY <1>1, <1>4, <1>6 DEF Taking
<1>10. Telling'
  BY <1>1, <1>6 DEF Telling
<1> QED
  BY <1>4, <1>6, <1>7, <1>8, <1>9, <1>10, VerdictsStay

\* The network, the watchdogs of the connection and the faults.
LEMMA OtherPromises ==
  ASSUME Inv, Promising, Transport \/ AckStall \/ Fault, PipeOK'
  PROVE  Promising'
<1>1. /\ UNCHANGED <<cast, cl, sv>> /\ (Moves \/ WsDrops \/ TcpDies \/ EndTransport)
      /\ TypeOK /\ PipeOK /\ Apart /\ Queueing
  BY DEF Transport, AckStall, Fault, Inv, TypeOK, Carries
<1>2. Live' => Live
  BY <1>1, EndedStays DEF Live
<1>3. Flows
  BY <1>1, EndFlows, TakesFlows, RelayTakesFlows, RelayWritesFlows, RelayReadsFlows, FaultFlows
     DEF Moves
<1>4. Reading' /\ Writing' /\ Taking' /\ Telling' /\ Verdicts \subseteq Verdicts'
  <2>1. Away' <=> Away
    BY <1>1 DEF Away
  <2> QED
    BY <1>1, <1>2, <1>3, <2>1, FlowsKeep
<1>5. Judged'
  <2>1. /\ cl.buf \in Seq(Verdicts) /\ browser.chunks \in Seq(Seq(Verdicts))
        /\ Data \in Seq(Seq(Verdicts)) /\ tcp.out \in Seq(Verdicts)
    BY DEF Promising, Judged
  <2>2. /\ browser'.chunks \in Seq(Seq(Verdicts)) /\ Data' \in Seq(Seq(Verdicts))
        /\ tcp'.out \in Seq(Verdicts)
    BY <1>1, <2>1, HandsOn
  <2> QED
    BY <1>1, <1>4, <2>1, <2>2, StaysJudged
<1> QED
  BY <1>4, <1>5 DEF Promising

-----------------------------------------------------------------------------
(* What the client says of the submission. *)

\* What closing, quitting and saying leave of the client.
LEMMA EndSays ==
  ASSUME NEW c \in Clients
  PROVE  /\ Closing(c).pc = "bye" /\ Closing(c).answer = c.answer
         /\ Quitting(c).pc \in {"quit", "bye"} /\ Quitting(c).answer = c.answer
         /\ Abandoned(c) \in Clients /\ Abandoned(c).pc = c.pc /\ Abandoned(c).answer = c.answer
         /\ \A a \in {"sent", "refused", "unconfirmed"} :
              /\ Says(c, a) \in Clients /\ Says(c, a).pc = c.pc
              /\ Says(c, a).answer = IF c.answer = "none" THEN a ELSE c.answer
<1>1. Closing(c).pc = "bye" /\ Closing(c).answer = c.answer
  BY DEF Closing, Clients
<1>2. Quitting(c).pc \in {"quit", "bye"} /\ Quitting(c).answer = c.answer
  BY <1>1 DEF Quitting, Clients
<1>3. Abandoned(c) \in Clients /\ Abandoned(c).pc = c.pc /\ Abandoned(c).answer = c.answer
  BY Endings DEF Abandoned, Clients
<1>4. ASSUME NEW a \in {"sent", "refused", "unconfirmed"}
      PROVE  /\ Says(c, a) \in Clients /\ Says(c, a).pc = c.pc
             /\ Says(c, a).answer = IF c.answer = "none" THEN a ELSE c.answer
  <2>1. Says(c, a) \in Clients
    BY Endings
  <2>2. Says(c, a).pc = c.pc /\ Says(c, a).answer = IF c.answer = "none" THEN a ELSE c.answer
    BY DEF Says, Clients
  <2> QED
    BY <2>1, <2>2
<1> QED
  BY <1>1, <1>2, <1>3, <1>4

\* A submission of unknown outcome leaves the client done.
LEMMA UnconfirmedSays ==
  ASSUME NEW c \in Clients, c.answer = "none"
  PROVE  Unconfirmed(c).pc \in Done /\ Unconfirmed(c).answer = "unconfirmed"
<1> DEFINE d == Says(c, "unconfirmed")
<1>1. d \in Clients /\ d.answer = "unconfirmed"
  BY EndSays
<1> HIDE DEF d
<1>2. Abandoned(d) \in Clients /\ Abandoned(d).answer = "unconfirmed"
  BY <1>1, EndSays
<1>3. Quitting(Abandoned(d)).pc \in Done /\ Quitting(Abandoned(d)).answer = "unconfirmed"
  BY <1>2, EndSays DEF Done
<1> QED
  BY <1>3 DEF Unconfirmed, d

\* What a failure says: nothing of a submission that has an answer, "unconfirmed" of one whose
\* end was written, and of any other that it was refused.
Fails(c, d) ==
  /\ d.pc \in Done
  /\ \/ c.pc \in Done /\ d.answer = c.answer
     \/ c.pc = "answer" /\ d.answer = "unconfirmed"
     \/ c.pc \notin Done \cup {"answer"} /\ d.answer = "refused"

\* A failure leaves the client done, and refused only where nothing was judged.
LEMMA FailedSays ==
  ASSUME NEW c \in Clients, c.answer # "none" => c.pc \in Done, c.pc # "closed"
  PROVE  Fails(c, Failed(c)) /\ Fails(c, Failed(Abandoned(c)))
<1>1. ASSUME NEW e \in Clients, e.answer # "none" => e.pc \in Done, e.pc # "closed"
      PROVE  Fails(e, Failed(e))
  <2> DEFINE d == Says(e, "refused")
  <2>1. d \in Clients /\ d.pc = e.pc /\ (e.answer = "none" => d.answer = "refused")
    BY <1>1, EndSays
  <2> HIDE DEF d
  <2>2. CASE e.pc \in {"greeting", "ehlo"}
    <3>1. Failed(e) = Closing(d)
      BY <2>2 DEF Failed, d
    <3>2. Closing(d).pc = "bye" /\ Closing(d).answer = "refused"
      BY <1>1, <2>1, <2>2, EndSays DEF Done
    <3> QED
      BY <2>2, <3>1, <3>2 DEF Fails, Done
  <2>3. CASE e.pc = "answer"
    BY <1>1, <2>3, UnconfirmedSays DEF Failed, Fails, Done
  <2>4. CASE e.pc = "quit"
    BY <1>1, <2>4, EndSays DEF Failed, Fails, Done
  <2>5. CASE e.pc = "bye"
    <3>1. Failed(e) = [e EXCEPT !.left = <<>>]
      BY <2>5 DEF Failed
    <3>2. Failed(e).pc = "bye" /\ Failed(e).answer = e.answer
      BY <1>1, <2>5, <3>1 DEF Clients
    <3> QED
      BY <2>5, <3>2 DEF Fails, Done
  <2>6. CASE e.pc \notin {"greeting", "ehlo", "answer", "quit", "bye"}
    <3>1. Failed(e) = Quitting(d)
      BY <2>6 DEF Failed, d
    <3>2. e.pc \notin Done
      BY <1>1, <2>6 DEF Done
    <3>3. Quitting(d).pc \in Done /\ Quitting(d).answer = "refused"
      BY <1>1, <2>1, <3>2, EndSays DEF Done
    <3> QED
      BY <2>6, <3>1, <3>2, <3>3 DEF Fails
  <2> QED
    BY <2>2, <2>3, <2>4, <2>5, <2>6
<1>2. Abandoned(c) \in Clients /\ Abandoned(c).pc = c.pc /\ Abandoned(c).answer = c.answer
  BY EndSays
<1> QED
  BY <1>1, <1>2 DEF Fails

\* What a reply leads to: the next line, the message, or the end and what it says.
Advances(d, code) ==
  \/ cl.pc \in Before /\ d.pc \in Before \cup {"data"} /\ d.answer = cl.answer
  \/ cl.pc = "data" /\ code = 354 /\ d.pc = "body" /\ d.left = BodyFrames /\ d.answer = cl.answer
  \/ Fails(cl, d)
  \/ cl.pc = "answer" /\ d.pc \in Done /\ code \in 200..299 /\ d.answer = "sent"
  \/ cl.pc = "answer" /\ d.pc \in Done /\ code \in 400..599 /\ d.answer = "refused"

\* A reply moves the client on, or leaves it done.
LEMMA RepliedSays ==
  ASSUME TypeOK, cl.answer # "none" => cl.pc \in Done,
         cl.pc \in DOMAIN Takes \/ cl.pc = "answer", NEW code \in Nat
  PROVE  Advances(Replied(code), code)
<1>0. cl \in Clients /\ cast \in DOMAIN Casts
  BY DEF TypeOK
<1>1. /\ \A a \in {"sent", "refused", "unconfirmed"} :
           cl.pc # "quit" => Quitting(Says(cl, a)).pc \in Done /\ Quitting(Says(cl, a)).answer = a
      /\ cl.pc = "quit" => Fails(cl, Closing(cl))
  <2>1. ASSUME NEW a \in {"sent", "refused", "unconfirmed"}, cl.pc # "quit"
        PROVE  Quitting(Says(cl, a)).pc \in Done /\ Quitting(Says(cl, a)).answer = a
    <3> DEFINE d == Says(cl, a)
    <3>1. d \in Clients /\ d.answer = a
      BY <1>0, <2>1, EndSays DEF Takes, Done
    <3> HIDE DEF d
    <3>2. Quitting(d).pc \in Done /\ Quitting(d).answer = a
      BY <3>1, EndSays DEF Done
    <3> QED
      BY <3>2 DEF d
  <2>2. cl.pc = "quit" => Fails(cl, Closing(cl))
    BY <1>0, EndSays DEF Fails, Done
  <2> QED
    BY <2>1, <2>2
<1>2. \A q \in Commands : Command(q).pc = q /\ Command(q).answer = cl.answer
  BY <1>0 DEF Command, Clients
<1>3. Fails(cl, Failed(cl))
  BY <1>0, FailedSays DEF Takes
<1>4. CASE cl.pc = "answer"
  <2>1. Replied(code) = Answered(code)
    BY <1>4 DEF Replied
  <2>2. CASE code \in 200..299
    BY <1>1, <1>4, <2>1, <2>2 DEF Answered, Advances
  <2>3. CASE code \notin 200..299 /\ code \in 400..599
    BY <1>1, <1>4, <2>1, <2>3 DEF Answered, Advances
  <2>4. CASE code \notin 200..299 /\ code \notin 400..599
    <3>1. Unconfirmed(cl).pc \in Done /\ Unconfirmed(cl).answer = "unconfirmed"
      BY <1>0, <1>4, UnconfirmedSays DEF Done
    <3>2. Answered(code) = Unconfirmed(cl)
      BY <2>4 DEF Answered
    <3> QED
      BY <1>4, <2>1, <3>1, <3>2 DEF Advances, Fails
  <2> QED
    BY <2>2, <2>3, <2>4
<1>5. CASE cl.pc # "answer" /\ code \notin Takes[cl.pc]
  BY <1>3, <1>5 DEF Replied, Advances
<1>6. CASE cl.pc = "data" /\ code \in Takes[cl.pc]
  <2>1. code = 354 /\ Replied(code) = [cl EXCEPT !.pc = "body", !.sub = "write", !.left = BodyFrames]
    BY <1>6 DEF Replied, NextStep, Takes
  <2>2. Replied(code).pc = "body" /\ Replied(code).left = BodyFrames /\ Replied(code).answer = cl.answer
    <3> DEFINE d == [cl EXCEPT !.pc = "body", !.sub = "write", !.left = BodyFrames]
    <3>1. d.pc = "body" /\ d.left = BodyFrames /\ d.answer = cl.answer
      BY <1>0 DEF Clients
    <3>2. Replied(code) = d
      BY <2>1
    <3> HIDE DEF d
    <3> QED
      BY <3>1, <3>2
  <2> QED
    BY <1>6, <2>1, <2>2 DEF Advances
<1>7. CASE cl.pc = "quit" /\ code \in Takes[cl.pc]
  BY <1>1, <1>7 DEF Replied, NextStep, Advances
<1>8. CASE cl.pc \notin {"answer", "data", "quit"} /\ code \in Takes[cl.pc]
  <2>1. Replied(code) = NextStep /\ cl.pc \in Before /\ cl.pc \notin Done \cup {"answer"}
    BY <1>8 DEF Replied, Takes, Before, Done
  <2>2. \A q \in {"ehlo", "plain", "login", "user", "pass", "mail", "rcpt", "data"} : Advances(Command(q), code)
    BY <1>2, <2>1 DEF Advances, Before, Commands
  <2>3. Advances(Quitting(Says(cl, "refused")), code)
    BY <1>1, <1>8, <2>1 DEF Advances, Fails
  <2>4. Advances(AuthStep, code) /\ Advances(Envelope, code)
    BY <2>2, <2>3 DEF AuthStep, Envelope
  <2>5. Advances(AfterRcpt, code)
    <3>1. Command("rcpt") \in Clients
      BY <1>0, GoesOn DEF Commands
    <3> DEFINE c == Command("rcpt")
    <3>2. c.pc = "rcpt" /\ c.answer = cl.answer
      BY <1>2 DEF Commands
    <3> HIDE DEF c
    <3>3. [c EXCEPT !.rcpt = @ + 1].pc = "rcpt" /\ [c EXCEPT !.rcpt = @ + 1].answer = cl.answer
      BY <3>1, <3>2 DEF Clients, c
    <3>4. Advances([c EXCEPT !.rcpt = @ + 1], code)
      BY <2>1, <3>3 DEF Advances, Before
    <3> QED
      BY <2>2, <3>4 DEF AfterRcpt, c
  <2>6. Advances(NextStep, code)
    BY <1>8, <2>2, <2>4, <2>5 DEF NextStep, Takes
  <2> QED
    BY <2>1, <2>6
<1> QED
  BY <1>4, <1>5, <1>6, <1>7, <1>8

-----------------------------------------------------------------------------
(* The client's own steps leave what is on its way to the server. *)

\* What is on its way stays, whatever the client does by itself.
LEMMA OwnStream ==
  ASSUME UNCHANGED <<cast, sv, up, relay, tcp>>
  PROVE  /\ Stream' = Stream /\ (Whole' <=> Whole) /\ Got' = Got /\ Size' = Size
         /\ BodyFrames' = BodyFrames /\ Play' = Play
         /\ (Over' <=> Over) /\ (Reading => Reading')
         /\ \A i : Part(i)' = Part(i)
<1>1. /\ Play' = Play /\ Size' = Size /\ BodyFrames' = BodyFrames /\ \A i : Part(i)' = Part(i)
      /\ \A s, i : Told(s, i)' = Told(s, i)
  BY SamePlay
<1>2. Stream' = Stream
  BY DEF Stream, Coming, Shut
<1>3. Whole' <=> Whole
  BY <1>2 DEF Whole, Shut, Direct
<1>4. Got' = Got /\ (Over' <=> Over)
  BY <1>1, <1>2 DEF Got, Over
<1>5. Told(Stream, Got)' = Told(Stream, Got)
  BY <1>1, <1>2, <1>4
<1>6. Ended1(Play.data)' = Ended1(Play.data)
  BY <1>1 DEF Ended1
<1>7. Reading => Reading'
  BY <1>1, <1>5, <1>6 DEF Reading
<1> QED
  BY <1>1, <1>2, <1>3, <1>4, <1>7

\* A step of the client that writes nothing keeps the rest.
LEMMA OwnKeeps ==
  ASSUME Promising, UNCHANGED <<cast, sv, up, down, relay, tcp>>, down \in Seq(Downs),
         Away => Away', Writing', Telling',
         cl'.buf \in Seq(Verdicts), browser'.chunks \in Seq(Seq(Verdicts))
  PROVE  Promising'
<1>1. (Over' <=> Over) /\ Play' = Play /\ (Reading => Reading')
  BY OwnStream
<1>2. Ended1(Play.data)' = Ended1(Play.data)
  BY <1>1 DEF Ended1
<1>3. Reading'
  BY <1>1 DEF Promising
<1>4. Taking'
  BY <1>1, <1>2 DEF Promising, Taking
<1>5. Verdicts \subseteq Verdicts'
  BY <1>1, VerdictsStay
<1>6. Data' = Data
  BY DataStays
<1>7. Judged'
  <2>1. Data' \in Seq(Seq(Verdicts)) /\ tcp'.out \in Seq(Verdicts)
    BY <1>6 DEF Promising, Judged
  <2> QED
    BY <1>5, <2>1, StaysJudged
<1> QED
  BY <1>3, <1>4, <1>7 DEF Promising

\* The client is done, and what it says of the submission is so.
Fair ==
  /\ cl'.pc \in Done
  /\ \/ cl'.answer = cl.answer \/ cl'.answer = "unconfirmed"
     \/ cl'.answer = "refused" /\ sv.taken = <<>> /\ Over
     \/ cl'.answer = "sent" /\ sv.taken # <<>>

\* A client that is done tells no more than it may.
LEMMA FairTells ==
  ASSUME Promising, UNCHANGED <<cast, sv, up, relay, tcp>>, Fair
  PROVE  Away' /\ Writing' /\ Telling'
<1>1. Over' <=> Over
  BY OwnStream
<1>2. cl'.pc \notin Before \cup {"data", "body", "dot"}
  BY DEF Fair, Done, Before
<1>3. Writing'
  BY <1>2 DEF Writing
<1>4. Telling'
  BY <1>1 DEF Promising, Telling, Fair
<1> QED
  BY <1>3, <1>4 DEF Away, Fair

\* A failure says what is so.
LEMMA FailsFairly ==
  ASSUME Promising, Fails(cl, cl'), cl.pc # "dot"
  PROVE  Fair
<1>1. CASE cl.pc \in Done \/ cl.pc = "answer"
  BY <1>1 DEF Fails, Fair, Done
<1>2. CASE cl.pc \notin Done \cup {"answer"}
  <2>1. ~Away
    BY <1>2 DEF Away
  <2>2. sv.taken = <<>> /\ Over
    BY <2>1 DEF Promising, Taking
  <2> QED
    BY <1>2, <2>2 DEF Fails, Fair
<1> QED
  BY <1>1, <1>2

\* A submission that has not been told of is not done.
LEMMA Untold ==
  ASSUME Promising
  PROVE  /\ cl.answer # "none" => cl.pc \in Done
         /\ sv.mode = "data" /\ Live => cl.pc \notin Before
BY DEF Promising, Telling, Writing

\* The connection is opened, or refused.
LEMMA OpenPromises ==
  ASSUME TypeOK, Pairing, Promising, Open
  PROVE  Promising'
<1>1. /\ cl \in Clients /\ down \in Seq(Downs) /\ cl.pc = "open" /\ UNCHANGED <<cast, transport, sv>>
      /\ cl.left = <<>>
  BY DEF TypeOK, PipeOK, Open, Pairing, Stepping, Commands
<1>2. UNCHANGED <<browser, up, down, relay, tcp>>
  BY <1>1 DEF transport
<1>3. sv.mode # "data"
  BY <1>1, Untold DEF Live, Before
<1>4. cl.buf \in Seq(Verdicts) /\ browser.chunks \in Seq(Seq(Verdicts)) /\ ~Away
  BY <1>1 DEF Promising, Judged, Away, Done
<1>5. CASE cl' = [cl EXCEPT !.pc = "greeting", !.sub = "reply"]
  <2>1. cl'.pc = "greeting" /\ cl'.answer = cl.answer /\ cl'.buf = cl.buf
    BY <1>1, <1>5 DEF Clients
  <2>2. Writing'
    BY <1>1, <1>3 DEF Writing
  <2>3. cl.answer = "none"
    BY <1>1, Untold DEF Done
  <2>4. Telling'
    BY <2>1, <2>3 DEF Telling
  <2> QED
    BY <1>1, <1>2, <1>4, <2>1, <2>2, <2>4, OwnKeeps
<1>6. CASE cl' = [cl EXCEPT !.pc = "closed", !.answer = "refused"]
  <2>1. cl'.pc = "closed" /\ cl'.answer = "refused" /\ cl'.buf = cl.buf
    BY <1>1, <1>6 DEF Clients
  <2>2. Fair
    BY <1>4, <2>1 DEF Fair, Done, Promising, Taking
  <2> QED
    BY <1>1, <1>2, <1>4, <2>1, <2>2, FairTells, OwnKeeps
<1> QED
  BY <1>5, <1>6 DEF Open

\* A write fails.
LEMMA WriteFailsPromises ==
  ASSUME TypeOK, Pairing, Promising, WriteFails
  PROVE  Promising'
<1>1. /\ cl \in Clients /\ down \in Seq(Downs) /\ cl.sub = "write" /\ cl.left # <<>>
      /\ UNCHANGED <<cast, transport, sv>> /\ cl.pc # "closed"
  BY DEF TypeOK, PipeOK, WriteFails, Pairing, Stepping, Commands
<1>2. UNCHANGED <<browser, up, down, relay, tcp>>
  BY <1>1 DEF transport
<1>3. /\ Keeps(cl, Failed(cl)) /\ Keeps(cl, Unconfirmed(cl)) /\ Keeps(cl, Failed(Abandoned(cl)))
  BY <1>1, FailedIs
<1>4. cl'.buf = cl.buf
  BY <1>3 DEF WriteFails, Keeps
<1>5. Fair
  <2>1. CASE cl.pc = "dot"
    <3>1. cl' = Unconfirmed(cl) /\ cl.answer = "none"
      BY <2>1, Untold DEF WriteFails, Done
    <3> QED
      BY <1>1, <3>1, UnconfirmedSays DEF Fair
  <2>2. CASE cl.pc # "dot"
    <3>1. cl' = Failed(cl) \/ cl' = Failed(Abandoned(cl))
      BY <2>2 DEF WriteFails
    <3>2. Fails(cl, cl')
      BY <1>1, <3>1, FailedSays, Untold
    <3> QED
      BY <2>2, <3>2, FailsFairly
  <2> QED
    BY <2>1, <2>2
<1>6. cl.buf \in Seq(Verdicts) /\ browser.chunks \in Seq(Seq(Verdicts))
  BY DEF Promising, Judged
<1> QED
  BY <1>1, <1>2, <1>4, <1>5, <1>6, FairTells, OwnKeeps

\* A reply that never came.
LEMMA TimeoutPromises ==
  ASSUME TypeOK, Pairing, Promising, ReplyTimeout
  PROVE  Promising'
<1>1. /\ cl \in Clients /\ down \in Seq(Downs) /\ cl.sub = "reply"
      /\ UNCHANGED <<cast, transport, sv>> /\ cl.pc \notin {"bye", "closed", "dot"}
      /\ cl' = Failed(Abandoned(cl))
  BY DEF TypeOK, PipeOK, ReplyTimeout, TimedOut, Pairing, Stepping, Takes
<1>2. UNCHANGED <<browser, up, down, relay, tcp>>
  BY <1>1 DEF transport
<1>3. cl'.buf = cl.buf
  BY <1>1, FailedIs DEF Keeps
<1>4. Fair
  BY <1>1, FailedSays, Untold, FailsFairly
<1>5. cl.buf \in Seq(Verdicts) /\ browser.chunks \in Seq(Seq(Verdicts))
  BY DEF Promising, Judged
<1> QED
  BY <1>1, <1>2, <1>3, <1>4, <1>5, FairTells, OwnKeeps

\* All was written.
LEMMA WrittenPromises ==
  ASSUME TypeOK, Pairing, Promising, Written
  PROVE  Promising'
<1>1. /\ cl \in Clients /\ down \in Seq(Downs) /\ cl.sub = "write" /\ cl.left = <<>>
      /\ UNCHANGED <<cast, transport, sv>> /\ cl.pc \notin {"bye", "open", "closed"}
  BY DEF TypeOK, PipeOK, Written
<1>2. UNCHANGED <<browser, up, down, relay, tcp>>
  BY <1>1 DEF transport
<1>3. /\ cl'.left = cl.left /\ cl'.buf = cl.buf /\ cl'.answer = cl.answer
      /\ cl.pc = "dot" => cl'.pc = "answer"
      /\ cl.pc # "dot" => cl'.pc = cl.pc
  <2>1. CASE cl.pc = "body"
    BY <1>1, <2>1 DEF Written, Clients
  <2>2. CASE cl.pc = "dot"
    BY <1>1, <2>2 DEF Written, Clients
  <2>3. CASE cl.pc \notin {"body", "dot"}
    BY <1>1, <2>3 DEF Written, Clients
  <2> QED
    BY <2>1, <2>2, <2>3
<1>4. Live /\ (Away => Away')
  BY <1>1, <1>3 DEF Live, Away, Done
<1>5. Telling'
  <2>1. Over' <=> Over
    BY <1>1, <1>2, OwnStream
  <2> QED
    BY <1>1, <1>3, <2>1 DEF Promising, Telling, Done
<1>6. Writing'
  <2>1. /\ Stream' = Stream /\ (Whole' <=> Whole) /\ Got' = Got /\ Size' = Size
        /\ \A i : Part(i)' = Part(i)
    BY <1>1, <1>2, OwnStream
  <2>2. Writing
    BY DEF Promising
  <2>3. CASE cl.pc = "dot"
    BY <1>3, <2>3 DEF Writing, Before
  <2>4. CASE cl.pc # "dot"
    BY <1>1, <1>3, <1>4, <2>1, <2>2, <2>4 DEF Writing
  <2> QED
    BY <2>3, <2>4
<1>7. cl.buf \in Seq(Verdicts) /\ browser.chunks \in Seq(Seq(Verdicts))
  BY DEF Promising, Judged
<1> QED
  BY <1>1, <1>2, <1>3, <1>4, <1>5, <1>6, <1>7, OwnKeeps

\* The message has left the relay, or the connection is lost before it has.
LEMMA FlushPromises ==
  ASSUME TypeOK, Pairing, Promising, Flush
  PROVE  Promising'
<1>1. /\ cl \in Clients /\ down \in Seq(Downs) /\ cl.sub = "flush" /\ cl.left = <<>> /\ cl.pc = "body"
      /\ UNCHANGED <<cast, transport, sv>>
  BY DEF TypeOK, PipeOK, Flush, Pairing, Stepping
<1>2. UNCHANGED <<browser, up, down, relay, tcp>> /\ Live
  BY <1>1 DEF transport, Live
<1>3. cl.buf \in Seq(Verdicts) /\ browser.chunks \in Seq(Seq(Verdicts)) /\ cl.answer = "none" /\ ~Away
  BY <1>1, Untold DEF Promising, Judged, Done, Away
<1>4. CASE cl' = Failed(Abandoned(cl))
  <2>1. cl'.buf = cl.buf
    BY <1>1, <1>4, FailedIs DEF Keeps
  <2>2. Fair
    BY <1>1, <1>4, FailedSays, Untold, FailsFairly
  <2> QED
    BY <1>1, <1>2, <1>3, <2>1, <2>2, FairTells, OwnKeeps
<1>5. CASE cl' = [cl EXCEPT !.pc = "dot", !.sub = "write", !.left = <<DotFrame>>]
  <2>1. cl'.pc = "dot" /\ cl'.left = <<DotFrame>> /\ cl'.buf = cl.buf /\ cl'.answer = cl.answer
    BY <1>1, <1>5 DEF Clients
  <2>2. Telling'
    BY <1>3, <2>1 DEF Telling
  <2>3. Writing'
    <3>1. Stream' = Stream /\ (Whole' <=> Whole) /\ Got' = Got /\ Size' = Size
      BY <1>1, <1>2, OwnStream
    <3>2. sv.mode = "data" /\ Whole => Got + Len(Stream) = Size
      <4>1. sv.mode = "data" /\ Whole => Got + Len(Stream) + Len(cl.left) = Size
        BY <1>1, <1>2 DEF Promising, Writing
      <4>2. Len(cl.left) = 0 /\ Len(Stream) \in Nat
        BY <1>1, StreamIs, LenProperties DEF TypeOK
      <4>3. sv.mode = "data" => Got \in Nat
        BY LenProperties DEF Got, TypeOK, Servers
      <4> QED
        BY <4>1, <4>2, <4>3
    <3>3. cl'.pc \notin Before
      BY <2>1 DEF Before
    <3> QED
      BY <1>1, <2>1, <3>1, <3>2, <3>3 DEF Writing
  <2> QED
    BY <1>1, <1>2, <1>3, <2>1, <2>2, <2>3, OwnKeeps
<1> QED
  BY <1>4, <1>5 DEF Flush, DotFrame

\* A client that goes on but for the line it read says what it said.
LEMMA RestSays ==
  ASSUME NEW d \in Clients
  PROVE  LET r == [d EXCEPT !.buf = Tail(@)] IN
         /\ r.answer = d.answer
         /\ \A p : [r EXCEPT !.paired = p].answer = d.answer
         /\ \A n : [r EXCEPT !.code = n].answer = d.answer
<1> DEFINE r == [d EXCEPT !.buf = Tail(@)]
<1>1. r = [d EXCEPT !.buf = Tail(d.buf)]
  BY DEF Clients
<1>2. r.answer = d.answer /\ "answer" \in DOMAIN r
  BY <1>1 DEF Clients
<1> HIDE DEF r
<1>3. /\ \A p : [r EXCEPT !.paired = p].answer = d.answer
      /\ \A n : [r EXCEPT !.code = n].answer = d.answer
  BY <1>2
<1> QED
  BY <1>2, <1>3 DEF r

\* Where a reply takes the client, and what it says then.
LEMMA GoesKeeps ==
  ASSUME TypeOK, Pairing, Promising, UNCHANGED <<cast, sv, up, relay, tcp>>, cl.sub = "reply", cl.buf # <<>>,
         Head(cl.buf) # Junk, Advances(cl', Head(cl.buf).code)
  PROVE  (Away => Away') /\ Writing' /\ Telling'
<1> DEFINE l == Head(cl.buf)
<1>1. /\ Stepping /\ Speaking /\ Live
      /\ cl.pc \in DOMAIN Takes \/ cl.pc = "answer"
  BY DEF Pairing, Stepping, Live, Takes
<1>2. l.to = cl.pc
  BY <1>1, LineIs
<1>3. l \in Verdicts
  <2>1. cl.buf \in Seq(Verdicts)
    BY DEF Promising, Judged
  <2> HIDE DEF Verdicts
  <2> QED
    BY <2>1, HeadTailProperties
<1> HIDE DEF l
<1>4. cl.pc \notin {"dot", "body"} /\ (Away => cl.pc \in {"answer", "quit"})
  BY <1>1 DEF Takes, Away, Done
<1>5. CASE Fails(cl, cl')
  <2>1. Fair
    BY <1>4, <1>5, FailsFairly
  <2> QED
    BY <1>1, <2>1, FairTells
<1>6. CASE /\ cl.pc = "answer" /\ cl'.pc \in Done
           /\ \/ l.code \in 200..299 /\ cl'.answer = "sent"
              \/ l.code \in 400..599 /\ cl'.answer = "refused"
  <2>1. /\ l.code \in 200..299 => sv.taken # <<>>
        /\ l.code \in 400..599 => sv.taken = <<>> /\ Over
    BY <1>2, <1>3, <1>6 DEF Verdicts, l
  <2>2. Fair
    BY <1>6, <2>1 DEF Fair
  <2> QED
    BY <1>1, <2>2, FairTells
<1>7. CASE cl.pc \in Before /\ cl'.pc \in Before \cup {"data"} /\ cl'.answer = cl.answer
  <2>1. sv.mode # "data" /\ cl.answer = "none" /\ ~Away
    BY <1>1, <1>7, Untold DEF Before, Done, Away
  <2>2. Writing' /\ Telling'
    BY <1>7, <2>1 DEF Writing, Telling
  <2> QED
    BY <2>1, <2>2
<1>8. CASE cl.pc = "data" /\ cl'.pc = "body" /\ cl'.left = BodyFrames /\ cl'.answer = cl.answer
  <2>1. cl.answer = "none" /\ ~Away
    BY <1>8, Untold DEF Done, Away
  <2>2. Telling'
    BY <1>8, <2>1 DEF Telling
  <2>3. /\ Stream' = Stream /\ (Whole' <=> Whole) /\ Got' = Got /\ Size' = Size
        /\ \A i : Part(i)' = Part(i)
    BY <1>1, OwnStream
  <2>4. ASSUME sv.mode = "data", Whole
        PROVE  /\ Got + Len(Stream) + Len(cl'.left) = Size
               /\ \A i \in 1..Len(cl'.left) : cl'.left[i] = Part(Got + Len(Stream) + i)
    <3>1. Stream = <<>> /\ sv.lines = <<>>
      BY <1>1, <1>8, <2>4 DEF Promising, Writing
    <3>2. Got = 0 /\ Len(Stream) = 0
      BY <2>4, <3>1 DEF Got
    <3>3. Size \in Nat /\ Len(BodyFrames) = Size
      <4>1. BodyFrames \in Seq(BodyLine)
        BY BodiesAreLines DEF TypeOK
      <4>2. Play.data \in Seq(Lines)
        BY CastsAssumption DEF TypeOK, Play
      <4>3. DOMAIN BodyFrames = 1..Len(Play.data) /\ Len(Play.data) \in Nat
        BY <4>2, LenProperties DEF BodyFrames
      <4>4. DOMAIN BodyFrames = 1..Len(BodyFrames) /\ Len(BodyFrames) \in Nat
        <5> HIDE DEF BodyFrames
        <5> QED
          BY <4>1, LenProperties
      <4>5. \A m, n \in Nat : 1..m = 1..n => m = n
        <5> SUFFICES ASSUME NEW m \in Nat, NEW n \in Nat, 1..m = 1..n PROVE m = n
          OBVIOUS
        <5>1. \A k \in Nat : k \in 1..m <=> k \in 1..n
          OBVIOUS
        <5>2. CASE m = 0
          BY <5>1, <5>2
        <5>3. CASE n = 0
          BY <5>1, <5>3
        <5>4. CASE m > 0 /\ n > 0
          BY <5>1, <5>4
        <5> QED
          BY <5>2, <5>3, <5>4
      <4> QED
        BY <4>3, <4>4, <4>5 DEF Size
    <3>4. \A i \in 1..Len(cl'.left) : cl'.left[i] = Part(i) /\ 0 + 0 + i = i
      BY <1>8, <3>3 DEF Part
    <3> QED
      BY <1>8, <3>2, <3>3, <3>4
  <2>5. cl'.pc \notin Before \cup {"data", "dot"}
    BY <1>8 DEF Before
  <2>6. Writing'
    BY <2>3, <2>4, <2>5 DEF Writing
  <2> QED
    BY <2>1, <2>2, <2>6
<1> QED
  BY <1>5, <1>6, <1>7, <1>8 DEF Advances, l

\* A line of a reply is read.
LEMMA ReadPromises ==
  ASSUME TypeOK, Pairing, Promising, ReadLine
  PROVE  Promising'
<1>1. /\ cl \in Clients /\ down \in Seq(Downs) /\ cl.sub = "reply" /\ UNCHANGED <<cast, sv>> /\ Stepping
      /\ cl.pc \in DOMAIN Takes \/ cl.pc = "answer"
      /\ UNCHANGED <<up, down, relay, tcp>>
  BY DEF TypeOK, PipeOK, ReadLine, Pairing, Stepping, transport
<1>2. Live /\ Speaking /\ cl.pc \notin {"bye", "closed", "dot"}
  BY <1>1 DEF Live, Pairing, Takes
<1>3. /\ cl.buf \in Seq(Verdicts) /\ browser.chunks \in Seq(Seq(Verdicts))
  BY DEF Promising, Judged
<1>4. Fails(cl, Failed(cl)) /\ Failed(cl) \in Clients /\ Failed(cl).buf = cl.buf
  BY <1>1, <1>2, FailedSays, Untold, FailedIs, Stops DEF Keeps
<1>5. ASSUME cl'.pc = cl.pc, cl'.left = cl.left, cl'.answer = cl.answer
      PROVE  (Away => Away') /\ Writing' /\ Telling'
  <2>1. /\ Stream' = Stream /\ (Whole' <=> Whole) /\ Got' = Got /\ Size' = Size
        /\ (Over' <=> Over) /\ \A i : Part(i)' = Part(i)
    BY <1>1, OwnStream
  <2>2. Away => Away'
    BY <1>5 DEF Away
  <2>3. Writing'
    BY <1>1, <1>2, <1>5, <2>1 DEF Promising, Writing
  <2>4. Telling'
    BY <1>1, <1>5, <2>1 DEF Promising, Telling
  <2> QED
    BY <2>2, <2>3, <2>4
<1>6. CASE cl.buf = <<>> /\ browser.chunks # <<>>
  <2>1. /\ cl' = [cl EXCEPT !.buf = Head(browser.chunks)]
        /\ browser' = [browser EXCEPT !.chunks = Tail(@)]
    BY <1>6 DEF ReadLine
  <2>2. /\ cl'.pc = cl.pc /\ cl'.left = cl.left /\ cl'.answer = cl.answer
        /\ cl'.buf = Head(browser.chunks)
    BY <1>1, <2>1 DEF Clients
  <2>3. browser'.chunks = Tail(browser.chunks)
    BY <2>1 DEF TypeOK, PipeOK, Browsers
  <2>4. cl'.buf \in Seq(Verdicts) /\ browser'.chunks \in Seq(Seq(Verdicts))
    <3> DEFINE T == Seq(Verdicts)
    <3>1. browser.chunks \in Seq(T)
      BY <1>3
    <3> HIDE DEF T
    <3>2. Head(browser.chunks) \in T /\ Tail(browser.chunks) \in Seq(T)
      BY <1>6, <3>1, HeadTailProperties
    <3> QED
      BY <2>2, <2>3, <3>2 DEF T
  <2> QED
    BY <1>1, <1>5, <2>2, <2>4, OwnKeeps
<1>7. CASE cl.buf = <<>> /\ browser.chunks = <<>>
  <2>1. cl' = Failed(cl) /\ UNCHANGED transport
    BY <1>7 DEF ReadLine
  <2>2. Fair /\ cl'.buf = cl.buf /\ UNCHANGED browser
    BY <1>2, <1>4, <2>1, FailsFairly DEF transport
  <2> QED
    BY <1>1, <1>3, <2>2, FairTells, OwnKeeps
<1>8. CASE cl.buf # <<>>
  <2> DEFINE l == Head(cl.buf)
             rest(c) == [c EXCEPT !.buf = Tail(@)]
  <2>1. /\ UNCHANGED transport
        /\ cl' = IF l = Junk \/ (cl.code # 0 /\ l.code # cl.code) THEN rest(Failed(cl))
                 ELSE IF l.more THEN [rest(cl) EXCEPT !.code = l.code]
                 ELSE [rest(Replied(l.code)) EXCEPT !.paired = @ /\ l.to \in {cl.pc, "any"}]
    BY <1>8 DEF ReadLine
  <2>2. UNCHANGED browser
    BY <2>1 DEF transport
  <2>3. l # Junk => l.code \in Nat
    BY <1>1, <1>2, <1>8, LineIs
  <2>4. Tail(cl.buf) \in Seq(Verdicts)
    <3> HIDE DEF Verdicts
    <3> QED
      BY <1>3, <1>8, HeadTailProperties
  <2> HIDE DEF l
  <2>5. CASE l = Junk \/ (cl.code # 0 /\ l.code # cl.code)
    <3> DEFINE d == Failed(cl)
    <3>1. cl' = [d EXCEPT !.buf = Tail(@)] /\ d \in Clients /\ d.buf = cl.buf /\ Fails(cl, d)
      BY <1>4, <2>1, <2>5
    <3> HIDE DEF d
    <3>2. cl'.pc = d.pc /\ cl'.answer = d.answer /\ cl'.buf = Tail(cl.buf)
      BY <3>1, RestOf, RestSays
    <3>3. Fair
      <4>1. Fails(cl, cl')
        BY <3>1, <3>2 DEF Fails
      <4> QED
        BY <1>2, <4>1, FailsFairly
    <3> QED
      BY <1>1, <1>3, <2>2, <2>4, <3>2, <3>3, FairTells, OwnKeeps
  <2>6. CASE l # Junk /\ ~(cl.code # 0 /\ l.code # cl.code) /\ l.more
    <3> DEFINE c == cl
               n == l.code
               r == [c EXCEPT !.buf = Tail(@)]
    <3>1. cl' = [r EXCEPT !.code = n] /\ c \in Clients
      BY <1>1, <2>1, <2>6
    <3> HIDE DEF c, n
    <3>2. cl'.buf = Tail(c.buf) /\ cl'.pc = c.pc /\ cl'.left = c.left
      BY <3>1, RestOf
    <3>3. cl'.answer = c.answer
      BY <3>1, RestSays
    <3>4. (Away => Away') /\ Writing' /\ Telling'
      BY <1>5, <3>2, <3>3 DEF c
    <3> QED
      BY <1>1, <1>3, <2>2, <2>4, <3>2, <3>4, OwnKeeps DEF c
  <2>7. CASE l # Junk /\ ~(cl.code # 0 /\ l.code # cl.code) /\ ~l.more
    <3> DEFINE d == Replied(l.code)
               r == [d EXCEPT !.buf = Tail(@)]
               q == r.paired /\ l.to \in {cl.pc, "any"}
    <3>1. cl' = [r EXCEPT !.paired = q]
      BY <2>1, <2>7
    <3>2. d \in Clients /\ d.buf = cl.buf /\ Advances(d, l.code)
      BY <1>1, <2>3, <2>7, GoesOn, RepliedIs, RepliedSays, Untold DEF TypeOK, Keeps
    <3> HIDE DEF d, q
    <3>3. cl'.buf = Tail(d.buf) /\ cl'.pc = d.pc /\ cl'.left = d.left
      BY <3>1, <3>2, RestOf
    <3>4. cl'.answer = d.answer
      BY <3>1, <3>2, RestSays
    <3>5. Advances(cl', l.code)
      BY <3>2, <3>3, <3>4 DEF Advances, Fails
    <3>6. (Away => Away') /\ Writing' /\ Telling'
      <4>1. Head(cl.buf) # Junk /\ Advances(cl', Head(cl.buf).code)
        BY <2>7, <3>5 DEF l
      <4> QED
        BY <1>1, <1>8, <4>1, GoesKeeps
    <3> QED
      BY <1>1, <1>3, <2>2, <2>4, <3>2, <3>3, <3>6, OwnKeeps
  <2> QED
    BY <2>5, <2>6, <2>7
<1> QED
  BY <1>6, <1>7, <1>8

-----------------------------------------------------------------------------
(* The client's frames go on where what is on its way ends. *)

\* What the client writes, where it is.
LEMMA WhatIsWritten ==
  ASSUME cl \in Clients, Stepping, cl.left # <<>>
  PROVE  LET f == Head(cl.left) IN
         /\ f \in Frames /\ f # Gone /\ f = cl.left[1]
         /\ Tail(cl.left) \in Seq(Frames) /\ Len(Tail(cl.left)) = Len(cl.left) - 1
         /\ Len(cl.left) \in Nat \ {0}
         /\ \A i \in 1..Len(Tail(cl.left)) : Tail(cl.left)[i] = cl.left[i + 1]
         /\ \/ cl.pc \in Commands /\ ~IsLine(f)
            \/ cl.pc = "body" /\ IsLine(f) /\ f.line # Dot
            \/ cl.pc = "dot" /\ f = DotFrame /\ Tail(cl.left) = <<>>
<1> DEFINE f == Head(cl.left)
<1>1. cl.left \in Seq(Frames)
  BY DEF Clients
<1>2. /\ f \in Frames /\ f # Gone /\ f = cl.left[1]
      /\ Tail(cl.left) \in Seq(Frames) /\ Len(Tail(cl.left)) = Len(cl.left) - 1
      /\ Len(cl.left) \in Nat \ {0}
      /\ \A i \in 1..Len(Tail(cl.left)) : Tail(cl.left)[i] = cl.left[i + 1]
  BY <1>1, EmptySeq, HeadTailProperties, NamesAssumption, LenProperties
<1>3. \A x : Head(<<x>>) = x /\ Tail(<<x>>) = <<>>
  OBVIOUS
<1>4. CASE cl.pc \in Commands /\ cl.left = <<Line(cl.pc)>>
  <2>1. f = Line(cl.pc)
    BY <1>3, <1>4
  <2>2. ~IsLine(f)
    BY <2>1 DEF IsLine, Line
  <2> QED
    BY <1>2, <1>4, <2>2
<1>5. CASE cl.pc = "body" /\ cl.left \in Seq(BodyLine)
  <2>1. f \in BodyLine
    <3> HIDE DEF BodyLine
    <3> QED
      BY <1>5, HeadTailProperties
  <2> QED
    BY <1>2, <1>5, <2>1 DEF BodyLine, IsLine
<1>6. CASE cl.pc = "dot" /\ cl.left = <<DotFrame>>
  <2>1. f = DotFrame /\ Tail(cl.left) = <<>>
    BY <1>3, <1>6
  <2> QED
    BY <1>2, <1>6, <2>1
<1> QED
  BY <1>4, <1>5, <1>6 DEF Stepping

\* A frame that is written goes behind what is on its way, or is lost with all that follows.
LEMMA WritesBehind ==
  ASSUME TypeOK, Apart, Stepping, WriteFrame
  PROVE  \/ Stream' = Append(Stream, Head(cl.left)) /\ ~tcp.dead /\ (Direct \/ ~Shut)
         \/ Stream' = Stream /\ ~Whole'
<1> DEFINE f == Head(cl.left)
<1>1. /\ cl \in Clients /\ cl.left # <<>> /\ ~browser.ended /\ ~(Direct /\ tcp.dead) /\ SendFrame(f)
      /\ UNCHANGED <<cast, relay>> /\ PipeOK /\ tcp \in Sockets
  BY DEF WriteFrame, TypeOK, SendFrame, PipeOK
<1>2. /\ tcp.in \in Seq(Marked) /\ relay.queue \in Seq(Marked) /\ up \in Seq(Marked)
      /\ <<>> \in Seq(Marked) /\ relay.queue \o up \in Seq(Marked) /\ f \in Marked
  BY <1>1, StreamIs, ConcatProperties, WhatIsWritten DEF Marked
<1> HIDE DEF f
<1>3. CASE Direct
  <2>1. tcp'.in = Append(tcp.in, f) /\ tcp'.dead = tcp.dead /\ UNCHANGED up /\ ~tcp.dead
    BY <1>1, <1>3 DEF SendFrame, Sockets
  <2>2. up = <<>> /\ relay.queue = <<>>
    BY <1>3 DEF Apart
  <2>3. Coming = <<>> /\ Coming' = <<>>
    <3>1. <<>> \o <<>> = <<>>
      BY <1>2, Joins2
    <3> QED
      BY <1>1, <2>1, <2>2, <3>1 DEF Coming
  <2>4. tcp.in \o <<>> = tcp.in /\ Append(tcp.in, f) \o <<>> = Append(tcp.in, f)
    BY <1>2, Put, Joins2
  <2>5. Stream = tcp.in /\ Stream' = Append(tcp.in, f)
    BY <2>1, <2>3, <2>4 DEF Stream
  <2> QED
    BY <1>3, <2>1, <2>5 DEF f
<1>4. CASE ~Direct
  <2>1. up' = Append(up, f) /\ UNCHANGED tcp /\ ~Direct'
    BY <1>1, <1>4 DEF SendFrame, Direct
  <2>2. CASE tcp.dead \/ Shut
    <3>1. Coming' = Coming
      BY <1>1, <2>1, <2>2 DEF Coming, Shut
    <3>2. Stream' = Stream /\ ~Whole'
      BY <1>1, <2>1, <2>2, <3>1 DEF Stream, Whole, Shut
    <3> QED
      BY <3>2
  <2>3. CASE ~tcp.dead /\ ~Shut
    <3>1. Coming = relay.queue \o up /\ Coming' = relay.queue \o Append(up, f)
      BY <1>1, <2>1, <2>3 DEF Coming, Shut
    <3>2. relay.queue \o Append(up, f) = Append(relay.queue \o up, f)
      BY <1>2, PutBehind
    <3>3. tcp.in \o Append(relay.queue \o up, f) = Append(tcp.in \o (relay.queue \o up), f)
      BY <1>2, PutBehind
    <3>4. Stream = tcp.in \o (relay.queue \o up) /\ Stream' = tcp.in \o Append(relay.queue \o up, f)
      BY <2>1, <3>1, <3>2 DEF Stream
    <3>5. Stream' = Append(Stream, f)
      BY <3>3, <3>4
    <3> QED
      BY <2>3, <3>5 DEF f
  <2> QED
    BY <2>2, <2>3
<1> QED
  BY <1>3, <1>4

\* One more frame behind.
LEMMA Longer ==
  ASSUME NEW s \in Seq(Marked), NEW f \in Marked
  PROVE  LET t == Append(s, f) IN
         /\ Len(s) \in Nat /\ Len(t) = Len(s) + 1 /\ t[Len(s) + 1] = f
         /\ \A x \in 1..Len(s) : t[x] = s[x]
         /\ \A x \in 1..Len(t) : x \in 1..Len(s) \/ x = Len(s) + 1
         /\ \A x \in 1..Len(s) : \A y \in 1..x : y \in 1..Len(s)
         /\ \A x \in 1..Len(s) : Clear(t, x) <=> Clear(s, x)
         /\ Clear(t, Len(s) + 1) => Clear(s, Len(s))
         /\ f # Gone => (Clear(t, Len(s) + 1) <=> Clear(s, Len(s)))
<1> DEFINE t == Append(s, f)
<1>1. /\ Len(s) \in Nat /\ Len(t) = Len(s) + 1 /\ t[Len(s) + 1] = f
      /\ \A x \in 1..Len(s) : t[x] = s[x]
  BY AppendProperties, LenProperties
<1> HIDE DEF t
<1>2. /\ \A x \in 1..Len(t) : x \in 1..Len(s) \/ x = Len(s) + 1
      /\ \A x \in 1..Len(s) : \A y \in 1..x : y \in 1..Len(s)
      /\ \A x \in 1..(Len(s) + 1) : x \in 1..Len(s) \/ x = Len(s) + 1
      /\ \A x \in 1..Len(s) : x \in 1..(Len(s) + 1)
  BY <1>1
<1>3. \A x \in 1..Len(s) : Clear(t, x) <=> Clear(s, x)
  BY <1>1, <1>2 DEF Clear
<1>4. Clear(t, Len(s) + 1) => Clear(s, Len(s))
  BY <1>1, <1>2 DEF Clear
<1>5. f # Gone => (Clear(t, Len(s) + 1) <=> Clear(s, Len(s)))
  BY <1>1, <1>2, <1>4 DEF Clear
<1> QED
  BY <1>1, <1>2, <1>3, <1>4, <1>5 DEF t

\* What is told goes on with the next of it.
LEMMA TellsOn ==
  ASSUME NEW s \in Seq(Marked), NEW f \in Marked, NEW i, Told(s, i),
         IsLine(f) /\ f # Gone /\ Clear(s, Len(s)) =>
           /\ i + (Len(s) + 1) <= Size + 1 /\ f = Part(i + (Len(s) + 1))
           /\ \A y \in 1..Len(s) : IsLine(s[y])
  PROVE  Told(Append(s, f), i)
<1> DEFINE t == Append(s, f)
<1>1. /\ Len(s) \in Nat /\ Len(t) = Len(s) + 1 /\ t[Len(s) + 1] = f
      /\ \A x \in 1..Len(s) : t[x] = s[x]
      /\ \A x \in 1..Len(t) : x \in 1..Len(s) \/ x = Len(s) + 1
      /\ \A x \in 1..Len(s) : \A y \in 1..x : y \in 1..Len(s)
      /\ \A x \in 1..Len(s) : Clear(t, x) <=> Clear(s, x)
      /\ Clear(t, Len(s) + 1) => Clear(s, Len(s))
  BY Longer
<1> HIDE DEF t
<1> SUFFICES ASSUME NEW x \in 1..Len(t), Clear(t, x), IsLine(t[x])
             PROVE  /\ i + x <= Size + 1 /\ t[x] = Part(i + x)
                    /\ \A y \in 1..x : IsLine(t[y])
  BY DEF Told, t
<1>2. CASE x \in 1..Len(s)
  <2>1. Clear(s, x) /\ IsLine(s[x]) /\ t[x] = s[x] /\ \A y \in 1..x : t[y] = s[y]
    BY <1>1, <1>2
  <2>2. i + x <= Size + 1 /\ s[x] = Part(i + x) /\ \A y \in 1..x : IsLine(s[y])
    BY <1>2, <2>1 DEF Told
  <2> QED
    BY <2>1, <2>2
<1>3. CASE x = Len(s) + 1
  <2>1. t[x] = f /\ Clear(s, Len(s)) /\ IsLine(f) /\ f # Gone
    <3>1. Len(s) + 1 \in 1..(Len(s) + 1)
      BY <1>1
    <3> QED
      BY <1>1, <1>3, <3>1 DEF Clear
  <2>2. /\ i + x <= Size + 1 /\ f = Part(i + x)
        /\ \A y \in 1..Len(s) : IsLine(t[y])
    BY <1>1, <1>3, <2>1
  <2>3. \A y \in 1..x : y \in 1..Len(s) \/ y = Len(s) + 1
    BY <1>1, <1>3
  <2> QED
    BY <1>1, <2>1, <2>2, <2>3
<1> QED
  BY <1>1, <1>2, <1>3

\* Of a message that is being written, its lines are on their way, and no command.
LEMMA LinesUnderWay ==
  ASSUME TypeOK, Framed, cl.pc \in {"body", "dot", "answer"}
  PROVE  \A y \in 1..Len(Stream) : Stream[y] # Gone => IsLine(Stream[y])
<1> DEFINE S == Fit(cl) \cup {Gone}
<1>1. \A f \in S : f # Gone => IsLine(f)
  BY DEF Fit, IsLine
<1>2. tcp.in \in Seq(S) /\ relay.queue \in Seq(S) /\ up \in Seq(S)
  <2>1. tcp.in \in Seq(Fit(cl)) /\ Fit(cl) \subseteq S
    BY DEF Framed
  <2> QED
    BY <2>1, SeqMonotonic DEF Framed
<1> HIDE DEF S
<1>3. Stream \in Seq(S)
  <2>1. Coming \in Seq(S)
    BY <1>2, ConcatProperties DEF Coming
  <2> QED
    BY <1>2, <2>1, ConcatProperties DEF Stream
<1>4. \A y \in 1..Len(Stream) : Stream[y] \in S
  BY <1>3, ElementOfSeq
<1> QED
  BY <1>1, <1>4

\* What the server has read is a number of lines, and so is the message.
LEMMA Numbers ==
  ASSUME TypeOK
  PROVE  Size \in Nat /\ Got \in Nat /\ Len(Stream) \in Nat /\ Stream \in Seq(Marked)
<1>1. Play.data \in Seq(Lines)
  BY CastsAssumption DEF TypeOK, Play
<1>2. Size \in Nat
  BY <1>1, LenProperties DEF Size
<1>3. Got \in Nat
  BY <1>2, LenProperties DEF Got, TypeOK, Servers
<1> QED
  BY <1>2, <1>3, StreamIs, LenProperties DEF TypeOK

\* A line of the message that is written is the next of it.
LEMMA WritesOn ==
  ASSUME TypeOK, Pairing, Promising, WriteFrame, Head(cl.left) \in Frames, IsLine(Head(cl.left)),
         cl.pc \in {"body", "dot"}, sv.mode # "gone", ~tcp.dead, Direct \/ ~Shut,
         Clear(Stream, Len(Stream))
  PROVE  /\ sv.mode = "data" /\ Live /\ Whole
         /\ Got + (Len(Stream) + 1) <= Size + 1
         /\ Head(cl.left) = Part(Got + (Len(Stream) + 1))
         /\ \A y \in 1..Len(Stream) : IsLine(Stream[y])
<1> DEFINE f == Head(cl.left)
<1>1. /\ cl \in Clients /\ cl.sub = "write" /\ cl.left # <<>> /\ ~browser.ended /\ Stepping
  BY DEF WriteFrame, TypeOK, Pairing
<1>2. Live /\ Speaking
  BY <1>1 DEF Live, Pairing
<1>3. sv.mode = "data"
  BY <1>1, <1>2 DEF Speaking, Following, Listens
<1>4. Whole
  BY DEF Whole
<1>5. \A y \in 1..Len(Stream) : IsLine(Stream[y])
  <2>1. \A y \in 1..Len(Stream) : Stream[y] # Gone => IsLine(Stream[y])
    BY <1>2, LinesUnderWay DEF Speaking
  <2> QED
    BY <2>1 DEF Clear
<1>6. Size \in Nat /\ Got \in Nat /\ Len(Stream) \in Nat
  BY Numbers
<1>7. /\ Len(cl.left) \in Nat \ {0} /\ f = cl.left[1] /\ (cl.pc = "dot" => f = DotFrame)
  BY <1>1, WhatIsWritten DEF Commands
<1> HIDE DEF f
<1>8. CASE cl.pc = "body"
  <2>1. /\ Got + Len(Stream) + Len(cl.left) = Size
        /\ \A i \in 1..Len(cl.left) : cl.left[i] = Part(Got + Len(Stream) + i)
    BY <1>2, <1>3, <1>4, <1>8 DEF Promising, Writing
  <2>2. 1 \in 1..Len(cl.left) /\ Got + Len(Stream) + 1 = Got + (Len(Stream) + 1)
    BY <1>6, <1>7
  <2>3. f = Part(Got + (Len(Stream) + 1))
    BY <1>7, <2>1, <2>2
  <2>4. Got + (Len(Stream) + 1) <= Size + 1
    <3>1. \A a, b, c, d \in Nat : a + b + c = d => a + (b + 1) <= d + 1
      OBVIOUS
    <3>2. Len(cl.left) \in Nat
      BY <1>7
    <3> QED
      BY <1>6, <2>1, <3>1, <3>2
  <2> QED
    BY <1>2, <1>3, <1>4, <1>5, <2>3, <2>4 DEF f
<1>9. CASE cl.pc = "dot"
  <2>1. Got + Len(Stream) = Size
    BY <1>1, <1>2, <1>3, <1>4, <1>9 DEF Promising, Writing
  <2>2. Got + (Len(Stream) + 1) = Size + 1 /\ ~(Size + 1 <= Size)
    BY <1>6, <2>1
  <2>3. Part(Size + 1) = DotFrame
    BY <2>2 DEF Part
  <2>4. f = Part(Got + (Len(Stream) + 1))
    BY <1>7, <1>9, <2>2, <2>3
  <2>5. Got + (Len(Stream) + 1) <= Size + 1
    BY <1>6, <2>2
  <2> QED
    BY <1>2, <1>3, <1>4, <1>5, <2>4, <2>5 DEF f
<1> QED
  BY <1>8, <1>9

\* A frame is written.
LEMMA WritePromises ==
  ASSUME TypeOK, Apart, Pairing, Promising, WriteFrame
  PROVE  Promising'
<1> DEFINE f == Head(cl.left)
<1>1. /\ cl \in Clients /\ cl.sub = "write" /\ cl.left # <<>> /\ ~browser.ended /\ SendFrame(f)
      /\ UNCHANGED <<cast, sv, relay, down>> /\ Stepping /\ PipeOK
  BY DEF WriteFrame, TypeOK, SendFrame, Pairing
<1>2. /\ cl'.pc = cl.pc /\ cl'.left = Tail(cl.left) /\ cl'.buf = cl.buf /\ cl'.answer = cl.answer
      /\ cl'.sub = cl.sub
  BY <1>1 DEF WriteFrame, Clients
<1>3. /\ f \in Frames /\ f # Gone /\ f = cl.left[1]
      /\ Tail(cl.left) \in Seq(Frames) /\ Len(Tail(cl.left)) = Len(cl.left) - 1
      /\ Len(cl.left) \in Nat \ {0}
      /\ \A i \in 1..Len(Tail(cl.left)) : Tail(cl.left)[i] = cl.left[i + 1]
      /\ \/ cl.pc \in Commands /\ ~IsLine(f)
         \/ cl.pc = "body" /\ IsLine(f) /\ f.line # Dot
         \/ cl.pc = "dot" /\ f = DotFrame /\ Tail(cl.left) = <<>>
  BY <1>1, WhatIsWritten
<1>4. browser'.chunks = browser.chunks /\ browser'.ended = browser.ended /\ tcp'.out = tcp.out
  BY <1>1 DEF SendFrame, PipeOK, Browsers, Sockets
<1>5. Live' => Live
  BY <1>1, <1>2, <1>4 DEF Live
<1>6. \/ Stream' = Append(Stream, f) /\ ~tcp.dead /\ (Direct \/ ~Shut)
      \/ Stream' = Stream /\ ~Whole'
  BY <1>1, WritesBehind
<1>7. /\ Play' = Play /\ Size' = Size /\ \A i : Part(i)' = Part(i)
      /\ \A s, i : Told(s, i)' = Told(s, i)
  BY <1>1, SamePlay
<1>8. Got' = Got /\ Ended1(Play.data)' = Ended1(Play.data)
  BY <1>1, <1>7 DEF Got, Ended1
<1>9. Size \in Nat /\ Got \in Nat /\ Len(Stream) \in Nat /\ Stream \in Seq(Marked) /\ f \in Marked
  BY <1>3, Numbers DEF Marked
<1>10. Reading /\ Writing /\ Taking /\ Telling
  BY DEF Promising
<1>11. IsLine(f) => cl.pc \in {"body", "dot"}
  BY <1>3
<1>12. (Away => Away') /\ (cl.pc = "dot" => ~Away /\ Away') /\ (Away => cl.pc \in Done)
  <2>1. cl.pc # "answer"
    BY <1>3 DEF Commands
  <2>2. Away <=> cl.pc \in Done
    BY <1>1, <2>1 DEF Away
  <2>3. Away' <=> cl.pc \in Done \/ (cl.pc = "dot" /\ Tail(cl.left) = <<>>)
    BY <1>2, <2>1 DEF Away
  <2>4. cl.pc = "dot" => Tail(cl.left) = <<>> /\ cl.pc \notin Done
    BY <1>3 DEF Commands, Done
  <2> QED
    BY <2>2, <2>3, <2>4
<1> HIDE DEF f
<1>13. sv.mode # "gone" => Told(Stream, Got)'
  <2> SUFFICES ASSUME sv.mode # "gone" PROVE Told(Stream', Got)
    BY <1>7, <1>8
  <2>1. Told(Stream, Got)
    BY <1>10 DEF Reading
  <2>2. CASE Stream' = Append(Stream, f) /\ ~tcp.dead /\ (Direct \/ ~Shut)
    <3>1. IsLine(f) /\ f # Gone /\ Clear(Stream, Len(Stream)) =>
            /\ Got + (Len(Stream) + 1) <= Size + 1 /\ f = Part(Got + (Len(Stream) + 1))
            /\ \A y \in 1..Len(Stream) : IsLine(Stream[y])
      BY <1>3, <1>11, <2>2, WritesOn DEF f
    <3>2. Told(Append(Stream, f), Got)
      BY <1>9, <2>1, <3>1, TellsOn
    <3> QED
      BY <2>2, <3>2
  <2>3. CASE Stream' = Stream
    BY <2>1, <2>3
  <2> QED
    BY <1>6, <2>2, <2>3
<1>14. cl.pc # "dot" => (Over => Over')
  <2> SUFFICES ASSUME cl.pc # "dot", NoDot(Stream), Stream' = Append(Stream, f) PROVE NoDot(Stream')
    BY <1>1, <1>6 DEF Over
  <2>1. IsLine(f) => f.line # Dot
    BY <1>3
  <2> DEFINE t == Append(Stream, f)
  <2>2. /\ t[Len(Stream) + 1] = f /\ \A x \in 1..Len(Stream) : t[x] = Stream[x]
        /\ \A x \in 1..Len(t) : x \in 1..Len(Stream) \/ x = Len(Stream) + 1
        /\ \A x \in 1..Len(Stream) : Clear(t, x) <=> Clear(Stream, x)
    BY <1>9, Longer
  <2> HIDE DEF t
  <2>3. NoDot(t)
    BY <2>1, <2>2 DEF NoDot
  <2> QED
    BY <2>3 DEF t
<1>15. Reading'
  BY <1>1, <1>7, <1>8, <1>10, <1>13 DEF Reading
<1>16. Taking'
  BY <1>1, <1>8, <1>10, <1>12, <1>14 DEF Taking
<1>17. Telling'
  <2>1. cl.answer # "none" => cl.pc # "dot"
    BY <1>10 DEF Telling, Done
  <2> QED
    BY <1>1, <1>2, <1>10, <1>14, <2>1 DEF Telling
<1>18. Judged'
  <2>1. Verdicts \subseteq Verdicts'
    BY <1>1, <1>12, <1>14, VerdictsStay
  <2>2. Data' = Data
    BY <1>1, DataStays DEF PipeOK
  <2>3. Data' \in Seq(Seq(Verdicts)) /\ tcp'.out \in Seq(Verdicts)
    BY <1>4, <2>2 DEF Promising, Judged
  <2>4. cl'.buf \in Seq(Verdicts) /\ browser'.chunks \in Seq(Seq(Verdicts))
    BY <1>2, <1>4 DEF Promising, Judged
  <2> QED
    BY <2>1, <2>3, <2>4, StaysJudged
<1>19. ASSUME sv.mode = "data", Live', cl.pc = "body", Whole'
       PROVE  /\ Got + Len(Stream') + Len(cl'.left) = Size
              /\ \A i \in 1..Len(cl'.left) : cl'.left[i] = Part(Got + Len(Stream') + i)
  <2>1. Stream' = Append(Stream, f) /\ ~tcp.dead /\ (Direct \/ ~Shut)
    BY <1>6, <1>19
  <2> DEFINE t == Append(Stream, f)
  <2>2. Len(t) = Len(Stream) + 1 /\ (Clear(t, Len(Stream) + 1) => Clear(Stream, Len(Stream)))
    BY <1>9, Longer
  <2> HIDE DEF t
  <2>3. Clear(Stream', Len(Stream'))
    BY <1>19 DEF Whole
  <2>4. Len(Stream') = Len(Stream) + 1 /\ Clear(Stream, Len(Stream))
    BY <2>1, <2>2, <2>3 DEF t
  <2>5. Whole
    BY <2>1, <2>4 DEF Whole
  <2>6. /\ Got + Len(Stream) + Len(cl.left) = Size
        /\ \A i \in 1..Len(cl.left) : cl.left[i] = Part(Got + Len(Stream) + i)
    BY <1>5, <1>10, <1>19, <2>5 DEF Writing
  <2>7. \A n \in Nat : \A i \in 1..(n - 1) : i \in Nat /\ i + 1 \in 1..n
    OBVIOUS
  <2>8. \A a, b, i \in Nat : a + b + (i + 1) = a + (b + 1) + i
    OBVIOUS
  <2>9. \A i \in 1..Len(Tail(cl.left)) : Tail(cl.left)[i] = Part(Got + (Len(Stream) + 1) + i)
    <3> SUFFICES ASSUME NEW i \in 1..Len(Tail(cl.left))
                 PROVE  Tail(cl.left)[i] = Part(Got + (Len(Stream) + 1) + i)
      OBVIOUS
    <3>1. Tail(cl.left)[i] = cl.left[i + 1]
      BY <1>3
    <3>2. i \in Nat /\ i + 1 \in 1..Len(cl.left)
      <4>1. i \in 1..(Len(cl.left) - 1) /\ Len(cl.left) \in Nat
        BY <1>3
      <4> QED
        BY <2>7, <4>1
    <3>3. cl.left[i + 1] = Part(Got + Len(Stream) + (i + 1))
      BY <2>6, <3>2
    <3>4. Got + Len(Stream) + (i + 1) = Got + (Len(Stream) + 1) + i
      BY <1>9, <2>8, <3>2
    <3> QED
      BY <3>1, <3>3, <3>4
  <2>10. Got + (Len(Stream) + 1) + Len(Tail(cl.left)) = Size
    <3>1. \A a, b, c \in Nat : a + (b + 1) + c = a + b + (1 + c)
      OBVIOUS
    <3>2. Len(Tail(cl.left)) \in Nat /\ Len(cl.left) \in Nat
      BY <1>3, LenProperties
    <3>3. Len(Tail(cl.left)) = Len(cl.left) - 1 /\ Got + Len(Stream) + Len(cl.left) = Size
      BY <1>3, <2>6
    <3>4. Size \in Nat /\ Got \in Nat /\ Len(Stream) \in Nat
      BY <1>9
    <3>5. 1 + Len(Tail(cl.left)) = Len(cl.left)
      BY <3>2, <3>3
    <3>6. Got + (Len(Stream) + 1) + Len(Tail(cl.left)) = Got + Len(Stream) + (1 + Len(Tail(cl.left)))
      BY <3>1, <3>2, <3>4
    <3> QED
      BY <3>3, <3>5, <3>6
  <2> QED
    BY <1>2, <2>4, <2>9, <2>10
<1>20. Writing'
  <2>1. sv.mode = "data" /\ Live' => cl.pc \notin Before /\ cl.pc # "data"
    BY <1>1, <1>5, <1>10 DEF Writing
  <2>2. cl.pc = "dot" => cl'.left = <<>>
    BY <1>2, <1>3 DEF Commands
  <2> QED
    BY <1>1, <1>2, <1>7, <1>8, <1>19, <2>1, <2>2 DEF Writing
<1> QED
  BY <1>15, <1>16, <1>17, <1>18, <1>20 DEF Promising

\* The end of the connection.
LEMMA ClosePromises ==
  ASSUME TypeOK, Promising, Close, PipeOK'
  PROVE  Promising'
<1>1. /\ cl \in Clients /\ cl.pc = "bye" /\ EndTransport /\ UNCHANGED <<cast, sv>> /\ PipeOK
  BY DEF Close, TypeOK
<1>2. cl'.pc = "closed" /\ cl'.answer = cl.answer /\ cl'.buf = cl.buf
  BY <1>1 DEF Close, Clients
<1>3. (Away' <=> Away) /\ ~Live' /\ cl'.pc \in Done
  BY <1>1, <1>2 DEF Away, Live, Done
<1>4. Flows
  BY <1>1, EndFlows
<1>5. Reading' /\ Writing' /\ Taking' /\ Telling' /\ Verdicts \subseteq Verdicts'
  BY <1>1, <1>2, <1>3, <1>4, FlowsKeep
<1>6. /\ browser'.chunks = browser.chunks /\ tcp'.out = tcp.out /\ UNCHANGED down
  BY <1>1 DEF EndTransport, transport, Ended, PipeOK, Browsers, Sockets
<1>7. Data' = Data
  BY <1>1, <1>6, DataStays DEF PipeOK
<1>8. Judged'
  <2>1. /\ cl'.buf \in Seq(Verdicts) /\ browser'.chunks \in Seq(Seq(Verdicts))
        /\ Data' \in Seq(Seq(Verdicts)) /\ tcp'.out \in Seq(Verdicts)
    BY <1>2, <1>6, <1>7 DEF Promising, Judged
  <2> QED
    BY <1>5, <2>1, StaysJudged
<1> QED
  BY <1>5, <1>8 DEF Promising

\* What is behind the first frame.
LEMMA Behind ==
  ASSUME NEW s \in Seq(Marked), s # <<>>, s[1] # Gone
  PROVE  LET t == Tail(s) IN
         /\ t \in Seq(Marked) /\ Len(s) \in Nat /\ Len(t) \in Nat /\ Len(t) = Len(s) - 1
         /\ 1 \in 1..Len(s) /\ Clear(s, 1) /\ 1 \in 1..1
         /\ \A x \in 1..Len(t) :
              /\ x \in Nat /\ x + 1 \in 1..Len(s) /\ t[x] = s[x + 1] /\ 1 \in 1..(x + 1)
              /\ Clear(t, x) <=> Clear(s, x + 1)
              /\ \A y \in 1..x : y + 1 \in 1..(x + 1) /\ t[y] = s[y + 1]
         /\ Clear(t, Len(t)) <=> Clear(s, Len(s))
<1> DEFINE t == Tail(s)
<1>1. /\ t \in Seq(Marked) /\ Len(s) \in Nat /\ Len(s) >= 1 /\ Len(t) = Len(s) - 1
      /\ \A i \in 1..Len(t) : t[i] = s[i + 1]
  BY EmptySeq, HeadTailProperties
<1> HIDE DEF t
<1>2. Len(t) \in Nat /\ 1 \in 1..Len(s) /\ \A y \in 1..1 : y = 1
  BY <1>1
<1>3. \A x \in 1..Len(t) : x \in Nat /\ x + 1 \in 1..Len(s) /\ 1 \in 1..(x + 1)
  BY <1>1
<1>4. \A x \in 1..Len(t) : \A y \in 1..x : y + 1 \in 1..(x + 1) /\ y \in 1..Len(t) /\ t[y] = s[y + 1]
  BY <1>1
<1>5. \A n \in Nat : \A y \in 1..(n + 1) : y = 1 \/ (y - 1 \in 1..n /\ (y - 1) + 1 = y)
  OBVIOUS
<1>6. ASSUME NEW n \in Nat, \A y \in 1..n : y + 1 \in 1..(n + 1) /\ t[y] = s[y + 1]
      PROVE  Clear(t, n) <=> Clear(s, n + 1)
  <2>1. Clear(s, n + 1) => Clear(t, n)
    BY <1>6 DEF Clear
  <2>2. ASSUME Clear(t, n), NEW y \in 1..(n + 1)
        PROVE  s[y] # Gone
    <3>1. CASE y = 1
      BY <3>1
    <3>2. CASE y - 1 \in 1..n /\ (y - 1) + 1 = y
      <4>1. t[y - 1] = s[(y - 1) + 1]
        BY <1>6, <3>2
      <4>2. t[y - 1] # Gone
        BY <2>2, <3>2 DEF Clear
      <4> QED
        BY <3>2, <4>1, <4>2
    <3> QED
      BY <1>5, <3>1, <3>2
  <2> QED
    BY <2>1, <2>2 DEF Clear
<1>7. \A x \in 1..Len(t) : Clear(t, x) <=> Clear(s, x + 1)
  BY <1>3, <1>4, <1>6
<1>8. Clear(t, Len(t)) <=> Clear(s, Len(s))
  <2>1. \A y \in 1..Len(t) : y + 1 \in 1..(Len(t) + 1)
    BY <1>1
  <2>2. Len(t) + 1 = Len(s)
    BY <1>1
  <2>3. Clear(t, Len(t)) <=> Clear(s, Len(t) + 1)
    BY <1>1, <1>2, <1>6, <2>1
  <2> QED
    BY <2>2, <2>3
<1>9. Clear(s, 1) /\ 1 \in 1..1
  BY <1>2 DEF Clear
<1> QED
  BY <1>1, <1>2, <1>3, <1>4, <1>7, <1>8, <1>9 DEF t

\* The first line told is the next, and the rest goes on behind it.
LEMMA TellsRest ==
  ASSUME NEW s \in Seq(Marked), s # <<>>, s[1] # Gone, NEW i \in Nat, Told(s, i), IsLine(s[1])
  PROVE  i + 1 <= Size + 1 /\ s[1] = Part(i + 1) /\ Told(Tail(s), i + 1)
<1> DEFINE t == Tail(s)
<1>1. /\ 1 \in 1..Len(s) /\ Clear(s, 1)
      /\ \A x \in 1..Len(t) :
           /\ x \in Nat /\ x + 1 \in 1..Len(s) /\ t[x] = s[x + 1]
           /\ Clear(t, x) <=> Clear(s, x + 1)
           /\ \A y \in 1..x : y + 1 \in 1..(x + 1) /\ t[y] = s[y + 1]
  BY Behind
<1> HIDE DEF t
<1>2. i + 1 <= Size + 1 /\ s[1] = Part(i + 1)
  BY <1>1 DEF Told
<1>3. Told(t, i + 1)
  <2> SUFFICES ASSUME NEW x \in 1..Len(t), Clear(t, x), IsLine(t[x])
               PROVE  /\ (i + 1) + x <= Size + 1 /\ t[x] = Part((i + 1) + x)
                      /\ \A y \in 1..x : IsLine(t[y])
    BY DEF Told
  <2>1. /\ x + 1 \in 1..Len(s) /\ t[x] = s[x + 1] /\ Clear(s, x + 1) /\ x \in Nat
        /\ \A y \in 1..x : y + 1 \in 1..(x + 1) /\ t[y] = s[y + 1]
    BY <1>1
  <2>2. /\ i + (x + 1) <= Size + 1 /\ s[x + 1] = Part(i + (x + 1))
        /\ \A y \in 1..(x + 1) : IsLine(s[y])
    BY <2>1 DEF Told
  <2>3. i + (x + 1) = (i + 1) + x
    BY <2>1
  <2> QED
    BY <2>1, <2>2, <2>3
<1> QED
  BY <1>2, <1>3 DEF t

\* Behind a command, or once all of the message was read, there is nothing of a message.
LEMMA NoLines ==
  ASSUME NEW s \in Seq(Marked), s # <<>>, s[1] # Gone, NEW i, Told(s, i), Size \in Nat,
         ~IsLine(s[1]) \/ i = Size + 1
  PROVE  ~IsLine(s[1]) /\ (\A j : Told(Tail(s), j)) /\ NoDot(Tail(s))
<1> DEFINE t == Tail(s)
<1>1. /\ 1 \in 1..Len(s) /\ Clear(s, 1)
      /\ \A x \in 1..Len(t) :
           /\ x \in Nat /\ x + 1 \in 1..Len(s) /\ t[x] = s[x + 1] /\ 1 \in 1..(x + 1)
           /\ Clear(t, x) <=> Clear(s, x + 1)
  BY Behind
<1> HIDE DEF t
<1>2. ~IsLine(s[1])
  <2>1. IsLine(s[1]) => i + 1 <= Size + 1
    BY <1>1 DEF Told
  <2>2. i = Size + 1 => ~(i + 1 <= Size + 1)
    OBVIOUS
  <2> QED
    BY <2>1, <2>2
<1>3. ASSUME NEW x \in 1..Len(t), Clear(t, x), IsLine(t[x])
      PROVE  FALSE
  <2>1. \A y \in 1..(x + 1) : IsLine(s[y])
    BY <1>1, <1>3 DEF Told
  <2> QED
    BY <1>1, <1>2, <2>1
<1>4. (\A j : Told(t, j)) /\ NoDot(t)
  BY <1>3 DEF Told, NoDot
<1> QED
  BY <1>2, <1>4 DEF t

\* Where no end of a message comes, none does later.
LEMMA NoneBehind ==
  ASSUME NEW s \in Seq(Marked), s # <<>>, s[1] # Gone, NoDot(s)
  PROVE  NoDot(Tail(s)) /\ (IsLine(s[1]) => s[1].line # Dot)
<1> DEFINE t == Tail(s)
<1>1. /\ 1 \in 1..Len(s) /\ Clear(s, 1)
      /\ \A x \in 1..Len(t) :
           /\ x + 1 \in 1..Len(s) /\ t[x] = s[x + 1]
           /\ Clear(t, x) <=> Clear(s, x + 1)
  BY Behind
<1> HIDE DEF t
<1>2. NoDot(t)
  BY <1>1 DEF NoDot
<1> QED
  BY <1>1, <1>2 DEF NoDot, t

\* The server takes the first of what is on its way.
LEMMA ServerTakes ==
  ASSUME TypeOK, tcp.in # <<>>, UNCHANGED cast, UNCHANGED up, UNCHANGED relay,
         tcp'.in = Tail(tcp.in), tcp'.dead = tcp.dead
  PROVE  /\ Stream \in Seq(Marked) /\ Stream # <<>> /\ Stream[1] = Head(tcp.in)
         /\ Stream[1] \in Frames /\ Stream[1] # Gone
         /\ Stream' = Tail(Stream) /\ (Whole' <=> Whole)
<1>1. /\ tcp.in \in Seq(Marked) /\ Coming \in Seq(Marked) /\ Stream \in Seq(Marked)
  BY StreamIs, ConcatProperties DEF TypeOK, Coming
<1>2. Coming' = Coming /\ (Shut' <=> Shut) /\ (Direct' <=> Direct)
  BY DEF Coming, Shut, Direct
<1>3. /\ Head(tcp.in \o Coming) = Head(tcp.in) /\ Tail(tcp.in \o Coming) = Tail(tcp.in) \o Coming
      /\ tcp.in \o Coming # <<>>
  BY <1>1, Along
<1>4. Stream # <<>> /\ Head(Stream) = Head(tcp.in) /\ Stream' = Tail(Stream)
  BY <1>2, <1>3 DEF Stream
<1>5. Stream[1] = Head(Stream)
  BY <1>1, <1>4, HeadTailProperties
<1>6. Head(tcp.in) \in Frames
  BY HeadTailProperties DEF TypeOK, PipeOK, Sockets
<1>7. Head(tcp.in) # Gone
  BY <1>6, NamesAssumption
<1>8. Clear(Stream', Len(Stream')) <=> Clear(Stream, Len(Stream))
  BY <1>1, <1>4, <1>5, <1>7, Behind
<1>9. Whole' <=> Whole
  BY <1>2, <1>8 DEF Whole
<1> QED
  BY <1>1, <1>4, <1>5, <1>6, <1>7, <1>9

\* The server's word: what it adds must be true.
LEMMA ServerKeeps ==
  ASSUME TypeOK, Promising, UNCHANGED <<cast, browser, up, down, relay, cl>>,
         Reading', Writing', Over => Over', sv'.taken = sv.taken,
         NEW syms \in Seq(Verdicts'), tcp'.out = tcp.out \o syms
  PROVE  Promising'
<1>1. (Away' <=> Away) /\ Play' = Play /\ Ended1(Play.data)' = Ended1(Play.data)
  BY SamePlay DEF Away, Ended1
<1>2. Verdicts \subseteq Verdicts'
  BY <1>1, VerdictsStay
<1>3. Taking' /\ Telling'
  BY <1>1 DEF Promising, Taking, Telling
<1>4. Judged'
  <2>1. Data' = Data
    BY DataStays DEF TypeOK, PipeOK
  <2>2. /\ cl'.buf \in Seq(Verdicts) /\ browser'.chunks \in Seq(Seq(Verdicts))
        /\ Data' \in Seq(Seq(Verdicts)) /\ tcp.out \in Seq(Verdicts)
    BY <2>1 DEF Promising, Judged
  <2>3. \A S, T : S \subseteq T => Seq(S) \subseteq Seq(T)
    OBVIOUS
  <2> HIDE DEF Verdicts
  <2>4. tcp'.out \in Seq(Verdicts')
    <3>1. tcp.out \in Seq(Verdicts')
      BY <1>2, <2>2, <2>3
    <3> QED
      BY <3>1, ConcatProperties
  <2>5. Seq(Verdicts) \subseteq Seq(Verdicts')
    BY <1>2, <2>3
  <2>6. Seq(Seq(Verdicts)) \subseteq Seq(Seq(Verdicts'))
    BY <2>3, <2>5
  <2> QED
    BY <2>2, <2>4, <2>5, <2>6 DEF Judged
<1> QED
  BY <1>3, <1>4 DEF Promising

\* What answers another line than the end of the message is no verdict on it.
LEMMA Harmless ==
  ASSUME NEW to, to # "answer"
  PROVE  \A m : Seq(Heard(to, m)) \subseteq Seq(Verdicts')
<1>1. \A S, T : S \subseteq T => Seq(S) \subseteq Seq(T)
  OBVIOUS
<1>2. \A m : Heard(to, m) \subseteq Verdicts'
  BY DEF Heard, Verdicts
<1> QED
  BY <1>1, <1>2

\* A server that has gone reads nothing and takes nothing.
LEMMA GoneKeeps ==
  ASSUME Promising, sv'.mode = "gone"
  PROVE  Reading' /\ Writing' /\ Over'
BY DEF Reading, Writing, Over

\* The server's greeting.
LEMMA GreetsPromises ==
  ASSUME TypeOK, Promising, ServerGreets
  PROVE  Promising'
<1>1. UNCHANGED <<cast, cl, browser, up, down, relay>> /\ sv.mode = "start"
  BY DEF ServerGreets
<1>2. /\ tcp'.in = tcp.in /\ tcp'.dead = tcp.dead /\ sv'.mode \in {"cmd", "gone"}
      /\ sv'.lines = sv.lines /\ sv'.taken = sv.taken
      /\ \/ tcp'.out = Reply(220, "greeting") \/ tcp'.out = Reply(554, "greeting")
         \/ tcp'.out = <<Junk>> \/ tcp'.out = <<>>
  <2>1. sv'.mode \in {"cmd", "gone"} /\ sv'.lines = sv.lines /\ sv'.taken = sv.taken
    BY DEF ServerGreets, TypeOK, Servers
  <2>2. \/ tcp' = [tcp EXCEPT !.out = Reply(220, "greeting")]
        \/ \E syms \in {Reply(554, "greeting"), <<Junk>>, <<>>} : tcp' = [tcp EXCEPT !.out = syms, !.over = TRUE]
    BY DEF ServerGreets
  <2>3. \A x : /\ [tcp EXCEPT !.out = x].in = tcp.in /\ [tcp EXCEPT !.out = x].out = x
               /\ [tcp EXCEPT !.out = x].dead = tcp.dead
    BY DEF TypeOK, PipeOK, Sockets
  <2>4. \A x : /\ [tcp EXCEPT !.out = x, !.over = TRUE].in = tcp.in
               /\ [tcp EXCEPT !.out = x, !.over = TRUE].out = x
               /\ [tcp EXCEPT !.out = x, !.over = TRUE].dead = tcp.dead
    BY DEF TypeOK, PipeOK, Sockets
  <2>5. CASE tcp' = [tcp EXCEPT !.out = Reply(220, "greeting")]
    BY <2>1, <2>3, <2>5
  <2>6. CASE \E syms \in {Reply(554, "greeting"), <<Junk>>, <<>>} : tcp' = [tcp EXCEPT !.out = syms, !.over = TRUE]
    <3>1. PICK syms : /\ syms = Reply(554, "greeting") \/ syms = <<Junk>> \/ syms = <<>>
                      /\ tcp' = [tcp EXCEPT !.out = syms, !.over = TRUE]
      BY <2>6
    <3>2. tcp'.in = tcp.in /\ tcp'.out = syms /\ tcp'.dead = tcp.dead
      BY <2>4, <3>1
    <3> QED
      BY <2>1, <3>1, <3>2
  <2> QED
    BY <2>2, <2>5, <2>6
<1>3. Stream' = Stream
  BY <1>1, <1>2 DEF Stream, Coming, Shut
<1>4. /\ Size' = Size /\ Got' = Got /\ \A s, i : Told(s, i)' = Told(s, i)
  <2>1. Size' = Size /\ \A s, i : Told(s, i)' = Told(s, i)
    BY <1>1, SamePlay
  <2> QED
    BY <1>1, <1>2, <2>1 DEF Got
<1>5. Over => Over'
  BY <1>1, <1>2, <1>3 DEF Over
<1>6. Reading'
  BY <1>1, <1>2, <1>3, <1>4 DEF Promising, Reading
<1>7. Writing'
  BY <1>2 DEF Writing
<1>8. tcp'.out \in Seq(Verdicts')
  <2>1. \A n \in Nat : Reply(n, "greeting") \in Seq(Heard("greeting", "cmd"))
    <3>1. "greeting" \in Pcs
      BY DEF Pcs
    <3>2. "cmd" \in {"start", "cmd", "data", "gone"}
      OBVIOUS
    <3> QED
      BY <3>1, <3>2, Sayings DEF Said
  <2>2. Reply(220, "greeting") \in Seq(Verdicts') /\ Reply(554, "greeting") \in Seq(Verdicts')
    <3>1. 220 \in Nat /\ 554 \in Nat
      OBVIOUS
    <3>2. Seq(Heard("greeting", "cmd")) \subseteq Seq(Verdicts')
      BY Harmless
    <3> QED
      BY <2>1, <3>1, <3>2
  <2>3. <<Junk>> \in Seq(Verdicts')
    <3>1. Junk \in Verdicts'
      BY DEF Verdicts, Syms
    <3> HIDE DEF Verdicts
    <3> QED
      BY <3>1
  <2>4. <<>> \in Seq(Verdicts')
    OBVIOUS
  <2> QED
    BY <1>2, <2>2, <2>3, <2>4
<1>9. Taking' /\ Telling' /\ Verdicts \subseteq Verdicts'
  <2>1. (Away' <=> Away) /\ Ended1(Play.data)' = Ended1(Play.data)
    BY <1>1, SamePlay DEF Away, Ended1
  <2>2. Verdicts \subseteq Verdicts'
    BY <1>2, <1>5, <2>1, VerdictsStay
  <2> QED
    BY <1>1, <1>2, <1>5, <2>1, <2>2 DEF Promising, Taking, Telling
<1>10. Judged'
  <2>1. Data' = Data
    BY <1>1, DataStays DEF TypeOK, PipeOK
  <2>2. /\ cl'.buf \in Seq(Verdicts) /\ browser'.chunks \in Seq(Seq(Verdicts))
        /\ Data' \in Seq(Seq(Verdicts))
    BY <1>1, <2>1 DEF Promising, Judged
  <2>3. \A S, T : S \subseteq T => Seq(S) \subseteq Seq(T)
    OBVIOUS
  <2>4. Seq(Verdicts) \subseteq Seq(Verdicts')
    BY <1>9, <2>3
  <2>5. Seq(Seq(Verdicts)) \subseteq Seq(Seq(Verdicts'))
    BY <2>3, <2>4
  <2> HIDE DEF Verdicts
  <2> QED
    BY <1>8, <2>2, <2>4, <2>5 DEF Judged
<1> QED
  BY <1>6, <1>7, <1>9, <1>10 DEF Promising

\* All of what is on its way are marks: then it is nothing, if nothing was lost.
LEMMA OnlyMarks ==
  ASSUME TypeOK', OnlyGone(tcp'.in), OnlyGone(relay'.queue), OnlyGone(up'), Whole'
  PROVE  Stream' = <<>>
<1>1. tcp'.in \in Seq(Marked) /\ relay'.queue \in Seq(Marked) /\ up' \in Seq(Marked)
  <2>1. tcp'.in \in Seq(Frames) /\ Frames \subseteq Marked
    BY DEF TypeOK, PipeOK, Sockets, Marked
  <2>2. tcp'.in \in Seq(Marked)
    BY <2>1, SeqMonotonic
  <2> QED
    BY <2>2 DEF TypeOK, PipeOK, Relays
<1>2. \A s : s \in Seq(Marked) /\ OnlyGone(s) => s \in Seq({Gone})
  <2> SUFFICES ASSUME NEW s \in Seq(Marked), OnlyGone(s) PROVE s \in Seq({Gone})
    OBVIOUS
  <2>1. Len(s) \in Nat /\ DOMAIN s = 1..Len(s) /\ s \in [1..Len(s) -> Marked]
    BY LenProperties
  <2>2. s \in [1..Len(s) -> {Gone}]
    BY <2>1 DEF OnlyGone
  <2> QED
    BY <2>1, <2>2
<1>3. tcp'.in \in Seq({Gone}) /\ relay'.queue \in Seq({Gone}) /\ up' \in Seq({Gone}) /\ <<>> \in Seq({Gone})
  BY <1>1, <1>2
<1>4. Coming' \in Seq({Gone})
  BY <1>3, ConcatProperties DEF Coming
<1>5. Stream' \in Seq({Gone})
  BY <1>3, <1>4, ConcatProperties DEF Stream
<1>6. Clear(Stream', Len(Stream'))
  BY DEF Whole
<1>7. Len(Stream') \in Nat /\ (Stream' # <<>> => Len(Stream') > 0)
  BY <1>5, EmptySeq, LenProperties
<1> SUFFICES ASSUME Stream' # <<>> PROVE FALSE
  OBVIOUS
<1>8. 1 \in 1..Len(Stream')
  BY <1>7
<1>9. Stream'[1] = Gone
  BY <1>5, <1>8, ElementOfSeq
<1> QED
  BY <1>6, <1>8, <1>9 DEF Clear

\* Its answer to a line that is not of the message.
LEMMA AnswersPromises ==
  ASSUME TypeOK, TypeOK', Pairing, Promising, ServerAnswers
  PROVE  Promising'
<1> DEFINE f == Head(tcp.in)
           cmd == IF "cmd" \in DOMAIN f THEN f.cmd ELSE "line"
<1>1. tcp.in # <<>> /\ sv.mode = "cmd" /\ UNCHANGED <<cast, cl, browser, up, down, relay>>
  BY DEF ServerAnswers
<1>2. /\ tcp'.in = Tail(tcp.in) /\ tcp'.dead = tcp.dead /\ sv'.taken = sv.taken
      /\ sv'.lines = sv.lines
  <2>1. ASSUME NEW syms, NEW m, NEW over, Answers(syms, m, over)
        PROVE  /\ tcp'.in = Tail(tcp.in) /\ tcp'.dead = tcp.dead /\ sv'.taken = sv.taken
               /\ sv'.lines = sv.lines
    BY <2>1 DEF Answers, TypeOK, PipeOK, Sockets, Servers
  <2>2. \/ Answers(ReplyTo(cmd), After(cmd), cmd \in {"quit", "bye"})
        \/ \E syms \in Odd(cmd), over \in BOOLEAN : Answers(syms, IF over THEN "gone" ELSE "cmd", over)
    BY DEF ServerAnswers
  <2> HIDE DEF f, cmd
  <2> QED
    BY <2>1, <2>2
<1>3. /\ Stream \in Seq(Marked) /\ Stream # <<>> /\ Stream[1] = f
      /\ f \in Frames /\ f # Gone /\ Stream' = Tail(Stream) /\ (Whole' <=> Whole)
  BY <1>1, <1>2, ServerTakes
<1>4. Told(Stream, Size + 1) /\ Size \in Nat /\ sv.lines = <<>>
  BY <1>1, Numbers DEF Promising, Reading, Got
<1>5. ~IsLine(f) /\ (\A j : Told(Tail(Stream), j)) /\ NoDot(Tail(Stream))
  BY <1>3, <1>4, NoLines
<1>6. "cmd" \in DOMAIN f /\ cmd \in Commands /\ cmd = f.cmd
  BY <1>3, <1>5 DEF Frames, IsLine
<1>7. \/ Answers(ReplyTo(cmd), After(cmd), cmd \in {"quit", "bye"})
      \/ \E syms \in Odd(cmd), over \in BOOLEAN : Answers(syms, IF over THEN "gone" ELSE "cmd", over)
  BY DEF ServerAnswers
<1>8. Over'
  BY <1>3, <1>5 DEF Over
<1>9. \A s, i : Told(s, i)' = Told(s, i)
  BY <1>1, SamePlay
<1> HIDE DEF f, cmd
<1>10. ASSUME NEW syms, NEW m \in {"cmd", "data", "gone"}, NEW over, Answers(syms, m, over),
              Said(cmd, m, syms), m = "data" => cmd = "data"
       PROVE  Promising'
  <2>1. sv'.mode = m /\ tcp'.out = tcp.out \o syms
    BY <1>10 DEF Answers, TypeOK, PipeOK, Sockets, Servers
  <2>2. syms \in Seq(Verdicts')
    <3>1. cmd # "answer"
      BY <1>6 DEF Commands
    <3> QED
      BY <1>10, <3>1, Harmless DEF Said
  <2>3. Reading'
    <3>2. Told(Stream, Got)'
      BY <1>3, <1>5, <1>9
    <3>3. Len(<<>>) = 0 /\ Size' \in Nat /\ 0 <= Size' /\ 1..0 = {}
      <4>1. Size' = Size
        BY <1>1, SamePlay
      <4> QED
        BY <1>4, <4>1
    <3> QED
      BY <1>2, <1>4, <3>2, <3>3 DEF Reading
  <2>4. Writing'
    <3> SUFFICES ASSUME m = "data", Live' PROVE Writing'
      BY <2>1 DEF Writing
    <3>1. Live /\ Speaking
      BY <1>1 DEF Live, Pairing
    <3>2. f \in Fit(cl) /\ Ends(f)
      BY <1>1, <1>3, <1>6, <3>1, NotQuiet DEF f, Ends
    <3>3. cl.pc = "data" /\ cl.left = <<>>
      BY <1>5, <1>6, <1>10, <3>2 DEF Fit, IsLine
    <3>4. OnlyGone(Tail(tcp.in)) /\ OnlyGone(relay.queue) /\ OnlyGone(up)
      BY <1>1, <3>1, <3>2, FewerTail DEF Speaking, Framed, InTurn, f
    <3>5. Whole' => Stream' = <<>>
      BY <1>1, <1>2, <3>4, OnlyMarks
    <3> QED
      BY <1>1, <1>2, <1>4, <3>3, <3>5 DEF Writing, Before
  <2> QED
    BY <1>1, <1>2, <1>8, <2>1, <2>2, <2>3, <2>4, ServerKeeps
<1>11. CASE Answers(ReplyTo(cmd), After(cmd), cmd \in {"quit", "bye"})
  <2>1. Said(cmd, After(cmd), ReplyTo(cmd)) /\ After(cmd) \in {"cmd", "data", "gone"}
    BY <1>6, CommandSays
  <2>2. After(cmd) = "data" => cmd = "data"
    BY DEF After
  <2> QED
    BY <1>10, <1>11, <2>1, <2>2
<1>12. CASE \E syms \in Odd(cmd), over \in BOOLEAN : Answers(syms, IF over THEN "gone" ELSE "cmd", over)
  <2>1. PICK syms \in Odd(cmd), over \in BOOLEAN : Answers(syms, IF over THEN "gone" ELSE "cmd", over)
    BY <1>12
  <2> DEFINE m == IF over THEN "gone" ELSE "cmd"
  <2>2. m \in {"cmd", "gone"} /\ m \in {"cmd", "data", "gone"} /\ m # "data"
    OBVIOUS
  <2> HIDE DEF m
  <2>3. Said(cmd, m, syms)
    BY <1>6, <2>2, CommandSays
  <2>4. Answers(syms, m, over)
    BY <2>1 DEF m
  <2> QED
    BY <1>10, <2>2, <2>3, <2>4
<1> QED
  BY <1>7, <1>11, <1>12

\* A server that goes.
LEMMA LeavesPromises ==
  ASSUME TypeOK, Promising, ServerLeaves
  PROVE  Promising'
<1>1. /\ UNCHANGED <<cast, cl, browser, up, down, relay>> /\ sv'.mode = "gone"
      /\ sv'.taken = sv.taken /\ tcp'.out = tcp.out
  BY DEF ServerLeaves, TypeOK, PipeOK, Sockets, Servers
<1>2. Reading' /\ Writing' /\ Over'
  BY <1>1, GoneKeeps
<1>3. tcp'.out = tcp.out \o <<>>
  <2>1. tcp.out \in Seq(Syms)
    BY DEF TypeOK, PipeOK, Sockets
  <2> QED
    BY <1>1, <2>1, ConcatEmptySeq
<1>4. <<>> \in Seq(Verdicts')
  OBVIOUS
<1> QED
  BY <1>1, <1>2, <1>3, <1>4, ServerKeeps

\* A line that is read is the line that was asked to be sent: what stuffing adds, reading takes.
LEMMA LineOf ==
  ASSUME cast \in DOMAIN Casts, NEW i \in 1..Size
  PROVE  LET e == Ended1(Play.data)[i]
             l == BodyFrames[i].line
         IN /\ e \in Lines /\ e.lf /\ l \in Lines /\ l # Dot
            /\ [l EXCEPT !.dots = IF @ > 0 THEN @ - 1 ELSE 0] = e
<1> DEFINE s == Play.data
           e == Ended1(s)[i]
           l == BodyFrames[i].line
<1>1. /\ s \in Seq(Lines) /\ Len(s) \in Nat /\ DOMAIN s = 1..Len(s) /\ i \in 1..Len(s) /\ s # <<>>
      /\ \A j \in 1..(Len(s) - 1) : s[j].lf
  <2>1. s \in Seq(Lines) /\ \A j \in 1..(Len(s) - 1) : s[j].lf
    BY CastsAssumption DEF Play
  <2>2. i \in 1..Len(s)
    BY DEF Size
  <2> HIDE DEF s
  <2>3. Len(s) \in Nat /\ DOMAIN s = 1..Len(s)
    BY <2>1, LenProperties
  <2>4. s # <<>>
    BY <2>2
  <2> QED
    BY <2>1, <2>2, <2>3, <2>4
<1>2. l = DotStuff(s)[i]
  <2>1. BodyFrames[i] = [line |-> DotStuff(s)[i], size |-> MaxFrame]
    BY <1>1 DEF BodyFrames
  <2> QED
    BY <2>1
<1>3. l # Dot
  <2>1. BodyFrames \in Seq(BodyLine)
    BY BodiesAreLines
  <2>2. i \in DOMAIN BodyFrames
    BY <1>1 DEF BodyFrames
  <2> HIDE DEF s, BodyFrames
  <2>3. BodyFrames[i] \in BodyLine
    BY <2>1, <2>2, ElementOfSeq, LenProperties
  <2> QED
    BY <2>3 DEF BodyLine
<1> HIDE DEF s, l
<1>4. s[i] \in Lines /\ e \in Lines /\ l \in Lines
  <2>1. Ended1(s) \in Seq(Lines) /\ DotStuff(s) \in Seq(Lines) /\ DOMAIN DotStuff(s) = DOMAIN s
    BY <1>1, Stuffed
  <2>2. DOMAIN Ended1(s) = DOMAIN s
    BY <1>1 DEF Ended1
  <2>3. \A t \in Seq(Lines) : i \in DOMAIN t => t[i] \in Lines
    BY ElementOfSeq, LenProperties
  <2> QED
    BY <1>1, <1>2, <2>1, <2>2, <2>3
<1>5. e.lf /\ e.dots = s[i].dots
  <2>1. Ended1(s) = [s EXCEPT ![Len(s)] = [s[Len(s)] EXCEPT !.lf = TRUE]]
    BY <1>1 DEF Ended1
  <2>2. e = IF i = Len(s) THEN [s[i] EXCEPT !.lf = TRUE] ELSE s[i]
    BY <1>1, <2>1
  <2>3. CASE i = Len(s)
    <3>1. e = [s[i] EXCEPT !.lf = TRUE]
      BY <2>2, <2>3
    <3>2. \A r \in Lines : [r EXCEPT !.lf = TRUE].lf /\ [r EXCEPT !.lf = TRUE].dots = r.dots
      BY DEF Lines
    <3> HIDE DEF e
    <3> QED
      BY <1>4, <3>1, <3>2
  <2>4. CASE i # Len(s)
    <3>1. i \in 1..(Len(s) - 1)
      <4>1. \A n \in Nat : \A k \in 1..n : k # n => k \in 1..(n - 1)
        OBVIOUS
      <4>2. Len(s) \in Nat /\ i \in 1..Len(s)
        BY <1>1
      <4> QED
        BY <2>4, <4>1, <4>2
    <3>2. s[i].lf
      <4>1. \A j \in 1..(Len(s) - 1) : s[j].lf
        BY <1>1
      <4> QED
        BY <3>1, <4>1, Zenon
    <3> QED
      BY <2>2, <2>4, <3>2
  <2> QED
    BY <2>3, <2>4
<1>6. l = IF s[i].dots > 0 THEN [e EXCEPT !.dots = @ + 1] ELSE e
  BY <1>1, <1>2 DEF DotStuff
<1> HIDE DEF e
<1>7. [l EXCEPT !.dots = IF @ > 0 THEN @ - 1 ELSE 0] = e
  <2>1. e.dots \in Nat
    BY <1>4 DEF Lines
  <2>2. \A n \in Nat : /\ n > 0 => (IF n + 1 > 0 THEN (n + 1) - 1 ELSE 0) = n
                       /\ ~(n > 0) => (IF n > 0 THEN n - 1 ELSE 0) = n
    OBVIOUS
  <2>3. \A r \in Lines : \A n, m : [[r EXCEPT !.dots = n] EXCEPT !.dots = m] = [r EXCEPT !.dots = m]
    BY DEF Lines
  <2>4. \A r \in Lines : /\ \A n : [r EXCEPT !.dots = n].dots = n
                         /\ [r EXCEPT !.dots = r.dots] = r
    BY DEF Lines
  <2>5. CASE s[i].dots > 0
    <3> DEFINE n == e.dots + 1
               r == [e EXCEPT !.dots = n]
    <3>1. l = r /\ r.dots = n
      BY <1>4, <1>6, <2>4, <2>5
    <3>2. [r EXCEPT !.dots = IF r.dots > 0 THEN r.dots - 1 ELSE 0] = [r EXCEPT !.dots = e.dots]
      BY <1>5, <2>1, <2>2, <2>5, <3>1
    <3>3. [r EXCEPT !.dots = e.dots] = e
      BY <1>4, <2>3, <2>4
    <3> QED
      BY <3>1, <3>2, <3>3
  <2>6. CASE ~(s[i].dots > 0)
    <3>1. l = e
      BY <1>6, <2>6
    <3>2. (IF e.dots > 0 THEN e.dots - 1 ELSE 0) = e.dots
      BY <1>5, <2>1, <2>2, <2>6
    <3> QED
      BY <1>4, <2>4, <3>1, <3>2
  <2> QED
    BY <2>5, <2>6
<1> QED
  BY <1>3, <1>4, <1>5, <1>7 DEF s, e, l

\* The message's last line, ended, is as long as it was.
LEMMA EndedLen ==
  ASSUME cast \in DOMAIN Casts
  PROVE  Ended1(Play.data) \in Seq(Lines) /\ Len(Ended1(Play.data)) = Size
<1> DEFINE s == Play.data
<1>1. s \in Seq(Lines)
  BY CastsAssumption DEF Play
<1> HIDE DEF s
<1>2. Ended1(s) \in Seq(Lines) /\ Len(Ended1(s)) = Len(s)
  BY <1>1, Stuffed DEF Ended1
<1> QED
  BY <1>2 DEF s, Size

\* No line that the server has read goes on in the next.
LEMMA NeverJoins ==
  ASSUME TypeOK, Reading, sv.mode = "data"
  PROVE  ~Joins(sv.lines)
<1>1. sv.lines \in Seq(Lines) /\ Len(sv.lines) \in Nat /\ Len(sv.lines) <= Size /\ Size \in Nat
  BY Numbers, LenProperties DEF TypeOK, Servers, Reading
<1> SUFFICES ASSUME sv.lines # <<>> PROVE sv.lines[Len(sv.lines)].lf
  BY DEF Joins
<1>2. Len(sv.lines) > 0
  BY <1>1, EmptySeq
<1>3. Len(sv.lines) \in 1..Len(sv.lines) /\ Len(sv.lines) \in 1..Size
  BY <1>1, <1>2
<1>4. sv.lines[Len(sv.lines)] = Ended1(Play.data)[Len(sv.lines)]
  BY <1>3 DEF Reading
<1> QED
  BY <1>3, <1>4, LineOf DEF TypeOK

\* One more line of the message has been read.
LEMMA LinePromises ==
  ASSUME TypeOK, Promising, sv.mode = "data", tcp.in # <<>>,
         UNCHANGED <<cast, cl, browser, up, down, relay>>,
         IsLine(Head(tcp.in)), ~EndsMessage(Head(tcp.in)),
         sv' = [sv EXCEPT !.lines = Read(@, Head(tcp.in).line)],
         tcp'.in = Tail(tcp.in), tcp'.dead = tcp.dead, tcp'.out = tcp.out
  PROVE  Promising'
<1> DEFINE f == Head(tcp.in)
<1>1. /\ Reading /\ Writing /\ Taking /\ Judged /\ Telling /\ cast \in DOMAIN Casts /\ sv \in Servers
      /\ sv.lines \in Seq(Lines) /\ tcp.out \in Seq(Syms)
  BY DEF Promising, TypeOK, Servers, PipeOK, Sockets
<1>2. /\ Stream \in Seq(Marked) /\ Stream # <<>> /\ Stream[1] = f
      /\ f \in Frames /\ f # Gone /\ Stream' = Tail(Stream) /\ (Whole' <=> Whole)
  BY ServerTakes
<1>3. Got = Len(sv.lines) /\ Got \in Nat /\ Size \in Nat /\ Len(Stream) \in Nat
  BY Numbers DEF Got
<1>4. Got + 1 <= Size + 1 /\ f = Part(Got + 1) /\ Told(Tail(Stream), Got + 1)
  <2>1. Told(Stream, Got) /\ IsLine(Stream[1])
    BY <1>1, <1>2 DEF Reading
  <2> QED
    BY <1>2, <1>3, <2>1, TellsRest
<1>5. ~Joins(sv.lines) /\ f.line # Dot
  BY <1>1, NeverJoins DEF EndsMessage, IsLine
<1>6. Got + 1 <= Size /\ Got + 1 \in 1..Size /\ f = BodyFrames[Got + 1]
  <2>1. ASSUME ~(Got + 1 <= Size) PROVE FALSE
    <3>1. f = DotFrame
      BY <1>4, <2>1 DEF Part
    <3> QED
      BY <1>5, <3>1 DEF DotFrame
  <2>2. Got + 1 <= Size
    BY <2>1
  <2> QED
    BY <1>3, <1>4, <2>2 DEF Part
<1>7. /\ Ended1(Play.data)[Got + 1] \in Lines
      /\ [f.line EXCEPT !.dots = IF @ > 0 THEN @ - 1 ELSE 0] = Ended1(Play.data)[Got + 1]
  BY <1>1, <1>6, LineOf
<1> DEFINE e == Ended1(Play.data)[Got + 1]
<1>8. sv'.mode = "data" /\ sv'.taken = sv.taken /\ sv'.lines = Append(sv.lines, e)
  BY <1>1, <1>5, <1>7 DEF Read, Servers
<1> HIDE DEF f, e
<1>9. /\ Len(Append(sv.lines, e)) = Got + 1 /\ Append(sv.lines, e)[Got + 1] = e
      /\ \A i \in 1..Got : Append(sv.lines, e)[i] = sv.lines[i]
  BY <1>1, <1>3, <1>7, AppendProperties DEF e
<1>10. /\ Size' = Size /\ (\A i : Part(i)' = Part(i)) /\ (\A s, i : Told(s, i)' = Told(s, i))
       /\ Play' = Play /\ Ended1(Play.data)' = Ended1(Play.data)
  BY SamePlay DEF Ended1
<1>11. Got' = Got + 1
  BY <1>8, <1>9 DEF Got
<1>12. Reading'
  <2>1. Told(Stream, Got)'
    BY <1>2, <1>4, <1>10, <1>11
  <2>2. Len(sv'.lines) <= Size'
    BY <1>6, <1>8, <1>9, <1>10
  <2>3. \A i \in 1..Len(sv'.lines) : sv'.lines[i] = Ended1(Play.data)[i]
    <3> SUFFICES ASSUME NEW i \in 1..(Got + 1) PROVE sv'.lines[i] = Ended1(Play.data)[i]
      BY <1>8, <1>9
    <3>1. i \in 1..Got \/ i = Got + 1
      BY <1>3
    <3>2. CASE i \in 1..Got
      BY <1>1, <1>3, <1>8, <1>9, <3>2 DEF Reading
    <3>3. CASE i = Got + 1
      BY <1>8, <1>9, <3>3 DEF e
    <3> QED
      BY <3>1, <3>2, <3>3
  <2> QED
    BY <1>8, <1>10, <2>1, <2>2, <2>3 DEF Reading
<1>13. Over => Over'
  BY <1>2, <1>8, NoneBehind DEF Over
<1>14. Writing'
  <2> SUFFICES ASSUME Live' PROVE Writing'
    BY DEF Writing
  <2>1. Live
    BY DEF Live
  <2>2. Whole' => Stream # <<>> /\ Whole
    BY <1>2
  <2>3. /\ cl.pc \notin Before
        /\ cl.pc = "data" => cl.left = <<>> /\ ~Whole
        /\ cl.pc = "body" /\ Whole =>
             /\ Got + Len(Stream) + Len(cl.left) = Size
             /\ \A i \in 1..Len(cl.left) : cl.left[i] = Part(Got + Len(Stream) + i)
        /\ cl.pc = "dot" /\ cl.left # <<>> /\ Whole => Got + Len(Stream) = Size
    BY <1>1, <1>2, <2>1 DEF Writing
  <2>4. Got' + Len(Stream') = Got + Len(Stream)
    <3>1. Len(Tail(Stream)) = Len(Stream) - 1
      BY <1>2, Behind
    <3>2. \A a, b \in Nat : (a + 1) + (b - 1) = a + b
      OBVIOUS
    <3> QED
      BY <1>2, <1>3, <1>11, <3>1, <3>2
  <2>5. /\ cl.pc = "body" /\ Whole =>
             /\ Got' + Len(Stream') + Len(cl.left) = Size
             /\ \A i \in 1..Len(cl.left) : cl.left[i] = Part(Got' + Len(Stream') + i)
        /\ cl.pc = "dot" /\ cl.left # <<>> /\ Whole => Got' + Len(Stream') = Size
    BY <2>3, <2>4
  <2> QED
    BY <1>2, <1>10, <2>3, <2>5 DEF Writing
<1>15. tcp'.out = tcp.out \o <<>> /\ <<>> \in Seq(Verdicts')
  <2>1. <<>> \in Seq(Verdicts')
    OBVIOUS
  <2> QED
    BY <1>1, <2>1, ConcatEmptySeq
<1> QED
  BY <1>8, <1>12, <1>13, <1>14, <1>15, ServerKeeps

\* Once all of it was read, no end of the message is on its way.
LEMMA AllTold ==
  ASSUME NEW s \in Seq(Marked), Size \in Nat, Told(s, Size + 1)
  PROVE  NoDot(s)
<1>1. \A x \in 1..Len(s) : ~(Size + 1 + x <= Size + 1)
  <2>1. Len(s) \in Nat
    BY LenProperties
  <2>2. \A x \in 1..Len(s) : x \in Nat /\ x > 0
    BY <2>1
  <2>3. \A n, x \in Nat : x > 0 => ~(n + 1 + x <= n + 1)
    OBVIOUS
  <2> QED
    BY <2>2, <2>3
<1> QED
  BY <1>1 DEF Told, NoDot

\* What the server says of the message, as it took it or did not.
Truths(really) ==
  {y \in Syms : y # Junk => /\ y.code \in 200..299 => really
                            /\ y.code \in 400..599 => ~really}

\* The end of the message: all of it has been read, and it is taken or it is not.
LEMMA EndPromises ==
  ASSUME TypeOK, Promising, sv.mode = "data", tcp.in # <<>>,
         UNCHANGED <<cast, cl, browser, up, down, relay>>, EndsMessage(Head(tcp.in)),
         NEW really \in BOOLEAN, NEW m \in {"cmd", "gone"}, NEW syms \in Seq(Truths(really)),
         sv' = [sv EXCEPT !.mode = m, !.taken = Took(really), !.lines = <<>>],
         tcp'.in = Tail(tcp.in), tcp'.dead = tcp.dead, tcp'.out = tcp.out \o syms
  PROVE  Promising'
<1> DEFINE f == Head(tcp.in)
<1>1. /\ Reading /\ Taking /\ Judged /\ Telling /\ cast \in DOMAIN Casts /\ sv \in Servers
      /\ sv.lines \in Seq(Lines)
  BY DEF Promising, TypeOK, Servers
<1>2. /\ Stream \in Seq(Marked) /\ Stream # <<>> /\ Stream[1] = f
      /\ f \in Frames /\ f # Gone /\ Stream' = Tail(Stream) /\ IsLine(f) /\ f.line = Dot
  BY ServerTakes DEF EndsMessage, IsLine
<1>3. Got = Len(sv.lines) /\ Got \in Nat /\ Size \in Nat /\ Tail(Stream) \in Seq(Marked)
  BY <1>2, Numbers, Behind DEF Got
<1>4. ~Over
  BY <1>2, NoneBehind DEF Over
<1>5. sv.taken = <<>> /\ Away
  BY <1>1, <1>4 DEF Taking
<1>6. Got + 1 <= Size + 1 /\ f = Part(Got + 1) /\ Told(Tail(Stream), Got + 1)
  <2>1. Told(Stream, Got) /\ IsLine(Stream[1])
    BY <1>1, <1>2 DEF Reading
  <2> QED
    BY <1>2, <1>3, <2>1, TellsRest
<1>7. Got = Size
  <2>1. ASSUME Got + 1 <= Size PROVE FALSE
    <3>1. f = BodyFrames[Got + 1] /\ Got + 1 \in 1..Size
      BY <1>3, <1>6, <2>1 DEF Part
    <3> QED
      BY <1>1, <1>2, <3>1, LineOf
  <2> QED
    BY <1>3, <1>6, <2>1
<1>8. sv.lines = Ended1(Play.data)
  <2>1. /\ Ended1(Play.data) \in Seq(Lines) /\ Len(Ended1(Play.data)) = Size
        /\ \A i \in 1..Len(sv.lines) : sv.lines[i] = Ended1(Play.data)[i]
    BY <1>1, EndedLen DEF Reading
  <2> HIDE DEF Ended1
  <2> QED
    BY <1>1, <1>3, <1>7, <2>1, SeqEqual
<1>9. /\ sv'.mode = m /\ sv'.lines = <<>>
      /\ sv'.taken = IF really THEN <<Ended1(Play.data)>> ELSE <<>>
  <2>1. sv'.mode = m /\ sv'.lines = <<>> /\ sv'.taken = Took(really)
    BY <1>1 DEF Servers
  <2>2. \A x : Append(<<>>, x) = <<x>>
    OBVIOUS
  <2> QED
    BY <1>5, <1>8, <2>1, <2>2 DEF Took
<1>10. /\ Size' = Size /\ (\A s, i : Told(s, i)' = Told(s, i))
       /\ Play' = Play /\ Ended1(Play.data)' = Ended1(Play.data) /\ (Away' <=> Away)
  BY SamePlay DEF Ended1, Away
<1>11. Got' = Got + 1
  BY <1>7, <1>9, <1>10 DEF Got
<1>12. Reading'
  <2>1. Told(Stream, Got)'
    BY <1>2, <1>6, <1>10, <1>11
  <2> QED
    BY <1>9, <2>1 DEF Reading
<1>13. Writing'
  BY <1>9 DEF Writing
<1>14. Over'
  <2>1. NoDot(Tail(Stream))
    BY <1>3, <1>6, <1>7, AllTold
  <2> QED
    BY <1>2, <2>1 DEF Over
<1> HIDE DEF f
<1>15. Taking'
  BY <1>5, <1>9, <1>10, <1>14 DEF Taking
<1>16. Telling'
  BY <1>1, <1>4, <1>5 DEF Telling
<1>17. Verdicts \subseteq Verdicts'
  BY <1>4 DEF Verdicts
<1>18. Truths(really) \subseteq Verdicts'
  <2>1. sv'.taken # <<>> <=> really
    <3>1. \A x : <<x>> # <<>>
      OBVIOUS
    <3> QED
      BY <1>9, <3>1
  <2>2. Away' /\ Over'
    BY <1>5, <1>10, <1>14
  <2> QED
    BY <2>1, <2>2 DEF Truths, Verdicts
<1>19. Judged'
  <2>1. Data' = Data
    BY DataStays DEF TypeOK, PipeOK
  <2>2. /\ cl'.buf \in Seq(Verdicts) /\ browser'.chunks \in Seq(Seq(Verdicts))
        /\ Data' \in Seq(Seq(Verdicts)) /\ tcp.out \in Seq(Verdicts)
    BY <1>1, <2>1 DEF Judged
  <2>3. \A S, T : S \subseteq T => Seq(S) \subseteq Seq(T)
    OBVIOUS
  <2> HIDE DEF Verdicts, Truths
  <2>4. Seq(Verdicts) \subseteq Seq(Verdicts')
    BY <1>17, <2>3
  <2>5. Seq(Seq(Verdicts)) \subseteq Seq(Seq(Verdicts'))
    BY <2>3, <2>4
  <2>6. syms \in Seq(Verdicts')
    BY <1>18, <2>3
  <2>7. tcp'.out \in Seq(Verdicts')
    BY <2>2, <2>4, <2>6, ConcatProperties
  <2> QED
    BY <2>2, <2>4, <2>5, <2>7 DEF Judged
<1> QED
  BY <1>12, <1>13, <1>15, <1>16, <1>19 DEF Promising

\* A frame that the server reads in the middle of the message.
LEMMA ReadsPromises ==
  ASSUME TypeOK, Promising, ServerReadsMessage
  PROVE  Promising'
<1> DEFINE f == Head(tcp.in)
           said(syms, really, mode, over) ==
             /\ sv' = [sv EXCEPT !.mode = mode, !.taken = Took(really), !.lines = <<>>]
             /\ tcp' = [tcp EXCEPT !.in = Tail(@), !.out = @ \o syms, !.over = over]
<1>1. tcp.in # <<>> /\ sv.mode = "data" /\ UNCHANGED <<cast, cl, browser, up, down, relay>>
  BY DEF ServerReadsMessage
<1>2. CASE ~EndsMessage(f)
  <2>1. tcp'.in = Tail(tcp.in) /\ tcp'.out = tcp.out /\ tcp'.dead = tcp.dead
    BY <1>2 DEF ServerReadsMessage, TypeOK, PipeOK, Sockets
  <2>2. CASE IsLine(f)
    <3>1. sv' = [sv EXCEPT !.lines = Read(@, f.line)]
      BY <1>2, <2>2 DEF ServerReadsMessage, IsLine
    <3> QED
      BY <1>1, <1>2, <2>1, <2>2, <3>1, LinePromises
  <2>3. CASE ~IsLine(f)
    <3>1. sv' = [sv EXCEPT !.mode = "gone"]
      BY <1>2, <2>3 DEF ServerReadsMessage, IsLine
    <3>2. sv'.mode = "gone" /\ sv'.taken = sv.taken
      BY <3>1 DEF TypeOK, Servers
    <3>3. tcp'.out = tcp.out \o <<>> /\ <<>> \in Seq(Verdicts')
      <4>1. tcp.out \in Seq(Syms)
        BY DEF TypeOK, PipeOK, Sockets
      <4>2. <<>> \in Seq(Verdicts')
        OBVIOUS
      <4> QED
        BY <2>1, <4>1, <4>2, ConcatEmptySeq
    <3> QED
      BY <1>1, <3>2, <3>3, GoneKeeps, ServerKeeps
  <2> QED
    BY <2>2, <2>3
<1>3. CASE EndsMessage(f)
  <2>1. \/ said(Reply(250, "answer"), TRUE, "cmd", FALSE)
        \/ \E code \in {450, 550} : said(Reply(code, "answer"), FALSE, "cmd", FALSE)
        \/ \E syms \in {Reply(354, "answer"), <<Junk>>, <<>>}, really, over \in BOOLEAN :
             said(syms, really, IF over THEN "gone" ELSE "cmd", over)
    BY <1>3 DEF ServerReadsMessage
  <2> HIDE DEF f
  <2>2. ASSUME NEW really \in BOOLEAN, NEW m \in {"cmd", "gone"}, NEW syms \in Seq(Truths(really)),
               NEW over, said(syms, really, m, over)
        PROVE  Promising'
    <3>1. /\ sv' = [sv EXCEPT !.mode = m, !.taken = Took(really), !.lines = <<>>]
          /\ tcp'.in = Tail(tcp.in) /\ tcp'.out = tcp.out \o syms /\ tcp'.dead = tcp.dead
      BY <2>2 DEF TypeOK, PipeOK, Sockets
    <3> QED
      BY <1>1, <1>3, <3>1, EndPromises DEF f
  <2>3. ASSUME NEW really \in BOOLEAN, NEW n \in Nat, n \in 200..299 => really, n \in 400..599 => ~really
        PROVE  Reply(n, "answer") \in Seq(Truths(really))
    <3> DEFINE y == [code |-> n, more |-> FALSE, to |-> "answer"]
    <3>1. y \in Syms
      BY DEF Syms, Replies, Pcs
    <3>2. y \in Truths(really)
      BY <2>3, <3>1 DEF Truths
    <3> HIDE DEF y
    <3>3. <<y>> \in Seq(Truths(really))
      BY <3>2
    <3> QED
      BY <3>3 DEF Reply, y
  <2>4. ASSUME NEW really \in BOOLEAN
        PROVE  <<Junk>> \in Seq(Truths(really)) /\ <<>> \in Seq(Truths(really))
    <3>1. Junk \in Truths(really)
      BY DEF Truths, Syms
    <3>2. \A S : Junk \in S => <<Junk>> \in Seq(S) /\ <<>> \in Seq(S)
      OBVIOUS
    <3> QED
      BY <3>1, <3>2
  <2> HIDE DEF said
  <2>5. CASE said(Reply(250, "answer"), TRUE, "cmd", FALSE)
    <3>1. 250 \in Nat /\ 250 \notin 400..599 /\ TRUE \in BOOLEAN
      OBVIOUS
    <3>2. Reply(250, "answer") \in Seq(Truths(TRUE))
      BY <2>3, <3>1
    <3> QED
      BY <2>2, <2>5, <3>2
  <2>6. CASE \E code \in {450, 550} : said(Reply(code, "answer"), FALSE, "cmd", FALSE)
    <3>1. PICK code \in {450, 550} : said(Reply(code, "answer"), FALSE, "cmd", FALSE)
      BY <2>6
    <3>2. code \in Nat /\ code \notin 200..299 /\ FALSE \in BOOLEAN
      OBVIOUS
    <3>3. Reply(code, "answer") \in Seq(Truths(FALSE))
      BY <2>3, <3>2
    <3> QED
      BY <2>2, <3>1, <3>3
  <2>7. CASE \E syms \in {Reply(354, "answer"), <<Junk>>, <<>>}, really, over \in BOOLEAN :
               said(syms, really, IF over THEN "gone" ELSE "cmd", over)
    <3>1. PICK syms \in {Reply(354, "answer"), <<Junk>>, <<>>}, really \in BOOLEAN, over \in BOOLEAN :
            said(syms, really, IF over THEN "gone" ELSE "cmd", over)
      BY <2>7
    <3> DEFINE m == IF over THEN "gone" ELSE "cmd"
    <3>2. m \in {"cmd", "gone"} /\ said(syms, really, m, over)
      BY <3>1
    <3> HIDE DEF m
    <3>3. CASE syms = Reply(354, "answer")
      <4>1. 354 \in Nat /\ 354 \notin 200..299 /\ 354 \notin 400..599
        OBVIOUS
      <4>2. Reply(354, "answer") \in Seq(Truths(really))
        BY <2>3, <4>1
      <4> QED
        BY <2>2, <3>2, <3>3, <4>2
    <3>4. CASE syms = <<Junk>> \/ syms = <<>>
      <4>1. syms \in Seq(Truths(really))
        BY <2>4, <3>4
      <4> QED
        BY <2>2, <3>2, <4>1
    <3> QED
      BY <3>1, <3>3, <3>4
  <2> QED
    BY <2>1, <2>5, <2>6, <2>7
<1> QED
  BY <1>2, <1>3

\* At first nothing is on its way, and nothing was said.
LEMMA PromisingInit == Init => Promising
<1> SUFFICES ASSUME Init PROVE Promising
  OBVIOUS
<1>1. /\ cl.pc = "open" /\ cl.left = <<>> /\ cl.buf = <<>> /\ cl.answer = "none"
      /\ sv.mode = "start" /\ sv.lines = <<>> /\ sv.taken = <<>>
      /\ browser.chunks = <<>> /\ up = <<>> /\ down = <<>> /\ relay.queue = <<>>
      /\ tcp.in = <<>> /\ tcp.out = <<>>
  BY DEF Init, TransportInit
<1>2. Data = <<>>
  BY <1>1 DEF Data
<1>3. Stream = <<>>
  <2>1. <<>> \o <<>> = <<>>
    BY Joins2
  <2>2. Coming = <<>>
    BY <1>1, <2>1 DEF Coming
  <2> QED
    BY <1>1, <2>1, <2>2 DEF Stream
<1>4. (\A i : Told(<<>>, i)) /\ NoDot(<<>>)
  BY DEF Told, NoDot
<1>5. Reading /\ Writing /\ Taking /\ Telling
  <2>1. Reading
    BY <1>1, <1>3, <1>4 DEF Reading
  <2>2. Writing
    BY <1>1 DEF Writing
  <2>3. Taking
    BY <1>1, <1>3, <1>4 DEF Taking, Over
  <2>4. Telling
    BY <1>1 DEF Telling
  <2> QED
    BY <2>1, <2>2, <2>3, <2>4
<1>6. Judged
  <2>1. \A S : <<>> \in Seq(S)
    OBVIOUS
  <2> HIDE DEF Data, Verdicts
  <2> QED
    BY <1>1, <1>2, <2>1 DEF Judged
<1> QED
  BY <1>5, <1>6 DEF Promising

\* Every step keeps the promise's invariant.
LEMMA PromisingStep == Inv /\ Pairing /\ Promising /\ [Next]_vars => Promising'
<1> SUFFICES ASSUME Inv, Pairing, Promising, [Next]_vars PROVE Promising'
  OBVIOUS
<1>1. TypeOK /\ Apart /\ TypeOK' /\ PipeOK /\ PipeOK'
  BY InvStep DEF Inv, Carries, TypeOK
<1>2. CASE Client \/ ReplyTimeout
  BY <1>1, <1>2, OpenPromises, WritePromises, WriteFailsPromises, WrittenPromises, FlushPromises,
     ReadPromises, ClosePromises, TimeoutPromises DEF Client
<1>3. CASE Server
  BY <1>1, <1>3, GreetsPromises, AnswersPromises, ReadsPromises, LeavesPromises DEF Server
<1>4. CASE Transport \/ AckStall \/ Fault
  BY <1>1, <1>4, OtherPromises
<1>5. CASE UNCHANGED vars
  <2>1. UNCHANGED <<cast, cl, sv, browser, up, down, relay, tcp>>
    BY <1>5 DEF vars, transport
  <2>2. UNCHANGED <<up, down, relay, tcp>> /\ down \in Seq(Downs)
    BY <1>1, <2>1 DEF PipeOK
  <2>3. /\ Stream' = Stream /\ (Whole' <=> Whole) /\ Got' = Got /\ Size' = Size
        /\ (Over' <=> Over) /\ \A i : Part(i)' = Part(i)
    BY <2>1, OwnStream
  <2>4. (Away => Away') /\ (Live' => Live)
    BY <2>1 DEF Away, Live
  <2>5. Writing'
    BY <2>1, <2>3, <2>4 DEF Promising, Writing
  <2>6. Telling'
    BY <2>1, <2>3 DEF Promising, Telling
  <2>7. cl'.buf \in Seq(Verdicts) /\ browser'.chunks \in Seq(Seq(Verdicts))
    BY <2>1 DEF Promising, Judged
  <2> QED
    BY <2>1, <2>2, <2>4, <2>5, <2>6, <2>7, OwnKeeps
<1> QED
  BY <1>2, <1>3, <1>4, <1>5 DEF Next, Rest

-----------------------------------------------------------------------------
(* The refinement. *)

Asked  == Ended1(Play.data)
Outcome == IF Settled THEN cl.answer ELSE "none"

\* What was taken is what it was, or a message more.
LEMMA TakesMore ==
  ASSUME TypeOK, [Next]_vars
  PROVE  sv'.taken = sv.taken \/ (Server /\ \E l : sv'.taken = Append(sv.taken, l))
<1>1. sv \in Servers
  BY DEF TypeOK
<1>2. CASE ~Server
  BY <1>2 DEF Next, Client, Open, WriteFrame, WriteFails, Written, Flush, ReadLine, Close, ReplyTimeout,
     AckStall, Transport, Fault, Rest, vars
<1>3. CASE ServerGreets \/ ServerLeaves
  BY <1>1, <1>3 DEF ServerGreets, ServerLeaves, Servers
<1>4. CASE ServerAnswers
  <2>1. \A m : [sv EXCEPT !.mode = m].taken = sv.taken
    BY <1>1 DEF Servers
  <2>2. \E m : sv' = [sv EXCEPT !.mode = m]
    BY <1>4 DEF ServerAnswers, Answers
  <2> QED
    BY <2>1, <2>2
<1>5. CASE ServerReadsMessage
  <2>1. \/ sv' = [sv EXCEPT !.lines = Read(@, Head(tcp.in).line)] \/ sv' = [sv EXCEPT !.mode = "gone"]
        \/ \E m, really : sv' = [sv EXCEPT !.mode = m, !.taken = Took(really), !.lines = <<>>]
    <3> DEFINE f == Head(tcp.in)
               says(m, really) == sv' = [sv EXCEPT !.mode = m, !.taken = Took(really), !.lines = <<>>]
    <3>1. CASE EndsMessage(f)
      <4>1. \/ says("cmd", TRUE) \/ says("cmd", FALSE)
            \/ \E really, over \in BOOLEAN : says(IF over THEN "gone" ELSE "cmd", really)
        BY <1>5, <3>1 DEF ServerReadsMessage
      <4> HIDE DEF says
      <4>2. \E m, really : says(m, really)
        BY <4>1
      <4> QED
        BY <4>2 DEF says
    <3>2. CASE ~EndsMessage(f)
      BY <1>5, <3>2 DEF ServerReadsMessage
    <3> QED
      BY <3>1, <3>2
  <2>2. \A m, t : [sv EXCEPT !.mode = m, !.taken = t, !.lines = <<>>].taken = t
    BY <1>1 DEF Servers
  <2>3. /\ [sv EXCEPT !.mode = "gone"].taken = sv.taken
        /\ \A l : [sv EXCEPT !.lines = l].taken = sv.taken
    BY <1>1 DEF Servers
  <2>4. CASE \E m, really : sv' = [sv EXCEPT !.mode = m, !.taken = Took(really), !.lines = <<>>]
    BY <1>5, <2>2, <2>4 DEF Took, Server
  <2> QED
    BY <2>1, <2>3, <2>4
<1> QED
  BY <1>2, <1>3, <1>4, <1>5 DEF Server

\* A client that has closed does nothing more, and none but the client changes it.
LEMMA SettledStays ==
  ASSUME TypeOK, Stepping, [Next]_vars
  PROVE  /\ UNCHANGED cast
         /\ cl' = cl \/ (~Settled /\ UNCHANGED sv)
<1>1. UNCHANGED cast
  BY DEF Next, Client, Open, WriteFrame, WriteFails, Written, Flush, ReadLine, Close, ReplyTimeout,
     AckStall, Transport, Fault, Rest, vars, Server, ServerGreets, ServerAnswers, ServerReadsMessage,
     ServerLeaves
<1>2. CASE Client \/ ReplyTimeout
  <2>1. UNCHANGED sv
    BY <1>2 DEF Client, Open, WriteFrame, WriteFails, Written, Flush, ReadLine, Close, ReplyTimeout
  <2>2. ~Settled
    BY <1>2 DEF Client, Open, WriteFrame, WriteFails, Written, Flush, ReadLine, Close, ReplyTimeout,
       Settled, Stepping, Takes, Commands
  <2> QED
    BY <1>1, <2>1, <2>2
<1>3. CASE ~(Client \/ ReplyTimeout)
  BY <1>1, <1>3 DEF Next, AckStall, Transport, Fault, Rest, vars, Server, ServerGreets, ServerAnswers,
     ServerReadsMessage, ServerLeaves
<1> QED
  BY <1>2, <1>3

\* At first nothing was taken and nothing said.
LEMMA InitSubmission == Init => Submission!Init
BY DEF Init, Submission!Init, Settled

\* Every step is a step of the promise, or one that it does not see.
LEMMA NextSubmission ==
  ASSUME TypeOK, TypeOK', Stepping, Promising, Promising', [Next]_vars
  PROVE  [Submission!Next]_(Submission!promise)
<1>1. UNCHANGED cast /\ (cl' = cl \/ (~Settled /\ UNCHANGED sv))
  BY SettledStays
<1>2. Asked' = Asked
  BY <1>1, SamePlay DEF Asked, Ended1
<1>3. /\ Telling /\ Telling' /\ Taking /\ Taking'
      /\ cl'.answer \in {"none", "sent", "refused", "unconfirmed"}
      /\ cl.answer \in {"none", "sent", "refused", "unconfirmed"}
  BY DEF Promising, TypeOK, Clients
<1>4. CASE ~Settled /\ UNCHANGED sv
  <2>1. Outcome = "none" /\ sv'.taken = sv.taken
    BY <1>4 DEF Outcome
  <2>2. \/ Outcome' = "none" \/ Outcome' = "unconfirmed"
        \/ Outcome' = "sent" /\ sv.taken # <<>>
        \/ Outcome' = "refused" /\ sv.taken = <<>>
    BY <1>3, <2>1 DEF Outcome, Telling
  <2> QED
    BY <1>2, <2>1, <2>2 DEF Submission!Next, Submission!Answer, Submission!promise, Outcome, Asked
<1>5. CASE cl' = cl
  <2>1. Outcome' = Outcome /\ cl'.answer = cl.answer
    BY <1>5 DEF Outcome, Settled
  <2>2. CASE sv'.taken = sv.taken
    BY <1>2, <2>1, <2>2 DEF Submission!promise, Outcome, Asked
  <2>3. CASE \E l : sv'.taken = Append(sv.taken, l)
    <3>1. PICK l : sv'.taken = Append(sv.taken, l)
      BY <2>3
    <3>2. sv.taken = <<>> \/ sv.taken = <<Asked>>
      BY <1>3 DEF Taking, Asked
    <3>3. sv'.taken = <<>> \/ sv'.taken = <<Asked>>
      BY <1>2, <1>3 DEF Taking, Asked
    <3>4. \A x, y : Append(<<>>, x) # <<>> /\ Append(<<y>>, x) # <<>> /\ Append(<<y>>, x) # <<y>>
      OBVIOUS
    <3>5. sv.taken = <<>> /\ sv'.taken = <<Asked>>
      BY <3>1, <3>2, <3>3, <3>4
    <3>6. Outcome \in {"none", "unconfirmed"}
      <4>1. <<Asked>> # <<>>
        OBVIOUS
      <4>2. cl.answer # "sent" /\ cl'.answer # "refused"
        BY <1>3, <3>5, <4>1 DEF Telling
      <4> QED
        BY <1>3, <2>1, <4>2 DEF Outcome
    <3> QED
      BY <1>2, <2>1, <3>5, <3>6 DEF Submission!Next, Submission!Take, Outcome, Asked
  <2> QED
    BY <2>2, <2>3, TakesMore
<1> QED
  BY <1>1, <1>4, <1>5

\* For every message, every server and every fault of the network, what the send machine is told
\* of a submission is true and stays true: a message is taken at most once and as it was asked, a
\* `sent` follows its taking, and nothing is taken of one that was refused.
THEOREM SubmissionKeepsPromise == Spec => KeepsSubmitPromise
<1>1. Init => Inv /\ Pairing /\ Promising
  BY InvInit, PairInit, PromisingInit
<1>2. Inv /\ Pairing /\ Promising /\ [Next]_vars => (Inv /\ Pairing /\ Promising)'
  BY InvStep, PairStep, PromisingStep
<1>3. Init => Submission!Init
  BY InitSubmission
<1>4. /\ Inv /\ Pairing /\ Promising
      /\ (Inv /\ Pairing /\ Promising)'
      /\ [Next]_vars
      => [Submission!Next]_(Submission!promise)
  BY NextSubmission DEF Inv, Pairing
<1> QED
  BY <1>1, <1>2, <1>3, <1>4, PTL DEF Spec, KeepsSubmitPromise, Submission!Spec

=============================================================================
