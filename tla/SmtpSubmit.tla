------------------------------- MODULE SmtpSubmit -------------------------------
(* One submission: a connection, the greeting, EHLO, AUTH, the envelope, the    *)
(* message, the end of it on its own, QUIT and the close, each line sent over   *)
(* RelayPipe and answered by a server that may refuse, stop, babble or be late. *)
EXTENDS RelayPipe

CONSTANT Junk      \* a line that is no reply

VARIABLES cl,      \* the client: where it is, what it still writes, what it read
          sv       \* the server: its mode, the lines of the message, what it took

vars == <<cast, wire, transport, cl, sv>>

Play == Casts[cast]

----------------------------------------------------------------------------
(* What the parts may hold.                                                     *)

Lines == [dots : Nat, text : BOOLEAN, lf : BOOLEAN]
Commands == {"ehlo", "plain", "login", "user", "pass", "mail", "rcpt", "data", "quit", "bye"}
Pcs == Commands \cup {"open", "greeting", "body", "dot", "answer", "closed"}

Frames  == [cmd : Commands, size : {1}] \cup [line : Lines, size : {1, MaxFrame}]
Replies == [code : Nat, more : BOOLEAN, to : Pcs \cup {"line"}]
Syms    == Replies \cup {Junk}
Marked  == Frames \cup {Gone}
Downs   == [kind : {"ack"}, n : Nat] \cup [kind : {"data"}, syms : Seq(Syms)] \cup {Gone}

\* Only the last line of a message may lack its CRLF.
ASSUME CastsAssumption ==
  \A c \in DOMAIN Casts :
    /\ Casts[c].data \in Seq(Lines) /\ Casts[c].odd \in Nat /\ Casts[c].to \in Nat
    /\ \A i \in 1..(Len(Casts[c].data) - 1) : Casts[c].data[i].lf

\* What says that an end has closed is no frame of the client's, and Junk is no reply line.
ASSUME NamesAssumption == Gone \notin Frames /\ Junk \notin Replies

Clients ==
  [pc : Pcs, sub : {"write", "flush", "reply"}, left : Seq(Frames), buf : Seq(Syms), code : Nat,
   rcpt : Nat, abandoned : BOOLEAN, answer : {"none", "sent", "refused", "unconfirmed"},
   paired : BOOLEAN]

Servers == [mode : {"start", "cmd", "data", "gone"}, lines : Seq(Lines), taken : Seq(Seq(Lines))]

Browsers == [ended : BOOLEAN, sent : Nat, acked : Nat, chunks : Seq(Seq(Syms))]

Relays ==
  [wsClosed : BOOLEAN, ended : BOOLEAN, queue : Seq(Marked), queued : Int, written : Nat,
   acked : Nat, read : {"reading", "draining", "done"}, tooLarge : BOOLEAN]

Sockets == [in : Seq(Frames), out : Seq(Syms), fin : BOOLEAN, over : BOOLEAN, dead : BOOLEAN]

PipeOK ==
  /\ browser \in Browsers /\ up \in Seq(Marked) /\ down \in Seq(Downs)
  /\ relay \in Relays /\ tcp \in Sockets

TypeOK ==
  /\ cast \in DOMAIN Casts /\ wire \in Nat
  /\ cl \in Clients /\ sv \in Servers /\ PipeOK

----------------------------------------------------------------------------

Init ==
  /\ cast \in DOMAIN Casts
  /\ TransportInit
  /\ cl = [pc |-> "open", sub |-> "write", left |-> <<>>, buf |-> <<>>, code |-> 0, rcpt |-> 0,
           abandoned |-> FALSE, answer |-> "none", paired |-> TRUE]
  /\ sv = [mode |-> "start", lines |-> <<>>, taken |-> <<>>]

----------------------------------------------------------------------------
(* The message as lines: how many dots one starts with, whether more follows    *)
(* them, whether it ends in CRLF.                                               *)

Dot == [dots |-> 1, text |-> FALSE, lf |-> TRUE]

Ended1(lines) ==
  IF lines = <<>> THEN lines ELSE [lines EXCEPT ![Len(lines)].lf = TRUE]

\* Mutant: the message's first line is not looked at.
MutDotStuff(lines) ==
  [i \in DOMAIN lines |-> IF i > 1 /\ lines[i].dots > 0 THEN [Ended1(lines)[i] EXCEPT !.dots = @ + 1]
                          ELSE Ended1(lines)[i]]

(* A line that begins with a dot gets a second one; the last line is ended.     *)
DotStuff(lines) ==
  [i \in DOMAIN lines |-> IF lines[i].dots > 0 THEN [Ended1(lines)[i] EXCEPT !.dots = @ + 1]
                          ELSE Ended1(lines)[i]]

Line(cmd) == [cmd |-> cmd, size |-> 1]
BodyFrames == [i \in DOMAIN Play.data |-> [line |-> DotStuff(Play.data)[i], size |-> MaxFrame]]

----------------------------------------------------------------------------
(* The client's steps.                                                          *)

Takes == [greeting |-> {220}, ehlo |-> {250}, plain |-> {235}, login |-> {334}, user |-> {334},
          pass |-> {235}, mail |-> {250}, rcpt |-> {250, 251, 252}, data |-> {354}, quit |-> {221}]

Command(pc) == [cl EXCEPT !.pc = pc, !.sub = "write", !.left = <<Line(pc)>>, !.code = 0]

(* closeTls: close_notify, then the transport; the command line destroys it.    *)
Closing(c) == [c EXCEPT !.pc = "bye", !.sub = "write",
                        !.left = IF Direct THEN <<>> ELSE <<Line("bye")>>]

(* Nothing more is written once the connection is abandoned, QUIT included.     *)
Quitting(c) ==
  IF c.abandoned THEN Closing(c)
  ELSE [c EXCEPT !.pc = "quit", !.sub = "write", !.left = <<Line("quit")>>, !.code = 0]

Says(c, answer) == [c EXCEPT !.answer = IF @ = "none" THEN answer ELSE @]
Abandoned(c) == [c EXCEPT !.abandoned = TRUE]
Unconfirmed(c) == Quitting(Abandoned(Says(c, "unconfirmed")))

(* A failure: before the greeting and EHLO are answered there is no QUIT.       *)
Failed(c) ==
  CASE c.pc \in {"greeting", "ehlo"} -> Closing(Says(c, "refused"))
    [] c.pc = "answer" -> Unconfirmed(c)
    [] c.pc = "quit" -> Closing(c)
    [] c.pc = "bye" -> [c EXCEPT !.left = <<>>]
    [] OTHER -> Quitting(Says(c, "refused"))

AuthStep ==
  CASE "PLAIN" \in Play.auth -> Command("plain")
    [] "PLAIN" \notin Play.auth /\ "LOGIN" \in Play.auth -> Command("login")
    [] OTHER -> Quitting(Says(cl, "refused"))

(* Before anything is written: the addresses, that there is one, the size.      *)
Envelope ==
  IF ~Play.safe \/ Play.to = 0 \/ (Play.limit # 0 /\ Len(Play.data) > Play.limit)
  THEN Quitting(Says(cl, "refused")) ELSE Command("mail")

AfterRcpt == IF cl.rcpt + 1 < Play.to THEN [Command("rcpt") EXCEPT !.rcpt = @ + 1] ELSE Command("data")

NextStep ==
  CASE cl.pc = "greeting" -> Command("ehlo")
    [] cl.pc = "ehlo" -> AuthStep
    [] cl.pc = "login" -> Command("user")
    [] cl.pc = "user" -> Command("pass")
    [] cl.pc \in {"plain", "pass"} -> Envelope
    [] cl.pc = "mail" -> Command("rcpt")
    [] cl.pc = "rcpt" -> AfterRcpt
    [] cl.pc = "data" -> [cl EXCEPT !.pc = "body", !.sub = "write", !.left = BodyFrames]
    [] OTHER -> Closing(cl)

\* Mutant: an answer that is neither yes nor no is a no.
MutAnswered(code) ==
  IF code \in 200..299 THEN Quitting(Says(cl, "sent")) ELSE Quitting(Says(cl, "refused"))

(* The answer to the end of the message.                                        *)
Answered(code) ==
  IF code \in 200..299 THEN Quitting(Says(cl, "sent"))
  ELSE IF code \in 400..599 THEN Quitting(Says(cl, "refused"))
  ELSE Unconfirmed(cl)

Replied(code) ==
  IF cl.pc = "answer" THEN Answered(code)
  ELSE IF code \in Takes[cl.pc] THEN NextStep ELSE Failed(cl)

(* The relay's route may refuse: no session, no such host, no TCP, too often.   *)
Open ==
  /\ cl.pc = "open"
  /\ \/ cl' = [cl EXCEPT !.pc = "greeting", !.sub = "reply"] /\ UNCHANGED wire
     \/ /\ wire < Play.odd /\ wire' = wire + 1
        /\ cl' = [cl EXCEPT !.pc = "closed", !.answer = "refused"]
  /\ UNCHANGED <<cast, transport, sv>>

(* The next frame of what is being written.                                     *)
WriteFrame ==
  /\ cl.sub = "write" /\ cl.left # <<>>
  /\ MaySend(Head(cl.left))
  /\ ~browser.ended /\ ~(Direct /\ tcp.dead)
  /\ SendFrame(Head(cl.left))
  /\ cl' = [cl EXCEPT !.left = Tail(@)]
  /\ UNCHANGED <<cast, wire, sv>>

WriteFails ==
  /\ cl.sub = "write" /\ cl.left # <<>>
  /\ browser.ended \/ (MaySend(Head(cl.left)) /\ IsClosing)
  /\ cl' = CASE cl.pc = "body" -> Failed(Abandoned(cl))
             [] cl.pc = "dot" -> Unconfirmed(cl)
             [] OTHER -> Failed(cl)
  /\ UNCHANGED <<cast, wire, transport, sv>>

Written ==
  /\ cl.sub = "write" /\ cl.left = <<>> /\ cl.pc # "bye" /\ cl.pc \notin {"open", "closed"}
  /\ cl' = CASE cl.pc = "body" -> [cl EXCEPT !.sub = "flush"]
             [] cl.pc = "dot" -> [cl EXCEPT !.pc = "answer", !.sub = "reply", !.code = 0]
             [] OTHER -> [cl EXCEPT !.sub = "reply"]
  /\ UNCHANGED <<cast, wire, transport, sv>>

(* The end of the message goes on its own, once the message has left the relay. *)
Flush ==
  /\ cl.sub = "flush"
  /\ IF IsFlushed
     THEN cl' = [cl EXCEPT !.pc = "dot", !.sub = "write",
                           !.left = <<[line |-> Dot, size |-> 1]>>]
     ELSE browser.ended /\ cl' = Failed(Abandoned(cl))
  /\ UNCHANGED <<cast, wire, transport, sv>>

(* One line of a reply; a code that changes, or no reply line, is a failure.    *)
ReadLine ==
  /\ cl.sub = "reply"
  /\ \/ /\ cl.buf = <<>> /\ browser.chunks # <<>>
        /\ cl' = [cl EXCEPT !.buf = Head(browser.chunks)]
        /\ browser' = [browser EXCEPT !.chunks = Tail(@)]
        /\ UNCHANGED <<up, down, relay, tcp>>
     \/ /\ cl.buf # <<>>
        /\ LET l == Head(cl.buf)
               rest(c) == [c EXCEPT !.buf = Tail(@)]
           IN cl' = IF l = Junk \/ (cl.code # 0 /\ l.code # cl.code) THEN rest(Failed(cl))
                    ELSE IF l.more THEN [rest(cl) EXCEPT !.code = l.code]
                    ELSE [rest(Replied(l.code)) EXCEPT !.paired = @ /\ l.to \in {cl.pc, "any"}]
        /\ UNCHANGED transport
     \/ /\ cl.buf = <<>> /\ browser.chunks = <<>> /\ browser.ended
        /\ cl' = Failed(cl)
        /\ UNCHANGED transport
  /\ UNCHANGED <<cast, wire, sv>>

(* A timer may fire, early or late, wherever the cast has a fault to give.       *)
Late ==
  /\ Play.odd > 0
  /\ wire' = IF wire < Play.odd THEN wire + 1 ELSE wire

\* Mutant: a reply that never came leaves the connection in use.
MutTimedOut(c) == Failed(c)

(* Nothing is known of the replies after one that never came.                   *)
TimedOut(c) == Failed(Abandoned(c))

ReplyTimeout ==
  /\ cl.sub = "reply" /\ Late
  /\ cl' = TimedOut(cl)
  /\ UNCHANGED <<cast, transport, sv>>

(* A minute without an acknowledgement ends the connection, and so does a       *)
(* socket on which nothing moves.                                               *)
AckStall ==
  /\ Late
  /\ \/ cl.sub = "write" /\ cl.left # <<>> /\ ~browser.ended /\ ~MaySend(Head(cl.left))
     \/ cl.sub = "flush" /\ ~IsFlushed /\ ~browser.ended
  /\ EndTransport
  /\ UNCHANGED <<cast, cl, sv>>

Close ==
  /\ cl.pc = "bye" /\ cl.left = <<>>
  /\ EndTransport
  /\ cl' = [cl EXCEPT !.pc = "closed"]
  /\ UNCHANGED <<cast, wire, sv>>

----------------------------------------------------------------------------
(* The server: external.  It answers each line, and odd once in a while.        *)

Reply(code, to) == <<[code |-> code, more |-> FALSE, to |-> to]>>
Honest == [start |-> 220, ehlo |-> 250, plain |-> 235, login |-> 334, user |-> 334, pass |-> 235,
           mail |-> 250, rcpt |-> 252, data |-> 354, quit |-> 221, line |-> 500]
ReplyTo(cmd) ==
  CASE cmd = "ehlo" -> <<[code |-> 250, more |-> TRUE, to |-> "ehlo"]>> \o Reply(250, "ehlo")
    [] cmd = "bye" -> <<>>
    [] OTHER -> Reply(Honest[cmd], cmd)

Odd(cmd) ==
  {Reply(450, cmd), Reply(550, cmd), <<Junk>>, <<>>, Reply(299, cmd),
   <<[code |-> 250, more |-> TRUE, to |-> cmd]>> \o Reply(251, cmd)}

Answers(syms, mode, over) ==
  /\ sv' = [sv EXCEPT !.mode = mode]
  /\ tcp' = [tcp EXCEPT !.in = Tail(@), !.out = @ \o syms, !.over = over]

After(cmd) == IF cmd = "data" THEN "data" ELSE IF cmd \in {"quit", "bye"} THEN "gone" ELSE "cmd"

ServerGreets ==
  /\ sv.mode = "start" /\ ~tcp.dead /\ cl.pc # "open"
  /\ \/ /\ tcp' = [tcp EXCEPT !.out = Reply(220, "greeting")]
        /\ sv' = [sv EXCEPT !.mode = "cmd"] /\ UNCHANGED wire
     \/ /\ wire < Play.odd /\ wire' = wire + 1
        /\ \E syms \in {Reply(554, "greeting"), <<Junk>>, <<>>} :
             tcp' = [tcp EXCEPT !.out = syms, !.over = TRUE]
        /\ sv' = [sv EXCEPT !.mode = "gone"]
  /\ UNCHANGED <<cast, browser, up, down, relay, cl>>

ServerAnswers ==
  /\ sv.mode = "cmd" /\ tcp.in # <<>>
  /\ LET f == Head(tcp.in)
         cmd == IF "cmd" \in DOMAIN f THEN f.cmd ELSE "line"
     IN \/ /\ Answers(ReplyTo(cmd), After(cmd), cmd \in {"quit", "bye"})
           /\ UNCHANGED wire
        \/ /\ cmd # "bye" /\ wire < Play.odd
           /\ wire' = wire + 1
           /\ \E syms \in Odd(cmd), over \in BOOLEAN :
                Answers(syms, IF over THEN "gone" ELSE "cmd", over)
  /\ UNCHANGED <<cast, browser, up, down, relay, cl>>

Joins(lines) == lines # <<>> /\ ~lines[Len(lines)].lf
Read(lines, l) ==
  IF Joins(lines)
  THEN [lines EXCEPT ![Len(lines)].text = TRUE, ![Len(lines)].lf = l.lf]
  ELSE Append(lines, [l EXCEPT !.dots = IF @ > 0 THEN @ - 1 ELSE 0])

Took(really) == IF really THEN Append(sv.taken, sv.lines) ELSE sv.taken

EndsMessage(f) == "line" \in DOMAIN f /\ f.line = Dot /\ ~Joins(sv.lines)

(* A message it never saw end is one it discards.                               *)
ServerReadsMessage ==
  /\ sv.mode = "data" /\ tcp.in # <<>>
  /\ LET f == Head(tcp.in)
         said(syms, really, mode, over) ==
           /\ sv' = [sv EXCEPT !.mode = mode, !.taken = Took(really), !.lines = <<>>]
           /\ tcp' = [tcp EXCEPT !.in = Tail(@), !.out = @ \o syms, !.over = over]
     IN IF ~EndsMessage(f)
        THEN /\ IF "line" \in DOMAIN f THEN sv' = [sv EXCEPT !.lines = Read(@, f.line)]
                ELSE sv' = [sv EXCEPT !.mode = "gone"]
             /\ tcp' = [tcp EXCEPT !.in = Tail(@), !.over = "line" \notin DOMAIN f]
             /\ UNCHANGED wire
        ELSE \/ said(Reply(250, "answer"), TRUE, "cmd", FALSE) /\ UNCHANGED wire
             \/ /\ wire < Play.odd /\ wire' = wire + 1
                /\ \/ \E code \in {450, 550} : said(Reply(code, "answer"), FALSE, "cmd", FALSE)
                   \/ \E syms \in {Reply(354, "answer"), <<Junk>>, <<>>}, really, over \in BOOLEAN :
                        said(syms, really, IF over THEN "gone" ELSE "cmd", over)
  /\ UNCHANGED <<cast, browser, up, down, relay, cl>>

(* What reaches a server that has gone, or a socket that has, is lost.          *)
ServerLeaves ==
  /\ \/ sv.mode = "gone" /\ tcp.in # <<>>
     \/ sv.mode # "gone" /\ (tcp.dead \/ (tcp.fin /\ tcp.in = <<>>))
  /\ sv' = [sv EXCEPT !.mode = "gone"]
  /\ tcp' = [tcp EXCEPT !.in = <<>>, !.over = TRUE]
  /\ UNCHANGED <<cast, wire, browser, up, down, relay, cl>>

Fault ==
  /\ wire < Play.odd /\ wire' = wire + 1 /\ cl.pc # "open"
  /\ WsDrops \/ TcpDies
  /\ UNCHANGED <<cast, cl, sv>>

Client == Open \/ WriteFrame \/ WriteFails \/ Written \/ Flush \/ ReadLine \/ Close
Server == ServerGreets \/ ServerAnswers \/ ServerReadsMessage \/ ServerLeaves
Transport == Moves /\ UNCHANGED <<cast, wire, cl, sv>>
Settled == cl.pc = "closed"

(* A client that waits may find nothing new: SubmissionsSettle, not the deadlock *)
(* check, says that no wait is for ever.                                        *)
Rest == (Settled \/ cl.sub # "write") /\ UNCHANGED vars

Next == Client \/ Server \/ Transport \/ ReplyTimeout \/ AckStall \/ Fault \/ Rest

(* What is sent arrives and is read, the client goes on with it, and a timer    *)
(* that is running fires in the end.  Nothing has to fail.                      *)
Spec == Init /\ [][Next]_vars /\ WF_vars(Client) /\ WF_vars(Server) /\ WF_vars(Transport)
             /\ WF_vars(ReplyTimeout) /\ WF_vars(AckStall)

----------------------------------------------------------------------------
(* Properties.                                                                  *)

Submission == INSTANCE SubmitPromise
                WITH asked <- Ended1(Play.data), taken <- sv.taken,
                     answer <- IF Settled THEN cl.answer ELSE "none"

(* What the send machine is told is true and stays true: a refusal means the    *)
(* server took nothing and never will, a yes that it took these bytes.          *)
KeepsSubmitPromise == Submission!Spec

(* No reply is taken for the answer to another line, however late it comes.     *)
RepliesAreTheirs == cl.paired

(* What the relay took goes before its FIN.                                     *)
QueuedBytesGoFirst == tcp.fin /\ ~tcp.dead => relay.queued = 0

(* The relay carries all it accepts: its queue never overflows, and none of it   *)
(* is cut off by the FIN of a client that has said all.                         *)
RelayCarriesAll == NoUploadIsCut /\ QueuedBytesGoFirst

(* Every submission settles.  Over a network that works, with a server that      *)
(* answers, no timer may fire: then no write, flush or read waits for one.      *)
SubmissionsSettle == <>Settled
================================================================================
