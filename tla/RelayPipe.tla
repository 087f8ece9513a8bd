-------------------------------- MODULE RelayPipe --------------------------------
(* The bytes between a mail client and its server.  In the browser a WebSocket  *)
(* to the relay, which writes each frame to TCP in turn and acknowledges what   *)
(* it wrote; on the command line a socket of its own.  A frame is one TLS       *)
(* record, of a size; what is read back comes in any chunks.                    *)
EXTENDS Integers, Sequences, FiniteSets

CONSTANTS Casts,        \* which client and server meet; see SmtpSubmit
          Window,       \* WRITE_WINDOW_BYTES, 512 KiB in the code
          MaxQueued,    \* MAX_QUEUED_BYTES, 1 MiB
          AckBatch,     \* ACK_BATCH_BYTES, 64 KiB
          MaxFrame,     \* the largest TLS record
          SocketBuffer, \* frames TCP takes before the server reads
          Gone          \* a frame that says its end has closed

ASSUME WindowFits ==
  /\ Window \in Nat \ {0} /\ MaxFrame \in Nat \ {0} /\ MaxQueued \in Nat
  /\ AckBatch \in Nat /\ SocketBuffer \in Nat
  /\ Window - 1 + MaxFrame <= MaxQueued

VARIABLES cast,      \* the Casts this behaviour plays; never changes
          wire,      \* what of the connection's faults has happened
          browser,   \* the client's end: bytes sent and acknowledged, chunks read
          up, down,  \* the WebSocket's frames under way to the relay and back
          relay,     \* the relay's end: its queue and what it wrote
          tcp        \* the socket to the server, both ways

transport == <<browser, up, down, relay, tcp>>

Direct == Casts[cast].port = "direct"

TransportInit ==
  /\ browser = [ended |-> FALSE, sent |-> 0, acked |-> 0, chunks |-> <<>>]
  /\ up = <<>> /\ down = <<>>
  /\ relay = [wsClosed |-> Direct, ended |-> Direct, queue |-> <<>>, queued |-> 0, written |-> 0,
              acked |-> 0, read |-> IF Direct THEN "done" ELSE "reading", tooLarge |-> FALSE]
  /\ tcp = [in |-> <<>>, out |-> <<>>, fin |-> FALSE, over |-> FALSE, dead |-> FALSE]
  /\ wire = 0

----------------------------------------------------------------------------
(* The client's end.                                                            *)

Ended(b) == [b EXCEPT !.ended = TRUE]

(* end(): the WebSocket closes behind what was sent; the command line destroys  *)
(* its socket.                                                                  *)
EndTransport ==
  IF browser.ended THEN UNCHANGED transport
  ELSE /\ browser' = Ended(browser)
       /\ IF Direct THEN tcp' = [tcp EXCEPT !.dead = TRUE] /\ UNCHANGED up
          ELSE up' = Append(up, Gone) /\ UNCHANGED tcp
       /\ UNCHANGED <<down, relay>>

\* Mutant: a write goes whatever is unacknowledged.
MutMaySend(frame) == TRUE

(* A write goes once less than the window is unacknowledged; TCP takes it as    *)
(* the server makes room.                                                       *)
MaySend(frame) ==
  IF Direct THEN tcp.dead \/ Len(tcp.in) < SocketBuffer
  ELSE browser.sent - browser.acked < Window \/ browser.ended

(* `send` on a closing socket drops the bytes, so it is looked at first.        *)
IsClosing == browser.ended \/ (\E i \in DOMAIN down : down[i] = Gone) \/ (Direct /\ tcp.dead)

SendFrame(frame) ==
  /\ ~browser.ended
  /\ browser' = [browser EXCEPT !.sent = @ + frame.size]
  /\ IF Direct
     THEN /\ tcp' = IF tcp.dead THEN tcp ELSE [tcp EXCEPT !.in = Append(@, frame)]
          /\ UNCHANGED up
     ELSE up' = Append(up, frame) /\ UNCHANGED tcp
  /\ UNCHANGED <<down, relay>>

IsFlushed == Direct \/ browser.acked = browser.sent

(* A frame for the client: an acknowledgement, bytes, or the close.             *)
TakeDown ==
  /\ down # <<>>
  /\ down' = Tail(down)
  /\ LET d == Head(down)
     IN IF d = Gone
        THEN /\ browser' = Ended(browser)
             /\ up' = IF browser.ended THEN up ELSE Append(up, Gone)
        ELSE IF d.kind = "ack" /\ d.n > browser.sent
        THEN browser' = Ended(browser) /\ up' = Append(up, Gone)
        ELSE IF d.kind = "ack"
        THEN browser' = [browser EXCEPT !.acked = d.n] /\ UNCHANGED up
        ELSE browser' = [browser EXCEPT !.chunks = Append(@, d.syms)] /\ UNCHANGED up
  /\ UNCHANGED <<relay, tcp>>

(* The command line's socket hands on what arrives.                             *)
TakeSocket ==
  /\ Direct /\ ~browser.ended
  /\ IF tcp.out # <<>>
     THEN \E n \in 1..Len(tcp.out) :
            /\ browser' = [browser EXCEPT !.chunks = Append(@, SubSeq(tcp.out, 1, n))]
            /\ tcp' = [tcp EXCEPT !.out = SubSeq(@, n + 1, Len(@))]
     ELSE (tcp.over \/ tcp.dead) /\ browser' = Ended(browser) /\ UNCHANGED tcp
  /\ UNCHANGED <<up, down, relay>>

----------------------------------------------------------------------------
(* The relay: one chain of writes, one loop of reads.                           *)

CloseWs(r, d) == IF r.wsClosed THEN d ELSE Append(d, Gone)

\* Mutant: the acknowledgement of a tail waits for a batch.
MutAcknowledged(r) ==
  [due |-> ~r.wsClosed /\ r.written - r.acked >= AckBatch, n |-> r.written]

(* The running total, when the queue is drained or a batch has been written.    *)
Acknowledged(r) ==
  [due |-> ~r.wsClosed /\ r.written # r.acked
           /\ (r.queued = 0 \/ r.written - r.acked >= AckBatch),
   n |-> r.written]

\* Mutant: the end goes ahead of what is queued.
MutEndWriter(r) ==
  IF r.ended THEN r ELSE [r EXCEPT !.ended = TRUE, !.queue = <<Gone>> \o @]

(* FIN, once everything queued has been written.                                *)
EndWriter(r) ==
  IF r.ended THEN r ELSE [r EXCEPT !.ended = TRUE, !.queue = Append(@, Gone)]

(* The WebSocket closes, the writer is aborted and the socket closed.           *)
Abort(r) == [r EXCEPT !.wsClosed = TRUE, !.ended = TRUE]

RelayTakes ==
  /\ up # <<>>
  /\ up' = Tail(up)
  /\ LET f == Head(up)
     IN IF f = Gone
        THEN relay' = EndWriter([relay EXCEPT !.wsClosed = TRUE]) /\ UNCHANGED <<down, tcp>>
        ELSE IF relay.wsClosed \/ relay.ended THEN UNCHANGED <<relay, down, tcp>>
        ELSE IF relay.queued + f.size > MaxQueued
        THEN /\ relay' = [Abort(relay) EXCEPT !.tooLarge = TRUE]
             /\ down' = CloseWs(relay, down)
             /\ tcp' = [tcp EXCEPT !.dead = TRUE]
        ELSE /\ relay' = [relay EXCEPT !.queue = Append(@, f), !.queued = @ + f.size]
             /\ UNCHANGED <<down, tcp>>
  /\ UNCHANGED browser

RelayWrites ==
  /\ relay.queue # <<>> /\ Head(relay.queue) # Gone
  /\ tcp.dead \/ Len(tcp.in) < SocketBuffer
  /\ LET f == Head(relay.queue)
         rest == [relay EXCEPT !.queue = Tail(@), !.queued = @ - f.size]
         r == IF tcp.dead THEN (IF relay.ended THEN rest ELSE Abort(rest))
              ELSE [rest EXCEPT !.written = @ + f.size]
         ack == Acknowledged(r)
     IN /\ relay' = IF ack.due THEN [r EXCEPT !.acked = ack.n] ELSE r
        /\ down' = IF tcp.dead /\ ~relay.ended THEN CloseWs(relay, down)
                   ELSE IF ack.due THEN Append(down, [kind |-> "ack", n |-> ack.n]) ELSE down
        /\ tcp' = IF tcp.dead THEN tcp ELSE [tcp EXCEPT !.in = Append(@, f)]
  /\ UNCHANGED <<browser, up>>

RelayFins ==
  /\ relay.queue # <<>> /\ Head(relay.queue) = Gone
  /\ relay' = [relay EXCEPT !.queue = Tail(@)]
  /\ tcp' = IF tcp.dead THEN tcp ELSE [tcp EXCEPT !.fin = TRUE]
  /\ UNCHANGED <<browser, up, down>>

(* A send while the peer closes may throw, which ends the reading as a failure  *)
(* of the socket does.                                                          *)
MayThrow == \E i \in DOMAIN up : up[i] = Gone

ReadFailed ==
  /\ relay' = [relay EXCEPT !.read = "done", !.wsClosed = TRUE]
  /\ down' = CloseWs(relay, down)
  /\ tcp' = [tcp EXCEPT !.dead = TRUE]

RelayReads ==
  /\ relay.read = "reading"
  /\ tcp.out # <<>> /\ ~tcp.dead
  /\ \/ \E n \in 1..Len(tcp.out) :
          /\ tcp' = [tcp EXCEPT !.out = SubSeq(@, n + 1, Len(@))]
          /\ down' = IF relay.wsClosed THEN down
                     ELSE Append(down, [kind |-> "data", syms |-> SubSeq(tcp.out, 1, n)])
          /\ UNCHANGED relay
     \/ MayThrow /\ ~relay.wsClosed /\ ReadFailed
  /\ UNCHANGED <<browser, up>>

RelayReadEnds ==
  /\ relay.read = "reading"
  /\ \/ tcp.dead /\ ReadFailed
     \/ /\ ~tcp.dead /\ tcp.over /\ tcp.out = <<>>
        /\ relay' = [EndWriter(relay) EXCEPT !.read = "draining"]
        /\ UNCHANGED <<down, tcp>>
  /\ UNCHANGED <<browser, up>>

RelayEnds ==
  /\ relay.read = "draining" /\ relay.queue = <<>>
  /\ relay' = [relay EXCEPT !.read = "done", !.wsClosed = TRUE]
  /\ down' = CloseWs(relay, down)
  /\ tcp' = [tcp EXCEPT !.dead = TRUE]
  /\ UNCHANGED <<browser, up>>

----------------------------------------------------------------------------
(* Faults: external, as the code sees them.                                     *)

(* The WebSocket drops: what was under way on it is lost, both ways.            *)
WsDrops ==
  /\ ~Direct /\ ~browser.ended /\ ~relay.wsClosed
  /\ up' = <<Gone>> /\ down' = <<Gone>>
  /\ UNCHANGED <<browser, relay, tcp>>

TcpDies ==
  /\ ~tcp.dead
  /\ \E arrived \in BOOLEAN :
       tcp' = [tcp EXCEPT !.dead = TRUE, !.out = IF arrived THEN @ ELSE <<>>]
  /\ UNCHANGED <<browser, up, down, relay>>

Moves ==
  TakeDown \/ TakeSocket \/ RelayTakes \/ RelayWrites \/ RelayFins \/ RelayReads \/ RelayReadEnds
  \/ RelayEnds

----------------------------------------------------------------------------
(* Properties.                                                                  *)

(* The browser's window keeps the relay's queue under its limit, however slow   *)
(* the server reads: no upload is ever cut for its size.                        *)
NoUploadIsCut == ~relay.tooLarge /\ relay.queued <= MaxQueued
================================================================================
