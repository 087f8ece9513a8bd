--------------------------- MODULE TlsConnection ---------------------------
(***************************************************************************)
(* The connection startTls returns: read, write and close over one pair of *)
(* traffic keys in each direction, with tickets, KeyUpdates, warnings and  *)
(* empty records read between the data, and every record the client seals  *)
(* after the handshake going through one write queue.                      *)
(*                                                                         *)
(* Keys are a generation, bumped by a KeyUpdate, and a sequence number.    *)
(***************************************************************************)
EXTENDS TlsHandshake

CONSTANTS
  REKEY_AT,                    \* 2^24 records, small
  MAX_EMPTY, MAX_WARNINGS, MAX_UPDATES, MAX_TICKETS

VARIABLES
  conn,  \* the client's connection
  peer,  \* the host's side of it
  wire   \* up: every record the client sealed; down: records on their way

connVars == <<conn, peer, wire>>
vars == <<hsVars, connVars>>

NoConnection ==
  [gen |-> 0, seq |-> 0, keys |-> <<0, 0>>, rgen |-> 0, rseq |-> 0,
   owed |-> FALSE, peerClosed |-> FALSE, sentClose |-> FALSE,
   empties |-> 0, warnings |-> 0, updates |-> 0, tickets |-> 0, buffer |-> <<>>,
   gathering |-> FALSE,
   reading |-> FALSE, queue |-> <<>>, delivered |-> 0, aborted |-> "none", ended |-> "none",
   calls |-> 0]

NoPeer == [gen |-> 0, seq |-> 0, data |-> 0, sent |-> 0, closed |-> FALSE, since |-> <<>>, halved |-> FALSE,
           departs |-> FALSE]

NoWire == [up |-> <<>>, down |-> <<>>, cut |-> FALSE, broken |-> FALSE]

Up == hs.pc = "done"

-----------------------------------------------------------------------------
(* The host: records of application data, of handshake messages, alerts. *)

\* A fragment is the first half of a message; the next record opens with the other.
Payloads == {<<"data">>, <<"empty">>, <<"ticket">>, <<"update">>, <<"request">>, <<"ticket", "request">>,
             <<"half">>, <<"ticket", "half">>, <<"user_canceled">>, <<"fatal">>, <<"unknown">>,
             <<"close_notify">>, <<"other">>}

Handshakes == {"ticket", "update", "request", "half"}

Many(since) ==
  LET said(m) == Len(SelectSeq(since, LAMBDA k : k \in m)) IN
  \/ said({"empty"}) > MAX_EMPTY \/ said({"user_canceled"}) > MAX_WARNINGS
  \/ said({"update", "request"}) > MAX_UPDATES \/ said({"ticket"}) > MAX_TICKETS

PeerSends ==
  /\ Up /\ ~wire.cut /\ ~peer.closed /\ peer.sent < cast.most
  /\ \E payload \in cast.payloads :
       LET kinds == {payload[i] : i \in DOMAIN payload}
           bumps == kinds \cap {"update", "request"} # {}
           since == IF "data" \in kinds THEN <<>> ELSE peer.since \o payload IN
       /\ wire' = [wire EXCEPT !.down = Append(@, [gen |-> peer.gen, seq |-> peer.seq, payload |-> payload])]
       /\ peer' = [peer EXCEPT
            !.gen = IF bumps THEN @ + 1 ELSE @, !.seq = IF bumps THEN 0 ELSE @ + 1,
            !.sent = @ + 1, !.data = IF "data" \in kinds THEN @ + 1 ELSE @,
            !.closed = kinds \cap {"close_notify", "fatal", "unknown"} # {},
            !.since = since, !.halved = Last(payload) = "half",
            !.departs = @ \/ "other" \in kinds \/ Many(since)
                          \/ (peer.halved /\ payload[1] \notin Handshakes \ {"half"})]
  /\ UNCHANGED <<hsVars, conn>>

\* The transport ends: nothing more arrives, and a write fails or goes nowhere.
Cut ==
  /\ Up /\ cast.cuts /\ ~wire.cut
  /\ \E n \in 0..Len(wire.down) :
       wire' = [wire EXCEPT !.cut = TRUE, !.down = SubSeq(@, 1, n)]
  /\ UNCHANGED <<hsVars, conn, peer>>

BreakWrites ==
  /\ Up /\ cast.cuts /\ ~wire.broken
  /\ wire' = [wire EXCEPT !.broken = TRUE]
  /\ UNCHANGED <<hsVars, conn, peer>>

-----------------------------------------------------------------------------
(* The write queue: one job at a time, one record a step. *)

Job(kind, n) == [kind |-> kind, left |-> n, paid |-> kind = "alert", rolled |-> kind # "write"]

queueWrite(c, job) == [c EXCEPT !.queue = Append(@, job)]

\* A record sealed under key k, whether or not the transport takes it.
Seal(kind, k) == wire' = [wire EXCEPT !.up = Append(@, [kind |-> kind, gen |-> k[1], seq |-> k[2]])]

Now0 == <<conn.gen, conn.seq>>

Next1(c, job) == [c EXCEPT !.queue = <<job>> \o Tail(@)]

Done(c) == [c EXCEPT !.queue = Tail(@)]

\* Mutant: the sequence number runs on under the new key.
MutRotated(c) == [c EXCEPT !.gen = @ + 1, !.seq = @ + 1]

Rotated(c) == [c EXCEPT !.gen = @ + 1, !.seq = 0]

syncClientWriteKeys(c) == [c EXCEPT !.keys = <<c.gen, c.seq>>]

\* The KeyUpdate a request is owed, before anything else the job writes.
payKeyUpdateResponse(job) ==
  /\ ~job.paid
  /\ IF ~conn.owed THEN conn' = Next1(conn, [job EXCEPT !.paid = TRUE]) /\ UNCHANGED wire
     ELSE /\ Seal("update", Now0)
          /\ conn' = IF wire.broken THEN [Done(conn) EXCEPT !.owed = FALSE, !.seq = @ + 1]
                     ELSE syncClientWriteKeys(Rotated(
                            [Next1(conn, [job EXCEPT !.paid = TRUE]) EXCEPT !.owed = FALSE]))

\* A write rekeys past 2^24 records, once, and does not copy the new keys.
RollOver(job) ==
  /\ job.paid /\ ~job.rolled
  /\ IF conn.seq < REKEY_AT THEN conn' = Next1(conn, [job EXCEPT !.rolled = TRUE]) /\ UNCHANGED wire
     ELSE /\ Seal("update", Now0)
          /\ conn' = IF wire.broken THEN [Done(conn) EXCEPT !.seq = @ + 1]
                     ELSE Rotated(Next1(conn, [job EXCEPT !.rolled = TRUE]))

WriteRecord(job) ==
  /\ job.kind = "write" /\ job.paid /\ job.rolled
  /\ IF job.left = 0 THEN conn' = Done(conn) /\ UNCHANGED wire
     ELSE /\ Seal("data", Now0)
          /\ LET c == syncClientWriteKeys([conn EXCEPT !.seq = @ + 1]) IN
             conn' = IF wire.broken THEN Done(c) ELSE Next1(c, [job EXCEPT !.left = @ - 1])

SendCloseNotify(job) ==
  /\ job.kind = "close" /\ job.paid
  /\ Seal("close_notify", Now0)
  /\ conn' = Done(syncClientWriteKeys([conn EXCEPT !.seq = @ + 1]))

\* The alert goes under the copied keys, and only the copy moves on; then the read answers.
sendFatalAlert(job) ==
  /\ job.kind = "alert"
  /\ Seal("fatal", conn.keys)
  /\ conn' = [Done(conn) EXCEPT !.keys = <<@[1], @[2] + 1>>, !.reading = FALSE, !.ended = "alert-sent"]

RunJob ==
  /\ Up /\ conn.queue # <<>>
  /\ LET job == Head(conn.queue) IN
     \/ payKeyUpdateResponse(job) \/ RollOver(job) \/ WriteRecord(job)
     \/ SendCloseNotify(job) \/ sendFatalAlert(job)
  /\ UNCHANGED <<hsVars, peer>>

-----------------------------------------------------------------------------
(* write, close, read. *)

\* Mutant: writing ends only when close_notify is on the wire.
MutMayWrite == ~\E i \in DOMAIN wire.up : wire.up[i].kind = "close_notify"

MayWrite == ~conn.sentClose

CallWrite ==
  /\ Up /\ conn.calls < cast.calls /\ MayWrite
  /\ \E n \in cast.writes :
       conn' = [queueWrite(conn, Job("write", n)) EXCEPT !.calls = @ + 1]
  /\ UNCHANGED <<hsVars, peer, wire>>

CallClose ==
  /\ Up /\ conn.calls < cast.calls /\ ~conn.sentClose
  /\ conn' = [queueWrite(conn, Job("close", 0)) EXCEPT !.calls = @ + 1, !.sentClose = TRUE]
  /\ UNCHANGED <<hsVars, peer, wire>>

\* A read answers at once once the peer has closed; one is outstanding at a time.
CallRead ==
  /\ Up /\ ~conn.reading /\ conn.ended \in {"none", "data"}
  /\ conn' = IF conn.peerClosed THEN [conn EXCEPT !.ended = "closed"]
             ELSE [conn EXCEPT !.reading = TRUE, !.ended = "none"]
  /\ UNCHANGED <<hsVars, peer, wire>>

Answers(c, how) == [c EXCEPT !.reading = FALSE, !.ended = how]

abortWith(c, description) ==
  [queueWrite(c, Job("alert", 0)) EXCEPT !.aborted = IF @ = "none" THEN description ELSE @]

\* Mutant: delivered data leaves the ceilings where they were.
MutDelivered(c) == Answers([c EXCEPT !.delivered = @ + 1], "data")

\* Delivered data clears every ceiling.
Delivered(c) ==
  Answers([c EXCEPT !.delivered = @ + 1, !.empties = 0, !.warnings = 0, !.updates = 0, !.tickets = 0], "data")

\* One handshake message, whole.
TakeMessage(c, m) ==
  CASE m = "ticket" ->
         IF c.tickets + 1 > MAX_TICKETS THEN abortWith([c EXCEPT !.tickets = @ + 1], "unexpected_message")
         ELSE [c EXCEPT !.tickets = @ + 1]
    [] m \in {"update", "request"} ->
         IF c.updates + 1 > MAX_UPDATES THEN abortWith([c EXCEPT !.updates = @ + 1], "unexpected_message")
         ELSE [c EXCEPT !.updates = @ + 1, !.rgen = @ + 1, !.rseq = 0, !.owed = @ \/ m = "request"]
    [] OTHER -> abortWith(c, "unexpected_message")

\* extractNextHandshakeMessage: what is whole at the head of the buffer.
Whole(buffer) == IF buffer = <<>> THEN 0 ELSE IF buffer[1] # "half" THEN 1 ELSE IF Len(buffer) > 1 THEN 2 ELSE 0

Aborting == conn.queue # <<>> /\ \E i \in DOMAIN conn.queue : conn.queue[i].kind = "alert"

\* The session a ticket makes goes to the caller's store, the newest winning.
Kept(m) == LET t == Host.issues IN
           IF m = "ticket" /\ conn.tickets < MAX_TICKETS /\ sessionFromTicket(t, hs, clock) # NoSession
           THEN sessionFromTicket(t, hs, clock) ELSE store

ReadMessage ==
  /\ Up /\ conn.reading /\ ~Aborting /\ Whole(conn.buffer) # 0
  /\ LET n == Whole(conn.buffer)
         m == conn.buffer[n] IN
     /\ conn' = TakeMessage([conn EXCEPT !.buffer = SubSeq(@, n + 1, Len(@)), !.gathering = FALSE], m)
     /\ store' = Kept(m)
  /\ UNCHANGED <<cast, clock, hs, srv, net, checked, search, peer, wire>>

\* Mutant: the end of the transport is the end of the connection.
MutEof == "closed"

Eof == "truncated"

\* Mutant: the generation goes on, the sequence number with it.
MutOpens(c, r) == r.gen = c.rgen /\ r.seq >= c.rseq

Opens(c, r) == r.gen = c.rgen /\ r.seq = c.rseq

\* A record that is not part of a handshake message.
TakeRecord(c, kind) ==
  CASE kind = "data" -> Delivered(c)
    [] kind = "empty" ->
         IF c.empties + 1 > MAX_EMPTY THEN abortWith([c EXCEPT !.empties = @ + 1], "unexpected_message")
         ELSE [c EXCEPT !.empties = @ + 1]
    [] kind = "user_canceled" ->
         IF c.warnings + 1 > MAX_WARNINGS THEN abortWith([c EXCEPT !.warnings = @ + 1], "unexpected_message")
         ELSE [c EXCEPT !.warnings = @ + 1]
    [] kind = "close_notify" -> Answers([c EXCEPT !.peerClosed = TRUE], "closed")
    [] kind \in {"fatal", "unknown"} -> Answers(c, "alert-received")
    [] OTHER -> abortWith(c, "unexpected_message")

\* A record of handshake bytes; short of one message, only more of them may follow.
Gather(c, payload) ==
  LET buffer == c.buffer \o payload IN
  [c EXCEPT !.buffer = buffer, !.gathering = Whole(buffer) = 0]

ReadRecord ==
  /\ Up /\ conn.reading /\ ~Aborting /\ Whole(conn.buffer) = 0
  /\ IF wire.down = <<>>
     THEN wire.cut /\ conn' = Answers(conn, Eof) /\ UNCHANGED wire
     ELSE LET r == Head(wire.down)
              c == [conn EXCEPT !.rseq = @ + 1] IN
          /\ wire' = [wire EXCEPT !.down = Tail(@)]
          /\ conn' = IF ~Opens(conn, r) THEN abortWith(c, "bad_record_mac")
                     ELSE IF r.payload[1] \in Handshakes THEN Gather(c, r.payload)
                     ELSE IF conn.gathering THEN abortWith(c, "unexpected_message")
                     ELSE TakeRecord(c, r.payload[1])
  /\ UNCHANGED <<hsVars, peer>>

ConnectionStep ==
  PeerSends \/ Cut \/ BreakWrites \/ RunJob \/ CallWrite \/ CallClose \/ CallRead \/ ReadMessage \/ ReadRecord

-----------------------------------------------------------------------------
LastUpdate(i) == Max({0} \cup {j \in 1..(i - 1) : wire.up[j].kind = "update"})

(***************************************************************************)
(* What the client seals is what the host opens: until a fatal alert, and  *)
(* while the transport takes its records, each is the next under the keys  *)
(* the KeyUpdates before it made, across answers owed to the host's own    *)
(* updates, rollovers, writes and a close that race for the queue; and     *)
(* after close_notify there is nothing but a fatal alert.                  *)
(***************************************************************************)
WireInStep ==
  \A i \in DOMAIN wire.up :
    LET before == {wire.up[j].kind : j \in 1..(i - 1)}
        updates == {j \in 1..(i - 1) : wire.up[j].kind = "update"} IN
    /\ wire.up[i].kind # "fatal" /\ "fatal" \notin before /\ ~wire.broken
         => /\ wire.up[i].gen = Cardinality(updates)
            /\ wire.up[i].seq = i - 1 - LastUpdate(i)
    /\ wire.up[i].kind # "fatal" => "close_notify" \notin before

(***************************************************************************)
(* A host that keeps to the protocol is read to its end: no read fails on  *)
(* it, whatever mix of tickets, KeyUpdates, fragments, warnings and empty  *)
(* records it puts between its data, as long as the data comes; and a read *)
(* answers that the connection is closed only after the host's own         *)
(* close_notify and all of its data, never because the transport ended.    *)
(***************************************************************************)
HonestPeersAreServed ==
  /\ conn.aborted # "none" => peer.departs
  /\ conn.ended = "closed" => peer.closed /\ conn.delivered = peer.data
  /\ conn.delivered <= peer.data

(***************************************************************************)
(* Who keeps to the protocol gets through, from the first ClientHello to   *)
(* the last byte.                                                          *)
(***************************************************************************)
HonestHostsAreServed == HonestHostsAreTaken /\ HonestPeersAreServed

(***************************************************************************)
(* One AES-GCM key and nonce seal one record: "Through the write queue, or *)
(* one AES-GCM (key, nonce) can come to cover two plaintexts", as the code *)
(* says of the abort.  It does not hold: a fatal alert moves on the copy   *)
(* of the keys and not the sequence number the next write or close takes.  *)
(***************************************************************************)
OneNonceOneRecord ==
  \A i, j \in DOMAIN wire.up :
    i # j => <<wire.up[i].gen, wire.up[i].seq>> # <<wire.up[j].gen, wire.up[j].seq>>

=============================================================================
