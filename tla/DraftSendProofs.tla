-------------------------- MODULE DraftSendProofs --------------------------
(***************************************************************************)
(* DraftSend keeps its safety properties for every set of clients,         *)
(* messages and claims, and for every bound.                               *)
(*                                                                         *)
(* First the inductive invariant, in named parts.  It says what the code   *)
(* relies on but never states: what a runner's handle implies at each      *)
(* point of runSend, what a decided write was computed from, and that no   *)
(* two clients hold the same claim.                                        *)
(***************************************************************************)
EXTENDS DraftSend, TLAPS

IsRunning(c)  == task[c].pc \in Running
IsDecided(c)  == task[c].pc = "decided"
TakesOver(c)  == IsDecided(c) /\ task[c].kind \in TakeOvers
Submitting(c) == task[c].pc \in BeforeAnswer \cup AfterAnswer

\* A send whose message the server may yet be given.
InPlay(s) == s # None /\ s.state \in {"submitting", "unconfirmed"}

\* A record with a send to run: live, and with nothing else in play.
Claimed(r) ==
  /\ r.version > 0 /\ ~r.deleted
  /\ r.send # None /\ r.unconf = None /\ r.sentId = None

\* The vault row itself.
RowOK ==
  /\ row.version = 0 => row = NoRow
  /\ row.send = None \/ row.unconf = None
  /\ row.unconf # None => InPlay(row.unconf)
  /\ row.sentId # None => row.deleted /\ row.send = None /\ row.unconf = None
  /\ row.deleted /\ row.send # None => row.send.state = "submitting"
  /\ row.send # None => row.send.msg \in minted
  /\ row.unconf # None => row.unconf.msg \in minted
  /\ RecordIsTruthful

\* A runner's handle: what its point in runSend says of the send.
HandleOK(c) ==
  LET h == task[c].row
  IN IsRunning(c) =>
       /\ Claimed(h)
       /\ h.send.op \in used
       /\ h.send.msg \in minted
       /\ row.version = 0 \/ h.version <= row.version
       /\ h.version = row.version => h = row
       /\ Submitting(c) => h.send.state = "submitting" /\ h.send.op \in asked
       /\ task[c].pc \in Copying => h.send.state = "submitted"
       /\ task[c].pc = "complete" => h.send.state = "copied"
       /\ task[c].pc \in {"accepted", "complete"} \cup Copying
            => delivered[h.send.msg] > 0
       /\ task[c].pc \in {"copied", "complete"}
            => copies[h.send.msg] > 0 \/ home = "removed"
       /\ task[c].pc = "submit" => submissions[h.send.op] = 0

\* The write a decided operation has ready, against the row it read.
Fits(k, r) ==
  /\ Live(row)
  /\ r.sentId = None <=> k \in TakeOvers \cup {"unconfirm", "delete"}
  /\ k \in TakeOvers =>
       \/ row.send # None /\ r.send.msg = row.send.msg
       \/ row.unconf # None /\ r.send.msg = row.unconf.msg
  /\ k \in TakeOvers /\ isAccepted(row.send)
       => r.send.state = row.send.state
  /\ k \in TakeOvers /\ isAccepted(r.send)
       => isAccepted(row.send) /\ r.send.state = row.send.state
  /\ k = "unconfirm" =>
       /\ row.send # None /\ InPlay(row.send)
       /\ r.send = None /\ r.unconf = row.send /\ ~r.deleted
  /\ k = "finish" =>
       isAccepted(row.send) /\ r = tombstoneOfSent(row, row.send.msg, TRUE)
  /\ k = "settle" =>
       \E s \in {row.send, row.unconf} :
         /\ s # None /\ InPlay(s) /\ copies[s.msg] > 0
         /\ r = tombstoneOfSent(row, s.msg, FALSE)
  /\ k = "delete" =>
       /\ r = [Bump(row) EXCEPT !.deleted = TRUE]
       /\ row.unconf = None
       /\ row.send # None => row.send.state = "submitting"

DecidedOK(c) ==
  LET r == task[c].row
      k == task[c].kind
  IN IsDecided(c) =>
       /\ k # "none"
       /\ r.version > 1
       /\ row.version = 0 \/ r.version <= row.version + 1
       /\ r.version = row.version + 1 => Fits(k, r)
       /\ k \in TakeOvers =>
            /\ Claimed(r)
            /\ r.send.state # "unconfirmed"
            /\ r.send.op \in used
            /\ r.send.msg \in minted
            /\ submissions[r.send.op] = 0
            /\ isAccepted(r.send) => delivered[r.send.msg] > 0
            /\ r.send.state = "copied"
                 => copies[r.send.msg] > 0 \/ home = "removed"
            /\ k = "resume" => isAccepted(r.send)

\* No two clients hold one claim, nor one version.
Owned ==
  \A c, d \in Clients :
    c # d =>
      /\ (IsRunning(c) \/ TakesOver(c)) /\ (IsRunning(d) \/ TakesOver(d))
           => Op(c) # Op(d)
      /\ IsRunning(c) /\ IsRunning(d)
           => task[c].row.version # task[d].row.version

\* What the mail servers hold was minted and delivered first.
MailOK ==
  \A m \in Messages :
    /\ delivered[m] > 0 \/ wire[m] > 0 => m \in minted
    /\ copies[m] > 0 \/ late[m] > 0 => delivered[m] > 0

SubmissionsOK ==
  /\ asked \subseteq used
  /\ \A o \in Ops :
       /\ submissions[o] > 0 => o \in used /\ o \in asked
       /\ submissions[o] <= 1

\* A message not sent again has one runner, and until that runner has the
\* server's answer nothing of it is out.
OnlyTry ==
  \A c \in Clients :
    Submitting(c) /\ Msg(c) \notin again =>
      /\ \A d \in Clients : Submitting(d) /\ Msg(d) = Msg(c) => c = d
      /\ task[c].pc \in BeforeAnswer \cup {"refused"}
           => delivered[Msg(c)] = 0 /\ wire[Msg(c)] = 0

\* The record remembers every message still in play.
Remembered ==
  \A m \in Messages :
    row.version > 0 /\ (MayBeOut(m) \/ \E c \in Clients : Submitting(c) /\ Msg(c) = m)
      => Mentions(row, m) \/ m \in letGo \cup again

(***************************************************************************)
(* Every handle, decided write and record is what the next compare-and-    *)
(* swap takes it to be: the facts runSend relies on between its awaits.    *)
(***************************************************************************)
IInv ==
  /\ TypeOK
  /\ RowOK
  /\ \A c \in Clients : HandleOK(c)
  /\ \A c \in Clients : DecidedOK(c)
  /\ Owned
  /\ MailOK
  /\ SubmissionsOK
  /\ OnlyTry
  /\ Remembered

-----------------------------------------------------------------------------
(* What the record's operators return. *)

\* A bumped record differs in its version alone.
LEMMA BumpFields ==
  ASSUME NEW r \in Rows
  PROVE  /\ Bump(r) \in Rows
         /\ Bump(r).version = r.version + 1
         /\ Bump(r).deleted = r.deleted /\ Bump(r).send = r.send
         /\ Bump(r).unconf = r.unconf /\ Bump(r).sentId = r.sentId
         /\ Bump(r).noCopy = r.noCopy
  BY DEF Bump, Rows

\* An advanced send keeps its message and its claim.
LEMMA AdvanceFields ==
  ASSUME NEW r \in Rows, r.send # None, NEW st \in States
  PROVE  LET a == advanceSend(r, st)
         IN /\ a \in Rows
            /\ a.version = r.version + 1
            /\ a.deleted = r.deleted /\ a.unconf = r.unconf
            /\ a.sentId = r.sentId /\ a.noCopy = r.noCopy
            /\ a.send # None /\ a.send.msg = r.send.msg
            /\ a.send.op = r.send.op /\ a.send.state = st
<1> DEFINE s == [r.send EXCEPT !.state = st]
<1>1. r.send \in Sends
  BY DEF Rows
<1>2. s \in Sends /\ s.msg = r.send.msg /\ s.op = r.send.op /\ s.state = st
  BY <1>1 DEF Sends
<1>3. s # None
  BY <1>2, ConstantsAssumption
<1> DEFINE b == Bump(r)
           a == advanceSend(r, st)
<1>4. /\ b \in Rows /\ b.version = r.version + 1 /\ b.send = r.send
      /\ b.deleted = r.deleted /\ b.unconf = r.unconf /\ b.sentId = r.sentId
      /\ b.noCopy = r.noCopy
  BY BumpFields
<1>5. a = [b EXCEPT !.send.state = st]
  BY DEF advanceSend
<1> HIDE DEF a, b
<1>6. a = [b EXCEPT !.send = s]
  BY <1>4, <1>5
<1> HIDE DEF s
<1>7. /\ a \in Rows
      /\ a.version = r.version + 1 /\ a.send = s /\ a.deleted = r.deleted
      /\ a.unconf = r.unconf /\ a.sentId = r.sentId /\ a.noCopy = r.noCopy
  BY <1>2, <1>4, <1>6 DEF Rows
<1> QED
  BY <1>2, <1>3, <1>7 DEF a

\* A released record has no send and differs in nothing else but its version.
LEMMA ReleaseFields ==
  ASSUME NEW r \in Rows
  PROVE  /\ releaseSend(r) \in Rows
         /\ releaseSend(r).version = r.version + 1
         /\ releaseSend(r).deleted = r.deleted /\ releaseSend(r).unconf = r.unconf
         /\ releaseSend(r).sentId = r.sentId /\ releaseSend(r).noCopy = r.noCopy
         /\ releaseSend(r).send = None
<1> DEFINE b == Bump(r)
<1>1. /\ b \in Rows /\ b.version = r.version + 1
      /\ b.deleted = r.deleted /\ b.unconf = r.unconf /\ b.sentId = r.sentId
      /\ b.noCopy = r.noCopy
  BY BumpFields
<1>2. releaseSend(r) = [b EXCEPT !.send = None]
  BY DEF releaseSend
<1> HIDE DEF b
<1> QED
  BY <1>1, <1>2 DEF Rows

\* A tombstone names the message that went out and carries no send.
LEMMA TombstoneFields ==
  ASSUME NEW r \in Rows, NEW m \in Messages, NEW w \in BOOLEAN
  PROVE  LET a == tombstoneOfSent(r, m, w)
         IN /\ a \in Rows
            /\ a.version = r.version + 1
            /\ a.deleted = TRUE /\ a.unconf = None /\ a.send = None
            /\ a.sentId = m /\ a.noCopy = w
<1> DEFINE b == Bump(r)
<1>1. b \in Rows /\ b.version = r.version + 1
  BY BumpFields
<1>2. tombstoneOfSent(r, m, w) =
        [b EXCEPT !.send = None, !.unconf = None, !.deleted = TRUE,
                  !.sentId = m, !.noCopy = w]
  BY DEF tombstoneOfSent
<1> HIDE DEF b
<1> QED
  BY <1>1, <1>2 DEF Rows

\* A handle with a send names a message and a claim.
LEMMA SendFields ==
  ASSUME NEW r \in Rows, r.send # None
  PROVE  r.send \in Sends /\ r.send.msg \in Messages /\ r.send.op \in Ops
         /\ r.send.state \in States
  BY DEF Rows, Sends

\* An absent row has the type of a row.
LEMMA NoRowType == NoRow \in Rows
  BY DEF NoRow, Rows

\* No message, claim or send is the absent one.
LEMMA NoneApart == None \notin Messages /\ None \notin Ops /\ None \notin Sends
  BY ConstantsAssumption

-----------------------------------------------------------------------------
(* What a step leaves of the other clients' tasks. *)

\* What every step does to the facts a handle rests on: they only grow.
Grows ==
  /\ used \subseteq used' /\ minted \subseteq minted' /\ asked \subseteq asked'
  /\ \A m \in Messages : delivered[m] > 0 => delivered'[m] > 0
  /\ \A m \in Messages : copies[m] > 0 => copies'[m] > 0
  /\ home = "removed" => home' = "removed"

\* What every step does to the row: nothing, the next version, or the purge.
RowMoves ==
  \/ row' = row
  \/ row' = NoRow
  \/ row.version > 0 /\ row'.version = row.version + 1

\* A client that stays where it is keeps a handle in order.
LEMMA HandleKept ==
  ASSUME TypeOK, TypeOK', Grows, RowMoves, NEW d \in Clients,
         task'[d] = task[d], HandleOK(d),
         IsRunning(d) => submissions'[Op(d)] = submissions[Op(d)]
  PROVE  HandleOK(d)'
<1> SUFFICES ASSUME IsRunning(d) PROVE HandleOK(d)'
  BY DEF HandleOK, IsRunning
<1> DEFINE h == task[d].row
<1>1. h \in Rows /\ row \in Rows /\ row' \in Rows
  BY DEF TypeOK
<1>2. Claimed(h) /\ h.send \in Sends /\ h.send.msg \in Messages /\ h.send.op \in Ops
  BY <1>1, SendFields DEF HandleOK, Claimed
<1>3. row'.version = 0 \/ h.version <= row'.version
  BY <1>1, <1>2 DEF HandleOK, RowMoves, NoRow, Rows, Claimed
<1>4. h.version = row'.version => h = row'
  BY <1>1, <1>2 DEF HandleOK, RowMoves, NoRow, Rows, Claimed
<1>5. Op(d) = h.send.op /\ task'[d].row = h /\ task'[d].pc = task[d].pc
  BY DEF Op
<1> HIDE DEF h
<1> QED
  BY <1>2, <1>3, <1>4, <1>5 DEF HandleOK, Grows, IsRunning, Submitting, Claimed, h

\* A client that stays where it is keeps its decided write in order.
LEMMA DecidedKept ==
  ASSUME TypeOK, TypeOK', Grows, RowMoves, NEW d \in Clients,
         task'[d] = task[d], DecidedOK(d),
         TakesOver(d) => submissions'[Op(d)] = submissions[Op(d)]
  PROVE  DecidedOK(d)'
<1> SUFFICES ASSUME IsDecided(d) PROVE DecidedOK(d)'
  BY DEF DecidedOK, IsDecided
<1> DEFINE r == task[d].row
           k == task[d].kind
<1>1. r \in Rows /\ row \in Rows /\ row' \in Rows
  BY DEF TypeOK
<1>2. r.version > 1 /\ (row.version = 0 \/ r.version <= row.version + 1)
  BY DEF DecidedOK
<1>3. row'.version = 0 \/ r.version <= row'.version + 1
  BY <1>1, <1>2 DEF RowMoves, NoRow, Rows
<1>4. r.version = row'.version + 1 => row' = row
  BY <1>1, <1>2 DEF RowMoves, NoRow, Rows
<1>5. r.version = row'.version + 1 => Fits(k, r)'
  <2> SUFFICES ASSUME r.version = row'.version + 1 PROVE Fits(k, r)'
    OBVIOUS
  <2>1. row' = row /\ Fits(k, r)
    BY <1>4 DEF DecidedOK
  <2>2. \A s \in {row.send, row.unconf} : s # None => s.msg \in Messages
    BY <1>1 DEF Rows, Sends
  <2>3. r' = r /\ k' = k
    OBVIOUS
  <2> HIDE DEF r, k
  <2> QED
    BY <2>1, <2>2, <2>3 DEF Fits, Grows, Live, InPlay, isAccepted, tombstoneOfSent, Bump
<1>6. k \in TakeOvers => Claimed(r) /\ r.send.msg \in Messages /\ r.send.op \in Ops
  BY <1>1, SendFields DEF DecidedOK, Claimed
<1>7. task'[d].row = r /\ task'[d].kind = k /\ task'[d].pc = task[d].pc
      /\ Op(d) = r.send.op
  BY DEF Op
<1> HIDE DEF r, k
<1> QED
  BY <1>2, <1>3, <1>5, <1>6, <1>7
     DEF DecidedOK, Grows, IsDecided, TakesOver, Claimed, isAccepted, r, k

\* Client c moves, every other client stays where it is.
OnlyMoves(c) == \A d \in Clients \ {c} : task'[d] = task[d]

\* A message in play: out, or with a client that may send it.
Active(m) == MayBeOut(m) \/ \E c \in Clients : Submitting(c) /\ Msg(c) = m

Holds(c) == IsRunning(c) \/ TakesOver(c)

\* A claim in hand is one that was minted, and the record has its shape.
LEMMA HoldsFields ==
  ASSUME TypeOK, NEW c \in Clients, HandleOK(c), DecidedOK(c), Holds(c)
  PROVE  /\ Claimed(task[c].row)
         /\ Op(c) \in used /\ Op(c) \in Ops
         /\ Msg(c) \in minted /\ Msg(c) \in Messages
         /\ task[c].row \in Rows /\ task[c].row.send \in Sends
<1>1. task[c].row \in Rows
  BY DEF TypeOK
<1>2. Claimed(task[c].row) /\ Op(c) \in used /\ Msg(c) \in minted
  BY DEF HandleOK, DecidedOK, Holds, IsRunning, TakesOver, IsDecided, Op, Msg
<1> QED
  BY <1>1, <1>2, SendFields DEF Claimed, Op, Msg

\* A record left alone stays in order.
LEMMA RowKept ==
  ASSUME RowOK, Grows, TypeOK, row' = row
  PROVE  RowOK'
<1>1. \A s \in {row.send, row.unconf} : s # None => s.msg \in Messages
  BY DEF TypeOK, Rows, Sends
<1>2. row.sentId # None => row.sentId \in Messages
  BY DEF TypeOK, Rows
<1> QED
  BY <1>1, <1>2 DEF RowOK, Grows, RecordIsTruthful, InPlay, isAccepted

\* Only a fresh claim, or the next version, enters a client's hands.
LEMMA OwnedKept ==
  ASSUME IInv, NEW c \in Clients, OnlyMoves(c),
         Holds(c)' => \/ Holds(c) /\ Op(c)' = Op(c)
                      \/ Op(c)' \notin used,
         IsRunning(c)' => \/ IsRunning(c) /\ task'[c].row.version = task[c].row.version
                          \/ row.version > 0 /\ task'[c].row.version = row.version + 1
  PROVE  Owned'
<1>1. ASSUME NEW d \in Clients, d # c
      PROVE  /\ Holds(d)' = Holds(d) /\ Op(d)' = Op(d) /\ IsRunning(d)' = IsRunning(d)
             /\ task'[d].row.version = task[d].row.version
  BY <1>1 DEF OnlyMoves, Holds, IsRunning, TakesOver, IsDecided, Op
<1>2. ASSUME NEW d \in Clients, d # c, Holds(c)', Holds(d)
      PROVE  Op(c)' # Op(d)
  BY <1>2, HoldsFields DEF IInv, Owned, Holds
<1>3. ASSUME NEW d \in Clients, d # c, IsRunning(c)', IsRunning(d)
      PROVE  task'[c].row.version # task[d].row.version
  <2>1. row.version > 0 => task[d].row.version <= row.version
    BY <1>3 DEF IInv, HandleOK, IsRunning
  <2>2. row.version \in Nat /\ task[d].row.version \in Nat
    BY DEF IInv, TypeOK, Rows
  <2> QED
    BY <1>3, <2>1, <2>2 DEF IInv, Owned
<1> QED
  BY <1>1, <1>2, <1>3 DEF Owned, IInv, Holds

\* A message not sent again keeps its one runner.
LEMMA OnlyTryKept ==
  ASSUME IInv, NEW c \in Clients, OnlyMoves(c), again \subseteq again',
         Submitting(c)' => \/ Submitting(c) /\ Msg(c)' = Msg(c)
                           \/ Msg(c)' \in again'
                           \/ Msg(c)' \notin minted,
         \A m \in Messages :
           delivered[m] = 0 /\ wire[m] = 0
             => (delivered'[m] = 0 /\ wire'[m] = 0) \/ (Submitting(c) /\ m = Msg(c)),
         Submitting(c)' /\ task'[c].pc \in BeforeAnswer \cup {"refused"}
             /\ Msg(c)' \notin again'
           => delivered'[Msg(c)'] = 0 /\ wire'[Msg(c)'] = 0
  PROVE  OnlyTry'
<1>1. ASSUME NEW d \in Clients, d # c
      PROVE  /\ Submitting(d)' = Submitting(d) /\ Msg(d)' = Msg(d)
             /\ task'[d].pc = task[d].pc
  BY <1>1 DEF OnlyMoves, Submitting, Msg
<1>2. ASSUME NEW d \in Clients, Submitting(d)
      PROVE  Msg(d) \in minted /\ Msg(d) \in Messages
  BY <1>2, HoldsFields DEF IInv, Submitting, Holds, IsRunning, Running
<1>3. ASSUME NEW d \in Clients, d # c, Submitting(d), Msg(d) \notin again'
      PROVE  /\ Submitting(c)' => Msg(c)' # Msg(d)
             /\ task[d].pc \in BeforeAnswer \cup {"refused"}
                  => delivered'[Msg(d)] = 0 /\ wire'[Msg(d)] = 0
  BY <1>2, <1>3 DEF IInv, OnlyTry
<1> QED
  BY <1>1, <1>2, <1>3 DEF IInv, OnlyTry

\* The record remembers whatever a step puts in play.
LEMMA RememberedKept ==
  ASSUME IInv, NEW c \in Clients,
         letGo \subseteq letGo', again \subseteq again',
         row'.version > 0 => row.version > 0,
         \A m \in Messages :
           row'.version > 0 /\ Active(m)' =>
             \/ Active(m) /\ (Mentions(row, m) => Mentions(row', m))
             \/ Mentions(row', m)
             \/ m \in letGo' \cup again'
  PROVE  Remembered'
<1>1. \A m \in Messages : row.version > 0 /\ Active(m)
        => Mentions(row, m) \/ m \in letGo \cup again
  BY DEF IInv, Remembered, Active
<1> SUFFICES ASSUME NEW m \in Messages, row'.version > 0, Active(m)'
             PROVE  Mentions(row', m) \/ m \in letGo' \cup again'
  BY DEF Remembered, Active, Mentions
<1> QED
  BY <1>1

\* A step of client c preserves the invariant if it keeps c's part and the shared parts.
LEMMA ActInv ==
  ASSUME IInv, NEW c \in Clients, OnlyMoves(c), TypeOK', Grows, RowMoves,
         RowOK', HandleOK(c)', DecidedOK(c)',
         \A o \in Ops : submissions'[o] = submissions[o] \/ (Holds(c) /\ o = Op(c)),
         Owned', MailOK', SubmissionsOK', OnlyTry', Remembered'
  PROVE  IInv'
<1>1. ASSUME NEW d \in Clients, d # c, Holds(d)
      PROVE  submissions'[Op(d)] = submissions[Op(d)]
  BY <1>1, HoldsFields DEF IInv, Owned, Holds
<1>2. ASSUME NEW d \in Clients, d # c PROVE HandleOK(d)' /\ DecidedOK(d)'
  BY <1>1, <1>2, HandleKept, DecidedKept DEF IInv, OnlyMoves, Holds
<1> QED
  BY <1>2 DEF IInv

-----------------------------------------------------------------------------
(* Steps that leave the record alone. *)

\* What every step that leaves the record alone shares: no claim is minted or
\* asked for, what the servers hold only grows, and nothing new is in play.
RowRests ==
  /\ row' = row /\ TypeOK'
  /\ UNCHANGED <<minted, asked, again, letGo>>
  /\ Grows /\ MailOK'
  /\ \A m \in Messages : Active(m)' => Active(m)

\* A runner goes from one point of runSend to another.
LEMMA GotoInv ==
  ASSUME IInv, NEW c \in Clients, NEW p \in Running,
         IsRunning(c), task' = [task EXCEPT ![c].pc = p],
         RowRests, UNCHANGED used,
         p \notin {"submit", "complete"},
         p \in BeforeAnswer \cup AfterAnswer => Submitting(c),
         p \in Copying => task[c].pc \in Copying,
         p = "accepted" => delivered'[Msg(c)] > 0,
         p = "copied" => copies'[Msg(c)] > 0 \/ home' = "removed",
         \A o \in Ops : submissions'[o] = submissions[o] \/ o = Op(c),
         SubmissionsOK',
         \A m \in Messages :
           delivered[m] = 0 /\ wire[m] = 0
             => (delivered'[m] = 0 /\ wire'[m] = 0) \/ (Submitting(c) /\ m = Msg(c)),
         p \in {"await", "refused"} /\ Msg(c) \notin again
           => delivered'[Msg(c)] = 0 /\ wire'[Msg(c)] = 0
  PROVE  IInv'
<1>1. /\ task'[c].pc = p /\ task'[c].row = task[c].row /\ task'[c].kind = task[c].kind
      /\ OnlyMoves(c)
  BY DEF IInv, TypeOK, OnlyMoves
<1>2. IsRunning(c)' /\ Holds(c) /\ Holds(c)' /\ Op(c)' = Op(c) /\ Msg(c)' = Msg(c)
  BY <1>1 DEF Holds, IsRunning, Op, Msg
<1>3. ~IsDecided(c)'
  BY <1>1 DEF IsDecided, Running, BeforeAnswer, AfterAnswer, Copying
<1>4. Msg(c) \in Messages /\ Op(c) \in Ops /\ Op(c) \in used /\ Msg(c) \in minted
      /\ Claimed(task[c].row)
  BY <1>2, HoldsFields DEF IInv
<1>5. HandleOK(c)'
  BY <1>1, <1>2, <1>4
     DEF IInv, HandleOK, RowRests, Grows, IsRunning, Submitting, Claimed, Op, Msg,
         Running, BeforeAnswer, AfterAnswer, Copying
<1>6. DecidedOK(c)'
  BY <1>3 DEF DecidedOK, IsDecided
<1>7. Owned'
  BY <1>1, <1>2, OwnedKept
<1>8. Submitting(c)' => Submitting(c)
  BY <1>1 DEF Submitting
<1>9. OnlyTry'
  BY <1>1, <1>2, <1>8, OnlyTryKept DEF RowRests, BeforeAnswer
<1>10. Remembered'
  BY RememberedKept DEF RowRests, Mentions
<1>11. RowOK'
  BY RowKept DEF RowRests, IInv
<1>12. TypeOK' /\ Grows /\ RowMoves /\ MailOK'
  BY DEF RowRests, RowMoves
<1>13. \A o \in Ops : submissions'[o] = submissions[o] \/ (Holds(c) /\ o = Op(c))
  BY <1>2
<1> QED
  BY <1>1, <1>5, <1>6, <1>7, <1>9, <1>10, <1>11, <1>12, <1>13, ActInv

\* A client gives up: it crashed, or its write was refused or lost.
LEMMA StopInv ==
  ASSUME IInv, NEW c \in Clients, Stop(c),
         RowRests, UNCHANGED <<used, submissions>>,
         \A m \in Messages :
           delivered[m] = 0 /\ wire[m] = 0
             => (delivered'[m] = 0 /\ wire'[m] = 0) \/ (Submitting(c) /\ m = Msg(c))
  PROVE  IInv'
<1>1. task'[c] = Idle /\ OnlyMoves(c)
  BY DEF IInv, TypeOK, OnlyMoves, Stop
<1>2. ~IsRunning(c)' /\ ~IsDecided(c)' /\ ~Holds(c)' /\ ~Submitting(c)'
  BY <1>1 DEF Idle, IsRunning, IsDecided, Holds, TakesOver, Submitting,
     Running, BeforeAnswer, AfterAnswer, Copying
<1>3. HandleOK(c)' /\ DecidedOK(c)'
  BY <1>2 DEF HandleOK, DecidedOK
<1>4. Owned'
  BY <1>1, <1>2, OwnedKept
<1>5. OnlyTry'
  BY <1>1, <1>2, OnlyTryKept DEF RowRests
<1>6. Remembered'
  BY RememberedKept DEF RowRests, Mentions
<1>7. RowOK'
  BY RowKept DEF RowRests, IInv
<1>8. TypeOK' /\ Grows /\ RowMoves /\ MailOK'
  BY DEF RowRests, RowMoves
<1>9. SubmissionsOK'
  BY DEF IInv, SubmissionsOK, RowRests
<1> QED
  BY <1>1, <1>3, <1>4, <1>5, <1>6, <1>7, <1>8, <1>9, ActInv

\* No client moves: time, the mail servers, the address.
LEMMA QuietInv ==
  ASSUME IInv, UNCHANGED task, RowRests, UNCHANGED <<used, submissions>>,
         \A m \in Messages :
           delivered[m] = 0 /\ wire[m] = 0 => delivered'[m] = 0 /\ wire'[m] = 0
  PROVE  IInv'
<1>1. TypeOK' /\ Grows /\ RowMoves /\ MailOK'
  BY DEF RowRests, RowMoves
<1>2. \A d \in Clients : HandleOK(d)' /\ DecidedOK(d)'
  BY <1>1, HandleKept, DecidedKept DEF IInv
<1>3. Owned'
  BY DEF IInv, Owned, IsRunning, TakesOver, IsDecided, Op
<1>4. OnlyTry'
  <2>1. \A d \in Clients : Submitting(d) => Msg(d) \in Messages
    BY HoldsFields DEF IInv, Submitting, Holds, IsRunning, Running
  <2>2. \A d \in Clients : Submitting(d)' = Submitting(d) /\ Msg(d)' = Msg(d)
    BY DEF Submitting, Msg
  <2> QED
    BY <2>1, <2>2 DEF IInv, OnlyTry, RowRests
<1>5. Remembered'
  BY DEF IInv, Remembered, RowRests, Mentions, Active
<1>6. RowOK'
  BY <1>1, RowKept DEF RowRests, IInv
<1>7. SubmissionsOK'
  BY DEF IInv, SubmissionsOK, RowRests
<1> QED
  BY <1>1, <1>2, <1>3, <1>4, <1>5, <1>6, <1>7 DEF IInv

\* A client reads the row and the lease and has its write ready.
LEMMA DecideInv ==
  ASSUME IInv, NEW c \in Clients, NEW k \in Kinds \ {"none"}, NEW r \in Rows,
         task[c].pc = "idle", Decide(c, k, r),
         RowRests, UNCHANGED <<submissions, home, delivered, wire, copies>>,
         r.version = row.version + 1, Fits(k, r),
         k \in TakeOvers =>
            /\ Claimed(r)
            /\ r.send.state # "unconfirmed"
            /\ r.send.op \in used' \ used
            /\ k = "resume" => isAccepted(r.send)
  PROVE  IInv'
<1>1. task'[c] = [pc |-> "decided", kind |-> k, row |-> r] /\ OnlyMoves(c)
  BY DEF IInv, TypeOK, OnlyMoves, Decide
<1>2. /\ ~IsRunning(c)' /\ IsDecided(c)' /\ ~Submitting(c)' /\ ~Holds(c)
      /\ TakesOver(c)' <=> k \in TakeOvers
  BY <1>1 DEF IsRunning, IsDecided, Holds, TakesOver, Submitting,
     Running, BeforeAnswer, AfterAnswer, Copying
<1>3. row \in Rows /\ row.version > 0
  BY DEF IInv, TypeOK, Fits, Live
<1>4. k \in TakeOvers => r.send \in Sends /\ r.send.msg \in Messages /\ r.send.op \in Ops
  BY SendFields DEF Claimed
<1>5. HandleOK(c)'
  BY <1>2 DEF HandleOK
<1>6. Fits(task[c].kind, task[c].row)'
  <2>1. row' = row /\ copies' = copies
    BY DEF RowRests
  <2> QED
    BY <1>1, <2>1 DEF Fits, Live, InPlay, isAccepted, tombstoneOfSent, Bump
<1>7. k \in TakeOvers =>
        /\ r.send.msg \in minted
        /\ submissions[r.send.op] = 0
        /\ isAccepted(r.send) => delivered[r.send.msg] > 0
        /\ r.send.state = "copied" => copies[r.send.msg] > 0 \/ home = "removed"
  <2>1. k \in TakeOvers => r.send.msg \in minted
    BY DEF IInv, RowOK, Fits
  <2>2. k \in TakeOvers => submissions[r.send.op] = 0
    BY <1>4 DEF IInv, SubmissionsOK, TypeOK
  <2>3. k \in TakeOvers /\ isAccepted(r.send) => row.unconf = None /\ row.send # None
    BY DEF IInv, RowOK, Fits, isAccepted
  <2>4. k \in TakeOvers /\ isAccepted(r.send) =>
          /\ isAccepted(row.send) /\ r.send.state = row.send.state
          /\ r.send.msg = row.send.msg
    BY <2>3 DEF Fits
  <2>5. k \in TakeOvers /\ r.send.state = "copied" => isAccepted(r.send)
    BY DEF isAccepted, Claimed
  <2> QED
    BY <2>1, <2>2, <2>4, <2>5 DEF IInv, RowOK, RecordIsTruthful, isAccepted
<1>8. DecidedOK(c)'
  BY <1>1, <1>2, <1>3, <1>6, <1>7 DEF DecidedOK, RowRests, isAccepted, Claimed, Rows
<1>9. Owned'
  BY <1>1, <1>2, <1>4, OwnedKept DEF Holds, Op
<1>10. OnlyTry'
  BY <1>1, <1>2, OnlyTryKept DEF RowRests
<1>11. Remembered'
  BY RememberedKept DEF RowRests, Mentions
<1>12. RowOK'
  BY RowKept DEF RowRests, IInv
<1>13. TypeOK' /\ Grows /\ RowMoves /\ MailOK'
  BY DEF RowRests, RowMoves
<1>14. SubmissionsOK'
  BY DEF IInv, SubmissionsOK, RowRests, Grows
<1> QED
  BY <1>1, <1>5, <1>8, <1>9, <1>10, <1>11, <1>12, <1>13, <1>14, ActInv

-----------------------------------------------------------------------------
(* Steps that write the record. *)

\* The types of a step that leaves the mail servers and the mints alone.
LEMMA WriteTypes ==
  ASSUME TypeOK, UNCHANGED <<home, mail, mints, submissions>>,
         row' \in Rows, fresh' \subseteq Ops, faults' \in Nat,
         asked' \subseteq Ops, again' \subseteq Messages, letGo' \subseteq Messages,
         task' \in [Clients -> [pc : {"idle", "decided"} \cup Running,
                               kind : Kinds, row : Rows]]
  PROVE  TypeOK'
  BY DEF TypeOK, mail, mints

\* A client's write was refused, or never arrived.
LEMMA GiveUpInv ==
  ASSUME IInv, NEW c \in Clients, Stop(c), UNCHANGED row,
         fresh' \subseteq Ops, faults' \in Nat, UNCHANGED <<home, mail, mints, history>>
  PROVE  IInv'
<1>1. UNCHANGED <<wire, delivered, late, copies, minted, used, submissions,
                  asked, again, letGo, home>>
  BY DEF mail, mints, history
<1>2. task' \in [Clients -> [pc : {"idle", "decided"} \cup Running,
                             kind : Kinds, row : Rows]]
  BY NoRowType DEF IInv, TypeOK, Stop, Idle, Kinds
<1>3. TypeOK'
  BY <1>1, <1>2, WriteTypes DEF IInv, TypeOK
<1>4. \A m \in Messages : Active(m)' => Active(m)
  BY <1>1 DEF Active, MayBeOut, Submitting, Msg, Stop, Idle, IInv, TypeOK,
     BeforeAnswer, AfterAnswer
<1>5. Grows /\ MailOK'
  BY <1>1 DEF IInv, Grows, MailOK
<1> QED
  BY <1>1, <1>3, <1>4, <1>5, StopInv DEF RowRests

\* What a runner may write, by where it stands.
MayWrite(c, r) ==
  /\ r.version = task[c].row.version + 1 /\ r.unconf = None
  /\ r.send # None =>
       /\ r.send.msg = Msg(c) /\ r.send.op = Op(c)
       /\ r.sentId = None /\ ~r.deleted
       /\ isAccepted(r.send) => task[c].pc \in {"accepted"} \cup Copying
       /\ r.send.state = "copied" => task[c].pc = "copied"
  /\ r.sentId # None =>
       /\ r.sentId = Msg(c) /\ r.deleted /\ r.send = None
       /\ task[c].pc = "complete" \/ (task[c].pc = "nocopy" /\ r.noCopy)
  /\ Mentions(r, Msg(c)) \/ task[c].pc = "refused"

\* A write a runner may make preserves the invariant, landed or lost.
LEMMA WriteInv ==
  ASSUME IInv, NEW c \in Clients, IsRunning(c), NEW r \in Rows,
         NEW ok \in {"idle", "copy", "complete"}, Write(c, r, ok),
         fresh' \subseteq Ops, UNCHANGED <<home, mail, mints, history>>,
         MayWrite(c, r),
         ok = "copy" => /\ task[c].pc = "accepted"
                        /\ r.send # None /\ r.send.state = "submitted",
         ok = "complete" => /\ task[c].pc = "copied"
                            /\ r.send # None /\ r.send.state = "copied"
  PROVE  IInv'
<1> DEFINE h == task[c].row
<1>1. /\ Claimed(h) /\ Op(c) \in used /\ Op(c) \in Ops /\ Msg(c) \in minted
      /\ Msg(c) \in Messages /\ h \in Rows /\ h.send \in Sends /\ Holds(c)
  BY HoldsFields DEF IInv, Holds
<1>2. faults' \in Nat
  BY DEF Write, Fault, IInv, TypeOK
<1>3. UNCHANGED <<wire, delivered, late, copies, minted, used, submissions,
                  asked, again, letGo, home>>
  BY DEF mail, mints, history
<1>4. Grows
  BY <1>3 DEF Grows
<1>5. MailOK' /\ SubmissionsOK'
  BY <1>3 DEF IInv, MailOK, SubmissionsOK
<1>6. CASE Stop(c) /\ row' = row
  BY <1>2, <1>6, GiveUpInv
<1>7. CASE row.version = h.version /\ row' = r /\
           \/ Stop(c)
           \/ ok # "idle" /\ task' = [task EXCEPT ![c].pc = ok, ![c].row = r]
  <2>1. row = h /\ row.version > 0 /\ row.version \in Nat
    BY <1>1, <1>7 DEF IInv, HandleOK, Claimed, Rows
  <2>2. OnlyMoves(c)
    BY <1>7 DEF OnlyMoves, Stop, IInv, TypeOK
  <2>3. \/ task'[c] = Idle
        \/ /\ ok # "idle" /\ task'[c].pc = ok /\ task'[c].row = r
           /\ task'[c].kind = task[c].kind
    BY <1>7 DEF Stop, IInv, TypeOK
  <2>4. TypeOK'
    <3>1. task' \in [Clients -> [pc : {"idle", "decided"} \cup Running,
                                 kind : Kinds, row : Rows]]
      BY <1>7, NoRowType
         DEF IInv, TypeOK, Stop, Idle, Kinds, Running, Copying
    <3> QED
      BY <1>2, <1>3, <1>7, <3>1, WriteTypes DEF IInv, TypeOK
  <2>5. RowMoves
    BY <1>7, <2>1 DEF RowMoves, MayWrite
  <2>6. RowOK'
    <3>1. r.send # None => r.send.msg \in minted
      BY <1>1 DEF MayWrite
    <3>2. isAccepted(r.send) => delivered[r.send.msg] > 0
      BY <1>1 DEF MayWrite, IInv, HandleOK, IsRunning, Msg, isAccepted
    <3>3. r.send # None /\ r.send.state = "copied"
            => copies[r.send.msg] > 0 \/ home = "removed"
      BY <1>1 DEF MayWrite, IInv, HandleOK, Msg
    <3>4. r.sentId # None =>
            /\ delivered[r.sentId] > 0
            /\ r.noCopy \/ copies[r.sentId] > 0 \/ home = "removed"
      BY <1>1 DEF MayWrite, IInv, HandleOK, IsRunning, Msg, Copying
    <3>5. r.version > 0
      BY <2>1 DEF MayWrite
    <3> QED
      BY <1>3, <1>7, <3>1, <3>2, <3>3, <3>4, <3>5
         DEF RowOK, RecordIsTruthful, MayWrite, isAccepted
  <2>7. ~Submitting(c)' /\ ~IsDecided(c)' /\ task'[c].pc \notin BeforeAnswer
    BY <2>3 DEF Idle, Submitting, IsDecided, BeforeAnswer, AfterAnswer
  <2>8. Remembered'
    <3>1. \A m \in Messages : Active(m)' => Active(m)
      BY <1>3, <2>2, <2>7 DEF Active, MayBeOut, Submitting, Msg, OnlyMoves, BeforeAnswer
    <3>2. ASSUME task[c].pc = "refused", Msg(c) \notin again
          PROVE  \A m \in Messages : m = Msg(c) => ~Active(m)'
      <4>1. /\ delivered[Msg(c)] = 0 /\ wire[Msg(c)] = 0
            /\ \A d \in Clients : Submitting(d) /\ Msg(d) = Msg(c) => c = d
        BY <3>2 DEF IInv, OnlyTry, Submitting, AfterAnswer
      <4> SUFFICES ASSUME NEW m \in Messages, m = Msg(c) PROVE ~Active(m)'
        OBVIOUS
      <4>2. \A d \in Clients : ~(Submitting(d)' /\ Msg(d)' = m)
        BY <2>2, <2>7, <4>1 DEF Submitting, Msg, OnlyMoves
      <4>3. \A d \in Clients : ~(task'[d].pc = "await" /\ Msg(d)' = m)
        BY <4>2 DEF Submitting, BeforeAnswer
      <4>4. delivered'[m] = 0 /\ wire'[m] = 0
        BY <1>3, <4>1
      <4> QED
        BY <4>2, <4>3, <4>4 DEF Active, MayBeOut
    <3>3. \A m \in Messages : m # Msg(c) => ~Mentions(row, m)
      BY <1>1, <2>1, NoneApart DEF Mentions, Claimed, Msg
    <3> QED
      BY <1>3, <1>7, <2>1, <3>1, <3>2, <3>3, RememberedKept DEF MayWrite, Mentions
  <2>9. OnlyTry'
    BY <1>3, <2>2, <2>7, OnlyTryKept
  <2>10. DecidedOK(c)'
    BY <2>7 DEF DecidedOK
  <2>11. Owned'
    <3>1. Holds(c)' => Op(c)' = Op(c)
      BY <2>3, <2>7 DEF Holds, TakesOver, IsRunning, Idle, MayWrite, Op, Running,
         BeforeAnswer, AfterAnswer, Copying
    <3>2. IsRunning(c)' => task'[c].row.version = row.version + 1
      BY <2>1, <2>3 DEF IsRunning, Idle, MayWrite, Running,
         BeforeAnswer, AfterAnswer, Copying
    <3> QED
      BY <1>1, <2>1, <2>2, <3>1, <3>2, OwnedKept
  <2>12. HandleOK(c)'
    <3> SUFFICES ASSUME IsRunning(c)' PROVE HandleOK(c)'
      BY DEF HandleOK
    <3>1. ok # "idle" /\ task'[c].pc = ok /\ task'[c].row = r
      BY <2>3 DEF IsRunning, Idle, Running, BeforeAnswer, AfterAnswer, Copying
    <3>2. Claimed(r) /\ r.send.op = Op(c) /\ r.send.msg = Msg(c)
      BY <2>1, <3>1 DEF MayWrite, Claimed
    <3>3. delivered[Msg(c)] > 0
      BY <3>1 DEF IInv, HandleOK, Msg, Copying
    <3>4. ok = "complete" => copies[Msg(c)] > 0 \/ home = "removed"
      BY DEF IInv, HandleOK, Msg
    <3> QED
      BY <1>1, <1>3, <1>7, <2>7, <3>1, <3>2, <3>3, <3>4
         DEF HandleOK, Claimed, Copying, Submitting, Rows
  <2> QED
    BY <1>3, <1>4, <1>5, <2>2, <2>4, <2>5, <2>6, <2>8, <2>9, <2>10, <2>11, <2>12, ActInv
<1> QED
  BY <1>6, <1>7 DEF Write

\* No client moves and the row goes on: an edit, the purge of a tombstone.
LEMMA RowAloneInv ==
  ASSUME IInv, UNCHANGED <<task, fresh, home, mail, mints, faults, history>>,
         row' \in Rows, RowMoves, RowOK',
         row'.version > 0 => row.version > 0,
         \A m \in Messages : row'.version > 0 /\ Mentions(row, m) => Mentions(row', m)
  PROVE  IInv'
<1>1. UNCHANGED <<wire, delivered, late, copies, minted, used, submissions,
                  asked, again, letGo, home>>
  BY DEF mail, mints, history
<1>2. TypeOK' /\ Grows
  BY <1>1, WriteTypes DEF IInv, TypeOK, Grows
<1>3. \A d \in Clients : HandleOK(d)' /\ DecidedOK(d)'
  BY <1>1, <1>2, HandleKept, DecidedKept DEF IInv
<1>4. Owned'
  BY DEF IInv, Owned, IsRunning, TakesOver, IsDecided, Op
<1>5. OnlyTry'
  BY <1>1 DEF IInv, OnlyTry, Submitting, Msg
<1>6. Remembered'
  <2> SUFFICES ASSUME NEW m \in Messages, row'.version > 0, Active(m)'
               PROVE  Mentions(row', m) \/ m \in letGo \cup again
    BY <1>1 DEF Remembered, Active, Mentions
  <2>1. Active(m)
    BY <1>1 DEF Active, MayBeOut, Submitting, Msg
  <2> QED
    BY <2>1 DEF IInv, Remembered, Active
<1>7. MailOK' /\ SubmissionsOK'
  BY <1>1 DEF IInv, MailOK, SubmissionsOK
<1> QED
  BY <1>2, <1>3, <1>4, <1>5, <1>6, <1>7 DEF IInv

\* Edit preserves the invariant.
LEMMA EditInv == ASSUME IInv, Edit PROVE IInv'
<1>1. row \in Rows /\ row' = Bump(row) /\ row.version > 0 /\ row.send = None
  BY DEF Edit, IInv, TypeOK, Live, isFrozenBySend
<1>2. /\ row' \in Rows /\ row'.version = row.version + 1 /\ row'.deleted = row.deleted
      /\ row'.send = row.send /\ row'.unconf = row.unconf
      /\ row'.sentId = row.sentId /\ row'.noCopy = row.noCopy
  BY <1>1, BumpFields
<1>3. RowMoves /\ (row'.version > 0 => row.version > 0)
  BY <1>1, <1>2 DEF RowMoves
<1>4. UNCHANGED <<delivered, copies, home, minted>>
  BY DEF Edit, mail, mints
<1>5. RowOK'
  BY <1>1, <1>2, <1>4 DEF IInv, RowOK, RecordIsTruthful, isAccepted, InPlay, Rows
<1>6. \A m \in Messages : Mentions(row, m) => Mentions(row', m)
  BY <1>2 DEF Mentions
<1> QED
  BY <1>2, <1>3, <1>5, <1>6, RowAloneInv DEF Edit

\* Purge preserves the invariant.
LEMMA PurgeInv == ASSUME IInv, Purge PROVE IInv'
<1>1. row' = NoRow /\ row' \in Rows /\ row'.version = 0
  BY NoRowType DEF Purge, NoRow
<1>2. RowMoves
  BY <1>1 DEF RowMoves
<1>3. RowOK'
  BY <1>1 DEF RowOK, NoRow, RecordIsTruthful, isAccepted
<1> QED
  BY <1>1, <1>2, <1>3, RowAloneInv DEF Purge

\* Claim preserves the invariant.
LEMMA ClaimInv == ASSUME IInv, NEW c \in Clients, Claim(c) PROVE IInv'
<1>1. PICK m \in Messages \ minted, o \in Ops \ used :
        LET s == [msg |-> m, op |-> o, state |-> "submitting"]
            r == [Bump(row) EXCEPT !.send = s, !.unconf = None]
        IN /\ row' = r
           /\ fresh' = fresh \cup {o}
           /\ minted' = minted \cup {m}
           /\ used' = used \cup {o}
           /\ asked' = asked \cup {o}
           /\ letGo' = letGo \cup
                IF row.unconf = None THEN {} ELSE {row.unconf.msg}
           /\ \/ Drive(c, r) /\ UNCHANGED faults
              \/ Fault /\ UNCHANGED task
  BY DEF Claim
<1>2. /\ row \in Rows /\ row.version > 0 /\ ~row.deleted /\ row.send = None
      /\ row.sentId = None
      /\ UNCHANGED <<home, wire, delivered, late, copies, submissions, again>>
      /\ task[c].pc = "idle"
  BY DEF Claim, IInv, TypeOK, Live, isFrozenBySend, RowOK, mail
<1> DEFINE s == [msg |-> m, op |-> o, state |-> "submitting"]
           b == Bump(row)
           r == [b EXCEPT !.send = s, !.unconf = None]
<1>3. /\ s \in Sends /\ s.msg = m /\ s.op = o /\ s.state = "submitting" /\ s # None
  BY NoneApart DEF Sends, States
<1>4. /\ b \in Rows /\ b.version = row.version + 1 /\ ~b.deleted /\ b.sentId = None
      /\ b.noCopy = row.noCopy
  BY <1>2, BumpFields
<1>5. /\ row' = r /\ (Drive(c, r) \/ UNCHANGED task) /\ faults' \in Nat
      /\ minted' = minted \cup {m} /\ used' = used \cup {o} /\ asked' = asked \cup {o}
  BY <1>1 DEF Fault, IInv, TypeOK
<1> HIDE DEF s, b
<1>6. /\ r \in Rows /\ r.version = row.version + 1 /\ ~r.deleted /\ r.send = s
      /\ r.unconf = None /\ r.sentId = None
  BY <1>3, <1>4 DEF Rows
<1> HIDE DEF r
<1>7. \/ task'[c] = task[c]
      \/ task'[c] = [pc |-> "submit", kind |-> "none", row |-> r]
  BY <1>3, <1>5, <1>6 DEF Drive, StartPc, IInv, TypeOK
<1>8. OnlyMoves(c)
  BY <1>5 DEF OnlyMoves, Drive, IInv, TypeOK
<1>9. row.unconf # None => row.unconf.msg \in Messages
  BY <1>2 DEF Rows, Sends
<1>10. TypeOK'
  <2>1. task' \in [Clients -> [pc : {"idle", "decided"} \cup Running,
                               kind : Kinds, row : Rows]]
    BY <1>3, <1>5, <1>6
       DEF IInv, TypeOK, Drive, StartPc, Running, BeforeAnswer, Kinds
  <2> QED
    BY <1>1, <1>2, <1>5, <1>6, <1>9, <2>1 DEF IInv, TypeOK
<1>11. Grows
  BY <1>1, <1>2 DEF Grows
<1>12. RowMoves
  BY <1>2, <1>5, <1>6 DEF RowMoves
<1>13. RowOK'
  BY <1>2, <1>3, <1>5, <1>6 DEF RowOK, RecordIsTruthful, isAccepted, Rows
<1>14. \A x \in Messages \ minted : delivered[x] = 0 /\ wire[x] = 0
  BY DEF IInv, MailOK, TypeOK
<1>15. submissions[o] = 0
  BY DEF IInv, SubmissionsOK, TypeOK
<1>16. ~Holds(c) /\ ~Submitting(c) /\ ~IsDecided(c)' /\ task[c].pc # "await"
  BY <1>2, <1>7 DEF Holds, TakesOver, IsRunning, IsDecided, Submitting, Running,
     BeforeAnswer, AfterAnswer, Copying
<1>17. Holds(c)' => Op(c)' = o /\ Msg(c)' = m /\ task'[c].pc = "submit"
                   /\ task'[c].row = r
  BY <1>3, <1>6, <1>7, <1>16 DEF Holds, TakesOver, IsRunning, IsDecided, Op, Msg
<1>18. (IsRunning(c)' => Holds(c)') /\ (Submitting(c)' => Holds(c)')
  BY DEF Holds, IsRunning, Submitting, Running
<1>19. HandleOK(c)'
  <2> SUFFICES ASSUME IsRunning(c)' PROVE HandleOK(c)'
    BY DEF HandleOK
  <2>1. task'[c].row = r /\ task'[c].pc = "submit" /\ row' = r /\ row'.version <= row'.version
    BY <1>5, <1>6, <1>17, <1>18 DEF Rows
  <2>2. /\ r.version > 0 /\ ~r.deleted /\ r.send # None /\ r.unconf = None
        /\ r.sentId = None /\ r.send.op = o /\ r.send.msg = m
        /\ r.send.state = "submitting"
    BY <1>2, <1>3, <1>6 DEF Rows
  <2>3. o \in used' /\ m \in minted' /\ o \in asked' /\ submissions'[o] = 0
    BY <1>2, <1>5, <1>15
  <2> QED
    BY <2>1, <2>2, <2>3 DEF HandleOK, Claimed, Copying
<1>20. DecidedOK(c)'
  BY <1>16 DEF DecidedOK
<1>21. Owned'
  BY <1>2, <1>6, <1>8, <1>17, <1>18, OwnedKept
<1>22. OnlyTry'
  BY <1>2, <1>8, <1>14, <1>17, <1>18, OnlyTryKept
<1>23. Remembered'
  <2> SUFFICES ASSUME NEW x \in Messages, Active(x)'
               PROVE  \/ Active(x) /\ (Mentions(row, x) => Mentions(row', x))
                      \/ Mentions(row', x)
                      \/ x \in letGo' \cup again'
    BY <1>1, <1>2, RememberedKept
  <2>1. x = m => Mentions(row', x)
    BY <1>3, <1>5, <1>6 DEF Mentions
  <2>2. x # m => Active(x)
    BY <1>2, <1>8, <1>17, <1>18 DEF Active, MayBeOut, Submitting, Msg, OnlyMoves, BeforeAnswer
  <2>3. Mentions(row, x) => x \in letGo'
    BY <1>1, <1>2, NoneApart DEF Mentions
  <2> QED
    BY <2>1, <2>2, <2>3
<1>24. MailOK' /\ SubmissionsOK'
  BY <1>1, <1>2 DEF IInv, MailOK, SubmissionsOK
<1> QED
  BY <1>2, <1>8, <1>10, <1>11, <1>12, <1>13, <1>19, <1>20, <1>21, <1>22, <1>23, <1>24, ActInv

\* A decided write that lands leaves the row in order, with every message it
\* mentioned still in it.
LEMMA LandedRow ==
  ASSUME IInv, NEW c \in Clients, IsDecided(c),
         row.version = task[c].row.version - 1, row' = task[c].row,
         UNCHANGED <<home, mail, mints>>
  PROVE  /\ RowOK' /\ row.version > 0
         /\ row'.version = row.version + 1
         /\ \A m \in Messages : Mentions(row, m) => Mentions(row', m)
<1> DEFINE r == task[c].row
           k == task[c].kind
<1>1. /\ r \in Rows /\ row \in Rows /\ k \in Kinds /\ row' = r
      /\ UNCHANGED <<delivered, copies, minted, home>>
  BY DEF IInv, TypeOK, mail, mints
<1>2. r.version = row.version + 1 /\ Fits(k, r) /\ k # "none" /\ r.version > 1
  BY <1>1 DEF IInv, DecidedOK, Rows
<1>3. /\ row.version > 0 /\ ~row.deleted /\ row.sentId = None
      /\ row.send = None \/ row.unconf = None
  BY <1>2 DEF IInv, RowOK, Fits, Live
<1>4. \A x \in {row.send, row.unconf} :
        x # None => x.msg \in Messages /\ x.msg \in minted
  BY <1>1 DEF IInv, RowOK, Rows, Sends
<1> HIDE DEF r, k
<1>5. RowOK' /\ \A m \in Messages : Mentions(row, m) => Mentions(r, m)
  <2>1. CASE k \in TakeOvers
    <3>1. /\ Claimed(r) /\ r.send.msg \in minted
          /\ isAccepted(r.send) => delivered[r.send.msg] > 0
          /\ r.send.state = "copied" => copies[r.send.msg] > 0 \/ home = "removed"
          /\ \/ row.send # None /\ r.send.msg = row.send.msg
             \/ row.unconf # None /\ r.send.msg = row.unconf.msg
      BY <1>2, <2>1 DEF IInv, DecidedOK, Fits, r, k
    <3>2. RowOK'
      BY <1>1, <3>1 DEF RowOK, RecordIsTruthful, isAccepted, Claimed
    <3> QED
      BY <1>3, <3>1, <3>2, NoneApart DEF Mentions, Claimed
  <2>2. CASE k = "unconfirm"
    <3>1. /\ row.send # None /\ InPlay(row.send) /\ r.send = None /\ r.unconf = row.send
          /\ r.sentId = None
      BY <1>2, <2>2 DEF Fits
    <3>2. RowOK'
      BY <1>1, <1>2, <1>4, <3>1 DEF RowOK, RecordIsTruthful, isAccepted, InPlay
    <3> QED
      BY <1>3, <3>1, <3>2, NoneApart DEF Mentions
  <2>3. CASE k = "finish"
    <3> DEFINE m == row.send.msg
    <3>1. isAccepted(row.send) /\ r = tombstoneOfSent(row, m, TRUE)
      BY <1>2, <2>3 DEF Fits
    <3>2. m \in Messages /\ delivered[m] > 0
      BY <1>4, <3>1 DEF isAccepted, IInv, RowOK, RecordIsTruthful
    <3>3. /\ r.deleted = TRUE /\ r.unconf = None /\ r.send = None /\ r.sentId = m
          /\ r.noCopy = TRUE
      BY <1>1, <3>1, <3>2, TombstoneFields
    <3>4. RowOK'
      BY <1>1, <1>2, <3>2, <3>3, NoneApart DEF RowOK, RecordIsTruthful, isAccepted
    <3> QED
      BY <1>3, <3>1, <3>3, <3>4, NoneApart DEF Mentions, isAccepted
  <2>4. CASE k = "settle"
    <3>1. PICK x \in {row.send, row.unconf} :
            /\ x # None /\ InPlay(x) /\ copies[x.msg] > 0
            /\ r = tombstoneOfSent(row, x.msg, FALSE)
      BY <1>2, <2>4 DEF Fits
    <3>2. x.msg \in Messages /\ delivered[x.msg] > 0
      BY <1>4, <3>1 DEF IInv, MailOK
    <3>3. /\ r.deleted = TRUE /\ r.unconf = None /\ r.send = None /\ r.sentId = x.msg
      BY <1>1, <3>1, <3>2, TombstoneFields
    <3>4. RowOK'
      <4> DEFINE m == x.msg
      <4>1. m \in Messages /\ delivered[m] > 0 /\ copies[m] > 0
        BY <3>1, <3>2
      <4>2. /\ row'.version > 0 /\ row'.send = None /\ row'.unconf = None
            /\ row'.sentId = m /\ row'.deleted
        BY <1>1, <1>2, <3>3 DEF Rows
      <4> HIDE DEF m
      <4> QED
        BY <1>1, <4>1, <4>2 DEF RowOK, RecordIsTruthful, isAccepted
    <3> QED
      BY <1>3, <3>1, <3>3, <3>4, NoneApart DEF Mentions
  <2>5. CASE k = "delete"
    <3>1. /\ r = [Bump(row) EXCEPT !.deleted = TRUE]
          /\ row.unconf = None
          /\ row.send # None => row.send.state = "submitting"
      BY <1>2, <2>5 DEF Fits
    <3>2. r.send = row.send /\ r.unconf = row.unconf /\ r.sentId = row.sentId
      <4> DEFINE b == Bump(row)
      <4>1. b \in Rows /\ b.send = row.send /\ b.unconf = row.unconf /\ b.sentId = row.sentId
        BY <1>1, BumpFields
      <4>2. r = [b EXCEPT !.deleted = TRUE]
        BY <3>1
      <4> HIDE DEF b
      <4> QED
        BY <4>1, <4>2 DEF Rows
    <3>4. row.send # None => ~isAccepted(row.send) /\ row.send.state # "copied"
      BY <3>1 DEF isAccepted
    <3>3. RowOK'
      <4>1. /\ row'.version > 0 /\ row'.send = row.send /\ row'.unconf = None
            /\ row'.sentId = None
        BY <1>1, <1>2, <1>3, <3>1, <3>2 DEF Rows
      <4>2. row.send # None => row.send.msg \in minted
        BY <1>4
      <4> QED
        BY <1>1, <3>1, <4>1, <4>2, <3>4 DEF RowOK, RecordIsTruthful, isAccepted
    <3> QED
      BY <3>2, <3>3 DEF Mentions
  <2> QED
    BY <1>1, <1>2, <2>1, <2>2, <2>3, <2>4, <2>5 DEF Kinds, TakeOvers
<1> QED
  BY <1>1, <1>2, <1>3, <1>5

\* The compare-and-swap of a decided write: refused, lost, or landed.
LEMMA CommitInv == ASSUME IInv, NEW c \in Clients, Commit(c) PROVE IInv'
<1> DEFINE r == task[c].row
           k == task[c].kind
           resends == k = "again" /\ r.send.state = "submitting"
<1>1. /\ r \in Rows /\ row \in Rows /\ k \in Kinds /\ faults \in Nat
      /\ task[c].pc = "decided" /\ IsDecided(c)
      /\ UNCHANGED <<home, mail, mints>>
  BY DEF Commit, IInv, TypeOK, IsDecided
<1>2. UNCHANGED <<wire, delivered, late, copies, minted, used, home>>
  BY <1>1 DEF mail, mints
<1>3. CASE Stop(c) /\ UNCHANGED <<row, fresh, history>> /\ faults' \in Nat
  <2>1. fresh' \subseteq Ops
    BY <1>3 DEF IInv, TypeOK
  <2> QED
    BY <1>1, <1>3, <2>1, GiveUpInv
<1>4. CASE /\ row.version = r.version - 1
           /\ row' = r
           /\ fresh' = IF k \in TakeOvers THEN fresh \cup {r.send.op} ELSE fresh
           /\ asked' = IF resends THEN asked \cup {r.send.op} ELSE asked
           /\ again' = IF resends THEN again \cup {r.send.msg} ELSE again
           /\ letGo' = IF k = "delete" /\ r.send # None
                       THEN letGo \cup {r.send.msg} ELSE letGo
           /\ \/ k \in TakeOvers /\ Drive(c, r)
              \/ Stop(c)
           /\ faults' \in Nat
           /\ UNCHANGED submissions
  <2>1. /\ RowOK' /\ row.version > 0 /\ row'.version = row.version + 1
        /\ \A m \in Messages : Mentions(row, m) => Mentions(row', m)
    BY <1>1, <1>4, LandedRow
  <2>2. k \in TakeOvers =>
          /\ Claimed(r) /\ r.send \in Sends /\ r.send.op \in Ops /\ r.send.msg \in Messages
          /\ r.send.op \in used /\ r.send.msg \in minted
          /\ r.send.state \in {"submitting", "submitted", "copied"}
          /\ submissions[r.send.op] = 0
          /\ isAccepted(r.send) => delivered[r.send.msg] > 0
          /\ r.send.state = "copied" => copies[r.send.msg] > 0 \/ home = "removed"
          /\ k = "resume" => isAccepted(r.send)
    <3>1. ASSUME k \in TakeOvers
          PROVE  /\ Claimed(r) /\ r.send.op \in used /\ r.send.msg \in minted
                 /\ r.send.state # "unconfirmed"
                 /\ submissions[r.send.op] = 0
                 /\ isAccepted(r.send) => delivered[r.send.msg] > 0
                 /\ r.send.state = "copied" => copies[r.send.msg] > 0 \/ home = "removed"
                 /\ k = "resume" => isAccepted(r.send)
      BY <1>1, <3>1 DEF IInv, DecidedOK
    <3> QED
      BY <1>1, <3>1, SendFields DEF Claimed, States
  <2>3. r.send # None => r.send.msg \in Messages
    BY <1>1 DEF Rows, Sends
  <2>4. /\ OnlyMoves(c)
        /\ \/ task'[c] = Idle
           \/ /\ k \in TakeOvers
              /\ task'[c] = [pc |-> StartPc(r.send), kind |-> "none", row |-> r]
    BY <1>4 DEF OnlyMoves, Drive, Stop, IInv, TypeOK
  <2>5. ~Submitting(c) /\ ~IsRunning(c) /\ task[c].pc # "await"
    BY <1>1 DEF Submitting, IsRunning, Running, BeforeAnswer, AfterAnswer, Copying
  <2>6. StartPc(r.send) \in {"submit", "copy", "complete"}
    BY DEF StartPc
  <2> HIDE DEF r, k, resends
  <2>7. resends => k \in TakeOvers /\ r.send.state = "submitting"
    BY DEF resends, TakeOvers
  <2>8. k \in TakeOvers /\ r.send.state = "submitting" => resends
    BY <2>2 DEF resends, TakeOvers, isAccepted
  <2>9. TypeOK'
    <3>1. task' \in [Clients -> [pc : {"idle", "decided"} \cup Running,
                                 kind : Kinds, row : Rows]]
      BY <1>1, <1>4, <2>6, NoRowType
         DEF IInv, TypeOK, Drive, Stop, Idle, Kinds, Running, BeforeAnswer, Copying
    <3>2. /\ row' \in Rows /\ fresh' \subseteq Ops /\ asked' \subseteq Ops
          /\ again' \subseteq Messages /\ letGo' \subseteq Messages
      BY <1>1, <1>4, <2>2, <2>3, <2>7 DEF IInv, TypeOK
    <3> QED
      BY <1>1, <1>4, <3>1, <3>2, WriteTypes DEF IInv
  <2>10. Grows
    BY <1>2, <1>4 DEF Grows
  <2>11. RowMoves
    BY <2>1 DEF RowMoves
  <2>12. ~IsDecided(c)' /\ (Holds(c)' => task'[c].row = r /\ task'[c].pc = StartPc(r.send)
                                         /\ k \in TakeOvers)
    BY <2>4, <2>6 DEF Idle, Holds, IsRunning, IsDecided, TakesOver, Running, BeforeAnswer,
       AfterAnswer, Copying
  <2>13. (IsRunning(c)' => Holds(c)') /\ (Submitting(c)' => Holds(c)')
    BY DEF Holds, IsRunning, Submitting, Running
  <2>14. Holds(c)' => Op(c)' = r.send.op /\ Msg(c)' = r.send.msg
    BY <2>12 DEF Op, Msg
  <2>15. Submitting(c)' => r.send.state = "submitting" /\ resends
    BY <2>2, <2>8, <2>12, <2>13 DEF Submitting, StartPc, BeforeAnswer, AfterAnswer
  <2>16. HandleOK(c)'
    <3> SUFFICES ASSUME IsRunning(c)' PROVE HandleOK(c)'
      BY DEF HandleOK
    <3>1. task'[c].row = r /\ task'[c].pc = StartPc(r.send) /\ k \in TakeOvers /\ row' = r
      BY <1>4, <2>12, <2>13
    <3>2. resends => r.send.op \in asked'
      BY <1>4
    <3>3. r.version \in Nat
      BY <1>1 DEF Rows
    <3>4. CASE r.send.state = "submitting"
      BY <1>2, <1>4, <2>2, <2>8, <3>1, <3>2, <3>3, <3>4
         DEF HandleOK, StartPc, Claimed, Copying
    <3>5. CASE r.send.state = "submitted"
      BY <1>2, <1>4, <2>2, <3>1, <3>3, <3>5
         DEF HandleOK, StartPc, Claimed, Submitting, BeforeAnswer, AfterAnswer, isAccepted
    <3>6. CASE r.send.state = "copied"
      BY <1>2, <1>4, <2>2, <3>1, <3>3, <3>6
         DEF HandleOK, StartPc, Claimed, Submitting, BeforeAnswer, AfterAnswer, isAccepted,
             Copying
    <3> QED
      BY <2>2, <3>1, <3>4, <3>5, <3>6
  <2>17. DecidedOK(c)'
    BY <2>12 DEF DecidedOK
  <2>18. Owned'
    <3>1. k \in TakeOvers => Holds(c) /\ Op(c) = r.send.op
      BY <1>1 DEF Holds, TakesOver, Op, r, k
    <3>2. IsRunning(c)' => task'[c].row.version = row.version + 1
      BY <1>4, <2>1, <2>12, <2>13
    <3>3. Holds(c)' => Holds(c) /\ Op(c)' = Op(c)
      BY <2>12, <2>14, <3>1
    <3> QED
      BY <2>1, <2>4, <3>2, <3>3, OwnedKept
  <2>19. OnlyTry'
    <3>1. Submitting(c)' => Msg(c)' \in again'
      BY <1>4, <2>13, <2>14, <2>15
    <3>2. again \subseteq again'
      BY <1>4
    <3> QED
      BY <1>2, <2>4, <3>1, <3>2, OnlyTryKept
  <2>20. Remembered'
    <3>1. letGo \subseteq letGo' /\ again \subseteq again'
      BY <1>4
    <3> SUFFICES ASSUME NEW x \in Messages, Active(x)'
                 PROVE  \/ Active(x) /\ (Mentions(row, x) => Mentions(row', x))
                        \/ Mentions(row', x)
                        \/ x \in letGo' \cup again'
      BY <2>1, <3>1, RememberedKept
    <3>2. CASE Submitting(c)' /\ Msg(c)' = x
      BY <1>4, <2>13, <2>14, <2>15, <3>2
    <3>3. CASE ~(Submitting(c)' /\ Msg(c)' = x)
      <4>1. Active(x)
        BY <1>2, <2>4, <3>3 DEF Active, MayBeOut, Submitting, Msg, OnlyMoves, BeforeAnswer
      <4> QED
        BY <2>1, <4>1
    <3> QED
      BY <3>2, <3>3
  <2>21. MailOK'
    BY <1>2 DEF IInv, MailOK
  <2>22. SubmissionsOK'
    BY <1>2, <1>4, <2>2, <2>7 DEF IInv, SubmissionsOK
  <2> QED
    BY <1>4, <2>1, <2>4, <2>9, <2>10, <2>11, <2>16, <2>17, <2>18, <2>19, <2>20, <2>21,
       <2>22, ActInv
<1> QED
  <2>1. \/ Stop(c) /\ UNCHANGED <<row, fresh, faults, history>>
        \/ Fault /\ Stop(c) /\ UNCHANGED <<row, fresh, history>>
        \/ /\ row.version = r.version - 1
           /\ row' = r
           /\ fresh' = IF k \in TakeOvers THEN fresh \cup {r.send.op} ELSE fresh
           /\ asked' = IF resends THEN asked \cup {r.send.op} ELSE asked
           /\ again' = IF resends THEN again \cup {r.send.msg} ELSE again
           /\ letGo' = IF k = "delete" /\ r.send # None
                       THEN letGo \cup {r.send.msg} ELSE letGo
           /\ \/ /\ IF k \in TakeOvers THEN Drive(c, r) ELSE Stop(c)
                 /\ UNCHANGED faults
              \/ Fault /\ Stop(c)
           /\ UNCHANGED submissions
    BY DEF Commit
  <2> HIDE DEF r, k, resends
  <2>2. faults' = faults \/ Fault => faults' \in Nat
    BY <1>1 DEF Fault
  <2> QED
    BY <1>3, <1>4, <2>1, <2>2

-----------------------------------------------------------------------------
(* The operations that decide a write. *)

\* Deciding a write changes nothing but the client's task and the mints.
LEMMA DecideRests ==
  ASSUME IInv, NEW c \in Clients, NEW k \in Kinds, NEW r \in Rows,
         task[c].pc = "idle", Decide(c, k, r),
         used \subseteq used', used' \subseteq Ops,
         UNCHANGED <<row, fresh, home, mail, minted, faults, history>>
  PROVE  RowRests /\ UNCHANGED <<submissions, home, delivered, wire, copies>>
<1>1. UNCHANGED <<row, fresh, wire, delivered, late, copies, minted, submissions,
                  faults, asked, again, letGo, home>>
  BY DEF mail, history
<1>2. task' \in [Clients -> [pc : {"idle", "decided"} \cup Running,
                             kind : Kinds, row : Rows]]
  BY DEF IInv, TypeOK, Decide
<1>3. TypeOK'
  BY <1>1, <1>2 DEF IInv, TypeOK
<1>4. Grows /\ MailOK'
  BY <1>1 DEF IInv, Grows, MailOK
<1>5. \A m \in Messages : Active(m)' => Active(m)
  BY <1>1 DEF Active, MayBeOut, Submitting, Msg, Decide, IInv, TypeOK,
     BeforeAnswer, AfterAnswer
<1> QED
  BY <1>1, <1>3, <1>4, <1>5 DEF RowRests

\* The send in question is the one running or the one put aside.
LEMMA InQuestionFields ==
  ASSUME IInv, NEW s, s = unconfirmedSendOf(row), s # None
  PROVE  /\ s \in {row.send, row.unconf} /\ s \in Sends /\ InPlay(s)
         /\ s.msg \in Messages
         /\ row.send # None => s = row.send
<1>1. row \in Rows /\ (row.unconf # None => InPlay(row.unconf))
  BY DEF IInv, TypeOK, RowOK
<1>2. /\ s = row.send \/ (s = row.unconf /\ row.send = None)
      /\ InPlay(s)
  BY <1>1 DEF unconfirmedSendOf, InPlay
<1> QED
  BY <1>1, <1>2 DEF Rows, Sends

\* BeginReclaim preserves the invariant.
LEMMA BeginReclaimInv ==
  ASSUME IInv, NEW c \in Clients, NEW k \in TakeOvers, BeginReclaim(c, k)
  PROVE  IInv'
<1> DEFINE q == unconfirmedSendOf(row)
           p == IF q # None THEN q ELSE row.send
<1>1. /\ row \in Rows /\ Live(row) /\ task[c].pc = "idle" /\ p # None
      /\ k = "resume" => isAccepted(row.send)
      /\ UNCHANGED <<row, fresh, home, mail, minted, faults, history>>
  BY DEF BeginReclaim, IInv, TypeOK
<1>2. PICK o \in Ops \ used :
        LET s == [p EXCEPT
                    !.op = o,
                    !.state = IF @ = "unconfirmed" THEN "submitting" ELSE @]
        IN /\ used' = used \cup {o}
           /\ Decide(c, k, [Bump(row) EXCEPT !.send = s, !.unconf = None])
  BY DEF BeginReclaim
<1> DEFINE s == [p EXCEPT
                   !.op = o,
                   !.state = IF @ = "unconfirmed" THEN "submitting" ELSE @]
           b == Bump(row)
           r == [b EXCEPT !.send = s, !.unconf = None]
<1>3. used' = used \cup {o} /\ Decide(c, k, r)
  BY <1>2
<1>4. /\ p \in {row.send, row.unconf} /\ p \in Sends /\ p.msg \in Messages
      /\ row.send # None => p = row.send
      /\ q = None => p = row.send
      /\ q # None => InPlay(p)
  BY <1>1, InQuestionFields, SendFields
<1>5. /\ b \in Rows /\ b.version = row.version + 1 /\ b.deleted = row.deleted
      /\ b.sentId = row.sentId
  BY <1>1, BumpFields
<1>6. q = None => isAccepted(p)
  <2> SUFFICES ASSUME q = None PROVE isAccepted(p)
    OBVIOUS
  <2>1. p = row.send /\ row.send # None /\ ~heldSend(row)
    BY <1>1, <1>4 DEF BeginReclaim
  <2>2. row.send.state \notin {"unconfirmed", "submitting"}
    BY <2>1 DEF unconfirmedSendOf
  <2> QED
    BY <1>4, <2>1, <2>2 DEF isAccepted, Sends, States
<1> HIDE DEF q, p, b
<1>7. /\ s \in Sends /\ s.msg = p.msg /\ s.op = o
      /\ s.state = IF p.state = "unconfirmed" THEN "submitting" ELSE p.state
  BY <1>4 DEF Sends, States
<1>8. s # None
  BY <1>7, NoneApart
<1> HIDE DEF s
<1>9. /\ r \in Rows /\ r.version = row.version + 1 /\ r.send = s /\ r.unconf = None
      /\ r.deleted = row.deleted /\ r.sentId = row.sentId
  BY <1>5, <1>7 DEF Rows
<1> HIDE DEF r
<1>10. row.version > 0 /\ ~row.deleted /\ row.sentId = None
  BY <1>1 DEF Live, IInv, RowOK
<1>11. Claimed(r)
  BY <1>1, <1>8, <1>9, <1>10 DEF Claimed, Rows
<1>12. isAccepted(r.send) <=> isAccepted(p)
  BY <1>1, <1>7, <1>8, <1>9 DEF isAccepted
<1>13. isAccepted(p) => p = row.send /\ r.send.state = row.send.state
  <2>1. isAccepted(p) => ~InPlay(p)
    BY DEF isAccepted, InPlay
  <2>2. isAccepted(p) => q = None
    BY <1>4, <2>1
  <2> QED
    BY <1>4, <1>7, <1>9, <2>2 DEF isAccepted
<1>14. isAccepted(row.send) => p = row.send
  BY <1>4 DEF isAccepted
<1>15. Fits(k, r)
  <2>1. r.sentId = None
    BY <1>9, <1>10
  <2>2. \/ row.send # None /\ r.send.msg = row.send.msg
        \/ row.unconf # None /\ r.send.msg = row.unconf.msg
    BY <1>1, <1>4, <1>7, <1>9
  <2>3. isAccepted(row.send) => r.send.state = row.send.state
    BY <1>13, <1>14
  <2>4. isAccepted(r.send) => isAccepted(row.send) /\ r.send.state = row.send.state
    BY <1>12, <1>13
  <2>5. k \notin {"unconfirm", "finish", "settle", "delete"}
    BY DEF TakeOvers
  <2> QED
    BY <1>1, <2>1, <2>2, <2>3, <2>4, <2>5 DEF Fits
<1>16. k \in Kinds \ {"none"} /\ used' \subseteq Ops /\ used \subseteq used'
  BY <1>3 DEF Kinds, TakeOvers, IInv, TypeOK
<1>17. RowRests /\ UNCHANGED <<submissions, home, delivered, wire, copies>>
  BY <1>1, <1>3, <1>9, <1>16, DecideRests
<1>18. r.send.state # "unconfirmed" /\ r.send.op \in used' \ used
  BY <1>3, <1>7, <1>9
<1>19. k = "resume" => isAccepted(r.send)
  BY <1>1, <1>12, <1>14
<1> QED
  BY <1>1, <1>3, <1>9, <1>11, <1>15, <1>16, <1>17, <1>18, <1>19, DecideInv

\* BeginUnconfirm preserves the invariant.
LEMMA BeginUnconfirmInv ==
  ASSUME IInv, NEW c \in Clients, BeginUnconfirm(c) PROVE IInv'
<1> DEFINE b == Bump(row)
           r == [b EXCEPT !.send = None, !.unconf = row.send]
<1>1. /\ row \in Rows /\ Live(row) /\ task[c].pc = "idle"
      /\ row.send # None /\ unconfirmedSendOf(row) # None
      /\ Decide(c, "unconfirm", r)
      /\ UNCHANGED <<row, fresh, home, mail, mints, faults, history>>
  BY DEF BeginUnconfirm, IInv, TypeOK
<1>2. row.send \in Sends /\ InPlay(row.send)
  BY <1>1, InQuestionFields
<1>3. /\ b \in Rows /\ b.version = row.version + 1 /\ b.deleted = row.deleted
      /\ b.sentId = row.sentId
  BY <1>1, BumpFields
<1> HIDE DEF b
<1>4. /\ r \in Rows /\ r.version = row.version + 1 /\ r.send = None
      /\ r.unconf = row.send /\ r.deleted = row.deleted /\ r.sentId = row.sentId
  BY <1>2, <1>3 DEF Rows
<1> HIDE DEF r
<1>5. ~row.deleted /\ row.sentId = None
  BY <1>1 DEF Live, IInv, RowOK
<1>6. Fits("unconfirm", r)
  BY <1>1, <1>2, <1>4, <1>5 DEF Fits, TakeOvers
<1>7. used \subseteq used' /\ used' \subseteq Ops /\ UNCHANGED minted
  BY <1>1 DEF mints, IInv, TypeOK
<1>8. "unconfirm" \in Kinds \ {"none"} /\ "unconfirm" \notin TakeOvers
  BY DEF Kinds, TakeOvers
<1>9. RowRests /\ UNCHANGED <<submissions, home, delivered, wire, copies>>
  BY <1>1, <1>4, <1>7, <1>8, DecideRests
<1> QED
  BY <1>1, <1>4, <1>6, <1>8, <1>9, DecideInv

\* BeginFinish preserves the invariant.
LEMMA BeginFinishInv ==
  ASSUME IInv, NEW c \in Clients, BeginFinish(c) PROVE IInv'
<1> DEFINE r == tombstoneOfSent(row, row.send.msg, TRUE)
<1>1. /\ row \in Rows /\ Live(row) /\ task[c].pc = "idle"
      /\ openSendAccepted(row) /\ Decide(c, "finish", r)
      /\ UNCHANGED <<row, fresh, home, mail, mints, faults, history>>
  BY DEF BeginFinish, IInv, TypeOK
<1>2. isAccepted(row.send) /\ row.send.msg \in Messages
  BY <1>1, SendFields
     DEF openSendAccepted, unconfirmedSendOf, isAccepted, States
<1>3. /\ r \in Rows /\ r.version = row.version + 1 /\ r.sentId = row.send.msg
  BY <1>1, <1>2, TombstoneFields
<1>4. "finish" \in Kinds \ {"none"}
      /\ "finish" \notin TakeOvers \cup {"unconfirm", "delete", "settle"}
  BY DEF Kinds, TakeOvers
<1>5. Fits("finish", r)
  BY <1>1, <1>2, <1>3, <1>4, NoneApart DEF Fits
<1>6. used \subseteq used' /\ used' \subseteq Ops /\ UNCHANGED minted
  BY <1>1 DEF mints, IInv, TypeOK
<1> HIDE DEF r
<1>7. RowRests /\ UNCHANGED <<submissions, home, delivered, wire, copies>>
  BY <1>1, <1>3, <1>4, <1>6, DecideRests
<1> QED
  BY <1>1, <1>3, <1>4, <1>5, <1>7, DecideInv

\* BeginSettle preserves the invariant.
LEMMA BeginSettleInv ==
  ASSUME IInv, NEW c \in Clients, BeginSettle(c) PROVE IInv'
<1> DEFINE s == unconfirmedSendOf(row)
           r == tombstoneOfSent(row, s.msg, FALSE)
<1>1. /\ row \in Rows /\ Live(row) /\ task[c].pc = "idle"
      /\ s # None /\ copies[s.msg] > 0 /\ Decide(c, "settle", r)
      /\ UNCHANGED <<row, fresh, home, mail, mints, faults, history>>
  BY DEF BeginSettle, IInv, TypeOK
<1>2. s \in {row.send, row.unconf} /\ InPlay(s) /\ s.msg \in Messages
  BY <1>1, InQuestionFields
<1>3. /\ r \in Rows /\ r.version = row.version + 1 /\ r.sentId = s.msg
  BY <1>1, <1>2, TombstoneFields
<1>4. "settle" \in Kinds \ {"none"}
      /\ "settle" \notin TakeOvers \cup {"unconfirm", "delete", "finish"}
  BY DEF Kinds, TakeOvers
<1>5. Fits("settle", r)
  BY <1>1, <1>2, <1>3, <1>4, NoneApart DEF Fits
<1>6. used \subseteq used' /\ used' \subseteq Ops /\ UNCHANGED minted
  BY <1>1 DEF mints, IInv, TypeOK
<1> HIDE DEF s, r
<1>7. RowRests /\ UNCHANGED <<submissions, home, delivered, wire, copies>>
  BY <1>1, <1>3, <1>4, <1>6, DecideRests
<1> QED
  BY <1>1, <1>3, <1>4, <1>5, <1>7, DecideInv

\* BeginDelete preserves the invariant.
LEMMA BeginDeleteInv ==
  ASSUME IInv, NEW c \in Clients, BeginDelete(c) PROVE IInv'
<1> DEFINE b == Bump(row)
           r == [b EXCEPT !.deleted = TRUE]
<1>1. /\ row \in Rows /\ Live(row) /\ task[c].pc = "idle"
      /\ IF row.send = None THEN row.unconf = None
         ELSE row.send.state = "submitting" /\ ~heldSend(row)
      /\ Decide(c, "delete", r) /\ r = [Bump(row) EXCEPT !.deleted = TRUE]
      /\ UNCHANGED <<row, fresh, home, mail, mints, faults, history>>
  BY DEF BeginDelete, IInv, TypeOK
<1>2. row.unconf = None /\ (row.send # None => row.send.state = "submitting")
      /\ row.sentId = None
  BY <1>1 DEF IInv, RowOK, Live
<1>3. b \in Rows /\ b.version = row.version + 1 /\ b.sentId = row.sentId
  BY <1>1, BumpFields
<1> HIDE DEF b
<1>4. r \in Rows /\ r.version = row.version + 1 /\ r.sentId = None
  BY <1>2, <1>3 DEF Rows
<1> HIDE DEF r
<1>5. "delete" \in Kinds \ {"none"}
      /\ "delete" \notin TakeOvers \cup {"unconfirm", "settle", "finish"}
  BY DEF Kinds, TakeOvers
<1>6. Fits("delete", r)
  BY <1>1, <1>2, <1>4, <1>5 DEF Fits
<1>7. used \subseteq used' /\ used' \subseteq Ops /\ UNCHANGED minted
  BY <1>1 DEF mints, IInv, TypeOK
<1>8. RowRests /\ UNCHANGED <<submissions, home, delivered, wire, copies>>
  BY <1>1, <1>4, <1>5, <1>7, DecideRests
<1> QED
  BY <1>1, <1>4, <1>5, <1>6, <1>8, DecideInv

-----------------------------------------------------------------------------
(* The steps of runSend between its writes. *)

\* A message out, or with a client that may send it, was minted.
LEMMA ActiveMinted ==
  ASSUME IInv, NEW m \in Messages, Active(m) PROVE m \in minted
<1>1. \A d \in Clients : Submitting(d) => Msg(d) \in minted
  BY HoldsFields DEF IInv, Submitting, Holds, IsRunning, Running
<1>2. \A d \in Clients : task[d].pc = "await" => Submitting(d)
  BY DEF Submitting, BeforeAnswer
<1> QED
  BY <1>1, <1>2 DEF Active, MayBeOut, IInv, MailOK

\* What a step does that leaves the record and the history of claims alone.
MailMoves ==
  /\ UNCHANGED <<row, mints, asked, again, letGo>>
  /\ home = "removed" => home' = "removed"
  /\ home' \in HomeKinds /\ fresh' \subseteq Ops /\ faults' \in Nat
  /\ wire' \in [Messages -> Nat] /\ delivered' \in [Messages -> Nat]
  /\ late' \in [Messages -> Nat] /\ copies' \in [Messages -> Nat]
  /\ submissions' \in [Ops -> Nat]
  /\ \A m \in Messages :
       /\ delivered[m] > 0 => delivered'[m] > 0
       /\ copies[m] > 0 => copies'[m] > 0
       /\ delivered'[m] > 0 \/ wire'[m] > 0 => Active(m)
       /\ copies'[m] > 0 \/ late'[m] > 0
            => copies[m] > 0 \/ late[m] > 0 \/ delivered[m] > 0

\* Such a step, of a client that submits nothing new, leaves the record at rest.
LEMMA MailMovesRest ==
  ASSUME IInv, MailMoves,
         task' \in [Clients -> [pc : {"idle", "decided"} \cup Running,
                               kind : Kinds, row : Rows]],
         \A d \in Clients : Submitting(d)' => Submitting(d) /\ Msg(d)' = Msg(d)
  PROVE  RowRests /\ UNCHANGED used
<1>1. UNCHANGED <<row, minted, used, asked, again, letGo>>
  BY DEF MailMoves, mints
<1>2. TypeOK'
  BY <1>1 DEF IInv, TypeOK, MailMoves
<1>3. Grows
  BY <1>1 DEF Grows, MailMoves
<1>4. MailOK'
  BY <1>1, ActiveMinted DEF IInv, MailOK, MailMoves
<1>5. \A m \in Messages : Active(m)' => Active(m)
  <2>1. \A d \in Clients : task'[d].pc = "await" => Submitting(d)'
    BY DEF Submitting, BeforeAnswer
  <2>2. \A d \in Clients, m \in Messages : Submitting(d) /\ Msg(d) = m => Active(m)
    BY DEF Active
  <2> QED
    BY <2>1, <2>2 DEF Active, MayBeOut, MailMoves
<1> QED
  BY <1>1, <1>2, <1>3, <1>4, <1>5 DEF RowRests

\* The typed record of a client that goes on or stops.
LEMMA GotoTypes ==
  ASSUME IInv, NEW c \in Clients, NEW p \in Running,
         \/ Goto(c, p) /\ (p \in BeforeAnswer \cup AfterAnswer => Submitting(c))
         \/ Stop(c)
  PROVE  /\ task' \in [Clients -> [pc : {"idle", "decided"} \cup Running,
                                   kind : Kinds, row : Rows]]
         /\ \A d \in Clients : Submitting(d)' => Submitting(d) /\ Msg(d)' = Msg(d)
<1>1. task' \in [Clients -> [pc : {"idle", "decided"} \cup Running,
                             kind : Kinds, row : Rows]]
  BY NoRowType DEF IInv, TypeOK, Goto, Stop, Idle, Kinds
<1>2. \A d \in Clients : d # c => task'[d] = task[d]
  BY DEF IInv, TypeOK, Goto, Stop
<1>3. \/ task'[c] = Idle
      \/ /\ task'[c].pc = p /\ task'[c].row = task[c].row
         /\ p \in BeforeAnswer \cup AfterAnswer => Submitting(c)
  BY DEF IInv, TypeOK, Goto, Stop
<1>4. Submitting(c)' => Submitting(c) /\ Msg(c)' = Msg(c)
  BY <1>3 DEF Submitting, Msg, Idle, BeforeAnswer, AfterAnswer
<1> QED
  BY <1>1, <1>2, <1>4 DEF Submitting, Msg

\* What a step of client c may put out: its own message, once.
PutsOut(c) ==
  \A m \in Messages :
    delivered[m] = 0 /\ wire[m] = 0
      => (delivered'[m] = 0 /\ wire'[m] = 0) \/ (Submitting(c) /\ m = Msg(c))

\* A step of runSend that writes no record preserves the invariant.
LEMMA RunInv ==
  ASSUME IInv, NEW c \in Clients, NEW p \in Running, IsRunning(c), Goto(c, p),
         MailMoves, PutsOut(c),
         p \notin {"submit", "complete"},
         p \in BeforeAnswer \cup AfterAnswer => Submitting(c),
         p \in Copying => task[c].pc \in Copying,
         p = "accepted" => delivered'[Msg(c)] > 0,
         p = "copied" => copies'[Msg(c)] > 0 \/ home' = "removed",
         \A o \in Ops : submissions'[o] = submissions[o] \/ o = Op(c),
         SubmissionsOK',
         p \in {"await", "refused"} /\ Msg(c) \notin again
           => delivered'[Msg(c)] = 0 /\ wire'[Msg(c)] = 0
  PROVE  IInv'
<1>1. RowRests /\ UNCHANGED used
  BY GotoTypes, MailMovesRest
<1> QED
  BY <1>1, GotoInv DEF Goto, PutsOut

\* A client that stops, whatever it leaves with the servers, preserves the invariant.
LEMMA HaltInv ==
  ASSUME IInv, NEW c \in Clients, Stop(c), MailMoves, PutsOut(c), UNCHANGED submissions
  PROVE  IInv'
<1>1. "await" \in Running
  BY DEF Running, BeforeAnswer
<1>2. RowRests /\ UNCHANGED used
  BY <1>1, GotoTypes, MailMovesRest
<1> QED
  BY <1>2, StopInv DEF PutsOut

\* A step that leaves the mail servers alone too.
LEMMA MailRests ==
  ASSUME IInv, NEW c \in Clients, UNCHANGED <<row, mints, mail, asked, again, letGo>>,
         home = "removed" => home' = "removed",
         home' \in HomeKinds, fresh' \subseteq Ops, faults' \in Nat,
         submissions' \in [Ops -> Nat]
  PROVE  MailMoves /\ PutsOut(c)
         /\ (UNCHANGED submissions => SubmissionsOK')
<1>1. UNCHANGED <<wire, delivered, late, copies, used>>
  BY DEF mail, mints
<1> QED
  BY <1>1 DEF MailMoves, PutsOut, IInv, TypeOK, Active, MayBeOut, SubmissionsOK

\* A runner before its answer, on the only try of its message, has put
\* nothing out.
LEMMA NothingOut ==
  ASSUME IInv, NEW c \in Clients, task[c].pc \in BeforeAnswer, Msg(c) \notin again
  PROVE  delivered[Msg(c)] = 0 /\ wire[Msg(c)] = 0
  BY DEF IInv, OnlyTry, Submitting

\* A runner's claim and message, with its place in runSend.
LEMMA RunnerFields ==
  ASSUME IInv, NEW c \in Clients, task[c].pc \in Running
  PROVE  /\ IsRunning(c) /\ Msg(c) \in Messages /\ Op(c) \in Ops /\ Op(c) \in used
         /\ Submitting(c) => Active(Msg(c)) /\ Op(c) \in asked
         /\ task[c].pc \in Copying => delivered[Msg(c)] > 0
         /\ task[c].pc = "submit" => submissions[Op(c)] = 0
<1>1. IsRunning(c) /\ Holds(c)
  BY DEF IsRunning, Holds
<1>2. Msg(c) \in Messages /\ Op(c) \in Ops /\ Op(c) \in used
  BY <1>1, HoldsFields DEF IInv
<1>3. /\ Submitting(c) => Op(c) \in asked
      /\ task[c].pc \in Copying => delivered[Msg(c)] > 0
      /\ task[c].pc = "submit" => submissions[Op(c)] = 0
  BY <1>1 DEF IInv, HandleOK, Op, Msg
<1>4. Submitting(c) => Active(Msg(c))
  BY DEF Active
<1> QED
  BY <1>1, <1>2, <1>3, <1>4

\* SubmitFails preserves the invariant.
LEMMA SubmitFailsInv == ASSUME IInv, NEW c \in Clients, SubmitFails(c) PROVE IInv'
<1>1. /\ task[c].pc = "submit" /\ Goto(c, "refused") /\ submissions' = submissions
      /\ UNCHANGED <<row, fresh, home, mail, mints, faults, asked, again, letGo>>
  BY DEF SubmitFails, history
<1>2. MailMoves /\ PutsOut(c) /\ SubmissionsOK'
  BY <1>1, MailRests DEF IInv, TypeOK
<1>3. "refused" \in Running /\ "submit" \in Running \cap BeforeAnswer
      /\ "refused" \notin Copying
  BY DEF Running, AfterAnswer, BeforeAnswer, Copying
<1>4. Submitting(c) /\ IsRunning(c)
  BY <1>1, <1>3 DEF Submitting, IsRunning
<1>5. Msg(c) \notin again => delivered'[Msg(c)] = 0 /\ wire'[Msg(c)] = 0
  BY <1>1, <1>3, NothingOut DEF mail
<1> QED
  BY <1>1, <1>2, <1>3, <1>4, <1>5, RunInv

\* EndData preserves the invariant.
LEMMA EndDataInv == ASSUME IInv, NEW c \in Clients, EndData(c) PROVE IInv'
<1>1. /\ task[c].pc = "submit" /\ Goto(c, "await")
      /\ submissions' = [submissions EXCEPT ![Op(c)] = @ + 1]
      /\ UNCHANGED <<row, fresh, home, mail, mints, faults, asked, again, letGo>>
  BY DEF EndData
<1>2. "await" \in Running /\ "submit" \in Running \cap BeforeAnswer
      /\ "await" \notin Copying
  BY DEF Running, BeforeAnswer, Copying
<1>3. Submitting(c) /\ IsRunning(c)
  BY <1>1, <1>2 DEF Submitting, IsRunning
<1>4. Op(c) \in Ops /\ Op(c) \in used /\ Op(c) \in asked /\ submissions[Op(c)] = 0
  BY <1>1, <1>2, <1>3, RunnerFields
<1>5. submissions' \in [Ops -> Nat] /\ submissions'[Op(c)] = 1
      /\ \A o \in Ops : o # Op(c) => submissions'[o] = submissions[o]
  BY <1>1, <1>4 DEF IInv, TypeOK
<1>6. MailMoves /\ PutsOut(c)
  BY <1>1, <1>5, MailRests DEF IInv, TypeOK
<1>7. SubmissionsOK'
  BY <1>1, <1>4, <1>5 DEF IInv, SubmissionsOK, mints
<1>8. Msg(c) \notin again => delivered'[Msg(c)] = 0 /\ wire'[Msg(c)] = 0
  BY <1>1, <1>2, NothingOut DEF mail
<1> QED
  BY <1>1, <1>2, <1>3, <1>5, <1>6, <1>7, <1>8, RunInv

\* Accept preserves the invariant.
LEMMA AcceptInv == ASSUME IInv, NEW c \in Clients, Accept(c) PROVE IInv'
<1>1. PICK p \in {"accepted", "lost"} : Goto(c, p)
  BY DEF Accept
<1>2. /\ task[c].pc = "await" /\ faults' \in Nat
      /\ delivered' = [delivered EXCEPT ![Msg(c)] = @ + 1]
      /\ UNCHANGED <<row, fresh, home, wire, late, copies, mints, submissions,
                     asked, again, letGo>>
  BY DEF Accept, Fault, history, IInv, TypeOK
<1>3. p \in Running /\ "await" \in Running \cap BeforeAnswer /\ p \notin Copying
      /\ p \in AfterAnswer
  BY DEF Running, BeforeAnswer, AfterAnswer, Copying
<1>4. Submitting(c) /\ IsRunning(c)
  BY <1>2, <1>3 DEF Submitting, IsRunning
<1>5. Msg(c) \in Messages /\ Active(Msg(c))
  BY <1>2, <1>3, <1>4, RunnerFields
<1>6. delivered' \in [Messages -> Nat] /\ delivered'[Msg(c)] > 0
      /\ \A m \in Messages : m # Msg(c) => delivered'[m] = delivered[m]
  BY <1>2, <1>5 DEF IInv, TypeOK
<1>7. MailMoves /\ PutsOut(c)
  BY <1>2, <1>4, <1>5, <1>6 DEF MailMoves, PutsOut, IInv, TypeOK, Active, MayBeOut
<1>8. SubmissionsOK'
  BY <1>2 DEF IInv, SubmissionsOK, mints
<1> QED
  BY <1>1, <1>2, <1>3, <1>4, <1>6, <1>7, <1>8, RunInv

\* Refuse preserves the invariant.
LEMMA RefuseInv == ASSUME IInv, NEW c \in Clients, Refuse(c) PROVE IInv'
<1>1. /\ task[c].pc = "await" /\ Goto(c, "refused") /\ submissions' = submissions
      /\ UNCHANGED <<row, fresh, home, mail, mints, faults, asked, again, letGo>>
  BY DEF Refuse, history
<1>2. MailMoves /\ PutsOut(c) /\ SubmissionsOK'
  BY <1>1, MailRests DEF IInv, TypeOK
<1>3. "refused" \in Running /\ "await" \in Running \cap BeforeAnswer
      /\ "refused" \notin Copying
  BY DEF Running, AfterAnswer, BeforeAnswer, Copying
<1>4. Submitting(c) /\ IsRunning(c)
  BY <1>1, <1>3 DEF Submitting, IsRunning
<1>5. Msg(c) \notin again => delivered'[Msg(c)] = 0 /\ wire'[Msg(c)] = 0
  BY <1>1, <1>3, NothingOut DEF mail
<1> QED
  BY <1>1, <1>2, <1>3, <1>4, <1>5, RunInv

\* LoseAnswer preserves the invariant.
LEMMA LoseAnswerInv == ASSUME IInv, NEW c \in Clients, LoseAnswer(c) PROVE IInv'
<1>1. /\ task[c].pc = "await" /\ faults' \in Nat /\ Goto(c, "lost")
      /\ wire' = [wire EXCEPT ![Msg(c)] = @ + 1]
      /\ UNCHANGED <<row, fresh, home, delivered, late, copies, mints, submissions,
                     asked, again, letGo>>
  BY DEF LoseAnswer, Fault, history, IInv, TypeOK
<1>2. "lost" \in Running /\ "await" \in Running \cap BeforeAnswer
      /\ "lost" \notin Copying
  BY DEF Running, AfterAnswer, BeforeAnswer, Copying
<1>3. Submitting(c) /\ IsRunning(c)
  BY <1>1, <1>2 DEF Submitting, IsRunning
<1>4. Msg(c) \in Messages /\ Active(Msg(c))
  BY <1>1, <1>2, <1>3, RunnerFields
<1>5. wire' \in [Messages -> Nat]
      /\ \A m \in Messages : m # Msg(c) => wire'[m] = wire[m]
  BY <1>1, <1>4 DEF IInv, TypeOK
<1>6. MailMoves /\ PutsOut(c)
  BY <1>1, <1>3, <1>4, <1>5 DEF MailMoves, PutsOut, IInv, TypeOK, Active, MayBeOut
<1>7. SubmissionsOK'
  BY <1>1 DEF IInv, SubmissionsOK, mints
<1> QED
  BY <1>1, <1>2, <1>3, <1>6, <1>7, RunInv

\* Steps of a runner that is filing its copy, whose message was delivered.
LEMMA FilingInv ==
  ASSUME IInv, NEW c \in Clients, task[c].pc \in Copying,
         NEW p \in Copying, Goto(c, p) \/ Stop(c),
         UNCHANGED <<row, fresh, home, wire, delivered, mints, history>>,
         faults' \in Nat,
         late' \in [Messages -> Nat], copies' \in [Messages -> Nat],
         \A m \in Messages : copies[m] > 0 => copies'[m] > 0,
         \A m \in Messages \ {Msg(c)} : copies'[m] = copies[m] /\ late'[m] = late[m],
         p = "copied" => copies'[Msg(c)] > 0 \/ home = "removed"
  PROVE  IInv'
<1>1. UNCHANGED <<submissions, asked, again, letGo>>
  BY DEF history
<1>2. task[c].pc \in Running /\ p \in Running
      /\ p \notin {"submit", "complete", "await", "refused", "accepted"}
      /\ p \notin BeforeAnswer \cup AfterAnswer
  BY DEF Running, AfterAnswer, BeforeAnswer, Copying
<1>3. IsRunning(c) /\ Msg(c) \in Messages /\ delivered[Msg(c)] > 0
  BY <1>2, RunnerFields
<1>4. MailMoves /\ PutsOut(c)
  BY <1>1, <1>3 DEF MailMoves, PutsOut, IInv, TypeOK, Active, MayBeOut
<1>5. SubmissionsOK'
  BY <1>1 DEF IInv, SubmissionsOK, mints
<1>6. CASE Goto(c, p)
  BY <1>1, <1>2, <1>3, <1>4, <1>5, <1>6, RunInv
<1>7. CASE Stop(c)
  BY <1>1, <1>4, <1>7, HaltInv
<1> QED
  BY <1>6, <1>7

\* CopyToVault preserves the invariant.
LEMMA CopyToVaultInv == ASSUME IInv, NEW c \in Clients, CopyToVault(c) PROVE IInv'
<1>1. /\ task[c].pc \in Copying /\ task[c].pc \in Running /\ faults' \in Nat
      /\ UNCHANGED <<row, fresh, home, wire, delivered, late, mints, history>>
  BY DEF CopyToVault, Copying, Running, Fault, IInv, TypeOK
<1>2. Msg(c) \in Messages
  BY <1>1, RunnerFields
<1>3. late' \in [Messages -> Nat]
  BY <1>1 DEF IInv, TypeOK
<1>4. "copied" \in Copying /\ "failed" \in Copying
  BY DEF Copying
<1>5. CASE copies' = [copies EXCEPT ![Msg(c)] = 1] /\ (Goto(c, "copied") \/ Stop(c))
  BY <1>1, <1>2, <1>3, <1>4, <1>5, FilingInv DEF IInv, TypeOK
<1>6. CASE /\ copies' = [copies EXCEPT ![Msg(c)] = 1] \/ copies' = copies
           /\ Goto(c, "failed") \/ Stop(c)
  <2>1. /\ copies' \in [Messages -> Nat]
        /\ \A m \in Messages : copies[m] > 0 => copies'[m] > 0
        /\ \A m \in Messages \ {Msg(c)} : copies'[m] = copies[m]
    BY <1>2, <1>6 DEF IInv, TypeOK
  <2> QED
    BY <1>1, <1>2, <1>3, <1>4, <1>6, <2>1, FilingInv
<1> QED
  BY <1>5, <1>6 DEF CopyToVault

\* CopyNowhere preserves the invariant.
LEMMA CopyNowhereInv == ASSUME IInv, NEW c \in Clients, CopyNowhere(c) PROVE IInv'
<1>1. /\ task[c].pc \in Copying /\ faults' \in Nat /\ Goto(c, "copied")
      /\ home = "removed" /\ "copied" \in Copying
      /\ UNCHANGED <<row, fresh, home, wire, delivered, late, copies, mints, history>>
  BY DEF CopyNowhere, Copying, mail, IInv, TypeOK
<1> QED
  BY <1>1, FilingInv DEF IInv, TypeOK

\* SearchSent preserves the invariant.
LEMMA SearchSentInv == ASSUME IInv, NEW c \in Clients, SearchSent(c) PROVE IInv'
<1>1. /\ task[c].pc \in Copying /\ faults' \in Nat
      /\ UNCHANGED <<row, fresh, home, wire, delivered, late, copies, mints, history>>
  BY DEF SearchSent, Copying, mail, Fault, IInv, TypeOK
<1>2. PICK p \in {"nocopy", "copied", "append", "failed"} :
        Goto(c, p) /\ (p = "copied" => copies[Msg(c)] > 0)
  BY DEF SearchSent
<1>3. p \in Copying
  BY DEF Copying
<1> QED
  BY <1>1, <1>2, <1>3, FilingInv DEF IInv, TypeOK

\* Append preserves the invariant.
LEMMA AppendInv == ASSUME IInv, NEW c \in Clients, Append(c) PROVE IInv'
<1>1. /\ task[c].pc \in Copying /\ task[c].pc \in Running /\ faults' \in Nat
      /\ UNCHANGED <<row, fresh, home, wire, delivered, mints, history>>
  BY DEF Append, Copying, Running, Fault, IInv, TypeOK
<1>2. Msg(c) \in Messages
  BY <1>1, RunnerFields
<1>3. "copied" \in Copying /\ "failed" \in Copying
  BY DEF Copying
<1>4. CASE /\ copies' = [copies EXCEPT ![Msg(c)] = @ + 1] /\ late' = late
           /\ Goto(c, "copied") \/ Goto(c, "failed")
  <2>1. /\ copies' \in [Messages -> Nat] /\ late' \in [Messages -> Nat]
        /\ copies'[Msg(c)] > 0
        /\ \A m \in Messages : copies[m] > 0 => copies'[m] > 0
        /\ \A m \in Messages \ {Msg(c)} : copies'[m] = copies[m] /\ late'[m] = late[m]
    BY <1>2, <1>4 DEF IInv, TypeOK
  <2> QED
    BY <1>1, <1>3, <1>4, <2>1, FilingInv
<1>5. CASE /\ late' = [late EXCEPT ![Msg(c)] = @ + 1] \/ late' = late
           /\ Goto(c, "failed") /\ copies' = copies
  <2>1. /\ copies' \in [Messages -> Nat] /\ late' \in [Messages -> Nat]
        /\ \A m \in Messages \ {Msg(c)} : late'[m] = late[m]
    BY <1>2, <1>5 DEF IInv, TypeOK
  <2> QED
    BY <1>1, <1>3, <1>5, <2>1, FilingInv
<1> QED
  BY <1>4, <1>5 DEF Append

-----------------------------------------------------------------------------
(* The record writes of runSend. *)

\* The handle a runner writes from.
LEMMA HandleFields ==
  ASSUME IInv, NEW c \in Clients, task[c].pc \in Running
  PROVE  LET h == task[c].row
         IN /\ IsRunning(c) /\ h \in Rows /\ h.send # None /\ h.unconf = None
            /\ h.sentId = None /\ ~h.deleted
            /\ Msg(c) = h.send.msg /\ Op(c) = h.send.op
            /\ Msg(c) \in Messages /\ Op(c) \in Ops
            /\ fresh \subseteq Ops
<1>1. IsRunning(c) /\ Holds(c)
  BY DEF IsRunning, Holds
<1> QED
  BY <1>1, HoldsFields DEF IInv, Claimed, Msg, Op, TypeOK

\* RecordLost preserves the invariant.
LEMMA RecordLostInv == ASSUME IInv, NEW c \in Clients, RecordLost(c) PROVE IInv'
<1> DEFINE h == task[c].row
           r == advanceSend(h, "unconfirmed")
<1>1. /\ task[c].pc = "lost" /\ "lost" \in Running
      /\ Write(c, r, "idle") /\ UNCHANGED <<fresh, home, mail, mints, history>>
  BY DEF RecordLost, Running, AfterAnswer
<1>2. /\ IsRunning(c) /\ h \in Rows /\ h.send # None /\ h.unconf = None
      /\ h.sentId = None /\ ~h.deleted /\ fresh' \subseteq Ops
      /\ Msg(c) = h.send.msg /\ Op(c) = h.send.op
  BY <1>1, HandleFields
<1> HIDE DEF h
<1>3. /\ r \in Rows /\ r.version = h.version + 1 /\ r.unconf = None /\ r.sentId = None
      /\ ~r.deleted /\ r.send # None /\ r.send.msg = h.send.msg
      /\ r.send.op = h.send.op /\ r.send.state = "unconfirmed"
  BY <1>2, AdvanceFields DEF States
<1> HIDE DEF r
<1>4. MayWrite(c, r)
  BY <1>2, <1>3 DEF MayWrite, isAccepted, Mentions, h
<1> QED
  BY <1>1, <1>2, <1>3, <1>4, WriteInv

\* Release preserves the invariant.
LEMMA ReleaseInv == ASSUME IInv, NEW c \in Clients, Release(c) PROVE IInv'
<1> DEFINE h == task[c].row
           r == releaseSend(h)
<1>1. /\ task[c].pc = "refused" /\ "refused" \in Running
      /\ Write(c, r, "idle") /\ UNCHANGED <<fresh, home, mail, mints, history>>
  BY DEF Release, Running, AfterAnswer
<1>2. /\ IsRunning(c) /\ h \in Rows /\ h.unconf = None /\ h.sentId = None
      /\ fresh' \subseteq Ops
  BY <1>1, HandleFields
<1> HIDE DEF h
<1>3. /\ r \in Rows /\ r.version = h.version + 1 /\ r.unconf = None /\ r.sentId = None
      /\ r.send = None
  BY <1>2, ReleaseFields
<1> HIDE DEF r
<1>4. MayWrite(c, r)
  BY <1>1, <1>3 DEF MayWrite, h
<1> QED
  BY <1>1, <1>2, <1>3, <1>4, WriteInv

\* RecordAccepted preserves the invariant.
LEMMA RecordAcceptedInv ==
  ASSUME IInv, NEW c \in Clients, RecordAccepted(c) PROVE IInv'
<1> DEFINE h == task[c].row
           r == advanceSend(h, "submitted")
<1>1. /\ task[c].pc = "accepted" /\ "accepted" \in Running
      /\ Write(c, r, "copy") /\ UNCHANGED <<fresh, home, mail, mints, history>>
  BY DEF RecordAccepted, Running, AfterAnswer
<1>2. /\ IsRunning(c) /\ h \in Rows /\ h.send # None /\ h.unconf = None
      /\ h.sentId = None /\ ~h.deleted /\ fresh' \subseteq Ops
      /\ Msg(c) = h.send.msg /\ Op(c) = h.send.op
  BY <1>1, HandleFields
<1> HIDE DEF h
<1>3. /\ r \in Rows /\ r.version = h.version + 1 /\ r.unconf = None /\ r.sentId = None
      /\ ~r.deleted /\ r.send # None /\ r.send.msg = h.send.msg
      /\ r.send.op = h.send.op /\ r.send.state = "submitted"
  BY <1>2, AdvanceFields DEF States
<1> HIDE DEF r
<1>4. MayWrite(c, r)
  BY <1>1, <1>2, <1>3 DEF MayWrite, isAccepted, Mentions, h
<1> QED
  BY <1>1, <1>2, <1>3, <1>4, WriteInv

\* RecordCopied preserves the invariant.
LEMMA RecordCopiedInv ==
  ASSUME IInv, NEW c \in Clients, RecordCopied(c) PROVE IInv'
<1> DEFINE h == task[c].row
           r == advanceSend(h, "copied")
<1>1. /\ task[c].pc = "copied" /\ "copied" \in Running /\ "copied" \in Copying
      /\ Write(c, r, "complete") /\ UNCHANGED <<fresh, home, mail, mints, history>>
  BY DEF RecordCopied, Running, Copying
<1>2. /\ IsRunning(c) /\ h \in Rows /\ h.send # None /\ h.unconf = None
      /\ h.sentId = None /\ ~h.deleted /\ fresh' \subseteq Ops
      /\ Msg(c) = h.send.msg /\ Op(c) = h.send.op
  BY <1>1, HandleFields
<1> HIDE DEF h
<1>3. /\ r \in Rows /\ r.version = h.version + 1 /\ r.unconf = None /\ r.sentId = None
      /\ ~r.deleted /\ r.send # None /\ r.send.msg = h.send.msg
      /\ r.send.op = h.send.op /\ r.send.state = "copied"
  BY <1>2, AdvanceFields DEF States
<1> HIDE DEF r
<1>4. MayWrite(c, r)
  BY <1>1, <1>2, <1>3 DEF MayWrite, isAccepted, Mentions, h
<1> QED
  BY <1>1, <1>2, <1>3, <1>4, WriteInv

\* The tombstone of a finished run preserves the invariant.
LEMMA TombstoneInv ==
  ASSUME IInv, NEW c \in Clients, NEW w \in BOOLEAN,
         task[c].pc = "complete" \/ (task[c].pc = "nocopy" /\ w),
         Write(c, tombstoneOfSent(task[c].row, Msg(c), w), "idle"),
         UNCHANGED <<fresh, home, mail, mints, history>>
  PROVE  IInv'
<1> DEFINE h == task[c].row
           r == tombstoneOfSent(h, Msg(c), w)
<1>1. task[c].pc \in Running
  BY DEF Running, Copying
<1>2. IsRunning(c) /\ h \in Rows /\ fresh' \subseteq Ops /\ Msg(c) \in Messages
  BY <1>1, HandleFields
<1> HIDE DEF h
<1>3. /\ r \in Rows /\ r.version = h.version + 1 /\ r.unconf = None /\ r.send = None
      /\ r.deleted /\ r.sentId = Msg(c) /\ r.noCopy = w
  BY <1>2, TombstoneFields
<1>4. Write(c, r, "idle")
  BY DEF h
<1> HIDE DEF r
<1>5. MayWrite(c, r)
  BY <1>2, <1>3 DEF MayWrite, Mentions, h
<1> QED
  BY <1>2, <1>3, <1>4, <1>5, WriteInv

\* LetGoOfClaim preserves the invariant.
LEMMA LetGoOfClaimInv ==
  ASSUME IInv, NEW c \in Clients, LetGoOfClaim(c) PROVE IInv'
<1> DEFINE h == task[c].row
           r == Bump(h)
<1>1. /\ task[c].pc = "failed" /\ "failed" \in Running /\ "failed" \in Copying
      /\ Write(c, r, "idle") /\ UNCHANGED <<home, mail, mints, history>>
      /\ fresh' \subseteq fresh
  BY DEF LetGoOfClaim, Running, Copying
<1>2. /\ IsRunning(c) /\ h \in Rows /\ h.send # None /\ h.unconf = None
      /\ h.sentId = None /\ ~h.deleted /\ fresh' \subseteq Ops
      /\ Msg(c) = h.send.msg /\ Op(c) = h.send.op
  BY <1>1, HandleFields
<1>3. h.send.state = "submitted"
  BY <1>1, <1>2 DEF IInv, HandleOK
<1> HIDE DEF h
<1>4. /\ r \in Rows /\ r.version = h.version + 1 /\ r.unconf = None /\ r.sentId = None
      /\ ~r.deleted /\ r.send = h.send
  BY <1>2, BumpFields
<1> HIDE DEF r
<1>5. MayWrite(c, r)
  BY <1>1, <1>2, <1>3, <1>4 DEF MayWrite, isAccepted, Mentions, h
<1> QED
  BY <1>1, <1>2, <1>4, <1>5, WriteInv

-----------------------------------------------------------------------------
(* Death, time and the mail servers. *)

\* Crash preserves the invariant.
LEMMA CrashInv == ASSUME IInv, NEW c \in Clients, Crash(c) PROVE IInv'
<1>1. /\ Stop(c) /\ faults' \in Nat /\ submissions' = submissions
      /\ UNCHANGED <<row, fresh, home, delivered, copies, mints, asked, again, letGo>>
  BY DEF Crash, Fault, IInv, TypeOK, history
<1>2. /\ wire' \in [Messages -> Nat]
      /\ \A m \in Messages : wire'[m] > 0 => Active(m)
      /\ \A m \in Messages : wire[m] = 0 => wire'[m] = 0 \/ (Submitting(c) /\ m = Msg(c))
  <2>1. CASE task[c].pc = "await"
    <3>1. task[c].pc \in Running /\ Submitting(c)
      BY <2>1 DEF Running, BeforeAnswer, Submitting
    <3>2. Msg(c) \in Messages /\ Active(Msg(c))
      BY <3>1, RunnerFields
    <3>3. wire' = [wire EXCEPT ![Msg(c)] = @ + 1]
      BY <2>1 DEF Crash
    <3> QED
      BY <3>1, <3>2, <3>3 DEF IInv, TypeOK, Active, MayBeOut
  <2>2. CASE task[c].pc # "await"
    BY <2>2 DEF Crash, IInv, TypeOK, Active, MayBeOut
  <2> QED
    BY <2>1, <2>2
<1>3. /\ late' \in [Messages -> Nat]
      /\ \A m \in Messages : late'[m] > 0 => late[m] > 0 \/ delivered[m] > 0
  <2>1. CASE task[c].pc = "append" /\ late' = [late EXCEPT ![Msg(c)] = @ + 1]
    <3>1. task[c].pc \in Running /\ task[c].pc \in Copying
      BY <2>1 DEF Running, Copying
    <3>2. Msg(c) \in Messages /\ delivered[Msg(c)] > 0
      BY <3>1, RunnerFields
    <3> QED
      BY <2>1, <3>2 DEF IInv, TypeOK
  <2>2. CASE late' = late
    BY <2>2 DEF IInv, TypeOK
  <2> QED
    BY <2>1, <2>2 DEF Crash
<1>4. MailMoves /\ PutsOut(c)
  BY <1>1, <1>2, <1>3 DEF MailMoves, PutsOut, IInv, TypeOK, Active, MayBeOut
<1> QED
  BY <1>1, <1>4, HaltInv

\* No client moves, and nothing new is out.
LEMMA WorldInv ==
  ASSUME IInv, UNCHANGED <<task, submissions>>, MailMoves,
         \A m \in Messages :
           delivered[m] = 0 /\ wire[m] = 0 => delivered'[m] = 0 /\ wire'[m] = 0
  PROVE  IInv'
<1>1. task' \in [Clients -> [pc : {"idle", "decided"} \cup Running,
                             kind : Kinds, row : Rows]]
  BY DEF IInv, TypeOK
<1>2. \A d \in Clients : Submitting(d)' => Submitting(d) /\ Msg(d)' = Msg(d)
  BY DEF Submitting, Msg
<1>3. RowRests /\ UNCHANGED used
  BY <1>1, <1>2, MailMovesRest
<1> QED
  BY <1>3, QuietInv

\* A step of the leases or the address alone.
LEMMA LeaseInv ==
  ASSUME IInv, UNCHANGED <<row, task, mail, mints, history>>,
         home = "removed" => home' = "removed",
         home' \in HomeKinds, fresh' \subseteq Ops, faults' \in Nat
  PROVE  IInv'
<1>1. UNCHANGED <<wire, delivered, late, copies, submissions, asked, again, letGo>>
  BY DEF mail, history
<1>2. MailMoves
  BY <1>1 DEF MailMoves, IInv, TypeOK, Active, MayBeOut
<1> QED
  BY <1>1, <1>2, WorldInv

\* Lapse preserves the invariant.
LEMMA LapseInv == ASSUME IInv, NEW o \in Ops, Lapse(o) PROVE IInv'
  BY LeaseInv DEF Lapse, Fault, IInv, TypeOK

\* Renew preserves the invariant.
LEMMA RenewInv == ASSUME IInv, NEW c \in Clients, Renew(c) PROVE IInv'
<1>1. Op(c) \in Ops /\ fresh \subseteq Ops
  BY HandleFields DEF Renew
<1> QED
  BY <1>1, LeaseInv DEF Renew, IInv, TypeOK

\* RemoveAddress preserves the invariant.
LEMMA RemoveAddressInv == ASSUME IInv, RemoveAddress PROVE IInv'
  BY LeaseInv DEF RemoveAddress, HomeKinds, IInv, TypeOK

\* LateAnswer preserves the invariant.
LEMMA LateAnswerInv == ASSUME IInv, NEW m \in Messages, LateAnswer(m) PROVE IInv'
<1>1. /\ UNCHANGED <<row, task, fresh, home, late, copies, mints, faults,
                     submissions, asked, again, letGo>>
      /\ wire[m] > 0 /\ wire' = [wire EXCEPT ![m] = @ - 1]
      /\ delivered' = [delivered EXCEPT ![m] = @ + 1] \/ delivered' = delivered
  BY DEF LateAnswer, history
<1>2. /\ wire' \in [Messages -> Nat] /\ delivered' \in [Messages -> Nat]
      /\ \A x \in Messages : delivered[x] > 0 => delivered'[x] > 0
      /\ \A x \in Messages :
           x # m => delivered'[x] = delivered[x] /\ wire'[x] = wire[x]
  BY <1>1 DEF IInv, TypeOK
<1>3. MailMoves
  BY <1>1, <1>2 DEF MailMoves, IInv, TypeOK, Active, MayBeOut
<1>4. \A x \in Messages :
        delivered[x] = 0 /\ wire[x] = 0 => delivered'[x] = 0 /\ wire'[x] = 0
  BY <1>1, <1>2
<1> QED
  BY <1>1, <1>3, <1>4, WorldInv

\* LateStore preserves the invariant.
LEMMA LateStoreInv == ASSUME IInv, NEW m \in Messages, LateStore(m) PROVE IInv'
<1>1. /\ UNCHANGED <<row, task, fresh, home, wire, delivered, mints, faults,
                     submissions, asked, again, letGo>>
      /\ late[m] > 0 /\ late' = [late EXCEPT ![m] = @ - 1]
      /\ copies' = [copies EXCEPT ![m] = @ + 1] \/ copies' = copies
  BY DEF LateStore, history
<1>2. /\ late' \in [Messages -> Nat] /\ copies' \in [Messages -> Nat]
      /\ \A x \in Messages : copies[x] > 0 => copies'[x] > 0
      /\ \A x \in Messages : x # m => copies'[x] = copies[x] /\ late'[x] = late[x]
  BY <1>1 DEF IInv, TypeOK
<1>3. MailMoves
  BY <1>1, <1>2 DEF MailMoves, IInv, TypeOK, Active, MayBeOut
<1> QED
  BY <1>1, <1>3, WorldInv

\* ProviderFilesSent preserves the invariant.
LEMMA ProviderFilesSentInv ==
  ASSUME IInv, NEW m \in Messages, ProviderFilesSent(m) PROVE IInv'
<1>1. /\ UNCHANGED <<row, task, fresh, home, wire, delivered, late, mints, faults,
                     submissions, asked, again, letGo>>
      /\ delivered[m] > 0 /\ copies' = [copies EXCEPT ![m] = 1]
  BY DEF ProviderFilesSent, history
<1>2. /\ copies' \in [Messages -> Nat]
      /\ \A x \in Messages : copies[x] > 0 => copies'[x] > 0
      /\ \A x \in Messages : x # m => copies'[x] = copies[x]
  BY <1>1 DEF IInv, TypeOK
<1>3. MailMoves
  BY <1>1, <1>2 DEF MailMoves, IInv, TypeOK, Active, MayBeOut
<1> QED
  BY <1>1, <1>3, WorldInv

-----------------------------------------------------------------------------
(* The invariant is inductive. *)

\* createDraft's first record satisfies the invariant.
LEMMA InitInv == Init => IInv
<1> SUFFICES ASSUME Init PROVE IInv
  OBVIOUS
<1>1. /\ row \in Rows /\ row.version = 1 /\ row.send = None /\ row.unconf = None
      /\ row.sentId = None
  BY DEF Init, NoRow, Rows
<1>2. \A c \in Clients : task[c] = Idle /\ ~IsRunning(c) /\ ~IsDecided(c) /\ ~Submitting(c)
  BY DEF Init, Idle, IsRunning, IsDecided, Submitting, Running, BeforeAnswer,
     AfterAnswer, Copying
<1>3. TypeOK
  <2>1. task \in [Clients -> [pc : {"idle", "decided"} \cup Running,
                              kind : Kinds, row : Rows]]
    BY NoRowType DEF Init, Idle, Kinds
  <2>2. home \in HomeKinds
    BY ConstantsAssumption DEF Init
  <2> QED
    BY <1>1, <2>1, <2>2 DEF Init, TypeOK
<1>4. RowOK
  BY <1>1 DEF RowOK, RecordIsTruthful, isAccepted
<1>5. \A c \in Clients : HandleOK(c) /\ DecidedOK(c)
  BY <1>2 DEF HandleOK, DecidedOK
<1>6. Owned
  BY <1>2 DEF Owned, TakesOver
<1>7. MailOK /\ SubmissionsOK
  BY DEF Init, MailOK, SubmissionsOK
<1>8. OnlyTry
  BY <1>2 DEF OnlyTry
<1>9. Remembered
  <2>1. \A m \in Messages : ~MayBeOut(m)
    BY <1>2 DEF Init, MayBeOut, Idle
  <2> QED
    BY <1>2, <2>1 DEF Remembered
<1> QED
  BY <1>3, <1>4, <1>5, <1>6, <1>7, <1>8, <1>9 DEF IInv

\* Every step, and every stutter, preserves the invariant.
LEMMA NextInv == IInv /\ [Next]_vars => IInv'
<1> SUFFICES ASSUME IInv, [Next]_vars PROVE IInv'
  OBVIOUS
<1>1. CASE World
  BY <1>1, EditInv, PurgeInv, RemoveAddressInv, LapseInv, LateAnswerInv, LateStoreInv,
     ProviderFilesSentInv DEF World
<1>2. ASSUME NEW c \in Clients, Person(c) PROVE IInv'
  <2>1. "again" \in TakeOvers
    BY DEF TakeOvers
  <2> QED
    BY <1>2, <2>1, ClaimInv, BeginReclaimInv, BeginUnconfirmInv, BeginFinishInv,
       BeginDeleteInv DEF Person
<1>3. ASSUME NEW c \in Clients, Unlock(c) PROVE IInv'
  <2>1. "resume" \in TakeOvers
    BY DEF TakeOvers
  <2> QED
    BY <1>3, <2>1, BeginReclaimInv, BeginSettleInv DEF Unlock
<1>4. ASSUME NEW c \in Clients, Submission(c) PROVE IInv'
  BY <1>4, SubmitFailsInv, EndDataInv, AcceptInv, RefuseInv, LoseAnswerInv,
     RecordLostInv, ReleaseInv, RecordAcceptedInv DEF Submission
<1>5. ASSUME NEW c \in Clients, Filing(c) PROVE IInv'
  <2>1. CASE CompleteWithoutCopy(c)
    BY <2>1, TombstoneInv DEF CompleteWithoutCopy
  <2>2. CASE Complete(c)
    BY <2>2, TombstoneInv DEF Complete
  <2> QED
    BY <1>5, <2>1, <2>2, CopyToVaultInv, CopyNowhereInv, SearchSentInv, AppendInv,
       RecordCopiedInv, LetGoOfClaimInv DEF Filing
<1>6. ASSUME NEW c \in Clients, Crash(c) \/ Renew(c) PROVE IInv'
  BY <1>6, CrashInv, RenewInv
<1>7. CASE UNCHANGED vars
  <2>1. UNCHANGED <<row, task, mail, mints, history, home, fresh, faults>>
    BY <1>7 DEF vars, mail, mints, history
  <2> QED
    BY <2>1, LeaseInv DEF IInv, TypeOK
<1> QED
  BY <1>1, <1>2, <1>3, <1>4, <1>5, <1>6, <1>7, CommitInv DEF Next, Step

-----------------------------------------------------------------------------
(* The theorems. *)

\* The strengthened invariant holds in every reachable state: every handle,
\* decided write and record is what the code takes it to be.
THEOREM Invariance == Spec => []IInv
<1>1. Init => IInv
  BY InitInv
<1>2. IInv /\ [Next]_vars => IInv'
  BY NextInv
<1> QED
  BY <1>1, <1>2, PTL DEF Spec

\* The record, the tasks and the mail servers keep their types.
THEOREM TypeCorrect == Spec => []TypeOK
<1>1. IInv => TypeOK
  BY DEF IInv
<1> QED
  BY <1>1, Invariance, PTL

\* The invariant bounds what each claim submits.
LEMMA InvOneSubmission == IInv => OneSubmissionPerAsk
<1> SUFFICES ASSUME IInv, NEW o \in Ops
             PROVE  submissions[o] <= IF o \in asked THEN 1 ELSE 0
  BY DEF OneSubmissionPerAsk
<1>1. submissions[o] \in Nat /\ submissions[o] <= 1 /\ (submissions[o] > 0 => o \in asked)
  BY DEF IInv, TypeOK, SubmissionsOK
<1> QED
  BY <1>1

\* A Send or "Send again" ends DATA at most once and nothing else ever does,
\* for any number of clients, crashes, lost answers and lapsed leases.
THEOREM SubmitsOnlyWhenAsked == Spec => []OneSubmissionPerAsk
  BY InvOneSubmission, Invariance, PTL

\* The invariant makes a version name one record.
LEMMA InvVersion == IInv => VersionNamesOneRecord
  BY DEF IInv, VersionNamesOneRecord, HandleOK, Owned, IsRunning

\* Two runners with the same version of the record are one runner, and its
\* handle is the record: the compare-and-swap never overwrites unseen work.
THEOREM VersionsAreUnique == Spec => []VersionNamesOneRecord
  BY InvVersion, Invariance, PTL

\* The invariant keeps the record true of the servers.
LEMMA InvRecord == IInv => RecordIsTruthful
  BY DEF IInv, RowOK

\* What the vault says was sent was delivered, and what it says was copied was.
THEOREM RecordsAreTruthful == Spec => []RecordIsTruthful
  BY InvRecord, Invariance, PTL

\* The invariant remembers what may have gone out.
LEMMA InvRemembered == IInv => MaybeSentIsRemembered
  BY DEF IInv, Remembered, MaybeSentIsRemembered

\* Nothing that may have gone out is forgotten, but for what the person let go
\* or sent again.
THEOREM NothingIsForgotten == Spec => []MaybeSentIsRemembered
  BY InvRemembered, Invariance, PTL

-----------------------------------------------------------------------------
(* Every way the record changes. *)

\* A decided write lands on the very row it was computed from.
Lands(c) ==
  /\ UNCHANGED <<mail, mints>>
  /\ IsDecided(c) /\ row' = task[c].row /\ Fits(task[c].kind, task[c].row)
  /\ task[c].row \in Rows /\ task[c].row.version = row.version + 1
  /\ task[c].kind \in Kinds \ {"none"}
  /\ task[c].kind \in TakeOvers
       => Claimed(task[c].row) /\ task[c].row.send.state # "unconfirmed"

\* A runner's write lands on its own handle.
Records(c) ==
  /\ UNCHANGED <<mail, mints>>
  /\ IsRunning(c) /\ row = task[c].row /\ Claimed(row)
  /\ \/ task[c].pc = "lost" /\ row' = advanceSend(row, "unconfirmed")
     \/ task[c].pc = "refused" /\ row' = releaseSend(row)
     \/ task[c].pc = "accepted" /\ row' = advanceSend(row, "submitted")
     \/ task[c].pc = "copied" /\ row' = advanceSend(row, "copied")
     \/ task[c].pc = "nocopy" /\ row' = tombstoneOfSent(row, row.send.msg, TRUE)
     \/ task[c].pc = "failed" /\ row' = Bump(row)
     \/ task[c].pc = "complete" /\ row' = tombstoneOfSent(row, row.send.msg, FALSE)

\* A decided write changes the record only by landing.
LEMMA CommitChanges ==
  ASSUME IInv, NEW c \in Clients, Commit(c) PROVE row' = row \/ Lands(c)
<1> SUFFICES ASSUME row' # row PROVE Lands(c)
  OBVIOUS
<1>1. /\ task[c].pc = "decided" /\ row.version = task[c].row.version - 1
      /\ row' = task[c].row /\ UNCHANGED <<mail, mints>>
  BY DEF Commit
<1>2. /\ IsDecided(c) /\ task[c].row \in Rows /\ task[c].kind \in Kinds
      /\ task[c].row.version = row.version + 1
  BY <1>1 DEF IsDecided, IInv, TypeOK, Rows
<1> QED
  BY <1>1, <1>2 DEF Lands, IInv, DecidedOK

\* A runner's write changes the record only from the handle it holds.
LEMMA WriteChanges ==
  ASSUME IInv, NEW c \in Clients, task[c].pc \in Running, NEW r, NEW ok, Write(c, r, ok)
  PROVE  \/ row' = row
         \/ row' = r /\ IsRunning(c) /\ row = task[c].row /\ Claimed(row)
            /\ Msg(c) = row.send.msg
<1> SUFFICES ASSUME row' # row
             PROVE  row' = r /\ IsRunning(c) /\ row = task[c].row /\ Claimed(row)
                    /\ Msg(c) = row.send.msg
  OBVIOUS
<1>1. row' = r /\ row.version = task[c].row.version
  BY DEF Write
<1>2. IsRunning(c) /\ Claimed(task[c].row) /\ row = task[c].row
  BY <1>1 DEF IInv, HandleOK, IsRunning
<1> QED
  BY <1>1, <1>2 DEF Msg

\* A step of a client's operation changes the record only by such a write.
LEMMA StepChanges ==
  ASSUME IInv, NEW c \in Clients, Step(c)
  PROVE  row' = row \/ Lands(c) \/ Records(c)
<1>1. \A p \in AfterAnswer \cup Copying \cup {"complete"} : p \in Running
  BY DEF Running
<1>2. CASE Commit(c)
  BY <1>2, CommitChanges
<1>3. CASE Submission(c)
  <2>1. CASE RecordLost(c)
    BY <1>1, <2>1, WriteChanges DEF RecordLost, Records, AfterAnswer
  <2>2. CASE Release(c)
    BY <1>1, <2>2, WriteChanges DEF Release, Records, AfterAnswer
  <2>3. CASE RecordAccepted(c)
    BY <1>1, <2>3, WriteChanges DEF RecordAccepted, Records, AfterAnswer
  <2> QED
    BY <1>3, <2>1, <2>2, <2>3
       DEF Submission, SubmitFails, EndData, Accept, Refuse, LoseAnswer
<1>4. CASE Filing(c)
  <2>1. CASE RecordCopied(c)
    BY <1>1, <2>1, WriteChanges DEF RecordCopied, Records, Copying
  <2>2. CASE CompleteWithoutCopy(c)
    BY <1>1, <2>2, WriteChanges DEF CompleteWithoutCopy, Records, Copying
  <2>3. CASE LetGoOfClaim(c)
    BY <1>1, <2>3, WriteChanges DEF LetGoOfClaim, Records, Copying
  <2>4. CASE Complete(c)
    BY <1>1, <2>4, WriteChanges DEF Complete, Records
  <2> QED
    BY <1>4, <2>1, <2>2, <2>3, <2>4
       DEF Filing, CopyToVault, CopyNowhere, SearchSent, Append
<1> QED
  BY <1>2, <1>3, <1>4 DEF Step

\* The record stays, or one of these steps changed it.
LEMMA RowChanges ==
  ASSUME IInv, Next
  PROVE  \/ row' = row
         \/ Edit
         \/ Purge
         \/ \E c \in Clients : Claim(c) \/ (Step(c) /\ (Lands(c) \/ Records(c)))
<1>1. World => row' = row \/ Edit \/ Purge
  BY DEF World, RemoveAddress, Lapse, LateAnswer, LateStore, ProviderFilesSent
<1>2. ASSUME NEW c \in Clients, Person(c) \/ Unlock(c) \/ Crash(c) \/ Renew(c)
      PROVE  row' = row \/ Claim(c)
  BY <1>2 DEF Person, Unlock, BeginReclaim, BeginUnconfirm, BeginFinish, BeginDelete,
     BeginSettle, Crash, Renew
<1> QED
  BY <1>1, <1>2, StepChanges DEF Next

\* Every step keeps what is on record of an accepted send.
LEMMA AcceptedStep ==
  ASSUME IInv, Next, isAccepted(row.send)
  PROVE  \/ row' = row
         \/ /\ isAccepted(row'.send)
            /\ row'.send.msg = row.send.msg
            /\ row.send.state = "copied" => row'.send.state = "copied"
         \/ row'.deleted /\ row'.sentId = row.send.msg
<1>1. /\ row \in Rows /\ row.send # None /\ row.send.msg \in Messages /\ ~InPlay(row.send)
      /\ row.unconf = None /\ row.send.state # "submitting"
  BY SendFields DEF IInv, TypeOK, RowOK, isAccepted, InPlay
<1>2. ~Edit /\ ~Purge /\ \A c \in Clients : ~Claim(c)
  BY <1>1 DEF Edit, Purge, Claim, isFrozenBySend, IInv, RowOK
<1>3. ASSUME NEW c \in Clients, Lands(c)
      PROVE  \/ /\ isAccepted(row'.send)
                /\ row'.send.msg = row.send.msg
                /\ row.send.state = "copied" => row'.send.state = "copied"
             \/ row'.deleted /\ row'.sentId = row.send.msg
  <2> DEFINE r == task[c].row
             k == task[c].kind
  <2>1. /\ row' = r /\ Fits(k, r) /\ k \in Kinds \ {"none"} /\ r \in Rows
        /\ k \in TakeOvers => Claimed(r)
    BY <1>3 DEF Lands
  <2> HIDE DEF r, k
  <2>2. CASE k \in TakeOvers
    <3>1. r.send # None /\ r.send.msg = row.send.msg /\ r.send.state = row.send.state
      BY <1>1, <2>1, <2>2 DEF Fits, Claimed
    <3> QED
      BY <2>1, <3>1 DEF isAccepted
  <2>3. CASE k = "finish"
    <3>1. r = tombstoneOfSent(row, row.send.msg, TRUE)
      BY <2>1, <2>3 DEF Fits
    <3> QED
      BY <1>1, <2>1, <3>1, TombstoneFields
  <2>4. CASE k \notin TakeOvers \cup {"finish"}
    <3>1. k \in {"unconfirm", "settle", "delete"}
      BY <2>1, <2>4 DEF Kinds, TakeOvers
    <3> QED
      BY <1>1, <2>1, <3>1 DEF Fits
  <2> QED
    BY <2>2, <2>3, <2>4
<1>4. ASSUME NEW c \in Clients, Records(c)
      PROVE  \/ /\ isAccepted(row'.send)
                /\ row'.send.msg = row.send.msg
                /\ row.send.state = "copied" => row'.send.state = "copied"
             \/ row'.deleted /\ row'.sentId = row.send.msg
  <2>1. Submitting(c) => row.send.state = "submitting"
    BY <1>4 DEF Records, IInv, HandleOK
  <2>2. task[c].pc \notin {"lost", "refused", "accepted"}
    BY <1>1, <2>1 DEF Submitting, AfterAnswer
  <2>3. CASE task[c].pc = "copied" /\ row' = advanceSend(row, "copied")
    BY <1>1, <2>3, AdvanceFields DEF States, isAccepted
  <2>4. CASE row' = Bump(row)
    BY <1>1, <2>4, BumpFields
  <2>5. CASE \E w \in BOOLEAN : row' = tombstoneOfSent(row, row.send.msg, w)
    <3>1. PICK w \in BOOLEAN : row' = tombstoneOfSent(row, row.send.msg, w)
      BY <2>5
    <3> DEFINE a == tombstoneOfSent(row, row.send.msg, w)
    <3>2. a.deleted = TRUE /\ a.sentId = row.send.msg
      BY <1>1, TombstoneFields
    <3>3. row' = a
      BY <3>1
    <3> HIDE DEF a
    <3> QED
      BY <3>2, <3>3
  <2> QED
    BY <1>4, <2>2, <2>3, <2>4, <2>5 DEF Records
<1> QED
  BY <1>2, <1>3, <1>4, RowChanges

\* Once SMTP's yes is recorded, no step of any client takes it back.
THEOREM AcceptedStaysAccepted == Spec => AcceptedIsFinal
<1>1. IInv /\ [Next]_vars =>
        [isAccepted(row.send) =>
           \/ /\ isAccepted(row'.send)
              /\ row'.send.msg = row.send.msg
              /\ row.send.state = "copied" => row'.send.state = "copied"
           \/ row'.deleted /\ row'.sentId = row.send.msg]_row
  BY AcceptedStep DEF vars
<1> QED
  BY <1>1, Invariance, PTL DEF Spec, AcceptedIsFinal


(***************************************************************************)
(* DraftSend implements SendPromise: every step of the clients, the leases *)
(* and the mail servers is a step of the promise or changes nothing of it. *)
(***************************************************************************)

\* The promise's variables, as DraftSend reads them.
Stage == [at |-> StageAt, msg |-> StageMsg]
Out   == {m \in Messages : delivered[m] > 0}
Moved(from, to) == StageAt \in from /\ StageAt' = to /\ StageMsg' = StageMsg

PromiseStep == [Promise!Next]_Promise!vars

\* A stage that moves with its message is one move of the promise.
LEMMA MoveStep ==
  ASSUME NEW from, NEW to, Moved(from, to), UNCHANGED <<minted, delivered>>
  PROVE  Promise!Move(from, to)
  BY DEF Moved, Promise!Move

\* Nothing the promise sees has changed.
LEMMA StutterStep ==
  ASSUME StageAt' = StageAt, StageMsg' = StageMsg, UNCHANGED <<minted, delivered>>
  PROVE  PromiseStep
  BY DEF PromiseStep, Promise!vars

\* The stage depends on the record alone.
LEMMA StageOfRow ==
  ASSUME row' = row PROVE StageAt' = StageAt /\ StageMsg' = StageMsg
  BY DEF StageAt, StageMsg

\* A step that leaves the record alone puts at most one more message out.
LEMMA OutChanges ==
  ASSUME IInv, Next, row' = row
  PROVE  /\ minted' = minted
         /\ \/ delivered' = delivered
            \/ \E m \in minted : delivered' = [delivered EXCEPT ![m] = @ + 1]
<1>1. World => /\ minted' = minted
               /\ \/ delivered' = delivered
                  \/ \E m \in Messages : LateAnswer(m)
  BY DEF World, Edit, Purge, RemoveAddress, Lapse, LateAnswer, LateStore,
     ProviderFilesSent, mail, mints
<1>2. ASSUME NEW c \in Clients, Person(c) \/ Unlock(c) \/ Crash(c) \/ Renew(c)
      PROVE  minted' = minted /\ delivered' = delivered
  <2>1. ~Claim(c)
    <3>1. ASSUME Claim(c) PROVE row'.version = row.version + 1
      <4> DEFINE b == Bump(row)
      <4>1. PICK s, r : r = [b EXCEPT !.send = s, !.unconf = None] /\ row' = r
        BY <3>1 DEF Claim
      <4>2. b \in Rows /\ b.version = row.version + 1
        BY BumpFields DEF IInv, TypeOK
      <4> HIDE DEF b
      <4> QED
        BY <4>1, <4>2 DEF Rows
    <3>2. row.version \in Nat
      BY DEF IInv, TypeOK, Rows
    <3> QED
      BY <3>1, <3>2
  <2> QED
    BY <1>2, <2>1 DEF Person, Unlock, BeginReclaim, BeginUnconfirm, BeginFinish,
       BeginDelete, BeginSettle, Crash, Renew, mail, mints
<1>3. ASSUME NEW c \in Clients, Step(c)
      PROVE  minted' = minted /\ (delivered' = delivered \/ Accept(c))
  <2>1. Commit(c) => minted' = minted /\ delivered' = delivered
    BY DEF Commit, mail, mints
  <2>2. Submission(c) => minted' = minted /\ (delivered' = delivered \/ Accept(c))
    BY DEF Submission, SubmitFails, EndData, Accept, Refuse, LoseAnswer, RecordLost,
       Release, RecordAccepted, mail, mints
  <2>3. Filing(c) => minted' = minted /\ delivered' = delivered
    BY DEF Filing, CopyToVault, CopyNowhere, SearchSent, Append, RecordCopied,
       CompleteWithoutCopy, LetGoOfClaim, Complete, mail, mints
  <2> QED
    BY <1>3, <2>1, <2>2, <2>3 DEF Step
<1>4. ASSUME NEW c \in Clients, Accept(c)
      PROVE  \E m \in minted : delivered' = [delivered EXCEPT ![m] = @ + 1]
  <2>1. task[c].pc \in Running /\ Submitting(c)
    BY <1>4 DEF Accept, Running, BeforeAnswer, Submitting
  <2>2. Msg(c) \in minted
    BY <2>1, RunnerFields, ActiveMinted
  <2> QED
    BY <1>4, <2>2 DEF Accept
<1>5. ASSUME NEW m \in Messages, LateAnswer(m)
      PROVE  delivered' = delivered \/ delivered' = [delivered EXCEPT ![m] = @ + 1]
  BY <1>5 DEF LateAnswer
<1>6. \A m \in Messages : LateAnswer(m) => m \in minted
  BY DEF LateAnswer, IInv, MailOK
<1> QED
  BY <1>1, <1>2, <1>3, <1>4, <1>5, <1>6 DEF Next

\* A step that leaves the record alone delivers one message or nothing.
LEMMA OutStep == ASSUME IInv, Next, row' = row PROVE PromiseStep
<1>1. StageAt' = StageAt /\ StageMsg' = StageMsg /\ minted' = minted
  BY StageOfRow, OutChanges
<1>2. CASE delivered' = delivered
  BY <1>1, <1>2, StutterStep
<1>3. ASSUME NEW m \in minted, delivered' = [delivered EXCEPT ![m] = @ + 1]
      PROVE  PromiseStep
  <2>1. m \in Messages
    BY DEF IInv, TypeOK
  <2>2. /\ delivered'[m] > 0
        /\ \A x \in Messages : x # m => delivered'[x] = delivered[x]
    BY <1>3, <2>1 DEF IInv, TypeOK
  <2>3. Out' = Out \cup {m}
    BY <2>1, <2>2 DEF Out
  <2>4. Promise!Deliver(m)
    BY <1>1, <2>3 DEF Promise!Deliver, Out
  <2> QED
    BY <2>1, <2>4 DEF PromiseStep, Promise!Next
<1> QED
  BY <1>2, <1>3, OutChanges

\* What the stage is, by the record.
StageReads ==
  /\ Live(row) /\ row.send = None /\ row.unconf = None
       => StageAt = "draft" /\ StageMsg = None
  /\ Live(row) /\ row.send = None /\ row.unconf # None
       => StageAt = "aside" /\ StageMsg = row.unconf.msg
  /\ Live(row) /\ row.send # None
       => /\ StageMsg = row.send.msg
          /\ row.send.state = "submitting" => StageAt = "trying"
          /\ row.send.state = "unconfirmed" => StageAt = "asking"
          /\ isAccepted(row.send) => StageAt = "sent"
  /\ row.version > 0 /\ row.sentId # None
       => StageAt = "done" /\ StageMsg = row.sentId
  /\ row.version > 0 /\ row.deleted /\ row.sentId = None
       => /\ StageAt = "discarded"
          /\ row.send # None => StageMsg = row.send.msg
          /\ row.send = None /\ row.unconf = None => StageMsg = None
  /\ row.version = 0 => StageAt = "purged" /\ StageMsg = None

\* The stage is what the record's fields say.
LEMMA StageFields == IInv => StageReads
<1> SUFFICES ASSUME IInv PROVE StageReads
  OBVIOUS
<1>1. /\ row \in Rows /\ (row.version = 0 => row = NoRow)
      /\ row.sentId # None => row.deleted
  BY DEF IInv, TypeOK, RowOK
<1>2. StageAt = IF row.version = 0 THEN "purged"
                ELSE IF row.sentId # None THEN "done"
                ELSE IF row.deleted THEN "discarded"
                ELSE IF row.send # None
                     THEN IF row.send.state = "submitting" THEN "trying"
                          ELSE IF row.send.state = "unconfirmed" THEN "asking" ELSE "sent"
                ELSE IF row.unconf # None THEN "aside" ELSE "draft"
  BY DEF StageAt
<1>3. StageMsg = IF row.sentId # None THEN row.sentId
                 ELSE IF row.send # None THEN row.send.msg
                 ELSE IF row.unconf # None THEN row.unconf.msg ELSE None
  BY DEF StageMsg
<1>4. row.version \in Nat
  BY <1>1 DEF Rows
<1> QED
  BY <1>1, <1>2, <1>3, <1>4 DEF StageReads, Live, isAccepted, NoRow

\* It is so after a step too.
LEMMA StageFieldsNext == IInv' => StageReads'
  BY StageFields, PTL

-----------------------------------------------------------------------------
(* The steps that write the record. *)

\* An edit changes nothing the promise sees.
LEMMA EditStep == ASSUME IInv, IInv', Edit PROVE PromiseStep
<1>1. /\ row \in Rows /\ row' = Bump(row) /\ Live(row) /\ row.send = None
      /\ UNCHANGED <<minted, delivered>>
  BY DEF Edit, IInv, TypeOK, isFrozenBySend, mail, mints
<1>2. /\ row'.version = row.version + 1 /\ row'.deleted = row.deleted
      /\ row'.send = None /\ row'.unconf = row.unconf
  BY <1>1, BumpFields
<1>3. Live(row')
  BY <1>1, <1>2 DEF Live, Rows
<1>4. StageAt' = StageAt /\ StageMsg' = StageMsg
  BY <1>1, <1>2, <1>3, StageFields, StageFieldsNext DEF StageReads, Live
<1> QED
  BY <1>1, <1>4, StutterStep

\* The purge of a tombstone ends its draft.
LEMMA PurgeStep == ASSUME IInv, IInv', Purge PROVE PromiseStep
<1>1. row' = NoRow /\ row.deleted /\ UNCHANGED <<minted, delivered>>
  BY DEF Purge, mail, mints
<1>2. row.version > 0 /\ row'.version = 0
  BY <1>1 DEF NoRow, IInv, RowOK, TypeOK, Rows
<1>3. StageAt \in {"done", "discarded"} /\ StageAt' = "purged" /\ StageMsg' = None
  BY <1>1, <1>2, StageFields, StageFieldsNext DEF StageReads
<1>4. Promise!Purge
  BY <1>1, <1>3 DEF Promise!Purge
<1> QED
  BY <1>4 DEF PromiseStep, Promise!Next

\* A claim puts a fresh message in play.
LEMMA ClaimStep ==
  ASSUME IInv, IInv', NEW c \in Clients, Claim(c) PROVE PromiseStep
<1> DEFINE b == Bump(row)
<1>1. PICK m \in Messages \ minted, s \in Sends :
        /\ s.msg = m /\ s.state = "submitting" /\ s # None
        /\ row' = [b EXCEPT !.send = s, !.unconf = None]
        /\ minted' = minted \cup {m}
  <2>1. PICK m \in Messages \ minted, o \in Ops \ used :
          LET x == [msg |-> m, op |-> o, state |-> "submitting"]
          IN /\ row' = [b EXCEPT !.send = x, !.unconf = None]
             /\ minted' = minted \cup {m}
    BY DEF Claim
  <2> DEFINE x == [msg |-> m, op |-> o, state |-> "submitting"]
  <2>2. x \in Sends /\ x.msg = m /\ x.state = "submitting"
    BY DEF Sends, States
  <2>3. x # None
    BY <2>2, NoneApart
  <2>4. row' = [b EXCEPT !.send = x, !.unconf = None] /\ minted' = minted \cup {m}
    BY <2>1
  <2> HIDE DEF x, b
  <2> QED
    BY <2>2, <2>3, <2>4
<1>2. /\ Live(row) /\ row.send = None /\ delivered' = delivered /\ row \in Rows
  BY DEF Claim, isFrozenBySend, mail, IInv, TypeOK
<1>3. b \in Rows /\ b.version = row.version + 1 /\ b.deleted = row.deleted
  BY <1>2, BumpFields
<1> HIDE DEF b
<1>4. /\ row'.version = row.version + 1 /\ row'.deleted = row.deleted /\ row'.send = s
  BY <1>1, <1>3 DEF Rows
<1>5. Live(row')
  BY <1>2, <1>4 DEF Live, Rows
<1>6. /\ StageAt \in {"draft", "aside"} /\ StageAt' = "trying" /\ StageMsg' = m
  BY <1>1, <1>2, <1>4, <1>5, StageFields, StageFieldsNext DEF StageReads, Live
<1>7. Promise!Put(m)
  BY <1>1, <1>2, <1>6 DEF Promise!Put
<1> QED
  BY <1>7 DEF PromiseStep, Promise!Next

\* A decided write that lands is one move of the promise.
LEMMA LandsStep ==
  ASSUME IInv, IInv', NEW c \in Clients, Lands(c) PROVE PromiseStep
<1> DEFINE r == task[c].row
           k == task[c].kind
<1>1. /\ row' = r /\ Fits(k, r) /\ r \in Rows /\ r.version = row.version + 1 /\ k \in Kinds \ {"none"}
      /\ k \in TakeOvers => Claimed(r) /\ r.send.state # "unconfirmed"
      /\ UNCHANGED <<minted, delivered>>
  BY DEF Lands, mail, mints
<1> HIDE DEF r, k
<1>2. /\ Live(row) /\ row.version > 0 /\ row.sentId = None /\ row \in Rows
      /\ row.send = None \/ row.unconf = None
      /\ row.unconf # None => InPlay(row.unconf)
      /\ StageReads /\ StageReads'
  BY <1>1, StageFields, StageFieldsNext DEF Fits, Live, IInv, TypeOK, RowOK
<1>3. /\ row.send # None => row.send.msg \in Messages /\ row.send.state \in States
      /\ row.unconf # None => row.unconf.msg \in Messages
  BY <1>2 DEF Rows, Sends
<1>4. CASE k \in TakeOvers
  <2>1. /\ Live(row') /\ row'.send # None
        /\ \/ row.send # None /\ row'.send.msg = row.send.msg
           \/ row.unconf # None /\ row'.send.msg = row.unconf.msg
    BY <1>1, <1>4 DEF Claimed, Fits, Live
  <2>2. StageMsg' = StageMsg
    BY <1>2, <2>1 DEF StageReads
  <2>3. CASE isAccepted(row.send)
    <3>1. row'.send.state = row.send.state
      BY <1>1, <1>4, <2>3 DEF Fits
    <3>2. isAccepted(row'.send) /\ row.send # None
      BY <2>1, <2>3, <3>1 DEF isAccepted
    <3>3. StageAt' = StageAt
      BY <1>2, <2>1, <2>3, <3>2 DEF StageReads, isAccepted
    <3> QED
      BY <1>1, <2>2, <3>3, StutterStep
  <2>4. CASE ~isAccepted(row.send)
    <3>1. ~isAccepted(row'.send)
      BY <1>1, <1>4, <2>4 DEF Fits
    <3>2. row'.send.state \in States /\ row'.send.state # "unconfirmed"
      BY <1>1, <1>4, <2>1, SendFields
    <3>3. row'.send.state = "submitting"
      BY <2>1, <3>1, <3>2 DEF States, isAccepted
    <3>4. StageAt' = "trying"
      BY <1>2, <2>1, <3>3 DEF StageReads
    <3>5. StageAt \in Promise!InQuestion
      BY <1>2, <1>3, <2>1, <2>4 DEF StageReads, Promise!InQuestion, States, isAccepted
    <3>6. Promise!TryAgain
      BY <1>1, <2>2, <3>4, <3>5, MoveStep DEF Moved, Promise!TryAgain
    <3> QED
      BY <3>6 DEF PromiseStep, Promise!Next
  <2> QED
    BY <2>3, <2>4
<1>5. CASE k = "unconfirm"
  <2>1. /\ row.send # None /\ InPlay(row.send) /\ r.send = None /\ r.unconf = row.send
        /\ ~r.deleted /\ row.unconf = None
    BY <1>1, <1>2, <1>5 DEF Fits
  <2>2. row'.version > 0
    BY <1>1, <1>2 DEF Rows
  <2>3. StageAt \in {"trying", "asking"} /\ StageMsg = row.send.msg
    BY <1>2, <2>1 DEF StageReads, InPlay
  <2>4. StageAt' = "aside" /\ StageMsg' = row.send.msg
    BY <1>1, <1>2, <2>1, <2>2 DEF StageReads, Live
  <2>5. Promise!PutAside
    BY <1>1, <2>3, <2>4, MoveStep DEF Moved, Promise!PutAside
  <2> QED
    BY <2>5 DEF PromiseStep, Promise!Next
<1>6. CASE k \in {"finish", "settle"}
  <2>1. PICK x \in {row.send, row.unconf}, w \in BOOLEAN :
          /\ x # None
          /\ r = tombstoneOfSent(row, x.msg, w)
          /\ k = "finish" => x = row.send /\ isAccepted(x)
          /\ k = "settle" => InPlay(x) /\ copies[x.msg] > 0
    BY <1>1, <1>6 DEF Fits, isAccepted
  <2>2. x.msg \in Messages
    BY <1>3, <2>1
  <2>3. /\ row'.version = row.version + 1 /\ row'.sentId = x.msg
    <3> DEFINE a == tombstoneOfSent(row, x.msg, w)
    <3>1. a.version = row.version + 1 /\ a.sentId = x.msg
      BY <1>2, <2>2, TombstoneFields
    <3>2. row' = a
      BY <1>1, <2>1
    <3> HIDE DEF a
    <3> QED
      BY <3>1, <3>2
  <2>4. StageAt' = "done" /\ StageMsg' = x.msg
    BY <1>2, <2>2, <2>3, NoneApart DEF StageReads, Rows
  <2>5. StageMsg = x.msg
    BY <1>2, <2>1 DEF StageReads
  <2>6. CASE k = "finish"
    <3>1. StageAt = "sent"
      BY <1>2, <2>1, <2>6 DEF StageReads
    <3>2. Promise!File
      BY <1>1, <2>4, <2>5, <3>1, MoveStep DEF Moved, Promise!File
    <3> QED
      BY <3>2 DEF PromiseStep, Promise!Next
  <2>7. CASE k = "settle"
    <3>1. StageAt \in Promise!InQuestion
      BY <1>2, <2>1, <2>7 DEF StageReads, Promise!InQuestion, InPlay
    <3>2. delivered[x.msg] > 0
      BY <2>1, <2>2, <2>7 DEF IInv, MailOK
    <3>3. Promise!Move(Promise!InQuestion, "done")
      BY <1>1, <2>4, <2>5, <3>1, MoveStep DEF Moved
    <3>4. Promise!Found
      BY <2>2, <2>5, <3>2, <3>3 DEF Promise!Found
    <3> QED
      BY <3>4 DEF PromiseStep, Promise!Next
  <2> QED
    BY <1>6, <2>6, <2>7
<1>7. CASE k = "delete"
  <2> DEFINE b == Bump(row)
  <2>1. /\ r = [b EXCEPT !.deleted = TRUE] /\ row.unconf = None
        /\ row.send # None => row.send.state = "submitting"
    BY <1>1, <1>7 DEF Fits
  <2>2. /\ b \in Rows /\ b.version = row.version + 1 /\ b.send = row.send
        /\ b.unconf = row.unconf /\ b.sentId = row.sentId
    BY <1>2, BumpFields
  <2> HIDE DEF b
  <2>3. /\ row'.version = row.version + 1 /\ row'.send = row.send /\ row'.unconf = None
        /\ row'.sentId = None /\ row'.deleted
    BY <1>1, <1>2, <2>1, <2>2 DEF Rows
  <2>4. StageAt \in {"draft", "trying"}
    BY <1>2, <2>1 DEF StageReads
  <2>5. StageAt' = "discarded" /\ StageMsg' = StageMsg
    BY <1>2, <2>1, <2>3 DEF StageReads, Rows
  <2>6. Promise!Discard
    BY <1>1, <2>4, <2>5, MoveStep DEF Moved, Promise!Discard
  <2> QED
    BY <2>6 DEF PromiseStep, Promise!Next
<1> QED
  BY <1>1, <1>4, <1>5, <1>6, <1>7 DEF Kinds, TakeOvers

\* A runner's write is one move of the promise.
LEMMA RecordsStep ==
  ASSUME IInv, IInv', NEW c \in Clients, Records(c) PROVE PromiseStep
<1> DEFINE pc == task[c].pc
           m == row.send.msg
<1>1. /\ IsRunning(c) /\ Claimed(row) /\ row \in Rows /\ m \in Messages
      /\ row = task[c].row
      /\ StageReads /\ StageReads' /\ UNCHANGED <<minted, delivered>>
      /\ Live(row) /\ row.send # None /\ row.unconf = None /\ row.sentId = None
  BY StageFields, StageFieldsNext, SendFields
     DEF Records, Claimed, Live, mail, mints, IInv, TypeOK
<1>2. /\ Submitting(c) => row.send.state = "submitting"
      /\ pc \in Copying => row.send.state = "submitted"
      /\ pc = "complete" => row.send.state = "copied"
      /\ pc \in {"accepted", "complete"} \cup Copying => delivered[m] > 0
  BY <1>1 DEF IInv, HandleOK
<1>3. StageMsg = m
  BY <1>1 DEF StageReads
<1>4. /\ pc \in {"lost", "refused", "accepted"} => StageAt = "trying"
      /\ pc \in {"copied", "nocopy", "failed", "complete"} => StageAt = "sent"
  BY <1>1, <1>2 DEF StageReads, Submitting, AfterAnswer, Copying, isAccepted
<1>5. ASSUME NEW st \in States, row' = advanceSend(row, st)
      PROVE  /\ Live(row') /\ row'.send # None /\ row'.send.state = st
             /\ row'.send.msg = m
  <2> DEFINE a == advanceSend(row, st)
  <2>1. /\ a.version = row.version + 1 /\ a.deleted = row.deleted /\ a.send # None
        /\ a.send.state = st /\ a.send.msg = m
    BY <1>1, AdvanceFields
  <2>2. row' = a
    BY <1>5
  <2> HIDE DEF a
  <2> QED
    BY <1>1, <2>1, <2>2 DEF Live, Rows
<1>6. CASE pc = "lost" /\ row' = advanceSend(row, "unconfirmed")
  <2>1. StageAt' = "asking" /\ StageMsg' = m
    BY <1>1, <1>5, <1>6 DEF StageReads, States
  <2>2. Promise!Ask
    BY <1>1, <1>3, <1>4, <1>6, <2>1, MoveStep DEF Moved, Promise!Ask
  <2> QED
    BY <2>2 DEF PromiseStep, Promise!Next
<1>7. CASE pc = "refused" /\ row' = releaseSend(row)
  <2>1. Live(row') /\ row'.send = None /\ row'.unconf = None
    BY <1>1, <1>7, ReleaseFields DEF Live, Rows
  <2>2. StageAt' = "draft" /\ StageMsg' = None
    BY <1>1, <2>1 DEF StageReads
  <2>3. Promise!GiveBack
    BY <1>1, <1>4, <1>7, <2>2 DEF Promise!GiveBack
  <2> QED
    BY <2>3 DEF PromiseStep, Promise!Next
<1>8. CASE pc = "accepted" /\ row' = advanceSend(row, "submitted")
  <2>1. StageAt' = "sent" /\ StageMsg' = m
    BY <1>1, <1>5, <1>8 DEF StageReads, States, isAccepted
  <2>2. Promise!Move({"trying"}, "sent")
    BY <1>1, <1>3, <1>4, <1>8, <2>1, MoveStep DEF Moved
  <2>3. Promise!Yes
    BY <1>1, <1>2, <1>3, <1>8, <2>2 DEF Promise!Yes
  <2> QED
    BY <2>3 DEF PromiseStep, Promise!Next
<1>9. CASE pc = "copied" /\ row' = advanceSend(row, "copied")
  <2>1. StageAt' = "sent" /\ StageMsg' = m
    BY <1>1, <1>5, <1>9 DEF StageReads, States, isAccepted
  <2> QED
    BY <1>1, <1>3, <1>4, <1>9, <2>1, StutterStep
<1>10. CASE pc = "failed" /\ row' = Bump(row)
  <2>1. Live(row') /\ row'.send = row.send
    BY <1>1, <1>10, BumpFields DEF Live, Rows
  <2>2. StageAt' = "sent" /\ StageMsg' = m
    BY <1>1, <1>2, <1>10, <2>1 DEF StageReads, isAccepted, Copying
  <2> QED
    BY <1>1, <1>3, <1>4, <1>10, <2>2, StutterStep
<1>11. ASSUME NEW w \in BOOLEAN, row' = tombstoneOfSent(row, m, w),
              pc \in {"nocopy", "complete"}
       PROVE  PromiseStep
  <2> DEFINE a == tombstoneOfSent(row, m, w)
  <2>1. a.version = row.version + 1 /\ a.sentId = m
    <3>1. row \in Rows /\ m \in Messages /\ w \in BOOLEAN
      BY <1>1
    <3> HIDE DEF m, pc
    <3> QED
      BY <3>1, TombstoneFields, Zenon
  <2>3. row' = a
    BY <1>11
  <2> HIDE DEF a
  <2>2. StageAt' = "done" /\ StageMsg' = m
    BY <1>1, <2>1, <2>3, NoneApart DEF StageReads, Live, Rows
  <2>4. Promise!File
    BY <1>1, <1>3, <1>4, <1>11, <2>2, MoveStep DEF Moved, Promise!File
  <2> QED
    BY <2>4 DEF PromiseStep, Promise!Next
<1> QED
  BY <1>6, <1>7, <1>8, <1>9, <1>10, <1>11 DEF Records

-----------------------------------------------------------------------------
\* A new draft is where the promise starts.
LEMMA InitPromise == Init => Promise!Init
<1> SUFFICES ASSUME Init PROVE Promise!Init
  OBVIOUS
<1>1. /\ row.version = 1 /\ row.send = None /\ row.unconf = None /\ row.sentId = None
      /\ ~row.deleted
  BY DEF Init, NoRow
<1>2. StageAt = "draft" /\ StageMsg = None
  BY <1>1 DEF StageAt, StageMsg
<1>3. minted = {} /\ {m \in Messages : delivered[m] > 0} = {}
  BY DEF Init
<1> QED
  BY <1>2, <1>3 DEF Promise!Init

\* Every step of the clients is a step of the promise or a stutter.
LEMMA NextPromise == IInv /\ IInv' /\ [Next]_vars => [Promise!Next]_Promise!vars
<1> SUFFICES ASSUME IInv, IInv', [Next]_vars PROVE PromiseStep
  BY DEF PromiseStep
<1>1. CASE UNCHANGED vars
  <2>1. UNCHANGED <<row, minted, delivered>>
    BY <1>1 DEF vars
  <2> QED
    BY <2>1, StageOfRow, StutterStep
<1>2. CASE Next
  BY <1>2, RowChanges, OutStep, EditStep, PurgeStep, ClaimStep, LandsStep, RecordsStep
<1> QED
  BY <1>1, <1>2

\* The clients, with their crashes, retries and lapsed leases, keep the
\* promise of SendPromise, for every set of clients, messages and claims.
THEOREM PromiseKept == Spec => KeepsPromise
<1>1. Init => Promise!Init
  BY InitPromise
<1>2. IInv /\ IInv' /\ [Next]_vars => [Promise!Next]_Promise!vars
  BY NextPromise
<1> QED
  BY <1>1, <1>2, Invariance, PTL DEF Spec, KeepsPromise, Promise!Spec

=============================================================================
