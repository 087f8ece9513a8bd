------------------------------- MODULE FolderSync -------------------------------
(* The tasks a mailbox's queue runs against its IMAP server, one at a time per  *)
(* client: reading a folder above its mark, paging back, writing a flag, moving *)
(* a message, opening a body and prefetching bodies.  Each command and each     *)
(* cache write is a step, so another client, another tab or the part of this    *)
(* one that runs outside the queue acts between any two of them.                *)
EXTENDS MailStore

CONSTANTS Window,      \* messages in a sync window; 200 in the code
          NoTask

VARIABLES srv,         \* the server's folders: UIDVALIDITY, UIDNEXT, messages, \Seen
          hist,        \* every <<folder, UIDVALIDITY, uid, message>> there has been
          task,        \* the task each client's queue is running
          gen,         \* the session (or mailbox record) each client is in
          astray,      \* a write reached a message it was not meant for
          calm         \* nothing but this client's pass touched what it reads

net == <<srv, hist>>

Uids(f) == DOMAIN srv[f].box
Row(f, u) == [msg |-> srv[f].box[u], seen |-> u \in srv[f].seen]
RowsAt(f, S) == [u \in S |-> Row(f, u)]
SeqNum(f, u) == Cardinality({w \in Uids(f) : w <= u})
BySeq(f, from, to) == {u \in Uids(f) : SeqNum(f, u) \in from..to}
Highest(S) == CHOOSE x \in S : \A y \in S : y <= x
Lowest(S) == CHOOSE x \in S : \A y \in S : x <= y
AtLeast(a, b) == IF a < b THEN b ELSE a

(* A command that lost its connection is answered by a failure; see Drop.       *)
Running(c, kind, pc) == task[c] # NoTask /\ task[c].kind = kind /\ task[c].pc = pc
Locals(c, more) == task' = [task EXCEPT ![c] = Over(more, @)]
Goto(c, pc, more) == Locals(c, Over([pc |-> pc], more))
Finish(c, res) == Goto(c, "done", [res |-> res])

(* The vault locked, or the record was replaced, since the work was asked for.  *)
Stale(c, work) == work.gen # gen[c]

Others(c) == [d \in Clients |-> calm[d] /\ d = c]
Quiet == UNCHANGED <<astray, gen>>
OnlyTask == UNCHANGED <<cache, net, calm, astray, gen>>

----------------------------------------------------------------------------
(* A folder's sync: SELECT, the mark, the mail above it, the flags below it.    *)

SyncSelect(c) ==
  /\ Running(c, "sync", "select")
  /\ LET f == task[c].f
     IN Goto(c, "mark", [valid |-> srv[f].valid, next |-> srv[f].next,
                         exists |-> Cardinality(Uids(f))])
  /\ OnlyTask

\* Mutant: the UIDVALIDITY is not compared.
MutIsRenumbered(mark, valid) == FALSE

(* A changed UIDVALIDITY drops every folder of the mailbox.                      *)
IsRenumbered(mark, valid) == mark # NoMark /\ mark.valid # valid

SyncMark(c) ==
  /\ Running(c, "sync", "mark")
  /\ LET f == task[c].f
         mark == MarkOf(c, f)
     IN IF IsRenumbered(mark, task[c].valid)
        THEN /\ Clear(c)
             /\ Goto(c, "new", [mark |-> NoMark, known |-> <<>>, invalid |-> TRUE])
             /\ calm' = Others(c)
        ELSE /\ Hold(c, {f})
             /\ UNCHANGED <<disk, bodies, digest, calm>>
             /\ Goto(c, "new", [mark |-> mark, known |-> RowsOf(c, f)])
  /\ Quiet /\ UNCHANGED net

IsWide(mark, next) == mark = NoMark \/ next - 1 - mark.last > Window

(* The mail above the mark: n:* also answers the newest message below n.         *)
Above(f, mark, next) ==
  IF next <= mark.last + 1 THEN {}
  ELSE {u \in Uids(f) : u > mark.last \/ u = Highest(Uids(f))} \ (0..mark.last)

NewestWindow(f, exists) ==
  BySeq(f, AtLeast(1, exists - Window + 1), Cardinality(Uids(f)))

ReachesMark(f, mark, exists) ==
  exists <= Window \/ \E u \in NewestWindow(f, exists) : u <= mark.last

StartsOver(f, mark, next, exists) ==
  mark # NoMark /\ IsWide(mark, next) /\ exists # 0 /\ ~ReachesMark(f, mark, exists)

NewMail(f, mark, next, exists) ==
  IF ~IsWide(mark, next) THEN Above(f, mark, next)
  ELSE IF exists = 0 THEN {}
  ELSE IF mark = NoMark \/ StartsOver(f, mark, next, exists) THEN NewestWindow(f, exists)
  ELSE {u \in NewestWindow(f, exists) : u > mark.last}

SyncNew(c) ==
  /\ Running(c, "sync", "new")
  /\ LET t == task[c]
         fetched == RowsAt(t.f, NewMail(t.f, t.mark, t.next, t.exists))
         over == StartsOver(t.f, t.mark, t.next, t.exists)
         cached == IF t.mark = NoMark \/ over THEN <<>>
                   ELSE Restrict(t.known, {u \in DOMAIN t.known : u <= t.mark.last})
     IN Goto(c, "early", [fetched |-> fetched, over |-> over, cached |-> cached])
  /\ OnlyTask

\* Mutant: what still answers keeps the flags it was cached with.
MutSyncFlags(c) ==
  /\ Running(c, "sync", "flags")
  /\ LET t == task[c]
     IN Goto(c, "drop", [kept |-> Restrict(t.cached, DOMAIN t.cached \cap Uids(t.f))])
  /\ OnlyTask

(* The server's flags for what was cached at or below the mark; the rest left.  *)
SyncFlags(c) ==
  /\ Running(c, "sync", "flags")
  /\ LET t == task[c]
     IN Goto(c, "drop",
             [kept |-> [u \in DOMAIN t.cached \cap Uids(t.f) |->
                          [t.cached[u] EXCEPT !.seen = u \in srv[t.f].seen]]])
  /\ OnlyTask

SyncDrop(c) ==
  /\ Running(c, "sync", "drop")
  /\ LET t == task[c]
         dropped == DOMAIN t.known \ DOMAIN t.kept
     IN IF Stale(c, t)
        THEN Finish(c, [ok |-> FALSE]) /\ UNCHANGED <<cache, calm>>
        ELSE /\ IF dropped = {} THEN UNCHANGED cache ELSE DeleteRows(c, t.f, dropped)
             /\ Goto(c, "put", <<>>)
             /\ calm' = Others(c)
  /\ Quiet /\ UNCHANGED net

SyncPut(c) ==
  /\ Running(c, "sync", "put")
  /\ PutRows(c, task[c].f, task[c].fetched @@ task[c].kept)
  /\ Goto(c, "save", <<>>)
  /\ calm' = Others(c)
  /\ Quiet /\ UNCHANGED net

\* Mutant: a start-over leaves the mark's word for what is below.
MutIsComplete(t) ==
  IF t.mark = NoMark \/ (t.mark # NoMark /\ t.mark.last = 0)
  THEN t.exists <= Window
  ELSE t.mark.complete \/ t.exists = 0

(* Whether the cache reaches the oldest message.  A mark at 0 claims nothing.   *)
IsComplete(t) ==
  IF t.mark = NoMark \/ t.over \/ (t.mark # NoMark /\ t.mark.last = 0)
  THEN t.exists <= Window
  ELSE t.mark.complete \/ t.exists = 0

SyncSave(c) ==
  /\ Running(c, "sync", "save")
  /\ LET t == task[c]
         all == t.fetched @@ t.kept
         last == Highest({IF t.mark = NoMark THEN 0 ELSE t.mark.last, t.next - 1} \cup DOMAIN all)
     IN /\ PutMark(c, t.f, [valid |-> t.valid, last |-> last, complete |-> IsComplete(t)])
        /\ Finish(c, [ok |-> TRUE, rows |-> all, valid |-> t.valid,
                      lost |-> ~(DOMAIN t.cached \subseteq DOMAIN t.kept)])
  /\ calm' = Others(c)
  /\ Quiet /\ UNCHANGED net

----------------------------------------------------------------------------
(* Older mail: a window below the lowest cached message that still answers.     *)

OlderStart(c) ==
  /\ Running(c, "older", "start")
  /\ LET f == task[c].f
         mark == MarkOf(c, f)
     IN IF mark = NoMark
        THEN Finish(c, [ok |-> TRUE, complete |-> FALSE])
        ELSE Goto(c, IF RowsOf(c, f) = <<>> THEN "newest" ELSE "lowest",
                  [mark |-> mark, known |-> DOMAIN RowsOf(c, f)])
  /\ Hold(c, {task[c].f})
  /\ UNCHANGED <<disk, bodies, digest, net, calm>> /\ Quiet

(* The lowest, else the lowest alive, which may go before its seq is asked.     *)
OlderAnchor(c) ==
  /\ Running(c, "older", "lowest")
  /\ LET t == task[c]
         alive == t.known \cap Uids(t.f)
     IN IF Lowest(t.known) \in alive
        THEN Goto(c, "window", [seq |-> SeqNum(t.f, Lowest(t.known))])
        ELSE IF alive = {} THEN Goto(c, "newest", <<>>)
        ELSE Goto(c, "alive", [anchor |-> Lowest(alive)])
  /\ OnlyTask

OlderAlive(c) ==
  /\ Running(c, "older", "alive")
  /\ LET t == task[c]
     IN IF t.anchor \in Uids(t.f)
        THEN Goto(c, "window", [seq |-> SeqNum(t.f, t.anchor)])
        ELSE Finish(c, [ok |-> TRUE, complete |-> FALSE])
  /\ OnlyTask

OlderWindow(c) ==
  /\ Running(c, "older", "window")
  /\ LET t == task[c]
         from == AtLeast(1, t.seq - Window)
     IN IF t.seq <= 1
        THEN Goto(c, "mark", <<>>)
        ELSE Goto(c, "put", [fetched |-> RowsAt(t.f, BySeq(t.f, from, t.seq - 1)),
                             whole |-> from = 1])
  /\ OnlyTask

(* Nothing to measure from: the newest page, up to the mark.                    *)
OlderNewest(c) ==
  /\ Running(c, "older", "newest")
  /\ LET t == task[c]
         exists == Cardinality(Uids(t.f))
     IN IF srv[t.f].valid # t.mark.valid THEN Finish(c, [ok |-> FALSE])
        ELSE IF exists = 0 THEN Goto(c, "mark", <<>>)
        ELSE Goto(c, "put",
                  [fetched |-> RowsAt(t.f, NewestWindow(t.f, exists) \cap (0..t.mark.last)),
                   whole |-> exists <= Window])
  /\ OnlyTask

OlderPut(c) ==
  /\ Running(c, "older", "put")
  /\ LET t == task[c]
     IN IF Stale(c, t)
        THEN Finish(c, [ok |-> FALSE]) /\ UNCHANGED <<cache, calm>>
        ELSE /\ PutRows(c, t.f, t.fetched)
             /\ IF t.whole THEN Goto(c, "mark", <<>>)
                ELSE Finish(c, [ok |-> TRUE, complete |-> FALSE])
             /\ calm' = [d \in Clients |-> FALSE]
  /\ Quiet /\ UNCHANGED net

(* The mark is read again: a sync may have moved it meanwhile.                  *)
OlderMark(c) ==
  /\ Running(c, "older", "mark")
  /\ LET f == task[c].f
         mark == MarkOf(c, f)
     IN IF Stale(c, task[c]) \/ mark = NoMark
        THEN UNCHANGED <<cache, calm>>
        ELSE PutMark(c, f, [mark EXCEPT !.complete = TRUE])
             /\ calm' = [d \in Clients |-> FALSE]
  /\ Finish(c, [ok |-> TRUE, complete |-> TRUE])
  /\ Quiet /\ UNCHANGED net

----------------------------------------------------------------------------
(* Writes: one command per folder, off the copies the list showed, refused when *)
(* the folder was renumbered since.                                             *)

Target(t) == Head(t.targets)

\* Mutant: a write goes to the uid, whatever the folder's numbering.
MutIsRenumberedSince(g) == FALSE

IsRenumberedSince(g) == srv[g.f].valid # g.valid

Reaches(f, u, m) == u \in Uids(f) => srv[f].box[u] = m

(* STORE, then the same flag into the cache.                                    *)
FlagStore(c) ==
  /\ Running(c, "flag", "command")
  /\ LET t == task[c]
         g == Target(t)
     IN IF IsRenumberedSince(g)
        THEN Finish(c, [ok |-> FALSE]) /\ UNCHANGED <<srv, astray>>
        ELSE /\ srv' = [srv EXCEPT ![g.f].seen =
                          IF t.on THEN @ \cup ({g.u} \cap Uids(g.f)) ELSE @ \ {g.u}]
             /\ astray' = (astray \/ ~Reaches(g.f, g.u, t.m))
             /\ Goto(c, "answer", <<>>)
  /\ calm' = [d \in Clients |-> FALSE]
  /\ UNCHANGED <<cache, hist, gen>>

FlagCache(c) ==
  /\ Running(c, "flag", "answer")
  /\ LET t == task[c]
         g == Target(t)
     IN /\ UpdateRows(c, g.f, {g.u}, t.on)
        /\ IF Len(t.targets) = 1 THEN Finish(c, [ok |-> TRUE])
           ELSE Goto(c, "command", [targets |-> Tail(t.targets)])
  /\ calm' = [d \in Clients |-> FALSE]
  /\ Quiet /\ UNCHANGED net

Filed(box, u, m) == (u :> m) @@ box

(* MOVE: the copy leaves its folder and takes the next uid of the other one.    *)
MoveStore(c) ==
  /\ Running(c, "move", "command")
  /\ LET t == task[c]
         g == Target(t)
         u == srv[t.to].next
         m == srv[g.f].box[g.u]
     IN IF IsRenumberedSince(g)
        THEN Finish(c, [ok |-> FALSE]) /\ UNCHANGED <<net, astray>>
        ELSE IF g.u \notin Uids(g.f)
        THEN Goto(c, "answer", [copy |-> NoMark]) /\ UNCHANGED <<net, astray>>
        ELSE /\ srv' = [srv EXCEPT ![g.f].box = Restrict(@, DOMAIN @ \ {g.u}),
                                   ![g.f].seen = @ \ {g.u},
                                   ![t.to].box = Filed(@, u, m),
                                   ![t.to].next = @ + 1,
                                   ![t.to].seen = IF g.u \in srv[g.f].seen
                                                  THEN @ \cup {u} ELSE @]
             /\ hist' = hist \cup {<<t.to, srv[t.to].valid, u, m>>}
             /\ astray' = (astray \/ m # t.m)
             /\ Goto(c, "answer", [copy |-> IF Casts[cast].uidplus
                                            THEN [f |-> t.to, u |-> u, valid |-> srv[t.to].valid]
                                            ELSE NoMark])
  /\ calm' = [d \in Clients |-> FALSE]
  /\ UNCHANGED <<cache, gen>>

MoveAnswer(c) ==
  /\ Running(c, "move", "answer")
  /\ LET t == task[c]
         moved == Append(t.moved, [from |-> Target(t), to |-> t.copy])
     IN IF Len(t.targets) = 1 THEN Finish(c, [ok |-> TRUE, moved |-> moved])
        ELSE Goto(c, "command", [targets |-> Tail(t.targets), moved |-> moved])
  /\ OnlyTask

----------------------------------------------------------------------------
(* Bodies.  An opened one is fetched by uid from the folder SELECT answers for;  *)
(* a prefetched one only if its UIDVALIDITY is still the one the sync read.     *)

BodyFetch(c) ==
  /\ Running(c, "body", "command")
  /\ LET t == task[c]
     IN IF t.u \in Uids(t.f)
        THEN Finish(c, [ok |-> TRUE, got |-> srv[t.f].box[t.u]])
        ELSE Finish(c, [ok |-> FALSE])
  /\ OnlyTask

PrefetchFetch(c) ==
  /\ Running(c, "prefetch", "command")
  /\ LET t == task[c]
         none == Stale(c, t) \/ t.u \in BodyUids(c, t.f) \/ srv[t.f].valid # t.valid
                 \/ t.u \notin Uids(t.f)
     IN IF none THEN Finish(c, [ok |-> FALSE])
        ELSE Finish(c, [ok |-> TRUE, got |-> srv[t.f].box[t.u]])
  /\ OnlyTask

----------------------------------------------------------------------------
(* The connection drops under a command.  A read, and a flag, is run once more  *)
(* from its start on a new connection; a move is not.                           *)

Commands == {"select", "new", "flags", "lowest", "alive", "window", "newest", "command", "answer"}
FirstStep == [sync |-> "select", older |-> "start", flag |-> "command", move |-> "command",
              body |-> "command", prefetch |-> "command"]

Drop(c) ==
  /\ task[c] # NoTask
  /\ task[c].pc \in Commands
  /\ IF task[c].kind = "move" \/ task[c].again
     THEN Finish(c, [ok |-> FALSE])
     ELSE Goto(c, FirstStep[task[c].kind], [again |-> TRUE, targets |-> task[c].all])
  /\ OnlyTask

SyncStep(c) ==
  SyncSelect(c) \/ SyncMark(c) \/ SyncNew(c) \/ SyncFlags(c) \/ SyncDrop(c) \/ SyncPut(c)
  \/ SyncSave(c)
OlderStep(c) ==
  OlderStart(c) \/ OlderAnchor(c) \/ OlderAlive(c) \/ OlderWindow(c) \/ OlderNewest(c)
  \/ OlderPut(c) \/ OlderMark(c)
WriteStep(c) == FlagStore(c) \/ FlagCache(c) \/ MoveStore(c) \/ MoveAnswer(c)
BodyStep(c) == BodyFetch(c) \/ PrefetchFetch(c)
================================================================================
