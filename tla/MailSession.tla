------------------------------ MODULE MailSession ------------------------------
(* A mailbox as its user has it: the list held in memory, the passes that read  *)
(* it again, the writes laid over it until a pass shows them, the lock that     *)
(* clears the device.  Each client plays its script of clicks and commands; the *)
(* environment plays what other mail programs and the server do meanwhile.      *)
EXTENDS CacheSnapshot, SequencesExt

VARIABLES session,     \* session[c]: is it open, is its list hydrated, its sync state
          pos,         \* how far each client's script is; "env" has one too
          run,         \* run[c]: the sync run under way, its pass and what it read
          queue,       \* queue[c]: the tasks waiting for the mailbox's connection
          jobs,        \* jobs[c]: what goes on outside the queue
          base,        \* base[c]: the folders in memory, as last read
          ops,         \* ops[c]: the writes laid over base, in the order made
          moved,       \* moved[c]: where a copy went, by where it was
          opened,      \* opened[c]: the message last opened and the body it showed
          did          \* did[c]: what c's writes did and nobody changed since

CONSTANTS NoRun

ASSUME FoldersAssumption == IsFiniteSet(Folders)

ui == <<session, pos, run, queue, jobs, base, ops, moved, opened, did>>
vars == <<cast, cache, net, task, gen, astray, calm, vault, ui>>

Actors == Clients \cup {"env"}
Script(a) == Casts[cast].script[a]
Next1(a) == Script(a)[pos[a]]
Says(a, do) == pos[a] <= Len(Script(a)) /\ Next1(a).do = do
Onward(a) == pos' = [pos EXCEPT ![a] = @ + 1]

ClosedSession == [open |-> TRUE, hydrated |-> FALSE, status |-> "none", seq |-> 0,
                  teardown |-> FALSE, saved |-> FALSE]

Init ==
  /\ cast \in DOMAIN Casts
  /\ StoreInit /\ SnapshotInit
  /\ srv = [f \in Folders |->
              [valid |-> 1, next |-> Casts[cast].mail[f] + 1,
               box |-> [u \in 1..Casts[cast].mail[f] |-> IF f = "inbox" THEN u ELSE u + 10],
               seen |-> {}]]
  /\ hist = UNION {{<<f, 1, u, srv[f].box[u]>> : u \in Uids(f)} : f \in Folders}
  /\ task = [c \in Clients |-> NoTask]
  /\ gen = [c \in Clients |-> 1]
  /\ astray = FALSE
  /\ calm = [c \in Clients |-> FALSE]
  /\ session = [c \in Clients |-> ClosedSession]
  /\ pos = [a \in Actors |-> 1]
  /\ run = [c \in Clients |-> NoRun]
  /\ queue = [c \in Clients |-> <<>>]
  /\ jobs = [c \in Clients |-> {}]
  /\ base = [c \in Clients |-> <<>>]
  /\ ops = [c \in Clients |-> <<>>]
  /\ moved = [c \in Clients |-> <<>>]
  /\ opened = [c \in Clients |-> NoTask]
  /\ did = [c \in Clients |-> {}]

----------------------------------------------------------------------------
(* The queue: what a click asked for goes before what runs in the background.   *)

NewTask(c, kind, f, more) ==
  Over(more, [kind |-> kind, pc |-> FirstStep[kind], f |-> f, gen |-> gen[c], again |-> FALSE,
              invalid |-> FALSE, all |-> <<>>])

IsUrgent(t) == t.kind # "prefetch"

StartTask(c) ==
  /\ task[c] = NoTask
  /\ queue[c] # <<>>
  /\ LET urgent == {i \in DOMAIN queue[c] : IsUrgent(queue[c][i])}
         i == IF urgent = {} THEN 1 ELSE Lowest(urgent)
     IN /\ task' = [task EXCEPT ![c] = queue[c][i]]
        /\ queue' = [queue EXCEPT ![c] = RemoveAt(@, i)]
  /\ UNCHANGED <<cast, cache, net, gen, astray, calm, vault, session, pos, run, jobs, base, ops,
                 moved, opened, did>>

Submit(c, t) == queue' = [queue EXCEPT ![c] = Append(@, t)]
TaskEnds(c) == task' = [task EXCEPT ![c] = NoTask]
Settled(c, kind) == Running(c, kind, "done")

----------------------------------------------------------------------------
(* A run of passes over the mailbox, one at a time: asked again meanwhile, it   *)
(* goes round once more.                                                        *)

Wider(a, b) == IF "all" \in {a, b} THEN "all" ELSE "inbox"

NewRun(c, scope) ==
  [gen |-> gen[c], phase |-> IF session[c].hydrated THEN "begin" ELSE "restore",
   dirty |-> scope, torn |-> FALSE, scope |-> scope, todo |-> <<>>, by |-> <<>>, seq |-> 0,
   invalid |-> FALSE]

Asked(c, r, scope) ==
  IF r = NoRun THEN NewRun(c, scope)
  ELSE [r EXCEPT !.dirty = IF @ = "none" THEN scope ELSE Wider(@, scope)]

\* Mutant: a pass goes on over a move that landed between its folders.
MutTorn(r) == r

Torn(r) == IF r = NoRun THEN r ELSE [r EXCEPT !.torn = TRUE]

Idle(c) == run[c] = NoRun /\ task[c] = NoTask /\ queue[c] = <<>> /\ jobs[c] = {}
           /\ saving[c] = NoTask

Ended(c) == Idle(c) /\ ops[c] = <<>>

(* A command of the command line starts once the one before it has ended, and   *)
(* reads the files anew.                                                        *)
AskSync(c, scope) ==
  /\ Says(c, scope) /\ session[c].open
  /\ Onward(c)
  /\ IF Port = "disk"
     THEN /\ Ended(c)
          /\ held' = [held EXCEPT ![c] = disk[Dev(c)]]
          /\ run' = [run EXCEPT ![c] = [NewRun(c, "all") EXCEPT !.phase = "restore"]]
     ELSE run' = [run EXCEPT ![c] = Asked(c, @, scope)] /\ UNCHANGED held
  /\ UNCHANGED <<cast, disk, bodies, digest, net, task, gen, astray, calm, vault, session, queue,
                 jobs, base, ops, moved, opened, did>>

Phase(c, phase) == run[c] # NoRun /\ run[c].phase = phase
RunIs(c, r) == run' = [run EXCEPT ![c] = r]
RunStays == UNCHANGED <<cast, net, gen, astray, pos, jobs, moved, opened, did>>

RunRestore(c) ==
  /\ Phase(c, "restore")
  /\ IF Stale(c, run[c])
     THEN RunIs(c, NoRun) /\ UNCHANGED <<restoring, session>>
     ELSE /\ restoring' = [restoring EXCEPT ![c] = NewRestore(c)]
          /\ session' = [session EXCEPT ![c].hydrated = TRUE]
          /\ RunIs(c, [run[c] EXCEPT !.phase = "hydrate"])
  /\ RunStays /\ UNCHANGED <<cache, task, calm, snap, saving, queue, base, ops>>

CachedSummaries(c) ==
  [f \in Folders |-> [valid |-> IF MarkOf(c, f) = NoMark THEN 0 ELSE MarkOf(c, f).valid,
                      rows |-> RowsOf(c, f)]]

RunHydrate(c) ==
  /\ Phase(c, "hydrate") /\ restoring[c] = NoTask
  /\ IF Stale(c, run[c])
     THEN RunIs(c, NoRun) /\ UNCHANGED base
     ELSE /\ RunIs(c, [run[c] EXCEPT !.phase = "begin"])
          /\ base' = IF \E f \in Folders : RowsOf(c, f) # <<>>
                     THEN [base EXCEPT ![c] = CachedSummaries(c)] ELSE base
  /\ Hold(c, Folders) /\ UNCHANGED <<disk, bodies, digest>>
  /\ RunStays /\ UNCHANGED <<task, calm, vault, session, queue, ops>>

(* Only a whole pass retires a write or mends a failed sync.                    *)
RunBegin(c) ==
  /\ Phase(c, "begin")
  /\ IF Stale(c, run[c])
     THEN RunIs(c, NoRun) /\ UNCHANGED <<session, queue, calm>>
     ELSE LET r == run[c]
              scope == IF r.dirty = "inbox" /\ session[c].status = "synced" /\ ops[c] = <<>>
                       THEN "inbox" ELSE "all"
          IN /\ RunIs(c, [r EXCEPT !.phase = "wait", !.dirty = "none", !.torn = FALSE,
                                   !.scope = scope, !.todo = Tail(FolderOrder), !.by = <<>>,
                                   !.seq = session[c].seq + 1, !.invalid = FALSE])
             /\ session' = [session EXCEPT ![c].seq = @ + 1,
                              ![c].status = IF scope = "all" THEN "syncing" ELSE @]
             /\ Submit(c, NewTask(c, "sync", Head(FolderOrder), <<>>))
             /\ calm' = [calm EXCEPT ![c] = TRUE]
  /\ RunStays /\ UNCHANGED <<cache, task, vault, base, ops>>

(* A folder shows as it lands; a torn pass shows no more of itself.             *)
Lands(c, f, read) ==
  base' = IF run[c] = NoRun \/ run[c].torn \/ Stale(c, task[c]) THEN base
          ELSE [base EXCEPT ![c] = (f :> read) @@ @]

(* New mail first, when flags are still to come.  A start-over drops what c did *)
(* to mail that left the window.                                                *)
SyncEarly(c) ==
  /\ Running(c, "sync", "early")
  /\ LET t == task[c]
     IN /\ IF t.cached # <<>> /\ t.fetched # <<>>
           THEN Lands(c, t.f, [valid |-> t.valid, rows |-> t.fetched @@ t.cached])
           ELSE UNCHANGED base
        /\ Goto(c, IF t.cached = <<>> THEN "drop" ELSE "flags", [kept |-> <<>>])
        /\ did' = IF t.over THEN [did EXCEPT ![c] = {}] ELSE did
  /\ UNCHANGED <<cast, cache, net, gen, astray, calm, vault, session, pos, run, queue, jobs, ops,
                 moved, opened>>

SyncSettles(c) ==
  /\ Settled(c, "sync")
  /\ TaskEnds(c)
  /\ LET t == task[c]
         r == [run[c] EXCEPT !.invalid = @ \/ t.invalid]
         inboxOnly == r.scope = "inbox" /\ t.f = Head(FolderOrder) /\ ~r.invalid /\ ~t.res.lost
     IN IF run[c] = NoRun \/ Stale(c, t)
        THEN UNCHANGED <<run, base>>
        ELSE IF ~t.res.ok THEN RunIs(c, [r EXCEPT !.phase = "failed"]) /\ UNCHANGED base
        ELSE /\ Lands(c, t.f, [valid |-> t.res.valid, rows |-> t.res.rows])
             /\ RunIs(c, [r EXCEPT !.phase = IF inboxOnly THEN "synced" ELSE "rest",
                                   !.scope = IF inboxOnly THEN "inbox" ELSE "all",
                                   !.by = (t.f :> [valid |-> t.res.valid,
                                                   rows |-> t.res.rows]) @@ @])
  /\ RunStays /\ UNCHANGED <<cache, calm, vault, session, queue, ops>>

RunRest(c) ==
  /\ Phase(c, "rest")
  /\ LET r == run[c]
     IN IF r.todo = <<>> THEN RunIs(c, [r EXCEPT !.phase = "synced"]) /\ UNCHANGED queue
        ELSE IF Stale(c, r) THEN RunIs(c, [r EXCEPT !.phase = "failed"]) /\ UNCHANGED queue
        ELSE /\ Submit(c, NewTask(c, "sync", Head(r.todo), <<>>))
             /\ RunIs(c, [r EXCEPT !.phase = "wait", !.todo = Tail(@)])
  /\ RunStays /\ UNCHANGED <<cache, task, calm, vault, session, base, ops>>

Retired(op, seq) == op.stage = "acked" /\ op.retire <= seq
Goes(r) == IF r.dirty = "none" THEN NoRun ELSE [r EXCEPT !.phase = "begin"]

(* The newest body of each folder that is not kept yet, at background priority. *)
Prefetches(c, by) ==
  LET wanted(f) == DOMAIN by[f].rows \ BodyUids(c, f)
      fs == {f \in Folders : /\ f \in DOMAIN by /\ wanted(f) # {}
                             /\ MarkOf(c, f) # NoMark /\ MarkOf(c, f).valid = by[f].valid}
  IN [i \in 1..Cardinality(fs) |->
        LET f == SetToSeq(fs)[i]
        IN NewTask(c, "prefetch", f, [u |-> Highest(wanted(f)), valid |-> by[f].valid,
                                      m |-> by[f].rows[Highest(wanted(f))].msg])]

(* The pass landed.  Torn by a write between its folders it only goes round; a  *)
(* whole one replaces the list and retires the writes acknowledged before it.   *)
RunSynced(c) ==
  /\ Phase(c, "synced")
  /\ LET r == run[c]
         whole == r.scope = "all"
     IN IF Stale(c, r)
        THEN RunIs(c, NoRun) /\ UNCHANGED <<cache, session, queue, base, ops, saving>>
        ELSE IF r.torn
        THEN /\ RunIs(c, [r EXCEPT !.phase = "begin", !.dirty = "all"])
             /\ UNCHANGED <<cache, session, queue, base, ops, saving>>
        ELSE /\ RunIs(c, Goes(r))
             /\ session' = [session EXCEPT ![c].status = "synced", ![c].saved = TRUE]
             /\ base' = IF Port = "disk" THEN [base EXCEPT ![c] = CachedSummaries(c)]
                        ELSE IF whole THEN [base EXCEPT ![c] = r.by] ELSE base
             /\ ops' = IF whole
                       THEN [ops EXCEPT ![c] = SelectSeq(@, LAMBDA op : ~Retired(op, r.seq))]
                       ELSE ops
             /\ saving' = IF session[c].saved \/ saving[c] # NoTask \/ ~Casts[cast].snapshots
                          THEN saving ELSE [saving EXCEPT ![c] = NewSave(c)]
             /\ queue' = IF Casts[cast].prefetch
                         THEN [queue EXCEPT ![c] = @ \o Prefetches(c, r.by)] ELSE queue
             /\ Hold(c, Folders) /\ UNCHANGED <<disk, bodies, digest>>
  /\ RunStays /\ UNCHANGED <<task, calm, snap, restoring>>

(* A renumbered mailbox leaves nothing on screen that names its uids.           *)
RunFailed(c) ==
  /\ Phase(c, "failed")
  /\ LET r == run[c]
     IN IF Stale(c, r)
        THEN RunIs(c, NoRun) /\ UNCHANGED <<session, base, ops>>
        ELSE /\ RunIs(c, Goes(r))
             /\ session' = [session EXCEPT ![c].status = "failed"]
             /\ IF r.invalid THEN base' = [base EXCEPT ![c] = <<>>] /\ ops' = [ops EXCEPT ![c] = <<>>]
                ELSE UNCHANGED <<base, ops>>
  /\ RunStays /\ UNCHANGED <<cache, task, calm, vault, queue>>

----------------------------------------------------------------------------
(* Writes.  One is laid over the list at the click; it is sent when the one     *)
(* before it on that message has settled, to where that one left the copies.    *)

CopiesOf(c, m) ==
  UNION {{[f |-> f, u |-> u, valid |-> base[c][f].valid] :
            u \in {v \in DOMAIN base[c][f].rows : base[c][f].rows[v].msg = m}} : f \in DOMAIN base[c]}

Sources(to) == Folders \ {to}
AfterMove(fs, to) == (fs \ Sources(to)) \cup {to}

(* Moving nothing invents no copy.                                              *)
Overlay(shown, moves) ==
  FoldLeft(LAMBDA fs, op : IF fs = {} THEN fs ELSE AfterMove(fs, op.to), shown, moves)

OpsOn(c, m, kind) == SelectSeq(ops[c], LAMBDA op : op.m = m /\ op.kind = kind)
FoldersShown(c, m) == Overlay({k.f : k \in CopiesOf(c, m)}, OpsOn(c, m, "move"))
SeenShown(c, m) ==
  LET flags == OpsOn(c, m, "flag")
  IN IF flags # <<>> THEN {flags[Len(flags)].on}
     ELSE {base[c][k.f].rows[k.u].seen : k \in CopiesOf(c, m)}
Shown(c) == {m \in {h[4] : h \in hist} : CopiesOf(c, m) # {}}

Click(c, kind) ==
  /\ Says(c, kind) /\ session[c].open
  /\ Port = "disk" => Ended(c) /\ session[c].status = "synced"
  /\ Onward(c)
  /\ \E m \in Shown(c) :
       /\ IF kind = "move" THEN FoldersShown(c, m) \cap Sources(Next1(c).to) # {}
          ELSE SeenShown(c, m) # {Next1(c).on}
       /\ ops' = [ops EXCEPT ![c] = Append(@,
                   [kind |-> kind, m |-> m, stage |-> "turn", retire |-> 0, id |-> pos[c],
                    to |-> IF kind = "move" THEN Next1(c).to ELSE "inbox",
                    on |-> IF kind = "flag" THEN Next1(c).on ELSE FALSE,
                    copies |-> CopiesOf(c, m)])]
       /\ did' = [did EXCEPT ![c] = {w \in @ : w.m # m}]
  /\ UNCHANGED <<cast, cache, net, task, gen, astray, calm, vault, session, run, queue, jobs, base,
                 moved, opened>>

WhereNow(where, k) ==
  LET now[at \in DOMAIN where \cup Range(where) \cup {k}] ==
        IF at = NoMark \/ at \notin DOMAIN where THEN at ELSE now[where[at]]
  IN  now[k]

Without(s, id) == SelectSeq(s, LAMBDA op : op.id # id)
Picks(op, k) == op.kind = "flag" \/ k.f \in Sources(op.to)

(* Refused: what the write laid over the list goes, and a sync says what is so; *)
(* one that may be half done tears the pass under way.                          *)
Refuse(c, op, r) ==
  /\ ops' = [ops EXCEPT ![c] = Without(@, op.id)]
  /\ run' = IF Port = "disk" THEN run ELSE [run EXCEPT ![c] = Asked(c, r, "all")]

Tearing(c, op) == IF op.kind = "move" THEN Torn(run[c]) ELSE run[c]

Send(c) ==
  /\ \E i \in DOMAIN ops[c] :
       LET op == ops[c][i]
           now == {WhereNow(moved[c], k) : k \in op.copies}
           picked == {k \in now \ {NoMark} : Picks(op, k)}
           targets == SetToSeq(picked)
       IN /\ op.stage = "turn"
          /\ \A j \in 1..(i - 1) : ops[c][j].m = op.m => ops[c][j].stage = "acked"
          /\ IF NoMark \in now \/ picked = {} \/ \E k \in picked : MarkOf(c, k.f) = NoMark
             THEN Refuse(c, op, run[c]) /\ UNCHANGED queue
             ELSE IF \E k \in picked : MarkOf(c, k.f).valid # k.valid
             THEN Refuse(c, op, Tearing(c, op)) /\ UNCHANGED queue
             ELSE /\ ops' = [ops EXCEPT ![c][i].stage = "sent"]
                  /\ Submit(c, NewTask(c, op.kind, targets[1].f,
                                 [targets |-> targets, all |-> targets, m |-> op.m, to |-> op.to,
                                  on |-> op.on, op |-> op, moved |-> <<>>]))
                  /\ UNCHANGED run
  /\ session[c].open
  /\ UNCHANGED <<cast, cache, net, task, gen, astray, calm, vault, session, pos, jobs, base, moved,
                 opened, did>>

(* Acknowledged: laid over the list until a sync that starts after this lands.  *)
Acknowledge(c, op) ==
  ops' = [ops EXCEPT ![c] = IF Port = "disk" THEN Without(@, op.id)
            ELSE [i \in DOMAIN @ |-> IF @[i].id = op.id
                                     THEN [@[i] EXCEPT !.stage = "acked",
                                                       !.retire = session[c].seq + 1]
                                     ELSE @[i]]]

Wrote(op) == [m |-> op.m, kind |-> op.kind, to |-> op.to, on |-> op.on]
AnyOther(c, m) == [d \in Clients |-> IF d = c THEN did[d] ELSE {w \in did[d] : w.m # m}]
LaterOn(c, op) == \E i \in DOMAIN ops[c] : ops[c][i].m = op.m /\ ops[c][i].id > op.id

(* Nobody changed the message on the server while the answer was on its way.    *)
StillSo(op) ==
  LET at == {f \in Folders : \E u \in Uids(f) : srv[f].box[u] = op.m}
  IN IF op.kind = "move" THEN at = {op.to}
     ELSE \A f \in at : \A u \in Uids(f) : srv[f].box[u] = op.m => (u \in srv[f].seen) = op.on

WriteSettles(c) ==
  /\ Settled(c, "flag") \/ Settled(c, "move")
  /\ TaskEnds(c)
  /\ LET t == task[c]
         op == t.op
         went == IF t.res.ok /\ t.kind = "move"
                 THEN [k \in {t.res.moved[i].from : i \in DOMAIN t.res.moved} |->
                         (CHOOSE x \in {t.res.moved[i] : i \in DOMAIN t.res.moved} : x.from = k).to]
                 ELSE <<>>
     IN IF Stale(c, t)
        THEN UNCHANGED <<moved, run, ops, did, jobs>>
        ELSE IF t.res.ok
        THEN /\ moved' = [moved EXCEPT ![c] = IF Port = "idb" THEN went @@ @ ELSE @]
             /\ run' = IF t.kind = "move" /\ Port = "idb" THEN [run EXCEPT ![c] = Torn(@)] ELSE run
             /\ Acknowledge(c, op)
             /\ did' = LET others == AnyOther(c, op.m)
                       IN IF LaterOn(c, op) \/ ~StillSo(op) \/ Port = "disk" THEN others
                          ELSE [others EXCEPT ![c] = @ \cup {Wrote(op)}]
             /\ jobs' = IF t.kind = "move" /\ Port = "disk"
                        THEN [jobs EXCEPT ![c] = @ \cup {[kind |-> "record", went |-> went]}]
                        ELSE jobs
        ELSE /\ Refuse(c, op, Tearing(c, op))
             /\ did' = AnyOther(c, op.m)
             /\ UNCHANGED <<moved, jobs>>
  /\ UNCHANGED <<cast, cache, net, gen, astray, calm, vault, session, pos, queue, base, opened>>

(* recordMoves: the copy leaves its folder in the cache, then is filed where the *)
(* server said, in a folder that has synced under the same UIDVALIDITY.         *)
RecordSource(c) ==
  /\ \E j \in jobs[c] :
       /\ j.kind = "record"
       /\ \E k \in DOMAIN j.went :
            /\ DeleteRows(c, k.f, {k.u})
            /\ jobs' = [jobs EXCEPT ![c] = (@ \ {j}) \cup
                 {[kind |-> "file", to |-> j.went[k],
                   row |-> Restrict(RowsOf(c, k.f), {k.u} \cap DOMAIN RowsOf(c, k.f))]} \cup
                 (IF DOMAIN j.went = {k} THEN {}
                  ELSE {[j EXCEPT !.went = Restrict(@, DOMAIN @ \ {k})]})]
  /\ calm' = [d \in Clients |-> FALSE]
  /\ UNCHANGED <<cast, net, task, gen, astray, vault, session, pos, run, queue, base, ops, moved,
                 opened, did>>

RecordDestination(c) ==
  /\ \E j \in jobs[c] :
       /\ j.kind = "file"
       /\ jobs' = [jobs EXCEPT ![c] = @ \ {j}]
       /\ IF \/ j.to = NoMark \/ j.row = <<>>
             \/ MarkOf(c, j.to.f) = NoMark \/ MarkOf(c, j.to.f).valid # j.to.valid
          THEN UNCHANGED cache
          ELSE PutRows(c, j.to.f, j.to.u :> j.row[CHOOSE u \in DOMAIN j.row : TRUE])
  /\ calm' = [d \in Clients |-> FALSE]
  /\ UNCHANGED <<cast, net, task, gen, astray, vault, session, pos, run, queue, base, ops, moved,
                 opened, did>>

----------------------------------------------------------------------------
(* Older mail, and bodies.                                                      *)

AskOlder(c) ==
  /\ Says(c, "older") /\ session[c].open
  /\ session[c].status = "synced"
  /\ Port = "disk" => Ended(c)
  /\ Onward(c)
  /\ Submit(c, NewTask(c, "older", Next1(c).f, <<>>))
  /\ UNCHANGED <<cast, cache, net, task, gen, astray, calm, vault, session, run, jobs, base, ops,
                 moved, opened, did>>

OlderSettles(c) ==
  /\ Settled(c, "older")
  /\ TaskEnds(c)
  /\ IF Stale(c, task[c]) \/ ~task[c].res.ok
     THEN UNCHANGED <<run, base>>
     ELSE RunIs(c, Torn(run[c])) /\ base' = [base EXCEPT ![c] = CachedSummaries(c)]
  /\ UNCHANGED <<cast, cache, net, gen, astray, calm, vault, session, pos, queue, jobs, ops, moved,
                 opened, did>>

(* A body on the device is shown; another copy's folder must not have been      *)
(* renumbered under its mark.                                                   *)
Open(c) ==
  /\ Says(c, "open") /\ session[c].open
  /\ Port = "disk" => Ended(c)
  /\ Onward(c)
  /\ \E m \in Shown(c) : \E k \in CopiesOf(c, m) :
       IF HasBody(c, k.f, k.u)
       THEN opened' = [opened EXCEPT ![c] = [m |-> m, got |-> BodyOf(c, k.f, k.u)]]
            /\ UNCHANGED queue
       ELSE IF MarkOf(c, k.f) = NoMark \/ MarkOf(c, k.f).valid # k.valid
       THEN UNCHANGED <<opened, queue>>
       ELSE Submit(c, NewTask(c, "body", k.f, [u |-> k.u, m |-> m, valid |-> k.valid]))
            /\ UNCHANGED opened
  /\ UNCHANGED <<cast, cache, net, task, gen, astray, calm, vault, session, run, jobs, base, ops,
                 moved, did>>

(* The body is kept when its sender check is in, which no task waits for.       *)
BodySettles(c) ==
  /\ Settled(c, "body") \/ Settled(c, "prefetch")
  /\ TaskEnds(c)
  /\ LET t == task[c]
     IN IF Stale(c, t) \/ ~t.res.ok THEN UNCHANGED <<jobs, opened>>
        ELSE /\ jobs' = [jobs EXCEPT ![c] = @ \cup
                           {[kind |-> "body", f |-> t.f, u |-> t.u, got |-> t.res.got,
                             gen |-> t.gen]}]
             /\ opened' = IF t.kind = "body" THEN [opened EXCEPT ![c] = [m |-> t.m, got |-> t.res.got]]
                          ELSE opened
  /\ UNCHANGED <<cast, cache, net, gen, astray, calm, vault, session, pos, run, queue, base, ops,
                 moved, did>>

KeepBody(c) ==
  /\ \E j \in jobs[c] :
       /\ j.kind = "body"
       /\ jobs' = [jobs EXCEPT ![c] = @ \ {j}]
       /\ IF Stale(c, j) THEN UNCHANGED cache ELSE PutBody(c, j.f, j.u, j.got)
  /\ UNCHANGED <<cast, net, task, gen, astray, calm, vault, session, pos, run, queue, base, ops,
                 moved, opened, did>>

----------------------------------------------------------------------------
(* The lock: the session ends at once, then the running task, then the cache.   *)
(* The command line has none.                                                   *)

Forgets(c) ==
  /\ run' = [run EXCEPT ![c] = NoRun]
  /\ queue' = [queue EXCEPT ![c] = <<>>]
  /\ restoring' = [restoring EXCEPT ![c] = NoTask]
  /\ base' = [base EXCEPT ![c] = <<>>]
  /\ ops' = [ops EXCEPT ![c] = <<>>]
  /\ moved' = [moved EXCEPT ![c] = <<>>]
  /\ opened' = [opened EXCEPT ![c] = NoTask]
  /\ did' = [did EXCEPT ![c] = {}]

Lock(c) ==
  /\ Port = "idb" /\ Says(c, "lock") /\ session[c].open
  /\ Onward(c)
  /\ gen' = [gen EXCEPT ![c] = @ + 1]
  /\ session' = [session EXCEPT ![c] = [ClosedSession EXCEPT !.open = FALSE, !.teardown = TRUE]]
  /\ Forgets(c)
  /\ UNCHANGED <<cast, cache, net, task, astray, calm, snap, saving, jobs>>

\* Mutant: the clear does not wait for the running task.
MutTeardown(c) ==
  /\ session[c].teardown
  /\ session' = [session EXCEPT ![c].teardown = FALSE]
  /\ Clear(c)
  /\ calm' = [d \in Clients |-> FALSE]
  /\ UNCHANGED <<cast, net, task, gen, astray, vault, pos, run, queue, jobs, base, ops, moved,
                 opened, did>>

Teardown(c) ==
  /\ session[c].teardown
  /\ task[c] = NoTask
  /\ session' = [session EXCEPT ![c].teardown = FALSE]
  /\ Clear(c)
  /\ calm' = [d \in Clients |-> FALSE]
  /\ UNCHANGED <<cast, net, task, gen, astray, vault, pos, run, queue, jobs, base, ops, moved,
                 opened, did>>

(* An unlock waits for nothing of the lock before it; see Casts[_].hasty.       *)
Unlock(c) ==
  /\ Says(c, "unlock") /\ ~session[c].open
  /\ session[c].teardown => Casts[cast].hasty
  /\ Onward(c)
  /\ session' = [session EXCEPT ![c].open = TRUE]
  /\ UNCHANGED <<cast, cache, net, task, gen, astray, calm, vault, run, queue, jobs, base, ops,
                 moved, opened, did>>

(* The tab is closed, or the process killed, between any two steps.             *)
Crash(c) ==
  /\ Says(c, "crash")
  /\ Onward(c)
  /\ Forgets(c)
  /\ gen' = [gen EXCEPT ![c] = @ + 1]
  /\ task' = [task EXCEPT ![c] = NoTask]
  /\ jobs' = [jobs EXCEPT ![c] = {}]
  /\ saving' = [saving EXCEPT ![c] = NoTask]
  /\ held' = [held EXCEPT ![c] = [f \in Folders |-> NoFile]]
  /\ session' = [session EXCEPT ![c] = ClosedSession]
  /\ UNCHANGED <<cast, disk, bodies, digest, net, astray, calm, snap>>

(* A script may wait for another client to be done with its first steps.        *)
Waits(a) ==
  /\ Says(a, "wait")
  /\ Onward(a)
  /\ pos[Next1(a).who] > Next1(a).past
  /\ Next1(a).who \in Clients => Idle(Next1(a).who)
  /\ UNCHANGED <<cast, cache, net, task, gen, astray, calm, vault, session, run, queue, jobs, base,
                 ops, moved, opened, did>>

Drops(c) ==
  /\ Says(c, "drop") /\ Onward(c)
  /\ Drop(c)
  /\ UNCHANGED <<cast, vault, session, run, queue, jobs, base, ops, moved, opened, did>>

----------------------------------------------------------------------------
(* The server and other mail programs: external, as the code sees them.  A      *)
(* folder is renumbered only while no client has it selected.                   *)

Selected(f) ==
  \E c \in Clients : /\ task[c] # NoTask /\ task[c].f = f
                     /\ task[c].pc \in {"mark", "new", "early", "flags", "window", "alive"}

Fresh == 1 + Cardinality({h[4] : h \in hist}) + 20

World(do) ==
  /\ Says("env", do) /\ Onward("env")
  /\ calm' = [c \in Clients |-> FALSE]
  /\ UNCHANGED <<cast, cache, task, gen, astray, vault, session, run, queue, jobs, base, ops, moved,
                 opened>>

Untouched(m) == did' = [c \in Clients |-> {w \in did[c] : w.m # m}]
Appended(s, m) == [s EXCEPT !.box = Filed(@, s.next, m), !.next = @ + 1]
Removed(s, u) == [s EXCEPT !.box = Restrict(@, DOMAIN @ \ {u}), !.seen = @ \ {u}]

Deliver ==
  /\ World("deliver")
  /\ LET f == Next1("env").f
     IN /\ srv' = [srv EXCEPT ![f] = Appended(@, Fresh)]
        /\ hist' = hist \cup {<<f, srv[f].valid, srv[f].next, Fresh>>}
  /\ UNCHANGED did

Expunge ==
  /\ World("expunge")
  /\ LET f == Next1("env").f
     IN \E u \in Uids(f) : srv' = [srv EXCEPT ![f] = Removed(@, u)] /\ Untouched(srv[f].box[u])
  /\ UNCHANGED hist

Flip ==
  /\ World("flip")
  /\ LET f == Next1("env").f
     IN \E u \in Uids(f) :
          /\ srv' = [srv EXCEPT ![f].seen = IF u \in @ THEN @ \ {u} ELSE @ \cup {u}]
          /\ Untouched(srv[f].box[u])
  /\ UNCHANGED hist

Refile ==
  /\ World("refile")
  /\ LET f == Next1("env").f
         g == Next1("env").to
     IN \E u \in Uids(f) :
          LET m == srv[f].box[u]
          IN /\ srv' = [srv EXCEPT ![f] = Removed(@, u), ![g] = Appended(@, m)]
             /\ hist' = hist \cup {<<g, srv[g].valid, srv[g].next, m>>}
             /\ Untouched(m)

Renumber ==
  /\ World("renumber")
  /\ LET f == Next1("env").f
         order == SetToSortSeq(Uids(f), <)
         n == Len(order)
     IN /\ ~Selected(f)
        /\ srv' = [srv EXCEPT ![f] =
                     [valid |-> @.valid + 1, next |-> n + 1,
                      box |-> [i \in 1..n |-> @.box[order[i]]],
                      seen |-> {i \in 1..n : order[i] \in @.seen}]]
        /\ hist' = hist \cup {<<f, srv[f].valid + 1, i, srv[f].box[order[i]]>> : i \in 1..n}
  /\ did' = [c \in Clients |-> {}]

(* At rest: nothing under way and no write unsettled, whatever is still to be   *)
(* clicked.  Anywhere else some step is possible.                               *)
Rest ==
  /\ \A c \in Clients : /\ Idle(c) /\ ~session[c].teardown
                        /\ \A i \in DOMAIN ops[c] : ops[c][i].stage = "acked"
  /\ UNCHANGED vars

ClientStep(c) ==
  \/ StartTask(c)
  \/ \E scope \in {"all", "inbox"} : AskSync(c, scope)
  \/ RunRestore(c) \/ RunHydrate(c) \/ RunBegin(c) \/ RunRest(c) \/ RunSynced(c) \/ RunFailed(c)
  \/ SyncEarly(c) \/ SyncSettles(c)
  \/ \E kind \in {"flag", "move"} : Click(c, kind)
  \/ Send(c) \/ WriteSettles(c) \/ RecordSource(c) \/ RecordDestination(c)
  \/ AskOlder(c) \/ OlderSettles(c)
  \/ Open(c) \/ BodySettles(c) \/ KeepBody(c)
  \/ Lock(c) \/ Teardown(c) \/ Unlock(c) \/ Crash(c) \/ Drops(c) \/ Waits(c)

Queued(c) ==
  /\ SyncStep(c) \/ OlderStep(c) \/ WriteStep(c) \/ BodyStep(c)
  /\ UNCHANGED <<cast, vault, ui>>

Shared(c) == SnapshotStep(c) /\ UNCHANGED <<cast, ui>>

Environment == Waits("env") \/ Deliver \/ Expunge \/ Flip \/ Refile \/ Renumber

Next == (\E c \in Clients : ClientStep(c) \/ Queued(c) \/ Shared(c)) \/ Environment \/ Rest

Spec == Init /\ [][Next]_vars

----------------------------------------------------------------------------
(* Properties.                                                                  *)

Hides(file, f) ==
  /\ file.mark # NoMark
  /\ file.mark.valid = srv[f].valid
  /\ \E u \in Uids(f) \ DOMAIN file.rows :
       /\ u <= file.mark.last
       /\ file.mark.complete \/ \E w \in DOMAIN file.rows \cap Uids(f) : w < u

(* No mail is out of reach: what the cache lacks of a folder is above its mark,  *)
(* where the next sync reads, or below the lowest message it holds, where paging *)
(* back does, and a folder called complete lacks nothing below its mark.        *)
StartingOver(d, f) ==
  \E c \in Clients : /\ Dev(c) = d /\ task[c] # NoTask /\ task[c].kind = "sync"
                     /\ task[c].f = f /\ task[c].pc \in {"put", "save"} /\ task[c].over

NoMailIsHidden == \A d \in Devices, f \in Folders : ~Hides(disk[d][f], f) \/ StartingOver(d, f)

(* Under the server's own numbering a cached summary is of the message its uid  *)
(* names, whatever was renumbered, moved, restored or cut short on the way.     *)
SummariesNameTheirMail ==
  \A d \in Devices, f \in Folders :
    LET file == disk[d][f]
    IN file.mark # NoMark /\ file.mark.valid = srv[f].valid =>
         \A u \in DOMAIN file.rows : <<f, srv[f].valid, u, file.rows[u].msg>> \in hist

(* What a device keeps of a folder is that folder: nothing of it out of reach,   *)
(* and nothing in it of another message.                                        *)
CacheIsTheFolder == NoMailIsHidden /\ SummariesNameTheirMail

IsServer(c, f) ==
  LET file == FileOf(c, f)
  IN /\ file.mark # NoMark
     /\ file.mark.valid = srv[f].valid
     /\ file.mark.last = srv[f].next - 1
     /\ \A u \in DOMAIN file.rows : u \in Uids(f) /\ file.rows[u] = Row(f, u)
     /\ file.mark.complete => DOMAIN file.rows = Uids(f)
     /\ \A u \in Uids(f) \ DOMAIN file.rows : \A w \in DOMAIN file.rows : u < w

(* A whole pass nothing else touched leaves the cache as the server is: the same *)
(* newest messages, the same flags, nothing that has gone.                      *)
AQuietPassSettles ==
  \A c \in Clients :
    Phase(c, "synced") /\ run[c].scope = "all" /\ calm[c] /\ ~Stale(c, run[c])
      => \A f \in Folders : IsServer(c, f)

(* No flag is stored on, and no move takes, a message other than the one on the *)
(* row that was clicked.                                                        *)
WritesReachTheirMail == ~astray

(* A write the server took keeps showing, through every pass, page and restart  *)
(* of a pass, until somebody changes the message again: never the old flag or   *)
(* folder, and no gap in the list once a pass has landed.                       *)
WritesKeepShowing ==
  \A c \in Clients : \A w \in did[c] :
    /\ w.kind = "flag" => SeenShown(c, w.m) \subseteq {w.on}
    /\ w.kind = "move" => FoldersShown(c, w.m) \subseteq {w.to}
    /\ w.kind = "move" /\ Idle(c) /\ session[c].status = "synced"
         => FoldersShown(c, w.m) = {w.to}

(* A click is done to the mail it was made on, and stays done.                   *)
WritesHold == WritesReachTheirMail /\ WritesKeepShowing

(* Once a lock has cleared the device nothing that was under way writes to it.  *)
NothingAfterTheLock ==
  \A c \in Clients :
    ~session[c].open /\ ~session[c].teardown
      /\ (\A d \in Clients : Dev(d) = Dev(c) => d = c) => IsEmptyDevice(Dev(c))

(* The body that opens is the message's whose row was opened, whatever an older  *)
(* numbering of the folder left on the device.                                  *)
BodiesAreTheMessages ==
  \A c \in Clients : opened[c] # NoTask => opened[c].got = opened[c].m
================================================================================
