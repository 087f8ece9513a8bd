--------------------------- MODULE MailSessionProofs ---------------------------
(* What TLAPS proves of a mailbox's session: after a lock has cleared a device  *)
(* nothing that was under way writes to it, for any folders, clients, scripts   *)
(* and interleavings.                                                           *)
EXTENDS MailSession, SequenceTheorems, FiniteSetTheorems, TLAPS

----------------------------------------------------------------------------
(* The invariant.                                                               *)

(* Work carries the session it was asked for in, this one or an earlier one.    *)
Known(g, w) == "gen" \in DOMAIN w /\ w.gen \in Nat /\ w.gen <= g

Waiting(s, g) ==
  /\ s \in Seq({s[i] : i \in DOMAIN s})
  /\ \A i \in DOMAIN s : Known(g, s[i])

Shape ==
  /\ DOMAIN disk = Devices /\ DOMAIN bodies = Devices /\ DOMAIN digest = Devices
  /\ DOMAIN task = Clients /\ DOMAIN saving = Clients /\ DOMAIN jobs = Clients
  /\ DOMAIN queue = Clients /\ DOMAIN run = Clients /\ DOMAIN restoring = Clients
  /\ gen \in [Clients -> Nat]
  /\ DOMAIN session = Clients
  /\ \A c \in Clients : "open" \in DOMAIN session[c] /\ "teardown" \in DOMAIN session[c]

WorkIsKnown(c) ==
  /\ task[c] # NoTask => Known(gen[c], task[c])
  /\ saving[c] # NoTask => Known(gen[c], saving[c])
  /\ Port # "disk" => \A j \in jobs[c] : j.kind = "body" /\ Known(gen[c], j)
  /\ Waiting(queue[c], gen[c])

Sole(c) == \A d \in Clients : Dev(d) = Dev(c) => d = c

(* A session that has ended asks for nothing more, and what is still under way  *)
(* was asked for before it ended.                                               *)
EndedSession(c) ==
  /\ Port # "disk"
  /\ run[c] = NoRun /\ queue[c] = <<>> /\ restoring[c] = NoTask
  /\ task[c] # NoTask => task[c].gen # gen[c] /\ session[c].teardown
  /\ saving[c] # NoTask => saving[c].gen # gen[c]
  /\ \A j \in jobs[c] : j.gen # gen[c]
  /\ ~session[c].teardown /\ Sole(c) => IsEmptyDevice(Dev(c))

IInv ==
  /\ Shape
  /\ \A c \in Clients : WorkIsKnown(c) /\ (~session[c].open => EndedSession(c))
----------------------------------------------------------------------------
(* What a step of one client is to the others: nothing of theirs changes, and   *)
(* no device but its own.                                                       *)

OwnDevice(c) ==
  /\ DOMAIN disk' = Devices /\ DOMAIN bodies' = Devices /\ DOMAIN digest' = Devices
  /\ \A e \in Devices : e # Dev(c) =>
       disk'[e] = disk[e] /\ bodies'[e] = bodies[e] /\ digest'[e] = digest[e]

OwnEntry(new, old, c) ==
  /\ DOMAIN new = Clients
  /\ \A d \in Clients : d # c => new[d] = old[d]

SameDevice(c) ==
  disk'[Dev(c)] = disk[Dev(c)] /\ bodies'[Dev(c)] = bodies[Dev(c)] /\ digest'[Dev(c)] = digest[Dev(c)]

SameSession(c) ==
  /\ OwnEntry(session', session, c)
  /\ "open" \in DOMAIN session'[c] /\ "teardown" \in DOMAIN session'[c]
  /\ session'[c].open = session[c].open /\ session'[c].teardown = session[c].teardown

(* Work that goes on keeps its session; new work is of an open one.             *)
Follows(c, new, old) ==
  \/ new = old \/ new = NoTask
  \/ old # NoTask /\ "gen" \in DOMAIN new /\ new.gen = old.gen
  \/ session[c].open /\ Known(gen[c], new)

FollowingJobs(c) ==
  \A j \in jobs'[c] \ jobs[c] :
    session[c].open /\ (Port # "disk" => j.kind = "body" /\ Known(gen[c], j))

(* A step that neither ends a session nor begins one.                           *)
Step(c) ==
  /\ cast' = cast /\ gen' = gen
  /\ OwnDevice(c) /\ SameSession(c)
  /\ OwnEntry(task', task, c) /\ Follows(c, task'[c], task[c])
  /\ OwnEntry(saving', saving, c) /\ Follows(c, saving'[c], saving[c])
  /\ OwnEntry(jobs', jobs, c) /\ FollowingJobs(c)
  /\ OwnEntry(queue', queue, c) /\ Waiting(queue'[c], gen[c])
  /\ OwnEntry(run', run, c) /\ OwnEntry(restoring', restoring, c)
  /\ ~session[c].open =>
       /\ run'[c] = NoRun /\ queue'[c] = <<>> /\ restoring'[c] = NoTask
       /\ session[c].teardown \/ SameDevice(c)

LEMMA OtherClients ==
  ASSUME IInv, NEW c \in Clients, NEW d \in Clients, d # c, cast' = cast, OwnDevice(c),
         task'[d] = task[d], saving'[d] = saving[d], jobs'[d] = jobs[d], queue'[d] = queue[d],
         run'[d] = run[d], restoring'[d] = restoring[d], gen'[d] = gen[d], session'[d] = session[d]
  PROVE  WorkIsKnown(d)' /\ (~session[d].open => EndedSession(d))'
<1>1. Port' = Port /\ Devices' = Devices /\ \A e \in Clients : Dev(e)' = Dev(e)
  BY DEF Port, Devices, Dev
<1>2. WorkIsKnown(d)'
  BY <1>1 DEF IInv, WorkIsKnown
<1>3. ASSUME ~session'[d].open PROVE EndedSession(d)'
  <2>1. EndedSession(d)
    BY <1>3 DEF IInv
  <2>2. ASSUME ~session[d].teardown, Sole(d) PROVE IsEmptyDevice(Dev(d))'
    <3>1. Dev(d) # Dev(c) /\ Dev(d) \in Devices
      BY <2>2 DEF Sole, Devices, Dev
    <3>2. disk'[Dev(d)] = disk[Dev(d)] /\ bodies'[Dev(d)] = bodies[Dev(d)]
          /\ digest'[Dev(d)] = digest[Dev(d)]
      BY <3>1 DEF OwnDevice
    <3>3. IsEmptyDevice(Dev(d))
      BY <2>1, <2>2 DEF EndedSession
    <3>. QED BY <1>1, <3>2, <3>3 DEF IsEmptyDevice
  <2>3. Sole(d)' = Sole(d)
    BY <1>1 DEF Sole
  <2>. QED BY <1>1, <2>1, <2>2, <2>3 DEF EndedSession
<1>. QED BY <1>2, <1>3

LEMMA StepKeepsInvariant ==
  ASSUME IInv, NEW c \in Clients, Step(c)
  PROVE  IInv'
<1>1. Port' = Port /\ Devices' = Devices /\ \A e \in Clients : Dev(e)' = Dev(e)
  BY DEF Step, Port, Devices, Dev
<1>2. Shape'
  <2>1. \A d \in Clients : "open" \in DOMAIN session'[d] /\ "teardown" \in DOMAIN session'[d]
    BY DEF IInv, Shape, Step, SameSession, OwnEntry
  <2>2. DOMAIN session' = Clients
    BY DEF Step, SameSession, OwnEntry
  <2>. QED BY <1>1, <2>1, <2>2 DEF IInv, Shape, Step, OwnEntry, OwnDevice
<1>3. \A d \in Clients : d # c => WorkIsKnown(d)' /\ (~session[d].open => EndedSession(d))'
  <2>. SUFFICES ASSUME NEW d \in Clients, d # c
               PROVE  WorkIsKnown(d)' /\ (~session[d].open => EndedSession(d))'
    OBVIOUS
  <2>1. /\ task'[d] = task[d] /\ saving'[d] = saving[d] /\ jobs'[d] = jobs[d]
        /\ queue'[d] = queue[d] /\ run'[d] = run[d] /\ restoring'[d] = restoring[d]
        /\ gen'[d] = gen[d] /\ session'[d] = session[d]
    BY DEF Step, OwnEntry, SameSession
  <2>2. cast' = cast /\ OwnDevice(c)
    BY DEF Step
  <2>. QED BY <2>1, <2>2, OtherClients
<1>4. gen'[c] = gen[c] /\ gen[c] \in Nat
  BY DEF Step, IInv, Shape
<1>5. WorkIsKnown(c) /\ (~session[c].open => EndedSession(c))
  BY DEF IInv
<1>6. WorkIsKnown(c)'
  <2>1. task'[c] # NoTask => Known(gen[c], task'[c])
    BY <1>5 DEF Step, Follows, WorkIsKnown, Known
  <2>2. saving'[c] # NoTask => Known(gen[c], saving'[c])
    BY <1>5 DEF Step, Follows, WorkIsKnown, Known
  <2>3. Port # "disk" => \A j \in jobs'[c] : j.kind = "body" /\ Known(gen[c], j)
    BY <1>5 DEF Step, FollowingJobs, WorkIsKnown
  <2>4. Waiting(queue'[c], gen[c])
    BY DEF Step
  <2>. QED BY <1>1, <1>4, <2>1, <2>2, <2>3, <2>4 DEF WorkIsKnown
<1>7. ASSUME ~session'[c].open PROVE EndedSession(c)'
  <2>1. ~session[c].open /\ session'[c].teardown = session[c].teardown
    BY <1>7 DEF Step, SameSession
  <2>2. EndedSession(c)
    BY <1>5, <2>1
  <2>3. task'[c] # NoTask => task'[c].gen # gen[c] /\ session[c].teardown
    BY <2>1, <2>2 DEF EndedSession, Step, Follows
  <2>4. saving'[c] # NoTask => saving'[c].gen # gen[c]
    BY <2>1, <2>2 DEF EndedSession, Step, Follows
  <2>5. \A j \in jobs'[c] : j.gen # gen[c]
    BY <2>1, <2>2 DEF EndedSession, Step, FollowingJobs
  <2>6. ASSUME ~session[c].teardown, Sole(c) PROVE IsEmptyDevice(Dev(c))'
    <3>1. SameDevice(c) /\ IsEmptyDevice(Dev(c))
      BY <2>1, <2>2, <2>6 DEF Step, EndedSession
    <3>. QED BY <1>1, <3>1 DEF SameDevice, IsEmptyDevice
  <2>7. Sole(c)' = Sole(c)
    BY <1>1 DEF Sole
  <2>8. run'[c] = NoRun /\ queue'[c] = <<>> /\ restoring'[c] = NoTask /\ Port # "disk"
    BY <2>1, <2>2 DEF Step, EndedSession
  <2>. QED BY <1>1, <1>4, <2>1, <2>3, <2>4, <2>5, <2>6, <2>7, <2>8 DEF EndedSession
<1>. QED BY <1>2, <1>3, <1>6, <1>7 DEF IInv


----------------------------------------------------------------------------
(* The cache's operations change the client's own device only.                  *)

LEMMA WriteIsOwn ==
  ASSUME Shape, NEW c \in Clients, NEW f, NEW file, Write(c, f, file)
  PROVE  OwnDevice(c)
<1>1. Dev(c) \in Devices
  BY DEF Devices, Dev
<1>. QED BY <1>1 DEF Write, OwnDevice, Shape

LEMMA PutMarkIsOwn ==
  ASSUME Shape, NEW c \in Clients, NEW f, NEW mark, PutMark(c, f, mark)
  PROVE  OwnDevice(c)
BY WriteIsOwn DEF PutMark

LEMMA PutRowsIsOwn ==
  ASSUME Shape, NEW c \in Clients, NEW f, NEW rows, PutRows(c, f, rows)
  PROVE  OwnDevice(c)
<1>. PICK file : Write(c, f, file)
  BY Zenon DEF PutRows
<1>. QED BY WriteIsOwn

LEMMA DeleteRowsIsOwn ==
  ASSUME Shape, NEW c \in Clients, NEW f, NEW uids, DeleteRows(c, f, uids)
  PROVE  OwnDevice(c)
<1>. PICK file : Write(c, f, file)
  BY Zenon DEF DeleteRows
<1>. QED BY WriteIsOwn

LEMMA UpdateRowsIsOwn ==
  ASSUME Shape, NEW c \in Clients, NEW f, NEW uids, NEW seen, UpdateRows(c, f, uids, seen)
  PROVE  OwnDevice(c)
<1>. PICK file : Write(c, f, file)
  BY Zenon DEF UpdateRows
<1>. QED BY WriteIsOwn

LEMMA ClearIsOwn ==
  ASSUME Shape, NEW c \in Clients, Clear(c)
  PROVE  OwnDevice(c) /\ (cast' = cast => IsEmptyDevice(Dev(c))')
<1>1. Dev(c) \in Devices
  BY DEF Devices, Dev
<1>2. OwnDevice(c)
  BY <1>1 DEF Clear, OwnDevice, Shape
<1>3. /\ disk'[Dev(c)] = [f \in Folders |-> EmptyFolder]
      /\ bodies'[Dev(c)] = [f \in Folders |-> <<>>]
      /\ digest'[Dev(c)] = NoSnap
  BY <1>1 DEF Clear, Shape
<1>4. cast' = cast => Dev(c)' = Dev(c)
  BY DEF Dev
<1>. QED BY <1>2, <1>3, <1>4 DEF IsEmptyDevice

LEMMA PutDigestIsOwn ==
  ASSUME Shape, NEW c \in Clients, NEW s, PutDigest(c, s)
  PROVE  OwnDevice(c)
<1>1. Dev(c) \in Devices
  BY DEF Devices, Dev
<1>. QED BY <1>1 DEF PutDigest, OwnDevice, Shape

LEMMA PutBodyIsOwn ==
  ASSUME Shape, NEW c \in Clients, NEW f, NEW u, NEW m, PutBody(c, f, u, m)
  PROVE  OwnDevice(c)
<1>1. Dev(c) \in Devices
  BY DEF Devices, Dev
<1>2. CASE UNCHANGED cache
  BY <1>2 DEF cache, OwnDevice, Shape
<1>3. CASE ~UNCHANGED cache
  <2>1. DOMAIN bodies' = Devices /\ \A e \in Devices : e # Dev(c) => bodies'[e] = bodies[e]
    <3>. PICK new : bodies' = [bodies EXCEPT ![Dev(c)] = new]
      BY <1>3, Zenon DEF PutBody
    <3>. QED BY DEF Shape
  <2>2. DOMAIN disk' = Devices /\ \A e \in Devices : e # Dev(c) => disk'[e] = disk[e]
    <3>1. disk' = disk \/ \E new : disk' = [disk EXCEPT ![Dev(c)] = new]
      BY <1>3, Zenon DEF PutBody
    <3>. QED BY <3>1 DEF Shape
  <2>3. UNCHANGED digest
    BY <1>3 DEF PutBody
  <2>. QED BY <2>1, <2>2, <2>3 DEF OwnDevice, Shape
<1>. QED BY <1>2, <1>3

LEMMA SameCache ==
  ASSUME Shape, NEW c \in Clients, UNCHANGED <<disk, bodies, digest>>
  PROVE  OwnDevice(c) /\ SameDevice(c)
BY DEF OwnDevice, SameDevice, Shape

----------------------------------------------------------------------------
(* What a step of the queue leaves alone.                                       *)

LEMMA GotoFollows ==
  ASSUME Shape, NEW c \in Clients, NEW pc, NEW more, "gen" \notin DOMAIN more, WorkIsKnown(c),
         task[c] # NoTask, Goto(c, pc, more)
  PROVE  OwnEntry(task', task, c) /\ Follows(c, task'[c], task[c])
<1>1. "gen" \in DOMAIN task[c]
  BY DEF WorkIsKnown, Known
<1>2. task'[c] = Over(Over([pc |-> pc], more), task[c])
  BY DEF Goto, Locals, Shape
<1>3. "gen" \notin DOMAIN Over([pc |-> pc], more)
  BY DEF Over
<1>4. "gen" \in DOMAIN task'[c] /\ task'[c].gen = task[c].gen
  BY <1>1, <1>2, <1>3 DEF Over
<1>5. OwnEntry(task', task, c)
  BY DEF Goto, Locals, Shape, OwnEntry
<1>. QED BY <1>4, <1>5 DEF Follows

LEMMA FinishFollows ==
  ASSUME Shape, NEW c \in Clients, NEW res, WorkIsKnown(c), task[c] # NoTask, Finish(c, res)
  PROVE  OwnEntry(task', task, c) /\ Follows(c, task'[c], task[c])
<1>. PICK pc, more : Goto(c, pc, more) /\ more = [res |-> res]
  BY Zenon DEF Finish
<1>1. "gen" \notin DOMAIN more
  OBVIOUS
<1>. QED BY <1>1, GotoFollows

(* How a task goes on: it finishes, or it goes to a step with some of its       *)
(* locals set, its session never among them.                                    *)
GoesOn(c) ==
  \/ \E x : Finish(c, x)
  \/ \E pc : Goto(c, pc, <<>>)
  \/ \E pc, x : Goto(c, pc, [seq |-> x])
  \/ \E pc, x : Goto(c, pc, [anchor |-> x])
  \/ \E pc, x : Goto(c, pc, [kept |-> x])
  \/ \E pc, x : Goto(c, pc, [copy |-> x])
  \/ \E pc, x : Goto(c, pc, [targets |-> x])
  \/ \E pc, x, y : Goto(c, pc, [mark |-> x, known |-> y])
  \/ \E pc, x, y : Goto(c, pc, [fetched |-> x, whole |-> y])
  \/ \E pc, x, y : Goto(c, pc, [targets |-> x, moved |-> y])
  \/ \E pc, x, y : Goto(c, pc, [again |-> x, targets |-> y])
  \/ \E pc, x, y, z : Goto(c, pc, [valid |-> x, next |-> y, exists |-> z])
  \/ \E pc, x, y, z : Goto(c, pc, [mark |-> x, known |-> y, invalid |-> z])
  \/ \E pc, x, y, z : Goto(c, pc, [fetched |-> x, over |-> y, cached |-> z])

LEMMA GoesOnFollows ==
  ASSUME Shape, NEW c \in Clients, WorkIsKnown(c), task[c] # NoTask, GoesOn(c)
  PROVE  OwnEntry(task', task, c) /\ Follows(c, task'[c], task[c])
<1>0. "gen" \in DOMAIN task[c]
  BY DEF WorkIsKnown, Known
<1>1. CASE \E x : Finish(c, x)
  BY <1>1, FinishFollows
<1>2. CASE \E pc : Goto(c, pc, <<>>)
  BY <1>0, <1>2 DEF Goto, Locals, Over, Follows, OwnEntry, Shape
<1>3. CASE \E pc, x : Goto(c, pc, [seq |-> x])
  BY <1>0, <1>3 DEF Goto, Locals, Over, Follows, OwnEntry, Shape
<1>4. CASE \E pc, x : Goto(c, pc, [anchor |-> x])
  BY <1>0, <1>4 DEF Goto, Locals, Over, Follows, OwnEntry, Shape
<1>5. CASE \E pc, x : Goto(c, pc, [kept |-> x])
  BY <1>0, <1>5 DEF Goto, Locals, Over, Follows, OwnEntry, Shape
<1>6. CASE \E pc, x : Goto(c, pc, [copy |-> x])
  BY <1>0, <1>6 DEF Goto, Locals, Over, Follows, OwnEntry, Shape
<1>7. CASE \E pc, x : Goto(c, pc, [targets |-> x])
  BY <1>0, <1>7 DEF Goto, Locals, Over, Follows, OwnEntry, Shape
<1>8. CASE \E pc, x, y : Goto(c, pc, [mark |-> x, known |-> y])
  BY <1>0, <1>8 DEF Goto, Locals, Over, Follows, OwnEntry, Shape
<1>9. CASE \E pc, x, y : Goto(c, pc, [fetched |-> x, whole |-> y])
  BY <1>0, <1>9 DEF Goto, Locals, Over, Follows, OwnEntry, Shape
<1>10. CASE \E pc, x, y : Goto(c, pc, [targets |-> x, moved |-> y])
  BY <1>0, <1>10 DEF Goto, Locals, Over, Follows, OwnEntry, Shape
<1>11. CASE \E pc, x, y : Goto(c, pc, [again |-> x, targets |-> y])
  BY <1>0, <1>11 DEF Goto, Locals, Over, Follows, OwnEntry, Shape
<1>12. CASE \E pc, x, y, z : Goto(c, pc, [valid |-> x, next |-> y, exists |-> z])
  BY <1>0, <1>12 DEF Goto, Locals, Over, Follows, OwnEntry, Shape
<1>13. CASE \E pc, x, y, z : Goto(c, pc, [mark |-> x, known |-> y, invalid |-> z])
  BY <1>0, <1>13 DEF Goto, Locals, Over, Follows, OwnEntry, Shape
<1>14. CASE \E pc, x, y, z : Goto(c, pc, [fetched |-> x, over |-> y, cached |-> z])
  BY <1>0, <1>14 DEF Goto, Locals, Over, Follows, OwnEntry, Shape
<1>. QED BY <1>1, <1>2, <1>3, <1>4, <1>5, <1>6, <1>7, <1>8, <1>9, <1>10, <1>11, <1>12, <1>13, <1>14 DEF GoesOn

(* A step of the queue's task, on whichever session it was asked for in.        *)
QueueStep(c) ==
  /\ task[c] # NoTask /\ gen' = gen /\ OwnDevice(c)
  /\ OwnEntry(task', task, c) /\ Follows(c, task'[c], task[c])

LEMMA QueueStepIsStep ==
  ASSUME IInv, NEW c \in Clients, QueueStep(c),
         UNCHANGED <<cast, saving, restoring, session, run, queue, jobs>>
  PROVE  Step(c)
<1>1. WorkIsKnown(c) /\ (~session[c].open => EndedSession(c)) /\ Shape
  BY DEF IInv
<1>2. SameSession(c) /\ OwnEntry(saving', saving, c) /\ OwnEntry(jobs', jobs, c)
      /\ OwnEntry(queue', queue, c) /\ OwnEntry(run', run, c) /\ OwnEntry(restoring', restoring, c)
  BY <1>1 DEF Shape, SameSession, OwnEntry
<1>3. Follows(c, saving'[c], saving[c]) /\ FollowingJobs(c) /\ Waiting(queue'[c], gen[c])
  BY <1>1 DEF Follows, FollowingJobs, WorkIsKnown
<1>4. ASSUME ~session[c].open
      PROVE  /\ run'[c] = NoRun /\ queue'[c] = <<>> /\ restoring'[c] = NoTask
             /\ session[c].teardown
  BY <1>1, <1>4 DEF EndedSession, QueueStep
<1>. QED BY <1>2, <1>3, <1>4 DEF Step, QueueStep

----------------------------------------------------------------------------
(* Every step of the queue's task.                                              *)

LEMMA SyncStepIsQueueStep ==
  ASSUME IInv, NEW c \in Clients, SyncStep(c)
  PROVE  QueueStep(c)
<1>1. Shape /\ WorkIsKnown(c)
  BY DEF IInv
<1>2. task[c] # NoTask
  BY DEF SyncStep, SyncSelect, SyncMark, SyncNew, SyncFlags, SyncDrop, SyncPut, SyncSave, Running
<1>3. gen' = gen
  BY DEF SyncStep, SyncSelect, SyncMark, SyncNew, SyncFlags, SyncDrop, SyncPut, SyncSave, Quiet, OnlyTask
<1>4. OwnEntry(task', task, c) /\ Follows(c, task'[c], task[c])
  <2>. SUFFICES GoesOn(c)
    BY <1>1, <1>2, GoesOnFollows
  <2>1. CASE SyncSelect(c)
    BY <2>1, Zenon DEF SyncSelect, GoesOn
  <2>2. CASE SyncMark(c)
    BY <2>2, Zenon DEF SyncMark, GoesOn
  <2>3. CASE SyncNew(c)
    BY <2>3, Zenon DEF SyncNew, GoesOn
  <2>4. CASE SyncFlags(c)
    BY <2>4, Zenon DEF SyncFlags, GoesOn
  <2>5. CASE SyncDrop(c)
    BY <2>5, Zenon DEF SyncDrop, GoesOn
  <2>6. CASE SyncPut(c)
    BY <2>6, Zenon DEF SyncPut, GoesOn
  <2>7. CASE SyncSave(c)
    BY <2>7, Zenon DEF SyncSave, GoesOn
  <2>. QED BY <2>1, <2>2, <2>3, <2>4, <2>5, <2>6, <2>7 DEF SyncStep
<1>5. OwnDevice(c)
  <2>1. CASE UNCHANGED <<disk, bodies, digest>>
    BY <1>1, <2>1, SameCache
  <2>2. CASE SyncMark(c) /\ ~UNCHANGED <<disk, bodies, digest>>
    <3>1. Clear(c)
      BY <2>2 DEF SyncMark
    <3>. QED BY <1>1, <3>1, ClearIsOwn
  <2>3. CASE SyncDrop(c) /\ ~UNCHANGED <<disk, bodies, digest>>
    <3>. PICK f, uids : DeleteRows(c, f, uids)
      BY <2>3, Zenon DEF SyncDrop, cache
    <3>. QED BY <1>1, DeleteRowsIsOwn
  <2>4. CASE SyncPut(c)
    <3>. PICK f, rows : PutRows(c, f, rows)
      BY <2>4, Zenon DEF SyncPut
    <3>. QED BY <1>1, PutRowsIsOwn
  <2>5. CASE SyncSave(c)
    <3>. PICK f, mark : PutMark(c, f, mark)
      BY <2>5, Zenon DEF SyncSave
    <3>. QED BY <1>1, PutMarkIsOwn
  <2>. QED BY <2>1, <2>2, <2>3, <2>4, <2>5
       DEF SyncStep, SyncSelect, SyncNew, SyncFlags, OnlyTask, cache
<1>. QED BY <1>1, <1>2, <1>3, <1>4, <1>5 DEF QueueStep

LEMMA OlderStepIsQueueStep ==
  ASSUME IInv, NEW c \in Clients, OlderStep(c)
  PROVE  QueueStep(c)
<1>1. Shape /\ WorkIsKnown(c)
  BY DEF IInv
<1>2. task[c] # NoTask
  BY DEF OlderStep, OlderStart, OlderAnchor, OlderAlive, OlderWindow, OlderNewest, OlderPut,
         OlderMark, Running
<1>3. gen' = gen
  BY DEF OlderStep, OlderStart, OlderAnchor, OlderAlive, OlderWindow, OlderNewest, OlderPut,
         OlderMark, Quiet, OnlyTask
<1>4. OwnEntry(task', task, c) /\ Follows(c, task'[c], task[c])
  <2>. SUFFICES GoesOn(c)
    BY <1>1, <1>2, GoesOnFollows
  <2>1. CASE OlderStart(c)
    BY <2>1, Zenon DEF OlderStart, GoesOn
  <2>2. CASE OlderAnchor(c)
    BY <2>2, Zenon DEF OlderAnchor, GoesOn
  <2>3. CASE OlderAlive(c)
    BY <2>3, Zenon DEF OlderAlive, GoesOn
  <2>4. CASE OlderWindow(c)
    BY <2>4, Zenon DEF OlderWindow, GoesOn
  <2>5. CASE OlderNewest(c)
    BY <2>5, Zenon DEF OlderNewest, GoesOn
  <2>6. CASE OlderPut(c)
    BY <2>6, Zenon DEF OlderPut, GoesOn
  <2>7. CASE OlderMark(c)
    BY <2>7, Zenon DEF OlderMark, GoesOn
  <2>. QED BY <2>1, <2>2, <2>3, <2>4, <2>5, <2>6, <2>7 DEF OlderStep
<1>5. OwnDevice(c)
  <2>1. CASE UNCHANGED <<disk, bodies, digest>>
    BY <1>1, <2>1, SameCache
  <2>2. CASE OlderPut(c) /\ ~UNCHANGED <<disk, bodies, digest>>
    <3>. PICK f, rows : PutRows(c, f, rows)
      BY <2>2, Zenon DEF OlderPut, cache
    <3>. QED BY <1>1, PutRowsIsOwn
  <2>3. CASE OlderMark(c) /\ ~UNCHANGED <<disk, bodies, digest>>
    <3>. PICK f, mark : PutMark(c, f, mark)
      BY <2>3, Zenon DEF OlderMark, cache
    <3>. QED BY <1>1, PutMarkIsOwn
  <2>. QED BY <2>1, <2>2, <2>3
       DEF OlderStep, OlderStart, OlderAnchor, OlderAlive, OlderWindow, OlderNewest, OnlyTask, cache
<1>. QED BY <1>1, <1>2, <1>3, <1>4, <1>5 DEF QueueStep

LEMMA WriteStepIsQueueStep ==
  ASSUME IInv, NEW c \in Clients, WriteStep(c)
  PROVE  QueueStep(c)
<1>1. Shape /\ WorkIsKnown(c)
  BY DEF IInv
<1>2. task[c] # NoTask
  BY DEF WriteStep, FlagStore, FlagCache, MoveStore, MoveAnswer, Running
<1>3. gen' = gen
  BY DEF WriteStep, FlagStore, FlagCache, MoveStore, MoveAnswer, Quiet, OnlyTask
<1>4. OwnEntry(task', task, c) /\ Follows(c, task'[c], task[c])
  <2>. SUFFICES GoesOn(c)
    BY <1>1, <1>2, GoesOnFollows
  <2>1. CASE FlagStore(c)
    BY <2>1, Zenon DEF FlagStore, GoesOn
  <2>2. CASE FlagCache(c)
    BY <2>2, Zenon DEF FlagCache, GoesOn
  <2>3. CASE MoveStore(c)
    BY <2>3, Zenon DEF MoveStore, GoesOn
  <2>4. CASE MoveAnswer(c)
    BY <2>4, Zenon DEF MoveAnswer, GoesOn
  <2>. QED BY <2>1, <2>2, <2>3, <2>4 DEF WriteStep
<1>5. OwnDevice(c)
  <2>1. CASE UNCHANGED <<disk, bodies, digest>>
    BY <1>1, <2>1, SameCache
  <2>2. CASE FlagCache(c)
    <3>. PICK f, uids, seen : UpdateRows(c, f, uids, seen)
      BY <2>2, Zenon DEF FlagCache
    <3>. QED BY <1>1, UpdateRowsIsOwn
  <2>. QED BY <2>1, <2>2 DEF WriteStep, FlagStore, MoveStore, MoveAnswer, OnlyTask, cache
<1>. QED BY <1>1, <1>2, <1>3, <1>4, <1>5 DEF QueueStep

LEMMA BodyStepIsQueueStep ==
  ASSUME IInv, NEW c \in Clients, BodyStep(c)
  PROVE  QueueStep(c)
<1>1. Shape /\ WorkIsKnown(c)
  BY DEF IInv
<1>2. task[c] # NoTask /\ UNCHANGED <<gen, disk, bodies, digest>>
  BY DEF BodyStep, BodyFetch, PrefetchFetch, Running, OnlyTask, cache
<1>3. GoesOn(c)
  <2>1. CASE BodyFetch(c)
    BY <2>1, Zenon DEF BodyFetch, GoesOn
  <2>2. CASE PrefetchFetch(c)
    BY <2>2, Zenon DEF PrefetchFetch, GoesOn
  <2>. QED BY <2>1, <2>2 DEF BodyStep
<1>. QED BY <1>1, <1>2, <1>3, GoesOnFollows, SameCache DEF QueueStep

LEMMA DropIsQueueStep ==
  ASSUME IInv, NEW c \in Clients, Drop(c)
  PROVE  QueueStep(c)
<1>1. Shape /\ WorkIsKnown(c)
  BY DEF IInv
<1>2. task[c] # NoTask /\ UNCHANGED <<gen, disk, bodies, digest>>
  BY DEF Drop, OnlyTask, cache
<1>3. GoesOn(c)
  BY Zenon DEF Drop, GoesOn
<1>. QED BY <1>1, <1>2, <1>3, GoesOnFollows, SameCache DEF QueueStep

----------------------------------------------------------------------------
(* Every step of a snapshot's write and restore.                                *)

SaveGoesOn(c) ==
  \/ SaveEnds(c)
  \/ \E pc : SaveGoto(c, pc, <<>>)
  \/ \E pc, x : SaveGoto(c, pc, [marks |-> x])
  \/ \E pc, x : SaveGoto(c, pc, [rows |-> x])
  \/ \E pc, x : SaveGoto(c, pc, [before |-> x])

LEMMA SaveGoesOnFollows ==
  ASSUME Shape, NEW c \in Clients, WorkIsKnown(c), saving[c] # NoTask, SaveGoesOn(c)
  PROVE  OwnEntry(saving', saving, c) /\ Follows(c, saving'[c], saving[c])
<1>0. "gen" \in DOMAIN saving[c]
  BY DEF WorkIsKnown, Known
<1>1. CASE SaveEnds(c)
  BY <1>1 DEF SaveEnds, Follows, OwnEntry, Shape
<1>2. CASE \E pc : SaveGoto(c, pc, <<>>)
  BY <1>0, <1>2 DEF SaveGoto, Over, Follows, OwnEntry, Shape
<1>3. CASE \E pc, x : SaveGoto(c, pc, [marks |-> x])
  BY <1>0, <1>3 DEF SaveGoto, Over, Follows, OwnEntry, Shape
<1>4. CASE \E pc, x : SaveGoto(c, pc, [rows |-> x])
  BY <1>0, <1>4 DEF SaveGoto, Over, Follows, OwnEntry, Shape
<1>5. CASE \E pc, x : SaveGoto(c, pc, [before |-> x])
  BY <1>0, <1>5 DEF SaveGoto, Over, Follows, OwnEntry, Shape
<1>. QED BY <1>1, <1>2, <1>3, <1>4, <1>5 DEF SaveGoesOn

SaveStep(c) == SaveMarks(c) \/ SaveRows(c) \/ SaveAgain(c) \/ SaveSwap(c) \/ SaveDigest(c)

RestoreStep(c) ==
  \/ RestoreLook(c) \/ RestoreLoad(c) \/ SeedRows(c) \/ SeedMark(c) \/ MergeRead(c)
  \/ MergeZero(c) \/ MergeDelete(c) \/ MergePut(c) \/ MergeMark(c) \/ RestoreDigest(c)

LEMMA SaveStepIsStep ==
  ASSUME IInv, NEW c \in Clients, SaveStep(c), UNCHANGED <<cast, ui>>
  PROVE  Step(c)
<1>1. Shape /\ WorkIsKnown(c) /\ (~session[c].open => EndedSession(c))
  BY DEF IInv
<1>2. saving[c] # NoTask /\ UNCHANGED <<restoring, task, gen>>
  BY DEF SaveStep, SaveMarks, SaveRows, SaveAgain, SaveSwap, SaveDigest, Saving, OnlySaving
<1>3. SaveGoesOn(c)
  <2>1. CASE SaveMarks(c)
    BY <2>1, Zenon DEF SaveMarks, SaveGoesOn
  <2>2. CASE SaveRows(c)
    BY <2>2, Zenon DEF SaveRows, SaveGoesOn
  <2>3. CASE SaveAgain(c)
    BY <2>3, Zenon DEF SaveAgain, SaveGoesOn
  <2>4. CASE SaveSwap(c)
    BY <2>4, Zenon DEF SaveSwap, SaveGoesOn
  <2>5. CASE SaveDigest(c)
    BY <2>5, Zenon DEF SaveDigest, SaveGoesOn
  <2>. QED BY <2>1, <2>2, <2>3, <2>4, <2>5 DEF SaveStep
<1>4. OwnEntry(saving', saving, c) /\ Follows(c, saving'[c], saving[c])
  BY <1>1, <1>2, <1>3, SaveGoesOnFollows
<1>5. OwnDevice(c) /\ (~session[c].open => SameDevice(c))
  <2>1. CASE UNCHANGED <<disk, bodies, digest>>
    BY <1>1, <2>1, SameCache
  <2>2. CASE SaveDigest(c) /\ ~UNCHANGED <<disk, bodies, digest>>
    <3>1. ~Stale(c, saving[c]) /\ PutDigest(c, Read(saving[c]))
      BY <2>2 DEF SaveDigest, cache
    <3>2. OwnDevice(c)
      BY <1>1, <3>1, PutDigestIsOwn
    <3>3. session[c].open
      BY <1>1, <1>2, <3>1 DEF EndedSession, Stale
    <3>. QED BY <3>2, <3>3
  <2>. QED BY <2>1, <2>2 DEF SaveStep, SaveMarks, SaveRows, SaveAgain, SaveSwap, cache
<1>6. SameSession(c) /\ OwnEntry(task', task, c) /\ OwnEntry(jobs', jobs, c)
      /\ OwnEntry(queue', queue, c) /\ OwnEntry(run', run, c) /\ OwnEntry(restoring', restoring, c)
  BY <1>1, <1>2 DEF ui, Shape, SameSession, OwnEntry
<1>7. Follows(c, task'[c], task[c]) /\ FollowingJobs(c) /\ Waiting(queue'[c], gen[c])
  BY <1>1, <1>2 DEF ui, Follows, FollowingJobs, WorkIsKnown
<1>8. ASSUME ~session[c].open
      PROVE  run'[c] = NoRun /\ queue'[c] = <<>> /\ restoring'[c] = NoTask
  BY <1>1, <1>2, <1>8 DEF ui, EndedSession
<1>. QED BY <1>2, <1>4, <1>5, <1>6, <1>7, <1>8 DEF Step

LEMMA RestoreStepIsStep ==
  ASSUME IInv, NEW c \in Clients, RestoreStep(c), UNCHANGED <<cast, ui>>
  PROVE  Step(c)
<1>. USE DEF RestoreStep
<1>1. Shape /\ WorkIsKnown(c) /\ (~session[c].open => EndedSession(c))
  BY DEF IInv
<1>2. restoring[c] # NoTask /\ UNCHANGED <<saving, task, gen>>
  BY DEF RestoreLook, RestoreLoad, SeedRows, SeedMark, MergeRead, MergeZero, MergeDelete, MergePut,
         MergeMark, RestoreDigest, Lay, Restoring, OnlyRestoring
<1>3. session[c].open
  BY <1>1, <1>2 DEF EndedSession
<1>4. OwnEntry(restoring', restoring, c)
  <2>1. \E new : restoring' = [restoring EXCEPT ![c] = new]
    <3>1. CASE RestoreLook(c)
      BY <3>1, Zenon DEF RestoreLook, RestoreEnds, RestoreGoto
    <3>2. CASE RestoreLoad(c)
      BY <3>2, Zenon DEF RestoreLoad, RestoreEnds, RestoreGoto
    <3>3. CASE SeedRows(c)
      BY <3>3, Zenon DEF SeedRows, Lay, RestoreEnds, RestoreGoto
    <3>4. CASE SeedMark(c)
      BY <3>4, Zenon DEF SeedMark, Lay, NextFolder, RestoreEnds, RestoreGoto
    <3>5. CASE MergeRead(c)
      BY <3>5, Zenon DEF MergeRead, NextFolder, RestoreGoto
    <3>6. CASE MergeZero(c)
      BY <3>6, Zenon DEF MergeZero, Lay, RestoreEnds, RestoreGoto
    <3>7. CASE MergeDelete(c)
      BY <3>7, Zenon DEF MergeDelete, Lay, RestoreEnds, RestoreGoto
    <3>8. CASE MergePut(c)
      BY <3>8, Zenon DEF MergePut, Lay, RestoreEnds, RestoreGoto
    <3>9. CASE MergeMark(c)
      BY <3>9, Zenon DEF MergeMark, Lay, NextFolder, RestoreEnds, RestoreGoto
    <3>10. CASE RestoreDigest(c)
      BY <3>10, Zenon DEF RestoreDigest, Lay, RestoreEnds
    <3>. QED BY <3>1, <3>2, <3>3, <3>4, <3>5, <3>6, <3>7, <3>8, <3>9, <3>10
  <2>. QED BY <1>1, <2>1 DEF Shape, OwnEntry
<1>5. OwnDevice(c)
  <2>1. CASE UNCHANGED <<disk, bodies, digest>>
    BY <1>1, <2>1, SameCache
  <2>2. CASE RestoreLoad(c) /\ ~UNCHANGED <<disk, bodies, digest>>
    <3>1. Clear(c)
      BY <2>2 DEF RestoreLoad, cache
    <3>. QED BY <1>1, <3>1, ClearIsOwn
  <2>3. CASE (SeedRows(c) \/ MergePut(c)) /\ ~UNCHANGED <<disk, bodies, digest>>
    <3>1. PutRows(c, Laying(c), LaidFrom(c).rows)
      BY <2>3 DEF SeedRows, MergePut, Lay, cache
    <3>. QED BY <1>1, <3>1, PutRowsIsOwn
  <2>4. CASE (SeedMark(c) \/ MergeZero(c) \/ MergeMark(c)) /\ ~UNCHANGED <<disk, bodies, digest>>
    <3>. PICK mark : PutMark(c, Laying(c), mark)
      BY <2>4, Zenon DEF SeedMark, MergeZero, MergeMark, Lay, cache
    <3>. QED BY <1>1, PutMarkIsOwn
  <2>5. CASE MergeDelete(c) /\ ~UNCHANGED <<disk, bodies, digest>>
    <3>. PICK uids : DeleteRows(c, Laying(c), uids)
      BY <2>5, Zenon DEF MergeDelete, Lay, cache
    <3>. QED BY <1>1, DeleteRowsIsOwn
  <2>6. CASE RestoreDigest(c) /\ ~UNCHANGED <<disk, bodies, digest>>
    <3>1. PutDigest(c, restoring[c].from)
      BY <2>6 DEF RestoreDigest, Lay, cache
    <3>. QED BY <1>1, <3>1, PutDigestIsOwn
  <2>. QED BY <2>1, <2>2, <2>3, <2>4, <2>5, <2>6 DEF RestoreLook, MergeRead, cache
<1>6. SameSession(c) /\ OwnEntry(task', task, c) /\ OwnEntry(jobs', jobs, c)
      /\ OwnEntry(queue', queue, c) /\ OwnEntry(run', run, c) /\ OwnEntry(saving', saving, c)
  BY <1>1, <1>2 DEF ui, Shape, SameSession, OwnEntry
<1>7. /\ Follows(c, task'[c], task[c]) /\ Follows(c, saving'[c], saving[c])
      /\ FollowingJobs(c) /\ Waiting(queue'[c], gen[c])
  BY <1>1, <1>2 DEF ui, Follows, FollowingJobs, WorkIsKnown
<1>. QED BY <1>2, <1>3, <1>4, <1>5, <1>6, <1>7 DEF Step

----------------------------------------------------------------------------
(* What waits in a queue.                                                       *)

LEMMA WaitingElements ==
  ASSUME NEW g, NEW S, NEW s \in Seq(S), \A w \in S : Known(g, w)
  PROVE  Waiting(s, g)
<1>1. s \in Seq({s[i] : i \in DOMAIN s})
  OBVIOUS
<1>2. \A i \in DOMAIN s : s[i] \in S
  OBVIOUS
<1>. QED BY <1>1, <1>2 DEF Waiting

LEMMA WaitingOneMore ==
  ASSUME NEW g, NEW s, NEW w, Waiting(s, g), Known(g, w)
  PROVE  Waiting(Append(s, w), g)
<1>. DEFINE S == {s[i] : i \in DOMAIN s} \cup {w}
<1>1. s \in Seq(S)
  BY DEF Waiting
<1>2. Append(s, w) \in Seq(S)
  BY <1>1
<1>3. \A x \in S : Known(g, x)
  BY DEF Waiting
<1>. QED BY <1>2, <1>3, WaitingElements

LEMMA WaitingOneLess ==
  ASSUME NEW g, NEW s, Waiting(s, g), NEW i \in DOMAIN s
  PROVE  Waiting(RemoveAt(s, i), g)
<1>. DEFINE S == {s[j] : j \in DOMAIN s}
<1>1. s \in Seq(S) /\ \A x \in S : Known(g, x)
  BY DEF Waiting
<1>. HIDE DEF S
<1>2. DOMAIN s = 1..Len(s) /\ Len(s) \in Nat
  BY <1>1
<1>3. SubSeq(s, 1, i - 1) \in Seq(S)
  BY <1>1, <1>2
<1>4. SubSeq(s, i + 1, Len(s)) \in Seq(S)
  BY <1>1, <1>2
<1>5. RemoveAt(s, i) \in Seq(S)
  BY <1>3, <1>4 DEF RemoveAt
<1>. QED BY <1>1, <1>5, WaitingElements

LEMMA WaitingMore ==
  ASSUME NEW g, NEW s, NEW t, Waiting(s, g), Waiting(t, g)
  PROVE  Waiting(s \o t, g)
<1>. DEFINE S == {s[i] : i \in DOMAIN s} \cup {t[i] : i \in DOMAIN t}
<1>1. s \in Seq(S) /\ t \in Seq(S)
  BY DEF Waiting
<1>2. s \o t \in Seq(S)
  BY <1>1
<1>3. \A x \in S : Known(g, x)
  BY DEF Waiting
<1>. QED BY <1>2, <1>3, WaitingElements

LEMMA NewTaskIsKnown ==
  ASSUME NEW c, gen[c] \in Nat, NEW kind, NEW f, NEW more, "gen" \notin DOMAIN more
  PROVE  Known(gen[c], NewTask(c, kind, f, more))
BY DEF Known, NewTask, Over

----------------------------------------------------------------------------
(* The steps of an open session.                                                *)

LEMMA OpenStep ==
  ASSUME NEW c \in Clients, session[c].open, cast' = cast, gen' = gen,
         OwnDevice(c), SameSession(c),
         OwnEntry(task', task, c), Follows(c, task'[c], task[c]),
         OwnEntry(saving', saving, c), Follows(c, saving'[c], saving[c]),
         OwnEntry(jobs', jobs, c), FollowingJobs(c),
         OwnEntry(queue', queue, c), Waiting(queue'[c], gen[c]),
         OwnEntry(run', run, c), OwnEntry(restoring', restoring, c)
  PROVE  Step(c)
BY DEF Step

(* What the variables an action leaves alone are to a step.                     *)
LEMMA Unchanged ==
  ASSUME IInv, NEW c \in Clients
  PROVE  /\ disk' = disk /\ bodies' = bodies /\ digest' = digest => OwnDevice(c)
         /\ session' = session => SameSession(c)
         /\ task' = task => OwnEntry(task', task, c) /\ Follows(c, task'[c], task[c])
         /\ saving' = saving => OwnEntry(saving', saving, c) /\ Follows(c, saving'[c], saving[c])
         /\ jobs' = jobs => OwnEntry(jobs', jobs, c) /\ FollowingJobs(c)
         /\ queue' = queue => OwnEntry(queue', queue, c) /\ Waiting(queue'[c], gen[c])
         /\ run' = run => OwnEntry(run', run, c)
         /\ restoring' = restoring => OwnEntry(restoring', restoring, c)
BY DEF IInv, Shape, WorkIsKnown, OwnDevice, SameSession, OwnEntry, Follows, FollowingJobs

LEMMA Changed ==
  ASSUME IInv, NEW c \in Clients
  PROVE  /\ \A x : run' = [run EXCEPT ![c] = x] => OwnEntry(run', run, c)
         /\ \A x : restoring' = [restoring EXCEPT ![c] = x] => OwnEntry(restoring', restoring, c)
         /\ \A x : task' = [task EXCEPT ![c] = x] => OwnEntry(task', task, c) /\ task'[c] = x
         /\ \A x : saving' = [saving EXCEPT ![c] = x] => OwnEntry(saving', saving, c) /\ saving'[c] = x
         /\ \A x : queue' = [queue EXCEPT ![c] = x] => OwnEntry(queue', queue, c) /\ queue'[c] = x
         /\ \A x : jobs' = [jobs EXCEPT ![c] = x] => OwnEntry(jobs', jobs, c) /\ jobs'[c] = x
BY DEF IInv, Shape, OwnEntry

(* One task more at the queue's end, of the session it is asked for in.         *)
Asks(c) ==
  \/ \E kind, f : Submit(c, NewTask(c, kind, f, <<>>))
  \/ \E kind, f, x, y, z : Submit(c, NewTask(c, kind, f, [u |-> x, m |-> y, valid |-> z]))
  \/ \E kind, f, x, y, z, w, v, o :
       Submit(c, NewTask(c, kind, f, [targets |-> x, all |-> x, m |-> y, to |-> z, on |-> w,
                                      op |-> v, moved |-> o]))

LEMMA AsksOnce ==
  ASSUME IInv, NEW c \in Clients, Asks(c)
  PROVE  OwnEntry(queue', queue, c) /\ Waiting(queue'[c], gen[c])
<1>1. \E w : Submit(c, w) /\ Known(gen[c], w)
  <2>0. gen[c] \in Nat
    BY DEF IInv, Shape
  <2>1. CASE \E kind, f : Submit(c, NewTask(c, kind, f, <<>>))
    BY <2>0, <2>1, NewTaskIsKnown
  <2>2. CASE \E kind, f, x, y, z : Submit(c, NewTask(c, kind, f, [u |-> x, m |-> y, valid |-> z]))
    <3>. PICK kind, f, x, y, z : Submit(c, NewTask(c, kind, f, [u |-> x, m |-> y, valid |-> z]))
      BY <2>2
    <3>. DEFINE more == [u |-> x, m |-> y, valid |-> z]
    <3>1. "gen" \notin DOMAIN more
      OBVIOUS
    <3>2. Known(gen[c], NewTask(c, kind, f, more))
      BY <2>0, <3>1, NewTaskIsKnown
    <3>. QED BY <3>2
  <2>3. CASE \E kind, f, x, y, z, w, v, o :
               Submit(c, NewTask(c, kind, f, [targets |-> x, all |-> x, m |-> y, to |-> z,
                                              on |-> w, op |-> v, moved |-> o]))
    <3>. PICK kind, f, x, y, z, w, v, o :
           Submit(c, NewTask(c, kind, f, [targets |-> x, all |-> x, m |-> y, to |-> z,
                                          on |-> w, op |-> v, moved |-> o]))
      BY <2>3
    <3>. DEFINE more == [targets |-> x, all |-> x, m |-> y, to |-> z, on |-> w, op |-> v,
                         moved |-> o]
    <3>1. "gen" \notin DOMAIN more
      OBVIOUS
    <3>2. Known(gen[c], NewTask(c, kind, f, more))
      BY <2>0, <3>1, NewTaskIsKnown
    <3>. QED BY <3>2
  <2>. QED BY <2>1, <2>2, <2>3 DEF Asks
<1>. PICK w : Submit(c, w) /\ Known(gen[c], w)
  BY <1>1
<1>2. Waiting(Append(queue[c], w), gen[c])
  BY WaitingOneMore DEF IInv, WorkIsKnown
<1>3. OwnEntry(queue', queue, c) /\ queue'[c] = Append(queue[c], w)
  BY Changed DEF Submit
<1>. QED BY <1>2, <1>3

NatLess == {p \in Nat \X Nat : p[1] < p[2]}

LEMMA LowestOfNaturals ==
  ASSUME NEW S, S \subseteq Nat, S # {}
  PROVE  Lowest(S) \in S
<1>1. IsWellFoundedOn(NatLess, Nat)
  BY NatLessThanWellFounded DEF OpToRel, NatLess
<1>2. PICK x \in S : \A y \in S : ~ (<<y, x>> \in NatLess)
  BY <1>1, WFMin, Zenon
<1>3. \A y \in S : x <= y
  <2>. SUFFICES ASSUME NEW y \in S, y < x PROVE FALSE
    OBVIOUS
  <2>1. <<y, x>> \in NatLess
    BY DEF NatLess
  <2>. QED BY <1>2, <2>1
<1>. QED BY <1>3 DEF Lowest

LEMMA StartTaskIsStep ==
  ASSUME IInv, NEW c \in Clients, StartTask(c)
  PROVE  Step(c)
<1>1. WorkIsKnown(c) /\ (~session[c].open => EndedSession(c))
  BY DEF IInv
<1>2. PICK i : /\ task' = [task EXCEPT ![c] = queue[c][i]]
               /\ queue' = [queue EXCEPT ![c] = RemoveAt(queue[c], i)]
               /\ i \in DOMAIN queue[c]
  <2>. DEFINE urgent == {i \in DOMAIN queue[c] : IsUrgent(queue[c][i])}
  <2>. DEFINE first == IF urgent = {} THEN 1 ELSE Lowest(urgent)
  <2>1. /\ task' = [task EXCEPT ![c] = queue[c][first]]
        /\ queue' = [queue EXCEPT ![c] = RemoveAt(queue[c], first)]
    BY DEF StartTask
  <2>2. first \in DOMAIN queue[c]
    <3>. DEFINE S == {queue[c][i] : i \in DOMAIN queue[c]}
    <3>1. queue[c] \in Seq(S) /\ queue[c] # <<>>
      BY <1>1 DEF WorkIsKnown, Waiting, StartTask
    <3>. HIDE DEF S
    <3>2. DOMAIN queue[c] = 1..Len(queue[c]) /\ Len(queue[c]) \in Nat /\ Len(queue[c]) # 0
      BY <3>1, EmptySeq
    <3>3. CASE urgent = {}
      BY <3>2, <3>3
    <3>4. CASE urgent # {}
      <4>1. urgent \subseteq Nat
        BY <3>2
      <4>2. Lowest(urgent) \in urgent
        BY <3>4, <4>1, LowestOfNaturals
      <4>. QED BY <3>4, <4>2
    <3>. QED BY <3>3, <3>4
  <2>. QED BY <2>1, <2>2
<1>3. Known(gen[c], queue[c][i]) /\ Waiting(RemoveAt(queue[c], i), gen[c])
  <2>1. Waiting(queue[c], gen[c])
    BY <1>1 DEF WorkIsKnown
  <2>2. Known(gen[c], queue[c][i])
    BY <1>2, <2>1 DEF Waiting
  <2>. QED BY <1>2, <2>1, <2>2, WaitingOneLess
<1>4. session[c].open
  BY <1>1 DEF EndedSession, StartTask
<1>5. OwnEntry(task', task, c) /\ Follows(c, task'[c], task[c])
      /\ OwnEntry(queue', queue, c) /\ Waiting(queue'[c], gen[c])
  BY <1>2, <1>3, <1>4, Changed DEF Follows
<1>6. UNCHANGED <<cast, gen, disk, bodies, digest, session, saving, jobs, run, restoring>>
  BY DEF StartTask, cache, vault
<1>. QED BY <1>4, <1>5, <1>6, Unchanged, OpenStep

LEMMA AskSyncIsStep ==
  ASSUME IInv, NEW c \in Clients, NEW scope, AskSync(c, scope)
  PROVE  Step(c)
<1>1. session[c].open
  BY DEF AskSync
<1>2. OwnEntry(run', run, c)
  <2>1. \E x : run' = [run EXCEPT ![c] = x]
    BY Zenon DEF AskSync
  <2>. QED BY <2>1, Changed
<1>3. UNCHANGED <<cast, gen, disk, bodies, digest, session, task, saving, jobs, queue, restoring>>
  BY DEF AskSync, vault
<1>. QED BY <1>1, <1>2, <1>3, Unchanged, OpenStep

LEMMA RunRestoreIsStep ==
  ASSUME IInv, NEW c \in Clients, RunRestore(c)
  PROVE  Step(c)
<1>1. session[c].open
  BY DEF IInv, EndedSession, RunRestore, Phase
<1>2. OwnEntry(run', run, c)
  <2>1. \E x : run' = [run EXCEPT ![c] = x]
    BY Zenon DEF RunRestore, RunIs
  <2>. QED BY <2>1, Changed
<1>3. OwnEntry(restoring', restoring, c)
  <2>1. restoring' = restoring \/ \E x : restoring' = [restoring EXCEPT ![c] = x]
    BY Zenon DEF RunRestore
  <2>. QED BY <2>1, Changed, Unchanged
<1>4. SameSession(c)
  BY DEF RunRestore, SameSession, OwnEntry, IInv, Shape
<1>5. UNCHANGED <<cast, gen, disk, bodies, digest, task, saving, jobs, queue>>
  BY DEF RunRestore, RunStays, cache
<1>. QED BY <1>1, <1>2, <1>3, <1>4, <1>5, Unchanged, OpenStep

LEMMA RunHydrateIsStep ==
  ASSUME IInv, NEW c \in Clients, RunHydrate(c)
  PROVE  Step(c)
<1>1. session[c].open
  BY DEF IInv, EndedSession, RunHydrate, Phase
<1>2. OwnEntry(run', run, c)
  <2>1. \E x : run' = [run EXCEPT ![c] = x]
    BY Zenon DEF RunHydrate, RunIs
  <2>. QED BY <2>1, Changed
<1>3. UNCHANGED <<cast, gen, disk, bodies, digest, session, task, saving, jobs, queue, restoring>>
  BY DEF RunHydrate, RunStays, vault
<1>. QED BY <1>1, <1>2, <1>3, Unchanged, OpenStep

LEMMA RunBeginIsStep ==
  ASSUME IInv, NEW c \in Clients, RunBegin(c)
  PROVE  Step(c)
<1>1. session[c].open
  BY DEF IInv, EndedSession, RunBegin, Phase
<1>2. OwnEntry(run', run, c)
  <2>1. \E x : run' = [run EXCEPT ![c] = x]
    BY Zenon DEF RunBegin, RunIs
  <2>. QED BY <2>1, Changed
<1>3. OwnEntry(queue', queue, c) /\ Waiting(queue'[c], gen[c])
  <2>1. queue' = queue \/ Asks(c)
    BY Zenon DEF RunBegin, Asks
  <2>. QED BY <2>1, AsksOnce, Unchanged
<1>4. SameSession(c)
  <2>1. session' = session \/ \E x, y : session' = [session EXCEPT ![c].seq = x, ![c].status = y]
    BY Zenon DEF RunBegin
  <2>. QED BY <2>1 DEF SameSession, OwnEntry, IInv, Shape
<1>5. UNCHANGED <<cast, gen, disk, bodies, digest, task, saving, jobs, restoring>>
  BY DEF RunBegin, RunStays, cache, vault
<1>. QED BY <1>1, <1>2, <1>3, <1>4, <1>5, Unchanged, OpenStep

LEMMA RunRestIsStep ==
  ASSUME IInv, NEW c \in Clients, RunRest(c)
  PROVE  Step(c)
<1>1. session[c].open
  BY DEF IInv, EndedSession, RunRest, Phase
<1>2. OwnEntry(run', run, c)
  <2>1. \E x : run' = [run EXCEPT ![c] = x]
    BY Zenon DEF RunRest, RunIs
  <2>. QED BY <2>1, Changed
<1>3. OwnEntry(queue', queue, c) /\ Waiting(queue'[c], gen[c])
  <2>1. queue' = queue \/ Asks(c)
    BY Zenon DEF RunRest, Asks
  <2>. QED BY <2>1, AsksOnce, Unchanged
<1>4. UNCHANGED <<cast, gen, disk, bodies, digest, session, task, saving, jobs, restoring>>
  BY DEF RunRest, RunStays, cache, vault
<1>. QED BY <1>1, <1>2, <1>3, <1>4, Unchanged, OpenStep

LEMMA RunFailedIsStep ==
  ASSUME IInv, NEW c \in Clients, RunFailed(c)
  PROVE  Step(c)
<1>1. session[c].open
  BY DEF IInv, EndedSession, RunFailed, Phase
<1>2. OwnEntry(run', run, c)
  <2>1. \E x : run' = [run EXCEPT ![c] = x]
    BY Zenon DEF RunFailed, RunIs
  <2>. QED BY <2>1, Changed
<1>3. SameSession(c)
  <2>1. session' = session \/ \E y : session' = [session EXCEPT ![c].status = y]
    BY Zenon DEF RunFailed
  <2>. QED BY <2>1 DEF SameSession, OwnEntry, IInv, Shape
<1>4. UNCHANGED <<cast, gen, disk, bodies, digest, task, saving, jobs, queue, restoring>>
  BY DEF RunFailed, RunStays, cache, vault
<1>. QED BY <1>1, <1>2, <1>3, <1>4, Unchanged, OpenStep

(* The prefetches are a sequence, for there are finitely many folders.          *)
LEMMA PrefetchesWait ==
  ASSUME IInv, NEW c \in Clients, NEW by
  PROVE  Waiting(Prefetches(c, by), gen[c])
<1>. DEFINE wanted(f) == DOMAIN by[f].rows \ BodyUids(c, f)
<1>. DEFINE fs == {f \in Folders : /\ f \in DOMAIN by /\ wanted(f) # {}
                                   /\ MarkOf(c, f) # NoMark /\ MarkOf(c, f).valid = by[f].valid}
<1>. DEFINE more(f) == [u |-> Highest(wanted(f)), valid |-> by[f].valid,
                        m |-> by[f].rows[Highest(wanted(f))].msg]
<1>. DEFINE one(f) == NewTask(c, "prefetch", f, more(f))
<1>. DEFINE s == [i \in 1..Cardinality(fs) |-> one(SetToSeq(fs)[i])]
<1>1. s = Prefetches(c, by)
  BY Zenon DEF Prefetches
<1>2. Cardinality(fs) \in Nat
  BY FS_Subset, FS_CardinalityType, FoldersAssumption
<1>3. \A f : Known(gen[c], one(f))
  <2>. TAKE f
  <2>1. gen[c] \in Nat /\ "gen" \notin DOMAIN more(f)
    BY DEF IInv, Shape
  <2>. HIDE DEF more
  <2>. QED BY <2>1, NewTaskIsKnown
<1>. HIDE DEF one, fs
<1>4. ASSUME NEW i \in DOMAIN s
      PROVE  Known(gen[c], s[i])
  <2>1. s[i] = one(SetToSeq(fs)[i])
    OBVIOUS
  <2>. HIDE DEF s
  <2>. QED BY <1>3, <2>1
<1>5. s \in Seq({s[i] : i \in DOMAIN s})
  BY <1>2
<1>. HIDE DEF s
<1>6. Waiting(s, gen[c])
  BY <1>4, <1>5 DEF Waiting
<1>. QED BY <1>1, <1>6

LEMMA RunSyncedIsStep ==
  ASSUME IInv, NEW c \in Clients, RunSynced(c)
  PROVE  Step(c)
<1>1. session[c].open
  BY DEF IInv, EndedSession, RunSynced, Phase
<1>2. OwnEntry(run', run, c)
  <2>1. \E x : run' = [run EXCEPT ![c] = x]
    BY Zenon DEF RunSynced, RunIs
  <2>. QED BY <2>1, Changed
<1>3. OwnEntry(queue', queue, c) /\ Waiting(queue'[c], gen[c])
  <2>1. queue' = queue \/ \E by : queue' = [queue EXCEPT ![c] = queue[c] \o Prefetches(c, by)]
    BY Zenon DEF RunSynced
  <2>2. ASSUME NEW by, queue' = [queue EXCEPT ![c] = queue[c] \o Prefetches(c, by)]
        PROVE  OwnEntry(queue', queue, c) /\ Waiting(queue'[c], gen[c])
    <3>1. OwnEntry(queue', queue, c) /\ queue'[c] = queue[c] \o Prefetches(c, by)
      BY <2>2, Changed
    <3>2. Waiting(queue[c], gen[c]) /\ Waiting(Prefetches(c, by), gen[c])
      BY PrefetchesWait DEF IInv, WorkIsKnown
    <3>. QED BY <3>1, <3>2, WaitingMore
  <2>. QED BY <2>1, <2>2, Unchanged
<1>4. OwnEntry(saving', saving, c) /\ Follows(c, saving'[c], saving[c])
  <2>1. saving' = saving \/ saving' = [saving EXCEPT ![c] = NewSave(c)]
    BY DEF RunSynced
  <2>2. Known(gen[c], NewSave(c))
    BY DEF Known, NewSave, IInv, Shape
  <2>. QED BY <1>1, <2>1, <2>2, Changed, Unchanged DEF Follows
<1>5. SameSession(c)
  <2>1. session' = session \/ \E x, y : session' = [session EXCEPT ![c].status = x, ![c].saved = y]
    BY Zenon DEF RunSynced
  <2>. QED BY <2>1 DEF SameSession, OwnEntry, IInv, Shape
<1>6. UNCHANGED <<cast, gen, disk, bodies, digest, task, jobs, restoring>>
  BY DEF RunSynced, RunStays, cache
<1>. QED BY <1>1, <1>2, <1>3, <1>4, <1>5, <1>6, Unchanged, OpenStep

LEMMA ClickIsStep ==
  ASSUME IInv, NEW c \in Clients, NEW kind, Click(c, kind)
  PROVE  Step(c)
<1>1. session[c].open
  BY DEF Click
<1>2. UNCHANGED <<cast, gen, disk, bodies, digest, session, task, saving, jobs, queue, run, restoring>>
  BY DEF Click, cache, vault
<1>. QED BY <1>1, <1>2, Unchanged, OpenStep

LEMMA SendIsStep ==
  ASSUME IInv, NEW c \in Clients, Send(c)
  PROVE  Step(c)
<1>1. session[c].open
  BY DEF Send
<1>2. OwnEntry(run', run, c)
  <2>1. run' = run \/ \E x : run' = [run EXCEPT ![c] = x]
    BY Zenon DEF Send, Refuse
  <2>. QED BY <2>1, Changed, Unchanged
<1>3. OwnEntry(queue', queue, c) /\ Waiting(queue'[c], gen[c])
  <2>1. queue' = queue \/ Asks(c)
    BY Zenon DEF Send, Asks
  <2>. QED BY <2>1, AsksOnce, Unchanged
<1>4. UNCHANGED <<cast, gen, disk, bodies, digest, session, task, saving, jobs, restoring>>
  BY DEF Send, cache, vault
<1>. QED BY <1>1, <1>2, <1>3, <1>4, Unchanged, OpenStep

LEMMA AskOlderIsStep ==
  ASSUME IInv, NEW c \in Clients, AskOlder(c)
  PROVE  Step(c)
<1>1. session[c].open
  BY DEF AskOlder
<1>2. OwnEntry(queue', queue, c) /\ Waiting(queue'[c], gen[c])
  <2>1. Asks(c)
    BY Zenon DEF AskOlder, Asks
  <2>. QED BY <2>1, AsksOnce
<1>3. UNCHANGED <<cast, gen, disk, bodies, digest, session, task, saving, jobs, run, restoring>>
  BY DEF AskOlder, cache, vault
<1>. QED BY <1>1, <1>2, <1>3, Unchanged, OpenStep

LEMMA OpenIsStep ==
  ASSUME IInv, NEW c \in Clients, Open(c)
  PROVE  Step(c)
<1>1. session[c].open
  BY DEF Open
<1>2. OwnEntry(queue', queue, c) /\ Waiting(queue'[c], gen[c])
  <2>1. queue' = queue \/ Asks(c)
    BY Zenon DEF Open, Asks
  <2>. QED BY <2>1, AsksOnce, Unchanged
<1>3. UNCHANGED <<cast, gen, disk, bodies, digest, session, task, saving, jobs, run, restoring>>
  BY DEF Open, cache, vault
<1>. QED BY <1>1, <1>2, <1>3, Unchanged, OpenStep

----------------------------------------------------------------------------
(* The steps that come back from a task, or go on outside the queue: of an open *)
(* session, or of one that has ended, where the task is stale.                  *)

LEMMA EndedTask ==
  ASSUME IInv, NEW c \in Clients, task[c] # NoTask, ~session[c].open
  PROVE  Stale(c, task[c]) /\ run[c] = NoRun
BY DEF IInv, EndedSession, Stale

LEMMA SyncEarlyIsStep ==
  ASSUME IInv, NEW c \in Clients, SyncEarly(c)
  PROVE  Step(c)
<1>1. task[c] # NoTask
  BY DEF SyncEarly, Running
<1>2. GoesOn(c)
  BY Zenon DEF SyncEarly, GoesOn
<1>3. OwnEntry(task', task, c) /\ Follows(c, task'[c], task[c])
  BY <1>1, <1>2, GoesOnFollows DEF IInv
<1>4. UNCHANGED <<cast, gen, disk, bodies, digest, saving, restoring, session, run, queue, jobs>>
  BY DEF SyncEarly, cache, vault
<1>5. QueueStep(c)
  BY <1>1, <1>3, <1>4, Unchanged DEF QueueStep
<1>. QED BY <1>4, <1>5, QueueStepIsStep

LEMMA TaskEndsFollows ==
  ASSUME IInv, NEW c \in Clients, TaskEnds(c)
  PROVE  OwnEntry(task', task, c) /\ Follows(c, task'[c], task[c])
BY Changed DEF TaskEnds, Follows

LEMMA SyncSettlesIsStep ==
  ASSUME IInv, NEW c \in Clients, SyncSettles(c)
  PROVE  Step(c)
<1>1. task[c] # NoTask /\ TaskEnds(c)
  BY DEF SyncSettles, Settled, Running
<1>2. OwnEntry(task', task, c) /\ Follows(c, task'[c], task[c])
  BY <1>1, TaskEndsFollows
<1>3. UNCHANGED <<cast, gen, disk, bodies, digest, saving, restoring, session, queue, jobs>>
  BY DEF SyncSettles, RunStays, cache, vault
<1>4. CASE session[c].open
  <2>1. run' = run \/ \E x : run' = [run EXCEPT ![c] = x]
    BY Zenon DEF SyncSettles, RunIs
  <2>2. OwnEntry(run', run, c)
    BY <2>1, Changed, Unchanged
  <2>. QED BY <1>2, <1>3, <1>4, <2>2, Unchanged, OpenStep
<1>5. CASE ~session[c].open
  <2>1. UNCHANGED run
    BY <1>1, <1>5, EndedTask DEF SyncSettles
  <2>2. QueueStep(c)
    BY <1>1, <1>2, <1>3, Unchanged DEF QueueStep
  <2>. QED BY <1>3, <2>1, <2>2, QueueStepIsStep
<1>. QED BY <1>4, <1>5

LEMMA WriteSettlesIsStep ==
  ASSUME IInv, NEW c \in Clients, WriteSettles(c)
  PROVE  Step(c)
<1>1. task[c] # NoTask /\ TaskEnds(c)
  BY DEF WriteSettles, Settled, Running
<1>2. OwnEntry(task', task, c) /\ Follows(c, task'[c], task[c])
  BY <1>1, TaskEndsFollows
<1>3. UNCHANGED <<cast, gen, disk, bodies, digest, saving, restoring, session, queue>>
  BY DEF WriteSettles, cache, vault
<1>4. CASE session[c].open
  <2>1. run' = run \/ \E x : run' = [run EXCEPT ![c] = x]
    BY Zenon DEF WriteSettles, Refuse
  <2>2. OwnEntry(run', run, c)
    BY <2>1, Changed, Unchanged
  <2>3. \/ jobs' = jobs
        \/ Port = "disk" /\ \E w : jobs' = [jobs EXCEPT ![c] = jobs[c] \cup {[kind |-> "record", went |-> w]}]
    BY Zenon DEF WriteSettles
  <2>4. OwnEntry(jobs', jobs, c) /\ FollowingJobs(c)
    <3>1. CASE jobs' = jobs
      BY <3>1, Unchanged
    <3>2. ASSUME Port = "disk", NEW w,
                 jobs' = [jobs EXCEPT ![c] = jobs[c] \cup {[kind |-> "record", went |-> w]}]
          PROVE  OwnEntry(jobs', jobs, c) /\ FollowingJobs(c)
      <4>1. OwnEntry(jobs', jobs, c) /\ jobs'[c] = jobs[c] \cup {[kind |-> "record", went |-> w]}
        BY <3>2, Changed
      <4>. QED BY <1>4, <3>2, <4>1 DEF FollowingJobs
    <3>. QED BY <2>3, <3>1, <3>2
  <2>. QED BY <1>2, <1>3, <1>4, <2>2, <2>4, Unchanged, OpenStep
<1>5. CASE ~session[c].open
  <2>1. UNCHANGED <<run, jobs>>
    BY <1>1, <1>5, EndedTask DEF WriteSettles
  <2>2. QueueStep(c)
    BY <1>1, <1>2, <1>3, Unchanged DEF QueueStep
  <2>. QED BY <1>3, <2>1, <2>2, QueueStepIsStep
<1>. QED BY <1>4, <1>5

LEMMA OlderSettlesIsStep ==
  ASSUME IInv, NEW c \in Clients, OlderSettles(c)
  PROVE  Step(c)
<1>1. task[c] # NoTask /\ TaskEnds(c)
  BY DEF OlderSettles, Settled, Running
<1>2. OwnEntry(task', task, c) /\ Follows(c, task'[c], task[c])
  BY <1>1, TaskEndsFollows
<1>3. UNCHANGED <<cast, gen, disk, bodies, digest, saving, restoring, session, queue, jobs>>
  BY DEF OlderSettles, cache, vault
<1>4. CASE session[c].open
  <2>1. run' = run \/ \E x : run' = [run EXCEPT ![c] = x]
    BY Zenon DEF OlderSettles, RunIs
  <2>2. OwnEntry(run', run, c)
    BY <2>1, Changed, Unchanged
  <2>. QED BY <1>2, <1>3, <1>4, <2>2, Unchanged, OpenStep
<1>5. CASE ~session[c].open
  <2>1. UNCHANGED run
    BY <1>1, <1>5, EndedTask DEF OlderSettles
  <2>2. QueueStep(c)
    BY <1>1, <1>2, <1>3, Unchanged DEF QueueStep
  <2>. QED BY <1>3, <2>1, <2>2, QueueStepIsStep
<1>. QED BY <1>4, <1>5

LEMMA BodySettlesIsStep ==
  ASSUME IInv, NEW c \in Clients, BodySettles(c)
  PROVE  Step(c)
<1>1. task[c] # NoTask /\ TaskEnds(c)
  BY DEF BodySettles, Settled, Running
<1>2. OwnEntry(task', task, c) /\ Follows(c, task'[c], task[c])
  BY <1>1, TaskEndsFollows
<1>3. UNCHANGED <<cast, gen, disk, bodies, digest, saving, restoring, session, run, queue>>
  BY DEF BodySettles, cache, vault
<1>4. CASE session[c].open
  <2>1. \/ jobs' = jobs
        \/ \E f, u, got : jobs' = [jobs EXCEPT ![c] = jobs[c] \cup
             {[kind |-> "body", f |-> f, u |-> u, got |-> got, gen |-> task[c].gen]}]
    BY Zenon DEF BodySettles
  <2>2. OwnEntry(jobs', jobs, c) /\ FollowingJobs(c)
    <3>1. CASE jobs' = jobs
      BY <3>1, Unchanged
    <3>2. ASSUME NEW f, NEW u, NEW got, jobs' = [jobs EXCEPT ![c] = jobs[c] \cup
                   {[kind |-> "body", f |-> f, u |-> u, got |-> got, gen |-> task[c].gen]}]
          PROVE  OwnEntry(jobs', jobs, c) /\ FollowingJobs(c)
      <4>. DEFINE one == [kind |-> "body", f |-> f, u |-> u, got |-> got, gen |-> task[c].gen]
      <4>1. OwnEntry(jobs', jobs, c) /\ jobs'[c] = jobs[c] \cup {one}
        BY <3>2, Changed
      <4>2. one.kind = "body" /\ Known(gen[c], one)
        BY <1>1 DEF IInv, WorkIsKnown, Known
      <4>. HIDE DEF one
      <4>. QED BY <1>4, <4>1, <4>2 DEF FollowingJobs
    <3>. QED BY <2>1, <3>1, <3>2
  <2>. QED BY <1>2, <1>3, <1>4, <2>2, Unchanged, OpenStep
<1>5. CASE ~session[c].open
  <2>1. UNCHANGED jobs
    BY <1>1, <1>5, EndedTask DEF BodySettles
  <2>2. QueueStep(c)
    BY <1>1, <1>2, <1>3, Unchanged DEF QueueStep
  <2>. QED BY <1>3, <2>1, <2>2, QueueStepIsStep
<1>. QED BY <1>4, <1>5

LEMMA RecordSourceIsStep ==
  ASSUME IInv, NEW c \in Clients, RecordSource(c)
  PROVE  Step(c)
<1>1. Port = "disk"
  BY DEF IInv, WorkIsKnown, RecordSource
<1>2. session[c].open
  BY <1>1 DEF IInv, EndedSession
<1>3. OwnEntry(jobs', jobs, c) /\ FollowingJobs(c)
  <2>1. \E x : jobs' = [jobs EXCEPT ![c] = x]
    BY Zenon DEF RecordSource
  <2>. QED BY <1>1, <1>2, <2>1, Changed DEF FollowingJobs
<1>4. OwnDevice(c)
  <2>. PICK f, uids : DeleteRows(c, f, uids)
    BY Zenon DEF RecordSource
  <2>. QED BY DeleteRowsIsOwn DEF IInv
<1>5. UNCHANGED <<cast, gen, session, task, saving, queue, run, restoring>>
  BY DEF RecordSource, vault
<1>. QED BY <1>2, <1>3, <1>4, <1>5, Unchanged, OpenStep

LEMMA RecordDestinationIsStep ==
  ASSUME IInv, NEW c \in Clients, RecordDestination(c)
  PROVE  Step(c)
<1>1. Port = "disk"
  BY DEF IInv, WorkIsKnown, RecordDestination
<1>2. session[c].open
  BY <1>1 DEF IInv, EndedSession
<1>3. OwnEntry(jobs', jobs, c) /\ FollowingJobs(c)
  <2>1. \E x : jobs' = [jobs EXCEPT ![c] = x]
    BY Zenon DEF RecordDestination
  <2>. QED BY <1>1, <1>2, <2>1, Changed DEF FollowingJobs
<1>4. OwnDevice(c)
  <2>1. UNCHANGED cache \/ \E f, rows : PutRows(c, f, rows)
    BY Zenon DEF RecordDestination
  <2>. QED BY <2>1, Unchanged, PutRowsIsOwn DEF IInv, cache
<1>5. UNCHANGED <<cast, gen, session, task, saving, queue, run, restoring>>
  BY DEF RecordDestination, vault
<1>. QED BY <1>2, <1>3, <1>4, <1>5, Unchanged, OpenStep

LEMMA KeepBodyIsStep ==
  ASSUME IInv, NEW c \in Clients, KeepBody(c)
  PROVE  Step(c)
<1>0. Shape /\ WorkIsKnown(c) /\ (~session[c].open => EndedSession(c))
  BY DEF IInv
<1>. PICK j \in jobs[c] :
       /\ jobs' = [jobs EXCEPT ![c] = jobs[c] \ {j}]
       /\ IF Stale(c, j) THEN UNCHANGED cache ELSE PutBody(c, j.f, j.u, j.got)
  BY Zenon DEF KeepBody
<1>1. OwnEntry(jobs', jobs, c) /\ FollowingJobs(c)
  <2>1. OwnEntry(jobs', jobs, c) /\ jobs'[c] = jobs[c] \ {j}
    BY <1>0 DEF Shape, OwnEntry
  <2>. QED BY <2>1 DEF FollowingJobs
<1>2. OwnDevice(c) /\ (~session[c].open => SameDevice(c))
  <2>1. CASE UNCHANGED cache
    BY <1>0, <2>1, SameCache DEF cache
  <2>2. CASE ~UNCHANGED cache
    <3>1. session[c].open
      BY <1>0, <2>2 DEF EndedSession, Stale
    <3>. QED BY <1>0, <2>2, <3>1, PutBodyIsOwn
  <2>. QED BY <2>1, <2>2
<1>3. UNCHANGED <<cast, gen, session, task, saving, queue, run, restoring>>
  BY DEF KeepBody, vault
<1>4. SameSession(c) /\ OwnEntry(task', task, c) /\ Follows(c, task'[c], task[c])
      /\ OwnEntry(saving', saving, c) /\ Follows(c, saving'[c], saving[c])
      /\ OwnEntry(queue', queue, c) /\ Waiting(queue'[c], gen[c])
      /\ OwnEntry(run', run, c) /\ OwnEntry(restoring', restoring, c)
  BY <1>3, Unchanged
<1>. QED BY <1>0, <1>1, <1>2, <1>3, <1>4 DEF Step, EndedSession

LEMMA DropsIsStep ==
  ASSUME IInv, NEW c \in Clients, Drops(c)
  PROVE  Step(c)
<1>1. QueueStep(c)
  BY DropIsQueueStep DEF Drops
<1>2. UNCHANGED <<cast, saving, restoring, session, run, queue, jobs>>
  BY DEF Drops, vault
<1>. QED BY <1>1, <1>2, QueueStepIsStep

(* What the invariant is about.                                                 *)
tracked == <<cast, disk, bodies, digest, task, saving, jobs, queue, gen, session, run, restoring>>

LEMMA UntrackedKeepsInvariant ==
  ASSUME IInv, UNCHANGED tracked
  PROVE  IInv'
BY DEF tracked, IInv, Shape, WorkIsKnown, EndedSession, Devices, Dev, Port, Sole, IsEmptyDevice

----------------------------------------------------------------------------
(* The steps that end a session or begin one.                                   *)

LEMMA LockKeepsInvariant ==
  ASSUME IInv, NEW c \in Clients, Lock(c)
  PROVE  IInv'
<1>1. Port' = Port /\ Devices' = Devices /\ \A e \in Clients : Dev(e)' = Dev(e)
  BY DEF Lock, Port, Devices, Dev
<1>2. Shape /\ WorkIsKnown(c) /\ Port # "disk"
  BY DEF IInv, Lock
<1>3. UNCHANGED <<cast, disk, bodies, digest, task, saving, jobs>>
  BY DEF Lock, cache
<1>4. /\ OwnEntry(gen', gen, c) /\ gen'[c] = gen[c] + 1
      /\ OwnEntry(session', session, c)
      /\ session'[c] = [ClosedSession EXCEPT !.open = FALSE, !.teardown = TRUE]
      /\ OwnEntry(run', run, c) /\ run'[c] = NoRun
      /\ OwnEntry(queue', queue, c) /\ queue'[c] = <<>>
      /\ OwnEntry(restoring', restoring, c) /\ restoring'[c] = NoTask
  BY <1>2 DEF Lock, Forgets, Shape, OwnEntry
<1>5. "open" \in DOMAIN session'[c] /\ "teardown" \in DOMAIN session'[c] /\ session'[c].teardown
  BY <1>4 DEF ClosedSession
<1>6. gen' \in [Clients -> Nat]
  BY <1>2, <1>4 DEF Lock, Shape
<1>7. Shape'
  <2>1. \A d \in Clients : "open" \in DOMAIN session'[d] /\ "teardown" \in DOMAIN session'[d]
    BY <1>2, <1>4, <1>5 DEF Shape, OwnEntry
  <2>. QED BY <1>1, <1>2, <1>3, <1>4, <1>6, <2>1 DEF Shape, OwnEntry
<1>8. \A d \in Clients : d # c => WorkIsKnown(d)' /\ (~session[d].open => EndedSession(d))'
  <2>. SUFFICES ASSUME NEW d \in Clients, d # c
               PROVE  WorkIsKnown(d)' /\ (~session[d].open => EndedSession(d))'
    OBVIOUS
  <2>1. OwnDevice(c)
    BY <1>2, <1>3, SameCache
  <2>2. /\ task'[d] = task[d] /\ saving'[d] = saving[d] /\ jobs'[d] = jobs[d]
        /\ queue'[d] = queue[d] /\ run'[d] = run[d] /\ restoring'[d] = restoring[d]
        /\ gen'[d] = gen[d] /\ session'[d] = session[d]
    BY <1>3, <1>4 DEF OwnEntry
  <2>. QED BY <1>3, <2>1, <2>2, OtherClients
<1>9. gen[c] \in Nat /\ \A w : Known(gen[c], w) => Known(gen'[c], w) /\ w.gen # gen'[c]
  BY <1>2, <1>4 DEF Shape, Known
<1>10. WorkIsKnown(c)'
  <2>1. Waiting(queue'[c], gen'[c])
    BY <1>4 DEF Waiting
  <2>. QED BY <1>1, <1>2, <1>3, <1>9, <2>1 DEF WorkIsKnown
<1>11. EndedSession(c)'
  BY <1>1, <1>2, <1>3, <1>4, <1>5, <1>9 DEF EndedSession, WorkIsKnown
<1>. QED BY <1>7, <1>8, <1>10, <1>11 DEF IInv

LEMMA TeardownKeepsInvariant ==
  ASSUME IInv, NEW c \in Clients, Teardown(c)
  PROVE  IInv'
<1>1. Port' = Port /\ Devices' = Devices /\ \A e \in Clients : Dev(e)' = Dev(e)
  BY DEF Teardown, Port, Devices, Dev
<1>2. Shape /\ WorkIsKnown(c) /\ (~session[c].open => EndedSession(c)) /\ task[c] = NoTask
  BY DEF IInv, Teardown
<1>3. UNCHANGED <<cast, task, saving, jobs, gen, queue, run, restoring>>
  BY DEF Teardown, vault
<1>4. OwnDevice(c) /\ IsEmptyDevice(Dev(c))'
  BY <1>2, <1>3, ClearIsOwn DEF Teardown
<1>5. /\ OwnEntry(session', session, c)
      /\ "open" \in DOMAIN session'[c] /\ "teardown" \in DOMAIN session'[c]
      /\ session'[c].open = session[c].open
  BY <1>2 DEF Teardown, Shape, OwnEntry
<1>6. Shape'
  <2>1. \A d \in Clients : "open" \in DOMAIN session'[d] /\ "teardown" \in DOMAIN session'[d]
    BY <1>2, <1>5 DEF Shape, OwnEntry
  <2>. QED BY <1>1, <1>2, <1>3, <1>4, <1>5, <2>1 DEF Shape, OwnEntry, OwnDevice
<1>7. \A d \in Clients : d # c => WorkIsKnown(d)' /\ (~session[d].open => EndedSession(d))'
  <2>. SUFFICES ASSUME NEW d \in Clients, d # c
               PROVE  WorkIsKnown(d)' /\ (~session[d].open => EndedSession(d))'
    OBVIOUS
  <2>1. session'[d] = session[d]
    BY <1>5 DEF OwnEntry
  <2>. QED BY <1>3, <1>4, <2>1, OtherClients
<1>8. WorkIsKnown(c)'
  BY <1>1, <1>2, <1>3 DEF WorkIsKnown
<1>9. (~session[c].open => EndedSession(c))'
  BY <1>1, <1>2, <1>3, <1>4, <1>5 DEF EndedSession
<1>. QED BY <1>6, <1>7, <1>8, <1>9 DEF IInv

LEMMA UnlockKeepsInvariant ==
  ASSUME IInv, NEW c \in Clients, Unlock(c)
  PROVE  IInv'
<1>1. Port' = Port /\ Devices' = Devices /\ \A e \in Clients : Dev(e)' = Dev(e)
  BY DEF Unlock, Port, Devices, Dev
<1>2. Shape /\ WorkIsKnown(c)
  BY DEF IInv
<1>3. UNCHANGED <<cast, disk, bodies, digest, task, saving, jobs, gen, queue, run, restoring>>
  BY DEF Unlock, vault, cache
<1>4. /\ OwnEntry(session', session, c)
      /\ "open" \in DOMAIN session'[c] /\ "teardown" \in DOMAIN session'[c]
      /\ session'[c].open
  BY <1>2 DEF Unlock, Shape, OwnEntry
<1>5. Shape'
  <2>1. \A d \in Clients : "open" \in DOMAIN session'[d] /\ "teardown" \in DOMAIN session'[d]
    BY <1>2, <1>4 DEF Shape, OwnEntry
  <2>. QED BY <1>1, <1>2, <1>3, <1>4, <2>1 DEF Shape, OwnEntry
<1>6. \A d \in Clients : d # c => WorkIsKnown(d)' /\ (~session[d].open => EndedSession(d))'
  <2>. SUFFICES ASSUME NEW d \in Clients, d # c
               PROVE  WorkIsKnown(d)' /\ (~session[d].open => EndedSession(d))'
    OBVIOUS
  <2>1. session'[d] = session[d] /\ OwnDevice(c)
    BY <1>2, <1>3, <1>4, SameCache DEF OwnEntry
  <2>. QED BY <1>3, <2>1, OtherClients
<1>7. WorkIsKnown(c)'
  BY <1>1, <1>2, <1>3 DEF WorkIsKnown
<1>. QED BY <1>4, <1>5, <1>6, <1>7 DEF IInv

LEMMA CrashKeepsInvariant ==
  ASSUME IInv, NEW c \in Clients, Crash(c)
  PROVE  IInv'
<1>1. Port' = Port /\ Devices' = Devices /\ \A e \in Clients : Dev(e)' = Dev(e)
  BY DEF Crash, Port, Devices, Dev
<1>2. Shape
  BY DEF IInv
<1>3. UNCHANGED <<cast, disk, bodies, digest>>
  BY DEF Crash
<1>4. /\ OwnEntry(gen', gen, c) /\ gen'[c] = gen[c] + 1
      /\ OwnEntry(session', session, c) /\ session'[c] = ClosedSession
      /\ OwnEntry(run', run, c) /\ OwnEntry(restoring', restoring, c)
      /\ OwnEntry(queue', queue, c) /\ queue'[c] = <<>>
      /\ OwnEntry(task', task, c) /\ task'[c] = NoTask
      /\ OwnEntry(jobs', jobs, c) /\ jobs'[c] = {}
      /\ OwnEntry(saving', saving, c) /\ saving'[c] = NoTask
  BY <1>2 DEF Crash, Forgets, Shape, OwnEntry
<1>5. "open" \in DOMAIN session'[c] /\ "teardown" \in DOMAIN session'[c] /\ session'[c].open
  BY <1>4 DEF ClosedSession
<1>6. gen' \in [Clients -> Nat]
  BY <1>2, <1>4 DEF Crash, Shape
<1>7. Shape'
  <2>1. \A d \in Clients : "open" \in DOMAIN session'[d] /\ "teardown" \in DOMAIN session'[d]
    BY <1>2, <1>4, <1>5 DEF Shape, OwnEntry
  <2>. QED BY <1>1, <1>2, <1>3, <1>4, <1>6, <2>1 DEF Shape, OwnEntry
<1>8. \A d \in Clients : d # c => WorkIsKnown(d)' /\ (~session[d].open => EndedSession(d))'
  <2>. SUFFICES ASSUME NEW d \in Clients, d # c
               PROVE  WorkIsKnown(d)' /\ (~session[d].open => EndedSession(d))'
    OBVIOUS
  <2>1. OwnDevice(c)
    BY <1>2, <1>3, SameCache
  <2>2. /\ task'[d] = task[d] /\ saving'[d] = saving[d] /\ jobs'[d] = jobs[d]
        /\ queue'[d] = queue[d] /\ run'[d] = run[d] /\ restoring'[d] = restoring[d]
        /\ gen'[d] = gen[d] /\ session'[d] = session[d]
    BY <1>4 DEF OwnEntry
  <2>. QED BY <1>3, <2>1, <2>2, OtherClients
<1>9. WorkIsKnown(c)'
  <2>1. Waiting(queue'[c], gen'[c])
    BY <1>4 DEF Waiting
  <2>. QED BY <1>1, <1>4, <2>1 DEF WorkIsKnown
<1>. QED BY <1>5, <1>7, <1>8, <1>9 DEF IInv

----------------------------------------------------------------------------
(* The theorem.                                                                 *)

LEMMA InitEstablishesInvariant == Init => IInv
<1>. SUFFICES ASSUME Init PROVE IInv
  OBVIOUS
<1>1. Shape
  BY DEF Init, StoreInit, SnapshotInit, ClosedSession, Shape
<1>2. ASSUME NEW c \in Clients PROVE WorkIsKnown(c) /\ session[c].open
  <2>1. Waiting(queue[c], gen[c])
    BY DEF Init, Waiting
  <2>2. session[c].open
    BY DEF Init, ClosedSession
  <2>. QED BY <2>1, <2>2 DEF Init, SnapshotInit, WorkIsKnown
<1>. QED BY <1>1, <1>2 DEF IInv

LEMMA ClientStepKeepsInvariant ==
  ASSUME IInv, NEW c \in Clients, ClientStep(c)
  PROVE  IInv'
<1>1. CASE Lock(c)
  BY <1>1, LockKeepsInvariant
<1>2. CASE Teardown(c)
  BY <1>2, TeardownKeepsInvariant
<1>3. CASE Unlock(c)
  BY <1>3, UnlockKeepsInvariant
<1>4. CASE Crash(c)
  BY <1>4, CrashKeepsInvariant
<1>5. CASE Waits(c)
  BY <1>5, UntrackedKeepsInvariant DEF Waits, tracked, cache, vault
<1>6. ASSUME ~Lock(c), ~Teardown(c), ~Unlock(c), ~Crash(c), ~Waits(c)
      PROVE  Step(c)
  BY <1>6, StartTaskIsStep, AskSyncIsStep, RunRestoreIsStep, RunHydrateIsStep, RunBeginIsStep,
     RunRestIsStep, RunSyncedIsStep, RunFailedIsStep, SyncEarlyIsStep, SyncSettlesIsStep,
     ClickIsStep, SendIsStep, WriteSettlesIsStep, RecordSourceIsStep, RecordDestinationIsStep,
     AskOlderIsStep, OlderSettlesIsStep, OpenIsStep, BodySettlesIsStep, KeepBodyIsStep,
     DropsIsStep
     DEF ClientStep
<1>. QED BY <1>1, <1>2, <1>3, <1>4, <1>5, <1>6, StepKeepsInvariant

LEMMA NextKeepsInvariant == IInv /\ [Next]_vars => IInv'
<1>. SUFFICES ASSUME IInv, [Next]_vars PROVE IInv'
  OBVIOUS
<1>1. ASSUME NEW c \in Clients, ClientStep(c) PROVE IInv'
  BY <1>1, ClientStepKeepsInvariant
<1>2. ASSUME NEW c \in Clients, Queued(c) PROVE IInv'
  <2>1. QueueStep(c)
    BY <1>2, SyncStepIsQueueStep, OlderStepIsQueueStep, WriteStepIsQueueStep, BodyStepIsQueueStep
       DEF Queued
  <2>2. UNCHANGED <<cast, saving, restoring, session, run, queue, jobs>>
    BY <1>2 DEF Queued, vault, ui
  <2>. QED BY <2>1, <2>2, QueueStepIsStep, StepKeepsInvariant
<1>3. ASSUME NEW c \in Clients, Shared(c) PROVE IInv'
  <2>1. (SaveStep(c) \/ RestoreStep(c)) /\ UNCHANGED <<cast, ui>>
    BY <1>3 DEF Shared, SnapshotStep, SaveStep, RestoreStep
  <2>2. Step(c)
    BY <2>1, SaveStepIsStep, RestoreStepIsStep
  <2>. QED BY <2>2, StepKeepsInvariant
<1>4. CASE Environment \/ Rest \/ UNCHANGED vars
  <2>1. UNCHANGED tracked
    BY <1>4 DEF Environment, Waits, Deliver, Expunge, Flip, Refile, Renumber, World, Rest, vars,
                ui, cache, vault, net, tracked
  <2>. QED BY <2>1, UntrackedKeepsInvariant
<1>. QED BY <1>1, <1>2, <1>3, <1>4 DEF Next

LEMMA InvariantImpliesProperty == IInv => NothingAfterTheLock
BY DEF IInv, EndedSession, Sole, NothingAfterTheLock

(* Work under way is of the session it was asked for in, or of one before it,   *)
(* and an ended session has none of its own: MailProvider's generation and the  *)
(* checks against it.                                                           *)
THEOREM WorkIsOfItsSession == Spec => []IInv
BY InitEstablishesInvariant, NextKeepsInvariant, PTL DEF Spec

(* Once a lock has cleared the device nothing that was under way writes to it:  *)
(* not the pass, the task, the body still being checked, the snapshot.          *)
THEOREM LockLeavesNothing == Spec => []NothingAfterTheLock
BY WorkIsOfItsSession, InvariantImpliesProperty, PTL
=============================================================================
