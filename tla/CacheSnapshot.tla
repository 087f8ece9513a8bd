----------------------------- MODULE CacheSnapshot -----------------------------
(* The copy of a mailbox's list in the vault: written after a sync, laid over a *)
(* device's cache before its first one.  Neither holds the mailbox's queue, so a *)
(* sync, a page or a clear falls between any two of their steps.                *)
EXTENDS FolderSync

CONSTANT FolderOrder   \* Folders in the order the code goes through them

VARIABLES snap,        \* the vault's snapshot: a mark and summaries per folder
          restoring,   \* restoring[c]: the restore under way
          saving       \* saving[c]: the write under way

vault == <<snap, restoring, saving>>

SnapshotInit ==
  /\ snap = NoSnap
  /\ restoring = [c \in Clients |-> NoTask]
  /\ saving = [c \in Clients |-> NoTask]

Synced(c) == {f \in Folders : MarkOf(c, f) # NoMark}
Marks(c) == [f \in Synced(c) |-> MarkOf(c, f)]
Snapshot(c) == [f \in Synced(c) |-> [mark |-> MarkOf(c, f), rows |-> RowsOf(c, f)]]

----------------------------------------------------------------------------
(* The write: each mark, the summaries, the marks again, then a compare-and-    *)
(* swap of the record that names the file.                                      *)

Saving(c, pc) == saving[c] # NoTask /\ saving[c].pc = pc
SaveGoto(c, pc, more) ==
  saving' = [saving EXCEPT ![c] = Over(Over([pc |-> pc], more), @)]
SaveEnds(c) == saving' = [saving EXCEPT ![c] = NoTask]
OnlySaving == UNCHANGED <<snap, restoring, task, net, astray, calm, gen>>

NewSave(c) == [pc |-> "marks", gen |-> gen[c]]

SaveMarks(c) ==
  /\ Saving(c, "marks")
  /\ SaveGoto(c, "rows", [marks |-> Marks(c)])
  /\ Hold(c, Folders) /\ UNCHANGED <<disk, bodies, digest>>
  /\ OnlySaving

SaveRows(c) ==
  /\ Saving(c, "rows")
  /\ SaveGoto(c, "again", [rows |-> [f \in DOMAIN saving[c].marks |-> RowsOf(c, f)]])
  /\ UNCHANGED cache /\ OnlySaving

Read(s) == [f \in DOMAIN s.marks |-> [mark |-> s.marks[f], rows |-> s.rows[f]]]

SaveAgain(c) ==
  /\ Saving(c, "again")
  /\ LET s == saving[c]
     IN IF \/ \E f \in DOMAIN s.marks : MarkOf(c, f) # s.marks[f]
           \/ s.marks = <<>>
           \/ Read(s) = snap
        THEN SaveEnds(c)
        ELSE SaveGoto(c, "swap", [before |-> snap])
  /\ UNCHANGED cache /\ OnlySaving

SaveSwap(c) ==
  /\ Saving(c, "swap")
  /\ IF snap = saving[c].before
     THEN snap' = Read(saving[c]) /\ SaveGoto(c, "digest", <<>>)
     ELSE SaveEnds(c) /\ UNCHANGED snap
  /\ UNCHANGED <<cache, restoring, task, net, astray, calm, gen>>

(* This cache holds what it wrote, if it still does.                            *)
SaveDigest(c) ==
  /\ Saving(c, "digest")
  /\ SaveEnds(c)
  /\ IF Snapshot(c) = Read(saving[c]) /\ ~Stale(c, saving[c])
     THEN PutDigest(c, Read(saving[c])) ELSE UNCHANGED cache
  /\ OnlySaving

----------------------------------------------------------------------------
(* The restore: a cache with nothing is seeded, one with a list has each folder *)
(* the snapshot is newer in laid over.                                          *)

NotNewer == [no |-> TRUE]

LaidOver(mark, rows, s) ==
  LET uids == DOMAIN s.rows
      filed == {u \in DOMAIN rows : u > s.mark.last}
      atMark == ~s.mark.complete /\ uids # {} /\ Lowest(uids) <= mark.last
      below == IF atMark THEN {u \in DOMAIN rows : u < Lowest(uids)} ELSE {}
  IN IF mark = NoMark
     THEN [staying |-> uids, mark |-> s.mark]
     ELSE IF s.mark.valid # mark.valid \/ s.mark.last <= mark.last
     THEN NotNewer
     ELSE [staying |-> below \cup filed \cup uids,
           mark |-> [s.mark EXCEPT !.complete = @ \/ (atMark /\ mark.complete)]]

Restoring(c, pc) == restoring[c] # NoTask /\ restoring[c].pc = pc
RestoreGoto(c, pc, more) ==
  restoring' = [restoring EXCEPT ![c] = Over(Over([pc |-> pc], more), @)]
RestoreEnds(c) == restoring' = [restoring EXCEPT ![c] = NoTask]
OnlyRestoring == UNCHANGED <<snap, saving, task, net, astray, gen>>

NewRestore(c) == [pc |-> "look", gen |-> gen[c]]

RestoreLook(c) ==
  /\ Restoring(c, "look")
  /\ LET has == Synced(c) # {}
     IN IF snap = NoSnap \/ (has /\ digest[Dev(c)] = snap)
        THEN RestoreEnds(c)
        ELSE RestoreGoto(c, "load", [has |-> has, from |-> snap,
                                     todo |-> SelectSeq(FolderOrder,
                                                LAMBDA f : f \in DOMAIN snap)])
  /\ Hold(c, Folders) /\ UNCHANGED <<disk, bodies, digest, calm>>
  /\ OnlyRestoring

(* The file a newer snapshot replaced is gone; a device with a list waits for   *)
(* it a second at most.                                                         *)
RestoreLoad(c) ==
  /\ Restoring(c, "load")
  /\ LET r == restoring[c]
     IN \/ /\ snap # r.from \/ r.has \/ Stale(c, r)
           /\ RestoreEnds(c)
           /\ UNCHANGED <<cache, calm>>
        \/ /\ snap = r.from /\ ~Stale(c, r)
           /\ IF r.has THEN UNCHANGED <<cache, calm>> ELSE Clear(c) /\ calm' = Others(c)
           /\ RestoreGoto(c, IF r.has THEN "read" ELSE "seed", <<>>)
  /\ OnlyRestoring

NextFolder(c, first) ==
  IF Len(restoring[c].todo) = 1 THEN RestoreGoto(c, "digest", <<>>)
  ELSE RestoreGoto(c, first, [todo |-> Tail(restoring[c].todo)])

(* A write to the folder at hand, unless a lock or a removal came first.        *)
Lay(c, pc, write, then) ==
  /\ Restoring(c, pc)
  /\ IF Stale(c, restoring[c])
     THEN RestoreEnds(c) /\ UNCHANGED <<cache, calm>>
     ELSE write /\ then /\ calm' = Others(c)
  /\ OnlyRestoring

Laying(c) == Head(restoring[c].todo)
LaidFrom(c) == restoring[c].from[Laying(c)]

SeedRows(c) ==
  Lay(c, "seed", PutRows(c, Laying(c), LaidFrom(c).rows), RestoreGoto(c, "seedMark", <<>>))
SeedMark(c) ==
  Lay(c, "seedMark", PutMark(c, Laying(c), LaidFrom(c).mark), NextFolder(c, "seed"))

MergeRead(c) ==
  /\ Restoring(c, "read")
  /\ LET f == Laying(c)
         over == LaidOver(MarkOf(c, f), RowsOf(c, f), LaidFrom(c))
     IN IF over = NotNewer THEN NextFolder(c, "read")
        ELSE RestoreGoto(c, "zero", [over |-> over, local |-> DOMAIN RowsOf(c, f),
                                     was |-> MarkOf(c, f)])
  /\ UNCHANGED <<cache, calm>> /\ OnlyRestoring

(* The mark claims nothing while the summaries change under it.                 *)
MergeZero(c) ==
  Lay(c, "zero",
      IF restoring[c].was = NoMark THEN UNCHANGED cache
      ELSE PutMark(c, Laying(c), [restoring[c].was EXCEPT !.last = 0, !.complete = FALSE]),
      RestoreGoto(c, "delete", <<>>))
MergeDelete(c) ==
  Lay(c, "delete",
      DeleteRows(c, Laying(c), restoring[c].local \ restoring[c].over.staying),
      RestoreGoto(c, "put", <<>>))
MergePut(c) ==
  Lay(c, "put", PutRows(c, Laying(c), LaidFrom(c).rows), RestoreGoto(c, "mark", <<>>))
MergeMark(c) ==
  Lay(c, "mark", PutMark(c, Laying(c), restoring[c].over.mark), NextFolder(c, "read"))

RestoreDigest(c) ==
  Lay(c, "digest", PutDigest(c, restoring[c].from), RestoreEnds(c))

SnapshotStep(c) ==
  \/ SaveMarks(c) \/ SaveRows(c) \/ SaveAgain(c) \/ SaveSwap(c) \/ SaveDigest(c)
  \/ RestoreLook(c) \/ RestoreLoad(c) \/ SeedRows(c) \/ SeedMark(c) \/ MergeRead(c)
  \/ MergeZero(c) \/ MergeDelete(c) \/ MergePut(c) \/ MergeMark(c) \/ RestoreDigest(c)
================================================================================
