---------------------------- MODULE FileObjects ----------------------------
(***************************************************************************)
(* The Worker's store of one account's files: a row in the database that   *)
(* counts a file's bytes against the quota, and the object in the bucket   *)
(* that holds them.  An upload reserves the row, puts the object and reads *)
(* the row again; a removal deletes the object, the row and the object; a  *)
(* reset sweeps the bucket page by page, deletes every row, answers, and   *)
(* sweeps again.  Each of those steps is one call that another request's   *)
(* may come between, and that may fail.                                    *)
(*                                                                         *)
(* A file is its size: 0 is no row, no object.                             *)
(***************************************************************************)
EXTENDS Naturals, FiniteSetsExt

CONSTANTS
  MaxId,     \* file ids, in the order the bucket lists them, are 1..MaxId
  Sizes,     \* the sizes an upload may have
  Cap,       \* MAX_STORED_BYTES_PER_USER
  Uploads,   \* upload requests
  Removals,  \* delete requests
  Resets,    \* vault resets, and an account deletion's sweeps
  Plans,     \* which requests a behaviour makes, and whether ids are used again
  PageSize,  \* bound: the keys one page of the bucket's listing holds
  MaxFaults  \* bound: calls to the database or the bucket that fail

ASSUME FileAssumption ==
  /\ MaxId \in Nat \ {0} /\ Sizes \subseteq Nat \ {0} /\ Cap \in Nat
  /\ PageSize \in Nat \ {0} /\ MaxFaults \in Nat
  /\ Plans \subseteq [uploads : SUBSET Uploads, removals : SUBSET Removals,
                      resets : SUBSET Resets, reuses : BOOLEAN]

Ids == 1..MaxId
End == MaxId + 1

Bytes == Sizes \cup {0}

UploadPcs  == {"idle", "put", "check", "stored", "failed"} \cup {"object", "row", "again"}
RemovalPcs == {"idle", "object", "row", "again", "removed", "failed"}
ResetPcs   == {"idle", "sweep", "batch", "late", "done", "failed"}

VARIABLES
  plan,
  row,      \* vault_file: the size each row counts
  object,   \* the bucket: the size of each object
  upload,   \* each upload's pc, file and size
  removal,  \* each removal's pc and file
  reset,    \* each reset's pc, the page it read and the last key it listed
  faults,   \* calls that failed so far
  answered, \* history: the files whose upload answered yes and which no one removed since
  torn      \* history: files that a removal, a fault, a late sweep or a reused id may have torn

objectVars == <<plan, row, object, upload, removal, reset, faults, answered, torn>>

Max0(S) == IF S = {} THEN 0 ELSE Max(S)

\* The bytes the rows count, each by its place in its file.
CountedBytes == UNION {{f} \X (1..row[f]) : f \in Ids}

UsedBytes == Cardinality(CountedBytes)

UploadTo(u, r) == upload' = [upload EXCEPT ![u] = r]
RemovalTo(d, r) == removal' = [removal EXCEPT ![d] = r]

\* A call that throws, once more.
Fault == faults < MaxFaults /\ faults' = faults + 1

-----------------------------------------------------------------------------
(* PUT /:fileId. *)

\* Mutant: the sum is read before the insert's own size is known.
MutFits(size) == UsedBytes < Cap

Fits(size) == UsedBytes + size <= Cap

\* Mutant: a second upload of an id is added to the first.
MutInsert(f, size) == row' = [row EXCEPT ![f] = @ + size]

Insert(f, size) == row[f] = 0 /\ row' = [row EXCEPT ![f] = size]

\* An id no row holds.  Clients mint a new one for every upload, and for a retry.
reserveFile(u) ==
  /\ u \in plan.uploads /\ upload[u].pc = "idle"
  /\ \E f \in Ids, size \in Sizes :
       /\ Fits(size) /\ Insert(f, size)
       /\ plan.reuses \/ \A v \in Uploads : upload[v].file # f
       /\ torn' = IF \E v \in Uploads : upload[v].file = f THEN torn \cup {f} ELSE torn
       /\ UploadTo(u, [pc |-> "put", file |-> f, size |-> size])
  /\ UNCHANGED <<plan, object, removal, reset, faults, answered>>

\* The bytes land, or the connection drops part way, or a put that landed is
\* reported as a failure.
Put(u) ==
  /\ upload[u].pc = "put"
  /\ LET f == upload[u].file
         stored == [object EXCEPT ![f] = upload[u].size] IN
     \/ object' = stored /\ UploadTo(u, [upload[u] EXCEPT !.pc = "check"]) /\ UNCHANGED faults
     \/ object' \in {object, stored} /\ UploadTo(u, [upload[u] EXCEPT !.pc = "object"]) /\ Fault
  /\ UNCHANGED <<plan, row, removal, reset, answered, torn>>

\* Mutant: the row is not read again after the put.
MutRowStands(f, size) == TRUE

RowStands(f, size) == row[f] = size

\* The row is read again after the put, its size too.
Check(u) ==
  /\ upload[u].pc = "check"
  /\ LET f == upload[u].file IN
     IF RowStands(f, upload[u].size)
     THEN /\ UploadTo(u, [upload[u] EXCEPT !.pc = "stored"])
          /\ answered' = IF \E x \in Resets : reset[x].pc = "sweep" THEN answered ELSE answered \cup {f}
     ELSE /\ UploadTo(u, [upload[u] EXCEPT !.pc = "object"])
          /\ UNCHANGED answered
  /\ UNCHANGED <<plan, row, object, removal, reset, faults, torn>>

-----------------------------------------------------------------------------
(* removeFile: of a DELETE, and of an upload that threw. *)

\* Mutant: the object is not deleted again once the row is gone.
MutAfterRow == "removed"

AfterRow == "again"

\* The object, the row, and the object again; a failure leaves what is left.
RemoveStep(f, pc, to(_), done) ==
  \/ /\ pc = "object" /\ object' = [object EXCEPT ![f] = 0] /\ to("row")
     /\ answered' = answered \ {f}
     /\ UNCHANGED <<row, faults, torn>>
  \/ /\ pc = "row" /\ row' = [row EXCEPT ![f] = 0]
     /\ to(IF AfterRow = "again" THEN "again" ELSE done)
     /\ UNCHANGED <<object, faults, torn, answered>>
  \/ /\ pc = "again" /\ object' = [object EXCEPT ![f] = 0] /\ to(done)
     /\ UNCHANGED <<row, faults, torn, answered>>
  \/ /\ pc \in {"object", "row", "again"} /\ Fault /\ to("failed")
     /\ torn' = torn \cup {f} /\ answered' = answered \ {f}
     /\ UNCHANGED <<row, object>>

CleanUp(u) ==
  /\ LET to(pc) == UploadTo(u, [upload[u] EXCEPT !.pc = pc]) IN
     RemoveStep(upload[u].file, upload[u].pc, to, "failed")
  /\ UNCHANGED <<plan, removal, reset>>

\* DELETE /:fileId, whatever the id.
AskRemoval(d) ==
  /\ d \in plan.removals /\ removal[d].pc = "idle"
  /\ \E f \in Ids : /\ RemovalTo(d, [pc |-> "object", file |-> f])
                      /\ answered' = answered \ {f}
                      /\ torn' = torn \cup {f}
  /\ UNCHANGED <<plan, row, object, upload, reset, faults>>

Remove(d) ==
  /\ LET to(pc) == RemovalTo(d, [removal[d] EXCEPT !.pc = pc]) IN
     RemoveStep(removal[d].file, removal[d].pc, to, "removed")
  /\ UNCHANGED <<plan, upload, reset>>

-----------------------------------------------------------------------------
(* deleteAllFileObjects, before and after the batch of a reset. *)

ResetTo(x, r) == reset' = [reset EXCEPT ![x] = r]

StartReset(x) ==
  /\ x \in plan.resets /\ reset[x].pc = "idle"
  /\ ResetTo(x, [pc |-> "sweep", page |-> {}, cursor |-> 0])
  /\ answered' = {}
  /\ UNCHANGED <<plan, row, object, upload, removal, faults, torn>>

\* The keys past the cursor, and a page of them; it may be short, or empty with
\* more to come.
Keys(cursor) == {f \in Ids : object[f] # 0 /\ f > cursor}

\* Mutant: a short page ends the walk.
MutLastPage(page, cursor) == Cardinality(page) < PageSize

LastPage(page, cursor) == \A f \in Keys(cursor) : f <= Max0(page)

ListPage(x) ==
  /\ reset[x].pc \in {"sweep", "late"} /\ reset[x].page = {} /\ reset[x].cursor # End
  /\ \E k \in 1..PageSize :
       LET keys == Keys(reset[x].cursor)
           page == {f \in keys : Cardinality({g \in keys : g <= f}) <= k} IN
       ResetTo(x, [reset[x] EXCEPT
                     !.page = page,
                     !.cursor = IF LastPage(page, reset[x].cursor) THEN End ELSE Max(page)])
  /\ UNCHANGED <<plan, row, object, upload, removal, faults, answered, torn>>

\* A late sweep takes what a new vault's upload has stored with it.
DeletePage(x) ==
  /\ reset[x].page # {}
  /\ object' = [f \in Ids |-> IF f \in reset[x].page THEN 0 ELSE object[f]]
  /\ torn' = IF reset[x].pc = "late" THEN torn \cup (reset[x].page \cap {f \in Ids : row[f] # 0})
             ELSE torn
  /\ ResetTo(x, [reset[x] EXCEPT !.page = {}])
  /\ UNCHANGED <<plan, row, upload, removal, faults, answered>>

Swept(x) == reset[x].page = {} /\ reset[x].cursor = End

\* resetVault, deleteAccount: every row in one batch; then the answer, and the
\* second sweep.
Batch(x) ==
  /\ reset[x].pc = "sweep" /\ Swept(x)
  /\ row' = [f \in Ids |-> 0]
  /\ answered' = {}
  /\ ResetTo(x, [pc |-> "late", page |-> {}, cursor |-> 0])
  /\ UNCHANGED <<plan, object, upload, removal, faults, torn>>

SweepEnds(x) ==
  /\ reset[x].pc = "late" /\ Swept(x)
  /\ ResetTo(x, [reset[x] EXCEPT !.pc = "done"])
  /\ UNCHANGED <<plan, row, object, upload, removal, faults, answered, torn>>

\* A failed sweep before the batch leaves the account as it was; after it, objects
\* without rows.
ResetFails(x) ==
  /\ reset[x].pc \in {"sweep", "late"} /\ Fault
  /\ ResetTo(x, [reset[x] EXCEPT !.pc = "failed", !.page = {}])
  /\ torn' = torn \cup Ids
  /\ UNCHANGED <<plan, row, object, upload, removal, answered>>

-----------------------------------------------------------------------------

ObjectsInit ==
  /\ plan \in Plans
  /\ row = [f \in Ids |-> 0] /\ object = row
  /\ upload = [u \in Uploads |-> [pc |-> "idle", file |-> 0, size |-> 0]]
  /\ removal = [d \in Removals |-> [pc |-> "idle", file |-> 0]]
  /\ reset = [x \in Resets |-> [pc |-> "idle", page |-> {}, cursor |-> 0]]
  /\ faults = 0 /\ answered = {} /\ torn = {}

UploadStep(u) == reserveFile(u) \/ Put(u) \/ Check(u) \/ CleanUp(u)

Reset(x) == StartReset(x) \/ ListPage(x) \/ DeletePage(x) \/ Batch(x) \/ SweepEnds(x) \/ ResetFails(x)

ObjectsNext ==
  \/ \E u \in Uploads : UploadStep(u)
  \/ \E d \in Removals : AskRemoval(d) \/ Remove(d)
  \/ \E x \in Resets : Reset(x)

ObjectsSpec == ObjectsInit /\ [][ObjectsNext]_objectVars

-----------------------------------------------------------------------------
(***************************************************************************)
(* Rows, objects and requests have the shape the code gives them.          *)
(***************************************************************************)
ObjectsTypeOK ==
  /\ plan \in Plans
  /\ row \in [Ids -> Bytes] /\ object \in [Ids -> Bytes]
  /\ upload \in [Uploads -> [pc : UploadPcs, file : Ids \cup {0}, size : Bytes]]
  /\ removal \in [Removals -> [pc : RemovalPcs, file : Ids \cup {0}]]
  /\ reset \in [Resets -> [pc : ResetPcs, page : SUBSET Ids, cursor : 0..(End)]]
  /\ faults \in 0..MaxFaults /\ answered \subseteq Ids /\ torn \subseteq Ids

\* No request is under way.
Quiet ==
  /\ \A u \in Uploads : upload[u].pc \in {"idle", "stored", "failed"}
  /\ \A d \in Removals : removal[d].pc \in {"idle", "removed", "failed"}
  /\ \A x \in Resets : reset[x].pc \in {"idle", "done", "failed"}

(***************************************************************************)
(* What an account's rows count never passes the quota, however many       *)
(* uploads ask for the last of the room at once.                           *)
(***************************************************************************)
WithinQuota == UsedBytes <= Cap

(***************************************************************************)
(* No bytes that no quota counts: once every request has ended, an object  *)
(* is as large as the row that counts it, though uploads, removals of the  *)
(* same id and resets came between each other's steps.  The exception is a *)
(* call to the bucket or the database that failed.                         *)
(***************************************************************************)
EveryObjectIsCounted ==
  Quiet /\ faults = 0 => \A f \in Ids : object[f] # 0 => row[f] = object[f]

(***************************************************************************)
(* The count an account is held to is the true one: within the quota, and  *)
(* of every byte the bucket keeps for it.                                  *)
(***************************************************************************)
BytesAreCounted == WithinQuota /\ EveryObjectIsCounted

(***************************************************************************)
(* An upload that answered yes is there until someone removes it: its row  *)
(* and all its bytes.  The exceptions: an id used twice, a failed call, and *)
(* the sweep that follows a reset's answer, which takes a new vault's files *)
(* too.                                                                     *)
(***************************************************************************)
AnsweredFilesStand ==
  \A f \in answered \ torn : row[f] # 0 /\ object[f] = row[f]

=============================================================================
