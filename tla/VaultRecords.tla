---------------------------- MODULE VaultRecords ----------------------------
(***************************************************************************)
(* One encrypted record of a vault: the row the worker keeps, the clients  *)
(* that read and write it through vault/record-store.ts, and the high-     *)
(* water marks by which a device refuses a row older than one it has seen. *)
(*                                                                         *)
(* The tabs of a device share its marks and nothing else.  A revision is   *)
(* chosen by the writer, sealed in the ciphertext and restated in the      *)
(* clear; the worker only compares it.                                     *)
(***************************************************************************)
EXTENDS Naturals, FiniteSets

CONSTANTS
  Tabs,       \* the clients: a tab, a CLI run
  DeviceOf,   \* the device whose marks a tab shares
  Types,      \* the record types this instance considers
  Contents,   \* what writes can put in the record, one per write
  None,       \* no write in hand, no content
  MaxFaults   \* bound: lost answers, dead tabs and restored databases, together

\* How the apps write each type: under a precondition, or last write wins.
KindsOf == [draft    |-> {"replace", "removeIf"},
            consents |-> {"create", "replace"},
            address  |-> {"blind", "remove"}]

ASSUME ConstantsAssumption ==
  /\ DOMAIN DeviceOf = Tabs
  /\ Types \subseteq DOMAIN KindsOf
  /\ None \notin Contents
  /\ IsFiniteSet(Contents) /\ Contents # {}
  /\ MaxFaults \in Nat

Devices == {DeviceOf[t] : t \in Tabs}

\* What a client opens or seals: revision 0 is the answer that there is no row.
Rows  == [rev : Nat, val : Contents \cup {None}]
NoRow == [rev |-> 0, val |-> None]

Preconditions == {"create", "replace", "blind"}

\* A PUT on its way: the row to write, its precondition, and the row the
\* caller had read.
Puts == [kind : Preconditions, row : Rows, over : Rows]

\* Where a client's operation stands.  get: answered (the envelope is
\* here), checked (the mark did not refuse it).  put: sent, stored (the worker said
\* yes).
Pcs == {"idle", "answered", "checked", "sent", "stored"}

VARIABLES
  type,        \* the type of the record
  row,         \* the worker's row
  past,        \* every row it ever held
  mark,        \* each device's high-water mark for the record, 0 if none
  task,        \* each tab's operation
  handle,      \* the row a tab has read and not yet used, or None
  wire,        \* PUTs whose client is gone
  written,     \* contents already used
  faults,      \* faults so far
  rolledBack,  \* history: the worker's database was restored
  seen         \* history: the newest revision each device read or had confirmed

vars == <<type, row, past, mark, task, handle, wire, written, faults,
          rolledBack, seen>>

Idle == [pc |-> "idle", put |-> None, got |-> NoRow, floor |-> 0]

Maximum(a, b) == IF a > b THEN a ELSE b

MarkOf(t) == mark[DeviceOf[t]]
May(kind) == kind \in KindsOf[type]
Fault     == faults < MaxFaults /\ faults' = faults + 1

\* Addresses and trusted senders are written without looking at what was read.
Keep(t, r) == handle' = IF type = "address" THEN handle ELSE [handle EXCEPT ![t] = r]

Goto(t, pc) == task' = [task EXCEPT ![t].pc = pc]
Stop(t)     == task' = [task EXCEPT ![t] = Idle]

\* Mutant: a raise stores what it was given.
MutRaise(t, rev) == mark' = [mark EXCEPT ![DeviceOf[t]] = rev]

\* raiseTo keeps the higher of the two, in one transaction.
RaiseTo(t, rev) == mark' = [mark EXCEPT ![DeviceOf[t]] = Maximum(@, rev)]

See(t, rev) == seen' = [seen EXCEPT ![DeviceOf[t]] = Maximum(@, rev)]

-----------------------------------------------------------------------------
(* get, and one row of list. *)

\* The worker answers with the row, or that there is none.
Ask(t) ==
  /\ task[t].pc = "idle"
  /\ IF row = NoRow
     THEN Keep(t, NoRow) /\ UNCHANGED task
     ELSE /\ task' = [task EXCEPT ![t] = [Idle EXCEPT
                !.pc = "answered", !.got = row, !.floor = seen[DeviceOf[t]]]]
          /\ UNCHANGED handle
  /\ UNCHANGED <<type, row, past, mark, wire, written, faults, rolledBack, seen>>

\* refuseBehindMark: a revision below the mark throws, and nothing was read.
Check(t) ==
  /\ task[t].pc = "answered"
  /\ IF task[t].got.rev < MarkOf(t) THEN Stop(t) ELSE Goto(t, "checked")
  /\ UNCHANGED <<type, row, past, mark, handle, wire, written, faults, rolledBack, seen>>

\* The mark is raised, and the caller has the record.
Open(t) ==
  /\ task[t].pc = "checked"
  /\ RaiseTo(t, task[t].got.rev)
  /\ See(t, task[t].got.rev)
  /\ Keep(t, task[t].got)
  /\ Stop(t)
  /\ UNCHANGED <<type, row, past, wire, written, faults, rolledBack>>

-----------------------------------------------------------------------------
(* put. *)

\* A compare-and-swap counts from the row it replaces, any other write from
\* this device's mark.
BaseOf(t, kind) == IF kind = "replace" THEN handle[t].rev ELSE MarkOf(t)

\* A create follows a read that found nothing, a replace one that found a row.
Reads(t, kind) ==
  CASE kind = "create"  -> handle[t] = NoRow
    [] kind = "replace" -> handle[t] # None /\ handle[t] # NoRow
    [] kind = "blind"   -> TRUE

\* Mutant: the mark is raised by the seal, before the store has answered.
MutSealed(t, rev) == RaiseTo(t, rev)

\* Sealing raises nothing: it may never reach the store.
Sealed(t, rev) == UNCHANGED mark

\* The revision is chosen and the record sealed, unless that is behind the
\* mark.  (The mark is read twice; a sibling's raise in between only makes the
\* seal throw.)
Send(t, kind) ==
  /\ task[t].pc = "idle"
  /\ kind \in Preconditions /\ May(kind)
  /\ Reads(t, kind)
  /\ BaseOf(t, kind) + 1 >= MarkOf(t)
  /\ \E v \in Contents \ written :
       /\ written' = written \cup {v}
       /\ task' = [task EXCEPT ![t] =
            [Idle EXCEPT !.pc = "sent",
                         !.put = [kind |-> kind,
                                  row |-> [rev |-> BaseOf(t, kind) + 1, val |-> v],
                                  over |-> IF kind = "blind" THEN NoRow ELSE handle[t]]]]
  /\ Sealed(t, BaseOf(t, kind) + 1)
  /\ handle' = [handle EXCEPT ![t] = None]
  /\ UNCHANGED <<type, row, past, wire, faults, rolledBack, seen>>

\* Mutant: an update that does not compare the revision.
MutAccepts(p) ==
  CASE p.kind = "create"  -> row = NoRow
    [] p.kind = "replace" -> row # NoRow
    [] p.kind = "blind"   -> TRUE

\* The worker's one statement.
Accepts(p) ==
  CASE p.kind = "create"  -> row = NoRow
    [] p.kind = "replace" -> row.rev = p.over.rev
    [] p.kind = "blind"   -> TRUE

Write(p) == row' = p.row /\ past' = past \cup {p.row}

\* The PUT is answered; or its answer is lost, or its tab dies, and it lands
\* now, later or never.
Store(t) ==
  /\ task[t].pc = "sent"
  /\ LET p == task[t].put
     IN \/ /\ Accepts(p) /\ Write(p)
           /\ \/ Goto(t, "stored") /\ UNCHANGED faults
              \/ Fault /\ Stop(t)
           /\ UNCHANGED wire
        \/ ~Accepts(p) /\ Stop(t) /\ UNCHANGED <<row, past, wire, faults>>
        \/ /\ Fault /\ Stop(t)
           /\ \/ wire' = wire \cup {p}
              \/ UNCHANGED wire
           /\ UNCHANGED <<row, past>>
  /\ UNCHANGED <<type, mark, handle, written, rolledBack, seen>>

\* Only on the store's yes is the mark raised.
Confirm(t) ==
  /\ task[t].pc = "stored"
  /\ RaiseTo(t, task[t].put.row.rev)
  /\ See(t, task[t].put.row.rev)
  /\ Stop(t)
  /\ UNCHANGED <<type, row, past, handle, wire, written, faults, rolledBack>>

\* Mutant: the row stays, without its revision.
MutRemove(t) ==
  /\ task[t].pc = "idle" /\ row # NoRow
  /\ May("remove") \/ May("removeIf")
  /\ row' = [row EXCEPT !.rev = None]
  /\ UNCHANGED <<type, past, mark, task, handle, wire, written, faults, rolledBack, seen>>

\* remove, with and without ifRevision.  The mark stays.
Remove(t) ==
  /\ task[t].pc = "idle"
  /\ \/ May("remove") /\ UNCHANGED handle
     \/ /\ May("removeIf")
        /\ handle[t] # None /\ handle[t].rev = row.rev
        /\ handle' = [handle EXCEPT ![t] = None]
  /\ row # NoRow
  /\ row' = NoRow
  /\ UNCHANGED <<type, past, mark, task, wire, written, faults, rolledBack, seen>>

-----------------------------------------------------------------------------

\* A PUT nobody waits for any more reaches the worker.
LateStore ==
  \E p \in wire :
    /\ wire' = wire \ {p}
    /\ IF Accepts(p) THEN Write(p) ELSE UNCHANGED <<row, past>>
    /\ UNCHANGED <<type, mark, task, handle, written, faults, rolledBack, seen>>

\* A tab closes between a yes and the mark, or anywhere else.
Die(t) ==
  /\ task[t].pc \in {"answered", "checked", "stored"}
  /\ Fault
  /\ Stop(t)
  /\ handle' = [handle EXCEPT ![t] = None]
  /\ UNCHANGED <<type, row, past, mark, wire, written, rolledBack, seen>>

\* The worker's database goes back to an earlier state.
Restore ==
  /\ Fault
  /\ row' \in past \ {row}
  /\ rolledBack' = TRUE
  /\ UNCHANGED <<type, past, mark, task, handle, wire, written, seen>>

\* A draft's row is put by the tab that made its random key; the other types
\* start with none.
Init ==
  /\ type \in Types
  /\ IF type = "draft"
     THEN \E v \in Contents : row = [rev |-> 1, val |-> v] /\ written = {v}
     ELSE row = NoRow /\ written = {}
  /\ past = {NoRow, row}
  /\ mark = [d \in Devices |-> 0]
  /\ task = [t \in Tabs |-> Idle]
  /\ handle = [t \in Tabs |-> None]
  /\ wire = {}
  /\ faults = 0
  /\ rolledBack = FALSE
  /\ seen = mark

Read(t)   == Ask(t) \/ Check(t) \/ Open(t)
Change(t) == \/ \E kind \in Preconditions : Send(t, kind)
             \/ Store(t) \/ Confirm(t) \/ Remove(t)

Next ==
  \/ \E t \in Tabs : Read(t) \/ Change(t) \/ Die(t)
  \/ LateStore \/ Restore

Spec == Init /\ [][Next]_vars

-----------------------------------------------------------------------------
(***************************************************************************)
(* Rows, marks and operations have the shape the store gives them.         *)
(***************************************************************************)
TypeOK ==
  /\ type \in Types
  /\ row \in Rows
  /\ past \subseteq Rows
  /\ mark \in [Devices -> Nat]
  /\ task \in [Tabs -> [pc : Pcs, put : Puts \cup {None}, got : Rows, floor : Nat]]
  /\ handle \in [Tabs -> Rows \cup {None}]
  /\ wire \subseteq Puts
  /\ written \subseteq Contents
  /\ faults \in Nat
  /\ rolledBack \in BOOLEAN
  /\ seen \in [Devices -> Nat]

Readable == row # NoRow => \A d \in Devices : row.rev >= mark[d]

(***************************************************************************)
(* No lockout: while the worker's database is not rolled back, no device   *)
(* refuses a record written by compare-and-swap, whatever failed, died or  *)
(* landed late on the way.                                                 *)
(***************************************************************************)
CasStaysReadable == ~rolledBack /\ type # "address" => Readable

(***************************************************************************)
(* A read never goes back: it gives nothing older than what any tab of the *)
(* device had read or had confirmed when the worker answered, even from a       *)
(* database that was restored.                                             *)
(***************************************************************************)
FreshReads == \A t \in Tabs : task[t].pc = "checked" => task[t].got.rev >= task[t].floor

\* The writes that may still replace the row.
Pending == {task[t].put : t \in {u \in Tabs : task[u].pc = "sent"}} \cup wire

(***************************************************************************)
(* No lost update: a compare-and-swap that would land now replaces exactly *)
(* what its caller read.  A revision names one content, though each device *)
(* picks its own.                                                          *)
(***************************************************************************)
ReplacesWhatWasRead ==
  ~rolledBack =>
    \A p \in Pending : p.kind = "replace" /\ Accepts(p) => p.over = row

(***************************************************************************)
(* "Omitting the precondition altogether is last-write-wins": the last     *)
(* write is the one the other devices then read.                           *)
(***************************************************************************)
LastWriteIsRead == ~rolledBack => Readable

=============================================================================
