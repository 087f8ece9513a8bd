---------------------------- MODULE VaultProofs ----------------------------
(***************************************************************************)
(* The invariants of VaultRecords, for any tabs, devices, contents and     *)
(* faults, and of UnlockModes, for any tabs, passkeys, CLI keys and        *)
(* requests.                                                               *)
(***************************************************************************)
EXTENDS VaultRecords, UnlockModes, FiniteSetTheorems, TLAPS

\* A write on its way was allowed, and counts from a row that once stood.
PutOK(p) ==
  /\ p \in Puts
  /\ May(p.kind)
  /\ p.over \in past
  /\ p.row.rev > 0
  /\ p.kind = "replace" => p.over # NoRow /\ p.row.rev = p.over.rev + 1

\* What is read or confirmed was once the row; what is being read was checked
\* against a mark that every earlier read had raised.
TaskOK(t) ==
  /\ task[t].got \in past
  /\ task[t].pc \in {"sent", "stored"} => PutOK(task[t].put)
  /\ task[t].pc = "stored" => task[t].put.row \in past
  /\ task[t].pc = "answered" => task[t].floor <= MarkOf(t)
  /\ task[t].pc = "checked" => task[t].floor <= task[t].got.rev

PastOK    == row \in past /\ NoRow \in past /\ \A r \in past : r.rev = 0 => r = NoRow
TasksOK   == \A t \in Tabs : TaskOK(t)
HandlesOK == \A t \in Tabs : handle[t] \in past \cup {None}
WireOK    == \A p \in wire : PutOK(p)
SeenOK    == \A d \in Devices : seen[d] <= mark[d]

\* A deleted draft stays deleted.
Gone == type = "draft" /\ row = NoRow

\* Under compare-and-swap the row is the newest there was, and revisions
\* name rows.
Newest == \/ Gone
          \/ /\ \A d \in Devices : mark[d] <= row.rev
             /\ \A r \in past : r.rev <= row.rev

Unique == \A r, s \in past : r.rev = s.rev => r = s

CasOK == ~rolledBack /\ type # "address" => Newest /\ Unique

IInv == TypeOK /\ PastOK /\ TasksOK /\ HandlesOK /\ WireOK /\ SeenOK /\ CasOK

-----------------------------------------------------------------------------
(* Helpers. *)

\* The higher of two naturals.
LEMMA MaximumBounds ==
  ASSUME NEW a \in Nat, NEW b \in Nat
  PROVE  /\ Maximum(a, b) \in Nat
         /\ a <= Maximum(a, b) /\ b <= Maximum(a, b)
         /\ Maximum(a, b) = a \/ Maximum(a, b) = b
  BY DEF Maximum

\* A tab's device is a device.
LEMMA DeviceOfTab == \A t \in Tabs : DeviceOf[t] \in Devices
  BY DEF Devices

\* A raise gives every device a number no lower than its mark, and its own
\* device the higher of the mark and the revision.
LEMMA Raised ==
  ASSUME NEW f, f \in [Devices -> Nat], NEW e \in Devices, NEW rev \in Nat,
         NEW g, g = [f EXCEPT ![e] = Maximum(@, rev)]
  PROVE  /\ g \in [Devices -> Nat]
         /\ \A d \in Devices : f[d] <= g[d]
         /\ rev <= g[e]
         /\ \A d \in Devices : d # e => g[d] = f[d]
         /\ g[e] = f[e] \/ g[e] = rev
<1>1. f[e] \in Nat /\ g[e] = Maximum(f[e], rev)
  OBVIOUS
<1>2. \A d \in Devices : d # e => g[d] = f[d]
  OBVIOUS
<1>3. /\ Maximum(f[e], rev) \in Nat
      /\ f[e] <= Maximum(f[e], rev) /\ rev <= Maximum(f[e], rev)
      /\ Maximum(f[e], rev) = f[e] \/ Maximum(f[e], rev) = rev
  BY <1>1, MaximumBounds
<1>4. g \in [Devices -> Nat]
  BY <1>1, <1>3
<1>5. \A d \in Devices : f[d] <= g[d]
  <2>1. TAKE d \in Devices
  <2>2. CASE d = e
    BY <2>2, <1>1, <1>3
  <2>3. CASE d # e
    BY <2>3, <1>2
  <2>4. QED BY <2>2, <2>3
<1>6. QED BY <1>1, <1>2, <1>3, <1>4, <1>5

\* The shape of one task.
LEMMA TaskType ==
  ASSUME TypeOK, NEW t \in Tabs
  PROVE  /\ task[t].pc \in Pcs /\ task[t].got \in Rows /\ task[t].floor \in Nat
         /\ task[t].put \in Puts \cup {None}
         /\ task[t] \in [pc : Pcs, put : Puts \cup {None}, got : Rows, floor : Nat]
  BY DEF TypeOK

\* No row is a row; an idle task is a task.
LEMMA IdleType ==
  /\ NoRow \in Rows
  /\ Idle \in [pc : Pcs, put : Puts \cup {None}, got : Rows, floor : Nat]
  BY DEF NoRow, Rows, Idle, Pcs

\* A write stays legitimate as history grows.
LEMMA PutKept ==
  ASSUME NEW p, PutOK(p), type' = type, past \subseteq past'
  PROVE  PutOK(p)'
  BY DEF PutOK, May

\* A task that is not touched stays right as marks rise and history grows.
LEMMA TaskKept ==
  ASSUME IInv, NEW t \in Tabs, task'[t] = task[t], type' = type,
         past \subseteq past', mark' \in [Devices -> Nat],
         \A d \in Devices : mark[d] <= mark'[d]
  PROVE  TaskOK(t)'
<1>1. task[t].pc \in Pcs /\ task[t].floor \in Nat
  BY TaskType DEF IInv
<1>2. TaskOK(t)
  BY DEF IInv, TasksOK
<1>3. MarkOf(t) \in Nat /\ MarkOf(t)' \in Nat /\ MarkOf(t) <= MarkOf(t)'
  BY DeviceOfTab DEF IInv, TypeOK, MarkOf
<1>4. task[t].got \in past'
  BY <1>2 DEF TaskOK
<1>5. task[t].pc \in {"sent", "stored"} => PutOK(task[t].put)'
  BY <1>2, PutKept, <1>1 DEF TaskOK
<1>6. task[t].pc = "stored" => task[t].put.row \in past'
  BY <1>2 DEF TaskOK
<1>7. task[t].pc = "answered" => task[t].floor <= MarkOf(t)'
  BY <1>1, <1>2, <1>3 DEF TaskOK
<1>8. task[t].pc = "checked" => task[t].floor <= task[t].got.rev
  BY <1>2 DEF TaskOK
<1>9. QED BY <1>4, <1>5, <1>6, <1>7, <1>8 DEF TaskOK

\* An idle task asks for nothing.
LEMMA IdleOK ==
  ASSUME NEW t, task'[t] = Idle, NoRow \in past'
  PROVE  TaskOK(t)'
  BY DEF TaskOK, Idle

\* One tab's step leaves the other tabs' tasks right.
LEMMA TasksStep ==
  ASSUME IInv, NEW t \in Tabs, \A u \in Tabs \ {t} : task'[u] = task[u],
         TaskOK(t)', type' = type, past \subseteq past', mark' \in [Devices -> Nat],
         \A d \in Devices : mark[d] <= mark'[d]
  PROVE  TasksOK'
<1>1. ASSUME NEW u \in Tabs PROVE TaskOK(u)'
  <2>1. CASE u = t
    BY <2>1
  <2>2. CASE u # t
    BY <2>2, TaskKept
  <2>3. QED BY <2>1, <2>2
<1>2. QED BY <1>1 DEF TasksOK

\* The same of the handles.
LEMMA HandlesStep ==
  ASSUME IInv, NEW t \in Tabs, \A u \in Tabs \ {t} : handle'[u] = handle[u],
         handle'[t] \in past' \cup {None}, past \subseteq past'
  PROVE  HandlesOK'
  BY DEF IInv, HandlesOK

\* The row and its history are left alone, and marks rise to revisions that
\* were the row's.
LEMMA CasRaise ==
  ASSUME IInv, UNCHANGED <<type, row, past, rolledBack>>,
         \A d \in Devices : \/ mark'[d] = mark[d]
                            \/ \E r \in past : mark'[d] = r.rev
  PROVE  CasOK'
  BY DEF IInv, CasOK, Newest, Unique, Gone

\* A record of an accepted write is a row, new to history under compare-and-
\* swap.
LEMMA WriteStep ==
  ASSUME IInv, NEW p, PutOK(p), Accepts(p), Write(p), UNCHANGED <<type, mark, rolledBack>>
  PROVE  /\ row' \in Rows /\ past' \subseteq Rows
         /\ past \subseteq past' /\ p.row \in past'
         /\ PastOK' /\ CasOK'
<1>1. p \in Puts /\ p.row \in Rows /\ p.over \in Rows /\ p.kind \in Preconditions
      /\ p.row.rev \in Nat /\ p.over.rev \in Nat
  BY DEF PutOK, Puts, Rows
<1>2. row' = p.row /\ past' = past \cup {p.row}
  BY DEF Write
<1>3. row \in Rows /\ past \subseteq Rows /\ row.rev \in Nat /\ type \in Types
  BY DEF IInv, TypeOK, Rows
<1>4. PastOK'
  BY <1>1, <1>2 DEF IInv, PastOK, PutOK
<1>5. CasOK'
  <2> SUFFICES ASSUME ~rolledBack', type' # "address" PROVE Newest' /\ Unique'
    BY DEF CasOK
  <2>1. Newest /\ Unique
    BY DEF IInv, CasOK
  <2>2. type \in {"draft", "consents"}
    BY <1>3, ConstantsAssumption DEF KindsOf
  <2>3. p.kind \in {"create", "replace"} /\ (p.kind = "create" => type = "consents")
    BY <1>1, <2>2 DEF PutOK, May, KindsOf, Preconditions
  <2>4. ~Gone /\ p.row.rev > row.rev
    <3>1. CASE p.kind = "create"
      <4>1. row = NoRow /\ type = "consents"
        BY <3>1, <2>3 DEF Accepts
      <4>2. QED BY <4>1, <1>1 DEF Gone, NoRow, PutOK
    <3>2. CASE p.kind = "replace"
      <4>1. row.rev = p.over.rev /\ p.row.rev = p.over.rev + 1 /\ p.over # NoRow
        BY <3>2 DEF Accepts, PutOK
      <4>2. p.over.rev # 0
        BY <4>1 DEF IInv, PastOK, PutOK
      <4>3. row # NoRow
        BY <4>1, <4>2 DEF NoRow
      <4>4. QED BY <4>1, <4>3, <1>1, <1>3 DEF Gone
    <3>3. QED BY <3>1, <3>2, <2>3
  <2>5. /\ \A d \in Devices : mark[d] <= row.rev
        /\ \A r \in past : r.rev <= row.rev
    BY <2>1, <2>4 DEF Newest
  <2>6. /\ \A d \in Devices : mark[d] \in Nat
        /\ \A r \in past : r.rev \in Nat
    BY <1>3 DEF IInv, TypeOK, Rows
  <2>7. /\ \A d \in Devices : mark'[d] <= row'.rev
        /\ \A r \in past : r.rev < row'.rev
    BY <1>1, <1>2, <1>3, <2>4, <2>5, <2>6
  <2>8. Newest'
    BY <1>1, <1>2, <2>6, <2>7 DEF Newest
  <2>9. Unique'
    BY <1>1, <1>2, <2>1, <2>6, <2>7 DEF Unique
  <2>10. QED BY <2>8, <2>9
<1>6. QED BY <1>1, <1>2, <1>3, <1>4, <1>5

-----------------------------------------------------------------------------
(* Each step keeps the invariant. *)

\* The worker's answer is a row of history, and what the device has seen by
\* then is at most its mark.
LEMMA AskStep == ASSUME IInv, NEW t \in Tabs, Ask(t) PROVE IInv'
<1>0. UNCHANGED <<type, row, past, mark, wire, written, faults, rolledBack, seen>>
  BY DEF Ask
<1>1. /\ row \in Rows /\ row \in past /\ NoRow \in past
      /\ mark \in [Devices -> Nat] /\ seen \in [Devices -> Nat]
      /\ \A d \in Devices : mark[d] <= mark[d]
  BY DEF IInv, TypeOK, PastOK
<1>2. /\ DeviceOf[t] \in Devices /\ seen[DeviceOf[t]] \in Nat
      /\ seen[DeviceOf[t]] <= MarkOf(t)
  BY <1>1, DeviceOfTab DEF IInv, SeenOK, MarkOf
<1>3. CASE row = NoRow
  <2>1. Keep(t, NoRow) /\ UNCHANGED task
    BY <1>3 DEF Ask
  <2>2. TypeOK'
    BY <1>0, <2>1, IdleType DEF IInv, TypeOK, Keep
  <2>3. TaskOK(t)'
    BY <1>0, <1>1, <2>1, TaskKept
  <2>4. TasksOK'
    BY <1>0, <1>1, <2>1, <2>3, TasksStep
  <2>5. HandlesOK'
    BY <1>0, <1>1, <2>1 DEF IInv, TypeOK, HandlesOK, Keep
  <2>6. QED BY <1>0, <2>2, <2>4, <2>5 DEF IInv, PastOK, WireOK, PutOK, May, SeenOK, CasOK, Newest, Unique, Gone
<1>4. CASE row # NoRow
  <2>1. /\ task' = [task EXCEPT ![t] = [Idle EXCEPT
                !.pc = "answered", !.got = row, !.floor = seen[DeviceOf[t]]]]
        /\ UNCHANGED handle
    BY <1>4 DEF Ask
  <2>2. task'[t] = [pc |-> "answered", put |-> None, got |-> row, floor |-> seen[DeviceOf[t]]]
    BY <2>1 DEF IInv, TypeOK, Idle
  <2>3. \A u \in Tabs \ {t} : task'[u] = task[u]
    BY <2>1
  <2>4. task' \in [Tabs -> [pc : Pcs, put : Puts \cup {None}, got : Rows, floor : Nat]]
    <3>1. task'[t] \in [pc : Pcs, put : Puts \cup {None}, got : Rows, floor : Nat]
      BY <1>1, <1>2, <2>2 DEF Pcs
    <3>2. QED BY <2>1, <3>1 DEF IInv, TypeOK
  <2>5. TypeOK'
    BY <1>0, <2>1, <2>4 DEF IInv, TypeOK
  <2>6. TaskOK(t)'
    BY <1>0, <1>1, <1>2, <2>2 DEF TaskOK, MarkOf
  <2>7. TasksOK'
    BY <1>0, <1>1, <2>3, <2>6, TasksStep
  <2>8. QED BY <1>0, <2>1, <2>5, <2>7 DEF IInv, HandlesOK, PastOK, WireOK, PutOK, May, SeenOK, CasOK, Newest, Unique, Gone
<1>5. QED BY <1>3, <1>4

\* A revision that the mark does not refuse is no older than the floor.
LEMMA CheckStep == ASSUME IInv, NEW t \in Tabs, Check(t) PROVE IInv'
<1>0. UNCHANGED <<type, row, past, mark, handle, wire, written, faults, rolledBack, seen>>
  BY DEF Check
<1>1. /\ NoRow \in past /\ mark \in [Devices -> Nat]
      /\ \A d \in Devices : mark[d] <= mark[d]
      /\ DeviceOf[t] \in Devices /\ MarkOf(t) \in Nat
  BY DeviceOfTab DEF IInv, TypeOK, PastOK, MarkOf
<1>2. /\ task \in [Tabs -> [pc : Pcs, put : Puts \cup {None}, got : Rows, floor : Nat]]
      /\ task[t].got.rev \in Nat /\ task[t].floor \in Nat
  BY TaskType DEF IInv, TypeOK, Rows
<1>3. /\ \A u \in Tabs \ {t} : task'[u] = task[u]
      /\ task' \in [Tabs -> [pc : Pcs, put : Puts \cup {None}, got : Rows, floor : Nat]]
      /\ TaskOK(t)'
  <2>1. CASE task[t].got.rev < MarkOf(t)
    <3>1. task' = [task EXCEPT ![t] = Idle]
      BY <2>1 DEF Check, Stop
    <3>2. task'[t] = Idle
      BY <3>1, <1>2
    <3>3. QED BY <1>0, <1>1, <1>2, <3>1, <3>2, IdleOK, IdleType
  <2>2. CASE ~(task[t].got.rev < MarkOf(t))
    <3>1. task' = [task EXCEPT ![t].pc = "checked"] /\ task[t].pc = "answered"
      BY <2>2 DEF Check, Goto
    <3>2. task'[t] = [task[t] EXCEPT !.pc = "checked"]
      BY <3>1, <1>2
    <3>3. task'[t] \in [pc : Pcs, put : Puts \cup {None}, got : Rows, floor : Nat]
      BY <1>2, <3>2 DEF Pcs
    <3>4. TaskOK(t)
      BY DEF IInv, TasksOK
    <3>5. /\ task'[t].pc = "checked" /\ task'[t].got = task[t].got
          /\ task'[t].floor = task[t].floor
      BY <1>2, <3>2, TaskType DEF IInv
    <3>6. task[t].floor <= task[t].got.rev
      BY <1>1, <1>2, <2>2, <3>1, <3>4 DEF TaskOK
    <3>7. TaskOK(t)'
      BY <1>0, <3>4, <3>5, <3>6 DEF TaskOK
    <3>8. QED BY <1>2, <3>1, <3>3, <3>7
  <2>3. QED BY <2>1, <2>2
<1>4. TypeOK'
  BY <1>0, <1>3 DEF IInv, TypeOK
<1>5. TasksOK'
  BY <1>0, <1>1, <1>3, TasksStep
<1>6. QED BY <1>0, <1>4, <1>5 DEF IInv, HandlesOK, PastOK, WireOK, PutOK, May, SeenOK, CasOK, Newest, Unique, Gone

\* Opening raises the mark to a revision that was the row's.
LEMMA OpenStep == ASSUME IInv, NEW t \in Tabs, Open(t) PROVE IInv'
<1>0. UNCHANGED <<type, row, past, wire, written, faults, rolledBack>>
  BY DEF Open
<1> DEFINE rev == task[t].got.rev
<1>1. /\ NoRow \in past /\ DeviceOf[t] \in Devices
      /\ mark \in [Devices -> Nat] /\ seen \in [Devices -> Nat]
      /\ task[t].got \in past /\ task[t].got \in Rows /\ rev \in Nat
  BY DeviceOfTab, TaskType DEF IInv, TypeOK, PastOK, TasksOK, TaskOK, Rows
<1>2. /\ mark' = [mark EXCEPT ![DeviceOf[t]] = Maximum(@, rev)]
      /\ seen' = [seen EXCEPT ![DeviceOf[t]] = Maximum(@, rev)]
      /\ task' = [task EXCEPT ![t] = Idle]
      /\ Keep(t, task[t].got)
  BY DEF Open, RaiseTo, See, Stop
<1> HIDE DEF rev
<1>3. /\ mark' \in [Devices -> Nat] /\ \A d \in Devices : mark[d] <= mark'[d]
      /\ \A d \in Devices : d # DeviceOf[t] => mark'[d] = mark[d]
      /\ mark'[DeviceOf[t]] = mark[DeviceOf[t]] \/ mark'[DeviceOf[t]] = rev
      /\ rev <= mark'[DeviceOf[t]]
  <2>1. mark \in [Devices -> Nat] /\ DeviceOf[t] \in Devices /\ rev \in Nat
    BY <1>1
  <2>2. mark' = [mark EXCEPT ![DeviceOf[t]] = Maximum(@, rev)]
    BY <1>2
  <2>3. QED BY <2>1, <2>2, Raised
<1>4. /\ seen' \in [Devices -> Nat]
      /\ \A d \in Devices : d # DeviceOf[t] => seen'[d] = seen[d]
      /\ seen'[DeviceOf[t]] = seen[DeviceOf[t]] \/ seen'[DeviceOf[t]] = rev
  BY <1>1, <1>2, Raised
<1>5. SeenOK'
  <2> SUFFICES ASSUME NEW d \in Devices PROVE seen'[d] <= mark'[d]
    BY DEF SeenOK
  <2>1. seen[d] <= mark[d] /\ mark[d] <= mark'[d]
        /\ seen[d] \in Nat /\ mark[d] \in Nat /\ mark'[d] \in Nat
    BY <1>1, <1>3 DEF IInv, SeenOK
  <2>2. CASE seen'[d] = seen[d]
    BY <2>1, <2>2
  <2>3. CASE d = DeviceOf[t] /\ seen'[d] = rev
    BY <1>3, <2>3
  <2>4. QED BY <1>4, <2>2, <2>3
<1>6. TypeOK'
  <2>1. handle' \in [Tabs -> Rows \cup {None}]
    BY <1>1, <1>2 DEF IInv, TypeOK, Keep
  <2>2. task' \in [Tabs -> [pc : Pcs, put : Puts \cup {None}, got : Rows, floor : Nat]]
    BY <1>2, IdleType DEF IInv, TypeOK
  <2>3. QED BY <1>0, <1>3, <1>4, <2>1, <2>2 DEF IInv, TypeOK
<1>7. task'[t] = Idle
  BY <1>2 DEF IInv, TypeOK
<1>8. TasksOK'
  BY <1>0, <1>1, <1>2, <1>3, <1>7, IdleOK, TasksStep
<1>9. HandlesOK'
  BY <1>0, <1>1, <1>2 DEF IInv, HandlesOK, Keep, TypeOK
<1>10. CasOK'
  <2>1. \A d \in Devices : mark'[d] = mark[d] \/ mark'[d] = task[t].got.rev
    BY <1>3 DEF rev
  <2>2. QED BY <1>0, <1>1, <2>1, CasRaise
<1>11. QED BY <1>0, <1>5, <1>6, <1>8, <1>9, <1>10 DEF IInv, PastOK, WireOK, PutOK, May

\* What is sent counts from the row that was read, or from the mark.
LEMMA SendStep == ASSUME IInv, NEW t \in Tabs, NEW kind \in Preconditions, Send(t, kind) PROVE IInv'
<1>0. UNCHANGED <<type, row, past, mark, wire, faults, rolledBack, seen>>
  BY DEF Send, Sealed
<1>1. /\ NoRow \in past /\ mark \in [Devices -> Nat] /\ past \subseteq Rows
      /\ \A d \in Devices : mark[d] <= mark[d]
      /\ DeviceOf[t] \in Devices /\ MarkOf(t) \in Nat
  BY DeviceOfTab DEF IInv, TypeOK, PastOK, MarkOf
<1>2. May(kind) /\ Reads(t, kind)
  BY DEF Send
<1> DEFINE base == BaseOf(t, kind)
<1> DEFINE over == IF kind = "blind" THEN NoRow ELSE handle[t]
<1>3. /\ over \in past /\ over \in Rows /\ base \in Nat
      /\ kind = "replace" => over # NoRow /\ base = over.rev
  <2>1. handle[t] \in past \cup {None}
    BY DEF IInv, HandlesOK
  <2>2. CASE kind = "create"
    BY <1>1, <1>2, <2>2 DEF Reads, BaseOf
  <2>3. CASE kind = "replace"
    <3>1. handle[t] # NoRow /\ handle[t] \in past /\ handle[t] \in Rows
      BY <1>1, <1>2, <2>1, <2>3 DEF Reads
    <3>2. QED BY <2>3, <3>1 DEF BaseOf, Rows
  <2>4. CASE kind = "blind"
    BY <1>1, <2>4 DEF BaseOf
  <2>5. QED BY <2>2, <2>3, <2>4 DEF Preconditions
<1>4. PICK v \in Contents \ written :
        /\ written' = written \cup {v}
        /\ task' = [task EXCEPT ![t] =
             [Idle EXCEPT !.pc = "sent",
                          !.put = [kind |-> kind, row |-> [rev |-> base + 1, val |-> v],
                                   over |-> over]]]
  BY DEF Send
<1> HIDE DEF base, over
<1>5. PICK put \in Puts :
        put = [kind |-> kind, row |-> [rev |-> base + 1, val |-> v], over |-> over]
  <2>1. v \in Contents /\ base + 1 \in Nat
    BY <1>3, <1>4
  <2>2. [rev |-> base + 1, val |-> v] \in Rows
    BY <2>1 DEF Rows
  <2>3. QED BY <1>3, <2>2 DEF Puts
<1>6. PutOK(put)
  BY <1>2, <1>3, <1>5 DEF PutOK
<1>7. task'[t] = [pc |-> "sent", put |-> put, got |-> NoRow, floor |-> 0]
  BY <1>4, <1>5 DEF IInv, TypeOK, Idle
<1>8. task'[t] \in [pc : Pcs, put : Puts \cup {None}, got : Rows, floor : Nat]
  BY <1>5, <1>7, IdleType DEF Pcs
<1>9. /\ task' \in [Tabs -> [pc : Pcs, put : Puts \cup {None}, got : Rows, floor : Nat]]
      /\ \A u \in Tabs \ {t} : task'[u] = task[u]
  BY <1>4, <1>8 DEF IInv, TypeOK
<1>10. handle' = [handle EXCEPT ![t] = None]
  BY DEF Send
<1>11. TypeOK'
  BY <1>0, <1>4, <1>9, <1>10 DEF IInv, TypeOK
<1>12. TaskOK(t)'
  <2>1. PutOK(task[t].put)'
    BY <1>0, <1>6, <1>7 DEF PutOK, May
  <2>2. QED BY <1>0, <1>1, <1>7, <2>1 DEF TaskOK
<1>13. TasksOK'
  BY <1>0, <1>1, <1>9, <1>12, TasksStep
<1>14. HandlesOK'
  BY <1>0, <1>10 DEF IInv, HandlesOK, TypeOK
<1>15. QED BY <1>0, <1>11, <1>13, <1>14 DEF IInv, PastOK, WireOK, PutOK, May, SeenOK, CasOK, Newest, Unique, Gone

\* The worker writes, refuses, or the client hears nothing.
LEMMA StoreStep == ASSUME IInv, NEW t \in Tabs, Store(t) PROVE IInv'
<1>0. UNCHANGED <<type, mark, handle, written, rolledBack, seen>>
  BY DEF Store
<1> DEFINE p == task[t].put
<1>1. /\ task[t].pc = "sent" /\ PutOK(p) /\ p \in Puts
      /\ task[t].got \in past /\ NoRow \in past /\ mark \in [Devices -> Nat]
      /\ \A d \in Devices : mark[d] <= mark[d]
  BY DEF IInv, TypeOK, TasksOK, TaskOK, PutOK, PastOK, Store
<1>2. /\ task \in [Tabs -> [pc : Pcs, put : Puts \cup {None}, got : Rows, floor : Nat]]
      /\ row \in Rows /\ past \subseteq Rows /\ wire \subseteq Puts
      /\ PastOK /\ CasOK /\ faults \in Nat
  BY DEF IInv, TypeOK
<1>3. /\ row' \in Rows /\ past' \subseteq Rows /\ past \subseteq past' /\ PastOK' /\ CasOK'
      /\ wire' \subseteq wire \cup {p} /\ faults' \in Nat
      /\ \/ Stop(t)
         \/ Goto(t, "stored") /\ p.row \in past'
  <2>1. CASE Accepts(p) /\ Write(p) /\ UNCHANGED wire
    <3>1. /\ row' \in Rows /\ past' \subseteq Rows /\ past \subseteq past'
          /\ p.row \in past' /\ PastOK' /\ CasOK'
      BY <1>0, <1>1, <2>1, WriteStep
    <3>2. (Goto(t, "stored") /\ UNCHANGED faults) \/ (Fault /\ Stop(t))
      BY <2>1, <1>1 DEF Store
    <3>3. QED BY <1>2, <2>1, <3>1, <3>2 DEF Fault
  <2>2. CASE UNCHANGED <<row, past>> /\ Stop(t) /\ wire' \subseteq wire \cup {p} /\ faults' \in Nat
    <3>1. PastOK' /\ CasOK'
      BY <1>0, <1>2, <2>2 DEF PastOK, CasOK, Newest, Unique, Gone
    <3>2. QED BY <1>2, <2>2, <3>1
  <2>3. QED
    <3>1. \/ Accepts(p) /\ Write(p) /\ UNCHANGED wire
          \/ ~Accepts(p) /\ Stop(t) /\ UNCHANGED <<row, past, wire, faults>>
          \/ Fault /\ Stop(t) /\ (wire' = wire \cup {p} \/ UNCHANGED wire) /\ UNCHANGED <<row, past>>
      BY DEF Store
    <3>2. QED BY <1>2, <2>1, <2>2, <3>1 DEF Fault
<1>4. /\ \A u \in Tabs \ {t} : task'[u] = task[u]
      /\ task' \in [Tabs -> [pc : Pcs, put : Puts \cup {None}, got : Rows, floor : Nat]]
      /\ TaskOK(t)'
  <2>1. CASE Stop(t)
    <3>1. task' = [task EXCEPT ![t] = Idle]
      BY <2>1 DEF Stop
    <3>2. task'[t] = Idle
      BY <1>2, <3>1
    <3>3. NoRow \in past'
      BY <1>1, <1>3
    <3>4. QED BY <1>2, <3>1, <3>2, <3>3, IdleOK, IdleType
  <2>2. CASE Goto(t, "stored") /\ p.row \in past'
    <3>1. task' = [task EXCEPT ![t].pc = "stored"]
      BY <2>2 DEF Goto
    <3>2. task'[t] = [task[t] EXCEPT !.pc = "stored"]
      BY <1>2, <3>1
    <3>3. task'[t] \in [pc : Pcs, put : Puts \cup {None}, got : Rows, floor : Nat]
      BY <1>2, <3>2 DEF Pcs
    <3>4. /\ task'[t].pc = "stored" /\ task'[t].got = task[t].got
          /\ task'[t].put = task[t].put
      BY <1>2, <3>2, TaskType DEF IInv
    <3>5. PutOK(task[t].put)'
      BY <1>0, <1>1, <1>3, <3>4, PutKept DEF PutOK, May
    <3>6. TaskOK(t)'
      BY <1>1, <1>3, <2>2, <3>4, <3>5 DEF TaskOK
    <3>7. QED BY <1>2, <3>1, <3>3, <3>6
  <2>3. QED BY <1>3, <2>1, <2>2
<1>5. TypeOK'
  BY <1>0, <1>1, <1>2, <1>3, <1>4 DEF IInv, TypeOK
<1>6. TasksOK'
  BY <1>0, <1>1, <1>3, <1>4, TasksStep
<1>7. HandlesOK'
  BY <1>0, <1>3 DEF IInv, HandlesOK
<1>8. WireOK'
  <2> SUFFICES ASSUME NEW q \in wire' PROVE PutOK(q)'
    BY DEF WireOK
  <2>1. PutOK(q)
    BY <1>1, <1>3 DEF IInv, WireOK
  <2>2. QED BY <1>0, <1>3, <2>1, PutKept
<1>9. QED BY <1>0, <1>3, <1>5, <1>6, <1>7, <1>8 DEF IInv, SeenOK

\* On the store's yes the mark rises to a revision that was the row's.
LEMMA ConfirmStep == ASSUME IInv, NEW t \in Tabs, Confirm(t) PROVE IInv'
<1>0. UNCHANGED <<type, row, past, handle, wire, written, faults, rolledBack>>
  BY DEF Confirm
<1> DEFINE rev == task[t].put.row.rev
<1>1. /\ NoRow \in past /\ DeviceOf[t] \in Devices
      /\ mark \in [Devices -> Nat] /\ seen \in [Devices -> Nat]
      /\ task[t].put.row \in past /\ rev \in Nat
  BY DeviceOfTab DEF IInv, TypeOK, PastOK, TasksOK, TaskOK, PutOK, Puts, Rows, Confirm
<1>2. /\ mark' = [mark EXCEPT ![DeviceOf[t]] = Maximum(@, rev)]
      /\ seen' = [seen EXCEPT ![DeviceOf[t]] = Maximum(@, rev)]
      /\ task' = [task EXCEPT ![t] = Idle]
  BY DEF Confirm, RaiseTo, See, Stop
<1> HIDE DEF rev
<1>3. /\ mark' \in [Devices -> Nat] /\ \A d \in Devices : mark[d] <= mark'[d]
      /\ \A d \in Devices : d # DeviceOf[t] => mark'[d] = mark[d]
      /\ mark'[DeviceOf[t]] = mark[DeviceOf[t]] \/ mark'[DeviceOf[t]] = rev
      /\ rev <= mark'[DeviceOf[t]]
  <2>1. mark \in [Devices -> Nat] /\ DeviceOf[t] \in Devices /\ rev \in Nat
    BY <1>1
  <2>2. mark' = [mark EXCEPT ![DeviceOf[t]] = Maximum(@, rev)]
    BY <1>2
  <2>3. QED BY <2>1, <2>2, Raised
<1>4. /\ seen' \in [Devices -> Nat]
      /\ \A d \in Devices : d # DeviceOf[t] => seen'[d] = seen[d]
      /\ seen'[DeviceOf[t]] = seen[DeviceOf[t]] \/ seen'[DeviceOf[t]] = rev
  BY <1>1, <1>2, Raised
<1>5. SeenOK'
  <2> SUFFICES ASSUME NEW d \in Devices PROVE seen'[d] <= mark'[d]
    BY DEF SeenOK
  <2>1. seen[d] <= mark[d] /\ mark[d] <= mark'[d]
        /\ seen[d] \in Nat /\ mark[d] \in Nat /\ mark'[d] \in Nat
    BY <1>1, <1>3 DEF IInv, SeenOK
  <2>2. CASE seen'[d] = seen[d]
    BY <2>1, <2>2
  <2>3. CASE d = DeviceOf[t] /\ seen'[d] = rev
    BY <1>3, <2>3
  <2>4. QED BY <1>4, <2>2, <2>3
<1>6. TypeOK'
  <2>1. task' \in [Tabs -> [pc : Pcs, put : Puts \cup {None}, got : Rows, floor : Nat]]
    BY <1>2, IdleType DEF IInv, TypeOK
  <2>2. QED BY <1>0, <1>3, <1>4, <2>1 DEF IInv, TypeOK
<1>7. task'[t] = Idle
  BY <1>2 DEF IInv, TypeOK
<1>8. TasksOK'
  BY <1>0, <1>1, <1>2, <1>3, <1>7, IdleOK, TasksStep
<1>9. CasOK'
  <2>1. \A d \in Devices : mark'[d] = mark[d] \/ mark'[d] = task[t].put.row.rev
    BY <1>3 DEF rev
  <2>2. QED BY <1>0, <1>1, <2>1, CasRaise
<1>10. QED BY <1>0, <1>5, <1>6, <1>8, <1>9 DEF IInv, HandlesOK, PastOK, WireOK, PutOK, May

\* A removed draft is gone; a consent list is never removed.
LEMMA RemoveStep == ASSUME IInv, NEW t \in Tabs, Remove(t) PROVE IInv'
<1>0. /\ UNCHANGED <<type, past, mark, task, wire, written, faults, rolledBack, seen>>
      /\ row' = NoRow /\ NoRow \in past /\ type \in Types
      /\ mark \in [Devices -> Nat] /\ \A d \in Devices : mark[d] <= mark[d]
  BY DEF Remove, IInv, PastOK, TypeOK
<1>1. handle' = handle \/ handle' = [handle EXCEPT ![t] = None]
  BY DEF Remove
<1>2. TypeOK'
  BY <1>0, <1>1, IdleType DEF IInv, TypeOK
<1>3. TaskOK(t)'
  BY <1>0, TaskKept
<1>4. TasksOK'
  BY <1>0, <1>3, TasksStep
<1>5. HandlesOK'
  BY <1>0, <1>1 DEF IInv, HandlesOK, TypeOK
<1>6. CasOK'
  <2> SUFFICES ASSUME ~rolledBack, type # "address" PROVE Newest' /\ Unique'
    BY <1>0 DEF CasOK
  <2>1. type = "draft"
    BY <1>0, ConstantsAssumption DEF Remove, May, KindsOf
  <2>2. Newest'
    BY <1>0, <2>1 DEF Newest, Gone
  <2>3. Unique'
    BY <1>0 DEF IInv, CasOK, Unique
  <2>4. QED BY <2>2, <2>3
<1>7. QED BY <1>0, <1>2, <1>4, <1>5, <1>6 DEF IInv, PastOK, WireOK, PutOK, May, SeenOK

\* A write that lands late is accepted or refused like any other.
LEMMA LateStoreStep == ASSUME IInv, LateStore PROVE IInv'
<1>1. PICK p \in wire :
        /\ wire' = wire \ {p}
        /\ IF Accepts(p) THEN Write(p) ELSE UNCHANGED <<row, past>>
        /\ UNCHANGED <<type, mark, task, handle, written, faults, rolledBack, seen>>
  BY DEF LateStore
<1>2. PutOK(p)
  BY DEF IInv, WireOK
<1>3. /\ row' \in Rows /\ past' \subseteq Rows /\ past \subseteq past' /\ PastOK' /\ CasOK'
  <2>1. CASE Accepts(p)
    BY <1>1, <1>2, <2>1, WriteStep
  <2>2. CASE ~Accepts(p)
    BY <1>1, <2>2 DEF IInv, TypeOK, PastOK, CasOK, Newest, Unique, Gone
  <2>3. QED BY <2>1, <2>2
<1>4. TypeOK'
  BY <1>1, <1>3 DEF IInv, TypeOK
<1>5. TasksOK'
  <2> SUFFICES ASSUME NEW t \in Tabs PROVE TaskOK(t)'
    BY DEF TasksOK
  <2>1. mark' \in [Devices -> Nat] /\ \A d \in Devices : mark[d] <= mark'[d]
    BY <1>1 DEF IInv, TypeOK
  <2>2. QED BY <1>1, <1>3, <2>1, TaskKept
<1>6. WireOK'
  <2> SUFFICES ASSUME NEW q \in wire' PROVE PutOK(q)'
    BY DEF WireOK
  <2>1. PutOK(q)
    BY <1>1 DEF IInv, WireOK
  <2>2. QED BY <1>1, <1>3, <2>1, PutKept
<1>7. QED BY <1>1, <1>3, <1>4, <1>5, <1>6 DEF IInv, HandlesOK, SeenOK

\* A dead tab leaves nothing.
LEMMA DieStep == ASSUME IInv, NEW t \in Tabs, Die(t) PROVE IInv'
<1>0. /\ UNCHANGED <<type, row, past, mark, wire, written, rolledBack, seen>>
      /\ task' = [task EXCEPT ![t] = Idle] /\ handle' = [handle EXCEPT ![t] = None]
      /\ faults' = faults + 1
      /\ NoRow \in past /\ mark \in [Devices -> Nat]
      /\ \A d \in Devices : mark[d] <= mark[d]
  BY DEF Die, Stop, Fault, IInv, PastOK, TypeOK
<1>1. TypeOK'
  BY <1>0, IdleType DEF IInv, TypeOK
<1>2. task'[t] = Idle
  BY <1>0 DEF IInv, TypeOK
<1>3. TasksOK'
  BY <1>0, <1>2, IdleOK, TasksStep
<1>4. QED BY <1>0, <1>1, <1>3 DEF IInv, TypeOK, HandlesOK, PastOK, WireOK, PutOK, May, SeenOK, CasOK, Newest, Unique, Gone

\* A restored database promises nothing but fresh reads.
LEMMA RestoreStep == ASSUME IInv, Restore PROVE IInv'
<1>0. /\ UNCHANGED <<type, past, mark, task, handle, wire, written, seen>>
      /\ row' \in past /\ rolledBack' = TRUE /\ faults' = faults + 1
      /\ mark \in [Devices -> Nat] /\ \A d \in Devices : mark[d] <= mark[d]
  BY DEF Restore, Fault, IInv, TypeOK
<1>1. TypeOK'
  BY <1>0 DEF IInv, TypeOK
<1>2. TasksOK'
  BY <1>0, TaskKept DEF TasksOK
<1>3. QED BY <1>0, <1>1, <1>2 DEF IInv, HandlesOK, PastOK, WireOK, PutOK, May, SeenOK, CasOK

-----------------------------------------------------------------------------

\* The invariant holds at first.
LEMMA InitInv == Init => IInv
<1> SUFFICES ASSUME Init PROVE IInv
  OBVIOUS
<1>1. row \in Rows /\ written \subseteq Contents /\ (row.rev = 0 => row = NoRow)
  BY IdleType DEF Init, Rows, NoRow
<1>2. TypeOK
  BY <1>1, IdleType DEF Init, TypeOK
<1>3. PastOK /\ HandlesOK /\ WireOK /\ SeenOK
  BY <1>1 DEF Init, PastOK, HandlesOK, WireOK, SeenOK
<1>4. TasksOK
  BY DEF Init, TasksOK, TaskOK, Idle
<1>5. CasOK
  BY <1>1 DEF Init, CasOK, Newest, Unique, Gone, NoRow, Rows
<1>6. QED BY <1>2, <1>3, <1>4, <1>5 DEF IInv

\* Every step keeps it.
LEMMA StepInv == IInv /\ [Next]_vars => IInv'
<1> SUFFICES ASSUME IInv, [Next]_vars PROVE IInv'
  OBVIOUS
<1>1. ASSUME NEW t \in Tabs, Read(t) PROVE IInv'
  BY <1>1, AskStep, CheckStep, OpenStep DEF Read
<1>2. ASSUME NEW t \in Tabs, Change(t) PROVE IInv'
  BY <1>2, SendStep, StoreStep, ConfirmStep, RemoveStep DEF Change
<1>3. ASSUME NEW t \in Tabs, Die(t) PROVE IInv'
  BY <1>3, DieStep
<1>4. CASE LateStore
  BY <1>4, LateStoreStep
<1>5. CASE Restore
  BY <1>5, RestoreStep
<1>6. CASE UNCHANGED vars
  BY <1>6 DEF vars, IInv, TypeOK, PastOK, TasksOK, TaskOK, HandlesOK, WireOK, PutOK, May,
              MarkOf, SeenOK, CasOK, Newest, Unique, Gone
<1>7. QED BY <1>1, <1>2, <1>3, <1>4, <1>5, <1>6 DEF Next

\* What the store's clients know and the worker holds agrees in every
\* reachable state.
THEOREM RecordsInvariance == Spec => []IInv
<1>1. QED BY InitInv, StepInv, PTL DEF Spec

(***************************************************************************)
(* Rows, marks and operations keep the shape the store gives them.         *)
(***************************************************************************)
THEOREM RecordsTypeCorrect == Spec => []TypeOK
<1>1. IInv => TypeOK
  BY DEF IInv
<1>2. QED BY <1>1, RecordsInvariance, PTL

(***************************************************************************)
(* refuseBehindMark never hands over a record older than any the device    *)
(* had read or had confirmed, whatever the worker's database goes through. *)
(***************************************************************************)
THEOREM ReadsNeverGoBack == Spec => []FreshReads
<1>1. IInv => FreshReads
  BY TaskType DEF IInv, TasksOK, TaskOK, FreshReads
<1>2. QED BY <1>1, RecordsInvariance, PTL

(***************************************************************************)
(* put with its mark raised only on the store's yes never locks a device   *)
(* out of a record written by compare-and-swap.                            *)
(***************************************************************************)
THEOREM CasNeverLocksOut == Spec => []CasStaysReadable
<1>1. IInv => CasStaysReadable
  BY DEF IInv, TypeOK, Rows, CasOK, Newest, Gone, CasStaysReadable, Readable
<1>2. QED BY <1>1, RecordsInvariance, PTL

(***************************************************************************)
(* putRecord's comparison of one number replaces exactly the row the       *)
(* writer had read: revisions name rows, though every device picks them.   *)
(***************************************************************************)
THEOREM CasLosesNoUpdate == Spec => []ReplacesWhatWasRead
<1>1. IInv => ReplacesWhatWasRead
  <2> SUFFICES ASSUME IInv, ~rolledBack, NEW p \in Pending, p.kind = "replace", Accepts(p)
               PROVE  p.over = row
    BY DEF ReplacesWhatWasRead
  <2>1. PutOK(p)
    BY DEF Pending, IInv, TasksOK, TaskOK, WireOK
  <2>2. type # "address"
    BY <2>1 DEF PutOK, May, KindsOf
  <2>3. p.over.rev = row.rev /\ p.over \in past /\ row \in past
    BY <2>1 DEF Accepts, PutOK, IInv, PastOK
  <2>4. QED BY <2>2, <2>3 DEF IInv, CasOK, Unique
<1>2. QED BY <1>1, RecordsInvariance, PTL

-----------------------------------------------------------------------------
(* The ways into an account.                                               *)

Keyed   == {"newPassword", "toPassword", "changePassword", "newPasskey", "toPasskey", "createKey"}
Worded  == {"newPassword", "toPassword", "changePassword"}
Wrapping == {"newPasskey", "toPasskey"}
Steps   == {"unsent", "sent", "admitted", "read", "done"}
Reqs    == [kind : Kinds \cup {"none"}, tab : Browsers \cup {Null}, step : Steps, dek : 0..MaxDeks,
            pk : Passkeys \cup {Null}, pw : Passwords \cup {Null}, old : Passwords \cup {Null},
            seen : Creds \cup {Null}, ok : BOOLEAN]
TabRecs == [pc : {"idle", "waiting", "registered", "signedIn"}, dek : 0..MaxDeks, mode : Modes,
            pw : Passwords \cup {Null}, pk : Passkeys \cup {Null}, req : 0..MaxRequests,
            unsaved : BOOLEAN]

\* A request names what its kind needs.
ReqOK(n) ==
  LET r == request[n] IN
  /\ r.kind \in Keyed => r.dek # 0
  /\ r.kind \in Worded => r.pw \in Passwords
  /\ r.kind \in Wrapping \cup {"removePasskey", "discard"} => r.pk \in Passkeys
  /\ r.kind # "none" => r.tab \in Browsers
  /\ r.ok => r.step = "done"

TabOK(t) ==
  /\ tab[t].pc = "waiting" => tab[t].req \in Requests
  /\ tab[t].pc = "registered" => tab[t].pk \in Passkeys

RowShapes ==
  /\ cast \in Casts /\ user \in BOOLEAN
  /\ vault \in Vaults /\ hash \in Creds \cup {Null}
  /\ passkeys \in SUBSET Passkeys
  /\ wraps \in [Passkeys -> 0..MaxDeks] /\ cliKeys \in [CliKeys -> 0..MaxDeks]
  /\ session \in [Browsers -> BOOLEAN]
  /\ saved \in [Browsers -> Saves \cup {Null}]
  /\ minted \in [deks : 0..MaxDeks, passkeys : SUBSET Passkeys]
  /\ late \in BOOLEAN /\ stray \in BOOLEAN /\ evicted \in SUBSET Browsers

UnlockShapes ==
  /\ RowShapes
  /\ request \in [Requests -> Reqs] /\ (\A n \in Requests : ReqOK(n))
  /\ tab \in [Browsers -> TabRecs] /\ (\A t \in Browsers : TabOK(t))

\* Whoever may still wrap a DEK under passkey p: a tab that registered it, or a request.
Holds(t, p) == tab[t].pc = "registered" /\ tab[t].pk = p
Live(n)     == request[n].step \in {"sent", "admitted", "read"}
Wraps(n, p) == Live(n) /\ request[n].kind \in Wrapping /\ request[n].pk = p

\* Each passkey is wrapped once: one tab, then one request of it, and then no one.
Spent(p) ==
  /\ p \in minted.passkeys
  /\ \A t \in Browsers : ~Holds(t, p)
  /\ \A n \in Requests : ~Wraps(n, p)

TabsApart ==
  \A t \in Browsers, p \in Passkeys : Holds(t, p) =>
       /\ p \in minted.passkeys
       /\ \A u \in Browsers : Holds(u, p) => u = t
       /\ \A n \in Requests : ~Wraps(n, p)

RequestsApart ==
  \A n \in Requests, p \in Passkeys : Wraps(n, p) =>
       /\ p \in minted.passkeys
       /\ \A m \in Requests : Wraps(m, p) => m = n

WrappedSpent == \A p \in Wrapped : Spent(p)

Settled(at) == at = 0 \/ (at \in Requests /\ request[at].step = "done")

VaultOK ==
  /\ Settled(vault.at)
  /\ vault.mode = "password" <=> vault.dek # 0
  /\ vault.mode # "passkey" => wraps = NoWraps
  /\ vault.mode = "passkey" => Wrapped # {}
  /\ vault.mode = "none" => cliKeys = NoKeys

DeksAgree == ~stray => \A d, e \in OwnDeks \cup KeyDeks : d = e

\* Saved keys are of the vault their stamp names, as long as it stands.
SaveOK(s) ==
  /\ s.stamp.mode = "password" =>
       /\ Settled(s.stamp.at)
       /\ vault.mode = "password" /\ vault.at = s.stamp.at => vault.dek = s.dek
  /\ s.stamp.mode = "passkey" =>
       \A p \in s.stamp.wrapped : Spent(p) /\ wraps[p] \in {0, s.dek}

SavesOK == ~stray => \A t \in Browsers : saved[t] # Null => SaveOK(saved[t])

EvictedOut == \A t \in evicted : ~session[t]

RowsKept ==
  /\ RowShapes /\ WrappedSpent /\ VaultOK /\ DeksAgree /\ SavesOK /\ EvictedOut
  /\ PasswordOpens /\ PasskeyOpens

UnlockInv == UnlockShapes /\ TabsApart /\ RequestsApart /\ RowsKept
-----------------------------------------------------------------------------
(* What a request's step is to the other requests, and to what wraps a passkey. *)

Follows(x, r) ==
  /\ x \in Reqs
  /\ x.kind = "none" \/ (/\ x.kind = r.kind /\ x.tab = r.tab /\ x.dek = r.dek
                         /\ x.pk = r.pk /\ x.pw = r.pw)
  /\ r.step = "done" => x.step = "done"
  /\ x.step \in {"sent", "admitted", "read"} => r.step \in {"sent", "admitted", "read"}
  /\ x.ok => x.step = "done"

Onward(n) == \E x : Follows(x, request[n]) /\ request' = [request EXCEPT ![n] = x]

Refused == [Unsent EXCEPT !.step = "done"]

LEMMA Refusal ==
  ASSUME UnlockShapes, NEW n \in Requests
  PROVE  Refused \in Reqs /\ Refused.kind = "none" /\ Refused.step = "done" /\ Refused.ok = FALSE
         /\ Follows(Refused, request[n])
<1>1. Unsent \in Reqs /\ Unsent.kind = "none" /\ Unsent.ok = FALSE
  BY UnlockAssumption DEF Unsent, Reqs, Steps
<1>2. Refused \in Reqs /\ Refused.kind = "none" /\ Refused.step = "done" /\ Refused.ok = FALSE
  BY <1>1 DEF Refused, Reqs, Steps
<1> QED BY <1>2 DEF Follows

LEMMA Typed ==
  ASSUME UnlockShapes, NEW n \in Requests
  PROVE  /\ request[n] \in Reqs /\ ReqOK(n)
         /\ request[n].seen \in Creds \cup {Null} /\ request[n].pk \in Passkeys \cup {Null}
         /\ request[n].dek \in 0..MaxDeks /\ request[n].step \in Steps
         /\ request[n].pw \in Passwords \cup {Null} /\ request[n].ok \in BOOLEAN
BY DEF UnlockShapes, Reqs

LEMMA StepsOn ==
  ASSUME UnlockShapes, NEW n \in Requests, request[n].step \in {"sent", "admitted", "read"},
         NEW s \in {"admitted", "read"}
  PROVE  Follows([request[n] EXCEPT !.step = s], request[n])
<1> DEFINE r == request[n]
<1>1. r \in Reqs /\ ReqOK(n)
  BY Typed
<1>2. ~r.ok
  BY <1>1 DEF ReqOK
<1>3. [r EXCEPT !.step = s] \in Reqs
  BY <1>1 DEF Reqs, Steps
<1> QED BY <1>1, <1>2, <1>3 DEF Follows, Reqs

LEMMA Succeeds ==
  ASSUME UnlockShapes, NEW n \in Requests, request[n].step \in {"sent", "admitted", "read"}, Succeed(n)
  PROVE  Onward(n)
<1> DEFINE r == request[n]
           x == [r EXCEPT !.step = "done", !.ok = TRUE, !.old = Null, !.seen = Null]
<1>1. r \in Reqs
  BY Typed
<1>2. x \in Reqs
  BY <1>1 DEF Reqs, Steps
<1>3. Follows(x, r)
  BY <1>1, <1>2 DEF Follows, Reqs
<1>4. request' = [request EXCEPT ![n] = x]
  BY DEF Succeed, To
<1> QED BY <1>3, <1>4 DEF Onward

LEMMA Refuses ==
  ASSUME UnlockShapes, NEW n \in Requests, Refuse(n)
  PROVE  Onward(n)
BY Refusal, Zenon DEF Refuse, To, Onward, Refused


\* What every step keeps of requests and tabs: the rows' proofs need no more.
Framed ==
  /\ request' \in [Requests -> Reqs] /\ (\A m \in Requests : ReqOK(m)')
  /\ tab' \in [Browsers -> TabRecs] /\ (\A t \in Browsers : TabOK(t)')
  /\ TabsApart' /\ RequestsApart'
  /\ \A p \in Passkeys : Spent(p) => Spent(p)'
  /\ \A at \in 0..MaxRequests : Settled(at) => Settled(at)'

LEMMA OnwardRequests ==
  ASSUME UnlockShapes, NEW n \in Requests, Onward(n)
  PROVE  /\ request' \in [Requests -> Reqs] /\ (\A m \in Requests : ReqOK(m)')
         /\ \A m \in Requests, p \in Passkeys : Wraps(m, p)' => Wraps(m, p)
         /\ \A at \in 0..MaxRequests : Settled(at) => Settled(at)'
<1>1. PICK x : Follows(x, request[n]) /\ request' = [request EXCEPT ![n] = x]
  BY DEF Onward
<1>2. request \in [Requests -> Reqs] /\ request[n] \in Reqs /\ ReqOK(n)
  BY Typed DEF UnlockShapes
<1>3. /\ request' \in [Requests -> Reqs]
      /\ request'[n] = x
      /\ \A m \in Requests : m # n => request'[m] = request[m]
  BY <1>1, <1>2 DEF Follows
<1>4. \A m \in Requests : ReqOK(m)'
  <2> SUFFICES ASSUME NEW m \in Requests PROVE ReqOK(m)'
    OBVIOUS
  <2>1. CASE m # n
    BY <2>1, <1>3 DEF ReqOK, UnlockShapes
  <2>2. CASE m = n
    <3>1. x.kind = "none" => ReqOK(m)'
      BY <2>2, <1>1, <1>3 DEF ReqOK, Follows, Keyed, Worded, Wrapping
    <3>2. x.kind # "none" => ReqOK(m)'
      BY <2>2, <1>1, <1>2, <1>3 DEF ReqOK, Follows
    <3> QED BY <3>1, <3>2
  <2> QED BY <2>1, <2>2
<1>5. \A m \in Requests, p \in Passkeys : Wraps(m, p)' => Wraps(m, p)
  <2> SUFFICES ASSUME NEW m \in Requests, NEW p \in Passkeys, Wraps(m, p)' PROVE Wraps(m, p)
    OBVIOUS
  <2>1. CASE m # n
    BY <2>1, <1>3 DEF Wraps, Live
  <2>2. CASE m = n
    BY <2>2, <1>1, <1>3 DEF Wraps, Live, Follows, Wrapping
  <2> QED BY <2>1, <2>2
<1>6. \A at \in 0..MaxRequests : Settled(at) => Settled(at)'
  <2> SUFFICES ASSUME NEW at \in 0..MaxRequests, Settled(at) PROVE Settled(at)'
    OBVIOUS
  <2> QED BY <1>1, <1>3 DEF Settled, Follows
<1> QED BY <1>3, <1>4, <1>5, <1>6

\* Every action of the Worker takes its request on.
LEMMA ServedOnward ==
  ASSUME UnlockShapes, NEW n \in Requests, Serve(n)
  PROVE  Onward(n)
<1> DEFINE r == request[n]
<1>0. r.step \in {"sent", "admitted", "read"}
  BY Zenon DEF Serve, Admit, ReadFirst, Abort, finalizePasswordUnlock, finalizePasskeyUnlock,
     changePasswordUnlock, removePasskeyUnlock, createCliKey, deleteCliKey, resetVault,
     deleteAccount, DeleteProvisional
<1>1. ASSUME Step(n, "admitted") PROVE Onward(n)
  BY <1>0, <1>1, StepsOn DEF Step, To, Onward
<1>2. ASSUME Step(n, "read") PROVE Onward(n)
  BY <1>0, <1>2, StepsOn DEF Step, To, Onward
<1>3. ASSUME To(n, [r EXCEPT !.step = "read", !.seen = hash]) PROVE Onward(n)
  <2> DEFINE x == [r EXCEPT !.step = "read", !.seen = hash]
  <2>1. r \in Reqs /\ ~r.ok
    BY <1>0, Typed DEF ReqOK
  <2>2. x \in Reqs
    BY <2>1 DEF Reqs, Steps, UnlockShapes, RowShapes
  <2>3. Follows(x, r)
    BY <2>1, <2>2, <1>0 DEF Follows, Reqs
  <2> QED BY <1>3, <2>3 DEF To, Onward
<1>4. ASSUME Refuse(n) PROVE Onward(n)
  BY <1>4, Refuses
<1>5. ASSUME Succeed(n) PROVE Onward(n)
  BY <1>5, <1>0, Succeeds
<1>6. Admit(n) => Onward(n)
  BY <1>1, <1>4 DEF Admit
<1>7. ReadFirst(n) => Onward(n)
  BY <1>2, <1>3, <1>4 DEF ReadFirst
<1> QED BY <1>4, <1>5, <1>6, <1>7 DEF Serve, Abort, finalizePasswordUnlock, finalizePasskeyUnlock,
     changePasswordUnlock, removePasskeyUnlock, createCliKey, deleteCliKey, resetVault,
     deleteAccount, DeleteProvisional

-----------------------------------------------------------------------------
(* The rows: one lemma per action that changes them. *)

LEMMA Assembled ==
  ASSUME Framed, RowsKept'
  PROVE  UnlockInv'
BY DEF Framed, RowsKept, UnlockInv, UnlockShapes

LEMMA Saving ==
  ASSUME RowShapes, NEW t \in Browsers, saved[t] # Null
  PROVE  /\ saved[t] \in Saves
         /\ saved[t].stamp.at \in 0..MaxRequests
         /\ saved[t].stamp.wrapped \in SUBSET Passkeys
         /\ saved[t].stamp.mode \in Modes
BY DEF RowShapes, Saves, Stamps

\* What saved keys stand on stays, or goes: a password wrap is replaced by the wrap
\* of a request that had not ended, and no passkey is wrapped again.
SameVaultOrNew ==
  \/ vault' = vault
  \/ vault'.mode # "password"
  \/ vault'.at \in Requests /\ ~Settled(vault'.at)

WrapsGone ==
  \A p \in Passkeys : Spent(p) => wraps'[p] \in {0, wraps[p]}

LEMMA SaveStands ==
  ASSUME UnlockInv, Framed, SameVaultOrNew, WrapsGone, NEW s \in Saves, SaveOK(s)
  PROVE  SaveOK(s)'
<1>1. /\ s.stamp \in Stamps /\ s.stamp.at \in 0..MaxRequests
      /\ s.stamp.wrapped \in SUBSET Passkeys
  BY DEF Saves, Stamps
<1>2. ASSUME s.stamp.mode = "password"
      PROVE  /\ Settled(s.stamp.at)'
             /\ vault'.mode = "password" /\ vault'.at = s.stamp.at => vault'.dek = s.dek
  <2>1. Settled(s.stamp.at) /\ (vault.mode = "password" /\ vault.at = s.stamp.at => vault.dek = s.dek)
    BY <1>2 DEF SaveOK
  <2>2. Settled(s.stamp.at)'
    BY <2>1, <1>1 DEF Framed
  <2> QED BY <2>1, <2>2 DEF SameVaultOrNew
<1>3. ASSUME s.stamp.mode = "passkey", NEW p \in s.stamp.wrapped
      PROVE  Spent(p)' /\ wraps'[p] \in {0, s.dek}
  <2>1. p \in Passkeys
    BY <1>1, <1>3
  <2>2. Spent(p) /\ wraps[p] \in {0, s.dek}
    BY <1>3 DEF SaveOK
  <2>3. Spent(p)'
    BY <2>1, <2>2 DEF Framed
  <2>4. wraps'[p] \in {0, wraps[p]}
    BY <2>1, <2>2 DEF WrapsGone
  <2> QED BY <2>2, <2>3, <2>4
<1> QED BY <1>2, <1>3 DEF SaveOK

LEMMA SavesStand ==
  ASSUME UnlockInv, Framed, SameVaultOrNew, WrapsGone, stray => stray',
         \A t \in Browsers : saved'[t] \in {saved[t], Null}
  PROVE  SavesOK'
<1> SUFFICES ASSUME ~stray', NEW t \in Browsers, saved'[t] # Null
             PROVE  SaveOK(saved[t])'
  BY DEF SavesOK
<1>1. PICK s : s = saved[t]
  OBVIOUS
<1>2. saved'[t] = s /\ s # Null
  BY <1>1
<1>3. s \in Saves
  BY <1>1, <1>2 DEF UnlockInv, RowsKept, RowShapes
<1>4. SaveOK(s)
  BY <1>1, <1>2 DEF UnlockInv, RowsKept, SavesOK
<1>5. SaveOK(s)'
  BY <1>3, <1>4, SaveStands
<1> QED BY <1>2, <1>5 DEF SaveOK

\* Nothing of the rows but a passkey's row is new.
Still ==
  /\ UNCHANGED <<vault, hash, wraps, cliKeys, late, stray>>
  /\ passkeys \subseteq passkeys'
  /\ \A t \in Browsers : saved'[t] \in {saved[t], Null}
  /\ RowShapes' /\ EvictedOut'

LEMMA SameAtSettled ==
  ASSUME UnlockInv, Framed, vault'.at = vault.at
  PROVE  Settled(vault.at)'
<1>1. PICK a : a = vault.at
  OBVIOUS
<1>2. a \in 0..MaxRequests
  BY <1>1 DEF UnlockInv, RowsKept, RowShapes, Vaults
<1>3. Settled(a)
  BY <1>1 DEF UnlockInv, RowsKept, VaultOK
<1>4. Settled(a)'
  BY <1>2, <1>3 DEF Framed
<1> QED BY <1>1, <1>4 DEF Settled

LEMMA StillKeeps ==
  ASSUME UnlockInv, Framed, Still
  PROVE  RowsKept'
<1>1. RowsKept
  BY DEF UnlockInv
<1>2. SameVaultOrNew /\ WrapsGone
  BY DEF Still, SameVaultOrNew, WrapsGone
<1>3. SavesOK'
  BY <1>2, SavesStand DEF Still
<1>4. WrappedSpent'
  BY <1>1 DEF Still, RowsKept, WrappedSpent, Wrapped, Framed
<1>5. VaultOK'
  <2>2. Settled(vault.at)'
    BY SameAtSettled DEF Still
  <2> QED BY <1>1, <2>2 DEF RowsKept, VaultOK, Still, Wrapped, Settled
<1>6. DeksAgree'
  BY <1>1 DEF RowsKept, DeksAgree, Still, OwnDeks, KeyDeks, PasswordDek, Wrapped
<1>7. PasswordOpens'
  BY <1>1 DEF RowsKept, PasswordOpens, Still
<1>8. PasskeyOpens'
  BY <1>1 DEF RowsKept, PasskeyOpens, Still, Usable, Wrapped
<1> QED BY <1>3, <1>4, <1>5, <1>6, <1>7, <1>8 DEF RowsKept, Still

\* A step that writes none of the rows, nor what a device saved.
RowsAtRest == UNCHANGED <<cast, rows, session, saved, minted, history>>

LEMMA AtRestStill ==
  ASSUME UnlockInv, Framed, RowsAtRest
  PROVE  RowsKept'
<1>1. RowShapes' /\ EvictedOut'
  BY DEF RowsAtRest, rows, history, UnlockInv, RowsKept, RowShapes, EvictedOut
<1>2. Still
  BY <1>1 DEF Still, RowsAtRest, rows, history
<1> QED BY <1>2, StillKeeps

\* A DEK that is not the vault's is noticed: the vault has a wrap whenever it has a
\* mode, and CLI keys only then.
LEMMA NewDek ==
  ASSUME UnlockInv, NEW dek, OwnDeks \in {{}, {dek}}, ~stray
  PROVE  \A e \in OwnDeks \cup KeyDeks : e = dek
<1>1. vault.mode = "password" => vault.dek \in OwnDeks
  BY DEF OwnDeks, PasswordDek
<1>2. ASSUME vault.mode = "passkey" PROVE OwnDeks # {}
  <2>1. PICK p \in Wrapped : TRUE
    BY <1>2 DEF UnlockInv, RowsKept, VaultOK
  <2> QED BY <2>1 DEF OwnDeks
<1>3. ASSUME vault.mode = "none" PROVE KeyDeks = {} /\ OwnDeks = {}
  BY <1>3 DEF UnlockInv, RowsKept, VaultOK, KeyDeks, NoKeys, NoWraps, OwnDeks, PasswordDek, Wrapped
<1>4. vault.mode \in Modes
  BY DEF UnlockInv, RowsKept, RowShapes, Vaults
<1>5. OwnDeks # {} => dek \in OwnDeks
  OBVIOUS
<1>6. DeksAgree
  BY DEF UnlockInv, RowsKept
<1> QED BY <1>1, <1>2, <1>3, <1>4, <1>5, <1>6 DEF DeksAgree, Modes

LEMMA DeksFollow ==
  ASSUME UnlockInv, NEW dek, Strays(dek),
         \A e \in OwnDeks' \cup KeyDeks' : e = dek \/ e \in OwnDeks \cup KeyDeks
  PROVE  DeksAgree'
<1>1. ASSUME ~stray' PROVE ~stray /\ OwnDeks \in {{}, {dek}}
  BY <1>1 DEF Strays
<1>2. ASSUME ~stray' PROVE \A e \in OwnDeks' \cup KeyDeks' : e = dek
  BY <1>1, <1>2, NewDek
<1> QED BY <1>2 DEF DeksAgree

LEMMA FewerDeks ==
  ASSUME UnlockInv, stray' = stray,
         \A e \in OwnDeks' \cup KeyDeks' : e \in OwnDeks \cup KeyDeks
  PROVE  DeksAgree'
BY DEF UnlockInv, RowsKept, DeksAgree

LEMMA PasswordFinalized ==
  ASSUME UnlockInv, Framed, NEW n \in Requests, finalizePasswordUnlock(n)
  PROVE  RowsKept'
<1> DEFINE r == request[n]
<1>0. RowsKept /\ UnlockShapes
  BY DEF UnlockInv
<1>1. CASE ~(user /\ PasswordGuard(r))
  <2>1. RowsAtRest
    BY <1>1 DEF finalizePasswordUnlock, RowsAtRest, rows, history
  <2> QED BY <2>1, AtRestStill
<1>2. CASE user /\ PasswordGuard(r)
  <2>1. /\ vault' = [mode |-> "password", dek |-> r.dek, pw |-> r.pw, at |-> n]
        /\ hash' = [pw |-> r.pw, salt |-> n]
        /\ passkeys' = {} /\ wraps' = NoWraps /\ Strays(r.dek) /\ Succeed(n)
        /\ UNCHANGED <<cast, user, cliKeys, session, tab, saved, minted, late, evicted>>
        /\ r.step = "admitted" /\ r.kind \in {"newPassword", "toPassword"}
    BY <1>2 DEF finalizePasswordUnlock
  <2>2. r \in Reqs /\ ReqOK(n)
    BY <1>0, Typed
  <2>3. r.dek \in 0..MaxDeks /\ r.dek # 0 /\ r.pw \in Passwords
    BY <2>1, <2>2 DEF ReqOK, Reqs, Keyed, Worded
  <2>4. n \in 0..MaxRequests /\ n # 0
    BY UnlockAssumption DEF Requests
  <2>5. RowShapes'
    <3>1. vault' \in Vaults
      BY <2>1, <2>3, <2>4 DEF Vaults, Modes
    <3>2. hash' \in Creds
      BY <2>1, <2>3, <2>4 DEF Creds
    <3>3. wraps' \in [Passkeys -> 0..MaxDeks]
      BY <2>1, UnlockAssumption DEF NoWraps
    <3>4. stray' \in BOOLEAN
      BY <2>1 DEF Strays
    <3> QED BY <1>0, <2>1, <3>1, <3>2, <3>3, <3>4 DEF RowsKept, RowShapes
  <2>6. WrappedSpent'
    BY <2>1 DEF WrappedSpent, Wrapped, NoWraps
  <2>7. request'[n].step = "done"
    BY <2>1, <2>2, <1>0 DEF Succeed, To, UnlockShapes, Reqs
  <2>8. VaultOK'
    <3>1. Settled(vault.at)'
      BY <2>1, <2>7 DEF Settled
    <3> QED BY <2>1, <2>3, <3>1 DEF VaultOK
  <2>9. DeksAgree'
    <3>1. \A e \in OwnDeks' \cup KeyDeks' : e = r.dek \/ e \in OwnDeks \cup KeyDeks
      BY <2>1 DEF OwnDeks, KeyDeks, PasswordDek, Wrapped, NoWraps
    <3> QED BY <2>1, <3>1, DeksFollow
  <2>10. SavesOK'
    <3>1. SameVaultOrNew
      BY <2>1, <2>4 DEF SameVaultOrNew, Settled
    <3>2. WrapsGone
      BY <2>1 DEF WrapsGone, NoWraps
    <3>3. stray => stray'
      BY <2>1 DEF Strays
    <3> QED BY <2>1, <3>1, <3>2, <3>3, SavesStand
  <2>11. EvictedOut'
    BY <1>0, <2>1 DEF RowsKept, EvictedOut
  <2>12. PasswordOpens' /\ PasskeyOpens'
    BY <2>1, <2>4, <2>3, <2>5, UnlockAssumption DEF PasswordOpens, PasskeyOpens, Creds
  <2> QED BY <2>5, <2>6, <2>8, <2>9, <2>10, <2>11, <2>12 DEF RowsKept
<1> QED BY <1>1, <1>2

LEMMA PasskeyFinalized ==
  ASSUME UnlockInv, Framed, NEW n \in Requests, finalizePasskeyUnlock(n)
  PROVE  RowsKept'
<1> DEFINE r == request[n]
<1>0. RowsKept /\ UnlockShapes
  BY DEF UnlockInv
<1>1. CASE ~(user /\ (r.kind = "newPasskey" => vault.mode = "none"))
  <2>1. RowsAtRest
    BY <1>1 DEF finalizePasskeyUnlock, RowsAtRest, rows, history
  <2> QED BY <2>1, AtRestStill
<1>2. CASE user /\ (r.kind = "newPasskey" => vault.mode = "none")
  <2>1. /\ vault' = PasskeyVault
        /\ wraps' = [wraps EXCEPT ![r.pk] = r.dek]
        /\ hash' = Null
        /\ late' = (late \/ r.pk \notin passkeys)
        /\ Strays(r.dek) /\ Succeed(n)
        /\ UNCHANGED <<cast, user, passkeys, cliKeys, session, tab, saved, minted, evicted>>
        /\ r.step = "read" /\ r.kind \in {"newPasskey", "toPasskey"}
    BY <1>2 DEF finalizePasskeyUnlock
  <2>2. r \in Reqs /\ ReqOK(n)
    BY <1>0, Typed
  <2>3. r.dek \in 0..MaxDeks /\ r.dek # 0 /\ r.pk \in Passkeys
    BY <2>1, <2>2 DEF ReqOK, Reqs, Keyed, Wrapping
  <2>4. PasskeyVault = [mode |-> "passkey", dek |-> 0, pw |-> Null, at |-> 0]
    BY DEF PasskeyVault, NoVault
  <2>5. RowShapes'
    <3>1. vault' \in Vaults
      BY <2>1, <2>4, UnlockAssumption DEF Vaults, Modes
    <3>2. wraps' \in [Passkeys -> 0..MaxDeks]
      BY <1>0, <2>1, <2>3 DEF RowsKept, RowShapes
    <3>3. stray' \in BOOLEAN /\ late' \in BOOLEAN
      BY <2>1 DEF Strays
    <3> QED BY <1>0, <2>1, <3>1, <3>2, <3>3 DEF RowsKept, RowShapes
  <2>6. PICK pk \in Passkeys : pk = r.pk
    BY <2>3
  <2>7. PICK dek \in 1..MaxDeks : dek = r.dek
    BY <2>3
  <2>8. wraps'[pk] = dek /\ \A p \in Passkeys : p # pk => wraps'[p] = wraps[p]
    BY <1>0, <2>1, <2>3, <2>6, <2>7 DEF RowsKept, RowShapes
  <2>9. Wraps(n, pk)
    BY <2>1, <2>6 DEF Wraps, Live, Wrapping
  <2>10. Spent(pk)'
    <3>1. request' \in [Requests -> Reqs] /\ request'[n].step = "done"
          /\ \A m \in Requests : m # n => request'[m] = request[m]
      BY <2>1, <2>2, <1>0 DEF Succeed, To, UnlockShapes, Reqs, Framed
    <3>2. /\ pk \in minted.passkeys
          /\ \A m \in Requests : Wraps(m, pk) => m = n
      BY <2>9 DEF UnlockInv, RequestsApart
    <3>3. \A t \in Browsers : ~Holds(t, pk)
      BY <2>9 DEF UnlockInv, TabsApart
    <3>4. \A t \in Browsers : ~Holds(t, pk)'
      BY <2>1, <3>3 DEF Holds
    <3>5. \A m \in Requests : ~Wraps(m, pk)'
      BY <3>1, <3>2 DEF Wraps, Live
    <3> QED BY <2>1, <3>2, <3>4, <3>5 DEF Spent
  <2>11. WrappedSpent'
    <3> SUFFICES ASSUME NEW p \in Passkeys, wraps'[p] # 0 PROVE Spent(p)'
      BY DEF WrappedSpent, Wrapped
    <3>1. CASE p = pk
      BY <2>10, <3>1
    <3>2. CASE p # pk
      BY <1>0, <2>8, <3>2 DEF RowsKept, WrappedSpent, Wrapped, Framed
    <3> QED BY <3>1, <3>2
  <2>12. VaultOK'
    <3>1. pk \in Wrapped'
      BY <2>7, <2>8 DEF Wrapped
    <3> QED BY <2>1, <2>4, <3>1 DEF VaultOK, Settled
  <2>13. DeksAgree'
    <3>1. \A e \in OwnDeks' \cup KeyDeks' : e = dek \/ e \in OwnDeks \cup KeyDeks
      <4>1. PasswordDek' = {}
        BY <2>1, <2>4 DEF PasswordDek
      <4>2. KeyDeks' = KeyDeks
        BY <2>1 DEF KeyDeks
      <4>3. \A p \in Wrapped' : wraps'[p] = dek \/ (p \in Wrapped /\ wraps'[p] = wraps[p])
        BY <2>8 DEF Wrapped
      <4> QED BY <4>1, <4>2, <4>3 DEF OwnDeks
    <3>2. Strays(dek)
      BY <2>1, <2>7
    <3> QED BY <3>1, <3>2, DeksFollow
  <2>14. SavesOK'
    <3>1. SameVaultOrNew
      BY <2>1, <2>4 DEF SameVaultOrNew
    <3>2. WrapsGone
      BY <2>8, <2>9 DEF WrapsGone, Spent
    <3>3. stray => stray'
      BY <2>1 DEF Strays
    <3> QED BY <2>1, <3>1, <3>2, <3>3, SavesStand
  <2>15. EvictedOut'
    BY <1>0, <2>1 DEF RowsKept, EvictedOut
  <2>16. PasswordOpens'
    BY <2>1, <2>4 DEF PasswordOpens
  <2>17. PasskeyOpens'
    <3>1. ~late' => pk \in passkeys'
      BY <2>1, <2>6, Zenon
    <3>2. pk \in passkeys' => pk \in Usable'
      BY <2>7, <2>8 DEF Usable, Wrapped
    <3> QED BY <3>1, <3>2 DEF PasskeyOpens
  <2> QED BY <2>5, <2>11, <2>12, <2>13, <2>14, <2>15, <2>16, <2>17 DEF RowsKept
<1> QED BY <1>1, <1>2

LEMMA PasswordChanged ==
  ASSUME UnlockInv, Framed, NEW n \in Requests, changePasswordUnlock(n)
  PROVE  RowsKept'
<1> DEFINE r == request[n]
<1>0. RowsKept /\ UnlockShapes
  BY DEF UnlockInv
<1>1. CASE ~HashGuard(r)
  <2>1. RowsAtRest
    BY <1>1 DEF changePasswordUnlock, RewrapGuard, RowsAtRest, rows, history
  <2> QED BY <2>1, AtRestStill
<1>2. CASE HashGuard(r)
  <2>1. vault.mode = "password"
    BY <1>0, <1>2 DEF RowsKept, PasswordOpens, HashGuard
  <2>2. /\ vault' = [vault EXCEPT !.dek = r.dek, !.pw = r.pw, !.at = n]
        /\ Strays(r.dek)
        /\ hash' = [pw |-> r.pw, salt |-> n]
        /\ SignOutOthers(r.tab) /\ Succeed(n)
        /\ UNCHANGED <<cast, user, passkeys, wraps, tab, saved, minted, late>>
        /\ r.step = "read" /\ r.kind = "changePassword"
    BY <1>2, <2>1 DEF changePasswordUnlock, RewrapGuard
  <2>3. r \in Reqs /\ ReqOK(n)
    BY <1>0, Typed
  <2>4. r.dek \in 0..MaxDeks /\ r.dek # 0 /\ r.pw \in Passwords
    BY <2>2, <2>3 DEF ReqOK, Reqs, Keyed, Worded
  <2>5. n \in 0..MaxRequests /\ n # 0
    BY UnlockAssumption DEF Requests
  <2>6. vault' \in Vaults /\ vault'.mode = "password" /\ vault'.dek = r.dek
        /\ vault'.at = n /\ vault'.pw = r.pw
    BY <1>0, <2>1, <2>2, <2>4, <2>5 DEF RowsKept, RowShapes, Vaults
  <2>7. cliKeys' = NoKeys /\ session' = [s \in Browsers |-> s = r.tab /\ session[s]]
        /\ evicted' = (evicted \cup {s \in Browsers : session[s]}) \ {r.tab}
    BY <2>2 DEF SignOutOthers
  <2>8. EvictedOut'
    BY <1>0, <2>7 DEF EvictedOut, RowsKept, RowShapes
  <2>9. RowShapes'
    <3>1. hash' \in Creds
      BY <2>2, <2>4, <2>5 DEF Creds
    <3>2. cliKeys' \in [CliKeys -> 0..MaxDeks]
      BY <2>7, UnlockAssumption DEF NoKeys
    <3>3. session' \in [Browsers -> BOOLEAN]
      BY <2>7, Zenon
    <3>4. evicted' \in SUBSET Browsers
      BY <1>0, <2>7 DEF RowsKept, RowShapes
    <3>5. stray' \in BOOLEAN
      BY <2>2 DEF Strays
    <3> QED BY <1>0, <2>2, <2>6, <3>1, <3>2, <3>3, <3>4, <3>5 DEF RowsKept, RowShapes
  <2>10. WrappedSpent'
    BY <1>0, <2>2 DEF RowsKept, WrappedSpent, Wrapped, Framed
  <2>11. request'[n].step = "done"
    BY <2>2, <2>3, <1>0 DEF Succeed, To, UnlockShapes, Reqs
  <2>12. wraps = NoWraps
    BY <1>0, <2>1 DEF RowsKept, VaultOK
  <2>13. VaultOK'
    <3>1. Settled(vault.at)'
      BY <2>6, <2>11 DEF Settled
    <3> QED BY <2>2, <2>4, <2>6, <2>12, <3>1 DEF VaultOK, NoWraps
  <2>14. DeksAgree'
    <3>1. \A e \in OwnDeks' \cup KeyDeks' : e = r.dek \/ e \in OwnDeks \cup KeyDeks
      BY <2>2, <2>6, <2>7 DEF OwnDeks, KeyDeks, PasswordDek, Wrapped, NoKeys
    <3> QED BY <2>2, <3>1, DeksFollow
  <2>15. SavesOK'
    <3>1. SameVaultOrNew
      BY <2>2, <2>5, <2>6 DEF SameVaultOrNew, Settled
    <3>2. WrapsGone
      BY <2>2 DEF WrapsGone
    <3>3. stray => stray'
      BY <2>2 DEF Strays
    <3> QED BY <2>2, <3>1, <3>2, <3>3, SavesStand
  <2>16. PasswordOpens'
    BY <2>2, <2>5, <2>4, <2>6, <2>9, UnlockAssumption DEF PasswordOpens, Creds
  <2>17. PasskeyOpens'
    BY <2>6 DEF PasskeyOpens
  <2> QED BY <2>8, <2>9, <2>10, <2>13, <2>14, <2>15, <2>16, <2>17 DEF RowsKept
<1> QED BY <1>1, <1>2

LEMMA PasskeyRemoved ==
  ASSUME UnlockInv, Framed, NEW n \in Requests, removePasskeyUnlock(n)
  PROVE  RowsKept'
<1> DEFINE r == request[n]
<1>0. RowsKept /\ UnlockShapes
  BY DEF UnlockInv
<1>1. CASE ~(session[r.tab] /\ r.pk \in passkeys /\ AnotherLeft(r.pk))
  <2>1. RowsAtRest
    BY <1>1 DEF removePasskeyUnlock, RowsAtRest, rows, history
  <2> QED BY <2>1, AtRestStill
<1>2. CASE session[r.tab] /\ r.pk \in passkeys /\ AnotherLeft(r.pk)
  <2>1. PICK pk \in Passkeys : pk = r.pk
    BY <1>0, <1>2 DEF RowsKept, RowShapes
  <2>2. /\ wraps' = [wraps EXCEPT ![pk] = 0]
        /\ passkeys' = passkeys \ {pk}
        /\ SignOutOthers(r.tab) /\ Succeed(n)
        /\ UNCHANGED <<cast, user, vault, hash, tab, saved, minted, late, stray>>
    BY <1>2, <2>1 DEF removePasskeyUnlock
  <2>3. PICK q \in Usable : q # pk
    BY <1>2, <2>1 DEF AnotherLeft
  <2>4. wraps'[pk] = 0 /\ \A p \in Passkeys : p # pk => wraps'[p] = wraps[p]
    BY <1>0, <2>2 DEF RowsKept, RowShapes
  <2>5. cliKeys' = NoKeys /\ session' = [s \in Browsers |-> s = r.tab /\ session[s]]
        /\ evicted' = (evicted \cup {s \in Browsers : session[s]}) \ {r.tab}
    BY <2>2 DEF SignOutOthers
  <2>6. EvictedOut'
    BY <1>0, <2>5 DEF EvictedOut, RowsKept, RowShapes
  <2>7. RowShapes'
    <3>1. cliKeys' \in [CliKeys -> 0..MaxDeks]
      BY <2>5, UnlockAssumption DEF NoKeys
    <3>2. session' \in [Browsers -> BOOLEAN]
      BY <2>5, Zenon
    <3>3. evicted' \in SUBSET Browsers
      BY <1>0, <2>5 DEF RowsKept, RowShapes
    <3>4. wraps' \in [Passkeys -> 0..MaxDeks]
      BY <1>0, <2>2, UnlockAssumption DEF RowsKept, RowShapes
    <3> QED BY <1>0, <2>2, <3>1, <3>2, <3>3, <3>4 DEF RowsKept, RowShapes
  <2>8. WrappedSpent'
    BY <1>0, <2>4 DEF RowsKept, WrappedSpent, Wrapped, Framed
  <2>9. q \in Passkeys /\ wraps[q] # 0 /\ q \in passkeys
    BY <2>3 DEF Usable, Wrapped
  <2>10. q \in Usable'
    BY <2>2, <2>3, <2>4, <2>9 DEF Usable, Wrapped
  <2>11. vault.mode = "passkey"
    BY <1>0, <2>9 DEF RowsKept, RowShapes, Vaults, Modes, VaultOK, NoWraps
  <2>12. VaultOK'
    <3>1. Settled(vault.at)'
      BY <2>2, SameAtSettled
    <3>2. Wrapped' # {}
      BY <2>10 DEF Usable
    <3> QED BY <1>0, <2>2, <2>11, <3>1, <3>2 DEF RowsKept, VaultOK
  <2>13. DeksAgree'
    <3>1. \A e \in OwnDeks' \cup KeyDeks' : e \in OwnDeks \cup KeyDeks
      BY <2>2, <2>4, <2>5 DEF OwnDeks, KeyDeks, PasswordDek, Wrapped, NoKeys
    <3> QED BY <2>2, <3>1, FewerDeks
  <2>14. SavesOK'
    <3>1. SameVaultOrNew
      BY <2>2 DEF SameVaultOrNew
    <3>2. WrapsGone
      BY <2>4 DEF WrapsGone
    <3> QED BY <2>2, <3>1, <3>2, SavesStand
  <2>15. PasswordOpens'
    BY <1>0, <2>2 DEF RowsKept, PasswordOpens
  <2>16. PasskeyOpens'
    BY <2>10 DEF PasskeyOpens
  <2> QED BY <2>6, <2>7, <2>8, <2>12, <2>13, <2>14, <2>15, <2>16 DEF RowsKept
<1> QED BY <1>1, <1>2

LEMMA CliKeyCreated ==
  ASSUME UnlockInv, Framed, NEW n \in Requests, createCliKey(n)
  PROVE  RowsKept'
<1> DEFINE r == request[n]
<1>0. RowsKept /\ UnlockShapes
  BY DEF UnlockInv
<1>1. CASE ~(user /\ KeyGuard(r.tab))
  <2>1. RowsAtRest
    BY <1>1 DEF createCliKey, RowsAtRest, rows, history
  <2> QED BY <2>1, AtRestStill
<1>2. CASE user /\ KeyGuard(r.tab)
  <2>1. PICK k \in CliKeys : cliKeys[k] = 0 /\ cliKeys' = [cliKeys EXCEPT ![k] = r.dek]
    BY <1>2 DEF createCliKey
  <2>2. /\ Strays(r.dek) /\ r.kind = "createKey"
        /\ UNCHANGED <<cast, user, vault, hash, passkeys, wraps, session, tab, saved, minted,
                       late, evicted>>
    BY <1>2 DEF createCliKey
  <2>3. r \in Reqs
    BY <1>0, Typed
  <2>4. PICK dek \in 0..MaxDeks : dek = r.dek
    BY <2>3 DEF Reqs
  <2>5. RowShapes'
    <3>1. cliKeys' \in [CliKeys -> 0..MaxDeks]
      BY <1>0, <2>1, <2>4 DEF RowsKept, RowShapes
    <3>2. stray' \in BOOLEAN
      BY <2>2 DEF Strays
    <3> QED BY <1>0, <2>2, <3>1, <3>2 DEF RowsKept, RowShapes
  <2>6. WrappedSpent'
    BY <1>0, <2>2 DEF RowsKept, WrappedSpent, Wrapped, Framed
  <2>7. VaultOK'
    <3>1. Settled(vault.at)'
      BY <2>2, SameAtSettled
    <3>2. vault.mode # "none"
      BY <1>2 DEF KeyGuard
    <3> QED BY <1>0, <2>2, <3>1, <3>2 DEF RowsKept, VaultOK, Wrapped, NoWraps
  <2>8. DeksAgree'
    <3>1. \A j \in CliKeys : cliKeys'[j] = dek \/ cliKeys'[j] = cliKeys[j]
      BY <1>0, <2>1, <2>4 DEF RowsKept, RowShapes
    <3>2. \A e \in OwnDeks' \cup KeyDeks' : e = dek \/ e \in OwnDeks \cup KeyDeks
      BY <2>2, <3>1 DEF OwnDeks, KeyDeks, PasswordDek, Wrapped
    <3> QED BY <2>2, <2>4, <3>2, DeksFollow
  <2>9. SavesOK'
    <3>1. SameVaultOrNew /\ WrapsGone
      BY <2>2 DEF SameVaultOrNew, WrapsGone
    <3>2. stray => stray'
      BY <2>2 DEF Strays
    <3> QED BY <2>2, <3>1, <3>2, SavesStand
  <2>10. EvictedOut' /\ PasswordOpens'
    BY <1>0, <2>2 DEF RowsKept, EvictedOut, PasswordOpens
  <2>11. PasskeyOpens'
    BY <1>0, <2>2 DEF RowsKept, PasskeyOpens, Usable, Wrapped
  <2> QED BY <2>5, <2>6, <2>7, <2>8, <2>9, <2>10, <2>11 DEF RowsKept
<1> QED BY <1>1, <1>2

LEMMA CliKeyDeleted ==
  ASSUME UnlockInv, Framed, NEW n \in Requests, deleteCliKey(n)
  PROVE  RowsKept'
<1>0. RowsKept /\ UnlockShapes
  BY DEF UnlockInv
<1>1. PICK k \in CliKeys : cliKeys' = [cliKeys EXCEPT ![k] = 0]
  BY DEF deleteCliKey
<1>2. UNCHANGED <<cast, user, vault, hash, passkeys, wraps, session, tab, saved, minted,
                  late, stray, evicted>>
  BY DEF deleteCliKey, history
<1>3. \A j \in CliKeys : cliKeys'[j] \in {0, cliKeys[j]}
  BY <1>0, <1>1 DEF RowsKept, RowShapes
<1>4. RowShapes'
  <2>1. cliKeys' \in [CliKeys -> 0..MaxDeks]
    BY <1>0, <1>1, UnlockAssumption DEF RowsKept, RowShapes
  <2> QED BY <1>0, <1>2, <2>1 DEF RowsKept, RowShapes
<1>5. WrappedSpent'
  BY <1>0, <1>2 DEF RowsKept, WrappedSpent, Wrapped, Framed
<1>6. VaultOK'
  <2>1. Settled(vault.at)'
    BY <1>2, SameAtSettled
  <2>2. cliKeys = NoKeys => cliKeys' = NoKeys
    BY <1>1 DEF NoKeys
  <2> QED BY <1>0, <1>2, <2>1, <2>2 DEF RowsKept, VaultOK, Wrapped, NoWraps, NoKeys
<1>7. DeksAgree'
  <2>1. \A e \in OwnDeks' \cup KeyDeks' : e \in OwnDeks \cup KeyDeks
    BY <1>2, <1>3 DEF OwnDeks, KeyDeks, PasswordDek, Wrapped
  <2> QED BY <1>2, <2>1, FewerDeks
<1>8. SavesOK'
  <2>1. SameVaultOrNew /\ WrapsGone
    BY <1>2 DEF SameVaultOrNew, WrapsGone
  <2> QED BY <1>2, <2>1, SavesStand
<1>9. EvictedOut' /\ PasswordOpens'
  BY <1>0, <1>2 DEF RowsKept, EvictedOut, PasswordOpens
<1>10. PasskeyOpens'
  BY <1>0, <1>2 DEF RowsKept, PasskeyOpens, Usable, Wrapped
<1> QED BY <1>4, <1>5, <1>6, <1>7, <1>8, <1>9, <1>10 DEF RowsKept

\* A reset, and a deleted account, leave no wrap of any kind.
Emptied ==
  /\ vault' = NoVault /\ hash' = Null
  /\ passkeys' = {} /\ wraps' = NoWraps /\ cliKeys' = NoKeys
  /\ user' \in BOOLEAN /\ UNCHANGED <<cast, saved, minted, late, stray, evicted>>
  /\ session' \in [Browsers -> BOOLEAN] /\ \A t \in Browsers : session'[t] => session[t]

LEMMA EmptiedKeeps ==
  ASSUME UnlockInv, Framed, Emptied
  PROVE  RowsKept'
<1>0. RowsKept
  BY DEF UnlockInv
<1>1. NoVault \in Vaults /\ NoVault.mode = "none" /\ NoVault.dek = 0 /\ NoVault.at = 0
  BY UnlockAssumption DEF NoVault, Vaults, Modes
<1>2. RowShapes'
  BY <1>0, <1>1, UnlockAssumption DEF RowsKept, RowShapes, Emptied, NoWraps, NoKeys
<1>3. WrappedSpent'
  BY DEF Emptied, WrappedSpent, Wrapped, NoWraps
<1>4. VaultOK'
  BY <1>1 DEF Emptied, VaultOK, Settled, NoWraps, NoKeys
<1>5. DeksAgree'
  BY <1>1 DEF Emptied, DeksAgree, OwnDeks, KeyDeks, PasswordDek, Wrapped, NoWraps, NoKeys
<1>6. SavesOK'
  <2>1. SameVaultOrNew
    BY <1>1 DEF Emptied, SameVaultOrNew
  <2>2. WrapsGone
    BY DEF Emptied, WrapsGone, NoWraps
  <2> QED BY <2>1, <2>2, SavesStand DEF Emptied
<1>7. EvictedOut'
  BY <1>0 DEF Emptied, RowsKept, RowShapes, EvictedOut
<1>8. PasswordOpens' /\ PasskeyOpens'
  BY <1>1 DEF Emptied, PasswordOpens, PasskeyOpens
<1> QED BY <1>2, <1>3, <1>4, <1>5, <1>6, <1>7, <1>8 DEF RowsKept

LEMMA VaultReset ==
  ASSUME UnlockInv, Framed, NEW n \in Requests, resetVault(n) \/ deleteAccount(n)
  PROVE  RowsKept'
<1>0. RowsKept
  BY DEF UnlockInv
<1>1. resetVault(n) => Emptied
  BY <1>0 DEF resetVault, Emptied, KeysAfterReset, RowsKept, RowShapes, history
<1>2. deleteAccount(n) => Emptied
  BY <1>0 DEF deleteAccount, Emptied, RowsKept, RowShapes, history
<1> QED BY <1>1, <1>2, EmptiedKeeps

LEMMA ProvisionalDeleted ==
  ASSUME UnlockInv, Framed, NEW n \in Requests, DeleteProvisional(n)
  PROVE  RowsKept'
<1> DEFINE r == request[n]
<1>0. RowsKept /\ UnlockShapes
  BY DEF UnlockInv
<1>1. /\ passkeys' = passkeys \ {r.pk}
      /\ late' = (late \/ r.pk \in Wrapped)
      /\ UNCHANGED <<cast, user, vault, hash, wraps, cliKeys, session, tab, saved, minted,
                     stray, evicted>>
  BY DEF DeleteProvisional
<1>2. RowShapes'
  <2>1. late' \in BOOLEAN
    BY <1>1
  <2> QED BY <1>0, <1>1, <2>1 DEF RowsKept, RowShapes
<1>3. WrappedSpent'
  BY <1>0, <1>1 DEF RowsKept, WrappedSpent, Wrapped, Framed
<1>4. VaultOK'
  <2>1. Settled(vault.at)'
    BY <1>1, SameAtSettled
  <2> QED BY <1>0, <1>1, <2>1 DEF RowsKept, VaultOK, Wrapped, NoWraps, NoKeys
<1>5. DeksAgree'
  <2>1. \A e \in OwnDeks' \cup KeyDeks' : e \in OwnDeks \cup KeyDeks
    BY <1>1 DEF OwnDeks, KeyDeks, PasswordDek, Wrapped
  <2> QED BY <1>1, <2>1, FewerDeks
<1>6. SavesOK'
  <2>1. SameVaultOrNew /\ WrapsGone
    BY <1>1 DEF SameVaultOrNew, WrapsGone
  <2> QED BY <1>1, <2>1, SavesStand
<1>7. EvictedOut' /\ PasswordOpens'
  BY <1>0, <1>1 DEF RowsKept, EvictedOut, PasswordOpens
<1>8. PasskeyOpens'
  <2>1. ~late' => ~late /\ r.pk \notin Wrapped
    BY <1>1, Zenon
  <2>2. r.pk \notin Wrapped => Usable' = Usable
    BY <1>1 DEF Usable, Wrapped
  <2> QED BY <1>0, <1>1, <2>1, <2>2 DEF RowsKept, PasskeyOpens
<1> QED BY <1>2, <1>3, <1>4, <1>5, <1>6, <1>7, <1>8 DEF RowsKept

-----------------------------------------------------------------------------
(* The tabs. *)

\* A tab leaves what it was doing for b, which holds no registered passkey.
Leaves(t, b) ==
  /\ tab' = [tab EXCEPT ![t] = b] /\ b \in TabRecs
  /\ b.pc = "waiting" => b.req \in Requests
  /\ b.pc # "registered"

Fresh(x) ==
  /\ x \in Reqs /\ x.step = "sent" /\ x.ok = FALSE /\ x.tab \in Browsers
  /\ x.kind \in Keyed => x.dek # 0
  /\ x.kind \in Worded => x.pw \in Passwords
  /\ x.kind \in Wrapping \cup {"removePasskey", "discard"} => x.pk \in Passkeys

Posts(t) ==
  \E n \in Requests, x \in Reqs :
    /\ request[n].step = "unsent" /\ request' = [request EXCEPT ![n] = x]
    /\ Fresh(x)
    /\ x.kind \in Wrapping => Holds(t, x.pk)

TabStep(t) ==
  /\ \E b : Leaves(t, b)
  /\ minted'.passkeys = minted.passkeys
  /\ request' = request \/ (\E n \in Requests : Onward(n)) \/ Posts(t)

LEMMA LeavesWhat ==
  ASSUME UnlockShapes, NEW t \in Browsers, NEW b, Leaves(t, b)
  PROVE  /\ tab' \in [Browsers -> TabRecs] /\ (\A u \in Browsers : TabOK(u)')
         /\ \A u \in Browsers, p \in Passkeys : Holds(u, p)' => Holds(u, p) /\ u # t
<1>1. tab' \in [Browsers -> TabRecs] /\ tab'[t] = b /\ \A u \in Browsers : u # t => tab'[u] = tab[u]
  BY DEF Leaves, UnlockShapes
<1>2. \A u \in Browsers : TabOK(u)'
  <2> SUFFICES ASSUME NEW u \in Browsers PROVE TabOK(u)'
    OBVIOUS
  <2>1. CASE u = t
    BY <1>1, <2>1 DEF Leaves, TabOK
  <2>2. CASE u # t
    BY <1>1, <2>2 DEF UnlockShapes, TabOK
  <2> QED BY <2>1, <2>2
<1> QED BY <1>1, <1>2 DEF Leaves, Holds

LEMMA TabFrames ==
  ASSUME UnlockShapes, TabsApart, RequestsApart, NEW t \in Browsers, TabStep(t)
  PROVE  Framed
<1>1. PICK b : Leaves(t, b)
  BY DEF TabStep
<1>2. tab' \in [Browsers -> TabRecs] /\ \A u \in Browsers : TabOK(u)'
  BY <1>1, LeavesWhat
<1>3. \A u \in Browsers, p \in Passkeys : Holds(u, p)' => Holds(u, p) /\ u # t
  BY <1>1, LeavesWhat
<1>4. request \in [Requests -> Reqs] /\ \A n \in Requests : ReqOK(n)
  BY DEF UnlockShapes
<1>5. minted'.passkeys = minted.passkeys
  BY DEF TabStep
<1>6. ASSUME \A n \in Requests, p \in Passkeys : Wraps(n, p)' => Wraps(n, p)
      PROVE  TabsApart' /\ RequestsApart' /\ \A p \in Passkeys : Spent(p) => Spent(p)'
  <2>1. TabsApart'
    BY <1>3, <1>5, <1>6 DEF TabsApart
  <2>2. RequestsApart'
    BY <1>5, <1>6 DEF RequestsApart
  <2>3. \A p \in Passkeys : Spent(p) => Spent(p)'
    BY <1>3, <1>5, <1>6 DEF Spent
  <2> QED BY <2>1, <2>2, <2>3
<1>7. CASE request' = request
  <2>1. \A n \in Requests, p \in Passkeys : Wraps(n, p)' => Wraps(n, p)
    BY <1>7 DEF Wraps, Live
  <2>2. \A n \in Requests : ReqOK(n)'
    BY <1>4, <1>7 DEF ReqOK
  <2>3. \A at \in 0..MaxRequests : Settled(at) => Settled(at)'
    BY <1>7 DEF Settled
  <2> QED BY <1>2, <1>4, <1>6, <1>7, <2>1, <2>2, <2>3 DEF Framed
<1>8. CASE \E n \in Requests : Onward(n)
  <2>1. PICK n \in Requests : Onward(n)
    BY <1>8
  <2>2. /\ request' \in [Requests -> Reqs] /\ (\A m \in Requests : ReqOK(m)')
        /\ \A m \in Requests, p \in Passkeys : Wraps(m, p)' => Wraps(m, p)
        /\ \A at \in 0..MaxRequests : Settled(at) => Settled(at)'
    BY <2>1, OnwardRequests
  <2> QED BY <1>2, <1>6, <2>2 DEF Framed
<1>9. CASE Posts(t)
  <2>1. PICK n \in Requests, x \in Reqs :
          /\ request[n].step = "unsent" /\ request' = [request EXCEPT ![n] = x]
          /\ Fresh(x)
          /\ x.kind \in Wrapping => Holds(t, x.pk)
    BY <1>9 DEF Posts
  <2>2. /\ request' \in [Requests -> Reqs] /\ request'[n] = x
        /\ \A m \in Requests : m # n => request'[m] = request[m]
    BY <1>4, <2>1
  <2>3. \A m \in Requests : ReqOK(m)'
    <3> SUFFICES ASSUME NEW m \in Requests PROVE ReqOK(m)'
      OBVIOUS
    <3>1. CASE m = n
      BY <2>1, <2>2, <3>1 DEF Fresh, ReqOK
    <3>2. CASE m # n
      BY <1>4, <2>2, <3>2 DEF ReqOK
    <3> QED BY <3>1, <3>2
  <2>4. \A at \in 0..MaxRequests : Settled(at) => Settled(at)'
    BY <2>1, <2>2 DEF Settled
  <2>5. \A m \in Requests, p \in Passkeys :
          Wraps(m, p)' => Wraps(m, p) \/ (m = n /\ Holds(t, p))
    BY <2>1, <2>2 DEF Wraps, Live
  <2>6. \A m \in Requests, p \in Passkeys : Holds(t, p) => ~Wraps(m, p)
    BY DEF TabsApart
  <2>7. TabsApart'
    BY <1>3, <1>5, <2>5, <2>6 DEF TabsApart
  <2>8. RequestsApart'
    BY <1>5, <2>5, <2>6 DEF RequestsApart, TabsApart
  <2>9. \A p \in Passkeys : Spent(p) => Spent(p)'
    BY <1>3, <1>5, <2>5 DEF Spent
  <2> QED BY <1>2, <2>2, <2>3, <2>4, <2>7, <2>8, <2>9 DEF Framed
<1> QED BY <1>7, <1>8, <1>9 DEF TabStep

LEMMA ServeFrames ==
  ASSUME UnlockShapes, TabsApart, RequestsApart, NEW n \in Requests, Onward(n), UNCHANGED <<tab, minted>>
  PROVE  Framed
<1>1. /\ request' \in [Requests -> Reqs] /\ (\A m \in Requests : ReqOK(m)')
      /\ \A m \in Requests, p \in Passkeys : Wraps(m, p)' => Wraps(m, p)
      /\ \A at \in 0..MaxRequests : Settled(at) => Settled(at)'
  BY OnwardRequests
<1>2. \A t \in Browsers, p \in Passkeys : Holds(t, p)' <=> Holds(t, p)
  BY DEF Holds
<1>3. \A p \in Passkeys : Spent(p) => Spent(p)'
  BY <1>1, <1>2 DEF Spent
<1>4. TabsApart'
  BY <1>1, <1>2 DEF TabsApart
<1>5. RequestsApart'
  BY <1>1 DEF RequestsApart
<1>6. tab' \in [Browsers -> TabRecs] /\ (\A t \in Browsers : TabOK(t)')
  BY DEF UnlockShapes, TabOK
<1> QED BY <1>1, <1>3, <1>4, <1>5, <1>6 DEF Framed

LEMMA ServeKeeps ==
  ASSUME UnlockInv, NEW n \in Requests, Serve(n)
  PROVE  UnlockInv'
<1>1. Onward(n)
  BY ServedOnward DEF UnlockInv
<1>2. UNCHANGED <<tab, minted>>
  BY DEF Serve, Admit, ReadFirst, Abort, finalizePasswordUnlock, finalizePasskeyUnlock,
     changePasswordUnlock, removePasskeyUnlock, createCliKey, deleteCliKey, resetVault,
     deleteAccount, DeleteProvisional
<1>3. Framed
  BY <1>1, <1>2, ServeFrames DEF UnlockInv
<1>4. Admit(n) \/ ReadFirst(n) \/ Abort(n) => RowsAtRest
  BY DEF Admit, ReadFirst, Abort, RowsAtRest
<1>5. RowsKept'
  BY <1>3, <1>4, AtRestStill, PasswordFinalized, PasskeyFinalized, PasswordChanged,
     PasskeyRemoved, CliKeyCreated, CliKeyDeleted, VaultReset, ProvisionalDeleted DEF Serve
<1> QED BY <1>3, <1>5, Assembled

\* A request that leaves tab t as b, waiting for it or not.
LEMMA PostSteps ==
  ASSUME UnlockShapes, NEW t \in Browsers, NEW kind \in Kinds, NEW b \in TabRecs,
         NEW dek \in 0..MaxDeks, NEW pk \in Passkeys \cup {Null}, NEW pw \in Passwords \cup {Null},
         NEW old \in Passwords \cup {Null},
         Post(t, kind, b, dek, pk, pw, old),
         b.pc \in {"idle", "waiting"}, minted'.passkeys = minted.passkeys,
         kind \in Keyed => dek # 0,
         kind \in Worded => pw \in Passwords,
         kind \in Wrapping \cup {"removePasskey", "discard"} => pk \in Passkeys,
         kind \in Wrapping => Holds(t, pk)
  PROVE  TabStep(t)
<1>1. PICK n \in Requests :
        /\ ~Sent(n)
        /\ To(n, [Unsent EXCEPT !.kind = kind, !.tab = t, !.step = "sent",
                                !.dek = dek, !.pk = pk, !.pw = pw, !.old = old])
        /\ TabTo(t, IF b.pc = "waiting" THEN [b EXCEPT !.req = n] ELSE b)
  BY DEF Post
<1> DEFINE x == [Unsent EXCEPT !.kind = kind, !.tab = t, !.step = "sent",
                                !.dek = dek, !.pk = pk, !.pw = pw, !.old = old]
           c == IF b.pc = "waiting" THEN [b EXCEPT !.req = n] ELSE b
<1>2. Unsent \in Reqs /\ Unsent.ok = FALSE
  BY UnlockAssumption DEF Unsent, Reqs, Steps
<1>3. /\ x \in Reqs /\ x.kind = kind /\ x.tab = t /\ x.step = "sent" /\ x.dek = dek
      /\ x.pk = pk /\ x.pw = pw /\ x.ok = FALSE
  BY <1>2 DEF Reqs, Steps
<1>4. Posts(t)
  <2>1. Fresh(x)
    BY <1>3 DEF Fresh
  <2>2. request' = [request EXCEPT ![n] = x] /\ request[n].step = "unsent"
    BY <1>1 DEF To, Sent
  <2>3. x.kind \in Wrapping => Holds(t, x.pk)
    BY <1>3
  <2> HIDE DEF x
  <2> QED BY <1>3, <2>1, <2>2, <2>3 DEF Posts
<1>5. c \in TabRecs /\ c.pc = b.pc /\ (c.pc = "waiting" => c.req \in Requests)
  <2>1. n \in 0..MaxRequests
    BY UnlockAssumption DEF Requests
  <2> QED BY <2>1 DEF TabRecs
<1>6. Leaves(t, c)
  BY <1>1, <1>5 DEF Leaves, TabTo
<1> QED BY <1>4, <1>6 DEF TabStep

LEMMA TabTyped ==
  ASSUME UnlockShapes, NEW t \in Browsers
  PROVE  /\ tab[t] \in TabRecs /\ TabOK(t)
         /\ tab[t].dek \in 0..MaxDeks /\ tab[t].pk \in Passkeys \cup {Null}
         /\ tab[t].pw \in Passwords \cup {Null} /\ tab[t].mode \in Modes
BY DEF UnlockShapes, TabRecs

LEMMA Waiting ==
  ASSUME UnlockShapes, NEW t \in Browsers
  PROVE  /\ [tab[t] EXCEPT !.pc = "waiting"] \in TabRecs
         /\ [tab[t] EXCEPT !.pc = "waiting"].pc = "waiting"
BY TabTyped DEF TabRecs

\* What the tabs ask for of the vault they hold open.
LEMMA ChangeSteps ==
  ASSUME UnlockShapes, NEW t \in Browsers, NEW kind \in Kinds \ Wrapping,
         NEW dek \in 0..MaxDeks, NEW pk \in Passkeys \cup {Null}, NEW pw \in Passwords \cup {Null},
         NEW old \in Passwords \cup {Null},
         SendChange(t, kind, dek, pk, pw, old),
         kind \in Keyed => dek # 0,
         kind \in Worded => pw \in Passwords,
         kind \in {"removePasskey", "discard"} => pk \in Passkeys
  PROVE  TabStep(t) /\ RowsAtRest
<1>1. Post(t, kind, [tab[t] EXCEPT !.pc = "waiting"], dek, pk, pw, old)
      /\ UNCHANGED <<cast, rows, session, saved, minted, history>>
  BY DEF SendChange
<1>2. PICK b \in TabRecs : b = [tab[t] EXCEPT !.pc = "waiting"] /\ b.pc = "waiting"
  BY Waiting
<1>3. Post(t, kind, b, dek, pk, pw, old)
  BY <1>1, <1>2
<1>4. minted'.passkeys = minted.passkeys
  BY <1>1
<1>5. TabStep(t)
  BY <1>2, <1>3, <1>4, PostSteps
<1> QED BY <1>1, <1>5 DEF RowsAtRest

LEMMA SettingsSteps ==
  ASSUME UnlockShapes, NEW t \in Browsers,
         \/ switchModeToPassword(t) \/ changePasswordOfSession(t) \/ removePasskey(t)
         \/ approveCliLogin(t) \/ revokeCliKey(t) \/ resetVaultAccount(t) \/ DeleteMyAccount(t)
  PROVE  TabStep(t) /\ RowsAtRest
<1>0. /\ tab[t].dek \in 0..MaxDeks /\ tab[t].pw \in Passwords \cup {Null}
      /\ 0 \in 0..MaxDeks /\ Null \in Passkeys \cup {Null} /\ Null \in Passwords \cup {Null}
  BY TabTyped, UnlockAssumption
<1>1. ASSUME switchModeToPassword(t) PROVE TabStep(t) /\ RowsAtRest
  <2>1. PICK pw \in Passwords, k \in {"toPassword"} : SendChange(t, k, tab[t].dek, Null, pw, Null)
    BY <1>1, Zenon DEF switchModeToPassword
  <2>2. tab[t].dek # 0
    BY <1>1 DEF switchModeToPassword, HoldsKey
  <2>3. k \in Kinds \ Wrapping
    BY DEF Kinds, Wrapping
  <2> QED BY <1>0, <2>1, <2>2, <2>3, ChangeSteps
<1>2. ASSUME changePasswordOfSession(t) PROVE TabStep(t) /\ RowsAtRest
  <2>1. PICK pw \in Passwords, k \in {"changePassword"} : SendChange(t, k, tab[t].dek, Null, pw, tab[t].pw)
    BY <1>2, Zenon DEF changePasswordOfSession
  <2>2. tab[t].dek # 0
    BY <1>2 DEF changePasswordOfSession, HoldsKey
  <2>3. k \in Kinds \ Wrapping
    BY DEF Kinds, Wrapping
  <2> QED BY <1>0, <2>1, <2>2, <2>3, ChangeSteps
<1>3. ASSUME removePasskey(t) PROVE TabStep(t) /\ RowsAtRest
  <2>1. PICK p \in passkeys, k \in {"removePasskey"} : SendChange(t, k, 0, p, Null, Null)
    BY <1>3, Zenon DEF removePasskey
  <2>2. p \in Passkeys
    BY DEF UnlockShapes, RowShapes
  <2>3. k \in Kinds \ Wrapping /\ k \notin Keyed /\ k \notin Worded
    BY DEF Kinds, Wrapping, Keyed, Worded
  <2> QED BY <1>0, <2>1, <2>2, <2>3, ChangeSteps
<1>4. ASSUME approveCliLogin(t) PROVE TabStep(t) /\ RowsAtRest
  <2>1. PICK k \in {"createKey"} : SendChange(t, k, tab[t].dek, Null, Null, Null)
    BY <1>4, Zenon DEF approveCliLogin
  <2>2. tab[t].dek # 0
    BY <1>4 DEF approveCliLogin, HoldsKey
  <2>3. k \in Kinds \ Wrapping /\ k \notin Worded
    BY DEF Kinds, Wrapping, Worded
  <2> QED BY <1>0, <2>1, <2>2, <2>3, ChangeSteps
<1>5. ASSUME revokeCliKey(t) \/ resetVaultAccount(t) \/ DeleteMyAccount(t)
      PROVE  TabStep(t) /\ RowsAtRest
  <2>1. PICK k \in {"revokeKey", "reset", "deleteAccount"} : SendChange(t, k, 0, Null, Null, Null)
    BY <1>5, Zenon DEF revokeCliKey, resetVaultAccount, DeleteMyAccount
  <2>2. k \in Kinds \ Wrapping /\ k \notin Worded /\ k \notin Keyed
        /\ k \notin {"removePasskey", "discard"}
    BY DEF Kinds, Wrapping, Worded, Keyed
  <2> QED BY <1>0, <2>1, <2>2, ChangeSteps
<1> QED BY <1>1, <1>2, <1>3, <1>4, <1>5

\* A DEK is minted for a new vault.
Mints == UNCHANGED <<cast, rows, session, saved, history>>
         /\ minted.deks < MaxDeks /\ minted' = [minted EXCEPT !.deks = @ + 1]

LEMMA MintsStill ==
  ASSUME UnlockInv, Framed, Mints
  PROVE  RowsKept'
<1>1. minted' \in [deks : 0..MaxDeks, passkeys : SUBSET Passkeys]
  BY UnlockAssumption DEF Mints, UnlockInv, RowsKept, RowShapes
<1>2. RowShapes' /\ EvictedOut'
  BY <1>1 DEF Mints, rows, history, UnlockInv, RowsKept, RowShapes, EvictedOut
<1>3. Still
  BY <1>2 DEF Still, Mints, rows, history
<1> QED BY <1>3, StillKeeps

LEMMA MintedDek ==
  ASSUME UnlockShapes, Mints
  PROVE  /\ minted.deks + 1 \in 0..MaxDeks /\ minted.deks + 1 # 0
         /\ minted'.passkeys = minted.passkeys
BY UnlockAssumption DEF UnlockShapes, RowShapes, Mints

LEMMA CreateSteps ==
  ASSUME UnlockShapes, NEW t \in Browsers, createPasswordVault(t)
  PROVE  TabStep(t) /\ Mints
<1>1. Mints
  BY DEF createPasswordVault, Mints
<1>2. PICK pw \in Passwords, k \in {"newPassword"} :
        Post(t, k, [tab[t] EXCEPT !.pc = "waiting"], minted.deks + 1, Null, pw, Null)
  BY Zenon DEF createPasswordVault
<1>3. PICK b \in TabRecs : b = [tab[t] EXCEPT !.pc = "waiting"] /\ b.pc = "waiting"
  BY Waiting
<1>4. PICK dek \in 0..MaxDeks : dek = minted.deks + 1 /\ dek # 0
  BY <1>1, MintedDek
<1>5. Post(t, k, b, dek, Null, pw, Null)
  BY <1>2, <1>3, <1>4
<1>6. k \in Kinds /\ k \notin Wrapping /\ k \notin {"removePasskey", "discard"}
  BY DEF Kinds, Wrapping
<1>7. minted'.passkeys = minted.passkeys
  BY <1>1, MintedDek
<1>8. Null \in Passkeys \cup {Null} /\ Null \in Passwords \cup {Null}
  OBVIOUS
<1> QED BY <1>1, <1>3, <1>4, <1>5, <1>6, <1>7, <1>8, PostSteps

LEMMA WrapSteps ==
  ASSUME UnlockShapes, NEW t \in Browsers, WrapUnderPasskey(t)
  PROVE  TabStep(t) /\ (Mints \/ RowsAtRest)
<1>1. PICK b \in TabRecs : b = [tab[t] EXCEPT !.pc = "waiting"] /\ b.pc = "waiting"
  BY Waiting
<1>2. PICK pk \in Passkeys : pk = tab[t].pk
  BY TabTyped DEF WrapUnderPasskey, TabOK
<1>3. Holds(t, pk)
  BY <1>2 DEF WrapUnderPasskey, Holds
<1>4. Null \in Passwords \cup {Null}
  OBVIOUS
<1>5. CASE tab[t].dek = 0
  <2>1. Mints
    BY <1>5 DEF WrapUnderPasskey, Mints
  <2>2. PICK k \in {"newPasskey"} :
          Post(t, k, [tab[t] EXCEPT !.pc = "waiting"], minted.deks + 1, tab[t].pk, Null, Null)
    BY <1>5, Zenon DEF WrapUnderPasskey
  <2>3. PICK dek \in 0..MaxDeks : dek = minted.deks + 1 /\ dek # 0
    BY <2>1, MintedDek
  <2>4. Post(t, k, b, dek, pk, Null, Null)
    BY <1>1, <1>2, <2>2, <2>3
  <2>5. k \in Kinds /\ k \in Wrapping /\ k \notin Worded
    BY DEF Kinds, Wrapping, Worded
  <2>6. minted'.passkeys = minted.passkeys
    BY <2>1, MintedDek
  <2> QED BY <1>1, <1>3, <1>4, <2>1, <2>3, <2>4, <2>5, <2>6, PostSteps
<1>6. CASE tab[t].dek # 0
  <2>1. RowsAtRest /\ minted' = minted
    BY <1>6 DEF WrapUnderPasskey, RowsAtRest
  <2>2. PICK k \in {"toPasskey"} :
          Post(t, k, [tab[t] EXCEPT !.pc = "waiting"], tab[t].dek, tab[t].pk, Null, Null)
    BY <1>6, Zenon DEF WrapUnderPasskey
  <2>3. PICK dek \in 0..MaxDeks : dek = tab[t].dek /\ dek # 0
    BY <1>6, TabTyped
  <2>4. Post(t, k, b, dek, pk, Null, Null)
    BY <1>1, <1>2, <2>2, <2>3
  <2>5. k \in Kinds /\ k \in Wrapping /\ k \notin Worded
    BY DEF Kinds, Wrapping, Worded
  <2> QED BY <1>1, <1>3, <1>4, <2>1, <2>3, <2>4, <2>5, PostSteps
<1> QED BY <1>5, <1>6

LEMMA IdleTab ==
  ASSUME UnlockShapes, NEW t \in Browsers
  PROVE  /\ [tab[t] EXCEPT !.pc = "idle", !.req = 0, !.pk = Null] \in TabRecs
         /\ [tab[t] EXCEPT !.pc = "idle", !.req = 0, !.pk = Null].pc = "idle"
         /\ Locked \in TabRecs /\ Locked.pc = "idle"
<1>1. Locked \in TabRecs /\ Locked.pc = "idle"
  BY UnlockAssumption DEF TabRecs, Locked, Modes
<1>2. 0 \in 0..MaxRequests
  BY UnlockAssumption
<1>3. tab[t] \in TabRecs
  BY TabTyped
<1> QED BY <1>1, <1>2, <1>3 DEF TabRecs

LEMMA FailSteps ==
  ASSUME UnlockShapes, NEW t \in Browsers, Fail(t)
  PROVE  TabStep(t) /\ RowsAtRest
<1>1. RowsAtRest /\ minted' = minted
  BY DEF Fail, RowsAtRest
<1>2. PICK b \in TabRecs : b = [tab[t] EXCEPT !.pc = "idle", !.req = 0, !.pk = Null] /\ b.pc = "idle"
  BY IdleTab
<1>3. CASE TabTo(t, b) /\ UNCHANGED request
  BY <1>1, <1>2, <1>3 DEF TabStep, Leaves, TabTo
<1>4. CASE ~(TabTo(t, b) /\ UNCHANGED request)
  <2>1. PICK k \in {"discard"} : tab[t].pk # Null /\ Post(t, k, b, 0, tab[t].pk, Null, Null)
    BY <1>2, <1>4, Zenon DEF Fail
  <2>2. PICK pk \in Passkeys : pk = tab[t].pk
    BY <2>1, TabTyped
  <2>3. Post(t, k, b, 0, pk, Null, Null)
    BY <2>1, <2>2
  <2>4. k \in Kinds /\ k \notin Wrapping /\ k \notin Worded /\ k \notin Keyed
    BY DEF Kinds, Wrapping, Worded, Keyed
  <2>5. 0 \in 0..MaxDeks /\ Null \in Passwords \cup {Null}
    BY UnlockAssumption
  <2> QED BY <1>1, <1>2, <2>2, <2>3, <2>4, <2>5, PostSteps
<1> QED BY <1>3, <1>4

\* A device forgets the keys it saved, or keeps them; sessions come and go.
LEMMA ForgetsStill ==
  ASSUME UnlockInv, Framed, NEW t \in Browsers,
         UNCHANGED <<cast, rows, minted, late, stray>>,
         saved' \in {saved, [saved EXCEPT ![t] = Null]},
         \/ UNCHANGED <<session, evicted>>
         \/ session' = [session EXCEPT ![t] = TRUE] /\ evicted' = evicted \ {t}
         \/ session' = [session EXCEPT ![t] = FALSE] /\ UNCHANGED evicted
  PROVE  RowsKept'
<1>0. RowShapes /\ EvictedOut
  BY DEF UnlockInv, RowsKept
<1>1. saved' \in [Browsers -> Saves \cup {Null}] /\ \A u \in Browsers : saved'[u] \in {saved[u], Null}
  BY <1>0 DEF RowShapes
<1>2. session' \in [Browsers -> BOOLEAN] /\ evicted' \in SUBSET Browsers /\ EvictedOut'
  BY <1>0 DEF RowShapes, EvictedOut
<1>3. RowShapes'
  BY <1>0, <1>1, <1>2 DEF RowShapes, rows
<1>4. Still
  BY <1>1, <1>2, <1>3 DEF Still, rows
<1> QED BY <1>4, StillKeeps

LEMMA AnswerSteps ==
  ASSUME UnlockShapes, NEW t \in Browsers, Answer(t)
  PROVE  /\ TabStep(t)
         /\ UNCHANGED <<cast, rows, minted, late, stray, session, evicted>>
         /\ saved' \in {saved, [saved EXCEPT ![t] = Null]}
<1>1. tab[t].req \in Requests
  BY TabTyped DEF Answer, TabOK
<1>2. PICK n \in Requests : n = tab[t].req
  BY <1>1
<1>3. Onward(n)
  BY <1>2, Refuses DEF Answer
<1> DEFINE r == request[n]
           idle == [tab[t] EXCEPT !.pc = "idle", !.req = 0, !.pk = Null]
<1>4. r \in Reqs /\ ReqOK(n) /\ r.dek \in 0..MaxDeks /\ r.pw \in Passwords \cup {Null}
  BY Typed
<1>5. idle \in TabRecs /\ idle.pc = "idle" /\ Locked \in TabRecs /\ Locked.pc = "idle"
  BY IdleTab
<1>6. \E b : Leaves(t, b)
  <2>1. CASE r.kind \in {"newPassword", "toPassword", "changePassword"}
    <3> DEFINE b == [idle EXCEPT !.dek = r.dek, !.mode = "password", !.pw = r.pw, !.unsaved = TRUE]
    <3>1. TabTo(t, b)
      BY <1>2, <2>1 DEF Answer
    <3>2. b \in TabRecs /\ b.pc = "idle"
      BY <1>4, <1>5 DEF TabRecs, Modes
    <3> HIDE DEF b
    <3> QED BY <3>1, <3>2 DEF Leaves, TabTo
  <2>2. CASE r.kind \in {"newPasskey", "toPasskey"}
    <3> DEFINE b == [idle EXCEPT !.dek = r.dek, !.mode = "passkey", !.pw = Null, !.unsaved = TRUE]
    <3>1. TabTo(t, b)
      BY <1>2, <2>2 DEF Answer
    <3>2. b \in TabRecs /\ b.pc = "idle"
      BY <1>4, <1>5 DEF TabRecs, Modes
    <3> HIDE DEF b
    <3> QED BY <3>1, <3>2 DEF Leaves, TabTo
  <2>3. CASE r.kind \in {"reset", "deleteAccount"}
    <3>1. TabTo(t, Locked)
      BY <1>2, <2>3 DEF Answer
    <3> QED BY <1>5, <3>1 DEF Leaves, TabTo
  <2>4. CASE r.kind \notin {"newPassword", "toPassword", "changePassword", "newPasskey",
                            "toPasskey", "reset", "deleteAccount"}
    <3>1. TabTo(t, idle)
      BY <1>2, <2>4 DEF Answer
    <3> HIDE DEF idle
    <3> QED BY <1>5, <3>1 DEF Leaves, TabTo
  <2> QED BY <2>1, <2>2, <2>3, <2>4
<1>7. UNCHANGED <<cast, rows, minted, late, stray, session, evicted>>
  BY DEF Answer, history
<1>8. saved' \in {saved, [saved EXCEPT ![t] = Null]}
  BY DEF Answer
<1> QED BY <1>3, <1>6, <1>7, <1>8 DEF TabStep

LEMMA SignSteps ==
  ASSUME UnlockShapes, NEW t \in Browsers,
         SignInWithPassword(t) \/ SignInWithPasskey(t) \/ SignInByLink(t)
  PROVE  /\ TabStep(t)
         /\ UNCHANGED <<cast, rows, minted, late, stray, saved>>
         /\ session' = [session EXCEPT ![t] = TRUE] /\ evicted' = evicted \ {t}
<1>0. tab[t] \in TabRecs /\ TabOK(t)
  BY TabTyped
<1>1. \E b \in TabRecs : b.pc \in {"idle", "signedIn"} /\ SignedIn(t, b)
  <2>1. CASE SignInWithPassword(t)
    <3>1. hash.pw \in Passwords
      BY <2>1 DEF SignInWithPassword, UnlockShapes, RowShapes, Creds
    <3>2. [tab[t] EXCEPT !.pc = "signedIn", !.pw = hash.pw] \in TabRecs
      BY <1>0, <3>1 DEF TabRecs
    <3>3. [tab[t] EXCEPT !.pc = "signedIn", !.pw = hash.pw].pc = "signedIn"
      BY <1>0 DEF TabRecs
    <3> QED BY <2>1, <3>2, <3>3 DEF SignInWithPassword
  <2>2. CASE SignInWithPasskey(t)
    <3>1. PICK p \in Usable : SignedIn(t, [tab[t] EXCEPT !.pc = "signedIn", !.pk = p])
      BY <2>2 DEF SignInWithPasskey
    <3>2. p \in Passkeys
      BY DEF Usable, UnlockShapes, RowShapes
    <3>3. [tab[t] EXCEPT !.pc = "signedIn", !.pk = p] \in TabRecs
      BY <1>0, <3>2 DEF TabRecs
    <3>4. [tab[t] EXCEPT !.pc = "signedIn", !.pk = p].pc = "signedIn"
      BY <1>0 DEF TabRecs
    <3> QED BY <3>1, <3>3, <3>4
  <2>3. CASE SignInByLink(t)
    BY <1>0, <2>3 DEF SignInByLink, AtRest
  <2> QED BY <2>1, <2>2, <2>3
<1>2. PICK b \in TabRecs : b.pc \in {"idle", "signedIn"} /\ SignedIn(t, b)
  BY <1>1
<1>3. Leaves(t, b)
  BY <1>2 DEF SignedIn, TabTo, Leaves
<1> QED BY <1>2, <1>3 DEF SignedIn, TabStep, rows

LEMMA OpenSteps ==
  ASSUME UnlockShapes, NEW t \in Browsers, OpenVault(t)
  PROVE  TabStep(t) /\ RowsAtRest
<1>0. tab[t] \in TabRecs /\ Locked \in TabRecs /\ Locked.pc = "idle"
  BY TabTyped, IdleTab
<1> DEFINE opened(dek, mode) == [tab[t] EXCEPT !.pc = "idle", !.dek = dek, !.mode = mode,
                                             !.pk = Null, !.unsaved = TRUE]
<1>1. \A dek \in 0..MaxDeks, mode \in Modes : opened(dek, mode) \in TabRecs /\ opened(dek, mode).pc = "idle"
  BY <1>0 DEF TabRecs
<1>2. vault.dek \in 0..MaxDeks /\ (tab[t].pk \in Usable => wraps[tab[t].pk] \in 0..MaxDeks)
  BY DEF UnlockShapes, RowShapes, Vaults, Usable, Wrapped
<1>3. \/ TabTo(t, opened(vault.dek, "password"))
      \/ tab[t].pk \in Usable /\ TabTo(t, opened(wraps[tab[t].pk], "passkey"))
      \/ TabTo(t, Locked)
  BY Zenon DEF OpenVault
<1>4. "password" \in Modes /\ "passkey" \in Modes
  BY DEF Modes
<1>5. \E b \in TabRecs : b.pc = "idle" /\ TabTo(t, b)
  BY <1>0, <1>1, <1>2, <1>3, <1>4, Zenon
<1>6. PICK b \in TabRecs : b.pc = "idle" /\ TabTo(t, b)
  BY <1>5
<1>7. Leaves(t, b)
  BY <1>6 DEF Leaves, TabTo
<1>8. RowsAtRest /\ request' = request /\ minted' = minted
  BY DEF OpenVault, RowsAtRest
<1> QED BY <1>7, <1>8 DEF TabStep

LEMMA SignOutSteps ==
  ASSUME UnlockShapes, NEW t \in Browsers, SignOut(t)
  PROVE  /\ TabStep(t)
         /\ UNCHANGED <<cast, rows, minted, late, stray, evicted>>
         /\ session' = [session EXCEPT ![t] = FALSE]
         /\ saved' = [saved EXCEPT ![t] = Null]
<1>1. Leaves(t, Locked)
  BY IdleTab DEF SignOut, TabTo, Leaves
<1> QED BY <1>1 DEF SignOut, TabStep, history

LEMMA ResumeSteps ==
  ASSUME UnlockShapes, NEW t \in Browsers, resumeSession(t)
  PROVE  /\ TabStep(t)
         /\ UNCHANGED <<cast, rows, minted, late, stray, session, evicted>>
         /\ saved' \in {saved, [saved EXCEPT ![t] = Null]}
<1>0. Locked \in TabRecs /\ Locked.pc = "idle"
  BY IdleTab
<1>1. CASE saved[t] # Null /\ TabTo(t, [Locked EXCEPT !.dek = saved[t].dek, !.mode = saved[t].mode,
                                                      !.pw = saved[t].pw]) /\ UNCHANGED saved
  <2> DEFINE b == [Locked EXCEPT !.dek = saved[t].dek, !.mode = saved[t].mode, !.pw = saved[t].pw]
  <2>1. saved[t].dek \in 0..MaxDeks /\ saved[t].mode \in Modes /\ saved[t].pw \in Passwords \cup {Null}
    BY <1>1, UnlockAssumption DEF UnlockShapes, RowShapes, Saves
  <2>2. b \in TabRecs /\ b.pc = "idle"
    BY <1>0, <2>1 DEF TabRecs
  <2>3. Leaves(t, b)
    BY <1>1, <2>2 DEF Leaves, TabTo
  <2> HIDE DEF b
  <2> QED BY <1>1, <2>3 DEF resumeSession, TabStep, history
<1>2. CASE TabTo(t, Locked) /\ saved' \in {saved, [saved EXCEPT ![t] = Null]}
  <2>1. Leaves(t, Locked)
    BY <1>0, <1>2 DEF Leaves, TabTo
  <2> QED BY <1>2, <2>1 DEF resumeSession, TabStep, history
<1> QED BY <1>1, <1>2, Zenon DEF resumeSession

\* Keys are saved with the stamp of the vault they open.
LEMMA KeysSaved ==
  ASSUME UnlockInv, NEW t \in Browsers, unlockKeysOf(t)
  PROVE  Framed /\ RowsKept'
<1>0. RowsKept /\ UnlockShapes
  BY DEF UnlockInv
<1>1. tab[t] \in TabRecs /\ TabOK(t)
  BY <1>0, TabTyped
<1>2. PICK s : s = [dek |-> tab[t].dek, mode |-> tab[t].mode, pw |-> tab[t].pw, stamp |-> Stamped]
  OBVIOUS
<1>3. /\ saved' = [saved EXCEPT ![t] = s]
      /\ Strays(tab[t].dek) /\ tab[t].dek # 0
      /\ UNCHANGED <<cast, rows, session, request, minted, late, evicted>>
  BY <1>2 DEF unlockKeysOf
<1>4. Framed
  <2> DEFINE b == [tab[t] EXCEPT !.unsaved = FALSE]
  <2>1. b \in TabRecs /\ b.pc = tab[t].pc /\ b.req = tab[t].req /\ b.pk = tab[t].pk
    BY <1>1 DEF TabRecs
  <2>2. tab' = [tab EXCEPT ![t] = b]
    BY DEF unlockKeysOf, TabTo
  <2>3. tab' \in [Browsers -> TabRecs] /\ \A u \in Browsers : tab'[u].pc = tab[u].pc
        /\ tab'[u].req = tab[u].req /\ tab'[u].pk = tab[u].pk
    BY <1>0, <2>1, <2>2 DEF UnlockShapes
  <2>4. \A u \in Browsers : TabOK(u)'
    BY <1>0, <2>3 DEF UnlockShapes, TabOK
  <2>5. \A u \in Browsers, p \in Passkeys : Holds(u, p)' <=> Holds(u, p)
    BY <2>3 DEF Holds
  <2>6. \A n \in Requests, p \in Passkeys : Wraps(n, p)' <=> Wraps(n, p)
    BY <1>3 DEF Wraps, Live
  <2>7. TabsApart'
    BY <1>3, <2>5, <2>6 DEF UnlockInv, TabsApart
  <2>8. RequestsApart'
    BY <1>3, <2>6 DEF UnlockInv, RequestsApart
  <2>9. \A p \in Passkeys : Spent(p) => Spent(p)'
    BY <1>3, <2>5, <2>6 DEF Spent
  <2>10. request' \in [Requests -> Reqs] /\ \A n \in Requests : ReqOK(n)'
    BY <1>0, <1>3 DEF UnlockShapes, ReqOK
  <2>11. \A at \in 0..MaxRequests : Settled(at) => Settled(at)'
    BY <1>3 DEF Settled
  <2> QED BY <2>3, <2>4, <2>7, <2>8, <2>9, <2>10, <2>11 DEF Framed
<1>5. Stamped \in Stamps /\ Stamped.mode = vault.mode
      /\ (vault.mode = "password" => Stamped.at = vault.at)
      /\ (vault.mode = "passkey" => Stamped.wrapped = Wrapped)
  <2>1. vault.mode \in Modes /\ vault.at \in 0..MaxRequests /\ 0 \in 0..MaxRequests
    BY <1>0, UnlockAssumption DEF RowsKept, RowShapes, Vaults
  <2>2. Wrapped \in SUBSET Passkeys
    BY DEF Wrapped
  <2> QED BY <2>1, <2>2 DEF Stamped, Stamp, Stamps
<1>6. s \in Saves /\ s.dek = tab[t].dek /\ s.stamp = Stamped /\ s # Null
  <2>1. tab[t].dek \in 1..MaxDeks /\ tab[t].mode \in Modes /\ tab[t].pw \in Passwords \cup {Null}
    BY <1>1, <1>3, UnlockAssumption DEF TabRecs
  <2> QED BY <1>2, <1>5, <2>1, UnlockAssumption DEF Saves
<1>7. saved' \in [Browsers -> Saves \cup {Null}] /\ saved'[t] = s
      /\ \A u \in Browsers : u # t => saved'[u] = saved[u]
  BY <1>0, <1>3, <1>6 DEF RowsKept, RowShapes
<1>8. RowShapes' /\ EvictedOut'
  <2>1. stray' \in BOOLEAN
    BY <1>3 DEF Strays
  <2> QED BY <1>0, <1>3, <1>7, <2>1 DEF RowsKept, RowShapes, EvictedOut, rows
<1>9. SameVaultOrNew /\ WrapsGone
  BY <1>3 DEF SameVaultOrNew, WrapsGone, rows
<1>10. ASSUME ~stray' PROVE SaveOK(s)
  <2>1. ~stray /\ OwnDeks \in {{}, {s.dek}}
    BY <1>3, <1>6, <1>10 DEF Strays
  <2>2. vault.mode = "password" => vault.dek = s.dek /\ Settled(vault.at)
    BY <1>0, <2>1 DEF OwnDeks, PasswordDek, RowsKept, VaultOK
  <2>3. \A p \in Wrapped : Spent(p) /\ wraps[p] = s.dek
    BY <1>0, <2>1 DEF OwnDeks, RowsKept, WrappedSpent
  <2> QED BY <1>5, <1>6, <2>2, <2>3 DEF SaveOK
<1>11. SavesOK'
  <2> SUFFICES ASSUME ~stray', NEW u \in Browsers, saved'[u] # Null
               PROVE  SaveOK(saved[u])'
    BY DEF SavesOK
  <2>1. PICK x : x = saved'[u]
    OBVIOUS
  <2>2. x \in Saves /\ SaveOK(x)
    <3>1. CASE u = t
      BY <1>6, <1>7, <1>10, <2>1, <3>1
    <3>2. CASE u # t
      <4>1. x = saved[u] /\ x # Null
        BY <1>7, <2>1, <3>2
      <4>2. ~stray
        BY <1>3 DEF Strays
      <4> QED BY <1>0, <4>1, <4>2 DEF RowsKept, RowShapes, SavesOK
    <3> QED BY <3>1, <3>2
  <2>3. SaveOK(x)'
    BY <1>4, <1>9, <2>2, SaveStands
  <2> QED BY <2>1, <2>3 DEF SaveOK
<1>12. WrappedSpent'
  BY <1>0, <1>3, <1>4 DEF RowsKept, WrappedSpent, Wrapped, Framed, rows
<1>13. VaultOK'
  <2>1. Settled(vault.at)'
    BY <1>3, <1>4, SameAtSettled DEF rows
  <2> QED BY <1>0, <1>3, <2>1 DEF RowsKept, VaultOK, Wrapped, NoWraps, NoKeys, rows
<1>14. DeksAgree'
  <2>1. stray => stray'
    BY <1>3 DEF Strays
  <2>2. OwnDeks' = OwnDeks /\ KeyDeks' = KeyDeks
    BY <1>3 DEF OwnDeks, KeyDeks, PasswordDek, Wrapped, rows
  <2> QED BY <1>0, <2>1, <2>2 DEF RowsKept, DeksAgree
<1>15. PasswordOpens'
  BY <1>0, <1>3 DEF RowsKept, PasswordOpens, rows
<1>16. PasskeyOpens'
  BY <1>0, <1>3 DEF RowsKept, PasskeyOpens, Usable, Wrapped, rows
<1> QED BY <1>4, <1>8, <1>11, <1>12, <1>13, <1>14, <1>15, <1>16 DEF RowsKept

LEMMA PasskeyRegistered ==
  ASSUME UnlockInv, NEW t \in Browsers, RegisterPasskey(t)
  PROVE  Framed /\ RowsKept'
<1>0. RowsKept /\ UnlockShapes
  BY DEF UnlockInv
<1>1. PICK p \in Passkeys : /\ p \notin minted.passkeys
                            /\ passkeys' = passkeys \cup {p}
                            /\ minted' = [minted EXCEPT !.passkeys = @ \cup {p}]
                            /\ TabTo(t, [tab[t] EXCEPT !.pc = "registered", !.pk = p])
  BY DEF RegisterPasskey
<1>2. UNCHANGED <<cast, user, vault, hash, wraps, cliKeys, session, request, saved, late, stray, evicted>>
  BY DEF RegisterPasskey, history
<1>3. minted' \in [deks : 0..MaxDeks, passkeys : SUBSET Passkeys]
      /\ minted'.passkeys = minted.passkeys \cup {p}
  BY <1>0, <1>1 DEF RowsKept, RowShapes
<1>4. tab' \in [Browsers -> TabRecs] /\ tab'[t].pc = "registered" /\ tab'[t].pk = p
      /\ \A u \in Browsers : u # t => tab'[u] = tab[u]
  BY <1>0, <1>1, TabTyped DEF UnlockShapes, TabTo, TabRecs
<1>5. \A u \in Browsers : TabOK(u)'
  BY <1>0, <1>4 DEF UnlockShapes, TabOK
<1>6. \A u \in Browsers, q \in Passkeys : Holds(u, q)' => (Holds(u, q) /\ u # t) \/ (u = t /\ q = p)
  BY <1>4 DEF Holds
<1>7. \A n \in Requests, q \in Passkeys : Wraps(n, q)' <=> Wraps(n, q)
  BY <1>2 DEF Wraps, Live
<1>8. \A u \in Browsers : ~Holds(u, p)
  BY <1>1 DEF UnlockInv, TabsApart
<1>9. \A n \in Requests : ~Wraps(n, p)
  BY <1>1 DEF UnlockInv, RequestsApart
<1>10. TabsApart'
  <2> SUFFICES ASSUME NEW u \in Browsers, NEW q \in Passkeys, Holds(u, q)'
               PROVE  /\ q \in minted'.passkeys
                      /\ \A v \in Browsers : Holds(v, q)' => v = u
                      /\ \A n \in Requests : ~Wraps(n, q)'
    BY Zenon DEF TabsApart
  <2>1. CASE Holds(u, q) /\ u # t
    BY <1>3, <1>6, <1>7, <1>8, <2>1 DEF UnlockInv, TabsApart
  <2>2. CASE u = t /\ q = p
    BY <1>3, <1>6, <1>7, <1>8, <1>9, <2>2
  <2> QED BY <1>6, <2>1, <2>2
<1>11. RequestsApart'
  BY <1>3, <1>7 DEF UnlockInv, RequestsApart
<1>12. \A q \in Passkeys : Spent(q) => Spent(q)'
  BY <1>1, <1>3, <1>6, <1>7 DEF Spent
<1>13. Framed
  <2>1. request' \in [Requests -> Reqs] /\ \A n \in Requests : ReqOK(n)'
    BY <1>0, <1>2 DEF UnlockShapes, ReqOK
  <2>2. \A at \in 0..MaxRequests : Settled(at) => Settled(at)'
    BY <1>2 DEF Settled
  <2> QED BY <1>4, <1>5, <1>10, <1>11, <1>12, <2>1, <2>2 DEF Framed
<1>14. RowShapes' /\ EvictedOut'
  BY <1>0, <1>1, <1>2, <1>3 DEF RowsKept, RowShapes, EvictedOut
<1>15. Still
  BY <1>1, <1>2, <1>14 DEF Still
<1> QED BY <1>13, <1>15, StillKeeps

LEMMA UseKeeps ==
  ASSUME UnlockInv, NEW t \in Browsers, Use(t)
  PROVE  UnlockInv'
<1>0. UnlockShapes /\ TabsApart /\ RequestsApart
  BY DEF UnlockInv
<1>1. TabStep(t) => Framed
  BY <1>0, TabFrames
<1>2. CASE createPasswordVault(t) \/ WrapUnderPasskey(t) \/ Fail(t) \/ OpenVault(t)
  BY <1>0, <1>1, <1>2, CreateSteps, WrapSteps, FailSteps, OpenSteps, MintsStill, AtRestStill, Assembled
<1>3. CASE \/ switchModeToPassword(t) \/ changePasswordOfSession(t) \/ removePasskey(t)
           \/ approveCliLogin(t) \/ revokeCliKey(t) \/ resetVaultAccount(t) \/ DeleteMyAccount(t)
  BY <1>0, <1>1, <1>3, SettingsSteps, AtRestStill, Assembled
<1>4. CASE Answer(t) \/ resumeSession(t)
  <2>1. /\ TabStep(t)
        /\ UNCHANGED <<cast, rows, minted, late, stray, session, evicted>>
        /\ saved' \in {saved, [saved EXCEPT ![t] = Null]}
    BY <1>0, <1>4, AnswerSteps, ResumeSteps
  <2>2. RowsKept'
    BY <1>1, <2>1, ForgetsStill
  <2> QED BY <1>1, <2>1, <2>2, Assembled
<1>5. CASE SignInWithPassword(t) \/ SignInWithPasskey(t) \/ SignInByLink(t)
  <2>1. /\ TabStep(t)
        /\ UNCHANGED <<cast, rows, minted, late, stray, saved>>
        /\ session' = [session EXCEPT ![t] = TRUE] /\ evicted' = evicted \ {t}
    BY <1>0, <1>5, SignSteps
  <2>2. RowsKept'
    BY <1>1, <2>1, ForgetsStill
  <2> QED BY <1>1, <2>1, <2>2, Assembled
<1>6. CASE SignOut(t)
  <2>1. /\ TabStep(t)
        /\ UNCHANGED <<cast, rows, minted, late, stray, evicted>>
        /\ session' = [session EXCEPT ![t] = FALSE]
        /\ saved' = [saved EXCEPT ![t] = Null]
    BY <1>0, <1>6, SignOutSteps
  <2>2. RowsKept'
    BY <1>1, <2>1, ForgetsStill
  <2> QED BY <1>1, <2>1, <2>2, Assembled
<1>7. CASE unlockKeysOf(t) \/ RegisterPasskey(t)
  BY <1>7, KeysSaved, PasskeyRegistered, Assembled
<1> QED BY <1>2, <1>3, <1>4, <1>5, <1>6, <1>7 DEF Use

LEMMA UnlockStarts ==
  ASSUME UnlockInit
  PROVE  UnlockInv
<1> DEFINE mode == cast.mode
           own  == IF mode = "passkey" THEN cast.passkeys ELSE {}
           dek  == IF mode = "none" THEN 0 ELSE 1
<1>0. PICK pw \in Passwords :
        LET key == IF mode = "password" THEN pw ELSE Null IN
        /\ vault = [mode |-> mode, dek |-> IF mode = "password" THEN 1 ELSE 0, pw |-> key, at |-> 0]
        /\ hash = IF mode = "password" THEN [pw |-> pw, salt |-> 0] ELSE Null
        /\ passkeys = own
        /\ wraps = [p \in Passkeys |-> IF p \in own THEN 1 ELSE 0]
        /\ minted = [deks |-> dek, passkeys |-> own]
        /\ tab = [t \in Browsers |-> [Locked EXCEPT !.dek = dek, !.mode = mode, !.pw = key,
                                               !.unsaved = (dek # 0)]]
  BY Zenon DEF UnlockInit
<1>1. PICK key \in Passwords \cup {Null} :
        /\ key = (IF mode = "password" THEN pw ELSE Null)
        /\ vault = [mode |-> mode, dek |-> IF mode = "password" THEN 1 ELSE 0, pw |-> key, at |-> 0]
        /\ hash = IF mode = "password" THEN [pw |-> pw, salt |-> 0] ELSE Null
        /\ passkeys = own
        /\ wraps = [p \in Passkeys |-> IF p \in own THEN 1 ELSE 0]
        /\ minted = [deks |-> dek, passkeys |-> own]
        /\ tab = [t \in Browsers |-> [Locked EXCEPT !.dek = dek, !.mode = mode, !.pw = key,
                                               !.unsaved = (dek # 0)]]
  BY <1>0
<1>2. /\ cast \in Casts /\ user = TRUE /\ cliKeys = NoKeys
      /\ session = [t \in Browsers |-> TRUE]
      /\ request = [n \in Requests |-> Unsent]
      /\ saved = [t \in Browsers |-> Null]
      /\ late = FALSE /\ stray = FALSE /\ evicted = {}
  BY DEF UnlockInit
<1>3. mode \in Modes /\ own \in SUBSET Passkeys /\ (mode = "passkey" => own # {})
      /\ (mode # "passkey" => own = {})
  BY <1>2, UnlockAssumption
<1>4. 0 \in 0..MaxDeks /\ 1 \in 0..MaxDeks /\ 0 \in 0..MaxRequests /\ dek \in 0..MaxDeks
  BY UnlockAssumption
<1> HIDE DEF mode, own, dek
<1>5. RowShapes
  <2>1. vault \in Vaults
    BY <1>1, <1>3, <1>4 DEF Vaults
  <2>2. hash \in Creds \cup {Null}
    BY <1>1, <1>4 DEF Creds
  <2>3. wraps \in [Passkeys -> 0..MaxDeks] /\ cliKeys \in [CliKeys -> 0..MaxDeks]
    BY <1>1, <1>2, <1>4 DEF NoKeys
  <2>4. minted \in [deks : 0..MaxDeks, passkeys : SUBSET Passkeys] /\ passkeys \in SUBSET Passkeys
    BY <1>1, <1>3, <1>4
  <2>5. session \in [Browsers -> BOOLEAN] /\ saved \in [Browsers -> Saves \cup {Null}]
    BY <1>2
  <2> QED BY <1>2, <2>1, <2>2, <2>3, <2>4, <2>5 DEF RowShapes
<1>6. Unsent \in Reqs /\ Unsent.kind = "none" /\ Unsent.ok = FALSE /\ Unsent.step = "unsent"
  BY UnlockAssumption DEF Unsent, Reqs, Steps
<1>7. request \in [Requests -> Reqs] /\ \A n \in Requests : ReqOK(n) /\ ~Live(n)
  <2> HIDE DEF Unsent
  <2>1. request \in [Requests -> Reqs] /\ \A n \in Requests : request[n] = Unsent
    BY <1>2, <1>6
  <2> QED BY <1>6, <2>1 DEF ReqOK, Live, Keyed, Worded, Wrapping
<1>8. tab \in [Browsers -> TabRecs] /\ \A t \in Browsers : tab[t].pc = "idle"
  <2> DEFINE b == [Locked EXCEPT !.dek = dek, !.mode = mode, !.pw = key, !.unsaved = (dek # 0)]
  <2>1. Locked \in TabRecs /\ Locked.pc = "idle"
    BY <1>4 DEF Locked, TabRecs, Modes
  <2>2. (dek # 0) \in BOOLEAN
    OBVIOUS
  <2>3. b \in TabRecs /\ b.pc = "idle"
    BY <1>1, <1>3, <1>4, <2>1, <2>2 DEF TabRecs
  <2>4. tab = [t \in Browsers |-> b]
    BY <1>1
  <2> HIDE DEF b
  <2> QED BY <2>3, <2>4
<1>9. UnlockShapes
  BY <1>5, <1>7, <1>8 DEF UnlockShapes, TabOK
<1>10. TabsApart /\ RequestsApart
  BY <1>7, <1>8 DEF TabsApart, RequestsApart, Holds, Wraps
<1>11. Wrapped = own
  BY <1>1, <1>3 DEF Wrapped
<1>12. WrappedSpent
  BY <1>1, <1>7, <1>8, <1>11 DEF WrappedSpent, Spent, Holds, Wraps
<1>13. vault.mode = mode /\ vault.at = 0 /\ vault.dek = (IF mode = "password" THEN 1 ELSE 0) /\ vault.pw = key
  BY <1>1
<1>14. VaultOK
  <2>1. own = {} => wraps = NoWraps
    BY <1>1 DEF NoWraps
  <2> QED BY <1>2, <1>3, <1>11, <1>13, <2>1 DEF VaultOK, Settled
<1>15. DeksAgree
  <2>1. \A p \in Wrapped : wraps[p] = 1
    BY <1>1, <1>3, <1>11
  <2>2. KeyDeks = {}
    BY <1>2 DEF KeyDeks, NoKeys
  <2> QED BY <1>13, <2>1, <2>2 DEF DeksAgree, OwnDeks, PasswordDek
<1>16. SavesOK /\ EvictedOut
  BY <1>2 DEF SavesOK, EvictedOut
<1>17. PasswordOpens
  BY <1>1, <1>4, <1>13, UnlockAssumption DEF PasswordOpens, Creds
<1>18. PasskeyOpens
  BY <1>1, <1>3, <1>11, <1>13 DEF PasskeyOpens, Usable
<1> QED BY <1>5, <1>9, <1>10, <1>12, <1>14, <1>15, <1>16, <1>17, <1>18 DEF UnlockInv, RowsKept

LEMMA UnlockStutters ==
  ASSUME UnlockInv, UNCHANGED unlockVars
  PROVE  UnlockInv'
<1>1. TabsApart' /\ RequestsApart' /\ WrappedSpent'
  BY DEF UnlockInv, RowsKept, TabsApart, RequestsApart, WrappedSpent, Spent, Holds, Wraps, Live,
         Wrapped, unlockVars, rows
<1>2. UnlockShapes'
  BY DEF UnlockInv, UnlockShapes, RowShapes, ReqOK, TabOK, unlockVars, rows, history
<1>3. Framed
  BY <1>1, <1>2 DEF UnlockShapes, Framed, Spent, Holds, Wraps, Live, Settled, unlockVars
<1>4. RowsAtRest
  BY DEF RowsAtRest, unlockVars
<1> QED BY <1>3, <1>4, AtRestStill, Assembled

(***************************************************************************)
(* The rows, the requests on them and the tabs agree, for every number of  *)
(* tabs, passkeys and requests: a passkey is wrapped once, a wrap's stamp   *)
(* names one vault, and every wrap there is holds the same DEK.            *)
(***************************************************************************)
THEOREM WaysInAgree == UnlockSpec => []UnlockInv
<1>1. UnlockInit => UnlockInv
  BY UnlockStarts
<1>2. UnlockInv /\ [UnlockNext]_unlockVars => UnlockInv'
  <2> SUFFICES ASSUME UnlockInv, [UnlockNext]_unlockVars PROVE UnlockInv'
    OBVIOUS
  <2>1. CASE UnlockNext
    BY <2>1, ServeKeeps, UseKeeps DEF UnlockNext
  <2>2. CASE UNCHANGED unlockVars
    BY <2>2, UnlockStutters
  <2> QED BY <2>1, <2>2
<1> QED BY <1>1, <1>2, PTL DEF UnlockSpec

LEMMA WaysInOpen ==
  ASSUME UnlockInv
  PROVE  EveryWayInOpensTheVault
<1>0. RowsKept
  BY DEF UnlockInv
<1>1. WaysIn \subseteq OwnDeks \cup KeyDeks
  BY DEF WaysIn, OwnDeks, Usable
<1>2. OneDek
  <2> SUFFICES ASSUME ~stray PROVE Cardinality(WaysIn) <= 1
    BY DEF OneDek
  <2>1. \A d, e \in WaysIn : d = e
    BY <1>0, <1>1 DEF RowsKept, DeksAgree
  <2>2. WaysIn = {} \/ \E d : WaysIn = {d}
    BY <2>1
  <2> HIDE DEF WaysIn
  <2>3. WaysIn = {} => Cardinality(WaysIn) = 0
    BY FS_EmptySet
  <2>4. ASSUME NEW d, WaysIn = {d} PROVE Cardinality(WaysIn) = 1
    BY <2>4, FS_Singleton
  <2> QED BY <2>2, <2>3, <2>4
<1>3. ResumesItsVault
  <2> SUFFICES ASSUME NEW t \in Browsers, saved[t] # Null, ~stray, saved[t].stamp = Stamped,
                      WaysIn # {}
               PROVE  saved[t].dek \in WaysIn
    BY DEF ResumesItsVault
  <2>1. SaveOK(saved[t]) /\ DeksAgree /\ VaultOK /\ vault \in Vaults
    BY <1>0 DEF RowsKept, SavesOK, RowShapes
  <2>2. saved[t].stamp.mode = vault.mode
        /\ (vault.mode = "password" => saved[t].stamp.at = vault.at)
        /\ (vault.mode = "passkey" => saved[t].stamp.wrapped = Wrapped)
    BY DEF Stamped, Stamp
  <2>3. CASE vault.mode = "password"
    BY <2>1, <2>2, <2>3 DEF SaveOK, WaysIn, PasswordDek
  <2>4. CASE vault.mode = "passkey"
    <3>1. PICK p \in Wrapped : TRUE
      BY <2>1, <2>4 DEF VaultOK
    <3>2. wraps[p] = saved[t].dek
      BY <2>1, <2>2, <2>4, <3>1 DEF SaveOK, Wrapped
    <3>3. saved[t].dek \in OwnDeks
      BY <3>1, <3>2 DEF OwnDeks
    <3>4. \A d \in WaysIn : d = saved[t].dek
      BY <1>1, <2>1, <3>3 DEF DeksAgree
    <3> QED BY <3>4
  <2>5. CASE vault.mode = "none"
    BY <2>1, <2>5 DEF VaultOK, WaysIn, PasswordDek, Usable, Wrapped, KeyDeks, NoWraps, NoKeys
  <2> QED BY <2>1, <2>3, <2>4, <2>5 DEF Vaults, Modes
<1> QED BY <1>0, <1>2, <1>3 DEF EveryWayInOpensTheVault, RowsKept

(***************************************************************************)
(* Rows, requests and tabs keep the shape the code gives them.             *)
(***************************************************************************)
THEOREM UnlockTypeCorrect == UnlockSpec => []UnlockTypeOK
<1>1. UnlockInv => UnlockTypeOK
  <2> SUFFICES ASSUME UnlockInv PROVE UnlockTypeOK
    OBVIOUS
  <2>1. RowShapes /\ VaultOK
    BY DEF UnlockInv, RowsKept
  <2>2. \A n \in Requests : request[n].kind \in Kinds \cup {"none"}
    BY DEF UnlockInv, UnlockShapes, Reqs
  <2>3. \A t \in Browsers : tab[t].dek \in 0..MaxDeks /\ (saved[t] # Null => saved[t].stamp \in Stamps)
    BY <2>1 DEF UnlockInv, UnlockShapes, TabRecs, RowShapes, Saves
  <2> QED BY <2>1, <2>2, <2>3 DEF UnlockTypeOK, RowShapes, VaultOK
<1> QED BY <1>1, WaysInAgree, PTL

(***************************************************************************)
(* Whoever signs in opens the vault the records are under, for any number   *)
(* of tabs, passkeys, CLI keys and requests in flight together.            *)
(***************************************************************************)
THEOREM EveryWayInOpens == UnlockSpec => []EveryWayInOpensTheVault
BY WaysInAgree, WaysInOpen, PTL

\* Only a request of a session that stands plants a password or a key.
LEMMA PlantsSignedIn ==
  ASSUME UnlockInv, UnlockNext, NEW n \in Requests, request[n].tab \in evicted,
         ~request[n].ok, request'[n].ok
  PROVE  hash' \in {hash, Null} /\ \A k \in CliKeys : cliKeys'[k] \in {cliKeys[k], 0}
<1>0. ~session[request[n].tab] /\ request \in [Requests -> Reqs]
  BY DEF UnlockInv, RowsKept, EvictedOut, UnlockShapes
<1>1. ASSUME NEW t \in Browsers, Use(t) PROVE hash' = hash /\ cliKeys' = cliKeys
  <2>1. RegisterPasskey(t) \/ rows' = rows
    BY <1>1 DEF Use, createPasswordVault, WrapUnderPasskey, switchModeToPassword,
       changePasswordOfSession, removePasskey, approveCliLogin, revokeCliKey, resetVaultAccount,
       DeleteMyAccount, SendChange, Answer, Fail, SignInWithPassword, SignInWithPasskey,
       SignInByLink, SignedIn, OpenVault, unlockKeysOf, resumeSession, SignOut
  <2> QED BY <2>1 DEF RegisterPasskey, rows
<1>2. ASSUME NEW m \in Requests, Serve(m)
      PROVE  hash' \in {hash, Null} /\ \A k \in CliKeys : cliKeys'[k] \in {cliKeys[k], 0}
  <2>1. CASE Admit(m) \/ ReadFirst(m) \/ Abort(m) \/ DeleteProvisional(m)
    BY <2>1 DEF Admit, ReadFirst, Abort, DeleteProvisional, rows
  <2>2. CASE finalizePasskeyUnlock(m)
    BY <2>2 DEF finalizePasskeyUnlock
  <2>3. CASE removePasskeyUnlock(m)
    BY <2>3 DEF removePasskeyUnlock, SignOutOthers, NoKeys
  <2>4. CASE deleteCliKey(m)
    BY <2>4 DEF deleteCliKey, UnlockInv, RowsKept, RowShapes
  <2>5. CASE resetVault(m) \/ deleteAccount(m)
    BY <2>5 DEF resetVault, deleteAccount, KeysAfterReset, NoKeys
  <2>6. CASE finalizePasswordUnlock(m) \/ changePasswordUnlock(m) \/ createCliKey(m)
    <3>1. PICK x : request' = [request EXCEPT ![m] = x]
      BY <2>6 DEF finalizePasswordUnlock, changePasswordUnlock, createCliKey, Succeed, Refuse, To
    <3>2. m = n
      BY <1>0, <3>1
    <3>3. ~session[request[m].tab]
      BY <1>0, <3>2
    <3> QED BY <2>6, <3>3 DEF finalizePasswordUnlock, PasswordGuard, changePasswordUnlock, HashGuard,
            RewrapGuard, createCliKey, KeyGuard
  <2> QED BY <1>2, <2>1, <2>2, <2>3, <2>4, <2>5, <2>6 DEF Serve
<1> QED BY <1>1, <1>2 DEF UnlockNext

(***************************************************************************)
(* A device signed out by a password change or a removed passkey adds no   *)
(* CLI key and no password afterwards, whatever it had under way.          *)
(***************************************************************************)
THEOREM SignedOutStayOut == UnlockSpec => SignedOutPlantNothing
<1> DEFINE Planted(n) ==
       request[n].tab \in evicted /\ ~request[n].ok /\ request'[n].ok
         => hash' \in {hash, Null} /\ \A k \in CliKeys : cliKeys'[k] \in {cliKeys[k], 0}
<1>1. UnlockInv /\ [UnlockNext]_unlockVars => [\A n \in Requests : Planted(n)]_unlockVars
  BY PlantsSignedIn
<1> QED BY <1>1, WaysInAgree, PTL DEF UnlockSpec, SignedOutPlantNothing
=============================================================================
