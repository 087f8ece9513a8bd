----------------------------- MODULE DraftSend -----------------------------
(***************************************************************************)
(* One draft of a vault, and every send of it, by several clients (browser *)
(* tabs, devices, `yozz send` runs) that share nothing but the vault.      *)
(*                                                                         *)
(* The vault row of the draft is read and written by compare-and-swap on   *)
(* its version (compose/draft-vault.ts).  A client that claims the draft   *)
(* drives the send machine (compose/send-machine.ts): SMTP, the Sent copy, *)
(* the tombstone, with a record write between each, so that any other      *)
(* client can pick up what a dead one left behind.                         *)
(*                                                                         *)
(* Time appears only through leases: `fresh' is the set of claims whose    *)
(* date or last renewal is within SEND_LEASE_MS.                           *)
(***************************************************************************)
EXTENDS Naturals, FiniteSets

LOCAL INSTANCE TLC

CONSTANTS
  Clients,        \* what can run a step on the draft: a tab, a device, a CLI run
  Messages,       \* the Message-IDs that claims can mint
  Ops,            \* the opIds that claims and take-overs can mint
  None,           \* an optional field that is absent
  Homes,          \* where the copies of this From address can start out
  ProviderFiles,  \* does the mail server file what it accepts in Sent itself?
  MaxVersion,     \* bound: no edit past this content version
  MaxFaults       \* bound: crashes, lost answers and missed leases, together

HomeKinds == {"imap", "vault", "nofolder", "removed"}
States == {"submitting", "unconfirmed", "submitted", "copied"}

Sends == [msg : Messages, op : Ops, state : States]

Rows == [version : Nat, deleted : BOOLEAN, send : Sends \cup {None},
         unconf : Sends \cup {None}, sentId : Messages \cup {None},
         noCopy : BOOLEAN]

ASSUME ConstantsAssumption ==
  /\ None \notin Messages \cup Ops \cup Sends
  /\ Homes \subseteq HomeKinds
  /\ ProviderFiles \in BOOLEAN
  /\ MaxVersion \in Nat
  /\ MaxFaults \in Nat

\* No row: the draft was purged, or a client holds no handle.
NoRow == [version |-> 0, deleted |-> FALSE, send |-> None, unconf |-> None,
          sentId |-> None, noCopy |-> FALSE]

\* Where a client stands.  "decided": its vault operation has read the row and
\* the lease and has its write ready.  The others are the points of runSend.
BeforeAnswer == {"submit", "await"}
AfterAnswer  == {"accepted", "refused", "lost"}
Copying      == {"copy", "append", "copied", "nocopy", "failed"}
Running      == BeforeAnswer \cup AfterAnswer \cup Copying \cup {"complete"}
Kinds        == {"none", "again", "resume", "unconfirm", "finish", "delete", "settle"}
TakeOvers    == {"again", "resume"}

Idle == [pc |-> "idle", kind |-> "none", row |-> NoRow]

VARIABLES
  row,          \* the draft's vault record, as the server has it
  task,         \* what each client is doing, with the handle it holds
  fresh,        \* opIds whose claim or lease is recent
  home,         \* where the copies of this From address go now
  wire,         \* submissions whose answer nobody waits for, per message
  delivered,    \* times the SMTP server took each message
  late,         \* uploads of a copy whose connection was lost, per message
  copies,       \* copies of each message in Sent
  minted,       \* Message-IDs ever minted
  used,         \* opIds ever minted
  faults,       \* faults so far
  submissions,  \* history: how often each claim ended its DATA
  asked,        \* history: the claims a person's Send or "Send again" took
  again,        \* history: messages sent again
  letGo         \* history: messages the person discarded or replaced

records == <<row, task>>
mail    == <<wire, delivered, late, copies>>
mints   == <<minted, used>>
history == <<submissions, asked, again, letGo>>
vars    == <<row, task, fresh, home, wire, delivered, late, copies,
             minted, used, faults, submissions, asked, again, letGo>>

-----------------------------------------------------------------------------
(* The record's own questions, as compose/draft-record.ts asks them. *)

Live(r) == r.version > 0 /\ ~r.deleted

\* Mutant: a claim holds for ever, as if the lease never lapsed.
MutHeldForEver(r) == r.send # None /\ r.send.state # "unconfirmed"

\* A send still running: nobody may take it over.
heldSend(r) ==
  r.send # None /\ r.send.state # "unconfirmed" /\ r.send.op \in fresh

\* Mutant: only a held claim freezes the text.
MutFrozenWhileHeld(r) == heldSend(r)

isFrozenBySend(r) == r.send # None

\* The send whose SMTP answer nobody saw, if there is one.
unconfirmedSendOf(r) ==
  IF r.send = None THEN r.unconf
  ELSE IF \/ r.send.state = "unconfirmed"
          \/ r.send.state = "submitting" /\ ~heldSend(r)
       THEN r.send ELSE None

isAccepted(s) == s # None /\ s.state \in {"submitted", "copied"}

\* Mutant: a send that lapsed counts as accepted.
MutAcceptedWhenLapsed(r) == ~heldSend(r) /\ r.send # None

\* Neither running nor in question: SMTP took it and only the copy is left.
openSendAccepted(r) ==
  ~heldSend(r) /\ unconfirmedSendOf(r) = None /\ r.send # None

Bump(r) == [r EXCEPT !.version = r.version + 1]

\* Mutant: the record names the machine's next point, not the state.
MutAdvanceToPoint(r, state) ==
  [Bump(r) EXCEPT !.send.state = IF state = "copied" THEN "complete" ELSE state]

advanceSend(r, state) == [Bump(r) EXCEPT !.send.state = state]
releaseSend(r)        == [Bump(r) EXCEPT !.send = None]

tombstoneOfSent(r, m, withoutCopy) ==
  [Bump(r) EXCEPT !.send = None, !.unconf = None, !.deleted = TRUE,
                  !.sentId = m, !.noCopy = withoutCopy]

-----------------------------------------------------------------------------
(* A client's moves. *)

Op(c)  == task[c].row.send.op
Msg(c) == task[c].row.send.msg

Goto(c, pc)    == task' = [task EXCEPT ![c].pc = pc]
Stop(c)        == task' = [task EXCEPT ![c] = Idle]
Decide(c, k, r) == task' = [task EXCEPT ![c] = [pc |-> "decided", kind |-> k, row |-> r]]

\* Mutant: a resumed send starts from the top.
MutStartOver(s) == "submit"

\* Where runSend starts, by the state of the send it was handed.
StartPc(s) == IF s.state = "submitting" THEN "submit"
              ELSE IF s.state = "submitted" THEN "copy" ELSE "complete"

Drive(c, r) ==
  task' = [task EXCEPT ![c] = [pc |-> StartPc(r.send), kind |-> "none", row |-> r]]

Fault == faults < MaxFaults /\ faults' = faults + 1

(***************************************************************************)
(* The person's writes.                                                    *)
(***************************************************************************)

\* replaceDraft.  A frozen draft refuses it; an unconfirmed send survives it.
Edit ==
  /\ Live(row) /\ ~isFrozenBySend(row)
  /\ row.version < MaxVersion
  /\ row' = Bump(row)
  /\ UNCHANGED <<task, fresh, home, mail, mints, faults, history>>

\* claimOf, then claimSend: phase (0).  The text on screen goes in with the
\* claim, so a send put aside is replaced.  The answer may be lost: the claim
\* is then in the vault with nobody to run it.
Claim(c) ==
  /\ task[c].pc = "idle" /\ home # "removed"
  /\ Live(row) /\ ~isFrozenBySend(row)
  /\ \E m \in Messages \ minted, o \in Ops \ used :
       LET s == [msg |-> m, op |-> o, state |-> "submitting"]
           r == [Bump(row) EXCEPT !.send = s, !.unconf = None]
       IN /\ row' = r
          /\ fresh' = fresh \cup {o}
          /\ minted' = minted \cup {m}
          /\ used' = used \cup {o}
          /\ asked' = asked \cup {o}
          /\ letGo' = letGo \cup
               IF row.unconf = None THEN {} ELSE {row.unconf.msg}
          /\ \/ Drive(c, r) /\ UNCHANGED faults
             \/ Fault /\ UNCHANGED task
  /\ UNCHANGED <<home, mail, submissions, again>>

\* Mutant: only a send in question can be taken over.
MutReclaimAsked(c, kind) ==
  /\ kind \in TakeOvers
  /\ task[c].pc = "idle"
  /\ Live(row) /\ unconfirmedSendOf(row) # None
  /\ kind = "resume" => isAccepted(row.send)
  /\ \E o \in Ops \ used :
       /\ used' = used \cup {o}
       /\ Decide(c, kind, [Bump(row) EXCEPT
            !.send = [unconfirmedSendOf(row) EXCEPT !.op = o, !.state = "submitting"],
            !.unconf = None])
  /\ UNCHANGED <<row, fresh, home, mail, minted, faults, history>>

\* reclaimSend up to its write.  The person may take over anything nobody
\* runs; an unlock (resumeSends) and `yozz send` only what SMTP accepted.
BeginReclaim(c, kind) ==
  /\ kind \in TakeOvers
  /\ task[c].pc = "idle"
  /\ Live(row) /\ ~heldSend(row)
  /\ kind = "resume" => isAccepted(row.send)
  /\ kind = "again" => home # "removed"
  /\ LET pending == IF unconfirmedSendOf(row) # None
                    THEN unconfirmedSendOf(row) ELSE row.send
     IN /\ pending # None
        /\ \E o \in Ops \ used :
             LET s == [pending EXCEPT
                         !.op = o,
                         !.state = IF @ = "unconfirmed" THEN "submitting" ELSE @]
             IN /\ used' = used \cup {o}
                /\ Decide(c, kind, [Bump(row) EXCEPT !.send = s, !.unconf = None])
  /\ UNCHANGED <<row, fresh, home, mail, minted, faults, history>>

\* Mutant: the send put aside stays claimed.
MutUnconfirmKeeps(c) ==
  /\ task[c].pc = "idle"
  /\ Live(row) /\ row.send # None /\ unconfirmedSendOf(row) # None
  /\ Decide(c, "unconfirm", [Bump(row) EXCEPT !.unconf = row.send])
  /\ UNCHANGED <<row, fresh, home, mail, mints, faults, history>>

\* unconfirmSend: "Back to editing".
BeginUnconfirm(c) ==
  /\ task[c].pc = "idle"
  /\ Live(row) /\ row.send # None /\ unconfirmedSendOf(row) # None
  /\ Decide(c, "unconfirm", [Bump(row) EXCEPT !.send = None, !.unconf = row.send])
  /\ UNCHANGED <<row, fresh, home, mail, mints, faults, history>>

\* finishWithoutCopy: the copy can never land, and the person lets it go.
BeginFinish(c) ==
  /\ task[c].pc = "idle"
  /\ Live(row) /\ openSendAccepted(row)
  /\ Decide(c, "finish", tombstoneOfSent(row, row.send.msg, TRUE))
  /\ UNCHANGED <<row, fresh, home, mail, mints, faults, history>>

\* deleteDraft: a claim nobody ran past "submitting" is the person's to drop.
\* The tombstone keeps it.
BeginDelete(c) ==
  /\ task[c].pc = "idle"
  /\ Live(row)
  /\ IF row.send = None THEN row.unconf = None
     ELSE row.send.state = "submitting" /\ ~heldSend(row)
  /\ Decide(c, "delete", [Bump(row) EXCEPT !.deleted = TRUE])
  /\ UNCHANGED <<row, fresh, home, mail, mints, faults, history>>

\* A sync of the mailbox finds the Message-ID of a send in question in Sent.
BeginSettle(c) ==
  /\ task[c].pc = "idle"
  /\ Live(row) /\ home = "imap"
  /\ LET s == unconfirmedSendOf(row)
     IN /\ s # None
        /\ copies[s.msg] > 0
        /\ Decide(c, "settle", tombstoneOfSent(row, s.msg, FALSE))
  /\ UNCHANGED <<row, fresh, home, mail, mints, faults, history>>

\* The compare-and-swap of a decided write.  Refused when the version moved;
\* otherwise it lands, its answer is lost, or it never arrives.
Commit(c) ==
  /\ task[c].pc = "decided"
  /\ LET r == task[c].row
         k == task[c].kind
         resends == k = "again" /\ r.send.state = "submitting"
     IN IF row.version # r.version - 1
        THEN Stop(c) /\ UNCHANGED <<row, fresh, faults, history>>
        ELSE \/ /\ row' = r
                /\ fresh' = IF k \in TakeOvers THEN fresh \cup {r.send.op} ELSE fresh
                /\ asked' = IF resends THEN asked \cup {r.send.op} ELSE asked
                /\ again' = IF resends THEN again \cup {r.send.msg} ELSE again
                /\ letGo' = IF k = "delete" /\ r.send # None
                            THEN letGo \cup {r.send.msg} ELSE letGo
                /\ \/ /\ IF k \in TakeOvers THEN Drive(c, r) ELSE Stop(c)
                      /\ UNCHANGED faults
                   \/ Fault /\ Stop(c)
                /\ UNCHANGED submissions
             \/ Fault /\ Stop(c) /\ UNCHANGED <<row, fresh, history>>
  /\ UNCHANGED <<home, mail, mints>>

\* purgeExpiredDrafts: 30 days after the tombstone.
Purge ==
  /\ row.deleted
  /\ row' = NoRow
  /\ UNCHANGED <<task, fresh, home, mail, mints, faults, history>>

-----------------------------------------------------------------------------
(***************************************************************************)
(* runSend.  One step per await.                                           *)
(***************************************************************************)

\* Mutant: a runner's write goes in without its base.
MutWriteBlind(c, r, ok) ==
  /\ row' = r
  /\ IF ok = "idle" THEN Stop(c)
     ELSE task' = [task EXCEPT ![c].pc = ok, ![c].row = r]
  /\ UNCHANGED faults

\* bumpVersion from the runner's handle.  `ok' is where the runner goes when
\* it reads that the write landed.  Otherwise it stops: the record moved on,
\* or the answer or the request was lost.
Write(c, r, ok) ==
  LET held == task[c].row
  IN IF row.version # held.version
     THEN Stop(c) /\ UNCHANGED <<row, faults>>
     ELSE \/ /\ row' = r
             /\ \/ /\ IF ok = "idle" THEN Stop(c)
                      ELSE task' = [task EXCEPT ![c].pc = ok, ![c].row = r]
                   /\ UNCHANGED faults
                \/ Fault /\ Stop(c)
          \/ Fault /\ Stop(c) /\ UNCHANGED row

\* A file cannot be read, or SMTP refuses before the end of DATA.
SubmitFails(c) ==
  /\ task[c].pc = "submit"
  /\ Goto(c, "refused")
  /\ UNCHANGED <<row, fresh, home, mail, mints, faults, history>>

\* The end of DATA is written.
EndData(c) ==
  /\ task[c].pc = "submit"
  /\ Goto(c, "await")
  /\ submissions' = [submissions EXCEPT ![Op(c)] = @ + 1]
  /\ UNCHANGED <<row, fresh, home, mail, mints, faults, asked, again, letGo>>

\* The server takes the message and the client reads that it did, or does not.
Accept(c) ==
  /\ task[c].pc = "await"
  /\ delivered' = [delivered EXCEPT ![Msg(c)] = @ + 1]
  /\ \/ Goto(c, "accepted") /\ UNCHANGED faults
     \/ Goto(c, "lost") /\ Fault
  /\ UNCHANGED <<row, fresh, home, wire, late, copies, mints, history>>

Refuse(c) ==
  /\ task[c].pc = "await"
  /\ Goto(c, "refused")
  /\ UNCHANGED <<row, fresh, home, mail, mints, faults, history>>

\* The connection is lost with the server still deciding.
LoseAnswer(c) ==
  /\ task[c].pc = "await"
  /\ Fault
  /\ Goto(c, "lost")
  /\ wire' = [wire EXCEPT ![Msg(c)] = @ + 1]
  /\ UNCHANGED <<row, fresh, home, delivered, late, copies, mints, history>>

\* Mutant: no answer counts as a yes.
MutLostMeansSent(c) ==
  /\ task[c].pc = "lost"
  /\ Write(c, advanceSend(task[c].row, "submitted"), "idle")
  /\ UNCHANGED <<fresh, home, mail, mints, history>>

\* Mutant: no answer counts as a no.
MutLostMeansRefused(c) ==
  /\ task[c].pc = "lost"
  /\ Write(c, releaseSend(task[c].row), "idle")
  /\ UNCHANGED <<fresh, home, mail, mints, history>>

RecordLost(c) ==
  /\ task[c].pc = "lost"
  /\ Write(c, advanceSend(task[c].row, "unconfirmed"), "idle")
  /\ UNCHANGED <<fresh, home, mail, mints, history>>

Release(c) ==
  /\ task[c].pc = "refused"
  /\ Write(c, releaseSend(task[c].row), "idle")
  /\ UNCHANGED <<fresh, home, mail, mints, history>>

RecordAccepted(c) ==
  /\ task[c].pc = "accepted"
  /\ Write(c, advanceSend(task[c].row, "submitted"), "copy")
  /\ UNCHANGED <<fresh, home, mail, mints, history>>

\* storeSentRecord: created if absent, and one that is there already is a
\* success.  A throw ends the run in the browser; `yozz send' catches it.
CopyToVault(c) ==
  /\ task[c].pc = "copy" /\ home = "vault"
  /\ \/ /\ copies' = [copies EXCEPT ![Msg(c)] = 1]
        /\ \/ Goto(c, "copied") /\ UNCHANGED faults
           \/ Fault /\ (Stop(c) \/ Goto(c, "failed"))
     \/ Fault /\ (Stop(c) \/ Goto(c, "failed")) /\ UNCHANGED copies
  /\ UNCHANGED <<row, fresh, home, wire, delivered, late, mints, history>>

\* The address was removed since the claim: no copy, and no error.
CopyNowhere(c) ==
  /\ task[c].pc = "copy" /\ home = "removed"
  /\ Goto(c, "copied")
  /\ UNCHANGED <<row, fresh, home, mail, mints, faults, history>>

\* storeSentCopy's first task: find the folder, search it for the Message-ID.
\* A server that refuses the search gets the copy anyway.
SearchSent(c) ==
  /\ task[c].pc = "copy" /\ home \in {"imap", "nofolder"}
  /\ \/ /\ home = "nofolder" /\ Goto(c, "nocopy") /\ UNCHANGED faults
     \/ /\ home = "imap"
        /\ Goto(c, IF copies[Msg(c)] > 0 THEN "copied" ELSE "append")
        /\ UNCHANGED faults
     \/ home = "imap" /\ Fault /\ Goto(c, "append")
     \/ Fault /\ Goto(c, "failed")
  /\ UNCHANGED <<row, fresh, home, mail, mints, history>>

\* Its second task, never retried.  A lost connection leaves the upload
\* stored, with the server, or nowhere.
Append(c) ==
  /\ task[c].pc = "append"
  /\ \/ /\ copies' = [copies EXCEPT ![Msg(c)] = @ + 1]
        /\ UNCHANGED late
        /\ \/ Goto(c, "copied") /\ UNCHANGED faults
           \/ Fault /\ Goto(c, "failed")
     \/ /\ Fault /\ Goto(c, "failed")
        /\ \/ late' = [late EXCEPT ![Msg(c)] = @ + 1]
           \/ UNCHANGED late
        /\ UNCHANGED copies
  /\ UNCHANGED <<row, fresh, home, wire, delivered, mints, history>>

RecordCopied(c) ==
  /\ task[c].pc = "copied"
  /\ Write(c, advanceSend(task[c].row, "copied"), "complete")
  /\ UNCHANGED <<fresh, home, mail, mints, history>>

\* No Sent folder to copy into, and no retry could find one.
CompleteWithoutCopy(c) ==
  /\ task[c].pc = "nocopy"
  /\ Write(c, tombstoneOfSent(task[c].row, Msg(c), TRUE), "idle")
  /\ UNCHANGED <<fresh, home, mail, mints, history>>

\* The claim is dated back, so the next run need not wait for it to lapse.
LetGoOfClaim(c) ==
  /\ task[c].pc = "failed"
  /\ Write(c, Bump(task[c].row), "idle")
  /\ fresh' = IF row' # row THEN fresh \ {Op(c)} ELSE fresh
  /\ UNCHANGED <<home, mail, mints, history>>

Complete(c) ==
  /\ task[c].pc = "complete"
  /\ Write(c, tombstoneOfSent(task[c].row, Msg(c), FALSE), "idle")
  /\ UNCHANGED <<fresh, home, mail, mints, history>>

-----------------------------------------------------------------------------
(* What no client decides: death, time and the mail server. *)

\* A closed tab, a killed process.  What it had sent may still arrive.
Crash(c) ==
  /\ task[c].pc # "idle"
  /\ Fault
  /\ Stop(c)
  /\ IF task[c].pc = "await"
     THEN wire' = [wire EXCEPT ![Msg(c)] = @ + 1] ELSE UNCHANGED wire
  /\ \/ task[c].pc = "append" /\ late' = [late EXCEPT ![Msg(c)] = @ + 1]
     \/ UNCHANGED late
  /\ UNCHANGED <<row, fresh, home, delivered, copies, mints, history>>

Runs(c, o) == task[c].pc \in Running /\ Op(c) = o

\* A lease nobody renews lapses.  One whose holder is alive lapses when its
\* renewals are lost, its timers sleep, or the ceiling ended them.
Lapse(o) ==
  /\ o \in fresh
  /\ fresh' = fresh \ {o}
  /\ IF \E c \in Clients : Runs(c, o) THEN Fault ELSE UNCHANGED faults
  /\ UNCHANGED <<row, task, home, mail, mints, history>>

\* keepSendLease's next beat.
Renew(c) ==
  /\ task[c].pc \in Running
  /\ Op(c) \notin fresh
  /\ fresh' = fresh \cup {Op(c)}
  /\ UNCHANGED <<row, task, home, mail, mints, faults, history>>

\* The server makes up its mind about a submission nobody waits for.
LateAnswer(m) ==
  /\ wire[m] > 0
  /\ wire' = [wire EXCEPT ![m] = @ - 1]
  /\ \/ delivered' = [delivered EXCEPT ![m] = @ + 1]
     \/ UNCHANGED delivered
  /\ UNCHANGED <<row, task, fresh, home, late, copies, mints, faults, history>>

\* It goes on storing an upload after its connection is gone, or drops it.
LateStore(m) ==
  /\ late[m] > 0
  /\ late' = [late EXCEPT ![m] = @ - 1]
  /\ \/ copies' = [copies EXCEPT ![m] = @ + 1]
     \/ UNCHANGED copies
  /\ UNCHANGED <<row, task, fresh, home, wire, delivered, mints, faults, history>>

\* Some servers file what they accept over SMTP in Sent themselves.
ProviderFilesSent(m) ==
  /\ ProviderFiles /\ home = "imap"
  /\ delivered[m] > 0 /\ copies[m] = 0
  /\ copies' = [copies EXCEPT ![m] = 1]
  /\ UNCHANGED <<row, task, fresh, home, wire, delivered, late, mints, faults, history>>

\* The person removes the address and its mailbox: nothing is claimed for it
\* any more, and a send already claimed is finished.
RemoveAddress ==
  /\ home \in {"imap", "nofolder"}
  /\ home' = "removed"
  /\ UNCHANGED <<row, task, fresh, mail, mints, faults, history>>

-----------------------------------------------------------------------------

\* createDraft has just put version 1.
Init ==
  /\ row = [NoRow EXCEPT !.version = 1]
  /\ task = [c \in Clients |-> Idle]
  /\ fresh = {}
  /\ home \in Homes
  /\ wire = [m \in Messages |-> 0]
  /\ delivered = [m \in Messages |-> 0]
  /\ late = [m \in Messages |-> 0]
  /\ copies = [m \in Messages |-> 0]
  /\ minted = {}
  /\ used = {}
  /\ faults = 0
  /\ submissions = [o \in Ops |-> 0]
  /\ asked = {}
  /\ again = {}
  /\ letGo = {}

Person(c) ==
  \/ Claim(c)
  \/ BeginReclaim(c, "again")
  \/ BeginUnconfirm(c)
  \/ BeginFinish(c)
  \/ BeginDelete(c)

Unlock(c) == BeginReclaim(c, "resume") \/ BeginSettle(c)

Submission(c) ==
  \/ SubmitFails(c) \/ EndData(c)
  \/ Accept(c) \/ Refuse(c) \/ LoseAnswer(c)
  \/ RecordLost(c) \/ Release(c) \/ RecordAccepted(c)

Filing(c) ==
  \/ CopyToVault(c) \/ CopyNowhere(c) \/ SearchSent(c) \/ Append(c)
  \/ RecordCopied(c) \/ CompleteWithoutCopy(c) \/ LetGoOfClaim(c) \/ Complete(c)

Step(c) == Commit(c) \/ Submission(c) \/ Filing(c)

World ==
  \/ Edit \/ Purge \/ RemoveAddress
  \/ \E o \in Ops : Lapse(o)
  \/ \E m \in Messages : LateAnswer(m) \/ LateStore(m) \/ ProviderFilesSent(m)

Next ==
  \/ World
  \/ \E c \in Clients : Person(c) \/ Unlock(c) \/ Step(c) \/ Crash(c) \/ Renew(c)

Spec == Init /\ [][Next]_vars

-----------------------------------------------------------------------------
(***************************************************************************)
(* The record keeps the shape of draftSchema and each client a place in    *)
(* runSend.                                                                *)
(***************************************************************************)
TypeOK ==
  /\ row \in Rows
  /\ task \in [Clients -> [pc : {"idle", "decided"} \cup Running,
                         kind : Kinds, row : Rows]]
  /\ fresh \subseteq Ops
  /\ home \in HomeKinds
  /\ wire \in [Messages -> Nat]
  /\ delivered \in [Messages -> Nat]
  /\ late \in [Messages -> Nat]
  /\ copies \in [Messages -> Nat]
  /\ minted \subseteq Messages
  /\ used \subseteq Ops
  /\ faults \in Nat
  /\ submissions \in [Ops -> Nat]
  /\ asked \subseteq Ops
  /\ again \subseteq Messages
  /\ letGo \subseteq Messages

\* The message the server may hold: taken, or still with it.
MayBeOut(m) ==
  \/ delivered[m] > 0
  \/ wire[m] > 0
  \/ \E c \in Clients : task[c].pc = "await" /\ Msg(c) = m

Mentions(r, m) ==
  \/ r.send # None /\ r.send.msg = m
  \/ r.unconf # None /\ r.unconf.msg = m
  \/ r.sentId = m

(***************************************************************************)
(* A person's Send or "Send again" ends DATA at most once, and nothing     *)
(* else ever does: a resumed send, a claim whose answer was lost and a     *)
(* runner whose claim was taken over submit nothing.                       *)
(***************************************************************************)
OneSubmissionPerAsk ==
  \A o \in Ops : submissions[o] <= IF o \in asked THEN 1 ELSE 0

(***************************************************************************)
(* The versioned id names one record: two handles with the same version    *)
(* are the same record, whoever holds them.  Every compare-and-swap of the *)
(* send machine rests on it.                                               *)
(***************************************************************************)
VersionNamesOneRecord ==
  /\ \A c \in Clients :
       task[c].pc \in Running /\ task[c].row.version = row.version
         => task[c].row = row
  /\ \A c, d \in Clients :
       /\ task[c].pc \in Running /\ task[d].pc \in Running
       /\ task[c].row.version = task[d].row.version
       => c = d

(***************************************************************************)
(* What the record says of a message is true of the mail servers: sent     *)
(* means delivered, copied means a copy was stored (unless its address is  *)
(* gone), and a tombstone names a message that went out.                   *)
(***************************************************************************)
RecordIsTruthful ==
  /\ isAccepted(row.send) => delivered[row.send.msg] > 0
  /\ row.send # None /\ row.send.state = "copied"
       => copies[row.send.msg] > 0 \/ home = "removed"
  /\ row.sentId # None
       => /\ delivered[row.sentId] > 0
          /\ row.noCopy \/ copies[row.sentId] > 0 \/ home = "removed"

(***************************************************************************)
(* A message the server may hold is remembered by the record until the     *)
(* tombstone is purged, unless the person let it go (discarded the draft,  *)
(* replaced the send put aside) or sent it again.                          *)
(***************************************************************************)
MaybeSentIsRemembered ==
  \A m \in Messages :
    MayBeOut(m) /\ row.version > 0
      => Mentions(row, m) \/ m \in letGo \cup again

(***************************************************************************)
(* Once SMTP's yes is recorded, no write on any client takes it back: the  *)
(* record keeps the message, never returns to a state that submits, and    *)
(* leaves only as a tombstone of that message.                             *)
(***************************************************************************)
AcceptedIsFinal ==
  [][isAccepted(row.send) =>
       \/ /\ isAccepted(row'.send)
          /\ row'.send.msg = row.send.msg
          /\ row.send.state = "copied" => row'.send.state = "copied"
       \/ row'.deleted /\ row'.sentId = row.send.msg]_row

-----------------------------------------------------------------------------
(* The promise, read off the vault row and the mail server. *)

StageAt ==
  IF row.version = 0 THEN "purged"
  ELSE IF row.sentId # None THEN "done"
  ELSE IF row.deleted THEN "discarded"
  ELSE IF row.send # None
       THEN IF row.send.state = "submitting" THEN "trying"
            ELSE IF row.send.state = "unconfirmed" THEN "asking" ELSE "sent"
  ELSE IF row.unconf # None THEN "aside" ELSE "draft"

StageMsg ==
  IF row.sentId # None THEN row.sentId
  ELSE IF row.send # None THEN row.send.msg
  ELSE IF row.unconf # None THEN row.unconf.msg ELSE None

Promise == INSTANCE SendPromise WITH
  stage <- [at |-> StageAt, msg |-> StageMsg],
  tried <- minted,
  out <- {m \in Messages : delivered[m] > 0}

(***************************************************************************)
(* The clients, the compare-and-swap and the leases together keep the      *)
(* promise: every step of theirs is one of its steps or changes nothing.   *)
(***************************************************************************)
KeepsPromise == Promise!Spec

-----------------------------------------------------------------------------
(***************************************************************************)
(* Fairness: every network call ends or its client dies, time passes for   *)
(* a claim nobody runs, and some client unlocks the vault again.           *)
(***************************************************************************)
LapseDead(o) == (\A c \in Clients : ~Runs(c, o)) /\ Lapse(o)

Fairness ==
  /\ \A c \in Clients : WF_vars(Step(c))
  /\ \A o \in Ops : WF_vars(LapseDead(o))
  /\ WF_vars(\E c \in Clients : BeginReclaim(c, "resume"))

FairSpec == Spec /\ Fairness

(***************************************************************************)
(* No claim shows a draft as "sending" for ever, whoever dies when: it     *)
(* ends, or it lapses and somebody may settle it.                          *)
(***************************************************************************)
HeldEnds == heldSend(row) ~> ~heldSend(row)

(***************************************************************************)
(* What SMTP accepted is finished by some later unlock, however many runs  *)
(* die on the way: the draft becomes a tombstone.  `used = Ops' is only    *)
(* the bound on take-overs.                                                *)
(***************************************************************************)
AcceptedIsFinished ==
  isAccepted(row.send) ~> (row.sentId # None \/ row.version = 0 \/ used = Ops)

-----------------------------------------------------------------------------
\* The clients, the messages and the presses of Send are interchangeable.
Symmetry == Permutations(Clients) \cup Permutations(Messages) \cup Permutations(Ops)

-----------------------------------------------------------------------------
(* What a comment or a help text says and a run refutes. *)

(***************************************************************************)
(* "Nothing went out, so the person should have their draft back": a live  *)
(* draft with no send in it is one none of whose messages the server may   *)
(* hold, but for those the person let go.                                  *)
(***************************************************************************)
FreeMeansNothingWentOut ==
  Live(row) /\ row.send = None /\ row.unconf = None
    => \A m \in Messages : MayBeOut(m) => m \in letGo

(***************************************************************************)
(* "Searches the folder for its own Message-ID before appending, so a      *)
(* later run finds a copy that landed": Sent never holds two.              *)
(***************************************************************************)
OneSentCopy == \A m \in Messages : copies[m] <= 1

(***************************************************************************)
(* "It went out with no copy kept in Sent, which is what a repeated `yozz  *)
(* send' reports": a tombstone without the mark has its copy.              *)
(***************************************************************************)
UnmarkedMeansCopied ==
  row.sentId # None /\ ~row.noCopy => copies[row.sentId] > 0

=============================================================================
