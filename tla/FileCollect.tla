----------------------------- MODULE FileCollect -----------------------------
(***************************************************************************)
(* The files of a vault and what keeps them: a draft that names its        *)
(* attachments, the sent record it becomes, a mailbox's cache snapshot,    *)
(* and the collector that every unlock runs, which lists those records one *)
(* type after the other and then deletes the files none of them named.     *)
(*                                                                         *)
(* The records' compare-and-swap is VaultRecords'; here a write is one     *)
(* step.  An upload and a delete are one step each on the worker.          *)
(***************************************************************************)
EXTENDS Naturals, FiniteSets

CONSTANTS
  Devices,     \* the clients of one vault
  OldBuilds,   \* those that cannot read a sent record a newer build wrote
  Casts,       \* who composes, syncs and unlocks, and how many files they mint
  Files,       \* the file ids clients mint, each used once
  None,        \* no file, no row, no editor
  MaxVersion   \* bound: the draft's version, for a save and a thaw

ASSUME ConstantsAssumption ==
  /\ OldBuilds \subseteq Devices
  /\ Casts \subseteq [composing : SUBSET Devices, syncing : SUBSET Devices,
                      unlocking : SUBSET Devices, mints : Nat]
  /\ None \notin Files
  /\ MaxVersion \in Nat

FileSets == SUBSET Files

\* none: no row.  claimed: a send freezes it.  accepted: SMTP took the message.
\* discarded and sent: tombstones.  gone: purged.
States  == {"none", "live", "claimed", "accepted", "discarded", "sent", "gone"}
Drafts  == [ver : Nat, state : States, files : FileSets, frozen : FileSets]
Editors == [ver : Nat, files : FileSets]

\* Where a collector stands, and a snapshot writer.
CollectPcs == {"idle", "drafts", "sent", "snapshots", "addresses", "files", "remove"}
Collectors == [pc : CollectPcs, old : FileSets, named : FileSets, snap : FileSets]
WritePcs   == {"idle", "uploaded", "replaced"}
Writers    == [pc : WritePcs, file : Files \cup {None}, over : Files \cup {None}]

VARIABLES
  cast,      \* who does what
  draft,     \* the draft's record
  sent,      \* what the sent record names, or None
  snapshot,  \* the file the snapshot record names, or None
  address,   \* whether the snapshot's address is in the vault
  vaultOnly, \* whether the draft's address has no mailbox
  editor,    \* the composer open on the draft, on each device
  uploads,   \* what each file's uploader knows of it
  stored,    \* the files the worker holds
  old,       \* the files past their grace
  copying,   \* the files a run's sent record will name, None when no run holds one
  collector, \* each device's collectFiles
  writer,    \* each device's snapshot writer
  late       \* history: files named against the collector's assumption

records == <<cast, draft, sent, snapshot, address, vaultOnly, copying>>
clients == <<editor, collector, writer>>
vars    == <<records, clients, uploads, stored, old, late>>

\* A purged row names nothing; every other one, tombstones included, names
\* what it holds and what its sends froze.
fileIdsOfDraft(d) == IF d.state = "gone" THEN {} ELSE d.files \cup d.frozen

fileIdsOfSent == IF sent = None THEN {} ELSE sent

SnapshotNames == IF address /\ snapshot # None THEN {snapshot} ELSE {}

Named == fileIdsOfDraft(draft) \cup fileIdsOfSent \cup SnapshotNames

\* An id not minted yet.
Fresh == {f \in Files : /\ uploads[f] = "new"
                        /\ Cardinality({g \in Files : uploads[g] # "new"}) < cast.mints}

\* Files an editor shows whose upload answered: what a save states.
Uploaded(d) == {f \in editor[d].files : uploads[f] = "uploaded"}

\* A record comes to name fs.
Naming(fs) == late' = late \cup {f \in fs : f \in old /\ f \notin Named}

Settled == {"live", "none"}

-----------------------------------------------------------------------------
(* The composer. *)

Open(d) ==
  /\ editor[d] = None
  /\ draft.state \in Settled
  /\ editor' = [editor EXCEPT ![d] = [ver |-> draft.ver, files |-> draft.files]]
  /\ UNCHANGED <<records, collector, writer, uploads, stored, old, late>>

Close(d) ==
  /\ editor[d] # None
  /\ editor' = [editor EXCEPT ![d] = None]
  /\ UNCHANGED <<records, collector, writer, uploads, stored, old, late>>

\* A fresh id per upload, also for a retry.
Attach(d) ==
  /\ editor[d] # None
  /\ \E f \in Fresh :
       /\ uploads' = [uploads EXCEPT ![f] = "uploading"]
       /\ editor' = [editor EXCEPT ![d].files = @ \cup {f}]
  /\ UNCHANGED <<records, collector, writer, stored, old, late>>

Detach(d) ==
  /\ editor[d] # None
  /\ \E f \in editor[d].files : editor' = [editor EXCEPT ![d].files = @ \ {f}]
  /\ UNCHANGED <<records, collector, writer, uploads, stored, old, late>>

\* The worker has the file; or it has not; or it has, and its yes is lost.
Upload(f) ==
  /\ uploads[f] = "uploading"
  /\ \/ uploads' = [uploads EXCEPT ![f] = "uploaded"] /\ stored' = stored \cup {f}
     \/ uploads' = [uploads EXCEPT ![f] = "failed"] /\ stored' \in {stored, stored \cup {f}}
  /\ UNCHANGED <<records, clients, old, late>>

\* createDraft, replaceDraft: a whole snapshot, if its version still stands.
Save(d) ==
  /\ editor[d] # None
  /\ draft.state \in Settled
  /\ editor[d].ver = draft.ver /\ draft.ver < MaxVersion
  /\ draft' = [draft EXCEPT !.ver = @ + 1, !.state = "live", !.files = Uploaded(d)]
  /\ editor' = [editor EXCEPT ![d].ver = draft.ver + 1]
  /\ Naming(Uploaded(d))
  /\ UNCHANGED <<cast, sent, snapshot, address, vaultOnly, copying, collector, writer,
                 uploads, stored, old>>

\* A conflict: the person keeps the other device's version or their own.
resolveDraftConflict(d) ==
  /\ editor[d] # None
  /\ draft.state \in Settled /\ editor[d].ver # draft.ver
  /\ \E files \in {editor[d].files, draft.files} :
       editor' = [editor EXCEPT ![d] = [ver |-> draft.ver, files |-> files]]
  /\ UNCHANGED <<records, collector, writer, uploads, stored, old, late>>

-----------------------------------------------------------------------------
(* A send, as far as files go. *)

Bump(state, files, frozen) ==
  draft' = [ver |-> draft.ver + 1, state |-> state, files |-> files, frozen |-> frozen]

\* sendCompose: every file is uploaded, and the claim freezes them.
Claim(d) ==
  /\ editor[d] # None
  /\ draft.state = "live"
  /\ editor[d].ver = draft.ver
  /\ Uploaded(d) = editor[d].files
  /\ Bump("claimed", editor[d].files, editor[d].files)
  /\ editor' = [editor EXCEPT ![d] = None]
  /\ Naming(editor[d].files)
  /\ UNCHANGED <<cast, sent, snapshot, address, vaultOnly, copying, collector, writer,
                 uploads, stored, old>>

\* Refused, or put aside unconfirmed: the draft can be edited again.
Thaw ==
  /\ draft.state = "claimed" /\ draft.ver < MaxVersion
  /\ \E frozen \in {{}, draft.frozen} : Bump("live", draft.files, frozen)
  /\ UNCHANGED <<cast, sent, snapshot, address, vaultOnly, copying, clients, uploads,
                 stored, old, late>>

Accept ==
  /\ draft.state = "claimed"
  /\ Bump("accepted", draft.files, draft.frozen)
  /\ copying' = IF vaultOnly THEN fileIdsOfDraft(draft) ELSE copying
  /\ UNCHANGED <<cast, sent, snapshot, address, vaultOnly, clients, uploads, stored, old, late>>

\* storeSentRecord, by a run that may by now have been overtaken: a create, so
\* a second one is a no-op.
storeSentRecord ==
  /\ copying # None
  /\ sent' = IF sent = None THEN copying ELSE sent
  /\ copying' = None
  /\ UNCHANGED <<cast, draft, snapshot, address, vaultOnly, clients, uploads, stored, old, late>>

\* completeSend: the tombstone stops naming the files.
Complete ==
  /\ draft.state = "accepted"
  /\ vaultOnly => sent # None
  /\ Bump("sent", {}, {})
  /\ UNCHANGED <<cast, sent, snapshot, address, vaultOnly, copying, clients, uploads,
                 stored, old, late>>

\* The person lets the copy go; a run may still be storing it.
FinishWithoutCopy ==
  /\ draft.state = "accepted"
  /\ Bump("sent", {}, {})
  /\ late' = IF copying = None THEN late ELSE late \cup copying
  /\ UNCHANGED <<cast, sent, snapshot, address, vaultOnly, copying, clients, uploads,
                 stored, old>>

\* A send resumed by another unlock reads the record again.
Resume ==
  /\ draft.state = "accepted" /\ vaultOnly /\ copying = None
  /\ copying' = fileIdsOfDraft(draft)
  /\ UNCHANGED <<cast, draft, sent, snapshot, address, vaultOnly, clients, uploads, stored, old, late>>

\* The run dies.
DropCopy ==
  /\ copying # None
  /\ copying' = None
  /\ UNCHANGED <<cast, draft, sent, snapshot, address, vaultOnly, clients, uploads, stored, old, late>>

\* A discarded draft's tombstone still names its files, until it is purged.
Discard ==
  /\ \/ draft.state = "live" /\ draft.frozen = {}
     \/ draft.state = "claimed"
  /\ Bump("discarded", draft.files, draft.frozen)
  /\ UNCHANGED <<cast, sent, snapshot, address, vaultOnly, copying, clients, uploads,
                 stored, old, late>>

Purge ==
  /\ draft.state \in {"discarded", "sent"}
  /\ draft' = [draft EXCEPT !.state = "gone"]
  /\ UNCHANGED <<cast, sent, snapshot, address, vaultOnly, copying, clients, uploads,
                 stored, old, late>>

-----------------------------------------------------------------------------
(* A mailbox's cache snapshot: its writer replaces and deletes files itself. *)

Idle == [pc |-> "idle", file |-> None, over |-> None]

WriterTo(d, w) == writer' = [writer EXCEPT ![d] = w]

\* The row is read, then the new file uploaded.
Snap(d) ==
  /\ writer[d].pc = "idle" /\ address
  /\ \E f \in Fresh :
       /\ uploads' = [uploads EXCEPT ![f] = "uploaded"]
       /\ stored' = stored \cup {f}
       /\ WriterTo(d, [pc |-> "uploaded", file |-> f, over |-> snapshot])
  /\ UNCHANGED <<records, editor, collector, old, late>>

\* A write whose answer is lost leaves its file to the collector.
Loses(d) ==
  /\ UNCHANGED stored
  /\ WriterTo(d, Idle)

\* The record is replaced if it is still the one read, and its yes may be lost;
\* on a conflict nothing names the new file, and it goes.
NameSnapshot(d) ==
  /\ writer[d].pc = "uploaded"
  /\ \/ /\ snapshot = writer[d].over
        /\ snapshot' = writer[d].file
        /\ IF address THEN Naming({writer[d].file}) ELSE UNCHANGED late
        /\ \/ UNCHANGED stored /\ WriterTo(d, [writer[d] EXCEPT !.pc = "replaced"])
           \/ Loses(d)
     \/ /\ snapshot # writer[d].over
        /\ stored' = stored \ {writer[d].file}
        /\ WriterTo(d, Idle)
        /\ UNCHANGED <<snapshot, late>>
     \/ Loses(d) /\ UNCHANGED <<snapshot, late>>
  /\ UNCHANGED <<cast, draft, sent, address, vaultOnly, copying, editor, collector, uploads, old>>

\* The file it replaced goes at once.
RemoveReplaced(d) ==
  /\ writer[d].pc = "replaced"
  /\ stored' = stored \ {writer[d].over}
  /\ WriterTo(d, Idle)
  /\ UNCHANGED <<records, editor, collector, uploads, old, late>>

\* The address leaves the vault, or comes back and finds its snapshot there.
ChangeAddress ==
  /\ address' = ~address
  /\ IF ~address /\ snapshot # None THEN Naming({snapshot}) ELSE UNCHANGED late
  /\ UNCHANGED <<cast, draft, sent, snapshot, vaultOnly, copying, clients, uploads, stored, old>>

-----------------------------------------------------------------------------
(* The collector. *)

Resting == [pc |-> "idle", old |-> {}, named |-> {}, snap |-> {}]

CollectorTo(d, c) == collector' = [collector EXCEPT ![d] = c]

\* Mutant: no grace.
MutGrace == stored

Grace == old

\* `now` is read when the run starts: a file is collectable by its age then.
Start(d) ==
  /\ collector[d].pc = "idle"
  /\ CollectorTo(d, [Resting EXCEPT !.pc = "drafts", !.old = Grace])
  /\ UNCHANGED <<records, editor, writer, uploads, stored, old, late>>

List(d, at, next, names) ==
  /\ collector[d].pc = at
  /\ CollectorTo(d, [collector[d] EXCEPT !.pc = next, !.named = @ \cup names])
  /\ UNCHANGED <<records, editor, writer, uploads, stored, old, late>>

\* Mutant: sent records first.
MutListMail(d) ==
  \/ List(d, "drafts", "sent", fileIdsOfSent)
  \/ List(d, "sent", "snapshots", fileIdsOfDraft(draft))

\* Drafts first, then sent records, one of which may end the run: this build
\* cannot read it.
ListMail(d) ==
  \/ List(d, "drafts", "sent", fileIdsOfDraft(draft))
  \/ /\ d \in OldBuilds => sent = None
     /\ List(d, "sent", "snapshots", fileIdsOfSent)
  \/ /\ collector[d].pc = "sent" /\ d \in OldBuilds /\ sent # None
     /\ CollectorTo(d, Resting)
     /\ UNCHANGED <<records, editor, writer, uploads, stored, old, late>>

\* Mutant: a missing snapshot is taken for one that names a file.
MutSnapshots == {snapshot}

Snapshots == {snapshot} \ {None}

ListSnapshots(d) ==
  /\ collector[d].pc = "snapshots"
  /\ CollectorTo(d, [collector[d] EXCEPT !.pc = "addresses",
                                        !.snap = Snapshots])
  /\ UNCHANGED <<records, editor, writer, uploads, stored, old, late>>

\* A snapshot counts if its address is still in the vault.
ListAddresses(d) == List(d, "addresses", "files", IF address THEN collector[d].snap ELSE {})

Collectable(d) == (stored \cap collector[d].old) \ collector[d].named

\* The files are listed last; named now holds what to delete.
ListFiles(d) ==
  /\ collector[d].pc = "files"
  /\ CollectorTo(d, [Resting EXCEPT !.pc = "remove", !.named = Collectable(d)])
  /\ UNCHANGED <<records, editor, writer, uploads, stored, old, late>>

\* One delete after the other; one that fails is left to the next run.
RemoveOne(d) ==
  /\ collector[d].pc = "remove"
  /\ \E f \in collector[d].named :
       /\ stored' \in {stored, stored \ {f}}
       /\ CollectorTo(d, [collector[d] EXCEPT !.named = @ \ {f}])
  /\ UNCHANGED <<records, editor, writer, uploads, old, late>>

\* It is done, or its tab is closed.
Stop(d) ==
  /\ collector[d].pc # "idle"
  /\ CollectorTo(d, Resting)
  /\ UNCHANGED <<records, editor, writer, uploads, stored, old, late>>

\* A day passes since f was uploaded.
Age(f) ==
  /\ uploads[f] \in {"uploaded", "failed"} /\ f \notin old
  /\ old' = old \cup {f}
  /\ UNCHANGED <<records, clients, uploads, stored, late>>

-----------------------------------------------------------------------------

Init ==
  /\ cast \in Casts
  /\ draft = [ver |-> 0, state |-> "none", files |-> {}, frozen |-> {}]
  /\ sent = None /\ snapshot = None /\ copying = None
  /\ address = TRUE
  /\ vaultOnly \in BOOLEAN
  /\ editor = [d \in Devices |-> None]
  /\ uploads = [f \in Files |-> "new"]
  /\ stored = {} /\ old = {} /\ late = {}
  /\ collector = [d \in Devices |-> Resting]
  /\ writer = [d \in Devices |-> Idle]

Compose(d) == Open(d) \/ Close(d) \/ Attach(d) \/ Detach(d) \/ Save(d) \/ resolveDraftConflict(d)

Send == \/ \E d \in cast.composing : Claim(d)
        \/ Thaw \/ Accept \/ storeSentRecord \/ Complete \/ FinishWithoutCopy
        \/ Resume \/ DropCopy \/ Discard \/ Purge

saveSnapshot(d) == Snap(d) \/ NameSnapshot(d) \/ RemoveReplaced(d)

collectFiles(d) ==
  \/ Start(d) \/ ListMail(d) \/ ListSnapshots(d)
  \/ ListAddresses(d) \/ ListFiles(d) \/ RemoveOne(d) \/ Stop(d)

Next ==
  \/ \E d \in cast.composing : Compose(d)
  \/ \E d \in cast.syncing : saveSnapshot(d)
  \/ \E d \in cast.unlocking : collectFiles(d)
  \/ Send \/ ChangeAddress
  \/ \E f \in Files : Upload(f) \/ Age(f)

Spec == Init /\ [][Next]_vars

-----------------------------------------------------------------------------
(***************************************************************************)
(* Records, clients and files have the shape the code gives them.          *)
(***************************************************************************)
TypeOK ==
  /\ cast \in Casts
  /\ draft \in Drafts
  /\ sent \in FileSets \cup {None}
  /\ snapshot \in Files \cup {None}
  /\ address \in BOOLEAN /\ vaultOnly \in BOOLEAN
  /\ editor \in [Devices -> Editors \cup {None}]
  /\ uploads \in [Files -> {"new", "uploading", "uploaded", "failed"}]
  /\ stored \subseteq Files /\ old \subseteq Files /\ late \subseteq Files
  /\ copying \in FileSets \cup {None}
  /\ collector \in [Devices -> Collectors]
  /\ writer \in [Devices -> Writers]

(***************************************************************************)
(* No data loss: while records change under its feet, no collector and no  *)
(* snapshot writer deletes a file that a record names.  The exceptions: a  *)
(* file that came to be named past its day, while no record named it, and  *)
(* one whose copy the person let go while a run was still storing it.      *)
(***************************************************************************)
NamedFilesStand == Named \ late \subseteq stored

(***************************************************************************)
(* An attachment that its upload's answer promised stays for the day its   *)
(* editor has to save it, whether or not any record names it yet.          *)
(***************************************************************************)
UnsavedFilesStand ==
  \A d \in Devices : editor[d] # None => Uploaded(d) \ old \subseteq stored

=============================================================================
