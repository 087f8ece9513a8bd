--------------------------- MODULE VaultFilesProofs ---------------------------
(***************************************************************************)
(* No collector and no snapshot writer deletes what a record names, nor an *)
(* upload in its day (FileCollect); the Worker's rows count what its       *)
(* bucket holds, and what an upload answered for stands (FileObjects).     *)
(*                                                                         *)
(* Of the collectors: a file is of the mail or of a snapshot, never of     *)
(* both (Kinds), and each writer's file is its own (WritersApart); what a  *)
(* collector has listed is named for good, or old and named only against   *)
(* its assumption (Collecting); and a copy under way is of what the draft  *)
(* names, or of what is stored already (Sending).                          *)
(*                                                                         *)
(* Of rows and objects: an object that no row counts is still to be taken  *)
(* away by the upload, removal or sweep that left it (StrayObjectsMended); *)
(* an id is one upload's unless it counts as torn (OwnFile); and what an   *)
(* upload put is there when it reads its row again, or the row is gone, or *)
(* a sweep is before its batch (CheckedStands).                            *)
(***************************************************************************)
EXTENDS FileCollect, FileObjects, FiniteSetTheorems, WellFoundedInduction, TLAPS

-----------------------------------------------------------------------------
(* The inductive invariant. *)

\* The files of drafts and sent records, and of the editors and the run that work on them.
InEditor(f) == \E d \in Devices : editor[d] # None /\ f \in editor[d].files
InDraft(f) == f \in draft.files \/ f \in draft.frozen
InCopy(f) == copying # None /\ f \in copying
OfMail(f) == InEditor(f) \/ InDraft(f) \/ InCopy(f) \/ f \in fileIdsOfSent

\* The files of the snapshot's record and of its writers.
InHand(d, f) == writer[d].pc = "uploaded" /\ f = writer[d].file
Over(d, f) == writer[d].pc # "idle" /\ f = writer[d].over
OfSnapshot(f) == f = snapshot \/ \E d \in Devices : InHand(d, f) \/ Over(d, f)

\* An id names one thing, from the moment it is minted.
Kinds ==
  \A f \in Files :
    /\ OfMail(f) => uploads[f] # "new" /\ ~OfSnapshot(f)
    /\ OfSnapshot(f) => uploads[f] # "new"

\* A writer's new file is in no one else's hand, and what it replaced is named no more.
WritersApart ==
  \A d \in Devices :
    /\ writer[d].pc = "uploaded" =>
         /\ writer[d].file \in Files /\ writer[d].file # snapshot
         /\ \A e \in Devices : ~Over(e, writer[d].file) /\ (e # d => ~InHand(e, writer[d].file))
    /\ writer[d].pc = "replaced" => writer[d].over # snapshot

\* A copy is stored of a draft that was accepted, and of its files.
Sending ==
  /\ sent # None => draft.state \in {"accepted", "sent", "gone"}
  /\ copying # None => vaultOnly /\ draft.state \in {"accepted", "sent", "gone"}
  /\ copying # None =>
       \/ draft.state = "accepted" /\ copying = fileIdsOfDraft(draft)
       \/ sent # None
       \/ copying \subseteq late

\* A file stands in its day, if a record, an editor or a writer has it.
YoungFilesStand ==
  \A f \in Files \ old :
    /\ OfMail(f) /\ uploads[f] = "uploaded" => f \in stored
    /\ f = snapshot \/ (\E d \in Devices : InHand(d, f)) => f \in stored

\* A collectable file that a collector has not seen named by a list it is past, is named there
\* against its assumption.
Unseen(c) == c.old \ c.named

Listed(c) ==
  /\ c.pc \in {"sent", "snapshots", "addresses", "files"} =>
       \A f \in Unseen(c) : f \in fileIdsOfDraft(draft) => f \in late
  /\ c.pc \in {"snapshots", "addresses", "files"} =>
       \A f \in Unseen(c) : f \in fileIdsOfSent => f \in late
  /\ c.pc = "addresses" =>
       \A f \in c.old \ c.snap : f \in SnapshotNames => f \in late
  /\ c.pc = "files" =>
       \A f \in Unseen(c) : f \in SnapshotNames => f \in late
  /\ c.pc = "remove" => \A f \in c.named : f \in old /\ (f \in Named => f \in late)

Collecting == \A d \in Devices : collector[d].old \subseteq old /\ Listed(collector[d])

Inv ==
  /\ TypeOK /\ Kinds /\ WritersApart /\ Sending /\ YoungFilesStand /\ Collecting
  /\ NamedFilesStand

-----------------------------------------------------------------------------
(* Type correctness. *)

\* What the composer assigns to an open editor is an editor.
LEMMA EditorFields ==
  ASSUME NEW e \in Editors, NEW v \in Nat, NEW s \in FileSets
  PROVE  [e EXCEPT !.ver = v] \in Editors /\ [e EXCEPT !.files = s] \in Editors
  BY DEF Editors

\* What a draft's writes assign is a draft.
LEMMA DraftFields ==
  ASSUME NEW r \in Drafts, NEW v \in Nat, NEW k \in States, NEW s \in FileSets
  PROVE  [r EXCEPT !.ver = v, !.state = k, !.files = s] \in Drafts /\ [r EXCEPT !.state = k] \in Drafts
  BY DEF Drafts

\* What a collector's steps assign is a collector.
LEMMA CollectorFields ==
  ASSUME NEW c \in Collectors, NEW p \in CollectPcs, NEW s \in FileSets
  PROVE  /\ [c EXCEPT !.pc = p, !.named = s] \in Collectors
         /\ [c EXCEPT !.pc = p, !.snap = s] \in Collectors
         /\ [c EXCEPT !.named = s] \in Collectors
         /\ Resting \in Collectors
         /\ [Resting EXCEPT !.pc = p, !.old = s] \in Collectors
         /\ [Resting EXCEPT !.pc = p, !.named = s] \in Collectors
  BY DEF Collectors, Resting, CollectPcs, FileSets

\* What a snapshot writer's steps assign is a writer.
LEMMA WriterFields ==
  ASSUME NEW w \in Writers
  PROVE  Idle \in Writers /\ [w EXCEPT !.pc = "replaced"] \in Writers
  BY DEF Writers, Idle, WritePcs

\* What an open editor is.
LEMMA EditorIs ==
  ASSUME TypeOK, NEW d \in Devices, editor[d] # None
  PROVE  editor[d] \in Editors /\ editor[d].ver \in Nat /\ editor[d].files \in FileSets
         /\ Uploaded(d) \in FileSets
  BY DEF TypeOK, Editors, Uploaded, FileSets

\* What the draft's record is.
LEMMA DraftIs ==
  ASSUME TypeOK
  PROVE  /\ draft \in Drafts /\ draft.ver \in Nat /\ draft.ver + 1 \in Nat /\ draft.state \in States
         /\ draft.files \in FileSets /\ draft.frozen \in FileSets /\ fileIdsOfDraft(draft) \in FileSets
  BY DEF TypeOK, Drafts, fileIdsOfDraft, FileSets

\* A write of a send leaves a draft.
LEMMA BumpType ==
  ASSUME TypeOK, NEW k \in States, NEW s \in FileSets, NEW z \in FileSets, Bump(k, s, z)
  PROVE  draft' \in Drafts
  BY DraftIs DEF Bump, Drafts

\* The files named late are files.
LEMMA NamingType ==
  ASSUME TypeOK, NEW s \in SUBSET Files, Naming(s)
  PROVE  late' \subseteq Files
  BY DEF Naming, TypeOK

\* The composer's steps keep the types.
LEMMA ComposeType ==
  ASSUME TypeOK, NEW d \in Devices, Compose(d)
  PROVE  TypeOK'
<1>1. CASE Open(d)
  <2>1. [ver |-> draft.ver, files |-> draft.files] \in Editors
    BY DraftIs DEF Editors
  <2> QED
    BY <1>1, <2>1 DEF Open, TypeOK, records
<1>2. CASE Close(d)
  BY <1>2 DEF Close, TypeOK, records
<1>3. CASE Attach(d)
  <2>1. PICK f \in Fresh : /\ uploads' = [uploads EXCEPT ![f] = "uploading"]
                           /\ editor' = [editor EXCEPT ![d].files = @ \cup {f}]
    BY <1>3 DEF Attach
  <2>2. f \in Files /\ editor[d].files \cup {f} \in FileSets
    BY <1>3, EditorIs DEF Attach, Fresh, FileSets
  <2>3. [editor[d] EXCEPT !.files = @ \cup {f}] \in Editors
    BY <1>3, <2>2, EditorIs, EditorFields DEF Attach
  <2> QED
    BY <1>3, <2>1, <2>2, <2>3 DEF Attach, TypeOK, records
<1>4. CASE Detach(d)
  <2>1. PICK f \in editor[d].files : editor' = [editor EXCEPT ![d].files = @ \ {f}]
    BY <1>4 DEF Detach
  <2>2. editor[d].files \ {f} \in FileSets
    BY <1>4, EditorIs DEF Detach, FileSets
  <2>3. [editor[d] EXCEPT !.files = @ \ {f}] \in Editors
    BY <1>4, <2>2, EditorIs, EditorFields DEF Detach
  <2> QED
    BY <1>4, <2>1, <2>3 DEF Detach, TypeOK, records
<1>5. CASE Save(d)
  <2>1. draft' \in Drafts
    BY <1>5, DraftIs, DraftFields, EditorIs DEF Save, States
  <2>2. [editor[d] EXCEPT !.ver = draft.ver + 1] \in Editors
    BY <1>5, DraftIs, EditorIs, EditorFields DEF Save
  <2>3. late' \subseteq Files
    BY <1>5, EditorIs, NamingType DEF Save, FileSets
  <2> QED
    BY <1>5, <2>1, <2>2, <2>3 DEF Save, TypeOK
<1>6. CASE resolveDraftConflict(d)
  <2>1. PICK s \in {editor[d].files, draft.files} :
          editor' = [editor EXCEPT ![d] = [ver |-> draft.ver, files |-> s]]
    BY <1>6 DEF resolveDraftConflict
  <2>2. [ver |-> draft.ver, files |-> s] \in Editors
    BY <1>6, DraftIs, EditorIs DEF resolveDraftConflict, Editors
  <2> QED
    BY <1>6, <2>1, <2>2 DEF resolveDraftConflict, TypeOK, records
<1> QED
  BY <1>1, <1>2, <1>3, <1>4, <1>5, <1>6 DEF Compose

\* A send's steps keep the types.
LEMMA SendType ==
  ASSUME TypeOK, Send
  PROVE  TypeOK'
<1>1. ASSUME NEW d \in cast.composing, Claim(d) PROVE TypeOK'
  <2>1. d \in Devices
    BY ConstantsAssumption DEF TypeOK
  <2>2. draft' \in Drafts
    BY <1>1, <2>1, EditorIs, BumpType DEF Claim, States
  <2>3. late' \subseteq Files
    BY <1>1, <2>1, EditorIs, NamingType DEF Claim, FileSets
  <2> QED
    BY <1>1, <2>1, <2>2, <2>3 DEF Claim, TypeOK
<1>2. CASE Thaw
  <2>1. draft' \in Drafts
    BY <1>2, DraftIs, BumpType DEF Thaw, States, FileSets
  <2> QED
    BY <1>2, <2>1 DEF Thaw, TypeOK, clients
<1>3. CASE Accept
  <2>1. draft' \in Drafts
    BY <1>3, DraftIs, BumpType DEF Accept, States
  <2>2. copying' \in FileSets \cup {None}
    BY <1>3, DraftIs DEF Accept, TypeOK
  <2> QED
    BY <1>3, <2>1, <2>2 DEF Accept, TypeOK, clients
<1>4. CASE storeSentRecord
  BY <1>4 DEF storeSentRecord, TypeOK, clients
<1>5. CASE Complete
  <2>1. draft' \in Drafts
    BY <1>5, BumpType DEF Complete, States, FileSets
  <2> QED
    BY <1>5, <2>1 DEF Complete, TypeOK, clients
<1>6. CASE FinishWithoutCopy
  <2>1. draft' \in Drafts
    BY <1>6, BumpType DEF FinishWithoutCopy, States, FileSets
  <2>2. late' \subseteq Files
    BY <1>6 DEF FinishWithoutCopy, TypeOK, FileSets
  <2> QED
    BY <1>6, <2>1, <2>2 DEF FinishWithoutCopy, TypeOK, clients
<1>7. CASE Resume
  BY <1>7, DraftIs DEF Resume, TypeOK, clients
<1>8. CASE DropCopy
  BY <1>8 DEF DropCopy, TypeOK, clients
<1>9. CASE Discard
  <2>1. draft' \in Drafts
    BY <1>9, DraftIs, BumpType DEF Discard, States
  <2> QED
    BY <1>9, <2>1 DEF Discard, TypeOK, clients
<1>10. CASE Purge
  <2>1. draft' \in Drafts
    BY <1>10, DraftIs, DraftFields DEF Purge, States
  <2> QED
    BY <1>10, <2>1 DEF Purge, TypeOK, clients
<1> QED
  BY <1>1, <1>2, <1>3, <1>4, <1>5, <1>6, <1>7, <1>8, <1>9, <1>10 DEF Send

\* A snapshot writer's steps keep the types.
LEMMA SnapshotsType ==
  ASSUME TypeOK, NEW d \in Devices, saveSnapshot(d)
  PROVE  TypeOK'
<1>0. /\ snapshot \in Files \cup {None} /\ writer[d] \in Writers
      /\ writer[d].file \in Files \cup {None} /\ writer[d].over \in Files \cup {None}
  BY DEF TypeOK, Writers
<1>1. CASE Snap(d)
  <2>1. PICK f \in Fresh : /\ uploads' = [uploads EXCEPT ![f] = "uploaded"]
                           /\ stored' = stored \cup {f}
                           /\ WriterTo(d, [pc |-> "uploaded", file |-> f, over |-> snapshot])
    BY <1>1 DEF Snap
  <2>2. f \in Files /\ [pc |-> "uploaded", file |-> f, over |-> snapshot] \in Writers
    BY <1>0 DEF Fresh, Writers, WritePcs
  <2> QED
    BY <1>1, <2>1, <2>2 DEF Snap, TypeOK, WriterTo, records
<1>2. CASE NameSnapshot(d)
  <2>1. writer' \in [Devices -> Writers]
    BY <1>0, <1>2, WriterFields DEF NameSnapshot, WriterTo, Loses, TypeOK
  <2>2. snapshot' \in Files \cup {None} /\ stored' \subseteq Files
    BY <1>0, <1>2 DEF NameSnapshot, Loses, TypeOK
  <2>3. late' \subseteq Files
    BY <1>0, <1>2 DEF NameSnapshot, Naming, TypeOK
  <2> QED
    BY <1>2, <2>1, <2>2, <2>3 DEF NameSnapshot, TypeOK
<1>3. CASE RemoveReplaced(d)
  BY <1>3, <1>0, WriterFields DEF RemoveReplaced, WriterTo, TypeOK, records
<1> QED
  BY <1>1, <1>2, <1>3 DEF saveSnapshot

\* A collector's steps keep the types.
LEMMA CollectType ==
  ASSUME TypeOK, NEW d \in Devices, collectFiles(d)
  PROVE  TypeOK'
<1>0. /\ collector[d] \in Collectors /\ collector[d].named \in FileSets /\ collector[d].snap \in FileSets
      /\ collector[d].old \in FileSets /\ old \in FileSets /\ stored \in FileSets /\ {} \in FileSets
      /\ {"drafts", "sent", "snapshots", "addresses", "files", "remove"} \subseteq CollectPcs
  BY DEF TypeOK, Collectors, FileSets, CollectPcs
<1>1. ASSUME NEW c \in Collectors, CollectorTo(d, c), stored' \subseteq Files,
             UNCHANGED <<records, editor, writer, uploads, old, late>>
      PROVE  TypeOK'
  BY <1>1 DEF TypeOK, CollectorTo, records
<1>2. CASE Start(d)
  BY <1>0, <1>1, <1>2, CollectorFields DEF Start, Grace, TypeOK
<1>3. ASSUME NEW at, NEW next \in CollectPcs, NEW names \in FileSets, List(d, at, next, names)
      PROVE  TypeOK'
  <2>1. collector[d].named \cup names \in FileSets
    BY <1>0 DEF FileSets
  <2>2. [collector[d] EXCEPT !.pc = next, !.named = @ \cup names] \in Collectors
    BY <1>0, <2>1, CollectorFields
  <2> QED
    BY <1>1, <1>3, <2>2 DEF List, TypeOK
<1>4. CASE ListMail(d)
  <2>1. fileIdsOfDraft(draft) \in FileSets /\ fileIdsOfSent \in FileSets
    BY DraftIs DEF fileIdsOfSent, TypeOK, FileSets
  <2>2. CASE List(d, "drafts", "sent", fileIdsOfDraft(draft))
    BY <1>0, <1>3, <2>1, <2>2
  <2>3. CASE List(d, "sent", "snapshots", fileIdsOfSent)
    BY <1>0, <1>3, <2>1, <2>3
  <2>4. CASE CollectorTo(d, Resting) /\ UNCHANGED <<records, editor, writer, uploads, stored, old, late>>
    BY <1>0, <1>1, <2>4, CollectorFields DEF TypeOK
  <2> QED
    BY <1>4, <2>2, <2>3, <2>4 DEF ListMail
<1>5. CASE ListSnapshots(d)
  <2>1. Snapshots \in FileSets
    BY DEF Snapshots, TypeOK, FileSets
  <2> QED
    BY <1>0, <1>1, <1>5, <2>1, CollectorFields DEF ListSnapshots, TypeOK
<1>6. CASE ListAddresses(d)
  <2>1. (IF address THEN collector[d].snap ELSE {}) \in FileSets
    BY <1>0
  <2> QED
    BY <1>0, <1>3, <1>6, <2>1 DEF ListAddresses
<1>7. CASE ListFiles(d)
  <2>1. Collectable(d) \in FileSets
    BY <1>0 DEF Collectable, FileSets
  <2> QED
    BY <1>0, <1>1, <1>7, <2>1, CollectorFields DEF ListFiles, TypeOK
<1>8. CASE RemoveOne(d)
  <2>1. PICK f \in collector[d].named :
          /\ stored' \in {stored, stored \ {f}}
          /\ CollectorTo(d, [collector[d] EXCEPT !.named = @ \ {f}])
    BY <1>8 DEF RemoveOne
  <2>2. collector[d].named \ {f} \in FileSets
    BY <1>0 DEF FileSets
  <2>3. [collector[d] EXCEPT !.named = @ \ {f}] \in Collectors
    BY <1>0, <2>2, CollectorFields
  <2> QED
    BY <1>1, <1>8, <2>1, <2>3 DEF RemoveOne, TypeOK
<1>9. CASE Stop(d)
  BY <1>0, <1>1, <1>9, CollectorFields DEF Stop, TypeOK
<1> QED
  BY <1>2, <1>4, <1>5, <1>6, <1>7, <1>8, <1>9 DEF collectFiles

\* Next, with each of its devices one of Devices.
LEMMA Steps ==
  ASSUME TypeOK, Next
  PROVE  \/ \E d \in Devices : Compose(d) \/ saveSnapshot(d) \/ collectFiles(d)
         \/ Send \/ ChangeAddress
         \/ \E f \in Files : Upload(f) \/ Age(f)
<1>1. cast.composing \subseteq Devices /\ cast.syncing \subseteq Devices /\ cast.unlocking \subseteq Devices
  BY ConstantsAssumption DEF TypeOK
<1> QED
  BY <1>1 DEF Next

\* The first state is of its types.
LEMMA TypeInit == Init => TypeOK
<1> SUFFICES ASSUME Init PROVE TypeOK
  OBVIOUS
<1>1. draft \in Drafts
  BY DEF Init, Drafts, States, FileSets
<1>2. Resting \in Collectors /\ Idle \in Writers
  BY DEF Collectors, Resting, CollectPcs, FileSets, Writers, Idle, WritePcs
<1> QED
  BY <1>1, <1>2 DEF Init, TypeOK, FileSets

\* Every step keeps the types.
LEMMA TypeStep ==
  ASSUME TypeOK, [Next]_vars
  PROVE  TypeOK'
<1>1. CASE UNCHANGED vars
  BY <1>1 DEF TypeOK, vars, records, clients
<1>2. CASE Next
  <2>1. CASE \E d \in Devices : Compose(d)
    BY <2>1, ComposeType
  <2>2. CASE \E d \in Devices : saveSnapshot(d)
    BY <2>2, SnapshotsType
  <2>3. CASE \E d \in Devices : collectFiles(d)
    BY <2>3, CollectType
  <2>4. CASE Send
    BY <2>4, SendType
  <2>5. CASE ChangeAddress
    <3>1. late' \subseteq Files
      BY <2>5 DEF ChangeAddress, Naming, TypeOK
    <3> QED
      BY <2>5, <3>1 DEF ChangeAddress, TypeOK, clients
  <2>6. ASSUME NEW f \in Files, Upload(f) PROVE TypeOK'
    BY <2>6 DEF Upload, TypeOK, records, clients
  <2>7. ASSUME NEW f \in Files, Age(f) PROVE TypeOK'
    BY <2>7 DEF Age, TypeOK, records, clients
  <2> QED
    BY <1>2, <2>1, <2>2, <2>3, <2>4, <2>5, <2>6, <2>7, Steps
<1> QED
  BY <1>1, <1>2

-----------------------------------------------------------------------------
(* What a step does to the files of the mail and of the snapshot. *)

\* An id is minted once.
LEMMA Mints ==
  ASSUME TypeOK, Next, NEW f \in Files
  PROVE  /\ uploads[f] # "new" => uploads'[f] # "new"
         /\ uploads'[f] = "uploaded" => uploads[f] = "uploaded" \/ f \in stored'
<1>1. ASSUME NEW d \in Devices, Attach(d)
      PROVE  /\ uploads[f] # "new" => uploads'[f] # "new"
             /\ uploads'[f] = "uploaded" => uploads[f] = "uploaded"
  BY <1>1 DEF Attach, Fresh, TypeOK
<1>2. ASSUME NEW d \in Devices, Snap(d)
      PROVE  /\ uploads[f] # "new" => uploads'[f] # "new"
             /\ uploads'[f] = "uploaded" => uploads[f] = "uploaded" \/ f \in stored'
  BY <1>2 DEF Snap, Fresh, TypeOK
<1>3. ASSUME NEW g \in Files, Upload(g)
      PROVE  /\ uploads[f] # "new" => uploads'[f] # "new"
             /\ uploads'[f] = "uploaded" => uploads[f] = "uploaded" \/ f \in stored'
  BY <1>3 DEF Upload, TypeOK
<1>4. ASSUME NEW d \in Devices, Compose(d)
      PROVE  Attach(d) \/ UNCHANGED uploads
  BY <1>4 DEF Compose, Open, Close, Detach, Save, resolveDraftConflict
<1>5. ASSUME NEW d \in Devices, saveSnapshot(d)
      PROVE  Snap(d) \/ UNCHANGED uploads
  BY <1>5 DEF saveSnapshot, NameSnapshot, RemoveReplaced
<1>6. ASSUME NEW d \in Devices, collectFiles(d)
      PROVE  UNCHANGED uploads
  BY <1>6 DEF collectFiles, Start, ListMail, List, ListSnapshots, ListAddresses, ListFiles, RemoveOne, Stop
<1>7. Send \/ ChangeAddress => UNCHANGED uploads
  BY DEF Send, Claim, Thaw, Accept, storeSentRecord, Complete, FinishWithoutCopy, Resume, DropCopy,
         Discard, Purge, ChangeAddress
<1>8. ASSUME NEW g \in Files, Age(g)
      PROVE  UNCHANGED uploads
  BY <1>8 DEF Age
<1> QED
  BY <1>1, <1>2, <1>3, <1>4, <1>5, <1>6, <1>7, <1>8, Steps

\* A file comes to the mail by an Attach alone, which mints it.
LEMMA MailSteps ==
  ASSUME TypeOK, Next, NEW f \in Files, OfMail(f)', ~OfMail(f)
  PROVE  uploads[f] = "new" /\ uploads'[f] = "uploading" /\ UNCHANGED <<writer, snapshot>>
<1>1. ASSUME NEW d \in Devices, Compose(d)
      PROVE  uploads[f] = "new" /\ uploads'[f] = "uploading" /\ UNCHANGED <<writer, snapshot>>
  <2>1. UNCHANGED <<sent, copying, writer, snapshot>>
    BY <1>1 DEF Compose, Open, Close, Attach, Detach, Save, resolveDraftConflict, records
  <2>2. CASE Open(d)
    BY <1>1, <2>1, <2>2 DEF Open, records, OfMail, InEditor, InDraft, InCopy, fileIdsOfSent, TypeOK
  <2>3. CASE Close(d)
    BY <1>1, <2>1, <2>3 DEF Close, records, OfMail, InEditor, InDraft, InCopy, fileIdsOfSent, TypeOK
  <2>4. CASE Attach(d)
    <3>1. PICK g \in Fresh : /\ uploads' = [uploads EXCEPT ![g] = "uploading"]
                             /\ editor' = [editor EXCEPT ![d].files = @ \cup {g}]
      BY <2>4 DEF Attach
    <3>2. editor[d] \in Editors /\ editor[d] # None
      BY <2>4, EditorIs DEF Attach
    <3>3. editor'[d].files = editor[d].files \cup {g} /\ \A e \in Devices \ {d} : editor'[e] = editor[e]
      BY <3>1, <3>2 DEF TypeOK, Editors
    <3>4. f = g
      BY <2>1, <2>4, <3>2, <3>3 DEF Attach, records, OfMail, InEditor, InDraft, InCopy, fileIdsOfSent
    <3> QED
      BY <2>1, <3>1, <3>4 DEF Fresh, TypeOK
  <2>5. CASE Detach(d)
    <3>1. editor[d] \in Editors /\ editor[d] # None
      BY <2>5, EditorIs DEF Detach
    <3>2. editor'[d].files \subseteq editor[d].files /\ \A e \in Devices \ {d} : editor'[e] = editor[e]
      BY <2>5, <3>1 DEF Detach, TypeOK, Editors
    <3> QED
      BY <2>1, <2>5, <3>1, <3>2 DEF Detach, records, OfMail, InEditor, InDraft, InCopy, fileIdsOfSent
  <2>6. CASE Save(d)
    <3>1. editor[d] \in Editors /\ editor[d] # None /\ draft \in Drafts
      BY <2>6, EditorIs, DraftIs DEF Save
    <3>2. editor'[d].files = editor[d].files /\ \A e \in Devices \ {d} : editor'[e] = editor[e]
      BY <2>6, <3>1 DEF Save, TypeOK, Editors
    <3>3. draft'.files \subseteq editor[d].files /\ draft'.frozen = draft.frozen
      BY <2>6, <3>1 DEF Save, Drafts, Uploaded
    <3> QED
      BY <2>1, <3>1, <3>2, <3>3 DEF OfMail, InEditor, InDraft, InCopy, fileIdsOfSent
  <2>7. CASE resolveDraftConflict(d)
    <3>1. editor'[d].files \in {editor[d].files, draft.files} /\ \A e \in Devices \ {d} : editor'[e] = editor[e]
      BY <2>7 DEF resolveDraftConflict, TypeOK
    <3>2. UNCHANGED draft /\ editor[d] # None
      BY <2>7 DEF resolveDraftConflict, records
    <3> QED
      BY <1>1, <2>1, <3>1, <3>2 DEF OfMail, InEditor, InDraft, InCopy, fileIdsOfSent
  <2> QED
    BY <1>1, <2>2, <2>3, <2>4, <2>5, <2>6, <2>7 DEF Compose
<1>2. CASE Send
  <2>1. ASSUME NEW d \in cast.composing, Claim(d) PROVE FALSE
    <3>1. d \in Devices
      BY ConstantsAssumption DEF TypeOK
    <3>2. draft'.files = editor[d].files /\ draft'.frozen = editor[d].files /\ UNCHANGED <<sent, copying>>
      BY <2>1 DEF Claim, Bump
    <3>3. editor[d] # None /\ \A e \in Devices : editor'[e] # None => editor'[e] = editor[e]
      BY <2>1, <3>1 DEF Claim, TypeOK
    <3> QED
      BY <3>1, <3>2, <3>3 DEF OfMail, InEditor, InDraft, InCopy, fileIdsOfSent
  <2>2. ASSUME UNCHANGED editor,
               draft'.files \in {draft.files, {}}, draft'.frozen \in {draft.frozen, {}},
               sent' \in {sent, copying}, copying' \in {copying, None, fileIdsOfDraft(draft)},
               sent' # sent => copying # None
        PROVE  FALSE
    <3>1. InDraft(f)' => InDraft(f)
      BY <2>2 DEF InDraft
    <3>2. InEditor(f)' => InEditor(f)
      BY <2>2 DEF InEditor
    <3>3. InCopy(f)' => InCopy(f) \/ InDraft(f)
      BY <2>2 DEF InCopy, InDraft, fileIdsOfDraft
    <3>4. f \in fileIdsOfSent' => f \in fileIdsOfSent \/ InCopy(f)
      BY <2>2 DEF InCopy, fileIdsOfSent
    <3> QED
      BY <3>1, <3>2, <3>3, <3>4 DEF OfMail
  <2>3. CASE Thaw
    BY <2>2, <2>3 DEF Thaw, Bump, clients
  <2>4. CASE Accept
    BY <2>2, <2>4 DEF Accept, Bump, clients
  <2>5. CASE storeSentRecord
    BY <2>2, <2>5 DEF storeSentRecord, clients
  <2>6. CASE Complete
    BY <2>2, <2>6 DEF Complete, Bump, clients
  <2>7. CASE FinishWithoutCopy
    BY <2>2, <2>7 DEF FinishWithoutCopy, Bump, clients
  <2>8. CASE Resume
    BY <2>2, <2>8 DEF Resume, clients
  <2>9. CASE DropCopy
    BY <2>2, <2>9 DEF DropCopy, clients
  <2>10. CASE Discard
    BY <2>2, <2>10 DEF Discard, Bump, clients
  <2>11. CASE Purge
    <3>1. draft'.files = draft.files /\ draft'.frozen = draft.frozen
      BY <2>11, DraftIs DEF Purge, Drafts
    <3> QED
      BY <2>2, <2>11, <3>1 DEF Purge, clients
  <2> QED
    BY <1>2, <2>1, <2>3, <2>4, <2>5, <2>6, <2>7, <2>8, <2>9, <2>10, <2>11 DEF Send
<1>3. UNCHANGED <<editor, draft, copying, sent>> => FALSE
  BY DEF OfMail, InEditor, InDraft, InCopy, fileIdsOfSent
<1>4. ASSUME NEW d \in Devices, saveSnapshot(d) \/ collectFiles(d) PROVE FALSE
  <2>1. saveSnapshot(d) => UNCHANGED <<editor, draft, copying, sent>>
    BY DEF saveSnapshot, Snap, NameSnapshot, RemoveReplaced, records
  <2>2. collectFiles(d) => UNCHANGED <<editor, draft, copying, sent>>
    BY DEF collectFiles, Start, ListMail, List, ListSnapshots, ListAddresses, ListFiles, RemoveOne, Stop, records
  <2> QED
    BY <1>3, <1>4, <2>1, <2>2
<1>5. ~ChangeAddress
  BY <1>3 DEF ChangeAddress, clients
<1>6. \A g \in Files : ~Upload(g) /\ ~Age(g)
  BY <1>3 DEF Upload, Age, records, clients
<1> QED
  BY <1>1, <1>2, <1>4, <1>5, <1>6, Steps

\* The steps of the snapshot's writers: one uploads, or names, or gives up, or removes.
LEMMA WriterSteps ==
  ASSUME TypeOK, NEW d \in Devices, saveSnapshot(d)
  PROVE  /\ \A e \in Devices \ {d} : writer'[e] = writer[e]
         /\ UNCHANGED <<editor, draft, copying, sent>>
         /\ \/ \E f \in Fresh : /\ writer'[d] = [pc |-> "uploaded", file |-> f, over |-> snapshot]
                                /\ uploads' = [uploads EXCEPT ![f] = "uploaded"]
                                /\ stored' = stored \cup {f} /\ UNCHANGED snapshot
            \/ /\ writer[d].pc = "uploaded" /\ snapshot = writer[d].over /\ snapshot' = writer[d].file
               /\ UNCHANGED <<stored, uploads>>
               /\ \/ writer'[d] = Idle
                  \/ writer'[d].pc = "replaced" /\ writer'[d].over = writer[d].over
            \/ /\ writer[d].pc # "idle" /\ writer'[d] = Idle /\ UNCHANGED <<snapshot, uploads>>
               /\ \/ UNCHANGED stored
                  \/ writer[d].pc = "uploaded" /\ stored' = stored \ {writer[d].file}
                  \/ writer[d].pc = "replaced" /\ stored' = stored \ {writer[d].over}
<1>0. writer \in [Devices -> Writers] /\ writer[d] \in Writers
  BY DEF TypeOK
<1>1. CASE Snap(d)
  BY <1>0, <1>1 DEF Snap, WriterTo, records
<1>2. CASE NameSnapshot(d)
  <2>1. CASE snapshot = writer[d].over /\ snapshot' = writer[d].file
             /\ UNCHANGED stored /\ WriterTo(d, [writer[d] EXCEPT !.pc = "replaced"])
    <3>1. writer'[d] = [writer[d] EXCEPT !.pc = "replaced"]
      BY <1>0, <2>1 DEF WriterTo
    <3>2. writer'[d].pc = "replaced" /\ writer'[d].over = writer[d].over
      BY <1>0, <3>1 DEF Writers
    <3> QED
      BY <1>0, <1>2, <2>1, <3>2 DEF NameSnapshot, WriterTo
  <2>2. CASE snapshot = writer[d].over /\ snapshot' = writer[d].file /\ Loses(d)
    BY <1>0, <1>2, <2>2 DEF NameSnapshot, Loses, WriterTo
  <2>3. CASE stored' = stored \ {writer[d].file} /\ WriterTo(d, Idle) /\ UNCHANGED snapshot
    BY <1>0, <1>2, <2>3 DEF NameSnapshot, WriterTo
  <2>4. CASE Loses(d) /\ UNCHANGED snapshot
    BY <1>0, <1>2, <2>4 DEF NameSnapshot, Loses, WriterTo
  <2> QED
    BY <1>2, <2>1, <2>2, <2>3, <2>4 DEF NameSnapshot
<1>3. CASE RemoveReplaced(d)
  BY <1>0, <1>3 DEF RemoveReplaced, WriterTo, records
<1> QED
  BY <1>1, <1>2, <1>3 DEF saveSnapshot

\* Every other step leaves the snapshot and its writers alone.
LEMMA NoWriterStep ==
  ASSUME TypeOK, Next, ~ \E d \in Devices : saveSnapshot(d)
  PROVE  UNCHANGED <<writer, snapshot>>
<1>1. ASSUME NEW d \in Devices, Compose(d) PROVE UNCHANGED <<writer, snapshot>>
  BY <1>1 DEF Compose, Open, Close, Attach, Detach, Save, resolveDraftConflict, records
<1>2. ASSUME NEW d \in Devices, collectFiles(d) PROVE UNCHANGED <<writer, snapshot>>
  BY <1>2 DEF collectFiles, Start, ListMail, List, ListSnapshots, ListAddresses, ListFiles, RemoveOne, Stop, records
<1>3. Send => UNCHANGED <<writer, snapshot>>
  BY DEF Send, Claim, Thaw, Accept, storeSentRecord, Complete, FinishWithoutCopy, Resume, DropCopy,
         Discard, Purge, clients
<1>4. ChangeAddress => UNCHANGED <<writer, snapshot>>
  BY DEF ChangeAddress, clients
<1>5. ASSUME NEW f \in Files, Upload(f) \/ Age(f) PROVE UNCHANGED <<writer, snapshot>>
  BY <1>5 DEF Upload, Age, records, clients
<1> QED
  BY <1>1, <1>2, <1>3, <1>4, <1>5, Steps

\* A file comes to the snapshot in the hand of a writer that minted it.
LEMMA SnapshotSteps ==
  ASSUME TypeOK, Next, NEW f \in Files, OfSnapshot(f)', ~OfSnapshot(f)
  PROVE  uploads[f] = "new" /\ uploads'[f] # "new" /\ UNCHANGED <<editor, draft, copying, sent>>
<1>1. PICK d \in Devices : saveSnapshot(d)
  BY NoWriterStep DEF OfSnapshot, InHand, Over
<1>2. /\ \A e \in Devices \ {d} : writer'[e] = writer[e]
      /\ UNCHANGED <<editor, draft, copying, sent>>
  BY <1>1, WriterSteps
<1>3. CASE \E g \in Fresh : /\ writer'[d] = [pc |-> "uploaded", file |-> g, over |-> snapshot]
                            /\ uploads' = [uploads EXCEPT ![g] = "uploaded"]
                            /\ stored' = stored \cup {g} /\ UNCHANGED snapshot
  BY <1>2, <1>3 DEF OfSnapshot, InHand, Over, Fresh, TypeOK
<1>4. CASE /\ writer[d].pc = "uploaded" /\ snapshot = writer[d].over /\ snapshot' = writer[d].file
           /\ \/ writer'[d] = Idle
              \/ writer'[d].pc = "replaced" /\ writer'[d].over = writer[d].over
  BY <1>2, <1>4 DEF OfSnapshot, InHand, Over, Idle
<1>5. CASE writer[d].pc # "idle" /\ writer'[d] = Idle /\ UNCHANGED snapshot
  BY <1>2, <1>5 DEF OfSnapshot, InHand, Over, Idle
<1> QED
  BY <1>1, <1>3, <1>4, <1>5, WriterSteps

\* No step makes a file of the mail one of a snapshot: an id is minted once, into one of them.
LEMMA KindsStep ==
  ASSUME TypeOK, Kinds, Next
  PROVE  Kinds'
<1> SUFFICES ASSUME NEW f \in Files
             PROVE  /\ OfMail(f)' => uploads'[f] # "new" /\ ~OfSnapshot(f)'
                    /\ OfSnapshot(f)' => uploads'[f] # "new"
  BY DEF Kinds
<1>1. /\ OfMail(f) => uploads[f] # "new" /\ ~OfSnapshot(f)
      /\ OfSnapshot(f) => uploads[f] # "new"
  BY DEF Kinds
<1>2. ASSUME UNCHANGED <<writer, snapshot>> PROVE OfSnapshot(f)' = OfSnapshot(f)
  BY <1>2 DEF OfSnapshot, InHand, Over
<1>3. ASSUME OfMail(f)' PROVE uploads'[f] # "new" /\ ~OfSnapshot(f)'
  <2>1. CASE OfMail(f)
    BY <1>1, <2>1, Mints, SnapshotSteps
  <2>2. CASE ~OfMail(f)
    BY <1>1, <1>2, <1>3, <2>2, MailSteps
  <2> QED
    BY <2>1, <2>2
<1>4. ASSUME OfSnapshot(f)' PROVE uploads'[f] # "new"
  BY <1>1, <1>4, Mints, SnapshotSteps
<1> QED
  BY <1>3, <1>4

\* No step puts a writer's file, or one it replaces, into another's hand.
LEMMA WritersStep ==
  ASSUME TypeOK, Kinds, WritersApart, Next
  PROVE  WritersApart'
<1>1. CASE UNCHANGED <<writer, snapshot>>
  BY <1>1 DEF WritersApart, InHand, Over
<1>2. ASSUME NEW d \in Devices, saveSnapshot(d) PROVE WritersApart'
  <2>0. \A e \in Devices \ {d} : writer'[e] = writer[e]
    BY <1>2, WriterSteps
  <2>1. ASSUME NEW f \in Fresh, writer'[d] = [pc |-> "uploaded", file |-> f, over |-> snapshot],
               UNCHANGED snapshot
        PROVE  WritersApart'
    <3>1. f \in Files /\ ~OfSnapshot(f)
      BY <2>1 DEF Kinds, Fresh
    <3>2. \A e \in Devices : ~InHand(e, f) /\ ~Over(e, f) /\ f # snapshot
      BY <3>1 DEF OfSnapshot
    <3>3. \A e \in Devices \ {d} : writer[e].pc = "uploaded" => writer[e].file # snapshot /\ writer[e].file # f
      BY <3>2 DEF WritersApart, InHand
    <3> QED
      BY <2>0, <2>1, <3>1, <3>2, <3>3 DEF WritersApart, InHand, Over
  <2>2. ASSUME writer[d].pc = "uploaded", snapshot' = writer[d].file,
               \/ writer'[d] = Idle
               \/ writer'[d].pc = "replaced" /\ writer'[d].over = writer[d].over
        PROVE  WritersApart'
    <3>1. writer[d].over # writer[d].file
      BY <2>2 DEF WritersApart, Over
    <3>2. \A e \in Devices \ {d} : /\ writer[e].pc = "uploaded" => writer[e].file # writer[d].file
                                   /\ writer[e].pc # "idle" => writer[e].over # writer[d].file
      BY <2>2 DEF WritersApart, InHand, Over
    <3>3. \A e \in Devices : writer[e].pc = "uploaded" => ~Over(d, writer[e].file)
      BY DEF WritersApart
    <3> QED
      BY <2>0, <2>2, <3>1, <3>2, <3>3 DEF WritersApart, InHand, Over, Idle
  <2>3. ASSUME writer'[d] = Idle, UNCHANGED snapshot PROVE WritersApart'
    BY <2>0, <2>3 DEF WritersApart, InHand, Over, Idle
  <2> QED
    BY <1>2, <2>1, <2>2, <2>3, WriterSteps
<1> QED
  BY <1>1, <1>2, NoWriterStep

-----------------------------------------------------------------------------
(* A send, and what comes to be named. *)

\* Every step of a send leaves the rest alone, and its files are named, or forgotten for late ones.
LEMMA SendingStep ==
  ASSUME TypeOK, Sending, Next
  PROVE  Sending'
<1>1. CASE UNCHANGED <<draft, sent, copying, late, vaultOnly>>
  BY <1>1 DEF Sending, fileIdsOfDraft
<1>2. ASSUME late \subseteq late', UNCHANGED <<sent, copying, vaultOnly>>,
             draft.state \notin {"accepted", "sent", "gone"}
      PROVE  Sending'
  BY <1>2 DEF Sending
<1>3. ASSUME NEW d \in Devices, Compose(d) PROVE Sending'
  <2>1. CASE Save(d)
    BY <1>2, <2>1 DEF Save, Naming, Settled
  <2>2. CASE ~Save(d)
    BY <1>1, <1>3, <2>2 DEF Compose, Open, Close, Attach, Detach, resolveDraftConflict, records
  <2> QED
    BY <2>1, <2>2
<1>4. CASE Send
  <2>1. ASSUME NEW d \in cast.composing, Claim(d) PROVE Sending'
    BY <1>2, <2>1 DEF Claim, Naming
  <2>2. CASE Thaw \/ Discard
    BY <1>2, <2>2 DEF Thaw, Discard
  <2>3. CASE Accept
    BY <2>3 DEF Accept, Bump, Sending, fileIdsOfDraft
  <2>4. CASE storeSentRecord
    BY <2>4 DEF storeSentRecord, Sending, fileIdsOfDraft
  <2>5. CASE Complete
    BY <2>5 DEF Complete, Bump, Sending
  <2>6. CASE FinishWithoutCopy
    BY <2>6 DEF FinishWithoutCopy, Bump, Sending
  <2>7. CASE Resume
    BY <2>7 DEF Resume, Sending, fileIdsOfDraft
  <2>8. CASE DropCopy
    BY <2>8 DEF DropCopy, Sending
  <2>9. CASE Purge
    <3>1. draft'.state = "gone"
      BY <2>9, DraftIs DEF Purge, Drafts
    <3> QED
      BY <2>9, <3>1 DEF Purge, Sending
  <2> QED
    BY <1>4, <2>1, <2>2, <2>3, <2>4, <2>5, <2>6, <2>7, <2>8, <2>9 DEF Send
<1>5. ASSUME NEW d \in Devices, saveSnapshot(d) PROVE Sending'
  <2>1. late \subseteq late' /\ UNCHANGED <<draft, sent, copying, vaultOnly>>
    BY <1>5 DEF saveSnapshot, Snap, NameSnapshot, Loses, Naming, RemoveReplaced, records
  <2> QED
    BY <2>1 DEF Sending, fileIdsOfDraft
<1>6. ASSUME NEW d \in Devices, collectFiles(d) PROVE Sending'
  BY <1>1, <1>6 DEF collectFiles, Start, ListMail, List, ListSnapshots, ListAddresses, ListFiles,
                    RemoveOne, Stop, records
<1>7. CASE ChangeAddress
  <2>1. late \subseteq late' /\ UNCHANGED <<draft, sent, copying, vaultOnly>>
    BY <1>7 DEF ChangeAddress, Naming
  <2> QED
    BY <2>1 DEF Sending, fileIdsOfDraft
<1>8. ASSUME NEW f \in Files, Upload(f) \/ Age(f) PROVE Sending'
  BY <1>1, <1>8 DEF Upload, Age, records
<1> QED
  BY <1>3, <1>4, <1>5, <1>6, <1>7, <1>8, Steps

\* In its day and stored, or named against the collector's assumption.
NewlyNamed(f) == f \in late' \/ (f \notin old /\ f \in stored /\ f \in stored')

\* A record comes to name a file it did not name that is new to them, or that the draft it is a
\* copy of names.
LEMMA NewNames ==
  ASSUME Inv, Next, NEW f \in Files
  PROVE  /\ f \in late => f \in late'
         /\ f \in fileIdsOfDraft(draft)' => f \in fileIdsOfDraft(draft) \/ NewlyNamed(f)
         /\ f \in fileIdsOfSent' => f \in fileIdsOfSent \/ f \in fileIdsOfDraft(draft) \/ NewlyNamed(f)
         /\ f \in SnapshotNames' => f \in SnapshotNames \/ NewlyNamed(f)
<1>0. TypeOK /\ Kinds /\ WritersApart /\ Sending /\ YoungFilesStand
  BY DEF Inv
<1>1. CASE UNCHANGED <<draft, sent, snapshot, address, late>>
  BY <1>1 DEF fileIdsOfDraft, fileIdsOfSent, SnapshotNames
<1>2. ASSUME NEW fs, f \in fs, Naming(fs), f \notin Named, f \notin old => f \in stored /\ f \in stored'
      PROVE  NewlyNamed(f)
  BY <1>2 DEF Naming, NewlyNamed
<1>3. ASSUME NEW d \in Devices, editor[d] # None, Naming(Uploaded(d)), f \in Uploaded(d),
             f \notin fileIdsOfDraft(draft), sent = None, UNCHANGED stored
      PROVE  NewlyNamed(f)
  <2>1. OfMail(f) /\ uploads[f] = "uploaded"
    BY <1>3 DEF OfMail, InEditor, Uploaded
  <2>2. f \notin Named
    BY <1>0, <1>3, <2>1 DEF Named, fileIdsOfSent, SnapshotNames, Kinds, OfSnapshot
  <2>3. f \notin old => f \in stored
    BY <1>0, <2>1 DEF YoungFilesStand
  <2> QED
    BY <1>2, <1>3, <2>2, <2>3
<1>4. ASSUME NEW d \in Devices, Compose(d)
      PROVE  /\ f \in late => f \in late'
             /\ f \in fileIdsOfDraft(draft)' => f \in fileIdsOfDraft(draft) \/ NewlyNamed(f)
             /\ UNCHANGED <<sent, snapshot, address>>
  <2>1. CASE Save(d)
    <3>1. sent = None
      BY <1>0, <2>1 DEF Save, Settled, Sending
    <3>2. draft'.files = Uploaded(d) /\ draft'.frozen = draft.frozen /\ draft.state # "gone"
      BY <1>0, <2>1, DraftIs DEF Save, Settled, Drafts
    <3>3. f \in fileIdsOfDraft(draft)' => f \in fileIdsOfDraft(draft) \/ f \in Uploaded(d)
      BY <3>2 DEF fileIdsOfDraft
    <3>4. f \in late => f \in late'
      BY <2>1 DEF Save, Naming
    <3> QED
      BY <1>3, <2>1, <3>1, <3>3, <3>4 DEF Save
  <2>2. CASE ~Save(d)
    BY <1>4, <2>2 DEF Compose, Open, Close, Attach, Detach, resolveDraftConflict, records, fileIdsOfDraft
  <2> QED
    BY <2>1, <2>2
<1>5. CASE Send
  <2>0. ASSUME UNCHANGED <<sent, snapshot, address, late>>, fileIdsOfDraft(draft)' \subseteq fileIdsOfDraft(draft)
        PROVE  /\ f \in late => f \in late'
               /\ f \in fileIdsOfDraft(draft)' => f \in fileIdsOfDraft(draft)
               /\ f \in fileIdsOfSent' => f \in fileIdsOfSent
               /\ f \in SnapshotNames' => f \in SnapshotNames
    BY <2>0 DEF fileIdsOfSent, SnapshotNames
  <2>1. ASSUME NEW d \in cast.composing, Claim(d)
        PROVE  /\ f \in late => f \in late'
               /\ f \in fileIdsOfDraft(draft)' => f \in fileIdsOfDraft(draft) \/ NewlyNamed(f)
               /\ UNCHANGED <<sent, snapshot, address>>
    <3>1. d \in Devices
      BY <1>0, ConstantsAssumption DEF TypeOK
    <3>2. sent = None
      BY <1>0, <2>1 DEF Claim, Sending
    <3>3. f \in fileIdsOfDraft(draft)' => f \in Uploaded(d)
      BY <2>1 DEF Claim, Bump, fileIdsOfDraft
    <3>4. f \in late => f \in late'
      BY <2>1 DEF Claim, Naming
    <3> QED
      BY <1>3, <2>1, <3>1, <3>2, <3>3, <3>4 DEF Claim
  <2>2. CASE Thaw
    BY <2>0, <2>2 DEF Thaw, Bump, fileIdsOfDraft
  <2>3. CASE Accept
    BY <2>0, <2>3 DEF Accept, Bump, fileIdsOfDraft
  <2>4. CASE storeSentRecord
    <3>1. f \in fileIdsOfSent' => f \in fileIdsOfSent \/ f \in fileIdsOfDraft(draft) \/ f \in late
      BY <1>0, <2>4 DEF storeSentRecord, fileIdsOfSent, Sending
    <3> QED
      BY <2>4, <3>1 DEF storeSentRecord, NewlyNamed, fileIdsOfDraft, SnapshotNames
  <2>5. CASE Complete
    BY <2>0, <2>5 DEF Complete, Bump, fileIdsOfDraft
  <2>6. CASE FinishWithoutCopy
    BY <2>6 DEF FinishWithoutCopy, Bump, fileIdsOfDraft, fileIdsOfSent, SnapshotNames
  <2>7. CASE Resume \/ DropCopy
    BY <1>1, <2>7 DEF Resume, DropCopy
  <2>8. CASE Discard
    BY <2>0, <2>8 DEF Discard, Bump, fileIdsOfDraft
  <2>9. CASE Purge
    <3>1. draft'.state = "gone"
      BY <1>0, <2>9, DraftIs DEF Purge, Drafts
    <3> QED
      BY <2>0, <2>9, <3>1 DEF Purge, fileIdsOfDraft
  <2> QED
    BY <1>5, <2>1, <2>2, <2>3, <2>4, <2>5, <2>6, <2>7, <2>8, <2>9 DEF Send, fileIdsOfSent, SnapshotNames
<1>6. ASSUME OfSnapshot(f) PROVE f \notin fileIdsOfDraft(draft) /\ f \notin fileIdsOfSent
  BY <1>0, <1>6 DEF Kinds, OfMail, InDraft, fileIdsOfDraft
<1>7. ASSUME NEW d \in Devices, saveSnapshot(d)
      PROVE  /\ f \in late => f \in late'
             /\ f \in SnapshotNames' => f \in SnapshotNames \/ NewlyNamed(f)
             /\ UNCHANGED <<draft, sent>>
  <2>1. CASE NameSnapshot(d) /\ snapshot' # snapshot
    <3>1. /\ writer[d].pc = "uploaded" /\ snapshot' = writer[d].file /\ UNCHANGED <<stored, address>>
          /\ IF address THEN Naming({writer[d].file}) ELSE UNCHANGED late
      BY <2>1 DEF NameSnapshot, Loses
    <3>2. InHand(d, writer[d].file) /\ writer[d].file # snapshot
      BY <1>0, <3>1 DEF InHand, WritersApart
    <3>3. f = writer[d].file => f \notin Named
      BY <1>6, <3>2 DEF OfSnapshot, Named, SnapshotNames
    <3>4. f = writer[d].file /\ f \notin old => f \in stored
      BY <1>0, <3>2 DEF YoungFilesStand
    <3>5. f \in SnapshotNames' => f = writer[d].file /\ address
      BY <3>1 DEF SnapshotNames
    <3>6. f \in late => f \in late'
      BY <3>1 DEF Naming
    <3> QED
      BY <1>2, <2>1, <3>1, <3>3, <3>4, <3>5, <3>6 DEF NameSnapshot
  <2>2. CASE ~(NameSnapshot(d) /\ snapshot' # snapshot)
    <3>1. UNCHANGED <<draft, sent, snapshot, address>>
      BY <1>7, <2>2 DEF saveSnapshot, Snap, NameSnapshot, RemoveReplaced, records
    <3>2. f \in late => f \in late'
      BY <1>7 DEF saveSnapshot, Snap, NameSnapshot, Loses, Naming, RemoveReplaced
    <3> QED
      BY <3>1, <3>2 DEF SnapshotNames
  <2> QED
    BY <2>1, <2>2
<1>8. ASSUME NEW d \in Devices, collectFiles(d) PROVE UNCHANGED <<draft, sent, snapshot, address, late>>
  BY <1>8 DEF collectFiles, Start, ListMail, List, ListSnapshots, ListAddresses, ListFiles,
              RemoveOne, Stop, records
<1>9. CASE ChangeAddress
  <2>1. UNCHANGED <<draft, sent, snapshot, stored>> /\ (f \in late => f \in late')
    BY <1>9 DEF ChangeAddress, Naming, clients
  <2>2. f \in SnapshotNames' => f = snapshot /\ ~address /\ Naming({snapshot})
    BY <1>9 DEF ChangeAddress, SnapshotNames
  <2>3. f = snapshot => f \notin fileIdsOfDraft(draft) /\ f \notin fileIdsOfSent /\ (f \notin old => f \in stored)
    BY <1>0, <1>6 DEF OfSnapshot, YoungFilesStand
  <2>4. f \in SnapshotNames' => NewlyNamed(f)
    <3> SUFFICES ASSUME f \in SnapshotNames' PROVE NewlyNamed(f)
      OBVIOUS
    <3>1. f \notin Named
      BY <2>2, <2>3 DEF Named, SnapshotNames
    <3> QED
      BY <1>2, <2>1, <2>2, <2>3, <3>1
  <2> QED
    BY <2>1, <2>4 DEF fileIdsOfDraft, fileIdsOfSent
<1>10. ASSUME NEW g \in Files, Upload(g) \/ Age(g) PROVE UNCHANGED <<draft, sent, snapshot, address, late>>
  BY <1>10 DEF Upload, Age, records
<1> QED
  BY <1>0, <1>1, <1>4, <1>5, <1>7, <1>8, <1>9, <1>10, Steps DEF fileIdsOfDraft, fileIdsOfSent, SnapshotNames

-----------------------------------------------------------------------------
(* What a step deletes, and what stands after it. *)

\* A collector deletes what it may; a snapshot writer its own file, or the one it replaced.
LEMMA Deletes ==
  ASSUME Inv, Next, NEW f \in Files, f \in stored, f \notin stored'
  PROVE  \/ /\ UNCHANGED <<records, editor, writer, uploads, old, late>>
            /\ f \in old /\ (f \in Named => f \in late)
         \/ ~OfMail(f)' /\ f # snapshot' /\ \A e \in Devices : ~InHand(e, f)'
<1>0. TypeOK /\ Kinds /\ WritersApart /\ Collecting
  BY DEF Inv
<1>1. ASSUME NEW d \in Devices, collectFiles(d)
      PROVE  /\ UNCHANGED <<records, editor, writer, uploads, old, late>>
             /\ f \in old /\ (f \in Named => f \in late)
  <2>1. RemoveOne(d)
    BY <1>1 DEF collectFiles, Start, ListMail, List, ListSnapshots, ListAddresses, ListFiles, Stop
  <2>2. collector[d].pc = "remove" /\ f \in collector[d].named
    BY <2>1 DEF RemoveOne
  <2> QED
    BY <1>0, <2>1, <2>2 DEF RemoveOne, Collecting, Listed
<1>2. ASSUME NEW d \in Devices, saveSnapshot(d)
      PROVE  ~OfMail(f)' /\ f # snapshot' /\ \A e \in Devices : ~InHand(e, f)'
  <2>1. /\ writer[d].pc # "idle" /\ writer'[d] = Idle /\ UNCHANGED snapshot
        /\ \/ writer[d].pc = "uploaded" /\ f = writer[d].file
           \/ writer[d].pc = "replaced" /\ f = writer[d].over
    BY <1>0, <1>2, WriterSteps
  <2>2. OfSnapshot(f) /\ f # snapshot /\ \A e \in Devices \ {d} : ~InHand(e, f)
    BY <1>0, <2>1 DEF OfSnapshot, InHand, Over, WritersApart
  <2>3. ~OfMail(f)
    BY <1>0, <2>2 DEF Kinds
  <2>4. /\ \A e \in Devices \ {d} : writer'[e] = writer[e]
        /\ UNCHANGED <<editor, draft, copying, sent>>
    BY <1>0, <1>2, WriterSteps
  <2> QED
    BY <2>1, <2>2, <2>3, <2>4 DEF OfMail, InEditor, InDraft, InCopy, fileIdsOfSent, InHand, Idle
<1>3. ASSUME NEW d \in Devices, Compose(d) PROVE UNCHANGED stored
  BY <1>3 DEF Compose, Open, Close, Attach, Detach, Save, resolveDraftConflict
<1>4. Send \/ ChangeAddress => UNCHANGED stored
  BY DEF Send, Claim, Thaw, Accept, storeSentRecord, Complete, FinishWithoutCopy, Resume, DropCopy,
         Discard, Purge, ChangeAddress
<1>5. ASSUME NEW g \in Files, Upload(g) \/ Age(g) PROVE stored \subseteq stored'
  BY <1>5 DEF Upload, Age
<1> QED
  BY <1>0, <1>1, <1>2, <1>3, <1>4, <1>5, Steps

\* A file past its day stays past it.
LEMMA OldGrows ==
  ASSUME TypeOK, Next
  PROVE  old \subseteq old'
<1>1. ASSUME NEW d \in Devices, Compose(d) \/ saveSnapshot(d) PROVE UNCHANGED old
  BY <1>1 DEF Compose, Open, Close, Attach, Detach, Save, resolveDraftConflict,
              saveSnapshot, Snap, NameSnapshot, RemoveReplaced
<1>2. ASSUME NEW d \in Devices, collectFiles(d) PROVE UNCHANGED old
  BY <1>2 DEF collectFiles, Start, ListMail, List, ListSnapshots, ListAddresses, ListFiles, RemoveOne, Stop
<1>3. Send \/ ChangeAddress => UNCHANGED old
  BY DEF Send, Claim, Thaw, Accept, storeSentRecord, Complete, FinishWithoutCopy, Resume, DropCopy,
         Discard, Purge, ChangeAddress
<1>4. ASSUME NEW f \in Files, Upload(f) \/ Age(f) PROVE old \subseteq old'
  BY <1>4 DEF Upload, Age
<1> QED
  BY <1>1, <1>2, <1>3, <1>4, Steps

\* A file stands in its day: a step that gives it to the mail or to a writer has it stored, or
\* only minted.
LEMMA YoungStep ==
  ASSUME Inv, Next
  PROVE  YoungFilesStand'
<1>0. TypeOK /\ YoungFilesStand
  BY DEF Inv
<1> SUFFICES ASSUME NEW f \in Files, f \notin old', f \notin stored'
             PROVE  /\ ~(OfMail(f)' /\ uploads'[f] = "uploaded")
                    /\ f # snapshot' /\ \A e \in Devices : ~InHand(e, f)'
  BY DEF YoungFilesStand
<1>1. f \notin old
  BY <1>0, OldGrows
<1>2. CASE f \in stored
  BY <1>1, <1>2, Deletes
<1>3. CASE f \notin stored
  <2>1. ~(OfMail(f)' /\ uploads'[f] = "uploaded")
    BY <1>0, <1>1, <1>3, Mints, MailSteps DEF YoungFilesStand
  <2>2. f # snapshot /\ \A e \in Devices : ~InHand(e, f)
    BY <1>0, <1>1, <1>3 DEF YoungFilesStand
  <2>3. CASE UNCHANGED <<writer, snapshot>>
    BY <2>1, <2>2, <2>3 DEF InHand
  <2>4. ASSUME NEW d \in Devices, saveSnapshot(d)
        PROVE  f # snapshot' /\ \A e \in Devices : ~InHand(e, f)'
    <3>1. \A e \in Devices \ {d} : ~InHand(e, f)'
      BY <1>0, <2>2, <2>4, WriterSteps DEF InHand
    <3>2. CASE \E g \in Fresh : /\ writer'[d] = [pc |-> "uploaded", file |-> g, over |-> snapshot]
                                /\ uploads' = [uploads EXCEPT ![g] = "uploaded"]
                                /\ stored' = stored \cup {g} /\ UNCHANGED snapshot
      <4>1. PICK g \in Fresh : /\ writer'[d] = [pc |-> "uploaded", file |-> g, over |-> snapshot]
                               /\ stored' = stored \cup {g} /\ UNCHANGED snapshot
        BY <3>2
      <4>2. writer'[d].file = g /\ f # g
        BY <4>1
      <4> QED
        BY <2>2, <3>1, <4>1, <4>2 DEF InHand
    <3>3. CASE /\ writer[d].pc = "uploaded" /\ snapshot = writer[d].over /\ snapshot' = writer[d].file
               /\ UNCHANGED <<stored, uploads>>
               /\ \/ writer'[d] = Idle
                  \/ writer'[d].pc = "replaced" /\ writer'[d].over = writer[d].over
      <4>1. writer'[d].pc # "uploaded"
        BY <3>3 DEF Idle
      <4> QED
        BY <2>2, <3>1, <3>3, <4>1 DEF InHand
    <3>4. CASE writer'[d] = Idle /\ UNCHANGED <<snapshot, uploads>>
      BY <2>2, <3>1, <3>4 DEF InHand, Idle
    <3> QED
      BY <1>0, <2>4, <3>2, <3>3, <3>4, WriterSteps
  <2> QED
    BY <1>0, <2>1, <2>3, <2>4, NoWriterStep
<1> QED
  BY <1>2, <1>3

\* What a record names stands: it was named and stands still, or is named anew in its day.
LEMMA NamedStep ==
  ASSUME Inv, Next
  PROVE  NamedFilesStand'
<1>0. TypeOK /\ TypeOK' /\ NamedFilesStand
  BY TypeStep DEF Inv
<1>1. Named' \subseteq Files
  BY <1>0 DEF Named, TypeOK, Drafts, FileSets, fileIdsOfDraft, fileIdsOfSent, SnapshotNames
<1> SUFFICES ASSUME NEW f \in Files, f \in Named', f \notin late'
             PROVE  f \in stored'
  BY <1>1 DEF NamedFilesStand
<1>2. f \in Named \/ NewlyNamed(f)
  BY NewNames DEF Named
<1>3. f \notin late
  BY NewNames
<1>4. f \in stored
  BY <1>0, <1>2, <1>3 DEF NamedFilesStand, NewlyNamed
<1>5. OfMail(f)' \/ f = snapshot'
  BY DEF Named, OfMail, InDraft, fileIdsOfDraft, SnapshotNames
<1>6. f \in Named \/ f \in stored'
  BY <1>2 DEF NewlyNamed
<1> QED
  BY <1>3, <1>4, <1>5, <1>6, Deletes

\* A collector at rest in a step keeps what it knows.
LEMMA ListedStands ==
  ASSUME Inv, Next, NEW d \in Devices, UNCHANGED collector[d]
  PROVE  collector'[d].old \subseteq old' /\ Listed(collector[d])'
<1>0. TypeOK /\ Collecting
  BY DEF Inv
<1>1. collector[d] \in Collectors /\ collector[d].old \subseteq old /\ Listed(collector[d]) /\ old \subseteq old'
  BY <1>0, OldGrows DEF TypeOK, Collecting
<1>2. ASSUME NEW f, f \in old
      PROVE  /\ f \in late => f \in late'
             /\ f \in fileIdsOfDraft(draft)' => f \in fileIdsOfDraft(draft) \/ f \in late'
             /\ f \in fileIdsOfSent' => f \in fileIdsOfSent \/ f \in fileIdsOfDraft(draft) \/ f \in late'
             /\ f \in SnapshotNames' => f \in SnapshotNames \/ f \in late'
  BY <1>0, <1>2, NewNames DEF NewlyNamed, TypeOK
<1>3. ASSUME NEW f \in Unseen(collector[d]) PROVE f \in old
  BY <1>1 DEF Unseen
<1>4. ASSUME collector[d].pc \in {"sent", "snapshots", "addresses", "files"},
             NEW f \in Unseen(collector[d]), f \in fileIdsOfDraft(draft)'
      PROVE  f \in late'
  BY <1>1, <1>2, <1>3, <1>4 DEF Listed
<1>5. ASSUME collector[d].pc \in {"snapshots", "addresses", "files"},
             NEW f \in Unseen(collector[d]), f \in fileIdsOfSent'
      PROVE  f \in late'
  BY <1>1, <1>2, <1>3, <1>5 DEF Listed
<1>6. ASSUME collector[d].pc = "addresses", NEW f \in collector[d].old \ collector[d].snap, f \in SnapshotNames'
      PROVE  f \in late'
  BY <1>1, <1>2, <1>6 DEF Listed
<1>7. ASSUME collector[d].pc = "files", NEW f \in Unseen(collector[d]), f \in SnapshotNames'
      PROVE  f \in late'
  BY <1>1, <1>2, <1>3, <1>7 DEF Listed
<1>8. ASSUME collector[d].pc = "remove", NEW f \in collector[d].named
      PROVE  f \in old' /\ (f \in Named' => f \in late')
  BY <1>1, <1>2, <1>8 DEF Listed, Named
<1>9. Unseen(collector[d])' = Unseen(collector[d])
  BY DEF Unseen
<1> QED
  BY <1>1, <1>4, <1>5, <1>6, <1>7, <1>8, <1>9 DEF Listed

\* A list adds what it names to what its collector knows, and the last one tells what to delete.
LEMMA ListedSteps ==
  ASSUME Inv, NEW d \in Devices, collectFiles(d)
  PROVE  collector'[d].old \subseteq old' /\ Listed(collector[d])'
<1>0. TypeOK /\ Collecting
  BY DEF Inv
<1>1. collector[d] \in Collectors /\ collector[d].old \subseteq old /\ Listed(collector[d])
      /\ collector \in [Devices -> Collectors]
  BY <1>0 DEF TypeOK, Collecting
<1>2. ASSUME NEW c, CollectorTo(d, c), c.old \subseteq old, Listed(c), UNCHANGED <<records, old, late>>
      PROVE  collector'[d].old \subseteq old' /\ Listed(collector[d])'
  <2>1. collector'[d] = c
    BY <1>1, <1>2 DEF CollectorTo
  <2> QED
    BY <1>2, <2>1 DEF Listed, Unseen, Named, fileIdsOfDraft, fileIdsOfSent, SnapshotNames, records
<1>3. Resting.old \subseteq old /\ Listed(Resting)
  BY DEF Resting, Listed
<1>4. CASE Start(d)
  <2>1. DEFINE c == [Resting EXCEPT !.pc = "drafts", !.old = Grace]
  <2>2. c.old \subseteq old /\ c.pc = "drafts"
    BY DEF Resting, Grace
  <2>3. Listed(c)
    BY <2>2 DEF Listed
  <2> QED
    BY <1>2, <1>4, <2>2, <2>3 DEF Start
<1>5. ASSUME NEW at, NEW next, NEW names, List(d, at, next, names),
             NEW c, c = [collector[d] EXCEPT !.pc = next, !.named = @ \cup names], Listed(c)
      PROVE  collector'[d].old \subseteq old' /\ Listed(collector[d])'
  <2>1. c.old = collector[d].old
    BY <1>1, <1>5 DEF Collectors
  <2> QED
    BY <1>1, <1>2, <1>5, <2>1 DEF List
<1>6. CASE ListMail(d)
  <2>1. CASE List(d, "drafts", "sent", fileIdsOfDraft(draft))
    <3>1. DEFINE c == [collector[d] EXCEPT !.pc = "sent", !.named = @ \cup fileIdsOfDraft(draft)]
    <3>2. c.pc = "sent" /\ c.named = collector[d].named \cup fileIdsOfDraft(draft)
      BY <1>1 DEF Collectors
    <3>3. Listed(c)
      BY <3>2 DEF Listed, Unseen
    <3> QED
      BY <1>5, <2>1, <3>3
  <2>2. CASE List(d, "sent", "snapshots", fileIdsOfSent)
    <3>1. DEFINE c == [collector[d] EXCEPT !.pc = "snapshots", !.named = @ \cup fileIdsOfSent]
    <3>2. c.pc = "snapshots" /\ c.named = collector[d].named \cup fileIdsOfSent /\ c.old = collector[d].old
      BY <1>1 DEF Collectors
    <3>3. \A f \in Unseen(c) : f \in fileIdsOfDraft(draft) => f \in late
      BY <1>1, <2>2, <3>2 DEF List, Listed, Unseen
    <3>4. \A f \in Unseen(c) : f \notin fileIdsOfSent
      BY <3>2 DEF Unseen
    <3>5. Listed(c)
      BY <3>2, <3>3, <3>4 DEF Listed
    <3> QED
      BY <1>5, <2>2, <3>5
  <2>3. CASE CollectorTo(d, Resting) /\ UNCHANGED <<records, editor, writer, uploads, stored, old, late>>
    BY <1>2, <1>3, <2>3
  <2> QED
    BY <1>6, <2>1, <2>2, <2>3 DEF ListMail
<1>7. CASE ListSnapshots(d)
  <2>1. DEFINE c == [collector[d] EXCEPT !.pc = "addresses", !.snap = Snapshots]
  <2>2. c.pc = "addresses" /\ c.snap = Snapshots /\ c.named = collector[d].named /\ c.old = collector[d].old
    BY <1>1 DEF Collectors
  <2>3. Unseen(c) = Unseen(collector[d]) /\ collector[d].pc = "snapshots"
    BY <1>7, <2>2 DEF Unseen, ListSnapshots
  <2>4. \A f \in c.old \ c.snap : f \notin SnapshotNames
    BY <2>2 DEF Snapshots, SnapshotNames
  <2>5. Listed(c)
    BY <1>1, <2>2, <2>3, <2>4 DEF Listed
  <2> QED
    BY <1>1, <1>2, <1>7, <2>2, <2>5 DEF ListSnapshots
<1>8. CASE ListAddresses(d)
  <2>1. DEFINE names == IF address THEN collector[d].snap ELSE {}
               c == [collector[d] EXCEPT !.pc = "files", !.named = @ \cup names]
  <2>2. c.pc = "files" /\ c.named = collector[d].named \cup names /\ c.old = collector[d].old
    BY <1>1 DEF Collectors
  <2>3. collector[d].pc = "addresses" /\ Unseen(c) \subseteq Unseen(collector[d])
    BY <1>8, <2>2 DEF Unseen, ListAddresses, List
  <2>4. \A f \in Unseen(c) : f \in SnapshotNames => f \in late
    BY <1>1, <2>2, <2>3 DEF Unseen, SnapshotNames, Listed
  <2>5. Listed(c)
    BY <1>1, <2>2, <2>3, <2>4 DEF Listed
  <2> QED
    BY <1>5, <1>8, <2>5 DEF ListAddresses
<1>9. CASE ListFiles(d)
  <2>1. DEFINE c == [Resting EXCEPT !.pc = "remove", !.named = Collectable(d)]
  <2>2. c.pc = "remove" /\ c.named = Collectable(d) /\ c.old = {} /\ collector[d].pc = "files"
    BY <1>9 DEF Resting, ListFiles
  <2>3. Collectable(d) \subseteq Unseen(collector[d])
    BY DEF Collectable, Unseen
  <2>4. \A f \in Collectable(d) : f \in old /\ (f \in Named => f \in late)
    BY <1>1, <2>2, <2>3 DEF Listed, Named, Unseen
  <2>5. Listed(c)
    BY <2>2, <2>4 DEF Listed
  <2> QED
    BY <1>2, <1>9, <2>2, <2>5 DEF ListFiles
<1>10. CASE RemoveOne(d)
  <2>1. PICK f \in collector[d].named : CollectorTo(d, [collector[d] EXCEPT !.named = @ \ {f}])
    BY <1>10 DEF RemoveOne
  <2>2. DEFINE c == [collector[d] EXCEPT !.named = @ \ {f}]
  <2>3. c.pc = "remove" /\ c.named \subseteq collector[d].named /\ c.old = collector[d].old
        /\ collector[d].pc = "remove"
    BY <1>1, <1>10 DEF Collectors, RemoveOne
  <2>4. Listed(c)
    BY <1>1, <2>3 DEF Listed
  <2> QED
    BY <1>1, <1>2, <1>10, <2>1, <2>3, <2>4 DEF RemoveOne
<1>11. CASE Stop(d)
  BY <1>2, <1>3, <1>11 DEF Stop
<1> QED
  BY <1>4, <1>6, <1>7, <1>8, <1>9, <1>10, <1>11 DEF collectFiles

\* What collectors have listed stays named, or late, while records change under their feet.
LEMMA CollectingStep ==
  ASSUME Inv, Next
  PROVE  Collecting'
<1> SUFFICES ASSUME NEW d \in Devices
             PROVE  collector'[d].old \subseteq old' /\ Listed(collector[d])'
  BY DEF Collecting
<1>0. TypeOK
  BY DEF Inv
<1>1. CASE UNCHANGED collector[d]
  BY <1>1, ListedStands
<1>2. CASE collectFiles(d)
  BY <1>2, ListedSteps
<1>3. ASSUME NEW e \in Devices, e # d, collectFiles(e) PROVE UNCHANGED collector[d]
  BY <1>0, <1>3 DEF collectFiles, Start, ListMail, List, ListSnapshots, ListAddresses, ListFiles,
                    RemoveOne, Stop, CollectorTo, TypeOK
<1>4. ASSUME NEW e \in Devices, Compose(e) \/ saveSnapshot(e) PROVE UNCHANGED collector
  BY <1>4 DEF Compose, Open, Close, Attach, Detach, Save, resolveDraftConflict,
              saveSnapshot, Snap, NameSnapshot, RemoveReplaced
<1>5. Send \/ ChangeAddress => UNCHANGED collector
  BY DEF Send, Claim, Thaw, Accept, storeSentRecord, Complete, FinishWithoutCopy, Resume, DropCopy,
         Discard, Purge, ChangeAddress, clients
<1>6. ASSUME NEW f \in Files, Upload(f) \/ Age(f) PROVE UNCHANGED collector
  BY <1>6 DEF Upload, Age, clients
<1> QED
  BY <1>0, <1>1, <1>2, <1>3, <1>4, <1>5, <1>6, Steps

-----------------------------------------------------------------------------
(* The theorems. *)

\* In the first state nothing is minted, named or stored.
LEMMA InvInit == Init => Inv
<1> SUFFICES ASSUME Init PROVE Inv
  OBVIOUS
<1>1. TypeOK
  BY TypeInit
<1>2. \A d \in Devices : writer[d] = Idle /\ collector[d] = Resting /\ editor[d] = None
  BY DEF Init
<1>3. \A f \in Files : ~OfMail(f) /\ ~OfSnapshot(f) /\ \A d \in Devices : ~InHand(d, f)
  BY <1>2, ConstantsAssumption DEF Init, OfMail, InEditor, InDraft, InCopy, fileIdsOfSent, OfSnapshot, InHand, Over, Idle
<1>4. Kinds /\ YoungFilesStand
  BY <1>3 DEF Kinds, YoungFilesStand, OfSnapshot
<1>5. WritersApart
  BY <1>2 DEF WritersApart, Idle
<1>6. Sending
  BY DEF Init, Sending
<1>7. Collecting
  BY <1>2 DEF Collecting, Listed, Resting
<1>8. NamedFilesStand
  BY DEF Init, NamedFilesStand, Named, fileIdsOfDraft, fileIdsOfSent, SnapshotNames
<1> QED
  BY <1>1, <1>4, <1>5, <1>6, <1>7, <1>8 DEF Inv

\* Every step keeps the invariant.
LEMMA InvStep ==
  ASSUME Inv, [Next]_vars
  PROVE  Inv'
<1>0. TypeOK /\ Kinds /\ WritersApart /\ Sending
  BY DEF Inv
<1>1. CASE Next
  BY <1>0, <1>1, TypeStep, KindsStep, WritersStep, SendingStep, YoungStep, CollectingStep, NamedStep DEF Inv
<1>2. CASE UNCHANGED vars
  <2>1. TypeOK'
    BY <1>0, TypeStep
  <2>2. /\ \A f \in Files : (OfMail(f)' <=> OfMail(f)) /\ (OfSnapshot(f)' <=> OfSnapshot(f))
        /\ \A f \in Files, d \in Devices : InHand(d, f)' <=> InHand(d, f)
    BY <1>2 DEF vars, records, clients, OfMail, InEditor, InDraft, InCopy, fileIdsOfSent, OfSnapshot, InHand, Over
  <2>3. Kinds' /\ YoungFilesStand'
    BY <1>2, <2>2 DEF Inv, vars, records, clients, Kinds, YoungFilesStand
  <2>4. WritersApart'
    BY <1>2 DEF Inv, vars, records, clients, WritersApart, InHand, Over
  <2>5. Sending' /\ NamedFilesStand'
    BY <1>2 DEF Inv, vars, records, clients, Sending, NamedFilesStand, Named, fileIdsOfDraft, fileIdsOfSent,
                SnapshotNames
  <2>6. Collecting'
    BY <1>2 DEF Inv, vars, records, clients, Collecting, Listed, Unseen, Named, fileIdsOfDraft, fileIdsOfSent,
                SnapshotNames
  <2> QED
    BY <2>1, <2>3, <2>4, <2>5, <2>6 DEF Inv
<1> QED
  BY <1>1, <1>2

\* The inductive invariant holds in every state of every vault.
THEOREM Invariance == Spec => []Inv
<1> QED
  BY InvInit, InvStep, PTL DEF Spec

\* Records, clients and files keep the shape the code gives them.
THEOREM FilesTypeCorrect == Spec => []TypeOK
<1>1. Inv => TypeOK
  BY DEF Inv
<1> QED
  BY <1>1, Invariance, PTL

\* No data loss: no collector and no snapshot writer deletes a file that a record names, whatever
\* records change under its feet, but for the files named against the collector's assumption.
THEOREM NamedStand == Spec => []NamedFilesStand
<1>1. Inv => NamedFilesStand
  BY DEF Inv
<1> QED
  BY <1>1, Invariance, PTL

\* An attachment that its upload's answer promised stays for its editor's day, though no record
\* names it yet.
THEOREM UnsavedStand == Spec => []UnsavedFilesStand
<1>1. Inv => UnsavedFilesStand
  BY EditorIs DEF Inv, YoungFilesStand, UnsavedFilesStand, Uploaded, OfMail, InEditor, FileSets
<1> QED
  BY <1>1, Invariance, PTL

-----------------------------------------------------------------------------
(* The Worker's rows and objects.                                          *)

Uploaders == [pc : UploadPcs, file : Ids \cup {0}, size : Bytes]
Removers  == [pc : RemovalPcs, file : Ids \cup {0}]
Sweepers  == [pc : ResetPcs, page : SUBSET Ids, cursor : 0..End]

\* A request under way is of a file, and a page is read by a sweep.
ObjectShapes ==
  /\ plan \in Plans
  /\ row \in [Ids -> Bytes] /\ object \in [Ids -> Bytes]
  /\ upload \in [Uploads -> Uploaders]
  /\ removal \in [Removals -> Removers]
  /\ reset \in [Resets -> Sweepers]
  /\ faults \in 0..MaxFaults /\ answered \in SUBSET Ids /\ torn \in SUBSET Ids
  /\ \A u \in Uploads : upload[u].pc # "idle" => upload[u].file \in Ids /\ upload[u].size \in Sizes
  /\ \A d \in Removals : removal[d].pc # "idle" => removal[d].file \in Ids
  /\ \A x \in Resets : reset[x].page # {} => reset[x].pc \in {"sweep", "late"}

Removing == {"object", "row", "again"}

\* Who still takes away an object that no row counts.
UploadMends(u, f) ==
  /\ upload[u].file = f
  /\ \/ upload[u].pc \in Removing
     \/ upload[u].pc = "check" /\ upload[u].size = object[f]
RemovalMends(d, f) == removal[d].file = f /\ removal[d].pc \in Removing
SweepMends(x, f)   == reset[x].pc = "late" /\ (f \in reset[x].page \/ reset[x].cursor < f)

Mended(f) ==
  \/ \E u \in Uploads : UploadMends(u, f)
  \/ \E d \in Removals : RemovalMends(d, f)
  \/ \E x \in Resets : SweepMends(x, f)

StrayObjectsMended ==
  faults = 0 => \A f \in Ids : object[f] # 0 /\ row[f] # object[f] => Mended(f)

Sweeping == \E x \in Resets : reset[x].pc = "sweep"

\* An id is one upload's, unless it counts as torn.
OwnFile ==
  /\ \A u, v \in Uploads :
       /\ u # v /\ upload[u].pc # "idle" /\ upload[v].pc # "idle"
       /\ upload[u].file = upload[v].file
       => upload[u].file \in torn
  /\ \A d \in Removals : removal[d].pc # "idle" => removal[d].file \in torn

\* What is about to be checked stands, or its row is gone, or a sweep is before it.
CheckedStands ==
  \A u \in Uploads :
    upload[u].pc = "check" /\ upload[u].file \notin torn
      => \/ object[upload[u].file] = upload[u].size
         \/ row[upload[u].file] = 0
         \/ Sweeping

\* What answered is stored by its upload, and no sweep before a reset's batch goes on.
AnswersStand ==
  /\ Sweeping => answered = {}
  /\ \A f \in answered \ torn :
       /\ row[f] # 0 /\ object[f] = row[f]
       /\ \E u \in Uploads : upload[u].file = f /\ upload[u].pc = "stored"

\* The bytes the rows count are finitely many, and the quota bounds them.
Quota == IsFiniteSet(CountedBytes) /\ WithinQuota

ObjectsInv ==
  /\ ObjectShapes /\ Quota /\ StrayObjectsMended
  /\ OwnFile /\ CheckedStands /\ AnswersStand

-----------------------------------------------------------------------------
(* What each request's move leaves alone. *)

UploadMoved(u, pc) ==
  /\ \A v \in Uploads : v # u => upload'[v] = upload[v]
  /\ upload' \in [Uploads -> Uploaders]
  /\ upload'[u].pc = pc /\ upload'[u].file = upload[u].file /\ upload'[u].size = upload[u].size

RemovalMoved(d, pc) ==
  /\ \A e \in Removals : e # d => removal'[e] = removal[e]
  /\ removal' \in [Removals -> Removers]
  /\ removal'[d].pc = pc /\ removal'[d].file = removal[d].file

ResetMoved(x, pc, page, cursor) ==
  /\ \A y \in Resets : y # x => reset'[y] = reset[y]
  /\ reset' \in [Resets -> Sweepers]
  /\ reset'[x].pc = pc /\ reset'[x].page = page /\ reset'[x].cursor = cursor

\* One step of removeFile, from one pc to another.
RemovalOf(f, from, to, done) ==
  \/ /\ from = "object" /\ to = "row" /\ object' = [object EXCEPT ![f] = 0]
     /\ row' = row /\ faults' = faults /\ torn' = torn /\ answered' = answered \ {f}
  \/ /\ from = "row" /\ to = "again" /\ row' = [row EXCEPT ![f] = 0]
     /\ object' = object /\ faults' = faults /\ torn' = torn /\ answered' = answered
  \/ /\ from = "again" /\ to = done /\ object' = [object EXCEPT ![f] = 0]
     /\ row' = row /\ faults' = faults /\ torn' = torn /\ answered' = answered
  \/ /\ from \in Removing /\ to = "failed" /\ Fault
     /\ torn' = torn \cup {f} /\ answered' = answered \ {f}
     /\ row' = row /\ object' = object

\* Setting a pc moves that upload only.
LEMMA UploadMoves ==
  ASSUME ObjectShapes, NEW u \in Uploads, NEW pc \in UploadPcs,
         upload' = [upload EXCEPT ![u] = [upload[u] EXCEPT !.pc = pc]]
  PROVE  UploadMoved(u, pc)
<1>1. upload[u] \in Uploaders  BY DEF ObjectShapes
<1>2. [upload[u] EXCEPT !.pc = pc] \in Uploaders  BY <1>1 DEF Uploaders
<1>3. [upload[u] EXCEPT !.pc = pc].pc = pc /\ [upload[u] EXCEPT !.pc = pc].file = upload[u].file
      /\ [upload[u] EXCEPT !.pc = pc].size = upload[u].size
  BY <1>1 DEF Uploaders
<1> QED  BY <1>2, <1>3 DEF ObjectShapes, UploadMoved

LEMMA RemovalMoves ==
  ASSUME ObjectShapes, NEW d \in Removals, NEW pc \in RemovalPcs,
         removal' = [removal EXCEPT ![d] = [removal[d] EXCEPT !.pc = pc]]
  PROVE  RemovalMoved(d, pc)
<1>1. removal[d] \in Removers  BY DEF ObjectShapes
<1>2. [removal[d] EXCEPT !.pc = pc] \in Removers  BY <1>1 DEF Removers
<1>3. [removal[d] EXCEPT !.pc = pc].pc = pc /\ [removal[d] EXCEPT !.pc = pc].file = removal[d].file
  BY <1>1 DEF Removers
<1> QED  BY <1>2, <1>3 DEF ObjectShapes, RemovalMoved

\* An upload that failed removes its file as a removal does.
CleanUpSteps(u) ==
  /\ upload[u].pc \in Removing
  /\ UploadMoved(u, upload'[u].pc)
  /\ RemovalOf(upload[u].file, upload[u].pc, upload'[u].pc, "failed")
  /\ plan' = plan /\ removal' = removal /\ reset' = reset

LEMMA CleanUpIs ==
  ASSUME ObjectShapes, NEW u \in Uploads, CleanUp(u)
  PROVE  CleanUpSteps(u)
<1> DEFINE at(pc) == upload' = [upload EXCEPT ![u] = [upload[u] EXCEPT !.pc = pc]]
<1>1. PICK pc \in UploadPcs : at(pc) /\ upload[u].pc \in Removing
                              /\ RemovalOf(upload[u].file, upload[u].pc, pc, "failed")
  BY Zenon DEF CleanUp, RemoveStep, UploadTo, AfterRow, RemovalOf, Removing, UploadPcs
<1>2. UploadMoved(u, pc)  BY <1>1, UploadMoves
<1>3. upload'[u].pc = pc  BY <1>2 DEF UploadMoved
<1> QED  BY <1>1, <1>2, <1>3 DEF CleanUp, CleanUpSteps

RemoveSteps(d) ==
  /\ removal[d].pc \in Removing
  /\ RemovalMoved(d, removal'[d].pc)
  /\ RemovalOf(removal[d].file, removal[d].pc, removal'[d].pc, "removed")
  /\ plan' = plan /\ upload' = upload /\ reset' = reset

LEMMA RemoveIs ==
  ASSUME ObjectShapes, NEW d \in Removals, Remove(d)
  PROVE  RemoveSteps(d)
<1> DEFINE at(pc) == removal' = [removal EXCEPT ![d] = [removal[d] EXCEPT !.pc = pc]]
<1>1. PICK pc \in RemovalPcs : at(pc) /\ removal[d].pc \in Removing
                               /\ RemovalOf(removal[d].file, removal[d].pc, pc, "removed")
  BY Zenon DEF Remove, RemoveStep, RemovalTo, AfterRow, RemovalOf, Removing, RemovalPcs
<1>2. RemovalMoved(d, pc)  BY <1>1, RemovalMoves
<1>3. removal'[d].pc = pc  BY <1>2 DEF RemovalMoved
<1> QED  BY <1>1, <1>2, <1>3 DEF Remove, RemoveSteps

ReserveSteps(u) ==
  /\ upload[u].pc = "idle"
  /\ \A v \in Uploads : v # u => upload'[v] = upload[v]
  /\ upload' \in [Uploads -> Uploaders] /\ upload'[u].pc = "put"
  /\ upload'[u].file \in Ids /\ upload'[u].size \in Sizes
  /\ Fits(upload'[u].size) /\ row[upload'[u].file] = 0
  /\ row' = [row EXCEPT ![upload'[u].file] = upload'[u].size]
  /\ torn \subseteq torn' /\ torn' \subseteq Ids
  /\ \A v \in Uploads : upload[v].file = upload'[u].file => upload'[u].file \in torn'
  /\ plan' = plan /\ object' = object /\ removal' = removal /\ reset' = reset
  /\ faults' = faults /\ answered' = answered

LEMMA ReserveIs ==
  ASSUME ObjectShapes, NEW u \in Uploads, reserveFile(u)
  PROVE  ReserveSteps(u)
<1>1. PICK f \in Ids, size \in Sizes :
        /\ Fits(size) /\ row[f] = 0 /\ row' = [row EXCEPT ![f] = size]
        /\ torn' = IF \E v \in Uploads : upload[v].file = f THEN torn \cup {f} ELSE torn
        /\ upload' = [upload EXCEPT ![u] = [pc |-> "put", file |-> f, size |-> size]]
  BY Zenon DEF reserveFile, Insert, UploadTo
<1>2. [pc |-> "put", file |-> f, size |-> size] \in Uploaders
  BY DEF Uploaders, UploadPcs, Bytes
<1>3. upload'[u] = [pc |-> "put", file |-> f, size |-> size]  BY <1>1 DEF ObjectShapes
<1>4. upload'[u].file = f /\ upload'[u].size = size /\ upload'[u].pc = "put"  BY <1>3
<1>5. upload' \in [Uploads -> Uploaders] /\ \A v \in Uploads : v # u => upload'[v] = upload[v]
  BY <1>1, <1>2 DEF ObjectShapes
<1>6. /\ torn \subseteq torn' /\ torn' \subseteq Ids
      /\ \A v \in Uploads : upload[v].file = f => f \in torn'
  BY <1>1 DEF ObjectShapes
<1>7. upload[u].pc = "idle" /\ plan' = plan /\ object' = object /\ removal' = removal
      /\ reset' = reset /\ faults' = faults /\ answered' = answered
  BY DEF reserveFile
<1>8. Fits(upload'[u].size)  BY <1>1, <1>4
<1> QED  BY <1>1, <1>4, <1>5, <1>6, <1>7, <1>8 DEF ReserveSteps

PutSteps(u) ==
  /\ upload[u].pc = "put"
  /\ UploadMoved(u, upload'[u].pc) /\ upload'[u].pc \in {"check", "object"}
  /\ object' \in {object, [object EXCEPT ![upload[u].file] = upload[u].size]}
  /\ upload'[u].pc = "check" => object' = [object EXCEPT ![upload[u].file] = upload[u].size]
                                /\ faults' = faults
  /\ upload'[u].pc = "object" => Fault
  /\ plan' = plan /\ row' = row /\ removal' = removal /\ reset' = reset
  /\ answered' = answered /\ torn' = torn

LEMMA PutIs ==
  ASSUME ObjectShapes, NEW u \in Uploads, Put(u)
  PROVE  PutSteps(u)
<1> DEFINE at(pc) == upload' = [upload EXCEPT ![u] = [upload[u] EXCEPT !.pc = pc]]
<1>1. PICK pc \in {"check", "object"} :
        /\ at(pc)
        /\ object' \in {object, [object EXCEPT ![upload[u].file] = upload[u].size]}
        /\ pc = "check" => object' = [object EXCEPT ![upload[u].file] = upload[u].size]
                           /\ faults' = faults
        /\ pc = "object" => Fault
  BY Zenon DEF Put, UploadTo
<1>2. UploadMoved(u, pc)  BY <1>1, UploadMoves DEF UploadPcs
<1>3. upload'[u].pc = pc  BY <1>2 DEF UploadMoved
<1> QED  BY <1>1, <1>2, <1>3 DEF Put, PutSteps

CheckSteps(u) ==
  /\ upload[u].pc = "check"
  /\ UploadMoved(u, upload'[u].pc) /\ upload'[u].pc \in {"stored", "object"}
  /\ upload'[u].pc = "stored" => row[upload[u].file] = upload[u].size
  /\ upload'[u].pc = "object" => row[upload[u].file] # upload[u].size
  /\ answered' \in {answered, answered \cup {upload[u].file}}
  /\ answered' # answered => ~Sweeping /\ upload'[u].pc = "stored"
  /\ plan' = plan /\ row' = row /\ object' = object /\ removal' = removal
  /\ reset' = reset /\ faults' = faults /\ torn' = torn

LEMMA CheckIs ==
  ASSUME ObjectShapes, NEW u \in Uploads, Check(u)
  PROVE  CheckSteps(u)
<1> DEFINE at(pc) == upload' = [upload EXCEPT ![u] = [upload[u] EXCEPT !.pc = pc]]
<1>1. PICK pc \in {"stored", "object"} :
        /\ at(pc)
        /\ pc = "stored" => row[upload[u].file] = upload[u].size
        /\ pc = "object" => row[upload[u].file] # upload[u].size
        /\ answered' \in {answered, answered \cup {upload[u].file}}
        /\ answered' # answered => ~Sweeping /\ pc = "stored"
  BY Zenon DEF Check, UploadTo, RowStands, Sweeping
<1>2. UploadMoved(u, pc)  BY <1>1, UploadMoves DEF UploadPcs
<1>3. upload'[u].pc = pc  BY <1>2 DEF UploadMoved
<1> QED  BY <1>1, <1>2, <1>3 DEF Check, CheckSteps

AskSteps(d) ==
  /\ removal[d].pc = "idle"
  /\ \A e \in Removals : e # d => removal'[e] = removal[e]
  /\ removal' \in [Removals -> Removers]
  /\ removal'[d].file \in Ids /\ removal'[d].file \in torn'
  /\ answered' \subseteq answered /\ torn \subseteq torn' /\ torn' \subseteq Ids
  /\ plan' = plan /\ row' = row /\ object' = object /\ upload' = upload
  /\ reset' = reset /\ faults' = faults

LEMMA AskIs ==
  ASSUME ObjectShapes, NEW d \in Removals, AskRemoval(d)
  PROVE  AskSteps(d)
<1>1. PICK f \in Ids : removal' = [removal EXCEPT ![d] = [pc |-> "object", file |-> f]]
                       /\ answered' = answered \ {f} /\ torn' = torn \cup {f}
  BY Zenon DEF AskRemoval, RemovalTo
<1>2. [pc |-> "object", file |-> f] \in Removers  BY DEF Removers, RemovalPcs
<1>3. removal'[d] = [pc |-> "object", file |-> f]  BY <1>1 DEF ObjectShapes
<1>4. removal'[d].file = f  BY <1>3
<1> QED  BY <1>1, <1>2, <1>4 DEF AskRemoval, ObjectShapes, AskSteps

-----------------------------------------------------------------------------
(* A page of the bucket's listing. *)

\* Ids have a least and a greatest in every nonempty set.
LEMMA LeastId ==
  ASSUME NEW S, S \subseteq Nat, S # {}
  PROVE  \E m \in S : \A n \in S : m <= n
<1>1. PICK m \in S : \A n \in S : ~(<<n, m>> \in OpToRel(<, Nat))
  BY NatLessThanWellFounded, WFMin, Zenon
<1>2. \A n \in S : n \in Nat /\ m \in Nat  OBVIOUS
<1>3. \A n \in S : ~(n < m)
  BY <1>1, <1>2, Zenon DEF OpToRel
<1> QED  BY <1>2, <1>3

LEMMA GreatestId ==
  ASSUME NEW S, S \subseteq Ids, S # {}
  PROVE  Max(S) \in S /\ \A n \in S : n <= Max(S)
<1> DEFINE T == {MaxId - n : n \in S}
<1>0. MaxId \in Nat /\ \A n \in S : n \in Nat /\ n <= MaxId
  BY FileAssumption DEF Ids
<1>1. T \subseteq Nat /\ T # {}  BY <1>0
<1>2. PICK t \in T : \A s \in T : t <= s
  <2> HIDE DEF T
  <2> QED  BY <1>1, LeastId
<1>3. PICK m \in S : t = MaxId - m  BY <1>2
<1>4. \A n \in S : m >= n
  <2> TAKE n \in S
  <2>1. t <= MaxId - n  BY <1>2
  <2> QED  BY <1>0, <1>3, <2>1
<1>5. Max(S) \in S /\ \A n \in S : Max(S) >= n  BY <1>4 DEF Max
<1> QED  BY <1>5

Page(keys, k) == {f \in keys : Cardinality({g \in keys : g <= f}) <= k}

\* A page is the first of the keys, and not empty unless they are.
LEMMA PageIsPrefix ==
  ASSUME NEW keys, keys \subseteq Ids, NEW k \in Nat \ {0}
  PROVE  /\ Page(keys, k) \subseteq keys
         /\ keys # {} => Page(keys, k) # {}
         /\ \A f \in keys \ Page(keys, k), p \in Page(keys, k) : p < f
<1> DEFINE upTo(f) == {g \in keys : g <= f}
<1>0. \A f \in keys : f \in Nat  BY FileAssumption DEF Ids
<1>1. IsFiniteSet(keys)
  <2>1. IsFiniteSet(Ids)  BY FS_Interval, FileAssumption DEF Ids
  <2> QED  BY <2>1, FS_Subset
<1>2. \A f \in keys : IsFiniteSet(upTo(f)) /\ Cardinality(upTo(f)) \in Nat
  BY <1>1, FS_Subset, FS_CardinalityType
<1>3. ASSUME keys # {}  PROVE Page(keys, k) # {}
  <2>1. PICK m \in keys : \A n \in keys : m <= n
    <3>1. keys \subseteq Nat  BY <1>0
    <3> QED  BY <1>3, <3>1, LeastId
  <2>2. upTo(m) = {m}
    <3>1. \A n \in upTo(m) : n = m
      <4> TAKE n \in upTo(m)
      <4>1. n \in keys /\ n <= m  OBVIOUS
      <4> QED  BY <1>0, <2>1, <4>1
    <3>2. m \in upTo(m)  BY <1>0
    <3> QED  BY <3>1, <3>2
  <2>3. Cardinality(upTo(m)) <= k  BY <2>2, FS_Singleton
  <2> QED  BY <2>3 DEF Page
<1>4. ASSUME NEW f \in keys \ Page(keys, k), NEW p \in Page(keys, k)
      PROVE  p < f
  <2> SUFFICES ASSUME f <= p  PROVE FALSE  BY <1>0 DEF Page
  <2>1. p \in keys  BY DEF Page
  <2>2. \A g \in upTo(f) : g \in upTo(p)  BY <1>0, <2>1
  <2>3. Cardinality(upTo(f)) <= Cardinality(upTo(p))
    <3> HIDE DEF upTo
    <3> QED  BY <1>2, <2>1, <2>2, FS_Subset
  <2>4. Cardinality(upTo(p)) <= k /\ ~(Cardinality(upTo(f)) <= k)  BY DEF Page
  <2> HIDE DEF upTo
  <2> QED  BY <1>2, <2>1, <2>3, <2>4
<1> QED  BY <1>3, <1>4 DEF Page

\* What a page leaves out is past the cursor it leaves.
LEMMA NoKeySkipped ==
  ASSUME NEW keys, keys \subseteq Ids, NEW k \in Nat \ {0}, NEW cursor,
         cursor = IF \A f \in keys : f <= Max0(Page(keys, k)) THEN End ELSE Max(Page(keys, k))
  PROVE  /\ cursor \in 0..End
         /\ \A f \in keys : f \in Page(keys, k) \/ cursor < f
<1> DEFINE page == Page(keys, k)
<1> HIDE DEF page
<1>1. /\ page \subseteq keys /\ (keys # {} => page # {})
      /\ \A f \in keys \ page, p \in page : p < f
  BY PageIsPrefix DEF page
<1>2. page # {} => Max(page) \in page /\ \A n \in page : n <= Max(page)
  BY <1>1, GreatestId
<1>3. cursor = IF \A f \in keys : f <= Max0(page) THEN End ELSE Max(page)
  BY DEF page
<1>4. CASE \A f \in keys : f <= Max0(page)
  <2>1. page # {} => Max0(page) = Max(page)  BY DEF Max0
  <2>2. ASSUME NEW f \in keys, f \notin page  PROVE FALSE
    <3>1. page # {}  BY <1>1
    <3>2. Max(page) \in page /\ Max(page) < f /\ f <= Max(page)
      BY <1>1, <1>2, <1>4, <2>1, <2>2, <3>1
    <3>3. PICK m \in keys : m = Max(page)  BY <1>1, <3>2
    <3>4. \A n \in keys : n \in Nat  BY FileAssumption DEF Ids
    <3> QED  BY <3>2, <3>3, <3>4
  <2> QED  BY <1>3, <1>4, <2>2, FileAssumption DEF End, page
<1>5. CASE ~(\A f \in keys : f <= Max0(page))
  <2>1. keys # {}  BY <1>5
  <2>2. Max(page) \in page  BY <1>1, <1>2, <2>1
  <2>3. \A f \in keys \ page : Max(page) < f  BY <1>1, <2>2
  <2>4. Max(page) \in 0..End
    <3>1. PICK m \in Ids : m = Max(page)  BY <1>1, <2>2
    <3> QED  BY <3>1, FileAssumption DEF Ids, End
  <2> QED  BY <1>3, <1>5, <2>3, <2>4 DEF page
<1> QED  BY <1>4, <1>5

-----------------------------------------------------------------------------
(* A reset's moves. *)

StartSteps(x) ==
  /\ reset[x].pc = "idle" /\ ResetMoved(x, "sweep", {}, 0) /\ answered' = {}
  /\ plan' = plan /\ row' = row /\ object' = object /\ upload' = upload /\ removal' = removal
  /\ faults' = faults /\ torn' = torn

LEMMA StartIs ==
  ASSUME ObjectShapes, NEW x \in Resets, StartReset(x)
  PROVE  StartSteps(x)
<1>1. reset' = [reset EXCEPT ![x] = [pc |-> "sweep", page |-> {}, cursor |-> 0]]
  BY DEF StartReset, ResetTo
<1>2. [pc |-> "sweep", page |-> {}, cursor |-> 0] \in Sweepers
  BY FileAssumption DEF Sweepers, ResetPcs, End
<1>3. reset'[x] = [pc |-> "sweep", page |-> {}, cursor |-> 0]  BY <1>1 DEF ObjectShapes
<1>4. ResetMoved(x, "sweep", {}, 0)  BY <1>1, <1>2, <1>3 DEF ResetMoved, ObjectShapes
<1> QED  BY <1>4 DEF StartSteps, StartReset

ListSteps(x) ==
  /\ reset[x].pc \in {"sweep", "late"} /\ reset[x].page = {}
  /\ ResetMoved(x, reset[x].pc, reset'[x].page, reset'[x].cursor)
  /\ \A f \in Ids : object[f] # 0 /\ reset[x].cursor < f
                      => f \in reset'[x].page \/ reset'[x].cursor < f
  /\ plan' = plan /\ row' = row /\ object' = object /\ upload' = upload /\ removal' = removal
  /\ faults' = faults /\ answered' = answered /\ torn' = torn

LEMMA ListIs ==
  ASSUME ObjectShapes, NEW x \in Resets, ListPage(x)
  PROVE  ListSteps(x)
<1> DEFINE keys == Keys(reset[x].cursor)
           page(k) == Page(keys, k)
           cursor(k) == IF \A f \in keys : f <= Max0(page(k)) THEN End ELSE Max(page(k))
           r(k) == [reset[x] EXCEPT !.page = page(k), !.cursor = cursor(k)]
<1>0. reset[x] \in Sweepers /\ keys \subseteq Ids  BY DEF ObjectShapes, Keys
<1>1. PICK k \in 1..PageSize : reset' = [reset EXCEPT ![x] = r(k)]
  BY Zenon DEF ListPage, ResetTo, LastPage, Page
<1>2. k \in Nat \ {0}  BY FileAssumption
<1>3. cursor(k) \in 0..End /\ \A f \in keys : f \in page(k) \/ cursor(k) < f
  <2> HIDE DEF keys
  <2> QED  BY <1>0, <1>2, NoKeySkipped
<1>4. page(k) \in SUBSET Ids  BY <1>0 DEF Page
<1> HIDE DEF keys, page, cursor
<1>5. r(k) \in Sweepers  BY <1>0, <1>3, <1>4 DEF Sweepers
<1>6. r(k).pc = reset[x].pc /\ r(k).page = page(k) /\ r(k).cursor = cursor(k)
  BY <1>0 DEF Sweepers
<1> HIDE DEF r
<1>7. reset'[x] = r(k)  BY <1>1 DEF ObjectShapes
<1>8. reset'[x].pc = reset[x].pc /\ reset'[x].page = page(k) /\ reset'[x].cursor = cursor(k)
  BY <1>6, <1>7
<1>9. ResetMoved(x, reset[x].pc, reset'[x].page, reset'[x].cursor)
  BY <1>1, <1>5, <1>8 DEF ResetMoved, ObjectShapes
<1>10. \A f \in Ids : object[f] # 0 /\ reset[x].cursor < f
                        => f \in reset'[x].page \/ reset'[x].cursor < f
  <2> TAKE f \in Ids
  <2> HAVE object[f] # 0 /\ reset[x].cursor < f
  <2>1. reset[x].cursor \in Nat /\ f \in Nat
    BY <1>0, FileAssumption DEF Sweepers, Ids, End
  <2>2. f \in keys  BY <2>1 DEF keys, Keys
  <2> QED  BY <1>3, <1>8, <2>2
<1> QED  BY <1>9, <1>10 DEF ListSteps, ListPage

DeleteSteps(x) ==
  /\ reset[x].page # {}
  /\ ResetMoved(x, reset[x].pc, {}, reset[x].cursor)
  /\ object' \in [Ids -> Bytes]
  /\ \A f \in Ids : object'[f] = IF f \in reset[x].page THEN 0 ELSE object[f]
  /\ torn \subseteq torn' /\ torn' \subseteq Ids
  /\ reset[x].pc = "late" => \A f \in Ids : f \in reset[x].page /\ row[f] # 0 => f \in torn'
  /\ plan' = plan /\ row' = row /\ upload' = upload /\ removal' = removal
  /\ faults' = faults /\ answered' = answered

LEMMA DeleteIs ==
  ASSUME ObjectShapes, NEW x \in Resets, DeletePage(x)
  PROVE  DeleteSteps(x)
<1> DEFINE r == [reset[x] EXCEPT !.page = {}]
<1>0. reset[x] \in Sweepers  BY DEF ObjectShapes
<1>1. reset' = [reset EXCEPT ![x] = r]  BY DEF DeletePage, ResetTo
<1>2. r \in Sweepers  BY <1>0 DEF Sweepers
<1>3. r.pc = reset[x].pc /\ r.page = {} /\ r.cursor = reset[x].cursor  BY <1>0 DEF Sweepers
<1> HIDE DEF r
<1>4. ResetMoved(x, reset[x].pc, {}, reset[x].cursor)
  BY <1>1, <1>2, <1>3 DEF ResetMoved, ObjectShapes
<1>5. object' \in [Ids -> Bytes]
      /\ \A f \in Ids : object'[f] = IF f \in reset[x].page THEN 0 ELSE object[f]
  BY DEF DeletePage, ObjectShapes, Bytes
<1>6. /\ torn \subseteq torn' /\ torn' \subseteq Ids
      /\ reset[x].pc = "late" => \A f \in Ids : f \in reset[x].page /\ row[f] # 0 => f \in torn'
  BY DEF DeletePage, ObjectShapes
<1> QED  BY <1>4, <1>5, <1>6 DEF DeleteSteps, DeletePage

BatchSteps(x) ==
  /\ reset[x].pc = "sweep" /\ ResetMoved(x, "late", {}, 0)
  /\ row' = [f \in Ids |-> 0] /\ answered' = {}
  /\ plan' = plan /\ object' = object /\ upload' = upload /\ removal' = removal
  /\ faults' = faults /\ torn' = torn

LEMMA BatchIs ==
  ASSUME ObjectShapes, NEW x \in Resets, Batch(x)
  PROVE  BatchSteps(x)
<1>1. reset' = [reset EXCEPT ![x] = [pc |-> "late", page |-> {}, cursor |-> 0]]
  BY DEF Batch, ResetTo
<1>2. [pc |-> "late", page |-> {}, cursor |-> 0] \in Sweepers
  BY FileAssumption DEF Sweepers, ResetPcs, End
<1>3. reset'[x] = [pc |-> "late", page |-> {}, cursor |-> 0]  BY <1>1 DEF ObjectShapes
<1>4. ResetMoved(x, "late", {}, 0)  BY <1>1, <1>2, <1>3 DEF ResetMoved, ObjectShapes
<1> QED  BY <1>4 DEF BatchSteps, Batch

EndSteps(x) ==
  /\ reset[x].pc = "late" /\ Swept(x) /\ ResetMoved(x, "done", {}, reset[x].cursor)
  /\ plan' = plan /\ row' = row /\ object' = object /\ upload' = upload /\ removal' = removal
  /\ faults' = faults /\ answered' = answered /\ torn' = torn

LEMMA EndIs ==
  ASSUME ObjectShapes, NEW x \in Resets, SweepEnds(x)
  PROVE  EndSteps(x)
<1> DEFINE r == [reset[x] EXCEPT !.pc = "done"]
<1>0. reset[x] \in Sweepers  BY DEF ObjectShapes
<1>1. reset' = [reset EXCEPT ![x] = r] /\ reset[x].page = {}  BY DEF SweepEnds, ResetTo, Swept
<1>2. r \in Sweepers  BY <1>0 DEF Sweepers, ResetPcs
<1>3. r.pc = "done" /\ r.page = {} /\ r.cursor = reset[x].cursor  BY <1>0, <1>1 DEF Sweepers
<1> HIDE DEF r
<1>4. ResetMoved(x, "done", {}, reset[x].cursor)
  BY <1>1, <1>2, <1>3 DEF ResetMoved, ObjectShapes
<1> QED  BY <1>4 DEF EndSteps, SweepEnds

FailSteps(x) ==
  /\ reset[x].pc \in {"sweep", "late"} /\ Fault
  /\ ResetMoved(x, "failed", {}, reset[x].cursor) /\ torn' = torn \cup Ids
  /\ plan' = plan /\ row' = row /\ object' = object /\ upload' = upload /\ removal' = removal
  /\ answered' = answered

LEMMA FailIs ==
  ASSUME ObjectShapes, NEW x \in Resets, ResetFails(x)
  PROVE  FailSteps(x)
<1> DEFINE r == [reset[x] EXCEPT !.pc = "failed", !.page = {}]
<1>0. reset[x] \in Sweepers  BY DEF ObjectShapes
<1>1. reset' = [reset EXCEPT ![x] = r]  BY DEF ResetFails, ResetTo
<1>2. r \in Sweepers  BY <1>0 DEF Sweepers, ResetPcs
<1>3. r.pc = "failed" /\ r.page = {} /\ r.cursor = reset[x].cursor  BY <1>0 DEF Sweepers
<1> HIDE DEF r
<1>4. ResetMoved(x, "failed", {}, reset[x].cursor)
  BY <1>1, <1>2, <1>3 DEF ResetMoved, ObjectShapes
<1> QED  BY <1>4 DEF FailSteps, ResetFails

-----------------------------------------------------------------------------
(* Every step is one of these, and the shapes are kept. *)

ObjectsStep ==
  \/ \E u \in Uploads : ReserveSteps(u)
  \/ \E u \in Uploads : PutSteps(u)
  \/ \E u \in Uploads : CheckSteps(u)
  \/ \E u \in Uploads : CleanUpSteps(u)
  \/ \E d \in Removals : AskSteps(d)
  \/ \E d \in Removals : RemoveSteps(d)
  \/ \E x \in Resets : StartSteps(x)
  \/ \E x \in Resets : ListSteps(x)
  \/ \E x \in Resets : DeleteSteps(x)
  \/ \E x \in Resets : BatchSteps(x)
  \/ \E x \in Resets : EndSteps(x)
  \/ \E x \in Resets : FailSteps(x)

LEMMA StepIs ==
  ASSUME ObjectShapes, ObjectsNext
  PROVE  ObjectsStep
<1>1. ASSUME NEW u \in Uploads, UploadStep(u)  PROVE ObjectsStep
  BY <1>1, ReserveIs, PutIs, CheckIs, CleanUpIs DEF UploadStep, ObjectsStep
<1>2. ASSUME NEW d \in Removals, AskRemoval(d) \/ Remove(d)  PROVE ObjectsStep
  BY <1>2, AskIs, RemoveIs DEF ObjectsStep
<1>3. ASSUME NEW x \in Resets, Reset(x)  PROVE ObjectsStep
  BY <1>3, StartIs, ListIs, DeleteIs, BatchIs, EndIs, FailIs DEF Reset, ObjectsStep
<1> QED  BY <1>1, <1>2, <1>3 DEF ObjectsNext

\* A removal's step is of its file only.
RemovalKeeps(f) ==
  /\ row' \in [Ids -> Bytes] /\ object' \in [Ids -> Bytes]
  /\ \A g \in Ids : g # f => row'[g] = row[g] /\ object'[g] = object[g]
  /\ row'[f] \in {row[f], 0}
  /\ torn \subseteq torn' /\ torn' \subseteq Ids /\ answered' \subseteq answered
  /\ faults' \in 0..MaxFaults /\ (faults' = faults \/ faults' # 0)

LEMMA FaultIs ==
  ASSUME ObjectShapes, Fault
  PROVE  faults' \in 0..MaxFaults /\ faults' # 0
BY FileAssumption DEF ObjectShapes, Fault

LEMMA RemovalOfKeeps ==
  ASSUME ObjectShapes, NEW f \in Ids, NEW from, NEW to, NEW done, RemovalOf(f, from, to, done)
  PROVE  RemovalKeeps(f)
<1>1. row' \in [Ids -> Bytes] /\ object' \in [Ids -> Bytes]
  BY DEF RemovalOf, ObjectShapes, Bytes
<1>2. \A g \in Ids : g # f => row'[g] = row[g] /\ object'[g] = object[g]
  BY DEF RemovalOf, ObjectShapes
<1>3. row'[f] \in {row[f], 0}
  BY DEF RemovalOf, ObjectShapes
<1>4. torn \subseteq torn' /\ torn' \subseteq Ids /\ answered' \subseteq answered
  BY DEF RemovalOf, ObjectShapes
<1>5. faults' \in 0..MaxFaults /\ (faults' = faults \/ faults' # 0)
  BY FaultIs DEF RemovalOf, ObjectShapes
<1> QED  BY <1>1, <1>2, <1>3, <1>4, <1>5 DEF RemovalKeeps

LEMMA ShapesKept ==
  ASSUME ObjectShapes, ObjectsStep
  PROVE  ObjectShapes'
<1> USE DEF ObjectShapes
<1>1. ASSUME NEW u \in Uploads, ReserveSteps(u)  PROVE ObjectShapes'
  <2>1. row' \in [Ids -> Bytes]  BY <1>1 DEF ReserveSteps, Bytes
  <2> QED  BY <1>1, <2>1 DEF ReserveSteps
<1>2. ASSUME NEW u \in Uploads, PutSteps(u)  PROVE ObjectShapes'
  <2>1. upload[u].file \in Ids /\ upload[u].size \in Bytes
    BY <1>2 DEF PutSteps, Bytes
  <2>2. object' \in [Ids -> Bytes]  BY <1>2, <2>1 DEF PutSteps
  <2>3. faults' \in 0..MaxFaults  BY <1>2, FaultIs DEF PutSteps
  <2> QED  BY <1>2, <2>2, <2>3 DEF PutSteps, UploadMoved
<1>3. ASSUME NEW u \in Uploads, CheckSteps(u)  PROVE ObjectShapes'
  BY <1>3 DEF CheckSteps, UploadMoved
<1>4. ASSUME NEW u \in Uploads, CleanUpSteps(u)  PROVE ObjectShapes'
  <2>1. upload[u].file \in Ids  BY <1>4 DEF CleanUpSteps, Removing
  <2>2. RemovalKeeps(upload[u].file)  BY <1>4, <2>1, RemovalOfKeeps DEF CleanUpSteps
  <2> QED  BY <1>4, <2>2 DEF CleanUpSteps, RemovalKeeps, UploadMoved, Removing
<1>5. ASSUME NEW d \in Removals, AskSteps(d)  PROVE ObjectShapes'
  BY <1>5 DEF AskSteps
<1>6. ASSUME NEW d \in Removals, RemoveSteps(d)  PROVE ObjectShapes'
  <2>1. removal[d].file \in Ids  BY <1>6 DEF RemoveSteps, Removing
  <2>2. RemovalKeeps(removal[d].file)  BY <1>6, <2>1, RemovalOfKeeps DEF RemoveSteps
  <2> QED  BY <1>6, <2>2 DEF RemoveSteps, RemovalKeeps, RemovalMoved, Removing
<1>7. ASSUME NEW x \in Resets, StartSteps(x)  PROVE ObjectShapes'
  BY <1>7 DEF StartSteps, ResetMoved
<1>8. ASSUME NEW x \in Resets, ListSteps(x)  PROVE ObjectShapes'
  BY <1>8 DEF ListSteps, ResetMoved
<1>9. ASSUME NEW x \in Resets, DeleteSteps(x)  PROVE ObjectShapes'
  BY <1>9 DEF DeleteSteps, ResetMoved
<1>10. ASSUME NEW x \in Resets, BatchSteps(x)  PROVE ObjectShapes'
  BY <1>10 DEF BatchSteps, ResetMoved, Bytes
<1>11. ASSUME NEW x \in Resets, EndSteps(x)  PROVE ObjectShapes'
  BY <1>11 DEF EndSteps, ResetMoved
<1>12. ASSUME NEW x \in Resets, FailSteps(x)  PROVE ObjectShapes'
  <2>1. faults' \in 0..MaxFaults  BY <1>12, FaultIs DEF FailSteps
  <2> QED  BY <1>12, <2>1 DEF FailSteps, ResetMoved
<1> QED
  BY <1>1, <1>2, <1>3, <1>4, <1>5, <1>6, <1>7, <1>8, <1>9, <1>10, <1>11, <1>12 DEF ObjectsStep

-----------------------------------------------------------------------------
(* The quota. *)

\* Rows that are given up count less.
LEMMA RowsGivenUp ==
  ASSUME ObjectShapes, Quota, \A f \in Ids : row'[f] \in {row[f], 0}
  PROVE  Quota'
<1> DEFINE B == CountedBytes
           C == UNION {{f} \X (1..row'[f]) : f \in Ids}
<1>1. \A f \in Ids : {f} \X (1..row'[f]) \subseteq {f} \X (1..row[f])
  OBVIOUS
<1>2. C \subseteq B  BY <1>1 DEF CountedBytes
<1>3. CountedBytes' = C  BY DEF CountedBytes
<1> HIDE DEF B, C
<1>4. IsFiniteSet(B) /\ Cardinality(B) <= Cap  BY DEF Quota, WithinQuota, UsedBytes, B
<1>5. IsFiniteSet(C) /\ Cardinality(C) <= Cardinality(B)  BY <1>2, <1>4, FS_Subset
<1>6. Cardinality(C) \in Nat /\ Cardinality(B) \in Nat  BY <1>4, <1>5, FS_CardinalityType
<1>7. Cardinality(C) <= Cap  BY <1>4, <1>5, <1>6, FileAssumption
<1> QED  BY <1>3, <1>5, <1>7 DEF Quota, WithinQuota, UsedBytes

\* A row that is taken counts its size.
LEMMA RowTaken ==
  ASSUME ObjectShapes, Quota, NEW u \in Uploads, ReserveSteps(u)
  PROVE  Quota'
<1>1. PICK g \in Ids : g = upload'[u].file  BY DEF ReserveSteps
<1>2. PICK size \in Sizes : size = upload'[u].size  BY DEF ReserveSteps
<1>3. row[g] = 0 /\ row' = [row EXCEPT ![g] = size] /\ UsedBytes + size <= Cap
  BY <1>1, <1>2 DEF ReserveSteps, Fits
<1>4. size \in Nat  BY FileAssumption
<1> DEFINE B == CountedBytes
           C == UNION {{f} \X (1..row'[f]) : f \in Ids}
           N == {g} \X (1..size)
<1>5. \A f \in Ids : f # g => row'[f] = row[f]  BY <1>3 DEF ObjectShapes
<1>6. row'[g] = size  BY <1>3 DEF ObjectShapes
<1>7. \A b \in B : b[1] # g
  <2> SUFFICES ASSUME NEW f \in Ids, NEW b \in {f} \X (1..row[f])  PROVE b[1] # g
    BY DEF CountedBytes
  <2>1. b[1] = f /\ b[2] \in 1..row[f]  OBVIOUS
  <2> QED  BY <1>3, <2>1
<1>8. C \subseteq B \cup N
  <2> SUFFICES ASSUME NEW f \in Ids, NEW b \in {f} \X (1..row'[f])  PROVE b \in B \cup N
    OBVIOUS
  <2>1. CASE f = g  BY <1>6, <2>1
  <2>2. CASE f # g  BY <1>5, <2>2 DEF CountedBytes
  <2> QED  BY <2>1, <2>2
<1>9. CountedBytes' = C  BY DEF CountedBytes
<1>10. B \cap N = {}  BY <1>7
<1>11. IsFiniteSet(B) /\ Cardinality(B) + size <= Cap  BY <1>3 DEF Quota, UsedBytes
<1>12. IsFiniteSet(N) /\ Cardinality(N) = size
  <2>1. IsFiniteSet({g}) /\ Cardinality({g}) = 1  BY FS_Singleton
  <2>2. IsFiniteSet(1..size) /\ Cardinality(1..size) = size
    <3>1. /\ IsFiniteSet(1..size)
          /\ Cardinality(1..size) = IF 1 > size THEN 0 ELSE size - 1 + 1
      BY <1>4, FS_Interval
    <3> QED  BY <1>4, <3>1
  <2>3. IsFiniteSet(N) /\ Cardinality(N) = 1 * size
    BY <2>1, <2>2, FS_Product
  <2> QED  BY <1>4, <2>3
<1> HIDE DEF B, C, N
<1>13. IsFiniteSet(B \cup N) /\ Cardinality(B \cup N) = Cardinality(B) + Cardinality(N) - Cardinality(B \cap N)
  BY <1>11, <1>12, FS_Union
<1>14. Cardinality(B \cap N) = 0  BY <1>10, FS_EmptySet
<1>15. IsFiniteSet(C) /\ Cardinality(C) <= Cardinality(B \cup N)  BY <1>8, <1>13, FS_Subset
<1>16. Cardinality(C) \in Nat /\ Cardinality(B) \in Nat /\ Cardinality(B \cup N) \in Nat
  BY <1>11, <1>13, <1>15, FS_CardinalityType
<1>17. Cardinality(C) <= Cap
  BY <1>4, <1>11, <1>12, <1>13, <1>14, <1>15, <1>16, FileAssumption
<1> QED  BY <1>9, <1>15, <1>17 DEF Quota, WithinQuota, UsedBytes

LEMMA QuotaKept ==
  ASSUME ObjectShapes, Quota, ObjectsStep
  PROVE  Quota'
<1> DEFINE givenUp == \A f \in Ids : row'[f] \in {row[f], 0}
<1>1. ASSUME NEW u \in Uploads, ReserveSteps(u)  PROVE Quota'
  BY <1>1, RowTaken
<1>2. ASSUME NEW u \in Uploads, PutSteps(u) \/ CheckSteps(u)  PROVE givenUp
  BY <1>2 DEF PutSteps, CheckSteps
<1>3. ASSUME NEW u \in Uploads, CleanUpSteps(u)  PROVE givenUp
  <2>1. upload[u].file \in Ids  BY <1>3 DEF CleanUpSteps, Removing, ObjectShapes
  <2>2. RemovalKeeps(upload[u].file)  BY <1>3, <2>1, RemovalOfKeeps DEF CleanUpSteps
  <2> QED  BY <2>2 DEF RemovalKeeps
<1>4. ASSUME NEW d \in Removals, RemoveSteps(d)  PROVE givenUp
  <2>1. removal[d].file \in Ids  BY <1>4 DEF RemoveSteps, Removing, ObjectShapes
  <2>2. RemovalKeeps(removal[d].file)  BY <1>4, <2>1, RemovalOfKeeps DEF RemoveSteps
  <2> QED  BY <2>2 DEF RemovalKeeps
<1>5. ASSUME NEW d \in Removals, AskSteps(d)  PROVE givenUp
  BY <1>5 DEF AskSteps
<1>6. ASSUME NEW x \in Resets,
             \/ StartSteps(x) \/ ListSteps(x) \/ DeleteSteps(x)
             \/ BatchSteps(x) \/ EndSteps(x) \/ FailSteps(x)
      PROVE  givenUp
  BY <1>6 DEF StartSteps, ListSteps, DeleteSteps, BatchSteps, EndSteps, FailSteps
<1>7. givenUp => Quota'  BY RowsGivenUp
<1> HIDE DEF givenUp
<1> QED  BY <1>1, <1>2, <1>3, <1>4, <1>5, <1>6, <1>7 DEF ObjectsStep

-----------------------------------------------------------------------------
(* An id is one upload's, unless it counts as torn. *)

LEMMA OwnFileKept ==
  ASSUME ObjectShapes, OwnFile, ObjectsStep
  PROVE  OwnFile'
<1>1. ASSUME NEW u \in Uploads, ReserveSteps(u)  PROVE OwnFile'
  BY <1>1 DEF ReserveSteps, OwnFile
<1>2. ASSUME NEW u \in Uploads, UploadMoved(u, upload'[u].pc), upload[u].pc # "idle",
             removal' = removal, torn \subseteq torn'
      PROVE  OwnFile'
  <2>1. \A v \in Uploads : /\ upload'[v].file = upload[v].file
                           /\ upload'[v].pc # "idle" => upload[v].pc # "idle"
    BY <1>2 DEF UploadMoved
  <2> QED  BY <1>2, <2>1 DEF OwnFile
<1>3. ASSUME NEW u \in Uploads, PutSteps(u) \/ CheckSteps(u)  PROVE OwnFile'
  BY <1>2, <1>3 DEF PutSteps, CheckSteps
<1>4. ASSUME NEW u \in Uploads, CleanUpSteps(u)  PROVE OwnFile'
  <2>1. torn \subseteq torn'  BY <1>4 DEF CleanUpSteps, RemovalOf
  <2> QED  BY <1>2, <1>4, <2>1 DEF CleanUpSteps, Removing
<1>5. ASSUME NEW d \in Removals, AskSteps(d)  PROVE OwnFile'
  BY <1>5 DEF AskSteps, OwnFile
<1>6. ASSUME NEW d \in Removals, RemoveSteps(d)  PROVE OwnFile'
  <2>1. torn \subseteq torn'  BY <1>6 DEF RemoveSteps, RemovalOf
  <2>2. \A e \in Removals : /\ removal'[e].file = removal[e].file
                            /\ removal'[e].pc # "idle" => removal[e].pc # "idle"
    BY <1>6 DEF RemoveSteps, RemovalMoved, Removing
  <2> QED  BY <1>6, <2>1, <2>2 DEF RemoveSteps, OwnFile
<1>7. ASSUME NEW x \in Resets,
             \/ StartSteps(x) \/ ListSteps(x) \/ DeleteSteps(x)
             \/ BatchSteps(x) \/ EndSteps(x) \/ FailSteps(x)
      PROVE  OwnFile'
  <2>1. upload' = upload /\ removal' = removal /\ torn \subseteq torn'
    BY <1>7 DEF StartSteps, ListSteps, DeleteSteps, BatchSteps, EndSteps, FailSteps
  <2> QED  BY <2>1 DEF OwnFile
<1> QED  BY <1>1, <1>3, <1>4, <1>5, <1>6, <1>7 DEF ObjectsStep

-----------------------------------------------------------------------------
(* A stray object has someone who takes it away. *)

LEMMA StrayObjectsMendedKept ==
  ASSUME ObjectShapes, StrayObjectsMended, ObjectsStep
  PROVE  StrayObjectsMended'
<1> SUFFICES ASSUME NEW f \in Ids, faults' = 0, object'[f] # 0, row'[f] # object'[f]
             PROVE  Mended(f)'
  BY DEF StrayObjectsMended
<1>0. faults = 0 /\ object[f] # 0 /\ row[f] # object[f] => Mended(f)
  BY DEF StrayObjectsMended
<1>1. ASSUME NEW u \in Uploads, ReserveSteps(u)  PROVE Mended(f)'
  <2>1. faults = 0 /\ object[f] # 0 /\ row[f] # object[f]
    BY <1>1 DEF ReserveSteps, ObjectShapes
  <2>2. Mended(f)  BY <1>0, <2>1
  <2>3. ~UploadMends(u, f)  BY <1>1 DEF ReserveSteps, UploadMends, Removing
  <2> QED  BY <1>1, <2>2, <2>3 DEF ReserveSteps, Mended, UploadMends, RemovalMends, SweepMends
<1>2. ASSUME NEW u \in Uploads, PutSteps(u)  PROVE Mended(f)'
  <2>1. upload'[u].pc = "check"  BY <1>2, FaultIs DEF PutSteps
  <2>2. CASE f = upload[u].file
    <3>1. object'[f] = upload[u].size  BY <1>2, <2>1, <2>2 DEF PutSteps, ObjectShapes
    <3>2. UploadMends(u, f)'
      BY <1>2, <2>1, <2>2, <3>1 DEF PutSteps, UploadMoved, UploadMends
    <3> QED  BY <3>2 DEF Mended
  <2>3. CASE f # upload[u].file
    <3>1. object'[f] = object[f] /\ row' = row /\ faults' = faults
      BY <1>2, <2>1, <2>3 DEF PutSteps, ObjectShapes
    <3>2. Mended(f)  BY <1>0, <3>1
    <3>3. ~UploadMends(u, f)  BY <2>3 DEF UploadMends
    <3> QED  BY <1>2, <3>1, <3>2, <3>3
             DEF PutSteps, UploadMoved, Mended, UploadMends, RemovalMends, SweepMends
  <2> QED  BY <2>2, <2>3
<1>3. ASSUME NEW u \in Uploads, CheckSteps(u)  PROVE Mended(f)'
  <2>1. Mended(f)  BY <1>0, <1>3 DEF CheckSteps
  <2>2. CASE UploadMends(u, f)
    <3>1. upload[u].file = f /\ upload[u].size = object[f]
      BY <1>3, <2>2 DEF CheckSteps, UploadMends, Removing
    <3>2. upload'[u].pc = "object"  BY <1>3, <3>1 DEF CheckSteps
    <3>3. UploadMends(u, f)'  BY <1>3, <3>1, <3>2 DEF CheckSteps, UploadMoved, UploadMends, Removing
    <3> QED  BY <3>3 DEF Mended
  <2>3. CASE ~UploadMends(u, f)
    BY <1>3, <2>1, <2>3 DEF CheckSteps, UploadMoved, Mended, UploadMends, RemovalMends, SweepMends
  <2> QED  BY <2>2, <2>3
<1>4. ASSUME NEW u \in Uploads, CleanUpSteps(u)  PROVE Mended(f)'
  <2>1. upload[u].file \in Ids  BY <1>4 DEF CleanUpSteps, Removing, ObjectShapes
  <2>2. RemovalKeeps(upload[u].file)  BY <1>4, <2>1, RemovalOfKeeps DEF CleanUpSteps
  <2>3. CASE f = upload[u].file
    <3>1. upload'[u].pc = "again"
      BY <1>4, <2>3, FaultIs DEF CleanUpSteps, RemovalOf, ObjectShapes
    <3>2. UploadMends(u, f)'
      BY <1>4, <2>3, <3>1 DEF CleanUpSteps, UploadMoved, UploadMends, Removing
    <3> QED  BY <3>2 DEF Mended
  <2>4. CASE f # upload[u].file
    <3>1. object'[f] = object[f] /\ row'[f] = row[f] /\ faults' = faults
      BY <2>2, <2>4 DEF RemovalKeeps
    <3>2. Mended(f)  BY <1>0, <3>1
    <3>3. ~UploadMends(u, f)  BY <2>4 DEF UploadMends
    <3> QED  BY <1>4, <3>1, <3>2, <3>3
             DEF CleanUpSteps, UploadMoved, Mended, UploadMends, RemovalMends, SweepMends
  <2> QED  BY <2>3, <2>4
<1>5. ASSUME NEW d \in Removals, AskSteps(d)  PROVE Mended(f)'
  <2>1. Mended(f)  BY <1>0, <1>5 DEF AskSteps
  <2>2. ~RemovalMends(d, f)  BY <1>5 DEF AskSteps, RemovalMends, Removing
  <2> QED  BY <1>5, <2>1, <2>2 DEF AskSteps, Mended, UploadMends, RemovalMends, SweepMends
<1>6. ASSUME NEW d \in Removals, RemoveSteps(d)  PROVE Mended(f)'
  <2>1. removal[d].file \in Ids  BY <1>6 DEF RemoveSteps, Removing, ObjectShapes
  <2>2. RemovalKeeps(removal[d].file)  BY <1>6, <2>1, RemovalOfKeeps DEF RemoveSteps
  <2>3. CASE f = removal[d].file
    <3>1. removal'[d].pc = "again"
      BY <1>6, <2>3, FaultIs DEF RemoveSteps, RemovalOf, ObjectShapes
    <3>2. RemovalMends(d, f)'
      BY <1>6, <2>3, <3>1 DEF RemoveSteps, RemovalMoved, RemovalMends, Removing
    <3> QED  BY <3>2 DEF Mended
  <2>4. CASE f # removal[d].file
    <3>1. object'[f] = object[f] /\ row'[f] = row[f] /\ faults' = faults
      BY <2>2, <2>4 DEF RemovalKeeps
    <3>2. Mended(f)  BY <1>0, <3>1
    <3>3. ~RemovalMends(d, f)  BY <2>4 DEF RemovalMends
    <3> QED  BY <1>6, <3>1, <3>2, <3>3
             DEF RemoveSteps, RemovalMoved, Mended, UploadMends, RemovalMends, SweepMends
  <2> QED  BY <2>3, <2>4
<1>7. ASSUME NEW x \in Resets, StartSteps(x)  PROVE Mended(f)'
  <2>1. Mended(f)  BY <1>0, <1>7 DEF StartSteps
  <2>2. ~SweepMends(x, f)  BY <1>7 DEF StartSteps, SweepMends
  <2> QED  BY <1>7, <2>1, <2>2
           DEF StartSteps, ResetMoved, Mended, UploadMends, RemovalMends, SweepMends
<1>8. ASSUME NEW x \in Resets, ListSteps(x)  PROVE Mended(f)'
  <2>1. Mended(f)  BY <1>0, <1>8 DEF ListSteps
  <2>2. SweepMends(x, f) => SweepMends(x, f)'
    BY <1>8 DEF ListSteps, ResetMoved, SweepMends
  <2> QED  BY <1>8, <2>1, <2>2
           DEF ListSteps, ResetMoved, Mended, UploadMends, RemovalMends, SweepMends
<1>9. ASSUME NEW x \in Resets, DeleteSteps(x)  PROVE Mended(f)'
  <2>1. f \notin reset[x].page /\ object'[f] = object[f]  BY <1>9 DEF DeleteSteps
  <2>2. Mended(f)  BY <1>0, <1>9, <2>1 DEF DeleteSteps
  <2>3. SweepMends(x, f) => SweepMends(x, f)'
    BY <1>9, <2>1 DEF DeleteSteps, ResetMoved, SweepMends
  <2> QED  BY <1>9, <2>1, <2>2, <2>3
           DEF DeleteSteps, ResetMoved, Mended, UploadMends, RemovalMends, SweepMends
<1>10. ASSUME NEW x \in Resets, BatchSteps(x)  PROVE Mended(f)'
  <2>1. 0 < f  BY FileAssumption DEF Ids
  <2>2. SweepMends(x, f)'  BY <1>10, <2>1 DEF BatchSteps, ResetMoved, SweepMends
  <2> QED  BY <2>2 DEF Mended
<1>11. ASSUME NEW x \in Resets, EndSteps(x)  PROVE Mended(f)'
  <2>1. Mended(f)  BY <1>0, <1>11 DEF EndSteps
  <2>2. ~(End < f)  BY FileAssumption DEF Ids, End
  <2>3. ~SweepMends(x, f)  BY <1>11, <2>2 DEF EndSteps, Swept, SweepMends
  <2> QED  BY <1>11, <2>1, <2>3
           DEF EndSteps, ResetMoved, Mended, UploadMends, RemovalMends, SweepMends
<1>12. ASSUME NEW x \in Resets, FailSteps(x)  PROVE FALSE
  BY <1>12, FaultIs DEF FailSteps
<1> QED
  BY <1>1, <1>2, <1>3, <1>4, <1>5, <1>6, <1>7, <1>8, <1>9, <1>10, <1>11, <1>12 DEF ObjectsStep

-----------------------------------------------------------------------------
(* What was put is there when its row is read again, and after the answer. *)


LEMMA CheckedStandsKept ==
  ASSUME ObjectShapes, OwnFile, CheckedStands, ObjectsStep
  PROVE  CheckedStands'
<1> SUFFICES ASSUME NEW v \in Uploads, upload'[v].pc = "check", upload'[v].file \notin torn'
             PROVE  \/ object'[upload'[v].file] = upload'[v].size
                    \/ row'[upload'[v].file] = 0
                    \/ Sweeping'
  BY DEF CheckedStands
<1> DEFINE stands == \/ object'[upload'[v].file] = upload'[v].size
                     \/ row'[upload'[v].file] = 0
                     \/ Sweeping'
<1>0. upload[v].pc = "check" /\ upload[v].file \notin torn
        => \/ object[upload[v].file] = upload[v].size \/ row[upload[v].file] = 0 \/ Sweeping
  BY DEF CheckedStands
<1>00. upload[v].pc # "idle" => upload[v].file \in Ids  BY DEF ObjectShapes
<1>1. ASSUME NEW u \in Uploads, ReserveSteps(u)  PROVE stands
  <2>1. v # u /\ upload'[v] = upload[v]  BY <1>1 DEF ReserveSteps
  <2>2. upload[v].file # upload'[u].file /\ torn \subseteq torn'
    BY <1>1, <2>1 DEF ReserveSteps
  <2>3. row'[upload[v].file] = row[upload[v].file]
    BY <1>1, <1>00, <2>1, <2>2 DEF ReserveSteps, ObjectShapes
  <2> QED  BY <1>0, <1>1, <2>1, <2>2, <2>3 DEF ReserveSteps, Sweeping
<1>2. ASSUME NEW u \in Uploads, PutSteps(u)  PROVE stands
  <2>1. CASE v = u
    <3>1. object'[upload[u].file] = upload[u].size
      BY <1>2, <2>1 DEF PutSteps, ObjectShapes
    <3> QED  BY <1>2, <2>1, <3>1 DEF PutSteps, UploadMoved
  <2>2. CASE v # u
    <3>1. upload'[v] = upload[v] /\ torn' = torn  BY <1>2, <2>2 DEF PutSteps, UploadMoved
    <3>2. upload[v].file # upload[u].file
      BY <1>2, <2>2, <3>1 DEF PutSteps, OwnFile
    <3>3. object'[upload[v].file] = object[upload[v].file]
      BY <1>2, <1>00, <3>1, <3>2 DEF PutSteps, ObjectShapes
    <3> QED  BY <1>0, <1>2, <3>1, <3>3 DEF PutSteps, Sweeping
  <2> QED  BY <2>1, <2>2
<1>3. ASSUME NEW u \in Uploads, CheckSteps(u)  PROVE stands
  <2>1. v # u /\ upload'[v] = upload[v]  BY <1>3 DEF CheckSteps, UploadMoved
  <2> QED  BY <1>0, <1>3, <2>1 DEF CheckSteps, Sweeping
<1>4. ASSUME NEW u \in Uploads, CleanUpSteps(u)  PROVE stands
  <2>1. upload[u].file \in Ids  BY <1>4 DEF CleanUpSteps, Removing, ObjectShapes
  <2>2. RemovalKeeps(upload[u].file)  BY <1>4, <2>1, RemovalOfKeeps DEF CleanUpSteps
  <2>3. v # u  BY <1>4 DEF CleanUpSteps, UploadMoved, RemovalOf
  <2>4. upload'[v] = upload[v]  BY <1>4, <2>3 DEF CleanUpSteps, UploadMoved
  <2>5. upload[v].file # upload[u].file
    BY <1>4, <2>2, <2>3, <2>4 DEF CleanUpSteps, Removing, RemovalKeeps, OwnFile
  <2> QED  BY <1>0, <1>00, <1>4, <2>2, <2>4, <2>5 DEF CleanUpSteps, RemovalKeeps, Sweeping
<1>5. ASSUME NEW d \in Removals, AskSteps(d)  PROVE stands
  BY <1>0, <1>5 DEF AskSteps, Sweeping
<1>6. ASSUME NEW d \in Removals, RemoveSteps(d)  PROVE stands
  <2>1. removal[d].file \in Ids  BY <1>6 DEF RemoveSteps, Removing, ObjectShapes
  <2>2. RemovalKeeps(removal[d].file)  BY <1>6, <2>1, RemovalOfKeeps DEF RemoveSteps
  <2>3. removal[d].file \in torn  BY <1>6 DEF RemoveSteps, Removing, OwnFile
  <2> QED  BY <1>0, <1>00, <1>6, <2>2, <2>3 DEF RemoveSteps, RemovalKeeps, Sweeping
<1>7. ASSUME NEW x \in Resets, StartSteps(x)  PROVE stands
  BY <1>7 DEF StartSteps, ResetMoved, Sweeping
<1>8. ASSUME NEW x \in Resets, ListSteps(x)  PROVE stands
  <2>1. Sweeping => Sweeping'  BY <1>8 DEF ListSteps, ResetMoved, Sweeping
  <2> QED  BY <1>0, <1>8, <2>1 DEF ListSteps
<1>9. ASSUME NEW x \in Resets, DeleteSteps(x)  PROVE stands
  <2>1. Sweeping => Sweeping'  BY <1>9 DEF DeleteSteps, ResetMoved, Sweeping
  <2>2. CASE Sweeping  BY <2>1, <2>2
  <2>3. CASE ~Sweeping
    <3>1. reset[x].pc = "late"
      BY <1>9, <2>3 DEF DeleteSteps, ObjectShapes, Sweeping
    <3>2. upload[v].file \notin torn /\ upload' = upload /\ row' = row
      BY <1>9 DEF DeleteSteps
    <3>3. CASE upload[v].file \in reset[x].page
      BY <1>9, <1>00, <3>1, <3>2, <3>3 DEF DeleteSteps
    <3>4. CASE upload[v].file \notin reset[x].page
      BY <1>0, <1>9, <1>00, <2>3, <3>2, <3>4 DEF DeleteSteps
    <3> QED  BY <3>3, <3>4
  <2> QED  BY <2>2, <2>3
<1>10. ASSUME NEW x \in Resets, BatchSteps(x)  PROVE stands
  BY <1>10, <1>00 DEF BatchSteps
<1>11. ASSUME NEW x \in Resets, EndSteps(x)  PROVE stands
  <2>1. Sweeping => Sweeping'  BY <1>11 DEF EndSteps, ResetMoved, Sweeping
  <2> QED  BY <1>0, <1>11, <2>1 DEF EndSteps
<1>12. ASSUME NEW x \in Resets, FailSteps(x)  PROVE FALSE
  BY <1>12, <1>00 DEF FailSteps
<1> HIDE DEF stands
<1>13. stands
  BY <1>1, <1>2, <1>3, <1>4, <1>5, <1>6, <1>7, <1>8, <1>9, <1>10, <1>11, <1>12 DEF ObjectsStep
<1> QED  BY <1>13 DEF stands

\* No sweep begins but with its own step.
LEMMA SweepingBefore ==
  ASSUME ObjectsStep, Sweeping', answered' # {}
  PROVE  Sweeping
BY DEF ObjectsStep, Sweeping, ReserveSteps, PutSteps, CheckSteps, CleanUpSteps, AskSteps,
       RemoveSteps, StartSteps, ListSteps, DeleteSteps, BatchSteps, EndSteps, FailSteps, ResetMoved

StoredBy(u, f) == upload[u].file = f /\ upload[u].pc = "stored"

\* A file that an upload stored, and what is true of it while it is not torn.
StandsAt(f) == row[f] # 0 /\ object[f] = row[f] /\ \E u \in Uploads : StoredBy(u, f)

LEMMA AnswersStandKept ==
  ASSUME ObjectShapes, OwnFile, CheckedStands, AnswersStand, ObjectsStep
  PROVE  AnswersStand'
<1>0. ASSUME Sweeping'  PROVE answered' = {}
  <2> SUFFICES ASSUME answered' # {}  PROVE FALSE  OBVIOUS
  <2>1. Sweeping  BY <1>0, SweepingBefore
  <2>2. answered = {}  BY <2>1 DEF AnswersStand
  <2>3. answered' \subseteq answered
    BY <2>1 DEF ObjectsStep, ReserveSteps, PutSteps, CheckSteps, CleanUpSteps, AskSteps, RemovalOf,
       RemoveSteps, StartSteps, ListSteps, DeleteSteps, BatchSteps, EndSteps, FailSteps
  <2> QED  BY <2>2, <2>3
<1> SUFFICES ASSUME NEW f \in answered', f \notin torn'  PROVE StandsAt(f)'
  BY <1>0 DEF AnswersStand, StandsAt, StoredBy
<1>00. f \in Ids  BY ShapesKept DEF ObjectShapes
<1>000. f \in answered \ torn => StandsAt(f)
  BY DEF AnswersStand, StandsAt, StoredBy
<1>1. ASSUME NEW u \in Uploads, ReserveSteps(u)  PROVE StandsAt(f)'
  <2>1. StandsAt(f)  BY <1>000, <1>1 DEF ReserveSteps
  <2>2. PICK w \in Uploads : StoredBy(w, f)  BY <2>1 DEF StandsAt
  <2>3. w # u /\ f # upload'[u].file  BY <1>1, <2>2 DEF ReserveSteps, StoredBy
  <2>4. row'[f] = row[f] /\ object'[f] = object[f]
    BY <1>00, <1>1, <2>3 DEF ReserveSteps, ObjectShapes
  <2>5. StoredBy(w, f)'  BY <1>1, <2>2, <2>3 DEF ReserveSteps, StoredBy
  <2> QED  BY <2>1, <2>4, <2>5 DEF StandsAt
<1>2. ASSUME NEW u \in Uploads, PutSteps(u)  PROVE StandsAt(f)'
  <2>1. StandsAt(f)  BY <1>000, <1>2 DEF PutSteps
  <2>2. PICK w \in Uploads : StoredBy(w, f)  BY <2>1 DEF StandsAt
  <2>3. w # u  BY <1>2, <2>2 DEF PutSteps, StoredBy
  <2>4. f # upload[u].file  BY <1>2, <2>2, <2>3 DEF PutSteps, StoredBy, OwnFile
  <2>5. row'[f] = row[f] /\ object'[f] = object[f]
    BY <1>00, <1>2, <2>4 DEF PutSteps, ObjectShapes
  <2>6. StoredBy(w, f)'  BY <1>2, <2>2, <2>3 DEF PutSteps, UploadMoved, StoredBy
  <2> QED  BY <2>1, <2>5, <2>6 DEF StandsAt
<1>3. ASSUME NEW u \in Uploads, CheckSteps(u)  PROVE StandsAt(f)'
  <2>1. row' = row /\ object' = object /\ torn' = torn  BY <1>3 DEF CheckSteps
  <2>2. CASE f \in answered
    <3>1. StandsAt(f)  BY <1>000, <2>1, <2>2
    <3>2. PICK w \in Uploads : StoredBy(w, f)  BY <3>1 DEF StandsAt
    <3>3. w # u  BY <1>3, <3>2 DEF CheckSteps, StoredBy
    <3>4. StoredBy(w, f)'  BY <1>3, <3>2, <3>3 DEF CheckSteps, UploadMoved, StoredBy
    <3> QED  BY <2>1, <3>1, <3>4 DEF StandsAt
  <2>3. CASE f \notin answered
    <3>1. f = upload[u].file /\ ~Sweeping /\ upload'[u].pc = "stored"
      BY <1>3, <2>3 DEF CheckSteps
    <3>2. row[f] = upload[u].size  BY <1>3, <3>1 DEF CheckSteps
    <3>3. upload[u].size # 0  BY <1>3, FileAssumption DEF CheckSteps, ObjectShapes
    <3>4. object[f] = upload[u].size
      BY <1>3, <2>1, <3>1, <3>2, <3>3 DEF CheckSteps, CheckedStands
    <3>5. StoredBy(u, f)'  BY <1>3, <3>1 DEF CheckSteps, UploadMoved, StoredBy
    <3> QED  BY <2>1, <3>2, <3>3, <3>4, <3>5 DEF StandsAt
  <2> QED  BY <2>2, <2>3
<1>4. ASSUME NEW u \in Uploads, CleanUpSteps(u)  PROVE StandsAt(f)'
  <2>1. upload[u].file \in Ids  BY <1>4 DEF CleanUpSteps, Removing, ObjectShapes
  <2>2. RemovalKeeps(upload[u].file)  BY <1>4, <2>1, RemovalOfKeeps DEF CleanUpSteps
  <2>3. StandsAt(f) /\ f \notin torn  BY <1>000, <2>2 DEF RemovalKeeps
  <2>4. PICK w \in Uploads : StoredBy(w, f)  BY <2>3 DEF StandsAt
  <2>5. w # u  BY <1>4, <2>4 DEF CleanUpSteps, Removing, StoredBy
  <2>6. f # upload[u].file
    BY <1>4, <2>3, <2>4, <2>5 DEF CleanUpSteps, Removing, StoredBy, OwnFile
  <2>7. row'[f] = row[f] /\ object'[f] = object[f]  BY <1>00, <2>2, <2>6 DEF RemovalKeeps
  <2>8. StoredBy(w, f)'  BY <1>4, <2>4, <2>5 DEF CleanUpSteps, UploadMoved, StoredBy
  <2> QED  BY <2>3, <2>7, <2>8 DEF StandsAt
<1>5. ASSUME NEW d \in Removals, AskSteps(d)  PROVE StandsAt(f)'
  BY <1>000, <1>5 DEF AskSteps, StandsAt, StoredBy
<1>6. ASSUME NEW d \in Removals, RemoveSteps(d)  PROVE StandsAt(f)'
  <2>1. removal[d].file \in Ids  BY <1>6 DEF RemoveSteps, Removing, ObjectShapes
  <2>2. RemovalKeeps(removal[d].file)  BY <1>6, <2>1, RemovalOfKeeps DEF RemoveSteps
  <2>3. StandsAt(f) /\ f \notin torn  BY <1>000, <2>2 DEF RemovalKeeps
  <2>4. f # removal[d].file  BY <1>6, <2>3 DEF RemoveSteps, Removing, OwnFile
  <2>5. row'[f] = row[f] /\ object'[f] = object[f]  BY <1>00, <2>2, <2>4 DEF RemovalKeeps
  <2> QED  BY <1>6, <2>3, <2>5 DEF RemoveSteps, StandsAt, StoredBy
<1>7. ASSUME NEW x \in Resets, StartSteps(x) \/ BatchSteps(x)  PROVE StandsAt(f)'
  BY <1>7 DEF StartSteps, BatchSteps
<1>8. ASSUME NEW x \in Resets, ListSteps(x) \/ EndSteps(x)  PROVE StandsAt(f)'
  BY <1>000, <1>8 DEF ListSteps, EndSteps, StandsAt, StoredBy
<1>9. ASSUME NEW x \in Resets, DeleteSteps(x)  PROVE StandsAt(f)'
  <2>1. f \in answered /\ f \notin torn  BY <1>9 DEF DeleteSteps
  <2>2. StandsAt(f) /\ ~Sweeping  BY <1>000, <2>1 DEF AnswersStand
  <2>3. reset[x].pc = "late"  BY <1>9, <2>2 DEF DeleteSteps, ObjectShapes, Sweeping
  <2>4. f \notin reset[x].page  BY <1>00, <1>9, <2>2, <2>3 DEF DeleteSteps, StandsAt
  <2>5. object'[f] = object[f]  BY <1>00, <1>9, <2>4 DEF DeleteSteps
  <2> QED  BY <1>9, <2>2, <2>5 DEF DeleteSteps, StandsAt, StoredBy
<1>10. ASSUME NEW x \in Resets, FailSteps(x)  PROVE FALSE
  BY <1>00, <1>10 DEF FailSteps
<1> QED
  BY <1>1, <1>2, <1>3, <1>4, <1>5, <1>6, <1>7, <1>8, <1>9, <1>10 DEF ObjectsStep

-----------------------------------------------------------------------------

\* The strengthened invariant holds at first and is kept by every step.
THEOREM ObjectsHold == ObjectsSpec => []ObjectsInv
<1>1. ObjectsInit => ObjectsInv
  <2> SUFFICES ASSUME ObjectsInit  PROVE ObjectsInv  OBVIOUS
  <2>1. ObjectShapes
    <3>1. [pc |-> "idle", file |-> 0, size |-> 0] \in Uploaders
      BY DEF Uploaders, UploadPcs, Bytes
    <3>2. [pc |-> "idle", file |-> 0] \in Removers
      BY DEF Removers, RemovalPcs
    <3>3. [pc |-> "idle", page |-> {}, cursor |-> 0] \in Sweepers
      BY FileAssumption DEF Sweepers, ResetPcs, End
    <3> QED  BY <3>1, <3>2, <3>3, FileAssumption DEF ObjectsInit, ObjectShapes, Bytes
  <2>2. Quota
    <3>1. \A f \in Ids : {f} \X (1..row[f]) = {}  BY DEF ObjectsInit
    <3>2. CountedBytes = {}  BY <3>1 DEF CountedBytes
    <3> QED  BY <3>2, FS_EmptySet, FileAssumption DEF Quota, WithinQuota, UsedBytes
  <2>3. StrayObjectsMended  BY DEF ObjectsInit, StrayObjectsMended
  <2>4. OwnFile  BY DEF ObjectsInit, OwnFile
  <2>5. CheckedStands  BY DEF ObjectsInit, CheckedStands
  <2>6. AnswersStand  BY DEF ObjectsInit, AnswersStand
  <2> QED  BY <2>1, <2>2, <2>3, <2>4, <2>5, <2>6 DEF ObjectsInv
<1>2. ObjectsInv /\ [ObjectsNext]_objectVars => ObjectsInv'
  <2>1. ASSUME ObjectsInv, ObjectsNext  PROVE ObjectsInv'
    <3>1. ObjectsStep  BY <2>1, StepIs DEF ObjectsInv
    <3> QED
      BY <2>1, <3>1, ShapesKept, QuotaKept, StrayObjectsMendedKept, OwnFileKept,
         CheckedStandsKept, AnswersStandKept
      DEF ObjectsInv
  <2>2. ASSUME ObjectsInv, UNCHANGED objectVars  PROVE ObjectsInv'
    <3> USE <2>2 DEF objectVars, ObjectsInv
    <3>1. ObjectShapes'  BY DEF ObjectShapes
    <3>2. Quota'  BY DEF Quota, WithinQuota, UsedBytes, CountedBytes
    <3>3. StrayObjectsMended'
      BY DEF StrayObjectsMended, Mended, UploadMends, RemovalMends, SweepMends
    <3>4. OwnFile'  BY DEF OwnFile
    <3>5. CheckedStands' /\ AnswersStand'  BY DEF CheckedStands, AnswersStand, Sweeping
    <3> QED  BY <3>1, <3>2, <3>3, <3>4, <3>5
  <2> QED  BY <2>1, <2>2
<1> QED  BY <1>1, <1>2, PTL DEF ObjectsSpec

\* Rows, objects and requests have the shape the code gives them.
THEOREM ObjectsTypeCorrect == ObjectsSpec => []ObjectsTypeOK
<1>1. ObjectsInv => ObjectsTypeOK
  BY DEF ObjectsInv, ObjectShapes, ObjectsTypeOK, Uploaders, Removers, Sweepers
<1> QED  BY <1>1, ObjectsHold, PTL

\* The count an account is held to is the true one: its rows stay within the quota, and once
\* every request has ended and no call failed, each object of the bucket is as large as its row.
THEOREM BytesCounted == ObjectsSpec => []BytesAreCounted
<1>1. ObjectsInv => BytesAreCounted
  <2> SUFFICES ASSUME ObjectsInv, Quiet, faults = 0, NEW f \in Ids, object[f] # 0
               PROVE  row[f] = object[f]
    BY DEF ObjectsInv, BytesAreCounted, Quota, EveryObjectIsCounted
  <2>1. ~Mended(f)
    BY DEF Quiet, Mended, UploadMends, RemovalMends, SweepMends, Removing
  <2> QED  BY <2>1 DEF ObjectsInv, StrayObjectsMended
<1> QED  BY <1>1, ObjectsHold, PTL

\* What an upload answered for is there, row and bytes, until someone removes it.
THEOREM AnsweredStand == ObjectsSpec => []AnsweredFilesStand
<1>1. ObjectsInv => AnsweredFilesStand
  BY DEF ObjectsInv, AnswersStand, AnsweredFilesStand
<1> QED  BY <1>1, ObjectsHold, PTL
=============================================================================
