------------------------------- MODULE MailStore -------------------------------
(* A mailbox's cache on one device, per folder: the sync mark, the summaries    *)
(* and the bodies, behind the two stores the code has.  "idb" is the web app's: *)
(* every operation is a transaction of its own over rows, and two tabs share    *)
(* them.  "disk" is the command line's: a folder is one file written whole from *)
(* the copy this process holds since it first read it, and a body is a file     *)
(* named for its folder's UIDVALIDITY.                                          *)
EXTENDS Integers, Sequences, FiniteSets, Functions, TLC

CONSTANTS Folders,     \* the folders of the mailbox, the inbox among them
          Clients,     \* tabs, devices and processes that read the mailbox
          Casts,       \* who does what: the port, the devices and the scripts
          NoMark,      \* a folder no sync has read
          NoFile,      \* a folder's file this process has not read yet
          NoSnap       \* no snapshot of the mailbox in the vault

VARIABLES cast,        \* which of Casts this behaviour plays; never changes
          disk,        \* disk[d][f]: the mark, the summaries and the previews
          held,        \* held[c][f]: the file as this process last read or wrote it
          bodies,      \* bodies[d][f]: the message whose body is kept under a key
          digest       \* digest[d]: the snapshot this cache last took in or wrote

cache == <<disk, held, bodies, digest>>

(* What new says, and what old does where new says nothing.                     *)
Over(new, old) ==
  [x \in DOMAIN new \cup DOMAIN old |-> IF x \in DOMAIN new THEN new[x] ELSE old[x]]

Port == Casts[cast].port
Dev(c) == Casts[cast].dev[c]
Devices == {Casts[cast].dev[c] : c \in Clients}

EmptyFolder == [mark |-> NoMark, rows |-> <<>>, previews |-> {}]

StoreInit ==
  /\ disk = [d \in Devices |-> [f \in Folders |-> EmptyFolder]]
  /\ held = [c \in Clients |-> [f \in Folders |-> NoFile]]
  /\ bodies = [d \in Devices |-> [f \in Folders |-> <<>>]]
  /\ digest = [d \in Devices |-> NoSnap]

(* What a read answers: the file held, or the rows as they are.                 *)
FileOf(c, f) ==
  IF Port = "disk" /\ held[c][f] # NoFile THEN held[c][f] ELSE disk[Dev(c)][f]

MarkOf(c, f) == FileOf(c, f).mark
RowsOf(c, f) == FileOf(c, f).rows

(* A process that read these folders' files holds them from then on.            *)
Hold(c, S) ==
  held' = IF Port = "disk"
          THEN [held EXCEPT ![c] = [f \in Folders |-> IF f \in S THEN FileOf(c, f) ELSE @[f]]]
          ELSE held

Write(c, f, file) ==
  /\ disk' = [disk EXCEPT ![Dev(c)][f] = file]
  /\ held' = IF Port = "disk" THEN [held EXCEPT ![c][f] = file] ELSE held
  /\ UNCHANGED <<bodies, digest>>

PutMark(c, f, mark) == Write(c, f, [FileOf(c, f) EXCEPT !.mark = mark])
PutRows(c, f, rows) == Write(c, f, [FileOf(c, f) EXCEPT !.rows = rows @@ @])
DeleteRows(c, f, uids) ==
  Write(c, f, [FileOf(c, f) EXCEPT !.rows = Restrict(@, DOMAIN @ \ uids)])

(* A uid that is not cached stays absent.                                       *)
UpdateRows(c, f, uids, seen) ==
  Write(c, f, [FileOf(c, f) EXCEPT !.rows =
    [u \in DOMAIN @ |-> IF u \in uids THEN [@[u] EXCEPT !.seen = seen] ELSE @[u]]])

(* The disk's body is named under the mark of the moment it is written.         *)
BodyKey(c, f, u) ==
  IF Port = "idb" THEN <<0, u>>
  ELSE <<IF MarkOf(c, f) = NoMark THEN 0 ELSE MarkOf(c, f).valid, u>>

BodyUids(c, f) ==
  IF Port = "idb" THEN {k[2] : k \in DOMAIN bodies[Dev(c)][f]} ELSE FileOf(c, f).previews

HasBody(c, f, u) == BodyKey(c, f, u) \in DOMAIN bodies[Dev(c)][f]
BodyOf(c, f, u) == bodies[Dev(c)][f][BodyKey(c, f, u)]

PutBody(c, f, u, m) ==
  IF Port = "disk" /\ MarkOf(c, f) = NoMark
  THEN UNCHANGED cache
  ELSE /\ bodies' = [bodies EXCEPT ![Dev(c)][f] = (BodyKey(c, f, u) :> m) @@ @]
       /\ IF Port = "disk"
          THEN /\ disk' = [disk EXCEPT ![Dev(c)][f] =
                             [FileOf(c, f) EXCEPT !.previews = @ \cup {u}]]
               /\ held' = [held EXCEPT ![c][f] = [FileOf(c, f) EXCEPT !.previews = @ \cup {u}]]
          ELSE UNCHANGED <<disk, held>>
       /\ UNCHANGED digest

\* Mutant: a clear leaves the bodies, which a new numbering may name again.
MutClear(c) ==
  /\ disk' = [disk EXCEPT ![Dev(c)] = [f \in Folders |-> EmptyFolder]]
  /\ held' = [held EXCEPT ![c] = [f \in Folders |-> NoFile]]
  /\ digest' = [digest EXCEPT ![Dev(c)] = NoSnap]
  /\ UNCHANGED bodies

(* Every folder at once.  A process that goes on forgets what it held.          *)
Clear(c) ==
  /\ disk' = [disk EXCEPT ![Dev(c)] = [f \in Folders |-> EmptyFolder]]
  /\ held' = [held EXCEPT ![c] = [f \in Folders |-> NoFile]]
  /\ bodies' = [bodies EXCEPT ![Dev(c)] = [f \in Folders |-> <<>>]]
  /\ digest' = [digest EXCEPT ![Dev(c)] = NoSnap]

PutDigest(c, snap) ==
  /\ digest' = [digest EXCEPT ![Dev(c)] = snap]
  /\ UNCHANGED <<disk, held, bodies>>

IsEmptyDevice(d) ==
  /\ \A f \in Folders : disk[d][f] = EmptyFolder /\ bodies[d][f] = <<>>
  /\ digest[d] = NoSnap
================================================================================
