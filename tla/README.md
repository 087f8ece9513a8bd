# Verification of yozz

yozz is a webmail client and a command-line client that keep everything of a
person in an end-to-end encrypted vault and speak IMAP and SMTP themselves,
over TLS 1.3 run in the browser and a TCP relay. This directory holds TLA+
models of its parts, the TLC runs that check them on small instances, and the
proofs TLAPS checks.

Every definition is translated from the source under `src/`. `PROJECT.json`
maps each one to the lines it stands for, lists the hazards with the properties
that cover them, and pairs every checked property with a mutant: a definition
changed the way a plausible bug would change it, under which TLC finds the
property violated. Definitions whose names start with `Mut` are those; no
specification uses them.

## The system

| Part | State it keeps | What is hard | What makes it correct |
|---|---|---|---|
| Draft and send machine (`internal/mail/src/compose`) | one vault record per draft: text, version, `send` (opId, state, claim date), `unconfirmedSend`, tombstone; a lease record per claim | several clients, every await may be the last, lost SMTP answers, lapsing leases | a person's Send reaches SMTP at most once; the record never says more than happened; what may be out is never forgotten; accepted is final and is finished |
| Composer (web, `use-composer.ts`) | the draft on screen, its handle, the list of drafts, timers, the copy on the device | answers that come back to a state that moved on | typed text is kept, unseen text is never replaced, a locked session says nothing |
| Vault record store (`internal/mail/src/vault`, `internal/vault`, worker `db/records.ts`) | encrypted rows with revisions; per-device high-water marks | two tabs sharing marks, a server that answers with an old row | no rollback is accepted, no update is lost |
| Encrypted files (worker `db/files.ts`, `routes/files.ts`; `file-store.ts`, `collect-files.ts`) | file rows with sizes, bucket objects, quota | row and object are two stores; the collector reads record types one after another | no file a record names is deleted; no bytes go uncounted |
| Unlocking (worker `db/unlock.ts`, web `vault/unlock.ts`) | password hash and wrap, passkey wraps, sessions, CLI keys | every request races every other; the guards live in one SQL batch | every way in opens the vault, none for a revoked credential |
| CLI login (`internal/cli-login`, `apps/cli`) | the pairing of a terminal and a browser, a credentials file | locks, dead terminals, lost answers | the key belongs to the account that was approved |
| TCP relay (worker `relay/*`, web `relay/transport.ts`) | byte queues and acknowledgement counters | backpressure, half-close, the queue's limit | bytes arrive in order, once, before the end; memory is bounded |
| Live connections (web `relay/live.ts`) | one IMAP connection per mailbox, a task queue | tasks that fail because the connection died, the IDLE break, shutdown | every task settles once and never runs twice when it must not |
| IMAP client (`packages/imap`) | parser buffer, pending commands, selected folder | answers interleave with unsolicited data, literals | an answer reaches the command that asked |
| SMTP client (`packages/smtp`) | reply buffer, phase of the dialogue | a connection lost around the final dot | refused, accepted and unconfirmed are told apart |
| TLS 1.3 client (`packages/tls`) | handshake phase, traffic keys, sequence numbers | fragmented and coalesced messages around key changes | only an authentic server; no byte before Finished, none after close |
| X.509 (`packages/x509`) | none | the corner cases of DER, names and constraints | a chain is accepted only if every link is |
| Folder sync (`threads/sync.ts`, `reconcile.ts`, `bodies.ts`, `cache-snapshot.ts`) | a folder's mark, summaries and bodies, per device and in the vault | UIDVALIDITY, expunges and moves in flight | the cache is the folder; writes reach the mail they were meant for |
| Threads, summaries, search | found mail, one search under way | reply cycles, missing parents, late answers | nothing is lost, hidden or shown twice |
| CLI (`apps/cli/src`) | a disk cache under a lock | concurrent runs, servers that fail one at a time | a listed page hides nothing; a wait takes nothing old for new |
| Draft mirror, agent tools, autoconfig, rendering | none of their own, or a copy in the account's folder | text and formats | left to tests |

The web app and the CLI call the mail library; it stores drafts, Sent records
and files through the record store and the file store, which call the worker's
routes over HTTP; it reads and writes mail through the IMAP and SMTP clients,
each over a TLS session over a relay connection (the CLI over a socket). Two
clients of one vault never speak to each other: everything they agree on, they
agree on through the worker's compare-and-swap.

## The modules

| Module | What it is | Run by |
|---|---|---|
| `SendPromise` | the abstract specification of a draft's sends | |
| `DraftSend` | the draft's record, its clients, the mail servers; refines `SendPromise` | `draft_send_*` |
| `Composer` | the web composer over one vault | `composer*` |
| `VaultRecords` | one record, its readers and writers, the marks | `vault` |
| `UnlockModes` | the ways into an account's vault and every request on them | `vault` |
| `FileCollect` | the files records name, and the collectors | `vault_files` |
| `FileObjects` | the worker's file rows against the bucket's objects | `vault_files` |
| `LiveConnection` | one mailbox's IMAP connection in the web app | `live_connection` |
| `RelayPipe`, `SmtpSubmit` | the bytes between client and server; one submission over them; refines `SubmitPromise` | `mail_transport` |
| `SubmitPromise` | what a submission tells its caller | |
| `ImapResponse`, `ImapClient`, `ImapSession` | bytes to responses; the client; the properties of a session | `imap_session` |
| `MailStore`, `FolderSync`, `CacheSnapshot`, `MailSession` | the cache on a device; the tasks of a mailbox's queue; the snapshot in the vault; the mailbox as its user has it | `mail_session` |
| `TlsHandshake`, `TlsConnection`, `TlsMessages`, `X509Decode`, `X509Path`, `TlsSession` | handshake, connection, bytes of messages, bytes of certificates, the path search; all of them together | `tls_session` |
| `Threading`, `Conversations`, `ServerSearch`, `CliMail`, `CliWait`, `CliLogin` | what a person reads, and the command line | `reading` |
| `MC...` | instances for TLC: casts and small worlds | |
| `...Proofs` | invariants and theorems | |

`MCVault`, `MCVaultFiles`, `MCReading` and `TlsSession` hold several systems
that share no state; a behaviour is of one of them and the others rest.

### How state and actions correspond to the code

*A step is what runs between two awaits.* A vault operation is at least two
steps, its read and its compare-and-swap; a request to the vault lands in one
step and its answer is applied in another, and the tab may have been closed,
locked or moved to another draft in between. Casts name who acts and how much,
so that one run holds several small instances instead of one large one.

**DraftSend.** `row` is the draft's record (`draft-record.ts`); its version
stands for the id every write raises. `task[c]` is what client `c` is in the
middle of: `BeginReclaim`, `BeginUnconfirm`, ... decide, `Commit` is the
compare-and-swap, and `runSend` is a step per await (`EndData` ends the message
with its dot; `Accept`, `Refuse`, `LoseAnswer` are what the client hears;
`RecordAccepted`, `RecordCopied`, `Complete` write it down). `Crash` is a closed
tab at any of these. `fresh` is time: the claims whose lease stands. `delivered`,
`wire`, `copies`, `late` are the mail servers.

**Composer.** `vault` is what the worker holds, `used` counts what people and
timers did, `app` is the page's React state and refs (its openings are
`app.ops`), `jobs` the async functions under way, at the await they are in.
A text stands for all the fields and each typing makes a new one, so a text
lost or replaced is visible. `hist` records what a person saw and typed.

**VaultRecords.** `mark` is each device's high-water mark. `Ask`, `Check`,
`Open` are a read's answer, its check against the mark and the raise; `Send`,
`Store`, `Confirm` are a write's. `LateStore` is a request run after its client
gave up, `Die` a closed tab, `Restore` the database put back.

**UnlockModes.** Every worker batch is a step with its guard, every read before
it another, and the tabs' steps are around them; keys are abstract: a wrap is of
one DEK under one secret.

**FileCollect, FileObjects.** In the first, files exist or not, and each record
type is listed in a step of its own. In the second, an upload is reserve, put,
read again; a removal deletes the object, the row and the object; a reset sweeps
page by page, answers, and sweeps again; each may fail.

**LiveConnection.** The processes are the async functions of `live.ts`: `run`
and its abort listener, `pump` with `runOne`, `attempt`, `openSocket`, `rest`
and `idleUntilNeeded`, the keepalive, the watchdog, `shutdown`. `wire[s]` is
the IMAP client's command queue of a socket. An await that has nothing left to
wait for is continued before any timer, answer or failure (`Settled`), as the
event loop does.

**RelayPipe, SmtpSubmit.** The relay's queue, its acknowledgements and limit,
the window, FIN and abort; above them the client's dialogue await by await, its
timeouts, and a server that answers each line with any reply its script allows.
TLS is a framing: a frame is one record.

**ImapClient.** Bytes are symbols: a token, a CR, an LF, a literal header, a
byte. The client's variables are its fields; the server answers as the code's
comments and the RFCs they cite have it, and misbehaves where a cast says so.

**MailSession and below.** Each command and each cache write is a step. "idb"
caches are transactions over shared rows, "disk" caches whole files written
under a lock. The environment plays what other clients and the server do between
any two steps.

**TLS and X.509.** Keys, signatures and hashes are abstract terms (WebCrypto is
external); message and certificate bytes are decoded octet by octet over small
letters. `X509Path` runs the search over worlds of certificates;
`TlsHandshake` runs against hosts and networks that lie.

**Reading.** `Threading` is the union of messages by their headers, checked
against a reference definition inside `ConversationsAreRight`; `ServerSearch` is
a search box over servers that fail; `CliMail`, `CliWait`, `CliLogin` are
commands of the CLI. A cache synced less than two minutes ago is taken as it is
(`cache.ts:215-225`): `MayBeFresh` lets any synced mailbox be such a one, and the
claim that an id finds its mail excepts those it skipped (`look.fresh`).

## The runs

| Run | Instance | What it shows |
|---|---|---|
| `draft_send_safety` | 2 clients, 2 messages, 3 claims, 1 fault, three kinds of account, symmetry | no double submission, no false record, nothing forgotten; accepted stays accepted; every step is one of `SendPromise` |
| `draft_send_live` | 2 clients, 1 message, 3 claims, 1 fault, fair | no claim holds a draft for ever; what SMTP accepted is finished |
| `vault` | one record and 3 clients (2 share marks), or an account, 2 tabs and 3 interleaved requests | no lockout under compare-and-swap, no read goes back; every way in opens the one vault, nothing planted by a session that was signed out |
| `vault_files` | 2 devices (one of an older build) and 3 files, or 3 uploads, removals and resets with one failed call | no named or awaited file is deleted; no bytes uncounted; an upload that answered yes stands |
| `live_connection` | 3 tasks in 2 folders, 2 resting calls, 3 sockets, 1 lost connection, 1 reopened IDLE | no task runs too often or in another's folder; closed means closed; every task settles |
| `mail_transport` | 10 casts: relay or socket, message lines with dots, up to 2 odd replies | the relay's queue holds; replies are paired with their lines; the submission's answer is the truth; it settles |
| `imap_session` | 19 casts of 1 to 3 calls, bytes cut everywhere | answers in step, changes heard, no call stranded |
| `mail_session` | 21 casts, 2 folders, window 2 | the cache is the folder; writes hold; nothing after a lock |
| `tls_session` | certificate worlds, papers, hosts, tickets, connections, letters | nothing untrusted is accepted, honest hosts are served, what is read is what was said |
| `composer` | 10 casts, 3 record keys | typed text is kept, nothing unseen is overwritten, autosaving ends in a save or a notice |
| `composer_reopen` | the smallest cast that has the case | expected violation: finding 1 below |
| `reading` | conversations of 9 mails, searches over 2 mailboxes, the CLI's lists, waits and logins | nothing lost, hidden, shown twice or taken for new; a login's key is of the approved account |

Deadlock is not checked where a configuration says so: those systems stop when
nobody asks anything of them any more and the casts are played out. In
`imap_session` the absence of stranded calls is an invariant of the states
without a step. The other runs end in a stuttering step of their own.

### Bounds

- *Clients.* Two clients of one draft or record are every pair of steps that
  race; a third would hold a version that either has already made old. Of
  `VaultRecords`, two tabs that share marks and a client that does not are every
  kind of neighbour. The proofs hold for any number.
- *Messages, claims, faults.* Two messages let one be put aside and another
  begun; three claims are a Send and two take-overs; one fault is a crash, a lost
  answer or a missed lease at any point.
- *Versions.* `MaxVersion` stops only edits, so that the send machine always has
  a version to write; `Versions` of the composer stops only its autosaves.
- *Files.* Three are a replaced snapshot, or an attachment with its copy in the
  sent record, beside one that nobody names.
- *Connections.* Two tasks leave two timers of rest behind; the third meets them.
- *Transport.* A window of 4, a limit of 5 and batches of 3 with frames of up to
  2 put the window, the limit and a batch boundary inside one message; the
  assumption `WindowFits` is the relation the code's own numbers satisfy.
- *Mail.* A window of 2 and folders of 3 give a mail below the window, inside it
  and arriving; limits of the X.509 decoder are scaled down so that casts cross
  each of them.

### Fairness

- `DraftSend`: every client's next step is taken unless it crashes (network calls
  end, with an answer or a time-out); a claim without a runner lapses (the lease
  is a date in the record); some client unlocks the vault again and resumes.
  Nothing is assumed of a person, nor of the mail server's answer.
- `LiveConnection`: the event loop runs what is ready, and the watchdog's timer
  fires while there is work. Nothing is assumed of the server.
- `SmtpSubmit`: client, server and transport take their steps, and the reply's and
  the acknowledgements' timers fire. The server's script may end or go silent.

Every liveness property was also checked to fail under its mutant.

## What is proved

TLAPS checks these for every value of the constants that the modules'
assumptions admit; none of the bounds above is among the assumptions. Each
invariant was checked by TLC before it was proved.

**DraftSend** (`DraftSendProofs`). `Invariance` proves `IInv`, and from it
follow `TypeCorrect`, `SubmitsOnlyWhenAsked`, `VersionsAreUnique`,
`RecordsAreTruthful`, `NothingIsForgotten` and the action property
`AcceptedStaysAccepted`. None of the properties is inductive: whether a write is
harmless depends on the handle it was computed from, read some steps earlier.
`IInv` adds what the code relies on between its awaits: `HandleOK` (what a
runner's handle says at each point of `runSend`; if its version is still the
row's, it *is* the row), `DecidedOK` (a decided write was computed from the row
as it still is, or will fail), `Owned` (no two clients hold one claim or
version), `OnlyTry` (a message not sent again has one runner, and nothing of it
is out before that runner heard of it), `Remembered` (every message in play is
in the record). `PromiseKept` then proves `Spec => KeepsPromise`: with the
stage read off the row, the messages minted and those delivered, every step is
one of `SendPromise` or leaves it as it was.

**VaultRecords** (`VaultProofs`). `RecordsInvariance` has `CasOK` at its
core: while the database was not restored and every writer uses
compare-and-swap, the row is the newest there ever was, every mark is at most
its revision, and a revision names one row. `ReadsNeverGoBack`,
`CasNeverLocksOut` and `CasLosesNoUpdate` follow. `TaskOK` carries the floor a
read began with through the check to the raise, which a sibling tab's raise in
between could break.

**UnlockModes** (`VaultProofs`). `WaysInAgree` proves `UnlockInv`, and from it
follow `EveryWayInOpens`, `SignedOutStayOut` and `UnlockTypeCorrect`, for any
tabs, passkeys and CLI keys and any number of requests in flight. What makes it
inductive:
- A passkey is wrapped once. From its registration it is in one tab's hand, then
  in one request (`TabsApart`, `RequestsApart`), and once a row wraps it nobody
  else may (`Spent`). A late request can therefore add a wrap, never change one.
- The stamp of the vault names the request that set it, and only one that is
  over (`Settled`), so keys saved under a stamp that still stands are those of
  this vault (`SaveOK`).
- Every wrap there is, of the password, a passkey or a CLI key, holds one DEK
  (`DeksAgree`), as long as `stray` is false: the history variable that says a
  tab wrapped, or saved, a DEK the vault no longer had. The proof
  showed that it has to look at *all* wraps, also at those of passkeys nobody
  holds any more: with many requests in flight two tabs' DEKs can otherwise meet
  again unseen. Three requests, TLC's bound, are too few for it.

`UnlockAssumption` says that `Null` is no data, that there is a DEK, and that an
account that begins in passkey mode has a passkey.

**FileCollect** (`VaultFilesProofs`). `NamedStand` and `UnsavedStand` need to
know what a collector in the middle of its lists can still be wrong about. A
file is of the mail or of a snapshot, never of both (`Kinds`); each snapshot
writer's file is its own (`WritersApart`); a file that a send carries is named by
the draft or the sent record at every step (`Sending`); and what a collector has
listed is either still named, or past its grace and named only by something the
code accepts as late (`Collecting`). `FilesTypeCorrect` is the types.

**FileObjects** (`VaultFilesProofs`). `ObjectsHold` proves `ObjectsInv`;
`BytesCounted` and `AnsweredStand` follow, for any ids, sizes, quota and number
of requests between each other's steps.
- The quota counts `CountedBytes`, the set of the bytes the rows count, each by
  its place in its file: taking a row adds as many as its size, apart from the
  others, and every other step gives some up.
- An object that no row counts is mended (`StrayObjectsMended`): the upload whose
  put it was has still to read its row, or is cleaning up; or a removal has still
  to delete it (the second time, if a put came between); or a sweep after a
  reset's batch has it on its page or ahead of its cursor. The last needs
  `NoKeySkipped`: what a page leaves out is past the cursor it leaves, however
  short the page is.
- What an upload answers for is its own (`OwnFile`) and was there when its row
  was read again, unless the row was gone or a sweep still had its batch before
  it, and then there is no yes, or the batch takes it back (`CheckedStands`).

**MailSession** (`MailSessionProofs`). `LockLeavesNothing` proves
`NothingAfterTheLock`: after a teardown has emptied a device, nothing of an
earlier session writes to it. `WorkIsOfItsSession` is its invariant. All work
(the running task, the queue, jobs for bodies, a snapshot being saved) carries
the session it was asked for in, which is this one or an earlier one (`Known`);
an ended session has no run, queue or restore, all that is under way for it is
stale to the checks the code makes before each write, and the clear waits for the
task that is still running (`EndedSession`). A device that several clients share
is not emptied by one of them, so the claim is of a client alone on its device
(`Sole`), as the property is. `FoldersAssumption` says that folders are finitely
many.

**LiveConnection** (`LiveConnectionProofs`). `Invariance` says where a task is:
the queues hold waiting tasks, each in its own queue and once, and the pump's is
the running one, started once for every connection it had. `NeverStartedTooOften`
and `SettlingIsFinal` follow; uniqueness in the queues is what lets a cancelled
task be final. `ClosedForGood` proves `ClosedUnlessReopened`: while no IDLE was
reopened, every open socket is the connection's one (`OneSocket`), the calls of
idling hold no other (`IdlersOK`), and a shutdown closed it (`ShutOK`). It rests
on the naming assumption that sockets, idlers and the pump have different names.

**SmtpSubmit** (`SmtpSubmitProofs`).
- `RelayCarries`: from the ledger of the relay. What the client has sent and not
  had acknowledged is under way, queued or written and not reported; the queue's
  count is the sum of its frames (sums are running totals that exist, `Adds`);
  the end is last in it. With `WindowFits` the limit is never passed.
- `RepliesMatch`: a reply is read only while its line waits. The invariant
  follows the client through its dialogue (`Stepping`, `Framed`), the lines
  through both pipes (`InTurn`), and the replies back (`Answering`, `Ending`,
  `Following`): at most one line that will be answered is under way, and it is the
  last; the end of a reply leaves nothing behind it; a client that leaves or lost
  its end only closes.
- `SubmissionKeepsPromise`: every step is one of `SubmitPromise` or a stutter.
  `Promising` follows the bytes: what the server has read, plus what is in its
  socket, the relay's queue and the wire, plus what the client has left, is the
  message, stuffed (`Reading`, `Writing`, `Taking`); once the server has judged,
  no end of a message is on its way (`Judged`); what the caller is told agrees
  with it (`Telling`). Reading undoes the stuffing. Assumptions: `CastsAssumption`
  (lines but the last end in CRLF, as `message.ts` builds them), and names apart
  from each other (`Gone`, `Junk`).

**Composer** (`ComposerProofs`). `IInv` says that some log explains what everyone
holds. The log has every text each record had under each version, one for each
(`Log`), and the records hold its newest (`RowsOK`).
- *Ids.* Every id on screen, in the list, in a job, in a mint under way or in the
  device's copy is one of the log's; and an opening that writes by an id has had
  on screen the text it stands for (`Knows`, `Names`). A compare-and-swap that
  succeeds therefore replaces a text that was seen: `NothingUnseenIsOverwritten`.
  The exceptions are those of the property: an opening that took another's id,
  and a copy restored from the device.
- *Texts.* An opening's last text is safe for one of the reasons in `Safe`: it
  is stored, on screen, in the device's copy while nothing is open, or in a flush.
  The copy is of what is on screen while a draft is open (`InStep`), and no other
  opening that needs it typed the same text (`Alone`), so a text can move from
  one place to the next: `TypedTextSurvives`.
- *Sessions.* A job of an ended session is the agent's or its opening was let go
  of (`JobOK`), and nothing is applied without the generation's check:
  `EndedSessionsSayNothing`, which is proved and not a run's: one session and one
  late answer are all it takes to break.

One lemma per action: `RenderedOK` is what React does after each, so a step
that leaves the text on screen alone is `MoveStep`, and one that takes it away
goes through `LeaveTexts` and `Arrive`. Assumptions: `KeysAssumption` (0 is no
key), `CastsAssumption` (texts are numbers) and `NoneAssumption` (`None` is no
screen).

**CliLogin** (`CommandLineProofs`). `LoginHolds` proves `LoginsHold` from
`LoginInv`, which follows a key from the page that minted it, through the callback
queued at a port, to the run that saves it: wherever it is, while its row stands,
the row's pair is the run's and its account the one the page showed (`PageFits`,
`QueueFits`, `ShellFits`, `Fits`). A row is never made twice (`RowsAreWhole`), so
all that any step does to a key already made is to take its row away (`RowsKept`),
and what fitted fits on. `KeysAccounted` is about the file: a run that ends its
login leaves no key behind that it read there, unless it is revoked or warned of.
`LoginAssumption` admits every scene in which the file and the environment each
name an earlier login or none, the same one or two, of any account, revoked since
or not; it says that one key is of one login.

**CliWait** (`CommandLineProofs`). `WaitHolds` proves `WaitAnswersNewMail`.
`NoneSkipped` says where a wanted mail is between being read and being judged: in
what a box gained (`fetch`), then found, or a candidate at a server still to be
asked for its words (`words`). That rests on what each stage knows of the boxes
still to do (`RoundFits`): they are watched, nothing of them is fresh yet, and a
look is never behind what was read. An inbox may be renumbered at any moment: arrivals are then read under numbers the
mark is not of, as the code reads them. `WaitAssumption`: boxes are numbers, since
the candidate of a mail with several copies is the first box's.

**Only model-checked.**
- Liveness (`HeldEnds`, `AcceptedIsFinished`, `EveryTaskSettles`,
  `SubmissionsSettle`), since TLAPS proves nothing of `ENABLED` or fairness.
- What is computed by recursion or by a fold over data, for which the provers have
  no induction: the decoder of certificates and the IMAP reader and client, in
  recursive operators (`CertificatesAreRight` and `TheWireIsRight` as `TlsSession`
  has them, `AnswersInStep`, `ChangesAreHeard`, `NoCallIsStranded`); the path
  search, the transcripts and the connection over them, and the union-find of
  conversations, in folds and recursive functions (`HandshakeIsAuthentic`,
  `HonestHostsAreServed`, `ConversationsAreRight`).
- `ReadsFindTheirMail` but for the wait: the pages of searches and lists miss
  nothing only where mail came into each folder about in the order of its dates,
  as in the casts, and the claim is about sorted pages of them.
- `CacheIsTheFolder`, `AQuietPassSettles`, `WritesHold` of `MailSession`: they
  compare a cache with everything the server ever held, over all that the sync's
  passes may find there, and hold for servers that assign UIDs as the casts do.
- `AutosaveCatchesUp` of `Composer`: it needs to know for which text each timer
  and job stands, which the invariant above does not follow.

## What the code does differently from what it says

The first is a run; the others were met while modelling. Some are traces of
earlier runs, whose properties stay in their modules unused
(`FreeMeansNothingWentOut`, `OneSentCopy`, `UnmarkedMeansCopied` of `DraftSend`;
`EveryIdleCanBeEnded` of `LiveConnection`; `LastWriteIsRead`
of `VaultRecords`; `AlwaysAWayIn` of `UnlockModes`; `OneNonceOneRecord` of
`TlsConnection`; `BodiesAreTheMessages` of `MailSession`; `UnsavedIsSaid` of
`Composer`).

*Composer.*
1. `composer_reopen` (`use-composer.ts:989`, the doc at `:74`): an autosave's
   answer finds its draft by key and not by opening. A draft closed while its
   autosave is in flight and reopened at once is seeded from the list, with the
   old text; the landing save gives it the new version, and its own close writes
   the old text over what was typed.
2. `draftConflict` is never cleared by closing or opening: draft B then shows
   A's conflict, "Keep mine" sets B's `writtenDraftId` to A's id (`:1012`), and
   B's Send claims A's record with B's text (`:630`).
3. A list read before a mint landed and applied after it takes the row off the
   list, and the autosave arms itself every two seconds. Text typed after Send
   was pressed and closed while it waits is lost. Offline, `replaceDraft`'s read
   rejects unhandled and no error is shown (cf. `:170`). A flush clears the
   device's copy of another opening; a restored copy takes the newest handle
   (`:1456`); opening another draft drops text in the debounce.

*Draft and send machine.*
4. A refused "Send again" frees the draft (`send-machine.ts:130`): "nothing went
   out" is true of the second try; the first, whose answer was lost, may be out.
5. Sent gets two copies (`send.ts:235`): search and APPEND are two steps, and a
   stalled APPEND and a later run's search overlap.
6. A tombstone without its mark (`draft-record.ts:96`): the address was removed
   in between; no copy was kept, and the record reads as if one was.

*Vault.*
7. Last write wins, and is refused (`vault-contract/src/index.ts:189`): a put
   without a precondition counts its revision from its own device's mark, and the
   row can end below the other's.
8. `db/unlock.ts:316` says of a passkey and its wrap "deleted together, never
   the last one that can sign in", but `finalizePasskeyUnlock` reads the row
   (`:266`) before a batch without a guard: a removal in between leaves an
   account in passkey mode without one. `resetVault` keeps sessions, so an old
   tab that enrols again wraps its old key.
9. CLI login: two `yozz login` at once overwrite each other's key and revoke
   neither (`login.ts:92`); `logout` deletes a file another login has meanwhile
   written (`logout.ts:35`); a lost answer after approval leaves a key nobody
   holds. `vault.ts:118` takes an old wrap for one that does not open; it opens,
   and the records then fail.

*Connections.*
10. A closed mailbox opens again (`live.ts:37`): `shutdown` does not wait for the
    reconnect of a dropped IDLE, which logs in and idles on a connection nobody
    holds. The same reconnect may race a task's own; the watchdog may then hold
    the wrong connection's `abort`. `EveryTaskSettles` and `ClosedUnlessReopened`
    except a mailbox with such a reconnect. `closeAll` waits for LOGOUT without
    a watchdog.
11. Two IDLEs (`live.ts:371`): every end of the pump leaves a timer, and two
    that fire together idle twice; the first can be ended by nobody but the
    server and the watchdog.
12. IMAP: a tagged OK while a literal waits for its continuation is ignored
    (`client.ts:542-565`); `select`'s uidNext can lag EXISTS; nothing in the
    client times out. Relay: `server.send` may throw while the peer closes.

*TLS and X.509.*
13. A record's sequence number is used twice: a fatal alert, the empty write's
    rollover and a failed KeyUpdate write leave `clientWriteKeys` behind
    (`handshake.ts:348-372`, `1420-1446`, the claim at `1170`).
14. `handshake-messages.ts:297` says an extension is parsed only where it is
    defined; `server_name`, `supported_groups`, `signature_algorithms`, `padding`
    and `early_data` are parsed in every message. A ClientHello that lacks its last
    35 bytes made of whole extensions decodes.
15. `certificate.ts:31` says an EXPLICIT tag wraps exactly one value; version
    (450) and extensions (535) take the first child uncounted. Explicit FALSE
    defaults and constructed IMPLICIT strings are accepted. `Date.UTC` maps
    GeneralizedTime years 0–99 to 1900–1999. `bigIntToBytes` of `verify.ts` keeps
    what `fixedWidth` of x509 refuses; `p1363FromDer` does not check the outer
    tag; `importLeafKey` skips the curve check when the SPKI does not parse.

*Mail on a device.*
16. A body renumbered (`bodies.ts:303`, `412` against the comment at 377): a body
    fetched under one UIDVALIDITY may be stored under the next one's key. An
    archive renumbered under a pass: the clear wipes folders the pass already
    wrote; the CLI says the pass "goes round once more" (`cache.ts:180`), and it
    runs once. Starting over deletes known rows before the mark moves. Two CLI
    processes share one cache; `loadOlder` does not look for a renumbering.
17. CLI list: moved-in old mail with the lowest cached uid lets a page end before
    unread mail (`list.ts:236`). CLI wait: your own message sent during the wait
    is never new (`wait.ts:185`), for its Sent copy in the vault is a copy that did
    not arrive; the model leaves such copies out, its `held` being fixed when the
    wait begins. A copy in the inbox of a failing server is never judged again.
    Arrivals do not check UIDVALIDITY (`wait.ts:50`): after a renumbering, older
    mail that no cache held may be read past the mark and answered. A change told
    between a round's look and the IDLE's own `onChange` (`mail.ts:132`,
    `277-283`) ends no IDLE, and the wait may sleep on mail that is there; the
    model's `IdleEnds` may come at any time and need never come.
18. Found mail lies over cached mail and no sync refreshes it (`hydrate.ts:67`
    against `MailProvider.tsx:1202`); `hitKey` omits UIDVALIDITY
    (`found.ts:141`); two concurrent `more` append one page twice; two Sent copies
    with one Message-ID share an id.

`NamedFilesStand` has exceptions, which its history variable `late` collects: a
file named more than a day after its upload (a conflict kept, a save that
waited), and one that a stalled run's sent record names after the person let the
copy go. The code accepts both.

## What is not modelled

- *Of modelled parts*: each component's note in `PROJECT.json` says what is left
  out. In short: text, recipients and attachments' bytes; paging of the vault's
  lists; rate limits and e-mailed codes; the IMAP minute tick, slow commands'
  limits and the cached LIST; MIME; two approvals in one remounted tab; the
  query's grammar; React state that only shows what the models hold.
- *Encryption* is a record's contents being readable by its vault's clients alone.
  A tampering server is the database restored to an earlier state.
- *Whole parts*: the draft mirror (its order with a send is `DraftSend`'s
  expunge), agent tools, autoconfig and HTTP plumbing, HTML rendering and the
  harnesses of the apps.

## Plan

For the proofs, in order:
1. `AutosaveCatchesUp`: `IInv` with, for the draft on screen, what its armed timer,
   its running save, its mint and its notice owe its newest text.
2. `RunsInItsFolder` of `LiveConnection`: what is selected at the server, the commands
   on the wire and what the client takes for selected agree, command by command.
3. `WritesHold` of `MailSession`, for a server whose UIDVALIDITY names one
   numbering.
4. `ImapSession`: its recursive operators as recursive functions, so that
   `AnswersInStep` can be proved.

Out of reach: what needs induction over data (the path search of `X509Path`, the
folds of `TlsHandshake` and `Conversations`), and liveness.
