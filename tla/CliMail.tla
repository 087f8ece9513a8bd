------------------------------ MODULE CliMail ------------------------------
(***************************************************************************)
(* What the command line reads of the mailboxes: `list`, a page at a time, *)
(* and the conversations that ids name, for `read`, `update` and `draft`.  *)
(* Both sync what they need and answer from the cache of the windows, over *)
(* servers that fail one at a time and mail that moves meanwhile.          *)
(*                                                                         *)
(* A mailbox's server is the sequence of its mails in uid order, a place   *)
(* whose mail is gone holding Gone.  The cache holds the uids from some    *)
(* window's start on, and the mailbox is complete once that reaches back   *)
(* to the first.  Every mail of a `list` is a conversation of its own.     *)
(***************************************************************************)
EXTENDS Integers, Sequences, FiniteSets, FiniteSetsExt, SequencesExt

CONSTANTS
  CliCasts,                \* [job, inbox, window, synced, unread, ids, remembered,
                           \*  arrivals, calls, faults, changes]: one command, or one list
  Gone,                    \* no mail
  DateOf,                  \* [mail -> when it arrived]
  Conversation,            \* [mail -> the conversation its headers put it in]
  Limit,                   \* how many rows a page holds
  OLDER_WINDOWS_PER_PAGE   \* how many windows of older mail one page may load

VARIABLES
  cast,      \* the cast of this behaviour
  inbox,     \* [box -> Seq(mail)]: each server's mail
  held,      \* [box -> set of [uid, mail]]: what the cache holds
  reach,     \* [box -> [low, complete, synced]]
  walk,      \* the pages of one list asked for so far
  look,      \* one run of locate
  remembered \* [box -> set of [uid, mail]]: where searches found mail beyond the windows

cliVars == <<cast, inbox, held, reach, walk, look, remembered>>

CliBoxes == DOMAIN cast.inbox

Standing(box) == {u \in DOMAIN inbox[box] : inbox[box][u] # Gone}

\* A copy, where it is.
Copies(box, uids) == {[uid |-> u, mail |-> inbox[box][u]] : u \in uids \cap Standing(box)}

MailOf(copies) == {c.mail : c \in copies}

MailOn(box) == MailOf(Copies(box, Standing(box)))

FROM_THE_TOP == [at |-> 99, id |-> 0]

Newest(uids, n) == {u \in uids : Cardinality({v \in uids : v > u}) < n}

FirstSync(box, uids) ==
  LET first == Newest(uids, cast.window)
  IN [held |-> Copies(box, first),
      reach |-> [low |-> IF first = {} THEN 1 ELSE Min(first), synced |-> TRUE,
                 complete |-> first = uids]]

\* What a synced mailbox held when it last was: some mail may have come since.
LastSync(box) == FirstSync(box, {u \in Standing(box) : inbox[box][u] \notin cast.unread})

CliInit ==
  /\ cast \in CliCasts
  /\ inbox = cast.inbox
  /\ held = [b \in CliBoxes |-> IF b \in cast.synced THEN LastSync(b).held ELSE {}]
  /\ reach = [b \in CliBoxes |-> IF b \in cast.synced THEN LastSync(b).reach
                               ELSE [low |-> 0, complete |-> FALSE, synced |-> FALSE]]
  /\ remembered = cast.remembered
  /\ walk = [stage |-> "idle", due |-> {}, live |-> {}, windows |-> 0, cursor |-> FROM_THE_TOP,
             seen |-> <<>>, ended |-> cast.job # "list", calls |-> cast.calls,
             lapsed |-> {}, changed |-> {}, changes |-> cast.changes, faults |-> cast.faults]
  /\ look = [stage |-> IF cast.job = "locate" THEN "cached" ELSE "done", due |-> {},
             asked |-> {}, fresh |-> {}, failed |-> {}, extra |-> [b \in CliBoxes |-> {}], answer |-> {}]

(***************************************************************************)
(* A sync and a page of older mail, as the cache sees them.                *)
(***************************************************************************)
\* The first sync reads the newest window, a later one what changed in it.
SyncedTo(box) ==
  IF ~reach[box].synced THEN FirstSync(box, Standing(box))
  ELSE [held |-> Copies(box, {u \in Standing(box) : u >= reach[box].low}),
        reach |-> reach[box]]

\* One synced less than two minutes ago answers from its cache, unless forced.
MayBeFresh(boxes) == SUBSET {b \in boxes : reach[b].synced}

Sync(box) ==
  /\ held' = [held EXCEPT ![box] = SyncedTo(box).held]
  /\ reach' = [reach EXCEPT ![box] = SyncedTo(box).reach]

loadOlder(box) ==
  LET below == {u \in Standing(box) : u < reach[box].low}
      window == Newest(below, cast.window)
  IN /\ held' = [held EXCEPT ![box] = @ \cup Copies(box, window)]
     /\ reach' = [reach EXCEPT ![box].low = IF window = {} THEN @ ELSE Min(window),
                               ![box].complete = window = below]

(***************************************************************************)
(* list.                                                                   *)
(***************************************************************************)
\* Newest first, then by id: a total order.
isAfter(m, cursor) == DateOf[m] < cursor.at \/ (DateOf[m] = cursor.at /\ m > cursor.id)

Cached == UNION {MailOf(held[b]) : b \in CliBoxes}

candidates == {m \in Cached : isAfter(m, walk.cursor)}

\* By uid, not the oldest date; a folder with nothing cached reaches nowhere.
ReachedAt(box) ==
  IF held[box] = {} THEN FROM_THE_TOP.at
  ELSE DateOf[(CHOOSE c \in held[box] : \A d \in held[box] : c.uid <= d.uid).mail]

Short == {b \in walk.live : reach[b].synced /\ ~reach[b].complete}

olderFrontier == CHOOSE b \in Short : \A c \in Short : ReachedAt(c) <= ReachedAt(b)

\* Mutant: a page of all that is held, wherever the folders stop.
MutReach == candidates

withinReach ==
  IF Short = {} THEN candidates
  ELSE {m \in candidates : DateOf[m] > ReachedAt(olderFrontier)}

\* The command fails and prints no page: the caller has the cursor it had.
PageFails == walk' = [walk EXCEPT !.stage = "idle", !.faults = @ - 1]

Call ==
  /\ walk.stage = "idle" /\ ~walk.ended /\ walk.calls > 0
  /\ \E fresh \in MayBeFresh(CliBoxes) :
       walk' = [walk EXCEPT !.stage = "sync", !.due = CliBoxes \ fresh, !.live = CliBoxes,
                            !.calls = @ - 1, !.windows = OLDER_WINDOWS_PER_PAGE]
  /\ UNCHANGED <<cast, inbox, held, reach, look, remembered>>

SyncedForPage(box) ==
  /\ walk.stage = "sync" /\ box \in walk.due
  /\ Sync(box)
  /\ walk' = [walk EXCEPT !.due = @ \ {box}]
  /\ UNCHANGED <<cast, inbox, look, remembered>>

\* A failed mailbox answers from its cache, and only every one failing fails the page.
SyncFailsForPage(box) ==
  /\ walk.stage = "sync" /\ box \in walk.due /\ walk.faults > 0
  /\ IF walk.live = {box} THEN PageFails
     ELSE walk' = [walk EXCEPT !.due = @ \ {box}, !.live = @ \ {box}, !.faults = @ - 1,
                               !.lapsed = @ \cup {box}]
  /\ UNCHANGED <<cast, inbox, held, reach, look, remembered>>

IsFull ==
  Short = {} \/ Cardinality(withinReach) >= Limit \/ walk.windows = 0

OlderForPage ==
  /\ walk.stage = "sync" /\ walk.due = {} /\ ~IsFull
  /\ loadOlder(olderFrontier)
  /\ walk' = [walk EXCEPT !.windows = @ - 1]
  /\ UNCHANGED <<cast, inbox, look, remembered>>

OlderFailsForPage ==
  /\ walk.stage = "sync" /\ walk.due = {} /\ ~IsFull /\ walk.faults > 0
  /\ PageFails
  /\ UNCHANGED <<cast, inbox, held, reach, look, remembered>>

resumeAt(rows) ==
  IF rows = <<>> THEN walk.cursor ELSE [at |-> DateOf[Last(rows)], id |-> Last(rows)]

PageAnswered ==
  /\ walk.stage = "sync" /\ walk.due = {} /\ IsFull
  /\ LET found == SetToSortSeq(withinReach,
                    LAMBDA m, n : isAfter(n, [at |-> DateOf[m], id |-> m]))
         rows == SubSeq(found, 1, IF Len(found) > Limit THEN Limit ELSE Len(found))
         isMore == Len(rows) < Len(found) \/ Short # {}
     IN walk' = [walk EXCEPT !.stage = "idle", !.seen = @ \o rows, !.ended = ~isMore,
                             !.cursor = resumeAt(rows)]
  /\ UNCHANGED <<cast, inbox, held, reach, look, remembered>>

(***************************************************************************)
(* locate.                                                                 *)
(***************************************************************************)
Known == UNION {MailOf(held[b] \cup look.extra[b]) : b \in CliBoxes}

\* The conversations the ids name, by what is known of them now.
Entries == {m \in Known : \E id \in cast.ids \cap Known : Conversation[m] = Conversation[id]}

Missing == cast.ids \ Known

LiveBoxes == CliBoxes \ look.failed

holdersOf(box) ==
  \E c \in held[box] \cup look.extra[box] : c.mail \in Entries

Due == {b \in LiveBoxes \ look.asked : holdersOf(b)}

Looking == UNCHANGED <<cast, inbox, walk>>

Done == look' = [look EXCEPT !.stage = "done", !.answer = Entries]

Syncing(boxes) ==
  \E fresh \in MayBeFresh(boxes) :
    look' = [look EXCEPT !.due = boxes \ fresh, !.asked = @ \cup boxes, !.fresh = @ \cup fresh]

\* The mailboxes that hold a copy sync, and again for what those joined.
HoldersSync(stage) ==
  /\ look.stage = stage /\ look.due = {} /\ Due # {} /\ Looking
  /\ Syncing(Due)
  /\ UNCHANGED <<held, reach, remembered>>

AllSync ==
  /\ look.stage = "everyone" /\ look.due = {} /\ LiveBoxes \ look.asked # {} /\ Looking
  /\ Syncing(LiveBoxes \ look.asked)
  /\ UNCHANGED <<held, reach, remembered>>

SyncedForIds(box) ==
  /\ box \in look.due /\ Looking
  /\ Sync(box)
  /\ look' = [look EXCEPT !.due = @ \ {box}]
  /\ UNCHANGED remembered

ServerFailsIds(box) ==
  /\ look.stage # "done" /\ box \in LiveBoxes /\ walk.faults > 0
  /\ box \in look.due \/ look.stage \in {"fetch", "search"}
  /\ look' = [look EXCEPT !.due = @ \ {box}, !.failed = @ \cup {box}]
  /\ walk' = [walk EXCEPT !.faults = @ - 1]
  /\ UNCHANGED <<cast, inbox, held, reach, remembered>>

\* Where the rounds of syncing the holders end.
Named(stage, next) ==
  /\ look.stage = stage /\ look.due = {} /\ Looking
  /\ stage \in {"cached", "known"} => Due = {}
  /\ stage = "everyone" => LiveBoxes \subseteq look.asked
  /\ IF Missing = {} THEN Done
     ELSE look' = [look EXCEPT !.stage = next, !.due = {}]
  /\ UNCHANGED <<held, reach, remembered>>

\* By its uid where a search found it, while it is still that mail: a folder
\* no sync has read has no mark to fetch by.
fetchKnown ==
  /\ look.stage = "fetch" /\ Looking
  /\ look' = [look EXCEPT !.stage = "known", !.extra =
       [b \in CliBoxes |-> IF b \in LiveBoxes /\ reach[b].synced
                          THEN {e \in remembered[b] : e.mail \in Missing
                                                     /\ inbox[b][e.uid] = e.mail}
                          ELSE {}]]
  /\ UNCHANGED <<held, reach, remembered>>

\* By its Message-ID in every mailbox, remembered where it was found.
searchMessageIds ==
  LET at(b) == IF b \in LiveBoxes /\ reach[b].synced
               THEN {c \in Copies(b, Standing(b)) : c.mail \in Missing} ELSE {}
  IN /\ look.stage = "search" /\ Looking
     /\ look' = [look EXCEPT !.stage = "answer",
                   !.extra = [b \in CliBoxes |-> @[b] \cup at(b)]]
     /\ remembered' = [b \in CliBoxes |-> remembered[b] \cup at(b)]
     /\ UNCHANGED <<held, reach>>

Answers == look.stage = "answer" /\ Done /\ Looking /\ UNCHANGED <<held, reach, remembered>>

(***************************************************************************)
(* Other devices and new mail, between any two steps.                      *)
(***************************************************************************)
Changing(mails) ==
  /\ walk.changes > 0 /\ ~(walk.ended /\ look.stage = "done")
  /\ walk' = [walk EXCEPT !.changes = @ - 1, !.changed = @ \cup mails]
  /\ UNCHANGED <<cast, held, reach, look, remembered>>

ArrivesAt(box, m) ==
  /\ m \notin walk.changed /\ \A b \in CliBoxes : m \notin MailOn(b)
  /\ Changing({m})
  /\ inbox' = [inbox EXCEPT ![box] = Append(@, m)]

ExpungedAt(box, uid) ==
  /\ inbox[box][uid] # Gone
  /\ Changing({inbox[box][uid]})
  /\ inbox' = [inbox EXCEPT ![box][uid] = Gone]

CliNext ==
  \/ Call \/ OlderForPage \/ OlderFailsForPage \/ PageAnswered
  \/ \E b \in CliBoxes : \/ SyncedForPage(b) \/ SyncFailsForPage(b)
                         \/ SyncedForIds(b) \/ ServerFailsIds(b)
  \/ HoldersSync("cached") \/ Named("cached", "fetch")
  \/ fetchKnown
  \/ HoldersSync("known") \/ Named("known", "everyone")
  \/ AllSync \/ Named("everyone", "search")
  \/ searchMessageIds \/ Answers
  \/ \E b \in CliBoxes : \/ \E m \in cast.arrivals : ArrivesAt(b, m)
                         \/ \E u \in DOMAIN inbox[b] : ExpungedAt(b, u)

(***************************************************************************)
(* What the pages and the ids must come to.                                *)
(***************************************************************************)
\* The mail that stood where it is since the first page, on servers that answered every one.
SteadyMail ==
  UNION {MailOn(b) : b \in CliBoxes \ walk.lapsed} \ walk.changed

\* No page hides mail: what stood above the cursor has been shown, once.
PagesMissNothing ==
  /\ cast.job = "list" /\ walk.stage = "idle" =>
       \A m \in SteadyMail : walk.ended \/ ~isAfter(m, walk.cursor) => m \in Range(walk.seen)
  /\ \A i, j \in DOMAIN walk.seen :
       i < j => isAfter(walk.seen[j], [at |-> DateOf[walk.seen[i]], id |-> walk.seen[i]])

\* An id is found wherever a server that answered still holds its mail.
IdsAreFound ==
  cast.job = "locate" /\ look.stage = "done" =>
    \A id \in cast.ids \ walk.changed :
      \A b \in LiveBoxes : id \in MailOn(b) => id \in look.answer

\* A mailbox holding some of a conversation was asked to sync, and unless it had
\* just synced before the command, what it has of it in its window is answered.
HoldersAreCurrent ==
  cast.job = "locate" /\ look.stage = "done" =>
    \A b \in LiveBoxes :
      MailOf(held[b]) \cap look.answer # {} =>
        /\ b \in look.asked
        /\ b \in look.fresh \/
           \A m \in MailOf(Copies(b, {u \in Standing(b) : u >= reach[b].low})) \ walk.changed :
             (\E n \in look.answer : Conversation[n] = Conversation[m]) => m \in look.answer

(***************************************************************************)
(* What the command line reads is whole: pages that miss no steady mail,   *)
(* ids found on every server that answers, and conversations as their      *)
(* holders have them now.                                                  *)
(***************************************************************************)
CliReadsAreWhole == PagesMissNothing /\ IdsAreFound /\ HoldersAreCurrent

=============================================================================
