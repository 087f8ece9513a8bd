--------------------------- MODULE Conversations ---------------------------
(***************************************************************************)
(* The conversations of one client while its copies of mail change under   *)
(* them: syncs and pages read copies in and drop them, other devices       *)
(* refile and flag them, searches find copies beyond the windows, and the  *)
(* reader opens links that must keep naming what they named.               *)
(***************************************************************************)
EXTENDS Threading

CONSTANTS
  Casts,     \* the worlds explored: [pool, drafts, marks]
  MaxSteps   \* how many changes a behaviour makes

VARIABLES
  world,   \* the cast of this behaviour: the copies there may be, and the vault's drafts
  cached,  \* the copies the syncs keep, of every mailbox
  extra,   \* the copies searches found
  links,   \* [id, mail]: the links taken to conversations, by a mail they held
  steps

threadVars == <<world, cached, extra, links, steps>>

Threads == GroupThreads(cached, extra, world.marks)

ThreadInit ==
  /\ world \in Casts
  /\ cached \in SUBSET world.pool
  /\ extra = {} /\ links = {} /\ steps = 0

Step == steps < MaxSteps /\ steps' = steps + 1 /\ UNCHANGED world

IsFree(copy) == ~\E c \in cached : SamePlace(c, copy)

\* A pass, a page or a refreshed list holds another copy, or one no more.
ReadIn(copy) ==
  /\ Step /\ copy \notin cached /\ IsFree(copy)
  /\ cached' = cached \cup {copy} /\ UNCHANGED <<extra, links>>

GoneFrom(copy) ==
  /\ Step /\ copy \in cached
  /\ cached' = cached \ {copy} /\ UNCHANGED <<extra, links>>

\* A search found a copy the cache lacks, with the flags it had then.
FoundCopy(copy) ==
  /\ Step /\ IsServerCopy(copy) /\ IsFree(copy)
  /\ extra' = WithFound(extra, copy)
  /\ UNCHANGED <<cached, links>>

\* This client's own write reached a found copy.
FoundFlagged(copy, isOn) ==
  /\ Step /\ copy \in extra
  /\ extra' = FoundAfterFlag(extra, copy, "seen", isOn)
  /\ UNCHANGED <<cached, links>>

Reflagged(copy, flag) ==
  /\ Step /\ copy \in cached /\ IsServerCopy(copy)
  /\ LET flags == IF flag \in copy.flags THEN copy.flags \ {flag} ELSE copy.flags \cup {flag}
     IN cached' = (cached \ {copy}) \cup {[copy EXCEPT !.flags = flags]}
  /\ UNCHANGED <<extra, links>>

\* A move gives the copy a new number in the folder it goes to.
Moved(copy, to) == [copy EXCEPT !.folder = to, !.uid = @ + 10]

Refiled(copy, to) ==
  /\ Step /\ copy \in cached /\ IsServerCopy(copy) /\ to # copy.folder /\ copy.uid < 10
  /\ IsFree(Moved(copy, to))
  /\ cached' = (cached \ {copy}) \cup {Moved(copy, to)}
  /\ UNCHANGED <<extra, links>>

FoundMoved(copy, to) ==
  /\ Step /\ copy \in extra /\ to # copy.folder /\ copy.uid < 10
  /\ \E placed \in {{}, {Moved(copy, to)}} : extra' = FoundAfterMove(extra, copy, placed)
  /\ UNCHANGED <<cached, links>>

LinkTaken(thread, copy) ==
  /\ Step /\ copy \in HeldIn(thread)
  /\ \E m \in thread.messages :
       /\ copy \in m.copies /\ m.id[1] = "mid"
       /\ links' = links \cup {[id |-> m.id, mail |-> copy.mail]}
  /\ UNCHANGED <<cached, extra>>

ThreadNext ==
  \/ \E copy \in world.pool : ReadIn(copy) \/ FoundCopy(copy)
  \/ \E copy \in cached :
       \/ GoneFrom(copy)
       \/ Reflagged(copy, "seen")
       \/ \E to \in {"archive", "trash"} : Refiled(copy, to)
  \/ \E copy \in extra : FoundFlagged(copy, TRUE) \/ FoundMoved(copy, "archive")
  \/ \E t \in Threads : \E copy \in HeldIn(t) : LinkTaken(t, copy)

(***************************************************************************)
(* What the grouping must come to.                                         *)
(***************************************************************************)
\* Every copy at hand, the found one where both are, in one message of one
\* thread: nothing is lost, nothing is shown twice.
EveryCopyOnce(threads) ==
  /\ \A c \in cached \cup extra : \E t \in threads : \E k \in HeldIn(t) : SamePlace(c, k)
  /\ \A s, t \in threads : \A m \in s.messages, n \in t.messages :
       m.copies \cap n.copies # {} => s = t /\ m = n

\* Two mails sharing a Message-ID that differ in sender, date or subject are two messages.
SameMail(c, d) ==
  LET h == HeaderOf(c)  g == HeaderOf(d)
  IN h.mid # NoId /\ h.mid = g.mid /\ h.from = g.from /\ h.date = g.date /\ h.base = g.base

OneMessagePerMail(threads) ==
  LET copies == UNION {HeldIn(t) : t \in threads} IN
  \A t \in threads : \A m \in t.messages : \A c \in m.copies, d \in copies :
    d \in m.copies <=> c = d \/ SameMail(c, d)

\* The leading copy of a message is the one its keys are read from.
LeadOf(message) == CHOOSE c \in message.copies : \A d \in message.copies : c = d \/ Before(c, d)

Related(m, n) == KeysOf(LeadOf(m)) \cap KeysOf(LeadOf(n)) # {}

\* One conversation: exactly the messages a chain of shared keys joins.
OneThreadPerConversation(threads) ==
  LET all == UNION {t.messages : t \in threads}
      joined == ReflexiveTransitiveClosure(
                  [e \in all \X all |-> Related(e[1], e[2])], all)
  IN \A t \in threads : \A m \in t.messages : \A n \in all :
       n \in t.messages <=> joined[<<m, n>>]

\* An id names one message, and a thread is named by a message of its own.
IdsAreNames(threads) ==
  \A t \in threads :
    /\ t.id \in {m.id : m \in t.messages}
    /\ \A m \in t.messages : ThreadByHandle(threads, m.id) = {t}

\* A link keeps opening its mail, wherever it has been moved, until another
\* message under the same Message-ID makes the name ambiguous.
LinksStillOpen(threads) ==
  \A link \in links :
    LET all == UNION {HeldIn(t) : t \in threads}
        copies == {c \in all : c.mail = link.mail}
        rivals == {c \in all : <<"mid", HeaderOf(c).mid>> = link.id /\
                                  \E d \in copies : ~SameMail(c, d)}
    IN copies # {} /\ rivals = {}
       => \E t \in ThreadByHandle(threads, link.id) : copies \subseteq HeldIn(t)

\* What a pending move shows is what the folders are once the server made it.
AfterMove(mailbox, thread, to) ==
  {IF c.mailbox = mailbox /\ c.folder \in MOVE_SOURCES[to] THEN Moved(c, to) ELSE c :
     c \in HeldIn(thread)}

MovesShowWhatTheyDo(threads) ==
  \A t \in threads : \A b \in DOMAIN t.byMailbox : \A to \in DOMAIN MOVE_SOURCES :
    CanMoveTo(t.byMailbox[b], to) /\ (\A c \in HeldIn(t) : IsServerCopy(c))
    => LET shown == ApplyMove(t, b, to)
           after == AfterMove(b, t, to)
       IN /\ shown.folders = FoldersOf(after)
          /\ \A o \in DOMAIN shown.byMailbox :
               shown.byMailbox[o] = FoldersOf({c \in after : c.mailbox = o})

\* What a pending flag shows is what the flags are once every server copy has it.
Flagged(copy, flag, value) ==
  IF ~IsServerCopy(copy) THEN copy
  ELSE [copy EXCEPT !.flags = IF value THEN @ \cup {flag} ELSE @ \ {flag}]

FlagsShowWhatTheyDo(threads) ==
  \A t \in threads : \A value \in BOOLEAN :
    (\E c \in HeldIn(t) : IsServerCopy(c)) =>
      /\ ApplyFlag(t, "isUnread", value).flags
           = FlagsOf({Flagged(c, "seen", ~value) : c \in HeldIn(t)})
      /\ ApplyFlag(t, "isStarred", value).flags
           = FlagsOf({Flagged(c, "flagged", value) : c \in HeldIn(t)})

\* While it is pending, a search for read or unread mail shows what it will show.
Written(thread, isUnread) ==
  LET written(c) == Flagged(c, "seen", ~isUnread)
      messages == {[m EXCEPT !.copies = {written(c) : c \in @}] : m \in thread.messages}
  IN [thread EXCEPT !.messages = messages, !.flags.isUnread = isUnread]

SearchesHeedPendingFlags(threads) ==
  \A t \in threads : (\A c \in HeldIn(t) : IsServerCopy(c)) =>
    \A m \in DOMAIN Header :
      LET value == ~t.flags.isUnread
      IN ThreadMatches({m}, TRUE, ApplyFlag(t, "isUnread", value))
           = ThreadMatches({m}, TRUE, Written(t, value))

\* No mail of a window is out of every view, a mailbox's is in the unified
\* one, and a view lists what its query says it does.
InScope(threads, folders) ==
  {t \in threads : ~t.isFoundOnly /\ IsThreadInScope(folders, {}, TRUE, t)}

ViewsMissNothing(threads) ==
  /\ InScope(threads, {"inbox"}) = ThreadsIn(threads, <<"unified">>)
  /\ InScope(threads, {"archive"}) = ThreadsIn(threads, <<"archive">>)
  /\ InScope(threads, {"trash"}) = ThreadsIn(threads, <<"trash">>)
  /\ InScope(threads, Folder \ {"trash"}) \cup ThreadsIn(threads, <<"trash">>)
       = {t \in threads : ~t.isFoundOnly}
  /\ \A t \in threads :
       t.isFoundOnly \/ (\E v \in {"unified", "archive", "sent", "trash"} : ViewShows(<<v>>, t))
  /\ \A b \in DOMAIN world.marks : 
       ThreadsIn(threads, <<"mailbox", b>>) \subseteq ThreadsIn(threads, <<"unified">>)

\* Mail only a search found never fills a view, mail of the windows always may.
FoundMailIsNotListed(threads) ==
  \A t \in threads :
    t.isFoundOnly <=> \A c \in HeldIn(t) : IsServerCopy(c)
                                           /\ ~\E k \in cached : SamePlace(c, k)

DraftsAreSeenOnce(threads) ==
  LET listed == FoldSet(LAMBDA draft, ts : WithDraft(ts, draft), threads, world.drafts) IN
  \A draft \in world.drafts :
    /\ Cardinality({t \in listed : \E m \in t.messages : m.id = <<"draft", draft.key>>}) = 1
    /\ \A t \in threads : \E s \in listed : t.messages \subseteq s.messages

(***************************************************************************)
(* Conversations are what the headers say: no copy is lost or shown twice, *)
(* exactly the chained messages share a thread, ids and links name what    *)
(* they named, and an unconfirmed move shows what it will have done.       *)
(***************************************************************************)
ConversationsAreRight == \A threads \in {Threads} :
  /\ EveryCopyOnce(threads)
  /\ OneMessagePerMail(threads)
  /\ OneThreadPerConversation(threads)
  /\ IdsAreNames(threads)
  /\ LinksStillOpen(threads)
  /\ MovesShowWhatTheyDo(threads)
  /\ FlagsShowWhatTheyDo(threads)
  /\ SearchesHeedPendingFlags(threads)
  /\ ViewsMissNothing(threads)
  /\ FoundMailIsNotListed(threads)
  /\ DraftsAreSeenOnce(threads)

=============================================================================
