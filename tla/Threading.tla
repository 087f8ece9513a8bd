----------------------------- MODULE Threading -----------------------------
(***************************************************************************)
(* How physical copies of mail become the conversations a client shows:    *)
(* copies collapse into messages, messages group into threads by           *)
(* union-find over shared keys, found mail and drafts are laid over them,  *)
(* and pending moves over that.                                            *)
(*                                                                         *)
(* A copy is [mailbox, folder, uidv, uid, at, mail, flags]: where it is,   *)
(* when it arrived there, which mail it is and its flags.  The headers of  *)
(* a mail are the constant Header: its Message-ID (NoId for none), From,     *)
(* Date, base subject, the ids it refers to and Gmail's thread number.     *)
(***************************************************************************)
EXTENDS Integers, Sequences, FiniteSets, SequencesExt, Functions, Relation

CONSTANTS
  Header,     \* [mail -> [mid, from, date, base, refs, thrid]]
  OddIds,   \* the Message-IDs that are not printable ASCII of a sane length
  NoId      \* no Message-ID, no Gmail thread

FOLDERS == <<"inbox", "sent", "archive", "trash", "drafts">>

Folder == Range(FOLDERS)

FolderRank == [f \in Folder |-> CHOOSE i \in DOMAIN FOLDERS : FOLDERS[i] = f]

\* A copy no server holds: sent mail kept in the vault or by this tab.
VAULT_UID_VALIDITY == 0

IsServerCopy(copy) == copy.uidv # VAULT_UID_VALIDITY

PhysicalId(copy) == <<"copy", copy.mailbox, copy.folder, copy.uidv, copy.uid>>

HeaderOf(copy) == Header[copy.mail]

(***************************************************************************)
(* Copies into messages.                                                   *)
(***************************************************************************)
\* A copy with no Message-ID is its own message.
Fingerprint(copy) ==
  LET h == HeaderOf(copy)
  IN IF h.mid = NoId THEN PhysicalId(copy) ELSE <<"print", h.mid, h.from, h.date, h.base>>

\* Oldest first, ties by folder and then by place.
Before(a, b) ==
  LET place(c) == <<c.at, FolderRank[c.folder], c.mailbox, c.uidv, c.uid>>
      first == {i \in 1..5 : place(a)[i] # place(b)[i]}
  IN first # {} /\ LET i == CHOOSE j \in first : \A k \in first : j <= k
                   IN place(a)[i] < place(b)[i]

\* The messages, by their leading copy, with all the copies of each.
Merge(copies) ==
  LET add(merged, copy) ==
        LET same == {i \in DOMAIN merged : Fingerprint(merged[i].lead) = Fingerprint(copy)}
        IN IF same = {} THEN Append(merged, [lead |-> copy, copies |-> {copy}])
           ELSE [merged EXCEPT ![CHOOSE i \in same : TRUE].copies = @ \cup {copy}]
  IN FoldLeft(add, <<>>, SetToSortSeq(copies, Before))

\* `mid/` is a name only when it names one message.
IdOf(merged, i) ==
  LET mid == HeaderOf(merged[i].lead).mid
      others == {j \in DOMAIN merged \ {i} : HeaderOf(merged[j].lead).mid = mid}
  IN IF mid # NoId /\ others = {} /\ mid \notin OddIds THEN <<"mid", mid>>
     ELSE PhysicalId(merged[i].lead)

Namesakes(merged, i) == {j \in DOMAIN merged : IdOf(merged, j) = IdOf(merged, i)}

\* A later entry under the same id takes the earlier one's place, and stands where that stood.
ById(merged) ==
  LET places == {i \in DOMAIN merged : \A j \in Namesakes(merged, i) : i <= j}
  IN [i \in places |->
        [id |-> IdOf(merged, i),
         entry |-> merged[CHOOSE j \in Namesakes(merged, i) : \A k \in Namesakes(merged, i) : k <= j]]]

(***************************************************************************)
(* Messages into threads.                                                  *)
(***************************************************************************)
KeysOf(copy) ==
  LET h == HeaderOf(copy)
  IN {<<"header", h.base, id>> : id \in (h.refs \cup {h.mid}) \ {NoId}}
     \cup (IF h.thrid = NoId THEN {} ELSE {<<"gmail", copy.mailbox, h.thrid>>})

\* A root is its own parent, and a parent never comes later than its child.
RootIn(parent) ==
  LET root[i \in DOMAIN parent] == IF parent[i] = i THEN i ELSE root[parent[i]]
  IN root

\* Mutant: joins the two messages, not the roots of their trees.
MutUnion(parent, a, b) == IF a <= b THEN [parent EXCEPT ![b] = a] ELSE [parent EXCEPT ![a] = b]

Union(parent, a, b) ==
  LET ra == RootIn(parent)[a]  rb == RootIn(parent)[b]
  IN IF ra <= rb THEN [parent EXCEPT ![rb] = ra] ELSE [parent EXCEPT ![ra] = rb]

\* The first message seen with a key, and every later one is joined to it.
Link(forest, i, key) ==
  IF key \in DOMAIN forest.first
  THEN [forest EXCEPT !.parent = Union(@, forest.first[key], i)]
  ELSE [forest EXCEPT !.first = [k \in DOMAIN @ \cup {key} |-> IF k = key THEN i ELSE @[k]]]

GroupIntoThreads(byId) ==
  LET held == DOMAIN byId
      link(forest, i) ==
        FoldLeft(LAMBDA f, key : Link(f, i, key), forest,
                 SetToSeq(KeysOf(byId[i].entry.lead)))
      start == [parent |-> [i \in held |-> i], first |-> [k \in {} |-> 0]]
  IN RootIn(FoldLeft(link, start, SetToSortSeq(held, LAMBDA i, j : i < j)).parent)

FoldersOf(copies) == {c.folder : c \in copies}

\* Per copy: read in one mailbox, a message is still unread in the other.
FlagsOf(copies) ==
  [isUnread  |-> \E c \in copies : "seen" \notin c.flags,
   isStarred |-> \E c \in copies : "flagged" \in c.flags,
   isReplied |-> \E c \in copies : "answered" \in c.flags]

ThreadsFromMailboxes(copies) ==
  LET byId == ById(Merge(copies))
      root == GroupIntoThreads(byId)
      thread(r) ==
        LET members == {i \in DOMAIN root : root[i] = r}
            all == UNION {byId[i].entry.copies : i \in members}
        IN [id |-> byId[r].id,
            messages |-> {[id |-> byId[i].id, copies |-> byId[i].entry.copies] : i \in members},
            flags |-> FlagsOf(all),
            folders |-> FoldersOf(all),
            byMailbox |-> [b \in {c.mailbox : c \in all} |->
                             FoldersOf({c \in all : c.mailbox = b})],
            isFoundOnly |-> FALSE]
  IN {thread(r) : r \in Range(root)}

HeldIn(thread) == UNION {m.copies : m \in thread.messages}

\* Its own id first, else the id of any message in it.
ThreadByHandle(threads, handle) ==
  LET own == {t \in threads : t.id = handle}
      within == {t \in threads : \E m \in t.messages : m.id = handle}
  IN IF own # {} THEN own ELSE within

(***************************************************************************)
(* What searches found, laid over what the syncs keep.                     *)
(***************************************************************************)
SamePlace(a, b) == a.mailbox = b.mailbox /\ a.folder = b.folder /\ a.uid = b.uid

\* The found copy's flags cover the cached one's; a folder renumbered since
\* keeps what the sync read, and one never read (mark 0) has nothing to keep.
WithExtra(cached, extra, marks) ==
  LET renumbered(e) == marks[e.mailbox][e.folder] \notin {0, e.uidv}
      laid == {e \in extra : ~renumbered(e)}
  IN laid \cup {c \in cached : ~\E e \in laid : SamePlace(c, e)}

\* Laid over what earlier searches found; a folder renumbered since starts again.
WithFound(found, read) ==
  {e \in found : ~SamePlace(e, read) /\
                 (e.mailbox = read.mailbox /\ e.folder = read.folder => e.uidv = read.uidv)}
  \cup {read}

\* Found mail is no sync's to refresh: a write that reached it says what it is now.
FoundAfterFlag(found, copy, flag, isOn) ==
  (found \ {copy})
  \cup {[copy EXCEPT !.flags = IF isOn THEN @ \cup {flag} ELSE @ \ {flag}]}

\* One the server did not place is gone until it is found again.
FoundAfterMove(found, copy, placed) == (found \ {copy}) \cup placed

\* No copy of it is in a window the syncs keep: no view lists it.
MarkFoundOnly(threads, cached, extra) ==
  LET beyond(c) == (\E e \in extra : SamePlace(c, e)) /\ ~\E k \in cached : SamePlace(c, k)
  IN {[t EXCEPT !.isFoundOnly = \A c \in HeldIn(t) : beyond(c)] : t \in threads}

GroupThreads(cached, extra, marks) ==
  MarkFoundOnly(ThreadsFromMailboxes(WithExtra(cached, extra, marks)), cached, extra)

(***************************************************************************)
(* Writes the server has not confirmed, laid over the conversations.       *)
(***************************************************************************)
MOVE_SOURCES == [archive |-> {"inbox"}, trash |-> {"inbox", "sent", "archive"},
                 inbox |-> {"archive", "trash"}]

CanMoveTo(folders, to) == MOVE_SOURCES[to] \cap folders # {}

FoldersAfterMove(folders, to) == {to} \cup (folders \ MOVE_SOURCES[to])

\* A move reaches its own mailbox's copies only.
ApplyMove(thread, mailbox, to) ==
  IF mailbox \notin DOMAIN thread.byMailbox THEN thread
  ELSE LET by == [thread.byMailbox EXCEPT ![mailbox] = FoldersAfterMove(@, to)]
       IN [thread EXCEPT !.byMailbox = by, !.folders = UNION Range(by)]

ApplyFlag(thread, key, value) == [thread EXCEPT !.flags[key] = value]

(***************************************************************************)
(* Views: a named one, or one mailbox's.                                   *)
(***************************************************************************)
IsArchived(thread) == "archive" \in thread.folders /\ "inbox" \notin thread.folders

IsTrashed(thread) == thread.folders # {} /\ thread.folders \subseteq {"trash"}

ViewShows(view, thread) ==
  /\ ~thread.isFoundOnly
  /\ CASE view = <<"unified">> -> "inbox" \in thread.folders
       [] view = <<"starred">> -> thread.flags.isStarred /\ ~IsTrashed(thread)
       [] view = <<"archive">> -> IsArchived(thread)
       [] view = <<"sent">>    -> "sent" \in thread.folders /\ ~IsTrashed(thread)
       [] view = <<"trash">>   -> "trash" \in thread.folders
       [] OTHER -> /\ view[1] = "mailbox" /\ view[2] \in DOMAIN thread.byMailbox
                   /\ "inbox" \in thread.byMailbox[view[2]]

ThreadsIn(threads, view) == {t \in threads : ViewShows(view, t)}

\* A folder of the scope holds some of it, in a mailbox of the scope.  Archive
\* means filed away, not merely a copy there.
HoldsFolder(folders, folder) ==
  folder \in folders /\ (folder = "archive" => "inbox" \notin folders)

IsThreadInScope(folders, mailboxes, isEveryMailbox, thread) ==
  LET holds(held) == \E f \in folders : HoldsFolder(held, f)
  IN IF isEveryMailbox THEN holds(thread.folders)
     ELSE \E b \in mailboxes \cap DOMAIN thread.byMailbox : holds(thread.byMailbox[b])

\* A query for one of some mails, perhaps unread: one message holds it all.
\* A write still pending shows on the conversation alone, which decides first.
ThreadMatches(mails, isUnread, thread) ==
  LET unread(m) == \E c \in m.copies : "seen" \notin c.flags
      asks == isUnread /\ \E m \in thread.messages : unread(m)
  IN /\ isUnread => thread.flags.isUnread
     /\ \E m \in thread.messages : (asks => unread(m)) /\ \E c \in m.copies : c.mail \in mails

(***************************************************************************)
(* Drafts.  A draft is [key, thread, reply]: the conversation its record   *)
(* names and the Message-ID it answers, NoId for none.                     *)
(***************************************************************************)
ParentOf(threads, draft) ==
  LET named == {t \in threads : t.id = draft.thread}
      answered == {t \in threads : \E m \in t.messages : \E c \in m.copies :
                     draft.reply # NoId /\ HeaderOf(c).mid = draft.reply}
  IN IF named # {} THEN named ELSE answered

WithDraft(threads, draft) ==
  LET parents == ParentOf(threads, draft)
      parent == CHOOSE t \in parents : TRUE
      message == [id |-> <<"draft", draft.key>>, copies |-> {}]
      alone == [id |-> <<"draft", draft.key>>, messages |-> {message}, folders |-> {"drafts"},
                flags |-> [isUnread |-> FALSE, isStarred |-> FALSE, isReplied |-> FALSE],
                byMailbox |-> [b \in {} |-> {}], isFoundOnly |-> FALSE]
  IN IF parents = {} THEN threads \cup {alone}
     ELSE (threads \ {parent})
          \cup {[parent EXCEPT !.messages = @ \cup {message}, !.folders = @ \cup {"drafts"},
                               !.isFoundOnly = FALSE]}

=============================================================================
