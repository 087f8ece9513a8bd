---------------------------- MODULE ServerSearch ----------------------------
(***************************************************************************)
(* The search of a person typing: one at a time, asked of every mailbox's  *)
(* server, a folder and a command at a time, over connections other work   *)
(* shares; what it found, the pages of it still named, and the rows the    *)
(* list shows of it, while mail arrives, goes and is renumbered.           *)
(*                                                                         *)
(* A mail's uid in a folder stands for the mail: uids are never reused     *)
(* under one UIDVALIDITY.  A query is a sequence of terms and the flag and *)
(* date filters; what each command answers is the constant Answers.        *)
(***************************************************************************)
EXTENDS Integers, Sequences, FiniteSets, SequencesExt, FiniteSetsExt, Functions

CONSTANTS
  Casts,        \* [boxes, folders, mail, queries, user, world, synced]
  SEARCH_HITS,  \* how many matches of a folder are read at a time
  Date,         \* [mail -> when it arrived]
  Terms,        \* [query -> Seq([commands: Seq(SUBSET Mail), known: SUBSET Mail])]
  Filter,       \* [query -> the mails its flags and dates hold for]
  HasFilter,    \* the queries with a flag or a date
  MaxAsks,      \* how often the person types, enters, retries or asks for more
  MaxEvents     \* how often the world changes

VARIABLES
  part,      \* the cast of this behaviour
  server,    \* [box -> [folder -> [uidv, mail]]]
  mark,      \* [box -> [folder -> [uidv, held]]]: the cache's window, uidv 0 before any sync
  syncing,   \* the boxes whose first sync is under way
  found,     \* [box -> set of [folder, uidv, mail]]: what searches read beyond the windows
  search,    \* what is shown of the search in hand, or NoSearch
  signal,    \* the number of the controller in hand, 0 for none
  minted,    \* the controllers made
  tasks,     \* the searches and pages under way, some of them aborted
  asks, events,
  forgot,    \* ghost: the boxes whose found mail was dropped since the search began
  changed    \* ghost: [box, folder, mail] that came, went or was renumbered since

searchVars == <<part, server, mark, syncing, found, search, signal, minted, tasks, asks, events,
                forgot, changed>>

NoSearch == [query |-> "none", phase |-> "none", asking |-> {}, answers |-> <<>>, failed |-> {},
             plan |-> {}]

Boxes == part.boxes

SearchInit ==
  /\ part \in Casts
  /\ server = [b \in Boxes |-> [f \in Range(part.folders) |->
                 [uidv |-> 1, mail |-> part.mail[b][f]]]]
  /\ mark = [b \in Boxes |-> [f \in Range(part.folders) |->
               IF part.synced THEN [uidv |-> 1, held |-> {Max(part.mail[b][f] \cup {0})} \ {0}]
               ELSE [uidv |-> 0, held |-> {}]]]
  /\ syncing = IF part.synced THEN {} ELSE Boxes
  /\ found = [b \in Boxes |-> {}]
  /\ search = NoSearch /\ signal = 0 /\ minted = 0 /\ tasks = {} /\ asks = 0 /\ events = 0
  /\ forgot = {} /\ changed = {}

(***************************************************************************)
(* What a query asks of a folder.                                          *)
(***************************************************************************)
\* The filters ride on the first term no cached attachment name widens, and
\* are a command of their own when there is none.
ConditionsOf(query, held) ==
  LET termed == [i \in DOMAIN Terms[query] |->
                   [commands |-> Terms[query][i].commands,
                    known |-> Terms[query][i].known \cap held]]
      carriers == {i \in DOMAIN termed : termed[i].known = {}}
      carrier == Min(carriers)
      carrying(commands) == [j \in DOMAIN commands |-> commands[j] \cap Filter[query]]
  IN IF query \notin HasFilter THEN termed
     ELSE IF carriers = {} THEN <<[commands |-> <<Filter[query]>>, known |-> {}]>> \o termed
     ELSE [termed EXCEPT ![carrier].commands = carrying(@)]

(***************************************************************************)
(* Tasks.  One [box, query, signal, stage, left, uidv, held, todo,         *)
(* matched, meeting, rest]: the folders left to search and the commands    *)
(* left of the conditions of the first of them.                            *)
(***************************************************************************)
\* Mutant: a superseded search is heard as long as any is in hand.
MutAborted(task) == search = NoSearch

Aborted(task) == task.signal # signal \/ search = NoSearch

Replaced(task, next) == (tasks \ {task}) \cup {next}

Newest(mails) == {m \in mails : Cardinality({n \in mails : n > m}) < SEARCH_HITS}

\* When the lowest of the hits arrived, of those read or held: null (0) when
\* nothing is left to read.
ReachedAt(hits, known, rest) ==
  LET dated == hits \cap known
  IN IF rest = {} \/ dated = {} THEN 0 ELSE Date[Min(dated)]

NewTask(box, query, sig) ==
  [box |-> box, query |-> query, signal |-> sig, stage |-> "marks", left |-> <<>>,
   scope |-> [f \in {} |-> 0], todo |-> <<>>, matched |-> {}, isFirst |-> TRUE,
   meeting |-> {}, page |-> FALSE]

\* A plan: the mailboxes a query asks, none when it asks nothing.
PlanOf(query) == part.queries[query]

(***************************************************************************)
(* The person.                                                             *)
(***************************************************************************)
Ask == asks < MaxAsks /\ asks' = asks + 1 /\ UNCHANGED <<part, server, mark, syncing, events>>

Begin(query) ==
  /\ minted' = minted + 1 /\ signal' = minted'
  /\ search' = [query |-> query, phase |-> "asking", asking |-> PlanOf(query), answers |-> <<>>,
                failed |-> {}, plan |-> PlanOf(query)]
  /\ tasks' = tasks \cup {NewTask(b, query, minted') : b \in PlanOf(query)}
  /\ forgot' = {b \in forgot : \E f \in DOMAIN mark[b] : mark[b][f].uidv = 0}
  /\ changed' = {}

\* The box's text changed: what runs is dropped, and the servers asked after a pause.
Type(query) ==
  /\ Ask /\ query # search.query
  /\ signal' = 0
  /\ search' = IF PlanOf(query) = {} THEN NoSearch
               ELSE [NoSearch EXCEPT !.query = query, !.phase = "waiting"]
  /\ UNCHANGED <<found, minted, tasks, forgot, changed>>

Paused ==
  /\ search.phase = "waiting"
  /\ Begin(search.query)
  /\ UNCHANGED <<part, server, mark, syncing, found, asks, events>>

\* Enter, or a link opened: a search under way or answered stands.
Now(query) ==
  /\ Ask
  /\ query # search.query \/ search.phase = "waiting"
  /\ UNCHANGED found
  /\ IF PlanOf(query) = {}
     THEN signal' = 0 /\ search' = NoSearch /\ UNCHANGED <<minted, tasks, forgot, changed>>
     ELSE Begin(query)

\* The list offers it once every address has answered.
Retry ==
  /\ Ask /\ search.phase = "settled" /\ search.failed # {} /\ signal # 0
  /\ search' = [search EXCEPT !.phase = "asking", !.asking = search.failed, !.failed = {}]
  /\ tasks' = tasks \cup {NewTask(b, search.query, signal) : b \in search.failed}
  /\ UNCHANGED <<found, signal, minted, forgot, changed>>

\* Each folder's newest answer, of those with more to read.
NewestAnswers(answers) ==
  {i \in DOMAIN answers :
     \A j \in DOMAIN answers :
       answers[j].box = answers[i].box /\ answers[j].folder = answers[i].folder => j <= i}

Stopping(answers) ==
  {i \in NewestAnswers(answers) : answers[i].rest # {} /\ answers[i].reachedAt # 0}

\* The folder whose read matches stop soonest, 0 when every match is read.
Frontier(answers) ==
  IF Stopping(answers) = {} THEN 0
  ELSE CHOOSE i \in Stopping(answers) :
         \A j \in Stopping(answers) : answers[j].reachedAt <= answers[i].reachedAt

More ==
  /\ Ask /\ search.phase = "settled" /\ Frontier(search.answers) # 0
  /\ LET previous == search.answers[Frontier(search.answers)]
         page == [NewTask(previous.box, search.query, signal) EXCEPT
                    !.stage = "read", !.page = TRUE, !.left = <<previous.folder>>,
                    !.scope = (previous.folder :> [uidv |-> previous.uidv,
                                  held |-> mark[previous.box][previous.folder].held]),
                    !.matched = previous.rest]
     IN tasks' = tasks \cup {page}
  /\ UNCHANGED <<found, search, signal, minted, forgot, changed>>

\* The list left for a view, or a lock, which also drops what was found.
Stop(isLock) ==
  /\ Ask /\ search # NoSearch
  /\ search' = NoSearch /\ signal' = 0
  /\ found' = IF isLock THEN [b \in Boxes |-> {}] ELSE found
  /\ forgot' = IF isLock THEN Boxes ELSE forgot
  /\ UNCHANGED <<minted, tasks, changed>>

(***************************************************************************)
(* A mailbox's search.                                                     *)
(***************************************************************************)
Run == UNCHANGED <<part, server, mark, syncing, signal, minted, asks, events, forgot, changed>>

\* What is searched is what the cache has a mark for, read before any command:
\* with a folder no sync has read yet, the sync under way is awaited first.
ReadMarks(task) ==
  /\ task.stage = "marks" /\ Run
  /\ task.box \in syncing => \A f \in DOMAIN mark[task.box] : mark[task.box][f].uidv # 0
  /\ LET inScope == SelectSeq(part.folders, LAMBDA f : mark[task.box][f].uidv # 0)
     IN tasks' = Replaced(task, [task EXCEPT !.stage = "folder", !.left = inScope,
                                  !.scope = [f \in Range(inScope) |-> mark[task.box][f]]])
  /\ UNCHANGED <<found, search>>

\* The address has answered: unheard when the search was superseded.
Answered(task, isOk) ==
  /\ tasks' = tasks \ {task}
  /\ IF Aborted(task) \/ task.page THEN UNCHANGED search
     ELSE LET asking == search.asking \ {task.box}
          IN search' = [search EXCEPT !.asking = asking,
                          !.phase = IF asking = {} THEN "settled" ELSE "asking",
                          !.failed = IF isOk THEN @ ELSE @ \cup {task.box}]

NextFolder(task) ==
  /\ task.stage = "folder" /\ Run /\ UNCHANGED found
  /\ IF task.left = <<>> \/ Aborted(task) THEN Answered(task, task.left = <<>>)
     ELSE /\ tasks' = Replaced(task, [task EXCEPT !.stage = "command", !.isFirst = TRUE,
                        !.matched = {}, !.meeting = {},
                        !.todo = ConditionsOf(task.query, task.scope[Head(task.left)].held)])
          /\ UNCHANGED search

\* Its folder as the connection finds it: renumbered or not.
IsRenumbered(task) ==
  server[task.box][Head(task.left)].uidv # task.scope[Head(task.left)].uidv

\* One command, a task of its own: a search dropped meanwhile sends no more.
Command(task) ==
  /\ task.stage = "command" /\ Run /\ UNCHANGED found
  /\ IF Aborted(task) \/ IsRenumbered(task) THEN Answered(task, FALSE)
     ELSE LET folder == Head(task.left)
              condition == Head(task.todo)
              answer == Head(condition.commands) \cap server[task.box][folder].mail
              meeting == task.meeting \cup answer
                         \cup condition.known
              matched == IF task.isFirst THEN meeting ELSE task.matched \cap meeting
              next == IF Len(condition.commands) > 1
                      THEN [task EXCEPT !.meeting = meeting, !.todo[1].commands = Tail(@)]
                      ELSE [task EXCEPT !.meeting = {}, !.todo = Tail(@), !.matched = matched,
                              !.isFirst = FALSE,
                              !.stage = IF Len(task.todo) = 1 \/ matched = {} THEN "read" ELSE @]
          IN tasks' = Replaced(task, next) /\ UNCHANGED search

\* Laid over what earlier searches found; a folder renumbered since starts again.
WithFound(had, folder, uidv, mails) ==
  {e \in had : e.folder # folder \/ e.uidv = uidv}
  \cup {[folder |-> folder, uidv |-> uidv, mail |-> m] : m \in mails}

\* The newest matches, those the cache lacks fetched: what was expunged
\* since the search is named and not there.
ReadHits(task) ==
  /\ task.stage = "read" /\ Run
  /\ LET folder == Head(task.left)
         uidv == task.scope[folder].uidv
         held == task.scope[folder].held
         hits == Newest(task.matched)
         rest == task.matched \ hits
         lacking == hits \ held
         fetched == lacking \cap server[task.box][folder].mail
         answer == [box |-> task.box, folder |-> folder, uidv |-> uidv, hits |-> hits,
                    rest |-> rest, of |-> task.query,
                    reachedAt |-> ReachedAt(hits, held \cup fetched, rest)]
     IN IF lacking # {} /\ (Aborted(task) \/ IsRenumbered(task))
        THEN Answered(task, FALSE) /\ UNCHANGED found
        ELSE /\ tasks' = IF task.page THEN tasks \ {task}
                         ELSE Replaced(task, [task EXCEPT !.stage = "folder",
                                                          !.left = Tail(@)])
             /\ IF Aborted(task) THEN UNCHANGED <<search, found>>
                ELSE /\ search' = [search EXCEPT !.answers = Append(@, answer)]
                     /\ found' = [found EXCEPT ![task.box] =
                                    WithFound(@, folder, uidv, fetched)]

\* The connection drops under a command, or refuses it.
CommandFails(task) ==
  /\ task.stage \in {"command", "read"} /\ events < MaxEvents /\ "drop" \in part.world
  /\ events' = events + 1
  /\ Answered(task, FALSE)
  /\ UNCHANGED <<part, server, mark, syncing, found, signal, minted, asks, forgot, changed>>

(***************************************************************************)
(* The world: other devices, new mail, syncs and pages of the windows.     *)
(***************************************************************************)
World(kind) ==
  /\ kind \in part.world /\ events < MaxEvents /\ events' = events + 1
  /\ UNCHANGED <<part, search, signal, minted, tasks, asks>>

Change(box, folder, mails) ==
  changed' = changed \cup {[box |-> box, folder |-> folder, mail |-> m] : m \in mails}

Expunged(box, folder, m) ==
  /\ World("expunge") /\ m \in server[box][folder].mail
  /\ server' = [server EXCEPT ![box][folder].mail = @ \ {m}]
  /\ Change(box, folder, {m})
  /\ UNCHANGED <<mark, syncing, found, forgot>>

Arrived(box, folder) ==
  LET m == 1 + Max(server[box][folder].mail \cup {0})
  IN /\ World("arrive") /\ m \in DOMAIN Date
     /\ server' = [server EXCEPT ![box][folder].mail = @ \cup {m}]
     /\ Change(box, folder, {m})
     /\ UNCHANGED <<mark, syncing, found, forgot>>

\* A folder rebuilt: its mail is the same and its numbers are not.
Renumbered(box, folder) ==
  /\ World("renumber") /\ server[box][folder].uidv = 1
  /\ server' = [server EXCEPT ![box][folder].uidv = 2]
  /\ Change(box, folder, DOMAIN Date)
  /\ UNCHANGED <<mark, syncing, found, forgot>>

\* A sync reads a folder's newest mail and what its window lost; the first
\* to meet a renumbered folder drops every folder's cache and found mail.
Synced(box) ==
  /\ \/ World("sync")
     \/ box \in syncing /\ UNCHANGED <<part, search, signal, minted, tasks, asks, events>>
  /\ LET stale == \E f \in DOMAIN mark[box] : mark[box][f].uidv \notin {0, server[box][f].uidv}
         fresh(f) == [uidv |-> server[box][f].uidv,
                      held |-> {m \in server[box][f].mail :
                                  mark[box][f].held = {} \/ m >= Min(mark[box][f].held)}]
     IN /\ mark' = [mark EXCEPT ![box] =
                      [f \in DOMAIN @ |-> IF stale THEN [uidv |-> 0, held |-> {}] ELSE fresh(f)]]
        /\ found' = IF stale THEN [found EXCEPT ![box] = {}] ELSE found
        /\ forgot' = IF stale THEN forgot \cup {box} ELSE forgot
  /\ syncing' = syncing \ {box}
  /\ UNCHANGED <<server, changed>>

\* A page of older mail, on another list's account.
OlderLoaded(box, folder) ==
  /\ World("older") /\ mark[box][folder].uidv = server[box][folder].uidv
  /\ mark' = [mark EXCEPT ![box][folder].held = @ \cup server[box][folder].mail]
  /\ UNCHANGED <<server, syncing, found, forgot, changed>>

SearchNext ==
  \/ \E q \in DOMAIN part.queries : ("type" \in part.user /\ Type(q))
                                    \/ ("now" \in part.user /\ Now(q))
  \/ Paused
  \/ "retry" \in part.user /\ Retry
  \/ "more" \in part.user /\ More
  \/ \E isLock \in BOOLEAN : "stop" \in part.user /\ Stop(isLock)
  \/ \E t \in tasks : ReadMarks(t) \/ NextFolder(t) \/ Command(t) \/ ReadHits(t)
                      \/ CommandFails(t)
  \/ \E b \in Boxes :
       \/ Synced(b)
       \/ \E f \in Range(part.folders) :
            \/ Arrived(b, f) \/ Renumbered(b, f) \/ OlderLoaded(b, f)
            \/ \E m \in server[b][f].mail : Expunged(b, f, m)

(***************************************************************************)
(* What the list shows of it.                                              *)
(***************************************************************************)
\* A mail meeting every term and filter; a server knows no attachment's name.
Matches(query, m, named) ==
  /\ \A i \in DOMAIN Terms[query] :
       \/ m \in UNION Range(Terms[query][i].commands)
       \/ named /\ m \in Terms[query][i].known
  /\ query \in HasFilter => m \in Filter[query]

Known(box, folder) ==
  mark[box][folder].held
  \cup {e.mail : e \in {x \in found[box] : x.folder = folder
                          /\ mark[box][folder].uidv \in {0, x.uidv}}}

HitsOf(box, folder) ==
  UNION {a.hits : a \in {x \in Range(search.answers) : x.box = box /\ x.folder = folder}}

RestOf(box, folder) ==
  UNION {search.answers[i].rest :
           i \in {j \in NewestAnswers(search.answers) :
                    search.answers[j].box = box /\ search.answers[j].folder = folder}}

\* Rows at or below where the soonest-stopping folder has been read stay out.
Shown(box, folder) ==
  LET at == Frontier(search.answers)
  IN {m \in Known(box, folder) \cap HitsOf(box, folder) :
        at = 0 \/ Date[m] > search.answers[at].reachedAt}

Steady(box, folder) ==
  {m \in server[box][folder].mail :
     [box |-> box, folder |-> folder, mail |-> m] \notin changed}

IsAnswered(box, folder) ==
  \E a \in Range(search.answers) : a.box = box /\ a.folder = folder

\* Nothing of another query is ever shown as this one's.
AnswersAreOfTheQuery == \A a \in Range(search.answers) : a.of = search.query

\* Every mailbox asked has answered for every folder the cache has a mark for, or failed.
SettledIsWhole ==
  search.phase = "settled" =>
    \A b \in search.plan \ search.failed : \A f \in Range(part.folders) :
      b \notin forgot => IsAnswered(b, f)

\* A match that stood all along is among the hits or still named, and no hit
\* is a mail that does not match.
NoMatchIsLost ==
  \A b \in search.plan : \A f \in Range(part.folders) :
    IsAnswered(b, f) =>
      /\ \A m \in Steady(b, f) : Matches(search.query, m, FALSE)
                                  => m \in HitsOf(b, f) \cup RestOf(b, f)
      /\ \A m \in HitsOf(b, f) \cup RestOf(b, f) : Matches(search.query, m, TRUE)

\* A hit that still stands can be opened.
HitsCanBeOpened ==
  \A b \in search.plan \ forgot : \A f \in Range(part.folders) :
    HitsOf(b, f) \cap Steady(b, f) \subseteq Known(b, f)

\* No row hides a newer match that is named and not read.
NoMatchIsHiddenAbove ==
  search.phase = "settled" =>
    \A b, c \in search.plan : \A f, g \in Range(part.folders) :
      \A row \in Shown(b, f) : \A m \in RestOf(c, g) \ HitsOf(c, g) :
        m \in Steady(c, g) => Date[m] <= Date[row]

(***************************************************************************)
(* A search finds its mail: only its own answers, every mailbox accounted  *)
(* for once settled, every steady match read or still named, nothing else  *)
(* taken for one, and no row above a match not read yet.                   *)
(***************************************************************************)
SearchesFindTheirMail ==
  /\ AnswersAreOfTheQuery
  /\ SettledIsWhole
  /\ NoMatchIsLost
  /\ HitsCanBeOpened
  /\ NoMatchIsHiddenAbove

=============================================================================
