----------------------------- MODULE MCReading -----------------------------
(***************************************************************************)
(* Small worlds of mail to read: conversations of nine mails with hard     *)
(* headers, searches over one or two mailboxes, and the command line's     *)
(* lists, ids, waits and logins.  What a behaviour is about is chosen      *)
(* first.                                                                  *)
(***************************************************************************)
EXTENDS Conversations, CliLogin, TLC

Mail(mid, from, date, base, refs, thrid) ==
  [mid |-> mid, from |-> from, date |-> date, base |-> base, refs |-> refs, thrid |-> thrid]

AllHeaders ==
  [root   |-> Mail("A", "ann", 1, "s", {}, "no"),
   reply  |-> Mail("B", "bob", 2, "s", {"A"}, "no"),
   fork   |-> Mail("C", "bob", 3, "t", {"A", "B"}, "no"),
   late   |-> Mail("D", "cid", 4, "s", {"Z"}, "no"),
   bridge |-> Mail("Z", "ann", 2, "s", {"B"}, "no"),
   double |-> Mail("A", "eve", 3, "s", {}, "no"),
   plain  |-> Mail("no", "ann", 2, "u", {}, "g1"),
   gmail  |-> Mail("H", "bob", 3, "v", {}, "g1"),
   odd    |-> Mail("odd", "bob", 2, "s", {"A"}, "no")]

Copy(mailbox, folder, uid, at, mail, flags) ==
  [mailbox |-> mailbox, folder |-> folder, uidv |-> 1, uid |-> uid, at |-> at, mail |-> mail,
   flags |-> flags]

InVault(mailbox, at, mail) == [Copy(mailbox, "sent", 0, at, mail, {"seen"}) EXCEPT !.uidv = 0]

Marks == [b \in {1, 2} |-> [f \in Folder |-> 1]]

World(pool, drafts) == [pool |-> pool, drafts |-> drafts, marks |-> Marks]

AllCasts == {
  \* one conversation over two mailboxes, with your own copy in Sent and in the vault
  World({Copy(1, "inbox", 1, 1, "root", {}), Copy(2, "inbox", 1, 1, "root", {"seen"}),
         Copy(1, "sent", 1, 2, "reply", {"seen"}), InVault(1, 2, "reply"),
         Copy(1, "inbox", 2, 3, "fork", {})},
        {[key |-> "k", thread |-> <<"mid", "A">>, reply |-> "no"]}),
  \* an answer whose parent is backfilled after it
  World({Copy(1, "inbox", 1, 1, "root", {}), Copy(1, "inbox", 2, 2, "reply", {}),
         Copy(1, "inbox", 3, 2, "bridge", {}), Copy(1, "inbox", 4, 4, "late", {})},
        {[key |-> "k", thread |-> <<"none">>, reply |-> "Z"]}),
  \* a Message-ID used twice, and one no id may carry
  World({Copy(1, "inbox", 1, 1, "root", {}), Copy(1, "inbox", 2, 3, "double", {}),
         Copy(2, "inbox", 1, 3, "double", {}), Copy(1, "archive", 1, 2, "odd", {})},
        {[key |-> "k", thread |-> <<"none">>, reply |-> "A"]}),
  \* Gmail's own threads, in two mailboxes that use the same number
  World({Copy(1, "inbox", 1, 2, "plain", {}), Copy(1, "inbox", 2, 3, "gmail", {}),
         Copy(2, "inbox", 1, 2, "plain", {}), Copy(2, "archive", 2, 3, "gmail", {})}, {})}

(***************************************************************************)
(* The search box.  Query "two" has two terms, the first of two commands;  *)
(* query "new" is of unread mail with a word a cached attachment's name    *)
(* may hold; "all" only names a view, and asks nothing.                    *)
(***************************************************************************)
MCTerms ==
  [two |-> <<[commands |-> <<{1, 2, 4, 7}, {3, 5, 6}>>, known |-> {}],
             [commands |-> <<1..7>>, known |-> {}]>>,
   new |-> <<[commands |-> <<{2, 3}>>, known |-> {5, 4}],
             [commands |-> <<{2, 4, 5}, {3}>>, known |-> {}]>>,
   all |-> <<>>]

MCFilter == [two |-> {}, new |-> {2, 5, 7}, all |-> {}]

SearchCast(boxes, mail, queries, user, changes, synced) ==
  [boxes |-> boxes, folders |-> IF \E b \in boxes : mail[b].archive # {}
                                THEN <<"inbox", "archive">> ELSE <<"inbox">>,
   mail |-> mail, queries |-> queries, user |-> user, world |-> changes, synced |-> synced]

Holds(inbox, archive) == [inbox |-> inbox, archive |-> archive]

Asking(boxes) == [two |-> boxes, new |-> boxes, all |-> {}]

SearchCasts == {
  SearchCast({1}, (1 :> Holds({1, 2, 4, 5}, {})), Asking({1}), {"type", "now", "more"}, {"expunge"},
             TRUE),
  SearchCast({1}, (1 :> Holds({1, 2, 3, 5}, {})), Asking({1}), {"now", "stop"},
             {"arrive", "sync", "older"}, FALSE),
  SearchCast({1}, (1 :> Holds({1, 3, 5}, {2, 4})), [two |-> {1}], {"now", "more"},
             {"renumber", "sync", "older"}, TRUE),
  SearchCast({1, 2}, (1 :> Holds({1, 3, 5}, {})) @@ (2 :> Holds({2, 4, 6}, {})),
             [two |-> {1, 2}], {"now", "retry", "more"}, {"drop"}, TRUE)}

(***************************************************************************)
(* The command line.  Four lists and ids, and three waits.                 *)
(***************************************************************************)
CliCast(job, boxes, window, ids, rest) ==
  [job |-> job, inbox |-> boxes, window |-> window, ids |-> ids, calls |-> 5,
   synced |-> IF job = "list" THEN {} ELSE rest.synced,
   unread |-> IF job = "list" THEN {} ELSE rest.unread, remembered |-> rest.remembered,
   arrivals |-> rest.arrivals, faults |-> rest.faults, changes |-> rest.changes]

At(uid, mail) == [uid |-> uid, mail |-> mail]

MCCliCasts == {
  CliCast("list", << <<1, 3, 5, 7, 8>>, <<2, 4, 6>> >>, 1, {},
          [remembered |-> <<{}, {}>>, arrivals |-> {9}, faults |-> 1, changes |-> 1]),
  \* a mail moved in, the newest of its folder and one of the oldest by date
  CliCast("list", << <<1, 3, 5, 2>>, <<4, 6>> >>, 2, {},
          [remembered |-> <<{}, {}>>, arrivals |-> {}, faults |-> 0, changes |-> 0]),
  CliCast("locate", << <<1, 3, 5>>, <<2, 4, 6>>, <<7>> >>, 1, {1, 6},
          [synced |-> {1, 2}, unread |-> {}, remembered |-> <<{At(1, 1)}, {}, {}>>,
           arrivals |-> {8}, faults |-> 1, changes |-> 1]),
  \* a copy remembered where other mail is now
  CliCast("locate", << <<1, 3, 5>>, <<3, 4, 6>> >>, 1, {3},
          [synced |-> {1, 2}, unread |-> {}, remembered |-> <<{}, {At(1, 3), At(2, 1)}>>,
           arrivals |-> {8}, faults |-> 2, changes |-> 1]),
  \* mail no cache has yet, one of it asked for, over caches that may count as fresh
  CliCast("locate", << <<1, 3, 5>>, <<2, 4, 7, 6>> >>, 1, {2, 6},
          [synced |-> {1, 2}, unread |-> {5, 7, 6}, remembered |-> <<{}, {}>>,
           arrivals |-> {}, faults |-> 1, changes |-> 0])}

WaitCast(inbox, held, arrivals, changes, n) ==
  [boxes |-> DOMAIN inbox, inbox |-> inbox, held |-> held, arrivals |-> arrivals,
   world |-> changes, events |-> n]

\* Mail 3 is held in an archive, and comes back; mail 4 matches by a word of its body.
\* In the last, mail 2 is old and no cache has it.
MCWaitCasts == {
  WaitCast(<< <<1>>, <<>> >>, {1, 3}, {2, 3, 4}, {"drop"}, 4),
  WaitCast(<< <<1>>, <<1>> >>, {1}, {2, 4}, {"fail"}, 3),
  WaitCast(<< <<1, 2>> >>, {1}, {3, 4}, {"renumber"}, 3)}

Creds(key, account, pair) == [key |-> key, user |-> account, pair |-> pair]
NoFile == Creds("none", "nobody", "nobody")
Held   == Creds("k0", "ann", "earlier")
Other  == Creds("k1", "bob", "another")

\* What two runs of the CLI are for over a credentials file, and the tabs beside them.
Scene(one, two, onDisk, tabs) ==
  [does |-> [one |-> one, two |-> two], file |-> onDisk, tabs |-> tabs, env |-> "nobody",
   envLogin |-> NoFile, account |-> "ann", fresh |-> TRUE, lossy |-> FALSE, times |-> FALSE,
   locks |-> FALSE, again |-> FALSE, settings |-> FALSE, purges |-> FALSE, revoked |-> {}]

Both == {"left", "right"}

MCLoginCasts == {
  [Scene("login", "login", NoFile, Both) EXCEPT !.times = TRUE, !.again = TRUE],
  [Scene("login", "login", Held, {"left"}) EXCEPT !.lossy = TRUE],
  [Scene("login", "logout", Held, {"left"}) EXCEPT !.settings = TRUE],
  [Scene("logout", "run", Held, {}) EXCEPT !.lossy = TRUE, !.settings = TRUE],
  [Scene("login", "run", Held, {"left"}) EXCEPT !.purges = TRUE, !.settings = TRUE],
  [Scene("login", "none", NoFile, {"left"}) EXCEPT !.locks = TRUE, !.fresh = FALSE],
  [Scene("login", "logout", Held, {"left"}) EXCEPT !.env = "two", !.envLogin = Held],
  [Scene("login", "run", Held, {"left"}) EXCEPT !.env = "one", !.envLogin = Held, !.times = TRUE],
  [Scene("login", "logout", Held, {"left"}) EXCEPT !.env = "two", !.envLogin = Other, !.revoked = {"k0"}],
  [Scene("login", "run", Held, {"left"}) EXCEPT !.env = "two", !.envLogin = Other, !.lossy = TRUE],
  [Scene("login", "logout", NoFile, {"left"}) EXCEPT !.env = "one", !.envLogin = Other]}

VARIABLES about, part, server, mark, syncing, found, search, signal, minted, tasks, asks, events, forgot,
          changed, cast, inbox, held, reach, walk, look, remembered, caller, inboxes, starts, reached,
          arrived, round, dropped, failed, happened, judged

searchVars == <<part, server, mark, syncing, found, search, signal, minted, tasks, asks, events,
                forgot, changed>>

cliVars == <<cast, inbox, held, reach, walk, look, remembered>>

waitVars == <<caller, inboxes, starts, reached, arrived, round, dropped, failed, happened, judged>>

Search == INSTANCE ServerSearch
  WITH Casts <- SearchCasts, SEARCH_HITS <- 2, Date <- [m \in 1..7 |-> m], Terms <- MCTerms,
       Filter <- MCFilter, HasFilter <- {"new"}, MaxAsks <- 3, MaxEvents <- 2

Cli == INSTANCE CliMail
  WITH CliCasts <- MCCliCasts, Gone <- 0, DateOf <- [m \in 1..9 |-> IF m = 4 THEN 5 ELSE m],
       Conversation <- [m \in 1..9 |-> m % 2], Limit <- 2, OLDER_WINDOWS_PER_PAGE <- 2

Wait == INSTANCE CliWait
  WITH Mails <- 1..5, WaitCasts <- MCWaitCasts, OfSummary <- {2, 3}, OfBody <- {4}, server <- inboxes,
       events <- happened

ASSUME LoginAssumption /\ Wait!WaitAssumption

\* What this behaviour is about is free, and the rest is at one of its starts.
ReadingInit ==
  /\ about \in {"threads", "search", "list", "wait", "login"}
  /\ ThreadInit /\ Search!SearchInit /\ Cli!CliInit /\ Wait!WaitInit /\ LoginInit
  /\ about # "threads" => world = (CHOOSE w \in AllCasts : TRUE) /\ cached = {}
  /\ about # "search" => part = (CHOOSE c \in SearchCasts : TRUE)
  /\ about # "list" => cast = (CHOOSE c \in MCCliCasts : TRUE)
  /\ about # "wait" => caller = (CHOOSE c \in MCWaitCasts : TRUE)
  /\ about # "login" => scene = (CHOOSE c \in LoginCasts : TRUE)

ReadingNext ==
  \/ /\ about = "threads" /\ ThreadNext
     /\ UNCHANGED <<about, searchVars, cliVars, waitVars, loginVars>>
  \/ /\ about = "search" /\ Search!SearchNext
     /\ UNCHANGED <<about, threadVars, cliVars, waitVars, loginVars>>
  \/ /\ about = "list" /\ Cli!CliNext
     /\ UNCHANGED <<about, threadVars, searchVars, waitVars, loginVars>>
  \/ /\ about = "wait" /\ Wait!WaitNext
     /\ UNCHANGED <<about, threadVars, searchVars, cliVars, loginVars>>
  \/ /\ about = "login" /\ LoginNext
     /\ UNCHANGED <<about, threadVars, searchVars, cliVars, waitVars>>

ReadingSpec ==
  ReadingInit /\ [][ReadingNext]_<<about, threadVars, searchVars, cliVars, waitVars, loginVars>>

(***************************************************************************)
(* What is asked for is found: by a search, whatever was typed, failed or  *)
(* changed meanwhile, by the command line's lists and ids, and by a wait   *)
(* for new mail: see ServerSearch, CliMail and CliWait.                    *)
(***************************************************************************)
ReadsFindTheirMail ==
  Search!SearchesFindTheirMail /\ Cli!CliReadsAreWhole /\ Wait!WaitAnswersNewMail

\* A definition a constant is replaced by is evaluated at every use, one it
\* refers to only once: hence the second names.
MCHeader == AllHeaders
MCCasts == AllCasts
=============================================================================
