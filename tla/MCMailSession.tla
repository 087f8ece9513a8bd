----------------------------- MODULE MCMailSession -----------------------------
EXTENDS MailSession

MCFolders == {"inbox", "archive"}
MCOrder == <<"inbox", "archive">>

Sync == [do |-> "all"]
Inbox == [do |-> "inbox"]
Older(f) == [do |-> "older", f |-> f]
Flag(on) == [do |-> "flag", on |-> on]
Move(to) == [do |-> "move", to |-> to]
OpenIt == [do |-> "open"]
Do(do) == [do |-> do]
At(do, f) == [do |-> do, f |-> f]

Mail(i, a) == [f \in MCFolders |-> IF f = "inbox" THEN i ELSE a]

Plain == [port |-> "idb", dev |-> [c \in Clients |-> c], mail |-> Mail(3, 1),
          uidplus |-> TRUE, prefetch |-> FALSE, snapshots |-> FALSE, hasty |-> FALSE,
          script |-> [a \in Actors |-> <<>>]]
Of(port, i, a, s1, s2, env) ==
  [Plain EXCEPT !.port = port, !.mail = Mail(i, a),
                !.script = [x \in Actors |-> CASE x = "a" -> s1 [] x = "b" -> s2 [] OTHER -> env]]

Past(who, n) == [do |-> "wait", who |-> who, past |-> n]

With(plan, more) == more @@ plan
TwoDevices == [snapshots |-> TRUE]
OneDevice == [dev |-> [c \in Clients |-> "one"]]
In(f) == At("deliver", f)

AllCasts == <<
  \* 1 paging back while mail comes and goes
  Of("idb", 4, 1, <<Sync, Older("inbox"), Inbox>>, <<>>, <<In("inbox"), At("expunge", "inbox")>>),
  \* 2 more new mail than a window holds
  Of("idb", 2, 0, <<Sync, Sync, Older("inbox")>>, <<>>,
     <<In("inbox"), In("inbox"), In("inbox"), At("expunge", "inbox")>>),
  \* 3 two writes on one message under a pass
  Of("idb", 2, 0, <<Sync, Move("archive"), Move("inbox"), Sync>>, <<>>, <<>>),
  Of("idb", 2, 0, <<Sync, Move("archive"), Sync>>, <<>>,
     <<[do |-> "refile", f |-> "inbox", to |-> "archive"]>>),
  Of("idb", 1, 1, <<Sync, Flag(TRUE), Sync, Flag(FALSE)>>, <<>>, <<At("flip", "inbox")>>),
  \* 6 moves whose answer does not say where
  With(Of("idb", 2, 1, <<Sync, Move("archive"), Sync, Move("inbox")>>, <<>>, <<>>),
       [uidplus |-> FALSE]),
  \* 7 a folder renumbered around a write
  Of("idb", 2, 1, <<Sync, Move("archive"), Sync>>, <<>>,
     <<At("expunge", "inbox"), At("renumber", "inbox")>>),
  Of("idb", 2, 1, <<Sync, Flag(TRUE), Older("inbox"), Sync>>, <<>>, <<At("expunge", "inbox"), At("renumber", "inbox")>>),
  \* 9 a lock at any moment
  With(Of("idb", 1, 1, <<Sync, OpenIt, Do("lock"), Do("unlock"), Sync>>, <<>>, <<In("inbox")>>),
       [prefetch |-> TRUE]),
  \* 10 a tab closed at any moment
  Of("idb", 1, 0, <<Sync, Do("crash"), Sync>>, <<>>,
     <<In("inbox"), In("inbox"), In("inbox"), At("expunge", "inbox")>>),
  \* 11 a connection dropped under a command
  Of("idb", 2, 1, <<Sync, Move("archive"), Do("drop"), Sync>>, <<>>, <<In("inbox")>>),
  Of("idb", 2, 1, <<Sync, Flag(TRUE), Older("inbox"), Do("drop"), Sync>>, <<>>, <<In("inbox")>>),
  Of("idb", 1, 1, <<Sync, Flag(TRUE), Inbox, Do("drop"), Do("drop")>>, <<>>,
     <<In("inbox"), At("renumber", "inbox")>>),
  \* 14 bodies kept before a renumbering
  With(Of("idb", 2, 0, <<Sync, OpenIt, Past("env", 3), Sync, Past("a", 4), OpenIt>>, <<>>,
          <<Past("a", 2), At("expunge", "inbox"), At("renumber", "inbox")>>),
       [prefetch |-> TRUE]),
  With(Of("disk", 2, 0, <<Sync, OpenIt, Past("env", 3), Sync, Past("a", 4), OpenIt>>, <<>>,
          <<Past("a", 2), At("expunge", "inbox"), At("renumber", "inbox")>>),
       [prefetch |-> TRUE]),
  \* 16 two command lines over one cache, and one over a renumbered folder
  With(Of("disk", 2, 1, <<Sync, Move("archive")>>, <<Past("a", 1), Sync>>, <<In("inbox")>>),
       OneDevice),
  With(Of("disk", 2, 1, <<Sync, Flag(TRUE)>>, <<Past("a", 1), Sync, Older("inbox")>>, <<In("inbox")>>),
       OneDevice),
  Of("disk", 2, 1, <<Sync, Move("archive"), Sync>>, <<>>,
     <<At("expunge", "inbox"), At("renumber", "inbox")>>),
  \* 19 two devices and the vault's snapshot: both new, one seeded, one laid over
  With(Of("idb", 1, 0, <<Sync>>, <<Sync>>, <<>>), TwoDevices),
  With(Of("idb", 1, 1, <<Sync>>, <<Past("a", 1), Sync, Do("crash"), Sync>>, <<In("inbox")>>),
       TwoDevices),
  With(Of("idb", 3, 0, <<Sync, Older("inbox"), Past("b", 2), Sync>>,
          <<Past("env", 4), Sync>>,
          <<Past("a", 2), In("inbox"), In("inbox"), In("inbox"), At("expunge", "inbox")>>),
       TwoDevices)
>>

\* A message opened after its folder was renumbered and before the next pass.
MCCastsRenumbered == <<
  Of("idb", 2, 0, <<Sync, Past("env", 2), OpenIt>>, <<>>,
     <<At("expunge", "inbox"), At("renumber", "inbox")>>)
>>

\* A definition a constant is replaced by is evaluated at every use, one it
\* refers to only once: hence the second names.
MCCasts == AllCasts
================================================================================
