------------------------- MODULE CommandLineProofs -------------------------
(***************************************************************************)
(* The command line's login, for every number of runs, tabs, accounts and  *)
(* keys, and its wait for new mail, for every inbox and every arrival.     *)
(***************************************************************************)
EXTENDS CliLogin, CliWait, SequenceTheorems, WellFoundedInduction, TLAPS

-----------------------------------------------------------------------------
(* The login: what its state is made of. *)

Pairs   == Shells \cup {Nobody} \cup UNION {{c.file.pair, c.envLogin.pair} : c \in LoginCasts}
Names   == Accounts \cup {Nobody}
Keys    == KeyIds \cup {"none"}
Logins  == [key : Keys, user : Names, pair : Pairs]
Calls   == [to : Shells \cup {Nobody}, port : Ports \cup {0},
            what : {"none", "sealed", "denied", "blank"}, key : Keys \cup Names, user : Names]

\* The two pages of an approval, from the link to the answer.
PagePcs == {"none", "shown", "wrapping", "posted", "confirming", "admitted", "minted", "left"}

Runs ==
  [pc : {"unborn", "waiting", "notLoggedIn", "opening", "revoking", "responding", "failing", "denying",
         "denied", "failed", "saving", "timedOut", "superseding", "loggedIn", "removing", "kept",
         "loggedOut", "using", "open", "keyRevoked"},
   login : Logins, source : {"file", "env"}, port : Ports \cup {0}, queue : Seq(Calls),
   got : Logins, opened : Names, saw : Logins]

Sheets ==
  [pc : PagePcs, user : Names, link : Shells \cup {Nobody}, port : Ports \cup {0}, shown : Names,
   current : BOOLEAN, key : Keys \cup Names, call : Calls]

RestType ==
  /\ scene \in LoginCasts /\ file \in Logins
  /\ cookie \in [user : Names, fresh : BOOLEAN]
  /\ rows \in [KeyIds -> [user : Names, pub : Shells \cup Pairs, dek : Names]]
  /\ list \in [pc : {"idle", "reload"}, user : Accounts, keys : SUBSET KeyIds, stale : BOOLEAN]
  /\ past \in [made : SUBSET KeyIds, approved : SUBSET Shells, denied : SUBSET Shells,
               warned : SUBSET Keys, gone : SUBSET KeyIds, covered : BOOLEAN]

LoginTypeOK == shell \in [Shells -> Runs] /\ page \in [Tabs -> Sheets] /\ RestType

-----------------------------------------------------------------------------
(* The invariant. *)

\* A key is made once, in the account its page showed; a key gone stays gone.
RowsAreWhole ==
  /\ \A k \in KeyIds : Stands(k) => k \in past.made /\ rows[k].dek = rows[k].user
  /\ \A k \in past.gone : k \in past.made /\ ~Stands(k)

\* Credentials are of the row their key names, while it stands.
Fits(own) ==
  own # NoLogin => /\ own.key \in past.made
                   /\ Stands(own.key) => rows[own.key].pub = own.pair /\ rows[own.key].user = own.user

\* What a page sends back is what it was answered, and the key of that answer.
FitsCall(c) ==
  /\ c.what = "sealed" => /\ c.to \in past.approved /\ c.key \in past.made
                          /\ Stands(c.key) => rows[c.key].pub = c.to /\ rows[c.key].user = c.user
  /\ c.what = "denied" => c.to \in past.denied

\* A page past its approval has a link, and the account it showed is the one admitted.
PageFits(t) ==
  LET g == page[t] IN
  /\ g.pc # "none" => g.link \in Shells
  /\ g.pc \in {"wrapping", "posted", "confirming", "admitted", "minted"} => g.shown # Nobody
  /\ g.pc = "admitted" => g.key = g.shown
  /\ g.pc = "minted" => /\ g.key \in past.made
                        /\ Stands(g.key) => rows[g.key].pub = g.link /\ rows[g.key].user = g.shown
  /\ FitsCall(g.call)

\* What waits at a run's port is for it.
QueueFits(p) ==
  \A i \in 1..Len(shell[p].queue) : shell[p].queue[i].to = p /\ FitsCall(shell[p].queue[i])

\* A run holds a port only until it has answered, reads its settings once, and ends as it was
\* answered.
ShellFits(p) ==
  LET s == shell[p] IN
  /\ Fits(s.login) /\ Fits(s.got)
  /\ s.port # 0 => s.pc \in {"waiting", "denying", "failing", "responding"}
  /\ s.pc \notin {"failing", "failed"}
  /\ s.pc \in {"denying", "denied"} => p \in past.denied
  /\ s.got # NoLogin => p \in past.approved
  /\ s.source = "file" => s.login = s.saw
  /\ s.pc \in {"opening", "using", "open", "superseding", "revoking", "removing"} => s.login # NoLogin
  /\ s.pc = "removing" => ~Stands(s.login.key)
  /\ s.pc = "open" => s.opened = s.login.user

PagesFit  == \A t \in Tabs : PageFits(t)
QueuesFit == \A p \in Shells : QueueFits(p)
ShellsFit == \A p \in Shells : ShellFits(p)

\* A key the credentials held, of the file that was there first or of a login that ended.
Held(k) ==
  \/ k = scene.file.key
  \/ \E p \in Shells : shell[p].pc \in {"superseding", "loggedIn"} /\ k = shell[p].got.key

Accounted(k) ==
  \/ ~Stands(k) \/ k \in past.warned
  \/ \E p \in Shells : shell[p].pc = "superseding" /\ shell[p].login.key = k

KeysAccounted ==
  ~past.covered => \A k \in KeyIds : Held(k) /\ k # file.key => Accounted(k)

LoginInv ==
  /\ LoginTypeOK
  /\ RowsAreWhole /\ PagesFit /\ QueuesFit /\ ShellsFit
  /\ Fits(file) /\ Fits(scene.file) /\ Fits(scene.envLogin)
  /\ KeysAccounted
  /\ list.keys \subseteq past.made /\ RevokedLeavesTheList

-----------------------------------------------------------------------------
(* What every step keeps. *)

\* Keys are only ever added, and the rows of those there are only ever removed.
RowsKept ==
  /\ past.made \subseteq past'.made /\ past.approved \subseteq past'.approved
  /\ past.denied \subseteq past'.denied
  /\ \A k \in past.made : rows'[k] = rows[k] \/ rows'[k] = NoRow

FewerRows == \A k \in KeyIds : rows'[k] \in {rows[k], NoRow}

LEMMA FitsStays ==
  ASSUME NEW own, Fits(own), RowsKept
  PROVE  Fits(own)'
BY DEF Fits, RowsKept, Stands

LEMMA FitsCallStays ==
  ASSUME NEW c, FitsCall(c), RowsKept
  PROVE  FitsCall(c)'
BY DEF FitsCall, RowsKept, Stands

LEMMA PageStays ==
  ASSUME NEW t \in Tabs, PageFits(t), RowsKept, page'[t] = page[t]
  PROVE  PageFits(t)'
<1>1. FitsCall(page[t].call)'
  BY FitsCallStays DEF PageFits, FitsCall, Stands
<1> QED
  BY <1>1 DEF PageFits, RowsKept, Stands

LEMMA QueueStays ==
  ASSUME NEW p \in Shells, QueueFits(p), RowsKept, shell'[p].queue = shell[p].queue
  PROVE  QueueFits(p)'
BY FitsCallStays DEF QueueFits, FitsCall, Stands

LEMMA ShellStays ==
  ASSUME NEW p \in Shells, ShellFits(p), RowsKept, shell'[p] = shell[p]
  PROVE  ShellFits(p)'
<1>1. Fits(shell[p].login) /\ Fits(shell[p].got)
  BY DEF ShellFits
<1>2. Fits(shell[p].login)' /\ Fits(shell[p].got)'
  BY <1>1, FitsStays DEF Fits, Stands
<1>3. shell[p].pc = "removing" => ~Stands(shell[p].login.key)'
  BY DEF ShellFits, Fits, RowsKept, Stands
<1> QED
  BY <1>2, <1>3 DEF ShellFits, RowsKept

\* No key is forgotten by a step that leaves the file, and ends no login and no revoke that
\* did not take the key away.
LEMMA AccountedStays ==
  ASSUME LoginAssumption, LoginInv, RowsKept, past.covered => past'.covered,
         past.warned \subseteq past'.warned,
         UNCHANGED <<scene, file>>,
         \A p \in Shells : shell'[p].pc \in {"superseding", "loggedIn"} =>
           shell[p].pc \in {"superseding", "loggedIn"} /\ shell'[p].got = shell[p].got,
         \A p \in Shells : shell[p].pc = "superseding" =>
           \/ shell'[p].pc = "superseding" /\ shell'[p].login = shell[p].login
           \/ shell[p].login.key \in past'.warned
           \/ rows'[shell[p].login.key] = NoRow
  PROVE  KeysAccounted'
<1> SUFFICES ASSUME ~past'.covered, NEW k \in KeyIds, Held(k)', k # file'.key
             PROVE  Accounted(k)'
  BY DEF KeysAccounted
<1>1. Held(k) /\ k # file.key
  BY DEF Held
<1>2. Accounted(k)
  BY <1>1 DEF LoginInv, KeysAccounted
<1>3. k \in past.made
  <2>1. CASE k = scene.file.key
    BY <2>1 DEF LoginInv, Fits, NoLogin, LoginAssumption
  <2>2. CASE \E p \in Shells : k = shell[p].got.key
    BY <2>2 DEF LoginInv, ShellsFit, ShellFits, Fits, NoLogin, LoginAssumption
  <2> QED
    BY <1>1, <2>1, <2>2 DEF Held
<1>4. Stands(k)' => Stands(k)
  BY <1>3 DEF RowsKept, Stands
<1>5. ASSUME NEW p \in Shells, shell[p].pc = "superseding", shell[p].login.key = k
      PROVE  Accounted(k)'
  BY <1>5 DEF Accounted, Stands
<1>6. CASE ~Stands(k) \/ k \in past.warned
  BY <1>4, <1>6 DEF Accounted
<1> QED
  BY <1>2, <1>5, <1>6 DEF Accounted

-----------------------------------------------------------------------------
(* The steps of a run. *)

LEMMA RowsStay ==
  ASSUME LoginInv, LoginTypeOK', FewerRows, past'.made = past.made, past'.gone = past.gone
  PROVE  RowsAreWhole'
<1>1. \A k \in KeyIds : Stands(k)' => Stands(k) /\ rows'[k] = rows[k]
  BY DEF FewerRows, Stands
<1> QED
  BY <1>1 DEF LoginInv, RowsAreWhole, Stands, LoginTypeOK, RestType

LEMMA RunKeeps ==
  ASSUME LoginInv, NEW p \in Shells, \A q \in Shells \ {p} : shell'[q] = shell[q],
         LoginTypeOK', RowsKept, FewerRows, UNCHANGED <<scene, page, list>>,
         past'.made = past.made, past'.gone = past.gone,
         ShellFits(p)', QueueFits(p)', Fits(file)', KeysAccounted'
  PROVE  LoginInv'
<1>1. ShellsFit'
  BY ShellStays DEF LoginInv, ShellsFit
<1>2. QueuesFit'
  BY QueueStays DEF LoginInv, QueuesFit
<1>3. PagesFit'
  BY PageStays DEF LoginInv, PagesFit
<1>4. Fits(scene.file)' /\ Fits(scene.envLogin)'
  BY FitsStays DEF LoginInv, Fits, Stands
<1>5. RevokedLeavesTheList' /\ list'.keys \subseteq past'.made
  BY DEF LoginInv, RevokedLeavesTheList
<1> QED
  BY <1>1, <1>2, <1>3, <1>4, <1>5, RowsStay DEF LoginInv

\* The credentials file stays what it was by a step that leaves it.
LEMMA FileStays ==
  ASSUME LoginInv, RowsKept, UNCHANGED file
  PROVE  Fits(file)'
BY FitsStays DEF LoginInv, Fits, Stands

LEMMA CastLogins ==
  ASSUME LoginAssumption, NEW c \in LoginCasts
  PROVE  c.file \in Logins /\ c.envLogin \in Logins /\ NoLogin \in Logins
<1>1. c.file.pair \in Pairs /\ c.envLogin.pair \in Pairs
  BY DEF Pairs
<1>2. NoLogin \in Logins
  BY DEF NoLogin, Logins, Keys, Names, Pairs
<1>3. ASSUME NEW own \in {c.file, c.envLogin}
      PROVE  own \in Logins
  <2>1. own = NoLogin \/ own \in [key : KeyIds, user : Accounts, pair : {own.pair}]
    BY <1>3 DEF LoginAssumption
  <2>2. CASE own \in [key : KeyIds, user : Accounts, pair : {own.pair}]
    BY <1>1, <1>3, <2>2 DEF LoginAssumption, Logins, Keys, Names
  <2> QED
    BY <1>2, <2>1, <2>2
<1> QED
  BY <1>2, <1>3

\* A run as it reads its settings.
IsBorn(s, own, from) ==
  /\ s \in Runs /\ s.login = own /\ s.source = from /\ s.saw = file
  /\ s.got = NoLogin /\ s.queue = <<>>

LEMMA StartStep ==
  ASSUME LoginAssumption, LoginInv, NEW p \in Shells, Start(p)
  PROVE  LoginInv'
<1>1. PICK own, from :
        /\ own = IF scene.env = p THEN scene.envLogin ELSE file
        /\ from = IF scene.env = p THEN "env" ELSE "file"
  OBVIOUS
<1>2. Fits(own) /\ own \in Logins /\ from \in {"file", "env"} /\ (from = "file" => own = file)
  BY <1>1, CastLogins DEF LoginInv, LoginTypeOK, RestType
<1>3. UNCHANGED <<scene, file, page, cookie, rows, list, past>>
  BY DEF Start
<1>4. RowsKept /\ FewerRows /\ shell[p].pc = "unborn"
  BY DEF Start, RowsKept, FewerRows
<1>5. PICK s :
        /\ shell' = [shell EXCEPT ![p] = s] /\ IsBorn(s, own, from)
        /\ s.pc \in {"waiting", "notLoggedIn", "opening", "revoking"}
        /\ s.pc \in {"opening", "revoking"} => own # NoLogin
        /\ s.pc # "waiting" => s.port = 0
  <2>1. PICK r, b : r = Unborn /\ b = [r EXCEPT !.login = own, !.saw = file, !.source = from]
    OBVIOUS
  <2>2. r \in Runs /\ r.got = NoLogin /\ r.queue = <<>> /\ r.port = 0 /\ file \in Logins
    BY <2>1, CastLogins DEF Unborn, Runs, Names, LoginInv, LoginTypeOK, RestType
  <2>3. IsBorn(b, own, from) /\ b.port = 0
    BY <1>2, <2>1, <2>2 DEF IsBorn, Runs
  <2>4. CASE scene.does[p] = "login"
    <3>1. PICK n \in Ports : Shell(p, [b EXCEPT !.pc = "waiting", !.port = n])
      BY <1>1, <2>1, <2>4 DEF Start
    <3>2. PICK s : s = [b EXCEPT !.pc = "waiting", !.port = n]
      OBVIOUS
    <3>3. IsBorn(s, own, from) /\ s.pc = "waiting"
      BY <2>3, <3>2 DEF IsBorn, Runs
    <3> QED
      BY <3>1, <3>2, <3>3 DEF Shell
  <2>5. CASE scene.does[p] # "login"
    <3>1. PICK pc \in {"notLoggedIn", "opening", "revoking"} :
            Shell(p, [b EXCEPT !.pc = pc]) /\ (pc # "notLoggedIn" => own # NoLogin)
      BY <1>1, <2>1, <2>5 DEF Start
    <3>2. PICK s : s = [b EXCEPT !.pc = pc]
      OBVIOUS
    <3>3. IsBorn(s, own, from) /\ s.pc = pc /\ s.port = 0
      BY <2>3, <3>2 DEF IsBorn, Runs
    <3> QED
      BY <3>1, <3>2, <3>3 DEF Shell
  <2> QED
    BY <2>4, <2>5
<1>6. shell'[p] = s /\ LoginTypeOK'
  BY <1>3, <1>5 DEF LoginInv, LoginTypeOK, RestType, IsBorn
<1>7. ShellFits(p)'
  BY <1>2, <1>3, <1>5, <1>6 DEF ShellFits, Fits, Stands, IsBorn
<1>8. QueueFits(p)'
  BY <1>5, <1>6 DEF QueueFits, IsBorn
<1>9. KeysAccounted'
  BY <1>3, <1>4, <1>5, <1>6, AccountedStays DEF LoginInv, LoginTypeOK
<1> QED
  BY <1>3, <1>4, <1>5, <1>6, <1>7, <1>8, <1>9, RunKeeps, FileStays DEF LoginInv, LoginTypeOK

\* A run that takes no new credentials: what is left to show of it is where it is.
LEMMA RunMoves ==
  ASSUME LoginInv, NEW p \in Shells, NEW s \in Runs, shell' = [shell EXCEPT ![p] = s],
         RowsKept, FewerRows, RestType', UNCHANGED <<scene, page, list>>,
         past'.made = past.made, past'.gone = past.gone,
         s.login = shell[p].login, s.source = shell[p].source, s.saw = shell[p].saw,
         ShellFits(p)', QueueFits(p)', Fits(file)', KeysAccounted'
  PROVE  LoginInv'
<1>1. LoginTypeOK' /\ \A q \in Shells \ {p} : shell'[q] = shell[q]
  BY DEF LoginInv, LoginTypeOK
<1> QED
  BY <1>1, RunKeeps

\* A listener closes with whatever still waits at its port.
Closed(r, pc) == [r EXCEPT !.port = 0, !.queue = <<>>, !.pc = pc]

LEMMA Closes ==
  ASSUME NEW r \in Runs, NEW pc \in {"denied", "saving", "timedOut"}, NEW s, s = Closed(r, pc)
  PROVE  /\ s \in Runs /\ s.port = 0 /\ s.queue = <<>> /\ s.pc = pc
         /\ s.login = r.login /\ s.source = r.source /\ s.saw = r.saw
         /\ s.got = r.got /\ s.opened = r.opened
<1>1. <<>> \in Seq(Calls)
  OBVIOUS
<1>2. PICK b : b = [r EXCEPT !.port = 0, !.queue = <<>>]
  OBVIOUS
<1>3. /\ b \in Runs /\ b.port = 0 /\ b.queue = <<>>
      /\ b.login = r.login /\ b.source = r.source /\ b.saw = r.saw
      /\ b.got = r.got /\ b.opened = r.opened
  BY <1>1, <1>2 DEF Runs
<1>4. s = [b EXCEPT !.pc = pc]
  BY <1>2 DEF Closed
<1> QED
  BY <1>3, <1>4 DEF Runs

LEMMA RespondedStep ==
  ASSUME LoginAssumption, LoginInv, NEW p \in Shells, Responded(p)
  PROVE  LoginInv'
<1>1. PICK s :
        /\ s = [shell[p] EXCEPT !.port = 0, !.queue = <<>>,
                                !.pc = CASE @ = "denying" -> "denied"
                                         [] @ = "failing" -> "failed"
                                         [] OTHER -> "saving"]
        /\ shell' = [shell EXCEPT ![p] = s]
  BY DEF Responded, Shell
<1>2. UNCHANGED <<scene, file, page, cookie, rows, list, past>> /\ RowsKept /\ FewerRows
  BY DEF Responded, RowsKept, FewerRows
<1>3. shell[p] \in Runs /\ shell[p].pc \in {"denying", "responding"} /\ shell'[p] = s
  BY <1>1 DEF LoginInv, LoginTypeOK, Responded, ShellsFit, ShellFits
<1>4. s = Closed(shell[p], IF shell[p].pc = "denying" THEN "denied" ELSE "saving")
  BY <1>1, <1>3 DEF Closed
<1>5. /\ s \in Runs /\ s.port = 0 /\ s.queue = <<>>
      /\ s.pc = IF shell[p].pc = "denying" THEN "denied" ELSE "saving"
      /\ s.login = shell[p].login /\ s.source = shell[p].source /\ s.saw = shell[p].saw
      /\ s.got = shell[p].got /\ s.opened = shell[p].opened
  BY <1>3, <1>4, Closes
<1>6. ShellFits(p)'
  BY <1>2, <1>3, <1>5 DEF LoginInv, ShellsFit, ShellFits, Fits, Stands
<1>7. QueueFits(p)'
  BY <1>3, <1>5 DEF QueueFits
<1>8. KeysAccounted'
  BY <1>1, <1>2, <1>3, <1>5, AccountedStays DEF LoginInv, LoginTypeOK
<1> QED
  BY <1>1, <1>2, <1>3, <1>5, <1>6, <1>7, <1>8, RunMoves, FileStays DEF LoginInv, LoginTypeOK, RestType

LEMMA TimeOutStep ==
  ASSUME LoginAssumption, LoginInv, NEW p \in Shells, TimeOut(p)
  PROVE  LoginInv'
<1>1. PICK s :
        /\ s = Closed(shell[p], "timedOut")
        /\ shell' = [shell EXCEPT ![p] = s]
  BY DEF TimeOut, Shell, Closed
<1>2. UNCHANGED <<scene, file, page, cookie, rows, list, past>> /\ RowsKept /\ FewerRows
  BY DEF TimeOut, RowsKept, FewerRows
<1>3. shell[p] \in Runs /\ shell[p].pc \in {"waiting", "denying", "responding"} /\ shell'[p] = s
  BY <1>1 DEF LoginInv, LoginTypeOK, TimeOut, ShellsFit, ShellFits
<1>4. /\ s \in Runs /\ s.port = 0 /\ s.queue = <<>> /\ s.pc = "timedOut"
      /\ s.login = shell[p].login /\ s.source = shell[p].source /\ s.saw = shell[p].saw
      /\ s.got = shell[p].got /\ s.opened = shell[p].opened
  BY <1>1, <1>3, Closes
<1>5. ShellFits(p)'
  BY <1>2, <1>3, <1>4 DEF LoginInv, ShellsFit, ShellFits, Fits, Stands
<1>6. QueueFits(p)'
  BY <1>3, <1>4 DEF QueueFits
<1>7. KeysAccounted'
  BY <1>1, <1>2, <1>3, <1>4, AccountedStays DEF LoginInv, LoginTypeOK
<1> QED
  BY <1>1, <1>2, <1>3, <1>4, <1>5, <1>6, <1>7, RunMoves, FileStays DEF LoginInv, LoginTypeOK, RestType

LEMMA AnswerCallbackStep ==
  ASSUME LoginAssumption, LoginInv, NEW p \in Shells, AnswerCallback(p)
  PROVE  LoginInv'
<1>1. UNCHANGED <<scene, file, page, cookie, rows, list, past>> /\ RowsKept /\ FewerRows
  BY DEF AnswerCallback, RowsKept, FewerRows
<1>2. shell[p] \in Runs /\ shell[p].pc = "waiting" /\ shell[p].queue \in Seq(Calls) /\ shell[p].queue # <<>>
  BY DEF LoginInv, LoginTypeOK, Runs, AnswerCallback
<1>3. PICK c : c = Head(shell[p].queue)
  OBVIOUS
<1>4. c \in Calls /\ c.to = p /\ FitsCall(c) /\ Tail(shell[p].queue) \in Seq(Calls)
  BY <1>2, <1>3, HeadTailProperties DEF LoginInv, QueuesFit, QueueFits
<1>5. PICK b : b = [shell[p] EXCEPT !.queue = Tail(@)]
  OBVIOUS
<1>6. /\ b \in Runs /\ b.queue = Tail(shell[p].queue) /\ b.pc = "waiting" /\ b.port = shell[p].port
      /\ b.login = shell[p].login /\ b.source = shell[p].source /\ b.saw = shell[p].saw
      /\ b.got = shell[p].got /\ b.opened = shell[p].opened
  BY <1>2, <1>4, <1>5 DEF Runs
<1>7. PICK s :
        /\ shell' = [shell EXCEPT ![p] = s]
        /\ s = IF c.what = "denied" THEN [b EXCEPT !.pc = "denying"] ELSE openApproval(p, b, c)
  BY <1>3, <1>5 DEF AnswerCallback, Shell
<1>8. /\ s \in Runs /\ s.queue = Tail(shell[p].queue) /\ s.port = shell[p].port
      /\ s.login = shell[p].login /\ s.source = shell[p].source /\ s.saw = shell[p].saw
      /\ s.opened = shell[p].opened
      /\ \/ s.pc = "denying" /\ s.got = shell[p].got /\ c.what = "denied"
         \/ s.pc = "waiting" /\ s.got = shell[p].got
         \/ /\ s.pc = "responding" /\ c.what = "sealed"
            /\ s.got = [key |-> c.key, user |-> c.user, pair |-> p]
  <2>1. CASE c.what = "denied"
    BY <1>6, <1>7, <2>1 DEF Runs
  <2>2. CASE c.what = "sealed"
    <3>1. PICK got : got = [key |-> c.key, user |-> c.user, pair |-> p]
      OBVIOUS
    <3>2. got \in Logins
      BY <1>4, <2>2, <3>1 DEF Calls, Logins, FitsCall, LoginInv, LoginTypeOK, RestType, Keys, Pairs
    <3>3. s = [b EXCEPT !.pc = "responding", !.got = got]
      BY <1>4, <1>7, <2>2, <3>1 DEF openApproval, Opens
    <3> QED
      BY <1>6, <2>2, <3>1, <3>2, <3>3 DEF Runs
  <2>3. CASE c.what \notin {"denied", "sealed"}
    BY <1>6, <1>7, <2>3 DEF openApproval
  <2> QED
    BY <2>1, <2>2, <2>3
<1>9. shell'[p] = s
  BY <1>7 DEF LoginInv, LoginTypeOK
<1>10. ShellFits(p)'
  <2>1. Fits(s.got)'
    BY <1>1, <1>2, <1>4, <1>8 DEF LoginInv, ShellsFit, ShellFits, Fits, FitsCall, Stands
  <2> QED
    BY <1>1, <1>2, <1>4, <1>8, <1>9, <2>1 DEF LoginInv, ShellsFit, ShellFits, Fits, FitsCall, Stands
<1>11. QueueFits(p)'
  <2>1. \A i \in 1..Len(s.queue) : s.queue[i] = shell[p].queue[i + 1] /\ i + 1 \in 1..Len(shell[p].queue)
    BY <1>2, <1>8, HeadTailProperties
  <2>2. \A i \in 1..Len(s.queue) : s.queue[i].to = p /\ FitsCall(s.queue[i])
    BY <2>1 DEF LoginInv, QueuesFit, QueueFits
  <2> QED
    BY <1>1, <1>9, <2>2 DEF QueueFits, FitsCall, Stands
<1>12. KeysAccounted'
  BY <1>1, <1>2, <1>7, <1>8, AccountedStays DEF LoginInv, LoginTypeOK
<1> QED
  BY <1>1, <1>7, <1>8, <1>10, <1>11, <1>12, RunMoves, FileStays DEF LoginInv, LoginTypeOK, RestType

\* A run that goes on with the credentials it has.
Goes(p, s, pc) ==
  /\ s = [shell[p] EXCEPT !.pc = pc] /\ shell' = [shell EXCEPT ![p] = s]
  /\ pc \in {"superseding", "loggedIn", "removing", "kept", "loggedOut", "using", "keyRevoked"}

LEMMA GoesOn ==
  ASSUME LoginInv, NEW p \in Shells, NEW s, NEW pc, Goes(p, s, pc)
  PROVE  /\ s \in Runs /\ s.pc = pc /\ s.port = shell[p].port /\ s.queue = shell[p].queue
         /\ s.login = shell[p].login /\ s.source = shell[p].source /\ s.saw = shell[p].saw
         /\ s.got = shell[p].got /\ s.opened = shell[p].opened
         /\ shell' = [shell EXCEPT ![p] = s]
         /\ shell'[p] = s /\ shell[p] \in Runs /\ \A q \in Shells \ {p} : shell'[q] = shell[q]
<1>1. shell[p] \in Runs
  BY DEF LoginInv, LoginTypeOK
<1> QED
  BY <1>1 DEF Goes, Runs, LoginInv, LoginTypeOK

\* The keys of credentials are keys.
LEMMA LoginKeys ==
  ASSUME LoginInv, NEW p \in Shells, shell[p].login # NoLogin
  PROVE  shell[p].login.key \in KeyIds /\ shell[p].login.key \in past.made
BY DEF LoginInv, ShellsFit, ShellFits, Fits, LoginTypeOK, RestType

LEMMA SaveStep ==
  ASSUME LoginAssumption, LoginInv, NEW p \in Shells, saveCredentials(p)
  PROVE  LoginInv'
<1>1. PICK s : Goes(p, s, AfterSave(shell[p]))
  BY DEF saveCredentials, Shell, Goes, AfterSave
<1>2. UNCHANGED <<scene, page, cookie, rows, list>> /\ file' = shell[p].got /\ shell[p].pc = "saving"
  BY DEF saveCredentials
<1>3. /\ past' = [past EXCEPT !.covered =
                    @ \/ file # shell[p].saw \/ (shell[p].source = "env" /\ file # NoLogin)]
      /\ past \in [made : SUBSET KeyIds, approved : SUBSET Shells, denied : SUBSET Shells,
                   warned : SUBSET Keys, gone : SUBSET KeyIds, covered : BOOLEAN]
  BY DEF saveCredentials, Covers, LoginInv, LoginTypeOK, RestType
<1>4. /\ past'.made = past.made /\ past'.gone = past.gone /\ past'.approved = past.approved
      /\ past'.denied = past.denied /\ past'.warned = past.warned /\ past'.covered \in BOOLEAN
      /\ past'.covered = (past.covered \/ file # shell[p].saw
                            \/ (shell[p].source = "env" /\ file # NoLogin))
      /\ past' \in [made : SUBSET KeyIds, approved : SUBSET Shells, denied : SUBSET Shells,
                    warned : SUBSET Keys, gone : SUBSET KeyIds, covered : BOOLEAN]
  BY <1>3
<1>5. RowsKept /\ FewerRows
  BY <1>2, <1>4 DEF RowsKept, FewerRows
<1>6. Fits(file)'
  BY <1>2, <1>4 DEF LoginInv, ShellsFit, ShellFits, Fits, Stands
<1>7. ShellFits(p)' /\ QueueFits(p)'
  <2>1. AfterSave(shell[p]) = "superseding" => shell[p].login # NoLogin
    BY DEF AfterSave
  <2>2. AfterSave(shell[p]) \in {"superseding", "loggedIn"}
    BY DEF AfterSave
  <2> QED
    BY <1>1, <1>2, <1>4, <2>1, <2>2, GoesOn
    DEF LoginInv, ShellsFit, ShellFits, QueuesFit, QueueFits, Fits, FitsCall, Stands
<1>8. RestType'
  BY <1>2, <1>4, GoesOn, <1>1 DEF LoginInv, LoginTypeOK, RestType, Runs
<1>9. KeysAccounted'
  <2> SUFFICES ASSUME ~past'.covered, NEW k \in KeyIds, Held(k)', k # file'.key
               PROVE  Accounted(k)'
    BY DEF KeysAccounted
  <2>1. ~past.covered /\ file = shell[p].saw /\ (shell[p].source = "env" => file = NoLogin)
    BY <1>4
  <2>2. Held(k)
    BY <1>1, <1>2, GoesOn DEF Held
  <2>3. CASE k = file.key
    <3>1. file # NoLogin
      BY <2>3 DEF NoLogin, LoginAssumption
    <3>2. shell[p].source = "file" /\ shell[p].login = file
      BY <2>1, <3>1, GoesOn, <1>1 DEF Runs, LoginInv, ShellsFit, ShellFits
    <3>3. shell'[p].pc = "superseding" /\ shell'[p].login.key = k
      BY <1>1, <2>3, <3>1, <3>2, GoesOn DEF AfterSave
    <3> QED
      BY <3>3 DEF Accounted
  <2>4. CASE k # file.key
    <3>1. Accounted(k)
      BY <2>1, <2>2, <2>4 DEF LoginInv, KeysAccounted
    <3> QED
      BY <1>1, <1>2, <1>4, <3>1, GoesOn DEF Accounted, Stands
  <2> QED
    BY <2>3, <2>4
<1>10. /\ s \in Runs /\ shell' = [shell EXCEPT ![p] = s]
       /\ s.login = shell[p].login /\ s.source = shell[p].source /\ s.saw = shell[p].saw
  BY <1>1, GoesOn
<1> QED
  BY <1>2, <1>4, <1>5, <1>6, <1>7, <1>8, <1>9, <1>10, RunMoves

LEMMA WithoutKey ==
  ASSUME LoginInv, NEW k \in KeyIds, rows' = Without(k)
  PROVE  /\ rows'[k] = NoRow /\ FewerRows
         /\ rows' \in [KeyIds -> [user : Names, pub : Shells \cup Pairs, dek : Names]]
BY DEF LoginInv, LoginTypeOK, RestType, Without, FewerRows, NoRow, Names, Pairs

LEMMA RevokeStep ==
  ASSUME LoginAssumption, LoginInv, NEW p \in Shells, Revoke(p)
  PROVE  LoginInv'
<1>1. PICK s : Goes(p, s, IF shell[p].pc = "superseding" THEN "loggedIn" ELSE "removing")
  BY DEF Revoke, Shell, Goes
<1>2. /\ UNCHANGED <<scene, file, page, cookie, list, past>> /\ rows' = Without(shell[p].login.key)
      /\ shell[p].pc \in {"superseding", "revoking"}
  BY DEF Revoke
<1>3. shell[p].login # NoLogin /\ shell[p].login.key \in KeyIds
  BY <1>2, LoginKeys DEF LoginInv, ShellsFit, ShellFits
<1>4. rows'[shell[p].login.key] = NoRow /\ FewerRows /\ RowsKept /\ RestType'
  BY <1>2, <1>3, WithoutKey DEF RowsKept, FewerRows, LoginInv, LoginTypeOK, RestType
<1>5. ShellFits(p)' /\ QueueFits(p)'
  <2>1. Fits(shell[p].login)' /\ Fits(shell[p].got)'
    BY <1>1, <1>4, FitsStays, GoesOn DEF LoginInv, ShellsFit, ShellFits, Fits, Stands
  <2>2. ShellFits(p)'
    BY <1>1, <1>2, <1>4, <2>1, GoesOn DEF LoginInv, ShellsFit, ShellFits, Fits, Stands
  <2> QED
    BY <1>1, <1>4, <2>2, QueueStays, GoesOn DEF LoginInv, QueuesFit
<1>6. KeysAccounted'
  BY <1>1, <1>2, <1>4, AccountedStays, GoesOn
<1>7. /\ s \in Runs /\ shell' = [shell EXCEPT ![p] = s]
      /\ s.login = shell[p].login /\ s.source = shell[p].source /\ s.saw = shell[p].saw
  BY <1>1, GoesOn
<1> QED
  BY <1>2, <1>4, <1>5, <1>6, <1>7, RunMoves, FileStays

LEMMA RevokeFailsStep ==
  ASSUME LoginAssumption, LoginInv, NEW p \in Shells, RevokeFails(p)
  PROVE  LoginInv'
<1>1. PICK s : Goes(p, s, IF shell[p].pc = "superseding" THEN "loggedIn" ELSE "kept")
  BY DEF RevokeFails, Shell, Goes
<1>2. /\ UNCHANGED <<scene, file, page, cookie, list>>
      /\ rows' = rows \/ rows' = Without(shell[p].login.key)
      /\ shell[p].pc \in {"superseding", "revoking"}
  BY DEF RevokeFails
<1>3. shell[p].login # NoLogin /\ shell[p].login.key \in KeyIds
  BY <1>2, LoginKeys DEF LoginInv, ShellsFit, ShellFits
<1>4. FewerRows /\ rows' \in [KeyIds -> [user : Names, pub : Shells \cup Pairs, dek : Names]]
  BY <1>2, <1>3, WithoutKey DEF FewerRows, LoginInv, LoginTypeOK, RestType
<1>5. /\ past' \in [made : SUBSET KeyIds, approved : SUBSET Shells, denied : SUBSET Shells,
                    warned : SUBSET Keys, gone : SUBSET KeyIds, covered : BOOLEAN]
      /\ past'.made = past.made /\ past'.gone = past.gone /\ past'.approved = past.approved
      /\ past'.denied = past.denied /\ past.warned \subseteq past'.warned /\ past'.covered = past.covered
      /\ shell[p].pc = "superseding" => shell[p].login.key \in past'.warned
  <2>1. CASE shell[p].pc = "superseding"
    <3>1. past' = [past EXCEPT !.warned = @ \cup {shell[p].login.key}]
      BY <2>1 DEF RevokeFails
    <3> QED
      BY <1>3, <3>1 DEF LoginInv, LoginTypeOK, RestType, Keys
  <2>2. CASE shell[p].pc # "superseding"
    BY <2>2 DEF RevokeFails, LoginInv, LoginTypeOK, RestType
  <2> QED
    BY <2>1, <2>2
<1>6. RowsKept /\ RestType'
  BY <1>2, <1>4, <1>5 DEF RowsKept, FewerRows, LoginInv, LoginTypeOK, RestType
<1>7. ShellFits(p)' /\ QueueFits(p)'
  <2>1. Fits(shell[p].login)' /\ Fits(shell[p].got)'
    BY <1>1, <1>6, FitsStays, GoesOn DEF LoginInv, ShellsFit, ShellFits, Fits, Stands
  <2>2. ShellFits(p)'
    BY <1>1, <1>2, <1>5, <2>1, GoesOn DEF LoginInv, ShellsFit, ShellFits, Fits, Stands
  <2> QED
    BY <1>1, <1>6, <2>2, QueueStays, GoesOn DEF LoginInv, QueuesFit
<1>8. KeysAccounted'
  BY <1>1, <1>2, <1>5, <1>6, AccountedStays, GoesOn
<1>9. /\ s \in Runs /\ shell' = [shell EXCEPT ![p] = s]
      /\ s.login = shell[p].login /\ s.source = shell[p].source /\ s.saw = shell[p].saw
  BY <1>1, GoesOn
<1> QED
  BY <1>2, <1>4, <1>5, <1>6, <1>7, <1>8, <1>9, RunMoves, FileStays

LEMMA DeleteStep ==
  ASSUME LoginAssumption, LoginInv, NEW p \in Shells, deleteCredentials(p)
  PROVE  LoginInv'
<1>1. PICK s : Goes(p, s, "loggedOut")
  BY DEF deleteCredentials, Shell, Goes
<1>2. /\ UNCHANGED <<scene, page, cookie, rows, list>> /\ shell[p].pc = "removing"
      /\ file' = IF shell[p].source = "file" THEN NoLogin ELSE file
  BY DEF deleteCredentials
<1>3. /\ past' \in [made : SUBSET KeyIds, approved : SUBSET Shells, denied : SUBSET Shells,
                    warned : SUBSET Keys, gone : SUBSET KeyIds, covered : BOOLEAN]
      /\ past'.made = past.made /\ past'.gone = past.gone /\ past'.approved = past.approved
      /\ past'.denied = past.denied /\ past'.warned = past.warned
      /\ ~past'.covered => ~past.covered /\ (shell[p].source = "file" => file = shell[p].saw)
  <2>1. CASE shell[p].source = "file"
    <3>1. past' = [past EXCEPT !.covered =
                     @ \/ file # shell[p].saw \/ (shell[p].source = "env" /\ file # NoLogin)]
      BY <2>1 DEF deleteCredentials, Covers
    <3> QED
      BY <3>1 DEF LoginInv, LoginTypeOK, RestType
  <2>2. CASE shell[p].source # "file"
    BY <2>2 DEF deleteCredentials, LoginInv, LoginTypeOK, RestType
  <2> QED
    BY <2>1, <2>2
<1>4. RowsKept /\ FewerRows
  BY <1>2, <1>3 DEF RowsKept, FewerRows
<1>5. Fits(file)' /\ file' \in Logins
  <2>1. NoLogin \in Logins
    BY CastLogins DEF LoginInv, LoginTypeOK, RestType
  <2> QED
    BY <1>2, <1>3, <2>1 DEF LoginInv, LoginTypeOK, RestType, Fits, Stands
<1>6. RestType'
  BY <1>2, <1>3, <1>5 DEF LoginInv, LoginTypeOK, RestType
<1>7. ShellFits(p)' /\ QueueFits(p)'
  BY <1>1, <1>2, <1>3, GoesOn DEF LoginInv, ShellsFit, ShellFits, QueuesFit, QueueFits, Fits, FitsCall, Stands
<1>8. KeysAccounted'
  <2> SUFFICES ASSUME ~past'.covered, NEW k \in KeyIds, Held(k)', k # file'.key
               PROVE  Accounted(k)'
    BY DEF KeysAccounted
  <2>1. Held(k)
    BY <1>1, <1>2, GoesOn DEF Held
  <2>2. CASE k = file.key
    <3>1. shell[p].source = "file" /\ shell[p].login = file
      BY <1>2, <1>3, <2>2 DEF LoginInv, ShellsFit, ShellFits
    <3>2. ~Stands(k)
      BY <1>2, <2>2, <3>1 DEF LoginInv, ShellsFit, ShellFits
    <3> QED
      BY <1>2, <3>2 DEF Accounted, Stands
  <2>3. CASE k # file.key
    <3>1. Accounted(k)
      BY <1>3, <2>1, <2>3 DEF LoginInv, KeysAccounted
    <3> QED
      BY <1>1, <1>2, <1>3, <3>1, GoesOn DEF Accounted, Stands
  <2> QED
    BY <2>2, <2>3
<1>9. /\ s \in Runs /\ shell' = [shell EXCEPT ![p] = s]
      /\ s.login = shell[p].login /\ s.source = shell[p].source /\ s.saw = shell[p].saw
  BY <1>1, GoesOn
<1> QED
  BY <1>2, <1>3, <1>4, <1>5, <1>6, <1>7, <1>8, <1>9, RunMoves

LEMMA OpenVaultStep ==
  ASSUME LoginAssumption, LoginInv, NEW p \in Shells, OpenVault(p)
  PROVE  LoginInv'
<1>1. UNCHANGED <<scene, file, page, cookie, rows, list, past>> /\ RowsKept /\ FewerRows
  BY DEF OpenVault, RowsKept, FewerRows
<1>2. shell[p] \in Runs /\ shell[p].pc \in {"opening", "using"} /\ shell[p].login # NoLogin
  BY DEF OpenVault, LoginInv, LoginTypeOK, ShellsFit, ShellFits
<1>3. shell[p].login.key \in KeyIds /\ Fits(shell[p].login)
  BY <1>2, LoginKeys DEF LoginInv, ShellsFit, ShellFits
<1>4. PICK s :
        /\ shell' = [shell EXCEPT ![p] = s]
        /\ s \in Runs /\ s.port = shell[p].port /\ s.queue = shell[p].queue
        /\ s.login = shell[p].login /\ s.source = shell[p].source /\ s.saw = shell[p].saw
        /\ s.got = shell[p].got
        /\ s.pc \in {"using", "keyRevoked"} \/ (s.pc = "open" /\ s.opened = shell[p].login.user)
  <2>1. CASE shell[p].pc = "opening"
    <3>1. PICK s : Goes(p, s, IF requireCliKey(shell[p].login) THEN "using" ELSE "keyRevoked")
      BY <2>1 DEF OpenVault, Shell, Goes
    <3> QED
      BY <3>1, GoesOn
  <2>2. CASE shell[p].pc = "using" /\ useCliKey(shell[p]) # [shell[p] EXCEPT !.pc = "keyRevoked"]
    <3>1. /\ Stands(shell[p].login.key) /\ rows[shell[p].login.key].pub = shell[p].login.pair
          /\ useCliKey(shell[p]) = [shell[p] EXCEPT !.pc = "open",
                                                    !.opened = rows[shell[p].login.key].dek]
      BY <2>2 DEF useCliKey
    <3>2. PICK dek \in Names : dek = rows[shell[p].login.key].dek /\ dek = shell[p].login.user
      BY <1>2, <1>3, <3>1 DEF LoginInv, LoginTypeOK, RestType, RowsAreWhole, Fits
    <3>3. PICK s : s = [shell[p] EXCEPT !.pc = "open", !.opened = dek]
      OBVIOUS
    <3>4. shell' = [shell EXCEPT ![p] = s]
      BY <2>2, <3>1, <3>2, <3>3 DEF OpenVault, Shell
    <3>5. /\ s \in Runs /\ s.port = shell[p].port /\ s.queue = shell[p].queue
          /\ s.login = shell[p].login /\ s.source = shell[p].source /\ s.saw = shell[p].saw
          /\ s.got = shell[p].got /\ s.pc = "open" /\ s.opened = dek
      BY <1>2, <3>3 DEF Runs
    <3> QED
      BY <3>2, <3>4, <3>5
  <2>3. CASE shell[p].pc = "using" /\ useCliKey(shell[p]) = [shell[p] EXCEPT !.pc = "keyRevoked"]
    <3>1. PICK s : Goes(p, s, "keyRevoked")
      BY <2>3 DEF OpenVault, Shell, Goes
    <3> QED
      BY <3>1, GoesOn
  <2> QED
    BY <1>2, <2>1, <2>2, <2>3
<1>5. shell'[p] = s
  BY <1>4 DEF LoginInv, LoginTypeOK
<1>6. ShellFits(p)' /\ QueueFits(p)'
  BY <1>1, <1>2, <1>4, <1>5
  DEF LoginInv, ShellsFit, ShellFits, QueuesFit, QueueFits, Fits, FitsCall, Stands
<1>7. KeysAccounted'
  BY <1>1, <1>2, <1>4, AccountedStays DEF LoginInv, LoginTypeOK
<1> QED
  BY <1>1, <1>4, <1>6, <1>7, RunMoves, FileStays DEF LoginInv, LoginTypeOK, RestType

-----------------------------------------------------------------------------
(* The steps of a tab. *)

\* A tab's step leaves the runs but for what waits at their ports.
RunsKept ==
  \A p \in Shells :
    /\ shell'[p].pc = shell[p].pc /\ shell'[p].login = shell[p].login /\ shell'[p].got = shell[p].got
    /\ shell'[p].source = shell[p].source /\ shell'[p].saw = shell[p].saw
    /\ shell'[p].port = shell[p].port /\ shell'[p].opened = shell[p].opened

LEMMA RunsStay ==
  ASSUME LoginInv, RunsKept, RowsKept
  PROVE  ShellsFit'
<1> SUFFICES ASSUME NEW p \in Shells PROVE ShellFits(p)'
  BY DEF ShellsFit
<1>1. Fits(shell[p].login)' /\ Fits(shell[p].got)'
  BY FitsStays DEF LoginInv, ShellsFit, ShellFits, Fits, Stands, RunsKept
<1>2. shell[p].pc = "removing" => ~Stands(shell[p].login.key)'
  BY DEF LoginInv, ShellsFit, ShellFits, Fits, RowsKept, Stands, RunsKept
<1> QED
  BY <1>1, <1>2 DEF LoginInv, ShellsFit, ShellFits, RowsKept, RunsKept

LEMMA TabKeeps ==
  ASSUME LoginAssumption, LoginInv, NEW t \in Tabs, NEW g \in Sheets, page' = [page EXCEPT ![t] = g],
         shell' \in [Shells -> Runs], RestType', RunsKept, RowsKept, UNCHANGED <<scene, file, list>>,
         past'.gone = past.gone, past'.covered = past.covered, past'.warned = past.warned,
         RowsAreWhole', PageFits(t)', QueuesFit'
  PROVE  LoginInv'
<1>1. LoginTypeOK' /\ \A u \in Tabs \ {t} : page'[u] = page[u]
  BY DEF LoginInv, LoginTypeOK
<1>2. PagesFit'
  BY <1>1, PageStays DEF LoginInv, PagesFit
<1>3. ShellsFit'
  BY RunsStay
<1>4. Fits(file)' /\ Fits(scene.file)' /\ Fits(scene.envLogin)'
  BY FitsStays DEF LoginInv, Fits, Stands
<1>5. KeysAccounted'
  BY AccountedStays DEF RunsKept
<1>6. RevokedLeavesTheList' /\ list'.keys \subseteq past'.made
  BY DEF LoginInv, RevokedLeavesTheList, RowsKept
<1> QED
  BY <1>1, <1>2, <1>3, <1>4, <1>5, <1>6 DEF LoginInv

\* A step of a tab alone.
LEMMA TabMoves ==
  ASSUME LoginAssumption, LoginInv, NEW t \in Tabs, NEW g \in Sheets, page' = [page EXCEPT ![t] = g],
         UNCHANGED <<scene, file, shell, rows, list, past>>, RestType', PageFits(t)'
  PROVE  LoginInv'
<1>1. RowsKept /\ RunsKept /\ FewerRows
  BY DEF RowsKept, RunsKept, FewerRows
<1>2. RowsAreWhole'
  BY DEF LoginInv, RowsAreWhole, Stands
<1>3. QueuesFit'
  BY <1>1, QueueStays DEF LoginInv, QueuesFit
<1>4. shell' \in [Shells -> Runs]
  BY DEF LoginInv, LoginTypeOK
<1> QED
  BY <1>1, <1>2, <1>3, <1>4, TabKeeps

LEMMA OpenLinkStep ==
  ASSUME LoginAssumption, LoginInv, NEW t \in Tabs, OpenLink(t)
  PROVE  LoginInv'
<1>1. UNCHANGED <<scene, file, shell, cookie, rows, list, past>>
  BY DEF OpenLink
<1>2. PICK p \in Shells : Page(t, [page[t] EXCEPT !.pc = "shown", !.link = p, !.port = shell[p].port])
  BY DEF OpenLink
<1>3. page[t] \in Sheets /\ shell[p].port \in Ports \cup {0}
  BY DEF LoginInv, LoginTypeOK, Runs
<1>4. PICK g : g = [page[t] EXCEPT !.pc = "shown", !.link = p, !.port = shell[p].port]
  OBVIOUS
<1>5. g \in Sheets /\ g.pc = "shown" /\ g.link = p /\ g.call = page[t].call
  BY <1>3, <1>4 DEF Sheets, PagePcs
<1>6. page' = [page EXCEPT ![t] = g] /\ page'[t] = g
  BY <1>2, <1>4 DEF Page, LoginInv, LoginTypeOK
<1>7. PageFits(t)'
  BY <1>1, <1>5, <1>6 DEF PageFits, LoginInv, PagesFit, FitsCall, Stands
<1> QED
  BY <1>1, <1>5, <1>6, <1>7, TabMoves DEF LoginInv, LoginTypeOK, RestType

LEMMA ApproveStep ==
  ASSUME LoginAssumption, LoginInv, NEW t \in Tabs, Approve(t)
  PROVE  LoginInv'
<1>1. /\ UNCHANGED <<scene, file, shell, cookie, rows, list, past>>
      /\ page[t].pc = "shown" /\ page[t].user # Nobody
  BY DEF Approve
<1>2. page[t] \in Sheets
  BY DEF LoginInv, LoginTypeOK
<1>3. PICK g : g = [page[t] EXCEPT !.pc = "wrapping", !.shown = page[t].user, !.current = TRUE]
  OBVIOUS
<1>4. /\ g \in Sheets /\ g.pc = "wrapping" /\ g.link = page[t].link /\ g.call = page[t].call
      /\ g.shown = page[t].user
  BY <1>2, <1>3 DEF Sheets, PagePcs
<1>5. page' = [page EXCEPT ![t] = g] /\ page'[t] = g
  BY <1>3 DEF Approve, Page, LoginInv, LoginTypeOK
<1>6. PageFits(t)'
  BY <1>1, <1>4, <1>5 DEF PageFits, LoginInv, PagesFit, FitsCall, Stands
<1> QED
  BY <1>1, <1>4, <1>5, <1>6, TabMoves DEF LoginInv, LoginTypeOK, RestType

\* A page that only goes from one place to another.
LEMMA PageGoes ==
  ASSUME LoginInv, NEW t \in Tabs, NEW pc \in {"posted", "shown", "confirming", "wrapping"},
         NEW g, g = [page[t] EXCEPT !.pc = pc], page' = [page EXCEPT ![t] = g],
         page[t].pc \in {"wrapping", "posted", "confirming", "admitted"},
         UNCHANGED <<rows, past>>
  PROVE  g \in Sheets /\ PageFits(t)'
<1>1. page[t] \in Sheets /\ page'[t] = g
  BY DEF LoginInv, LoginTypeOK
<1>2. /\ g \in Sheets /\ g.pc = pc /\ g.link = page[t].link /\ g.shown = page[t].shown
      /\ g.call = page[t].call
  BY <1>1 DEF Sheets, PagePcs
<1> QED
  BY <1>1, <1>2 DEF PageFits, LoginInv, PagesFit, FitsCall, Stands

LEMMA WrappedStep ==
  ASSUME LoginAssumption, LoginInv, NEW t \in Tabs, Wrapped(t)
  PROVE  LoginInv'
<1>1. UNCHANGED <<scene, file, shell, cookie, rows, list, past>> /\ page[t].pc = "wrapping"
  BY DEF Wrapped
<1>2. PICK pc, g : /\ pc \in {"posted", "shown"}
                  /\ g = [page[t] EXCEPT !.pc = pc] /\ page' = [page EXCEPT ![t] = g]
  BY DEF Wrapped, Page
<1>3. g \in Sheets /\ PageFits(t)'
  BY <1>1, <1>2, PageGoes
<1> QED
  BY <1>1, <1>2, <1>3, TabMoves DEF LoginInv, LoginTypeOK, RestType

LEMMA AdmitKeyStep ==
  ASSUME LoginAssumption, LoginInv, NEW t \in Tabs, AdmitKey(t)
  PROVE  LoginInv'
<1>1. UNCHANGED <<scene, file, shell, cookie, rows, list, past>> /\ page[t].pc = "posted"
  BY DEF AdmitKey
<1>2. CASE Named(page[t]) /\ cookie.fresh
  <2>1. page[t] \in Sheets /\ cookie.user \in Names /\ cookie.user = page[t].shown
    BY <1>2 DEF LoginInv, LoginTypeOK, RestType, Named
  <2>2. PICK g : g = [page[t] EXCEPT !.pc = "admitted", !.key = cookie.user]
    OBVIOUS
  <2>3. /\ g \in Sheets /\ g.pc = "admitted" /\ g.link = page[t].link /\ g.shown = page[t].shown
        /\ g.call = page[t].call /\ g.key = g.shown
    BY <2>1, <2>2 DEF Sheets, PagePcs
  <2>4. page' = [page EXCEPT ![t] = g] /\ page'[t] = g
    BY <1>2, <2>2 DEF AdmitKey, Page, LoginInv, LoginTypeOK
  <2>5. PageFits(t)'
    BY <1>1, <2>3, <2>4 DEF PageFits, LoginInv, PagesFit, FitsCall, Stands
  <2> QED
    BY <1>1, <2>3, <2>4, <2>5, TabMoves DEF LoginInv, LoginTypeOK, RestType
<1>3. CASE ~(Named(page[t]) /\ cookie.fresh)
  <2>0. PICK pc \in {"confirming", "shown"} : Page(t, [page[t] EXCEPT !.pc = pc])
    BY <1>3 DEF AdmitKey, Refused
  <2>1. PICK g : g = [page[t] EXCEPT !.pc = pc] /\ page' = [page EXCEPT ![t] = g]
    BY <2>0 DEF Page
  <2>2. g \in Sheets /\ PageFits(t)'
    BY <1>1, <2>1, PageGoes
  <2> QED
    BY <1>1, <2>1, <2>2, TabMoves DEF LoginInv, LoginTypeOK, RestType
<1> QED
  BY <1>2, <1>3

LEMMA CreateKeyStep ==
  ASSUME LoginAssumption, LoginInv, NEW t \in Tabs, createCliKey(t)
  PROVE  LoginInv'
<1>1. UNCHANGED <<scene, file, shell, cookie, list>> /\ page[t].pc = "admitted" /\ page[t] \in Sheets
  BY DEF createCliKey, LoginInv, LoginTypeOK
<1>2. page[t].link \in Shells /\ page[t].shown \in Names /\ page[t].key = page[t].shown
  BY <1>1 DEF LoginInv, PagesFit, PageFits, Sheets
<1>3. ASSUME NEW k \in KeyIds, k \notin past.made, past' = [past EXCEPT !.made = @ \cup {k}],
             rows' = [rows EXCEPT ![k] = [user |-> page[t].key, pub |-> page[t].link,
                                          dek |-> page[t].shown]],
             \/ Page(t, [page[t] EXCEPT !.pc = "minted", !.key = k])
             \/ Page(t, [page[t] EXCEPT !.pc = "shown", !.key = "none"])
      PROVE  LoginInv'
  <2>0. PICK pc \in {"minted", "shown"}, key \in Keys :
          Page(t, [page[t] EXCEPT !.pc = pc, !.key = key]) /\ (pc = "minted" => key = k)
    BY <1>3 DEF Keys
  <2>1. PICK g : g = [page[t] EXCEPT !.pc = pc, !.key = key] /\ page' = [page EXCEPT ![t] = g]
    BY <2>0 DEF Page
  <2>2. /\ g \in Sheets /\ g.pc = pc /\ g.key = key /\ g.link = page[t].link
        /\ g.shown = page[t].shown /\ g.call = page[t].call /\ page'[t] = g
    BY <1>1, <2>1 DEF Sheets, PagePcs, LoginInv, LoginTypeOK
  <2>3. PICK row : row = [user |-> page[t].key, pub |-> page[t].link, dek |-> page[t].shown]
    OBVIOUS
  <2>4. /\ row \in [user : Names, pub : Shells \cup Pairs, dek : Names]
        /\ row.user = page[t].shown /\ row.dek = page[t].shown /\ row.pub = page[t].link
    BY <1>2, <2>3
  <2>5. /\ rows' \in [KeyIds -> [user : Names, pub : Shells \cup Pairs, dek : Names]]
        /\ rows'[k] = row /\ \A l \in KeyIds \ {k} : rows'[l] = rows[l]
    BY <1>3, <2>3, <2>4 DEF LoginInv, LoginTypeOK, RestType
  <2>6. /\ past' \in [made : SUBSET KeyIds, approved : SUBSET Shells, denied : SUBSET Shells,
                      warned : SUBSET Keys, gone : SUBSET KeyIds, covered : BOOLEAN]
        /\ past'.made = past.made \cup {k} /\ past'.gone = past.gone /\ past'.approved = past.approved
        /\ past'.denied = past.denied /\ past'.warned = past.warned /\ past'.covered = past.covered
    BY <1>3 DEF LoginInv, LoginTypeOK, RestType
  <2>7. RowsKept /\ RunsKept
    BY <1>1, <1>3, <2>5, <2>6 DEF RowsKept, RunsKept, LoginInv, LoginTypeOK, RestType
  <2>8. RowsAreWhole'
    BY <1>3, <2>4, <2>5, <2>6 DEF LoginInv, LoginTypeOK, RestType, RowsAreWhole, Stands
  <2>9. PageFits(t)'
    <3>1. FitsCall(page[t].call)'
      BY <1>1, <2>7, <2>1, <2>2, FitsCallStays DEF LoginInv, PagesFit, PageFits, FitsCall, Stands
    <3> QED
      BY <1>1, <1>2, <2>0, <2>1, <2>2, <2>4, <2>5, <2>6, <3>1 DEF LoginInv, PagesFit, PageFits, Stands
  <2>10. QueuesFit'
    BY <1>1, <2>7, QueueStays DEF LoginInv, QueuesFit
  <2>11. shell' \in [Shells -> Runs] /\ RestType'
    BY <1>1, <2>5, <2>6 DEF LoginInv, LoginTypeOK, RestType
  <2> QED
    BY <1>1, <2>1, <2>2, <2>6, <2>7, <2>8, <2>9, <2>10, <2>11, TabKeeps
<1>4. ASSUME Page(t, [page[t] EXCEPT !.pc = "shown"]), UNCHANGED <<rows, past>>
      PROVE  LoginInv'
  <2>1. PICK g : g = [page[t] EXCEPT !.pc = "shown"] /\ page' = [page EXCEPT ![t] = g]
    BY <1>4 DEF Page
  <2>2. g \in Sheets /\ PageFits(t)'
    BY <1>1, <1>4, <2>1, PageGoes
  <2> QED
    BY <1>1, <1>4, <2>1, <2>2, TabMoves DEF LoginInv, LoginTypeOK, RestType
<1> QED
  BY <1>3, <1>4 DEF createCliKey

LEMMA ConfirmStep ==
  ASSUME LoginAssumption, LoginInv, NEW t \in Tabs, ConfirmIdentity(t)
  PROVE  LoginInv'
<1>1. UNCHANGED <<scene, file, shell, rows, list, past>> /\ page[t].pc = "confirming"
  BY DEF ConfirmIdentity
<1>2. cookie' \in [user : Names, fresh : BOOLEAN]
  <2>1. CASE \E u \in Accounts : cookie' = [user |-> u, fresh |-> TRUE]
    BY <2>1 DEF Names
  <2>2. CASE UNCHANGED cookie
    BY <2>2 DEF LoginInv, LoginTypeOK, RestType
  <2> QED
    BY <2>1, <2>2 DEF ConfirmIdentity
<1>0. PICK pc \in {"wrapping", "confirming", "shown"} : Page(t, [page[t] EXCEPT !.pc = pc])
  BY DEF ConfirmIdentity, confirmIdentity
<1>3. PICK g : g = [page[t] EXCEPT !.pc = pc] /\ page' = [page EXCEPT ![t] = g]
  BY <1>0 DEF Page
<1>4. g \in Sheets /\ PageFits(t)'
  BY <1>1, <1>3, PageGoes
<1> QED
  BY <1>1, <1>2, <1>3, <1>4, TabMoves DEF LoginInv, LoginTypeOK, RestType

LEMMA RelockStep ==
  ASSUME LoginAssumption, LoginInv, NEW t \in Tabs, Relock(t)
  PROVE  LoginInv'
<1>1. UNCHANGED <<scene, file, shell, cookie, rows, list, past>> /\ page[t] \in Sheets
  BY DEF Relock, LoginInv, LoginTypeOK
<1>2. PICK user, g :
        /\ user \in Names
        /\ g = [page[t] EXCEPT !.user = user, !.current = FALSE] /\ page' = [page EXCEPT ![t] = g]
  BY <1>1 DEF Relock, Page, LoginInv, LoginTypeOK, RestType, Names
<1>3. /\ g \in Sheets /\ g.pc = page[t].pc /\ g.key = page[t].key /\ g.link = page[t].link
      /\ g.shown = page[t].shown /\ g.call = page[t].call /\ page'[t] = g
  BY <1>1, <1>2 DEF Sheets, LoginInv, LoginTypeOK
<1>4. PageFits(t)'
  BY <1>1, <1>3 DEF LoginInv, PagesFit, PageFits, FitsCall, Stands
<1> QED
  BY <1>1, <1>2, <1>3, <1>4, TabMoves DEF LoginInv, LoginTypeOK, RestType

-----------------------------------------------------------------------------
(* What a page sends back. *)

\* A callback is queued at the port it names, of the run it is for.
LEMMA HeardStays ==
  ASSUME LoginInv, RowsKept, NEW c \in Calls, FitsCall(c)', Heard(c)
  PROVE  shell' \in [Shells -> Runs] /\ RunsKept /\ QueuesFit'
<1>1. ASSUME NEW p \in Shells
      PROVE  \E r \in Runs :
               /\ shell'[p] = r
               /\ r.pc = shell[p].pc /\ r.login = shell[p].login /\ r.got = shell[p].got
               /\ r.source = shell[p].source /\ r.saw = shell[p].saw
               /\ r.port = shell[p].port /\ r.opened = shell[p].opened
               /\ \/ r.queue = shell[p].queue
                  \/ r.queue = Append(shell[p].queue, c) /\ c.to = p
  <2>1. shell[p] \in Runs /\ shell[p].queue \in Seq(Calls)
    BY DEF LoginInv, LoginTypeOK, Runs
  <2>2. CASE c.port # 0 /\ CallsBack(p, c)
    <3>1. PICK q : q = Append(shell[p].queue, c)
      OBVIOUS
    <3>2. q \in Seq(Calls)
      BY <2>1, <3>1
    <3>3. PICK r : r = [shell[p] EXCEPT !.queue = q]
      OBVIOUS
    <3>4. shell'[p] = r
      BY <2>2, <3>1, <3>3 DEF Heard
    <3>5. /\ r \in Runs /\ r.queue = q
          /\ r.pc = shell[p].pc /\ r.login = shell[p].login /\ r.got = shell[p].got
          /\ r.source = shell[p].source /\ r.saw = shell[p].saw
          /\ r.port = shell[p].port /\ r.opened = shell[p].opened
      BY <2>1, <3>2, <3>3 DEF Runs
    <3> QED
      BY <2>2, <3>1, <3>4, <3>5 DEF CallsBack
  <2>3. CASE ~(c.port # 0 /\ CallsBack(p, c))
    BY <2>1, <2>3 DEF Heard
  <2> QED
    BY <2>2, <2>3
<1>2. shell' \in [Shells -> Runs]
  <2>1. \A p \in Shells : shell'[p] \in Runs
    BY <1>1
  <2>2. DOMAIN shell' = Shells /\ shell' = [p \in Shells |-> shell'[p]]
    BY DEF Heard
  <2> QED
    BY <2>1, <2>2
<1>3. RunsKept
  BY <1>1 DEF RunsKept
<1>4. ASSUME NEW p \in Shells
      PROVE  QueueFits(p)'
  <2>1. shell[p].queue \in Seq(Calls) /\ QueueFits(p)
    BY DEF LoginInv, LoginTypeOK, Runs, QueuesFit
  <2>2. CASE shell'[p].queue = shell[p].queue
    BY <2>1, <2>2, QueueStays
  <2>3. CASE shell'[p].queue = Append(shell[p].queue, c) /\ c.to = p
    <3> SUFFICES ASSUME NEW i \in 1..Len(shell'[p].queue)
                 PROVE  (shell[p].queue[i].to = p /\ FitsCall(shell[p].queue[i]))'
      BY DEF QueueFits
    <3>1. Len(shell'[p].queue) = Len(shell[p].queue) + 1
      BY <2>1, <2>3
    <3>2. CASE i \in 1..Len(shell[p].queue)
      <4>1. shell'[p].queue[i] = shell[p].queue[i]
        BY <2>1, <2>3, <3>2
      <4>2. shell[p].queue[i].to = p /\ FitsCall(shell[p].queue[i])
        BY <2>1, <3>2 DEF QueueFits
      <4>3. PICK d : d = shell[p].queue[i]
        OBVIOUS
      <4>4. FitsCall(d)'
        BY <4>2, <4>3, FitsCallStays
      <4> QED
        BY <4>1, <4>2, <4>3, <4>4 DEF FitsCall, Stands
    <3>3. CASE i = Len(shell[p].queue) + 1
      <4>1. shell'[p].queue[i] = c
        BY <2>1, <2>3, <3>3
      <4> QED
        BY <2>3, <4>1 DEF FitsCall, Stands
    <3> QED
      BY <2>1, <3>1, <3>2, <3>3
  <2> QED
    BY <1>1, <2>2, <2>3
<1> QED
  BY <1>2, <1>3, <1>4 DEF QueuesFit

\* A page that goes back with its answer.
LEMMA LeaveKeeps ==
  ASSUME LoginAssumption, LoginInv, NEW t \in Tabs, NEW what \in {"sealed", "denied"},
         NEW key \in Keys \cup Names, NEW user \in Names, Leave(t, what, key, user),
         RowsKept, RestType', UNCHANGED <<scene, file, rows, list>>,
         past'.made = past.made, past'.gone = past.gone, past'.warned = past.warned,
         past'.covered = past.covered, page[t].link \in Shells,
         what = "sealed" => /\ page[t].link \in past'.approved /\ key \in past.made
                            /\ Stands(key) => rows[key].pub = page[t].link /\ rows[key].user = user,
         what = "denied" => page[t].link \in past'.denied
  PROVE  LoginInv'
<1>1. PICK c : /\ c = [to |-> page[t].link, port |-> page[t].port, what |-> what, key |-> key, user |-> user]
               /\ Page(t, [page[t] EXCEPT !.pc = "left", !.call = c]) /\ Heard(c)
  BY DEF Leave
<1>2. page[t] \in Sheets
  BY DEF LoginInv, LoginTypeOK
<1>3. /\ c \in Calls /\ c.to = page[t].link /\ c.what = what /\ c.key = key /\ c.user = user
  BY <1>1, <1>2 DEF Calls, Sheets
<1>4. FitsCall(c)'
  BY <1>3 DEF FitsCall, Stands
<1>5. PICK g : g = [page[t] EXCEPT !.pc = "left", !.call = c]
  OBVIOUS
<1>6. g \in Sheets /\ g.pc = "left" /\ g.link = page[t].link /\ g.call = c
  BY <1>2, <1>3, <1>5 DEF Sheets, PagePcs
<1>7. page' = [page EXCEPT ![t] = g] /\ page'[t] = g
  BY <1>1, <1>5 DEF Page, LoginInv, LoginTypeOK
<1>8. PageFits(t)'
  <2>1. FitsCall(g.call)'
    BY <1>4, <1>6 DEF FitsCall, Stands
  <2> QED
    BY <1>6, <1>7, <2>1 DEF PageFits, FitsCall, Stands
<1>9. shell' \in [Shells -> Runs] /\ RunsKept /\ QueuesFit'
  BY <1>1, <1>3, <1>4, HeardStays
<1>10. RowsAreWhole'
  BY DEF LoginInv, RowsAreWhole, Stands
<1> QED
  BY <1>6, <1>7, <1>8, <1>9, <1>10, TabKeeps

LEMMA HandBackStep ==
  ASSUME LoginAssumption, LoginInv, NEW t \in Tabs, HandBack(t)
  PROVE  LoginInv'
<1>1. /\ UNCHANGED <<scene, file, cookie, rows, list>> /\ page[t].pc = "minted" /\ page[t] \in Sheets
      /\ Leave(t, "sealed", page[t].key, page[t].shown)
  BY DEF HandBack, LoginInv, LoginTypeOK
<1>2. /\ page[t].link \in Shells /\ page[t].shown \in Names /\ page[t].key \in past.made
      /\ page[t].key \in Keys \cup Names
      /\ Stands(page[t].key) => /\ rows[page[t].key].pub = page[t].link
                                /\ rows[page[t].key].user = page[t].shown
  BY <1>1 DEF LoginInv, PagesFit, PageFits, Sheets
<1>3. /\ past' \in [made : SUBSET KeyIds, approved : SUBSET Shells, denied : SUBSET Shells,
                    warned : SUBSET Keys, gone : SUBSET KeyIds, covered : BOOLEAN]
      /\ past'.made = past.made /\ past'.gone = past.gone /\ past'.denied = past.denied
      /\ past'.approved = past.approved \cup {page[t].link}
      /\ past'.warned = past.warned /\ past'.covered = past.covered
  BY <1>2 DEF HandBack, LoginInv, LoginTypeOK, RestType
<1>4. RowsKept
  BY <1>1, <1>3 DEF RowsKept
<1>5. RestType'
  BY <1>1, <1>3 DEF LoginInv, LoginTypeOK, RestType
<1>6. page[t].link \in past'.approved
  BY <1>3
<1> QED
  BY <1>1, <1>2, <1>3, <1>4, <1>5, <1>6, LeaveKeeps

LEMMA DenyStep ==
  ASSUME LoginAssumption, LoginInv, NEW t \in Tabs, Deny(t)
  PROVE  LoginInv'
<1>1. /\ UNCHANGED <<scene, file, cookie, rows, list>> /\ page[t].pc = "shown" /\ page[t] \in Sheets
      /\ Leave(t, "denied", "none", Nobody)
  BY DEF Deny, LoginInv, LoginTypeOK
<1>2. /\ page[t].link \in Shells /\ Nobody \in Names /\ "none" \in Keys \cup Names
  BY <1>1 DEF LoginInv, PagesFit, PageFits, Sheets, Names, Keys
<1>3. /\ past' \in [made : SUBSET KeyIds, approved : SUBSET Shells, denied : SUBSET Shells,
                    warned : SUBSET Keys, gone : SUBSET KeyIds, covered : BOOLEAN]
      /\ past'.made = past.made /\ past'.gone = past.gone /\ past'.approved = past.approved
      /\ past'.denied = past.denied \cup {page[t].link}
      /\ past'.warned = past.warned /\ past'.covered = past.covered
  BY <1>2 DEF Deny, LoginInv, LoginTypeOK, RestType
<1>4. RowsKept
  BY <1>1, <1>3 DEF RowsKept
<1>5. RestType'
  BY <1>1, <1>3 DEF LoginInv, LoginTypeOK, RestType
<1>6. page[t].link \in past'.denied
  BY <1>3
<1> QED
  BY <1>1, <1>2, <1>3, <1>4, <1>5, <1>6, LeaveKeeps

\* Of an old answer, and of an icon, nothing is taken that was not answered.
LEMMA AskAgainStep ==
  ASSUME LoginAssumption, LoginInv, NEW t \in Tabs, AskAgain(t)
  PROVE  LoginInv'
<1>1. UNCHANGED <<scene, file, page, cookie, rows, list, past>> /\ page[t] \in Sheets
  BY DEF AskAgain, LoginInv, LoginTypeOK
<1>2. page[t].call \in Calls /\ FitsCall(page[t].call)
  BY <1>1 DEF Sheets, LoginInv, PagesFit, PageFits, FitsCall, Stands
<1>3. PICK c \in {page[t].call, [page[t].call EXCEPT !.what = "blank"]} : Heard(c)
  BY DEF AskAgain
<1>4. c \in Calls /\ (c.what = "blank" \/ c = page[t].call)
  BY <1>2, <1>3 DEF Calls
<1>5. FitsCall(c)
  BY <1>2, <1>4 DEF FitsCall
<1>6. RowsKept
  BY <1>1 DEF RowsKept
<1>7. FitsCall(c)'
  BY <1>5, <1>6, FitsCallStays
<1>8. shell' \in [Shells -> Runs] /\ RunsKept /\ QueuesFit'
  BY <1>3, <1>4, <1>6, <1>7, HeardStays
<1>9. PageFits(t)'
  BY <1>1, <1>6, PageStays DEF LoginInv, PagesFit
<1>10. page' = [page EXCEPT ![t] = page[t]]
  BY <1>1 DEF LoginInv, LoginTypeOK
<1>11. RowsAreWhole'
  BY <1>1 DEF LoginInv, RowsAreWhole, Stands
<1> QED
  BY <1>1, <1>6, <1>8, <1>9, <1>10, <1>11, TabKeeps DEF LoginInv, LoginTypeOK, RestType

-----------------------------------------------------------------------------
(* The browser's other tabs, and Settings. *)

LEMMA OthersKeep ==
  ASSUME LoginAssumption, LoginInv, UNCHANGED <<scene, file, shell, page>>, RowsKept, RestType',
         past'.warned = past.warned, past'.covered = past.covered, RowsAreWhole',
         list'.keys \subseteq past'.made, RevokedLeavesTheList'
  PROVE  LoginInv'
<1>1. LoginTypeOK'
  BY DEF LoginInv, LoginTypeOK
<1>2. PagesFit'
  BY PageStays DEF LoginInv, PagesFit
<1>3. QueuesFit'
  BY QueueStays DEF LoginInv, QueuesFit
<1>4. ShellsFit'
  BY ShellStays DEF LoginInv, ShellsFit
<1>5. Fits(file)' /\ Fits(scene.file)' /\ Fits(scene.envLogin)'
  BY FitsStays DEF LoginInv, Fits, Stands
<1>6. KeysAccounted'
  BY AccountedStays
<1> QED
  BY <1>1, <1>2, <1>3, <1>4, <1>5, <1>6 DEF LoginInv

LEMMA SwitchAccountStep ==
  ASSUME LoginAssumption, LoginInv, SwitchAccount
  PROVE  LoginInv'
<1>1. UNCHANGED <<scene, file, shell, page, rows, list, past>>
  BY DEF SwitchAccount
<1>2. cookie' \in [user : Names, fresh : BOOLEAN]
  BY DEF SwitchAccount, Names
<1>3. RowsKept
  BY <1>1 DEF RowsKept
<1>4. RowsAreWhole'
  BY <1>1 DEF LoginInv, RowsAreWhole, Stands
<1>5. RevokedLeavesTheList' /\ list'.keys \subseteq past'.made
  BY <1>1 DEF LoginInv, RevokedLeavesTheList
<1> QED
  BY <1>1, <1>2, <1>3, <1>4, <1>5, OthersKeep DEF LoginInv, LoginTypeOK, RestType

\* What is gone is no row of an account, so it is not read.
LEMMA ReloadStep ==
  ASSUME LoginAssumption, LoginInv, Reload
  PROVE  LoginInv'
<1>1. UNCHANGED <<scene, file, shell, page, cookie, rows, past>>
  BY DEF Reload
<1>2. RowsKept
  BY <1>1 DEF RowsKept
<1>3. RowsAreWhole'
  BY <1>1 DEF LoginInv, RowsAreWhole, Stands
<1>4. Listed \subseteq past.made /\ Listed \cap past.gone = {} /\ Listed \subseteq KeyIds
  <2>1. list.user # Nobody
    BY DEF LoginAssumption, LoginInv, LoginTypeOK, RestType
  <2>2. \A k \in Listed : k \in KeyIds /\ Stands(k)
    BY <2>1 DEF Listed, Stands, NoRow
  <2> QED
    BY <2>2 DEF LoginInv, RowsAreWhole
<1>5. /\ list' \in [pc : {"idle", "reload"}, user : Accounts, keys : SUBSET KeyIds, stale : BOOLEAN]
      /\ \/ list'.keys = Listed
         \/ list'.keys = list.keys /\ list'.stale = TRUE
  BY <1>4 DEF Reload, LoginInv, LoginTypeOK, RestType
<1>6. RevokedLeavesTheList' /\ list'.keys \subseteq past'.made
  BY <1>1, <1>4, <1>5 DEF LoginInv, RevokedLeavesTheList
<1> QED
  BY <1>1, <1>2, <1>3, <1>5, <1>6, OthersKeep DEF LoginInv, LoginTypeOK, RestType

LEMMA RevokeCliKeyStep ==
  ASSUME LoginAssumption, LoginInv, revokeCliKey
  PROVE  LoginInv'
<1>1. UNCHANGED <<scene, file, shell, page, cookie>>
  BY DEF revokeCliKey
<1>2. PICK k \in list.keys : rows' = Without(k) /\ past' = [past EXCEPT !.gone = @ \cup {k}]
  BY DEF revokeCliKey
<1>3. k \in KeyIds /\ k \in past.made
  BY DEF LoginInv, LoginTypeOK, RestType
<1>4. /\ rows' \in [KeyIds -> [user : Names, pub : Shells \cup Pairs, dek : Names]]
      /\ rows'[k] = NoRow /\ FewerRows
  BY <1>2, <1>3, WithoutKey
<1>5. /\ past' \in [made : SUBSET KeyIds, approved : SUBSET Shells, denied : SUBSET Shells,
                    warned : SUBSET Keys, gone : SUBSET KeyIds, covered : BOOLEAN]
      /\ past'.made = past.made /\ past'.gone = past.gone \cup {k} /\ past'.approved = past.approved
      /\ past'.denied = past.denied /\ past'.warned = past.warned /\ past'.covered = past.covered
  BY <1>2, <1>3 DEF LoginInv, LoginTypeOK, RestType
<1>6. /\ list' \in [pc : {"idle", "reload"}, user : Accounts, keys : SUBSET KeyIds, stale : BOOLEAN]
      /\ list'.pc = "reload" /\ list'.keys = list.keys
  BY DEF revokeCliKey, LoginInv, LoginTypeOK, RestType
<1>7. RowsKept
  BY <1>4, <1>5 DEF RowsKept, FewerRows, LoginInv, LoginTypeOK, RestType
<1>8. RowsAreWhole'
  <2>1. \A l \in KeyIds : Stands(l)' => Stands(l) /\ rows'[l] = rows[l]
    BY <1>4 DEF FewerRows, Stands
  <2> QED
    BY <1>3, <1>4, <1>5, <2>1 DEF LoginInv, LoginTypeOK, RestType, RowsAreWhole, Stands
<1>9. RevokedLeavesTheList' /\ list'.keys \subseteq past'.made
  BY <1>5, <1>6 DEF LoginInv, RevokedLeavesTheList
<1>10. RestType'
  BY <1>1, <1>4, <1>5, <1>6 DEF LoginInv, LoginTypeOK, RestType
<1> QED
  BY <1>1, <1>5, <1>7, <1>8, <1>9, <1>10, OthersKeep

LEMMA SignOutOthersStep ==
  ASSUME LoginAssumption, LoginInv, SignOutOthers
  PROVE  LoginInv'
<1>1. UNCHANGED <<scene, file, shell, page, list, past>>
  BY DEF SignOutOthers
<1>2. PICK u \in Accounts :
        /\ rows' = [k \in KeyIds |-> IF rows[k].user = u THEN NoRow ELSE rows[k]]
        /\ cookie' = IF cookie.user = u THEN [user |-> Nobody, fresh |-> TRUE] ELSE cookie
  BY DEF SignOutOthers
<1>3. FewerRows /\ rows' \in [KeyIds -> [user : Names, pub : Shells \cup Pairs, dek : Names]]
  <2>1. NoRow \in [user : Names, pub : Shells \cup Pairs, dek : Names]
    BY DEF NoRow, Names, Pairs
  <2> QED
    BY <1>2, <2>1 DEF FewerRows, LoginInv, LoginTypeOK, RestType
<1>4. cookie' \in [user : Names, fresh : BOOLEAN]
  BY <1>2 DEF LoginInv, LoginTypeOK, RestType, Names
<1>5. RowsKept
  BY <1>1, <1>3 DEF RowsKept, FewerRows, LoginInv, LoginTypeOK, RestType
<1>6. RestType' /\ LoginTypeOK'
  BY <1>1, <1>3, <1>4 DEF LoginInv, LoginTypeOK, RestType
<1>7. RowsAreWhole'
  BY <1>1, <1>3, <1>6, RowsStay
<1>8. RevokedLeavesTheList' /\ list'.keys \subseteq past'.made
  BY <1>1 DEF LoginInv, RevokedLeavesTheList
<1> QED
  BY <1>1, <1>5, <1>6, <1>7, <1>8, OthersKeep

-----------------------------------------------------------------------------

LEMMA LoginStarts ==
  ASSUME LoginAssumption, LoginInit
  PROVE  LoginInv
<1>1. /\ scene \in LoginCasts /\ scene.file \in Logins /\ NoLogin \in Logins /\ file = scene.file
      /\ scene.account \in Accounts /\ scene.fresh \in BOOLEAN
  BY CastLogins DEF LoginInit, LoginAssumption
<1>2. PICK born : born = Unborn
  OBVIOUS
<1>3. /\ born \in Runs /\ born.pc = "unborn" /\ born.login = NoLogin /\ born.got = NoLogin
      /\ born.port = 0 /\ born.queue = <<>> /\ born.source = "file" /\ born.saw = NoLogin
  BY <1>1, <1>2 DEF Unborn, Runs, Names
<1>4. shell = [p \in Shells |-> born]
  BY <1>2 DEF LoginInit
<1>5. PICK blank : blank = NoPage
  OBVIOUS
<1>6. blank \in Sheets /\ blank.pc = "none" /\ blank.call.what = "none"
  <2>1. NoCall \in Calls /\ NoCall.what = "none"
    BY DEF NoCall, Calls, Names, Keys
  <2> QED
    BY <1>5, <2>1 DEF NoPage, Sheets, PagePcs, Names, Keys
<1>7. page \in [Tabs -> Sheets] /\ \A t \in Tabs : page[t].pc = "none" /\ page[t].call.what = "none"
  <2>1. page = [t \in Tabs |-> [blank EXCEPT !.user = IF t \in scene.tabs THEN scene.account ELSE Nobody]]
    BY <1>5 DEF LoginInit
  <2>2. ASSUME NEW t \in Tabs
        PROVE  page[t] \in Sheets /\ page[t].pc = "none" /\ page[t].call.what = "none"
    <3>1. PICK user \in Names : user = IF t \in scene.tabs THEN scene.account ELSE Nobody
      BY <1>1 DEF Names
    <3>2. page[t] = [blank EXCEPT !.user = user]
      BY <2>1, <3>1
    <3> QED
      BY <1>6, <3>2 DEF Sheets
  <2> QED
    BY <2>1, <2>2
<1>8. /\ rows \in [KeyIds -> [user : Names, pub : Shells \cup Pairs, dek : Names]]
      /\ \A k \in KeyIds : Stands(k) =>
           \E own \in {scene.file, scene.envLogin} :
             k = own.key /\ rows[k].user = own.user /\ rows[k].pub = own.pair /\ rows[k].dek = own.user
  <2>1. NoRow \in [user : Names, pub : Shells \cup Pairs, dek : Names]
    BY DEF NoRow, Names, Pairs
  <2>2. ASSUME NEW own \in {scene.file, scene.envLogin}
        PROVE  [user |-> own.user, pub |-> own.pair, dek |-> own.user]
                 \in [user : Names, pub : Shells \cup Pairs, dek : Names]
    BY <1>1, <2>2, CastLogins DEF Logins
  <2>3. ASSUME NEW k \in KeyIds
        PROVE  /\ rows[k] \in [user : Names, pub : Shells \cup Pairs, dek : Names]
               /\ Stands(k) => \E own \in {scene.file, scene.envLogin} :
                    k = own.key /\ rows[k].user = own.user /\ rows[k].pub = own.pair /\ rows[k].dek = own.user
    <3>1. \/ rows[k] = NoRow
          \/ \E own \in {scene.file, scene.envLogin} :
               k = own.key /\ rows[k] = [user |-> own.user, pub |-> own.pair, dek |-> own.user]
      BY <2>3 DEF LoginInit, Earlier
    <3> QED
      BY <2>1, <2>2, <3>1 DEF Stands
  <2> QED
    BY <2>3 DEF LoginInit
<1>9. /\ past \in [made : SUBSET KeyIds, approved : SUBSET Shells, denied : SUBSET Shells,
                   warned : SUBSET Keys, gone : SUBSET KeyIds, covered : BOOLEAN]
      /\ past.made = {scene.file.key, scene.envLogin.key} \ {"none"} /\ past.gone = {}
  <2>1. {scene.file.key, scene.envLogin.key} \subseteq Keys
    BY <1>1, CastLogins DEF Logins
  <2>2. {scene.file.key, scene.envLogin.key} \ {"none"} \subseteq KeyIds
    BY <2>1 DEF Keys
  <2> QED
    BY <2>2 DEF LoginInit
<1>10. /\ list \in [pc : {"idle", "reload"}, user : Accounts, keys : SUBSET KeyIds, stale : BOOLEAN]
       /\ list.keys = {}
  BY <1>1 DEF LoginInit
<1>11. cookie \in [user : Names, fresh : BOOLEAN]
  BY <1>1 DEF LoginInit, Names
<1>12. LoginTypeOK
  BY <1>1, <1>3, <1>4, <1>7, <1>8, <1>9, <1>10, <1>11 DEF LoginTypeOK, RestType
<1>13. RowsAreWhole
  BY <1>8, <1>9 DEF RowsAreWhole, LoginAssumption
<1>14. Fits(scene.file) /\ Fits(scene.envLogin)
  <2>1. ASSUME NEW own \in {scene.file, scene.envLogin}, own # NoLogin
        PROVE  Fits(own)
    <3>1. own.key \in KeyIds /\ own.key # "none"
      <4>1. own \in [key : KeyIds, user : Accounts, pair : {own.pair}] /\ "none" \notin KeyIds
        BY <1>1, <2>1 DEF LoginAssumption
      <4> QED
        BY <4>1
    <3>2. own.key \in past.made
      BY <1>9, <3>1, <2>1
    <3>3. ASSUME Stands(own.key)
          PROVE  rows[own.key].pub = own.pair /\ rows[own.key].user = own.user
      <4>1. PICK other \in {scene.file, scene.envLogin} :
              own.key = other.key /\ rows[own.key].user = other.user /\ rows[own.key].pub = other.pair
        BY <1>8, <3>1, <3>3
      <4>2. own = other
        BY <1>1, <2>1, <4>1 DEF LoginAssumption
      <4> QED
        BY <4>1, <4>2
    <3> QED
      BY <3>2, <3>3 DEF Fits
  <2> QED
    BY <2>1 DEF Fits
<1>15. PagesFit
  BY <1>7 DEF PagesFit, PageFits, FitsCall
<1>16. QueuesFit
  BY <1>3, <1>4 DEF QueuesFit, QueueFits
<1>17. ShellsFit
  BY <1>3, <1>4 DEF ShellsFit, ShellFits, Fits
<1>18. KeysAccounted
  BY <1>1, <1>3, <1>4 DEF KeysAccounted, Held
<1>19. list.keys \subseteq past.made /\ RevokedLeavesTheList
  BY <1>10 DEF RevokedLeavesTheList
<1> QED
  BY <1>1, <1>12, <1>13, <1>14, <1>15, <1>16, <1>17, <1>18, <1>19 DEF LoginInv

LEMMA LoginStops ==
  ASSUME LoginInv, UNCHANGED loginVars
  PROVE  LoginInv'
BY DEF LoginInv, loginVars, LoginTypeOK, RestType, RowsAreWhole, PagesFit, PageFits, QueuesFit, QueueFits,
       ShellsFit, ShellFits, Fits, FitsCall, KeysAccounted, Held, Accounted, RevokedLeavesTheList, Stands

LEMMA LoginSteps ==
  ASSUME LoginAssumption, LoginInv, [LoginNext]_loginVars
  PROVE  LoginInv'
<1>1. ASSUME NEW p \in Shells, Run(p)
      PROVE  LoginInv'
  BY <1>1, StartStep, AnswerCallbackStep, RespondedStep, TimeOutStep, SaveStep, RevokeStep, RevokeFailsStep,
     DeleteStep, OpenVaultStep DEF Run
<1>2. ASSUME NEW t \in Tabs, Browse(t)
      PROVE  LoginInv'
  BY <1>2, OpenLinkStep, ApproveStep, WrappedStep, AdmitKeyStep, CreateKeyStep, ConfirmStep, HandBackStep,
     DenyStep, AskAgainStep, RelockStep DEF Browse
<1>3. scene.tabs \subseteq Tabs
  BY DEF LoginAssumption, LoginInv, LoginTypeOK, RestType
<1> QED
  BY <1>1, <1>2, <1>3, SwitchAccountStep, ReloadStep, RevokeCliKeyStep, SignOutOthersStep, LoginStops
  DEF LoginNext

LEMMA LoginInvHolds ==
  ASSUME LoginAssumption, LoginInv
  PROVE  LoginsHold
<1>1. KeysAreWhole
  BY DEF LoginInv, KeysAreWhole, RowsAreWhole, Fits, ShellsFit, ShellFits
<1>2. LoginsEndAsAnswered
  BY DEF LoginInv, LoginsEndAsAnswered, ShellsFit, ShellFits
<1>3. NoKeyIsForgotten
  <2> SUFFICES ASSUME ~past.covered,
                      NEW k, k # "none", k # file.key,
                      \/ k = scene.file.key
                      \/ \E p \in Shells : shell[p].pc \in {"superseding", "loggedIn"} /\ k = shell[p].got.key
               PROVE  Accounted(k)
    BY DEF NoKeyIsForgotten, Accounted
  <2>1. k \in KeyIds
    <3>1. scene.file \in Logins
      BY CastLogins DEF LoginInv, LoginTypeOK, RestType
    <3> QED
      BY <3>1 DEF LoginInv, LoginTypeOK, Runs, Logins, Keys
  <2> QED
    BY <2>1 DEF LoginInv, KeysAccounted, Held
<1> QED
  BY <1>1, <1>2, <1>3 DEF LoginInv, LoginsHold

(***************************************************************************)
(* A key opens the account its approver was shown, a login ends as its own *)
(* page was answered, no key that the credentials held is forgotten, and a *)
(* key revoked is not offered again: for every number of runs, tabs,       *)
(* accounts, ports and keys.                                               *)
(***************************************************************************)
THEOREM LoginHolds == LoginAssumption => (LoginSpec => []LoginsHold)
<1> SUFFICES ASSUME LoginAssumption PROVE LoginSpec => []LoginsHold
  OBVIOUS
<1>1. LoginInit => LoginInv
  BY LoginStarts
<1>2. LoginInv /\ [LoginNext]_loginVars => LoginInv'
  BY LoginSteps
<1>3. LoginInv => LoginsHold
  BY LoginInvHolds
<1> QED
  BY <1>1, <1>2, <1>3, PTL DEF LoginSpec

-----------------------------------------------------------------------------
(* The wait: what its state is made of. *)

WaitCopies == [uid : Nat, mail : Mails]

Looks == [uidv : 0..2, lastUid : Int]

Stages == {"look", "fetch", "words", "idle", "answered", "failed", "timed out"}

Rounds(B) ==
  [stage : Stages, todo : SUBSET B, looks : [B -> Looks], grown : SUBSET B,
   fresh : [B -> SUBSET WaitCopies], candidates : SUBSET [mail : Mails, box : B],
   found : SUBSET Mails]

RoundType == round \in Rounds(Boxes)

InboxesType ==
  /\ caller \in WaitCasts
  /\ server \in [Boxes -> [uidv : {1, 2}, mail : Seq(Mails)]]
  /\ starts \in [Boxes -> Looks]
  /\ reached \in [Boxes -> Nat]
  /\ arrived \in [Boxes -> SUBSET WaitCopies]
  /\ failed \subseteq Boxes

-----------------------------------------------------------------------------
(* The invariant. *)

\* No mark is ahead of its inbox.
MarksFit ==
  \A b \in Boxes :
    /\ reached[b] <= Len(server[b].mail) /\ round.looks[b].lastUid <= Len(server[b].mail)
    /\ starts[b].uidv <= server[b].uidv /\ round.looks[b].uidv <= server[b].uidv

\* Only a watched box is asked anything, and what it has been asked is no older than what is read.
RoundFits ==
  /\ round.stage \in {"look", "fetch", "words"} => round.todo \cap failed = {}
  /\ round.stage = "look" =>
       \A b \in Watching \ round.todo : round.looks[b].lastUid >= reached[b]
  /\ round.stage \in {"look", "idle"} => \A b \in Boxes : round.fresh[b] = {}
  /\ round.stage = "fetch" =>
       \A b \in Boxes : /\ b \in round.todo => round.fresh[b] = {} /\ round.looks[b].lastUid > reached[b]
                        /\ round.fresh[b] # {} => b \notin failed
                        /\ round.fresh[b] \subseteq arrived[b]

HasArrived(m) == \E b \in Boxes : \E c \in arrived[b] : c.mail = m

\* What is looked for words in, and what is found, came during the wait and may match.
FoundFits ==
  /\ round.stage \in {"words", "answered"} => \A m \in round.found : IsWanted(m) /\ HasArrived(m)
  /\ round.stage = "words" => \A c \in round.candidates : IsWanted(c.mail) /\ HasArrived(c.mail)

\* A mail read and wanted is where the round still has it, or its server failed when asked.
InHand(b, m) ==
  \/ round.stage = "fetch" /\ \E c \in round.fresh[b] : c.mail = m
  \/ round.stage = "words" /\ (\/ m \in round.found
                               \/ \E c \in round.candidates :
                                    c.mail = m /\ c.box \in round.todo /\ m \in OfBody)

NoneSkipped ==
  round.stage \in {"look", "idle", "fetch", "words"} =>
    \A b \in Watching : \A u \in 1..reached[b] :
      u > starts[b].lastUid /\ starts[b].uidv = server[b].uidv /\ IsWanted(server[b].mail[u]) =>
        server[b].mail[u] \in judged \/ InHand(b, server[b].mail[u])

WaitInv ==
  /\ InboxesType /\ RoundType
  /\ MarksFit /\ RoundFits /\ FoundFits /\ NoneSkipped
  /\ IdlesOnWhatItSaw


-----------------------------------------------------------------------------
(* What the least and the greatest of a set are. *)

LEMMA LastUid ==
  ASSUME NEW r \in Nat, NEW n \in Nat, NEW l \in Int, r < l, l <= n
  PROVE  Max(((r + 1)..n) \cup {l}) = n
<1>1. PICK S : S = ((r + 1)..n) \cup {l}
  OBVIOUS
<1>2. n \in S /\ \A y \in S : y \in Int /\ n >= y
  BY <1>1
<1>3. \A x \in S : (\A y \in S : x >= y) => x = n
  BY <1>2
<1>4. Max(S) \in S /\ \A y \in S : Max(S) >= y
  BY <1>2 DEF Max
<1> QED
  BY <1>1, <1>3, <1>4

Below == {p \in Nat \X Nat : p[1] < p[2]}

LEMMA FirstOf ==
  ASSUME NEW S \in SUBSET Nat, S # {}
  PROVE  Min(S) \in S
<1>1. IsWellFoundedOn(Below, Nat)
  BY NatLessThanWellFounded DEF OpToRel, Below
<1>2. PICK x \in S : \A y \in S : ~ (<<y, x>> \in Below)
  BY <1>1, WFMin, Zenon
<1>3. \A y \in S : x =< y
  <2> SUFFICES ASSUME NEW y \in S, y < x PROVE FALSE
    OBVIOUS
  <2>1. <<y, x>> \in Below
    BY DEF Below
  <2> QED
    BY <1>2, <2>1
<1> QED
  BY <1>3 DEF Min

-----------------------------------------------------------------------------
(* The steps of a round. *)

BeginsWith(r, todo) == r = [NewRound EXCEPT !.todo = todo]

\* A new round has looked at nothing.
LEMMA Renewed ==
  ASSUME NEW r, NEW todo, BeginsWith(r, todo), todo \subseteq Boxes
  PROVE  /\ r \in Rounds(Boxes) /\ r.stage = "look" /\ r.todo = todo
         /\ \A b \in Boxes : r.looks[b] = NoLook /\ r.fresh[b] = {}
<1>1. PICK B : B = Boxes
  OBVIOUS
<1>2. PICK n : n = NewRound
  OBVIOUS
<1>3. PICK looks \in [B -> Looks] : looks = [b \in B |-> NoLook]
  <2>1. NoLook \in Looks
    BY DEF NoLook, Looks
  <2> QED
    BY <2>1
<1>4. PICK fresh \in [B -> SUBSET WaitCopies] : fresh = [b \in B |-> {}]
  OBVIOUS
<1>5. n = [stage |-> "look", todo |-> {}, looks |-> looks, grown |-> {}, fresh |-> fresh,
           candidates |-> {}, found |-> {}]
  BY <1>1, <1>2, <1>3, <1>4 DEF NewRound
<1>6. n \in Rounds(B) /\ n.stage = "look" /\ n.looks = looks /\ n.fresh = fresh
  BY <1>5 DEF Stages, Rounds
<1>7. r = [n EXCEPT !.todo = todo]
  BY <1>2 DEF BeginsWith
<1>8. r \in Rounds(B) /\ r.stage = "look" /\ r.todo = todo /\ r.looks = looks /\ r.fresh = fresh
  BY <1>1, <1>6, <1>7 DEF Rounds
<1> QED
  BY <1>1, <1>3, <1>4, <1>8

\* Where a round starts again, all it read is judged.
LEMMA RoundStarts ==
  ASSUME WaitInv, InboxesType', RoundType', round'.stage = "look",
         \A b \in Boxes : round'.looks[b] = NoLook /\ round'.fresh[b] = {},
         round'.todo = Boxes' \ failed', failed \subseteq failed',
         UNCHANGED <<caller, server, starts, reached, arrived, judged>>,
         round.stage = "idle" \/ (round.stage = "words" /\ round.todo = {} /\ round.found = {})
  PROVE  WaitInv'
<1>1. Boxes' = Boxes
  BY DEF Boxes
<1>2. MarksFit'
  <2>1. ASSUME NEW b \in Boxes
        PROVE  /\ round'.looks[b].lastUid = -1 /\ round'.looks[b].uidv = 0
               /\ Len(server[b].mail) \in Nat /\ server[b].uidv \in {1, 2}
    BY <2>1 DEF NoLook, WaitInv, InboxesType
  <2> QED
    BY <1>1, <2>1 DEF WaitInv, MarksFit
<1>3. RoundFits'
  BY <1>1 DEF RoundFits, Watching
<1>4. FoundFits' /\ IdlesOnWhatItSaw'
  BY DEF FoundFits, IdlesOnWhatItSaw
<1>5. NoneSkipped'
  BY <1>1 DEF WaitInv, NoneSkipped, InHand, Watching, IsWanted
<1> QED
  BY <1>2, <1>3, <1>4, <1>5 DEF WaitInv

LEMMA LookStep ==
  ASSUME WaitInv, NEW box \in Boxes, lookTask(box)
  PROVE  WaitInv'
<1>1. /\ UNCHANGED <<caller, server, starts, reached, arrived, dropped, failed, events, judged>>
      /\ round.stage = "look" /\ box \in round.todo
  BY DEF lookTask, Quiet
<1>2. Boxes' = Boxes /\ InboxesType'
  BY <1>1 DEF Boxes, WaitInv, InboxesType
<1>3. server[box].uidv \in {1, 2} /\ Len(server[box].mail) \in Nat
  BY DEF WaitInv, InboxesType
<1>4. PICK seen : seen = [uidv |-> server[box].uidv, lastUid |-> Len(server[box].mail)]
  OBVIOUS
<1>5. seen \in Looks /\ seen.uidv = server[box].uidv /\ seen.lastUid = Len(server[box].mail)
  BY <1>3, <1>4 DEF Looks
<1>6. PICK looks : looks = [round.looks EXCEPT ![box] = seen]
  OBVIOUS
<1>7. round' = [round EXCEPT !.todo = @ \ {box}, !.looks = looks]
  BY <1>4, <1>6 DEF lookTask
<1>8. /\ looks \in [Boxes -> Looks] /\ looks[box] = seen
      /\ \A b \in Boxes \ {box} : looks[b] = round.looks[b]
  BY <1>5, <1>6 DEF WaitInv, RoundType, Rounds
<1>9. /\ RoundType' /\ round'.stage = "look" /\ round'.todo = round.todo \ {box} /\ round'.looks = looks
      /\ round'.fresh = round.fresh
  BY <1>1, <1>2, <1>7, <1>8 DEF WaitInv, RoundType, Rounds
<1>10. MarksFit'
  BY <1>1, <1>2, <1>3, <1>4, <1>5, <1>8, <1>9 DEF WaitInv, MarksFit
<1>11. RoundFits'
  BY <1>1, <1>2, <1>3, <1>4, <1>5, <1>8, <1>9 DEF WaitInv, RoundFits, Watching, MarksFit
<1>12. FoundFits' /\ IdlesOnWhatItSaw'
  BY <1>9 DEF FoundFits, IdlesOnWhatItSaw
<1>13. NoneSkipped'
  BY <1>1, <1>2, <1>9 DEF WaitInv, NoneSkipped, InHand, Watching, IsWanted
<1> QED
  BY <1>2, <1>9, <1>10, <1>11, <1>12, <1>13 DEF WaitInv

LEMMA LookedStep ==
  ASSUME WaitInv, Looked
  PROVE  WaitInv'
<1>1. UNCHANGED <<caller, server, dropped, failed, events, judged>> /\ round.stage = "look" /\ round.todo = {}
  BY DEF Looked, Quiet
<1>2. Boxes' = Boxes /\ Watching \subseteq Boxes
  BY <1>1 DEF Boxes, Watching
<1>3. CASE Watching = {}
  <2>1. round' = [round EXCEPT !.stage = "failed"] /\ UNCHANGED <<starts, reached, arrived>>
    BY <1>3 DEF Looked, Ends
  <2>2. /\ RoundType' /\ round'.stage = "failed" /\ round'.looks = round.looks
    BY <1>2, <2>1 DEF WaitInv, RoundType, Rounds, Stages
  <2> QED
    BY <1>1, <1>2, <2>1, <2>2
    DEF WaitInv, InboxesType, MarksFit, RoundFits, FoundFits, NoneSkipped, IdlesOnWhatItSaw
<1>4. CASE Watching # {}
  <2>0. PICK restarted : restarted = {b \in Watching : IsFirst(b)}
    OBVIOUS
  <2>1. PICK grown :
          /\ grown = {b \in Watching \ restarted : round.looks[b].lastUid > reached[b]}
          /\ starts' = [b \in Boxes |-> IF b \in restarted THEN round.looks[b] ELSE starts[b]]
          /\ reached' = [b \in Boxes |-> IF b \in restarted THEN round.looks[b].lastUid ELSE reached[b]]
          /\ arrived' = [b \in Boxes |-> IF b \in restarted THEN {} ELSE arrived[b]]
          /\ round' = [round EXCEPT !.stage = IF grown = {} THEN "idle" ELSE "fetch",
                                    !.todo = grown, !.grown = grown]
    BY <1>4, <2>0 DEF Looked
  <2>2. \A b \in Watching : round.looks[b].lastUid \in Nat /\ round.looks[b].lastUid >= reached[b]
    BY <1>1, <1>2 DEF WaitInv, RoundFits, RoundType, Rounds, InboxesType, Looks
  <2>3. InboxesType'
    BY <1>1, <1>2, <2>0, <2>1, <2>2 DEF WaitInv, InboxesType, RoundType, Rounds, Looks
  <2>4. /\ RoundType' /\ round'.stage \in {"idle", "fetch"} /\ (round'.stage = "idle" => grown = {})
        /\ round'.todo = grown /\ round'.looks = round.looks /\ round'.fresh = round.fresh
    BY <1>2, <2>0, <2>1 DEF WaitInv, RoundType, Rounds, Stages
  <2>5. MarksFit'
    BY <1>1, <1>2, <2>0, <2>1, <2>4 DEF WaitInv, MarksFit
  <2>6. RoundFits'
    BY <1>1, <1>2, <2>0, <2>1, <2>4 DEF WaitInv, RoundFits, Watching, InboxesType
  <2>7. FoundFits'
    BY <2>4 DEF FoundFits
  <2>8. IdlesOnWhatItSaw'
    <3> SUFFICES ASSUME round'.stage = "idle", NEW b \in Watching
                 PROVE  starts'[b].uidv = round.looks[b].uidv /\ reached'[b] = round.looks[b].lastUid
      BY <1>1, <1>2, <2>4 DEF IdlesOnWhatItSaw, Watching
    <3>1. /\ b \in Boxes /\ round.looks[b].lastUid \in Nat /\ reached[b] \in Nat
          /\ round.looks[b].lastUid >= reached[b]
      BY <1>2, <2>2 DEF WaitInv, InboxesType
    <3>2. CASE b \in restarted
      BY <2>1, <3>1, <3>2
    <3>3. CASE b \notin restarted
      <4>1. starts[b].uidv = round.looks[b].uidv /\ ~(round.looks[b].lastUid > reached[b])
        BY <2>0, <2>1, <2>4, <3>3 DEF IsFirst
      <4> QED
        BY <2>1, <3>1, <3>3, <4>1
    <3> QED
      BY <3>2, <3>3
  <2>9. NoneSkipped'
    <3> SUFFICES ASSUME NEW b \in Watching, NEW u \in 1..reached'[b], u > starts'[b].lastUid,
                        starts'[b].uidv = server[b].uidv, IsWanted(server[b].mail[u])
                 PROVE  server[b].mail[u] \in judged
      BY <1>1, <1>2 DEF NoneSkipped, Watching, IsWanted
    <3>1. b \notin restarted
      BY <1>2, <2>0, <2>1, <2>2
    <3> QED
      BY <1>1, <1>2, <2>0, <2>1, <3>1 DEF WaitInv, NoneSkipped, InHand
  <2> QED
    BY <2>3, <2>4, <2>5, <2>6, <2>7, <2>8, <2>9 DEF WaitInv
<1> QED
  BY <1>3, <1>4

LEMMA ArrivalsStep ==
  ASSUME WaitInv, NEW box \in Boxes, arrivalsTask(box)
  PROVE  WaitInv'
<1>1. /\ UNCHANGED <<caller, server, starts, dropped, failed, events, judged>>
      /\ round.stage = "fetch" /\ box \in round.todo
  BY DEF arrivalsTask, Quiet
<1>2. Boxes' = Boxes
  BY <1>1 DEF Boxes
<1>3. PICK mails, uids, answer :
        /\ mails = server[box].mail /\ uids = (reached[box] + 1)..Len(mails)
        /\ answer = {[uid |-> u, mail |-> mails[u]] : u \in uids}
        /\ round' = [round EXCEPT !.todo = @ \ {box}, !.fresh[box] = answer]
        /\ arrived' = [arrived EXCEPT ![box] = @ \cup answer]
        /\ reached' = [reached EXCEPT ![box] = Max(uids \cup {round.looks[box].lastUid})]
  BY DEF arrivalsTask
<1>4. /\ mails \in Seq(Mails) /\ reached[box] \in Nat /\ round.looks[box].lastUid \in Int
      /\ reached[box] < round.looks[box].lastUid /\ round.looks[box].lastUid <= Len(mails)
      /\ Len(mails) \in Nat
  BY <1>1, <1>3 DEF WaitInv, InboxesType, RoundType, Rounds, RoundFits, MarksFit, Looks
<1>5. /\ reached' \in [Boxes -> Nat] /\ reached'[box] = Len(mails)
      /\ \A b \in Boxes \ {box} : reached'[b] = reached[b]
  <2>1. Max(uids \cup {round.looks[box].lastUid}) = Len(mails)
    BY <1>3, <1>4, LastUid
  <2> QED
    BY <1>3, <1>4, <2>1 DEF WaitInv, InboxesType
<1>6. answer \subseteq WaitCopies /\ \A u \in uids : \E c \in answer : c.mail = mails[u]
  <2>1. \A u \in uids : u \in Nat /\ mails[u] \in Mails
    BY <1>3, <1>4
  <2>2. ASSUME NEW u \in uids, NEW c, c = [uid |-> u, mail |-> mails[u]]
        PROVE  c \in WaitCopies /\ c.mail = mails[u]
    BY <2>1, <2>2 DEF WaitCopies
  <2>3. \A c \in answer : \E u \in uids : c = [uid |-> u, mail |-> mails[u]]
    BY <1>3
  <2>4. \A u \in uids : [uid |-> u, mail |-> mails[u]] \in answer
    BY <1>3
  <2> QED
    BY <2>2, <2>3, <2>4
<1>7. /\ arrived' \in [Boxes -> SUBSET WaitCopies] /\ arrived'[box] = arrived[box] \cup answer
      /\ \A b \in Boxes \ {box} : arrived'[b] = arrived[b]
  BY <1>3, <1>6 DEF WaitInv, InboxesType
<1>8. PICK fresh : fresh = [round.fresh EXCEPT ![box] = answer]
  OBVIOUS
<1>9. /\ fresh \in [Boxes -> SUBSET WaitCopies] /\ fresh[box] = answer
      /\ \A b \in Boxes \ {box} : fresh[b] = round.fresh[b]
  BY <1>6, <1>8 DEF WaitInv, RoundType, Rounds
<1>10. round' = [round EXCEPT !.todo = @ \ {box}, !.fresh = fresh]
  BY <1>3, <1>8
<1>11. /\ RoundType' /\ round'.stage = "fetch" /\ round'.todo = round.todo \ {box} /\ round'.fresh = fresh
       /\ round'.looks = round.looks
  BY <1>1, <1>2, <1>9, <1>10 DEF WaitInv, RoundType, Rounds
<1>12. InboxesType'
  BY <1>1, <1>2, <1>5, <1>7 DEF WaitInv, InboxesType
<1>13. MarksFit'
  BY <1>1, <1>2, <1>3, <1>4, <1>5, <1>11 DEF WaitInv, MarksFit
<1>14. RoundFits'
  BY <1>1, <1>2, <1>5, <1>7, <1>9, <1>11 DEF WaitInv, RoundFits
<1>15. FoundFits' /\ IdlesOnWhatItSaw'
  BY <1>11 DEF FoundFits, IdlesOnWhatItSaw
<1>16. NoneSkipped'
  <2> SUFFICES ASSUME NEW b \in Watching, NEW u \in 1..reached'[b], u > starts[b].lastUid,
                      starts[b].uidv = server[b].uidv, IsWanted(server[b].mail[u])
               PROVE  server[b].mail[u] \in judged \/ \E c \in fresh[b] : c.mail = server[b].mail[u]
    BY <1>1, <1>2, <1>11 DEF NoneSkipped, Watching, IsWanted, InHand
  <2>1. CASE b = box /\ u \in uids
    BY <1>3, <1>6, <1>9, <2>1
  <2>2. CASE ~(b = box /\ u \in uids)
    <3>1. u \in 1..reached[b]
      BY <1>2, <1>3, <1>4, <1>5, <2>2 DEF Watching
    <3>2. server[b].mail[u] \in judged \/ \E c \in round.fresh[b] : c.mail = server[b].mail[u]
      BY <1>1, <3>1 DEF WaitInv, NoneSkipped, InHand
    <3>3. round.fresh[box] = {}
      BY <1>1 DEF WaitInv, RoundFits
    <3> QED
      BY <1>9, <3>2, <3>3 DEF Watching
  <2> QED
    BY <2>1, <2>2
<1> QED
  BY <1>11, <1>12, <1>13, <1>14, <1>15, <1>16 DEF WaitInv

\* Of what arrived, all that may match is found at once, or asked of a server still watched.
LEMMA MatchingStep ==
  ASSUME WaitAssumption, WaitInv, matching
  PROVE  WaitInv'
<1>1. /\ UNCHANGED <<caller, server, starts, reached, arrived, dropped, failed, events, judged>>
      /\ round.stage = "fetch" /\ round.todo = {}
  BY DEF matching, Quiet
<1>2. Boxes' = Boxes /\ InboxesType' /\ Boxes \subseteq Nat
  BY <1>1 DEF Boxes, WaitInv, InboxesType, WaitAssumption
<1>3. PICK fresh, wanted, candidates, asked, found :
        /\ fresh = UNION {{c.mail : c \in round.fresh[b]} : b \in Boxes}
        /\ wanted = {n \in fresh \cap (OfSummary \cup OfBody) : IsNew(n)}
        /\ candidates = {[mail |-> m, box |-> Min(FreshIn(m))] : m \in wanted}
        /\ asked = {c.box : c \in {d \in candidates : d.mail \notin OfSummary}}
        /\ found = {c.mail : c \in {d \in candidates : d.mail \in OfSummary}}
        /\ round' = [round EXCEPT !.stage = "words", !.candidates = candidates,
                                  !.todo = asked \cap Watching, !.found = found]
  BY DEF matching
<1>4. ASSUME NEW m \in wanted
      PROVE  /\ m \in Mails /\ IsWanted(m) /\ HasArrived(m)
             /\ Min(FreshIn(m)) \in Watching
  <2>0. PICK b \in Boxes : \E c \in round.fresh[b] : c.mail = m
    BY <1>3
  <2>1. PICK c \in round.fresh[b] : c.mail = m
    BY <2>0
  <2>2. m \in Mails
    BY <2>1 DEF WaitInv, RoundType, Rounds, WaitCopies
  <2>3. IsWanted(m)
    BY <1>3 DEF IsWanted, IsNew
  <2>4. c \in arrived[b]
    BY <1>1, <2>1 DEF WaitInv, RoundFits
  <2>5. Min(FreshIn(m)) \in FreshIn(m)
    <3>1. FreshIn(m) \in SUBSET Nat /\ FreshIn(m) # {}
      BY <1>2, <2>1 DEF FreshIn
    <3> QED
      BY <3>1, FirstOf
  <2>6. \A d \in FreshIn(m) : d \in Boxes /\ d \notin failed
    BY <1>1 DEF FreshIn, WaitInv, RoundFits
  <2> QED
    BY <2>1, <2>2, <2>3, <2>4, <2>5, <2>6 DEF HasArrived, Watching
<1>5. ASSUME NEW d \in candidates
      PROVE  /\ d \in [mail : Mails, box : Boxes] /\ IsWanted(d.mail) /\ HasArrived(d.mail)
             /\ d.box \in Watching
  <2>1. PICK m \in wanted : d = [mail |-> m, box |-> Min(FreshIn(m))]
    BY <1>3
  <2>2. d.mail = m /\ d.box = Min(FreshIn(m)) /\ d = [mail |-> d.mail, box |-> d.box]
    BY <2>1
  <2>3. d.mail \in Mails /\ d.box \in Boxes
    BY <1>4, <2>2 DEF Watching
  <2>4. d \in [mail : Mails, box : Boxes]
    BY <2>2, <2>3
  <2> QED
    BY <1>4, <2>2, <2>4
<1>6. ASSUME NEW m \in wanted
      PROVE  \E d \in candidates : d.mail = m
  <2>1. PICK d : d = [mail |-> m, box |-> Min(FreshIn(m))]
    OBVIOUS
  <2>2. d \in candidates /\ d.mail = m
    BY <1>3, <2>1
  <2> QED
    BY <2>2
<1>7. /\ candidates \subseteq [mail : Mails, box : Boxes]
      /\ \A m \in found : m \in Mails /\ IsWanted(m) /\ HasArrived(m)
      /\ asked \cap Watching \subseteq Boxes
      /\ \A d \in candidates : d.mail \in OfSummary => d.mail \in found
      /\ \A d \in candidates : d.mail \notin OfSummary => d.box \in asked \cap Watching
  <2>1. \A m \in found : \E d \in candidates : d.mail = m
    BY <1>3
  <2>2. \A d \in candidates : d.mail \in OfSummary => d.mail \in found
    BY <1>3
  <2>3. \A d \in candidates : d.mail \notin OfSummary => d.box \in asked
    BY <1>3
  <2>4. \A d \in candidates : d.mail \in Mails
    BY <1>5
  <2> QED
    BY <1>5, <2>1, <2>2, <2>3, <2>4 DEF Watching
<1>8. /\ RoundType' /\ round'.stage = "words" /\ round'.todo = asked \cap Watching
      /\ round'.candidates = candidates /\ round'.found = found /\ round'.looks = round.looks
  BY <1>2, <1>3, <1>7 DEF WaitInv, RoundType, Rounds, Stages
<1>9. MarksFit'
  BY <1>1, <1>2, <1>8 DEF WaitInv, MarksFit
<1>10. RoundFits'
  BY <1>1, <1>8 DEF RoundFits, Watching
<1>11. FoundFits'
  BY <1>1, <1>2, <1>5, <1>7, <1>8 DEF FoundFits, IsWanted, HasArrived
<1>12. IdlesOnWhatItSaw'
  BY <1>8 DEF IdlesOnWhatItSaw
<1>13. NoneSkipped'
  <2> SUFFICES ASSUME NEW b \in Watching, NEW u \in 1..reached[b], u > starts[b].lastUid,
                      starts[b].uidv = server[b].uidv, NEW m, m = server[b].mail[u], IsWanted(m)
               PROVE  \/ m \in judged \/ m \in found
                      \/ \E d \in candidates : d.mail = m /\ d.box \in asked \cap Watching /\ m \in OfBody
    BY <1>1, <1>2, <1>8 DEF NoneSkipped, Watching, IsWanted, InHand
  <2>1. m \in judged \/ \E c \in round.fresh[b] : c.mail = m
    BY <1>1 DEF WaitInv, NoneSkipped, InHand
  <2>2. CASE \E c \in round.fresh[b] : c.mail = m
    <3>1. m \in wanted
      BY <1>3, <2>2 DEF IsWanted, IsNew, Watching
    <3>2. PICK d \in candidates : d.mail = m
      BY <1>6, <3>1
    <3> QED
      BY <1>7, <3>2 DEF IsWanted
  <2> QED
    BY <2>1, <2>2
<1> QED
  BY <1>2, <1>8, <1>9, <1>10, <1>11, <1>12, <1>13 DEF WaitInv

LEMMA BodySearchStep ==
  ASSUME WaitInv, NEW box \in Boxes, bodySearchTask(box)
  PROVE  WaitInv'
<1>1. /\ UNCHANGED <<caller, server, starts, reached, arrived, dropped, failed, events, judged>>
      /\ round.stage = "words" /\ box \in round.todo
  BY DEF bodySearchTask, Quiet
<1>2. Boxes' = Boxes /\ InboxesType'
  BY <1>1 DEF Boxes, WaitInv, InboxesType
<1>3. PICK holding :
        /\ holding = {c.mail : c \in {d \in round.candidates : d.box = box /\ d.mail \in OfBody}}
        /\ round' = [round EXCEPT !.todo = @ \ {box}, !.found = @ \cup holding]
  BY DEF bodySearchTask
<1>4. /\ \A m \in holding : \E d \in round.candidates : d.mail = m
      /\ \A d \in round.candidates : d.box = box /\ d.mail \in OfBody => d.mail \in holding
  BY <1>3
<1>5. holding \subseteq Mails
  BY <1>4 DEF WaitInv, RoundType, Rounds
<1>6. /\ RoundType' /\ round'.stage = "words" /\ round'.todo = round.todo \ {box}
      /\ round'.candidates = round.candidates /\ round'.found = round.found \cup holding
      /\ round'.looks = round.looks
  BY <1>1, <1>2, <1>3, <1>5 DEF WaitInv, RoundType, Rounds
<1>7. MarksFit'
  BY <1>1, <1>2, <1>6 DEF WaitInv, MarksFit
<1>8. RoundFits'
  BY <1>1, <1>6 DEF WaitInv, RoundFits
<1>9. FoundFits'
  BY <1>1, <1>2, <1>4, <1>6 DEF WaitInv, FoundFits, IsWanted, HasArrived
<1>10. IdlesOnWhatItSaw'
  BY <1>6 DEF IdlesOnWhatItSaw
<1>11. NoneSkipped'
  BY <1>1, <1>2, <1>4, <1>6 DEF WaitInv, NoneSkipped, Watching, IsWanted, InHand
<1> QED
  BY <1>2, <1>6, <1>7, <1>8, <1>9, <1>10, <1>11 DEF WaitInv

LEMMA MatchedStep ==
  ASSUME WaitAssumption, WaitInv, Matched
  PROVE  WaitInv'
<1>1. /\ UNCHANGED <<caller, server, starts, reached, arrived, dropped, failed, events, judged>>
      /\ round.stage = "words" /\ round.todo = {}
  BY DEF Matched, Quiet
<1>2. Boxes' = Boxes /\ InboxesType' /\ Boxes \in SUBSET Nat
  BY <1>1 DEF Boxes, WaitInv, InboxesType, WaitAssumption
<1>3. CASE round.found # {}
  <2>1. round' = [round EXCEPT !.stage = "answered"]
    BY <1>3 DEF Matched
  <2>2. /\ RoundType' /\ round'.stage = "answered" /\ round'.found = round.found /\ round'.looks = round.looks
    BY <1>2, <2>1 DEF WaitInv, RoundType, Rounds, Stages
  <2>3. FoundFits'
    BY <1>1, <1>2, <2>2 DEF WaitInv, FoundFits, IsWanted, HasArrived
  <2>4. MarksFit'
    BY <1>1, <1>2, <2>2 DEF WaitInv, MarksFit
  <2> QED
    BY <1>2, <2>2, <2>3, <2>4 DEF WaitInv, RoundFits, NoneSkipped, IdlesOnWhatItSaw
<1>4. CASE round.found = {}
  <2>1. PICK r : BeginsWith(r, Watching) /\ round' = r
    BY <1>4 DEF Matched, BeginsWith
  <2>2. Watching \in SUBSET Boxes
    BY DEF Watching
  <2>3. /\ RoundType' /\ round'.stage = "look" /\ round'.todo = Watching
        /\ \A b \in Boxes : round'.looks[b] = NoLook /\ round'.fresh[b] = {}
    BY <1>2, <2>1, <2>2, Renewed DEF RoundType
  <2> QED
    BY <1>1, <1>2, <1>4, <2>3, RoundStarts DEF Watching
<1> QED
  BY <1>3, <1>4

LEMMA IdleEndsStep ==
  ASSUME WaitAssumption, WaitInv, NEW box \in Boxes, IdleEnds(box)
  PROVE  WaitInv'
<1>1. /\ UNCHANGED <<caller, server, starts, reached, arrived, failed, events, judged>>
      /\ round.stage = "idle"
  BY DEF IdleEnds, Quiet
<1>2. Boxes' = Boxes /\ InboxesType' /\ Boxes \in SUBSET Nat
  BY <1>1 DEF Boxes, WaitInv, InboxesType, WaitAssumption
<1>3. PICK r : BeginsWith(r, Watching) /\ round' = r
  BY DEF IdleEnds, BeginsWith
<1>4. Watching \in SUBSET Boxes
  BY DEF Watching
<1>5. /\ RoundType' /\ round'.stage = "look" /\ round'.todo = Watching
      /\ \A b \in Boxes : round'.looks[b] = NoLook /\ round'.fresh[b] = {}
  BY <1>2, <1>3, <1>4, Renewed DEF RoundType
<1> QED
  BY <1>1, <1>2, <1>5, RoundStarts DEF Watching

LEMMA IdleDropsStep ==
  ASSUME WaitAssumption, WaitInv, NEW box \in Boxes, IdleDrops(box)
  PROVE  WaitInv'
<1>1. /\ UNCHANGED <<caller, server, starts, reached, arrived, judged>>
      /\ round.stage = "idle" /\ failed' \in {failed, failed \cup {box}}
  BY DEF IdleDrops
<1>2. Boxes' = Boxes /\ InboxesType' /\ Boxes \in SUBSET Nat
  BY <1>1 DEF Boxes, WaitInv, InboxesType, WaitAssumption
<1>3. PICK r, todo : todo = Boxes \ failed' /\ BeginsWith(r, todo) /\ round' = r
  BY DEF IdleDrops, BeginsWith
<1>4. todo \in SUBSET Boxes
  BY <1>3
<1>5. /\ RoundType' /\ round'.stage = "look" /\ round'.todo = todo
      /\ \A b \in Boxes : round'.looks[b] = NoLook /\ round'.fresh[b] = {}
  BY <1>2, <1>3, <1>4, Renewed DEF RoundType
<1> QED
  BY <1>1, <1>2, <1>3, <1>5, RoundStarts

\* What a failing server was asked is judged, and its box watched no more.
LEMMA ServerFailsStep ==
  ASSUME WaitInv, NEW box \in Boxes, ServerFails(box)
  PROVE  WaitInv'
<1>1. /\ UNCHANGED <<caller, server, starts, reached, arrived, dropped>>
      /\ round.stage \in {"look", "fetch", "words"} /\ box \in round.todo /\ failed' = failed \cup {box}
      /\ round' = [round EXCEPT !.todo = @ \ {box}]
  BY DEF ServerFails
<1>2. Boxes' = Boxes /\ InboxesType'
  BY <1>1 DEF Boxes, WaitInv, InboxesType
<1>3. /\ judged \subseteq judged'
      /\ \A d \in round.candidates : d.box = box => d.mail \in judged'
  BY DEF ServerFails
<1>4. /\ RoundType' /\ round'.stage = round.stage /\ round'.todo = round.todo \ {box}
      /\ round'.looks = round.looks /\ round'.fresh = round.fresh
      /\ round'.candidates = round.candidates /\ round'.found = round.found
  BY <1>1, <1>2 DEF WaitInv, RoundType, Rounds
<1>5. MarksFit'
  BY <1>1, <1>2, <1>4 DEF WaitInv, MarksFit
<1>6. RoundFits'
  BY <1>1, <1>2, <1>4 DEF WaitInv, RoundFits, Watching
<1>7. FoundFits'
  BY <1>1, <1>2, <1>4 DEF WaitInv, FoundFits, IsWanted, HasArrived
<1>8. IdlesOnWhatItSaw'
  BY <1>1, <1>4 DEF IdlesOnWhatItSaw
<1>9. NoneSkipped'
  BY <1>1, <1>2, <1>3, <1>4 DEF WaitInv, NoneSkipped, Watching, IsWanted, InHand
<1> QED
  BY <1>2, <1>4, <1>5, <1>6, <1>7, <1>8, <1>9 DEF WaitInv

LEMMA TimedOutStep ==
  ASSUME WaitInv, TimedOut
  PROVE  WaitInv'
<1>1. /\ UNCHANGED <<caller, server, starts, reached, arrived, dropped, failed, events, judged>>
      /\ round' = [round EXCEPT !.stage = "timed out"]
  BY DEF TimedOut, Ends, Quiet
<1>2. Boxes' = Boxes /\ InboxesType'
  BY <1>1 DEF Boxes, WaitInv, InboxesType
<1>3. RoundType' /\ round'.stage = "timed out" /\ round'.looks = round.looks
  BY <1>1, <1>2 DEF WaitInv, RoundType, Rounds, Stages
<1>4. MarksFit'
  BY <1>1, <1>2, <1>3 DEF WaitInv, MarksFit
<1> QED
  BY <1>2, <1>3, <1>4 DEF WaitInv, RoundFits, FoundFits, NoneSkipped, IdlesOnWhatItSaw

-----------------------------------------------------------------------------
(* The inboxes. *)

\* An inbox that grows, or is numbered anew, leaves what was read of it.
LEMMA InboxesGrow ==
  ASSUME WaitInv, UNCHANGED <<caller, starts, reached, arrived, round, failed, judged>>, InboxesType',
         \A b \in Boxes :
           /\ Len(server[b].mail) <= Len(server'[b].mail) /\ server[b].uidv <= server'[b].uidv
           /\ server'[b].uidv = server[b].uidv =>
                \A u \in 1..Len(server[b].mail) : server'[b].mail[u] = server[b].mail[u]
  PROVE  WaitInv'
<1>1. Boxes' = Boxes /\ RoundType'
  BY DEF Boxes, WaitInv, RoundType, Rounds
<1>2. \A b \in Boxes : /\ Len(server[b].mail) \in Nat /\ Len(server'[b].mail) \in Nat
                       /\ server[b].uidv \in Int /\ server'[b].uidv \in Int
                       /\ reached[b] \in Nat /\ starts[b].uidv \in Int
                       /\ round.looks[b].lastUid \in Int /\ round.looks[b].uidv \in Int
  BY <1>1 DEF WaitInv, InboxesType, RoundType, Rounds, Looks
<1>3. MarksFit'
  BY <1>1, <1>2 DEF WaitInv, MarksFit
<1>4. RoundFits' /\ FoundFits' /\ IdlesOnWhatItSaw'
  BY <1>1 DEF WaitInv, RoundFits, FoundFits, IdlesOnWhatItSaw, Watching, IsWanted, HasArrived
<1>5. NoneSkipped'
  <2> SUFFICES ASSUME round.stage \in {"look", "idle", "fetch", "words"},
                      NEW b \in Watching, NEW u \in 1..reached[b], u > starts[b].lastUid,
                      starts[b].uidv = server'[b].uidv, IsWanted(server'[b].mail[u])
               PROVE  server'[b].mail[u] \in judged \/ InHand(b, server'[b].mail[u])
    BY <1>1 DEF NoneSkipped, Watching, IsWanted, InHand
  <2>1. starts[b].uidv = server[b].uidv /\ server'[b].mail[u] = server[b].mail[u]
    BY <1>2 DEF Watching, WaitInv, MarksFit
  <2> QED
    BY <2>1 DEF WaitInv, NoneSkipped
<1> QED
  BY <1>1, <1>3, <1>4, <1>5 DEF WaitInv

LEMMA LandsStep ==
  ASSUME WaitAssumption, WaitInv, NEW box \in Boxes, NEW mail \in caller.arrivals, Lands(box, mail)
  PROVE  WaitInv'
<1>1. UNCHANGED <<caller, starts, reached, arrived, round, dropped, failed, judged>>
  BY DEF Lands
<1>2. Boxes' = Boxes /\ mail \in Mails /\ server[box].mail \in Seq(Mails)
  BY <1>1 DEF Boxes, WaitInv, InboxesType, WaitAssumption
<1>3. PICK mails : mails = Append(server[box].mail, mail)
  OBVIOUS
<1>4. /\ mails \in Seq(Mails) /\ Len(server[box].mail) <= Len(mails)
      /\ \A u \in 1..Len(server[box].mail) : mails[u] = server[box].mail[u]
  BY <1>2, <1>3
<1>5. server' = [server EXCEPT ![box].mail = mails]
  BY <1>3 DEF Lands
<1>6. /\ server' \in [Boxes -> [uidv : {1, 2}, mail : Seq(Mails)]]
      /\ server'[box].mail = mails /\ server'[box].uidv = server[box].uidv
      /\ \A b \in Boxes \ {box} : server'[b] = server[b]
  BY <1>4, <1>5 DEF WaitInv, InboxesType
<1>7. InboxesType'
  BY <1>1, <1>2, <1>6 DEF WaitInv, InboxesType
<1>8. \A b \in Boxes : Len(server[b].mail) \in Nat /\ server[b].uidv \in Int
  BY DEF WaitInv, InboxesType
<1> QED
  BY <1>1, <1>4, <1>6, <1>7, <1>8, InboxesGrow

LEMMA RebuiltStep ==
  ASSUME WaitInv, NEW box \in Boxes, RebuiltInbox(box)
  PROVE  WaitInv'
<1>1. /\ UNCHANGED <<caller, starts, reached, arrived, round, dropped, failed, judged>>
      /\ server[box].uidv = 1
  BY DEF RebuiltInbox
<1>2. Boxes' = Boxes
  BY <1>1 DEF Boxes
<1>3. PICK n \in Nat : n = Len(server[box].mail) /\ DOMAIN server[box].mail = 1..n
  BY DEF WaitInv, InboxesType
<1>4. PICK uids : uids = DOMAIN server[box].mail
  OBVIOUS
<1>5. PICK place \in [uids -> uids] :
        server' = [server EXCEPT ![box] =
                     [uidv |-> 2, mail |-> [u \in uids |-> server[box].mail[place[u]]]]]
  BY <1>4, Zenon DEF RebuiltInbox
<1>6. PICK mails : mails = [u \in uids |-> server[box].mail[place[u]]]
  OBVIOUS
<1>7. \A u \in 1..n : server[box].mail[u] \in Mails
  BY <1>3 DEF WaitInv, InboxesType
<1>8. mails \in Seq(Mails) /\ Len(mails) = n
  BY <1>3, <1>4, <1>6, <1>7
<1>9. server' = [server EXCEPT ![box] = [uidv |-> 2, mail |-> mails]]
  BY <1>5, <1>6, Zenon
<1>10. /\ server' \in [Boxes -> [uidv : {1, 2}, mail : Seq(Mails)]]
       /\ server'[box].mail = mails /\ server'[box].uidv = 2
       /\ \A b \in Boxes \ {box} : server'[b] = server[b]
  BY <1>8, <1>9 DEF WaitInv, InboxesType
<1>11. InboxesType'
  BY <1>1, <1>2, <1>10 DEF WaitInv, InboxesType
<1>12. \A b \in Boxes : Len(server[b].mail) \in Nat /\ server[b].uidv \in Int
  BY DEF WaitInv, InboxesType
<1>13. ASSUME NEW b \in Boxes
       PROVE  /\ Len(server[b].mail) <= Len(server'[b].mail) /\ server[b].uidv <= server'[b].uidv
              /\ server'[b].uidv = server[b].uidv =>
                   \A u \in 1..Len(server[b].mail) : server'[b].mail[u] = server[b].mail[u]
  <2>1. CASE b = box
    BY <1>1, <1>3, <1>8, <1>10, <2>1
  <2>2. CASE b # box
    BY <1>10, <1>12, <1>13, <2>2
  <2> QED
    BY <2>1, <2>2
<1> QED
  BY <1>1, <1>11, <1>13, InboxesGrow

-----------------------------------------------------------------------------

LEMMA WaitStarts ==
  ASSUME WaitAssumption, WaitInit
  PROVE  WaitInv
<1>1. /\ caller \in WaitCasts /\ caller.inbox \in [Boxes -> Seq(Mails)] /\ Boxes \in SUBSET Nat
      /\ failed = {} /\ judged = {}
  BY DEF WaitInit, WaitAssumption, Boxes
<1>2. PICK r : BeginsWith(r, Boxes) /\ round = r
  BY DEF WaitInit, BeginsWith
<1>3. /\ RoundType /\ round.stage = "look" /\ round.todo = Boxes
      /\ \A b \in Boxes : round.looks[b] = NoLook /\ round.fresh[b] = {}
  BY <1>1, <1>2, Renewed DEF RoundType
<1>4. /\ starts \in [Boxes -> Looks]
      /\ \A b \in Boxes : starts[b].uidv = 0 /\ starts[b].lastUid = 0 /\ reached[b] = 0
  BY DEF WaitInit, Unmarked, Looks
<1>5. /\ server \in [Boxes -> [uidv : {1, 2}, mail : Seq(Mails)]]
      /\ \A b \in Boxes : server[b].uidv = 1 /\ Len(server[b].mail) \in Nat
  BY <1>1 DEF WaitInit
<1>6. InboxesType
  BY <1>1, <1>4, <1>5 DEF WaitInit, InboxesType
<1>7. \A b \in Boxes : round.looks[b].lastUid = -1 /\ round.looks[b].uidv = 0
  BY <1>3 DEF NoLook
<1>8. MarksFit
  BY <1>4, <1>5, <1>7 DEF MarksFit
<1>9. RoundFits
  BY <1>1, <1>3 DEF RoundFits, Watching
<1>10. FoundFits /\ IdlesOnWhatItSaw
  BY <1>3 DEF FoundFits, IdlesOnWhatItSaw
<1>11. NoneSkipped
  BY <1>4 DEF NoneSkipped, Watching
<1> QED
  BY <1>3, <1>6, <1>8, <1>9, <1>10, <1>11 DEF WaitInv

LEMMA WaitStops ==
  ASSUME WaitInv, UNCHANGED waitVars
  PROVE  WaitInv'
BY DEF WaitInv, waitVars, InboxesType, RoundType, Rounds, MarksFit, RoundFits, FoundFits, NoneSkipped, InHand,
       HasArrived, IsWanted, IdlesOnWhatItSaw, Watching, Boxes

LEMMA WaitSteps ==
  ASSUME WaitAssumption, WaitInv, [WaitNext]_waitVars
  PROVE  WaitInv'
BY LookedStep, MatchingStep, MatchedStep, TimedOutStep, LookStep, ArrivalsStep, BodySearchStep,
   ServerFailsStep, IdleEndsStep, IdleDropsStep, RebuiltStep, LandsStep, WaitStops
DEF WaitNext

LEMMA WaitInvHolds ==
  ASSUME WaitInv
  PROVE  WaitAnswersNewMail
<1>1. AnswersAreNew
  BY DEF WaitInv, FoundFits, AnswersAreNew, HasArrived
<1>2. NothingIsSkipped
  BY DEF WaitInv, NoneSkipped, NothingIsSkipped, InHand
<1> QED
  BY <1>1, <1>2 DEF WaitInv, WaitAnswersNewMail

(***************************************************************************)
(* A wait answers mail new since it first looked, skips none it could have *)
(* judged, and idles only on what it just saw: for every set of inboxes    *)
(* and whatever lands, fails, drops or is renumbered meanwhile.            *)
(***************************************************************************)
THEOREM WaitHolds == WaitAssumption => (WaitSpec => []WaitAnswersNewMail)
<1> SUFFICES ASSUME WaitAssumption PROVE WaitSpec => []WaitAnswersNewMail
  OBVIOUS
<1>1. WaitInit => WaitInv
  BY WaitStarts
<1>2. WaitInv /\ [WaitNext]_waitVars => WaitInv'
  BY WaitSteps
<1>3. WaitInv => WaitAnswersNewMail
  BY WaitInvHolds
<1> QED
  BY <1>1, <1>2, <1>3, PTL DEF WaitSpec
=============================================================================
