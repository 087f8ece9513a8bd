------------------------------ MODULE CliLogin ------------------------------
(***************************************************************************)
(* The CLI's key from login to logout: the command line's one-shot         *)
(* listener, the approve page of an unlocked tab, the Worker's key rows,   *)
(* the credentials file, and the commands that open the vault with it.     *)
(*                                                                         *)
(* A shell is one run of yozz.  Its name stands for its key pair and for   *)
(* its state nonce.  An account's name stands for its DEK, and a key id    *)
(* for its bearer.                                                         *)
(***************************************************************************)
EXTENDS Naturals, FiniteSets, Sequences

CONSTANTS
  Shells, Tabs,  \* runs of the CLI; tabs of the one browser
  Accounts,
  KeyIds,        \* bound: the key ids of earlier logins, and those the Worker mints
  Ports,         \* the loopback ports a listener may be given
  LoginCasts,    \* what each shell is for, and what may go wrong
  Nobody

VARIABLES
  scene,   \* the cast
  file,    \* the credentials file, or NoLogin
  shell,   \* each run
  page,    \* each tab: its session, and its approve page
  cookie,  \* the browser's session
  rows,    \* vault_cli_key
  list,    \* Settings' CLI keys, in a tab of its own
  past     \* history: keys made, pages answered, keys warned of

loginVars == <<scene, file, shell, page, cookie, rows, list, past>>

NoLogin == [key |-> "none", user |-> Nobody, pair |-> Nobody]
NoRow   == [user |-> Nobody, pub |-> Nobody, dek |-> Nobody]
NoCall  == [to |-> Nobody, port |-> 0, what |-> "none", key |-> "none", user |-> Nobody]
Unborn  == [pc |-> "unborn", login |-> NoLogin, source |-> "file", port |-> 0, queue |-> <<>>,
            got |-> NoLogin, opened |-> Nobody, saw |-> NoLogin]
NoPage  == [pc |-> "none", user |-> Nobody, link |-> Nobody, port |-> 0, shown |-> Nobody,
            current |-> FALSE, key |-> "none", call |-> NoCall]

\* A file and an environment each name an earlier login or nothing, and one key is of one login.
LoginAssumption ==
  /\ "none" \notin KeyIds /\ Nobody \notin Accounts \cup Shells
  /\ \A c \in LoginCasts :
       /\ c.tabs \subseteq Tabs /\ c.does \in [Shells -> {"login", "logout", "run", "none"}]
       /\ c.account \in Accounts /\ c.fresh \in BOOLEAN
       /\ \A own \in {c.file, c.envLogin} :
            \/ own = NoLogin
            \/ own \in [key : KeyIds, user : Accounts, pair : {own.pair}]
       /\ c.file.key = c.envLogin.key => c.file = c.envLogin

Stands(k) == rows[k] # NoRow

Shell(p, s) == shell' = [shell EXCEPT ![p] = s]
Page(t, g)  == page' = [page EXCEPT ![t] = g]

\* DELETE /cli-keys/:keyId: not theirs and not there look the same.
Without(k) == [rows EXCEPT ![k] = NoRow]

-----------------------------------------------------------------------------
(* The command line. *)

\* What login sends to the browser: the port to call back, the state and the public key.
Listening == {p \in Shells : shell[p].port # 0}

\* Settings, read once as the process starts.  A login has its pair and its listener by
\* the time it prints its link.
Start(p) ==
  /\ shell[p].pc = "unborn" /\ scene.does[p] # "none"
  /\ LET own == IF scene.env = p THEN scene.envLogin ELSE file
         born == [Unborn EXCEPT !.login = own, !.saw = file,
                                !.source = IF scene.env = p THEN "env" ELSE "file"] IN
     \/ /\ scene.does[p] = "login"
        /\ \E n \in Ports : /\ \A q \in Listening : shell[q].port # n
                            /\ Shell(p, [born EXCEPT !.pc = "waiting", !.port = n])
     \/ /\ scene.does[p] # "login"
        /\ Shell(p, [born EXCEPT !.pc = IF own = NoLogin THEN "notLoggedIn"
                                        ELSE IF scene.does[p] = "run" THEN "opening" ELSE "revoking"])
  /\ UNCHANGED <<scene, file, page, cookie, rows, list, past>>

\* Mutant: whatever reaches the port is taken.
MutCallsBack(p, c) == shell[p].port = c.port

CallsBack(p, c) == shell[p].port = c.port /\ c.to = p

\* The browser goes to the loopback address: refused on the spot, or queued.
Heard(c) ==
  shell' = [p \in Shells |->
              IF c.port # 0 /\ CallsBack(p, c)
              THEN [shell[p] EXCEPT !.queue = Append(@, c)] ELSE shell[p]]

\* openCliLogin: the seal opens for this pair and this state only.
Opens(p, c) == c.what = "sealed" /\ c.to = p

\* A request that is no approval is refused, and the next is awaited.
openApproval(p, s, c) ==
  IF c.what # "sealed" THEN s
  ELSE IF Opens(p, c)
  THEN [s EXCEPT !.pc = "responding", !.got = [key |-> c.key, user |-> c.user, pair |-> p]]
  ELSE [s EXCEPT !.pc = "failing"]

\* A denial wins over anything else.
AnswerCallback(p) ==
  /\ shell[p].pc = "waiting" /\ shell[p].queue # <<>>
  /\ LET c == Head(shell[p].queue)
         s == [shell[p] EXCEPT !.queue = Tail(@)] IN
     Shell(p, IF c.what = "denied" THEN [s EXCEPT !.pc = "denying"] ELSE openApproval(p, s, c))
  /\ UNCHANGED <<scene, file, page, cookie, rows, list, past>>

\* The response has left, so the listener closes with every connection still open.
Responded(p) ==
  /\ shell[p].pc \in {"denying", "failing", "responding"}
  /\ Shell(p, [shell[p] EXCEPT !.port = 0, !.queue = <<>>,
                               !.pc = CASE @ = "denying" -> "denied"
                                        [] @ = "failing" -> "failed"
                                        [] OTHER -> "saving"])
  /\ UNCHANGED <<scene, file, page, cookie, rows, list, past>>

\* Three minutes, or Ctrl-C.  The time runs while a response leaves, too.
TimeOut(p) ==
  /\ shell[p].port # 0 /\ scene.times
  /\ Shell(p, [shell[p] EXCEPT !.port = 0, !.queue = <<>>, !.pc = "timedOut"])
  /\ UNCHANGED <<scene, file, page, cookie, rows, list, past>>

\* The file is written over by a run that did not read what it holds: another run wrote
\* it since, or the environment's key was read in its place.
Covers(p) ==
  past' = [past EXCEPT !.covered =
             @ \/ file # shell[p].saw \/ (shell[p].source = "env" /\ file # NoLogin)]

\* Mutant: the new login's key is written over, and the old one left to stand.
MutAfterSave(s) == "loggedIn"

AfterSave(s) == IF s.login # NoLogin /\ s.source = "file" THEN "superseding" ELSE "loggedIn"

saveCredentials(p) ==
  /\ shell[p].pc = "saving"
  /\ file' = shell[p].got
  /\ Shell(p, [shell[p] EXCEPT !.pc = AfterSave(shell[p])])
  /\ Covers(p)
  /\ UNCHANGED <<scene, page, cookie, rows, list>>

\* revokeKey, with the key's own bearer: gone already is as good.
Revoke(p) ==
  /\ shell[p].pc \in {"superseding", "revoking"}
  /\ rows' = Without(shell[p].login.key)
  /\ Shell(p, [shell[p] EXCEPT !.pc = IF @ = "superseding" THEN "loggedIn" ELSE "removing"])
  /\ UNCHANGED <<scene, file, page, cookie, list, past>>

\* No answer, or another: the login stands, with a warning; the logout deletes nothing.
\* The key may be gone all the same.
RevokeFails(p) ==
  /\ shell[p].pc \in {"superseding", "revoking"} /\ scene.lossy
  /\ \/ UNCHANGED rows
     \/ rows' = Without(shell[p].login.key)
  /\ IF shell[p].pc = "superseding"
     THEN /\ past' = [past EXCEPT !.warned = @ \cup {shell[p].login.key}]
          /\ Shell(p, [shell[p] EXCEPT !.pc = "loggedIn"])
     ELSE Shell(p, [shell[p] EXCEPT !.pc = "kept"]) /\ UNCHANGED past
  /\ UNCHANGED <<scene, file, page, cookie, list>>

\* The rest of logout.  What the environment holds is not the file's.
deleteCredentials(p) ==
  /\ shell[p].pc = "removing"
  /\ file' = IF shell[p].source = "file" THEN NoLogin ELSE file
  /\ Shell(p, [shell[p] EXCEPT !.pc = "loggedOut"])
  /\ IF shell[p].source = "file" THEN Covers(p) ELSE UNCHANGED past
  /\ UNCHANGED <<scene, page, cookie, rows, list>>

\* The bearer's row stands, and is of the account the request names.
requireCliKey(login) == Stands(login.key) /\ rows[login.key].user = login.user

\* GET /cli-key, once the bearer was good: the wrap, or a key revoked since.
useCliKey(s) ==
  LET k == s.login.key IN
  IF Stands(k) /\ rows[k].pub = s.login.pair
  THEN [s EXCEPT !.pc = "open", !.opened = rows[k].dek]
  ELSE [s EXCEPT !.pc = "keyRevoked"]

\* The bearer's check, then a statement of its own, then openVault.
OpenVault(p) ==
  /\ \/ /\ shell[p].pc = "opening"
        /\ Shell(p, [shell[p] EXCEPT !.pc = IF requireCliKey(shell[p].login)
                                            THEN "using" ELSE "keyRevoked"])
     \/ /\ shell[p].pc = "using"
        /\ Shell(p, useCliKey(shell[p]))
  /\ UNCHANGED <<scene, file, page, cookie, rows, list, past>>

-----------------------------------------------------------------------------
(* The approve page.  Its tab holds an unlocked session of an account; the *)
(* cookie, which every tab shares, may be another's by now.                *)

\* A printed link is opened, in time or long after.
OpenLink(t) ==
  /\ page[t].pc = "none" /\ page[t].user # Nobody
  /\ \E p \in Shells : /\ scene.does[p] = "login" /\ shell[p].pc = "waiting"
                       /\ Page(t, [page[t] EXCEPT !.pc = "shown", !.link = p, !.port = shell[p].port])
  /\ UNCHANGED <<scene, file, shell, cookie, rows, list, past>>

\* The wrap and its ephemeral key are under way, in the session the page shows; it goes
\* out if that session is still the open one.
Approve(t) ==
  /\ page[t].pc = "shown" /\ page[t].user # Nobody
  /\ Page(t, [page[t] EXCEPT !.pc = "wrapping", !.shown = page[t].user, !.current = TRUE])
  /\ UNCHANGED <<scene, file, shell, cookie, rows, list, past>>

Wrapped(t) ==
  /\ page[t].pc = "wrapping"
  /\ Page(t, [page[t] EXCEPT !.pc = IF page[t].current THEN "posted" ELSE "shown"])
  /\ UNCHANGED <<scene, file, shell, cookie, rows, list, past>>

\* Mutant: the Worker takes the cookie's account for the tab's.
MutNamed(g) == cookie.user # Nobody

Named(g) == cookie.user = g.shown

\* A refusal for want of a fresh sign-in is a question, in the session it was refused in.
Refused(g) == [g EXCEPT !.pc = IF Named(g) /\ g.current THEN "confirming" ELSE "shown"]

\* requireSession, requireNamedAccount, requireFreshSession.
AdmitKey(t) ==
  /\ page[t].pc = "posted"
  /\ Page(t, IF Named(page[t]) /\ cookie.fresh
             THEN [page[t] EXCEPT !.pc = "admitted", !.key = cookie.user]
             ELSE Refused(page[t]))
  /\ UNCHANGED <<scene, file, shell, cookie, rows, list, past>>

\* The row, for a session still there: one that another sign-in replaced may be, one
\* that was signed out is not.  Whoever waits for the answer may not get it.
createCliKey(t) ==
  /\ page[t].pc = "admitted"
  /\ \/ /\ cookie.user # Nobody
        /\ \E k \in KeyIds :
             /\ k \notin past.made
             /\ past' = [past EXCEPT !.made = @ \cup {k}]
             /\ rows' = [rows EXCEPT ![k] = [user |-> page[t].key, pub |-> page[t].link,
                                             dek |-> page[t].shown]]
             /\ \/ Page(t, [page[t] EXCEPT !.pc = "minted", !.key = k])
                \/ scene.lossy /\ Page(t, [page[t] EXCEPT !.pc = "shown", !.key = "none"])
     \/ /\ cookie.user # page[t].key
        /\ Page(t, [page[t] EXCEPT !.pc = "shown"]) /\ UNCHANGED <<rows, past>>
  /\ UNCHANGED <<scene, file, shell, cookie, list>>

\* A sign-in to another account leaves the question open.
confirmIdentity(g, u) == [g EXCEPT !.pc = IF u = g.user THEN "wrapping" ELSE "confirming"]

\* Once confirmed, the change runs again under the guard it had.
ConfirmIdentity(t) ==
  /\ page[t].pc = "confirming"
  /\ \/ /\ page[t].current
        /\ \E u \in Accounts :
             /\ cookie' = [user |-> u, fresh |-> TRUE]
             /\ Page(t, confirmIdentity(page[t], u))
     \/ ~page[t].current /\ Page(t, [page[t] EXCEPT !.pc = "shown"]) /\ UNCHANGED cookie
  /\ UNCHANGED <<scene, file, shell, rows, list, past>>

Leave(t, what, key, user) ==
  LET c == [to |-> page[t].link, port |-> page[t].port, what |-> what, key |-> key, user |-> user] IN
  /\ Page(t, [page[t] EXCEPT !.pc = "left", !.call = c])
  /\ Heard(c)

\* sealCliLogin and the navigation, though the tab locked meanwhile.
HandBack(t) ==
  /\ page[t].pc = "minted"
  /\ Leave(t, "sealed", page[t].key, page[t].shown)
  /\ past' = [past EXCEPT !.approved = @ \cup {page[t].link}]
  /\ UNCHANGED <<scene, file, cookie, rows, list>>

Deny(t) ==
  /\ page[t].pc = "shown" /\ page[t].user # Nobody
  /\ Leave(t, "denied", "none", Nobody)
  /\ past' = [past EXCEPT !.denied = @ \cup {page[t].link}]
  /\ UNCHANGED <<scene, file, cookie, rows, list>>

\* The browser asks for the callback again, or for the icon of the page it got.
AskAgain(t) ==
  /\ page[t].pc = "left" /\ scene.again
  /\ \E c \in {page[t].call, [page[t].call EXCEPT !.what = "blank"]} :
       /\ \A p \in Shells : Len(shell[p].queue) < 2
       /\ Heard(c)
  /\ UNCHANGED <<scene, file, page, cookie, rows, list, past>>

\* The tab locks, and is unlocked again under whatever account the browser is in now.
Relock(t) ==
  /\ scene.locks
  /\ Page(t, [page[t] EXCEPT !.user = IF @ = Nobody THEN cookie.user ELSE Nobody, !.current = FALSE])
  /\ UNCHANGED <<scene, file, shell, cookie, rows, list, past>>

\* Another tab signs the browser in elsewhere.
SwitchAccount ==
  /\ scene.locks
  /\ \E u \in Accounts \cup {Nobody} : u # cookie.user /\ cookie' = [user |-> u, fresh |-> TRUE]
  /\ UNCHANGED <<scene, file, shell, page, rows, list, past>>

-----------------------------------------------------------------------------
(* Settings' list of CLI keys. *)

\* The rows of the account, read as they are.
Listed == {k \in KeyIds : rows[k].user = list.user}

Reload ==
  /\ scene.settings /\ list.pc \in {"idle", "reload"}
  /\ \/ list' = [list EXCEPT !.pc = "idle", !.keys = Listed, !.stale = FALSE]
     \/ scene.lossy /\ list' = [list EXCEPT !.pc = "idle", !.stale = TRUE]
  /\ UNCHANGED <<scene, file, shell, page, cookie, rows, past>>

\* A key already gone is refused.
revokeCliKey ==
  /\ list.pc = "idle" /\ cookie = [user |-> list.user, fresh |-> TRUE]
  /\ \E k \in list.keys :
       /\ rows' = Without(k)
       /\ past' = [past EXCEPT !.gone = @ \cup {k}]
  /\ list' = [list EXCEPT !.pc = "reload"]
  /\ UNCHANGED <<scene, file, shell, page, cookie>>

\* A password change or a removed passkey elsewhere: see UnlockModes.
SignOutOthers ==
  /\ scene.purges
  /\ \E u \in Accounts :
       /\ \E k \in KeyIds : rows[k].user = u
       /\ rows' = [k \in KeyIds |-> IF rows[k].user = u THEN NoRow ELSE rows[k]]
       /\ cookie' = IF cookie.user = u THEN [user |-> Nobody, fresh |-> TRUE] ELSE cookie
  /\ UNCHANGED <<scene, file, shell, page, list, past>>

-----------------------------------------------------------------------------

\* The row an earlier login left, unless it was revoked since.
Earlier(k) ==
  LET rowOf(own) == [user |-> own.user, pub |-> own.pair, dek |-> own.user] IN
  IF k \in scene.revoked THEN NoRow
  ELSE IF k = scene.file.key THEN rowOf(scene.file)
  ELSE IF k = scene.envLogin.key THEN rowOf(scene.envLogin) ELSE NoRow

LoginInit ==
  /\ scene \in LoginCasts
  /\ file = scene.file
  /\ shell = [p \in Shells |-> Unborn]
  /\ page = [t \in Tabs |-> [NoPage EXCEPT !.user = IF t \in scene.tabs THEN scene.account ELSE Nobody]]
  /\ cookie = [user |-> scene.account, fresh |-> scene.fresh]
  /\ rows = [k \in KeyIds |-> Earlier(k)]
  /\ list = [pc |-> "idle", user |-> scene.account, keys |-> {}, stale |-> FALSE]
  /\ past = [made |-> {scene.file.key, scene.envLogin.key} \ {"none"}, approved |-> {}, denied |-> {},
             warned |-> {}, gone |-> {}, covered |-> FALSE]

Run(p) ==
  \/ Start(p) \/ AnswerCallback(p) \/ Responded(p) \/ TimeOut(p) \/ saveCredentials(p)
  \/ Revoke(p) \/ RevokeFails(p) \/ deleteCredentials(p) \/ OpenVault(p)

Browse(t) ==
  \/ OpenLink(t) \/ Approve(t) \/ Wrapped(t) \/ AdmitKey(t) \/ createCliKey(t)
  \/ ConfirmIdentity(t) \/ HandBack(t) \/ Deny(t) \/ AskAgain(t) \/ Relock(t)

LoginNext ==
  \/ \E p \in Shells : Run(p)
  \/ \E t \in scene.tabs : Browse(t)
  \/ SwitchAccount \/ Reload \/ revokeCliKey \/ SignOutOthers

LoginSpec == LoginInit /\ [][LoginNext]_loginVars

-----------------------------------------------------------------------------
(***************************************************************************)
(* A key opens the account its approver was shown, wherever the browser    *)
(* was signed in by the time the Worker made it: the row, the credentials  *)
(* and the private key on the machine are of one approval.                 *)
(***************************************************************************)
KeysAreWhole ==
  /\ \A k \in KeyIds : Stands(k) => rows[k].dek = rows[k].user
  /\ file # NoLogin /\ Stands(file.key)
       => rows[file.key].pub = file.pair /\ rows[file.key].user = file.user
  /\ \A p \in Shells : shell[p].pc = "open" => shell[p].opened = shell[p].login.user

(***************************************************************************)
(* A login ends as its own page was answered, whatever else reaches the    *)
(* port: an older login's page, a callback asked for again, or an icon.    *)
(***************************************************************************)
LoginsEndAsAnswered ==
  \A p \in Shells : /\ shell[p].pc # "failed"
                    /\ shell[p].pc = "denied" => p \in past.denied
                    /\ shell[p].got # NoLogin => p \in past.approved

(***************************************************************************)
(* A key that the credentials file held is in it still, is revoked, or is  *)
(* named in a warning, once the run that replaced it is over.  The         *)
(* exception is a file written over by a run that never read what it held. *)
(***************************************************************************)
NoKeyIsForgotten ==
  LET held == {shell[p].got.key : p \in {q \in Shells : shell[q].pc \in {"superseding", "loggedIn"}}}
              \cup {scene.file.key} IN
  ~past.covered => \A k \in held \ {"none", file.key} :
                   \/ ~Stands(k) \/ k \in past.warned
                   \/ \E p \in Shells : shell[p].pc = "superseding" /\ shell[p].login.key = k

(***************************************************************************)
(* A key revoked in Settings is not offered there again, unless the list   *)
(* could not be read since.                                                *)
(***************************************************************************)
RevokedLeavesTheList == list.pc = "idle" /\ ~list.stale => list.keys \cap past.gone = {}

(***************************************************************************)
(* The four together: what a person may take for granted of yozz login.    *)
(***************************************************************************)
LoginsHold == KeysAreWhole /\ LoginsEndAsAnswered /\ NoKeyIsForgotten /\ RevokedLeavesTheList

=============================================================================
