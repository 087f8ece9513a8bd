---------------------------- MODULE UnlockModes ----------------------------
(***************************************************************************)
(* How one account's vault opens, and everything that changes it: the      *)
(* Worker's rows (the vault with its password wrap, the credential, the    *)
(* passkeys and their wraps, the CLI keys, the sessions), the requests     *)
(* that read them, hash or verify, and then write one batch, and the tabs  *)
(* that send those requests, lose their answers, discard the passkey of a  *)
(* change that seemed to fail, and resume from the keys they saved.        *)
(*                                                                         *)
(* A wrap is the number of the DEK it wraps; a batch is one transaction.   *)
(* Better Auth's own endpoints, behind the Worker's policies, are external.*)
(***************************************************************************)
EXTENDS Naturals, FiniteSets

CONSTANTS
  Browsers,    \* the browsers signed in to the account
  Passkeys,    \* passkey rows; each is one credential
  Passwords,
  CliKeys,     \* the ids the Worker mints for CLI keys
  Casts,       \* the vault a behaviour starts from, and what its tabs ask for
  Null,        \* no password, no credential, no saved keys
  MaxRequests, \* bound: requests sent
  MaxDeks      \* bound: DEKs minted

Requests == 1..MaxRequests
Modes    == {"none", "password", "passkey"}

Kinds    == {"newPassword", "newPasskey", "toPassword", "toPasskey", "changePassword",
             "removePasskey", "createKey", "revokeKey", "reset", "deleteAccount", "discard"}

Creds    == [pw : Passwords, salt : 0..MaxRequests]
Vaults   == [mode : Modes, dek : 0..MaxDeks, pw : Passwords \cup {Null}, at : 0..MaxRequests]
Stamps   == [mode : Modes, at : 0..MaxRequests, wrapped : SUBSET Passkeys]
Saves    == [dek : 1..MaxDeks, mode : Modes, pw : Passwords \cup {Null}, stamp : Stamps]

\* Null is none of what it stands in for; a passkey vault has the passkeys it
\* starts with.
ASSUME UnlockAssumption ==
  /\ Null \notin Passwords \cup Passkeys \cup Browsers \cup Creds \cup Saves
  /\ MaxRequests \in Nat /\ MaxDeks \in Nat \ {0}
  /\ \A c \in Casts : /\ c.mode \in Modes
                      /\ c.mode = "passkey" => c.passkeys \in (SUBSET Passkeys) \ {{}}

VARIABLES
  cast,
  user,      \* whether the account's user row stands
  vault,     \* vault_account
  hash,      \* the credential's password row, or Null
  passkeys,  \* the passkey rows
  wraps,     \* vault_passkey_wrap: a DEK per passkey row, 0 when there is no wrap
  cliKeys,   \* vault_cli_key: a DEK per key, 0 when there is no key
  session,   \* each tab's session row
  request,   \* the Worker's work on each request
  tab,       \* what each tab holds and waits for
  saved,     \* the unlock keys each tab's device keeps
  minted,    \* the DEKs made, and the passkeys registered
  late,      \* history: a passkey was wrapped as its row went, or after
  stray,     \* history: a tab wrapped, or saved, a DEK that the vault no longer had
  evicted    \* history: tabs signed out by another's change, not signed in since

rows       == <<user, vault, hash, passkeys, wraps, cliKeys>>
history    == <<late, stray, evicted>>
unlockVars == <<cast, rows, session, request, tab, saved, minted, history>>

NoVault   == [mode |-> "none", dek |-> 0, pw |-> Null, at |-> 0]
NoWraps   == [p \in Passkeys |-> 0]
NoKeys    == [k \in CliKeys |-> 0]
Unsent    == [kind |-> "none", tab |-> Null, step |-> "unsent", dek |-> 0, pk |-> Null,
              pw |-> Null, old |-> Null, seen |-> Null, ok |-> FALSE]

Wrapped == {p \in Passkeys : wraps[p] # 0}

\* The passkeys that can sign in.
Usable == passkeys \cap Wrapped

PasswordDek == IF vault.mode = "password" THEN {vault.dek} ELSE {}

\* The DEKs the vault's own wraps hold, and those that the ways in would open.
OwnDeks == PasswordDek \cup {wraps[p] : p \in Wrapped}

KeyDeks == {cliKeys[k] : k \in {c \in CliKeys : cliKeys[c] # 0}}

WaysIn == PasswordDek \cup {wraps[p] : p \in Usable} \cup KeyDeks

\* vaultStamp of getUnlockStatus: the wrap rows, whether or not a passkey stands.
Stamp == [mode    |-> vault.mode,
          at      |-> IF vault.mode = "password" THEN vault.at ELSE 0,
          wrapped |-> IF vault.mode = "passkey" THEN Wrapped ELSE {}]

-----------------------------------------------------------------------------
(* The Worker.  A request is admitted, may read, and then writes one batch. *)

Sent(n) == request[n].step # "unsent"

To(n, r) == request' = [request EXCEPT ![n] = r]

Step(n, step) == To(n, [request[n] EXCEPT !.step = step])

Refuse(n) == To(n, [Unsent EXCEPT !.step = "done"])

Succeed(n) == To(n, [request[n] EXCEPT !.step = "done", !.ok = TRUE, !.old = Null, !.seen = Null])

\* requireSession, requireNamedAccount and requireFreshSession, which refuses a
\* session older than a day as if it were gone; for a discard, Better Auth's session
\* and the policy that a wrapped passkey is not deleted there.
Admit(n) ==
  LET r == request[n] IN
  /\ r.step = "sent"
  /\ IF /\ session[r.tab]
        /\ r.kind = "discard" => r.pk \notin Wrapped
     THEN Step(n, "admitted")
     ELSE Refuse(n)
  /\ UNCHANGED <<cast, rows, session, tab, saved, minted, history>>

\* What a request reads before its batch: the row of the passkey it names, or the
\* hash the typed password must verify against.
ReadFirst(n) ==
  LET r == request[n] IN
  /\ r.step = "admitted"
  /\ \/ /\ r.kind \in {"newPasskey", "toPasskey"}
        /\ IF r.pk \in passkeys THEN Step(n, "read") ELSE Refuse(n)
     \/ /\ r.kind = "changePassword"
        /\ IF hash # Null /\ hash.pw = r.old
           THEN To(n, [r EXCEPT !.step = "read", !.seen = hash])
           ELSE Refuse(n)
  /\ UNCHANGED <<cast, rows, session, tab, saved, minted, history>>

\* A wrap of another DEK than the vault's.
Strays(dek) == stray' = (stray \/ OwnDeks \notin {{}, {dek}})

\* Everyone but the caller, and every CLI key.
SignOutOthers(t) ==
  /\ session' = [s \in Browsers |-> s = t /\ session[s]]
  /\ evicted' = (evicted \cup {s \in Browsers : session[s]}) \ {t}
  /\ cliKeys' = NoKeys

\* Mutant: the vault's mode is not read again in the batch.
MutPasswordGuard(r) == session[r.tab]

PasswordGuard(r) ==
  /\ session[r.tab]
  /\ IF r.kind = "newPassword" THEN vault.mode = "none" ELSE vault.mode = "passkey"

finalizePasswordUnlock(n) ==
  LET r == request[n] IN
  /\ r.kind \in {"newPassword", "toPassword"} /\ r.step = "admitted"
  /\ IF user /\ PasswordGuard(r)
     THEN /\ vault' = [mode |-> "password", dek |-> r.dek, pw |-> r.pw, at |-> n]
          /\ hash' = [pw |-> r.pw, salt |-> n]
          /\ passkeys' = {} /\ wraps' = NoWraps
          /\ Strays(r.dek)
          /\ Succeed(n)
     ELSE Refuse(n) /\ UNCHANGED <<vault, hash, passkeys, wraps, stray>>
  /\ UNCHANGED <<cast, user, cliKeys, session, tab, saved, minted, late, evicted>>

\* Mutant: the password's wrap stays in the row.
MutPasskeyVault == [vault EXCEPT !.mode = "passkey"]

PasskeyVault == [NoVault EXCEPT !.mode = "passkey"]

\* A new vault is refused by its primary key; a rewrap upserts, on no condition.
finalizePasskeyUnlock(n) ==
  LET r == request[n] IN
  /\ r.kind \in {"newPasskey", "toPasskey"} /\ r.step = "read"
  /\ IF user /\ (r.kind = "newPasskey" => vault.mode = "none")
     THEN /\ vault' = PasskeyVault
          /\ wraps' = [wraps EXCEPT ![r.pk] = r.dek]
          /\ hash' = Null
          /\ late' = (late \/ r.pk \notin passkeys)
          /\ Strays(r.dek)
          /\ Succeed(n)
     ELSE Refuse(n) /\ UNCHANGED <<vault, hash, wraps, late, stray>>
  /\ UNCHANGED <<cast, user, passkeys, cliKeys, session, tab, saved, minted, evicted>>

HashGuard(r) == hash # Null /\ hash = r.seen /\ session[r.tab]

\* Mutant: the wrap's statement does not ask for the hash the route verified.
MutRewrapGuard(r) == vault.mode = "password" /\ session[r.tab]

RewrapGuard(r) == vault.mode = "password" /\ HashGuard(r)

\* Four statements, each with a condition of its own.
changePasswordUnlock(n) ==
  LET r == request[n] IN
  /\ r.kind = "changePassword" /\ r.step = "read"
  /\ IF RewrapGuard(r)
     THEN vault' = [vault EXCEPT !.dek = r.dek, !.pw = r.pw, !.at = n] /\ Strays(r.dek)
     ELSE UNCHANGED <<vault, stray>>
  /\ IF HashGuard(r)
     THEN hash' = [pw |-> r.pw, salt |-> n] /\ SignOutOthers(r.tab) /\ Succeed(n)
     ELSE UNCHANGED <<hash, session, evicted, cliKeys>> /\ Refuse(n)
  /\ UNCHANGED <<cast, user, passkeys, wraps, tab, saved, minted, late>>

\* Mutant: any other passkey counts as left.
MutAnotherLeft(p) == passkeys \ {p} # {}

AnotherLeft(p) == Usable \ {p} # {}

removePasskeyUnlock(n) ==
  LET r == request[n] IN
  /\ r.kind = "removePasskey" /\ r.step = "admitted"
  /\ IF session[r.tab] /\ r.pk \in passkeys /\ AnotherLeft(r.pk)
     THEN /\ wraps' = [wraps EXCEPT ![r.pk] = 0]
          /\ passkeys' = passkeys \ {r.pk}
          /\ SignOutOthers(r.tab)
          /\ Succeed(n)
     ELSE Refuse(n) /\ UNCHANGED <<wraps, passkeys, session, evicted, cliKeys>>
  /\ UNCHANGED <<cast, user, vault, hash, tab, saved, minted, late, stray>>

\* Mutant: a session read when the request was admitted is enough.
MutKeyGuard(t) == vault.mode # "none"

KeyGuard(t) == session[t] /\ vault.mode # "none"

createCliKey(n) ==
  LET r == request[n] IN
  /\ r.kind = "createKey" /\ r.step = "admitted"
  /\ IF user /\ KeyGuard(r.tab)
     THEN /\ \E k \in CliKeys : cliKeys[k] = 0 /\ cliKeys' = [cliKeys EXCEPT ![k] = r.dek]
          /\ Strays(r.dek)
          /\ Succeed(n)
     ELSE Refuse(n) /\ UNCHANGED <<cliKeys, stray>>
  /\ UNCHANGED <<cast, user, vault, hash, passkeys, wraps, session, tab, saved, minted, late, evicted>>

deleteCliKey(n) ==
  LET r == request[n] IN
  /\ r.kind = "revokeKey" /\ r.step = "admitted"
  /\ \E k \in CliKeys : cliKeys' = [cliKeys EXCEPT ![k] = 0]
  /\ Succeed(n)
  /\ UNCHANGED <<cast, user, vault, hash, passkeys, wraps, session, tab, saved, minted, history>>

\* Mutant: the CLI keys outlive the vault whose DEK they wrap.
MutKeysAfterReset == cliKeys

KeysAfterReset == NoKeys

\* Sessions stay.
resetVault(n) ==
  /\ request[n].kind = "reset" /\ request[n].step = "admitted"
  /\ vault' = NoVault /\ hash' = Null
  /\ passkeys' = {} /\ wraps' = NoWraps /\ cliKeys' = KeysAfterReset
  /\ Succeed(n)
  /\ UNCHANGED <<cast, user, session, tab, saved, minted, history>>

deleteAccount(n) ==
  /\ request[n].kind = "deleteAccount" /\ request[n].step = "admitted"
  /\ user' = FALSE
  /\ vault' = NoVault /\ hash' = Null
  /\ passkeys' = {} /\ wraps' = NoWraps /\ cliKeys' = NoKeys
  /\ session' = [t \in Browsers |-> FALSE]
  /\ Succeed(n)
  /\ UNCHANGED <<cast, tab, saved, minted, history>>

\* Better Auth deletes the row it was asked for, once the policy has let it.
DeleteProvisional(n) ==
  LET r == request[n] IN
  /\ r.kind = "discard" /\ r.step = "admitted"
  /\ passkeys' = passkeys \ {r.pk}
  /\ late' = (late \/ r.pk \in Wrapped)
  /\ Refuse(n)
  /\ UNCHANGED <<cast, user, vault, hash, wraps, cliKeys, session, tab, saved, minted, stray, evicted>>

\* The database or the platform fails it, or the dropped connection cancels it.
Abort(n) ==
  /\ request[n].step \in {"sent", "admitted", "read"}
  /\ Refuse(n)
  /\ UNCHANGED <<cast, rows, session, tab, saved, minted, history>>

Serve(n) ==
  \/ Admit(n) \/ ReadFirst(n) \/ Abort(n)
  \/ finalizePasswordUnlock(n) \/ finalizePasskeyUnlock(n) \/ changePasswordUnlock(n)
  \/ removePasskeyUnlock(n) \/ createCliKey(n) \/ deleteCliKey(n)
  \/ resetVault(n) \/ deleteAccount(n) \/ DeleteProvisional(n)

-----------------------------------------------------------------------------
(* The tabs. *)

Locked == [pc |-> "idle", dek |-> 0, mode |-> "none", pw |-> Null, pk |-> Null,
           req |-> 0, unsaved |-> FALSE]

TabTo(t, b) == tab' = [tab EXCEPT ![t] = b]

AtRest(t) == tab[t].pc = "idle"
HoldsKey(t) == AtRest(t) /\ tab[t].dek # 0

\* The next request, of kind, from t; b is the tab while it waits.
Post(t, kind, b, dek, pk, pw, old) ==
  \E n \in Requests :
    /\ ~Sent(n) /\ \A m \in 1..(n - 1) : Sent(m)
    /\ To(n, [Unsent EXCEPT !.kind = kind, !.tab = t, !.step = "sent",
                            !.dek = dek, !.pk = pk, !.pw = pw, !.old = old])
    /\ TabTo(t, IF b.pc = "waiting" THEN [b EXCEPT !.req = n] ELSE b)

SendChange(t, kind, dek, pk, pw, old) ==
  /\ kind \in cast.asks
  /\ Post(t, kind, [tab[t] EXCEPT !.pc = "waiting"], dek, pk, pw, old)
  /\ UNCHANGED <<cast, rows, session, saved, minted, history>>

\* refuseIfAlreadyEnrolled, then a fresh DEK under the password's key.
createPasswordVault(t) ==
  /\ AtRest(t) /\ tab[t].dek = 0 /\ session[t] /\ vault.mode = "none"
  /\ "newPassword" \in cast.asks
  /\ minted.deks < MaxDeks /\ minted' = [minted EXCEPT !.deks = @ + 1]
  /\ \E pw \in Passwords :
       Post(t, "newPassword", [tab[t] EXCEPT !.pc = "waiting"], minted.deks + 1, Null, pw, Null)
  /\ UNCHANGED <<cast, rows, session, saved, history>>

\* registerPrfPasskey: a provisional row, for a vault to come or for the one open.
RegisterPasskey(t) ==
  /\ AtRest(t) /\ session[t] /\ user
  /\ tab[t].dek = 0 => vault.mode = "none"
  /\ IF tab[t].dek = 0 THEN "newPasskey" \in cast.asks ELSE "toPasskey" \in cast.asks
  /\ Passkeys \ minted.passkeys # {}
  /\ LET p == CHOOSE p \in Passkeys \ minted.passkeys : TRUE IN
       /\ passkeys' = passkeys \cup {p}
       /\ minted' = [minted EXCEPT !.passkeys = @ \cup {p}]
       /\ TabTo(t, [tab[t] EXCEPT !.pc = "registered", !.pk = p])
  /\ UNCHANGED <<cast, user, vault, hash, wraps, cliKeys, session, request, saved, history>>

\* The DEK, a fresh one for a new vault, wrapped under the key the passkey derives.
WrapUnderPasskey(t) ==
  /\ tab[t].pc = "registered"
  /\ LET waiting == [tab[t] EXCEPT !.pc = "waiting"] IN
     IF tab[t].dek = 0
     THEN /\ minted.deks < MaxDeks /\ minted' = [minted EXCEPT !.deks = @ + 1]
          /\ Post(t, "newPasskey", waiting, minted.deks + 1, tab[t].pk, Null, Null)
     ELSE /\ Post(t, "toPasskey", waiting, tab[t].dek, tab[t].pk, Null, Null)
          /\ UNCHANGED minted
  /\ UNCHANGED <<cast, rows, session, saved, history>>

switchModeToPassword(t) ==
  /\ HoldsKey(t) /\ tab[t].mode = "passkey"
  /\ \E pw \in Passwords : SendChange(t, "toPassword", tab[t].dek, Null, pw, Null)

\* The typed password must open the wrap this tab holds before anything is sent.
changePasswordOfSession(t) ==
  /\ HoldsKey(t) /\ tab[t].mode = "password"
  /\ \E pw \in Passwords \ {tab[t].pw} :
       SendChange(t, "changePassword", tab[t].dek, Null, pw, tab[t].pw)

removePasskey(t) ==
  /\ HoldsKey(t) /\ session[t]
  /\ \E p \in passkeys : SendChange(t, "removePasskey", 0, p, Null, Null)

approveCliLogin(t) == HoldsKey(t) /\ SendChange(t, "createKey", tab[t].dek, Null, Null, Null)

revokeCliKey(t) == HoldsKey(t) /\ SendChange(t, "revokeKey", 0, Null, Null, Null)

\* Asked for on the screen a recovery link opens, or from Settings.
resetVaultAccount(t) == AtRest(t) /\ session[t] /\ SendChange(t, "reset", 0, Null, Null, Null)

DeleteMyAccount(t) == HoldsKey(t) /\ SendChange(t, "deleteAccount", 0, Null, Null, Null)

\* The answer is a yes.
Answer(t) ==
  /\ tab[t].pc = "waiting"
  /\ LET r == request[tab[t].req]
         idle == [tab[t] EXCEPT !.pc = "idle", !.req = 0, !.pk = Null] IN
     /\ r.step = "done" /\ r.ok
     /\ CASE r.kind \in {"newPassword", "toPassword", "changePassword"} ->
              /\ TabTo(t, [idle EXCEPT !.dek = r.dek, !.mode = "password", !.pw = r.pw,
                                      !.unsaved = TRUE])
              /\ UNCHANGED saved
          [] r.kind \in {"newPasskey", "toPasskey"} ->
              /\ TabTo(t, [idle EXCEPT !.dek = r.dek, !.mode = "passkey", !.pw = Null,
                                      !.unsaved = TRUE])
              /\ UNCHANGED saved
          [] r.kind \in {"reset", "deleteAccount"} ->
              /\ TabTo(t, Locked)
              /\ saved' = [saved EXCEPT ![t] = Null]
          [] OTHER -> TabTo(t, idle) /\ UNCHANGED saved
  /\ Refuse(tab[t].req)
  /\ UNCHANGED <<cast, rows, session, minted, history>>

\* It is a no, or it is lost, whatever the Worker did or will do.  The passkey of a
\* change that failed is deleted again.
Fail(t) ==
  /\ \/ tab[t].pc = "waiting" /\ ~(request[tab[t].req].step = "done" /\ request[tab[t].req].ok)
     \/ tab[t].pc = "waiting" /\ cast.lossy
     \/ tab[t].pc = "registered"
  /\ LET idle == [tab[t] EXCEPT !.pc = "idle", !.req = 0, !.pk = Null] IN
     \/ /\ tab[t].pk # Null
        /\ Post(t, "discard", idle, 0, tab[t].pk, Null, Null)
     \/ /\ tab[t].pk = Null \/ \A n \in Requests : Sent(n)
        /\ TabTo(t, idle) /\ UNCHANGED request
  /\ UNCHANGED <<cast, rows, session, saved, minted, history>>

SignedIn(t, b) ==
  /\ cast.signs
  /\ session' = [session EXCEPT ![t] = TRUE]
  /\ evicted' = evicted \ {t}
  /\ TabTo(t, b)
  /\ UNCHANGED <<cast, rows, request, saved, minted, late, stray>>

\* requireActivePasswordMode, and Better Auth's check of the credential.
SignInWithPassword(t) ==
  /\ AtRest(t) /\ tab[t].dek = 0 /\ vault.mode = "password" /\ hash # Null
  /\ SignedIn(t, [tab[t] EXCEPT !.pc = "signedIn", !.pw = hash.pw])

\* requireActivePasskeyMode: of a passkey that stands and is wrapped.
SignInWithPasskey(t) ==
  /\ AtRest(t) /\ tab[t].dek = 0 /\ vault.mode = "passkey"
  /\ \E p \in Usable : SignedIn(t, [tab[t] EXCEPT !.pc = "signedIn", !.pk = p])

\* A magic link, which opens nothing.
SignInByLink(t) == AtRest(t) /\ user /\ ~session[t] /\ SignedIn(t, tab[t])

\* getUnlockStatus or getPasskeyWrap, a request of its own after the sign-in, and
\* openVault, which only the right key can.
OpenVault(t) ==
  /\ tab[t].pc = "signedIn"
  /\ LET opened(dek, mode) == [tab[t] EXCEPT !.pc = "idle", !.dek = dek, !.mode = mode,
                                             !.pk = Null, !.unsaved = TRUE] IN
     TabTo(t, IF session[t] /\ tab[t].pw # Null /\ vault.mode = "password" /\ vault.pw = tab[t].pw
              THEN opened(vault.dek, "password")
              ELSE IF session[t] /\ tab[t].pk # Null /\ tab[t].pk \in Usable
              THEN opened(wraps[tab[t].pk], "passkey")
              ELSE Locked)
  /\ UNCHANGED <<cast, rows, session, request, saved, minted, history>>

\* Mutant: the stamp of a password vault does not say when it was written.
MutStamped == [Stamp EXCEPT !.at = 0]

Stamped == Stamp

\* setSession asks for the stamp after the session opened, and saves the keys with it.
unlockKeysOf(t) ==
  /\ tab[t].dek # 0 /\ tab[t].unsaved /\ session[t] /\ cast.resumes
  /\ TabTo(t, [tab[t] EXCEPT !.unsaved = FALSE])
  /\ saved' = [saved EXCEPT ![t] = [dek |-> tab[t].dek, mode |-> tab[t].mode,
                                    pw |-> tab[t].pw, stamp |-> Stamped]]
  /\ Strays(tab[t].dek)
  /\ UNCHANGED <<cast, rows, session, request, minted, late, evicted>>

\* The tab closes, and opens again with the keys it saved, unless they are stale;
\* then they are forgotten.
resumeSession(t) ==
  /\ cast.resumes
  /\ IF session[t] /\ saved[t] # Null /\ saved[t].stamp = Stamped
     THEN /\ TabTo(t, [Locked EXCEPT !.dek = saved[t].dek, !.mode = saved[t].mode,
                                     !.pw = saved[t].pw])
          /\ UNCHANGED saved
     ELSE /\ TabTo(t, Locked)
          /\ saved' = IF session[t] THEN [saved EXCEPT ![t] = Null] ELSE saved
  /\ UNCHANGED <<cast, rows, session, request, minted, history>>

SignOut(t) ==
  /\ AtRest(t) /\ session[t] /\ cast.signs
  /\ session' = [session EXCEPT ![t] = FALSE]
  /\ TabTo(t, Locked)
  /\ saved' = [saved EXCEPT ![t] = Null]
  /\ UNCHANGED <<cast, rows, request, minted, history>>

-----------------------------------------------------------------------------

\* Both tabs are signed in, and hold the DEK of the vault if there is one.
UnlockInit ==
  /\ cast \in Casts
  /\ user = TRUE
  /\ \E pw \in Passwords :
       LET mode == cast.mode
           key  == IF mode = "password" THEN pw ELSE Null
           dek  == IF mode = "none" THEN 0 ELSE 1
           own  == IF mode = "passkey" THEN cast.passkeys ELSE {} IN
       /\ vault = [mode |-> mode, dek |-> IF mode = "password" THEN 1 ELSE 0, pw |-> key, at |-> 0]
       /\ hash = IF mode = "password" THEN [pw |-> pw, salt |-> 0] ELSE Null
       /\ passkeys = own
       /\ wraps = [p \in Passkeys |-> IF p \in own THEN 1 ELSE 0]
       /\ minted = [deks |-> dek, passkeys |-> own]
       /\ tab = [t \in Browsers |-> [Locked EXCEPT !.dek = dek, !.mode = mode, !.pw = key,
                                               !.unsaved = (dek # 0)]]
  /\ cliKeys = NoKeys
  /\ session = [t \in Browsers |-> TRUE]
  /\ request = [n \in Requests |-> Unsent]
  /\ saved = [t \in Browsers |-> Null]
  /\ late = FALSE /\ stray = FALSE /\ evicted = {}

Use(t) ==
  \/ createPasswordVault(t) \/ RegisterPasskey(t) \/ WrapUnderPasskey(t)
  \/ switchModeToPassword(t) \/ changePasswordOfSession(t) \/ removePasskey(t)
  \/ approveCliLogin(t) \/ revokeCliKey(t) \/ resetVaultAccount(t) \/ DeleteMyAccount(t)
  \/ Answer(t) \/ Fail(t)
  \/ SignInWithPassword(t) \/ SignInWithPasskey(t) \/ SignInByLink(t) \/ OpenVault(t)
  \/ unlockKeysOf(t) \/ resumeSession(t) \/ SignOut(t)

UnlockNext == (\E n \in Requests : Serve(n)) \/ (\E t \in Browsers : Use(t))

UnlockSpec == UnlockInit /\ [][UnlockNext]_unlockVars

-----------------------------------------------------------------------------
(***************************************************************************)
(* Rows, requests and tabs have the shape the code gives them.             *)
(***************************************************************************)
UnlockTypeOK ==
  /\ cast \in Casts /\ user \in BOOLEAN
  /\ vault \in Vaults /\ (vault.mode = "password" <=> vault.dek # 0)
  /\ hash \in Creds \cup {Null}
  /\ passkeys \subseteq Passkeys
  /\ wraps \in [Passkeys -> 0..MaxDeks]
  /\ cliKeys \in [CliKeys -> 0..MaxDeks]
  /\ session \in [Browsers -> BOOLEAN]
  /\ \A n \in Requests : request[n].kind \in Kinds \cup {"none"}
  /\ \A t \in Browsers : tab[t].dek \in 0..MaxDeks /\ (saved[t] # Null => saved[t].stamp \in Stamps)
  /\ minted.deks \in 0..MaxDeks /\ minted.passkeys \subseteq Passkeys
  /\ late \in BOOLEAN /\ stray \in BOOLEAN /\ evicted \subseteq Browsers

(***************************************************************************)
(* The password that signs in is the one whose key opens the vault,        *)
(* whatever switches, changes and resets were in flight together: a hash   *)
(* that moved without its wrap would lock the person out for good.  An     *)
(* account in another mode has no password that signs in.                  *)
(***************************************************************************)
PasswordOpens ==
  /\ vault.mode = "password" => hash # Null /\ hash.pw = vault.pw
  /\ vault.mode # "password" => hash = Null

(***************************************************************************)
(* A passkey account always has a passkey that signs in and opens the      *)
(* vault, while removals, new passkeys and discards race.  The exception   *)
(* is a finalisation that lands once the row of its passkey is gone, which *)
(* the batch does not ask about.                                           *)
(***************************************************************************)
PasskeyOpens == vault.mode = "passkey" /\ ~late => Usable # {}

(***************************************************************************)
(* Every way in opens the same vault: the password's wrap, each passkey's  *)
(* and each CLI key's wrap the one DEK the records are under.  The         *)
(* exception is a tab that kept its keys over a reset made elsewhere.      *)
(***************************************************************************)
OneDek == ~stray => Cardinality(WaysIn) <= 1

(***************************************************************************)
(* Keys saved on a device resume only over the vault they were saved for:  *)
(* a reset, a re-enrolment or a change elsewhere leaves a stamp that       *)
(* differs.                                                                *)
(***************************************************************************)
ResumesItsVault ==
  \A t \in Browsers : /\ saved[t] # Null /\ ~stray
                  /\ saved[t].stamp = Stamped /\ WaysIn # {}
                  => saved[t].dek \in WaysIn

(***************************************************************************)
(* Whoever signs in opens the vault the records are under, by password,    *)
(* passkey, CLI key or the keys a device saved: no order of changes leaves *)
(* an account whose sign-in and key were moved apart.                      *)
(***************************************************************************)
EveryWayInOpensTheVault == PasswordOpens /\ PasskeyOpens /\ OneDek /\ ResumesItsVault

(***************************************************************************)
(* A device signed out by a password change or a removed passkey adds no   *)
(* CLI key and no password afterwards, though its request was admitted     *)
(* while it was still signed in.                                           *)
(***************************************************************************)
SignedOutPlantNothing ==
  [][\A n \in Requests :
       request[n].tab \in evicted /\ ~request[n].ok /\ request'[n].ok
         => hash' \in {hash, Null} /\ \A k \in CliKeys : cliKeys'[k] \in {cliKeys[k], 0}]_unlockVars

(***************************************************************************)
(* A passkey account always has a passkey that signs in: "never the last   *)
(* one that can sign in".                                                  *)
(***************************************************************************)
AlwaysAWayIn == vault.mode = "passkey" => Usable # {}

=============================================================================
