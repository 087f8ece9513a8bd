------------------------------ MODULE Composer ------------------------------
(***************************************************************************)
(* The web composer over one vault: the draft on screen, its openings, the *)
(* autosave, the flush of a close, a Send's claim, a discard, the agent's  *)
(* writes, the copy on the device, and what other devices do meanwhile to  *)
(* the same records.  A request to the vault lands in one step and is      *)
(* answered in another, and the session may have ended in between.         *)
(*                                                                         *)
(* A text stands for all the fields; each typing makes a new one.  Files   *)
(* are FileCollect's, and what follows a claim is DraftSend's.             *)
(***************************************************************************)
EXTENDS Naturals, Sequences, FiniteSets

CONSTANTS
  Keys,   \* the records' keys: the ones a behaviour can need, in the order they are minted
  Versions, \* bound: the autosaves of one record (a draft off the list is saved over and over)
  Casts,  \* what the person, the agent, other devices and the network may do
  None

ASSUME KeysAssumption  == Keys \subseteq Nat \ {0}
ASSUME CastsAssumption ==
  \A c \in Casts : c.texts \in Nat /\ c.row \in {"none", "live", "sending", "unsure"}
ASSUME NoneAssumption  == None \notin [key : Keys \cup {0}, v : Nat, text : Nat]

\* A record, its version and text.  sending: frozen by a send.  unsure: a send that
\* was put aside unconfirmed.  gone: a tombstone.
NoRow    == [v |-> 0, text |-> 0, st |-> "none"]
NoScreen == [key |-> 0, v |-> 0, text |-> 0]
IdOf(key, v) == [key |-> key, v |-> v, text |-> 0]
NoList   == [k \in Keys |-> None]

Carried  == {"sending", "unsure"}

VARIABLES
  cast,
  rows,   \* the vault's draft records
  app,    \* the tab: what React holds, and the copy on the device
  jobs,   \* what the tab awaits
  used,   \* bounds: texts typed, Sends, other devices' steps, faults
  hist    \* history: see the properties

vars == <<cast, rows, app, jobs, used, hist>>

Unasked == [st |-> "no", key |-> 0, v |-> 0, text |-> 0]

\* One opening of the composer: intent 0 is a new message, k the draft of key k.
Opening(intent, scr, fresh) ==
  [intent |-> intent, opened |-> scr.text, fresh |-> fresh, discarded |-> FALSE, minted |-> Unasked,
   saving |-> FALSE, wrote |-> NoScreen, pend |-> FALSE, sending |-> "none"]

Acts(a) == a \in cast.acts
Op(a)   == a.ops[a.open]

\* The record behind the draft on screen, as last listed.
HandleOf(a) ==
  IF a.scr = None \/ a.scr.key = 0 THEN None ELSE a.list[a.scr.key]

Frozen(a) == HandleOf(a) # None /\ HandleOf(a).st = "sending"

\* The copy on the device, which the next opening's takes the place of.
InCopy(text) == app.dev # None /\ app.dev.intent = 0 /\ app.dev.scr.text = text
CopyOf == {o \in DOMAIN app.ops : InCopy(hist.mine[o])}

-----------------------------------------------------------------------------
(* What React does after each change, in its order.                        *)

LastSeen(a) ==
  IF HandleOf(a) = None THEN a
  ELSE [a EXCEPT !.last = [key |-> a.scr.key, sent |-> HandleOf(a).st \in Carried]]

saveDraft(a) ==
  IF a.scr = None \/ a.open = 0 THEN a
  ELSE [a EXCEPT !.dev = [intent |-> Op(a).intent, scr |-> a.scr]]

\* The open draft left the list and had carried a send.
isOpenSendOver(a) ==
  a.scr # None /\ HandleOf(a) = None /\ a.last # None /\ a.last.key = a.scr.key /\ a.last.sent

LetGo(a) ==
  [a EXCEPT !.ops = IF a.open = 0 THEN @ ELSE [@ EXCEPT ![a.open].discarded = TRUE],
            !.dev = None, !.scr = None]

\* A send that ended moved the version and not the text: this opening takes it.
Named(a) ==
  IF HandleOf(a).v = a.scr.v THEN HandleOf(a).text
  ELSE IF a.thaw # None /\ a.thaw.o = a.open THEN a.thaw.named ELSE None

MutAdopts(a) ==
  /\ a.thaw # None /\ a.thaw.o = a.open /\ a.thaw.had
  /\ HandleOf(a).st # "sending" /\ HandleOf(a).v # a.scr.v

Adopts(a) ==
  /\ a.thaw # None /\ a.thaw.o = a.open /\ a.thaw.had
  /\ HandleOf(a).st # "sending" /\ HandleOf(a).v # a.scr.v
  /\ Named(a) # None /\ Named(a) = HandleOf(a).text

Thawed(a) ==
  IF a.open = 0 \/ HandleOf(a) = None THEN a
  ELSE LET b == [a EXCEPT !.thaw = [o |-> a.open, named |-> Named(a),
                                    had |-> HandleOf(a).st = "sending"]]
       IN IF ~Adopts(a) THEN b
          ELSE saveDraft([b EXCEPT !.ops[a.open].wrote = IdOf(a.scr.key, HandleOf(a).v),
                                   !.scr.v = HandleOf(a).v,
                                   !.thaw.named = HandleOf(a).text])

MayArm(a) ==
  a.scr # None /\ a.open # 0 /\ ~Frozen(a) /\ ~Op(a).pend /\ a.scr.text # 0

\* touched: the draft on screen was set, so the debounce starts over.
Rendered(a, touched) ==
  LET b == saveDraft(LastSeen(a))
  IN IF isOpenSendOver(b) THEN [LetGo(b) EXCEPT !.armed = FALSE]
     ELSE LET c == Thawed(b)
          IN [c EXCEPT !.armed = IF touched \/ c.scr # a.scr THEN MayArm(c) ELSE @]

-----------------------------------------------------------------------------
(* The vault's answers.  Each is a compare-and-swap on the named version.  *)

Refusal(key, v) ==
  IF rows[key].st = "sending" THEN "sending" ELSE IF rows[key].v # v THEN "conflict" ELSE "ok"

Put(key, text, st) == rows' = [rows EXCEPT ![key] = [v |-> @.v + 1, text |-> text, st |-> st]]

Unminted == {k \in Keys : rows[k].st = "none" /\ \A i \in Keys : i < k => rows[i].st # "none"}

\* The network: a read before the write throws, a write's answer is lost whether it
\* landed or not.
Fault == used.faults < cast.faults /\ used' = [used EXCEPT !.faults = @ + 1]

\* What a write of an opening may replace: what it had on screen.  A copy restored from the
\* device takes the listed version whatever it holds (restored).
Seen(o, text) == <<o, text>> \in hist.known \/ o \in hist.restored

Record(j, text) ==
  hist' = [hist EXCEPT !.stored = @ \cup {j.text}, !.known = @ \cup {<<j.o, j.text>>},
                       !.blind = IF Seen(j.o, text) THEN @ ELSE @ \cup {j.o}]

-----------------------------------------------------------------------------
(* Work the tab awaits.                                                    *)

Job(kind, o, a) ==
  [kind |-> kind, o |-> o, pc |-> "start", gen |-> a.gen, key |-> 0, v |-> 0, text |-> 0,
   res |-> "", list |-> NoList]

Become(j, k) == jobs' = (jobs \ {j}) \cup {k}
End(j)       == jobs' = jobs \ {j}
isSending    == \E j \in jobs : j.kind = "send"
Awaits(kind, o) == \E j \in jobs : j.kind = kind /\ j.o = o

isCurrent(j) == j.gen = app.gen

\* What an ended session's answer would put on screen.
Say(j, a) == [a EXCEPT !.gens = @ \cup {j.gen}]

Replaces(j) ==
  \/ LET r == Refusal(j.key, j.v) IN
       IF r = "ok"
       THEN /\ Put(j.key, j.text, rows[j.key].st)
            /\ Become(j, [j EXCEPT !.pc = "answer", !.res = "ok", !.v = @ + 1])
            /\ Record(j, rows[j.key].text)
            /\ UNCHANGED used
       ELSE /\ Become(j, [j EXCEPT !.pc = "answer", !.res = r, !.v = rows[j.key].v])
            /\ UNCHANGED <<rows, used, hist>>
  \/ /\ Fault /\ Become(j, [j EXCEPT !.pc = "answer", !.res = "threw"])
     /\ hist' = [hist EXCEPT !.threw = TRUE]
     /\ UNCHANGED rows
  \/ /\ Fault /\ Become(j, [j EXCEPT !.pc = "answer", !.res = "offline"])
     /\ \/ UNCHANGED <<rows, hist>>
        \/ /\ Refusal(j.key, j.v) = "ok" /\ Put(j.key, j.text, rows[j.key].st)
           /\ Record(j, rows[j.key].text)

(* The record of a new compose, minted by whichever write needs it first.  *)

Shares(j) == app.ops[j.o].minted.st # "no"

\* The text goes in as the record is minted, or over what it was minted with.
Mint(j) ==
  /\ j.pc = "mint"
  /\ \/ /\ ~Shares(j)
        /\ app' = [app EXCEPT !.ops[j.o].minted.st = "asked"]
        /\ Become(j, [j EXCEPT !.pc = "create"])
     \/ /\ Shares(j) /\ app.ops[j.o].minted.st # "asked"
        /\ LET m == app.ops[j.o].minted IN
             Become(j, [j EXCEPT !.key = m.key, !.v = m.v,
                                 !.pc = IF j.kind = "send" THEN "claim"
                                        ELSE IF isCurrent(j) /\ m.text # j.text THEN "write"
                                        ELSE "answer",
                                 !.res = "ok"])
        /\ UNCHANGED app
  /\ UNCHANGED <<cast, rows, used, hist>>

createDraft(j) ==
  /\ j.pc = "create"
  /\ \E k \in Unminted :
       \/ /\ Put(k, j.text, "live") /\ hist' = [hist EXCEPT !.stored = @ \cup {j.text},
                                                            !.known = @ \cup {<<j.o, j.text>>}]
          /\ Become(j, [j EXCEPT !.pc = "minted", !.key = k, !.v = 1, !.res = "ok"])
          /\ UNCHANGED used
       \/ /\ Fault /\ Become(j, [j EXCEPT !.pc = "minted", !.res = "offline"])
          /\ \/ UNCHANGED <<rows, hist>>
             \/ Put(k, j.text, "live") /\ hist' = [hist EXCEPT !.stored = @ \cup {j.text}]
  /\ UNCHANGED <<cast, app>>

\* A refusal answers everyone who shared the mint.
MintRefused(j) ==
  {IF k.o = j.o /\ k.pc \in {"mint", "minted"}
   THEN [k EXCEPT !.pc = "answer", !.res = "offline"] ELSE k : k \in jobs}

mintRecord(j) ==
  /\ j.pc = "minted"
  /\ IF j.res # "ok"
     THEN /\ app' = [app EXCEPT !.ops[j.o].minted = Unasked]
          /\ jobs' = MintRefused(j)
     ELSE /\ LET h == [v |-> 1, text |-> j.text, st |-> "live"]
                 a == [app EXCEPT !.ops[j.o].minted = [st |-> "done", key |-> j.key, v |-> 1, text |-> j.text]]
                 b == [a EXCEPT !.ops[j.o].wrote = IdOf(j.key, 1), !.list[j.key] = h,
                                !.scr = IF a.open = j.o /\ @ # None
                                        THEN [@ EXCEPT !.key = j.key, !.v = 1] ELSE @]
             IN app' = IF isCurrent(j) THEN Rendered(Say(j, b), app.open = j.o) ELSE a
          /\ Become(j, [j EXCEPT !.pc = IF @ = "minted" /\ j.kind = "send" THEN "claim" ELSE "answer"])
  /\ UNCHANGED <<cast, rows, used, hist>>

-----------------------------------------------------------------------------
(* The autosave.                                                           *)

Content(a) == a.scr.text

AutosaveFires ==
  /\ app.armed /\ app.scr.v < Versions
  /\ LET o == app.open
         same == /\ HandleOf(app) # None /\ HandleOf(app).v = app.scr.v
                 /\ HandleOf(app).text = Content(app)
     IN IF Op(app).saving \/ same
        THEN app' = [app EXCEPT !.armed = FALSE] /\ UNCHANGED jobs
        ELSE /\ app' = [app EXCEPT !.armed = FALSE, !.ops[o].saving = TRUE]
             /\ jobs' = jobs \cup {[Job("save", o, app) EXCEPT
                                      !.key = app.scr.key, !.v = app.scr.v, !.text = Content(app)]}
  /\ UNCHANGED <<cast, rows, used, hist>>

\* A write starts once its modules are loaded, unless the session has ended.
SaveStarts(j) ==
  /\ j.kind = "save" /\ j.pc = "start"
  /\ IF isCurrent(j)
     THEN Become(j, [j EXCEPT !.pc = IF j.v = 0 THEN "mint" ELSE "write"]) /\ UNCHANGED app
     ELSE End(j) /\ app' = [app EXCEPT !.ops[j.o].saving = FALSE]
  /\ UNCHANGED <<cast, rows, used, hist>>

Writes(j) ==
  /\ j.kind \in {"save", "flush", "agent"} /\ j.pc = "write"
  /\ Replaces(j)
  /\ UNCHANGED <<cast, app>>

Handle(j) == [v |-> j.v, text |-> j.text, st |-> "live"]

SaveEnds(j) ==
  /\ j.kind = "save" /\ j.pc = "answer"
  /\ LET freed == [app EXCEPT !.ops[j.o].saving = FALSE]
         open  == app.open = j.o
         ends(a, touched) == app' = Rendered(a, touched) /\ End(j)
     IN IF ~isCurrent(j) \/ j.res = "threw" THEN app' = freed /\ End(j)
        ELSE IF j.res = "ok"
        THEN LET b == [freed EXCEPT !.err = IF open THEN FALSE ELSE @, !.ops[j.o].wrote = IdOf(j.key, j.v),
                                    !.list[j.key] = IF @ = None THEN None ELSE Handle(j)]
                 mine == b.scr # None /\ b.scr.key = j.key
             IN ends(Say(j, IF mine THEN [b EXCEPT !.scr.v = j.v] ELSE b), mine)
        ELSE IF ~open THEN ends(freed, FALSE)
        ELSE IF j.res = "conflict"
        THEN Become(j, [j EXCEPT !.pc = "list"]) /\ UNCHANGED app
        ELSE ends(Say(j, [freed EXCEPT !.err = TRUE]), FALSE)
  /\ hist' = [hist EXCEPT !.crossed =
                IF isCurrent(j) /\ j.res = "ok" /\ app.open \notin {0, j.o} /\ app.scr # None
                   /\ app.scr.key = j.key
                THEN @ \cup {app.open} ELSE @]
  /\ UNCHANGED <<cast, rows, used>>

-----------------------------------------------------------------------------
(* Lists: after a conflict, a flush, an agent's write, an unlock.          *)

Live == [k \in Keys |-> IF rows[k].st \in {"none", "gone"} THEN None ELSE rows[k]]

listDrafts(j) ==
  /\ j.pc = "list"
  /\ Become(j, [j EXCEPT !.pc = "listed", !.list = Live])
  /\ UNCHANGED <<cast, rows, app, used, hist>>

Listed(j) ==
  /\ j.pc = "listed" /\ j.kind \notin {"drop"}
  /\ LET a == IF j.kind = "save" THEN [app EXCEPT !.ops[j.o].saving = FALSE] ELSE app
         b == [a EXCEPT !.list = j.list]
         c == IF j.kind = "flush" THEN [b EXCEPT !.dev = None]
              ELSE IF j.kind = "save" /\ b.open = j.o
              THEN [b EXCEPT !.conflict = IF j.list[j.key] = None \/ j.list[j.key].v # j.v THEN None
                                          ELSE [key |-> j.key, h |-> j.list[j.key]]]
              ELSE b
     IN app' = IF isCurrent(j) THEN Rendered(Say(j, c), FALSE) ELSE a
  /\ hist' = [hist EXCEPT !.given = IF j.kind = "flush" THEN @ \cup (CopyOf \ {app.open}) ELSE @]
  /\ End(j)
  /\ UNCHANGED <<cast, rows, used>>

-----------------------------------------------------------------------------
(* Opening, typing, closing.                                               *)

CanOpen == app.unlocked /\ Len(app.ops) < cast.opens /\ (app.open = 0 \/ Acts("switch"))

OpenAs(intent, scr, fresh) ==
  /\ app' = Rendered([app EXCEPT !.ops = Append(@, Opening(intent, scr, fresh)),
                                 !.open = Len(app.ops) + 1, !.scr = scr], TRUE)
  /\ hist' = [hist EXCEPT !.known = @ \cup {<<Len(app.ops) + 1, scr.text>>},
                          !.given = @ \cup CopyOf \cup {o \in {app.open} : o # 0},
                          !.mine = Append(@, IF scr.text \in hist.typed THEN scr.text ELSE 0),
                          !.restored = IF ~fresh /\ intent = 0
                                       THEN @ \cup {Len(app.ops) + 1} ELSE @]
  /\ UNCHANGED <<cast, rows, jobs, used>>

\* The copy on the device comes back, under the version the list has.
OpenNew ==
  /\ CanOpen /\ 0 \in cast.intents
  /\ IF app.dev = None \/ app.dev.intent # 0 THEN OpenAs(0, NoScreen, TRUE)
     ELSE LET s == app.dev.scr
              h == IF s.key = 0 THEN None ELSE app.list[s.key]
          IN OpenAs(0, IF h = None THEN s ELSE [s EXCEPT !.v = h.v], FALSE)

OpenDraft(k) ==
  /\ CanOpen /\ k \in cast.intents /\ app.list[k] # None
  /\ OpenAs(k, [key |-> k, v |-> app.list[k].v, text |-> app.list[k].text], FALSE)

\* The fields stay open while a Send waits, and while another device's send freezes the draft.
updateDraft ==
  /\ app.scr # None /\ app.open # 0 /\ used.texts < cast.texts
  /\ LET t == used.texts + 1 IN
       /\ used' = [used EXCEPT !.texts = t]
       /\ app' = Rendered([app EXCEPT !.scr.text = t], TRUE)
       /\ hist' = [hist EXCEPT !.mine[app.open] = t, !.known = @ \cup {<<app.open, t>>},
                               !.typed = @ \cup {t},
                               !.iced = IF Frozen(app) THEN @ \cup {t} ELSE @]
  /\ UNCHANGED <<cast, rows, jobs>>

Abandoned(a) ==
  LET c == Op(a) IN c.sending = "none" /\ c.fresh /\ c.intent = 0 /\ a.scr.text = c.opened

MutHolds(a) == HandleOf(a) # None
Holds(a) == HandleOf(a) # None /\ HandleOf(a).v = a.scr.v /\ HandleOf(a).text = Content(a)

\* seedDraft without an intent.
Close ==
  /\ app.open # 0 /\ app.unlocked
  /\ LET o == app.open
         shut == [app EXCEPT !.open = 0, !.scr = None, !.armed = FALSE]
     IN IF app.scr = None \/ Op(app).discarded
        THEN app' = [shut EXCEPT !.dev = None] /\ UNCHANGED jobs
        ELSE IF Abandoned(app)
        THEN /\ app' = [shut EXCEPT !.dev = None]
             /\ jobs' = IF app.scr.key = 0 THEN jobs
                        ELSE jobs \cup {[Job("abandon", o, app) EXCEPT !.key = app.scr.key,
                                                                       !.v = app.scr.v]}
        ELSE IF Holds(app) THEN app' = [shut EXCEPT !.dev = None] /\ UNCHANGED jobs
        ELSE /\ app' = shut
             /\ jobs' = jobs \cup {[Job("flush", o, app) EXCEPT !.key = app.scr.key,
                                      !.v = app.scr.v, !.text = Content(app)]}
  /\ UNCHANGED <<cast, rows, used, hist>>

\* The flush leaves the record to an autosave that is replacing it.
Leaves(j) == app.ops[j.o].saving /\ j.v # 0

FlushStarts(j) ==
  /\ j.kind = "flush" /\ j.pc = "start" /\ app.ops[j.o].sending # "waiting"
  /\ LET s == app.ops[j.o].sending IN
     IF ~isCurrent(j) \/ s = "threw" THEN End(j) /\ UNCHANGED app
     ELSE IF s = "claimed" THEN End(j) /\ app' = [app EXCEPT !.dev = None]
     ELSE IF Leaves(j) THEN End(j) /\ UNCHANGED app
     ELSE Become(j, [j EXCEPT !.pc = IF j.v = 0 THEN "mint" ELSE "write"]) /\ UNCHANGED app
  /\ hist' = [hist EXCEPT !.given =
                IF app.ops[j.o].sending = "claimed" THEN @ \cup CopyOf \cup {j.o}
                ELSE IF (Leaves(j) \/ app.ops[j.o].sending = "threw") /\ j.o \notin CopyOf
                THEN @ \cup {j.o} ELSE @]
  /\ UNCHANGED <<cast, rows, used>>

FlushEnds(j) ==
  /\ j.kind = "flush" /\ j.pc = "answer"
  /\ IF ~isCurrent(j) \/ j.res = "threw" THEN End(j) /\ UNCHANGED app
     ELSE IF j.res = "ok" THEN Become(j, [j EXCEPT !.pc = "list"]) /\ UNCHANGED app
     ELSE End(j) /\ app' = Say(j, [app EXCEPT !.err = TRUE])
  /\ hist' = [hist EXCEPT !.given = IF j.res = "ok" \/ j.o \in CopyOf THEN @ ELSE @ \cup {j.o}]
  /\ UNCHANGED <<cast, rows, used>>

\* 'mine' writes over the other device's text next, 'theirs' takes it.
resolveDraftConflict(choice) ==
  /\ app.conflict # None /\ app.open # 0 /\ ~isSending
  /\ LET c == app.conflict
         hit == app.scr # None /\ app.scr.key = c.key
         s == [app.scr EXCEPT !.v = c.h.v, !.text = IF choice = "mine" THEN @ ELSE c.h.text]
         b == [app EXCEPT !.conflict = None, !.ops[app.open].wrote = IdOf(c.key, c.h.v),
                          !.scr = IF hit THEN s ELSE @]
     IN /\ app' = Rendered(b, hit)
        /\ hist' = [hist EXCEPT !.known = IF hit THEN @ \cup {<<app.open, c.h.text>>} ELSE @,
                                !.crossed = IF hit THEN @ ELSE @ \cup {app.open},
                                !.mine[app.open] = IF hit /\ choice = "theirs" THEN 0 ELSE @]
  /\ UNCHANGED <<cast, rows, jobs, used>>

-----------------------------------------------------------------------------
(* Sending, as far as the claim and what the list shows after.             *)

send ==
  /\ used.sends < cast.sends /\ ~isSending /\ app.open # 0 /\ app.scr # None /\ ~Op(app).pend /\ ~Frozen(app)
  /\ app.scr.text # 0
  /\ app' = [app EXCEPT !.ops[app.open].pend = TRUE, !.ops[app.open].sending = "waiting",
                        !.armed = FALSE]
  /\ jobs' = jobs \cup {[Job("send", app.open, app) EXCEPT !.key = app.scr.key, !.v = app.scr.v,
                                                           !.text = app.scr.text]}
  /\ used' = [used EXCEPT !.sends = @ + 1]
  /\ UNCHANGED <<cast, rows, hist>>

\* Past the uploads and the save under way: the newest text is what goes.
Saved(j) == ~app.ops[j.o].saving

MutRearms(a) == FALSE
Rearms(a) == a.scr # None

Refused(j, how) ==
  LET a == [app EXCEPT !.ops[j.o].pend = FALSE, !.ops[j.o].sending = how]
  IN app' = IF a.open = j.o THEN Rendered(a, Rearms(a)) ELSE a

SendStarts(j) ==
  /\ j.kind = "send" /\ j.pc = "start" /\ Saved(j)
  /\ IF ~isCurrent(j) THEN Refused(j, "refused") /\ End(j)
     ELSE LET s == IF app.open = j.o /\ app.scr # None THEN app.scr
                   ELSE [key |-> j.key, v |-> j.v, text |-> j.text]
              w == app.ops[j.o].wrote
              id == IF w.key # 0 THEN w ELSE IdOf(s.key, s.v)
          IN /\ Become(j, [j EXCEPT !.pc = IF id.key = 0 THEN "mint" ELSE "claim",
                                    !.key = id.key, !.v = id.v, !.text = s.text])
             /\ UNCHANGED app
  /\ UNCHANGED <<cast, rows, used, hist>>

claimSend(j) ==
  /\ j.kind = "send" /\ j.pc = "claim"
  /\ \/ /\ ~isCurrent(j) /\ Refused(j, "refused") /\ End(j)
        /\ UNCHANGED <<rows, used, hist>>
     \/ /\ isCurrent(j) /\ Refusal(j.key, j.v) = "ok"
        /\ Put(j.key, j.text, "sending") /\ Record(j, rows[j.key].text)
        /\ Become(j, [j EXCEPT !.pc = "answer", !.res = "ok", !.v = @ + 1])
        /\ UNCHANGED <<app, used>>
     \/ /\ isCurrent(j) /\ Refusal(j.key, j.v) # "ok"
        /\ Become(j, [j EXCEPT !.pc = "answer", !.res = "refused"])
        /\ UNCHANGED <<rows, app, used, hist>>
     \/ /\ isCurrent(j) /\ Fault
        /\ \E r \in {"refused", "threw"} : Become(j, [j EXCEPT !.pc = "answer", !.res = r])
        /\ UNCHANGED <<rows, app, hist>>
  /\ UNCHANGED cast

\* The claim lets go of the compose, if it is still the one on screen.
SendEnds(j) ==
  /\ j.kind = "send" /\ j.pc = "answer"
  /\ IF j.res # "ok" THEN Refused(j, IF j.res = "threw" THEN "threw" ELSE "refused") /\ End(j)
     ELSE LET h == [v |-> j.v, text |-> j.text, st |-> "sending"]
              a == [app EXCEPT !.ops[j.o].sending = "claimed",
                               !.list[j.key] = IF isCurrent(j) /\ @ # None THEN h ELSE @]
              b == IF a.open = j.o THEN [a EXCEPT !.scr = None, !.dev = None, !.armed = FALSE] ELSE a
          IN /\ app' = Rendered(IF isCurrent(j) THEN Say(j, b) ELSE b, FALSE)
             /\ Become(j, [j EXCEPT !.kind = "settle", !.pc = "run"])
  /\ hist' = [hist EXCEPT !.given = IF j.res = "ok" /\ app.open = j.o THEN @ \cup {j.o} ELSE @]
  /\ UNCHANGED <<cast, rows, used>>

\* runSend, and what the toast and the list make of its end: done, its copy still
\* pending, refused, unconfirmed (and so marked, or not), or thrown.
Settle(j) ==
  /\ j.kind = "settle" /\ j.pc = "run"
  /\ \E st \in {"gone", "sending", "live", "unsure"} :
       /\ IF st # "sending" /\ rows[j.key].v = j.v THEN Put(j.key, rows[j.key].text, st)
          ELSE UNCHANGED rows
       /\ \/ st \in {"gone", "sending"} /\ Become(j, [j EXCEPT !.pc = "over"])
          \/ st # "gone" /\ Become(j, [j EXCEPT !.pc = "list"])
          \/ st = "sending" /\ End(j)
  /\ UNCHANGED <<cast, app, used, hist>>

dropSent(j) ==
  /\ j.kind = "settle" /\ j.pc = "over"
  /\ app' = IF isCurrent(j) THEN Rendered(Say(j, [app EXCEPT !.list[j.key] = None]), FALSE) ELSE app
  /\ End(j)
  /\ UNCHANGED <<cast, rows, used, hist>>

\* The frozen draft on screen follows the vault.
Follow ==
  /\ Acts("other") /\ Frozen(app) /\ ~Awaits("follow", 0)
  /\ jobs' = jobs \cup {[Job("follow", 0, app) EXCEPT !.key = app.scr.key, !.pc = "read"]}
  /\ UNCHANGED <<cast, rows, app, used, hist>>

readDraftHandle(j) ==
  /\ j.kind = "follow" /\ j.pc = "read"
  /\ Become(j, [j EXCEPT !.pc = "fresh", !.list = Live])
  /\ UNCHANGED <<cast, rows, app, used, hist>>

Followed(j) ==
  /\ j.kind = "follow" /\ j.pc = "fresh"
  /\ LET fresh == j.list[j.key]
         newer(h) == IF h = None \/ fresh = None THEN None ELSE IF h.v > fresh.v THEN h ELSE fresh
     IN app' = IF isCurrent(j) THEN Rendered(Say(j, [app EXCEPT !.list[j.key] = newer(@)]), FALSE)
               ELSE app
  /\ End(j)
  /\ UNCHANGED <<cast, rows, used, hist>>

-----------------------------------------------------------------------------
(* Discarding, from the composer or by the agent.                          *)

\* Off the list before the vault answers, and back on it if it refuses.
Dropping(j, a) ==
  /\ app' = Rendered([a EXCEPT !.list[j.key] = None], FALSE)
  /\ jobs' = jobs \cup {[j EXCEPT !.list = a.list]}

discardDraft ==
  /\ Acts("discard") /\ app.open # 0 /\ app.scr # None /\ ~Frozen(app) /\ ~isSending
  /\ LET a == [app EXCEPT !.ops[app.open].discarded = TRUE, !.dev = None]
         shut == [a EXCEPT !.open = 0, !.scr = None, !.armed = FALSE]
         j == [Job("drop", app.open, app) EXCEPT !.key = app.scr.key, !.v = app.scr.v,
                                                 !.text = app.scr.text]
     IN /\ IF app.scr.key = 0 \/ Awaits("drop", app.open) THEN app' = shut /\ UNCHANGED jobs
           ELSE Dropping(j, shut)
        /\ hist' = [hist EXCEPT !.given = @ \cup {app.open}]
  /\ UNCHANGED <<cast, rows, used>>

Deletable(k, v) ==
  IF rows[k].st \in {"none", "gone"} THEN "absent"
  ELSE IF rows[k].st \in Carried THEN "sending" ELSE IF rows[k].v # v THEN "conflict" ELSE "deleted"

deleteDraft(j) ==
  /\ j.kind \in {"drop", "abandon"} /\ j.pc \in {"start", "again"}
  /\ \/ ~isCurrent(j) /\ End(j) /\ UNCHANGED <<rows, used>>
     \/ /\ isCurrent(j) /\ UNCHANGED used
        /\ LET r == Deletable(j.key, j.v) IN
             /\ IF r = "deleted" THEN Put(j.key, rows[j.key].text, "gone") ELSE UNCHANGED rows
             /\ Become(j, [j EXCEPT !.pc = "answer",
                             !.res = IF j.pc = "again" /\ r = "conflict" THEN "refused" ELSE r])
     \/ isCurrent(j) /\ Fault /\ Become(j, [j EXCEPT !.pc = "answer", !.res = "offline"])
        /\ UNCHANGED rows
  /\ UNCHANGED <<cast, app, hist>>

DropEnds(j) ==
  /\ j.kind \in {"drop", "abandon"} /\ j.pc = "answer"
  /\ LET out == [app EXCEPT !.list[j.key] = None]
         back == [app EXCEPT !.list[j.key] = IF @ = None THEN j.list[j.key] ELSE @]
     IN IF ~isCurrent(j) THEN End(j) /\ UNCHANGED app
        ELSE IF j.res = "conflict" /\ j.kind = "drop" /\ j.o # 0
        THEN Become(j, [j EXCEPT !.pc = "reread"]) /\ UNCHANGED app
        ELSE /\ End(j)
             /\ app' = IF j.res = "deleted" \/ (j.res = "absent" /\ j.kind = "drop")
                       THEN Rendered(Say(j, out), FALSE)
                       ELSE IF j.kind = "drop" THEN Rendered(Say(j, back), FALSE) ELSE app
  /\ UNCHANGED <<cast, rows, used, hist>>

\* A newer version that holds what was on screen is this tab's own: it goes too.
DiscardOwn(j) ==
  /\ j.kind = "drop" /\ j.pc = "reread"
  /\ LET own == Live[j.key] # None /\ Live[j.key].text = j.text
     IN Become(j, IF own THEN [j EXCEPT !.pc = "again", !.v = rows[j.key].v]
                  ELSE [j EXCEPT !.pc = "answer", !.res = "refused"])
  /\ UNCHANGED <<cast, rows, app, used, hist>>

Busy(k) == app.scr # None /\ app.scr.key = k

removeDraft(k) ==
  /\ Acts("agent") /\ app.unlocked /\ app.list[k] # None /\ ~Busy(k) /\ ~Awaits("drop", 0)
  /\ Dropping([Job("drop", 0, app) EXCEPT !.key = k, !.v = app.list[k].v], app)
  /\ UNCHANGED <<cast, rows, used, hist>>

writeDraft(k) ==
  /\ Acts("agent") /\ app.unlocked /\ app.list[k] # None /\ ~Busy(k) /\ ~Awaits("agent", 0)
  /\ used.texts < cast.texts /\ used' = [used EXCEPT !.texts = @ + 1]
  /\ jobs' = jobs \cup {[Job("agent", 0, app) EXCEPT !.key = k, !.v = app.list[k].v, !.pc = "write",
                                                     !.text = used.texts + 1]}
  /\ hist' = [hist EXCEPT !.known = @ \cup {<<0, app.list[k].text>>}]
  /\ UNCHANGED <<cast, rows, app>>

WriteDraftEnds(j) ==
  /\ j.kind = "agent" /\ j.pc = "answer"
  /\ IF isCurrent(j) /\ j.res = "ok" THEN Become(j, [j EXCEPT !.pc = "list"]) ELSE End(j)
  /\ UNCHANGED <<cast, rows, app, used, hist>>

-----------------------------------------------------------------------------
(* The session, and the other devices.                                     *)

\* Nothing of the user stays: not on screen, not on the device.
reset ==
  /\ Acts("lock") /\ app.unlocked /\ app.gen < 2
  /\ app' = [app EXCEPT !.unlocked = FALSE, !.gen = @ + 1, !.list = NoList, !.open = 0,
                        !.scr = None, !.conflict = None, !.err = FALSE, !.armed = FALSE,
                        !.dev = None, !.gens = {}]
  /\ hist' = [hist EXCEPT !.given = @ \cup (1..Len(app.ops))]
  /\ UNCHANGED <<cast, rows, jobs, used>>

Unlock ==
  /\ ~app.unlocked
  /\ app' = [app EXCEPT !.unlocked = TRUE]
  /\ jobs' = jobs \cup {[Job("load", 0, app) EXCEPT !.pc = "list"]}
  /\ UNCHANGED <<cast, rows, used, hist>>

\* The page goes and its work with it; the device's copy stays.
Reload ==
  /\ Acts("reload") /\ app.unlocked /\ app.gen < 2
  /\ app' = [app EXCEPT !.unlocked = FALSE, !.gen = @ + 1, !.list = NoList, !.open = 0,
                        !.scr = None, !.conflict = None, !.err = FALSE, !.armed = FALSE,
                        !.last = None, !.thaw = None, !.gens = {}]
  /\ jobs' = {}
  /\ hist' = [hist EXCEPT !.given = @ \cup {o \in 1..Len(app.ops) : o # app.open}
                                     \cup {o \in {app.open} : o # 0 /\ o \notin CopyOf}]
  /\ UNCHANGED <<cast, rows, used>>

Elsewhere(k, text, st) ==
  /\ Acts("other") /\ used.others < cast.others
  /\ used' = [used EXCEPT !.others = @ + 1]
  /\ Put(k, text, st)
  /\ UNCHANGED <<cast, app, jobs, hist>>

\* The texts of other devices, apart from every one typed here.
Foreign == cast.texts + 2 + used.others

OtherEdits(k)    == rows[k].st \in {"live", "unsure"} /\ Elsewhere(k, Foreign, rows[k].st)
OtherDiscards(k) == rows[k].st = "live" /\ Elsewhere(k, rows[k].text, "gone")
OtherClaims(k)   == /\ rows[k].st = "live"
                    /\ \E t \in {rows[k].text, Foreign} : Elsewhere(k, t, "sending")
OtherSettles(k)  == /\ rows[k].st = "sending" /\ ~\E j \in jobs : j.kind = "settle" /\ j.key = k
                    /\ \E st \in {"live", "gone", "unsure"} : Elsewhere(k, rows[k].text, st)

\* Nothing awaited, nothing left to do.
Rest == jobs = {} /\ UNCHANGED vars

-----------------------------------------------------------------------------
Init ==
  /\ cast \in Casts
  /\ used = [texts |-> 0, sends |-> 0, others |-> 0, faults |-> 0]
  /\ rows = [k \in Keys |-> IF k = 1 /\ cast.row # "none"
                            THEN [v |-> 1, text |-> cast.texts + 1, st |-> cast.row]
                            ELSE NoRow]
  /\ app = [gen |-> 1, unlocked |-> TRUE, list |-> [k \in Keys |-> IF rows[k].v = 0 THEN None
                                                                  ELSE rows[k]],
            open |-> 0, scr |-> None, conflict |-> None, err |-> FALSE, armed |-> FALSE,
            last |-> None, thaw |-> None, dev |-> None, ops |-> <<>>, gens |-> {}]
  /\ jobs = {}
  /\ hist = [stored |-> {}, known |-> {}, mine |-> <<>>, given |-> {}, restored |-> {},
             typed |-> {}, iced |-> {}, blind |-> {}, crossed |-> {}, threw |-> FALSE]

Person ==
  \/ OpenNew \/ (\E k \in Keys : OpenDraft(k)) \/ updateDraft \/ Close \/ send \/ discardDraft
  \/ \E choice \in {"mine", "theirs"} : resolveDraftConflict(choice)

Agent == \E k \in Keys : writeDraft(k) \/ removeDraft(k)

Tab(j) ==
  \/ SaveStarts(j) \/ Writes(j) \/ SaveEnds(j) \/ Mint(j) \/ createDraft(j) \/ mintRecord(j)
  \/ listDrafts(j) \/ Listed(j) \/ FlushStarts(j) \/ FlushEnds(j)
  \/ SendStarts(j) \/ claimSend(j) \/ SendEnds(j) \/ Settle(j) \/ dropSent(j)
  \/ readDraftHandle(j) \/ Followed(j)
  \/ deleteDraft(j) \/ DropEnds(j) \/ DiscardOwn(j) \/ WriteDraftEnds(j)

Others ==
  \E k \in Keys : OtherEdits(k) \/ OtherDiscards(k) \/ OtherClaims(k) \/ OtherSettles(k)

Next ==
  \/ Person \/ Agent \/ AutosaveFires \/ Follow \/ (\E j \in jobs : Tab(j))
  \/ reset \/ Unlock \/ Reload \/ Others \/ Rest

Spec == Init /\ [][Next]_vars

-----------------------------------------------------------------------------
(* The properties.                                                         *)

Openings == 1..Len(app.ops)

\* Where the last text of an opening is to be found.
Kept(o) ==
  \/ hist.mine[o] \in hist.stored
  \/ app.open = o /\ app.scr # None /\ app.scr.text = hist.mine[o]
  \/ InCopy(hist.mine[o])
  \/ \E j \in jobs : j.o = o /\ j.text = hist.mine[o]

\* A text the person typed last into an opening is in the vault, on screen, in the copy the
\* device restores, or on its way, unless they threw it away, the message went, or one of the
\* code's own exceptions let it go (given): through every close, mint, Send and refusal.
TypedTextSurvives ==
  \A o \in Openings :
    hist.mine[o] # 0 /\ o \notin hist.given /\ ~app.ops[o].discarded => Kept(o)

\* No write replaces a text its opening never had on screen, another device's or this tab's own:
\* every id an opening comes to name, it came by with the text under it.  An opening that took
\* an id by what was another opening's (crossed) is what AnswersStayInTheirOpening is about.
NothingUnseenIsOverwritten == hist.blind \subseteq hist.crossed

\* What one opening is answered is applied to no other: never is a text replaced by an opening
\* that came by its version from another's save or another's conflict.
AnswersStayInTheirOpening == hist.blind = {}

\* Nothing awaited, no timer, and a text that never reached the vault.
Unsaved ==
  /\ jobs = {} /\ ~app.armed /\ app.open # 0 /\ app.scr # None
  /\ hist.mine[app.open] \notin hist.stored \cup {0}

\* What the composer tells of it: the notice that the draft is not saved, the choice between
\* two versions, or the banner of a send.
Said == app.err \/ app.conflict # None \/ Frozen(app)

\* With no other writer, and no read that throws, autosaving never ends in silence with a text unsaved: no
\* shared mint, refused Send or restored copy leaves the newest text without a timer or a notice.
\* A record already gone, and a text typed while the tab's own send froze it, are the code's
\* exceptions.
AutosaveCatchesUp ==
  /\ used.others = 0 /\ ~hist.threw /\ ~Acts("agent")
  /\ (HandleOf(app) = None => app.scr = None \/ app.scr.key = 0)
  /\ Unsaved
  => Said \/ hist.mine[app.open] \in hist.iced

\* An unsaved text is always said to be.
UnsavedIsSaid == Unsaved => Said

\* No answer to an ended session reaches the screen: the next session shows nothing of the last.
EndedSessionsSayNothing == app.gens \subseteq {app.gen}
=============================================================================
