------------------------------ MODULE CliWait ------------------------------
(***************************************************************************)
(* `list --wait`: every inbox looked at afresh each round, what it gained  *)
(* read and matched, a server asked only for the words a body may hold,    *)
(* and all of them held in IDLE when none gained anything.  Mailboxes fail *)
(* one at a time, connections drop, folders are renumbered, and old mail   *)
(* comes back to an inbox as new as new mail looks.                        *)
(*                                                                         *)
(* A mail is known by its fingerprint, so its copies in two inboxes are    *)
(* one message.                                                            *)
(***************************************************************************)
EXTENDS Integers, Sequences, FiniteSets, FiniteSetsExt, SequencesExt

CONSTANTS
  Mails,       \* every mail there may be
  WaitCasts,   \* [boxes, inbox, held, arrivals, world, events]
  OfSummary,   \* the mails whose summary alone meets the query
  OfBody       \* the mails whose summary leaves a word that their body holds

\* A box is a number, so that the copies of one mail have a first.
WaitAssumption ==
  /\ OfSummary \cup OfBody \subseteq Mails
  /\ \A c \in WaitCasts : /\ c.boxes \subseteq Nat /\ c.arrivals \subseteq Mails
                          /\ c.inbox \in [c.boxes -> Seq(Mails)]

VARIABLES
  caller,    \* the cast of this behaviour
  server,    \* [box -> [uidv, mail: Seq(mail)]]: each inbox, by uid
  starts,    \* [box -> [uidv, lastUid]]: each inbox's mark when the wait first looked
  reached,   \* [box -> uid]: how far it has been read since
  arrived,   \* [box -> set of [uid, mail]]: what was read of it
  round,     \* [stage, todo, looks, fresh, candidates, words]: the round under way
  dropped,   \* the boxes whose IDLE connection dropped in the round before
  failed,    \* the boxes given up
  events,
  judged     \* ghost: the mails a failing server was asked about last

waitVars == <<caller, server, starts, reached, arrived, round, dropped, failed, events, judged>>

Boxes == caller.boxes

Watching == Boxes \ failed

Unmarked == [uidv |-> 0, lastUid |-> 0]

NoLook == [uidv |-> 0, lastUid |-> -1]

NewRound == [stage |-> "look", todo |-> {}, looks |-> [b \in Boxes |-> NoLook], grown |-> {},
             fresh |-> [b \in Boxes |-> {}], candidates |-> {}, found |-> {}]

WaitInit ==
  /\ caller \in WaitCasts
  /\ server = [b \in Boxes |-> [uidv |-> 1, mail |-> caller.inbox[b]]]
  /\ starts = [b \in Boxes |-> Unmarked]
  /\ reached = [b \in Boxes |-> 0]
  /\ arrived = [b \in Boxes |-> {}]
  /\ dropped = {} /\ failed = {} /\ events = 0 /\ judged = {}
  /\ round = [NewRound EXCEPT !.todo = Boxes]

(***************************************************************************)
(* A round.                                                                *)
(***************************************************************************)
Quiet == UNCHANGED <<caller, server, events, judged>>

\* The deadline drops whatever is running, and every mailbox failing fails the wait.
Ends(stage) == round' = [round EXCEPT !.stage = stage]

\* INBOX selected afresh, so the mark is the server's now and not a cache's.
lookTask(box) ==
  /\ round.stage = "look" /\ box \in round.todo
  /\ round' = [round EXCEPT !.todo = @ \ {box},
                 !.looks[box] = [uidv |-> server[box].uidv, lastUid |-> Len(server[box].mail)]]
  /\ Quiet /\ UNCHANGED <<starts, reached, arrived, dropped, failed>>

\* The first look marks where new starts; a renumbered inbox starts again from where it is.
IsFirst(box) == starts[box].uidv # round.looks[box].uidv

Looked ==
  /\ round.stage = "look" /\ round.todo = {}
  /\ IF Watching = {} THEN Ends("failed") /\ UNCHANGED <<starts, reached, arrived>>
     ELSE LET restarted == {b \in Watching : IsFirst(b)}
              grown == {b \in Watching \ restarted : round.looks[b].lastUid > reached[b]}
          IN /\ starts' = [b \in Boxes |-> IF b \in restarted THEN round.looks[b] ELSE starts[b]]
             /\ reached' = [b \in Boxes |-> IF b \in restarted THEN round.looks[b].lastUid
                                            ELSE reached[b]]
             /\ arrived' = [b \in Boxes |-> IF b \in restarted THEN {} ELSE arrived[b]]
             /\ round' = [round EXCEPT !.stage = IF grown = {} THEN "idle" ELSE "fetch",
                                       !.todo = grown, !.grown = grown]
  /\ Quiet /\ UNCHANGED <<dropped, failed>>

\* What INBOX holds past the last uid read: what landed since the look too.
arrivalsTask(box) ==
  /\ round.stage = "fetch" /\ box \in round.todo
  /\ LET mails == server[box].mail
         uids == (reached[box] + 1)..Len(mails)
         answer == {[uid |-> u, mail |-> mails[u]] : u \in uids}
     IN /\ round' = [round EXCEPT !.todo = @ \ {box}, !.fresh[box] = answer]
        /\ arrived' = [arrived EXCEPT ![box] = @ \cup answer]
        /\ reached' = [reached EXCEPT ![box] = Max(uids \cup {round.looks[box].lastUid})]
  /\ Quiet /\ UNCHANGED <<starts, dropped, failed>>

\* Mutant: a mail held before the wait counts as new, should it come back.
MutIsNew(mail) == TRUE

\* Every copy at hand is one that arrived during the wait.
IsNew(mail) == mail \notin caller.held

\* One candidate a message, by the first of its copies that is fresh.
FreshIn(mail) == {b \in Boxes : \E c \in round.fresh[b] : c.mail = mail}

matching ==
  /\ round.stage = "fetch" /\ round.todo = {}
  /\ LET fresh == UNION {{c.mail : c \in round.fresh[b]} : b \in Boxes}
         candidates == {[mail |-> m, box |-> Min(FreshIn(m))] :
                          m \in {n \in fresh \cap (OfSummary \cup OfBody) : IsNew(n)}}
         asked == {c.box : c \in {d \in candidates : d.mail \notin OfSummary}}
     IN round' = [round EXCEPT !.stage = "words", !.candidates = candidates,
                    !.todo = asked \cap Watching,
                    !.found = {c.mail : c \in {d \in candidates : d.mail \in OfSummary}}]
  /\ Quiet /\ UNCHANGED <<starts, reached, arrived, dropped, failed>>

bodySearchTask(box) ==
  /\ round.stage = "words" /\ box \in round.todo
  /\ LET holding == {c.mail : c \in {d \in round.candidates : d.box = box /\ d.mail \in OfBody}}
     IN round' = [round EXCEPT !.todo = @ \ {box}, !.found = @ \cup holding]
  /\ Quiet /\ UNCHANGED <<starts, reached, arrived, dropped, failed>>

\* More may have landed while that was read: the next round looks before it idles.
Matched ==
  /\ round.stage = "words" /\ round.todo = {}
  /\ round' = IF round.found # {} THEN [round EXCEPT !.stage = "answered"]
              ELSE [NewRound EXCEPT !.todo = Watching]
  /\ Quiet /\ UNCHANGED <<starts, reached, arrived, dropped, failed>>

\* The first inbox that says a change, of its mail or of a flag, ends the round,
\* and so does a poll of one without IDLE.  Nothing forces it: a change said
\* while the look's own answers are read, before onChange is set, ends nothing.
IdleEnds(box) ==
  /\ round.stage = "idle" /\ box \in Watching
  /\ dropped' = dropped \ {box}
  /\ round' = [NewRound EXCEPT !.todo = Watching]
  /\ Quiet /\ UNCHANGED <<starts, reached, arrived, failed>>

\* One that drops twice running is given up.
IdleDrops(box) ==
  /\ round.stage = "idle" /\ box \in Watching
  /\ "drop" \in caller.world /\ events < caller.events /\ events' = events + 1
  /\ failed' = IF box \in dropped THEN failed \cup {box} ELSE failed
  /\ dropped' = dropped \cup {box}
  /\ round' = [NewRound EXCEPT !.todo = Boxes \ failed']
  /\ UNCHANGED <<caller, server, starts, reached, arrived, judged>>

\* The server fails a command: its mailbox is watched no more.
ServerFails(box) ==
  /\ round.stage \in {"look", "fetch", "words"} /\ box \in round.todo
  /\ "fail" \in caller.world /\ events < caller.events /\ events' = events + 1
  /\ failed' = failed \cup {box}
  /\ judged' = judged \cup {c.mail : c \in {d \in round.candidates : d.box = box}}
  /\ round' = [round EXCEPT !.todo = @ \ {box}]
  /\ UNCHANGED <<caller, server, starts, reached, arrived, dropped>>

\* At the deadline whatever is running is dropped.
TimedOut ==
  /\ round.stage \notin {"answered", "failed", "timed out"}
  /\ Ends("timed out")
  /\ Quiet /\ UNCHANGED <<starts, reached, arrived, dropped, failed>>

(***************************************************************************)
(* The inboxes.                                                            *)
(***************************************************************************)
Lands(box, mail) ==
  /\ events < caller.events /\ events' = events + 1
  /\ round.stage \notin {"answered", "failed", "timed out"}
  /\ ~\E u \in DOMAIN server[box].mail : server[box].mail[u] = mail
  /\ server' = [server EXCEPT ![box].mail = Append(@, mail)]
  /\ UNCHANGED <<caller, starts, reached, arrived, round, dropped, failed, judged>>

\* Rebuilt under other numbers, at any moment: a task that finds its connection
\* lost selects the inbox again, and only the look reads its UIDVALIDITY.
RebuiltInbox(box) ==
  /\ "renumber" \in caller.world /\ events < caller.events /\ events' = events + 1
  /\ round.stage \notin {"answered", "failed", "timed out"}
  /\ server[box].uidv = 1
  /\ LET uids == DOMAIN server[box].mail
     IN \E place \in [uids -> uids] :
          /\ \A u, v \in uids : place[u] = place[v] => u = v
          /\ server' = [server EXCEPT ![box] =
                           [uidv |-> 2, mail |-> [u \in uids |-> server[box].mail[place[u]]]]]
  /\ UNCHANGED <<caller, starts, reached, arrived, round, dropped, failed, judged>>

WaitNext ==
  \/ Looked \/ matching \/ Matched \/ TimedOut
  \/ \E b \in Boxes : \/ lookTask(b) \/ arrivalsTask(b) \/ bodySearchTask(b) \/ ServerFails(b)
                      \/ IdleEnds(b) \/ IdleDrops(b) \/ RebuiltInbox(b)
                      \/ \E m \in caller.arrivals : Lands(b, m)

WaitSpec == WaitInit /\ [][WaitNext]_waitVars

(***************************************************************************)
(* What a wait must answer.                                                *)
(***************************************************************************)
IsWanted(mail) == mail \in (OfSummary \cup OfBody) \ caller.held

\* What is answered matches, no copy of it was held before, and it was read past
\* the mark of an inbox (which a renumbering may have put older mail behind).
AnswersAreNew ==
  round.stage = "answered" =>
    \A m \in round.found : IsWanted(m) /\ \E b \in Boxes : \E c \in arrived[b] : c.mail = m

\* Idling on everything read, no inbox holds mail the wait should have
\* answered: only a server that failed when asked leaves a mail unjudged.
NothingIsSkipped ==
  round.stage = "idle" =>
    \A b \in Watching : \A u \in 1..reached[b] :
      u > starts[b].lastUid /\ starts[b].uidv = server[b].uidv =>
        ~IsWanted(server[b].mail[u]) \/ server[b].mail[u] \in judged

\* Idle is entered only on what was just looked at and read to its end.
IdlesOnWhatItSaw ==
  round.stage = "idle" =>
    \A b \in Watching : starts[b].uidv = round.looks[b].uidv /\ reached[b] = round.looks[b].lastUid

(***************************************************************************)
(* A wait answers mail held nowhere when it began and read past the marks  *)
(* it first saw, skips none it could have judged, and idles only on what   *)
(* it just saw.  What ends an IDLE is not promised: see IdleEnds.          *)
(***************************************************************************)
WaitAnswersNewMail == AnswersAreNew /\ NothingIsSkipped /\ IdlesOnWhatItSaw

=============================================================================
