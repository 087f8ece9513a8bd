---------------------------- MODULE ImapSession ----------------------------
(***************************************************************************)
(* The client's steps over a wire that cuts bytes anywhere, its callers,   *)
(* and the server.                                                         *)
(***************************************************************************)
EXTENDS ImapClient

(***************************************************************************)
(* Callers.                                                                *)
(***************************************************************************)
Step(c) == /\ cl' = [c EXCEPT !.out = <<>>]
           /\ up' = up \o c.out

Throws == IF cut THEN BOOLEAN ELSE {FALSE}

\* idle() on a client that ended is answered at once; every other call waits its turn.
CallNow(id) ==
  /\ id \in CallIds \ cl.called
  /\ LET called == [cl EXCEPT !.called = @ \cup {id}]
     IN cl' = IF Call(id).op = "idle" /\ (cl.closed \/ cl.why # None)
              THEN [called EXCEPT !.results[id] = Failure("closed")]
              ELSE [called EXCEPT !.queue = Append(@, id)]
  /\ UNCHANGED <<who, up, down, cut, srv>>

done(id) ==
  /\ id \in cl.called /\ Call(id).op = "idle" /\ ~cl.idles[id].asked
  /\ \E throws \in Throws : Step(sendDone([cl EXCEPT !.idles[id].asked = TRUE], id, throws))
  /\ UNCHANGED <<who, down, cut, srv>>

StartCommand ==
  /\ cl.run = NoRun /\ cl.queue # <<>>
  /\ \E throws \in Throws : Step(Start(cl, throws))
  /\ UNCHANGED <<who, down, cut, srv>>

\* A command that awaited the greeting.
Greeted ==
  /\ cl.run # NoRun /\ cl.greeting # Waiting
  /\ cl.run.stage \in {"greeting", "ownGreeting", "idleGreeting"}
  /\ \E throws \in Throws :
       Step(CASE cl.run.stage = "ownGreeting" -> AfterGreeting(cl, throws)
              [] cl.greeting.kind # "ok" -> Answer(cl, cl.greeting)
              [] cl.greeting.kind = "ok" /\ cl.run.stage = "greeting" -> Send(cl, throws)
              [] OTHER -> StartIdle(cl, throws))
  /\ UNCHANGED <<who, down, cut, srv>>

NextLook == IF Len(cl.buf) >= cl.resume.need THEN Look(cl.buf, cl.resume)
            ELSE [is |-> "more", resume |-> cl.resume]

TakeResponse ==
  /\ Reading(cl) /\ cl.why = None /\ NextLook.is = "response"
  /\ \E throws \in Throws :
       Step(Take([cl EXCEPT !.buf = NextLook.rest, !.resume = NoResume], NextLook.response, throws))
  /\ UNCHANGED <<who, down, cut, srv>>

\* transport.read: any part of what was sent, or, once the connection is gone, the end.
Chunk(n) ==
  /\ Reading(cl) /\ cl.why = None /\ NextLook.is = "more" /\ n \in 1 .. Len(down)
  /\ n = Len(down) \/ cast.splits
  /\ cl' = [cl EXCEPT !.buf = @ \o SubSeq(down, 1, n), !.resume = NextLook.resume]
  /\ down' = SubSeq(down, n + 1, Len(down))
  /\ UNCHANGED <<who, up, cut, srv>>

End ==
  /\ Reading(cl)
  /\ \/ cl.why # None
     \/ NextLook.is = "more" /\ cut /\ down = <<>>
  /\ Step(ReadFails(cl, IF cl.why # None THEN cl.why ELSE "closed"))
  /\ UNCHANGED <<who, down, cut, srv>>

(***************************************************************************)
(* The server.                                                             *)
(***************************************************************************)
Line(tokens) == tokens \o CrLf
Star(tokens) == Line(<<Atom("*")>> \o tokens)
Atoms(S) == [i \in 1 .. Cardinality(S) |-> Atom(SetToSeq(S)[i])]
Paren(tokens) == <<LP>> \o tokens \o <<RP>>
Code(tokens) == <<LB>> \o tokens \o <<RB>>
Status(word, code) == Star(<<Atom(word)>> \o code)
Tagged(tag, word, code) == Line(<<[k |-> "tag", v |-> tag], Atom(word)>> \o code)

Box == DOMAIN srv.box
SeqNumber(u) == Cardinality({v \in Box : v <= u})
NextUid == 1 + (CHOOSE m \in Box \cup {0} : \A v \in Box : v <= m)

UidItem(u) == <<Atom("UID"), Num(u)>>
FlagsItem(u) == <<Atom("FLAGS")>> \o Paren(Atoms(srv.box[u]))
Address(name) == Paren(<<Nil, Nil, Quoted(name), Quoted("host")>>)
EnvelopeItem(u) ==
  LET list == Paren(Address(Messages[u].subject))
  IN <<Atom("ENVELOPE")>> \o Paren(<<Nil, Quoted(Messages[u].subject)>> \o list \o <<Nil, Nil>>
       \o list \o <<Nil, Nil, Nil, Quoted(Messages[u].subject)>>)
Text == Paren(<<Quoted("TEXT"), Quoted("PLAIN"), Nil, Nil, Nil, Quoted("7BIT"), Num(1), Num(1)>>)
File(name) == Paren(<<Quoted("APPLICATION"), Quoted("PDF"), Nil, Nil, Nil, Quoted("BASE64"), Num(1), Nil>>
                    \o Paren(<<Quoted("ATTACHMENT")>> \o Paren(<<Quoted("filename"), Quoted(name)>>)))
StructureItem(u) ==
  <<Atom("BODYSTRUCTURE")>>
    \o Paren(Text \o FlattenSeq([i \in DOMAIN Messages[u].names |-> File(Messages[u].names[i])]))
BodyLiteral(u) ==
  <<Atom("BODY"), LB, RB, Brace(Len(Messages[u].body))>> \o CrLf \o Messages[u].body

Fetch(u, items) == Star(<<Num(SeqNumber(u)), Atom("FETCH")>> \o Paren(items))
Sorted(S) == SetToSortSeq(S, <)
Each(S, items(_)) == FlattenSeq([i \in DOMAIN Sorted(S) |-> Fetch(Sorted(S)[i], items(Sorted(S)[i]))])

SummaryItems(u) == FlagsItem(u) \o EnvelopeItem(u) \o UidItem(u) \o StructureItem(u)
FlagItems(u) == FlagsItem(u) \o UidItem(u)
NameItems(u) == UidItem(u) \o StructureItem(u)
RawItems(u) == UidItem(u) \o BodyLiteral(u)

\* A uid set as a server writes it: consecutive uids as a range, either end first.
Ranges(S) ==
  LET low == {u \in S : u - 1 \notin S}
      high(u) == CHOOSE v \in S : v >= u /\ v + 1 \notin S /\ u .. v \subseteq S
  IN <<UidSet([i \in 1 .. Cardinality(low) |->
         LET u == Sorted(low)[i]
         IN IF high(u) = u THEN <<u>> ELSE IF srv.reversed THEN <<high(u), u>> ELSE <<u, high(u)>>])>>

CopyCode(S, target) == Code(<<Atom("COPYUID"), Num(7)>> \o Ranges(S) \o Ranges(target))

Asked(call) == call.uids \cap Box
Moved(call) == [u \in Asked(call) |-> srv.moved + Cardinality({v \in Asked(call) : v <= u})]

\* What a command answers before its tagged line, the code on that line, and the truth it tells.
Answers(call, verb) ==
  LET uids == IF "uids" \in DOMAIN call THEN Asked(call) ELSE {}
      target == {Moved(call)[u] : u \in uids}
      low == {u \in uids : \A v \in uids : u <= v}
      none == [lines |-> <<>>, code |-> <<>>, truth |-> None]
  IN CASE verb = "capability" ->
            [none EXCEPT !.lines = Star(<<Atom("CAPABILITY")>> \o Atoms(srv.caps)), !.truth = srv.caps]
       [] verb \in {"plain", "plainIr", "login"} ->
            [none EXCEPT !.code = IF cast.tellsCaps THEN Code(<<Atom("CAPABILITY")>> \o Atoms(srv.caps)) ELSE <<>>]
       [] verb = "list" ->
            [none EXCEPT !.lines = Star(<<Atom("LIST")>> \o Paren(<<>>) \o <<Quoted("/"), Quoted("INBOX")>>),
                         !.truth = <<"INBOX">>]
       [] verb = "select" ->
            [lines |-> Star(<<Atom("FLAGS")>> \o Paren(<<Atom("seen")>>)) \o Star(<<Num(Cardinality(Box)), Atom("EXISTS")>>)
                       \o Status("OK", Code(<<Atom("UIDVALIDITY"), Num(7)>>))
                       \o Status("OK", Code(<<Atom("UIDNEXT"), Num(NextUid)>>)),
             code |-> Code(<<Atom(IF call.readOnly THEN "READ-ONLY" ELSE "READ-WRITE")>>),
             truth |-> [exists |-> Cardinality(Box), flags |-> {"seen"}, permanentFlags |-> {}, uidValidity |-> 7,
                        uidNext |-> NextUid, readOnly |-> call.readOnly]]
       [] verb = "summaries" -> [none EXCEPT !.lines = Each(uids, SummaryItems), !.truth = uids]
       [] verb = "names" -> [none EXCEPT !.lines = Each(uids, NameItems), !.truth = uids]
       [] verb = "flags" -> [none EXCEPT !.lines = Each(uids, FlagItems), !.truth = [u \in uids |-> srv.box[u]]]
       [] verb \in {"raw", "raws"} -> [none EXCEPT !.lines = Each(uids, RawItems), !.truth = uids]
       [] verb = "store" -> [none EXCEPT !.lines = Each(uids, FlagItems)]
       [] verb = "append" ->
            [none EXCEPT !.code = IF "UIDPLUS" \in srv.caps THEN Code(<<Atom("APPENDUID"), Num(7), Num(NextUid)>>) ELSE <<>>,
                         !.truth = IF "UIDPLUS" \in srv.caps THEN [uidValidity |-> 7, uid |-> NextUid] ELSE Null]
       [] verb = "search" ->
            [none EXCEPT !.lines = Star(<<Atom("SEARCH")>> \o [i \in 1 .. Cardinality(Box) |-> Num(Reverse(Sorted(Box))[i])]),
                         !.truth = Sorted(Box)]
       [] verb = "move" ->
            [lines |-> CASE cast.copyUid = "untagged" /\ uids # {} -> Status("OK", CopyCode(uids, target))
                         [] cast.copyUid = "split" /\ uids # {} ->
                              Status("OK", CopyCode(low, {Moved(call)[u] : u \in low}))
                                \o (IF uids = low THEN <<>>
                                    ELSE Status("OK", CopyCode(uids \ low, {Moved(call)[u] : u \in uids \ low})))
                         [] OTHER -> <<>>,
             code |-> IF cast.copyUid = "tagged" /\ uids # {} THEN CopyCode(uids, target) ELSE <<>>,
             truth |-> IF cast.copyUid = "none" THEN <<>> ELSE Moved(call)]
       [] verb = "logout" -> [none EXCEPT !.lines = Status("BYE", <<>>)]
       [] OTHER -> none

\* What a command does to the mailbox.
Without(S) == [u \in Box \ S |-> srv.box[u]]
Done(call, verb) ==
  CASE verb = "store" -> [srv EXCEPT !.box = [u \in Box |-> IF u \in Asked(call) THEN {"seen"} ELSE @[u]]]
    [] verb = "append" -> [srv EXCEPT !.box = [u \in Box \cup {NextUid} |-> IF u \in Box THEN @[u] ELSE {}]]
    [] verb = "expunge" -> [srv EXCEPT !.box = Without({u \in Box : "deleted" \in srv.box[u]})]
    [] verb = "uidExpunge" -> [srv EXCEPT !.box = Without({u \in Asked(call) : "deleted" \in srv.box[u]})]
    [] verb = "move" -> [srv EXCEPT !.box = Without(Asked(call)), !.moved = @ + Cardinality(Asked(call))]
    [] verb \in {"plain", "plainIr", "login"} -> [srv EXCEPT !.caps = cast.capsAfter]
    [] OTHER -> srv

\* A change by another client, told in a line of its own: flags, mail that came, and, only where
\* the RFC lets a server say so, mail that went.
MayExpunge ==
  /\ cast.expunges
  /\ \/ srv.mode = "idling"
     \/ srv.mode \in {"run", "ending"} /\ srv.cur.verb \in {"noop", "capability", "move", "expunge", "uidExpunge"}

Say(lines) == down' = down \o lines

\* A flag or a count told after a command's own is the newer one.
LogExists ==
  IF srv.mode = "ending" /\ srv.cur.verb = "select"
  THEN [srv.log EXCEPT ![srv.cur.id].v.exists = @ + 1] ELSE srv.log

LogFlags(u, flags) ==
  IF srv.mode = "ending" /\ srv.cur.verb = "flags" /\ u \in DOMAIN srv.log[srv.cur.id].v
  THEN [srv.log EXCEPT ![srv.cur.id].v[u] = flags] ELSE srv.log

Tell ==
  /\ ~cut /\ srv.events > 0 /\ srv.mode \in {"ready", "size", "run", "ending", "idling"}
  /\ srv.mode = "ready" => cast.chatty
  /\ \/ \E u \in Box :
          /\ Say(Star(<<Num(SeqNumber(u)), Atom("FETCH")>> \o Paren(UidItem(u) \o <<Atom("FLAGS")>> \o Paren(<<Atom("flagged")>>))))
          /\ srv' = [srv EXCEPT !.box[u] = {"flagged"}, !.events = @ - 1, !.log = LogFlags(u, {"flagged"})]
     \/ /\ NextUid \in DOMAIN Messages
        /\ Say(Star(<<Num(Cardinality(Box) + 1), Atom("EXISTS")>>))
        /\ srv' = [srv EXCEPT !.box = [u \in Box \cup {NextUid} |-> IF u \in Box THEN @[u] ELSE {}],
                              !.events = @ - 1, !.told = @ + 1, !.log = LogExists]
     \/ \E u \in {v \in Box : MayExpunge} :
          /\ Say(Star(<<Num(SeqNumber(u)), Atom("EXPUNGE")>>))
          /\ srv' = [srv EXCEPT !.box = Without({u}), !.events = @ - 1, !.told = @ + 1]
  /\ UNCHANGED <<who, cl, up, cut>>

Greet ==
  /\ srv.mode = "new" /\ ~cut
  /\ \E word \in cast.greetings :
       /\ Say(IF word = "junk" THEN Line(<<Plus>>)
              ELSE Status(word, IF cast.tellsCaps THEN Code(<<Atom("CAPABILITY")>> \o Atoms(srv.caps)) ELSE <<>>))
       /\ srv' = [srv EXCEPT !.mode = IF word = "BYE" THEN "gone" ELSE "ready"]
  /\ UNCHANGED <<who, cl, up, cut>>

Said == Head(up)
Hears(mode, kind) == ~cut /\ srv.mode = mode /\ up # <<>> /\ Said.k = kind
Pop == up' = Tail(up) /\ UNCHANGED <<who, cl, cut>>
Refuse(status) == /\ Say(Tagged(srv.cur.tag, status, <<>>))
                  /\ srv' = [srv EXCEPT !.mode = "ready", !.log[srv.cur.id].is = "refused"]

\* A part of a command: a literal follows, or a SASL answer, or the command is whole.
ReadPart ==
  /\ Hears(srv.mode, "part") /\ srv.mode = (IF Said.first THEN "ready" ELSE "text")
  /\ Pop
  /\ srv' = [srv EXCEPT !.cur = Said,
                        !.mode = CASE ~Said.last -> "size"
                                   [] Said.last /\ Said.verb = "plain" -> "sasl"
                                   [] Said.last /\ Said.verb = "idle" -> "asked"
                                   [] OTHER -> "run"]
  /\ IF Said.last /\ Said.verb = "plain" THEN Say(Line(<<Plus>>)) ELSE UNCHANGED down

ReadSize ==
  /\ Hears("size", "size") /\ Pop
  /\ \/ ~Said.sync /\ UNCHANGED down /\ srv' = [srv EXCEPT !.mode = "octets"]
     \/ Said.sync /\ Say(Line(<<Plus>>)) /\ srv' = [srv EXCEPT !.mode = "octets"]
     \/ Said.sync /\ cast.refuses /\ \E status \in {"NO", "BAD"} :
          /\ Say(Tagged(srv.cur.tag, status, <<>>))
          /\ srv' = [srv EXCEPT !.mode = "ready", !.log[srv.cur.id].is = "refused"]

ReadRest ==
  /\ \E step \in {<<"octets", "octets", "text">>, <<"sasl", "sasl", "run">>, <<"idling", "done", "done">>} :
       Hears(step[1], step[2]) /\ srv' = [srv EXCEPT !.mode = step[3]]
  /\ Pop /\ UNCHANGED down

Execute ==
  /\ srv.mode = "run" /\ ~cut
  /\ LET answer == Answers(Call(srv.cur.id), srv.cur.verb)
     IN /\ Say(answer.lines)
        /\ srv' = [Done(Call(srv.cur.id), srv.cur.verb)
                     EXCEPT !.mode = "ending", !.code = answer.code,
                            !.log[srv.cur.id] = [is |-> "done", v |-> answer.truth]]
  /\ UNCHANGED <<who, cl, up, cut>>

Complete ==
  /\ ~cut
  /\ \/ /\ srv.mode \in {"ending", "done"}
        /\ Say(Tagged(srv.cur.tag, "OK", IF srv.mode = "ending" THEN srv.code ELSE <<>>))
        /\ srv' = [srv EXCEPT !.code = <<>>, !.log[srv.cur.id].is = "done",
                              !.mode = IF srv.cur.verb = "logout" THEN "gone" ELSE "ready"]
     \/ srv.mode = "asked" /\ Say(Line(<<Plus>>)) /\ srv' = [srv EXCEPT !.mode = "idling"]
     \/ srv.mode \in {"asked", "run"} /\ cast.refuses /\ \E status \in {"NO", "BAD"} : Refuse(status)
  /\ UNCHANGED <<who, cl, up, cut>>

SetDone(id) == [srv.log EXCEPT ![id].is = "done"]

\* Once, where the cast has it: a goodbye, another's tag, a '+' nobody waits for, an answer to IDLE
\* before DONE, a line that is none, or the connection cut with what was on its way.
Misbehave ==
  /\ srv.mode \notin {"new", "gone"} /\ ~cut /\ srv.faults # {}
  /\ \E fault \in srv.faults :
       /\ srv' = [srv EXCEPT !.faults = {}, !.mode = IF fault \in {"tag", "plus"} THEN @ ELSE "gone",
                             !.log = IF fault = "early" /\ srv.mode = "idling" THEN SetDone(srv.cur.id) ELSE @]
       /\ cut' = (fault = "cut")
       /\ CASE fault = "bye" -> Say(Status("BYE", <<>>))
            [] fault = "tag" -> Say(Tagged(0, "OK", <<>>))
            [] fault = "early" -> IF srv.mode = "idling" THEN Say(Tagged(srv.cur.tag, "OK", <<>>)) ELSE Say(<<>>)
            [] fault = "plus" -> IF srv.mode = "run" THEN Say(Line(<<Plus>>)) ELSE Say(<<>>)
            [] fault = "junk" -> Say(<<Atom("x"), Mark("lf")>>)
            [] fault = "openQuote" -> Say(Line(<<Atom("*"), Mark("openQuote")>>))
            [] fault = "brace" -> Say(Line(<<Atom("*"), Brace(MaxLiteral + 1)>>))
            [] fault = "cut" -> \E n \in 0 .. Len(down) : down' = SubSeq(down, 1, n)
  /\ UNCHANGED <<who, cl, up>>

Hang == /\ srv.mode = "gone" /\ ~cut /\ cut' = TRUE /\ UNCHANGED <<who, cl, up, down, srv>>

(***************************************************************************)
(* The whole.                                                              *)
(***************************************************************************)
NewClient(calls) ==
  [closed |-> FALSE, why |-> None, caps |-> {}, tag |-> 1, greeting |-> Waiting, buf |-> <<>>,
   resume |-> NoResume, run |-> NoRun, queue |-> <<>>, called |-> {}, out |-> <<>>, heard |-> 0,
   results |-> [id \in calls |-> None],
   idles |-> [id \in calls |-> [asked |-> FALSE, sent |-> FALSE, idling |-> FALSE]]]

Init ==
  /\ who \in DOMAIN Casts
  /\ cl = NewClient(CallIds)
  /\ up = <<>> /\ down = <<>> /\ cut = FALSE
  /\ srv = [mode |-> "new", box |-> cast.box, caps |-> cast.caps, cur |-> NoRun, code |-> <<>>, moved |-> 100,
            reversed |-> cast.reversed, events |-> cast.events, told |-> 0, faults |-> cast.faults,
            log |-> [id \in CallIds |-> [is |-> "none", v |-> None]]]

Serve == Greet \/ ReadPart \/ ReadSize \/ ReadRest \/ Execute \/ Complete \/ Hang
Client == StartCommand \/ Greeted \/ TakeResponse \/ (\E n \in 1 .. Len(down) : Chunk(n)) \/ End

Next ==
  \/ \E id \in Ids : CallNow(id)
  \/ \E id \in Ids : done(id)
  \/ Client \/ Serve \/ Tell \/ Misbehave

Spec == Init /\ [][Next]_vars

(***************************************************************************)
(* Properties.                                                             *)
(***************************************************************************)
Told(entries) == {entries[n].uid : n \in DOMAIN entries}

Agrees(call, v, truth) ==
  CASE call.op \in {"capability", "list", "select", "append", "search"} -> v = truth
    [] call.op = "summaries" ->
         LET whole == SelectSeq(v, LAMBDA e : e.envelope # Null)
         IN /\ Told(whole) = truth
            /\ \A n \in DOMAIN whole :
                 /\ whole[n].envelope.subject.v = Messages[whole[n].uid].subject
                 /\ whole[n].envelope.messageId.v = Messages[whole[n].uid].subject
                 /\ whole[n].envelope.from[1].name = Null
                 /\ whole[n].envelope.to[1].mailbox.v = Messages[whole[n].uid].subject
                 /\ whole[n].names = Messages[whole[n].uid].names
    [] call.op = "names" ->
         Told(v) = truth /\ \A n \in DOMAIN v : v[n].names = Messages[v[n].uid].names
    [] call.op = "flags" ->
         \A u \in DOMAIN truth :
           LET own == SelectSeq(v, LAMBDA e : e.uid = u) IN own # <<>> /\ Last(own).flags = truth[u]
    [] call.op = "raw" -> \E u \in truth : v = Messages[u].body
    [] call.op = "raws" -> Told(v) = truth /\ \A n \in DOMAIN v : v[n].bytes = Messages[v[n].uid].body
    [] call.op = "move" ->
         IF truth = <<>> THEN v = Null
         ELSE v # Null /\ \A u \in DOMAIN Messages :
                             copiedUid(v, u) = (IF u \in DOMAIN truth THEN truth[u] ELSE 0)
    [] OTHER -> TRUE

\* What a call resolves with is what the server said to that call: an ok is a command it carried
\* out, with the data it gave for it, whatever it told unasked in between and however the bytes
\* were cut; a no or a bad is a command it refused, or one the client would not send it; and a
\* protocol failure is never the doing of where the network cut the bytes of a server in order.
AnswersAreTheServers ==
  \A id \in CallIds :
    LET r == cl.results[id]
        log == srv.log[id]
        unsent == Call(id).op \in {"move", "uidExpunge"} /\ log.is = "none"
        absent == Call(id).op = "raw" /\ log.is = "done" /\ log.v = {}
    IN r # None =>
         /\ (r.kind = "ok") => (log.is = "done" /\ Agrees(Call(id), r.value, log.v))
         /\ (r.kind \in {"no", "bad"}) => (log.is = "refused" \/ unsent \/ absent)
         /\ (r.kind = "protocol") => (srv.faults # cast.faults \/ "junk" \in cast.greetings)

\* Every line the client writes is one the server can take where it stands: DONE only while it
\* idles, a literal only after its size and its leave, a credential only after its '+', and the
\* next command only after the answer to the last.
StreamInStep ==
  ~cut /\ up # <<>> =>
    CASE srv.mode = "ready" -> Said.k = "part" /\ Said.first
      [] srv.mode = "text" -> Said.k = "part" /\ ~Said.first
      [] srv.mode \in {"size", "octets", "sasl"} -> Said.k = srv.mode
      [] srv.mode = "idling" -> Said.k = "done"
      [] OTHER -> srv.mode = "gone"

\* New mail and removals told by the server reach onUntagged once each, whichever command, literal
\* or idle was reading when they came.
ChangesAreHeard ==
  cl.why = None /\ cl.greeting # Waiting /\ down = <<>> /\ cl.buf = <<>> /\ ~cut
    => cl.heard = srv.told + Cardinality({id \in CallIds : Call(id).op = "select" /\ srv.log[id].is = "done"})

\* The two sides stay in step through everything: what each call resolves with is its own answer,
\* and each line goes out where the server can take it.
AnswersInStep == AnswersAreTheServers /\ StreamInStep

ClientCan ==
  \/ cl.run = NoRun /\ cl.queue # <<>>
  \/ cl.run # NoRun /\ cl.greeting # Waiting /\ cl.run.stage \in {"greeting", "ownGreeting", "idleGreeting"}
  \/ Reading(cl) /\ (cl.why # None \/ cut \/ down # <<>> \/ NextLook.is = "response")

ServerCan == ~cut /\ (up # <<>> \/ srv.mode \in {"new", "run", "ending", "asked", "done", "gone"})

\* No call is left without an answer: when the client has nothing to take or start, the server
\* nothing to read or say, and whoever called idle() has called done(), every call made has its
\* result, the ones behind an idle and the ones behind a connection that ended included.  (No
\* behaviour goes on for ever between two calls, so this is that every call is answered.)
NoCallIsStranded ==
  (~ClientCan /\ ~ServerCan /\ \A id \in cl.called : Call(id).op = "idle" => cl.idles[id].asked)
    => \A id \in cl.called : cl.results[id] # None

=============================================================================
