----------------------------- MODULE ImapClient -----------------------------
(***************************************************************************)
(* One IMAP connection: the client of packages/imap/src/client.ts with the *)
(* commands its callers queue on it, the bytes either way, and a server.   *)
(*                                                                         *)
(* The client's variables are the fields of cl; a step of it runs from one *)
(* await of the transport, of the greeting or of the queue to the next.    *)
(* out is what a step writes.  A queued command is a call of the cast: an  *)
(* operation with what it names.  idle() holds the queue until done().     *)
(*                                                                         *)
(* The server is external: it answers as the code's comments and the RFCs  *)
(* they cite have it, may refuse, say goodbye, be cut off or misbehave     *)
(* once where the cast says so, and tells of changes nobody asked about    *)
(* between, inside and after the answers to commands.                      *)
(***************************************************************************)
EXTENDS ImapResponse

CONSTANTS
  Ids,                \* the calls of a cast, in no order
  Casts,              \* who calls what, and the server's capabilities and faults, by number
  Messages,           \* uid -> [subject, body, names]: what the mailbox may hold
  LiteralMinusMax,    \* 4096 in the code
  MaxUid,
  None

ASSUME LiteralAssumption == LiteralMinusMax \in Nat /\ MaxLiteral \in Nat

VARIABLES
  who,       \* the cast
  cl,        \* the client
  up,        \* what was written and not read by the server
  down,      \* symbols sent and not read by the client
  cut,       \* the connection is gone: reads end, writes may throw
  srv

vars == <<who, cl, up, down, cut, srv>>

cast == Casts[who]
Call(id) == cast.calls[id]
CallIds == DOMAIN cast.calls

Ok(v) == [kind |-> "ok", value |-> v]
Failure(kind) == [kind |-> kind]

NoRun == [id |-> None]
Waiting == [kind |-> "waiting"]

(***************************************************************************)
(* Writing a command.                                                      *)
(***************************************************************************)
Part(run, i, last) == [k |-> "part", tag |-> run.tag, verb |-> run.verb, id |-> run.id, first |-> i = 1, last |-> last]
Size(sync) == [k |-> "size", sync |-> sync]
Octets == [k |-> "octets"]
DoneLine == [k |-> "done"]
Sasl == [k |-> "sasl"]

Answer(c, r) == [c EXCEPT !.results[c.run.id] = r, !.run = NoRun]
Break(c, why) == [c EXCEPT !.closed = TRUE, !.why = why]
FailAll(c, why) == Answer(Break(c, why), Failure(why))

\* The octets of each line's literal, 0 for a line without one.
Literals(run) ==
  IF run.verb \in {"append", "login", "search"} /\ "lits" \in DOMAIN Call(run.id) THEN Append(Call(run.id).lits, 0) ELSE <<0>>

SynchronizesFree(c, size) ==
  "LITERAL+" \in c.caps \/ ("LITERAL-" \in c.caps /\ size <= LiteralMinusMax)

RECURSIVE SendLines(_, _)
SendLines(c, i) ==
  LET lits == Literals(c.run)
      said == [c EXCEPT !.out = Append(@, Part(c.run, i, i = Len(lits)))]
  IN IF i > Len(lits) THEN [c EXCEPT !.run.stage = "read"]
     ELSE IF lits[i] = 0 THEN SendLines(said, i + 1)
     ELSE IF SynchronizesFree(c, lits[i])
     THEN SendLines([said EXCEPT !.out = @ \o <<Size(FALSE), Octets>>], i + 1)
     ELSE [said EXCEPT !.out = Append(@, Size(TRUE)), !.run.stage = "literal", !.run.line = i]

Send(c, throws) ==
  IF throws THEN FailAll(c, "closed")
  ELSE SendLines([c EXCEPT !.run.tag = c.tag, !.tag = c.tag + 1], 1)

\* executeCommand: refused by a connection that ended, and after a greeting that failed.
Exec(c, verb, step, throws) ==
  LET r == [c.run EXCEPT !.verb = verb, !.step = step, !.seen = <<>>, !.sawCaps = FALSE, !.bye = FALSE]
      next == [c EXCEPT !.run = r]
  IN IF c.closed THEN Answer(c, Failure("closed"))
     ELSE CASE c.greeting = Waiting -> [next EXCEPT !.run.stage = "greeting"]
            [] c.greeting.kind = "ok" -> Send(next, throws)
            [] OTHER -> Answer(c, c.greeting)

(***************************************************************************)
(* What a command's answers say.                                           *)
(***************************************************************************)
OfKind(seen, kind) == SelectSeq(seen, LAMBDA u : u.kind = kind)
ItemsOf(items, kind) == SelectSeq(items, LAMBDA i : i.kind = kind)
Has(items, kind) == ItemsOf(items, kind) # <<>>
LastItem(items, kind) == Last(ItemsOf(items, kind))
FirstItem(items, kind) == ItemsOf(items, kind)[1]

UidOrZero(items) == IF Has(items, "uid") THEN LastItem(items, "uid").uid ELSE 0
FlagsOrNone(items) == IF Has(items, "flags") THEN LastItem(items, "flags").flags ELSE {}

summariesFrom(seen) ==
  LET fetches == OfKind(seen, "fetch")
  IN [n \in DOMAIN fetches |->
        LET items == fetches[n].items
        IN [uid |-> UidOrZero(items), flags |-> FlagsOrNone(items),
            envelope |-> IF Has(items, "envelope") THEN LastItem(items, "envelope").envelope ELSE Null,
            names |-> IF Has(items, "bodyStructure") THEN LastItem(items, "bodyStructure").names ELSE <<>>]]

\* Mutant: a FETCH without a structure is a message without files.
MutNamesFrom(seen) ==
  LET told == SelectSeq(OfKind(seen, "fetch"), LAMBDA f : Has(f.items, "uid"))
  IN [n \in DOMAIN told |-> [uid |-> FirstItem(told[n].items, "uid").uid,
                             names |-> IF Has(told[n].items, "bodyStructure")
                                       THEN FirstItem(told[n].items, "bodyStructure").names ELSE <<>>]]

NamesFrom(seen) ==
  LET told == SelectSeq(OfKind(seen, "fetch"),
                        LAMBDA f : Has(f.items, "uid") /\ Has(f.items, "bodyStructure"))
  IN [n \in DOMAIN told |-> [uid |-> FirstItem(told[n].items, "uid").uid,
                             names |-> FirstItem(told[n].items, "bodyStructure").names]]

FlagsFrom(seen) ==
  LET told == SelectSeq(OfKind(seen, "fetch"), LAMBDA f : UidOrZero(f.items) # 0)
  IN [n \in DOMAIN told |-> [uid |-> UidOrZero(told[n].items), flags |-> FlagsOrNone(told[n].items)]]

Body(item) == item.kind = "body" /\ item.bytes # Null

\* The first body among the answers, whichever message's: fetchRaw asked for one.
RawFrom(seen) ==
  LET items == FlattenSeq([n \in DOMAIN OfKind(seen, "fetch") |-> OfKind(seen, "fetch")[n].items])
      bodies == SelectSeq(items, Body)
  IN IF bodies = <<>> THEN Failure("no") ELSE Ok(bodies[1].bytes.v)

RawsFrom(seen) ==
  LET told == SelectSeq(OfKind(seen, "fetch"),
                        LAMBDA f : /\ Has(f.items, "uid") /\ Has(f.items, "body")
                                   /\ FirstItem(f.items, "body").bytes # Null)
  IN [n \in DOMAIN told |-> [uid |-> FirstItem(told[n].items, "uid").uid,
                             bytes |-> FirstItem(told[n].items, "body").bytes.v]]

applyCode(sel, code) ==
  CASE code.kind = "uidValidity" -> [sel EXCEPT !.uidValidity = code.value]
    [] code.kind = "uidNext" -> [sel EXCEPT !.uidNext = code.value]
    [] code.kind = "permanentFlags" -> [sel EXCEPT !.permanentFlags = code.flags]
    [] code.kind = "readOnly" -> [sel EXCEPT !.readOnly = TRUE]
    [] code.kind = "readWrite" -> [sel EXCEPT !.readOnly = FALSE]
    [] OTHER -> sel

SelectedFrom(seen, tagged, readOnly) ==
  LET start == [exists |-> 0, flags |-> {}, permanentFlags |-> {}, uidValidity |-> None,
                uidNext |-> None, readOnly |-> readOnly]
      apply(sel, u) ==
        CASE u.kind = "exists" -> [sel EXCEPT !.exists = u.count]
          [] u.kind = "flags" -> [sel EXCEPT !.flags = u.flags]
          [] u.kind = "status" -> applyCode(sel, u.code)
          [] OTHER -> sel
  IN applyCode(FoldLeft(apply, start, seen), tagged.code)

appendUidOf(code) ==
  IF /\ code.kind = "other" /\ code.code = "APPENDUID" /\ Len(code.args) >= 2
     /\ \A i \in 1 .. 2 : code.args[i].k = "number"
  THEN [uidValidity |-> code.args[1].v, uid |-> code.args[2].v]
  ELSE Null

\* Mutant: a range is read as it stands, its first uid below its last.
MutUidRangesOf(token) ==
  LET parts == CASE token.k = "number" -> <<<<token.v>>>> [] token.k = "set" -> token.v [] OTHER -> <<<<0>>>>
  IN IF \E i \in DOMAIN parts : Len(parts[i]) > 2 \/ \E j \in DOMAIN parts[i] : parts[i][j] \notin 1 .. MaxUid
     THEN <<>> ELSE [i \in DOMAIN parts |-> <<parts[i][1], Last(parts[i])>>]

\* A uid set as ascending ranges; <<>> when it is malformed.
uidRangesOf(token) ==
  LET parts == CASE token.k = "number" -> <<<<token.v>>>> [] token.k = "set" -> token.v [] OTHER -> <<<<0>>>>
  IN IF \E i \in DOMAIN parts : Len(parts[i]) > 2 \/ \E j \in DOMAIN parts[i] : parts[i][j] \notin 1 .. MaxUid
     THEN <<>>
     ELSE [i \in DOMAIN parts |->
             LET first == parts[i][1]
                 end == Last(parts[i])
             IN IF first <= end THEN <<first, end>> ELSE <<end, first>>]

sizeOf(ranges) == FoldLeft(LAMBDA n, r : n + r[2] - r[1] + 1, 0, ranges)

copyUidOfCode(code) ==
  IF code.kind # "other" \/ code.code # "COPYUID" \/ Len(code.args) < 3 THEN Null
  ELSE LET source == uidRangesOf(code.args[2])
           target == uidRangesOf(code.args[3])
       IN IF code.args[1].k # "number" \/ source = <<>> \/ target = <<>> \/ sizeOf(source) # sizeOf(target)
          THEN Null
          ELSE [uidValidity |-> code.args[1].v, source |-> source, target |-> target]

copyUidOf(seen, tagged) ==
  LET codes == Append([n \in DOMAIN seen |-> IF seen[n].kind = "status" THEN seen[n].code ELSE NoCode], tagged.code)
      answers == SelectSeq([n \in DOMAIN codes |-> copyUidOfCode(codes[n])], LAMBDA a : a # Null)
  IN IF answers = <<>> \/ \E n \in DOMAIN answers : answers[n].uidValidity # answers[1].uidValidity THEN Null
     ELSE [uidValidity |-> answers[1].uidValidity,
           source |-> FlattenSeq([n \in DOMAIN answers |-> answers[n].source]),
           target |-> FlattenSeq([n \in DOMAIN answers |-> answers[n].target])]

\* The uids of some ranges in their order, which positionOf and uidAt count through.
UidsIn(ranges) == FlattenSeq([n \in DOMAIN ranges |-> [i \in 1 .. ranges[n][2] - ranges[n][1] + 1 |-> ranges[n][1] + i - 1]])

copiedUid(copy, uid) ==
  LET at == FirstOr0({n \in DOMAIN UidsIn(copy.source) : UidsIn(copy.source)[n] = uid})
  IN IF at \in DOMAIN UidsIn(copy.target) THEN UidsIn(copy.target)[at] ELSE 0

SortedUids(seen) ==
  SortSeq(FlattenSeq([n \in DOMAIN OfKind(seen, "search") |-> OfKind(seen, "search")[n].uids]), <)

Listed(seen) == [n \in DOMAIN OfKind(seen, "list") |-> OfKind(seen, "list")[n].mailbox.v]

ValueOf(call, seen, tagged, caps) ==
  CASE call.op = "capability" -> Ok(caps)
    [] call.op = "list" -> Ok(Listed(seen))
    [] call.op = "select" -> Ok(SelectedFrom(seen, tagged, call.readOnly))
    [] call.op = "summaries" -> Ok(summariesFrom(seen))
    [] call.op = "names" -> Ok(NamesFrom(seen))
    [] call.op = "flags" -> Ok(FlagsFrom(seen))
    [] call.op = "raw" -> RawFrom(seen)
    [] call.op = "raws" -> Ok(RawsFrom(seen))
    [] call.op = "append" -> Ok(appendUidOf(tagged.code))
    [] call.op = "search" -> Ok(SortedUids(seen))
    [] call.op = "move" -> Ok(copyUidOf(seen, tagged))
    [] OTHER -> Ok(Null)

(***************************************************************************)
(* The steps of an operation.                                              *)
(***************************************************************************)
AuthStep(c, throws) ==
  CASE c.caps \cap {"AUTH=PLAIN"} # {} /\ "SASL-IR" \in c.caps -> Exec(c, "plainIr", "auth", throws)
    [] c.caps \cap {"AUTH=PLAIN"} # {} /\ "SASL-IR" \notin c.caps -> Exec(c, "plain", "auth", throws)
    [] "AUTH=PLAIN" \notin c.caps /\ "LOGINDISABLED" \notin c.caps -> Exec(c, "login", "auth", throws)
    [] OTHER -> Answer(c, Failure("unsupported"))

\* After the greeting that authenticate, uidExpunge and move await before anything else.
AfterGreeting(c, throws) ==
  LET op == Call(c.run.id).op
  IN CASE c.greeting.kind # "ok" -> Answer(c, c.greeting)
       [] c.greeting.kind = "ok" /\ op = "authenticate" ->
            IF c.caps = {} THEN Exec(c, "capability", "pre", throws) ELSE AuthStep(c, throws)
       [] c.greeting.kind = "ok" /\ op = "uidExpunge" ->
            IF "UIDPLUS" \notin c.caps THEN Answer(c, Failure("no")) ELSE Exec(c, op, "only", throws)
       [] OTHER ->
            IF c.caps \cap {"MOVE", "IMAP4REV2"} = {} THEN Answer(c, Failure("no"))
            ELSE Exec(c, op, "only", throws)

StartIdle(c, throws) ==
  CASE c.closed -> Answer(c, Failure(IF c.why \in {None, "protocol"} THEN "closed" ELSE c.why))
    [] ~c.closed /\ c.greeting = Waiting -> [c EXCEPT !.run.stage = "idleGreeting"]
    [] ~c.closed /\ c.greeting # Waiting /\ c.greeting.kind # "ok" -> Answer(c, c.greeting)
    [] OTHER ->
         IF throws THEN FailAll(c, "closed")
         ELSE [c EXCEPT !.run.tag = c.tag, !.tag = c.tag + 1, !.run.stage = "unidled",
                        !.out = Append(@, Part([c.run EXCEPT !.tag = c.tag], 1, TRUE))]

Start(c, throws) ==
  LET id == Head(c.queue)
      op == Call(id).op
      begun == [c EXCEPT !.queue = Tail(@),
                         !.run = [id |-> id, verb |-> op, step |-> "only", stage |-> "start", line |-> 0,
                                  tag |-> 0, seen |-> <<>>, sawCaps |-> FALSE, bye |-> FALSE]]
  IN CASE op = "idle" -> StartIdle(begun, throws)
       [] op \in {"authenticate", "uidExpunge", "move"} ->
            IF c.greeting = Waiting THEN [begun EXCEPT !.run.stage = "ownGreeting"]
            ELSE AfterGreeting(begun, throws)
       [] OTHER -> Exec(begun, op, "only", throws)

\* logout closes the client whatever came of it.
Settle(c, r) ==
  LET answered == Answer(c, r)
  IN IF Call(c.run.id).op = "logout" THEN [answered EXCEPT !.closed = TRUE] ELSE answered

StepDone(c, tagged, throws) ==
  CASE c.run.step = "pre" -> AuthStep(c, throws)
    [] c.run.step = "auth" ->
         IF c.run.sawCaps THEN Answer(c, Ok(Null)) ELSE Exec(c, "capability", "post", throws)
    [] c.run.step = "post" -> Answer(c, Ok(Null))
    [] OTHER -> Settle(c, ValueOf(Call(c.run.id), c.run.seen, tagged, c.caps))

\* Mutant: what is told while a literal waits for its leave is the command's alone.
MutHeard(c, u) == IF c.run # NoRun /\ c.run.stage = "literal" THEN c
                  ELSE [c EXCEPT !.heard = IF u.kind \in {"exists", "expunge"} THEN @ + 1 ELSE @]

Heard(c, u) == [c EXCEPT !.heard = IF u.kind \in {"exists", "expunge"} THEN @ + 1 ELSE @]

\* An untagged response while a command or its literal waits.
Collect(c, u) ==
  LET heard == Heard(c, u)
      kept == [heard EXCEPT !.run.seen = Append(@, u)]
      known == IF u.kind = "capability"
               THEN [kept EXCEPT !.caps = u.capabilities, !.run.sawCaps = TRUE] ELSE kept
  IN IF u.kind # "status" \/ u.status # "BYE" THEN known
     ELSE IF c.run.verb = "logout" THEN [known EXCEPT !.run.bye = TRUE]
     ELSE Settle(Break(known, "bye"), Failure("bye"))

WrongTag(c, r) == r.tag # c.run.tag

TakeLiteral(c, r, throws) ==
  CASE r.kind = "untagged" -> Collect(c, r.untagged)
    [] r.kind = "continuation" ->
         IF throws THEN FailAll(c, "closed")
         ELSE SendLines([c EXCEPT !.out = Append(@, Octets)], c.run.line + 1)
    [] r.kind = "tagged" ->
         CASE WrongTag(c, r) -> FailAll(c, "protocol")
           [] ~WrongTag(c, r) /\ r.status = "NO" -> Settle(c, Failure("no"))
           [] ~WrongTag(c, r) /\ r.status = "BAD" -> Settle(c, Failure("bad"))
           [] OTHER -> c

TakeAnswer(c, r, throws) ==
  CASE r.kind = "untagged" -> Collect(c, r.untagged)
    [] r.kind = "continuation" ->
         IF c.run.verb # "plain" THEN Settle(Break(c, "protocol"), Failure("protocol"))
         ELSE IF throws THEN FailAll(c, "closed") ELSE [c EXCEPT !.out = Append(@, Sasl)]
    [] r.kind = "tagged" ->
         LET known == IF r.code.kind = "capability"
                      THEN [c EXCEPT !.caps = r.code.capabilities, !.run.sawCaps = TRUE] ELSE c
         IN CASE WrongTag(c, r) -> Settle(Break(c, "protocol"), Failure("protocol"))
              [] ~WrongTag(c, r) /\ r.status = "OK" -> StepDone(known, r, throws)
              [] ~WrongTag(c, r) /\ r.status = "NO" -> Settle(known, Failure("no"))
              [] OTHER -> Settle(known, Failure("bad"))

(***************************************************************************)
(* idle().                                                                 *)
(***************************************************************************)
\* Mutant: DONE is written as soon as it is asked for.
MutSendDone(c, id, throws) ==
  IF c.idles[id].sent \/ c.results[id] # None THEN c
  ELSE IF throws THEN Break([c EXCEPT !.idles[id].sent = TRUE], "closed")
  ELSE [c EXCEPT !.idles[id].sent = TRUE, !.out = Append(@, DoneLine)]

sendDone(c, id, throws) ==
  IF c.idles[id].sent \/ ~c.idles[id].idling \/ c.results[id] # None THEN c
  ELSE IF throws THEN Break([c EXCEPT !.idles[id].sent = TRUE], "closed")
  ELSE [c EXCEPT !.idles[id].sent = TRUE, !.out = Append(@, DoneLine)]

\* Mutant: a done() that arrived before the '+' is forgotten.
MutBeginIdling(c, throws) ==
  [c EXCEPT !.idles[c.run.id].idling = TRUE, !.run.stage = "idling"]

\* A done() that arrived before the '+' sends DONE with it.
BeginIdling(c, throws) ==
  LET id == c.run.id
      on == [c EXCEPT !.idles[id].idling = TRUE, !.run.stage = "idling"]
  IN IF ~c.idles[id].asked THEN on
     ELSE IF throws /\ ~c.idles[id].sent THEN FailAll(on, "closed")
     ELSE sendDone(on, id, FALSE)

\* A tagged answer to IDLE: a refusal before the '+', the end after DONE, or out of turn.
TakeIdleEnd(c, r) ==
  LET refused == Answer(c, Failure(IF r.status = "NO" THEN "no" ELSE "bad"))
  IN IF WrongTag(c, r) THEN FailAll(c, "protocol")
     ELSE IF c.run.stage = "unidled"
     THEN IF r.status = "OK" THEN FailAll(c, "protocol") ELSE refused
     ELSE IF ~c.idles[c.run.id].sent THEN FailAll(c, "protocol")
     ELSE IF r.status = "OK" THEN Answer(c, Ok(Null)) ELSE refused

TakeIdle(c, r, throws) ==
  CASE r.kind = "untagged" ->
         IF r.untagged.kind = "status" /\ r.untagged.status = "BYE"
         THEN FailAll(c, "bye") ELSE Heard(c, r.untagged)
    [] r.kind = "continuation" ->
         IF c.run.stage = "unidled" THEN BeginIdling(c, throws) ELSE FailAll(c, "protocol")
    [] r.kind = "tagged" -> TakeIdleEnd(c, r)

(***************************************************************************)
(* Reading.                                                                *)
(***************************************************************************)
Reading(c) == \/ c.greeting = Waiting
              \/ c.run # NoRun /\ c.run.stage \in {"literal", "read", "unidled", "idling"}

TakeGreeting(c, r) ==
  LET u == r.untagged
  IN IF r.kind # "untagged" \/ u.kind # "status" \/ u.status \notin {"OK", "PREAUTH", "BYE"}
     THEN [c EXCEPT !.greeting = Failure("protocol")]
     ELSE IF u.status = "BYE" THEN [Break(c, "bye") EXCEPT !.greeting = Failure("bye")]
     ELSE IF u.code.kind = "capability"
     THEN [c EXCEPT !.greeting = Ok(Null), !.caps = u.code.capabilities]
     ELSE [c EXCEPT !.greeting = Ok(Null)]

\* The read failed: its reason is the waiting command's, and everyone else finds it closed.
ReadFails(c, why) ==
  LET broken == Break(c, why)
  IN IF c.greeting = Waiting THEN [broken EXCEPT !.greeting = Failure(why)]
     ELSE IF c.run.stage \in {"literal", "read"}
     THEN Settle(broken, Failure(IF why = "closed" /\ c.run.bye THEN "bye" ELSE why))
     ELSE Answer(broken, Failure(why))

Take(c, r, throws) ==
  CASE r.kind = "protocol" -> ReadFails(c, "protocol")
    [] r.kind # "protocol" /\ c.greeting = Waiting -> TakeGreeting(c, r)
    [] r.kind # "protocol" /\ c.greeting # Waiting /\ c.run.stage = "literal" -> TakeLiteral(c, r, throws)
    [] r.kind # "protocol" /\ c.greeting # Waiting /\ c.run.stage = "read" -> TakeAnswer(c, r, throws)
    [] OTHER -> TakeIdle(c, r, throws)

=============================================================================
