---------------------------- MODULE ImapResponse ----------------------------
(***************************************************************************)
(* How bytes of an IMAP server become a response: the logical lines with   *)
(* their literals, cut however the network cut them (tokenizer.ts), the    *)
(* tokens of a line read as a response (response.ts), and the items of a   *)
(* FETCH (envelope.ts, body-structure.ts).                                 *)
(*                                                                         *)
(* The unit of the wire is a symbol: a token of the text with its blanks,  *)
(* a CR, an LF, a literal header {n} (one symbol, "brace"), a malformed    *)
(* one ("badBrace"), or a byte of a literal.  Inside a literal every       *)
(* symbol counts for one byte.  Strings that the code reads as numbers or  *)
(* as uid sets are tokens of kind "number" and "set".                      *)
(***************************************************************************)
EXTENDS Integers, Sequences, FiniteSets, SequencesExt

CONSTANT MaxLiteral

Atom(v)   == [k |-> "atom", v |-> v]
Num(n)    == [k |-> "number", v |-> n]
Quoted(v) == [k |-> "quoted", v |-> v]
UidSet(r) == [k |-> "set", v |-> r]
Brace(n)  == [k |-> "brace", v |-> n]
Mark(k)   == [k |-> k]
LP == Mark("lparen")
RP == Mark("rparen")
LB == Mark("lbracket")
RB == Mark("rbracket")
Nil == Mark("nil")
Plus == Mark("plus")
CrLf == <<Mark("cr"), Mark("lf")>>

Kind(t, i) == IF i \in DOMAIN t THEN t[i].k ELSE "end"
IsAtom(t, i, v) == Kind(t, i) = "atom" /\ t[i].v = v

(***************************************************************************)
(* Logical lines.                                                          *)
(***************************************************************************)
NoResume == [at |-> 1, need |-> 0, segs |-> <<>>, text |-> 1, lit |-> <<>>]

Incomplete(at, need, segs, text, lit) ==
  [status |-> "incomplete",
   resume |-> [at |-> at, need |-> need, segs |-> segs, text |-> text, lit |-> lit]]

BadLine == [status |-> "failure"]

FirstOr0(S) == IF S = {} THEN 0 ELSE CHOOSE i \in S : \A j \in S : i <= j

CrLfFrom(b, i) == FirstOr0({j \in i .. Len(b) - 1 : b[j].k = "cr" /\ b[j + 1].k = "lf"})

BareLf(b, from, to) == \E i \in from .. to : b[i].k = "lf" /\ (i = 1 \/ b[i - 1].k # "cr")

LiteralHeader(b, text, cr) ==
  IF cr - 1 < text THEN "none"
  ELSE CASE b[cr - 1].k = "badBrace" -> "invalid"
         [] b[cr - 1].k = "brace" -> IF b[cr - 1].v > MaxLiteral THEN "invalid" ELSE "valid"
         [] OTHER -> "none"

WithText(segs, b, from, to) ==
  Append(segs, [kind |-> "text", bytes |-> SubSeq(b, from, to)])
WithLiteral(segs, b, from, to) ==
  Append(segs, [kind |-> "literal", bytes |-> SubSeq(b, from, to)])

\* The rest of the buffer has no end of line yet.
WaitForMore(b, segs, text) ==
  Incomplete(IF text > Len(b) THEN text ELSE Len(b), Len(b) + 1, segs, text, <<>>)

RECURSIVE Scan(_, _, _, _)
Scan(b, at, text, segs) ==
  LET cr == CrLfFrom(b, at)
      header == LiteralHeader(b, text, cr)
      before == IF cr - 1 > text THEN WithText(segs, b, text, cr - 2) ELSE segs
      start == cr + 2
      end == start + b[cr - 1].v
  IN IF at > Len(b) THEN WaitForMore(b, segs, text)
     ELSE IF BareLf(b, at, IF cr = 0 THEN Len(b) ELSE cr - 1) THEN BadLine
     ELSE IF cr = 0 THEN WaitForMore(b, segs, text)
     ELSE CASE header = "invalid" -> BadLine
            [] header = "none" ->
                 [status |-> "complete", segs |-> WithText(segs, b, text, cr - 1),
                  consumed |-> cr + 1]
            [] header = "valid" ->
                 IF Len(b) < end - 1 THEN Incomplete(cr, end - 1, before, end, <<start, end>>)
                 ELSE Scan(b, end, end, WithLiteral(before, b, start, end - 1))

\* Mutant: the rest of a literal that came in parts is looked at for its end again.
MutReadLogicalLine(b, resume) == Scan(b, resume.at, resume.text, resume.segs)

readLogicalLine(b, resume) ==
  IF resume.lit = <<>> THEN Scan(b, resume.at, resume.text, resume.segs)
  ELSE LET start == resume.lit[1]
           end == resume.lit[2]
       IN IF Len(b) < end - 1
          THEN Incomplete(resume.at, end - 1, resume.segs, resume.text, resume.lit)
          ELSE Scan(b, end, end, WithLiteral(resume.segs, b, start, end - 1))

\* The tokens of a line; an unterminated string in its text has none.
Unreadable(segs) ==
  \E i \in DOMAIN segs : /\ segs[i].kind = "text"
                         /\ \E j \in DOMAIN segs[i].bytes : segs[i].bytes[j].k = "openQuote"

tokenizeLogicalLine(segs) ==
  FlattenSeq([i \in DOMAIN segs |->
    IF segs[i].kind = "literal" THEN <<[k |-> "literal", v |-> segs[i].bytes]>>
    ELSE segs[i].bytes])

(***************************************************************************)
(* Items of a FETCH.  Positions are 1-based; a scan past the end finds     *)
(* nothing.                                                                *)
(***************************************************************************)
Null == [k |-> "null"]

tokenToString(t, i) ==
  IF Kind(t, i) \in {"quoted", "atom", "number", "set", "literal"} THEN t[i] ELSE Null

\* The first token of one of these kinds from i on, or the place past the end.
UpTo(t, i, kinds) ==
  LET at == FirstOr0({j \in i .. Len(t) : t[j].k \in kinds}) IN IF at = 0 THEN Len(t) + 1 ELSE at

Skip(t, i, kind) == IF Kind(t, i) = kind THEN i + 1 ELSE i

AtomsIn(t, from, to) ==
  SelectSeq(SubSeq(t, from, to), LAMBDA x : x.k = "atom")

Values(tokens) == [i \in DOMAIN tokens |-> tokens[i].v]

\* (name adl mailbox host); a tuple without a host opens or closes a group.
AddressTuple(t, i) ==
  [address |-> [name |-> tokenToString(t, i + 1), mailbox |-> tokenToString(t, i + 3),
                host |-> tokenToString(t, i + 4)],
   next |-> Skip(t, UpTo(t, i + 5, {"rparen"}), "rparen")]

RECURSIVE Addresses(_, _, _)
Addresses(t, i, found) ==
  CASE Kind(t, i) \in {"end", "rparen"} -> [addresses |-> found, next |-> i + 1]
    [] Kind(t, i) = "lparen" ->
         LET tuple == AddressTuple(t, i)
         IN Addresses(t, tuple.next, IF tuple.address.host = Null THEN found
                                     ELSE Append(found, tuple.address))
    [] OTHER -> Addresses(t, i + 1, found)

parseAddressList(t, i) ==
  IF Kind(t, i) = "lparen" THEN Addresses(t, i + 1, <<>>)
  ELSE [addresses |-> <<>>, next |-> i + 1]

\* (date subject from sender reply-to to cc bcc in-reply-to message-id); the from list is kept.
parseEnvelope(t, i) ==
  LET from == parseAddressList(t, i + 3)
      sender == parseAddressList(t, from.next)
      replyTo == parseAddressList(t, sender.next)
      to == parseAddressList(t, replyTo.next)
      cc == parseAddressList(t, to.next)
      end == parseAddressList(t, cc.next).next
  IN [envelope |-> [subject |-> tokenToString(t, i + 2), from |-> from.addresses,
                    to |-> to.addresses, messageId |-> tokenToString(t, end + 1)],
      next |-> Skip(t, UpTo(t, end + 2, {"rparen"}), "rparen")]

\* A parenthesised list from i, as a tree, and the place after it.
RECURSIVE ReadItems(_, _, _)
ReadItems(t, i, items) ==
  CASE Kind(t, i) \in {"end", "rparen"} -> [items |-> items, next |-> i + 1]
    [] Kind(t, i) = "lparen" ->
         LET child == ReadItems(t, i + 1, <<>>)
         IN ReadItems(t, child.next, Append(items, [k |-> "list", items |-> child.items]))
    [] OTHER -> ReadItems(t, i + 1, Append(items, t[i]))

At(node, n) ==
  IF node.k = "list" /\ n \in DOMAIN node.items THEN node.items[n] ELSE Null

TextOf(node) == IF node.k \in {"literal", "quoted", "atom"} THEN node.v ELSE ""

paramNamed(params, key) ==
  LET at == IF params.k # "list" THEN {}
            ELSE {n \in DOMAIN params.items : n % 2 = 1 /\ TextOf(params.items[n]) = key}
  IN IF at = {} THEN "" ELSE TextOf(At(params, FirstOr0(at) + 1))

\* The disposition's file name wins over the type's older name.
partName(disposition, params) ==
  IF paramNamed(disposition, "filename") # "" THEN paramNamed(disposition, "filename")
  ELSE paramNamed(params, "name")

dispositionAt(type, subtype) ==
  CASE type = "TEXT" -> 10
    [] type = "MESSAGE" /\ subtype = "RFC822" -> 12
    [] OTHER -> 9

RECURSIVE namesIn(_)
namesIn(node) ==
  IF node.k # "list" THEN <<>>
  ELSE IF At(node, 1).k = "list"
  THEN FlattenSeq([n \in DOMAIN node.items |-> namesIn(node.items[n])])
  ELSE LET where == dispositionAt(TextOf(At(node, 1)), TextOf(At(node, 2)))
           own == partName(At(At(node, where), 2), At(node, 3))
       IN (IF own = "" THEN <<>> ELSE <<own>>)
            \o (IF where = 12 THEN namesIn(At(node, 9)) ELSE <<>>)

NamesOfStructure(list) ==
  LET names == namesIn([k |-> "list", items |-> list.items])
      firsts == {i \in DOMAIN names : \A j \in 1 .. i - 1 : names[j] # names[i]}
  IN [i \in 1 .. Cardinality(firsts) |->
        names[CHOOSE n \in firsts : Cardinality({m \in firsts : m <= n}) = i]]

NumberAt(t, i) == IF Kind(t, i) = "number" THEN t[i].v ELSE 0

\* BODY with a list is a structure; with a [section], a body: literal, string or NIL.
BodyItem(t, i) ==
  CASE Kind(t, i) = "lparen" ->
         LET list == ReadItems(t, i + 1, <<>>)
         IN <<<<[kind |-> "bodyStructure", names |-> NamesOfStructure(list)]>>, list.next>>
    [] Kind(t, i) = "lbracket" ->
         LET close == UpTo(t, i + 1, {"rbracket"})
             at == Skip(t, close, "rbracket")
         IN <<<<[kind |-> "body", section |-> Values(AtomsIn(t, i + 1, close - 1)),
                 bytes |-> tokenToString(t, at)]>>, at + 1>>
    [] OTHER -> <<<<>>, i + 1>>

FetchItem(t, i) ==
  LET name == t[i].v
      v == i + 1
      close == UpTo(t, v + 1, {"rparen"})
  IN CASE name = "UID" -> <<<<[kind |-> "uid", uid |-> NumberAt(t, v)]>>, v + 1>>
       [] name = "RFC822.SIZE" -> <<<<[kind |-> "size", size |-> NumberAt(t, v)]>>, v + 1>>
       [] name = "INTERNALDATE" ->
            <<<<[kind |-> "internalDate", date |-> tokenToString(t, v)]>>, v + 1>>
       [] name = "FLAGS" ->
            IF Kind(t, v) # "lparen" THEN <<<<>>, v + 1>>
            ELSE <<<<[kind |-> "flags", flags |-> ToSet(Values(AtomsIn(t, v + 1, close - 1)))]>>,
                   Skip(t, close, "rparen")>>
       [] name = "ENVELOPE" ->
            IF Kind(t, v) # "lparen" THEN <<<<>>, v + 1>>
            ELSE <<<<[kind |-> "envelope", envelope |-> parseEnvelope(t, v).envelope]>>,
                   parseEnvelope(t, v).next>>
       [] name \in {"BODYSTRUCTURE", "BODY"} -> BodyItem(t, v)
       [] name = "X-GM-THRID" ->
            <<IF Kind(t, v) = "number" THEN <<[kind |-> "gmailThreadId", id |-> t[v].v]>> ELSE <<>>,
              v + 1>>
       [] OTHER -> <<<<[kind |-> "other"]>>, v + 1>>

RECURSIVE FetchItems(_, _, _)
FetchItems(t, i, items) ==
  CASE Kind(t, i) \in {"end", "rparen"} -> items
    [] Kind(t, i) = "atom" -> FetchItems(t, FetchItem(t, i)[2], items \o FetchItem(t, i)[1])
    [] OTHER -> FetchItems(t, i + 1, items)

parseFetchItems(t, i) == IF Kind(t, i) = "lparen" THEN FetchItems(t, i + 1, <<>>) ELSE <<>>

(***************************************************************************)
(* Responses.                                                              *)
(***************************************************************************)
NoCode == [kind |-> "none"]

parseResponseCode(t, i) ==
  LET name == t[i + 1].v
      v == i + 2
      close == UpTo(t, v, {"rbracket"})
      value == NumberAt(t, v)
      listed == AtomsIn(t, v + 1, UpTo(t, v + 1, {"rparen"}) - 1)
  IN IF Kind(t, i) # "lbracket" \/ Kind(t, i + 1) # "atom" THEN NoCode
     ELSE CASE name = "CAPABILITY" ->
                 [kind |-> "capability", capabilities |-> ToSet(Values(AtomsIn(t, v, close - 1)))]
            [] name = "PERMANENTFLAGS" ->
                 [kind |-> "permanentFlags",
                  flags |-> IF Kind(t, v) = "lparen" THEN ToSet(Values(listed)) ELSE {}]
            [] name = "UIDVALIDITY" -> [kind |-> "uidValidity", value |-> value]
            [] name = "UIDNEXT" -> [kind |-> "uidNext", value |-> value]
            [] name = "READ-ONLY" -> [kind |-> "readOnly"]
            [] name = "READ-WRITE" -> [kind |-> "readWrite"]
            [] OTHER -> [kind |-> "other", code |-> name,
                         args |-> SelectSeq([n \in 1 .. close - v |-> tokenToString(t, v + n - 1)],
                                            LAMBDA x : x # Null)]

Untagged(u) == [kind |-> "untagged", untagged |-> u]
ProtocolError == [kind |-> "protocol"]

Statuses == {"OK", "NO", "BAD"}

NamedUntagged(t) ==
  LET name == t[2].v
      inList == AtomsIn(t, 4, UpTo(t, 4, {"rparen"}) - 1)
  IN CASE name \in Statuses \cup {"BYE", "PREAUTH"} ->
            [kind |-> "status", status |-> name, code |-> parseResponseCode(t, 3)]
       [] name = "CAPABILITY" ->
            [kind |-> "capability", capabilities |-> ToSet(Values(AtomsIn(t, 3, Len(t))))]
       [] name = "FLAGS" ->
            [kind |-> "flags", flags |-> IF Kind(t, 3) = "lparen" THEN ToSet(Values(inList)) ELSE {}]
       [] name = "LIST" ->
            LET after == IF Kind(t, 3) = "lparen"
                         THEN Skip(t, UpTo(t, 4, {"rparen"}), "rparen") ELSE 3
            IN [kind |-> "list", mailbox |-> tokenToString(t, after + 1)]
       [] name = "SEARCH" ->
            [kind |-> "search",
             uids |-> Values(SelectSeq(SubSeq(t, 3, Len(t)), LAMBDA x : x.k = "number"))]
       [] OTHER -> [kind |-> "unknown"]

NumberedUntagged(t) ==
  IF Kind(t, 3) # "atom" THEN [kind |-> "unknown"]
  ELSE CASE t[3].v = "EXISTS" -> [kind |-> "exists", count |-> t[2].v]
         [] t[3].v = "RECENT" -> [kind |-> "recent", count |-> t[2].v]
         [] t[3].v = "EXPUNGE" -> [kind |-> "expunge", seq |-> t[2].v]
         [] t[3].v = "FETCH" -> [kind |-> "fetch", seq |-> t[2].v, items |-> parseFetchItems(t, 4)]
         [] OTHER -> [kind |-> "unknown"]

parseResponse(t) ==
  CASE Kind(t, 1) = "plus" -> [kind |-> "continuation"]
    [] IsAtom(t, 1, "*") /\ Kind(t, 2) = "end" -> ProtocolError
    [] IsAtom(t, 1, "*") /\ Kind(t, 2) = "atom" -> Untagged(NamedUntagged(t))
    [] IsAtom(t, 1, "*") /\ Kind(t, 2) = "number" -> Untagged(NumberedUntagged(t))
    [] IsAtom(t, 1, "*") /\ Kind(t, 2) \notin {"end", "atom", "number"} -> Untagged([kind |-> "unknown"])
    [] Kind(t, 1) = "tag" /\ Kind(t, 2) = "atom" /\ t[2].v \in Statuses ->
         [kind |-> "tagged", tag |-> t[1].v, status |-> t[2].v, code |-> parseResponseCode(t, 3)]
    [] OTHER -> ProtocolError

\* What one look at the buffered bytes gives readNextResponse.
Look(b, resume) ==
  LET line == readLogicalLine(b, resume)
  IN CASE line.status = "failure" -> [is |-> "response", response |-> ProtocolError, rest |-> b]
       [] line.status = "incomplete" -> [is |-> "more", resume |-> line.resume]
       [] line.status = "complete" ->
            [is |-> "response",
             response |-> IF Unreadable(line.segs) THEN ProtocolError
                          ELSE parseResponse(tokenizeLogicalLine(line.segs)),
             rest |-> SubSeq(b, line.consumed + 1, Len(b))]

=============================================================================
