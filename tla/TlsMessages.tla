---------------------------- MODULE TlsMessages -----------------------------
(***************************************************************************)
(* What TlsHandshake's symbols are made of: the handshake messages as      *)
(* bytes, written and read; the records a flight is cut into, and the      *)
(* stream that brings them in pieces; alerts; and the arithmetic of the    *)
(* key shares.                                                             *)
(*                                                                         *)
(* A byte is a number below 256.  Lengths the code fixes and no property   *)
(* needs whole (the random, a binder, a record, the padding's range) are   *)
(* constants; a 32-bit number is kept as its four bytes.  A reader answers with what it read and where it stopped, or *)
(* with the alert it refuses the bytes with.                               *)
(***************************************************************************)
EXTENDS Integers, SequencesExt

CONSTANTS
  RANDOM,       \* the length of a random
  BINDER,       \* the length of the one binder of a pre-binder hello
  MAX_RECORD_PLAINTEXT,
  MAX_HANDSHAKE_MESSAGE_BODY,
  PADDING_RANGE_START, PADDING_TARGET,
  Letters       \* bound: what is sent, and what befalls it

VARIABLE letter

-----------------------------------------------------------------------------
(* Readers. *)

Refused(description) == [ok |-> FALSE, description |-> description]
Got(value, next) == [ok |-> TRUE, value |-> value, next |-> next]
Malformed == Refused("decode_error")

\* What is made of what r read, or r's refusal.
Then(r, Rest(_)) == IF r.ok THEN Rest(r) ELSE r

Put(n, width) == [i \in 1..width |-> (n \div 256^(width - i)) % 256]

Num(bytes) == FoldLeft(LAMBDA n, b : n * 256 + b, 0, bytes)

Take(bytes, at, n) ==
  IF at + n - 1 > Len(bytes) THEN Malformed ELSE Got(SubSeq(bytes, at, at + n - 1), at + n)

Uint(bytes, at, width) == Then(Take(bytes, at, width), LAMBDA r : Got(Num(r.value), r.next))

\* A vector: its length, then its bytes.
Vector(bytes, at, width) == Then(Uint(bytes, at, width), LAMBDA n : Take(bytes, n.next, n.value))

Block(width, bytes) == LET block[b \in Seq(Nat)] == Put(Len(b), width) \o b IN block[bytes]

\* A vector that is all there is.
Only(bytes, width) ==
  Then(Vector(bytes, 1, width), LAMBDA v : IF v.next = Len(bytes) + 1 THEN v ELSE Malformed)

\* Item after item, to the last byte.
Items(bytes, One(_, _)) ==
  LET from[at \in 1..(Len(bytes) + 1)] ==
        IF at > Len(bytes) THEN Got(<<>>, at)
        ELSE Then(One(bytes, at), LAMBDA item :
               Then(from[item.next], LAMBDA rest : Got(<<item.value>> \o rest.value, rest.next)))
  IN  from[1]

Code(bytes, at) == Uint(bytes, at, 2)
Codes(bytes) == Items(bytes, Code)

Tagged(tag, r) == Then(r, LAMBDA v : Got(<<tag, v.value>>, 0))

-----------------------------------------------------------------------------
(* Extensions: <<its name, its body>>. *)

ExtensionTypes ==
  [server_name |-> 0, supported_groups |-> 10, signature_algorithms |-> 13, padding |-> 21,
   pre_shared_key |-> 41, early_data |-> 42, supported_versions |-> 43, cookie |-> 44,
   psk_key_exchange_modes |-> 45, signature_algorithms_cert |-> 50, key_share |-> 51]

CodeLists == {"supported_groups", "signature_algorithms", "signature_algorithms_cert"}

InHellosOnly == {"supported_versions", "key_share", "cookie", "pre_shared_key"}

\* Mutant: the parser reads whatever extension it knows, in whatever message.
MutDefinedIn(name, context) == TRUE

\* Where an extension is parsed; elsewhere it stays unknown.
DefinedIn(name, context) ==
  /\ name \in InHellosOnly => context # "other"
  /\ name = "psk_key_exchange_modes" => context = "client_hello"

Missing == 3 + BINDER

KeyShare(share) == Put(share[1], 2) \o Block(2, share[2])
Joined(seqs) ==
  LET from[rest \in Seq(Seq(Nat))] == IF rest = <<>> THEN <<>> ELSE Head(rest) \o from[Tail(rest)] IN from[seqs]
Each(seq, One(_)) == Joined([i \in DOMAIN seq |-> One(seq[i])])
Code16(n) == Put(n, 2)

BodyOf(name, body) ==
  CASE name \in CodeLists -> Block(2, Each(body, Code16))
    [] name = "server_name" ->
         IF body = <<>> THEN <<>> ELSE Block(2, Each(body, LAMBDA n : <<0>> \o Block(2, n)))
    [] name = "padding" -> [i \in 1..body |-> 0]
    [] name = "supported_versions" ->
         IF body[1] = "selected" THEN Put(body[2], 2) ELSE Block(1, Each(body[2], Code16))
    [] name = "key_share" ->
         (CASE body[1] = "shares" -> Block(2, Each(body[2], KeyShare))
            [] body[1] = "share" -> KeyShare(body[2])
            [] OTHER -> Put(body[2], 2))
    [] name = "cookie" -> Block(2, body)
    [] name = "pre_shared_key" ->
         IF body[1] = "selected" THEN Put(body[2], 2)
         ELSE Block(2, Each(body[2], LAMBDA id : Block(2, id[1]) \o id[2]))
              \o IF body[1] = "unbound" THEN <<>> ELSE Block(2, Each(body[3], LAMBDA b : Block(1, b)))
    [] name = "psk_key_exchange_modes" -> Block(1, body)
    [] name = "early_data" -> body
    [] OTHER -> body[2]

IsUnbound(ext) == ext[1] = "pre_shared_key" /\ ext[2][1] = "unbound"
TypeOf(ext) == IF ext[1] = "unknown" THEN ext[2][1] ELSE ExtensionTypes[ext[1]]

\* A pre-binder hello declares the binders it leaves out.
Absent(unbound) == IF unbound THEN Missing ELSE 0

encodeExtensions(exts) ==
  LET One(e) == LET body == BodyOf(e[1], e[2]) IN
                Put(TypeOf(e), 2) \o Put(Len(body) + Absent(IsUnbound(e)), 2) \o body
      all == Each(exts, One)
  IN  Put(Len(all) + Absent(\E i \in DOMAIN exts : IsUnbound(exts[i])), 2) \o all

ReadName(bytes, at) ==
  Then(Uint(bytes, at, 1), LAMBDA t :
    Then(Vector(bytes, t.next, 2), LAMBDA v : Got(<<t.value, v.value>>, v.next)))

ReadShare(bytes, at) ==
  Then(Uint(bytes, at, 2), LAMBDA g :
    Then(Vector(bytes, g.next, 2), LAMBDA v : Got(<<g.value, v.value>>, v.next)))

ReadIdentity(bytes, at) ==
  Then(Vector(bytes, at, 2), LAMBDA v :
    Then(Take(bytes, v.next, 4), LAMBDA age : Got(<<v.value, age.value>>, age.next)))

ReadIdentities(data, declared) ==
  IF Len(data) < 4 THEN Malformed ELSE Then(Vector(data, 1, 2), LAMBDA list : Then(Items(list.value, ReadIdentity), LAMBDA ids :
    IF list.next = Len(data) + 1 /\ declared = Len(data) + Missing
    THEN Got(<<"unbound", ids.value>>, 0)
    ELSE Then(Vector(data, list.next, 2), LAMBDA all :
           IF all.next # Len(data) + 1 THEN Malformed
           ELSE Then(Items(all.value, LAMBDA b, at : Vector(b, at, 1)), LAMBDA binders :
                  Got(<<"offered", ids.value, binders.value>>, 0)))))

\* A body of exactly one number.
OneCode(data) == Then(Code(data, 1), LAMBDA n : IF Len(data) = 2 THEN n ELSE Malformed)

ReadBody(name, data, declared, context) ==
  CASE name \in CodeLists -> Then(Only(data, 2), LAMBDA v : Codes(v.value))
    [] name = "server_name" ->
         IF data = <<>> THEN Got(<<>>, 0)
         ELSE Then(Only(data, 2), LAMBDA v : Then(Items(v.value, ReadName), LAMBDA names :
                LET hosts == SelectSeq(names.value, LAMBDA n : n[1] = 0) IN
                Got([i \in DOMAIN hosts |-> hosts[i][2]], 0)))
    [] name = "padding" -> Got(Len(data), 0)
    [] name = "supported_versions" ->
         IF context = "client_hello"
         THEN Tagged("offered", Then(Only(data, 1), LAMBDA v : Codes(v.value)))
         ELSE Tagged("selected", OneCode(data))
    [] name = "key_share" ->
         (CASE context = "retry" -> Tagged("group", OneCode(data))
            [] context = "server_hello" ->
                 Tagged("share", Then(ReadShare(data, 1), LAMBDA s :
                                   IF s.next = Len(data) + 1 THEN s ELSE Malformed))
            [] OTHER -> Tagged("shares", Then(Only(data, 2), LAMBDA v : Items(v.value, ReadShare))))
    [] name = "cookie" -> Then(Only(data, 2), LAMBDA v : IF v.value = <<>> THEN Malformed ELSE v)
    [] name = "pre_shared_key" ->
         IF context = "client_hello" THEN ReadIdentities(data, declared) ELSE Tagged("selected", OneCode(data))
    [] name = "psk_key_exchange_modes" ->
         Then(Only(data, 1), LAMBDA v : IF v.value = <<>> THEN Malformed ELSE v)
    [] OTHER -> Got(IF Len(data) = 4 THEN data ELSE <<>>, 0)

NameOf(type) == CHOOSE n \in DOMAIN ExtensionTypes : ExtensionTypes[n] = type

ReadExtension(type, data, declared, context) ==
  IF \E n \in DOMAIN ExtensionTypes : ExtensionTypes[n] = type /\ DefinedIn(n, context)
  THEN Tagged(NameOf(type), ReadBody(NameOf(type), data, declared, context))
  ELSE Got(<<"unknown", <<type, data>>>>, 0)

decodeExtensions(bytes, context) ==
  LET total == Uint(bytes, 1, 2)
      short == context = "client_hello" /\ total.ok /\ Len(bytes) = 2 + total.value - Missing
      from[at \in 1..(Len(bytes) + 1), seen \in SUBSET (0..65535)] ==
        IF at > Len(bytes) THEN Got(<<>>, at)
        ELSE Then(Uint(bytes, at, 2), LAMBDA type : Then(Uint(bytes, at + 2, 2), LAMBDA n :
          IF type.value \in seen THEN Refused("illegal_parameter")
          ELSE LET data == IF n.next + n.value - 1 <= Len(bytes) THEN Take(bytes, n.next, n.value)
                           ELSE IF short /\ type.value = ExtensionTypes.pre_shared_key
                           THEN Got(SubSeq(bytes, n.next, Len(bytes)), Len(bytes) + 1)
                           ELSE Malformed
               IN  Then(data, LAMBDA d : Then(ReadExtension(type.value, d.value, n.value, context), LAMBDA e :
                     Then(from[d.next, seen \cup {type.value}], LAMBDA rest : Got(<<e.value>> \o rest.value, 0))))))
  IN  IF ~total.ok \/ (~short /\ Len(bytes) # 2 + total.value) THEN Malformed ELSE from[3, {}]

-----------------------------------------------------------------------------
(* Messages: <<its kind, its fields>>. *)

HandshakeTypes ==
  [client_hello |-> 1, server_hello |-> 2, new_session_ticket |-> 4, end_of_early_data |-> 5,
   encrypted_extensions |-> 8, certificate |-> 11, certificate_request |-> 13,
   certificate_verify |-> 15, finished |-> 20, key_update |-> 24]

\* The first bytes of the random that marks a HelloRetryRequest, and the one version written.
HRR == SubSeq(<<207, 33, 173, 116, 229, 154, 97, 17>>, 1, RANDOM)
V1_2 == 771

EntryBytes(entry) == Block(3, entry.cert) \o entry.raw

\* The extensions come last in every message that has some.
BytesOf(kind, m) ==
  (CASE kind = "client_hello" ->
          Put(m.version, 2) \o m.random \o Block(1, m.session) \o Block(2, Each(m.suites, Code16)) \o Block(1, m.compression)
     [] kind = "server_hello" ->
          Put(V1_2, 2) \o m.random \o Block(1, m.session) \o Put(m.suite, 2) \o Put(m.compression, 1)
     [] kind = "certificate" -> Block(1, m.context) \o Block(3, Each(m.list, EntryBytes))
     [] kind = "certificate_request" -> Block(1, m.context)
     [] kind = "certificate_verify" -> Put(m.scheme, 2) \o Block(2, m.signature)
     [] kind = "finished" -> m.verify
     [] kind = "new_session_ticket" -> m.lifetime \o m.ageAdd \o Block(1, m.nonce) \o Block(2, m.ticket)
     [] kind = "key_update" -> <<IF m.request THEN 1 ELSE 0>>
     [] OTHER -> <<>>)
  \o IF "exts" \in DOMAIN m THEN encodeExtensions(m.exts) ELSE <<>>

Unbound(exts) == \E i \in DOMAIN exts : IsUnbound(exts[i])

encodeHandshakeMessage(said) ==
  LET body == BytesOf(said[1], said[2])
      absent == Absent(said[1] = "client_hello" /\ Unbound(said[2].exts))
  IN  Put(HandshakeTypes[said[1]], 1) \o Put(Len(body) + absent, 3) \o body

Rest(bytes, at) == SubSeq(bytes, at, Len(bytes))

\* The extensions from at on; a hello may leave them out altogether.
Extensions(bytes, at, context) ==
  IF context # "other" /\ at > Len(bytes) THEN Got(<<>>, at) ELSE decodeExtensions(Rest(bytes, at), context)

ReadEntry(bytes, at) ==
  Then(Vector(bytes, at, 3), LAMBDA cert : Then(Vector(bytes, cert.next, 2), LAMBDA raw :
    LET written == SubSeq(bytes, cert.next, raw.next - 1) IN
    Then(decodeExtensions(written, "other"), LAMBDA exts :
      Got([cert |-> cert.value, exts |-> exts.value, raw |-> written], raw.next))))

\* The random and the session of a hello.
Opening(body, Made(_, _)) ==
  Then(Take(body, 3, RANDOM), LAMBDA random : Then(Vector(body, random.next, 1), LAMBDA session :
    Made(random.value, session)))

ReadClientHello(body) ==
  Opening(body, LAMBDA random, session :
    Then(Vector(body, session.next, 2), LAMBDA suites : Then(Codes(suites.value), LAMBDA codes :
      Then(Vector(body, suites.next, 1), LAMBDA comp : Then(Extensions(body, comp.next, "client_hello"), LAMBDA exts :
        Got([version |-> Num(SubSeq(body, 1, 2)), random |-> random, session |-> session.value, suites |-> codes.value,
             compression |-> comp.value, exts |-> exts.value], 0))))))

ReadServerHello(body) ==
  IF Len(body) < 2 + RANDOM THEN Malformed
  ELSE IF Num(SubSeq(body, 1, 2)) # V1_2 THEN Refused("protocol_version")
  ELSE Opening(body, LAMBDA random, session : Then(Uint(body, session.next, 2), LAMBDA suite :
         Then(Uint(body, suite.next, 1), LAMBDA comp :
           Then(Extensions(body, comp.next, IF random = HRR THEN "retry" ELSE "server_hello"), LAMBDA exts :
             Got([random |-> random, session |-> session.value, suite |-> suite.value,
                  compression |-> comp.value, exts |-> exts.value], 0)))))

ReadTicket(body) ==
  Then(Take(body, 1, 4), LAMBDA life : Then(Take(body, 5, 4), LAMBDA add : Then(Vector(body, 9, 1), LAMBDA nonce :
    Then(Vector(body, nonce.next, 2), LAMBDA ticket :
      IF ticket.value = <<>> THEN Malformed
      ELSE Then(Extensions(body, ticket.next, "other"), LAMBDA exts :
             Got([lifetime |-> life.value, ageAdd |-> add.value, nonce |-> nonce.value,
                  ticket |-> ticket.value, exts |-> exts.value], 0))))))

ReadFields(kind, body) ==
  CASE kind = "client_hello" -> ReadClientHello(body)
    [] kind = "server_hello" -> ReadServerHello(body)
    [] kind = "encrypted_extensions" ->
         Then(Extensions(body, 1, "other"), LAMBDA exts : Got([exts |-> exts.value], 0))
    [] kind = "certificate" ->
         Then(Vector(body, 1, 1), LAMBDA context : Then(Vector(body, context.next, 3), LAMBDA all :
           IF all.next # Len(body) + 1 THEN Malformed
           ELSE Then(Items(all.value, ReadEntry), LAMBDA list :
                  Got([context |-> context.value, list |-> list.value], 0))))
    [] kind = "certificate_request" ->
         Then(Vector(body, 1, 1), LAMBDA context : Then(Extensions(body, context.next, "other"), LAMBDA exts :
           Got([context |-> context.value, exts |-> exts.value], 0)))
    [] kind = "certificate_verify" ->
         Then(Uint(body, 1, 2), LAMBDA scheme : Then(Vector(body, 3, 2), LAMBDA sig :
           IF sig.next # Len(body) + 1 THEN Malformed
           ELSE Got([scheme |-> scheme.value, signature |-> sig.value], 0)))
    [] kind = "finished" -> Got([verify |-> body], 0)
    [] kind = "new_session_ticket" -> ReadTicket(body)
    [] kind = "key_update" ->
         (IF Len(body) # 1 THEN Malformed
          ELSE IF body[1] \notin {0, 1} THEN Refused("illegal_parameter")
          ELSE Got([request |-> body[1] = 1], 0))
    [] OTHER -> IF body = <<>> THEN Got([empty |-> TRUE], 0) ELSE Malformed

decodeHandshakeMessage(bytes) ==
  Then(Uint(bytes, 1, 1), LAMBDA type : Then(Uint(bytes, 2, 3), LAMBDA length :
    IF /\ Len(bytes) # 4 + length.value
       /\ type.value # HandshakeTypes.client_hello \/ Len(bytes) # 4 + length.value - Missing
    THEN Malformed
    ELSE LET kinds == {k \in DOMAIN HandshakeTypes : HandshakeTypes[k] = type.value} IN
         IF kinds = {} THEN Refused("unexpected_message")
         ELSE LET kind == CHOOSE k \in kinds : TRUE IN Tagged(kind, ReadFields(kind, Rest(bytes, 5)))))

-----------------------------------------------------------------------------
(* The first hello. *)

\* Mutant: the padding's own header is not counted.
MutPaddingFor(n) == IF n < PADDING_RANGE_START \/ n >= PADDING_TARGET THEN -1 ELSE PADDING_TARGET - n

paddingFor(n) ==
  IF n < PADDING_RANGE_START \/ n >= PADDING_TARGET THEN -1 ELSE Max({0, PADDING_TARGET - n - 4})

HelloOf(exts) ==
  <<"client_hello", [version |-> V1_2, random |-> [i \in 1..RANDOM |-> i], session |-> <<7>>,
                     suites |-> <<4865, 4866>>, compression |-> <<0>>, exts |-> exts]>>

Offer(o) ==
  <<<<"server_name", <<o.name>>>>, <<"supported_groups", o.groups>>, <<"signature_algorithms", o.schemes>>,
    <<"signature_algorithms_cert", o.schemes>>, <<"supported_versions", <<"offered", <<772>>>>>>,
    <<"key_share", <<"shares", <<<<Head(o.groups), o.share>>>>>>>>>>
  \o (IF o.cookie = <<>> THEN <<>> ELSE <<<<"cookie", o.cookie>>>>)
  \o <<<<"psk_key_exchange_modes", <<1>>>>>>
  \o (IF o.identity = <<>> THEN <<>>
      ELSE <<<<"pre_shared_key", <<"offered", <<<<o.identity, <<0, 0, 1, 5>>>>>>, <<[i \in 1..BINDER |-> 0]>>>>>>>>)

\* The padding goes before pre_shared_key, which stays last.
encodeProductionClientHello(o) ==
  LET exts == Offer(o)
      at == Len(exts) + IF Last(exts)[1] = "pre_shared_key" THEN 0 ELSE 1
      padded[n \in Int] == HelloOf(IF n = -1 THEN exts ELSE InsertAt(exts, at, <<"padding", n>>))
      ofLength[n \in Nat] == padded[paddingFor(n)]
  IN  ofLength[Len(encodeHandshakeMessage(HelloOf(exts)))]

\* What the binder of a hello is taken over, and the hello with the binder in its place.
Truncated(bytes) == SubSeq(bytes, 1, Len(bytes) - Missing)
Bind(bytes, binder) == SubSeq(bytes, 1, Len(bytes) - BINDER) \o binder

-----------------------------------------------------------------------------
(* Alerts and records. *)

AlertCodes == {0, 10, 20, 22} \cup (40..51) \cup {70, 71, 80, 86, 90, 109, 110, 112, 113, 115, 116, 117, 120}

encodeAlert(alert) == <<IF alert.level = "warning" THEN 1 ELSE 2, alert.code>>

decodeAlert(bytes) ==
  IF Len(bytes) # 2 THEN Malformed
  ELSE IF bytes[1] \notin {1, 2} THEN Refused("illegal_parameter")
  ELSE Got([level |-> IF bytes[1] = 1 THEN "warning" ELSE "fatal", code |-> bytes[2]], bytes[2] \in AlertCodes)

ContentTypes == [change_cipher_spec |-> 20, alert |-> 21, handshake |-> 22, application_data |-> 23]

sealPlain(type, payload) == Put(ContentTypes[type], 1) \o Put(V1_2, 2) \o Block(2, payload)

openPlain(record) ==
  LET types == {t \in DOMAIN ContentTypes : ContentTypes[t] = record[1]} IN
  IF Num(SubSeq(record, 4, 5)) > MAX_RECORD_PLAINTEXT THEN Refused("record_overflow")
  ELSE IF types = {} THEN Malformed
  ELSE Got(<<CHOOSE t \in types : TRUE, Rest(record, 6)>>, 0)

\* A message over as many records as it takes.
clientHelloRecords(message, most) ==
  LET records[left \in Seq(Nat)] ==
        IF left = <<>> THEN <<>>
        ELSE sealPlain("handshake", SubSeq(left, 1, Min({most, Len(left)}))) \o records[Rest(left, most + 1)]
  IN  records[message]

RecordBytes(said, most) ==
  CASE said[1] = "alert" -> sealPlain("alert", encodeAlert(said[2]))
    [] said[1] = "change_cipher_spec" -> sealPlain("change_cipher_spec", <<1>>)
    [] OTHER -> clientHelloRecords(encodeHandshakeMessage(said), most)

-----------------------------------------------------------------------------
(* The stream: a letter on its way. *)

NoLetter == [pc |-> "none"]

\* The letter is posted whole, or as bytes that something befell.
Befallen(bytes, how) ==
  CASE how = "cut" -> {SubSeq(bytes, 1, n) : n \in 0..(Len(bytes) - 1)}
    [] how = "grown" -> {Append(bytes, 0)}
    [] how = "altered" -> {[bytes EXCEPT ![i] = b] : i \in DOMAIN bytes, b \in {0, 1, 2, 255}} \ {bytes}
    [] how = "unbound" -> {Truncated(bytes)}
    [] OTHER -> {bytes}

Post ==
  /\ letter.pc = "none"
  /\ \E l \in Letters :
     \E bytes \in {IF l.most = 0 THEN encodeHandshakeMessage(l.says[1]) ELSE Each(l.says, LAMBDA s : RecordBytes(s, l.most))} :
     \E b \in Befallen(bytes, l.how) :
       letter' = [pc |-> IF l.most = 0 THEN "letter" ELSE "stream", of |-> l, net |-> b,
                  buffer |-> <<>>, plain |-> <<>>, heard |-> <<>>, end |-> "open"]

\* A message that came by itself is read at once.
ReadAlone ==
  /\ letter.pc = "letter"
  /\ letter' = [letter EXCEPT !.pc = "read", !.heard = <<decodeHandshakeMessage(letter.net)>>]

Declared(bytes) == Num(SubSeq(bytes, 4, 5))
HasRecord(bytes) == Len(bytes) >= 5 /\ Len(bytes) >= 5 + Declared(bytes)
HasOverflow(bytes) == Len(bytes) >= 5 /\ Declared(bytes) > MAX_RECORD_PLAINTEXT + 256

BodyLength(plain) == Num(SubSeq(plain, 2, 4))
HasMessage(plain) == Len(plain) >= 4 /\ Len(plain) >= 4 + BodyLength(plain)
TooLong(plain) == Len(plain) >= 4 /\ BodyLength(plain) > MAX_HANDSHAKE_MESSAGE_BODY

Ended(how) == letter' = [letter EXCEPT !.pc = "read", !.end = how]

Reading == letter.pc = "stream" /\ ~HasMessage(letter.plain) /\ ~TooLong(letter.plain)

\* The transport gives its next chunk, or says that there is none.
ReadChunk ==
  /\ Reading /\ ~HasRecord(letter.buffer) /\ ~HasOverflow(letter.buffer)
  /\ IF letter.net = <<>> THEN Ended(IF letter.buffer = <<>> THEN "eof" ELSE "truncated")
     ELSE LET n == Min({letter.of.chunk, Len(letter.net)}) IN
          letter' = [letter EXCEPT !.buffer = @ \o SubSeq(letter.net, 1, n), !.net = Rest(@, n + 1)]

\* Mutant: what came after the record in its chunk is dropped with it.
MutAfterRecord(buffer) == <<>>

AfterRecord(buffer) == Rest(buffer, 6 + Declared(buffer))

TakePlain(type, payload) ==
  CASE type = "alert" ->
         LET a == decodeAlert(payload) IN
         Ended(IF ~a.ok THEN a.description ELSE IF a.next THEN "alert" ELSE "unknown alert")
    [] type = "handshake" -> letter' = [letter EXCEPT !.buffer = AfterRecord(@), !.plain = @ \o payload]
    [] OTHER -> Ended("unexpected_message")

\* A change_cipher_spec is passed over unread.
readRecord ==
  /\ Reading /\ (HasRecord(letter.buffer) \/ HasOverflow(letter.buffer))
  /\ IF HasOverflow(letter.buffer) THEN Ended("record_overflow")
     ELSE IF letter.buffer[1] = ContentTypes.change_cipher_spec
     THEN letter' = [letter EXCEPT !.buffer = AfterRecord(@)]
     ELSE IF letter.buffer[1] = ContentTypes.application_data THEN Ended("unexpected_message")
     ELSE LET r == openPlain(SubSeq(letter.buffer, 1, 5 + Declared(letter.buffer))) IN
          IF ~r.ok THEN Ended(r.description) ELSE TakePlain(r.value[1], r.value[2])

extractNextHandshakeMessage ==
  /\ letter.pc = "stream" /\ ~Reading
  /\ IF TooLong(letter.plain) THEN Ended("decode_error")
     ELSE LET n == 4 + BodyLength(letter.plain) IN
          \E m \in {decodeHandshakeMessage(SubSeq(letter.plain, 1, n))} :
            IF m.ok THEN letter' = [letter EXCEPT !.heard = Append(@, m.value), !.plain = Rest(@, n + 1)]
            ELSE Ended(m.description)

LetterStep == Post \/ ReadAlone \/ ReadChunk \/ readRecord \/ extractNextHandshakeMessage

-----------------------------------------------------------------------------
(* The arithmetic of the key shares, over a curve with a = -3. *)

jacobianDouble(a, p) ==
  LET x == a[1]  y == a[2]  z == a[3]
      b == (y * y) % p
      d == (4 * x * b) % p
      e == (3 * (x - z * z) * (x + z * z)) % p
      f == (e * e - 2 * d) % p
  IN  <<f, (e * (d - f) - 8 * b * b) % p, (2 * y * z) % p>>

\* Mutant: two points are added as if they were one.
MutJacobianAdd(a, b, p) == IF a = <<>> THEN b ELSE IF b = <<>> THEN a ELSE jacobianDouble(a, p)

\* <<>> is the point at infinity.
jacobianAdd(a, b, p) ==
  IF a = <<>> THEN b ELSE IF b = <<>> THEN a
  ELSE LET za == (a[3] * a[3]) % p        zb == (b[3] * b[3]) % p
           ua == (a[1] * zb) % p          ub == (b[1] * za) % p
           sa == (a[2] * b[3] * zb) % p   sb == (b[2] * a[3] * za) % p
           h == (ub - ua) % p
           i == (4 * h * h) % p
           j == (h * i) % p
           r == (2 * (sb - sa)) % p
           v == (ua * i) % p
           x == (r * r - j - 2 * v) % p
       IN  IF ua = ub THEN IF sa = sb THEN jacobianDouble(a, p) ELSE <<>>
           ELSE <<x, (r * (v - x) - 2 * sa * j) % p, (2 * a[3] * b[3] * h) % p>>

modInverse(k, p) ==
  LET euclid[a \in Nat, b \in Nat, s \in Int, t \in Int] ==
        IF a <= 1 THEN t ELSE euclid[b, a % b, t - (a \div b) * s, s]
      inverse == euclid[k, p, 0, 1]
  IN  IF inverse < 0 THEN inverse + p ELSE inverse

\* Double and add, from the lowest bit.
ecScalarMult(k, g, p) ==
  LET walk[n \in Nat, sum \in Seq(Nat), curr \in Seq(Nat)] ==
        IF n = 0 THEN sum
        ELSE walk[n \div 2, IF n % 2 = 1 THEN jacobianAdd(sum, curr, p) ELSE sum, jacobianDouble(curr, p)]
      r == walk[k, <<>>, <<g[1], g[2], 1>>]
      i == modInverse(r[3], p)
  IN  <<(r[1] * i * i) % p, (r[2] * i * i * i) % p>>

\* The public key of a private one, uncompressed, with both of its numbers at full width.
importPrivateShare(k, c) ==
  LET q == ecScalarMult(k, c.g, c.p) IN <<4>> \o Put(q[1], c.width) \o Put(q[2], c.width)

\* The first number of the peer's point, k times.
deriveSharedSecret(k, peer, c) ==
  LET At(i) == Num(SubSeq(peer, 2 + i * c.width, 1 + (i + 1) * c.width)) IN
  Put(ecScalarMult(k, <<At(0), At(1)>>, c.p)[1], c.width)

-----------------------------------------------------------------------------
(* Properties. *)

\* The messages an extension belongs in; the others are common to several.
Home ==
  [supported_versions |-> {"client_hello", "server_hello"}, key_share |-> {"client_hello", "server_hello"},
   cookie |-> {"client_hello", "server_hello"}, pre_shared_key |-> {"client_hello", "server_hello"},
   psk_key_exchange_modes |-> {"client_hello"}]

AtHome(ext, kind) == ext[1] \in DOMAIN Home => kind \in Home[ext[1]]

\* A message as it is to be heard: an extension away from home is its type and its bytes.
HeardExts(exts, kind) ==
  [i \in DOMAIN exts |->
     IF AtHome(exts[i], kind) THEN exts[i] ELSE <<"unknown", <<TypeOf(exts[i]), BodyOf(exts[i][1], exts[i][2])>>>>]

HeardAs(said) ==
  IF "exts" \in DOMAIN said[2] THEN <<said[1], [said[2] EXCEPT !.exts = HeardExts(@, said[1])]>> ELSE said

Exts(m) ==
  IF "exts" \in DOMAIN m[2] THEN m[2].exts
  ELSE IF m[1] = "certificate" THEN FlattenSeq([i \in DOMAIN m[2].list |-> m[2].list[i].exts]) ELSE <<>>

\* Reading keeps less than was said of a name of another type, a padding, early data, no extensions at all.
KeepsLess(m) ==
  \/ m[1] \in {"client_hello", "server_hello"} /\ Exts(m) = <<>>
  \/ \E i \in DOMAIN Exts(m) : Exts(m)[i][1] \in {"server_name", "padding", "early_data"}

Alone(how) == letter.pc = "read" /\ letter.of.most = 0 /\ letter.of.how = how
Told == letter.of.says[1]
Heard == letter.heard[1]

\* A message that arrives as it was sent is read as it was meant, whatever extensions it
\* carries and wherever they belong (decodeHandshakeMessage, encodeHandshakeMessage).
Repeats(exts) == \E i, j \in DOMAIN exts : i # j /\ TypeOf(exts[i]) = TypeOf(exts[j])

WholeIsHeard ==
  Alone("whole") =>
    IF Repeats(Exts(Told)) THEN Heard = Refused("illegal_parameter")
    ELSE Heard.ok /\ Heard.value = HeardAs(Told)

\* One that lost its end, or gained a byte, is refused; only a hello without its binders may
\* be shorter than it says, by exactly those bytes, and all of it that is there is read.
ShortIsRefused ==
  /\ Alone("grown") => ~Heard.ok
  /\ Alone("cut") /\ Heard.ok =>
       /\ Told[1] = "client_hello" /\ letter.net = Truncated(encodeHandshakeMessage(Told))
       /\ LET left == Exts(Heard.value) IN
          \A i \in DOMAIN left : left[i] = Exts(Told)[i] \/ (IsUnbound(left[i]) /\ i = Len(left))

\* What a hello's binder is taken over is a hello itself, which says what it lacks.
UnboundIsHeard ==
  Alone("unbound") =>
    /\ Heard.ok /\ Unbound(Exts(Heard.value)) /\ encodeHandshakeMessage(Heard.value) = letter.net
    /\ LET binder == [i \in 1..BINDER |-> 9] IN
       \A bytes \in {Bind(encodeHandshakeMessage(Told), binder)} : \A bound \in {decodeHandshakeMessage(bytes)} :
         bound.ok /\ Last(Exts(bound.value))[2][3] = <<binder>>

\* Of bytes that were altered, what is accepted is what they say: written again it is the
\* same bytes.  What is not is refused with an alert, never read past its end.
AlteredIsWhatItSays ==
  Alone("altered") =>
    IF Heard.ok THEN KeepsLess(Heard.value) \/ encodeHandshakeMessage(Heard.value) = letter.net
    ELSE Heard.description \in {"decode_error", "illegal_parameter", "protocol_version", "unexpected_message"}

\* A hello is never of a length that stops old servers, is padded no further than it must be,
\* and keeps pre_shared_key last (encodeProductionClientHello).
HelloFits ==
  letter.pc = "letter" /\ letter.of.hello # {} =>
    \A o \in letter.of.hello : \A hello \in {HelloOf(Offer(o))} : \A bare \in {Len(encodeHandshakeMessage(hello))} :
      LET exts == Exts(Told) IN
        /\ Len(letter.net) = IF bare \in PADDING_RANGE_START..(PADDING_TARGET - 1)
                             THEN Max({PADDING_TARGET, bare + 4}) ELSE bare
        /\ \A i \in DOMAIN exts : exts[i][1] = "pre_shared_key" => i = Len(exts)

Overlong(m) == Len(encodeHandshakeMessage(m)) > 4 + MAX_HANDSHAKE_MESSAGE_BODY

Ends(says) == Min({i \in DOMAIN says : says[i][1] = "alert" \/ (says[i][1] \in DOMAIN HandshakeTypes /\ Overlong(says[i]))}
                  \cup {Len(says) + 1})

\* What a stream carries is heard in order, nothing twice and nothing made up, however it was
\* cut into records and chunks; and it is all heard, unless it ended early, or an alert came, or more
\* than a message may hold.
StreamIsHeard ==
  letter.pc # "none" /\ letter.of.most # 0 =>
    \A n \in {Ends(letter.of.says)} :
      LET says == letter.of.says
          all == SelectSeq(SubSeq(says, 1, n - 1), LAMBDA m : m[1] # "change_cipher_spec")
          want == [i \in DOMAIN all |-> HeardAs(all[i])]
          end == IF n > Len(says) THEN "eof"
                 ELSE IF says[n][1] # "alert" THEN "decode_error"
                 ELSE IF says[n][2].code \in AlertCodes THEN "alert" ELSE "unknown alert"
      IN  /\ IsPrefix(letter.heard, want)
          /\ letter.pc = "read" /\ letter.of.how = "whole" => letter.heard = want /\ letter.end = end
          /\ letter.pc = "read" /\ letter.of.how = "cut" => letter.end \in {end, "eof", "truncated"}

\* The point a private key is on: chord and tangent, k times.
Over(n, d, p) == CHOOSE x \in 0..(p - 1) : (x * d - n) % p = 0

AffineSum(a, b, p) ==
  IF a = <<>> THEN b ELSE IF a[1] = b[1] /\ (a[2] + b[2]) % p = 0 THEN <<>>
  ELSE LET slope == IF a = b THEN Over(3 * a[1] * a[1] - 3, 2 * a[2], p) ELSE Over(b[2] - a[2], b[1] - a[1], p)
           x == (slope * slope - a[1] - b[1]) % p
       IN  <<x, (slope * (a[1] - x) - a[2]) % p>>

Times(k, g, p) == FoldLeft(LAMBDA sum, i : AffineSum(sum, g, p), <<>>, [i \in 1..k |-> i])

\* A private key has the public key it should, and two ends that swap theirs have one secret
\* (importPrivateShare, deriveSharedSecret).
SharesAreRight ==
  letter.pc # "none" /\ letter.of.curve # {} =>
    LET c == CHOOSE c \in letter.of.curve : TRUE IN
    /\ \A k \in 1..(2 * c.order) : k % c.order # 0 => ecScalarMult(k, c.g, c.p) = Times(k, c.g, c.p)
    /\ \A k, j \in 1..(c.order - 1) :
         deriveSharedSecret(k, importPrivateShare(j, c), c) = deriveSharedSecret(j, importPrivateShare(k, c), c)

BytesAreRight ==
  /\ WholeIsHeard /\ ShortIsRefused /\ UnboundIsHeard /\ AlteredIsWhatItSays
  /\ HelloFits /\ StreamIsHeard /\ SharesAreRight

=============================================================================
