----------------------------- MODULE X509Decode -----------------------------
(***************************************************************************)
(* What X509Path's certificates are made of: DER, the certificate in it,   *)
(* the keys, signatures, times and object identifiers a certificate holds, *)
(* and the name constraints over the kinds of names that are no DNS names. *)
(*                                                                         *)
(* Every DerError is one refusal here.  A byte is a number below 256; an   *)
(* integer is its octets, of which DER has one spelling.  The text of a    *)
(* name that is only matched is the sequence of its parts.                 *)
(***************************************************************************)
EXTENDS Integers, SequencesExt, Bitwise

CONSTANTS
  MAXIMUM_DEPTH, MAXIMUM_NODES, MAXIMUM_LENGTH_OCTETS, MAXIMUM_TAG_OCTETS,
  MAXIMUM_SUBIDENTIFIER_OCTETS, MAXIMUM_SERIAL_OCTETS, MAXIMUM_NAME_COMPARISONS,
  MINIMUM_RSA_MODULUS_BITS,
  KEY_OCTETS,    \* how much of a subject the index of anchors is keyed on
  Labels,        \* the labels that are letters, digits and hyphens
  Addresses,     \* the texts that are IP addresses
  Small,         \* the lower case of a part that has one
  Papers         \* bound: what is read, and what befalls it

VARIABLE paper

-----------------------------------------------------------------------------
(* DER. *)

NoReading == [ok |-> FALSE]
Ok(value) == [ok |-> TRUE, value |-> value]
AndThen(r, Rest(_)) == IF r.ok THEN Rest(r.value) ELSE r
Check(holds, r) == IF holds THEN r ELSE NoReading

\* Every one of seq read, or none.
ReadAll(seq, One(_)) ==
  LET r == [i \in DOMAIN seq |-> One(seq[i])] IN
  Check(\A i \in DOMAIN r : r[i].ok, Ok([i \in DOMAIN r |-> r[i].value]))

Number[octets \in Seq(Nat)] == IF octets = <<>> THEN 0 ELSE Number[Front(octets)] * 256 + Last(octets)
Num7[digits \in Seq(Nat)] == IF digits = <<>> THEN 0 ELSE Num7[Front(digits)] * 128 + (Last(digits) % 128)

Primitive == {1, 2, 3, 4, 5, 6, 12, 19, 20, 22, 23, 24, 28, 30}
Constructed == {16, 17}

ByteAt(bytes, at, end) == Check(at <= end, Ok(bytes[at]))

\* Mutant: a tag that fits the short form may be in the long one.
MutLongTag(digits) == digits[1] # 128 /\ Len(digits) <= MAXIMUM_TAG_OCTETS

\* The base-128 digits of a tag number: no more than it takes, and none for a small one.
LongTag(digits) ==
  digits[1] # 128 /\ Len(digits) <= MAXIMUM_TAG_OCTETS /\ Num7[digits] >= 31

decodeIdentifier(bytes, at, end) ==
  AndThen(ByteAt(bytes, at, end), LAMBDA id :
    LET lasts == {i \in (at + 1)..end : bytes[i] < 128}
        digits == SubSeq(bytes, at + 1, Min(lasts))
        Id(tag, next) == Ok([class |-> id \div 64, built |-> (id \div 32) % 2 = 1, tag |-> tag, next |-> next])
    IN  IF id % 32 # 31 THEN Id(id % 32, at + 1)
        ELSE Check(lasts # {} /\ LongTag(digits), Id(Num7[digits], at + 1 + Len(digits))))

decodeLength(bytes, at, end) ==
  AndThen(ByteAt(bytes, at, end), LAMBDA first :
    LET n == first - 128
        octets == SubSeq(bytes, at + 1, at + n)
    IN  IF first < 128 THEN Ok([length |-> first, next |-> at + 1])
        ELSE Check(/\ n \in 1..MAXIMUM_LENGTH_OCTETS /\ at + n <= end
                   /\ octets[1] # 0 /\ Number[octets] >= 128,
                   Ok([length |-> Number[octets], next |-> at + 1 + n])))

\* A node knows how many it is, with those below it.
RECURSIVE decodeNode(_, _, _, _)
decodeNode(bytes, at, end, depth) ==
  IF depth > MAXIMUM_DEPTH THEN NoReading
  ELSE AndThen(decodeIdentifier(bytes, at, end), LAMBDA id : AndThen(decodeLength(bytes, id.next, end), LAMBDA n :
    LET last == n.next + n.length - 1
        children[from \in n.next..(last + 1)] ==
          IF from > last THEN Ok(<<>>)
          ELSE AndThen(decodeNode(bytes, from, last, depth + 1), LAMBDA child :
                 AndThen(children[child.next], LAMBDA rest : Ok(<<child>> \o rest)))
        Node(kids) ==
          Ok([class |-> id.class, tag |-> id.tag, built |-> id.built, next |-> last + 1,
               bytes |-> SubSeq(bytes, at, last), content |-> SubSeq(bytes, n.next, last), children |-> kids,
               size |-> FoldLeft(LAMBDA sum, k : sum + k.size, 1, kids)])
    IN  IF \/ last > end
           \/ id.class = 0 /\ id.tag \notin (IF id.built THEN Constructed ELSE Primitive)
        THEN NoReading
        ELSE AndThen(IF id.built THEN children[n.next] ELSE Ok(<<>>), Node)))

decodeDer(bytes) ==
  AndThen(decodeNode(bytes, 1, Len(bytes), 0), LAMBDA node :
    Check(node.next = Len(bytes) + 1 /\ node.size <= MAXIMUM_NODES, Ok(node)))

-----------------------------------------------------------------------------
(* Values. *)

Is(node, tag) == node.class = 0 /\ node.tag = tag
InContext(node, tag) == node.class = 2 /\ node.tag = tag

\* Checked by expectUniversal or contentOf before what is inside is read.
Universal(node, tag, r) == Check(Is(node, tag), r)

decodeBoolean(node) ==
  Universal(node, 1, Check(node.content \in {<<0>>, <<255>>}, Ok(node.content = <<255>>)))

\* Mutant: a sign octet too many is let by.
MutRedundant(octets) == Len(octets) >= 2 /\ octets[1] = 0 /\ octets[2] < 128

Redundant(octets) ==
  Len(octets) >= 2 /\ ((octets[1] = 0 /\ octets[2] < 128) \/ (octets[1] = 255 /\ octets[2] >= 128))

decodeInteger(node) ==
  Universal(node, 2, Check(node.content # <<>> /\ ~Redundant(node.content), Ok(node.content)))

\* The subidentifiers of an object identifier, each the sequence of its digits.
Subidentifiers[content \in Seq(Nat)] ==
  LET n == Min({i \in DOMAIN content : content[i] < 128} \cup {Len(content)}) IN
  IF content = <<>> THEN <<>>
  ELSE <<SubSeq(content, 1, n)>> \o Subidentifiers[SubSeq(content, n + 1, Len(content))]

\* The first number packs two arcs, of which the first is 0, 1 or 2.
Arcs(numbers) ==
  LET first == numbers[1]
      arc == IF first < 40 THEN 0 ELSE IF first < 80 THEN 1 ELSE 2
  IN  <<arc, first - 40 * arc>> \o Tail(numbers)

IsWhole(content) == content # <<>> /\ Last(content) < 128

oidOf(content) ==
  LET subs == Subidentifiers[content] IN
  Check(/\ IsWhole(content)
        /\ \A i \in DOMAIN subs : subs[i][1] # 128 /\ Len(subs[i]) <= MAXIMUM_SUBIDENTIFIER_OCTETS,
        Ok(Arcs([i \in DOMAIN subs |-> Num7[subs[i]]])))

decodeOid(node) == Universal(node, 6, oidOf(node.content))

decodeBitString(node) ==
  LET unused == node.content[1]
      bytes == Tail(node.content)
  IN  Universal(node, 3, Check(/\ node.content # <<>> /\ unused <= 7
                        /\ IF bytes = <<>> THEN unused = 0 ELSE Last(bytes) % 2^unused = 0,
                        Ok([bytes |-> bytes, unusedBits |-> unused])))

isLeapYear(year) == year % 4 = 0 /\ (year % 100 # 0 \/ year % 400 = 0)

\* Mutant: every fourth year is a leap year.
MutDaysInMonth(year, month) ==
  CASE month = 2 -> (IF year % 4 = 0 THEN 29 ELSE 28) [] month \in {4, 6, 9, 11} -> 30 [] OTHER -> 31

daysInMonth(year, month) ==
  CASE month = 2 -> (IF isLeapYear(year) THEN 29 ELSE 28) [] month \in {4, 6, 9, 11} -> 30 [] OTHER -> 31

\* Date.UTC: the years below 100 are those of the last century, and a day too many the next month's.
DateUTC(year, month, day, time) ==
  LET y == IF year < 100 THEN 1900 + year ELSE year
      over == day - daysInMonth(y, month)
  IN  (IF over > 0 THEN <<y, month + 1, over>> ELSE <<y, month, day>>) \o time

\* The text of a time, without the mark TextDecoder takes off.
TimeText(content) == IF IsPrefix(<<239, 187, 191>>, content) THEN SubSeq(content, 4, Len(content)) ELSE content

decodeTime(node) ==
  LET text == TimeText(node.content)
      isUtc == node.tag = 23
      wide == IF isUtc THEN 2 ELSE 4
      At(i) == (text[i] - 48) * 10 + text[i + 1] - 48
      year == IF isUtc THEN At(1) + (IF At(1) < 50 THEN 2000 ELSE 1900) ELSE At(1) * 100 + At(3)
      month == At(wide + 1)
      day == At(wide + 3)
      time == <<At(wide + 5), At(wide + 7), At(wide + 9)>>
  IN  Check(/\ node.class = 0 /\ node.tag \in {23, 24}
            /\ Len(text) = wide + 11 /\ Last(text) = 90
            /\ \A i \in 1..(wide + 10) : text[i] \in 48..57
            /\ month \in 1..12 /\ day \in 1..daysInMonth(year, month)
            /\ time[1] <= 23 /\ time[2] <= 59 /\ time[3] <= 59,
            Ok(DateUTC(year, month, day, time)))

-----------------------------------------------------------------------------
(* A certificate. *)

\* At most one of something.
None == <<>>
Some(x) == <<x>>

decodeAlgorithmIdentifier(node) ==
  Universal(node, 16, Check(Len(node.children) \in {1, 2}, AndThen(decodeOid(node.children[1]), LAMBDA oid :
    Ok([oid |-> oid, parameters |-> IF Len(node.children) = 1 THEN None ELSE Some(node.children[2].bytes)]))))

decodeAttribute(node) ==
  Universal(node, 16, Check(Len(node.children) = 2, AndThen(decodeOid(node.children[1]), LAMBDA oid :
    Ok([oid |-> oid, value |-> node.children[2].bytes]))))

decodeName(node) ==
  Universal(node, 16, AndThen(ReadAll(node.children, LAMBDA rdn :
                      Universal(rdn, 17, Check(rdn.children # <<>>, ReadAll(rdn.children, decodeAttribute)))),
                    LAMBDA rdns : Ok([der |-> node.bytes, rdns |-> rdns])))

Ia5(kind, node) == Check(\A i \in DOMAIN node.content : node.content[i] < 128, Ok(<<kind, node.content>>))

decodeGeneralName(node) ==
  Check(node.class = 2,
    CASE node.tag = 1 -> Ia5("rfc822", node)
      [] node.tag = 2 -> Ia5("dns", node)
      [] node.tag = 6 -> Ia5("uri", node)
      [] node.tag = 7 -> Ok(<<"ip", node.content>>)
      [] node.tag = 4 -> Check(Len(node.children) = 1,
                               AndThen(decodeName(node.children[1]), LAMBDA name : Ok(<<"directory", name.rdns>>)))
      [] OTHER -> Ok(<<"other", node.bytes>>))

decodeGeneralNames(node) == Universal(node, 16, ReadAll(node.children, decodeGeneralName))

\* A number JavaScript holds exactly.
Safe(octets) == octets[1] < 128 /\ (Len(octets) < 7 \/ (Len(octets) = 7 /\ octets[1] < 32))

decodeBasicConstraints(node) ==
  LET c == node.children
      has == c # <<>> /\ Is(c[1], 1)
      rest == IF has THEN Tail(c) ELSE c
  IN  Universal(node, 16, Check(Len(rest) <= 1,
        AndThen(ReadAll(rest, LAMBDA n : AndThen(decodeInteger(n), LAMBDA v : Check(Safe(v), Ok(v)))), LAMBDA most :
          AndThen(IF has THEN decodeBoolean(c[1]) ELSE Ok(FALSE), LAMBDA isCa :
            Ok([isCa |-> isCa, maximumPathLength |-> most])))))

KEY_USAGE_BITS == 0..8
keyCertSign == 5

decodeKeyUsage(node) ==
  AndThen(decodeBitString(node), LAMBDA bits :
    Ok({k \in KEY_USAGE_BITS : /\ k < 8 * Len(bits.bytes) - bits.unusedBits
                                /\ (bits.bytes[(k \div 8) + 1] \div 2^(7 - (k % 8))) % 2 = 1}))

\* minimum and maximum are forbidden.
decodeGeneralSubtrees(node) ==
  Check(node.built, ReadAll(node.children, LAMBDA subtree :
    Universal(subtree, 16, Check(Len(subtree.children) = 1, decodeGeneralName(subtree.children[1])))))

decodeNameConstraints(node) ==
  LET Fields(tag) == SelectSeq(node.children, LAMBDA f : InContext(f, tag))
      Subtrees(tag) ==
        Check(Len(Fields(tag)) <= 1, IF Fields(tag) = <<>> THEN Ok(<<>>)
          ELSE AndThen(decodeGeneralSubtrees(Fields(tag)[1]), LAMBDA trees : Check(trees # <<>>, Ok(trees))))
  IN  Universal(node, 16, Check(node.children # <<>> /\ \A i \in DOMAIN node.children :
                           InContext(node.children[i], 0) \/ InContext(node.children[i], 1),
        AndThen(Subtrees(0), LAMBDA permitted : AndThen(Subtrees(1), LAMBDA excluded :
          Ok([permitted |-> permitted, excluded |-> excluded])))))

\* Only what is asked for is read.
decodeAuthorityKeyIdentifier(node) ==
  LET Fields(tag) == SelectSeq(node.children, LAMBDA f : InContext(f, tag)) IN
  Universal(node, 16, Ok([keyIdentifier |-> IF Fields(0) = <<>> THEN None ELSE Some(Fields(0)[1].content),
                    hasIssuerAndSerial |-> Fields(1) # <<>> \/ Fields(2) # <<>>]))

EXTENSION_OIDS ==
  [subjectKeyIdentifier |-> <<2, 5, 29, 14>>, keyUsage |-> <<2, 5, 29, 15>>, subjectAltName |-> <<2, 5, 29, 17>>,
   basicConstraints |-> <<2, 5, 29, 19>>, nameConstraints |-> <<2, 5, 29, 30>>,
   authorityKeyIdentifier |-> <<2, 5, 29, 35>>, extendedKeyUsage |-> <<2, 5, 29, 37>>,
   authorityInfoAccess |-> <<1, 3, 6, 1, 5, 5, 7, 1, 1>>]

decodeValue(name, node) ==
  CASE name = "basicConstraints" -> decodeBasicConstraints(node)
    [] name = "keyUsage" -> decodeKeyUsage(node)
    [] name = "extendedKeyUsage" -> Universal(node, 16, ReadAll(node.children, decodeOid))
    [] name = "subjectAltName" -> decodeGeneralNames(node)
    [] name = "nameConstraints" -> decodeNameConstraints(node)
    [] name = "subjectKeyIdentifier" -> Universal(node, 4, Ok(node.content))
    [] name = "authorityKeyIdentifier" -> decodeAuthorityKeyIdentifier(node)
    [] OTHER -> Universal(node, 16, Check(node.children # <<>>, Ok(Len(node.children))))

decodeExtension(node) ==
  LET c == node.children
      has == Len(c) >= 2 /\ Is(c[2], 1)
  IN  Universal(node, 16, Check(Len(c) = (IF has THEN 3 ELSE 2), AndThen(decodeOid(c[1]), LAMBDA oid :
        AndThen(IF has THEN decodeBoolean(c[2]) ELSE Ok(FALSE), LAMBDA isCritical :
          Universal(Last(c), 4, Ok([oid |-> oid, isCritical |-> isCritical, value |-> Last(c).content]))))))

\* Mutant: the first of two extensions of one kind is read, and the second passed over.
MutTwice(raw) == FALSE

Twice(raw) == \E i, j \in DOMAIN raw : i # j /\ raw[i].oid = raw[j].oid

NoExtensions == [name \in DOMAIN EXTENSION_OIDS |-> None]

decodeExtensionList(node) ==
  AndThen(ReadAll(node.children, decodeExtension), LAMBDA raw :
    LET Of1(name) == SelectSeq(raw, LAMBDA e : e.oid = EXTENSION_OIDS[name])
        found == [name \in DOMAIN EXTENSION_OIDS |->
                    ReadAll(Of1(name), LAMBDA e : AndThen(decodeDer(e.value), LAMBDA inner :
                      AndThen(decodeValue(name, inner), LAMBDA v : Ok([isCritical |-> e.isCritical, value |-> v]))))]
        unknown == SelectSeq(raw, LAMBDA e : e.isCritical /\ \A n \in DOMAIN EXTENSION_OIDS : EXTENSION_OIDS[n] # e.oid)
    IN  Check(~Twice(raw) /\ \A n \in DOMAIN found : found[n].ok,
              Ok([known |-> [n \in DOMAIN found |-> found[n].value],
                   unrecognisedCritical |-> [i \in DOMAIN unknown |-> unknown[i].oid]])))

decodeSpki(node) ==
  Universal(node, 16, Check(Len(node.children) = 2, AndThen(decodeAlgorithmIdentifier(node.children[1]), LAMBDA alg :
    AndThen(decodeBitString(node.children[2]), LAMBDA key :
      Ok([der |-> node.bytes, algorithm |-> alg, subjectPublicKey |-> key.bytes, unusedBits |-> key.unusedBits])))))

decodeValidity(node) ==
  Universal(node, 16, Check(Len(node.children) = 2, ReadAll(node.children, decodeTime)))

\* The version of [0]; v1 is the default, which DER omits.
decodeVersion(field) ==
  Check(field.children # <<>>, AndThen(decodeInteger(field.children[1]), LAMBDA v :
    Check(v \in {<<1>>, <<2>>}, Ok(v[1] + 1))))

\* The fields from here on, past the one of this tag.
Past(fields, tag) == IF fields # <<>> /\ InContext(fields[1], tag) THEN Tail(fields) ELSE fields

\* Extensions need v3, and there is one at least.
decodeExtensionsField(rest, version) ==
  IF rest = <<>> THEN Ok([known |-> NoExtensions, unrecognisedCritical |-> <<>>])
  ELSE Check(Len(rest) = 1 /\ InContext(rest[1], 3) /\ version = 3 /\ rest[1].children # <<>>,
         LET list == rest[1].children[1] IN Universal(list, 16, Check(list.children # <<>>, decodeExtensionList(list))))

decodeTbs(tbs) ==
  LET has == tbs.children # <<>> /\ InContext(tbs.children[1], 0)
      f == IF has THEN Tail(tbs.children) ELSE tbs.children
      rest == SubSeq(f, 7, Len(f))
      afterUnique == Past(Past(rest, 1), 2)
  IN  Universal(tbs, 16, Check(Len(f) >= 6, AndThen(IF has THEN decodeVersion(tbs.children[1]) ELSE Ok(1), LAMBDA version :
        AndThen(Check(Len(f[1].content) <= MAXIMUM_SERIAL_OCTETS, decodeInteger(f[1])), LAMBDA serial :
        AndThen(decodeAlgorithmIdentifier(f[2]), LAMBDA inner :
        AndThen(ReadAll(<<f[3], f[5]>>, decodeName), LAMBDA names :
        AndThen(decodeValidity(f[4]), LAMBDA validity :
        AndThen(decodeSpki(f[6]), LAMBDA spki :
        AndThen(Check(version # 1 \/ rest = afterUnique, decodeExtensionsField(afterUnique, version)), LAMBDA extensions :
          Ok([version |-> version, serialNumber |-> serial, inner |-> inner, issuer |-> names[1], subject |-> names[2],
               notBefore |-> validity[1], notAfter |-> validity[2], subjectPublicKeyInfo |-> spki,
               extensions |-> extensions, tbs |-> tbs.bytes]))))))))))

\* The signed algorithm and the unsigned one are the same.
decodeCertificate(der) ==
  AndThen(decodeDer(der), LAMBDA node : Universal(node, 16, Check(Len(node.children) = 3,
    AndThen(decodeTbs(node.children[1]), LAMBDA tbs :
      AndThen(decodeAlgorithmIdentifier(node.children[2]), LAMBDA outer :
        AndThen(decodeBitString(node.children[3]), LAMBDA signature :
          Check(outer = tbs.inner, Ok([said |-> tbs, signature |-> signature.bytes]))))))))

-----------------------------------------------------------------------------
(* What a certificate owes for its place in a path. *)

Has(c, name) == c.said.extensions.known[name] # None
Ext(c, name) == c.said.extensions.known[name][1]
Critical(c, name) == Has(c, name) /\ Ext(c, name).isCritical

conformanceViolation(c, role) ==
  LET named == c.said.subject.rdns # <<>>
      authority == "authorityKeyIdentifier"
      alt == "subjectAltName"
  IN  \/ Critical(c, authority) \/ Critical(c, "subjectKeyIdentifier") \/ Critical(c, "authorityInfoAccess")
      \/ Has(c, authority) /\ Ext(c, authority).value.hasIssuerAndSerial
      \/ named = Critical(c, alt)
      \/ role # "leaf" /\ (~named \/ ~Has(c, "subjectKeyIdentifier"))
      \/ Has(c, authority) /\ Ext(c, authority).value.keyIdentifier = None
      \/ role # "anchor" /\ ~Has(c, authority)
      \/ role = "leaf" /\ Has(c, "nameConstraints")

constrainedNamesOf(c) ==
  (IF c.said.subject.rdns = <<>> THEN <<>> ELSE <<<<"directory", c.said.subject.rdns>>>>)
  \o (IF Has(c, "subjectAltName") THEN Ext(c, "subjectAltName").value ELSE <<>>)

-----------------------------------------------------------------------------
(* Keys and signatures. *)

RSA_OID == <<1, 2, 840, 113549, 1, 1, 1>>
EC_PUBLIC_KEY_OID == <<1, 2, 840, 10045, 2, 1>>
ED25519_OID == <<1, 3, 101, 112>>
P256 == <<1, 2, 840, 10045, 3, 1, 7>>
P384 == <<1, 3, 132, 0, 34>>
CURVES == {P256, P384, <<1, 3, 132, 0, 35>>}

\* readOidBytes, whose digits have no bound.
readOidBytes(der) ==
  AndThen(decodeDer(der), LAMBDA node :
    LET subs == Subidentifiers[node.content] IN
    Universal(node, 6, Check(IsWhole(node.content) /\ \A i \in DOMAIN subs : subs[i][1] # 128,
                      Ok(Arcs([i \in DOMAIN subs |-> Num7[subs[i]]])))))

BitsOf(octets) ==
  LET n == IF octets[1] = 0 THEN Tail(octets) ELSE octets IN
  8 * (Len(n) - 1) + Min({k \in 1..8 : n[1] < 2^k})

rsaModulusBits(key) ==
  AndThen(decodeDer(key), LAMBDA node : Check(node.built /\ node.children # <<>>,
    AndThen(decodeInteger(node.children[1]), LAMBDA modulus :
      Check(modulus[1] < 128 /\ modulus # <<0>>, Ok(BitsOf(modulus))))))

rejectKey(spki) ==
  LET curve == IF spki.algorithm.parameters = None THEN NoReading ELSE readOidBytes(spki.algorithm.parameters[1])
      bits == rsaModulusBits(spki.subjectPublicKey)
  IN  CASE spki.algorithm.oid = EC_PUBLIC_KEY_OID ->
             (IF ~curve.ok THEN "unsupported" ELSE IF curve.value \in CURVES THEN "none" ELSE "too-weak")
        [] spki.algorithm.oid = RSA_OID ->
             (IF ~bits.ok THEN "unsupported"
              ELSE IF bits.value < MINIMUM_RSA_MODULUS_BITS \/ bits.value % 8 # 0 THEN "too-weak" ELSE "none")
        [] OTHER -> "unsupported"

\* The reader of the TLS package: it drops what it cannot read, and takes any first byte.
parseOid(content) ==
  LET subs == SelectSeq(Subidentifiers[Tail(content)], IsWhole) IN
  IF content = <<>> THEN <<>>
  ELSE <<content[1] \div 40, content[1] % 40>> \o [i \in DOMAIN subs |-> Num7[subs[i]]]

getSpkiAlgorithm(der) ==
  AndThen(decodeDer(der), LAMBDA tree :
    LET alg == tree.children[1] IN
    Universal(tree, 16, Check(/\ tree.children # <<>> /\ alg.tag = 16 /\ alg.children # <<>> /\ alg.children[1].tag = 6,
      Ok([oid |-> parseOid(alg.children[1].content),
           curveOid |-> IF Len(alg.children) >= 2 /\ alg.children[2].tag = 6
                        THEN Some(parseOid(alg.children[2].content)) ELSE None]))))

SCHEME_KEYS ==
  [ecdsa_secp256r1_sha256 |-> EC_PUBLIC_KEY_OID, ecdsa_secp384r1_sha384 |-> EC_PUBLIC_KEY_OID,
   rsa_pss_rsae_sha256 |-> RSA_OID, rsa_pss_rsae_sha384 |-> RSA_OID, rsa_pss_rsae_sha512 |-> RSA_OID,
   ed25519 |-> ED25519_OID]

SCHEME_CURVE_OIDS == [ecdsa_secp256r1_sha256 |-> P256, ecdsa_secp384r1_sha384 |-> P384]

\* Mutant: a scheme's curve is not asked of the key.
MutCurveFits(algorithm, scheme) == TRUE

CurveFits(algorithm, scheme) ==
  scheme \in DOMAIN SCHEME_CURVE_OIDS /\ algorithm.ok => algorithm.value.curveOid = Some(SCHEME_CURVE_OIDS[scheme])

\* The algorithm is what the certificate's own decoder read; what is left is WebCrypto's import.
importLeafKey(der, scheme, oid) ==
  IF ~CurveFits(getSpkiAlgorithm(der), scheme) THEN "illegal_parameter"
  ELSE IF scheme \notin DOMAIN SCHEME_KEYS \/ oid # SCHEME_KEYS[scheme] THEN "illegal_parameter"
  ELSE "imports"

Strip(octets) == IF octets[1] = 0 THEN Tail(octets) ELSE octets
Wide(octets, width) == [i \in 1..(width - Len(octets)) |-> 0] \o octets

\* r and s of a fixed width; a number too wide is refused.
fixedWidth(octets, width) ==
  Check(octets[1] < 128 /\ Len(Strip(octets)) <= width, Ok(Wide(Strip(octets), width)))

p1363FromDer(signature, width) ==
  AndThen(decodeDer(signature), LAMBDA node : Check(node.built /\ Len(node.children) = 2,
    AndThen(ReadAll(node.children, decodeInteger), LAMBDA both :
      AndThen(ReadAll(both, LAMBDA n : fixedWidth(n, width)), LAMBDA halves : Ok(halves[1] \o halves[2])))))

\* The TLS package's: of a number too wide it keeps the first bytes.  WebCrypto refuses what a
\* negative one becomes.
derToP1363(signature, width) ==
  AndThen(decodeDer(signature), LAMBDA node : Universal(node, 16, Check(Len(node.children) = 2,
    AndThen(ReadAll(node.children, decodeInteger), LAMBDA both :
      LET Half(n) == SubSeq(Wide(Strip(n), width), 1, width) IN
      Check(both[1][1] < 128 /\ both[2][1] < 128, Ok(Half(both[1]) \o Half(both[2])))))))

-----------------------------------------------------------------------------
(* Certificates as the test fixtures issue them. *)

encodeLength(n) ==
  CASE n < 128 -> <<n>> [] n < 256 -> <<129, n>> [] OTHER -> <<130, n \div 256, n % 256>>

Tlv(tag, content) == <<tag>> \o encodeLength(Len(content)) \o content
Seq_(parts) == Tlv(48, FlattenSeq(parts))

Digits7[n \in Nat] == IF n < 128 THEN <<n>> ELSE Digits7[n \div 128] \o <<n % 128>>
base128(n) == LET d == Digits7[n] IN [i \in DOMAIN d |-> IF i < Len(d) THEN d[i] + 128 ELSE d[i]]

OidContent(arcs) == base128(arcs[1] * 40 + arcs[2]) \o FlattenSeq([i \in 1..(Len(arcs) - 2) |-> base128(arcs[i + 2])])
oid(arcs) == Tlv(6, OidContent(arcs))

Trimmed(octets) ==
  LET kept == {i \in DOMAIN octets : octets[i] # 0} IN
  IF kept = {} THEN <<0>> ELSE SubSeq(octets, Min(kept), Len(octets))

\* The octets of a number that is not negative.
Unsigned(octets) == LET t == Trimmed(octets) IN IF t[1] >= 128 THEN <<0>> \o t ELSE t
Integer(octets) == Tlv(2, Unsigned(octets))
OctetString(bytes) == Tlv(4, bytes)
ECDSA_WITH_SHA256 == Seq_(<<oid(<<1, 2, 840, 10045, 4, 3, 2>>)>>)
distinguishedName(cn) == Seq_(<<Tlv(49, Seq_(<<oid(<<2, 5, 4, 3>>), Tlv(19, cn)>>))>>)

Pad(n) == <<48 + ((n \div 10) % 10), 48 + (n % 10)>>
utcTime(t) == Tlv(23, FlattenSeq([i \in 1..6 |-> Pad(t[i] % 100)]) \o <<90>>)

extension(arcs, value, isCritical) ==
  Seq_(<<oid(arcs), IF isCritical THEN Tlv(1, <<255>>) ELSE <<>>, OctetString(value)>>)

derFromP1363(r, s) == Seq_(<<Integer(r), Integer(s)>>)

EcSpki(curve, key) == Seq_(<<Seq_(<<oid(EC_PUBLIC_KEY_OID), oid(curve)>>), Tlv(3, <<0, 4>> \o key)>>)
RsaSpki(modulus) ==
  Seq_(<<Seq_(<<oid(RSA_OID), <<5, 0>>>>), Tlv(3, <<0>> \o Seq_(<<Integer(modulus), Integer(<<1, 0, 1>>)>>))>>)

Subtrees(tag, names) ==
  IF names = <<>> THEN <<>> ELSE Tlv(160 + tag, FlattenSeq([i \in DOMAIN names |-> Seq_(<<Tlv(130, names[i])>>)]))

\* The extensions of a fixture; fill is what is in the parts that nobody reads.
FixtureExtensions(o, fill) ==
  LET E == EXTENSION_OIDS IN
  (IF ~o.isCa THEN <<>>
   ELSE <<extension(E.basicConstraints,
                    Seq_(<<Tlv(1, <<255>>), IF o.pathLength = -1 THEN <<>> ELSE Integer(<<o.pathLength>>)>>), TRUE),
          extension(E.keyUsage, Tlv(3, <<fill, 4>>), TRUE)>>)
  \o <<extension(E.subjectKeyIdentifier, OctetString(<<o.key>>), FALSE)>>
  \o (IF o.issuer = None THEN <<>>
      ELSE <<extension(E.authorityKeyIdentifier, Seq_(<<Tlv(128, <<o.issuer[1].key>>)>>), FALSE)>>)
  \o (IF o.dnsNames = <<>> THEN <<>>
      ELSE <<extension(E.subjectAltName, Seq_([i \in DOMAIN o.dnsNames |-> Tlv(130, o.dnsNames[i])]), FALSE)>>)
  \o (IF o.usages = <<>> THEN <<>>
      ELSE <<extension(E.extendedKeyUsage, Seq_([i \in DOMAIN o.usages |-> oid(o.usages[i])]), FALSE)>>)
  \o (IF o.permitted = <<>> /\ o.excluded = <<>> THEN <<>>
      ELSE <<extension(E.nameConstraints, Seq_(<<Subtrees(0, o.permitted), Subtrees(1, o.excluded)>>), TRUE)>>)

\* Another issuer's certificates carry more: unique identifiers, where to ask the authority, what no
\* one knows.
Besides(o, fill) ==
  CASE o.more = "unread" -> <<extension(EXTENSION_OIDS.authorityInfoAccess, Seq_(<<Tlv(128 + fill, <<>>)>>), FALSE),
                              extension(<<0, fill>>, <<fill>>, FALSE)>>
    [] o.more = "again" -> <<extension(EXTENSION_OIDS.subjectKeyIdentifier, OctetString(<<9>>), FALSE)>>
    [] o.more = "critical" -> <<extension(<<0, 5>>, <<1>>, TRUE)>>
    [] OTHER -> <<>>

issueCertificate(o, fill) ==
  LET issuer == IF o.issuer = None THEN o.cn ELSE o.issuer[1].cn
      tbs == Seq_(<<Tlv(160, Integer(<<2>>)), Integer(o.serial), ECDSA_WITH_SHA256, distinguishedName(issuer),
                    Seq_(<<utcTime(o.notBefore), utcTime(o.notAfter)>>), distinguishedName(o.cn), EcSpki(P256, <<o.key>>),
                    IF o.more = "unread" THEN Tlv(129, <<fill, fill>>) \o Tlv(130, <<fill, fill>>) ELSE <<>>,
                    Tlv(163, Seq_(FixtureExtensions(o, fill) \o Besides(o, fill)))>>)
  IN  Seq_(<<tbs, ECDSA_WITH_SHA256, Tlv(3, <<fill - 1>> \o derFromP1363(<<o.key>>, <<2>>))>>)

-----------------------------------------------------------------------------
(* Names. *)

asciiLower(text) == [i \in DOMAIN text |-> IF text[i] \in DOMAIN Small THEN Small[text[i]] ELSE text[i]]

\* Up to the first of the marks, and past the last.
Before(text, marks) == SubSeq(text, 1, Min({i \in DOMAIN text : text[i] \in marks} \cup {Len(text) + 1}) - 1)
After(text, mark) == SubSeq(text, Len(Before(text, {mark})) + 2, Len(text))
AfterLast(text, mark) == SubSeq(text, Max({i \in DOMAIN text : text[i] = mark} \cup {0}) + 1, Len(text))

Comparable(host) ==
  Len(host) % 2 = 1 /\ \A i \in DOMAIN host : host[i] \in (IF i % 2 = 1 THEN Labels ELSE {"."})

Verdict(holds) == IF holds THEN "yes" ELSE "no"

dnsWithinSubtree(name, constraint) ==
  LET target == asciiLower(name)  base == asciiLower(constraint) IN
  IF base = <<>> THEN "yes"
  ELSE IF base[1] = "." THEN "unknown"
  ELSE Verdict(Comparable(target) /\ (target = base \/ IsSuffix(<<".">> \o base, target)))

dnsMatches(name, constraint, isExclusion) ==
  LET base == SubSeq(name, 3, Len(name))
      both == {dnsWithinSubtree(base, constraint), dnsWithinSubtree(constraint, base)}
  IN  IF ~IsPrefix(<<"*", ".">>, name) THEN dnsWithinSubtree(name, constraint)
      ELSE IF ~isExclusion THEN dnsWithinSubtree(base, constraint)
      ELSE IF "unknown" \in both THEN "unknown" ELSE Verdict("yes" \in both)

\* What stands between the scheme and the path, past who asks and before the port; nothing if
\* there is none.
hostOfUri(uri) ==
  LET after == AfterLast(Before(Tail(uri), {"/", "?", "#"}), "@") IN
  IF uri = <<>> \/ uri[1] # "https://" THEN <<>>
  ELSE IF after # <<>> /\ after[1] = "[" /\ "]" \in Range(after) THEN <<after[2]>>
  ELSE Before(after, {":"})

\* With a leading period, proper subdomains only; without, the one host.
uriWithinSubtree(uri, constraint) ==
  LET target == asciiLower(hostOfUri(uri))
      base == asciiLower(constraint)
  IN  IF target = <<>> \/ target[1] \in Addresses \/ ~Comparable(target) \/ base = <<>> THEN "unknown"
      ELSE Verdict(IF base[1] = "." THEN IsSuffix(base, target) ELSE target = base)

emailWithinSubtree(mailbox, constraint) ==
  LET host == asciiLower(AfterLast(mailbox, "@"))
      base == asciiLower(constraint)
  IN  IF host = <<>> THEN "unknown"
      ELSE IF "@" \in Range(constraint)
      THEN Verdict(/\ Before(mailbox, {"@"}) = Before(constraint, {"@"})
                   /\ host = Before(After(base, "@"), {"@"}))
      ELSE IF base = <<>> THEN "unknown"
      ELSE Verdict(IF base[1] = "." THEN IsSuffix(base, host) ELSE host = base)

\* An address, then its mask; one of the other family is no match.
ipWithinSubtree(address, constraint) ==
  IF Len(constraint) # 2 * Len(address) THEN IF Len(constraint) \in {8, 32} THEN "no" ELSE "unknown"
  ELSE Verdict(\A i \in DOMAIN address :
                 LET mask == constraint[Len(address) + i] IN (address[i] & mask) = (constraint[i] & mask))

\* White space is one space and none at the ends, and a capital is a small letter.
Space == (9..13) \cup {32}

prepareForComparison(text) ==
  LET kept == SelectSeq([i \in DOMAIN text |-> <<i, text[i]>>],
                LAMBDA c : c[2] \notin Space
                           \/ (/\ \E i \in 1..(c[1] - 1) : text[i] \notin Space
                               /\ c[1] < Len(text) /\ text[c[1] + 1] \notin Space))
  IN  [i \in DOMAIN kept |-> LET c == kept[i][2] IN
         IF c \in Space THEN 32 ELSE IF c \in 65..90 THEN c + 32 ELSE c]

Text(node) ==
  LET c == node.content IN
  CASE node.tag = 12 -> Check(\A i \in DOMAIN c : c[i] < 128, Ok(c))
    [] node.tag \in {19, 20, 22} -> Ok(c)
    [] node.tag = 30 -> Check(Len(c) % 2 = 0, Ok([i \in 1..(Len(c) \div 2) |-> c[2 * i - 1] * 256 + c[2 * i]]))
    [] OTHER -> NoReading

canonicalAttribute(attribute) ==
  AndThen(decodeDer(attribute.value), LAMBDA node : AndThen(Text(node), LAMBDA text :
    Ok(<<attribute.oid, prepareForComparison(text)>>)))

\* Mutant: the attributes of a set are taken in their order.
MutSameAttributes(left, right) == left = right

SameAttributes(left, right) ==
  \A x \in Range(left) \cup Range(right) :
    Cardinality({i \in DOMAIN left : left[i] = x}) = Cardinality({i \in DOMAIN right : right[i] = x})

isSameRelativeDistinguishedName(a, b) ==
  LET left == ReadAll(a, canonicalAttribute)  right == ReadAll(b, canonicalAttribute) IN
  IF Len(a) # Len(b) THEN "no"
  ELSE IF ~left.ok \/ ~right.ok THEN "unknown" ELSE Verdict(SameAttributes(left.value, right.value))

\* The constraint's names are the first of the subject's.
directoryWithinSubtree(target, base) ==
  LET verdicts == [i \in DOMAIN base |-> isSameRelativeDistinguishedName(base[i], target[i])]
      others == {i \in DOMAIN base : verdicts[i] # "yes"}
  IN  IF Len(base) > Len(target) THEN "no" ELSE IF others = {} THEN "yes" ELSE verdicts[Min(others)]

withinSubtree(name, base, isExclusion) ==
  CASE name[1] # base[1] -> "no"
    [] name[1] = "dns" -> dnsMatches(name[2], base[2], isExclusion)
    [] name[1] = "ip" -> ipWithinSubtree(name[2], base[2])
    [] name[1] = "rfc822" -> emailWithinSubtree(name[2], base[2])
    [] name[1] = "directory" -> directoryWithinSubtree(name[2], base[2])
    [] name[1] = "uri" -> uriWithinSubtree(name[2], base[2])
    [] OTHER -> "unknown"

addSubtrees(state, c) ==
  [permittedLevels |-> IF c.permitted = <<>> THEN state.permittedLevels ELSE Append(state.permittedLevels, c.permitted),
   excluded |-> state.excluded \o c.excluded]

\* What a name is compared with: what is excluded, then each level that has a subtree of its form.
Rounds(names, state) ==
  FlattenSeq([i \in DOMAIN names |->
    LET ofKind == [k \in DOMAIN state.permittedLevels |->
                     SelectSeq(state.permittedLevels[k], LAMBDA base : base[1] = names[i][1])]
        levels == SelectSeq(ofKind, LAMBDA level : level # <<>>)
    IN  <<[name |-> names[i], bases |-> state.excluded, isExclusion |-> TRUE]>>
        \o [k \in DOMAIN levels |-> [name |-> names[i], bases |-> levels[k], isExclusion |-> FALSE]]])

\* The comparisons that end a round: any doubt is a match if to match is to be excluded.
Hits(r) ==
  {i \in DOMAIN r.bases : withinSubtree(r.name, r.bases[i], r.isExclusion)
                          \in (IF r.isExclusion THEN {"yes", "unknown"} ELSE {"yes"})}

\* A round that matches ends there; one that has to and does not, or has not the budget to, is a
\* refusal.
Violates(names, state, budget) ==
  LET rounds == Rounds(names, state)
      hits == [i \in DOMAIN rounds |-> Hits(rounds[i])]
      cost == [i \in DOMAIN rounds |-> IF hits[i] = {} THEN Len(rounds[i].bases) ELSE Min(hits[i])]
  IN  \/ \E i \in DOMAIN rounds : rounds[i].isExclusion = (hits[i] # {})
      \/ FoldLeft(+, 0, cost) > budget

isViolated(names, state) == Violates(names, state, MAXIMUM_NAME_COMPARISONS)

\* An address in text: four numbers, or words of sixteen bits in one section, or in the two on
\* either side of "::".  A word that is no hexadecimal one is bad.
Quad(parts) == Check(\A i \in DOMAIN parts : ~parts[i].padded /\ parts[i].n <= 255, Ok([i \in DOMAIN parts |-> parts[i].n]))

toWords(section) ==
  LET last == Last(section)
      tailed == section # <<>> /\ last[1] = "quad"
      words == IF tailed THEN Front(section) ELSE section
  IN  Check(\A i \in DOMAIN words : words[i][1] = "hex",
        LET hex == [i \in DOMAIN words |-> words[i][2]] IN
        IF ~tailed THEN Ok(hex)
        ELSE AndThen(Quad(last[2]), LAMBDA q : Ok(hex \o <<q[1] * 256 + q[2], q[3] * 256 + q[4]>>)))

parseIpAddress(text) ==
  IF text[1] = "quad" THEN Quad(text[2])
  ELSE Check(Len(text[2]) <= 2, AndThen(ReadAll(text[2], toWords), LAMBDA sides :
         LET total == Len(FlattenSeq(sides))
             words == sides[1] \o [i \in 1..(8 - total) |-> 0] \o IF Len(sides) = 2 THEN sides[2] ELSE <<>>
         IN  Check(IF Len(sides) = 1 THEN total = 8 ELSE total < 8,
                   Ok(FlattenSeq([i \in 1..8 |-> <<words[i] \div 256, words[i] % 256>>])))))

-----------------------------------------------------------------------------
(* The index of the trust anchors. *)

keyOf(bytes) == SubSeq(bytes, 1, Min({KEY_OCTETS, Len(bytes)}))

\* An anchor that does not decode is left out.
indexAnchors(bundle) ==
  SelectSeq([i \in DOMAIN bundle |-> [id |-> i, der |-> bundle[i], read |-> decodeCertificate(bundle[i])]], LAMBDA e : e.read.ok)

SubjectOf(entry) == entry.read.value.said.subject.der

\* Mutant: what shares the key is taken for the issuer.
MutFindCandidates(index, issuer) == SelectSeq(index, LAMBDA e : keyOf(SubjectOf(e)) = keyOf(issuer))

findCandidates(index, issuer) ==
  SelectSeq(SelectSeq(index, LAMBDA e : keyOf(SubjectOf(e)) = keyOf(issuer)), LAMBDA e : SubjectOf(e) = issuer)

-----------------------------------------------------------------------------
(* A paper on its way to its reader. *)

NoPaper == [pc |-> "none"]

\* Every way to put one thing more inside something of node: an empty value, or the last again.
\* What wraps a version or the extensions, and an authority's key identifier, have room for more.
IsKeyId(node) ==
  node.children # <<>> /\ node.children[1].bytes = oid(EXTENSION_OIDS.authorityKeyIdentifier)

Replaced(node, i, bytes) == Tlv(node.bytes[1], FlattenSeq([j \in DOMAIN node.children |-> IF j = i THEN bytes ELSE node.children[j].bytes]))

RECURSIVE Stuffed(_, _)
Stuffed(node, depth) ==
  LET inner == decodeDer(node.content)
      wraps == depth = 2 /\ node.class = 2
  IN  IF Is(node, 4) /\ inner.ok THEN {OctetString(b) : b \in Stuffed(inner.value, 3)}
      ELSE IF ~node.built \/ IsKeyId(node) THEN {}
      ELSE (IF wraps THEN {}
            ELSE {Tlv(node.bytes[1], node.content \o more) :
                    more \in {<<5, 0>>} \cup {Last(node.children).bytes : i \in (1..Len(node.children)) \cap {1}}})
           \cup UNION {{Replaced(node, i, b) : b \in Stuffed(node.children[i], depth + 1)} : i \in DOMAIN node.children}

Suffered(bytes, how) ==
  CASE how = "cut" -> {SubSeq(bytes, 1, n) : n \in 0..(Len(bytes) - 1)}
    [] how = "grown" -> {Append(bytes, 0)}
    [] how = "altered" -> {[bytes EXCEPT ![i] = b] : i \in DOMAIN bytes, b \in {0, 1, 2, 48, 255}}
                          \cup {[bytes EXCEPT ![i] = (@ + 1) % 256] : i \in DOMAIN bytes}
    [] how = "stuffed" -> Stuffed(decodeDer(bytes).value, 0)
    [] OTHER -> {bytes}

Kind == paper.of[1]
About == paper.of[2]

Written(p) ==
  CASE p[1] = "certificate" -> issueCertificate(p[2].issued, 1)
    [] p[1] \in {"tree", "value"} -> p[2].bytes
    [] p[1] = "time" -> Tlv(p[2].tag, p[2].text)
    [] p[1] = "key" -> p[2].spki
    [] p[1] = "signature" -> derFromP1363(p[2].r, p[2].s)
    [] OTHER -> <<>>

Submit ==
  /\ paper.pc = "none"
  /\ \E p \in Papers : \E b \in Suffered(Written(p), p[2].how) :
       paper' = [pc |-> "submitted", of |-> p, bytes |-> b, read |-> NoReading]

Awaits(kinds) == paper.pc = "submitted" /\ Kind \in kinds
Reads(r) == paper' = [paper EXCEPT !.pc = "read", !.read = r]

ReadCertificate == Awaits({"certificate"}) /\ Reads(decodeCertificate(paper.bytes))

ReadTree == Awaits({"tree"}) /\ Reads(decodeDer(paper.bytes))

ReadTime == Awaits({"time"}) /\ Reads(AndThen(decodeDer(paper.bytes), decodeTime))

ReadValue ==
  /\ Awaits({"value"})
  /\ Reads(AndThen(decodeDer(paper.bytes), LAMBDA node :
              CASE node.tag = 1 -> decodeBoolean(node) [] node.tag = 2 -> decodeInteger(node)
                [] node.tag = 3 -> decodeBitString(node) [] OTHER -> decodeOid(node)))

\* A key as the path's validator takes it, and as the handshake then does for its scheme.
ReadKey ==
  /\ Awaits({"key"})
  /\ Reads(AndThen(decodeDer(paper.bytes), LAMBDA node : AndThen(decodeSpki(node), LAMBDA spki :
              Ok([spki |-> spki, rejected |-> rejectKey(spki),
                   imports |-> importLeafKey(paper.bytes, About.scheme, spki.algorithm.oid)]))))

ReadSignature ==
  /\ Awaits({"signature"})
  /\ Reads(Ok([path |-> p1363FromDer(paper.bytes, About.width), peer |-> derToP1363(paper.bytes, About.width)]))

Constrain ==
  /\ Awaits({"names"})
  /\ Reads(Ok(isViolated(About.names, addSubtrees([permittedLevels |-> <<>>, excluded |-> <<>>], About))))

ReadAddress == Awaits({"address"}) /\ Reads(parseIpAddress(About.text))

LookUp == Awaits({"anchors"}) /\ Reads(Ok(findCandidates(indexAnchors(About.bundle), About.issuer)))

PaperInit == paper = NoPaper

PaperStep ==
  \/ Submit \/ ReadCertificate \/ ReadTree \/ ReadTime \/ ReadValue \/ ReadKey
  \/ ReadSignature \/ Constrain \/ ReadAddress \/ LookUp

-----------------------------------------------------------------------------
(* Properties. *)

ReadHow(kind, how) == paper.pc = "read" /\ Kind = kind /\ About.how = how
IsRead(kind) == paper.pc = "read" /\ Kind = kind
Read == paper.read.value

Identifier(node) ==
  LET first == node.class * 64 + IF node.built THEN 32 ELSE 0 IN
  IF node.tag < 31 THEN <<first + node.tag>> ELSE <<first + 31>> \o base128(node.tag)

RECURSIVE Encoded(_)
Encoded(node) ==
  LET content == IF node.built THEN FlattenSeq([i \in DOMAIN node.children |-> Encoded(node.children[i])]) ELSE node.content
  IN  Identifier(node) \o encodeLength(Len(content)) \o content

\* Bytes that are read as DER have no other spelling: written again, identifiers, lengths and
\* all, they are the same; and what is too deep or too many is refused, and nothing below it.
TreesAreCanonical ==
  IsRead("tree") =>
    /\ paper.read.ok => Encoded(Read) = paper.bytes
    /\ About.nodes # 0 => (paper.read.ok <=> About.depth <= MAXIMUM_DEPTH /\ About.nodes <= MAXIMUM_NODES)

TwosComplement(octets) == Number[octets] - IF octets[1] >= 128 THEN 256^Len(octets) ELSE 0

Bits(bytes, n) == [i \in 1..n |-> (bytes[((i - 1) \div 8) + 1] \div 2^(7 - ((i - 1) % 8))) % 2]
InOctets(bits) ==
  LET n == (Len(bits) + 7) \div 8
      At(i) == IF i <= Len(bits) THEN bits[i] ELSE 0
  IN  <<8 * n - Len(bits)>> \o [k \in 1..n |-> FoldLeft(LAMBDA v, i : 2 * v + At(8 * (k - 1) + i), 0, [i \in 1..8 |-> i])]

IsShortest(octets) == octets # <<>> /\ (Len(octets) > 1 => TwosComplement(Tail(octets)) # TwosComplement(octets))

NumbersOf(content) == LET subs == Subidentifiers[content] IN [i \in DOMAIN subs |-> Num7[subs[i]]]

\* A number, a string of bits or an object identifier is read exactly if it is in its one
\* spelling, and the package that checks the handshake's signature reads an identifier as the one that
\* checks the path does, if it is one of the three arcs in use.
ValuesAreCanonical ==
  IsRead("value") =>
    LET content == SubSeq(paper.bytes, 3, Len(paper.bytes))  tag == paper.bytes[1] IN
    /\ tag = 2 => (paper.read.ok <=> IsShortest(content))
    /\ tag = 3 => (paper.read.ok <=> /\ content # <<>> /\ content[1] <= 7 /\ 8 * (Len(content) - 1) >= content[1]
                                     /\ InOctets(Bits(Tail(content), 8 * (Len(content) - 1) - content[1])) = content)
    /\ tag = 6 => (paper.read.ok <=> /\ IsWhole(content) /\ OidContent(Arcs(NumbersOf(content))) = content
                                     /\ \A i \in DOMAIN Subidentifiers[content] :
                                          Len(Subidentifiers[content][i]) <= MAXIMUM_SUBIDENTIFIER_OCTETS)
    /\ tag = 6 /\ paper.read.ok =>
         readOidBytes(paper.bytes) = paper.read /\ (content[1] < 120 => parseOid(content) = Read)

\* The day of the calendar, and back.
DayNumber(y, m, d) ==
  LET a == (14 - m) \div 12
      yy == y + 4800 - a
  IN  d + ((153 * (m + 12 * a - 3) + 2) \div 5) + 365 * yy + (yy \div 4) - (yy \div 100) + (yy \div 400) - 32045

DateOf(n) ==
  LET a == n + 32044
      b == (4 * a + 3) \div 146097
      c == a - ((146097 * b) \div 4)
      d == (4 * c + 3) \div 1461
      e == c - ((1461 * d) \div 4)
      m == (5 * e + 2) \div 153
  IN  <<100 * b + d - 4800 + (m \div 10), m + 3 - 12 * (m \div 10), e - ((153 * m + 2) \div 5) + 1>>

IsTime(t) ==
  /\ t[2] \in 1..12 /\ t[3] >= 1 /\ DateOf(DayNumber(t[1], t[2], t[3])) = <<t[1], t[2], t[3]>>
  /\ t[4] <= 23 /\ t[5] <= 59 /\ t[6] <= 59

\* A time is read exactly if it is a second of the calendar, as that second, in the century that
\* its two digits mean; and of a text that was altered, as what it has become.
TimesAreReal ==
  IsRead("time") =>
    /\ About.how = "whole" => IF IsTime(About.date) THEN paper.read = Ok(About.date) ELSE ~paper.read.ok
    /\ paper.read.ok =>
         /\ IsTime(Read)
         /\ paper.bytes[1] = 23 => Read[1] \in 1950..2049 /\ utcTime(Read) = paper.bytes

Role(o) == IF ~o.isCa THEN "leaf" ELSE IF o.issuer = None THEN "anchor" ELSE "issuer"

\* What a certificate reads as, but for the bytes themselves.
Meaning(r) == [r.value EXCEPT !.said.tbs = <<>>]

One(critical, value) == Some([isCritical |-> critical, value |-> value])
Dns(names) == [i \in DOMAIN names |-> <<"dns", names[i]>>]
PlainName(cn) == [der |-> distinguishedName(cn), rdns |-> <<<<[oid |-> <<2, 5, 4, 3>>, value |-> Tlv(19, cn)]>>>>]

Meant(o) ==
  LET ecdsa == [oid |-> <<1, 2, 840, 10045, 4, 3, 2>>, parameters |-> None]
      key == [oid |-> EC_PUBLIC_KEY_OID, parameters |-> Some(oid(P256))] IN
  [said |-> [version |-> 3, serialNumber |-> Unsigned(o.serial), inner |-> ecdsa, issuer |-> PlainName(IF o.issuer = None THEN o.cn ELSE o.issuer[1].cn),
             subject |-> PlainName(o.cn), notBefore |-> o.notBefore, notAfter |-> o.notAfter,
             subjectPublicKeyInfo |-> [der |-> EcSpki(P256, <<o.key>>), algorithm |-> key, subjectPublicKey |-> <<4, o.key>>, unusedBits |-> 0],
             extensions |->
               [known |-> [basicConstraints |-> IF ~o.isCa THEN None ELSE One(TRUE, [isCa |-> TRUE, maximumPathLength |-> IF o.pathLength = -1 THEN None ELSE Some(<<o.pathLength>>)]),
                           keyUsage |-> IF o.isCa THEN One(TRUE, {keyCertSign}) ELSE None,
                           extendedKeyUsage |-> IF o.usages = <<>> THEN None ELSE One(FALSE, o.usages),
                           subjectAltName |-> IF o.dnsNames = <<>> THEN None ELSE One(FALSE, Dns(o.dnsNames)),
                           nameConstraints |-> IF o.permitted \o o.excluded = <<>> THEN None
                                               ELSE One(TRUE, [permitted |-> Dns(o.permitted), excluded |-> Dns(o.excluded)]),
                           subjectKeyIdentifier |-> One(FALSE, <<o.key>>),
                           authorityKeyIdentifier |-> IF o.issuer = None THEN None
                                                      ELSE One(FALSE, [keyIdentifier |-> Some(<<o.issuer[1].key>>), hasIssuerAndSerial |-> FALSE]),
                           authorityInfoAccess |-> IF o.more = "unread" THEN One(FALSE, 1) ELSE None],
                unrecognisedCritical |-> IF o.more = "critical" THEN <<<<0, 5>>>> ELSE <<>>],
             tbs |-> <<>>],
   signature |-> derFromP1363(<<o.key>>, <<2>>)]

Readable(o) == o.more # "again" /\ Len(Unsigned(o.serial)) <= MAXIMUM_SERIAL_OCTETS

Unread(o) == {i \in DOMAIN issueCertificate(o, 1) : issueCertificate(o, 1)[i] # issueCertificate(o, 2)[i]}

\* A certificate that was issued reads as what it was issued to say, and owes nothing for its
\* place; one with an extension twice, or too long a serial number, does not read at all.  One that lost an end
\* or gained one is refused; and if a byte of it is altered, or something put inside it, it is refused or
\* reads as something else: nothing rides along in it unseen, but for what no one reads.
CertificatesAreRead ==
  LET o == About.issued IN
  /\ ReadHow("certificate", "whole") =>
       IF Readable(o) THEN paper.read.ok /\ Meaning(paper.read) = Meant(o) /\ ~conformanceViolation(Read, Role(o))
       ELSE ~paper.read.ok
  /\ ReadHow("certificate", "cut") \/ ReadHow("certificate", "grown") => ~paper.read.ok
  /\ ReadHow("certificate", "altered") /\ paper.read.ok =>
       \/ Meaning(paper.read) # Meant(o)
       \/ \A i \in DOMAIN paper.bytes \ Unread(o) : paper.bytes[i] = issueCertificate(o, 1)[i]
  /\ ReadHow("certificate", "stuffed") /\ paper.read.ok => Meaning(paper.read) # Meant(o)

FitsScheme(spki, scheme) ==
  /\ scheme \in DOMAIN SCHEME_KEYS /\ spki.algorithm.oid = SCHEME_KEYS[scheme]
  /\ scheme \in DOMAIN SCHEME_CURVE_OIDS =>
       spki.algorithm.parameters # None /\ readOidBytes(spki.algorithm.parameters[1]) = Ok(SCHEME_CURVE_OIDS[scheme])

\* A key the path's validator accepts goes to the handshake's check exactly if it is one that
\* the scheme of the signature may use, though each package reads the key for itself (rejectKey, importLeafKey).
KeysAgree ==
  IsRead("key") =>
    /\ About.how = "whole" => paper.read.ok /\ Read.rejected = About.rejected
    /\ paper.read.ok /\ Read.rejected = "none" => (Read.imports = "imports" <=> FitsScheme(Read.spki, About.scheme))

\* Of a signature both packages read the same two numbers, each at its full width; one too wide is
\* refused by the path's, and no two spellings are read alike.
SignaturesAgree ==
  IsRead("signature") =>
    /\ About.how = "whole" =>
         (Read.path.ok <=> Len(Trimmed(About.r)) <= About.width /\ Len(Trimmed(About.s)) <= About.width)
    /\ About.how = "stuffed" => ~Read.path.ok /\ ~Read.peer.ok
    /\ Read.path.ok =>
         LET Half(i) == SubSeq(Read.path.value, i * About.width + 1, (i + 1) * About.width) IN
         /\ Tail(derFromP1363(Half(0), Half(1))) = Tail(paper.bytes)
         /\ paper.bytes[1] = 48 => Read.peer = Read.path

\* The same name, in small letters, its attributes the other way round.
Respelled(name) ==
  CASE name[1] \in {"dns", "uri"} -> <<name[1], asciiLower(name[2])>>
    [] name[1] = "rfc822" -> <<name[1], <<name[2][1]>> \o asciiLower(Tail(name[2]))>>
    [] name[1] = "directory" -> <<name[1], [i \in DOMAIN name[2] |-> Reverse(name[2][i])]>>
    [] OTHER -> name

\* A name no authority's limit lets by is let by none below it, nor in another spelling, nor when
\* there is less time to compare; and what is in a subtree that is excluded too is not let by.
ConstraintsHold ==
  IsRead("names") =>
    LET now == addSubtrees([permittedLevels |-> <<>>, excluded |-> <<>>], About)
        isLimited == \E i \in DOMAIN About.names : \E base \in Range(About.permitted) : base[1] = About.names[i][1]
    IN  \A a \in {[names |-> About.names, budget |-> MAXIMUM_NAME_COMPARISONS, may |-> IF Read THEN {TRUE} ELSE BOOLEAN,
                  state |-> addSubtrees(now, [permitted |-> About.excluded, excluded |-> About.permitted])],
                 [names |-> [i \in DOMAIN About.names |-> Respelled(About.names[i])], budget |-> MAXIMUM_NAME_COMPARISONS,
                  may |-> {Read}, state |-> now],
                 [names |-> About.names, budget |-> 1000, may |-> IF Read THEN BOOLEAN ELSE {FALSE}, state |-> now],
                 [names |-> About.names, budget |-> 1000, may |-> IF isLimited THEN {TRUE} ELSE BOOLEAN,
                  state |-> [permittedLevels |-> <<About.permitted>>, excluded |-> About.permitted]]} :
          Violates(a.names, a.state, a.budget) \in a.may

\* An address is the same bytes in each of its spellings, and what is none is refused.
AddressesAreOne == IsRead("address") => paper.read = About.says

\* Every anchor of the issuer's name is found, in order, and none of a name that begins alike.
AnchorsAreFound ==
  IsRead("anchors") =>
    [i \in DOMAIN Read |-> Read[i].id] =
    SelectSeq([i \in DOMAIN About.bundle |-> i], LAMBDA i :
      LET c == decodeCertificate(About.bundle[i]) IN c.ok /\ c.value.said.subject.der = About.issuer)

PapersAreRight ==
  /\ TreesAreCanonical /\ ValuesAreCanonical /\ TimesAreReal /\ CertificatesAreRead /\ KeysAgree
  /\ SignaturesAgree /\ ConstraintsHold /\ AddressesAreOne /\ AnchorsAreFound

=============================================================================
