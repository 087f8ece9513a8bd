---------------------------- MODULE MCTlsSession ----------------------------
(***************************************************************************)
(* Casts for TlsSession: worlds of certificates for the validator; hosts   *)
(* that lie, and networks that do; a farm of hosts over the life of a      *)
(* ticket; connections, a few kinds of records each; and letters, of every *)
(* kind of message, whole, cut, altered, and in records; and papers.       *)
(***************************************************************************)
EXTENDS TlsSession, TLC

com == <<"com">>
a == <<"com", "a">>
b == <<"com", "b">>
xa == <<"com", "a", "x">>
AllNames == {com, a, b, xa, <<"com", "b", "x">>}

Name(base) == [wild |-> FALSE, base |-> base]
Wild(base) == [wild |-> TRUE, base |-> base]

-----------------------------------------------------------------------------
(* Certificates. *)

Ca(subject, issuer, key, signer) ==
  [subject |-> subject, issuer |-> issuer, key |-> key, signer |-> signer, decodes |-> TRUE,
   sound |-> TRUE, keyOk |-> TRUE, from |-> 0, to |-> 9, ca |-> TRUE, certSign |-> TRUE,
   pathLen |-> -1, usage |-> "none", names |-> {}, permitted |-> {}, excluded |-> {},
   distrustAfter |-> 9]

Leaf(issuer, signer, key, names) ==
  [Ca("leaf", issuer, key, signer) EXCEPT !.ca = FALSE, !.certSign = FALSE, !.usage = "server",
                                          !.names = names, !.from = 1]

Root == Ca("root", "root", "kr", "kr")
I1 == Ca("i1", "root", "k1", "kr")
I2 == Ca("i2", "root", "k2", "kr")

\* An intermediate under another, a cross-signature that closes a cycle, a rolled key.
Under == Ca("i1", "i2", "k1", "k2")
Cross == Ca("i2", "i1", "k2", "k1")
Rolled == Ca("i1", "i1", "k1", "k0")
Older == Ca("i1", "root", "k0", "kr")

Intermediates ==
  {I1, I2, Under, Cross, Rolled, Older,
   [I1 EXCEPT !.permitted = {a}], [I2 EXCEPT !.pathLen = 0], [I2 EXCEPT !.pathLen = 2], [Older EXCEPT !.pathLen = 0],
   [Under EXCEPT !.excluded = {xa}], [I1 EXCEPT !.decodes = FALSE]}

Flawed == {[I1 EXCEPT !.to = 1], [I1 EXCEPT !.usage = "client"], [I1 EXCEPT !.signer = "k2"],
           [I1 EXCEPT !.keyOk = FALSE], [I1 EXCEPT !.certSign = FALSE], [I1 EXCEPT !.sound = FALSE],
           [I1 EXCEPT !.ca = FALSE], [I1 EXCEPT !.names = {Name(b)}]}

Leaves == {Leaf("i1", "k1", "kl", {Name(a)}), Leaf("i1", "k1", "kl", {Wild(a), Name(a)}),
           Leaf("i1", "k1", "kl", {Name(a), Name(b)}), Leaf("i2", "k2", "kl", {Name(a)})}

Roots == {{Root}, {[Root EXCEPT !.pathLen = 1]}, {[Root EXCEPT !.permitted = {a, b}, !.excluded = {xa}], I2}}

World(leaf, intermediates, anchors, host) ==
  [leaf |-> leaf, intermediates |-> intermediates, anchors |-> anchors, host |-> host, time |-> 2]

Orders(pool, n) == UNION {[1..k -> pool] : k \in 0..n}

AllWorlds ==
  {World(l, s, r, a) : l \in Leaves, s \in Orders(Intermediates, 2), r \in Roots}
  \cup {World(l, s, r, a) : l \in {Leaf("i1", "k1", "kl", {Name(a)})}, r \in Roots,
                            s \in Orders({I2, Under, Cross, Rolled, Older, [I1 EXCEPT !.decodes = FALSE]}, 3)}
  \cup {World(l, <<i>>, {r}, h) : l \in Leaves, i \in Flawed \cup {I1}, h \in {a, xa, b},
          r \in {Root, [Root EXCEPT !.distrustAfter = 0], [Root EXCEPT !.to = 1], [Root EXCEPT !.usage = "server"],
                 [Root EXCEPT !.excluded = {xa}], [Root EXCEPT !.sound = FALSE]}}
  \cup {World(l, <<I1>>, {Root}, a) :
          l \in {[Leaf("i1", "k1", "kl", {Name(a)}) EXCEPT !.usage = u] : u \in {"none", "any", "client"}}
                \cup {[Leaf("i1", "k1", "kl", {Name(a)}) EXCEPT !.ca = TRUE]}}

-----------------------------------------------------------------------------
(* Hosts. *)

ChainA == [leaf |-> [Leaf("i1", "k1", "ka", {Name(a)}) EXCEPT !.to = 5, !.from = 0], intermediates |-> <<I2, I1>>]
ChainB == [leaf |-> [Leaf("i1", "k1", "kb", {Name(b)}) EXCEPT !.from = 0], intermediates |-> <<I1>>]
\* One key for both names.
ChainAB == [ChainA EXCEPT !.leaf.names = {Name(a), Name(b)}]

HostA == [key |-> "ka", chain |-> ChainA, suite |-> "aes128", groups |-> {"x25519", "secp256r1"},
          cookie |-> FALSE, asks |-> FALSE, scheme |-> "pss", tickets |-> {"t"},
          suiteOf |-> [t |-> "aes128"], issues |-> [id |-> "t", lifetime |-> 9, fits |-> TRUE]]
HostB == [HostA EXCEPT !.key = "kb", !.chain = ChainB, !.tickets = {}]

AllHosts ==
  [named  |-> HostA,
   other  |-> HostB,
   thief  |-> [HostB EXCEPT !.chain = ChainA],
   slow   |-> [HostA EXCEPT !.groups = {"secp256r1"}, !.asks = TRUE],
   cookie |-> [HostA EXCEPT !.cookie = TRUE],
   wide   |-> [HostA EXCEPT !.cookie = TRUE, !.suite = "aes256"],
   forgot |-> [HostA EXCEPT !.tickets = {}],
   short  |-> [HostA EXCEPT !.issues.lifetime = 1],
   renewed |-> [HostA EXCEPT !.chain.leaf.from = 2],
   sharedA |-> [HostA EXCEPT !.chain = ChainA],
   sharedB |-> [HostA EXCEPT !.chain = ChainB, !.key = "kb"]]

R == [server |-> "a", expected |-> a, groups |-> <<"x25519", "secp256r1">>, schemes |-> {"pss"},
      reverifyOnResume |-> TRUE, answeredBy |-> "named"]
To(h) == [R EXCEPT !.answeredBy = h]
Trusting(h) == [To(h) EXCEPT !.reverifyOnResume = FALSE]
ForB(h) == [Trusting(h) EXCEPT !.expected = b]

AllAnchors == {Root}

C == [opens |-> <<>>, liar |-> "none", until |-> 0, asks |-> FALSE,
      most |-> 0, payloads |-> {}, cuts |-> FALSE, calls |-> 0, writes |-> {}, posts |-> FALSE, submits |-> FALSE]

Paths1 == {[C EXCEPT !.asks = TRUE]}

Liars == {[C EXCEPT !.liar = l, !.opens = <<To(h)>>] :
            l \in {"network", "host"}, h \in {"named", "other", "thief", "slow", "cookie"}}

\* A ticket is read, and the next handshake offers it.
Renewals == {[C EXCEPT !.opens = s, !.until = 5, !.most = 1, !.payloads = {<<"ticket">>}] :
               s \in {<<To("named"), To("named"), To("cookie")>>, <<To("slow"), To("slow"), To("wide")>>,
                      <<Trusting("named"), Trusting("named"), Trusting("named"), Trusting("named")>>,
                      <<To("named"), To("forgot"), To("other")>>, <<To("short"), To("renewed"), To("thief")>>,
                      <<Trusting("named"), ForB("named")>>, <<Trusting("named"), ForB("sharedB")>>}}

Taken == [C EXCEPT !.opens = <<To("named")>>]

Connections ==
  {[Taken EXCEPT !.most = 5, !.payloads = p, !.calls = 1, !.writes = {1}] :
     p \in {{<<"data">>, <<"empty">>, <<"user_canceled">>}, {<<"data">>, <<"ticket">>, <<"update">>}}}
  \cup {[Taken EXCEPT !.most = 4, !.payloads = {<<"data">>, <<"half">>, <<"ticket", "half">>, <<"update">>},
                      !.calls = 1, !.writes = {1}]}
  \cup {[Taken EXCEPT !.most = 3, !.payloads = Payloads]}
  \cup {[Taken EXCEPT !.most = 2, !.payloads = {<<"data">>, <<"request">>, <<"other">>, <<"ticket", "request">>},
                      !.calls = 2, !.writes = {0, 2}, !.cuts = c] : c \in BOOLEAN}
  \cup {[Taken EXCEPT !.most = 3, !.payloads = {<<"data">>, <<"close_notify">>, <<"fatal">>}, !.calls = 2,
                      !.writes = {3}, !.cuts = TRUE]}

-----------------------------------------------------------------------------
(* Letters. *)

Random == [i \in 1..RANDOM |-> i]
Lists == {<<"supported_groups", <<29, 23>>>>, <<"signature_algorithms", <<1027>>>>, <<"signature_algorithms_cert", <<>>>>,
          <<"server_name", <<<<97, 98>>>>>>, <<"server_name", <<>>>>, <<"early_data", <<>>>>, <<"early_data", <<0, 0, 1, 0>>>>,
          <<"unknown", <<5, <<1, 2>>>>>>, <<"padding", 3>>}
Identity == <<<<8, 8>>, <<1, 2, 3, 4>>>>
NoBinder == [i \in 1..BINDER |-> 0]
InClientHello == Lists \cup
  {<<"supported_versions", <<"offered", <<772, 771>>>>>>, <<"key_share", <<"shares", <<<<29, <<4>>>>, <<23, <<5, 6>>>>>>>>>>,
   <<"cookie", <<1, 2>>>>, <<"pre_shared_key", <<"offered", <<Identity>>, <<NoBinder>>>>>>, <<"psk_key_exchange_modes", <<1>>>>}
InHello == Lists \cup
  {<<"supported_versions", <<"selected", 772>>>>, <<"key_share", <<"share", <<29, <<4, 5>>>>>>>>,
   <<"cookie", <<1, 2>>>>, <<"pre_shared_key", <<"selected", 0>>>>, <<"psk_key_exchange_modes", <<1>>>>}
InRetry == (InHello \ {<<"key_share", <<"share", <<29, <<4, 5>>>>>>>>}) \cup {<<"key_share", <<"group", 23>>>>}
Anywhere == InClientHello \cup {<<"key_share", <<"group", 23>>>>, <<"supported_versions", <<"selected", 772>>>>}

SH(random, exts) == <<"server_hello", [random |-> random, session |-> <<7>>, suite |-> 4865, compression |-> 0, exts |-> exts]>>
EE(exts) == <<"encrypted_extensions", [exts |-> exts]>>
Request(exts) == <<"certificate_request", [context |-> <<3>>, exts |-> exts]>>
Ticket(exts) == <<"new_session_ticket", [lifetime |-> <<0, 0, 1, 0>>, ageAdd |-> <<255, 1, 2, 3>>, nonce |-> <<1>>,
                                         ticket |-> <<9, 9>>, exts |-> exts]>>
Entry(exts) == [cert |-> <<48, 1>>, exts |-> exts, raw |-> encodeExtensions(exts)]
Cert == <<"certificate", [context |-> <<>>, list |-> <<Entry(<<<<"unknown", <<5, <<1>>>>>>>>), Entry(<<>>)>>]>>
Verify == <<"certificate_verify", [scheme |-> 2052, signature |-> <<1, 2, 3>>]>>
Fin == <<"finished", [verify |-> <<4, 5>>]>>
Update(asks) == <<"key_update", [request |-> asks]>>
EndEarly == <<"end_of_early_data", [empty |-> TRUE]>>

Few(S) == {<<x>> : x \in S} \cup {<<x, y>> : x \in S, y \in {<<"supported_groups", <<29>>>>, <<"cookie", <<4>>>>}}
Messages ==
  {HelloOf(e) : e \in Few(InClientHello) \cup {<<>>}} \cup {SH(Random, e) : e \in Few(InHello)}
  \cup {SH(HRR, e) : e \in Few(InRetry)} \cup {EE(e) : e \in Few(Anywhere)} \cup {Request(<<e>>) : e \in Anywhere}
  \cup {Ticket(<<e>>) : e \in Anywhere} \cup {Cert, Verify, Fin, Update(TRUE), Update(FALSE), EndEarly}

Plain == [says |-> <<>>, how |-> "whole", most |-> 0, chunk |-> 1, hello |-> {}, curve |-> {}]
Bare == [name |-> <<97>>, groups |-> <<29, 23>>, schemes |-> <<1027>>, share |-> <<1, 2>>, cookie |-> <<>>, identity |-> <<>>]
Full == [Bare EXCEPT !.cookie = <<1>>, !.identity = <<8, 8>>]
Hello(o) == HelloOf(Offer(o))
Sound == {Hello(Full), SH(Random, <<<<"supported_versions", <<"selected", 772>>>>, <<"key_share", <<"share", <<29, <<4, 5>>>>>>>>>>),
          SH(HRR, <<<<"cookie", <<1, 2>>>>, <<"key_share", <<"group", 23>>>>>>), EE(<<<<"server_name", <<>>>>, <<"supported_groups", <<29>>>>>>),
          Ticket(<<<<"early_data", <<0, 0, 1, 0>>>>>>), Cert, Verify, Update(TRUE)}

Flights == {<<SH(HRR, <<<<"cookie", <<1, 2>>>>, <<"key_share", <<"group", 23>>>>>>), <<"change_cipher_spec">>,
              SH(Random, <<<<"key_share", <<"share", <<29, <<4, 5>>>>>>>>>>)>>,
            <<Verify, EE(<<<<"padding", 60>>>>), Fin, Verify>>,
            <<Hello(Bare)>>,
            <<EndEarly, Cert, <<"alert", [level |-> "fatal", code |-> 40]>>, Fin>>,
            <<Fin, <<"alert", [level |-> "warning", code |-> 99]>>>>}

AllLetters ==
  {[Plain EXCEPT !.says = <<m>>] : m \in Messages}
  \cup {[Plain EXCEPT !.says = <<m>>, !.how = h] : m \in Sound, h \in {"cut", "grown", "altered"}}
  \cup {[Plain EXCEPT !.says = <<encodeProductionClientHello(h[1])>>, !.how = h[2], !.hello = IF h[2] = "whole" THEN {h[1]} ELSE {}] :
          h \in ({[f EXCEPT !.name = [i \in 1..n |-> 97]] : f \in {Bare, Full}, n \in 1..40} \X {"whole"})
                \cup ({[Full EXCEPT !.name = [i \in 1..n |-> 97]] : n \in {1, 20, 25}} \X {"unbound"})}
  \cup {[Plain EXCEPT !.says = f, !.most = n, !.chunk = c, !.how = h] : f \in Flights, n \in {3, 11, 60}, c \in {1, 6, 500}, h \in {"whole", "cut"}}
  \cup {[Plain EXCEPT !.says = <<Fin>>, !.curve = {c}] :
          c \in {[p |-> 7, g |-> <<0, 1>>, order |-> 5, width |-> 1], [p |-> 7, g |-> <<1, 2>>, order |-> 11, width |-> 2], [p |-> 13, g |-> <<0, 5>>, order |-> 19, width |-> 1],
                 [p |-> 17, g |-> <<1, 1>>, order |-> 23, width |-> 1]}}

Posts == {[C EXCEPT !.posts = TRUE]}

-----------------------------------------------------------------------------
(* Papers. *)

Strings(S, n) == UNION {[1..k -> S] : k \in 0..n}
Fill(n, x) == [i \in 1..n |-> x]
Paper(kind, what) == <<kind, what>>

\* Certificates: an authority, a root, one whose names are limited, and a server's.
ServerPaper ==
  [cn |-> <<97>>, key |-> 5, issuer |-> <<[cn |-> <<98, 97>>, key |-> 6]>>, isCa |-> FALSE, pathLength |-> -1,
   notBefore |-> <<2024, 2, 29, 0, 0, 0>>, notAfter |-> <<2025, 12, 31, 23, 59, 59>>, dnsNames |-> <<<<97, 46, 98>>>>,
   usages |-> <<<<1, 3, 6>>>>, permitted |-> <<>>, excluded |-> <<>>, serial |-> <<5>>, more |-> "none"]
Authority == [ServerPaper EXCEPT !.isCa = TRUE, !.usages = <<>>, !.dnsNames = <<>>, !.pathLength = 1]
SelfMade == [Authority EXCEPT !.issuer = <<>>, !.key = 7, !.pathLength = -1, !.cn = <<97, 98>>]
Limited == [Authority EXCEPT !.permitted = <<<<97>>>>, !.excluded = <<<<98>>, <<>>>>, !.more = "unread"]
Issued == {ServerPaper, Authority, SelfMade, Limited}
Whole509 == Issued \cup {[ServerPaper EXCEPT !.more = m] : m \in {"unread", "again", "critical"}}
            \cup {[ServerPaper EXCEPT !.serial = s] : s \in {<<128>>, <<1, 2, 3, 4>>, <<128, 0, 0, 0>>, <<1, 0, 0, 0, 0>>}}

PapersOfCertificates ==
  {Paper("certificate", [issued |-> i, how |-> "whole"]) : i \in Whole509}
  \cup {Paper("certificate", [issued |-> i, how |-> h]) : i \in {ServerPaper, Limited}, h \in {"cut", "grown", "altered", "stuffed"}}

\* Trees: every short string of bytes at the borders, nested too deep, too many, and long spellings.
Deep[n \in 1..8] == IF n = 1 THEN <<48, 0>> ELSE Tlv(48, Deep[n - 1])
Several(n) == Tlv(48, FlattenSeq(Fill(n, <<5, 0>>)))
Tree(bytes, depth, nodes, how) == Paper("tree", [bytes |-> bytes, depth |-> depth, nodes |-> nodes, how |-> how])

PapersOfTrees ==
  {Tree(s, 0, 0, "whole") : s \in Strings({0, 5, 31, 48, 128, 129, 191}, 4)}
  \cup {Tree(Deep[n], n - 1, n, "whole") : n \in 1..8} \cup {Tree(Several(n), 1, n + 1, "whole") : n \in 88..91}
  \cup {Tree(s, 0, 0, h) : h \in {"altered", "cut", "grown"},
          s \in {<<48, 9, 2, 1, 5, 160, 2, 5, 0, 4, 0>>, <<191, 129, 1, 2, 4, 0>>, <<159, 129, 128, 1, 1, 9>>,
                 <<4, 129, 128>> \o Fill(128, 7), <<36, 0>>, <<4, 130, 1, 0>> \o Fill(256, 7)}}

PapersOfValues ==
  {Paper("value", [bytes |-> <<v[1], Len(v[2])>> \o v[2], how |-> "whole"]) :
     v \in ({1} \X Strings({0, 1, 255}, 2)) \cup ({2} \X Strings({0, 1, 127, 128, 255}, 3))
           \cup ({3} \X Strings({0, 1, 7, 8, 128, 255}, 3)) \cup ({6} \X Strings({1, 42, 120, 128, 129}, 4))}

TextOf(t, isUtc) ==
  (IF isUtc THEN <<>> ELSE Pad(t[1] \div 100)) \o FlattenSeq([i \in 1..6 |-> Pad(t[i] % 100)]) \o <<90>>
TimePaper(t, isUtc, how) ==
  Paper("time", [tag |-> IF isUtc THEN 23 ELSE 24, text |-> TextOf(t, isUtc), date |-> t, how |-> how])

PapersOfTimes ==
  {TimePaper(<<y, m, d, 12, 30, 5>>, TRUE, "whole") : y \in {1950, 1999, 2000, 2024, 2049}, m \in {0, 1, 2, 4, 12, 13}, d \in {0, 1, 28, 29, 30, 31, 32}}
  \cup {TimePaper(<<y, m, d, 12, 30, 5>>, FALSE, "whole") : y \in {1900, 2000, 2050, 2100, 2104}, m \in {1, 2, 12}, d \in {0, 1, 28, 29, 30, 31, 32}}
  \cup {TimePaper(<<2024, 2, 29>> \o c, u, "whole") :
          c \in {<<0, 0, 0>>, <<23, 59, 59>>, <<24, 0, 0>>, <<0, 60, 0>>, <<0, 0, 60>>}, u \in BOOLEAN}
  \cup {TimePaper(<<y, 2, 29, 9, 9, 9>>, u, h) : y \in {2000, 2024}, u \in BOOLEAN, h \in {"altered", "cut", "grown"}}

\* Keys on the curves and on another, of more bits and of fewer, and of kinds no one takes.
KeyPaper(spki, scheme, rejected, how) == Paper("key", [spki |-> spki, scheme |-> scheme, rejected |-> rejected, how |-> how])
Schemes == DOMAIN SCHEME_KEYS \cup {"dsa"}
Strange == <<1, 3, 132, 0, 10>>

PapersOfKeys ==
  {KeyPaper(EcSpki(c, <<1, 2>>), s, IF c = Strange THEN "too-weak" ELSE "none", "whole") :
     c \in CURVES \cup {Strange}, s \in Schemes}
  \cup {KeyPaper(RsaSpki(m), s, IF m[1] >= 128 /\ Len(m) >= 2 THEN "none" ELSE "too-weak", "whole") :
          m \in {<<128, 1>>, <<255>>, <<127, 255, 1>>, <<128, 0, 1>>, <<64, 1>>}, s \in Schemes}
  \cup {KeyPaper(Seq_(<<Seq_(<<oid(k[1])>>), Tlv(3, k[2])>>), s, "unsupported", "whole") :
          k \in {<<ED25519_OID, <<0, 1>>>>, <<EC_PUBLIC_KEY_OID, <<0, 4>>>>}, s \in Schemes}
  \cup {KeyPaper(EcSpki(P256, <<1>>), "ecdsa_secp256r1_sha256", "none", h) : h \in {"altered", "stuffed", "cut"}}
  \cup {KeyPaper(RsaSpki(<<128, 1>>), "rsa_pss_rsae_sha256", "none", h) : h \in {"altered", "stuffed", "cut"}}

PapersOfSignatures ==
  {Paper("signature", [r |-> r, s |-> s, width |-> 2, how |-> h]) :
     r \in {<<0>>, <<128>>, <<1, 2>>, <<1, 0, 0>>}, s \in {<<1>>, <<255, 255>>, <<128, 0, 0>>},
     h \in {"whole", "altered", "cut", "stuffed"}}

\* Names and the limits on them, of each form there is.
Attribute(type, tag, text) == [oid |-> type, value |-> Tlv(tag, text)]
Cn(text) == Attribute(<<2, 5, 4, 3>>, 19, text)
Org(tag, text) == Attribute(<<2, 5, 4, 10>>, tag, text)
Named(form, texts) == {<<form, t>> : t \in texts}
Another == <<"dns", <<"a", ".", "com">>>>

Limits(names, bases) ==
  {Paper("names", [names |-> n, permitted |-> p, excluded |-> x, how |-> "whole"]) :
     n \in {<<m>> : m \in names} \cup {<<m, Another>> : m \in names}, p \in Strings(bases, 2), x \in {<<>>} \cup {<<z>> : z \in bases}}

PapersOfNames ==
  Limits(Named("dns", {<<"a", ".", "COM">>, <<"x", ".", "a", ".", "com">>, <<"*", ".", "a", ".", "com">>, <<"*", ".", "com">>, <<"_", ".", "com">>}),
         Named("dns", {<<>>, <<"com">>, <<"A", ".", "com">>, <<".", "com">>, <<"x", ".", "a", ".", "com">>}))
  \cup Limits(Named("uri", {<<"https://", "a", ".", "COM", "/", "p">>, <<"https://", "b", "@", "x", ".", "a", ".", "com", ":", "p">>,
                            <<"https://", "[", "ip6", "]">>, <<"ftp://", "a", ".", "com">>}),
              Named("uri", {<<".", "com">>, <<"a", ".", "com">>, <<>>}) \cup {<<"dns", <<"com">>>>})
  \cup Limits(Named("rfc822", {<<"a", "@", "a", ".", "com">>, <<"A", "@", "COM">>, <<"b", "@", "x", ".", "a", ".", "com">>, <<"a">>}),
              Named("rfc822", {<<"a", "@", "a", ".", "com">>, <<"com">>, <<".", "com">>, <<>>}))
  \cup Limits(Named("ip", {<<10, 1, 2, 3>>, <<10, 2, 2, 3>>, Fill(16, 1), <<1>>}),
              Named("ip", {<<10, 1, 0, 0, 255, 255, 0, 0>>, <<10, 0, 0, 0, 255, 0, 0, 0>>, Fill(32, 1), <<10>>}))
  \cup Limits(Named("directory", {<<<<Cn(<<97>>)>>>>, <<<<Cn(<<65, 32, 98>>), Org(12, <<98>>)>>>>, <<<<Org(12, <<98>>)>>, <<Cn(<<97>>)>>>>,
                                  <<<<Org(4, <<98>>)>>>>}),
              Named("directory", {<<>>, <<<<Cn(<<65>>)>>>>, <<<<Org(19, <<66>>), Cn(<<32, 97, 32, 32, 66>>)>>>>, <<<<Org(30, <<0, 98>>)>>>>}))
  \cup Limits({<<"other", <<1>>>>}, {<<"other", <<1>>>>, <<"dns", <<"com">>>>})

\* Addresses: words that are nothing and something, each run of nothing written short, the last
\* two as four numbers, and what is none.
Hex(words) == [i \in DOMAIN words |-> <<"hex", words[i]>>]
Parts(bytes) == [i \in DOMAIN bytes |-> [n |-> bytes[i], padded |-> FALSE]]
OctetsOf(words) == FlattenSeq([i \in DOMAIN words |-> <<words[i] \div 256, words[i] % 256>>])
Shortened(w) ==
  {<<SubSeq(w, 1, p[1]), SubSeq(w, p[2], 8)>> :
     p \in {q \in (0..7) \X (2..9) : q[2] >= q[1] + 2 /\ \A i \in (q[1] + 1)..(q[2] - 1) : w[i] = 0}}
Spelled(sections) == [i \in DOMAIN sections |-> Hex(sections[i])]
InNumbers(sections) ==
  LET last == Last(sections) IN
  [Spelled(sections) EXCEPT ![Len(sections)] =
     Hex(SubSeq(last, 1, Len(last) - 2)) \o <<<<"quad", Parts(OctetsOf(SubSeq(last, Len(last) - 1, Len(last))))>>>>]
AddressPaper(text, says) == Paper("address", [text |-> text, says |-> says, how |-> "whole"])

PapersOfAddresses ==
  UNION {{AddressPaper(<<"words", t>>, Ok(OctetsOf(w))) :
            t \in {Spelled(s) : s \in {<<w>>} \cup Shortened(w)}
                  \cup {InNumbers(s) : s \in {z \in {<<w>>} \cup Shortened(w) : Len(Last(z)) >= 2}}} :
           w \in {v \in [1..8 -> {0, 258}] : v[2] = v[3] /\ v[5] = v[6]}}
  \cup {AddressPaper(<<"quad", Parts(q)>>, Ok(q)) : q \in {<<0, 10, 255, 1>>}}
  \cup {AddressPaper(t, NoReading) :
          t \in {<<"quad", Parts(<<1, 2, 3, 256>>)>>, <<"quad", [Parts(<<1, 2, 3, 4>>) EXCEPT ![2].padded = TRUE]>>}
                \cup {<<"words", s>> : s \in {Spelled(<<Fill(n, 1)>>) : n \in {0, 7, 9}}
                                            \cup {Spelled(<<Fill(n, 1), Fill(8 - n, 1)>>) : n \in 0..8}
                                            \cup {Spelled(<<<<1>>, <<2>>, <<3>>>>), <<Hex(Fill(7, 1)) \o <<<<"bad">>>>>>}}}

\* The anchors of a root store, whose names begin alike.
Anchor(cn, key) == issueCertificate([SelfMade EXCEPT !.cn = cn, !.key = key], 1)
PapersOfAnchors ==
  {Paper("anchors", [bundle |-> s, issuer |-> distinguishedName(n), how |-> "whole"]) :
     s \in Strings({Anchor(x[1], x[2]) : x \in {<<<<97, 98>>, 7>>, <<<<97, 99>>, 8>>, <<<<97, 98>>, 9>>}} \cup {<<1, 2>>}, 3),
     n \in {<<97, 98>>, <<97, 99>>, <<99>>}}

AllPapers ==
  PapersOfCertificates \cup PapersOfTrees \cup PapersOfValues \cup PapersOfTimes \cup PapersOfKeys
  \cup PapersOfSignatures \cup PapersOfNames \cup PapersOfAddresses \cup PapersOfAnchors

Read509 == {[C EXCEPT !.submits = TRUE]}
SmallNames == [A |-> "a", COM |-> "com"]

AllCasts == Paths1 \cup Posts \cup Read509 \cup Liars \cup Renewals \cup Connections

\* A definition a constant is replaced by is evaluated at every use, one it
\* refers to only once: hence the second names.
MCWorlds == AllWorlds
MCNames == AllNames
MCCasts == AllCasts
MCHosts == AllHosts
MCAnchors == AllAnchors
MCLetters == AllLetters
MCSmall == SmallNames
MCPapers == AllPapers
=============================================================================
