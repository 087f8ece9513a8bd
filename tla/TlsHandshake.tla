---------------------------- MODULE TlsHandshake ----------------------------
(***************************************************************************)
(* The client's TLS 1.3 handshake: startTls, up to the Finished it sends,  *)
(* with HelloRetryRequest, tickets offered and inherited, and the peer's   *)
(* path searched for by X509Path.                                          *)
(*                                                                         *)
(* Cryptography is symbolic.  A transcript is the sequence of its          *)
(* messages; two ends hold the same traffic keys when they agree on the    *)
(* suite, the group, the PSK and the transcript, which carries both key    *)
(* shares; only a host signs with its own key.  The servers and the        *)
(* network are external: a host follows the protocol, unless the cast says *)
(* that it, or the network, alters a message.                              *)
(***************************************************************************)
EXTENDS X509Path

CONSTANTS
  Casts,          \* who lies, what is opened and who answers, and how far the clock runs
  Hosts,          \* the hosts: their keys, chains, tickets and ways
  Anchors,        \* the trusted roots
  AUTH_AGE,       \* MAX_AUTHENTICATION_AGE_SECONDS, in ticks
  LIFETIME        \* MAX_TICKET_LIFETIME_SECONDS, in ticks

ASSUME SessionAssumption == AUTH_AGE \in Nat /\ LIFETIME \in Nat

VARIABLES
  cast,
  clock,
  store,  \* the session the caller kept
  hs,     \* the client's handshake
  srv,    \* the answering host's side of it
  checked,\* history: when which leaf's signature was verified
  net     \* the messages on their way: up, down

hsVars == <<cast, clock, store, hs, srv, net, search, checked>>

-----------------------------------------------------------------------------
(* Suites, extensions, names. *)

Suites == {"aes128", "aes256"}
HashOf(suite) == IF suite = "aes128" THEN "sha256" ELSE "sha384"

misplacedExtensionAlert(exts, offered, permitted) ==
  First([i \in DOMAIN exts |->
           <<exts[i] \notin (offered \cap permitted),
             IF exts[i] \in offered THEN "illegal_parameter" ELSE "unsupported_extension">>])

InServerHello == {"pre_shared_key", "supported_versions", "key_share"}
InHelloRetryRequest == {"supported_versions", "cookie", "key_share"}
InEncryptedExtensions == {"server_name", "supported_groups"}
InCertificateEntry == {"status_request"}

-----------------------------------------------------------------------------
(* Sessions. *)

NoSession == [ticket |-> "none"]

\* Mutant: the age of the check behind a session has no limit.
MutWithinCeiling(at, now) == now >= at

isWithinAuthenticationCeiling(at, now) == now >= at /\ now - at < AUTH_AGE

\* Mutant: only the host is compared, not the name checked on it.
MutOfferable(s, r, now) ==
  /\ s # NoSession /\ s.server = r.server
  /\ s.receivedAt <= now /\ now - s.receivedAt < s.lifetime
  /\ isWithinAuthenticationCeiling(s.authenticatedAt, now)

isSessionOfferable(s, r, now) ==
  /\ s # NoSession
  /\ s.server = r.server /\ s.expected = r.expected
  /\ s.receivedAt <= now /\ now - s.receivedAt < s.lifetime
  /\ isWithinAuthenticationCeiling(s.authenticatedAt, now)

\* A ticket that could not be used makes no session.
sessionFromTicket(t, h, now) ==
  IF t.lifetime = 0 \/ ~t.fits \/ ~isWithinAuthenticationCeiling(h.authenticatedAt, now)
  THEN NoSession
  ELSE [ticket |-> t.id, server |-> h.request.server, expected |-> h.request.expected,
        suite |-> h.suite, psk |-> <<h.tries, t.id>>, receivedAt |-> now,
        authenticatedAt |-> h.authenticatedAt, chain |-> h.chain,
        lifetime |-> Min({t.lifetime, LIFETIME})]

\* Mutant: a resumption counts as a check of the certificate.
MutInherited(resumed, chain, now) ==
  IF resumed # NoSession THEN [at |-> now, chain |-> resumed.chain] ELSE [at |-> now, chain |-> chain]

\* When the peer's certificate was last verified, and which chain it was.
inheritedAuthentication(resumed, chain, now) ==
  IF resumed # NoSession THEN [at |-> resumed.authenticatedAt, chain |-> resumed.chain]
  ELSE [at |-> now, chain |-> chain]

-----------------------------------------------------------------------------
(* ClientHellos and the transcript. *)

Psk(s) == IF s = NoSession THEN <<>> ELSE s.psk

\* preceding is the transcript the binder covers; tries makes each ClientHello's random its own.
ClientHello(r, group, tries, session, cookie, preceding) ==
  [type |-> "client_hello", name |-> r.server, groups |-> r.groups, group |-> group,
   random |-> tries, cookie |-> cookie,
   ticket |-> session.ticket,
   binder |-> IF session = NoSession THEN <<>> ELSE <<session.psk, preceding, r.groups, group>>]

OfferedExtensions(ch) ==
  {"server_name", "supported_groups", "supported_versions", "key_share"} \cup
  (IF ch.ticket = "none" THEN {} ELSE {"pre_shared_key"})

HashOfHello(ch) == [type |-> "message_hash", of |-> ch]

\* Mutant: the first ClientHello stays as it is.
MutRetried(transcript) == transcript

\* replaceClientHello1WithMessageHash.
Retried(transcript) == [transcript EXCEPT ![1] = HashOfHello(@)]

Keys(suite, group, psk, transcript) ==
  [suite |-> suite, group |-> group, psk |-> psk, over |-> transcript]

NoHandshake ==
  [pc |-> "idle", n |-> 0, tries |-> 0, request |-> <<>>, hello |-> <<>>, transcript |-> <<>>,
   group |-> "none", suite |-> "none", retried |-> FALSE, session |-> NoSession,
   resumed |-> NoSession, key |-> <<>>, seq |-> 0, got |-> {}, asked |-> FALSE, chain |-> <<>>,
   scheme |-> "none", cv |-> <<>>, extensions |-> {}, authenticatedAt |-> 0, at |-> 0, reason |-> "none"]

NoServer == [key |-> <<>>, transcript |-> <<>>, suite |-> "none", group |-> "none",
             resumed |-> FALSE, hellos |-> 0, lied |-> FALSE]

\* The handshake of request r begins, offering session.
Begin(r, n, session) ==
  LET group == r.groups[1]
      ch == ClientHello(r, group, hs.tries + 1, session, FALSE, <<>>) IN
  /\ hs' = [NoHandshake EXCEPT !.pc = "hello", !.n = n, !.tries = hs.tries + 1, !.request = r,
                               !.hello = ch, !.transcript = <<ch>>, !.group = group,
                               !.session = session]
  /\ srv' = NoServer
  /\ net' = [up |-> <<ch>>, down |-> <<>>]
  /\ search' = NoSearch

\* The caller takes the session it kept and offers it once.
Open ==
  /\ hs.pc \in {"idle", "done", "failed"} /\ hs.n < Len(cast.opens)
  /\ LET r == cast.opens[hs.n + 1] IN
     Begin(r, hs.n + 1, IF isSessionOfferable(store, r, clock) THEN store ELSE NoSession)
  /\ store' = NoSession
  /\ UNCHANGED <<cast, clock, checked>>

\* A stored chain that no longer validates: one handshake without the session.
OpenAgain ==
  /\ hs.pc = "failed" /\ hs.reason = "session-stored"
  /\ Begin(hs.request, hs.n, NoSession)
  /\ UNCHANGED <<cast, clock, store, checked>>

-----------------------------------------------------------------------------
(* The answering host, and who may lie. *)

Host == Hosts[hs.request.answeredBy]

AlteredClientHello(ch) ==
  {[ch EXCEPT !.ticket = "none", !.binder = <<>>], [ch EXCEPT !.groups = <<ch.group>>]}

AlteredServerHello(m) ==
  {[m EXCEPT !.hrr = ~@], [m EXCEPT !.odd = TRUE], [m EXCEPT !.glued = TRUE],
   [m EXCEPT !.exts = Append(@, "status_request")], [m EXCEPT !.exts = Append(@, "server_name")],
   [m EXCEPT !.exts = SelectSeq(@, LAMBDA e : e # "supported_versions")],
   [m EXCEPT !.share = ~@], [m EXCEPT !.cookie = ~@, !.exts = Append(@, "cookie")],
   [m EXCEPT !.long = TRUE, !.cookie = TRUE, !.exts = Append(@, "cookie")],
   [m EXCEPT !.identity = 1], [m EXCEPT !.psk = ~@, !.exts = Append(@, "pre_shared_key")]}
  \cup {[m EXCEPT !.suite = s] : s \in Suites \cup {"chacha"}}
  \cup {[m EXCEPT !.group = g] : g \in {"none", "x25519", "secp256r1", "ffdhe"}}

\* A flight altered by the one that signs it: a message dropped, swapped, said twice or wrong.
AlteredFlight(f) ==
  {RemoveAt(f, i) : i \in DOMAIN f}
  \cup {[f EXCEPT ![i] = f[i + 1], ![i + 1] = f[i]] : i \in 1..(Len(f) - 1)}
  \cup {InsertAt(f, i, f[i]) : i \in DOMAIN f}
  \cup {[f EXCEPT ![i].false = TRUE] : i \in DOMAIN f}
  \cup {[f EXCEPT ![i].exts = <<e>>] : i \in DOMAIN f, e \in {"status_request", "key_share", "server_name"}}
  \cup {[f EXCEPT ![i].scheme = "sha1"] : i \in DOMAIN f}
  \cup {[f EXCEPT ![i].glued = TRUE] : i \in DOMAIN f}
  \cup {[f EXCEPT ![i].of = h] : i \in {j \in DOMAIN f : f[j].type = "certificate"}, h \in DOMAIN Hosts}

\* of names the host whose chain a Certificate carries.
Message(type) == [type |-> type, exts |-> <<>>, false |-> FALSE, glued |-> FALSE,
                  scheme |-> Host.scheme, of |-> hs.request.answeredBy, sig |-> <<>>]

\* The flight a host means to send.
Flight(resumed) ==
  IF resumed THEN <<Message("encrypted_extensions"), Message("finished")>>
  ELSE <<Message("encrypted_extensions")>>
       \o (IF Host.asks THEN <<Message("certificate_request")>> ELSE <<>>)
       \o <<Message("certificate"), Message("certificate_verify"), Message("finished")>>

\* Signatures and MACs over what came before; a false one is the chain owner's, of another handshake.
Signed(f, key, transcript) ==
  FoldLeft(LAMBDA done, m :
             Append(done, [m EXCEPT !.sig =
               IF m.false
               THEN <<IF m.type = "finished" THEN <<>> ELSE Hosts[m.of].chain.leaf.key, <<>>>>
               ELSE IF m.type = "certificate_verify" THEN <<Host.key, transcript \o done>>
               ELSE IF m.type = "finished" THEN <<key, transcript \o done>> ELSE <<>>]),
           <<>>, f)

Sealed(f, key) == [i \in DOMAIN f |-> [type |-> "sealed", key |-> key, seq |-> i - 1, message |-> f[i]]]

\* Whether the host still knows the ticket, and so its PSK.
Known(ch) == ch.ticket # "none" /\ ch.binder # <<>> /\ ch.ticket \in Host.tickets

\* long: its cookie is past MAX_ECHOED_COOKIE_BYTES; identity: the PSK it selects of those offered.
ServerHello(ch, hrr, group, psk) ==
  [type |-> "server_hello", hrr |-> hrr, odd |-> FALSE, glued |-> FALSE, share |-> ~hrr,
   group |-> group, suite |-> Host.suite, cookie |-> hrr /\ Host.cookie, long |-> FALSE,
   psk |-> psk, identity |-> 0,
   exts |-> <<"supported_versions">>
            \o (IF group = "none" THEN <<>> ELSE <<"key_share">>)
            \o (IF hrr /\ Host.cookie THEN <<"cookie">> ELSE <<>>)
            \o (IF psk THEN <<"pre_shared_key">> ELSE <<>>)]

MayLie == ~srv.lied

\* What the peer, or the network, makes of what a host means to say.
Said(who, m, altered) == {m} \cup IF cast.liar = who /\ MayLie THEN altered ELSE {}

\* The host reads ch, and answers with a retry, a refusal, or its hello and its flight.
Answer(ch) ==
  LET common == {ch.groups[i] : i \in DOMAIN ch.groups} \cap Host.groups
      before == Append(srv.transcript, ch)
      retry  == srv.hellos = 0 /\ (Host.cookie \/ ch.group \notin Host.groups)
      binds  == ch.ticket = "none" \/ ~Known(ch)
                \/ (ch.binder[2] = srv.transcript /\ ch.binder[3] = ch.groups)
      resume == Known(ch) /\ HashOf(Host.suiteOf[ch.ticket]) = HashOf(Host.suite) IN
  IF common = {} \/ ~binds
  THEN /\ net' = [up |-> <<>>, down |-> << [type |-> "alert"] >>]
       /\ srv' = [srv EXCEPT !.hellos = @ + 1]
  ELSE \E g \in common :
       LET meant == ServerHello(ch, retry, IF retry /\ ch.group \in Host.groups THEN "none"
                                           ELSE IF retry THEN g ELSE ch.group, resume /\ ~retry) IN
       \E sh \in Said("host", meant, AlteredServerHello(meant)) :
       \E heard \in Said("network", sh, AlteredServerHello(sh)) :
       LET after == Append(IF retry THEN <<HashOfHello(before[1])>> ELSE before, sh)
           key   == Keys(sh.suite, sh.group, IF sh.psk /\ Known(ch) THEN ch.binder[1] ELSE <<>>, after)
           flight == Flight(sh.psk) IN
       \E f \in (IF retry THEN {<<>>} ELSE Said("host", flight, IF sh = meant THEN AlteredFlight(flight) ELSE {})) :
         LET signed == Signed(f, key, after) IN
         /\ ~retry => ch.group \in Host.groups
         /\ srv' = [srv EXCEPT !.hellos = @ + 1, !.suite = sh.suite, !.group = sh.group,
                               !.resumed = sh.psk, !.key = key, !.transcript = after \o signed,
                               !.lied = @ \/ sh # meant \/ heard # sh \/ (~retry /\ f # flight)]
         /\ net' = [up |-> <<>>, down |-> <<heard>> \o Sealed(signed, key)]

HostAnswers ==
  /\ net.up # <<>>
  /\ \E ch \in Said("network", Head(net.up), AlteredClientHello(Head(net.up))) : Answer(ch)
  /\ UNCHANGED <<cast, clock, store, hs, search, checked>>

\* The network loses, repeats or reorders what is on its way, or hangs up.
NetworkLies ==
  /\ cast.liar = "network" /\ MayLie /\ net.down # <<>>
  /\ \/ \E i \in DOMAIN net.down : net' = [net EXCEPT !.down = RemoveAt(@, i)]
     \/ \E i \in DOMAIN net.down : net' = [net EXCEPT !.down = InsertAt(@, i, @[i])]
     \/ net' = [net EXCEPT !.down = << [type |-> "eof"] >>]
  /\ srv' = [srv EXCEPT !.lied = TRUE]
  /\ UNCHANGED <<cast, clock, store, hs, search, checked>>

-----------------------------------------------------------------------------
(* The client reads a hello. *)

Failed(reason) ==
  /\ hs' = [hs EXCEPT !.pc = "failed", !.reason = reason, !.at = clock]
  /\ net' = [up |-> <<>>, down |-> <<>>]
  /\ UNCHANGED <<search, checked>>

\* Mutant: the suite of a HelloRetryRequest binds nothing.
MutKeepsSuite(m) == TRUE

\* After a retry, the suite it selected.
KeepsSuite(m) == hs.retried => m.suite = hs.suite

HelloFailure(m) ==
  First(<< <<m.odd, "illegal_parameter">>,
           <<~\E i \in DOMAIN m.exts : m.exts[i] = "supported_versions",
             IF hs.retried THEN "illegal_parameter" ELSE "protocol_version">> >>
        \o << <<misplacedExtensionAlert(m.exts, OfferedExtensions(hs.hello) \cup {"cookie"},
                  IF m.hrr THEN InHelloRetryRequest ELSE InServerHello) # "none",
                "extensions">>,
              <<m.suite \notin Suites, "illegal_parameter">>,
              <<~KeepsSuite(m), "illegal_parameter">> >>)

RetryFailure(m) ==
  First(<< <<hs.retried, "unexpected_message">>,
           <<m.group = "none" /\ ~m.cookie, "illegal_parameter">>,
           <<m.glued, "unexpected_message">>,
           <<m.group # "none" /\ (~(\E i \in DOMAIN hs.request.groups : hs.request.groups[i] = m.group)
                                  \/ m.group = hs.group), "illegal_parameter">>,
           <<m.cookie /\ m.long, "illegal_parameter">> >>)

\* A PSK answer, the share, and nothing buffered behind the hello.
ShareFailure(m) ==
  First(<< <<m.psk /\ hs.session = NoSession, "unsupported_extension">>,
           <<m.psk /\ m.identity # 0, "illegal_parameter">>,
           <<m.psk /\ HashOf(hs.session.suite) # HashOf(m.suite), "illegal_parameter">>,
           <<m.group = "none", IF m.psk THEN "illegal_parameter" ELSE "missing_extension">>,
           <<~m.share \/ m.group # hs.group, "illegal_parameter">>,
           <<m.glued, "unexpected_message">> >>)

TakeRetry(m) ==
  LET session == IF hs.session # NoSession /\ HashOf(hs.session.suite) # HashOf(m.suite)
                 THEN NoSession ELSE hs.session
      group   == IF m.group = "none" THEN hs.group ELSE m.group
      over    == Append(Retried(hs.transcript), m)
      ch      == ClientHello(hs.request, group, hs.tries, session, m.cookie, over) IN
  /\ hs' = [hs EXCEPT !.retried = TRUE, !.suite = m.suite, !.session = session, !.group = group,
                      !.transcript = Append(over, ch)]
  /\ net' = [up |-> <<ch>>, down |-> Tail(net.down)]
  /\ UNCHANGED <<search, checked>>

TakeHello(m) ==
  LET resumed == IF m.psk THEN hs.session ELSE NoSession
      over    == Append(hs.transcript, m) IN
  /\ hs' = [hs EXCEPT !.pc = "flight", !.suite = m.suite, !.resumed = resumed, !.transcript = over,
                      !.key = Keys(m.suite, hs.group, Psk(resumed), over)]
  /\ net' = [net EXCEPT !.down = Tail(@)]
  /\ UNCHANGED <<search, checked>>

ReadHello ==
  /\ hs.pc = "hello" /\ net.down # <<>>
  /\ LET m == Head(net.down) IN
     IF m.type \in {"alert", "eof"} THEN Failed(m.type)
     ELSE IF m.type # "server_hello" THEN Failed("unexpected_message")
     ELSE IF HelloFailure(m) # "none" THEN Failed(HelloFailure(m))
     ELSE IF m.hrr THEN IF RetryFailure(m) # "none" THEN Failed(RetryFailure(m)) ELSE TakeRetry(m)
     ELSE IF ShareFailure(m) # "none" THEN Failed(ShareFailure(m)) ELSE TakeHello(m)
  /\ UNCHANGED <<cast, clock, store, srv>>

-----------------------------------------------------------------------------
(* The client reads the encrypted flight. *)

Awaited ==
  IF "encrypted_extensions" \notin hs.got THEN {"encrypted_extensions"}
  ELSE IF hs.resumed # NoSession THEN {"finished"}
  ELSE IF "certificate" \notin hs.got THEN {"certificate_request", "certificate"}
  ELSE IF "certificate_verify" \notin hs.got THEN {"certificate_verify"} ELSE {"finished"}

FlightFailure(m) ==
  First(<< <<m.type \notin Awaited, "unexpected_message">>,
           <<m.type = "encrypted_extensions"
             /\ misplacedExtensionAlert(m.exts, OfferedExtensions(hs.hello), InEncryptedExtensions) # "none",
             "extensions">>,
           <<m.type = "certificate"
             /\ misplacedExtensionAlert(m.exts, OfferedExtensions(hs.hello), InCertificateEntry) # "none",
             "extensions">>,
           <<m.type = "certificate_verify" /\ m.scheme \notin hs.request.schemes, "illegal_parameter">>,
           <<m.type = "finished" /\ m.sig # <<hs.key, hs.transcript>>, "decrypt_error">>,
           <<m.type = "finished" /\ m.glued, "unexpected_message">> >>)

\* The chain, the name and the instant a validation is asked about.
Asked(chain) ==
  [leaf |-> chain.leaf, intermediates |-> chain.intermediates, anchors |-> Anchors,
   host |-> hs.request.expected, time |-> clock]

\* The client's own end of the flight, its empty certificate and its Finished, is written, and the
\* caller has the connection with its authentication; or the write fails on a broken network.
Complete(h) ==
  LET inherited == inheritedAuthentication(h.resumed, h.chain, clock) IN
  \/ /\ hs' = [h EXCEPT !.pc = "done", !.at = clock, !.authenticatedAt = inherited.at,
                        !.chain = inherited.chain]
     /\ checked' = IF h.resumed = NoSession THEN checked \cup {<<h.chain.leaf, clock>>} ELSE checked
  \/ /\ cast.liar = "network"
     /\ hs' = [h EXCEPT !.pc = "failed", !.at = clock, !.reason = "truncated"]
     /\ UNCHANGED checked

\* The message is taken; a CertificateVerify waits for its path, a Finished may for the stored one.
TakeFlight(m) ==
  LET h == [hs EXCEPT !.seq = @ + 1, !.got = @ \cup {m.type},
                      !.transcript = Append(@, m), !.asked = @ \/ m.type = "certificate_request",
                      !.extensions = @ \cup IF m.type \in {"encrypted_extensions", "certificate"}
                                             THEN {m.exts[i] : i \in DOMAIN m.exts} ELSE {},
                      !.chain = IF m.type = "certificate" THEN Hosts[m.of].chain ELSE @,
                      !.scheme = IF m.type = "certificate_verify" THEN m.scheme ELSE @,
                      !.cv = IF m.type = "certificate_verify" THEN m.sig ELSE @] IN
  CASE m.type = "certificate_verify" ->
         hs' = [h EXCEPT !.pc = "validating"] /\ Validate(Asked(hs.chain)) /\ UNCHANGED checked
    [] m.type = "finished" /\ hs.resumed # NoSession /\ hs.request.reverifyOnResume ->
         hs' = [h EXCEPT !.pc = "reverifying"] /\ Validate(Asked(hs.resumed.chain)) /\ UNCHANGED checked
    [] m.type = "finished" /\ ~(hs.resumed # NoSession /\ hs.request.reverifyOnResume) ->
         Complete(h) /\ UNCHANGED search
    [] OTHER -> hs' = h /\ UNCHANGED <<search, checked>>

ReadFlight ==
  /\ hs.pc = "flight" /\ net.down # <<>>
  /\ LET r == Head(net.down) IN
     IF r.type = "eof" THEN Failed("eof")
     ELSE IF r.type # "sealed" THEN Failed("unexpected_message")
     ELSE IF r.key # hs.key \/ r.seq # hs.seq THEN Failed("bad_record_mac")
     ELSE IF FlightFailure(r.message) # "none" THEN Failed(FlightFailure(r.message))
     ELSE TakeFlight(r.message) /\ net' = [net EXCEPT !.down = Tail(@)]
  /\ UNCHANGED <<cast, clock, store, srv>>

\* The validator at work.
ValidatePath ==
  /\ hs.pc \in {"validating", "reverifying"} /\ SearchStep
  /\ UNCHANGED <<cast, clock, store, hs, srv, net, checked>>

\* Mutant: the signature need not cover this handshake.
MutProvesKey == hs.cv # <<>> /\ hs.cv[1] = hs.chain.leaf.key

\* verifyCertificateVerify, over the transcript up to the Certificate.
ProvesKey == hs.cv = <<hs.chain.leaf.key, Front(hs.transcript)>>

PathValidated ==
  /\ hs.pc \in {"validating", "reverifying"} /\ search.verdict # "none"
  /\ \/ search.verdict # "ok" /\ Failed(IF hs.pc = "reverifying" THEN "session-stored" ELSE search.verdict)
     \/ search.verdict = "ok" /\ hs.pc = "validating" /\ ~ProvesKey /\ Failed("decrypt_error")
     \/ /\ search.verdict = "ok"
        /\ IF hs.pc = "reverifying" THEN Complete(hs)
           ELSE ProvesKey /\ hs' = [hs EXCEPT !.pc = "flight"] /\ UNCHANGED checked
        /\ UNCHANGED <<net, search>>
  /\ UNCHANGED <<cast, clock, store, srv>>

\* The peer hangs up on a client that awaits more.
HangUp ==
  /\ hs.pc \in {"hello", "flight"} /\ net.up = <<>> /\ net.down = <<>>
  /\ Failed("eof")
  /\ UNCHANGED <<cast, clock, store, srv>>

Tick ==
  /\ clock < cast.until /\ hs.pc \in {"idle", "done", "failed"}
  /\ clock' = clock + 1
  /\ UNCHANGED <<cast, store, hs, srv, net, search, checked>>

HandshakeStep ==
  Open \/ OpenAgain \/ HostAnswers \/ NetworkLies \/ ReadHello \/ ReadFlight \/ ValidatePath
  \/ PathValidated \/ HangUp \/ Tick

HandshakeInit ==
  /\ cast \in Casts
  /\ clock = 0 /\ store = NoSession /\ hs = NoHandshake /\ srv = NoServer
  /\ net = [up |-> <<>>, down |-> <<>>] /\ checked = {} /\ search = NoSearch

-----------------------------------------------------------------------------
(***************************************************************************)
(* A completed handshake has authenticated the host it reached: by its     *)
(* signature over this very handshake under a path trusted for the name    *)
(* asked for, or by a ticket only it can know, whose chain was checked for *)
(* that same name, was checked again unless the caller declined, and was   *)
(* last proved by a signature less than AUTH_AGE ago however many tickets  *)
(* have been exchanged for one another since.                              *)
(***************************************************************************)
PeerIsAuthenticated ==
  hs.pc = "done" =>
    /\ matchesPeerName(hs.chain.leaf.names, hs.request.expected)
    /\ Host.key = hs.chain.leaf.key
    /\ hs.resumed = NoSession \/ hs.request.reverifyOnResume
         => /\ search.verdict = "ok" /\ Trusted(search.path, search.world)
            /\ search.world.leaf = hs.chain.leaf
            /\ search.world.host = hs.request.expected /\ search.world.time = hs.at
    /\ hs.resumed # NoSession => hs.resumed.ticket \in Host.tickets
    /\ \E c \in checked : c[1] = hs.chain.leaf /\ hs.at - c[2] < AUTH_AGE

Hellos == SelectSeq(hs.transcript, LAMBDA m : m.type = "client_hello")
Retries == SelectSeq(hs.transcript, LAMBDA m : m.type = "server_hello" /\ m.hrr)

(***************************************************************************)
(* Two ends that complete have had one handshake: the same messages, suite *)
(* and group, the same answer to whether it resumes, and nothing in it     *)
(* that the client did not offer in its last ClientHello, even when the    *)
(* host itself departs from the protocol after a HelloRetryRequest.        *)
(***************************************************************************)
BothAgree ==
  hs.pc = "done" =>
    /\ IsPrefix(hs.transcript, srv.transcript)
    /\ srv.suite = hs.suite /\ srv.group = hs.group
    /\ srv.resumed <=> hs.resumed # NoSession
    /\ LET ch == Last(Hellos) IN
       /\ ch.group = hs.group
       /\ hs.resumed # NoSession => /\ ch.ticket = hs.resumed.ticket
                                    /\ HashOf(hs.resumed.suite) = HashOf(hs.suite)
       /\ hs.extensions \subseteq OfferedExtensions(hs.hello)
    /\ hs.resumed = NoSession => hs.scheme \in hs.request.schemes
    /\ Len(Retries) <= 1
    /\ Retries # <<>> => Retries[1].suite = hs.suite

(***************************************************************************)
(* Who the client completed with is who it asked for, and both have the    *)
(* same handshake behind them.                                             *)
(***************************************************************************)
HandshakeIsAuthentic == PeerIsAuthenticated /\ BothAgree

\* The host has what the client asks for, now.
Compatible ==
  /\ {hs.request.groups[i] : i \in DOMAIN hs.request.groups} \cap Host.groups # {}
  /\ Host.scheme \in hs.request.schemes /\ Host.key = Host.chain.leaf.key
  /\ LET w == [Asked(Host.chain) EXCEPT !.time = hs.at] IN \E path \in Paths(w) : Trusted(path, w)

(***************************************************************************)
(* A host that follows the protocol, over a network that does not lie, is  *)
(* never refused: not after a HelloRetryRequest for another group or for a *)
(* cookie alone, not with a ticket under the hash of another suite, not    *)
(* with a ticket it no longer knows, not one asking for a certificate.     *)
(***************************************************************************)
HonestHostsAreTaken ==
  hs.pc = "failed" /\ cast.liar = "none" /\ Compatible => hs.reason = "session-stored"

=============================================================================
