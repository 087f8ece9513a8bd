----------------------------- MODULE TlsSession -----------------------------
(***************************************************************************)
(* A TLS client over the time of many connections: the handshake, then the *)
(* connection it made, whose tickets the next handshake offers; the path   *)
(* validator asked by itself about the worlds of Worlds; the bytes of the  *)
(* messages, each letter of Letters on its own; and those of certificates  *)
(* and of what is in them, each paper of Papers on its own.                *)
(***************************************************************************)
EXTENDS TlsConnection, TlsMessages, X509Decode

\* A connection is new with its handshake.
Handshake ==
  /\ HandshakeStep /\ UNCHANGED <<letter, paper>>
  /\ IF hs'.tries = hs.tries THEN UNCHANGED connVars
     ELSE conn' = NoConnection /\ peer' = NoPeer /\ wire' = NoWire

\* The validator, asked by itself.
AskPath ==
  /\ hs.pc = "idle" /\ ~search.on /\ cast.asks
  /\ \E w \in Worlds : Validate(w)
  /\ UNCHANGED <<cast, clock, store, hs, srv, net, checked, connVars, letter, paper>>

SearchPath ==
  /\ hs.pc = "idle" /\ SearchStep
  /\ UNCHANGED <<cast, clock, store, hs, srv, net, checked, connVars, letter, paper>>

Connected == ConnectionStep /\ UNCHANGED <<letter, paper>>

\* A letter, by itself.
Correspond == cast.posts /\ LetterStep /\ UNCHANGED <<vars, paper>>

\* A paper, by itself.
Decode == cast.submits /\ PaperStep /\ UNCHANGED <<vars, letter>>

Init ==
  /\ HandshakeInit /\ conn = NoConnection /\ peer = NoPeer /\ wire = NoWire
  /\ letter = NoLetter /\ paper = NoPaper

Next == Handshake \/ Connected \/ AskPath \/ SearchPath \/ Correspond \/ Decode

Spec == Init /\ [][Next]_<<vars, letter, paper>>

\* The wire is in step, from the records that carry a connection (WireInStep) down to the
\* bytes of each message (BytesAreRight).
TheWireIsRight == WireInStep /\ BytesAreRight

\* A chain is trusted for what its certificates say, from the bytes of each (PapersAreRight) up to
\* the path that is found among them (VerdictsAreRight).
CertificatesAreRight == VerdictsAreRight /\ PapersAreRight

=============================================================================
