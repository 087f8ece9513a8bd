--------------------------- MODULE MCImapSession ---------------------------
(* ImapSession with casts of two or three calls, each with the server that makes them hard. *)
EXTENDS ImapSession, TLC

Byte == [k |-> "byte"]

\* A body that reads like the protocol: a line, a literal header and an end of line of its own.
AllMessages ==
  1 :> [subject |-> "one", body |-> <<Byte, Mark("cr"), Mark("lf"), Brace(2), Mark("cr"), Mark("lf")>>, names |-> <<"a.pdf">>]
  @@ 2 :> [subject |-> "two", body |-> <<>>, names |-> <<"a.pdf", "b.pdf">>]
  @@ 3 :> [subject |-> "three", body |-> <<Byte, Mark("lf")>>, names |-> <<>>]

Op(op) == [op |-> op]
On(op, uids) == [op |-> op, uids |-> uids]
With(op, lits) == [op |-> op, lits |-> lits]
Select(readOnly) == [op |-> "select", readOnly |-> readOnly]

Plain == [calls |-> <<>>, caps |-> {"UIDPLUS", "MOVE"}, capsAfter |-> {"UIDPLUS", "MOVE"}, tellsCaps |-> TRUE,
          greetings |-> {"OK"}, box |-> 1 :> {} @@ 2 :> {"deleted"}, copyUid |-> "untagged", reversed |-> FALSE,
          events |-> 0, chatty |-> FALSE, expunges |-> FALSE, refuses |-> FALSE, splits |-> FALSE, faults |-> {}]

AllCasts == <<
  \* Bytes cut anywhere, through a literal that holds line ends and a literal header.
  [Plain EXCEPT !.calls = <<On("raws", {1, 2, 3})>>, !.splits = TRUE, !.box = 1 :> {} @@ 3 :> {}],
  \* Reads with changes told before, between and after their answers.
  [Plain EXCEPT !.calls = <<On("summaries", {1, 2}), On("raw", {1})>>, !.events = 2],
  [Plain EXCEPT !.calls = <<On("flags", {1, 2}), On("names", {1, 2})>>, !.events = 2, !.chatty = TRUE],
  [Plain EXCEPT !.calls = <<Select(TRUE), Op("search"), Op("noop")>>, !.events = 2, !.expunges = TRUE],
  [Plain EXCEPT !.calls = <<Select(FALSE), On("store", {1}), On("raw", {3})>>, !.refuses = TRUE, !.events = 1],
  \* idle() with a command behind it, done() at any moment, changes and refusals.
  [Plain EXCEPT !.calls = <<Op("idle"), On("flags", {1})>>, !.events = 2, !.expunges = TRUE, !.refuses = TRUE],
  [Plain EXCEPT !.calls = <<Op("idle"), Op("idle")>>, !.events = 1, !.faults = {"bye", "tag", "plus", "early", "cut"}],
  \* Literals, synchronising or not, and credentials.
  [Plain EXCEPT !.calls = <<With("append", <<3>>), With("search", <<1, 9>>)>>, !.refuses = TRUE, !.events = 1,
                !.caps = {"LITERAL-", "UIDPLUS"}],
  [Plain EXCEPT !.calls = <<With("append", <<9>>), Op("expunge")>>, !.events = 2, !.expunges = TRUE, !.caps = {"LITERAL+"}],
  [Plain EXCEPT !.calls = <<With("authenticate", <<>>), On("uidExpunge", {1, 2})>>, !.tellsCaps = FALSE,
                !.caps = {"AUTH=PLAIN"}, !.capsAfter = {"UIDPLUS"}, !.refuses = TRUE, !.faults = {"cut"}],
  [Plain EXCEPT !.calls = <<With("authenticate", <<>>), On("move", {1})>>, !.caps = {"AUTH=PLAIN", "SASL-IR"},
                !.capsAfter = {"IMAP4REV2"}, !.greetings = {"OK", "PREAUTH", "BYE", "junk"}],
  [Plain EXCEPT !.calls = <<With("authenticate", <<2, 2>>), Op("capability")>>, !.tellsCaps = FALSE, !.caps = {}, !.capsAfter = {"LITERAL+"}],
  [Plain EXCEPT !.calls = <<With("authenticate", <<>>), On("uidExpunge", {2})>>, !.caps = {"LOGINDISABLED"}],
  \* Moves, in each form of COPYUID.
  [Plain EXCEPT !.calls = <<On("move", {1, 2, 3}), On("uidExpunge", {2})>>, !.box = 1 :> {} @@ 2 :> {} @@ 3 :> {}, !.reversed = TRUE, !.events = 1],
  [Plain EXCEPT !.calls = <<On("move", {1, 3})>>, !.box = 1 :> {} @@ 2 :> {} @@ 3 :> {}, !.copyUid = "split", !.events = 1],
  [Plain EXCEPT !.calls = <<On("move", {1, 2})>>, !.copyUid = "tagged", !.events = 1],
  [Plain EXCEPT !.calls = <<On("move", {1}), Op("list"), Op("create")>>, !.copyUid = "none", !.refuses = TRUE],
  \* The end, in every way, under three calls.
  [Plain EXCEPT !.calls = <<Op("logout"), Op("noop"), Op("idle")>>, !.refuses = TRUE, !.faults = {"bye", "cut"}],
  [Plain EXCEPT !.calls = <<On("flags", {1}), With("append", <<9>>), Op("noop")>>,
                !.faults = {"bye", "tag", "plus", "junk", "openQuote", "brace", "cut"}]>>

\* A definition a constant is replaced by is evaluated at every use, one it
\* refers to only once: hence the second names.
MCMessages == AllMessages
MCCasts == AllCasts
=============================================================================
