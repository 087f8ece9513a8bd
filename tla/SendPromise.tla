---------------------------- MODULE SendPromise ----------------------------
(***************************************************************************)
(* What a vault promises of the sends of one draft, whoever runs them and  *)
(* however they die: one stage at a time, each message tried under a fresh *)
(* Message-ID, nothing tried after the server's yes is on record, and no   *)
(* stage that claims more than the mail server did.  It says nothing of    *)
(* clients, versions, leases or retries.                                   *)
(***************************************************************************)
CONSTANTS Messages, None

VARIABLES
  stage,  \* [at, msg]: where the draft stands, and the message in play
  tried,  \* the messages ever put in play
  out     \* the messages the mail server took

vars == <<stage, tried, out>>

Stages == {"draft", "trying", "asking", "aside", "sent", "done", "discarded", "purged"}

\* The stages in which the person may be asked whether the message went out.
InQuestion == {"trying", "asking", "aside"}

TypeOK ==
  /\ stage \in [at : Stages, msg : Messages \cup {None}]
  /\ tried \subseteq Messages
  /\ out \subseteq tried

Init ==
  /\ stage = [at |-> "draft", msg |-> None]
  /\ tried = {}
  /\ out = {}

Move(from, to) ==
  /\ stage.at \in from
  /\ stage' = [stage EXCEPT !.at = to]
  /\ UNCHANGED <<tried, out>>

Put(m) ==
  /\ stage.at \in {"draft", "aside"}
  /\ m \notin tried
  /\ stage' = [at |-> "trying", msg |-> m]
  /\ tried' = tried \cup {m}
  /\ UNCHANGED out

TryAgain == Move(InQuestion, "trying")
Ask      == Move({"trying"}, "asking")
PutAside == Move({"trying", "asking"}, "aside")

GiveBack ==
  /\ stage.at = "trying"
  /\ stage' = [at |-> "draft", msg |-> None]
  /\ UNCHANGED <<tried, out>>

Yes   == stage.msg \in out /\ Move({"trying"}, "sent")
File  == Move({"sent"}, "done")
Found == stage.msg \in out /\ Move(InQuestion, "done")

Discard == Move({"draft", "trying"}, "discarded")

Purge ==
  /\ stage.at \in {"done", "discarded"}
  /\ stage' = [at |-> "purged", msg |-> None]
  /\ UNCHANGED <<tried, out>>

Deliver(m) ==
  /\ m \in tried
  /\ out' = out \cup {m}
  /\ UNCHANGED <<stage, tried>>

Next ==
  \/ \E m \in Messages : Put(m) \/ Deliver(m)
  \/ TryAgain \/ Ask \/ PutAside \/ GiveBack
  \/ Yes \/ File \/ Found \/ Discard \/ Purge

Spec == Init /\ [][Next]_vars

=============================================================================
