----------------------------- MODULE MCComposer -----------------------------
(* Casts for the composer: who acts, and how much of each.                  *)
EXTENDS Composer

AllKeys == 1..3

Quiet == [acts |-> {}, intents |-> {0}, opens |-> 1, texts |-> 2, sends |-> 0, others |-> 0,
          faults |-> 0, row |-> "none"]

\* A Send and a discard on a failing network; another device on the open draft; a lock under
\* everything; the agent and a second opening; a reload that restores the device's copy while
\* another device writes.
AllCasts == {
  [Quiet EXCEPT !.acts = {"discard"}, !.sends = 1, !.faults = 1, !.texts = 3],
  [Quiet EXCEPT !.sends = 1, !.opens = 2],
  [Quiet EXCEPT !.acts = {"other", "discard"}, !.intents = {1}, !.sends = 1, !.others = 2,
                !.row = "live"],
  [Quiet EXCEPT !.acts = {"other", "discard"}, !.intents = {1}, !.sends = 1, !.others = 2,
                !.row = "sending"],
  [Quiet EXCEPT !.acts = {"lock"}, !.sends = 1, !.faults = 1],
  [Quiet EXCEPT !.acts = {"agent", "discard", "switch"}, !.intents = {0, 1}, !.row = "live"],
  [Quiet EXCEPT !.acts = {"reload", "other"}, !.opens = 2, !.texts = 1, !.others = 1],
  [Quiet EXCEPT !.acts = {"reload"}, !.texts = 1, !.faults = 1, !.opens = 2],
  [Quiet EXCEPT !.acts = {"agent", "other"}, !.intents = {1}, !.others = 1, !.row = "live"],
  [Quiet EXCEPT !.acts = {"other", "lock"}, !.intents = {1}, !.opens = 2, !.others = 1,
                !.row = "live"]
}

\* One draft closed and opened again, and nobody else.
AllCastsReopen == {[Quiet EXCEPT !.intents = {1}, !.opens = 2, !.texts = 1, !.row = "live"]}

\* A definition a constant is replaced by is evaluated at every use, one it
\* refers to only once: hence the second names.
MCCasts == AllCasts
MCCastsReopen == AllCastsReopen
MCKeys == AllKeys
=============================================================================
