------------------------------ MODULE SubmitPromise ------------------------------
(* What the send machine is promised of one submission: an answer that says yes *)
(* or no is the truth and stays it, and what is taken is what was asked.        *)
VARIABLES asked,    \* the message handed over; never changes
          taken,    \* the messages the server took from this connection
          answer    \* what the submission came to

promise == <<asked, taken, answer>>

Init == taken = <<>> /\ answer = "none"

Take ==
  /\ taken = <<>>
  /\ answer \in {"none", "unconfirmed"}
  /\ taken' = <<asked>>
  /\ UNCHANGED <<asked, answer>>

Answer ==
  /\ answer = "none"
  /\ \/ answer' = "sent" /\ taken # <<>>
     \/ answer' = "refused" /\ taken = <<>>
     \/ answer' = "unconfirmed"
  /\ UNCHANGED <<asked, taken>>

Next == Take \/ Answer
Spec == Init /\ [][Next]_promise
================================================================================
