------------------------------ MODULE MCSmtpSubmit ------------------------------
EXTENDS SmtpSubmit, TLC

L(dots, text, lf) == [dots |-> dots, text |-> text, lf |-> lf]
Text == L(0, TRUE, TRUE)
Plain == [port |-> "relay", auth |-> {"PLAIN", "LOGIN"}, limit |-> 0, to |-> 1, safe |-> TRUE,
          data |-> <<Dot, Text>>, odd |-> 1]
With(play, more) == more @@ play

AllCasts == <<
  With(Plain, [data |-> <<Text, Text, Text>>]),
  Plain,
  With(Plain, [to |-> 2, data |-> <<L(1, TRUE, TRUE), L(2, FALSE, TRUE), L(1, FALSE, FALSE)>>, odd |-> 0]),
  With(Plain, [auth |-> {"LOGIN"}, to |-> 2, data |-> <<L(0, TRUE, FALSE)>>]),
  With(Plain, [port |-> "direct"]),
  With(Plain, [port |-> "direct", auth |-> {"LOGIN"}, to |-> 2, odd |-> 0]),
  With(Plain, [port |-> "direct", data |-> <<>>, odd |-> 2]),
  With(Plain, [auth |-> {"CRAM"}]),
  With(Plain, [to |-> 0]),
  With(Plain, [limit |-> 1])
>>

\* A definition a constant is replaced by is evaluated at every use, one it
\* refers to only once: hence the second names.
MCCasts == AllCasts
================================================================================
