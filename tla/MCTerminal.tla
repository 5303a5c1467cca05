---- MODULE MCTerminal ----
(* Finite instance of Terminal: short lines, and buffers that the longest  *)
(* of them do not fit.                                                     *)
EXTENDS Terminal

MCLines == {<<>>, <<"pins">>, <<"secs">>, <<"q">>, <<"b">>, <<"b", "q">>,
            <<"pins", "q">>, <<"b", "q", "b">>, <<"b", "b", "b", "q">>}
====
