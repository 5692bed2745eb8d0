----------------------------- MODULE MCSession ------------------------------
(* Instances of Session for TLC: replies that are empty or of one item of  *)
(* text, and replies with a line that ends in END.                         *)
EXTENDS Session

PlainBodies  == {<<>>, <<"text">>}
MarkedBodies == {<<"text">>, <<"text", "END">>}
=============================================================================
