----------------------------- MODULE MCStartup ------------------------------
(* Texts of every class: addresses (which begin with a number), ports and  *)
(* what is almost one, spaces and names.                                   *)
EXTENDS Startup

Texts  == {"127.0.0.1", "::1", "6379", "7000x", "65536", "-1", " ", "default", "films"}
Spaces == {" "}
Addresses == {"127.0.0.1", "::1"}
Numbers == [v \in Texts |->
  CASE v = "127.0.0.1" -> 127 [] v = "6379" -> 6379 [] v = "7000x" -> 7000
    [] v = "65536" -> 65536 [] v = "-1" -> -1 [] OTHER -> Throws]

Lines ==
  {[key |-> "host", val |-> "::1"], [key |-> "host", val |-> " "],
   [key |-> "port", val |-> "7000x"], [key |-> "port", val |-> "65536"],
   [key |-> "keyspace", val |-> Nothing], [key |-> "keyspace", val |-> "films"]}

Arguments == {<<>>, <<"::1">>, <<"6379", "-1">>, <<"127.0.0.1", "7000x">>,
              <<"127.0.0.1", "6379", " ">>}
=============================================================================
