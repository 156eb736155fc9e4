------------------------------- MODULE MCText -------------------------------
(* Small instances of CommandText. *)
EXTENDS CommandText, TLC

Names     == <<"a", "b">>
Ids       == {"S1", "S2"}
Passwords == {<<"x">>, <<"y", "z">>, <<"z", "x">>}

Arguments == {<<>>, <<"c">>, <<"c", " ", "c">>, <<"'">>, <<"c", ";">>, <<"/root">>, <<"c", "b">>,
          <<"a">>, <<"S1">>}

Templates == {<<"c", " ", "a">>, <<"c", " ", "a", " ", "b">>, <<"c", "a", "b">>, <<"b", " ", "b">>,
              <<"c", " ", "'", "a", "'">>, <<"c", " ", "a", " ", "S2">>}

Spec1 == [pattern: {"safe", "any"}, default: {Undefined, <<>>, <<"c">>}, max_length: {2},
          allow_shell_chars: BOOLEAN]
Spec2 == [pattern: {"any"}, default: {Undefined}, max_length: {3}, allow_shell_chars: {TRUE}]
NoPattern == [pattern |-> "none", default |-> Undefined, max_length |-> 3, allow_shell_chars |-> FALSE]

MCWhitelist ==
  {[cmd |-> c, params |-> ("a" :> s @@ "b" :> t)] :
     c \in Templates, s \in Spec1 \cup Spec2, t \in Spec2 \cup {NoPattern}}
  \cup {[cmd |-> c, params |-> ("a" :> s)] : c \in Templates, s \in Spec2}
  \cup {[cmd |-> c, params |-> <<>>] :
          c \in {<<"c", " ", "S1", " ", "S2">>, <<"S2", "S1">>, <<"c", "a">>}}
=============================================================================
