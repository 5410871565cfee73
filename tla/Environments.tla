---------------------------- MODULE Environments ----------------------------
(* For TLC: environments where each variable may be unset, empty or set,   *)
(* and file systems where nothing, something, or a file in the way of one  *)
(* of the paths exists.                                                    *)
CONSTANT Unset

SomeSettings == {Unset, <<>>, <<"x", "y">>}
SomeHomes == {Unset, <<>>, <<"home">>}
SomeEntries == {Unset, <<"user">>}
SomeTrees == {[dirs |-> {<<"home">>}, files |-> {}],
              [dirs |-> {<<"home">>}, files |-> {<<"home", ".local">>}],
              [dirs |-> {<<"x">>, <<"user">>}, files |-> {<<"x", "y">>}]}
=============================================================================
