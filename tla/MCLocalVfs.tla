----------------------------- MODULE MCLocalVfs -----------------------------
(* The root and its directory d, mounted where they are, and the file x of *)
(* the root mounted at x.                                                  *)
EXTENDS LocalVfs

Root == <<>>
MCDirs == {Root, <<"d">>}
MCPathnames == {<<"x">>, <<"d">>, <<"d", "x">>, <<"x", "x">>, <<"x", "", "x">>}
MCShared == {<<"x">>, <<"d", "x">>}
MCMountable == {[key |-> Root, handle |-> Root], [key |-> <<"d">>, handle |-> <<"d">>],
    [key |-> <<"x">>, handle |-> <<"x">>]}
=============================================================================
