-------------------------- MODULE MCWorkspaceFiles --------------------------
(* WorkspaceFiles with one tab: a request that opens or saves a file, beside *)
(* one of any other kind, over two files.                                    *)
EXTENDS WorkspaceFiles, PathResolver

CONSTANTS c1, t1, s1, s2

TwoFiles == {<<"f">>, <<"g">>}

SavesBesideAll ==
    [s \in Slots |-> IF s = s1 THEN {"open", "save"}
                     ELSE {"open", "create", "rename", "delete"}]
=============================================================================
