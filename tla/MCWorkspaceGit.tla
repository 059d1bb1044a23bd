---------------------------- MODULE MCWorkspaceGit ----------------------------
(* An instance of WorkspaceGit for TLC: directories three levels deep, one of *)
(* them ignored.                                                              *)
EXTENDS WorkspaceGit, Composer

SomeDirs == {<<>>, <<"a">>, <<"b">>, <<"a", "b">>, <<"a", "b", "c">>, <<"n">>}
=============================================================================
