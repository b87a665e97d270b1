-------------------------- MODULE MCNetworkServer --------------------------
(***************************************************************************)
(* Requests of every kind for a small tree: legal ones, one that is too    *)
(* long, one that is no command, one with a bad path and one that lacks    *)
(* its type.                                                               *)
(***************************************************************************)
EXTENDS NetworkServer

A == <<Slash, "a">>
Request(cmd, rest) == <<<<cmd>>, <<"u">>>> \o rest

Reads == {Request("FS_READBLOCK", <<A, <<"0">>>>)}
Writes == {Request("FS_WRITEBLOCK", <<A, <<"0">>>>)}
Creates == {Request("FS_CREATE", <<A>>), Request("FS_CREATE", <<A, <<"f">>>>)}
Deletes == {Request("FS_DELETE", <<A>>)}
Illegal == {Request("FS_WRITEBLOCK", <<<<"a">>, <<"0">>>>), Request("FS_OTHER", <<A>>),
            Request("FS_DELETE", <<[i \in 1 .. MAX_MESSAGE_SIZE |-> Slash]>>)}

AllRequests == Reads \cup Writes \cup Creates \cup Deletes \cup Illegal

EmptyTree == << >> :> FS!Directory(NoUser)
SmallTrees == {EmptyTree, EmptyTree @@ (<<<<"a">>>> :> FS!File(<<"u">>, <<NoData>>))}
=============================================================================
