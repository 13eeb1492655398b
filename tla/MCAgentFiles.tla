----------------------------- MODULE MCAgentFiles -----------------------------
EXTENDS Workspace, TLC

CONSTANTS u1, u2, old

MCUsers == {u1, u2}
MCRequests == {u1, u2} \X {1, 2}
MCTempName == [r \in MCRequests |->
  IF r = <<u1, 1>> THEN "t1" ELSE IF r = <<u1, 2>> THEN "t2" ELSE IF r = <<u2, 1>> THEN "t3" ELSE "t4"]
A == <<"d", "a">>
MCTree == (<<>> :> 0) @@ (<<"d">> :> 0) @@ (A :> 1)
E == <<"e", "a">>
Named == {<<"d">>, A, <<"e">>}
MCPaths == Named \cup {<<>>, E}

\* Of what Arrive allows, the requests whose interleavings differ.
MCArrive(u) ==
  \/ \E p \in {<<>>, <<"d">>} : ChatWorkspaceTree(u, p)
  \/ ChatWorkspaceFile(u, A) \/ DownloadChatWorkspaceFile(u, <<"e">>)
  \/ \E p \in Named : DeleteChatWorkspacePath(u, p)
  \/ \E p \in {A, E}, b \in BOOLEAN : UploadChatWorkspaceFile(u, p, b)
  \/ \E p \in {A, E}, b \in BOOLEAN : SaveChatWorkspaceFile(u, p, b, TRUE)
  \/ \E p \in {<<"e">>, E}, b \in BOOLEAN : CreateChatWorkspaceDirectory(u, p, b)
  \/ \E p \in Named, q \in {<<"d">>, <<"e">>, E} :
       CopyChatWorkspacePath(u, p, q) \/ RenameChatWorkspacePath(u, p, q)
  \/ WriteRevision(u, A)

Finished == (\A u \in Users : console[u].pc = "done") /\ UNCHANGED wvars

FilesNext ==
  \/ \E u \in Users : MCArrive(u) \/ WorkspaceNext(u)
  \/ \E r \in Requests : Serve(r) /\ UNCHANGED <<console, current>>
  \/ Finished

FilesSpec == WInit /\ [][FilesNext]_wvars
=============================================================================
