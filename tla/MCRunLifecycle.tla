---------------------------- MODULE MCRunLifecycle ----------------------------
(***************************************************************************)
(* Batches of one and two calls: a call that fails or is stopped may follow  *)
(* one that wrote.                                                          *)
(***************************************************************************)
EXTENDS RunLifecycle

MCMaxPrompts == [shell |-> 3, acp |-> 2]
MCBatches == {<<"read", "edit">>, <<"shell">>, <<"spawn">>, <<"delegate">>}

\* Enough turns to verify, to be steered, and to edit again.
MCStalePrompts == [shell |-> 2]
MCStaleBatches == {<<"edit", "shell">>}
=============================================================================
