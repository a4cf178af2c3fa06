----------------------------- MODULE MCCompaction -----------------------------
(***************************************************************************)
(* One file, and calls that read it, edit it, fail and pass, look at git,   *)
(* quote a finding, and plan.                                               *)
(***************************************************************************)
EXTENDS ContextCompaction

MCHears == {"steering", "verified", "notice"}
MCResults == {<<"read">>, <<"edit", "done">>, <<"git">>, <<"fail", "plan">>, <<"pass", "finding", "finding">>}
=============================================================================
