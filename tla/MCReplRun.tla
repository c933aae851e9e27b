----------------------------- MODULE MCReplRun -----------------------------
(* A small instance of ReplRun for TLC. *)
EXTENDS ReplRun

TwoQuestions == <<"write", "A", "delay", "write", "B">>
SourceShows == [first |-> {"A"}, last |-> {"B"}]
OneByte == <<"4", "2">>
=============================================================================
