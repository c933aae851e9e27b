----------------------------- MODULE MCUnixRun -----------------------------
(* Two questions and answers, as in the uart-menu and mqtt-device tasks.   *)
EXTENDS UnixRun

TwoQuestions == <<"delay", "write", "wait", "collect", "write", "wait">>
=============================================================================
