------------------------------- MODULE MCIndex -------------------------------
(***************************************************************************)
(* Index for TLC: goroutines that only read, and goroutines that refresh.  *)
(***************************************************************************)
EXTENDS Index, TLC

CONSTANTS reader, refresher, refresher2

OneRefresher == {refresher}
TwoRefreshers == {refresher, refresher2}
OneOfEach == {reader, refresher}
=============================================================================
