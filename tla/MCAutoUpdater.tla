---------------------------- MODULE MCAutoUpdater ----------------------------
(***************************************************************************)
(* Instances of AutoUpdater for TLC.                                       *)
(***************************************************************************)
EXTENDS AutoUpdater

CONSTANTS u1, u2

TwoFeeds == {u1, u2}
OneFeed  == {u1}
=============================================================================
