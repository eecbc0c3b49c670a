-------------------------- MODULE MCUidResolution --------------------------
(* The app's main process, an isolated child, and a process of another app *)
(* whose name begins with that of the first.                               *)
EXTENDS UidResolution

Running ==
  {[package |-> "app",  cmdline |-> "app",       uid |-> 10100],
   [package |-> "app",  cmdline |-> "app:child", uid |-> 90001],
   [package |-> "app2", cmdline |-> "app2",      uid |-> 10200]}
==============================================================================
