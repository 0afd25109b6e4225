----------------------------- MODULE MCModuleSDK ----------------------------
(* Two overlapping calls, one job, and windows on every side of Protocol.  *)
EXTENDS ModuleSDK

MCWindows == {[min |-> 0, max |-> 1], [min |-> 1, max |-> 1], [min |-> 2, max |-> 1],
              [min |-> 2, max |-> 3]}
=============================================================================
