---------------------------- MODULE MCStepping ----------------------------
(***************************************************************************)
(* Instances of ProjectedStepping: the runtimes as their workflows drive   *)
(* them, and as a caller of the library may.                               *)
(***************************************************************************)
EXTENDS ProjectedStepping

AllPolicies == {"stateless", "memo", "shielded"}

WorkflowOnly   == {"interrupt"}
LibraryCaller  == {"retry", "interval", "observe"}
Everything     == {"interrupt", "retry", "interval", "observe", "checkpoint",
                   "reset"}
WithReset      == {"reset"}
AnyCheckpoint  == {"checkpoint"}
==========================================================================
