---------------------- MODULE MCActiveWorkflowManager ----------------------
(* Model-checking instance of ActiveWorkflowManager.                        *)
EXTENDS ActiveWorkflowManager

CONSTANTS w1, w2

MCWorkflows   == {w1, w2}
\* w2 has no start node: every activation of it fails and is retried.
MCStartable   == {w1}
MCHasWebhooks == {w1}
MCHasTriggers == {w1, w2}
\* The REST API toggles w1 only: w2 is the always-failing workflow.
MCUserWorkflows == {w1}
MCOneWorkflow == {w1}
=============================================================================
