------------------------ MODULE MCExperimentBrowser ------------------------
(* An instance of ExperimentBrowser for TLC.                               *)
EXTENDS ExperimentBrowser

=============================================================================
