--------------------------- MODULE MCWizardLaunch ---------------------------
(* An instance of WizardLaunch for TLC: a form that is complete and one    *)
(* that is not, both refused while a descriptor is missing, as the circuit *)
(* needs a distance.                                                       *)
EXTENDS WizardLaunch

CONSTANTS default, edited, bare1, bare2, whole1, whole2, typed, broken

MCWholeConfig == [f \in Form |-> IF f = default THEN whole1 ELSE whole2]
MCBareConfig == [f \in Form |-> IF f = default THEN bare1 ELSE bare2]

=============================================================================
