--------------------------- MODULE Compatibility ---------------------------
(***************************************************************************)
(* Which adapters go together, as the two places of the code that decide   *)
(* it see it: the listing the creation wizard filters by (server/services/ *)
(* registry.py) and the validator every config passes (core/validator.py). *)
(* Both read the sets the adapter classes declare (core/base.py).          *)
(***************************************************************************)

CONSTANTS
  Circuit, Noise, Runner, Decoder,  \* the names in the four registries
  CircuitsOf,                       \* compatible_circuit_constructors
  NoisesOf,                         \* compatible_noise_models
  RunnersOf                         \* compatible_runners

(* A class that declares no set inherits the empty one.                    *)
ASSUME RegistryAssumption ==
  /\ CircuitsOf \in [Noise \cup Runner \cup Decoder -> SUBSET Circuit]
  /\ NoisesOf \in [Runner \cup Decoder -> SUBSET Noise]
  /\ RunnersOf \in [Decoder -> SUBSET Runner]

Selection == [circuit : Circuit, noise : Noise, runner : Runner, decoder : Decoder]

-----------------------------------------------------------------------------
(* services/registry.py                                                    *)

(* A filter that is given keeps the components whose list holds it; the    *)
(* attribute is inherited, so the list is there even when it is empty.     *)
Passes(compatible, given) == given \in compatible

ListedNoises(s) == {n \in Noise : Passes(CircuitsOf[n], s.circuit)}

(* Mutant of ListedRunners: the noise filter is not applied.               *)
ListedRunnersOfAnyNoise(s) == {r \in Runner : Passes(CircuitsOf[r], s.circuit)}

ListedRunners(s) ==
  {r \in Runner : Passes(CircuitsOf[r], s.circuit) /\ Passes(NoisesOf[r], s.noise)}

ListedDecoders(s) ==
  {d \in Decoder : /\ Passes(CircuitsOf[d], s.circuit)
                   /\ Passes(NoisesOf[d], s.noise)
                   /\ Passes(RunnersOf[d], s.runner)}

-----------------------------------------------------------------------------
(* core/validator.py                                                       *)

(* _check: the empty set accepts anything.                                 *)
Accepts(compatible, candidate) == compatible = {} \/ candidate \in compatible

(* Mutant of Validate: the runner's noise models are not checked.          *)
ValidateAnyNoise(s) ==
  /\ Accepts(CircuitsOf[s.noise], s.circuit)
  /\ Accepts(CircuitsOf[s.runner], s.circuit)
  /\ Accepts(CircuitsOf[s.decoder], s.circuit)
  /\ Accepts(NoisesOf[s.decoder], s.noise)
  /\ Accepts(RunnersOf[s.decoder], s.runner)

Validate(s) ==
  /\ Accepts(CircuitsOf[s.noise], s.circuit)
  /\ Accepts(CircuitsOf[s.runner], s.circuit)
  /\ Accepts(NoisesOf[s.runner], s.noise)
  /\ Accepts(CircuitsOf[s.decoder], s.circuit)
  /\ Accepts(NoisesOf[s.decoder], s.noise)
  /\ Accepts(RunnersOf[s.decoder], s.runner)

=============================================================================
