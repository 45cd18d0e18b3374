-------------------------- MODULE MCCreationWizard --------------------------
(* The registry as the adapters of the repository declare it, reduced to   *)
(* two of each kind, with one adapter a user may add, for TLC.             *)
EXTENDS CreationWizard, TLC

CONSTANTS stim, physical, depolarizing, loss, stim_runner, loss_runner,
          pymatching, monaka, added, null

Both == {stim, physical}

MCCircuitsOf ==
  (pymatching :> {} @@ added :> Both)
    @@ [x \in {depolarizing, loss, stim_runner, loss_runner, monaka} |-> Both]
MCNoisesOf ==
  stim_runner :> {depolarizing} @@ loss_runner :> {loss}
    @@ pymatching :> {} @@ monaka :> {loss} @@ added :> {depolarizing, loss}
MCRunnersOf ==
  pymatching :> {stim_runner} @@ monaka :> {loss_runner} @@ added :> {stim_runner, loss_runner}

MCPropsOf ==
  [x \in Both |-> {"distance", "rounds"}]
    @@ [x \in {depolarizing, loss} |-> {"p"}]
    @@ [x \in {stim_runner, loss_runner} |-> {"shots"}]
    @@ [x \in {monaka, added} |-> {"dem"}]
    @@ pymatching :> {}
NoDefaults == [k \in Key |-> Null]
MCDefaultOf ==
  [x \in {stim_runner, loss_runner} |-> [NoDefaults EXCEPT !["shots"] = ParseInputValue(<<"3">>)]]
    @@ [x \in {monaka, added} |-> [NoDefaults EXCEPT !["dem"] = ParseInputValue(<<"false">>)]]
    @@ [x \in Both \cup {depolarizing, loss, pymatching} |-> NoDefaults]

(* A part of each sort by itself, with a name of the same component and    *)
(* one of another; lists led by a few of them; a comma alone.              *)
MCText ==
  {<<part>> : part \in {"", "3", "linspace(3,7,3)", "1_000", "x", "true", "false",
                        "distance", "rounds", "p"}}
    \cup {<<"3", "3">>, <<"3", "x">>, <<"x", "3">>, <<"rounds", "3">>, <<"", "">>}

MCInitialForm ==
  [sel |-> [circuit |-> stim, noise |-> depolarizing, runner |-> stim_runner,
            decoder |-> pymatching],
   raw |-> [circuit |-> [NoDefaults EXCEPT !["distance"] = <<"3", "3">>,
                                         !["rounds"] = <<"distance">>],
            noise |-> [NoDefaults EXCEPT !["p"] = <<"3", "3">>],
            runner |-> [NoDefaults EXCEPT !["shots"] = <<"3">>],
            decoder |-> NoDefaults]]

=============================================================================
