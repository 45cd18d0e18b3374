----------------------- MODULE MCExperimentSubmission -----------------------
(* Configs for TLC: every way a value can be given, references to earlier  *)
(* and later keys, to a formula and to nothing, repeated members, the same *)
(* params in two orders, empty sweeps, and sweeps in a list.               *)
EXTENDS ExperimentSubmission

Value(key, kind, items) == [key |-> key, kind |-> kind, items |-> items]

Circuits == {
  <<Value("distance", "list", <<"3", "5">>), Value("rounds", "str", <<"distance">>)>>,
  <<Value("rounds", "str", <<"distance">>), Value("distance", "list", <<"3", "5">>)>>,
  <<Value("name", "str", <<"surface">>), Value("distance", "num", <<"3">>),
    Value("rounds", "num", <<"3">>)>>,
  <<Value("rounds", "str", <<"d">>), Value("d", "str", <<"distance">>),
    Value("distance", "list", <<"3", "5">>)>>,
  <<Value("distance", "list", <<"3", "3">>), Value("rounds", "space", <<"3", "4">>)>>,
  <<Value("distance", "list", <<>>)>>,
  <<Value("distance", "space", <<>>), Value("rounds", "str", <<"distance">>)>>}
SweepInList == <<Value("p", "list", <<"linspace(1,2,2)", "[1,2]">>)>>
Noises == {<<>>, <<Value("p", "list", <<"1", "2">>)>>, <<Value("p", "num", <<"1">>)>>,
           SweepInList}
Runners == {<<Value("shots", "num", <<"9">>)>>}
Decoders == {<<>>, <<Value("w", "list", <<"1", "2">>)>>}

MCConfig == [circuit : Circuits, noise : Noises, runner : Runners, decoder : Decoders]

MCNumber == {"1", "2", "3", "4", "5", "9"}
MCText == {"name", "surface", "distance", "rounds", "d", "p", "shots", "w"}
MCSweep == {"linspace(1,2,2)", "[1,2]"}
MCFirstOf == [s \in MCSweep |-> "1"]

=============================================================================
