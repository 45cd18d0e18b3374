------------------------ MODULE ExperimentSubmission ------------------------
(***************************************************************************)
(* submit_experiment from the config to the rows: look the config's hash   *)
(* up, validate its first point, expand it into jobs, and insert the       *)
(* experiment, the data rows no earlier experiment has, and the decoding   *)
(* rows.  Requests overlap: every step below ends at an await.             *)
(***************************************************************************)
EXTENDS SweepExpansion

CONSTANTS
  Client,         \* concurrent requests
  Config          \* configs: records of circuit, noise, runner, decoder params

ASSUME ConfigAssumption ==
  Config \subseteq [circuit : Params, noise : Params, runner : Params, decoder : Params]

VARIABLES
  request,        \* request[c]: where the request of client c stands
  config,         \* config[c]: the config it submits
  experiments,    \* rows of experiment_task, by id: the config of each
  data,           \* rows of data_generation_task, by id: the spec of each
  jobs            \* rows of decoding_task: experiment id, data id, decoder point

vars == <<request, config, experiments, data, jobs>>

Init ==
  /\ request = [c \in Client |-> "received"]
  /\ config \in [Client -> Config]
  /\ experiments = <<>>
  /\ data = <<>>
  /\ jobs = <<>>

(* Mutant of Hash: the hash the data rows have, which lacks the decoder.   *)
HashOfData(c) == [a \in DOMAIN c \ {"decoder"} |-> AsDict(c[a])]

(* compute_config_hash sorts the keys: configs that differ in the order of *)
(* their keys have the same hash.                                          *)
Hash(c) == [a \in DOMAIN c |-> AsDict(c[a])]

Known(c) == \E i \in 1..Len(experiments) : Hash(experiments[i]) = Hash(c)

(* The early return: an experiment with the config's hash answers.         *)
LookUp(c) ==
  /\ request[c] = "received"
  /\ request' = [request EXCEPT ![c] = IF Known(config[c]) THEN "existing" ELSE "new"]
  /\ UNCHANGED <<config, experiments, data, jobs>>

(* validate_compatibility builds all four adapters from first points.      *)
Raises(c) == \E a \in DOMAIN c : FirstRaises(c[a])

(* The verdict of the adapters on the first point (CompatibilityError, or  *)
(* a Params model's ValidationError) is left open.                         *)
Validate(c) ==
  /\ request[c] = "new"
  /\ \/ /\ Raises(config[c])
        /\ request' = [request EXCEPT ![c] = "error"]
     \/ /\ ~Raises(config[c])
        /\ \E verdict \in {"refused", "valid"} : request' = [request EXCEPT ![c] = verdict]
  /\ UNCHANGED <<config, experiments, data, jobs>>

(* expand_jobs: circuit, noise and decoder points, the last one fastest.   *)
(* The runner's params are handed on as they are.                          *)
ExpandJobs(c) ==
  LET cps == ExpandParams(c.circuit)
      nps == ExpandParams(c.noise)
      dps == ExpandParams(c.decoder)
      D == Len(dps)
      N == Len(nps)
  IN [k \in 1..(Len(cps) * N * D) |->
       [circuit |-> cps[((k - 1) \div (N * D)) + 1],
        noise |-> nps[(((k - 1) \div D) % N) + 1],
        decoder |-> dps[((k - 1) % D) + 1]]]

DataSpec(c, job) ==
  [circuit |-> job.circuit, noise |-> job.noise, runner |-> AsDict(c.runner)]

(* The specs of a config's jobs, in their order.                           *)
SpecsOf(c) == [k \in DOMAIN ExpandJobs(c) |-> DataSpec(c, ExpandJobs(c)[k])]

(* Mutant of NewData: the rows of earlier experiments are not looked up.   *)
NewDataNotShared(c) == data \o AppendNew(<<>>, SpecsOf(c))

(* The data rows after the insert: those there are, and one for each spec  *)
(* that has none, in the order of the jobs.                                *)
NewData(c) == AppendNew(data, SpecsOf(c))

(* Mutant of RowOf: specs are compared without the noise.                  *)
RowOfAnyNoise(rows, spec) ==
  CHOOSE i \in 1..Len(rows) : rows[i].circuit = spec.circuit /\ rows[i].runner = spec.runner

(* The row a job's spec has: config_hash is unique.                        *)
RowOf(rows, spec) == CHOOSE i \in 1..Len(rows) : rows[i] = spec

(* create_experiment_and_jobs, one transaction from the INSERT of the      *)
(* experiment on.  A row with its hash that came in meanwhile violates the *)
(* UNIQUE index: the request ends in an error and nothing is written.      *)
Create(c) ==
  /\ request[c] = "valid"
  /\ IF Known(config[c])
     THEN /\ request' = [request EXCEPT ![c] = "error"]
          /\ UNCHANGED <<experiments, data, jobs>>
     ELSE LET list == ExpandJobs(config[c])
              rows == NewData(config[c])
          IN /\ request' = [request EXCEPT ![c] = "created"]
             /\ experiments' = Append(experiments, config[c])
             /\ data' = rows
             /\ jobs' = jobs \o [k \in 1..Len(list) |->
                  [experiment |-> Len(experiments) + 1,
                   data |-> RowOf(rows, DataSpec(config[c], list[k])),
                   decoder |-> list[k].decoder]]
  /\ UNCHANGED config

Next == \E c \in Client : LookUp(c) \/ Validate(c) \/ Create(c)

Spec == Init /\ [][Next]_vars

-----------------------------------------------------------------------------
(* Safety                                                                  *)

JobsOf(i) == {k \in 1..Len(jobs) : jobs[k].experiment = i}
JobPoint(k) ==
  [circuit |-> data[jobs[k].data].circuit, noise |-> data[jobs[k].data].noise,
   decoder |-> jobs[k].decoder]

Swept == {"circuit", "noise", "decoder"}
Sound(c) == \A a \in Swept : ReferencePoints(c[a]) # {}

(* The decoding rows of an experiment, followed to their data rows, are    *)
(* the full cartesian product of its sweeps, each combination as often as  *)
(* the lists repeat it, and their data rows carry its runner.              *)
RowsAreTheProduct ==
  \A i \in 1..Len(experiments) :
    LET c == experiments[i]
        size == Size(Axes(c.circuit)) * (Size(Axes(c.noise)) * Size(Axes(c.decoder)))
    IN Sound(c) =>
         /\ {JobPoint(k) : k \in JobsOf(i)} =
              [circuit : ReferencePoints(c.circuit), noise : ReferencePoints(c.noise),
               decoder : ReferencePoints(c.decoder)]
         /\ Cardinality(JobsOf(i)) = size
         /\ \A k \in JobsOf(i) : data[jobs[k].data].runner = AsDict(c.runner)

(* Data is generated once for each spec, however many experiments and jobs *)
(* use it, and never for nothing.                                          *)
DataIsShared ==
  /\ \A i, j \in 1..Len(data) : data[i] = data[j] => i = j
  /\ \A i \in 1..Len(data) : \E k \in 1..Len(jobs) : jobs[k].data = i

(* A request that is answered with an existing experiment gets the jobs    *)
(* its own config stands for, whatever the order of its keys.  Params that *)
(* are not Direct are left out: a chain of formulas depends on the order.  *)
ExistingIsEquivalent ==
  \A c \in Client :
    request[c] = "existing" /\ (\A a \in Swept : Direct(config[c][a])) =>
      \E i \in 1..Len(experiments) :
        {JobPoint(k) : k \in JobsOf(i)} = ToSet(ExpandJobs(config[c]))

(* The point that was validated is the point of the experiment's first     *)
(* job: _first and _expand_params, two loops over the same params, agree   *)
(* wherever no reference goes through another one or sits in a list, and   *)
(* no sweep sits in a list.                                                *)
FirstPointIsFirstJob ==
  \A i \in 1..Len(experiments) :
    \A a \in Swept :
      Direct(experiments[i][a]) /\ Flat(experiments[i][a]) =>
        FirstPoint(experiments[i][a]) = ExpandParams(experiments[i][a])[1]

=============================================================================
