------------------------------- MODULE VizTab -------------------------------
(***************************************************************************)
(* One visualization tab: its entry in the persisted store (store.ts), the *)
(* state of the component that shows it (VisualizationTab.tsx), the parse  *)
(* worker of that component (useParquetWorker.ts, parquet.worker.ts), and  *)
(* the imports in flight.                                                  *)
(*                                                                         *)
(* An import is an async function: it downloads, waits for the worker, and *)
(* then adds layers to the tab.  It compares the axes with those the tab   *)
(* had when the component rendered the modal, and it outlives the modal,   *)
(* the component and the tab.                                              *)
(*                                                                         *)
(* The router reuses one component for all visualization tabs, so going    *)
(* to another visualization tab and back neither resets its state nor      *)
(* mounts it again; going elsewhere does.                                  *)
(***************************************************************************)
EXTENDS SweepLayers

CONSTANTS
  Threshold,     \* thresholds the user types
  MaxImports,    \* bound on the imports
  MaxMounts,     \* bound on the component instances
  MaxThresholds, \* bound on the thresholds of a comparison
  MaxEdits,      \* bound on the changes of settings and of the layer order
  LegacyTask,    \* an import kept by an older version of the client
  Null           \* no signature, no import

(* 1 is the threshold of a new comparison.                                 *)
ASSUME TabAssumption ==
  /\ LegacyTask \in SweepTask
  /\ RowsOf[LegacyTask] # <<>>
  /\ 1 \in Threshold
  /\ {MaxMounts, MaxThresholds, MaxEdits, MaxImports} \subseteq Nat

VARIABLES
  tab,      \* the tab's entry in the store, Null once it is closed
  shown,    \* what the router shows: this tab, another one, or no such tab
  inst,     \* the component instances so far; the last one is on screen
  ui,       \* its state: isParsing, importError
  worker,   \* worker[k]: the parse worker of instance k
  imports,  \* imports[s]: the s-th import, Null before it begins and when it is over
  begun,    \* the imports begun so far
  edits,    \* the edits so far
  moved     \* history: an import ended in a tab whose axes had changed meanwhile

vars == <<tab, shown, inst, ui, worker, imports, begun, edits, moved>>

Instance == 1..MaxMounts
Slot == 1..MaxImports

Layer == [id : LayerId, visible : BOOLEAN]
Comparison == [id : LayerId \X LayerId, thresholds : Seq(Threshold), visible : BOOLEAN]
Signature(A) ==
  [axisNames : Seq(Axis), axisValues : [A -> Seq(Value)], axisValueHashes : Seq(Seq(Value))]
Tab(A, B) ==
  [importedSweepTaskIds : Seq(SweepTask), axisSignature : Signature(A) \cup {Null},
   xAxisName : Axis \cup {NoAxis}, yAxisName : Axis \cup {NoAxis},
   sliceValues : [B -> Value], layers : Seq(Layer), comparisons : Seq(Comparison)]
Import(A) ==
  [task : SweepTask, snapshot : Signature(A) \cup {Null}, phase : {"download", "parse", "lost"},
   inst : Instance]

ASSUME NullAssumption ==
  \A A, B \in SUBSET Axis : Null \notin Tab(A, B) \cup Signature(A) \cup Import(A)

ToIds(layers) == [n \in DOMAIN layers |-> layers[n].id]

TypeOK ==
  /\ tab # Null => \E A, B \in SUBSET Axis : tab \in Tab(A, B)
  /\ shown \in {"tab", "other", "elsewhere"}
  /\ inst \in 0..MaxMounts
  /\ ui \in [parsing : BOOLEAN, error : BOOLEAN]
  /\ worker \in [Instance -> {"none", "loading", "ok", "dead"}]
  /\ imports = [s \in Slot |-> imports[s]]
  /\ \A s \in Slot : imports[s] # Null => \E A \in SUBSET Axis : imports[s] \in Import(A)
  /\ begun \in 0..MaxImports
  /\ edits \in 0..MaxEdits
  /\ moved \in BOOLEAN

-----------------------------------------------------------------------------
(* store.ts                                                                *)

NoValues == [a \in {} |-> <<>>]

(* The entries of f, and those of g for what f lacks: f @@ g, spelled out  *)
(* for the provers.                                                        *)
Over(f, g) == [a \in DOMAIN f \cup DOMAIN g |-> IF a \in DOMAIN f THEN f[a] ELSE g[a]]

(* addTab.                                                                 *)
FreshTab ==
  [importedSweepTaskIds |-> <<>>, axisSignature |-> Null,
   xAxisName |-> NoAxis, yAxisName |-> NoAxis, sliceValues |-> NoValues,
   layers |-> <<>>, comparisons |-> <<>>]

(* Mutant of DefaultComparison: the thresholds are left out.               *)
ComparisonWithout(id) == [id |-> id, thresholds |-> <<Null>>, visible |-> TRUE]

(* The setting of a new comparison.                                         *)
DefaultComparison(id) == [id |-> id, thresholds |-> <<1>>, visible |-> TRUE]

(* The pairs of places of a list, as the two nested loops visit them.      *)
Pairs(layers) ==
  LET n == Len(layers) IN FlattenSeq([i \in 1..n |-> [k \in 1..(n - i) |-> <<i, i + k>>]])

(* Mutant of SyncComparisons: comparisons are found by place, not by id.   *)
SyncByPlace(layers, existing) ==
  LET pairs == Pairs(layers) IN
  [n \in DOMAIN pairs |->
     LET id == <<layers[pairs[n][1]].id, layers[pairs[n][2]].id>> IN
     IF n \in DOMAIN existing THEN [existing[n] EXCEPT !.id = id] ELSE DefaultComparison(id)]

(* syncComparisons: a comparison for every two places of the list, the     *)
(* first existing one with its id or a new one.                            *)
SyncComparisons(layers, existing) ==
  LET pairs == Pairs(layers) IN
  [n \in DOMAIN pairs |->
     LET id == <<layers[pairs[n][1]].id, layers[pairs[n][2]].id>>
         found == SelectInSeq(existing, LAMBDA c : c.id = id)
     IN IF found > 0 THEN existing[found] ELSE DefaultComparison(id)]

MultiValueAxes(sig) ==
  Keep(sig.axisNames, {a \in DOMAIN sig.axisValues : Len(sig.axisValues[a]) > 1})

(* The axes a tab without axes gets.                                       *)
DefaultX(sig) ==
  LET axes == MultiValueAxes(sig) \o sig.axisNames IN IF axes = <<>> THEN NoAxis ELSE axes[1]
DefaultY(sig) ==
  LET multi == MultiValueAxes(sig) IN IF Len(multi) > 1 THEN multi[2] ELSE NoAxis

FirstValues(sig) == [a \in ToSet(sig.axisNames) |-> sig.axisValues[a][1]]

(* Mutant of SlicesWith: slices are set for the first import only.         *)
SlicesOnce(t, values) == IF t.sliceValues = NoValues THEN values ELSE t.sliceValues

(* A slice for every axis that has none.                                   *)
SlicesWith(t, values) == Over(t.sliceValues, values)

(* addLayers: the axes and the signature the tab has are kept.             *)
AddLayers(t, newLayers, task, sig) ==
  [importedSweepTaskIds |-> Append(t.importedSweepTaskIds, task),
   axisSignature |-> IF t.axisSignature = Null THEN sig ELSE t.axisSignature,
   xAxisName |-> IF t.xAxisName # NoAxis THEN t.xAxisName ELSE DefaultX(sig),
   yAxisName |-> IF t.yAxisName # NoAxis THEN t.yAxisName ELSE DefaultY(sig),
   sliceValues |-> SlicesWith(t, FirstValues(sig)),
   layers |-> t.layers \o newLayers,
   comparisons |-> SyncComparisons(t.layers \o newLayers, t.comparisons)]

(* Mutant of RemainingTasks: the list of imports is left as it was.        *)
AllTasks(t, remaining) == t.importedSweepTaskIds

(* The task ids of the layers that remain, each once.                      *)
RemainingTasks(t, remaining) ==
  AppendNew(<<>>, [n \in DOMAIN remaining |-> SourceTask(remaining[n].id)])

(* Mutant of RemainingSignature: the axes outlive the last layer.          *)
SameSignature(t, remaining) == t.axisSignature

RemainingSignature(t, remaining) == IF remaining = <<>> THEN Null ELSE t.axisSignature

(* removeLayer: the axes chosen and the slices stay, even when the last    *)
(* layer goes and the signature with it.                                   *)
RemoveLayer(t, id) ==
  LET remaining == Keep(t.layers, {l \in ToSet(t.layers) : l.id # id}) IN
  [t EXCEPT !.layers = remaining,
            !.comparisons = SyncComparisons(remaining, t.comparisons),
            !.importedSweepTaskIds = RemainingTasks(t, remaining),
            !.axisSignature = RemainingSignature(t, remaining)]

(* updateLayer: every layer with the id is updated.                        *)
UpdateLayer(t, id, visible) ==
  [t EXCEPT !.layers = [n \in DOMAIN t.layers |->
     IF t.layers[n].id = id THEN [t.layers[n] EXCEPT !.visible = visible] ELSE t.layers[n]]]

(* reorderLayers: splice out, splice in.                                   *)
ReorderLayers(t, start, end) ==
  LET layers == InsertAt(RemoveAt(t.layers, start), end, t.layers[start]) IN
  [t EXCEPT !.layers = layers, !.comparisons = SyncComparisons(layers, t.comparisons)]

(* updateComparison.                                                       *)
UpdateComparison(t, id, c) ==
  [t EXCEPT !.comparisons = [n \in DOMAIN t.comparisons |->
     IF t.comparisons[n].id = id THEN c ELSE t.comparisons[n]]]

(* syncComparisons of the store, run when the component mounts: it also    *)
(* gives an old entry, whose signature has no values, the values found in  *)
(* its layers, and slices from them.                                       *)
Sync(t) ==
  LET synced == [t EXCEPT !.comparisons = SyncComparisons(t.layers, t.comparisons)]
      sig == t.axisSignature
      points == UNION {ToSet(DataOf[t.layers[n].id]) : n \in DOMAIN t.layers}
      occurring(a) == Ascending({Param(d, a) : d \in points} \ {Undefined})
      values == [a \in ToSet(sig.axisNames) |-> occurring(a)]
  IN IF sig # Null /\ sig.axisValues = NoValues /\ t.layers # <<>>
     THEN [synced EXCEPT !.axisSignature.axisValues = values,
                         !.sliceValues = SlicesWith(t, [a \in DOMAIN values |-> values[a][1]])]
     ELSE synced

(* An entry from before axisValues, slices and comparisons were kept.      *)
LegacyTab ==
  LET sig == SignatureOf[LegacyTask] IN
  [importedSweepTaskIds |-> <<LegacyTask>>,
   axisSignature |-> [sig EXCEPT !.axisValues = NoValues],
   xAxisName |-> DefaultX(sig), yAxisName |-> DefaultY(sig),
   sliceValues |-> NoValues, layers |-> NormalizeSweep(LegacyTask), comparisons |-> <<>>]

-----------------------------------------------------------------------------
(* The router and the component.                                           *)

NoUi == [parsing |-> FALSE, error |-> FALSE]
Mounted == shown # "elsewhere"

Init ==
  /\ tab \in {FreshTab, LegacyTab}
  /\ shown = "elsewhere"
  /\ inst = 0
  /\ ui = NoUi
  /\ worker = [k \in Instance |-> "none"]
  /\ imports = [s \in Slot |-> Null]
  /\ begun = 0
  /\ edits = 0
  /\ moved = FALSE

(* The tab is opened from elsewhere: a new component, and its mount effect.*)
Mount ==
  /\ tab # Null
  /\ ~Mounted
  /\ inst < MaxMounts
  /\ shown' = "tab"
  /\ inst' = inst + 1
  /\ tab' = Sync(tab)
  /\ UNCHANGED <<ui, worker, imports, begun, edits, moved>>

MountOther ==
  /\ ~Mounted
  /\ inst < MaxMounts
  /\ shown' = "other"
  /\ inst' = inst + 1
  /\ UNCHANGED <<tab, ui, worker, imports, begun, edits, moved>>

(* From one visualization tab to another: the component goes on.           *)
Switch ==
  /\ Mounted
  /\ shown = "other" => tab # Null
  /\ shown' = IF shown = "tab" THEN "other" ELSE "tab"
  /\ UNCHANGED <<tab, inst, ui, worker, imports, begun, edits, moved>>

(* To the experiment list or the wizard: the component and its state go;   *)
(* its worker and its imports do not.                                      *)
Unmount ==
  /\ Mounted
  /\ shown' = "elsewhere"
  /\ ui' = NoUi
  /\ UNCHANGED <<tab, inst, worker, imports, begun, edits, moved>>

(* removeTab, and navigation away from it.                                 *)
CloseTab ==
  /\ tab # Null
  /\ tab' = Null
  /\ shown' = IF shown = "tab" THEN "elsewhere" ELSE shown
  /\ ui' = IF shown = "tab" THEN NoUi ELSE ui
  /\ UNCHANGED <<inst, worker, imports, begun, edits, moved>>

(* The page is reloaded: only the store is kept.                           *)
Reload ==
  /\ \E s \in Slot : imports[s] # Null
  /\ shown' = "elsewhere"
  /\ ui' = NoUi
  /\ worker' = [k \in Instance |-> "none"]
  /\ imports' = [s \in Slot |-> Null]
  /\ UNCHANGED <<tab, inst, begun, edits, moved>>

OnTab == shown = "tab" /\ tab # Null

(* The user closes the error message.                                      *)
DismissError ==
  /\ ui.error
  /\ ui' = [ui EXCEPT !.error = FALSE]
  /\ UNCHANGED <<tab, shown, inst, worker, imports, begun, edits, moved>>

-----------------------------------------------------------------------------
(* handleImport                                                            *)

(* The button of the modal is disabled for what the tab has imported, not  *)
(* for what it is importing.                                               *)
Importable(t) == ~Contains(tab.importedSweepTaskIds, t)

(* A choice in the modal, which closes.                                    *)
BeginImport(s, t) ==
  /\ OnTab
  /\ Importable(t)
  /\ begun < MaxImports
  /\ s = begun + 1
  /\ begun' = s
  /\ imports' = [imports EXCEPT ![s] =
       [task |-> t, snapshot |-> tab.axisSignature, phase |-> "download", inst |-> inst]]
  /\ ui' = [parsing |-> TRUE, error |-> FALSE]
  /\ UNCHANGED <<tab, shown, inst, worker, edits, moved>>

(* Mutant of UiAfter: parsing is reset in the success path alone.          *)
UiAfterSuccess(S, failed) ==
  IF Mounted /\ \E s \in S : imports[s].inst = inst
  THEN [ui EXCEPT !.parsing = ui.parsing /\ failed, !.error = ui.error \/ failed] ELSE ui

(* catch and finally of the imports S: the state of a component that is    *)
(* gone is not set.                                                        *)
UiAfter(S, failed) ==
  IF Mounted /\ \E s \in S : imports[s].inst = inst
  THEN [ui EXCEPT !.parsing = FALSE, !.error = ui.error \/ failed] ELSE ui

EndImports(S, failed) ==
  /\ imports' = [s \in Slot |-> IF s \in S THEN Null ELSE imports[s]]
  /\ ui' = UiAfter(S, failed)

InPhase(p) == {s \in Slot : imports[s] # Null /\ imports[s].phase = p}

(* The experiment has no export, or the server cannot be reached.          *)
DownloadFails(s) ==
  /\ s \in InPhase("download")
  /\ EndImports({s}, TRUE)
  /\ UNCHANGED <<tab, shown, inst, worker, begun, edits, moved>>

(* The buffer is posted to the component's worker, which is created by the *)
(* first post and never replaced: one that failed to load answers nothing. *)
Downloaded(s) ==
  LET k == imports[s].inst IN
  /\ s \in InPhase("download")
  /\ worker' = [worker EXCEPT ![k] = IF @ = "none" THEN "loading" ELSE @]
  /\ imports' = [imports EXCEPT ![s].phase = IF worker[k] = "dead" THEN "lost" ELSE "parse"]
  /\ UNCHANGED <<tab, shown, inst, ui, begun, edits, moved>>

WorkerLoads(k) ==
  /\ worker[k] = "loading"
  /\ worker' = [worker EXCEPT ![k] = "ok"]
  /\ UNCHANGED <<tab, shown, inst, ui, imports, begun, edits, moved>>

(* Mutant of PendingOn: an error event ends one promise.                   *)
OnePendingOn(k) ==
  LET pending == {s \in InPhase("parse") : imports[s].inst = k} IN
  IF pending = {} THEN {} ELSE {CHOOSE s \in pending : TRUE}

(* The promises that listen to worker k.                                   *)
PendingOn(k) == {s \in InPhase("parse") : imports[s].inst = k}

(* The error event carries no request id: every pending promise rejects.   *)
WorkerFails(k) ==
  /\ worker[k] = "loading"
  /\ worker' = [worker EXCEPT ![k] = "dead"]
  /\ EndImports(PendingOn(k), TRUE)
  /\ UNCHANGED <<tab, shown, inst, begun, edits, moved>>

ParseFails(s) ==
  /\ s \in InPhase("parse")
  /\ worker[imports[s].inst] = "ok"
  /\ EndImports({s}, TRUE)
  /\ UNCHANGED <<tab, shown, inst, worker, begun, edits, moved>>

Refused(i) ==
  \/ RowsOf[i.task] = <<>>
  \/ i.snapshot # Null /\ ~IsCompatible(i.snapshot, SignatureOf[i.task])

SameAxes(sig1, sig2) ==
  IF Null \in {sig1, sig2} THEN sig1 = sig2 ELSE IsCompatible(sig1, sig2)

(* The rows arrive; the rest of handleImport runs without a pause.  In a   *)
(* tab that was closed meanwhile addLayers finds nothing to change.        *)
Parsed(s) ==
  LET i == imports[s] IN
  /\ s \in InPhase("parse")
  /\ worker[i.inst] = "ok"
  /\ EndImports({s}, Refused(i))
  /\ IF Refused(i) \/ tab = Null THEN UNCHANGED <<tab, moved>>
     ELSE /\ tab' = AddLayers(tab, NormalizeSweep(i.task), i.task, SignatureOf[i.task])
          /\ moved' = (moved \/ ~SameAxes(i.snapshot, tab.axisSignature))
  /\ UNCHANGED <<shown, inst, worker, begun, edits>>

-----------------------------------------------------------------------------
(* The side bar                                                            *)

Edit(newTab) ==
  /\ OnTab
  /\ edits < MaxEdits
  /\ edits' = edits + 1
  /\ tab' = newTab
  /\ UNCHANGED <<shown, inst, ui, worker, imports, begun, moved>>

LayerIds == {tab.layers[n].id : n \in DOMAIN tab.layers}

(* Removing is not counted: there is only so much to remove.               *)
OnRemove(id) ==
  /\ OnTab
  /\ id \in LayerIds
  /\ tab' = RemoveLayer(tab, id)
  /\ UNCHANGED <<shown, inst, ui, worker, imports, begun, edits, moved>>

(* Dragging one layer over another: the places are the first ones of the   *)
(* two ids.                                                                *)
Place(id) == SelectInSeq(tab.layers, LAMBDA l : l.id = id)

DragEnd(active, over) ==
  /\ {active, over} \subseteq LayerIds
  /\ active # over
  /\ Edit(ReorderLayers(tab, Place(active), Place(over)))

ToggleLayer(id) ==
  /\ id \in LayerIds
  /\ Edit(UpdateLayer(tab, id, ~tab.layers[Place(id)].visible))

(* The comparisons the side bar lists: both layers are visible.            *)
ActiveComparisons ==
  {n \in DOMAIN tab.comparisons :
     \A m \in {1, 2} : tab.layers[Place(tab.comparisons[n].id[m])].visible}

AddThreshold(n, v) ==
  LET c == tab.comparisons[n] IN
  /\ Len(c.thresholds) < MaxThresholds
  /\ Edit(UpdateComparison(tab, c.id, [c EXCEPT !.thresholds = Append(@, v)]))

RemoveThreshold(n, index) ==
  LET c == tab.comparisons[n] IN
  /\ index \in DOMAIN c.thresholds
  /\ Edit(UpdateComparison(tab, c.id, [c EXCEPT !.thresholds = RemoveAt(@, index)]))

ToggleComparison(n) ==
  LET c == tab.comparisons[n] IN
  Edit(UpdateComparison(tab, c.id, [c EXCEPT !.visible = ~@]))

(* The options of the selectors: the axes with several values, or any axis *)
(* for x when there is none.                                               *)
XOptions ==
  LET multi == MultiValueAxes(tab.axisSignature) IN
  ToSet(IF multi # <<>> THEN multi ELSE tab.axisSignature.axisNames)
YOptions ==
  LET multi == MultiValueAxes(tab.axisSignature) IN
  IF Len(multi) > 1 THEN ToSet(multi) \cup {NoAxis} ELSE {}
SliceAxes == ToSet(MultiValueAxes(tab.axisSignature)) \ {tab.xAxisName, tab.yAxisName}

SetXAxis(a) == a # tab.xAxisName /\ Edit([tab EXCEPT !.xAxisName = a])
SetYAxis(a) == a # tab.yAxisName /\ Edit([tab EXCEPT !.yAxisName = a])
SetSlice(a, v) ==
  /\ a \in DOMAIN tab.sliceValues => v # tab.sliceValues[a]
  /\ Edit([tab EXCEPT !.sliceValues = Over([b \in {a} |-> v], @)])

EditAxes ==
  /\ OnTab
  /\ tab.axisSignature # Null
  /\ \/ \E a \in XOptions : SetXAxis(a)
     \/ \E a \in YOptions : SetYAxis(a)
     \/ \E a \in SliceAxes : \E v \in ToSet(tab.axisSignature.axisValues[a]) : SetSlice(a, v)

EditLayers ==
  /\ OnTab
  /\ \/ \E id1, id2 \in LayerIds : DragEnd(id1, id2)
     \/ \E id \in LayerIds : ToggleLayer(id) \/ OnRemove(id)
     \/ \E n \in ActiveComparisons :
          \/ \E v \in Threshold : AddThreshold(n, v)
          \/ \E index \in DOMAIN tab.comparisons[n].thresholds : RemoveThreshold(n, index)
          \/ ToggleComparison(n)

ImportStep(s) ==
  \/ DownloadFails(s) \/ Downloaded(s) \/ ParseFails(s) \/ Parsed(s)

Next ==
  \/ Mount \/ MountOther \/ Switch \/ Unmount \/ CloseTab \/ Reload
  \/ DismissError
  \/ \E s \in Slot, t \in SweepTask : BeginImport(s, t)
  \/ \E s \in Slot : ImportStep(s)
  \/ \E k \in Instance : WorkerLoads(k) \/ WorkerFails(k)
  \/ EditLayers
  \/ EditAxes

(* Requests are answered, and a worker loads or fails to.                  *)
Fairness ==
  /\ \A s \in Slot : WF_vars(ImportStep(s))
  /\ \A k \in Instance : WF_vars(WorkerLoads(k) \/ WorkerFails(k))

Spec == Init /\ [][Next]_vars /\ Fairness

-----------------------------------------------------------------------------
(* What the plot shows                                                     *)

VisibleIds == ToIds(Keep(tab.layers, {l \in ToSet(tab.layers) : l.visible}))

ShownData(id) == FilterLayerData(DataOf[id], tab.sliceValues, tab.xAxisName, tab.yAxisName)
GridOf(id) == LayerToGrid(ShownData(id), tab.xAxisName, tab.yAxisName)

(* The four endings of PlotEngine.                                         *)
PlotMode ==
  IF tab.xAxisName = NoAxis \/ VisibleIds = <<>> THEN "message"
  ELSE IF tab.yAxisName = NoAxis THEN "lines"
  ELSE IF Len(VisibleIds) = 1 THEN "heatmap" ELSE "comparison"

(* The comparisons drawn as contours.                                      *)
DrawnComparisons ==
  {n \in DOMAIN tab.comparisons :
     tab.comparisons[n].visible /\ ToSet(tab.comparisons[n].id) \subseteq ToSet(VisibleIds)}

(* Layer id has a point for every combination of its axis values.          *)
IsComplete ==
  [id \in LayerId |->
     LET sig == SignatureOf[SourceTask(id)]
         values(a) == ToSet(sig.axisValues[a])
         names == ToSet(sig.axisNames)
     IN \A f \in [names -> UNION {values(a) : a \in names}] :
          (\A a \in names : f[a] \in values(a)) =>
             \E d \in ToSet(DataOf[id]) : d.params = f]

-----------------------------------------------------------------------------
(* Safety                                                                  *)

(* The comparison list is a table of settings by pair of layers, whatever  *)
(* the order of imports, removals, moves and edits (syncComparisons).      *)
PairIds(layers) == {<<layers[p[1]].id, layers[p[2]].id>> : p \in ToSet(Pairs(layers))}
SettingOf(c) == [thresholds |-> c.thresholds, visible |-> c.visible]
DefaultSetting == [thresholds |-> <<1>>, visible |-> TRUE]
SettingsIn(t) ==
  [p \in PairIds(t.layers) |->
     LET found == SelectInSeq(t.comparisons, LAMBDA c : c.id = p) IN
     IF found > 0 THEN SettingOf(t.comparisons[found])
     ELSE IF t.comparisons = <<>> THEN DefaultSetting ELSE Null]
Settings == IF tab = Null THEN NoValues ELSE SettingsIn(tab)

Table == INSTANCE PairTable WITH
  Id <- LayerId,
  Setting <- [thresholds : Seq(Threshold), visible : BOOLEAN],
  Default <- DefaultSetting,
  order <- IF tab = Null THEN <<>> ELSE ToIds(tab.layers),
  setting <- Settings

ComparisonsAreATable == Table!Spec

(* The experiments whose import button is disabled are those the tab has   *)
(* layers of: nothing that was removed is barred, nothing shown is offered.*)
ImportedMatchesLayers ==
  tab # Null =>
    ToSet(tab.importedSweepTaskIds) = {SourceTask(id) : id \in ToSet(ToIds(tab.layers))}

(* All layers of a tab have the axes of its signature, unless an import    *)
(* ended in a tab whose axes changed while it ran; and the axes are        *)
(* forgotten with the last layer.                                          *)
LayersShareAxes ==
  tab # Null =>
    /\ tab.axisSignature = Null <=> tab.layers = <<>>
    /\ ~moved => \A id \in ToSet(ToIds(tab.layers)) :
                   IsCompatible(tab.axisSignature, SignatureOf[SourceTask(id)])

(* An entry of an older version is repaired when the component mounts on   *)
(* it, not when the router switches a mounted one to it.                   *)
Repaired == tab # Null /\ tab.axisSignature # Null /\ tab.axisSignature.axisValues # NoValues

(* What is plotted of a layer is a function of the axes: no two of its     *)
(* points fall in one cell, where the last would silently win.             *)
CellsAreDistinct ==
  Repaired =>
    \A id \in ToSet(VisibleIds) :
      LET data == ShownData(id)
          cell(d) == <<Param(d, tab.xAxisName), Param(d, tab.yAxisName)>>
      IN \A n, m \in DOMAIN data : n # m => cell(data[n]) # cell(data[m])

(* A drawn ratio divides rates at the same parameters, although the grids  *)
(* are matched by position: true of layers without holes and of one        *)
(* signature, on two different axes.                                       *)
RatioAligned ==
  Repaired /\ ~moved /\ PlotMode = "comparison" =>
    \A n \in DrawnComparisons :
      LET a == tab.comparisons[n].id[1]
          b == tab.comparisons[n].id[2]
          gridA == GridOf(a)
          gridB == GridOf(b)
          ratio == RatioGrid(gridA, gridB)
          at(id, vx, vy) ==
            CHOOSE d \in ToSet(ShownData(id)) :
              Param(d, tab.xAxisName) = vx /\ Param(d, tab.yAxisName) = vy
      IN IsComplete[a] /\ IsComplete[b] =>
           /\ Comparable(gridA, gridB)
           /\ \A j \in DOMAIN ratio.x, i \in DOMAIN ratio.y :
                tab.xAxisName # tab.yAxisName =>
                ratio.z[i][j] = LogRatio(at(a, ratio.x[j], ratio.y[i]).lepr,
                                         at(b, ratio.x[j], ratio.y[i]).lepr)

(* The colours of the two-layer heatmap cover what it shows: every drawn   *)
(* cell is a number between zmin and zmax or has no data.                  *)
ColoursCoverRatios ==
  tab # Null /\ PlotMode = "comparison" /\ Len(VisibleIds) = 2 =>
    LET gridA == GridOf(VisibleIds[1])
        gridB == GridOf(VisibleIds[2])
        map == Heatmap(RatioGrid(gridA, gridB))
        cells == ToSet(Flat(map.z)) \ {NaN}
    IN Comparable(gridA, gridB) /\ (\E v \in cells : IsFinite(v)) =>
         \A v \in cells : IsFinite(v) /\ map.zmin <= v /\ v <= map.zmax

(* The import indicator is on only while an import of the component on     *)
(* screen is running.                                                      *)
ParsingMeansWork ==
  ui.parsing => Mounted /\ \E s \in Slot : imports[s] # Null /\ imports[s].inst = inst

-----------------------------------------------------------------------------
(* Liveness                                                                *)

(* Every import ends, whether its file, its worker or its rows fail; only  *)
(* what is posted to a worker that has already failed is lost.             *)
ImportEnds ==
  \A s \in Slot : s \in InPhase("download") \cup InPhase("parse")
                  ~> s \notin InPhase("download") \cup InPhase("parse")

=============================================================================
