--------------------- MODULE AlgebraicRepresentations ---------------------
(***************************************************************************)
(* The algebraic part of the executable-model runtime: before each explicit *)
(* right-hand side the systems are solved in order, their outputs kept as  *)
(* spectra and, eagerly or on demand, as physical tensors; pairs of the    *)
(* two are reused within one generation.  Around it, the step, the         *)
(* observation, the restore and the reset that ask for an evaluation, and  *)
(* the failures that break it off.                                         *)
(*                                                                         *)
(* A tensor is an identity; the heap holds its version, which in-place     *)
(* writes raise, and its content, the component and the evolved state      *)
(* (epoch) it is of.  A system has one output.  The packed storage of      *)
(* outputs, which only makes lookups miss more often, and the batching of  *)
(* transforms are left out.                                                *)
(***************************************************************************)
EXTENDS Naturals, Sequences, FiniteSets

CONSTANTS
    Evolved,        \* the evolved components
    Outputs,        \* the outputs, in the order the systems are solved
    Reads,          \* the dependencies of each
    Stored,         \* the outputs the fields store; the others are transient
    MaxEpoch,       \* bound on the changes of the evolved state
    MaxGenerations, \* bound on the evaluations completed
    MaxWrites,      \* bound on in-place writes by solvers
    MaxFaults       \* bound on failures

Produced  == {Outputs[i] : i \in 1..Len(Outputs)}
Transient == Produced \ Stored

ASSUME RepresentationAssumption ==
    /\ Outputs \in Seq(STRING) /\ Evolved \subseteq STRING
    /\ \A i, j \in 1..Len(Outputs) : Outputs[i] = Outputs[j] => i = j
    /\ Evolved \cap Produced = {} /\ "temp" \notin Evolved \cup Produced
    /\ \A i \in 1..Len(Outputs) :
          Reads[Outputs[i]] \subseteq Evolved \cup {Outputs[j] : j \in 1..i-1}
    /\ Stored \subseteq Produced /\ Stored # {}
    /\ {MaxEpoch, MaxGenerations, MaxWrites, MaxFaults} \subseteq Nat

VARIABLES
    mode,           \* AlgebraicExecutionMode
    epoch,          \* which evolved state the fields hold
    heap,           \* the tensors: version and content
    pairs, open,    \* the representation cache, and whether it is active
    physicals,      \* the physical tensors of the evaluation, by component
    spectra,        \* its spectra
    lazyState,      \* an AlgebraicGenerationState is current
    transients,     \* _transient_cache: "none", a "view" or a "mapping"
    mapped,         \* the epochs of the tensors in the mapping
    generation,     \* _cache_generation
    evaluating,     \* how far the call under way is
    turn,           \* the system to solve
    purpose,        \* who asked
    fresh,          \* _static_fields_are_current
    statics,        \* the epochs of the stored outputs
    models,         \* which models are set: "none" (None), "zero" (ZeroModel
                    \* for both), "static" (the adapter, and ZeroModel for
                    \* the right-hand side) or "both"
    served,         \* the last transform given to the solver at work:
                    \* what it asked about, and what it got
    seen,           \* the epochs the right-hand side has read
    torn,           \* a restore, or the storing of outputs, did not end
    unpublished,    \* an evaluation broke after its last system
    writes, faults

tensorVars   == <<heap, physicals, spectra>>
reuseVars    == <<pairs, open>>
adapterVars  == <<lazyState, transients, mapped, generation>>
callVars     == <<evaluating, turn, purpose>>
solverVars   == <<epoch, fresh, statics, models, torn>>
recordVars   == <<served, seen, unpublished, writes, faults, mode>>
representationVars == <<tensorVars, reuseVars, adapterVars, callVars,
                        solverVars, recordVars>>

Modes == {"eager_componentwise", "generation_reuse", "lazy_componentwise",
          "batched_physical_islands"}
Reuse == mode # "eager_componentwise"
Lazy  == mode \in {"lazy_componentwise", "batched_physical_islands"}

Tensor(n, kind, g) == [name |-> n, kind |-> kind, born |-> g]
FieldOf(n)    == Tensor(n, "physical", 0)
SpectrumOf(n) == Tensor(n, "spectral", 0)
Temp          == Tensor("temp", "physical", 0)
Fresh(c)      == [version |-> 0, content |-> c]
Mixed == MaxEpoch + 1   \* of no one evolved state
Blank == [n \in Stored |-> Mixed]   \* static fields of zeros

Seeds == [n \in Evolved |-> FieldOf(n)]
SpectralSeeds == [n \in Evolved |-> SpectrumOf(n)]
Fields == {FieldOf(n) : n \in Evolved} \cup {SpectrumOf(n) : n \in Evolved}

Without(f, n) == [m \in DOMAIN f \ {n} |-> f[m]]
With(f, n, x) == [m \in DOMAIN f \cup {n} |-> IF m = n THEN x ELSE f[m]]

\* A runtime that was just built, its right-hand side evaluated once.
RepresentationInit ==
    /\ mode \in Modes /\ epoch = 0 /\ generation = 1
    /\ LET made == {Tensor(n, "physical", 1) : n \in Transient}
                   \cup {Tensor(n, "spectral", 1) : n \in Produced}
       IN heap = [t \in Fields \cup {Temp} \cup made |->
                    Fresh([of |-> t.name, epoch |-> 0])]
    /\ physicals = IF Lazy
                   THEN [n \in Evolved \cup Transient |->
                            IF n \in Evolved THEN FieldOf(n)
                            ELSE Tensor(n, "physical", 1)]
                   ELSE <<>>
    /\ spectra = IF Lazy
                 THEN [n \in Evolved \cup Produced |->
                          IF n \in Evolved THEN SpectrumOf(n)
                          ELSE Tensor(n, "spectral", 1)]
                 ELSE <<>>
    /\ pairs = <<>> /\ open = FALSE /\ lazyState = Lazy
    /\ transients = IF Lazy THEN "view" ELSE "mapping"
    /\ mapped = [n \in Transient |-> 0]
    /\ evaluating = "no" /\ turn = 1 /\ purpose = "reset"
    /\ fresh = TRUE /\ statics = [n \in Stored |-> 0] /\ models = "both"
    /\ served = <<>> /\ seen = {} /\ torn = FALSE /\ unpublished = FALSE
    /\ writes = 0 /\ faults = 0
EpochOf(t) == heap[t].content.epoch
Fault == faults < MaxFaults /\ faults' = faults + 1

----------------------------------------------------------------------------
\* The representation cache.

\* register: the two tensors and their versions.
Pair(h, p, s) ==
    [physical |-> p, physicalVersion |-> h[p].version,
     spectral |-> s, spectralVersion |-> h[s].version]

Unchanged(pair) ==
    /\ heap[pair.physical].version = pair.physicalVersion
    /\ heap[pair.spectral].version = pair.spectralVersion

\* Mutant: a pair is good as long as its tensors are the same objects.
HitByIdentity(n, t, side) ==
    /\ open /\ n \in DOMAIN pairs
    /\ t = IF side = "physical" THEN pairs[n].physical ELSE pairs[n].spectral

\* spectral_for and physical_for: exactly this tensor, and neither of the
\* pair written into since it was registered.
Hit(n, t, side) ==
    /\ open /\ n \in DOMAIN pairs
    /\ t = IF side = "physical" THEN pairs[n].physical ELSE pairs[n].spectral
    /\ Unchanged(pairs[n])

\* forward_projected and inverse_projected: what is given for a tensor.
Given(n, t, side) ==
    IF Hit(n, t, side)
    THEN heap[IF side = "physical" THEN pairs[n].spectral
              ELSE pairs[n].physical].content
    ELSE heap[t].content

----------------------------------------------------------------------------
\* One evaluation: LegacyAlgebraicFieldsAdapter.forward.

\* clear_cached_outputs.
ClearCachedOutputs ==
    /\ lazyState' = FALSE /\ transients' = "none"
    /\ mapped' = [n \in Transient |-> 0] /\ UNCHANGED generation
    /\ physicals' = <<>> /\ spectra' = <<>> /\ pairs' = <<>> /\ open' = FALSE
    /\ unpublished' = FALSE

Pruned(h) == [t \in Fields \cup {Temp} |-> h[t]]

\* The cache takes the pairs of the evolved fields at their word.  A solver
\* that wrote into a field has broken the state itself, and such a state is
\* not followed into the next evaluation.
Synchronized == \A n \in Evolved :
    heap[FieldOf(n)].content = heap[SpectrumOf(n)].content

\* The generation before is invalidated; the cache begins, unless one is
\* active, with the evolved fields.
BeginEvaluation ==
    /\ evaluating = "begin" /\ generation < MaxGenerations /\ Synchronized
    /\ lazyState' = FALSE
    /\ transients' = IF lazyState THEN "none" ELSE transients
    /\ IF open
       THEN /\ evaluating' = "no"
            /\ physicals' = <<>> /\ spectra' = <<>>
            /\ UNCHANGED <<pairs, open, heap>>
       ELSE /\ evaluating' = "solving"
            /\ physicals' = Seeds /\ spectra' = SpectralSeeds
            /\ open' = Reuse
            /\ pairs' = IF Reuse
                        THEN [n \in Evolved |->
                                Pair(heap, FieldOf(n), SpectrumOf(n))]
                        ELSE <<>>
            /\ heap' = Pruned(heap)
    /\ turn' = 1
    /\ UNCHANGED <<mapped, generation, purpose, solverVars, recordVars>>

\* A solver asks its view for a dependency, or all it declares are made in
\* batches before it: materialize_dependency registers the pair.
MaterializeDependency ==
    /\ evaluating = "solving" /\ turn <= Len(Outputs) /\ Lazy
    /\ \E n \in Reads[Outputs[turn]] \ DOMAIN physicals :
          LET p == Tensor(n, "physical", generation + 1)
          IN /\ physicals' = With(physicals, n, p)
             /\ heap' = With(heap, p, Fresh(Given(n, spectra[n], "spectral")))
             /\ pairs' = With(pairs, n, Pair(heap', p, spectra[n]))
             /\ served' = [asked |-> heap[spectra[n]].content,
                           got |-> heap'[p].content]
    /\ UNCHANGED <<spectra, open, adapterVars, callVars, solverVars, seen,
                   unpublished, writes, faults, mode>>

\* The tensors a solver has of a dependency, spectral or physical.
Sources(n) == {spectra[n]} \cup {physicals[d] : d \in {n} \cap DOMAIN physicals}

\* A solver transforms a tensor of its own, or one it was given, in the
\* space of a component.
AskTransform ==
    /\ evaluating = "solving" /\ turn <= Len(Outputs)
    /\ LET given == Reads[Outputs[turn]]
           theirs == {physicals[d] : d \in given \cap DOMAIN physicals}
       IN \/ \E n \in given \cup {Outputs[turn]}, t \in theirs \cup {Temp} :
                served' = [asked |-> heap[t].content,
                           got |-> Given(n, t, "physical")]
          \/ \E n \in given :
                served' = [asked |-> heap[spectra[n]].content,
                           got |-> Given(n, spectra[n], "spectral")]
    /\ UNCHANGED <<tensorVars, reuseVars, adapterVars, callVars, solverVars,
                   seen, unpublished, writes, faults, mode>>

\* A solver writes into a tensor it was given.
WriteInPlace ==
    /\ evaluating = "solving" /\ turn <= Len(Outputs) /\ writes < MaxWrites
    /\ \E n \in Reads[Outputs[turn]] : \E t \in Sources(n) :
          heap' = [heap EXCEPT ![t] =
                     [version |-> @.version + 1,
                      content |-> [of |-> n, epoch |-> Mixed + writes + 1]]]
    /\ writes' = writes + 1
    /\ UNCHANGED <<physicals, spectra, reuseVars, adapterVars, callVars,
                   solverVars, served, seen, unpublished, faults, mode>>

\* The output is of the present evolved state if all it was computed from is.
Computed(inputs) == IF inputs \subseteq {epoch} THEN epoch ELSE Mixed

NeedsPhysical(n) ==
    n \in Transient \/ \E i \in 1..Len(Outputs) : n \in Reads[Outputs[i]]

\* One system is solved.  Lazily its spectrum is published and an older
\* physical value forgotten; eagerly a physical value others need is made.
SolveSystem ==
    /\ evaluating = "solving" /\ turn <= Len(Outputs)
    /\ LET n == Outputs[turn]
           s == Tensor(n, "spectral", generation + 1)
           p == Tensor(n, "physical", generation + 1)
       IN \E source \in [Reads[n] -> DOMAIN heap] :
             /\ \A d \in Reads[n] : source[d] \in Sources(d)
             /\ LET e == Computed({EpochOf(source[d]) : d \in Reads[n]})
                    made == With(heap, s, Fresh([of |-> n, epoch |-> e]))
                IN /\ spectra' = With(spectra, n, s)
                   /\ IF Lazy \/ ~NeedsPhysical(n)
                      THEN /\ physicals' = Without(physicals, n)
                           /\ heap' = made /\ UNCHANGED pairs
                      ELSE /\ physicals' = With(physicals, n, p)
                           /\ heap' = With(made, p, made[s])
                           /\ pairs' = IF Reuse
                                       THEN With(pairs, n, Pair(heap', p, s))
                                       ELSE pairs
    /\ turn' = turn + 1 /\ served' = <<>>
    /\ UNCHANGED <<open, adapterVars, evaluating, purpose, solverVars, seen,
                   unpublished, writes, faults, mode>>

\* Mutant: the cache is not aborted.
FailKeepingPairs ==
    /\ evaluating = "solving" /\ turn <= Len(Outputs) /\ Fault
    /\ evaluating' = "no" /\ UNCHANGED <<open, pairs>>
    /\ physicals' = <<>> /\ spectra' = <<>> /\ heap' = Pruned(heap)
    /\ served' = <<>>
    /\ UNCHANGED <<adapterVars, turn, purpose, solverVars, seen, unpublished,
                   writes, mode>>

\* Mutant: the eager transients are published one by one.
FailKeepingOutputs ==
    /\ evaluating = "solving" /\ turn <= Len(Outputs) /\ Fault
    /\ evaluating' = "no" /\ open' = FALSE /\ pairs' = <<>>
    /\ physicals' = <<>> /\ spectra' = <<>> /\ heap' = Pruned(heap)
    /\ mapped' = [n \in Transient |->
                     IF ~Lazy /\ n \in DOMAIN physicals
                     THEN EpochOf(physicals[n]) ELSE mapped[n]]
    /\ served' = <<>>
    /\ UNCHANGED <<lazyState, transients, generation, turn, purpose,
                   solverVars, seen, unpublished, writes, mode>>

\* A solver raises, or returns something that is refused.
FailEvaluation ==
    /\ evaluating = "solving" /\ turn <= Len(Outputs) /\ Fault
    /\ evaluating' = "no" /\ open' = FALSE /\ pairs' = <<>>
    /\ physicals' = <<>> /\ spectra' = <<>> /\ heap' = Pruned(heap)
    /\ served' = <<>>
    /\ UNCHANGED <<adapterVars, turn, purpose, solverVars, seen, unpublished,
                   writes, mode>>

\* What follows a published evaluation.
Continue ==
    /\ evaluating' = IF purpose = "step" THEN "rhs" ELSE "no"
    /\ fresh' = IF purpose \in {"restore", "reset"} THEN TRUE ELSE fresh
    /\ models' = IF purpose = "reset" THEN "both" ELSE models

Forwarded ==
    /\ open' = FALSE /\ pairs' = <<>> /\ lazyState' = Lazy
    /\ transients' = IF Lazy THEN "view" ELSE "mapping"
    /\ mapped' = [n \in Transient |-> IF Lazy THEN 0 ELSE EpochOf(physicals[n])]
    /\ generation' = generation + 1
    /\ IF Lazy THEN UNCHANGED tensorVars
       ELSE /\ physicals' = <<>> /\ spectra' = <<>> /\ heap' = Pruned(heap)

\* The outputs are stacked and published, and update_static_fields stores
\* the stored ones.
PublishOutputs ==
    /\ evaluating = "solving" /\ turn > Len(Outputs)
    /\ Forwarded /\ Continue
    /\ statics' = [n \in Stored |-> EpochOf(spectra[n])]
    /\ torn' = FALSE
    /\ UNCHANGED <<turn, purpose, epoch, recordVars>>

\* Publishing breaks: stacking, outside the handler that ends the
\* generation, or the storing of the published outputs.
FailPublication ==
    /\ evaluating = "solving" /\ turn > Len(Outputs) /\ Fault
    /\ evaluating' = "no"
    /\ \/ /\ unpublished' = Reuse
          /\ physicals' = <<>> /\ spectra' = <<>> /\ UNCHANGED heap
          /\ UNCHANGED <<reuseVars, adapterVars, statics, torn>>
       \/ /\ Forwarded /\ torn' = TRUE /\ UNCHANGED unpublished
          /\ \E part \in SUBSET Stored :
                statics' = [n \in Stored |-> IF n \in part
                              THEN EpochOf(spectra[n]) ELSE statics[n]]
    /\ UNCHANGED <<turn, purpose, epoch, fresh, models, served, seen, writes,
                   mode>>

----------------------------------------------------------------------------
\* The calls that ask for an evaluation.

\* The evolved fields are overwritten: their tensors stay, with new contents.
Overwritten(e) ==
    [t \in DOMAIN heap |->
        IF t \in Fields THEN [version |-> heap[t].version + 1,
                              content |-> [of |-> t.name, epoch |-> e]]
        ELSE heap[t]]

Call(why) == evaluating' = "begin" /\ purpose' = why /\ UNCHANGED turn

AdapterSet == models \in {"static", "both"}

\* update_static_fields with a ZeroModel: nothing is evaluated, and the stored
\* outputs are zeros.  (Without a static model it raises.)
StoreZeros == models = "zero" /\ statics' = Blank

StartRhs == evaluating' = "rhs" /\ purpose' = "step" /\ UNCHANGED turn

\* Mutant: the static fields stay current after a step has used them.
StepKeepsFlag ==
    /\ evaluating = "no" /\ UNCHANGED fresh
    /\ \/ fresh /\ StartRhs /\ UNCHANGED statics
       \/ ~fresh /\ StoreZeros /\ StartRhs
       \/ ~fresh /\ AdapterSet /\ Call("step") /\ UNCHANGED statics
    /\ UNCHANGED <<tensorVars, reuseVars, adapterVars, epoch, models, torn,
                   recordVars>>

\* integrator.step: the static fields are used once if they are current.
StepRuntime ==
    /\ evaluating = "no" /\ fresh' = FALSE
    /\ \/ fresh /\ StartRhs /\ UNCHANGED statics
       \/ ~fresh /\ StoreZeros /\ StartRhs
       \/ ~fresh /\ AdapterSet /\ Call("step") /\ UNCHANGED statics
    /\ UNCHANGED <<tensorVars, reuseVars, adapterVars, epoch, models, torn,
                   recordVars>>

\* compute_nonlinear.  Without a model it raises, and a ZeroModel reads
\* nothing; LegacyExplicitRHSAdapter.forward refuses transients that are not
\* synchronized, and materializes those it reads.  It may raise.
EvaluateRhs ==
    /\ evaluating = "rhs"
    /\ IF models # "both" \/ (Transient # {} /\ transients = "none")
       THEN /\ evaluating' = IF models \in {"zero", "static"} THEN "advance"
                             ELSE "no"
            /\ UNCHANGED <<seen, physicals, heap, faults>>
       ELSE LET missing == IF Lazy THEN Transient \ DOMAIN physicals ELSE {}
                made == [n \in missing |-> Tensor(n, "physical", generation)]
            IN /\ physicals' = [n \in DOMAIN physicals \cup missing |->
                     IF n \in missing THEN made[n] ELSE physicals[n]]
               /\ heap' = [t \in DOMAIN heap \cup {made[n] : n \in missing} |->
                             IF t \in DOMAIN heap THEN heap[t]
                             ELSE Fresh(heap[spectra[t.name]].content)]
               /\ \/ /\ evaluating' = "advance" /\ UNCHANGED faults
                     /\ seen' = {statics[n] : n \in Stored}
                          \cup {IF Lazy THEN heap'[physicals'[n]].content.epoch
                                ELSE mapped[n] : n \in Transient}
                  \/ Fault /\ evaluating' = "no" /\ UNCHANGED seen
    /\ UNCHANGED <<spectra, reuseVars, adapterVars, turn, purpose, solverVars,
                   served, unpublished, writes, mode>>

\* The spectra are updated in place and the physical fields follow.
AdvanceState ==
    /\ evaluating = "advance" /\ epoch < MaxEpoch
    /\ epoch' = epoch + 1 /\ heap' = Overwritten(epoch')
    /\ evaluating' = "no" /\ seen' = {}
    /\ UNCHANGED <<physicals, spectra, reuseVars, adapterVars, turn, purpose,
                   fresh, statics, models, torn, served, unpublished, writes,
                   faults, mode>>

\* synchronize_algebraic_for_observation.
SynchronizeForObservation ==
    /\ evaluating = "no"
    /\ \/ AdapterSet /\ Call("observe") /\ UNCHANGED statics
       \/ StoreZeros /\ UNCHANGED callVars
    /\ UNCHANGED <<tensorVars, reuseVars, adapterVars, epoch, fresh, models,
                   torn, recordVars>>

\* restore_shadow_checkpoint: the fields are overwritten, the outputs
\* cleared, the warm starts restored; then an evaluation, or what stands for
\* it.  It may break in the first of these or in the last.
RestoreRuntime ==
    /\ evaluating = "no" /\ epoch < MaxEpoch
    /\ epoch' = epoch + 1
    /\ \/ /\ Fault /\ heap' = Overwritten(epoch') /\ torn' = TRUE
          /\ UNCHANGED <<physicals, spectra, reuseVars, adapterVars, callVars,
                         unpublished, fresh, statics>>
       \/ /\ ClearCachedOutputs /\ heap' = Pruned(Overwritten(epoch'))
          /\ \/ /\ AdapterSet /\ Call("restore") /\ torn' = TRUE
                /\ UNCHANGED <<faults, fresh, statics>>
             \/ /\ StoreZeros /\ fresh' = TRUE /\ torn' = FALSE
                /\ UNCHANGED <<callVars, faults>>
             \/ /\ models = "none" /\ torn' = TRUE
                /\ UNCHANGED <<callVars, faults, fresh, statics>>
             \/ /\ Fault /\ torn' = TRUE
                /\ UNCHANGED <<callVars, fresh, statics>>
    /\ UNCHANGED <<models, served, seen, writes, mode>>

\* reset: the models are taken away, model.build makes the fields new, with
\* static fields of zeros, and a ZeroModel of each missing model; then come
\* the values, the adapter, an evaluation and the right-hand side.  It may
\* break in build, or between build and the adapter.  (Fields that a broken
\* build has replaced are not followed: without models nothing but a reset
\* gets past them.)
ResetRuntime ==
    /\ evaluating = "no" /\ ClearCachedOutputs
    /\ \/ /\ Fault /\ models' = "none" /\ heap' = Pruned(heap)
          /\ UNCHANGED <<epoch, statics, callVars>>
       \/ /\ epoch < MaxEpoch /\ epoch' = epoch + 1
          /\ heap' = Pruned(Overwritten(epoch')) /\ statics' = Blank
          /\ \/ Fault /\ models' = "zero" /\ UNCHANGED callVars
             \/ models' = "static" /\ Call("reset") /\ UNCHANGED faults
    /\ UNCHANGED <<fresh, torn, served, seen, writes, mode>>

RepresentationNext ==
    \/ BeginEvaluation \/ MaterializeDependency \/ AskTransform
    \/ WriteInPlace \/ SolveSystem \/ FailEvaluation \/ PublishOutputs
    \/ FailPublication \/ StepRuntime \/ EvaluateRhs \/ AdvanceState
    \/ SynchronizeForObservation \/ RestoreRuntime \/ ResetRuntime

RepresentationSpec ==
    RepresentationInit /\ [][RepresentationNext]_representationVars
----------------------------------------------------------------------------
\* Properties.

RepresentationTypeOK ==
    /\ mode \in Modes /\ epoch \in 0..MaxEpoch
    /\ \A t \in DOMAIN heap :
          /\ heap[t].version \in 0..MaxWrites + MaxEpoch
          /\ heap[t].content.epoch \in 0..Mixed + MaxWrites
    /\ Fields \subseteq DOMAIN heap
    /\ DOMAIN pairs \subseteq Evolved \cup Produced /\ open \in BOOLEAN
    /\ DOMAIN physicals \subseteq Evolved \cup Produced
    /\ DOMAIN spectra \subseteq Evolved \cup Produced
    /\ lazyState \in BOOLEAN /\ transients \in {"none", "view", "mapping"}
    /\ generation \in 1..MaxGenerations
    /\ evaluating \in {"no", "begin", "solving", "rhs", "advance"}
    /\ turn \in 1..Len(Outputs) + 1
    /\ purpose \in {"step", "observe", "restore", "reset"}
    /\ fresh \in BOOLEAN /\ models \in {"none", "zero", "static", "both"}
    /\ torn \in BOOLEAN /\ unpublished \in BOOLEAN
    /\ writes \in 0..MaxWrites /\ faults \in 0..MaxFaults

\* A transform taken from the cache is the transform of the tensor asked
\* about as it is now, whatever tensors solvers pass under a component's
\* name and whatever they write into between two requests.
ServedTransformsAreExact == served # <<>> => served.asked = served.got

\* The explicit right-hand side of the model reads stored and transient
\* outputs of the very evolved state it advances, after failed evaluations,
\* observations, restores and resets.  (Nothing is promised after a restore
\* that raised, until an evaluation has been published.  A reset that raised
\* leaves ZeroModel in the place of the model's right-hand side: until a reset
\* ends, steps add nothing and read nothing, or raise if build broke.)
RhsReadsItsState ==
    evaluating = "advance" /\ models = "both" /\ ~torn /\ writes = 0 =>
        seen = {epoch}

\* The transients a caller can read belong to the same evolved state as the
\* stored outputs, though an evaluation broke after some of its systems: it
\* leaves those of the last complete one, or none.
OutputsBelongTogether ==
    evaluating = "no" /\ transients # "none" /\ ~torn /\ writes = 0 =>
        \A n \in Transient, m \in Stored :
            statics[m] = IF transients = "mapping" THEN mapped[n]
                         ELSE EpochOf(spectra[n])

\* Between two evaluations the cache is closed and holds no tensor, so that
\* the next can begin, unless the stacking of the last one's outputs broke.
CacheIsClosed ==
    evaluating \in {"no", "begin", "rhs", "advance"} /\ ~unpublished =>
        ~open /\ pairs = <<>>
==========================================================================
