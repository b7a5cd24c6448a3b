# A verification project for PSSolver

PSSolver integrates active-nematic flows with pseudo-spectral methods: it keeps
a tensor field Q in real and spectral space, solves a Stokes problem for the
velocity and the pressure of the present Q, advances Q by one projected
semi-implicit Euler step, and from time to time writes observations and
checkpoints from which another process can go on. Its arithmetic is the business
of its numerical tests. This project is about its control: what is written in
which order, what a failure or a killed process leaves behind, and whether a run
that is observed, checkpointed, broken off and restarted is still the same run.

The modules:

| module | what it is |
|---|---|
| `AtomicPublication` | what publishing a checkpoint promises: a put-if-absent store |
| `CheckpointPublication` | `io/checkpoint.py`: the transaction that publishes a directory, on local filesystems and on NFS |
| `CheckpointPublicationProofs` | its theorems |
| `MCPublication` | its instances |
| `RestartableRun` | what a workflow promises of a run that can be broken off |
| `ProjectedStepping` | one runtime: the step program, its ledger, clock and static solve, and the workflow around it |
| `ProjectedSteppingProofs` | theorems for every caller of the step program |
| `RetriedSteppingProofs` | theorems for a caller who goes on after failed steps |
| `ExactTrajectoryProofs` | theorems for the workflows: every restart is exact, and the run is a `RestartableRun` |
| `MCStepping` | its instances |
| `RunDirectory` | the output directory of a workflow: observations, diagnostics, checkpoints, metadata, COMPLETE, written file by file |
| `RunDirectoryProofs` | its theorems |
| `PressureControl` | the control of the Channel's pressure solve and its warm start |
| `PressureControlProofs` | its theorems |
| `PrecisionScope` | `configuration/execution_device.py`: scopes over the process-wide precision flags |
| `PrecisionScopeProofs` | its theorems |
| `AlgebraicRepresentations` | the evaluation of algebraic systems and the reuse of their transforms |
| `AlgebraicRepresentationsProofs` | its theorems |
| `MCComponents` | the instance of these four |

`PROJECT.json` holds, for every definition, the lines it translates ("map"),
the runs, the mutants that show what each property can detect, the hazards, the
theorems and the findings.

## 1. Inventory

Paths are under `src/pssolver/`.

| component | state it keeps | operations | what must hold |
|---|---|---|---|
| checkpoint publication, `io/checkpoint.py` | staging directory, placeholder, claim descriptor | stage, fsync, rename without replacing, claim on NFS, read back, clean up | whole, durable, never replaced, one winner, an honest answer |
| step program, `integrators/step_program.py`, `state_backed.py`, `execution/state.py`, `workspace.py` | spectra and fields, representation ledger, clock with refresh phase, open generation | step, change interval, restore, rebind | the clock advances last; a failure is visible; the next step is possible |
| static solve, `PDEmodel.py`, `solver.py`, `linear_solvers/stokes` | static fields, pressure warm start, the flag that they are current | build, update, reset | the right-hand side uses the velocity of the present Q |
| adapters, `runtime/` | none of their own | advance, synchronize, capture and restore the warm start | an observation leaves no trace |
| workflows, `workflows/`, `run_metadata.py` | run directory: metadata, observations, diagnostics, checkpoints, COMPLETE, and a temporary file beside each | check the directory, run, observe, checkpoint, restore, finish, record a failure | restart is exact; COMPLETE only beside what it vouches for; a success keeps its files; metadata tells the truth |
| scalar reference stepper, `integrators/scalar_reference.py`, `history.py` | SBDF2 history ring, start-up step | step, restore | history and clock agree |
| pressure solve, `linear_solvers/stokes/channel_no_slip.py`, `_channel_pcg_control.py` | iterate, residual, floor state, warm start with its operator action, last outcome | start, iterate, recheck, roll back, accept or raise | what is accepted is true of the pressure returned; a failure leaves the warm start |
| algebraic evaluation, `experimental/model_execution.py`, `representations.py`, `integrators.py`, `checkpointing.py` | outputs in two spaces, pairs of transforms, generation, the flag that the outputs are current | evaluate, step, observe, restore, reset | a right-hand side reads outputs of the state it advances; a reused transform is exact |
| snapshots, `snapshots.py` | frames and their index | write, resume | no frame from beyond the restart |
| precision scope, `configuration/execution_device.py` | three process-wide flags of Torch, a lock, saved states | enter, leave | the flags are what they were; a body runs under its policy |
| public API, configuration, planning | immutable declarations | validate, lower | pure |
| functional runtime, `functional/` | immutable states | step, checkpoint | pure, same publication |
| fields, transforms, models, operators | arrays | floating-point algebra | numerical |
| optimal control, experimental harness, scripts | - | - | frozen or outside the program |

How they interact: a workflow drives a runtime through its adapter, one step at a
time, with a callback inside the step (Plane, active-nematics Channel) or an
observation before it (complete-stress Channel). The step program calls back into
the model for the static solve and the right-hand side, and mutates the arrays of
the model in place. A checkpoint captures the arrays, the clock and the warm start
and goes through the publication transaction. The static solve of the Channel contains the
pressure solve, whose warm start outlives it. Nothing inside one process runs
concurrently but the threads that compete for the precision flags. The concurrency
is outside: several processes may publish under one name on a shared filesystem or
be started in one directory, a process may be killed at any point, a machine may
stop, an NFS reply may be lost.

What is hard here: the order of file operations and what a failing one means;
state that is kept beside the state it describes (flag, ledger, phase, warm start);
partial failure of an in-place step; exactness across restarts. The hazards are
listed one by one, at their lines, in `PROJECT.json`.

## 2. Publication of checkpoints

### Model

`CheckpointPublication` has a set of writers that run
`checkpoint_directory_transaction` for one name. A directory is an identity with
contents, mode and fsync state: the tree every writer stages, and the
placeholder it may create. `target` is what processes see at the name, `disk` what
a machine stop leaves there. Every system call of the transaction is one
action, in the order of the code, its errors included:

| actions | code |
|---|---|
| `NewStagingDirectory`, `PinParent`, `WriteBody`, `FsyncStagingTree`, `RequireStableParent` | 403-455, 1159-1162, 1163-1169, 554-583, 476-494 |
| `RenameNoReplace` | `_publish_checkpoint_directory`, 1009-1142 |
| `MakePlaceholder` .. `ClosePlaceholder`, `AbandonClaim` | `_claim_placeholder`, 773-825, and 859-883 |
| `InspectTarget`, `CheckClaim`, `RenameOverPlaceholder`, `RecheckClaim`, `ReadBack` | `_publish_directory_over_owned_placeholder`, 884-998 |
| `RemoveIfOwned*`, `CloseClaim` | `_OwnedPlaceholder`, 726-770, 999-1006 |
| `FsyncParent`, `RequireStableParentAgain`, `RemoveStagingTree` | 538-551, 1181-1230 |
| `CallFails` | a call that fails and changes nothing, at every label; the descriptor's close and the look at the staging name (1002, 1005) also after the rename was served |
| `StagingUnanswered`, `MkdirUnanswered`, `ClaimUnanswered`, `RenameUnanswered`, `RemoveIfOwnedFails`, `CleanupFails` | a call that reports an error and may have been served |
| `ClaimCloseFails` | a failing close in the `finally` of the claim, whose error is no `CheckpointError` and skips lines 877-937 |
| `BestEffortFails`, `ReadBackFails`, `ConfirmationFails` | clean-up whose errors are ignored; read-back and parent checks that fail |
| `Kill`, `PowerLoss`, `RetargetParent`, `WriteBack` | the environment (external) |

Constants: the writers and their payloads, whether the filesystem is NFS
(no `RENAME_NOREPLACE`), whether the user is privileged, the set `FaultSites` of
calls that may fail, and the bounds `MaxFaults` and `MaxIncidents`.

`AtomicPublication` is the contract (notes/PSSolver_v0_2_1_n1_checkpoint_nfs_plan_zh.md and
the docstrings): a name goes from absent to one whole tree, once, and an answer
of success or of existence tells the truth. `ImplementsAtomic` is the refinement,
an `INSTANCE` of it with the published tree computed from the directory state.

### Runs

| run | instance | shows |
|---|---|---|
| `PublicationNFS` | two writers with different bytes, NFS, every call may fail, 2 faults, 1 incident | the safety properties and the refinement |
| `PublicationContention` | three writers, two with the same bytes, failures a writer can tell apart, no incident | everyone ends, a race has exactly one winner, no residue, honest answers |
| `PublicationLocal` | three writers, `RENAME_NOREPLACE`, 1 fault, 2 incidents | the local branch: the refinement |
| `DestinationTouched` | violation | a failed placeholder mkdir makes a writer claim a published checkpoint and set its mode to 000 |
| `UnconfirmedError` | violation | a plain I/O error for a checkpoint that was published |
| `AmbiguousAbsent` | violation | an ambiguous answer about a name that does not exist |

Bounds. Two writers suffice for every pairwise race; a third one meets a name that two
others fight over. Two faults are needed for the hardest case, a lost rename reply
followed by a failing confirmation. The same run with three writers, two faults and
one incident (2.5 million states) passes as well and is not kept for its length.

Fairness. Every running writer's fault-free step is weakly fair: the code is
sequential and none of its calls waits for another writer (the lock is taken
with `LOCK_NB`). Faults, kills and machine stops are not fair. `EveryoneEnds`
rests on this.

### Theorems

For every number of writers, every payload assignment, every set of failing calls
and any bounds: `TypeCorrect`, `NoPartialCheckpoint`, `DurableSuccess`,
`AtMostOneWinner`, `DoubtKeepsBytes`, `DefiniteCollision`, `IntactCheckpoint`,
`NeverReplacedHolds`, `ClaimIsRespectedHolds`, `OneWinnerOfARace` and the refinement `Refinement`.
The inductive invariant `IInv` has four parts. `TypeInv` adds to the types that a claim in
progress holds a descriptor; `TreeInv` says that a tree with a name has been
synced and that the disk lags behind memory without inventing anything;
`OutcomeInv` says what each answer means for the name, which is stronger than the
properties because it must speak of writers that have not answered yet;
`ClaimInv` says that two writers never hold one placeholder, unless mkdir errors
are among the faults. Each part is proved in three lemmas: a step of a writer, a
failing call, an incident. The two theorems about claims assume that mkdir does not report errors
of its own, and the finding `DestinationTouched` shows that they need to.

`OneWinnerOfARace` says what contention comes to. Writers that start together, with nothing failing,
may all collide at the placeholder, its marker or its lock; when all of them have ended, exactly one
checkpoint is at the name and durable, its writer alone was told so, and the others were told that
the name exists. Its invariant `RaceInv` says why somebody is left to win: while the name is free
everyone still waits at or before the mkdir, and once it is taken it is the placeholder of a writer
that is on its way to its rename or the tree of one that is past it. So nobody can turn the maker of
the placeholder away, since the marker, the lock and the descriptor at its directory are its own,
and whoever gives up does so because that writer is ahead.

`TransactionsAreFinite` is the part of `EveryoneEnds` that can be proved here: every step of a
writer, failing or not, lowers the number of calls left to it (`Left`, at most 20). No transaction
retries, loops or waits. What remains of the liveness property is that a call that can be made is
made.

Four more hold for some sets of failing calls only, which the theorems name. `AmbiguityHasTarget`
and `DestinationsStayUntouched` prove what the changelog says and the runs `AmbiguousAbsent` and
`DestinationTouched` refute, under the one assumption that the placeholder mkdir does not fail: both
findings come from that call's errors and from nothing else. Without them, a writer in the error
handler of its rename still has its own placeholder or its own tree at the name (`HolderInv`).
`UnconfirmedIsTold` proves `UnconfirmedIsAmbiguous` under `TellingFaults`: the placeholder mkdir,
the recheck of the claim (955), the two calls of `remove_if_owned`, the close of the claim and the
look at the staging name after the rename (1002, 1005) and the clean-up's own calls do not fail,
nor, on a local filesystem, does a no-replace rename that was served. Each of them can turn a
publication into a plain `CheckpointIOError`: the handler at 1218-1230 does not know what was
published, and a failing clean-up replaces the error in flight, a durability error too. The finding
`UnconfirmedError` shows the first. `NoResidueHolds` proves `NoStagingResidue` under
`CleanableFaults`: the staging mkdir, the look at its parent (`PinParent`) and the clean-up do not
fail. The parent is pinned at 1159-1162, after the mkdir of 1156 and before the try of 1163, so that
a failing `stat` there leaves the staging directory, and so does a staging mkdir whose reply is
lost. (When the retransmitted mkdir of a lost request finds its own directory, line 442 goes on with
another name and the first directory stays as well; the model has one staging directory per writer
and does not follow it.) An interrupt between the mkdir and the try leaves what a failing
`PinParent` leaves. Their invariants `HolderInv`, `TellingInv` and `ResidueInv` stand beside `IInv`.

TLC only: `EveryoneEnds` (liveness).

## 3. Stepping, checkpointing and restarting

### Model

`ProjectedStepping` is one runtime and the workflow that drives it. A field is
modelled by its provenance. A state is the sequence of the updates that made it, and
an update records the static fields its right-hand side used and which operations
completed on it. The static fields and the pressure guess are the sequence of
solves their warm start went through. Two runs with equal provenance did the same
floating-point operations on the same inputs, so equality of provenance is what
"exact restart" means.

| variable | code |
|---|---|
| `spectral`, `physical` | the evolved arrays of `RuntimeState` |
| `statics`, `guess`, `current` | static fields, `pressure_guess`, `_static_fields_are_current` |
| `ledger`, `progress`, `active` | `RepresentationLedger`, `IntegratorProgress` (`step` and `count` are the refresh counters; interval 0 is `None`), the open workspace generation |
| `pc` | the next operation of `_execute_projected_euler_step`, or the state of the run |
| `store` | the published checkpoints (atomic, by part 2) |
| `policy` | how the runtime treats the static solve of an observation |

The three policies are the code's three treatments. `stateless` (Plane, periodic): no warm
start, an observation solves again. `memo` (complete-stress Channel): one solve
per state; an observation sets the flag and the next step uses its result;
the refresh interval is `None`. `shielded` (active-nematics
Channel): observations happen inside the step, and a checkpoint's solve puts the
live warm start back.

| actions | code |
|---|---|
| `BeginGeneration` .. `CommitStep` | `integrators/step_program.py` 42-89 and the operations it calls |
| `PrepareFails` .. `RefreshFails`, `UpdateInterrupted` | its except clause, and what a failing operation leaves |
| `Observe`, `ObserveFails`, `Finish` | `synchronize_for_observation` of the adapters and the workflows' calls of it |
| `Checkpoint`, `CheckpointFails` | `capture_*_checkpoint`, `write_channel_beris_edwards_checkpoint` |
| `Kill`, `StartAgain`, `Restore` | a new process, with or without a checkpoint |
| `Retry`, `SetRefreshInterval`, `Reset` | what a library user may also do |

`RestartableRun` is the contract: one trajectory per configuration, a run that advances along it one
step at a time up to its last, saves that are points of it and are never lost or altered, and after
a break-off either the start or one of the saved points. In `ImplementsRun` the abstract step is the
clock, a failed or killed run has no state, and within a step the state is still the one the step
started from (`Before` cuts the update in progress off), so that the seven operations of a step are
one `Advance`, taken at the commit, and observations cannot be seen. It says more than the
invariants: they would hold of a run that skips a step, forgets a checkpoint or ends early.

A failing operation either did nothing or left arrays of some groups written and others not
(`Torn`). A new process has no memory of the old one, so a restart builds the runtime first and then
restores. The constant `Liberties` says what may happen beyond what the workflows do; the workflows
themselves only meet failures, interrupts and kills.

### Runs

| run | instance | shows |
|---|---|---|
| `SteppingWorkflow` | all three policies, interval 0 or 2, 4 steps, 1 fault, 1 kill | trajectory, observations and checkpoints are those of the undisturbed run; the clock advances last; a run left alone finishes; the refinement of `RestartableRun` |
| `SteppingLibrary` | intervals 0, 1, 2, 2 steps, 2 faults; retries, observations and interval changes at will | the right-hand side uses static fields of the present state; the ledger tells of half-made steps |
| `SteppingReset` | every liberty, 2 steps, 1 fault | counters follow the clock; a failed step can be followed by another |
| `ResetStale` | violation | `Solver.reset` zeroes the static fields and leaves them marked current |
| `CheckpointPerturbs` | violation | a checkpoint between a restore and the first step changes the trajectory |

Bounds. `MaxSteps` is at least two refresh intervals, so that a refresh, the phase
after it and a restart at every phase occur. One fault and one kill already give
restart after restart; two faults in the library run let a retry fail as well.
`MaxSolves` bounds the length of a warm start's history, which only matters
when observations may be repeated at will (in the workflow run it is never
reached); `MaxStored` bounds the checkpoints kept.

Fairness. `WF_vars(Step \/ Finish)`: a process that runs makes its next operation.
Failures and kills are not fair, nor is a restart, which a person makes; the
liveness property is about runs without either.

Two properties have an exception in their statement. `StaticsAreCurrent` excepts
a solve that failed while it stored its fields (`Torn`), after which the code keeps
the flag it had: harmless for the workflows, which stop, and excluded by
`ObservedIsExact` there. `LedgerTellsFailure` speaks of failing operations, not of
an exception between the in-place add and the mark (`UpdateInterrupted`), which
the ledger cannot see; the workflows are covered by `TrajectoryIsExact`, which
includes it.

### Theorems

For every caller, with any liberties and any bounds (`ProjectedSteppingProofs`):
`TypeCorrect`, `CoherentClock`, `RetryAlwaysPossible`, `CommitComesLast`. The
invariant `IInv` consists of `TypeInv` (types; a step past its update has one; after the
inverse transform both spaces are equal), `StepInv` (the workspace is open exactly
during a step, the spectrum is the current representation, the counters follow
the clock) and `DoneInv` (what has completed on the update in progress).

For the workflows, that is under `Liberties \subseteq {"interrupt"}`, and for any number of steps,
faults, kills and restarts (`ExactTrajectoryProofs`): `ExactTrajectory`, `ExactObservation`,
`ExactCheckpoint` and the refinement `RunsAreRestartable`. The invariant `ExactInv` says what each
program counter adds to the reference run (`FieldsInv`), which warm start the next solve needs
(`SolveInv`: one behind the state when the flag is clear, level with it when set) and that the
checkpoints are exact. The properties alone are not inductive: they do not mention the warm start,
which is what the next step's static fields come from. A checkpoint is restored into `idle`, where
the invariant must already hold with the flag set; that a restored `shielded` runtime has a step
left to make (`progress.done < MaxSteps`, from `WorkflowSpec`'s positive step count) is why its last
observation never solves from a warm start that is level. `DueByClock` connects the refresh phase
with division by the interval.

The refinement needs one more invariant, `RunInv`: the run stays within its plan and its last step,
and every stored clock is the one its steps and interval imply (`CoherentIsCounted`), so that no
workflow's checkpoint is refused at its restore. Given it and `PresentIsExact` (what shows of a run
that is up is the reference state of its clock), each action is a step of `RestartableRun` or
changes nothing there, one lemma per kind of step.

For a caller who catches a failed step and goes on (`RetriedSteppingProofs`), with every
liberty but `reset`: `StaticsStayCurrent`, from an invariant that ties the flag
to the state at which it is read, in the runtime and in every checkpoint (`FreshInv`); and, without `interrupt`
too, `FailuresShow`, from `LedgerInv`: completed steps, generation and number of updates are in this
order, so that a clock level with its generation has a state with no update too many. Both
assumptions are needed: the finding `ResetStale` is what a reset does to the first, and an update cut short
is exactly what the ledger is not told of.

TLC only: `UndisturbedRunFinishes` (liveness).

## 4. Four more components

These share no state with each other at the level they are modelled at, so one run, `Components`,
checks them side by side: its initial states say which of them moves (`machine`). Its bounds
are given with each. Deadlock is not checked there: the counters that
bound the models stop them. None of their properties is about liveness, and no
fairness is assumed.

### The run directory

`RunDirectory` has runs that use one output directory. A file is whose it is, whether
it is whole, and, for the metadata, the status it says. Every file operation is one action: looking
whether an output exists, whether a temporary file exists, opening, filling, renaming.

| variable | code |
|---|---|
| `family` | `plane` and `channel` (active nematics) keep a status and record failures; `periodic`, whose control the complete-stress Channel shares, and `finiteq` do not |
| `final`, `temp` | the files under their names, and their `.tmp` files |
| `published` | checkpoints, one step each (part 2) |
| `stage`, `io`, `part` | where a run is: before its loop, in it, in the finalization, in the failure handler; and within a file |
| `handle` | where the file a run has open is now, after another run's rename or unlink |
| `saved`, `kept` | `saved_steps` and `checkpoint_steps` of the metadata |

The code writes files in four ways, and `Style` says which file of which family is
written how: to an exclusively created temporary file that is renamed and that an
exception removes (`staged`); to a temporary file that is truncated and renamed (`shared`:
the metadata, every file of finite-q); exclusively under its own name (`direct`: the periodic
observations); and truncating under its own name (`text`: COMPLETE). A kill leaves whatever
stage the file was in, and the next run meets it.

| action | code |
|---|---|
| `Launch`, `CheckDirectory`, `GuardDirectory`, `RestoreIfRequested` | the applications' emptiness test, the workflow's own test, the restore |
| `CheckOutputs`, `ProbeTemporary`, `OpenFile`, `FillFile`, `PlaceFile` | `plane_observation.py`, `channel_observation.py`, `diagnostic_io.py`, `run_metadata.py` and the writers of the other workflows |
| `NextStep`, `UpdateState`, `SaveCheckpoint` | the workflow loops |
| `StepFails`, `FileFails`, `KillRun` | a failing operation with the handler that follows, a killed process |
| `PlaceRaises`, `AbandonPlaced` | a file that is put in place (`Replace`) and raises all the same, by a lost reply or an interrupt before the next operation, and its handler |

What it shows. `CompletedIsFinal`: once the run that made COMPLETE is over, no later one creates,
changes or removes anything in the directory, whatever it was started from, also when the marker is
the empty one of a failed write. `CompleteIsTruthful`: a marker with text in it stands beside the
final metadata of the run that wrote it and everything they list. `SuccessKeepsItsData`: what a run
that returned has written stays, whatever runs follow. `FramesAreCoherent`: the files of one
observation come from one run. `StatusTellsTheEnd`: the status of a guarded family is that of the
end the run had, unless the failure record failed as well, or the run raised when its running
metadata were in place and the try that records failures was not entered yet (`muted`;
`plane_beris_edwards.py` 213-220, `channel_active_nematics.py` 167-170): there "running" stands for
a run that raised and wrote no record. They are about runs one after another; where two processes
are started together (`Overlaps`, the periodic family in the run) only the coherence of observations
is promised, and the two may share `metadata.json.tmp`. Two outcomes the properties leave room for
are worth knowing: a failure while COMPLETE is written leaves an empty marker beside metadata that
say "failed", and every later run in that directory is refused; and a kill in an observation leaves
a temporary file that makes a later run of a guarded family raise at that step.

`RunDirectoryProofs` proves the five of them for every set of runs, families and overlaps, any
number of files in an observation, any schedule and any number of mishaps. The properties are far
from inductive, since they speak of files under their names and not of the one being written, and
the invariant is built up in layers, each proved from those before:

- `TypeInv`: types, and a launched run goes no further than its last step;
- `WritingInv`: a handle is held only while a file is filled; while no two runs were alive together only
  one run is alive (`Solo`), and what it has opened or filled is its own (`OwnFileInv`). From here on
  a step of a run can be summed up by what it does to the names: nothing, one file written whole
  (`Wrote`), one file begun in place (`Began`), the lone array taken back (`TookBack`);
- `StatusInv`: the status and the stage of the run that wrote it, which gives `StatusTellsTheEnd`; a file that was
  placed and raised is still its run's when the handler takes it back (`LostIsMine`);
- `PathInv`: which observations a run has made at each of its stages, against its schedule;
- `KeptInv`: a checkpoint in a journal is published for that run;
- `PeriodicInv` and `OtherInv`: who has a part of an observation has the parts before it. The periodic
  families need no assumption on who else is alive, because they create exclusively; the others
  need `~overlap`, and a guarded run needs to have looked at every part first. Together they give `FramesAreCoherent`;
- `SoleInv`: a finite-q run past its own test, and a periodic one past the application's, is alone in the directory;
- `SavedInv`: what a journal lists is whole and its run's; `NoTheft` is the step where the three ways of not
  overwriting meet. With `PathInv` and `KeptInv` it gives `SuccessKeepsItsData`;
- `MarkInv`: a marker stands beside final metadata and stops every other run at its tests, which gives `CompleteIsTruthful`; and since a stopped run writes
nothing, not even a failure record (`NothingIsWritten`), also `CompletedIsFinal`.

Bounds of the run: two runs, two files per observation, one step each, so that a second run starts in, and may
restart from, what the first left; two mishaps, so that the failure record can fail or a second
run be killed over the remains of a first.

### The pressure solve

`PressureControl` is one solver and the solves it is asked for: the cold or warm start, the
preconditioned conjugate gradient, its stops, and the postcondition of fixed work. Rounding enters
as choice: an iterate has a level, the relative residual of the pressure it represents, and the
recurrence reports any other level. A level is compared with the tolerance, with the precision floor
and with twice the floor, and nothing else of it is used.

| variable | code |
|---|---|
| `guess`, `cache` | `pressure_guess` and the operator action stored with it, each a tensor with its version |
| `value`, `relative`, `iterations` | `pressure_work`, `relative_residual`, the iteration count |
| `action` | the operator action in hand: of this pressure, or of another |
| `floor`, `completed` | the floor state of `ChannelPCGControl`, the completed state of the postcondition |
| `reason`, `acceptable`, `failure` | what the loop ended with |
| `outcome`, `warm` | the recorded outcome with the pressure returned, and the warm start the solve began with |

The phases of a solve are its program counter (`start`, `initial`, `loop`, `observe`, `recheck`,
`next`, `stopped`, `retry`, `margin`, `decided`), and each action is the code of one of them. `RestoreGuess`,
`DropGuess` and `OverwriteGuess` are what checkpoints, functional runtimes and callers do to the warm start
between two solves; `BreakOff` is an exception from anywhere inside one. The transpose
solve and the implicit adjoint share this control and start cold.

What it shows, and `PressureControlProofs` proves for all floors, tolerances, limits and any number
of solves: `AcceptedMeetsContract`, `OutcomeBelongsToResult`, `StartsFromItsGuess`,
`FailureKeepsWarmStart` and `SolveDescends`. The last says that a solve ends: the code goes back to
its loop from the recheck at the tolerance and from the one at the floor, and each step still lowers
a rank (`StepsLeft`, at most `7 + 3 * Limit`), because neither gives iterations back. The invariant
`PressureInv` adds to the properties that the iteration count is the iterate's, that a solve under
way has not touched the guess, and, phase by phase, what relates the residual in hand to the
pressure in hand (`StoppedWell`, `DecidedWell`): between a rollback and its recheck they are of
different pressures, which is why the properties are not inductive. Three limits of what the code
promises are part of the statements: an exact zero of the recurrence is accepted without a recheck,
fixed work that never saw the floor promises nothing, and the reason of a failed solve may be that
of the state it rolled back from.

Bounds: floor 2, tolerance 2, right-hand side 5 (so that levels below, at and just above the floor,
within twice the floor and beyond exist), two iterations, two solves or restores: a solve, a change
of its warm start, another solve.

### The precision scope

`PrecisionScope` is the process: threads, three flags, the re-entrant lock. `SetMatmul` and
`SetPrecision` are Torch's (external): each sets the other. Every assignment of
`_apply_tf32_execution` and `_restore_tf32_execution` is a step, an entry or body may raise at each,
and callers outside every scope set the flags as they like. `CallerStateRoundTrips` and
`BodyHasItsPolicy` are proved for any number of threads and any depth of nesting, unless a caller in
no scope sets the flags during another thread's, which the lock cannot prevent. The invariant says
that only the owner of the lock is in a scope (`ScopeLock`), that the flags are coupled (`Coupled`),
that the saved states chain from the caller's to the innermost scope's (`Chain`) and how far the
assignments have come (`Progress`).

Bounds: two threads, two nested scopes, one setting by a caller.

### Algebraic evaluation

`AlgebraicRepresentations` is the executable-model runtime: before each explicit right-hand side the
algebraic systems are solved in order, their outputs kept as spectra and physical tensors, in one of
four modes (`mode`), and transforms reused within one generation. A tensor is an identity; the heap
has its version and the component and evolved state (`epoch`) its content is of.

| actions | code |
|---|---|
| `BeginEvaluation`, `MaterializeDependency`, `AskTransform`, `SolveSystem`, `PublishOutputs` | `LegacyAlgebraicFieldsAdapter.forward`, the cache of `representations.py`, `update_static_fields` |
| `WriteInPlace` | a solver that writes into what it was given |
| `FailEvaluation`, `FailPublication` | the except clause, and what fails outside of it |
| `StepRuntime`, `EvaluateRhs`, `AdvanceState` | `experimental/integrators.py` |
| `SynchronizeForObservation`, `RestoreRuntime`, `ResetRuntime` | observation, `restore_shadow_checkpoint`, `reset` |
| `StoreZeros`, `Blank` | `update_static_fields` with a `ZeroModel`; the static fields that `PDEModel.build` makes |

`models` says which models are set. A reset takes both away; `PDEModel.build`, inside it, puts a
`ZeroModel` in the place of each (152-153, 172-173); then come the adapter and, after an evaluation,
the right-hand side. A reset that raises leaves what it has reached. Without models the runtime
raises. With zero models it goes on: a step, an observation or a restore stores static fields of
zeros and succeeds, and the step adds a right-hand side of zero. With the adapter alone it evaluates
and steps with a right-hand side of zero. Only a reset that ends brings the model back.

What it shows, and `AlgebraicRepresentationsProofs` proves for any systems, dependencies and number
of evaluations: `ServedTransformsAreExact`, `RhsReadsItsState`, `OutputsBelongTogether`,
`CacheIsClosed`. The invariant has a part for the heap, the cache, the outputs solved so far, the
stored and transient outputs, what a caller may read, and the call under way. The statements name
the states the code does get into: after a failure to stack the outputs the cache stays active until
a reset or restore (`unpublished`), a restore that raised half way leaves the flag of the old state
beside fields of the new (`torn`), and after a reset that raised the right-hand side is not the
model's (`models # "both"`), so that `RhsReadsItsState` does not speak of it. The transients that
can be read between a step and the next evaluation are those of the state before the step, in every
mode.

Bounds: one evolved component, a stored and a transient output of which the stored one reads the
transient one, two changes of state, two evaluations after the first, one in-place write, one
failure. A solver that writes into an evolved field has broken the state; such a state is not
followed into the next evaluation (`Synchronized`). Packed storage of outputs and the batching of
transforms are left out.

## 5. What is not modelled

Floating-point values and rounding: provenance (part 3) and levels (part 4) say which operations
were done and what was decided, not what they computed. One consequence is that a restored warm
start, being another tensor, has its operator action computed afresh, which is the same product up
to rounding. Checkpoint contents (hashes, manifests, identities, upgrades of old formats) are data
checks without state. The callback inside a step is a point where the step may fail; what a callback
may do to the runtime is not modelled. Concurrent use of one runtime by several threads is outside
the code's contract. Snapshots are read into a solver by one assignment after their checks; the
scalar reference stepper serves numerical tests; the functional runtimes are pure and use the
publication protocol of part 2; the optimal-control loop is a sequential line search around a
gradient. The remaining components are listed with their reasons in `PROJECT.json`.

TLC only: the liveness properties (`EveryoneEnds`, `UndisturbedRunFinishes`); every safety property,
every action property and both refinements of the passing runs have a theorem.
`TransactionsAreFinite` and `SolvesEnd` prove that there is nothing to go round in, which leaves
fairness to TLC. Some theorems hold under an assumption that the module names (part 2 and part 3).

## 6. Plan

1. `ScalarReference`: SBDF2 with its history ring, start-up step and restart
   (`integrators/scalar_reference.py` 300-500), against a reference definition.
2. `Snapshots`: resume and branch (`snapshots.py`), with the flag of the static fields.
3. `CheckpointUpgrade`: the check-then-publish of `plane_checkpoint.py` 1094-1190.
