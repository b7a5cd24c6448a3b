------------------------ MODULE ProjectedStepping ------------------------
(***************************************************************************)
(* One PSSolver runtime: the projected semi-implicit Euler step, with the  *)
(* representation ledger, the refresh clock and the warm-started static    *)
(* (velocity and pressure) solve it keeps, the observations and            *)
(* checkpoints its workflow takes between steps, failing operations, and   *)
(* restarts from a checkpoint.  Fields are modelled by their provenance: a *)
(* state is the sequence of updates that made it.                          *)
(***************************************************************************)
EXTENDS Integers, Sequences, FiniteSets

CONSTANTS
    Policies,    \* how runtimes treat the static solve of an observation
    Intervals,   \* spectral refresh intervals; 0 is None
    MaxSteps,    \* the step the workflow runs to
    MaxFaults,   \* bound on failing operations
    MaxKills,    \* bound on killed processes
    MaxSolves,   \* bound on the solves a warm start can go through
    MaxStored,   \* bound on checkpoints kept
    Liberties    \* what may happen beyond what the workflows do

VARIABLES
    policy,
    spectral,  \* the dynamic spectra
    physical,  \* the dynamic fields in real space
    statics,   \* the static fields: the solves their warm start went through
    guess,     \* the pressure warm start: likewise
    current,   \* _static_fields_are_current
    ledger,    \* RepresentationLedger
    progress,  \* IntegratorProgress
    active,    \* the workspace generation is open
    pc,        \* the next operation of the step program, or the run's state
    store,     \* the published checkpoints
    faults, kills

fields == <<spectral, physical>>
solve  == <<statics, guess, current>>
clocks == <<ledger, progress, active>>
world  == <<policy, store, faults, kills>>
vars   == <<fields, solve, clocks, pc, world>>

----------------------------------------------------------------------------
ASSUME SteppingAssumption ==
    /\ Policies \subseteq {"stateless", "memo", "shielded"}
    /\ Intervals \subseteq Nat
    /\ MaxSteps \in Nat /\ MaxFaults \in Nat /\ MaxKills \in Nat
    /\ MaxSolves \in Nat /\ MaxStored \in Nat
    /\ Liberties \subseteq {"interrupt",   \* the in-place update is cut short
                            "retry",       \* going on after a failed step
                            "interval",    \* another refresh interval
                            "observe",     \* observing at any time
                            "checkpoint",  \* a checkpoint before any step
                            "reset"}       \* solver.reset

Operations == {"rhs", "project", "refresh"}

\* One update: the static fields its right-hand side used, and the
\* operations that completed on it; "rhs" if its input was synchronized.
Updates == [statics : Seq(Int), done : SUBSET Operations]
States  == Seq(Updates)

\* Some arrays of a group-wise operation were written and others not.
Torn == <<-2>>
Tear(s) == Append(s, [statics |-> Torn, done |-> {}])
Mark(s, op) == [s EXCEPT ![Len(s)].done = @ \cup {op}]

Warm == policy # "stateless"

\* The static solve at the present state, from the present warm start.  The
\* solve that validates the model when it is built counts as -1.
Solved == Append(IF Warm THEN guess ELSE <<>>, Len(spectral))
Warmed == IF Warm THEN Solved ELSE guess
Built  == IF Warm THEN <<-1>> ELSE <<>>

RefreshDue == /\ progress.interval # 0
              /\ progress.step + 1 >= progress.interval

\* _refresh_counters_from_completed_steps
Counters(n, i) ==
    [interval |-> i, done |-> n,
     step  |-> IF i = 0 THEN n ELSE n % i,
     count |-> IF i = 0 THEN 0 ELSE n \div i]

Synchronized(n) == [gen |-> n, physical |-> n, spectral |-> n]

Init ==
    /\ policy \in Policies
    /\ spectral = <<>> /\ physical = <<>>
    /\ statics = <<>> /\ guess = Built /\ current = FALSE
    /\ ledger = Synchronized(0)
    /\ \E i \in {j \in Intervals : policy = "memo" => j = 0} :
          progress = Counters(0, i)
    /\ active = FALSE /\ pc = "idle"
    /\ store = {} /\ faults = 0 /\ kills = 0

----------------------------------------------------------------------------
\* The step program.

\* A stale spectrum, or a step inside a step, is refused.
BeginGeneration ==
    /\ pc = "idle" /\ progress.done < MaxSteps
    /\ IF ledger.spectral = ledger.gen /\ ~active
       THEN active' = TRUE /\ pc' = "prepare"
       ELSE UNCHANGED active /\ pc' = "failed"
    /\ UNCHANGED <<fields, solve, ledger, progress, world>>

\* Mutant: the flag is left set, so the next step skips its solve too.
PrepareKeepsFlag ==
    /\ pc = "prepare" /\ pc' = "rhs"
    /\ IF current THEN UNCHANGED solve
       ELSE statics' = Solved /\ guess' = Warmed /\ UNCHANGED current
    /\ UNCHANGED <<fields, clocks, world>>

PrepareAlgebraic ==
    /\ pc = "prepare" /\ pc' = "rhs"
    /\ IF current
       THEN current' = FALSE /\ UNCHANGED <<statics, guess>>
       ELSE statics' = Solved /\ guess' = Warmed /\ UNCHANGED current
    /\ UNCHANGED <<fields, clocks, world>>

\* Mutant: the ledger is not told of the update.
UpdateUnmarked ==
    /\ pc = "rhs" /\ pc' = "project"
    /\ spectral' = Append(spectral,
           [statics |-> statics,
            done    |-> IF physical = spectral THEN {"rhs"} ELSE {}])
    /\ UNCHANGED <<physical, solve, clocks, world>>

UpdateSpectral ==
    /\ pc = "rhs" /\ pc' = "project"
    /\ spectral' = Append(spectral,
           [statics |-> statics,
            done    |-> IF physical = spectral THEN {"rhs"} ELSE {}])
    /\ ledger' = [ledger EXCEPT !.gen = @ + 1, !.spectral = ledger.gen + 1]
    /\ UNCHANGED <<physical, solve, progress, active, world>>

ProjectDynamicSpectra ==
    /\ pc = "project" /\ pc' = "inverse"
    /\ spectral' = Mark(spectral, "project")
    /\ UNCHANGED <<physical, solve, clocks, world>>

\* Mutant: progress is committed before the refresh.
InverseCommits ==
    /\ pc = "inverse" /\ pc' = IF RefreshDue THEN "refresh" ELSE "commit"
    /\ physical' = spectral
    /\ ledger' = [ledger EXCEPT !.physical = ledger.gen]
    /\ progress' = [progress EXCEPT !.done = @ + 1]
    /\ UNCHANGED <<spectral, solve, active, world>>

InverseDynamicSpectra ==
    /\ pc = "inverse" /\ pc' = IF RefreshDue THEN "refresh" ELSE "commit"
    /\ physical' = spectral
    /\ ledger' = [ledger EXCEPT !.physical = ledger.gen]
    /\ UNCHANGED <<spectral, solve, progress, active, world>>

RefreshDynamicSpectra ==
    /\ pc = "refresh" /\ pc' = "commit"
    /\ spectral' = Mark(physical, "refresh")
    /\ physical' = Mark(physical, "refresh")
    /\ UNCHANGED <<solve, clocks, world>>

\* Mutants: the refresh phase is reset one too low; the workspace is left
\* open.
CommitUndershoots ==
    /\ pc = "commit" /\ pc' = "idle" /\ active' = FALSE
    /\ progress' = [progress EXCEPT
           !.done  = @ + 1,
           !.step  = IF RefreshDue THEN -1 ELSE @ + 1,
           !.count = IF RefreshDue THEN @ + 1 ELSE @]
    /\ UNCHANGED <<fields, solve, ledger, world>>

CommitKeepsActive ==
    /\ pc = "commit" /\ pc' = "idle"
    /\ progress' = [progress EXCEPT
           !.done  = @ + 1,
           !.step  = IF RefreshDue THEN 0 ELSE @ + 1,
           !.count = IF RefreshDue THEN @ + 1 ELSE @]
    /\ UNCHANGED <<fields, solve, ledger, active, world>>

CommitStep ==
    /\ pc = "commit" /\ pc' = "idle" /\ active' = FALSE
    /\ progress' = [progress EXCEPT
           !.done  = @ + 1,
           !.step  = IF RefreshDue THEN 0 ELSE @ + 1,
           !.count = IF RefreshDue THEN @ + 1 ELSE @]
    /\ UNCHANGED <<fields, solve, ledger, world>>

Step ==
    \/ BeginGeneration \/ PrepareAlgebraic \/ UpdateSpectral
    \/ ProjectDynamicSpectra \/ InverseDynamicSpectra
    \/ RefreshDynamicSpectra \/ CommitStep

----------------------------------------------------------------------------
\* Failing operations.  The step closes its workspace and raises; nothing
\* it did is undone.

Faulty == faults < MaxFaults /\ faults' = faults + 1
          /\ UNCHANGED <<policy, store, kills>>

\* Mutant: the workspace is not closed on the error path.
AbortKeepsActive == pc' = "failed" /\ UNCHANGED active

AbortGeneration == pc' = "failed" /\ active' = FALSE

\* A static solve that fails, before or after it stored its warm start.
SolveFails ==
    \/ UNCHANGED <<statics, guess>>
    \/ guess' = Warmed /\ statics' = Torn

PrepareFails ==
    /\ pc = "prepare" /\ ~current /\ Faulty /\ AbortGeneration
    /\ SolveFails
    /\ UNCHANGED <<fields, current, ledger, progress>>

\* The pre-update callback or the right-hand side raises.
RHSFails ==
    /\ pc = "rhs" /\ Faulty /\ AbortGeneration
    /\ UNCHANGED <<fields, solve, ledger, progress>>

UpdateInterrupted ==
    /\ pc = "rhs" /\ "interrupt" \in Liberties /\ Faulty /\ AbortGeneration
    /\ spectral' = Tear(spectral)
    /\ UNCHANGED <<physical, solve, ledger, progress>>

ProjectFails ==
    /\ pc = "project" /\ Faulty /\ AbortGeneration
    /\ UNCHANGED <<fields, solve, ledger, progress>>

InverseFails ==
    /\ pc = "inverse" /\ Faulty /\ AbortGeneration
    /\ physical' \in {physical, Tear(physical)}
    /\ UNCHANGED <<spectral, solve, ledger, progress>>

RefreshFails ==
    /\ pc = "refresh" /\ Faulty /\ AbortGeneration
    /\ \/ UNCHANGED fields
       \/ /\ spectral' = Tear(spectral)
          /\ physical' \in {physical, Tear(physical)}
    /\ UNCHANGED <<solve, ledger, progress>>

Fail == PrepareFails \/ RHSFails \/ UpdateInterrupted \/ ProjectFails
        \/ InverseFails \/ RefreshFails

----------------------------------------------------------------------------
\* Between steps: observations, checkpoints, and the end of the run.

\* The complete-stress Channel solves once per state and lets the next step
\* use the result.
Skips == policy = "memo" /\ current

\* A solve for an observation, after which the warm start is g.
\* Mutant: the next step does not know of it.
SynchronizeForgets(g) ==
    statics' = Solved /\ guess' = g /\ UNCHANGED current

SynchronizeKeeping(g) ==
    IF Skips THEN UNCHANGED solve
    ELSE /\ statics' = Solved /\ guess' = g
         /\ current' = (policy = "memo" \/ current)

\* synchronize_for_observation
SynchronizeForObservation == SynchronizeKeeping(Warmed)

\* The active-nematics Channel workflow observes inside the step, from the
\* static fields that are there, and synchronizes only at the end.
MayObserve == /\ policy # "shielded" \/ "observe" \in Liberties
              /\ Len(guess) < MaxSolves

Observe ==
    /\ pc = "idle" /\ MayObserve
    /\ SynchronizeForObservation
    /\ UNCHANGED <<fields, clocks, pc, world>>

ObserveFails ==
    /\ pc = "idle" /\ MayObserve /\ ~Skips
    /\ Faulty /\ pc' = "failed"
    /\ SolveFails
    /\ UNCHANGED <<fields, current, clocks>>

\* Mutant: the live warm start is not put back after a checkpoint's solve.
LiveGuessLost == Warmed

\* capture_synchronized_pressure_guess, of the active-nematics Channel.
LiveGuess == IF policy = "shielded" THEN guess ELSE Warmed

\* Workflows take checkpoints after a step they made.
MayCheckpoint ==
    /\ progress.done > 0
    /\ Skips \/ ~current \/ "checkpoint" \in Liberties
    /\ Cardinality(store) < MaxStored /\ Len(guess) < MaxSolves

\* Mutant: the checkpoint holds the warm start from before its solve.
SnapshotOldGuess ==
    [spectral |-> spectral, physical |-> physical, statics |-> statics',
     guess |-> guess, progress |-> progress]

Snapshot ==
    [spectral |-> spectral, physical |-> physical, statics |-> statics',
     guess |-> IF Skips THEN guess ELSE Warmed, progress |-> progress]

Checkpoint ==
    /\ pc = "idle" /\ MayCheckpoint
    /\ SynchronizeKeeping(LiveGuess)
    /\ store' = store \cup {Snapshot}
    /\ UNCHANGED <<fields, clocks, pc, policy, faults, kills>>

\* The solve fails, or the publication after it.
CheckpointFails ==
    /\ pc = "idle" /\ MayCheckpoint /\ Faulty /\ pc' = "failed"
    /\ \/ UNCHANGED solve
       \/ ~Skips /\ guess' = LiveGuess /\ statics' = Torn /\ UNCHANGED current
       \/ SynchronizeKeeping(LiveGuess)
    /\ UNCHANGED <<fields, clocks>>

\* Mutant: the run ends a step early.
FinishEarly ==
    /\ pc = "idle" /\ progress.done + 1 >= MaxSteps /\ pc' = "finished"
    /\ SynchronizeForObservation
    /\ UNCHANGED <<fields, clocks, world>>

\* The last observation of a workflow.
Finish ==
    /\ pc = "idle" /\ progress.done = MaxSteps /\ pc' = "finished"
    /\ SynchronizeForObservation
    /\ UNCHANGED <<fields, clocks, world>>

----------------------------------------------------------------------------
\* Restarts, and what only a library user does.

Kill ==
    /\ pc \notin {"dead", "finished"} /\ kills < MaxKills
    /\ kills' = kills + 1 /\ pc' = "dead"
    /\ UNCHANGED <<fields, solve, clocks, policy, store, faults>>

Configured == {i \in Intervals : policy = "memo" => i = 0}

\* A new process builds the runtime and starts afresh.
StartAgain ==
    /\ pc \in {"failed", "dead"}
    /\ spectral' = <<>> /\ physical' = <<>>
    /\ statics' = <<>> /\ guess' = Built /\ current' = FALSE
    /\ ledger' = Synchronized(0)
    /\ \E i \in Configured : progress' = Counters(0, i)
    /\ active' = FALSE /\ pc' = "idle"
    /\ UNCHANGED world

\* A checkpoint of this configuration, for a run of at least one more step.
Compatible(c) == /\ c.progress.interval \in Configured
                 /\ c.progress.done < MaxSteps

\* Mutant: the static fields of a stateless runtime are not solved again,
\* yet declared current.
RestoreSkipsSolve(c) ==
    /\ pc \in {"failed", "dead"} /\ Compatible(c)
    /\ spectral' = c.spectral /\ physical' = c.physical
    /\ statics' = IF Warm THEN c.statics ELSE <<>>
    /\ guess'   = IF Warm THEN c.guess ELSE <<>>
    /\ current' = TRUE
    /\ ledger'   = Synchronized(c.progress.done)
    /\ progress' = Counters(c.progress.done, c.progress.interval)
    /\ active'   = FALSE /\ pc' = "idle"
    /\ UNCHANGED world

\* A new process restores a checkpoint.  Channels copy the static fields and
\* the warm start back, the others solve anew; either way the next step is
\* told not to.  Counters that disagree with the clock are refused.
Restore(c) ==
    /\ pc \in {"failed", "dead"} /\ Compatible(c)
    /\ spectral' = c.spectral /\ physical' = c.physical
    /\ statics' = IF Warm THEN c.statics ELSE <<Len(c.spectral)>>
    /\ guess'   = IF Warm THEN c.guess ELSE <<>>
    /\ current' = TRUE
    /\ ledger'   = Synchronized(c.progress.done)
    /\ progress' = Counters(c.progress.done, c.progress.interval)
    /\ active'   = FALSE
    /\ pc' = IF progress' = c.progress THEN "idle" ELSE "failed"
    /\ UNCHANGED world

\* The caller catches the error and goes on with the same runtime.
Retry ==
    /\ "retry" \in Liberties /\ pc = "failed" /\ pc' = "idle"
    /\ UNCHANGED <<fields, solve, clocks, world>>

\* Mutant: the counters are kept when the interval changes.
SetIntervalKeeps ==
    /\ "interval" \in Liberties /\ pc = "idle"
    /\ \E i \in Intervals : progress' = [progress EXCEPT !.interval = i]
    /\ UNCHANGED <<fields, solve, ledger, active, pc, world>>

SetRefreshInterval ==
    /\ "interval" \in Liberties /\ pc = "idle"
    /\ \E i \in Intervals : progress' = Counters(progress.done, i)
    /\ UNCHANGED <<fields, solve, ledger, active, pc, world>>

\* The model is built again and its arrays adopted; clock and flag stay.
Reset ==
    /\ "reset" \in Liberties /\ pc = "idle" /\ Len(guess) < MaxSolves
    /\ spectral' = <<>> /\ physical' = <<>> /\ statics' = <<>>
    /\ guess' = IF Warm THEN Append(guess, -1) ELSE guess
    /\ ledger' = Synchronized(progress.done)
    /\ UNCHANGED <<current, progress, active, pc, world>>

Next ==
    \/ Step \/ Fail
    \/ Observe \/ ObserveFails \/ Checkpoint \/ CheckpointFails \/ Finish
    \/ Kill \/ StartAgain \/ (\E c \in store : Restore(c))
    \/ Retry \/ SetRefreshInterval \/ Reset
    \/ pc = "finished" /\ UNCHANGED vars

Fairness == WF_vars(Step \/ Finish)

Spec == Init /\ [][Next]_vars /\ Fairness

----------------------------------------------------------------------------
\* Properties.

Clocks == [interval : Nat, done : Nat, step : Nat, count : Nat]

TypeOK ==
    /\ policy \in {"stateless", "memo", "shielded"}
    /\ spectral \in States /\ physical \in States
    /\ statics \in Seq(Int) /\ guess \in Seq(Int)
    /\ current \in BOOLEAN
    /\ ledger \in [gen : Nat, physical : Nat, spectral : Nat]
    /\ progress \in Clocks
    /\ active \in BOOLEAN
    /\ pc \in {"idle", "prepare", "rhs", "project", "inverse", "refresh",
               "commit", "failed", "dead", "finished"}
    /\ \A c \in store : /\ c.spectral \in States /\ c.physical \in States
                        /\ c.statics \in Seq(Int) /\ c.guess \in Seq(Int)
                        /\ c.progress \in Clocks
    /\ faults \in Nat /\ kills \in Nat

\* The uninterrupted, unobserved run: every state is solved for once, from
\* the warm start its predecessor left, and every scheduled refresh made.
Canon(p, n) == IF p = "stateless" THEN <<n>>
               ELSE [j \in 1 .. n + 2 |-> j - 2]
Reference(p, i, n) ==
    [k \in 1 .. n |->
       [statics |-> Canon(p, k - 1),
        done    |-> IF i # 0 /\ k % i = 0 THEN {"rhs", "project", "refresh"}
                                          ELSE {"rhs", "project"}]]

\* Whatever is observed and checkpointed, whenever the process fails or is
\* killed and restarted, the state after n steps is the state after n steps
\* of the undisturbed run, down to the warm starts of its static solves.
TrajectoryIsExact ==
    pc \in {"idle", "prepare", "finished"} =>
        /\ spectral = Reference(policy, progress.interval, progress.done)
        /\ physical = spectral

\* The static fields that the right-hand side, a pre-update callback and an
\* observation use are those the undisturbed run has at this state.
ObservedIsExact ==
    \/ pc = "rhs"
    \/ pc \in {"idle", "prepare"} /\ current
    \/ pc = "finished"
    => statics = Canon(policy, progress.done)

\* A checkpoint holds what the undisturbed run has after its step count, and
\* the warm start its next solve needs.
CheckpointIsExact ==
    \A c \in store :
        /\ c.spectral = Reference(policy, c.progress.interval, c.progress.done)
        /\ c.physical = c.spectral
        /\ c.statics = Canon(policy, c.progress.done)
        /\ policy # "stateless" => c.guess = c.statics

\* The step and refresh counters agree with the completed steps.
ClockCoherent ==
    IF progress.interval = 0
    THEN progress.count = 0 /\ progress.step = progress.done
    ELSE /\ progress.step < progress.interval
         /\ progress.count * progress.interval + progress.step = progress.done

\* The clock advances only over a step whose every operation completed: the
\* update is projected, refreshed if due, and the same in both spaces.
CommitIsLast ==
    [][pc \notin {"failed", "dead"} /\ progress'.done = progress.done + 1 =>
         /\ physical = spectral /\ spectral # <<>>
         /\ "project" \in spectral[Len(spectral)].done
         /\ RefreshDue => "refresh" \in spectral[Len(spectral)].done]_vars

\* The right-hand side uses static fields solved for the present state, also
\* in a runtime that goes on after failed steps and is observed at will;
\* unless the last observation failed while it stored them and the caller
\* went on all the same.
StaticsAreCurrent ==
    pc = "rhs" /\ statics # Torn =>
        statics # <<>> /\ statics[Len(statics)] = Len(spectral)

\* A failed step that left its mark on the state shows in the ledger, whose
\* generation is then ahead of the clock, until a checkpoint is taken of it.
LedgerTellsFailure ==
    /\ pc = "idle" /\ ledger.gen = progress.done
    /\ \A c \in store : Len(c.spectral) = c.progress.done
    => Len(spectral) = progress.done /\ physical = spectral

\* A failed step never leaves a runtime that refuses the next one.
RetryIsPossible ==
    pc \in {"idle", "failed"} => ~active /\ ledger.spectral = ledger.gen

\* Left alone, a run makes all its steps.
UndisturbedRunFinishes ==
    [](faults = 0 /\ kills = 0) => <>(pc = "finished")

----------------------------------------------------------------------------
\* The promise of the workflows, and how a run keeps it.

Plans == {p \in [policy : Policies, interval : Intervals] :
             p.policy = "memo" => p.interval = 0}

\* A run that failed or was killed has no state; within a step it still has
\* the state the step started from.
Phase == IF pc \in {"failed", "dead"} THEN "down"
         ELSE IF pc = "finished" THEN "finished" ELSE "up"
Before(s) == SubSeq(s, 1, progress.done)
Present == IF Phase = "down" THEN <<>>
           ELSE IF pc \in {"idle", "prepare", "rhs", "finished"} THEN fields
           ELSE <<Before(spectral), Before(spectral)>>

\* Runtimes without a warm start save none.
Warmly(p, g) == IF p = "stateless" THEN <<>> ELSE g
Save(c) == [plan  |-> [policy |-> policy, interval |-> c.progress.interval],
            step  |-> c.progress.done,
            state |-> <<c.spectral, c.physical>>,
            rest  |-> [statics |-> c.statics,
                       guess   |-> Warmly(policy, c.guess)]]

RunFields == [p \in Plans |-> [n \in 0 .. MaxSteps |->
    <<Reference(p.policy, p.interval, n), Reference(p.policy, p.interval, n)>>]]
RunSaved  == [p \in Plans |-> [n \in 0 .. MaxSteps |->
    [statics |-> Canon(p.policy, n),
     guess   |-> Warmly(p.policy, Canon(p.policy, n))]]]

Run == INSTANCE RestartableRun WITH
    LastStep <- MaxSteps,
    Fields   <- RunFields,
    Saved    <- RunSaved,
    Nowhere  <- <<>>,
    plan     <- [policy |-> policy, interval |-> progress.interval],
    step     <- progress.done,
    phase    <- Phase,
    state    <- Present,
    saves    <- {Save(c) : c \in store}

\* A workflow's run advances through the states of the undisturbed run one by
\* one up to the last, keeps every checkpoint it wrote, and after a failure
\* or a kill goes on from one of these or from the start; no half-made step,
\* observation or checkpoint shows in it.
ImplementsRun == Run!Spec
==========================================================================
