---------------------- MODULE RetriedSteppingProofs ----------------------
(***************************************************************************)
(* What a library caller relies on who catches a failed step and goes on   *)
(* with the same runtime, observing and checkpointing when they like: the  *)
(* static fields the next step uses belong to its state, and the ledger    *)
(* tells which failed steps left a mark.  Neither holds once the solver    *)
(* was reset, which is the one assumption on the first; the second also    *)
(* needs the in-place update to complete or not to start.                  *)
(***************************************************************************)
EXTENDS ProjectedSteppingProofs

NoReset     == "reset" \notin Liberties
NoInterrupt == "interrupt" \notin Liberties

----------------------------------------------------------------------------
\* The static fields.

\* st ends with the solve at state sp, or a solve was torn.
Fresh(st, sp) == st = Torn \/ (st # <<>> /\ st[Len(st)] = Len(sp))

\* Only an observation, a checkpoint or a restore declares the static fields
\* current, and the next step withdraws it before it changes the state; that
\* makes the flag true of the state it is read at.
FreshInv ==
    /\ pc \in {"rhs", "project", "inverse", "refresh", "commit"} => ~current
    /\ pc = "rhs" \/ current => Fresh(statics, spectral)
    /\ \A c \in store : Fresh(c.statics, c.spectral)

LEMMA SolvedIsFresh ==
    ASSUME TypeOK
    PROVE  Fresh(Solved, spectral)
<1>1. Len(spectral) \in Int
  BY DEF TypeOK, States
<1>2. ASSUME NEW s \in Seq(Int), NEW e \in Int
      PROVE  Append(s, e) # <<>> /\ Append(s, e)[Len(Append(s, e))] = e
  <2>1. Len(s) \in Nat /\ Len(Append(s, e)) = Len(s) + 1
        /\ Append(s, e)[Len(s) + 1] = e
    OBVIOUS
  <2>2. Append(s, e) # <<>>
    BY <2>1
  <2> QED BY <2>1, <2>2
<1> DEFINE g == IF Warm THEN guess ELSE <<>>
<1>3. g \in Seq(Int)
  BY DEF TypeOK
<1>4. Solved = Append(g, Len(spectral))
  BY DEF Solved
<1> HIDE DEF g
<1> QED BY <1>1, <1>2, <1>3, <1>4 DEF Fresh

LEMMA KeepingIsFresh ==
    ASSUME TypeOK, FreshInv, NEW g, SynchronizeKeeping(g), spectral' = spectral
    PROVE  current' \/ ~Skips => Fresh(statics', spectral')
BY SolvedIsFresh DEF FreshInv, SynchronizeKeeping, Skips, solve

LEMMA FreshStep ==
    ASSUME TypeInv, FreshInv, Step
    PROVE  FreshInv'
<1> USE DEF FreshInv, fields, solve, clocks, world
<1>1. CASE BeginGeneration
  BY <1>1 DEF BeginGeneration
<1>2. CASE PrepareAlgebraic
  <2>1. Fresh(statics', spectral')
    BY <1>2, SolvedIsFresh DEF PrepareAlgebraic, TypeInv
  <2>2. ~current' /\ store' = store
    BY <1>2 DEF PrepareAlgebraic, TypeInv, TypeOK
  <2> QED BY <1>2, <2>1, <2>2 DEF PrepareAlgebraic
<1>3. CASE UpdateSpectral
  BY <1>3 DEF UpdateSpectral
<1>4. CASE ProjectDynamicSpectra
  BY <1>4 DEF ProjectDynamicSpectra
<1>5. CASE InverseDynamicSpectra
  BY <1>5 DEF InverseDynamicSpectra
<1>6. CASE RefreshDynamicSpectra
  BY <1>6 DEF RefreshDynamicSpectra
<1>7. CASE CommitStep
  BY <1>7 DEF CommitStep
<1> QED BY <1>1, <1>2, <1>3, <1>4, <1>5, <1>6, <1>7 DEF Step

LEMMA FreshFail ==
    ASSUME TypeInv, FreshInv, Fail
    PROVE  FreshInv'
<1> USE DEF FreshInv, fields, solve, AbortGeneration, Faulty
<1>1. CASE PrepareFails
  BY <1>1 DEF PrepareFails, SolveFails, Fresh
<1>2. CASE RHSFails
  BY <1>2 DEF RHSFails
<1>3. CASE UpdateInterrupted
  BY <1>3 DEF UpdateInterrupted
<1>4. CASE ProjectFails
  BY <1>4 DEF ProjectFails
<1>5. CASE InverseFails
  BY <1>5 DEF InverseFails
<1>6. CASE RefreshFails
  BY <1>6 DEF RefreshFails
<1> QED BY <1>1, <1>2, <1>3, <1>4, <1>5, <1>6 DEF Fail

LEMMA FreshBetween ==
    ASSUME NoReset, TypeInv, FreshInv, Between
    PROVE  FreshInv'
<1> USE DEF FreshInv, fields, solve, clocks, world
<1>0. TypeOK BY DEF TypeInv
<1>1. CASE Observe
  BY <1>0, <1>1, KeepingIsFresh DEF Observe, SynchronizeForObservation
<1>2. CASE ObserveFails
  BY <1>2 DEF ObserveFails, SolveFails, Fresh, Faulty
<1>3. CASE Checkpoint
  <2>1. spectral' = spectral /\ pc' = "idle"
    BY <1>3 DEF Checkpoint
  <2>2. Fresh(statics', spectral)
    BY <1>0, <1>3, <2>1, KeepingIsFresh
    DEF Checkpoint, SynchronizeKeeping, Skips
  <2>3. store' = store \cup {Snapshot} /\ Snapshot.statics = statics'
        /\ Snapshot.spectral = spectral
    BY <1>3 DEF Checkpoint, Snapshot
  <2> QED BY <2>1, <2>2, <2>3
<1>4. CASE CheckpointFails
  <2>1. pc' = "failed" /\ spectral' = spectral /\ store' = store
    BY <1>4 DEF CheckpointFails, Faulty
  <2>2. current' => Fresh(statics', spectral')
    <3>1. CASE UNCHANGED solve
      BY <2>1, <3>1
    <3>2. CASE statics' = Torn
      BY <3>2 DEF Fresh
    <3>3. CASE SynchronizeKeeping(LiveGuess)
      BY <1>0, <2>1, <3>3, KeepingIsFresh
    <3> QED BY <1>4, <3>1, <3>2, <3>3 DEF CheckpointFails
  <2> QED BY <2>1, <2>2
<1>5. CASE Finish
  BY <1>0, <1>5, KeepingIsFresh DEF Finish, SynchronizeForObservation
<1>6. CASE Kill
  BY <1>6 DEF Kill
<1>7. CASE StartAgain
  BY <1>7 DEF StartAgain
<1>8. ASSUME NEW c \in store, Restore(c)
      PROVE  FreshInv'
  <2>1. Fresh(statics', spectral')
    <3>1. Len(c.spectral) \in Int
      BY <1>0 DEF TypeOK, States
    <3>2. Fresh(<<Len(c.spectral)>>, c.spectral)
      BY <3>1 DEF Fresh
    <3> QED BY <1>8, <3>2 DEF Restore
  <2>2. pc' \in {"idle", "failed"} /\ store' = store
    BY <1>8 DEF Restore
  <2> QED BY <2>1, <2>2
<1>9. CASE Retry
  BY <1>9 DEF Retry
<1>10. CASE SetRefreshInterval
  BY <1>10 DEF SetRefreshInterval
<1>11. CASE Reset
  BY <1>11 DEF Reset, NoReset
<1> QED BY <1>1, <1>2, <1>3, <1>4, <1>5, <1>6, <1>7, <1>8, <1>9, <1>10, <1>11
        DEF Between

\* Nobody resets the solver: then the right-hand side uses static fields of
\* its own state, however often steps fail and are retried, whatever was
\* observed in between, and also after a restore
\* (integrators/state_backed.py:298).
THEOREM StaticsStayCurrent ==
    ASSUME NoReset
    PROVE  Spec => []StaticsAreCurrent
<1>1. Init => FreshInv
  BY DEF Init, FreshInv
<1>2. TypeInv /\ FreshInv /\ [Next]_vars => FreshInv'
  <2>1. FreshInv /\ UNCHANGED vars => FreshInv'
    BY DEF FreshInv, vars, fields, solve, world
  <2> QED BY <2>1, NextSplits, FreshStep, FreshFail, FreshBetween
<1>3. IInv => TypeInv
  BY DEF IInv
<1>4. FreshInv => StaticsAreCurrent
  BY DEF FreshInv, StaticsAreCurrent, Fresh
<1> QED BY <1>1, <1>2, <1>3, <1>4, Invariance, PTL DEF Spec

----------------------------------------------------------------------------
\* The ledger.

Marked == {"project", "inverse", "refresh", "commit"}

\* Every checkpoint is of a state with as many updates as completed steps.
NoneMarked == \A c \in store : Len(c.spectral) = c.progress.done

\* The generation counts the updates the ledger was told of, the clock the
\* completed steps, and the state has at least the updates counted; so a
\* clock that caught up with the generation has a state with neither an
\* update too many nor one in only one of its two spaces.
LedgerInv ==
    /\ ledger.gen <= Len(spectral) /\ progress.done <= ledger.gen
    /\ \A c \in store : c.progress.done <= Len(c.spectral)
    /\ pc \in Marked => progress.done < ledger.gen
    /\ NoneMarked =>
         /\ \A c \in store : c.physical = c.spectral
         /\ ledger.gen = progress.done =>
              Len(spectral) = progress.done /\ physical = spectral
         /\ ledger.gen = progress.done + 1 /\ pc \in Marked =>
              Len(spectral) = progress.done + 1

LEMMA Lengths ==
    /\ \A s \in States : Len(s) \in Nat /\ Len(Tear(s)) = Len(s) + 1
    /\ \A s \in States, u \in Updates : Len(Append(s, u)) = Len(s) + 1
<1>1. \A s \in States, u \in Updates :
         Len(s) \in Nat /\ Len(Append(s, u)) = Len(s) + 1
  BY AppendProperties DEF States
<1>2. [statics |-> Torn, done |-> {}] \in Updates
  BY DEF Updates, Torn
<1> QED BY <1>1, <1>2 DEF Tear

LEMMA NumbersAreTyped ==
    ASSUME TypeOK
    PROVE  /\ ledger.gen \in Nat /\ progress.done \in Nat
           /\ Len(spectral) \in Nat /\ spectral \in States /\ physical \in States
           /\ \A c \in store : c.progress.done \in Nat /\ Len(c.spectral) \in Nat
BY Lengths DEF TypeOK, Clocks

LEMMA LedgerStep ==
    ASSUME TypeInv, LedgerInv, Step
    PROVE  LedgerInv'
<1> USE DEF LedgerInv, NoneMarked, Marked, fields, solve, clocks, world
<1>0. TypeOK BY DEF TypeInv
<1>1. CASE BeginGeneration
  BY <1>1 DEF BeginGeneration
<1>2. CASE PrepareAlgebraic
  BY <1>2 DEF PrepareAlgebraic
<1>3. CASE UpdateSpectral
  <2>1. Len(spectral') = Len(spectral) + 1
    <3>1. [statics |-> statics,
           done |-> IF physical = spectral THEN {"rhs"} ELSE {}] \in Updates
      BY <1>0 DEF TypeOK, Updates, Operations
    <3> QED BY <1>0, <1>3, <3>1, Lengths, NumbersAreTyped DEF UpdateSpectral
  <2>2. ledger'.gen = ledger.gen + 1 /\ progress' = progress /\ store' = store
        /\ pc' = "project"
    BY <1>0, <1>3 DEF UpdateSpectral, TypeOK
  <2> QED BY <1>0, <2>1, <2>2, NumbersAreTyped
<1>4. CASE ProjectDynamicSpectra
  <2>1. Len(spectral') = Len(spectral)
    BY <1>4, UpdatesAreTyped
    DEF ProjectDynamicSpectra, TypeInv, TypeOK, Updated, Operations
  <2> QED BY <1>0, <1>4, <2>1, NumbersAreTyped DEF ProjectDynamicSpectra
<1>5. CASE InverseDynamicSpectra
  <2>1. ledger'.gen = ledger.gen /\ pc' \in {"refresh", "commit"}
    BY <1>0, <1>5 DEF InverseDynamicSpectra, TypeOK
  <2> QED BY <1>0, <1>5, <2>1, NumbersAreTyped DEF InverseDynamicSpectra
<1>6. CASE RefreshDynamicSpectra
  <2>1. Len(spectral') = Len(spectral)
    BY <1>6, UpdatesAreTyped
    DEF RefreshDynamicSpectra, TypeInv, TypeOK, Updated, Refilled, Operations
  <2> QED BY <1>0, <1>6, <2>1, NumbersAreTyped DEF RefreshDynamicSpectra
<1>7. CASE CommitStep
  <2>1. progress'.done = progress.done + 1 /\ pc' = "idle"
    BY <1>0, <1>7 DEF CommitStep, TypeOK, Clocks
  <2>2. physical = spectral
    BY <1>7 DEF CommitStep, TypeInv, Refilled
  <2> QED BY <1>0, <1>7, <2>1, <2>2, NumbersAreTyped DEF CommitStep
<1> QED BY <1>1, <1>2, <1>3, <1>4, <1>5, <1>6, <1>7 DEF Step

LEMMA LedgerFail ==
    ASSUME NoInterrupt, TypeInv, LedgerInv, Fail
    PROVE  LedgerInv'
<1> USE DEF LedgerInv, NoneMarked, Marked, fields, AbortGeneration, Faulty
<1>0. TypeOK BY DEF TypeInv
<1>1. CASE PrepareFails
  BY <1>1 DEF PrepareFails
<1>2. CASE RHSFails
  BY <1>2 DEF RHSFails
<1>3. CASE UpdateInterrupted
  BY <1>3 DEF UpdateInterrupted, NoInterrupt
<1>4. CASE ProjectFails
  BY <1>4 DEF ProjectFails
<1>5. CASE InverseFails
  BY <1>0, <1>5, NumbersAreTyped DEF InverseFails
<1>6. CASE RefreshFails
  <2>1. Len(spectral') >= Len(spectral)
    BY <1>0, <1>6, Lengths, NumbersAreTyped DEF RefreshFails
  <2>2. ledger' = ledger /\ progress' = progress /\ store' = store
        /\ pc = "refresh" /\ pc' = "failed" /\ Len(spectral') \in Nat
    BY <1>0, <1>6, Lengths, NumbersAreTyped DEF RefreshFails
  <2> QED BY <1>0, <2>1, <2>2, NumbersAreTyped
<1> QED BY <1>1, <1>2, <1>3, <1>4, <1>5, <1>6 DEF Fail

LEMMA LedgerBetween ==
    ASSUME NoReset, TypeInv, LedgerInv, Between
    PROVE  LedgerInv'
<1> USE DEF LedgerInv, NoneMarked, Marked, fields, solve, clocks, world
<1>0. TypeOK BY DEF TypeInv
<1>1. CASE Observe
  BY <1>1 DEF Observe
<1>2. CASE ObserveFails
  BY <1>2 DEF ObserveFails, Faulty
<1>3. CASE Checkpoint
  <2>1. UNCHANGED <<spectral, physical, ledger, progress, pc>> /\ pc = "idle"
    BY <1>3 DEF Checkpoint
  <2>2. store' = store \cup {Snapshot} /\ Snapshot.spectral = spectral
        /\ Snapshot.physical = physical /\ Snapshot.progress = progress
    BY <1>3 DEF Checkpoint, Snapshot
  <2>3. progress.done <= Len(spectral)
        /\ (Len(spectral) = progress.done => ledger.gen = progress.done)
    BY <1>0, NumbersAreTyped
  <2> QED BY <2>1, <2>2, <2>3
<1>4. CASE CheckpointFails
  BY <1>4 DEF CheckpointFails, Faulty
<1>5. CASE Finish
  BY <1>5 DEF Finish
<1>6. CASE Kill
  BY <1>6 DEF Kill
<1>7. CASE StartAgain
  <2>1. /\ spectral' = <<>> /\ physical' = <<>> /\ Len(spectral') = 0
        /\ ledger'.gen = 0 /\ progress'.done = 0
        /\ pc' = "idle" /\ store' = store
    BY <1>7 DEF StartAgain, Synchronized, Counters
  <2> QED BY <2>1
<1>8. ASSUME NEW c \in store, Restore(c)
      PROVE  LedgerInv'
  <2>1. /\ spectral' = c.spectral /\ physical' = c.physical
        /\ ledger'.gen = c.progress.done /\ progress'.done = c.progress.done
        /\ pc' \in {"idle", "failed"} /\ store' = store
    BY <1>8 DEF Restore, Synchronized, Counters
  <2> QED BY <1>0, <2>1, NumbersAreTyped
<1>9. CASE Retry
  BY <1>9 DEF Retry
<1>10. CASE SetRefreshInterval
  <2>1. progress'.done = progress.done /\ pc' = pc
    BY <1>10 DEF SetRefreshInterval, Counters
  <2> QED BY <1>10, <2>1 DEF SetRefreshInterval
<1>11. CASE Reset
  BY <1>11 DEF Reset, NoReset
<1> QED BY <1>1, <1>2, <1>3, <1>4, <1>5, <1>6, <1>7, <1>8, <1>9, <1>10, <1>11
        DEF Between

\* Nobody resets the solver and no in-place update is cut short: then a
\* failed step that left its mark on the state left the generation ahead of
\* the clock (integrators/step_program.py:84, integrators/step_program.py:76).
THEOREM FailuresShow ==
    ASSUME NoReset, NoInterrupt
    PROVE  Spec => []LedgerTellsFailure
<1>1. Init => LedgerInv
  BY DEF Init, LedgerInv, NoneMarked, Marked, Synchronized, Counters
<1>2. TypeInv /\ LedgerInv /\ [Next]_vars => LedgerInv'
  <2>1. LedgerInv /\ UNCHANGED vars => LedgerInv'
    BY DEF LedgerInv, NoneMarked, Marked, vars, fields, clocks, world
  <2> QED BY <2>1, NextSplits, LedgerStep, LedgerFail, LedgerBetween
<1>3. IInv => TypeInv
  BY DEF IInv
<1>4. LedgerInv => LedgerTellsFailure
  BY DEF LedgerInv, LedgerTellsFailure, NoneMarked
<1> QED BY <1>1, <1>2, <1>3, <1>4, Invariance, PTL DEF Spec
==========================================================================
