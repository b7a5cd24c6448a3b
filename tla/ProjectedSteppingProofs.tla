--------------------- MODULE ProjectedSteppingProofs ---------------------
(***************************************************************************)
(* What the step program guarantees to every caller, also one who retries  *)
(* failed steps, observes and checkpoints at will, changes the refresh     *)
(* interval or resets the solver.  The inductive invariant has three       *)
(* parts:                                                                  *)
(*   TypeInv  types, and that a step past its update has one to work on;   *)
(*   StepInv  the workspace is open exactly during a step, the spectrum    *)
(*            is current, the counters follow the clock;                   *)
(*   DoneInv  what has completed on the update in progress.                *)
(***************************************************************************)
EXTENDS ProjectedStepping, SequenceTheorems, TLAPS

LEMMA DivisionExists ==
    ASSUME NEW n \in Nat, NEW i \in Nat, i # 0
    PROVE  /\ n \div i \in Nat /\ n % i \in Nat
           /\ n % i < i
           /\ (n \div i) * i + (n % i) = n
  OBVIOUS

LEMMA DivisionUnique ==
    ASSUME NEW n \in Nat, NEW q \in Nat, NEW r \in Nat, NEW i \in Nat,
           r < i, n = q * i + r
    PROVE  n % i = r
BY SMT

LEMMA UpdatesAreTyped ==
    /\ \A s \in States : Tear(s) \in States /\ Tear(s) # <<>>
    /\ \A s \in States, op \in Operations :
          s # <<>> => /\ Mark(s, op) \in States
                      /\ Len(Mark(s, op)) = Len(s)
                      /\ op \in Mark(s, op)[Len(s)].done
                      /\ s[Len(s)].done \subseteq Mark(s, op)[Len(s)].done
<1>1. ASSUME NEW s \in States
      PROVE  Tear(s) \in States /\ Tear(s) # <<>>
  <2>1. [statics |-> Torn, done |-> {}] \in Updates
    BY DEF Updates, Torn
  <2>2. Tear(s) \in States /\ Len(Tear(s)) = Len(s) + 1
    BY <1>1, <2>1, AppendProperties DEF States, Tear
  <2> QED BY <2>2 DEF States
<1>2. ASSUME NEW s \in States, NEW op \in Operations, s # <<>>
      PROVE  /\ Mark(s, op) \in States
             /\ Len(Mark(s, op)) = Len(s)
             /\ op \in Mark(s, op)[Len(s)].done
             /\ s[Len(s)].done \subseteq Mark(s, op)[Len(s)].done
  <2> DEFINE n == Len(s)
             u == [s[n] EXCEPT !.done = @ \cup {op}]
  <2>1. n \in Nat /\ n \in 1 .. n /\ s[n] \in Updates
    BY <1>2 DEF States
  <2>2. Mark(s, op) = [s EXCEPT ![n] = u]
    BY DEF Mark
  <2>3. u \in Updates /\ u.done = s[n].done \cup {op}
    BY <2>1 DEF Updates
  <2>4. [s EXCEPT ![n] = u] \in Seq(Updates)
    BY <1>2, <2>1, <2>3, ExceptSeq DEF States
  <2>5. s \in Seq(Updates) BY DEF States
  <2>6. Len([s EXCEPT ![n] = u]) = n
    BY <2>1, <2>3, <2>5, ExceptSeq
  <2>7. [s EXCEPT ![n] = u][n] = u
    <3> HIDE DEF u
    <3>1. n \in DOMAIN s BY <2>1, <2>5, LenProperties
    <3> HIDE DEF n
    <3> QED BY <3>1
  <2> QED BY <2>2, <2>3, <2>4, <2>6, <2>7 DEF States
<1> QED BY <1>1, <1>2

----------------------------------------------------------------------------
\* Types.

Working == {"prepare", "rhs", "project", "inverse", "refresh", "commit"}

\* A step past its update has one to work on.
Updated == pc \in {"project", "inverse", "refresh", "commit"} => spectral # <<>>
Refilled == pc \in {"refresh", "commit"} => physical = spectral

TypeInv == TypeOK /\ Updated /\ Refilled

LEMMA CountersAreClocks ==
    ASSUME NEW n \in Nat, NEW i \in Nat
    PROVE  Counters(n, i) \in Clocks
BY DivisionExists DEF Counters, Clocks

LEMMA SolvedIsTyped ==
    ASSUME TypeOK
    PROVE  /\ Solved \in Seq(Int) /\ Warmed \in Seq(Int)
           /\ Built \in Seq(Int) /\ LiveGuess \in Seq(Int)
           /\ Torn \in Seq(Int)
BY DEF TypeOK, States, Solved, Warmed, Built, LiveGuess, Torn

LEMMA CommittedIsTyped ==
    ASSUME progress \in Clocks
    PROVE  [progress EXCEPT
              !.done  = @ + 1,
              !.step  = IF RefreshDue THEN 0 ELSE @ + 1,
              !.count = IF RefreshDue THEN @ + 1 ELSE @] \in Clocks
<1>1. /\ progress.done + 1 \in Nat
      /\ (IF RefreshDue THEN 0 ELSE progress.step + 1) \in Nat
      /\ (IF RefreshDue THEN progress.count + 1 ELSE progress.count) \in Nat
  BY DEF Clocks
<1> QED BY <1>1 DEF Clocks

LEMMA MarkedIsTyped ==
    ASSUME ledger \in [gen : Nat, physical : Nat, spectral : Nat]
    PROVE  [ledger EXCEPT !.gen = @ + 1, !.spectral = ledger.gen + 1]
              \in [gen : Nat, physical : Nat, spectral : Nat]
<1>1. ledger.gen + 1 \in Nat
  OBVIOUS
<1> QED BY <1>1

LEMMA TypeStep ==
    ASSUME TypeInv, Step
    PROVE  TypeInv'
<1> USE DEF TypeInv, TypeOK, Updated, Refilled, fields, solve, clocks, world
<1>1. CASE BeginGeneration
  BY <1>1 DEF BeginGeneration
<1>2. CASE PrepareAlgebraic
  BY <1>2, SolvedIsTyped DEF PrepareAlgebraic
<1>3. CASE UpdateSpectral
  <2> DEFINE u == [statics |-> statics,
                   done |-> IF physical = spectral THEN {"rhs"} ELSE {}]
  <2>1. u \in Updates
    BY DEF Updates, Operations
  <2>2. Append(spectral, u) \in States /\ Append(spectral, u) # <<>>
    BY <2>1, AppendProperties DEF States
  <2>3. spectral' \in States /\ spectral' # <<>>
    BY <1>3, <2>2 DEF UpdateSpectral
  <2>4. ledger' \in [gen : Nat, physical : Nat, spectral : Nat]
    BY <1>3, MarkedIsTyped DEF UpdateSpectral
  <2> QED BY <1>3, <2>3, <2>4 DEF UpdateSpectral
<1>4. CASE ProjectDynamicSpectra
  <2>1. Mark(spectral, "project") \in States
        /\ Mark(spectral, "project") # <<>>
    BY <1>4, UpdatesAreTyped, EmptySeq
    DEF ProjectDynamicSpectra, Operations, States
  <2> QED BY <1>4, <2>1 DEF ProjectDynamicSpectra
<1>5. CASE InverseDynamicSpectra
  BY <1>5 DEF InverseDynamicSpectra
<1>6. CASE RefreshDynamicSpectra
  <2>1. Mark(physical, "refresh") \in States
        /\ Mark(physical, "refresh") # <<>>
    BY <1>6, UpdatesAreTyped, EmptySeq
    DEF RefreshDynamicSpectra, Operations, States
  <2> QED BY <1>6, <2>1 DEF RefreshDynamicSpectra
<1>7. CASE CommitStep
  <2>1. progress' \in Clocks
    BY <1>7, CommittedIsTyped DEF CommitStep
  <2> QED BY <1>7, <2>1 DEF CommitStep
<1> QED BY <1>1, <1>2, <1>3, <1>4, <1>5, <1>6, <1>7 DEF Step

LEMMA FaultyIsTyped ==
    ASSUME TypeOK, Faulty
    PROVE  faults' \in Nat /\ UNCHANGED <<policy, store, kills>>
BY DEF TypeOK, Faulty

LEMMA TypeFail ==
    ASSUME TypeInv, Fail
    PROVE  TypeInv'
<1> USE FaultyIsTyped DEF TypeInv, TypeOK, Updated, Refilled, AbortGeneration
<1>1. CASE PrepareFails
  BY <1>1, SolvedIsTyped DEF PrepareFails, SolveFails, fields
<1>2. CASE RHSFails
  BY <1>2 DEF RHSFails, fields, solve
<1>3. CASE UpdateInterrupted
  BY <1>3, UpdatesAreTyped DEF UpdateInterrupted, solve
<1>4. CASE ProjectFails
  BY <1>4 DEF ProjectFails, fields, solve
<1>5. CASE InverseFails
  BY <1>5, UpdatesAreTyped DEF InverseFails, solve
<1>6. CASE RefreshFails
  BY <1>6, UpdatesAreTyped DEF RefreshFails, fields, solve
<1> QED BY <1>1, <1>2, <1>3, <1>4, <1>5, <1>6 DEF Fail

\* What happens between steps.
Between == \/ Observe \/ ObserveFails \/ Checkpoint \/ CheckpointFails
           \/ Finish \/ Kill \/ StartAgain \/ (\E c \in store : Restore(c))
           \/ Retry \/ SetRefreshInterval \/ Reset

LEMMA KeepingIsTyped ==
    ASSUME TypeOK, NEW g \in Seq(Int), SynchronizeKeeping(g)
    PROVE  statics' \in Seq(Int) /\ guess' \in Seq(Int) /\ current' \in BOOLEAN
BY SolvedIsTyped DEF TypeOK, SynchronizeKeeping, solve

LEMMA TypeBetween ==
    ASSUME TypeInv, Between
    PROVE  TypeInv'
<1> USE DEF TypeInv, TypeOK, Updated, Refilled, world
<1>1. CASE Observe
  BY <1>1, KeepingIsTyped, SolvedIsTyped
  DEF Observe, SynchronizeForObservation, fields, clocks
<1>2. CASE ObserveFails
  BY <1>2, SolvedIsTyped, FaultyIsTyped DEF ObserveFails, SolveFails, fields, clocks
<1>3. CASE Checkpoint
  <2>1. statics' \in Seq(Int) /\ guess' \in Seq(Int) /\ current' \in BOOLEAN
    BY <1>3, KeepingIsTyped, SolvedIsTyped DEF Checkpoint
  <2>2. /\ Snapshot.spectral \in States /\ Snapshot.physical \in States
        /\ Snapshot.statics \in Seq(Int) /\ Snapshot.guess \in Seq(Int)
        /\ Snapshot.progress \in Clocks
    BY <2>1, SolvedIsTyped DEF Snapshot
  <2> QED BY <1>3, <2>1, <2>2 DEF Checkpoint, fields, clocks
<1>4. CASE CheckpointFails
  BY <1>4, KeepingIsTyped, SolvedIsTyped, FaultyIsTyped
  DEF CheckpointFails, fields, clocks, solve
<1>5. CASE Finish
  BY <1>5, KeepingIsTyped, SolvedIsTyped
  DEF Finish, SynchronizeForObservation, fields, clocks
<1>6. CASE Kill
  BY <1>6 DEF Kill, fields, solve, clocks
<1>7. CASE StartAgain
  <2>1. <<>> \in States BY DEF States
  <2>2. progress' \in Clocks
    <3>1. PICK i \in Configured : progress' = Counters(0, i)
      BY <1>7 DEF StartAgain
    <3>2. i \in Nat
      BY <3>1, SteppingAssumption DEF Configured
    <3> QED BY <3>1, <3>2, CountersAreClocks
  <2>3. ledger' \in [gen : Nat, physical : Nat, spectral : Nat]
    BY <1>7 DEF StartAgain, Synchronized
  <2>4. statics' \in Seq(Int) /\ guess' \in Seq(Int)
    BY <1>7, SolvedIsTyped DEF StartAgain
  <2> QED BY <1>7, <2>1, <2>2, <2>3, <2>4 DEF StartAgain
<1>8. ASSUME NEW c \in store, Restore(c)
      PROVE  TypeInv'
  <2>1. c.progress.done \in Nat /\ c.progress.interval \in Nat
        /\ Len(c.spectral) \in Nat
    BY DEF Clocks, States
  <2>2. progress' \in Clocks
    BY <1>8, <2>1, CountersAreClocks DEF Restore
  <2>3. statics' \in Seq(Int) /\ guess' \in Seq(Int)
    BY <1>8, <2>1 DEF Restore
  <2>4. ledger' \in [gen : Nat, physical : Nat, spectral : Nat]
    BY <1>8, <2>1 DEF Restore, Synchronized
  <2> QED BY <1>8, <2>2, <2>3, <2>4 DEF Restore
<1>9. CASE Retry
  BY <1>9 DEF Retry, fields, solve, clocks
<1>10. CASE SetRefreshInterval
  <2>1. progress' \in Clocks
    <3>1. progress.done \in Nat
      BY DEF Clocks
    <3>2. PICK i \in Intervals : progress' = Counters(progress.done, i)
      BY <1>10 DEF SetRefreshInterval
    <3>3. i \in Nat
      BY SteppingAssumption
    <3> QED BY <3>1, <3>2, <3>3, CountersAreClocks
  <2> QED BY <1>10, <2>1 DEF SetRefreshInterval, fields, solve
<1>11. CASE Reset
  <2>1. <<>> \in States /\ <<>> \in Seq(Int) BY DEF States
  <2>2. guess' \in Seq(Int)
    BY <1>11 DEF Reset
  <2>3. ledger' \in [gen : Nat, physical : Nat, spectral : Nat]
    BY <1>11 DEF Reset, Synchronized, Clocks
  <2> QED BY <1>11, <2>1, <2>2, <2>3 DEF Reset
<1> QED BY <1>1, <1>2, <1>3, <1>4, <1>5, <1>6, <1>7, <1>8, <1>9, <1>10, <1>11
        DEF Between

LEMMA NextSplits ==
    ASSUME [Next]_vars
    PROVE  Step \/ Fail \/ Between \/ UNCHANGED vars
BY DEF Next, Between

LEMMA TypeInit == Init => TypeInv
<1> SUFFICES ASSUME Init PROVE TypeInv
  OBVIOUS
<1>1. <<>> \in States /\ <<>> \in Seq(Int) /\ Built \in Seq(Int)
  BY DEF States, Built
<1>2. progress \in Clocks
  BY CountersAreClocks, SteppingAssumption DEF Init
<1> QED BY <1>1, <1>2, SteppingAssumption
        DEF Init, TypeInv, TypeOK, Updated, Refilled, Synchronized

----------------------------------------------------------------------------
\* The workspace is open exactly during a step, the spectrum is always the
\* current representation, and the counters follow the clock.

StepInv ==
    /\ pc # "dead" => (active <=> pc \in Working)
    /\ ledger.spectral = ledger.gen
    /\ ClockCoherent

LEMMA CountersCohere ==
    ASSUME NEW n \in Nat, NEW i \in Nat, progress' = Counters(n, i)
    PROVE  ClockCoherent'
BY DivisionExists DEF ClockCoherent, Counters

LEMMA Distributes ==
    ASSUME NEW a \in Nat, NEW b \in Nat
    PROVE  (a + 1) * b = a * b + b
OBVIOUS

LEMMA CommitCoheres ==
    ASSUME TypeInv, ClockCoherent, CommitStep
    PROVE  ClockCoherent'
<1> DEFINE i == progress.interval
           n == progress.done
           k == progress.step
           m == progress.count
<1>1. i \in Nat /\ n \in Nat /\ k \in Nat /\ m \in Nat
  BY DEF TypeInv, TypeOK, Clocks
<1>2. /\ progress'.interval = i /\ progress'.done = n + 1
      /\ progress'.step = IF RefreshDue THEN 0 ELSE k + 1
      /\ progress'.count = IF RefreshDue THEN m + 1 ELSE m
  BY DEF CommitStep, TypeInv, TypeOK, Clocks
<1>3. RefreshDue <=> i # 0 /\ k + 1 >= i
  BY DEF RefreshDue
<1>4. CASE i = 0
  BY <1>1, <1>2, <1>3, <1>4 DEF ClockCoherent
<1>5. CASE i # 0
  <2>1. k < i /\ m * i + k = n
    BY <1>5 DEF ClockCoherent
  <2>2. CASE k + 1 >= i
    <3>1. k + 1 = i
      BY <1>1, <2>1, <2>2
    <3>2. (m + 1) * i = m * i + i
      BY <1>1, Distributes
    <3>3. (m + 1) * i + 0 = n + 1
      BY <1>1, <2>1, <3>1, <3>2
    <3> QED BY <1>1, <1>2, <1>3, <1>5, <2>2, <3>1, <3>3 DEF ClockCoherent
  <2>3. CASE ~(k + 1 >= i)
    <3>1. k + 1 < i /\ m * i + (k + 1) = n + 1
      BY <1>1, <2>1, <2>3
    <3> QED BY <1>1, <1>2, <1>3, <1>5, <2>3, <3>1 DEF ClockCoherent
  <2> QED BY <2>2, <2>3
<1> QED BY <1>4, <1>5

LEMMA StepInvNext ==
    ASSUME TypeInv, StepInv, [Next]_vars
    PROVE  StepInv'
<1> USE DEF StepInv, Working
<1>1. CASE Step
  <2> USE DEF fields, solve, clocks, world
  <2>1. CASE BeginGeneration
    BY <2>1 DEF BeginGeneration, ClockCoherent
  <2>2. CASE PrepareAlgebraic
    BY <2>2 DEF PrepareAlgebraic, ClockCoherent
  <2>3. CASE UpdateSpectral
    <3>1. ledger'.spectral = ledger'.gen
      BY <2>3 DEF UpdateSpectral, TypeInv, TypeOK
    <3> QED BY <2>3, <3>1 DEF UpdateSpectral, ClockCoherent
  <2>4. CASE ProjectDynamicSpectra
    BY <2>4 DEF ProjectDynamicSpectra, ClockCoherent
  <2>5. CASE InverseDynamicSpectra
    <3>1. ledger'.spectral = ledger'.gen
      BY <2>5 DEF InverseDynamicSpectra, TypeInv, TypeOK
    <3> QED BY <2>5, <3>1 DEF InverseDynamicSpectra, ClockCoherent
  <2>6. CASE RefreshDynamicSpectra
    BY <2>6 DEF RefreshDynamicSpectra, ClockCoherent
  <2>7. CASE CommitStep
    BY <2>7, CommitCoheres DEF CommitStep
  <2> QED BY <1>1, <2>1, <2>2, <2>3, <2>4, <2>5, <2>6, <2>7 DEF Step
<1>2. CASE Fail
  BY <1>2 DEF Fail, PrepareFails, RHSFails, UpdateInterrupted, ProjectFails,
     InverseFails, RefreshFails, AbortGeneration, ClockCoherent
<1>3. CASE Between
  <2> USE DEF fields, solve, clocks, world
  <2>1. CASE Observe
    BY <2>1 DEF Observe, ClockCoherent
  <2>2. CASE ObserveFails
    BY <2>2 DEF ObserveFails, ClockCoherent
  <2>3. CASE Checkpoint
    BY <2>3 DEF Checkpoint, ClockCoherent
  <2>4. CASE CheckpointFails
    BY <2>4 DEF CheckpointFails, ClockCoherent
  <2>5. CASE Finish
    BY <2>5 DEF Finish, ClockCoherent
  <2>6. CASE Kill
    BY <2>6 DEF Kill, ClockCoherent
  <2>7. CASE StartAgain
    <3>1. ClockCoherent'
      <4>1. PICK i \in Configured : progress' = Counters(0, i)
        BY <2>7 DEF StartAgain
      <4>2. i \in Nat
        BY <4>1, SteppingAssumption DEF Configured
      <4> QED BY <4>1, <4>2, CountersCohere
    <3> QED BY <2>7, <3>1 DEF StartAgain, Synchronized
  <2>8. ASSUME NEW c \in store, Restore(c)
        PROVE  StepInv'
    <3>1. c.progress.done \in Nat /\ c.progress.interval \in Nat
      BY DEF TypeInv, TypeOK, Clocks
    <3>2. ClockCoherent'
      BY <2>8, <3>1, CountersCohere DEF Restore
    <3> QED BY <2>8, <3>2 DEF Restore, Synchronized
  <2>9. CASE Retry
    BY <2>9 DEF Retry, ClockCoherent
  <2>10. CASE SetRefreshInterval
    <3>1. progress.done \in Nat
      BY DEF TypeInv, TypeOK, Clocks
    <3>2. ClockCoherent'
      <4>1. PICK i \in Intervals : progress' = Counters(progress.done, i)
        BY <2>10 DEF SetRefreshInterval
      <4>2. i \in Nat
        BY SteppingAssumption
      <4> QED BY <3>1, <4>1, <4>2, CountersCohere
    <3> QED BY <2>10, <3>2 DEF SetRefreshInterval
  <2>11. CASE Reset
    BY <2>11 DEF Reset, Synchronized, ClockCoherent
  <2> QED BY <1>3, <2>1, <2>2, <2>3, <2>4, <2>5, <2>6, <2>7, <2>8, <2>9,
             <2>10, <2>11 DEF Between
<1>4. CASE UNCHANGED vars
  BY <1>4 DEF vars, clocks, ClockCoherent
<1> QED BY <1>1, <1>2, <1>3, <1>4, NextSplits

----------------------------------------------------------------------------
\* What completed on the update in progress.

DoneInv ==
    /\ pc \in {"inverse", "refresh", "commit"} =>
         "project" \in spectral[Len(spectral)].done
    /\ pc = "commit" /\ RefreshDue =>
         "refresh" \in spectral[Len(spectral)].done

LEMMA DoneNext ==
    ASSUME TypeInv, DoneInv, [Next]_vars
    PROVE  DoneInv'
<1> USE DEF DoneInv
<1>1. CASE Step
  <2> USE DEF fields, solve, clocks, world
  <2>1. CASE BeginGeneration
    BY <2>1 DEF BeginGeneration
  <2>2. CASE PrepareAlgebraic
    BY <2>2 DEF PrepareAlgebraic
  <2>3. CASE UpdateSpectral
    BY <2>3 DEF UpdateSpectral
  <2>4. CASE ProjectDynamicSpectra
    <3>1. /\ Len(spectral') = Len(spectral)
          /\ "project" \in spectral'[Len(spectral)].done
      BY <2>4, UpdatesAreTyped
      DEF ProjectDynamicSpectra, TypeInv, TypeOK, Updated, Operations
    <3> QED BY <2>4, <3>1 DEF ProjectDynamicSpectra
  <2>5. CASE InverseDynamicSpectra
    BY <2>5 DEF InverseDynamicSpectra, RefreshDue
  <2>6. CASE RefreshDynamicSpectra
    <3>1. /\ Len(spectral') = Len(spectral)
          /\ "refresh" \in spectral'[Len(spectral)].done
          /\ "project" \in spectral'[Len(spectral)].done
      BY <2>6, UpdatesAreTyped
      DEF RefreshDynamicSpectra, TypeInv, TypeOK, Updated, Refilled,
          Operations
    <3> QED BY <2>6, <3>1 DEF RefreshDynamicSpectra
  <2>7. CASE CommitStep
    BY <2>7 DEF CommitStep
  <2> QED BY <1>1, <2>1, <2>2, <2>3, <2>4, <2>5, <2>6, <2>7 DEF Step
<1>2. CASE Fail
  BY <1>2 DEF Fail, PrepareFails, RHSFails, UpdateInterrupted, ProjectFails,
     InverseFails, RefreshFails, AbortGeneration
<1>3. CASE Between
  BY <1>3 DEF Between, Observe, ObserveFails, Checkpoint, CheckpointFails,
     Finish, Kill, StartAgain, Restore, Retry, SetRefreshInterval, Reset
<1>4. CASE UNCHANGED vars
  BY <1>4 DEF vars, fields, clocks, RefreshDue
<1> QED BY <1>1, <1>2, <1>3, <1>4, NextSplits

----------------------------------------------------------------------------
\* The theorems for every caller.

IInv == TypeInv /\ StepInv /\ DoneInv

LEMMA IInvInit == Init => IInv
<1> SUFFICES ASSUME Init PROVE IInv
  OBVIOUS
<1>1. TypeInv
  BY TypeInit
<1>2. ClockCoherent
  BY DivisionExists, SteppingAssumption DEF Init, ClockCoherent, Counters
<1> QED BY <1>1, <1>2
        DEF Init, IInv, StepInv, DoneInv, Working, Synchronized

LEMMA IInvNext ==
    ASSUME IInv, [Next]_vars
    PROVE  IInv'
<1>1. TypeInv'
  <2>1. CASE UNCHANGED vars
    BY <2>1 DEF IInv, TypeInv, TypeOK, Updated, Refilled, vars, fields, solve,
       clocks, world
  <2> QED BY <2>1, NextSplits, TypeStep, TypeFail, TypeBetween DEF IInv
<1> QED BY <1>1, StepInvNext, DoneNext DEF IInv

\* The inductive invariant of the step program, for every caller.
THEOREM Invariance == Spec => []IInv
<1>1. Init => IInv BY IInvInit
<1>2. IInv /\ [Next]_vars => IInv' BY IInvNext
<1> QED BY <1>1, <1>2, PTL DEF Spec

\* Every variable keeps its type, however often steps fail, are retried and
\* runs restarted.
THEOREM TypeCorrect == Spec => []TypeOK
<1>1. IInv => TypeOK BY DEF IInv, TypeInv
<1> QED BY <1>1, Invariance, PTL

\* The phase and the number of refreshes follow from the completed steps, also
\* after the interval was changed or a checkpoint restored
\* (execution/state.py:20, integrators/state_backed.py:154).
THEOREM CoherentClock == Spec => []ClockCoherent
<1>1. IInv => ClockCoherent BY DEF IInv, StepInv
<1> QED BY <1>1, Invariance, PTL

\* No failed step leaves the workspace open or the spectrum stale
\* (integrators/step_program.py:84).
THEOREM RetryAlwaysPossible == Spec => []RetryIsPossible
<1>1. IInv => RetryIsPossible
  BY DEF IInv, StepInv, RetryIsPossible, Working
<1> QED BY <1>1, Invariance, PTL

\* The clock advances last (integrators/step_program.py:83).
THEOREM CommitComesLast == Spec => CommitIsLast
<1> DEFINE Advance ==
      pc \notin {"failed", "dead"} /\ progress'.done = progress.done + 1 =>
         /\ physical = spectral /\ spectral # <<>>
         /\ "project" \in spectral[Len(spectral)].done
         /\ RefreshDue => "refresh" \in spectral[Len(spectral)].done
<1>1. ASSUME IInv, [Next]_vars
      PROVE  Advance
  <2> USE DEF fields, solve, clocks, world
  <2>1. progress.done \in Nat /\ progress.done # progress.done + 1
    BY <1>1 DEF IInv, TypeInv, TypeOK, Clocks
  <2>2. CASE CommitStep
    BY <1>1, <2>2 DEF CommitStep, IInv, TypeInv, Updated, Refilled, DoneInv
  <2>3. CASE Step /\ ~CommitStep
    BY <2>1, <2>3 DEF Step, BeginGeneration, PrepareAlgebraic, UpdateSpectral,
       ProjectDynamicSpectra, InverseDynamicSpectra, RefreshDynamicSpectra
  <2>4. CASE Fail
    BY <2>1, <2>4 DEF Fail, PrepareFails, RHSFails, UpdateInterrupted,
       ProjectFails, InverseFails, RefreshFails
  <2>5. CASE SetRefreshInterval
    BY <2>1, <2>5 DEF SetRefreshInterval, Counters
  <2>6. CASE Between /\ ~SetRefreshInterval
    BY <2>1, <2>6 DEF Between, Observe, ObserveFails, Checkpoint,
       CheckpointFails, Finish, Kill, StartAgain, Restore, Retry, Reset
  <2>7. CASE UNCHANGED vars
    BY <2>1, <2>7 DEF vars
  <2> QED BY <1>1, <2>2, <2>3, <2>4, <2>5, <2>6, <2>7, NextSplits
<1>2. IInv /\ [Next]_vars => [Advance]_vars
  BY <1>1
<1> QED BY <1>2, Invariance, PTL DEF Spec, CommitIsLast
====
