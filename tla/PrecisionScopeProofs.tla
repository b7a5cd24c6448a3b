----------------------- MODULE PrecisionScopeProofs -----------------------
(***************************************************************************)
(* The precision scopes put back what they found, for any set of threads,  *)
(* any nesting and any policies.  The inductive invariant says which       *)
(* thread may be inside a scope (ScopeLock), that Torch's coupling holds   *)
(* of every state saved (Coupled), that the saved states form a chain from *)
(* the callers' flags to the present scope (Chain), and how far the flags  *)
(* are on their way to a policy or back (Progress).                        *)
(***************************************************************************)
EXTENDS PrecisionScope, SequenceTheorems, TLAPS

PolicyFlags(on) == [precision |-> IF on THEN "high" ELSE "highest",
                    matmul |-> on, cudnn |-> on]

Scopes == [before : CallerFlags, effective : BOOLEAN]

ScopeLock ==
    \A t \in Threads : /\ scopes[t] # <<>> <=> owner = t
                       /\ scopes[t] = <<>> => doing[t] = "body"

Coupled == /\ flags \in CallerFlags /\ caller \in CallerFlags
           /\ scopes \in [Threads -> Seq(Scopes)]

\* What was saved: by the outermost scope the callers' flags, by an inner
\* one the policy of the scope around it.
Chain ==
    \A t \in Threads : \A i \in 1..Len(scopes[t]) :
        scopes[t][i].before = IF i = 1 THEN caller
                              ELSE PolicyFlags(scopes[t][i-1].effective)

Progress ==
    \A t \in Threads : scopes[t] # <<>> =>
        LET on == Innermost(t).effective
            before == Innermost(t).before
        IN /\ doing[t] \in {"apply2", "apply3"} => flags.matmul = on
           /\ doing[t] \in {"apply2", "apply3"} =>
                 flags.precision = PolicyFlags(on).precision
           /\ doing[t] = "body" => flags = PolicyFlags(on)
           /\ doing[t] = "restore3" => flags.cudnn = before.cudnn

PrecisionInv ==
    /\ PrecisionTypeOK /\ ScopeLock /\ Coupled
    /\ ~meddled => Chain /\ Progress
    /\ CallerStateRoundTrips

----------------------------------------------------------------------------
\* The settings.

\* No setting breaks the coupling.
LEMMA SettingsCoupled ==
    ASSUME NEW f \in CallerFlags, NEW on \in BOOLEAN, NEW p \in Precisions
    PROVE  /\ SetMatmul(f, on) \in CallerFlags
           /\ SetPrecision(f, p) \in CallerFlags
           /\ SetCudnn(f, on) \in CallerFlags
<1>1. SetMatmul(f, on) \in CallerFlags
  BY DEF CallerFlags, Flags, SetMatmul, Precisions
<1>2. SetPrecision(f, p) \in CallerFlags
  BY DEF CallerFlags, Flags, SetPrecision, Precisions
<1>3. SetCudnn(f, on) \in CallerFlags
  BY DEF CallerFlags, Flags, SetCudnn, Precisions
<1> QED BY <1>1, <1>2, <1>3

LEMMA SameFlags ==
    ASSUME NEW f \in Flags, NEW g \in Flags, f.precision = g.precision,
           f.matmul = g.matmul, f.cudnn = g.cudnn
    PROVE  f = g
BY DEF Flags

\* The three assignments of a policy, in order, make that policy.
LEMMA AppliesPolicy ==
    ASSUME NEW f \in CallerFlags, NEW on \in BOOLEAN,
           NEW place \in {"apply1", "apply2", "apply3"},
           place # "apply1" =>
              f.matmul = on /\ f.precision = PolicyFlags(on).precision
    PROVE  /\ Apply(f, place, on) \in CallerFlags
           /\ Apply(f, place, on).matmul = on
           /\ Apply(f, place, on).precision = PolicyFlags(on).precision
           /\ place = "apply3" => Apply(f, place, on) = PolicyFlags(on)
<1>1. CASE place = "apply1"
  BY <1>1, SettingsCoupled
  DEF Apply, SetPrecision, PolicyFlags, Precisions, CallerFlags, Flags
<1>2. CASE place = "apply2"
  BY <1>2, SettingsCoupled
  DEF Apply, SetMatmul, PolicyFlags, Precisions, CallerFlags, Flags
<1>3. CASE place = "apply3"
  BY <1>3, SettingsCoupled
  DEF Apply, SetCudnn, PolicyFlags, Precisions, CallerFlags, Flags
<1> QED BY <1>1, <1>2, <1>3

\* The last assignment of a restore makes the state saved, if the one
\* before restored its own flag: the coupling does the rest.
LEMMA RestoresState ==
    ASSUME NEW f \in CallerFlags, NEW before \in CallerFlags,
           NEW place \in {"restore1", "restore2", "restore3"},
           place = "restore3" => f.cudnn = before.cudnn
    PROVE  /\ Restore(f, place, before) \in CallerFlags
           /\ place = "restore2" =>
                 Restore(f, place, before).cudnn = before.cudnn
           /\ place = "restore3" => Restore(f, place, before) = before
<1>0. before.precision \in Precisions /\ before.matmul \in BOOLEAN
      /\ before.cudnn \in BOOLEAN
  BY DEF CallerFlags, Flags
<1>1. CASE place = "restore1"
  BY <1>0, <1>1, SettingsCoupled DEF Restore
<1>2. CASE place = "restore2"
  BY <1>0, <1>2, SettingsCoupled DEF Restore, SetCudnn, CallerFlags, Flags
<1>3. CASE place = "restore3"
  <2> DEFINE g == SetPrecision(f, before.precision)
  <2>1. Restore(f, place, before) = g
    BY <1>3 DEF Restore
  <2>2. g \in CallerFlags
    BY <1>0, SettingsCoupled
  <2>3. /\ g.precision = before.precision /\ g.cudnn = before.cudnn
        /\ g.matmul = (before.precision # "highest")
    BY <1>0, <1>3 DEF SetPrecision, CallerFlags, Flags
  <2> HIDE DEF g
  <2>4. g.matmul = before.matmul
    BY <2>3 DEF CallerFlags
  <2>5. g = before
    BY <2>2, <2>3, <2>4, SameFlags DEF CallerFlags
  <2> QED BY <1>3, <2>1, <2>2, <2>5
<1> QED BY <1>1, <1>2, <1>3

----------------------------------------------------------------------------
\* Opening and closing scopes.

LEMMA ScopesTyped ==
    ASSUME NEW f \in [Threads -> Seq(Scopes)]
    PROVE  f \in [Threads -> Seq([before : Flags, effective : BOOLEAN])]
<1>1. Scopes \subseteq [before : Flags, effective : BOOLEAN]
  BY DEF Scopes, CallerFlags
<1> QED BY <1>1, SeqMonotonic

LEMMA PushScope ==
    ASSUME NEW seq \in Seq(Scopes), NEW e \in Scopes
    PROVE  /\ Append(seq, e) \in Seq(Scopes) /\ Append(seq, e) # <<>>
           /\ Len(Append(seq, e)) = Len(seq) + 1
           /\ Append(seq, e)[Len(seq) + 1] = e
           /\ \A i \in 1..Len(seq) : Append(seq, e)[i] = seq[i]
           /\ Len(seq) \in Nat
OBVIOUS

LEMMA PopScope ==
    ASSUME NEW seq \in Seq(Scopes), seq # <<>>
    PROVE  LET rest == SubSeq(seq, 1, Len(seq) - 1)
           IN /\ rest \in Seq(Scopes) /\ Len(rest) = Len(seq) - 1
              /\ \A i \in 1..Len(rest) : rest[i] = seq[i]
              /\ rest = <<>> <=> Len(seq) = 1
              /\ Len(seq) \in Nat /\ Len(seq) > 0
<1> DEFINE rest == SubSeq(seq, 1, Len(seq) - 1)
<1>1. Len(seq) \in Nat /\ Len(seq) > 0
  BY EmptySeq
<1>2. rest \in Seq(Scopes) /\ Len(rest) = Len(seq) - 1
      /\ \A i \in 1..Len(rest) : rest[i] = seq[i]
  BY <1>1, SubSeqProperties
<1>3. rest = <<>> <=> Len(rest) = 0
  BY <1>2, EmptySeq
<1> QED BY <1>1, <1>2, <1>3

----------------------------------------------------------------------------
\* The steps.

LEMMA PrecisionInitInv == PrecisionInit => PrecisionInv
<1> SUFFICES ASSUME PrecisionInit PROVE PrecisionInv
  OBVIOUS
<1>1. PrecisionTypeOK
  <2>1. flags \in Flags /\ caller \in Flags
    BY DEF PrecisionInit, CallerFlags
  <2>2. /\ scopes \in [Threads -> Seq([before : Flags, effective : BOOLEAN])]
        /\ doing \in [Threads -> {"apply1", "apply2", "apply3", "body",
                                  "restore1", "restore2", "restore3"}]
    BY DEF PrecisionInit
  <2>3. settings \in 0..MaxSettings
    BY PrecisionAssumption DEF PrecisionInit
  <2> QED BY <2>1, <2>2, <2>3 DEF PrecisionInit, PrecisionTypeOK
<1>2. ScopeLock /\ Coupled
  BY PrecisionAssumption DEF PrecisionInit, ScopeLock, Coupled
<1>3. Chain /\ Progress
  BY DEF PrecisionInit, Chain, Progress
<1> QED BY <1>1, <1>2, <1>3 DEF PrecisionInit, PrecisionInv, CallerStateRoundTrips

\* What is known of the thread that is inside a scope.
LEMMA InScope ==
    ASSUME PrecisionInv, NEW t \in Threads, scopes[t] # <<>>
    PROVE  /\ owner = t /\ owner # NoThread
           /\ scopes[t] \in Seq(Scopes) /\ Len(scopes[t]) \in Nat \ {0}
           /\ Innermost(t) \in Scopes
           /\ Innermost(t).before \in CallerFlags
           /\ Innermost(t).effective \in BOOLEAN
           /\ \A u \in Threads : u # t => scopes[u] = <<>> /\ doing[u] = "body"
<1>1. owner = t /\ owner # NoThread
      /\ \A u \in Threads : u # t => scopes[u] = <<>> /\ doing[u] = "body"
  BY PrecisionAssumption DEF PrecisionInv, ScopeLock
<1>2. scopes[t] \in Seq(Scopes) /\ Len(scopes[t]) \in Nat \ {0}
  BY EmptySeq DEF PrecisionInv, Coupled
<1>3. Innermost(t) \in Scopes
  BY <1>2, ElementOfSeq DEF Innermost
<1>4. Innermost(t).before \in CallerFlags /\ Innermost(t).effective \in BOOLEAN
  BY <1>3 DEF Scopes
<1> QED BY <1>1, <1>2, <1>3, <1>4

LEMMA CallerSetsInv ==
    ASSUME PrecisionInv, NEW t \in Threads, CallerSets(t)
    PROVE  PrecisionInv'
<1>1. flags' \in CallerFlags /\ settings' \in 0..MaxSettings
  BY PrecisionAssumption DEF CallerSets, PrecisionInv, PrecisionTypeOK
<1>2. UNCHANGED <<owner, scopes, doing>> /\ ScopeLock'
  BY DEF CallerSets, PrecisionInv, ScopeLock
<1>3. CASE owner = NoThread
  <2>1. caller' = flags' /\ meddled' = meddled
    BY <1>3 DEF CallerSets
  <2>2. PrecisionTypeOK' /\ Coupled'
    BY <1>1, <1>2, <2>1
    DEF PrecisionInv, PrecisionTypeOK, Coupled, CallerFlags
  <2>3. \A u \in Threads : scopes[u] = <<>>
    BY <1>3, PrecisionAssumption DEF PrecisionInv, ScopeLock
  <2>4. Chain' /\ Progress'
    BY <1>2, <2>3 DEF Chain, Progress
  <2> QED
    BY <1>2, <2>1, <2>2, <2>4 DEF PrecisionInv, CallerStateRoundTrips
<1>4. CASE owner # NoThread
  <2>1. caller' = caller /\ meddled' = TRUE
    BY <1>4 DEF CallerSets
  <2>2. PrecisionTypeOK' /\ Coupled'
    BY <1>1, <1>2, <2>1
    DEF PrecisionInv, PrecisionTypeOK, Coupled, CallerFlags
  <2> QED BY <1>2, <2>1, <2>2 DEF PrecisionInv, CallerStateRoundTrips
<1> QED BY <1>3, <1>4

LEMMA EnterScopeInv ==
    ASSUME PrecisionInv, NEW t \in Threads, EnterScope(t)
    PROVE  PrecisionInv'
<1> DEFINE seq == scopes[t]
           n   == Len(seq)
<1>1. PICK on \in BOOLEAN :
         scopes' = [scopes EXCEPT ![t] =
                       Append(@, [before |-> flags, effective |-> on])]
  BY DEF EnterScope, Policies
<1> DEFINE e == [before |-> flags, effective |-> on]
<1>2. /\ seq \in Seq(Scopes) /\ e \in Scopes /\ flags \in CallerFlags
      /\ scopes \in [Threads -> Seq(Scopes)]
  BY DEF PrecisionInv, Coupled, Scopes
<1>3. /\ scopes'[t] = Append(seq, e)
      /\ \A u \in Threads : u # t => scopes'[u] = scopes[u]
      /\ scopes' \in [Threads -> Seq(Scopes)]
  BY <1>1, <1>2, PushScope
<1>4. /\ scopes'[t] # <<>> /\ Len(scopes'[t]) = n + 1 /\ n \in Nat
      /\ scopes'[t][n + 1] = e
      /\ \A i \in 1..n : scopes'[t][i] = seq[i]
  BY <1>2, <1>3, PushScope
<1>5. /\ doing'[t] = "apply1" /\ owner' = t /\ doing[t] = "body"
      /\ \A u \in Threads : u # t => doing'[u] = doing[u]
      /\ UNCHANGED <<flags, caller, meddled, settings>>
      /\ owner \in {NoThread, t}
      /\ doing' \in [Threads -> {"apply1", "apply2", "apply3", "body",
                                 "restore1", "restore2", "restore3"}]
  BY DEF EnterScope, MayEnter, PrecisionInv, PrecisionTypeOK
<1>6. Coupled'
  BY <1>3, <1>5 DEF PrecisionInv, Coupled
<1>7. PrecisionTypeOK'
  <2>1. scopes' \in [Threads -> Seq([before : Flags, effective : BOOLEAN])]
    BY <1>3, ScopesTyped
  <2> QED BY <2>1, <1>5 DEF PrecisionInv, PrecisionTypeOK
<1>8. \A u \in Threads : u # t => scopes'[u] = <<>> /\ doing'[u] = "body"
  BY <1>3, <1>5, PrecisionAssumption DEF PrecisionInv, ScopeLock
<1>9. ScopeLock'
  BY <1>4, <1>5, <1>8 DEF ScopeLock
<1>10. ASSUME ~meddled PROVE Chain' /\ Progress'
  <2>1. Chain /\ Progress /\ (owner = NoThread => flags = caller)
    BY <1>10 DEF PrecisionInv, CallerStateRoundTrips
  <2>2. flags = IF n = 0 THEN caller ELSE PolicyFlags(seq[n].effective)
    <3>1. CASE seq = <<>>
      BY <2>1, <3>1, <1>5, EmptySeq, PrecisionAssumption
      DEF PrecisionInv, ScopeLock
    <3>2. CASE seq # <<>>
      <4>1. n # 0
        BY <1>2, <3>2, EmptySeq
      <4> QED BY <2>1, <3>2, <4>1, <1>5 DEF Progress, Innermost
    <3> QED BY <3>1, <3>2
  <2>3. \A i \in 1..Len(scopes'[t]) :
           scopes'[t][i].before = IF i = 1 THEN caller
                                  ELSE PolicyFlags(scopes'[t][i-1].effective)
    <3> SUFFICES ASSUME NEW i \in 1..n + 1
                 PROVE  scopes'[t][i].before =
                          IF i = 1 THEN caller
                          ELSE PolicyFlags(scopes'[t][i-1].effective)
      BY <1>4
    <3>1. CASE i \in 1..n
      <4>1. scopes'[t][i] = seq[i]
        BY <1>4, <3>1
      <4>2. i # 1 => scopes'[t][i-1] = seq[i-1]
        BY <1>4, <3>1
      <4>3. seq[i].before = IF i = 1 THEN caller
                            ELSE PolicyFlags(seq[i-1].effective)
        BY <2>1, <3>1 DEF Chain
      <4> QED BY <4>1, <4>2, <4>3
    <3>2. CASE i = n + 1
      <4>1. scopes'[t][i].before = flags
        BY <1>4, <3>2
      <4>2. n # 0 => i # 1 /\ scopes'[t][i-1] = seq[n]
        BY <1>4, <3>2
      <4>3. n = 0 => i = 1
        BY <3>2
      <4> QED BY <2>2, <4>1, <4>2, <4>3
    <3> QED BY <1>4, <3>1, <3>2
  <2>4. Chain'
    BY <1>5, <1>8, <2>3, EmptySeq DEF Chain
  <2>5. Progress'
    BY <1>5, <1>8 DEF Progress
  <2> QED BY <2>4, <2>5
<1>11. CallerStateRoundTrips'
  BY <1>5, PrecisionAssumption DEF CallerStateRoundTrips
<1> QED BY <1>5, <1>6, <1>7, <1>9, <1>10, <1>11 DEF PrecisionInv

\* A flag is set, on the way to a policy.
LEMMA ApplyFlagInv ==
    ASSUME PrecisionInv, NEW t \in Threads, ApplyFlag(t)
    PROVE  PrecisionInv'
<1> DEFINE on == Innermost(t).effective
<1>1. /\ doing[t] \in {"apply1", "apply2", "apply3"} /\ scopes[t] # <<>>
      /\ flags' = Apply(flags, doing[t], on)
      /\ UNCHANGED <<owner, scopes, caller, meddled, settings>>
      /\ \A u \in Threads : u # t => doing'[u] = doing[u]
      /\ doing'[t] = Following(doing[t])
      /\ doing' \in [Threads -> {"apply1", "apply2", "apply3", "body",
                                 "restore1", "restore2", "restore3"}]
  BY DEF ApplyFlag, PrecisionInv, PrecisionTypeOK, ScopeLock, Following
<1>2. /\ on \in BOOLEAN /\ flags \in CallerFlags /\ owner = t
      /\ owner # NoThread
      /\ \A u \in Threads : u # t => scopes[u] = <<>> /\ doing[u] = "body"
  BY <1>1, InScope DEF PrecisionInv, Coupled
<1>3. flags' \in CallerFlags
  <2> HIDE DEF on
  <2>0. "highest" \in Precisions /\ "high" \in Precisions
    BY DEF Precisions
  <2>1. CASE doing[t] = "apply1"
    BY <1>1, <1>2, <2>0, <2>1, SettingsCoupled DEF Apply, on
  <2>2. CASE doing[t] = "apply2"
    BY <1>1, <1>2, <2>0, <2>2, SettingsCoupled DEF Apply, on
  <2>3. CASE doing[t] = "apply3"
    BY <1>1, <1>2, <2>0, <2>3, SettingsCoupled DEF Apply, on
  <2> QED BY <1>1, <2>1, <2>2, <2>3
<1>4. PrecisionTypeOK' /\ Coupled' /\ ScopeLock'
  BY <1>1, <1>2, <1>3
  DEF PrecisionInv, PrecisionTypeOK, Coupled, ScopeLock, CallerFlags
<1>5. ASSUME ~meddled PROVE Chain' /\ Progress'
  <2>1. Chain /\ Progress
    BY <1>5 DEF PrecisionInv
  <2>2. Chain'
    BY <1>1, <2>1 DEF Chain
  <2>3. doing[t] # "apply1" =>
           flags.matmul = on /\ flags.precision = PolicyFlags(on).precision
    BY <1>1, <2>1 DEF Progress
  <2>4. /\ flags'.matmul = on /\ flags'.precision = PolicyFlags(on).precision
        /\ doing[t] = "apply3" => flags' = PolicyFlags(on)
    BY <1>1, <1>2, <2>3, AppliesPolicy
  <2>5. Innermost(t)' = Innermost(t)
    BY <1>1 DEF Innermost
  <2>6. doing'[t] \in {"apply2", "apply3", "body"}
        /\ (doing'[t] = "body" => doing[t] = "apply3")
    BY <1>1 DEF Following
  <2>7. Progress'
    BY <1>1, <1>2, <2>4, <2>5, <2>6 DEF Progress
  <2> QED BY <2>2, <2>7
<1>6. CallerStateRoundTrips'
  BY <1>1, <1>2 DEF CallerStateRoundTrips
<1> QED BY <1>1, <1>4, <1>5, <1>6 DEF PrecisionInv

LEMMA ExitScopeInv ==
    ASSUME PrecisionInv, NEW t \in Threads, ExitScope(t)
    PROVE  PrecisionInv'
<1>1. /\ scopes[t] # <<>> /\ doing'[t] = "restore1"
      /\ UNCHANGED <<flags, owner, scopes, caller, meddled, settings>>
      /\ \A u \in Threads : u # t => doing'[u] = doing[u]
      /\ doing' \in [Threads -> {"apply1", "apply2", "apply3", "body",
                                 "restore1", "restore2", "restore3"}]
  BY DEF ExitScope, PrecisionInv, PrecisionTypeOK
<1>2. PrecisionTypeOK' /\ Coupled' /\ ScopeLock' /\ CallerStateRoundTrips'
  BY <1>1
  DEF PrecisionInv, PrecisionTypeOK, Coupled, ScopeLock, CallerStateRoundTrips
<1>3. ASSUME ~meddled PROVE Chain' /\ Progress'
  BY <1>1, <1>3 DEF PrecisionInv, Chain, Progress, Innermost
<1> QED BY <1>1, <1>2, <1>3 DEF PrecisionInv

\* A flag is put back, but the last.
LEMMA RestoreFlagInv ==
    ASSUME PrecisionInv, NEW t \in Threads, RestoreFlag(t),
           doing[t] # "restore3"
    PROVE  PrecisionInv'
<1> DEFINE before == Innermost(t).before
<1>1. /\ doing[t] \in {"restore1", "restore2"} /\ scopes[t] # <<>>
      /\ flags' = Restore(flags, doing[t], before)
      /\ UNCHANGED <<owner, scopes, caller, meddled, settings>>
      /\ \A u \in Threads : u # t => doing'[u] = doing[u]
      /\ doing'[t] = Following(doing[t])
      /\ doing' \in [Threads -> {"apply1", "apply2", "apply3", "body",
                                 "restore1", "restore2", "restore3"}]
  BY DEF RestoreFlag, PrecisionInv, PrecisionTypeOK, ScopeLock, Following
<1>2. /\ before \in CallerFlags /\ flags \in CallerFlags /\ owner = t
      /\ owner # NoThread
      /\ \A u \in Threads : u # t => scopes[u] = <<>> /\ doing[u] = "body"
  BY <1>1, InScope DEF PrecisionInv, Coupled
<1>3. /\ flags' \in CallerFlags
      /\ doing[t] = "restore2" => flags'.cudnn = before.cudnn
  BY <1>1, <1>2, RestoresState
<1>4. PrecisionTypeOK' /\ Coupled' /\ ScopeLock' /\ CallerStateRoundTrips'
  BY <1>1, <1>2, <1>3
  DEF PrecisionInv, PrecisionTypeOK, Coupled, ScopeLock, CallerFlags,
      CallerStateRoundTrips
<1>5. doing'[t] \in {"restore2", "restore3"}
      /\ (doing'[t] = "restore3" => doing[t] = "restore2")
  BY <1>1 DEF Following
<1>6. ASSUME ~meddled PROVE Chain' /\ Progress'
  <2>1. Innermost(t)' = Innermost(t)
    BY <1>1 DEF Innermost
  <2>2. Chain'
    BY <1>1, <1>6 DEF PrecisionInv, Chain
  <2>3. Progress'
    BY <1>1, <1>2, <1>3, <1>5, <2>1 DEF Progress
  <2> QED BY <2>2, <2>3
<1> QED BY <1>1, <1>4, <1>6 DEF PrecisionInv

\* The last flag is put back: the state is the one the scope found, which is
\* the callers' or the policy of the scope around it.
LEMMA LeaveScopeInv ==
    ASSUME PrecisionInv, NEW t \in Threads, RestoreFlag(t),
           doing[t] = "restore3"
    PROVE  PrecisionInv'
<1> DEFINE before == Innermost(t).before
           seq == scopes[t]
           n == Len(seq)
           rest == SubSeq(seq, 1, n - 1)
<1>1. /\ seq # <<>> /\ flags' = Restore(flags, "restore3", before)
      /\ scopes' = [scopes EXCEPT ![t] = rest]
      /\ doing' = [doing EXCEPT ![t] = "body"]
      /\ owner' = IF n = 1 THEN NoThread ELSE owner
      /\ UNCHANGED <<caller, meddled, settings>>
  BY DEF RestoreFlag, PrecisionInv, ScopeLock
<1>2. /\ before \in CallerFlags /\ flags \in CallerFlags /\ owner = t
      /\ owner # NoThread /\ seq \in Seq(Scopes) /\ n \in Nat \ {0}
      /\ \A u \in Threads : u # t => scopes[u] = <<>> /\ doing[u] = "body"
      /\ scopes \in [Threads -> Seq(Scopes)]
  BY <1>1, InScope DEF PrecisionInv, Coupled
<1>3. /\ rest \in Seq(Scopes) /\ Len(rest) = n - 1
      /\ \A i \in 1..n - 1 : rest[i] = seq[i]
      /\ rest = <<>> <=> n = 1
  BY <1>1, <1>2, PopScope
<1>4. /\ scopes' \in [Threads -> Seq(Scopes)] /\ scopes'[t] = rest
      /\ doing'[t] = "body"
      /\ \A u \in Threads : u # t => scopes'[u] = <<>> /\ doing'[u] = "body"
      /\ doing' \in [Threads -> {"apply1", "apply2", "apply3", "body",
                                 "restore1", "restore2", "restore3"}]
  BY <1>1, <1>2, <1>3 DEF PrecisionInv, PrecisionTypeOK
<1>5. flags' \in CallerFlags
  BY <1>1, <1>2, SettingsCoupled DEF Restore, CallerFlags, Flags
<1>6. PrecisionTypeOK'
  <2>2. scopes' \in [Threads -> Seq([before : Flags, effective : BOOLEAN])]
    BY <1>4, ScopesTyped
  <2>3. owner' \in Threads \cup {NoThread} /\ flags' \in Flags
    BY <1>1, <1>2, <1>5 DEF CallerFlags
  <2> QED BY <1>1, <1>4, <2>2, <2>3 DEF PrecisionInv, PrecisionTypeOK
<1>7. Coupled'
  BY <1>1, <1>4, <1>5 DEF PrecisionInv, Coupled
<1>8. ScopeLock'
  <2>1. \A u \in Threads : u # t => owner' # u
    BY <1>1, <1>2, PrecisionAssumption
  <2>2. scopes'[t] # <<>> <=> owner' = t
    BY <1>1, <1>2, <1>3, <1>4, PrecisionAssumption
  <2> QED BY <1>4, <2>1, <2>2 DEF ScopeLock
<1>9. ASSUME ~meddled PROVE Chain' /\ Progress' /\ CallerStateRoundTrips'
  <2>1. Chain /\ Progress
    BY <1>9 DEF PrecisionInv
  <2>2. flags.cudnn = before.cudnn
    BY <1>1, <2>1 DEF Progress
  <2>3. flags' = before
    BY <1>1, <1>2, <2>2, RestoresState
  <2>4. before = seq[n].before
    BY DEF Innermost
  <2>5. before = IF n = 1 THEN caller ELSE PolicyFlags(seq[n-1].effective)
    <3>1. n \in 1..Len(scopes[t])
      BY <1>2
    <3>2. scopes[t][n].before = IF n = 1 THEN caller
                                ELSE PolicyFlags(scopes[t][n-1].effective)
      BY <2>1, <3>1 DEF Chain
    <3> QED BY <2>4, <3>2
  <2>6. CallerStateRoundTrips'
    BY <1>1, <1>2, <2>3, <2>5 DEF CallerStateRoundTrips
  <2>7. Chain'
    <3>1. \A i \in 1..n - 1 :
             rest[i].before = IF i = 1 THEN caller
                              ELSE PolicyFlags(rest[i-1].effective)
      <4> SUFFICES ASSUME NEW i \in 1..n - 1
                   PROVE  rest[i].before = IF i = 1 THEN caller
                                    ELSE PolicyFlags(rest[i-1].effective)
        OBVIOUS
      <4>1. rest[i] = seq[i] /\ (i # 1 => rest[i-1] = seq[i-1])
        BY <1>2, <1>3
      <4>2. seq[i].before = IF i = 1 THEN caller
                            ELSE PolicyFlags(seq[i-1].effective)
        BY <1>2, <2>1 DEF Chain
      <4> QED BY <4>1, <4>2
    <3> HIDE DEF rest, n
    <3>2. caller' = caller /\ Len(rest) = n - 1 /\ scopes'[t] = rest
      BY <1>1, <1>3, <1>4
    <3>3. \A u \in Threads : u # t => scopes'[u] = <<>>
      BY <1>4
    <3> SUFFICES ASSUME NEW u \in Threads, NEW i \in 1..Len(scopes'[u])
                 PROVE  scopes'[u][i].before =
                           IF i = 1 THEN caller'
                           ELSE PolicyFlags(scopes'[u][i-1].effective)
      BY DEF Chain
    <3>4. u = t
      BY <3>3, EmptySeq
    <3> QED BY <3>1, <3>2, <3>4
  <2>8. Progress'
    <3>1. CASE n = 1
      BY <1>3, <1>4, <3>1 DEF Progress
    <3>2. CASE n # 1
      <4>1. rest[n-1] = seq[n-1] /\ Len(rest) = n - 1
        BY <1>2, <1>3, <3>2
      <4>2. Innermost(t)' = seq[n-1]
        BY <1>4, <4>1 DEF Innermost
      <4>3. flags' = PolicyFlags(Innermost(t)'.effective)
        BY <2>3, <2>5, <3>2, <4>2
      <4> QED BY <1>4, <4>3 DEF Progress
    <3> QED BY <3>1, <3>2
  <2> QED BY <2>6, <2>7, <2>8
<1>10. CallerStateRoundTrips'
  BY <1>1, <1>9 DEF CallerStateRoundTrips
<1> QED BY <1>1, <1>6, <1>7, <1>8, <1>9, <1>10 DEF PrecisionInv

LEMMA PrecisionInvStep ==
    PrecisionInv /\ [PrecisionNext]_precisionVars => PrecisionInv'
<1>1. ASSUME PrecisionInv, PrecisionNext PROVE PrecisionInv'
  <2>1. PICK t \in Threads :
           \/ CallerSets(t) \/ EnterScope(t) \/ ApplyFlag(t) \/ ExitScope(t)
           \/ RestoreFlag(t)
    BY <1>1 DEF PrecisionNext
  <2> QED
    BY <1>1, <2>1, CallerSetsInv, EnterScopeInv, ApplyFlagInv, ExitScopeInv,
       RestoreFlagInv, LeaveScopeInv
<1>2. ASSUME PrecisionInv, UNCHANGED precisionVars PROVE PrecisionInv'
  BY <1>2
  DEF PrecisionInv, PrecisionTypeOK, ScopeLock, Coupled, Chain, Progress,
      CallerStateRoundTrips, Innermost, precisionVars
<1> QED BY <1>1, <1>2

LEMMA PrecisionAlways == PrecisionSpec => []PrecisionInv
BY PrecisionInitInv, PrecisionInvStep, PTL DEF PrecisionSpec

----------------------------------------------------------------------------
\* The theorems.

\* The flags, the lock and the saved states keep their types.
THEOREM PrecisionTypesHold == PrecisionSpec => []PrecisionTypeOK
<1>1. PrecisionInv => PrecisionTypeOK
  BY DEF PrecisionInv
<1> QED BY <1>1, PrecisionAlways, PTL

\* Whatever the threads, the nesting, the policies and the places where
\* entries and bodies raise, the process-wide flags are back at what the
\* callers made them when no scope is open.
THEOREM CallersFindTheirFlags == PrecisionSpec => []CallerStateRoundTrips
<1>1. PrecisionInv => CallerStateRoundTrips
  BY DEF PrecisionInv
<1> QED BY <1>1, PrecisionAlways, PTL

\* The code inside a scope runs under that scope's policy, also after the
\* scopes it opened itself have closed.
THEOREM BodiesHaveTheirPolicy == PrecisionSpec => []BodyHasItsPolicy
<1>1. PrecisionInv => BodyHasItsPolicy
  BY DEF PrecisionInv, Progress, BodyHasItsPolicy, PolicyFlags
<1> QED BY <1>1, PrecisionAlways, PTL
==========================================================================
