-------------------------- MODULE PrecisionScope --------------------------
(***************************************************************************)
(* scoped_tf32_execution: the process-wide precision flags of Torch belong *)
(* to the caller; a scope saves them, applies its own policy and puts them *)
(* back on every exit, one thread at a time under a re-entrant lock.       *)
(* Scopes nest (a functional step inside an execution scope), bodies and   *)
(* entries raise, and threads outside any scope set the flags as they      *)
(* like, though not, if the scopes are to mean anything, during one.       *)
(***************************************************************************)
EXTENDS Naturals, Sequences

CONSTANTS Threads, NoThread,
          MaxDepth,     \* bound on nested scopes
          MaxSettings   \* bound on the settings callers make

ASSUME PrecisionAssumption ==
    NoThread \notin Threads /\ MaxDepth \in Nat /\ MaxSettings \in Nat

VARIABLES flags,    \* the process-wide state
          owner,    \* the thread that holds _TF32_SCOPE_LOCK
          scopes,   \* per thread: the states saved, and the policies applied
          doing,    \* per thread: its place in the innermost scope
          caller,   \* the flags the callers last set outside all scopes
          meddled,  \* a caller set them during a scope of another thread
          settings

precisionVars == <<flags, owner, scopes, doing, caller, meddled, settings>>

Precisions == {"highest", "high", "medium"}
Flags == [precision : Precisions, matmul : BOOLEAN, cudnn : BOOLEAN]
Policies == BOOLEAN     \* whether TF32 is effective

\* Torch couples two of the flags: setting either sets the other.
SetMatmul(f, on) ==
    [f EXCEPT !.matmul = on, !.precision = IF on THEN "high" ELSE "highest"]
SetPrecision(f, p) == [f EXCEPT !.precision = p, !.matmul = (p # "highest")]
SetCudnn(f, on) == [f EXCEPT !.cudnn = on]

Innermost(t) == scopes[t][Len(scopes[t])]

\* _apply_tf32_execution, one assignment after the other.
Apply(f, place, on) ==
    CASE place = "apply1" -> SetPrecision(f, IF on THEN "high" ELSE "highest")
      [] place = "apply2" -> SetMatmul(f, on)
      [] OTHER -> SetCudnn(f, on)

\* Mutant: the public policy is restored first.
RestorePolicyFirst(f, place, before) ==
    CASE place = "restore1" -> SetPrecision(f, before.precision)
      [] place = "restore2" -> SetCudnn(f, before.cudnn)
      [] OTHER -> SetMatmul(f, before.matmul)

\* _restore_tf32_execution: the public policy last.
Restore(f, place, before) ==
    CASE place = "restore1" -> SetMatmul(f, before.matmul)
      [] place = "restore2" -> SetCudnn(f, before.cudnn)
      [] OTHER -> SetPrecision(f, before.precision)

Following(place) ==
    CASE place = "apply1" -> "apply2" [] place = "apply2" -> "apply3"
      [] place = "apply3" -> "body"   [] place = "restore1" -> "restore2"
      [] OTHER -> "restore3"

\* The flags in any state the coupling allows.
CallerFlags == {f \in Flags : f.matmul = (f.precision # "highest")}

PrecisionInit ==
    /\ flags \in CallerFlags /\ caller = flags
    /\ owner = NoThread /\ meddled = FALSE /\ settings = 0
    /\ scopes = [t \in Threads |-> <<>>] /\ doing = [t \in Threads |-> "body"]

\* A caller sets the flags, from a thread that is in no scope.
CallerSets(t) ==
    /\ scopes[t] = <<>> /\ settings < MaxSettings
    /\ \E f \in CallerFlags : flags' = f
    /\ settings' = settings + 1
    /\ IF owner = NoThread THEN caller' = flags' /\ UNCHANGED meddled
                           ELSE meddled' = TRUE /\ UNCHANGED caller
    /\ UNCHANGED <<owner, scopes, doing>>

\* Mutant: the lock is not taken.
MayEnterUnlocked(t) == TRUE

\* The lock is free, or this thread's already.
MayEnter(t) == owner \in {NoThread, t}

EnterScope(t) ==
    /\ doing[t] = "body" /\ Len(scopes[t]) < MaxDepth /\ MayEnter(t)
    /\ \E on \in Policies :
          scopes' = [scopes EXCEPT ![t] =
                        Append(@, [before |-> flags, effective |-> on])]
    /\ owner' = t /\ doing' = [doing EXCEPT ![t] = "apply1"]
    /\ UNCHANGED <<flags, caller, meddled, settings>>

ApplyFlag(t) ==
    /\ doing[t] \in {"apply1", "apply2", "apply3"}
    /\ flags' = Apply(flags, doing[t], Innermost(t).effective)
    /\ doing' = [doing EXCEPT ![t] = Following(@)]
    /\ UNCHANGED <<owner, scopes, caller, meddled, settings>>

\* The body ends or raises, or the entry raises halfway.
ExitScope(t) ==
    /\ scopes[t] # <<>>
    /\ doing[t] \in {"apply1", "apply2", "apply3", "body"}
    /\ doing' = [doing EXCEPT ![t] = "restore1"]
    /\ UNCHANGED <<flags, owner, scopes, caller, meddled, settings>>

\* The last assignment leaves the scope; the outermost one gives up the lock.
RestoreFlag(t) ==
    /\ doing[t] \in {"restore1", "restore2", "restore3"}
    /\ flags' = Restore(flags, doing[t], Innermost(t).before)
    /\ IF doing[t] = "restore3"
       THEN /\ scopes' = [scopes EXCEPT ![t] = SubSeq(@, 1, Len(@) - 1)]
            /\ doing' = [doing EXCEPT ![t] = "body"]
            /\ owner' = IF Len(scopes[t]) = 1 THEN NoThread ELSE owner
       ELSE /\ doing' = [doing EXCEPT ![t] = Following(@)]
            /\ UNCHANGED <<scopes, owner>>
    /\ UNCHANGED <<caller, meddled, settings>>

PrecisionNext ==
    \E t \in Threads : \/ CallerSets(t) \/ EnterScope(t) \/ ApplyFlag(t)
                       \/ ExitScope(t) \/ RestoreFlag(t)

PrecisionSpec == PrecisionInit /\ [][PrecisionNext]_precisionVars
----------------------------------------------------------------------------

PrecisionTypeOK ==
    /\ flags \in Flags /\ caller \in Flags
    /\ owner \in Threads \cup {NoThread}
    /\ scopes \in [Threads -> Seq([before : Flags, effective : BOOLEAN])]
    /\ doing \in [Threads -> {"apply1", "apply2", "apply3", "body",
                              "restore1", "restore2", "restore3"}]
    /\ meddled \in BOOLEAN /\ settings \in 0..MaxSettings

\* Whenever no scope is open the flags are exactly what the callers last
\* made them, however scopes nested, raised and followed one another.
CallerStateRoundTrips == owner = NoThread /\ ~meddled => flags = caller

\* The code inside a scope runs under the policy of that scope: after an
\* inner scope has closed too, and whatever other threads want to enter.
BodyHasItsPolicy ==
    \A t \in Threads :
        scopes[t] # <<>> /\ doing[t] = "body" /\ ~meddled =>
            LET on == Innermost(t).effective
            IN flags = [precision |-> IF on THEN "high" ELSE "highest",
                        matmul |-> on, cudnn |-> on]
==========================================================================
