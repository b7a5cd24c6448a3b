------------------------ MODULE AtomicPublication ------------------------
(***************************************************************************)
(* What checkpoint_directory_transaction promises, whatever the            *)
(* filesystem: one name that holds nothing or one complete checkpoint,     *)
(* written at most once and never replaced, and a success answered only    *)
(* for a checkpoint that is there on stable storage.                       *)
(***************************************************************************)
CONSTANTS
    Writers,
    Content,    \* what each writer's checkpoint holds
    NoContent   \* no checkpoint; not the content of any

VARIABLES
    visible,  \* what readers find at the name
    durable,  \* what they find after a power loss
    answer    \* what each writer was told

Answers == {"none", "success", "other"}

Init == /\ visible = NoContent
        /\ durable = NoContent
        /\ answer = [w \in Writers |-> "none"]

\* A complete checkpoint appears at an empty name in one step.
Publish(w) ==
    /\ visible = NoContent
    /\ visible' = Content[w]
    /\ UNCHANGED <<durable, answer>>

Persist ==
    /\ durable' = visible
    /\ UNCHANGED <<visible, answer>>

Succeed(w) ==
    /\ answer[w] = "none"
    /\ durable = Content[w] /\ visible = Content[w]
    /\ answer' = [answer EXCEPT ![w] = "success"]
    /\ UNCHANGED <<visible, durable>>

\* Refused, failed or left in doubt: nothing is promised.
Decline(w) ==
    /\ answer[w] = "none"
    /\ answer' = [answer EXCEPT ![w] = "other"]
    /\ UNCHANGED <<visible, durable>>

\* A power loss takes back what was not persisted and silences writers.
Lose ==
    /\ visible' = durable
    /\ answer' \in [Writers -> Answers]
    /\ \A w \in Writers : answer'[w] # answer[w] =>
          answer[w] = "none" /\ answer'[w] = "other"
    /\ UNCHANGED durable

Next == \/ \E w \in Writers : Publish(w) \/ Succeed(w) \/ Decline(w)
        \/ Persist \/ Lose

absVars == <<visible, durable, answer>>

Spec == Init /\ [][Next]_absVars
==========================================================================
