------------------------------ MODULE CallEffects ------------------------------
(***************************************************************************)
(* What a call of the SDK promises about the request it stands for: it is  *)
(* carried out at most once; a nil error means that it has been, a refusal *)
(* that it never is, and any other error means neither: it may still be    *)
(* carried out later.                                                      *)
(***************************************************************************)
EXTENDS Naturals

CONSTANT Calls

VARIABLES outcome,   \* what the caller of each call was told
          executed   \* how many times its request was carried out

Outcomes == {"none", "open", "succeeded", "refused", "unclear"}

Init == /\ outcome = [id \in Calls |-> "none"]
        /\ executed = [id \in Calls |-> 0]

Begin(id) == /\ outcome[id] = "none"
             /\ outcome' = [outcome EXCEPT ![id] = "open"]
             /\ UNCHANGED executed

Execute(id) == /\ outcome[id] \in {"open", "unclear"} /\ executed[id] = 0
               /\ executed' = [executed EXCEPT ![id] = 1]
               /\ UNCHANGED outcome

Return(id, answer) == /\ outcome[id] \in {"none", "open"}
                      /\ answer = "succeeded" => executed[id] = 1
                      /\ answer = "refused" => executed[id] = 0
                      /\ outcome' = [outcome EXCEPT ![id] = answer]
                      /\ UNCHANGED executed

Next == \E id \in Calls : \/ Begin(id) \/ Execute(id)
                          \/ \E answer \in {"succeeded", "refused", "unclear"} : Return(id, answer)

Spec == Init /\ [][Next]_<<outcome, executed>>

=============================================================================
