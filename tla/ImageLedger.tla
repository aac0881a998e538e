----------------------------- MODULE ImageLedger -----------------------------
(***************************************************************************)
(* What the image pipeline promises about one row of "images" and the      *)
(* current rows of "predictions" behind it, with the queue, the workers,   *)
(* the transactions and their failures left out.                           *)
(*                                                                         *)
(*   status[i]   the committed images.status of image i, "absent" before   *)
(*               the upload's transaction commits                          *)
(*   current[i]  how many committed predictions of i have                  *)
(*               superseded_at NULL: each one is a vote in the progress    *)
(*               aggregation                                               *)
(*                                                                         *)
(* A score and the status "inferred" appear in one commit; a vote is only  *)
(* ever withdrawn from an image that stops being shown as scored, or has;  *)
(* an image never has two votes.                                           *)
(***************************************************************************)
EXTENDS Naturals

CONSTANT Images

Refusals == {"rejected", "failed"}
Settled  == {"inferred"} \union Refusals
Status   == {"absent", "pending"} \union Settled

VARIABLES status, current

ledger == <<status, current>>

Init ==
    /\ status  = [i \in Images |-> "absent"]
    /\ current = [i \in Images |-> 0]

\* The upload is stored.
Accept(i) ==
    /\ status[i] = "absent"
    /\ status' = [status EXCEPT ![i] = "pending"]
    /\ UNCHANGED current

\* A worker scores the image: the vote and the status in one commit.
Score(i) ==
    /\ status[i] \notin {"absent", "inferred"}
    /\ current[i] = 0
    /\ status'  = [status EXCEPT ![i] = "inferred"]
    /\ current' = [current EXCEPT ![i] = 1]

\* A worker finds it unusable: no vote is added, none is withdrawn.
Refuse(i) ==
    /\ status[i] # "absent"
    /\ \E refusal \in Refusals : status' = [status EXCEPT ![i] = refusal]
    /\ UNCHANGED current

\* A person asks for it to be scored again: the vote, if the request saw one,
\* is withdrawn in the commit that makes the image pending.
Reopen(i) ==
    /\ status[i] # "absent"
    /\ status' = [status EXCEPT ![i] = "pending"]
    /\ current' \in {current, [current EXCEPT ![i] = 0]}

\* The vote is withdrawn from an image that is not shown as scored any more.
Withdraw(i) ==
    /\ status[i] \notin {"absent", "inferred"}
    /\ current' = [current EXCEPT ![i] = 0]
    /\ UNCHANGED status

Next ==
    \E i \in Images : Accept(i) \/ Score(i) \/ Refuse(i) \/ Reopen(i) \/ Withdraw(i)

Spec == Init /\ [][Next]_ledger
=============================================================================
