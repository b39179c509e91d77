-------------------------- MODULE JobStateMachine --------------------------
(***************************************************************************)
(* What internal/domain/job_state_machine.go promises of a job: the status *)
(* of a row moves only along the declared transitions.  It is the abstract *)
(* specification of JobRuntime.  No code sets "canceled" yet; it is kept   *)
(* because the source declares it.                                         *)
(***************************************************************************)
CONSTANT Job
VARIABLE status

JobStatus == {"pending", "running", "succeeded", "failed", "canceled"}

jobTransitions ==
    {<<"pending", "running">>, <<"pending", "canceled">>,
     <<"running", "succeeded">>, <<"running", "failed">>,
     <<"running", "pending">>,      \* requeued
     <<"failed", "pending">>}       \* retried by hand

IsJobTransitionAllowed(from, to) == from # to /\ <<from, to>> \in jobTransitions

JobIsTerminal(s) == s \in {"succeeded", "failed", "canceled"}

\* A row is created pending; "absent" stands for a job without a row.
Init == status = [j \in Job |-> "absent"]

Moves(j) ==
    \/ status'[j] = status[j]
    \/ status[j] = "absent" /\ status'[j] = "pending"
    \/ IsJobTransitionAllowed(status[j], status'[j])

\* One statement may move several rows, as the recovery does.
Next ==
    /\ status' \in [Job -> JobStatus \cup {"absent"}]
    /\ \A j \in Job : Moves(j)

Spec == Init /\ [][Next]_status
=============================================================================
