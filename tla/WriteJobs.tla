----------------------------- MODULE WriteJobs -----------------------------
(***************************************************************************)
(* What the disk-write worker promises to the downloads that use it,       *)
(* without its mutex, its condition variables, its queue or its Qt events: *)
(* a job that was handed over is carried out, jobs are carried out in the  *)
(* order they were handed over, and the result of each one reaches its     *)
(* file exactly once.  PartFileWriteThread implements this specification.  *)
(***************************************************************************)
EXTENDS Naturals

CONSTANT MaxToken      \* how many jobs are ever handed over

VARIABLE job           \* the life of every job, by its token

Tokens == 1 .. MaxToken

Stage == {"unused", "pending", "done", "taken"}

Init == job = [t \in Tokens |-> "unused"]

(* Tokens are handed out in order and never twice. *)
Fresh(t) == /\ job[t] = "unused"
            /\ \A u \in Tokens : u < t => job[u] # "unused"

(* A download hands its buffer over. *)
Submit(t) == /\ Fresh(t)
             /\ job' = [job EXCEPT ![t] = "pending"]

(* The worker finishes the job that has waited longest. *)
Perform(t) == /\ job[t] = "pending"
              /\ \A u \in Tokens : u < t => job[u] # "pending"
              /\ job' = [job EXCEPT ![t] = "done"]

(* The file takes the result. *)
Collect(t) == /\ job[t] = "done"
              /\ job' = [job EXCEPT ![t] = "taken"]

(* The file takes the result and hands over what arrived in the meantime. *)
Exchange(t, u) == /\ job[t] = "done"
                  /\ Fresh(u)
                  /\ job' = [job EXCEPT ![t] = "taken", ![u] = "pending"]

Next == \E t \in Tokens :
           \/ Submit(t)
           \/ Perform(t)
           \/ Collect(t)
           \/ \E u \in Tokens : Exchange(t, u)

Fairness == \A t \in Tokens : /\ WF_job(Perform(t))
                              /\ WF_job(Collect(t) \/ \E u \in Tokens : Exchange(t, u))

SafeSpec == Init /\ [][Next]_job

Spec == SafeSpec /\ Fairness
=============================================================================
