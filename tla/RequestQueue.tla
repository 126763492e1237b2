---------------------------- MODULE RequestQueue ----------------------------
(***************************************************************************)
(* What the path-tracer promises about render requests, without            *)
(* directories, slots or threads: a request waits, at most Capacity        *)
(* requests are carried out at a time, a request is finished once, and a    *)
(* crash only puts requests that were being carried out back in the queue. *)
(***************************************************************************)
EXTENDS Naturals, FiniteSets

CONSTANTS
  Job,       \* the requests
  Capacity   \* how many may be carried out at a time

VARIABLE status

Running == {j \in Job : status[j] = "running"}

QueueInit == status = [j \in Job |-> "absent"]

Submit(j) ==
  /\ status[j] = "absent"
  /\ status' = [status EXCEPT ![j] = "queued"]

Start(j) ==
  /\ status[j] = "queued"
  /\ Cardinality(Running) < Capacity
  /\ status' = [status EXCEPT ![j] = "running"]

Finish(j) ==
  /\ status[j] = "running"
  /\ status' = [status EXCEPT ![j] = "done"]

Requeue ==
  status' = [j \in Job |-> IF j \in Running THEN "queued" ELSE status[j]]

QueueNext ==
  \/ \E j \in Job : Submit(j) \/ Start(j) \/ Finish(j)
  \/ Requeue

QueueSpec == QueueInit /\ [][QueueNext]_status
=============================================================================
