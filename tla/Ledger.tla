------------------------------- MODULE Ledger -------------------------------
(***************************************************************************)
(* What the object store promises the readers of a benchmark's artifacts,  *)
(* without the attempts, crashes and files behind them: each task          *)
(* publishes at most once, on top of what the task it starts from          *)
(* published, and a publication never changes afterwards.                  *)
(***************************************************************************)
CONSTANTS Tasks,     \* the preparation phases and the workloads
          Attempts,  \* the executions of the runner that may publish
          Nothing,   \* what an unpublished task has published
          Needs(_)   \* the task whose checkpoint a task starts from, or Nothing

VARIABLE published   \* per task: the attempt that published it, and from which

Init == published = [t \in Tasks |-> Nothing]

Publish(t) ==
  /\ published[t] = Nothing
  /\ \E a \in Attempts :
       IF Needs(t) = Nothing
       THEN published' = [published EXCEPT ![t] = [by |-> a, from |-> Nothing]]
       ELSE /\ published[Needs(t)] # Nothing
            /\ published' = [published EXCEPT
                 ![t] = [by |-> a, from |-> published[Needs(t)].by]]

Next == \E t \in Tasks : Publish(t)

Spec == Init /\ [][Next]_published
=============================================================================
