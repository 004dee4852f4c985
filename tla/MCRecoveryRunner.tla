-------------------------- MODULE MCRecoveryRunner --------------------------
(***************************************************************************)
(* Instances of RecoveryRunner: a service with a queue, two events that    *)
(* have the same fix, one with the evidence of two domains, one about a    *)
(* port, and one no fix is registered for.                                 *)
(***************************************************************************)
EXTENDS RecoveryRunner

Project(change) ==
  change @@ [enabled |-> TRUE, auto |-> TRUE, dry |-> FALSE, approval |-> FALSE, rollback |-> TRUE,
             rerun |-> TRUE, remote |-> FALSE, dir |-> TRUE, escalate |-> {},
             allow |-> {"fix-queue-backpressure-1", "fix-worker-1"}]

MCProjects == {Project([remote |-> FALSE]), Project([remote |-> TRUE]),
               Project([approval |-> TRUE]), Project([dry |-> TRUE]),
               Project([allow |-> {"fix-queue-backpressure-1", "fix-network-1"}, rerun |-> FALSE])}

Event(print, type, domains) ==
  [print |-> print, type |-> type, issue |-> type, sure |-> TRUE, text |-> TRUE,
   domains |-> domains]

MCEvents == {Event("queue one", "queue_backpressure", {"queue_backpressure"}),
             Event("queue two", "queue_backpressure", {"queue_backpressure"}),
             Event("worker", "worker_overload", {"worker_overload", "queue_backpressure"}),
             Event("port", "network_port", {}),
             Event("other", "dependency_service", {"dependency_service"})}

Config(prefetch, workers) == [prefetch_count |-> Num(prefetch), consumer_workers |-> Num(workers),
                              metrics_port |-> Num(9100)]
MCContents == {Config(20, 8), Config(1, 8)}
=============================================================================
