---------------------- MODULE ServiceOrderStateMachine ----------------------
(***************************************************************************)
(* The statuses of a service order, the moves between them, and the two    *)
(* tables of the saga that say in which status a message makes sense:      *)
(* src/src/entities/serviceOrderStateMachine.ts and the head of            *)
(* src/src/use-cases/saga/ServiceOrderSaga.ts.                             *)
(*                                                                         *)
(* "NONE" is not a status of the program: it stands for an order that has  *)
(* not been inserted yet, the null that findById returns.                  *)
(***************************************************************************)
EXTENDS Sequences, Naturals

OSStatus == {"RECEIVED", "DIAGNOSIS", "WAITING_APPROVAL", "APPROVED", "PAID",
             "EXECUTION", "FINISHED", "DELIVERED", "REJECTED", "CANCELLED"}

VALID_TRANSITIONS ==
    [s \in OSStatus |->
        CASE s = "RECEIVED"         -> {"DIAGNOSIS", "CANCELLED"}
          [] s = "DIAGNOSIS"        -> {"WAITING_APPROVAL"}
          [] s = "WAITING_APPROVAL" -> {"APPROVED", "REJECTED", "CANCELLED"}
          [] s = "APPROVED"         -> {"PAID", "CANCELLED"}
          [] s = "PAID"             -> {"EXECUTION"}
          [] s = "EXECUTION"        -> {"FINISHED"}
          [] s = "FINISHED"         -> {"DELIVERED"}
          [] OTHER                  -> {}]

canTransition(from, to) == from \in OSStatus /\ to \in VALID_TRANSITIONS[from]

-----------------------------------------------------------------------------
(* The commands the saga writes to the outbox and the replies it receives. *)

SagaCommandType == {"EnqueueDiagnosis", "GenerateBudget", "RequestPayment",
                    "EnqueueRepair", "CancelExecution", "CancelBudget"}

SagaReplyType == {"DiagnosisStarted", "DiagnosisCompleted", "BudgetGenerated",
                  "BudgetApproved", "BudgetRejected", "PaymentConfirmed",
                  "PaymentFailed", "RepairStarted", "RepairCompleted",
                  "ExecutionCancelled", "BudgetCancelled"}

\* A slip: both cancellations go to the Execution Service.
Destination_CancelsTogether(command) ==
    IF command \in {"EnqueueDiagnosis", "EnqueueRepair", "CancelExecution", "CancelBudget"}
    THEN "execution-commands"
    ELSE "billing-commands"

\* The queue each command goes to, as written at every outbox.add of the saga.
Destination(command) ==
    IF command \in {"EnqueueDiagnosis", "EnqueueRepair", "CancelExecution"}
    THEN "execution-commands"
    ELSE "billing-commands"

EXPECTED_STATUS(reply) ==
    CASE reply = "DiagnosisStarted"   -> {"RECEIVED"}
      [] reply = "DiagnosisCompleted" -> {"DIAGNOSIS"}
      [] reply \in {"BudgetGenerated", "BudgetApproved", "BudgetRejected"}
                                      -> {"WAITING_APPROVAL"}
      [] reply \in {"PaymentConfirmed", "PaymentFailed"} -> {"APPROVED"}
      [] reply = "RepairStarted"      -> {"PAID"}
      [] reply = "RepairCompleted"    -> {"EXECUTION"}
      [] reply = "ExecutionCancelled" -> {"REJECTED", "CANCELLED"}
      [] reply = "BudgetCancelled"    -> {"CANCELLED"}

\* FAILED_COMMAND of the code, its two columns as two operators. Compensable
\* are the commands whose row has a list in "cancel"; the others only report.
Compensable == {"EnqueueDiagnosis", "GenerateBudget", "RequestPayment"}

ExpectedOfFailed(command) ==
    CASE command = "EnqueueDiagnosis" -> {"RECEIVED"}
      [] command = "GenerateBudget"   -> {"WAITING_APPROVAL"}
      [] command = "RequestPayment"   -> {"APPROVED"}
      [] command = "EnqueueRepair"    -> {"PAID"}
      [] OTHER                        -> OSStatus
=============================================================================
