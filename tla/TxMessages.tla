------------------------------ MODULE TxMessages ------------------------------
(* The messages that workers and the transaction manager exchange: the fields  *)
(* of txMessage (transaction_management/msg.h) that some receiver reads.       *)
(* nodeId and the socket address both name the worker and are one field here;  *)
(* the vector clock is left out.                                               *)
CONSTANTS
  Worker,   \* the workers
  Tid,      \* the transaction identifiers users type
  NoTid     \* 0: the identifier of a free slot, and curTid before any join

ASSUME NoTidAssumption == NoTid \notin Tid

AnyTid == Tid \cup {NoTid}

WorkerKind == {"BEGINTX", "JOINTX", "COMMIT", "VOTE_COMMIT", "VOTE_ABORT",
               "POLL_DECISION"}

ManagerKind == {"BEGIN_SUCCESS", "BEGIN_FAIL", "JOIN_SUCCESS", "JOIN_FAIL",
                "PREPARE_COMMIT", "DECIDE_COMMIT", "DECIDE_ABORT"}

ToManager == [kind: WorkerKind, tid: AnyTid, from: Worker, isCrash: BOOLEAN]

ToWorker == [kind: ManagerKind, tid: AnyTid]
===============================================================================
