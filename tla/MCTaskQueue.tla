---------------------------- MODULE MCTaskQueue ----------------------------
(* Small instance of TaskQueue: an int8_t of two bits and a sign, so that  *)
(* the greatest index is 3, and every queue size up to it.                 *)
EXTENDS TaskQueue

MCQueueSizes == 1 .. Int8Max
=============================================================================
