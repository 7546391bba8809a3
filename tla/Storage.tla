------------------------------- MODULE Storage -------------------------------
(***************************************************************************)
(* The two tables of pybroker/server/storage.py, as operators on the       *)
(* committed contents: `rows' gives every message id the status column of  *)
(* its row, `counts' its delivery_count, `queueRows' gives every queue the *)
(* queue_type of its row.  Every method of Storage is one statement and    *)
(* one commit; aiosqlite runs both on one worker thread.                   *)
(***************************************************************************)
EXTENDS Integers

Status == {"absent", "READY", "IN_FLIGHT"}
QueueType == {"FIFO", "LIFO"}

\* save_queue: INSERT OR IGNORE.
SaveQueue(queueRows, q, type) ==
  IF queueRows[q] = "absent" THEN [queueRows EXCEPT ![q] = type] ELSE queueRows

\* save_message: the id is a fresh uuid, the INSERT meets no other row.
SaveMessage(rows, id) == [rows EXCEPT ![id] = "READY"]

UpdateStatus_done(rows, id, status) ==
  [rows EXCEPT ![id] = IF status = "IN_FLIGHT" THEN "DONE" ELSE status]

\* update_status: an UPDATE of a row that is not there changes nothing.
UpdateStatus(rows, id, status) ==
  IF rows[id] = "absent" THEN rows ELSE [rows EXCEPT ![id] = status]

\* delivery_count = delivery_count + 1, saturating at the bound of the model.
CountDelivery(rows, counts, id, bound) ==
  IF rows[id] = "absent" \/ counts[id] = bound
  THEN counts ELSE [counts EXCEPT ![id] = @ + 1]

\* delete_message: no row, nothing to delete, no error.
DeleteMessage(rows, id) == [rows EXCEPT ![id] = "absent"]

\* reset_in_flight.
ResetInFlight(rows) ==
  [id \in DOMAIN rows |-> IF rows[id] = "IN_FLIGHT" THEN "READY" ELSE rows[id]]

\* load_messages and load_queues: the ids and the names they return.
StoredMessages(rows) == {id \in DOMAIN rows : rows[id] # "absent"}
StoredQueues(queueRows) == {q \in DOMAIN queueRows : queueRows[q] # "absent"}
=============================================================================
