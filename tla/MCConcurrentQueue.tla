------------------------- MODULE MCConcurrentQueue -------------------------
(* Instances of ConcurrentQueue for TLC; each cfg is one use of the queue.  *)
EXTENDS ConcurrentQueue

\* fragmentQueue_, streamQueue_, commandQueue_ and registrationQueue_ between their
\* configurations: callers that wait or give up, a reader that polls or waits.  No
\* thread of the StorageManager calls enqNowait on these; the unit tests do.
BlockingUse ==
  {"enqWait", "enqTimedWait", "enqNowait", "deqTimedWait", "deqNowait", "setCapacity"}

\* dqmEventQueue_ and the queues of a QueueCollection, which several threads may
\* read.  No thread of the StorageManager calls deqWait; the unit tests do.
DroppingUse ==
  {"enqNowait", "deqNowait", "deqWait", "deqTimedWait", "clear", "setCapacity",
   "setMemory", "addExternallyDroppedEvents"}

\* fragmentQueue_ and the clear() of the exit from Running.
ClearedUse == {"enqWait", "deqTimedWait", "clear"}
=============================================================================
