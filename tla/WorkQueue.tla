------------------------------ MODULE WorkQueue -----------------------------
(***************************************************************************)
(* The client-go work queue the dispatcher cache uses for its unsuspend    *)
(* tasks (unSuspendRBTaskQueue, created in NewDispatcherCache).  It is a   *)
(* library type; only the calls the cache makes are modelled: Add, Get and *)
(* Done.  A queue is a record: the FIFO of waiting keys, the keys that     *)
(* need processing (dirty) and the keys handed out and not yet Done.       *)
(***************************************************************************)
EXTENDS Sequences

EmptyQueue == [queue |-> << >>, dirty |-> {}, processing |-> {}]

QueueTypes(Key) ==
    [queue : Seq(Key), dirty : SUBSET Key, processing : SUBSET Key]

\* A key is queued once; a key being processed waits for Done.
Add(wq, k) ==
    IF k \in wq.dirty THEN wq
    ELSE [wq EXCEPT !.dirty = @ \cup {k},
                    !.queue = IF k \in wq.processing THEN @ ELSE Append(@, k)]

Get(wq) ==
    [queue      |-> Tail(wq.queue),
     dirty      |-> wq.dirty \ {Head(wq.queue)},
     processing |-> wq.processing \cup {Head(wq.queue)}]

Done(wq, k) ==
    [wq EXCEPT !.processing = @ \ {k},
               !.queue = IF k \in wq.dirty THEN Append(@, k) ELSE @]
=============================================================================
