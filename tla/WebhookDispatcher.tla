-------------------------- MODULE WebhookDispatcher --------------------------
(***************************************************************************)
(* Outgoing webhooks (internal/notifications/dispatcher.go): a goroutine   *)
(* per event looks the subscribers up under the context of its request and *)
(* queues one job for each; workers POST the jobs; a failed one is queued  *)
(* again by a sleeping goroutine until its attempts are used up; and the   *)
(* gateway stops the dispatcher while all of these are running.            *)
(***************************************************************************)
EXTENDS Naturals, Sequences, FiniteSets, SequencesExt

CONSTANTS Event,        \* each emitted by one request
          Webhook,      \* the enabled webhooks subscribed to them
          Worker,
          BufferSize,   \* capacity of the queue
          MaxRetries,
          Delays,       \* length of the table retryDelays
          Faults        \* whether calls to Postgres may fail

ASSUME DispatcherAssumption ==
  /\ BufferSize \in Nat \ {0} /\ MaxRetries \in Nat \ {0} /\ Delays \in Nat
  /\ Faults \in BOOLEAN

VARIABLES emit,       \* emit[e]: the goroutine that emits e
          ctxDone,    \* events whose request is over, and its context with it
          queue,      \* d.queue
          closed, cancelled,
          worker,     \* worker[w]: idle, posting a job, or exited
          sleeping,   \* retries waiting out their delay
          logs,       \* rows of webhook_deliveries
          stop,       \* the main goroutine, from serving to stopped
          process,    \* up, crashed or exited
          posts,      \* history: posts[j]: attempts begun of j
          fate        \* history: fate[j]: what became of j

vars == <<emit, ctxDone, queue, closed, cancelled, worker, sleeping, logs, stop,
          process, posts, fate>>

Job == Event \X Webhook
Queued == [job : Job, attempt : 0..(MaxRetries - 1)]
Idle == [pc |-> "idle"]
Exited == [pc |-> "exited"]

Init ==
  /\ emit = [e \in Event |-> [pc |-> "idle"]]
  /\ ctxDone = {}
  /\ queue = <<>> /\ closed = FALSE /\ cancelled = FALSE
  /\ worker = [w \in Worker |-> Idle]
  /\ sleeping = {} /\ logs = {}
  /\ stop = "serving" /\ process = "up"
  /\ posts = [j \in Job |-> 0] /\ fate = [j \in Job |-> "none"]

(* A send on a closed channel panics; no goroutine here recovers. *)
Panic == process' = "crashed"
Full == Len(queue) = BufferSize
----------------------------------------------------------------------------
(* emitEvent starts the goroutine of Emit and does not wait for it; the
   request goes on, returns, and its context is cancelled. *)
StartEmit(e) ==
  /\ emit[e].pc = "idle"
  /\ emit' = [emit EXCEPT ![e] = [pc |-> "lookup"]]
  /\ UNCHANGED <<ctxDone, queue, closed, cancelled, worker, sleeping, logs, stop,
                 process, posts, fate>>

EndRequest(e) ==
  /\ emit[e].pc # "idle" /\ e \notin ctxDone
  /\ ctxDone' = ctxDone \cup {e}
  /\ UNCHANGED <<emit, queue, closed, cancelled, worker, sleeping, logs, stop,
                 process, posts, fate>>

(* GetSubscribers: its error, a cancelled context among them, ends Emit. *)
Lookup(e) ==
  /\ emit[e].pc = "lookup"
  /\ \/ /\ e \notin ctxDone
        /\ emit' = [emit EXCEPT ![e] = [pc |-> "send", to |-> Webhook]]
     \/ /\ e \in ctxDone \/ Faults
        /\ emit' = [emit EXCEPT ![e] = [pc |-> "failed"]]
  /\ UNCHANGED <<ctxDone, queue, closed, cancelled, worker, sleeping, logs, stop,
                 process, posts, fate>>

(* One subscriber of the loop: queued, or dropped when the queue is full. *)
Push(e) ==
  /\ emit[e].pc = "send"
  /\ \E h \in emit[e].to :
       /\ emit' = [emit EXCEPT ![e] = IF emit[e].to = {h} THEN [pc |-> "sent"]
                                      ELSE [pc |-> "send", to |-> emit[e].to \ {h}]]
       /\ \/ closed /\ Panic /\ UNCHANGED <<queue, fate>>
          \/ /\ ~closed /\ ~Full
             /\ queue' = Append(queue, [job |-> <<e, h>>, attempt |-> 0])
             /\ UNCHANGED <<process, fate>>
          \/ /\ ~closed /\ Full
             /\ fate' = [fate EXCEPT ![<<e, h>>] = "dropped"]
             /\ UNCHANGED <<queue, process>>
  /\ UNCHANGED <<ctxDone, closed, cancelled, worker, sleeping, logs, stop, posts>>
----------------------------------------------------------------------------
(* worker: select may take a job even when the context is done. *)
TakeKept(w) ==                   \* mutant: the job stays at the head of the queue
  /\ worker[w] = Idle /\ queue # <<>>
  /\ worker' = [worker EXCEPT ![w] = [pc |-> "post", item |-> Head(queue)]]
  /\ posts' = [posts EXCEPT ![Head(queue).job] = @ + 1]
  /\ UNCHANGED <<emit, ctxDone, queue, closed, cancelled, sleeping, logs, stop, process, fate>>

Take(w) ==
  /\ worker[w] = Idle /\ queue # <<>>
  /\ worker' = [worker EXCEPT ![w] = [pc |-> "post", item |-> Head(queue)]]
  /\ queue' = Tail(queue)
  /\ posts' = [posts EXCEPT ![Head(queue).job] = @ + 1]
  /\ UNCHANGED <<emit, ctxDone, closed, cancelled, sleeping, logs, stop, process, fate>>

(* The URL of the webhook makes no request: deliver returns at once, on the
   first attempt, and neither logs nor retries. *)
Unsendable(w) ==
  /\ worker[w].pc = "post" /\ worker[w].item.attempt = 0
  /\ worker' = [worker EXCEPT ![w] = Idle]
  /\ fate' = [fate EXCEPT ![worker[w].item.job] = "unsent"]
  /\ UNCHANGED <<emit, ctxDone, queue, closed, cancelled, sleeping, logs, stop,
                 process, posts>>

(* LogDelivery, under the dispatcher's context; its error is dropped. *)
Log(item, status) ==
  \/ /\ ~cancelled
     /\ logs' = logs \cup {[job |-> item.job, status |-> status, attempts |-> item.attempt + 1]}
  \/ (cancelled \/ Faults) /\ UNCHANGED logs

(* The endpoint answers 2xx; after the context is done nobody hears it. *)
Delivered(w) ==
  /\ worker[w].pc = "post" /\ ~cancelled
  /\ worker' = [worker EXCEPT ![w] = Idle]
  /\ fate' = [fate EXCEPT ![worker[w].item.job] = "delivered"]
  /\ Log(worker[w].item, "delivered")
  /\ UNCHANGED <<emit, ctxDone, queue, closed, cancelled, sleeping, stop, process, posts>>

(* Any other answer, a timeout, or the end of the context: handleFailure
   retries after a delay until the attempts are used up.  The goroutine that
   sleeps is started a moment before the row is written: one step here. *)
ExhaustedEarly(item) == item.attempt + 2 >= MaxRetries    \* mutant: off by one

Exhausted(item) == item.attempt + 1 >= MaxRetries

HandleFailure(item) ==
  \/ /\ Exhausted(item)
     /\ fate' = [fate EXCEPT ![item.job] = "dead_letter"]
     /\ Log(item, "dead_letter")
     /\ UNCHANGED sleeping
  \/ /\ ~Exhausted(item)
     /\ sleeping' = sleeping \cup {[job |-> item.job, attempt |-> item.attempt + 1]}
     /\ Log(item, "failed")
     /\ UNCHANGED fate

FailedAgain(w) ==                \* mutant: the last failure is retried as well
  /\ worker[w].pc = "post"
  /\ LET item == worker[w].item
     IN /\ worker' = [worker EXCEPT ![w] = Idle]
        /\ sleeping' = sleeping \cup {[job |-> item.job,
                          attempt |-> IF Exhausted(item) THEN item.attempt ELSE item.attempt + 1]}
        /\ Log(item, IF Exhausted(item) THEN "dead_letter" ELSE "failed")
  /\ UNCHANGED <<emit, ctxDone, queue, closed, cancelled, stop, process, posts, fate>>

FailedExits(w) ==                \* mutant: the worker returns after a failure
  /\ worker[w].pc = "post"
  /\ worker' = [worker EXCEPT ![w] = Exited]
  /\ HandleFailure(worker[w].item)
  /\ UNCHANGED <<emit, ctxDone, queue, closed, cancelled, stop, process, posts>>

Failed(w) ==
  /\ worker[w].pc = "post"
  /\ worker' = [worker EXCEPT ![w] = Idle]
  /\ HandleFailure(worker[w].item)
  /\ UNCHANGED <<emit, ctxDone, queue, closed, cancelled, stop, process, posts>>

(* The delay is over: queued again, dropped when the queue is full, or a
   panic when it was closed meanwhile. *)
Wake(item) ==
  /\ sleeping' = sleeping \ {item}
  /\ \/ closed /\ Panic /\ UNCHANGED <<queue, fate>>
     \/ ~closed /\ ~Full /\ queue' = Append(queue, item) /\ UNCHANGED <<process, fate>>
     \/ ~closed /\ Full /\ fate' = [fate EXCEPT ![item.job] = "dropped"]
                        /\ UNCHANGED <<queue, process>>
  /\ UNCHANGED <<emit, ctxDone, closed, cancelled, worker, logs, stop, posts>>

Exit(w) ==
  /\ worker[w] = Idle
  /\ cancelled \/ (closed /\ queue = <<>>)
  /\ worker' = [worker EXCEPT ![w] = Exited]
  /\ UNCHANGED <<emit, ctxDone, queue, closed, cancelled, sleeping, logs, stop,
                 process, posts, fate>>
----------------------------------------------------------------------------
(* Stop: cancel, close, wait for the workers; then the HTTP server shuts
   down, and the process ends with whatever still runs. *)
Cancel ==
  /\ stop = "serving"
  /\ stop' = "cancelled" /\ cancelled' = TRUE
  /\ UNCHANGED <<emit, ctxDone, queue, closed, worker, sleeping, logs, process, posts, fate>>

Close ==
  /\ stop = "cancelled"
  /\ stop' = "closed" /\ closed' = TRUE
  /\ UNCHANGED <<emit, ctxDone, queue, cancelled, worker, sleeping, logs, process, posts, fate>>

Wait ==
  /\ stop = "closed" /\ \A w \in Worker : worker[w] = Exited
  /\ stop' = "stopped"
  /\ UNCHANGED <<emit, ctxDone, queue, closed, cancelled, worker, sleeping, logs,
                 process, posts, fate>>

ExitProcess ==
  /\ stop = "stopped"
  /\ process' = "exited"
  /\ UNCHANGED <<emit, ctxDone, queue, closed, cancelled, worker, sleeping, logs, stop,
                 posts, fate>>

Emit(e) == StartEmit(e) \/ EndRequest(e) \/ Lookup(e) \/ Push(e)
Work(w) == Take(w) \/ Unsendable(w) \/ Delivered(w) \/ Failed(w) \/ Exit(w)
Stop == Cancel \/ Close \/ Wait \/ ExitProcess

Next ==
  /\ process = "up"
  /\ \/ \E e \in Event : Emit(e)
     \/ \E w \in Worker : Work(w)
     \/ \E item \in sleeping : Wake(item)
     \/ Stop

(* The Go scheduler runs the workers, http.Client times a POST out, and
   delays end; nothing obliges the gateway to stop. *)
Spec ==
  /\ Init /\ [][Next]_vars
  /\ \A w \in Worker : WF_vars(process = "up" /\ Work(w))
  /\ \A item \in Queued : WF_vars(process = "up" /\ item \in sleeping /\ Wake(item))
----------------------------------------------------------------------------
TypeOK ==
  /\ queue \in Seq(Queued) /\ Len(queue) <= BufferSize
  /\ sleeping \subseteq Queued
  /\ \A w \in Worker : worker[w].pc \in {"idle", "exited"}
                       \/ (worker[w].pc = "post" /\ worker[w].item \in Queued)
  /\ posts \in [Job -> Nat]
  /\ fate \in [Job -> {"none", "delivered", "dead_letter", "dropped", "unsent"}]

(* Where a job is: at most one of queued, posting and sleeping, so that no
   webhook gets one event twice at once. *)
Places(j) ==
  Cardinality({i \in DOMAIN queue : queue[i].job = j})
  + Cardinality({w \in Worker : worker[w].pc = "post" /\ worker[w].item.job = j})
  + Cardinality({item \in sleeping : item.job = j})

OneCopy == \A j \in Job : Places(j) <= 1

(* dispatcher.go:167-187: a job is given up exactly when its attempts are
   used up, and once delivered or given up it is never seen again. *)
VerdictIsFinal ==
  \A j \in Job :
    /\ posts[j] <= MaxRetries
    /\ fate[j] # "none" => Places(j) = 0
    /\ fate[j] = "dead_letter" => posts[j] = MaxRetries

(* dispatcher.go:149-203: the delivery log tells what happened: no attempt
   has two rows, and a verdict in it is the last word on its job. *)
LogsAreTrue ==
  \A row \in logs :
    /\ row.attempts <= posts[row.job]
    /\ row.status # "failed" => /\ fate[row.job] = row.status
                                /\ row.attempts = posts[row.job]
    /\ \A other \in logs :
         other.job = row.job /\ other.attempts = row.attempts => other = row

(* While the gateway serves, every job queued comes to an end. *)
JobsSettle ==
  \A j \in Job : Places(j) > 0 ~> (fate[j] # "none" \/ stop # "serving")

(* main.go:1494: "Stop webhook dispatcher (drain queue)"; PROJECT_STATUS.md:96:
   "Graceful shutdown drains queue". *)
StopDrainsQueue == stop = "stopped" => queue = <<>>

(* dispatcher.go:100: "Stop gracefully shuts down the dispatcher". *)
StopIsGraceful == process # "crashed"

(* dashboard docs/webhooks/page.tsx:97: rate_limit is fired when "A request
   is rate-limited", cache_hit when "A prompt matches": with a database that
   answers, the subscribers of an event are found. *)
EventsFindSubscribers == \A e \in Event : emit[e].pc # "failed"

(* PROJECT_STATUS.md:95: "Retry with exponential backoff (1s -> 5s -> 30s ->
   2m -> 10m)": a job is given up when each delay of the table was waited. *)
EveryDelayIsWaited ==
  \A j \in Job : fate[j] = "dead_letter" => posts[j] = Delays + 1
============================================================================
