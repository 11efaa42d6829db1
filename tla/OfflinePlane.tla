---------------------------- MODULE OfflinePlane ----------------------------
(***************************************************************************)
(* The channel plane of offline learning (internal/offline/plane.go):      *)
(* requests emit events into a bounded channel without ever waiting,       *)
(* workers hand them to the miners, a ticker flushes the miners, and the   *)
(* gateway stops the plane while requests are still being served (main.go  *)
(* stops it before the HTTP server).                                       *)
(***************************************************************************)
EXTENDS Naturals, Sequences, FiniteSets, SequencesExt

CONSTANTS Event,       \* one per request that emits
          Worker,
          BufferSize   \* capacity of the channel

(* NewPlane replaces a buffer or a number of workers that is not positive. *)
ASSUME PlaneAssumption ==
  /\ BufferSize \in Nat \ {0}
  /\ IsFiniteSet(Event) /\ IsFiniteSet(Worker) /\ Worker # {}

VARIABLES running,     \* p.running
          events,      \* what is buffered in p.events
          closed,      \* close(p.events) was called
          cancelled,   \* the workers' context is done
          emit,        \* emit[e]: where the request of e is in Emit
          worker,      \* worker[w]: the loop of w
          flusher,     \* the loop of the flusher
          stop,        \* the main goroutine, from serving to stopped
          emitted, dropped, processed,   \* the counters
          mined,       \* events every miner has processed
          flushed,     \* those of them a Flush has seen
          early        \* history: events in the channel when the context ended

counters == <<emitted, dropped, processed>>
channel == <<events, closed>>
vars == <<running, channel, cancelled, emit, worker, flusher, stop, counters,
          mined, flushed, early>>

Selecting == [pc |-> "select"]
Draining == [pc |-> "drain"]
Exited == [pc |-> "exited"]

Init ==
  /\ running = TRUE /\ events = <<>> /\ closed = FALSE /\ cancelled = FALSE
  /\ emit = [e \in Event |-> "idle"]
  /\ worker = [w \in Worker |-> Selecting]
  /\ flusher = "ticking" /\ stop = "serving"
  /\ emitted = 0 /\ dropped = 0 /\ processed = 0
  /\ mined = {} /\ flushed = {} /\ early = {}
----------------------------------------------------------------------------
(* Emit: the flag is read, the event is counted, and the select sends it,
   drops it, or panics because the channel was closed meanwhile. *)
Check(e) ==
  /\ emit[e] = "idle"
  /\ emit' = [emit EXCEPT ![e] = IF running THEN "checked" ELSE "ignored"]
  /\ UNCHANGED <<running, channel, cancelled, worker, flusher, stop, counters,
                 mined, flushed, early>>

Count(e) ==
  /\ emit[e] = "checked"
  /\ emit' = [emit EXCEPT ![e] = "counted"]
  /\ emitted' = emitted + 1
  /\ UNCHANGED <<running, channel, cancelled, worker, flusher, stop, dropped, processed,
                 mined, flushed, early>>

SendUnbounded(e) ==              \* mutant: the channel has no capacity
  /\ emit[e] = "counted" /\ ~closed
  /\ events' = Append(events, e)
  /\ emit' = [emit EXCEPT ![e] = "queued"]
  /\ UNCHANGED <<running, closed, cancelled, worker, flusher, stop, counters,
                 mined, flushed, early>>

SendUncounted(e) ==              \* mutant: a drop is not counted
  /\ emit[e] = "counted" /\ ~closed
  /\ IF Len(events) < BufferSize
     THEN events' = Append(events, e) /\ emit' = [emit EXCEPT ![e] = "queued"]
     ELSE emit' = [emit EXCEPT ![e] = "dropped"] /\ UNCHANGED events
  /\ UNCHANGED <<running, closed, cancelled, worker, flusher, stop, counters,
                 mined, flushed, early>>

Send(e) ==
  /\ emit[e] = "counted"
  /\ \/ /\ closed
        /\ emit' = [emit EXCEPT ![e] = "panicked"]
        /\ UNCHANGED <<events, dropped>>
     \/ /\ ~closed /\ Len(events) < BufferSize
        /\ events' = Append(events, e)
        /\ emit' = [emit EXCEPT ![e] = "queued"]
        /\ UNCHANGED dropped
     \/ /\ ~closed /\ Len(events) = BufferSize
        /\ dropped' = dropped + 1
        /\ emit' = [emit EXCEPT ![e] = "dropped"]
        /\ UNCHANGED events
  /\ UNCHANGED <<running, closed, cancelled, worker, flusher, stop, emitted, processed,
                 mined, flushed, early>>
----------------------------------------------------------------------------
(* worker: a receive, in its loop or while it drains; the counter moves
   before the miners do. *)
Receive(w) ==
  /\ worker[w] \in {Selecting, Draining} /\ events # <<>>
  /\ worker' = [worker EXCEPT ![w] = [pc |-> "process", event |-> Head(events), then |-> @]]
  /\ events' = Tail(events)
  /\ processed' = processed + 1
  /\ UNCHANGED <<running, closed, cancelled, emit, flusher, stop, emitted, dropped,
                 mined, flushed, early>>

Process(w) ==
  /\ worker[w].pc = "process"
  /\ mined' = mined \cup {worker[w].event}
  /\ worker' = [worker EXCEPT ![w] = @.then]
  /\ UNCHANGED <<running, channel, cancelled, emit, flusher, stop, counters, flushed, early>>

(* The context is done: select may see that before what is buffered. *)
SeeDoneUndrained(w) ==           \* mutant: the worker returns at once
  /\ worker[w] = Selecting /\ cancelled
  /\ worker' = [worker EXCEPT ![w] = Exited]
  /\ UNCHANGED <<running, channel, cancelled, emit, flusher, stop, counters,
                 mined, flushed, early>>

SeeDone(w) ==
  /\ worker[w] = Selecting /\ cancelled
  /\ worker' = [worker EXCEPT ![w] = Draining]
  /\ UNCHANGED <<running, channel, cancelled, emit, flusher, stop, counters,
                 mined, flushed, early>>

(* Nothing is buffered: the drain is over, or the channel closed. *)
Exit(w) ==
  /\ events = <<>>
  /\ worker[w] = Draining \/ (worker[w] = Selecting /\ closed)
  /\ worker' = [worker EXCEPT ![w] = Exited]
  /\ UNCHANGED <<running, channel, cancelled, emit, flusher, stop, counters,
                 mined, flushed, early>>

Flush == flushed' = mined

Tick ==
  /\ flusher = "ticking"
  /\ Flush
  /\ UNCHANGED <<running, channel, cancelled, emit, worker, flusher, stop, counters,
                 mined, early>>

FlusherExitDeaf ==               \* mutant: the flusher does not watch the context
  /\ flusher = "ticking" /\ cancelled /\ stop = "stopped"
  /\ flusher' = "exited"
  /\ UNCHANGED <<running, channel, cancelled, emit, worker, stop, counters,
                 mined, flushed, early>>

FlusherExit ==
  /\ flusher = "ticking" /\ cancelled
  /\ flusher' = "exited"
  /\ UNCHANGED <<running, channel, cancelled, emit, worker, stop, counters,
                 mined, flushed, early>>
----------------------------------------------------------------------------
(* A signal ends the context the plane was started with; then Stop clears
   the flag, closes the channel, waits, and flushes. *)
Signal ==
  /\ stop = "serving"
  /\ stop' = "signalled" /\ cancelled' = TRUE
  /\ early' = Range(events)
  /\ UNCHANGED <<running, channel, emit, worker, flusher, counters, mined, flushed>>

SwapRunning ==
  /\ stop = "signalled"
  /\ stop' = "swapped" /\ running' = FALSE
  /\ UNCHANGED <<channel, cancelled, emit, worker, flusher, counters, mined, flushed, early>>

CloseEvents ==
  /\ stop = "swapped"
  /\ stop' = "closed" /\ closed' = TRUE
  /\ UNCHANGED <<running, events, cancelled, emit, worker, flusher, counters,
                 mined, flushed, early>>

WaitNobody ==                    \* mutant: the flush does not wait for the workers
  /\ stop = "closed"
  /\ stop' = "waited"
  /\ UNCHANGED <<running, channel, cancelled, emit, worker, flusher, counters,
                 mined, flushed, early>>

Wait ==
  /\ stop = "closed"
  /\ flusher = "exited" /\ \A w \in Worker : worker[w] = Exited
  /\ stop' = "waited"
  /\ UNCHANGED <<running, channel, cancelled, emit, worker, flusher, counters,
                 mined, flushed, early>>

FinalFlush ==
  /\ stop = "waited"
  /\ stop' = "stopped"
  /\ Flush
  /\ UNCHANGED <<running, channel, cancelled, emit, worker, flusher, counters, mined, early>>

Emit(e) == Check(e) \/ Count(e) \/ Send(e)
Work(w) == Receive(w) \/ Process(w) \/ SeeDone(w) \/ Exit(w)
Stop == SwapRunning \/ CloseEvents \/ Wait \/ FinalFlush

Next ==
  \/ \E e \in Event : Emit(e)
  \/ \E w \in Worker : Work(w)
  \/ Tick \/ FlusherExit \/ Signal \/ Stop

(* The Go scheduler runs every goroutine, and miners return; nothing makes
   requests come or the signal arrive. *)
Spec ==
  /\ Init /\ [][Next]_vars
  /\ \A w \in Worker : WF_vars(Work(w))
  /\ WF_vars(FlusherExit) /\ WF_vars(Stop)
----------------------------------------------------------------------------
TypeOK ==
  /\ events \in Seq(Event) /\ Len(events) <= BufferSize
  /\ emit \in [Event -> {"idle", "ignored", "checked", "counted", "queued", "dropped",
                         "panicked"}]
  /\ \A w \in Worker : worker[w].pc \in {"select", "drain", "process", "exited"}
  /\ flusher \in {"ticking", "exited"}
  /\ mined \subseteq Event /\ flushed \subseteq mined

(* plane.go:50-53: the counters agree with what became of the events,
   whatever was closed or cancelled: none is lost without a trace or counted
   twice. *)
At(pc) == Cardinality({e \in Event : emit[e] = pc})

Accounted ==
  /\ emitted = dropped + processed + Len(events) + At("counted") + At("panicked")
  /\ processed = Cardinality(mined) + Cardinality({w \in Worker : worker[w].pc = "process"})

(* plane.go:117-131: when Stop returns, every event that was buffered when
   the shutdown began was mined, and the last flush of the miners saw all
   that was ever mined. *)
StopDrains == stop = "stopped" => early \subseteq flushed /\ flushed = mined

(* An event queued while the plane runs is mined at last. *)
QueuedAreMined ==
  \A e \in Event : (e \in Range(events) /\ ~cancelled) ~> e \in mined

(* A shutdown ends: nothing Stop waits for waits for Stop. *)
StopReturns == stop = "signalled" ~> stop = "stopped"

(* plane.go:100-101: "if the buffer is full, the event is dropped and a
   counter is incremented. The live path is never affected." *)
LivePathUnaffected == \A e \in Event : emit[e] # "panicked"

(* plane.go:117: Stop "drains remaining events": what Emit accepted and put
   into the channel before Stop returned is mined. *)
RemainingAreDrained == stop = "stopped" => \A e \in Event : emit[e] = "queued" => e \in mined
============================================================================
