------------------------- MODULE OfflinePlaneProofs -------------------------
(***************************************************************************)
(* The channel plane for every number of requests, workers and buffered    *)
(* events: the counters account for every event, and Stop drains what was  *)
(* buffered when the shutdown began.                                       *)
(***************************************************************************)
EXTENDS OfflinePlane, FiniteSetTheorems, SequenceTheorems, TLAPS

WorkerState == {Selecting, Draining, Exited}
                 \cup [pc : {"process"}, event : Event, then : {Selecting, Draining}]
Types ==
  /\ running \in BOOLEAN /\ closed \in BOOLEAN /\ cancelled \in BOOLEAN
  /\ events \in Seq(Event) /\ Len(events) <= BufferSize
  /\ emit \in [Event -> {"idle", "ignored", "checked", "counted", "queued", "dropped",
                         "panicked"}]
  /\ worker \in [Worker -> WorkerState]
  /\ flusher \in {"ticking", "exited"}
  /\ stop \in {"serving", "signalled", "swapped", "closed", "waited", "stopped"}
  /\ mined \subseteq Event /\ flushed \subseteq mined
  /\ emitted \in Nat /\ dropped \in Nat /\ processed \in Nat

(* Worker w has e in hand; e is buffered. *)
Busy(w, e) == worker[w].pc = "process" /\ worker[w].event = e
Buffered(e) == \E i \in 1..Len(events) : events[i] = e

(* An event is in one place at a time: in the channel, with one worker, or
   mined.  Without it an event could be counted twice. *)
Once ==
  /\ \A i, j \in 1..Len(events) : events[i] = events[j] => i = j
  /\ \A e \in Event : Buffered(e) =>
        emit[e] = "queued" /\ e \notin mined /\ \A w \in Worker : ~Busy(w, e)
  /\ \A w \in Worker, e \in Event : Busy(w, e) =>
        emit[e] = "queued" /\ e \notin mined /\ \A v \in Worker : Busy(v, e) => v = w
  /\ \A e \in mined : emit[e] = "queued"

(* What was buffered when the shutdown began has been mined, is with a
   worker, or buffered still, and then no worker has left. *)
Stopping ==
  /\ cancelled <=> stop # "serving"
  /\ closed <=> stop \in {"closed", "waited", "stopped"}
  /\ \A e \in early : /\ e \in Event /\ emit[e] = "queued"
                      /\ e \in mined \/ Buffered(e) \/ \E w \in Worker : Busy(w, e)
  /\ \A w \in Worker : worker[w].pc \in {"drain", "exited"} => cancelled
  /\ \A w \in Worker : worker[w].pc = "process" /\ worker[w].then = Draining => cancelled
  /\ \A w \in Worker : worker[w].pc = "exited" => \A e \in early : ~Buffered(e)
  /\ stop \in {"waited", "stopped"} =>
        flusher = "exited" /\ \A w \in Worker : worker[w].pc = "exited"
  /\ stop = "stopped" => flushed = mined

-----------------------------------------------------------------------------
LEMMA InitTypes == Init => Types
<1> SUFFICES ASSUME Init PROVE Types
  OBVIOUS
<1>1. events \in Seq(Event) /\ Len(events) <= BufferSize
  BY PlaneAssumption, EmptySeq DEF Init
<1>2. worker \in [Worker -> WorkerState]
  BY DEF Init, WorkerState
<1>3. QED
  BY <1>1, <1>2 DEF Init, Types

LEMMA NextTypes == Types /\ [Next]_vars => Types'
<1> SUFFICES ASSUME Types, [Next]_vars PROVE Types'
  OBVIOUS
<1>1. ASSUME NEW e \in Event, Emit(e) PROVE Types'
  <2>1. CASE Check(e)
    BY <2>1 DEF Check, Types, channel, counters
  <2>2. CASE Count(e)
    BY <2>2 DEF Count, Types, channel
  <2>3. CASE Send(e)
    <3>1. ~closed /\ Len(events) < BufferSize => Append(events, e) \in Seq(Event) /\ Len(Append(events, e)) <= BufferSize
      BY PlaneAssumption, AppendProperties DEF Types
    <3>2. events' \in Seq(Event) /\ Len(events') <= BufferSize
      BY <2>3, <3>1 DEF Send, Types
    <3>3. \E b \in {"panicked", "queued", "dropped"} : emit' = [emit EXCEPT ![e] = b]
      BY <2>3 DEF Send
    <3>4. emit' \in [Event -> {"idle", "ignored", "checked", "counted", "queued",
                              "dropped", "panicked"}]
      BY <3>3 DEF Types
    <3>5. dropped' \in Nat
      BY <2>3 DEF Send, Types
    <3>6. UNCHANGED <<running, closed, cancelled, worker, flusher, stop, emitted, processed,
                      mined, flushed>>
      BY <2>3 DEF Send
    <3>7. QED
      BY <3>2, <3>4, <3>5, <3>6 DEF Types
  <2>4. QED
    BY <1>1, <2>1, <2>2, <2>3 DEF Emit
<1>2. ASSUME NEW w \in Worker, Work(w) PROVE Types'
  <2>1. CASE Receive(w)
    <3>1. Head(events) \in Event /\ Tail(events) \in Seq(Event) /\ Len(Tail(events)) <= BufferSize
      BY <2>1, PlaneAssumption, HeadTailProperties DEF Types, Receive
    <3>2. worker' \in [Worker -> WorkerState]
      BY <2>1, <3>1 DEF Receive, Types, WorkerState
    <3>3. QED
      BY <2>1, <3>1, <3>2 DEF Receive, Types
  <2>2. CASE Process(w)
    <3>1. worker[w] \in [pc : {"process"}, event : Event, then : {Selecting, Draining}]
      BY <2>2 DEF Process, Types, WorkerState, Selecting, Draining, Exited
    <3>2. QED
      BY <2>2, <3>1 DEF Process, Types, WorkerState, channel, counters
  <2>3. CASE SeeDone(w) \/ Exit(w)
    BY <2>3 DEF SeeDone, Exit, Types, WorkerState, channel, counters
  <2>4. QED
    BY <1>2, <2>1, <2>2, <2>3 DEF Work
<1>3. CASE Tick \/ FlusherExit \/ Signal
  BY <1>3 DEF Tick, Flush, FlusherExit, Signal, Types, channel, counters
<1>4. CASE Stop
  BY <1>4 DEF Stop, SwapRunning, CloseEvents, Wait, FinalFlush, Flush, Types, channel, counters
<1>5. CASE UNCHANGED vars
  BY <1>5 DEF vars, Types, channel, counters
<1>6. QED
  BY <1>1, <1>2, <1>3, <1>4, <1>5 DEF Next

-----------------------------------------------------------------------------
(* The channel, as an event is sent and received. *)
LEMMA Appended ==
    ASSUME events \in Seq(Event), NEW e \in Event, events' = Append(events, e)
    PROVE  /\ \A x \in Event : Buffered(x)' <=> Buffered(x) \/ x = e
           /\ ~Buffered(e) /\ (\A i, j \in 1..Len(events) : events[i] = events[j] => i = j)
                 => \A i, j \in 1..Len(events') : events'[i] = events'[j] => i = j
<1>1. /\ Len(events) \in Nat /\ Len(events') = Len(events) + 1
      /\ events'[Len(events) + 1] = e
      /\ \A i \in 1..Len(events) : events'[i] = events[i]
  BY AppendProperties, LenProperties
<1>2. 1..Len(events') = 1..Len(events) \cup {Len(events) + 1}
  BY <1>1
<1>3. \A x \in Event : Buffered(x)' <=> Buffered(x) \/ x = e
  BY <1>1, <1>2 DEF Buffered
<1>4. QED
  BY <1>1, <1>2, <1>3 DEF Buffered

LEMMA Received ==
    ASSUME events \in Seq(Event), events # <<>>, events' = Tail(events),
           \A i, j \in 1..Len(events) : events[i] = events[j] => i = j
    PROVE  /\ Head(events) \in Event /\ Buffered(Head(events))
           /\ \A x \in Event : Buffered(x)' <=> Buffered(x) /\ x # Head(events)
           /\ \A i, j \in 1..Len(events') : events'[i] = events'[j] => i = j
<1>1. /\ Len(events) \in Nat \ {0} /\ Len(events') = Len(events) - 1
      /\ Head(events) = events[1] /\ Head(events) \in Event
      /\ \A i \in 1..Len(events') : events'[i] = events[i + 1]
  BY HeadTailProperties, EmptySeq, LenProperties
<1>2. \A i \in 1..Len(events') : i + 1 \in 1..Len(events) /\ i + 1 # 1
  BY <1>1
<1>3. \A i \in 1..Len(events) : i # 1 => i - 1 \in 1..Len(events') /\ events'[i - 1] = events[i]
  BY <1>1
<1>4. 1 \in 1..Len(events)
  BY <1>1
<1>5. Buffered(Head(events))
  BY <1>1, <1>4 DEF Buffered
<1>6. ASSUME NEW x \in Event PROVE Buffered(x)' <=> Buffered(x) /\ x # Head(events)
  <2>1. ASSUME NEW i \in 1..Len(events'), events'[i] = x PROVE Buffered(x) /\ x # Head(events)
    BY <1>1, <1>2, <1>4, <2>1 DEF Buffered
  <2>2. ASSUME NEW i \in 1..Len(events), events[i] = x, x # Head(events) PROVE Buffered(x)'
    BY <1>1, <1>3, <2>2 DEF Buffered
  <2>3. QED
    BY <2>1, <2>2 DEF Buffered
<1>7. \A i, j \in 1..Len(events') : events'[i] = events'[j] => i = j
  BY <1>1, <1>2
<1>8. QED
  BY <1>1, <1>5, <1>6, <1>7

LEMMA InitOnce == Init => Once
BY DEF Init, Once, Busy, Buffered, Selecting

LEMMA NextOnce == Types /\ Once /\ [Next]_vars => Once'
<1> SUFFICES ASSUME Types, Once, [Next]_vars PROVE Once'
  OBVIOUS
<1>1. ASSUME NEW e \in Event, Emit(e) PROVE Once'
  <2>1. emit[e] # "queued" /\ UNCHANGED <<worker, mined>>
    BY <1>1 DEF Emit, Check, Count, Send
  <2>2. ~Buffered(e) /\ e \notin mined /\ \A w \in Worker : ~Busy(w, e)
    BY <2>1 DEF Once
  <2>3. \A w \in Worker, x \in Event : Busy(w, x)' <=> Busy(w, x)
    BY <2>1 DEF Busy
  <2>4. ASSUME NEW pc, emit' = [emit EXCEPT ![e] = pc], UNCHANGED events PROVE Once'
    <3>1. \A x \in Event : Buffered(x)' <=> Buffered(x)
      BY <2>4 DEF Buffered
    <3>2. QED
      BY <2>1, <2>2, <2>3, <2>4, <3>1 DEF Types, Once
  <2>5. CASE events' = Append(events, e) /\ emit' = [emit EXCEPT ![e] = "queued"]
    <3>1. /\ \A x \in Event : Buffered(x)' <=> Buffered(x) \/ x = e
          /\ \A i, j \in 1..Len(events') : events'[i] = events'[j] => i = j
      BY <2>2, <2>5, Appended DEF Types, Once
    <3>2. QED
      BY <2>1, <2>2, <2>3, <2>5, <3>1 DEF Types, Once
  <2>6. QED
    BY <1>1, <2>4, <2>5 DEF Emit, Check, Count, Send, channel
<1>2. ASSUME NEW w \in Worker, Receive(w) PROVE Once'
  <2> DEFINE h == Head(events)
  <2>1. /\ worker' = [worker EXCEPT ![w] = [pc |-> "process", event |-> h, then |-> worker[w]]]
        /\ worker[w].pc # "process" /\ UNCHANGED <<emit, mined>>
    BY <1>2 DEF Receive, Selecting, Draining
  <2>2. /\ h \in Event /\ Buffered(h)
        /\ \A x \in Event : Buffered(x)' <=> Buffered(x) /\ x # h
        /\ \A i, j \in 1..Len(events') : events'[i] = events'[j] => i = j
    BY <1>2, Received DEF Receive, Types, Once
  <2>3. \A v \in Worker, x \in Event : Busy(v, x)' <=> Busy(v, x) \/ (v = w /\ x = h)
    BY <2>1 DEF Busy, Types
  <2>4. QED
    BY <2>1, <2>2, <2>3 DEF Once
<1>3. ASSUME NEW w \in Worker, Process(w) PROVE Once'
  <2> DEFINE h == worker[w].event
  <2>1. worker[w].then \in {Selecting, Draining} /\ h \in Event /\ Busy(w, h)
    BY <1>3 DEF Process, Types, WorkerState, Selecting, Draining, Exited, Busy
  <2>2. UNCHANGED <<events, emit>> /\ mined' = mined \cup {h}
    BY <1>3 DEF Process, channel
  <2>3. \A v \in Worker, x \in Event : Busy(v, x)' <=> Busy(v, x) /\ v # w
    BY <1>3, <2>1 DEF Process, Types, Busy, Selecting, Draining
  <2>4. \A x \in Event : Buffered(x)' <=> Buffered(x)
    BY <2>2 DEF Buffered
  <2>5. QED
    BY <2>1, <2>2, <2>3, <2>4 DEF Once, Types
<1>4. ASSUME UNCHANGED <<events, emit, mined>>,
             \A v \in Worker, x \in Event : Busy(v, x)' <=> Busy(v, x)
      PROVE  Once'
  <2>1. \A x \in Event : Buffered(x)' <=> Buffered(x)
    BY <1>4 DEF Buffered
  <2>2. QED
    BY <1>4, <2>1 DEF Once
<1>5. ASSUME NEW w \in Worker, SeeDone(w) \/ Exit(w) PROVE Once'
  <2>1. \A v \in Worker, x \in Event : Busy(v, x)' <=> Busy(v, x)
    BY <1>5 DEF SeeDone, Exit, Busy, Types, Selecting, Draining, Exited
  <2>2. QED
    BY <1>4, <1>5, <2>1 DEF SeeDone, Exit, channel
<1>6. CASE Tick \/ FlusherExit \/ Signal \/ Stop \/ UNCHANGED vars
  <2>1. UNCHANGED <<events, emit, mined, worker>>
    BY <1>6 DEF Tick, FlusherExit, Signal, Stop, SwapRunning, CloseEvents, Wait, FinalFlush, vars, channel
  <2>2. QED
    BY <1>4, <2>1 DEF Busy
<1>7. QED
  BY <1>1, <1>2, <1>3, <1>5, <1>6 DEF Next, Work

-----------------------------------------------------------------------------
LEMMA InitStopping == Init => Stopping
BY DEF Init, Stopping, Selecting

LEMMA NextStopping == Types /\ Once /\ Stopping /\ [Next]_vars => Stopping'
<1> SUFFICES ASSUME Types, Once, Stopping, [Next]_vars PROVE Stopping'
  OBVIOUS
<1>1. ASSUME NEW e \in Event, Emit(e) PROVE Stopping'
  <2>1. /\ emit[e] # "queued" /\ e \notin early
        /\ UNCHANGED <<cancelled, closed, worker, flusher, stop, mined, flushed, early>>
        /\ \A x \in Event : x # e => emit'[x] = emit[x]
    BY <1>1 DEF Emit, Check, Count, Send, channel, Stopping, Types
  <2>2. \A x \in Event : x # e => (Buffered(x)' <=> Buffered(x))
    <3>1. CASE events' = Append(events, e)
      BY <3>1, Appended DEF Types
    <3>2. CASE UNCHANGED events
      BY <3>2 DEF Buffered
    <3>3. QED
      BY <1>1, <3>1, <3>2 DEF Emit, Check, Count, Send, channel
  <2>3. \A w \in Worker, x \in Event : Busy(w, x)' <=> Busy(w, x)
    BY <2>1 DEF Busy
  <2>4. QED
    BY <2>1, <2>2, <2>3 DEF Stopping
<1>2. ASSUME NEW w \in Worker, Receive(w) PROVE Stopping'
  <2> DEFINE h == Head(events)
  <2>1. /\ worker' = [worker EXCEPT ![w] = [pc |-> "process", event |-> h, then |-> worker[w]]]
        /\ worker[w] \in {Selecting, Draining}
        /\ UNCHANGED <<cancelled, closed, emit, flusher, stop, mined, flushed, early>>
    BY <1>2 DEF Receive
  <2>2. \A x \in Event : Buffered(x)' <=> Buffered(x) /\ x # h
    BY <1>2, Received DEF Receive, Types, Once
  <2>3. \A v \in Worker, x \in Event : Busy(v, x)' <=> Busy(v, x) \/ (v = w /\ x = h)
    BY <2>1 DEF Busy, Types, Selecting, Draining
  <2>4. \A x \in early : x \in mined \/ Buffered(x)' \/ \E v \in Worker : Busy(v, x)'
    BY <2>2, <2>3 DEF Stopping
  <2>5. \A v \in Worker : worker'[v].pc \in {"drain", "exited"} => v # w /\ worker'[v] = worker[v]
    BY <2>1 DEF Types
  <2>6. \A v \in Worker : worker'[v].pc = "process" /\ worker'[v].then = Draining => cancelled
    BY <2>1 DEF Types, Stopping, Draining
  <2>7. stop \notin {"waited", "stopped"}
    BY <2>1 DEF Stopping, Selecting, Draining
  <2>8. QED
    BY <2>1, <2>2, <2>4, <2>5, <2>6, <2>7 DEF Stopping
<1>3. ASSUME NEW w \in Worker, Process(w) PROVE Stopping'
  <2> DEFINE h == worker[w].event
             n == worker[w].then
  <2>1. n \in {Selecting, Draining} /\ worker[w].pc = "process"
    BY <1>3 DEF Process, Types, WorkerState, Selecting, Draining, Exited
  <2>2. /\ worker' = [worker EXCEPT ![w] = n] /\ mined' = mined \cup {h}
        /\ UNCHANGED <<events, cancelled, closed, emit, flusher, stop, flushed, early>>
    BY <1>3 DEF Process, channel
  <2>3. \A v \in Worker, x \in Event : Busy(v, x) => Busy(v, x)' \/ x = h
    BY <2>2 DEF Busy, Types
  <2>4. \A x \in Event : Buffered(x)' <=> Buffered(x)
    BY <2>2 DEF Buffered
  <2>5. \A v \in Worker : worker'[v] = worker[v] \/ (v = w /\ worker'[v] = n)
    BY <2>2 DEF Types
  <2>6. worker[w].then = Draining => cancelled
    BY <2>1 DEF Stopping
  <2>7. stop \notin {"waited", "stopped"}
    BY <2>1 DEF Stopping
  <2>8. \A x \in early : x \in mined' \/ Buffered(x)' \/ \E v \in Worker : Busy(v, x)'
    BY <2>2, <2>3, <2>4 DEF Stopping
  <2>9. \A v \in Worker : worker'[v].pc \in {"drain", "exited"} => cancelled
    BY <2>1, <2>5, <2>6 DEF Stopping, Selecting
  <2>10. \A v \in Worker : worker'[v].pc = "process" /\ worker'[v].then = Draining => cancelled
    BY <2>1, <2>5 DEF Stopping, Selecting, Draining
  <2>11. \A v \in Worker : worker'[v].pc = "exited" => worker[v].pc = "exited"
    BY <2>1, <2>5 DEF Selecting, Draining
  <2>12. QED
    BY <2>2, <2>4, <2>7, <2>8, <2>9, <2>10, <2>11 DEF Stopping
<1>4. ASSUME NEW w \in Worker, SeeDone(w) \/ Exit(w) PROVE Stopping'
  <2>1. UNCHANGED <<events, cancelled, closed, emit, flusher, stop, mined, flushed, early>>
    BY <1>4 DEF SeeDone, Exit, channel
  <2>2. cancelled /\ worker[w] \in {Selecting, Draining}
    BY <1>4 DEF SeeDone, Exit, Stopping, Draining
  <2>3. \A v \in Worker, x \in Event : Busy(v, x)' <=> Busy(v, x)
    BY <1>4 DEF SeeDone, Exit, Busy, Types, Selecting, Draining, Exited
  <2>4. \A x \in Event : Buffered(x)' <=> Buffered(x)
    BY <2>1 DEF Buffered
  <2>5. \A v \in Worker : v # w => worker'[v] = worker[v]
    BY <1>4 DEF SeeDone, Exit, Types
  <2>6. worker'[w].pc # "process" /\ (worker'[w].pc = "exited" => events = <<>>)
    BY <1>4 DEF SeeDone, Exit, Types, Draining, Exited
  <2>7. events = <<>> => \A x \in Event : ~Buffered(x)
    BY DEF Buffered
  <2>8. stop \notin {"waited", "stopped"}
    BY <2>2 DEF Stopping, Selecting, Draining
  <2>9. \A v \in Worker : worker'[v].pc = "exited" => \A x \in early : ~Buffered(x)
    BY <2>5, <2>6, <2>7 DEF Stopping
  <2>10. QED
    BY <2>1, <2>2, <2>3, <2>4, <2>5, <2>6, <2>8, <2>9 DEF Stopping
<1>5. ASSUME UNCHANGED <<events, worker, emit, mined>> PROVE
          /\ \A v \in Worker, x \in Event : Busy(v, x)' <=> Busy(v, x)
          /\ \A x \in Event : Buffered(x)' <=> Buffered(x)
  BY <1>5 DEF Busy, Buffered
<1>6. CASE Signal
  <2>1. stop = "serving" /\ stop' = "signalled" /\ cancelled' /\ early' = Range(events)
        /\ UNCHANGED <<events, closed, worker, emit, flusher, mined, flushed>>
    BY <1>6 DEF Signal, channel
  <2>2. \A e \in early' : e \in Event /\ Buffered(e)
    BY <2>1, LenProperties DEF Types, Range, Buffered
  <2>3. \A w \in Worker : worker[w].pc # "exited"
    BY <2>1 DEF Stopping
  <2>4. QED
    BY <1>5, <2>1, <2>2, <2>3 DEF Stopping, Once
<1>7. CASE Tick \/ FlusherExit
  <2>1. UNCHANGED <<events, worker, emit, mined, cancelled, closed, stop, early>> /\ flusher = "ticking"
    BY <1>7 DEF Tick, FlusherExit, channel
  <2>2. QED
    BY <1>5, <2>1 DEF Stopping
<1>8. CASE Stop
  <2>1. UNCHANGED <<events, worker, emit, mined, cancelled, early>>
    BY <1>8 DEF Stop, SwapRunning, CloseEvents, Wait, FinalFlush, channel
  <2>2. CASE SwapRunning \/ CloseEvents
    BY <1>5, <2>1, <2>2 DEF SwapRunning, CloseEvents, Stopping, channel
  <2>3. CASE Wait
    BY <1>5, <2>1, <2>3 DEF Wait, Stopping, Exited, channel
  <2>4. CASE FinalFlush
    BY <1>5, <2>1, <2>4 DEF FinalFlush, Flush, Stopping, channel
  <2>5. QED
    BY <1>8, <2>2, <2>3, <2>4 DEF Stop
<1>9. CASE UNCHANGED vars
  BY <1>5, <1>9 DEF vars, channel, Stopping
<1>10. QED
  BY <1>1, <1>2, <1>3, <1>4, <1>6, <1>7, <1>8, <1>9 DEF Next, Work

-----------------------------------------------------------------------------
(* The counters *)
Working == {w \in Worker : worker[w].pc = "process"}
Counting ==
  /\ Accounted
  /\ IsFiniteSet(mined)

(* How many requests are at pc, when one goes on. *)
Goes(e, a, b) == a # b /\ emit[e] = a /\ emit' = [emit EXCEPT ![e] = b]

LEMMA Went ==
    ASSUME Types, NEW e \in Event, NEW a, NEW b, Goes(e, a, b)
    PROVE  /\ At(a) \in Nat /\ At(a)' = At(a) - 1
           /\ At(b) \in Nat /\ At(b)' = At(b) + 1
           /\ \A c : c \notin {a, b} => At(c)' = At(c)
<1> DEFINE S(c) == {x \in Event : emit[x] = c}
<1>1. \A c : IsFiniteSet(S(c))
  BY PlaneAssumption, FS_Subset
<1>2. S(a)' = S(a) \ {e} /\ e \in S(a) /\ S(b)' = S(b) \cup {e} /\ e \notin S(b)
  BY DEF Types, Goes
<1>3. \A c : c \notin {a, b} => S(c)' = S(c)
  BY DEF Types, Goes
<1>4. \A c : At(c) = Cardinality(S(c))
  BY DEF At
<1>5. At(a)' = Cardinality(S(a)') /\ At(b)' = Cardinality(S(b)')
  BY DEF At
<1>6. \A c : At(c)' = Cardinality(S(c)')
  BY DEF At
<1>7. At(a) \in Nat /\ At(b) \in Nat
  BY <1>1, <1>4, FS_CardinalityType
<1> HIDE DEF S
<1>8. At(a)' = At(a) - 1
  BY <1>1, <1>2, <1>4, <1>5, FS_RemoveElement
<1>9. At(b)' = At(b) + 1
  <2>1. Cardinality(S(b) \cup {e}) = Cardinality(S(b)) + 1
    BY <1>1, <1>2, FS_AddElement
  <2>2. QED
    BY <1>2, <1>4, <1>5, <2>1
<1>10. QED
  BY <1>3, <1>4, <1>6, <1>7, <1>8, <1>9

LEMMA InitCounting == Init => Counting
<1> SUFFICES ASSUME Init PROVE Counting
  OBVIOUS
<1>1. {e \in Event : emit[e] = "counted"} = {} /\ {e \in Event : emit[e] = "panicked"} = {}
      /\ {w \in Worker : worker[w].pc = "process"} = {} /\ mined = {}
  BY DEF Init, Selecting
<1>2. At("counted") = 0 /\ At("panicked") = 0
  BY <1>1, FS_EmptySet DEF At
<1>3. Cardinality(mined) = 0 /\ Cardinality({w \in Worker : worker[w].pc = "process"}) = 0
      /\ IsFiniteSet(mined)
  BY <1>1, FS_EmptySet
<1>4. emitted = 0 /\ dropped = 0 /\ processed = 0 /\ Len(events) = 0
  BY EmptySeq DEF Init
<1>5. QED
  BY <1>2, <1>3, <1>4 DEF Counting, Accounted

LEMMA NextCounting == Types /\ Once /\ Counting /\ [Next]_vars => Counting'
<1> SUFFICES ASSUME Types, Once, Counting, [Next]_vars PROVE Counting'
  OBVIOUS
<1> DEFINE W == {w \in Worker : worker[w].pc = "process"}
<1>0. /\ emitted = dropped + processed + Len(events) + At("counted") + At("panicked")
      /\ processed = Cardinality(mined) + Cardinality(W)
      /\ emitted \in Nat /\ dropped \in Nat /\ processed \in Nat
      /\ Len(events) \in Nat /\ IsFiniteSet(mined) /\ Cardinality(mined) \in Nat
  BY LenProperties, FS_CardinalityType DEF Counting, Accounted, Types
<1>1. /\ emitted = dropped + processed + Len(events) + At("counted") + At("panicked")
      /\ At("counted") \in Nat /\ At("panicked") \in Nat
      /\ emitted \in Nat /\ dropped \in Nat /\ processed \in Nat /\ Len(events) \in Nat
  <2>1. At("counted") \in Nat /\ At("panicked") \in Nat
    BY PlaneAssumption, FS_Subset, FS_CardinalityType DEF At
  <2>2. QED
    BY <1>0, <2>1
<1>2. IsFiniteSet(W) /\ Cardinality(W) \in Nat
  BY PlaneAssumption, FS_Subset, FS_CardinalityType
<1>3. ASSUME UNCHANGED <<mined, worker, processed>>,
             emitted' = dropped' + processed' + Len(events') + At("counted")' + At("panicked")'
      PROVE  Counting'
  BY <1>3 DEF Counting, Accounted
<1>4. ASSUME NEW e \in Event, Emit(e) PROVE Counting'
  <2>1. CASE Check(e)
    <3>1. Goes(e, "idle", "checked") \/ Goes(e, "idle", "ignored")
      BY <2>1 DEF Check, Goes
    <3>2. At("counted")' = At("counted") /\ At("panicked")' = At("panicked")
      BY <3>1, Went
    <3>3. QED
      BY <1>0, <1>3, <2>1, <3>2 DEF Check, channel, counters
  <2>2. CASE Count(e)
    <3>1. Goes(e, "checked", "counted")
      BY <2>2 DEF Count, Goes
    <3>2. At("counted")' = At("counted") + 1
      BY <3>1, Went
    <3>3. At("panicked")' = At("panicked")
      BY <3>1, Went
    <3>4. emitted' = emitted + 1 /\ UNCHANGED <<mined, worker, dropped, processed, events>>
      BY <2>2 DEF Count, channel
    <3>5. emitted' = dropped' + processed' + Len(events') + At("counted")' + At("panicked")'
      BY <1>1, <3>2, <3>3, <3>4
    <3>6. QED
      BY <1>3, <3>4, <3>5
  <2>3. ASSUME NEW b \in {"panicked", "queued", "dropped"}, emit[e] = "counted",
               emit' = [emit EXCEPT ![e] = b]
        PROVE  /\ At("counted")' = At("counted") - 1
               /\ At("panicked")' = IF b = "panicked" THEN At("panicked") + 1 ELSE At("panicked")
    <3>1. Goes(e, "counted", b)
      BY <2>3 DEF Goes
    <3>2. QED
      BY <2>3, <3>1, Went
  <2>4. CASE Send(e)
    <3>1. UNCHANGED <<mined, worker, processed, emitted>>
      BY <2>4 DEF Send
    <3>2. CASE emit' = [emit EXCEPT ![e] = "panicked"] /\ UNCHANGED <<events, dropped>>
      <4>1. At("counted")' = At("counted") - 1 /\ At("panicked")' = At("panicked") + 1
        BY <2>3, <2>4, <3>2 DEF Send
      <4>2. QED
        BY <1>1, <1>3, <3>1, <3>2, <4>1
    <3>3. CASE events' = Append(events, e) /\ emit' = [emit EXCEPT ![e] = "queued"] /\ UNCHANGED dropped
      <4>1. At("counted")' = At("counted") - 1 /\ At("panicked")' = At("panicked")
        BY <2>3, <2>4, <3>3 DEF Send
      <4>2. Len(events') = Len(events) + 1
        BY <3>3, AppendProperties DEF Types
      <4>3. QED
        BY <1>1, <1>3, <3>1, <3>3, <4>1, <4>2
    <3>4. CASE dropped' = dropped + 1 /\ emit' = [emit EXCEPT ![e] = "dropped"] /\ UNCHANGED events
      <4>1. At("counted")' = At("counted") - 1 /\ At("panicked")' = At("panicked")
        BY <2>3, <2>4, <3>4 DEF Send
      <4>2. QED
        BY <1>1, <1>3, <3>1, <3>4, <4>1
    <3>5. QED
      BY <2>4, <3>2, <3>3, <3>4 DEF Send
  <2>5. QED
    BY <1>4, <2>1, <2>2, <2>4 DEF Emit
<1>5. UNCHANGED emit => At("counted")' = At("counted") /\ At("panicked")' = At("panicked")
  BY DEF At
<1>6. ASSUME NEW w \in Worker, Receive(w) PROVE Counting'
  <2>1. /\ worker[w].pc # "process" /\ processed' = processed + 1
        /\ worker' = [worker EXCEPT ![w] = [pc |-> "process", event |-> Head(events), then |-> worker[w]]]
        /\ UNCHANGED <<emit, mined, emitted, dropped>>
    BY <1>6 DEF Receive, Selecting, Draining
  <2>2. Len(events') = Len(events) - 1
    BY <1>6, HeadTailProperties DEF Receive, Types
  <2>3. W' = W \cup {w} /\ w \notin W
    BY <2>1 DEF Types
  <2>4. Cardinality(W \cup {w}) = Cardinality(W) + 1
    <3> HIDE DEF W
    <3>1. QED
      BY <1>2, <2>3, FS_AddElement
  <2>5. processed' = Cardinality(mined') + Cardinality(W')
    <3> HIDE DEF W
    <3>1. QED
      BY <1>0, <1>2, <2>1, <2>3, <2>4
  <2>6. emitted' = dropped' + processed' + Len(events') + At("counted")' + At("panicked")'
    BY <1>0, <1>1, <1>5, <2>1, <2>2
  <2>7. QED
    BY <1>0, <2>1, <2>5, <2>6 DEF Counting, Accounted
<1>7. ASSUME NEW w \in Worker, Process(w) PROVE Counting'
  <2> DEFINE h == worker[w].event
  <2>1. worker[w].then \in {Selecting, Draining} /\ h \in Event /\ h \notin mined
    BY <1>7 DEF Process, Types, WorkerState, Selecting, Draining, Exited, Once, Busy
  <2>2. UNCHANGED <<events, emit, emitted, dropped, processed>> /\ mined' = mined \cup {h}
        /\ worker' = [worker EXCEPT ![w] = worker[w].then] /\ w \in W
    BY <1>7 DEF Process, channel, counters
  <2>3. W' = W \ {w}
    BY <2>1, <2>2 DEF Types, Selecting, Draining
  <2>4. Cardinality(W \ {w}) = Cardinality(W) - 1
    <3> HIDE DEF W
    <3>1. QED
      BY <1>2, <2>2, FS_RemoveElement
  <2>5. Cardinality(mined') = Cardinality(mined) + 1 /\ IsFiniteSet(mined')
    BY <1>0, <2>1, <2>2, FS_AddElement
  <2>6. processed' = Cardinality(mined') + Cardinality(W')
    <3> HIDE DEF W
    <3>1. QED
      BY <1>0, <1>2, <2>2, <2>3, <2>4, <2>5
  <2>7. emitted' = dropped' + processed' + Len(events') + At("counted")' + At("panicked")'
    BY <1>0, <1>5, <2>2
  <2>8. QED
    BY <2>5, <2>6, <2>7 DEF Counting, Accounted
<1>8. ASSUME NEW w \in Worker, SeeDone(w) \/ Exit(w) PROVE Counting'
  <2>1. UNCHANGED <<events, emit, emitted, dropped, processed, mined>>
    BY <1>8 DEF SeeDone, Exit, channel, counters
  <2>2. W' = W
    BY <1>8 DEF SeeDone, Exit, Types, Selecting, Draining, Exited
  <2>3. QED
    BY <1>0, <1>5, <2>1, <2>2 DEF Counting, Accounted
<1>9. CASE Tick \/ FlusherExit \/ Signal \/ Stop \/ UNCHANGED vars
  <2>1. UNCHANGED <<events, emit, mined, worker, emitted, dropped, processed>>
    BY <1>9 DEF Tick, FlusherExit, Signal, Stop, SwapRunning, CloseEvents, Wait, FinalFlush, vars,
       channel, counters
  <2>2. QED
    BY <1>0, <1>3, <1>5, <2>1
<1>10. QED
  BY <1>4, <1>6, <1>7, <1>8, <1>9 DEF Next, Work

-----------------------------------------------------------------------------
LEMMA Invariant == Spec => [](Types /\ Once /\ Stopping /\ Counting)
<1>1. Init => Types /\ Once /\ Stopping /\ Counting
  BY InitTypes, InitOnce, InitStopping, InitCounting
<1>2. Types /\ Once /\ Stopping /\ Counting /\ [Next]_vars
          => Types' /\ Once' /\ Stopping' /\ Counting'
  BY NextTypes, NextOnce, NextStopping, NextCounting
<1>3. QED
  BY <1>1, <1>2, PTL DEF Spec

(* The types of OfflinePlane. *)
THEOREM Typing == Spec => []TypeOK
<1>1. Types => TypeOK
  BY DEF Types, TypeOK, WorkerState, Selecting, Draining, Exited
<1>2. QED
  BY <1>1, Invariant, PTL

(* plane.go:50-53: the counters agree with what became of the events, for
   every number of requests and workers. *)
THEOREM CountersAgree == Spec => []Accounted
<1>1. Counting => Accounted
  BY DEF Counting
<1>2. QED
  BY <1>1, Invariant, PTL

(* plane.go:117-131: when Stop returns, what was buffered when the shutdown
   began was mined, and the last flush saw all that was ever mined. *)
THEOREM Drained == Spec => []StopDrains
<1>1. Types /\ Once /\ Stopping => StopDrains
  <2> SUFFICES ASSUME Types, Once, Stopping, stop = "stopped" PROVE early \subseteq mined /\ flushed = mined
    BY DEF StopDrains
  <2>1. \A w \in Worker : worker[w].pc = "exited"
    BY DEF Stopping
  <2>2. \A e \in early : ~Buffered(e) /\ \A w \in Worker : ~Busy(w, e)
    BY <2>1, PlaneAssumption DEF Stopping, Busy
  <2>3. QED
    BY <2>2 DEF Stopping
<1>2. QED
  BY <1>1, Invariant, PTL
=============================================================================
