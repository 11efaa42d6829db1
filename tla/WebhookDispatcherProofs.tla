---------------------- MODULE WebhookDispatcherProofs ----------------------
(***************************************************************************)
(* The webhook dispatcher for every number of events, webhooks, workers    *)
(* and retries: a job is in one place, its verdict is final, and the       *)
(* delivery log is true.                                                   *)
(***************************************************************************)
EXTENDS WebhookDispatcher, FiniteSetTheorems, SequenceTheorems, TLAPS

WorkerState == {Idle, Exited} \cup [pc : {"post"}, item : Queued]
EmitState == [pc : {"idle", "lookup", "failed", "sent"}] \cup [pc : {"send"}, to : SUBSET Webhook]
LogRow == [job : Job, status : {"delivered", "dead_letter", "failed"}, attempts : Nat \ {0}]
Types ==
  /\ emit \in [Event -> EmitState]
  /\ queue \in Seq(Queued) /\ Len(queue) <= BufferSize
  /\ sleeping \subseteq Queued
  /\ worker \in [Worker -> WorkerState]
  /\ posts \in [Job -> Nat]
  /\ fate \in [Job -> {"none", "delivered", "dead_letter", "dropped", "unsent"}]
  /\ logs \subseteq LogRow

Holds(x) == \E i \in 1..Len(queue) : queue[i] = x
Posting(w) == worker[w].pc = "post"
(* The jobs that are still to be pushed, if they ever are. *)
Fresh == {j \in Job : \/ emit[j[1]].pc \in {"idle", "lookup", "failed"}
                      \/ emit[j[1]].pc = "send" /\ j[2] \in emit[j[1]].to}

(* A job is in one place. *)
Once ==
  /\ \A i, k \in 1..Len(queue) : queue[i].job = queue[k].job => i = k
  /\ \A x, y \in sleeping : x.job = y.job => x = y
  /\ \A w, v \in Worker :
        Posting(w) /\ Posting(v) /\ worker[w].item.job = worker[v].item.job => w = v
  /\ \A x \in Queued : Holds(x) =>
        /\ \A y \in sleeping : y.job # x.job
        /\ \A w \in Worker : Posting(w) => worker[w].item.job # x.job
  /\ \A w \in Worker, y \in sleeping : Posting(w) => worker[w].item.job # y.job

(* An item counts the attempts that were begun, and nothing is told of its
   job that could be the last word. *)
Open(j) == fate[j] = "none" /\ j \notin Fresh
Waiting(x) == Holds(x) \/ x \in sleeping
KnownWaiting ==
  \A x \in Queued : Waiting(x) => posts[x.job] = x.attempt /\ Open(x.job)
KnownPosting ==
  \A w \in Worker, x \in Queued : Posting(w) /\ worker[w].item = x =>
     /\ posts[x.job] = x.attempt + 1 /\ Open(x.job)
     /\ \A row \in logs : row.job = x.job => row.attempts < posts[x.job]
KnownJobs ==
  \A j \in Job :
     /\ posts[j] <= MaxRetries
     /\ fate[j] = "dead_letter" => posts[j] = MaxRetries
     /\ j \in Fresh => posts[j] = 0 /\ fate[j] = "none"
Known == KnownWaiting /\ KnownPosting /\ KnownJobs /\ LogsAreTrue

-----------------------------------------------------------------------------
LEMMA ItemTypes ==
    /\ \A x \in Queued : x.job \in Job /\ x.attempt \in Nat /\ x.attempt < MaxRetries
    /\ \A x \in Queued : x.attempt + 1 < MaxRetries =>
          [job |-> x.job, attempt |-> x.attempt + 1] \in Queued
    /\ \A e \in Event, h \in Webhook : [job |-> <<e, h>>, attempt |-> 0] \in Queued
BY DispatcherAssumption DEF Queued, Job

LEMMA PostedItem == Types => \A w \in Worker : Posting(w) => worker[w].item \in Queued
BY DEF Types, WorkerState, Posting, Idle, Exited

LEMMA InitInv == Init => Types /\ Once /\ Known
<1> SUFFICES ASSUME Init PROVE Types /\ Once /\ Known
  OBVIOUS
<1>1. queue \in Seq(Queued) /\ Len(queue) = 0 /\ queue = <<>>
  BY EmptySeq DEF Init
<1>2. \A w \in Worker : worker[w] = Idle /\ ~Posting(w)
  BY DEF Init, Idle, Posting
<1>3. Types
  BY <1>1, <1>2, DispatcherAssumption DEF Init, Types, WorkerState, EmitState
<1>4. \A x : ~Holds(x)
  BY <1>1 DEF Holds
<1>5. QED
  BY <1>1, <1>2, <1>3, <1>4, DispatcherAssumption DEF Init, Once, Known, KnownWaiting, KnownPosting, KnownJobs, Waiting, LogsAreTrue

(* The queue, as an item is pushed and taken. *)
LEMMA Pushed ==
    ASSUME Types, Once, NEW x \in Queued, queue' = Append(queue, x),
           \A y \in Queued : Holds(y) => y.job # x.job, Len(queue) # BufferSize
    PROVE  /\ queue' \in Seq(Queued) /\ Len(queue') <= BufferSize
           /\ \A y \in Queued : Holds(y)' <=> Holds(y) \/ y = x
           /\ \A i, k \in 1..Len(queue') : queue'[i].job = queue'[k].job => i = k
<1>1. /\ Len(queue) \in Nat /\ Len(queue') = Len(queue) + 1
      /\ queue' \in Seq(Queued)
      /\ queue'[Len(queue) + 1] = x
      /\ \A i \in 1..Len(queue) : queue'[i] = queue[i] /\ queue[i] \in Queued
  BY AppendProperties, LenProperties DEF Types
<1>2. 1..Len(queue') = 1..Len(queue) \cup {Len(queue) + 1}
  BY <1>1
<1>3. \A y \in Queued : Holds(y)' <=> Holds(y) \/ y = x
  BY <1>1, <1>2 DEF Holds
<1>4. \A i \in 1..Len(queue) : queue[i].job # x.job
  BY <1>1 DEF Holds
<1>5. \A i, k \in 1..Len(queue') : queue'[i].job = queue'[k].job => i = k
  BY <1>1, <1>2, <1>4 DEF Once
<1>6. Len(queue') <= BufferSize
  BY <1>1, DispatcherAssumption DEF Types
<1>7. QED
  BY <1>1, <1>3, <1>5, <1>6

LEMMA Taken ==
    ASSUME Types, Once, queue # <<>>, queue' = Tail(queue)
    PROVE  /\ queue' \in Seq(Queued) /\ Len(queue') <= BufferSize
           /\ Head(queue) \in Queued /\ Holds(Head(queue))
           /\ \A y \in Queued : Holds(y)' <=> Holds(y) /\ y.job # Head(queue).job
           /\ \A i, k \in 1..Len(queue') : queue'[i].job = queue'[k].job => i = k
<1>1. /\ Len(queue) \in Nat \ {0} /\ Len(queue') = Len(queue) - 1
      /\ Head(queue) = queue[1] /\ Head(queue) \in Queued /\ queue' \in Seq(Queued)
      /\ \A i \in 1..Len(queue') : queue'[i] = queue[i + 1]
  BY HeadTailProperties, EmptySeq, LenProperties DEF Types
<1>2. \A i \in 1..Len(queue') : i + 1 \in 1..Len(queue) /\ i + 1 # 1
  BY <1>1
<1>3. \A i \in 1..Len(queue) : i # 1 => i - 1 \in 1..Len(queue') /\ queue'[i - 1] = queue[i]
  BY <1>1
<1>4. 1 \in 1..Len(queue)
  BY <1>1
<1>5. Holds(Head(queue))
  BY <1>1, <1>4 DEF Holds
<1>6. ASSUME NEW y \in Queued PROVE Holds(y)' <=> Holds(y) /\ y.job # Head(queue).job
  <2>1. ASSUME NEW i \in 1..Len(queue'), queue'[i] = y PROVE Holds(y) /\ y.job # Head(queue).job
    BY <1>1, <1>2, <1>4, <2>1 DEF Holds, Once
  <2>2. ASSUME NEW i \in 1..Len(queue), queue[i] = y, y.job # Head(queue).job PROVE Holds(y)'
    BY <1>1, <1>3, <2>2 DEF Holds
  <2>3. QED
    BY <2>1, <2>2 DEF Holds
<1>7. \A i, k \in 1..Len(queue') : queue'[i].job = queue'[k].job => i = k
  BY <1>1, <1>2 DEF Once
<1>8. Len(queue') <= BufferSize
  BY <1>1, DispatcherAssumption DEF Types
<1>9. QED
  BY <1>1, <1>5, <1>6, <1>7, <1>8

(* Nothing happens to any job. *)
LEMMA Quiet ==
    ASSUME Types, Once, Known, UNCHANGED <<queue, sleeping, worker, posts, fate, logs>>,
           emit' \in [Event -> EmitState], Fresh' \subseteq Fresh
    PROVE  Types' /\ Once' /\ Known'
<1>1. \A x : Holds(x)' <=> Holds(x)
  BY DEF Holds
<1>2. \A w \in Worker : Posting(w)' <=> Posting(w)
  BY DEF Posting
<1>3. Types'
  BY DEF Types
<1>4. Once'
  BY <1>1, <1>2 DEF Once
<1>5. LogsAreTrue'
  BY DEF Known, LogsAreTrue
<1>6. Known'
  BY <1>1, <1>2, <1>5 DEF Known, KnownWaiting, KnownPosting, KnownJobs, Waiting, Open
<1>7. QED
  BY <1>3, <1>4, <1>6

LEMMA Emits == ASSUME Types, Once, Known, NEW e \in Event, Emit(e) PROVE Types' /\ Once' /\ Known'
<1>1. CASE StartEmit(e)
  <2>1. emit' = [emit EXCEPT ![e] = [pc |-> "lookup"]] /\ emit[e].pc = "idle"
        /\ UNCHANGED <<queue, sleeping, worker, posts, fate, logs>>
    BY <1>1 DEF StartEmit
  <2>2. emit' \in [Event -> EmitState]
    BY <2>1 DEF Types, EmitState
  <2>3. Fresh' \subseteq Fresh
    BY <2>1 DEF Fresh, Types, Job
  <2>4. QED
    BY <2>1, <2>2, <2>3, Quiet
<1>2. CASE EndRequest(e)
  <2>1. UNCHANGED <<emit, queue, sleeping, worker, posts, fate, logs>>
    BY <1>2 DEF EndRequest
  <2>2. QED
    BY <2>1, Quiet DEF Types, Fresh
<1>3. CASE Lookup(e)
  <2>1. PICK p \in EmitState : emit' = [emit EXCEPT ![e] = p]
    BY <1>3 DEF Lookup, EmitState
  <2>2. emit[e].pc = "lookup" /\ UNCHANGED <<queue, sleeping, worker, posts, fate, logs>>
    BY <1>3 DEF Lookup
  <2>3. emit' \in [Event -> EmitState] /\ \A d \in Event : d # e => emit'[d] = emit[d]
    BY <2>1 DEF Types
  <2>4. \A j \in Job : j[1] \in Event
    BY DEF Job
  <2>5. Fresh' \subseteq Fresh
    BY <2>2, <2>3, <2>4 DEF Fresh
  <2>6. QED
    BY <2>2, <2>3, <2>5, Quiet
<1>4. CASE Push(e)
  <2>1. PICK h \in emit[e].to :
          /\ emit' = [emit EXCEPT ![e] = IF emit[e].to = {h} THEN [pc |-> "sent"]
                                         ELSE [pc |-> "send", to |-> emit[e].to \ {h}]]
          /\ \/ closed /\ Panic /\ UNCHANGED <<queue, fate>>
             \/ /\ ~closed /\ ~Full
                /\ queue' = Append(queue, [job |-> <<e, h>>, attempt |-> 0])
                /\ UNCHANGED <<process, fate>>
             \/ /\ ~closed /\ Full
                /\ fate' = [fate EXCEPT ![<<e, h>>] = "dropped"]
                /\ UNCHANGED <<queue, process>>
    BY <1>4 DEF Push
  <2> DEFINE j == <<e, h>>
             x == [job |-> j, attempt |-> 0]
  <2>2. emit[e].pc = "send" /\ UNCHANGED <<sleeping, worker, posts, logs>>
    BY <1>4 DEF Push
  <2>3. emit[e] \in [pc : {"send"}, to : SUBSET Webhook]
    BY <2>2 DEF Types, EmitState
  <2>4. h \in Webhook /\ j \in Job /\ j \in Fresh /\ x \in Queued
    BY <2>1, <2>2, <2>3, ItemTypes DEF Job, Fresh
  <2>5. /\ emit' \in [Event -> EmitState]
        /\ \A d \in Event : d # e => emit'[d] = emit[d]
        /\ emit'[e].pc = "sent" \/ (emit'[e].pc = "send" /\ emit'[e].to = emit[e].to \ {h})
    <3>1. CASE emit[e].to = {h}
      <4>1. emit' = [emit EXCEPT ![e] = [pc |-> "sent"]] /\ [pc |-> "sent"] \in EmitState
        BY <2>1, <3>1 DEF EmitState
      <4>2. QED
        BY <4>1 DEF Types
    <3>2. CASE emit[e].to # {h}
      <4> DEFINE p == [pc |-> "send", to |-> emit[e].to \ {h}]
      <4>1. emit' = [emit EXCEPT ![e] = p] /\ p \in EmitState
            /\ p.pc = "send" /\ p.to = emit[e].to \ {h}
        BY <2>1, <2>3, <3>2 DEF EmitState
      <4> HIDE DEF p
      <4>2. QED
        BY <4>1 DEF Types
    <3>3. QED
      BY <3>1, <3>2
  <2>6. Fresh' \subseteq Fresh \ {j}
    <3> SUFFICES ASSUME NEW k \in Fresh' PROVE k \in Fresh /\ k # j
      OBVIOUS
    <3>1. k \in Job /\ k[1] \in Event /\ k[2] \in Webhook /\ k = <<k[1], k[2]>>
      BY DEF Fresh, Job
    <3>2. CASE k[1] # e
      BY <2>5, <3>1, <3>2 DEF Fresh
    <3>3. CASE k[1] = e
      BY <2>2, <2>5, <3>1, <3>3 DEF Fresh
    <3>4. QED
      BY <3>2, <3>3
  <2>7. posts[j] = 0 /\ fate[j] = "none" /\ \A row \in logs : row.job # j
    <3> HIDE DEF j
    <3>1. posts[j] = 0 /\ fate[j] = "none"
      BY <2>4 DEF Known, KnownJobs
    <3>2. ASSUME NEW row \in logs, row.job = j PROVE FALSE
      <4>1. row.attempts <= posts[j] /\ row.attempts \in Nat \ {0}
        BY <3>2 DEF Known, LogsAreTrue, Types, LogRow
      <4>2. QED
        BY <3>1, <4>1
    <3>3. QED
      BY <3>1, <3>2
  <2>8. /\ \A y \in Queued : Holds(y) => y.job # j
        /\ \A y \in sleeping : y.job # j
        /\ \A w \in Worker : Posting(w) => worker[w].item.job # j
    BY <2>4, PostedItem DEF Known, KnownWaiting, KnownPosting, Waiting, Open, Types
  <2>9. \A w \in Worker : Posting(w)' <=> Posting(w)
    BY <2>2 DEF Posting
  <2>10. CASE UNCHANGED <<queue, fate>>
    BY <2>2, <2>5, <2>6, <2>10, Quiet
  <2>11. CASE ~Full /\ queue' = Append(queue, x) /\ UNCHANGED fate
    <3>1. /\ queue' \in Seq(Queued) /\ Len(queue') <= BufferSize
          /\ \A y \in Queued : Holds(y)' <=> Holds(y) \/ y = x
          /\ \A i, k \in 1..Len(queue') : queue'[i].job = queue'[k].job => i = k
      <4> HIDE DEF j
      <4>1. QED
        BY <2>4, <2>8, <2>11, Pushed DEF Full
    <3>2. Types'
      BY <2>2, <2>5, <2>11, <3>1 DEF Types
    <3>3. x.job = j /\ x.attempt = 0
      OBVIOUS
    <3> HIDE DEF x, j
    <3>4. Once'
      BY <2>2, <2>8, <2>9, <3>1, <3>3 DEF Once, Types
    <3>5. LogsAreTrue'
      BY <2>2, <2>11 DEF Known, LogsAreTrue
    <3>6. Known'
      BY <2>2, <2>4, <2>6, <2>7, <2>9, <2>11, <3>1, <3>3, <3>5 DEF Known, KnownWaiting, KnownPosting, KnownJobs, Waiting, Open
    <3>7. QED
      BY <3>2, <3>4, <3>6
  <2>12. CASE fate' = [fate EXCEPT ![j] = "dropped"] /\ UNCHANGED queue
    <3>1. \A y : Holds(y)' <=> Holds(y)
      BY <2>12 DEF Holds
    <3> HIDE DEF x, j
    <3>2. Types'
      BY <2>2, <2>5, <2>12 DEF Types
    <3>3. Once'
      BY <2>2, <2>9, <2>12, <3>1 DEF Once
    <3>4. \A k \in Job : k # j => fate'[k] = fate[k]
      BY <2>12 DEF Types
    <3>5. LogsAreTrue'
      BY <2>2, <2>7, <3>4 DEF Known, LogsAreTrue, Types, LogRow
    <3>6. fate'[j] = "dropped"
      BY <2>4, <2>12 DEF Types
    <3>7. Known'
      <4>1. \A y \in Queued : y.job \in Job
        BY ItemTypes
      <4>2. \A w \in Worker : Posting(w) => worker[w].item \in Queued
        BY DEF Posting, Types, WorkerState, Idle, Exited
      <4>3. \A k \in Job : k # j => (Open(k) => Open(k)')
        BY <2>6, <3>4 DEF Open
      <4>4. \A k \in Job : /\ fate'[k] = "dead_letter" => posts'[k] = MaxRetries
                           /\ k \in Fresh' => posts'[k] = 0 /\ fate'[k] = "none"
        BY <2>2, <2>6, <3>4, <3>6 DEF Known, KnownJobs
      <4>5. QED
        BY <2>2, <2>8, <2>9, <3>1, <3>5, <4>1, <4>2, <4>3, <4>4 DEF Known, KnownWaiting, KnownPosting, KnownJobs, Waiting, Types
    <3>8. QED
      BY <3>2, <3>3, <3>7
  <2>13. QED
    BY <2>1, <2>10, <2>11, <2>12
<1>5. QED
  BY <1>1, <1>2, <1>3, <1>4 DEF Emit
-----------------------------------------------------------------------------
LEMMA Takes == ASSUME Types, Once, Known, NEW w \in Worker, Take(w) PROVE Types' /\ Once' /\ Known'
<1> DEFINE x == Head(queue)
<1>1. /\ worker[w] = Idle /\ queue # <<>> /\ queue' = Tail(queue)
      /\ worker' = [worker EXCEPT ![w] = [pc |-> "post", item |-> x]]
      /\ posts' = [posts EXCEPT ![x.job] = @ + 1]
      /\ UNCHANGED <<emit, sleeping, logs, fate>>
  BY DEF Take
<1>2. /\ queue' \in Seq(Queued) /\ Len(queue') <= BufferSize
      /\ x \in Queued /\ Holds(x)
      /\ \A y \in Queued : Holds(y)' <=> Holds(y) /\ y.job # x.job
      /\ \A i, k \in 1..Len(queue') : queue'[i].job = queue'[k].job => i = k
  BY <1>1, Taken
<1> HIDE DEF x
<1>3. /\ worker' \in [Worker -> WorkerState]
      /\ \A v \in Worker : v # w => worker'[v] = worker[v]
      /\ worker'[w].pc = "post" /\ worker'[w].item = x
  BY <1>1, <1>2 DEF Types, WorkerState
<1>4. ~Posting(w)
  BY <1>1 DEF Posting, Idle
<1>5. \A v \in Worker : Posting(v)' <=> Posting(v) \/ v = w
  BY <1>3 DEF Posting
<1>6. x.job \in Job /\ x.attempt \in Nat /\ x.attempt < MaxRetries
  BY <1>2, ItemTypes
<1>7. /\ posts' \in [Job -> Nat] /\ posts'[x.job] = x.attempt + 1
      /\ \A j \in Job : j # x.job => posts'[j] = posts[j]
  <2>1. posts[x.job] = x.attempt
    BY <1>2 DEF Known, KnownWaiting, Waiting
  <2>2. QED
    BY <1>1, <1>6, <2>1 DEF Types
<1>8. Types'
  BY <1>1, <1>2, <1>3, <1>7 DEF Types
<1>9. Once'
  BY <1>1, <1>2, <1>3, <1>4, <1>5 DEF Once, Types
<1>10. \A row \in logs : row.job \in Job /\ row.attempts \in Nat
  BY DEF Types, LogRow
<1>11. Open(x.job) /\ posts[x.job] = x.attempt
  BY <1>2 DEF Known, KnownWaiting, Waiting
<1>12. \A row \in logs : row.job = x.job => row.attempts < posts'[x.job]
  BY <1>6, <1>7, <1>10, <1>11 DEF Known, LogsAreTrue
<1>13. \A j : Open(j)' <=> Open(j)
  BY <1>1 DEF Open, Fresh
<1>14. LogsAreTrue'
  <2>1. \A row \in logs : row.status # "failed" => row.job # x.job
    BY <1>11 DEF Known, LogsAreTrue, Types, LogRow, Open
  <2>2. QED
    BY <1>1, <1>6, <1>7, <1>10, <1>12, <2>1 DEF Known, LogsAreTrue
<1>15. KnownJobs'
  <2>1. Fresh' = Fresh
    BY <1>1 DEF Fresh
  <2>2. x.job \notin Fresh /\ fate[x.job] = "none" /\ x.attempt + 1 <= MaxRetries
    BY <1>6, <1>11, DispatcherAssumption DEF Open
  <2> SUFFICES ASSUME NEW j \in Job
               PROVE  /\ posts'[j] <= MaxRetries
                      /\ fate'[j] = "dead_letter" => posts'[j] = MaxRetries
                      /\ j \in Fresh' => posts'[j] = 0 /\ fate'[j] = "none"
    BY DEF KnownJobs
  <2>3. CASE j = x.job
    BY <1>1, <1>7, <2>1, <2>2, <2>3
  <2>4. CASE j # x.job
    BY <1>1, <1>7, <2>1, <2>4 DEF Known, KnownJobs
  <2>5. QED
    BY <2>3, <2>4
<1>16. KnownWaiting'
  <2> SUFFICES ASSUME NEW y \in Queued, Waiting(y)' PROVE posts'[y.job] = y.attempt /\ Open(y.job)'
    BY DEF KnownWaiting
  <2> QED
   BY <1>1, <1>2, <1>7, <1>13, ItemTypes DEF Known, KnownWaiting, Waiting, Once
<1>17. ASSUME NEW v \in Worker, NEW y \in Queued, Posting(v)', worker'[v].item = y
       PROVE  /\ posts'[y.job] = y.attempt + 1 /\ Open(y.job)'
              /\ \A row \in logs' : row.job = y.job => row.attempts < posts'[y.job]
  <2>1. CASE v = w
    BY <1>1, <1>3, <1>7, <1>11, <1>12, <1>13, <1>17, <2>1
  <2>2. CASE v # w
    <3>1. Posting(v) /\ worker[v].item = y
      BY <1>3, <1>5, <1>17, <2>2
    <3>2. y.job # x.job /\ y.job \in Job
      BY <1>2, <3>1, ItemTypes DEF Once
    <3>3. posts'[y.job] = posts[y.job]
      BY <1>7, <3>2
    <3>4. QED
      BY <1>1, <1>13, <3>1, <3>3 DEF Known, KnownPosting
  <2>3. QED
    BY <2>1, <2>2
<1>18. KnownPosting'
  BY <1>17 DEF KnownPosting
<1>19. QED
  BY <1>8, <1>9, <1>14, <1>15, <1>16, <1>18 DEF Known

(* A worker that posts holds the only copy of its job. *)
Holding(w, x) ==
  /\ x \in Queued /\ x.job \in Job /\ x.attempt \in Nat
  /\ posts[x.job] = x.attempt + 1 /\ posts[x.job] <= MaxRetries /\ Open(x.job)
  /\ \A y \in Queued : Waiting(y) => y.job # x.job
  /\ \A v \in Worker : v # w /\ Posting(v) => worker[v].item.job # x.job
  /\ \A row \in logs : row.job = x.job => row.attempts < posts[x.job] /\ row.status = "failed"

LEMMA Held == ASSUME Types, Once, Known, NEW w \in Worker, Posting(w), NEW x, x = worker[w].item
              PROVE  Holding(w, x)
<1>1. x \in Queued /\ x.job \in Job /\ x.attempt \in Nat
  BY PostedItem, ItemTypes
<1>2. posts[x.job] = x.attempt + 1 /\ Open(x.job)
  BY <1>1 DEF Known, KnownPosting
<1>3. posts[x.job] <= MaxRetries
  BY <1>1 DEF Known, KnownJobs
<1>4. \A y \in Queued : Waiting(y) => y.job # x.job
  BY <1>1 DEF Once, Waiting
<1>5. \A v \in Worker : v # w /\ Posting(v) => worker[v].item.job # x.job
  BY DEF Once
<1>6. \A row \in logs : row.job = x.job => row.attempts < posts[x.job]
  BY <1>1 DEF Known, KnownPosting
<1>7. \A row \in logs : row.job = x.job => row.status = "failed"
  BY <1>2 DEF Known, LogsAreTrue, Open, Types, LogRow
<1>8. QED
  BY <1>1, <1>2, <1>3, <1>4, <1>5, <1>6, <1>7 DEF Holding

LEMMA Freed == ASSUME Types, NEW w \in Worker, worker' = [worker EXCEPT ![w] = Idle]
               PROVE  /\ worker' \in [Worker -> WorkerState]
                      /\ \A v \in Worker : Posting(v)' <=> Posting(v) /\ v # w
                      /\ \A v \in Worker : v # w => worker'[v] = worker[v]
BY DEF Types, WorkerState, Posting, Idle

(* The row of an attempt, if it is written, is the first of its number, and
   the verdict in it is the one just given. *)
LEMMA Logged ==
    ASSUME Types, Known, NEW w \in Worker, NEW x \in Queued, Holding(w, x),
           NEW status \in {"delivered", "dead_letter", "failed"},
           Log(x, status) \/ UNCHANGED logs,
           UNCHANGED posts, status # "failed" => fate'[x.job] = status,
           \A j \in Job : j # x.job => fate'[j] = fate[j]
    PROVE  /\ logs' \subseteq LogRow /\ LogsAreTrue'
           /\ \A row \in logs' : row.job # x.job => row \in logs
<1> DEFINE new == [job |-> x.job, status |-> status, attempts |-> x.attempt + 1]
<1>1. new \in LogRow /\ new.job = x.job /\ new.status = status /\ new.attempts = posts[x.job]
  BY DEF Holding, LogRow
<1> HIDE DEF new
<1>2. \A row \in logs : row.job = x.job => row.attempts < posts[x.job] /\ row.status = "failed"
  BY DEF Holding
<1>3. \A row \in logs : /\ row.attempts <= posts[row.job] /\ row.job \in Job
                        /\ row.attempts \in Nat
                        /\ row.status # "failed" => fate[row.job] = row.status
                                                   /\ row.attempts = posts[row.job]
  BY DEF Known, LogsAreTrue, Types, LogRow
<1>4. \A row \in logs : row.status # "failed" => fate'[row.job] = row.status
  BY <1>2, <1>3
<1>5. posts[x.job] \in Nat
  BY DEF Types, Holding
<1>6. \A row, other \in logs :
         other.job = row.job /\ other.attempts = row.attempts => other = row
  BY DEF Known, LogsAreTrue
<1>7. CASE UNCHANGED logs
  BY <1>3, <1>4, <1>6, <1>7 DEF LogsAreTrue, Types
<1>8. CASE logs' = logs \cup {new}
  <2>1. \A row \in logs : row.job = new.job => row.attempts < new.attempts
    BY <1>1, <1>2
  <2>2. \A row, other \in logs' :
           other.job = row.job /\ other.attempts = row.attempts => other = row
    BY <1>1, <1>3, <1>5, <1>6, <1>8, <2>1
  <2>3. new.status # "failed" => fate'[new.job] = new.status
    BY <1>1
  <2>4. ASSUME NEW row \in logs'
        PROVE  /\ row.attempts <= posts'[row.job]
               /\ row.status # "failed" => /\ fate'[row.job] = row.status
                                           /\ row.attempts = posts'[row.job]
               /\ \A other \in logs' :
                    other.job = row.job /\ other.attempts = row.attempts => other = row
    <3>1. CASE row = new
      BY <1>1, <1>5, <2>2, <2>3, <3>1
    <3>2. CASE row \in logs
      BY <1>3, <1>4, <2>2, <3>2
    <3>3. QED
      BY <1>8, <3>1, <3>2
  <2>5. LogsAreTrue'
    BY <2>4 DEF LogsAreTrue
  <2>6. QED
    BY <1>1, <1>8, <2>5 DEF Types
<1>9. QED
  BY <1>7, <1>8 DEF Log, new

(* The job of a worker gets its verdict. *)
LEMMA Ended ==
    ASSUME Types, Once, Known, NEW w \in Worker, NEW x \in Queued, Holding(w, x),
           NEW verdict \in {"delivered", "dead_letter", "unsent"},
           verdict = "dead_letter" => posts[x.job] = MaxRetries,
           worker' = [worker EXCEPT ![w] = Idle],
           fate' = [fate EXCEPT ![x.job] = verdict],
           IF verdict = "unsent" THEN UNCHANGED logs ELSE Log(x, verdict),
           UNCHANGED <<emit, queue, sleeping, posts>>
    PROVE  Types' /\ Once' /\ Known'
<1>1. /\ worker' \in [Worker -> WorkerState]
      /\ \A v \in Worker : Posting(v)' <=> Posting(v) /\ v # w
      /\ \A v \in Worker : v # w => worker'[v] = worker[v]
  BY Freed
<1>2. /\ fate' \in [Job -> {"none", "delivered", "dead_letter", "dropped", "unsent"}]
      /\ fate'[x.job] = verdict
      /\ \A j \in Job : j # x.job => fate'[j] = fate[j]
  BY DEF Types, Holding
<1>3. /\ logs' \subseteq LogRow /\ LogsAreTrue'
      /\ \A row \in logs' : row.job # x.job => row \in logs
  <2>1. CASE verdict = "unsent"
    <3>1. UNCHANGED logs /\ "failed" \in {"delivered", "dead_letter", "failed"}
      BY <2>1
    <3>2. QED
      BY <1>2, <3>1, Logged
  <2>2. CASE verdict # "unsent"
    <3>1. Log(x, verdict) /\ verdict \in {"delivered", "dead_letter", "failed"}
      BY <2>2
    <3>2. QED
      BY <1>2, <3>1, Logged
  <2>3. QED
    BY <2>1, <2>2
<1>4. \A y : Holds(y)' <=> Holds(y)
  BY DEF Holds
<1>5. Types'
  BY <1>1, <1>2, <1>3 DEF Types
<1>6. Once'
  BY <1>1, <1>4 DEF Once
<1>7. Fresh' = Fresh
  BY DEF Fresh
<1>8. \A j \in Job : j # x.job /\ Open(j) => Open(j)'
  BY <1>2, <1>7 DEF Open
<1>9. KnownWaiting'
  BY <1>4, <1>8, ItemTypes DEF Known, KnownWaiting, Waiting, Holding
<1>10. KnownPosting'
  <2> SUFFICES ASSUME NEW v \in Worker, NEW y \in Queued, Posting(v)', worker'[v].item = y
               PROVE  /\ posts'[y.job] = y.attempt + 1 /\ Open(y.job)'
                      /\ \A row \in logs' : row.job = y.job => row.attempts < posts'[y.job]
    BY DEF KnownPosting
  <2>1. v # w /\ Posting(v) /\ worker[v].item = y
    BY <1>1
  <2>2. y.job # x.job /\ y.job \in Job
    BY <2>1, ItemTypes DEF Holding
  <2>3. QED
    BY <1>3, <1>8, <2>1, <2>2 DEF Known, KnownPosting
<1>11. KnownJobs'
  <2> SUFFICES ASSUME NEW j \in Job
               PROVE  /\ posts'[j] <= MaxRetries
                      /\ fate'[j] = "dead_letter" => posts'[j] = MaxRetries
                      /\ j \in Fresh' => posts'[j] = 0 /\ fate'[j] = "none"
    BY DEF KnownJobs
  <2>1. CASE j = x.job
    BY <1>2, <1>7, <2>1 DEF Holding, Open
  <2>2. CASE j # x.job
    BY <1>2, <1>7, <2>2 DEF Known, KnownJobs
  <2>3. QED
    BY <2>1, <2>2
<1>12. QED
  BY <1>3, <1>5, <1>6, <1>9, <1>10, <1>11 DEF Known

LEMMA Unsent == ASSUME Types, Once, Known, NEW w \in Worker, Unsendable(w)
                PROVE  Types' /\ Once' /\ Known'
<1> DEFINE x == worker[w].item
<1>1. /\ Posting(w) /\ worker' = [worker EXCEPT ![w] = Idle]
      /\ fate' = [fate EXCEPT ![x.job] = "unsent"]
      /\ UNCHANGED <<emit, queue, sleeping, logs, posts>>
  BY DEF Unsendable, Posting
<1>2. Holding(w, x) /\ x \in Queued
  BY <1>1, Held, PostedItem
<1> HIDE DEF x
<1>3. QED
  BY <1>1, <1>2, Ended

LEMMA Delivers == ASSUME Types, Once, Known, NEW w \in Worker, Delivered(w)
                  PROVE  Types' /\ Once' /\ Known'
<1> DEFINE x == worker[w].item
<1>1. /\ Posting(w) /\ worker' = [worker EXCEPT ![w] = Idle]
      /\ fate' = [fate EXCEPT ![x.job] = "delivered"] /\ Log(x, "delivered")
      /\ UNCHANGED <<emit, queue, sleeping, posts>>
  BY DEF Delivered, Posting
<1>2. Holding(w, x) /\ x \in Queued
  BY <1>1, Held, PostedItem
<1> HIDE DEF x
<1>3. QED
  BY <1>1, <1>2, Ended

LEMMA Fails == ASSUME Types, Once, Known, NEW w \in Worker, Failed(w)
               PROVE  Types' /\ Once' /\ Known'
<1> DEFINE x == worker[w].item
           y == [job |-> x.job, attempt |-> x.attempt + 1]
<1>1. /\ Posting(w) /\ worker' = [worker EXCEPT ![w] = Idle]
      /\ HandleFailure(x) /\ UNCHANGED <<emit, queue, posts>>
  BY DEF Failed, Posting
<1>2. Holding(w, x) /\ x \in Queued
  BY <1>1, Held, PostedItem
<1> HIDE DEF x
<1>3. CASE Exhausted(x) /\ fate' = [fate EXCEPT ![x.job] = "dead_letter"]
           /\ Log(x, "dead_letter") /\ UNCHANGED sleeping
  <2>1. posts[x.job] = MaxRetries
    BY <1>2, <1>3, DispatcherAssumption DEF Exhausted, Holding
  <2>2. QED
    BY <1>1, <1>2, <1>3, <2>1, Ended
<1>4. CASE ~Exhausted(x) /\ sleeping' = sleeping \cup {y} /\ Log(x, "failed") /\ UNCHANGED fate
  <2>1. y \in Queued /\ y.job = x.job /\ y.attempt = posts[x.job]
    BY <1>2, <1>4, ItemTypes, DispatcherAssumption DEF Exhausted, Holding
  <2> HIDE DEF y
  <2>2. /\ worker' \in [Worker -> WorkerState]
        /\ \A v \in Worker : Posting(v)' <=> Posting(v) /\ v # w
        /\ \A v \in Worker : v # w => worker'[v] = worker[v]
    BY <1>1, Freed
  <2>3. /\ logs' \subseteq LogRow /\ LogsAreTrue'
        /\ \A row \in logs' : row.job # x.job => row \in logs
    BY <1>1, <1>2, <1>4, Logged
  <2>4. \A z : Holds(z)' <=> Holds(z)
    BY <1>1 DEF Holds
  <2>5. \A z \in sleeping : z \in Queued /\ z.job # x.job
    BY <1>2 DEF Holding, Waiting, Types
  <2>6. Types'
    BY <1>1, <1>4, <2>1, <2>2, <2>3 DEF Types
  <2>7. Once'
    BY <1>1, <1>2, <1>4, <2>1, <2>2, <2>4, <2>5 DEF Once, Holding, Waiting
  <2>8. \A j \in Job : Open(j)' <=> Open(j)
    BY <1>1, <1>4 DEF Open, Fresh
  <2>9. KnownWaiting'
    BY <1>1, <1>2, <1>4, <2>1, <2>4, <2>8, ItemTypes DEF Known, KnownWaiting, Waiting, Holding
  <2>10. KnownPosting'
    <3> SUFFICES ASSUME NEW v \in Worker, NEW z \in Queued, Posting(v)', worker'[v].item = z
                 PROVE  /\ posts'[z.job] = z.attempt + 1 /\ Open(z.job)'
                        /\ \A row \in logs' : row.job = z.job => row.attempts < posts'[z.job]
      BY DEF KnownPosting
    <3>1. v # w /\ Posting(v) /\ worker[v].item = z
      BY <2>2
    <3>2. z.job # x.job /\ z.job \in Job
      BY <1>2, <3>1, ItemTypes DEF Holding
    <3>3. QED
      BY <1>1, <2>3, <2>8, <3>1, <3>2 DEF Known, KnownPosting
  <2>11. KnownJobs'
    BY <1>1, <1>4 DEF Known, KnownJobs, Fresh
  <2>12. QED
    BY <2>3, <2>6, <2>7, <2>9, <2>10, <2>11 DEF Known
<1>5. QED
  BY <1>1, <1>3, <1>4 DEF HandleFailure

LEMMA Wakes == ASSUME Types, Once, Known, NEW x \in sleeping, Wake(x)
               PROVE  Types' /\ Once' /\ Known'
<1>1. /\ sleeping' = sleeping \ {x} /\ UNCHANGED <<emit, worker, logs, posts>>
      /\ \/ UNCHANGED <<queue, fate>>
         \/ ~Full /\ queue' = Append(queue, x) /\ UNCHANGED fate
         \/ fate' = [fate EXCEPT ![x.job] = "dropped"] /\ UNCHANGED queue
  BY DEF Wake
<1>2. x \in Queued /\ x.job \in Job /\ posts[x.job] = x.attempt /\ Open(x.job)
  BY ItemTypes DEF Types, Known, KnownWaiting, Waiting
<1>3. /\ \A y \in Queued : Holds(y) => y.job # x.job
      /\ \A y \in sleeping' : y \in Queued /\ y \in sleeping /\ y.job # x.job
      /\ \A w \in Worker : Posting(w) => worker[w].item.job # x.job
  BY <1>1, <1>2 DEF Once, Types
<1>4. \A w \in Worker : Posting(w)' <=> Posting(w)
  BY <1>1 DEF Posting
<1>5. Fresh' = Fresh
  BY <1>1 DEF Fresh
<1>6. CASE UNCHANGED <<queue, fate>>
  <2>1. \A y : Holds(y)' <=> Holds(y)
    BY <1>6 DEF Holds
  <2>2. Types' /\ Once'
    BY <1>1, <1>3, <1>4, <1>6, <2>1 DEF Types, Once
  <2>3. \A j : Open(j)' <=> Open(j)
    BY <1>5, <1>6 DEF Open
  <2>4. KnownWaiting'
    BY <1>1, <1>3, <2>1, <2>3 DEF Known, KnownWaiting, Waiting
  <2>5. KnownPosting'
    BY <1>1, <1>4, <2>3 DEF Known, KnownPosting
  <2>6. KnownJobs' /\ LogsAreTrue'
    BY <1>1, <1>5, <1>6 DEF Known, KnownJobs, LogsAreTrue
  <2>7. QED
    BY <2>2, <2>4, <2>5, <2>6 DEF Known
<1>7. CASE ~Full /\ queue' = Append(queue, x) /\ UNCHANGED fate
  <2>1. /\ queue' \in Seq(Queued) /\ Len(queue') <= BufferSize
        /\ \A y \in Queued : Holds(y)' <=> Holds(y) \/ y = x
        /\ \A i, k \in 1..Len(queue') : queue'[i].job = queue'[k].job => i = k
    BY <1>2, <1>3, <1>7, Pushed DEF Full
  <2>2. Types'
    BY <1>1, <1>3, <1>7, <2>1 DEF Types
  <2>3. Once'
    BY <1>1, <1>3, <1>4, <2>1 DEF Once, Types
  <2>4. \A j : Open(j)' <=> Open(j)
    BY <1>5, <1>7 DEF Open
  <2>5. KnownWaiting'
    BY <1>1, <1>2, <1>3, <2>1, <2>4 DEF Known, KnownWaiting, Waiting
  <2>6. KnownPosting'
    BY <1>1, <1>4, <2>4 DEF Known, KnownPosting
  <2>7. KnownJobs' /\ LogsAreTrue'
    BY <1>1, <1>5, <1>7 DEF Known, KnownJobs, LogsAreTrue
  <2>8. QED
    BY <2>2, <2>3, <2>5, <2>6, <2>7 DEF Known
<1>8. CASE fate' = [fate EXCEPT ![x.job] = "dropped"] /\ UNCHANGED queue
  <2>1. \A y : Holds(y)' <=> Holds(y)
    BY <1>8 DEF Holds
  <2>2. fate'[x.job] = "dropped" /\ \A j \in Job : j # x.job => fate'[j] = fate[j]
    BY <1>2, <1>8 DEF Types
  <2>3. Types' /\ Once'
    BY <1>1, <1>3, <1>4, <1>8, <2>1 DEF Types, Once
  <2>4. \A j \in Job : j # x.job /\ Open(j) => Open(j)'
    BY <1>5, <2>2 DEF Open
  <2>5. KnownWaiting'
    BY <1>1, <1>3, <2>1, <2>4, ItemTypes DEF Known, KnownWaiting, Waiting
  <2>6. KnownPosting'
    BY <1>1, <1>3, <1>4, <2>4, ItemTypes DEF Known, KnownPosting
  <2>7. KnownJobs'
    BY <1>1, <1>2, <1>5, <2>2 DEF Known, KnownJobs, Open
  <2>8. LogsAreTrue'
    <3>1. \A row \in logs : row.job \in Job /\ (row.status # "failed" => row.job # x.job)
      BY <1>2 DEF Known, LogsAreTrue, Open, Types, LogRow
    <3>2. QED
      BY <1>1, <2>2, <3>1 DEF Known, LogsAreTrue
  <2>9. QED
    BY <2>3, <2>5, <2>6, <2>7, <2>8 DEF Known
<1>9. QED
  BY <1>1, <1>6, <1>7, <1>8

LEMMA Exits == ASSUME Types, Once, Known, NEW w \in Worker, Exit(w)
               PROVE  Types' /\ Once' /\ Known'
<1>1. /\ worker[w] = Idle /\ worker' = [worker EXCEPT ![w] = Exited]
      /\ UNCHANGED <<emit, queue, sleeping, posts, fate, logs>>
  BY DEF Exit
<1>2. /\ worker' \in [Worker -> WorkerState]
      /\ \A v \in Worker : Posting(v)' <=> Posting(v)
      /\ \A v \in Worker : Posting(v) => worker'[v] = worker[v]
  BY <1>1 DEF Types, WorkerState, Posting, Idle, Exited
<1>3. \A x : Holds(x)' <=> Holds(x)
  BY <1>1 DEF Holds
<1>4. Types' /\ Once'
  BY <1>1, <1>2, <1>3 DEF Types, Once
<1>5. \A j : Open(j)' <=> Open(j)
  BY <1>1 DEF Open, Fresh
<1>6. KnownWaiting' /\ KnownPosting'
  BY <1>1, <1>2, <1>3, <1>5 DEF Known, KnownWaiting, KnownPosting, Waiting
<1>7. KnownJobs' /\ LogsAreTrue'
  BY <1>1 DEF Known, KnownJobs, LogsAreTrue, Fresh
<1>8. QED
  BY <1>4, <1>6, <1>7 DEF Known

LEMMA Step == Types /\ Once /\ Known /\ [Next]_vars => Types' /\ Once' /\ Known'
<1> SUFFICES ASSUME Types, Once, Known, [Next]_vars PROVE Types' /\ Once' /\ Known'
  OBVIOUS
<1>1. ASSUME NEW e \in Event, Emit(e) PROVE Types' /\ Once' /\ Known'
  BY <1>1, Emits
<1>2. ASSUME NEW w \in Worker, Work(w) PROVE Types' /\ Once' /\ Known'
  BY <1>2, Takes, Unsent, Delivers, Fails, Exits DEF Work
<1>3. ASSUME NEW item \in sleeping, Wake(item) PROVE Types' /\ Once' /\ Known'
  BY <1>3, Wakes
<1>4. CASE Stop \/ UNCHANGED vars
  <2>1. UNCHANGED <<emit, queue, sleeping, worker, posts, fate, logs>>
    BY <1>4 DEF Stop, Cancel, Close, Wait, ExitProcess, vars
  <2>2. emit' \in [Event -> EmitState] /\ Fresh' \subseteq Fresh
    BY <2>1 DEF Types, Fresh
  <2>3. QED
    BY <2>1, <2>2, Quiet
<1>5. QED
  BY <1>1, <1>2, <1>3, <1>4 DEF Next

LEMMA Always == Spec => [](Types /\ Once /\ Known)
<1>1. QED
  BY InitInv, Step, PTL DEF Spec
-----------------------------------------------------------------------------
(* Where a job is, counted. *)
LEMMA AtMostOne == ASSUME NEW S, \A a, b \in S : a = b
                   PROVE  (S = {} /\ Cardinality(S) = 0) \/ (S # {} /\ Cardinality(S) = 1)
<1>1. CASE S = {}
  BY <1>1, FS_EmptySet
<1>2. CASE S # {}
  <2>1. PICK a : a \in S
    BY <1>2
  <2>2. S = {a}
    BY <2>1
  <2>3. QED
    BY <1>2, <2>2, FS_Singleton
<1>3. QED
  BY <1>1, <1>2

LEMMA Counted ==
    ASSUME Types, Once, NEW j \in Job
    PROVE  /\ Places(j) \in 0..1
           /\ Places(j) = 0 \/ (\E x \in Queued : x.job = j /\ Waiting(x))
                             \/ (\E w \in Worker : Posting(w) /\ worker[w].item.job = j)
<1> DEFINE A == {i \in DOMAIN queue : queue[i].job = j}
           B == {w \in Worker : worker[w].pc = "post" /\ worker[w].item.job = j}
           C == {item \in sleeping : item.job = j}
<1>1. DOMAIN queue = 1..Len(queue) /\ \A i \in 1..Len(queue) : queue[i] \in Queued
  BY LenProperties DEF Types
<1>2. /\ \A i, k \in A : i = k
      /\ \A w, v \in B : w = v
      /\ \A x, y \in C : x = y
  BY <1>1 DEF Once, Posting
<1>3. /\ A # {} => \E x \in Queued : Holds(x) /\ x.job = j
      /\ B # {} => \E w \in Worker : Posting(w) /\ worker[w].item.job = j
      /\ C # {} => \E x \in Queued : x \in sleeping /\ x.job = j
  BY <1>1 DEF Holds, Posting, Types
<1>4. /\ A # {} => B = {} /\ C = {}
      /\ B # {} => C = {}
  BY <1>3 DEF Once, Posting, Types
<1>5. Places(j) = Cardinality(A) + Cardinality(B) + Cardinality(C)
  BY DEF Places
<1> HIDE DEF A, B, C
<1>6. /\ (A = {} /\ Cardinality(A) = 0) \/ (A # {} /\ Cardinality(A) = 1)
      /\ (B = {} /\ Cardinality(B) = 0) \/ (B # {} /\ Cardinality(B) = 1)
      /\ (C = {} /\ Cardinality(C) = 0) \/ (C # {} /\ Cardinality(C) = 1)
  BY <1>2, AtMostOne
<1>7. Places(j) \in 0..1 /\ (Places(j) = 0 \/ A # {} \/ B # {} \/ C # {})
  BY <1>4, <1>5, <1>6
<1>8. QED
  BY <1>3, <1>7 DEF Waiting

LEMMA SafetyOfInv == Types /\ Once /\ Known => TypeOK /\ OneCopy /\ VerdictIsFinal /\ LogsAreTrue
<1> SUFFICES ASSUME Types, Once, Known PROVE TypeOK /\ OneCopy /\ VerdictIsFinal /\ LogsAreTrue
  OBVIOUS
<1>1. TypeOK
  BY DEF Types, TypeOK, WorkerState, Idle, Exited
<1>2. OneCopy
  BY Counted DEF OneCopy
<1>3. ASSUME NEW j \in Job, fate[j] # "none" PROVE Places(j) = 0
  <2>1. ~\E x \in Queued : x.job = j /\ Waiting(x)
    BY <1>3 DEF Known, KnownWaiting, Open
  <2>2. ~\E w \in Worker : Posting(w) /\ worker[w].item.job = j
    BY <1>3, PostedItem DEF Known, KnownPosting, Open
  <2>3. QED
    BY <2>1, <2>2, Counted
<1>4. VerdictIsFinal
  BY <1>3 DEF VerdictIsFinal, Known, KnownJobs
<1>5. QED
  BY <1>1, <1>2, <1>4 DEF Known

(* Types of the dispatcher's state: its queue never outgrows its buffer, and
   what is queued again has attempts left. *)
THEOREM Typing == Spec => []TypeOK
BY Always, SafetyOfInv, PTL

(* A job is queued, being posted or waiting for its retry, and in one of
   these only: dispatcher.go hands it from place to place and never copies
   it, so no webhook is sent one event twice at once. *)
THEOREM SentOnceAtATime == Spec => []OneCopy
BY Always, SafetyOfInv, PTL

(* handleFailure (dispatcher.go:166-187) gives a job up exactly when its
   attempts are used up, and a job delivered, given up or dropped is never
   seen again. *)
THEOREM Verdicts == Spec => []VerdictIsFinal
BY Always, SafetyOfInv, PTL

(* The delivery log (dispatcher.go:149-203) has one row for an attempt, and a
   verdict in it is the last word on its job. *)
THEOREM TrueLog == Spec => []LogsAreTrue
BY Always, SafetyOfInv, PTL
=============================================================================
