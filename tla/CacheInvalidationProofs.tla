---------------------- MODULE CacheInvalidationProofs ----------------------
(***************************************************************************)
(* The answer cache for every number of gateways, requests, prompts, tools *)
(* and operations: versions keep configurations apart, a bump hides what   *)
(* was answered before it, and a tool event leaves no copy it knew of.     *)
(***************************************************************************)
EXTENDS CacheInvalidation, FiniteSetTheorems, SequenceTheorems, TLAPS

-----------------------------------------------------------------------------
(* The types of requests and of operations in every state of theirs.        *)

Known == [data : [Tool -> Nat], config : Nat]

Arrived == [pc : {"version"}, gw : Gateway, slots : Prompts, keep : Prompts, skip : BOOLEAN,
            floor : Known]
Versioned == [pc : {"remember"}, gw : Gateway, slots : Prompts, keep : Prompts, skip : BOOLEAN,
              ver : Version, floor : Known]
Asking == [pc : {"valkey", "durable", "generate"}, gw : Gateway, slots : Prompts, keep : Prompts,
           at : Nat, ver : Version, via : {"memory", "valkey", "error"}, floor : Known]
Storing == [pc : {"populate", "tag"}, gw : Gateway, slots : Prompts, at : Nat, ver : Version,
            untagged : SUBSET Tool, answer : Answer]
Found == [pc : {"hit"}, gw : Gateway, via : {"memory", "valkey", "error"}, floor : Known,
          answer : Answer]

RequestOK(x) ==
    \/ x.pc \in {"idle", "failed", "generated", "lost"}
    \/ x \in Arrived \cup Versioned \cup Found
    \/ x \in Asking \cup Storing /\ x.at \in DOMAIN x.slots

Bumping == [pc : {"bump"}, gw : Gateway, config : Nat]
Bumped == [pc : {"remember"}, gw : Gateway, config : Nat, ver : Version]
Busting == [pc : {"bust"}, gw : Gateway, tools : Seq(Tool) \ {<<>>}, data : [Tool -> Nat]]
Popped == [pc : {"delete", "purge"}, gw : Gateway, tools : Seq(Tool) \ {<<>>},
           data : [Tool -> Nat], keys : (SUBSET Key) \ {{}}, epoch : Nat]
Flushing == [pc : {"flush", "flushdb"}, gw : Gateway]

OperationOK(y) ==
    \/ y.pc \in {"idle", "done", "failed", "lost"}
    \/ y \in Bumping \cup Bumped \cup Busting \cup Popped \cup Flushing

(* Bumps are counted: the version never exceeds the operations that may have
   made one. *)
Counted == {o \in Op : op[o].pc \notin {"idle", "bump"}}

StoreTypes ==
    /\ valkey \in [Key -> Stored \cup {None}] /\ durable \in [Key -> Stored \cup {None}]
    /\ writes \subseteq [to : {"valkey", "durable"}, key : Key, gw : Gateway, answer : Answer]
MetaTypes ==
    /\ counter \in Nat /\ counter <= Cardinality(Counted)
    /\ index \in [Tool -> SUBSET Key]
    /\ verCache \in [Gateway -> Version \cup {None}]
RequestTypes == DOMAIN req = Request /\ \A r \in Request : RequestOK(req[r])
OperationTypes == DOMAIN op = Op /\ \A o \in Op : OperationOK(op[o])
HistoryTypes ==
    /\ data \in [Tool -> Nat] /\ config \in Nat
    /\ epoch \in [Tool -> Nat]
    /\ tagged \in [Request -> [Tool -> Nat \cup {None}]]
    /\ configAt \in [Version -> Nat]
    /\ known \in Known

Types == StoreTypes /\ MetaTypes /\ RequestTypes /\ OperationTypes /\ HistoryTypes

-----------------------------------------------------------------------------
(* Versions, while the counter is not lost.                                  *)

(* What a request has seen of the versions up to n, which were reached with
   the configurations f, when configuration k was known. *)
RequestBehind(x, n, f, k) ==
    /\ x.pc = "version" => x.floor.config <= k
    /\ x.pc \in {"remember", "valkey", "durable", "generate", "populate", "tag"} => x.ver <= n
    /\ \/ x.pc = "remember"
       \/ x.pc \in {"valkey", "durable", "generate"} /\ x.via = "valkey"
       => x.floor.config <= f[x.ver]
    /\ x.pc \in {"populate", "tag"} => f[x.ver] <= x.answer.config
    /\ x.pc = "hit" /\ x.via = "valkey" => x.floor.config <= x.answer.config

(* The same of an operation, when the configuration is c. *)
OperationBehind(y, n, f, c) ==
    /\ y.pc = "bump" => y.config <= c
    /\ y.pc = "remember" => y.ver <= n /\ y.config <= f[y.ver]

(* An answer belongs under a key. *)
Filed(k, answer, n, f) == k.ver <= n /\ f[k.ver] <= answer.config

Versions ==
    /\ \A g \in Gateway : verCache[g] # None => verCache[g] <= counter
    /\ \A r \in Request : RequestBehind(req[r], counter, configAt, known.config)
    /\ \A o \in Op : OperationBehind(op[o], counter, configAt, config)
    /\ \A k \in Key : \A c \in Copies(k) : Filed(k, c.answer, counter, configAt)
    /\ \A w \in writes : Filed(w.key, w.answer, counter, configAt)
    /\ \A v, w \in Version : v <= w /\ w <= counter => configAt[v] <= configAt[w]
    /\ configAt[counter] <= config
    /\ known.config <= configAt[counter]

-----------------------------------------------------------------------------
(* Copies, and the operations that bust them.                                *)

(* Before it has an answer, a request has stored none and tagged nothing. *)
Early == {"idle", "version", "remember", "valkey", "durable", "generate"}

(* An answer at key k, or on its way there: its request wrote or writes it
   there, and what is tagged in the present epoch is in the index. *)
Traced(k, answer) ==
    LET r == answer.by IN
    /\ req[r].pc \notin Early
    /\ req[r].pc \in {"populate", "tag"} => k \in Keys(r)
    /\ \A t \in answer.tools : tagged[r][t] = epoch[t] => k \in index[t]

(* A copy whose epoch of t is n is not one that was busted, and each
   operation about to bust it knows its key, and has not passed it. *)
Pending(k, c, passed) ==
    \A t \in c.answer.tools : tagged[c.answer.by][t] = c.epoch[t] =>
        /\ <<t, c.epoch[t]>> \notin cleared
        /\ \A o \in Op :
              /\ op[o].pc \in {"delete", "purge"} 
              /\ Head(op[o].tools) = t /\ op[o].epoch = c.epoch[t]
              => k \in op[o].keys /\ op[o].pc \notin passed

Busts ==
    /\ \A r \in Request :
          /\ req[r].pc \in Early \cup {"populate"} => \A t \in Tool : tagged[r][t] = None
          /\ req[r].pc \in {"populate", "tag"} => req[r].answer.by = r
    /\ \A r \in Request, t \in Tool : tagged[r][t] = None \/ tagged[r][t] <= epoch[t]
    /\ \A e \in cleared : e[1] \in Tool /\ e[2] \in Nat /\ e[2] < epoch[e[1]]
    /\ \A o \in Op : op[o].pc \in {"delete", "purge"} => op[o].epoch < epoch[Head(op[o].tools)]
    /\ \A k \in Key : \A c \in Copies(k) : Traced(k, c.answer)
    /\ \A w \in writes : Traced(w.key, w.answer)
    /\ \A k \in Key : valkey[k] # None => Pending(k, valkey[k], {"purge"})
    /\ \A k \in Key : durable[k] # None => Pending(k, durable[k], {})
-----------------------------------------------------------------------------
(* Types.                                                                    *)

LEMMA VersionInRange ==
    ASSUME Types
    PROVE  counter \in Version /\ 0 \in Version /\ Version \subseteq Nat /\ Cardinality(Op) \in Nat
<1>1. Counted \in SUBSET Op
  BY DEF Counted
<1>2. /\ Cardinality(Op) \in Nat /\ Cardinality(Counted) \in Nat
      /\ Cardinality(Counted) <= Cardinality(Op)
  BY <1>1, CacheAssumption, FS_CardinalityType, FS_Subset
<1>3. QED
  BY <1>2 DEF Types, MetaTypes, Version

(* A prompt's slots make keys. *)
LEMMA Slots ==
    ASSUME NEW slots \in Prompts
    PROVE  /\ DOMAIN slots = 1..Len(slots) /\ Len(slots) \in Nat \ {0}
           /\ \A i \in DOMAIN slots : slots[i] \in Slot
BY CacheAssumption
LEMMA KeysOf ==
    ASSUME NEW r \in Request, req[r] \in Asking \cup Storing, req[r].at \in DOMAIN req[r].slots
    PROVE  /\ Here(r) \in Key /\ Here(r) \in Keys(r) /\ Keys(r) \subseteq Key
           /\ Here(r).ver = req[r].ver /\ \A k \in Keys(r) : k.ver = req[r].ver
<1>1. req[r].slots \in Prompts /\ req[r].ver \in Version
  BY DEF Asking, Storing
<1>2. QED
  BY <1>1, Slots DEF Here, Keys, KeyOf, Key

(* The next key of a prompt, if there is one. *)
LEMMA NextKey ==
    ASSUME NEW slots \in Prompts, NEW at \in DOMAIN slots
    PROVE  /\ at \in Nat /\ 1 \in DOMAIN slots
           /\ at < Len(slots) => at + 1 \in DOMAIN slots
BY Slots

-----------------------------------------------------------------------------
(* What a request does.                                                      *)

(* A step keeps what is invariant. *)
Kept == Types' /\ (Versions => Versions') /\ (Busts => Busts')

(* A step of one request that changes no store, but perhaps what a gateway
   remembers, or what is about to be written. *)
LEMMA RequestWrites ==
    ASSUME Types, NEW r \in Request, NEW x, RequestOK(x), req' = [req EXCEPT ![r] = x],
           UNCHANGED <<valkey, durable, counter, index, op, data, config, history>>,
           writes' \subseteq [to : {"valkey", "durable"}, key : Key, gw : Gateway, answer : Answer],
           Versions => \A w \in writes' : Filed(w.key, w.answer, counter, configAt),
           Busts => \A w \in writes' : Traced(w.key, w.answer),
           verCache' \in [Gateway -> Version \cup {None}],
           Versions => \A g \in Gateway : verCache'[g] # None => verCache'[g] <= counter,
           Versions => RequestBehind(x, counter, configAt, known.config),
           req[r].pc \in Early \/ x.pc \notin Early \cup {"populate", "tag"},
           x.pc \in {"populate", "tag"} => x.answer.by = r
    PROVE  Kept
<1>0. RequestTypes
  BY DEF Types
<1>1. RequestTypes' /\ \A s \in Request : req'[s] = IF s = r THEN x ELSE req[s]
  <2>1. DOMAIN req' = Request /\ \A s \in Request : req'[s] = IF s = r THEN x ELSE req[s]
    BY <1>0 DEF RequestTypes
  <2>2. RequestTypes'
    BY <1>0, <2>1 DEF RequestTypes
  <2>3. QED
    BY <2>1, <2>2
<1>2. Counted' = Counted
  BY DEF Counted
<1>3. Types'
  BY <1>1, <1>2 DEF Types, StoreTypes, MetaTypes, OperationTypes, HistoryTypes, history
<1>4. ASSUME Versions PROVE Versions'
  <2>1. \A k \in Key : Copies(k)' = Copies(k)
    BY DEF Copies
  <2>2. \A s \in Request : RequestBehind(req'[s], counter, configAt, known.config)
    BY <1>1, <1>4 DEF Versions
  <2>3. UNCHANGED <<counter, configAt, known, config, op>>
    BY DEF history
  <2>4. QED
    BY <1>4, <2>1, <2>2, <2>3 DEF Versions
<1>5. ASSUME Busts PROVE Busts'
  <2>0. UNCHANGED <<valkey, durable, index, epoch, tagged, cleared, op>>
    BY DEF history
  <2>1. ASSUME NEW k \in Key, NEW answer, Traced(k, answer), answer.by \in Request
        PROVE  Traced(k, answer)'
    <3>1. CASE answer.by # r
      <4>1. req'[answer.by] = req[answer.by]
        BY <1>1, <2>1, <3>1
      <4>2. Keys(answer.by)' = Keys(answer.by)
        BY <4>1 DEF Keys, KeyOf
      <4>3. QED
        BY <2>0, <2>1, <4>1, <4>2 DEF Traced
    <3>2. CASE answer.by = r
      <4>1. req[r].pc \notin Early
        BY <2>1, <3>2 DEF Traced
      <4>2. req'[r].pc \notin Early \cup {"populate", "tag"}
        BY <1>1, <4>1
      <4>3. QED
        BY <2>0, <2>1, <3>2, <4>2 DEF Traced
    <3>3. QED
      BY <3>1, <3>2
  <2>2. ASSUME NEW k \in Key PROVE \A c \in Copies(k)' : Traced(k, c.answer)'
    <3>1. Copies(k)' = Copies(k)
      BY <2>0 DEF Copies
    <3>2. \A c \in Copies(k) : c.answer.by \in Request
      BY DEF Types, StoreTypes, Copies, Stored, Answer
    <3>3. QED
      BY <1>5, <2>1, <3>1, <3>2 DEF Busts
  <2>3. \A w \in writes' : Traced(w.key, w.answer)'
    <3>1. \A w \in writes' : w.key \in Key /\ w.answer.by \in Request
      BY DEF Answer
    <3>2. QED
      BY <1>5, <2>1, <3>1
  <2>4. ASSUME NEW s \in Request
        PROVE  /\ req'[s].pc \in Early \cup {"populate"} => \A t \in Tool : tagged[s][t] = None
               /\ req'[s].pc \in {"populate", "tag"} => req'[s].answer.by = s
    BY <1>1, <1>5 DEF Busts
  <2>5. \A k, c, passed : Pending(k, c, passed)' <=> Pending(k, c, passed)
    BY <2>0 DEF Pending
  <2>6. /\ \A k \in Key : valkey'[k] # None => Pending(k, valkey[k], {"purge"})'
        /\ \A k \in Key : durable'[k] # None => Pending(k, durable[k], {})'
    BY <1>5, <2>0, <2>5 DEF Busts
  <2>7. QED
    BY <1>5, <2>0, <2>2, <2>3, <2>4, <2>6 DEF Busts
<1>6. QED
  BY <1>3, <1>4, <1>5 DEF Kept

(* One that writes nothing. *)
LEMMA RequestAlone ==
    ASSUME Types, NEW r \in Request, NEW x, RequestOK(x), req' = [req EXCEPT ![r] = x],
           UNCHANGED <<store, counter, index, op, data, config, history>>,
           verCache' \in [Gateway -> Version \cup {None}],
           Versions => \A g \in Gateway : verCache'[g] # None => verCache'[g] <= counter,
           Versions => RequestBehind(x, counter, configAt, known.config),
           req[r].pc \in Early \/ x.pc \notin Early \cup {"populate", "tag"},
           x.pc \in {"populate", "tag"} => x.answer.by = r
    PROVE  Kept
<1>1. /\ UNCHANGED <<valkey, durable, counter, index, op, data, config, history>>
      /\ writes' \subseteq [to : {"valkey", "durable"}, key : Key, gw : Gateway, answer : Answer]
      /\ Versions => \A w \in writes' : Filed(w.key, w.answer, counter, configAt)
      /\ Busts => \A w \in writes' : Traced(w.key, w.answer)
  BY DEF store, Types, StoreTypes, Versions, Busts
<1>2. QED
  BY <1>1, RequestWrites

(* The version is known: the lookups begin. *)
LEMMA VersionKnown ==
    ASSUME Types, NEW r \in Request, NEW v \in Version, NEW via \in {"memory", "valkey", "error"},
           req[r] \in Arrived \cup Versioned, WithVersion(r, v, via)
    PROVE  \E x \in Asking :
              /\ req' = [req EXCEPT ![r] = x] /\ x.at \in DOMAIN x.slots
              /\ x.ver = v /\ x.via = via /\ x.floor = req[r].floor
<1> DEFINE q == req[r]
           x == [pc |-> IF q.skip THEN "generate" ELSE "valkey", gw |-> q.gw, slots |-> q.slots,
                 keep |-> q.keep, at |-> 1, ver |-> v, via |-> via, floor |-> q.floor]
<1>1. /\ q.gw \in Gateway /\ q.slots \in Prompts /\ q.keep \in Prompts /\ q.floor \in Known
  BY DEF Arrived, Versioned
<1>2. x \in Asking /\ x.at \in DOMAIN x.slots
  BY <1>1, Slots DEF Asking
<1>3. req' = [req EXCEPT ![r] = x]
  BY DEF WithVersion
<1>4. x.ver = v /\ x.via = via /\ x.floor = req[r].floor
  OBVIOUS
<1>5. QED
  BY <1>2, <1>3, <1>4

LEMMA ArriveKept == ASSUME Types, NEW r \in Request, Arrive(r) PROVE Kept
<1>1. PICK g \in Gateway, slots \in Prompts, keep \in Prompts, skip \in BOOLEAN :
          req' = [req EXCEPT ![r] = [pc |-> "version", gw |-> g, slots |-> slots,
                                     keep |-> keep, skip |-> skip, floor |-> known]]
  BY DEF Arrive
<1> DEFINE x == [pc |-> "version", gw |-> g, slots |-> slots, keep |-> keep, skip |-> skip,
                 floor |-> known]
<1>2. x \in Arrived /\ known.config \in Nat
  BY DEF Arrived, Types, HistoryTypes, Known
<1>3. RequestOK(x) /\ RequestBehind(x, counter, configAt, known.config)
  BY <1>2 DEF RequestOK, RequestBehind
<1>4. /\ UNCHANGED <<store, counter, index, op, data, config, history, verCache>>
      /\ verCache \in [Gateway -> Version \cup {None}]
      /\ Versions => \A h \in Gateway : verCache[h] # None => verCache[h] <= counter
      /\ req[r].pc \in Early /\ x.pc = "version"
  BY DEF Arrive, meta, Types, MetaTypes, Versions, Early
<1>5. req' = [req EXCEPT ![r] = x]
  BY <1>1
<1> HIDE DEF x
<1>6. QED
  BY <1>3, <1>4, <1>5, RequestAlone

LEMMA VersionKept ==
    ASSUME Types, NEW r \in Request, RememberedVersion(r) \/ ReadVersion(r) \/ RememberVersion(r)
    PROVE  Kept
<1>0. /\ UNCHANGED <<store, counter, index, op, data, config, history>>
      /\ verCache \in [Gateway -> Version \cup {None}]
      /\ counter \in Version /\ 0 \in Version /\ Version \subseteq Nat
      /\ req[r].pc \in {"version", "remember"} /\ req[r].pc \in Early
  BY VersionInRange
  DEF RememberedVersion, ReadVersion, RememberVersion, meta, Types, MetaTypes, Early
<1>1. req[r] \in Arrived \cup Versioned
  BY <1>0 DEF Types, RequestTypes, RequestOK, Found, Asking, Storing
<1>2. ASSUME NEW v \in Version, NEW via \in {"memory", "valkey", "error"}, WithVersion(r, v, via),
             verCache' \in [Gateway -> Version \cup {None}],
             Versions => \A h \in Gateway : verCache'[h] # None => verCache'[h] <= counter,
             Versions => v <= counter /\ (via = "valkey" => req[r].floor.config <= configAt[v])
      PROVE  Kept
  <2>1. PICK x \in Asking :
            /\ req' = [req EXCEPT ![r] = x] /\ x.at \in DOMAIN x.slots
            /\ x.ver = v /\ x.via = via /\ x.floor = req[r].floor
    BY <1>1, <1>2, VersionKnown
  <2>2. RequestOK(x) /\ x.pc \notin {"populate", "tag"}
    BY <2>1 DEF RequestOK, Asking
  <2>3. Versions => RequestBehind(x, counter, configAt, known.config)
    BY <1>2, <2>1 DEF RequestBehind, Asking
  <2>4. QED
    BY <1>0, <1>2, <2>1, <2>2, <2>3, RequestAlone
<1>3. CASE RememberedVersion(r)
  <2>1. req[r].gw \in Gateway
    BY <1>1 DEF Arrived, Versioned
  <2>2. verCache[req[r].gw] \in Version /\ (Versions => verCache[req[r].gw] <= counter)
    BY <1>0, <1>3, <2>1 DEF RememberedVersion, Versions
  <2>3. verCache' = verCache
    BY <1>3 DEF RememberedVersion, meta
  <2>4. QED
    BY <1>0, <1>2, <1>3, <2>2, <2>3 DEF RememberedVersion, Versions
<1>4. CASE ReadVersion(r)
  <2>0. verCache' = verCache /\ req[r].pc = "version"
    BY <1>4 DEF ReadVersion, meta
  <2>1. CASE WithVersion(r, 0, "error")
    BY <1>0, <1>2, <2>0, <2>1 DEF Versions
  <2> DEFINE q == req[r]
             x == [pc |-> "remember", gw |-> q.gw, slots |-> q.slots, keep |-> q.keep,
                   skip |-> q.skip, ver |-> counter, floor |-> q.floor]
  <2>2. CASE req' = [req EXCEPT ![r] = x]
    <3>1. q \in Arrived
      BY <1>1, <2>0 DEF Versioned
    <3>2. x \in Versioned
      BY <1>0, <3>1 DEF Arrived, Versioned
    <3>3. RequestOK(x) /\ x.pc \notin {"populate", "tag"}
      BY <3>2 DEF RequestOK
    <3>4. Versions => RequestBehind(x, counter, configAt, known.config)
      <4>1. q.floor.config \in Nat /\ known.config \in Nat /\ configAt[counter] \in Nat
        BY <1>0, <3>1 DEF Arrived, Known, Types, HistoryTypes
      <4>2. Versions => q.floor.config <= known.config /\ known.config <= configAt[counter]
        BY <2>0 DEF Versions, RequestBehind
      <4>3. QED
        BY <1>0, <4>1, <4>2 DEF RequestBehind
    <3> HIDE DEF x
    <3>5. QED
      BY <1>0, <2>0, <2>2, <3>3, <3>4, RequestAlone DEF Versions
  <2>3. QED
    BY <1>4, <2>1, <2>2 DEF ReadVersion
<1>5. CASE RememberVersion(r)
  <2>0. /\ verCache' = [verCache EXCEPT ![req[r].gw] = req[r].ver] /\ req[r].pc = "remember"
        /\ WithVersion(r, req[r].ver, "valkey")
    BY <1>5 DEF RememberVersion
  <2>1. req[r].ver \in Version
    BY <1>1, <2>0 DEF Arrived, Versioned
  <2>2. Versions => req[r].ver <= counter /\ req[r].floor.config <= configAt[req[r].ver]
    BY <2>0 DEF Versions, RequestBehind
  <2>3. verCache' \in [Gateway -> Version \cup {None}]
    BY <1>0, <2>0, <2>1
  <2>4. Versions => \A h \in Gateway : verCache'[h] # None => verCache'[h] <= counter
    BY <1>0, <2>0, <2>2 DEF Versions
  <2>5. QED
    BY <1>2, <2>0, <2>1, <2>2, <2>3, <2>4
<1>6. QED
  BY <1>3, <1>4, <1>5

LEMMA FinishKept == ASSUME Types, NEW r \in Request, Finish(r) PROVE Kept
<1> DEFINE x == [pc |-> "generated"]
<1>1. req' = [req EXCEPT ![r] = x] /\ RequestOK(x) /\ x.pc \notin Early \cup {"populate", "tag"}
  BY DEF Finish, RequestOK, Early
<1>2. RequestBehind(x, counter, configAt, known.config)
  BY DEF RequestBehind
<1>3. /\ UNCHANGED <<store, counter, index, op, data, config, history, verCache>>
      /\ verCache \in [Gateway -> Version \cup {None}]
      /\ Versions => \A h \in Gateway : verCache[h] # None => verCache[h] <= counter
  BY DEF Finish, meta, Types, MetaTypes, Versions
<1> HIDE DEF x
<1>4. QED
  BY <1>1, <1>2, <1>3, RequestAlone

(* A request that looks up, or is about to generate, in its place. *)
LEMMA AskingOK ==
    ASSUME Types, NEW r \in Request, req[r].pc \in {"valkey", "durable", "generate"}
    PROVE  /\ req[r] \in Asking /\ req[r].at \in DOMAIN req[r].slots
           /\ req[r].pc \in Early /\ Here(r) \in Key /\ Here(r).ver = req[r].ver
<1>1. req[r] \in Asking /\ req[r].at \in DOMAIN req[r].slots
  BY DEF Types, RequestTypes, RequestOK, Arrived, Versioned, Found, Storing
<1>2. QED
  BY <1>1, KeysOf DEF Early

(* An answer that is found satisfies whoever finds it. *)
LEMMA Serves ==
    ASSUME Types, NEW r \in Request, req[r] \in Asking, NEW answer \in Answer,
           Versions => Filed(Here(r), answer, counter, configAt), Here(r).ver = req[r].ver,
           Serve(r, answer)
    PROVE  \E x \in Found :
              /\ req' = [req EXCEPT ![r] = x]
              /\ Versions => RequestBehind(x, counter, configAt, known.config)
<1> DEFINE q == req[r]
           x == [pc |-> "hit", gw |-> q.gw, via |-> q.via, floor |-> q.floor, answer |-> answer]
<1>1. x \in Found
  BY DEF Asking, Found
<1>2. ASSUME Versions, q.via = "valkey" PROVE q.floor.config <= answer.config
  <2>1. q.floor.config <= configAt[q.ver]
    BY <1>2 DEF Versions, RequestBehind, Asking
  <2>2. configAt[q.ver] <= answer.config
    BY <1>2 DEF Filed
  <2>3. q.floor.config \in Nat /\ configAt[q.ver] \in Nat /\ answer.config \in Nat
    BY DEF Asking, Known, Answer, Types, HistoryTypes
  <2>4. QED
    BY <2>1, <2>2, <2>3
<1>3. Versions => RequestBehind(x, counter, configAt, known.config)
  BY <1>2 DEF RequestBehind
<1>4. req' = [req EXCEPT ![r] = x]
  BY DEF Serve
<1> HIDE DEF x
<1>5. QED
  BY <1>1, <1>3, <1>4

LEMMA LookupValkeyKept == ASSUME Types, NEW r \in Request, LookupValkey(r) PROVE Kept
<1>0. /\ UNCHANGED <<store, counter, index, op, data, config, history, verCache>>
      /\ verCache \in [Gateway -> Version \cup {None}]
      /\ Versions => \A h \in Gateway : verCache[h] # None => verCache[h] <= counter
      /\ req[r].pc = "valkey"
  BY DEF LookupValkey, meta, Types, MetaTypes, Versions
<1>1. /\ req[r] \in Asking /\ req[r].at \in DOMAIN req[r].slots
      /\ req[r].pc \in Early /\ Here(r) \in Key /\ Here(r).ver = req[r].ver
  BY <1>0, AskingOK
<1>2. CASE valkey[Here(r)] # None /\ Serve(r, valkey[Here(r)].answer)
  <2>1. valkey[Here(r)] \in Stored
    BY <1>1, <1>2 DEF Types, StoreTypes
  <2>2. valkey[Here(r)].answer \in Answer
    BY <2>1 DEF Stored
  <2>3. Versions => Filed(Here(r), valkey[Here(r)].answer, counter, configAt)
    BY <1>1, <1>2 DEF Versions, Copies
  <2>4. PICK x \in Found : /\ req' = [req EXCEPT ![r] = x]
                           /\ Versions => RequestBehind(x, counter, configAt, known.config)
    BY <1>1, <1>2, <2>2, <2>3, Serves
  <2>5. RequestOK(x) /\ x.pc \notin {"populate", "tag"}
    BY DEF RequestOK, Found
  <2>6. QED
    BY <1>0, <1>1, <2>4, <2>5, RequestAlone
<1>3. CASE Goto(r, "durable")
  <2> DEFINE x == [req[r] EXCEPT !.pc = "durable"]
  <2>1. x \in Asking /\ x.at \in DOMAIN x.slots /\ x.pc = "durable"
        /\ x.ver = req[r].ver /\ x.via = req[r].via /\ x.floor = req[r].floor
    BY <1>1 DEF Asking
  <2>2. req' = [req EXCEPT ![r] = x]
    BY <1>3 DEF Goto
  <2> HIDE DEF x
  <2>3. RequestOK(x) /\ x.pc \notin {"populate", "tag"}
    BY <2>1 DEF RequestOK
  <2>4. Versions => RequestBehind(x, counter, configAt, known.config)
    BY <1>0, <2>1 DEF Versions, RequestBehind
  <2>5. QED
    BY <1>0, <1>1, <2>2, <2>3, <2>4, RequestAlone
<1>4. QED
  BY <1>2, <1>3 DEF LookupValkey

LEMMA GenerateKept == ASSUME Types, NEW r \in Request, Generate(r) PROVE Kept
<1>0. /\ UNCHANGED <<store, counter, index, op, data, config, history, verCache>>
      /\ verCache \in [Gateway -> Version \cup {None}]
      /\ Versions => \A h \in Gateway : verCache[h] # None => verCache[h] <= counter
      /\ req[r].pc = "generate"
  BY DEF Generate, meta, Types, MetaTypes, Versions
<1>1. /\ req[r] \in Asking /\ req[r].pc \in Early
  BY <1>0, AskingOK
<1>2. ASSUME NEW used \in SUBSET Tool,
             req' = [req EXCEPT ![r] =
               [pc |-> "populate", gw |-> @.gw, slots |-> @.keep, at |-> 1, ver |-> @.ver,
                untagged |-> used,
                answer |-> [by |-> r, tools |-> used, data |-> data, config |-> config]]]
      PROVE  Kept
  <2> DEFINE q == req[r]
             a == [by |-> r, tools |-> used, data |-> data, config |-> config]
             x == [pc |-> "populate", gw |-> q.gw, slots |-> q.keep, at |-> 1, ver |-> q.ver,
                   untagged |-> used, answer |-> a]
  <2>1. a \in Answer
    BY DEF Answer, Types, HistoryTypes
  <2>2. q.gw \in Gateway /\ q.keep \in Prompts /\ q.ver \in Version
    BY <1>1 DEF Asking
  <2>3. x \in Storing /\ x.at \in DOMAIN x.slots /\ x.answer.by = r /\ x.pc = "populate"
    BY <2>1, <2>2, Slots DEF Storing
  <2>4. Versions => configAt[q.ver] <= config /\ q.ver <= counter
    <3>1. /\ counter \in Version /\ config \in Nat
          /\ configAt[q.ver] \in Nat /\ configAt[counter] \in Nat
      BY <2>2, VersionInRange DEF Types, HistoryTypes
    <3>2. Versions => q.ver <= counter /\ configAt[counter] <= config
      BY <1>0 DEF Versions, RequestBehind
    <3>3. Versions => configAt[q.ver] <= configAt[counter]
      BY <2>2, <3>1, <3>2 DEF Versions, Version
    <3>4. QED
      BY <3>1, <3>2, <3>3
  <2>5. Versions => RequestBehind(x, counter, configAt, known.config)
    BY <2>4 DEF RequestBehind
  <2>6. req' = [req EXCEPT ![r] = x]
    BY <1>2
  <2> HIDE DEF x
  <2>7. RequestOK(x)
    BY <2>3 DEF RequestOK
  <2>8. QED
    BY <1>0, <1>1, <2>3, <2>5, <2>6, <2>7, RequestAlone
<1>3. CASE Goto(r, "failed")
  <2> DEFINE x == [req[r] EXCEPT !.pc = "failed"]
  <2>1. x.pc = "failed"
    BY <1>1 DEF Asking
  <2>2. req' = [req EXCEPT ![r] = x]
    BY <1>3 DEF Goto
  <2> HIDE DEF x
  <2>3. /\ RequestOK(x) /\ x.pc \notin {"populate", "tag"}
        /\ RequestBehind(x, counter, configAt, known.config)
    BY <2>1 DEF RequestOK, RequestBehind
  <2>4. QED
    BY <1>0, <1>1, <2>2, <2>3, RequestAlone
<1>4. QED
  BY <1>2, <1>3 DEF Generate

LEMMA LookupDurableKept == ASSUME Types, NEW r \in Request, LookupDurable(r) PROVE Kept
<1>0. /\ UNCHANGED <<valkey, durable, counter, index, op, data, config, history, verCache>>
      /\ verCache \in [Gateway -> Version \cup {None}]
      /\ Versions => \A h \in Gateway : verCache[h] # None => verCache[h] <= counter
      /\ req[r].pc = "durable"
  BY DEF LookupDurable, meta, Types, MetaTypes, Versions
<1>1. /\ req[r] \in Asking /\ req[r].at \in DOMAIN req[r].slots
      /\ req[r].pc \in Early /\ Here(r) \in Key /\ Here(r).ver = req[r].ver
  BY <1>0, AskingOK
<1> DEFINE a == durable[Here(r)].answer
           w0 == [to |-> "valkey", key |-> Here(r), gw |-> req[r].gw, answer |-> a]
<1>2. CASE durable[Here(r)] # None /\ Serve(r, a) /\ writes' = writes \cup {w0}
  <2>1. durable[Here(r)] \in Copies(Here(r)) /\ durable[Here(r)] \in Stored
    BY <1>1, <1>2 DEF Types, StoreTypes, Copies
  <2>2. a \in Answer /\ req[r].gw \in Gateway
    BY <1>1, <2>1 DEF Stored, Asking
  <2>3. Versions => Filed(Here(r), a, counter, configAt)
    BY <1>1, <2>1 DEF Versions
  <2>4. Busts => Traced(Here(r), a)
    BY <1>1, <2>1 DEF Busts
  <2>5. /\ writes' \subseteq [to : {"valkey", "durable"}, key : Key, gw : Gateway, answer : Answer]
        /\ Versions => \A w \in writes' : Filed(w.key, w.answer, counter, configAt)
        /\ Busts => \A w \in writes' : Traced(w.key, w.answer)
    <3> HIDE DEF a
    <3>1. w0 \in [to : {"valkey", "durable"}, key : Key, gw : Gateway, answer : Answer]
          /\ w0.key = Here(r) /\ w0.answer = a
      BY <1>1, <2>2
    <3> HIDE DEF w0
    <3>2. QED
      BY <1>2, <2>3, <2>4, <3>1 DEF Types, StoreTypes, Versions, Busts
  <2>6. PICK x \in Found : /\ req' = [req EXCEPT ![r] = x]
                           /\ Versions => RequestBehind(x, counter, configAt, known.config)
    BY <1>1, <1>2, <2>2, <2>3, Serves
  <2>7. RequestOK(x) /\ x.pc \notin {"populate", "tag"}
    BY DEF RequestOK, Found
  <2>8. QED
    BY <1>0, <1>1, <2>5, <2>6, <2>7, RequestWrites
<1>3. CASE /\ req' = [req EXCEPT ![r].pc = IF @ = "durable" /\ req[r].at < Len(req[r].slots)
                                           THEN "valkey" ELSE "generate",
                                 ![r].at = IF @ < Len(req[r].slots) THEN @ + 1 ELSE @]
           /\ UNCHANGED writes
  <2> DEFINE q == req[r]
             pc == IF q.at < Len(q.slots) THEN "valkey" ELSE "generate"
             at == IF q.at < Len(q.slots) THEN q.at + 1 ELSE q.at
             x == [q EXCEPT !.pc = pc, !.at = at]
  <2>1. at \in DOMAIN q.slots /\ pc \in {"valkey", "generate"}
    BY <1>1, NextKey DEF Asking
  <2>2. req' = [req EXCEPT ![r] = x]
    BY <1>0, <1>3
  <2> HIDE DEF pc, at
  <2>3. /\ x \in Asking /\ x.at \in DOMAIN x.slots /\ x.pc = pc
        /\ x.ver = q.ver /\ x.via = q.via /\ x.floor = q.floor
    <3>1. x = [q EXCEPT !.pc = pc, !.at = at] /\ q \in Asking /\ at \in Nat
      BY <1>1, <2>1, NextKey DEF Asking
    <3> HIDE DEF x, q
    <3>2. QED
      BY <2>1, <3>1 DEF Asking
  <2> HIDE DEF x
  <2>4. RequestOK(x) /\ x.pc \notin {"populate", "tag"}
    BY <2>1, <2>3 DEF RequestOK
  <2>5. Versions => RequestBehind(x, counter, configAt, known.config)
    BY <1>0, <2>1, <2>3 DEF Versions, RequestBehind
  <2>6. UNCHANGED store
    BY <1>0, <1>3 DEF store
  <2>7. QED
    BY <1>0, <1>1, <2>2, <2>4, <2>5, <2>6, RequestAlone
<1>4. QED
  BY <1>2, <1>3 DEF LookupDurable

-----------------------------------------------------------------------------
(* Copies that are made.                                                     *)

(* A copy made now is of an epoch that nobody has busted yet, or is about to. *)
LEMMA FreshCopy ==
    ASSUME Types, NEW k \in Key, NEW a \in Answer
    PROVE  /\ Copy(a) \in Stored /\ Copy(a).answer = a
           /\ Busts => \A passed : Pending(k, Copy(a), passed)
<1>1. Copy(a) \in Stored /\ Copy(a).answer = a /\ Copy(a).epoch = epoch
  BY DEF Copy, Stored, Types, HistoryTypes
<1>2. ASSUME Busts, NEW t \in a.tools
      PROVE  /\ <<t, epoch[t]>> \notin cleared
             /\ \A o \in Op : op[o].pc \in {"delete", "purge"} /\ Head(op[o].tools) = t
                                  => op[o].epoch # epoch[t]
  <2>1. t \in Tool /\ epoch[t] \in Nat
    BY DEF Answer, Types, HistoryTypes
  <2>2. <<t, epoch[t]>> \in cleared => epoch[t] < epoch[t]
    BY <1>2 DEF Busts
  <2>3. \A o \in Op : op[o].pc \in {"delete", "purge"} => op[o].epoch < epoch[Head(op[o].tools)]
    BY <1>2 DEF Busts
  <2>4. \A o \in Op : op[o].pc \in {"delete", "purge"} => op[o].epoch \in Nat
    BY DEF Types, OperationTypes, OperationOK, Bumping, Bumped, Busting, Popped, Flushing
  <2>5. QED
    BY <2>1, <2>2, <2>3, <2>4
<1>3. QED
  BY <1>1, <1>2 DEF Pending

(* What is pending stays so while no operation moves. *)
LEMMA StillPending ==
    ASSUME UNCHANGED <<tagged, cleared, op>>
    PROVE  \A k, c, passed : Pending(k, c, passed)' <=> Pending(k, c, passed)
BY DEF Pending

LEMMA WriteKept == ASSUME Types, Write PROVE Kept
<1>1. PICK w \in writes :
          /\ writes' = writes \ {w}
          /\ \/ valkey' = [valkey EXCEPT ![w.key] = Copy(w.answer)] /\ durable' = durable
             \/ durable' = [durable EXCEPT ![w.key] = Copy(w.answer)] /\ valkey' = valkey
             \/ UNCHANGED <<valkey, durable>>
          /\ UNCHANGED <<meta, req, op, data, config, restarts, history>>
  BY DEF Write
<1> DEFINE k0 == w.key
           a == w.answer
           c0 == Copy(a)
<1>2. k0 \in Key /\ a \in Answer
  BY DEF Types, StoreTypes
<1>3. c0 \in Stored /\ c0.answer = a /\ (Busts => \A passed : Pending(k0, c0, passed))
  BY <1>2, FreshCopy
<1> HIDE DEF k0, a, c0
<1>4. \/ valkey' = [valkey EXCEPT ![k0] = c0] /\ durable' = durable
      \/ durable' = [durable EXCEPT ![k0] = c0] /\ valkey' = valkey
      \/ UNCHANGED <<valkey, durable>>
  BY <1>1 DEF k0, a, c0
<1>5. UNCHANGED <<counter, index, verCache, req, op, config, epoch, tagged, cleared, configAt,
                  known, data>>
  BY <1>1 DEF meta, history
<1>6. \A k \in Key : Copies(k)' \subseteq Copies(k) \cup (IF k = k0 THEN {c0} ELSE {})
  BY <1>4 DEF Copies, Types, StoreTypes
<1>7. Types'
  <2>1. StoreTypes'
    BY <1>1, <1>2, <1>3, <1>4 DEF Types, StoreTypes
  <2>2. QED
    BY <1>5, <2>1 DEF Types, MetaTypes, Counted, RequestTypes, OperationTypes, HistoryTypes
<1>8. ASSUME Versions PROVE Versions'
  <2>1. Filed(k0, c0.answer, counter, configAt)
    BY <1>3, <1>8 DEF Versions, k0, a
  <2>2. \A k \in Key : \A c \in Copies(k)' : Filed(k, c.answer, counter, configAt)
    BY <1>6, <1>8, <2>1 DEF Versions
  <2>3. \A v \in writes' : Filed(v.key, v.answer, counter, configAt)
    BY <1>1, <1>8 DEF Versions
  <2>4. QED
    BY <1>5, <1>8, <2>2, <2>3 DEF Versions
<1>9. ASSUME Busts PROVE Busts'
  <2>1. \A k, answer : Traced(k, answer)' <=> Traced(k, answer)
    BY <1>5 DEF Traced, Keys, KeyOf
  <2>2. Traced(k0, c0.answer)
    BY <1>3, <1>9 DEF Busts, k0, a
  <2>3. \A k \in Key : \A c \in Copies(k)' : Traced(k, c.answer)'
    BY <1>6, <1>9, <2>1, <2>2 DEF Busts
  <2>4. \A v \in writes' : Traced(v.key, v.answer)'
    BY <1>1, <1>9, <2>1 DEF Busts
  <2>5. \A k, c, passed : Pending(k, c, passed)' <=> Pending(k, c, passed)
    BY <1>5, StillPending
  <2>6. /\ \A k \in Key : valkey'[k] # None => Pending(k, valkey'[k], {"purge"})
        /\ \A k \in Key : durable'[k] # None => Pending(k, durable'[k], {})
    BY <1>2, <1>3, <1>4, <1>9 DEF Busts, Types, StoreTypes
  <2>7. /\ \A k \in Key : valkey'[k] # None => Pending(k, valkey[k], {"purge"})'
        /\ \A k \in Key : durable'[k] # None => Pending(k, durable[k], {})'
    BY <1>5, <2>6 DEF Pending
  <2>8. QED
    BY <1>5, <1>9, <2>3, <2>4, <2>7 DEF Busts
<1>10. QED
  BY <1>7, <1>8, <1>9 DEF Kept

(* A request that stores its answer, in its place. *)
LEMMA StoringOK ==
    ASSUME Types, NEW r \in Request, req[r].pc \in {"populate", "tag"}
    PROVE  /\ req[r] \in Storing /\ req[r].at \in DOMAIN req[r].slots
           /\ Here(r) \in Key /\ Here(r) \in Keys(r) /\ Keys(r) \subseteq Key
           /\ \A k \in Keys(r) : k.ver = req[r].ver
<1>1. req[r] \in Storing /\ req[r].at \in DOMAIN req[r].slots
  BY DEF Types, RequestTypes, RequestOK, Arrived, Versioned, Found, Asking
<1>2. QED
  BY <1>1, KeysOf

LEMMA PopulateKept == ASSUME Types, NEW r \in Request, Populate(r) PROVE Kept
<1> SUFFICES ASSUME NEW k0, k0 = Here(r), NEW a, a = req[r].answer, NEW c0, c0 = Copy(a)
             PROVE  Kept
  OBVIOUS
<1> DEFINE q == req[r]
           w0 == [to |-> "durable", key |-> k0, gw |-> q.gw, answer |-> a]
           pc == IF q.at < Len(q.slots) THEN "populate" ELSE "tag"
           at == IF q.at < Len(q.slots) THEN q.at + 1 ELSE q.at
           x == [q EXCEPT !.pc = pc, !.at = at]
<1>1. /\ q.pc = "populate"
      /\ valkey' \in {valkey, [valkey EXCEPT ![k0] = c0]}
      /\ writes' = writes \cup {w0}
      /\ req' = [req EXCEPT ![r] = x]
      /\ UNCHANGED <<durable, counter, index, verCache, op, data, config, history>>
  BY DEF Populate, meta
<1>2. /\ q \in Storing /\ q.at \in DOMAIN q.slots /\ k0 \in Key /\ k0 \in Keys(r)
      /\ k0.ver = q.ver
  BY <1>1, StoringOK
<1>3. q.gw \in Gateway /\ q.slots \in Prompts /\ q.ver \in Version /\ a \in Answer
  BY <1>2 DEF Storing
<1>4. at \in DOMAIN q.slots /\ at \in Nat /\ pc \in {"populate", "tag"}
  BY <1>2, <1>3, NextKey
<1>5. /\ x \in Storing /\ x.at \in DOMAIN x.slots /\ x.pc \in {"populate", "tag"}
      /\ x.pc = "tag" \/ x.pc = "populate"
      /\ x.ver = q.ver /\ x.slots = q.slots /\ x.answer = a
  <2>1. x = [q EXCEPT !.pc = pc, !.at = at]
    OBVIOUS
  <2> HIDE DEF x, pc, at
  <2>2. QED
    BY <1>2, <1>4, <2>1 DEF Storing
<1>6. c0 \in Stored /\ c0.answer = a /\ (Busts => \A passed : Pending(k0, c0, passed))
  BY <1>2, <1>3, FreshCopy
<1>7. w0 \in [to : {"valkey", "durable"}, key : Key, gw : Gateway, answer : Answer]
      /\ w0.key = k0 /\ w0.answer = a
  BY <1>2, <1>3
<1>8. RequestTypes' /\ \A s \in Request : req'[s] = IF s = r THEN x ELSE req[s]
  <2>1. RequestOK(x)
    BY <1>5 DEF RequestOK
  <2> HIDE DEF x
  <2>2. RequestTypes
    BY DEF Types
  <2>3. DOMAIN req' = Request /\ \A s \in Request : req'[s] = IF s = r THEN x ELSE req[s]
    BY <1>1, <2>1, <2>2 DEF RequestTypes
  <2>4. RequestTypes'
    BY <2>1, <2>2, <2>3 DEF RequestTypes
  <2>5. QED
    BY <2>3, <2>4
<1>9. \A s \in Request : Keys(s)' = Keys(s)
  <2>1. \A s \in Request : req'[s].slots = req[s].slots /\ req'[s].ver = req[s].ver
    BY <1>5, <1>8
  <2>2. QED
    BY <2>1 DEF Keys, KeyOf
<1> HIDE DEF x, w0, pc, at
<1>10. \A k \in Key : Copies(k)' \subseteq Copies(k) \cup (IF k = k0 THEN {c0} ELSE {})
  BY <1>1 DEF Copies, Types, StoreTypes
<1>11. Types'
  <2>1. StoreTypes'
    BY <1>1, <1>2, <1>6, <1>7 DEF Types, StoreTypes
  <2>2. QED
    BY <1>1, <1>8, <2>1 DEF Types, MetaTypes, Counted, OperationTypes, HistoryTypes, history
<1>12. UNCHANGED <<counter, configAt, known, config, op, verCache, index, epoch, tagged, cleared>>
  BY <1>1 DEF history
<1>13. ASSUME Versions PROVE Versions'
  <2>1. q.ver <= counter /\ configAt[q.ver] <= a.config
    BY <1>1, <1>13 DEF Versions, RequestBehind
  <2>2. Filed(k0, a, counter, configAt)
    BY <1>2, <2>1 DEF Filed
  <2>3. \A k \in Key : \A c \in Copies(k)' : Filed(k, c.answer, counter, configAt)
    BY <1>6, <1>10, <1>13, <2>2 DEF Versions
  <2>4. \A w \in writes' : Filed(w.key, w.answer, counter, configAt)
    BY <1>1, <1>7, <1>13, <2>2 DEF Versions
  <2>5. RequestBehind(x, counter, configAt, known.config)
    BY <1>5, <2>1 DEF RequestBehind
  <2>6. \A s \in Request : RequestBehind(req'[s], counter, configAt, known.config)
    BY <1>8, <1>13, <2>5 DEF Versions
  <2>7. QED
    BY <1>12, <1>13, <2>3, <2>4, <2>6 DEF Versions
<1>14. ASSUME Busts PROVE Busts'
  <2>1. ASSUME NEW k, NEW answer, answer.by \in Request, Traced(k, answer) PROVE Traced(k, answer)'
    <3>1. /\ req'[answer.by].pc \in Early => req[answer.by].pc \in Early
          /\ req'[answer.by].pc \in {"populate", "tag"} => req[answer.by].pc \in {"populate", "tag"}
      BY <1>1, <1>5, <1>8, <2>1 DEF Early
    <3>2. QED
      BY <1>9, <1>12, <2>1, <3>1 DEF Traced
  <2>2. Traced(k0, a)'
    <3>1. a.by = r /\ \A t \in Tool : tagged[r][t] = None
      BY <1>1, <1>14 DEF Busts
    <3>2. \A t \in a.tools : epoch[t] \in Nat /\ t \in Tool
      BY <1>3 DEF Answer, Types, HistoryTypes
    <3>3. req'[r].pc \notin Early
      BY <1>5, <1>8 DEF Early
    <3>4. k0 \in Keys(r)'
      BY <1>2, <1>9
    <3>5. QED
      BY <1>12, <3>1, <3>2, <3>3, <3>4, CacheAssumption DEF Traced
  <2>3. \A k \in Key : \A c \in Copies(k) : c.answer.by \in Request
    BY DEF Types, StoreTypes, Copies, Stored, Answer
  <2>4. \A k \in Key : \A c \in Copies(k)' : Traced(k, c.answer)'
    <3> SUFFICES ASSUME NEW k \in Key, NEW c \in Copies(k)' PROVE Traced(k, c.answer)'
      OBVIOUS
    <3>1. CASE c \in Copies(k)
      BY <1>14, <2>1, <2>3, <3>1 DEF Busts
    <3>2. CASE k = k0 /\ c = c0
      BY <1>6, <2>2, <3>2
    <3>3. QED
      BY <1>10, <3>1, <3>2
  <2>5. \A w \in writes : w.answer.by \in Request
    BY DEF Types, StoreTypes, Answer
  <2>6. \A w \in writes' : Traced(w.key, w.answer)'
    <3> SUFFICES ASSUME NEW w \in writes' PROVE Traced(w.key, w.answer)'
      OBVIOUS
    <3>1. CASE w \in writes
      BY <1>14, <2>1, <2>5, <3>1 DEF Busts
    <3>2. CASE w = w0
      BY <1>7, <2>2, <3>2
    <3>3. QED
      BY <1>1, <3>1, <3>2
  <2>7. \A k, c, passed : Pending(k, c, passed)' <=> Pending(k, c, passed)
    BY <1>12, StillPending
  <2>8. /\ \A k \in Key : valkey'[k] # None => Pending(k, valkey'[k], {"purge"})
        /\ \A k \in Key : durable'[k] # None => Pending(k, durable'[k], {})
    BY <1>1, <1>2, <1>6, <1>14 DEF Busts, Types, StoreTypes
  <2>9. /\ \A k \in Key : valkey'[k] # None => Pending(k, valkey[k], {"purge"})'
        /\ \A k \in Key : durable'[k] # None => Pending(k, durable[k], {})'
    BY <1>12, <2>8 DEF Pending
  <2>10. ASSUME NEW s \in Request
         PROVE  /\ req'[s].pc \in Early \cup {"populate"} => \A t \in Tool : tagged[s][t] = None
                /\ req'[s].pc \in {"populate", "tag"} => req'[s].answer.by = s
    <3>1. CASE s = r
      BY <1>1, <1>5, <1>8, <1>14, <3>1 DEF Busts, Early
    <3>2. CASE s # r
      BY <1>8, <1>14, <3>2 DEF Busts
    <3>3. QED
      BY <3>1, <3>2
  <2>11. QED
    BY <1>12, <1>14, <2>4, <2>6, <2>9, <2>10 DEF Busts
<1>15. QED
  BY <1>11, <1>13, <1>14 DEF Kept

LEMMA TagKept == ASSUME Types, NEW r \in Request, Tag(r) PROVE Kept
<1> DEFINE q == req[r]
<1>1. PICK t \in q.untagged :
          /\ req' = [req EXCEPT ![r].untagged = @ \ {t}]
          /\ \/ /\ index' = [index EXCEPT ![t] = @ \cup Keys(r)]
                /\ tagged' = [tagged EXCEPT ![r][t] = epoch[t]]
             \/ UNCHANGED <<index, tagged>>
  BY DEF Tag
<1> DEFINE x == [q EXCEPT !.untagged = @ \ {t}]
<1>2. /\ UNCHANGED <<valkey, durable, writes, counter, verCache, op, data, config,
                     epoch, cleared, configAt, known>>
      /\ q.pc = "tag"
  BY DEF Tag, store
<1>3. q \in Storing /\ q.at \in DOMAIN q.slots /\ Keys(r) \subseteq Key
  BY <1>2, StoringOK
<1>4. t \in Tool /\ epoch[t] \in Nat
  BY <1>3 DEF Storing, Types, HistoryTypes
<1>5. /\ x \in Storing /\ x.at \in DOMAIN x.slots /\ x.pc = "tag"
      /\ x.ver = q.ver /\ x.slots = q.slots /\ x.answer = q.answer
  BY <1>2, <1>3 DEF Storing
<1>6. RequestTypes' /\ \A s \in Request : req'[s] = IF s = r THEN x ELSE req[s]
  <2>1. RequestOK(x) /\ req' = [req EXCEPT ![r] = x]
    BY <1>1, <1>5 DEF RequestOK
  <2> HIDE DEF x
  <2>2. RequestTypes
    BY DEF Types
  <2>3. DOMAIN req' = Request /\ \A s \in Request : req'[s] = IF s = r THEN x ELSE req[s]
    BY <2>1, <2>2 DEF RequestTypes
  <2>4. RequestTypes'
    BY <2>1, <2>2, <2>3 DEF RequestTypes
  <2>5. QED
    BY <2>3, <2>4
<1>7. \A s \in Request : Keys(s)' = Keys(s) /\ req'[s].pc = req[s].pc
  <2>1. \A s \in Request : /\ req'[s].slots = req[s].slots /\ req'[s].ver = req[s].ver
                           /\ req'[s].pc = req[s].pc
    BY <1>2, <1>5, <1>6
  <2>2. QED
    BY <2>1 DEF Keys, KeyOf
<1> HIDE DEF x
<1>8. /\ index' \in [Tool -> SUBSET Key] /\ tagged' \in [Request -> [Tool -> Nat \cup {None}]]
      /\ \A u \in Tool : index[u] \subseteq index'[u]
      /\ \A s \in Request, u \in Tool :
            \/ tagged'[s][u] = tagged[s][u]
            \/ s = r /\ u = t /\ tagged'[r][t] = epoch[t] /\ Keys(r) \subseteq index'[t]
  <2>1. index \in [Tool -> SUBSET Key] /\ tagged \in [Request -> [Tool -> Nat \cup {None}]]
    BY DEF Types, MetaTypes, HistoryTypes
  <2>2. CASE UNCHANGED <<index, tagged>>
    BY <2>1, <2>2
  <2>3. CASE /\ index' = [index EXCEPT ![t] = @ \cup Keys(r)]
             /\ tagged' = [tagged EXCEPT ![r][t] = epoch[t]]
    <3>1. index' \in [Tool -> SUBSET Key] /\ Keys(r) \subseteq index'[t]
          /\ \A u \in Tool : index[u] \subseteq index'[u]
      BY <1>3, <1>4, <2>1, <2>3
    <3>2. tagged' = [tagged EXCEPT ![r] = [tagged[r] EXCEPT ![t] = epoch[t]]]
      BY <2>3
    <3>3. [tagged[r] EXCEPT ![t] = epoch[t]] \in [Tool -> Nat \cup {None}]
      BY <1>4, <2>1
    <3>4. tagged' \in [Request -> [Tool -> Nat \cup {None}]]
      BY <2>1, <3>2, <3>3
    <3>5. \A s \in Request, u \in Tool :
              tagged'[s][u] = IF s = r /\ u = t THEN epoch[t] ELSE tagged[s][u]
      BY <2>1, <3>2
    <3>6. QED
      BY <3>1, <3>4, <3>5
  <2>4. QED
    BY <1>1, <2>2, <2>3
<1>9. Types'
  BY <1>2, <1>6, <1>8 DEF Types, StoreTypes, MetaTypes, Counted, OperationTypes, HistoryTypes
<1>10. \A k \in Key : Copies(k)' = Copies(k)
  BY <1>2 DEF Copies
<1>11. ASSUME Versions PROVE Versions'
  <2>1. RequestBehind(x, counter, configAt, known.config)
    BY <1>2, <1>5, <1>11 DEF Versions, RequestBehind
  <2>2. \A s \in Request : RequestBehind(req'[s], counter, configAt, known.config)
    BY <1>6, <1>11, <2>1 DEF Versions
  <2>3. QED
    BY <1>2, <1>10, <1>11, <2>2 DEF Versions
<1>12. ASSUME Busts PROVE Busts'
  <2>1. ASSUME NEW k \in Key, NEW answer \in Answer, Traced(k, answer) PROVE Traced(k, answer)'
    <3> DEFINE s == answer.by
    <3>1. s \in Request /\ answer.tools \subseteq Tool
      BY DEF Answer
    <3>2. req'[s].pc \notin Early /\ (req'[s].pc \in {"populate", "tag"} => k \in Keys(s)')
      BY <1>7, <2>1, <3>1 DEF Traced
    <3>3. ASSUME NEW u \in answer.tools, tagged'[s][u] = epoch[u] PROVE k \in index'[u]
      <4>1. CASE tagged'[s][u] = tagged[s][u]
        BY <1>8, <2>1, <3>1, <3>3, <4>1 DEF Traced
      <4>2. CASE s = r /\ u = t /\ Keys(r) \subseteq index'[t]
        BY <1>2, <2>1, <4>2 DEF Traced
      <4>3. QED
        BY <1>8, <3>1, <4>1, <4>2
    <3>4. QED
      BY <1>2, <3>2, <3>3 DEF Traced
  <2>2. ASSUME NEW k \in Key, NEW c \in Stored, NEW passed, Pending(k, c, passed)
        PROVE  Pending(k, c, passed)'
    <3>1. c.answer.by \in Request /\ c.answer.tools \subseteq Tool
      BY DEF Stored, Answer
    <3>2. ASSUME NEW u \in c.answer.tools, tagged'[c.answer.by][u] = c.epoch[u]
          PROVE  /\ <<u, c.epoch[u]>> \notin cleared
                 /\ \A o \in Op :
                       /\ op[o].pc \in {"delete", "purge"}
                       /\ Head(op[o].tools) = u /\ op[o].epoch = c.epoch[u]
                       => k \in op[o].keys /\ op[o].pc \notin passed
      <4>1. CASE tagged'[c.answer.by][u] = tagged[c.answer.by][u]
        BY <2>2, <3>2, <4>1 DEF Pending
      <4>2. CASE u = t /\ c.epoch[u] = epoch[t]
        <5>1. <<t, epoch[t]>> \in cleared => epoch[t] < epoch[t]
          BY <1>12 DEF Busts
        <5>2. \A o \in Op : op[o].pc \in {"delete", "purge"} =>
                  op[o].epoch < epoch[Head(op[o].tools)] /\ op[o].epoch \in Nat
          BY <1>12
          DEF Busts, Types, OperationTypes, OperationOK, Bumping, Bumped, Busting, Popped, Flushing
        <5>3. QED
          BY <1>4, <4>2, <5>1, <5>2
      <4>3. QED
        BY <1>8, <3>1, <3>2, <4>1, <4>2
    <3>3. QED
      BY <1>2, <3>2 DEF Pending
  <2>3. \A k \in Key : \A c \in Copies(k) : c \in Stored /\ c.answer \in Answer
    BY DEF Types, StoreTypes, Copies, Stored
  <2>4. \A k \in Key : \A c \in Copies(k)' : Traced(k, c.answer)'
    BY <1>10, <1>12, <2>1, <2>3 DEF Busts
  <2>5. \A w \in writes' : Traced(w.key, w.answer)'
    <3>1. \A w \in writes : w.key \in Key /\ w.answer \in Answer
      BY DEF Types, StoreTypes
    <3>2. QED
      BY <1>2, <1>12, <2>1, <3>1 DEF Busts
  <2>6. /\ \A k \in Key : valkey[k] # None => Pending(k, valkey[k], {"purge"})'
        /\ \A k \in Key : durable[k] # None => Pending(k, durable[k], {})'
    <3> SUFFICES ASSUME NEW k \in Key
                 PROVE  /\ valkey[k] # None => Pending(k, valkey[k], {"purge"})'
                        /\ durable[k] # None => Pending(k, durable[k], {})'
      OBVIOUS
    <3>1. ASSUME NEW c, NEW passed, c \in Stored, Pending(k, c, passed) PROVE Pending(k, c, passed)'
      BY <2>2, <3>1
    <3>2. /\ \A c : c = valkey[k] /\ c # None => Pending(k, c, {"purge"})'
          /\ \A c : c = durable[k] /\ c # None => Pending(k, c, {})'
      BY <1>12, <3>1 DEF Busts, Types, StoreTypes
    <3>3. valkey' = valkey /\ durable' = durable
      BY <1>2
    <3>4. QED
      BY <3>2, <3>3
  <2>7. \A s \in Request :
            /\ req'[s].pc \in Early \cup {"populate"} => \A u \in Tool : tagged'[s][u] = None
            /\ req'[s].pc \in {"populate", "tag"} => req'[s].answer.by = s
    BY <1>2, <1>5, <1>6, <1>7, <1>8, <1>12 DEF Busts, Early
  <2>8. \A s \in Request, u \in Tool : tagged'[s][u] = None \/ tagged'[s][u] <= epoch[u]
    BY <1>4, <1>8, <1>12 DEF Busts
  <2>9. QED
    BY <1>2, <1>12, <2>4, <2>5, <2>6, <2>7, <2>8 DEF Busts
<1>13. QED
  BY <1>9, <1>11, <1>12 DEF Kept
-----------------------------------------------------------------------------
(* What moves no request: the operations, and what is lost or expires.       *)

LEMMA OperationMoves ==
    ASSUME Types, NEW o \in Op, NEW y, OperationOK(y), op' = [op EXCEPT ![o] = y],
           op[o].pc \notin {"idle", "bump"} => y.pc \notin {"idle", "bump"}
    PROVE  /\ OperationTypes' /\ \A p \in Op : op'[p] = IF p = o THEN y ELSE op[p]
           /\ counter <= Cardinality(Counted')
<1>1. OperationTypes' /\ \A p \in Op : op'[p] = IF p = o THEN y ELSE op[p]
  BY DEF Types, OperationTypes
<1>2. Counted \subseteq Counted' /\ Counted' \in SUBSET Op
  BY <1>1 DEF Counted
<1>3. /\ Cardinality(Counted) <= Cardinality(Counted')
      /\ Cardinality(Counted) \in Nat /\ Cardinality(Counted') \in Nat
  BY <1>2, CacheAssumption, FS_Subset, FS_CardinalityType
<1>4. QED
  BY <1>1, <1>3 DEF Types, MetaTypes

(* The stores lose what they lose. *)
Shrunk ==
    /\ valkey' \in [Key -> Stored \cup {None}] /\ durable' \in [Key -> Stored \cup {None}]
    /\ \A k \in Key : valkey'[k] \in {valkey[k], None} /\ durable'[k] \in {durable[k], None}

LEMMA VersionsIdle ==
    ASSUME Types, Versions, Shrunk, UNCHANGED <<req, counter, configAt, writes>>,
           config <= config', config' \in Nat,
           known.config <= known'.config, known'.config <= configAt[counter], known'.config \in Nat,
           \A g \in Gateway : verCache'[g] # None => verCache'[g] <= counter,
           \A o \in Op : OperationBehind(op'[o], counter, configAt, config')
    PROVE  Versions'
<1>1. \A k \in Key : Copies(k)' \subseteq Copies(k)
  BY DEF Copies, Shrunk
<1>2. ASSUME NEW r \in Request PROVE RequestBehind(req[r], counter, configAt, known'.config)
  <2>1. RequestBehind(req[r], counter, configAt, known.config)
    BY DEF Versions
  <2>2. req[r].pc = "version" => req[r].floor.config \in Nat
    BY DEF Types, RequestTypes, RequestOK, Arrived, Versioned, Found, Asking, Storing, Known
  <2>3. known.config \in Nat
    BY DEF Types, HistoryTypes, Known
  <2>4. QED
    BY <2>1, <2>2, <2>3 DEF RequestBehind
<1>3. configAt[counter] \in Nat /\ config \in Nat
  BY VersionInRange DEF Types, HistoryTypes
<1>4. QED
  BY <1>1, <1>2, <1>3 DEF Versions

LEMMA BustsIdle ==
    ASSUME Types, Busts, Shrunk, UNCHANGED <<req, writes, index, epoch, tagged>>,
           \A e \in cleared' : e[1] \in Tool /\ e[2] \in Nat /\ e[2] < epoch[e[1]],
           \A o \in Op :
              op'[o].pc \in {"delete", "purge"} => op'[o].epoch < epoch[Head(op'[o].tools)],
           \A k \in Key : valkey'[k] # None => Pending(k, valkey[k], {"purge"})',
           \A k \in Key : durable'[k] # None => Pending(k, durable[k], {})'
    PROVE  Busts'
<1>1. \A k \in Key : Copies(k)' \subseteq Copies(k)
  BY DEF Copies, Shrunk
<1>2. \A k, answer : Traced(k, answer)' <=> Traced(k, answer)
  BY DEF Traced, Keys, KeyOf
<1>3. QED
  BY <1>1, <1>2 DEF Busts

(* What is pending stays so while operations only stop, or are about to begin
   the next tool. *)
LEMMA FewerPending ==
    ASSUME UNCHANGED <<tagged, cleared>>,
           \A o \in Op : op'[o] = op[o] \/ op'[o].pc \notin {"delete", "purge"}
    PROVE  \A k, c, passed : Pending(k, c, passed) => Pending(k, c, passed)'
BY DEF Pending

LEMMA ForgetKept == ASSUME Types, NEW g \in Gateway, ForgetVersion(g) PROVE Kept
<1>1. /\ verCache' = [verCache EXCEPT ![g] = None]
      /\ UNCHANGED <<valkey, durable, writes, counter, index, req, op, data, config,
                     epoch, tagged, cleared, configAt, known>>
  BY DEF ForgetVersion, store, history
<1>2. Shrunk /\ verCache' \in [Gateway -> Version \cup {None}]
  BY <1>1 DEF Shrunk, Types, StoreTypes, MetaTypes
<1>3. Types'
  BY <1>1, <1>2
  DEF Types, StoreTypes, MetaTypes, Counted, RequestTypes, OperationTypes, HistoryTypes
<1>4. ASSUME Versions PROVE Versions'
  <2>1. \A h \in Gateway : verCache'[h] # None => verCache'[h] <= counter
    BY <1>1, <1>4 DEF Versions, Types, MetaTypes
  <2>2. \A k \in Key : Copies(k)' = Copies(k)
    BY <1>1 DEF Copies
  <2>3. QED
    BY <1>1, <1>4, <2>1, <2>2 DEF Versions
<1>5. ASSUME Busts PROVE Busts'
  <2>1. \A k, c, passed : Pending(k, c, passed)' <=> Pending(k, c, passed)
    BY <1>1, StillPending
  <2>2. \A k, answer : Traced(k, answer)' <=> Traced(k, answer)
    BY <1>1 DEF Traced, Keys, KeyOf
  <2>3. \A k \in Key : Copies(k)' = Copies(k)
    BY <1>1 DEF Copies
  <2>4. /\ \A k \in Key : valkey'[k] # None => Pending(k, valkey[k], {"purge"})'
        /\ \A k \in Key : durable'[k] # None => Pending(k, durable[k], {})'
    BY <1>1, <1>5, <2>1 DEF Busts
  <2>5. QED
    BY <1>1, <1>5, <2>2, <2>3, <2>4 DEF Busts
<1>6. QED
  BY <1>3, <1>4, <1>5 DEF Kept

LEMMA ExpireKept == ASSUME Types, ExpireRow \/ LoseAnswer PROVE Kept
<1>1. /\ Shrunk
      /\ UNCHANGED <<writes, verCache, counter, index, req, op, data, config,
                     epoch, tagged, cleared, configAt, known>>
  BY DEF ExpireRow, LoseAnswer, meta, history, Shrunk, Types, StoreTypes
<1>2. Types'
  BY <1>1
  DEF Types, StoreTypes, MetaTypes, Counted, RequestTypes, OperationTypes, HistoryTypes, Shrunk
<1>3. ASSUME Versions PROVE Versions'
  <2>1. /\ config \in Nat /\ known.config \in Nat
    BY DEF Types, HistoryTypes, Known
  <2>2. QED
    BY <1>1, <1>3, <2>1, VersionsIdle DEF Versions
<1>4. ASSUME Busts PROVE Busts'
  <2>1. \A k, c, passed : Pending(k, c, passed)' <=> Pending(k, c, passed)
    BY <1>1, StillPending
  <2>2. /\ \A k \in Key : valkey'[k] # None => Pending(k, valkey'[k], {"purge"})
        /\ \A k \in Key : durable'[k] # None => Pending(k, durable'[k], {})
    BY <1>1, <1>4 DEF Busts, Shrunk
  <2>3. /\ \A k \in Key : valkey'[k] # None => Pending(k, valkey[k], {"purge"})'
        /\ \A k \in Key : durable'[k] # None => Pending(k, durable[k], {})'
    BY <1>1, <2>2 DEF Pending
  <2>4. QED
    BY <1>1, <1>4, <2>3, BustsIdle DEF Busts
<1>5. QED
  BY <1>2, <1>3, <1>4 DEF Kept

(* The index of a tool is gone: what was tagged belongs to an epoch that is
   over. *)
LEMMA TracedAfter ==
    ASSUME Types, Busts, NEW t \in Tool, UNCHANGED <<req, tagged>>,
           index' = [index EXCEPT ![t] = {}], epoch' = [epoch EXCEPT ![t] = @ + 1]
    PROVE  /\ index' \in [Tool -> SUBSET Key] /\ epoch' \in [Tool -> Nat]
           /\ \A u \in Tool : epoch[u] <= epoch'[u] /\ epoch[u] \in Nat
           /\ \A r \in Request, u \in Tool : tagged[r][u] = None \/ tagged[r][u] <= epoch'[u]
           /\ \A k \in Key, a \in Answer : Traced(k, a) => Traced(k, a)'
<1>1. /\ index \in [Tool -> SUBSET Key] /\ epoch \in [Tool -> Nat]
      /\ tagged \in [Request -> [Tool -> Nat \cup {None}]]
  BY DEF Types, MetaTypes, HistoryTypes
<1>2. /\ index' \in [Tool -> SUBSET Key] /\ epoch' \in [Tool -> Nat]
      /\ \A u \in Tool : epoch'[u] = IF u = t THEN epoch[t] + 1 ELSE epoch[u]
      /\ \A u \in Tool : u # t => index'[u] = index[u]
  BY <1>1
<1>3. \A r \in Request, u \in Tool : tagged[r][u] \in Nat \cup {None}
  BY <1>1
<1>4. \A r \in Request, u \in Tool : tagged[r][u] = None \/ tagged[r][u] <= epoch[u]
  BY DEF Busts
<1>5. \A r \in Request : tagged[r][t] # epoch'[t]
  BY <1>1, <1>2, <1>3, <1>4, CacheAssumption
<1>6. ASSUME NEW k \in Key, NEW a \in Answer, Traced(k, a) PROVE Traced(k, a)'
  <2>1. a.by \in Request /\ a.tools \subseteq Tool
    BY DEF Answer
  <2>2. \A u \in a.tools : tagged[a.by][u] = epoch'[u] => k \in index'[u]
    BY <1>2, <1>5, <1>6, <2>1 DEF Traced
  <2>3. QED
    BY <1>6, <2>2 DEF Traced, Keys, KeyOf
<1>7. QED
  BY <1>1, <1>2, <1>3, <1>4, <1>6

LEMMA Answers ==
    ASSUME Types
    PROVE  /\ \A k \in Key : \A c \in Copies(k) : c \in Stored /\ c.answer \in Answer
           /\ \A w \in writes : w.key \in Key /\ w.answer \in Answer
BY DEF Types, StoreTypes, Copies, Stored

LEMMA LoseIndexKept == ASSUME Types, LoseIndex PROVE Kept
<1>1. PICK t \in Tool :
          index' = [index EXCEPT ![t] = {}] /\ epoch' = [epoch EXCEPT ![t] = @ + 1]
  BY DEF LoseIndex
<1>2. UNCHANGED <<valkey, durable, writes, counter, verCache, req, op, data, config,
                  tagged, cleared, configAt, known>>
  BY DEF LoseIndex, store
<1>3. index' \in [Tool -> SUBSET Key] /\ epoch' \in [Tool -> Nat]
  BY <1>1 DEF Types, MetaTypes, HistoryTypes
<1>4. Types'
  BY <1>2, <1>3
  DEF Types, StoreTypes, MetaTypes, Counted, RequestTypes, OperationTypes, HistoryTypes
<1>5. ASSUME Versions PROVE Versions'
  <2>1. \A k \in Key : Copies(k)' = Copies(k)
    BY <1>2 DEF Copies
  <2>2. QED
    BY <1>2, <1>5, <2>1 DEF Versions
<1>6. ASSUME Busts PROVE Busts'
  <2>1. /\ \A u \in Tool : epoch[u] <= epoch'[u] /\ epoch[u] \in Nat /\ epoch'[u] \in Nat
        /\ \A r \in Request, u \in Tool : tagged[r][u] = None \/ tagged[r][u] <= epoch'[u]
        /\ \A k \in Key, a \in Answer : Traced(k, a) => Traced(k, a)'
    BY <1>1, <1>2, <1>3, <1>6, TracedAfter
  <2>2. /\ \A k \in Key : \A c \in Copies(k)' : Traced(k, c.answer)'
        /\ \A w \in writes' : Traced(w.key, w.answer)'
    <3>1. \A k \in Key : Copies(k)' = Copies(k)
      BY <1>2 DEF Copies
    <3>2. QED
      BY <1>2, <1>6, <2>1, <3>1, Answers DEF Busts
  <2>3. \A e \in cleared' : e[1] \in Tool /\ e[2] \in Nat /\ e[2] < epoch'[e[1]]
    BY <1>2, <1>6, <2>1 DEF Busts
  <2>4. ASSUME NEW o \in Op, op[o].pc \in {"delete", "purge"}
        PROVE  op[o].epoch < epoch'[Head(op[o].tools)]
    <3>1. op[o] \in Popped
      BY <2>4 DEF Types, OperationTypes, OperationOK, Bumping, Bumped, Busting, Flushing
    <3>2. Head(op[o].tools) \in Tool /\ op[o].epoch \in Nat
      BY <3>1 DEF Popped
    <3>3. QED
      BY <1>6, <2>1, <2>4, <3>2 DEF Busts
  <2>5. \A k, c, passed : Pending(k, c, passed)' <=> Pending(k, c, passed)
    BY <1>2, StillPending
  <2>6. /\ \A k \in Key : valkey'[k] # None => Pending(k, valkey[k], {"purge"})'
        /\ \A k \in Key : durable'[k] # None => Pending(k, durable[k], {})'
    BY <1>2, <1>6, <2>5 DEF Busts
  <2>7. QED
    BY <1>2, <1>6, <2>1, <2>2, <2>3, <2>4, <2>6 DEF Busts
<1>7. QED
  BY <1>4, <1>5, <1>6 DEF Kept

(* A lost counter disturbs nothing but the versions. *)
LEMMA LoseCounterKept == ASSUME Types, LoseCounter PROVE Types' /\ (Busts => Busts')
<1>1. counter' = 0 /\ UNCHANGED <<store, index, verCache, req, op, data, config, history>>
  BY DEF LoseCounter
<1>2. Types'
  <2>1. Cardinality(Counted) \in Nat /\ Counted' = Counted
    BY <1>1, CacheAssumption, FS_Subset, FS_CardinalityType DEF Counted
  <2>2. MetaTypes'
    BY <1>1, <2>1 DEF Types, MetaTypes
  <2>3. QED
    BY <1>1, <2>2 DEF Types, StoreTypes, RequestTypes, OperationTypes, HistoryTypes, store, history
<1>3. ASSUME Busts PROVE Busts'
  <2>1. UNCHANGED <<valkey, durable, writes, index, req, op, epoch, tagged, cleared>> /\ Shrunk
    BY <1>1 DEF store, history, Shrunk, Types, StoreTypes
  <2>2. \A k, c, passed : Pending(k, c, passed)' <=> Pending(k, c, passed)
    BY <2>1, StillPending
  <2>3. /\ \A k \in Key : valkey'[k] # None => Pending(k, valkey[k], {"purge"})'
        /\ \A k \in Key : durable'[k] # None => Pending(k, durable[k], {})'
    BY <1>3, <2>1, <2>2 DEF Busts
  <2>4. QED
    BY <1>3, <2>1, <2>3, BustsIdle DEF Busts
<1>4. QED
  BY <1>2, <1>3

(* A gateway dies: what it was doing is lost, and the durable rows are copied
   to Valkey. *)
LEMMA RestartKept == ASSUME Types, NEW g \in Gateway, Restart(g) PROVE Kept
<1> DEFINE x == [pc |-> "lost"]
<1>1. /\ \A r \in Request : req'[r] = req[r] \/ req'[r] = x
      /\ DOMAIN req' = Request
  BY DEF Restart
<1>2. /\ DOMAIN op' = Op
      /\ \A o \in Op : \/ op'[o] = op[o]
                       \/ Running(op[o]) /\ op'[o] = [op[o] EXCEPT !.pc = "lost"]
  BY DEF Restart
<1>3. \A o \in Op : op'[o] = op[o] \/ op'[o].pc = "lost"
  <2>1. \A o \in Op : Running(op[o]) => "pc" \in DOMAIN op[o]
    BY DEF Running, Types, OperationTypes, OperationOK, Bumping, Bumped, Busting, Popped, Flushing
  <2>2. QED
    BY <1>2, <2>1
<1>4. /\ verCache' = [verCache EXCEPT ![g] = None]
      /\ UNCHANGED <<valkey, durable, counter, index, data, config, epoch, tagged, cleared,
                     configAt, known>>
  BY DEF Restart, history
<1>5. \A w \in writes' :
          \/ w \in writes
          \/ \E k \in Key : /\ durable[k] # None
                            /\ w = [to |-> "valkey", key |-> k, gw |-> g,
                                    answer |-> durable[k].answer]
  BY DEF Restart
<1>6. \A w \in writes' :
          \/ w \in writes
          \/ durable[w.key] # None /\ w.key \in Key /\ w.answer = durable[w.key].answer
             /\ durable[w.key] \in Copies(w.key)
  BY <1>5 DEF Copies
<1>7. Types'
  <2>1. StoreTypes'
    <3>1. \A k \in Key : durable[k] # None => durable[k].answer \in Answer
      BY DEF Types, StoreTypes, Stored
    <3>2. QED
      BY <1>4, <1>5, <3>1 DEF Types, StoreTypes
  <2>2. RequestTypes'
    BY <1>1 DEF Types, RequestTypes, RequestOK
  <2>3. OperationTypes'
    BY <1>2, <1>3 DEF Types, OperationTypes, OperationOK
  <2>4. MetaTypes'
    <3>1. Counted \subseteq Counted' /\ Counted' \in SUBSET Op
      BY <1>3 DEF Counted
    <3>2. /\ Cardinality(Counted) <= Cardinality(Counted')
          /\ Cardinality(Counted) \in Nat /\ Cardinality(Counted') \in Nat
      BY <3>1, CacheAssumption, FS_Subset, FS_CardinalityType
    <3>3. verCache' \in [Gateway -> Version \cup {None}]
      BY <1>4 DEF Types, MetaTypes
    <3>4. QED
      BY <1>4, <3>2, <3>3 DEF Types, MetaTypes
  <2>5. QED
    BY <1>4, <2>1, <2>2, <2>3, <2>4 DEF Types, HistoryTypes
<1>8. \A k \in Key : Copies(k)' = Copies(k)
  BY <1>4 DEF Copies
<1>9. ASSUME Versions PROVE Versions'
  <2>1. \A h \in Gateway : verCache'[h] # None => verCache'[h] <= counter
    BY <1>4, <1>9 DEF Versions, Types, MetaTypes
  <2>2. \A r \in Request : RequestBehind(req'[r], counter, configAt, known.config)
    BY <1>1, <1>9 DEF Versions, RequestBehind
  <2>3. \A o \in Op : OperationBehind(op'[o], counter, configAt, config)
    BY <1>3, <1>9 DEF Versions, OperationBehind
  <2>4. \A w \in writes' : Filed(w.key, w.answer, counter, configAt)
    BY <1>6, <1>9 DEF Versions
  <2>5. QED
    BY <1>4, <1>8, <1>9, <2>1, <2>2, <2>3, <2>4 DEF Versions
<1>10. ASSUME Busts PROVE Busts'
  <2>1. ASSUME NEW k \in Key, NEW a \in Answer, Traced(k, a) PROVE Traced(k, a)'
    <3>1. a.by \in Request
      BY DEF Answer
    <3>2. CASE req'[a.by] = req[a.by]
      BY <1>4, <2>1, <3>2 DEF Traced, Keys, KeyOf
    <3>3. CASE req'[a.by] = x
      <4>1. req'[a.by].pc \notin Early \cup {"populate", "tag"}
        BY <3>3 DEF Early
      <4>2. QED
        BY <1>4, <2>1, <4>1 DEF Traced
    <3>4. QED
      BY <1>1, <3>1, <3>2, <3>3
  <2>2. \A k \in Key : \A c \in Copies(k)' : Traced(k, c.answer)'
    BY <1>8, <1>10, <2>1, Answers DEF Busts
  <2>3. \A w \in writes' : Traced(w.key, w.answer)'
    <3> SUFFICES ASSUME NEW w \in writes' PROVE Traced(w.key, w.answer)'
      OBVIOUS
    <3>1. w.key \in Key /\ w.answer \in Answer
      BY <1>6, Answers
    <3>2. Traced(w.key, w.answer)
      BY <1>6, <1>10 DEF Busts
    <3>3. QED
      BY <2>1, <3>1, <3>2
  <2>4. \A k, c, passed : Pending(k, c, passed) => Pending(k, c, passed)'
    BY <1>3, <1>4, FewerPending
  <2>5. /\ \A k \in Key : valkey'[k] # None => Pending(k, valkey[k], {"purge"})'
        /\ \A k \in Key : durable'[k] # None => Pending(k, durable[k], {})'
    <3>1. /\ \A k \in Key : valkey[k] # None => Pending(k, valkey[k], {"purge"})
          /\ \A k \in Key : durable[k] # None => Pending(k, durable[k], {})
      BY <1>10 DEF Busts
    <3>2. valkey' = valkey /\ durable' = durable
      BY <1>4
    <3> SUFFICES ASSUME NEW k \in Key
                 PROVE  /\ valkey'[k] # None => Pending(k, valkey[k], {"purge"})'
                        /\ durable'[k] # None => Pending(k, durable[k], {})'
      OBVIOUS
    <3>3. ASSUME NEW c, NEW passed, Pending(k, c, passed) PROVE Pending(k, c, passed)'
      BY <2>4, <3>3
    <3>4. /\ \A c : c = valkey[k] /\ c # None => Pending(k, c, {"purge"})'
          /\ \A c : c = durable[k] /\ c # None => Pending(k, c, {})'
      BY <3>1, <3>3
    <3>5. QED
      BY <3>2, <3>4
  <2>6. \A r \in Request :
            /\ req'[r].pc \in Early \cup {"populate"} => \A t \in Tool : tagged[r][t] = None
            /\ req'[r].pc \in {"populate", "tag"} => req'[r].answer.by = r
    BY <1>1, <1>10 DEF Busts, Early
  <2>7. \A o \in Op : op'[o].pc \in {"delete", "purge"} => op'[o].epoch < epoch[Head(op'[o].tools)]
    BY <1>3, <1>10 DEF Busts
  <2>8. QED
    BY <1>4, <1>10, <2>2, <2>3, <2>5, <2>6, <2>7 DEF Busts
<1>11. QED
  BY <1>7, <1>9, <1>10 DEF Kept

-----------------------------------------------------------------------------
(* What an operation does.                                                   *)

(* A step of one operation that leaves the counter, the index and what is on
   its way alone. *)
LEMMA OperationAlone ==
    ASSUME Types, NEW o \in Op, NEW y, OperationOK(y), op' = [op EXCEPT ![o] = y],
           op[o].pc \notin {"idle", "bump"} => y.pc \notin {"idle", "bump"},
           Shrunk, UNCHANGED <<req, writes, counter, index, epoch, tagged, configAt>>,
           data' \in [Tool -> Nat], config' \in Nat, config <= config', known' \in Known,
           verCache' \in [Gateway -> Version \cup {None}],
           Versions => \A g \in Gateway : verCache'[g] # None => verCache'[g] <= counter,
           Versions => OperationBehind(y, counter, configAt, config'),
           Versions => known.config <= known'.config /\ known'.config <= configAt[counter],
           Busts => \A e \in cleared' : e[1] \in Tool /\ e[2] \in Nat /\ e[2] < epoch[e[1]],
           Busts => (y.pc \in {"delete", "purge"} => y.epoch < epoch[Head(y.tools)]),
           Busts => /\ \A k \in Key : valkey'[k] # None => Pending(k, valkey[k], {"purge"})'
                    /\ \A k \in Key : durable'[k] # None => Pending(k, durable[k], {})'
    PROVE  Kept
<1>1. /\ OperationTypes' /\ \A p \in Op : op'[p] = IF p = o THEN y ELSE op[p]
      /\ counter <= Cardinality(Counted')
  BY OperationMoves
<1>2. Types'
  BY <1>1 DEF Types, StoreTypes, MetaTypes, RequestTypes, HistoryTypes, Shrunk
<1>3. ASSUME Versions PROVE Versions'
  <2>1. ASSUME NEW p \in Op PROVE OperationBehind(op[p], counter, configAt, config')
    <3>1. OperationBehind(op[p], counter, configAt, config)
      BY <1>3 DEF Versions
    <3>2. op[p].pc = "bump" => op[p].config \in Nat
      BY DEF Types, OperationTypes, OperationOK, Bumping, Bumped, Busting, Popped, Flushing
    <3>3. config \in Nat
      BY DEF Types, HistoryTypes
    <3>4. QED
      BY <3>1, <3>2, <3>3 DEF OperationBehind
  <2>2. \A p \in Op : OperationBehind(op'[p], counter, configAt, config')
    BY <1>1, <1>3, <2>1
  <2>3. known'.config \in Nat
    BY DEF Known
  <2>4. QED
    BY <1>3, <2>2, <2>3, VersionsIdle
<1>4. ASSUME Busts PROVE Busts'
  <2>1. \A p \in Op : op'[p].pc \in {"delete", "purge"} => op'[p].epoch < epoch[Head(op'[p].tools)]
    BY <1>1, <1>4 DEF Busts
  <2>2. QED
    BY <1>4, <2>1, BustsIdle
<1>5. QED
  BY <1>2, <1>3, <1>4 DEF Kept

(* One that busts nothing. *)
LEMMA OperationQuiet ==
    ASSUME Types, NEW o \in Op, NEW y, OperationOK(y), op' = [op EXCEPT ![o] = y],
           op[o].pc \notin {"idle", "bump"} => y.pc \notin {"idle", "bump"},
           y.pc \notin {"delete", "purge"},
           Shrunk, UNCHANGED <<req, writes, counter, index, epoch, tagged, configAt, cleared>>,
           data' \in [Tool -> Nat], config' \in Nat, config <= config', known' \in Known,
           verCache' \in [Gateway -> Version \cup {None}],
           Versions => \A g \in Gateway : verCache'[g] # None => verCache'[g] <= counter,
           Versions => OperationBehind(y, counter, configAt, config'),
           Versions => known.config <= known'.config /\ known'.config <= configAt[counter]
    PROVE  Kept
<1>1. Busts => \A e \in cleared' : e[1] \in Tool /\ e[2] \in Nat /\ e[2] < epoch[e[1]]
  BY DEF Busts
<1>2. \A p \in Op : op'[p] = op[p] \/ op'[p].pc \notin {"delete", "purge"}
  BY DEF Types, OperationTypes
<1>3. \A k, c, passed : Pending(k, c, passed) => Pending(k, c, passed)'
  BY <1>2, FewerPending
<1>4. ASSUME Busts
      PROVE  /\ \A k \in Key : valkey'[k] # None => Pending(k, valkey[k], {"purge"})'
             /\ \A k \in Key : durable'[k] # None => Pending(k, durable[k], {})'
  <2> SUFFICES ASSUME NEW k \in Key
               PROVE  /\ valkey'[k] # None => Pending(k, valkey[k], {"purge"})'
                      /\ durable'[k] # None => Pending(k, durable[k], {})'
    OBVIOUS
  <2>1. ASSUME NEW c, NEW passed, Pending(k, c, passed) PROVE Pending(k, c, passed)'
    BY <1>3, <2>1
  <2>2. /\ valkey[k] # None => Pending(k, valkey[k], {"purge"})
        /\ durable[k] # None => Pending(k, durable[k], {})
    BY <1>4 DEF Busts
  <2>3. /\ \A c : c = valkey[k] /\ c # None => Pending(k, c, {"purge"})'
        /\ \A c : c = durable[k] /\ c # None => Pending(k, c, {})'
    BY <2>1, <2>2
  <2>4. valkey'[k] \in {valkey[k], None} /\ durable'[k] \in {durable[k], None}
    BY DEF Shrunk
  <2>5. QED
    BY <2>3, <2>4
<1>5. QED
  BY <1>1, <1>4, OperationAlone

LEMMA NothingLost ==
    ASSUME Types, UNCHANGED <<valkey, durable>> PROVE Shrunk
BY DEF Types, StoreTypes, Shrunk

LEMMA Known0 ==
    ASSUME Types
    PROVE  /\ known \in Known /\ known.config \in Nat /\ config \in Nat /\ data \in [Tool -> Nat]
           /\ configAt[counter] \in Nat
           /\ Versions => known.config <= known.config /\ known.config <= configAt[counter]
BY VersionInRange DEF Types, HistoryTypes, Known, Versions

LEMMA BeginKept == ASSUME Types, NEW o \in Op, Begin(o) PROVE Kept
<1>1. /\ op[o].pc = "idle"
      /\ UNCHANGED <<valkey, durable, writes, counter, index, verCache, req,
                     epoch, tagged, cleared, configAt, known>>
  BY DEF Begin, store, meta, history
<1>2. PICK g \in Gateway :
         \/ /\ config' = config + 1
            /\ op' = [op EXCEPT ![o] = [pc |-> "bump", gw |-> g, config |-> config']]
            /\ UNCHANGED data
         \/ /\ Kind[o] = "tool"
            /\ data' = [t \in Tool |-> IF t \in Range(Tools[o]) THEN data[t] + 1 ELSE data[t]]
            /\ op' = [op EXCEPT ![o] = [pc |-> "bust", gw |-> g, tools |-> Tools[o],
                                        data |-> data']]
            /\ UNCHANGED config
         \/ /\ op' = [op EXCEPT ![o] = [pc |-> "flush", gw |-> g]]
            /\ UNCHANGED <<data, config>>
  BY DEF Begin
<1>3. config \in Nat /\ data \in [Tool -> Nat] /\ known \in Known
  BY Known0
<1>4. data' \in [Tool -> Nat] /\ config' \in Nat /\ config <= config'
  BY <1>2, <1>3
<1>5. Tools[o] \in Seq(Tool) /\ (Kind[o] = "tool" => Tools[o] # <<>>)
  BY CacheAssumption
<1>6. PICK y : /\ op' = [op EXCEPT ![o] = y] /\ OperationOK(y)
               /\ y.pc \in {"bump", "bust", "flush"}
               /\ y.pc = "bump" => y.config = config'
  <2>1. CASE op' = [op EXCEPT ![o] = [pc |-> "bump", gw |-> g, config |-> config']]
    <3> DEFINE z == [pc |-> "bump", gw |-> g, config |-> config']
    <3>1. z \in Bumping
      BY <1>4 DEF Bumping
    <3>2. OperationOK(z) /\ z.pc = "bump" /\ z.config = config'
      BY <3>1 DEF OperationOK
    <3>3. op' = [op EXCEPT ![o] = z]
      BY <2>1
    <3> HIDE DEF z
    <3>4. QED
      BY <3>2, <3>3
  <2>2. CASE /\ Kind[o] = "tool"
             /\ op' = [op EXCEPT ![o] = [pc |-> "bust", gw |-> g, tools |-> Tools[o],
                                         data |-> data']]
    <3> DEFINE z == [pc |-> "bust", gw |-> g, tools |-> Tools[o], data |-> data']
    <3>1. z \in Busting
      BY <1>4, <1>5, <2>2 DEF Busting
    <3>2. OperationOK(z) /\ z.pc = "bust"
      BY <3>1 DEF OperationOK
    <3>3. op' = [op EXCEPT ![o] = z]
      BY <2>2
    <3> HIDE DEF z
    <3>4. QED
      BY <3>2, <3>3
  <2>3. CASE op' = [op EXCEPT ![o] = [pc |-> "flush", gw |-> g]]
    <3> DEFINE z == [pc |-> "flush", gw |-> g]
    <3>1. z \in Flushing
      BY DEF Flushing
    <3>2. OperationOK(z) /\ z.pc = "flush"
      BY <3>1 DEF OperationOK
    <3>3. op' = [op EXCEPT ![o] = z]
      BY <2>3
    <3> HIDE DEF z
    <3>4. QED
      BY <3>2, <3>3
  <2>4. QED
    BY <1>2, <2>1, <2>2, <2>3
<1>7. OperationBehind(y, counter, configAt, config')
  BY <1>4, <1>6 DEF OperationBehind
<1>8. /\ verCache' \in [Gateway -> Version \cup {None}]
      /\ Versions => \A h \in Gateway : verCache'[h] # None => verCache'[h] <= counter
  BY <1>1 DEF Types, MetaTypes, Versions
<1>9. QED
  BY <1>1, <1>3, <1>4, <1>6, <1>7, <1>8, NothingLost, Known0, OperationQuiet

(* A bump counts; the configuration of the new version is the present one. *)
LEMMA IncrementKept == ASSUME Types, NEW o \in Op, Increment(o) PROVE Kept
<1> DEFINE y == [pc |-> "remember", gw |-> op[o].gw, config |-> op[o].config, ver |-> counter + 1]
<1>1. /\ op[o].pc = "bump" /\ counter' = counter + 1
      /\ configAt' = [configAt EXCEPT ![counter + 1] = config]
      /\ op' = [op EXCEPT ![o] = y]
      /\ UNCHANGED <<valkey, durable, writes, index, verCache, req, data, config,
                     epoch, tagged, cleared, known>>
  BY DEF Increment, store
<1>2. op[o] \in Bumping
  BY <1>1 DEF Types, OperationTypes, OperationOK, Bumped, Busting, Popped, Flushing
<1>3. /\ counter \in Nat /\ counter + 1 \in Version /\ \A v \in Version : v \in Nat
      /\ counter + 1 <= Cardinality(Counted')
  <2>1. \A p \in Op : op'[p] = IF p = o THEN y ELSE op[p]
    BY <1>1 DEF Types, OperationTypes
  <2>2. Counted' = Counted \cup {o} /\ o \notin Counted /\ Counted' \in SUBSET Op
    BY <1>1, <2>1 DEF Counted
  <2>3. IsFiniteSet(Counted)
    BY CacheAssumption, FS_Subset DEF Counted
  <2>4. Cardinality(Counted') = Cardinality(Counted) + 1 /\ Cardinality(Counted) \in Nat
    BY <2>2, <2>3, FS_AddElement, FS_CardinalityType
  <2>5. Cardinality(Counted') <= Cardinality(Op) /\ Cardinality(Op) \in Nat
    BY <2>2, CacheAssumption, FS_Subset, FS_CardinalityType
  <2>6. QED
    BY <2>4, <2>5 DEF Types, MetaTypes, Version
<1>4. y \in Bumped
  BY <1>2, <1>3 DEF Bumping, Bumped
<1>5. OperationTypes' /\ \A p \in Op : op'[p] = IF p = o THEN y ELSE op[p]
  <2>1. OperationOK(y) /\ y.pc = "remember"
    BY <1>4 DEF OperationOK
  <2> HIDE DEF y
  <2>2. QED
    BY <1>1, <2>1, OperationMoves
<1>6. configAt' \in [Version -> Nat] /\ config \in Nat
  BY <1>1, Known0 DEF Types, HistoryTypes
<1>7. Types'
  BY <1>1, <1>3, <1>5, <1>6
  DEF Types, StoreTypes, MetaTypes, RequestTypes, HistoryTypes
<1>8. /\ y.pc = "remember" /\ y.ver = counter + 1 /\ y.config = op[o].config
      /\ configAt'[counter + 1] = config
      /\ \A v \in Version : v <= counter => configAt'[v] = configAt[v]
  BY <1>1, <1>3 DEF Types, HistoryTypes
<1> HIDE DEF y
<1>9. ASSUME Versions PROVE Versions'
  <2>1. \A g \in Gateway : verCache[g] # None => verCache[g] <= counter + 1
    BY <1>3, <1>9 DEF Versions, Types, MetaTypes
  <2>2. ASSUME NEW r \in Request PROVE RequestBehind(req[r], counter + 1, configAt', known.config)
    <3>1. RequestBehind(req[r], counter, configAt, known.config)
      BY <1>9 DEF Versions
    <3>2. req[r].pc \in {"remember", "valkey", "durable", "generate", "populate", "tag"} =>
              req[r].ver \in Version
      BY DEF Types, RequestTypes, RequestOK, Arrived, Versioned, Found, Asking, Storing
    <3>3. QED
      BY <1>3, <1>8, <3>1, <3>2 DEF RequestBehind
  <2>3. ASSUME NEW p \in Op PROVE OperationBehind(op'[p], counter + 1, configAt', config)
    <3>1. OperationBehind(op[p], counter, configAt, config)
      BY <1>9 DEF Versions
    <3>2. op[p].pc = "remember" => op[p].ver \in Version
      BY DEF Types, OperationTypes, OperationOK, Bumping, Bumped, Busting, Popped, Flushing
    <3>3. OperationBehind(op[p], counter + 1, configAt', config)
      BY <1>3, <1>8, <3>1, <3>2 DEF OperationBehind
    <3>4. op[o].config <= config
      BY <1>1, <1>9 DEF Versions, OperationBehind
    <3>5. OperationBehind(y, counter + 1, configAt', config)
      BY <1>3, <1>8, <3>4 DEF OperationBehind
    <3>6. QED
      BY <1>5, <3>3, <3>5
  <2>4. \A k \in Key : \A a : Filed(k, a, counter, configAt) => Filed(k, a, counter + 1, configAt')
    <3>1. \A k \in Key : k.ver \in Version
      BY DEF Key
    <3>2. QED
      BY <1>3, <1>8, <3>1 DEF Filed
  <2>5. \A k \in Key : \A c \in Copies(k)' : Filed(k, c.answer, counter + 1, configAt')
    <3>1. \A k \in Key : Copies(k)' = Copies(k)
      BY <1>1 DEF Copies
    <3>2. QED
      BY <1>9, <2>4, <3>1 DEF Versions
  <2>6. \A w \in writes : Filed(w.key, w.answer, counter + 1, configAt')
    BY <1>9, <2>4, Answers DEF Versions
  <2>7. /\ \A v \in Version : v <= counter => configAt[v] <= config
        /\ known.config <= config
    <3>1. \A v \in Version : v <= counter => configAt[v] <= configAt[counter]
      BY <1>9, VersionInRange DEF Versions
    <3>2. configAt[counter] <= config /\ known.config <= configAt[counter]
      BY <1>9 DEF Versions
    <3>3. \A v \in Version : configAt[v] \in Nat
      BY DEF Types, HistoryTypes
    <3>4. configAt[counter] \in Nat /\ config \in Nat /\ known.config \in Nat
      BY Known0
    <3>5. QED
      BY <3>1, <3>2, <3>3, <3>4
  <2>8. ASSUME NEW v \in Version, NEW w \in Version, v <= w, w <= counter + 1
        PROVE  configAt'[v] <= configAt'[w]
    <3>1. CASE w <= counter
      <4>1. v <= counter
        BY <1>3, <2>8, <3>1
      <4>2. configAt[v] <= configAt[w]
        BY <1>9, <2>8, <3>1 DEF Versions
      <4>3. QED
        BY <1>8, <3>1, <4>1, <4>2
    <3>2. CASE w = counter + 1 /\ v <= counter
      BY <1>8, <2>7, <3>2
    <3>3. CASE w = counter + 1 /\ v = counter + 1
      BY <1>6, <1>8, <3>3
    <3>4. QED
      BY <1>3, <2>8, <3>1, <3>2, <3>3
  <2>9. configAt'[counter + 1] <= config /\ known.config <= configAt'[counter + 1]
    BY <1>6, <1>8, <2>7
  <2>10. QED
    BY <1>1, <2>1, <2>2, <2>3, <2>5, <2>6, <2>8, <2>9 DEF Versions
<1>10. ASSUME Busts PROVE Busts'
  <2>1. \A p \in Op : op'[p] = op[p] \/ op'[p].pc \notin {"delete", "purge"}
    BY <1>5, <1>8
  <2>2. \A k, c, passed : Pending(k, c, passed) => Pending(k, c, passed)'
    BY <1>1, <2>1, FewerPending
  <2>3. /\ \A k \in Key : valkey'[k] # None => Pending(k, valkey[k], {"purge"})'
        /\ \A k \in Key : durable'[k] # None => Pending(k, durable[k], {})'
    <3> SUFFICES ASSUME NEW k \in Key
                 PROVE  /\ valkey'[k] # None => Pending(k, valkey[k], {"purge"})'
                        /\ durable'[k] # None => Pending(k, durable[k], {})'
      OBVIOUS
    <3>1. ASSUME NEW c, NEW passed, Pending(k, c, passed) PROVE Pending(k, c, passed)'
      BY <2>2, <3>1
    <3>2. /\ valkey[k] # None => Pending(k, valkey[k], {"purge"})
          /\ durable[k] # None => Pending(k, durable[k], {})
      BY <1>10 DEF Busts
    <3>3. /\ \A c : c = valkey[k] /\ c # None => Pending(k, c, {"purge"})'
          /\ \A c : c = durable[k] /\ c # None => Pending(k, c, {})'
      BY <3>1, <3>2
    <3>4. QED
      BY <1>1, <3>3
  <2>4. \A p \in Op : op'[p].pc \in {"delete", "purge"} => op'[p].epoch < epoch[Head(op'[p].tools)]
    BY <1>10, <2>1 DEF Busts
  <2>5. Shrunk
    BY <1>1, NothingLost
  <2>6. QED
    BY <1>1, <1>10, <2>3, <2>4, <2>5, BustsIdle DEF Busts
<1>11. QED
  BY <1>7, <1>9, <1>10 DEF Kept

LEMMA StoreVersionKept == ASSUME Types, NEW o \in Op, StoreVersion(o) PROVE Kept
<1> DEFINE y == [op[o] EXCEPT !.pc = "done"]
           c == IF known.config < op[o].config THEN op[o].config ELSE known.config
<1>1. /\ op[o].pc = "remember"
      /\ verCache' = [verCache EXCEPT ![op[o].gw] = op[o].ver]
      /\ op' = [op EXCEPT ![o] = y]
      /\ known' = [known EXCEPT !.config = c]
      /\ UNCHANGED <<valkey, durable, writes, counter, index, req, data, config,
                     epoch, tagged, cleared, configAt>>
  BY DEF StoreVersion, OpGoto, store
<1>2. op[o] \in Bumped
  BY <1>1 DEF Types, OperationTypes, OperationOK, Bumping, Busting, Popped, Flushing
<1>3. y.pc = "done" /\ OperationOK(y)
  BY <1>2 DEF Bumped, OperationOK
<1>4. known' \in Known /\ known'.config = c /\ known.config <= known'.config
  BY <1>1, <1>2, Known0 DEF Known, Bumped
<1>5. Versions /\ op[o].ver <= counter /\ op[o].config <= configAt[op[o].ver]
          => c <= configAt[counter]
  <2>1. op[o].ver \in Version /\ counter \in Version /\ op[o].config \in Nat
    BY <1>2, VersionInRange DEF Bumped
  <2>2. Versions /\ op[o].ver <= counter => configAt[op[o].ver] <= configAt[counter]
    BY <2>1, VersionInRange DEF Versions
  <2>3. configAt[op[o].ver] \in Nat
    BY <2>1 DEF Types, HistoryTypes
  <2>4. QED
    BY <2>1, <2>2, <2>3, Known0
<1>6. Versions => op[o].ver <= counter /\ op[o].config <= configAt[op[o].ver]
  BY <1>1 DEF Versions, OperationBehind
<1>7. /\ verCache' \in [Gateway -> Version \cup {None}]
      /\ Versions => \A g \in Gateway : verCache'[g] # None => verCache'[g] <= counter
  BY <1>1, <1>2, <1>6 DEF Types, MetaTypes, Versions, Bumped
<1>8. OperationBehind(y, counter, configAt, config')
  BY <1>3 DEF OperationBehind
<1>9. Shrunk /\ config <= config' /\ config' \in Nat /\ data' \in [Tool -> Nat]
  BY <1>1, NothingLost, Known0
<1> HIDE DEF y, c
<1>10. y.pc \notin {"idle", "bump", "delete", "purge"}
  BY <1>3
<1>11. QED
  BY <1>1, <1>3, <1>4, <1>5, <1>6, <1>7, <1>8, <1>9, <1>10, OperationQuiet

(* The failures and the flushes. *)
LEMMA FlushKept ==
    ASSUME Types, NEW o \in Op, FlushValkey(o) \/ FlushDurable(o) \/ OpFails(o)
    PROVE  Kept
<1>1. PICK pc \in {"flushdb", "done", "failed"} :
          /\ op' = [op EXCEPT ![o].pc = pc]
          /\ op[o].pc \in {"bump", "bust", "delete", "flush", "flushdb"}
          /\ pc = "flushdb" => op[o].pc = "flush"
  <2>1. CASE FlushValkey(o)
    BY <2>1 DEF FlushValkey, OpGoto
  <2>2. CASE FlushDurable(o)
    BY <2>2 DEF FlushDurable, OpGoto
  <2>3. CASE OpFails(o)
    BY <2>3 DEF OpFails, Fail, OpGoto
  <2>4. QED
    BY <2>1, <2>2, <2>3
<1> DEFINE y == [op[o] EXCEPT !.pc = pc]
<1>3. /\ op' = [op EXCEPT ![o] = y] /\ y.pc = pc
      /\ pc = "flushdb" => y \in Flushing
  <2>1. op[o] \in Bumping \cup Bumped \cup Busting \cup Popped \cup Flushing
    BY <1>1 DEF Types, OperationTypes, OperationOK
  <2>2. y.pc = pc
    BY <2>1 DEF Bumping, Bumped, Busting, Popped, Flushing
  <2>3. op[o].pc = "flush" => op[o] \in Flushing
    BY <2>1 DEF Bumping, Bumped, Busting, Popped
  <2>4. QED
    BY <1>1, <2>2, <2>3 DEF Flushing
<1> HIDE DEF y
<1>4. OperationOK(y) /\ OperationBehind(y, counter, configAt, config)
  BY <1>1, <1>3 DEF OperationOK, OperationBehind
<1>5. /\ Shrunk
      /\ UNCHANGED <<req, writes, counter, index, verCache, epoch, tagged, configAt, cleared,
                     data, config, known>>
  BY DEF FlushValkey, FlushDurable, OpFails, store, meta, history, Shrunk, Types, StoreTypes
<1>6. /\ config <= config /\ config \in Nat /\ data \in [Tool -> Nat] /\ known \in Known
      /\ verCache \in [Gateway -> Version \cup {None}]
      /\ Versions => \A g \in Gateway : verCache[g] # None => verCache[g] <= counter
      /\ Versions => known.config <= known.config /\ known.config <= configAt[counter]
  BY Known0 DEF Types, MetaTypes, Versions
<1>7. y.pc \notin {"idle", "bump", "delete", "purge"}
  BY <1>1, <1>3
<1>8. QED
  BY <1>3, <1>4, <1>5, <1>6, <1>7, OperationQuiet

(* An operation about to bust the copies of a tool. *)
LEMMA PoppedOK ==
    ASSUME Types, NEW o \in Op, op[o].pc \in {"delete", "purge"}
    PROVE  op[o] \in Popped /\ Head(op[o].tools) \in Tool /\ op[o].epoch \in Nat
BY DEF Types, OperationTypes, OperationOK, Bumping, Bumped, Busting, Popped, Flushing

(* The keys of the index are gone from Valkey. *)
LEMMA DeleteKept == ASSUME Types, NEW o \in Op, Delete(o) PROVE Kept
<1> DEFINE y == [op[o] EXCEPT !.pc = "purge"]
<1>1. /\ op[o].pc = "delete"
      /\ valkey' = [k \in Key |-> IF k \in op[o].keys THEN None ELSE valkey[k]]
      /\ op' = [op EXCEPT ![o] = y]
      /\ UNCHANGED <<durable, writes, counter, index, verCache, req, data, config,
                     epoch, tagged, cleared, configAt, known>>
  BY DEF Delete, OpGoto, meta, history
<1>2. op[o] \in Popped
  BY <1>1, PoppedOK
<1>3. /\ y \in Popped /\ y.pc = "purge" /\ y.tools = op[o].tools /\ y.keys = op[o].keys
      /\ y.epoch = op[o].epoch
  BY <1>2 DEF Popped
<1> HIDE DEF y
<1>4. OperationOK(y) /\ OperationBehind(y, counter, configAt, config')
  BY <1>3 DEF OperationOK, OperationBehind
<1>5. Shrunk
  BY <1>1 DEF Shrunk, Types, StoreTypes
<1>6. \A p \in Op : op'[p] = IF p = o THEN y ELSE op[p]
  BY <1>1 DEF Types, OperationTypes
<1>7. ASSUME Busts
      PROVE  /\ \A k \in Key : valkey'[k] # None => Pending(k, valkey[k], {"purge"})'
             /\ \A k \in Key : durable'[k] # None => Pending(k, durable[k], {})'
  <2> SUFFICES ASSUME NEW k \in Key
               PROVE  /\ valkey'[k] # None => Pending(k, valkey[k], {"purge"})'
                      /\ durable'[k] # None => Pending(k, durable[k], {})'
    OBVIOUS
  <2>1. ASSUME NEW c, Pending(k, c, {"purge"}), k \notin op[o].keys PROVE Pending(k, c, {"purge"})'
    BY <1>1, <1>3, <1>6, <2>1 DEF Pending
  <2>2. ASSUME NEW c, Pending(k, c, {}) PROVE Pending(k, c, {})'
    BY <1>1, <1>3, <1>6, <2>2 DEF Pending
  <2>3. /\ valkey[k] # None => Pending(k, valkey[k], {"purge"})
        /\ durable[k] # None => Pending(k, durable[k], {})
    BY <1>7 DEF Busts
  <2>4. /\ \A c : c = valkey[k] /\ c # None /\ k \notin op[o].keys => Pending(k, c, {"purge"})'
        /\ \A c : c = durable[k] /\ c # None => Pending(k, c, {})'
    BY <2>1, <2>2, <2>3
  <2>5. valkey'[k] # None => k \notin op[o].keys /\ valkey'[k] = valkey[k]
    BY <1>1
  <2>6. QED
    BY <1>1, <2>4, <2>5
<1>8. Busts => y.epoch < epoch[Head(y.tools)]
  BY <1>1, <1>3 DEF Busts
<1>9. /\ config <= config' /\ config' \in Nat /\ data' \in [Tool -> Nat] /\ known' \in Known
      /\ verCache' \in [Gateway -> Version \cup {None}]
      /\ Versions => \A g \in Gateway : verCache'[g] # None => verCache'[g] <= counter
      /\ Versions => known.config <= known'.config /\ known'.config <= configAt[counter]
  BY <1>1, Known0 DEF Types, MetaTypes, Versions
<1>10. Busts => \A e \in cleared' : e[1] \in Tool /\ e[2] \in Nat /\ e[2] < epoch[e[1]]
  BY <1>1 DEF Busts
<1>11. QED
  BY <1>1, <1>3, <1>4, <1>5, <1>7, <1>8, <1>9, <1>10, OperationAlone

(* The event goes on to its next tool, or is done. *)
NextOf(z) == [pc |-> IF Len(z.tools) = 1 THEN "done" ELSE "bust",
              gw |-> z.gw, tools |-> Tail(z.tools), data |-> z.data]

LEMMA NextOfOK ==
    ASSUME NEW z \in Busting \cup Popped
    PROVE  OperationOK(NextOf(z)) /\ NextOf(z).pc \in {"done", "bust"}
<1> DEFINE ts == z.tools
<1>1. ts \in Seq(Tool) /\ ts # <<>> /\ z.gw \in Gateway /\ z.data \in [Tool -> Nat]
  BY DEF Busting, Popped
<1>2. Tail(ts) \in Seq(Tool) /\ Len(Tail(ts)) = Len(ts) - 1 /\ Len(ts) \in Nat
  BY <1>1
<1>3. Len(ts) # 1 => Tail(ts) # <<>>
  <2>1. Len(ts) # 1 => Len(Tail(ts)) # 0
    BY <1>2
  <2>2. QED
    BY <2>1
<1>4. CASE Len(ts) = 1
  BY <1>4 DEF NextOf, OperationOK
<1>5. CASE Len(ts) # 1
  <2>1. NextOf(z) = [pc |-> "bust", gw |-> z.gw, tools |-> Tail(ts), data |-> z.data]
    BY <1>5 DEF NextOf
  <2>2. NextOf(z) \in Busting
    BY <1>1, <1>2, <1>3, <1>5, <2>1 DEF Busting
  <2>3. QED
    BY <2>1, <2>2 DEF OperationOK
<1>6. QED
  BY <1>4, <1>5

(* What is known of a tool's data changes nothing else. *)
LEMMA KnownData ==
    ASSUME Types, NEW t \in Tool, NEW n \in Nat, known' = [known EXCEPT !.data[t] = n]
    PROVE  known' \in Known /\ known'.config = known.config
<1> DEFINE d == [known.data EXCEPT ![t] = n]
<1>1. d \in [Tool -> Nat]
  BY Known0 DEF Known
<1>2. known' = [known EXCEPT !.data = d]
  OBVIOUS
<1> HIDE DEF d
<1>3. QED
  BY <1>1, <1>2, Known0 DEF Known

(* The rows of the keys are gone as well: no copy is left of the epoch whose
   keys these were. *)
LEMMA PurgeKept == ASSUME Types, NEW o \in Op, Purge(o) PROVE Kept
<1> DEFINE t == Head(op[o].tools)
           n == op[o].epoch
           y == NextOf(op[o])
<1>1. /\ op[o].pc = "purge" /\ op' = [op EXCEPT ![o] = y]
      /\ UNCHANGED <<valkey, writes, counter, index, verCache, req, data, config,
                     epoch, tagged, configAt>>
  BY DEF Purge, NextTool, NextOf, meta
<1>2. op[o] \in Popped /\ t \in Tool /\ n \in Nat
  BY <1>1, PoppedOK
<1>3. OperationOK(y) /\ y.pc \in {"done", "bust"}
  BY <1>2, NextOfOK
<1>4. \/ /\ durable' = [k \in Key |-> IF k \in op[o].keys THEN None ELSE durable[k]]
         /\ cleared' = cleared \cup {<<t, n>>}
         /\ known' = [known EXCEPT !.data[t] = IF @ < op[o].data[t] THEN op[o].data[t] ELSE @]
      \/ UNCHANGED <<durable, cleared, known>>
  BY DEF Purge, NextTool
<1>5. known' \in Known /\ known'.config = known.config
  <2> DEFINE d == IF known.data[t] < op[o].data[t] THEN op[o].data[t] ELSE known.data[t]
  <2>1. d \in Nat
    BY <1>2, Known0 DEF Known, Popped
  <2>2. known' = [known EXCEPT !.data[t] = d] \/ known' = known
    BY <1>4
  <2> HIDE DEF d, t
  <2>3. QED
    BY <1>2, <2>1, <2>2, KnownData, Known0
<1>6. Shrunk
  BY <1>1, <1>4 DEF Shrunk, Types, StoreTypes
<1> HIDE DEF y, t, n
<1>7. \A p \in Op : op'[p] = IF p = o THEN y ELSE op[p]
  BY <1>1 DEF Types, OperationTypes
<1>8. ASSUME NEW k \in Key, NEW c, NEW passed, Pending(k, c, passed),
             ~(cleared' = cleared \cup {<<t, n>>} /\ "purge" \notin passed /\ k \in op[o].keys)
      PROVE  Pending(k, c, passed)'
  <2>1. ASSUME NEW u \in c.answer.tools, tagged[c.answer.by][u] = c.epoch[u]
        PROVE  /\ <<u, c.epoch[u]>> \notin cleared'
               /\ \A p \in Op :
                     /\ op'[p].pc \in {"delete", "purge"}
                     /\ Head(op'[p].tools) = u /\ op'[p].epoch = c.epoch[u]
                     => k \in op'[p].keys /\ op'[p].pc \notin passed
    <3>1. <<u, c.epoch[u]>> \notin cleared
      BY <1>8, <2>1 DEF Pending
    <3>2. \A p \in Op :
              /\ op[p].pc \in {"delete", "purge"}
              /\ Head(op[p].tools) = u /\ op[p].epoch = c.epoch[u]
              => k \in op[p].keys /\ op[p].pc \notin passed
      BY <1>8, <2>1 DEF Pending
    <3>3. \A p \in Op :
              /\ op'[p].pc \in {"delete", "purge"}
              /\ Head(op'[p].tools) = u /\ op'[p].epoch = c.epoch[u]
              => k \in op'[p].keys /\ op'[p].pc \notin passed
      BY <1>3, <1>7, <3>2
    <3>4. ASSUME cleared' = cleared \cup {<<t, n>>} PROVE ~(u = t /\ c.epoch[u] = n)
      BY <1>1, <1>8, <3>2, <3>4 DEF t, n
    <3>5. QED
      BY <1>4, <3>1, <3>3, <3>4
  <2>2. QED
    BY <1>1, <2>1 DEF Pending
<1>9. ASSUME Busts
      PROVE  /\ \A k \in Key : valkey'[k] # None => Pending(k, valkey[k], {"purge"})'
             /\ \A k \in Key : durable'[k] # None => Pending(k, durable[k], {})'
  <2> SUFFICES ASSUME NEW k \in Key
               PROVE  /\ valkey'[k] # None => Pending(k, valkey[k], {"purge"})'
                      /\ durable'[k] # None => Pending(k, durable[k], {})'
    OBVIOUS
  <2>1. /\ valkey[k] # None => Pending(k, valkey[k], {"purge"})
        /\ durable[k] # None => Pending(k, durable[k], {})
    BY <1>9 DEF Busts
  <2>2. \A c : c = valkey[k] /\ c # None => Pending(k, c, {"purge"})'
    BY <1>8, <2>1
  <2>3. durable'[k] # None => durable'[k] = durable[k]
    BY <1>6 DEF Shrunk
  <2>4. durable'[k] # None => cleared' = cleared \/ k \notin op[o].keys
    BY <1>4
  <2>5. ASSUME NEW c, c = durable[k], durable'[k] # None PROVE Pending(k, c, {})'
    <3>1. Pending(k, c, {})
      BY <2>1, <2>3, <2>5
    <3>2. CASE k \notin op[o].keys
      BY <1>8, <3>1, <3>2
    <3>3. CASE cleared' = cleared
      <4>1. \A p \in Op : op'[p] = op[p] \/ op'[p].pc \notin {"delete", "purge"}
        BY <1>3, <1>7
      <4>2. QED
        BY <1>1, <3>1, <3>3, <4>1, FewerPending
    <3>4. QED
      BY <2>4, <2>5, <3>2, <3>3
  <2>6. \A c : c = durable[k] /\ durable'[k] # None => Pending(k, c, {})'
    BY <2>5
  <2>7. valkey'[k] # None => Pending(k, valkey[k], {"purge"})'
    BY <1>1, <2>2
  <2>8. durable'[k] # None => Pending(k, durable[k], {})'
    BY <2>3, <2>6
  <2>9. QED
    BY <2>7, <2>8
<1>10. ASSUME Busts PROVE \A e \in cleared' : e[1] \in Tool /\ e[2] \in Nat /\ e[2] < epoch[e[1]]
  <2>1. n < epoch[t]
    BY <1>1, <1>10 DEF Busts, t, n
  <2>2. \A e \in cleared : e[1] \in Tool /\ e[2] \in Nat /\ e[2] < epoch[e[1]]
    BY <1>10 DEF Busts
  <2>3. QED
    BY <1>2, <1>4, <2>1, <2>2
<1>11. /\ config <= config' /\ config' \in Nat /\ data' \in [Tool -> Nat]
       /\ verCache' \in [Gateway -> Version \cup {None}]
       /\ Versions => \A g \in Gateway : verCache'[g] # None => verCache'[g] <= counter
       /\ Versions => known.config <= known'.config /\ known'.config <= configAt[counter]
  BY <1>1, <1>5, Known0 DEF Types, MetaTypes, Versions
<1>12. /\ OperationBehind(y, counter, configAt, config')
       /\ y.pc \notin {"idle", "bump", "delete", "purge"}
  BY <1>3 DEF OperationBehind
<1>13. QED
  BY <1>1, <1>3, <1>5, <1>6, <1>9, <1>10, <1>11, <1>12, OperationAlone

LEMMA BustingOK ==
    ASSUME Types, NEW o \in Op, op[o].pc = "bust"
    PROVE  op[o] \in Busting /\ Head(op[o].tools) \in Tool
BY DEF Types, OperationTypes, OperationOK, Bumping, Bumped, Busting, Popped, Flushing

(* An event takes the index: what is tagged in the epoch that ends is in the
   keys it took, or there is nothing to bust. *)
LEMMA PopKept == ASSUME Types, NEW o \in Op, Pop(o) PROVE Kept
<1> SUFFICES ASSUME NEW t, t = Head(op[o].tools), NEW n, n = epoch[t] PROVE Kept
  OBVIOUS
<1> DEFINE z == op[o]
           y0 == [pc |-> "delete", gw |-> z.gw, tools |-> z.tools, data |-> z.data,
                  keys |-> index[t], epoch |-> n]
<1>1. /\ op[o].pc = "bust"
      /\ index' = [index EXCEPT ![t] = {}] /\ epoch' = [epoch EXCEPT ![t] = @ + 1]
      /\ \/ /\ index[t] = {} /\ op' = [op EXCEPT ![o] = NextOf(op[o])]
            /\ cleared' = cleared \cup {<<t, n>>}
            /\ known' = [known EXCEPT !.data[t] = IF @ < op[o].data[t] THEN op[o].data[t] ELSE @]
         \/ /\ index[t] # {} /\ op' = [op EXCEPT ![o] = y0]
            /\ UNCHANGED <<cleared, known>>
      /\ UNCHANGED <<valkey, durable, writes, counter, verCache, req, data, config,
                     tagged, configAt>>
  BY DEF Pop, NextTool, NextOf, store
<1>2. /\ op[o] \in Busting /\ t \in Tool /\ n \in Nat /\ epoch \in [Tool -> Nat]
      /\ index \in [Tool -> SUBSET Key]
  BY <1>1, BustingOK DEF Types, MetaTypes, HistoryTypes
<1>3. PICK y : /\ op' = [op EXCEPT ![o] = y] /\ OperationOK(y)
               /\ \/ /\ index[t] = {} /\ cleared' = cleared \cup {<<t, n>>}
                     /\ y.pc \in {"done", "bust"}
                  \/ /\ index[t] # {} /\ cleared' = cleared /\ y.pc = "delete"
                     /\ y.keys = index[t] /\ y.epoch = n /\ y.tools = op[o].tools
  <2>1. CASE index[t] = {}
    <3>1. OperationOK(NextOf(op[o])) /\ NextOf(op[o]).pc \in {"done", "bust"}
      BY <1>2, NextOfOK
    <3>2. QED
      BY <1>1, <2>1, <3>1
  <2>2. CASE index[t] # {}
    <3>1. y0 \in Popped
      <4>1. index[t] \in (SUBSET Key) \ {{}}
        BY <1>2, <2>2
      <4>2. /\ op[o].gw \in Gateway /\ op[o].tools \in Seq(Tool) \ {<<>>}
            /\ op[o].data \in [Tool -> Nat]
        BY <1>2 DEF Busting
      <4>3. QED
        BY <1>2, <4>1, <4>2 DEF Popped
    <3>2. /\ y0.pc = "delete" /\ y0.keys = index[t] /\ y0.epoch = n /\ y0.tools = op[o].tools
          /\ OperationOK(y0)
      BY <3>1 DEF OperationOK
    <3> HIDE DEF y0
    <3>3. QED
      BY <1>1, <2>2, <3>2
  <2>3. QED
    BY <2>1, <2>2
<1>4. known' \in Known /\ known'.config = known.config
  <2> DEFINE d == IF known.data[t] < op[o].data[t] THEN op[o].data[t] ELSE known.data[t]
  <2>1. d \in Nat
    BY <1>2, Known0 DEF Known, Busting
  <2>2. known' = [known EXCEPT !.data[t] = d] \/ known' = known
    BY <1>1
  <2> HIDE DEF d
  <2>3. QED
    BY <1>2, <2>1, <2>2, KnownData, Known0
<1>5. /\ OperationTypes' /\ \A p \in Op : op'[p] = IF p = o THEN y ELSE op[p]
      /\ counter <= Cardinality(Counted')
  BY <1>1, <1>3, OperationMoves
<1>6. index' \in [Tool -> SUBSET Key] /\ epoch' \in [Tool -> Nat]
      /\ \A u \in Tool : epoch'[u] = IF u = t THEN n + 1 ELSE epoch[u]
  <2>1. index' = [index EXCEPT ![t] = {}] /\ epoch' = [epoch EXCEPT ![t] = n + 1]
    BY <1>1
  <2>2. index' \in [Tool -> SUBSET Key]
    BY <1>2, <2>1
  <2>3. epoch' \in [Tool -> Nat] /\ n + 1 \in Nat
    BY <1>2, <2>1
  <2>4. QED
    BY <1>2, <2>1, <2>2, <2>3
<1>7. Types'
  BY <1>1, <1>4, <1>5, <1>6 DEF Types, StoreTypes, MetaTypes, RequestTypes, HistoryTypes
<1>8. Shrunk
  BY <1>1, NothingLost
<1>9. ASSUME Versions PROVE Versions'
  <2>1. \A p \in Op : OperationBehind(op'[p], counter, configAt, config)
    BY <1>3, <1>5, <1>9 DEF Versions, OperationBehind
  <2>2. \A k \in Key : Copies(k)' = Copies(k)
    BY <1>1 DEF Copies
  <2>3. QED
    BY <1>1, <1>4, <1>9, <2>1, <2>2 DEF Versions
<1>10. ASSUME Busts PROVE Busts'
  <2>1. /\ \A u \in Tool : epoch[u] <= epoch'[u] /\ epoch[u] \in Nat /\ epoch'[u] \in Nat
        /\ \A r \in Request, u \in Tool : tagged[r][u] = None \/ tagged[r][u] <= epoch'[u]
        /\ \A k \in Key, a \in Answer : Traced(k, a) => Traced(k, a)'
    BY <1>1, <1>2, <1>6, <1>10, TracedAfter
  <2>2. /\ \A k \in Key : \A c \in Copies(k)' : Traced(k, c.answer)'
        /\ \A w \in writes' : Traced(w.key, w.answer)'
    <3>1. \A k \in Key : Copies(k)' = Copies(k)
      BY <1>1 DEF Copies
    <3>2. QED
      BY <1>1, <1>10, <2>1, <3>1, Answers DEF Busts
  <2>3. \A e \in cleared' : e[1] \in Tool /\ e[2] \in Nat /\ e[2] < epoch'[e[1]]
    <3>1. \A e \in cleared : e[1] \in Tool /\ e[2] \in Nat /\ e[2] < epoch[e[1]]
      BY <1>10 DEF Busts
    <3>2. \A e \in cleared : e[2] < epoch'[e[1]]
      BY <2>1, <3>1
    <3>3. n < epoch'[t]
      BY <1>2, <1>6
    <3>4. QED
      BY <1>2, <1>3, <3>1, <3>2, <3>3
  <2>4. ASSUME NEW p \in Op, op'[p].pc \in {"delete", "purge"}
        PROVE  op'[p].epoch < epoch'[Head(op'[p].tools)]
    <3>1. CASE p = o
      <4>1. op'[p].epoch = n /\ Head(op'[p].tools) = t
        BY <1>3, <1>5, <2>4, <3>1
      <4>2. QED
        BY <1>2, <1>6, <4>1
    <3>2. CASE p # o
      <4>1. op'[p] = op[p]
        BY <1>5, <3>2
      <4>2. Head(op[p].tools) \in Tool /\ op[p].epoch \in Nat
        BY <2>4, <4>1, PoppedOK
      <4>3. op[p].epoch < epoch[Head(op[p].tools)]
        BY <1>10, <2>4, <4>1 DEF Busts
      <4>4. QED
        BY <2>1, <4>1, <4>2, <4>3
    <3>3. QED
      BY <3>1, <3>2
  <2>5. ASSUME NEW k \in Key, NEW c \in Stored, Traced(k, c.answer), NEW passed,
               "delete" \notin passed, Pending(k, c, passed)
        PROVE  Pending(k, c, passed)'
    <3>1. c.answer \in Answer /\ c.answer.tools \subseteq Tool
      BY DEF Stored, Answer
    <3>2. ASSUME NEW u \in c.answer.tools, tagged[c.answer.by][u] = c.epoch[u]
          PROVE  /\ <<u, c.epoch[u]>> \notin cleared'
                 /\ \A p \in Op :
                       /\ op'[p].pc \in {"delete", "purge"}
                       /\ Head(op'[p].tools) = u /\ op'[p].epoch = c.epoch[u]
                       => k \in op'[p].keys /\ op'[p].pc \notin passed
      <4>1. <<u, c.epoch[u]>> \notin cleared
        BY <2>5, <3>2 DEF Pending
      <4>2. u = t /\ c.epoch[u] = n => k \in index[t]
        BY <2>5, <3>2 DEF Traced
      <4>3. <<u, c.epoch[u]>> \notin cleared'
        BY <1>3, <4>1, <4>2
      <4>4. ASSUME NEW p \in Op, op'[p].pc \in {"delete", "purge"},
                   Head(op'[p].tools) = u, op'[p].epoch = c.epoch[u]
            PROVE  k \in op'[p].keys /\ op'[p].pc \notin passed
        <5>1. CASE p = o
          <6>1. /\ op'[p].epoch = n /\ Head(op'[p].tools) = t /\ op'[p].keys = index[t]
                /\ op'[p].pc = "delete"
            BY <1>3, <1>5, <4>4, <5>1
          <6>2. QED
            BY <2>5, <4>2, <4>4, <6>1
        <5>2. CASE p # o
          BY <1>5, <2>5, <3>2, <4>4, <5>2 DEF Pending
        <5>3. QED
          BY <5>1, <5>2
      <4>5. QED
        BY <4>3, <4>4
    <3>3. QED
      BY <1>1, <3>2 DEF Pending
  <2>6. /\ \A k \in Key : valkey'[k] # None => Pending(k, valkey[k], {"purge"})'
        /\ \A k \in Key : durable'[k] # None => Pending(k, durable[k], {})'
    <3> SUFFICES ASSUME NEW k \in Key
                 PROVE  /\ valkey'[k] # None => Pending(k, valkey[k], {"purge"})'
                        /\ durable'[k] # None => Pending(k, durable[k], {})'
      OBVIOUS
    <3>1. /\ valkey[k] # None => /\ Pending(k, valkey[k], {"purge"})
                                 /\ valkey[k] \in Stored /\ Traced(k, valkey[k].answer)
          /\ durable[k] # None => /\ Pending(k, durable[k], {})
                                  /\ durable[k] \in Stored /\ Traced(k, durable[k].answer)
      BY <1>10, Answers DEF Busts, Copies
    <3>2. /\ \A c : c = valkey[k] /\ c # None => Pending(k, c, {"purge"})'
          /\ \A c : c = durable[k] /\ c # None => Pending(k, c, {})'
      BY <2>5, <3>1
    <3>3. QED
      BY <1>1, <3>2
  <2>7. QED
    BY <1>1, <1>10, <2>1, <2>2, <2>3, <2>4, <2>6 DEF Busts
<1>11. QED
  BY <1>7, <1>9, <1>10 DEF Kept
-----------------------------------------------------------------------------
(* The invariants.                                                           *)

LEMMA CacheInit == Init => Types /\ Versions /\ Busts
<1> SUFFICES ASSUME Init PROVE Types /\ Versions /\ Busts
  OBVIOUS
<1>1. Cardinality(Op) \in Nat /\ Cardinality(Counted) \in Nat
  BY CacheAssumption, FS_Subset, FS_CardinalityType DEF Counted
<1>2. 0 \in Version
  BY <1>1 DEF Version
<1>3. Types
  BY <1>1, <1>2
  DEF Init, Types, StoreTypes, MetaTypes, RequestTypes, OperationTypes, HistoryTypes, RequestOK,
      OperationOK, Known
<1>4. \A k \in Key : Copies(k) = {}
  BY DEF Init, Copies
<1>5. Versions
  BY <1>2, <1>4 DEF Init, Versions, RequestBehind, OperationBehind
<1>6. Busts
  BY <1>4 DEF Init, Busts
<1>7. QED
  BY <1>3, <1>5, <1>6

(* Every step keeps the types and the busts, and the versions unless it loses
   the counter. *)
LEMMA CacheNext ==
    ASSUME Types, [Next]_vars
    PROVE  Types' /\ (Busts => Busts') /\ ("counter" \notin Losable /\ Versions => Versions')
<1>1. CASE UNCHANGED vars
  <2>1. UNCHANGED <<valkey, durable, writes, counter, index, verCache, req, op, data, config,
                    epoch, tagged, cleared, configAt, known>>
    BY <1>1 DEF vars, store, meta, history
  <2>2. Types'
    BY <2>1 DEF Types, StoreTypes, MetaTypes, Counted, RequestTypes, OperationTypes, HistoryTypes
  <2>3. \A k \in Key : Copies(k)' = Copies(k)
    BY <2>1 DEF Copies
  <2>4. Versions => Versions'
    BY <2>1, <2>3 DEF Versions
  <2>5. ASSUME Busts PROVE Busts'
    <3>1. \A k, answer : Traced(k, answer)' <=> Traced(k, answer)
      BY <2>1 DEF Traced, Keys, KeyOf
    <3>2. \A k, c, passed : Pending(k, c, passed)' <=> Pending(k, c, passed)
      BY <2>1, StillPending
    <3>3. /\ \A k \in Key : valkey'[k] # None => Pending(k, valkey[k], {"purge"})'
          /\ \A k \in Key : durable'[k] # None => Pending(k, durable[k], {})'
      BY <2>1, <2>5, <3>2 DEF Busts
    <3>4. QED
      BY <2>1, <2>3, <2>5, <3>1, <3>3 DEF Busts
  <2>6. QED
    BY <2>2, <2>4, <2>5
<1>2. CASE Kept
  BY <1>2 DEF Kept
<1>3. ASSUME NEW r \in Request, Process(r) PROVE Kept
  BY <1>3, ArriveKept, VersionKept, LookupValkeyKept, LookupDurableKept, GenerateKept, PopulateKept,
     TagKept, FinishKept DEF Process
<1>4. ASSUME NEW o \in Op, Handle(o) PROVE Kept
  BY <1>4, BeginKept, IncrementKept, StoreVersionKept, PopKept, DeleteKept, PurgeKept, FlushKept
  DEF Handle
<1>5. ASSUME NEW g \in Gateway, ForgetVersion(g) \/ Restart(g) PROVE Kept
  BY <1>5, ForgetKept, RestartKept
<1>6. CASE Write \/ ExpireRow \/ LoseAnswer \/ LoseIndex
  BY <1>2, <1>6, WriteKept, ExpireKept, LoseIndexKept
<1>7. CASE LoseCounter
  BY <1>7, LoseCounterKept DEF LoseCounter
<1>8. QED
  BY <1>1, <1>2, <1>3, <1>4, <1>5, <1>6, <1>7 DEF Next

LEMMA CacheTypes == Spec => []Types
<1>1. Init => Types
  BY CacheInit
<1>2. Types /\ [Next]_vars => Types'
  BY CacheNext
<1>3. QED
  BY <1>1, <1>2, PTL DEF Spec

LEMMA CacheVersions ==
    ASSUME "counter" \notin Losable
    PROVE  Spec => [](Types /\ Versions)
<1>1. Init => Types /\ Versions
  BY CacheInit
<1>2. Types /\ Versions /\ [Next]_vars => (Types /\ Versions)'
  BY CacheNext
<1>3. QED
  BY <1>1, <1>2, PTL DEF Spec

(* TypeOK, which the runs check: the stores, the index, the remembered
   versions and the writes hold what they may, the version never exceeds the
   number of operations, and a deletion always has keys (engine.go,
   invalidation.go). *)
THEOREM CacheTyping == Spec => []TypeOK
<1>1. Types => TypeOK
  <2> SUFFICES ASSUME Types PROVE TypeOK
    OBVIOUS
  <2>1. \A k \in Key : Copies(k) \subseteq Stored
    BY Answers
  <2>2. ASSUME NEW o \in Op, op[o].pc = "delete" PROVE op[o].keys # {}
    <3>1. op[o] \in Popped
      BY <2>2, PoppedOK
    <3>2. QED
      BY <3>1 DEF Popped
  <2>3. \A g \in Gateway : verCache[g] \in Version \cup {None}
    BY DEF Types, MetaTypes
  <2>4. QED
    BY <2>1, <2>2, <2>3, VersionInRange DEF TypeOK, Types, StoreTypes, MetaTypes
<1>2. QED
  BY <1>1, CacheTypes, PTL

(* While Valkey keeps the counter, what is stored or on its way under a
   version was answered under the configuration of that version or a later
   one (invalidation.go:122-143). *)
THEOREM Separation ==
    ASSUME "counter" \notin Losable
    PROVE  Spec => []VersionsSeparate
<1>1. Types /\ Versions => VersionsSeparate
  <2> SUFFICES ASSUME Types, Versions PROVE VersionsSeparate
    OBVIOUS
  <2>1. \A k \in Key : k.ver \in Version
    BY DEF Key
  <2>2. \A v \in Version : configAt[v] \in Nat
    BY DEF Types, HistoryTypes
  <2>3. \A a \in Answer : a.config \in Nat
    BY DEF Answer
  <2>4. ASSUME NEW k \in Key, NEW a \in Answer, Filed(k, a, counter, configAt)
        PROVE  a.config >= configAt[k.ver]
    BY <2>1, <2>2, <2>3, <2>4 DEF Filed
  <2>5. QED
    BY <2>4, Answers DEF VersionsSeparate, Versions
<1>2. QED
  BY <1>1, CacheVersions, PTL

(* While Valkey keeps the counter, a request that reads the version from it
   is not served an answer from before a bump that had returned when it
   arrived (invalidation.go:122-143, engine.go). *)
THEOREM Hiding ==
    ASSUME "counter" \notin Losable
    PROVE  Spec => []BumpHides
<1>1. Types /\ Versions => BumpHides
  <2> SUFFICES ASSUME Types, Versions, NEW r \in Request, req[r].pc = "hit", req[r].via = "valkey"
               PROVE  req[r].answer.config >= req[r].floor.config
    BY DEF BumpHides
  <2>1. req[r].floor.config <= req[r].answer.config
    BY DEF Versions, RequestBehind
  <2>2. req[r] \in Found
    BY DEF Types, RequestTypes, RequestOK, Arrived, Versioned, Asking, Storing
  <2>3. req[r].floor.config \in Nat /\ req[r].answer.config \in Nat
    BY <2>2 DEF Found, Known, Answer
  <2>4. QED
    BY <2>1, <2>3
<1>2. QED
  BY <1>1, CacheVersions, PTL

(* A copy stored in the epoch of the index in which its request tagged a tool
   is in neither store once the event that emptied that epoch has returned
   (invalidation.go:164-181), whatever fails, restarts or is lost. *)
THEOREM Gone == Spec => []BustedCopiesGone
<1>1. Init => Types /\ Busts
  BY CacheInit
<1>2. Types /\ Busts /\ [Next]_vars => (Types /\ Busts)'
  BY CacheNext
<1>3. Busts => BustedCopiesGone
  BY DEF Busts, BustedCopiesGone, Copies, Pending
<1>4. QED
  BY <1>1, <1>2, <1>3, PTL DEF Spec
=============================================================================
