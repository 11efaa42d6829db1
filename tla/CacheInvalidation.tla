------------------------- MODULE CacheInvalidation -------------------------
(***************************************************************************)
(* The answer cache of one organisation (internal/engine/engine.go) and    *)
(* its invalidation (internal/invalidation/invalidation.go): requests look *)
(* keys up in Valkey, then in the durable table, or generate an answer and *)
(* store it under every key of their prompt; events bump the cache version *)
(* or bust the keys of a tool; flushes empty both stores.  Goroutines of   *)
(* their own write the durable rows and copy them back into Valkey.        *)
(*                                                                         *)
(* What an answer says is what it rests on: the revision of each tool's    *)
(* data and of the configuration.  Revisions are not known to the code.    *)
(***************************************************************************)
EXTENDS Integers, Sequences, FiniteSets, SequencesExt

CONSTANTS Gateway,      \* gateway processes, sharing Valkey and Postgres
          Request,      \* requests, each served at most once
          Slot,         \* cache keys up to their version segment
          Prompts,      \* the slots a prompt is looked up or stored under
          Tool,
          Op,           \* events and flushes, each handled at most once
          Kind,         \* Kind[o]: "config", "tool" or "flush"
          Tools,        \* Tools[o]: the tool_ids of event o
          None,         \* no entry
          Faults,       \* whether calls to Valkey and Postgres may fail
          Losable,      \* what Valkey may evict, expire or lose
          MaxRestarts   \* bound on restarts of gateways

(* handler.go:43 refuses a tool event that names no tool. *)
ASSUME CacheAssumption ==
  /\ Prompts \subseteq Seq(Slot) \ {<<>>}
  /\ IsFiniteSet(Op)
  /\ Kind \in [Op -> {"config", "tool", "flush"}] /\ Tools \in [Op -> Seq(Tool)]
  /\ \A o \in Op : Kind[o] = "tool" => Tools[o] # <<>>
  /\ None \notin Nat
  /\ Faults \in BOOLEAN /\ Losable \subseteq {"answer", "index", "counter"}

VARIABLES valkey,    \* valkey[k]: the answer stored at k
          durable,   \* durable[k]: the live row of persistent_cache
          counter,   \* cachever:{org}, 0 when missing
          index,     \* index[t]: the set toolkeys:{org}:{t}
          verCache,  \* verCache[g]: the unexpired version in g's memory
          writes,    \* goroutines about to write an answer
          req,       \* req[r]: the request in Process
          op,        \* op[o]: the event or flush in its handler
          data,      \* data[t]: the revision of t's data
          config,    \* the revision of the configuration
          restarts,
          epoch,     \* history: epoch[t]: how often index[t] was emptied
          tagged,    \* history: tagged[r][t]: the epoch in which r tagged t
          cleared,   \* history: <<t, n>>: what epoch n of t tagged was busted
          configAt,  \* history: configAt[v]: configuration when v was reached
          known      \* history: revisions whose event or bump has returned

store == <<valkey, durable, writes>>
meta == <<counter, index, verCache>>
history == <<epoch, tagged, cleared, configAt, known>>
vars == <<store, meta, req, op, data, config, restarts, history>>

Version == 0..Cardinality(Op)      \* 0 is the empty version, of no segment
Key == [ver : Version, slot : Slot]

Init ==
  /\ valkey = [k \in Key |-> None] /\ durable = [k \in Key |-> None]
  /\ counter = 0 /\ index = [t \in Tool |-> {}]
  /\ verCache = [g \in Gateway |-> None]
  /\ writes = {}
  /\ req = [r \in Request |-> [pc |-> "idle"]]
  /\ op = [o \in Op |-> [pc |-> "idle"]]
  /\ data = [t \in Tool |-> 0] /\ config = 0 /\ restarts = 0
  /\ epoch = [t \in Tool |-> 0]
  /\ tagged = [r \in Request |-> [t \in Tool |-> None]]
  /\ cleared = {}
  /\ configAt = [v \in Version |-> 0]
  /\ known = [data |-> [t \in Tool |-> 0], config |-> 0]

Goto(r, pc) == req' = [req EXCEPT ![r].pc = pc]
OpGoto(o, pc) == op' = [op EXCEPT ![o].pc = pc]

(* An answer as stored: with the epochs of its writing. *)
Copy(answer) == [answer |-> answer, epoch |-> epoch]

KeyOf(r, i) == [ver |-> req[r].ver, slot |-> req[r].slots[i]]
Keys(r) == {KeyOf(r, i) : i \in DOMAIN req[r].slots}
Here(r) == KeyOf(r, req[r].at)
----------------------------------------------------------------------------
(* Process reaches the cache; SkipCache skips the lookups only.  The last
   lookup may be for a similar prompt, so the slots of the lookups need not
   be those the answer is stored under. *)
Arrive(r) ==
  /\ req[r].pc = "idle"
  /\ \E g \in Gateway, slots, keep \in Prompts, skip \in BOOLEAN :
       req' = [req EXCEPT ![r] = [pc |-> "version", gw |-> g, slots |-> slots,
                                  keep |-> keep, skip |-> skip, floor |-> known]]
  /\ UNCHANGED <<store, meta, op, data, config, restarts, history>>

(* cacheVersion, once per request: from memory while that is young enough,
   else from Valkey, remembered; after an error the empty version. *)
WithVersionUnused(r, v, via) ==  \* mutant: the keys are built without the version
  req' = [req EXCEPT ![r] =
    [pc |-> IF @.skip THEN "generate" ELSE "valkey", gw |-> @.gw, slots |-> @.slots,
     keep |-> @.keep, at |-> 1, ver |-> 0, via |-> via, floor |-> @.floor]]

WithVersion(r, v, via) ==
  req' = [req EXCEPT ![r] =
    [pc |-> IF @.skip THEN "generate" ELSE "valkey", gw |-> @.gw, slots |-> @.slots,
     keep |-> @.keep, at |-> 1, ver |-> v, via |-> via, floor |-> @.floor]]

RememberedVersion(r) ==
  /\ req[r].pc = "version" /\ verCache[req[r].gw] # None
  /\ WithVersion(r, verCache[req[r].gw], "memory")
  /\ UNCHANGED <<store, meta, op, data, config, restarts, history>>

ReadVersion(r) ==
  /\ req[r].pc = "version" /\ verCache[req[r].gw] = None
  /\ \/ req' = [req EXCEPT ![r] = [pc |-> "remember", gw |-> @.gw, slots |-> @.slots,
                                   keep |-> @.keep, skip |-> @.skip, ver |-> counter,
                                   floor |-> @.floor]]
     \/ Faults /\ WithVersion(r, 0, "error")
  /\ UNCHANGED <<store, meta, op, data, config, restarts, history>>

RememberVersion(r) ==
  /\ req[r].pc = "remember"
  /\ verCache' = [verCache EXCEPT ![req[r].gw] = req[r].ver]
  /\ WithVersion(r, req[r].ver, "valkey")
  /\ UNCHANGED <<store, counter, index, op, data, config, restarts, history>>

(* Five seconds pass. *)
ForgetVersion(g) ==
  /\ verCache[g] # None
  /\ verCache' = [verCache EXCEPT ![g] = None]
  /\ UNCHANGED <<store, counter, index, req, op, data, config, restarts, history>>

(* A lookup in Valkey; an error counts as a miss. *)
Serve(r, answer) ==
  req' = [req EXCEPT ![r] = [pc |-> "hit", gw |-> @.gw, via |-> @.via,
                             floor |-> @.floor, answer |-> answer]]

LookupValkey(r) ==
  /\ req[r].pc = "valkey"
  /\ \/ valkey[Here(r)] # None /\ Serve(r, valkey[Here(r)].answer)
     \/ (valkey[Here(r)] = None \/ Faults) /\ Goto(r, "durable")
  /\ UNCHANGED <<store, meta, op, data, config, restarts, history>>

(* The fallback to the durable row, which a goroutine copies to Valkey; or
   the next key of the prompt; or, after the last, a generation. *)
LookupDurable(r) ==
  /\ req[r].pc = "durable"
  /\ \/ /\ durable[Here(r)] # None
        /\ Serve(r, durable[Here(r)].answer)
        /\ writes' = writes \cup {[to |-> "valkey", key |-> Here(r), gw |-> req[r].gw,
                                   answer |-> durable[Here(r)].answer]}
     \/ /\ durable[Here(r)] = None \/ Faults
        /\ req' = [req EXCEPT ![r].pc = IF @ = "durable" /\ req[r].at < Len(req[r].slots)
                                        THEN "valkey" ELSE "generate",
                              ![r].at = IF @ < Len(req[r].slots) THEN @ + 1 ELSE @]
        /\ UNCHANGED writes
  /\ UNCHANGED <<valkey, durable, meta, op, data, config, restarts, history>>

(* Tools run, the provider answers: what both saw is what the answer rests
   on.  Or it fails. *)
Generate(r) ==
  /\ req[r].pc = "generate"
  /\ \/ \E used \in SUBSET Tool :
          req' = [req EXCEPT ![r] =
            [pc |-> "populate", gw |-> @.gw, slots |-> @.keep, at |-> 1, ver |-> @.ver,
             untagged |-> used,
             answer |-> [by |-> r, tools |-> used, data |-> data, config |-> config]]]
     \/ Goto(r, "failed")
  /\ UNCHANGED <<store, meta, op, data, config, restarts, history>>

PopulateCurrent(r) ==            \* mutant: the version is read again for the write
  /\ req[r].pc = "populate"
  /\ valkey' = [valkey EXCEPT ![[Here(r) EXCEPT !.ver = counter]] = Copy(req[r].answer)]
  /\ req' = [req EXCEPT ![r].pc = "tag"]
  /\ UNCHANGED <<durable, writes, meta, op, data, config, restarts, history>>

(* One key of the answer: Valkey now, the durable row by a goroutine; the
   error of either is dropped. *)
Populate(r) ==
  /\ req[r].pc = "populate"
  /\ \/ valkey' = [valkey EXCEPT ![Here(r)] = Copy(req[r].answer)]
     \/ Faults /\ UNCHANGED valkey
  /\ writes' = writes \cup {[to |-> "durable", key |-> Here(r), gw |-> req[r].gw,
                             answer |-> req[r].answer]}
  /\ req' = [req EXCEPT ![r].pc = IF req[r].at < Len(req[r].slots) THEN "populate" ELSE "tag",
                        ![r].at = IF @ < Len(req[r].slots) THEN @ + 1 ELSE @]
  /\ UNCHANGED <<durable, meta, op, data, config, restarts, history>>

(* TagKeys, after every key is written: one SADD per tool, best effort. *)
Tag(r) ==
  /\ req[r].pc = "tag" /\ req[r].untagged # {}
  /\ \E t \in req[r].untagged :
       /\ req' = [req EXCEPT ![r].untagged = @ \ {t}]
       /\ \/ /\ index' = [index EXCEPT ![t] = @ \cup Keys(r)]
             /\ tagged' = [tagged EXCEPT ![r][t] = epoch[t]]
          \/ Faults /\ UNCHANGED <<index, tagged>>
  /\ UNCHANGED <<store, counter, verCache, op, data, config, restarts,
                 epoch, cleared, configAt, known>>

Finish(r) ==
  /\ req[r].pc = "tag" /\ req[r].untagged = {}
  /\ req' = [req EXCEPT ![r] = [pc |-> "generated"]]
  /\ UNCHANGED <<store, meta, op, data, config, restarts, history>>

(* A goroutine writes its answer, or fails and only logs it. *)
Write ==
  \E w \in writes :
    /\ writes' = writes \ {w}
    /\ \/ /\ w.to = "valkey"
          /\ valkey' = [valkey EXCEPT ![w.key] = Copy(w.answer)]
          /\ UNCHANGED durable
       \/ /\ w.to = "durable"
          /\ durable' = [durable EXCEPT ![w.key] = Copy(w.answer)]
          /\ UNCHANGED valkey
       \/ Faults /\ UNCHANGED <<valkey, durable>>
    /\ UNCHANGED <<meta, req, op, data, config, restarts, history>>
----------------------------------------------------------------------------
(* What is outside changes, and the handler of the event or flush starts:
   PUT /v1/settings/threshold stores the setting and then bumps; events say
   what has changed already. *)
Begin(o) ==
  /\ op[o].pc = "idle"
  /\ \E g \in Gateway :
       \/ /\ Kind[o] = "config"
          /\ config' = config + 1
          /\ op' = [op EXCEPT ![o] = [pc |-> "bump", gw |-> g, config |-> config']]
          /\ UNCHANGED data
       \/ /\ Kind[o] = "tool"
          /\ data' = [t \in Tool |-> IF t \in Range(Tools[o]) THEN data[t] + 1 ELSE data[t]]
          /\ op' = [op EXCEPT ![o] = [pc |-> "bust", gw |-> g, tools |-> Tools[o],
                                      data |-> data']]
          /\ UNCHANGED config
       \/ /\ Kind[o] = "flush"
          /\ op' = [op EXCEPT ![o] = [pc |-> "flush", gw |-> g]]
          /\ UNCHANGED <<data, config>>
  /\ UNCHANGED <<store, meta, req, restarts, history>>

(* The call failed; its handler answers with the error. *)
Fail(o, pcs) ==
  /\ Faults /\ op[o].pc \in pcs
  /\ OpGoto(o, "failed")

(* Bump: INCR, then the new version in this gateway's memory. *)
Increment(o) ==
  /\ op[o].pc = "bump"
  /\ counter' = counter + 1
  /\ configAt' = [configAt EXCEPT ![counter'] = config]
  /\ op' = [op EXCEPT ![o] = [pc |-> "remember", gw |-> @.gw, config |-> @.config,
                              ver |-> counter']]
  /\ UNCHANGED <<store, index, verCache, req, data, config, restarts,
                 epoch, tagged, cleared, known>>

StoreVersion(o) ==
  /\ op[o].pc = "remember"
  /\ verCache' = [verCache EXCEPT ![op[o].gw] = op[o].ver]
  /\ OpGoto(o, "done")
  /\ known' = [known EXCEPT !.config = IF @ < op[o].config THEN op[o].config ELSE @]
  /\ UNCHANGED <<store, counter, index, req, data, config, restarts,
                 epoch, tagged, cleared, configAt>>

(* InvalidateTool for the first tool left in the event: SPopAll; DelKeys;
   purgeDurable, whose error is only logged.  Nothing indexed, nothing to do. *)
NextTool(o, t, n) ==
  /\ op' = [op EXCEPT ![o] = [pc |-> IF Len(@.tools) = 1 THEN "done" ELSE "bust",
                              gw |-> @.gw, tools |-> Tail(@.tools), data |-> @.data]]
  /\ cleared' = cleared \cup {<<t, n>>}
  /\ known' = [known EXCEPT !.data[t] = IF @ < op[o].data[t] THEN op[o].data[t] ELSE @]

PopEmpty(o) ==                   \* mutant: nothing indexed is deleted all the same
  /\ op[o].pc = "bust"
  /\ LET t == Head(op[o].tools)
     IN /\ index' = [index EXCEPT ![t] = {}]
        /\ epoch' = [epoch EXCEPT ![t] = @ + 1]
        /\ op' = [op EXCEPT ![o] = [pc |-> "delete", gw |-> @.gw, tools |-> @.tools,
                    data |-> @.data, keys |-> index[t], epoch |-> epoch[t]]]
  /\ UNCHANGED <<store, counter, verCache, req, data, config, restarts,
                 tagged, cleared, configAt, known>>

Pop(o) ==
  /\ op[o].pc = "bust"
  /\ LET t == Head(op[o].tools)
     IN /\ index' = [index EXCEPT ![t] = {}]
        /\ epoch' = [epoch EXCEPT ![t] = @ + 1]
        /\ \/ /\ index[t] = {}
              /\ NextTool(o, t, epoch[t])
           \/ /\ index[t] # {}
              /\ op' = [op EXCEPT ![o] = [pc |-> "delete", gw |-> @.gw, tools |-> @.tools,
                          data |-> @.data, keys |-> index[t], epoch |-> epoch[t]]]
              /\ UNCHANGED <<cleared, known>>
  /\ UNCHANGED <<store, counter, verCache, req, data, config, restarts, tagged, configAt>>

Delete(o) ==
  /\ op[o].pc = "delete"
  /\ valkey' = [k \in Key |-> IF k \in op[o].keys THEN None ELSE valkey[k]]
  /\ OpGoto(o, "purge")
  /\ UNCHANGED <<durable, writes, meta, req, data, config, restarts, history>>

PurgeNothing(o) ==               \* mutant: the durable rows are left
  /\ op[o].pc = "purge"
  /\ NextTool(o, Head(op[o].tools), op[o].epoch)
  /\ UNCHANGED <<store, meta, req, data, config, restarts, epoch, tagged, configAt>>

Purge(o) ==
  /\ op[o].pc = "purge"
  /\ \/ /\ durable' = [k \in Key |-> IF k \in op[o].keys THEN None ELSE durable[k]]
        /\ NextTool(o, Head(op[o].tools), op[o].epoch)
     \/ /\ Faults
        /\ op' = [op EXCEPT ![o] = [pc |-> IF Len(@.tools) = 1 THEN "done" ELSE "bust",
                                    gw |-> @.gw, tools |-> Tail(@.tools), data |-> @.data]]
        /\ UNCHANGED <<durable, cleared, known>>
  /\ UNCHANGED <<valkey, writes, meta, req, data, config, restarts, epoch, tagged, configAt>>

(* POST /v1/cache/flush: the keys of the organisation, some of which stay when
   a DEL fails, then, unless the scope is valkey, its durable rows.  An error
   of either deletion is answered like a success. *)
FlushValkey(o) ==
  /\ op[o].pc = "flush"
  /\ \E kept \in IF Faults THEN SUBSET {k \in Key : valkey[k] # None} ELSE {{}} :
       valkey' = [k \in Key |-> IF k \in kept THEN valkey[k] ELSE None]
  /\ \E pc \in {"flushdb", "done"} : OpGoto(o, pc)
  /\ UNCHANGED <<durable, writes, meta, req, data, config, restarts, history>>

FlushDurable(o) ==
  /\ op[o].pc = "flushdb"
  /\ \/ durable' = [k \in Key |-> None]
     \/ Faults /\ UNCHANGED durable
  /\ OpGoto(o, "done")
  /\ UNCHANGED <<valkey, writes, meta, req, data, config, restarts, history>>

OpFails(o) ==
  /\ Fail(o, {"bump", "bust", "delete", "flush"})
  /\ UNCHANGED <<store, meta, req, data, config, restarts, history>>
----------------------------------------------------------------------------
(* A durable row expires; Valkey expires or evicts a key, or loses it when it
   is restarted.  The end of an index begins an epoch nobody busts. *)
ExpireRow ==
  /\ \E k \in Key : durable[k] # None /\ durable' = [durable EXCEPT ![k] = None]
  /\ UNCHANGED <<valkey, writes, meta, req, op, data, config, restarts, history>>

LoseAnswer ==
  /\ "answer" \in Losable
  /\ \E k \in Key : valkey[k] # None /\ valkey' = [valkey EXCEPT ![k] = None]
  /\ UNCHANGED <<durable, writes, meta, req, op, data, config, restarts, history>>

LoseIndex ==
  /\ "index" \in Losable
  /\ \E t \in Tool :
       /\ index[t] # {}
       /\ index' = [index EXCEPT ![t] = {}]
       /\ epoch' = [epoch EXCEPT ![t] = @ + 1]
  /\ UNCHANGED <<store, counter, verCache, req, op, data, config, restarts,
                 tagged, cleared, configAt, known>>

LoseCounter ==
  /\ "counter" \in Losable
  /\ counter # 0 /\ counter' = 0
  /\ UNCHANGED <<store, index, verCache, req, op, data, config, restarts, history>>

(* A gateway dies with its requests, handlers and goroutines, and starts
   again: WarmCache copies the durable rows it reads back to Valkey. *)
Running(x) == x.pc \notin {"idle", "hit", "generated", "failed", "done", "lost"}

Restart(g) ==
  /\ restarts < MaxRestarts
  /\ restarts' = restarts + 1
  /\ req' = [r \in Request |-> IF Running(req[r]) /\ req[r].gw = g
                               THEN [pc |-> "lost"] ELSE req[r]]
  /\ op' = [o \in Op |-> IF Running(op[o]) /\ op[o].gw = g
                         THEN [op[o] EXCEPT !.pc = "lost"] ELSE op[o]]
  /\ verCache' = [verCache EXCEPT ![g] = None]
  /\ writes' = {w \in writes : w.gw # g} \cup
               {[to |-> "valkey", key |-> k, gw |-> g, answer |-> durable[k].answer] :
                  k \in {k \in Key : durable[k] # None}}
  /\ UNCHANGED <<valkey, durable, counter, index, data, config, history>>

Process(r) ==
  \/ Arrive(r) \/ RememberedVersion(r) \/ ReadVersion(r) \/ RememberVersion(r)
  \/ LookupValkey(r) \/ LookupDurable(r) \/ Generate(r)
  \/ Populate(r) \/ Tag(r) \/ Finish(r)

Handle(o) ==
  \/ Begin(o) \/ Increment(o) \/ StoreVersion(o)
  \/ Pop(o) \/ Delete(o) \/ Purge(o) \/ FlushValkey(o) \/ FlushDurable(o) \/ OpFails(o)

Next ==
  \/ \E r \in Request : Process(r)
  \/ \E o \in Op : Handle(o)
  \/ \E g \in Gateway : ForgetVersion(g) \/ Restart(g)
  \/ Write \/ ExpireRow \/ LoseAnswer \/ LoseIndex \/ LoseCounter

Spec == Init /\ [][Next]_vars
----------------------------------------------------------------------------
Answer == [by : Request, tools : SUBSET Tool, data : [Tool -> Nat], config : Nat]
Stored == [answer : Answer, epoch : [Tool -> Nat]]
Copies(k) == {valkey[k], durable[k]} \ {None}

TypeOK ==
  /\ \A k \in Key : Copies(k) \subseteq Stored
  /\ counter \in Version
  /\ index \in [Tool -> SUBSET Key]
  /\ \A g \in Gateway : verCache[g] \in Version \cup {None}
  /\ writes \subseteq [to : {"valkey", "durable"}, key : Key, gw : Gateway, answer : Answer]
  /\ \A o \in Op : op[o].pc = "delete" => op[o].keys # {}

(* invalidation.go:122-143: what is stored, or about to be, under a version
   was answered under the configuration that version was reached with, or a
   later one: entries from before a bump have another key. *)
VersionsSeparate ==
  /\ \A k \in Key : \A c \in Copies(k) : c.answer.config >= configAt[k.ver]
  /\ \A w \in writes : w.answer.config >= configAt[w.key.ver]

(* A request that arrives after a bump has returned and that reads the
   version from Valkey is not served an answer from before the bump,
   whatever was in flight. *)
BumpHides ==
  \A r \in Request :
    req[r].pc = "hit" /\ req[r].via = "valkey"
      => req[r].answer.config >= req[r].floor.config

(* invalidation.go:164-181: a copy of an answer stored in the epoch of the
   index in which its request tagged a tool is in neither store once the
   event that emptied that epoch has returned, its purge included. *)
BustedCopiesGone ==
  \A k \in Key : \A c \in Copies(k) : \A t \in c.answer.tools :
    tagged[c.answer.by][t] = c.epoch[t] => <<t, c.epoch[t]>> \notin cleared

(* invalidation.go:130-131: Bump is "immediately making all previously cached
   entries for that org unreachable". *)
BumpIsImmediate ==
  \A r \in Request : req[r].pc = "hit" => req[r].answer.config >= req[r].floor.config

(* cache-invalidation.md:6-7: "Memzent layers several complementary
   mechanisms so stale answers are not served": after an event has returned,
   none that rests on what its tool said before. *)
NoStaleAfterBust ==
  \A r \in Request :
    req[r].pc = "hit" => \A t \in req[r].answer.tools :
                           req[r].answer.data[t] >= req[r].floor.data[t]

(* cache-invalidation.md:52-54: "when a fresh response is cached, every tool
   that contributed output is recorded in a Valkey set ... pointing at the
   written cache keys": so when nothing is in flight, the next event of a
   tool finds every stored answer that rests on it. *)
Quiet == /\ writes = {}
         /\ \A r \in Request : ~Running(req[r])
         /\ \A o \in Op : ~Running(op[o])

StoredAreIndexed ==
  Quiet => \A k \in Key : \A c \in Copies(k) : \A t \in c.answer.tools : k \in index[t]
============================================================================
