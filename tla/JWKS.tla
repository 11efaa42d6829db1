-------------------------------- MODULE JWKS --------------------------------
(***************************************************************************)
(* The verification keys of JWTs (internal/auth/jwks.go): a map from key   *)
(* ids to keys, filled with a seed at start and merged with what the       *)
(* identity provider publishes when a token names an unknown key id.       *)
(*                                                                         *)
(* A lookup reads the map under the read lock, decides under the write     *)
(* lock whether to refresh, fetches without any lock, merges under the     *)
(* write lock, and reads again: other lookups run in between.              *)
(***************************************************************************)
EXTENDS Integers, FiniteSets

CONSTANTS Lookup,      \* calls of GetKey, each made at most once
          Kid, Key,
          None,        \* no key
          Seed,        \* Seed[k]: the key seeded for k at start
          Gap,         \* between two refreshes
          Timeout,     \* of a fetch
          MaxTime,     \* bound on the clock
          MaxChanges   \* bound on the changes the provider makes

Time == 0..MaxTime
KeySet == [Kid -> Key \cup {None}]
Fetch == [begun : Time, reply : KeySet \cup {None}]

ASSUME NoneAssumption == None \notin Key /\ None \notin KeySet /\ None \notin Fetch
ASSUME SeedAssumption == Seed \in KeySet
ASSUME TimeAssumption ==
  Gap \in Nat \ {0} /\ Timeout \in Nat /\ MaxTime \in Nat /\ MaxChanges \in Nat

VARIABLES now,
          keys,        \* keys[k]: the key in the map
          lastMod,     \* when the last refresh was begun
          lookup,      \* lookup[l]: the call of GetKey
          fetch,       \* fetch[l]: its request to the provider and the answer
          published,   \* published[k]: the usable key the provider publishes
          changes,
          history      \* history: history[k]: every key published for k

vars == <<now, keys, lastMod, lookup, fetch, published, changes, history>>
provider == <<published, changes, history>>

LongAgo == -Gap                  \* the zero time

Init ==
  /\ now = 0
  /\ keys = Seed
  /\ lastMod = LongAgo
  /\ lookup = [l \in Lookup |-> [pc |-> "idle", kid |-> None, asked |-> 0, key |-> None]]
  /\ fetch = [l \in Lookup |-> None]
  /\ published \in KeySet
  /\ changes = 0
  /\ history = [k \in Kid |-> {published[k]}]

Goto(l, pc) == lookup' = [lookup EXCEPT ![l].pc = pc]
Return(l, k) == lookup' = [lookup EXCEPT ![l].pc = "found", ![l].kid = k, ![l].key = keys[k]]
----------------------------------------------------------------------------
(* GetKey reads the map: an unknown key id is looked for at the provider. *)
GetKey(l) ==
  /\ lookup[l].pc = "idle"
  /\ \E k \in Kid :
       \/ keys[k] # None /\ Return(l, k)
       \/ /\ keys[k] = None
          /\ lookup' = [lookup EXCEPT ![l].pc = "refresh", ![l].kid = k]
  /\ UNCHANGED <<now, keys, lastMod, fetch, provider>>

(* Refresh does nothing when one was begun less than Gap ago. *)
SkipRefreshLate(l) ==            \* mutant: nor when it was begun Gap ago
  /\ lookup[l].pc = "refresh" /\ now - lastMod <= Gap
  /\ lookup' = [lookup EXCEPT ![l].pc = "again", ![l].asked = now]
  /\ UNCHANGED <<now, keys, lastMod, fetch, provider>>

SkipRefresh(l) ==
  /\ lookup[l].pc = "refresh" /\ now - lastMod < Gap
  /\ lookup' = [lookup EXCEPT ![l].pc = "again", ![l].asked = now]
  /\ UNCHANGED <<now, keys, lastMod, fetch, provider>>

(* Else it notes the time and sends its request, out of the lock. *)
BeginAndForget(l) ==             \* mutant: the time is not noted
  /\ lookup[l].pc = "refresh" /\ now - lastMod >= Gap
  /\ lookup' = [lookup EXCEPT ![l].pc = "fetch", ![l].asked = now]
  /\ fetch' = [fetch EXCEPT ![l] = [begun |-> now, reply |-> None]]
  /\ UNCHANGED <<now, keys, lastMod, provider>>

BeginRefresh(l) ==
  /\ lookup[l].pc = "refresh" /\ now - lastMod >= Gap
  /\ lastMod' = now
  /\ lookup' = [lookup EXCEPT ![l].pc = "fetch", ![l].asked = now]
  /\ fetch' = [fetch EXCEPT ![l] = [begun |-> now, reply |-> None]]
  /\ UNCHANGED <<now, keys, provider>>

(* The provider answers with what it publishes; an answer other than 200 is
   no error, a failed request or body is. *)
Respond(l) ==
  /\ lookup[l].pc = "fetch"
  /\ \/ /\ Goto(l, "merge")
        /\ fetch' = [fetch EXCEPT ![l].reply = published]
     \/ Goto(l, "again") /\ UNCHANGED fetch
     \/ Goto(l, "failed") /\ UNCHANGED fetch
  /\ UNCHANGED <<now, keys, lastMod, provider>>

(* The answer is merged into the map: nothing is taken out. *)
Merge(l) ==
  /\ lookup[l].pc = "merge"
  /\ keys' = [k \in Kid |-> IF fetch[l].reply[k] = None THEN keys[k]
                             ELSE fetch[l].reply[k]]
  /\ Goto(l, "again")
  /\ UNCHANGED <<now, lastMod, fetch, provider>>

(* After Refresh the map is read once more. *)
FoundUnchecked(l) ==             \* mutant: the second read takes what it gets
  /\ lookup[l].pc = "again"
  /\ Return(l, lookup[l].kid)
  /\ UNCHANGED <<now, keys, lastMod, fetch, provider>>

Found(l) ==
  /\ lookup[l].pc = "again" /\ keys[lookup[l].kid] # None
  /\ Return(l, lookup[l].kid)
  /\ UNCHANGED <<now, keys, lastMod, fetch, provider>>

NotFoundRetried(l) ==            \* mutant: the lookup goes on until the key is there
  /\ lookup[l].pc = "again" /\ keys[lookup[l].kid] = None
  /\ Goto(l, "refresh")
  /\ UNCHANGED <<now, keys, lastMod, fetch, provider>>

NotFound(l) ==
  /\ lookup[l].pc = "again" /\ keys[lookup[l].kid] = None
  /\ Goto(l, "unknown")
  /\ UNCHANGED <<now, keys, lastMod, fetch, provider>>

(* The provider publishes, replaces or withdraws a key. *)
Publish ==
  /\ changes < MaxChanges
  /\ \E k \in Kid, key \in Key \cup {None} :
       /\ published' = [published EXCEPT ![k] = key]
       /\ history' = [history EXCEPT ![k] = @ \cup {key}]
  /\ changes' = changes + 1
  /\ UNCHANGED <<now, keys, lastMod, lookup, fetch>>

(* A request is given up after Timeout. *)
Tick ==
  /\ now < MaxTime
  /\ \A l \in Lookup : lookup[l].pc = "fetch" => now - fetch[l].begun < Timeout
  /\ now' = now + 1
  /\ UNCHANGED <<keys, lastMod, lookup, fetch, provider>>

Step(l) ==
  \/ SkipRefresh(l) \/ BeginRefresh(l) \/ Respond(l) \/ Merge(l)
  \/ Found(l) \/ NotFound(l)

Next ==
  \/ \E l \in Lookup : GetKey(l) \/ Step(l)
  \/ Publish \/ Tick

(* A goroutine that has begun goes on. *)
Fairness == \A l \in Lookup : WF_vars(Step(l))

Spec == Init /\ [][Next]_vars /\ Fairness
----------------------------------------------------------------------------
Call ==
  [pc : {"idle", "refresh", "fetch", "merge", "again", "found", "unknown", "failed"},
   kid : Kid \cup {None}, asked : Time, key : Key \cup {None}]

TypeOK ==
  /\ now \in Time
  /\ keys \in KeySet
  /\ lastMod \in Time \cup {LongAgo}
  /\ lookup \in [Lookup -> Call]
  /\ fetch \in [Lookup -> Fetch \cup {None}]
  /\ published \in KeySet
  /\ changes \in 0..MaxChanges
  /\ history \in [Kid -> SUBSET (Key \cup {None})]

(* The provider is spared (jwks.go:92): no two requests to it are begun less
   than Gap apart, however many tokens name unknown keys at once. *)
RefreshesSpaced ==
  \A l, m \in Lookup :
    l # m /\ fetch[l] # None /\ fetch[m] # None =>
      \/ fetch[l].begun - fetch[m].begun >= Gap
      \/ fetch[m].begun - fetch[l].begun >= Gap

(* GetKey returns no key but one that was seeded, or published at some time,
   for the key id that was asked for. *)
FoundAreGenuine ==
  \A l \in Lookup : lookup[l].pc = "found" =>
    lookup[l].key \in ({Seed[lookup[l].kid]} \cup history[lookup[l].kid]) \ {None}

(* A key id once known stays known: the seed works whatever the provider
   publishes and whatever answers overtake each other (jwks.go:52-55). *)
KeysStay == [][\A k \in Kid : keys[k] # None => keys'[k] # None]_vars

(* A key id is called unknown only after the provider was tried less than
   Gap before the map was last read in vain, and that attempt failed, is
   still under way, or answered without the key. *)
RefusedAfterTrying ==
  [][\A l \in Lookup : lookup[l].pc # "unknown" /\ lookup'[l].pc = "unknown" =>
       \E m \in Lookup :
         /\ fetch[m] # None
         /\ fetch[m].begun <= lookup[l].asked /\ lookup[l].asked - fetch[m].begun < Gap
         /\ \/ lookup[m].pc \in {"fetch", "merge"}
            \/ fetch[m].reply = None
            \/ fetch[m].reply[lookup[l].kid] = None]_vars

(* Every call of GetKey returns, whatever the provider does. *)
LookupsReturn ==
  \A l \in Lookup :
    lookup[l].pc = "refresh" ~> lookup[l].pc \in {"found", "unknown", "failed"}
=============================================================================
