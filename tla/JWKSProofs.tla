----------------------------- MODULE JWKSProofs -----------------------------
(***************************************************************************)
(* JWKS for every number of lookups, key ids and keys, and every provider: *)
(* requests to it are spaced, keys are genuine and stay, and a key id is   *)
(* called unknown only after an attempt to find it.                        *)
(***************************************************************************)
EXTENDS JWKS, TLAPS

(* A call has a key id once it asks, and a request once it fetches. *)
Asked ==
  \A l \in Lookup :
    /\ lookup[l].pc \in {"refresh", "fetch", "merge", "again"} => lookup[l].kid \in Kid
    /\ lookup[l].pc \in {"idle", "refresh"} => fetch[l] = None
    /\ lookup[l].pc \in {"fetch", "merge"} => fetch[l] # None
    /\ lookup[l].pc = "fetch" => fetch[l].reply = None
    /\ lookup[l].pc = "merge" => fetch[l].reply # None

(* lastMod is the time of the latest request. *)
Noted ==
  /\ lastMod <= now
  /\ \A l \in Lookup : fetch[l] # None => fetch[l].begun <= lastMod
  /\ lastMod # LongAgo =>
       \E l \in Lookup : fetch[l] # None /\ fetch[l].begun = lastMod

(* Every key in the map, under way or published is genuine. *)
Genuine ==
  \A k \in Kid :
    /\ keys[k] \in {Seed[k], None} \cup history[k]
    /\ published[k] \in history[k]
    /\ \A l \in Lookup : fetch[l] # None /\ fetch[l].reply # None =>
         fetch[l].reply[k] \in history[k]

(* What an answer brought is in the map, once it is merged. *)
Merged ==
  \A l \in Lookup :
    fetch[l] # None /\ fetch[l].reply # None /\ lookup[l].pc # "merge" =>
      \A k \in Kid : fetch[l].reply[k] # None => keys[k] # None

(* A call that will read the map again looked for a recent request, or made
   it. *)
Recent ==
  \A l \in Lookup : lookup[l].pc \in {"fetch", "merge", "again"} =>
    \E m \in Lookup :
      /\ fetch[m] # None
      /\ fetch[m].begun <= lookup[l].asked
      /\ lookup[l].asked - fetch[m].begun < Gap

(* The inductive invariant. *)
Inv == /\ TypeOK /\ Asked /\ Noted /\ Genuine /\ Merged /\ Recent
       /\ RefreshesSpaced /\ FoundAreGenuine

(* The inductive invariant holds when nobody has called GetKey yet. *)
THEOREM InvInit == Init => Inv
BY SeedAssumption, TimeAssumption, NoneAssumption
   DEF Init, Inv, TypeOK, Call, Asked, Noted, Genuine, Merged, Recent, RefreshesSpaced,
       FoundAreGenuine, KeySet, Time, LongAgo

(* What returning a key does. *)
LEMMA Returned ==
  ASSUME lookup \in [Lookup -> Call], NEW l \in Lookup, NEW k \in Kid,
         keys[k] \in Key \cup {None}, Return(l, k)
  PROVE  /\ lookup' \in [Lookup -> Call]
         /\ lookup'[l].pc = "found" /\ lookup'[l].kid = k /\ lookup'[l].key = keys[k]
         /\ \A m \in Lookup : m # l => lookup'[m] = lookup[m]
<1>1. lookup' = [lookup EXCEPT ![l] = [@ EXCEPT !.pc = "found", !.kid = k, !.key = keys[k]]]
  BY DEF Return
<1> DEFINE c == [lookup[l] EXCEPT !.pc = "found", !.kid = k, !.key = keys[k]]
<1>2. c \in Call /\ c.pc = "found" /\ c.kid = k /\ c.key = keys[k]
  BY DEF Call
<1>3. lookup' = [lookup EXCEPT ![l] = c]
  BY <1>1
<1> HIDE DEF c
<1>4. QED
  BY <1>2, <1>3

(* What moving a call on, and noting when it asked, does. *)
LEMMA Noticed ==
  ASSUME lookup \in [Lookup -> Call], now \in Time, NEW l \in Lookup,
         NEW pc \in {"fetch", "again"},
         lookup' = [lookup EXCEPT ![l].pc = pc, ![l].asked = now]
  PROVE  /\ lookup' \in [Lookup -> Call]
         /\ lookup'[l].pc = pc /\ lookup'[l].asked = now
         /\ lookup'[l].kid = lookup[l].kid /\ lookup'[l].key = lookup[l].key
         /\ \A m \in Lookup : m # l => lookup'[m] = lookup[m]
<1> DEFINE c == [lookup[l] EXCEPT !.pc = pc, !.asked = now]
<1>1. c \in Call /\ c.pc = pc /\ c.asked = now /\ c.kid = lookup[l].kid /\ c.key = lookup[l].key
  BY DEF Call
<1>2. lookup' = [lookup EXCEPT ![l] = c]
  OBVIOUS
<1> HIDE DEF c
<1>3. QED
  BY <1>1, <1>2

(* What going to the provider for a key does. *)
LEMMA Sought ==
  ASSUME lookup \in [Lookup -> Call], NEW l \in Lookup, NEW k \in Kid,
         lookup' = [lookup EXCEPT ![l].pc = "refresh", ![l].kid = k]
  PROVE  /\ lookup' \in [Lookup -> Call]
         /\ lookup'[l].pc = "refresh" /\ lookup'[l].kid = k
         /\ \A m \in Lookup : m # l => lookup'[m] = lookup[m]
<1> DEFINE c == [lookup[l] EXCEPT !.pc = "refresh", !.kid = k]
<1>1. c \in Call /\ c.pc = "refresh" /\ c.kid = k
  BY DEF Call
<1>2. lookup' = [lookup EXCEPT ![l] = c]
  OBVIOUS
<1> HIDE DEF c
<1>3. QED
  BY <1>1, <1>2

(* Calls that only change their own state: they need TypeOK and Asked of it,
   and a key that is genuine when they return one. *)
LEMMA LookupStep ==
  ASSUME Inv, NEW l \in Lookup,
         GetKey(l) \/ SkipRefresh(l) \/ Found(l) \/ NotFound(l)
  PROVE  Inv'
<1>1. UNCHANGED <<now, keys, lastMod, fetch, published, changes, history>>
  BY DEF GetKey, SkipRefresh, Found, NotFound, provider
<1>2. /\ lookup' \in [Lookup -> Call]
      /\ \A m \in Lookup : m # l => lookup'[m] = lookup[m]
      /\ lookup'[l].pc \in {"refresh", "again", "found", "unknown"}
      /\ lookup'[l].pc \in {"refresh", "again"} => lookup'[l].kid \in Kid
      /\ lookup'[l].pc = "refresh" => lookup[l].pc = "idle"
      /\ lookup[l].pc \in {"idle", "refresh", "again"}
      /\ lookup'[l].pc = "again" =>
           lookup[l].pc = "refresh" /\ lookup'[l].asked = now /\ now - lastMod < Gap
      /\ lookup'[l].pc = "found" =>
           /\ lookup'[l].key = keys[lookup'[l].kid]
           /\ lookup'[l].kid \in Kid /\ lookup'[l].key # None
  <2>0. lookup \in [Lookup -> Call] /\ keys \in KeySet /\ now \in Time
    BY DEF Inv, TypeOK
  <2>1. CASE GetKey(l)
    <3>1. PICK k \in Kid :
            \/ keys[k] # None /\ Return(l, k)
            \/ /\ keys[k] = None
               /\ lookup' = [lookup EXCEPT ![l].pc = "refresh", ![l].kid = k]
      BY <2>1 DEF GetKey
    <3>2. lookup[l].pc = "idle" /\ keys[k] \in Key \cup {None}
      BY <2>0, <2>1 DEF GetKey, KeySet
    <3>3. CASE keys[k] # None /\ Return(l, k)
      BY <2>0, <3>2, <3>3, Returned
    <3>4. CASE lookup' = [lookup EXCEPT ![l].pc = "refresh", ![l].kid = k]
      BY <2>0, <3>2, <3>4, Sought
    <3>. QED
      BY <3>1, <3>3, <3>4
  <2>2. CASE SkipRefresh(l)
    <3>1. /\ lookup[l].pc = "refresh" /\ now - lastMod < Gap
          /\ lookup' = [lookup EXCEPT ![l].pc = "again", ![l].asked = now]
      BY <2>2 DEF SkipRefresh
    <3>2. /\ lookup' \in [Lookup -> Call]
          /\ lookup'[l].pc = "again" /\ lookup'[l].asked = now
          /\ lookup'[l].kid = lookup[l].kid
          /\ \A m \in Lookup : m # l => lookup'[m] = lookup[m]
      BY <2>0, <3>1, Noticed
    <3>3. lookup[l].kid \in Kid
      BY <3>1 DEF Inv, Asked
    <3>4. QED
      BY <3>1, <3>2, <3>3
  <2>3. CASE Found(l)
    <3>1. PICK k \in Kid : k = lookup[l].kid /\ keys[k] # None /\ Return(l, k)
      BY <2>3 DEF Found, Inv, Asked
    <3>2. lookup[l].pc = "again" /\ keys[k] \in Key \cup {None}
      BY <2>0, <2>3 DEF Found, KeySet
    <3>. QED
      BY <2>0, <3>1, <3>2, Returned
  <2>4. CASE NotFound(l)
    BY <2>0, <2>4 DEF NotFound, Goto, Call
  <2>. QED
    BY <2>1, <2>2, <2>3, <2>4
<1>4. TypeOK'
  BY <1>1, <1>2 DEF Inv, TypeOK
<1>5. Asked'
  BY <1>1, <1>2 DEF Inv, Asked
<1>6. Noted' /\ Genuine' /\ RefreshesSpaced'
  BY <1>1 DEF Inv, Noted, Genuine, RefreshesSpaced
<1>7. Merged'
  BY <1>1, <1>2 DEF Inv, Merged
<1>8. Recent'
  <2>1. ASSUME lookup'[l].pc = "again"
        PROVE  \E m \in Lookup : /\ fetch[m] # None
                                 /\ fetch[m].begun <= now /\ now - fetch[m].begun < Gap
    <3>1. lastMod # LongAgo
      BY <1>2, <2>1, TimeAssumption DEF Inv, TypeOK, Time, LongAgo
    <3>. QED
      BY <1>2, <2>1, <3>1 DEF Inv, Noted
  <2>. QED
    BY <1>1, <1>2, <2>1 DEF Inv, Recent
<1>9. FoundAreGenuine'
  BY <1>1, <1>2 DEF Inv, FoundAreGenuine, Genuine
<1>. QED
  BY <1>4, <1>5, <1>6, <1>7, <1>8, <1>9 DEF Inv

(* A new request is Gap away from the latest one, so from all. *)
LEMMA BeginStep ==
  ASSUME Inv, NEW l \in Lookup, BeginRefresh(l)
  PROVE  Inv'
<1>. DEFINE new == [begun |-> now, reply |-> None]
<1>1. /\ lookup[l].pc = "refresh" /\ fetch[l] = None /\ lookup[l].kid \in Kid
      /\ now - lastMod >= Gap /\ lastMod' = now
      /\ UNCHANGED <<now, keys, published, changes, history>>
  BY DEF BeginRefresh, provider, Inv, Asked
<1>2. new \in Fetch /\ new # None
  BY NoneAssumption DEF Inv, TypeOK, Fetch
<1>3. /\ fetch' \in [Lookup -> Fetch \cup {None}]
      /\ fetch'[l] = new /\ \A m \in Lookup : m # l => fetch'[m] = fetch[m]
  BY <1>2 DEF BeginRefresh, Inv, TypeOK
<1>4. /\ lookup' \in [Lookup -> Call]
      /\ lookup'[l].pc = "fetch" /\ lookup'[l].asked = now
      /\ lookup'[l].kid = lookup[l].kid
      /\ \A m \in Lookup : m # l => lookup'[m] = lookup[m]
  <2>1. lookup' = [lookup EXCEPT ![l].pc = "fetch", ![l].asked = now]
    BY DEF BeginRefresh
  <2>2. QED
    BY <2>1, Noticed DEF Inv, TypeOK
<1>5. /\ now \in Int /\ lastMod \in Int
      /\ \A m \in Lookup : fetch[m] # None => fetch[m].begun \in Int
  BY TimeAssumption DEF Inv, TypeOK, Time, LongAgo, Fetch
<1>6. TypeOK'
  BY <1>1, <1>3, <1>4 DEF Inv, TypeOK
<1>7. Asked'
  BY <1>1, <1>2, <1>3, <1>4 DEF Inv, Asked
<1>8. Noted'
  BY <1>1, <1>2, <1>3, <1>5, TimeAssumption DEF Inv, Noted
<1>9. Genuine' /\ Merged'
  <2>1. new.reply = None
    OBVIOUS
  <2>. HIDE DEF new
  <2>. QED
    BY <1>1, <1>3, <1>4, <2>1 DEF Inv, Genuine, Merged
<1>10. Recent'
  BY <1>1, <1>2, <1>3, <1>4, <1>5, TimeAssumption DEF Inv, Recent
<1>11. RefreshesSpaced'
  <2>1. \A m \in Lookup : m # l /\ fetch[m] # None => now - fetch[m].begun >= Gap
    BY <1>1, <1>5, TimeAssumption DEF Inv, Noted
  <2>. QED
    BY <1>1, <1>3, <1>5, <2>1 DEF Inv, RefreshesSpaced
<1>12. FoundAreGenuine'
  BY <1>1, <1>4 DEF Inv, FoundAreGenuine
<1>. QED
  BY <1>6, <1>7, <1>8, <1>9, <1>10, <1>11, <1>12 DEF Inv

(* The answer holds what is published now. *)
LEMMA RespondStep ==
  ASSUME Inv, NEW l \in Lookup, Respond(l)
  PROVE  Inv'
<1>1. /\ lookup[l].pc = "fetch" /\ lookup[l].kid \in Kid
      /\ fetch[l] # None /\ fetch[l] \in Fetch /\ fetch[l].reply = None
      /\ UNCHANGED <<now, keys, lastMod, published, changes, history>>
  BY DEF Respond, provider, Inv, Asked, TypeOK
<1>2. /\ lookup' \in [Lookup -> Call]
      /\ lookup'[l].pc \in {"merge", "again", "failed"}
      /\ lookup'[l].kid = lookup[l].kid /\ lookup'[l].asked = lookup[l].asked
      /\ \A m \in Lookup : m # l => lookup'[m] = lookup[m]
  BY DEF Respond, Goto, Inv, TypeOK, Call
<1>3. /\ fetch' \in [Lookup -> Fetch \cup {None}]
      /\ fetch'[l] # None /\ fetch'[l].begun = fetch[l].begun
      /\ fetch'[l].reply = IF lookup'[l].pc = "merge" THEN published ELSE None
      /\ \A m \in Lookup : m # l => fetch'[m] = fetch[m]
  <2>. DEFINE new == [fetch[l] EXCEPT !.reply = published]
  <2>1. new \in Fetch /\ new # None /\ new.begun = fetch[l].begun /\ new.reply = published
    BY <1>1, NoneAssumption DEF Inv, TypeOK, Fetch
  <2>2. CASE Goto(l, "merge") /\ fetch' = [fetch EXCEPT ![l].reply = published]
    <3>1. lookup'[l].pc = "merge" /\ fetch' = [fetch EXCEPT ![l] = new]
      BY <2>2 DEF Goto, Inv, TypeOK, Call
    <3>. HIDE DEF new
    <3>. QED
      BY <2>1, <3>1 DEF Inv, TypeOK
  <2>3. CASE (Goto(l, "again") \/ Goto(l, "failed")) /\ UNCHANGED fetch
    BY <1>1, <2>3 DEF Goto, Inv, TypeOK, Call
  <2>. QED
    BY <2>2, <2>3 DEF Respond
<1>4. published \in KeySet /\ published # None
  BY NoneAssumption DEF Inv, TypeOK
<1>5. TypeOK'
  BY <1>1, <1>2, <1>3 DEF Inv, TypeOK
<1>6. Asked'
  BY <1>1, <1>2, <1>3, <1>4 DEF Inv, Asked
<1>7. Noted'
  BY <1>1, <1>3 DEF Inv, Noted
<1>8. Genuine' /\ Merged'
  BY <1>1, <1>2, <1>3 DEF Inv, Genuine, Merged
<1>9. Recent'
  BY <1>1, <1>2, <1>3 DEF Inv, Recent
<1>10. RefreshesSpaced'
  BY <1>1, <1>3 DEF Inv, RefreshesSpaced
<1>11. FoundAreGenuine'
  BY <1>1, <1>2 DEF Inv, FoundAreGenuine
<1>. QED
  BY <1>5, <1>6, <1>7, <1>8, <1>9, <1>10, <1>11 DEF Inv

(* Merging brings the answer into the map and takes nothing out. *)
LEMMA MergeStep ==
  ASSUME Inv, NEW l \in Lookup, Merge(l)
  PROVE  Inv'
<1>1. /\ lookup[l].pc = "merge" /\ lookup[l].kid \in Kid
      /\ fetch[l] # None /\ fetch[l].reply \in KeySet
      /\ UNCHANGED <<now, lastMod, fetch, published, changes, history>>
  BY DEF Merge, provider, Inv, Asked, TypeOK, Fetch
<1>2. /\ lookup' \in [Lookup -> Call]
      /\ lookup'[l].pc = "again"
      /\ lookup'[l].kid = lookup[l].kid /\ lookup'[l].asked = lookup[l].asked
      /\ \A m \in Lookup : m # l => lookup'[m] = lookup[m]
  BY DEF Merge, Goto, Inv, TypeOK, Call
<1>3. /\ keys' \in KeySet
      /\ \A k \in Kid : keys'[k] = IF fetch[l].reply[k] = None THEN keys[k]
                                   ELSE fetch[l].reply[k]
  BY <1>1 DEF Merge, Inv, TypeOK, KeySet
<1>4. TypeOK' /\ Asked' /\ Noted' /\ RefreshesSpaced'
  BY <1>1, <1>2, <1>3 DEF Inv, TypeOK, Asked, Noted, RefreshesSpaced
<1>5. Genuine'
  <2>1. fetch[l].reply # None
    BY <1>1, NoneAssumption
  <2>2. \A k \in Kid : fetch[l].reply[k] \in history[k]
    BY <1>1, <2>1 DEF Inv, Genuine
  <2>. QED
    BY <1>1, <1>3, <2>2 DEF Inv, Genuine
<1>6. Merged'
  BY <1>1, <1>2, <1>3 DEF Inv, Merged
<1>7. Recent' /\ FoundAreGenuine'
  BY <1>1, <1>2 DEF Inv, Recent, FoundAreGenuine
<1>. QED
  BY <1>4, <1>5, <1>6, <1>7 DEF Inv

(* The provider adds to the history what it publishes. *)
LEMMA PublishStep ==
  ASSUME Inv, Publish
  PROVE  Inv'
<1>1. PICK k \in Kid, key \in Key \cup {None} :
        /\ published' = [published EXCEPT ![k] = key]
        /\ history' = [history EXCEPT ![k] = @ \cup {key}]
  BY DEF Publish
<1>2. UNCHANGED <<now, keys, lastMod, lookup, fetch>>
  BY DEF Publish
<1>3. /\ published' \in KeySet
      /\ history' \in [Kid -> SUBSET (Key \cup {None})]
      /\ \A i \in Kid : /\ history[i] \subseteq history'[i]
                        /\ published'[i] = published[i] \/ published'[i] \in history'[i]
  BY <1>1 DEF Inv, TypeOK, KeySet
<1>4. TypeOK'
  BY <1>2, <1>3, TimeAssumption DEF Publish, Inv, TypeOK
<1>5. Genuine'
  BY <1>2, <1>3 DEF Inv, Genuine
<1>6. FoundAreGenuine'
  <2>1. \A l \in Lookup : lookup[l].pc = "found" /\ lookup[l].kid \notin Kid =>
          history'[lookup[l].kid] = history[lookup[l].kid]
    BY <1>1 DEF Inv, TypeOK
  <2>. QED
    BY <1>2, <1>3, <2>1 DEF Inv, FoundAreGenuine
<1>7. Asked' /\ Noted' /\ Merged' /\ Recent' /\ RefreshesSpaced'
  BY <1>2 DEF Inv, Asked, Noted, Merged, Recent, RefreshesSpaced
<1>. QED
  BY <1>4, <1>5, <1>6, <1>7 DEF Inv

(* Time passing changes no key. *)
LEMMA TickStep ==
  ASSUME Inv, Tick
  PROVE  Inv'
<1>1. UNCHANGED <<keys, lastMod, lookup, fetch, published, changes, history>>
  BY DEF Tick, provider
<1>2. now' = now + 1 /\ now' \in Time /\ now \in Int
  BY TimeAssumption DEF Tick, Inv, TypeOK, Time
<1>3. TypeOK' /\ Asked' /\ Genuine' /\ Merged' /\ Recent'
  BY <1>1, <1>2 DEF Inv, TypeOK, Asked, Genuine, Merged, Recent
<1>4. RefreshesSpaced' /\ FoundAreGenuine'
  BY <1>1 DEF Inv, RefreshesSpaced, FoundAreGenuine
<1>5. Noted'
  BY <1>1, <1>2, TimeAssumption DEF Inv, Noted, TypeOK, Time, LongAgo
<1>. QED
  BY <1>3, <1>4, <1>5 DEF Inv

(* Every step of a call, and of what surrounds it, preserves it. *)
THEOREM InvStep == Inv /\ [Next]_vars => Inv'
<1>. SUFFICES ASSUME Inv, [Next]_vars PROVE Inv'
  OBVIOUS
<1>1. CASE UNCHANGED vars
  BY <1>1 DEF vars, Inv, TypeOK, Asked, Noted, Genuine, Merged, Recent,
              RefreshesSpaced, FoundAreGenuine
<1>. QED
  BY <1>1, LookupStep, BeginStep, RespondStep, MergeStep, PublishStep, TickStep
     DEF Next, Step

(* So it holds of every reachable state. *)
THEOREM Invariance == Spec => []Inv
BY InvInit, InvStep, PTL DEF Spec

(* TypeOK holds of every reachable state. *)
THEOREM Typing == Spec => []TypeOK
BY Invariance, PTL DEF Inv

(* No two requests to the provider are begun less than Gap apart. *)
THEOREM Spacing == Spec => []RefreshesSpaced
BY Invariance, PTL DEF Inv

(* A key that GetKey returns was seeded or published for its key id. *)
THEOREM Genuineness == Spec => []FoundAreGenuine
BY Invariance, PTL DEF Inv

(* A key id once known stays known. *)
THEOREM Monotone == Spec => KeysStay
<1>1. Inv /\ [Next]_vars => [\A k \in Kid : keys[k] # None => keys'[k] # None]_vars
  BY DEF Inv, TypeOK, KeySet, Next, Step, vars, GetKey, SkipRefresh, BeginRefresh,
         Respond, Merge, Found, NotFound, Publish, Tick
<1>. QED
  BY <1>1, Invariance, PTL DEF Spec, KeysStay

(* Only NotFound calls a key id unknown. *)
LEMMA OnlyNotFound ==
  ASSUME Inv, Next, NEW l \in Lookup, lookup[l].pc # "unknown",
         lookup'[l].pc = "unknown"
  PROVE  NotFound(l)
<1>1. lookup \in [Lookup -> Call]
  BY DEF Inv, TypeOK
<1>2. ASSUME NEW m \in Lookup, NEW k \in Kid, Return(m, k)
      PROVE  FALSE
  BY <1>1, <1>2 DEF Return, Call
<1>3. ~Publish /\ ~Tick
  BY DEF Publish, Tick
<1>4. PICK m \in Lookup : GetKey(m) \/ Step(m)
  BY <1>3 DEF Next
<1>5. ~GetKey(m)
  BY <1>1, <1>2 DEF GetKey, Call
<1>6. ~SkipRefresh(m) /\ ~BeginRefresh(m) /\ ~Respond(m) /\ ~Merge(m)
  BY <1>1 DEF SkipRefresh, BeginRefresh, Respond, Merge, Goto, Call
<1>7. ~Found(m)
  BY <1>2 DEF Found, Inv, Asked
<1>8. NotFound(m)
  BY <1>4, <1>5, <1>6, <1>7 DEF Step
<1>. QED
  BY <1>1, <1>8 DEF NotFound, Goto, Call

(* A key id is called unknown only after a recent attempt that failed, is
   under way, or was answered without it. *)
THEOREM TriedBefore == Spec => RefusedAfterTrying
<1>. DEFINE Tried(l) ==
       \E m \in Lookup :
         /\ fetch[m] # None
         /\ fetch[m].begun <= lookup[l].asked /\ lookup[l].asked - fetch[m].begun < Gap
         /\ \/ lookup[m].pc \in {"fetch", "merge"}
            \/ fetch[m].reply = None
            \/ fetch[m].reply[lookup[l].kid] = None
<1>1. ASSUME Inv, Next, NEW l \in Lookup,
             lookup[l].pc # "unknown", lookup'[l].pc = "unknown"
      PROVE  Tried(l)
  <2>1. NotFound(l)
    BY <1>1, OnlyNotFound
  <2>2. lookup[l].pc = "again" /\ lookup[l].kid \in Kid /\ keys[lookup[l].kid] = None
    BY <1>1, <2>1 DEF NotFound, Inv, Asked
  <2>3. PICK m \in Lookup :
          /\ fetch[m] # None
          /\ fetch[m].begun <= lookup[l].asked /\ lookup[l].asked - fetch[m].begun < Gap
    BY <1>1, <2>2 DEF Inv, Recent
  <2>4. fetch[m].reply # None /\ lookup[m].pc # "merge" =>
          fetch[m].reply[lookup[l].kid] = None
    BY <1>1, <2>2, <2>3 DEF Inv, Merged
  <2>. QED
    BY <2>3, <2>4
<1>2. Inv /\ [Next]_vars =>
        [\A l \in Lookup : lookup[l].pc # "unknown" /\ lookup'[l].pc = "unknown" =>
           Tried(l)]_vars
  BY <1>1
<1>. QED
  BY <1>2, Invariance, PTL DEF Spec, RefusedAfterTrying
=============================================================================
