---------------------------- MODULE RateLimiter ----------------------------
(***************************************************************************)
(* The rate limits of one organisation: the two checks MemzentEngine.Process *)
(* makes of every request (internal/engine/engine.go) and the sliding      *)
(* window they share (MemzentCache.RateLimit, internal/cache/valkey.go).   *)
(*                                                                         *)
(* A gateway reads its own clock, then runs a script in Valkey, which keeps *)
(* one sorted set for the organisation and one for each of its users.  The *)
(* clocks of the gateways run up to Skew ahead of Valkey's, and up to Lag  *)
(* passes between reading the clock and running the script.                *)
(***************************************************************************)
EXTENDS Integers, FiniteSets

CONSTANTS Request,       \* requests, each served at most once
          User,
          Org,           \* the set of the organisation, rl:{org}
          Tier, Role,
          TierLimit,     \* TierLimit[t]: requests per window of tier t
          ProLimit,      \* what a positive balance raises the limit to
          ViewerFloor, MemberFloor,
          Rand,          \* what math.random draws
          Window, Skew, Lag,
          MaxTime        \* bound on Valkey's clock

ASSUME LimitAssumption ==
  /\ TierLimit \in [Tier -> Nat \ {0}] /\ ProLimit \in Nat \ {0}
  /\ ViewerFloor \in Nat \ {0} /\ MemberFloor \in Nat \ {0}
ASSUME TimeAssumption ==
  /\ Window \in Nat /\ Skew \in Nat /\ Lag \in Nat /\ MaxTime \in Nat
  /\ Skew + Lag < Window
ASSUME BucketAssumption == Org \notin User

VARIABLES now,   \* Valkey's clock
          req,   \* req[r]: the request in Process
          zset,  \* zset[b]: the sorted set of b, members with their scores
          ttl,   \* ttl[b]: when Valkey drops zset[b]
          log    \* history: log[b]: each request added to b, as which member,
                 \* when and under which limit

vars == <<now, req, zset, ttl, log>>

Bucket == User \cup {Org}
Member == [score : Int, rand : Rand]
Larger(m, n) == IF m < n THEN n ELSE m

(* The limit of the organisation, and each user's share of it. *)
OrgLimit(tier, paid) ==
  IF paid /\ TierLimit[tier] < ProLimit THEN ProLimit ELSE TierLimit[tier]

UserLimit(role, limit) ==
  CASE role = "viewer" -> Larger(limit \div 5, ViewerFloor)
    [] role \in {"member", "agent"} -> Larger(limit \div 2, MemberFloor)
    [] OTHER -> limit

Init ==
  /\ now = 0
  /\ req = [r \in Request |-> [pc |-> "idle"]]
  /\ zset = [b \in Bucket |-> {}]
  /\ ttl = [b \in Bucket |-> 0]
  /\ log = [b \in Bucket |-> {}]

BucketOf(r) == IF req[r].scope = "org" THEN Org ELSE req[r].user
LimitOf(r) ==
  IF req[r].scope = "org" THEN req[r].limit
  ELSE UserLimit(req[r].role, req[r].limit)

(* A key past its time to live is not there. *)
Live(b) == IF now > ttl[b] THEN {} ELSE zset[b]
Unexpired(b, stamp) == {m \in Live(b) : m.score > stamp - Window}
----------------------------------------------------------------------------
(* Process computes the limits; the settings say whether the balance is
   positive, and are missing after an error. *)
Arrive(r) ==
  /\ req[r].pc = "idle"
  /\ \E u \in User, role \in Role, tier \in Tier, paid \in BOOLEAN :
       req' = [req EXCEPT ![r] = [pc |-> "clock", scope |-> "org", user |-> u,
                                  role |-> role, limit |-> OrgLimit(tier, paid)]]
  /\ UNCHANGED <<now, zset, ttl, log>>

(* RateLimit reads the clock of its gateway. *)
ReadClock(r) ==
  /\ req[r].pc = "clock"
  /\ \E ahead \in 0..Skew :
       req' = [req EXCEPT ![r] = [pc |-> "script", scope |-> @.scope, user |-> @.user,
                                  role |-> @.role, limit |-> @.limit,
                                  stamp |-> now + ahead, read |-> now]]
  /\ UNCHANGED <<now, zset, ttl, log>>

(* Past the check of the organisation comes that of the user, then viewers
   are turned away. *)
Allowed(r) ==
  req' = [req EXCEPT ![r] =
            IF @.scope = "org"
            THEN [pc |-> "clock", scope |-> "user", user |-> @.user,
                  role |-> @.role, limit |-> @.limit]
            ELSE [pc |-> IF @.role = "viewer" THEN "denied" ELSE "admitted"]]

(* The script finds room: it drops what is too old and adds the request.
   Two requests of one instant may draw the same number and be one member. *)
AdmitOneMore(r) ==               \* mutant: one request more than the limit
  /\ req[r].pc = "script"
  /\ LET b == BucketOf(r)
         kept == Unexpired(b, req[r].stamp)
     IN /\ Cardinality(kept) <= LimitOf(r)
        /\ \E n \in Rand :
             LET m == [score |-> req[r].stamp, rand |-> n]
             IN /\ zset' = [zset EXCEPT ![b] = kept \cup {m}]
                /\ log' = [log EXCEPT ![b] = @ \cup
                             {[by |-> r, member |-> m, at |-> now,
                               limit |-> LimitOf(r)]}]
        /\ ttl' = [ttl EXCEPT ![b] = now + Window]
  /\ Allowed(r)
  /\ UNCHANGED now

Admit(r) ==
  /\ req[r].pc = "script"
  /\ LET b == BucketOf(r)
         kept == Unexpired(b, req[r].stamp)
     IN /\ Cardinality(kept) < LimitOf(r)
        /\ \E n \in Rand :
             LET m == [score |-> req[r].stamp, rand |-> n]
             IN /\ zset' = [zset EXCEPT ![b] = kept \cup {m}]
                /\ log' = [log EXCEPT ![b] = @ \cup
                             {[by |-> r, member |-> m, at |-> now,
                               limit |-> LimitOf(r)]}]
        /\ ttl' = [ttl EXCEPT ![b] = now + Window]
  /\ Allowed(r)
  /\ UNCHANGED now

(* It finds none.  The caller is refused, unless the answer is lost. *)
RefuseOneEarly(r) ==             \* mutant: the request itself is counted
  /\ req[r].pc = "script"
  /\ LET b == BucketOf(r)
         kept == Unexpired(b, req[r].stamp)
     IN /\ Cardinality(kept) + 1 >= LimitOf(r)
        /\ zset' = [zset EXCEPT ![b] = kept]
        /\ \/ req' = [req EXCEPT ![r] = [pc |-> "refused", by |-> b, at |-> now,
                                         limit |-> LimitOf(r)]]
           \/ Allowed(r)
  /\ UNCHANGED <<now, ttl, log>>

Refuse(r) ==
  /\ req[r].pc = "script"
  /\ LET b == BucketOf(r)
         kept == Unexpired(b, req[r].stamp)
     IN /\ Cardinality(kept) >= LimitOf(r)
        /\ zset' = [zset EXCEPT ![b] = kept]
        /\ \/ req' = [req EXCEPT ![r] = [pc |-> "refused", by |-> b, at |-> now,
                                         limit |-> LimitOf(r)]]
           \/ Allowed(r)
  /\ UNCHANGED <<now, ttl, log>>

(* Valkey is not reached: the check lets the request through. *)
FailOpen(r) ==
  /\ req[r].pc = "script"
  /\ Allowed(r)
  /\ UNCHANGED <<now, zset, ttl, log>>

Tick ==
  /\ now < MaxTime
  /\ \A r \in Request : req[r].pc = "script" => now - req[r].read < Lag
  /\ now' = now + 1
  /\ UNCHANGED <<req, zset, ttl, log>>

Next ==
  \/ \E r \in Request :
       Arrive(r) \/ ReadClock(r) \/ Admit(r) \/ Refuse(r) \/ FailOpen(r)
  \/ Tick

Spec == Init /\ [][Next]_vars
----------------------------------------------------------------------------
Entry == [by : Request, member : Member, at : 0..MaxTime, limit : Nat \ {0}]

RequestType ==
  [pc : {"idle", "admitted", "denied"}]
  \cup [pc : {"clock"}, scope : {"org", "user"}, user : User, role : Role,
        limit : Nat \ {0}]
  \cup [pc : {"script"}, scope : {"org", "user"}, user : User, role : Role,
        limit : Nat \ {0}, stamp : Int, read : 0..MaxTime]
  \cup [pc : {"refused"}, by : Bucket, at : 0..MaxTime, limit : Nat \ {0}]

(* Every limit lets at least one request through, and every set holds what
   the script added. *)
TypeOK ==
  /\ now \in 0..MaxTime
  /\ req \in [Request -> RequestType]
  /\ zset \in [Bucket -> SUBSET Member]
  /\ ttl \in [Bucket -> 0..(MaxTime + Window)]
  /\ log \in [Bucket -> SUBSET Entry]

(* The requests added to b within the given time up to t, and their members. *)
Added(b, t, time) == {e \in log[b] : t - time < e.at /\ e.at <= t}
Members(entries) == {e.member : e \in entries}

(* What the sets count stays within the limits (valkey.go:97-106): the members
   added for an organisation or a user in any stretch of time, shorter than
   the window by what clocks and calls may be off, are no more than the limit
   of one of the requests of that stretch, whatever order the scripts ran in.
   Requests that are one member count once (RequestBound). *)
WindowBound ==
  \A b \in Bucket, t \in 0..MaxTime :
    LET some == Added(b, t, Window - Skew - Lag)
    IN some # {} => \E e \in some : Cardinality(Members(some)) <= e.limit

(* Nobody is refused for what is long past: the limit that refused a request
   was used up by others within a window, give or take clocks and calls. *)
RefusalsJustified ==
  \A r \in Request : req[r].pc = "refused" =>
    req[r].limit <= Cardinality(Members(
                      Added(req[r].by, req[r].at, Window + Skew + Lag)))

(* valkey.go:86: "limit: max requests allowed per window": the same bound on
   the requests themselves, each of which is let through once. *)
RequestBound ==
  \A b \in Bucket, t \in 0..MaxTime :
    LET some == Added(b, t, Window - Skew - Lag)
    IN some # {} => \E e \in some : Cardinality(some) <= e.limit
============================================================================
