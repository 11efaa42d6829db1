------------------------- MODULE RateLimiterProofs -------------------------
(***************************************************************************)
(* RateLimiter for every number of requests and users, every limit, and    *)
(* every window longer than the clocks and the calls may be off: the limit *)
(* holds in every stretch of time, and every refusal is justified.         *)
(***************************************************************************)
EXTENDS RateLimiter, FiniteSetTheorems, TLAPS

Sure == Window - Skew - Lag      \* how long a member is surely kept
Long == Window + Skew + Lag      \* and surely not longer

(* A request that has read its clock runs its script soon after. *)
Timed ==
  \A r \in Request : req[r].pc = "script" =>
    /\ req[r].read <= now /\ now - req[r].read <= Lag
    /\ req[r].read <= req[r].stamp /\ req[r].stamp <= req[r].read + Skew

(* Scores are the times of the scripts, give or take; a set outlives its
   members. *)
Logged ==
  \A b \in Bucket : \A e \in log[b] :
    /\ e.at <= now /\ e.at + Window <= ttl[b]
    /\ e.at - Lag <= e.member.score /\ e.member.score <= e.at + Skew

(* What was added a short while ago is still there, and all that is there
   was added. *)
Kept ==
  \A b \in Bucket : \A e \in log[b] : now - Sure < e.at => e.member \in zset[b]
Held ==
  \A b \in Bucket : zset[b] \subseteq Members(log[b])

FiniteLog == \A b \in Bucket : IsFiniteSet(log[b])

(* The inductive invariant.  The limit is tested against the set, so it takes
   the relation between the set and what was added. *)
Inv == /\ TypeOK /\ Timed /\ Logged /\ Kept /\ Held /\ FiniteLog
       /\ WindowBound /\ RefusalsJustified

(* Every user has a limit of at least one. *)
LEMMA LimitType ==
  ASSUME NEW role, NEW limit \in Nat \ {0}
  PROVE  UserLimit(role, limit) \in Nat \ {0}
BY LimitAssumption DEF UserLimit, Larger

(* The sizes of subsets, and of a set with one element more. *)
LEMMA Sizes ==
  ASSUME NEW S, IsFiniteSet(S)
  PROVE  /\ Cardinality(S) \in Nat
         /\ \A T \in SUBSET S : IsFiniteSet(T) /\ Cardinality(T) <= Cardinality(S)
         /\ \A x : /\ IsFiniteSet(S \cup {x})
                   /\ Cardinality(S \cup {x}) \in Nat
                   /\ Cardinality(S \cup {x}) <= Cardinality(S) + 1
<1>1. Cardinality(S) \in Nat
  BY FS_CardinalityType
<1>2. \A T \in SUBSET S : IsFiniteSet(T) /\ Cardinality(T) <= Cardinality(S)
  BY FS_Subset
<1>3. ASSUME NEW x
      PROVE  /\ IsFiniteSet(S \cup {x})
             /\ Cardinality(S \cup {x}) \in Nat
             /\ Cardinality(S \cup {x}) <= Cardinality(S) + 1
  <2>1. /\ IsFiniteSet(S \cup {x})
        /\ Cardinality(S \cup {x}) =
             IF x \in S THEN Cardinality(S) ELSE Cardinality(S) + 1
    BY FS_AddElement
  <2>. QED
    BY <1>1, <2>1
<1>. QED
  BY <1>1, <1>2, <1>3

(* Finitely many entries have finitely many members. *)
LEMMA FiniteMembers ==
  ASSUME NEW S, IsFiniteSet(S)
  PROVE  IsFiniteSet(Members(S))
<1>. DEFINE f == [e \in S |-> e.member]
<1>1. f \in Surjection(S, Members(S))
  BY DEF Surjection, Members
<1>. QED
  BY <1>1, FS_Surjection DEF ExistsSurjection

(* The bucket and the limit of a request about to run its script. *)
LEMMA Asking ==
  ASSUME TypeOK, NEW r \in Request, req[r].pc = "script"
  PROVE  /\ BucketOf(r) \in Bucket /\ LimitOf(r) \in Nat \ {0}
         /\ req[r].stamp \in Int /\ req[r].read \in 0..MaxTime
<1>1. req[r] \in [pc : {"script"}, scope : {"org", "user"}, user : User, role : Role,
                  limit : Nat \ {0}, stamp : Int, read : 0..MaxTime]
  BY DEF TypeOK, RequestType
<1>2. UserLimit(req[r].role, req[r].limit) \in Nat \ {0}
  BY <1>1, LimitType
<1>. QED
  BY <1>1, <1>2 DEF BucketOf, LimitOf, Bucket

(* A request that a check lets through is well typed. *)
LEMMA AllowedType ==
  ASSUME TypeOK, NEW r \in Request, req[r].pc = "script", Allowed(r)
  PROVE  /\ req' \in [Request -> RequestType]
         /\ req'[r].pc \in {"clock", "admitted", "denied"}
         /\ \A q \in Request : q # r => req'[q] = req[q]
<1>1. req[r] \in [pc : {"script"}, scope : {"org", "user"}, user : User, role : Role,
                  limit : Nat \ {0}, stamp : Int, read : 0..MaxTime]
  BY DEF TypeOK, RequestType
<1>. QED
  BY <1>1 DEF TypeOK, RequestType, Allowed

(* More members, or a longer look back, leave a refusal justified. *)
LEMMA StillJustified ==
  ASSUME NEW S, NEW T, IsFiniteSet(T), S \subseteq T, NEW n \in Nat,
         n <= Cardinality(Members(S))
  PROVE  n <= Cardinality(Members(T))
<1>1. Members(S) \subseteq Members(T) /\ IsFiniteSet(Members(T))
  BY FiniteMembers DEF Members
<1>2. /\ Cardinality(Members(S)) \in Nat /\ Cardinality(Members(T)) \in Nat
      /\ Cardinality(Members(S)) <= Cardinality(Members(T))
  BY <1>1, Sizes
<1>. QED
  BY <1>2

(* The inductive invariant holds when nobody has called RateLimit yet. *)
THEOREM InvInit == Init => Inv
<1>. SUFFICES ASSUME Init PROVE Inv
  OBVIOUS
<1>1. TypeOK
  BY TimeAssumption DEF Init, TypeOK, RequestType
<1>2. FiniteLog /\ Held
  BY FS_EmptySet DEF Init, FiniteLog, Held
<1>. QED
  BY <1>1, <1>2 DEF Inv, Init, Timed, Logged, Kept, WindowBound, Added,
                    RefusalsJustified

(* The steps that leave the sets alone. *)
LEMMA AskStep ==
  ASSUME Inv, NEW r \in Request, Arrive(r) \/ ReadClock(r) \/ FailOpen(r)
  PROVE  Inv'
<1>1. /\ UNCHANGED <<now, zset, ttl, log>>
      /\ \A q \in Request : q # r => req'[q] = req[q]
      /\ req' \in [Request -> RequestType]
      /\ req'[r].pc # "refused"
      /\ req'[r].pc = "script" =>
            /\ req'[r].read = now /\ now <= req'[r].stamp
            /\ req'[r].stamp <= now + Skew
  <2>1. CASE Arrive(r)
    <3>1. \A tier \in Tier, paid \in BOOLEAN : OrgLimit(tier, paid) \in Nat \ {0}
      BY LimitAssumption DEF OrgLimit
    <3>. QED
      BY <2>1, <3>1 DEF Inv, TypeOK, RequestType, Arrive
  <2>2. CASE ReadClock(r)
    <3>1. req[r] \in [pc : {"clock"}, scope : {"org", "user"}, user : User,
                      role : Role, limit : Nat \ {0}]
      BY <2>2 DEF Inv, TypeOK, RequestType, ReadClock
    <3>. QED
      BY <2>2, <3>1, TimeAssumption DEF Inv, TypeOK, RequestType, ReadClock
  <2>3. CASE FailOpen(r)
    BY <2>3, AllowedType DEF FailOpen, Inv
  <2>. QED
    BY <2>1, <2>2, <2>3
<1>2. TypeOK'
  BY <1>1 DEF Inv, TypeOK
<1>3. Timed'
  BY <1>1, TimeAssumption DEF Inv, Timed, TypeOK
<1>4. Logged' /\ Kept' /\ Held' /\ FiniteLog' /\ WindowBound'
  BY <1>1 DEF Inv, Logged, Kept, Held, FiniteLog, WindowBound, Added, Members
<1>5. RefusalsJustified'
  BY <1>1 DEF Inv, RefusalsJustified, Added
<1>. QED
  BY <1>2, <1>3, <1>4, <1>5 DEF Inv

(* Time passing shortens what must be kept and lengthens no entry's life. *)
LEMMA TickStep ==
  ASSUME Inv, Tick
  PROVE  Inv'
<1>. USE TimeAssumption DEF Tick
<1>1. TypeOK'
  BY DEF Inv, TypeOK
<1>2. Timed'
  <2>1. \A r \in Request : req[r].pc = "script" => req[r].read \in Int
    BY Asking DEF Inv
  <2>. QED
    BY <2>1 DEF Inv, Timed, TypeOK
<1>3. \A b \in Bucket : \A e \in log[b] : e.at \in Int
  BY DEF Inv, TypeOK, Entry
<1>4. Logged' /\ Kept'
  BY <1>3 DEF Inv, Logged, Kept, TypeOK, Sure
<1>5. Held' /\ FiniteLog' /\ WindowBound' /\ RefusalsJustified'
  BY DEF Inv, Held, FiniteLog, WindowBound, RefusalsJustified, Added
<1>. QED
  BY <1>1, <1>2, <1>4, <1>5 DEF Inv

(* What a script finds: everything added a short while ago, and nothing that
   was not added within a long one. *)
LEMMA ScriptFinds ==
  ASSUME Inv, NEW r \in Request, req[r].pc = "script"
  PROVE  LET b == BucketOf(r)
             kept == Unexpired(b, req[r].stamp)
         IN /\ \A e \in log[b] : now - Sure < e.at => e.member \in kept
            /\ kept \subseteq Members(Added(b, now, Long))
            /\ IsFiniteSet(kept)
            /\ IsFiniteSet(log[b])
<1>. DEFINE b == BucketOf(r)
            kept == Unexpired(b, req[r].stamp)
<1>1. /\ b \in Bucket /\ req[r].stamp \in Int /\ req[r].read \in Int
      /\ now \in Int /\ ttl[b] \in Int
  BY Asking, TimeAssumption DEF Inv, TypeOK
<1>2. \A e \in log[b] : e.at \in Int /\ e.member.score \in Int
  BY <1>1 DEF Inv, TypeOK, Entry, Member
<1>3. /\ now - Lag <= req[r].stamp /\ req[r].stamp <= now + Skew
  BY <1>1, TimeAssumption DEF Inv, Timed
<1>4. ASSUME NEW e \in log[b], now - Sure < e.at
      PROVE  e.member \in kept
  <2>1. e.member \in zset[b]
    BY <1>1, <1>4 DEF Inv, Kept
  <2>2. e.at + Window <= ttl[b] /\ e.at - Lag <= e.member.score
    BY <1>1 DEF Inv, Logged
  <2>3. now < ttl[b]
    BY <1>1, <1>2, <1>4, <2>2, TimeAssumption DEF Sure
  <2>4. e.member.score > req[r].stamp - Window
    BY <1>1, <1>2, <1>3, <1>4, <2>2, TimeAssumption DEF Sure
  <2>. QED
    BY <1>1, <2>1, <2>3, <2>4 DEF Unexpired, Live
<1>5. ASSUME NEW m \in kept
      PROVE  m \in Members(Added(b, now, Long))
  <2>1. m \in zset[b] /\ m.score > req[r].stamp - Window
    BY DEF Unexpired, Live
  <2>2. PICK e \in log[b] : e.member = m
    BY <1>1, <2>1 DEF Inv, Held, Members
  <2>3. e.at <= now /\ m.score <= e.at + Skew
    BY <1>1, <2>2 DEF Inv, Logged
  <2>4. now - Long < e.at
    BY <1>1, <1>2, <1>3, <2>1, <2>2, <2>3, TimeAssumption DEF Long
  <2>. QED
    BY <2>2, <2>3, <2>4 DEF Members, Added
<1>6. IsFiniteSet(log[b])
  BY <1>1 DEF Inv, FiniteLog
<1>7. IsFiniteSet(kept)
  <2>1. Added(b, now, Long) \subseteq log[b]
    BY DEF Added
  <2>2. IsFiniteSet(Members(Added(b, now, Long)))
    BY <1>6, <2>1, Sizes, FiniteMembers
  <2>. QED
    BY <1>5, <2>2, Sizes
<1>. QED
  BY <1>4, <1>5, <1>6, <1>7

(* Admitting adds to a set that was below the limit. *)
LEMMA AdmitStep ==
  ASSUME Inv, NEW r \in Request, Admit(r)
  PROVE  Inv'
<1>. DEFINE kept == Unexpired(BucketOf(r), req[r].stamp)
<1>0. PICK b \in Bucket : b = BucketOf(r)
  BY Asking DEF Inv, Admit
<1>1. PICK n \in Rand :
        /\ zset' = [zset EXCEPT ![b] = kept \cup {[score |-> req[r].stamp, rand |-> n]}]
        /\ log' = [log EXCEPT ![b] = @ \cup
                     {[by |-> r, member |-> [score |-> req[r].stamp, rand |-> n],
                       at |-> now, limit |-> LimitOf(r)]}]
  BY <1>0 DEF Admit
<1>. DEFINE m == [score |-> req[r].stamp, rand |-> n]
            new == [by |-> r, member |-> m, at |-> now, limit |-> LimitOf(r)]
<1>2. /\ req[r].pc = "script" /\ Allowed(r) /\ now' = now
      /\ Cardinality(kept) < LimitOf(r)
      /\ ttl' = [ttl EXCEPT ![b] = now + Window]
  BY <1>0 DEF Admit
<1>3. /\ b \in Bucket /\ LimitOf(r) \in Nat \ {0} /\ req[r].stamp \in Int
      /\ req[r].read \in Int /\ now \in 0..MaxTime
      /\ log \in [Bucket -> SUBSET Entry] /\ zset \in [Bucket -> SUBSET Member]
      /\ ttl \in [Bucket -> 0..(MaxTime + Window)]
  BY <1>2, Asking, TimeAssumption DEF Inv, TypeOK
<1>4. /\ now - Lag <= req[r].stamp /\ req[r].stamp <= now + Skew
  BY <1>2, <1>3, TimeAssumption DEF Inv, Timed
<1>5. /\ \A e \in log[b] : now - Sure < e.at => e.member \in kept
      /\ IsFiniteSet(kept) /\ IsFiniteSet(log[b])
  BY <1>0, <1>2, ScriptFinds
<1>6. m \in Member /\ new \in Entry
  BY <1>3 DEF Member, Entry
<1>7. /\ log'[b] = log[b] \cup {new}
      /\ zset'[b] = kept \cup {m}
      /\ ttl'[b] = now + Window
      /\ \A c \in Bucket \ {b} :
           log'[c] = log[c] /\ zset'[c] = zset[c] /\ ttl'[c] = ttl[c]
  BY <1>1, <1>2, <1>3
<1>8. kept \subseteq zset[b]
  BY <1>0 DEF Unexpired, Live
<1>9. TypeOK'
  <2>1. req' \in [Request -> RequestType]
    BY <1>2, AllowedType DEF Inv
  <2>2. ttl' \in [Bucket -> 0..(MaxTime + Window)]
    BY <1>2, <1>3, TimeAssumption
  <2>3. zset' \in [Bucket -> SUBSET Member]
    BY <1>1, <1>3, <1>6, <1>8
  <2>4. log' \in [Bucket -> SUBSET Entry]
    BY <1>1, <1>3, <1>6
  <2>. QED
    BY <1>2, <1>3, <2>1, <2>2, <2>3, <2>4 DEF TypeOK
<1>10. Timed'
  BY <1>2, AllowedType DEF Inv, Timed
<1>11. Logged'
  <2>1. ASSUME NEW c \in Bucket, NEW e \in log'[c]
        PROVE  /\ e.at <= now /\ e.at + Window <= ttl'[c]
               /\ e.at - Lag <= e.member.score /\ e.member.score <= e.at + Skew
    <3>1. CASE e \in log[c]
      <4>1. /\ e.at <= now /\ e.at + Window <= ttl[c] /\ e.at \in Int
            /\ e.at - Lag <= e.member.score /\ e.member.score <= e.at + Skew
        BY <1>3, <3>1 DEF Inv, Logged, Entry
      <4>. QED
        BY <1>3, <1>7, <4>1, TimeAssumption
    <3>2. CASE e \notin log[c]
      <4>1. c = b /\ e = new
        BY <1>7, <2>1, <3>2
      <4>2. new.at = now /\ new.member.score = req[r].stamp
        OBVIOUS
      <4>. QED
        BY <1>3, <1>4, <1>7, <4>1, <4>2, TimeAssumption
    <3>. QED
      BY <3>1, <3>2
  <2>. QED
    BY <1>2, <2>1 DEF Logged
<1>12. Kept'
  BY <1>2, <1>5, <1>7 DEF Inv, Kept
<1>13. Held'
  <2>1. m \in Members(log'[b]) /\ Members(log[b]) \subseteq Members(log'[b])
    <3>1. m = new.member /\ new \in log'[b] /\ log[b] \subseteq log'[b]
      BY <1>7
    <3>. HIDE DEF new, m
    <3>. QED
      BY <3>1 DEF Members
  <2>2. zset'[b] \subseteq Members(log'[b])
    BY <1>7, <1>8, <2>1 DEF Inv, Held
  <2>. QED
    BY <1>7, <2>2 DEF Inv, Held
<1>14. FiniteLog'
  <2>1. IsFiniteSet(log'[b])
    <3>1. log'[b] = log[b] \cup {new} /\ IsFiniteSet(log[b])
      BY <1>5, <1>7
    <3>. HIDE DEF new
    <3>2. IsFiniteSet(log[b] \cup {new})
      BY <3>1, FS_AddElement
    <3>. QED
      BY <3>1, <3>2
  <2>. QED
    BY <1>7, <2>1 DEF Inv, FiniteLog
<1>15. WindowBound'
  <2>1. SUFFICES ASSUME NEW t \in 0..MaxTime, t - Sure < now, now <= t
                 PROVE  Cardinality(Members(Added(b, t, Sure)')) <= new.limit
    <3>1. ASSUME NEW c \in Bucket, NEW t \in 0..MaxTime, Added(c, t, Sure)' # {}
          PROVE  \E e \in Added(c, t, Sure)' :
                   Cardinality(Members(Added(c, t, Sure)')) <= e.limit
      <4>1. CASE c = b /\ t - Sure < now /\ now <= t
        <5>1. new \in Added(b, t, Sure)'
          BY <1>7, <4>1 DEF Added
        <5>. QED
          BY <2>1, <4>1, <5>1
      <4>2. CASE ~(c = b /\ t - Sure < now /\ now <= t)
        <5>1. Added(c, t, Sure)' = Added(c, t, Sure)
          BY <1>7, <4>2 DEF Added
        <5>. QED
          BY <3>1, <5>1 DEF Inv, WindowBound, Sure
      <4>. QED
        BY <4>1, <4>2
    <3>. QED
      BY <3>1 DEF WindowBound, Sure, Added, Members
  <2>2. Members(Added(b, t, Sure)') \subseteq kept \cup {m}
    <3>1. ASSUME NEW e \in Added(b, t, Sure)'
          PROVE  e.member \in kept \cup {m}
      <4>1. CASE e = new
        BY <4>1
      <4>2. CASE e # new
        <5>1. e \in log[b] /\ t - Sure < e.at
          BY <1>7, <3>1, <4>2 DEF Added
        <5>2. e.at \in Int
          BY <1>3, <5>1 DEF Entry
        <5>3. now - Sure < e.at
          BY <1>3, <2>1, <5>1, <5>2, TimeAssumption DEF Sure
        <5>. QED
          BY <1>5, <5>1, <5>3
      <4>. QED
        BY <4>1, <4>2
    <3>. QED
      BY <3>1 DEF Members
  <2>. HIDE DEF kept, m
  <2>3. /\ Cardinality(kept) \in Nat /\ Cardinality(kept \cup {m}) \in Nat
        /\ Cardinality(kept \cup {m}) <= Cardinality(kept) + 1
        /\ IsFiniteSet(kept \cup {m})
    BY <1>5, Sizes
  <2>4. /\ Cardinality(Members(Added(b, t, Sure)')) \in Nat
        /\ Cardinality(Members(Added(b, t, Sure)')) <= Cardinality(kept \cup {m})
    BY <2>2, <2>3, Sizes
  <2>5. new.limit = LimitOf(r)
    OBVIOUS
  <2>. HIDE DEF new
  <2>. QED
    BY <1>2, <1>3, <2>3, <2>4, <2>5
<1>16. RefusalsJustified'
  <2>1. SUFFICES ASSUME NEW q \in Request, req'[q].pc = "refused"
                 PROVE  (req[q].limit <=
                           Cardinality(Members(Added(req[q].by, req[q].at, Long))))'
    BY DEF RefusalsJustified, Long
  <2>2. q # r /\ req'[q] = req[q]
    BY <1>2, <2>1, AllowedType DEF Inv
  <2>3. req[q] \in [pc : {"refused"}, by : Bucket, at : 0..MaxTime, limit : Nat \ {0}]
    BY <2>1, <2>2 DEF Inv, TypeOK, RequestType
  <2>. PICK by \in Bucket, at \in 0..MaxTime : by = req[q].by /\ at = req[q].at
    BY <2>3
  <2>. DEFINE S == Added(by, at, Long)
  <2>4. req[q].limit <= Cardinality(Members(S))
    BY <2>1, <2>2 DEF Inv, RefusalsJustified, Long
  <2>5. S \subseteq S' /\ IsFiniteSet(S')
    <3>1. log[by] \subseteq log'[by]
      BY <1>7
    <3>2. S \subseteq S' /\ S' \subseteq log'[by]
      BY <3>1 DEF Added
    <3>3. IsFiniteSet(log'[by])
      BY <1>14 DEF FiniteLog
    <3>. QED
      BY <3>2, <3>3, Sizes
  <2>6. req[q].limit <= Cardinality(Members(S'))
    <3>. HIDE DEF S
    <3>. QED
      BY <2>3, <2>4, <2>5, StillJustified
  <2>. QED
    BY <2>2, <2>6 DEF Added
<1>. QED
  BY <1>9, <1>10, <1>11, <1>12, <1>13, <1>14, <1>15, <1>16 DEF Inv

(* Refusing drops what is too old, and the set is full without it. *)
LEMMA RefuseStep ==
  ASSUME Inv, NEW r \in Request, Refuse(r)
  PROVE  Inv'
<1>. DEFINE kept == Unexpired(BucketOf(r), req[r].stamp)
<1>0. PICK b \in Bucket : b = BucketOf(r)
  BY Asking DEF Inv, Refuse
<1>1. /\ req[r].pc = "script" /\ UNCHANGED <<now, ttl, log>>
      /\ LimitOf(r) <= Cardinality(kept)
      /\ zset' = [zset EXCEPT ![b] = kept]
      /\ \/ req' = [req EXCEPT ![r] = [pc |-> "refused", by |-> b, at |-> now,
                                       limit |-> LimitOf(r)]]
         \/ Allowed(r)
  BY <1>0, Asking, FS_CardinalityType, ScriptFinds DEF Refuse, Inv
<1>2. /\ LimitOf(r) \in Nat \ {0} /\ now \in 0..MaxTime
      /\ zset \in [Bucket -> SUBSET Member]
  BY <1>1, Asking DEF Inv, TypeOK
<1>3. /\ \A e \in log[b] : now - Sure < e.at => e.member \in kept
      /\ kept \subseteq Members(Added(b, now, Long))
      /\ IsFiniteSet(kept) /\ IsFiniteSet(log[b])
  BY <1>0, <1>1, ScriptFinds
<1>4. kept \subseteq zset[b]
  BY <1>0 DEF Unexpired, Live
<1>5. /\ req' \in [Request -> RequestType]
      /\ req'[r].pc # "script"
      /\ \A q \in Request : q # r => req'[q] = req[q]
      /\ req'[r].pc = "refused" =>
           req'[r].by = b /\ req'[r].at = now /\ req'[r].limit = LimitOf(r)
  <2>1. CASE Allowed(r)
    BY <1>1, <2>1, AllowedType DEF Inv
  <2>2. CASE req' = [req EXCEPT ![r] = [pc |-> "refused", by |-> b, at |-> now,
                                        limit |-> LimitOf(r)]]
    BY <1>2, <2>2 DEF Inv, TypeOK, RequestType
  <2>. QED
    BY <1>1, <2>1, <2>2
<1>6. TypeOK'
  BY <1>1, <1>2, <1>4, <1>5 DEF Inv, TypeOK
<1>7. Timed'
  BY <1>1, <1>5 DEF Inv, Timed
<1>8. Logged' /\ FiniteLog' /\ WindowBound'
  BY <1>1 DEF Inv, Logged, FiniteLog, WindowBound, Added
<1>9. Kept' /\ Held'
  BY <1>1, <1>2, <1>3, <1>4 DEF Inv, Kept, Held
<1>10. RefusalsJustified'
  <2>1. SUFFICES ASSUME NEW q \in Request, req'[q].pc = "refused"
                 PROVE  (req[q].limit <=
                           Cardinality(Members(Added(req[q].by, req[q].at, Long))))'
    BY DEF RefusalsJustified, Long
  <2>2. CASE q # r
    BY <1>1, <1>5, <2>1, <2>2 DEF Inv, RefusalsJustified, Long, Added
  <2>3. CASE q = r
    <3>. DEFINE some == Added(b, now, Long)
    <3>1. IsFiniteSet(some)
      BY <1>3, Sizes DEF Added
    <3>2. IsFiniteSet(Members(some)) /\ kept \subseteq Members(some)
      <4>1. kept \subseteq Members(some)
        BY <1>3
      <4>. HIDE DEF some
      <4>. QED
        BY <3>1, <4>1, FiniteMembers
    <3>3. /\ Cardinality(kept) \in Nat /\ Cardinality(Members(some)) \in Nat
          /\ Cardinality(kept) <= Cardinality(Members(some))
      <4>. HIDE DEF some, kept
      <4>. QED
        BY <3>2, Sizes
    <3>4. LimitOf(r) <= Cardinality(Members(some))
      <4>. HIDE DEF some, kept
      <4>. QED
        BY <1>1, <1>2, <3>3
    <3>. QED
      BY <1>1, <1>5, <2>1, <2>3, <3>4 DEF Added
  <2>. QED
    BY <2>2, <2>3
<1>. QED
  BY <1>6, <1>7, <1>8, <1>9, <1>10 DEF Inv

(* Every step of a call, and of what surrounds it, preserves it. *)
THEOREM InvStep == Inv /\ [Next]_vars => Inv'
<1>. SUFFICES ASSUME Inv, [Next]_vars PROVE Inv'
  OBVIOUS
<1>1. CASE UNCHANGED vars
  BY <1>1 DEF vars, Inv, TypeOK, Timed, Logged, Kept, Held, FiniteLog,
              WindowBound, RefusalsJustified, Added
<1>. QED
  BY <1>1, AskStep, AdmitStep, RefuseStep, TickStep DEF Next

(* So it holds of every reachable state. *)
THEOREM Invariance == Spec => []Inv
BY InvInit, InvStep, PTL DEF Spec

(* TypeOK holds of every reachable state. *)
THEOREM Typing == Spec => []TypeOK
BY Invariance, PTL DEF Inv

(* In every stretch of time the members added are within the limit, however
   many gateways ask and in whatever order their scripts run. *)
THEOREM LimitHolds == Spec => []WindowBound
BY Invariance, PTL DEF Inv

(* Every refusal is justified by what others were allowed. *)
THEOREM NoIdleRefusal == Spec => []RefusalsJustified
BY Invariance, PTL DEF Inv
============================================================================
