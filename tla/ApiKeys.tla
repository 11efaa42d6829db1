------------------------------ MODULE ApiKeys ------------------------------
(***************************************************************************)
(* The API keys of one organisation: the keys page of the dashboard, its   *)
(* server actions, the table api_keys with its row level security, and     *)
(* the gateway, which accepts or refuses the secrets that agents present.  *)
(*                                                                         *)
(* A call of a handler of the page is an element of Op.  Calls of one tab  *)
(* are interleaved freely: Next.js sends the server actions of a tab one   *)
(* after the other today, and nothing below relies on it.                  *)
(*                                                                         *)
(* A secret is a number, drawn afresh by createApiKey and rotateApiKey.    *)
(* Its bcrypt hash and its prefix (16 characters, 8 of them random) are    *)
(* represented by the secret itself: both tell secrets apart.  The id of a *)
(* row is the secret it was created with.                                  *)
(***************************************************************************)
EXTENDS Integers

CONSTANTS
    Op,         \* calls of the page's handlers
    Tab,        \* open keys pages, each of a member of its own
    Admin,      \* those whose member may update and delete every row
    MaxSecret,  \* bound: secrets ever drawn
    MaxTime,    \* bound: the clock
    Ttl,        \* lifetimes the form offers, besides "never"
    Grace       \* rotationGracePeriod

None == 0       \* no secret, no key; SQL's NULL
Never == -1     \* expires_at is NULL
Secret == 1..MaxSecret
Time == 0..MaxTime

ASSUME KeysAssumption ==
    /\ Admin \subseteq Tab
    /\ MaxSecret \in Nat \ {0}
    /\ MaxTime \in Nat
    /\ Ttl \subseteq Nat
    /\ Grace \in Nat

VARIABLES
    rows,       \* api_keys: the row of an id, or NoRow
    drawn,      \* how many secrets have been drawn
    now,
    clearing,   \* rows that a goroutine of the gateway is about to clear
    page,       \* state of the keys page of each tab
    op          \* progress of each call

vars == <<rows, drawn, now, clearing, page, op>>

Row == [owner : Tab, prefix : Secret, hash : Secret, prev : Secret \cup {None},
        rotated : Time, expires : Nat \cup {Never}]
Page == [keys : SUBSET Secret, created : Secret \cup {None},
         rotated : Secret \cup {None}, rotating : Secret \cup {None}]
NoRow == [owner |-> "nobody"]

Fn == {"create", "revoke", "rotate"}
Idle == [st |-> "idle"]
Call == [st : {"insert", "delete", "select", "update", "list", "done"}, fn : Fn,
         tab : Tab, id : Secret \cup {None}, secret : Secret \cup {None},
         prev : Secret \cup {None}, expires : Nat \cup {Never}]

-----------------------------------------------------------------------------
(* The gateway                                                              *)

Expired(r) == r.expires # Never /\ now > r.expires
InGrace(r) == now - r.rotated < Grace

\* VerifyAPIKey looks the row up by prefix, refuses it when it has expired, and
\* compares the hash, then the previous one while the grace period lasts.
Matches(s, r) ==
    /\ r.prefix = s
    /\ ~Expired(r)
    /\ r.hash = s \/ (r.prev = s /\ InGrace(r))
Accepts(s) == \E id \in Secret : rows[id] # NoRow /\ Matches(s, rows[id])

\* The current secret of a row is presented when the grace period is over: a
\* goroutine is started that clears the previous hash.
Verify(id) ==
    /\ rows[id] # NoRow
    /\ Matches(rows[id].hash, rows[id])
    /\ rows[id].prev # None /\ ~InGrace(rows[id])
    /\ clearing' = clearing \cup {id}
    /\ UNCHANGED <<rows, drawn, now, page, op>>

\* The goroutine runs its UPDATE, whatever became of the row, or times out.
ClearPrevKeyHash(id) ==
    /\ id \in clearing
    /\ clearing' = clearing \ {id}
    /\ \/ rows' = rows
       \/ /\ rows[id] # NoRow
          /\ rows' = [rows EXCEPT ![id].prev = None]
    /\ UNCHANGED <<drawn, now, page, op>>

Tick == now < MaxTime /\ now' = now + 1 /\ UNCHANGED <<rows, drawn, clearing, page, op>>

-----------------------------------------------------------------------------
(* Row level security                                                       *)

Sees(t, r) == r # NoRow /\ (r.owner = t \/ t \in Admin)   \* SELECT and DELETE
\* mutant: the policy for updates names the owner instead of the administrators
MayUpdateOwn(t, r) == r # NoRow /\ r.owner = t
MayUpdate(t, r) == r # NoRow /\ t \in Admin

-----------------------------------------------------------------------------
(* The page                                                                 *)

\* What the banner shows: a rotated key hides a created one.
Shown(t) == IF page[t].rotated # None THEN page[t].rotated ELSE page[t].created

Begin(o, c) == op[o] = Idle /\ op' = [op EXCEPT ![o] = c]
Blank(t, fn, st) == [st |-> st, fn |-> fn, tab |-> t, id |-> None, secret |-> None,
                     prev |-> None, expires |-> Never]
At(o, st) == op[o] # Idle /\ op[o].st = st
Goto(o, st) == op' = [op EXCEPT ![o].st = st]

Visible(t) == {id \in Secret : Sees(t, rows[id])}

\* As the effect of the page leaves it; an error leaves the list empty.
Loaded(t, ok) == [keys |-> IF ok THEN Visible(t) ELSE {},
                  created |-> None, rotated |-> None, rotating |-> None]

\* What the form offers for expires_at.
Lifetimes == {Never} \cup {now + d : d \in Ttl}
\* "Generate Key" with a name and at least one scope in the form.  No flag
\* keeps it from being pressed again while the call is under way.
HandleCreate(o, t) ==
    /\ \E e \in Lifetimes :
          Begin(o, [Blank(t, "create", "insert") EXCEPT !.expires = e])
    /\ UNCHANGED <<rows, drawn, now, clearing, page>>

HandleRevoke(o, t) ==
    /\ \E id \in page[t].keys : Begin(o, [Blank(t, "revoke", "delete") EXCEPT !.id = id])
    /\ UNCHANGED <<rows, drawn, now, clearing, page>>

\* The rows of the list; the button of the one key that rotatingId names is disabled.
Rotatable(t) == page[t].keys \ {page[t].rotating}
HandleRotate(o, t) ==
    /\ \E id \in Rotatable(t) :
          /\ Begin(o, [Blank(t, "rotate", "select") EXCEPT !.id = id])
          /\ page' = [page EXCEPT ![t].rotating = id]
    /\ UNCHANGED <<rows, drawn, now, clearing>>

Acknowledge(t) ==
    /\ Shown(t) # None
    /\ page' = [page EXCEPT ![t].created = None, ![t].rotated = None]
    /\ UNCHANGED <<rows, drawn, now, clearing, op>>

\* A handler ends: the finally of handleRotate enables the buttons again.
Ended(o) ==
    [page EXCEPT ![op[o].tab].rotating = IF op[o].fn = "rotate" THEN None ELSE @]
Done(c) == [Blank(c.tab, c.fn, "done") EXCEPT !.id = c.id, !.secret = c.secret]
End(o) == op' = [op EXCEPT ![o] = Done(@)]

\* A server action throws, or its answer is lost.
Throw(o) == End(o) /\ page' = Ended(o)

-----------------------------------------------------------------------------
(* The server actions and what the handlers do with their answers           *)

Created(o, s) == [owner |-> op[o].tab, prefix |-> s, hash |-> s, prev |-> None,
                  rotated |-> 0, expires |-> op[o].expires]

\* createApiKey: a new secret and its row; the page shows the secret.
CreateApiKey(o) ==
    LET s == drawn + 1 IN
    /\ At(o, "insert")
    /\ \/ /\ drawn < MaxSecret /\ drawn' = s
          /\ rows' = [rows EXCEPT ![s] = Created(o, s)]
          /\ \/ /\ op' = [op EXCEPT ![o] = [@ EXCEPT !.st = "list", !.secret = s, !.id = s]]
                /\ page' = [page EXCEPT ![op[o].tab].created = s]
             \/ Throw(o)
       \/ Throw(o) /\ UNCHANGED <<rows, drawn>>
    /\ UNCHANGED <<now, clearing>>

\* revokeApiKey: DELETE of the row, if the policy lets this member see it.
RevokeApiKey(o) ==
    /\ At(o, "delete")
    /\ \/ /\ rows' = IF Sees(op[o].tab, rows[op[o].id])
                     THEN [rows EXCEPT ![op[o].id] = NoRow] ELSE rows
          /\ (Goto(o, "list") /\ page' = page) \/ Throw(o)
       \/ Throw(o) /\ rows' = rows
    /\ UNCHANGED <<drawn, now, clearing>>

\* rotateApiKey reads the current hash, and draws the new secret.
RotateSelect(o) ==
    /\ At(o, "select")
    /\ \/ /\ Sees(op[o].tab, rows[op[o].id])
          /\ drawn < MaxSecret /\ drawn' = drawn + 1
          /\ op' = [op EXCEPT ![o] = [@ EXCEPT !.st = "update", !.secret = drawn + 1,
                                               !.prev = rows[op[o].id].hash]]
          /\ page' = page
       \/ Throw(o) /\ drawn' = drawn
    /\ UNCHANGED <<rows, now, clearing>>

Rotated(r, c) == [r EXCEPT !.prefix = c.secret, !.hash = c.secret,
                           !.prev = c.prev, !.rotated = now]

\* Its UPDATE; a row that is gone, or that the policy keeps, is no error.
RotateUpdate(o) ==
    /\ At(o, "update")
    /\ \/ /\ rows' = IF MayUpdate(op[o].tab, rows[op[o].id])
                     THEN [rows EXCEPT ![op[o].id] = Rotated(@, op[o])] ELSE rows
          /\ \/ /\ Goto(o, "list")
                /\ page' = [page EXCEPT ![op[o].tab].rotated = op[o].secret]
             \/ Throw(o)
       \/ Throw(o) /\ rows' = rows
    /\ UNCHANGED <<drawn, now, clearing>>

\* getApiKeys: the list is replaced, or the call throws and the old one stays.
GetApiKeys(o) ==
    /\ At(o, "list")
    /\ \/ /\ End(o)
          /\ page' = [Ended(o) EXCEPT ![op[o].tab].keys = Visible(op[o].tab)]
       \/ Throw(o)
    /\ UNCHANGED <<rows, drawn, now, clearing>>

-----------------------------------------------------------------------------
\* One key exists, and every tab has just opened the page.
Init ==
    /\ \E t \in Tab : rows = [id \in Secret |-> IF id = 1
           THEN [owner |-> t, prefix |-> 1, hash |-> 1, prev |-> None,
                 rotated |-> 0, expires |-> Never]
           ELSE NoRow]
    /\ drawn = 1
    /\ now = 0
    /\ clearing = {}
    /\ \E ok \in SUBSET Tab : page = [t \in Tab |-> Loaded(t, t \in ok)]
    /\ op = [o \in Op |-> Idle]

Start(o, t) == HandleCreate(o, t) \/ HandleRevoke(o, t) \/ HandleRotate(o, t)
Serve(o) == CreateApiKey(o) \/ RevokeApiKey(o) \/ RotateSelect(o) \/ RotateUpdate(o) \/ GetApiKeys(o)
Gateway(id) == Verify(id) \/ ClearPrevKeyHash(id)

Next ==
    \/ \E o \in Op, t \in Tab : Start(o, t)
    \/ \E t \in Tab : Acknowledge(t)
    \/ \E o \in Op : Serve(o)
    \/ \E id \in Secret : Gateway(id)
    \/ Tick

Spec == Init /\ [][Next]_vars

-----------------------------------------------------------------------------
\* The types.
TypeOK ==
    /\ rows \in [Secret -> Row \cup {NoRow}]
    /\ drawn \in Secret
    /\ now \in Time
    /\ clearing \subseteq Secret
    /\ page \in [Tab -> Page]
    /\ op \in [Op -> Call \cup {Idle}]

\* A key in the banner of the page works: the one just created, and for an
\* administrator the one just rotated, unless its row was revoked, has expired or
\* holds the secret of another rotation.  The message of the page says so to
\* every member; for those who are not administrators the code breaks it.
Overtaken(o) ==
    LET r == rows[op[o].id] IN
    \/ r = NoRow \/ Expired(r)
    \/ \E p \in Op \ {o} : op[p] # Idle /\ op[p].id = op[o].id /\ r.hash = op[p].secret
InBanner(t) == {page[t].created} \cup (IF t \in Admin THEN {page[t].rotated} ELSE {})
ShownKeysWork ==
    \A t \in Tab : \A s \in InBanner(t) \ {None} :
        Accepts(s) \/ \E o \in Op : op[o] # Idle /\ op[o].secret = s /\ Overtaken(o)

\* rbac.go:97-98: "rotationGracePeriod is the window during which both the old and
\* new key hash are accepted after a rotation event"; the page promises the same:
\* until the grace period ends, the secret that a rotation replaced is accepted.
GraceHonoured ==
    \A id \in Secret :
        /\ rows[id] # NoRow /\ rows[id].prev # None
        /\ InGrace(rows[id]) /\ ~Expired(rows[id])
        => Accepts(rows[id].prev)

=============================================================================
