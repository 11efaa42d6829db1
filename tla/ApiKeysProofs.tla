--------------------------- MODULE ApiKeysProofs ---------------------------
(***************************************************************************)
(* The API keys for every number of calls, tabs and secrets, and every     *)
(* grace period: what is shown works.                                      *)
(***************************************************************************)
EXTENDS ApiKeys, TLAPS

(* Call o put the secret s, or meant to, into the row id. *)
Wrote(o, id, s) ==
    op[o] # Idle /\ op[o].id = id /\ op[o].secret = s /\ op[o].st \in {"list", "done"}

(* A call knows its row until it ends, and draws its secret when it says so. *)
OpOK(o) ==
    op[o] # Idle =>
       /\ op[o].st \in {"delete", "select", "update"} => op[o].id \in Secret
       /\ op[o].st = "update" => op[o].secret \in Secret
       /\ op[o].id <= drawn
(* A row holds the secret it was created with, or that of a rotation. *)
RowOK(id) ==
    rows[id] # NoRow =>
       /\ id <= drawn /\ rows[id].prefix = rows[id].hash
       /\ rows[id].hash = id \/ \E o \in Op : Wrote(o, id, rows[id].hash)
(* A secret was written by a call, and if its row holds another one now, then
   another call wrote that. *)
Held(s) ==
    \E o \in Op, id \in Secret :
       /\ Wrote(o, id, s)
       /\ \/ rows[id] = NoRow \/ rows[id].hash = s
          \/ \E p \in Op \ {o} : Wrote(p, id, rows[id].hash)
(* The inductive invariant. *)
Inv ==
    /\ TypeOK
    /\ \A o \in Op : OpOK(o)
    /\ \A id \in Secret : RowOK(id)
    /\ \A t \in Tab : \A id \in page[t].keys : id <= drawn
    /\ \A t \in Tab : \A s \in InBanner(t) \ {None} : Held(s)

LEMMA InitInv == Init => Inv
<1> SUFFICES ASSUME Init PROVE Inv
  OBVIOUS
<1>1. TypeOK
  <2>1. 1 \in Secret /\ 0 \in Time
    BY KeysAssumption DEF Secret, Time
  <2>2. rows \in [Secret -> Row \cup {NoRow}]
    BY <2>1 DEF Init, Row, None, Never
  <2>3. PICK ok \in SUBSET Tab : page = [t \in Tab |-> Loaded(t, t \in ok)]
    BY DEF Init
  <2>4. page \in [Tab -> Page]
    BY <2>3 DEF Loaded, Page, Visible
  <2>5. QED
    BY <2>1, <2>2, <2>4 DEF Init, TypeOK
<1>2. \A o \in Op : op[o] = Idle
  BY DEF Init
<1>3. \A id \in Secret : RowOK(id)
  BY DEF Init, RowOK, Secret
<1>4. \A t \in Tab : InBanner(t) = {None}
  BY DEF Init, InBanner, Loaded
<1>5. \A t \in Tab : \A id \in page[t].keys : id <= drawn
  <2>1. \A t \in Tab : page[t].keys \subseteq Visible(t)
    BY DEF Init, Loaded
  <2>2. QED
    BY <1>3, <2>1 DEF Visible, Sees, RowOK
<1>6. QED
  BY <1>1, <1>2, <1>3, <1>4, <1>5 DEF Inv, OpOK

(* What a call may become. *)
LEMMA Became ==
    ASSUME TypeOK, NEW o \in Op, op[o] # Idle
    PROVE  /\ op[o] \in Call /\ op[o].tab \in Tab
           /\ Done(op[o]) \in Call /\ Done(op[o]).st = "done"
           /\ Done(op[o]).id = op[o].id /\ Done(op[o]).secret = op[o].secret
           /\ \A st \in {"list"} : [op[o] EXCEPT !.st = st] \in Call
           /\ Ended(o) \in [Tab -> Page]
<1>1. op[o] \in Call
  BY DEF TypeOK
<1>2. op[o].tab \in Tab /\ op[o].fn \in Fn /\ op[o].id \in Secret \cup {None}
      /\ op[o].secret \in Secret \cup {None}
  BY <1>1 DEF Call
<1> DEFINE b == Blank(op[o].tab, op[o].fn, "done")
<1>3. b \in Call /\ b.st = "done"
  BY <1>2 DEF Blank, Call
<1>4. /\ Done(op[o]) \in Call /\ Done(op[o]).st = "done"
      /\ Done(op[o]).id = op[o].id /\ Done(op[o]).secret = op[o].secret
  <2>1. Done(op[o]) = [b EXCEPT !.id = op[o].id, !.secret = op[o].secret]
    BY DEF Done
  <2> HIDE DEF b
  <2>2. QED
    BY <1>2, <1>3, <2>1 DEF Call
<1>5. Ended(o) \in [Tab -> Page]
  BY <1>2 DEF Ended, TypeOK, Page, None
<1>6. \A st \in {"list"} : [op[o] EXCEPT !.st = st] \in Call
  BY <1>1 DEF Call
<1>7. QED
  BY <1>1, <1>2, <1>3, <1>4, <1>5, <1>6

(* A call goes on, and what calls wrote they have written. *)
LEMMA Goes ==
    ASSUME Inv, NEW o \in Op, NEW c \in Call, op' = [op EXCEPT ![o] = c],
           drawn' \in Secret, drawn <= drawn',
           c.st \in {"delete", "select", "update"} => c.id \in Secret,
           c.st = "update" => c.secret \in Secret,
           c.id <= drawn',
           \/ op[o] = Idle \/ op[o].st \notin {"list", "done"}
           \/ c.id = op[o].id /\ c.secret = op[o].secret /\ c.st \in {"list", "done"}
    PROVE  /\ op' \in [Op -> Call \cup {Idle}]
           /\ \A p \in Op : OpOK(p)'
           /\ \A p \in Op, id \in Secret : \A s : Wrote(p, id, s) => Wrote(p, id, s)'
<1>0. op \in [Op -> Call \cup {Idle}] /\ drawn \in Secret
  BY DEF Inv, TypeOK
<1>1. op' \in [Op -> Call \cup {Idle}]
  BY <1>0
<1>2. ASSUME NEW p \in Op PROVE OpOK(p)'
  <2>1. CASE p = o
    BY <1>0, <2>1 DEF OpOK
  <2>2. CASE p # o
    <3>1. OpOK(p) /\ op'[p] = op[p]
      BY <1>0, <2>2 DEF Inv
    <3>2. op[p] # Idle => op[p].id \in Int
      BY <1>0, KeysAssumption DEF Call, Secret, None
    <3>3. QED
      BY <1>0, <3>1, <3>2, KeysAssumption DEF OpOK, Secret
  <2>3. QED
    BY <2>1, <2>2
<1>3. ASSUME NEW p \in Op, NEW id \in Secret, NEW s, Wrote(p, id, s) PROVE Wrote(p, id, s)'
  <2>1. c # Idle
    BY DEF Call, Idle
  <2>2. QED
    BY <1>0, <1>3, <2>1 DEF Wrote
<1>4. QED
  BY <1>1, <1>2, <1>3

(* What rows, calls and banners may do to keep the invariant. *)
LEMMA Kept ==
    ASSUME Inv, TypeOK', drawn <= drawn', \A p \in Op : OpOK(p)',
           \A p \in Op, id \in Secret : \A s : Wrote(p, id, s) => Wrote(p, id, s)',
           \A id \in Secret :
              \/ rows'[id] = NoRow
              \/ /\ rows[id] # NoRow
                 /\ rows'[id].hash = rows[id].hash /\ rows'[id].prefix = rows[id].prefix
              \/ /\ drawn < id /\ id <= drawn'
                 /\ rows'[id].hash = id /\ rows'[id].prefix = id
              \/ /\ id <= drawn /\ rows'[id].prefix = rows'[id].hash
                 /\ \E q \in Op : Wrote(q, id, rows[id].hash)' /\ op[q].st = "update",
           \A t \in Tab : \A id \in page'[t].keys : id \in page[t].keys \/ rows'[id] # NoRow,
           \A t \in Tab : \A s \in InBanner(t)' \ {None} : s \in InBanner(t) \/ Held(s)'
    PROVE  Inv'
<1>1. drawn \in Int /\ drawn' \in Int /\ Secret \subseteq Int
  BY KeysAssumption DEF Inv, TypeOK, Secret
<1>2. ASSUME NEW id \in Secret PROVE RowOK(id)'
  BY <1>1, <1>2 DEF Inv, RowOK
<1>3. ASSUME NEW s, Held(s) PROVE Held(s)'
  <2>1. PICK o \in Op, id \in Secret :
            /\ Wrote(o, id, s)
            /\ \/ rows[id] = NoRow \/ rows[id].hash = s
               \/ \E p \in Op \ {o} : Wrote(p, id, rows[id].hash)
    BY <1>3 DEF Held
  <2>2. id <= drawn
    BY <1>1, <2>1 DEF Inv, OpOK, Wrote
  <2>3. Wrote(o, id, s)'
    BY <2>1
  <2>4. CASE rows'[id] = NoRow
    BY <2>3, <2>4 DEF Held
  <2>5. CASE rows[id] # NoRow /\ rows'[id].hash = rows[id].hash
    BY <2>1, <2>3, <2>5 DEF Held
  <2>6. CASE \E q \in Op : Wrote(q, id, rows[id].hash)' /\ op[q].st = "update"
    <3>1. PICK q \in Op : Wrote(q, id, rows[id].hash)' /\ op[q].st = "update"
      BY <2>6
    <3>2. q # o
      BY <2>1, <3>1 DEF Wrote
    <3>3. QED
      BY <2>3, <3>1, <3>2 DEF Held
  <2>7. QED
    BY <1>1, <2>2, <2>4, <2>5, <2>6
<1>4. ASSUME NEW t \in Tab, NEW id \in page'[t].keys PROVE id <= drawn'
  <2>1. id \in Secret
    BY DEF TypeOK, Page
  <2>2. CASE id \in page[t].keys
    BY <1>1, <2>1, <2>2 DEF Inv
  <2>3. CASE rows'[id] # NoRow
    BY <1>2, <2>1, <2>3 DEF RowOK
  <2>4. QED
    BY <2>2, <2>3
<1>5. QED
  BY <1>2, <1>3, <1>4 DEF Inv

(* A handler is called, which only the page and the call notice. *)
LEMMA Starts ==
    ASSUME Inv, NEW o \in Op, NEW t \in Tab, Start(o, t)
    PROVE  Inv'
<1> DEFINE B == [fn : Fn, id : Secret \cup {None}, expires : Nat \cup {Never}]
<1>1. op[o] = Idle /\ UNCHANGED <<rows, drawn, now, clearing>>
  BY DEF Start, HandleCreate, HandleRevoke, HandleRotate, Begin
<1>2. drawn \in Secret /\ now \in Nat /\ \A id \in Secret : 0 <= id
  BY KeysAssumption DEF Inv, TypeOK, Secret, Time
<1>3. ASSUME NEW st \in {"insert", "delete", "select"}, NEW fn \in Fn
      PROVE  Blank(t, fn, st) \in Call /\ Blank(t, fn, st).id = None /\ Blank(t, fn, st).st = st
  BY DEF Blank, Call
<1> DEFINE Begun ==
             \E c \in Call :
                /\ op' = [op EXCEPT ![o] = c]
                /\ c.st \in {"insert", "delete", "select"}
                /\ c.st \in {"delete", "select"} => c.id \in Secret
                /\ c.id <= drawn
<1>4. Begun
  <2>1. CASE HandleCreate(o, t)
    <3> DEFINE b == Blank(t, "create", "insert")
    <3>1. PICK e \in Lifetimes : op' = [op EXCEPT ![o] = [b EXCEPT !.expires = e]]
      BY <2>1 DEF HandleCreate, Begin
    <3>2. e \in Nat \cup {Never}
      BY <1>2, KeysAssumption DEF Lifetimes
    <3>3. b \in Call /\ b.id = None /\ b.st = "insert"
      BY <1>3 DEF Fn
    <3> HIDE DEF b
    <3> DEFINE c == [b EXCEPT !.expires = e]
    <3>4. c \in Call /\ c.id = None /\ c.st = "insert"
      BY <3>2, <3>3 DEF Call
    <3>5. None <= drawn
      BY <1>2 DEF None
    <3>6. op' = [op EXCEPT ![o] = c]
      BY <3>1
    <3> HIDE DEF c
    <3>7. QED
      BY <3>4, <3>5, <3>6
  <2>2. ASSUME NEW fn \in {"revoke", "rotate"}, NEW st \in {"delete", "select"}, NEW id \in Secret, id <= drawn,
               op' = [op EXCEPT ![o] = [Blank(t, fn, st) EXCEPT !.id = id]]
        PROVE  Begun
    <3> DEFINE b == Blank(t, fn, st)
    <3>1. b \in Call /\ b.st = st
      BY <1>3 DEF Fn
    <3>2. op' = [op EXCEPT ![o] = [b EXCEPT !.id = id]]
      BY <2>2
    <3> HIDE DEF b
    <3>3. [b EXCEPT !.id = id] \in Call /\ [b EXCEPT !.id = id].id = id /\ [b EXCEPT !.id = id].st = st
      BY <3>1 DEF Call
    <3>4. QED
      BY <2>2, <3>2, <3>3
  <2>3. CASE HandleRevoke(o, t)
    <3>1. PICK id \in page[t].keys : Begin(o, [Blank(t, "revoke", "delete") EXCEPT !.id = id])
      BY <2>3 DEF HandleRevoke
    <3>2. id \in Secret /\ id <= drawn
      BY DEF Inv, TypeOK, Page
    <3>3. QED
      BY <2>2, <3>1, <3>2 DEF Begin
  <2>4. CASE HandleRotate(o, t)
    <3>1. PICK id \in page[t].keys : Begin(o, [Blank(t, "rotate", "select") EXCEPT !.id = id])
      BY <2>4 DEF HandleRotate, Rotatable
    <3>2. id \in Secret /\ id <= drawn
      BY DEF Inv, TypeOK, Page
    <3>3. QED
      BY <2>2, <3>1, <3>2 DEF Begin
  <2>5. QED
    BY <2>1, <2>3, <2>4 DEF Start
<1>5. page' \in [Tab -> Page] /\ \A u \in Tab : page'[u].keys = page[u].keys /\ InBanner(u)' = InBanner(u)
  <2>1. CASE UNCHANGED page
    BY <2>1 DEF Inv, TypeOK, InBanner
  <2>2. CASE HandleRotate(o, t)
    <3>1. PICK id \in page[t].keys : page' = [page EXCEPT ![t].rotating = id]
      BY <2>2 DEF HandleRotate, Rotatable
    <3>2. id \in Secret
      BY DEF Inv, TypeOK, Page
    <3>3. QED
      BY <3>1, <3>2 DEF Inv, TypeOK, Page, InBanner
  <2>3. QED
    BY <2>1, <2>2 DEF Start, HandleCreate, HandleRevoke
<1>6. PICK c \in Call :
          /\ op' = [op EXCEPT ![o] = c]
          /\ c.st \in {"insert", "delete", "select"}
          /\ c.st \in {"delete", "select"} => c.id \in Secret
          /\ c.id <= drawn
  BY <1>4
<1>7. /\ op' \in [Op -> Call \cup {Idle}]
      /\ \A p \in Op : OpOK(p)'
      /\ \A p \in Op, id \in Secret : \A s : Wrote(p, id, s) => Wrote(p, id, s)'
  <2>1. drawn' \in Secret /\ drawn <= drawn' /\ c.id <= drawn'
    BY <1>1, <1>2, <1>6, KeysAssumption DEF Secret
  <2>2. c.st # "update"
    BY <1>6
  <2>3. QED
    BY <1>1, <1>6, <2>1, <2>2, Goes
<1>8. TypeOK'
  BY <1>1, <1>5, <1>7 DEF Inv, TypeOK
<1>9. drawn <= drawn'
  BY <1>1, <1>2, KeysAssumption DEF Secret
<1>10. QED
  BY <1>1, <1>5, <1>7, <1>8, <1>9, Kept

(* What the server does without a call: the clock, the banner, the goroutine
   that clears a hash. *)
LEMMA Alone ==
    ASSUME Inv,
           \/ \E t \in Tab : Acknowledge(t)
           \/ \E id \in Secret : Gateway(id)
           \/ Tick
           \/ UNCHANGED vars
    PROVE  Inv'
<1>1. UNCHANGED <<op, drawn>>
  BY DEF Acknowledge, Gateway, Verify, ClearPrevKeyHash, Tick, vars
<1>2. /\ \A p \in Op : OpOK(p)'
      /\ \A p \in Op, id \in Secret : \A s : Wrote(p, id, s) => Wrote(p, id, s)'
  BY <1>1 DEF Inv, OpOK, Wrote
<1>3. drawn <= drawn'
  BY <1>1, KeysAssumption DEF Inv, TypeOK, Secret
<1>4. ASSUME UNCHANGED <<rows, page>>, now' \in Time, clearing' \subseteq Secret PROVE Inv'
  <2>1. TypeOK'
    BY <1>1, <1>4 DEF Inv, TypeOK
  <2>2. \A u \in Tab : InBanner(u)' = InBanner(u)
    BY <1>4 DEF InBanner
  <2>3. QED
    BY <1>2, <1>3, <1>4, <2>1, <2>2, Kept
<1>5. ASSUME NEW t \in Tab, Acknowledge(t) PROVE Inv'
  <2>1. page' = [page EXCEPT ![t].created = None, ![t].rotated = None]
        /\ UNCHANGED <<rows, now, clearing>>
    BY <1>5 DEF Acknowledge
  <2>2. page' \in [Tab -> Page]
        /\ \A u \in Tab : page'[u].keys = page[u].keys /\ InBanner(u)' \subseteq InBanner(u) \cup {None}
    <3>1. page' = [page EXCEPT ![t] = [[page[t] EXCEPT !.created = None] EXCEPT !.rotated = None]]
      BY <2>1
    <3>2. page[t] \in Page
      BY DEF Inv, TypeOK
    <3> DEFINE p == [[page[t] EXCEPT !.created = None] EXCEPT !.rotated = None]
    <3>3. p \in Page /\ p.keys = page[t].keys /\ p.created = None /\ p.rotated = None
      BY <3>2 DEF Page
    <3>4. page \in [Tab -> Page] /\ page' = [page EXCEPT ![t] = p]
      BY <3>1 DEF Inv, TypeOK
    <3> HIDE DEF p
    <3>5. page' \in [Tab -> Page]
      BY <3>3, <3>4
    <3>6. ASSUME NEW u \in Tab
          PROVE  page'[u].keys = page[u].keys /\ InBanner(u)' \subseteq InBanner(u) \cup {None}
      <4>1. CASE u = t
        BY <3>3, <3>4, <4>1 DEF InBanner
      <4>2. CASE u # t
        BY <3>4, <4>2 DEF InBanner
      <4>3. QED
        BY <4>1, <4>2
    <3>7. QED
      BY <3>5, <3>6
  <2>3. TypeOK'
    BY <1>1, <2>1, <2>2 DEF Inv, TypeOK
  <2>4. QED
    BY <1>2, <1>3, <2>1, <2>2, <2>3, Kept
<1>6. ASSUME NEW id \in Secret, Gateway(id) PROVE Inv'
  <2>1. CASE Verify(id)
    BY <1>4, <2>1 DEF Verify, Inv, TypeOK
  <2>2. CASE ClearPrevKeyHash(id)
    <3>1. CASE UNCHANGED rows
      BY <1>4, <2>2, <3>1 DEF ClearPrevKeyHash, Inv, TypeOK
    <3>2. CASE rows[id] # NoRow /\ rows' = [rows EXCEPT ![id].prev = None]
      <4>1. UNCHANGED <<page, now>> /\ clearing' \subseteq Secret
        BY <2>2 DEF ClearPrevKeyHash, Inv, TypeOK
      <4>2. rows[id] \in Row
        BY <3>2 DEF Inv, TypeOK
      <4>3. rows' \in [Secret -> Row \cup {NoRow}]
        BY <3>2, <4>2 DEF Inv, TypeOK, Row
      <4>4. \A k \in Secret : rows[k] # NoRow => rows'[k].hash = rows[k].hash /\ rows'[k].prefix = rows[k].prefix
        BY <3>2, <4>2 DEF Inv, TypeOK, Row
      <4>5. \A k \in Secret : rows[k] = NoRow => rows'[k] = NoRow
        BY <3>2 DEF Inv, TypeOK
      <4>6. TypeOK'
        BY <1>1, <4>1, <4>3 DEF Inv, TypeOK
      <4>7. \A u \in Tab : InBanner(u)' = InBanner(u)
        BY <4>1 DEF InBanner
      <4>8. QED
        BY <1>2, <1>3, <4>1, <4>4, <4>5, <4>6, <4>7, Kept
    <3>3. QED
      BY <2>2, <3>1, <3>2 DEF ClearPrevKeyHash
  <2>3. QED
    BY <1>6, <2>1, <2>2 DEF Gateway
<1>7. CASE Tick
  BY <1>4, <1>7, KeysAssumption DEF Tick, Inv, TypeOK, Time
<1>8. CASE UNCHANGED vars
  BY <1>4, <1>8 DEF vars, Inv, TypeOK
<1>9. QED
  BY <1>5, <1>6, <1>7, <1>8

-----------------------------------------------------------------------------
(* The calls, step by step                                                  *)

(* A call throws, or ends otherwise: its page has its buttons back. *)
LEMMA Ends ==
    ASSUME TypeOK, NEW o \in Op, op[o] # Idle
    PROVE  /\ Ended(o) \in [Tab -> Page]
           /\ \A u \in Tab : /\ Ended(o)[u].keys = page[u].keys /\ Ended(o)[u].created = page[u].created
                             /\ Ended(o)[u].rotated = page[u].rotated
<1>1. op[o].tab \in Tab /\ Ended(o) \in [Tab -> Page]
  BY Became
<1>2. PICK n : Ended(o) = [page EXCEPT ![op[o].tab].rotating = n]
  BY DEF Ended
<1>3. QED
  BY <1>1, <1>2 DEF TypeOK, Page

(* A call that is under way goes on to c. *)
LEMMA Serves ==
    ASSUME Inv, NEW o \in Op, op[o] # Idle, op[o].st \notin {"done"}, NEW c,
           \/ c = Done(op[o])
           \/ c \in Call /\ op[o].st # "list" /\ c.st = "list" /\ c.id = op[o].id /\ c.secret = op[o].secret,
           op' = [op EXCEPT ![o] = c], UNCHANGED drawn
    PROVE  /\ op' \in [Op -> Call \cup {Idle}]
           /\ \A p \in Op : OpOK(p)'
           /\ \A p \in Op, id \in Secret : \A s : Wrote(p, id, s) => Wrote(p, id, s)'
           /\ drawn <= drawn'
           /\ \A id, s : id = op[o].id /\ s = op[o].secret => Wrote(o, id, s)'
<1>1. c \in Call /\ c.st \in {"list", "done"} /\ c.id = op[o].id /\ c.secret = op[o].secret
  BY Became DEF Inv
<1>2. drawn \in Secret /\ drawn' \in Secret /\ drawn <= drawn'
  BY KeysAssumption DEF Inv, TypeOK, Secret
<1>3. c.id <= drawn'
  BY <1>1 DEF Inv, OpOK
<1>4. op'[o] = c /\ c # Idle
  BY <1>1 DEF Inv, TypeOK, Call, Idle
<1>5. \A id, s : id = op[o].id /\ s = op[o].secret => Wrote(o, id, s)'
  BY <1>1, <1>4 DEF Wrote
<1>6. QED
  BY <1>1, <1>2, <1>3, <1>5, Goes

(* The page keeps its lists and banners. *)
LEMMA Same ==
    ASSUME TypeOK, NEW o \in Op, op[o] # Idle, page' \in {page, Ended(o)}
    PROVE  /\ page' \in [Tab -> Page]
           /\ \A u \in Tab : page'[u].keys = page[u].keys /\ InBanner(u)' = InBanner(u)
BY Ends DEF InBanner, TypeOK

(* What the call reads of itself. *)
LEMMA Own ==
    ASSUME TypeOK, NEW o \in Op, NEW st \in {"insert", "delete", "select", "update", "list"}, At(o, st)
    PROVE  /\ op[o] \in Call /\ op[o] # Idle /\ op[o].st = st /\ op[o].tab \in Tab
           /\ st # "list" => [op[o] EXCEPT !.st = "list"] \in Call
           /\ [op[o] EXCEPT !.st = "list"].st = "list" /\ [op[o] EXCEPT !.st = "list"].id = op[o].id
           /\ [op[o] EXCEPT !.st = "list"].secret = op[o].secret
BY DEF At, TypeOK, Call

LEMMA Revoked == ASSUME Inv, NEW o \in Op, RevokeApiKey(o) PROVE Inv'
<1>1. TypeOK /\ At(o, "delete") /\ UNCHANGED <<drawn, now, clearing>>
  BY DEF RevokeApiKey, Inv
<1>2. op[o] \in Call /\ op[o] # Idle /\ op[o].st = "delete" /\ op[o].id \in Secret
  BY <1>1, Own DEF Inv, OpOK
<1>3. PICK c : /\ op' = [op EXCEPT ![o] = c]
               /\ c \in {Done(op[o]), [op[o] EXCEPT !.st = "list"]}
  BY DEF RevokeApiKey, Throw, End, Goto
<1>4. /\ op' \in [Op -> Call \cup {Idle}]
      /\ \A p \in Op : OpOK(p)'
      /\ \A p \in Op, id \in Secret : \A s : Wrote(p, id, s) => Wrote(p, id, s)'
      /\ drawn <= drawn'
  <2>1. \/ c = Done(op[o])
        \/ c \in Call /\ c.st = "list" /\ c.id = op[o].id /\ c.secret = op[o].secret
    BY <1>1, <1>3, Own
  <2>2. op[o].st # "list" /\ op[o].st \notin {"done"}
    BY <1>2
  <2>3. QED
    BY <1>1, <1>2, <1>3, <2>1, <2>2, Serves
<1>5. /\ page' \in [Tab -> Page]
      /\ \A u \in Tab : page'[u].keys = page[u].keys /\ InBanner(u)' = InBanner(u)
  <2>1. page' \in {page, Ended(o)}
    BY DEF RevokeApiKey, Throw
  <2>2. QED
    BY <1>1, <1>2, <2>1, Same
<1>6. rows' \in [Secret -> Row \cup {NoRow}] /\ \A id \in Secret : rows'[id] \in {NoRow, rows[id]}
  BY <1>1, <1>2 DEF RevokeApiKey, TypeOK
<1>7. TypeOK'
  BY <1>1, <1>4, <1>5, <1>6 DEF TypeOK
<1>8. QED
  BY <1>4, <1>5, <1>6, <1>7, Kept

LEMMA Selected == ASSUME Inv, NEW o \in Op, RotateSelect(o) PROVE Inv'
<1>1. TypeOK /\ At(o, "select") /\ UNCHANGED <<rows, now, clearing>>
  BY DEF RotateSelect, Inv
<1>2. op[o] \in Call /\ op[o] # Idle /\ op[o].st = "select" /\ op[o].id \in Secret /\ op[o].id <= drawn
  BY <1>1, Own DEF Inv, OpOK
<1>3. /\ page' \in [Tab -> Page]
      /\ \A u \in Tab : page'[u].keys = page[u].keys /\ InBanner(u)' = InBanner(u)
  <2>1. page' \in {page, Ended(o)}
    BY DEF RotateSelect, Throw
  <2>2. QED
    BY <1>1, <1>2, <2>1, Same
<1>4. /\ op' \in [Op -> Call \cup {Idle}]
      /\ \A p \in Op : OpOK(p)'
      /\ \A p \in Op, id \in Secret : \A s : Wrote(p, id, s) => Wrote(p, id, s)'
      /\ drawn <= drawn' /\ drawn' \in Secret
  <2>1. CASE op' = [op EXCEPT ![o] = Done(op[o])] /\ UNCHANGED drawn
    <3>1. op[o].st \notin {"done"}
      BY <1>2
    <3>2. QED
      BY <1>1, <1>2, <2>1, <3>1, Serves DEF TypeOK
  <2>2. CASE /\ Sees(op[o].tab, rows[op[o].id])
             /\ drawn < MaxSecret /\ drawn' = drawn + 1
             /\ op' = [op EXCEPT ![o] = [@ EXCEPT !.st = "update", !.secret = drawn + 1,
                                                  !.prev = rows[op[o].id].hash]]
    <3> DEFINE c == [[[op[o] EXCEPT !.st = "update"] EXCEPT !.secret = drawn + 1]
                        EXCEPT !.prev = rows[op[o].id].hash]
    <3>1. drawn' \in Secret /\ drawn <= drawn' /\ op[o].id <= drawn'
      BY <1>1, <1>2, <2>2, KeysAssumption DEF TypeOK, Secret
    <3>2. rows[op[o].id].hash \in Secret
      BY <1>1, <1>2, <2>2 DEF Sees, TypeOK, Row
    <3>3. c \in Call /\ c.st = "update" /\ c.id = op[o].id /\ c.secret = drawn'
      BY <1>2, <2>2, <3>1, <3>2 DEF Call
    <3>4. op' = [op EXCEPT ![o] = c]
      BY <2>2
    <3> HIDE DEF c
    <3>5. QED
      BY <1>2, <3>1, <3>3, <3>4, Goes
  <2>3. QED
    BY <2>1, <2>2 DEF RotateSelect, Throw, End
<1>5. TypeOK'
  BY <1>1, <1>3, <1>4 DEF TypeOK
<1>6. QED
  BY <1>1, <1>3, <1>4, <1>5, Kept

(* The UPDATE takes the row, if it takes any, to the secret of the call; an
   administrator who is shown that secret had the row updated, or it is gone. *)
LEMMA Updated == ASSUME Inv, NEW o \in Op, RotateUpdate(o) PROVE Inv'
<1> DEFINE id == op[o].id
           s == op[o].secret
           t == op[o].tab
<1>1. TypeOK /\ At(o, "update") /\ UNCHANGED <<drawn, now, clearing>>
  BY DEF RotateUpdate, Inv
<1>2. /\ op[o] \in Call /\ op[o] # Idle /\ op[o].st = "update" /\ t \in Tab
      /\ id \in Secret /\ id <= drawn /\ s \in Secret
  BY <1>1, Own DEF Inv, OpOK
<1>3. PICK c : /\ op' = [op EXCEPT ![o] = c]
               /\ c \in {Done(op[o]), [op[o] EXCEPT !.st = "list"]}
  BY DEF RotateUpdate, Throw, End, Goto
<1>4. /\ op' \in [Op -> Call \cup {Idle}]
      /\ \A p \in Op : OpOK(p)'
      /\ \A p \in Op, k \in Secret : \A r : Wrote(p, k, r) => Wrote(p, k, r)'
      /\ drawn <= drawn'
      /\ \A k, r : k = id /\ r = s => Wrote(o, k, r)'
  <2>1. \/ c = Done(op[o])
        \/ c \in Call /\ c.st = "list" /\ c.id = op[o].id /\ c.secret = op[o].secret
    BY <1>1, <1>3, Own
  <2>2. op[o].st # "list" /\ op[o].st \notin {"done"}
    BY <1>2
  <2>3. QED
    BY <1>1, <1>2, <1>3, <2>1, <2>2, Serves
<1>5. \/ rows' = rows
      \/ /\ rows[id] # NoRow
         /\ rows' = [rows EXCEPT ![id] = Rotated(rows[id], op[o])]
  BY <1>1, <1>2 DEF RotateUpdate, MayUpdate, TypeOK
<1>6. rows[id] # NoRow =>
         /\ Rotated(rows[id], op[o]) \in Row
         /\ Rotated(rows[id], op[o]).hash = s /\ Rotated(rows[id], op[o]).prefix = s
  <2> SUFFICES ASSUME rows[id] # NoRow PROVE <1>6!2
    OBVIOUS
  <2>1. rows[id] \in Row /\ op[o].prev \in Secret \cup {None} /\ now \in Time
    BY <1>1, <1>2 DEF TypeOK, Call
  <2> DEFINE r == [[[rows[id] EXCEPT !.prefix = s] EXCEPT !.hash = s] EXCEPT !.prev = op[o].prev]
  <2>2. r \in Row /\ r.prefix = s /\ r.hash = s
    BY <1>2, <2>1 DEF Row
  <2>3. Rotated(rows[id], op[o]) = [r EXCEPT !.rotated = now]
    BY DEF Rotated
  <2> HIDE DEF r
  <2>4. QED
    BY <2>1, <2>2, <2>3 DEF Row
<1>7. /\ rows' \in [Secret -> Row \cup {NoRow}]
      /\ \A k \in Secret :
            \/ rows'[k] = rows[k]
            \/ k = id /\ rows'[k].hash = s /\ rows'[k].prefix = s
  BY <1>1, <1>5, <1>6 DEF TypeOK
<1>8. /\ page' \in [Tab -> Page]
      /\ \A u \in Tab : page'[u].keys = page[u].keys
      /\ \A u \in Tab : InBanner(u)' \subseteq
            InBanner(u) \cup (IF u = t /\ page'[u].rotated = s THEN {s} ELSE {})
      /\ page' = [page EXCEPT ![t].rotated = s] \/ \A u \in Tab : InBanner(u)' = InBanner(u)
  <2>1. CASE page' = Ended(o)
    BY <1>1, <1>2, <2>1, Same
  <2>2. CASE page' = [page EXCEPT ![t].rotated = s]
    BY <1>1, <1>2, <2>2 DEF TypeOK, Page, InBanner
  <2>3. QED
    BY <2>1, <2>2 DEF RotateUpdate, Throw
<1>9. TypeOK'
  BY <1>1, <1>4, <1>7, <1>8 DEF TypeOK
<1>10. ASSUME NEW u \in Tab, NEW x \in InBanner(u)' \ {None} PROVE x \in InBanner(u) \/ Held(x)'
  <2>1. CASE page' = [page EXCEPT ![t].rotated = s] /\ u = t /\ x = s
    <3>1. CASE t \in Admin
      <4>1. page' # Ended(o) \/ x \in InBanner(u)
        BY <1>1, <1>2, Ends DEF InBanner
      <4>2. rows'[id] = NoRow \/ rows'[id].hash = s \/ x \in InBanner(u)
        BY <1>1, <1>2, <1>6, <3>1, <4>1 DEF RotateUpdate, MayUpdate, Throw, TypeOK
      <4>3. QED
        BY <1>2, <1>4, <2>1, <4>2 DEF Held
    <3>2. CASE t \notin Admin
      BY <1>1, <1>2, <2>1, <3>2 DEF InBanner, TypeOK, Page
    <3>3. QED
      BY <3>1, <3>2
  <2>2. QED
    BY <1>8, <2>1
<1>11. \A k \in Secret :
              \/ rows'[k] = NoRow
              \/ /\ rows[k] # NoRow
                 /\ rows'[k].hash = rows[k].hash /\ rows'[k].prefix = rows[k].prefix
              \/ /\ k <= drawn /\ rows'[k].prefix = rows'[k].hash
                 /\ \E q \in Op : Wrote(q, k, rows[k].hash)' /\ op[q].st = "update"
  BY <1>2, <1>4, <1>7
<1> HIDE DEF id, s, t
<1>12. QED
  BY <1>4, <1>8, <1>9, <1>10, <1>11, Kept

LEMMA Listed == ASSUME Inv, NEW o \in Op, GetApiKeys(o) PROVE Inv'
<1>1. TypeOK /\ At(o, "list") /\ op' = [op EXCEPT ![o] = Done(op[o])]
      /\ UNCHANGED <<rows, drawn, now, clearing>>
  BY DEF GetApiKeys, Throw, End, Inv
<1>2. op[o] # Idle /\ op[o].st = "list" /\ op[o].tab \in Tab
  BY <1>1, Own
<1>3. /\ op' \in [Op -> Call \cup {Idle}]
      /\ \A p \in Op : OpOK(p)'
      /\ \A p \in Op, k \in Secret : \A r : Wrote(p, k, r) => Wrote(p, k, r)'
      /\ drawn <= drawn'
  <2>1. op[o].st \notin {"done"}
    BY <1>2
  <2>2. QED
    BY <1>1, <1>2, <2>1, Serves
<1>4. /\ page' \in [Tab -> Page]
      /\ \A u \in Tab : /\ page'[u].keys \subseteq page[u].keys \cup Visible(u)
                        /\ InBanner(u)' = InBanner(u)
  <2>1. CASE page' = Ended(o)
    BY <1>1, <1>2, <2>1, Same
  <2>2. CASE page' = [Ended(o) EXCEPT ![op[o].tab].keys = Visible(op[o].tab)]
    <3>1. Visible(op[o].tab) \subseteq Secret
      BY DEF Visible
    <3>2. page' \in [Tab -> Page]
      BY <1>1, <1>2, <2>2, <3>1, Ends, SMTT(30) DEF Page
    <3>3. QED
      BY <1>1, <1>2, <2>2, <3>2, Ends DEF InBanner, Page
  <2>3. QED
    BY <2>1, <2>2 DEF GetApiKeys, Throw
<1>5. \A u \in Tab : \A id \in page'[u].keys : id \in page[u].keys \/ rows'[id] # NoRow
  BY <1>1, <1>4 DEF Visible, Sees
<1>6. TypeOK'
  BY <1>1, <1>3, <1>4 DEF TypeOK
<1>7. QED
  BY <1>1, <1>3, <1>4, <1>5, <1>6, Kept

LEMMA Inserted == ASSUME Inv, NEW o \in Op, CreateApiKey(o) PROVE Inv'
<1> DEFINE s == drawn + 1
           t == op[o].tab
<1>1. TypeOK /\ At(o, "insert") /\ UNCHANGED <<now, clearing>>
  BY DEF CreateApiKey, Inv
<1>2. op[o] \in Call /\ op[o] # Idle /\ op[o].st = "insert" /\ t \in Tab /\ op[o].id <= drawn
  BY <1>1, Own DEF Inv, OpOK
<1>3. CASE UNCHANGED <<rows, drawn>> /\ Throw(o)
  <2>1. op[o].st \notin {"done"}
    BY <1>2
  <2>2. /\ op' \in [Op -> Call \cup {Idle}]
        /\ \A p \in Op : OpOK(p)'
        /\ \A p \in Op, k \in Secret : \A r : Wrote(p, k, r) => Wrote(p, k, r)'
        /\ drawn <= drawn'
    BY <1>2, <1>3, <2>1, Serves DEF Throw, End
  <2>3. /\ page' \in [Tab -> Page]
        /\ \A u \in Tab : page'[u].keys = page[u].keys /\ InBanner(u)' = InBanner(u)
    BY <1>1, <1>2, <1>3, Same DEF Throw
  <2>4. TypeOK'
    BY <1>1, <1>3, <2>2, <2>3 DEF TypeOK
  <2>5. QED
    BY <1>3, <2>2, <2>3, <2>4, Kept
<1>4. CASE /\ drawn < MaxSecret /\ drawn' = s
           /\ rows' = [rows EXCEPT ![s] = Created(o, s)]
           /\ \/ /\ op' = [op EXCEPT ![o] = [@ EXCEPT !.st = "list", !.secret = s, !.id = s]]
                 /\ page' = [page EXCEPT ![t].created = s]
              \/ Throw(o)
  <2>1. s \in Secret /\ drawn < s /\ op[o].id <= s
    BY <1>1, <1>2, <1>4, KeysAssumption DEF TypeOK, Secret, Call, None
  <2> DEFINE l == [[[op[o] EXCEPT !.st = "list"] EXCEPT !.secret = s] EXCEPT !.id = s]
  <2>2. l \in Call /\ l.st = "list" /\ l.secret = s /\ l.id = s
    BY <1>2, <2>1 DEF Call
  <2>3. Done(op[o]) \in Call /\ Done(op[o]).st = "done" /\ Done(op[o]).id = op[o].id
    BY <1>1, <1>2, Became
  <2>4. op' = [op EXCEPT ![o] = l] \/ op' = [op EXCEPT ![o] = Done(op[o])]
    BY <1>4 DEF Throw, End
  <2>5. PICK c \in Call : op' = [op EXCEPT ![o] = c] /\ c.st \in {"list", "done"} /\ c.id <= s
    <3> HIDE DEF l
    <3>1. s <= s
      BY <2>1, KeysAssumption DEF Secret
    <3>2. QED
      BY <2>1, <2>2, <2>3, <2>4, <3>1
  <2>6. /\ op' \in [Op -> Call \cup {Idle}]
        /\ \A p \in Op : OpOK(p)'
        /\ \A p \in Op, k \in Secret : \A r : Wrote(p, k, r) => Wrote(p, k, r)'
        /\ drawn <= drawn' /\ drawn' \in Secret
    <3>1. drawn' \in Secret /\ drawn <= drawn'
      BY <1>1, <1>4, <2>1, KeysAssumption DEF TypeOK, Secret
    <3>2. QED
      BY <1>2, <1>4, <2>5, <3>1, Goes
  <2>7. Created(o, s) \in Row /\ Created(o, s).hash = s /\ Created(o, s).prefix = s
    <3>1. op[o].expires \in Nat \cup {Never} /\ 0 \in Time
      BY <1>2, KeysAssumption DEF Call, Time
    <3>2. QED
      BY <1>2, <2>1, <3>1 DEF Created, Row
  <2>8. rows' \in [Secret -> Row \cup {NoRow}]
        /\ \A k \in Secret : rows'[k] = rows[k] \/ (k = s /\ rows'[k].hash = s /\ rows'[k].prefix = s)
    BY <1>1, <1>4, <2>7 DEF TypeOK
  <2>9. /\ page' \in [Tab -> Page]
        /\ \A u \in Tab : page'[u].keys = page[u].keys
    <3>1. CASE page' = [page EXCEPT ![t].created = s]
      BY <1>1, <1>2, <2>1, <3>1 DEF TypeOK, Page
    <3>2. CASE page' = Ended(o)
      BY <1>1, <1>2, <3>2, Same
    <3>3. QED
      BY <1>4, <3>1, <3>2 DEF Throw
  <2>10. ASSUME NEW u \in Tab, NEW x \in InBanner(u)' \ {None} PROVE x \in InBanner(u) \/ Held(x)'
    <3>1. CASE page' = [page EXCEPT ![t].created = s] /\ op' = [op EXCEPT ![o] = l]
      <4>1. x \in InBanner(u) \/ x = s
        BY <1>1, <1>2, <2>1, <3>1 DEF InBanner, TypeOK, Page
      <4>2. \A k, r : k = s /\ r = s => Wrote(o, k, r)'
        <5>1. op'[o] = l /\ l # Idle
          BY <1>1, <2>2, <3>1 DEF TypeOK, Call, Idle
        <5> HIDE DEF l
        <5>2. QED
          BY <2>2, <5>1 DEF Wrote
      <4>3. rows'[s].hash = s
        BY <1>1, <1>4, <2>1, <2>7 DEF TypeOK
      <4>4. QED
        BY <2>1, <4>1, <4>2, <4>3 DEF Held
    <3>2. CASE page' = Ended(o)
      BY <1>1, <1>2, <3>2, Same
    <3>3. QED
      BY <1>4, <3>1, <3>2 DEF Throw
  <2>11. TypeOK'
    BY <1>1, <2>6, <2>8, <2>9 DEF TypeOK
  <2>12. \A k \in Secret :
            \/ rows'[k] = NoRow
            \/ /\ rows[k] # NoRow
               /\ rows'[k].hash = rows[k].hash /\ rows'[k].prefix = rows[k].prefix
            \/ drawn < k /\ k <= drawn' /\ rows'[k].hash = k /\ rows'[k].prefix = k
    <3>1. s <= drawn'
      BY <1>4, <2>1, KeysAssumption DEF Secret
    <3>2. QED
      BY <2>1, <2>8, <3>1
  <2> HIDE DEF s, t, l
  <2>13. QED
    BY <2>6, <2>9, <2>10, <2>11, <2>12, Kept
<1>5. QED
  BY <1>3, <1>4 DEF CreateApiKey

LEMMA NextInv == Inv /\ [Next]_vars => Inv'
BY Starts, Alone, Inserted, Revoked, Selected, Updated, Listed DEF Next, Serve

(* The types, and who wrote each hash, of every reachable state. *)
THEOREM Typing == Spec => []TypeOK
<1>1. Inv => TypeOK
  BY DEF Inv
<1>2. QED
  BY InitInv, NextInv, <1>1, PTL DEF Spec

(* A key in the banner works, unless its row was revoked, has expired or was
   rotated by another call: handleCreate and handleRotate of the keys page. *)
THEOREM Banner == Spec => []ShownKeysWork
<1>1. Inv => ShownKeysWork
  <2> SUFFICES ASSUME Inv, NEW t \in Tab, NEW s \in InBanner(t) \ {None}
               PROVE  Accepts(s) \/ \E o \in Op : op[o] # Idle /\ op[o].secret = s /\ Overtaken(o)
    BY DEF ShownKeysWork
  <2>1. PICK o \in Op, id \in Secret :
            /\ Wrote(o, id, s)
            /\ \/ rows[id] = NoRow \/ rows[id].hash = s
               \/ \E p \in Op \ {o} : Wrote(p, id, rows[id].hash)
    BY DEF Inv, Held
  <2>2. op[o] # Idle /\ op[o].secret = s /\ op[o].id = id
    BY <2>1 DEF Wrote
  <2>3. CASE rows[id] = NoRow \/ Expired(rows[id])
    BY <2>2, <2>3 DEF Overtaken
  <2>4. CASE rows[id] # NoRow /\ ~Expired(rows[id]) /\ rows[id].hash = s
    BY <2>4 DEF Inv, RowOK, Accepts, Matches
  <2>5. CASE \E p \in Op \ {o} : Wrote(p, id, rows[id].hash)
    BY <2>2, <2>5 DEF Overtaken, Wrote
  <2>6. QED
    BY <2>1, <2>3, <2>4, <2>5
<1>2. QED
  BY InitInv, NextInv, <1>1, PTL DEF Spec
=============================================================================
