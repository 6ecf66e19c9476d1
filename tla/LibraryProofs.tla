--------------------------- MODULE LibraryProofs ---------------------------
(***************************************************************************)
(* Identifiers are unique, are not read once deleted, the executor finds   *)
(* every block of a flow, and locate_element what is in the tree; a call   *)
(* to a block is in one place, and a value comes of one run: for every     *)
(* number of threads and elements.                                         *)
(*                                                                         *)
(* An identifier in the set has one owner: an element that points to it,   *)
(* or a thread that has allocated it and not yet given it to its element,  *)
(* or has taken it away and not yet freed it.  set_uid exchanges the two   *)
(* owners; that nobody destroys or renames the element meanwhile is what   *)
(* makes it an exchange.                                                   *)
(*                                                                         *)
(* Parents and children refer to each other, of elements that are gone as  *)
(* well, and a child keeps its parent (BranchesOK); the way of a child to  *)
(* the root is that of its parent, one step later.                         *)
(*                                                                         *)
(* A caller waits for at most one element, where it is queued once or is   *)
(* in the method that runs; CallInv adds that an actor outside a method    *)
(* calls nobody, which makes the end of a nested call a single hand-over.  *)
(***************************************************************************)
EXTENDS Library, Loops, FiniteSetTheorems, SequenceTheorems, TLAPS

Owners == Threads \cup Elements

Owns(x, u) ==
    \/ x \in alive /\ uid[x] = u
    \/ x \in Threads /\ doing[x].op = "set" /\ doing[x].new = u
    \/ x \in Threads /\ doing[x].op = "free" /\ doing[x].old = u

OwnersOK ==
    /\ \A x, y \in Owners : \A u \in Nat : Owns(x, u) /\ Owns(y, u) => x = y
    /\ \A u \in Nat : u \in uid_set <=> \E x \in Owners : Owns(x, u)

\* what the call of a thread says of its element, and of the lock
CallsOK ==
    /\ user \subseteq alive /\ alive \cap unused = {}
    /\ \A t \in Threads :
        LET d == doing[t] IN
        /\ d.op = "construct" => d.elem \in Elements \ (alive \cup unused)
        /\ d.op = "set" => d.elem \in user /\ uid[d.elem] = d.old
        /\ d.op = "get" => uid_mutex = t /\ d.old \in uid_set
    /\ \A t, u \in Threads :
        doing[t].op \in {"construct", "set"} /\ doing[u].op = doing[t].op
            /\ doing[u].elem = doing[t].elem => t = u

Flows == {Flow(a, b) : a \in Elements, b \in Elements}

FlowsOK ==
    /\ flows \in [Elements -> SUBSET Flows]
    /\ \A h \in Elements : \A f \in flows[h] :
           h \in alive /\ f.src.elem \in alive /\ f.sink.elem \in alive

TreeInv == TreeTypeOK /\ CallsOK /\ OwnersOK /\ FlowsOK

---------------------------------------------------------------------------
(* What is left when references are dropped.                               *)

LEMMA SurvivorsLive ==
    ASSUME NEW us, NEW fl
    PROVE  Survivors(us, fl) \subseteq alive
BY DEF Survivors

\* an element whose object is held, by the user or from a survivor's flow
LEMMA HeldSurvives ==
    ASSUME NEW us, NEW fl, NEW e \in alive, Supported(e, Survivors(us, fl), us, fl)
    PROVE  e \in Survivors(us, fl)
<1>1. PICK s : s = Survivors(us, fl)
  OBVIOUS
<1>2. s \subseteq alive
  BY <1>1, SurvivorsLive
<1>3. ASSUME NEW a \in s PROVE Supported(a, s \cup {e}, us, fl)
  <2>1. PICK r \in SUBSET alive : a \in r /\ \A b \in r : Supported(b, r, us, fl)
    BY <1>1, <1>3 DEF Survivors
  <2>2. r \subseteq s
    BY <1>1, <2>1 DEF Survivors
  <2>3. Supported(a, r, us, fl)
    BY <2>1
  <2>4. Ports(r, fl) \subseteq Ports(s \cup {e}, fl)
    BY <2>2 DEF Ports
  <2>5. Holding(r, fl) \subseteq Holding(s \cup {e}, fl)
    BY <2>4 DEF Holding
  <2>6. QED
    BY <2>2, <2>3, <2>5 DEF Supported
<1>4. Supported(e, s \cup {e}, us, fl)
  <2>1. Supported(e, s, us, fl)
    BY <1>1
  <2>2. Holding(s, fl) \subseteq Holding(s \cup {e}, fl)
    BY DEF Holding, Ports
  <2>3. QED
    BY <2>1, <2>2 DEF Supported
<1>5. s \cup {e} \in SUBSET alive /\ \A a \in s \cup {e} : Supported(a, s \cup {e}, us, fl)
  BY <1>2, <1>3, <1>4
<1>6. e \in UNION {r \in SUBSET alive : \A a \in r : Supported(a, r, us, fl)}
  BY <1>5
<1>7. QED
  BY <1>6 DEF Survivors

LEMMA UserSurvives ==
    ASSUME NEW us, NEW fl, us \subseteq alive
    PROVE  us \subseteq Survivors(us, fl)
BY HeldSurvives DEF Supported

\* a flow of a survivor keeps its ends
LEMMA FlowSurvives ==
    ASSUME NEW us, NEW fl, FlowsOK, NEW h \in Survivors(us, fl), h \in Elements,
           fl[h] \subseteq flows[h], NEW f \in fl[h]
    PROVE  f.src.elem \in Survivors(us, fl) /\ f.sink.elem \in Survivors(us, fl)
<1>1. f \in flows[h] /\ f.src.elem \in alive /\ f.sink.elem \in alive
  BY DEF FlowsOK
<1>2. PICK a \in Elements, b \in Elements : f = Flow(a, b)
  BY <1>1 DEF FlowsOK, Flows
<1>3. f.src.by # "pointer" /\ f.sink.by # "pointer"
  BY <1>2 DEF Flow, GetRef
<1>4. {f.src, f.sink} \subseteq Ports(Survivors(us, fl), fl)
  BY DEF Ports
<1>5. {f.src.elem, f.sink.elem} \subseteq Holding(Survivors(us, fl), fl)
  BY <1>3, <1>4 DEF Holding
<1>6. QED
  BY <1>1, <1>5, HeldSurvives DEF Supported

LEMMA ElementsAreNoThreads == \A x \in Elements : x \notin Threads /\ x # None
BY UsersAssumption

(* ~ElementImpl of whatever lost its last handle.                          *)
LEMMA SettleKeeps ==
    ASSUME TreeInv, NEW us \in SUBSET user, NEW fl \in [Elements -> SUBSET Flows],
           \A h \in Elements : fl[h] \subseteq flows[h],
           \A t \in Threads : doing[t].op = "set" => doing[t].elem \in us,
           Settle(us, fl), uid_mutex = None, doing' = doing
    PROVE  TreeInv'
<1>1. PICK s : s = Survivors(us, fl)
  OBVIOUS
<1>2. /\ user' = us /\ alive' = s
      /\ flows' = [h \in Elements |-> IF h \in s THEN fl[h] ELSE {}]
      /\ uid_set' = uid_set \ {uid[e] : e \in alive \ s}
      /\ uid_mutex' = uid_mutex /\ uid' = uid /\ parent' = parent
      /\ children' = children /\ unused' = unused
  BY <1>1 DEF Settle
<1>3. us \subseteq s /\ s \subseteq alive /\ alive \subseteq Elements
  BY <1>1, SurvivorsLive, UserSurvives DEF TreeInv, CallsOK, TreeTypeOK
<1>4. TreeTypeOK'
  BY <1>2, <1>3 DEF TreeInv, TreeTypeOK
<1>5. \A t \in Threads : doing[t].op # "get"
  BY UsersAssumption DEF TreeInv, CallsOK
<1>6. CallsOK'
  BY <1>2, <1>3, <1>5 DEF TreeInv, CallsOK
<1>7. \A x \in Owners, u \in Nat : Owns(x, u)' <=> Owns(x, u) /\ x \notin alive \ s
  BY <1>2, <1>3, ElementsAreNoThreads DEF Owns
<1>8. \A x \in alive : Owns(x, uid[x]) /\ x \in Owners /\ uid[x] \in Nat
  BY DEF Owns, Owners, TreeInv, TreeTypeOK
<1>9. \A x, y \in Owners : \A u \in Nat : Owns(x, u)' /\ Owns(y, u)' => x = y
  BY <1>7 DEF TreeInv, OwnersOK
<1>10. ASSUME NEW u \in Nat PROVE u \in uid_set' <=> \E x \in Owners : Owns(x, u)'
  <2>1. ASSUME u \in uid_set' PROVE \E x \in Owners : Owns(x, u)'
    <3>1. PICK x \in Owners : Owns(x, u)
      BY <1>2, <2>1 DEF TreeInv, OwnersOK
    <3>2. x \notin alive \ s
      <4>1. SUFFICES ASSUME x \in alive \ s PROVE FALSE
        OBVIOUS
      <4>2. uid[x] = u
        BY <3>1, <4>1, <1>3, ElementsAreNoThreads DEF Owns
      <4>3. QED
        BY <1>2, <2>1, <4>1, <4>2
    <3>3. QED
      BY <3>1, <3>2, <1>7
  <2>2. ASSUME NEW x \in Owners, Owns(x, u)' PROVE u \in uid_set'
    <3>1. Owns(x, u) /\ x \notin alive \ s
      BY <2>2, <1>7
    <3>2. u \in uid_set
      BY <3>1 DEF TreeInv, OwnersOK
    <3>3. \A e \in alive \ s : uid[e] # u
      BY <3>1, <1>8 DEF TreeInv, OwnersOK
    <3>4. QED
      BY <1>2, <3>2, <3>3
  <2>3. QED
    BY <2>1, <2>2
<1>11. OwnersOK'
  BY <1>9, <1>10 DEF OwnersOK
<1>12. FlowsOK'
  <2>1. flows' \in [Elements -> SUBSET Flows]
    BY <1>2
  <2>2. ASSUME NEW h \in Elements, NEW f \in flows'[h]
        PROVE  h \in s /\ f.src.elem \in s /\ f.sink.elem \in s
    <3>1. h \in s /\ f \in fl[h]
      BY <1>2, <2>2
    <3>2. QED
      BY <3>1, <1>1, FlowSurvives DEF TreeInv
  <2>3. QED
    BY <2>1, <2>2, <1>2 DEF FlowsOK
<1>13. QED
  BY <1>4, <1>6, <1>11, <1>12 DEF TreeInv

---------------------------------------------------------------------------
(* The steps of a thread.                                                  *)

Doings == [op : {"idle", "construct", "set", "free", "get", "lost"},
           elem : Elements \cup {None}, new : Nat, old : Nat]

LEMMA DoesOne ==
    ASSUME TreeInv, NEW t \in Threads, NEW d \in Doings, Does(t, d)
    PROVE  /\ doing' \in [Threads -> Doings]
           /\ \A u \in Threads : doing'[u] = IF u = t THEN d ELSE doing[u]
BY DEF TreeInv, TreeTypeOK, Doings, Does

LEMMA OfDoing ==
    ASSUME TreeInv, NEW t \in Threads
    PROVE  doing[t] \in Doings /\ uid \in [Elements -> Nat] /\ user \subseteq alive
           /\ alive \subseteq Elements
BY DEF TreeInv, TreeTypeOK, Doings, CallsOK

LEMMA IdleIsDoing == Idle \in Doings /\ Idle.op = "idle"
BY DEF Idle, Doings

\* a step that owns nothing and takes nothing from an owner
LEMMA QuietKeepsOwners ==
    ASSUME TreeInv, NEW t \in Threads, NEW d \in Doings, Does(t, d),
           UNCHANGED <<uid_set, uid, alive>>,
           d.op \notin {"set", "free"}, doing[t].op \notin {"set", "free"}
    PROVE  OwnersOK'
<1>1. \A x \in Owners, u \in Nat : Owns(x, u)' <=> Owns(x, u)
  BY DoesOne DEF Owns
<1>2. QED
  BY <1>1 DEF TreeInv, OwnersOK

\* one that begins with no call, ends with none, and only changes the tree
LEMMA TreeOnlyKeeps ==
    ASSUME TreeInv, NEW t \in Threads, doing[t] = Idle, Does(t, Idle),
           UNCHANGED <<uid_set, uid_mutex, uid, user, alive, unused>>,
           parent' \in [Elements -> Elements \cup {None}],
           children' \in [Elements -> [Names -> Elements \cup {None}]], FlowsOK'
    PROVE  TreeInv'
<1>1. doing' = doing
  BY DEF TreeInv, TreeTypeOK, Does
<1>2. TreeTypeOK'
  BY <1>1 DEF TreeInv, TreeTypeOK
<1>3. CallsOK'
  BY <1>1 DEF TreeInv, CallsOK
<1>4. OwnersOK'
  BY IdleIsDoing, QuietKeepsOwners
<1>5. QED
  BY <1>2, <1>3, <1>4 DEF TreeInv

LEMMA AdoptKeeps ==
    ASSUME TreeInv, NEW t \in Threads, NEW p \in Elements, NEW c \in Elements,
           NEW n \in Names, AdoptElement(t, p, c, n)
    PROVE  TreeInv'
<1>1. parent' \in [Elements -> Elements \cup {None}]
  BY DEF AdoptElement, TreeInv, TreeTypeOK
<1>2. children' \in [Elements -> [Names -> Elements \cup {None}]]
  BY DEF AdoptElement, TreeInv, TreeTypeOK
<1>3. FlowsOK'
  BY DEF AdoptElement, TreeInv, FlowsOK
<1>4. QED
  BY <1>1, <1>2, <1>3, TreeOnlyKeeps DEF AdoptElement, May

LEMMA ConnectKeeps ==
    ASSUME TreeInv, NEW t \in Threads, NEW h \in Elements, NEW a \in Elements,
           NEW b \in Elements, Connect(t, h, a, b)
    PROVE  TreeInv'
<1>1. h \in user /\ a \in user /\ b \in user /\ user \subseteq alive
  BY DEF Connect, TreeInv, CallsOK
<1>2. flows' = [flows EXCEPT ![h] = flows[h] \cup {Flow(a, b)}] /\ alive' = alive
  BY DEF Connect
<1>3. Flow(a, b) \in Flows /\ Flow(a, b).src.elem = a /\ Flow(a, b).sink.elem = b
  BY DEF Flows, Flow, GetRef
<1>4. flows' \in [Elements -> SUBSET Flows]
  BY <1>2, <1>3 DEF TreeInv, FlowsOK
<1>5. \A g \in Elements : \A f \in flows'[g] : f \in flows[g] \/ (g = h /\ f = Flow(a, b))
  BY <1>2 DEF TreeInv, FlowsOK
<1>6. FlowsOK'
  BY <1>1, <1>2, <1>3, <1>4, <1>5 DEF TreeInv, FlowsOK
<1>7. parent' = parent /\ children' = children
  BY DEF Connect
<1>8. QED
  BY <1>6, <1>7, TreeOnlyKeeps DEF Connect, May, TreeInv, TreeTypeOK

\* the calls that may drop the last reference
LEMMA DropsKeep ==
    ASSUME TreeInv, NEW t \in Threads, NEW h \in Elements,
           \/ Drop(t, h) \/ DisconnectAll(t, h)
           \/ \E a, b \in Elements : Disconnect(t, h, a, b)
    PROVE  TreeInv'
<1>1. doing[t] = Idle /\ Does(t, Idle) /\ uid_mutex = None
  BY DEF Drop, DisconnectAll, Disconnect, May
<1>2. doing' = doing
  BY <1>1 DEF TreeInv, TreeTypeOK, Does
<1>3. \A u \in Threads : doing[u].op = "set" => doing[u].elem \in user
  BY DEF TreeInv, CallsOK
<1>4. flows \in [Elements -> SUBSET Flows]
  BY DEF TreeInv, FlowsOK
<1>5. CASE Drop(t, h)
  <2>1. \A u \in Threads : doing[u].op = "set" => doing[u].elem \in user \ {h}
    BY <1>3, <1>5 DEF Drop, InUse
  <2>2. Settle(user \ {h}, flows)
    BY <1>5 DEF Drop
  <2>3. QED
    BY <1>1, <1>2, <1>4, <2>1, <2>2, SettleKeeps
<1>6. ASSUME NEW gone \in SUBSET Flows, Settle(user, [flows EXCEPT ![h] = @ \ gone])
      PROVE  TreeInv'
  <2>1. PICK fl : fl = [flows EXCEPT ![h] = @ \ gone]
    OBVIOUS
  <2>2. fl \in [Elements -> SUBSET Flows] /\ \A g \in Elements : fl[g] \subseteq flows[g]
    BY <1>4, <2>1
  <2>3. Settle(user, fl)
    BY <1>6, <2>1
  <2>4. QED
    BY <1>1, <1>2, <1>3, <2>2, <2>3, SettleKeeps
<1>7. CASE DisconnectAll(t, h)
  <2>1. flows[h] \in SUBSET Flows /\ flows[h] \ flows[h] = {}
    BY <1>4
  <2>2. [flows EXCEPT ![h] = {}] = [flows EXCEPT ![h] = @ \ flows[h]]
    BY <2>1
  <2>3. QED
    BY <1>6, <1>7, <2>1, <2>2 DEF DisconnectAll
<1>8. ASSUME NEW a \in Elements, NEW b \in Elements, Disconnect(t, h, a, b) PROVE TreeInv'
  <2>1. PICK gone : gone = {f \in flows[h] : f.src.elem = a /\ f.sink.elem = b}
    OBVIOUS
  <2>2. gone \in SUBSET Flows
    BY <1>4, <2>1
  <2>3. Settle(user, [flows EXCEPT ![h] = @ \ gone])
    BY <1>8, <2>1 DEF Disconnect
  <2>4. QED
    BY <1>6, <2>2, <2>3
<1>9. QED
  BY <1>5, <1>7, <1>8

---------------------------------------------------------------------------
(* The identifiers.                                                        *)

LEMMA FlowsKept ==
    ASSUME TreeInv, UNCHANGED kept, alive \subseteq alive'
    PROVE  FlowsOK'
BY DEF TreeInv, FlowsOK, kept

\* steps that change neither identifiers nor references
LEMMA CallOnlyKeeps ==
    ASSUME TreeInv, NEW t \in Threads,
           UNCHANGED <<uid_set, uid, user, alive>>, UNCHANGED kept,
           \/ \E e \in Elements : Construct(t, e) \/ GetUid(t, e) \/ LocateLoops(t, e)
           \/ UidInUse(t) \/ GotUid(t)
    PROVE  TreeInv'
<1>o. /\ doing[t] \in Doings /\ uid \in [Elements -> Nat]
      /\ user \subseteq alive /\ alive \subseteq Elements
  BY OfDoing
<1>i. Idle \in Doings /\ Idle.op = "idle"
  BY IdleIsDoing
<1>f. FlowsOK'
  BY FlowsKept
<1>k. ASSUME NEW d \in Doings, Does(t, d), uid_mutex' \in Threads \cup {None},
             unused' \subseteq Elements
      PROVE  TreeTypeOK'
  BY <1>k, DoesOne DEF TreeInv, TreeTypeOK, Doings, kept
<1>1. ASSUME NEW e \in Elements, Construct(t, e) PROVE TreeInv'
  <2>1. PICK d : d = Doing("construct", e, 0, 0)
    OBVIOUS
  <2>2. d \in Doings /\ d.op = "construct" /\ d.elem = e
    BY <2>1 DEF Doing, Doings
  <2>3. Does(t, d) /\ doing[t].op = "idle" /\ e \in unused /\ unused' = unused \ {e}
        /\ uid_mutex' = uid_mutex
    BY <2>1, <1>1, <1>i DEF Construct
  <2>4. \A u \in Threads : doing'[u] = IF u = t THEN d ELSE doing[u]
    BY <2>2, <2>3, DoesOne
  <2>5. CallsOK'
    BY <2>2, <2>3, <2>4 DEF TreeInv, CallsOK
  <2>6. TreeTypeOK'
    BY <1>k, <2>2, <2>3 DEF TreeInv, TreeTypeOK
  <2>7. OwnersOK'
    BY <2>2, <2>3, QuietKeepsOwners
  <2>8. QED
    BY <1>f, <2>5, <2>6, <2>7 DEF TreeInv
<1>2. ASSUME NEW e \in Elements, GetUid(t, e) PROVE TreeInv'
  <2>1. PICK d : d = Doing("get", e, 0, uid[e])
    OBVIOUS
  <2>2. d \in Doings /\ d.op = "get" /\ d.old = uid[e]
    BY <2>1, <1>o DEF Doing, Doings
  <2>3. Does(t, d) /\ doing[t].op = "idle" /\ e \in user /\ unused' = unused
        /\ uid_mutex = None /\ uid_mutex' = t
    BY <2>1, <1>2, <1>i DEF GetUid, LocksUid, May
  <2>4. \A u \in Threads : doing'[u] = IF u = t THEN d ELSE doing[u]
    BY <2>2, <2>3, DoesOne
  <2>5. Owns(e, uid[e]) /\ e \in Owners /\ uid[e] \in Nat
    BY <2>3, <1>o DEF Owns, Owners
  <2>6. uid[e] \in uid_set
    BY <2>5 DEF TreeInv, OwnersOK
  <2>7. \A u \in Threads : doing[u].op # "get"
    BY <2>3, UsersAssumption DEF TreeInv, CallsOK
  <2>8. CallsOK'
    BY <2>2, <2>3, <2>4, <2>6, <2>7 DEF TreeInv, CallsOK
  <2>9. TreeTypeOK'
    BY <1>k, <2>2, <2>3 DEF TreeInv, TreeTypeOK
  <2>10. OwnersOK'
    BY <2>2, <2>3, QuietKeepsOwners
  <2>11. QED
    BY <1>f, <2>8, <2>9, <2>10 DEF TreeInv
<1>3. ASSUME NEW e \in Elements, LocateLoops(t, e) PROVE TreeInv'
  <2>1. PICK d : d = Doing("lost", e, 0, 0)
    OBVIOUS
  <2>2. d \in Doings /\ d.op = "lost"
    BY <2>1 DEF Doing, Doings
  <2>3. Does(t, d) /\ doing[t].op = "idle" /\ unused' = unused /\ uid_mutex' = uid_mutex
    BY <2>1, <1>3, <1>i DEF LocateLoops, May
  <2>4. \A u \in Threads : doing'[u] = IF u = t THEN d ELSE doing[u]
    BY <2>2, <2>3, DoesOne
  <2>5. CallsOK'
    BY <2>2, <2>3, <2>4 DEF TreeInv, CallsOK
  <2>6. TreeTypeOK'
    BY <1>k, <2>2, <2>3 DEF TreeInv, TreeTypeOK
  <2>7. OwnersOK'
    BY <2>2, <2>3, QuietKeepsOwners
  <2>8. QED
    BY <1>f, <2>5, <2>6, <2>7 DEF TreeInv
<1>4. CASE UidInUse(t)
  <2>1. PICK d : d = [doing[t] EXCEPT !.new = @ + 1]
    OBVIOUS
  <2>2. doing[t].op = "construct"
    BY <1>4 DEF UidInUse
  <2>3. d \in Doings /\ d.op = "construct" /\ d.elem = doing[t].elem
    BY <2>1, <2>2, <1>o DEF Doings
  <2>4. Does(t, d) /\ unused' = unused /\ uid_mutex' = uid_mutex
    BY <2>1, <1>4 DEF UidInUse
  <2>5. \A u \in Threads : doing'[u] = IF u = t THEN d ELSE doing[u]
    BY <2>3, <2>4, DoesOne
  <2>6. CallsOK'
    BY <2>2, <2>3, <2>4, <2>5 DEF TreeInv, CallsOK
  <2>7. TreeTypeOK'
    BY <1>k, <2>3, <2>4 DEF TreeInv, TreeTypeOK
  <2>8. OwnersOK'
    BY <2>2, <2>3, <2>4, QuietKeepsOwners
  <2>9. QED
    BY <1>f, <2>6, <2>7, <2>8 DEF TreeInv
<1>5. CASE GotUid(t)
  <2>1. Does(t, Idle) /\ unused' = unused /\ uid_mutex' = None /\ doing[t].op = "get"
    BY <1>5 DEF GotUid
  <2>2. \A u \in Threads : doing'[u] = IF u = t THEN Idle ELSE doing[u]
    BY <2>1, <1>i, DoesOne
  <2>3. \A u \in Threads : doing[u].op = "get" => u = t
    BY <2>1 DEF TreeInv, CallsOK
  <2>4. CallsOK'
    BY <1>i, <2>1, <2>2, <2>3 DEF TreeInv, CallsOK
  <2>5. TreeTypeOK'
    BY <1>k, <1>i, <2>1 DEF TreeInv, TreeTypeOK
  <2>6. OwnersOK'
    BY <1>i, <2>1, QuietKeepsOwners
  <2>7. QED
    BY <1>f, <2>4, <2>5, <2>6 DEF TreeInv
<1>6. QED
  BY <1>1, <1>2, <1>3, <1>4, <1>5

\* a new identifier, and its one new owner
LEMMA NewOwner ==
    ASSUME TreeInv, NEW y \in Owners, NEW w \in Nat, AllocUid(w),
           \A x \in Owners, u \in Nat : Owns(x, u)' <=> Owns(x, u) \/ (x = y /\ u = w)
    PROVE  OwnersOK'
<1>1. w \notin uid_set /\ uid_set' = uid_set \cup {w}
  BY DEF AllocUid
<1>2. \A x \in Owners : ~Owns(x, w)
  BY <1>1 DEF TreeInv, OwnersOK
<1>3. \A x, z \in Owners : \A u \in Nat : Owns(x, u)' /\ Owns(z, u)' => x = z
  BY <1>2 DEF TreeInv, OwnersOK
<1>4. \A u \in Nat : u \in uid_set' <=> \E x \in Owners : Owns(x, u)'
  BY <1>1 DEF TreeInv, OwnersOK
<1>5. QED
  BY <1>3, <1>4 DEF OwnersOK

\* nobody reads while the lock is free
LEMMA FreeMeansUnread ==
    ASSUME TreeInv, uid_mutex = None
    PROVE  \A u \in Threads : doing[u].op # "get"
BY UsersAssumption DEF TreeInv, CallsOK

LEMMA FoundKeeps ==
    ASSUME TreeInv, NEW t \in Threads, UidFound(t)
    PROVE  TreeInv'
<1>o. /\ doing[t] \in Doings /\ uid \in [Elements -> Nat]
      /\ user \subseteq alive /\ alive \subseteq Elements
  BY OfDoing
<1>1. PICK e, n : e = doing[t].elem /\ n = doing[t].new
  OBVIOUS
<1>2. /\ doing[t].op = "construct" /\ uid_mutex = None /\ AllocUid(n)
      /\ uid' = [uid EXCEPT ![e] = n] /\ alive' = alive \cup {e} /\ user' = user \cup {e}
      /\ Does(t, Idle) /\ uid_mutex' = uid_mutex /\ unused' = unused /\ UNCHANGED kept
  BY <1>1 DEF UidFound
<1>3. e \in Elements /\ e \notin alive /\ e \notin unused /\ n \in Nat
  BY <1>1, <1>2, <1>o DEF TreeInv, CallsOK, Doings
<1>4. \A u \in Threads : doing'[u] = IF u = t THEN Idle ELSE doing[u]
  BY <1>2, IdleIsDoing, DoesOne
<1>5. \A a \in Elements : uid'[a] = IF a = e THEN n ELSE uid[a]
  BY <1>2, <1>o
<1>6. uid_set' = uid_set \cup {n}
  BY <1>2 DEF AllocUid
<1>7. TreeTypeOK'
  <2>1. doing' \in [Threads -> Doings]
    BY <1>2, IdleIsDoing, DoesOne
  <2>2. QED
    BY <2>1, <1>2, <1>3, <1>6 DEF TreeInv, TreeTypeOK, Doings, kept
<1>8. CallsOK'
  <2>1. user' \subseteq alive' /\ alive' \cap unused' = {}
    BY <1>2, <1>3 DEF TreeInv, CallsOK
  <2>2. \A u \in Threads : doing'[u].op = "construct" =>
            doing'[u].elem \in Elements \ (alive' \cup unused')
    BY <1>1, <1>2, <1>4, IdleIsDoing DEF TreeInv, CallsOK
  <2>3. \A u \in Threads : doing'[u].op = "set" =>
            doing'[u].elem \in user' /\ uid'[doing'[u].elem] = doing'[u].old
    BY <1>2, <1>3, <1>4, <1>5, <1>o, IdleIsDoing DEF TreeInv, CallsOK
  <2>4. \A u \in Threads : doing'[u].op # "get"
    BY <1>2, <1>4, IdleIsDoing, FreeMeansUnread
  <2>5. \A v, u \in Threads :
            doing'[v].op \in {"construct", "set"} /\ doing'[u].op = doing'[v].op
                /\ doing'[u].elem = doing'[v].elem => v = u
    BY <1>4, IdleIsDoing DEF TreeInv, CallsOK
  <2>6. QED
    BY <2>1, <2>2, <2>3, <2>4, <2>5 DEF CallsOK
<1>9. \A x \in Owners, u \in Nat : Owns(x, u)' <=> Owns(x, u) \/ (x = e /\ u = n)
  BY <1>2, <1>3, <1>4, <1>5, <1>o, IdleIsDoing, ElementsAreNoThreads DEF Owns, Owners
<1>10. OwnersOK'
  BY <1>2, <1>3, <1>9, NewOwner DEF Owners
<1>11. FlowsOK'
  BY <1>2, FlowsKept
<1>12. QED
  BY <1>7, <1>8, <1>10, <1>11 DEF TreeInv

LEMMA SetKeeps ==
    ASSUME TreeInv, NEW t \in Threads, NEW e \in Elements, NEW n \in Uids, SetUid(t, e, n)
    PROVE  TreeInv'
<1>o. /\ doing[t] \in Doings /\ uid \in [Elements -> Nat]
      /\ user \subseteq alive /\ alive \subseteq Elements
  BY OfDoing
<1>n. n \in Nat
  BY DEF Uids
<1>1. PICK d : d = Doing("set", e, n, uid[e])
  OBVIOUS
<1>2. d \in Doings /\ d.op = "set" /\ d.elem = e /\ d.new = n /\ d.old = uid[e]
  BY <1>1, <1>o, <1>n DEF Doing, Doings
<1>3. /\ doing[t].op = "idle" /\ uid_mutex = None /\ AllocUid(n) /\ e \in user /\ ~InUse(e)
      /\ Does(t, d) /\ uid_mutex' = uid_mutex /\ unused' = unused /\ UNCHANGED kept
      /\ uid' = uid /\ user' = user /\ alive' = alive
  BY <1>1, IdleIsDoing DEF SetUid, May
<1>4. \A u \in Threads : doing'[u] = IF u = t THEN d ELSE doing[u]
  BY <1>2, <1>3, DoesOne
<1>5. TreeTypeOK'
  <2>1. doing' \in [Threads -> Doings]
    BY <1>2, <1>3, DoesOne
  <2>2. QED
    BY <2>1, <1>3, <1>n DEF TreeInv, TreeTypeOK, Doings, kept, AllocUid
<1>6. CallsOK'
  <2>1. \A u \in Threads : doing[u].elem # e
    BY <1>3 DEF InUse
  <2>2. \A u \in Threads : doing'[u].op # "get"
    BY <1>2, <1>3, <1>4, FreeMeansUnread
  <2>3. QED
    BY <1>2, <1>3, <1>4, <2>1, <2>2 DEF TreeInv, CallsOK
<1>7. \A x \in Owners, u \in Nat : Owns(x, u)' <=> Owns(x, u) \/ (x = t /\ u = n)
  BY <1>2, <1>3, <1>4, <1>o, ElementsAreNoThreads DEF Owns
<1>8. OwnersOK'
  BY <1>3, <1>7, <1>n, NewOwner DEF Owners
<1>9. FlowsOK'
  BY <1>3, FlowsKept
<1>10. QED
  BY <1>5, <1>6, <1>8, <1>9 DEF TreeInv

\* the element and the thread exchange what they own
LEMMA ResetKeeps ==
    ASSUME TreeInv, NEW t \in Threads, ResetUid(t)
    PROVE  TreeInv'
<1>o. /\ doing[t] \in Doings /\ uid \in [Elements -> Nat]
      /\ user \subseteq alive /\ alive \subseteq Elements
  BY OfDoing
<1>1. PICK e, n, d : e = doing[t].elem /\ n = doing[t].new /\ d = [doing[t] EXCEPT !.op = "free"]
  OBVIOUS
<1>2. /\ doing[t].op = "set" /\ uid' = [uid EXCEPT ![e] = n] /\ Does(t, d)
      /\ uid_set' = uid_set /\ uid_mutex' = uid_mutex /\ unused' = unused /\ UNCHANGED kept
      /\ user' = user /\ alive' = alive
  BY <1>1 DEF ResetUid
<1>3. d \in Doings /\ d.op = "free" /\ d.elem = e /\ d.old = doing[t].old /\ n \in Nat
  BY <1>1, <1>o DEF Doings
<1>4. e \in user /\ e \in Elements /\ e \in alive /\ uid[e] = doing[t].old
  BY <1>1, <1>2, <1>o DEF TreeInv, CallsOK
<1>5. \A u \in Threads : doing'[u] = IF u = t THEN d ELSE doing[u]
  BY <1>2, <1>3, DoesOne
<1>6. \A a \in Elements : uid'[a] = IF a = e THEN n ELSE uid[a]
  BY <1>2, <1>o
<1>7. TreeTypeOK'
  <2>1. doing' \in [Threads -> Doings]
    BY <1>2, <1>3, DoesOne
  <2>2. QED
    BY <2>1, <1>2, <1>3 DEF TreeInv, TreeTypeOK, Doings, kept
<1>8. CallsOK'
  <2>1. \A u \in Threads : doing[u].op = "set" /\ u # t => doing[u].elem # e
    BY <1>1, <1>2 DEF TreeInv, CallsOK
  <2>2. \A u \in Threads : doing'[u].op = "set" =>
            doing'[u].elem \in user' /\ uid'[doing'[u].elem] = doing'[u].old
    BY <1>2, <1>3, <1>5, <1>6, <2>1, <1>o DEF TreeInv, CallsOK
  <2>3. \A u \in Threads :
            /\ doing'[u].op = "construct" => doing'[u].elem \in Elements \ (alive' \cup unused')
            /\ doing'[u].op = "get" => uid_mutex' = u /\ doing'[u].old \in uid_set'
    BY <1>2, <1>3, <1>5 DEF TreeInv, CallsOK
  <2>4. \A v, u \in Threads :
            doing'[v].op \in {"construct", "set"} /\ doing'[u].op = doing'[v].op
                /\ doing'[u].elem = doing'[v].elem => v = u
    BY <1>3, <1>5 DEF TreeInv, CallsOK
  <2>5. QED
    BY <1>2, <2>2, <2>3, <2>4 DEF TreeInv, CallsOK
<1>9. e \in Owners /\ t \in Owners /\ e # t
  BY <1>4, ElementsAreNoThreads DEF Owners
<1>10. \A x \in Owners, u \in Nat :
           Owns(x, u)' <=> IF x = e THEN Owns(t, u) ELSE IF x = t THEN Owns(e, u) ELSE Owns(x, u)
  <2>1. ASSUME NEW u \in Nat PROVE Owns(e, u)' <=> Owns(t, u)
    BY <1>1, <1>2, <1>4, <1>6, <1>o, ElementsAreNoThreads DEF Owns
  <2>2. ASSUME NEW u \in Nat PROVE Owns(t, u)' <=> Owns(e, u)
    BY <1>2, <1>3, <1>4, <1>5, <1>o, ElementsAreNoThreads DEF Owns
  <2>3. ASSUME NEW x \in Owners, x # e, x # t, NEW u \in Nat PROVE Owns(x, u)' <=> Owns(x, u)
    BY <2>3, <1>2, <1>5, <1>6, <1>o DEF Owns
  <2>4. QED
    BY <2>1, <2>2, <2>3, <1>9
<1>11. OwnersOK'
  <2>1. \A x, y \in Owners : \A u \in Nat : Owns(x, u)' /\ Owns(y, u)' => x = y
    BY <1>9, <1>10 DEF TreeInv, OwnersOK
  <2>2. \A u \in Nat : u \in uid_set <=> \E x \in Owners : Owns(x, u)
    BY DEF TreeInv, OwnersOK
  <2>3. \A u \in Nat : (\E x \in Owners : Owns(x, u)) <=> (\E x \in Owners : Owns(x, u)')
    BY <1>9, <1>10
  <2>4. QED
    BY <1>2, <2>1, <2>2, <2>3 DEF OwnersOK
<1>12. FlowsOK'
  BY <1>2, FlowsKept
<1>13. QED
  BY <1>7, <1>8, <1>11, <1>12 DEF TreeInv

LEMMA FreeKeeps ==
    ASSUME TreeInv, NEW t \in Threads, FreeUid(t)
    PROVE  TreeInv'
<1>o. /\ doing[t] \in Doings /\ uid \in [Elements -> Nat]
      /\ user \subseteq alive /\ alive \subseteq Elements
  BY OfDoing
<1>1. PICK w : w = doing[t].old
  OBVIOUS
<1>2. /\ doing[t].op = "free" /\ uid_mutex = None /\ uid_set' = uid_set \ {w} /\ Does(t, Idle)
      /\ uid_mutex' = uid_mutex /\ unused' = unused /\ UNCHANGED kept
      /\ uid' = uid /\ user' = user /\ alive' = alive
  BY <1>1 DEF FreeUid
<1>3. \A u \in Threads : doing'[u] = IF u = t THEN Idle ELSE doing[u]
  BY <1>2, IdleIsDoing, DoesOne
<1>4. TreeTypeOK'
  <2>1. doing' \in [Threads -> Doings]
    BY <1>2, IdleIsDoing, DoesOne
  <2>2. QED
    BY <2>1, <1>2 DEF TreeInv, TreeTypeOK, Doings, kept
<1>5. CallsOK'
  <2>1. \A u \in Threads : doing'[u].op # "get"
    BY <1>2, <1>3, IdleIsDoing, FreeMeansUnread
  <2>2. QED
    BY <1>2, <1>3, <2>1, IdleIsDoing DEF TreeInv, CallsOK
<1>6. t \in Owners /\ Owns(t, w) /\ t \notin alive /\ w \in Nat
  BY <1>1, <1>2, <1>o, ElementsAreNoThreads DEF Owns, Owners, Doings
<1>7. \A u \in Nat : Owns(t, u) => u = w
  BY <1>1, <1>2, <1>6 DEF Owns
<1>8. \A x \in Owners, u \in Nat : Owns(x, u)' <=> Owns(x, u) /\ x # t
  BY <1>2, <1>3, <1>6, IdleIsDoing DEF Owns
<1>9. OwnersOK'
  <2>1. \A x, y \in Owners : \A u \in Nat : Owns(x, u)' /\ Owns(y, u)' => x = y
    BY <1>8 DEF TreeInv, OwnersOK
  <2>2. \A x \in Owners : Owns(x, w) => x = t
    BY <1>6 DEF TreeInv, OwnersOK
  <2>3. \A u \in Nat : u \in uid_set' <=> \E x \in Owners : Owns(x, u)'
    BY <1>2, <1>6, <1>7, <1>8, <2>2 DEF TreeInv, OwnersOK
  <2>4. QED
    BY <2>1, <2>3 DEF OwnersOK
<1>10. FlowsOK'
  BY <1>2, FlowsKept
<1>11. QED
  BY <1>4, <1>5, <1>9, <1>10 DEF TreeInv

---------------------------------------------------------------------------
(* The theorems.                                                           *)

LEMMA TreeInitHolds == TreeInit => TreeInv
<1> SUFFICES ASSUME TreeInit PROVE TreeInv
  OBVIOUS
<1>1. TreeTypeOK
  BY IdleIsDoing DEF TreeInit, TreeTypeOK, Doings
<1>2. CallsOK
  BY IdleIsDoing DEF TreeInit, CallsOK
<1>3. OwnersOK
  BY IdleIsDoing DEF TreeInit, OwnersOK, Owns
<1>4. FlowsOK
  BY DEF TreeInit, FlowsOK
<1>5. QED
  BY <1>1, <1>2, <1>3, <1>4 DEF TreeInv

LEMMA TreeNextKeeps == TreeInv /\ [TreeNext]_tree => TreeInv'
<1> SUFFICES ASSUME TreeInv, [TreeNext]_tree PROVE TreeInv'
  OBVIOUS
<1>q. ASSUME UNCHANGED tree PROVE TreeInv'
  <2>1. /\ uid_set' = uid_set /\ uid_mutex' = uid_mutex /\ uid' = uid /\ user' = user
        /\ parent' = parent /\ children' = children /\ flows' = flows /\ alive' = alive
        /\ unused' = unused /\ doing' = doing
    BY <1>q DEF tree
  <2>2. TreeTypeOK' /\ CallsOK' /\ FlowsOK'
    BY <2>1 DEF TreeInv, TreeTypeOK, CallsOK, FlowsOK
  <2>3. OwnersOK'
    BY <2>1 DEF TreeInv, OwnersOK, Owns
  <2>4. QED
    BY <2>2, <2>3 DEF TreeInv
<1>1. ASSUME NEW t \in Threads, TreeStep(t) PROVE TreeInv'
  <2>1. CASE UidInUse(t)
    BY <2>1, CallOnlyKeeps DEF UidInUse
  <2>2. CASE GotUid(t)
    BY <2>2, CallOnlyKeeps DEF GotUid
  <2>3. QED
    BY <1>1, <2>1, <2>2, FoundKeeps, ResetKeeps, FreeKeeps DEF TreeStep
<1>2. ASSUME NEW t \in Threads, NEW e \in Elements, Construct(t, e) PROVE TreeInv'
  BY <1>2, CallOnlyKeeps DEF Construct, kept
<1>3. ASSUME NEW t \in Threads, TreeCall(t) PROVE TreeInv'
  <2>1. PICK e \in Elements :
            \/ \E u \in Uids : SetUid(t, e, u)
            \/ GetUid(t, e) \/ Drop(t, e) \/ DisconnectAll(t, e) \/ LocateLoops(t, e)
            \/ \E f \in Elements :
                   \/ \E n \in Names : AdoptElement(t, e, f, n)
                   \/ \E h \in Elements : Connect(t, h, e, f) \/ Disconnect(t, h, e, f)
    BY <1>3 DEF TreeCall
  <2>2. CASE GetUid(t, e)
    BY <2>2, CallOnlyKeeps DEF GetUid
  <2>3. CASE LocateLoops(t, e)
    BY <2>3, CallOnlyKeeps DEF LocateLoops
  <2>4. QED
    BY <2>1, <2>2, <2>3, SetKeeps, DropsKeep, AdoptKeeps, ConnectKeeps
<1>4. QED
  BY <1>q, <1>1, <1>2, <1>3 DEF TreeNext

LEMMA OwnersAreUnique == TreeInv => UidsUnique
<1> SUFFICES ASSUME TreeInv, NEW n \in Uids
             PROVE  Cardinality({e \in alive : uid[e] = n})
                      + Cardinality({t \in {t \in Threads : doing[t].op = "set"} : doing[t].new = n})
                      + Cardinality({t \in {t \in Threads : doing[t].op = "free"} : doing[t].old = n})
                      = IF n \in uid_set THEN 1 ELSE 0
  BY DEF UidsUnique
<1>1. PICK A, B, C : /\ A = {e \in alive : uid[e] = n}
                     /\ B = {t \in {t \in Threads : doing[t].op = "set"} : doing[t].new = n}
                     /\ C = {t \in {t \in Threads : doing[t].op = "free"} : doing[t].old = n}
  OBVIOUS
<1>2. n \in Nat /\ alive \subseteq Elements
  BY DEF Uids, TreeInv, TreeTypeOK
<1>3. /\ A \cap B = {} /\ A \cap C = {} /\ B \cap C = {}
      /\ A \cup B \cup C \subseteq Owners
  BY <1>1, <1>2, ElementsAreNoThreads DEF Owners
<1>4. \A x \in Owners : Owns(x, n) <=> x \in A \cup B \cup C
  BY <1>1, <1>2, ElementsAreNoThreads DEF Owns, Owners
<1>5. Cardinality({}) = 0 /\ \A x : Cardinality({x}) = 1
  BY FS_EmptySet, FS_Singleton
<1>6. CASE n \notin uid_set
  <2>1. A = {} /\ B = {} /\ C = {}
    BY <1>2, <1>3, <1>4, <1>6 DEF TreeInv, OwnersOK
  <2>2. Cardinality(A) + Cardinality(B) + Cardinality(C) = 0
    BY <1>5, <2>1
  <2>3. QED
    BY <1>1, <1>6, <2>2
<1>7. CASE n \in uid_set
  <2>1. PICK x \in Owners : Owns(x, n) /\ \A y \in Owners : Owns(y, n) => y = x
    BY <1>2, <1>7 DEF TreeInv, OwnersOK
  <2>2. x \in A \cup B \cup C /\ A \cup B \cup C \subseteq {x}
    BY <1>3, <1>4, <2>1
  <2>3. \/ A = {x} /\ B = {} /\ C = {}
        \/ A = {} /\ B = {x} /\ C = {}
        \/ A = {} /\ B = {} /\ C = {x}
    BY <1>3, <2>2
  <2>4. Cardinality(A) + Cardinality(B) + Cardinality(C) = 1
    BY <1>5, <2>3
  <2>5. QED
    BY <1>1, <1>7, <2>4
<1>8. QED
  BY <1>6, <1>7

LEMMA FlowsHaveObjects == TreeInv => FlowKeepsBlock
<1> SUFFICES ASSUME TreeInv, NEW h \in alive, NEW f \in flows[h], NEW p \in {f.src, f.sink}
             PROVE  p.elem \in alive /\ (p.elem \in Contained => Object(p.elem))
  BY DEF FlowKeepsBlock
<1>1. h \in Elements
  BY DEF TreeInv, TreeTypeOK
<1>2. p.elem \in alive
  BY <1>1 DEF TreeInv, FlowsOK
<1>3. PICK a \in Elements, b \in Elements : f = Flow(a, b)
  BY <1>1 DEF TreeInv, FlowsOK, Flows
<1>4. ASSUME p.elem \in Contained PROVE p.by = "container"
  BY <1>3, <1>4 DEF Flow, GetRef
<1>5. p \in Ports(alive, flows)
  BY DEF Ports
<1>6. QED
  BY <1>2, <1>4, <1>5 DEF Object, Containing

LEMMA TreeAlways == TreeSpec => []TreeInv
BY TreeInitHolds, TreeNextKeeps, PTL DEF TreeSpec

(* An identifier in use has one owner (element_uid.cpp: alloc_uid and      *)
(* free_uid around every change of an element's pointer).                  *)
THEOREM UidsStayUnique == TreeSpec => []UidsUnique
BY TreeAlways, OwnersAreUnique, PTL

(* get_uid reads what nobody has freed (element_uid.cpp: the lock of       *)
(* get_uid is the one of free_uid).                                        *)
THEOREM UidReadsLive == TreeSpec => []UidReadIsLive
<1>1. TreeInv => UidReadIsLive
  BY DEF TreeInv, CallsOK, UidReadIsLive
<1>2. QED
  BY <1>1, TreeAlways, PTL

(* A topology keeps the implementations of its flows, and the objects of   *)
(* those in a container (element.hpp: weak_container).                     *)
THEOREM FlowsKeepBlocks == TreeSpec => []FlowKeepsBlock
BY TreeAlways, FlowsHaveObjects, PTL

---------------------------------------------------------------------------
(* The tree.                                                               *)

\* the mutual references of parents and children, and who has a parent
BranchesOK ==
    /\ \A p \in Elements : \A n \in Names :
           children[p][n] # None => parent[children[p][n]] = p
    /\ \A c \in Elements : parent[c] # None =>
           /\ \E n \in Names : /\ children[parent[c]][n] = c
                               /\ \A m \in Names \ {n} : children[parent[c]][m] # c
           /\ c \notin unused
           /\ \A t \in Threads : ~ (doing[t].op = "construct" /\ doing[t].elem = c)
           /\ c \in alive => parent[c] \in alive

\* no new child, no new element
Grows(t) ==
    \/ \E e \in Elements : Construct(t, e)
    \/ UidInUse(t) \/ UidFound(t)

LEMMA BranchesStay ==
    ASSUME TreeInv, BranchesOK, UNCHANGED <<parent, children, alive, unused>>,
           \A t \in Threads : doing'[t].op = "construct" => doing'[t] = doing[t]
    PROVE  BranchesOK'
BY DEF BranchesOK

LEMMA GrowsKeeps ==
    ASSUME TreeInv, BranchesOK, NEW t \in Threads, Grows(t)
    PROVE  BranchesOK'
<1>1. doing \in [Threads -> Doings] /\ doing[t] \in Doings
  BY DEF TreeInv, TreeTypeOK, Doings
<1>2. ASSUME NEW e \in Elements, Construct(t, e) PROVE BranchesOK'
  <2>1. /\ parent' = parent /\ children' = children /\ alive' = alive
        /\ e \in unused /\ unused' = unused \ {e}
        /\ \A u \in Threads : doing'[u] = IF u = t THEN Doing("construct", e, 0, 0) ELSE doing[u]
    BY <1>1, <1>2 DEF Construct, Does
  <2>2. parent[e] = None
    BY <2>1 DEF BranchesOK
  <2>3. \A u \in Threads : doing'[u].op = "construct" =>
            doing'[u].elem = e \/ doing'[u] = doing[u]
    BY <2>1 DEF Doing
  <2>4. QED
    BY <2>1, <2>2, <2>3 DEF BranchesOK
<1>3. CASE UidInUse(t)
  <2>1. /\ UNCHANGED <<parent, children, alive, unused>> /\ doing[t].op = "construct"
        /\ \A u \in Threads : /\ doing'[u].op = doing[u].op
                              /\ doing'[u].elem = doing[u].elem
    BY <1>1, <1>3 DEF UidInUse, Does, kept, Doings
  <2>2. QED
    BY <2>1 DEF BranchesOK
<1>4. CASE UidFound(t)
  <2>1. PICK e : e = doing[t].elem
    OBVIOUS
  <2>2. /\ UNCHANGED <<parent, children, unused>> /\ alive' = alive \cup {e}
        /\ doing[t].op = "construct"
        /\ \A u \in Threads : doing'[u] = IF u = t THEN Idle ELSE doing[u]
    BY <1>1, <1>4, <2>1 DEF UidFound, Does, kept
  <2>3. e \in Elements /\ parent[e] = None
    BY <2>1, <2>2 DEF TreeInv, CallsOK, BranchesOK
  <2>4. QED
    BY <2>2, <2>3, IdleIsDoing DEF BranchesOK
<1>5. QED
  BY <1>2, <1>3, <1>4 DEF Grows

LEMMA AdoptKeepsBranches ==
    ASSUME TreeInv, BranchesOK, NEW t \in Threads, NEW p \in Elements, NEW c \in Elements,
           NEW n \in Names, AdoptElement(t, p, c, n)
    PROVE  BranchesOK'
<1>1. /\ p \in user /\ c \in user /\ parent[c] = None /\ children[p][n] = None
      /\ parent' = [parent EXCEPT ![c] = p] /\ children' = [children EXCEPT ![p][n] = c]
      /\ alive' = alive /\ unused' = unused /\ doing' = [doing EXCEPT ![t] = Idle]
  BY DEF AdoptElement, Adoptable, Does
<1>2. /\ parent \in [Elements -> Elements \cup {None}]
      /\ children \in [Elements -> [Names -> Elements \cup {None}]]
      /\ doing \in [Threads -> Doings] /\ user \subseteq alive /\ alive \cap unused = {}
      /\ \A u \in Threads : doing[u].op = "construct" => doing[u].elem \notin alive
  BY DEF TreeInv, TreeTypeOK, CallsOK, Doings
<1>3. /\ parent'[c] = p /\ \A d \in Elements \ {c} : parent'[d] = parent[d]
      /\ \A q \in Elements : \A m \in Names :
             children'[q][m] = IF q = p /\ m = n THEN c ELSE children[q][m]
      /\ \A u \in Threads : doing'[u].op = "construct" => doing'[u] = doing[u]
  BY <1>1, <1>2, IdleIsDoing
<1>4. \A q \in Elements : \A m \in Names : children[q][m] # c
  BY <1>1, ElementsAreNoThreads DEF BranchesOK
<1>5. ASSUME NEW q \in Elements, NEW m \in Names, children'[q][m] # None
      PROVE  parent'[children'[q][m]] = q
  <2>1. CASE q = p /\ m = n
    BY <1>3, <2>1
  <2>2. CASE ~ (q = p /\ m = n)
    <3>1. children'[q][m] = children[q][m] /\ children[q][m] # c
      BY <1>3, <1>4, <2>2
    <3>2. children[q][m] \in Elements /\ parent[children[q][m]] = q
      BY <1>2, <1>5, <3>1 DEF BranchesOK
    <3>3. QED
      BY <1>3, <3>1, <3>2
  <2>3. QED
    BY <2>1, <2>2
<1>6. ASSUME NEW d \in Elements, parent'[d] # None
      PROVE  /\ \E k \in Names : /\ children'[parent'[d]][k] = d
                                 /\ \A m \in Names \ {k} : children'[parent'[d]][m] # d
             /\ d \notin unused'
             /\ \A u \in Threads : ~ (doing'[u].op = "construct" /\ doing'[u].elem = d)
             /\ d \in alive' => parent'[d] \in alive'
  <2>1. CASE d = c
    BY <1>1, <1>2, <1>3, <1>4, <2>1
  <2>2. CASE d # c
    <3>1. PICK q \in Elements : q = parent[d] /\ parent'[d] = q
      BY <1>2, <1>3, <1>6, <2>2
    <3>2. PICK k \in Names :
              children[q][k] = d /\ \A m \in Names \ {k} : children[q][m] # d
      BY <1>3, <1>6, <2>2, <3>1 DEF BranchesOK
    <3>3. d # None
      BY ElementsAreNoThreads
    <3>4. children'[q][k] = d /\ \A m \in Names \ {k} : children'[q][m] # d
      BY <1>1, <1>3, <2>2, <3>2, <3>3
    <3>5. /\ d \notin unused /\ (d \in alive => q \in alive)
          /\ \A u \in Threads : ~ (doing[u].op = "construct" /\ doing[u].elem = d)
      BY <1>3, <1>6, <2>2, <3>1 DEF BranchesOK
    <3>6. \E l \in Names : /\ children'[parent'[d]][l] = d
                          /\ \A m \in Names \ {l} : children'[parent'[d]][m] # d
      BY <3>1, <3>4
    <3>7. d \notin unused' /\ (d \in alive' => parent'[d] \in alive')
      BY <1>1, <3>1, <3>5
    <3>8. \A u \in Threads : ~ (doing'[u].op = "construct" /\ doing'[u].elem = d)
      BY <1>3, <3>5
    <3>9. QED
      BY <3>6, <3>7, <3>8
  <2>3. QED
    BY <2>1, <2>2
<1>7. QED
  BY <1>5, <1>6 DEF BranchesOK

\* a child that survives keeps its parent
LEMMA SettleKeepsBranches ==
    ASSUME TreeInv, BranchesOK, NEW us, NEW fl, Settle(us, fl),
           NEW t \in Threads, Does(t, Idle)
    PROVE  BranchesOK'
<1>1. PICK s : s = Survivors(us, fl)
  OBVIOUS
<1>2. alive' = s /\ UNCHANGED <<parent, children, unused>> /\ s \subseteq alive
  BY <1>1, SurvivorsLive DEF Settle
<1>3. \A u \in Threads : doing'[u].op = "construct" => doing'[u] = doing[u]
  BY IdleIsDoing DEF Does, TreeInv, TreeTypeOK
<1>4. ASSUME NEW c \in Elements, parent[c] # None, c \in s PROVE parent[c] \in s
  <2>1. parent[c] \in alive
    BY <1>2, <1>4 DEF BranchesOK
  <2>2. Supported(parent[c], s, us, fl)
    BY <1>4 DEF Supported
  <2>3. QED
    BY <1>1, <2>1, <2>2, HeldSurvives
<1>5. QED
  BY <1>2, <1>3, <1>4 DEF BranchesOK

LEMMA BranchesInit == TreeInit => BranchesOK
BY DEF TreeInit, BranchesOK

LEMMA BranchesNext == TreeInv /\ BranchesOK /\ [TreeNext]_tree => BranchesOK'
<1> SUFFICES ASSUME TreeInv, BranchesOK, [TreeNext]_tree PROVE BranchesOK'
  OBVIOUS
<1>o. doing \in [Threads -> Doings]
  BY DEF TreeInv, TreeTypeOK, Doings
<1>q. ASSUME UNCHANGED tree PROVE BranchesOK'
  BY <1>q, BranchesStay DEF tree
<1>1. ASSUME NEW t \in Threads, UNCHANGED <<parent, children, alive, unused>>,
             NEW d \in Doings, Does(t, d), d.op # "construct"
      PROVE  BranchesOK'
  <2>1. \A u \in Threads : doing'[u].op = "construct" => doing'[u] = doing[u]
    BY <1>1, <1>o DEF Does
  <2>2. QED
    BY <1>1, <2>1, BranchesStay
<1>2. ASSUME NEW t \in Threads, ResetUid(t) \/ FreeUid(t) \/ GotUid(t) PROVE BranchesOK'
  <2>1. [doing[t] EXCEPT !.op = "free"] \in Doings
    BY <1>o DEF Doings
  <2>2. CASE ResetUid(t)
    BY <1>1, <2>1, <2>2 DEF ResetUid, kept, Doings
  <2>3. CASE FreeUid(t)
    BY <1>1, <2>3, IdleIsDoing DEF FreeUid, kept
  <2>4. CASE GotUid(t)
    BY <1>1, <2>4, IdleIsDoing DEF GotUid, kept
  <2>5. QED
    BY <1>2, <2>2, <2>3, <2>4
<1>3. ASSUME NEW t \in Threads, NEW e \in Elements,
             (\E u \in Uids : SetUid(t, e, u)) \/ GetUid(t, e) \/ LocateLoops(t, e)
      PROVE  BranchesOK'
  <2>1. uid[e] \in Nat /\ Uids \subseteq Nat
    BY DEF TreeInv, TreeTypeOK, Uids
  <2>2. ASSUME NEW u \in Uids, SetUid(t, e, u) PROVE BranchesOK'
    <3>1. Doing("set", e, u, uid[e]) \in Doings /\ Doing("set", e, u, uid[e]).op = "set"
      BY <2>1 DEF Doing, Doings
    <3>2. QED
      BY <1>1, <2>2, <3>1 DEF SetUid, kept
  <2>3. CASE GetUid(t, e)
    <3>1. Doing("get", e, 0, uid[e]) \in Doings /\ Doing("get", e, 0, uid[e]).op = "get"
      BY <2>1 DEF Doing, Doings
    <3>2. QED
      BY <1>1, <2>3, <3>1 DEF GetUid, kept
  <2>4. CASE LocateLoops(t, e)
    <3>1. Doing("lost", e, 0, 0) \in Doings /\ Doing("lost", e, 0, 0).op = "lost"
      BY DEF Doing, Doings
    <3>2. QED
      BY <1>1, <2>4, <3>1 DEF LocateLoops, kept
  <2>5. QED
    BY <1>3, <2>2, <2>3, <2>4
<1>4. ASSUME NEW t \in Threads, NEW h \in Elements, NEW e \in Elements, NEW f \in Elements,
             Connect(t, h, e, f)
      PROVE  BranchesOK'
  BY <1>1, <1>4, IdleIsDoing DEF Connect
<1>5. ASSUME NEW t \in Threads, NEW e \in Elements, Drop(t, e) \/ DisconnectAll(t, e)
      PROVE  BranchesOK'
  BY <1>5, SettleKeepsBranches DEF Drop, DisconnectAll
<1>6. ASSUME NEW t \in Threads, NEW h \in Elements, NEW e \in Elements, NEW f \in Elements,
             Disconnect(t, h, e, f)
      PROVE  BranchesOK'
  BY <1>6, SettleKeepsBranches DEF Disconnect
<1>7. ASSUME NEW t \in Threads, TreeCall(t) PROVE BranchesOK'
  <2>1. PICK e \in Elements :
            \/ \E u \in Uids : SetUid(t, e, u)
            \/ GetUid(t, e) \/ Drop(t, e) \/ DisconnectAll(t, e) \/ LocateLoops(t, e)
            \/ \E f \in Elements :
                   \/ \E n \in Names : AdoptElement(t, e, f, n)
                   \/ \E h \in Elements : Connect(t, h, e, f) \/ Disconnect(t, h, e, f)
    BY <1>7 DEF TreeCall
  <2>2. QED
    BY <1>3, <1>4, <1>5, <1>6, <2>1, AdoptKeepsBranches
<1>8. ASSUME NEW t \in Threads, TreeStep(t) PROVE BranchesOK'
  BY <1>2, <1>8, GrowsKeeps DEF TreeStep, Grows
<1>9. ASSUME NEW t \in Threads, NEW e \in Elements, Construct(t, e) PROVE BranchesOK'
  BY <1>9, GrowsKeeps DEF Grows
<1>10. QED
  BY <1>q, <1>7, <1>8, <1>9 DEF TreeNext

LEMMA BranchesAlways == TreeSpec => []BranchesOK
BY TreeAlways, BranchesInit, BranchesNext, PTL DEF TreeSpec

\* The way from an element to the root.
LEMMA AncestorsAre ==
    ASSUME TreeInv, NEW e \in Elements
    PROVE  /\ Cardinality(Elements) \in Nat /\ Cardinality(Elements) > 0
           /\ Ancestors(e)[0] = e
           /\ \A k \in 1 .. Cardinality(Elements) : Ancestors(e)[k] =
                  IF parent[Ancestors(e)[k - 1]] = None THEN Ancestors(e)[k - 1]
                  ELSE parent[Ancestors(e)[k - 1]]
           /\ \A k \in 0 .. Cardinality(Elements) : Ancestors(e)[k] \in Elements
<1> DEFINE n == Cardinality(Elements)
           E(f) == [k \in 0 .. n |->
                       IF k = 0 THEN e
                       ELSE IF parent[f[k - 1]] = None THEN f[k - 1] ELSE parent[f[k - 1]]]
           F == [p \in (1 .. n) \X Elements |->
                    IF parent[p[2]] = None THEN p[2] ELSE parent[p[2]]]
<1>1. n \in Nat /\ n > 0
  <2>1. IsFiniteSet(Elements)
    BY UsersAssumption, FS_Subset
  <2>2. n \in Nat /\ (n = 0 <=> Elements = {})
    BY <2>1, FS_CardinalityType, FS_EmptySet
  <2>3. QED
    BY <2>2
<1>2. \A x \in Elements : parent[x] \in Elements \cup {None}
  BY DEF TreeInv, TreeTypeOK
<1>3. F \in [(1 .. n) \X Elements -> Elements]
  BY <1>2
<1>4. PICK f : Loop(f, n, Elements, e, F)
  <2> HIDE DEF F, n
  <2> QED
    BY <1>1, <1>3, LoopExists
<1>5. f \in [0 .. n -> Elements] /\ f[0] = e
  BY <1>4 DEF Loop
<1>6. \A k \in 1 .. n : f[k] = IF parent[f[k - 1]] = None THEN f[k - 1] ELSE parent[f[k - 1]]
  <2>1. SUFFICES ASSUME NEW k \in 1 .. n
                 PROVE  f[k] = IF parent[f[k - 1]] = None THEN f[k - 1] ELSE parent[f[k - 1]]
    OBVIOUS
  <2>2. f[k - 1] \in Elements
    BY <1>1, <1>5
  <2>3. f[k] = F[<<k, f[k - 1]>>]
    <3> HIDE DEF F
    <3> QED
      BY <1>4 DEF Loop
  <2>4. QED
    BY <2>2, <2>3
<1>7. f = E(f)
  BY <1>1, <1>5, <1>6
<1>8. Ancestors(e) = CHOOSE g : g = E(g)
  BY DEF Ancestors
<1>9. Ancestors(e) = E(Ancestors(e))
  <2> HIDE DEF E
  <2> QED
    BY <1>7, <1>8
<1>10. \A k \in 0 .. n : Ancestors(e)[k] =
           IF k = 0 THEN e
           ELSE IF parent[Ancestors(e)[k - 1]] = None THEN Ancestors(e)[k - 1]
                ELSE parent[Ancestors(e)[k - 1]]
  BY <1>9
<1>11. \A k \in 0 .. n : Ancestors(e)[k] \in Elements
  <2> DEFINE T == {k \in Nat : k <= n => Ancestors(e)[k] \in Elements}
  <2>1. 0 \in T
    BY <1>1, <1>10
  <2>2. ASSUME NEW k \in Nat, k \in T PROVE k + 1 \in T
    <3>1. SUFFICES ASSUME k + 1 <= n PROVE Ancestors(e)[k + 1] \in Elements
      OBVIOUS
    <3>2. k + 1 \in 0 .. n /\ k + 1 # 0 /\ (k + 1) - 1 = k /\ Ancestors(e)[k] \in Elements
      BY <1>1, <2>2, <3>1
    <3>3. QED
      BY <1>2, <1>10, <3>2
  <2>3. Nat \subseteq T
    <3> HIDE DEF T
    <3> QED
      BY <2>1, <2>2, SetInduction
  <2>4. QED
    BY <1>1, <2>3
<1>12. QED
  BY <1>1, <1>10, <1>11

\* The way of a child to the root is that of its parent, one step later.
LEMMA SameRoot ==
    ASSUME TreeInv, NEW e \in Elements, NEW p \in Elements, parent[e] = p, ~ RootLost(e)
    PROVE  Up(p) = Up(e)
<1>1. PICK n \in Nat : n = Cardinality(Elements) /\ n > 0
  BY AncestorsAre
<1>2. PICK a, b : a = Ancestors(e) /\ b = Ancestors(p)
  OBVIOUS
<1>3. /\ a[0] = e /\ b[0] = p
      /\ \A k \in 1 .. n : a[k] = IF parent[a[k - 1]] = None THEN a[k - 1] ELSE parent[a[k - 1]]
      /\ \A k \in 1 .. n : b[k] = IF parent[b[k - 1]] = None THEN b[k - 1] ELSE parent[b[k - 1]]
  BY <1>1, <1>2, AncestorsAre
<1>4. p # None
  BY ElementsAreNoThreads
<1>5. \A k \in 0 .. n - 1 : a[k + 1] = b[k]
  <2> DEFINE T == {k \in Nat : k < n => a[k + 1] = b[k]}
  <2>1. 0 \in T
    BY <1>1, <1>3, <1>4
  <2>2. ASSUME NEW k \in Nat, k \in T PROVE k + 1 \in T
    <3>1. SUFFICES ASSUME k + 1 < n PROVE a[(k + 1) + 1] = b[k + 1]
      OBVIOUS
    <3>2. /\ a[k + 1] = b[k] /\ k + 1 \in 1 .. n /\ (k + 1) + 1 \in 1 .. n
          /\ (k + 1) - 1 = k /\ ((k + 1) + 1) - 1 = k + 1
      BY <2>2, <3>1
    <3>3. a[(k + 1) + 1] = IF parent[a[k + 1]] = None THEN a[k + 1] ELSE parent[a[k + 1]]
      BY <1>3, <3>2
    <3>4. b[k + 1] = IF parent[b[k]] = None THEN b[k] ELSE parent[b[k]]
      BY <1>3, <3>2
    <3>5. QED
      BY <3>2, <3>3, <3>4
  <2>3. Nat \subseteq T
    <3> HIDE DEF T
    <3> QED
      BY <2>1, <2>2, SetInduction
  <2>4. QED
    BY <1>1, <2>3
<1>6. n - 1 \in 0 .. n - 1 /\ (n - 1) + 1 = n /\ n \in 1 .. n
  BY <1>1
<1>7. a[n] = b[n - 1]
  BY <1>5, <1>6
<1>8. parent[a[n]] = None
  BY <1>1, <1>2 DEF RootLost, Up
<1>9. b[n] = b[n - 1]
  BY <1>3, <1>6, <1>7, <1>8
<1>10. QED
  BY <1>1, <1>2, <1>7, <1>9 DEF Up

\* what locate_element can be given: names, and the three parts of the syntax
IsNode(node, k) == node \in Names \cup {".", ".."} \/ (k = 1 /\ node = "")
IsPath(path)    == Len(path) \in Nat /\ \A k \in 1 .. Len(path) : IsNode(path[k], k)

\* node k of the path is taken from where the nodes before it have led
Follows(e, path, k) == Along(e, path)[k] = Node(Along(e, path)[k - 1], path[k], FALSE)

LEMMA AlongIs ==
    ASSUME TreeInv, NEW e \in Elements, NEW path, IsPath(path)
    PROVE  /\ Along(e, path)[0] = e
           /\ Len(path) > 0 => Along(e, path)[1] = Node(e, path[1], TRUE)
           /\ \A k \in 2 .. Len(path) : Follows(e, path, k)
<1> DEFINE n == Len(path)
           S == Elements \cup {None}
           E(f) == [k \in 0 .. n |-> IF k = 0 THEN e ELSE Node(f[k - 1], path[k], k = 1)]
           F == [p \in (1 .. n) \X S |-> Node(p[2], path[p[1]], p[1] = 1)]
<1>1. n \in Nat
  BY DEF IsPath
<1>2. ASSUME NEW k \in 1 .. n, NEW x \in S PROVE Node(x, path[k], k = 1) \in S
  <2>1. CASE x = None
    BY <2>1 DEF Node
  <2>2. CASE x # None
    <3>1. x \in Elements /\ parent[x] \in S /\ \A m \in Names : children[x][m] \in S
      BY <2>2 DEF TreeInv, TreeTypeOK
    <3>2. Up(x) \in S
      BY <3>1, AncestorsAre DEF Up
    <3>3. CASE path[k] = "" /\ k = 1
      BY <2>2, <3>2, <3>3 DEF Node
    <3>4. CASE path[k] \in Names \cup {".", ".."}
      BY <2>2, <3>1, <3>2, <3>4 DEF Node
    <3>5. QED
      BY <3>3, <3>4 DEF IsPath, IsNode
  <2>3. QED
    BY <2>1, <2>2
<1>3. F \in [(1 .. n) \X S -> S]
  BY <1>2
<1>4. PICK f : Loop(f, n, S, e, F)
  <2>1. e \in S
    OBVIOUS
  <2> HIDE DEF F, n, S
  <2> QED
    BY <1>1, <1>3, <2>1, LoopExists
<1>5. f \in [0 .. n -> S] /\ f[0] = e
  BY <1>4 DEF Loop
<1>6. \A k \in 1 .. n : f[k] = Node(f[k - 1], path[k], k = 1)
  <2>1. SUFFICES ASSUME NEW k \in 1 .. n PROVE f[k] = Node(f[k - 1], path[k], k = 1)
    OBVIOUS
  <2>2. f[k - 1] \in S
    BY <1>1, <1>5
  <2>3. f[k] = F[<<k, f[k - 1]>>]
    <3> HIDE DEF F
    <3> QED
      BY <1>4 DEF Loop
  <2>4. QED
    BY <2>2, <2>3
<1>7. f = E(f)
  BY <1>1, <1>5, <1>6
<1>8. Along(e, path) = CHOOSE g : g = E(g)
  BY DEF Along
<1>9. Along(e, path) = E(Along(e, path))
  <2> HIDE DEF E
  <2> QED
    BY <1>7, <1>8
<1>10. /\ Along(e, path)[0] = e
       /\ \A k \in 1 .. n : Along(e, path)[k] = Node(Along(e, path)[k - 1], path[k], k = 1)
  BY <1>1, <1>9
<1>11. ASSUME n > 0 PROVE Along(e, path)[1] = Node(e, path[1], TRUE)
  <2>1. 1 \in 1 .. n /\ 1 - 1 = 0
    BY <1>1, <1>11
  <2>2. Along(e, path)[1] = Node(e, path[1], 1 = 1)
    BY <1>10, <2>1
  <2>3. QED
    BY <2>2 DEF Node
<1>12. ASSUME NEW k \in 2 .. n
       PROVE  Along(e, path)[k] = Node(Along(e, path)[k - 1], path[k], FALSE)
  <2>1. k \in 1 .. n /\ k # 1
    BY <1>1
  <2>2. Along(e, path)[k] = Node(Along(e, path)[k - 1], path[k], k = 1)
    BY <1>10, <2>1
  <2>3. QED
    BY <2>1, <2>2 DEF Node
<1>13. QED
  BY <1>10, <1>11, <1>12 DEF Follows

\* no child has a name that means something else in a path
NamesArePlain == Names \cap {"", ".", ".."} = {}

LEMMA TreeCloses ==
    ASSUME TreeInv, BranchesOK, NamesArePlain
    PROVE  TreeIsClosed
<1> SUFFICES ASSUME NEW e \in alive
             PROVE  /\ \A n \in Names : children[e][n] # None => parent[children[e][n]] = e
                    /\ parent[e] # None =>
                           /\ parent[e] \in alive
                           /\ Located(e, <<"..">>) = parent[e]
                           /\ \E n \in Names :
                                  /\ Located(parent[e], <<n>>) = e
                                  /\ Located(e, <<".", "..", n>>) = e
                                  /\ \A m \in Names \ {n} : children[parent[e]][m] # e
                           /\ ~ RootLost(e) =>
                                  Located(parent[e], <<"">>) = Located(e, <<"">>)
  BY DEF TreeIsClosed
<1>1. e \in Elements /\ e # None
  BY ElementsAreNoThreads DEF TreeInv, TreeTypeOK
<1>2. \A n \in Names : children[e][n] # None => parent[children[e][n]] = e
  BY <1>1 DEF BranchesOK
<1>3. SUFFICES ASSUME parent[e] # None
               PROVE  /\ parent[e] \in alive
                      /\ Located(e, <<"..">>) = parent[e]
                      /\ \E n \in Names :
                             /\ Located(parent[e], <<n>>) = e
                             /\ Located(e, <<".", "..", n>>) = e
                             /\ \A m \in Names \ {n} : children[parent[e]][m] # e
                      /\ ~ RootLost(e) => Located(parent[e], <<"">>) = Located(e, <<"">>)
  BY <1>2
<1>4. PICK p \in Elements : p = parent[e] /\ p # None
  BY <1>1, <1>3, ElementsAreNoThreads DEF TreeInv, TreeTypeOK
<1>5. PICK n \in Names : children[p][n] = e /\ \A m \in Names \ {n} : children[p][m] # e
  BY <1>1, <1>3, <1>4 DEF BranchesOK
<1>6. n # "" /\ n # "." /\ n # ".."
  BY <1>5 DEF NamesArePlain
<1>7. ASSUME NEW x \in Elements, NEW node, node \in Names \cup {".", "..", ""}
      PROVE  Located(x, <<node>>) = Node(x, node, TRUE)
  <2>1. PICK path : path = <<node>>
    OBVIOUS
  <2>2. Len(path) = 1 /\ path[1] = node
    BY <2>1
  <2>3. IsPath(path)
    <3>1. IsNode(path[1], 1)
      BY <1>7, <2>2 DEF IsNode
    <3>2. \A k \in 1 .. Len(path) : k = 1
      BY <2>2
    <3>3. QED
      BY <2>2, <3>1, <3>2 DEF IsPath
  <2>4. Along(x, path)[1] = Node(x, path[1], TRUE)
    <3>1. Len(path) > 0
      BY <2>2
    <3>2. QED
      BY <2>3, <3>1, AlongIs
  <2>5. QED
    BY <2>1, <2>2, <2>4 DEF Located
<1>8. Located(e, <<"..">>) = p /\ Located(p, <<n>>) = e
  BY <1>1, <1>4, <1>5, <1>6, <1>7 DEF Node
<1>9. Located(e, <<".", "..", n>>) = e
  <2>1. PICK path : path = <<".", "..", n>>
    OBVIOUS
  <2>2. Len(path) = 3 /\ path[1] = "." /\ path[2] = ".." /\ path[3] = n
    BY <2>1
  <2>3. IsPath(path)
    <3>1. \A k \in 1 .. Len(path) : k = 1 \/ k = 2 \/ k = 3
      BY <2>2
    <3>2. IsNode(path[1], 1) /\ IsNode(path[2], 2) /\ IsNode(path[3], 3)
      BY <2>2 DEF IsNode
    <3>3. QED
      BY <2>2, <3>1, <3>2 DEF IsPath
  <2>4. /\ Along(e, path)[1] = Node(e, path[1], TRUE)
        /\ Along(e, path)[2] = Node(Along(e, path)[1], path[2], FALSE)
        /\ Along(e, path)[3] = Node(Along(e, path)[2], path[3], FALSE)
    <3>1. /\ Len(path) > 0
          /\ 2 \in 2 .. Len(path) /\ 3 \in 2 .. Len(path) /\ 2 - 1 = 1 /\ 3 - 1 = 2
      BY <2>2
    <3>2. TreeInv /\ e \in Elements /\ IsPath(path)
      BY <1>1, <2>3
    <3>3. Along(e, path)[1] = Node(e, path[1], TRUE)
      BY ONLY <3>1, <3>2, AlongIs
    <3>4. Follows(e, path, 2) /\ Follows(e, path, 3)
      <4>1. \A k \in 2 .. Len(path) : Follows(e, path, k)
        BY ONLY <3>2, AlongIs
      <4>2. QED
        BY ONLY <3>1, <4>1
    <3>5. QED
      BY <3>1, <3>3, <3>4 DEF Follows
  <2>5. Along(e, path)[1] = e
    BY <1>1, <2>2, <2>4 DEF Node
  <2>6. Along(e, path)[2] = p
    BY <1>1, <1>4, <2>2, <2>4, <2>5 DEF Node
  <2>7. Along(e, path)[3] = e
    BY <1>4, <1>5, <1>6, <2>2, <2>4, <2>6 DEF Node
  <2>8. QED
    BY <2>1, <2>2, <2>7 DEF Located
<1>10. ASSUME ~ RootLost(e) PROVE Located(p, <<"">>) = Located(e, <<"">>)
  <2>1. Located(p, <<"">>) = Up(p) /\ Located(e, <<"">>) = Up(e)
    BY <1>1, <1>4, <1>7 DEF Node
  <2>2. QED
    BY <1>1, <1>4, <1>10, <2>1, SameRoot
<1>11. p \in alive
  BY <1>1, <1>3, <1>4 DEF BranchesOK
<1>12. QED
  BY <1>4, <1>5, <1>8, <1>9, <1>10, <1>11

(* Parents and children agree, and locate_element finds what is in the     *)
(* tree (element.cpp: adopt_element, locate_element), through adoption,    *)
(* destruction and creation, for children whose names are not parts of a   *)
(* path: one of the name "..", which adopt_element accepts, is not found.  *)
THEOREM TreeStaysClosed ==
    ASSUME NamesArePlain
    PROVE  TreeSpec => []TreeIsClosed
<1>1. TreeInv /\ BranchesOK => TreeIsClosed
  BY TreeCloses
<1>2. QED
  BY <1>1, TreeAlways, BranchesAlways, PTL

---------------------------------------------------------------------------
(* The rest of the library uses elements only as their specification says: *)
(* a function of the factory creates them, and calls leave them alone.     *)
THEOREM LibraryUsesTree == LibrarySpec => TreeSpec
<1>1. LibraryInit => TreeInit
  BY DEF LibraryInit
<1>2. [LibraryNext]_library => [TreeNext]_tree
  <2> SUFFICES ASSUME [LibraryNext]_library PROVE [TreeNext]_tree
    OBVIOUS
  <2>1. CASE UNCHANGED library
    BY <2>1 DEF library
  <2>2. ASSUME NEW t \in Threads, MakesElement(t) PROVE TreeNext
    BY <2>2 DEF MakesElement, TreeNext
  <2>3. ASSUME NEW t \in Threads, UidInUse(t) \/ ResetUid(t) \/ FreeUid(t) \/ GotUid(t)
        PROVE  TreeNext
    BY <2>3 DEF TreeNext, TreeStep
  <2>4. ASSUME NEW t \in Threads, Constructed(t) PROVE TreeNext
    BY <2>4 DEF Constructed, TreeNext, TreeStep
  <2>5. ASSUME NEW t \in Threads, UsesElements(t) PROVE TreeNext
    BY <2>5 DEF UsesElements, TreeNext
  <2>6. CASE LibraryNext
    BY <2>2, <2>3, <2>4, <2>5, <2>6 DEF LibraryNext
  <2>7. QED
    BY <2>1, <2>6
<1>3. QED
  BY <1>1, <1>2, PTL DEF LibrarySpec, TreeSpec

(* So all three hold of the library as a whole.                            *)
THEOREM LibraryKeepsElements ==
    LibrarySpec => [](UidsUnique /\ UidReadIsLive /\ FlowKeepsBlock)
BY LibraryUsesTree, UidsStayUnique, UidReadsLive, FlowsKeepBlocks, PTL

(* And the tree stays closed in it.                                        *)
THEOREM LibraryKeepsTree ==
    ASSUME NamesArePlain
    PROVE  LibrarySpec => []TreeIsClosed
BY LibraryUsesTree, TreeStaysClosed, PTL

---------------------------------------------------------------------------
(* The calls.  A caller that waits is queued at the block it calls, once,  *)
(* or that block is in its call; a block that is in a call waits in one of *)
(* its own, or in none.                                                    *)

InQueue(c, q) == \E k \in 1 .. Len(q) : q[k] = c
Distinct(q)   == \A j, k \in 1 .. Len(q) : q[j] = q[k] => j = k

LEMMA PopQueue ==
    ASSUME NEW S, NEW q \in Seq(S), q # <<>>, Distinct(q), NEW r, r = Tail(q)
    PROVE  /\ r \in Seq(S) /\ Distinct(r) /\ Head(q) \in S /\ InQueue(Head(q), q)
           /\ \A c : InQueue(c, r) <=> InQueue(c, q) /\ c # Head(q)
<1>1. PICK n \in Nat \ {0} : n = Len(q)
  BY EmptySeq, LenProperties
<1>2. Head(q) = q[1] /\ \A k \in 1 .. n : q[k] \in S
  BY <1>1, LenProperties
<1>3. r \in Seq(S) /\ Len(r) = n - 1 /\ \A k \in 1 .. n - 1 : r[k] = q[k + 1]
  BY <1>1, HeadTailProperties
<1>4. 1 \in 1 .. n /\ \A k \in 1 .. n - 1 : k + 1 \in 1 .. n /\ k + 1 # 1
  OBVIOUS
<1>5. \A k \in 1 .. n : k = 1 \/ (k - 1 \in 1 .. n - 1 /\ k - 1 + 1 = k)
  OBVIOUS
<1>6. \A j, k \in 1 .. n - 1 : j + 1 = k + 1 => j = k
  OBVIOUS
<1>7. Distinct(r)
  BY <1>1, <1>3, <1>4, <1>6 DEF Distinct
<1>8. Head(q) \in S /\ InQueue(Head(q), q)
  BY <1>1, <1>2, <1>4 DEF InQueue
<1>9. ASSUME NEW c, InQueue(c, r) PROVE InQueue(c, q) /\ c # Head(q)
  <2>1. PICK k \in 1 .. n - 1 : r[k] = c
    BY <1>3, <1>9 DEF InQueue
  <2>2. q[k + 1] = c /\ k + 1 \in 1 .. n /\ k + 1 # 1
    BY <1>3, <1>4, <2>1
  <2>3. QED
    BY <1>1, <1>2, <1>4, <2>2 DEF InQueue, Distinct
<1>10. ASSUME NEW c, InQueue(c, q), c # Head(q) PROVE InQueue(c, r)
  <2>1. PICK k \in 1 .. n : q[k] = c
    BY <1>1, <1>10 DEF InQueue
  <2>2. k - 1 \in 1 .. n - 1 /\ k - 1 + 1 = k
    BY <1>2, <1>5, <1>10, <2>1
  <2>3. r[k - 1] = c
    BY <1>3, <2>1, <2>2
  <2>4. QED
    BY <1>3, <2>2, <2>3 DEF InQueue
<1>11. QED
  BY <1>3, <1>7, <1>8, <1>9, <1>10

LEMMA PushQueue ==
    ASSUME NEW S, NEW q, q \in Seq(S), NEW x, x \in S, ~InQueue(x, q), Distinct(q),
           NEW r, r = Append(q, x)
    PROVE  /\ r \in Seq(S) /\ Distinct(r)
           /\ \A c : InQueue(c, r) <=> InQueue(c, q) \/ c = x
<1>1. PICK n \in Nat : n = Len(q)
  BY LenProperties
<1>2. /\ r \in Seq(S) /\ Len(r) = n + 1 /\ r[n + 1] = x
      /\ \A k \in 1 .. n : r[k] = q[k]
  BY <1>1, AppendProperties
<1>3. \A k \in 1 .. n + 1 : k \in 1 .. n \/ k = n + 1
  OBVIOUS
<1>4. n + 1 \in 1 .. n + 1 /\ \A k \in 1 .. n : k \in 1 .. n + 1
  OBVIOUS
<1>5. \A k \in 1 .. n : q[k] # x
  BY <1>1 DEF InQueue
<1>6. Distinct(r)
  BY <1>1, <1>2, <1>3, <1>5 DEF Distinct
<1>7. ASSUME NEW c PROVE InQueue(c, r) <=> InQueue(c, q) \/ c = x
  BY <1>1, <1>2, <1>3, <1>4 DEF InQueue
<1>8. QED
  BY <1>2, <1>6, <1>7

Args  == ArgLists \cup {<<>>}
Calls1 == [to : Elements \cup {None}, args : Args, want : Types \cup {"void"},
           reply : Types \cup {"void", "none", "error"}]
Ends  == [end : {"none", "value", "thrown"}, took : SUBSET Methods, args : Args, ran : {0, 1}]

CallTypeOK ==
    /\ methods \in [Elements -> SUBSET Methods]
    /\ mailbox \in [Elements -> Seq(Callers)]
    /\ serving \in [Elements -> Callers \cup {None}]
    /\ calling \in [Callers -> Calls1]
    /\ returned \in [Callers -> Ends]

WaitsFor(c, e) == calling[c].to = e /\ calling[c].reply = "none"

PlacesOK ==
    /\ \A e \in Elements : Distinct(mailbox[e])
    /\ \A e \in Elements, c \in Callers :
        /\ InQueue(c, mailbox[e]) => WaitsFor(c, e) /\ serving[e] # c
        /\ serving[e] = c => WaitsFor(c, e)
        /\ WaitsFor(c, e) => InQueue(c, mailbox[e]) \/ serving[e] = c
    /\ \A c \in Callers : calling[c].to = None => calling[c] = NoCall

\* a call that runs is accepted by the method that runs, and only an actor in
\* a method calls others
ServesOK ==
    \A e \in Elements :
        /\ serving[e] = None => calling[e] = NoCall
        /\ serving[e] # None =>
               \E m \in methods[e] : Accepts(m.takes, calling[serving[e]].args)

RepliesOK ==
    \A c \in Callers :
        /\ calling[c].reply \notin {"none", "error"} => returned[c].ran = 1
        /\ returned[c].end = "value" => returned[c].ran = 1
        /\ returned[c].ran = 1 <=>
               \E m \in returned[c].took : Accepts(m.takes, returned[c].args)

CallInv == CallTypeOK /\ PlacesOK /\ ServesOK /\ RepliesOK

LEMMA CallersAre ==
    /\ None \notin Callers /\ Elements \subseteq Callers /\ Threads \subseteq Callers
    /\ NoCall \in Calls1 /\ NoCall.to = None /\ NoCall.reply = "none"
    /\ NoEnd \in Ends /\ NoEnd.end = "none" /\ NoEnd.ran = 0 /\ NoEnd.took = {}
BY UsersAssumption DEF Callers, NoCall, Calls1, NoEnd, Ends, Args

(* The actor of e answers the call at the head of its mailbox.             *)
LEMMA ReplyKeeps ==
    ASSUME CallInv, NEW e \in Elements, Takes1(e),
           NEW r \in Types \cup {"void", "error"}, NEW took \in SUBSET Methods, NEW ran \in {0, 1},
           Reply(Next1(e), r, took, ran),
           r # "error" => ran = 1,
           ran = 1 <=> \E m \in took : Accepts(m.takes, calling[Next1(e)].args),
           mailbox' = [mailbox EXCEPT ![e] = Tail(@)],
           methods' \in [Elements -> SUBSET Methods],
           \A a \in Elements : a # e => methods'[a] = methods[a],
           serving' = serving
    PROVE  CallInv'
<1>t. CallTypeOK
  BY DEF CallInv
<1>1. PICK c, q, r1 : c = Next1(e) /\ q = mailbox[e] /\ r1 = Tail(mailbox[e])
  OBVIOUS
<1>2. q \in Seq(Callers) /\ q # <<>> /\ Distinct(q) /\ c = Head(q) /\ r1 = Tail(q)
      /\ serving[e] = None
  BY <1>1 DEF CallInv, CallTypeOK, PlacesOK, Takes1, Next1
<1>3. /\ r1 \in Seq(Callers) /\ Distinct(r1) /\ c \in Callers /\ InQueue(c, q)
      /\ \A a : InQueue(a, r1) <=> InQueue(a, q) /\ a # c
  BY <1>2, PopQueue
<1>4. WaitsFor(c, e) /\ \A a \in Elements : serving[a] # c
  <2>1. WaitsFor(c, e) /\ serving[e] # c
    BY <1>1, <1>3 DEF CallInv, PlacesOK
  <2>2. \A a \in Elements : serving[a] = c => a = e
    BY <1>3, <2>1 DEF CallInv, PlacesOK, WaitsFor
  <2>3. QED
    BY <2>1, <2>2
<1>5. PICK w : w = [calling[c] EXCEPT !.reply = r]
  OBVIOUS
<1>6. w \in Calls1 /\ w.reply = r /\ w.to = calling[c].to /\ w.args = calling[c].args
      /\ w.to = e
  BY <1>3, <1>4, <1>5, <1>t DEF CallTypeOK, Calls1, WaitsFor
<1>7. PICK z : z = [end |-> "none", took |-> took, args |-> calling[c].args, ran |-> ran]
  OBVIOUS
<1>8. z \in Ends /\ z.end = "none" /\ z.took = took /\ z.args = calling[c].args /\ z.ran = ran
  BY <1>3, <1>7, <1>t DEF CallTypeOK, Calls1, Ends
<1>9. calling' = [calling EXCEPT ![c] = w] /\ returned' = [returned EXCEPT ![c] = z]
  BY <1>1, <1>5, <1>7 DEF Reply, Replies
<1>10. \A a \in Callers : /\ calling'[a] = IF a = c THEN w ELSE calling[a]
                          /\ returned'[a] = IF a = c THEN z ELSE returned[a]
  BY <1>3, <1>9, <1>t DEF CallTypeOK
<1>11. \A a \in Elements : mailbox'[a] = IF a = e THEN r1 ELSE mailbox[a]
  BY <1>1, <1>t DEF CallTypeOK
<1>12. CallTypeOK'
  <2>1. mailbox' \in [Elements -> Seq(Callers)]
    BY <1>1, <1>3, <1>t DEF CallTypeOK
  <2>2. calling' \in [Callers -> Calls1] /\ returned' \in [Callers -> Ends]
    BY <1>3, <1>6, <1>8, <1>9, <1>t DEF CallTypeOK
  <2>3. QED
    BY <2>1, <2>2, <1>t DEF CallTypeOK
<1>13. r # "none"
  BY DEF Types
<1>14. PlacesOK'
  <2>1. \A a \in Elements : Distinct(mailbox'[a])
    BY <1>3, <1>11 DEF CallInv, PlacesOK
  <2>2. \A b \in Callers, a \in Elements : WaitsFor(b, a)' <=> WaitsFor(b, a) /\ b # c
    BY <1>6, <1>10, <1>13 DEF WaitsFor
  <2>3. \A b \in Callers, a \in Elements :
            InQueue(b, mailbox'[a]) <=> InQueue(b, mailbox[a]) /\ b # c
    <3>1. \A a \in Elements : InQueue(c, mailbox[a]) => a = e
      BY <1>3, <1>4 DEF CallInv, PlacesOK, WaitsFor
    <3>2. QED
      BY <1>1, <1>3, <1>11, <3>1
  <2>4. \A b \in Callers : calling'[b].to = None => calling'[b] = NoCall
    BY <1>6, <1>10, UsersAssumption DEF CallInv, PlacesOK
  <2>5. QED
    BY <2>1, <2>2, <2>3, <2>4, <1>4 DEF CallInv, PlacesOK
<1>15. ServesOK'
  <2>1. \A a \in Elements : serving[a] = None => calling'[a] = NoCall
    <3>1. \A a \in Elements : serving[a] = None => a # c
      BY <1>4, <1>3, CallersAre, UsersAssumption DEF CallInv, ServesOK, WaitsFor
    <3>2. QED
      BY <1>10, <3>1, CallersAre DEF CallInv, ServesOK
  <2>2. ASSUME NEW a \in Elements, serving[a] # None
        PROVE  \E m \in methods'[a] : Accepts(m.takes, calling'[serving[a]].args)
    <3>1. a # e /\ serving[a] \in Callers /\ serving[a] # c
      BY <1>2, <1>4, <2>2, <1>t DEF CallTypeOK
    <3>2. methods'[a] = methods[a] /\ calling'[serving[a]] = calling[serving[a]]
      BY <1>10, <3>1
    <3>3. QED
      BY <2>2, <3>2 DEF CallInv, ServesOK
  <2>3. QED
    BY <2>1, <2>2 DEF ServesOK
<1>16. RepliesOK'
  <2>1. /\ w.reply \notin {"none", "error"} => z.ran = 1
        /\ z.end = "value" => z.ran = 1
        /\ z.ran = 1 <=> \E m \in z.took : Accepts(m.takes, z.args)
    BY <1>1, <1>6, <1>8
  <2>2. QED
    BY <1>10, <2>1 DEF CallInv, RepliesOK
<1>17. QED
  BY <1>12, <1>14, <1>15, <1>16 DEF CallInv

(* A caller that waits for nobody calls f, and is queued there; boxes are  *)
(* the mailboxes before it is, served who is served then.                  *)
LEMMA CallKeeps ==
    ASSUME CallInv, NEW c \in Callers, NEW f \in Elements, NEW args \in Args,
           NEW want \in Types \cup {"void"}, calling[c] = NoCall,
           X(c, f, args, want),
           NEW box \in [Elements -> Seq(Callers)], \A e \in Elements : Distinct(box[e]),
           mailbox' = Sent(box, f, c), methods' = methods,
           serving' \in [Elements -> Callers \cup {None}],
           \A e \in Elements, a \in Callers : /\ InQueue(a, box[e]) => serving'[e] # a
                                              /\ (InQueue(a, box[e]) \/ serving'[e] = a)
                                                   <=> (InQueue(a, mailbox[e]) \/ serving[e] = a),
           c \in Elements => serving'[c] # None,
           \A e \in Elements : serving'[e] = None => serving[e] = None,
           \A e \in Elements : serving'[e] # None =>
               \E m \in methods[e] : Accepts(m.takes, calling[serving'[e]].args)
    PROVE  CallInv'
<1>t. CallTypeOK
  BY DEF CallInv
<1>1. PICK w : w = [to |-> f, args |-> args, want |-> want, reply |-> "none"]
  OBVIOUS
<1>2. w \in Calls1 /\ w.to = f /\ w.reply = "none"
  BY <1>1 DEF Calls1
<1>3. calling' = [calling EXCEPT ![c] = w] /\ returned' = [returned EXCEPT ![c] = NoEnd]
  BY <1>1 DEF X
<1>4. \A a \in Callers : /\ calling'[a] = IF a = c THEN w ELSE calling[a]
                         /\ returned'[a] = IF a = c THEN NoEnd ELSE returned[a]
  BY <1>3, <1>t DEF CallTypeOK
<1>5. \A a \in Elements : ~WaitsFor(c, a) /\ ~InQueue(c, mailbox[a]) /\ serving[a] # c
  <2>1. \A a \in Elements : ~WaitsFor(c, a)
    BY CallersAre, UsersAssumption DEF WaitsFor
  <2>2. QED
    BY <2>1 DEF CallInv, PlacesOK
<1>6. PICK q : q = Append(box[f], c)
  OBVIOUS
<1>7. q \in Seq(Callers) /\ Distinct(q) /\ \A a : InQueue(a, q) <=> InQueue(a, box[f]) \/ a = c
  <2>1. PICK p : p = box[f]
    OBVIOUS
  <2>2. p \in Seq(Callers) /\ Distinct(p) /\ q = Append(p, c) /\ c \in Callers
    BY <1>6, <2>1
  <2>3. ~InQueue(c, p)
    BY <1>5, <2>1
  <2>4. q \in Seq(Callers) /\ Distinct(q) /\ \A a : InQueue(a, q) <=> InQueue(a, p) \/ a = c
    BY ONLY <2>2, <2>3, PushQueue
  <2>5. QED
    BY <2>1, <2>4
<1>8. \A a \in Elements : mailbox'[a] = IF a = f THEN q ELSE box[a]
  BY <1>6 DEF Sent
<1>9. CallTypeOK'
  <2>1. mailbox' \in [Elements -> Seq(Callers)]
    BY <1>6, <1>7 DEF Sent
  <2>2. calling' \in [Callers -> Calls1] /\ returned' \in [Callers -> Ends]
    BY <1>2, <1>3, <1>t, CallersAre DEF CallTypeOK
  <2>3. QED
    BY <2>1, <2>2, <1>t DEF CallTypeOK
<1>10. PlacesOK'
  <2>1. \A a \in Elements : Distinct(mailbox'[a])
    BY <1>7, <1>8
  <2>2. \A b \in Callers, a \in Elements : WaitsFor(b, a)' <=> WaitsFor(b, a) \/ (b = c /\ a = f)
    BY <1>2, <1>4, <1>5 DEF WaitsFor
  <2>3. \A b \in Callers, a \in Elements :
            InQueue(b, mailbox'[a]) <=> InQueue(b, box[a]) \/ (b = c /\ a = f)
    BY <1>7, <1>8
  <2>4. \A a \in Elements : serving'[a] # c
    BY <1>5
  <2>5. \A b \in Callers : calling'[b].to = None => calling'[b] = NoCall
    BY <1>2, <1>4, UsersAssumption DEF CallInv, PlacesOK
  <2>6. \A b \in Callers, a \in Elements :
            (InQueue(b, mailbox[a]) \/ serving[a] = b) <=> WaitsFor(b, a)
    BY DEF CallInv, PlacesOK
  <2>7. QED
    BY <2>1, <2>2, <2>3, <2>4, <2>5, <2>6 DEF PlacesOK
<1>11. ServesOK'
  <2>1. \A a \in Elements : serving'[a] = None => a # c /\ calling'[a] = NoCall
    BY <1>4, CallersAre DEF CallInv, ServesOK
  <2>2. \A a \in Elements : serving'[a] # None =>
            serving'[a] # c /\ serving'[a] \in Callers /\ calling'[serving'[a]] = calling[serving'[a]]
    BY <1>4, <1>5
  <2>3. QED
    BY <2>1, <2>2 DEF ServesOK
<1>12. RepliesOK'
  BY <1>2, <1>4, CallersAre DEF CallInv, RepliesOK
<1>13. QED
  BY <1>9, <1>10, <1>11, <1>12 DEF CallInv

LEMMA UserCallKeeps ==
    ASSUME CallInv, NEW t \in Threads, NEW e \in Elements, NEW args \in ArgLists,
           NEW want \in Types \cup {"void"}, UserX(t, e, args, want)
    PROVE  CallInv'
<1>1. /\ calling[t] = NoCall /\ X(t, e, args, want)
      /\ mailbox' = Sent(mailbox, e, t)
      /\ methods' = methods /\ serving' = serving
  BY DEF UserX
<1>2. t \in Callers /\ t \notin Elements /\ args \in Args
  BY ElementsAreNoThreads, CallersAre DEF Args
<1>3. /\ mailbox \in [Elements -> Seq(Callers)] /\ serving \in [Elements -> Callers \cup {None}]
      /\ \A a \in Elements : Distinct(mailbox[a])
      /\ \A a \in Elements, b \in Callers : InQueue(b, mailbox[a]) => serving[a] # b
      /\ \A a \in Elements : serving[a] # None =>
             \E m \in methods[a] : Accepts(m.takes, calling[serving[a]].args)
  BY DEF CallInv, CallTypeOK, PlacesOK, ServesOK
<1>4. QED
  BY <1>1, <1>2, <1>3, CallKeeps

LEMMA NestKeeps ==
    ASSUME CallInv, NEW e \in Elements, NEW m \in Methods, NEW f \in Elements,
           NEW args \in ArgLists, CallNests(e, m, f, args)
    PROVE  CallInv'
<1>t. CallTypeOK
  BY DEF CallInv
<1>1. PICK c, q, box : c = Next1(e) /\ q = Tail(mailbox[e]) /\ box = [mailbox EXCEPT ![e] = q]
  OBVIOUS
<1>2. /\ mailbox[e] # <<>> /\ serving[e] = None /\ m \in methods[e]
      /\ Accepts(m.takes, calling[c].args)
      /\ serving' = [serving EXCEPT ![e] = c] /\ X(e, f, args, "void") /\ methods' = methods
      /\ mailbox' = Sent(box, f, e)
  BY <1>1 DEF CallNests, Takes1
<1>3. mailbox[e] \in Seq(Callers) /\ Distinct(mailbox[e]) /\ c = Head(mailbox[e])
  BY <1>1, <1>t DEF CallInv, CallTypeOK, PlacesOK, Next1
<1>4. /\ q \in Seq(Callers) /\ Distinct(q) /\ c \in Callers /\ InQueue(c, mailbox[e])
      /\ \A a : InQueue(a, q) <=> InQueue(a, mailbox[e]) /\ a # c
  <2>1. PICK p : p = mailbox[e]
    OBVIOUS
  <2>2. p \in Seq(Callers) /\ p # <<>> /\ Distinct(p) /\ q = Tail(p) /\ c = Head(p)
    BY <1>1, <1>2, <1>3, <2>1
  <2>3. QED
    BY <2>1, <2>2, PopQueue
<1>5. /\ box \in [Elements -> Seq(Callers)]
      /\ \A a \in Elements : box[a] = IF a = e THEN q ELSE mailbox[a]
  BY <1>1, <1>4, <1>t DEF CallTypeOK
<1>6. /\ serving' \in [Elements -> Callers \cup {None}]
      /\ \A a \in Elements : serving'[a] = IF a = e THEN c ELSE serving[a]
  BY <1>2, <1>4, <1>t DEF CallTypeOK
<1>7. c # None /\ e \in Callers /\ args \in Args
  BY <1>4, CallersAre DEF Args
<1>8. calling[e] = NoCall
  BY <1>2 DEF CallInv, ServesOK
<1>9. \A a \in Elements : Distinct(box[a])
  BY <1>4, <1>5 DEF CallInv, PlacesOK
<1>10. \A a \in Elements, b \in Callers :
           /\ InQueue(b, box[a]) => serving'[a] # b
           /\ (InQueue(b, box[a]) \/ serving'[a] = b) <=> (InQueue(b, mailbox[a]) \/ serving[a] = b)
  BY <1>2, <1>4, <1>5, <1>6, CallersAre DEF CallInv, PlacesOK
<1>11. \A a \in Elements : serving'[a] # None =>
           \E n \in methods[a] : Accepts(n.takes, calling[serving'[a]].args)
  BY <1>2, <1>6 DEF CallInv, ServesOK
<1>12. QED
  BY <1>2, <1>5, <1>6, <1>7, <1>8, <1>9, <1>10, <1>11, CallKeeps

LEMMA NestEndKeeps ==
    ASSUME CallInv, NEW e \in Elements, NestEnds(e)
    PROVE  CallInv'
<1>t. CallTypeOK
  BY DEF CallInv
<1>1. PICK c, r : c = serving[e] /\ r = IF calling[e].reply = "error" THEN "error" ELSE "void"
  OBVIOUS
<1>2. /\ c # None /\ c \in Callers /\ calling[e].reply # "none"
      /\ serving' = [serving EXCEPT ![e] = None]
      /\ methods' = methods /\ mailbox' = mailbox
  BY <1>1, <1>t DEF NestEnds, CallTypeOK
<1>3. /\ calling' = [calling EXCEPT ![e] = NoCall, ![c].reply = r]
      /\ returned' = [returned EXCEPT ![e] = NoEnd, ![c] =
             [end |-> "none", took |-> methods[e], args |-> calling[c].args, ran |-> 1]]
  BY <1>1 DEF NestEnds
<1>4. WaitsFor(c, e) /\ c # e /\ e \in Callers
  BY <1>1, <1>2, CallersAre DEF CallInv, PlacesOK, WaitsFor
<1>5. PICK w, z : /\ w = [calling[c] EXCEPT !.reply = r]
                  /\ z = [end |-> "none", took |-> methods[e], args |-> calling[c].args, ran |-> 1]
  OBVIOUS
<1>6. w \in Calls1 /\ w.to = e /\ w.reply = r /\ w.args = calling[c].args
  BY <1>1, <1>2, <1>4, <1>5, <1>t DEF CallTypeOK, Calls1, WaitsFor
<1>7. z \in Ends /\ z.end = "none" /\ z.took = methods[e] /\ z.args = calling[c].args /\ z.ran = 1
  BY <1>2, <1>5, <1>t DEF CallTypeOK, Calls1, Ends
<1>8. /\ calling' \in [Callers -> Calls1]
      /\ \A a \in Callers : calling'[a] = IF a = c THEN w ELSE IF a = e THEN NoCall ELSE calling[a]
  BY <1>2, <1>3, <1>4, <1>5, <1>6, <1>t, CallersAre DEF CallTypeOK
<1>9. /\ returned' \in [Callers -> Ends]
      /\ \A a \in Callers : returned'[a] = IF a = c THEN z ELSE IF a = e THEN NoEnd ELSE returned[a]
  BY <1>2, <1>3, <1>4, <1>5, <1>7, <1>t, CallersAre DEF CallTypeOK
<1>10. /\ serving' \in [Elements -> Callers \cup {None}]
       /\ \A a \in Elements : serving'[a] = IF a = e THEN None ELSE serving[a]
  BY <1>2, <1>t DEF CallTypeOK
<1>11. CallTypeOK'
  BY <1>2, <1>8, <1>9, <1>10, <1>t DEF CallTypeOK
<1>12. r # "none"
  BY <1>1
<1>13. \A a \in Elements : serving[a] = c => a = e
  BY <1>2, <1>4 DEF CallInv, PlacesOK, WaitsFor
<1>14. PlacesOK'
  <2>1. \A b \in Callers, a \in Elements : WaitsFor(b, a)' <=> WaitsFor(b, a) /\ b # c
    BY <1>2, <1>4, <1>6, <1>8, <1>12, CallersAre, UsersAssumption DEF WaitsFor
  <2>2. \A a \in Elements : ~InQueue(c, mailbox[a])
    BY <1>1, <1>2, <1>4 DEF CallInv, PlacesOK, WaitsFor
  <2>3. \A b \in Callers, a \in Elements : serving'[a] = b <=> serving[a] = b /\ b # c
    BY <1>1, <1>10, <1>13, CallersAre
  <2>4. \A b \in Callers : calling'[b].to = None => calling'[b] = NoCall
    BY <1>6, <1>8, UsersAssumption DEF CallInv, PlacesOK
  <2>5. QED
    BY <1>2, <2>1, <2>2, <2>3, <2>4 DEF CallInv, PlacesOK
<1>15. ServesOK'
  <2>1. \A a \in Elements : serving'[a] = None => calling'[a] = NoCall
    <3>1. \A a \in Elements : serving[a] = None => a # c
      BY <1>4, CallersAre, UsersAssumption DEF CallInv, ServesOK, WaitsFor
    <3>2. QED
      BY <1>8, <1>10, <3>1, <1>4, CallersAre DEF CallInv, ServesOK
  <2>2. ASSUME NEW a \in Elements, serving'[a] # None
        PROVE  \E m \in methods'[a] : Accepts(m.takes, calling'[serving'[a]].args)
    <3>1. a # e /\ serving'[a] = serving[a] /\ serving[a] \in Callers
      BY <1>10, <2>2, <1>t DEF CallTypeOK
    <3>2. serving[a] # c /\ serving[a] # e
      BY <1>2, <1>13, <3>1 DEF CallInv, PlacesOK, WaitsFor
    <3>3. calling'[serving[a]] = calling[serving[a]]
      BY <1>8, <3>1, <3>2
    <3>4. \E m \in methods[a] : Accepts(m.takes, calling[serving[a]].args)
      BY <2>2, <3>1 DEF CallInv, ServesOK
    <3>5. QED
      BY <1>2, <3>1, <3>3, <3>4
  <2>3. QED
    BY <2>1, <2>2 DEF ServesOK
<1>16. RepliesOK'
  <2>1. \E m \in z.took : Accepts(m.takes, z.args)
    BY <1>1, <1>2, <1>7 DEF CallInv, ServesOK
  <2>2. QED
    BY <1>4, <1>7, <1>8, <1>9, <2>1, CallersAre DEF CallInv, RepliesOK
<1>17. QED
  BY <1>11, <1>14, <1>15, <1>16 DEF CallInv

LEMMA ReturnKeeps ==
    ASSUME CallInv, NEW t \in Threads, XReturns(t)
    PROVE  CallInv'
<1>t. CallTypeOK /\ t \in Callers /\ t \notin Elements
  BY CallersAre, ElementsAreNoThreads DEF CallInv
<1>1. PICK r, x, z : /\ r = calling[t].reply
                     /\ x = IF ConvertsReply(r, calling[t].want) THEN "value" ELSE "thrown"
                     /\ z = [returned[t] EXCEPT !.end = x]
  OBVIOUS
<1>2. /\ r # "none" /\ calling' = [calling EXCEPT ![t] = NoCall]
      /\ returned' = [returned EXCEPT ![t] = z]
      /\ methods' = methods /\ mailbox' = mailbox /\ serving' = serving
  BY <1>1 DEF XReturns
<1>3. /\ z \in Ends /\ z.end = x /\ z.took = returned[t].took
      /\ z.args = returned[t].args /\ z.ran = returned[t].ran
  BY <1>1, <1>t DEF CallTypeOK, Ends
<1>4. /\ calling' \in [Callers -> Calls1] /\ returned' \in [Callers -> Ends]
      /\ \A a \in Callers : /\ calling'[a] = IF a = t THEN NoCall ELSE calling[a]
                            /\ returned'[a] = IF a = t THEN z ELSE returned[a]
  BY <1>2, <1>3, <1>t, CallersAre DEF CallTypeOK
<1>5. CallTypeOK'
  BY <1>2, <1>4, <1>t DEF CallTypeOK
<1>6. \A a \in Elements : ~WaitsFor(t, a)
  BY <1>1, <1>2 DEF WaitsFor
<1>7. PlacesOK'
  <2>1. \A b \in Callers, a \in Elements : WaitsFor(b, a)' <=> WaitsFor(b, a)
    BY <1>4, <1>6, CallersAre, UsersAssumption DEF WaitsFor
  <2>2. QED
    BY <1>2, <1>4, <2>1, CallersAre DEF CallInv, PlacesOK
<1>8. ServesOK'
  <2>1. \A a \in Elements : calling'[a] = calling[a] /\ serving[a] # t
    BY <1>4, <1>6, <1>t, CallersAre DEF CallInv, PlacesOK
  <2>2. \A a \in Elements : serving[a] # None => calling'[serving[a]] = calling[serving[a]]
    BY <1>4, <1>t, <2>1 DEF CallTypeOK
  <2>3. QED
    BY <1>2, <2>1, <2>2 DEF CallInv, ServesOK
<1>9. RepliesOK'
  <2>1. x = "value" => z.ran = 1
    BY <1>1, <1>2, <1>3, <1>t DEF ConvertsReply, CallInv, RepliesOK
  <2>2. QED
    BY <1>3, <1>4, <1>t, <2>1, CallersAre DEF CallInv, RepliesOK
<1>10. QED
  BY <1>5, <1>7, <1>8, <1>9 DEF CallInv

LEMMA RefusedKeeps ==
    ASSUME CallInv, NEW e \in Elements, CallRefused(e)
    PROVE  CallInv'
<1>1. PICK took : took = methods[e]
  OBVIOUS
<1>2. /\ Takes1(e) /\ Reply(Next1(e), "error", took, 0)
      /\ \A m \in took : ~Accepts(m.takes, calling[Next1(e)].args)
      /\ mailbox' = [mailbox EXCEPT ![e] = Tail(@)]
      /\ methods' = methods /\ serving' = serving
  BY <1>1 DEF CallRefused
<1>3. methods' \in [Elements -> SUBSET Methods] /\ took \in SUBSET Methods
  BY <1>1, <1>2 DEF CallInv, CallTypeOK
<1>4. "error" \in Types \cup {"void", "error"} /\ 0 \in {0, 1}
  OBVIOUS
<1>5. 0 = 1 <=> \E m \in took : Accepts(m.takes, calling[Next1(e)].args)
  BY <1>2
<1>6. \A a \in Elements : a # e => methods'[a] = methods[a]
  BY <1>2
<1>7. QED
  BY <1>2, <1>3, <1>4, <1>5, <1>6, ReplyKeeps

\* what a method does to the registry of its block
LEMMA EffectOnMethods ==
    ASSUME CallTypeOK, NEW e \in Elements, NEW m \in Methods, Effect(e, m)
    PROVE  /\ methods' \in [Elements -> SUBSET Methods]
           /\ \A a \in Elements : a # e => methods'[a] = methods[a]
<1>1. methods \in [Elements -> SUBSET Methods] /\ Declared \in [Elements -> SUBSET Methods]
  BY CallableAssumption DEF CallTypeOK
<1>2. CASE m.body = "unregister"
  <2>1. methods' = [methods EXCEPT ![e] = {}]
    BY <1>2 DEF Effect, UnregisterCall
  <2>2. QED
    BY <1>1, <2>1
<1>3. CASE m.body = "register"
  <2>1. PICK n \in Declared[e] : RegisterCall(e, n)
    BY <1>3 DEF Effect
  <2>2. PICK new \in SUBSET Methods : methods' = [methods EXCEPT ![e] = new]
    BY <1>1, <2>1 DEF RegisterCall
  <2>3. QED
    BY <1>1, <2>2
<1>4. CASE m.body # "unregister" /\ m.body # "register"
  <2>1. methods' = methods
    BY <1>4 DEF Effect
  <2>2. QED
    BY <1>1, <2>1
<1>5. QED
  BY <1>2, <1>3, <1>4

LEMMA RunsKeeps ==
    ASSUME CallInv, NEW e \in Elements, NEW m \in Methods, CallRuns(e, m)
    PROVE  CallInv'
<1>1. /\ Takes1(e) /\ Accepts(m.takes, calling[Next1(e)].args)
      /\ Reply(Next1(e), IF Throws(m) THEN "error" ELSE m.returns, {m}, 1)
      /\ Effect(e, m) /\ mailbox' = [mailbox EXCEPT ![e] = Tail(@)] /\ serving' = serving
  BY DEF CallRuns
<1>2. PICK r : r = IF Throws(m) THEN "error" ELSE m.returns
  OBVIOUS
<1>3. m.returns \in Types \cup {"void"}
  BY CallableAssumption
<1>4. r \in Types \cup {"void", "error"} /\ {m} \in SUBSET Methods
  BY <1>2, <1>3
<1>5. /\ methods' \in [Elements -> SUBSET Methods]
      /\ \A a \in Elements : a # e => methods'[a] = methods[a]
  BY <1>1, EffectOnMethods DEF CallInv
<1>6. QED
  BY <1>1, <1>2, <1>4, <1>5, ReplyKeeps

LEMMA ConstructorKeeps ==
    ASSUME CallInv, NEW e \in Elements, ConstructorRegisters(e)
    PROVE  CallInv'
<1>1. mailbox' = mailbox /\ serving' = serving /\ calling' = calling /\ returned' = returned
  BY DEF ConstructorRegisters
<1>2. methods \in [Elements -> SUBSET Methods] /\ Declared[e] \in SUBSET Methods
  BY CallableAssumption DEF CallInv, CallTypeOK
<1>3. /\ methods' \in [Elements -> SUBSET Methods]
      /\ \A a \in Elements : methods[a] # {} => methods'[a] = methods[a]
  <2>1. CASE Declared[e] = {}
    BY <1>2, <2>1 DEF ConstructorRegisters
  <2>2. CASE Declared[e] # {}
    <3>1. PICK m \in Methods : RegisterCall(e, m)
      BY <1>2, <2>2 DEF ConstructorRegisters
    <3>2. PICK new \in SUBSET Methods : /\ methods' = [methods EXCEPT ![e] = new]
                                        /\ methods[e] # {} => new = methods[e]
      <4>1. PICK new : new = IF methods[e] = {} THEN {m} ELSE methods[e]
        OBVIOUS
      <4>2. new \in SUBSET Methods /\ (methods[e] # {} => new = methods[e])
        BY <1>2, <4>1
      <4>3. methods' = [methods EXCEPT ![e] = new]
        BY <1>2, <3>1, <4>1 DEF RegisterCall
      <4>4. QED
        BY <4>2, <4>3
    <3>3. QED
      BY <1>2, <3>2
  <2>3. QED
    BY <2>1, <2>2
<1>4. CallTypeOK'
  BY <1>1, <1>3 DEF CallInv, CallTypeOK
<1>5. PlacesOK'
  BY <1>1 DEF CallInv, PlacesOK, WaitsFor
<1>6. ServesOK'
  BY <1>1, <1>3 DEF CallInv, ServesOK
<1>7. RepliesOK'
  BY <1>1 DEF CallInv, RepliesOK
<1>8. QED
  BY <1>4, <1>5, <1>6, <1>7 DEF CallInv

LEMMA LibraryStepKeepsCalls == CallInv /\ TreeInv /\ [LibraryNext]_library => CallInv'
<1> SUFFICES ASSUME CallInv, TreeInv, [LibraryNext]_library PROVE CallInv'
  OBVIOUS
<1>q. ASSUME UNCHANGED callable PROVE CallInv'
  <2>1. /\ methods' = methods /\ mailbox' = mailbox /\ serving' = serving
        /\ calling' = calling /\ returned' = returned
    BY <1>q DEF callable
  <2>2. QED
    BY <2>1 DEF CallInv, CallTypeOK, PlacesOK, WaitsFor, ServesOK, RepliesOK
<1>1. CASE CallableStep
  <2>1. ASSUME NEW e \in Elements, CallRefused(e) \/ NestEnds(e) PROVE CallInv'
    BY <2>1, RefusedKeeps, NestEndKeeps
  <2>2. ASSUME NEW e \in Elements, NEW m \in Methods,
               CallRuns(e, m) \/ \E f \in Elements, args \in ArgLists : CallNests(e, m, f, args)
        PROVE  CallInv'
    BY <2>2, RunsKeeps, NestKeeps
  <2>3. ASSUME NEW t \in Threads, XReturns(t) PROVE CallInv'
    BY <2>3, ReturnKeeps
  <2>4. QED
    BY <1>1, <2>1, <2>2, <2>3 DEF CallableStep
<1>2. ASSUME NEW t \in Threads, UsesCallable(t) PROVE CallInv'
  <2>1. PICK e \in user \ Hier, args \in ArgLists, want \in Types \cup {"void"} :
            UserX(t, e, args, want)
    BY <1>2 DEF UsesCallable
  <2>2. e \in Elements
    BY DEF TreeInv, TreeTypeOK
  <2>3. QED
    BY <2>1, <2>2, UserCallKeeps
<1>3. ASSUME NEW t \in Threads, Constructed(t) PROVE CallInv'
  <2>1. doing[t].op = "construct" /\ ConstructorRegisters(doing[t].elem)
    BY <1>3 DEF Constructed, UidFound
  <2>2. doing[t].elem \in Elements
    BY <2>1 DEF TreeInv, CallsOK
  <2>3. QED
    BY <2>1, <2>2, ConstructorKeeps
<1>4. QED
  BY <1>q, <1>1, <1>2, <1>3 DEF LibraryNext, library

LEMMA CallableInitHolds == CallableInit => CallInv
<1> SUFFICES ASSUME CallableInit PROVE CallInv
  OBVIOUS
<1>1. <<>> \in Seq(Callers) /\ Distinct(<<>>) /\ \A c : ~InQueue(c, <<>>)
  BY EmptySeq DEF Distinct, InQueue
<1>2. CallTypeOK
  BY <1>1, CallersAre DEF CallableInit, CallTypeOK
<1>3. PlacesOK
  BY <1>1, CallersAre, UsersAssumption DEF CallableInit, PlacesOK, WaitsFor
<1>4. ServesOK
  BY CallersAre DEF CallableInit, ServesOK
<1>5. RepliesOK
  BY CallersAre DEF CallableInit, RepliesOK
<1>6. QED
  BY <1>2, <1>3, <1>4, <1>5 DEF CallInv

LEMMA CallsAlways == LibrarySpec => []CallInv
<1>1. LibrarySpec => []TreeInv
  BY LibraryUsesTree, TreeAlways, PTL
<1>2. LibraryInit => CallInv
  BY CallableInitHolds DEF LibraryInit
<1>3. QED
  BY <1>1, <1>2, LibraryStepKeepsCalls, PTL DEF LibrarySpec

(* x() returns a value only of a method that took these arguments and ran  *)
(* (callable.hpp: _handle_call, and the conversions around it).            *)
THEOREM CallsRunOnce == LibrarySpec => []CallRunsOnce
<1>1. CallInv => CallRunsOnce
  BY CallersAre DEF CallInv, RepliesOK, CallRunsOnce
<1>2. QED
  BY <1>1, CallsAlways, PTL

---------------------------------------------------------------------------
\* a mailbox holds every caller once, so no more than there are callers
LEMMA QueueFits ==
    ASSUME NEW q, q \in Seq(Callers), Distinct(q)
    PROVE  Len(q) \in Nat /\ Len(q) <= Cardinality(Callers)
<1>1. PICK n \in Nat : n = Len(q)
  BY LenProperties
<1>2. IsFiniteSet(Callers) /\ Cardinality(Callers) \in Nat
  BY UsersAssumption, FS_CardinalityType DEF Callers
<1>3. IsFiniteSet(1 .. n) /\ Cardinality(1 .. n) = n
  <2>1. 1 \in Int /\ n \in Int
    OBVIOUS
  <2>2. IsFiniteSet(1 .. n) /\ Cardinality(1 .. n) = IF 1 > n THEN 0 ELSE n - 1 + 1
    BY <2>1, FS_Interval
  <2>3. QED
    BY <2>2
<1>4. q \in [1 .. n -> Callers]
  BY <1>1, LenProperties
<1>5. ~(Cardinality(Callers) < n)
  <2>1. SUFFICES ASSUME Cardinality(Callers) < n PROVE FALSE
    OBVIOUS
  <2>2. \E j, k \in 1 .. n : j # k /\ q[j] = q[k]
    BY <1>2, <1>3, <1>4, <2>1, FS_PigeonHole
  <2>3. QED
    BY <1>1, <2>2 DEF Distinct
<1>6. QED
  BY <1>1, <1>2, <1>5

\* the calls of c that run, and those that are queued
RunsAt(c)   == {e \in Elements : serving[e] = c}
QueuedAt(c) == {p \in Elements \X (1 .. Cardinality(Callers)) :
                   p[2] \in DOMAIN mailbox[p[1]] /\ mailbox[p[1]][p[2]] = c}

LEMMA OnePlace ==
    ASSUME CallInv, NEW c \in Callers
    PROVE  Cardinality(RunsAt(c)) + Cardinality(QueuedAt(c))
               = IF calling[c] # NoCall /\ calling[c].reply = "none" THEN 1 ELSE 0
<1> DEFINE to == calling[c].to
<1>1. CallTypeOK /\ PlacesOK
  BY DEF CallInv
<1>2. \A e \in Elements : mailbox[e] \in Seq(Callers) /\ Distinct(mailbox[e])
  BY <1>1 DEF CallTypeOK, PlacesOK
<1>3. \A e \in Elements : /\ DOMAIN mailbox[e] = 1 .. Len(mailbox[e])
                          /\ Len(mailbox[e]) \in Nat
                          /\ Len(mailbox[e]) <= Cardinality(Callers)
  BY <1>2, QueueFits, LenProperties
<1>4. \A e \in RunsAt(c) : e \in Elements /\ WaitsFor(c, e) /\ ~InQueue(c, mailbox[e])
  BY <1>1 DEF PlacesOK, RunsAt
<1>5. \A p \in QueuedAt(c) : /\ p[1] \in Elements /\ p = <<p[1], p[2]>>
                            /\ p[2] \in 1 .. Len(mailbox[p[1]]) /\ mailbox[p[1]][p[2]] = c
  BY <1>3 DEF QueuedAt
<1>6. \A p \in QueuedAt(c) : InQueue(c, mailbox[p[1]])
  BY <1>5 DEF InQueue
<1>7. \A p \in QueuedAt(c) : WaitsFor(c, p[1]) /\ serving[p[1]] # c
  BY <1>1, <1>5, <1>6 DEF PlacesOK
<1>8. CASE to \in Elements /\ calling[c].reply = "none"
  <2>1. calling[c] # NoCall
    BY <1>8, CallersAre, UsersAssumption
  <2>2. WaitsFor(c, to)
    BY <1>8 DEF WaitsFor
  <2>3. CASE serving[to] = c
    <3>1. RunsAt(c) = {to}
      BY <1>4, <1>8, <2>3 DEF RunsAt, WaitsFor
    <3>2. QueuedAt(c) = {}
      BY <1>7, <2>3 DEF WaitsFor
    <3>3. Cardinality(RunsAt(c)) = 1 /\ Cardinality(QueuedAt(c)) = 0
      BY <3>1, <3>2, FS_Singleton, FS_EmptySet
    <3>4. QED
      BY <1>8, <2>1, <3>3
  <2>4. CASE serving[to] # c
    <3>1. PICK k \in 1 .. Len(mailbox[to]) : mailbox[to][k] = c
      BY <1>1, <1>8, <2>2, <2>4 DEF PlacesOK, InQueue
    <3>2. RunsAt(c) = {}
      BY <1>4, <2>4 DEF RunsAt, WaitsFor
    <3>3. <<to, k>> \in QueuedAt(c)
      <4>1. Cardinality(Callers) \in Nat
        BY UsersAssumption, FS_CardinalityType DEF Callers
      <4>2. PICK e, n : e = to /\ n = Len(mailbox[e])
        OBVIOUS
      <4>3. n \in Nat /\ n <= Cardinality(Callers) /\ DOMAIN mailbox[e] = 1 .. n
        BY <1>3, <1>8, <4>2
      <4>4. k \in 1 .. Cardinality(Callers)
        BY <4>1, <4>2, <4>3
      <4>5. k \in DOMAIN mailbox[e] /\ mailbox[e][k] = c /\ e \in Elements
        BY <1>8, <3>1, <4>2, <4>3
      <4>6. <<e, k>> \in QueuedAt(c)
        BY <4>4, <4>5 DEF QueuedAt
      <4>7. QED
        BY <4>2, <4>6
    <3>4. \A p \in QueuedAt(c) : p = <<to, k>>
      BY <1>2, <1>5, <1>7, <1>8, <3>1 DEF WaitsFor, Distinct
    <3>5. QueuedAt(c) = {<<to, k>>}
      BY <3>3, <3>4
    <3>6. Cardinality(RunsAt(c)) = 0 /\ Cardinality(QueuedAt(c)) = 1
      BY <3>2, <3>5, FS_Singleton, FS_EmptySet
    <3>7. QED
      BY <1>8, <2>1, <3>6
  <2>5. QED
    BY <2>3, <2>4
<1>9. CASE ~(to \in Elements /\ calling[c].reply = "none")
  <2>1. RunsAt(c) = {}
    BY <1>4, <1>9 DEF WaitsFor
  <2>2. QueuedAt(c) = {}
    BY <1>5, <1>7, <1>9 DEF WaitsFor
  <2>3. Cardinality(RunsAt(c)) = 0 /\ Cardinality(QueuedAt(c)) = 0
    BY <2>1, <2>2, FS_EmptySet
  <2>4. ~(calling[c] # NoCall /\ calling[c].reply = "none")
    BY <1>1, <1>9 DEF CallTypeOK, Calls1, PlacesOK
  <2>5. QED
    BY <2>3, <2>4
<1>10. QED
  BY <1>8, <1>9

(* A caller that waits in x() has its request in one place: the mailbox of *)
(* the block it calls, the method that runs there, or the reply            *)
(* (callable.hpp: x; block_calls.cpp: _handle_call).                       *)
THEOREM CallsStayPending == LibrarySpec => []CallIsPending
<1>1. CallInv => CallIsPending
  BY OnePlace DEF CallIsPending, RunsAt, QueuedAt
<1>2. QED
  BY <1>1, CallsAlways, PTL
============================================================================
