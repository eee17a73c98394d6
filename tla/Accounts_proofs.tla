--------------------------- MODULE Accounts_proofs ---------------------------
(***************************************************************************)
(* What holds of any number of accounts, tabs and management calls.        *)
(***************************************************************************)
EXTENDS Accounts, TLAPS, FiniteSetTheorems

\* What a call knows where it stands.
CallsKnow ==
    \A c \in Call :
       /\ pc[c] # "ready" => op[c] # None
       /\ pc[c] \in {"ready", "get", "count", "write", "revoke"} => outcome[c] = None
       /\ pc[c] = "revoke" => op[c] = "setPassword"
       /\ pc[c] \in {"count", "write"} /\ op[c] \notin {"create", "bootstrap"} =>
             users[target[c]] # None /\ row[c] # None
       /\ pc[c] = "write" /\ op[c] \in Removals /\ row[c].role = "admin" => counted[c] >= 2

\* What a tab knows where it stands.
TabsKnow ==
    \A t \in Tab :
       /\ pc[t] \in {"load", "closed"} => presented[t] = None
       /\ pc[t] \in {"find", "user", "exchange", "logout"} => presented[t] # None
       /\ pc[t] \in {"user", "exchange", "issue", "issueNew"} => found[t] # None
       /\ pc[t] \in {"exchange", "issue", "issueNew"} => row[t] # None
       /\ pc[t] \in {"granted", "grantedNew"} => answer[t] \in [access : Access, refresh : Session]
       /\ pc[t] \in {"meAnswer", "profileAnswer"} => answer[t] \in Access \cup {None}

TypeInv == TypeOK /\ CallsKnow /\ TabsKnow

\* Seeding and the first requests: every variable starts within its type.
LEMMA TypeInit == Init => TypeInv
<1> SUFFICES ASSUME Init PROVE TypeInv
  OBVIOUS
<1>1. PICK start \in Starts :
         /\ users = start.users
         /\ op = start.op /\ target = start.target /\ failures = start.failures
         /\ pc = [p \in Tab \cup Call |-> IF p \in Call THEN "ready"
                    ELSE IF p \in start.open THEN "load" ELSE "closed"]
  BY DEF Init
<1>2. /\ users \in [User -> Row \cup {None}]
      /\ op \in [Call -> AllOps \cup {None}] /\ target \in [Call -> User]
      /\ failures \in 0 .. MaxFailures
  BY <1>1, CallsAssumption
<1>3. /\ pc \in [Tab \cup Call -> TabLabel \cup CallLabel]
      /\ \A t \in Tab : pc[t] \in {"load", "closed"}
      /\ \A c \in Call : pc[c] = "ready"
  BY <1>1, CallsAssumption DEF TabLabel, CallLabel, Loading, Settled
<1>4. store \in [Browser -> [access : Access \cup {None}, refresh : Session \cup {None}]]
  BY DEF Init, EmptyStore
<1>5. TypeOK
  BY <1>2, <1>3, <1>4 DEF Init, TypeOK, TabLabel, CallLabel, Loading, Settled
<1>6. CallsKnow
  BY <1>3 DEF Init, CallsKnow
<1>7. TabsKnow
  BY <1>3 DEF Init, TabsKnow
<1> QED BY <1>5, <1>6, <1>7 DEF TypeInv

\* An UPDATE leaves a row, and the password of another row than setPassword's.
LEMMA ChangedTyped ==
  ASSUME NEW o \in AllOps \ {"create", "bootstrap"}, NEW r \in Row
  PROVE  /\ Changed(o, r) \in Row
         /\ o # "setPassword" => Changed(o, r).password = r.password
         /\ o \notin Removals /\ CanSignIn(r) /\ r.role = "admin" =>
               CanSignIn(Changed(o, r)) /\ Changed(o, r).role = "admin"
<1>1. Changed(o, r) \in Row /\ (o # "setPassword" => Changed(o, r).password = r.password)
  <2>1. CASE o \in {"promote", "demote"}
    BY <2>1 DEF Changed, Row
  <2>2. CASE o \in {"enable", "disable"}
    BY <2>2 DEF Changed, Row
  <2>3. CASE o = "delete"
    <3>1. Changed(o, r) = [r EXCEPT !.deleted = TRUE]
      BY <2>3 DEF Changed
    <3> QED BY <2>3, <3>1 DEF Row
  <2>4. CASE o = "setPassword"
    BY <2>4 DEF Changed, Row
  <2> QED BY <2>1, <2>2, <2>3, <2>4 DEF AllOps, AdminOps
<1>2. CASE o \in {"promote", "enable", "setPassword"}
  <2>1. ~ (None \in Row)
    BY UsersAssumption
  <2> QED BY <1>1, <1>2, <2>1 DEF Changed, Row, CanSignIn, Removals
<1> QED BY <1>1, <1>2 DEF AllOps, AdminOps, Removals

\* A step of a call moves no tab.
LEMMA TabsStay ==
  ASSUME TypeInv, NEW c \in Call, NEW l, pc' = [pc EXCEPT ![c] = l],
         row' = row \/ \E r : row' = [row EXCEPT ![c] = r],
         UNCHANGED tabState
  PROVE  TabsKnow' /\ \A t \in Tab : pc'[t] = pc[t] /\ row'[t] = row[t]
<1>1. \A t \in Tab : pc'[t] = pc[t] /\ row'[t] = row[t]
  BY CallsAssumption DEF TypeInv, TypeOK
<1> QED BY <1>1 DEF TypeInv, TabsKnow, tabState

\* Ending a call, in whatever way.
LEMMA EndTyped ==
  ASSUME TypeInv, NEW c \in Call, NEW result \in {"success", "failure", "halfway"},
         pc[c] # "ready", End(c, result)
  PROVE  /\ pc' \in [Tab \cup Call -> TabLabel \cup CallLabel]
         /\ \A t \in Tab : pc'[t] \in TabLabel
         /\ \A d \in Call : pc'[d] \in CallLabel
         /\ outcome' \in [Call -> {None, "success", "failure", "halfway"}]
         /\ row' \in [Tab \cup Call -> Row \cup {None}]
         /\ counted' \in [Call -> Nat]
         /\ pc'[c] \in {"record", "ended"}
         /\ \A d \in Call \ {c} : /\ pc'[d] = pc[d] /\ outcome'[d] = outcome[d]
                                  /\ row'[d] = row[d] /\ counted'[d] = counted[d]
<1>1. PICK l \in {"record", "ended"} : pc' = [pc EXCEPT ![c] = l]
  BY DEF End, Goto
<1>2. \A t \in Tab : pc'[t] = pc[t]
  BY <1>1, CallsAssumption DEF TypeInv, TypeOK
<1>3. \A d \in Call : pc'[d] \in CallLabel
  BY <1>1 DEF TypeInv, TypeOK, CallLabel
<1>4. pc' \in [Tab \cup Call -> TabLabel \cup CallLabel]
  BY <1>1 DEF TypeInv, TypeOK, CallLabel
<1>5. /\ outcome' \in [Call -> {None, "success", "failure", "halfway"}]
      /\ row' \in [Tab \cup Call -> Row \cup {None}]
      /\ counted' \in [Call -> Nat]
  BY DEF End, TypeInv, TypeOK
<1>6. pc'[c] \in {"record", "ended"}
  BY <1>1 DEF TypeInv, TypeOK
<1>7. \A d \in Call \ {c} : /\ pc'[d] = pc[d] /\ outcome'[d] = outcome[d]
                            /\ row'[d] = row[d] /\ counted'[d] = counted[d]
  BY <1>1 DEF End, TypeInv, TypeOK
<1> QED BY <1>2, <1>3, <1>4, <1>5, <1>6, <1>7 DEF TypeInv, TypeOK

\* ... for a call that changes no user on the way.
LEMMA EndKeeps ==
  ASSUME TypeInv, NEW c \in Call, NEW result \in {"success", "failure", "halfway"},
         pc[c] # "ready", End(c, result), failures' \in 0 .. MaxFailures,
         UNCHANGED <<users, store, tabState, op, actor, target, entry>>,
         sessions' \in [Session -> SessionRow \cup {None}]
  PROVE  TypeInv'
<1>1. TypeOK'
  BY EndTyped DEF TypeInv, TypeOK, tabState
<1>2. CallsKnow'
  <2>1. \A d \in Call \ {c} : /\ pc'[d] = pc[d] /\ outcome'[d] = outcome[d]
                              /\ row'[d] = row[d] /\ counted'[d] = counted[d]
    BY EndTyped
  <2>2. pc'[c] \in {"record", "ended"}
    BY EndTyped
  <2> QED BY <2>1, <2>2 DEF TypeInv, CallsKnow
<1>3. TabsKnow'
  BY TabsStay DEF End, Goto
<1> QED BY <1>1, <1>2, <1>3 DEF TypeInv

\* countActiveAdmins counts a finite set.
LEMMA WhoIsAdmin == TypeOK => IsFiniteSet(Admins) /\ Cardinality(Admins) \in Nat
<1>1. Admins \subseteq User
  BY DEF Admins
<1> QED BY <1>1, UsersAssumption, FS_Subset, FS_CardinalityType

\* One step of a management call.
LEMMA TypeCall ==
  ASSUME TypeInv, NEW c \in Call,
         CallStep(c) \/ StartBootstrap(c) \/ \E t \in Tab : Start(c, t)
  PROVE  TypeInv'
<1> USE DEF TypeInv
<1>a. failures \in 0 .. MaxFailures /\ MaxFailures \in Nat
  BY CallsAssumption DEF TypeOK
<1>b. target[c] \in User /\ users[target[c]] \in Row \cup {None} /\ op[c] \in AllOps \cup {None}
  BY DEF TypeOK
\* a step that only goes on
<1>c. ASSUME NEW l \in CallLabel, pc' = [pc EXCEPT ![c] = l]
      PROVE  /\ pc' \in [Tab \cup Call -> TabLabel \cup CallLabel]
             /\ \A t \in Tab : pc'[t] \in TabLabel
             /\ \A d \in Call : pc'[d] \in CallLabel
  BY <1>c, CallsAssumption DEF TypeOK
<1>1. ASSUME NEW t \in Tab, Start(c, t)
      PROVE  TypeInv'
  <2>1. PICK l \in {"write", "get"} :
           /\ pc' = [pc EXCEPT ![c] = l] /\ (l = "write" => op[c] = "create")
    BY <1>1 DEF Start, Goto
  <2>2. op[c] # None /\ store[BrowserOf[t]].access \in Access
    <3>1. BrowserOf[t] \in Browser
      BY CallsAssumption
    <3>2. Allowed(store[BrowserOf[t]].access, op[c], target[c])
      BY <1>1 DEF Start
    <3> QED BY <3>1, <3>2, UsersAssumption DEF Allowed, Valid, TypeOK, AllOps
  <2>3. actor' \in [Call -> User \cup {None}]
    BY <1>1, <2>2 DEF Start, TypeOK, Access
  <2>4. TypeOK'
    BY <1>1, <1>c, <2>1, <2>3 DEF Start, TypeOK, CallLabel, tabState
  <2>5. CallsKnow'
    BY <1>1, <2>1, <2>2 DEF Start, TypeOK, CallsKnow, Removals
  <2>6. TabsKnow'
    BY <1>1, <2>1, TabsStay DEF Start
  <2> QED BY <2>4, <2>5, <2>6
<1>2. CASE StartBootstrap(c)
  <2>1. TypeOK'
    BY <1>2, <1>c DEF StartBootstrap, Goto, TypeOK, CallLabel, tabState
  <2>2. CallsKnow'
    BY <1>2, UsersAssumption DEF StartBootstrap, Goto, TypeOK, CallsKnow, AllOps
  <2>3. TabsKnow'
    BY <1>2, TabsStay DEF StartBootstrap, Goto
  <2> QED BY <2>1, <2>2, <2>3
<1>3. CASE Get(c)
  <2>1. CASE End(c, "failure")
    BY <1>3, <1>a, <2>1, EndKeeps DEF Get, TypeOK
  <2>2. CASE /\ Exists(target[c])
             /\ row' = [row EXCEPT ![c] = users[target[c]]]
             /\ Goto(c, IF MustCount(c, users[target[c]]) THEN "count" ELSE "write")
             /\ UNCHANGED <<outcome, counted>>
    <3>1. users[target[c]] \in Row /\ users[target[c]] # None
      BY <1>b, <2>2 DEF Exists
    <3>2. PICK l \in {"count", "write"} :
             /\ pc' = [pc EXCEPT ![c] = l]
             /\ l = "write" => ~MustCount(c, users[target[c]])
      BY <2>2 DEF Goto
    <3>3. row' \in [Tab \cup Call -> Row \cup {None}] /\ row'[c] = users[target[c]]
      BY <2>2, <3>1 DEF TypeOK
    <3>4. TypeOK'
      BY <1>3, <1>c, <2>2, <3>2, <3>3 DEF Get, TypeOK, CallLabel, tabState
    <3>5. CallsKnow'
      BY <1>3, <2>2, <3>1, <3>2, <3>3 DEF Get, TypeOK, CallsKnow, MustCount
    <3>6. TabsKnow'
      BY <1>3, <2>2, <3>2, TabsStay DEF Get
    <3> QED BY <3>4, <3>5, <3>6
  <2> QED BY <1>3, <2>1, <2>2 DEF Get
<1>4. CASE Count(c)
  <2>1. CASE End(c, "failure")
    BY <1>4, <1>a, <2>1, EndKeeps DEF Count, TypeOK
  <2>2. CASE /\ ~IsLastAdmin(Cardinality(Admins))
             /\ counted' = [counted EXCEPT ![c] = Cardinality(Admins)]
             /\ Goto(c, "write") /\ UNCHANGED <<outcome, row>>
    <3>1. Cardinality(Admins) \in Nat /\ Cardinality(Admins) >= 2
      BY <2>2, WhoIsAdmin DEF IsLastAdmin
    <3>2. counted' \in [Call -> Nat] /\ counted'[c] >= 2
      BY <2>2, <3>1 DEF TypeOK
    <3>3. TypeOK'
      BY <1>4, <1>c, <2>2, <3>2 DEF Count, Goto, TypeOK, CallLabel, tabState
    <3>4. CallsKnow'
      BY <1>4, <2>2, <3>2 DEF Count, Goto, TypeOK, CallsKnow
    <3>5. TabsKnow'
      BY <1>4, <2>2, TabsStay DEF Count, Goto
    <3> QED BY <3>3, <3>4, <3>5
  <2> QED BY <1>4, <2>1, <2>2 DEF Count
<1>5. CASE CountUsers(c)
  <2>1. CASE End(c, "success")
    BY <1>5, <1>a, <2>1, EndKeeps DEF CountUsers, TypeOK
  <2>2. CASE Goto(c, "write") /\ UNCHANGED <<outcome, row, counted>>
    <3>1. TypeOK'
      BY <1>5, <1>c, <2>2 DEF CountUsers, Goto, TypeOK, CallLabel, tabState
    <3>2. CallsKnow'
      BY <1>5, <2>2 DEF CountUsers, Goto, TypeOK, CallsKnow, Removals
    <3>3. TabsKnow'
      BY <1>5, <2>2, TabsStay DEF CountUsers, Goto
    <3> QED BY <3>1, <3>2, <3>3
  <2> QED BY <1>5, <2>1, <2>2 DEF CountUsers
<1>6. CASE Create(c)
  <2>1. CASE End(c, "failure") /\ UNCHANGED users
    BY <1>6, <1>a, <2>1, EndKeeps DEF Create, TypeOK
  <2>2. CASE users[target[c]] = None /\ End(c, "success")
    <3>1. PICK r \in Row : users' = [users EXCEPT ![target[c]] = r]
      <4>1. \A role \in {"admin", "user"} :
               [role |-> role, status |-> "active", deleted |-> FALSE, password |-> 0] \in Row
        BY DEF Row
      <4> QED BY <1>6, <2>2, <4>1, UsersAssumption DEF Create
    <3>2. users' \in [User -> Row \cup {None}] /\ \A u \in User : users[u] # None => users'[u] # None
      BY <1>b, <3>1, UsersAssumption DEF TypeOK
    <3>3. TypeOK'
      BY <1>6, <2>2, <3>2, EndTyped DEF Create, TypeOK, tabState
    <3>4. CallsKnow'
      BY <1>6, <2>2, <3>2, EndTyped, SMTT(60) DEF Create, TypeOK, CallsKnow
    <3>5. TabsKnow'
      BY <1>6, <2>2, TabsStay DEF Create, End, Goto
    <3> QED BY <3>3, <3>4, <3>5
  <2> QED BY <1>6, <2>1, <2>2 DEF Create
<1>7. CASE Write(c)
  <2>1. CASE End(c, "failure") /\ UNCHANGED users
    BY <1>7, <1>a, <2>1, EndKeeps DEF Write, TypeOK
  <2>2. CASE users' = [users EXCEPT ![target[c]] = Changed(op[c], @)]
    <3>1. users[target[c]] \in Row /\ op[c] \in AllOps \ {"create", "bootstrap"}
      BY <1>7, <1>b DEF Write, CallsKnow
    <3>2. users' \in [User -> Row \cup {None}] /\ \A u \in User : users[u] # None => users'[u] # None
      BY <2>2, <3>1, ChangedTyped, UsersAssumption DEF TypeOK
    <3>3. CASE End(c, "success")
      <4>1. TypeOK'
        BY <1>7, <3>2, <3>3, EndTyped DEF Write, TypeOK, tabState
      <4>2. CallsKnow'
        BY <1>7, <3>2, <3>3, EndTyped DEF Write, TypeOK, CallsKnow
      <4>3. TabsKnow'
        BY <1>7, <3>3, TabsStay DEF Write, End, Goto
      <4> QED BY <4>1, <4>2, <4>3
    <3>4. CASE op[c] = "setPassword" /\ Goto(c, "revoke") /\ UNCHANGED <<outcome, row, counted>>
      <4>1. TypeOK'
        BY <1>7, <1>c, <3>2, <3>4 DEF Write, Goto, TypeOK, CallLabel, tabState
      <4>2. CallsKnow'
        BY <1>7, <3>2, <3>4 DEF Write, Goto, TypeOK, CallsKnow
      <4>3. TabsKnow'
        BY <1>7, <3>4, TabsStay DEF Write, Goto
      <4> QED BY <4>1, <4>2, <4>3
    <3> QED BY <1>7, <2>2, <3>1, <3>3, <3>4, <2>1 DEF Write
  <2> QED BY <1>7, <2>1, <2>2 DEF Write
<1>8. CASE RevokeSessions(c)
  <2>1. Revoked(target[c]) \in [Session -> SessionRow \cup {None}]
    BY DEF Revoked, TypeOK
  <2> QED BY <1>8, <1>a, <2>1, EndKeeps DEF RevokeSessions
<1>9. CASE FailCall(c)
  <2>1. failures' \in 0 .. MaxFailures
    BY <1>9, <1>a DEF FailCall
  <2> QED BY <1>9, <2>1, EndKeeps DEF FailCall, TypeOK
<1>10. CASE Record(c)
  <2>1. entry' \in [Call -> {None, "success", "failure", "unwritten"}] /\ failures' \in 0 .. MaxFailures
    BY <1>10, <1>a DEF Record, TypeOK
  <2>2. TypeOK'
    BY <1>10, <1>c, <2>1 DEF Record, Goto, TypeOK, CallLabel, tabState
  <2>3. CallsKnow'
    BY <1>10 DEF Record, Goto, TypeOK, CallsKnow
  <2>4. TabsKnow'
    BY <1>10, TabsStay DEF Record, Goto
  <2> QED BY <2>2, <2>3, <2>4
<1> QED BY <1>1, <1>2, <1>3, <1>4, <1>5, <1>6, <1>7, <1>8, <1>9, <1>10 DEF CallStep

\* The name of a browser's store, as a tab sees it.
LEMMA StoreTyped ==
  ASSUME TypeInv, NEW t \in Tab
  PROVE  /\ BrowserOf[t] \in Browser
         /\ Store(t) \in [access : Access \cup {None}, refresh : Session \cup {None}]
BY CallsAssumption DEF TypeInv, TypeOK, Store

\* A tab that goes on to a label: the calls, and the other tabs, stay.
LEMMA TabGoes ==
  ASSUME TypeInv, NEW t \in Tab, NEW l \in TabLabel, pc' = [pc EXCEPT ![t] = l],
         row' = row \/ \E r \in Row \cup {None} : row' = [row EXCEPT ![t] = r],
         UNCHANGED unchangedByTabs
  PROVE  /\ pc' \in [Tab \cup Call -> TabLabel \cup CallLabel]
         /\ \A u \in Tab : pc'[u] \in TabLabel
         /\ \A c \in Call : pc'[c] \in CallLabel
         /\ row' \in [Tab \cup Call -> Row \cup {None}]
         /\ CallsKnow'
         /\ pc'[t] = l /\ \A u \in Tab \ {t} : pc'[u] = pc[u] /\ row'[u] = row[u]
<1>1. \A c \in Call : pc'[c] = pc[c] /\ row'[c] = row[c]
  BY CallsAssumption DEF TypeInv, TypeOK
<1>2. CallsKnow'
  BY <1>1 DEF TypeInv, CallsKnow, unchangedByTabs, callState
<1>3. row' \in [Tab \cup Call -> Row \cup {None}]
  BY DEF TypeInv, TypeOK
<1> QED BY <1>1, <1>2, <1>3 DEF TypeInv, TypeOK

\* One step of a tab.
LEMMA TypeTab ==
  ASSUME TypeInv, NEW t \in Tab,
         Answer(t) \/ Load(t) \/ SignIn(t) \/ Work(t) \/ Logout(t)
  PROVE  TypeInv'
<1> USE DEF TypeInv
<1>a. /\ failures \in 0 .. MaxFailures /\ MaxFailures \in Nat
      /\ presented[t] \in Session \cup {None} /\ found[t] \in SessionRow \cup {None}
      /\ row[t] \in Row \cup {None}
  BY CallsAssumption DEF TypeOK
<1>b. BrowserOf[t] \in Browser
      /\ Store(t) \in [access : Access \cup {None}, refresh : Session \cup {None}]
  BY StoreTyped
<1>c. EmptyStore \in [access : Access \cup {None}, refresh : Session \cup {None}]
  BY DEF EmptyStore
<1>1. CASE Load(t)
  <2>1. PICK l \in {"me", "find", "out"} :
           pc' = [pc EXCEPT ![t] = l] /\ (l = "find" => Store(t).refresh # None)
    BY <1>1 DEF Load, Goto
  <2>2. presented' \in [Tab -> Session \cup {None}] /\ shown' \in [Tab -> User \cup {None}]
    BY <1>1, <1>b DEF Load, TypeOK
  <2>3. l \in TabLabel
    BY DEF TabLabel, Loading, Settled
  <2>4. TypeOK'
    BY <1>1, <2>1, <2>2, <2>3, TabGoes DEF Load, TypeOK, unchangedByTabs, callState
  <2>5. TabsKnow'
    BY <1>1, <2>1, <2>3, TabGoes DEF Load, TypeOK, TabsKnow
  <2> QED BY <1>1, <2>1, <2>3, <2>4, <2>5, TabGoes DEF Load
<1>2. CASE Me(t)
  <2>1. PICK l \in {"meAnswer", "profileAnswer"} : pc' = [pc EXCEPT ![t] = l]
    BY <1>2 DEF Me, Goto
  <2>2. PICK a \in Access \cup {None} : answer' = [answer EXCEPT ![t] = a]
    BY <1>2, <1>b DEF Me, Valid
  <2>3. l \in TabLabel
    BY DEF TabLabel, Loading, Settled
  <2>a. answer' \in [Tab -> [access : Access, refresh : Session] \cup Access \cup {None}]
    BY <2>2 DEF TypeOK
  <2>4. TypeOK'
    BY <1>2, <2>1, <2>a, <2>3, TabGoes DEF Me, TypeOK, unchangedByTabs, callState
  <2>5. TabsKnow'
    BY <1>2, <2>1, <2>2, <2>3, TabGoes DEF Me, TypeOK, TabsKnow
  <2> QED BY <1>2, <2>1, <2>3, <2>4, <2>5, TabGoes DEF Me
<1>3. CASE Welcome(t)
  <2>1. answer[t] \in Access
    BY <1>3 DEF Welcome, TabsKnow
  <2>2. shown' \in [Tab -> User \cup {None}]
    BY <1>3, <2>1 DEF Welcome, TypeOK, Access
  <2>3. "in" \in TabLabel
    BY DEF TabLabel, Loading, Settled
  <2>4. TypeOK'
    BY <1>3, <2>2, <2>3, TabGoes DEF Welcome, Goto, Forget, TypeOK, unchangedByTabs, callState
  <2>5. TabsKnow'
    BY <1>3, <2>3, TabGoes DEF Welcome, Goto, Forget, TypeOK, TabsKnow
  <2> QED BY <1>3, <2>3, <2>4, <2>5, TabGoes DEF Welcome, Goto, Forget
<1>4. CASE Unauthorized(t)
  <2>1. PICK l \in {"find", "out"} :
           pc' = [pc EXCEPT ![t] = l] /\ (l = "find" => presented[t] # None)
    BY <1>4 DEF Unauthorized, Goto
  <2>2. l \in TabLabel
    BY DEF TabLabel, Loading, Settled
  <2>3. TypeOK'
    BY <1>4, <1>b, <1>c, <2>1, <2>2, TabGoes
       DEF Unauthorized, Keep, TypeOK, unchangedByTabs, callState
  <2>4. TabsKnow'
    BY <1>4, <2>1, <2>2, TabGoes DEF Unauthorized, TypeOK, TabsKnow
  <2> QED BY <1>4, <2>1, <2>2, <2>3, <2>4, TabGoes DEF Unauthorized
<1>5. CASE FindSession(t)
  <2>1. PICK l \in {"refused", "user"} :
           /\ pc' = [pc EXCEPT ![t] = l]
           /\ l = "user" => sessions[presented[t]] # None
    BY <1>5 DEF FindSession, Goto
  <2>2. sessions[presented[t]] \in SessionRow \cup {None} /\ presented[t] # None
    BY <1>5, <1>a DEF FindSession, TabsKnow, TypeOK
  <2>3. l \in TabLabel
    BY DEF TabLabel, Loading, Settled
  <2>4. TypeOK'
    BY <1>5, <2>1, <2>2, <2>3, TabGoes DEF FindSession, TypeOK, unchangedByTabs, callState
  <2>5. TabsKnow'
    BY <1>5, <2>1, <2>2, <2>3, TabGoes DEF FindSession, TypeOK, TabsKnow
  <2> QED BY <1>5, <2>1, <2>3, <2>4, <2>5, TabGoes DEF FindSession
<1>6. CASE FindUser(t)
  <2>1. found[t].user \in User /\ users[found[t].user] \in Row \cup {None}
    BY <1>6, <1>a DEF FindUser, TabsKnow, SessionRow, TypeOK
  <2>2. PICK l \in {"refused", "exchange"} :
           /\ pc' = [pc EXCEPT ![t] = l]
           /\ l = "exchange" => users[found[t].user] # None
    BY <1>6 DEF FindUser, Goto, CanSignIn
  <2>3. l \in TabLabel
    BY DEF TabLabel, Loading, Settled
  <2>4. \E r \in Row \cup {None} : row' = [row EXCEPT ![t] = r]
    BY <1>6, <2>1 DEF FindUser
  <2>5. row'[t] = users[found[t].user]
    BY <1>6 DEF FindUser, TypeOK
  <2>6. TypeOK'
    BY <1>6, <2>2, <2>3, <2>4, TabGoes DEF FindUser, TypeOK, unchangedByTabs, callState
  <2>7. TabsKnow'
    BY <1>6, <2>2, <2>3, <2>4, <2>5, TabGoes DEF FindUser, TypeOK, TabsKnow
  <2> QED BY <1>6, <2>2, <2>3, <2>4, <2>6, <2>7, TabGoes DEF FindUser
<1>7. CASE Exchange(t)
  <2>1. "issue" \in TabLabel
    BY DEF TabLabel, Loading, Settled
  <2>2. TypeOK'
    BY <1>7, <2>1, TabGoes DEF Exchange, Goto, TypeOK, unchangedByTabs, callState
  <2>3. TabsKnow'
    BY <1>7, <2>1, TabGoes DEF Exchange, Goto, TypeOK, TabsKnow
  <2> QED BY <1>7, <2>1, <2>2, <2>3, TabGoes DEF Exchange, Goto
<1>8. CASE SignIn(t)
  <2>1. CASE Goto(t, "leave") /\ UNCHANGED <<row, found>>
    <3>1. "leave" \in TabLabel
      BY DEF TabLabel, Loading, Settled
    <3>2. TypeOK'
      BY <1>8, <2>1, <3>1, TabGoes DEF SignIn, Goto, TypeOK, unchangedByTabs, callState
    <3>3. TabsKnow'
      BY <1>8, <2>1, <3>1, TabGoes DEF SignIn, Goto, TypeOK, TabsKnow
    <3> QED BY <1>8, <2>1, <3>1, <3>2, <3>3, TabGoes DEF SignIn, Goto
  <2>2. CASE /\ CanSignIn(users[Person[BrowserOf[t]]])
             /\ row' = [row EXCEPT ![t] = users[Person[BrowserOf[t]]]]
             /\ found' = [found EXCEPT ![t] =
                  [user |-> Person[BrowserOf[t]],
                   password |-> users[Person[BrowserOf[t]]].password, late |-> FALSE]]
             /\ Goto(t, "issueNew")
    <3>0. "issueNew" \in TabLabel
      BY DEF TabLabel
    <3>1. Person[BrowserOf[t]] \in User
      BY <1>b, CallsAssumption
    <3>2. users[Person[BrowserOf[t]]] \in Row /\ users[Person[BrowserOf[t]]] # None
      BY <2>2, <3>1 DEF CanSignIn, TypeOK
    <3>3. users[Person[BrowserOf[t]]].password \in Nat
      BY <3>2 DEF Row
    <3>4. [user |-> Person[BrowserOf[t]],
           password |-> users[Person[BrowserOf[t]]].password, late |-> FALSE] \in SessionRow
      BY <3>1, <3>3 DEF SessionRow
    <3>5. PICK s \in SessionRow : s # None /\ found' = [found EXCEPT ![t] = s]
      BY <2>2, <3>4, UsersAssumption
    <3>6. row'[t] # None /\ row'[t] \in Row
      BY <2>2, <3>2 DEF TypeOK
    <3>a. found' \in [Tab -> SessionRow \cup {None}]
      BY <3>5 DEF TypeOK
    <3>7. TypeOK'
      BY <1>8, <2>2, <3>0, <3>2, <3>a, TabGoes DEF SignIn, Goto, TypeOK, unchangedByTabs, callState
    <3>b. found'[t] # None
      BY <3>5 DEF TypeOK
    <3>c. \A u \in Tab \ {t} : pc'[u] = pc[u] /\ row'[u] = row[u] /\ found'[u] = found[u]
      BY <2>2 DEF Goto, TypeOK
    <3>d. UNCHANGED <<presented, answer>>
      BY <1>8 DEF SignIn
    <3>e. pc'[t] = "issueNew"
      BY <2>2 DEF Goto, TypeOK
    <3>8. TabsKnow'
      BY <3>6, <3>b, <3>c, <3>d, <3>e DEF TabsKnow
    <3> QED BY <1>8, <2>2, <3>0, <3>2, <3>7, <3>8, TabGoes DEF SignIn, Goto
  <2> QED BY <1>8, <2>1, <2>2 DEF SignIn
<1>9. CASE IssueTokens(t)
  <2>1. PICK s \in Session :
           /\ Unused(s)
           /\ sessions' = [sessions EXCEPT ![s] =
                [found[t] EXCEPT !.late = users[found[t].user].password # found[t].password]]
           /\ answer' = [answer EXCEPT ![t] =
                [access |-> [user |-> found[t].user, role |-> row[t].role, fresh |-> TRUE],
                 refresh |-> s]]
    BY <1>9 DEF IssueTokens
  <2>2. found[t] \in SessionRow /\ row[t] \in Row
    BY <1>9, <1>a DEF IssueTokens, TabsKnow
  <2>3. [found[t] EXCEPT !.late = users[found[t].user].password # found[t].password] \in SessionRow
    BY <2>2 DEF SessionRow
  <2>4. [access |-> [user |-> found[t].user, role |-> row[t].role, fresh |-> TRUE],
         refresh |-> s] \in [access : Access, refresh : Session]
    BY <2>2 DEF SessionRow, Row, Access
  <2>5. PICK l \in {"granted", "grantedNew"} : pc' = [pc EXCEPT ![t] = l]
    BY <1>9 DEF IssueTokens, Goto
  <2>6. l \in TabLabel
    BY DEF TabLabel, Loading, Settled
  <2>7. PICK g \in [access : Access, refresh : Session] : answer' = [answer EXCEPT ![t] = g]
    BY <2>1, <2>4
  <2>8. sessions' \in [Session -> SessionRow \cup {None}]
    BY <2>1, <2>3 DEF TypeOK
  <2>a. answer' \in [Tab -> [access : Access, refresh : Session] \cup Access \cup {None}]
    BY <2>7 DEF TypeOK
  <2>9. TypeOK'
    BY <1>9, <2>5, <2>6, <2>a, <2>8, TabGoes DEF IssueTokens, TypeOK, unchangedByTabs, callState
  <2>b. answer'[t] = g
    BY <2>7 DEF TypeOK
  <2>c. \A u \in Tab \ {t} : pc'[u] = pc[u] /\ row'[u] = row[u] /\ answer'[u] = answer[u]
    BY <1>9, <2>5, <2>7 DEF IssueTokens, TypeOK
  <2>d. UNCHANGED <<presented, found, row>>
    BY <1>9 DEF IssueTokens
  <2>e. pc'[t] = l
    BY <2>5 DEF TypeOK
  <2>10. TabsKnow'
    BY <2>b, <2>c, <2>d, <2>e DEF TabsKnow
  <2> QED BY <1>9, <2>5, <2>6, <2>9, <2>10, TabGoes DEF IssueTokens
<1>10. CASE Granted(t)
  <2>1. answer[t] \in [access : Access, refresh : Session]
    BY <1>10 DEF Granted, TabsKnow
  <2>2. answer[t] \in [access : Access \cup {None}, refresh : Session \cup {None}]
    BY <2>1
  <2>3. PICK l \in {"profile", "profileNew"} : pc' = [pc EXCEPT ![t] = l]
    BY <1>10 DEF Granted, Goto
  <2>a. l \in TabLabel
    BY DEF TabLabel, Loading, Settled
  <2>4. store' \in [Browser -> [access : Access \cup {None}, refresh : Session \cup {None}]]
    BY <1>10, <1>b, <2>2 DEF Granted, Keep, TypeOK
  <2>5. TypeOK'
    BY <1>10, <2>3, <2>a, <2>4, TabGoes DEF Granted, Forget, TypeOK, unchangedByTabs, callState
  <2>6. TabsKnow'
    BY <1>10, <2>3, <2>a, TabGoes DEF Granted, Forget, TypeOK, TabsKnow
  <2> QED BY <1>10, <2>3, <2>a, <2>5, <2>6, TabGoes DEF Granted, Forget
<1>11. CASE Refused(t)
  <2>1. "out" \in TabLabel
    BY DEF TabLabel, Loading, Settled
  <2>2. store' \in [Browser -> [access : Access \cup {None}, refresh : Session \cup {None}]]
    BY <1>11, <1>b, <1>c DEF Refused, Keep, TypeOK
  <2>3. TypeOK'
    BY <1>11, <2>1, <2>2, TabGoes DEF Refused, Goto, Forget, TypeOK, unchangedByTabs, callState
  <2>4. TabsKnow'
    BY <1>11, <2>1, TabGoes DEF Refused, Goto, Forget, TypeOK, TabsKnow
  <2> QED BY <1>11, <2>1, <2>3, <2>4, TabGoes DEF Refused, Goto, Forget
<1>12. CASE Lose(t)
  <2>1. PICK l \in {"out", "lost"} : pc' = [pc EXCEPT ![t] = l]
    BY <1>12 DEF Lose, Goto
  <2>2. l \in TabLabel
    BY DEF TabLabel, Loading, Settled
  <2>a. answer' \in [Tab -> [access : Access, refresh : Session] \cup Access \cup {None}]
        /\ failures' \in 0 .. MaxFailures
    BY <1>12, <1>a DEF Lose, TypeOK
  <2>3. TypeOK'
    BY <1>12, <2>a, <2>1, <2>2, TabGoes DEF Lose, Forget, TypeOK, unchangedByTabs, callState
  <2>4. TabsKnow'
    BY <1>12, <2>1, <2>2, TabGoes DEF Lose, Forget, TypeOK, TabsKnow
  <2> QED BY <1>12, <2>1, <2>2, <2>3, <2>4, TabGoes DEF Lose, Forget
<1>13. CASE Work(t)
  <2>1. "leave" \in TabLabel
    BY DEF TabLabel, Loading, Settled
  <2>2. TypeOK'
    BY <1>13, <2>1, TabGoes DEF Work, Goto, TypeOK, unchangedByTabs, callState
  <2>3. TabsKnow'
    BY <1>13, <2>1, TabGoes DEF Work, Goto, TypeOK, TabsKnow
  <2> QED BY <1>13, <2>1, <2>2, <2>3, TabGoes DEF Work, Goto
<1>14. CASE Logout(t)
  <2>1. PICK l \in {"leave", "logout"} :
           pc' = [pc EXCEPT ![t] = l] /\ (l = "logout" => Store(t).refresh # None)
    BY <1>14 DEF Logout, Goto
  <2>2. l \in TabLabel
    BY DEF TabLabel, Loading, Settled
  <2>3. presented' \in [Tab -> Session \cup {None}]
    BY <1>14, <1>b DEF Logout, TypeOK
  <2>4. TypeOK'
    BY <1>14, <2>1, <2>2, <2>3, TabGoes DEF Logout, TypeOK, unchangedByTabs, callState
  <2>5. TabsKnow'
    BY <1>14, <2>1, <2>2, TabGoes DEF Logout, TypeOK, TabsKnow
  <2> QED BY <1>14, <2>1, <2>2, <2>4, <2>5, TabGoes DEF Logout
<1>15. CASE EndSession(t)
  <2>1. "leave" \in TabLabel
    BY DEF TabLabel, Loading, Settled
  <2>2. TypeOK'
    BY <1>15, <2>1, TabGoes DEF EndSession, Goto, TypeOK, unchangedByTabs, callState
  <2>3. TabsKnow'
    BY <1>15, <2>1, TabGoes DEF EndSession, Goto, TypeOK, TabsKnow
  <2> QED BY <1>15, <2>1, <2>2, <2>3, TabGoes DEF EndSession, Goto
<1>16. CASE LoseMe(t)
  <2>1. PICK l \in {"find", "lost", "out"} :
           pc' = [pc EXCEPT ![t] = l] /\ (l = "find" => presented[t] # None)
    BY <1>16 DEF LoseMe, Goto
  <2>2. l \in TabLabel
    BY DEF TabLabel, Loading, Settled
  <2>3. failures' \in 0 .. MaxFailures
    BY <1>16, <1>a DEF LoseMe
  <2>4. TypeOK'
    BY <1>16, <2>1, <2>2, <2>3, TabGoes DEF LoseMe, TypeOK, unchangedByTabs, callState
  <2>5. TabsKnow'
    BY <1>16, <2>1, <2>2, TabGoes DEF LoseMe, TypeOK, TabsKnow
  <2> QED BY <1>16, <2>1, <2>2, <2>4, <2>5, TabGoes DEF LoseMe
<1> QED
  BY <1>1, <1>2, <1>3, <1>4, <1>5, <1>6, <1>7, <1>8, <1>9, <1>10, <1>11, <1>12, <1>13,
     <1>14, <1>15, <1>16 DEF Answer

\* Time, or a step that changes nothing.
LEMMA TypeRest ==
  ASSUME TypeInv,
         UNCHANGED vars \/ (\E b \in Browser : Lapse(b)) \/ \E s \in Session : Expire(s)
  PROVE  TypeInv'
<1> USE DEF TypeInv
<1>1. CASE UNCHANGED vars
  BY <1>1 DEF vars, tabState, callState, TypeOK, CallsKnow, TabsKnow
<1>2. ASSUME NEW b \in Browser, Lapse(b)
      PROVE  TypeInv'
  <2>1. store[b].access \in Access
    BY <1>2 DEF Lapse, TypeOK
  <2>2. [store[b].access EXCEPT !.fresh = FALSE] \in Access
    BY <2>1 DEF Access
  <2>3. PICK a \in Access : store' = [store EXCEPT ![b].access = a]
    BY <1>2, <2>2 DEF Lapse
  <2>4. store' \in [Browser -> [access : Access \cup {None}, refresh : Session \cup {None}]]
    BY <2>3 DEF TypeOK
  <2> QED BY <1>2, <2>4 DEF Lapse, tabState, callState, TypeOK, CallsKnow, TabsKnow
<1>3. ASSUME NEW s \in Session, Expire(s)
      PROVE  TypeInv'
  BY <1>3 DEF Expire, tabState, callState, TypeOK, CallsKnow, TabsKnow
<1> QED BY <1>1, <1>2, <1>3

\* No handler, no tab and no clock takes a variable out of its type.
LEMMA TypeStep == TypeInv /\ [Next]_vars => TypeInv'
BY TypeCall, TypeTab, TypeRest DEF Next

\* The typed invariant, for good.
LEMMA TypeAlways == Spec => []TypeInv
<1>1. Init => TypeInv
  BY TypeInit
<1>2. TypeInv /\ [Next]_vars => TypeInv'
  BY TypeStep
<1> QED BY <1>1, <1>2, PTL DEF Spec

\* The variables have their types: whatever is in the browser's store under a
\* token's name is such a token, and a statement reads a row that is there.
THEOREM Types == Spec => []TypeOK
<1>1. TypeInv => TypeOK
  BY DEF TypeInv
<1> QED BY <1>1, TypeAlways, PTL

-----------------------------------------------------------------------------
(* The last administrator. *)

\* One call removes one administrator: the one it is about.
LEMMA WriteRemoves ==
  ASSUME TypeInv, NEW c \in Call, Write(c), Admins # {}, Admins' = {}
  PROVE  /\ op[c] \in Removals /\ Admins = {target[c]}
         /\ Cardinality(Admins) = 1 /\ users[target[c]].role = "admin"
<1> DEFINE u == target[c]
<1>1. /\ u \in User /\ users[u] \in Row /\ op[c] \in AllOps \ {"create", "bootstrap"}
      /\ users' = [users EXCEPT ![u] = Changed(op[c], users[u])] \/ UNCHANGED users
  BY DEF Write, TypeInv, TypeOK, CallsKnow
<1>2. UNCHANGED users => Admins' = Admins
  BY DEF Admins, CanSignIn
<1>3. users'[u] = Changed(op[c], users[u]) /\ \A v \in User \ {u} : users'[v] = users[v]
  BY <1>1, <1>2 DEF TypeInv, TypeOK
<1>4. \A v \in User \ {u} : v \in Admins => v \in Admins'
  BY <1>3 DEF Admins, CanSignIn
<1>5. Admins = {u}
  BY <1>4 DEF Admins
<1>6. CanSignIn(users[u]) /\ users[u].role = "admin"
  BY <1>5 DEF Admins
<1>7. op[c] \in Removals
  <2>1. SUFFICES ASSUME op[c] \notin Removals PROVE FALSE
    OBVIOUS
  <2>2. CanSignIn(Changed(op[c], users[u])) /\ Changed(op[c], users[u]).role = "admin"
    BY <1>1, <1>6, <2>1, ChangedTyped
  <2>3. CanSignIn(users'[u]) /\ users'[u].role = "admin"
    BY <1>3, <2>2 DEF CanSignIn
  <2> QED BY <1>1, <2>3 DEF Admins, CanSignIn
<1> QED BY <1>5, <1>6, <1>7, FS_Singleton

\* A call alone never takes the last administrator (UsersService.update and
\* remove): whoever takes it writes with a role or a count that is out of date.
THEOREM LastAdmin == Spec => AdminsGoByStaleReads
<1> DEFINE Stale == \E c \in Call :
      /\ pc[c] = "write" /\ op[c] \in Removals
      /\ \/ row[c].role # users[target[c]].role
         \/ counted[c] # Cardinality(Admins)
<1>1. TypeInv /\ [Next]_vars => [Admins # {} /\ Admins' = {} => Stale]_vars
  <2> SUFFICES ASSUME TypeInv, Next, Admins # {}, Admins' = {} PROVE Stale
    OBVIOUS
  <2>1. users' # users
    BY DEF Admins, CanSignIn
  <2>2. PICK c \in Call : Create(c) \/ Write(c)
    BY <2>1 DEF Next, CallStep, Get, Count, CountUsers, RevokeSessions, FailCall, Record,
       StartBootstrap, Start, Answer, Load, Me, LoseMe, Welcome, Unauthorized, FindSession, FindUser,
       Exchange, SignIn, IssueTokens, Granted, Refused, Lose, Work, Logout, EndSession,
       Lapse, Expire, unchangedByTabs
  <2>3. CASE Create(c)
    <3>1. \A u \in User : CanSignIn(users[u]) => users'[u] = users[u]
      BY <2>3 DEF Create, CanSignIn, TypeInv, TypeOK
    <3> QED BY <3>1 DEF Admins, CanSignIn
  <2>4. CASE Write(c)
    <3>1. /\ op[c] \in Removals /\ pc[c] = "write"
          /\ Cardinality(Admins) = 1 /\ users[target[c]].role = "admin"
      BY <2>4, WriteRemoves DEF Write
    <3>2. row[c].role = "admin" => counted[c] # Cardinality(Admins)
      BY <3>1 DEF TypeInv, TypeOK, CallsKnow
    <3> QED BY <3>1, <3>2
  <2> QED BY <2>2, <2>3, <2>4
<1> QED BY <1>1, TypeAlways, PTL DEF Spec, AdminsGoByStaleReads

-----------------------------------------------------------------------------
(* Sessions and passwords. *)

\* A session, and what a refresh or a sign-in has found, is of a user who has a
\* row: rows are never removed.
UsersStay ==
    /\ \A s \in Session : sessions[s] # None => users[sessions[s].user] # None
    /\ \A t \in Tab : found[t] # None => users[found[t].user] # None

PasswordInv == TypeInv /\ UsersStay /\ SessionsFollowThePassword

\* Before the first request no password was changed.
LEMMA PasswordInit == Init => PasswordInv
BY TypeInit DEF Init, PasswordInv, UsersStay, SessionsFollowThePassword

\* A step that revokes at most, and changes no user, leaves both as they were;
\* but a change that was to revoke has to have gone wrong half-way.
LEMMA PasswordKept ==
  ASSUME PasswordInv, TypeInv', UNCHANGED users,
         \A s \in Session : sessions'[s] \in {None, sessions[s]},
         \A t \in Tab : found'[t] \in {None, found[t]},
         \A u : Changing(u) =>
            Changing(u)' \/ \A s \in Session : sessions'[s] # None => sessions'[s].user # u
  PROVE  PasswordInv'
<1>1. UsersStay'
  BY DEF PasswordInv, UsersStay
<1>2. SessionsFollowThePassword'
  <2> SUFFICES ASSUME NEW s \in Session, sessions'[s] # None,
                      ~sessions'[s].late, NEW u, u = sessions'[s].user,
                      sessions'[s].password # users'[u].password
               PROVE  Changing(u)'
    BY DEF SessionsFollowThePassword, Changing
  <2>1. sessions'[s] = sessions[s]
    OBVIOUS
  <2>2. Changing(u)
    BY <2>1 DEF PasswordInv, SessionsFollowThePassword
  <2> QED BY <2>1, <2>2
<1> QED BY <1>1, <1>2 DEF PasswordInv

\* A step of a call whose place is not "revoke" keeps every change that goes on.
LEMMA ChangingStays ==
  ASSUME TypeInv, NEW c \in Call, pc[c] # "revoke",
         UNCHANGED target, \A d \in Call \ {c} : pc'[d] = pc[d] /\ outcome'[d] = outcome[d],
         outcome[c] = "halfway" => outcome'[c] = "halfway", NEW u
  PROVE  Changing(u) => Changing(u)'
BY DEF Changing

\* setPassword, logout and refresh keep what sessions have to do with passwords.
LEMMA PasswordStep == PasswordInv /\ [Next]_vars => PasswordInv'
<1> SUFFICES ASSUME PasswordInv, [Next]_vars PROVE PasswordInv'
  OBVIOUS
<1> USE DEF PasswordInv
<1>a. TypeInv'
  BY TypeStep
<1>1. CASE UNCHANGED vars
  <2>1. UNCHANGED <<users, sessions, found, target, pc, outcome>>
    BY <1>1 DEF vars, tabState, callState
  <2>2. \A u : Changing(u)' = Changing(u)
    BY <2>1 DEF Changing
  <2> QED BY <1>a, <2>1, <2>2, PasswordKept
<1>2. ASSUME NEW c \in Call, CallStep(c) \/ StartBootstrap(c) \/ \E t \in Tab : Start(c, t)
      PROVE  PasswordInv'
  <2>a. UNCHANGED target /\ UNCHANGED found
    BY <1>2 DEF CallStep, Get, Count, CountUsers, Create, Write, RevokeSessions, FailCall,
       Record, StartBootstrap, Start, tabState
  <2>b. /\ \A d \in Call \ {c} : pc'[d] = pc[d] /\ outcome'[d] = outcome[d]
        /\ outcome[c] = "halfway" => outcome'[c] = "halfway"
    <3>1. /\ \E l : pc' = [pc EXCEPT ![c] = l]
          /\ UNCHANGED outcome \/ \E result : outcome' = [outcome EXCEPT ![c] = result]
      BY <1>2 DEF CallStep, Get, Count, CountUsers, Create, Write, RevokeSessions, FailCall,
         Record, StartBootstrap, Start, End, Goto
    <3>2. pc[c] \in {"get", "count", "write", "revoke"} => outcome[c] # "halfway"
      BY UsersAssumption DEF TypeInv, CallsKnow
    <3>3. pc[c] \notin {"get", "count", "write", "revoke"} => UNCHANGED outcome
      BY <1>2 DEF CallStep, Get, Count, CountUsers, Create, Write, RevokeSessions, FailCall,
         Record, StartBootstrap, Start
    <3> QED BY <3>1, <3>2, <3>3 DEF TypeInv, TypeOK
  <2>1. CASE Create(c)
    <3>1. /\ \A u \in User : users[u] # None => users'[u] = users[u]
          /\ UNCHANGED sessions
      BY <2>1 DEF Create, TypeInv, TypeOK
    <3>2. UsersStay'
      BY <2>a, <3>1 DEF UsersStay, TypeInv, TypeOK, SessionRow
    <3>3. \A u : Changing(u) => Changing(u)'
      BY <2>1, <2>a, <2>b, ChangingStays DEF Create
    <3>4. SessionsFollowThePassword'
      BY <3>1, <3>3 DEF SessionsFollowThePassword, UsersStay, TypeInv, TypeOK, SessionRow
    <3> QED BY <1>a, <3>2, <3>4
  <2>2. CASE Write(c)
    <3>1. /\ op[c] \in AllOps \ {"create", "bootstrap"} /\ users[target[c]] \in Row
          /\ UNCHANGED sessions
      BY <2>2 DEF Write, TypeInv, TypeOK, CallsKnow
    <3>2. Changed(op[c], users[target[c]]) \in Row
      BY <3>1, ChangedTyped
    <3>3. \A u \in User : users[u] # None => users'[u] # None
      BY <2>2, <3>2, UsersAssumption DEF Write, TypeInv, TypeOK
    <3>4. UsersStay'
      BY <2>a, <3>1, <3>3 DEF UsersStay, TypeInv, TypeOK, SessionRow
    <3>5. \A u : Changing(u) => Changing(u)'
      BY <2>2, <2>a, <2>b, ChangingStays DEF Write
    <3>6. \A u \in User : users'[u].password = users[u].password \/ Changing(u)'
      <4>1. CASE op[c] = "setPassword" /\ Applies(c)
        <5>1. pc'[c] = "revoke"
          BY <2>2, <4>1 DEF Write, Goto, TypeInv, TypeOK
        <5>2. \A u : u = target[c] => Changing(u)'
          BY <2>a, <5>1 DEF Changing
        <5>3. \E r : users' = [users EXCEPT ![target[c]] = r]
          BY <2>2, <4>1 DEF Write
        <5>4. \A u \in User \ {target[c]} : users'[u] = users[u]
          BY <5>3 DEF TypeInv, TypeOK
        <5> QED BY <5>2, <5>4
      <4>2. CASE ~(op[c] = "setPassword" /\ Applies(c))
        <5>1. UNCHANGED users \/
                 (op[c] # "setPassword" /\
                  users' = [users EXCEPT ![target[c]] = Changed(op[c], users[target[c]])])
          BY <2>2, <4>2 DEF Write
        <5>2. op[c] # "setPassword" =>
                 Changed(op[c], users[target[c]]).password = users[target[c]].password
          BY <3>1, ChangedTyped
        <5> QED BY <5>1, <5>2 DEF TypeInv, TypeOK
      <4> QED BY <4>1, <4>2
    <3>7. SessionsFollowThePassword'
      BY <3>1, <3>5, <3>6 DEF SessionsFollowThePassword, TypeInv, TypeOK, SessionRow
    <3> QED BY <1>a, <3>4, <3>7
  <2>3. CASE RevokeSessions(c)
    <3>1. /\ \A s \in Session : sessions'[s] \in {None, sessions[s]}
          /\ \A s \in Session : sessions'[s] # None => sessions'[s].user # target[c]
      BY <2>3 DEF RevokeSessions, Revoked
    <3>2. \A u : u # target[c] /\ Changing(u) => Changing(u)'
      BY <2>a, <2>b DEF Changing
    <3>3. \A u : Changing(u) =>
             Changing(u)' \/ \A s \in Session : sessions'[s] # None => sessions'[s].user # u
      BY <3>1, <3>2
    <3>4. UNCHANGED users
      BY <2>3 DEF RevokeSessions
    <3> QED BY <1>a, <2>a, <3>1, <3>3, <3>4, PasswordKept
  <2>4. CASE FailCall(c)
    <3>1. UNCHANGED <<users, sessions>>
      BY <2>4 DEF FailCall
    <3>2. pc[c] = "revoke" => outcome'[c] = "halfway"
      BY <2>4 DEF FailCall, End, TypeInv, TypeOK
    <3>3. \A u : Changing(u) => Changing(u)'
      BY <2>a, <2>b, <3>2 DEF Changing
    <3> QED BY <1>a, <2>a, <3>1, <3>3, PasswordKept
  <2>5. CASE Get(c) \/ Count(c) \/ CountUsers(c) \/ Record(c) \/ StartBootstrap(c)
             \/ \E t \in Tab : Start(c, t)
    <3>1. UNCHANGED <<users, sessions>> /\ pc[c] # "revoke"
      BY <2>5 DEF Get, Count, CountUsers, Record, StartBootstrap, Start
    <3>2. \A u : Changing(u) => Changing(u)'
      BY <2>a, <2>b, <3>1, ChangingStays
    <3> QED BY <1>a, <2>a, <3>1, <3>2, PasswordKept
  <2> QED BY <1>2, <2>1, <2>2, <2>3, <2>4, <2>5 DEF CallStep
<1>3. ASSUME NEW t \in Tab, Answer(t) \/ Load(t) \/ SignIn(t) \/ Work(t) \/ Logout(t)
      PROVE  PasswordInv'
  <2>a. UNCHANGED <<users, target, outcome>>
        /\ \E l : pc' = [pc EXCEPT ![t] = l]
    BY <1>3 DEF Answer, Load, Me, LoseMe, Welcome, Unauthorized, FindSession, FindUser, Exchange,
       SignIn, IssueTokens, Granted, Refused, Lose, Work, Logout, EndSession,
       unchangedByTabs, callState, Goto
  <2>b. \A c \in Call : pc'[c] = pc[c]
    BY <2>a, CallsAssumption DEF TypeInv, TypeOK
  <2>c. \A u : Changing(u)' = Changing(u)
    BY <2>a, <2>b DEF Changing
  <2>1. CASE IssueTokens(t)
    <3>1. PICK s \in Session :
             sessions' = [sessions EXCEPT ![s] =
               [found[t] EXCEPT !.late = users[found[t].user].password # found[t].password]]
      BY <2>1 DEF IssueTokens
    <3>2. found[t] \in SessionRow /\ found[t] # None /\ UNCHANGED found
      BY <2>1 DEF IssueTokens, TypeInv, TypeOK, TabsKnow
    <3>3. /\ sessions'[s].user = found[t].user /\ sessions'[s].password = found[t].password
          /\ sessions'[s].late <=> users[found[t].user].password # found[t].password
          /\ \A x \in Session \ {s} : sessions'[x] = sessions[x]
      BY <3>1, <3>2 DEF TypeInv, TypeOK, SessionRow
    <3>4. UsersStay'
      BY <2>a, <3>2, <3>3 DEF UsersStay
    <3>5. SessionsFollowThePassword'
      BY <2>a, <2>c, <3>3 DEF SessionsFollowThePassword
    <3> QED BY <1>a, <3>4, <3>5
  <2>2. CASE SignIn(t)
    <3>1. Person[BrowserOf[t]] \in User
      BY CallsAssumption
    <3>2. UNCHANGED sessions
      BY <2>2 DEF SignIn
    <3>3. UsersStay'
      BY <2>2, <2>a, <3>1, <3>2 DEF SignIn, UsersStay, CanSignIn, TypeInv, TypeOK
    <3>4. SessionsFollowThePassword'
      BY <2>a, <2>c, <3>2 DEF SessionsFollowThePassword
    <3> QED BY <1>a, <3>3, <3>4
  <2>3. CASE FindSession(t)
    <3>1. sessions[presented[t]] # None => users[sessions[presented[t]].user] # None
      BY <2>3 DEF FindSession, UsersStay, TypeInv, TypeOK, TabsKnow
    <3>2. UNCHANGED sessions
      BY <2>3 DEF FindSession
    <3>3. UsersStay'
      BY <2>3, <2>a, <3>1, <3>2 DEF FindSession, UsersStay, TypeInv, TypeOK
    <3>4. SessionsFollowThePassword'
      BY <2>a, <2>c, <3>2 DEF SessionsFollowThePassword
    <3> QED BY <1>a, <3>3, <3>4
  <2>4. CASE Exchange(t) \/ EndSession(t)
    <3>1. /\ \A s \in Session : sessions'[s] \in {None, sessions[s]}
          /\ UNCHANGED found
      BY <2>4 DEF Exchange, EndSession, TypeInv, TypeOK
    <3> QED BY <1>a, <2>a, <2>c, <3>1, PasswordKept
  <2>5. CASE \/ Me(t) \/ LoseMe(t) \/ Welcome(t) \/ Unauthorized(t) \/ FindUser(t) \/ Granted(t)
             \/ Refused(t) \/ Lose(t) \/ Load(t) \/ Work(t) \/ Logout(t)
    <3>1. UNCHANGED sessions /\ \A u \in Tab : found'[u] \in {None, found[u]}
      BY <2>5 DEF Me, LoseMe, Welcome, Unauthorized, FindUser, Granted, Refused, Lose, Load, Work,
         Logout, Forget, TypeInv, TypeOK
    <3> QED BY <1>a, <2>a, <2>c, <3>1, PasswordKept
  <2> QED BY <1>3, <2>1, <2>2, <2>3, <2>4, <2>5 DEF Answer
<1>4. ASSUME NEW b \in Browser, Lapse(b)
      PROVE  PasswordInv'
  <2>1. UNCHANGED <<users, sessions, found, target, pc, outcome>>
    BY <1>4 DEF Lapse, tabState, callState
  <2>2. \A u : Changing(u)' = Changing(u)
    BY <2>1 DEF Changing
  <2> QED BY <1>a, <2>1, <2>2, PasswordKept
<1>5. ASSUME NEW s \in Session, Expire(s)
      PROVE  PasswordInv'
  <2>1. /\ UNCHANGED <<users, found, target, pc, outcome>>
        /\ \A x \in Session : sessions'[x] \in {None, sessions[x]}
    BY <1>5 DEF Expire, tabState, callState, TypeInv, TypeOK
  <2>2. \A u : Changing(u)' = Changing(u)
    BY <2>1 DEF Changing
  <2> QED BY <1>a, <2>1, <2>2, PasswordKept
<1> QED BY <1>1, <1>2, <1>3, <1>4, <1>5 DEF Next

\* "Ends every session the account had" (UsersService.setPassword): a session
\* that outlives its password is being revoked, was left by a change that failed
\* half-way, or was written by a sign-in or a refresh that the change overtook.
THEOREM PasswordEndsSessions == Spec => []SessionsFollowThePassword
<1>1. PasswordInv => SessionsFollowThePassword
  BY DEF PasswordInv
<1> QED BY <1>1, PasswordInit, PasswordStep, PTL DEF Spec

-----------------------------------------------------------------------------
(* Signing out. *)

\* Why a refresh was refused: the session is gone, for good as long as the tab
\* remembers its token, or its user may not sign in.
RefusedForAReason ==
    \A t \in Tab : pc[t] = "refused" =>
        \/ presented[t] # None /\ sessions[presented[t]] = None
        \/ row[t] # None /\ ~CanSignIn(row[t])

SignOutInv == PasswordInv /\ RefusedForAReason

\* Nobody is given the name of a token that a tab still remembers.
LEMMA SessionsStayGone ==
  ASSUME TypeInv, NEW t \in Tab, pc[t] = "refused", presented[t] # None,
         sessions[presented[t]] = None, [Next]_vars
  PROVE  sessions'[presented[t]] = None
<1>1. presented[t] \in Session
  BY DEF TypeInv, TypeOK
<1>2. ASSUME NEW u \in Tab, IssueTokens(u)
      PROVE  sessions'[presented[t]] = None
  BY <1>1, <1>2 DEF IssueTokens, Unused, TypeInv, TypeOK
<1>3. ASSUME \A s \in Session : sessions'[s] \in {None, sessions[s]}
      PROVE  sessions'[presented[t]] = None
  BY <1>1, <1>3
<1>4. CASE UNCHANGED sessions
  BY <1>4
<1>5. \/ UNCHANGED sessions \/ (\E u \in Tab : IssueTokens(u))
      \/ (\E c \in Call : RevokeSessions(c)) \/ (\E u \in Tab : Exchange(u) \/ EndSession(u))
      \/ \E s \in Session : Expire(s)
  BY DEF Next, vars, CallStep, Get, Count, CountUsers, Create, Write, FailCall, Record,
     StartBootstrap, Start, Answer, Load, Me, LoseMe, Welcome, Unauthorized, FindSession, FindUser,
     SignIn, Granted, Refused, Lose, Work, Logout, Lapse
<1>6. (\E c \in Call : RevokeSessions(c)) => \A s \in Session : sessions'[s] \in {None, sessions[s]}
  BY DEF RevokeSessions, Revoked
<1>7. (\E u \in Tab : Exchange(u) \/ EndSession(u)) \/ (\E s \in Session : Expire(s)) =>
         \A s \in Session : sessions'[s] \in {None, sessions[s]}
  BY DEF Exchange, EndSession, Expire, TypeInv, TypeOK
<1> QED BY <1>2, <1>3, <1>4, <1>5, <1>6, <1>7

\* The tabs and the API keep what a signed-out tab knows.
LEMMA SignOutStep == SignOutInv /\ [Next]_vars => SignOutInv'
<1> SUFFICES ASSUME SignOutInv, [Next]_vars PROVE SignOutInv'
  OBVIOUS
<1> USE DEF SignOutInv
<1>1. PasswordInv'
  BY PasswordStep
<1>2. RefusedForAReason'
  <2> SUFFICES ASSUME NEW t \in Tab, pc'[t] = "refused"
               PROVE  \/ presented'[t] # None /\ sessions'[presented'[t]] = None
                      \/ row'[t] # None /\ ~CanSignIn(row'[t])
    BY DEF RefusedForAReason, CanSignIn
  <2>a. TypeInv
    BY DEF PasswordInv
  <2>1. CASE FindSession(t)
    <3>1. presented[t] # None /\ sessions[presented[t]] = None
      BY <2>1, <2>a DEF FindSession, Goto, TypeInv, TypeOK, TabsKnow
    <3> QED BY <2>1, <3>1 DEF FindSession
  <2>2. CASE FindUser(t)
    <3>1. found[t] \in SessionRow /\ found[t] # None
      BY <2>2, <2>a DEF FindUser, TypeInv, TypeOK, TabsKnow
    <3>2. users[found[t].user] # None
      BY <3>1 DEF PasswordInv, UsersStay
    <3>3. row'[t] = users[found[t].user]
      BY <2>2, <2>a DEF FindUser, TypeInv, TypeOK
    <3>4. ~CanSignIn(users[found[t].user])
      BY <2>2, <2>a DEF FindUser, Goto, TypeInv, TypeOK
    <3> QED BY <3>2, <3>3, <3>4 DEF CanSignIn
  <2>3. CASE ~FindSession(t) /\ ~FindUser(t)
    <3>1. pc[t] = "refused" /\ presented'[t] = presented[t] /\ row'[t] = row[t]
      <4>1. CASE UNCHANGED vars
        BY <4>1 DEF vars, tabState
      <4>2. ASSUME NEW c \in Call,
                   CallStep(c) \/ StartBootstrap(c) \/ \E u \in Tab : Start(c, u)
            PROVE  pc[t] = "refused" /\ presented'[t] = presented[t] /\ row'[t] = row[t]
        <5>1. /\ UNCHANGED tabState /\ \E l : pc' = [pc EXCEPT ![c] = l]
              /\ UNCHANGED row \/ \E r : row' = [row EXCEPT ![c] = r]
          BY <4>2 DEF CallStep, Get, Count, CountUsers, Create, Write, RevokeSessions,
             FailCall, Record, StartBootstrap, Start, End, Goto
        <5>2. pc'[t] = pc[t] /\ row'[t] = row[t]
          BY <5>1, <2>a, CallsAssumption DEF TypeInv, TypeOK
        <5> QED BY <5>1, <5>2 DEF tabState
      <4>3. ASSUME NEW u \in Tab, Answer(u) \/ Load(u) \/ SignIn(u) \/ Work(u) \/ Logout(u)
            PROVE  pc[t] = "refused" /\ presented'[t] = presented[t] /\ row'[t] = row[t]
        <5>1. CASE u = t
          BY <4>3, <5>1, <2>3, <2>a
             DEF Answer, Load, Me, LoseMe, Welcome, Unauthorized, Exchange, SignIn, IssueTokens,
                 Granted, Refused, Lose, Work, Logout, EndSession, Goto, TypeInv, TypeOK
        <5>2. CASE u # t
          <6>1. /\ \E l : pc' = [pc EXCEPT ![u] = l]
                /\ UNCHANGED row \/ \E r : row' = [row EXCEPT ![u] = r]
                /\ UNCHANGED presented \/ \E p : presented' = [presented EXCEPT ![u] = p]
            BY <4>3 DEF Answer, Load, Me, LoseMe, Welcome, Unauthorized, FindSession, FindUser,
               Exchange, SignIn, IssueTokens, Granted, Refused, Lose, Work, Logout,
               EndSession, Goto, Forget
          <6> QED BY <5>2, <6>1, <2>a DEF TypeInv, TypeOK
        <5> QED BY <5>1, <5>2
      <4>4. ASSUME (\E b \in Browser : Lapse(b)) \/ \E s \in Session : Expire(s)
            PROVE  pc[t] = "refused" /\ presented'[t] = presented[t] /\ row'[t] = row[t]
        BY <4>4 DEF Lapse, Expire, tabState
      <4> QED BY <4>1, <4>2, <4>3, <4>4 DEF Next
    <3>2. presented[t] # None /\ sessions[presented[t]] = None => sessions'[presented[t]] = None
      BY <2>a, <3>1, SessionsStayGone
    <3> QED BY <3>1, <3>2 DEF RefusedForAReason
  <2> QED BY <2>1, <2>2, <2>3
<1> QED BY <1>1, <1>2

\* A page whose access token is refused, or whose question for the profile is
\* lost, goes on with the refresh token it started from (AuthProvider.restore),
\* and is signed out only when that token, if it had one, is no good.
THEOREM SignedOut == Spec => SignedOutWithoutASession
<1> DEFINE Fair(t) == \/ presented[t] = None
                      \/ sessions[presented[t]] = None
                      \/ row[t] # None /\ ~CanSignIn(row[t])
<1>1. Init => SignOutInv
  <2>1. Init => RefusedForAReason
    BY CallsAssumption DEF Init, RefusedForAReason
  <2> QED BY <2>1, PasswordInit DEF SignOutInv
<1>2. SignOutInv /\ [Next]_vars =>
        [\A t \in Tab : pc[t] \in Loading \ {"lost"} /\ pc'[t] = "out" => Fair(t)]_vars
  <2> SUFFICES ASSUME SignOutInv, Next, NEW t \in Tab,
                      pc[t] \in Loading \ {"lost"}, pc'[t] = "out"
               PROVE  Fair(t)
    OBVIOUS
  <2>a. TypeInv
    BY DEF SignOutInv, PasswordInv
  <2>1. Answer(t) \/ Load(t) \/ SignIn(t) \/ Work(t) \/ Logout(t)
    <3>1. ASSUME NEW c \in Call, CallStep(c) \/ StartBootstrap(c) \/ \E u \in Tab : Start(c, u)
          PROVE  FALSE
      <4>1. \E l : pc' = [pc EXCEPT ![c] = l]
        BY <3>1 DEF CallStep, Get, Count, CountUsers, Create, Write, RevokeSessions,
           FailCall, Record, StartBootstrap, Start, End, Goto
      <4> QED BY <4>1, <2>a, CallsAssumption DEF TypeInv, TypeOK, Loading
    <3>2. ASSUME NEW u \in Tab \ {t}, Answer(u) \/ Load(u) \/ SignIn(u) \/ Work(u) \/ Logout(u)
          PROVE  FALSE
      <4>1. \E l : pc' = [pc EXCEPT ![u] = l]
        BY <3>2 DEF Answer, Load, Me, LoseMe, Welcome, Unauthorized, FindSession, FindUser,
           Exchange, SignIn, IssueTokens, Granted, Refused, Lose, Work, Logout,
           EndSession, Goto
      <4> QED BY <4>1, <2>a DEF TypeInv, TypeOK, Loading
    <3>3. ASSUME (\E b \in Browser : Lapse(b)) \/ \E s \in Session : Expire(s)
          PROVE  FALSE
      BY <3>3 DEF Lapse, Expire, Loading
    <3> QED BY <3>1, <3>2, <3>3 DEF Next
  <2>2. CASE Load(t)
    BY <2>2, <2>a DEF Load, TypeInv, TabsKnow, Loading
  <2>3. CASE Unauthorized(t)
    BY <2>3, <2>a DEF Unauthorized, Goto, TypeInv, TypeOK
  <2>4. CASE Refused(t)
    BY <2>4 DEF Refused, SignOutInv, RefusedForAReason, Loading
  <2>5. CASE ~Load(t) /\ ~Unauthorized(t) /\ ~Refused(t)
    BY <2>1, <2>5, <2>a
       DEF Answer, Me, LoseMe, Welcome, FindSession, FindUser, Exchange, SignIn, IssueTokens,
           Granted, Lose, Work, Logout, EndSession, Goto, Loading, TypeInv, TypeOK
  <2> QED BY <2>2, <2>3, <2>4, <2>5
<1> QED BY <1>1, <1>2, SignOutStep, PTL DEF Spec, SignedOutWithoutASession
=============================================================================
