------------------------------ MODULE Accounts ------------------------------
(***************************************************************************)
(* Users, the sessions they hold in the management API, and the console    *)
(* that keeps its tokens in the browser.  An administrator's call is the   *)
(* handful of statements that UsersService runs outside any transaction;   *)
(* a tab of the console is the asynchronous code of AuthProvider, with the *)
(* statements of AuthService that answer it.  All of them interleave.      *)
(*                                                                         *)
(* A refresh token and the row that holds its hash share one name.  A      *)
(* session that is revoked or expired is as good as gone: every query      *)
(* leaves it out.  A password is the number of times it was set.           *)
(***************************************************************************)
EXTENDS Naturals, FiniteSets

CONSTANTS
    User,           \* accounts, by their unique e-mail
    Bootstrap,      \* the e-mail of the administrator that is configured
    Tab, Browser,
    BrowserOf,      \* the browser a tab is open in: its tabs share localStorage
    Person,         \* the account whose password the browser's user knows
    Call,           \* management calls
    Starts,         \* where a run may start: the table of users, the tabs that
                    \* are open, what each call is going to be, to whom, and
                    \* the failures that are not to happen any more
    Session,
    MaxFailures,    \* bound: requests lost and statements that fail
    None

AdminOps == {"create", "promote", "demote", "enable", "disable", "delete"}
AllOps == AdminOps \cup {"setPassword", "bootstrap"}
Removals == {"demote", "disable", "delete"}

Row == [role : {"admin", "user"}, status : {"active", "disabled"},
        deleted : BOOLEAN, password : Nat]
\* password and late are history: the password that opened the session, and
\* whether that password was replaced before the session was written.
SessionRow == [user : User, password : Nat, late : BOOLEAN]

ASSUME UsersAssumption ==
    /\ IsFiniteSet(User) /\ None \notin User \cup AllOps \cup {"halfway"} /\ Bootstrap \in User
    /\ None \notin Row /\ None \notin SessionRow
ASSUME CallsAssumption ==
    /\ Tab \cap Call = {}
    /\ BrowserOf \in [Tab -> Browser] /\ Person \in [Browser -> User]
    /\ \A start \in Starts :
         /\ start.users \in [User -> Row \cup {None}]
         /\ start.open \subseteq Tab
         /\ start.op \in [Call -> AllOps \cup {None}] /\ start.target \in [Call -> User]
         /\ start.failures \in 0 .. MaxFailures
    /\ MaxFailures \in Nat

VARIABLES
    users,      \* the table, None for an e-mail that was never used
    sessions,   \* the refresh tokens that can still be exchanged
    store,      \* localStorage of each browser
    pc,         \* where each tab and each call is
    \* A tab: whom it shows as signed in, the refresh token it presents, the
    \* session it found, and what the API has answered.
    shown, presented, found, answer,
    \* A call: what it is to do, for whom, to whom, and the admins it counted.
    op, actor, target, counted,
    row,        \* the user row that a tab's request or a call has read
    outcome,    \* what a call came to
    entry,      \* its entry in the audit log
    failures

tabState == <<shown, presented, found, answer>>
callState == <<op, actor, target, counted, outcome, entry>>
vars == <<users, sessions, store, pc, tabState, callState, row, failures>>

Access == [user : User, role : {"admin", "user"}, fresh : BOOLEAN]
Loading == {"load", "me", "meAnswer", "find", "user", "exchange", "issue",
            "granted", "profile", "profileAnswer", "refused", "lost"}
Settled == {"closed", "in", "out"}
TabLabel == Loading \cup Settled \cup {"issueNew", "grantedNew", "profileNew", "logout", "leave"}
CallLabel == {"ready", "get", "count", "write", "revoke", "record", "ended"}

TypeOK ==
    /\ users \in [User -> Row \cup {None}]
    /\ sessions \in [Session -> SessionRow \cup {None}]
    /\ store \in [Browser -> [access : Access \cup {None}, refresh : Session \cup {None}]]
    /\ pc \in [Tab \cup Call -> TabLabel \cup CallLabel]
    /\ \A t \in Tab : pc[t] \in TabLabel
    /\ \A c \in Call : pc[c] \in CallLabel
    /\ shown \in [Tab -> User \cup {None}]
    /\ presented \in [Tab -> Session \cup {None}]
    /\ found \in [Tab -> SessionRow \cup {None}]
    /\ answer \in [Tab -> [access : Access, refresh : Session] \cup Access \cup {None}]
    /\ op \in [Call -> AllOps \cup {None}]
    /\ actor \in [Call -> User \cup {None}] /\ target \in [Call -> User]
    /\ counted \in [Call -> Nat]
    /\ row \in [Tab \cup Call -> Row \cup {None}]
    /\ outcome \in [Call -> {None, "success", "failure", "halfway"}]
    /\ entry \in [Call -> {None, "success", "failure", "unwritten"}]
    /\ failures \in 0 .. MaxFailures

EmptyStore == [access |-> None, refresh |-> None]

Init ==
    /\ \E start \in Starts :
         /\ users = start.users
         /\ op = start.op /\ target = start.target /\ failures = start.failures
         /\ pc = [p \in Tab \cup Call |-> IF p \in Call THEN "ready"
                    ELSE IF p \in start.open THEN "load" ELSE "closed"]
    /\ sessions = [s \in Session |-> None]
    /\ store = [b \in Browser |-> EmptyStore]
    /\ shown = [t \in Tab |-> None] /\ presented = [t \in Tab |-> None]
    /\ found = [t \in Tab |-> None] /\ answer = [t \in Tab |-> None]
    /\ actor = [c \in Call |-> None]
    /\ counted = [c \in Call |-> 0]
    /\ row = [p \in Tab \cup Call |-> None]
    /\ outcome = [c \in Call |-> None] /\ entry = [c \in Call |-> None]

Goto(p, label) == pc' = [pc EXCEPT ![p] = label]

-----------------------------------------------------------------------------
(* The users table. *)

\* isNull(deletedAt)
Exists(u) == users[u] # None /\ ~users[u].deleted
CanSignIn(r) == r # None /\ ~r.deleted /\ r.status = "active"
Admins == {u \in User : CanSignIn(users[u]) /\ users[u].role = "admin"}

\* What an UPDATE of each operation leaves in the row.
Changed(o, r) ==
    CASE o = "promote" -> [r EXCEPT !.role = "admin"]
      [] o = "demote" -> [r EXCEPT !.role = "user"]
      [] o = "enable" -> [r EXCEPT !.status = "active"]
      [] o = "disable" -> [r EXCEPT !.status = "disabled"]
      [] o = "delete" -> [r EXCEPT !.deleted = TRUE]
      [] o = "setPassword" -> [r EXCEPT !.password = @ + 1]

\* delete and setPassword name the row by its guid alone; the others skip a
\* deleted row, and then report that there is no such user.
Applies(c) == op[c] \in {"delete", "setPassword"} \/ Exists(target[c])

-----------------------------------------------------------------------------
(* Management calls. *)

\* Mutant: a token that has run out is still taken.
ValidForever(token) == token # None

\* verifyAccessToken
Valid(token) == token # None /\ token.fresh

\* AuthGuard and the controllers: the token's word is taken for the role.
Allowed(token, o, u) ==
    /\ Valid(token)
    /\ \/ o \in AllOps \ {"bootstrap"} /\ token.role = "admin"
       \/ o = "setPassword" /\ token.user = u

Start(c, t) ==
    LET token == store[BrowserOf[t]].access IN
    /\ pc[c] = "ready" /\ pc[t] = "in"
    /\ Allowed(token, op[c], target[c])
    /\ actor' = [actor EXCEPT ![c] = token.user]
    /\ Goto(c, IF op[c] = "create" THEN "write" ELSE "get")
    /\ UNCHANGED <<users, sessions, store, tabState, row, op, target, counted, outcome, entry, failures>>

\* A process of the API starts; several may.
StartBootstrap(c) ==
    /\ pc[c] = "ready" /\ op[c] = "bootstrap"
    /\ Goto(c, "count")
    /\ UNCHANGED <<users, sessions, store, tabState, row, op, target, actor, counted, outcome, entry, failures>>

\* The interceptor is told of every audited call that ends, either way; nobody
\* audits the bootstrap.
End(c, result) ==
    /\ outcome' = [outcome EXCEPT ![c] = result]
    /\ row' = [row EXCEPT ![c] = None] /\ counted' = [counted EXCEPT ![c] = 0]
    /\ Goto(c, IF op[c] = "bootstrap" THEN "ended" ELSE "record")

MustCount(c, r) == op[c] \in Removals /\ r.role = "admin"

\* The row is read; whoever changes their own password must know it.
Get(c) ==
    LET r == users[target[c]] IN
    /\ pc[c] = "get"
    /\ \/ /\ Exists(target[c])
          /\ row' = [row EXCEPT ![c] = r]
          /\ Goto(c, IF MustCount(c, r) THEN "count" ELSE "write")
          /\ UNCHANGED <<outcome, counted>>
       \/ /\ ~Exists(target[c]) \/ (op[c] = "setPassword" /\ actor[c] = target[c])
          /\ End(c, "failure")
    /\ UNCHANGED <<users, sessions, store, tabState, op, actor, target, entry, failures>>

\* Mutant: off by one.
IsNoAdmin(n) == n < 1
IsLastAdmin(n) == n <= 1

Count(c) ==
    LET n == Cardinality(Admins) IN
    /\ pc[c] = "count" /\ op[c] # "bootstrap"
    /\ \/ IsLastAdmin(n) /\ End(c, "failure")
       \/ /\ ~IsLastAdmin(n)
          /\ counted' = [counted EXCEPT ![c] = n]
          /\ Goto(c, "write")
          /\ UNCHANGED <<outcome, row>>
    /\ UNCHANGED <<users, sessions, store, tabState, op, actor, target, entry, failures>>

CountUsers(c) ==
    LET n == Cardinality({u \in User : Exists(u)}) IN
    /\ pc[c] = "count" /\ op[c] = "bootstrap"
    /\ \/ n > 0 /\ End(c, "success")
       \/ n = 0 /\ Goto(c, "write") /\ UNCHANGED <<outcome, row, counted>>
    /\ UNCHANGED <<users, sessions, store, tabState, op, actor, target, entry, failures>>

\* The unique index covers deleted users too.  A new user has the role that the
\* administrator asks for.
Create(c) ==
    /\ pc[c] = "write" /\ op[c] \in {"create", "bootstrap"}
    /\ \/ /\ users[target[c]] = None
          /\ \E role \in IF op[c] = "bootstrap" THEN {"admin"} ELSE {"admin", "user"} :
               users' = [users EXCEPT ![target[c]] =
                 [role |-> role, status |-> "active", deleted |-> FALSE, password |-> 0]]
          /\ End(c, "success")
       \/ /\ users[target[c]] # None
          /\ End(c, "failure")
          /\ UNCHANGED users
    /\ UNCHANGED <<sessions, store, tabState, op, actor, target, entry, failures>>

Write(c) ==
    /\ pc[c] = "write" /\ op[c] \notin {"create", "bootstrap"}
    /\ \/ /\ Applies(c)
          /\ users' = [users EXCEPT ![target[c]] = Changed(op[c], @)]
          /\ \/ op[c] # "setPassword" /\ End(c, "success")
             \/ /\ op[c] = "setPassword"
                /\ Goto(c, "revoke")
                /\ UNCHANGED <<outcome, row, counted>>
       \/ /\ ~Applies(c)
          /\ End(c, "failure")
          /\ UNCHANGED users
    /\ UNCHANGED <<sessions, store, tabState, op, actor, target, entry, failures>>

Revoked(u) == [s \in Session |->
    IF sessions[s] # None /\ sessions[s].user = u THEN None ELSE sessions[s]]

\* Mutant: whoever changes their own password keeps their sessions.
RevokeOnReset(c) ==
    /\ pc[c] = "revoke"
    /\ sessions' = IF actor[c] = target[c] THEN sessions ELSE Revoked(target[c])
    /\ End(c, "success")
    /\ UNCHANGED <<users, store, tabState, op, actor, target, entry, failures>>

RevokeSessions(c) ==
    /\ pc[c] = "revoke"
    /\ sessions' = Revoked(target[c])
    /\ End(c, "success")
    /\ UNCHANGED <<users, store, tabState, op, actor, target, entry, failures>>

\* A statement fails: the handler throws where it stands.
FailCall(c) ==
    /\ pc[c] \in {"get", "count", "write", "revoke"}
    /\ failures < MaxFailures
    /\ failures' = failures + 1
    /\ End(c, IF pc[c] = "revoke" THEN "halfway" ELSE "failure")
    /\ UNCHANGED <<users, sessions, store, tabState, op, actor, target, entry>>

\* Mutant: only what went well is recorded.
RecordSuccess(c) ==
    /\ pc[c] = "record" /\ outcome[c] = "success"
    /\ entry' = [entry EXCEPT ![c] = "success"]
    /\ Goto(c, "ended")
    /\ UNCHANGED <<users, sessions, store, tabState, row, op, actor, target, counted, outcome, failures>>

\* Written after the response, and never the reason for a call to fail.
Record(c) ==
    /\ pc[c] = "record"
    /\ Goto(c, "ended")
    /\ \/ /\ entry' = [entry EXCEPT ![c] = IF outcome[c] = "success" THEN "success" ELSE "failure"]
          /\ UNCHANGED failures
       \/ /\ failures < MaxFailures
          /\ failures' = failures + 1
          /\ entry' = [entry EXCEPT ![c] = "unwritten"]
    /\ UNCHANGED <<users, sessions, store, tabState, row, op, actor, target, counted, outcome>>

-----------------------------------------------------------------------------
(* The console: a tab.  It waits wherever the code awaits an answer, and   *)
(* the browser's other tabs go on meanwhile.                                *)

Store(t) == store[BrowserOf[t]]
Keep(t, tokens) == store' = [store EXCEPT ![BrowserOf[t]] = tokens]
Forget(t) ==
    /\ presented' = [presented EXCEPT ![t] = None]
    /\ found' = [found EXCEPT ![t] = None]
    /\ row' = [row EXCEPT ![t] = None]
unchangedByTabs == <<users, callState>>

\* restore: a page is loaded, or loaded again.
Load(t) ==
    /\ pc[t] \in {"load", "in", "out"}
    /\ presented' = [presented EXCEPT ![t] = Store(t).refresh]
    /\ shown' = [shown EXCEPT ![t] = None]
    /\ Goto(t, IF Store(t).access # None THEN "me"
               ELSE IF Store(t).refresh # None THEN "find" ELSE "out")
    /\ UNCHANGED <<unchangedByTabs, sessions, store, found, answer, row, failures>>

\* AuthGuard answers with the identity in the token that is in the store now.
Me(t) ==
    LET token == Store(t).access IN
    /\ pc[t] \in {"me", "profile", "profileNew"}
    /\ answer' = [answer EXCEPT ![t] = IF Valid(token) THEN token ELSE None]
    /\ Goto(t, IF pc[t] = "me" THEN "meAnswer" ELSE "profileAnswer")
    /\ UNCHANGED <<unchangedByTabs, sessions, store, shown, presented, found, row, failures>>

Welcome(t) ==
    /\ pc[t] \in {"meAnswer", "profileAnswer"} /\ answer[t] # None
    /\ shown' = [shown EXCEPT ![t] = answer[t].user]
    /\ answer' = [answer EXCEPT ![t] = None]
    /\ Forget(t)
    /\ Goto(t, "in")
    /\ UNCHANGED <<unchangedByTabs, sessions, store, failures>>

\* Mutant: the refresh token is read again, after the 401 has cleared it.
UnauthorizedAndOut(t) ==
    /\ pc[t] \in {"meAnswer", "profileAnswer"} /\ answer[t] = None
    /\ shown' = [shown EXCEPT ![t] = None]
    /\ Keep(t, EmptyStore)
    /\ Goto(t, "out")
    /\ UNCHANGED <<unchangedByTabs, sessions, presented, found, answer, row, failures>>

\* Mutant: the refusal that follows a refresh is tried again.
UnauthorizedAgain(t) ==
    /\ pc[t] \in {"meAnswer", "profileAnswer"} /\ answer[t] = None
    /\ shown' = [shown EXCEPT ![t] = None]
    /\ Keep(t, EmptyStore)
    /\ Goto(t, IF presented[t] # None THEN "find"
               ELSE IF pc[t] = "meAnswer" THEN "out" ELSE "profile")
    /\ UNCHANGED <<unchangedByTabs, sessions, presented, found, answer, row, failures>>

\* A 401 clears the store before the caller hears of it; restore goes on with
\* the refresh token that it had read before.
Unauthorized(t) ==
    /\ pc[t] \in {"meAnswer", "profileAnswer"} /\ answer[t] = None
    /\ shown' = [shown EXCEPT ![t] = None]
    /\ Keep(t, EmptyStore)
    /\ Goto(t, IF presented[t] # None THEN "find" ELSE "out")
    /\ UNCHANGED <<unchangedByTabs, sessions, presented, found, answer, row, failures>>

\* A question for the profile that is lost, or fails but for a 401, clears nothing
\* by itself: restore goes on with the refresh token, or gives up what a refresh
\* has just granted; a login is reported as failed, and its tokens stay.
LoseMe(t) ==
    /\ pc[t] \in {"me", "profile", "profileNew"}
    /\ failures < MaxFailures
    /\ failures' = failures + 1
    /\ Goto(t, CASE pc[t] = "me" /\ presented[t] # None -> "find"
                 [] pc[t] = "profile" -> "lost"
                 [] OTHER -> "out")
    /\ UNCHANGED <<unchangedByTabs, sessions, store, shown, presented, found, answer, row>>

\* refresh: the session, then its user, then one UPDATE and one INSERT.
FindSession(t) ==
    LET s == sessions[presented[t]] IN
    /\ pc[t] = "find"
    /\ found' = [found EXCEPT ![t] = s]
    /\ Goto(t, IF s = None THEN "refused" ELSE "user")
    /\ UNCHANGED <<unchangedByTabs, sessions, store, shown, presented, answer, row, failures>>

FindUser(t) ==
    LET r == users[found[t].user] IN
    /\ pc[t] = "user"
    /\ row' = [row EXCEPT ![t] = r]
    /\ Goto(t, IF CanSignIn(r) THEN "exchange" ELSE "refused")
    /\ UNCHANGED <<unchangedByTabs, sessions, store, shown, presented, found, answer, failures>>

Exchange(t) ==
    /\ pc[t] = "exchange"
    /\ sessions' = [sessions EXCEPT ![presented[t]] = None]
    /\ presented' = [presented EXCEPT ![t] = None]
    /\ Goto(t, "issue")
    /\ UNCHANGED <<unchangedByTabs, store, shown, found, answer, row, failures>>

\* login, by someone who knows the password or does not.
SignIn(t) ==
    LET u == Person[BrowserOf[t]] IN
    /\ pc[t] = "out"
    /\ \/ /\ CanSignIn(users[u])
          /\ row' = [row EXCEPT ![t] = users[u]]
          /\ found' = [found EXCEPT ![t] =
               [user |-> u, password |-> users[u].password, late |-> FALSE]]
          /\ Goto(t, "issueNew")
       \/ Goto(t, "leave") /\ UNCHANGED <<row, found>>
    /\ UNCHANGED <<unchangedByTabs, sessions, store, shown, presented, answer, failures>>

\* A name for a token nobody has: a session that was left behind with its token
\* can never be presented again, and its name may serve another.
Unused(s) ==
    /\ \A b \in Browser : store[b].refresh # s
    /\ \A t \in Tab : presented[t] # s /\ (pc[t] \in {"granted", "grantedNew"} => answer[t].refresh # s)

IssueTokens(t) ==
    LET s == CHOOSE x \in Session : Unused(x) IN
    /\ pc[t] \in {"issue", "issueNew"}
    /\ s \in Session /\ Unused(s)
    /\ sessions' = [sessions EXCEPT ![s] =
         [found[t] EXCEPT !.late = users[found[t].user].password # found[t].password]]
    /\ answer' = [answer EXCEPT ![t] =
         [access |-> [user |-> found[t].user, role |-> row[t].role, fresh |-> TRUE],
          refresh |-> s]]
    /\ Goto(t, IF pc[t] = "issue" THEN "granted" ELSE "grantedNew")
    /\ UNCHANGED <<unchangedByTabs, store, shown, presented, found, row, failures>>

\* Mutant: one token is stored under both names.
GrantedOnce(t) ==
    /\ pc[t] \in {"granted", "grantedNew"}
    /\ Keep(t, [answer[t] EXCEPT !.refresh = answer[t].access])
    /\ answer' = [answer EXCEPT ![t] = None]
    /\ Forget(t)
    /\ Goto(t, IF pc[t] = "granted" THEN "profile" ELSE "profileNew")
    /\ UNCHANGED <<unchangedByTabs, sessions, shown, failures>>

Granted(t) ==
    /\ pc[t] \in {"granted", "grantedNew"}
    /\ Keep(t, answer[t])
    /\ answer' = [answer EXCEPT ![t] = None]
    /\ Forget(t)
    /\ Goto(t, IF pc[t] = "granted" THEN "profile" ELSE "profileNew")
    /\ UNCHANGED <<unchangedByTabs, sessions, shown, failures>>

\* The answer to a refresh, a login or a logout that leaves the tab signed out.
Refused(t) ==
    /\ pc[t] \in {"refused", "lost", "leave"}
    /\ shown' = [shown EXCEPT ![t] = None]
    /\ Keep(t, EmptyStore)
    /\ Forget(t)
    /\ Goto(t, "out")
    /\ UNCHANGED <<unchangedByTabs, sessions, answer, failures>>

\* A refresh or a login whose request or answer is lost, or whose statement
\* fails: only the refresh clears the store for it.
Lose(t) ==
    /\ pc[t] \in {"find", "user", "exchange", "issue", "issueNew", "granted", "grantedNew"}
    /\ failures < MaxFailures
    /\ failures' = failures + 1
    /\ answer' = [answer EXCEPT ![t] = None]
    /\ Forget(t)
    /\ Goto(t, IF pc[t] \in {"issueNew", "grantedNew"} THEN "out" ELSE "lost")
    /\ UNCHANGED <<unchangedByTabs, sessions, store, shown>>

\* Any other request of a tab that shows a user, with a token that is no good.
Work(t) ==
    /\ pc[t] = "in"
    /\ ~Valid(Store(t).access)
    /\ Goto(t, "leave")
    /\ UNCHANGED <<unchangedByTabs, sessions, store, shown, presented, found, answer, row, failures>>

Logout(t) ==
    /\ pc[t] = "in"
    /\ presented' = [presented EXCEPT ![t] = Store(t).refresh]
    /\ Goto(t, IF Store(t).refresh = None THEN "leave" ELSE "logout")
    /\ UNCHANGED <<unchangedByTabs, sessions, store, shown, found, answer, row, failures>>

EndSession(t) ==
    /\ pc[t] = "logout"
    /\ sessions' = [sessions EXCEPT ![presented[t]] = None]
    /\ Goto(t, "leave")
    /\ UNCHANGED <<unchangedByTabs, store, shown, presented, found, answer, row, failures>>

-----------------------------------------------------------------------------
(* Time. *)

\* accessTtl, and refreshTtl: a token runs out wherever it is kept.
Lapse(b) ==
    /\ store[b].access # None /\ store[b].access.fresh
    /\ store' = [store EXCEPT ![b].access.fresh = FALSE]
    /\ UNCHANGED <<users, sessions, pc, tabState, callState, row, failures>>

Expire(s) ==
    /\ sessions[s] # None
    /\ sessions' = [sessions EXCEPT ![s] = None]
    /\ UNCHANGED <<users, store, pc, tabState, callState, row, failures>>

-----------------------------------------------------------------------------
CallStep(c) ==
    \/ Get(c) \/ Count(c) \/ CountUsers(c) \/ Create(c) \/ Write(c)
    \/ RevokeSessions(c) \/ FailCall(c) \/ Record(c)

\* What a tab does by itself, once it has begun.
Answer(t) ==
    \/ Me(t) \/ LoseMe(t) \/ Welcome(t) \/ Unauthorized(t)
    \/ FindSession(t) \/ FindUser(t) \/ Exchange(t)
    \/ IssueTokens(t) \/ Granted(t) \/ Refused(t) \/ Lose(t) \/ EndSession(t)

Next ==
    \/ \E c \in Call : CallStep(c) \/ StartBootstrap(c)
    \/ \E c \in Call, t \in Tab : Start(c, t)
    \/ \E t \in Tab : Answer(t) \/ Load(t) \/ SignIn(t) \/ Work(t) \/ Logout(t)
    \/ \E b \in Browser : Lapse(b)
    \/ \E s \in Session : Expire(s)

Spec == Init /\ [][Next]_vars

\* A request that was sent is answered or fails, a page that was opened runs its
\* effects, and the clock goes on.  Nobody has to sign in, or to come back.
Fairness ==
    /\ \A c \in Call : WF_vars(CallStep(c))
    /\ \A t \in Tab : WF_vars(Answer(t)) /\ WF_vars(pc[t] = "load" /\ Load(t))
    /\ \A b \in Browser : WF_vars(Lapse(b))

FairSpec == Spec /\ Fairness

-----------------------------------------------------------------------------
(* Properties. *)

\* "The last admin cannot be demoted" (UsersService.update): the deployment
\* loses its last active administrator only to a call whose row or count is
\* out of date when it writes.  One call alone never takes it.
AdminsGoByStaleReads ==
    [][Admins # {} /\ Admins' = {} =>
         \E c \in Call :
            /\ pc[c] = "write" /\ op[c] \in Removals
            /\ \/ row[c].role # users[target[c]].role
               \/ counted[c] # Cardinality(Admins)]_vars

\* UsersService.setPassword "ends every session the account had": a session
\* outlives the password that opened it only while the change has still to
\* revoke it, after the change failed half-way, or because the session was
\* written by a sign-in or a refresh that the change overtook.
Changing(u) == \E c \in Call :
    target[c] = u /\ (pc[c] = "revoke" \/ outcome[c] = "halfway")
SessionsFollowThePassword ==
    \A s \in Session : sessions[s] # None =>
        \/ sessions[s].late
        \/ sessions[s].password = users[sessions[s].user].password
        \/ Changing(sessions[s].user)

\* AuthProvider.restore: a page whose access token is refused, or whose question
\* for the profile is lost, goes on with the refresh token it started from, and
\* is signed out only when that token is no good.  Its own 401, or another
\* tab's, must not cost it the token.  Once it has exchanged the token it has
\* none left, and nothing is said of what becomes of it then.
SignedOutWithoutASession ==
    [][\A t \in Tab :
         pc[t] \in Loading \ {"lost"} /\ pc'[t] = "out" =>
            \/ presented[t] = None
            \/ sessions[presented[t]] = None
            \/ row[t] # None /\ ~CanSignIn(row[t])]_vars

\* AuthProvider: whatever the API answers, and whatever other tabs do to the
\* store meanwhile, a tab comes to show either a user or the login form.
TabsSettle == \A t \in Tab : pc[t] \notin Settled ~> pc[t] \in Settled

\* AuditInterceptor: every management call that got past the guards ends, and
\* is in the log with what came of it, unless the log could not be written.
CallsAreAudited ==
    \A c \in Call : actor[c] # None ~> entry[c] # None

\* AuthService.refresh reads the user again: whoever is an administrator no
\* more, for good, is in the end refused as one, however often they come back.
PowerLapses ==
    \A b \in Browser :
        <>[](Person[b] \notin Admins) =>
            <>[]~(Valid(store[b].access) /\ store[b].access.role = "admin")
=============================================================================
