------------------------------ MODULE Requests ------------------------------
(***************************************************************************)
(* The way of a request through the two applications: S3Guard and          *)
(* S3RateLimitGuard, the authorization against rows that are read one      *)
(* after the other, the handler.  Between any two of these steps the other *)
(* callers take theirs, and some of them change the very rows: policies,   *)
(* ACLs, grants and access keys are changed by requests too, through the   *)
(* S3 endpoint or through the management API.                              *)
(*                                                                         *)
(* What a caller asks for is constant: scenario.ask[c] is a record         *)
(* that says which door it comes in by ("s3" or "api"), the operation and  *)
(* what the operation takes; the payload of an object is a sequence of     *)
(* bytes, its ETag that sequence, and each bucket has one object.          *)
(***************************************************************************)
EXTENDS Policy, Payload

CONSTANTS Caller, KeyId, User, Bucket,
          Starts,       \* what there is and who asks for what
          Budget,       \* requests a subject may make in a window
          Window,       \* length of a window
          Skew,         \* MAX_CLOCK_SKEW_MS
          MaxExpires    \* the longest life of a presigned URL

ASSUME RequestsAssumption ==
    /\ Budget \in Nat \ {0} /\ Window \in Nat \ {0}
    /\ IsFiniteSet(Caller)
    /\ IsFiniteSet(KeyId)
    /\ None \notin Caller \cup KeyId \cup User /\ KeyId \cap User = {}
    /\ None \notin {"ok", "AccessDenied", "NoSuchBucket", "SlowDown"}
    /\ None \notin {"EntityTooLarge", "IncompleteBody", "SignatureDoesNotMatch", "BadDigest", "gone"}
    /\ \A i \in DOMAIN Starts : Starts[i].maxTime \in Nat /\ Starts[i].maxOutages \in Nat

\* The rows, and what a link remembers of its key.
Acls == {"private", "publicRead", "publicReadWrite", "authenticatedRead"}
KeyRow == [user : User, created : Int, status : {"active", "inactive"}, deleted : BOOLEAN, expiresAt : Int]
CorsRule == [origins : SUBSET STRING, methods : SUBSET STRING, headers : SUBSET STRING]
BucketRow == [deleted : BOOLEAN, owner : User, acl : Acls, cors : Seq(CorsRule)]
ASSUME RowsAssumption == None \notin BucketRow
Link == [key : KeyId, at : Nat, expires : Int, row : KeyRow]

VARIABLES scenario,    \* one of Starts; it never changes
          key,         \* access_key rows
          bucket,      \* bucket rows
          policy,      \* bucket_policy: a document, <<>> when there is none
          grants,      \* bucket_access
          object,      \* the payload of the one object of a bucket, or None
          counter,     \* the counters in Valkey, by subject and window
          up,          \* Valkey answers
          available,   \* RateLimitService.available
          outages,
          now,
          stage,       \* where a call is
          got,         \* what it has read, decided and answered
          io,          \* the body it streams, in or out
          denied,      \* needs of a call that a policy has denied ever since it was sent
          steady       \* nothing that decides has changed since it was sent

rules == <<key, bucket, policy, grants>>
store == <<counter, up, available, outages>>
call == <<stage, got, io>>
vars == <<scenario, rules, object, store, now, call, denied, steady>>

Ask(c) == scenario.ask[c]
MaxTime == scenario.maxTime          \* bound: the last moment of the clock
MaxOutages == scenario.maxOutages    \* bound: how often Valkey goes away
Asks(c, op) == Ask(c).op \in op

-----------------------------------------------------------------------------
\* What a call at the endpoint needs: the actions it must be allowed.
ActionOf == [
    GetObject |-> "getObject", HeadObject |-> "getObject", PutObject |-> "putObject", DeleteObject |-> "deleteObject",
    ListObjects |-> "listBucket", ListVersions |-> "listBucketVersions",
    ListUploads |-> "listBucketMultipartUploads", ListParts |-> "listMultipartUploadParts",
    HeadBucket |-> "listBucket", GetBucketLocation |-> "getBucketLocation",
    GetBucketVersioning |-> "getBucketVersioning", GetBucketAcl |-> "getBucketAcl", GetBucketCors |-> "getBucketCors",
    GetBucketPolicy |-> "getBucketPolicy", PutBucketAcl |-> "putBucketAcl", PutBucketPolicy |-> "putBucketPolicy",
    DeleteBucketPolicy |-> "deleteBucketPolicy", PutBucketCors |-> "putBucketCors",
    DeleteBucketCors |-> "putBucketCors", DeleteBucket |-> "deleteBucket"]
\* What a call at the management API needs: the permission its controller asks for.
ObjectPermissions == [
    ListObjects |-> "read", ListVersions |-> "read", PutObject |-> "write", GetObject |-> "read", DeleteObject |-> "delete"]
SharePermission == [Share |-> "read"]
BucketPermissions == [GetBucket |-> "read", DeleteBucket |-> "manage", PutBucketAcl |-> "manage"]
GrantPermissions == [
    GetUsage |-> "read", ListGrants |-> "manage", ListUsers |-> "manage", SetGrant |-> "manage", RemoveGrant |-> "manage"]
PolicyPermissions == [GetBucketPolicy |-> "manage", PutBucketPolicy |-> "manage", DeleteBucketPolicy |-> "manage"]
PermissionOf ==
    [op \in UNION {DOMAIN ObjectPermissions, DOMAIN SharePermission, DOMAIN BucketPermissions,
                   DOMAIN GrantPermissions, DOMAIN PolicyPermissions} |->
        CASE op \in DOMAIN ObjectPermissions -> ObjectPermissions[op]
          [] op \in DOMAIN SharePermission -> SharePermission[op]
          [] op \in DOMAIN BucketPermissions -> BucketPermissions[op]
          [] op \in DOMAIN GrantPermissions -> GrantPermissions[op]
          [] OTHER -> PolicyPermissions[op]]

\* What there is to call, and what comes without a bucket to look at.
CommonCalls == {"nothing", "ListBuckets", "CreateBucket", "CopyObject"}
EndpointCalls == DOMAIN ActionOf \cup CommonCalls \cup {"Preflight", "Unimplemented"}
ApiCalls == DOMAIN PermissionOf \cup CommonCalls \cup {"SetKeyStatus", "DeleteKey", "SignIn"}

\* What the client of an upload sends, and what the network may make of it: only the
\* client signs chunks.
WellSent(a) ==
    LET all == AllOf(a.chunks)
        framed == Framed(all, a.framing = "signed")
    IN
    /\ a.framing \in {"plain", "signed", "unsigned"}
    /\ a.chunks \in Seq(Seq(Byte) \ {<<>>}) /\ a.wire \in Seq(Symbol)
    /\ a.framing = "plain" => a.wire = Plain(a.chunks)
    /\ a.framing = "signed" =>
          \A i \in 1 .. Len(a.wire) : a.wire[i].is = "sig" => \E n \in 0 .. Len(all) : a.wire[i].over = SubSeq(all, 1, n)
    /\ a.framing # "plain" /\ a.sent = "whole" => a.wire \in {framed, SubSeq(framed, 1, Len(framed) - 2)}
    /\ a.framing = "unsigned" /\ a.sent \notin {"whole", "altered"} =>
          \E m \in 0 .. Len(framed) : m <= Len(a.wire) /\ BrokenAt(a.wire, all, FALSE, m)

\* Callers ask for what the controllers let through: a session names its user, a
\* link is opened by somebody else, and those that are shared live as long as
\* PresignObjectBody allows.  Only the endpoint takes a framing off: whatever is
\* put over the API, and whatever its headers say of it, is stored as it comes.
WellAsked(ask, c) ==
    LET a == ask[c] IN
    /\ \/ a.door = "s3" /\ a.op \in EndpointCalls
       \/ a.door = "api" /\ a.op \in ApiCalls
    /\ a.bucket \in Bucket /\ a.from \in Bucket
    /\ a.user \in User \cup {None} /\ (a.door = "api" /\ a.op # "SignIn" => a.user \in User)
    /\ a.address \notin KeyId \cup User
    /\ a.auth = "none" => a.opens = None
    /\ a.opens # None =>
          /\ a.opens \in Caller \ {c} /\ a.door = "s3" /\ a.auth = "link" /\ a.genuine
          /\ ask[a.opens].op = "Share" => ask[a.opens].expires \in 1 .. MaxExpires
    /\ a.expires \in Int
    /\ a.op \in {"SetKeyStatus", "DeleteKey"} => a.key \in KeyId
    /\ a.op = "SetKeyStatus" => a.status \in {"active", "inactive"}
    /\ a.op \in {"SetGrant", "RemoveGrant"} => a.to \in User /\ a.permissions \subseteq Permission
    /\ a.acl \in Acls \cup {"bad", None} /\ a.cors \in Seq(CorsRule)
    /\ a.iv \in Counters \cup {<<>>} /\ WellSent(a)
    /\ a.door = "api" => a.framing = "plain"
    /\ a.range.form \in {"none", "suffix", "from", "between"} /\ a.range.first \in Nat /\ a.range.last \in Nat

\* What there is at first was written by the same code.
ASSUME StartsAssumption ==
    \A i \in DOMAIN Starts :
        LET s == Starts[i] IN
        /\ \A c \in Caller : WellAsked(s.ask, c)
        /\ s.key \in [KeyId -> KeyRow]
        /\ s.bucket \in [Bucket -> BucketRow \cup {None}]
        /\ DOMAIN s.policy = Bucket /\ \A b \in Bucket : ValidDocument(s.policy[b])
        /\ s.grants \in [Bucket -> [User -> SUBSET Permission]]
        /\ \A b \in Bucket : s.object[b] # None =>
               s.object[b].iv \in Counters \cup {<<>>} /\ s.object[b].plain \in Seq(Symbol)

OnBucket(b, a) == [bucket |-> b, action |-> a]
\* Two buckets: the endpoint looks at the target first, the API at the source.
CopyNeeds(c) ==
    IF Ask(c).door = "s3" THEN << OnBucket(Ask(c).bucket, "putObject"), OnBucket(Ask(c).from, "getObject") >>
    ELSE << OnBucket(Ask(c).from, IF Ask(c).move THEN "delete" ELSE "read"), OnBucket(Ask(c).bucket, "write") >>
NeedsOf(c) ==
    LET needed == IF Ask(c).door = "s3" THEN ActionOf ELSE PermissionOf IN
    IF Asks(c, {"CopyObject"}) THEN CopyNeeds(c)
    ELSE IF Ask(c).op \notin DOMAIN needed THEN <<>>
    ELSE << OnBucket(Ask(c).bucket, needed[Ask(c).op]) >>

Need(c) == NeedsOf(c)[got[c].need]
PermissionFor(c, n) == IF Ask(c).door = "s3" THEN Needs(n.action) ELSE n.action

\* What a policy is asked about a need: object actions name the object.
Resource(n) == IF n.action \in {"getObject", "putObject", "deleteObject", "listMultipartUploadParts"} THEN <<n.bucket, "key">> ELSE <<n.bucket>>
PolicyRequest(c, n, ids, time) ==
    [action |-> n.action, resource |-> Resource(n), ids |-> ids, context |-> [Ask(c).context EXCEPT !.time = {time}]]

Answered(c, answer) ==
    /\ stage' = [stage EXCEPT ![c] = "done"]
    /\ got' = [got EXCEPT ![c].answer = answer]
Moves(c, to) == stage' = [stage EXCEPT ![c] = to]

-----------------------------------------------------------------------------
\* A call is sent: it is signed now.  One that opens a link has the link.  AuthGuard
\* has let the calls at the API through that come from a session.
Send(c) ==
    /\ stage[c] = "unsent" /\ ~Asks(c, {"nothing"})
    /\ Ask(c).opens # None => got[Ask(c).opens].link # None
    /\ got' = [got EXCEPT ![c].at = now, ![c].user = IF Ask(c).door = "api" THEN Ask(c).user ELSE None]
    /\ Moves(c, IF Ask(c).door = "s3" THEN "guard" ELSE "limit")
    /\ UNCHANGED <<scenario, rules, object, store, now, io>>

\* S3Guard: resolveCredentials, then verify or verifyPresigned.
Signed(c) ==
    IF Ask(c).opens = None
    THEN [key |-> Ask(c).key, at |-> got[c].at, expires |-> Ask(c).expires]
    ELSE got[Ask(c).opens].link

\* assertFreshTimestamp, either way.
Fresh(at) == now - at <= Skew /\ at - now <= Skew
\* Whether the signature is the one that the key's secret makes over the request.
Authentic(c) == Ask(c).genuine
Usable(k) == ~key[k].deleted /\ key[k].status = "active" /\ now <= key[k].expiresAt

Refusal(c) ==
    LET s == Signed(c) IN
    CASE Ask(c).auth = "malformed" -> "InvalidArgument"
      [] s.key \notin KeyId \/ ~Usable(s.key) -> "InvalidAccessKeyId"
      [] Ask(c).auth = "link" /\ s.expires \notin 1 .. MaxExpires -> "InvalidArgument"
      [] Ask(c).auth = "link" /\ now > s.at + s.expires -> "ExpiredSignature"
      [] Ask(c).auth = "header" /\ ~Fresh(s.at) -> "RequestTimeTooSkewed"
      [] ~Authentic(c) -> "SignatureDoesNotMatch"
      [] OTHER -> "none"

Guard(c) ==
    /\ stage[c] = "guard"
    /\ \/ /\ Ask(c).auth = "none"
          /\ Moves(c, "limit") /\ UNCHANGED got
       \/ /\ Ask(c).auth # "none" /\ Refusal(c) = "none"
          /\ Moves(c, "limit")
          /\ got' = [got EXCEPT ![c].key = Signed(c).key, ![c].user = key[Signed(c).key].user]
       \/ /\ Ask(c).auth # "none" /\ Refusal(c) # "none"
          /\ Answered(c, Refusal(c))
    /\ UNCHANGED <<scenario, rules, object, store, now, io>>

-----------------------------------------------------------------------------
\* Logins come without a session and are counted by address.
SubjectAtApi(c) == IF got[c].user # None THEN got[c].user ELSE Ask(c).address
\* The rate limit guards of the two applications and RateLimitService.consume.
SubjectOf(c) == IF got[c].key # None THEN got[c].key ELSE IF Ask(c).door = "api" THEN SubjectAtApi(c) ELSE Ask(c).address
WindowIndex == now \div Window
Hits(s, w) == IF <<s, w>> \in DOMAIN counter THEN counter[<<s, w>>] ELSE 0

\* A mistake: the request that reaches the limit is let through as well.
WithinBudgetOrNext(count) == count <= Budget + 1

WithinBudget(count) == count <= Budget
\* Access keys are looked up first; other handlers that name no bucket go straight
\* to their work.
KeyCalls == {"SetKeyStatus", "DeleteKey"}
Dispatch(c, counted) ==
    /\ Moves(c, IF Asks(c, KeyCalls) THEN "key" ELSE IF NeedsOf(c) = <<>> /\ ~Asks(c, {"Preflight"}) THEN "work" ELSE "row")
    /\ got' = [got EXCEPT ![c].counted = counted]

\* Valkey is known to be away, or found to be: every request passes.
PassUncounted(c) ==
    /\ stage[c] = "limit" /\ ~(available /\ up)
    /\ available' = FALSE
    /\ Dispatch(c, None)
    /\ UNCHANGED <<scenario, rules, object, counter, up, outages, now, io>>

Increment(c) ==
    LET s == SubjectOf(c)
        count == Hits(s, WindowIndex) + 1
    IN
    /\ stage[c] = "limit" /\ available /\ up
    /\ counter' = [at \in DOMAIN counter \cup {<<s, WindowIndex>>} |->
                      IF at = <<s, WindowIndex>> THEN count ELSE counter[at]]
    /\ \/ /\ count = 1
          /\ Moves(c, "arm")
          /\ got' = [got EXCEPT ![c].counted = <<s, WindowIndex>>]
       \/ /\ count # 1 /\ WithinBudget(count)
          /\ Dispatch(c, <<s, WindowIndex>>)
       \/ /\ count # 1 /\ ~WithinBudget(count)
          /\ Answered(c, "SlowDown")
    /\ UNCHANGED <<scenario, rules, object, up, available, outages, now, io>>

\* EXPIRE after the first INCR of a window.  A counter that is left without a
\* deadline is never looked at again: the window is part of its name.
Arm(c) ==
    /\ stage[c] = "arm"
    /\ available' = (available /\ up)
    /\ Dispatch(c, got[c].counted)
    /\ UNCHANGED <<scenario, rules, object, counter, up, outages, now, io>>

\* Valkey goes away, with its counters or without, and comes back; the client
\* hears of it later.
LoseStore ==
    /\ up /\ outages < MaxOutages
    /\ up' = FALSE /\ outages' = outages + 1
    /\ \/ UNCHANGED <<counter, got>>
       \/ /\ counter' = <<>>
          /\ got' = [c \in Caller |-> [got[c] EXCEPT !.counted = None]]
    /\ UNCHANGED <<scenario, rules, object, available, now, stage, io>>
RestoreStore == ~up /\ up' = TRUE /\ UNCHANGED <<scenario, rules, object, counter, available, outages, now, call>>
Notice == available # up /\ available' = up /\ UNCHANGED <<scenario, rules, object, counter, up, outages, now, call>>

-----------------------------------------------------------------------------
\* resolveBucket and getForUser: the row, the policy, the owner, the grant.
Missing(b) == bucket[b] = None \/ bucket[b].deleted

ReadRow(c) ==
    LET b == IF Asks(c, {"Preflight"}) THEN Ask(c).bucket ELSE Need(c).bucket IN
    /\ stage[c] = "row"
    /\ \/ Missing(b) /\ Answered(c, "NoSuchBucket")
       \/ /\ ~Missing(b)
          /\ got' = [got EXCEPT ![c].row = bucket[b]]
          /\ Moves(c, IF Asks(c, {"Preflight"}) THEN "work" ELSE IF Ask(c).door = "s3" THEN "policy" ELSE "owner")
    /\ UNCHANGED <<scenario, rules, object, store, now, io>>

\* A mistake: the need after this one is passed over.
SkipNeed(c) == got[c].need + 2
\* A mistake: the same need is looked at again.
SameNeed(c) == got[c].need
\* The needs are looked at one by one; after the last the handler works.
NextNeed(c) == got[c].need + 1
Granted(c) ==
    /\ got' = [got EXCEPT ![c].need = NextNeed(c)]
    /\ Moves(c, IF NextNeed(c) > Len(NeedsOf(c)) THEN "work" ELSE "row")

Ids(c) == {got[c].key, got[c].user} \ {None}
Anonymous(c) == got[c].user = None

EvaluatePolicy(c) ==
    LET decision == Evaluate(policy[Need(c).bucket], PolicyRequest(c, Need(c), Ids(c), now))
        permission == Needs(Need(c).action)
    IN
    /\ stage[c] = "policy"
    /\ \/ decision = "deny" /\ Answered(c, "AccessDenied")
       \/ decision = "allow" /\ Granted(c)
       \/ /\ decision = "notApplicable" /\ Anonymous(c)
          /\ IF AllowedByAcl(got[c].row.acl, permission, TRUE) THEN Granted(c) ELSE Answered(c, "AccessDenied")
       \/ /\ decision = "notApplicable" /\ ~Anonymous(c)
          /\ IF got[c].row.owner = got[c].user THEN Granted(c) ELSE Moves(c, "owner") /\ UNCHANGED got
    /\ UNCHANGED <<scenario, rules, object, store, now, io>>

\* hasPermission reads the bucket again, and then the grant.
ReadOwner(c) ==
    LET b == Need(c).bucket IN
    /\ stage[c] = "owner"
    /\ \/ Ask(c).door = "api" /\ Ask(c).role = "admin" /\ Granted(c)
       \/ /\ Ask(c).door = "s3" \/ Ask(c).role # "admin"
          /\ IF Missing(b) THEN Answered(c, "NoSuchBucket")
             ELSE IF bucket[b].owner = got[c].user THEN Granted(c)
             ELSE Moves(c, "grant") /\ UNCHANGED got
    /\ UNCHANGED <<scenario, rules, object, store, now, io>>

\* The endpoint falls back on the ACL of the row it read first; the API tells
\* who may not read a bucket that there is none.
ReadGrant(c) ==
    LET permission == PermissionFor(c, Need(c))
        granted == permission \in grants[Need(c).bucket][got[c].user]
    IN
    /\ stage[c] = "grant"
    /\ \/ /\ granted \/ (Ask(c).door = "s3" /\ AllowedByAcl(got[c].row.acl, permission, FALSE))
          /\ Granted(c)
       \/ /\ ~granted /\ ~(Ask(c).door = "s3" /\ AllowedByAcl(got[c].row.acl, permission, FALSE))
          /\ Answered(c, IF Ask(c).door = "api" /\ permission = "read" THEN "NoSuchBucket" ELSE "AccessDenied")
    /\ UNCHANGED <<scenario, rules, object, store, now, io>>

-----------------------------------------------------------------------------
\* The handlers that change who may do what.  Each ends in one statement.

SetPolicy(c) ==
    /\ stage[c] = "work" /\ Asks(c, {"PutBucketPolicy"})
    /\ \/ /\ ValidDocument(Ask(c).document)
          /\ policy' = [policy EXCEPT ![Ask(c).bucket] = Ask(c).document]
          /\ Answered(c, "ok")
       \/ ~ValidDocument(Ask(c).document) /\ Answered(c, "MalformedPolicy") /\ UNCHANGED policy
    /\ UNCHANGED <<scenario, key, bucket, grants, object, store, now, io>>

DeletePolicy(c) ==
    /\ stage[c] = "work" /\ Asks(c, {"DeleteBucketPolicy"})
    /\ policy' = [policy EXCEPT ![Ask(c).bucket] = <<>>]
    /\ Answered(c, "ok")
    /\ UNCHANGED <<scenario, key, bucket, grants, object, store, now, io>>

\* A canned ACL in the header wins over a body.
AskedAcl(c) == IF Ask(c).acl # None THEN Ask(c).acl ELSE AclOf(Ask(c).list)
SetAcl(c) ==
    /\ stage[c] = "work" /\ Asks(c, {"PutBucketAcl"})
    /\ \/ AskedAcl(c) = "bad" /\ Answered(c, "MalformedXML") /\ UNCHANGED bucket
       \/ /\ AskedAcl(c) # "bad"
          /\ bucket' = [bucket EXCEPT ![Ask(c).bucket].acl = AskedAcl(c)]
          /\ Answered(c, "ok")
    /\ UNCHANGED <<scenario, key, policy, grants, object, store, now, io>>

\* PutBucketCors and, with no rules, DeleteBucketCors.
SetCors(c) ==
    LET cors == IF Asks(c, {"DeleteBucketCors"}) THEN <<>> ELSE Ask(c).cors IN
    /\ stage[c] = "work" /\ Asks(c, {"PutBucketCors", "DeleteBucketCors"})
    /\ \/ Asks(c, {"PutBucketCors"}) /\ ~ValidCors(cors) /\ Answered(c, "MalformedXML") /\ UNCHANGED bucket
       \/ /\ Asks(c, {"DeleteBucketCors"}) \/ ValidCors(cors)
          /\ bucket' = [bucket EXCEPT ![Ask(c).bucket].cors = cors]
          /\ Answered(c, "ok")
    /\ UNCHANGED <<scenario, key, policy, grants, object, store, now, io>>

Preflight(c) ==
    /\ stage[c] = "work" /\ Asks(c, {"Preflight"})
    /\ Answered(c, IF MatchCorsRule(got[c].row.cors, Ask(c).preflight) = None THEN "AccessDenied" ELSE "ok")
    /\ UNCHANGED <<scenario, rules, object, store, now, io>>

\* setGrant and removeGrant.
SetGrant(c) ==
    /\ stage[c] = "work" /\ Asks(c, {"SetGrant", "RemoveGrant"})
    /\ grants' = [grants EXCEPT ![Ask(c).bucket][Ask(c).to] =
                      IF Asks(c, {"RemoveGrant"}) THEN {} ELSE Ask(c).permissions]
    /\ Answered(c, "ok")
    /\ UNCHANGED <<scenario, key, bucket, policy, object, store, now, io>>

\* CreateBucket: look, insert, then set the ACL: a bucket whose ACL is refused
\* has been created all the same.
FindBucket(c) ==
    /\ stage[c] = "work" /\ Asks(c, {"CreateBucket"})
    /\ \/ Ask(c).door = "s3" /\ Anonymous(c) /\ Answered(c, "AccessDenied")
       \/ /\ Ask(c).door = "s3" /\ ~Anonymous(c)
          /\ IF Missing(Ask(c).bucket) THEN Moves(c, "insert") /\ UNCHANGED got
             ELSE Answered(c, IF bucket[Ask(c).bucket].owner = got[c].user
                              THEN "BucketAlreadyOwnedByYou" ELSE "BucketAlreadyExists")
       \/ Ask(c).door = "api" /\ Moves(c, "insert") /\ UNCHANGED got
    /\ UNCHANGED <<scenario, rules, object, store, now, io>>

\* The unique index on the name counts deleted buckets as well: a name that was
\* deleted is not found, and still taken.
InsertBucket(c) ==
    /\ stage[c] = "insert"
    /\ \/ /\ bucket[Ask(c).bucket] = None
          /\ bucket' = [bucket EXCEPT ![Ask(c).bucket] =
                            [deleted |-> FALSE, owner |-> got[c].user, acl |-> "private", cors |-> <<>>]]
          /\ IF Ask(c).door = "s3" /\ Ask(c).acl # None THEN Moves(c, "acl") /\ UNCHANGED got ELSE Answered(c, "ok")
       \/ bucket[Ask(c).bucket] # None /\ Answered(c, "BucketAlreadyExists") /\ UNCHANGED bucket
    /\ UNCHANGED <<scenario, key, policy, grants, object, store, now, io>>

AclOfNewBucket(c) ==
    /\ stage[c] = "acl"
    /\ \/ Ask(c).acl = "bad" /\ Answered(c, "InvalidArgument") /\ UNCHANGED bucket
       \/ /\ Ask(c).acl # "bad"
          /\ bucket' = [bucket EXCEPT ![Ask(c).bucket].acl = Ask(c).acl]
          /\ Answered(c, "ok")
    /\ UNCHANGED <<scenario, key, policy, grants, object, store, now, io>>

\* BucketsService.delete: the count, then the mark.
CountAndDelete(c) ==
    /\ Asks(c, {"DeleteBucket"})
    /\ \/ /\ stage[c] = "work"
          /\ IF object[Ask(c).bucket] # None THEN Answered(c, "BucketNotEmpty") ELSE Moves(c, "drop") /\ UNCHANGED got
          /\ UNCHANGED bucket
       \/ /\ stage[c] = "drop"
          /\ bucket' = [bucket EXCEPT ![Ask(c).bucket].deleted = TRUE]
          /\ Answered(c, "ok")
    /\ UNCHANGED <<scenario, key, policy, grants, object, store, now, io>>

\* The handlers that only read, and the sub-resources nobody implements.
Read(c) ==
    /\ stage[c] = "work"
    /\ Asks(c, {"ListBuckets", "ListObjects", "ListVersions", "ListUploads", "ListParts", "HeadBucket", "GetBucketLocation",
                "GetBucketVersioning", "GetBucketAcl", "GetBucketCors", "GetBucketPolicy", "Unimplemented",
                "GetBucket", "GetUsage", "ListGrants", "ListUsers", "SignIn"})
    /\ Answered(c, CASE Asks(c, {"Unimplemented"}) -> "NotImplemented"
                      [] Asks(c, {"ListBuckets"}) /\ Anonymous(c) -> "AccessDenied"
                      [] Asks(c, {"GetBucketPolicy"}) /\ Ask(c).door = "s3" /\ policy[Ask(c).bucket] = <<>> ->
                             "NoSuchBucketPolicy"
                      [] Asks(c, {"GetBucketCors"}) /\ got[c].row.cors = <<>> -> "NoSuchCORSConfiguration"
                      [] OTHER -> "ok")
    /\ UNCHANGED <<scenario, rules, object, store, now, io>>

-----------------------------------------------------------------------------
\* Access keys.

\* assertAccessible, then setStatus or delete, which find a key that is not
\* deleted or fail.
CheckKey(c) ==
    LET k == Ask(c).key IN
    /\ stage[c] = "key"
    /\ IF Ask(c).role = "admin" \/ (~key[k].deleted /\ key[k].user = got[c].user)
       THEN Moves(c, "work") /\ UNCHANGED got ELSE Answered(c, "AccessKeyNotFound")
    /\ UNCHANGED <<scenario, rules, object, store, now, io>>

ChangeKey(c) ==
    LET k == Ask(c).key IN
    /\ stage[c] = "work" /\ Asks(c, KeyCalls)
    /\ \/ key[k].deleted /\ Answered(c, "AccessKeyNotFound") /\ UNCHANGED key
       \/ /\ ~key[k].deleted
          /\ key' = IF Asks(c, {"DeleteKey"}) THEN [key EXCEPT ![k].deleted = TRUE]
                    ELSE [key EXCEPT ![k].status = Ask(c).status]
          /\ Answered(c, "ok")
    /\ UNCHANGED <<scenario, bucket, policy, grants, object, store, now, io>>

\* A mistake: keys that were switched off are looked at as well.
KeysOf(user) == {k \in KeyId : key[k].user = user /\ ~key[k].deleted /\ key[k].expiresAt > now}

\* A link is signed with the oldest key that can be used: [key, at, expires]
\* and, for the properties, the row of the key then.
SigningKeys(user) ==
    {k \in KeyId : key[k].user = user /\ key[k].status = "active" /\ ~key[k].deleted /\ key[k].expiresAt > now}
Share(c) ==
    LET usable == SigningKeys(got[c].user)
        oldest == CHOOSE k \in usable : \A l \in usable : key[k].created <= key[l].created
    IN
    /\ stage[c] = "work" /\ Asks(c, {"Share"})
    /\ \/ usable = {} /\ Answered(c, "NoUsableAccessKey")
       \/ /\ usable # {}
          /\ Moves(c, "done")
          /\ got' = [got EXCEPT ![c].answer = "ok",
                                ![c].link = [key |-> oldest, at |-> now, expires |-> Ask(c).expires, row |-> key[oldest]]]
    /\ UNCHANGED <<scenario, rules, object, store, now, io>>

-----------------------------------------------------------------------------
\* Payloads that come in.

\* payloadStream, where there is one (WellAsked), then put's look at the announced
\* length.
Begin(c) ==
    /\ stage[c] = "work" /\ Asks(c, {"PutObject"})
    /\ \/ /\ Ask(c).framing = "signed" /\ Ask(c).auth # "header"
          /\ Answered(c, "InvalidRequest") /\ UNCHANGED io
       \/ /\ Ask(c).framing # "signed" \/ Ask(c).auth = "header"
          /\ IF Ask(c).declared > MaxBytes
             THEN Answered(c, "EntityTooLarge") /\ UNCHANGED io
             ELSE /\ Moves(c, "body") /\ UNCHANGED got
                  /\ io' = [io EXCEPT ![c] = [parser |-> NewParser(Ask(c).framing = "signed"), left |-> Ask(c).wire]]
    /\ UNCHANGED <<scenario, rules, object, store, now>>

\* How write fails: the blob is deleted and the error of the parser, or of the
\* limit, is answered.
Failure(p) ==
    CASE Len(p.out) > MaxBytes -> "EntityTooLarge"
      [] p.state = "malformed" -> "IncompleteBody"
      [] p.state = "mismatch" -> "SignatureDoesNotMatch"
      [] OTHER -> "none"

\* A piece of the body arrives once the last one is dealt with.  A body without
\* framing goes through as it is.
Idle(c) == Ask(c).framing = "plain" \/ Stalled(io[c].parser)
Receive(c) ==
    LET p == io[c].parser IN
    /\ stage[c] = "body" /\ Idle(c) /\ Failure(p) = "none"
    /\ \E n \in 1 .. Len(io[c].left) :
           LET piece == SubSeq(io[c].left, 1, n)
               fed == IF Ask(c).framing = "plain" THEN [p EXCEPT !.out = @ \o piece] ELSE [p EXCEPT !.pending = @ \o piece]
           IN io' = [io EXCEPT ![c] = [parser |-> fed, left |-> From(io[c].left, n + 1)]]
    /\ UNCHANGED <<scenario, rules, object, store, now, stage, got>>

Parse(c) ==
    /\ stage[c] = "body" /\ ~Idle(c) /\ Failure(io[c].parser) = "none"
    /\ io' = [io EXCEPT ![c].parser = ConsumeOnce(@)]
    /\ UNCHANGED <<scenario, rules, object, store, now, stage, got>>

Break(c) ==
    /\ stage[c] = "body" /\ Failure(io[c].parser) # "none"
    /\ Answered(c, Failure(io[c].parser))
    /\ UNCHANGED <<scenario, rules, object, store, now, io>>

\* The end of the body, and what put checks of it.
EndBody(c) ==
    LET p == IF Ask(c).framing = "plain" THEN io[c].parser ELSE Flush(io[c].parser) IN
    /\ stage[c] = "body" /\ io[c].left = <<>> /\ Idle(c)
    /\ io' = [io EXCEPT ![c].parser = p]
    /\ \/ Failure(p) # "none" /\ Answered(c, Failure(p))
       \/ /\ Failure(p) = "none"
          /\ IF Ask(c).md5 \notin {None, p.out} THEN Answered(c, "BadDigest") ELSE Moves(c, "commit") /\ UNCHANGED got
    /\ UNCHANGED <<scenario, rules, object, store, now>>

\* The client goes away: a plain body ends in an error, but nothing ends the
\* stream that takes the framing off.
HangUp(c) ==
    /\ stage[c] = "body" /\ io[c].left # <<>>
    /\ IF Ask(c).framing = "plain" THEN Answered(c, "gone") ELSE Moves(c, "hung") /\ UNCHANGED got
    /\ UNCHANGED <<scenario, rules, object, store, now, io>>

\* The blob is written under a counter of its own, or in the clear.
Stored(iv, out, time) ==
    [iv |-> iv, bytes |-> IF iv = <<>> THEN InTheClear(out) ELSE Encrypted(iv, out), etag |-> out, at |-> time]
CommitObject(c) ==
    LET out == IF Asks(c, {"CopyObject"}) THEN io[c].out ELSE io[c].parser.out IN
    /\ stage[c] = "commit"
    /\ object' = [object EXCEPT ![Ask(c).bucket] = Stored(Ask(c).iv, out, now)]
    /\ IF Asks(c, {"CopyObject"}) /\ Ask(c).move THEN Moves(c, "take") /\ UNCHANGED got ELSE Answered(c, "ok")
    /\ UNCHANGED <<scenario, rules, store, now, io>>

\* CopyObject reads the source through and writes it again.
CopyObject(c) ==
    LET source == object[Ask(c).from] IN
    /\ stage[c] = "work" /\ Asks(c, {"CopyObject"})
    /\ \/ source = None /\ Answered(c, "NoSuchKey") /\ UNCHANGED io
       \/ /\ source # None
          /\ io' = [io EXCEPT ![c] = [out |-> ReadChunk(source, OpenBlob(source, NoRange), Len(source.bytes)).out]]
          /\ Moves(c, "commit") /\ UNCHANGED got
    /\ UNCHANGED <<scenario, rules, object, store, now>>

\* DeleteObject, and the end of a move.
DeleteObject(c) ==
    /\ \/ stage[c] = "work" /\ Asks(c, {"DeleteObject"})
       \/ stage[c] = "take"
    /\ object' = [object EXCEPT ![IF stage[c] = "take" THEN Ask(c).from ELSE Ask(c).bucket] = None]
    /\ Answered(c, "ok")
    /\ UNCHANGED <<scenario, rules, store, now, io>>

-----------------------------------------------------------------------------
\* Payloads that go out.

\* assertConditions.
Named(etags, etag) == Anyone \in etags \/ etag \in etags
Precondition(conditions, etag, at) ==
    CASE conditions.match # None /\ ~Named(conditions.match, etag) -> "PreconditionFailed"
      [] conditions.unmodified # None /\ at > conditions.unmodified -> "PreconditionFailed"
      [] conditions.noneMatch # None -> IF Named(conditions.noneMatch, etag) THEN "NotModified" ELSE "ok"
      [] conditions.modified # None /\ at <= conditions.modified -> "NotModified"
      [] OTHER -> "ok"

\* What getVersion, the conditions, the range and the opening of the file say.
\* The end -1 that a suffix range has in an empty object is refused by the file
\* system's API; HeadObject does not get that far.
Verdict(c, range) ==
    LET found == object[Ask(c).bucket] IN
    CASE found = None -> "NoSuchKey"
      [] Precondition(Ask(c).conditions, found.etag, found.at) # "ok" ->
             Precondition(Ask(c).conditions, found.etag, found.at)
      [] range = Unsatisfiable -> "InvalidRange"
      [] Asks(c, {"GetObject"}) /\ ~range.whole /\ range.end < 0 -> "InternalError"
      [] OTHER -> "ok"

Open(c) ==
    LET found == object[Ask(c).bucket]
        range == IF found = None THEN NoRange ELSE ParseRange(Ask(c).range, Len(found.etag))
    IN
    /\ stage[c] = "work" /\ Asks(c, {"GetObject", "HeadObject"})
    /\ IF Asks(c, {"HeadObject"}) \/ Verdict(c, range) # "ok"
       THEN Answered(c, Verdict(c, range)) /\ UNCHANGED io
       ELSE /\ io' = [io EXCEPT ![c] = [blob |-> found, read |-> OpenBlob(found, range)]]
            /\ Moves(c, "sending") /\ UNCHANGED got
    /\ UNCHANGED <<scenario, rules, object, store, now>>

\* The file is read in pieces of any size, up to the end of the range.
SendPiece(c) ==
    LET r == io[c].read IN
    /\ stage[c] = "sending"
    /\ \/ \E n \in 1 .. r.end + 1 - r.position :
             /\ io' = [io EXCEPT ![c].read = ReadChunk(io[c].blob, @, n)]
             /\ UNCHANGED <<stage, got>>
       \/ r.position > r.end /\ Answered(c, "ok") /\ UNCHANGED io
    /\ UNCHANGED <<scenario, rules, object, store, now>>

-----------------------------------------------------------------------------
\* What the properties remember: the needs that the policy of their bucket has
\* denied ever since the call was sent, and whether anything that decides has
\* changed since.

TrueIds(c) == IF Ask(c).auth = "none" THEN {} ELSE {Signed(c).key, key[Signed(c).key].user}
DeniedNow(c) ==
    {i \in DOMAIN NeedsOf(c) :
        /\ Ask(c).door = "s3" /\ (Ask(c).auth = "none" \/ Signed(c).key \in KeyId)
        /\ LET document == policy[NeedsOf(c)[i].bucket] IN
           \E j \in Matching(document, PolicyRequest(c, NeedsOf(c)[i], TrueIds(c), now)) : document[j].effect = "Deny"}

Remember ==
    /\ denied' = [c \in Caller |->
           IF stage'[c] = "unsent" THEN {}
           ELSE IF stage[c] = "unsent" THEN DeniedNow(c)' ELSE denied[c] \cap DeniedNow(c)']
    /\ steady' = [c \in Caller |->
           stage'[c] # "unsent" /\ (stage[c] = "unsent" \/ (steady[c] /\ <<rules, now>>' = <<rules, now>>))]

Tick ==
    /\ now < MaxTime
    /\ now' = now + 1
    /\ UNCHANGED <<scenario, rules, object, store, call>>

-----------------------------------------------------------------------------
Init ==
    /\ \E i \in DOMAIN Starts : scenario = Starts[i]
    /\ key = scenario.key
    /\ bucket = scenario.bucket
    /\ policy = scenario.policy
    /\ grants = scenario.grants
    /\ object = [b \in Bucket |-> IF scenario.object[b] = None THEN None
                                  ELSE Stored(scenario.object[b].iv, scenario.object[b].plain, 0)]
    /\ counter = <<>> /\ up = TRUE /\ available = TRUE /\ outages = 0
    /\ now = 0
    /\ stage = [c \in Caller |-> "unsent"]
    /\ got = [c \in Caller |-> [at |-> 0, user |-> None, key |-> None, counted |-> None, row |-> None,
                                need |-> 1, answer |-> None, link |-> None]]
    /\ io = [c \in Caller |-> None]
    /\ denied = [c \in Caller |-> {}]
    /\ steady = [c \in Caller |-> FALSE]

\* What the applications do by themselves; time, clients and Valkey are others.
Decide(c) ==
    Guard(c) \/ PassUncounted(c) \/ Increment(c) \/ Arm(c) \/ ReadRow(c) \/ EvaluatePolicy(c) \/ ReadOwner(c) \/ ReadGrant(c)
Work(c) ==
    \/ SetPolicy(c) \/ DeletePolicy(c) \/ SetAcl(c) \/ SetCors(c) \/ Preflight(c) \/ SetGrant(c)
    \/ FindBucket(c) \/ InsertBucket(c) \/ AclOfNewBucket(c) \/ CountAndDelete(c) \/ Read(c)
    \/ CheckKey(c) \/ ChangeKey(c) \/ Share(c)
    \/ Begin(c) \/ Receive(c) \/ Parse(c) \/ Break(c) \/ EndBody(c) \/ CommitObject(c) \/ CopyObject(c)
    \/ DeleteObject(c) \/ Open(c) \/ SendPiece(c)
Run == \E c \in Caller : (Decide(c) \/ Work(c)) /\ Remember

Others == (Tick \/ LoseStore \/ RestoreStore \/ Notice \/ \E c \in Caller : Send(c) \/ HangUp(c)) /\ Remember

Next == Run \/ Others
Spec == Init /\ [][Next]_vars
FairSpec == Spec /\ WF_vars(Run)

-----------------------------------------------------------------------------
\* Properties.

Stages == {"unsent", "guard", "limit", "arm", "row", "policy", "owner", "grant", "key", "work", "insert", "acl", "drop",
           "body", "commit", "take", "sending", "hung", "done"}

\* Every stored document passed validate, every ACL is a canned one, a decision
\* has looked at no more than the needs there are, a call that works for a caller
\* with a key knows whose it is, and a read stays inside its file.
TypeOK ==
    /\ \A b \in Bucket :
          /\ ValidDocument(policy[b]) /\ grants[b] \in [User -> SUBSET Permission]
          /\ bucket[b] # None => bucket[b].acl \in Acls /\ bucket[b].owner \in User
    /\ \A at \in DOMAIN counter : counter[at] \in Nat \ {0}
    /\ outages \in 0 .. MaxOutages /\ now \in 0 .. MaxTime
    /\ \A c \in Caller :
          /\ stage[c] \in Stages /\ got[c].user \in User \cup {None} /\ got[c].key \in KeyId \cup {None}
          /\ got[c].need \in 1 .. Len(NeedsOf(c)) + 1
          /\ got[c].key # None => got[c].user = key[got[c].key].user
          /\ stage[c] = "sending" =>
                io[c].read.position \in 0 .. Len(io[c].blob.bytes) /\ io[c].read.skip \in 0 .. Block - 1

\* "An explicit Deny ends the request" (authorize, evaluate): a call does not get
\* past a need that the policy of the bucket has denied from the moment the call
\* was sent, whatever order the rows are read in and whoever replaces the
\* document meanwhile by another that denies it too.
DeniesHold == \A c \in Caller : \A n \in denied[c] : got[c].need <= n

\* What a bucket, its grants and its policy give a caller, read off at one moment.
Opens == [private |-> {}, publicRead |-> {"read"}, publicReadWrite |-> Permission \ {"manage"},
          authenticatedRead |-> {"read"}]
Says(c, n, effect) ==
    \E s \in {policy[n.bucket][i] : i \in DOMAIN policy[n.bucket]} :
        s.effect = effect /\ Matches(s, PolicyRequest(c, n, Ids(c), now))
Owns(c, b) == ~Anonymous(c) /\ got[c].user = bucket[b].owner
Entitled(c, n) ==
    LET granted == IF Anonymous(c) THEN {} ELSE grants[n.bucket][got[c].user]
        opened == IF Anonymous(c) /\ bucket[n.bucket].acl = "authenticatedRead" THEN {} ELSE Opens[bucket[n.bucket].acl]
    IN
    \/ Owns(c, n.bucket)
    \/ PermissionFor(c, n) \in granted
    \/ Ask(c).door = "s3" /\ PermissionFor(c, n) \in opened
    \/ Ask(c).door = "api" /\ Ask(c).role = "admin"
Permitted(c, n) ==
    IF Ask(c).door = "api" THEN Entitled(c, n)
    ELSE ~Says(c, n, "Deny") /\ (Says(c, n, "Allow") \/ Entitled(c, n))

\* authorize and hasPermission read the row, the policy, the row again and the
\* grant at four moments.  As long as nobody changes any of them they let a call
\* through exactly when policy, ownership, grants and ACL permit it.
UndisturbedDecisions ==
    \A c \in Caller : steady[c] =>
        /\ \A n \in 1 .. got[c].need - 1 : Permitted(c, NeedsOf(c)[n])
        /\ NeedsOf(c) # <<>> /\ got[c].answer \in {"AccessDenied", "NoSuchBucket"} =>
               Missing(Need(c).bucket) \/ ~Permitted(c, Need(c))

\* presign "is the mirror image of verifyPresigned": the guard turns a shared link
\* away only when it has run out, or when its key was changed or has expired since
\* the link was signed.
LinksOpen ==
    [][\A c \in Caller :
          (stage[c] = "guard" /\ stage'[c] = "done" /\ Ask(c).opens # None) =>
              LET link == Signed(c) IN
              \/ now > link.at + link.expires
              \/ key[link.key] # link.row
              \/ now > key[link.key].expiresAt]_vars

\* consume and the guard before it: a window lets at most Budget calls of a subject
\* through that were counted, only calls that were really signed with a key use up
\* the budget of that key, and only calls without a key or a session that of an
\* address.
BudgetsHold ==
    \A c \in Caller : got[c].counted # None =>
        /\ Cardinality({d \in Caller : got[d].counted = got[c].counted /\ got[d].answer # "SlowDown"}) <= Budget
        /\ got[c].counted[1] \in KeyId => Ask(c).auth # "none" /\ Ask(c).genuine
        /\ got[c].counted[1] = Ask(c).address => got[c].user = None

\* S3ChunkedStream: however the body is cut into pieces, what is stored is what the
\* client meant: whatever was done to the body when its chunks are signed, and
\* otherwise unless it was changed where nothing tells.  A body that arrives whole
\* and fits is stored, unless the client hangs up.
PayloadsSurviveFraming ==
    \A c \in Caller : Asks(c, {"PutObject"}) /\ stage[c] \in {"commit", "done"} /\ io[c] # None =>
        LET meant == Plain(Ask(c).chunks) IN
        /\ got[c].answer \in {None, "ok"} /\ (Ask(c).framing # "unsigned" \/ Ask(c).sent # "altered") =>
               io[c].parser.out = meant
        /\ Ask(c).sent = "whole" /\ Len(meant) <= MaxBytes /\ Ask(c).md5 \in {None, meant} =>
               got[c].answer \in {None, "ok", "gone"}

\* StorageService.read and the cipher: what a GET or a copy hands out is the part
\* of the payload that was asked for, wherever the range starts in a cipher block,
\* whatever the counter began at and however the file is read.
Wanted(range, size) ==
    CASE range.form = "none" -> 1 .. size
      [] range.form = "suffix" -> {p \in 1 .. size : p > size - range.last}
      [] range.form = "from" -> {p \in 1 .. size : p > range.first}
      [] OTHER -> {p \in 1 .. size : p > range.first /\ p <= range.last + 1}
RangesReadTheirSlice ==
    \A c \in Caller :
        /\ Asks(c, {"GetObject"}) /\ got[c].answer = "ok" =>
               LET plain == io[c].blob.etag
                   wanted == Wanted(Ask(c).range, Len(plain))
                   first == CHOOSE p \in wanted : \A q \in wanted : p <= q
               IN io[c].read.out = IF wanted = {} THEN <<>> ELSE SubSeq(plain, first, first + Cardinality(wanted) - 1)
        /\ Asks(c, {"CopyObject"}) /\ io[c] # None => \A i \in DOMAIN io[c].out : io[c].out[i] # Garbage

\* Every request is answered, whatever the others do, except one: an upload with
\* framing whose client hangs up stays in the storage for good.
RequestsEnd ==
    <>[](\A c \in Caller : stage[c] \in {"unsent", "done"} \/ (stage[c] = "hung" /\ Ask(c).framing # "plain"))

=============================================================================
