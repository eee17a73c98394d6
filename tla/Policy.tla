------------------------------- MODULE Policy -------------------------------
(***************************************************************************)
(* Who may do what: bucket policies, canned ACLs, ownership and grants, as *)
(* PoliciesService, BucketsService and S3AuthorizationService decide it.   *)
(*                                                                         *)
(* A pattern of a statement (an action, a resource, a CIDR block, a        *)
(* StringLike value, a CORS origin) is the set of the values it matches.   *)
(* What a request says of itself is a record [action, resource, ids,       *)
(* context]: its ids are the user guid and the access key id, none of them *)
(* when it is anonymous, and a context key holds a set of values, the      *)
(* empty set when the request does not carry it.                           *)
(***************************************************************************)
EXTENDS Integers, Sequences, FiniteSets

CONSTANTS None,      \* no principal, no rule
          Anyone     \* the principal "*"

-----------------------------------------------------------------------------
\* Bucket policies.

\* A missing value satisfies these and fails the others.
Negated == {"NotEquals"}

\* The conditions the evaluator knows, on the candidate values of one key.
\* "Equals" stands for the string, ARN, boolean and address operators, which
\* ask for one candidate that matches, and "NotEquals" for their negations.
Compare(c, values) ==
    CASE c.base = "Equals" -> \E v \in values : v \in c.expected
      [] c.base = "NotEquals" -> \A v \in values : v \notin c.expected
      [] c.base = "NumericNotEquals" -> c.expected # {} /\ \E v \in values : \A e \in c.expected : v # e
      [] c.base = "LessThan" -> \E v \in values, e \in c.expected : v < e
      [] c.base = "GreaterThanEquals" -> \E v \in values, e \in c.expected : v >= e
      [] OTHER -> FALSE

Holds(c, values) ==
    IF c.base = "Null" THEN \E flag \in c.expected : (flag = "true") = (values = {})
    ELSE IF values = {} THEN c.ifExists \/ c.base \in Negated
    ELSE Compare(c, values)

MatchesConditions(s, r) == \A i \in DOMAIN s.condition : Holds(s.condition[i], r.context[s.condition[i].key])

MatchesPrincipal(s, r) == s.principal \in {None, Anyone} \/ s.principal \cap r.ids # {}

MatchesAction(s, r) == r.action \in s.action \ s.notAction

MatchesResource(s, r) == r.resource \in s.resource \ s.notResource

Matches(s, r) ==
    /\ MatchesPrincipal(s, r)
    /\ MatchesAction(s, r)
    /\ MatchesResource(s, r)
    /\ MatchesConditions(s, r)

Matching(document, r) == {i \in DOMAIN document : Matches(document[i], r)}

\* A mistake: the first statement that matches decides.
EvaluateFirst(document, r) ==
    LET matching == Matching(document, r) IN
    IF matching = {} THEN "notApplicable"
    ELSE IF document[CHOOSE i \in matching : \A j \in matching : i <= j].effect = "Deny" THEN "deny" ELSE "allow"

\* The loop returns at the first Deny and remembers an Allow.
Evaluate(document, r) ==
    IF \E i \in Matching(document, r) : document[i].effect = "Deny" THEN "deny"
    ELSE IF Matching(document, r) # {} THEN "allow"
    ELSE "notApplicable"

\* validate: what PutBucketPolicy stores. A statement that lacks an action, a
\* resource or a well-formed condition has None there.
ValidDocument(document) ==
    \A i \in DOMAIN document :
        /\ document[i].effect \in {"Allow", "Deny"}
        /\ None \notin {document[i].action, document[i].resource, document[i].condition}

-----------------------------------------------------------------------------
\* Ownership, grants, canned ACLs.

Permission == {"read", "write", "delete", "manage"}

\* ACTION_PERMISSIONS.
Needs(action) ==
    CASE action \in {"putObject", "abortMultipartUpload"} -> "write"
      [] action \in {"deleteObject", "deleteObjectVersion"} -> "delete"
      [] action \in {"getObject", "getObjectVersion", "listBucket", "listBucketVersions", "getBucketCors",
                     "getBucketLocation", "getBucketVersioning", "listBucketMultipartUploads",
                     "listMultipartUploadParts"} -> "read"
      [] OTHER -> "manage"

\* A mistake: a canned ACL that lets the bucket be managed.
AllowedByAclAlone(acl, permission, anonymous) ==
    \/ acl = "publicReadWrite"
    \/ acl = "publicRead" /\ permission = "read"
    \/ acl = "authenticatedRead" /\ permission = "read" /\ ~anonymous

\* allowedByAcl.
AllowedByAcl(acl, permission, anonymous) ==
    /\ permission # "manage"
    /\ \/ acl = "publicReadWrite"
       \/ acl = "publicRead" /\ permission = "read"
       \/ acl = "authenticatedRead" /\ permission = "read" /\ ~anonymous

\* The ACL parseAccessControlPolicy reduces a list of grants to groups to, "bad"
\* when it refuses the list. A grant to a user has no group and is passed over.
AclOf(list) ==
    LET Gives(group, kinds) == \E g \in list : g.group = group /\ g.permission \in kinds \cup {"FULL_CONTROL"} IN
    IF \/ \E g \in list : g.group \notin {"none", "allUsers", "authenticatedUsers"}
       \/ Gives("authenticatedUsers", {"WRITE"}) THEN "bad"
    ELSE IF Gives("allUsers", {"WRITE"}) THEN "publicReadWrite"
    ELSE IF Gives("allUsers", {"READ"}) THEN "publicRead"
    ELSE IF Gives("authenticatedUsers", {"READ"}) THEN "authenticatedRead"
    ELSE "private"

-----------------------------------------------------------------------------
\* Cross-origin rules: the first one that allows origin, method and headers.

AllowsCors(rule, ask) ==
    /\ ask.origin \in rule.origins
    /\ ask.method \in rule.methods
    /\ ask.headers \subseteq rule.headers

MatchCorsRule(cors, ask) ==
    LET found == {i \in DOMAIN cors : AllowsCors(cors[i], ask)} IN
    IF found = {} THEN None ELSE cors[CHOOSE i \in found : \A j \in found : i <= j]

\* setCors refuses an empty configuration and a rule without origins or methods.
ValidCors(cors) == cors # <<>> /\ \A i \in DOMAIN cors : cors[i].origins # {} /\ cors[i].methods # {}

=============================================================================
