--------------------------- MODULE Requests_proofs ---------------------------
(***************************************************************************)
(* What holds of any number of callers, keys, buckets and bytes: calls     *)
(* know whose they are, a decision looks at rows that there are, what is   *)
(* read is what was stored.                                                *)
(***************************************************************************)
EXTENDS Requests, Payload_proofs

Early == {"unsent", "guard", "limit", "arm"}
Deciding == {"row", "policy", "owner", "grant"}
Working == {"key", "work", "insert", "acl", "drop", "body", "commit", "take", "sending"}

\* The tables, the clock and the counters.
Tables ==
    /\ key \in [KeyId -> KeyRow]
    /\ bucket \in [Bucket -> BucketRow \cup {None}]
    /\ DOMAIN policy = Bucket /\ \A b \in Bucket : ValidDocument(policy[b])
    /\ grants \in [Bucket -> [User -> SUBSET Permission]]
    /\ DOMAIN object = Bucket /\ \A b \in Bucket : object[b] # None => BlobOf(object[b], object[b].etag)
Rows ==
    /\ \E i \in DOMAIN Starts : scenario = Starts[i]
    /\ Tables
    /\ \A at \in DOMAIN counter : counter[at] \in Nat \ {0}
    /\ outages \in 0 .. MaxOutages /\ now \in 0 .. MaxTime
    /\ stage \in [Caller -> Stages] /\ DOMAIN got = Caller /\ DOMAIN io = Caller

IsGot(g) ==
    g \in [at : Nat, user : User \cup {None}, key : KeyId \cup {None}, counted : {g.counted},
           row : BucketRow \cup {None}, need : Nat \ {0}, answer : {g.answer}, link : Link \cup {None}]

\* Whose call it is, and what became of the links.
Identified(c) ==
    /\ IsGot(got[c])
    /\ stage[c] = "guard" => Ask(c).door = "s3"
    /\ stage[c] = "unsent" \/ stage[c] = "guard" => got[c].key = None /\ got[c].user = None
    /\ got[c].key # None =>
          /\ got[c].user = key[got[c].key].user
          /\ Ask(c).auth # "none" /\ Ask(c).genuine /\ Ask(c).door = "s3"
    /\ Ask(c).door = "s3" /\ got[c].key = None => got[c].user = None
    /\ Ask(c).door = "api" /\ stage[c] # "unsent" => got[c].user = Ask(c).user
    /\ Ask(c).door = "s3" /\ stage[c] \notin {"unsent", "guard", "done"} =>
          IF Ask(c).auth = "none" THEN got[c].key = None /\ got[c].user = None
          ELSE got[c].key # None /\ got[c].key = Signed(c).key
    /\ stage[c] # "unsent" /\ Ask(c).opens # None => got[Ask(c).opens].link # None
    /\ got[c].link # None =>
          /\ stage[c] = "done" /\ Asks(c, {"Share"}) /\ got[c].link.expires = Ask(c).expires
          /\ got[c].link.row.status = "active" /\ ~got[c].link.row.deleted
    /\ stage[c] # "done" => got[c].answer = None

\* How far its decisions have come.
Decided(c) ==
    /\ got[c].need =< Len(NeedsOf(c)) + 1
    /\ stage[c] \in Early => got[c].need = 1
    /\ stage[c] = "row" => Asks(c, {"Preflight"}) \/ got[c].need =< Len(NeedsOf(c))
    /\ stage[c] \in {"policy", "owner", "grant"} =>
          /\ got[c].need =< Len(NeedsOf(c))
          /\ got[c].row \in BucketRow /\ bucket[Need(c).bucket] # None
    /\ stage[c] = "policy" => Ask(c).door = "s3"
    /\ stage[c] \in {"owner", "grant"} => got[c].user \in User
    /\ stage[c] = "grant" => Ask(c).door = "s3" \/ Ask(c).role # "admin"
    /\ stage[c] \in Working => got[c].need = Len(NeedsOf(c)) + 1
    /\ stage[c] = "key" => Asks(c, KeyCalls)
    /\ \A n \in 1 .. got[c].need - 1 : bucket[NeedsOf(c)[n].bucket] # None

\* What its handler holds.
Sends(c) ==
    \E start \in Nat :
        /\ BlobOf(io[c].blob, io[c].blob.etag)
        /\ Reading(io[c].blob, io[c].blob.etag, start, io[c].read)
        /\ Wanted(Ask(c).range, Len(io[c].blob.etag)) = start + 1 .. io[c].read.end + 1
        /\ io[c] \in [blob : {io[c].blob}, read : {io[c].read}]

SliceSent(c) ==
    LET plain == io[c].blob.etag
        wanted == Wanted(Ask(c).range, Len(plain))
        first == CHOOSE p \in wanted : \A q \in wanted : p <= q
    IN io[c].read.out = IF wanted = {} THEN <<>> ELSE SubSeq(plain, first, first + Cardinality(wanted) - 1)

Holding(c) ==
    /\ stage[c] = "insert" => got[c].user \in User
    /\ stage[c] = "acl" => Ask(c).acl # None /\ bucket[Ask(c).bucket] # None
    /\ stage[c] \in {"insert", "acl"} => Asks(c, {"CreateBucket"})
    /\ stage[c] = "take" => Asks(c, {"CopyObject"})
    /\ stage[c] = "body" =>
          /\ Asks(c, {"PutObject"}) /\ Parser(io[c].parser) /\ io[c].left \in Seq(Symbol)
          /\ io[c] \in [parser : {io[c].parser}, left : {io[c].left}]
    /\ stage[c] = "commit" =>
          \/ Asks(c, {"PutObject"}) /\ Parser(io[c].parser)
          \/ Asks(c, {"CopyObject"}) /\ io[c].out \in Seq(Symbol)
    /\ Asks(c, {"CopyObject"}) /\ io[c] # None => io[c].out \in Seq(Symbol)
    /\ stage[c] = "sending" => Asks(c, {"GetObject"}) /\ Sends(c)
    /\ Asks(c, {"GetObject"}) /\ got[c].answer = "ok" => SliceSent(c)

TypeInv == Rows /\ \A c \in Caller : Identified(c) /\ Decided(c) /\ Holding(c)

\* What is denied is still denied, and the policy has been asked about the need in
\* hand before its owner and its grant are.
Denials ==
    /\ \A c \in Caller : IF stage[c] = "unsent" THEN denied[c] = {} ELSE denied[c] \subseteq DeniedNow(c)
    /\ \A c \in Caller : stage[c] \in {"owner", "grant"} => got[c].need \notin denied[c]
    /\ DeniesHold

\* As long as nothing changes, what was read is what there is.
Undisturbed(c) ==
    /\ \A n \in 1 .. got[c].need - 1 : Permitted(c, NeedsOf(c)[n])
    /\ NeedsOf(c) # <<>> /\ got[c].answer \in {"AccessDenied", "NoSuchBucket"} =>
           Missing(Need(c).bucket) \/ ~Permitted(c, Need(c))
    /\ stage[c] \in {"policy", "owner", "grant"} =>
           ~Missing(Need(c).bucket) /\ got[c].row = bucket[Need(c).bucket]
    /\ stage[c] \in {"owner", "grant"} /\ Ask(c).door = "s3" =>
           ~Says(c, Need(c), "Deny") /\ ~Says(c, Need(c), "Allow")
    /\ stage[c] = "grant" => bucket[Need(c).bucket].owner # got[c].user
Steadiness == \A c \in Caller : steady[c] => stage[c] # "unsent" /\ Undisturbed(c)

\* Who was let through on the count of a window.
Admitted(at) == {d \in Caller : got[d].counted = at /\ got[d].answer # "SlowDown"}
Counted ==
    /\ \A at \in DOMAIN counter \ {None} :
          Cardinality(Admitted(at)) =< counter[at] /\ Cardinality(Admitted(at)) =< Budget
    /\ \A c \in Caller :
          /\ got[c].counted # None => got[c].counted \in DOMAIN counter /\ got[c].counted[1] = SubjectOf(c)
          /\ stage[c] \in {"unsent", "guard", "limit"} => got[c].counted = None

-----------------------------------------------------------------------------
\* Every caller asks for something that the controllers let through.
LEMMA AskedWell ==
  ASSUME Rows, NEW c \in Caller
  PROVE  WellAsked(scenario.ask, c)
<1>1. PICK i \in DOMAIN Starts : scenario = Starts[i]
  BY DEF Rows
<1> QED BY <1>1, StartsAssumption

\* Which calls there are at which door.
LEMMA CallsAreListed ==
  /\ {"Preflight", "CreateBucket", "ListBuckets", "CopyObject", "Unimplemented", "nothing"} \cap DOMAIN ActionOf = {}
  /\ {"CreateBucket", "ListBuckets", "CopyObject", "SignIn", "nothing"} \cap DOMAIN PermissionOf = {}
  /\ KeyCalls \cap DOMAIN PermissionOf = {}
  /\ {"GetObject", "HeadObject", "PutObject", "DeleteObject", "PutBucketAcl", "PutBucketCors", "DeleteBucketCors",
      "PutBucketPolicy", "DeleteBucketPolicy", "DeleteBucket"} \subseteq DOMAIN ActionOf
  /\ {"PutBucketAcl", "DeleteBucket", "GetObject", "PutObject", "DeleteObject", "SetGrant", "RemoveGrant",
      "PutBucketPolicy", "DeleteBucketPolicy", "Share"} \subseteq DOMAIN PermissionOf
  /\ {"PutBucketCors", "DeleteBucketCors", "HeadObject", "Preflight", "Unimplemented"} \cap DOMAIN PermissionOf = {}
  /\ ({"SetGrant", "RemoveGrant", "Share"} \cup KeyCalls) \cap DOMAIN ActionOf = {}
<1>3. DOMAIN PermissionOf = {"ListObjects", "ListVersions", "PutObject", "GetObject", "DeleteObject", "Share", "GetBucket",
         "DeleteBucket", "PutBucketAcl", "GetUsage", "ListGrants", "ListUsers", "SetGrant", "RemoveGrant",
         "GetBucketPolicy", "PutBucketPolicy", "DeleteBucketPolicy"}
  BY DEF PermissionOf, ObjectPermissions, SharePermission, BucketPermissions, GrantPermissions, PolicyPermissions
<1>4. DOMAIN ActionOf = {"GetObject", "HeadObject", "PutObject", "DeleteObject", "ListObjects", "ListVersions",
         "ListUploads", "ListParts", "HeadBucket", "GetBucketLocation", "GetBucketVersioning", "GetBucketAcl",
         "GetBucketCors", "GetBucketPolicy", "PutBucketAcl", "PutBucketPolicy", "DeleteBucketPolicy", "PutBucketCors",
         "DeleteBucketCors", "DeleteBucket"}
  BY DEF ActionOf
<1> QED BY <1>3, <1>4 DEF KeyCalls

\* What a call needs is about buckets, two at most, the same at every step.
LEMMA NeedsKnown ==
  ASSUME Rows, NEW c \in Caller
  PROVE  /\ Len(NeedsOf(c)) \in 0 .. 2
         /\ DOMAIN NeedsOf(c) = 1 .. Len(NeedsOf(c))
         /\ \A n \in 1 .. Len(NeedsOf(c)) : NeedsOf(c)[n].bucket \in Bucket
         /\ (NeedsOf(c) = <<>>) <=> (Len(NeedsOf(c)) = 0)
<1>1. WellAsked(scenario.ask, c)
  BY AskedWell
<1>2. Ask(c).bucket \in Bucket /\ Ask(c).from \in Bucket
  BY <1>1 DEF WellAsked, Ask
<1>3. \A b, a : OnBucket(b, a).bucket = b
  BY DEF OnBucket
<1>4. CASE Asks(c, {"CopyObject"})
  <2>1. PICK x, y : NeedsOf(c) = <<x, y>> /\ x.bucket \in Bucket /\ y.bucket \in Bucket
    BY <1>2, <1>3, <1>4 DEF NeedsOf, CopyNeeds
  <2> QED BY <2>1
<1>5. CASE ~ Asks(c, {"CopyObject"})
  <2>1. NeedsOf(c) = <<>> \/ \E x : NeedsOf(c) = << x >> /\ x.bucket \in Bucket
    <3> DEFINE needed == IF Ask(c).door = "s3" THEN ActionOf ELSE PermissionOf
    <3>1. NeedsOf(c) = IF Ask(c).op \notin DOMAIN needed THEN <<>> ELSE << OnBucket(Ask(c).bucket, needed[Ask(c).op]) >>
      BY <1>5 DEF NeedsOf
    <3> HIDE DEF needed
    <3> QED BY <1>2, <1>3, <3>1
  <2>2. CASE NeedsOf(c) = <<>>
    BY <2>2
  <2>3. CASE \E x : NeedsOf(c) = << x >> /\ x.bucket \in Bucket
    <3>1. PICK x : NeedsOf(c) = << x >> /\ x.bucket \in Bucket
      BY <2>3
    <3> QED BY <3>1
  <2> QED BY <2>1, <2>2, <2>3
<1> QED BY <1>4, <1>5

\* Which handlers work on a bucket that was looked at, and which on none.
LEMMA NeedsOfHandlers ==
  ASSUME Rows, NEW c \in Caller
  PROVE  /\ Asks(c, {"Preflight", "CreateBucket", "ListBuckets", "SignIn", "Unimplemented"} \cup KeyCalls) => NeedsOf(c) = <<>>
         /\ Asks(c, {"PutBucketAcl", "PutBucketCors", "DeleteBucketCors", "DeleteBucket"}) =>
              Len(NeedsOf(c)) = 1 /\ NeedsOf(c)[1].bucket = Ask(c).bucket
         /\ Asks(c, {"Preflight", "Unimplemented", "PutBucketCors", "DeleteBucketCors"}) => Ask(c).door = "s3"
         /\ Asks(c, {"SetGrant", "RemoveGrant", "Share", "SignIn"} \cup KeyCalls) => Ask(c).door = "api"
<1>1. WellAsked(scenario.ask, c)
  BY AskedWell
<1>2. \/ Ask(c).door = "s3" /\ Ask(c).op \in EndpointCalls
      \/ Ask(c).door = "api" /\ Ask(c).op \in ApiCalls
  BY <1>1 DEF WellAsked, Ask
<1>3. Asks(c, {"Preflight", "Unimplemented", "PutBucketCors", "DeleteBucketCors"}) => Ask(c).door = "s3"
  BY <1>2, CallsAreListed DEF Asks, ApiCalls, CommonCalls
<1>4. Asks(c, {"SetGrant", "RemoveGrant", "Share", "SignIn"} \cup KeyCalls) => Ask(c).door = "api"
  <2>1. "SignIn" \notin DOMAIN ActionOf
    BY DEF ActionOf
  <2> QED BY <1>2, <2>1, CallsAreListed DEF Asks, EndpointCalls, CommonCalls, KeyCalls
<1>5. Asks(c, {"Preflight", "CreateBucket", "ListBuckets", "SignIn", "Unimplemented"} \cup KeyCalls) => NeedsOf(c) = <<>>
  <2> HAVE Asks(c, {"Preflight", "CreateBucket", "ListBuckets", "SignIn", "Unimplemented"} \cup KeyCalls)
  <2>1. ~ Asks(c, {"CopyObject"})
    BY DEF Asks, KeyCalls
  <2>2. Ask(c).op \notin DOMAIN (IF Ask(c).door = "s3" THEN ActionOf ELSE PermissionOf)
    BY <1>2, <1>3, <1>4, CallsAreListed DEF Asks, KeyCalls
  <2> QED BY <2>1, <2>2 DEF NeedsOf
<1>6. ASSUME Asks(c, {"PutBucketAcl", "PutBucketCors", "DeleteBucketCors", "DeleteBucket"})
      PROVE  Len(NeedsOf(c)) = 1 /\ NeedsOf(c)[1].bucket = Ask(c).bucket
  <2>1. ~ Asks(c, {"CopyObject"})
    BY <1>6 DEF Asks
  <2>2. Ask(c).op \in DOMAIN (IF Ask(c).door = "s3" THEN ActionOf ELSE PermissionOf)
    BY <1>2, <1>3, <1>6, CallsAreListed DEF Asks
  <2> DEFINE a == (IF Ask(c).door = "s3" THEN ActionOf ELSE PermissionOf)[Ask(c).op]
  <2>3. NeedsOf(c) = << [bucket |-> Ask(c).bucket, action |-> a] >>
    BY <2>1, <2>2 DEF NeedsOf, OnBucket
  <2> HIDE DEF a
  <2> QED BY <2>3
<1> QED BY <1>3, <1>4, <1>5, <1>6

\* The key a link is signed with: among finitely many there is an oldest.
LEMMA OldestExists ==
  ASSUME NEW S, IsFiniteSet(S), S # {}, NEW age, \A x \in S : age[x] \in Int
  PROVE  \E x \in S : \A y \in S : age[x] =< age[y]
<1> DEFINE Has(U) == \E x \in U : \A y \in U : age[x] =< age[y]
           T == {n \in Nat : \A U \in SUBSET S : U # {} /\ Cardinality(U) = n => Has(U)}
<1>0. \A U \in SUBSET S : IsFiniteSet(U) /\ Cardinality(U) \in Nat
  BY FS_Subset, FS_CardinalityType
<1>1. 0 \in T
  BY <1>0, FS_EmptySet
<1>2. ASSUME NEW n \in Nat, n \in T PROVE n + 1 \in T
  <2> SUFFICES ASSUME NEW U \in SUBSET S, U # {}, Cardinality(U) = n + 1 PROVE Has(U)
    BY <1>2
  <2>1. PICK z \in U : TRUE
    OBVIOUS
  <2> DEFINE V == U \ {z}
  <2>2. V \in SUBSET S /\ Cardinality(V) = n
    <3>1. Cardinality(V) = Cardinality(U) - 1
      BY <1>0, <2>1, FS_RemoveElement
    <3> QED BY <1>2, <3>1
  <2>3. CASE V = {}
    BY <2>1, <2>3
  <2>4. CASE V # {}
    <3>1. Has(V)
      BY <1>2, <2>2, <2>4
    <3>2. PICK x \in V : \A y \in V : age[x] =< age[y]
      BY <3>1
    <3>3. age[x] \in Int /\ age[z] \in Int /\ \A y \in V : age[y] \in Int
      BY <2>1, <2>2
    <3>4. CASE age[x] =< age[z]
      BY <2>1, <3>2, <3>4
    <3>5. CASE ~ (age[x] =< age[z])
      <4>1. \A y \in U : age[z] =< age[y]
        <5> TAKE y \in U
        <5>1. CASE y = z
          BY <3>3, <5>1
        <5>2. CASE y # z
          <6>1. y \in V
            BY <5>2
          <6> QED BY <3>2, <3>3, <3>5, <6>1
        <5> QED BY <5>1, <5>2
      <4> QED BY <2>1, <4>1
    <3> QED BY <3>4, <3>5
  <2> QED BY <2>3, <2>4
<1>3. \A n \in 0 .. Cardinality(S) : n \in T
  <2>1. T \in SUBSET Nat /\ Cardinality(S) \in Nat
    BY <1>0
  <2> HIDE DEF T
  <2> QED BY <1>1, <1>2, <2>1, CountUp
<1>4. Cardinality(S) \in T
  BY <1>0, <1>3
<1>5. Has(S)
  BY <1>4
<1> QED BY <1>5

-----------------------------------------------------------------------------
\* What no step takes back: who has a key, that there is a bucket, a link.
Onward ==
    /\ scenario' = scenario
    /\ \A k \in KeyId : key'[k].user = key[k].user
    /\ \A b \in Bucket : bucket[b] # None => bucket'[b] # None
    /\ \A d \in Caller : got[d].link # None => got'[d].link = got[d].link

\* What is asked for never changes, and neither does what it needs.
LEMMA SameAsk ==
  ASSUME scenario' = scenario, NEW c \in Caller
  PROVE  /\ Ask(c)' = Ask(c) /\ NeedsOf(c)' = NeedsOf(c)
         /\ \A op : Asks(c, op)' <=> Asks(c, op)
<1>1. Ask(c)' = Ask(c)
  BY DEF Ask
<1>2. \A op : Asks(c, op)' <=> Asks(c, op)
  BY <1>1 DEF Asks
<1>3. CopyNeeds(c)' = CopyNeeds(c)
  BY <1>1 DEF CopyNeeds
<1> QED BY <1>1, <1>2, <1>3 DEF NeedsOf

\* A call is signed once.
LEMMA SameSignature ==
  ASSUME TypeInv, Onward, NEW c \in Caller, got'[c].at = got[c].at, stage[c] # "unsent"
  PROVE  Signed(c)' = Signed(c)
<1>1. Ask(c)' = Ask(c)
  BY SameAsk DEF Onward
<1>2. CASE Ask(c).opens = None
  BY <1>1, <1>2 DEF Signed
<1>3. CASE Ask(c).opens # None
  <2>1. Ask(c).opens \in Caller
    BY <1>3, AskedWell DEF TypeInv, WellAsked, Ask
  <2>2. got[Ask(c).opens].link # None
    BY <1>3 DEF TypeInv, Identified
  <2> QED BY <1>1, <1>3, <2>1, <2>2 DEF Signed, Onward
<1> QED BY <1>2, <1>3

\* A caller that takes no step is where it was.
LEMMA OthersKept ==
  ASSUME TypeInv, Onward, NEW c \in Caller, stage'[c] = stage[c], io'[c] = io[c],
         got'[c] = got[c] \/ \E x : got'[c] = [got[c] EXCEPT !.counted = x]
  PROVE  Identified(c)' /\ Decided(c)' /\ Holding(c)'
<1>1. Ask(c)' = Ask(c) /\ NeedsOf(c)' = NeedsOf(c) /\ (\A op : Asks(c, op)' <=> Asks(c, op))
  BY SameAsk DEF Onward
<1>2. Identified(c) /\ Decided(c) /\ Holding(c)
  BY DEF TypeInv
<1>3. IsGot(got[c])
  BY <1>2 DEF Identified
<1>4. /\ got'[c].at = got[c].at /\ got'[c].user = got[c].user /\ got'[c].key = got[c].key /\ got'[c].row = got[c].row
      /\ got'[c].need = got[c].need /\ got'[c].answer = got[c].answer /\ got'[c].link = got[c].link
      /\ IsGot(got'[c])
  BY <1>3 DEF IsGot
<1>5. stage[c] # "unsent" => Signed(c)' = Signed(c)
  BY <1>4, SameSignature
<1>6. Ask(c).opens # None => Ask(c).opens \in Caller
  BY AskedWell DEF TypeInv, WellAsked, Ask
<1>7. Identified(c)'
  <2>1. IsGot(got[c])'
    BY <1>4
  <2>2. got[c].key # None => got'[c].user = key'[got'[c].key].user
    <3>1. got[c].key # None => got[c].key \in KeyId /\ got[c].user = key[got[c].key].user
      BY <1>2, <1>3 DEF Identified, IsGot
    <3> QED BY <1>4, <3>1 DEF Onward
  <2>3. stage[c] # "unsent" /\ Ask(c).opens # None => got'[Ask(c).opens].link # None
    BY <1>2, <1>6 DEF Identified, Onward
  <2> QED BY <1>1, <1>2, <1>4, <1>5, <2>1, <2>2, <2>3 DEF Identified
<1>8. Decided(c)'
  <2>1. Need(c)' = Need(c)
    BY <1>1, <1>4 DEF Need
  <2>2. \A n \in 1 .. got[c].need - 1 : n \in 1 .. Len(NeedsOf(c))
    BY <1>2, <1>3, NeedsKnown DEF Decided, IsGot, TypeInv
  <2>3. \A n \in 1 .. Len(NeedsOf(c)) : bucket[NeedsOf(c)[n].bucket] # None => bucket'[NeedsOf(c)[n].bucket] # None
    BY NeedsKnown DEF Onward, TypeInv
  <2>4. stage[c] \in {"policy", "owner", "grant"} => bucket'[Need(c).bucket] # None
    <3>1. stage[c] \in {"policy", "owner", "grant"} => got[c].need \in 1 .. Len(NeedsOf(c))
      BY <1>2, <1>3, NeedsKnown DEF Decided, IsGot, TypeInv
    <3> QED BY <1>2, <2>3, <3>1 DEF Decided, Need
  <2>5. \A n \in 1 .. got[c].need - 1 : bucket'[NeedsOf(c)[n].bucket] # None
    BY <1>2, <2>2, <2>3 DEF Decided
  <2> QED BY <1>1, <1>2, <1>4, <2>1, <2>4, <2>5 DEF Decided
<1>9. Holding(c)'
  <2>1. stage[c] = "acl" => bucket'[Ask(c).bucket] # None
    BY <1>2, AskedWell DEF Holding, Onward, TypeInv, WellAsked, Ask
  <2>2. Sends(c) => Sends(c)'
    BY <1>1 DEF Sends
  <2>3. SliceSent(c)' <=> SliceSent(c)
    BY <1>1 DEF SliceSent
  <2> QED BY <1>1, <1>2, <1>4, <2>1, <2>2, <2>3 DEF Holding
<1> QED BY <1>7, <1>8, <1>9

-----------------------------------------------------------------------------
\* What handlers do to the call they handle: they answer it, hand it on, or make
\* a link.  They tell nobody that a bucket is missing or closed who has looked at
\* one.
Answers(c) ==
    \E a : Answered(c, a) /\ (a \in {"AccessDenied", "NoSuchBucket"} => NeedsOf(c) = <<>>)
HandsOn(c) == \E to \in (Working \ {"key"}) \cup {"hung"} : Moves(c, to) /\ UNCHANGED got
Shares(c) ==
    /\ Asks(c, {"Share"}) /\ Moves(c, "done")
    /\ \E k \in SigningKeys(got[c].user) :
           got' = [got EXCEPT ![c].answer = "ok",
                              ![c].link = [key |-> k, at |-> now, expires |-> Ask(c).expires, row |-> key[k]]]
Handled(c) ==
    /\ stage[c] \in Working
    /\ UNCHANGED <<scenario, store, now>>
    /\ Answers(c) \/ HandsOn(c) \/ Shares(c)

\* Handlers that read what is small: keys, policies, ACLs, grants, buckets.
LEMMA RulesAreHandled ==
  ASSUME TypeInv, NEW c \in Caller,
         \/ SetPolicy(c) \/ DeletePolicy(c) \/ SetAcl(c) \/ SetCors(c) \/ Preflight(c) \/ SetGrant(c)
         \/ FindBucket(c) \/ InsertBucket(c) \/ AclOfNewBucket(c) \/ CountAndDelete(c) \/ Read(c)
         \/ CheckKey(c) \/ ChangeKey(c)
  PROVE  Handled(c)
<1>0. Asks(c, {"Preflight", "CreateBucket", "ListBuckets"}) => NeedsOf(c) = <<>>
  BY NeedsOfHandlers DEF TypeInv, Asks
<1>1. CASE SetPolicy(c)
  BY <1>1 DEF SetPolicy, Handled, Answers, Working
<1>2. CASE DeletePolicy(c)
  BY <1>2 DEF DeletePolicy, Handled, Answers, Working
<1>3. CASE SetAcl(c)
  BY <1>3 DEF SetAcl, Handled, Answers, Working
<1>4. CASE SetCors(c)
  BY <1>4 DEF SetCors, Handled, Answers, Working
<1>5. CASE Preflight(c)
  BY <1>0, <1>5 DEF Preflight, Handled, Answers, Working, Asks
<1>6. CASE SetGrant(c)
  BY <1>6 DEF SetGrant, Handled, Answers, Working
<1>7. CASE FindBucket(c)
  BY <1>0, <1>7 DEF FindBucket, Handled, Answers, HandsOn, Working, Asks
<1>8. CASE InsertBucket(c)
  BY <1>8 DEF InsertBucket, Handled, Answers, HandsOn, Working
<1>9. CASE AclOfNewBucket(c)
  BY <1>9 DEF AclOfNewBucket, Handled, Answers, Working
<1>10. CASE CountAndDelete(c)
  BY <1>10 DEF CountAndDelete, Handled, Answers, HandsOn, Working
<1>11. CASE Read(c)
  BY <1>0, <1>11 DEF Read, Handled, Answers, Working, Asks
<1>12. CASE CheckKey(c)
  BY <1>12 DEF CheckKey, Handled, Answers, HandsOn, Working
<1>13. CASE ChangeKey(c)
  BY <1>13 DEF ChangeKey, Handled, Answers, Working
<1> QED BY <1>1, <1>2, <1>3, <1>4, <1>5, <1>6, <1>7, <1>8, <1>9, <1>10, <1>11, <1>12, <1>13

\* Among the keys of a caller that has one there is an oldest.
LEMMA LinksAreHandled ==
  ASSUME TypeInv, NEW c \in Caller, Share(c)
  PROVE  Handled(c)
<1> DEFINE usable == SigningKeys(got[c].user)
           oldest == CHOOSE k \in usable : \A l \in usable : key[k].created <= key[l].created
<1>1. CASE usable = {}
  BY <1>1 DEF Share, Handled, Answers, Working
<1>2. CASE usable # {}
  <2>1. usable \in SUBSET KeyId /\ IsFiniteSet(usable)
    <3>1. usable \in SUBSET KeyId
      BY DEF SigningKeys
    <3> QED BY <3>1, RequestsAssumption, FS_Subset
  <2> DEFINE age == [k \in KeyId |-> key[k].created]
  <2>2. \A k \in usable : age[k] \in Int /\ age[k] = key[k].created
    BY <2>1 DEF TypeInv, Rows, Tables, KeyRow
  <2>3. \E k \in usable : \A l \in usable : age[k] =< age[l]
    <3> HIDE DEF age, usable
    <3> QED BY <1>2, <2>1, <2>2, OldestExists
  <2>4. oldest \in usable
    <3> HIDE DEF usable
    <3> QED BY <2>2, <2>3
  <2>5. Shares(c)
    BY <1>2, <2>4 DEF Share, Shares
  <2> QED BY <2>5 DEF Handled, Share, Working
<1> QED BY <1>1, <1>2

\* Handlers that move payloads.
LEMMA PayloadsAreHandled ==
  ASSUME TypeInv, NEW c \in Caller,
         \/ Begin(c) \/ Receive(c) \/ Parse(c) \/ Break(c) \/ EndBody(c) \/ CommitObject(c) \/ CopyObject(c)
         \/ DeleteObject(c) \/ Open(c) \/ SendPiece(c) \/ HangUp(c)
  PROVE  Handled(c)
<1>0. \A to \in Stages : stage[c] = to /\ UNCHANGED stage => Moves(c, to)
  BY DEF TypeInv, Rows, Moves
<1>1. CASE Begin(c)
  BY <1>1 DEF Begin, Handled, Answers, HandsOn, Working
<1>2. CASE Receive(c)
  BY <1>0, <1>2 DEF Receive, Handled, HandsOn, Working, Stages
<1>3. CASE Parse(c)
  BY <1>0, <1>3 DEF Parse, Handled, HandsOn, Working, Stages
<1>4. CASE Break(c)
  <2>1. Failure(io[c].parser) \notin {"AccessDenied", "NoSuchBucket"}
    BY DEF Failure
  <2> QED BY <1>4, <2>1 DEF Break, Handled, Answers, Working
<1>5. CASE EndBody(c)
  <2> DEFINE p == IF Ask(c).framing = "plain" THEN io[c].parser ELSE Flush(io[c].parser)
  <2>1. Failure(p) \notin {"AccessDenied", "NoSuchBucket"}
    BY DEF Failure
  <2> HIDE DEF p
  <2>2. \/ Answered(c, Failure(p)) \/ Answered(c, "BadDigest")
        \/ Moves(c, "commit") /\ UNCHANGED got
    BY <1>5 DEF EndBody, p
  <2> QED BY <1>5, <2>1, <2>2 DEF EndBody, Handled, Answers, HandsOn, Working
<1>6. CASE CommitObject(c)
  BY <1>6 DEF CommitObject, Handled, Answers, HandsOn, Working
<1>7. CASE CopyObject(c)
  BY <1>7 DEF CopyObject, Handled, Answers, HandsOn, Working
<1>8. CASE DeleteObject(c)
  BY <1>8 DEF DeleteObject, Handled, Answers, Working
<1>9. CASE Open(c)
  <2> DEFINE found == object[Ask(c).bucket]
             range == IF found = None THEN NoRange ELSE ParseRange(Ask(c).range, Len(found.etag))
  <2>1. Verdict(c, range) \notin {"AccessDenied", "NoSuchBucket"}
    BY DEF Verdict, Precondition
  <2> HIDE DEF range
  <2>2. Answered(c, Verdict(c, range)) \/ (Moves(c, "sending") /\ UNCHANGED got)
    BY <1>9 DEF Open, range
  <2> QED BY <1>9, <2>1, <2>2 DEF Open, Handled, Answers, HandsOn, Working
<1>10. CASE SendPiece(c)
  BY <1>0, <1>10 DEF SendPiece, Handled, Answers, HandsOn, Working, Stages
<1>11. CASE HangUp(c)
  BY <1>11 DEF HangUp, Handled, Answers, HandsOn, Working
<1> QED BY <1>1, <1>2, <1>3, <1>4, <1>5, <1>6, <1>7, <1>8, <1>9, <1>10, <1>11

\* Every handler.
LEMMA HandlersHandle ==
  ASSUME TypeInv, NEW c \in Caller, Work(c) \/ HangUp(c)
  PROVE  Handled(c)
BY RulesAreHandled, LinksAreHandled, PayloadsAreHandled DEF Work

\* What is committed can be read.
LEMMA StoredIsBlob ==
  ASSUME NEW iv \in Counters \cup {<<>>}, NEW out \in Seq(Symbol), NEW time
  PROVE  Stored(iv, out, time).etag = out /\ BlobOf(Stored(iv, out, time), out)
BY DEF Stored, BlobOf

\* The bucket a handler changes is there.
LEMMA TheBucketIsThere ==
  ASSUME TypeInv, NEW c \in Caller, stage[c] \in Working,
         Asks(c, {"PutBucketAcl", "PutBucketCors", "DeleteBucketCors", "DeleteBucket"})
  PROVE  bucket[Ask(c).bucket] \in BucketRow
<1>1. Ask(c).bucket \in Bucket
  BY AskedWell DEF TypeInv, WellAsked, Ask
<1>2. Len(NeedsOf(c)) = 1 /\ NeedsOf(c)[1].bucket = Ask(c).bucket
  BY NeedsOfHandlers DEF TypeInv
<1>3. got[c].need = 2
  BY <1>2 DEF TypeInv, Decided
<1>4. bucket[NeedsOf(c)[1].bucket] # None
  BY <1>3 DEF TypeInv, Decided
<1> QED BY <1>1, <1>2, <1>4 DEF TypeInv, Rows, Tables

\* One statement at a time keeps every row what it is.
LEMMA TablesAreKept ==
  ASSUME TypeInv, NEW c \in Caller, Work(c) \/ HangUp(c)
  PROVE  /\ Tables'
         /\ \A k \in KeyId : key'[k].user = key[k].user
         /\ \A b \in Bucket : bucket[b] # None => bucket'[b] # None
<1> DEFINE Goal == /\ Tables'
                   /\ \A k \in KeyId : key'[k].user = key[k].user
                   /\ \A b \in Bucket : bucket[b] # None => bucket'[b] # None
<1>0. Tables /\ WellAsked(scenario.ask, c) /\ Holding(c)
  BY AskedWell DEF TypeInv, Rows
<1>1. ASSUME UNCHANGED <<rules, object>> PROVE Goal
  BY <1>0, <1>1 DEF Tables, rules
<1>2. CASE SetPolicy(c) \/ DeletePolicy(c)
  <2>1. UNCHANGED <<key, bucket, grants, object>>
    BY <1>2 DEF SetPolicy, DeletePolicy
  <2>2. DOMAIN policy' = Bucket /\ \A b \in Bucket : ValidDocument(policy'[b])
    <3>1. ValidDocument(<<>>)
      BY DEF ValidDocument
    <3>2. \/ policy' = policy
          \/ \E d : ValidDocument(d) /\ policy' = [policy EXCEPT ![Ask(c).bucket] = d]
      BY <1>2, <3>1 DEF SetPolicy, DeletePolicy
    <3> QED BY <1>0, <3>2 DEF Tables
  <2> QED BY <1>0, <2>1, <2>2 DEF Tables
<1>3. ASSUME UNCHANGED <<key, policy, grants, object>>,
             NEW b \in Bucket, NEW row \in BucketRow, bucket' = [bucket EXCEPT ![b] = row]
      PROVE  Goal
  <2>1. bucket' \in [Bucket -> BucketRow \cup {None}]
    BY <1>0, <1>3 DEF Tables
  <2>2. \A a \in Bucket : bucket[a] # None => bucket'[a] # None
    BY <1>0, <1>3, RowsAssumption DEF Tables
  <2> QED BY <1>0, <1>3, <2>1, <2>2 DEF Tables
<1>4. Ask(c).bucket \in Bucket /\ Ask(c).from \in Bucket
  BY <1>0 DEF WellAsked, Ask
<1>5. CASE SetAcl(c)
  <2>1. UNCHANGED <<key, policy, grants, object>>
    BY <1>5 DEF SetAcl
  <2>2. CASE UNCHANGED bucket
    BY <1>1, <2>1, <2>2 DEF rules
  <2>3. CASE ~ UNCHANGED bucket
    <3>1. AskedAcl(c) # "bad" /\ bucket' = [bucket EXCEPT ![Ask(c).bucket].acl = AskedAcl(c)]
      BY <1>5, <2>3 DEF SetAcl
    <3>2. AskedAcl(c) \in Acls
      <4>1. AclOf(Ask(c).list) \in Acls \cup {"bad"}
        BY DEF AclOf, Acls
      <4> QED BY <1>0, <3>1, <4>1 DEF AskedAcl, WellAsked, Ask
    <3>3. bucket[Ask(c).bucket] \in BucketRow
      BY <1>5, TheBucketIsThere DEF SetAcl, Working, Asks
    <3>4. [bucket[Ask(c).bucket] EXCEPT !.acl = AskedAcl(c)] \in BucketRow
      BY <3>2, <3>3 DEF BucketRow
    <3> QED BY <1>3, <1>4, <2>1, <3>1, <3>4
  <2> QED BY <2>2, <2>3
<1>6. CASE SetCors(c)
  <2>1. UNCHANGED <<key, policy, grants, object>>
    BY <1>6 DEF SetCors
  <2> DEFINE cors == IF Asks(c, {"DeleteBucketCors"}) THEN <<>> ELSE Ask(c).cors
  <2>2. UNCHANGED bucket \/ bucket' = [bucket EXCEPT ![Ask(c).bucket].cors = cors]
    BY <1>6 DEF SetCors
  <2>3. cors \in Seq(CorsRule)
    BY <1>0 DEF WellAsked, Ask
  <2>4. bucket[Ask(c).bucket] \in BucketRow
    BY <1>6, TheBucketIsThere DEF SetCors, Working, Asks
  <2> HIDE DEF cors
  <2>5. [bucket[Ask(c).bucket] EXCEPT !.cors = cors] \in BucketRow
    BY <2>3, <2>4 DEF BucketRow
  <2>6. CASE UNCHANGED bucket
    BY <1>1, <2>1, <2>6 DEF rules
  <2>7. CASE bucket' = [bucket EXCEPT ![Ask(c).bucket].cors = cors]
    BY <1>3, <1>4, <2>1, <2>5, <2>7
  <2> QED BY <2>2, <2>6, <2>7
<1>7. CASE SetGrant(c)
  <2>1. UNCHANGED <<key, bucket, policy, object>>
    BY <1>7 DEF SetGrant
  <2>2. Ask(c).to \in User /\ Ask(c).permissions \subseteq Permission
    BY <1>0, <1>7 DEF WellAsked, Ask, Asks, SetGrant
  <2> DEFINE given == IF Asks(c, {"RemoveGrant"}) THEN {} ELSE Ask(c).permissions
  <2>3. given \in SUBSET Permission /\ grants' = [grants EXCEPT ![Ask(c).bucket][Ask(c).to] = given]
    BY <1>7, <2>2 DEF SetGrant
  <2> HIDE DEF given
  <2>4. grants' \in [Bucket -> [User -> SUBSET Permission]]
    BY <1>0, <1>4, <2>2, <2>3 DEF Tables
  <2> QED BY <1>0, <2>1, <2>4 DEF Tables
<1>8. CASE InsertBucket(c)
  <2>1. UNCHANGED <<key, policy, grants, object>>
    BY <1>8 DEF InsertBucket
  <2> DEFINE row == [deleted |-> FALSE, owner |-> got[c].user, acl |-> "private", cors |-> <<>>]
  <2>2. row \in BucketRow
    BY <1>0, <1>8 DEF InsertBucket, Holding, BucketRow, Acls
  <2>3. UNCHANGED bucket \/ bucket' = [bucket EXCEPT ![Ask(c).bucket] = row]
    BY <1>8 DEF InsertBucket
  <2> HIDE DEF row
  <2>4. CASE UNCHANGED bucket
    BY <1>1, <2>1, <2>4 DEF rules
  <2>5. CASE bucket' = [bucket EXCEPT ![Ask(c).bucket] = row]
    BY <1>3, <1>4, <2>1, <2>2, <2>5
  <2> QED BY <2>3, <2>4, <2>5
<1>9. CASE AclOfNewBucket(c)
  <2>1. UNCHANGED <<key, policy, grants, object>>
    BY <1>9 DEF AclOfNewBucket
  <2>2. CASE UNCHANGED bucket
    BY <1>1, <2>1, <2>2 DEF rules
  <2>3. CASE ~ UNCHANGED bucket
    <3>1. Ask(c).acl # "bad" /\ bucket' = [bucket EXCEPT ![Ask(c).bucket].acl = Ask(c).acl]
      BY <1>9, <2>3 DEF AclOfNewBucket
    <3>2. Ask(c).acl \in Acls /\ bucket[Ask(c).bucket] \in BucketRow
      BY <1>0, <1>4, <1>9, <3>1 DEF AclOfNewBucket, Holding, WellAsked, Ask, Tables
    <3>3. [bucket[Ask(c).bucket] EXCEPT !.acl = Ask(c).acl] \in BucketRow
      BY <3>2 DEF BucketRow
    <3> QED BY <1>3, <1>4, <2>1, <3>1, <3>3
  <2> QED BY <2>2, <2>3
<1>10. CASE CountAndDelete(c)
  <2>1. UNCHANGED <<key, policy, grants, object>>
    BY <1>10 DEF CountAndDelete
  <2>2. UNCHANGED bucket \/ bucket' = [bucket EXCEPT ![Ask(c).bucket].deleted = TRUE]
    BY <1>10 DEF CountAndDelete
  <2>3. bucket[Ask(c).bucket] \in BucketRow
    BY <1>10, TheBucketIsThere DEF CountAndDelete, Working, Asks
  <2>4. [bucket[Ask(c).bucket] EXCEPT !.deleted = TRUE] \in BucketRow
    BY <2>3 DEF BucketRow
  <2>5. CASE UNCHANGED bucket
    BY <1>1, <2>1, <2>5 DEF rules
  <2>6. CASE bucket' = [bucket EXCEPT ![Ask(c).bucket].deleted = TRUE]
    BY <1>3, <1>4, <2>1, <2>4, <2>6
  <2> QED BY <2>2, <2>5, <2>6
<1>11. CASE ChangeKey(c)
  <2>1. UNCHANGED <<bucket, policy, grants, object>>
    BY <1>11 DEF ChangeKey
  <2>2. Ask(c).key \in KeyId /\ (Asks(c, {"SetKeyStatus"}) => Ask(c).status \in {"active", "inactive"})
    BY <1>0, <1>11 DEF WellAsked, Ask, Asks, ChangeKey, KeyCalls
  <2>3. \/ UNCHANGED key
        \/ key' = [key EXCEPT ![Ask(c).key].deleted = TRUE]
        \/ Asks(c, {"SetKeyStatus"}) /\ key' = [key EXCEPT ![Ask(c).key].status = Ask(c).status]
    BY <1>11 DEF ChangeKey, Asks, KeyCalls
  <2> DEFINE row == key[Ask(c).key]
  <2>4. row \in KeyRow /\ key \in [KeyId -> KeyRow]
    BY <1>0, <2>2 DEF Tables
  <2>5. \E new \in KeyRow : new.user = row.user /\ key' = [key EXCEPT ![Ask(c).key] = new]
    <3>1. CASE UNCHANGED key
      BY <2>2, <2>4, <3>1
    <3>2. CASE key' = [key EXCEPT ![Ask(c).key].deleted = TRUE]
      <4>1. [row EXCEPT !.deleted = TRUE] \in KeyRow /\ [row EXCEPT !.deleted = TRUE].user = row.user
        BY <2>4 DEF KeyRow
      <4> QED BY <3>2, <4>1
    <3>3. CASE Asks(c, {"SetKeyStatus"}) /\ key' = [key EXCEPT ![Ask(c).key].status = Ask(c).status]
      <4> DEFINE new == [row EXCEPT !.status = Ask(c).status]
      <4>1. new \in KeyRow /\ new.user = row.user
        BY <2>2, <2>4, <3>3 DEF KeyRow
      <4> QED BY <3>3, <4>1
    <3> QED BY <2>3, <3>1, <3>2, <3>3
  <2>6. key' \in [KeyId -> KeyRow] /\ \A k \in KeyId : key'[k].user = key[k].user
    BY <2>2, <2>4, <2>5
  <2> QED BY <1>0, <2>1, <2>6 DEF Tables
<1>12. CASE CommitObject(c)
  <2> DEFINE out == IF Asks(c, {"CopyObject"}) THEN io[c].out ELSE io[c].parser.out
             blob == Stored(Ask(c).iv, out, now)
  <2>1. UNCHANGED rules /\ object' = [object EXCEPT ![Ask(c).bucket] = blob]
    BY <1>12 DEF CommitObject
  <2>2. out \in Seq(Symbol)
    BY <1>0, <1>12 DEF CommitObject, Holding, Parser, Asks
  <2>3. Ask(c).iv \in Counters \cup {<<>>}
    BY <1>0 DEF WellAsked, Ask
  <2> HIDE DEF out
  <2>4. BlobOf(blob, blob.etag)
    <3>1. blob.etag = out /\ BlobOf(blob, out)
      BY <2>2, <2>3, StoredIsBlob
    <3> QED BY <3>1
  <2> HIDE DEF blob
  <2>5. DOMAIN object' = Bucket /\ \A b \in Bucket : object'[b] # None => BlobOf(object'[b], object'[b].etag)
    BY <1>0, <1>4, <2>1, <2>4 DEF Tables
  <2> QED BY <1>0, <2>1, <2>5 DEF Tables, rules
<1>13. CASE DeleteObject(c)
  <2>1. UNCHANGED rules /\ \E b \in Bucket : object' = [object EXCEPT ![b] = None]
    BY <1>4, <1>13 DEF DeleteObject
  <2>2. DOMAIN object' = Bucket /\ \A b \in Bucket : object'[b] # None => BlobOf(object'[b], object'[b].etag)
    BY <1>0, <2>1 DEF Tables
  <2> QED BY <1>0, <2>1, <2>2 DEF Tables, rules
<1>14. CASE \/ Preflight(c) \/ FindBucket(c) \/ Read(c) \/ CheckKey(c) \/ Share(c) \/ Begin(c) \/ Receive(c)
            \/ Parse(c) \/ Break(c) \/ EndBody(c) \/ CopyObject(c) \/ Open(c) \/ SendPiece(c) \/ HangUp(c)
  <2>1. UNCHANGED <<rules, object>>
    BY <1>14 DEF Preflight, FindBucket, Read, CheckKey, Share, Begin, Receive, Parse, Break, EndBody, CopyObject, Open,
                 SendPiece, HangUp
  <2> QED BY <1>1, <2>1
<1> QED BY <1>2, <1>5, <1>6, <1>7, <1>8, <1>9, <1>10, <1>11, <1>12, <1>13, <1>14 DEF Work

\* A handler works for one call.
LEMMA OneIsHandled ==
  ASSUME TypeInv, NEW c \in Caller, Work(c) \/ HangUp(c)
  PROVE  /\ Rows' /\ Onward
         /\ \A d \in Caller \ {c} : stage'[d] = stage[d] /\ got'[d] = got[d] /\ io'[d] = io[d]
<1>1. Handled(c) /\ Rows
  BY HandlersHandle DEF TypeInv
<1>2. UNCHANGED io \/ \E x : io' = [io EXCEPT ![c] = x]
  <2>1. CASE \/ Preflight(c) \/ FindBucket(c) \/ Read(c) \/ CheckKey(c) \/ Share(c) \/ SetPolicy(c) \/ DeletePolicy(c)
             \/ SetAcl(c) \/ SetCors(c) \/ SetGrant(c) \/ InsertBucket(c) \/ AclOfNewBucket(c) \/ CountAndDelete(c)
             \/ ChangeKey(c) \/ Break(c) \/ CommitObject(c) \/ DeleteObject(c) \/ HangUp(c)
    BY <2>1 DEF Preflight, FindBucket, Read, CheckKey, Share, SetPolicy, DeletePolicy, SetAcl, SetCors, SetGrant,
                InsertBucket, AclOfNewBucket, CountAndDelete, ChangeKey, Break, CommitObject, DeleteObject, HangUp
  <2>2. CASE Begin(c) \/ Receive(c) \/ Parse(c) \/ EndBody(c) \/ CopyObject(c) \/ Open(c) \/ SendPiece(c)
    BY <2>2 DEF Begin, Receive, Parse, EndBody, CopyObject, Open, SendPiece
  <2> QED BY <2>1, <2>2 DEF Work
<1>3. DOMAIN io' = Caller /\ \A d \in Caller \ {c} : io'[d] = io[d]
  BY <1>1, <1>2 DEF Rows
<1>4. stage' \in [Caller -> Stages] /\ \A d \in Caller \ {c} : stage'[d] = stage[d]
  <2>1. \E to \in Stages : stage' = [stage EXCEPT ![c] = to]
    BY <1>1 DEF Handled, Answers, HandsOn, Shares, Answered, Moves, Working, Stages
  <2> QED BY <1>1, <2>1 DEF Rows
<1>5. /\ DOMAIN got' = Caller
      /\ \A d \in Caller \ {c} : got'[d] = got[d]
  BY <1>1 DEF Handled, Answers, HandsOn, Shares, Answered, Rows
<1>6. got[c].link = None
  BY <1>1 DEF TypeInv, Identified, Handled, Working
<1>7. scenario' = scenario /\ UNCHANGED <<counter, outages, now>>
  BY <1>1 DEF Handled, store
<1>8. MaxOutages' = MaxOutages /\ MaxTime' = MaxTime
  BY <1>7 DEF MaxOutages, MaxTime
<1>9. Onward
  BY <1>5, <1>6, <1>7, TablesAreKept DEF Onward
<1>10. Rows'
  <2>1. Tables'
    BY TablesAreKept
  <2> QED BY <1>1, <1>3, <1>4, <1>5, <1>7, <1>8, <2>1 DEF Rows
<1> QED BY <1>3, <1>4, <1>5, <1>9, <1>10

\* What the handler knows of its caller stays as it is until it answers.
LEMMA HandledStaysKnown ==
  ASSUME TypeInv, NEW c \in Caller, Work(c) \/ HangUp(c)
  PROVE  /\ stage'[c] \in (Working \ {"key"}) \cup {"hung", "done"}
         /\ got'[c].at = got[c].at /\ got'[c].user = got[c].user /\ got'[c].key = got[c].key
         /\ got'[c].counted = got[c].counted /\ got'[c].row = got[c].row /\ got'[c].need = got[c].need
         /\ stage'[c] # "done" => got'[c] = got[c]
         /\ got'[c].answer \in {"AccessDenied", "NoSuchBucket"} => NeedsOf(c) = <<>>
         /\ Identified(c)' /\ Decided(c)'
<1>1. Handled(c) /\ Rows /\ Onward
  BY HandlersHandle, OneIsHandled DEF TypeInv
<1>2. Identified(c) /\ Decided(c) /\ IsGot(got[c]) /\ stage[c] \in Working
  BY <1>1 DEF TypeInv, Identified, Handled
<1>3. DOMAIN got = Caller /\ stage \in [Caller -> Stages] /\ key \in [KeyId -> KeyRow] /\ now \in Nat
  <2>1. MaxTime \in Nat
    BY <1>1, RequestsAssumption DEF MaxTime, Rows
  <2> QED BY <1>1, <2>1 DEF Rows, Tables
<1>4. /\ stage'[c] \in (Working \ {"key"}) \cup {"hung", "done"}
      /\ got'[c].at = got[c].at /\ got'[c].user = got[c].user /\ got'[c].key = got[c].key
      /\ got'[c].counted = got[c].counted /\ got'[c].row = got[c].row /\ got'[c].need = got[c].need
      /\ stage'[c] # "done" => got'[c] = got[c]
      /\ IsGot(got'[c])
      /\ \/ got'[c].link = got[c].link
         \/ /\ Asks(c, {"Share"}) /\ stage'[c] = "done" /\ got'[c].link.expires = Ask(c).expires
            /\ got'[c].link.row.status = "active" /\ ~got'[c].link.row.deleted
      /\ got'[c].answer \in {"AccessDenied", "NoSuchBucket"} => NeedsOf(c) = <<>>
  <2>0. None \notin {"ok", "AccessDenied", "NoSuchBucket"}
    BY RequestsAssumption
  <2>1. CASE Answers(c)
    <3>1. PICK a : Answered(c, a) /\ (a \in {"AccessDenied", "NoSuchBucket"} => NeedsOf(c) = <<>>)
      BY <2>1 DEF Answers
    <3>2. stage'[c] = "done" /\ got'[c] = [got[c] EXCEPT !.answer = a]
      BY <1>3, <3>1 DEF Answered
    <3> QED BY <1>2, <3>1, <3>2 DEF IsGot
  <2>2. CASE HandsOn(c)
    <3>1. got[c].answer = None
      BY <1>2 DEF Identified, Working
    <3>2. got'[c] = got[c] /\ stage'[c] \in (Working \ {"key"}) \cup {"hung"}
      BY <1>3, <2>2 DEF HandsOn, Moves
    <3> QED BY <1>2, <2>0, <3>1, <3>2
  <2>3. CASE Shares(c)
    <3>1. PICK k \in SigningKeys(got[c].user) :
           got' = [got EXCEPT ![c].answer = "ok",
                              ![c].link = [key |-> k, at |-> now, expires |-> Ask(c).expires, row |-> key[k]]]
      BY <2>3 DEF Shares
    <3> DEFINE link == [key |-> k, at |-> now, expires |-> Ask(c).expires, row |-> key[k]]
    <3>2. stage'[c] = "done" /\ got'[c] = [got[c] EXCEPT !.answer = "ok", !.link = link]
      BY <1>3, <2>3, <3>1 DEF Shares, Moves
    <3>3. link \in Link
      BY <1>1, <1>3, AskedWell DEF SigningKeys, Link, WellAsked, Ask
    <3>4. link.expires = Ask(c).expires /\ link.row.status = "active" /\ ~link.row.deleted
      BY DEF SigningKeys
    <3> HIDE DEF link
    <3> QED BY <1>2, <2>3, <3>2, <3>3, <3>4 DEF IsGot, Shares
  <2> QED BY <1>1, <2>1, <2>2, <2>3 DEF Handled
<1>5. Ask(c)' = Ask(c) /\ NeedsOf(c)' = NeedsOf(c) /\ (\A op : Asks(c, op)' <=> Asks(c, op))
  BY <1>1, SameAsk DEF Onward
<1>6. Signed(c)' = Signed(c)
  BY <1>1, <1>2, <1>4, SameSignature DEF Working
<1>7. Identified(c)'
  <2>1. IsGot(got[c])'
    BY <1>4
  <2>2. got[c].key # None => got'[c].user = key'[got'[c].key].user
    <3>1. got[c].key # None => got[c].key \in KeyId /\ got[c].user = key[got[c].key].user
      BY <1>2 DEF Identified, IsGot
    <3> QED BY <1>1, <1>4, <3>1 DEF Onward
  <2>3. Ask(c).opens # None => got'[Ask(c).opens].link # None
    <3>1. Ask(c).opens # None => Ask(c).opens \in Caller
      BY <1>1, AskedWell DEF WellAsked, Ask
    <3> QED BY <1>1, <1>2, <3>1 DEF Identified, Onward, Working
  <2>4. got[c].link = None /\ got[c].answer = None
    BY <1>2 DEF Identified, Working
  <2>5. stage'[c] \notin {"unsent", "guard"}
    BY <1>4 DEF Working
  <2> QED BY <1>2, <1>4, <1>5, <1>6, <2>1, <2>2, <2>3, <2>4, <2>5 DEF Identified, Working
<1>8. Decided(c)'
  <2>1. \A n \in 1 .. got[c].need - 1 : n \in 1 .. Len(NeedsOf(c)) /\ NeedsOf(c)[n].bucket \in Bucket
    BY <1>1, <1>2, NeedsKnown DEF Decided, IsGot
  <2>2. \A n \in 1 .. got[c].need - 1 : bucket'[NeedsOf(c)[n].bucket] # None
    BY <1>1, <1>2, <2>1 DEF Decided, Onward
  <2>3. stage'[c] \notin Early \cup Deciding \cup {"key"}
    BY <1>4 DEF Early, Deciding, Working
  <2> QED BY <1>2, <1>4, <1>5, <2>2, <2>3 DEF Decided, Early, Deciding
<1> QED BY <1>4, <1>7, <1>8

-----------------------------------------------------------------------------
\* A range that can be satisfied is the part of the payload it asks for.
LEMMA RangeIsWanted ==
  ASSUME NEW range, NEW size \in Nat, range.first \in Nat, range.last \in Nat,
         range.form \in {"none", "suffix", "from", "between"},
         ParseRange(range, size) # Unsatisfiable,
         ParseRange(range, size).whole \/ ~(ParseRange(range, size).end < 0)
  PROVE  LET r == ParseRange(range, size) IN
         IF r.whole THEN Wanted(range, size) = 1 .. size
         ELSE /\ r.start \in Nat /\ r.end \in Nat /\ r.start =< r.end /\ r.end < size
              /\ Wanted(range, size) = r.start + 1 .. r.end + 1
<1> DEFINE r == ParseRange(range, size)
<1>1. CASE range.form = "none"
  BY <1>1 DEF ParseRange, Wanted, NoRange
<1>2. CASE range.form = "suffix"
  <2> DEFINE start == IF size > range.last THEN size - range.last ELSE 0
  <2>1. range.last # 0 /\ r = Slice(start, size - 1)
    BY <1>2 DEF ParseRange, Unsatisfiable
  <2>2. ~r.whole /\ r.start = start /\ r.end = size - 1
    BY <2>1 DEF Slice
  <2>3. size > 0
    BY <2>2
  <2>4. Wanted(range, size) = start + 1 .. size
    BY <1>2, <2>1 DEF Wanted
  <2> HIDE DEF r
  <2> QED BY <2>1, <2>2, <2>3, <2>4 DEF r
<1>3. CASE range.form \in {"from", "between"}
  <2> DEFINE end == IF range.form = "between" THEN Least(range.last, size - 1) ELSE size - 1
  <2>1. range.first < size /\ range.first =< end /\ r = Slice(range.first, end)
    BY <1>3 DEF ParseRange, Unsatisfiable, Least
  <2>2. ~r.whole /\ r.start = range.first /\ r.end = end
    BY <2>1 DEF Slice
  <2>3. end \in Nat /\ end < size
    BY <2>1 DEF Least
  <2>4. Wanted(range, size) = range.first + 1 .. end + 1
    <3>1. CASE range.form = "from"
      BY <2>3, <3>1 DEF Wanted
    <3>2. CASE range.form = "between"
      <4>1. Wanted(range, size) = {p \in 1 .. size : p > range.first /\ p <= range.last + 1}
        BY <3>2 DEF Wanted
      <4>2. end = IF range.last < size - 1 THEN range.last ELSE size - 1
        BY <3>2 DEF Least
      <4> QED BY <2>3, <4>1, <4>2
    <3> QED BY <1>3, <3>1, <3>2
  <2> HIDE DEF r, end
  <2> QED BY <2>1, <2>2, <2>3, <2>4 DEF r
<1> QED BY <1>1, <1>2, <1>3

\* When the file has been read to the end of the range, that part has been sent.
LEMMA SliceIsSent ==
  ASSUME NEW c \in Caller, Sends(c), io[c].read.position > io[c].read.end
  PROVE  SliceSent(c)
<1> DEFINE plain == io[c].blob.etag
           r == io[c].read
           wanted == Wanted(Ask(c).range, Len(plain))
           first == CHOOSE p \in wanted : \A q \in wanted : p <= q
<1>1. PICK start \in Nat : Reading(io[c].blob, plain, start, r) /\ wanted = start + 1 .. r.end + 1
  BY DEF Sends
<1>2. r.position = r.end + 1 /\ start =< r.end + 1 /\ r.end \in Int /\ r.out = SubSeq(plain, start + 1, r.end + 1)
  <2> HIDE DEF plain, wanted
  <2>1. r.position \in Nat /\ r.end \in Int /\ r.position =< r.end + 1 /\ start =< r.end + 1
        /\ r.out = SubSeq(plain, start + 1, r.position)
    BY <1>1 DEF Reading
  <2>2. r.position > r.end
    OBVIOUS
  <2>3. r.position = r.end + 1
    <3>1. \A p \in Nat, e \in Int : p =< e + 1 /\ p > e => p = e + 1
      OBVIOUS
    <3> HIDE DEF r
    <3> QED BY <2>1, <2>2, <3>1
  <2> QED BY <2>1, <2>3
<1> HIDE DEF wanted
<1>3. CASE start = r.end + 1
  <2>1. wanted = {}
    BY <1>1, <1>2, <1>3
  <2>2. SubSeq(plain, start + 1, r.end + 1) = <<>>
    <3>1. plain \in Seq(Symbol)
      BY DEF Sends, BlobOf
    <3> HIDE DEF plain, r
    <3> QED BY <1>2, <1>3, <3>1, SubSeqProperties
  <2> QED BY <1>2, <2>1, <2>2 DEF SliceSent, wanted
<1>4. CASE start < r.end + 1
  <2>1. wanted # {} /\ first = start + 1
    <3> HIDE DEF r
    <3>1. start + 1 \in wanted /\ \A q \in wanted : start + 1 =< q /\ q \in Int
      BY <1>1, <1>2, <1>4
    <3>2. \A p \in wanted : (\A q \in wanted : p =< q) => p = start + 1
      BY <3>1
    <3> QED BY <3>1, <3>2
  <2>2. Cardinality(wanted) = r.end - start + 1
    <3> HIDE DEF r
    <3> QED BY <1>1, <1>2, <1>4, FS_Interval, SMTT(60)
  <2>3. first + Cardinality(wanted) - 1 = r.end + 1
    <3> HIDE DEF first, r
    <3> QED BY <1>2, <2>1, <2>2
  <2> HIDE DEF r, first, plain
  <2>4. r.out = IF wanted = {} THEN <<>> ELSE SubSeq(plain, first, first + Cardinality(wanted) - 1)
    BY <1>2, <2>1, <2>3
  <2> QED BY <2>4 DEF SliceSent, wanted, r, first, plain
<1> QED BY <1>2, <1>3, <1>4

\* A range starts to be sent.
LEMMA SendingStarts ==
  ASSUME TypeInv, NEW c \in Caller, Open(c), stage'[c] = "sending"
  PROVE  Asks(c, {"GetObject"}) /\ Sends(c)'
<1> DEFINE found == object[Ask(c).bucket]
           range == ParseRange(Ask(c).range, Len(found.etag))
<1>1. stage \in [Caller -> Stages] /\ DOMAIN io = Caller /\ WellAsked(scenario.ask, c)
  BY AskedWell DEF TypeInv, Rows
<1>2. /\ Asks(c, {"GetObject"}) /\ found # None /\ Verdict(c, range) = "ok"
      /\ io' = [io EXCEPT ![c] = [blob |-> found, read |-> OpenBlob(found, range)]]
  <2> DEFINE asked == IF found = None THEN NoRange ELSE range
  <2>1. Verdict(c, asked) = "ok" => found # None
    BY DEF Verdict
  <2>2. ~ (stage' = [stage EXCEPT ![c] = "done"])
    BY <1>1
  <2>3. /\ Asks(c, {"GetObject", "HeadObject"}) /\ ~ (Asks(c, {"HeadObject"}) \/ Verdict(c, asked) # "ok")
        /\ io' = [io EXCEPT ![c] = [blob |-> found, read |-> OpenBlob(found, asked)]]
    <3> HIDE DEF found
    <3> QED BY <2>2 DEF Open, Answered, found
  <2>4. Asks(c, {"GetObject"})
    BY <2>3 DEF Asks
  <2>5. asked = range
    BY <2>1, <2>3
  <2> QED BY <2>1, <2>3, <2>4, <2>5
<1>3. BlobOf(found, found.etag)
  BY <1>1, <1>2 DEF TypeInv, Rows, Tables, WellAsked, Ask
<1>4. Len(found.etag) \in Nat
  BY <1>3 DEF BlobOf
<1>5. range # Unsatisfiable /\ (range.whole \/ ~(range.end < 0))
  <2> HIDE DEF range
  <2> QED BY <1>2 DEF Verdict
<1>6. IF range.whole THEN Wanted(Ask(c).range, Len(found.etag)) = 1 .. Len(found.etag)
      ELSE /\ range.start \in Nat /\ range.end \in Nat /\ range.start =< range.end /\ range.end < Len(found.etag)
           /\ Wanted(Ask(c).range, Len(found.etag)) = range.start + 1 .. range.end + 1
  BY <1>1, <1>4, <1>5, RangeIsWanted DEF WellAsked, Ask
<1> DEFINE start == IF range.whole THEN 0 ELSE range.start
           read == OpenBlob(found, range)
<1> HIDE DEF range
<1>7. /\ Reading(found, found.etag, start, read)
      /\ read.end = IF range.whole THEN Len(found.etag) - 1 ELSE range.end
  BY <1>3, <1>6, ReadsStart
<1>8. start \in Nat /\ Wanted(Ask(c).range, Len(found.etag)) = start + 1 .. read.end + 1
  BY <1>4, <1>6, <1>7
<1>9. io'[c] = [blob |-> found, read |-> read]
  BY <1>1, <1>2
<1>10. Ask(c)' = Ask(c)
  BY SameAsk DEF Open
<1> HIDE DEF found, read, start
<1>11. /\ BlobOf(io'[c].blob, io'[c].blob.etag) /\ Reading(io'[c].blob, io'[c].blob.etag, start, io'[c].read)
       /\ Wanted(Ask(c).range, Len(io'[c].blob.etag)) = start + 1 .. io'[c].read.end + 1
       /\ io'[c] \in [blob : {io'[c].blob}, read : {io'[c].read}]
  BY <1>3, <1>7, <1>8, <1>9
<1> QED BY <1>2, <1>8, <1>10, <1>11 DEF Sends

\* A read goes on, or it has come to the end of its range.
LEMMA SendingGoesOn ==
  ASSUME TypeInv, NEW c \in Caller, SendPiece(c)
  PROVE  Holding(c)'
<1>0. stage \in [Caller -> Stages] /\ DOMAIN io = Caller /\ DOMAIN got = Caller /\ Holding(c) /\ stage[c] = "sending"
  BY DEF TypeInv, Rows, SendPiece
<1>1. Asks(c, {"GetObject"}) /\ Sends(c) /\ got[c].answer = None /\ IsGot(got[c])
  BY <1>0 DEF Holding, TypeInv, Identified
<1>2. Ask(c)' = Ask(c) /\ (\A op : Asks(c, op)' <=> Asks(c, op))
  BY SameAsk DEF SendPiece
<1>3. ~Asks(c, {"PutObject"}) /\ ~Asks(c, {"CopyObject"}) /\ ~Asks(c, {"CreateBucket"})
  BY <1>1 DEF Asks
<1>4. CASE Answered(c, "ok") /\ UNCHANGED io /\ io[c].read.position > io[c].read.end
  <2>1. SliceSent(c)
    BY <1>1, <1>4, SliceIsSent
  <2>2. SliceSent(c)'
    BY <1>2, <1>4, <2>1 DEF SliceSent
  <2>3. stage'[c] = "done"
    BY <1>0, <1>4 DEF Answered
  <2> QED BY <1>1, <1>2, <1>3, <2>2, <2>3 DEF Holding
<1>5. CASE /\ \E n \in 1 .. io[c].read.end + 1 - io[c].read.position :
                 io' = [io EXCEPT ![c].read = ReadChunk(io[c].blob, @, n)]
           /\ UNCHANGED <<stage, got>>
  <2>1. PICK n \in 1 .. io[c].read.end + 1 - io[c].read.position :
                 io' = [io EXCEPT ![c].read = ReadChunk(io[c].blob, @, n)]
    BY <1>5
  <2>2. PICK start \in Nat :
          /\ BlobOf(io[c].blob, io[c].blob.etag)
          /\ Reading(io[c].blob, io[c].blob.etag, start, io[c].read)
          /\ Wanted(Ask(c).range, Len(io[c].blob.etag)) = start + 1 .. io[c].read.end + 1
          /\ io[c] \in [blob : {io[c].blob}, read : {io[c].read}]
    BY <1>1 DEF Sends
  <2> DEFINE read == ReadChunk(io[c].blob, io[c].read, n)
  <2>3. n \in 0 .. io[c].read.end + 1 - io[c].read.position
    OBVIOUS
  <2>4. Reading(io[c].blob, io[c].blob.etag, start, read) /\ read.end = io[c].read.end
    BY <2>2, <2>3, ReadsGoOn
  <2>5. io'[c].blob = io[c].blob /\ io'[c].read = read /\ io'[c] \in [blob : {io[c].blob}, read : {read}]
    BY <1>0, <2>1, <2>2
  <2> HIDE DEF read
  <2>6. Sends(c)'
    <3>1. BlobOf(io'[c].blob, io'[c].blob.etag)
      BY <2>2, <2>5
    <3>2. Reading(io'[c].blob, io'[c].blob.etag, start, io'[c].read)
      BY <2>4, <2>5
    <3>3. Wanted(Ask(c)'.range, Len(io'[c].blob.etag)) = start + 1 .. io'[c].read.end + 1
      BY <1>2, <2>2, <2>4, <2>5
    <3>4. io'[c] \in [blob : {io'[c].blob}, read : {io'[c].read}]
      BY <2>5
    <3> QED BY <3>1, <3>2, <3>3, <3>4 DEF Sends
  <2>7. stage'[c] = "sending" /\ got'[c].answer = None
    BY <1>0, <1>1, <1>5
  <2>8. None # "ok"
    BY RequestsAssumption
  <2> QED BY <1>1, <1>2, <1>3, <2>6, <2>7, <2>8 DEF Holding
<1> QED BY <1>4, <1>5 DEF SendPiece

\* A copy reads the whole source.
LEMMA CopyIsPlain ==
  ASSUME NEW blob, BlobOf(blob, blob.etag)
  PROVE  ReadChunk(blob, OpenBlob(blob, NoRange), Len(blob.bytes)).out \in Seq(Symbol)
<1> DEFINE plain == blob.etag
           r == OpenBlob(blob, NoRange)
<1>1. Reading(blob, plain, 0, r) /\ r.end = Len(plain) - 1
  BY ReadsStart DEF NoRange
<1>2. Len(blob.bytes) = Len(plain) /\ Len(plain) \in Nat
  BY BytesOfBlob
<1>3. r.position = r.from
  BY DEF OpenBlob
<1> HIDE DEF r
<1>4. r.from = 0
  BY <1>1 DEF Reading
<1>5. Len(blob.bytes) \in 0 .. r.end + 1 - r.position
  BY <1>1, <1>2, <1>3, <1>4
<1>6. Reading(blob, plain, 0, ReadChunk(blob, r, Len(blob.bytes)))
  BY <1>1, <1>5, ReadsGoOn
<1> QED BY <1>6 DEF Reading, r

\* What the handlers of payloads hold.
LEMMA PayloadsAreHeld ==
  ASSUME TypeInv, NEW c \in Caller,
         \/ Begin(c) \/ Receive(c) \/ Parse(c) \/ Break(c) \/ EndBody(c) \/ CommitObject(c) \/ CopyObject(c)
         \/ DeleteObject(c) \/ Open(c) \/ HangUp(c)
  PROVE  Holding(c)'
<1>0. /\ stage \in [Caller -> Stages] /\ DOMAIN io = Caller /\ DOMAIN got = Caller /\ Holding(c)
      /\ WellAsked(scenario.ask, c) /\ None # "ok"
  BY AskedWell, RequestsAssumption DEF TypeInv, Rows
<1>1. Ask(c)' = Ask(c) /\ (\A op : Asks(c, op)' <=> Asks(c, op))
  BY SameAsk DEF Begin, Receive, Parse, Break, EndBody, CommitObject, CopyObject, DeleteObject, Open, HangUp
<1>2. stage[c] \in Working => got[c].answer = None
  BY DEF TypeInv, Identified, Working
<1>3. ASSUME Asks(c, {"PutObject"}), stage'[c] \in {"done", "hung"}
      PROVE  Holding(c)'
  BY <1>1, <1>3 DEF Holding, Asks
<1>4. ASSUME Asks(c, {"PutObject"}), stage'[c] = "body", Parser(io'[c].parser), io'[c].left \in Seq(Symbol),
             io'[c] \in [parser : {io'[c].parser}, left : {io'[c].left}]
      PROVE  Holding(c)'
  BY <1>1, <1>4 DEF Holding, Asks
<1>5. stage[c] = "body" => /\ Asks(c, {"PutObject"}) /\ Parser(io[c].parser) /\ io[c].left \in Seq(Symbol)
                           /\ io[c] \in [parser : {io[c].parser}, left : {io[c].left}]
  BY <1>0 DEF Holding
<1>6. CASE Begin(c)
  <2>1. Asks(c, {"PutObject"})
    BY <1>6 DEF Begin
  <2>2. \/ stage'[c] = "done"
        \/ stage'[c] = "body" /\ \E signed \in BOOLEAN : io'[c] = [parser |-> NewParser(signed), left |-> Ask(c).wire]
    BY <1>0, <1>6 DEF Begin, Answered, Moves
  <2>3. Ask(c).wire \in Seq(Symbol)
    BY <1>0 DEF WellAsked, WellSent, Ask
  <2>4. CASE stage'[c] = "done"
    BY <1>3, <2>1, <2>4
  <2>5. CASE stage'[c] = "body" /\ \E signed \in BOOLEAN : io'[c] = [parser |-> NewParser(signed), left |-> Ask(c).wire]
    <3>1. PICK signed \in BOOLEAN : io'[c] = [parser |-> NewParser(signed), left |-> Ask(c).wire]
      BY <2>5
    <3>2. Parser(NewParser(signed))
      BY ParserStarts
    <3> QED BY <1>4, <2>1, <2>3, <2>5, <3>1, <3>2
  <2> QED BY <2>2, <2>4, <2>5
<1>7. CASE Receive(c)
  <2>1. stage[c] = "body" /\ stage'[c] = "body"
    BY <1>7 DEF Receive
  <2> DEFINE p == io[c].parser
             left == io[c].left
             Fed(piece) == IF Ask(c).framing = "plain" THEN [p EXCEPT !.out = @ \o piece] ELSE [p EXCEPT !.pending = @ \o piece]
  <2>2. PICK n \in 1 .. Len(left) :
          io' = [io EXCEPT ![c] = [parser |-> Fed(SubSeq(left, 1, n)), left |-> From(left, n + 1)]]
    BY <1>7 DEF Receive
  <2>3. SubSeq(left, 1, n) \in Seq(Symbol)
    <3>1. left \in Seq(Symbol) /\ Len(left) \in Nat
      BY <1>5, <2>1
    <3> HIDE DEF left
    <3> QED BY <3>1, PlainSlice
  <2> DEFINE piece == SubSeq(left, 1, n)
             q == Fed(piece)
  <2>4. Parser(q)
    <3> HIDE DEF piece, p
    <3>1. Parser(p) /\ piece \in Seq(Symbol)
      BY <1>5, <2>1, <2>3 DEF p, piece
    <3> QED BY <3>1, ParserIsFed
  <2>5. From(left, n + 1) \in Seq(Symbol)
    <3>1. left \in Seq(Symbol) /\ n + 1 \in Nat \ {0}
      BY <1>5, <2>1
    <3> HIDE DEF left
    <3> QED BY <3>1, FromIsSequence
  <2>6. io'[c] \in [parser : {q}, left : {From(left, n + 1)}]
    <3> HIDE DEF Fed, piece
    <3> QED BY <1>0, <2>2 DEF piece
  <2> HIDE DEF q
  <2>7. io'[c].parser = q /\ io'[c].left = From(left, n + 1)
    BY <2>6
  <2>8. Parser(io'[c].parser) /\ io'[c].left \in Seq(Symbol) /\ io'[c] \in [parser : {io'[c].parser}, left : {io'[c].left}]
    BY <2>4, <2>5, <2>6, <2>7
  <2> QED BY <1>4, <1>5, <2>1, <2>8
<1>8. CASE Parse(c)
  <2>1. stage[c] = "body" /\ stage'[c] = "body" /\ io' = [io EXCEPT ![c].parser = ConsumeOnce(@)]
    BY <1>8 DEF Parse
  <2>2. Parser(ConsumeOnce(io[c].parser))
    BY <1>5, <2>1, ParserGoesOn
  <2>3. io'[c] \in [parser : {ConsumeOnce(io[c].parser)}, left : {io[c].left}]
    BY <1>0, <1>5, <2>1
  <2>4. Parser(io'[c].parser) /\ io'[c].left \in Seq(Symbol) /\ io'[c] \in [parser : {io'[c].parser}, left : {io'[c].left}]
    BY <1>5, <2>1, <2>2, <2>3
  <2> QED BY <1>4, <1>5, <2>1, <2>4
<1>9. CASE Break(c) \/ HangUp(c)
  <2>1. stage[c] = "body" /\ stage'[c] \in {"done", "hung"}
    BY <1>0, <1>9 DEF Break, HangUp, Answered, Moves
  <2> QED BY <1>3, <1>5, <2>1
<1>10. CASE EndBody(c)
  <2> DEFINE p == IF Ask(c).framing = "plain" THEN io[c].parser ELSE Flush(io[c].parser)
  <2>1. stage[c] = "body" /\ io' = [io EXCEPT ![c].parser = p]
    BY <1>10 DEF EndBody
  <2>2. stage'[c] \in {"done", "commit"}
    BY <1>0, <1>10 DEF EndBody, Answered, Moves
  <2>3. Parser(p)
    BY <1>5, <2>1, ParserEnds
  <2> HIDE DEF p
  <2>4. io'[c].parser = p
    BY <1>0, <1>5, <2>1
  <2>5. CASE stage'[c] = "commit"
    BY <1>1, <1>5, <2>1, <2>3, <2>4, <2>5 DEF Holding, Asks
  <2> QED BY <1>3, <1>5, <2>1, <2>2, <2>5
<1>11. CASE CommitObject(c)
  <2>1. /\ stage[c] = "commit" /\ UNCHANGED io
        /\ stage'[c] = "done" \/ (stage'[c] = "take" /\ Asks(c, {"CopyObject"}))
    BY <1>0, <1>11 DEF CommitObject, Answered, Moves
  <2>2. CASE Asks(c, {"PutObject"})
    BY <1>3, <2>1, <2>2 DEF Asks
  <2>3. CASE Asks(c, {"CopyObject"})
    BY <1>0, <1>1, <2>1, <2>3 DEF Holding, Asks
  <2> QED BY <1>0, <2>1, <2>2, <2>3 DEF Holding
<1>12. CASE CopyObject(c)
  <2> DEFINE source == object[Ask(c).from]
  <2>1. /\ Asks(c, {"CopyObject"})
        /\ \/ stage'[c] = "done" /\ UNCHANGED io
           \/ /\ source # None /\ stage'[c] = "commit"
              /\ io'[c] = [out |-> ReadChunk(source, OpenBlob(source, NoRange), Len(source.bytes)).out]
    BY <1>0, <1>12 DEF CopyObject, Answered, Moves
  <2>2. source # None => BlobOf(source, source.etag)
    BY <1>0 DEF TypeInv, Rows, Tables, WellAsked, Ask
  <2> HIDE DEF source
  <2>3. source # None => ReadChunk(source, OpenBlob(source, NoRange), Len(source.bytes)).out \in Seq(Symbol)
    BY <2>2, CopyIsPlain
  <2> QED BY <1>0, <1>1, <2>1, <2>3 DEF Holding, Asks
<1>13. CASE DeleteObject(c)
  <2>1. stage'[c] = "done" /\ UNCHANGED io /\ ~Asks(c, {"GetObject"})
    BY <1>0, <1>13 DEF DeleteObject, Answered, Holding, Asks
  <2> QED BY <1>0, <1>1, <2>1 DEF Holding
<1>14. CASE Open(c)
  <2>1. CASE stage'[c] = "sending"
    <3>1. Asks(c, {"GetObject"}) /\ Sends(c)'
      BY <1>14, <2>1, SendingStarts
    <3>2. got'[c].answer = None
      <4>1. ~ Answered(c, Verdict(c, IF object[Ask(c).bucket] = None THEN NoRange
                                     ELSE ParseRange(Ask(c).range, Len(object[Ask(c).bucket].etag))))
        BY <1>0, <2>1 DEF Answered
      <4> QED BY <1>2, <1>14, <4>1 DEF Open, Working
    <3> QED BY <1>0, <1>1, <2>1, <3>1, <3>2 DEF Holding, Asks
  <2>2. CASE stage'[c] # "sending"
    <3> DEFINE range == IF object[Ask(c).bucket] = None THEN NoRange
                        ELSE ParseRange(Ask(c).range, Len(object[Ask(c).bucket].etag))
    <3>1. stage'[c] = "done" /\ UNCHANGED io /\ (Asks(c, {"HeadObject"}) \/ Verdict(c, range) # "ok")
          /\ Answered(c, Verdict(c, range)) /\ Asks(c, {"GetObject", "HeadObject"})
      BY <1>0, <1>14, <2>2 DEF Open, Answered, Moves
    <3> HIDE DEF range
    <3>2. Asks(c, {"GetObject"}) => got'[c].answer # "ok"
      <4>1. Asks(c, {"GetObject"}) => ~Asks(c, {"HeadObject"})
        BY DEF Asks
      <4>2. got'[c] = [got[c] EXCEPT !.answer = Verdict(c, range)] /\ IsGot(got[c])
        BY <1>0, <3>1 DEF Answered, TypeInv, Identified
      <4> QED BY <3>1, <4>1, <4>2 DEF IsGot
    <3> QED BY <1>0, <1>1, <3>1, <3>2 DEF Holding, Asks
  <2> QED BY <2>1, <2>2
<1> QED BY <1>6, <1>7, <1>8, <1>9, <1>10, <1>11, <1>12, <1>13, <1>14

\* What the other handlers hold.
LEMMA RulesAreHeld ==
  ASSUME TypeInv, NEW c \in Caller,
         \/ SetPolicy(c) \/ DeletePolicy(c) \/ SetAcl(c) \/ SetCors(c) \/ Preflight(c) \/ SetGrant(c)
         \/ FindBucket(c) \/ InsertBucket(c) \/ AclOfNewBucket(c) \/ CountAndDelete(c) \/ Read(c)
         \/ CheckKey(c) \/ ChangeKey(c) \/ Share(c)
  PROVE  Holding(c)'
<1>0. /\ stage \in [Caller -> Stages] /\ DOMAIN io = Caller /\ DOMAIN got = Caller /\ Holding(c) /\ Decided(c)
      /\ WellAsked(scenario.ask, c) /\ None \notin BucketRow /\ DOMAIN bucket = Bucket
  BY AskedWell, RowsAssumption DEF TypeInv, Rows, Tables
<1>1. Work(c)
  BY DEF Work
<1>2. Ask(c)' = Ask(c) /\ (\A op : Asks(c, op)' <=> Asks(c, op))
  BY <1>1, OneIsHandled, SameAsk DEF Onward
<1>3. UNCHANGED io
  BY DEF Preflight, FindBucket, Read, CheckKey, Share, SetPolicy, DeletePolicy, SetAcl, SetCors, SetGrant,
         InsertBucket, AclOfNewBucket, CountAndDelete, ChangeKey
<1>4. ASSUME stage'[c] \in {"done", "drop", "work"}, ~Asks(c, {"GetObject"})
      PROVE  Holding(c)'
  BY <1>0, <1>2, <1>3, <1>4 DEF Holding
<1>5. CASE FindBucket(c)
  <2>1. Asks(c, {"CreateBucket"}) /\ stage'[c] \in {"done", "insert"}
    BY <1>0, <1>5 DEF FindBucket, Answered, Moves
  <2>2. CASE stage'[c] = "done"
    BY <1>4, <2>1, <2>2 DEF Asks
  <2>3. CASE stage'[c] = "insert"
    <3>1. Ask(c).door = "s3" => ~Anonymous(c)
      BY <1>0, <1>5, <2>3 DEF FindBucket, Answered
    <3>2. got[c].user \in User \cup {None} /\ stage[c] = "work" /\ Identified(c)
      BY <1>5 DEF FindBucket, TypeInv, Identified, IsGot
    <3>3. Ask(c).door = "api" => got[c].user = Ask(c).user /\ Ask(c).user \in User
      BY <1>0, <2>1, <3>2 DEF Identified, WellAsked, Ask, Asks
    <3>4. Ask(c).door \in {"s3", "api"}
      BY <1>0 DEF WellAsked, Ask
    <3>5. got'[c].user \in User
      BY <1>1, <3>1, <3>2, <3>3, <3>4, HandledStaysKnown DEF Anonymous
    <3> QED BY <1>2, <1>3, <2>1, <2>3, <3>5 DEF Holding, Asks
  <2> QED BY <2>1, <2>2, <2>3
<1>6. CASE InsertBucket(c)
  <2>1. Asks(c, {"CreateBucket"})
    BY <1>0, <1>6 DEF InsertBucket, Holding
  <2>2. \/ stage'[c] = "done"
        \/ /\ stage'[c] = "acl" /\ Ask(c).acl # None
           /\ bucket' = [bucket EXCEPT ![Ask(c).bucket] =
                            [deleted |-> FALSE, owner |-> got[c].user, acl |-> "private", cors |-> <<>>]]
    BY <1>0, <1>6 DEF InsertBucket, Answered, Moves
  <2>3. CASE stage'[c] = "done"
    BY <1>4, <2>1, <2>3 DEF Asks
  <2>4. CASE stage'[c] = "acl"
    <3>1. [deleted |-> FALSE, owner |-> got[c].user, acl |-> "private", cors |-> <<>>] \in BucketRow
      BY <1>0, <1>6 DEF InsertBucket, Holding, BucketRow, Acls
    <3>2. bucket'[Ask(c).bucket] # None
      BY <1>0, <2>2, <2>4, <3>1 DEF WellAsked, Ask
    <3> QED BY <1>2, <1>3, <2>1, <2>2, <2>4, <3>2 DEF Holding, Asks
  <2> QED BY <2>2, <2>3, <2>4
<1>7. CASE AclOfNewBucket(c)
  <2>1. Asks(c, {"CreateBucket"}) /\ stage'[c] = "done"
    BY <1>0, <1>7 DEF AclOfNewBucket, Holding, Answered
  <2> QED BY <1>4, <2>1 DEF Asks
<1>8. CASE CheckKey(c)
  <2>1. Asks(c, KeyCalls) /\ stage'[c] \in {"done", "work"}
    BY <1>0, <1>8 DEF CheckKey, Decided, Answered, Moves
  <2> QED BY <1>4, <2>1 DEF Asks, KeyCalls
<1>9. CASE \/ SetPolicy(c) \/ DeletePolicy(c) \/ SetAcl(c) \/ SetCors(c) \/ Preflight(c) \/ SetGrant(c)
           \/ CountAndDelete(c) \/ Read(c) \/ ChangeKey(c) \/ Share(c)
  <2>1. ~Asks(c, {"GetObject"})
    BY <1>9 DEF SetPolicy, DeletePolicy, SetAcl, SetCors, Preflight, SetGrant, CountAndDelete, Read, ChangeKey, Share,
                Asks, KeyCalls
  <2>2. stage'[c] \in {"done", "drop"}
    BY <1>0, <1>9 DEF SetPolicy, DeletePolicy, SetAcl, SetCors, Preflight, SetGrant, CountAndDelete, Read, ChangeKey,
                      Share, Answered, Moves
  <2> QED BY <1>4, <2>1, <2>2
<1> QED BY <1>5, <1>6, <1>7, <1>8, <1>9

\* Handlers keep the invariant.
LEMMA HandlersKeepTypes ==
  ASSUME TypeInv, NEW c \in Caller, Work(c) \/ HangUp(c)
  PROVE  TypeInv'
<1>1. Rows' /\ Onward /\ \A d \in Caller \ {c} : stage'[d] = stage[d] /\ got'[d] = got[d] /\ io'[d] = io[d]
  BY OneIsHandled
<1>2. Identified(c)' /\ Decided(c)'
  BY HandledStaysKnown
<1>3. Holding(c)'
  BY RulesAreHeld, PayloadsAreHeld, SendingGoesOn DEF Work
<1>4. \A d \in Caller \ {c} : Identified(d)' /\ Decided(d)' /\ Holding(d)'
  BY <1>1, OthersKept
<1> QED BY <1>1, <1>2, <1>3, <1>4 DEF TypeInv

-----------------------------------------------------------------------------
\* A decision changes no row; those of the rate limit count.
LEMMA OneIsDecided ==
  ASSUME TypeInv, NEW c \in Caller, Decide(c)
  PROVE  /\ Rows' /\ Onward /\ UNCHANGED <<scenario, rules, object, now, io>>
         /\ \A d \in Caller \ {c} : stage'[d] = stage[d] /\ got'[d] = got[d]
<1>0. Rows /\ IsGot(got[c])
  BY DEF TypeInv, Identified
<1>1. UNCHANGED <<scenario, rules, object, now, io>>
  BY DEF Decide, Guard, PassUncounted, Increment, Arm, ReadRow, EvaluatePolicy, ReadOwner, ReadGrant
<1>2. /\ outages' = outages
      /\ \A at \in DOMAIN counter' : counter'[at] \in Nat \ {0}
  <2>1. CASE UNCHANGED <<counter, outages>>
    BY <1>0, <2>1 DEF Rows
  <2>2. CASE Increment(c)
    <3>1. Hits(SubjectOf(c), WindowIndex) \in Nat
      BY <1>0 DEF Hits, Rows
    <3> QED BY <1>0, <2>2, <3>1 DEF Increment, Rows
  <2> QED BY <2>1, <2>2 DEF Decide, Guard, PassUncounted, Arm, ReadRow, EvaluatePolicy, ReadOwner, ReadGrant, store
<1>3. stage' \in [Caller -> Stages] /\ \A d \in Caller \ {c} : stage'[d] = stage[d]
  <2>1. \E to \in Stages : stage' = [stage EXCEPT ![c] = to]
    BY DEF Decide, Guard, PassUncounted, Increment, Arm, ReadRow, EvaluatePolicy, ReadOwner, ReadGrant, Granted,
           Answered, Moves, Dispatch, Stages
  <2> QED BY <1>0, <2>1 DEF Rows
<1>4. /\ DOMAIN got' = Caller /\ \A d \in Caller \ {c} : got'[d] = got[d]
      /\ got'[c].link = got[c].link
  <2>1. CASE Guard(c)
    BY <1>0, <2>1 DEF Guard, Answered, Rows, IsGot
  <2>2. CASE PassUncounted(c) \/ Increment(c) \/ Arm(c)
    BY <1>0, <2>2 DEF PassUncounted, Increment, Arm, Answered, Dispatch, Rows, IsGot
  <2>3. CASE ReadRow(c) \/ EvaluatePolicy(c) \/ ReadOwner(c) \/ ReadGrant(c)
    <3>1. \/ UNCHANGED got
          \/ \E x : got' = [got EXCEPT ![c].answer = x]
          \/ \E x : got' = [got EXCEPT ![c].row = x]
          \/ \E x : got' = [got EXCEPT ![c].need = x]
      BY <2>3 DEF ReadRow, EvaluatePolicy, ReadOwner, ReadGrant, Answered, Granted
    <3> QED BY <1>0, <3>1 DEF Rows, IsGot
  <2> QED BY <2>1, <2>2, <2>3 DEF Decide
<1>5. Onward
  <2>1. \A d \in Caller : got'[d].link = got[d].link
    BY <1>4
  <2> QED BY <1>1, <2>1 DEF Onward, rules
<1>6. MaxOutages' = MaxOutages /\ MaxTime' = MaxTime
  BY <1>1 DEF MaxOutages, MaxTime
<1>7. Tables'
  BY <1>0, <1>1 DEF Rows, Tables, rules
<1> QED BY <1>0, <1>1, <1>2, <1>3, <1>4, <1>5, <1>6, <1>7 DEF Rows

\* Whose call it is does not change after the guard.
LEMMA StaysIdentified ==
  ASSUME TypeInv, Onward, NEW c \in Caller, stage[c] \in {"limit", "arm"} \cup Deciding,
         IsGot(got'[c]), got'[c].at = got[c].at, got'[c].user = got[c].user, got'[c].key = got[c].key,
         got'[c].link = got[c].link, stage'[c] \notin {"unsent", "guard"},
         stage'[c] # "done" => got'[c].answer = got[c].answer
  PROVE  Identified(c)'
<1>1. Identified(c) /\ Rows /\ IsGot(got[c])
  BY DEF TypeInv, Identified
<1>2. Ask(c)' = Ask(c) /\ (\A op : Asks(c, op)' <=> Asks(c, op))
  BY SameAsk DEF Onward
<1>3. Signed(c)' = Signed(c)
  BY SameSignature DEF Deciding
<1>4. IsGot(got[c])'
  OBVIOUS
<1>5. got[c].key # None => got'[c].user = key'[got'[c].key].user
  <2>1. got[c].key # None => got[c].key \in KeyId /\ got[c].user = key[got[c].key].user
    BY <1>1 DEF Identified, IsGot
  <2> QED BY <2>1 DEF Onward
<1>6. Ask(c).opens # None => got'[Ask(c).opens].link # None
  <2>1. Ask(c).opens # None => Ask(c).opens \in Caller
    BY <1>1, AskedWell DEF WellAsked, Ask
  <2> QED BY <1>1, <2>1 DEF Identified, Onward, Deciding
<1>7. got[c].link = None /\ got[c].answer = None
  BY <1>1 DEF Identified, Deciding
<1> QED BY <1>1, <1>2, <1>3, <1>4, <1>5, <1>6, <1>7 DEF Identified, Deciding

\* A call that is decided about holds nothing.
LEMMA NothingIsHeld ==
  ASSUME TypeInv, NEW c \in Caller, Decide(c), IsGot(got'[c]), got'[c].answer # "ok",
         stage'[c] \in {"limit", "arm", "key", "work", "done"} \cup Deciding
  PROVE  Holding(c)'
<1>1. Onward /\ UNCHANGED io /\ Holding(c)
  BY OneIsDecided DEF TypeInv
<1>2. Ask(c)' = Ask(c) /\ (\A op : Asks(c, op)' <=> Asks(c, op))
  BY <1>1, SameAsk DEF Onward
<1> QED BY <1>1, <1>2 DEF Holding, Deciding

\* The guard: a caller with a key is the user of that key.
LEMMA GuardKeepsTypes ==
  ASSUME TypeInv, NEW c \in Caller, Guard(c)
  PROVE  Identified(c)' /\ Decided(c)' /\ Holding(c)'
<1>0. /\ Rows /\ Onward /\ Decide(c) /\ Identified(c) /\ Decided(c) /\ IsGot(got[c]) /\ stage[c] = "guard"
      /\ WellAsked(scenario.ask, c) /\ DOMAIN got = Caller /\ stage \in [Caller -> Stages]
  <2>1. Decide(c) /\ stage[c] = "guard"
    BY DEF Decide, Guard
  <2> QED BY <2>1, OneIsDecided, AskedWell DEF TypeInv, Rows, Identified
<1>1. /\ Ask(c)' = Ask(c) /\ NeedsOf(c)' = NeedsOf(c) /\ (\A op : Asks(c, op)' <=> Asks(c, op))
      /\ UNCHANGED key
  BY <1>0, SameAsk DEF Onward, Guard, rules
<1>2. /\ Ask(c).door = "s3" /\ got[c].key = None /\ got[c].user = None /\ got[c].need = 1 /\ got[c].link = None
      /\ got[c].answer = None /\ None # "ok"
  BY <1>0, RequestsAssumption DEF Identified, Decided, Early
<1>3. /\ IsGot(got'[c]) /\ got'[c].at = got[c].at /\ got'[c].link = got[c].link /\ got'[c].need = 1
      /\ stage'[c] \in {"limit", "done"} /\ got'[c].answer # "ok"
      /\ stage'[c] = "limit" => got'[c].answer = None
      /\ got'[c].key # None => /\ got'[c].user = key[got'[c].key].user /\ got'[c].key \in KeyId
                               /\ Ask(c).auth # "none" /\ Ask(c).genuine
      /\ got'[c].key = None => got'[c].user = None
      /\ stage'[c] = "limit" => IF Ask(c).auth = "none" THEN got'[c].key = None ELSE got'[c].key # None /\ got'[c].key = Signed(c).key
  <2>1. CASE Moves(c, "limit") /\ UNCHANGED got /\ Ask(c).auth = "none"
    BY <1>0, <1>2, <2>1 DEF Moves
  <2>2. CASE /\ Ask(c).auth # "none" /\ Refusal(c) = "none" /\ Moves(c, "limit")
             /\ got' = [got EXCEPT ![c].key = Signed(c).key, ![c].user = key[Signed(c).key].user]
    <3>1. Signed(c).key \in KeyId /\ Ask(c).genuine
      BY <2>2 DEF Refusal, Authentic
    <3>2. key[Signed(c).key].user \in User /\ Signed(c).key # None
      BY <1>0, <3>1, RequestsAssumption DEF Rows, Tables, KeyRow
    <3>3. got'[c] = [got[c] EXCEPT !.key = Signed(c).key, !.user = key[Signed(c).key].user]
      BY <1>0, <2>2
    <3>4. stage'[c] = "limit"
      BY <1>0, <2>2 DEF Moves
    <3>5. /\ IsGot(got'[c]) /\ got'[c].at = got[c].at /\ got'[c].link = got[c].link /\ got'[c].need = got[c].need
          /\ got'[c].answer = got[c].answer /\ got'[c].key = Signed(c).key /\ got'[c].user = key[Signed(c).key].user
      BY <1>0, <3>1, <3>2, <3>3, ZenonT(60) DEF IsGot
    <3> QED BY <1>2, <2>2, <3>1, <3>2, <3>4, <3>5
  <2>3. CASE Answered(c, Refusal(c))
    <3>1. Refusal(c) # "ok"
      BY DEF Refusal
    <3>2. stage'[c] = "done" /\ got'[c] = [got[c] EXCEPT !.answer = Refusal(c)]
      BY <1>0, <2>3 DEF Answered
    <3> QED BY <1>0, <1>2, <3>1, <3>2 DEF IsGot
  <2> QED BY <2>1, <2>2, <2>3 DEF Guard
<1>4. Signed(c)' = Signed(c)
  BY <1>0, <1>3, SameSignature
<1>5. Identified(c)'
  <2>1. Ask(c).opens # None => got'[Ask(c).opens].link # None
    <3>1. Ask(c).opens # None => Ask(c).opens \in Caller
      BY <1>0 DEF WellAsked, Ask
    <3> QED BY <1>0, <3>1 DEF Identified, Onward
  <2>2. IsGot(got[c])'
    BY <1>3
  <2> QED BY <1>1, <1>2, <1>3, <1>4, <2>1, <2>2 DEF Identified
<1>6. Decided(c)'
  <2>1. Len(NeedsOf(c)) \in Nat
    BY <1>0, NeedsKnown
  <2> QED BY <1>1, <1>3, <2>1 DEF Decided, Early, Working
<1>7. Holding(c)'
  BY <1>0, <1>3, NothingIsHeld
<1> QED BY <1>5, <1>6, <1>7

\* The rate limit.
LEMMA LimitKeepsTypes ==
  ASSUME TypeInv, NEW c \in Caller, PassUncounted(c) \/ Increment(c) \/ Arm(c)
  PROVE  Identified(c)' /\ Decided(c)' /\ Holding(c)'
<1>0. /\ Rows /\ Onward /\ Decide(c) /\ Identified(c) /\ Decided(c) /\ IsGot(got[c]) /\ stage[c] \in {"limit", "arm"}
      /\ DOMAIN got = Caller /\ stage \in [Caller -> Stages]
  <2>1. Decide(c) /\ stage[c] \in {"limit", "arm"}
    BY DEF Decide, PassUncounted, Increment, Arm
  <2> QED BY <2>1, OneIsDecided DEF TypeInv, Rows, Identified
<1>1. /\ Ask(c)' = Ask(c) /\ NeedsOf(c)' = NeedsOf(c) /\ (\A op : Asks(c, op)' <=> Asks(c, op))
  BY <1>0, SameAsk DEF Onward
<1>2. got[c].need = 1 /\ got[c].answer = None /\ None # "ok"
  BY <1>0, RequestsAssumption DEF Identified, Decided, Early
<1>3. Len(NeedsOf(c)) \in Nat /\ ((NeedsOf(c) = <<>>) <=> (Len(NeedsOf(c)) = 0)) /\ (Asks(c, KeyCalls) => NeedsOf(c) = <<>>)
  BY <1>0, NeedsKnown, NeedsOfHandlers DEF Asks
<1>4. \/ \E x : got'[c] = [got[c] EXCEPT !.counted = x] /\ stage'[c] = "arm"
      \/ \E x : /\ got'[c] = [got[c] EXCEPT !.counted = x]
                /\ stage'[c] = IF Asks(c, KeyCalls) THEN "key"
                               ELSE IF NeedsOf(c) = <<>> /\ ~Asks(c, {"Preflight"}) THEN "work" ELSE "row"
      \/ got'[c] = [got[c] EXCEPT !.answer = "SlowDown"] /\ stage'[c] = "done"
  BY <1>0 DEF PassUncounted, Increment, Arm, Dispatch, Answered, Moves
<1>5. /\ IsGot(got'[c]) /\ got'[c].at = got[c].at /\ got'[c].user = got[c].user /\ got'[c].key = got[c].key
      /\ got'[c].link = got[c].link /\ got'[c].need = got[c].need /\ got'[c].answer # "ok"
      /\ stage'[c] # "done" => got'[c].answer = got[c].answer
  BY <1>0, <1>2, <1>4, ZenonT(60) DEF IsGot
<1>6. stage'[c] \in {"arm", "key", "work", "row", "done"}
  BY <1>4
<1>7. Identified(c)'
  BY <1>0, <1>5, <1>6, StaysIdentified
<1>8. Decided(c)'
  <2>1. stage'[c] = "row" => Asks(c, {"Preflight"}) \/ 1 =< Len(NeedsOf(c))
    <3>1. stage'[c] = "row" => Asks(c, {"Preflight"}) \/ NeedsOf(c) # <<>>
      BY <1>4
    <3> QED BY <1>3, <3>1
  <2>2. stage'[c] \in {"key", "work"} => Len(NeedsOf(c)) = 0
    BY <1>3, <1>4
  <2>3. stage'[c] = "key" => Asks(c, KeyCalls)
    BY <1>4
  <2>4. \A n \in 1 .. got'[c].need - 1 : FALSE
    BY <1>2, <1>5
  <2> QED BY <1>1, <1>2, <1>3, <1>5, <1>6, <2>1, <2>2, <2>3, <2>4 DEF Decided, Early, Working
<1>9. Holding(c)'
  BY <1>0, <1>5, <1>6, NothingIsHeld DEF Deciding
<1> QED BY <1>7, <1>8, <1>9

\* The authorization: the rows it looks at are there.
LEMMA AuthorizationKeepsTypes ==
  ASSUME TypeInv, NEW c \in Caller, ReadRow(c) \/ EvaluatePolicy(c) \/ ReadOwner(c) \/ ReadGrant(c)
  PROVE  Identified(c)' /\ Decided(c)' /\ Holding(c)'
<1>0. /\ Rows /\ Onward /\ Decide(c) /\ Identified(c) /\ Decided(c) /\ IsGot(got[c]) /\ stage[c] \in Deciding
      /\ DOMAIN got = Caller /\ stage \in [Caller -> Stages] /\ WellAsked(scenario.ask, c) /\ UNCHANGED bucket
  <2>1. Decide(c) /\ stage[c] \in Deciding
    BY DEF Decide, ReadRow, EvaluatePolicy, ReadOwner, ReadGrant, Deciding
  <2> QED BY <2>1, OneIsDecided, AskedWell DEF TypeInv, Rows, Identified, rules
<1>1. /\ Ask(c)' = Ask(c) /\ NeedsOf(c)' = NeedsOf(c) /\ (\A op : Asks(c, op)' <=> Asks(c, op))
  BY <1>0, SameAsk DEF Onward
<1>2. /\ got[c].answer = None /\ None # "ok" /\ got[c].need \in Nat \ {0}
      /\ Len(NeedsOf(c)) \in Nat /\ \A n \in 1 .. Len(NeedsOf(c)) : NeedsOf(c)[n].bucket \in Bucket
  BY <1>0, RequestsAssumption, NeedsKnown DEF Identified, Deciding, IsGot
<1>3. ASSUME NEW a, Answered(c, a), a # "ok"
      PROVE  Identified(c)' /\ Decided(c)' /\ Holding(c)'
  <2>1. stage'[c] = "done" /\ got'[c] = [got[c] EXCEPT !.answer = a]
    BY <1>0, <1>3 DEF Answered
  <2>2. /\ IsGot(got'[c]) /\ got'[c].at = got[c].at /\ got'[c].user = got[c].user /\ got'[c].key = got[c].key
        /\ got'[c].link = got[c].link /\ got'[c].need = got[c].need /\ got'[c].answer = a
    BY <1>0, <2>1 DEF IsGot
  <2>3. Identified(c)'
    BY <1>0, <2>1, <2>2, StaysIdentified
  <2>4. Decided(c)'
    BY <1>0, <1>1, <2>1, <2>2 DEF Decided, Early, Working
  <2>5. Holding(c)'
    BY <1>0, <1>3, <2>1, <2>2, NothingIsHeld
  <2> QED BY <2>3, <2>4, <2>5
<1>4. ASSUME Granted(c), got[c].need =< Len(NeedsOf(c)), bucket[Need(c).bucket] # None
      PROVE  Identified(c)' /\ Decided(c)' /\ Holding(c)'
  <2>1. /\ stage'[c] = IF got[c].need + 1 > Len(NeedsOf(c)) THEN "work" ELSE "row"
        /\ got'[c] = [got[c] EXCEPT !.need = got[c].need + 1]
    BY <1>0, <1>4 DEF Granted, NextNeed, Moves
  <2>2. /\ IsGot(got'[c]) /\ got'[c].at = got[c].at /\ got'[c].user = got[c].user /\ got'[c].key = got[c].key
        /\ got'[c].link = got[c].link /\ got'[c].need = got[c].need + 1 /\ got'[c].answer = got[c].answer
    BY <1>0, <1>2, <2>1 DEF IsGot
  <2>3. stage'[c] \in {"work", "row"}
    BY <2>1
  <2>4. Identified(c)'
    BY <1>0, <2>2, <2>3, StaysIdentified
  <2>5. Decided(c)'
    <3>1. got'[c].need =< Len(NeedsOf(c)) + 1 /\ (stage'[c] = "row" => got'[c].need =< Len(NeedsOf(c)))
          /\ (stage'[c] = "work" => got'[c].need = Len(NeedsOf(c)) + 1)
      BY <1>2, <1>4, <2>1, <2>2
    <3>2. \A n \in 1 .. got'[c].need - 1 : bucket[NeedsOf(c)[n].bucket] # None
      <4> TAKE n \in 1 .. got'[c].need - 1
      <4>1. n \in 1 .. got[c].need - 1 \/ n = got[c].need
        BY <1>2, <2>2
      <4> QED BY <1>0, <1>4, <4>1 DEF Decided, Need
    <3> QED BY <1>0, <1>1, <2>3, <3>1, <3>2 DEF Decided, Early, Working
  <2>6. Holding(c)'
    BY <1>0, <1>2, <2>2, <2>3, NothingIsHeld DEF Deciding
  <2> QED BY <2>4, <2>5, <2>6
<1>5. ASSUME NEW to \in {"owner", "grant"}, Moves(c, to), UNCHANGED got, stage[c] \in {"policy", "owner"},
             got[c].user \in User, to = "grant" => Ask(c).door = "s3" \/ Ask(c).role # "admin"
      PROVE  Identified(c)' /\ Decided(c)' /\ Holding(c)'
  <2>1. stage'[c] = to
    BY <1>0, <1>5 DEF Moves
  <2>2. Identified(c)'
    BY <1>0, <1>5, <2>1, StaysIdentified
  <2>3. Need(c)' = Need(c)
    BY <1>1, <1>5 DEF Need
  <2>4. Decided(c)'
    BY <1>0, <1>1, <1>5, <2>1, <2>3 DEF Decided, Early, Working
  <2>5. Holding(c)'
    BY <1>0, <1>2, <1>5, <2>1, NothingIsHeld DEF Deciding
  <2> QED BY <2>2, <2>4, <2>5
<1>6. stage[c] \in {"policy", "owner", "grant"} => got[c].need =< Len(NeedsOf(c)) /\ bucket[Need(c).bucket] # None
  BY <1>0 DEF Decided
<1>7. CASE ReadRow(c)
  <2> DEFINE b == IF Asks(c, {"Preflight"}) THEN Ask(c).bucket ELSE Need(c).bucket
  <2>1. CASE Answered(c, "NoSuchBucket")
    BY <1>3, <2>1
  <2>2. CASE /\ ~Missing(b) /\ got' = [got EXCEPT ![c].row = bucket[b]]
             /\ Moves(c, IF Asks(c, {"Preflight"}) THEN "work" ELSE IF Ask(c).door = "s3" THEN "policy" ELSE "owner")
    <3>1. stage[c] = "row"
      BY <1>7 DEF ReadRow
    <3>2. Asks(c, {"Preflight"}) => NeedsOf(c) = <<>>
      BY <1>0, NeedsOfHandlers DEF Asks
    <3>3. ~Asks(c, {"Preflight"}) => got[c].need \in 1 .. Len(NeedsOf(c))
      BY <1>0, <1>2, <3>1 DEF Decided
    <3>4. b \in Bucket
      BY <1>0, <1>2, <3>3 DEF Need, WellAsked, Ask
    <3>5. bucket[b] # None /\ bucket[b] \in BucketRow
      BY <1>0, <2>2, <3>4 DEF Missing, Rows, Tables
    <3> DEFINE row == bucket[b]
    <3>6. got'[c] = [got[c] EXCEPT !.row = row]
      BY <1>0, <2>2
    <3>7. stage'[c] = IF Asks(c, {"Preflight"}) THEN "work" ELSE IF Ask(c).door = "s3" THEN "policy" ELSE "owner"
      BY <1>0, <2>2 DEF Moves
    <3> HIDE DEF b
    <3>8. /\ IsGot(got'[c]) /\ got'[c].at = got[c].at /\ got'[c].user = got[c].user /\ got'[c].key = got[c].key
          /\ got'[c].link = got[c].link /\ got'[c].need = got[c].need /\ got'[c].answer = got[c].answer
          /\ got'[c].row = row
      <4> HIDE DEF row
      <4> QED BY <1>0, <3>5, <3>6 DEF IsGot, row
    <3>9. stage'[c] \in {"work", "policy", "owner"}
      BY <3>7
    <3>10. Identified(c)'
      BY <1>0, <3>8, <3>9, StaysIdentified
    <3>11. Decided(c)'
      <4>1. Need(c)' = Need(c)
        BY <1>1, <3>8 DEF Need
      <4>2. stage'[c] = "owner" => got'[c].user \in User
        <5>1. HAVE stage'[c] = "owner"
        <5>2. ~Asks(c, {"Preflight"}) /\ Ask(c).door = "api"
          BY <1>0, <3>7, <5>1 DEF WellAsked, Ask
        <5>3. got[c].user = Ask(c).user
          BY <1>0, <5>2 DEF Identified, Deciding
        <5>4. Ask(c).op # "SignIn"
          <6>1. Asks(c, {"SignIn"}) => Len(NeedsOf(c)) = 0
            BY <1>0, NeedsOfHandlers DEF Asks
          <6> QED BY <3>3, <5>2, <6>1 DEF Asks
        <5> QED BY <1>0, <3>8, <5>2, <5>3, <5>4 DEF WellAsked, Ask
      <4>3. stage'[c] = "policy" => Ask(c).door = "s3"
        BY <3>7
      <4>4. stage'[c] \in {"policy", "owner"} => /\ got[c].need =< Len(NeedsOf(c)) /\ bucket[Need(c).bucket] # None
                                                 /\ got'[c].row \in BucketRow
        BY <3>3, <3>5, <3>7, <3>8 DEF b
      <4>5. stage'[c] = "work" => got'[c].need = Len(NeedsOf(c)) + 1
        <5>1. stage'[c] = "work" => Asks(c, {"Preflight"})
          BY <3>7
        <5> QED BY <1>0, <1>2, <3>2, <3>8, <5>1 DEF Decided
      <4> QED BY <1>0, <1>1, <3>8, <3>9, <4>1, <4>2, <4>3, <4>4, <4>5 DEF Decided, Early, Working
    <3>12. Holding(c)'
      BY <1>0, <1>2, <3>8, <3>9, NothingIsHeld DEF Deciding
    <3> QED BY <3>10, <3>11, <3>12
  <2> QED BY <1>7, <2>1, <2>2 DEF ReadRow
<1>8. CASE EvaluatePolicy(c)
  <2>1. stage[c] = "policy"
    BY <1>8 DEF EvaluatePolicy
  <2>2. \/ Answered(c, "AccessDenied") \/ Granted(c)
        \/ ~Anonymous(c) /\ Moves(c, "owner") /\ UNCHANGED got
    BY <1>8 DEF EvaluatePolicy
  <2>3. ~Anonymous(c) => got[c].user \in User
    BY <1>0 DEF Anonymous, IsGot
  <2> QED BY <1>3, <1>4, <1>5, <1>6, <2>1, <2>2, <2>3
<1>9. CASE ReadOwner(c)
  <2>1. stage[c] = "owner" /\ got[c].user \in User
    BY <1>0, <1>9 DEF ReadOwner, Decided
  <2>2. \/ Answered(c, "NoSuchBucket") \/ Granted(c)
        \/ (Ask(c).door = "s3" \/ Ask(c).role # "admin") /\ Moves(c, "grant") /\ UNCHANGED got
    BY <1>9 DEF ReadOwner
  <2> QED BY <1>3, <1>4, <1>5, <1>6, <2>1, <2>2
<1>10. CASE ReadGrant(c)
  <2>1. stage[c] = "grant"
    BY <1>10 DEF ReadGrant
  <2>2. \/ Answered(c, "NoSuchBucket") \/ Answered(c, "AccessDenied") \/ Granted(c)
    BY <1>10 DEF ReadGrant
  <2> QED BY <1>3, <1>4, <1>6, <2>1, <2>2
<1> QED BY <1>7, <1>8, <1>9, <1>10

\* Decisions keep the invariant.
LEMMA DecisionsKeepTypes ==
  ASSUME TypeInv, NEW c \in Caller, Decide(c)
  PROVE  TypeInv'
<1>1. Rows' /\ Onward /\ UNCHANGED io /\ \A d \in Caller \ {c} : stage'[d] = stage[d] /\ got'[d] = got[d]
  BY OneIsDecided
<1>2. Identified(c)' /\ Decided(c)' /\ Holding(c)'
  BY GuardKeepsTypes, LimitKeepsTypes, AuthorizationKeepsTypes DEF Decide
<1>3. \A d \in Caller \ {c} : Identified(d)' /\ Decided(d)' /\ Holding(d)'
  BY <1>1, OthersKept
<1> QED BY <1>1, <1>2, <1>3 DEF TypeInv

-----------------------------------------------------------------------------
\* A call is sent.
LEMMA SendKeepsTypes ==
  ASSUME TypeInv, NEW c \in Caller, Send(c)
  PROVE  TypeInv'
<1>0. /\ Rows /\ Identified(c) /\ Decided(c) /\ Holding(c) /\ IsGot(got[c]) /\ stage[c] = "unsent" /\ now \in Nat
      /\ DOMAIN got = Caller /\ stage \in [Caller -> Stages] /\ WellAsked(scenario.ask, c) /\ None # "ok"
  <2>1. Rows /\ Identified(c) /\ Decided(c) /\ Holding(c)
    BY DEF TypeInv
  <2>2. MaxTime \in Nat
    BY <2>1, RequestsAssumption DEF MaxTime, Rows
  <2> QED BY <2>1, <2>2, AskedWell, RequestsAssumption DEF Rows, Identified, Send
<1>1. UNCHANGED <<scenario, rules, object, store, now, io>>
  BY DEF Send
<1>2. /\ stage'[c] = IF Ask(c).door = "s3" THEN "guard" ELSE "limit"
      /\ got'[c] = [got[c] EXCEPT !.at = now, !.user = IF Ask(c).door = "api" THEN Ask(c).user ELSE None]
      /\ stage' \in [Caller -> Stages] /\ DOMAIN got' = Caller
      /\ \A d \in Caller \ {c} : stage'[d] = stage[d] /\ got'[d] = got[d]
  BY <1>0 DEF Send, Moves, Stages
<1>3. (IF Ask(c).door = "api" THEN Ask(c).user ELSE None) \in User \cup {None}
  BY <1>0 DEF WellAsked, Ask
<1>4. /\ IsGot(got'[c]) /\ got'[c].key = got[c].key /\ got'[c].link = got[c].link /\ got'[c].need = got[c].need
      /\ got'[c].answer = got[c].answer /\ got'[c].user = IF Ask(c).door = "api" THEN Ask(c).user ELSE None
  BY <1>0, <1>2, <1>3 DEF IsGot
<1>5. Onward
  <2>1. \A d \in Caller : got'[d].link = got[d].link
    BY <1>2, <1>4
  <2> QED BY <1>1, <2>1 DEF Onward, rules
<1>6. /\ Ask(c)' = Ask(c) /\ NeedsOf(c)' = NeedsOf(c) /\ (\A op : Asks(c, op)' <=> Asks(c, op))
  BY <1>5, SameAsk DEF Onward
<1>7. Rows'
  <2>1. Tables'
    BY <1>0, <1>1 DEF Rows, Tables, rules
  <2> QED BY <1>0, <1>1, <1>2, <2>1 DEF Rows, store, MaxOutages, MaxTime
<1>8. Ask(c).door \in {"s3", "api"}
  BY <1>0 DEF WellAsked, Ask
<1>9. Identified(c)'
  <2>1. got[c].key = None /\ got[c].link = None /\ got[c].answer = None
    BY <1>0 DEF Identified
  <2>2. Ask(c).opens # None => got'[Ask(c).opens].link # None
    <3>1. Ask(c).opens # None => Ask(c).opens \in Caller /\ got[Ask(c).opens].link # None
      BY <1>0 DEF WellAsked, Ask, Send
    <3> QED BY <1>5, <3>1 DEF Onward
  <2>3. IsGot(got[c])'
    BY <1>4
  <2> QED BY <1>2, <1>4, <1>6, <1>8, <2>1, <2>2, <2>3 DEF Identified
<1>10. Decided(c)'
  <2>1. stage'[c] \in {"guard", "limit"} /\ got[c].need = 1 /\ Len(NeedsOf(c)) \in Nat
    BY <1>0, <1>2, NeedsKnown DEF Decided, Early
  <2> QED BY <1>4, <1>6, <2>1 DEF Decided, Early, Working
<1>11. Holding(c)'
  <2>1. stage'[c] \in {"guard", "limit"} /\ got'[c].answer = None
    BY <1>0, <1>2, <1>4 DEF Identified
  <2> QED BY <1>0, <1>1, <1>6, <2>1 DEF Holding
<1>12. \A d \in Caller \ {c} : Identified(d)' /\ Decided(d)' /\ Holding(d)'
  BY <1>1, <1>2, <1>5, OthersKept
<1> QED BY <1>7, <1>9, <1>10, <1>11, <1>12 DEF TypeInv

\* The clock and the store of the counters.
LEMMA SurroundingsKeepTypes ==
  ASSUME TypeInv, Tick \/ LoseStore \/ RestoreStore \/ Notice
  PROVE  TypeInv'
<1>1. Rows
  BY DEF TypeInv
<1>2. UNCHANGED <<scenario, rules, object, stage, io>>
  BY DEF Tick, LoseStore, RestoreStore, Notice, call
<1>3. \A d \in Caller : got'[d] = got[d] \/ \E x : got'[d] = [got[d] EXCEPT !.counted = x]
  BY DEF Tick, LoseStore, RestoreStore, Notice, call
<1>4. DOMAIN got' = Caller
  BY <1>1 DEF Tick, LoseStore, RestoreStore, Notice, call, Rows
<1>5. Onward
  <2>1. \A d \in Caller : IsGot(got[d])
    BY DEF TypeInv, Identified
  <2>2. \A d \in Caller : got'[d].link = got[d].link
    BY <1>3, <2>1 DEF IsGot
  <2> QED BY <1>2, <2>2 DEF Onward, rules
<1>6. Rows'
  <2>1. Tables'
    BY <1>1, <1>2 DEF Rows, Tables, rules
  <2>2. MaxOutages' = MaxOutages /\ MaxTime' = MaxTime /\ MaxOutages \in Nat /\ MaxTime \in Nat
    BY <1>1, <1>2, RequestsAssumption DEF MaxOutages, MaxTime, Rows
  <2>3. \A at \in DOMAIN counter' : counter'[at] \in Nat \ {0}
    BY <1>1 DEF Tick, LoseStore, RestoreStore, Notice, store, Rows
  <2>4. outages' \in 0 .. MaxOutages /\ now' \in 0 .. MaxTime
    BY <1>1, <2>2 DEF Tick, LoseStore, RestoreStore, Notice, store, Rows
  <2> QED BY <1>1, <1>2, <1>4, <2>1, <2>2, <2>3, <2>4 DEF Rows
<1>7. \A d \in Caller : Identified(d)' /\ Decided(d)' /\ Holding(d)'
  BY <1>2, <1>3, <1>5, OthersKept
<1> QED BY <1>6, <1>7 DEF TypeInv

\* The first state is one that the code has written.
LEMMA InitHasTypes ==
  ASSUME Init
  PROVE  TypeInv
<1>1. PICK i \in DOMAIN Starts : scenario = Starts[i]
  BY DEF Init
<1>2. /\ key \in [KeyId -> KeyRow] /\ bucket \in [Bucket -> BucketRow \cup {None}]
      /\ DOMAIN policy = Bucket /\ (\A b \in Bucket : ValidDocument(policy[b]))
      /\ grants \in [Bucket -> [User -> SUBSET Permission]]
      /\ MaxOutages \in Nat /\ MaxTime \in Nat
  BY <1>1, StartsAssumption, RequestsAssumption DEF Init, MaxOutages, MaxTime
<1>3. DOMAIN object = Bucket /\ \A b \in Bucket : object[b] # None => BlobOf(object[b], object[b].etag)
  <2>1. DOMAIN object = Bucket
    BY DEF Init
  <2>2. ASSUME NEW b \in Bucket, object[b] # None
        PROVE  BlobOf(object[b], object[b].etag)
    <3> DEFINE from == scenario.object[b]
    <3>1. from # None /\ object[b] = Stored(from.iv, from.plain, 0)
      BY <2>2 DEF Init
    <3>2. from.iv \in Counters \cup {<<>>} /\ from.plain \in Seq(Symbol)
      BY <1>1, <3>1, StartsAssumption
    <3> HIDE DEF from
    <3>3. Stored(from.iv, from.plain, 0).etag = from.plain /\ BlobOf(Stored(from.iv, from.plain, 0), from.plain)
      BY <3>2, StoredIsBlob
    <3> QED BY <3>1, <3>3
  <2> QED BY <2>1, <2>2
<1>4. Rows
  BY <1>1, <1>2, <1>3 DEF Init, Rows, Tables, Stages
<1>5. ASSUME NEW c \in Caller
      PROVE  Identified(c) /\ Decided(c) /\ Holding(c)
  <2>1. /\ stage[c] = "unsent" /\ io[c] = None
        /\ got[c] = [at |-> 0, user |-> None, key |-> None, counted |-> None, row |-> None,
                     need |-> 1, answer |-> None, link |-> None]
    BY DEF Init
  <2>2. IsGot(got[c])
    BY <2>1 DEF IsGot
  <2>3. Len(NeedsOf(c)) \in Nat
    BY <1>4, NeedsKnown
  <2>4. None # "ok"
    BY RequestsAssumption
  <2> QED BY <2>1, <2>2, <2>3, <2>4 DEF Identified, Decided, Holding, Early, Working
<1> QED BY <1>4, <1>5 DEF TypeInv

\* Every step.
LEMMA NextKeepsTypes ==
  ASSUME TypeInv, [Next]_vars
  PROVE  TypeInv'
<1>1. CASE UNCHANGED vars
  <2>1. UNCHANGED <<scenario, rules, object, store, now, call>>
    BY <1>1 DEF vars
  <2>2. Onward /\ Rows'
    <3>1. Rows
      BY DEF TypeInv
    <3> QED BY <2>1, <3>1 DEF Onward, Rows, Tables, rules, store, call, MaxOutages, MaxTime
  <2>3. \A d \in Caller : Identified(d)' /\ Decided(d)' /\ Holding(d)'
    BY <2>1, <2>2, OthersKept DEF call
  <2> QED BY <2>2, <2>3 DEF TypeInv
<1>2. CASE Next
  BY <1>2, DecisionsKeepTypes, HandlersKeepTypes, SendKeepsTypes, SurroundingsKeepTypes DEF Next, Run, Others
<1> QED BY <1>1, <1>2

\* The inductive invariant: rows, calls, decisions and bodies are what they should
\* be, whatever steps the callers take between each other's.
THEOREM InvariantOfTypes == Spec => []TypeInv
<1>1. Init => TypeInv
  BY InitHasTypes
<1>2. TypeInv /\ [Next]_vars => TypeInv'
  BY NextKeepsTypes
<1> QED BY <1>1, <1>2, PTL DEF Spec

\* Callers, rows and reads are what they should be: whatever runs between the
\* steps of a request, a call that works for a key knows whose key it is, a
\* decision looks at no more than the needs there are, what is stored passed its
\* validation, and a read stays inside its file.
THEOREM RequestsTypes == Spec => []TypeOK
<1>1. TypeInv => TypeOK
  <2> SUFFICES ASSUME TypeInv PROVE TypeOK
    OBVIOUS
  <2>1. Rows /\ \A c \in Caller : Identified(c) /\ Decided(c) /\ Holding(c)
    BY DEF TypeInv
  <2>2. ASSUME NEW b \in Bucket
        PROVE  /\ ValidDocument(policy[b]) /\ grants[b] \in [User -> SUBSET Permission]
               /\ bucket[b] # None => bucket[b].acl \in Acls /\ bucket[b].owner \in User
    BY <2>1 DEF Rows, Tables, BucketRow
  <2>3. ASSUME NEW c \in Caller
        PROVE  /\ stage[c] \in Stages /\ got[c].user \in User \cup {None} /\ got[c].key \in KeyId \cup {None}
               /\ got[c].need \in 1 .. Len(NeedsOf(c)) + 1
               /\ got[c].key # None => got[c].user = key[got[c].key].user
    <3>1. IsGot(got[c]) /\ Len(NeedsOf(c)) \in Nat /\ got[c].need =< Len(NeedsOf(c)) + 1
      BY <2>1, NeedsKnown DEF Identified, Decided
    <3> QED BY <2>1, <3>1 DEF Rows, Identified, IsGot
  <2>4. ASSUME NEW c \in Caller, stage[c] = "sending"
        PROVE  io[c].read.position \in 0 .. Len(io[c].blob.bytes) /\ io[c].read.skip \in 0 .. Block - 1
    <3> DEFINE r == io[c].read
               blob == io[c].blob
    <3>1. PICK start \in Nat : BlobOf(blob, blob.etag) /\ Reading(blob, blob.etag, start, r)
      BY <2>1, <2>4 DEF Holding, Sends
    <3>2. Len(blob.bytes) = Len(blob.etag) /\ Len(blob.etag) \in Nat
      BY <3>1, BytesOfBlob
    <3> HIDE DEF r, blob
    <3>3. /\ r.position \in Nat /\ r.end \in Int /\ r.skip \in Nat /\ r.position =< r.end + 1
          /\ r.end + 1 =< Len(blob.etag) /\ r.skip < Block
      BY <3>1 DEF Reading
    <3>4. r.position \in 0 .. Len(blob.bytes) /\ r.skip \in 0 .. Block - 1
      BY <3>2, <3>3, PayloadAssumption
    <3> QED BY <3>4 DEF r, blob
  <2> QED BY <2>1, <2>2, <2>3, <2>4 DEF TypeOK, Rows
<1> QED BY <1>1, InvariantOfTypes, PTL

\* What a GET or a copy hands out is the part of the payload that was asked for,
\* for every block size, counter, range and way of reading the file.
THEOREM RangesAreExact == Spec => []RangesReadTheirSlice
<1>1. TypeInv => RangesReadTheirSlice
  <2> SUFFICES ASSUME TypeInv, NEW c \in Caller
               PROVE  /\ Asks(c, {"GetObject"}) /\ got[c].answer = "ok" => SliceSent(c)
                      /\ Asks(c, {"CopyObject"}) /\ io[c] # None => \A i \in DOMAIN io[c].out : io[c].out[i] # Garbage
    BY DEF RangesReadTheirSlice, SliceSent
  <2>1. Holding(c)
    BY DEF TypeInv
  <2>2. ASSUME Asks(c, {"CopyObject"}), io[c] # None, NEW i \in DOMAIN io[c].out
        PROVE  io[c].out[i] # Garbage
    <3>1. io[c].out \in Seq(Symbol)
      BY <2>1, <2>2 DEF Holding
    <3>2. io[c].out[i] \in Symbol
      BY <3>1
    <3>3. Garbage \notin Symbol
      <4>1. Garbage \notin Byte
        BY DEF Garbage, Byte, CR, LF
      <4>2. Garbage \notin [is : {"size"}, n : Nat]
        BY DEF Garbage
      <4>3. Garbage \notin [is : {"sig"}, over : Seq(Seq(Byte))]
        BY DEF Garbage
      <4> QED BY <4>1, <4>2, <4>3 DEF Symbol
    <3> QED BY <3>2, <3>3
  <2> QED BY <2>1, <2>2 DEF Holding
<1> QED BY <1>1, InvariantOfTypes, PTL

-----------------------------------------------------------------------------
\* Only the guard turns a call away at the guard.
LEMMA GuardTurnsAway ==
  ASSUME TypeInv, Next, NEW c \in Caller, stage[c] = "guard", stage'[c] # "guard"
  PROVE  Guard(c)
<1>1. CASE \E d \in Caller : Decide(d)
  <2>1. PICK d \in Caller : Decide(d)
    BY <1>1
  <2>2. d = c
    BY <2>1, OneIsDecided
  <2> QED BY <2>1, <2>2 DEF Decide, PassUncounted, Increment, Arm, ReadRow, EvaluatePolicy, ReadOwner, ReadGrant
<1>2. CASE \E d \in Caller : Work(d) \/ HangUp(d)
  <2>1. PICK d \in Caller : Work(d) \/ HangUp(d)
    BY <1>2
  <2>2. d = c
    BY <2>1, OneIsHandled
  <2>3. stage[d] \in Working
    BY <2>1, HandlersHandle DEF Handled
  <2> QED BY <2>2, <2>3 DEF Working
<1>3. CASE \E d \in Caller : Send(d)
  <2>1. PICK d \in Caller : Send(d)
    BY <1>3
  <2>2. d # c /\ stage \in [Caller -> Stages]
    BY <2>1 DEF Send, TypeInv, Rows
  <2> QED BY <2>1, <2>2 DEF Send, Moves
<1>4. CASE Tick \/ LoseStore \/ RestoreStore \/ Notice
  BY <1>4 DEF Tick, LoseStore, RestoreStore, Notice, call
<1> QED BY <1>1, <1>2, <1>3, <1>4 DEF Next, Run, Others

\* presign and verifyPresigned agree: the guard turns a shared link away only
\* when it has run out or its key has changed or expired since it was signed.
THEOREM SharedLinksOpen == Spec => LinksOpen
<1> DEFINE Step == \A c \in Caller :
          (stage[c] = "guard" /\ stage'[c] = "done" /\ Ask(c).opens # None) =>
              LET link == Signed(c) IN
              \/ now > link.at + link.expires
              \/ key[link.key] # link.row
              \/ now > key[link.key].expiresAt
<1>1. TypeInv /\ [Next]_vars => [Step]_vars
  <2> SUFFICES ASSUME TypeInv, Next PROVE Step
    BY DEF vars
  <2> SUFFICES ASSUME NEW c \in Caller, stage[c] = "guard", stage'[c] = "done", Ask(c).opens # None
               PROVE  LET link == Signed(c) IN
                      \/ now > link.at + link.expires
                      \/ key[link.key] # link.row
                      \/ now > key[link.key].expiresAt
    OBVIOUS
  <2>1. Guard(c) /\ stage \in [Caller -> Stages]
    BY GuardTurnsAway DEF TypeInv, Rows
  <2>2. Refusal(c) # "none"
    BY <2>1 DEF Guard, Moves
  <2> DEFINE o == Ask(c).opens
             link == Signed(c)
  <2>3. WellAsked(scenario.ask, c) /\ o \in Caller
    BY AskedWell DEF TypeInv, WellAsked, Ask
  <2>4. Ask(c).auth = "link" /\ Ask(c).genuine /\ (Asks(o, {"Share"}) => Ask(o).expires \in 1 .. MaxExpires)
    BY <2>3 DEF WellAsked, Ask, Asks
  <2>5. link = got[o].link /\ got[o].link # None
    BY DEF Signed, TypeInv, Identified
  <2>6. Identified(o)
    BY <2>3 DEF TypeInv
  <2> HIDE DEF o
  <2>7. /\ link \in Link /\ Asks(o, {"Share"}) /\ link.expires = Ask(o).expires
        /\ link.row.status = "active" /\ ~link.row.deleted
    BY <2>5, <2>6 DEF Identified, IsGot
  <2>8. link.key \in KeyId /\ link.expires \in 1 .. MaxExpires
    BY <2>4, <2>7 DEF Link
  <2> HIDE DEF link
  <2>9. ~Usable(link.key) \/ now > link.at + link.expires
    BY <2>2, <2>4, <2>8 DEF Refusal, Authentic, link
  <2>10. /\ now \in Int /\ key[link.key].expiresAt \in Int
    BY <2>8 DEF TypeInv, Rows, Tables, KeyRow
  <2> QED BY <2>7, <2>9, <2>10 DEF Usable, link
<1> QED BY <1>1, InvariantOfTypes, PTL DEF Spec, LinksOpen

-----------------------------------------------------------------------------
\* What the two sides of a decision see: the guard has found the key that signed
\* the request and the user it belongs to.
LEMMA IdsAreTrue ==
  ASSUME TypeInv, NEW c \in Caller, stage[c] = "policy"
  PROVE  Ids(c) = TrueIds(c)
<1>1. Ask(c).door = "s3" /\ Identified(c) /\ Rows /\ IsGot(got[c])
  BY DEF TypeInv, Decided, Identified
<1>2. CASE Ask(c).auth = "none"
  BY <1>1, <1>2 DEF Identified, Ids, TrueIds
<1>3. CASE Ask(c).auth # "none"
  <2>1. got[c].key # None /\ got[c].key = Signed(c).key /\ got[c].user = key[got[c].key].user
    BY <1>1, <1>3 DEF Identified
  <2>2. got[c].key \in KeyId /\ key[got[c].key].user \in User /\ None \notin User
    BY <1>1, <2>1, RequestsAssumption DEF IsGot, Rows, Tables, KeyRow
  <2> QED BY <1>3, <2>1, <2>2 DEF Ids, TrueIds
<1> QED BY <1>2, <1>3

\* A need that the policy of its bucket denies now is denied by evaluate now.
LEMMA DeniedIsDenied ==
  ASSUME TypeInv, NEW c \in Caller, stage[c] = "policy", got[c].need \in DeniedNow(c)
  PROVE  Evaluate(policy[Need(c).bucket], PolicyRequest(c, Need(c), Ids(c), now)) = "deny"
BY IdsAreTrue DEF DeniedNow, Evaluate, Need

\* One step of a call towards the next need, or to the owner.
LEMMA DeniedStays ==
  ASSUME TypeInv, Denials, NEW c \in Caller, Decide(c)
  PROVE  /\ \A n \in denied[c] : got'[c].need =< n
         /\ stage'[c] \in {"owner", "grant"} => got'[c].need \notin denied[c]
         /\ (stage'[c] = "unsent") <=> (stage[c] = "unsent")
<1>0. /\ Rows /\ Decided(c) /\ IsGot(got[c]) /\ stage[c] # "unsent" /\ DOMAIN got = Caller /\ stage \in [Caller -> Stages]
      /\ denied[c] \subseteq DeniedNow(c) /\ (\A n \in denied[c] : got[c].need =< n)
      /\ stage[c] \in {"owner", "grant"} => got[c].need \notin denied[c]
  <2>1. stage[c] # "unsent"
    BY DEF Decide, Guard, PassUncounted, Increment, Arm, ReadRow, EvaluatePolicy, ReadOwner, ReadGrant
  <2> QED BY <2>1 DEF TypeInv, Rows, Identified, Denials, DeniesHold
<1>1. got[c].need \in Nat /\ DeniedNow(c) \subseteq Nat
  BY <1>0, NeedsKnown DEF IsGot, DeniedNow
<1>2. CASE Guard(c) \/ PassUncounted(c) \/ Increment(c) \/ Arm(c)
  <2>1. got'[c].need = got[c].need /\ stage'[c] \notin {"unsent", "owner", "grant"}
    <3>1. \/ UNCHANGED got
          \/ \E x : got' = [got EXCEPT ![c].answer = x]
          \/ \E x : got' = [got EXCEPT ![c].counted = x]
          \/ \E x, y : got' = [got EXCEPT ![c].key = x, ![c].user = y]
      BY <1>2 DEF Guard, PassUncounted, Increment, Arm, Dispatch, Answered
    <3>2. got'[c].need = got[c].need
      BY <1>0, <3>1, ZenonT(60) DEF IsGot
    <3>3. \E to \in {"limit", "arm", "key", "work", "row", "done"} : stage' = [stage EXCEPT ![c] = to]
      BY <1>2 DEF Guard, PassUncounted, Increment, Arm, Dispatch, Answered, Moves
    <3> QED BY <1>0, <3>2, <3>3
  <2> QED BY <1>0, <2>1
<1>3. ASSUME Granted(c), got[c].need \notin denied[c]
      PROVE  /\ \A n \in denied[c] : got'[c].need =< n
             /\ stage'[c] \notin {"unsent", "owner", "grant"}
  <2>1. /\ stage'[c] \in {"work", "row"} /\ got'[c] = [got[c] EXCEPT !.need = got[c].need + 1]
    BY <1>0, <1>3 DEF Granted, NextNeed, Moves
  <2>2. got'[c].need = got[c].need + 1
    BY <1>0, <2>1 DEF IsGot
  <2>3. \A n \in denied[c] : got[c].need + 1 =< n
    BY <1>0, <1>1, <1>3
  <2> QED BY <2>1, <2>2, <2>3
<1>4. ASSUME NEW a, Answered(c, a)
      PROVE  got'[c].need = got[c].need /\ stage'[c] = "done"
  BY <1>0, <1>4 DEF Answered, IsGot
<1>5. CASE ReadRow(c)
  <2>1. CASE Answered(c, "NoSuchBucket")
    BY <1>0, <1>4, <2>1
  <2>2. CASE ~Answered(c, "NoSuchBucket")
    <3>1. /\ \E x : got' = [got EXCEPT ![c].row = x]
          /\ Moves(c, IF Asks(c, {"Preflight"}) THEN "work" ELSE IF Ask(c).door = "s3" THEN "policy" ELSE "owner")
      BY <1>5, <2>2 DEF ReadRow
    <3>2. got'[c].need = got[c].need
      BY <1>0, <3>1 DEF IsGot
    <3>3. stage'[c] = IF Asks(c, {"Preflight"}) THEN "work" ELSE IF Ask(c).door = "s3" THEN "policy" ELSE "owner"
      BY <1>0, <3>1 DEF Moves
    <3>4. Ask(c).door # "s3" => DeniedNow(c) = {}
      BY DEF DeniedNow
    <3> QED BY <1>0, <3>2, <3>3, <3>4
  <2> QED BY <2>1, <2>2
<1>6. CASE EvaluatePolicy(c)
  <2>1. stage[c] = "policy"
    BY <1>6 DEF EvaluatePolicy
  <2>2. CASE Evaluate(policy[Need(c).bucket], PolicyRequest(c, Need(c), Ids(c), now)) = "deny"
    <3>1. Answered(c, "AccessDenied")
      BY <1>6, <2>2 DEF EvaluatePolicy
    <3> QED BY <1>0, <1>4, <3>1
  <2>3. CASE Evaluate(policy[Need(c).bucket], PolicyRequest(c, Need(c), Ids(c), now)) # "deny"
    <3>1. got[c].need \notin denied[c]
      BY <1>0, <2>1, <2>3, DeniedIsDenied
    <3>2. Granted(c) \/ Answered(c, "AccessDenied") \/ (Moves(c, "owner") /\ UNCHANGED got)
      BY <1>6, <2>3 DEF EvaluatePolicy
    <3>3. CASE Granted(c)
      BY <1>0, <1>3, <3>1, <3>3
    <3>4. CASE Answered(c, "AccessDenied")
      BY <1>0, <1>4, <3>4
    <3>5. CASE Moves(c, "owner") /\ UNCHANGED got
      BY <1>0, <3>1, <3>5 DEF Moves
    <3> QED BY <3>2, <3>3, <3>4, <3>5
  <2> QED BY <2>2, <2>3
<1>7. CASE ReadOwner(c) \/ ReadGrant(c)
  <2>1. stage[c] \in {"owner", "grant"}
    BY <1>7 DEF ReadOwner, ReadGrant
  <2>2. \/ Granted(c) \/ Answered(c, "AccessDenied") \/ Answered(c, "NoSuchBucket")
        \/ (Moves(c, "grant") /\ UNCHANGED got)
    BY <1>7 DEF ReadOwner, ReadGrant
  <2>3. CASE Granted(c)
    BY <1>0, <1>3, <2>1, <2>3
  <2>4. CASE Answered(c, "AccessDenied") \/ Answered(c, "NoSuchBucket")
    BY <1>0, <1>4, <2>4
  <2>5. CASE Moves(c, "grant") /\ UNCHANGED got
    BY <1>0, <2>1, <2>5 DEF Moves
  <2> QED BY <2>2, <2>3, <2>4, <2>5
<1> QED BY <1>2, <1>5, <1>6, <1>7 DEF Decide

\* What a caller that takes no step has been denied.
LEMMA DeniedOfOthers ==
  ASSUME Denials, Remember, NEW c \in Caller, stage'[c] = stage[c], got'[c].need = got[c].need
  PROVE  /\ IF stage'[c] = "unsent" THEN denied'[c] = {} ELSE denied'[c] \subseteq DeniedNow(c)'
         /\ stage'[c] \in {"owner", "grant"} => got'[c].need \notin denied'[c]
         /\ \A n \in denied'[c] : got'[c].need =< n
<1>1. denied'[c] = IF stage'[c] = "unsent" THEN {}
                   ELSE IF stage[c] = "unsent" THEN DeniedNow(c)' ELSE denied[c] \cap DeniedNow(c)'
  BY DEF Remember
<1>2. denied'[c] \subseteq denied[c]
  BY <1>1
<1> QED BY <1>1, <1>2 DEF Denials, DeniesHold

\* What is denied stays denied until the call is turned away.
LEMMA DenialsStep ==
  ASSUME TypeInv, Denials, [Next]_vars
  PROVE  Denials'
<1> DEFINE Good(c) ==
             /\ IF stage'[c] = "unsent" THEN denied'[c] = {} ELSE denied'[c] \subseteq DeniedNow(c)'
             /\ stage'[c] \in {"owner", "grant"} => got'[c].need \notin denied'[c]
             /\ \A n \in denied'[c] : got'[c].need =< n
<1>1. ASSUME Next
      PROVE  \A c \in Caller : Good(c)
  <2>0. Remember
    BY <1>1 DEF Next, Run, Others
  <2>1. CASE \E d \in Caller : Decide(d)
    <3>1. PICK d \in Caller : Decide(d)
      BY <2>1
    <3>2. \A c \in Caller \ {d} : stage'[c] = stage[c] /\ got'[c] = got[c]
      BY <3>1, OneIsDecided
    <3>3. \A c \in Caller \ {d} : Good(c)
      BY <2>0, <3>2, DeniedOfOthers
    <3>4. Good(d)
      <4>1. /\ \A n \in denied[d] : got'[d].need =< n
            /\ stage'[d] \in {"owner", "grant"} => got'[d].need \notin denied[d]
            /\ (stage'[d] = "unsent") <=> (stage[d] = "unsent")
        BY <3>1, DeniedStays
      <4>2. denied'[d] = IF stage'[d] = "unsent" THEN {} ELSE denied[d] \cap DeniedNow(d)'
        BY <2>0, <4>1 DEF Remember
      <4> QED BY <4>1, <4>2
    <3> QED BY <3>3, <3>4
  <2>2. CASE \E d \in Caller : Work(d) \/ HangUp(d)
    <3>1. PICK d \in Caller : Work(d) \/ HangUp(d)
      BY <2>2
    <3>2. \A c \in Caller \ {d} : stage'[c] = stage[c] /\ got'[c] = got[c]
      BY <3>1, OneIsHandled
    <3>3. \A c \in Caller \ {d} : Good(c)
      BY <2>0, <3>2, DeniedOfOthers
    <3>4. Good(d)
      <4>1. stage'[d] \notin {"unsent", "owner", "grant"} /\ got'[d].need = got[d].need
        BY <3>1, HandledStaysKnown DEF Working
      <4>2. stage[d] # "unsent"
        BY <3>1, HandlersHandle DEF Handled, Working
      <4>3. denied'[d] = denied[d] \cap DeniedNow(d)'
        BY <2>0, <4>1, <4>2 DEF Remember
      <4> QED BY <4>1, <4>3 DEF Denials, DeniesHold
    <3> QED BY <3>3, <3>4
  <2>3. CASE \E d \in Caller : Send(d)
    <3>1. PICK d \in Caller : Send(d)
      BY <2>3
    <3>2. stage \in [Caller -> Stages] /\ DOMAIN got = Caller /\ IsGot(got[d]) /\ Decided(d)
      BY DEF TypeInv, Rows, Identified
    <3>3. \A c \in Caller \ {d} : stage'[c] = stage[c] /\ got'[c] = got[c]
      BY <3>1, <3>2 DEF Send, Moves
    <3>4. \A c \in Caller \ {d} : Good(c)
      BY <2>0, <3>3, DeniedOfOthers
    <3>5. Good(d)
      <4>1. stage[d] = "unsent" /\ stage'[d] \in {"guard", "limit"} /\ got[d].need = 1
        BY <3>1, <3>2 DEF Send, Moves, Decided, Early
      <4>2. got'[d].need = 1
        BY <3>1, <3>2, <4>1 DEF Send, IsGot
      <4>3. denied'[d] = DeniedNow(d)'
        BY <2>0, <4>1 DEF Remember
      <4>4. DeniedNow(d)' \subseteq Nat \ {0}
        <5>1. NeedsOf(d)' = NeedsOf(d)
          BY <3>1, SameAsk DEF Send
        <5>2. DOMAIN NeedsOf(d) \subseteq Nat \ {0}
          BY NeedsKnown DEF TypeInv
        <5> QED BY <5>1, <5>2 DEF DeniedNow
      <4> QED BY <4>1, <4>2, <4>3, <4>4
    <3> QED BY <3>4, <3>5
  <2>4. CASE Tick \/ LoseStore \/ RestoreStore \/ Notice
    <3>1. \A c \in Caller : IsGot(got[c])
      BY DEF TypeInv, Identified
    <3>2. \A c \in Caller : stage'[c] = stage[c] /\ got'[c].need = got[c].need
      BY <2>4, <3>1 DEF Tick, LoseStore, RestoreStore, Notice, call, IsGot
    <3> QED BY <2>0, <3>2, DeniedOfOthers
  <2> QED BY <1>1, <2>1, <2>2, <2>3, <2>4 DEF Next, Run, Others
<1>2. ASSUME UNCHANGED vars
      PROVE  \A c \in Caller : Good(c)
  <2>1. UNCHANGED <<stage, got, denied>> /\ \A c \in Caller : DeniedNow(c)' = DeniedNow(c)
    BY <1>2 DEF vars, call, rules, DeniedNow, NeedsOf, CopyNeeds, Ask, Asks, Signed, TrueIds, PolicyRequest
  <2> QED BY <2>1 DEF Denials, DeniesHold
<1>3. \A c \in Caller : Good(c)
  BY <1>1, <1>2
<1> QED BY <1>3 DEF Denials, DeniesHold

\* "An explicit Deny ends the request": a call does not get past a need that the
\* policy of its bucket has denied ever since the call was sent, whoever replaces
\* the document by another that denies it too, for any number of callers.
THEOREM ExplicitDenyEnds == Spec => []DeniesHold
<1>1. Init => Denials
  BY DEF Init, Denials, DeniesHold
<1>2. TypeInv /\ Denials /\ [Next]_vars => Denials'
  BY DenialsStep
<1>3. Denials => DeniesHold
  BY DEF Denials
<1> QED BY <1>1, <1>2, <1>3, InvariantOfTypes, PTL DEF Spec

-----------------------------------------------------------------------------
\* allowedByAcl gives what the canned ACL opens.
LEMMA AclOpens ==
  ASSUME NEW acl \in Acls, NEW p \in Permission, NEW anonymous \in BOOLEAN
  PROVE  AllowedByAcl(acl, p, anonymous)
           <=> p \in (IF anonymous /\ acl = "authenticatedRead" THEN {} ELSE Opens[acl])
BY DEF AllowedByAcl, Opens, Acls, Permission

\* Needs gives every action a permission.
LEMMA ActionsNeedPermissions ==
  ASSUME NEW a
  PROVE  Needs(a) \in Permission
BY DEF Needs, Permission

\* What evaluate decides, in terms of what the document says.
LEMMA DecisionsSay ==
  ASSUME NEW c \in Caller, NEW n, ValidDocument(policy[n.bucket])
  PROVE  LET decision == Evaluate(policy[n.bucket], PolicyRequest(c, n, Ids(c), now)) IN
         /\ decision = "deny" <=> Says(c, n, "Deny")
         /\ decision = "allow" <=> ~Says(c, n, "Deny") /\ Says(c, n, "Allow")
         /\ decision = "notApplicable" <=> ~Says(c, n, "Deny") /\ ~Says(c, n, "Allow")
<1> DEFINE document == policy[n.bucket]
           r == PolicyRequest(c, n, Ids(c), now)
           M(i) == Matches(document[i], r)
<1>1. \A i \in DOMAIN document : document[i].effect \in {"Allow", "Deny"}
  BY DEF ValidDocument
<1>2. \A effect : Says(c, n, effect) <=> \E i \in DOMAIN document : document[i].effect = effect /\ M(i)
  BY DEF Says
<1>3. Matching(document, r) = {i \in DOMAIN document : M(i)}
  BY DEF Matching
<1> HIDE DEF document, r, M
<1>4. Evaluate(document, r) =
        IF \E i \in DOMAIN document : document[i].effect = "Deny" /\ M(i) THEN "deny"
        ELSE IF \E i \in DOMAIN document : M(i) THEN "allow" ELSE "notApplicable"
  BY <1>3 DEF Evaluate
<1> QED BY <1>1, <1>2, <1>4 DEF document, r

\* What a caller may do depends on the rules, the clock and who it is.
LEMMA SameRights ==
  ASSUME NEW c \in Caller, NEW n, UNCHANGED <<scenario, rules, now>>,
         got'[c].user = got[c].user, got'[c].key = got[c].key
  PROVE  /\ Permitted(c, n)' <=> Permitted(c, n)
         /\ \A effect : Says(c, n, effect)' <=> Says(c, n, effect)
<1>1. Ask(c)' = Ask(c) /\ policy' = policy /\ bucket' = bucket /\ grants' = grants /\ now' = now
  BY SameAsk DEF rules
<1>2. Ids(c)' = Ids(c) /\ (Anonymous(c)' <=> Anonymous(c))
  BY DEF Ids, Anonymous
<1>3. \A effect : Says(c, n, effect)' <=> Says(c, n, effect)
  BY <1>1, <1>2 DEF Says, PolicyRequest
<1>4. PermissionFor(c, n)' = PermissionFor(c, n) /\ (Owns(c, n.bucket)' <=> Owns(c, n.bucket))
  BY <1>1, <1>2 DEF PermissionFor, Owns
<1>5. Entitled(c, n)' <=> Entitled(c, n)
  BY <1>1, <1>2, <1>4 DEF Entitled
<1> QED BY <1>1, <1>3, <1>5 DEF Permitted

\* Nothing that a call has read or been told changes while nothing else does.
LEMMA UndisturbedStays ==
  ASSUME TypeInv, NEW c \in Caller, Undisturbed(c), UNCHANGED <<scenario, rules, now>>,
         got'[c].user = got[c].user, got'[c].key = got[c].key, got'[c].need = got[c].need,
         \/ stage'[c] = stage[c] /\ got'[c].answer = got[c].answer /\ got'[c].row = got[c].row
         \/ /\ stage'[c] \notin {"policy", "owner", "grant"}
            /\ NeedsOf(c) = <<>> \/ got'[c].answer \notin {"AccessDenied", "NoSuchBucket"}
  PROVE  Undisturbed(c)'
<1>1. Ask(c)' = Ask(c) /\ NeedsOf(c)' = NeedsOf(c) /\ bucket' = bucket
  BY SameAsk DEF rules
<1>2. \A n : (Permitted(c, n)' <=> Permitted(c, n)) /\ \A effect : Says(c, n, effect)' <=> Says(c, n, effect)
  BY SameRights
<1>3. Need(c)' = Need(c)
  BY <1>1 DEF Need
<1>4. \A b : Missing(b)' <=> Missing(b)
  BY <1>1 DEF Missing
<1>5. \A n \in 1 .. got'[c].need - 1 : Permitted(c, NeedsOf(c)[n])'
  BY <1>1, <1>2 DEF Undisturbed
<1>6. CASE stage'[c] = stage[c] /\ got'[c].answer = got[c].answer /\ got'[c].row = got[c].row
  <2>1. NeedsOf(c) # <<>> /\ got'[c].answer \in {"AccessDenied", "NoSuchBucket"} =>
          Missing(Need(c).bucket)' \/ ~Permitted(c, Need(c))'
    BY <1>2, <1>3, <1>4, <1>6 DEF Undisturbed
  <2>2. stage'[c] \in {"owner", "grant"} /\ Ask(c).door = "s3" => ~Says(c, Need(c), "Deny")' /\ ~Says(c, Need(c), "Allow")'
    BY <1>1, <1>2, <1>3, <1>6 DEF Undisturbed
  <2> QED BY <1>1, <1>3, <1>4, <1>5, <1>6, <2>1, <2>2 DEF Undisturbed
<1>7. CASE /\ stage'[c] \notin {"policy", "owner", "grant"}
           /\ NeedsOf(c) = <<>> \/ got'[c].answer \notin {"AccessDenied", "NoSuchBucket"}
  BY <1>1, <1>5, <1>7 DEF Undisturbed
<1> QED BY <1>6, <1>7

\* The rows that the authorization reads one after the other are those that there
\* are, and it decides by them as one look would.
LEMMA UndisturbedAuthorization ==
  ASSUME TypeInv, NEW c \in Caller, Undisturbed(c),
         ReadRow(c) \/ EvaluatePolicy(c) \/ ReadOwner(c) \/ ReadGrant(c)
  PROVE  Undisturbed(c)'
<1>0. /\ Rows /\ Identified(c) /\ Decided(c) /\ IsGot(got[c]) /\ stage[c] \in Deciding
      /\ DOMAIN got = Caller /\ stage \in [Caller -> Stages] /\ UNCHANGED <<scenario, rules, now>>
  <2>1. Decide(c) /\ stage[c] \in Deciding
    BY DEF Decide, ReadRow, EvaluatePolicy, ReadOwner, ReadGrant, Deciding
  <2> QED BY <2>1, OneIsDecided DEF TypeInv, Rows, Identified
<1>1. /\ Ask(c)' = Ask(c) /\ NeedsOf(c)' = NeedsOf(c) /\ (\A b : Missing(b)' <=> Missing(b))
      /\ bucket' = bucket
  BY <1>0, SameAsk DEF Missing, rules
<1>2. /\ got[c].answer = None /\ None \notin {"AccessDenied", "NoSuchBucket"} /\ got[c].need \in Nat \ {0}
      /\ Len(NeedsOf(c)) \in Nat /\ \A n \in 1 .. Len(NeedsOf(c)) : NeedsOf(c)[n].bucket \in Bucket
      /\ DOMAIN NeedsOf(c) = 1 .. Len(NeedsOf(c))
  BY <1>0, RequestsAssumption, NeedsKnown DEF Identified, Deciding, IsGot
<1>3. ASSUME got'[c].user = got[c].user, got'[c].key = got[c].key
      PROVE  \A n : /\ Permitted(c, n)' <=> Permitted(c, n)
                    /\ \A effect : Says(c, n, effect)' <=> Says(c, n, effect)
  BY <1>0, <1>3, SameRights
<1>4. ASSUME Granted(c), Permitted(c, Need(c))
      PROVE  Undisturbed(c)'
  <2>1. stage'[c] \in {"work", "row"} /\ got'[c] = [got[c] EXCEPT !.need = got[c].need + 1]
    BY <1>0, <1>4 DEF Granted, NextNeed, Moves
  <2>2. /\ got'[c].user = got[c].user /\ got'[c].key = got[c].key /\ got'[c].need = got[c].need + 1
        /\ got'[c].answer = None
    BY <1>0, <1>2, <2>1 DEF IsGot
  <2>3. \A n \in 1 .. got'[c].need - 1 : Permitted(c, NeedsOf(c)[n])'
    <3> TAKE n \in 1 .. got'[c].need - 1
    <3>1. n \in 1 .. got[c].need - 1 \/ n = got[c].need
      BY <1>2, <2>2
    <3>2. Permitted(c, NeedsOf(c)[n])
      BY <1>4, <3>1 DEF Undisturbed, Need
    <3> QED BY <1>1, <1>3, <2>2, <3>2
  <2> QED BY <1>1, <1>2, <2>1, <2>2, <2>3 DEF Undisturbed
<1>5. ASSUME NEW a, Answered(c, a),
             a \in {"AccessDenied", "NoSuchBucket"} /\ NeedsOf(c) # <<>> => Missing(Need(c).bucket) \/ ~Permitted(c, Need(c))
      PROVE  Undisturbed(c)'
  <2>1. stage'[c] = "done" /\ got'[c] = [got[c] EXCEPT !.answer = a]
    BY <1>0, <1>5 DEF Answered
  <2>2. /\ got'[c].user = got[c].user /\ got'[c].key = got[c].key /\ got'[c].need = got[c].need
        /\ got'[c].answer = a
    BY <1>0, <2>1 DEF IsGot
  <2>3. Need(c)' = Need(c)
    BY <1>1, <2>2 DEF Need
  <2>4. \A n \in 1 .. got'[c].need - 1 : Permitted(c, NeedsOf(c)[n])'
    BY <1>1, <1>3, <2>2 DEF Undisturbed
  <2>5. NeedsOf(c) # <<>> /\ got'[c].answer \in {"AccessDenied", "NoSuchBucket"} =>
           Missing(Need(c).bucket)' \/ ~Permitted(c, Need(c))'
    BY <1>1, <1>3, <1>5, <2>2, <2>3
  <2> QED BY <1>1, <2>1, <2>4, <2>5 DEF Undisturbed
<1>6. stage[c] \in {"policy", "owner", "grant"} =>
          /\ Need(c).bucket \in Bucket /\ ~Missing(Need(c).bucket) /\ got[c].row = bucket[Need(c).bucket]
          /\ bucket[Need(c).bucket] \in BucketRow /\ ValidDocument(policy[Need(c).bucket])
  <2>1. stage[c] \in {"policy", "owner", "grant"} => got[c].need \in 1 .. Len(NeedsOf(c))
    BY <1>0, <1>2 DEF Decided
  <2> QED BY <1>0, <1>2, <2>1 DEF Undisturbed, Need, Missing, Rows, Tables
<1>7. ASSUME NEW to \in {"owner", "grant"}, Moves(c, to), UNCHANGED got, stage[c] \in {"policy", "owner"},
             Ask(c).door = "s3" => ~Says(c, Need(c), "Deny") /\ ~Says(c, Need(c), "Allow"),
             to = "grant" => bucket[Need(c).bucket].owner # got[c].user
      PROVE  Undisturbed(c)'
  <2>1. stage'[c] = to
    BY <1>0, <1>7 DEF Moves
  <2>2. Need(c)' = Need(c)
    BY <1>1, <1>7 DEF Need
  <2>3. \A n \in 1 .. got'[c].need - 1 : Permitted(c, NeedsOf(c)[n])'
    BY <1>1, <1>3, <1>7 DEF Undisturbed
  <2>4. Ask(c).door = "s3" => ~Says(c, Need(c), "Deny")' /\ ~Says(c, Need(c), "Allow")'
    BY <1>1, <1>3, <1>7, <2>2
  <2>5. got'[c].row = bucket'[Need(c).bucket] /\ ~Missing(Need(c).bucket)'
    BY <1>1, <1>6, <1>7, <2>2
  <2> QED BY <1>1, <1>2, <1>7, <2>1, <2>2, <2>3, <2>4, <2>5 DEF Undisturbed
<1>8. CASE ReadRow(c)
  <2> DEFINE b == IF Asks(c, {"Preflight"}) THEN Ask(c).bucket ELSE Need(c).bucket
  <2>0. Asks(c, {"Preflight"}) => NeedsOf(c) = <<>>
    BY <1>0, NeedsOfHandlers DEF Asks
  <2>1. CASE Missing(b) /\ Answered(c, "NoSuchBucket")
    BY <1>5, <2>0, <2>1
  <2>2. CASE /\ ~Missing(b) /\ got' = [got EXCEPT ![c].row = bucket[b]]
             /\ Moves(c, IF Asks(c, {"Preflight"}) THEN "work" ELSE IF Ask(c).door = "s3" THEN "policy" ELSE "owner")
    <3>1. stage'[c] = IF Asks(c, {"Preflight"}) THEN "work" ELSE IF Ask(c).door = "s3" THEN "policy" ELSE "owner"
      BY <1>0, <2>2 DEF Moves
    <3>2. /\ got'[c].user = got[c].user /\ got'[c].key = got[c].key /\ got'[c].need = got[c].need
          /\ got'[c].answer = None /\ got'[c].row = bucket[b]
      <4> DEFINE row == bucket[b]
      <4>1. got'[c] = [got[c] EXCEPT !.row = row]
        BY <1>0, <2>2
      <4> HIDE DEF row
      <4> QED BY <1>0, <1>2, <4>1 DEF IsGot, row
    <3>3. Need(c)' = Need(c)
      BY <1>1, <3>2 DEF Need
    <3>4. \A n \in 1 .. got'[c].need - 1 : Permitted(c, NeedsOf(c)[n])'
      BY <1>1, <1>3, <3>2 DEF Undisturbed
    <3>5. stage'[c] \in {"policy", "owner"} => got'[c].row = bucket'[Need(c).bucket] /\ ~Missing(Need(c).bucket)'
      BY <1>1, <2>2, <3>1, <3>2, <3>3
    <3>6. stage'[c] # "grant" /\ ~(stage'[c] = "owner" /\ Ask(c).door = "s3")
      BY <3>1
    <3> QED BY <1>1, <1>2, <3>2, <3>3, <3>4, <3>5, <3>6 DEF Undisturbed
  <2> QED BY <1>8, <2>1, <2>2 DEF ReadRow
<1> DEFINE n == Need(c)
           p == PermissionFor(c, n)
           acl == bucket[n.bucket].acl
<1>9. bucket[n.bucket] \in BucketRow => acl \in Acls
  BY DEF BucketRow
<1>10. CASE EvaluatePolicy(c)
  <2> DEFINE decision == Evaluate(policy[Need(c).bucket], PolicyRequest(c, Need(c), Ids(c), now))
  <2>0. stage[c] = "policy" /\ Ask(c).door = "s3"
    BY <1>0, <1>10 DEF EvaluatePolicy, Decided
  <2>1. /\ decision = "deny" <=> Says(c, n, "Deny")
        /\ decision = "allow" <=> ~Says(c, n, "Deny") /\ Says(c, n, "Allow")
        /\ decision = "notApplicable" <=> ~Says(c, n, "Deny") /\ ~Says(c, n, "Allow")
    BY <1>6, <2>0, DecisionsSay
  <2>2. Permitted(c, n) <=> ~Says(c, n, "Deny") /\ (Says(c, n, "Allow") \/ Entitled(c, n))
    BY <2>0 DEF Permitted
  <2> HIDE DEF n, decision
  <2>3. CASE decision = "deny"
    <3>1. Answered(c, "AccessDenied")
      BY <1>10, <2>3 DEF EvaluatePolicy, decision
    <3> QED BY <1>5, <2>1, <2>2, <2>3, <3>1 DEF n
  <2>4. CASE decision = "allow"
    <3>1. Granted(c)
      BY <1>10, <2>4 DEF EvaluatePolicy, decision
    <3> QED BY <1>4, <2>1, <2>2, <2>4, <3>1 DEF n
  <2>5. CASE decision = "notApplicable" /\ Anonymous(c)
    <3>1. Entitled(c, n) <=> p \in (IF acl = "authenticatedRead" THEN {} ELSE Opens[acl])
      BY <2>0, <2>5 DEF Entitled, Owns
    <3>2. AllowedByAcl(acl, p, TRUE) <=> p \in (IF acl = "authenticatedRead" THEN {} ELSE Opens[acl])
      <4>1. acl \in Acls /\ p \in Permission
        BY <1>6, <1>9, <2>0, ActionsNeedPermissions DEF PermissionFor, n
      <4> QED BY <4>1, AclOpens
    <3>3. IF AllowedByAcl(acl, p, TRUE) THEN Granted(c) ELSE Answered(c, "AccessDenied")
      BY <1>6, <1>10, <2>0, <2>5 DEF EvaluatePolicy, decision, PermissionFor, n
    <3>4. CASE Entitled(c, n)
      BY <1>4, <2>1, <2>2, <2>5, <3>1, <3>2, <3>3, <3>4 DEF n
    <3>5. CASE ~Entitled(c, n)
      BY <1>5, <2>1, <2>2, <2>5, <3>1, <3>2, <3>3, <3>5 DEF n
    <3> QED BY <3>4, <3>5
  <2>6. CASE decision = "notApplicable" /\ ~Anonymous(c)
    <3>1. IF bucket[n.bucket].owner = got[c].user THEN Granted(c) ELSE Moves(c, "owner") /\ UNCHANGED got
      BY <1>6, <1>10, <2>0, <2>6 DEF EvaluatePolicy, decision, n
    <3>2. CASE bucket[n.bucket].owner = got[c].user
      <4>1. Entitled(c, n)
        BY <2>6, <3>2 DEF Entitled, Owns
      <4> QED BY <1>4, <2>1, <2>2, <2>6, <3>1, <3>2, <4>1 DEF n
    <3>3. CASE bucket[n.bucket].owner # got[c].user
      BY <1>7, <2>0, <2>1, <2>6, <3>1, <3>3 DEF n
    <3> QED BY <3>2, <3>3
  <2> QED BY <1>10, <2>3, <2>4, <2>5, <2>6 DEF EvaluatePolicy, decision
<1>11. stage[c] \in {"owner", "grant"} => ~Anonymous(c)
  BY <1>0, RequestsAssumption DEF Decided, Anonymous
<1>12. stage[c] \in {"owner", "grant"} /\ Entitled(c, n) => Permitted(c, n)
  <2>1. Ask(c).door \in {"s3", "api"}
    BY <1>0, AskedWell DEF WellAsked, Ask
  <2>2. stage[c] \in {"owner", "grant"} /\ Ask(c).door = "s3" => ~Says(c, n, "Deny")
    BY DEF Undisturbed
  <2> HIDE DEF n
  <2> QED BY <2>1, <2>2 DEF Permitted
<1>13. CASE ReadOwner(c)
  <2>0. stage[c] = "owner"
    BY <1>13 DEF ReadOwner
  <2> HIDE DEF n
  <2>1. CASE Ask(c).door = "api" /\ Ask(c).role = "admin" /\ Granted(c)
    <3>1. Entitled(c, n)
      BY <2>1 DEF Entitled
    <3> QED BY <1>4, <1>12, <2>0, <2>1, <3>1 DEF n
  <2>2. CASE IF bucket[n.bucket].owner = got[c].user THEN Granted(c) ELSE Moves(c, "grant") /\ UNCHANGED got
    <3>1. CASE bucket[n.bucket].owner = got[c].user
      <4>1. Entitled(c, n)
        BY <1>11, <2>0, <3>1 DEF Entitled, Owns
      <4> QED BY <1>4, <1>12, <2>0, <2>2, <3>1, <4>1 DEF n
    <3>2. CASE bucket[n.bucket].owner # got[c].user
      BY <1>7, <2>0, <2>2, <3>2 DEF Undisturbed, n
    <3> QED BY <3>1, <3>2
  <2> QED BY <1>6, <1>13, <2>0, <2>1, <2>2 DEF ReadOwner, n
<1>14. CASE ReadGrant(c)
  <2>0. stage[c] = "grant" /\ bucket[n.bucket].owner # got[c].user /\ (Ask(c).door = "s3" \/ Ask(c).role # "admin")
        /\ Ask(c).door \in {"s3", "api"}
    <3>1. stage[c] = "grant"
      BY <1>14 DEF ReadGrant
    <3> QED BY <1>0, <3>1, AskedWell DEF Undisturbed, Decided, WellAsked, Ask
  <2> DEFINE granted == p \in grants[n.bucket][got[c].user]
             opened == Ask(c).door = "s3" /\ AllowedByAcl(got[c].row.acl, p, FALSE)
  <2>1. opened <=> Ask(c).door = "s3" /\ p \in Opens[acl]
    <3>1. Ask(c).door = "s3" => p \in Permission
      BY ActionsNeedPermissions DEF PermissionFor
    <3>2. acl \in Acls /\ got[c].row.acl = acl
      BY <1>6, <1>9, <2>0
    <3> HIDE DEF p, acl
    <3> QED BY <3>1, <3>2, AclOpens
  <2>2. Entitled(c, n) <=> granted \/ opened
    <3> HIDE DEF n, acl
    <3>1. ~Anonymous(c) /\ ~Owns(c, n.bucket) /\ ~(Ask(c).door = "api" /\ Ask(c).role = "admin")
      BY <1>11, <2>0 DEF Owns
    <3> QED BY <2>1, <3>1 DEF Entitled, acl
  <2> HIDE DEF n, p, granted, opened
  <2>3. CASE granted \/ opened
    <3>1. Granted(c)
      BY <1>14, <2>3 DEF ReadGrant, granted, opened, p, n
    <3> QED BY <1>4, <1>12, <2>0, <2>2, <2>3, <3>1 DEF n
  <2>4. CASE ~granted /\ ~opened
    <3>1. Answered(c, "NoSuchBucket") \/ Answered(c, "AccessDenied")
      BY <1>14, <2>4 DEF ReadGrant, granted, opened, p, n
    <3>2. ~Permitted(c, n)
      BY <2>0, <2>2, <2>4 DEF Permitted, Undisturbed, n
    <3> QED BY <1>5, <3>1, <3>2 DEF n
  <2> QED BY <2>3, <2>4
<1> QED BY <1>8, <1>10, <1>13, <1>14

\* Nothing has been decided about a call that is not past the rate limit.
LEMMA UndisturbedAtFirst ==
  ASSUME NEW c \in Caller, got'[c].need = 1, got'[c].answer \notin {"AccessDenied", "NoSuchBucket"},
         stage'[c] \notin {"policy", "owner", "grant"}
  PROVE  Undisturbed(c)'
BY DEF Undisturbed

\* The guard and the rate limit refuse calls by names of their own.
LEMMA UndisturbedEarly ==
  ASSUME TypeInv, NEW c \in Caller, Guard(c) \/ PassUncounted(c) \/ Increment(c) \/ Arm(c)
  PROVE  Undisturbed(c)'
<1>0. /\ Rows /\ IsGot(got[c]) /\ stage[c] \in Early /\ got[c].need = 1 /\ got[c].answer = None
      /\ DOMAIN got = Caller /\ stage \in [Caller -> Stages] /\ None \notin {"AccessDenied", "NoSuchBucket"}
  <2>1. stage[c] \in {"guard", "limit", "arm"}
    BY DEF Guard, PassUncounted, Increment, Arm
  <2> QED BY <2>1, RequestsAssumption DEF TypeInv, Rows, Identified, Decided, Early
<1>1. Refusal(c) \notin {"AccessDenied", "NoSuchBucket"}
  BY DEF Refusal
<1>2. \/ UNCHANGED got
      \/ \E x : got' = [got EXCEPT ![c].answer = x] /\ x \notin {"AccessDenied", "NoSuchBucket"}
      \/ \E x : got' = [got EXCEPT ![c].counted = x]
      \/ \E x, y : got' = [got EXCEPT ![c].key = x, ![c].user = y]
  <2>1. CASE Guard(c)
    BY <1>1, <2>1 DEF Guard, Answered
  <2>2. CASE PassUncounted(c) \/ Increment(c) \/ Arm(c)
    BY <2>2, SMTT(60) DEF PassUncounted, Increment, Arm, Dispatch, Answered
  <2> QED BY <2>1, <2>2
<1>3. got'[c].need = 1 /\ got'[c].answer \notin {"AccessDenied", "NoSuchBucket"}
  <2>1. CASE \E x : got' = [got EXCEPT ![c].answer = x] /\ x \notin {"AccessDenied", "NoSuchBucket"}
    <3>1. PICK x : got' = [got EXCEPT ![c].answer = x] /\ x \notin {"AccessDenied", "NoSuchBucket"}
      BY <2>1
    <3>2. got'[c] = [got[c] EXCEPT !.answer = x]
      BY <1>0, <3>1
    <3> QED BY <1>0, <3>1, <3>2 DEF IsGot
  <2>2. CASE UNCHANGED got \/ (\E x : got' = [got EXCEPT ![c].counted = x])
             \/ \E x, y : got' = [got EXCEPT ![c].key = x, ![c].user = y]
    <3>1. got'[c].need = got[c].need /\ got'[c].answer = got[c].answer
      BY <1>0, <2>2, ZenonT(60) DEF IsGot
    <3> QED BY <1>0, <3>1
  <2> QED BY <1>2, <2>1, <2>2
<1>4. \E to \in {"limit", "arm", "key", "work", "row", "done"} : stage' = [stage EXCEPT ![c] = to]
  BY DEF Guard, PassUncounted, Increment, Arm, Dispatch, Answered, Moves
<1>5. stage'[c] \notin {"policy", "owner", "grant"}
  BY <1>0, <1>4
<1> QED BY <1>3, <1>5, UndisturbedAtFirst

\* Of a caller that takes no step nothing is disturbed while nothing changes.
LEMMA SteadyOthers ==
  ASSUME TypeInv, Steadiness, Remember, scenario' = scenario, NEW c \in Caller,
         stage'[c] = stage[c], got'[c].user = got[c].user, got'[c].key = got[c].key, got'[c].need = got[c].need,
         got'[c].answer = got[c].answer, got'[c].row = got[c].row
  PROVE  steady'[c] => stage'[c] # "unsent" /\ Undisturbed(c)'
<1> HAVE steady'[c]
<1>1. stage'[c] # "unsent" /\ (stage[c] = "unsent" \/ (steady[c] /\ UNCHANGED <<rules, now>>))
  BY DEF Remember
<1>2. steady[c] /\ UNCHANGED <<scenario, rules, now>>
  BY <1>1
<1>3. Undisturbed(c)
  BY <1>2 DEF Steadiness
<1> QED BY <1>1, <1>2, <1>3, UndisturbedStays

\* The steps of a call that nobody disturbs.
LEMMA SteadinessStep ==
  ASSUME TypeInv, Steadiness, [Next]_vars
  PROVE  Steadiness'
<1> DEFINE Good(c) == steady'[c] => stage'[c] # "unsent" /\ Undisturbed(c)'
<1>0. /\ stage \in [Caller -> Stages] /\ DOMAIN got = Caller
      /\ \A c \in Caller : IsGot(got[c]) /\ Decided(c) /\ Identified(c)
  BY DEF TypeInv, Rows, Identified
<1>1. ASSUME Next
      PROVE  \A c \in Caller : Good(c)
  <2>0. Remember
    BY <1>1 DEF Next, Run, Others
  <2>1. CASE \E d \in Caller : Decide(d)
    <3>1. PICK d \in Caller : Decide(d)
      BY <2>1
    <3>2. scenario' = scenario /\ \A c \in Caller \ {d} : stage'[c] = stage[c] /\ got'[c] = got[c]
      BY <3>1, OneIsDecided
    <3>3. \A c \in Caller \ {d} : Good(c)
      BY <2>0, <3>2, SteadyOthers
    <3>4. Good(d)
      <4> HAVE steady'[d]
      <4>1. stage[d] # "unsent"
        BY <3>1 DEF Decide, Guard, PassUncounted, Increment, Arm, ReadRow, EvaluatePolicy, ReadOwner, ReadGrant
      <4>2. stage'[d] # "unsent" /\ steady[d]
        BY <2>0, <4>1 DEF Remember
      <4>3. Undisturbed(d)
        BY <4>2 DEF Steadiness
      <4> QED BY <3>1, <4>2, <4>3, UndisturbedEarly, UndisturbedAuthorization DEF Decide
    <3> QED BY <3>3, <3>4
  <2>2. CASE \E d \in Caller : Work(d) \/ HangUp(d)
    <3>1. PICK d \in Caller : Work(d) \/ HangUp(d)
      BY <2>2
    <3>2. scenario' = scenario /\ \A c \in Caller \ {d} : stage'[c] = stage[c] /\ got'[c] = got[c]
      BY <3>1, OneIsHandled DEF Onward
    <3>3. \A c \in Caller \ {d} : Good(c)
      BY <2>0, <3>2, SteadyOthers
    <3>4. Good(d)
      <4> HAVE steady'[d]
      <4>1. stage[d] # "unsent"
        BY <3>1, HandlersHandle DEF Handled, Working
      <4>2. stage'[d] # "unsent" /\ steady[d] /\ UNCHANGED <<rules, now>>
        BY <2>0, <4>1 DEF Remember
      <4>3. Undisturbed(d)
        BY <4>2 DEF Steadiness
      <4>4. /\ stage'[d] \notin {"policy", "owner", "grant"}
            /\ NeedsOf(d) = <<>> \/ got'[d].answer \notin {"AccessDenied", "NoSuchBucket"}
            /\ got'[d].user = got[d].user /\ got'[d].key = got[d].key /\ got'[d].need = got[d].need
        BY <3>1, HandledStaysKnown DEF Working
      <4> QED BY <3>2, <4>2, <4>3, <4>4, UndisturbedStays
    <3> QED BY <3>3, <3>4
  <2>3. CASE \E d \in Caller : Send(d)
    <3>1. PICK d \in Caller : Send(d)
      BY <2>3
    <3>2. scenario' = scenario /\ \A c \in Caller \ {d} : stage'[c] = stage[c] /\ got'[c] = got[c]
      BY <1>0, <3>1 DEF Send, Moves
    <3>3. \A c \in Caller \ {d} : Good(c)
      BY <2>0, <3>2, SteadyOthers
    <3>4. stage[d] = "unsent" /\ stage'[d] \in {"guard", "limit"} /\ got[d].need = 1 /\ got[d].answer = None
      BY <1>0, <3>1 DEF Send, Moves, Decided, Early, Identified
    <3>5. got'[d].need = 1 /\ got'[d].answer = None
      BY <1>0, <3>1, <3>4 DEF Send, IsGot
    <3>6. Good(d)
      BY <3>4, <3>5, UndisturbedAtFirst, RequestsAssumption
    <3> QED BY <3>3, <3>6
  <2>4. CASE Tick \/ LoseStore \/ RestoreStore \/ Notice
    <3>1. scenario' = scenario
      BY <2>4 DEF Tick, LoseStore, RestoreStore, Notice
    <3>2. \A c \in Caller : /\ stage'[c] = stage[c] /\ got'[c].user = got[c].user /\ got'[c].key = got[c].key
                            /\ got'[c].need = got[c].need /\ got'[c].answer = got[c].answer /\ got'[c].row = got[c].row
      BY <1>0, <2>4 DEF Tick, LoseStore, RestoreStore, Notice, call, IsGot
    <3> QED BY <2>0, <3>1, <3>2, SteadyOthers
  <2> QED BY <1>1, <2>1, <2>2, <2>3, <2>4 DEF Next, Run, Others
<1>2. ASSUME UNCHANGED vars
      PROVE  \A c \in Caller : Good(c)
  <2>1. UNCHANGED <<scenario, rules, now, stage, got, steady>>
    BY <1>2 DEF vars, call
  <2> SUFFICES ASSUME NEW c \in Caller, steady[c] PROVE stage[c] # "unsent" /\ Undisturbed(c)'
    BY <2>1
  <2>2. stage[c] # "unsent" /\ Undisturbed(c)
    BY DEF Steadiness
  <2> QED BY <2>1, <2>2, UndisturbedStays
<1>3. \A c \in Caller : Good(c)
  BY <1>1, <1>2
<1> QED BY <1>3 DEF Steadiness

\* As long as nobody changes a key, a policy, an ACL or a grant and the clock
\* stands, the four looks of authorize and hasPermission decide as one look would:
\* a call gets past a need exactly when policy, ownership, grants and ACL permit it.
THEOREM FourLooksAreOne == Spec => []UndisturbedDecisions
<1>1. Init => Steadiness
  BY DEF Init, Steadiness
<1>2. TypeInv /\ Steadiness /\ [Next]_vars => Steadiness'
  BY SteadinessStep
<1>3. Steadiness => UndisturbedDecisions
  BY DEF Steadiness, Undisturbed, UndisturbedDecisions
<1> QED BY <1>1, <1>2, <1>3, InvariantOfTypes, PTL DEF Spec

-----------------------------------------------------------------------------
\* The subject a call is counted under is settled by the guard.
LEMMA SameSubject ==
  ASSUME scenario' = scenario, NEW c \in Caller, got'[c].key = got[c].key, got'[c].user = got[c].user
  PROVE  SubjectOf(c)' = SubjectOf(c)
BY SameAsk DEF SubjectOf, SubjectAtApi

\* Calls that were let through are let through no more than once.
LEMMA AdmittedAreFinite ==
  ASSUME NEW at
  PROVE  IsFiniteSet(Admitted(at)) /\ Cardinality(Admitted(at)) \in Nat
<1>1. Admitted(at) \subseteq Caller
  BY DEF Admitted
<1> QED BY <1>1, RequestsAssumption, FS_Subset, FS_CardinalityType

\* Steps that count nobody.
LEMMA NobodyIsCounted ==
  ASSUME Rows, Counted, UNCHANGED <<scenario, counter>>,
         \A d \in Caller :
             /\ got'[d].counted = got[d].counted
             /\ got'[d].answer = got[d].answer \/ got[d].answer # "SlowDown"
             /\ (got'[d].key = got[d].key /\ got'[d].user = got[d].user) \/ stage[d] \in {"unsent", "guard"}
             /\ stage'[d] \in {"unsent", "guard", "limit"} => got[d].counted = None
  PROVE  Counted'
<1>1. ASSUME NEW at \in DOMAIN counter \ {None}
      PROVE  Cardinality(Admitted(at))' =< counter[at] /\ Cardinality(Admitted(at))' =< Budget
  <2>1. Admitted(at)' \subseteq Admitted(at)
    BY DEF Admitted
  <2>2. Cardinality(Admitted(at)') =< Cardinality(Admitted(at)) /\ Cardinality(Admitted(at)') \in Nat
    BY <2>1, AdmittedAreFinite, FS_Subset, FS_CardinalityType
  <2>3. Cardinality(Admitted(at)) =< counter[at] /\ Cardinality(Admitted(at)) =< Budget
    BY <1>1 DEF Counted
  <2>4. counter[at] \in Nat /\ Budget \in Nat
    BY <1>1, RequestsAssumption DEF Rows
  <2>5. Cardinality(Admitted(at)) \in Nat
    BY AdmittedAreFinite
  <2> QED BY <2>2, <2>3, <2>4, <2>5
<1>2. ASSUME NEW c \in Caller, got[c].counted # None
      PROVE  got[c].counted \in DOMAIN counter /\ got[c].counted[1] = SubjectOf(c)'
  <2>1. got'[c].key = got[c].key /\ got'[c].user = got[c].user
    BY <1>2 DEF Counted
  <2> QED BY <1>2, <2>1, SameSubject DEF Counted
<1> QED BY <1>1, <1>2 DEF Counted

\* A call that is counted is let through while there is budget left.
LEMMA IncrementCounts ==
  ASSUME TypeInv, Counted, NEW c \in Caller, Increment(c)
  PROVE  Counted'
<1> DEFINE s == SubjectOf(c)
           here == <<s, WindowIndex>>
           hits == Hits(s, WindowIndex)
           count == hits + 1
<1>0. /\ Rows /\ stage[c] = "limit" /\ got[c].counted = None /\ got[c].answer = None /\ IsGot(got[c])
      /\ DOMAIN got = Caller /\ stage \in [Caller -> Stages] /\ None # "SlowDown" /\ Budget \in Nat \ {0}
  BY RequestsAssumption DEF TypeInv, Rows, Identified, Counted, Increment
<1>1. hits = IF here \in DOMAIN counter THEN counter[here] ELSE 0
  BY DEF Hits
<1>2. hits \in Nat
  BY <1>0, <1>1 DEF Rows
<1>3. scenario' = scenario /\ \A d \in Caller \ {c} : got'[d] = got[d] /\ stage'[d] = stage[d]
  <2>1. Decide(c)
    BY DEF Decide
  <2> QED BY <2>1, OneIsDecided
<1>4. counter' = [at \in DOMAIN counter \cup {here} |-> IF at = here THEN count ELSE counter[at]]
  BY DEF Increment
<1>5. \/ /\ count = 1 \/ count =< Budget
         /\ got'[c].counted = here
      \/ /\ count # 1 /\ ~(count =< Budget)
         /\ got'[c].counted = None /\ got'[c].answer = "SlowDown"
  <2>1. CASE count = 1 \/ WithinBudget(count)
    <3>1. got' = [got EXCEPT ![c].counted = here]
      BY <2>1 DEF Increment, Dispatch
    <3>2. got'[c].counted = here
      BY <1>0, <3>1 DEF IsGot
    <3> QED BY <2>1, <3>2 DEF WithinBudget
  <2>2. CASE count # 1 /\ ~WithinBudget(count)
    <3>1. got' = [got EXCEPT ![c].answer = "SlowDown"]
      BY <2>2 DEF Increment, Answered
    <3>2. got'[c].counted = None /\ got'[c].answer = "SlowDown"
      BY <1>0, <3>1 DEF IsGot
    <3> QED BY <2>2, <3>2 DEF WithinBudget
  <2> QED BY <2>1, <2>2
<1>6. got'[c].key = got[c].key /\ got'[c].user = got[c].user /\ stage'[c] \notin {"unsent", "guard", "limit"}
  <2>1. (\E x : got' = [got EXCEPT ![c].counted = x]) \/ \E x : got' = [got EXCEPT ![c].answer = x]
    BY DEF Increment, Dispatch, Answered
  <2>2. \E to \in {"arm", "key", "work", "row", "done"} : stage' = [stage EXCEPT ![c] = to]
    BY DEF Increment, Dispatch, Answered, Moves
  <2> QED BY <1>0, <2>1, <2>2 DEF IsGot
<1> HIDE DEF s, here, hits
<1>7. DOMAIN counter' = DOMAIN counter \cup {here} /\ counter'[here] = count
      /\ \A at \in DOMAIN counter \ {here} : counter'[at] = counter[at]
  BY <1>4
<1>8. ASSUME NEW at \in DOMAIN counter' \ {None}
      PROVE  Cardinality(Admitted(at)') =< counter'[at] /\ Cardinality(Admitted(at)') =< Budget
  <2>0. /\ Cardinality(Admitted(at)) \in Nat /\ IsFiniteSet(Admitted(at))
        /\ at \in DOMAIN counter => /\ counter[at] \in Nat /\ Cardinality(Admitted(at)) =< counter[at]
                                    /\ Cardinality(Admitted(at)) =< Budget
    BY <1>0, <1>8, AdmittedAreFinite DEF Counted, Rows
  <2>1. CASE at # here \/ got'[c].counted # here
    <3>1. Admitted(at)' \subseteq Admitted(at)
      BY <1>3, <1>5, <1>8, <2>1 DEF Admitted
    <3>2. Cardinality(Admitted(at)') =< Cardinality(Admitted(at)) /\ Cardinality(Admitted(at)') \in Nat
      BY <2>0, <3>1, FS_Subset, FS_CardinalityType
    <3>3. CASE at # here
      <4>1. at \in DOMAIN counter /\ counter'[at] = counter[at]
        BY <1>7, <1>8, <3>3
      <4> QED BY <1>0, <2>0, <3>2, <4>1
    <3>4. CASE at = here /\ got'[c].counted # here
      <4>1. count # 1 /\ here \in DOMAIN counter
        BY <1>1, <1>5, <3>4
      <4> QED BY <1>0, <1>1, <1>2, <1>4, <2>0, <3>2, <3>4, <4>1
    <3> QED BY <2>1, <3>3, <3>4
  <2>2. CASE at = here /\ got'[c].counted = here
    <3>1. Admitted(at)' \subseteq Admitted(at) \cup {c}
      BY <1>3 DEF Admitted
    <3>2. /\ Cardinality(Admitted(at) \cup {c}) =< Cardinality(Admitted(at)) + 1
          /\ IsFiniteSet(Admitted(at) \cup {c}) /\ Cardinality(Admitted(at) \cup {c}) \in Nat
      <4>1. /\ IsFiniteSet(Admitted(at) \cup {c})
            /\ \/ Cardinality(Admitted(at) \cup {c}) = Cardinality(Admitted(at))
               \/ Cardinality(Admitted(at) \cup {c}) = Cardinality(Admitted(at)) + 1
        BY <2>0, FS_AddElement
      <4> QED BY <2>0, <4>1
    <3>3. Cardinality(Admitted(at)') =< Cardinality(Admitted(at)) + 1 /\ Cardinality(Admitted(at)') \in Nat
      <4>1. /\ Cardinality(Admitted(at)') =< Cardinality(Admitted(at) \cup {c})
            /\ Cardinality(Admitted(at)') \in Nat
        BY <3>1, <3>2, FS_Subset, FS_CardinalityType
      <4> QED BY <2>0, <2>2, <3>2, <4>1
    <3>4. Cardinality(Admitted(at)) =< hits
      <4>1. CASE here \in DOMAIN counter
        BY <1>1, <2>0, <2>2, <4>1
      <4>2. CASE here \notin DOMAIN counter
        <5>1. Admitted(at) = {}
          BY <1>8, <2>2, <4>2 DEF Admitted, Counted
        <5> QED BY <1>1, <4>2, <5>1, FS_EmptySet
      <4> QED BY <4>1, <4>2
    <3>5. Cardinality(Admitted(at)') =< count /\ count =< Budget
      <4>1. here # None
        BY <1>8, <2>2
      <4>2. count = 1 \/ count =< Budget
        BY <1>5, <2>2, <4>1
      <4> QED BY <1>0, <1>2, <2>0, <2>2, <3>3, <3>4, <4>2
    <3>6. counter'[at] = count
      BY <1>7, <2>2
    <3>7. count \in Nat
      BY <1>2
    <3> HIDE DEF count
    <3> QED BY <1>0, <3>3, <3>5, <3>6, <3>7
  <2> QED BY <2>1, <2>2
<1>9. ASSUME NEW d \in Caller
      PROVE  /\ got'[d].counted # None => got'[d].counted \in DOMAIN counter' /\ got'[d].counted[1] = SubjectOf(d)'
             /\ stage'[d] \in {"unsent", "guard", "limit"} => got'[d].counted = None
  <2>1. SubjectOf(d)' = SubjectOf(d)
    BY <1>3, <1>6, SameSubject
  <2>2. CASE d = c
    <3>1. here[1] = SubjectOf(c)
      BY DEF here, s
    <3> QED BY <1>4, <1>5, <1>6, <2>1, <2>2, <3>1
  <2>3. CASE d # c
    BY <1>3, <1>4, <2>1, <2>3 DEF Counted
  <2> QED BY <2>2, <2>3
<1> QED BY <1>8, <1>9 DEF Counted

\* The counters go away, and with them who was counted, or they stay.
LEMMA CountedStep ==
  ASSUME TypeInv, Counted, [Next]_vars
  PROVE  Counted'
<1>0. /\ Rows /\ stage \in [Caller -> Stages] /\ DOMAIN got = Caller /\ None # "SlowDown"
      /\ \A c \in Caller : IsGot(got[c]) /\ (stage[c] # "done" => got[c].answer # "SlowDown")
  BY RequestsAssumption DEF TypeInv, Rows, Identified
<1>1. ASSUME NEW c \in Caller, Guard(c) \/ PassUncounted(c) \/ Arm(c) \/ ReadRow(c) \/ EvaluatePolicy(c) \/ ReadOwner(c) \/ ReadGrant(c)
      PROVE  Counted'
  <2>1. scenario' = scenario /\ counter' = counter /\ \A d \in Caller \ {c} : stage'[d] = stage[d] /\ got'[d] = got[d]
    BY <1>1, OneIsDecided DEF Decide, Guard, PassUncounted, Arm, ReadRow, EvaluatePolicy, ReadOwner, ReadGrant, store
  <2>2. stage[c] # "done" /\ (stage[c] \in {"unsent", "guard", "limit"} => got[c].counted = None)
    BY <1>1 DEF Guard, PassUncounted, Arm, ReadRow, EvaluatePolicy, ReadOwner, ReadGrant, Counted
  <2>3. CASE Guard(c)
    <3>1. stage[c] = "guard"
      BY <2>3 DEF Guard
    <3>2. \/ UNCHANGED got
          \/ \E x : got' = [got EXCEPT ![c].answer = x]
          \/ \E x, y : got' = [got EXCEPT ![c].key = x, ![c].user = y]
      BY <2>3 DEF Guard, Answered
    <3>3. got'[c].counted = got[c].counted
      BY <1>0, <3>2, ZenonT(60) DEF IsGot
    <3> QED BY <1>0, <2>1, <2>2, <3>1, <3>3, NobodyIsCounted DEF Counted
  <2>4. CASE PassUncounted(c) \/ Arm(c)
    <3>1. Dispatch(c, got[c].counted)
      BY <2>2, <2>4 DEF PassUncounted, Arm
    <3>2. /\ got'[c].counted = got[c].counted /\ got'[c].answer = got[c].answer
          /\ got'[c].key = got[c].key /\ got'[c].user = got[c].user
      <4> DEFINE x == got[c].counted
      <4>1. got' = [got EXCEPT ![c].counted = x]
        BY <3>1 DEF Dispatch
      <4> HIDE DEF x
      <4>2. got'[c].counted = x
        BY <1>0, <4>1 DEF IsGot
      <4>3. /\ got'[c].answer = got[c].answer /\ got'[c].key = got[c].key /\ got'[c].user = got[c].user
        BY <1>0, <4>1 DEF IsGot
      <4> QED BY <4>2, <4>3 DEF x
    <3>3. stage'[c] \notin {"unsent", "guard", "limit"}
      BY <1>0, <3>1 DEF Dispatch, Moves
    <3> QED BY <1>0, <2>1, <3>2, <3>3, NobodyIsCounted DEF Counted
  <2>5. CASE ReadRow(c) \/ EvaluatePolicy(c) \/ ReadOwner(c) \/ ReadGrant(c)
    <3>1. \/ UNCHANGED got
          \/ \E x : got' = [got EXCEPT ![c].answer = x]
          \/ \E x : got' = [got EXCEPT ![c].row = x]
          \/ \E x : got' = [got EXCEPT ![c].need = x]
      BY <2>5 DEF ReadRow, EvaluatePolicy, ReadOwner, ReadGrant, Answered, Granted
    <3>2. got'[c].counted = got[c].counted /\ got'[c].key = got[c].key /\ got'[c].user = got[c].user
      BY <1>0, <3>1 DEF IsGot
    <3>3. \E to \in {"work", "row", "policy", "owner", "grant", "done"} : stage' = [stage EXCEPT ![c] = to]
      BY <2>5 DEF ReadRow, EvaluatePolicy, ReadOwner, ReadGrant, Answered, Granted, Moves
    <3>4. stage'[c] \notin {"unsent", "guard", "limit"}
      BY <1>0, <3>3
    <3> QED BY <1>0, <2>1, <2>2, <3>2, <3>4, NobodyIsCounted DEF Counted
  <2> QED BY <1>1, <2>3, <2>4, <2>5
<1>2. ASSUME NEW c \in Caller, Work(c) \/ HangUp(c)
      PROVE  Counted'
  <2>1. scenario' = scenario /\ \A d \in Caller \ {c} : stage'[d] = stage[d] /\ got'[d] = got[d]
    BY <1>2, OneIsHandled DEF Onward
  <2>2. counter' = counter /\ stage[c] # "done"
    BY <1>2, HandlersHandle DEF Handled, store, Working
  <2>3. /\ stage'[c] \notin {"unsent", "guard", "limit"} /\ got'[c].counted = got[c].counted
        /\ got'[c].key = got[c].key /\ got'[c].user = got[c].user
    BY <1>2, HandledStaysKnown DEF Working
  <2> QED BY <1>0, <2>1, <2>2, <2>3, NobodyIsCounted DEF Counted
<1>3. ASSUME NEW c \in Caller, Send(c)
      PROVE  Counted'
  <2>1. stage[c] = "unsent" /\ UNCHANGED <<scenario, counter>> /\ \A d \in Caller \ {c} : stage'[d] = stage[d] /\ got'[d] = got[d]
    BY <1>0, <1>3 DEF Send, Moves, store
  <2>2. got'[c].counted = got[c].counted /\ got'[c].answer = got[c].answer
    BY <1>0, <1>3 DEF Send, IsGot
  <2> QED BY <1>0, <2>1, <2>2, NobodyIsCounted DEF Counted
<1>4. ASSUME UNCHANGED <<scenario, counter, stage, got>>
      PROVE  Counted'
  BY <1>0, <1>4, NobodyIsCounted DEF Counted
<1>5. ASSUME LoseStore, ~UNCHANGED got
      PROVE  Counted'
  <2>1. counter' = <<>> /\ got' = [c \in Caller |-> [got[c] EXCEPT !.counted = None]]
    BY <1>5 DEF LoseStore
  <2>2. \A c \in Caller : got'[c].counted = None
    BY <1>0, <2>1 DEF IsGot
  <2>3. DOMAIN counter' = {}
    BY <2>1
  <2> QED BY <2>2, <2>3 DEF Counted
<1>6. CASE Tick \/ LoseStore \/ RestoreStore \/ Notice
  <2>1. UNCHANGED <<scenario, counter, stage, got>> \/ (LoseStore /\ ~UNCHANGED got)
        \/ (LoseStore /\ counter' = <<>> /\ UNCHANGED got)
    BY <1>6 DEF Tick, LoseStore, RestoreStore, Notice, store, call
  <2>2. CASE LoseStore /\ counter' = <<>> /\ UNCHANGED got
    <3>1. CASE got' = [c \in Caller |-> [got[c] EXCEPT !.counted = None]]
      <4>1. \A c \in Caller : got'[c].counted = None
        BY <1>0, <3>1 DEF IsGot
      <4> QED BY <2>2, <4>1 DEF Counted
    <3>2. CASE UNCHANGED <<scenario, counter, stage, got>>
      BY <1>4, <3>2
    <3> QED BY <2>2, <3>1, <3>2 DEF LoseStore
  <2> QED BY <1>4, <1>5, <2>1, <2>2
<1>7. CASE UNCHANGED vars
  BY <1>4, <1>7 DEF vars, store, call
<1> QED BY <1>1, <1>2, <1>3, <1>6, <1>7, IncrementCounts DEF Next, Run, Others, Decide

\* A window lets no more calls of a subject through than its budget, for any
\* number of callers, whatever becomes of Valkey; a call is counted under a key only
\* when it was signed with one, and under its address only when nobody is known to
\* make it.
THEOREM BudgetsAreKept == Spec => []BudgetsHold
<1>1. Init => Counted
  <2> SUFFICES ASSUME Init PROVE Counted
    OBVIOUS
  <2>1. DOMAIN counter = {} /\ \A c \in Caller : got[c].counted = None
    BY DEF Init
  <2> QED BY <2>1 DEF Counted
<1>2. TypeInv /\ Counted /\ [Next]_vars => Counted'
  BY CountedStep
<1>3. TypeInv /\ Counted => BudgetsHold
  <2> SUFFICES ASSUME TypeInv, Counted, NEW c \in Caller, got[c].counted # None
               PROVE  /\ Cardinality(Admitted(got[c].counted)) <= Budget
                      /\ got[c].counted[1] \in KeyId => Ask(c).auth # "none" /\ Ask(c).genuine
                      /\ got[c].counted[1] = Ask(c).address => got[c].user = None
    BY DEF BudgetsHold, Admitted
  <2>1. Cardinality(Admitted(got[c].counted)) =< Budget /\ got[c].counted[1] = SubjectOf(c)
    BY DEF Counted
  <2>2. /\ Ask(c).address \notin KeyId \cup User /\ KeyId \cap User = {} /\ None \notin KeyId \cup User
        /\ Ask(c).door \in {"s3", "api"}
    BY AskedWell, RequestsAssumption DEF TypeInv, WellAsked, Ask
  <2>3. Identified(c) /\ got[c].key \in KeyId \cup {None} /\ got[c].user \in User \cup {None}
    BY DEF TypeInv, Identified, IsGot
  <2>4. CASE got[c].key # None
    BY <2>1, <2>2, <2>3, <2>4 DEF SubjectOf, Identified
  <2>5. CASE got[c].key = None
    <3>1. SubjectOf(c) = IF Ask(c).door = "api" /\ got[c].user # None THEN got[c].user ELSE Ask(c).address
      BY <2>5 DEF SubjectOf, SubjectAtApi
    <3>2. Ask(c).door = "s3" => got[c].user = None
      BY <2>3, <2>5 DEF Identified
    <3> QED BY <2>1, <2>2, <2>3, <3>1, <3>2
  <2> QED BY <2>4, <2>5
<1> QED BY <1>1, <1>2, <1>3, InvariantOfTypes, PTL DEF Spec

-----------------------------------------------------------------------------
\* A body on its way: what has been told and what is left are what the client meant,
\* a signed one is verified so far, one that nobody changed is followed.
Unchanged(a) == (a.framing = "signed" /\ a.sent = "whole") \/ (a.framing = "unsigned" /\ a.sent # "altered")
Tracked(a, p, left) ==
    LET all == AllOf(a.chunks)
        signed == a.framing = "signed"
    IN \E e, m : /\ Intact(all, signed, e, a.wire, m) /\ Follows(all, signed, e, a.wire, m, p, left)
                 /\ a.sent = "whole" => Complete(all, e, a.wire, m)
Reads(a, p, left) ==
    /\ Parser(p) /\ left \in Seq(Symbol)
    /\ a.framing = "plain" => p.state = "header" /\ p.out \o left = Plain(a.chunks)
    /\ a.framing = "signed" => Verified(AllOf(a.chunks), p) /\ left \in Seq(Genuine(AllOf(a.chunks)))
    /\ Unchanged(a) => Tracked(a, p, left)

\* What is stored is what the client meant, and a whole body is.
Survives(c) ==
    LET meant == Plain(Ask(c).chunks) IN
    /\ got[c].answer \in {None, "ok"} /\ (Ask(c).framing # "unsigned" \/ Ask(c).sent # "altered") =>
           io[c].parser.out = meant
    /\ Ask(c).sent = "whole" /\ Len(meant) <= MaxBytes /\ Ask(c).md5 \in {None, meant} =>
           got[c].answer \in {None, "ok", "gone"}
Bodies(c) ==
    Asks(c, {"PutObject"}) =>
        /\ stage[c] \notin {"body", "commit", "hung", "done"} => io[c] = None
        /\ stage[c] = "body" => Reads(Ask(c), io[c].parser, io[c].left)
        /\ stage[c] \in {"commit", "done"} /\ io[c] # None => Survives(c)

\* Only the client signs chunks.
LEMMA SignaturesAreGenuine ==
  ASSUME NEW all, NEW wire \in Seq(Symbol),
         \A i \in 1 .. Len(wire) : wire[i].is = "sig" => \E n \in 0 .. Len(all) : wire[i].over = SubSeq(all, 1, n)
  PROVE  wire \in Seq(Genuine(all))
<1> DEFINE N == Len(wire)
           G == Genuine(all)
<1>1. N \in Nat /\ wire \in [1 .. N -> Symbol]
  OBVIOUS
<1>2. ASSUME NEW i \in 1 .. N PROVE wire[i] \in G
  <2>1. wire[i] \in Symbol
    BY <1>1
  <2> QED BY <2>1 DEF Genuine
<1> HIDE DEF G, N
<1>3. wire \in [1 .. N -> G]
  BY <1>1, <1>2
<1> QED BY <1>1, <1>3, SeqDef DEF G

\* Nothing has been read of a body at first.
LEMMA BodyBegins ==
  ASSUME NEW a, WellSent(a)
  PROVE  Reads(a, NewParser(a.framing = "signed"), a.wire)
<1> DEFINE all == AllOf(a.chunks)
           signed == a.framing = "signed"
           p == NewParser(signed)
<1>0. /\ a.framing \in {"plain", "signed", "unsigned"} /\ a.chunks \in Seq(Seq(Byte) \ {<<>>}) /\ a.wire \in Seq(Symbol)
      /\ signed \in BOOLEAN
  BY DEF WellSent
<1>1. Client(all) /\ Parser(p) /\ p.out = <<>> /\ p.state = "header"
  <2>1. Client(all)
    BY <1>0, EndSaysNothing
  <2>2. Parser(p) /\ p.out = <<>>
    <3> HIDE DEF signed
    <3> QED BY <1>0, ParserStarts
  <2>3. p.state = "header"
    BY DEF NewParser
  <2> QED BY <2>1, <2>2, <2>3
<1>2. a.framing = "plain" => p.out \o a.wire = Plain(a.chunks)
  <2> DEFINE w == a.wire
  <2>1. w \in Seq(Symbol)
    BY <1>0
  <2> HIDE DEF w
  <2>2. <<>> \o w = w
    BY <2>1, ConcatEmptySeq
  <2> QED BY <1>1, <2>2 DEF WellSent, w
<1>3. ASSUME a.framing = "signed" PROVE Verified(all, p) /\ a.wire \in Seq(Genuine(all))
  <2>1. Verified(all, p)
    <3>1. p = NewParser(TRUE)
      BY <1>3
    <3> QED BY <1>1, <3>1, VerifiedStarts
  <2>2. \A i \in 1 .. Len(a.wire) : a.wire[i].is = "sig" => \E n \in 0 .. Len(all) : a.wire[i].over = SubSeq(all, 1, n)
    BY <1>3 DEF WellSent
  <2>3. a.wire \in Seq(Genuine(all))
    <3> DEFINE w == a.wire
    <3>1. w \in Seq(Symbol) /\ \A i \in 1 .. Len(w) : w[i].is = "sig" => \E n \in 0 .. Len(all) : w[i].over = SubSeq(all, 1, n)
      BY <1>0, <2>2
    <3> HIDE DEF w, all
    <3>2. w \in Seq(Genuine(all))
      BY <3>1, SignaturesAreGenuine
    <3> QED BY <3>2 DEF w
  <2> QED BY <2>1, <2>3
<1>4. ASSUME Unchanged(a) PROVE Tracked(a, p, a.wire)
  <2> DEFINE w == a.wire
             F == Framed(all, signed)
  <2>1. \E e, m : Intact(all, signed, e, w, m) /\ (a.sent = "whole" => Complete(all, e, w, m))
    <3>1. CASE a.sent = "whole"
      <4>1. w \in {F, SubSeq(F, 1, Len(F) - 2)}
        BY <1>4, <3>1 DEF WellSent, Unchanged
      <4> HIDE DEF w, all, signed
      <4>2. \E e : Intact(all, signed, e, w, Len(w)) /\ Complete(all, e, w, Len(w))
        BY <1>0, <1>1, <4>1, WholeIsIntact
      <4> QED BY <4>2
    <3>2. CASE a.sent # "whole"
      <4>1. a.framing = "unsigned" /\ a.sent \notin {"whole", "altered"} /\ signed = FALSE
        BY <1>4, <3>2 DEF Unchanged
      <4>2. PICK m \in 0 .. Len(F) : m <= Len(w) /\ BrokenAt(w, all, signed, m)
        BY <4>1 DEF WellSent
      <4>3. w \in Seq(Symbol)
        BY <1>0
      <4> HIDE DEF w, all, signed
      <4>4. m \in Nat /\ m =< Len(Framed(all, signed)) /\ m =< Len(w)
        <5>1. F \in Seq(Symbol)
          <6>1. all \in Seq(Seq(Byte)) /\ Len(all) > 0
            BY <1>1 DEF Client
          <6> QED BY <1>0, <6>1, FramesAreLaid
        <5>2. Len(F) \in Nat
          BY <5>1
        <5> HIDE DEF F
        <5>3. m \in Nat /\ m =< Len(F)
          BY <5>2
        <5> QED BY <4>2, <5>3 DEF F
      <4>5. \E e : Intact(all, signed, e, w, m) /\ e[Len(all)] = Len(Framed(all, signed))
        BY <1>0, <1>1, <4>2, <4>3, <4>4, BrokenIsIntact
      <4> QED BY <3>2, <4>5
    <3> QED BY <3>1, <3>2
  <2>2. PICK e, m : Intact(all, signed, e, w, m) /\ (a.sent = "whole" => Complete(all, e, w, m))
    BY <2>1
  <2>3. Follows(all, signed, e, w, m, p, w)
    <3> HIDE DEF w, all, signed
    <3>1. Follows(all, signed, e, w, m, NewParser(signed), w)
      BY <2>2, FollowsStarts
    <3> QED BY <3>1
  <2> QED BY <2>2, <2>3 DEF Tracked
<1> QED BY <1>0, <1>1, <1>2, <1>3, <1>4 DEF Reads

\* A piece of it arrives.
LEMMA BodyIsFed ==
  ASSUME NEW a, WellSent(a), NEW p, NEW left, Reads(a, p, left), NEW n \in 1 .. Len(left), NEW q,
         q = IF a.framing = "plain" THEN [p EXCEPT !.out = @ \o SubSeq(left, 1, n)] ELSE [p EXCEPT !.pending = @ \o SubSeq(left, 1, n)]
  PROVE  Reads(a, q, From(left, n + 1))
<1> DEFINE all == AllOf(a.chunks)
           signed == a.framing = "signed"
           piece == SubSeq(left, 1, n)
           rest == From(left, n + 1)
<1>0. a.framing \in {"plain", "signed", "unsigned"} /\ Parser(p)
  BY DEF WellSent, Reads
<1>1. CASE a.framing = "plain"
  <2>0. p.state = "header" /\ left \in Seq(Symbol) /\ p.out \o left = Plain(a.chunks) /\ p.out \in Seq(Symbol)
    BY <1>0, <1>1 DEF Reads, Parser
  <2>1. piece \in Seq(Symbol) /\ rest \in Seq(Symbol) /\ piece \o rest = left
    <3>1. Len(left) \in 0 .. Len(left) /\ 0 \in 0 .. 0 /\ n \in 0 .. Len(left)
      BY <2>0
    <3>2. piece \in Seq(Symbol)
      BY <2>0, PlainSlice
    <3>3. rest \in Seq(Symbol)
      BY <2>0, FromIsSequence
    <3>4. piece \o rest = left
      BY <2>0, PrefixAndRest
    <3> QED BY <3>2, <3>3, <3>4
  <2> DEFINE out == p.out \o piece
  <2>2. out \o rest = p.out \o left /\ out \in Seq(Symbol)
    <3> DEFINE o == p.out
    <3>1. o \in Seq(Symbol) /\ piece \in Seq(Symbol) /\ rest \in Seq(Symbol)
      BY <2>0, <2>1
    <3> HIDE DEF o, piece, rest
    <3>2. (o \o piece) \o rest = o \o (piece \o rest) /\ o \o piece \in Seq(Symbol)
      BY <3>1, SymbolsInOrder, OneAfterTheOther
    <3> QED BY <2>1, <3>2 DEF o
  <2> HIDE DEF out, rest
  <2>3. q = [p EXCEPT !.out = out]
    BY <1>1 DEF out
  <2>4. Parser(q) /\ q.out = out /\ q.state = p.state
    BY <1>0, <2>2, <2>3 DEF Parser
  <2> QED BY <1>1, <2>0, <2>1, <2>2, <2>4 DEF Reads, Unchanged, rest
<1>2. CASE a.framing # "plain"
  <2>1. q = [p EXCEPT !.pending = @ \o piece]
    BY <1>2
  <2>2. ASSUME signed PROVE Verified(all, q) /\ rest \in Seq(Genuine(all))
    <3>1. Verified(all, p) /\ left \in Seq(Genuine(all))
      BY <2>2 DEF Reads
    <3> HIDE DEF all
    <3>2. piece \in Seq(Genuine(all))
      BY <3>1, PlainSlice
    <3>3. rest \in Seq(Genuine(all))
      BY <3>1, FromIsSequence
    <3> HIDE DEF piece
    <3>4. Verified(all, [p EXCEPT !.pending = @ \o piece])
      BY <3>1, <3>2, VerifiedIsFed
    <3> QED BY <2>1, <3>3, <3>4
  <2>3. ASSUME Unchanged(a) PROVE Tracked(a, q, rest)
    <3>1. PICK e, m : /\ Intact(all, signed, e, a.wire, m) /\ Follows(all, signed, e, a.wire, m, p, left)
                      /\ a.sent = "whole" => Complete(all, e, a.wire, m)
      BY <2>3 DEF Reads, Tracked
    <3> DEFINE w == a.wire
    <3>2. Intact(all, signed, e, w, m) /\ Follows(all, signed, e, w, m, p, left)
      BY <3>1
    <3> HIDE DEF all, signed, w
    <3>3. Follows(all, signed, e, w, m, [p EXCEPT !.pending = @ \o SubSeq(left, 1, n)], From(left, n + 1))
      BY <3>2, FollowsIsFed
    <3>4. Follows(all, signed, e, w, m, q, rest)
      BY <2>1, <3>3
    <3> QED BY <3>1, <3>4 DEF Tracked, all, signed, w
  <2>4. Parser(q)
    <3>1. CASE signed
      BY <2>2, <3>1 DEF Verified
    <3>2. CASE ~signed
      <4>1. left \in Seq(Symbol)
        BY DEF Reads
      <4>2. piece \in Seq(Symbol)
        BY <4>1, PlainSlice
      <4> HIDE DEF piece
      <4>3. Parser([p EXCEPT !.pending = @ \o piece])
        BY <1>0, <4>2, ParserIsFed
      <4> QED BY <2>1, <4>3
    <3> QED BY <3>1, <3>2
  <2>5. rest \in Seq(Symbol)
    <3>1. left \in Seq(Symbol) /\ n + 1 \in Nat \ {0}
      BY DEF Reads
    <3> QED BY <3>1, FromIsSequence
  <2> QED BY <1>2, <2>2, <2>3, <2>4, <2>5 DEF Reads
<1> QED BY <1>1, <1>2

\* One turn of consume.
LEMMA BodyGoesOn ==
  ASSUME NEW a, WellSent(a), NEW p, NEW left, Reads(a, p, left), a.framing # "plain"
  PROVE  Reads(a, ConsumeOnce(p), left)
<1> DEFINE all == AllOf(a.chunks)
           signed == a.framing = "signed"
           q == ConsumeOnce(p)
<1>0. Parser(p) /\ Client(all)
  BY EndSaysNothing DEF Reads, WellSent
<1>1. Parser(q)
  BY <1>0, ParserGoesOn
<1>2. ASSUME signed PROVE Verified(all, q) /\ left \in Seq(Genuine(all))
  <2>1. Verified(all, p) /\ left \in Seq(Genuine(all))
    BY <1>2 DEF Reads
  <2> HIDE DEF all
  <2> QED BY <1>0, <2>1, VerifiedGoesOn
<1>3. ASSUME Unchanged(a) PROVE Tracked(a, q, left)
  <2>1. PICK e, m : /\ Intact(all, signed, e, a.wire, m) /\ Follows(all, signed, e, a.wire, m, p, left)
                    /\ a.sent = "whole" => Complete(all, e, a.wire, m)
    BY <1>3 DEF Reads, Tracked
  <2> DEFINE w == a.wire
  <2>2. Intact(all, signed, e, w, m) /\ Follows(all, signed, e, w, m, p, left)
    BY <2>1
  <2> HIDE DEF all, signed, w
  <2>3. Follows(all, signed, e, w, m, ConsumeOnce(p), left)
    BY <2>2, FollowsGoesOn
  <2> QED BY <2>1, <2>3 DEF Tracked, all, signed, w
<1> QED BY <1>1, <1>2, <1>3 DEF Reads

\* A whole body that fits does not break,
LEMMA WholeDoesNotBreak ==
  ASSUME NEW a, WellSent(a), NEW p, NEW left, Reads(a, p, left), a.sent = "whole", Len(Plain(a.chunks)) <= MaxBytes
  PROVE  Failure(p) = "none"
<1> DEFINE all == AllOf(a.chunks)
           signed == a.framing = "signed"
<1>0. /\ Parser(p) /\ a.framing \in {"plain", "signed", "unsigned"} /\ a.chunks \in Seq(Seq(Byte) \ {<<>>})
      /\ p.out \in Seq(Symbol) /\ MaxBytes \in Nat
  BY PayloadAssumption DEF Reads, WellSent, Parser
<1>1. Plain(all) = Plain(a.chunks) /\ Plain(a.chunks) \in Seq(Byte)
  BY <1>0, EndSaysNothing
<1>2. p.state \notin {"malformed", "mismatch"} /\ Len(p.out) =< Len(Plain(a.chunks))
  <2>1. CASE a.framing = "plain"
    <3>1. p.state = "header" /\ left \in Seq(Symbol) /\ p.out \o left = Plain(a.chunks)
      BY <2>1 DEF Reads
    <3> DEFINE o == p.out
    <3>2. o \in Seq(Symbol)
      BY <1>0
    <3> HIDE DEF o
    <3>3. Len(o \o left) = Len(o) + Len(left) /\ Len(o) \in Nat /\ Len(left) \in Nat
      BY <3>1, <3>2, OneAfterTheOther
    <3>4. Len(o) =< Len(o \o left)
      BY <3>3
    <3> QED BY <3>1, <3>4 DEF o
  <2>2. CASE a.framing # "plain"
    <3>1. Unchanged(a)
      BY <1>0, <2>2 DEF Unchanged
    <3>2. PICK e, m : /\ Intact(all, signed, e, a.wire, m) /\ Follows(all, signed, e, a.wire, m, p, left)
                      /\ Complete(all, e, a.wire, m)
      BY <3>1 DEF Reads, Tracked
    <3> HIDE DEF all, signed
    <3>3. p.state \notin {"malformed", "mismatch"} /\ Len(p.out) =< Len(Plain(all))
      BY <3>2, WholeIsNotRefused
    <3> QED BY <1>1, <3>3
  <2> QED BY <2>1, <2>2
<1>3. ~ (Len(p.out) > MaxBytes)
  <2>1. Len(p.out) \in Nat /\ Len(Plain(a.chunks)) \in Nat
    BY <1>0, <1>1
  <2> QED BY <1>0, <1>2, <2>1
<1> QED BY <1>2, <1>3 DEF Failure

\* and what is read at the end of a body is what the client meant.
LEMMA BodyEnds ==
  ASSUME NEW a, WellSent(a), NEW p, Reads(a, p, <<>>), NEW q,
         q = IF a.framing = "plain" THEN p ELSE Flush(p)
  PROVE  /\ Failure(q) = "none" /\ (a.framing # "unsigned" \/ a.sent # "altered") => q.out = Plain(a.chunks)
         /\ a.sent = "whole" /\ Len(Plain(a.chunks)) <= MaxBytes /\ (a.framing = "plain" \/ Stalled(p)) => Failure(q) = "none"
<1> DEFINE all == AllOf(a.chunks)
           signed == a.framing = "signed"
<1>0. /\ Parser(p) /\ a.framing \in {"plain", "signed", "unsigned"} /\ a.chunks \in Seq(Seq(Byte) \ {<<>>})
      /\ p.out \in Seq(Symbol) /\ MaxBytes \in Nat
  BY PayloadAssumption DEF Reads, WellSent, Parser
<1>1. Client(all) /\ Plain(all) = Plain(a.chunks) /\ Plain(a.chunks) \in Seq(Byte)
  BY <1>0, EndSaysNothing
<1>2. CASE a.framing = "plain"
  <2>1. q = p /\ p.out \o <<>> = Plain(a.chunks)
    BY <1>2 DEF Reads
  <2>2. q.out = Plain(a.chunks)
    <3> DEFINE o == p.out
    <3>1. o \in Seq(Symbol)
      BY <1>0
    <3> HIDE DEF o
    <3>2. o \o <<>> = o
      BY <3>1, ConcatEmptySeq
    <3> QED BY <2>1, <3>2 DEF o
  <2>3. a.sent = "whole" /\ Len(Plain(a.chunks)) <= MaxBytes => Failure(p) = "none"
    BY WholeDoesNotBreak
  <2> QED BY <2>1, <2>2, <2>3
<1>3. CASE a.framing # "plain"
  <2>1. q = Flush(p)
    BY <1>3
  <2>2. q.state \in {"done", "mismatch", "malformed"}
    <3>1. Parser(q)
      BY <1>0, <2>1, ParserEnds
    <3> DEFINE f == IF p.state = "terminator" /\ p.final /\ p.pending = <<>> THEN VerifyChunk(p, "done") ELSE p
    <3>2. Parser(f)
      BY <1>0, ChunksAreVerified
    <3>3. q = IF f.state \in {"done", "mismatch"} THEN f ELSE [f EXCEPT !.state = "malformed"]
      BY <2>1 DEF Flush, Fail
    <3> HIDE DEF f
    <3>4. [f EXCEPT !.state = "malformed"].state = "malformed"
      BY <3>2 DEF Parser
    <3> QED BY <3>3, <3>4
  <2>3. Failure(q) = "none" => q.state = "done"
    BY <2>2 DEF Failure
  <2>4. ASSUME q.state = "done", a.framing # "unsigned" \/ a.sent # "altered"
        PROVE  q.out = Plain(a.chunks)
    <3>1. CASE signed
      <4>1. Verified(all, p)
        BY <3>1 DEF Reads
      <4> HIDE DEF all
      <4>2. Flush(p).out = Plain(all)
        BY <1>1, <2>1, <2>4, <4>1, VerifiedEnds
      <4> QED BY <1>1, <2>1, <4>2
    <3>2. CASE ~signed
      <4>1. Unchanged(a)
        BY <1>0, <1>3, <2>4, <3>2 DEF Unchanged
      <4>2. PICK e, m : Intact(all, signed, e, a.wire, m) /\ Follows(all, signed, e, a.wire, m, p, <<>>)
        BY <4>1 DEF Reads, Tracked
      <4> HIDE DEF all, signed
      <4>3. Flush(p).out = Plain(all)
        BY <2>1, <2>4, <4>2, FollowsEnds
      <4> QED BY <1>1, <2>1, <4>3
    <3> QED BY <3>1, <3>2
  <2>5. ASSUME a.sent = "whole", Len(Plain(a.chunks)) <= MaxBytes, Stalled(p)
        PROVE  Failure(q) = "none"
    <3>1. Unchanged(a)
      BY <1>0, <1>3, <2>5 DEF Unchanged
    <3>2. PICK e, m : /\ Intact(all, signed, e, a.wire, m) /\ Follows(all, signed, e, a.wire, m, p, <<>>)
                      /\ Complete(all, e, a.wire, m)
      BY <2>5, <3>1 DEF Reads, Tracked
    <3> HIDE DEF all, signed
    <3>3. Flush(p).state = "done"
      BY <2>5, <3>2, WholeIsReadToItsEnd
    <3>4. q.out = Plain(a.chunks)
      BY <2>1, <2>4, <2>5, <3>3
    <3>5. ~ (Len(q.out) > MaxBytes)
      <4>1. Len(Plain(a.chunks)) \in Nat
        BY <1>1
      <4> QED BY <1>0, <2>5, <3>4, <4>1
    <3> QED BY <2>1, <3>3, <3>5 DEF Failure
  <2> QED BY <1>3, <2>3, <2>4, <2>5
<1> QED BY <1>2, <1>3

\* What has no step to take in a body leaves it as it is.
LEMMA BodyIsLeft ==
  ASSUME TypeInv, scenario' = scenario, NEW c \in Caller, io'[c] = io[c], Bodies(c),
         \/ stage'[c] = stage[c] /\ got'[c].answer = got[c].answer
         \/ stage[c] \notin {"body", "commit", "hung", "done"} /\ stage'[c] # "body"
  PROVE  Bodies(c)'
<1>1. Ask(c)' = Ask(c) /\ (Asks(c, {"PutObject"})' <=> Asks(c, {"PutObject"}))
  BY SameAsk
<1>2. SUFFICES ASSUME Asks(c, {"PutObject"}) PROVE Bodies(c)'
  BY <1>1 DEF Bodies
<1>3. CASE stage'[c] = stage[c] /\ got'[c].answer = got[c].answer
  <2>1. Survives(c) => Survives(c)'
    BY <1>1, <1>3 DEF Survives
  <2> QED BY <1>1, <1>2, <1>3, <2>1 DEF Bodies
<1>4. CASE stage[c] \notin {"body", "commit", "hung", "done"} /\ stage'[c] # "body"
  BY <1>1, <1>2, <1>4 DEF Bodies
<1> QED BY <1>3, <1>4

\* A call that has failed has an answer.
LEMMA NoneIsNoFailure ==
  None \notin {"ok", "EntityTooLarge", "IncompleteBody", "SignatureDoesNotMatch", "BadDigest", "gone"}
BY RequestsAssumption

\* The handlers of an upload.
LEMMA BodyIsHandled ==
  ASSUME TypeInv, NEW c \in Caller, Bodies(c),
         Begin(c) \/ Receive(c) \/ Parse(c) \/ Break(c) \/ EndBody(c) \/ HangUp(c) \/ CommitObject(c)
  PROVE  Bodies(c)'
<1> DEFINE a == Ask(c)
<1>0. /\ stage \in [Caller -> Stages] /\ DOMAIN io = Caller /\ DOMAIN got = Caller /\ Holding(c) /\ IsGot(got[c])
      /\ WellSent(a) /\ None # "ok" /\ (stage[c] # "done" => got[c].answer = None)
  <2>1. WellAsked(scenario.ask, c)
    BY AskedWell DEF TypeInv
  <2> QED BY <2>1, RequestsAssumption DEF TypeInv, Rows, Identified, WellAsked, Ask
<1>1. Ask(c)' = Ask(c) /\ (Asks(c, {"PutObject"})' <=> Asks(c, {"PutObject"}))
  BY SameAsk DEF Begin, Receive, Parse, Break, EndBody, HangUp, CommitObject
<1>2. SUFFICES ASSUME Asks(c, {"PutObject"}) PROVE Bodies(c)'
  BY <1>1 DEF Bodies
<1>3. stage[c] = "body" => /\ Reads(a, io[c].parser, io[c].left)
                           /\ io[c] \in [parser : {io[c].parser}, left : {io[c].left}]
  BY <1>0, <1>2 DEF Bodies, Holding
<1> HIDE DEF a
<1>4. ASSUME stage'[c] = "body", Reads(a, io'[c].parser, io'[c].left)
      PROVE  Bodies(c)'
  BY <1>1, <1>4 DEF Bodies, a
<1>5. ASSUME stage'[c] \in {"commit", "done"}, got'[c].answer \in {None, "ok"},
             a.framing # "unsigned" \/ a.sent # "altered" => io'[c].parser.out = Plain(a.chunks)
      PROVE  Bodies(c)'
  BY <1>1, <1>5 DEF Bodies, Survives, a
<1>6. ASSUME stage'[c] = "done", got'[c].answer \notin {None, "ok"},
             /\ a.sent = "whole" /\ Len(Plain(a.chunks)) <= MaxBytes /\ a.md5 \in {None, Plain(a.chunks)}
             => got'[c].answer = "gone"
      PROVE  Bodies(c)'
  BY <1>1, <1>6 DEF Bodies, Survives, a
<1>7. ASSUME NEW answer, Answered(c, answer) PROVE stage'[c] = "done" /\ got'[c].answer = answer
  BY <1>0, <1>7 DEF Answered, IsGot
<1>8. CASE Begin(c)
  <2>1. CASE UNCHANGED io
    <3>1. stage[c] = "work" /\ stage'[c] \in {"done", "body"}
      BY <1>0, <1>8 DEF Begin, Answered, Moves
    <3>2. io'[c] = io[c] /\ scenario' = scenario
      BY <1>8, <2>1 DEF Begin
    <3>3. CASE stage'[c] = "done"
      BY <3>1, <3>2, <3>3, BodyIsLeft
    <3>4. CASE stage'[c] = "body"
      <4>1. io'[c] = [parser |-> NewParser(a.framing = "signed"), left |-> a.wire]
        BY <1>0, <1>8, <3>4 DEF Begin, Answered, Moves, a
      <4> QED BY <1>0, <1>4, <3>4, <4>1, BodyBegins
    <3> QED BY <3>1, <3>3, <3>4
  <2>2. CASE ~UNCHANGED io
    <3>1. stage'[c] = "body" /\ io'[c] = [parser |-> NewParser(a.framing = "signed"), left |-> a.wire]
      BY <1>0, <1>8, <2>2 DEF Begin, Moves, a
    <3> QED BY <1>0, <1>4, <3>1, BodyBegins
  <2> QED BY <2>1, <2>2
<1>9. CASE Receive(c)
  <2> DEFINE p == io[c].parser
             left == io[c].left
             Fed(piece) == IF a.framing = "plain" THEN [p EXCEPT !.out = @ \o piece] ELSE [p EXCEPT !.pending = @ \o piece]
  <2>1. stage[c] = "body" /\ stage'[c] = "body"
    <3>1. stage[c] = "body" /\ UNCHANGED stage
      BY <1>9, Zenon DEF Receive
    <3> QED BY <3>1
  <2>2. PICK n \in 1 .. Len(left) :
          io' = [io EXCEPT ![c] = [parser |-> Fed(SubSeq(left, 1, n)), left |-> From(left, n + 1)]]
    BY <1>9, Zenon DEF Receive, a
  <2> DEFINE q == Fed(SubSeq(left, 1, n))
             rest == From(left, n + 1)
  <2>3. io'[c] = [parser |-> q, left |-> rest]
    <3> HIDE DEF Fed
    <3> QED BY <1>0, <2>2
  <2>4. Reads(a, q, rest)
    <3>1. Reads(a, p, left)
      BY <1>3, <2>1
    <3>2. q = IF a.framing = "plain" THEN [p EXCEPT !.out = @ \o SubSeq(left, 1, n)] ELSE [p EXCEPT !.pending = @ \o SubSeq(left, 1, n)]
      OBVIOUS
    <3> HIDE DEF q, p, left
    <3> QED BY <1>0, <3>1, <3>2, BodyIsFed
  <2> HIDE DEF q, rest
  <2>5. io'[c].parser = q /\ io'[c].left = rest
    BY <2>3
  <2> QED BY <1>4, <2>1, <2>4, <2>5
<1>10. CASE Parse(c)
  <2>1. /\ stage[c] = "body" /\ stage'[c] = "body" /\ io' = [io EXCEPT ![c].parser = ConsumeOnce(@)]
        /\ a.framing # "plain"
    BY <1>10 DEF Parse, Idle, a
  <2>2. io'[c].parser = ConsumeOnce(io[c].parser) /\ io'[c].left = io[c].left
    BY <1>0, <1>3, <2>1
  <2>3. Reads(a, ConsumeOnce(io[c].parser), io[c].left)
    <3> DEFINE p == io[c].parser
               left == io[c].left
    <3>1. Reads(a, p, left)
      BY <1>3, <2>1
    <3> HIDE DEF p, left
    <3>2. Reads(a, ConsumeOnce(p), left)
      BY <1>0, <2>1, <3>1, BodyGoesOn
    <3> QED BY <3>2 DEF p, left
  <2> QED BY <1>4, <2>1, <2>2, <2>3
<1>11. CASE Break(c)
  <2> DEFINE p == io[c].parser
             left == io[c].left
  <2>1. stage[c] = "body" /\ Failure(p) # "none" /\ Answered(c, Failure(p))
    BY <1>11 DEF Break
  <2>2. stage'[c] = "done" /\ got'[c].answer = Failure(p)
    BY <1>7, <2>1
  <2>3. Reads(a, p, left)
    BY <1>3, <2>1
  <2> HIDE DEF p, left
  <2>4. ~ (a.sent = "whole" /\ Len(Plain(a.chunks)) <= MaxBytes)
    BY <1>0, <2>1, <2>3, WholeDoesNotBreak
  <2>5. Failure(p) \in {"EntityTooLarge", "IncompleteBody", "SignatureDoesNotMatch"}
    BY <2>1 DEF Failure
  <2>6. got'[c].answer \notin {None, "ok"}
    BY <2>2, <2>5, NoneIsNoFailure
  <2> QED BY <1>6, <2>2, <2>4, <2>6
<1>12. CASE EndBody(c)
  <2> DEFINE p == io[c].parser
             q == IF a.framing = "plain" THEN p ELSE Flush(p)
  <2>1. /\ stage[c] = "body" /\ io[c].left = <<>> /\ (a.framing = "plain" \/ Stalled(p))
        /\ io' = [io EXCEPT ![c].parser = q]
        /\ \/ Failure(q) # "none" /\ Answered(c, Failure(q))
           \/ /\ Failure(q) = "none"
              /\ IF a.md5 \notin {None, q.out} THEN Answered(c, "BadDigest") ELSE Moves(c, "commit") /\ UNCHANGED got
    BY <1>12 DEF EndBody, Idle, a
  <2>2. io'[c].parser = q
    <3> HIDE DEF q
    <3> QED BY <1>0, <1>3, <2>1
  <2>3. Reads(a, p, <<>>)
    BY <1>3, <2>1
  <2>4. q = IF a.framing = "plain" THEN p ELSE Flush(p)
    OBVIOUS
  <2> HIDE DEF p, q
  <2>5. /\ Failure(q) = "none" /\ (a.framing # "unsigned" \/ a.sent # "altered") => q.out = Plain(a.chunks)
        /\ a.sent = "whole" /\ Len(Plain(a.chunks)) <= MaxBytes /\ (a.framing = "plain" \/ Stalled(p)) => Failure(q) = "none"
    BY <1>0, <2>3, <2>4, BodyEnds
  <2>6. CASE Failure(q) # "none" /\ Answered(c, Failure(q))
    <3>1. stage'[c] = "done" /\ got'[c].answer = Failure(q)
      BY <1>7, <2>6
    <3>2. Failure(q) \in {"EntityTooLarge", "IncompleteBody", "SignatureDoesNotMatch"}
      BY <2>6 DEF Failure
    <3>3. got'[c].answer \notin {None, "ok"}
      BY <3>1, <3>2, NoneIsNoFailure
    <3> QED BY <1>6, <2>1, <2>5, <2>6, <3>1, <3>3
  <2>7. CASE Failure(q) = "none" /\ a.md5 \notin {None, q.out} /\ Answered(c, "BadDigest")
    <3>1. stage'[c] = "done" /\ got'[c].answer = "BadDigest"
      BY <1>7, <2>7
    <3>2. got'[c].answer \notin {None, "ok"}
      BY <3>1, NoneIsNoFailure
    <3>3. a.sent = "whole" => q.out = Plain(a.chunks)
      BY <2>5, <2>7
    <3> QED BY <1>6, <2>7, <3>1, <3>2, <3>3
  <2>8. CASE Failure(q) = "none" /\ Moves(c, "commit") /\ UNCHANGED got
    <3>1. stage'[c] = "commit" /\ got'[c].answer = None
      BY <1>0, <2>1, <2>8 DEF Moves
    <3> QED BY <1>5, <2>2, <2>5, <2>8, <3>1
  <2> QED BY <2>1, <2>6, <2>7, <2>8
<1>13. CASE HangUp(c)
  <2>1. CASE Answered(c, "gone")
    <3>1. stage'[c] = "done" /\ got'[c].answer = "gone"
      BY <1>7, <2>1
    <3>2. "gone" \notin {None, "ok"}
      BY NoneIsNoFailure
    <3> QED BY <1>6, <3>1, <3>2
  <2>2. CASE Moves(c, "hung")
    <3>1. stage'[c] = "hung"
      BY <1>0, <2>2 DEF Moves
    <3> QED BY <1>1, <3>1 DEF Bodies
  <2> QED BY <1>13, <2>1, <2>2 DEF HangUp
<1>14. CASE CommitObject(c)
  <2>1. stage[c] = "commit" /\ UNCHANGED io /\ Answered(c, "ok")
    BY <1>2, <1>14 DEF CommitObject, Asks
  <2>2. stage'[c] = "done" /\ got'[c].answer = "ok"
    BY <1>7, <2>1
  <2>3. CASE io[c] = None
    BY <1>1, <2>1, <2>2, <2>3 DEF Bodies
  <2>4. CASE io[c] # None
    <3>1. Survives(c)
      BY <1>2, <2>1, <2>4 DEF Bodies
    <3>2. a.framing # "unsigned" \/ a.sent # "altered" => io[c].parser.out = Plain(a.chunks)
      BY <1>0, <2>1, <3>1 DEF Survives, a
    <3> QED BY <1>5, <2>1, <2>2, <3>2
  <2> QED BY <2>3, <2>4
<1> QED BY <1>8, <1>9, <1>10, <1>11, <1>12, <1>13, <1>14

\* Nobody else's step touches an upload, and a decision comes before there is a body.
LEMMA BodiesStep ==
  ASSUME TypeInv, \A c \in Caller : Bodies(c), [Next]_vars, NEW d \in Caller
  PROVE  Bodies(d)'
<1>0. /\ stage \in [Caller -> Stages] /\ DOMAIN io = Caller /\ DOMAIN got = Caller /\ Bodies(d)
      /\ \A c \in Caller : Holding(c) /\ IsGot(got[c])
  BY DEF TypeInv, Rows, Identified
<1>1. ASSUME NEW c \in Caller, Decide(c) PROVE Bodies(d)'
  <2>1. /\ scenario' = scenario /\ io' = io
        /\ \A e \in Caller \ {c} : stage'[e] = stage[e] /\ got'[e] = got[e]
    BY <1>1, OneIsDecided DEF Onward
  <2>2. CASE d # c
    BY <1>0, <2>1, <2>2, BodyIsLeft
  <2>3. stage[c] \in {"guard", "limit", "arm", "row", "policy", "owner", "grant"} /\ stage'[c] # "body"
    <3>1. CASE Guard(c) \/ Increment(c) \/ PassUncounted(c) \/ Arm(c)
      BY <1>0, <3>1 DEF Guard, Increment, PassUncounted, Arm, Dispatch, Moves, Answered
    <3>2. CASE ReadRow(c) \/ EvaluatePolicy(c) \/ ReadOwner(c) \/ ReadGrant(c)
      BY <1>0, <3>2 DEF ReadRow, EvaluatePolicy, ReadOwner, ReadGrant, Granted, Moves, Answered
    <3> QED BY <1>1, <3>1, <3>2 DEF Decide
  <2> QED BY <1>0, <2>1, <2>2, <2>3, BodyIsLeft
<1>2. ASSUME NEW c \in Caller, Work(c) \/ HangUp(c) PROVE Bodies(d)'
  <2>1. /\ scenario' = scenario
        /\ \A e \in Caller \ {c} : stage'[e] = stage[e] /\ got'[e] = got[e] /\ io'[e] = io[e]
    BY <1>2, OneIsHandled DEF Onward
  <2>2. CASE d # c
    BY <1>0, <2>1, <2>2, BodyIsLeft
  <2>3. ASSUME d = c, io'[c] = io[c], stage[c] \notin {"body", "commit", "hung", "done"}, stage'[c] # "body"
        PROVE  Bodies(d)'
    BY <1>0, <2>1, <2>3, BodyIsLeft
  <2>4. ASSUME d = c, ~Asks(c, {"PutObject"}) PROVE Bodies(d)'
    BY <2>1, <2>4, SameAsk DEF Bodies
  <2>5. CASE d = c /\ (SetPolicy(c) \/ DeletePolicy(c) \/ SetAcl(c) \/ SetCors(c) \/ Preflight(c) \/ SetGrant(c) \/ FindBucket(c))
    BY <1>0, <2>3, <2>5 DEF SetPolicy, DeletePolicy, SetAcl, SetCors, Preflight, SetGrant, FindBucket, Moves, Answered
  <2>6. CASE d = c /\ (InsertBucket(c) \/ AclOfNewBucket(c) \/ CountAndDelete(c) \/ Read(c) \/ CheckKey(c) \/ ChangeKey(c) \/ Share(c))
    BY <1>0, <2>3, <2>6 DEF InsertBucket, AclOfNewBucket, CountAndDelete, Read, CheckKey, ChangeKey, Share, Moves, Answered
  <2>7. CASE d = c /\ (CopyObject(c) \/ DeleteObject(c) \/ Open(c) \/ SendPiece(c))
    <3>1. ~Asks(c, {"PutObject"})
      BY <1>0, <2>7 DEF CopyObject, DeleteObject, Open, SendPiece, Asks, Holding
    <3> QED BY <2>4, <2>7, <3>1
  <2>8. CASE d = c /\ (Begin(c) \/ Receive(c) \/ Parse(c) \/ Break(c) \/ EndBody(c) \/ HangUp(c) \/ CommitObject(c))
    BY <1>0, <2>8, BodyIsHandled
  <2> QED BY <1>2, <2>2, <2>5, <2>6, <2>7, <2>8, Zenon DEF Work
<1>3. ASSUME NEW c \in Caller, Send(c) PROVE Bodies(d)'
  <2>1. scenario' = scenario /\ io' = io /\ stage[c] = "unsent" /\ stage'[c] # "body"
    BY <1>0, <1>3 DEF Send, Moves
  <2>2. d # c => stage'[d] = stage[d] /\ got'[d] = got[d]
    BY <1>0, <1>3 DEF Send, Moves
  <2> QED BY <1>0, <2>1, <2>2, BodyIsLeft
<1>4. CASE Tick \/ LoseStore \/ RestoreStore \/ Notice \/ UNCHANGED vars
  <2>1. UNCHANGED <<scenario, stage, io>>
    BY <1>4 DEF Tick, LoseStore, RestoreStore, Notice, vars, call
  <2>2. got'[d].answer = got[d].answer
    BY <1>0, <1>4 DEF Tick, LoseStore, RestoreStore, Notice, vars, call, IsGot
  <2> QED BY <1>0, <2>1, <2>2, BodyIsLeft
<1> QED BY <1>1, <1>2, <1>3, <1>4 DEF Next, Run, Others

\* However an upload is cut into chunks and arrives in pieces, and however many there
\* are, what is stored is what the client meant, unless nothing could tell that it was
\* changed, and a body that arrives whole is never refused.
THEOREM BodiesSurvive == Spec => []PayloadsSurviveFraming
<1>1. Init => \A c \in Caller : Bodies(c)
  BY DEF Init, Bodies
<1>2. TypeInv /\ (\A c \in Caller : Bodies(c)) /\ [Next]_vars => (\A c \in Caller : Bodies(c))'
  BY BodiesStep
<1>3. (\A c \in Caller : Bodies(c)) => PayloadsSurviveFraming
  BY DEF Bodies, Survives, PayloadsSurviveFraming
<1> QED BY <1>1, <1>2, <1>3, InvariantOfTypes, PTL DEF Spec
=============================================================================
