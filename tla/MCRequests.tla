---------------------------- MODULE MCRequests ----------------------------
(***************************************************************************)
(* Requests on small scenarios.  Each names what there is and what up to   *)
(* three callers ask for; who decides, who changes the rules and in which  *)
(* order the steps fall is up to TLC.                                      *)
(*                                                                         *)
(* The console is checked beside them.  It shares no state with them, so a *)
(* behaviour is one of the requests or one of the console.                 *)
(***************************************************************************)
EXTENDS Requests, Console, TLC

CONSTANTS c1, c2, c3

MCCaller == {c1, c2, c3}
MCUser == {"u1", "u2"}
MCKeyId == {"k1", "k2", "k3"}
MCBucket == {"b1", "b2"}

Bytes(names) == [i \in DOMAIN names |-> [is |-> names[i]]]
Whole == [form |-> "none", first |-> 0, last |-> 0]
Unconditional == [match |-> None, unmodified |-> None, noneMatch |-> None, modified |-> None]

Default ==
    [door |-> "s3", op |-> "nothing", bucket |-> "b1", from |-> "b2", user |-> None, role |-> "user", auth |-> "none",
     key |-> None, genuine |-> TRUE, address |-> "here", opens |-> None, expires |-> 2,
     context |-> [ip |-> {1}, referer |-> {}, time |-> {}], preflight |-> None, document |-> <<>>, cors |-> <<>>, acl |-> None,
     list |-> {}, move |-> FALSE, to |-> None, permissions |-> {}, status |-> None, wire |-> <<>>, framing |-> "plain", sent |-> "whole",
     chunks |-> <<>>, declared |-> 0, md5 |-> None, iv |-> <<>>, range |-> Whole, conditions |-> Unconditional]
Nobody == Default

\* Callers at the endpoint and at the management API.
Guest(r) == r @@ Default
Signs(k, r) == r @@ [auth |-> "header", key |-> k] @@ Default
Session(u, r) == r @@ [door |-> "api", user |-> u] @@ Default

\* What there is.
Key(user, created, status) ==
    [user |-> user, created |-> created, status |-> status, deleted |-> FALSE, expiresAt |-> 9]
Keys == [k1 |-> Key("u1", 1, "active"), k2 |-> Key("u2", 2, "active"), k3 |-> Key("u1", 3, "active")]
Row(owner, acl) == [deleted |-> FALSE, owner |-> owner, acl |-> acl, cors |-> <<>>]
Base ==
    [key |-> Keys, bucket |-> [b1 |-> Row("u1", "private"), b2 |-> Row("u2", "private")],
     policy |-> [b1 |-> <<>>, b2 |-> <<>>], grants |-> [b \in MCBucket |-> [u \in MCUser |-> {}]],
     object |-> [b1 |-> None, b2 |-> None], maxTime |-> 0, maxOutages |-> 0]
Calls(x, y, z) == [ask |-> [c \in MCCaller |-> CASE c = c1 -> x [] c = c2 -> y [] OTHER -> z]]

\* Statements.
Statement(effect, principal, actions, conditions) ==
    [effect |-> effect, principal |-> principal, action |-> actions, notAction |-> {},
     resource |-> {<<b>> : b \in MCBucket} \cup {<<b, "key">> : b \in MCBucket}, notResource |-> {}, condition |-> conditions]
When(base, at, expected) == [base |-> base, key |-> at, expected |-> expected, ifExists |-> FALSE]
AllowAll(actions) == Statement("Allow", Anyone, actions, <<>>)
AllowUser(u, actions) == Statement("Allow", {u}, actions, <<>>)

Reads == {"getObject", "listBucket"}
Writes == {"putObject", "deleteObject"}

\* Reads that a policy denies u2, while the owner replaces it by one that denies
\* them in another way and a session of the owner opens the bucket to u2.
DenyUser == << AllowAll(Reads), Statement("Deny", {"u2"}, Reads, <<>>) >>
DenyOthers == << AllowAll(Reads \cup Writes),
                 Statement("Deny", None, Reads, << When("NotEquals", "referer", {"home"}) >>) >>
Replaced ==
    Calls(Signs("k2", [op |-> "GetObject"]), Signs("k1", [op |-> "PutBucketPolicy", document |-> DenyOthers]),
          Session("u1", [op |-> "SetGrant", to |-> "u2", permissions |-> {"read", "manage"}])) @@
    [policy |-> [b1 |-> DenyUser, b2 |-> <<>>], object |-> [b1 |-> [iv |-> <<>>, plain |-> Bytes(<<"a">>)], b2 |-> None]] @@ Base

\* A copy needs two decisions; the second is denied from the first tick on, and a
\* third party takes the policy and the grant of the first away.
Copied ==
    Calls(Signs("k2", [op |-> "CopyObject", bucket |-> "b1", from |-> "b2"]),
          Signs("k1", [op |-> "DeleteBucketPolicy"]), Session("u1", [op |-> "RemoveGrant", to |-> "u2"])) @@
    [policy |-> [b1 |-> << AllowUser("k2", Writes) >>,
                 b2 |-> << Statement("Deny", Anyone, Reads, << When("GreaterThanEquals", "time", {1}) >>) >>],
     grants |-> [b1 |-> [u1 |-> {}, u2 |-> {"write"}], b2 |-> [u1 |-> {}, u2 |-> {}]],
     object |-> [b1 |-> None, b2 |-> [iv |-> <<1, 0>>, plain |-> Bytes(<<"a", "b", "c">>)]], maxTime |-> 1] @@ Base

\* A move over the API needs to delete at the source and to write at the target,
\* and the owner of the source takes the grant away.
Moved ==
    Calls(Session("u2", [op |-> "CopyObject", bucket |-> "b2", from |-> "b1", move |-> TRUE]),
          Session("u1", [op |-> "SetGrant", to |-> "u2", permissions |-> {"read"}]),
          Session("u2", [op |-> "CopyObject", bucket |-> "b1", from |-> "b2"])) @@
    [grants |-> [b1 |-> [u1 |-> {}, u2 |-> {"delete"}], b2 |-> [u1 |-> {}, u2 |-> {}]],
     object |-> [b1 |-> [iv |-> <<1, 0>>, plain |-> Bytes(<<"a", "b", "c">>)], b2 |-> None]] @@ Base
\* Whoever may read a bucket may not see its grants.
Shared ==
    Calls(Session("u2", [op |-> "GetUsage"]), Session("u2", [op |-> "ListUsers"]), Session("u1", [op |-> "PutBucketAcl", acl |-> "publicRead"])) @@
    [grants |-> [b1 |-> [u1 |-> {}, u2 |-> {"read"}], b2 |-> [u1 |-> {}, u2 |-> {}]]] @@ Base
Browsed ==
    Calls(Session("u2", [op |-> "GetBucket"]), Session("u2", [op |-> "ListGrants"]), Session("u2", [op |-> "DeleteObject", role |-> "admin"])) @@
    [object |-> [b1 |-> [iv |-> <<>>, plain |-> Bytes(<<"a">>)], b2 |-> None]] @@ Base

\* Callers without rights of their own: the ACL, and attempts to manage.
Public ==
    Calls(Guest([op |-> "ListObjects"]), Guest([op |-> "PutBucketAcl", acl |-> "private"]),
          Signs("k2", [op |-> "DeleteObject"])) @@
    [bucket |-> [b1 |-> Row("u1", "publicReadWrite"), b2 |-> Row("u2", "private")]] @@ Base
Listed ==
    Calls(Guest([op |-> "HeadBucket"]), Signs("k2", [op |-> "GetBucketAcl"]),
          Signs("k1", [op |-> "PutBucketAcl", list |-> {[group |-> "authenticatedUsers", permission |-> "READ"]}])) @@
    [bucket |-> [b1 |-> Row("u1", "authenticatedRead"), b2 |-> Row("u2", "private")],
     grants |-> [b1 |-> [u1 |-> {}, u2 |-> {"manage"}], b2 |-> [u1 |-> {}, u2 |-> {}]]] @@ Base
Refusals ==
    Calls(Signs("k1", [op |-> "PutBucketAcl", list |-> {[group |-> "authenticatedUsers", permission |-> "WRITE"]}]),
          Session("u2", [op |-> "DeleteBucketPolicy"]),
          Signs("k1", [op |-> "PutBucketPolicy", document |-> <<Statement("Grant", Anyone, Reads, <<>>)>>])) @@ Base

\* Conditions on what the request carries, or does not.
Conditions ==
    [i \in 1 .. 7 |->
        Calls(Signs("k2", [op |-> "ListVersions", context |-> [ip |-> {1}, referer |-> {"home"}, time |-> {}]]),
              Signs("k2", [op |-> "GetObject"]), Session("u2", [op |-> "GetObject", role |-> "admin"])) @@
        [policy |-> [b1 |-> << Statement("Allow", {"u2"}, Reads \cup {"listBucketVersions"}, << << When("Equals", "referer", {"home"}) >>,
              << When("NotEquals", "referer", {"home"}) >>, << When("Null", "referer", {"true"}) >>,
              << [When("Equals", "referer", {"work"}) EXCEPT !.ifExists = TRUE] >>,
              << When("LessThan", "ip", {2}), When("GreaterThanEquals", "ip", {1}) >>,
              << When("NumericNotEquals", "ip", {1}) >>, << When("Unknown", "ip", {1}) >> >>[i]) >>, b2 |-> <<>>]] @@ Base]

\* Cross-origin rules that come and go under a preflight.
Rule(origin) == [origins |-> {origin}, methods |-> {"PUT"}, headers |-> {"x"}]
Preflights ==
    Calls(Guest([op |-> "Preflight", preflight |-> [origin |-> "o", method |-> "PUT", headers |-> {"x"}]]),
          Signs("k1", [op |-> "PutBucketCors", cors |-> <<Rule("p"), Rule("o")>>]), Signs("k1", [op |-> "DeleteBucketCors"])) @@ Base
NoRules ==
    Calls(Signs("k1", [op |-> "PutBucketCors"]), Signs("k1", [op |-> "GetBucketCors"]), Signs("k2", [op |-> "GetBucketPolicy"])) @@ Base

\* Three calls of one key over the end of a window; two and an outage; one that
\* is really signed, one that is forged, one without a key.
Limited ==
    Calls(Signs("k1", [op |-> "ListBuckets"]), Signs("k1", [op |-> "ListBuckets"]), Signs("k1", [op |-> "ListBuckets"])) @@
    [maxTime |-> 2] @@ Base
Outage ==
    Calls(Signs("k1", [op |-> "ListBuckets"]), Signs("k1", [op |-> "ListBuckets"]), Nobody) @@ [maxOutages |-> 1] @@ Base
\* Sign-ins share the budget of their address; a session has its own.
SignIns ==
    Calls(Session(None, [op |-> "SignIn"]), Session(None, [op |-> "SignIn"]), Session(None, [op |-> "SignIn"])) @@ Base
Sessions ==
    Calls(Session("u1", [op |-> "ListBuckets"]), Session(None, [op |-> "SignIn"]), Session("u1", [op |-> "ListBuckets"])) @@
    [maxTime |-> 2] @@ Base
Forged ==
    Calls(Signs("k1", [op |-> "ListBuckets"]), Signs("k1", [op |-> "ListBuckets", genuine |-> FALSE]),
          Guest([op |-> "ListBuckets"])) @@ Base

\* A link is made, its key is changed, the link is opened.
Opener == Guest([op |-> "GetObject", auth |-> "link", opens |-> c1])
Links ==
    [i \in 1 .. 4 |->
        Calls(Session("u1", [op |-> "Share", expires |-> 1]), Opener,
              << Session("u1", [op |-> "SetKeyStatus", key |-> "k3", status |-> "inactive"]),
                 Session("u1", [op |-> "DeleteKey", key |-> "k3"]),
                 Session("u2", [op |-> "DeleteKey", key |-> "k3"]),
                 Session("u2", [op |-> "DeleteKey", key |-> "k1", role |-> "admin"]) >>[i]) @@
        [key |-> [Keys EXCEPT !["k1"].status = IF i = 4 THEN "active" ELSE "inactive", !["k3"].expiresAt = 1],
         object |-> [b1 |-> [iv |-> <<>>, plain |-> Bytes(<<"a">>)], b2 |-> None], maxTime |-> IF i = 4 THEN 3 ELSE 2] @@ Base]
BadLinks ==
    Calls(Guest([op |-> "HeadObject", auth |-> "link", key |-> "k1", expires |-> 7]),
          Guest([op |-> "HeadObject", auth |-> "malformed"]), Session("u2", [op |-> "Share", bucket |-> "b2"])) @@
    [key |-> [Keys EXCEPT !["k2"].deleted = TRUE]] @@ Base
\* The owner and an administrator change one key; an object that is not there is
\* copied.
KeyRaces ==
    Calls(Session("u1", [op |-> "DeleteKey", key |-> "k1"]),
          Session("u2", [op |-> "SetKeyStatus", key |-> "k1", status |-> "inactive", role |-> "admin"]),
          Signs("k1", [op |-> "CopyObject", from |-> "b1"])) @@ Base
Skewed == Calls(Signs("k1", [op |-> "HeadBucket"]), Signs("k9", [op |-> "Unimplemented"]), Signs("k1", [op |-> "Unimplemented"])) @@
          [maxTime |-> 2] @@ Base

\* Buckets are created and deleted.
Creations ==
    Calls(Signs("k1", [op |-> "CreateBucket", bucket |-> "b2", acl |-> "bad"]),
          Signs("k2", [op |-> "CreateBucket", bucket |-> "b2", acl |-> "publicRead"]),
          Session("u1", [op |-> "CreateBucket", bucket |-> "b2"])) @@
    [bucket |-> [b1 |-> Row("u1", "private"), b2 |-> None]] @@ Base
Deletions ==
    Calls(Signs("k1", [op |-> "DeleteBucket"]), Signs("k1", [op |-> "CreateBucket"]),
          Signs("k1", [op |-> "PutObject", wire |-> Bytes(<<"a">>), chunks |-> <<Bytes(<<"a">>)>>, declared |-> 1])) @@ Base
Emptied ==
    Calls(Session("u1", [op |-> "DeleteBucket"]), Signs("k1", [op |-> "DeleteObject"]), Guest([op |-> "CreateBucket"])) @@
    [object |-> [b1 |-> [iv |-> <<>>, plain |-> Bytes(<<"a">>)], b2 |-> None]] @@ Base

-----------------------------------------------------------------------------
\* Bodies: whole, with a trailer, altered in one way or another, cut off.
Line(symbols) == symbols \o <<CR, LF>>
Chunk(data, over) == Line(<<Size(Len(data)), Sig(over)>>) \o Line(data)
Bare(data) == Line(<<Size(Len(data))>>) \o Line(data)
Closing(over) == Line(<<Size(0), Sig(over)>>)

AB == Bytes(<<"a", "b">>)
CDE == Bytes(<<"c", "d", "e">>)
Ends == <<CR, LF>>
Two == <<AB, Ends>>
Body(framing, sent, wire, chunks) ==
    [op |-> "PutObject", framing |-> framing, sent |-> sent, wire |-> wire, chunks |-> chunks]
Bodies == <<
    Body("signed", "whole", Framed(AllOf(Two), TRUE), Two),
    Body("signed", "whole", Chunk(AB, <<AB>>) \o Chunk(Ends, Two) \o Closing(AllOf(Two)), Two),
    Body("unsigned", "trailer", Bare(Ends) \o Bare(AB) \o Line(<<Size(0)>>) \o Line(Bytes(<<"t">>)) \o Ends, <<Ends, AB>>),
    Body("signed", "altered", Chunk(AB, <<Ends>>) \o Closing(<<Ends, <<>> >>) \o Ends, <<Ends>>),
    Body("signed", "altered", Chunk(AB, <<AB>>) \o Closing(AllOf(Two)) \o Ends, Two),
    Body("signed", "altered", Chunk(Ends, Two) \o Chunk(AB, <<AB>>) \o Closing(AllOf(Two)), Two),
    Body("signed", "altered", Line(<<Size(2)>>) \o Line(AB) \o Line(<<Size(0)>>) \o Ends, <<Ends>>),
    Body("signed", "cut", Chunk(AB, <<AB>>), Two),
    Body("unsigned", "cut", SubSeq(Bare(AB), 1, 5), <<AB>>),
    Body("unsigned", "broken", Line(<<Size(2)>>) \o Bytes(<<"a", "b", "x", "x">>), <<AB>>),
    Body("unsigned", "broken", Bytes(<<"x", "x", "x", "x", "x", "x", "x">>), <<AB>>),
    Body("unsigned", "whole", Framed(<<AB, CDE, <<>> >>, FALSE), <<AB, CDE>>),
    Body("plain", "whole", CDE, <<CDE>>),
    [declared |-> 5] @@ Body("plain", "whole", AB, <<AB>>),
    [md5 |-> Ends] @@ Body("plain", "whole", AB, <<AB>>) >>
Uploads ==
    [i \in DOMAIN Bodies |-> Calls([iv |-> <<1, 1>>] @@ Signs("k1", Bodies[i]), Nobody, Nobody) @@ Base]
    \o << Calls(Guest(Bodies[1]), Nobody, Nobody) @@ [bucket |-> [b1 |-> Row("u1", "publicReadWrite"), b2 |-> Row("u2", "private")]] @@ Base,
          Calls(Session("u1", Bodies[13]), Nobody, Nobody) @@ Base >>

\* Ranges of an object of seven bytes, or of an empty one, encrypted under
\* counters that wrap around, or not at all.
Seven == Bytes(<<"a", "b", "c", "d", "e", "f", "g">>)
Between(i, j) == [form |-> "between", first |-> i, last |-> j]
Onwards(i) == [form |-> "from", first |-> i, last |-> 0]
Suffix(j) == [form |-> "suffix", first |-> 0, last |-> j]
Ranges == << Whole, Between(0, 0), Between(0, 9), Between(1, 4), Between(3, 4), Between(3, 9), Between(4, 2), Between(7, 9),
             Onwards(0), Onwards(2), Onwards(5), Onwards(7), Suffix(0), Suffix(1), Suffix(3), Suffix(9) >>
Ivs == << <<>>, <<0, 1>>, <<1, 1>> >>
Download(range, iv, plain) ==
    Calls(Signs("k1", [op |-> "GetObject", range |-> range]), Nobody, Nobody) @@
    [object |-> [b1 |-> [iv |-> iv, plain |-> plain], b2 |-> None]] @@ Base
Downloads ==
    [i \in 1 .. 3 * Len(Ranges) |-> Download(Ranges[(i + 2) \div 3], Ivs[(i % 3) + 1], Seven)]
    \o [i \in 1 .. Len(Ranges) |-> Download(Ranges[i], Ivs[(i % 2) + 1], <<>>)]
If(conditions) ==
    Calls(Signs("k1", [op |-> "GetObject", conditions |-> conditions @@ Unconditional]), Nobody, Nobody) @@
    [object |-> [b1 |-> [iv |-> <<>>, plain |-> Seven], b2 |-> None]] @@ Base
Conditionals == << If([match |-> {AB}]), If([match |-> {Anyone}]), If([noneMatch |-> {Seven}]), If([noneMatch |-> {AB}]),
                   If([unmodified |-> -1]), If([modified |-> 0]) >>

NoCalls == Calls(Nobody, Nobody, Nobody) @@ Base
MCStarts ==
    << NoCalls, Replaced, Copied, Moved, Public, Listed, Refusals, Shared, Browsed, Preflights, NoRules, Limited, Outage,
       SignIns, Sessions, Forged, BadLinks, KeyRaces, Skewed, Creations, Deletions, Emptied >> \o Conditions \o Links \o Uploads \o Conditionals \o Downloads

-----------------------------------------------------------------------------
\* Tours of the console.
Tour(screens, first, deeds, n) ==
    [url |-> [screen |-> first, folder |-> "root"], screens |-> screens, deeds |-> deeds, maxClicks |-> n, maxLosses |-> 0,
     batches |-> {<<3>>, <<1, 5>>, <<2, 4>>}, keys |-> {}, rows |-> <<>>, document |-> ""]
Files(keys, deeds, n) == [Tour({"files"}, "files", deeds, n) EXCEPT !.keys = keys]
Table(screen, row, n) == [Tour({screen}, screen, {}, n) EXCEPT !.rows = [r \in {"x"} |-> row]]
NoTour == Tour({}, "files", {}, 0)

MCConsoleStarts == <<
    NoTour,
    \* Walks over the pages of a bucket and of its folder, while rows go, and while
    \* files are dropped.
    Files({1, 2, 3, 4, 5}, {"walk"}, 4),
    Files({1, 3, 5}, {"walk", "change"}, 2),
    Files({1, 3}, {"change"}, 3),
    [Files({1}, {"walk", "drop"}, 3) EXCEPT !.url.folder = "folder"],
    [Files({1, 3}, {"drop"}, 3) EXCEPT !.maxLosses = 1],
    \* The tables, and the tabs of a bucket.
    Table("access", [permissions |-> {"write"}], 3),
    [Table("versions", <<>>, 3) EXCEPT !.rows = [r \in TableRow |-> [size |-> 1]], !.maxLosses = 1],
    [Table("access", [permissions |-> {"write"}], 2) EXCEPT !.maxLosses = 1],
    Table("users", [active |-> TRUE, role |-> "admin", quota |-> 0], 2),
    Table("keys", [active |-> FALSE], 3),
    Table("buckets", [objects |-> 0], 3),
    [Table("settings", [acl |-> "private", versioning |-> "enabled", quota |-> 0], 2) EXCEPT !.screens = {"policy"}],
    [Tour({"policy", "files"}, "policy", {"walk"}, 3) EXCEPT !.document = "p"] >>

SystemInit == Init /\ ConsoleInit /\ (scenario = NoCalls <=> tour # NoTour)
Calling == tour = NoTour /\ UNCHANGED consoleVars
Touring == tour # NoTour /\ UNCHANGED vars
SystemNext == (Calling /\ Next) \/ (Touring /\ ConsoleNext)
SystemSpec ==
    /\ SystemInit /\ [][SystemNext]_<<vars, consoleVars>>
    /\ WF_<<vars, consoleVars>>(Calling /\ Run) /\ WF_<<vars, consoleVars>>(Touring /\ ConsoleRun)
=============================================================================
