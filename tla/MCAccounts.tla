----------------------------- MODULE MCAccounts -----------------------------
(* Accounts with two administrators, one of whom uses the console. *)
EXTENDS Accounts, TLC

CONSTANTS ada, bob, t1, t2, c1, c2, chrome

TwoAdmins == [u \in User |->
    [role |-> "admin", status |-> "active", deleted |-> FALSE, password |-> 0]]
Nobody == [u \in User |-> None]
OneAdmin == [TwoAdmins EXCEPT ![bob].role = "user"]

Situation(table, tabs, o1, u1, o2, u2) ==
    [users |-> table, open |-> tabs,
     failures |-> IF {"setPassword", "bootstrap"} \cap {o1, o2} # {} THEN 0 ELSE MaxFailures,
     op |-> (c1 :> o1) @@ (c2 :> o2), target |-> (c1 :> u1) @@ (c2 :> u2)]

\* Two calls that meet, one for each administrator; two calls on a table that
\* has none; and two tabs that share a browser, while their user changes.
CallsMeet ==
    {Situation(TwoAdmins, {t1}, o1, ada, o2, bob) : o1 \in Removals, o2 \in Removals}
    \cup {Situation(OneAdmin, {t1}, o1, bob, o2, ada) :
             o1 \in {"promote", "disable"}, o2 \in {"demote", "delete"}}
    \cup {Situation(TwoAdmins, {t1}, "delete", bob, o2, bob) : o2 \in {"create", "enable"}}
Installs ==
    {Situation(Nobody, {t1}, "bootstrap", ada, o2, u) : o2 \in {"bootstrap", "create"}, u \in User}
TabsMeet ==
    {Situation(TwoAdmins, {t1, t2}, "demote", ada, None, ada)}
Passwords ==
    {Situation(TwoAdmins, {t1}, "setPassword", ada, "setPassword", u) : u \in User}
Situations == CallsMeet \cup Installs \cup TabsMeet \cup Passwords

OneBrowser == [t \in Tab |-> chrome]
AdasBrowser == [b \in Browser |-> ada]
=============================================================================
