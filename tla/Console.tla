------------------------------ MODULE Console ------------------------------
(***************************************************************************)
(* The screens of the web console: the file browser with its upload panel, *)
(* the tables, the policy editor.  A click runs a handler to its first     *)
(* await; the rest of it runs when the answer is there, with the folder    *)
(* and the token of the render in which it was made, whatever the user has *)
(* clicked meanwhile and whatever other answers have come.                 *)
(*                                                                         *)
(* Keys are numbered in byte order, and those Inside are in the one        *)
(* folder.  A row of a listing is a key, or the folder under the number of *)
(* its last key.  The screens reach the API, which has rules of its own;   *)
(* here it only does what it is told, or refuses.                          *)
(***************************************************************************)
EXTENDS Naturals, Sequences, FiniteSets, TLC

CONSTANTS LastKey, Inside,
          PageSize,
          TableRow,       \* what the rows of a table are about
          Texts,          \* what a user types into the policy editor
          ConsoleStarts,  \* what the user does on which screens, and what there is at first
          MaxTasks        \* bound: the handlers that wait at once

Tables == {"access", "users", "keys", "buckets", "settings", "versions"}
Url == [screen : Tables \cup {"files", "policy"}, folder : {"root", "folder"}]

ASSUME ConsoleAssumption ==
    /\ LastKey \in Nat /\ Inside # {} /\ PageSize \in Nat \ {0}
    /\ \E i, j \in 1 .. LastKey : Inside = i .. j
    /\ \A i \in DOMAIN ConsoleStarts :
          LET t == ConsoleStarts[i] IN
          /\ t.maxClicks \in Nat /\ t.maxLosses \in Nat /\ t.url \in Url
          /\ t.rows = [r \in DOMAIN t.rows |-> t.rows[r]] /\ t.batches \subseteq Seq(1 .. LastKey)
          \* BucketDetail asks for its bucket when it is mounted and after a change, not
          \* when its tab of settings is opened again: here it is opened once, with the page.
          /\ "settings" \notin t.screens /\ (t.url.screen = "settings" => "walk" \notin t.deeds)

VARIABLES tour,     \* one of ConsoleStarts; it never changes
          server,   \* what the API keeps: keys, the rows of a table by their names, a policy
          place,    \* the URL, and FileBrowser's tokens and pageIndex
          mount,    \* how often the screen was mounted
          past,     \* the URLs the browser goes back to
          shown,    \* what the screen shows
          panel,    \* UploadPanel: queue and uploading
          tasks,    \* the handlers that wait for an answer, in the order of their requests
          clicks, losses,
          meant,    \* history: what the clicks were to come to,
          rash,     \*   whether one was about something that was still under way,
          lost      \*   and whether the screen was left to the order of answers

MaxClicks == tour.maxClicks    \* bound: what the user does
MaxLosses == tour.maxLosses    \* bound: requests that come to nothing
May(deed) == deed \in tour.deeds

consoleVars == <<tour, server, place, mount, past, shown, panel, tasks, clicks, losses, meant, rash, lost>>

Permissions == {"read", "write"}

-----------------------------------------------------------------------------
(* The API. *)

RowsOf(folder, keys) ==
    LET row(k) == IF folder = "root" /\ k \in Inside THEN CHOOSE j \in Inside : \A i \in Inside : i <= j ELSE k
    IN {row(k) : k \in keys \cap (IF folder = "root" THEN 1 .. LastKey ELSE Inside)}
\* The keys behind a row.
Behind(folder, row) == IF folder = "root" /\ row \in Inside THEN Inside ELSE {row}

NoPage == [of |-> "root", rows |-> {}, next |-> 0]
\* listObjects: token 0 is none.
PageAt(folder, token, keys) ==
    LET rest == {r \in RowsOf(folder, keys) : r > token}
        page == {r \in rest : Cardinality({q \in rest : q <= r}) <= PageSize}
    IN [of |-> folder, rows |-> page,
        next |-> IF page = rest THEN 0 ELSE CHOOSE r \in page : \A q \in page : q <= r]

\* What a screen shows when the answer is there; what is granted comes with those who
\* could be granted something.
Answer(target, s) ==
    [listing |-> IF target.screen = "files" THEN PageAt(target.folder, target.token, s.keys) ELSE NoPage,
     rows |-> IF target.screen \in Tables THEN s.rows ELSE <<>>,
     users |-> IF target.screen = "access" THEN TableRow ELSE {},
     text |-> IF target.screen = "policy" THEN s.document ELSE "",
     saved |-> target.screen = "policy" /\ s.document # "",
     loading |-> FALSE, typed |-> FALSE]
Blank == [listing |-> NoPage, rows |-> <<>>, users |-> {}, text |-> "", saved |-> FALSE, loading |-> TRUE, typed |-> FALSE]

\* Calls that change something.
OnKeys(how, from, give) == [part |-> "keys", how |-> how, from |-> from, give |-> give]
OnRow(how, r, to) == [part |-> "rows", how |-> how, row |-> r, to |-> to]
OnPolicy(text) == [part |-> "policy", how |-> "put", to |-> text]

\* What was deleted keeps its name.
Refuses(s, call) ==
    CASE call.how \in {"copy", "move"} -> call.from \cap s.keys = {}
      [] call.how = "folder" -> call.give \subseteq s.keys
      [] call.how \in {"change", "delete"} -> call.row \notin DOMAIN s.rows
      [] call.how = "create" -> call.row \in DOMAIN s.rows \cup s.gone
      [] OTHER -> FALSE

WithRow(rows, r, to) ==
    [q \in DOMAIN rows \cup {r} |-> IF q # r THEN rows[q] ELSE IF r \in DOMAIN rows THEN to @@ rows[r] ELSE to]
WithoutRow(rows, r) == [q \in DOMAIN rows \ {r} |-> rows[q]]
Obeys(s, call) ==
    IF Refuses(s, call) THEN s
    ELSE CASE call.part = "keys" -> [s EXCEPT !.keys = (@ \ (IF call.how = "copy" THEN {} ELSE call.from)) \cup call.give]
           [] call.part = "policy" -> [s EXCEPT !.document = call.to]
           [] call.part = "rows" /\ call.how \in {"remove", "delete"} ->
                  [s EXCEPT !.rows = WithoutRow(@, call.row), !.gone = @ \cup {call.row}]
           [] OTHER -> [s EXCEPT !.rows = WithRow(@, call.row, call.to)]
\* A click makes one call, or two.
Result(s, calls) == IF Len(calls) = 1 THEN Obeys(s, calls[1]) ELSE Obeys(Obeys(s, calls[1]), calls[2])

-----------------------------------------------------------------------------
(* Handlers that wait. *)

\* refresh and load of a render: its folder, the token of its page.
Target(p) == [screen |-> p.screen, folder |-> p.folder, token |-> p.tokens[p.page]]
Task(calls, upload, first, p, m) ==
    [calls |-> calls, n |-> 1, upload |-> upload, first |-> first, target |-> Target(p), mount |-> m,
     at |-> "sent", ok |-> TRUE, content |-> Blank]
Loads(p, m) == Task(<<>>, FALSE, 0, p, m)
Loading(t) == t.n > Len(t.calls)
Writing == \E i \in DOMAIN tasks : tasks[i].calls # <<>>
Without(i) == SubSeq(tasks, 1, i - 1) \o SubSeq(tasks, i + 1, Len(tasks))

\* What two calls have in common.
About(call) == IF call.part = "keys" THEN call.from \cup call.give ELSE {call.part}
Clash(c, d) == c.part = d.part /\ About(c) \cap About(d) # {} /\ (c.part = "rows" => c.row = d.row)
Clashes(calls) ==
    \E i \in DOMAIN tasks : \E j \in DOMAIN tasks[i].calls, k \in DOMAIN calls : Clash(tasks[i].calls[j], calls[k])

\* A request arrives and is answered.
Serve(i) ==
    LET t == tasks[i] IN
    /\ t.at = "sent"
    /\ IF Loading(t)
       THEN tasks' = [tasks EXCEPT ![i].at = "back", ![i].ok = TRUE, ![i].content = Answer(t.target, server)] /\ UNCHANGED server
       ELSE /\ server' = Obeys(server, t.calls[t.n])
            /\ tasks' = [tasks EXCEPT ![i].at = "back", ![i].ok = ~Refuses(server, t.calls[t.n])]
    /\ UNCHANGED <<tour, place, mount, past, shown, panel, clicks, losses, meant, rash, lost>>

\* A request comes to nothing, or its answer does.
LoseRequest(i) ==
    LET t == tasks[i] IN
    /\ t.at = "sent" /\ losses < MaxLosses
    /\ losses' = losses + 1
    /\ tasks' = [tasks EXCEPT ![i].at = "back", ![i].ok = FALSE]
    /\ server' \in {server} \cup (IF Loading(t) THEN {} ELSE {Obeys(server, t.calls[t.n])})
    /\ UNCHANGED <<tour, place, mount, past, shown, panel, clicks, meant, rash, lost>>

Mine(t) == t.mount = mount
\* The last answer wins, even when it is to an older question.
ShowAnswer(i) ==
    LET t == tasks[i] IN
    /\ t.at = "back" /\ Loading(t)
    /\ tasks' = Without(i)
    /\ shown' = IF ~Mine(t) THEN shown
                ELSE IF t.ok THEN t.content
                ELSE [shown EXCEPT !.loading = FALSE]
    /\ lost' = (lost \/ (Mine(t) /\ \E j \in 1 .. i - 1 : Mine(tasks[j]) /\ Loading(tasks[j])))
    /\ UNCHANGED <<tour, server, place, mount, past, panel, clicks, losses, meant, rash>>

\* The handler goes on with its next call, or refreshes; the refresh is the one
\* of the render in which the handler was made.
GoesOn(i, t) ==
    IF t.n < Len(t.calls)
    THEN /\ tasks' = [tasks EXCEPT ![i].n = @ + 1, ![i].at = "sent"]
         /\ UNCHANGED shown
    ELSE /\ tasks' = Append(Without(i), [t EXCEPT !.n = @ + 1, !.at = "sent"])
         /\ shown' = IF Mine(t) THEN [shown EXCEPT !.loading = TRUE] ELSE shown

AfterCall(i) ==
    LET t == tasks[i] IN
    /\ t.at = "back" /\ ~Loading(t) /\ ~t.upload
    /\ IF t.ok THEN GoesOn(i, t) ELSE tasks' = Without(i) /\ UNCHANGED shown
    /\ UNCHANGED <<tour, server, place, mount, past, panel, clicks, losses, meant, rash, lost>>

\* A mistake: the first file that fails ends the loop.
AfterUploadOrError(i) ==
    LET t == tasks[i] IN
    /\ t.at = "back" /\ ~Loading(t) /\ t.upload
    /\ panel' = IF Mine(t) THEN [panel EXCEPT !.queue[t.first + t.n].status = IF t.ok THEN "done" ELSE "error"] ELSE panel
    /\ IF t.ok THEN GoesOn(i, t) ELSE tasks' = Without(i) /\ UNCHANGED shown
    /\ UNCHANGED <<tour, server, place, mount, past, clicks, losses, meant, rash, lost>>

\* send: a file that fails does not stop the others.
AfterUpload(i) ==
    LET t == tasks[i]
        status == IF t.ok THEN "done" ELSE "error"
        last == t.n = Len(t.calls)
    IN
    /\ t.at = "back" /\ ~Loading(t) /\ t.upload
    /\ panel' = IF ~Mine(t) THEN panel
                ELSE [uploading |-> ~last,
                      queue |-> [q \in DOMAIN panel.queue |->
                          CASE q = t.first + t.n -> [panel.queue[q] EXCEPT !.status = status]
                            [] q = t.first + t.n + 1 /\ ~last -> [panel.queue[q] EXCEPT !.status = "uploading"]
                            [] OTHER -> panel.queue[q]]]
    /\ GoesOn(i, t)
    /\ UNCHANGED <<tour, server, place, mount, past, clicks, losses, meant, rash, lost>>

-----------------------------------------------------------------------------
(* Where the user goes. *)

Click(more) ==
    /\ clicks < MaxClicks /\ Len(tasks) + more <= MaxTasks
    /\ clicks' = clicks + 1
EmptyPanel == [queue |-> <<>>, uploading |-> FALSE]
UrlOf(p) == [screen |-> p.screen, folder |-> p.folder]
FirstPage(url) == [screen |-> url.screen, folder |-> url.folder, tokens |-> <<0>>, page |-> 1]

\* The effect of a render whose folder, tokens or page have changed.
Reload(p) ==
    /\ place' = p
    /\ tasks' = Append(tasks, Loads(p, mount))
    /\ shown' = [shown EXCEPT !.loading = TRUE]
    /\ UNCHANGED <<mount, panel>>

\* The URL changes under the screen: another tab is mounted, and asks for what it
\* shows (no tour comes back to the settings); or the file browser stays, with the
\* tokens and the page it had in the other folder.
Arrive(url) ==
    \/ /\ url.screen # place.screen
       /\ place' = FirstPage(url) /\ mount' = mount + 1
       /\ shown' = Blank /\ panel' = EmptyPanel
       /\ tasks' = Append(tasks, Loads(FirstPage(url), mount + 1))
       /\ lost' = Writing
    \/ /\ url.screen = place.screen /\ url.folder # place.folder
       /\ Reload([place EXCEPT !.folder = url.folder])
       /\ lost' = (lost \/ Writing \/ Len(place.tokens) > 1)
    \/ /\ url = UrlOf(place)
       /\ UNCHANGED <<place, mount, shown, panel, tasks, lost>>

\* selectTab, and the links of Layout.
SelectTab(screen) ==
    /\ Click(1) /\ screen \in tour.screens
    /\ past' = Append(past, UrlOf(place))
    /\ Arrive([screen |-> screen, folder |-> "root"])
    /\ UNCHANGED <<tour, server, losses, meant, rash>>

\* The browser's own button.
GoBack ==
    /\ Click(1) /\ May("walk") /\ past # <<>>
    /\ past' = SubSeq(past, 1, Len(past) - 1)
    /\ Arrive(past[Len(past)])
    /\ UNCHANGED <<tour, server, losses, meant, rash>>

\* A mistake: the tokens of the other folder are kept.
NavigateWithTokens(folder) ==
    /\ Click(1) /\ place.screen = "files" /\ May("walk")
    /\ folder = "root" \/ (shown.listing.of = "root" /\ shown.listing.rows \cap Inside # {} /\ ~shown.loading)
    /\ past' = Append(past, UrlOf(place))
    /\ Reload([place EXCEPT !.folder = folder])
    /\ lost' = (Writing \/ (lost /\ tasks # <<>>))
    /\ UNCHANGED <<tour, server, losses, meant, rash>>

\* navigateTo, from the breadcrumb or from the row of the folder.  The router may
\* render the URL after the tokens: then the old folder is loaded once more.
NavigateTo(folder) ==
    LET first == FirstPage([screen |-> "files", folder |-> folder])
        again == Loads(FirstPage(UrlOf(place)), mount)
    IN
    /\ place.screen = "files" /\ May("walk")
    /\ folder = "root" \/ (shown.listing.of = "root" /\ shown.listing.rows \cap Inside # {} /\ ~shown.loading)
    /\ past' = Append(past, UrlOf(place))
    /\ place' = first
    /\ \/ Click(1) /\ tasks' = Append(tasks, Loads(first, mount))
       \/ Click(2) /\ folder # place.folder /\ tasks' = tasks \o <<again, Loads(first, mount)>>
    /\ shown' = [shown EXCEPT !.loading = TRUE]
    /\ lost' = (Writing \/ (lost /\ tasks # <<>>))
    /\ UNCHANGED <<tour, server, mount, panel, losses, meant, rash>>

Waiting == \E i \in DOMAIN tasks : Mine(tasks[i]) /\ Loading(tasks[i])
\* nextPage: the button goes by the page that is shown, be it another's.
NextPage ==
    /\ Click(1) /\ place.screen = "files" /\ May("walk") /\ shown.listing.next # 0
    /\ Reload([place EXCEPT !.tokens = IF place.page < Len(@) THEN @ ELSE Append(@, shown.listing.next), !.page = @ + 1])
    /\ lost' = (lost \/ Writing \/ Waiting)
    /\ UNCHANGED <<tour, server, past, losses, meant, rash>>

PreviousPage ==
    /\ Click(1) /\ place.screen = "files" /\ May("walk") /\ place.page > 1
    /\ Reload([place EXCEPT !.page = @ - 1])
    /\ lost' = (lost \/ Writing)
    /\ UNCHANGED <<tour, server, past, losses, meant, rash>>

-----------------------------------------------------------------------------
(* What the user changes. *)

Does(calls) ==
    /\ Click(1)
    /\ tasks' = Append(tasks, Task(calls, FALSE, 0, place, mount))
    /\ meant' = Result(meant, calls)
    /\ rash' = (rash \/ Clashes(calls))
    /\ UNCHANGED <<tour, server, place, mount, past, shown, panel, losses, lost>>

Browsing == place.screen = "files" /\ ~shown.loading /\ May("change")
IsFolder(row) == shown.listing.of = "root" /\ row \in Inside

\* removeObject and removeFolder.
RemoveRow ==
    /\ Browsing
    /\ \E row \in shown.listing.rows : Does(<<OnKeys("remove", Behind(shown.listing.of, row), {})>>)

\* createFolder: its marker is the first of its keys.
MakeFolder ==
    /\ place.screen = "files" /\ place.folder = "root" /\ May("change")
    /\ Does(<<OnKeys("folder", {}, {CHOOSE i \in Inside : \A j \in Inside : i <= j})>>)

\* CopyMoveDialog: a key gets another name beside it, and may keep its own.
Rename ==
    /\ Browsing
    /\ \E row \in shown.listing.rows, to \in 1 .. LastKey, move \in BOOLEAN :
          /\ ~IsFolder(row) /\ to # row /\ (to \in Inside <=> row \in Inside)
          /\ Does(<<OnKeys(IF move THEN "move" ELSE "copy", {row}, {to})>>)

\* enqueue and send: files that are dropped while others are under way are put in
\* the queue, and nobody sends them.
Drop ==
    \E files \in tour.batches :
        LET calls == [i \in DOMAIN files |-> OnKeys("put", {}, {files[i]})]
            item(i) == [status |-> IF i = 1 /\ ~panel.uploading THEN "uploading" ELSE "pending", sent |-> ~panel.uploading]
        IN
        /\ place.screen = "files" /\ May("drop")
        /\ \A i \in DOMAIN files : (files[i] \in Inside) <=> (place.folder # "root")
        /\ panel' = [queue |-> panel.queue \o [i \in DOMAIN files |-> item(i)], uploading |-> TRUE]
        /\ meant' = [meant EXCEPT !.keys = @ \cup {files[i] : i \in DOMAIN files}]
        /\ rash' = (rash \/ panel.uploading \/ Clashes(calls))
        /\ \/ /\ panel.uploading
              /\ Click(0) /\ UNCHANGED tasks
           \/ /\ ~panel.uploading
              /\ Click(1) /\ tasks' = Append(tasks, Task(calls, TRUE, Len(panel.queue), place, mount))
        /\ UNCHANGED <<tour, server, place, mount, past, shown, losses, lost>>

SettledItem(item) == item.status \in {"done", "error"}
CloseQueue ==
    /\ panel.queue # <<>> /\ \A i \in DOMAIN panel.queue : SettledItem(panel.queue[i])
    /\ Click(0)
    /\ panel' = [panel EXCEPT !.queue = <<>>]
    /\ UNCHANGED <<tour, server, place, mount, past, shown, tasks, losses, meant, rash, lost>>

\* The handlers of a table: those of its rows, which are there once nothing is
\* loading, and those of the form beside it, which always is.
Visible == IF shown.loading THEN {} ELSE DOMAIN shown.rows
Toggles(r) == {<<OnRow("change", r, [active |-> ~shown.rows[r].active])>>}
Deletes(r) == {<<OnRow("delete", r, <<>>)>>}
Creates(row) == {<<OnRow("create", r, row)>> : r \in TableRow \ DOMAIN shown.rows}

\* BucketAccess: the whole set goes out, less or more by one; an empty one is a
\* removal.
Grants(r, Q) == {<<IF Q = {} THEN OnRow("remove", r, <<>>) ELSE OnRow("put", r, [permissions |-> Q])>>}
AccessCalls ==
    (UNION {LET old == shown.rows[r].permissions IN
            UNION {Grants(r, Q) : Q \in {{}} \cup {old \ {p} : p \in old} \cup {old \cup {p} : p \in Permissions \ old}} : r \in Visible})
    \cup (UNION {Grants(r, {"read"}) : r \in shown.users \ DOMAIN shown.rows})

\* Users: saveEdit makes two calls, from a dialog that stays open while the table
\* loads.
UsersCalls ==
    (UNION {Toggles(r) \cup Deletes(r) : r \in Visible})
    \cup {<<OnRow("change", r, [role |-> role]), OnRow("change", r, [quota |-> quota])>> :
              r \in DOMAIN shown.rows, role \in {"user", "admin"}, quota \in {1}}
    \cup Creates([active |-> TRUE, role |-> "user", quota |-> 0])

\* AccessKeys.
KeysCalls == (UNION {Toggles(r) \cup Deletes(r) : r \in Visible}) \cup Creates([active |-> TRUE])

\* Buckets.
BucketsCalls == (UNION {Deletes(r) : r \in Visible}) \cup Creates([objects |-> 0])

\* BucketSettings stays on the screen while it loads: one select each for the ACL
\* and the versioning, a field for the quota.
SettingsCalls ==
    UNION {{<<OnRow("change", r, [acl |-> a])>> : a \in {"private", "public"}}
           \cup {<<OnRow("change", r, [versioning |-> v])>> : v \in {"enabled", "suspended"}}
           \cup {<<OnRow("change", r, [quota |-> q])>> : q \in 0 .. 1} : r \in DOMAIN shown.rows}

\* ObjectVersions, the dialog with the versions of a key.
VersionsCalls == UNION {Deletes(r) : r \in Visible}

Press ==
    /\ place.screen \in Tables
    /\ \E calls \in CASE place.screen = "access" -> AccessCalls
                      [] place.screen = "users" -> UsersCalls
                      [] place.screen = "keys" -> KeysCalls
                      [] place.screen = "buckets" -> BucketsCalls
                      [] place.screen = "versions" -> VersionsCalls
                      [] OTHER -> SettingsCalls : Does(calls)

\* BucketPolicy: the editor, which can be typed into all the time.
Type ==
    /\ Click(0) /\ place.screen = "policy"
    /\ \E text \in Texts \ {shown.text} : shown' = [shown EXCEPT !.text = text, !.typed = TRUE]
    /\ UNCHANGED <<tour, server, place, mount, past, panel, tasks, losses, meant, rash, lost>>

\* save: no text is no policy, and a text that is no JSON goes nowhere.
SaveText == place.screen = "policy" /\ shown.text # "bad" /\ Does(<<OnPolicy(shown.text)>>)
RemoveText == place.screen = "policy" /\ shown.saved /\ Does(<<OnPolicy("")>>)

-----------------------------------------------------------------------------
ConsoleInit ==
    /\ \E i \in DOMAIN ConsoleStarts : tour = ConsoleStarts[i]
    /\ server = [keys |-> tour.keys, rows |-> tour.rows, gone |-> {}, document |-> tour.document]
    /\ place = FirstPage(tour.url)
    /\ mount = 0 /\ past = <<>> /\ shown = Blank /\ panel = EmptyPanel
    /\ tasks = IF tour.screens = {} THEN <<>> ELSE <<Loads(FirstPage(tour.url), 0)>>
    /\ clicks = 0
    /\ losses = 0
    /\ meant = server /\ rash = FALSE /\ lost = FALSE

ConsoleRun == \E i \in DOMAIN tasks : Serve(i) \/ LoseRequest(i) \/ ShowAnswer(i) \/ AfterCall(i) \/ AfterUpload(i)

Clicks ==
    \/ \E screen \in Tables \cup {"files", "policy"} : SelectTab(screen)
    \/ GoBack \/ NextPage \/ PreviousPage
    \/ \E folder \in {"root", "folder"} : NavigateTo(folder)
    \/ RemoveRow \/ MakeFolder \/ Rename \/ Drop \/ CloseQueue
    \/ Press
    \/ Type \/ SaveText \/ RemoveText

ConsoleNext == ConsoleRun \/ Clicks
ConsoleSpec == ConsoleInit /\ [][ConsoleNext]_consoleVars
FairConsoleSpec == ConsoleSpec /\ WF_consoleVars(ConsoleRun)

-----------------------------------------------------------------------------
(* Properties. *)

\* Next leads from the first page through every page of the folder.
TokensLead ==
    LET next(j) == PageAt(place.folder, place.tokens[j], server.keys).next IN
    /\ place.tokens[1] = 0
    /\ \A i, j \in DOMAIN place.tokens : i < j => place.tokens[i] < place.tokens[j]
    /\ tour.deeds = {"walk"} => \A j \in 1 .. Len(place.tokens) - 1 : place.tokens[j + 1] = next(j)

ShowsPlace ==
    CASE place.screen = "files" -> shown.listing = PageAt(place.folder, place.tokens[place.page], server.keys) /\ TokensLead
      [] place.screen \in Tables -> shown.rows = server.rows
      [] OTHER -> shown.typed \/ shown.text = server.document

\* FileBrowser, UploadPanel and the tables refresh from handlers that were made in
\* an older render.  When every request is answered and the user waits, the screen
\* shows what the API has for the place in the URL, unless an older answer came
\* after a newer one, the user left while a change was under way, or came into a
\* folder with the tokens of another; and what the API has is what the clicks were
\* to come to, in whatever order they were served, unless two were about the same
\* thing.  Two upload loops never run in one panel.
ConsoleTellsTheTruth ==
    /\ Cardinality({i \in DOMAIN tasks : tasks[i].upload /\ Mine(tasks[i]) /\ ~Loading(tasks[i])}) <= 1
    /\ tasks = <<>> /\ losses = 0 /\ tour.screens # {} =>
        /\ ~shown.loading
        /\ ~lost /\ ~rash => ShowsPlace
        /\ ~rash => server = meant

\* UploadPanel.send: every file of a drop is sent or fails, even when another one
\* fails, the user goes elsewhere or more is dropped; only what is dropped while
\* another drop is under way is never sent.
DropsSettle ==
    <>[](\A i \in DOMAIN panel.queue : panel.queue[i].sent => SettledItem(panel.queue[i]))
=============================================================================
