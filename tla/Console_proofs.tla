--------------------------- MODULE Console_proofs ---------------------------
(***************************************************************************)
(* Proof that the screens of the console tell the truth: for any number of *)
(* clicks and of handlers that wait, any answers in any order.             *)
(***************************************************************************)
EXTENDS Console, FiniteSetTheorems, NaturalsInduction, SequenceTheorems, TLAPS

-----------------------------------------------------------------------------
(* The handlers that wait, as a sequence. *)

IsSequence(s) == s \in Seq({s[i] : i \in DOMAIN s})
Added(s, w, u) == /\ IsSequence(w) /\ DOMAIN w = 1 .. Len(s) + 1 /\ Len(w) = Len(s) + 1
                  /\ w[Len(s) + 1] = u /\ \A j \in DOMAIN s : w[j] = s[j]
Removed(s, w, i) == /\ IsSequence(w) /\ DOMAIN w = 1 .. Len(s) - 1 /\ Len(w) = Len(s) - 1
                    /\ \A j \in DOMAIN w : w[j] = s[IF j < i THEN j ELSE j + 1]
Replaced(s, w, i, u) == /\ IsSequence(w) /\ DOMAIN w = DOMAIN s /\ Len(w) = Len(s)
                        /\ w[i] = u /\ \A j \in DOMAIN s \ {i} : w[j] = s[j]

\* The length and the places of a sequence.
LEMMA Places ==
  ASSUME NEW s, IsSequence(s)
  PROVE  Len(s) \in Nat /\ DOMAIN s = 1 .. Len(s)
BY DEF IsSequence

\* Whatever it is made of, a sequence is one of what it has.
LEMMA SequencesAre ==
  ASSUME NEW S, NEW w \in Seq(S)
  PROVE  IsSequence(w)
<1> DEFINE T == {w[i] : i \in DOMAIN w}
<1>1. Len(w) \in Nat /\ DOMAIN w = 1 .. Len(w) /\ w = [i \in 1 .. Len(w) |-> w[i]]
  BY LenProperties
<1>2. \A i \in 1 .. Len(w) : w[i] \in T
  BY <1>1
<1> HIDE DEF T
<1>3. w \in [1 .. Len(w) -> T]
  BY <1>1, <1>2
<1>4. w \in Seq(T)
  BY <1>1, <1>3, SeqDef
<1> QED BY <1>4 DEF IsSequence, T

\* Append adds one at the end.
LEMMA AppendAdds ==
  ASSUME NEW s, IsSequence(s), NEW u
  PROVE  Added(s, Append(s, u), u)
<1> DEFINE S == {s[i] : i \in DOMAIN s} \cup {u}
           w == Append(s, u)
<1>1. s \in Seq(S) /\ u \in S
  BY SeqMonotonic DEF IsSequence
<1> HIDE DEF S
<1>2. /\ w \in Seq(S) /\ Len(w) = Len(s) + 1 /\ w[Len(s) + 1] = u /\ DOMAIN w = 1 .. Len(s) + 1
      /\ \A j \in 1 .. Len(s) : w[j] = s[j]
  BY <1>1
<1>3. IsSequence(w)
  BY <1>2, SequencesAre
<1> QED BY <1>2, <1>3, Places DEF Added

\* Without takes one out.
LEMMA WithoutRemoves ==
  ASSUME IsSequence(tasks), NEW i \in DOMAIN tasks
  PROVE  Removed(tasks, Without(i), i)
<1> DEFINE S == {tasks[j] : j \in DOMAIN tasks}
           a == SubSeq(tasks, 1, i - 1)
           b == SubSeq(tasks, i + 1, Len(tasks))
           w == Without(i)
<1>1. tasks \in Seq(S) /\ Len(tasks) \in Nat /\ DOMAIN tasks = 1 .. Len(tasks) /\ i \in 1 .. Len(tasks)
  BY Places DEF IsSequence
<1> HIDE DEF S
<1>2. a \in Seq(S) /\ Len(a) = i - 1 /\ \A j \in 1 .. i - 1 : a[j] = tasks[j]
  BY <1>1
<1>3. b \in Seq(S) /\ Len(b) = Len(tasks) - i /\ \A j \in 1 .. Len(tasks) - i : b[j] = tasks[i + j]
  BY <1>1
<1>4. w = a \o b
  BY DEF Without
<1> HIDE DEF a, b, w
<1>5. /\ w \in Seq(S) /\ Len(w) = Len(tasks) - 1 /\ DOMAIN w = 1 .. Len(tasks) - 1
      /\ \A j \in 1 .. Len(tasks) - 1 : w[j] = IF j =< i - 1 THEN a[j] ELSE b[j - (i - 1)]
  <2>1. a \o b \in Seq(S) /\ Len(a \o b) = Len(a) + Len(b)
        /\ \A j \in 1 .. Len(a) + Len(b) : (a \o b)[j] = IF j =< Len(a) THEN a[j] ELSE b[j - Len(a)]
    BY <1>2, <1>3, ConcatProperties
  <2>2. Len(a) + Len(b) = Len(tasks) - 1
    BY <1>1, <1>2, <1>3
  <2>3. DOMAIN w = 1 .. Len(w)
    BY <1>4, <2>1
  <2> QED BY <1>2, <1>4, <2>1, <2>2, <2>3
<1>6. \A j \in 1 .. Len(tasks) - 1 : w[j] = tasks[IF j < i THEN j ELSE j + 1]
  <2> TAKE j \in 1 .. Len(tasks) - 1
  <2>1. CASE j < i
    <3>1. j \in 1 .. i - 1 /\ j =< i - 1
      BY <1>1, <2>1
    <3> QED BY <1>2, <1>5, <2>1, <3>1
  <2>2. CASE ~ (j < i)
    <3>1. ~ (j =< i - 1) /\ j - (i - 1) \in 1 .. Len(tasks) - i /\ i + (j - (i - 1)) = j + 1
      BY <1>1, <2>2
    <3> QED BY <1>3, <1>5, <2>2, <3>1
  <2> QED BY <2>1, <2>2
<1>7. IsSequence(w)
  BY <1>5, SequencesAre
<1> QED BY <1>5, <1>6, <1>7 DEF Removed, w

\* EXCEPT replaces one.
LEMMA ExceptReplaces ==
  ASSUME NEW s, IsSequence(s), NEW i \in DOMAIN s, NEW u, NEW w, w = [s EXCEPT ![i] = u]
  PROVE  Replaced(s, w, i, u)
<1>1. Len(s) \in Nat /\ DOMAIN s = 1 .. Len(s)
  BY Places
<1>2. DOMAIN w = 1 .. Len(s) /\ w[i] = u /\ \A j \in DOMAIN s \ {i} : w[j] = s[j]
  BY <1>1
<1>3. IsSequence(w) /\ Len(w) = Len(s)
  <2> DEFINE S == {s[j] : j \in DOMAIN s} \cup {u}
  <2>1. s \in Seq(S) /\ u \in S /\ i \in 1 .. Len(s)
    BY <1>1, SeqMonotonic DEF IsSequence
  <2> HIDE DEF S
  <2>2. w \in Seq(S) /\ Len(w) = Len(s)
    BY <2>1, ExceptSeq
  <2> QED BY <2>2, SequencesAre
<1> QED BY <1>1, <1>2, <1>3 DEF Replaced

\* Where the others are when one is taken out.
LEMMA RemovedLeaves ==
  ASSUME NEW s, IsSequence(s), NEW i \in DOMAIN s, NEW w, Removed(s, w, i)
  PROVE  /\ \A j \in DOMAIN w : (IF j < i THEN j ELSE j + 1) \in DOMAIN s \ {i}
         /\ \A j \in DOMAIN s \ {i} : /\ (IF j < i THEN j ELSE j - 1) \in DOMAIN w
                                      /\ w[IF j < i THEN j ELSE j - 1] = s[j]
<1>1. Len(s) \in Nat /\ DOMAIN s = 1 .. Len(s) /\ DOMAIN w = 1 .. Len(s) - 1
  BY Places DEF Removed
<1>2. \A j \in DOMAIN w : (IF j < i THEN j ELSE j + 1) \in DOMAIN s \ {i}
  BY <1>1
<1>3. ASSUME NEW j \in DOMAIN s \ {i}
      PROVE  (IF j < i THEN j ELSE j - 1) \in DOMAIN w /\ w[IF j < i THEN j ELSE j - 1] = s[j]
  <2>1. CASE j < i
    <3>1. j \in DOMAIN w
      BY <1>1, <1>3, <2>1
    <3> QED BY <2>1, <3>1 DEF Removed
  <2>2. CASE ~ (j < i)
    <3>1. j - 1 \in DOMAIN w /\ ~ (j - 1 < i) /\ (j - 1) + 1 = j
      BY <1>1, <1>3, <2>2
    <3>2. w[j - 1] = s[(j - 1) + 1]
      BY <3>1 DEF Removed
    <3> QED BY <2>2, <3>1, <3>2
  <2> QED BY <2>1, <2>2
<1> QED BY <1>2, <1>3

-----------------------------------------------------------------------------
(* What calls do to what they are about. *)

IsServer(s) == /\ s \in [keys : {s.keys}, rows : {s.rows}, gone : {s.gone}, document : {s.document}]
               /\ s.rows = [r \in DOMAIN s.rows |-> s.rows[r]]
IsCall(d) ==
    \/ \E how \in {"remove", "folder", "move", "copy", "put"} : \E from, give : d = OnKeys(how, from, give)
    \/ \E how \in {"change", "delete", "create", "put", "remove"} : \E r, to : d = OnRow(how, r, to)
    \/ \E text : d = OnPolicy(text)

\* Two states of the API have the same row; they are the same for a call.
SameRow(s, u, r) ==
    /\ r \in DOMAIN s.rows <=> r \in DOMAIN u.rows
    /\ r \in DOMAIN s.rows => s.rows[r] = u.rows[r]
    /\ r \in s.gone <=> r \in u.gone
SameFor(s, u, d) ==
    /\ d.part = "keys" => \A k \in About(d) : k \in s.keys <=> k \in u.keys
    /\ d.part = "rows" => SameRow(s, u, d.row)
    /\ d.part = "policy" => s.document = u.document

\* A call about one thing only.
IsProbe(d) == (\E k : d = OnKeys("put", {}, {k})) \/ (\E r : d = OnRow("put", r, <<>>)) \/ d = OnPolicy("")

\* The parts of calls.
LEMMA Parts ==
  ASSUME NEW d, IsCall(d)
  PROVE  /\ d.part \in {"keys", "rows", "policy"}
         /\ d.part = "keys" => About(d) = d.from \cup d.give /\ d.how \in {"remove", "folder", "move", "copy", "put"}
         /\ d.part # "keys" => About(d) = {d.part}
         /\ d.part = "rows" => d.how \in {"change", "delete", "create", "put", "remove"}
         /\ d.part = "policy" => d.how = "put"
BY DEF IsCall, OnKeys, OnRow, OnPolicy, About

LEMMA ProbesAreCalls ==
  ASSUME NEW d, IsProbe(d)
  PROVE  IsCall(d)
<1>1. CASE \E k : d = OnKeys("put", {}, {k})
  BY <1>1 DEF IsCall
<1>2. CASE \E r : d = OnRow("put", r, <<>>)
  BY <1>2 DEF IsCall
<1>3. CASE d = OnPolicy("")
  BY <1>3 DEF IsCall
<1> QED BY <1>1, <1>2, <1>3 DEF IsProbe

\* What a call does.
LEMMA ObeysKeys ==
  ASSUME NEW s, IsServer(s), NEW d, IsCall(d), d.part = "keys"
  PROVE  LET u == Obeys(s, d) IN
         /\ IsServer(u) /\ u.rows = s.rows /\ u.gone = s.gone /\ u.document = s.document
         /\ u.keys = IF Refuses(s, d) THEN s.keys ELSE (s.keys \ (IF d.how = "copy" THEN {} ELSE d.from)) \cup d.give
BY DEF Obeys, IsServer

LEMMA ObeysPolicy ==
  ASSUME NEW s, IsServer(s), NEW d, IsCall(d), d.part = "policy"
  PROVE  LET u == Obeys(s, d) IN
         /\ ~Refuses(s, d)
         /\ IsServer(u) /\ u.keys = s.keys /\ u.rows = s.rows /\ u.gone = s.gone /\ u.document = d.to
<1>1. ~Refuses(s, d)
  BY Parts DEF Refuses
<1> QED BY <1>1 DEF Obeys, IsServer

LEMMA ObeysRow ==
  ASSUME NEW s, IsServer(s), NEW d, IsCall(d), d.part = "rows"
  PROVE  LET u == Obeys(s, d)
             goes == d.how \in {"remove", "delete"}
         IN
         /\ IsServer(u) /\ u.keys = s.keys /\ u.document = s.document
         /\ u.rows = IF Refuses(s, d) THEN s.rows
                     ELSE IF goes THEN WithoutRow(s.rows, d.row) ELSE WithRow(s.rows, d.row, d.to)
         /\ u.gone = IF ~Refuses(s, d) /\ goes THEN s.gone \cup {d.row} ELSE s.gone
<1> DEFINE goes == d.how \in {"remove", "delete"}
<1>1. CASE Refuses(s, d)
  BY <1>1 DEF Obeys
<1>2. CASE ~Refuses(s, d) /\ goes
  <2>1. Obeys(s, d) = [s EXCEPT !.rows = WithoutRow(s.rows, d.row), !.gone = s.gone \cup {d.row}]
    BY <1>2 DEF Obeys, IsServer
  <2>2. WithoutRow(s.rows, d.row) = [r \in DOMAIN WithoutRow(s.rows, d.row) |-> WithoutRow(s.rows, d.row)[r]]
    BY DEF WithoutRow
  <2> QED BY <1>2, <2>1, <2>2 DEF IsServer
<1>3. CASE ~Refuses(s, d) /\ ~goes
  <2>1. Obeys(s, d) = [s EXCEPT !.rows = WithRow(s.rows, d.row, d.to)]
    BY <1>3 DEF Obeys, IsServer
  <2>2. WithRow(s.rows, d.row, d.to) = [r \in DOMAIN WithRow(s.rows, d.row, d.to) |-> WithRow(s.rows, d.row, d.to)[r]]
    BY DEF WithRow
  <2> QED BY <1>3, <2>1, <2>2 DEF IsServer
<1> QED BY <1>1, <1>2, <1>3

LEMMA ObeysIsServer ==
  ASSUME NEW s, IsServer(s), NEW d, IsCall(d)
  PROVE  IsServer(Obeys(s, d))
BY Parts, ObeysKeys, ObeysPolicy, ObeysRow

\* What becomes of the row a call is about, and of the others.
LEMMA RowsChange ==
  ASSUME NEW s, IsServer(s), NEW d, IsCall(d), d.part = "rows", ~Refuses(s, d)
  PROVE  LET u == Obeys(s, d)
             goes == d.how \in {"remove", "delete"}
         IN
         /\ \A r : r # d.row => SameRow(s, u, r)
         /\ d.row \in DOMAIN u.rows <=> ~goes
         /\ ~goes => u.rows[d.row] = IF d.row \in DOMAIN s.rows THEN d.to @@ s.rows[d.row] ELSE d.to
         /\ d.row \in u.gone <=> goes \/ d.row \in s.gone
<1> DEFINE u == Obeys(s, d)
<1>1. /\ u.rows = IF d.how \in {"remove", "delete"} THEN WithoutRow(s.rows, d.row) ELSE WithRow(s.rows, d.row, d.to)
      /\ u.gone = IF d.how \in {"remove", "delete"} THEN s.gone \cup {d.row} ELSE s.gone
  BY ObeysRow
<1> HIDE DEF u
<1>2. CASE d.how \in {"remove", "delete"}
  <2>1. DOMAIN u.rows = DOMAIN s.rows \ {d.row} /\ \A r \in DOMAIN s.rows \ {d.row} : u.rows[r] = s.rows[r]
    BY <1>1, <1>2 DEF WithoutRow
  <2> QED BY <1>1, <1>2, <2>1 DEF SameRow, u
<1>3. CASE d.how \notin {"remove", "delete"}
  <2>1. /\ DOMAIN u.rows = DOMAIN s.rows \cup {d.row}
        /\ \A r \in DOMAIN s.rows : r # d.row => u.rows[r] = s.rows[r]
        /\ u.rows[d.row] = IF d.row \in DOMAIN s.rows THEN d.to @@ s.rows[d.row] ELSE d.to
    BY <1>1, <1>3 DEF WithRow
  <2> QED BY <1>1, <1>3, <2>1 DEF SameRow, u
<1> QED BY <1>2, <1>3

\* A call is served alike, and does the same, where what it is about is the same.
LEMMA AlikeForAlike ==
  ASSUME NEW s, IsServer(s), NEW u, IsServer(u), NEW d, IsCall(d), SameFor(s, u, d)
  PROVE  /\ SameFor(Obeys(s, d), Obeys(u, d), d)
         /\ Refuses(s, d) <=> Refuses(u, d)
<1>1. CASE d.part = "keys"
  <2>1. About(d) = d.from \cup d.give /\ d.how \in {"remove", "folder", "move", "copy", "put"}
    BY <1>1, Parts
  <2>2. \A k \in d.from \cup d.give : k \in s.keys <=> k \in u.keys
    BY <1>1, <2>1 DEF SameFor
  <2>3. Refuses(s, d) <=> Refuses(u, d)
    BY <2>1, <2>2 DEF Refuses
  <2>4. \A k \in d.from \cup d.give : k \in Obeys(s, d).keys <=> k \in Obeys(u, d).keys
    <3>1. /\ Obeys(s, d).keys = IF Refuses(s, d) THEN s.keys ELSE (s.keys \ (IF d.how = "copy" THEN {} ELSE d.from)) \cup d.give
          /\ Obeys(u, d).keys = IF Refuses(u, d) THEN u.keys ELSE (u.keys \ (IF d.how = "copy" THEN {} ELSE d.from)) \cup d.give
      BY <1>1, ObeysKeys
    <3> QED BY <2>2, <2>3, <3>1
  <2> QED BY <1>1, <2>1, <2>3, <2>4 DEF SameFor
<1>2. CASE d.part = "policy"
  BY <1>2, ObeysPolicy DEF SameFor
<1>3. CASE d.part = "rows"
  <2>1. SameRow(s, u, d.row) /\ d.how \in {"change", "delete", "create", "put", "remove"}
    BY <1>3, Parts DEF SameFor
  <2>2. Refuses(s, d) <=> Refuses(u, d)
    BY <2>1 DEF Refuses, SameRow
  <2>3. CASE Refuses(s, d)
    <3>1. Obeys(s, d) = s /\ Obeys(u, d) = u
      BY <2>2, <2>3 DEF Obeys
    <3> QED BY <2>2, <3>1
  <2>4. CASE ~Refuses(s, d)
    <3>1. SameRow(Obeys(s, d), Obeys(u, d), d.row)
      BY <1>3, <2>1, <2>2, <2>4, RowsChange DEF SameRow
    <3> QED BY <1>3, <2>2, <3>1 DEF SameFor
  <2> QED BY <2>3, <2>4
<1> QED BY <1>1, <1>2, <1>3, Parts

\* A call leaves alone what it does not clash with.
LEMMA OthersAreLeft ==
  ASSUME NEW s, IsServer(s), NEW c, IsCall(c), NEW d, IsCall(d), ~Clash(c, d)
  PROVE  SameFor(s, Obeys(s, c), d)
<1>1. CASE c.part = "keys"
  <2>1. /\ Obeys(s, c).rows = s.rows /\ Obeys(s, c).gone = s.gone /\ Obeys(s, c).document = s.document
        /\ \A k : k \notin About(c) => (k \in Obeys(s, c).keys <=> k \in s.keys)
    <3>1. /\ Obeys(s, c).rows = s.rows /\ Obeys(s, c).gone = s.gone /\ Obeys(s, c).document = s.document
          /\ Obeys(s, c).keys = IF Refuses(s, c) THEN s.keys ELSE (s.keys \ (IF c.how = "copy" THEN {} ELSE c.from)) \cup c.give
      BY <1>1, ObeysKeys
    <3>2. About(c) = c.from \cup c.give
      BY <1>1, Parts
    <3> QED BY <3>1, <3>2
  <2>2. d.part = "keys" => \A k \in About(d) : k \notin About(c)
    BY <1>1 DEF Clash
  <2> QED BY <2>1, <2>2 DEF SameFor, SameRow
<1>2. CASE c.part = "policy"
  <2>1. d.part # "policy"
    BY <1>2, Parts DEF Clash
  <2> QED BY <1>2, <2>1, ObeysPolicy DEF SameFor, SameRow
<1>3. CASE c.part = "rows"
  <2>1. d.part = "rows" => d.row # c.row
    BY <1>3, Parts DEF Clash
  <2>2. CASE Refuses(s, c)
    BY <2>2 DEF Obeys, SameFor, SameRow
  <2>3. CASE ~Refuses(s, c)
    <3>1. \A r : r # c.row => SameRow(s, Obeys(s, c), r)
      BY <1>3, <2>3, RowsChange
    <3>2. Obeys(s, c).keys = s.keys /\ Obeys(s, c).document = s.document
      BY <1>3, ObeysRow
    <3> QED BY <2>1, <3>1, <3>2 DEF SameFor
  <2> QED BY <2>2, <2>3
<1> QED BY <1>1, <1>2, <1>3, Parts

\* Clashes, and being the same, go both ways.
LEMMA ClashesAreMutual ==
  ASSUME NEW c, NEW d
  PROVE  Clash(c, d) <=> Clash(d, c)
BY DEF Clash

LEMMA SameGoesOn ==
  ASSUME NEW s, NEW u, NEW v, NEW d
  PROVE  /\ SameFor(s, s, d)
         /\ SameFor(s, u, d) => SameFor(u, s, d)
         /\ SameFor(s, u, d) /\ SameFor(u, v, d) => SameFor(s, v, d)
BY DEF SameFor, SameRow

\* The same for a call is the same for each thing it is about.
LEMMA SameForThings ==
  ASSUME NEW s, NEW u, NEW c, IsCall(c)
  PROVE  /\ \A d : IsProbe(d) /\ Clash(c, d) /\ SameFor(s, u, c) => SameFor(s, u, d)
         /\ (\A d : IsProbe(d) /\ Clash(c, d) => SameFor(s, u, d)) => SameFor(s, u, c)
<1>1. ASSUME NEW d, IsProbe(d), Clash(c, d), SameFor(s, u, c) PROVE SameFor(s, u, d)
  <2>1. CASE \E k : d = OnKeys("put", {}, {k})
    <3>1. PICK k : d = OnKeys("put", {}, {k})
      BY <2>1
    <3>2. d.part = "keys" /\ About(d) = {k}
      BY <3>1 DEF OnKeys, About
    <3>3. c.part = "keys" /\ k \in About(c)
      BY <1>1, <3>2 DEF Clash
    <3> QED BY <1>1, <3>2, <3>3 DEF SameFor
  <2>2. CASE \E r : d = OnRow("put", r, <<>>)
    BY <1>1, <2>2 DEF OnRow, Clash, SameFor
  <2>3. CASE d = OnPolicy("")
    BY <1>1, <2>3 DEF OnPolicy, Clash, SameFor
  <2> QED BY <1>1, <2>1, <2>2, <2>3 DEF IsProbe
<1>2. ASSUME \A d : IsProbe(d) /\ Clash(c, d) => SameFor(s, u, d) PROVE SameFor(s, u, c)
  <2>1. ASSUME c.part = "keys", NEW k \in About(c) PROVE k \in s.keys <=> k \in u.keys
    <3> DEFINE d == OnKeys("put", {}, {k})
    <3>1. IsProbe(d) /\ d.part = "keys" /\ About(d) = {k}
      BY DEF IsProbe, OnKeys, About
    <3> HIDE DEF d
    <3>2. Clash(c, d)
      BY <2>1, <3>1 DEF Clash
    <3> QED BY <1>2, <3>1, <3>2 DEF SameFor
  <2>2. ASSUME c.part = "rows" PROVE SameRow(s, u, c.row)
    <3> DEFINE d == OnRow("put", c.row, <<>>)
    <3>1. IsProbe(d) /\ d.part = "rows" /\ About(d) = {"rows"} /\ d.row = c.row
      BY DEF IsProbe, OnRow, About
    <3> HIDE DEF d
    <3>2. Clash(c, d)
      BY <2>2, <3>1, Parts DEF Clash
    <3> QED BY <1>2, <3>1, <3>2 DEF SameFor
  <2>3. ASSUME c.part = "policy" PROVE s.document = u.document
    <3> DEFINE d == OnPolicy("")
    <3>1. IsProbe(d) /\ d.part = "policy" /\ About(d) = {"policy"}
      BY DEF IsProbe, OnPolicy, About
    <3> HIDE DEF d
    <3>2. Clash(c, d)
      BY <2>3, <3>1, Parts DEF Clash
    <3> QED BY <1>2, <3>1, <3>2 DEF SameFor
  <2> QED BY <2>1, <2>2, <2>3 DEF SameFor
<1> QED BY <1>1, <1>2

\* What is the same for everything is the same.
LEMMA SameForAllIsEqual ==
  ASSUME NEW s, IsServer(s), NEW u, IsServer(u), \A d : IsProbe(d) => SameFor(s, u, d)
  PROVE  s = u
<1>1. ASSUME NEW k PROVE k \in s.keys <=> k \in u.keys
  <2> DEFINE d == OnKeys("put", {}, {k})
  <2>1. IsProbe(d) /\ d.part = "keys" /\ k \in About(d)
    BY DEF IsProbe, OnKeys, About
  <2> HIDE DEF d
  <2> QED BY <2>1 DEF SameFor
<1>2. ASSUME NEW r PROVE SameRow(s, u, r)
  <2> DEFINE d == OnRow("put", r, <<>>)
  <2>1. IsProbe(d) /\ d.part = "rows" /\ d.row = r
    BY DEF IsProbe, OnRow
  <2> HIDE DEF d
  <2> QED BY <2>1 DEF SameFor
<1>3. s.document = u.document
  <2> DEFINE d == OnPolicy("")
  <2>1. IsProbe(d) /\ d.part = "policy"
    BY DEF IsProbe, OnPolicy
  <2> HIDE DEF d
  <2> QED BY <2>1 DEF SameFor
<1>4. s.keys = u.keys /\ s.gone = u.gone
  BY <1>1, <1>2 DEF SameRow
<1>5. s.rows = u.rows
  <2>1. DOMAIN s.rows = DOMAIN u.rows /\ \A r \in DOMAIN s.rows : s.rows[r] = u.rows[r]
    BY <1>2 DEF SameRow
  <2> QED BY <2>1 DEF IsServer
<1> QED BY <1>3, <1>4, <1>5 DEF IsServer

-----------------------------------------------------------------------------
(* What the handlers that wait will come to. *)

IsClick(calls) ==
    \/ Len(calls) = 1 /\ IsCall(calls[1])
    \/ Len(calls) = 2 /\ \E r, x, y : calls[1] = OnRow("change", r, x) /\ calls[2] = OnRow("change", r, y)
IsDrop(calls) == \A j \in DOMAIN calls : \E k : calls[j] = OnKeys("put", {}, {k})
IsTask(t) ==
    /\ t \in [calls : {t.calls}, n : Nat \ {0}, upload : BOOLEAN, first : {t.first}, target : {t.target}, mount : Nat,
              at : {"sent", "back"}, ok : BOOLEAN, content : {t.content}]
    /\ IsSequence(t.calls) /\ t.n =< Len(t.calls) + 1
    /\ t.upload => IsDrop(t.calls)
    /\ ~t.upload => Len(t.calls) = 0 \/ IsClick(t.calls)

\* The calls of a handler that the API has not answered yet, and what they come to.
Left(t) ==
    IF t.at = "back" /\ ~t.upload /\ ~t.ok THEN {}
    ELSE {j \in DOMAIN t.calls : j > t.n \/ (j = t.n /\ t.at = "sent")}
Outcome(s, t) == IF t.n = 1 /\ t.at = "sent" THEN Result(s, t.calls) ELSE Obeys(s, t.calls[Len(t.calls)])

Apart(s) ==
    \A i, j \in DOMAIN s : i # j => \A k \in Left(s[i]), l \in Left(s[j]) : ~Clash(s[i].calls[k], s[j].calls[l])
Comes(srv, goal, t) ==
    \A j \in Left(t) : IF t.upload THEN t.calls[j].give \subseteq goal.keys ELSE SameFor(goal, Outcome(srv, t), t.calls[j])
Touched(s, d) == \E i \in DOMAIN s : \E j \in Left(s[i]) : Clash(s[i].calls[j], d)
\* The second of two calls is about a row that is there.
Second(srv, t) ==
    ~t.upload /\ Len(t.calls) = 2 =>
        /\ (t.n = 1 /\ t.at = "back" /\ t.ok) \/ (t.n = 2 /\ t.at = "sent") => t.calls[2].row \in DOMAIN srv.rows
        /\ t.n = 2 /\ t.at = "back" => t.ok
Effects(s, srv, goal) ==
    /\ Apart(s)
    /\ \A d : IsProbe(d) /\ ~Touched(s, d) => SameFor(goal, srv, d)
    /\ \A i \in DOMAIN s : Comes(srv, goal, s[i]) /\ Second(srv, s[i])

\* The calls of a handler.
LEMMA TasksCall ==
  ASSUME NEW t, IsTask(t)
  PROVE  /\ Len(t.calls) \in Nat /\ DOMAIN t.calls = 1 .. Len(t.calls) /\ t.n \in Nat \ {0}
         /\ Left(t) \subseteq DOMAIN t.calls
         /\ \A j \in DOMAIN t.calls : IsCall(t.calls[j])
<1>1. Len(t.calls) \in Nat /\ DOMAIN t.calls = 1 .. Len(t.calls) /\ t.n \in Nat \ {0}
  BY Places DEF IsTask
<1>2. Left(t) \subseteq DOMAIN t.calls
  BY DEF Left
<1>3. ASSUME NEW j \in DOMAIN t.calls PROVE IsCall(t.calls[j])
  <2>1. CASE t.upload
    BY <2>1 DEF IsTask, IsDrop, IsCall
  <2>2. CASE ~t.upload /\ Len(t.calls) = 1 /\ IsCall(t.calls[1])
    BY <1>1, <2>2
  <2>3. CASE \E r, x, y : t.calls[1] = OnRow("change", r, x) /\ t.calls[2] = OnRow("change", r, y) /\ Len(t.calls) = 2
    BY <1>1, <2>3 DEF IsCall
  <2>4. Len(t.calls) # 0
    BY <1>1
  <2> QED BY <2>1, <2>2, <2>3, <2>4 DEF IsTask, IsClick
<1> QED BY <1>1, <1>2, <1>3

\* One that has nothing left to call may go, or come.
LEMMA EffectsWithout ==
  ASSUME NEW s, IsSequence(s), NEW i \in DOMAIN s, NEW w, Removed(s, w, i), Left(s[i]) = {},
         NEW srv, NEW goal, Effects(s, srv, goal)
  PROVE  Effects(w, srv, goal)
<1> DEFINE at(j) == IF j < i THEN j ELSE j + 1
<1>1. \A j \in DOMAIN w : at(j) \in DOMAIN s /\ w[j] = s[at(j)]
  BY RemovedLeaves DEF Removed
<1>2. \A j, k \in DOMAIN w : j # k => at(j) # at(k)
  <2>1. DOMAIN w \subseteq Int /\ i \in Int
    BY Places DEF Removed
  <2> QED BY <2>1
<1>3. \A j \in DOMAIN s : Left(s[j]) # {} => \E k \in DOMAIN w : w[k] = s[j]
  BY RemovedLeaves
<1> HIDE DEF at
<1>4. Apart(w)
  BY <1>1, <1>2 DEF Effects, Apart
<1>5. \A d : Touched(s, d) => Touched(w, d)
  BY <1>3 DEF Touched
<1> QED BY <1>1, <1>4, <1>5 DEF Effects

LEMMA EffectsWith ==
  ASSUME NEW s, IsSequence(s), NEW u, NEW w, Added(s, w, u), Left(u) = {},
         NEW srv, NEW goal, Effects(s, srv, goal), Second(srv, u)
  PROVE  Effects(w, srv, goal)
<1>1. /\ Len(s) \in Nat /\ DOMAIN s = 1 .. Len(s) /\ DOMAIN w = 1 .. Len(s) + 1
      /\ w[Len(s) + 1] = u /\ \A j \in DOMAIN s : w[j] = s[j]
  BY Places DEF Added
<1>2. \A j \in DOMAIN w : w[j] = u \/ (j \in DOMAIN s /\ w[j] = s[j])
  BY <1>1
<1>3. DOMAIN s \subseteq DOMAIN w
  BY <1>1
<1>4. Apart(w)
  BY <1>2 DEF Effects, Apart
<1>5. \A d : Touched(s, d) => Touched(w, d)
  BY <1>1, <1>3 DEF Touched
<1>6. Comes(srv, goal, u)
  BY DEF Comes
<1> QED BY <1>2, <1>4, <1>5, <1>6 DEF Effects

\* One that has as much left as before has taken nothing back.
LEMMA EffectsStay ==
  ASSUME NEW s, IsSequence(s), NEW i \in DOMAIN s, NEW u, NEW w, Replaced(s, w, i, u),
         NEW srv, NEW goal, Effects(s, srv, goal), Second(srv, u),
         u.calls = s[i].calls, u.upload = s[i].upload, Left(u) = Left(s[i]),
         Left(u) # {} /\ ~u.upload => Outcome(srv, u) = Outcome(srv, s[i])
  PROVE  Effects(w, srv, goal)
<1>1. DOMAIN w = DOMAIN s /\ w[i] = u /\ \A j \in DOMAIN s \ {i} : w[j] = s[j]
  BY DEF Replaced
<1>2. \A j \in DOMAIN s : Left(w[j]) = Left(s[j]) /\ w[j].calls = s[j].calls
  BY <1>1
<1>3. Apart(w)
  BY <1>1, <1>2 DEF Effects, Apart
<1>4. \A d : Touched(s, d) => Touched(w, d)
  BY <1>1, <1>2 DEF Touched
<1>5. Comes(srv, goal, u)
  <2>1. Comes(srv, goal, s[i])
    BY DEF Effects
  <2> QED BY <2>1 DEF Comes
<1> QED BY <1>1, <1>3, <1>4, <1>5 DEF Effects

\* Two calls of one click are about the same row.
LEMMA TwoCalls ==
  ASSUME NEW t, IsTask(t), ~t.upload, Len(t.calls) = 2
  PROVE  /\ \A s, u : SameFor(s, u, t.calls[1]) <=> SameFor(s, u, t.calls[2])
         /\ \A d : Clash(t.calls[1], d) <=> Clash(t.calls[2], d)
         /\ t.calls[1].row = t.calls[2].row
         /\ \A j \in 1 .. 2 : t.calls[j].part = "rows" /\ t.calls[j].how = "change" /\ IsCall(t.calls[j])
         /\ \A s : \A j \in 1 .. 2 : Refuses(s, t.calls[j]) <=> t.calls[2].row \notin DOMAIN s.rows
<1>1. PICK r, x, y : t.calls[1] = OnRow("change", r, x) /\ t.calls[2] = OnRow("change", r, y)
  <2>1. Len(t.calls) # 0 /\ Len(t.calls) # 1
    OBVIOUS
  <2> QED BY <2>1 DEF IsTask, IsClick
<1> DEFINE c == t.calls[1]
           e == t.calls[2]
<1>2. /\ c.part = "rows" /\ c.how = "change" /\ c.row = r /\ About(c) = {"rows"}
      /\ e.part = "rows" /\ e.how = "change" /\ e.row = r /\ About(e) = {"rows"}
  BY <1>1 DEF OnRow, About
<1>3. IsCall(c) /\ IsCall(e)
  BY <1>1 DEF IsCall
<1> HIDE DEF c, e
<1>4. \A s, u : SameFor(s, u, c) <=> SameFor(s, u, e)
  BY <1>2 DEF SameFor
<1>5. \A d : Clash(c, d) <=> Clash(e, d)
  BY <1>2 DEF Clash
<1>6. \A s : (Refuses(s, c) <=> r \notin DOMAIN s.rows) /\ (Refuses(s, e) <=> r \notin DOMAIN s.rows)
  BY <1>2 DEF Refuses
<1>7. \A j \in 1 .. 2 : j = 1 \/ j = 2
  OBVIOUS
<1> QED BY <1>2, <1>3, <1>4, <1>5, <1>6, <1>7 DEF c, e

\* Where what a handler has left to call is about is the same, it comes to the same.
LEMMA OutcomesAlike ==
  ASSUME NEW t, IsTask(t), ~t.upload, NEW s, IsServer(s), NEW u, IsServer(u), NEW j \in Left(t),
         \A k \in Left(t) : SameFor(s, u, t.calls[k])
  PROVE  SameFor(Outcome(s, t), Outcome(u, t), t.calls[j])
<1>0. /\ Len(t.calls) \in Nat /\ DOMAIN t.calls = 1 .. Len(t.calls) /\ t.n \in Nat \ {0} /\ j \in DOMAIN t.calls
      /\ \A k \in DOMAIN t.calls : IsCall(t.calls[k])
  BY TasksCall
<1>1. j > t.n \/ (j = t.n /\ t.at = "sent")
  BY DEF Left
<1>2. Len(t.calls) = 1 \/ Len(t.calls) = 2
  <2>1. Len(t.calls) # 0
    BY <1>0
  <2> QED BY <2>1 DEF IsTask, IsClick
<1>3. CASE Len(t.calls) = 1
  <2>1. j = 1 /\ t.n = 1 /\ t.at = "sent"
    BY <1>0, <1>1, <1>3
  <2>2. Outcome(s, t) = Obeys(s, t.calls[1]) /\ Outcome(u, t) = Obeys(u, t.calls[1])
    BY <1>3, <2>1 DEF Outcome, Result
  <2> QED BY <1>0, <2>1, <2>2, AlikeForAlike
<1>4. CASE Len(t.calls) = 2 /\ t.n = 1 /\ t.at = "sent"
  <2> DEFINE c == t.calls[1]
             e == t.calls[2]
  <2>1. Outcome(s, t) = Obeys(Obeys(s, c), e) /\ Outcome(u, t) = Obeys(Obeys(u, c), e)
    BY <1>4 DEF Outcome, Result
  <2>2. IsCall(c) /\ IsCall(e) /\ \A v, x : SameFor(v, x, c) <=> SameFor(v, x, e)
    <3>1. IsCall(c) /\ IsCall(e)
      BY <1>0, <1>4
    <3>2. \A v, x : SameFor(v, x, c) <=> SameFor(v, x, e)
      BY <1>4, TwoCalls
    <3> QED BY <3>1, <3>2
  <2>3. SameFor(s, u, t.calls[j]) /\ j \in {1, 2}
    BY <1>0, <1>4
  <2> HIDE DEF c, e
  <2>4. SameFor(s, u, c)
    BY <2>2, <2>3 DEF c, e
  <2>5. SameFor(Obeys(s, c), Obeys(u, c), e) /\ IsServer(Obeys(s, c)) /\ IsServer(Obeys(u, c))
    BY <2>2, <2>4, AlikeForAlike, ObeysIsServer
  <2>6. SameFor(Outcome(s, t), Outcome(u, t), e)
    BY <2>1, <2>2, <2>5, AlikeForAlike
  <2> QED BY <2>2, <2>3, <2>6 DEF c, e
<1>5. CASE Len(t.calls) = 2 /\ ~ (t.n = 1 /\ t.at = "sent")
  <2>1. j = 2
    BY <1>0, <1>1, <1>5
  <2>2. Outcome(s, t) = Obeys(s, t.calls[2]) /\ Outcome(u, t) = Obeys(u, t.calls[2])
    BY <1>5 DEF Outcome
  <2> QED BY <1>0, <2>1, <2>2, AlikeForAlike
<1> QED BY <1>2, <1>3, <1>4, <1>5

\* A call that is served has no effect on what the others will come to, and what it
\* was to come to has come.
LEMMA EffectsOfService ==
  ASSUME NEW s, IsSequence(s), \A j \in DOMAIN s : IsTask(s[j]), NEW i \in DOMAIN s,
         NEW srv, IsServer(srv), NEW goal, IsServer(goal), Effects(s, srv, goal),
         s[i].at = "sent", s[i].n =< Len(s[i].calls),
         NEW u, NEW w, Replaced(s, w, i, u),
         u = [s[i] EXCEPT !.at = "back", !.ok = ~Refuses(srv, s[i].calls[s[i].n])]
  PROVE  Effects(w, Obeys(srv, s[i].calls[s[i].n]), goal)
<1> DEFINE t == s[i]
           n == t.n
           c == t.calls[n]
           new == Obeys(srv, c)
<1>1. /\ IsTask(t) /\ Len(t.calls) \in Nat /\ DOMAIN t.calls = 1 .. Len(t.calls) /\ n \in DOMAIN t.calls /\ n \in Nat \ {0}
      /\ IsCall(c) /\ t.at = "sent"
  BY TasksCall
<1>2. /\ u.calls = t.calls /\ u.upload = t.upload /\ u.n = n /\ u.at = "back" /\ (u.ok <=> ~Refuses(srv, c))
  BY <1>1 DEF IsTask
<1>3. n \in Left(t) /\ Left(t) = {j \in DOMAIN t.calls : j >= n}
  BY <1>1 DEF Left
<1>4. Left(u) = IF ~t.upload /\ Refuses(srv, c) THEN {} ELSE {j \in DOMAIN t.calls : j > n}
  BY <1>1, <1>2 DEF Left
<1>5. Left(u) \subseteq Left(t)
  BY <1>1, <1>3, <1>4
<1>6. DOMAIN w = DOMAIN s /\ w[i] = u /\ \A j \in DOMAIN s \ {i} : w[j] = s[j]
  BY DEF Replaced
<1>7. IsServer(new)
  BY <1>1, ObeysIsServer
<1> HIDE DEF t, n, c, new
<1>8. Apart(w)
  <2>1. Apart(s)
    BY DEF Effects
  <2>2. \A j \in DOMAIN s : w[j].calls = s[j].calls /\ Left(w[j]) \subseteq Left(s[j])
    BY <1>2, <1>5, <1>6 DEF t
  <2> QED BY <1>6, <2>1, <2>2 DEF Apart
<1>9. ASSUME NEW j \in DOMAIN s \ {i}, NEW k \in Left(s[j])
      PROVE  SameFor(srv, new, s[j].calls[k]) /\ IsCall(s[j].calls[k])
  <2>1. IsCall(s[j].calls[k])
    BY TasksCall
  <2>2. ~Clash(c, s[j].calls[k])
    BY <1>3 DEF Effects, Apart, t, c
  <2> QED BY <1>1, <2>1, <2>2, OthersAreLeft DEF new
<1>10. ASSUME NEW j \in DOMAIN s \ {i} PROVE Comes(new, goal, s[j])
  <2>1. Comes(srv, goal, s[j])
    BY DEF Effects
  <2>2. CASE s[j].upload
    BY <2>1, <2>2 DEF Comes
  <2>3. CASE ~s[j].upload
    <3>1. ASSUME NEW k \in Left(s[j]) PROVE SameFor(goal, Outcome(new, s[j]), s[j].calls[k])
      <4>1. SameFor(goal, Outcome(srv, s[j]), s[j].calls[k])
        BY <2>1, <2>3 DEF Comes
      <4>2. SameFor(Outcome(srv, s[j]), Outcome(new, s[j]), s[j].calls[k])
        BY <1>7, <1>9, <2>3, OutcomesAlike
      <4> QED BY <4>1, <4>2, SameGoesOn
    <3> QED BY <2>3, <3>1 DEF Comes
  <2> QED BY <2>2, <2>3
<1>11. ASSUME NEW j \in DOMAIN s \ {i} PROVE Second(new, s[j])
  <2>1. Second(srv, s[j]) /\ IsTask(s[j])
    BY DEF Effects
  <2>2. ASSUME ~s[j].upload, Len(s[j].calls) = 2,
               (s[j].n = 1 /\ s[j].at = "back" /\ s[j].ok) \/ (s[j].n = 2 /\ s[j].at = "sent")
        PROVE  s[j].calls[2].row \in DOMAIN new.rows
    <3>1. 2 \in Left(s[j])
      <4>1. 2 \in DOMAIN s[j].calls
        BY <2>1, <2>2, TasksCall
      <4> QED BY <2>2, <4>1 DEF Left
    <3>2. SameFor(srv, new, s[j].calls[2]) /\ s[j].calls[2].part = "rows"
      <4>1. 2 \in 1 .. 2
        OBVIOUS
      <4> QED BY <1>9, <2>1, <2>2, <3>1, <4>1, TwoCalls
    <3> QED BY <2>1, <2>2, <3>2 DEF Second, SameFor, SameRow
  <2> QED BY <2>1, <2>2 DEF Second
<1>12. CASE t.upload
  <2>1. Comes(new, goal, u) /\ Second(new, u)
    <3>1. Comes(srv, goal, t)
      BY DEF Effects, t
    <3> QED BY <1>2, <1>5, <1>12, <3>1 DEF Comes, Second
  <2>2. ASSUME NEW d, IsProbe(d), ~Touched(w, d) PROVE SameFor(goal, new, d)
    <3>1. CASE Clash(c, d)
      <4>1. PICK k : c = OnKeys("put", {}, {k})
        BY <1>1, <1>12 DEF IsTask, IsDrop, c
      <4>2. c.part = "keys" /\ c.how = "put" /\ c.from = {} /\ c.give = {k} /\ About(c) = {k}
        BY <4>1 DEF OnKeys, About
      <4>3. k \in goal.keys
        BY <1>3, <1>12, <4>2 DEF Effects, Comes, t, c
      <4>4. k \in new.keys
        <5>1. ~Refuses(srv, c)
          BY <4>2 DEF Refuses
        <5> QED BY <1>1, <4>2, <5>1, ObeysKeys, ZenonT(60) DEF new
      <4>5. SameFor(goal, new, c)
        BY <4>2, <4>3, <4>4 DEF SameFor
      <4> QED BY <1>1, <2>2, <3>1, <4>5, SameForThings
    <3>2. CASE ~Clash(c, d)
      <4>1. ~Touched(s, d)
        <5> SUFFICES ASSUME NEW j \in DOMAIN s, NEW k \in Left(s[j]), Clash(s[j].calls[k], d) PROVE FALSE
          BY DEF Touched
        <5>1. CASE j # i
          BY <1>6, <2>2, <5>1 DEF Touched
        <5>2. CASE j = i
          <6>1. k # n
            BY <3>2, <5>2 DEF c, t
          <6>2. k \in Left(u)
            BY <1>1, <1>3, <1>4, <1>12, <5>2, <6>1 DEF t
          <6> QED BY <1>2, <1>6, <2>2, <5>2, <6>2 DEF Touched, t
        <5> QED BY <5>1, <5>2
      <4>2. SameFor(goal, srv, d)
        BY <2>2, <4>1 DEF Effects
      <4>3. SameFor(srv, new, d)
        BY <1>1, <2>2, <3>2, ProbesAreCalls, OthersAreLeft DEF new
      <4> QED BY <4>2, <4>3, SameGoesOn
    <3> QED BY <3>1, <3>2
  <2>3. \A j \in DOMAIN w : Comes(new, goal, w[j]) /\ Second(new, w[j])
    BY <1>6, <1>10, <1>11, <2>1
  <2>4. Effects(w, new, goal)
    BY <1>8, <2>2, <2>3 DEF Effects
  <2> QED BY <2>4 DEF new, c, t, n
<1>13. CASE ~t.upload
  <2>1. Len(t.calls) = 1 \/ Len(t.calls) = 2
    <3>1. Len(t.calls) # 0
      BY <1>1
    <3> QED BY <1>1, <1>13, <3>1 DEF IsTask, IsClick
  <2>2. \/ Len(t.calls) = 1 /\ n = 1 /\ Left(u) = {}
        \/ Len(t.calls) = 2 /\ n = 2 /\ Left(u) = {}
        \/ Len(t.calls) = 2 /\ n = 1 /\ Refuses(srv, c) /\ Left(u) = {}
        \/ Len(t.calls) = 2 /\ n = 1 /\ ~Refuses(srv, c) /\ Left(u) = {2}
    <3>1. CASE Len(t.calls) = 1
      BY <1>1, <1>4, <3>1
    <3>2. CASE Len(t.calls) = 2 /\ n = 2
      BY <1>1, <1>4, <3>2
    <3>3. CASE Len(t.calls) = 2 /\ n = 1
      BY <1>1, <1>4, <1>13, <3>3
    <3>4. Len(t.calls) = 2 => n = 1 \/ n = 2
      BY <1>1
    <3> QED BY <2>1, <3>1, <3>2, <3>3, <3>4
  <2>3. Comes(srv, goal, t) /\ Second(srv, t)
    BY DEF Effects, t
  <2>4. Left(u) = {} => SameFor(goal, new, c)
    <3>1. SameFor(goal, Outcome(srv, t), c)
      BY <1>3, <1>13, <2>3 DEF Comes, c
    <3>2. Left(u) = {} => Outcome(srv, t) = new
      <4>1. CASE Len(t.calls) = 1 /\ n = 1
        BY <1>1, <4>1 DEF Outcome, Result, new, c, n
      <4>2. CASE Len(t.calls) = 2 /\ n = 2
        BY <4>2 DEF Outcome, new, c, n
      <4>3. CASE Len(t.calls) = 2 /\ n = 1 /\ Refuses(srv, c)
        <5>1. Refuses(srv, t.calls[1]) /\ Refuses(srv, t.calls[2])
          <6>1. 1 \in 1 .. 2 /\ 2 \in 1 .. 2
            OBVIOUS
          <6> QED BY <1>1, <1>13, <4>3, <6>1, TwoCalls DEF c
        <5>2. Obeys(srv, t.calls[1]) = srv /\ Obeys(srv, t.calls[2]) = srv
          BY <5>1 DEF Obeys
        <5> QED BY <1>1, <4>3, <5>2 DEF Outcome, Result, new, c, n
      <4>4. CASE Left(u) = {2}
        BY <4>4
      <4> QED BY <2>2, <4>1, <4>2, <4>3, <4>4
    <3> QED BY <3>1, <3>2
  <2>5. Comes(new, goal, u)
    <3>1. CASE Left(u) = {}
      BY <3>1 DEF Comes
    <3>2. CASE Left(u) = {2} /\ Len(t.calls) = 2 /\ n = 1
      <4>1. Outcome(srv, t) = Obeys(Obeys(srv, t.calls[1]), t.calls[2])
        BY <1>1, <3>2 DEF Outcome, Result, n
      <4>2. Outcome(new, u) = Obeys(new, t.calls[2])
        BY <1>2, <3>2 DEF Outcome
      <4>3. Outcome(new, u) = Outcome(srv, t)
        BY <3>2, <4>1, <4>2 DEF new, c
      <4>4. SameFor(goal, Outcome(srv, t), t.calls[2])
        BY <1>5, <1>13, <2>3, <3>2 DEF Comes
      <4>5. \A j \in Left(u) : j = 2
        BY <3>2
      <4> QED BY <1>2, <1>13, <4>3, <4>4, <4>5 DEF Comes
    <3> QED BY <2>2, <3>1, <3>2
  <2>6. Second(new, u)
    <3> SUFFICES ASSUME Len(t.calls) = 2
                 PROVE  /\ n = 1 /\ ~Refuses(srv, c) => t.calls[2].row \in DOMAIN new.rows
                        /\ n = 2 => ~Refuses(srv, c)
      BY <1>2 DEF Second
    <3>1. \A j \in 1 .. 2 : t.calls[j].part = "rows" /\ t.calls[j].how = "change" /\ t.calls[j].row = t.calls[2].row
                            /\ (Refuses(srv, t.calls[j]) <=> t.calls[2].row \notin DOMAIN srv.rows)
      <4>1. \A j \in 1 .. 2 : j = 1 \/ j = 2
        OBVIOUS
      <4> QED BY <1>1, <1>13, <4>1, TwoCalls
    <3>2. n \in 1 .. 2
      BY <1>1
    <3>3. c.part = "rows" /\ c.how = "change" /\ c.row = t.calls[2].row /\ (Refuses(srv, c) <=> t.calls[2].row \notin DOMAIN srv.rows)
      BY <3>1, <3>2 DEF c
    <3>4. ~Refuses(srv, c) => t.calls[2].row \in DOMAIN new.rows
      BY <1>1, <3>3, RowsChange DEF new
    <3>5. n = 2 => ~Refuses(srv, c)
      BY <1>1, <1>13, <2>3, <3>3 DEF Second, n
    <3> QED BY <3>4, <3>5
  <2>7. ASSUME NEW d, IsProbe(d), ~Touched(w, d) PROVE SameFor(goal, new, d)
    <3>1. CASE Clash(c, d)
      <4>1. Left(u) = {}
        <5> SUFFICES ASSUME Left(u) = {2}, Len(t.calls) = 2, n = 1 PROVE FALSE
          BY <2>2
        <5>1. Clash(t.calls[2], d)
          BY <1>1, <1>13, <3>1, TwoCalls DEF c
        <5>2. i \in DOMAIN w /\ 2 \in Left(w[i]) /\ Clash(w[i].calls[2], d)
          BY <1>2, <1>6, <5>1
        <5> QED BY <2>7, <5>2 DEF Touched
      <4> QED BY <1>1, <2>4, <2>7, <3>1, <4>1, SameForThings
    <3>2. CASE ~Clash(c, d)
      <4>1. ~Touched(s, d)
        <5> SUFFICES ASSUME NEW j \in DOMAIN s, NEW k \in Left(s[j]), Clash(s[j].calls[k], d) PROVE FALSE
          BY DEF Touched
        <5>1. CASE j # i
          BY <1>6, <2>7, <5>1 DEF Touched
        <5>2. CASE j = i /\ Len(t.calls) = 1
          BY <1>1, <1>3, <3>2, <5>2 DEF t, c
        <5>3. CASE j = i /\ Len(t.calls) = 2
          <6>1. k = 1 \/ k = 2
            BY <1>1, <1>3, <5>3 DEF t
          <6>2. n = 1 \/ n = 2
            BY <1>1, <5>3
          <6>3. Clash(t.calls[k], d) <=> Clash(c, d)
            BY <1>1, <1>13, <5>3, <6>1, <6>2, TwoCalls DEF c
          <6> QED BY <3>2, <5>3, <6>3 DEF t
        <5> QED BY <2>1, <5>1, <5>2, <5>3
      <4>2. SameFor(goal, srv, d)
        BY <2>7, <4>1 DEF Effects
      <4>3. SameFor(srv, new, d)
        BY <1>1, <2>7, <3>2, ProbesAreCalls, OthersAreLeft DEF new
      <4> QED BY <4>2, <4>3, SameGoesOn
    <3> QED BY <3>1, <3>2
  <2>8. \A j \in DOMAIN w : Comes(new, goal, w[j]) /\ Second(new, w[j])
    BY <1>6, <1>10, <1>11, <2>5, <2>6
  <2>9. Effects(w, new, goal)
    BY <1>8, <2>7, <2>8 DEF Effects
  <2> QED BY <2>9 DEF new, c, t, n
<1> QED BY <1>12, <1>13

\* What clashes with a call about one thing clashes with every call about that thing.
LEMMA ProbesTellApart ==
  ASSUME NEW b, IsCall(b), NEW c, IsCall(c), ~Clash(b, c), NEW d, IsProbe(d), Clash(c, d)
  PROVE  ~Clash(b, d)
<1>1. CASE \E k : d = OnKeys("put", {}, {k})
  <2>1. PICK k : d = OnKeys("put", {}, {k})
    BY <1>1
  <2>2. d.part = "keys" /\ About(d) = {k}
    BY <2>1 DEF OnKeys, About
  <2>3. c.part = "keys" /\ k \in About(c)
    BY <2>2 DEF Clash
  <2> QED BY <2>2, <2>3 DEF Clash
<1>2. CASE \E r : d = OnRow("put", r, <<>>)
  <2>1. d.part = "rows"
    BY <1>2 DEF OnRow
  <2>2. c.part = "rows" /\ c.row = d.row /\ About(c) = {"rows"}
    BY <2>1, Parts DEF Clash
  <2> QED BY <2>1, <2>2, Parts DEF Clash
<1>3. CASE d = OnPolicy("")
  <2>1. d.part = "policy"
    BY <1>3 DEF OnPolicy
  <2>2. c.part = "policy" /\ About(c) = {"policy"}
    BY <2>1, Parts DEF Clash
  <2> QED BY <2>1, <2>2, Parts DEF Clash
<1> QED BY <1>1, <1>2, <1>3 DEF IsProbe

\* What the handlers come to when the user wants something more, that none of them
\* is about.
LEMMA EffectsOfMore ==
  ASSUME NEW s, IsSequence(s), \A j \in DOMAIN s : IsTask(s[j]),
         NEW u, IsTask(u), u.n = 1, u.at = "sent", NEW w, Added(s, w, u),
         NEW srv, IsServer(srv), NEW goal, IsServer(goal), Effects(s, srv, goal),
         \A i \in DOMAIN s, k \in DOMAIN u.calls : \A j \in Left(s[i]) : ~Clash(s[i].calls[j], u.calls[k]),
         NEW new, Comes(srv, new, u),
         \A d : IsCall(d) /\ (\A k \in DOMAIN u.calls : ~Clash(u.calls[k], d)) => SameFor(goal, new, d)
  PROVE  Effects(w, srv, new)
<1>1. /\ Len(s) \in Nat /\ DOMAIN s = 1 .. Len(s) /\ DOMAIN w = 1 .. Len(s) + 1
      /\ w[Len(s) + 1] = u /\ \A j \in DOMAIN s : w[j] = s[j]
  BY Places DEF Added
<1>2. DOMAIN s \subseteq DOMAIN w /\ Len(s) + 1 \in DOMAIN w
      /\ \A j \in DOMAIN w : (w[j] = u /\ j = Len(s) + 1) \/ (j \in DOMAIN s /\ w[j] = s[j])
  BY <1>1
<1>3. Left(u) = DOMAIN u.calls
  <2>1. Len(u.calls) \in Nat /\ DOMAIN u.calls = 1 .. Len(u.calls)
    BY TasksCall
  <2> QED BY <2>1 DEF Left
<1>4. Apart(w)
  <2> SUFFICES ASSUME NEW i \in DOMAIN w, NEW j \in DOMAIN w, i # j, NEW k \in Left(w[i]), NEW l \in Left(w[j])
               PROVE  ~Clash(w[i].calls[k], w[j].calls[l])
    BY DEF Apart
  <2>1. CASE i \in DOMAIN s /\ j \in DOMAIN s /\ w[i] = s[i] /\ w[j] = s[j]
    BY <2>1 DEF Effects, Apart
  <2>2. CASE w[i] = u /\ j \in DOMAIN s /\ w[j] = s[j]
    BY <1>3, <2>2, ClashesAreMutual
  <2>3. CASE w[j] = u /\ i \in DOMAIN s /\ w[i] = s[i]
    BY <1>3, <2>3
  <2> QED BY <1>2, <2>1, <2>2, <2>3
<1>5. ASSUME NEW j \in DOMAIN s PROVE Comes(srv, new, s[j]) /\ Second(srv, s[j])
  <2>1. Comes(srv, goal, s[j]) /\ Second(srv, s[j]) /\ IsTask(s[j])
    BY DEF Effects
  <2>2. ASSUME NEW k \in Left(s[j]) PROVE SameFor(goal, new, s[j].calls[k])
    <3>1. IsCall(s[j].calls[k])
      BY <2>1, TasksCall
    <3>2. \A l \in DOMAIN u.calls : ~Clash(u.calls[l], s[j].calls[k])
      BY ClashesAreMutual
    <3> QED BY <3>1, <3>2
  <2>3. ASSUME NEW k \in Left(s[j])
        PROVE  IF s[j].upload THEN s[j].calls[k].give \subseteq new.keys ELSE SameFor(new, Outcome(srv, s[j]), s[j].calls[k])
    <3>1. CASE s[j].upload
      <4>1. PICK x : s[j].calls[k] = OnKeys("put", {}, {x})
        BY <2>1, <3>1, TasksCall DEF IsTask, IsDrop
      <4>2. s[j].calls[k].part = "keys" /\ s[j].calls[k].give = {x} /\ About(s[j].calls[k]) = {x}
        BY <4>1 DEF OnKeys, About
      <4>3. x \in goal.keys
        BY <2>1, <3>1, <4>2 DEF Comes
      <4> QED BY <2>2, <3>1, <4>2, <4>3 DEF SameFor
    <3>2. CASE ~s[j].upload
      <4>1. SameFor(goal, Outcome(srv, s[j]), s[j].calls[k])
        BY <2>1, <3>2 DEF Comes
      <4> QED BY <2>2, <3>2, <4>1, SameGoesOn
    <3> QED BY <3>1, <3>2
  <2> QED BY <2>1, <2>3 DEF Comes
<1>6. Second(srv, u)
  BY DEF Second
<1>7. ASSUME NEW d, IsProbe(d), ~Touched(w, d) PROVE SameFor(new, srv, d)
  <2>1. ~Touched(s, d)
    BY <1>1, <1>2, <1>7 DEF Touched
  <2>2. \A k \in DOMAIN u.calls : ~Clash(u.calls[k], d)
    BY <1>1, <1>2, <1>3, <1>7 DEF Touched
  <2>3. SameFor(goal, srv, d) /\ SameFor(goal, new, d)
    BY <1>7, <2>1, <2>2, ProbesAreCalls DEF Effects
  <2> QED BY <2>3, SameGoesOn
<1>8. \A j \in DOMAIN w : Comes(srv, new, w[j]) /\ Second(srv, w[j])
  BY <1>2, <1>5, <1>6
<1> QED BY <1>4, <1>7, <1>8 DEF Effects

LEMMA EffectsOfClick ==
  ASSUME NEW s, IsSequence(s), \A j \in DOMAIN s : IsTask(s[j]),
         NEW u, IsTask(u), u.n = 1, u.at = "sent", ~u.upload, IsClick(u.calls), NEW w, Added(s, w, u),
         NEW srv, IsServer(srv), NEW goal, IsServer(goal), Effects(s, srv, goal),
         \A i \in DOMAIN s, k \in DOMAIN u.calls : \A j \in Left(s[i]) : ~Clash(s[i].calls[j], u.calls[k])
  PROVE  Effects(w, srv, Result(goal, u.calls))
<1> DEFINE new == Result(goal, u.calls)
<1>1. /\ Len(u.calls) \in Nat /\ DOMAIN u.calls = 1 .. Len(u.calls) /\ Left(u) = DOMAIN u.calls
      /\ \A k \in DOMAIN u.calls : IsCall(u.calls[k])
  <2>1. Len(u.calls) \in Nat /\ DOMAIN u.calls = 1 .. Len(u.calls) /\ \A k \in DOMAIN u.calls : IsCall(u.calls[k])
    BY TasksCall
  <2> QED BY <2>1 DEF Left
<1>2. ASSUME NEW d, IsCall(d), \A k \in DOMAIN u.calls : ~Clash(u.calls[k], d) PROVE SameFor(goal, new, d)
  <2>1. CASE Len(u.calls) = 1
    <3>1. 1 \in DOMAIN u.calls /\ new = Obeys(goal, u.calls[1])
      BY <1>1, <2>1 DEF Result
    <3> QED BY <1>1, <1>2, <3>1, OthersAreLeft
  <2>2. CASE Len(u.calls) = 2
    <3> DEFINE mid == Obeys(goal, u.calls[1])
    <3>1. 1 \in DOMAIN u.calls /\ 2 \in DOMAIN u.calls /\ new = Obeys(mid, u.calls[2])
      BY <1>1, <2>2 DEF Result
    <3>2. SameFor(goal, mid, d) /\ IsServer(mid)
      BY <1>1, <1>2, <3>1, OthersAreLeft, ObeysIsServer
    <3> HIDE DEF mid
    <3>3. SameFor(mid, new, d)
      BY <1>1, <1>2, <3>1, <3>2, OthersAreLeft
    <3> QED BY <3>2, <3>3, SameGoesOn
  <2> QED BY <2>1, <2>2 DEF IsClick
<1>3. ASSUME NEW k \in Left(u) PROVE SameFor(goal, srv, u.calls[k])
  <2>1. ASSUME NEW d, IsProbe(d), Clash(u.calls[k], d) PROVE SameFor(goal, srv, d)
    <3>1. ASSUME NEW i \in DOMAIN s, NEW j \in Left(s[i]) PROVE ~Clash(s[i].calls[j], d)
      <4>1. IsCall(s[i].calls[j])
        BY TasksCall
      <4> QED BY <1>1, <1>3, <2>1, <4>1, ProbesTellApart
    <3> QED BY <2>1, <3>1 DEF Effects, Touched
  <2>2. IsCall(u.calls[k])
    BY <1>1, <1>3
  <2> QED BY <2>1, <2>2, SameForThings
<1>4. Comes(srv, new, u)
  <2>1. Outcome(goal, u) = new
    BY DEF Outcome
  <2>2. \A j \in Left(u) : SameFor(Outcome(goal, u), Outcome(srv, u), u.calls[j])
    BY <1>3, OutcomesAlike
  <2> QED BY <2>1, <2>2 DEF Comes
<1> HIDE DEF new
<1>5. Effects(w, srv, new)
  BY <1>2, <1>4, EffectsOfMore
<1> QED BY <1>5 DEF new

LEMMA ResultIsServer ==
  ASSUME NEW s, IsServer(s), NEW calls, IsClick(calls)
  PROVE  IsServer(Result(s, calls))
<1>1. CASE Len(calls) = 1 /\ IsCall(calls[1])
  BY <1>1, ObeysIsServer DEF Result
<1>2. CASE Len(calls) = 2 /\ \E r, x, y : calls[1] = OnRow("change", r, x) /\ calls[2] = OnRow("change", r, y)
  <2>1. IsCall(calls[1]) /\ IsCall(calls[2])
    BY <1>2 DEF IsCall
  <2>2. IsServer(Obeys(s, calls[1]))
    BY <2>1, ObeysIsServer
  <2> QED BY <1>2, <2>1, <2>2, ObeysIsServer DEF Result
<1> QED BY <1>1, <1>2 DEF IsClick

\* What is sent for the files of a drop, and what they come to.
Puts(files) == [i \in DOMAIN files |-> OnKeys("put", {}, {files[i]})]
Wants(goal, files) == [goal EXCEPT !.keys = @ \cup {files[i] : i \in DOMAIN files}]

LEMMA EffectsOfDrop ==
  ASSUME NEW s, IsSequence(s), \A j \in DOMAIN s : IsTask(s[j]),
         NEW files,
         NEW u, IsTask(u), u.n = 1, u.at = "sent", u.upload, u.calls = Puts(files),
         NEW w, Added(s, w, u),
         NEW srv, IsServer(srv), NEW goal, IsServer(goal), Effects(s, srv, goal),
         \A i \in DOMAIN s, k \in DOMAIN u.calls : \A j \in Left(s[i]) : ~Clash(s[i].calls[j], u.calls[k])
  PROVE  Effects(w, srv, Wants(goal, files))
<1> DEFINE new == Wants(goal, files)
<1>1. /\ new.keys = goal.keys \cup {files[i] : i \in DOMAIN files}
      /\ new.rows = goal.rows /\ new.gone = goal.gone /\ new.document = goal.document
  BY DEF Wants, IsServer
<1> HIDE DEF new
<1>2. /\ DOMAIN u.calls = DOMAIN files
      /\ \A k \in DOMAIN files : /\ u.calls[k].part = "keys" /\ u.calls[k].give = {files[k]}
                                 /\ About(u.calls[k]) = {files[k]}
  BY DEF Puts, OnKeys, About
<1>3. Comes(srv, new, u)
  <2>1. \A j \in Left(u) : j \in DOMAIN files
    BY <1>2, TasksCall
  <2> QED BY <1>1, <1>2, <2>1 DEF Comes
<1>4. ASSUME NEW d, IsCall(d), \A k \in DOMAIN u.calls : ~Clash(u.calls[k], d) PROVE SameFor(goal, new, d)
  <2>1. ASSUME d.part = "keys", NEW x \in About(d) PROVE x \notin {files[i] : i \in DOMAIN files}
    <3> SUFFICES ASSUME NEW i \in DOMAIN files, x = files[i] PROVE FALSE
      OBVIOUS
    <3>1. Clash(u.calls[i], d)
      BY <1>2, <2>1 DEF Clash
    <3> QED BY <1>2, <1>4, <3>1
  <2> QED BY <1>1, <2>1 DEF SameFor, SameRow
<1>5. Effects(w, srv, new)
  BY <1>3, <1>4, EffectsOfMore
<1> QED BY <1>5 DEF new

-----------------------------------------------------------------------------
(* The pages of a listing. *)

LEMMA LeastNumber ==
  ASSUME NEW T \in SUBSET Nat, T # {}
  PROVE  \E x \in T : \A y \in T : x =< y
<1>1. PICK x \in T : \A y \in T : ~ (<<y, x>> \in OpToRel(<, Nat))
  BY NatLessThanWellFounded, WFMin
<1>2. \A y \in T : ~ (y < x)
  BY <1>1 DEF OpToRel
<1> QED BY <1>2

LEMMA GreatestNumber ==
  ASSUME NEW n \in Nat, NEW T \in SUBSET (0 .. n), T # {}
  PROVE  \E x \in T : \A y \in T : y =< x
<1> DEFINE R == {n - y : y \in T}
<1>1. R \in SUBSET Nat /\ R # {}
  <2>1. \A y \in T : n - y \in Nat
    OBVIOUS
  <2>2. PICK y \in T : TRUE
    OBVIOUS
  <2>3. n - y \in R
    OBVIOUS
  <2> QED BY <2>1, <2>3
<1> HIDE DEF R
<1>2. PICK z \in R : \A y \in R : z =< y
  BY <1>1, LeastNumber
<1>3. PICK x \in T : z = n - x
  BY <1>2 DEF R
<1>4. ASSUME NEW y \in T PROVE y =< x
  <2>1. n - y \in R
    BY DEF R
  <2>2. z =< n - y
    BY <1>2, <2>1
  <2> QED BY <1>3, <2>2
<1> QED BY <1>4

\* The row of a folder has the number of its last key.
LEMMA RowsAreKeys ==
  ASSUME NEW folder \in {"root", "folder"}, NEW keys
  PROVE  RowsOf(folder, keys) \in SUBSET (1 .. LastKey)
<1>1. LastKey \in Nat /\ Inside # {}
  BY ConsoleAssumption
<1>2. PICK a \in 1 .. LastKey, b \in 1 .. LastKey : Inside = a .. b
  BY ConsoleAssumption
<1> DEFINE last == CHOOSE j \in Inside : \A i \in Inside : i <= j
<1>3. b \in Inside /\ \A i \in Inside : i <= b
  BY <1>1, <1>2
<1>4. last \in Inside
  BY <1>3
<1>5. last \in 1 .. LastKey /\ Inside \subseteq 1 .. LastKey
  BY <1>1, <1>2, <1>4
<1> HIDE DEF last
<1>6. RowsOf(folder, keys) = {IF folder = "root" /\ k \in Inside THEN last ELSE k :
                                  k \in keys \cap (IF folder = "root" THEN 1 .. LastKey ELSE Inside)}
  BY DEF RowsOf, last
<1> QED BY <1>5, <1>6

\* What follows a page is after all that came before.
LEMMA PagesLeadOn ==
  ASSUME NEW folder \in {"root", "folder"}, NEW token \in Nat, NEW keys
  PROVE  LET next == PageAt(folder, token, keys).next IN next \in Nat /\ (next # 0 => token < next)
<1> DEFINE rest == {r \in RowsOf(folder, keys) : r > token}
           page == {r \in rest : Cardinality({q \in rest : q <= r}) <= PageSize}
           next == IF page = rest THEN 0 ELSE CHOOSE r \in page : \A q \in page : q <= r
<1>1. PageAt(folder, token, keys).next = next
  BY DEF PageAt
<1>2. LastKey \in Nat /\ PageSize \in Nat /\ PageSize >= 1
  BY ConsoleAssumption
<1>3. rest \subseteq 1 .. LastKey /\ \A r \in rest : r > token
  BY RowsAreKeys
<1>4. ASSUME page # rest PROVE page # {}
  <2>1. rest \in SUBSET Nat /\ rest # {}
    BY <1>2, <1>3, <1>4
  <2> HIDE DEF rest
  <2>2. PICK m \in rest : \A q \in rest : m =< q
    BY <2>1, LeastNumber
  <2>3. {q \in rest : q <= m} = {m}
    <3>1. \A q \in rest : q <= m <=> q = m
      BY <2>1, <2>2
    <3> QED BY <2>2, <3>1
  <2>4. Cardinality({q \in rest : q <= m}) = 1
    BY <2>3, FS_Singleton
  <2> QED BY <1>2, <2>2, <2>4
<1> HIDE DEF rest
<1>5. page \subseteq rest
  OBVIOUS
<1> HIDE DEF page
<1>6. ASSUME page # rest PROVE next \in rest
  <2>1. page \in SUBSET (0 .. LastKey) /\ page # {}
    BY <1>2, <1>3, <1>4, <1>5, <1>6
  <2>2. \E r \in page : \A q \in page : q <= r
    BY <1>2, <2>1, GreatestNumber
  <2> QED BY <1>5, <1>6, <2>2
<1>7. CASE page = rest
  BY <1>1, <1>7
<1>8. CASE page # rest
  <2>1. next \in 1 .. LastKey /\ next > token
    BY <1>3, <1>6, <1>8
  <2> HIDE DEF next
  <2> QED BY <1>1, <1>2, <2>1
<1> QED BY <1>7, <1>8

-----------------------------------------------------------------------------
(* Types. *)

IsPlace(p) == /\ p \in [screen : Tables \cup {"files", "policy"}, folder : {"root", "folder"}, tokens : Seq(Nat), page : Nat]
              /\ p.page \in 1 .. Len(p.tokens)
IsScreen(c) == /\ c \in [listing : {c.listing}, rows : {c.rows}, users : {c.users}, text : {c.text}, saved : {c.saved},
                         loading : BOOLEAN, typed : BOOLEAN]
               /\ c.listing.next \in Nat
IsTarget(a) == a \in [screen : Tables \cup {"files", "policy"}, folder : {"root", "folder"}, token : Nat]
Handles(t, m) ==
    /\ IsTask(t) /\ t.mount =< m /\ IsTarget(t.target) /\ IsScreen(t.content)
    /\ Loading(t) /\ t.at = "back" /\ t.ok => ~t.content.loading /\ ~t.content.typed
ConsoleTypes ==
    /\ \E i \in DOMAIN ConsoleStarts : tour = ConsoleStarts[i]
    /\ IsServer(server) /\ IsServer(meant)
    /\ IsPlace(place) /\ mount \in Nat /\ past \in Seq(Url) /\ IsScreen(shown)
    /\ panel = [queue |-> panel.queue, uploading |-> panel.uploading] /\ panel.uploading \in BOOLEAN
    /\ losses \in Nat /\ rash \in BOOLEAN /\ lost \in BOOLEAN
    /\ IsSequence(tasks) /\ \A i \in DOMAIN tasks : Handles(tasks[i], mount)

LEMMA AnswersAreScreens ==
  ASSUME NEW target, IsTarget(target), NEW s
  PROVE  IsScreen(Answer(target, s)) /\ ~Answer(target, s).loading /\ ~Answer(target, s).typed
<1>1. PageAt(target.folder, target.token, s.keys).next \in Nat
  BY PagesLeadOn DEF IsTarget
<1> QED BY <1>1 DEF Answer, IsScreen, NoPage

LEMMA BlankIsScreen == IsScreen(Blank) /\ Blank.loading
BY DEF Blank, IsScreen, NoPage

LEMMA TargetsAre ==
  ASSUME NEW p, IsPlace(p)
  PROVE  IsTarget(Target(p))
<1>1. p.tokens[p.page] \in Nat
  BY DEF IsPlace
<1> QED BY <1>1 DEF Target, IsTarget, IsPlace

LEMMA FirstPagesAre ==
  ASSUME NEW url \in Url
  PROVE  IsPlace(FirstPage(url))
<1>1. <<0>> \in Seq(Nat) /\ Len(<<0>>) = 1
  OBVIOUS
<1> QED BY <1>1 DEF FirstPage, IsPlace, Url

\* A handler that has just been started.
LEMMA TasksAre ==
  ASSUME NEW calls, IsSequence(calls), NEW upload \in BOOLEAN, NEW first, NEW p, IsPlace(p), NEW m \in Nat,
         IF upload THEN IsDrop(calls) ELSE Len(calls) = 0 \/ IsClick(calls)
  PROVE  Handles(Task(calls, upload, first, p, m), m)
<1> DEFINE t == Task(calls, upload, first, p, m)
<1>1. t = [calls |-> calls, n |-> 1, upload |-> upload, first |-> first, target |-> Target(p), mount |-> m,
           at |-> "sent", ok |-> TRUE, content |-> Blank]
  BY DEF Task
<1>2. Len(calls) \in Nat
  BY Places
<1>3. 1 \in Nat \ {0} /\ 1 =< Len(calls) + 1
  BY <1>2
<1>4. IsTarget(Target(p)) /\ IsScreen(Blank)
  BY TargetsAre, BlankIsScreen
<1> HIDE DEF t
<1>5. IsTask(t) /\ t.mount =< m
  BY <1>1, <1>3 DEF IsTask
<1> QED BY <1>1, <1>4, <1>5 DEF Handles, t

LEMMA LoadsAre ==
  ASSUME NEW p, IsPlace(p), NEW m \in Nat
  PROVE  LET t == Loads(p, m) IN
         /\ Handles(t, m) /\ t.calls = <<>> /\ Loading(t) /\ t.at = "sent" /\ ~t.upload
         /\ t.mount = m /\ t.target = Target(p) /\ Left(t) = {}
<1>1. <<>> \in Seq({}) /\ Len(<<>>) = 0 /\ DOMAIN <<>> = {}
  OBVIOUS
<1>2. IsSequence(<<>>)
  BY <1>1, SequencesAre
<1>3. Handles(Loads(p, m), m)
  BY <1>1, <1>2, TasksAre DEF Loads
<1> QED BY <1>1, <1>3 DEF Loads, Task, Loading, Left

-----------------------------------------------------------------------------
(* What a click does. *)

\* The calls of a click; most are not about keys.
Clicked(calls, parts) == IsSequence(calls) /\ IsClick(calls) /\ \A j \in DOMAIN calls : calls[j].part \in parts

LEMMA OneCall ==
  ASSUME NEW c, IsCall(c), NEW parts, c.part \in parts
  PROVE  Clicked(<<c>>, parts)
<1>1. <<c>> \in Seq({c}) /\ Len(<<c>>) = 1 /\ DOMAIN <<c>> = {1} /\ <<c>>[1] = c
  OBVIOUS
<1>2. IsSequence(<<c>>)
  BY <1>1, SequencesAre
<1> QED BY <1>1, <1>2 DEF Clicked, IsClick

LEMMA RowCall ==
  ASSUME NEW how \in {"change", "delete", "create", "put", "remove"}, NEW r, NEW to
  PROVE  Clicked(<<OnRow(how, r, to)>>, {"rows"})
<1>1. IsCall(OnRow(how, r, to)) /\ OnRow(how, r, to).part = "rows"
  BY DEF IsCall, OnRow
<1> QED BY <1>1, OneCall

LEMMA TwoRowCalls ==
  ASSUME NEW r, NEW x, NEW y
  PROVE  Clicked(<<OnRow("change", r, x), OnRow("change", r, y)>>, {"rows"})
<1> DEFINE c == OnRow("change", r, x)
           e == OnRow("change", r, y)
           calls == <<c, e>>
<1>1. c.part = "rows" /\ e.part = "rows"
  BY DEF OnRow
<1>2. calls \in Seq({c, e}) /\ Len(calls) = 2 /\ DOMAIN calls = {1, 2} /\ calls[1] = c /\ calls[2] = e
  <2> HIDE DEF c, e
  <2> QED OBVIOUS
<1> HIDE DEF calls
<1>3. IsSequence(calls)
  BY <1>2, SequencesAre
<1>4. IsClick(calls)
  BY <1>2 DEF IsClick
<1>5. Clicked(calls, {"rows"})
  BY <1>1, <1>2, <1>3, <1>4 DEF Clicked
<1> QED BY <1>5 DEF calls

LEMMA TogglesAreClicks == \A r : \A calls \in Toggles(r) : Clicked(calls, {"rows"})
BY RowCall DEF Toggles
LEMMA DeletesAreClicks == \A r : \A calls \in Deletes(r) : Clicked(calls, {"rows"})
BY RowCall DEF Deletes
LEMMA CreatesAreClicks == \A row : \A calls \in Creates(row) : Clicked(calls, {"rows"})
BY RowCall DEF Creates
LEMMA GrantsAreClicks == \A r, Q : \A calls \in Grants(r, Q) : Clicked(calls, {"rows"})
BY RowCall DEF Grants

\* Every table's calls are about its rows.
LEMMA TablesCall ==
  \A calls : calls \in AccessCalls \cup UsersCalls \cup KeysCalls \cup BucketsCalls \cup VersionsCalls \cup SettingsCalls
               => Clicked(calls, {"rows"})
<1>1. \A calls \in AccessCalls : Clicked(calls, {"rows"})
  <2> SUFFICES ASSUME NEW calls \in AccessCalls PROVE \E r, Q : calls \in Grants(r, Q)
    BY GrantsAreClicks
  <2> DEFINE old(r) == shown.rows[r].permissions
             sets(r) == {{}} \cup {old(r) \ {p} : p \in old(r)} \cup {old(r) \cup {p} : p \in Permissions \ old(r)}
             some(r) == UNION {Grants(r, Q) : Q \in sets(r)}
             first == {some(r) : r \in Visible}
             second == {Grants(r, {"read"}) : r \in shown.users \ DOMAIN shown.rows}
  <2>1. calls \in UNION first \/ calls \in UNION second
    <3>1. AccessCalls = (UNION first) \cup (UNION second)
      BY DEF AccessCalls
    <3> HIDE DEF first, second
    <3> QED BY <3>1
  <2> HIDE DEF sets
  <2>2. \A r : calls \in some(r) => \E Q : calls \in Grants(r, Q)
    OBVIOUS
  <2> HIDE DEF some
  <2>3. CASE calls \in UNION first
    BY <2>2, <2>3
  <2>4. CASE calls \in UNION second
    BY <2>4
  <2> HIDE DEF first, second
  <2> QED BY <2>1, <2>3, <2>4
<1>2. \A calls \in UsersCalls : Clicked(calls, {"rows"})
  <2> SUFFICES ASSUME NEW calls \in UsersCalls PROVE Clicked(calls, {"rows"})
    OBVIOUS
  <2> DEFINE edits == {<<OnRow("change", r, [role |-> role]), OnRow("change", r, [quota |-> quota])>> :
                           r \in DOMAIN shown.rows, role \in {"user", "admin"}, quota \in {1}}
             row == [active |-> TRUE, role |-> "user", quota |-> 0]
             first == {Toggles(r) \cup Deletes(r) : r \in Visible}
  <2>1. calls \in UNION first \/ calls \in edits \/ calls \in Creates(row)
    <3>1. UsersCalls = (UNION first) \cup edits \cup Creates(row)
      BY DEF UsersCalls
    <3> HIDE DEF first, edits, row
    <3> QED BY <3>1
  <2>2. CASE calls \in UNION first
    BY <2>2, TogglesAreClicks, DeletesAreClicks
  <2>3. CASE calls \in edits
    BY <2>3, TwoRowCalls
  <2>4. CASE calls \in Creates(row)
    <3> HIDE DEF row
    <3> QED BY <2>4, CreatesAreClicks
  <2> QED BY <2>1, <2>2, <2>3, <2>4
<1>3. \A calls \in KeysCalls : Clicked(calls, {"rows"})
  <2> DEFINE row == [active |-> TRUE]
             first == {Toggles(r) \cup Deletes(r) : r \in Visible}
  <2>1. KeysCalls = (UNION first) \cup Creates(row)
    BY DEF KeysCalls
  <2>2. \A calls \in UNION first : Clicked(calls, {"rows"})
    BY TogglesAreClicks, DeletesAreClicks
  <2> HIDE DEF row, first
  <2> QED BY <2>1, <2>2, CreatesAreClicks
<1>4. \A calls \in BucketsCalls : Clicked(calls, {"rows"})
  <2> DEFINE row == [objects |-> 0]
             first == {Deletes(r) : r \in Visible}
  <2>1. BucketsCalls = (UNION first) \cup Creates(row)
    BY DEF BucketsCalls
  <2>2. \A calls \in UNION first : Clicked(calls, {"rows"})
    BY DeletesAreClicks
  <2> HIDE DEF row, first
  <2> QED BY <2>1, <2>2, CreatesAreClicks
<1>5. \A calls \in VersionsCalls : Clicked(calls, {"rows"})
  BY DeletesAreClicks DEF VersionsCalls
<1>6. \A calls \in SettingsCalls : Clicked(calls, {"rows"})
  <2> SUFFICES ASSUME NEW calls \in SettingsCalls PROVE \E r, to : calls = <<OnRow("change", r, to)>>
    BY RowCall
  <2> QED BY DEF SettingsCalls
<1> QED BY <1>1, <1>2, <1>3, <1>4, <1>5, <1>6

\* Only the file browser makes calls about keys.
LEMMA ClicksDo ==
  ASSUME RemoveRow \/ MakeFolder \/ Rename \/ Press \/ SaveText \/ RemoveText
  PROVE  \E calls : Does(calls) /\ Clicked(calls, {"rows", "policy"} \cup IF May("change") THEN {"keys"} ELSE {})
<1> DEFINE parts == {"rows", "policy"} \cup IF May("change") THEN {"keys"} ELSE {}
<1>0. \A how \in {"remove", "folder", "move", "copy", "put"} : \A from, give :
          IsCall(OnKeys(how, from, give)) /\ OnKeys(how, from, give).part = "keys"
  BY DEF IsCall, OnKeys
<1>1. CASE RemoveRow
  <2>1. May("change") /\ \E row \in shown.listing.rows : Does(<<OnKeys("remove", Behind(shown.listing.of, row), {})>>)
    BY <1>1 DEF RemoveRow, Browsing
  <2> QED BY <1>0, <2>1, OneCall
<1>2. CASE MakeFolder
  <2>1. May("change") /\ \E give : Does(<<OnKeys("folder", {}, give)>>)
    BY <1>2 DEF MakeFolder
  <2> QED BY <1>0, <2>1, OneCall
<1>3. CASE Rename
  <2>1. May("change") /\ \E from, give : \E move \in BOOLEAN : Does(<<OnKeys(IF move THEN "move" ELSE "copy", from, give)>>)
    BY <1>3 DEF Rename, Browsing
  <2> QED BY <1>0, <2>1, OneCall
<1>4. CASE Press
  <2>1. \E calls \in AccessCalls \cup UsersCalls \cup KeysCalls \cup BucketsCalls \cup VersionsCalls \cup SettingsCalls : Does(calls)
    <3> DEFINE all == AccessCalls \cup UsersCalls \cup KeysCalls \cup BucketsCalls \cup VersionsCalls \cup SettingsCalls
               these == CASE place.screen = "access" -> AccessCalls
                          [] place.screen = "users" -> UsersCalls
                          [] place.screen = "keys" -> KeysCalls
                          [] place.screen = "buckets" -> BucketsCalls
                          [] place.screen = "versions" -> VersionsCalls
                          [] OTHER -> SettingsCalls
    <3>1. \E calls \in these : Does(calls)
      BY <1>4 DEF Press
    <3>2. these \subseteq all
      OBVIOUS
    <3> HIDE DEF these, all
    <3>3. \E calls \in all : Does(calls)
      BY <3>1, <3>2
    <3> QED BY <3>3 DEF all
  <2>2. \A calls : Clicked(calls, {"rows"}) => Clicked(calls, parts)
    BY DEF Clicked
  <2> QED BY <2>1, <2>2, TablesCall
<1>5. CASE SaveText \/ RemoveText
  <2>1. PICK text : Does(<<OnPolicy(text)>>)
    BY <1>5 DEF SaveText, RemoveText
  <2>2. IsCall(OnPolicy(text)) /\ OnPolicy(text).part = "policy"
    BY DEF IsCall, OnPolicy
  <2> QED BY <2>1, <2>2, OneCall
<1> QED BY <1>1, <1>2, <1>3, <1>4, <1>5

-----------------------------------------------------------------------------
(* Where a click leads. *)

Stays == UNCHANGED <<place, mount, shown, panel, tasks, lost>>
Mounts ==
    /\ mount' = mount + 1 /\ IsPlace(place') /\ place'.tokens = <<0>> /\ shown' = Blank /\ panel' = EmptyPanel
    /\ tasks' = Append(tasks, Loads(place', mount'))
    /\ lost' \in BOOLEAN /\ (~lost' => ~Writing)
Reloads ==
    /\ UNCHANGED <<mount, panel>> /\ IsPlace(place') /\ shown' = [shown EXCEPT !.loading = TRUE]
    /\ \E s : /\ s = tasks \/ \E p : IsPlace(p) /\ s = Append(tasks, Loads(p, mount))
              /\ tasks' = Append(s, Loads(place', mount))
    /\ lost' \in BOOLEAN /\ (~lost' => ~Writing)
    /\ ~lost' =>
          \/ place'.tokens = <<0>>
          \/ /\ ~lost /\ place'.tokens = place.tokens
             /\ place'.folder = place.folder \/ Len(place.tokens) =< 1
          \/ /\ ~lost /\ ~Waiting /\ place.screen = "files" /\ place'.folder = place.folder
             /\ shown.listing.next # 0 /\ place.page = Len(place.tokens) /\ place'.tokens = Append(place.tokens, shown.listing.next)

LEMMA Arrivals ==
  ASSUME ConsoleTypes, NEW url \in Url, Arrive(url)
  PROVE  Stays \/ Mounts \/ Reloads
<1>0. IsPlace(place) /\ Len(place.tokens) \in Nat /\ lost \in BOOLEAN
  BY DEF ConsoleTypes, IsPlace
<1>1. CASE url.screen # place.screen
  <2>1. /\ place' = FirstPage(url) /\ mount' = mount + 1 /\ shown' = Blank /\ panel' = EmptyPanel
        /\ tasks' = Append(tasks, Loads(FirstPage(url), mount + 1)) /\ lost' = Writing
    BY <1>1 DEF Arrive, UrlOf
  <2>2. IsPlace(FirstPage(url)) /\ FirstPage(url).tokens = <<0>>
    BY FirstPagesAre DEF FirstPage
  <2>3. lost' \in BOOLEAN /\ (~lost' => ~Writing)
    BY <2>1 DEF Writing
  <2> QED BY <2>1, <2>2, <2>3 DEF Mounts
<1>2. CASE url.screen = place.screen /\ url.folder # place.folder
  <2>1. /\ Reload([place EXCEPT !.folder = url.folder])
        /\ lost' = (lost \/ Writing \/ Len(place.tokens) > 1)
    BY <1>2 DEF Arrive, UrlOf
  <2>2. /\ place' = [place EXCEPT !.folder = url.folder] /\ tasks' = Append(tasks, Loads(place', mount))
        /\ shown' = [shown EXCEPT !.loading = TRUE] /\ UNCHANGED <<mount, panel>>
    BY <2>1 DEF Reload
  <2>3. IsPlace(place') /\ place'.tokens = place.tokens
    BY <1>0, <2>2 DEF IsPlace, Url
  <2>4. lost' \in BOOLEAN /\ (~lost' => ~Writing /\ ~lost /\ ~ (Len(place.tokens) > 1))
    BY <1>0, <2>1 DEF Writing
  <2>5. ~ (Len(place.tokens) > 1) => Len(place.tokens) =< 1
    BY <1>0
  <2> QED BY <2>2, <2>3, <2>4, <2>5 DEF Reloads
<1>3. CASE url = UrlOf(place)
  BY <1>3 DEF Arrive, UrlOf, Stays
<1> QED BY <1>1, <1>2, <1>3 DEF Arrive

LEMMA WalksLead ==
  ASSUME ConsoleTypes,
         \/ \E screen \in Tables \cup {"files", "policy"} : SelectTab(screen)
         \/ GoBack \/ NextPage \/ PreviousPage
         \/ \E folder \in {"root", "folder"} : NavigateTo(folder)
  PROVE  UNCHANGED <<tour, server, losses, meant, rash>> /\ past' \in Seq(Url) /\ (Stays \/ Mounts \/ Reloads)
<1>0. /\ IsPlace(place) /\ place.page \in 1 .. Len(place.tokens) /\ Len(place.tokens) \in Nat /\ place.tokens \in Seq(Nat)
      /\ past \in Seq(Url) /\ shown.listing.next \in Nat /\ lost \in BOOLEAN /\ IsSequence(tasks)
  BY DEF ConsoleTypes, IsPlace, IsScreen
<1>1. UrlOf(place) \in Url
  BY <1>0 DEF UrlOf, Url, IsPlace
<1>2. Append(past, UrlOf(place)) \in Seq(Url)
  BY <1>0, <1>1
<1>3. ASSUME NEW screen \in Tables \cup {"files", "policy"}, SelectTab(screen)
      PROVE  UNCHANGED <<tour, server, losses, meant, rash>> /\ past' \in Seq(Url) /\ (Stays \/ Mounts \/ Reloads)
  <2>1. [screen |-> screen, folder |-> "root"] \in Url
    BY DEF Url
  <2>2. Arrive([screen |-> screen, folder |-> "root"]) /\ past' = Append(past, UrlOf(place))
        /\ UNCHANGED <<tour, server, losses, meant, rash>>
    BY <1>3 DEF SelectTab
  <2> QED BY <1>2, <2>1, <2>2, Arrivals
<1>4. CASE GoBack
  <2>1. past # <<>> /\ past' = SubSeq(past, 1, Len(past) - 1) /\ Arrive(past[Len(past)])
        /\ UNCHANGED <<tour, server, losses, meant, rash>>
    BY <1>4 DEF GoBack
  <2>2. past[Len(past)] \in Url /\ SubSeq(past, 1, Len(past) - 1) \in Seq(Url)
    BY <1>0, <2>1
  <2> QED BY <2>1, <2>2, Arrivals
<1>5. CASE NextPage
  <2>1. /\ place.screen = "files" /\ shown.listing.next # 0
        /\ Reload([place EXCEPT !.tokens = IF place.page < Len(@) THEN @ ELSE Append(@, shown.listing.next), !.page = @ + 1])
        /\ lost' = (lost \/ Writing \/ Waiting)
        /\ UNCHANGED <<tour, server, past, losses, meant, rash>>
    BY <1>5 DEF NextPage
  <2> DEFINE tokens == IF place.page < Len(place.tokens) THEN place.tokens ELSE Append(place.tokens, shown.listing.next)
  <2>2. /\ place' = [place EXCEPT !.tokens = tokens, !.page = place.page + 1] /\ tasks' = Append(tasks, Loads(place', mount))
        /\ shown' = [shown EXCEPT !.loading = TRUE] /\ UNCHANGED <<mount, panel>>
    BY <1>0, <2>1 DEF Reload, IsPlace
  <2>3. /\ tokens \in Seq(Nat) /\ place.page + 1 \in 1 .. Len(tokens)
        /\ tokens = place.tokens \/ (place.page = Len(place.tokens) /\ tokens = Append(place.tokens, shown.listing.next))
    <3>1. CASE place.page < Len(place.tokens)
      BY <1>0, <3>1
    <3>2. CASE ~ (place.page < Len(place.tokens))
      <4>1. place.page = Len(place.tokens)
        BY <1>0, <3>2
      <4>2. Append(place.tokens, shown.listing.next) \in Seq(Nat)
            /\ Len(Append(place.tokens, shown.listing.next)) = Len(place.tokens) + 1
        BY <1>0
      <4> QED BY <1>0, <3>2, <4>1, <4>2
    <3> QED BY <3>1, <3>2
  <2> HIDE DEF tokens
  <2>4. IsPlace(place') /\ place'.tokens = tokens /\ place'.folder = place.folder
    <3> DEFINE page == place.page + 1
    <3>1. page \in 1 .. Len(tokens) /\ page \in Nat /\ tokens \in Seq(Nat)
      BY <1>0, <2>3
    <3> HIDE DEF page
    <3>2. place' = [place EXCEPT !.tokens = tokens, !.page = page]
      BY <2>2 DEF page
    <3> QED BY <1>0, <3>1, <3>2 DEF IsPlace
  <2>5. lost' \in BOOLEAN /\ (~lost' => ~Writing /\ ~lost /\ ~Waiting)
    BY <1>0, <2>1 DEF Writing, Waiting
  <2> QED BY <1>0, <2>1, <2>2, <2>3, <2>4, <2>5 DEF Reloads
<1>6. CASE PreviousPage
  <2>1. /\ place.page > 1 /\ Reload([place EXCEPT !.page = @ - 1])
        /\ lost' = (lost \/ Writing)
        /\ UNCHANGED <<tour, server, past, losses, meant, rash>>
    BY <1>6 DEF PreviousPage
  <2>2. /\ place' = [place EXCEPT !.page = place.page - 1] /\ tasks' = Append(tasks, Loads(place', mount))
        /\ shown' = [shown EXCEPT !.loading = TRUE] /\ UNCHANGED <<mount, panel>>
    BY <1>0, <2>1 DEF Reload, IsPlace
  <2>3. place.page - 1 \in 1 .. Len(place.tokens)
    BY <1>0, <2>1
  <2>4. IsPlace(place') /\ place'.tokens = place.tokens /\ place'.folder = place.folder
    <3> DEFINE page == place.page - 1
    <3>1. page \in 1 .. Len(place.tokens) /\ page \in Nat
      BY <1>0, <2>1, <2>3
    <3> HIDE DEF page
    <3>2. place' = [place EXCEPT !.page = page]
      BY <2>2 DEF page
    <3> QED BY <1>0, <3>1, <3>2 DEF IsPlace
  <2>5. lost' \in BOOLEAN /\ (~lost' => ~Writing /\ ~lost)
    BY <1>0, <2>1 DEF Writing
  <2> QED BY <1>0, <2>1, <2>2, <2>4, <2>5 DEF Reloads
<1>7. ASSUME NEW folder \in {"root", "folder"}, NavigateTo(folder)
      PROVE  UNCHANGED <<tour, server, losses, meant, rash>> /\ past' \in Seq(Url) /\ (Stays \/ Mounts \/ Reloads)
  <2> DEFINE first == FirstPage([screen |-> "files", folder |-> folder])
             old == FirstPage(UrlOf(place))
             again == Loads(old, mount)
  <2>1. /\ past' = Append(past, UrlOf(place)) /\ place' = first
        /\ tasks' = Append(tasks, Loads(first, mount)) \/ tasks' = tasks \o <<again, Loads(first, mount)>>
        /\ shown' = [shown EXCEPT !.loading = TRUE] /\ UNCHANGED <<mount, panel>>
        /\ lost' = (Writing \/ (lost /\ tasks # <<>>))
        /\ UNCHANGED <<tour, server, losses, meant, rash>>
    BY <1>7 DEF NavigateTo
  <2>2. IsPlace(first) /\ first.tokens = <<0>> /\ IsPlace(old)
    <3>1. [screen |-> "files", folder |-> folder] \in Url
      BY DEF Url
    <3> QED BY <1>1, <3>1, FirstPagesAre DEF FirstPage
  <2>3. lost' \in BOOLEAN /\ (~lost' => ~Writing)
    BY <1>0, <2>1 DEF Writing
  <2> HIDE DEF first, old
  <2>4. tasks \o <<again, Loads(first, mount)>> = Append(Append(tasks, again), Loads(first, mount))
    <3> DEFINE b == Loads(first, mount)
               S == {tasks[i] : i \in DOMAIN tasks} \cup {again, b}
    <3>1. tasks \in Seq(S) /\ again \in S /\ b \in S
      BY <1>0, SeqMonotonic DEF IsSequence
    <3> HIDE DEF S, b, again
    <3>2. tasks \o <<again, b>> = Append(Append(tasks, again), b)
      BY <3>1
    <3> QED BY <3>2 DEF b
  <2> HIDE DEF again
  <2>5. \E s : /\ s = tasks \/ \E p : IsPlace(p) /\ s = Append(tasks, Loads(p, mount))
               /\ tasks' = Append(s, Loads(place', mount))
    BY <2>1, <2>2, <2>4 DEF again
  <2> QED BY <1>2, <2>1, <2>2, <2>3, <2>5 DEF Reloads
<1> QED BY <1>3, <1>4, <1>5, <1>6, <1>7

-----------------------------------------------------------------------------
(* What becomes of a handler that waits. *)

Good(s, m) == IsSequence(s) /\ \A i \in DOMAIN s : Handles(s[i], m)
Onward(t) == [t EXCEPT !.n = @ + 1, !.at = "sent"]
Back(t, ok) == [t EXCEPT !.at = "back", !.ok = ok]
Answered(t, content) == [t EXCEPT !.at = "back", !.ok = TRUE, !.content = content]

Answers(i) ==
    LET t == tasks[i] IN
    /\ t.at = "sent" /\ Loading(t)
    /\ Replaced(tasks, tasks', i, Answered(t, Answer(t.target, server)))
    /\ UNCHANGED <<server, shown, panel, losses, lost>>
Obeyed(i) ==
    LET t == tasks[i] IN
    /\ t.at = "sent" /\ ~Loading(t)
    /\ Replaced(tasks, tasks', i, Back(t, ~Refuses(server, t.calls[t.n])))
    /\ server' = Obeys(server, t.calls[t.n])
    /\ UNCHANGED <<shown, panel, losses, lost>>
Loses(i) ==
    LET t == tasks[i] IN
    /\ Replaced(tasks, tasks', i, Back(t, FALSE))
    /\ server' = server \/ (~Loading(t) /\ server' = Obeys(server, t.calls[t.n]))
    /\ losses' = losses + 1 /\ UNCHANGED <<shown, panel, lost>>
Shows(i) ==
    LET t == tasks[i] IN
    /\ t.at = "back" /\ Loading(t) /\ Removed(tasks, tasks', i)
    /\ shown' = IF ~Mine(t) THEN shown ELSE IF t.ok THEN t.content ELSE [shown EXCEPT !.loading = FALSE]
    /\ lost' \in BOOLEAN /\ (lost => lost')
    /\ ~lost' /\ Mine(t) => \A j \in 1 .. i - 1 : ~ (Mine(tasks[j]) /\ Loading(tasks[j]))
    /\ UNCHANGED <<server, panel, losses>>
Fails(i) ==
    LET t == tasks[i] IN
    /\ t.at = "back" /\ ~Loading(t) /\ ~t.upload /\ ~t.ok /\ Removed(tasks, tasks', i)
    /\ UNCHANGED <<server, shown, panel, losses, lost>>
PanelGoesOn(t) ==
    /\ ~t.upload \/ ~Mine(t) => UNCHANGED panel
    /\ t.upload /\ Mine(t) => /\ panel' = [queue |-> panel'.queue, uploading |-> panel'.uploading]
                              /\ panel'.uploading = (t.n # Len(t.calls))
CallsOn(i) ==
    LET t == tasks[i] IN
    /\ t.at = "back" /\ t.n < Len(t.calls) /\ (t.upload \/ t.ok)
    /\ Replaced(tasks, tasks', i, Onward(t)) /\ PanelGoesOn(t)
    /\ UNCHANGED <<server, shown, losses, lost>>
Refreshes(i) ==
    LET t == tasks[i] IN
    /\ t.at = "back" /\ t.n = Len(t.calls) /\ (t.upload \/ t.ok)
    /\ \E v : Removed(tasks, v, i) /\ Added(v, tasks', Onward(t))
    /\ shown' = (IF Mine(t) THEN [shown EXCEPT !.loading = TRUE] ELSE shown) /\ PanelGoesOn(t)
    /\ UNCHANGED <<server, losses, lost>>
Runs(i) ==
    /\ UNCHANGED <<tour, place, mount, past, meant, rash>>
    /\ Answers(i) \/ Obeyed(i) \/ Loses(i) \/ Shows(i) \/ Fails(i) \/ CallsOn(i) \/ Refreshes(i)

\* The handler goes on with a call, or refreshes.
LEMMA GoesOnwards ==
  ASSUME ConsoleTypes, NEW i \in DOMAIN tasks, tasks[i].at = "back", ~Loading(tasks[i]), GoesOn(i, tasks[i])
  PROVE  \/ tasks[i].n < Len(tasks[i].calls) /\ Replaced(tasks, tasks', i, Onward(tasks[i])) /\ UNCHANGED shown
         \/ /\ tasks[i].n = Len(tasks[i].calls)
            /\ \E v : Removed(tasks, v, i) /\ Added(v, tasks', Onward(tasks[i]))
            /\ shown' = IF Mine(tasks[i]) THEN [shown EXCEPT !.loading = TRUE] ELSE shown
<1> DEFINE t == tasks[i]
<1>1. IsSequence(tasks) /\ IsTask(t) /\ Len(t.calls) \in Nat /\ t.n \in Nat
  BY TasksCall DEF ConsoleTypes, Handles
<1>2. CASE t.n < Len(t.calls)
  <2>1. tasks' = [tasks EXCEPT ![i].n = @ + 1, ![i].at = "sent"] /\ UNCHANGED shown
    BY <1>2 DEF GoesOn
  <2>2. tasks' = [tasks EXCEPT ![i] = Onward(t)]
    BY <1>1, <2>1 DEF Onward, IsTask
  <2> QED BY <1>1, <1>2, <2>1, <2>2, ExceptReplaces
<1>3. CASE ~ (t.n < Len(t.calls))
  <2>1. /\ tasks' = Append(Without(i), Onward(t)) /\ shown' = IF Mine(t) THEN [shown EXCEPT !.loading = TRUE] ELSE shown
    BY <1>3 DEF GoesOn, Onward
  <2>2. t.n = Len(t.calls)
    BY <1>1, <1>3 DEF Loading
  <2>3. Removed(tasks, Without(i), i)
    BY <1>1, WithoutRemoves
  <2>4. Added(Without(i), tasks', Onward(t))
    BY <2>1, <2>3, AppendAdds DEF Removed
  <2> QED BY <2>1, <2>2, <2>3, <2>4
<1> QED BY <1>2, <1>3

LEMMA HandlersRun ==
  ASSUME ConsoleTypes, NEW i \in DOMAIN tasks,
         Serve(i) \/ LoseRequest(i) \/ ShowAnswer(i) \/ AfterCall(i) \/ AfterUpload(i)
  PROVE  Runs(i)
<1> DEFINE t == tasks[i]
<1>1. IsSequence(tasks) /\ IsTask(t) /\ lost \in BOOLEAN
  BY DEF ConsoleTypes, Handles
<1>2. CASE Serve(i)
  <2>1. CASE Loading(t)
    <3>1. /\ t.at = "sent" /\ tasks' = [tasks EXCEPT ![i].at = "back", ![i].ok = TRUE, ![i].content = Answer(t.target, server)]
          /\ UNCHANGED server
      BY <1>2, <2>1 DEF Serve
    <3> DEFINE u == [t EXCEPT !.at = "back", !.ok = TRUE, !.content = Answer(t.target, server)]
    <3>2. tasks' = [tasks EXCEPT ![i] = u]
      BY <1>1, <3>1 DEF IsTask
    <3> HIDE DEF u
    <3>3. Replaced(tasks, tasks', i, u)
      BY <1>1, <3>2, ExceptReplaces
    <3> QED BY <1>2, <2>1, <3>1, <3>3 DEF Serve, Runs, Answers, u, Answered
  <2>2. CASE ~Loading(t)
    <3> DEFINE ok == ~Refuses(server, t.calls[t.n])
               u == [t EXCEPT !.at = "back", !.ok = ok]
    <3>1. t.at = "sent" /\ tasks' = [tasks EXCEPT ![i].at = "back", ![i].ok = ok] /\ server' = Obeys(server, t.calls[t.n])
      BY <1>2, <2>2 DEF Serve
    <3> HIDE DEF ok
    <3>2. tasks' = [tasks EXCEPT ![i] = u]
      BY <1>1, <3>1 DEF IsTask
    <3> HIDE DEF u
    <3>3. Replaced(tasks, tasks', i, u)
      BY <1>1, <3>2, ExceptReplaces
    <3> QED BY <1>2, <2>2, <3>1, <3>3 DEF Serve, Runs, Obeyed, u, ok, Back
  <2> QED BY <2>1, <2>2
<1>3. CASE LoseRequest(i)
  <2> DEFINE u == [t EXCEPT !.at = "back", !.ok = FALSE]
  <2>1. /\ tasks' = [tasks EXCEPT ![i].at = "back", ![i].ok = FALSE] /\ losses' = losses + 1
        /\ server' \in {server} \cup (IF Loading(t) THEN {} ELSE {Obeys(server, t.calls[t.n])})
    BY <1>3 DEF LoseRequest
  <2>2. tasks' = [tasks EXCEPT ![i] = u]
    BY <1>1, <2>1 DEF IsTask
  <2> HIDE DEF u
  <2>3. Replaced(tasks, tasks', i, u)
    BY <1>1, <2>2, ExceptReplaces
  <2>4. server' = server \/ (~Loading(t) /\ server' = Obeys(server, t.calls[t.n]))
    BY <2>1
  <2> QED BY <1>3, <2>1, <2>3, <2>4 DEF LoseRequest, Runs, Loses, u, Back
<1>4. CASE ShowAnswer(i)
  <2>1. /\ t.at = "back" /\ Loading(t) /\ tasks' = Without(i)
        /\ shown' = IF ~Mine(t) THEN shown ELSE IF t.ok THEN t.content ELSE [shown EXCEPT !.loading = FALSE]
        /\ lost' = (lost \/ (Mine(t) /\ \E j \in 1 .. i - 1 : Mine(tasks[j]) /\ Loading(tasks[j])))
        /\ UNCHANGED <<tour, server, place, mount, past, panel, clicks, losses, meant, rash>>
    BY <1>4 DEF ShowAnswer
  <2>2. Removed(tasks, tasks', i)
    BY <1>1, <2>1, WithoutRemoves
  <2> DEFINE earlier == \E j \in 1 .. i - 1 : Mine(tasks[j]) /\ Loading(tasks[j])
  <2>3. lost' = (lost \/ (Mine(t) /\ earlier)) /\ (~earlier => \A j \in 1 .. i - 1 : ~ (Mine(tasks[j]) /\ Loading(tasks[j])))
    BY <2>1
  <2> HIDE DEF earlier
  <2>4. /\ lost' \in BOOLEAN /\ (lost => lost')
        /\ ~lost' /\ Mine(t) => \A j \in 1 .. i - 1 : ~ (Mine(tasks[j]) /\ Loading(tasks[j]))
    BY <1>1, <2>3
  <2> QED BY <2>1, <2>2, <2>4 DEF Runs, Shows
<1>5. CASE AfterCall(i)
  <2>1. /\ t.at = "back" /\ ~Loading(t) /\ ~t.upload
        /\ UNCHANGED <<tour, server, place, mount, past, panel, clicks, losses, meant, rash, lost>>
    BY <1>5 DEF AfterCall
  <2>2. CASE t.ok
    <3>1. GoesOn(i, t)
      BY <1>5, <2>2 DEF AfterCall
    <3> QED BY <2>1, <2>2, <3>1, GoesOnwards DEF Runs, CallsOn, Refreshes, PanelGoesOn
  <2>3. CASE ~t.ok
    <3>1. tasks' = Without(i) /\ UNCHANGED shown
      BY <1>5, <2>3 DEF AfterCall
    <3> QED BY <1>1, <2>1, <2>3, <3>1, WithoutRemoves DEF Runs, Fails
  <2> QED BY <2>2, <2>3
<1>6. CASE AfterUpload(i)
  <2>1. /\ t.at = "back" /\ ~Loading(t) /\ t.upload /\ GoesOn(i, t)
        /\ UNCHANGED <<tour, server, place, mount, past, clicks, losses, meant, rash, lost>>
    BY <1>6 DEF AfterUpload
  <2>2. PanelGoesOn(t)
    <3> DEFINE queue == [q \in DOMAIN panel.queue |->
                            CASE q = t.first + t.n -> [panel.queue[q] EXCEPT !.status = IF t.ok THEN "done" ELSE "error"]
                              [] q = t.first + t.n + 1 /\ ~(t.n = Len(t.calls)) -> [panel.queue[q] EXCEPT !.status = "uploading"]
                              [] OTHER -> panel.queue[q]]
    <3>1. panel' = IF ~Mine(t) THEN panel ELSE [uploading |-> ~(t.n = Len(t.calls)), queue |-> queue]
      BY <1>6 DEF AfterUpload
    <3> HIDE DEF queue
    <3> QED BY <2>1, <3>1 DEF PanelGoesOn
  <2> QED BY <2>1, <2>2, GoesOnwards DEF Runs, CallsOn, Refreshes
<1> QED BY <1>2, <1>3, <1>4, <1>5, <1>6

-----------------------------------------------------------------------------
(* The types hold. *)

LEMMA GoodAdded ==
  ASSUME NEW s, NEW m \in Nat, Good(s, m), NEW u, Handles(u, m), NEW w, Added(s, w, u)
  PROVE  Good(w, m)
<1>1. \A j \in DOMAIN w : w[j] = u \/ (j \in DOMAIN s /\ w[j] = s[j])
  BY Places DEF Added, Good
<1> QED BY <1>1 DEF Good, Added

LEMMA GoodRemoved ==
  ASSUME NEW s, NEW m \in Nat, Good(s, m), NEW i \in DOMAIN s, NEW w, Removed(s, w, i)
  PROVE  Good(w, m)
<1>1. \A j \in DOMAIN w : \E k \in DOMAIN s : w[j] = s[k]
  BY RemovedLeaves DEF Removed, Good
<1> QED BY <1>1 DEF Good, Removed

LEMMA GoodReplaced ==
  ASSUME NEW s, NEW m \in Nat, Good(s, m), NEW i \in DOMAIN s, NEW u, Handles(u, m), NEW w, Replaced(s, w, i, u)
  PROVE  Good(w, m)
BY DEF Good, Replaced

LEMMA GoodLater ==
  ASSUME NEW s, NEW m \in Nat, Good(s, m)
  PROVE  Good(s, m + 1)
<1>1. ASSUME NEW i \in DOMAIN s PROVE Handles(s[i], m + 1)
  <2>1. Handles(s[i], m) /\ s[i].mount \in Nat
    BY DEF Good, Handles, IsTask
  <2>2. s[i].mount =< m => s[i].mount =< m + 1
    BY <2>1
  <2> QED BY <2>1, <2>2 DEF Handles
<1> QED BY <1>1 DEF Good

\* What goes on with a handler keeps its shape.
LEMMA OnwardIs ==
  ASSUME NEW t, NEW m, Handles(t, m), ~Loading(t)
  PROVE  LET u == Onward(t) IN
         /\ Handles(u, m) /\ u.calls = t.calls /\ u.upload = t.upload /\ u.n = t.n + 1 /\ u.at = "sent"
         /\ u.target = t.target /\ u.mount = t.mount
         /\ t.n \in Nat /\ t.n # 0 /\ Len(t.calls) \in Nat
         /\ t.n =< Len(t.calls) /\ (t.n = Len(t.calls) <=> Loading(u))
<1> DEFINE n == t.n
           l == Len(t.calls)
           u == Onward(t)
           m1 == n + 1
<1>1. n \in Nat /\ n # 0 /\ l \in Nat /\ IsTask(t)
  BY TasksCall DEF Handles
<1>2. n =< l
  BY <1>1 DEF Loading
<1>3. u = [t EXCEPT !.n = m1, !.at = "sent"]
  BY <1>1 DEF Onward, IsTask
<1> HIDE DEF n, l, u
<1>4. m1 \in Nat \ {0} /\ m1 =< l + 1 /\ (n = l <=> m1 > l)
  BY <1>1, <1>2
<1> HIDE DEF m1
<1>5. /\ u.calls = t.calls /\ u.upload = t.upload /\ u.n = m1 /\ u.at = "sent" /\ u.target = t.target /\ u.mount = t.mount
      /\ u.content = t.content /\ u.ok = t.ok /\ u.first = t.first
      /\ u = [calls |-> t.calls, n |-> m1, upload |-> t.upload, first |-> t.first, target |-> t.target, mount |-> t.mount,
              at |-> "sent", ok |-> t.ok, content |-> t.content]
  BY <1>1, <1>3 DEF IsTask
<1>6. IsTask(u)
  BY <1>1, <1>4, <1>5 DEF IsTask, l
<1>7. Handles(u, m)
  BY <1>5, <1>6 DEF Handles
<1>8. Loading(u) <=> m1 > l
  BY <1>5 DEF Loading, l
<1> QED BY <1>1, <1>2, <1>4, <1>5, <1>7, <1>8 DEF u, n, l, m1

\* What the API has answered.
LEMMA BackIs ==
  ASSUME NEW t, NEW m, Handles(t, m), ~Loading(t), NEW ok \in BOOLEAN
  PROVE  LET u == Back(t, ok) IN
         /\ Handles(u, m) /\ u.calls = t.calls /\ u.upload = t.upload /\ u.n = t.n /\ u.at = "back" /\ u.ok = ok
         /\ u.target = t.target /\ u.mount = t.mount /\ ~Loading(u)
<1> DEFINE u == Back(t, ok)
<1>1. IsTask(t)
  BY DEF Handles
<1>2. u = [calls |-> t.calls, n |-> t.n, upload |-> t.upload, first |-> t.first, target |-> t.target, mount |-> t.mount,
           at |-> "back", ok |-> ok, content |-> t.content]
  <2>1. u = [t EXCEPT !.at = "back", !.ok = ok]
    BY DEF Back
  <2> HIDE DEF u
  <2> QED BY <1>1, <2>1 DEF IsTask
<1> HIDE DEF u
<1>3. /\ u.calls = t.calls /\ u.upload = t.upload /\ u.n = t.n /\ u.at = "back" /\ u.ok = ok
      /\ u.target = t.target /\ u.mount = t.mount /\ u.content = t.content
  BY <1>2
<1>4. IsTask(u)
  BY <1>1, <1>2 DEF IsTask
<1>5. ~Loading(u)
  BY <1>3 DEF Loading
<1>6. Handles(u, m)
  BY <1>3, <1>4, <1>5 DEF Handles
<1> QED BY <1>3, <1>5, <1>6 DEF u

\* A request that came to nothing.
LEMMA FailedIs ==
  ASSUME NEW t, NEW m, Handles(t, m)
  PROVE  LET u == Back(t, FALSE) IN
         /\ Handles(u, m) /\ u.calls = t.calls /\ u.upload = t.upload /\ u.n = t.n /\ u.at = "back" /\ ~u.ok
         /\ u.target = t.target /\ u.mount = t.mount /\ (Loading(u) <=> Loading(t))
<1> DEFINE u == Back(t, FALSE)
<1>1. IsTask(t)
  BY DEF Handles
<1>2. /\ u.calls = t.calls /\ u.upload = t.upload /\ u.n = t.n /\ u.at = "back" /\ ~u.ok
      /\ u.target = t.target /\ u.mount = t.mount /\ u.content = t.content /\ IsTask(u)
  BY <1>1 DEF Back, IsTask
<1> HIDE DEF u
<1>3. Handles(u, m)
  BY <1>2 DEF Handles
<1> QED BY <1>2, <1>3 DEF Loading, u

LEMMA AnsweredIs ==
  ASSUME NEW t, NEW m, Handles(t, m), Loading(t), NEW content, IsScreen(content), ~content.loading, ~content.typed
  PROVE  LET u == Answered(t, content) IN
         /\ Handles(u, m) /\ u.calls = t.calls /\ u.upload = t.upload /\ u.n = t.n /\ u.at = "back" /\ u.ok
         /\ u.target = t.target /\ u.mount = t.mount /\ u.content = content /\ Loading(u)
<1> DEFINE u == Answered(t, content)
<1>1. IsTask(t)
  BY DEF Handles
<1>2. u = [calls |-> t.calls, n |-> t.n, upload |-> t.upload, first |-> t.first, target |-> t.target, mount |-> t.mount,
           at |-> "back", ok |-> TRUE, content |-> content]
  <2>1. u = [t EXCEPT !.at = "back", !.ok = TRUE, !.content = content]
    BY DEF Answered
  <2> HIDE DEF u
  <2> QED BY <1>1, <2>1 DEF IsTask
<1> HIDE DEF u
<1>3. /\ u.calls = t.calls /\ u.upload = t.upload /\ u.n = t.n /\ u.at = "back" /\ u.ok
      /\ u.target = t.target /\ u.mount = t.mount /\ u.content = content
  BY <1>2
<1>4. IsTask(u)
  BY <1>1, <1>2 DEF IsTask
<1>5. Loading(u)
  BY <1>3 DEF Loading
<1>6. Handles(u, m)
  BY <1>3, <1>4 DEF Handles
<1> QED BY <1>3, <1>5, <1>6 DEF u

LEMMA LoadingTouches ==
  ASSUME NEW c, IsScreen(c), NEW b \in BOOLEAN
  PROVE  LET d == [c EXCEPT !.loading = b] IN
         /\ IsScreen(d) /\ d.loading = b /\ d.listing = c.listing /\ d.rows = c.rows /\ d.text = c.text /\ d.typed = c.typed
BY DEF IsScreen

LEMMA TypesRun ==
  ASSUME ConsoleTypes, NEW i \in DOMAIN tasks, Runs(i)
  PROVE  ConsoleTypes'
<1> DEFINE t == tasks[i]
<1>1. /\ Good(tasks, mount) /\ mount \in Nat /\ Handles(t, mount) /\ IsServer(server) /\ losses \in Nat
      /\ IsScreen(shown) /\ IsScreen(t.content) /\ IsTask(t) /\ IsTarget(t.target) /\ lost \in BOOLEAN
  BY DEF ConsoleTypes, Good, Handles
<1>2. UNCHANGED <<tour, place, mount, past, meant, rash>>
  BY DEF Runs
<1>3. ~Loading(t) => IsCall(t.calls[t.n])
  <2>1. Len(t.calls) \in Nat /\ DOMAIN t.calls = 1 .. Len(t.calls) /\ t.n \in Nat \ {0} /\ \A j \in DOMAIN t.calls : IsCall(t.calls[j])
    BY <1>1, TasksCall
  <2>2. ~ (t.n > Len(t.calls)) => t.n \in DOMAIN t.calls
    BY <2>1
  <2> QED BY <2>1, <2>2 DEF Loading
<1>4. SUFFICES Good(tasks', mount) /\ IsServer(server') /\ IsScreen(shown') /\ losses' \in Nat /\ lost' \in BOOLEAN
               /\ panel' = [queue |-> panel'.queue, uploading |-> panel'.uploading] /\ panel'.uploading \in BOOLEAN
  BY <1>2 DEF ConsoleTypes, Good
<1>5. PanelGoesOn(t) \/ UNCHANGED panel => panel' = [queue |-> panel'.queue, uploading |-> panel'.uploading] /\ panel'.uploading \in BOOLEAN
  BY DEF ConsoleTypes, PanelGoesOn
<1>6. CASE Answers(i)
  <2> DEFINE content == Answer(t.target, server)
             u == Answered(t, content)
  <2>1. IsScreen(content) /\ ~content.loading /\ ~content.typed
    BY <1>1, AnswersAreScreens
  <2>2. Replaced(tasks, tasks', i, u) /\ Loading(t)
    BY <1>6 DEF Answers
  <2> HIDE DEF content
  <2>3. Handles(u, mount)
    BY <1>1, <2>1, <2>2, AnsweredIs
  <2> HIDE DEF u
  <2>4. Good(tasks', mount)
    BY <1>1, <2>2, <2>3, GoodReplaced
  <2> QED BY <1>1, <1>5, <1>6, <2>4 DEF Answers
<1>7. CASE Obeyed(i)
  <2> DEFINE ok == ~Refuses(server, t.calls[t.n])
             u == Back(t, ok)
  <2>1. ~Loading(t) /\ Replaced(tasks, tasks', i, u) /\ server' = Obeys(server, t.calls[t.n])
    BY <1>7 DEF Obeyed
  <2>2. ok \in BOOLEAN
    OBVIOUS
  <2> HIDE DEF ok
  <2>3. Handles(u, mount)
    BY <1>1, <2>1, <2>2, BackIs
  <2> HIDE DEF u
  <2>4. Good(tasks', mount) /\ IsServer(server')
    BY <1>1, <1>3, <2>1, <2>3, GoodReplaced, ObeysIsServer
  <2> QED BY <1>1, <1>5, <1>7, <2>4 DEF Obeyed
<1>8. CASE Loses(i)
  <2> DEFINE u == Back(t, FALSE)
  <2>1. Replaced(tasks, tasks', i, u) /\ losses' = losses + 1 /\ UNCHANGED <<shown, panel, lost>>
        /\ (server' = server \/ (~Loading(t) /\ server' = Obeys(server, t.calls[t.n])))
    BY <1>8 DEF Loses
  <2>2. Handles(u, mount)
    BY <1>1, FailedIs
  <2> HIDE DEF u
  <2>3. Good(tasks', mount) /\ IsServer(server')
    BY <1>1, <1>3, <2>1, <2>2, GoodReplaced, ObeysIsServer
  <2>4. losses' \in Nat
    BY <1>1, <2>1
  <2> QED BY <1>1, <1>5, <2>1, <2>3, <2>4
<1>9. CASE Shows(i)
  <2>1. /\ Removed(tasks, tasks', i) /\ UNCHANGED <<server, panel, losses>> /\ lost' \in BOOLEAN
        /\ shown' = IF ~Mine(t) THEN shown ELSE IF t.ok THEN t.content ELSE [shown EXCEPT !.loading = FALSE]
    BY <1>9 DEF Shows
  <2>2. IsScreen(shown')
    BY <1>1, <2>1, LoadingTouches
  <2>3. Good(tasks', mount)
    BY <1>1, <2>1, GoodRemoved
  <2> QED BY <1>1, <1>5, <2>1, <2>2, <2>3
<1>10. CASE Fails(i)
  <2>1. Removed(tasks, tasks', i) /\ UNCHANGED <<server, shown, panel, losses, lost>>
    BY <1>10 DEF Fails
  <2>2. Good(tasks', mount)
    BY <1>1, <2>1, GoodRemoved
  <2> QED BY <1>1, <1>5, <2>1, <2>2
<1>11. CASE CallsOn(i)
  <2>1. t.n < Len(t.calls) /\ Replaced(tasks, tasks', i, Onward(t)) /\ PanelGoesOn(t) /\ UNCHANGED <<server, shown, losses, lost>>
    BY <1>11 DEF CallsOn
  <2>2. ~Loading(t)
    <3>1. t.n \in Nat /\ Len(t.calls) \in Nat
      BY <1>1, TasksCall
    <3> QED BY <2>1, <3>1 DEF Loading
  <2>3. Good(tasks', mount)
    BY <1>1, <2>1, <2>2, OnwardIs, GoodReplaced
  <2> QED BY <1>1, <1>5, <2>1, <2>3
<1>12. CASE Refreshes(i)
  <2>1. t.n = Len(t.calls) /\ PanelGoesOn(t) /\ UNCHANGED <<server, losses, lost>>
        /\ shown' = (IF Mine(t) THEN [shown EXCEPT !.loading = TRUE] ELSE shown)
    BY <1>12 DEF Refreshes
  <2>2. PICK v : Removed(tasks, v, i) /\ Added(v, tasks', Onward(t))
    BY <1>12 DEF Refreshes
  <2>3. ~Loading(t)
    <3>1. t.n \in Nat /\ Len(t.calls) \in Nat
      BY <1>1, TasksCall
    <3> QED BY <2>1, <3>1 DEF Loading
  <2>4. Good(tasks', mount)
    <3>1. Good(v, mount)
      BY <1>1, <2>2, GoodRemoved
    <3> QED BY <1>1, <2>2, <2>3, <3>1, OnwardIs, GoodAdded
  <2>5. IsScreen(shown')
    BY <1>1, <2>1, LoadingTouches
  <2> QED BY <1>1, <1>5, <2>1, <2>4, <2>5
<1> QED BY <1>6, <1>7, <1>8, <1>9, <1>10, <1>11, <1>12 DEF Runs

\* Files that are dropped.
Dropped(calls) ==
    /\ UNCHANGED <<tour, server, place, mount, past, shown, losses, lost>> /\ May("drop")
    /\ panel' = [queue |-> panel'.queue, uploading |-> TRUE]
    /\ rash' \in BOOLEAN /\ (~rash' => ~rash /\ ~panel.uploading /\ ~Clashes(calls))
    /\ \E files : calls = Puts(files) /\ meant' = Wants(meant, files)
    /\ \/ panel.uploading /\ UNCHANGED tasks
       \/ ~panel.uploading /\ \E first : tasks' = Append(tasks, Task(calls, TRUE, first, place, mount))

LEMMA DropsDo ==
  ASSUME ConsoleTypes, Drop
  PROVE  \E calls : Dropped(calls) /\ IsSequence(calls) /\ IsDrop(calls)
<1>1. PICK n \in DOMAIN ConsoleStarts : tour = ConsoleStarts[n]
  BY DEF ConsoleTypes
<1>2. tour.batches \subseteq Seq(1 .. LastKey)
  BY <1>1, ConsoleAssumption
<1>3. rash \in BOOLEAN /\ panel.uploading \in BOOLEAN
  BY DEF ConsoleTypes
<1>4. PICK files \in tour.batches :
        /\ May("drop")
        /\ \E queue : panel' = [queue |-> queue, uploading |-> TRUE]
        /\ meant' = Wants(meant, files)
        /\ rash' = (rash \/ panel.uploading \/ Clashes(Puts(files)))
        /\ \/ panel.uploading /\ UNCHANGED tasks
           \/ ~panel.uploading /\ tasks' = Append(tasks, Task(Puts(files), TRUE, Len(panel.queue), place, mount))
        /\ UNCHANGED <<tour, server, place, mount, past, shown, losses, lost>>
  BY DEF Drop, Puts, Wants
<1> DEFINE calls == Puts(files)
           clash == Clashes(calls)
<1>5. files \in Seq(1 .. LastKey)
  BY <1>2
<1>6. Len(files) \in Nat /\ DOMAIN files = 1 .. Len(files)
  BY <1>5, LenProperties
<1>7. DOMAIN calls = 1 .. Len(files) /\ \A i \in 1 .. Len(files) : calls[i] = OnKeys("put", {}, {files[i]})
  BY <1>6 DEF Puts
<1>8. IsDrop(calls)
  BY <1>7 DEF IsDrop
<1>9. IsSequence(calls)
  <2> DEFINE S == {calls[i] : i \in DOMAIN calls}
  <2>1. \A i \in 1 .. Len(files) : calls[i] \in S
    BY <1>7
  <2>2. calls = [i \in 1 .. Len(files) |-> calls[i]]
    BY <1>6 DEF Puts
  <2> HIDE DEF calls, S
  <2>3. calls \in [1 .. Len(files) -> S]
    BY <2>1, <2>2
  <2>4. calls \in Seq(S)
    BY <1>6, <2>3, SeqDef
  <2> QED BY <2>4, SequencesAre
<1>10. rash' \in BOOLEAN /\ (~rash' => ~rash /\ ~panel.uploading /\ ~Clashes(calls))
  <2>1. rash' = (rash \/ panel.uploading \/ clash)
    BY <1>4
  <2> HIDE DEF clash, calls
  <2>2. clash \in BOOLEAN /\ (~clash => ~Clashes(calls))
    BY DEF clash, Clashes
  <2> QED BY <1>3, <2>1, <2>2
<1>11. panel' = [queue |-> panel'.queue, uploading |-> TRUE]
  BY <1>4
<1>12. Dropped(calls)
  BY <1>4, <1>10, <1>11 DEF Dropped
<1> QED BY <1>8, <1>9, <1>12

\* What happens in a step.
Walks == UNCHANGED <<tour, server, losses, meant, rash>> /\ past' \in Seq(Url) /\ (Stays \/ Mounts \/ Reloads)
Clicks1(calls) == Does(calls) /\ Clicked(calls, {"rows", "policy"} \cup IF May("change") THEN {"keys"} ELSE {})
Types == /\ place.screen = "policy" /\ UNCHANGED <<tour, server, place, mount, past, panel, tasks, losses, meant, rash, lost>>
         /\ \E text : shown' = [shown EXCEPT !.text = text, !.typed = TRUE]
Closes == /\ UNCHANGED <<tour, server, place, mount, past, shown, tasks, losses, meant, rash, lost>>
          /\ panel' = [queue |-> panel'.queue, uploading |-> panel.uploading]

LEMMA StepsAre ==
  ASSUME ConsoleTypes, [ConsoleNext]_consoleVars
  PROVE  \/ \E i \in DOMAIN tasks : Runs(i)
         \/ Walks \/ Types \/ Closes
         \/ \E calls : Clicks1(calls)
         \/ \E calls : Dropped(calls) /\ IsSequence(calls) /\ IsDrop(calls)
<1>1. CASE ConsoleRun
  BY <1>1, HandlersRun DEF ConsoleRun
<1>2. CASE \/ \E screen \in Tables \cup {"files", "policy"} : SelectTab(screen)
           \/ GoBack \/ NextPage \/ PreviousPage
           \/ \E folder \in {"root", "folder"} : NavigateTo(folder)
  BY <1>2, WalksLead DEF Walks
<1>3. CASE RemoveRow \/ MakeFolder \/ Rename \/ Press \/ SaveText \/ RemoveText
  BY <1>3, ClicksDo DEF Clicks1
<1>4. CASE Drop
  BY <1>4, DropsDo
<1>5. CASE CloseQueue
  <2>1. panel' = [panel EXCEPT !.queue = <<>>] /\ panel = [queue |-> panel.queue, uploading |-> panel.uploading]
    BY <1>5 DEF CloseQueue, ConsoleTypes
  <2>2. panel' = [queue |-> panel'.queue, uploading |-> panel.uploading]
    BY <2>1
  <2> QED BY <1>5, <2>2 DEF CloseQueue, Closes
<1>6. CASE Type
  BY <1>6 DEF Type, Types
<1>7. CASE UNCHANGED consoleVars
  BY <1>7 DEF consoleVars, Closes, ConsoleTypes
<1>8. ConsoleNext \/ UNCHANGED consoleVars
  OBVIOUS
<1>9. ConsoleNext => ConsoleRun \/ Clicks
  BY DEF ConsoleNext
<1> QED BY <1>1, <1>2, <1>3, <1>4, <1>5, <1>6, <1>7, <1>8, <1>9 DEF Clicks

\* The handler of a click.
LEMMA ClickStarts ==
  ASSUME ConsoleTypes, NEW calls, Clicks1(calls)
  PROVE  \E t : /\ Handles(t, mount) /\ t.calls = calls /\ ~t.upload /\ t.n = 1 /\ t.at = "sent" /\ ~Loading(t)
                /\ t.mount = mount /\ t.target = Target(place) /\ IsClick(calls) /\ Added(tasks, tasks', t)
                /\ meant' = Result(meant, calls) /\ rash' \in BOOLEAN /\ (~rash' => ~rash /\ ~Clashes(calls))
                /\ UNCHANGED <<tour, server, place, mount, past, shown, panel, losses, lost>>
<1> DEFINE t == Task(calls, FALSE, 0, place, mount)
           clash == Clashes(calls)
<1>1. /\ tasks' = Append(tasks, t) /\ meant' = Result(meant, calls) /\ rash' = (rash \/ clash)
      /\ UNCHANGED <<tour, server, place, mount, past, shown, panel, losses, lost>>
  BY DEF Clicks1, Does
<1>2. IsSequence(calls) /\ IsClick(calls)
  BY DEF Clicks1, Clicked
<1>3. IsPlace(place) /\ mount \in Nat /\ IsSequence(tasks) /\ rash \in BOOLEAN
  BY DEF ConsoleTypes
<1>4. Handles(t, mount)
  BY <1>2, <1>3, TasksAre
<1>5. t.calls = calls /\ ~t.upload /\ t.n = 1 /\ t.at = "sent" /\ t.mount = mount /\ t.target = Target(place) /\ ~Loading(t)
  <2>1. t.calls = calls /\ ~t.upload /\ t.n = 1 /\ t.at = "sent" /\ t.mount = mount /\ t.target = Target(place)
    BY DEF Task
  <2> HIDE DEF t
  <2>2. Len(calls) = 1 \/ Len(calls) = 2
    BY <1>2 DEF IsClick
  <2>3. ~ (1 > Len(calls))
    BY <2>2
  <2>4. ~Loading(t)
    BY <2>1, <2>3 DEF Loading
  <2> QED BY <2>1, <2>4
<1>6. rash' \in BOOLEAN /\ (~rash' => ~rash /\ ~Clashes(calls))
  <2>1. clash \in BOOLEAN /\ (~clash => ~Clashes(calls))
    BY DEF Clashes
  <2>2. rash' = (rash \/ clash)
    BY <1>1
  <2> HIDE DEF clash
  <2> QED BY <1>3, <2>1, <2>2
<1> HIDE DEF t
<1>7. Added(tasks, tasks', t)
  BY <1>1, <1>3, AppendAdds
<1> QED BY <1>1, <1>2, <1>4, <1>5, <1>6, <1>7

\* The handler of a drop, unless another one is under way.
LEMMA DropStarts ==
  ASSUME ConsoleTypes, NEW calls, Dropped(calls), IsSequence(calls), IsDrop(calls)
  PROVE  \/ panel.uploading /\ UNCHANGED tasks /\ rash'
         \/ ~panel.uploading /\
            \E t : /\ Handles(t, mount) /\ t.calls = calls /\ t.upload /\ t.n = 1 /\ t.at = "sent"
                   /\ t.mount = mount /\ t.target = Target(place) /\ Added(tasks, tasks', t)
<1>1. IsPlace(place) /\ mount \in Nat /\ IsSequence(tasks) /\ panel.uploading \in BOOLEAN
  BY DEF ConsoleTypes
<1>2. CASE panel.uploading
  <2>1. rash' \in BOOLEAN /\ ~ ~rash'
    BY <1>2 DEF Dropped
  <2> QED BY <1>2, <2>1 DEF Dropped
<1>3. CASE ~panel.uploading
  <2>1. PICK first : tasks' = Append(tasks, Task(calls, TRUE, first, place, mount))
    BY <1>3 DEF Dropped
  <2> DEFINE t == Task(calls, TRUE, first, place, mount)
  <2>2. Handles(t, mount)
    BY <1>1, TasksAre
  <2>3. t.calls = calls /\ t.upload /\ t.n = 1 /\ t.at = "sent" /\ t.mount = mount /\ t.target = Target(place)
    BY DEF Task
  <2> HIDE DEF t
  <2>4. Added(tasks, tasks', t)
    BY <1>1, <2>1, AppendAdds DEF t
  <2> QED BY <1>3, <2>2, <2>3, <2>4
<1> QED BY <1>1, <1>2, <1>3

LEMMA TypesStep ==
  ASSUME ConsoleTypes, [ConsoleNext]_consoleVars
  PROVE  ConsoleTypes'
<1>1. /\ Good(tasks, mount) /\ mount \in Nat /\ IsServer(server) /\ IsServer(meant) /\ losses \in Nat
      /\ IsPlace(place) /\ IsScreen(shown) /\ panel.uploading \in BOOLEAN /\ past \in Seq(Url)
      /\ panel = [queue |-> panel.queue, uploading |-> panel.uploading]
  BY DEF ConsoleTypes, Good
<1>2. CASE \E i \in DOMAIN tasks : Runs(i)
  BY <1>2, TypesRun
<1>3. CASE Walks
  <2>1. UNCHANGED <<tour, server, losses, meant, rash>> /\ past' \in Seq(Url)
    BY <1>3 DEF Walks
  <2>2. SUFFICES /\ Good(tasks', mount') /\ IsPlace(place') /\ mount' \in Nat /\ IsScreen(shown') /\ lost' \in BOOLEAN
                 /\ panel' = [queue |-> panel'.queue, uploading |-> panel'.uploading] /\ panel'.uploading \in BOOLEAN
    BY <2>1 DEF ConsoleTypes, Good
  <2>3. CASE Stays
    BY <1>1, <2>3 DEF Stays, ConsoleTypes
  <2>4. CASE Mounts
    <3>1. /\ mount' = mount + 1 /\ IsPlace(place') /\ shown' = Blank /\ panel' = EmptyPanel
          /\ tasks' = Append(tasks, Loads(place', mount')) /\ lost' \in BOOLEAN
      BY <2>4 DEF Mounts
    <3>2. mount' \in Nat /\ Good(tasks, mount')
      BY <1>1, <3>1, GoodLater
    <3>3. Handles(Loads(place', mount'), mount')
      BY <3>1, <3>2, LoadsAre
    <3>4. Added(tasks, tasks', Loads(place', mount'))
      BY <1>1, <3>1, AppendAdds DEF Good
    <3>5. Good(tasks', mount')
      BY <3>2, <3>3, <3>4, GoodAdded
    <3> QED BY <3>1, <3>2, <3>5, BlankIsScreen DEF EmptyPanel
  <2>5. CASE Reloads
    <3>1. /\ UNCHANGED <<mount, panel>> /\ IsPlace(place') /\ shown' = [shown EXCEPT !.loading = TRUE] /\ lost' \in BOOLEAN
      BY <2>5 DEF Reloads
    <3>2. PICK s : /\ s = tasks \/ \E p : IsPlace(p) /\ s = Append(tasks, Loads(p, mount))
                   /\ tasks' = Append(s, Loads(place', mount))
      BY <2>5 DEF Reloads
    <3>3. Good(s, mount)
      <4>1. CASE s = tasks
        BY <1>1, <4>1
      <4>2. ASSUME NEW p, IsPlace(p), s = Append(tasks, Loads(p, mount)) PROVE Good(s, mount)
        <5>1. Handles(Loads(p, mount), mount) /\ Added(tasks, s, Loads(p, mount))
          BY <1>1, <4>2, LoadsAre, AppendAdds DEF Good
        <5> QED BY <1>1, <5>1, GoodAdded
      <4> QED BY <3>2, <4>1, <4>2
    <3>4. Handles(Loads(place', mount), mount) /\ Added(s, tasks', Loads(place', mount))
      BY <1>1, <3>1, <3>2, <3>3, LoadsAre, AppendAdds DEF Good
    <3>5. Good(tasks', mount)
      BY <1>1, <3>3, <3>4, GoodAdded
    <3>6. IsScreen(shown')
      BY <1>1, <3>1, LoadingTouches
    <3> QED BY <1>1, <3>1, <3>5, <3>6
  <2> QED BY <1>3, <2>3, <2>4, <2>5 DEF Walks
<1>4. CASE Types
  <2>1. PICK text : shown' = [shown EXCEPT !.text = text, !.typed = TRUE]
    BY <1>4 DEF Types
  <2>2. IsScreen(shown')
    BY <1>1, <2>1 DEF IsScreen
  <2> QED BY <1>1, <1>4, <2>2 DEF Types, ConsoleTypes
<1>5. CASE Closes
  <2>1. panel'.uploading = panel.uploading
    BY <1>5 DEF Closes
  <2> QED BY <1>1, <1>5, <2>1 DEF Closes, ConsoleTypes
<1>6. ASSUME NEW calls, Clicks1(calls) PROVE ConsoleTypes'
  <2>1. PICK t : /\ Handles(t, mount) /\ IsClick(calls) /\ Added(tasks, tasks', t)
                 /\ meant' = Result(meant, calls) /\ rash' \in BOOLEAN
                 /\ UNCHANGED <<tour, server, place, mount, past, shown, panel, losses, lost>>
    BY <1>6, ClickStarts
  <2>2. Good(tasks', mount)
    BY <1>1, <2>1, GoodAdded
  <2>3. IsServer(meant')
    BY <1>1, <2>1, ResultIsServer
  <2> QED BY <2>1, <2>2, <2>3 DEF ConsoleTypes, Good
<1>7. ASSUME NEW calls, Dropped(calls), IsSequence(calls), IsDrop(calls) PROVE ConsoleTypes'
  <2>1. /\ UNCHANGED <<tour, server, place, mount, past, shown, losses, lost>>
        /\ panel' = [queue |-> panel'.queue, uploading |-> TRUE] /\ rash' \in BOOLEAN
        /\ \E files : meant' = [meant EXCEPT !.keys = @ \cup {files[i] : i \in DOMAIN files}]
    BY <1>7 DEF Dropped, Wants
  <2>2. Good(tasks', mount)
    BY <1>1, <1>7, DropStarts, GoodAdded
  <2>3. IsServer(meant')
    BY <1>1, <2>1 DEF IsServer
  <2>4. panel'.uploading \in BOOLEAN /\ panel' = [queue |-> panel'.queue, uploading |-> panel'.uploading]
    <3>1. panel'.uploading = TRUE
      BY <2>1
    <3>2. panel' = [queue |-> panel'.queue, uploading |-> panel'.uploading]
      BY <2>1, <3>1, Zenon
    <3> QED BY <3>1, <3>2
  <2> QED BY <2>1, <2>2, <2>3, <2>4 DEF ConsoleTypes, Good
<1> QED BY <1>2, <1>3, <1>4, <1>5, <1>6, <1>7, StepsAre

LEMMA TypesInit ==
  ASSUME ConsoleInit
  PROVE  ConsoleTypes
<1>1. PICK n \in DOMAIN ConsoleStarts : tour = ConsoleStarts[n]
  BY DEF ConsoleInit
<1>2. tour.url \in Url /\ tour.rows = [r \in DOMAIN tour.rows |-> tour.rows[r]]
  BY <1>1, ConsoleAssumption
<1>3. IsServer(server) /\ meant = server
  BY <1>2 DEF ConsoleInit, IsServer
<1>4. IsPlace(place) /\ place = FirstPage(tour.url)
  BY <1>2, FirstPagesAre DEF ConsoleInit
<1>5. mount = 0 /\ past = <<>> /\ shown = Blank /\ panel = EmptyPanel /\ losses = 0 /\ rash = FALSE /\ lost = FALSE
  BY DEF ConsoleInit
<1>6. Good(tasks, mount)
  <2>1. IsSequence(<<>>) /\ DOMAIN <<>> = {} /\ Len(<<>>) = 0
    <3>1. <<>> \in Seq({}) /\ DOMAIN <<>> = {} /\ Len(<<>>) = 0
      OBVIOUS
    <3> QED BY <3>1, SequencesAre
  <2>2. CASE tasks = <<>>
    BY <2>1, <2>2 DEF Good
  <2>3. CASE tasks = <<Loads(place, 0)>>
    <3> DEFINE t == Loads(place, 0)
    <3>1. Handles(t, 0)
      BY <1>4, LoadsAre
    <3> HIDE DEF t
    <3>2. <<t>> \in Seq({t}) /\ DOMAIN <<t>> = {1} /\ <<t>>[1] = t
      OBVIOUS
    <3>3. IsSequence(<<t>>)
      BY <3>2, SequencesAre
    <3> QED BY <1>5, <2>3, <3>1, <3>2, <3>3 DEF Good, t
  <2> QED BY <1>4, <2>2, <2>3 DEF ConsoleInit
<1>7. past \in Seq(Url) /\ mount \in Nat /\ losses \in Nat
  BY <1>5
<1> QED BY <1>1, <1>3, <1>4, <1>5, <1>6, <1>7, BlankIsScreen DEF ConsoleTypes, Good, EmptyPanel

-----------------------------------------------------------------------------
(* One upload loop in a panel. *)

Loops(t, m) == t.upload /\ t.mount = m /\ ~Loading(t)
OneLoop(s, m, busy) ==
    /\ \A i, j \in DOMAIN s : Loops(s[i], m) /\ Loops(s[j], m) => i = j
    /\ (\E i \in DOMAIN s : Loops(s[i], m)) => busy
ConsoleLoops == OneLoop(tasks, mount, panel.uploading)

LEMMA LoopAdded ==
  ASSUME NEW s, IsSequence(s), NEW m, NEW busy, OneLoop(s, m, busy), NEW u, ~Loops(u, m), NEW w, Added(s, w, u)
  PROVE  OneLoop(w, m, busy)
<1>1. \A j \in DOMAIN w : w[j] = u \/ (j \in DOMAIN s /\ w[j] = s[j])
  BY Places DEF Added
<1> QED BY <1>1 DEF OneLoop

LEMMA LoopRemoved ==
  ASSUME NEW s, IsSequence(s), NEW m, NEW busy, OneLoop(s, m, busy), NEW i \in DOMAIN s, NEW w, Removed(s, w, i)
  PROVE  OneLoop(w, m, busy) /\ (Loops(s[i], m) => \A j \in DOMAIN w : ~Loops(w[j], m))
<1> DEFINE at(j) == IF j < i THEN j ELSE j + 1
<1>1. \A j \in DOMAIN w : at(j) \in DOMAIN s \ {i} /\ w[j] = s[at(j)]
  BY RemovedLeaves DEF Removed
<1>2. \A j, k \in DOMAIN w : at(j) = at(k) => j = k
  <2>1. DOMAIN w \subseteq Int /\ i \in Int
    BY Places DEF Removed
  <2> QED BY <2>1
<1> HIDE DEF at
<1> QED BY <1>1, <1>2 DEF OneLoop

LEMMA LoopReplaced ==
  ASSUME NEW s, NEW m, NEW busy, OneLoop(s, m, busy), NEW i \in DOMAIN s, NEW u, Loops(u, m) => Loops(s[i], m),
         NEW w, Replaced(s, w, i, u)
  PROVE  OneLoop(w, m, busy)
BY DEF OneLoop, Replaced

LEMMA LoopsRun ==
  ASSUME ConsoleTypes, ConsoleLoops, NEW i \in DOMAIN tasks, Runs(i)
  PROVE  ConsoleLoops'
<1> DEFINE t == tasks[i]
<1>1. Handles(t, mount) /\ IsSequence(tasks) /\ OneLoop(tasks, mount, panel.uploading) /\ mount' = mount /\ IsTarget(t.target)
  BY DEF ConsoleTypes, ConsoleLoops, Runs, Handles
<1>2. SUFFICES OneLoop(tasks', mount, panel'.uploading)
  BY <1>1 DEF ConsoleLoops
<1>3. CASE Answers(i)
  <2> DEFINE content == Answer(t.target, server)
             u == Answered(t, content)
  <2>1. Loading(t) /\ Replaced(tasks, tasks', i, u) /\ UNCHANGED panel
    BY <1>3 DEF Answers
  <2>2. Loading(u)
    BY <1>1, <2>1, AnsweredIs, AnswersAreScreens
  <2> HIDE DEF u
  <2> QED BY <1>1, <2>1, <2>2, LoopReplaced DEF Loops
<1>4. CASE Obeyed(i)
  <2> DEFINE ok == ~Refuses(server, t.calls[t.n])
             u == Back(t, ok)
  <2>1. ~Loading(t) /\ Replaced(tasks, tasks', i, u) /\ UNCHANGED panel /\ ok \in BOOLEAN
    BY <1>4 DEF Obeyed
  <2> HIDE DEF ok
  <2>2. u.upload = t.upload /\ u.mount = t.mount
    BY <1>1, <2>1, BackIs
  <2> HIDE DEF u
  <2> QED BY <1>1, <2>1, <2>2, LoopReplaced DEF Loops
<1>5. CASE Loses(i)
  <2> DEFINE u == Back(t, FALSE)
  <2>1. Replaced(tasks, tasks', i, u) /\ UNCHANGED panel
    BY <1>5 DEF Loses
  <2>2. u.upload = t.upload /\ u.mount = t.mount /\ (Loading(u) <=> Loading(t))
    BY <1>1, FailedIs
  <2> HIDE DEF u
  <2> QED BY <1>1, <2>1, <2>2, LoopReplaced DEF Loops
<1>6. CASE Shows(i) \/ Fails(i)
  <2>1. Removed(tasks, tasks', i) /\ UNCHANGED panel
    BY <1>6 DEF Shows, Fails
  <2> QED BY <1>1, <2>1, LoopRemoved
<1>7. ASSUME CallsOn(i) \/ Refreshes(i)
      PROVE  t.n =< Len(t.calls) /\ ~Loading(t) /\ PanelGoesOn(t)
  <2>1. t.n \in Nat /\ Len(t.calls) \in Nat
    BY <1>1, TasksCall DEF Handles
  <2>2. (t.n < Len(t.calls) \/ t.n = Len(t.calls)) /\ PanelGoesOn(t)
    BY <1>7 DEF CallsOn, Refreshes
  <2> QED BY <2>1, <2>2 DEF Loading
<1>8. CASE CallsOn(i)
  <2> DEFINE u == Onward(t)
  <2>1. Replaced(tasks, tasks', i, u) /\ t.n < Len(t.calls)
    BY <1>8 DEF CallsOn
  <2>2. u.upload = t.upload /\ u.mount = t.mount /\ t.n # Len(t.calls)
    BY <1>1, <1>7, <1>8, <2>1, OnwardIs
  <2> HIDE DEF u
  <2>3. OneLoop(tasks', mount, panel.uploading)
    BY <1>1, <1>7, <1>8, <2>1, <2>2, LoopReplaced DEF Loops
  <2>4. CASE Loops(t, mount)
    <3>1. panel'.uploading = TRUE
      BY <1>7, <1>8, <2>2, <2>4 DEF PanelGoesOn, Loops, Mine
    <3> QED BY <2>3, <3>1 DEF OneLoop
  <2>5. CASE ~Loops(t, mount)
    <3>1. UNCHANGED panel
      BY <1>7, <1>8, <2>5 DEF PanelGoesOn, Loops, Mine
    <3> QED BY <2>3, <3>1
  <2> QED BY <2>4, <2>5
<1>9. CASE Refreshes(i)
  <2> DEFINE u == Onward(t)
  <2>1. PICK v : Removed(tasks, v, i) /\ Added(v, tasks', u)
    BY <1>9 DEF Refreshes
  <2>2. Loading(u)
    BY <1>1, <1>7, <1>9, OnwardIs DEF Refreshes
  <2> HIDE DEF u
  <2>3. OneLoop(v, mount, panel.uploading) /\ (Loops(t, mount) => \A j \in DOMAIN v : ~Loops(v[j], mount)) /\ IsSequence(v)
    BY <1>1, <2>1, LoopRemoved DEF Removed
  <2>4. OneLoop(v, mount, panel'.uploading)
    <3>1. CASE Loops(t, mount)
      BY <2>3, <3>1 DEF OneLoop
    <3>2. CASE ~Loops(t, mount)
      <4>1. UNCHANGED panel
        BY <1>7, <1>9, <3>2 DEF PanelGoesOn, Loops, Mine
      <4> QED BY <2>3, <4>1
    <3> QED BY <3>1, <3>2
  <2> QED BY <2>1, <2>2, <2>3, <2>4, LoopAdded DEF Loops
<1> QED BY <1>3, <1>4, <1>5, <1>6, <1>8, <1>9 DEF Runs

LEMMA LoopsStep ==
  ASSUME ConsoleTypes, ConsoleLoops, [ConsoleNext]_consoleVars
  PROVE  ConsoleLoops'
<1>1. IsSequence(tasks) /\ OneLoop(tasks, mount, panel.uploading) /\ mount \in Nat
      /\ \A i \in DOMAIN tasks : tasks[i].mount =< mount /\ tasks[i].mount \in Nat
  BY DEF ConsoleTypes, ConsoleLoops, Handles, IsTask
<1>2. CASE \E i \in DOMAIN tasks : Runs(i)
  BY <1>2, LoopsRun
<1>3. CASE Stays
  BY <1>3 DEF Stays, ConsoleLoops
<1>4. CASE Mounts
  <2>1. mount' = mount + 1 /\ IsPlace(place') /\ tasks' = Append(tasks, Loads(place', mount'))
    BY <1>4 DEF Mounts
  <2>2. Added(tasks, tasks', Loads(place', mount')) /\ mount' \in Nat
    BY <1>1, <2>1, AppendAdds
  <2>3. ~Loops(Loads(place', mount'), mount')
    BY <2>1, <2>2, LoadsAre DEF Loops
  <2>4. OneLoop(tasks, mount', panel'.uploading)
    <3>1. \A i \in DOMAIN tasks : tasks[i].mount # mount'
      BY <1>1, <2>1
    <3> QED BY <3>1 DEF OneLoop, Loops
  <2>5. OneLoop(tasks', mount', panel'.uploading)
    BY <1>1, <2>2, <2>3, <2>4, LoopAdded
  <2> QED BY <2>5 DEF ConsoleLoops
<1>5. CASE Reloads
  <2>1. UNCHANGED <<mount, panel>> /\ IsPlace(place')
    BY <1>5 DEF Reloads
  <2>2. PICK s : /\ s = tasks \/ \E p : IsPlace(p) /\ s = Append(tasks, Loads(p, mount))
                 /\ tasks' = Append(s, Loads(place', mount))
    BY <1>5 DEF Reloads
  <2>3. IsSequence(s) /\ OneLoop(s, mount, panel.uploading)
    <3>1. ASSUME NEW p, IsPlace(p), s = Append(tasks, Loads(p, mount)) PROVE IsSequence(s) /\ OneLoop(s, mount, panel.uploading)
      <4>1. Added(tasks, s, Loads(p, mount)) /\ ~Loops(Loads(p, mount), mount)
        BY <1>1, <3>1, AppendAdds, LoadsAre DEF Loops
      <4> QED BY <1>1, <4>1, LoopAdded DEF Added
    <3> QED BY <1>1, <2>2, <3>1
  <2>4. Added(s, tasks', Loads(place', mount)) /\ ~Loops(Loads(place', mount), mount)
    BY <1>1, <2>1, <2>2, <2>3, AppendAdds, LoadsAre DEF Loops
  <2>5. OneLoop(tasks', mount, panel.uploading)
    BY <2>3, <2>4, LoopAdded
  <2> QED BY <2>1, <2>5 DEF ConsoleLoops
<1>6. CASE Types \/ Closes
  <2>1. UNCHANGED <<tasks, mount>> /\ panel'.uploading = panel.uploading
    <3>1. CASE Types
      BY <3>1 DEF Types
    <3>2. CASE Closes
      BY <3>2 DEF Closes
    <3> QED BY <1>6, <3>1, <3>2
  <2> QED BY <1>1, <2>1 DEF ConsoleLoops
<1>7. ASSUME NEW calls, Clicks1(calls) PROVE ConsoleLoops'
  <2>1. PICK t : ~t.upload /\ Added(tasks, tasks', t) /\ UNCHANGED <<mount, panel>>
    BY <1>7, ClickStarts
  <2>2. OneLoop(tasks', mount, panel.uploading)
    BY <1>1, <2>1, LoopAdded DEF Loops
  <2> QED BY <2>1, <2>2 DEF ConsoleLoops
<1>8. ASSUME NEW calls, Dropped(calls), IsSequence(calls), IsDrop(calls) PROVE ConsoleLoops'
  <2>1. UNCHANGED mount /\ panel'.uploading = TRUE
    BY <1>8 DEF Dropped
  <2>2. CASE UNCHANGED tasks
    BY <1>1, <2>1, <2>2 DEF ConsoleLoops, OneLoop
  <2>3. ASSUME ~panel.uploading, NEW t, Added(tasks, tasks', t) PROVE ConsoleLoops'
    <3>1. \A j \in DOMAIN tasks : ~Loops(tasks[j], mount)
      BY <1>1, <2>3 DEF OneLoop
    <3>2. \A j \in DOMAIN tasks' : j = Len(tasks) + 1 \/ (j \in DOMAIN tasks /\ tasks'[j] = tasks[j])
      BY <1>1, <2>3, Places DEF Added
    <3>3. OneLoop(tasks', mount, panel'.uploading)
      BY <2>1, <3>1, <3>2 DEF OneLoop
    <3> QED BY <2>1, <3>3 DEF ConsoleLoops
  <2> QED BY <1>8, <2>2, <2>3, DropStarts
<1> QED BY <1>2, <1>3, <1>4, <1>5, <1>6, <1>7, <1>8, StepsAre DEF Walks

-----------------------------------------------------------------------------
(* While a screen is loading, somebody loads it. *)

Awaits(t, m) == t.mount = m /\ Loading(t)
Awaited(s, m) == \E i \in DOMAIN s : Awaits(s[i], m)
ConsoleAwaits == shown.loading /\ tour.screens # {} => Awaited(tasks, mount)

LEMMA AwaitedAdded ==
  ASSUME NEW s, IsSequence(s), NEW m, NEW u, NEW w, Added(s, w, u)
  PROVE  Awaited(w, m) <=> Awaited(s, m) \/ Awaits(u, m)
<1>1. /\ Len(s) \in Nat /\ DOMAIN s = 1 .. Len(s) /\ DOMAIN w = 1 .. Len(s) + 1
      /\ w[Len(s) + 1] = u /\ \A j \in DOMAIN s : w[j] = s[j]
  BY Places DEF Added
<1>2. DOMAIN s \subseteq DOMAIN w /\ Len(s) + 1 \in DOMAIN w
      /\ \A j \in DOMAIN w : w[j] = u \/ (j \in DOMAIN s /\ w[j] = s[j])
  BY <1>1
<1> QED BY <1>1, <1>2 DEF Awaited

LEMMA AwaitedRemoved ==
  ASSUME NEW s, IsSequence(s), NEW m, NEW i \in DOMAIN s, NEW w, Removed(s, w, i)
  PROVE  Awaited(s, m) <=> Awaited(w, m) \/ Awaits(s[i], m)
<1>1. \A j \in DOMAIN w : \E k \in DOMAIN s : w[j] = s[k]
  BY RemovedLeaves DEF Removed
<1>2. \A k \in DOMAIN s \ {i} : \E j \in DOMAIN w : w[j] = s[k]
  BY RemovedLeaves
<1> QED BY <1>1, <1>2 DEF Awaited

LEMMA AwaitedReplaced ==
  ASSUME NEW s, NEW m, NEW i \in DOMAIN s, NEW u, Awaits(u, m) <=> Awaits(s[i], m), NEW w, Replaced(s, w, i, u)
  PROVE  Awaited(s, m) <=> Awaited(w, m)
BY DEF Awaited, Replaced

LEMMA AwaitsRun ==
  ASSUME ConsoleTypes, ConsoleAwaits, NEW i \in DOMAIN tasks, Runs(i)
  PROVE  ConsoleAwaits'
<1> DEFINE t == tasks[i]
<1>1. Handles(t, mount) /\ IsSequence(tasks) /\ mount' = mount /\ tour' = tour /\ IsTarget(t.target) /\ IsScreen(shown)
      /\ t.n \in Nat /\ Len(t.calls) \in Nat
  BY TasksCall DEF ConsoleTypes, Runs, Handles
<1>2. SUFFICES ASSUME shown'.loading, tour.screens # {} PROVE Awaited(tasks', mount)
  BY <1>1 DEF ConsoleAwaits
<1>3. shown.loading => Awaited(tasks, mount)
  BY <1>2 DEF ConsoleAwaits
<1>4. CASE Answers(i)
  <2> DEFINE content == Answer(t.target, server)
             u == Answered(t, content)
  <2>1. Loading(t) /\ Replaced(tasks, tasks', i, u) /\ UNCHANGED shown
    BY <1>4 DEF Answers
  <2>2. Loading(u) /\ u.mount = t.mount
    BY <1>1, <2>1, AnsweredIs, AnswersAreScreens
  <2> HIDE DEF u
  <2> QED BY <1>2, <1>3, <2>1, <2>2, AwaitedReplaced DEF Awaits
<1>5. CASE Obeyed(i)
  <2> DEFINE ok == ~Refuses(server, t.calls[t.n])
             u == Back(t, ok)
  <2>1. ~Loading(t) /\ Replaced(tasks, tasks', i, u) /\ UNCHANGED shown /\ ok \in BOOLEAN
    BY <1>5 DEF Obeyed
  <2> HIDE DEF ok
  <2>2. ~Loading(u)
    BY <1>1, <2>1, BackIs
  <2> HIDE DEF u
  <2> QED BY <1>2, <1>3, <2>1, <2>2, AwaitedReplaced DEF Awaits
<1>6. CASE Loses(i)
  <2> DEFINE u == Back(t, FALSE)
  <2>1. Replaced(tasks, tasks', i, u) /\ UNCHANGED shown
    BY <1>6 DEF Loses
  <2>2. u.mount = t.mount /\ (Loading(u) <=> Loading(t))
    BY <1>1, FailedIs
  <2> HIDE DEF u
  <2> QED BY <1>2, <1>3, <2>1, <2>2, AwaitedReplaced DEF Awaits
<1>7. CASE Shows(i)
  <2>1. /\ t.at = "back" /\ Loading(t) /\ Removed(tasks, tasks', i)
        /\ shown' = IF ~Mine(t) THEN shown ELSE IF t.ok THEN t.content ELSE [shown EXCEPT !.loading = FALSE]
    BY <1>7 DEF Shows
  <2>2. CASE Mine(t)
    <3>1. CASE t.ok
      BY <1>1, <1>2, <2>1, <2>2, <3>1 DEF Handles
    <3>2. CASE ~t.ok
      <4>1. shown' = [shown EXCEPT !.loading = FALSE]
        BY <2>1, <2>2, <3>2
      <4> QED BY <1>1, <1>2, <4>1, LoadingTouches
    <3> QED BY <3>1, <3>2
  <2>3. CASE ~Mine(t)
    BY <1>1, <1>2, <1>3, <2>1, <2>3, AwaitedRemoved DEF Awaits, Mine
  <2> QED BY <2>2, <2>3
<1>8. CASE Fails(i)
  <2>1. ~Loading(t) /\ Removed(tasks, tasks', i) /\ UNCHANGED shown
    BY <1>8 DEF Fails
  <2> QED BY <1>1, <1>2, <1>3, <2>1, AwaitedRemoved DEF Awaits
<1>9. CASE CallsOn(i)
  <2> DEFINE u == Onward(t)
  <2>1. Replaced(tasks, tasks', i, u) /\ t.n < Len(t.calls) /\ UNCHANGED shown
    BY <1>9 DEF CallsOn
  <2>2. ~Loading(t)
    BY <1>1, <2>1 DEF Loading
  <2>3. ~Loading(u)
    BY <1>1, <2>1, <2>2, OnwardIs
  <2> HIDE DEF u
  <2> QED BY <1>2, <1>3, <2>1, <2>2, <2>3, AwaitedReplaced DEF Awaits
<1>10. CASE Refreshes(i)
  <2> DEFINE u == Onward(t)
  <2>1. PICK v : Removed(tasks, v, i) /\ Added(v, tasks', u)
    BY <1>10 DEF Refreshes
  <2>2. t.n = Len(t.calls) /\ shown' = IF Mine(t) THEN [shown EXCEPT !.loading = TRUE] ELSE shown
    BY <1>10 DEF Refreshes
  <2>3. ~Loading(t)
    BY <1>1, <2>2 DEF Loading
  <2>4. Loading(u) /\ u.mount = t.mount
    BY <1>1, <2>2, <2>3, OnwardIs
  <2> HIDE DEF u
  <2>5. Awaited(tasks', mount) <=> Awaited(tasks, mount) \/ Awaits(u, mount)
    BY <1>1, <2>1, <2>3, AwaitedRemoved, AwaitedAdded DEF Awaits, Removed
  <2> QED BY <1>2, <1>3, <2>2, <2>4, <2>5 DEF Awaits, Mine
<1> QED BY <1>4, <1>5, <1>6, <1>7, <1>8, <1>9, <1>10 DEF Runs

\* Where a walk loads a screen, the last that waits is its load.
LEMMA WalksLoad ==
  ASSUME ConsoleTypes, Mounts \/ Reloads
  PROVE  \E s, u : /\ IsSequence(s) /\ Added(s, tasks', u) /\ Awaits(u, mount') /\ u.target = Target(place') /\ u.at = "sent"
                   /\ u.calls = <<>> /\ Left(u) = {} /\ ~u.upload
                   /\ s = tasks \/ \E v : Added(tasks, s, v) /\ v.calls = <<>> /\ Left(v) = {} /\ ~v.upload /\ v.at = "sent"
<1>1. IsSequence(tasks) /\ mount \in Nat
  BY DEF ConsoleTypes
<1>2. CASE Mounts
  <2>1. mount' = mount + 1 /\ IsPlace(place') /\ tasks' = Append(tasks, Loads(place', mount'))
    BY <1>2 DEF Mounts
  <2>2. Added(tasks, tasks', Loads(place', mount')) /\ mount' \in Nat
    BY <1>1, <2>1, AppendAdds
  <2> QED BY <1>1, <2>1, <2>2, LoadsAre DEF Awaits
<1>3. CASE Reloads
  <2>1. mount' = mount /\ IsPlace(place')
    BY <1>3 DEF Reloads
  <2>2. PICK s : /\ s = tasks \/ \E p : IsPlace(p) /\ s = Append(tasks, Loads(p, mount))
                 /\ tasks' = Append(s, Loads(place', mount))
    BY <1>3 DEF Reloads
  <2>3. IsSequence(s) /\ (s = tasks \/ \E v : Added(tasks, s, v) /\ v.calls = <<>> /\ Left(v) = {} /\ ~v.upload /\ v.at = "sent")
    <3>1. ASSUME NEW p, IsPlace(p), s = Append(tasks, Loads(p, mount))
          PROVE  IsSequence(s) /\ \E v : Added(tasks, s, v) /\ v.calls = <<>> /\ Left(v) = {} /\ ~v.upload /\ v.at = "sent"
      <4>1. Added(tasks, s, Loads(p, mount))
        BY <1>1, <3>1, AppendAdds
      <4> QED BY <1>1, <3>1, <4>1, LoadsAre DEF Added
    <3> QED BY <1>1, <2>2, <3>1
  <2>4. Added(s, tasks', Loads(place', mount))
    BY <2>2, <2>3, AppendAdds
  <2> QED BY <1>1, <2>1, <2>3, <2>4, LoadsAre DEF Awaits
<1> QED BY <1>2, <1>3

LEMMA AwaitsStep ==
  ASSUME ConsoleTypes, ConsoleAwaits, [ConsoleNext]_consoleVars
  PROVE  ConsoleAwaits'
<1>1. IsSequence(tasks) /\ IsScreen(shown)
  BY DEF ConsoleTypes
<1>2. CASE \E i \in DOMAIN tasks : Runs(i)
  BY <1>2, AwaitsRun
<1>3. CASE Stays /\ UNCHANGED tour
  BY <1>3 DEF Stays, ConsoleAwaits
<1>4. CASE Mounts \/ Reloads
  <2>1. Awaited(tasks', mount')
    BY <1>4, WalksLoad, AwaitedAdded
  <2> QED BY <2>1 DEF ConsoleAwaits
<1>5. CASE Types
  <2>1. UNCHANGED <<tasks, mount, tour>> /\ shown'.loading = shown.loading
    BY <1>1, <1>5 DEF Types, IsScreen
  <2> QED BY <2>1 DEF ConsoleAwaits
<1>6. CASE Closes
  BY <1>6 DEF Closes, ConsoleAwaits
<1>7. ASSUME NEW t, Added(tasks, tasks', t), UNCHANGED <<tour, mount, shown>> PROVE ConsoleAwaits'
  <2>1. Awaited(tasks, mount) => Awaited(tasks', mount)
    BY <1>1, <1>7, AwaitedAdded
  <2> QED BY <1>7, <2>1 DEF ConsoleAwaits
<1>8. ASSUME NEW calls, Clicks1(calls) PROVE ConsoleAwaits'
  BY <1>7, <1>8, ClickStarts
<1>9. ASSUME NEW calls, Dropped(calls), IsSequence(calls), IsDrop(calls) PROVE ConsoleAwaits'
  <2>1. UNCHANGED <<tour, mount, shown>>
    BY <1>9 DEF Dropped
  <2>2. CASE UNCHANGED tasks
    BY <2>1, <2>2 DEF ConsoleAwaits
  <2> QED BY <1>7, <1>9, <2>1, <2>2, DropStarts
<1> QED BY <1>2, <1>3, <1>4, <1>5, <1>6, <1>8, <1>9, StepsAre DEF Walks

-----------------------------------------------------------------------------
(* What the API has, and will have, is what the clicks are to come to. *)

Oks(s) == \A i \in DOMAIN s : s[i].at = "back" /\ (Loading(s[i]) \/ s[i].upload) => s[i].ok
ConsoleOks == losses = 0 => Oks(tasks)
ConsoleKeeps == ~rash /\ losses = 0 => Effects(tasks, server, meant)

\* A load has no call left.
LEMMA LoadsLeaveNothing ==
  ASSUME NEW t, IsTask(t), Loading(t)
  PROVE  Left(t) = {} /\ \A srv : Second(srv, t)
<1>1. Len(t.calls) \in Nat /\ DOMAIN t.calls = 1 .. Len(t.calls) /\ t.n \in Nat /\ t.n > Len(t.calls)
  BY TasksCall DEF Loading
<1>2. \A j \in DOMAIN t.calls : ~ (j > t.n) /\ j # t.n
  BY <1>1
<1>3. Left(t) = {}
  BY <1>2 DEF Left
<1>4. Len(t.calls) = 2 => t.n # 1 /\ t.n # 2
  BY <1>1
<1> QED BY <1>3, <1>4 DEF Second

\* Neither has one that is done, and the next call of the others is left as it was.
LEMMA OnwardLeaves ==
  ASSUME NEW t, NEW m, Handles(t, m), ~Loading(t), t.at = "back", t.upload \/ t.ok, NEW srv, Second(srv, t)
  PROVE  LET u == Onward(t) IN
         /\ Left(u) = Left(t) /\ Second(srv, u)
         /\ ~u.upload => (Left(u) # {} => Outcome(srv, u) = Outcome(srv, t))
         /\ Loading(u) => Left(t) = {}
<1> DEFINE u == Onward(t)
           n == t.n
           l == Len(t.calls)
<1>1. /\ IsTask(t) /\ IsTask(u) /\ n \in Nat /\ n # 0 /\ l \in Nat /\ DOMAIN t.calls = 1 .. l
      /\ u.calls = t.calls /\ u.upload = t.upload /\ u.n = n + 1 /\ u.at = "sent"
  BY OnwardIs, TasksCall DEF Handles
<1> HIDE DEF u
<1>2. Left(u) = Left(t)
  <2>1. \A j \in DOMAIN t.calls : (j > n + 1 \/ j = n + 1) <=> j > n
    BY <1>1
  <2>2. Left(u) = {j \in DOMAIN t.calls : j > n + 1 \/ j = n + 1}
    BY <1>1 DEF Left
  <2>3. Left(t) = {j \in DOMAIN t.calls : j > n}
    BY DEF Left
  <2> QED BY <2>1, <2>2, <2>3
<1>3. Second(srv, u)
  <2> SUFFICES ASSUME ~t.upload, l = 2 PROVE n + 1 = 2 => t.calls[2].row \in DOMAIN srv.rows
    <3>1. n + 1 # 1
      BY <1>1
    <3> QED BY <1>1, <3>1 DEF Second
  <2>1. n + 1 = 2 => n = 1
    BY <1>1
  <2> QED BY <2>1 DEF Second
<1>4. ~u.upload => (Left(u) # {} => Outcome(srv, u) = Outcome(srv, t))
  <2>1. n + 1 # 1
    BY <1>1
  <2> QED BY <1>1, <2>1 DEF Outcome
<1>5. Loading(u) => Left(u) = {}
  BY <1>1, LoadsLeaveNothing
<1> QED BY <1>2, <1>3, <1>4, <1>5 DEF u

LEMMA KeepsRun ==
  ASSUME ConsoleTypes, ConsoleKeeps, NEW i \in DOMAIN tasks, Runs(i)
  PROVE  ConsoleKeeps'
<1> DEFINE t == tasks[i]
<1>1. /\ Handles(t, mount) /\ IsSequence(tasks) /\ IsServer(server) /\ IsServer(meant) /\ IsTarget(t.target) /\ IsTask(t)
      /\ losses \in Nat /\ t.n \in Nat /\ Len(t.calls) \in Nat /\ \A j \in DOMAIN tasks : IsTask(tasks[j])
  BY TasksCall DEF ConsoleTypes, Handles
<1>2. meant' = meant /\ rash' = rash
  BY DEF Runs
<1>3. SUFFICES ASSUME ~rash, losses' = 0 PROVE Effects(tasks', server', meant)
  BY <1>2 DEF ConsoleKeeps
<1>4. ASSUME losses = 0 PROVE Effects(tasks, server, meant) /\ Second(server, t)
  BY <1>3, <1>4 DEF ConsoleKeeps, Effects
<1>5. CASE Answers(i)
  <2> DEFINE content == Answer(t.target, server)
             u == Answered(t, content)
  <2>1. Loading(t) /\ Replaced(tasks, tasks', i, u) /\ UNCHANGED <<server, losses>>
    BY <1>5 DEF Answers
  <2>2. Handles(u, mount) /\ Loading(u) /\ u.calls = t.calls /\ u.upload = t.upload
    BY <1>1, <2>1, AnsweredIs, AnswersAreScreens
  <2> HIDE DEF u
  <2>3. Left(u) = {} /\ Left(t) = {} /\ Second(server, u)
    BY <1>1, <2>1, <2>2, LoadsLeaveNothing DEF Handles
  <2>4. Effects(tasks, server, meant)
    BY <1>3, <1>4, <2>1
  <2>5. Effects(tasks', server, meant)
    BY <1>1, <2>1, <2>2, <2>3, <2>4, EffectsStay
  <2> QED BY <2>1, <2>5
<1>6. CASE Obeyed(i)
  <2> DEFINE c == t.calls[t.n]
             u == [t EXCEPT !.at = "back", !.ok = ~Refuses(server, c)]
  <2>1. /\ ~Loading(t) /\ t.at = "sent" /\ Replaced(tasks, tasks', i, u) /\ server' = Obeys(server, c)
        /\ UNCHANGED losses
    BY <1>6 DEF Obeyed, Back
  <2>2. t.n =< Len(t.calls)
    BY <1>1, <2>1 DEF Loading
  <2>3. Effects(tasks, server, meant)
    BY <1>3, <1>4, <2>1
  <2>4. u = [tasks[i] EXCEPT !.at = "back", !.ok = ~Refuses(server, tasks[i].calls[tasks[i].n])]
    OBVIOUS
  <2> HIDE DEF u
  <2>5. Effects(tasks', Obeys(server, tasks[i].calls[tasks[i].n]), meant)
    BY <1>1, <2>1, <2>2, <2>3, <2>4, EffectsOfService
  <2> QED BY <2>1, <2>5
<1>7. CASE Loses(i)
  BY <1>1, <1>3, <1>7 DEF Loses
<1>8. CASE Shows(i) \/ Fails(i)
  <2>1. Removed(tasks, tasks', i) /\ UNCHANGED <<server, losses>>
    BY <1>8 DEF Shows, Fails
  <2>2. Left(t) = {}
    <3>1. CASE Shows(i)
      BY <1>1, <3>1, LoadsLeaveNothing DEF Shows
    <3>2. CASE Fails(i)
      BY <3>2 DEF Fails, Left
    <3> QED BY <1>8, <3>1, <3>2
  <2> QED BY <1>1, <1>3, <1>4, <2>1, <2>2, EffectsWithout
<1>9. ASSUME CallsOn(i) \/ Refreshes(i)
      PROVE  /\ Effects(tasks, server, meant) /\ ~Loading(t) /\ t.at = "back" /\ (t.upload \/ t.ok) /\ Second(server, t)
             /\ UNCHANGED <<server, losses>>
  <2>1. /\ t.n < Len(t.calls) \/ t.n = Len(t.calls)
        /\ t.at = "back" /\ (t.upload \/ t.ok) /\ UNCHANGED <<server, losses>>
    BY <1>9 DEF CallsOn, Refreshes
  <2> QED BY <1>1, <1>3, <1>4, <2>1 DEF Loading
<1>10. CASE CallsOn(i)
  <2> DEFINE u == Onward(t)
  <2>1. Replaced(tasks, tasks', i, u)
    BY <1>10 DEF CallsOn
  <2>2. u.calls = t.calls /\ u.upload = t.upload
    BY <1>1, <1>9, <1>10, OnwardIs
  <2>3. /\ Left(u) = Left(t) /\ Second(server, u)
        /\ Left(u) # {} /\ ~u.upload => Outcome(server, u) = Outcome(server, t)
    BY <1>1, <1>9, <1>10, OnwardLeaves
  <2> HIDE DEF u
  <2>4. Effects(tasks', server, meant)
    BY <1>1, <1>9, <1>10, <2>1, <2>2, <2>3, EffectsStay
  <2> QED BY <1>9, <1>10, <2>4
<1>11. CASE Refreshes(i)
  <2> DEFINE u == Onward(t)
  <2>1. PICK v : Removed(tasks, v, i) /\ Added(v, tasks', u)
    BY <1>11 DEF Refreshes
  <2>2. Loading(u)
    BY <1>1, <1>9, <1>11, OnwardIs DEF Refreshes
  <2>3. Left(u) = {} /\ Left(t) = {} /\ Second(server, u)
    BY <1>1, <1>9, <1>11, <2>2, OnwardLeaves
  <2> HIDE DEF u
  <2>4. Effects(v, server, meant)
    BY <1>1, <1>9, <1>11, <2>1, <2>3, EffectsWithout
  <2>5. Effects(tasks', server, meant)
    BY <2>1, <2>3, <2>4, EffectsWith DEF Removed
  <2> QED BY <1>9, <1>11, <2>5
<1> QED BY <1>5, <1>6, <1>7, <1>8, <1>10, <1>11 DEF Runs

LEMMA KeepsStep ==
  ASSUME ConsoleTypes, ConsoleKeeps, [ConsoleNext]_consoleVars
  PROVE  ConsoleKeeps'
<1>1. /\ IsSequence(tasks) /\ IsServer(server) /\ IsServer(meant)
      /\ \A j \in DOMAIN tasks : IsTask(tasks[j]) /\ Left(tasks[j]) \subseteq DOMAIN tasks[j].calls
  BY TasksCall DEF ConsoleTypes, Handles
<1>2. CASE \E i \in DOMAIN tasks : Runs(i)
  BY <1>2, KeepsRun
<1>3. CASE UNCHANGED <<tasks, server, losses, meant, rash>>
  BY <1>3 DEF ConsoleKeeps
<1>4. CASE (Mounts \/ Reloads) /\ UNCHANGED <<server, losses, meant, rash>>
  <2> SUFFICES ASSUME Effects(tasks, server, meant) PROVE Effects(tasks', server, meant)
    BY <1>4 DEF ConsoleKeeps
  <2>1. PICK s, u : /\ IsSequence(s) /\ Added(s, tasks', u) /\ u.calls = <<>> /\ Left(u) = {} /\ ~u.upload
                    /\ s = tasks \/ \E v : Added(tasks, s, v) /\ v.calls = <<>> /\ Left(v) = {} /\ ~v.upload
    BY <1>4, WalksLoad
  <2>2. \A v : v.calls = <<>> => Second(server, v)
    BY DEF Second
  <2>3. Effects(s, server, meant)
    BY <1>1, <2>1, <2>2, EffectsWith
  <2> QED BY <2>1, <2>2, <2>3, EffectsWith
<1>5. ASSUME NEW calls, Clicks1(calls) PROVE ConsoleKeeps'
  <2>1. PICK t : /\ Handles(t, mount) /\ t.calls = calls /\ ~t.upload /\ t.n = 1 /\ t.at = "sent"
                 /\ IsClick(calls) /\ Added(tasks, tasks', t)
                 /\ meant' = Result(meant, calls) /\ (~rash' => ~rash /\ ~Clashes(calls))
                 /\ UNCHANGED <<server, losses>>
    BY <1>5, ClickStarts
  <2>2. SUFFICES ASSUME Effects(tasks, server, meant), ~Clashes(calls) PROVE Effects(tasks', server, Result(meant, calls))
    BY <2>1 DEF ConsoleKeeps
  <2>3. \A i \in DOMAIN tasks, k \in DOMAIN t.calls : \A j \in Left(tasks[i]) : ~Clash(tasks[i].calls[j], t.calls[k])
    BY <1>1, <2>1, <2>2 DEF Clashes
  <2>4. IsTask(t) /\ IsClick(t.calls)
    BY <2>1 DEF Handles
  <2> QED BY <1>1, <2>1, <2>2, <2>3, <2>4, EffectsOfClick
<1>6. ASSUME NEW calls, Dropped(calls), IsSequence(calls), IsDrop(calls) PROVE ConsoleKeeps'
  <2>1. UNCHANGED <<server, losses>> /\ (~rash' => ~rash /\ ~Clashes(calls))
    BY <1>6 DEF Dropped
  <2>2. PICK files : calls = Puts(files) /\ meant' = Wants(meant, files)
    BY <1>6 DEF Dropped
  <2>3. CASE rash'
    BY <2>3 DEF ConsoleKeeps
  <2>4. ASSUME NEW t, Handles(t, mount), t.calls = calls, t.upload, t.n = 1, t.at = "sent", Added(tasks, tasks', t)
        PROVE  ConsoleKeeps'
    <3>1. SUFFICES ASSUME Effects(tasks, server, meant), ~Clashes(calls) PROVE Effects(tasks', server, meant')
      BY <2>1 DEF ConsoleKeeps
    <3>2. \A i \in DOMAIN tasks, k \in DOMAIN t.calls : \A j \in Left(tasks[i]) : ~Clash(tasks[i].calls[j], t.calls[k])
      BY <1>1, <2>4, <3>1 DEF Clashes
    <3>3. IsTask(t) /\ t.calls = Puts(files)
      BY <2>2, <2>4 DEF Handles
    <3>4. Effects(tasks', server, Wants(meant, files))
      BY <1>1, <2>4, <3>1, <3>2, <3>3, EffectsOfDrop
    <3> QED BY <2>2, <3>4
  <2> QED BY <1>6, <2>3, <2>4, DropStarts
<1>7. Types \/ Closes \/ (Walks /\ Stays) => UNCHANGED <<tasks, server, losses, meant, rash>>
  BY DEF Types, Closes, Walks, Stays
<1>8. Walks => Stays \/ ((Mounts \/ Reloads) /\ UNCHANGED <<server, losses, meant, rash>>)
  BY DEF Walks
<1> QED BY <1>2, <1>3, <1>4, <1>5, <1>6, <1>7, <1>8, StepsAre

LEMMA OksStep ==
  ASSUME ConsoleTypes, ConsoleOks, [ConsoleNext]_consoleVars
  PROVE  ConsoleOks'
<1>1. /\ IsSequence(tasks) /\ losses \in Nat /\ \A j \in DOMAIN tasks : Handles(tasks[j], mount) /\ IsTarget(tasks[j].target)
  BY DEF ConsoleTypes, Handles
<1>2. ASSUME NEW s, NEW w, NEW u, IsSequence(s), Added(s, w, u), Oks(s), u.at = "sent" PROVE Oks(w)
  <2>1. \A j \in DOMAIN w : w[j] = u \/ (j \in DOMAIN s /\ w[j] = s[j])
    BY <1>2, Places DEF Added
  <2> QED BY <1>2, <2>1 DEF Oks
<1>3. ASSUME NEW w, NEW i \in DOMAIN tasks, Removed(tasks, w, i), Oks(tasks) PROVE Oks(w)
  <2>1. \A j \in DOMAIN w : \E k \in DOMAIN tasks : w[j] = tasks[k]
    BY <1>1, <1>3, RemovedLeaves DEF Removed
  <2> QED BY <1>3, <2>1 DEF Oks
<1>4. ASSUME NEW i \in DOMAIN tasks, Runs(i) PROVE ConsoleOks'
  <2> DEFINE t == tasks[i]
  <2>1. t.n \in Nat /\ Len(t.calls) \in Nat /\ DOMAIN t.calls = 1 .. Len(t.calls) /\ IsTask(t) /\ t.n # 0
    BY <1>1, TasksCall DEF Handles
  <2>2. CASE Loses(i)
    <3>1. losses' # 0
      BY <1>1, <2>2 DEF Loses
    <3> QED BY <3>1 DEF ConsoleOks
  <2>3. SUFFICES ASSUME ~Loses(i), Oks(tasks) PROVE Oks(tasks')
    BY <1>4, <2>2 DEF Runs, ConsoleOks, Answers, Obeyed, Shows, Fails, CallsOn, Refreshes
  <2>4. CASE Answers(i)
    <3> DEFINE content == Answer(t.target, server)
               u == Answered(t, content)
    <3>1. Loading(t) /\ Replaced(tasks, tasks', i, u)
      BY <2>4 DEF Answers
    <3>2. u.ok
      BY <1>1, <3>1, AnsweredIs, AnswersAreScreens
    <3> HIDE DEF u
    <3> QED BY <2>3, <3>1, <3>2 DEF Oks, Replaced
  <2>5. CASE Obeyed(i)
    <3> DEFINE ok == ~Refuses(server, t.calls[t.n])
               u == Back(t, ok)
    <3>1. ~Loading(t) /\ Replaced(tasks, tasks', i, u) /\ ok \in BOOLEAN
      BY <2>5 DEF Obeyed
    <3>2. t.upload => ok
      <4> SUFFICES ASSUME t.upload PROVE ok
        OBVIOUS
      <4>1. t.n \in DOMAIN t.calls
        BY <2>1, <3>1 DEF Loading
      <4>2. PICK k : t.calls[t.n] = OnKeys("put", {}, {k})
        BY <2>1, <4>1 DEF IsTask, IsDrop
      <4>3. t.calls[t.n].how = "put"
        BY <4>2 DEF OnKeys
      <4> QED BY <4>3 DEF Refuses
    <3> HIDE DEF ok
    <3>3. u.ok = ok /\ u.upload = t.upload /\ ~Loading(u)
      BY <1>1, <3>1, BackIs
    <3> HIDE DEF u
    <3> QED BY <2>3, <3>1, <3>2, <3>3 DEF Oks, Replaced
  <2>6. CASE Shows(i) \/ Fails(i)
    BY <1>3, <2>3, <2>6 DEF Shows, Fails
  <2>7. ASSUME CallsOn(i) \/ Refreshes(i) PROVE ~Loading(t) /\ Onward(t).at = "sent"
    <3>1. t.n < Len(t.calls) \/ t.n = Len(t.calls)
      BY <2>7 DEF CallsOn, Refreshes
    <3>2. ~Loading(t)
      BY <2>1, <3>1 DEF Loading
    <3> QED BY <1>1, <3>2, OnwardIs
  <2>8. CASE CallsOn(i)
    <3>1. Replaced(tasks, tasks', i, Onward(t))
      BY <2>8 DEF CallsOn
    <3> QED BY <2>3, <2>7, <2>8, <3>1 DEF Oks, Replaced
  <2>9. CASE Refreshes(i)
    <3>1. PICK v : Removed(tasks, v, i) /\ Added(v, tasks', Onward(t))
      BY <2>9 DEF Refreshes
    <3>2. Oks(v) /\ IsSequence(v)
      BY <1>3, <2>3, <3>1 DEF Removed
    <3> QED BY <1>2, <2>7, <2>9, <3>1, <3>2
  <2> QED BY <1>4, <2>3, <2>4, <2>5, <2>6, <2>8, <2>9 DEF Runs
<1>5. CASE UNCHANGED <<tasks, losses>>
  BY <1>5 DEF ConsoleOks
<1>6. CASE (Mounts \/ Reloads) /\ UNCHANGED losses
  <2> SUFFICES ASSUME Oks(tasks) PROVE Oks(tasks')
    BY <1>6 DEF ConsoleOks
  <2>1. PICK s, u : /\ IsSequence(s) /\ Added(s, tasks', u) /\ u.at = "sent"
                    /\ s = tasks \/ \E v : Added(tasks, s, v) /\ v.at = "sent"
    BY <1>6, WalksLoad
  <2>2. Oks(s)
    BY <1>1, <1>2, <2>1
  <2> QED BY <1>2, <2>1, <2>2
<1>7. ASSUME NEW t, Added(tasks, tasks', t), t.at = "sent", UNCHANGED losses PROVE ConsoleOks'
  <2>1. Oks(tasks) => Oks(tasks')
    BY <1>1, <1>2, <1>7
  <2> QED BY <1>7, <2>1 DEF ConsoleOks
<1>8. ASSUME NEW calls, Clicks1(calls) PROVE ConsoleOks'
  BY <1>7, <1>8, ClickStarts
<1>9. ASSUME NEW calls, Dropped(calls), IsSequence(calls), IsDrop(calls) PROVE ConsoleOks'
  <2>1. UNCHANGED losses
    BY <1>9 DEF Dropped
  <2> QED BY <1>5, <1>7, <1>9, <2>1, DropStarts
<1>10. Types \/ Closes \/ (Walks /\ Stays) => UNCHANGED <<tasks, losses>>
  BY DEF Types, Closes, Walks, Stays
<1>11. Walks => Stays \/ ((Mounts \/ Reloads) /\ UNCHANGED losses)
  BY DEF Walks
<1> QED BY <1>4, <1>5, <1>6, <1>8, <1>9, <1>10, <1>11, StepsAre

-----------------------------------------------------------------------------
(* What a screen shows. *)

\* The last of those that load it decides what a screen will show, unless one that
\* has changed something is still to refresh it.
Last(s, m, i) == Awaits(s[i], m) /\ \A j \in DOMAIN s : j > i => ~Awaits(s[j], m)
Owes(t) == ~Loading(t) /\ (t.upload \/ t.n > 1 \/ (t.at = "back" /\ t.ok))
Settled(s) == \A i \in DOMAIN s : ~Owes(s[i])
ShowsAnswer(p, srv, c) ==
    LET a == Answer(Target(p), srv) IN
    c.listing = a.listing /\ c.rows = a.rows /\ (p.screen = "policy" => c.typed \/ c.text = a.text)
Fresh(s, m, p, srv, c) ==
    /\ \A i \in DOMAIN s : Last(s, m, i) => s[i].target = Target(p)
    /\ Settled(s) =>
          /\ \A i \in DOMAIN s : Last(s, m, i) /\ s[i].at = "back" => s[i].content = Answer(Target(p), srv)
          /\ ~Awaited(s, m) => ShowsAnswer(p, srv, c)
Writes(t, m, p) == t.calls # <<>> => t.mount = m /\ t.target = Target(p)
Writers(s, m, p) == \A i \in DOMAIN s : Writes(s[i], m, p)
Leads(p, keys, walks) ==
    /\ p.tokens[1] = 0
    /\ \A i, j \in DOMAIN p.tokens : i < j => p.tokens[i] < p.tokens[j]
    /\ walks => \A j \in 1 .. Len(p.tokens) - 1 : p.tokens[j + 1] = PageAt(p.folder, p.tokens[j], keys).next

Undisturbed == ~rash /\ losses = 0 /\ ~lost /\ tour.screens # {}
ConsoleFresh ==
    Undisturbed =>
        /\ Writers(tasks, mount, place)
        /\ Fresh(tasks, mount, place, server, shown)
        /\ Leads(place, server.keys, tour.deeds = {"walk"})

\* A load that has just been sent is the last.
LEMMA FreshWithLoad ==
  ASSUME NEW s, IsSequence(s), NEW w, NEW u, Added(s, w, u), NEW m, NEW p, Awaits(u, m), u.target = Target(p), u.at = "sent",
         NEW srv, NEW c
  PROVE  Fresh(w, m, p, srv, c)
<1>1. Len(s) \in Nat /\ DOMAIN w = 1 .. Len(s) + 1 /\ w[Len(s) + 1] = u
  BY Places DEF Added
<1>2. Len(s) + 1 \in DOMAIN w /\ \A i \in DOMAIN w : i # Len(s) + 1 => Len(s) + 1 > i
  BY <1>1
<1>3. \A i \in DOMAIN w : Last(w, m, i) => i = Len(s) + 1
  BY <1>1, <1>2 DEF Last
<1>4. Awaited(w, m) /\ u.at # "back"
  BY <1>1, <1>2 DEF Awaited
<1>5. \A i \in DOMAIN w : Last(w, m, i) => w[i] = u
  BY <1>1, <1>3
<1> QED BY <1>4, <1>5 DEF Fresh

\* A handler that has a call to make is not, and owes no less than before.
LEMMA FreshWithCall ==
  ASSUME NEW s, IsSequence(s), NEW w, NEW u, Added(s, w, u), NEW m, ~Awaits(u, m), NEW p, NEW srv, NEW c, Fresh(s, m, p, srv, c)
  PROVE  Fresh(w, m, p, srv, c)
<1>1. /\ Len(s) \in Nat /\ DOMAIN s = 1 .. Len(s) /\ DOMAIN w = 1 .. Len(s) + 1 /\ w[Len(s) + 1] = u
      /\ \A j \in DOMAIN s : w[j] = s[j]
  BY Places DEF Added
<1>2. DOMAIN s \subseteq DOMAIN w /\ \A j \in DOMAIN w : j = Len(s) + 1 \/ j \in DOMAIN s
  BY <1>1
<1>3. Settled(w) => Settled(s)
  BY <1>1, <1>2 DEF Settled
<1>4. Awaited(s, m) => Awaited(w, m)
  BY AwaitedAdded
<1>5. ASSUME NEW i \in DOMAIN w, Last(w, m, i) PROVE i \in DOMAIN s /\ w[i] = s[i] /\ Last(s, m, i)
  <2>1. i \in DOMAIN s
    BY <1>1, <1>2, <1>5 DEF Last
  <2> QED BY <1>1, <1>2, <1>5, <2>1 DEF Last
<1> QED BY <1>3, <1>4, <1>5 DEF Fresh

\* One that loads nothing may be replaced by another: it owes a refresh, or nothing
\* has changed.
LEMMA FreshReplaced ==
  ASSUME NEW s, NEW i \in DOMAIN s, NEW w, NEW u, Replaced(s, w, i, u), NEW m, ~Loading(s[i]), ~Loading(u),
         NEW p, NEW srv, NEW srv1, NEW c, Fresh(s, m, p, srv, c),
         Owes(u) \/ (srv1 = srv /\ ~Owes(s[i]))
  PROVE  Fresh(w, m, p, srv1, c)
<1>1. DOMAIN w = DOMAIN s /\ w[i] = u /\ \A j \in DOMAIN s \ {i} : w[j] = s[j]
  BY DEF Replaced
<1>2. \A j \in DOMAIN s : Awaits(w[j], m) <=> Awaits(s[j], m)
  BY <1>1 DEF Awaits
<1>3. \A j \in DOMAIN s : Awaits(s[j], m) => w[j] = s[j]
  BY <1>1 DEF Awaits
<1>4. \A j \in DOMAIN s : Last(w, m, j) <=> Last(s, m, j)
  BY <1>1, <1>2 DEF Last
<1>5. \A j \in DOMAIN s : Last(s, m, j) => w[j] = s[j]
  BY <1>3 DEF Last
<1>6. Awaited(w, m) <=> Awaited(s, m)
  BY <1>1, <1>2 DEF Awaited
<1>7. Settled(w) => srv1 = srv /\ Settled(s)
  BY <1>1 DEF Settled
<1> QED BY <1>1, <1>4, <1>5, <1>6, <1>7 DEF Fresh

\* The answer to a load is what the API has now.
LEMMA FreshAnswered ==
  ASSUME NEW s, NEW i \in DOMAIN s, NEW w, NEW u, Replaced(s, w, i, u), NEW m, Loading(s[i]), Loading(u), u.mount = s[i].mount,
         u.target = s[i].target, NEW srv, u.content = Answer(u.target, srv), s[i].at = "sent",
         NEW p, NEW c, Fresh(s, m, p, srv, c)
  PROVE  Fresh(w, m, p, srv, c)
<1>1. DOMAIN w = DOMAIN s /\ w[i] = u /\ \A j \in DOMAIN s \ {i} : w[j] = s[j]
  BY DEF Replaced
<1>2. \A j \in DOMAIN s : Awaits(w[j], m) <=> Awaits(s[j], m)
  BY <1>1 DEF Awaits
<1>3. \A j \in DOMAIN s : Last(w, m, j) <=> Last(s, m, j)
  BY <1>1, <1>2 DEF Last
<1>4. Awaited(w, m) <=> Awaited(s, m)
  BY <1>1, <1>2 DEF Awaited
<1>5. Settled(w) => Settled(s)
  BY <1>1 DEF Settled, Owes
<1>6. \A j \in DOMAIN s : w[j].target = s[j].target
  BY <1>1
<1>7. ASSUME Settled(w), NEW j \in DOMAIN s, Last(w, m, j), w[j].at = "back" PROVE w[j].content = Answer(Target(p), srv)
  <2>1. s[j].target = Target(p)
    BY <1>3, <1>7 DEF Fresh
  <2>2. CASE j = i
    BY <1>1, <2>1, <2>2
  <2>3. CASE j # i
    BY <1>1, <1>3, <1>5, <1>7, <2>3 DEF Fresh
  <2> QED BY <2>2, <2>3
<1> QED BY <1>1, <1>3, <1>4, <1>5, <1>6, <1>7 DEF Fresh

\* The places in a sequence from which one was taken, in the same order.
LEMMA PlacesWithout ==
  ASSUME NEW s, IsSequence(s), NEW i \in DOMAIN s, NEW w, Removed(s, w, i)
  PROVE  /\ \A j \in DOMAIN w : \E k \in DOMAIN s \ {i} : w[j] = s[k] /\ \A l \in DOMAIN s : l > k /\ l # i => \E h \in DOMAIN w : h > j /\ w[h] = s[l]
         /\ \A k \in DOMAIN s \ {i} : \E j \in DOMAIN w : w[j] = s[k]
<1> DEFINE at(j) == IF j < i THEN j ELSE j + 1
           to(k) == IF k < i THEN k ELSE k - 1
<1>1. /\ Len(s) \in Nat /\ DOMAIN s = 1 .. Len(s) /\ DOMAIN w = 1 .. Len(s) - 1 /\ i \in 1 .. Len(s)
      /\ \A j \in DOMAIN w : w[j] = s[at(j)]
  BY Places DEF Removed
<1> DEFINE n == Len(s)
<1> HIDE DEF n
<1>2. n \in Nat /\ DOMAIN s = 1 .. n /\ DOMAIN w = 1 .. n - 1 /\ i \in 1 .. n
  BY <1>1 DEF n
<1>3. \A j \in 1 .. n - 1 : at(j) \in (1 .. n) \ {i}
  BY <1>2
<1>4. \A k \in (1 .. n) \ {i} : to(k) \in 1 .. n - 1 /\ at(to(k)) = k
  BY <1>2
<1>5. \A j \in 1 .. n - 1, k \in (1 .. n) \ {i} : k > at(j) => to(k) > j
  BY <1>2
<1> HIDE DEF at, to
<1>6. \A k \in DOMAIN s \ {i} : to(k) \in DOMAIN w /\ w[to(k)] = s[k]
  BY <1>1, <1>2, <1>4
<1>7. ASSUME NEW j \in DOMAIN w, NEW l \in DOMAIN s, l > at(j), l # i PROVE \E h \in DOMAIN w : h > j /\ w[h] = s[l]
  BY <1>2, <1>5, <1>6, <1>7
<1>8. ASSUME NEW j \in DOMAIN w
      PROVE  \E k \in DOMAIN s \ {i} : w[j] = s[k] /\ \A l \in DOMAIN s : l > k /\ l # i => \E h \in DOMAIN w : h > j /\ w[h] = s[l]
  BY <1>1, <1>2, <1>3, <1>7
<1> QED BY <1>6, <1>8

\* A load that is not the last, and what neither loads nor has changed anything,
\* may go.
LEMMA FreshWithout ==
  ASSUME NEW s, IsSequence(s), NEW i \in DOMAIN s, NEW w, Removed(s, w, i), NEW m, NEW p, NEW srv, NEW c, NEW d,
         Fresh(s, m, p, srv, c), ~Owes(s[i]),
         (~Awaits(s[i], m) /\ d = c) \/ \E k \in DOMAIN s : k > i /\ Awaits(s[k], m)
  PROVE  Fresh(w, m, p, srv, d)
<1>0. DOMAIN s \subseteq Nat
  BY Places
<1>1. /\ \A j \in DOMAIN w : \E k \in DOMAIN s \ {i} :
              w[j] = s[k] /\ \A l \in DOMAIN s : l > k /\ l # i => \E h \in DOMAIN w : h > j /\ w[h] = s[l]
      /\ \A k \in DOMAIN s \ {i} : \E j \in DOMAIN w : w[j] = s[k]
  BY PlacesWithout
<1>2. Settled(w) => Settled(s)
  BY <1>1 DEF Settled
<1>3. ASSUME NEW j \in DOMAIN w, Last(w, m, j) PROVE \E k \in DOMAIN s : w[j] = s[k] /\ Last(s, m, k)
  <2>1. PICK k \in DOMAIN s \ {i} :
              w[j] = s[k] /\ \A l \in DOMAIN s : l > k /\ l # i => \E h \in DOMAIN w : h > j /\ w[h] = s[l]
    BY <1>1
  <2>2. \A l \in DOMAIN s : l > k /\ l # i => ~Awaits(s[l], m)
    BY <1>3, <2>1 DEF Last
  <2>3. i > k => ~Awaits(s[i], m)
    <3> SUFFICES ASSUME i > k, NEW l \in DOMAIN s, l > i, Awaits(s[l], m) PROVE FALSE
      OBVIOUS
    <3>1. l > k /\ l # i
      BY <1>0
    <3> QED BY <2>2, <3>1
  <2>4. \A l \in DOMAIN s : l > k => ~Awaits(s[l], m)
    BY <2>2, <2>3
  <2> QED BY <1>3, <2>1, <2>4 DEF Last
<1>4. ~Awaited(w, m) => ~Awaited(s, m) /\ d = c
  <2> SUFFICES ASSUME ~Awaited(w, m) PROVE ~Awaited(s, m) /\ d = c
    OBVIOUS
  <2>1. \A k \in DOMAIN s \ {i} : ~Awaits(s[k], m)
    BY <1>1 DEF Awaited
  <2>2. \A k \in DOMAIN s : k > i => k # i
    BY <1>0
  <2> QED BY <2>1, <2>2 DEF Awaited
<1> QED BY <1>2, <1>3, <1>4 DEF Fresh

\* The last answer to come is shown.
LEMMA FreshShown ==
  ASSUME NEW s, IsSequence(s), NEW i \in DOMAIN s, NEW w, Removed(s, w, i), NEW m, NEW p, NEW srv, NEW c,
         Fresh(s, m, p, srv, c), Awaits(s[i], m), s[i].at = "back",
         \A k \in DOMAIN s \ {i} : ~Awaits(s[k], m)
  PROVE  Fresh(w, m, p, srv, s[i].content)
<1>0. DOMAIN s \subseteq Nat
  BY Places
<1>1. /\ \A j \in DOMAIN w : \E k \in DOMAIN s \ {i} : w[j] = s[k]
      /\ \A k \in DOMAIN s \ {i} : \E j \in DOMAIN w : w[j] = s[k]
  BY PlacesWithout
<1>2. ~Owes(s[i])
  BY DEF Awaits, Owes
<1>3. Settled(w) => Settled(s)
  BY <1>1, <1>2 DEF Settled
<1>4. \A j \in DOMAIN w : ~Awaits(w[j], m)
  BY <1>1
<1>5. Last(s, m, i)
  <2>1. \A k \in DOMAIN s : k > i => k # i
    BY <1>0
  <2> QED BY <2>1 DEF Last
<1>6. Settled(s) => s[i].content = Answer(Target(p), srv)
  BY <1>5 DEF Fresh
<1>7. Settled(w) => ShowsAnswer(p, srv, s[i].content)
  BY <1>3, <1>6 DEF ShowsAnswer
<1> QED BY <1>4, <1>7 DEF Fresh, Last

\* What handlers write for, when one is added, goes, or is replaced.
LEMMA WritersAdded ==
  ASSUME NEW s, IsSequence(s), NEW w, NEW u, Added(s, w, u), NEW m, NEW p, Writers(s, m, p), Writes(u, m, p)
  PROVE  Writers(w, m, p)
<1>1. \A j \in DOMAIN w : w[j] = u \/ (j \in DOMAIN s /\ w[j] = s[j])
  BY Places DEF Added
<1> QED BY <1>1 DEF Writers

LEMMA WritersRemoved ==
  ASSUME NEW s, IsSequence(s), NEW i \in DOMAIN s, NEW w, Removed(s, w, i), NEW m, NEW p, Writers(s, m, p)
  PROVE  Writers(w, m, p)
<1>1. \A j \in DOMAIN w : \E k \in DOMAIN s : w[j] = s[k]
  BY PlacesWithout
<1> QED BY <1>1 DEF Writers

LEMMA WritersReplaced ==
  ASSUME NEW s, NEW i \in DOMAIN s, NEW w, NEW u, Replaced(s, w, i, u), NEW m, NEW p, Writers(s, m, p),
         u.calls = s[i].calls, u.mount = s[i].mount, u.target = s[i].target
  PROVE  Writers(w, m, p)
BY DEF Writers, Writes, Replaced

\* Where the user only walks, no call is about keys.
Quiet(s) == \A i \in DOMAIN s : \A k \in DOMAIN s[i].calls : s[i].calls[k].part # "keys"
ConsoleQuiet == tour.deeds = {"walk"} => Quiet(tasks)

LEMMA QuietCalls ==
  ASSUME NEW srv, IsServer(srv), NEW d, IsCall(d), d.part # "keys"
  PROVE  Obeys(srv, d).keys = srv.keys
BY Parts, ObeysPolicy, ObeysRow

LEMMA QuietStep ==
  ASSUME ConsoleTypes, ConsoleQuiet, [ConsoleNext]_consoleVars
  PROVE  ConsoleQuiet'
<1>1. IsSequence(tasks) /\ \A j \in DOMAIN tasks : Handles(tasks[j], mount) /\ IsTarget(tasks[j].target)
  BY DEF ConsoleTypes, Handles
<1>2. ASSUME NEW s, NEW w, NEW u, IsSequence(s), Added(s, w, u), Quiet(s), \A k \in DOMAIN u.calls : u.calls[k].part # "keys"
      PROVE  Quiet(w)
  <2>1. \A j \in DOMAIN w : w[j] = u \/ (j \in DOMAIN s /\ w[j] = s[j])
    BY <1>2, Places DEF Added
  <2> QED BY <1>2, <2>1 DEF Quiet
<1>3. ASSUME NEW w, NEW i \in DOMAIN tasks, Removed(tasks, w, i), Quiet(tasks) PROVE Quiet(w)
  <2>1. \A j \in DOMAIN w : \E k \in DOMAIN tasks : w[j] = tasks[k]
    BY <1>1, <1>3, PlacesWithout
  <2> QED BY <1>3, <2>1 DEF Quiet
<1>4. ASSUME NEW w, NEW i \in DOMAIN tasks, NEW u, Replaced(tasks, w, i, u), u.calls = tasks[i].calls, Quiet(tasks)
      PROVE  Quiet(w)
  BY <1>4 DEF Quiet, Replaced
<1>5. ASSUME NEW i \in DOMAIN tasks, Runs(i) PROVE ConsoleQuiet'
  <2> DEFINE t == tasks[i]
  <2>1. tour' = tour
    BY <1>5 DEF Runs
  <2>2. SUFFICES ASSUME Quiet(tasks) PROVE Quiet(tasks')
    BY <2>1 DEF ConsoleQuiet
  <2>3. CASE Answers(i)
    <3> DEFINE u == Answered(t, Answer(t.target, server))
    <3>1. Loading(t) /\ Replaced(tasks, tasks', i, u)
      BY <2>3 DEF Answers
    <3>2. u.calls = t.calls
      BY <1>1, <3>1, AnsweredIs, AnswersAreScreens
    <3> HIDE DEF u
    <3> QED BY <1>4, <2>2, <3>1, <3>2
  <2>4. CASE Obeyed(i)
    <3> DEFINE ok == ~Refuses(server, t.calls[t.n])
               u == Back(t, ok)
    <3>1. ~Loading(t) /\ Replaced(tasks, tasks', i, u) /\ ok \in BOOLEAN
      BY <2>4 DEF Obeyed
    <3> HIDE DEF ok
    <3>2. u.calls = t.calls
      BY <1>1, <3>1, BackIs
    <3> HIDE DEF u
    <3> QED BY <1>4, <2>2, <3>1, <3>2
  <2>5. CASE Loses(i)
    <3> DEFINE u == Back(t, FALSE)
    <3>1. Replaced(tasks, tasks', i, u)
      BY <2>5 DEF Loses
    <3>2. u.calls = t.calls
      BY <1>1, FailedIs
    <3> HIDE DEF u
    <3> QED BY <1>4, <2>2, <3>1, <3>2
  <2>6. CASE Shows(i) \/ Fails(i)
    BY <1>3, <2>2, <2>6 DEF Shows, Fails
  <2>7. ASSUME CallsOn(i) \/ Refreshes(i) PROVE Onward(t).calls = t.calls
    <3>1. t.n < Len(t.calls) \/ t.n = Len(t.calls)
      BY <2>7 DEF CallsOn, Refreshes
    <3>2. ~Loading(t)
      <4>1. t.n \in Nat /\ Len(t.calls) \in Nat
        BY <1>1, TasksCall DEF Handles
      <4> QED BY <3>1, <4>1 DEF Loading
    <3> QED BY <1>1, <3>2, OnwardIs
  <2>8. CASE CallsOn(i)
    <3>1. Replaced(tasks, tasks', i, Onward(t))
      BY <2>8 DEF CallsOn
    <3> QED BY <1>4, <2>2, <2>7, <2>8, <3>1
  <2>9. CASE Refreshes(i)
    <3>1. PICK v : Removed(tasks, v, i) /\ Added(v, tasks', Onward(t))
      BY <2>9 DEF Refreshes
    <3>2. Quiet(v) /\ IsSequence(v)
      BY <1>3, <2>2, <3>1 DEF Removed
    <3>3. \A k \in DOMAIN Onward(t).calls : Onward(t).calls[k].part # "keys"
      BY <2>2, <2>7, <2>9 DEF Quiet
    <3> QED BY <1>2, <3>1, <3>2, <3>3
  <2> QED BY <1>5, <2>3, <2>4, <2>5, <2>6, <2>8, <2>9 DEF Runs
<1>6. CASE UNCHANGED <<tour, tasks>>
  BY <1>6 DEF ConsoleQuiet
<1>7. CASE (Mounts \/ Reloads) /\ UNCHANGED tour
  <2>1. SUFFICES ASSUME Quiet(tasks) PROVE Quiet(tasks')
    BY <1>7 DEF ConsoleQuiet
  <2>2. PICK s, u : /\ IsSequence(s) /\ Added(s, tasks', u) /\ u.calls = <<>>
                    /\ s = tasks \/ \E v : Added(tasks, s, v) /\ v.calls = <<>>
    BY <1>7, WalksLoad
  <2>3. DOMAIN <<>> = {}
    OBVIOUS
  <2>4. Quiet(s)
    BY <1>1, <1>2, <2>1, <2>2, <2>3
  <2> QED BY <1>2, <2>2, <2>3, <2>4
<1>8. ASSUME NEW t, Added(tasks, tasks', t), UNCHANGED tour, tour.deeds = {"walk"} => \A k \in DOMAIN t.calls : t.calls[k].part # "keys"
      PROVE  ConsoleQuiet'
  <2>1. tour.deeds = {"walk"} => (Quiet(tasks) => Quiet(tasks'))
    BY <1>1, <1>2, <1>8
  <2> QED BY <1>8, <2>1 DEF ConsoleQuiet
<1>9. tour.deeds = {"walk"} => ~May("change") /\ ~May("drop")
  BY DEF May
<1>10. ASSUME NEW calls, Clicks1(calls) PROVE ConsoleQuiet'
  <2>1. PICK t : t.calls = calls /\ Added(tasks, tasks', t) /\ UNCHANGED tour
    BY <1>10, ClickStarts
  <2>2. \A k \in DOMAIN calls : calls[k].part \in {"rows", "policy"} \cup IF May("change") THEN {"keys"} ELSE {}
    BY <1>10 DEF Clicks1, Clicked
  <2>3. ~May("change") => \A k \in DOMAIN calls : calls[k].part # "keys"
    BY <2>2
  <2> QED BY <1>8, <1>9, <2>1, <2>3
<1>11. ASSUME NEW calls, Dropped(calls), IsSequence(calls), IsDrop(calls) PROVE ConsoleQuiet'
  <2>1. UNCHANGED tour /\ tour.deeds # {"walk"}
    BY <1>9, <1>11 DEF Dropped
  <2> QED BY <2>1 DEF ConsoleQuiet
<1>12. Types \/ Closes \/ (Walks /\ Stays) => UNCHANGED <<tour, tasks>>
  <2>1. Types => UNCHANGED <<tour, tasks>>
    BY DEF Types
  <2>2. Closes => UNCHANGED <<tour, tasks>>
    BY DEF Closes
  <2>3. Walks /\ Stays => UNCHANGED <<tour, tasks>>
    BY DEF Walks, Stays
  <2> QED BY <2>1, <2>2, <2>3
<1>13. Walks => Stays \/ ((Mounts \/ Reloads) /\ UNCHANGED tour)
  BY DEF Walks
<1> QED BY <1>5, <1>6, <1>7, <1>10, <1>11, <1>12, <1>13, StepsAre

\* The pages lead on where the user goes, and stay while no key changes.
LEMMA LeadsStay ==
  ASSUME NEW p, NEW q, q.tokens = p.tokens, q.folder = p.folder, NEW keys, NEW other, NEW walks,
         walks => other = keys, Leads(p, keys, walks)
  PROVE  Leads(q, other, walks)
BY DEF Leads

LEMMA LeadsFirst ==
  ASSUME NEW p, IsPlace(p), NEW q, q.tokens = p.tokens, NEW keys, NEW other, NEW walks, Leads(p, keys, walks), Len(p.tokens) =< 1
  PROVE  Leads(q, other, walks)
<1>1. Len(p.tokens) \in Nat
  BY DEF IsPlace
<1>2. 1 .. Len(p.tokens) - 1 = {}
  BY <1>1
<1> QED BY <1>2 DEF Leads

LEMMA LeadsFromStart ==
  ASSUME NEW p, p.tokens = << 0 >>, NEW keys, NEW walks
  PROVE  Leads(p, keys, walks)
<1>1. Len(<<0>>) = 1 /\ DOMAIN <<0>> = {1} /\ <<0>>[1] = 0 /\ 1 .. 1 - 1 = {}
  OBVIOUS
<1>2. ~ (1 < 1)
  OBVIOUS
<1> QED BY <1>1, <1>2 DEF Leads

LEMMA LeadsFurther ==
  ASSUME NEW p, IsPlace(p), p.page = Len(p.tokens), NEW keys, NEW walks, Leads(p, keys, walks),
         NEW next, next = PageAt(p.folder, p.tokens[p.page], keys).next, next # 0,
         NEW q, q.tokens = Append(p.tokens, next), q.folder = p.folder
  PROVE  Leads(q, keys, walks)
<1> DEFINE l == Len(p.tokens)
<1>1. p.tokens \in Seq(Nat) /\ l \in Nat /\ l \in 1 .. l /\ DOMAIN p.tokens = 1 .. l /\ \A j \in 1 .. l : p.tokens[j] \in Nat
  BY DEF IsPlace
<1>2. next \in Nat /\ p.tokens[l] < next
  BY <1>1, PagesLeadOn DEF IsPlace
<1>3. Len(q.tokens) = l + 1 /\ DOMAIN q.tokens = 1 .. l + 1 /\ q.tokens[l + 1] = next /\ \A j \in 1 .. l : q.tokens[j] = p.tokens[j]
  BY <1>1, <1>2
<1> DEFINE a(j) == p.tokens[j]
           b(j) == q.tokens[j]
<1>4. /\ l \in Nat /\ l >= 1 /\ \A j \in 1 .. l : a(j) \in Nat /\ b(j) = a(j)
      /\ b(l + 1) = next /\ a(l) < next /\ next \in Nat
  BY <1>1, <1>2, <1>3
<1>0. \A i, j \in 1 .. l : i < j => a(i) < a(j)
  BY <1>1 DEF Leads
<1>5. b(1) = 0
  <2>1. a(1) = 0 /\ 1 \in 1 .. l
    BY <1>4 DEF Leads
  <2> QED BY <1>4, <2>1
<1> HIDE DEF a, b, l
<1>6. ASSUME NEW i \in 1 .. l + 1, NEW j \in 1 .. l + 1, i < j PROVE b(i) < b(j)
  <2>1. CASE j \in 1 .. l
    <3>1. i \in 1 .. l
      BY <1>4, <1>6, <2>1
    <3> QED BY <1>0, <1>4, <1>6, <2>1, <3>1
  <2>2. CASE j = l + 1
    <3>1. i \in 1 .. l /\ l \in 1 .. l /\ (i = l \/ i < l)
      BY <1>4, <1>6, <2>2
    <3>2. a(i) = a(l) \/ a(i) < a(l)
      BY <1>0, <3>1
    <3> QED BY <1>4, <2>2, <3>1, <3>2
  <2> QED BY <1>4, <2>1, <2>2
<1>7. ASSUME walks, NEW j \in 1 .. (l + 1) - 1 PROVE b(j + 1) = PageAt(q.folder, b(j), keys).next
  <2>1. CASE j = l
    <3>1. b(j + 1) = next /\ b(j) = a(j) /\ next = PageAt(p.folder, a(l), keys).next
      BY <1>4, <2>1 DEF a, l
    <3> QED BY <2>1, <3>1
  <2>2. CASE j # l
    <3>1. j \in 1 .. l /\ j + 1 \in 1 .. l /\ j \in 1 .. l - 1
      BY <1>4, <2>2
    <3>2. a(j + 1) = PageAt(p.folder, a(j), keys).next
      BY <1>7, <3>1 DEF Leads, a, l
    <3> QED BY <1>4, <3>1, <3>2
  <2> QED BY <2>1, <2>2
<1> QED BY <1>3, <1>5, <1>6, <1>7 DEF Leads, b, l

LEMMA FreshRun ==
  ASSUME ConsoleTypes, ConsoleOks, ConsoleKeeps, ConsoleQuiet, ConsoleFresh, NEW i \in DOMAIN tasks, Runs(i)
  PROVE  ConsoleFresh'
<1> DEFINE t == tasks[i]
           walks == tour.deeds = {"walk"}
<1>1. /\ Handles(t, mount) /\ IsSequence(tasks) /\ IsServer(server) /\ IsTarget(t.target) /\ IsTask(t) /\ IsScreen(shown)
      /\ losses \in Nat /\ rash \in BOOLEAN /\ lost \in BOOLEAN /\ t.n \in Nat /\ t.n # 0 /\ Len(t.calls) \in Nat
      /\ DOMAIN t.calls = 1 .. Len(t.calls) /\ \A j \in DOMAIN t.calls : IsCall(t.calls[j])
  BY TasksCall DEF ConsoleTypes, Handles
<1>2. UNCHANGED <<tour, place, mount, rash>>
  BY DEF Runs
<1>3. SUFFICES ASSUME ~rash, losses' = 0, ~lost', tour.screens # {}
               PROVE  /\ Writers(tasks', mount, place) /\ Fresh(tasks', mount, place, server', shown')
                      /\ Leads(place, server'.keys, walks)
  BY <1>2 DEF ConsoleFresh, Undisturbed
<1>4. ~Loses(i) /\ losses = 0 /\ ~lost
  <2>1. ASSUME Loses(i) PROVE FALSE
    <3>1. losses' = losses + 1
      BY <2>1 DEF Loses
    <3> QED BY <1>1, <1>3, <3>1
  <2> QED BY <1>1, <1>3, <2>1 DEF Runs, Answers, Obeyed, Shows, Fails, CallsOn, Refreshes
<1>5. Writers(tasks, mount, place) /\ Fresh(tasks, mount, place, server, shown) /\ Leads(place, server.keys, walks)
  BY <1>3, <1>4 DEF ConsoleFresh, Undisturbed
<1>6. Writes(t, mount, place)
  BY <1>5 DEF Writers
<1>7. Second(server, t) /\ Oks(tasks)
  BY <1>3, <1>4 DEF ConsoleKeeps, Effects, ConsoleOks
<1> HIDE DEF walks
<1>8. CASE Answers(i)
  <2> DEFINE content == Answer(t.target, server)
             u == Answered(t, content)
  <2>1. t.at = "sent" /\ Loading(t) /\ Replaced(tasks, tasks', i, u) /\ UNCHANGED <<server, shown>>
    BY <1>8 DEF Answers
  <2>2. /\ Loading(u) /\ u.calls = t.calls /\ u.mount = t.mount /\ u.target = t.target /\ u.content = Answer(u.target, server)
    BY <1>1, <2>1, AnsweredIs, AnswersAreScreens
  <2> HIDE DEF u
  <2>3. Writers(tasks', mount, place)
    BY <1>5, <2>1, <2>2, WritersReplaced
  <2>4. Fresh(tasks', mount, place, server, shown)
    BY <1>5, <2>1, <2>2, FreshAnswered
  <2> QED BY <1>5, <2>1, <2>3, <2>4
<1>9. CASE Obeyed(i)
  <2> DEFINE d == t.calls[t.n]
             ok == ~Refuses(server, d)
             u == Back(t, ok)
  <2>1. /\ t.at = "sent" /\ ~Loading(t) /\ Replaced(tasks, tasks', i, u) /\ ok \in BOOLEAN /\ server' = Obeys(server, d)
        /\ UNCHANGED shown
    BY <1>9 DEF Obeyed
  <2>2. t.n \in DOMAIN t.calls /\ IsCall(d)
    BY <1>1, <2>1 DEF Loading
  <2>3. ~ok => server' = server
    BY <2>1 DEF Obeys
  <2>4. Leads(place, server'.keys, walks)
    <3>1. walks => server'.keys = server.keys
      BY <1>1, <2>1, <2>2, QuietCalls DEF ConsoleQuiet, Quiet, walks
    <3> QED BY <1>5, <3>1, LeadsStay
  <2> HIDE DEF ok, d
  <2>5. /\ ~Loading(u) /\ u.calls = t.calls /\ u.mount = t.mount /\ u.target = t.target /\ u.upload = t.upload /\ u.n = t.n
        /\ u.at = "back" /\ u.ok = ok
    BY <1>1, <2>1, BackIs
  <2> HIDE DEF u
  <2>6. Writers(tasks', mount, place)
    BY <1>5, <2>1, <2>5, WritersReplaced
  <2>7. Owes(u) \/ (server' = server /\ ~Owes(t))
    BY <2>1, <2>3, <2>5 DEF Owes
  <2>8. Fresh(tasks', mount, place, server', shown)
    BY <1>5, <2>1, <2>5, <2>7, FreshReplaced
  <2> QED BY <2>1, <2>4, <2>6, <2>8
<1>10. CASE Shows(i)
  <2>1. /\ t.at = "back" /\ Loading(t) /\ Removed(tasks, tasks', i) /\ UNCHANGED server
        /\ shown' = IF ~Mine(t) THEN shown ELSE IF t.ok THEN t.content ELSE [shown EXCEPT !.loading = FALSE]
        /\ Mine(t) => \A j \in 1 .. i - 1 : ~ (Mine(tasks[j]) /\ Loading(tasks[j]))
    BY <1>3, <1>10 DEF Shows
  <2>2. Writers(tasks', mount, place)
    BY <1>1, <1>5, <2>1, WritersRemoved
  <2>3. ~Owes(t) /\ t.ok
    BY <1>7, <2>1 DEF Owes, Oks
  <2>4. CASE ~Mine(t)
    BY <1>1, <1>5, <2>1, <2>2, <2>3, <2>4, FreshWithout DEF Awaits, Mine
  <2>5. CASE Mine(t) /\ \E k \in DOMAIN tasks : k > i /\ Awaits(tasks[k], mount)
    <3>1. Fresh(tasks', mount, place, server, shown')
      BY <1>1, <1>5, <2>1, <2>3, <2>5, FreshWithout
    <3> QED BY <1>5, <2>1, <2>2, <3>1
  <2>6. CASE Mine(t) /\ ~ \E k \in DOMAIN tasks : k > i /\ Awaits(tasks[k], mount)
    <3>1. \A k \in DOMAIN tasks \ {i} : k \in 1 .. i - 1 \/ k > i
      BY <1>1, Places
    <3>2. \A k \in DOMAIN tasks \ {i} : ~Awaits(tasks[k], mount)
      BY <2>1, <2>6, <3>1 DEF Awaits, Mine
    <3>3. Awaits(t, mount) /\ shown' = t.content
      BY <2>1, <2>3, <2>6 DEF Awaits, Mine
    <3>4. Fresh(tasks', mount, place, server, t.content)
      BY <1>1, <1>5, <2>1, <3>2, <3>3, FreshShown
    <3> QED BY <1>5, <2>1, <2>2, <3>3, <3>4
  <2> QED BY <2>4, <2>5, <2>6
<1>11. CASE Fails(i)
  <2>1. t.at = "back" /\ ~Loading(t) /\ ~t.upload /\ ~t.ok /\ Removed(tasks, tasks', i) /\ UNCHANGED <<server, shown>>
    BY <1>11 DEF Fails
  <2>2. ~Owes(t)
    <3>1. t.n =< Len(t.calls)
      BY <1>1, <2>1 DEF Loading
    <3>2. Len(t.calls) = 0 \/ Len(t.calls) = 1 \/ Len(t.calls) = 2
      BY <1>1, <2>1 DEF IsTask, IsClick
    <3>3. Len(t.calls) = 2 => t.n # 2
      BY <1>7, <2>1 DEF Second
    <3>4. t.n = 1
      BY <1>1, <3>1, <3>2, <3>3
    <3> QED BY <2>1, <3>4 DEF Owes
  <2>3. ~Awaits(t, mount)
    BY <2>1 DEF Awaits
  <2>4. Fresh(tasks', mount, place, server, shown)
    BY <1>1, <1>5, <2>1, <2>2, <2>3, FreshWithout
  <2> QED BY <1>1, <1>5, <2>1, <2>4, WritersRemoved
<1>12. CASE CallsOn(i)
  <2> DEFINE u == Onward(t)
  <2>1. t.at = "back" /\ t.n < Len(t.calls) /\ Replaced(tasks, tasks', i, u) /\ UNCHANGED <<server, shown>>
    BY <1>12 DEF CallsOn
  <2>2. ~Loading(t) /\ t.n # Len(t.calls)
    BY <1>1, <2>1 DEF Loading
  <2>3. /\ u.calls = t.calls /\ u.mount = t.mount /\ u.target = t.target /\ u.n = t.n + 1 /\ ~Loading(u)
    BY <1>1, <2>1, <2>2, OnwardIs
  <2> HIDE DEF u
  <2>4. Owes(u)
    <3>1. t.n + 1 > 1
      BY <1>1
    <3> QED BY <2>3, <3>1 DEF Owes
  <2>5. Writers(tasks', mount, place)
    BY <1>5, <2>1, <2>3, WritersReplaced
  <2>6. Fresh(tasks', mount, place, server, shown)
    BY <1>5, <2>1, <2>2, <2>3, <2>4, FreshReplaced
  <2> QED BY <1>5, <2>1, <2>5, <2>6
<1>13. CASE Refreshes(i)
  <2> DEFINE u == Onward(t)
  <2>1. PICK v : Removed(tasks, v, i) /\ Added(v, tasks', u)
    BY <1>13 DEF Refreshes
  <2>2. t.n = Len(t.calls) /\ UNCHANGED server
    BY <1>13 DEF Refreshes
  <2>3. ~Loading(t)
    BY <1>1, <2>2 DEF Loading
  <2>4. u.calls = t.calls /\ u.mount = t.mount /\ u.target = t.target /\ u.at = "sent" /\ Loading(u)
    BY <1>1, <2>2, <2>3, OnwardIs
  <2> HIDE DEF u
  <2>5. t.calls # <<>>
    <3>1. Len(<<>>) = 0
      OBVIOUS
    <3> QED BY <1>1, <2>2, <3>1
  <2>6. Awaits(u, mount) /\ u.target = Target(place) /\ Writes(u, mount, place)
    BY <1>6, <2>4, <2>5 DEF Writes, Awaits
  <2>7. IsSequence(v) /\ Writers(v, mount, place)
    BY <1>1, <1>5, <2>1, WritersRemoved DEF Removed
  <2>8. Writers(tasks', mount, place)
    BY <2>1, <2>6, <2>7, WritersAdded
  <2>9. Fresh(tasks', mount, place, server, shown')
    BY <2>1, <2>4, <2>6, <2>7, FreshWithLoad
  <2> QED BY <1>5, <2>2, <2>8, <2>9
<1> QED BY <1>4, <1>8, <1>9, <1>10, <1>11, <1>12, <1>13 DEF Runs

LEMMA FreshStep ==
  ASSUME ConsoleTypes, ConsoleOks, ConsoleKeeps, ConsoleQuiet, ConsoleFresh, [ConsoleNext]_consoleVars
  PROVE  ConsoleFresh'
<1>1. /\ IsSequence(tasks) /\ IsPlace(place) /\ IsScreen(shown) /\ rash \in BOOLEAN /\ lost \in BOOLEAN /\ losses \in Nat
      /\ \A j \in DOMAIN tasks : Handles(tasks[j], mount) /\ IsTask(tasks[j])
  BY DEF ConsoleTypes, Handles
<1> DEFINE walks == tour.deeds = {"walk"}
<1>2. CASE \E i \in DOMAIN tasks : Runs(i)
  BY <1>2, FreshRun
<1>3. CASE Closes \/ (Walks /\ Stays)
  <2>1. UNCHANGED <<tour, server, place, mount, shown, tasks, losses, rash, lost>>
    <3>1. CASE Closes
      BY <3>1 DEF Closes
    <3>2. CASE Walks /\ Stays
      BY <3>2 DEF Walks, Stays
    <3> QED BY <1>3, <3>1, <3>2
  <2> QED BY <2>1 DEF ConsoleFresh, Undisturbed
<1>4. CASE (Mounts \/ Reloads) /\ UNCHANGED <<tour, server, losses, rash>>
  <2>1. SUFFICES ASSUME ~rash, losses = 0, ~lost', tour.screens # {}
                 PROVE  /\ Writers(tasks', mount', place') /\ Fresh(tasks', mount', place', server, shown')
                        /\ Leads(place', server.keys, walks)
    BY <1>4 DEF ConsoleFresh, Undisturbed
  <2>2. PICK s, u : /\ IsSequence(s) /\ Added(s, tasks', u) /\ Awaits(u, mount') /\ u.target = Target(place') /\ u.at = "sent"
                    /\ u.calls = <<>>
                    /\ s = tasks \/ \E v : Added(tasks, s, v) /\ v.calls = <<>>
    BY <1>4, WalksLoad
  <2>3. ~Writing
    BY <1>4, <2>1 DEF Mounts, Reloads
  <2>4. Writers(tasks', mount', place')
    <3>1. Writers(tasks, mount', place')
      BY <2>3 DEF Writers, Writes, Writing
    <3>2. \A v : v.calls = <<>> => Writes(v, mount', place')
      BY DEF Writes
    <3>3. Writers(s, mount', place')
      BY <1>1, <2>2, <3>1, <3>2, WritersAdded
    <3> QED BY <2>2, <3>2, <3>3, WritersAdded
  <2>5. Fresh(tasks', mount', place', server, shown')
    BY <2>2, FreshWithLoad
  <2>6. Leads(place', server.keys, walks)
    <3> HIDE DEF walks
    <3>1. ~lost => /\ Fresh(tasks, mount, place, server, shown) /\ Leads(place, server.keys, walks)
      BY <2>1 DEF ConsoleFresh, Undisturbed, walks
    <3>2. CASE place'.tokens = <<0>>
      BY <3>2, LeadsFromStart
    <3>3. CASE ~lost /\ place'.tokens = place.tokens /\ place'.folder = place.folder
      BY <3>1, <3>3, LeadsStay
    <3>4. CASE ~lost /\ place'.tokens = place.tokens /\ Len(place.tokens) =< 1
      BY <1>1, <3>1, <3>4, LeadsFirst
    <3>5. CASE /\ ~lost /\ ~Waiting /\ place.screen = "files" /\ place'.folder = place.folder
               /\ shown.listing.next # 0 /\ place.page = Len(place.tokens)
               /\ place'.tokens = Append(place.tokens, shown.listing.next)
      <4>1. ~Awaited(tasks, mount)
        BY <3>5 DEF Awaited, Awaits, Waiting, Mine
      <4>2. Settled(tasks)
        <5>1. Len(<<>>) = 0 /\ \A n \in Nat \ {0} : n > 0
          OBVIOUS
        <5>2. \A j \in DOMAIN tasks : tasks[j].calls = <<>>
          BY <2>3 DEF Writing
        <5>3. \A j \in DOMAIN tasks : Loading(tasks[j])
          BY <1>1, <5>1, <5>2 DEF Loading, IsTask
        <5> QED BY <5>3 DEF Settled, Owes
      <4>3. shown.listing = PageAt(place.folder, place.tokens[place.page], server.keys)
        <5>1. ShowsAnswer(place, server, shown)
          BY <3>1, <3>5, <4>1, <4>2 DEF Fresh
        <5> QED BY <3>5, <5>1 DEF ShowsAnswer, Answer, Target
      <4> QED BY <1>1, <3>1, <3>5, <4>3, LeadsFurther
    <3>6. CASE Mounts
      BY <3>2, <3>6 DEF Mounts
    <3>7. CASE Reloads
      BY <2>1, <3>2, <3>3, <3>4, <3>5, <3>7 DEF Reloads
    <3> QED BY <1>4, <3>6, <3>7
  <2> QED BY <2>4, <2>5, <2>6
<1>5. CASE Types
  <2>1. PICK text : shown' = [shown EXCEPT !.text = text, !.typed = TRUE]
    BY <1>5, Zenon DEF Types
  <2>2. shown'.listing = shown.listing /\ shown'.rows = shown.rows /\ shown'.typed
    BY <1>1, <2>1 DEF IsScreen
  <2>3. ShowsAnswer(place, server, shown) => ShowsAnswer(place, server, shown')
    BY <2>2 DEF ShowsAnswer
  <2>4. Fresh(tasks, mount, place, server, shown) => Fresh(tasks, mount, place, server, shown')
    BY <2>3 DEF Fresh
  <2>5. UNCHANGED <<tour, server, place, mount, tasks, losses, rash, lost>>
    BY <1>5 DEF Types
  <2> QED BY <2>4, <2>5 DEF ConsoleFresh, Undisturbed
<1>6. ASSUME NEW t, Added(tasks, tasks', t), t.mount = mount, t.target = Target(place), t.at = "sent",
             UNCHANGED <<tour, server, place, mount, shown, losses, lost>>, ~rash' => ~rash
      PROVE  ConsoleFresh'
  <2>1. SUFFICES ASSUME Writers(tasks, mount, place), Fresh(tasks, mount, place, server, shown)
                 PROVE  Writers(tasks', mount, place) /\ Fresh(tasks', mount, place, server, shown)
    BY <1>6 DEF ConsoleFresh, Undisturbed
  <2>2. Writers(tasks', mount, place)
    BY <1>1, <1>6, <2>1, WritersAdded DEF Writes
  <2>3. CASE Awaits(t, mount)
    BY <1>1, <1>6, <2>2, <2>3, FreshWithLoad
  <2>4. CASE ~Awaits(t, mount)
    BY <1>1, <1>6, <2>1, <2>2, <2>4, FreshWithCall
  <2> QED BY <2>3, <2>4
<1>7. ASSUME NEW calls, Clicks1(calls) PROVE ConsoleFresh'
  BY <1>6, <1>7, ClickStarts
<1>8. ASSUME NEW calls, Dropped(calls), IsSequence(calls), IsDrop(calls) PROVE ConsoleFresh'
  <2>1. UNCHANGED <<tour, server, place, mount, shown, losses, lost>> /\ (~rash' => ~rash)
    BY <1>8 DEF Dropped
  <2>2. CASE rash'
    BY <2>2 DEF ConsoleFresh, Undisturbed
  <2> QED BY <1>6, <1>8, <2>1, <2>2, DropStarts
<1>9. Walks => Stays \/ ((Mounts \/ Reloads) /\ UNCHANGED <<tour, server, losses, rash>>)
  BY DEF Walks
<1> QED BY <1>2, <1>3, <1>4, <1>5, <1>7, <1>8, <1>9, StepsAre

-----------------------------------------------------------------------------
(* The invariant, and what it says. *)

ConsoleInv ==
    ConsoleTypes /\ ConsoleLoops /\ ConsoleAwaits /\ ConsoleOks /\ ConsoleKeeps /\ ConsoleQuiet /\ ConsoleFresh

LEMMA ConsoleStartsWell ==
  ASSUME ConsoleInit
  PROVE  ConsoleInv
<1>1. ConsoleTypes
  BY TypesInit
<1>2. /\ IsServer(server) /\ IsPlace(place) /\ IsSequence(tasks) /\ mount = 0 /\ mount \in Nat
      /\ \A i \in DOMAIN tasks : IsTask(tasks[i])
  BY <1>1 DEF ConsoleTypes, ConsoleInit, Handles
<1>3. place = FirstPage(tour.url) /\ place.tokens = <<0>> /\ meant = server
      /\ tasks = IF tour.screens = {} THEN <<>> ELSE <<Loads(place, mount)>>
  BY DEF ConsoleInit, FirstPage
<1> DEFINE t == Loads(place, mount)
<1>4. /\ t.calls = <<>> /\ Loading(t) /\ t.at = "sent" /\ ~t.upload /\ t.mount = mount /\ t.target = Target(place) /\ Left(t) = {}
  BY <1>2, LoadsAre
<1> HIDE DEF t
<1>5. IsSequence(<<>>) /\ DOMAIN <<>> = {} /\ Len(<<>>) = 0
  <2>1. <<>> \in Seq({}) /\ DOMAIN <<>> = {} /\ Len(<<>>) = 0
    OBVIOUS
  <2> QED BY <2>1, SequencesAre
<1>6. tour.screens = {} => tasks = <<>>
  BY <1>3
<1>7. tour.screens # {} => Added(<<>>, tasks, t)
  <2>1. <<t>> = Append(<<>>, t)
    OBVIOUS
  <2> QED BY <1>3, <1>5, <2>1, AppendAdds DEF t
<1>8. \A i \in DOMAIN tasks : tasks[i] = t
  <2>1. CASE tour.screens = {}
    BY <1>5, <1>6, <2>1
  <2>2. CASE tour.screens # {}
    <3>1. DOMAIN tasks = 1 .. 1 /\ tasks[1] = t
      BY <1>5, <1>7, <2>2 DEF Added
    <3> QED BY <3>1
  <2> QED BY <2>1, <2>2
<1>9. ConsoleLoops
  BY <1>4, <1>8 DEF ConsoleLoops, OneLoop, Loops
<1>10. ConsoleAwaits
  <2>1. tour.screens # {} => Awaited(tasks, mount)
    BY <1>4, <1>5, <1>7, AwaitedAdded DEF Awaits
  <2> QED BY <2>1 DEF ConsoleAwaits
<1>11. ConsoleOks
  BY <1>4, <1>8 DEF ConsoleOks, Oks
<1>12. ConsoleQuiet
  BY <1>4, <1>5, <1>8 DEF ConsoleQuiet, Quiet
<1>13. ConsoleKeeps
  <2>1. \A d : SameFor(server, server, d)
    BY SameGoesOn
  <2>2. \A i \in DOMAIN tasks : Left(tasks[i]) = {} /\ Second(server, tasks[i])
    BY <1>2, <1>4, <1>8, LoadsLeaveNothing
  <2>3. Effects(tasks, server, server)
    BY <2>1, <2>2 DEF Effects, Apart, Comes
  <2> QED BY <1>3, <2>3 DEF ConsoleKeeps
<1>14. ConsoleFresh
  <2> SUFFICES ASSUME tour.screens # {}
               PROVE  /\ Writers(tasks, mount, place) /\ Fresh(tasks, mount, place, server, shown)
                      /\ Leads(place, server.keys, tour.deeds = {"walk"})
    BY DEF ConsoleFresh, Undisturbed
  <2>1. Writers(tasks, mount, place)
    BY <1>4, <1>8 DEF Writers, Writes
  <2>2. Fresh(tasks, mount, place, server, shown)
    <3>1. Added(<<>>, tasks, t) /\ Awaits(t, mount)
      BY <1>4, <1>7 DEF Awaits
    <3> QED BY <1>4, <1>5, <3>1, FreshWithLoad
  <2>3. Leads(place, server.keys, tour.deeds = {"walk"})
    BY <1>3, LeadsFromStart
  <2> QED BY <2>1, <2>2, <2>3
<1> QED BY <1>1, <1>9, <1>10, <1>11, <1>12, <1>13, <1>14 DEF ConsoleInv

LEMMA ConsoleGoesOn ==
  ASSUME ConsoleInv, [ConsoleNext]_consoleVars
  PROVE  ConsoleInv'
BY TypesStep, LoopsStep, AwaitsStep, OksStep, KeepsStep, QuietStep, FreshStep DEF ConsoleInv

LEMMA ConsoleInvTellsTheTruth ==
  ASSUME ConsoleInv
  PROVE  ConsoleTellsTheTruth
<1>1. Cardinality({i \in DOMAIN tasks : tasks[i].upload /\ Mine(tasks[i]) /\ ~Loading(tasks[i])}) =< 1
  <2> DEFINE S == {i \in DOMAIN tasks : tasks[i].upload /\ Mine(tasks[i]) /\ ~Loading(tasks[i])}
  <2>1. \A i, j \in S : i = j
    BY DEF ConsoleInv, ConsoleLoops, OneLoop, Loops, Mine
  <2> HIDE DEF S
  <2>2. S = {} \/ \E i : S = {i}
    BY <2>1
  <2>3. Cardinality(S) = 0 \/ Cardinality(S) = 1
    BY <2>2, FS_EmptySet, FS_Singleton
  <2> QED BY <2>3 DEF S
<1>2. ASSUME tasks = <<>>, losses = 0, tour.screens # {}
      PROVE  /\ ~shown.loading
             /\ ~lost /\ ~rash => ShowsPlace
             /\ ~rash => server = meant
  <2>1. DOMAIN tasks = {}
    BY <1>2
  <2>2. ~Awaited(tasks, mount)
    BY <2>1 DEF Awaited
  <2>3. ~shown.loading
    BY <1>2, <2>2 DEF ConsoleInv, ConsoleAwaits
  <2>4. ASSUME ~lost, ~rash PROVE ShowsPlace
    <3>1. Fresh(tasks, mount, place, server, shown) /\ Leads(place, server.keys, tour.deeds = {"walk"})
      BY <1>2, <2>4 DEF ConsoleInv, ConsoleFresh, Undisturbed
    <3>2. Settled(tasks)
      BY <2>1 DEF Settled
    <3>3. ShowsAnswer(place, server, shown)
      BY <2>2, <3>1, <3>2 DEF Fresh
    <3>4. TokensLead
      BY <3>1 DEF Leads, TokensLead
    <3>5. /\ shown.listing = Answer(Target(place), server).listing
          /\ shown.rows = Answer(Target(place), server).rows
          /\ place.screen = "policy" => shown.typed \/ shown.text = Answer(Target(place), server).text
          /\ place.screen \in Tables \cup {"files", "policy"}
      BY <3>3 DEF ShowsAnswer, ConsoleInv, ConsoleTypes, IsPlace
    <3>6. CASE place.screen = "files"
      BY <3>4, <3>5, <3>6 DEF ShowsPlace, Answer, Target
    <3>7. CASE place.screen \in Tables
      <4>1. place.screen # "files"
        BY <3>7 DEF Tables
      <4>2. Target(place).screen = place.screen
        BY DEF Target
      <4>3. \A a, srv : Answer(a, srv).rows = IF a.screen \in Tables THEN srv.rows ELSE <<>>
        BY DEF Answer
      <4>4. shown.rows = server.rows
        BY <3>5, <3>7, <4>2, <4>3
      <4> QED BY <3>7, <4>1, <4>4 DEF ShowsPlace
    <3>8. CASE place.screen = "policy"
      <4>1. place.screen # "files" /\ place.screen \notin Tables
        BY <3>8 DEF Tables
      <4>2. shown.typed \/ shown.text = server.document
        BY <3>5, <3>8 DEF Answer, Target
      <4> QED BY <4>1, <4>2 DEF ShowsPlace
    <3> QED BY <3>5, <3>6, <3>7, <3>8
  <2>5. ASSUME ~rash PROVE server = meant
    <3>1. Effects(tasks, server, meant)
      BY <1>2, <2>5 DEF ConsoleInv, ConsoleKeeps
    <3>2. \A d : ~Touched(tasks, d)
      BY <2>1 DEF Touched
    <3>3. \A d : IsProbe(d) => SameFor(meant, server, d)
      BY <3>1, <3>2 DEF Effects
    <3>4. IsServer(server) /\ IsServer(meant)
      BY DEF ConsoleInv, ConsoleTypes
    <3> QED BY <3>3, <3>4, SameForAllIsEqual
  <2> QED BY <2>3, <2>4, <2>5
<1> QED BY <1>1, <1>2 DEF ConsoleTellsTheTruth

\* What every step of the console keeps: what waits is a handler of a click or a
\* load; one loop of uploads in a panel; somebody loads a screen that is loading;
\* what the API has and what is still to be called come to what was clicked; and
\* the last load of a screen has its answer, unless a handler that has changed
\* something is still to refresh it.
THEOREM ConsoleKeepsInv == ConsoleSpec => []ConsoleInv
<1>1. ConsoleInit => ConsoleInv
  BY ConsoleStartsWell
<1>2. ConsoleInv /\ [ConsoleNext]_consoleVars => ConsoleInv'
  BY ConsoleGoesOn
<1> QED BY <1>1, <1>2, PTL DEF ConsoleSpec

\* The screens of the web console (FileBrowser, UploadPanel, the tables, the policy
\* editor): for any clicks, any number of handlers that wait and any order of
\* requests and answers, when all is answered a screen shows what the API has for
\* its URL, the API has what the clicks were to come to, and two loops of
\* UploadPanel.send never run in one panel.
THEOREM ScreensTellTheTruth == ConsoleSpec => []ConsoleTellsTheTruth
<1>1. ConsoleInv => ConsoleTellsTheTruth
  BY ConsoleInvTellsTheTruth
<1> QED BY <1>1, ConsoleKeepsInv, PTL
=============================================================================
